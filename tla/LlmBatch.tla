------------------------------- MODULE LlmBatch -------------------------------
(***************************************************************************)
(* The LLM jobs of a task, either way: with llm_fanout_enabled the batch   *)
(* of module Fanout, otherwise, and always in POST /tasks/sync,            *)
(* reason_multi: ONE call to Gemini for all the jobs, one repair, and the  *)
(* items of the answer paired with the jobs by position.                   *)
(*                                                                         *)
(* The list of jobs in the prompt passes through serialize_for_prompt,     *)
(* which cuts every list, and nothing in an item says which job it is for; *)
(* so an answer may have any number of items, each written for any job.    *)
(***************************************************************************)
EXTENDS Fanout, Sequences

VARIABLES
  llm_fanout_enabled,
  items,      \* of each item of the parsed answer, the job Gemini wrote it for
  given,      \* of each job, the position of the item it goes out with, or 0
  oneCall     \* "idle", "first", "repair", "over"

oneVars == <<items, given, oneCall>>
batchVars == <<vars, llm_fanout_enabled, oneVars>>

BatchInit ==
  /\ Init
  /\ llm_fanout_enabled \in BOOLEAN
  /\ items = <<>> /\ oneCall = "idle"
  /\ given = [j \in Job |-> 0]

\* Module Fanout, when it is chosen.
FanoutStep(A) == llm_fanout_enabled /\ A /\ UNCHANGED <<llm_fanout_enabled, oneVars>>

-----------------------------------------------------------------------------
(* reason_multi.                                                           *)

fanoutUnused == <<llm_fanout_enabled, llm_fanout_concurrency, dna, permits, pc, calls>>

\* The prompt of all jobs, and the call.
AskOnce ==
  /\ ~llm_fanout_enabled /\ phase = "new" /\ oneCall = "idle"
  /\ oneCall' = "first"
  /\ UNCHANGED <<fanoutUnused, phase, last, verdict, fatal, items, given>>

\* Every job shares the fate of the batch.
AllFailed(reply) ==
  /\ last' = [j \in Job |-> reply]
  /\ verdict' = [j \in Job |-> "FAILED"]

\* The items an answer may have: too few, too many, in any order, several for one
\* job.
Written == UNION {[1..n -> Job] : n \in 0..N + 1}

\* Mutant: items[idx - 1], which for the first job is the last item.
PairedBefore(answer, j) ==
  IF j > Len(answer) THEN 0 ELSE IF j = 1 THEN Len(answer) ELSE j - 1

\* multi_output.items[idx] for the job at idx, if there are so many.
Paired(answer, j) == IF j > Len(answer) THEN 0 ELSE j

\* The answer parses as MultiEnrichmentOutput.
Stitch(answer) ==
  /\ items' = answer
  /\ given' = [j \in Job |-> Paired(answer, j)]
  /\ verdict' = [j \in Job |-> IF given'[j] = 0 THEN "FAILED" ELSE "own"]
  /\ last' = [j \in Job |-> IF given'[j] = 0 THEN "missing" ELSE "valid"]

Repairs(reply) == reply # "timeout"

\* Gemini answers; without a usable answer there is one repair, of what is no
\* timeout.
AnswerOnce(reply, answer) ==
  /\ oneCall \in {"first", "repair"}
  /\ \/ /\ reply = "valid" /\ Stitch(answer)
        /\ oneCall' = "over"
     \/ /\ reply # "valid"
        /\ oneCall = "first" /\ Repairs(reply)
        /\ oneCall' = "repair"
        /\ UNCHANGED <<last, verdict, items, given>>
     \/ /\ reply # "valid"
        /\ ~(oneCall = "first" /\ Repairs(reply))
        /\ AllFailed(reply) /\ oneCall' = "over"
        /\ UNCHANGED <<items, given>>
  /\ UNCHANGED <<fanoutUnused, phase, fatal>>

\* As FailWhole: before the call there is no job to ask for; at any time
\* something raises, validate_and_correct too, and the caller catches it.
FailOnce ==
  /\ ~llm_fanout_enabled /\ oneCall # "over"
  /\ fatal' = TRUE /\ oneCall' = "over"
  /\ UNCHANGED <<fanoutUnused, phase, last, verdict, items, given>>

ReturnOnce ==
  /\ oneCall = "over" /\ phase = "new"
  /\ phase' = "returned"
  /\ UNCHANGED <<fanoutUnused, last, verdict, fatal, oneVars>>

Once ==
  \/ AskOnce \/ FailOnce \/ ReturnOnce
  \/ \E reply \in Reply, answer \in Written : AnswerOnce(reply, answer)

-----------------------------------------------------------------------------
BatchNext == FanoutStep(Next) \/ Once

BatchSpec == BatchInit /\ [][BatchNext]_batchVars

\* As in Fanout; the one call ends by the timeout of the client, too.
FairBatchSpec ==
  /\ BatchSpec
  /\ WF_batchVars(Once)
  /\ WF_batchVars(FanoutStep(Whole))
  /\ \A j \in Job : WF_batchVars(FanoutStep(Work(j)))

-----------------------------------------------------------------------------
(* Properties.                                                             *)

\* Does the answer have its items in the order of the prompt?
InOrder == \A p \in 1..Len(items) : p \in Job => items[p] = p

\* Without the fan-out, the jobs and the items of the one answer, however many and
\* written for whomever, are paired one to one: no item goes out twice or is left
\* over while a job fails, and as long as Gemini keeps the order of the prompt, no
\* job goes out with the post written for another one.
PairedInOrder ==
  ~llm_fanout_enabled =>
    /\ \A j \in Job : verdict[j] \notin {"undecided", "FAILED"} =>
         /\ given[j] \in DOMAIN items
         /\ InOrder => items[given[j]] = j
         /\ \A i \in Job \ {j} : given[i] # given[j]
    /\ \A j \in Job : verdict[j] = "FAILED" =>
         \A p \in DOMAIN items : \E i \in Job : given[i] = p

=============================================================================
