-------------------------------- MODULE Fanout --------------------------------
(***************************************************************************)
(* reason_multi_fanout: one call of extract_brand_dna, then one reason()   *)
(* per job, each in a thread, as many at a time as the semaphore lets in.  *)
(* reason() is the cycle of a first call to Gemini, a repair, and a        *)
(* compact repair of a truncated answer.  Gemini is external: any call may *)
(* return a usable answer, an invalid one, a truncated one, an error, or   *)
(* run into its deadline.                                                  *)
(***************************************************************************)
EXTENDS Integers, FiniteSets

CONSTANTS
  N,            \* jobs of the batch
  Concurrency   \* the values LLM_FANOUT_CONCURRENCY may have

\* Without a job the batch fails before it begins.
ASSUME FanoutAssumption == N \in Nat \ {0} /\ Concurrency \subseteq Int

Job == 1..N
Reply == {"valid", "invalid", "truncated", "error", "timeout"}
Calling == {"first", "repair", "compact"}    \* the calls one reason() may make

VARIABLES
  llm_fanout_concurrency,
  phase,     \* "new", "dna", "fanned", "returned"
  dna,       \* brand_dna_str: "none" or "shared"
  permits,   \* of the semaphore
  pc,        \* of each _run_one: "queued", one of Calling, "over"
  calls,     \* Gemini calls made for each job
  last,      \* reply to the last of them
  verdict,   \* "undecided", "FAILED", or which brand_dna a COMPLETED one carries:
             \* its "own" or the "shared" one
  fatal      \* did the batch come back as one FAILED without a job?

vars == <<llm_fanout_concurrency, phase, dna, permits, pc, calls, last, verdict, fatal>>

Init ==
  /\ llm_fanout_concurrency \in Concurrency
  /\ phase = "new" /\ dna = "none" /\ permits = 0
  /\ pc = [j \in Job |-> "queued"]
  /\ calls = [j \in Job |-> 0]
  /\ last = [j \in Job |-> "none"]
  /\ verdict = [j \in Job |-> "undecided"]
  /\ fatal = FALSE

\* normalize raises ValueError or leaves no job; or extract_brand_dna raises what
\* it does not turn into None, and the caller catches it.  Either way one FAILED
\* without a job stands for the batch.
FailWhole ==
  /\ phase \in {"new", "dna"}
  /\ phase' = "returned" /\ fatal' = TRUE
  /\ UNCHANGED <<llm_fanout_concurrency, dna, permits, pc, calls, last, verdict>>

\* extract_brand_dna calls Gemini in the coroutine itself.
AskDna ==
  /\ phase = "new"
  /\ phase' = "dna"
  /\ UNCHANGED <<llm_fanout_concurrency, dna, permits, pc, calls, last, verdict, fatal>>

\* Mutant: the semaphore gets the setting as it is.
WidthUnclamped == llm_fanout_concurrency

Width == IF llm_fanout_concurrency < 1 THEN 1 ELSE llm_fanout_concurrency

\* Its answer, or None after any failure; then asyncio.gather starts the jobs.
FanOut ==
  /\ phase = "dna"
  /\ phase' = "fanned"
  /\ dna' \in {"none", "shared"}
  /\ permits' = Width
  /\ UNCHANGED <<llm_fanout_concurrency, pc, calls, last, verdict, fatal>>

\* asyncio.Semaphore is first come, first served.
Admitted(j) ==
  /\ phase = "fanned" /\ permits > 0
  /\ pc[j] = "queued" /\ \A i \in Job : i < j => pc[i] # "queued"

Start(j) ==
  /\ Admitted(j)
  /\ permits' = permits - 1
  /\ pc' = [pc EXCEPT ![j] = "first"]
  /\ calls' = [calls EXCEPT ![j] = 1]
  /\ UNCHANGED <<llm_fanout_concurrency, phase, dna, last, verdict, fatal>>

\* The call that follows a reply without an enrichment.
Retry(step, reply) ==
  IF step = "first" /\ reply # "timeout" THEN "repair"
  ELSE IF step = "repair" /\ reply = "truncated" THEN "compact"
  ELSE "over"

\* precomputed_brand_dna replaces the brand_dna of the answer.
BrandDna(j) == IF dna = "shared" THEN "shared" ELSE "own"

\* Mutant: the permit is kept when a job fails.
LeaveUnlessValid(j, v) ==
  /\ verdict' = [verdict EXCEPT ![j] = v]
  /\ permits' = IF v = "FAILED" THEN permits ELSE permits + 1

\* The end of reason(): async with releases the permit.
Leave(j, v) ==
  /\ verdict' = [verdict EXCEPT ![j] = v]
  /\ permits' = permits + 1

\* normalize raises ValueError, or an edit_post has no prior_post.
Refuse(j) ==
  /\ Admitted(j)
  /\ pc' = [pc EXCEPT ![j] = "over"]
  /\ last' = [last EXCEPT ![j] = "refused"]
  /\ verdict' = [verdict EXCEPT ![j] = "FAILED"]
  /\ UNCHANGED <<llm_fanout_concurrency, phase, dna, permits, calls, fatal>>

\* Gemini answers.  validate_and_correct corrects and never blocks.
Answer(j, reply) ==
  /\ pc[j] \in Calling
  /\ last' = [last EXCEPT ![j] = reply]
  /\ LET to == IF reply = "valid" THEN "over" ELSE Retry(pc[j], reply)
     IN  /\ pc' = [pc EXCEPT ![j] = to]
         /\ \/ /\ to = "over"
               /\ Leave(j, IF reply = "valid" THEN BrandDna(j) ELSE "FAILED")
               /\ UNCHANGED calls
            \/ /\ to # "over"
               /\ calls' = [calls EXCEPT ![j] = @ + 1]
               /\ UNCHANGED <<permits, verdict>>
  /\ UNCHANGED <<llm_fanout_concurrency, phase, dna, fatal>>

\* Mutant: gather without return_exceptions.
RaisePoisons(j) ==
  /\ verdict' = [i \in Job |-> "FAILED"]
  /\ permits' = permits + 1

RaiseVerdict(j) == Leave(j, "FAILED")

\* reason() raises anything else; gather returns the exception in its place.
Raise(j) ==
  /\ pc[j] \in Calling
  /\ pc' = [pc EXCEPT ![j] = "over"]
  /\ last' = [last EXCEPT ![j] = "raised"]
  /\ RaiseVerdict(j)
  /\ UNCHANGED <<llm_fanout_concurrency, phase, dna, calls, fatal>>

\* The stitching of the results in the order of the jobs.
Return ==
  /\ phase = "fanned" /\ \A j \in Job : pc[j] = "over"
  /\ phase' = "returned"
  /\ UNCHANGED <<llm_fanout_concurrency, dna, permits, pc, calls, last, verdict, fatal>>

Work(j) == Start(j) \/ Refuse(j) \/ Raise(j) \/ \E reply \in Reply : Answer(j, reply)

Whole == FailWhole \/ AskDna \/ FanOut \/ Return

Next == Whole \/ \E j \in Job : Work(j)

Spec == Init /\ [][Next]_vars

\* Each call of Gemini ends by the timeout of its client, and the threads and
\* the event loop keep running.
FairSpec ==
  Spec /\ WF_vars(Whole) /\ \A j \in Job : WF_vars(Work(j))

-----------------------------------------------------------------------------
(* Properties.                                                             *)

Running == {j \in Job : pc[j] \in Calling}

\* The bill of a batch is bounded: no job costs more than three calls.
FanoutTypeOK ==
  /\ phase \in {"new", "dna", "fanned", "returned"} /\ llm_fanout_concurrency \in Concurrency
  /\ dna \in {"none", "shared"} /\ permits \in Int
  /\ pc \in [Job -> Calling \union {"queued", "over"}]
  /\ calls \in [Job -> 0..3]
  /\ last \in [Job -> Reply \union {"none", "raised", "refused"}]
  /\ verdict \in [Job -> {"undecided", "FAILED", "own", "shared"}]
  /\ fatal \in BOOLEAN

\* Gemini is asked for at most LLM_FANOUT_CONCURRENCY jobs at a time, through repairs,
\* timeouts and exceptions, and no permit is lost or won on the way.
ConcurrencyBounded ==
  phase = "fanned" =>
    permits >= 0 /\ permits + Cardinality(Running) = Width

\* One bad job does not poison the batch: a job fails only by its own last reply.
FailsByItself ==
  \A j \in Job : verdict[j] = "FAILED" => last[j] \notin {"valid", "none"}

\* The batch fulfils the contract of its caller.
Contract == INSTANCE BatchContract WITH
              Verdict <- {"FAILED", "own", "shared"}, Undecided <- "undecided",
              returned <- phase = "returned"
ContractSpec == Contract!Spec

\* A batch returns, whatever becomes of its calls.
BatchReturns == <>(phase = "returned")

=============================================================================
