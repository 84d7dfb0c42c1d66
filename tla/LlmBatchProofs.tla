---------------------------- MODULE LlmBatchProofs ----------------------------
(***************************************************************************)
(* The LLM jobs of a task are run as promised for any number of jobs, any  *)
(* setting, and any answers, also of the wrong length: first the fan-out   *)
(* alone, then either way to run them.                                     *)
(***************************************************************************)
EXTENDS LlmBatch, FiniteSetTheorems, TLAPS

-----------------------------------------------------------------------------
(* reason_multi_fanout.                                                    *)

\* Where a job is tells how often it has asked Gemini and whether its verdict
\* is known.
Stage(j) ==
  /\ pc[j] = "queued" => calls[j] = 0
  /\ pc[j] = "first" => calls[j] = 1
  /\ pc[j] = "repair" => calls[j] = 2
  /\ pc[j] = "compact" => calls[j] = 3
  /\ pc[j] = "over" <=> verdict[j] # "undecided"
Stages == \A j \in Job : Stage(j)

\* Jobs move between the fan-out and the return only.
Phases ==
  /\ phase \in {"new", "dna"} \/ fatal => permits = 0 /\ \A j \in Job : pc[j] = "queued"
  /\ phase = "returned" /\ ~fatal => \A j \in Job : pc[j] = "over"
  /\ fatal => phase = "returned"

FanoutInv == FanoutTypeOK /\ Stages /\ Phases /\ ConcurrencyBounded /\ FailsByItself

LEMMA WidthType == FanoutTypeOK => Width \in Nat \ {0}
  BY FanoutAssumption DEF FanoutTypeOK, Width

\* The number of running jobs, when one job moves.
LEMMA RunningMoves ==
  ASSUME FanoutTypeOK, NEW j \in Job, NEW to \in Calling \union {"over"},
         pc' = [pc EXCEPT ![j] = to]
  PROVE  /\ Cardinality(Running) \in Nat /\ Cardinality(Running') \in Nat
         /\ pc[j] \notin Calling /\ to \in Calling =>
              Cardinality(Running') = Cardinality(Running) + 1
         /\ pc[j] \in Calling /\ to \notin Calling =>
              Cardinality(Running') = Cardinality(Running) - 1
         /\ (pc[j] \in Calling <=> to \in Calling) =>
              Cardinality(Running') = Cardinality(Running)
<1>1. IsFiniteSet(Job)
  BY FS_Interval, FanoutAssumption DEF Job
<1>2. IsFiniteSet(Running) /\ IsFiniteSet(Running')
  <2>1. Running \in SUBSET Job /\ Running' \in SUBSET Job
    BY DEF Running
  <2> QED
    BY <1>1, <2>1, FS_Subset
<1>3. Running' = IF to \in Calling THEN Running \union {j} ELSE Running \ {j}
  BY DEF FanoutTypeOK, Running
<1>4. j \in Running <=> pc[j] \in Calling
  BY DEF Running
<1>5. /\ Cardinality(Running) \in Nat /\ Cardinality(Running') \in Nat
      /\ Cardinality(Running \union {j}) =
           IF j \in Running THEN Cardinality(Running) ELSE Cardinality(Running) + 1
      /\ Cardinality(Running \ {j}) =
           IF j \in Running THEN Cardinality(Running) - 1 ELSE Cardinality(Running)
  BY <1>2, FS_CardinalityType, FS_AddElement, FS_RemoveElement
<1> QED
  BY <1>3, <1>4, <1>5

\* The same for the job that is over.
LEMMA OverMoves ==
  ASSUME FanoutTypeOK, NEW j \in Job, pc' = [pc EXCEPT ![j] = "over"]
  PROVE  /\ Cardinality(Running) \in Nat
         /\ pc[j] \notin Calling => Cardinality(Running') = Cardinality(Running)
         /\ pc[j] \in Calling => Cardinality(Running') = Cardinality(Running) - 1
<1> DEFINE to == "over"
<1>1. to \in Calling \union {"over"} /\ to \notin Calling /\ pc' = [pc EXCEPT ![j] = to]
  BY DEF Calling
<1> HIDE DEF to
<1> QED
  BY <1>1, RunningMoves

-----------------------------------------------------------------------------
(* The steps.                                                              *)

\* What any step of a job does to the other jobs and to its own verdict.
LEMMA WorkFacts ==
  ASSUME FanoutInv, NEW j \in Job, Work(j)
  PROVE  /\ phase = "fanned" /\ verdict[j] = "undecided" /\ UNCHANGED <<phase, fatal>>
         /\ \E v \in {"undecided", "FAILED", "own", "shared"} :
              verdict' = [verdict EXCEPT ![j] = v]
<1>1. phase = "fanned" /\ pc[j] # "over" /\ UNCHANGED fatal
  BY DEF FanoutInv, Phases, FanoutTypeOK, Calling, Work, Start, Refuse, Raise, Answer, Admitted
<1>2. verdict[j] = "undecided"
  BY <1>1 DEF FanoutInv, Stages, Stage
<1>3. phase' = phase
  BY DEF Work, Start, Refuse, Raise, Answer
<1>4. \E v \in {"undecided", "FAILED", "own", "shared"} : verdict' = [verdict EXCEPT ![j] = v]
  <2>1. CASE UNCHANGED verdict
    <3>1. verdict' = [verdict EXCEPT ![j] = "undecided"]
      BY <1>2, <2>1 DEF FanoutInv, FanoutTypeOK
    <3> QED
      BY <3>1
  <2>2. CASE Refuse(j) \/ Raise(j)
    BY <2>2 DEF Refuse, Raise, RaiseVerdict, Leave
  <2>3. CASE \E reply \in Reply : Answer(j, reply)
    BY <2>1, <2>3 DEF Answer, Leave, BrandDna
  <2> QED
    BY <2>1, <2>2, <2>3 DEF Work, Start
<1> QED
  BY <1>1, <1>2, <1>3, <1>4

LEMMA StartStep ==
  ASSUME FanoutInv, NEW j \in Job, Start(j)
  PROVE  FanoutInv'
<1>1. /\ phase = "fanned" /\ permits > 0 /\ pc[j] = "queued"
      /\ permits' = permits - 1 /\ pc' = [pc EXCEPT ![j] = "first"]
      /\ calls' = [calls EXCEPT ![j] = 1]
      /\ UNCHANGED <<llm_fanout_concurrency, phase, dna, last, verdict, fatal>>
  BY DEF Start, Admitted
<1>2. FanoutTypeOK'
  BY <1>1 DEF FanoutInv, FanoutTypeOK, Calling
<1>3. Stages' /\ Phases' /\ FailsByItself'
  BY <1>1 DEF FanoutInv, FanoutTypeOK, Stages, Stage, Phases, FailsByItself
<1>4. ConcurrencyBounded'
  <2>1. Cardinality(Running') = Cardinality(Running) + 1 /\ Cardinality(Running) \in Nat
    BY <1>1, RunningMoves DEF FanoutInv, Calling
  <2> QED
    BY <1>1, <2>1, WidthType DEF FanoutInv, FanoutTypeOK, ConcurrencyBounded, Width
<1> QED
  BY <1>2, <1>3, <1>4 DEF FanoutInv

LEMMA RefuseStep ==
  ASSUME FanoutInv, NEW j \in Job, Refuse(j)
  PROVE  FanoutInv'
<1>1. /\ phase = "fanned" /\ pc[j] = "queued"
      /\ pc' = [pc EXCEPT ![j] = "over"] /\ last' = [last EXCEPT ![j] = "refused"]
      /\ verdict' = [verdict EXCEPT ![j] = "FAILED"]
      /\ UNCHANGED <<llm_fanout_concurrency, phase, dna, permits, calls, fatal>>
  BY DEF Refuse, Admitted
<1>2. FanoutTypeOK' /\ Stages' /\ Phases' /\ FailsByItself'
  BY <1>1 DEF FanoutInv, FanoutTypeOK, Stages, Stage, Phases, FailsByItself
<1>3. ConcurrencyBounded'
  <2>1. Cardinality(Running') = Cardinality(Running)
    BY <1>1, OverMoves DEF FanoutInv, Calling
  <2> QED
    BY <1>1, <2>1 DEF FanoutInv, ConcurrencyBounded, Width
<1> QED
  BY <1>2, <1>3 DEF FanoutInv

\* The end of a call, by an answer or an exception: r is what ended it.
LEMMA LeaveStep ==
  ASSUME FanoutInv, NEW j \in Job, NEW v \in {"FAILED", "own", "shared"},
         NEW r \in Reply \union {"raised"}, pc[j] \in Calling,
         v = "FAILED" => r # "valid", pc' = [pc EXCEPT ![j] = "over"],
         last' = [last EXCEPT ![j] = r], Leave(j, v),
         UNCHANGED <<llm_fanout_concurrency, phase, dna, calls, fatal>>
  PROVE  FanoutInv'
<1>1. phase = "fanned"
  BY DEF FanoutInv, Phases, FanoutTypeOK, Calling
<1>2. permits' = permits + 1 /\ verdict' = [verdict EXCEPT ![j] = v]
  BY DEF Leave
<1>3. FanoutTypeOK' /\ Stages' /\ Phases'
  BY <1>1, <1>2 DEF FanoutInv, FanoutTypeOK, Stages, Stage, Phases
<1>4. FailsByItself'
  BY <1>2 DEF FanoutInv, FanoutTypeOK, FailsByItself, Reply
<1>5. ConcurrencyBounded'
  <2>1. Cardinality(Running') = Cardinality(Running) - 1 /\ Cardinality(Running) \in Nat
    BY OverMoves DEF FanoutInv
  <2> QED
    BY <1>1, <1>2, <2>1, WidthType DEF FanoutInv, FanoutTypeOK, ConcurrencyBounded, Width
<1> QED
  BY <1>3, <1>4, <1>5 DEF FanoutInv

\* A reply that is followed by a repair.
LEMMA RetryStep ==
  ASSUME FanoutInv, NEW j \in Job, NEW reply \in Reply, pc[j] \in Calling,
         Retry(pc[j], reply) # "over",
         pc' = [pc EXCEPT ![j] = Retry(pc[j], reply)],
         calls' = [calls EXCEPT ![j] = @ + 1], last' = [last EXCEPT ![j] = reply],
         UNCHANGED <<llm_fanout_concurrency, phase, dna, permits, verdict, fatal>>
  PROVE  FanoutInv'
<1>1. \/ pc[j] = "first" /\ Retry(pc[j], reply) = "repair" /\ calls[j] = 1
      \/ pc[j] = "repair" /\ Retry(pc[j], reply) = "compact" /\ calls[j] = 2
  BY DEF FanoutInv, Stages, Stage, Retry
<1>2. phase = "fanned" /\ verdict[j] = "undecided"
  BY <1>1 DEF FanoutInv, Phases, FanoutTypeOK, Stages, Stage, Calling
<1>3. FanoutTypeOK' /\ Stages' /\ Phases'
  BY <1>1, <1>2 DEF FanoutInv, FanoutTypeOK, Stages, Stage, Phases, Calling
<1>4. FailsByItself'
  BY <1>2 DEF FanoutInv, FanoutTypeOK, FailsByItself
<1>5. ConcurrencyBounded'
  <2>1. Cardinality(Running') = Cardinality(Running)
    BY <1>1, RunningMoves DEF FanoutInv, Calling
  <2> QED
    BY <1>2, <2>1 DEF FanoutInv, ConcurrencyBounded, Width
<1> QED
  BY <1>3, <1>4, <1>5 DEF FanoutInv

LEMMA AnswerStep ==
  ASSUME FanoutInv, NEW j \in Job, NEW reply \in Reply, Answer(j, reply)
  PROVE  FanoutInv'
<1> DEFINE to == IF reply = "valid" THEN "over" ELSE Retry(pc[j], reply)
           v == IF reply = "valid" THEN BrandDna(j) ELSE "FAILED"
<1>1. /\ pc[j] \in Calling /\ last' = [last EXCEPT ![j] = reply]
      /\ pc' = [pc EXCEPT ![j] = to]
      /\ UNCHANGED <<llm_fanout_concurrency, phase, dna, fatal>>
  BY DEF Answer
<1>2. CASE to = "over"
  <2>1. Leave(j, v) /\ UNCHANGED calls
    BY <1>2 DEF Answer
  <2>2. v \in {"FAILED", "own", "shared"} /\ (v = "FAILED" => reply # "valid")
    BY DEF BrandDna
  <2> QED
    BY <1>1, <1>2, <2>1, <2>2, LeaveStep
<1>3. CASE to # "over"
  BY <1>1, <1>3, RetryStep DEF Answer
<1> QED
  BY <1>2, <1>3

LEMMA WorkStep ==
  ASSUME FanoutInv, NEW j \in Job, Work(j)
  PROVE  FanoutInv'
<1>1. CASE Raise(j)
  BY <1>1, LeaveStep DEF Raise, RaiseVerdict
<1> QED
  BY <1>1, StartStep, RefuseStep, AnswerStep DEF Work

\* The steps of the batch.
LEMMA BatchStep ==
  ASSUME FanoutInv, Whole
  PROVE  FanoutInv'
<1>1. UNCHANGED <<llm_fanout_concurrency, pc, calls, last, verdict>>
  BY DEF Whole, FailWhole, AskDna, FanOut, Return
<1>2. FanoutTypeOK'
  <2>1. fatal' \in BOOLEAN
    BY DEF FanoutInv, FanoutTypeOK, Whole, FailWhole, AskDna, FanOut, Return
  <2>2. permits' \in Int
    BY WidthType DEF FanoutInv, FanoutTypeOK, Whole, FailWhole, AskDna, FanOut, Return
  <2> QED
    BY <1>1, <2>1, <2>2
    DEF FanoutInv, FanoutTypeOK, Whole, FailWhole, AskDna, FanOut, Return
<1>3. Stages' /\ FailsByItself'
  BY <1>1 DEF FanoutInv, Stages, Stage, FailsByItself
<1>4. Phases'
  BY <1>1 DEF FanoutInv, FanoutTypeOK, Phases, Whole, FailWhole, AskDna, FanOut, Return
<1>5. ConcurrencyBounded'
  <2>1. CASE FanOut
    <3>1. Running' = {}
      BY <1>1, <2>1 DEF FanOut, FanoutInv, Phases, Running, Calling
    <3> QED
      BY <1>1, <2>1, <3>1, FS_EmptySet, WidthType
      DEF FanOut, FanoutInv, ConcurrencyBounded, Width
  <2>2. CASE FailWhole \/ AskDna \/ Return
    BY <1>1, <2>2
    DEF FailWhole, AskDna, Return, FanoutInv, FanoutTypeOK, ConcurrencyBounded, Running, Width
  <2> QED
    BY <2>1, <2>2 DEF Whole
<1> QED
  BY <1>2, <1>3, <1>4, <1>5 DEF FanoutInv

-----------------------------------------------------------------------------
(* The theorems.                                                           *)

\* Whatever the fan-out does keeps the invariant.
LEMMA FanoutKeeps == FanoutInv /\ [Next]_vars => FanoutInv'
<1> SUFFICES ASSUME FanoutInv, [Next]_vars PROVE FanoutInv'
  OBVIOUS
<1>1. CASE UNCHANGED vars
  BY <1>1
  DEF vars, FanoutInv, FanoutTypeOK, Stages, Stage, Phases, ConcurrencyBounded, FailsByItself,
      Running, Width
<1> QED
  BY <1>1, WorkStep, BatchStep DEF Next

LEMMA FanoutBegins == Init => FanoutInv
<1> SUFFICES ASSUME Init PROVE FanoutInv
  OBVIOUS
<1>1. FanoutTypeOK
  <2>1. fatal \in BOOLEAN
    BY DEF Init
  <2> QED
    BY <2>1, FanoutAssumption DEF Init, FanoutTypeOK
<1>2. Stages /\ Phases
  BY DEF Init, Stages, Stage, Phases
<1>3. ConcurrencyBounded /\ FailsByItself
  BY DEF Init, ConcurrencyBounded, FailsByItself
<1> QED
  BY <1>1, <1>2, <1>3 DEF FanoutInv

\* A step of the contract, or none.
ToContract == [Contract!Decide \/ Contract!Fail \/ Contract!Return]_(Contract!cvars)

\* Any step of the fan-out is one.
LEMMA ContractStep ==
  ASSUME FanoutInv, [Next]_vars
  PROVE  ToContract
<1> USE DEF ToContract, Contract!cvars
<1>1. CASE UNCHANGED vars \/ AskDna \/ FanOut
  BY <1>1 DEF vars, AskDna, FanOut
<1>2. CASE Return
  BY <1>2 DEF Return, Contract!Return, FanoutInv, Stages, Stage
<1>3. CASE FailWhole
  <2>1. \A j \in Job : verdict[j] = "undecided"
    BY <1>3 DEF FailWhole, FanoutInv, Phases, Stages, Stage
  <2> QED
    BY <1>3, <2>1 DEF FailWhole, Contract!Fail
<1>4. ASSUME NEW j \in Job, Work(j)
      PROVE  Contract!Decide \/ UNCHANGED <<verdict, phase, fatal>>
  <2>1. /\ phase = "fanned" /\ verdict[j] = "undecided" /\ UNCHANGED <<phase, fatal>>
        /\ \E v \in {"undecided", "FAILED", "own", "shared"} :
             verdict' = [verdict EXCEPT ![j] = v]
    BY <1>4, WorkFacts
  <2>2. CASE UNCHANGED verdict
    BY <2>1, <2>2
  <2>3. CASE verdict' # verdict
    <3>0. PICK v \in {"undecided", "FAILED", "own", "shared"} :
            verdict' = [verdict EXCEPT ![j] = v]
      BY <2>1
    <3>1. v \in {"FAILED", "own", "shared"}
      BY <2>1, <2>3, <3>0 DEF FanoutInv, FanoutTypeOK
    <3> DEFINE D == {j}
               f == [i \in Job |-> v]
    <3>2. D \in SUBSET {i \in Job : verdict[i] = "undecided"}
      BY <2>1
    <3>3. f \in [Job -> {"FAILED", "own", "shared"}]
      BY <3>1
    <3>4. verdict' = [i \in Job |-> IF i \in D THEN f[i] ELSE verdict[i]]
      BY <3>0 DEF FanoutInv, FanoutTypeOK
    <3> HIDE DEF D, f
    <3> QED
      BY <2>1, <3>2, <3>3, <3>4 DEF Contract!Decide, FanoutInv, Phases
  <2> QED
    BY <2>2, <2>3
<1> QED
  BY <1>1, <1>2, <1>3, <1>4 DEF Next, Whole

\* The invariant of the fan-out.
THEOREM FanoutInvariant == Spec => []FanoutInv
  BY FanoutBegins, FanoutKeeps, PTL DEF Spec

\* No job costs more than three calls of Gemini, and the state keeps its type.
THEOREM FanoutTypeCorrect == Spec => []FanoutTypeOK
  BY FanoutInvariant, PTL DEF FanoutInv

\* Never more jobs ask Gemini than the setting allows, and no permit is lost.
THEOREM WidthRespected == Spec => []ConcurrencyBounded
  BY FanoutInvariant, PTL DEF FanoutInv

\* The failure of one job is its own.
THEOREM FailuresIsolated == Spec => []FailsByItself
  BY FanoutInvariant, PTL DEF FanoutInv

\* The batch gives each job one verdict, never revises it, and returns with all,
\* unless it fails as a whole before the first verdict.
THEOREM FanoutMeetsContract == Spec => ContractSpec
<1>1. Init => Contract!Init
  BY DEF Init, Contract!Init
<1> QED
  BY <1>1, ContractStep, FanoutInvariant, PTL DEF Spec, ContractSpec, Contract!Spec, ToContract

-----------------------------------------------------------------------------
(* With the choice of the strategy, and reason_multi.                      *)

\* Without the fan-out the jobs wait together for the end of the one call; then all
\* of them have a verdict, by the item at their position, or none of them.
OneInv ==
  /\ phase \in {"new", "returned"} /\ fatal \in BOOLEAN
  /\ oneCall \in {"idle", "first", "repair", "over"}
  /\ \E n \in Nat : items \in [1..n -> Job]
  /\ given \in [Job -> Nat]
  /\ verdict \in [Job -> {"undecided", "FAILED", "own"}]
  /\ \A j \in Job : oneCall = "over" /\ ~fatal <=> verdict[j] # "undecided"
  /\ \A j \in Job : given[j] = Paired(items, j)
  /\ \A j \in Job : verdict[j] = "own" => given[j] # 0
  /\ \A j \in Job : verdict[j] = "FAILED" => given[j] = 0 \/ items = <<>>
  /\ phase = "returned" \/ fatal => oneCall = "over"
  /\ oneCall # "over" => items = <<>>
  /\ FailsByItself

BatchInv ==
  \/ llm_fanout_enabled /\ FanoutInv /\ oneCall = "idle"
  \/ ~llm_fanout_enabled /\ OneInv

\* The steps of reason_multi.
LEMMA OnceKeeps ==
  ASSUME ~llm_fanout_enabled, OneInv, Once
  PROVE  OneInv'
<1> USE FanoutAssumption DEF OneInv
<1>1. ASSUME NEW reply \in Reply, reply # "valid", AllFailed(reply),
             oneCall \in {"first", "repair"}, oneCall' = "over",
             UNCHANGED <<phase, items, given, fatal>>
      PROVE  OneInv'
  BY <1>1 DEF AllFailed, FailsByItself, Reply, Paired
<1>2. ASSUME NEW answer \in Written, Stitch(answer), oneCall \in {"first", "repair"},
             oneCall' = "over", UNCHANGED <<phase, fatal>>
      PROVE  OneInv'
  <2>1. PICK n \in 0..N + 1 : answer \in [1..n -> Job]
    BY <1>2 DEF Written
  <2>2. n \in Nat /\ Len(answer) = n
    BY <2>1
  <2>3. given' \in [Job -> Nat]
    BY <1>2, <2>2 DEF Stitch, Paired, Job
  <2>4. /\ verdict' \in [Job -> {"undecided", "FAILED", "own"}]
        /\ \A j \in Job : verdict'[j] # "undecided"
        /\ \A j \in Job : given'[j] = Paired(items', j)
        /\ \A j \in Job : verdict'[j] = "own" <=> given'[j] # 0
        /\ FailsByItself'
    BY <1>2, <2>3 DEF Stitch, FailsByItself
  <2>5. ~fatal /\ phase = "new"
    BY <1>2
  <2> QED
    BY <1>2, <2>1, <2>2, <2>3, <2>4, <2>5 DEF Stitch
<1>3. ASSUME NEW reply \in Reply, NEW answer \in Written, AnswerOnce(reply, answer)
      PROVE  OneInv'
  BY <1>1, <1>2, <1>3 DEF AnswerOnce, fanoutUnused, FailsByItself, Paired
<1>4. CASE AskOnce
  BY <1>4 DEF AskOnce, fanoutUnused, FailsByItself, Paired
<1>5. CASE FailOnce
  <2>1. fatal' \in BOOLEAN
    BY <1>5 DEF FailOnce
  <2> QED
    BY <1>5, <2>1 DEF FailOnce, fanoutUnused, FailsByItself, Paired
<1>6. CASE ReturnOnce
  BY <1>6 DEF ReturnOnce, fanoutUnused, oneVars, FailsByItself, Paired
<1> QED
  BY <1>3, <1>4, <1>5, <1>6 DEF Once

\* They are steps of the contract.
LEMMA OnceStep ==
  ASSUME ~llm_fanout_enabled, OneInv, Once
  PROVE  OneInv' /\ ToContract
<1>1. OneInv'
  BY OnceKeeps
<1>2. CASE FailOnce
  BY <1>1, <1>2
  DEF FailOnce, fanoutUnused, OneInv, ToContract, Contract!cvars, Contract!Fail
<1>3. CASE ReturnOnce
  BY <1>1, <1>3
  DEF ReturnOnce, fanoutUnused, oneVars, OneInv, ToContract, Contract!cvars, Contract!Return
<1>4. CASE UNCHANGED <<verdict, phase, fatal>>
  BY <1>1, <1>4 DEF ToContract, Contract!cvars
<1>5. ASSUME NEW reply \in Reply, NEW answer \in Written, AnswerOnce(reply, answer),
             verdict' # verdict
      PROVE  ToContract
  <2>1. /\ UNCHANGED <<phase, fatal>> /\ oneCall # "over" /\ oneCall' = "over"
    BY <1>5 DEF AnswerOnce, fanoutUnused
  <2> DEFINE D == Job
             f == verdict'
  <2>2. D \in SUBSET {j \in Job : verdict[j] = "undecided"} /\ phase # "returned" /\ ~fatal
    BY <2>1 DEF OneInv
  <2>3. f \in [Job -> {"FAILED", "own", "shared"}]
    BY <1>1, <2>1, <2>2 DEF OneInv
  <2>4. verdict' = [j \in Job |-> IF j \in D THEN f[j] ELSE verdict[j]]
    BY <2>3
  <2> HIDE DEF D, f
  <2> QED
    BY <2>1, <2>2, <2>3, <2>4 DEF Contract!Decide, ToContract
<1>6. CASE \E reply \in Reply, answer \in Written : AnswerOnce(reply, answer)
  BY <1>1, <1>4, <1>5, <1>6 DEF AnswerOnce, fanoutUnused
<1>7. CASE AskOnce
  BY <1>4, <1>7 DEF AskOnce, fanoutUnused
<1> QED
  BY <1>1, <1>2, <1>3, <1>6, <1>7 DEF Once

\* Every step keeps the invariant and the contract.
LEMMA BatchKeeps ==
  ASSUME BatchInv, [BatchNext]_batchVars
  PROVE  BatchInv' /\ ToContract
<1>1. CASE UNCHANGED batchVars
  <2>1. UNCHANGED vars
    BY <1>1 DEF batchVars
  <2>2. FanoutInv => FanoutInv'
    BY <2>1, FanoutKeeps
  <2>3. OneInv => OneInv'
    BY <1>1 DEF batchVars, vars, oneVars, OneInv, FailsByItself, Paired
  <2> QED
    BY <1>1, <2>2, <2>3 DEF batchVars, vars, oneVars, BatchInv, ToContract, Contract!cvars
<1>2. CASE FanoutStep(Next)
  <2>1. FanoutInv /\ oneCall' = "idle" /\ llm_fanout_enabled' = TRUE /\ Next
    BY <1>2 DEF FanoutStep, BatchInv, oneVars
  <2> QED
    BY <2>1, FanoutKeeps, ContractStep DEF BatchInv
<1>3. CASE Once
  <2>1. ~llm_fanout_enabled /\ OneInv
    BY <1>3 DEF Once, AskOnce, FailOnce, ReturnOnce, AnswerOnce, BatchInv
  <2>2. UNCHANGED llm_fanout_enabled
    BY <1>3 DEF Once, AskOnce, FailOnce, ReturnOnce, AnswerOnce, fanoutUnused
  <2> QED
    BY <1>3, <2>1, <2>2, OnceStep DEF BatchInv
<1> QED
  BY <1>1, <1>2, <1>3 DEF BatchNext

THEOREM BatchInvariant == BatchSpec => []BatchInv
<1>1. BatchInit => BatchInv
  <2> SUFFICES ASSUME BatchInit PROVE BatchInv
    OBVIOUS
  <2>1. fatal \in BOOLEAN /\ ~fatal
    BY DEF BatchInit, Init
  <2>2. items \in [1..0 -> Job] /\ Len(items) = 0
    BY DEF BatchInit
  <2>3. OneInv
    BY <2>1, <2>2, FanoutAssumption
    DEF BatchInit, OneInv, Init, FailsByItself, Paired, Job
  <2> QED
    BY <2>3, FanoutBegins DEF BatchInit, BatchInv
<1> QED
  BY <1>1, BatchKeeps, PTL DEF BatchSpec

\* Never more jobs ask Gemini than the setting allows, and no permit is lost.
THEOREM BatchWidthRespected == BatchSpec => []ConcurrencyBounded
<1>1. BatchInv => ConcurrencyBounded
  BY DEF BatchInv, OneInv, FanoutInv, ConcurrencyBounded
<1> QED
  BY <1>1, BatchInvariant, PTL

\* A job never fails by the reply to another one, or by none.
THEOREM BatchFailuresIsolated == BatchSpec => []FailsByItself
<1>1. BatchInv => FailsByItself
  BY DEF BatchInv, OneInv, FanoutInv
<1> QED
  BY <1>1, BatchInvariant, PTL

\* However many items the one answer has and whomever they are for, jobs and items
\* are paired one to one, and in the order of the prompt.
THEOREM ItemsPaired == BatchSpec => []PairedInOrder
<1>1. ASSUME OneInv PROVE PairedInOrder
  <2> USE FanoutAssumption, <1>1 DEF OneInv, Job
  <2>1. PICK n \in Nat : items \in [1..n -> Job]
    OBVIOUS
  <2>2. Len(items) = n /\ DOMAIN items = 1..n
    BY <2>1
  <2>3. ASSUME NEW j \in Job, verdict[j] \notin {"undecided", "FAILED"}
        PROVE  /\ given[j] \in DOMAIN items
               /\ InOrder => items[given[j]] = j
               /\ \A i \in Job \ {j} : given[i] # given[j]
    BY <2>2, <2>3 DEF Paired, InOrder
  <2>4. ASSUME NEW j \in Job, verdict[j] = "FAILED", NEW p \in DOMAIN items
        PROVE  \E i \in Job : given[i] = p
    <3>1. p \in Job /\ given[p] = p
      BY <2>2, <2>4 DEF Paired
    <3> QED
      BY <3>1
  <2> QED
    BY <2>3, <2>4 DEF PairedInOrder
<1>2. BatchInv => PairedInOrder
  BY <1>1 DEF BatchInv, PairedInOrder
<1> QED
  BY <1>2, BatchInvariant, PTL

\* Both ways fulfil the contract of _run_multi_and_callback.
THEOREM BatchMeetsContract == BatchSpec => ContractSpec
<1>1. BatchInit => Contract!Init
  BY DEF BatchInit, Init, Contract!Init
<1> QED
  BY <1>1, BatchKeeps, BatchInvariant, PTL
  DEF BatchSpec, ContractSpec, Contract!Spec, ToContract
=============================================================================
