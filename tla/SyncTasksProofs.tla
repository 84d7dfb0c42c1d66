--------------------------- MODULE SyncTasksProofs ---------------------------
(***************************************************************************)
(* The multi-job runs, those of POST /tasks and the requests of POST       *)
(* /tasks/sync beside them, for any number of runs, tasks and sub-jobs and *)
(* any number of mishaps.  They use the tables only through the            *)
(* transactions of Store, so that the theorems of StoreProofs hold of      *)
(* them; what the tables say of the sub-jobs is proved from that, and from *)
(* where each run is (ControlInv).                                         *)
(***************************************************************************)
EXTENDS SyncTasks, StoreProofs

Stage == Batch \union {"new", "thinking", "reporting", "posting", "done", "dead"}
Result == {"COMPLETED", "FAILED"}

ControlTyped ==
  /\ pc \in [Run -> Stage]
  /\ pctx \in [Run -> BOOLEAN] /\ fatal \in [Run -> BOOLEAN]
  /\ results \in [Run -> Seq(Result)]
  /\ ids \in [Run -> SUBSET JobKey]
  /\ \A r \in Run : ids[r] \subseteq ToSet(Order(TaskOf[r]))
  /\ reported \in [Run -> Result \union {"none"}]
  /\ answer \in [Run -> {"none", "ok", "failed"}]
  /\ next \in [Run -> Nat \ {0}]
  /\ queue \subseteq Run \X JobKey
  /\ mishaps \in 0..MaxMishaps
  /\ http \in [Run -> {"async", "open", "200", "500"}]

\* The answer a run holds is that of the current sub-job, which is none the LLM
\* failed.
AnswerOf(r) ==
  answer[r] # "none" =>
    /\ pc[r] \in {"posting", "dead"}
    /\ next[r] \in 1..Len(Order(TaskOf[r])) /\ ~IsFailed(r, Current(r))
    /\ answer[r] = "ok" => <<r, Current(r)>> \in queue

\* A run has a result for each LLM job, or for none if the batch failed as a whole.
ThoughtOf(r) ==
  /\ pc[r] \in {"new", "thinking"} \/ fatal[r] => results[r] = <<>>
  /\ pc[r] \in {"new", "thinking"} => ~fatal[r]
  /\ pc[r] \notin {"new", "thinking", "dead"} /\ ~fatal[r] =>
       Len(results[r]) = LlmJobs[TaskOf[r]]

\* A request posts no LLM job.
PositionOf(r) ==
  /\ next[r] <= Len(Order(TaskOf[r])) + 1
  /\ http[r] = "open" /\ pc[r] = "posting" => next[r] > LlmJobs[TaskOf[r]]

\* A background run posts after its PATCH, and knows of no LLM job to post if its
\* batch failed as a whole, which is what a PATCH with FAILED says.
PatchOf(r) ==
  /\ pc[r] \in {"new", "thinking"} => ids[r] = {}
  /\ pc[r] = "posting" /\ http[r] = "async" => reported[r] # "none"
  /\ reported[r] = "FAILED" => fatal[r]
  /\ fatal[r] => \A k \in ids[r] : k[1] = "pass"

RunInv(r) == AnswerOf(r) /\ ThoughtOf(r) /\ PositionOf(r) /\ PatchOf(r)

ControlInv == ControlTyped /\ \A r \in Run : RunInv(r)

-----------------------------------------------------------------------------
(* The sub-jobs of a task.                                                 *)

LEMMA KeysFacts ==
  ASSUME NEW t \in Task, NEW b \in Batch
  PROVE  /\ Keys(t, b) \in Seq({b} \X Nat)
         /\ Len(Keys(t, b)) = IF b = "llm" THEN LlmJobs[t] ELSE PassJobs[t]
         /\ \A i \in 1..Len(Keys(t, b)) : Keys(t, b)[i] = <<b, i>>
<1> DEFINE n == IF b = "llm" THEN LlmJobs[t] ELSE PassJobs[t]
<1>1. n \in Nat
  BY MultiAssumption
<1>2. Keys(t, b) = [i \in 1..n |-> <<b, i>>]
  BY DEF Keys
<1> HIDE DEF n
<1>3. Keys(t, b) \in Seq({b} \X Nat)
  BY <1>1, <1>2
<1>4. Len(Keys(t, b)) = n
  BY <1>1, <1>2
<1> QED
  BY <1>2, <1>3, <1>4 DEF n

LEMMA OrderFacts ==
  ASSUME NEW t \in Task
  PROVE  /\ LlmJobs[t] \in Nat /\ PassJobs[t] \in Nat
         /\ Len(Order(t)) = LlmJobs[t] + PassJobs[t] /\ Len(Order(t)) \in Nat
         /\ Order(t) \in Seq(JobKey)
         /\ \A i \in 1..Len(Order(t)) :
              /\ Order(t)[i] \in JobKey
              /\ Order(t)[i] = IF i <= LlmJobs[t] THEN <<"llm", i>>
                               ELSE <<"pass", i - LlmJobs[t]>>
<1>1. /\ Keys(t, "llm") \in Seq({"llm"} \X Nat) /\ Len(Keys(t, "llm")) = LlmJobs[t]
      /\ Keys(t, "pass") \in Seq({"pass"} \X Nat) /\ Len(Keys(t, "pass")) = PassJobs[t]
      /\ \A i \in 1..LlmJobs[t] : Keys(t, "llm")[i] = <<"llm", i>>
      /\ \A i \in 1..PassJobs[t] : Keys(t, "pass")[i] = <<"pass", i>>
      /\ LlmJobs[t] \in Nat /\ PassJobs[t] \in Nat
  BY KeysFacts, MultiAssumption DEF Batch
<1> DEFINE S == ({"llm"} \X Nat) \union ({"pass"} \X Nat)
           a == Keys(t, "llm")
           b == Keys(t, "pass")
<1>2. a \in Seq(S) /\ b \in Seq(S)
  BY <1>1
<1>3. Order(t) = a \o b
  BY DEF Order
<1>9. Len(a) = LlmJobs[t] /\ Len(b) = PassJobs[t]
  BY <1>1
<1>10. /\ \A i \in 1..LlmJobs[t] : a[i] = <<"llm", i>>
       /\ \A i \in 1..PassJobs[t] : b[i] = <<"pass", i>>
  BY <1>1
<1> HIDE DEF S, a, b
<1>4. /\ Order(t) \in Seq(S) /\ Len(Order(t)) = Len(a) + Len(b)
      /\ \A i \in 1..Len(Order(t)) :
           Order(t)[i] = IF i <= Len(a) THEN a[i] ELSE b[i - Len(a)]
  BY <1>2, <1>3
<1>5. ToSet(Order(t)) \subseteq JobKey
  BY MultiAssumption
<1>6. \A i \in 1..Len(Order(t)) : Order(t)[i] \in JobKey
  BY <1>4, <1>5 DEF ToSet
<1>7. /\ LlmJobs[t] \in Nat /\ PassJobs[t] \in Nat
      /\ Len(Order(t)) = LlmJobs[t] + PassJobs[t] /\ Len(Order(t)) \in Nat
  BY <1>1, <1>9, <1>4
<1>8. ASSUME NEW i \in 1..Len(Order(t))
      PROVE  Order(t)[i] = IF i <= LlmJobs[t] THEN <<"llm", i>>
                           ELSE <<"pass", i - LlmJobs[t]>>
  <2>1. CASE i <= LlmJobs[t]
    <3>1. i \in 1..LlmJobs[t]
      BY <1>7, <2>1
    <3>2. a[i] = <<"llm", i>>
      BY <1>10, <3>1
    <3> QED
      BY <1>9, <1>4, <2>1, <3>2
  <2>2. CASE ~(i <= LlmJobs[t])
    <3>1. i - LlmJobs[t] \in 1..PassJobs[t]
      BY <1>7, <2>2
    <3>2. b[i - LlmJobs[t]] = <<"pass", i - LlmJobs[t]>>
      BY <1>10, <3>1
    <3> QED
      BY <1>9, <1>4, <2>2, <3>2
  <2> QED
    BY <2>1, <2>2
<1>11. Order(t) \in Seq(JobKey)
  BY <1>4, <1>6
<1> QED
  BY <1>6, <1>7, <1>8, <1>11

\* What a batch saves: rows that create_job may be called with, one for each of
\* its keys, "failed" for a sub-job the LLM failed and awaiting dispatch otherwise.
LEMMA BatchKeysFacts ==
  ASSUME NEW r \in Run, NEW b \in Batch, NEW k \in ToSet(BatchKeys(r, b))
  PROVE  k \in JobKey /\ k \in ToSet(Order(TaskOf[r])) /\ k[1] = b
<1>1. TaskOf[r] \in Task
  BY StoreAssumption
<1>2. BatchKeys(r, b) = Keys(TaskOf[r], b) \/ BatchKeys(r, b) = <<>>
  BY DEF BatchKeys
<1>3. PICK i \in 1..Len(Keys(TaskOf[r], b)) : k = Keys(TaskOf[r], b)[i]
  BY <1>2 DEF ToSet
<1>4. k = <<b, i>> /\ Len(Keys(TaskOf[r], b)) = IF b = "llm" THEN LlmJobs[TaskOf[r]]
                                                ELSE PassJobs[TaskOf[r]]
  BY <1>1, <1>3, KeysFacts
<1>5. k[1] = b
  BY <1>4
<1>6. CASE b = "llm"
  <2>1. i \in 1..Len(Order(TaskOf[r])) /\ i <= LlmJobs[TaskOf[r]]
    BY <1>1, <1>4, <1>6, OrderFacts
  <2>2. Order(TaskOf[r])[i] \in JobKey /\ Order(TaskOf[r])[i] = <<"llm", i>>
    BY <1>1, <2>1, OrderFacts
  <2> QED
    BY <1>1, <1>4, <1>5, <1>6, <2>1, <2>2, OrderFacts DEF ToSet
<1>7. CASE b # "llm"
  <2>1. b = "pass" /\ i \in 1..PassJobs[TaskOf[r]]
    BY <1>4, <1>7 DEF Batch
  <2> DEFINE p == LlmJobs[TaskOf[r]] + i
  <2>2. p \in 1..Len(Order(TaskOf[r])) /\ ~(p <= LlmJobs[TaskOf[r]])
        /\ p - LlmJobs[TaskOf[r]] = i
    BY <1>1, <2>1, OrderFacts
  <2> HIDE DEF p
  <2>3. Order(TaskOf[r])[p] \in JobKey /\ Order(TaskOf[r])[p] = <<"pass", i>>
    BY <1>1, <2>2, OrderFacts
  <2> QED
    BY <1>1, <1>4, <1>5, <2>1, <2>2, <2>3, OrderFacts DEF ToSet
<1> QED
  BY <1>6, <1>7

LEMMA RowsFacts ==
  ASSUME NEW r \in Run, NEW b \in Batch
  PROVE  /\ Rows(r, b) \in RowSets(r)
         /\ \A n \in Rows(r, b) :
              /\ n.by = r /\ n.key \in ToSet(BatchKeys(r, b))
              /\ <<n.status, n.dispatch>> = Shape(r, n.key)
         /\ held[r] = NoRow => Rows(r, b) = {}
         /\ held[r] # NoRow =>
              \A k \in ToSet(BatchKeys(r, b)) : \E n \in Rows(r, b) : n.key = k
<1> DEFINE K == IF held[r] = NoRow THEN {} ELSE ToSet(BatchKeys(r, b))
           f == [k \in K |-> Shape(r, k)]
<1>1. K \in SUBSET JobKey
  BY BatchKeysFacts
<1>2. f \in [K -> JobShape]
  BY DEF Shape, JobShape
<1>3. Rows(r, b) = {NewJob(r, k, f[k]) : k \in K}
  BY DEF Rows
<1>4. Rows(r, b) \in RowSets(r)
  <2>1. {NewJob(r, k, f[k]) : k \in K} \in RowSets(r)
    <3> HIDE DEF K, f
    <3> QED
      BY <1>1, <1>2, RowFamily
  <2> QED
    BY <1>3, <2>1
<1>5. ASSUME NEW n \in Rows(r, b)
      PROVE  /\ n.by = r /\ n.key \in ToSet(BatchKeys(r, b))
             /\ <<n.status, n.dispatch>> = Shape(r, n.key)
  <2>1. PICK k \in K : n = NewJob(r, k, Shape(r, k))
    BY <1>3
  <2>2. n.by = r /\ n.key = k /\ n.status = Shape(r, k)[1] /\ n.dispatch = Shape(r, k)[2]
    BY <2>1 DEF NewJob
  <2>3. k \in ToSet(BatchKeys(r, b))
    BY <2>1
  <2> QED
    BY <2>2, <2>3 DEF Shape
<1>6. ASSUME held[r] # NoRow, NEW k \in ToSet(BatchKeys(r, b))
      PROVE  \E n \in Rows(r, b) : n.key = k
  <2>1. NewJob(r, k, f[k]) \in Rows(r, b)
    BY <1>3, <1>6
  <2>2. NewJob(r, k, f[k]).key = k
    BY DEF NewJob
  <2> QED
    BY <2>1, <2>2
<1> QED
  BY <1>3, <1>4, <1>5, <1>6

-----------------------------------------------------------------------------
(* The steps of a run as transactions.                                     *)

LEMMA CurrentFacts ==
  ASSUME ControlInv, NEW r \in Run, next[r] <= Len(Order(TaskOf[r]))
  PROVE  /\ next[r] \in 1..Len(Order(TaskOf[r])) /\ Current(r) \in JobKey
         /\ Current(r) = IF next[r] <= LlmJobs[TaskOf[r]] THEN <<"llm", next[r]>>
                         ELSE <<"pass", next[r] - LlmJobs[TaskOf[r]]>>
<1>1. TaskOf[r] \in Task
  BY StoreAssumption
<1>2. next[r] \in 1..Len(Order(TaskOf[r]))
  BY <1>1, OrderFacts DEF ControlInv, ControlTyped
<1> QED
  BY <1>1, <1>2, OrderFacts DEF Current

\* Every step is a step of Store or leaves the tables alone.
LEMMA SyncStepOfStore ==
  ASSUME ControlInv, SyncNext
  PROVE  StoreNext \/ UNCHANGED storeVars
<1>1. ASSUME NEW r \in Run, RunTask(r) PROVE StoreNext \/ UNCHANGED storeVars
  BY <1>1 DEF RunTask, StoreNext
<1>2. ASSUME NEW r \in Run,
             \/ Think(r) \/ Crash(r) \/ Report(r) \/ BeginPosts(r) \/ SkipPost(r)
             \/ Post(r) \/ PostSync(r) \/ Finish(r) \/ \E b \in Batch : SkipSync(r, b)
      PROVE  UNCHANGED storeVars
  BY <1>2 DEF Think, Crash, Report, BeginPosts, SkipPost, Post, PostSync, Finish, SkipSync
<1>3. ASSUME NEW r \in Run, NEW b \in Batch, SkipBatch(r, b)
      PROVE  StoreNext \/ UNCHANGED storeVars
  BY <1>3 DEF SkipBatch, StoreNext
<1>4. ASSUME NEW r \in Run, NEW b \in Batch, SelectStrategy(r, b) \/ EnsureStrategy(r, b)
      PROVE  StoreNext
  BY <1>4 DEF SelectStrategy, EnsureStrategy, StoreNext, Seed
<1>5. ASSUME NEW r \in Run, NEW b \in Batch, SaveBatch(r, b) PROVE StoreNext
  <2>1. BriefVerdict(r, b) \in {"done", "failed", "keep"}
    BY DEF BriefVerdict
  <2> QED
    BY <1>5, <2>1, RowsFacts DEF SaveBatch, StoreNext
<1>6. ASSUME NEW r \in Run, NEW b \in Batch, LoseBatch(r, b)
      PROVE  StoreNext \/ UNCHANGED storeVars
  BY <1>6 DEF LoseBatch, StoreNext
<1>7. ASSUME NEW r \in Run, CloseFailed(r) \/ RecordAnswer(r)
      PROVE  StoreNext \/ UNCHANGED storeVars
  <2>1. next[r] <= Len(Order(TaskOf[r]))
    <3>1. CASE CloseFailed(r)
      BY <3>1 DEF CloseFailed, ToPost
    <3>2. CASE RecordAnswer(r)
      <4>1. next[r] \in 1..Len(Order(TaskOf[r]))
        BY <3>2 DEF RecordAnswer, ControlInv, RunInv, AnswerOf
      <4>2. Len(Order(TaskOf[r])) \in Nat
        BY StoreAssumption, OrderFacts
      <4> QED
        BY <4>1, <4>2
    <3> QED
      BY <1>7, <3>1, <3>2
  <2>2. Current(r) \in JobKey
    BY <2>1, CurrentFacts
  <2>3. \/ \E st \in {"ok", "failed"} : UpdateDispatchStatus(r, Current(r), st)
        \/ UNCHANGED storeVars
    BY <1>7 DEF CloseFailed, RecordAnswer, Records, TryUpdate, ControlInv, ControlTyped
  <2> QED
    BY <2>2, <2>3 DEF StoreNext
<1>8. ASSUME NEW r \in Run, Die(r) PROVE StoreNext \/ UNCHANGED storeVars
  BY <1>8 DEF Die, StoreNext
<1>9. ASSUME NEW r \in Run, Step(r) PROVE StoreNext \/ UNCHANGED storeVars
  BY <1>2, <1>3, <1>4, <1>5, <1>6, <1>7, <1>9 DEF Step, Save
<1>10. ASSUME NEW r \in Run, RunTaskSync(r) \/ SyncStep(r)
       PROVE  StoreNext \/ UNCHANGED storeVars
  BY <1>1, <1>2, <1>4, <1>5, <1>6, <1>10
  DEF RunTaskSync, SyncStep, Request, SaveSync, Respond
<1> QED
  BY <1>1, <1>8, <1>9, <1>10 DEF SyncNext, Background

-----------------------------------------------------------------------------
(* Where each run is.                                                      *)

\* A step of one run has to keep the invariant of that run only.
LEMMA OtherRuns ==
  ASSUME ControlInv, NEW r \in Run, ControlTyped', queue \subseteq queue',
         \A q \in Run : q # r =>
           /\ pc'[q] = pc[q] /\ fatal'[q] = fatal[q] /\ results'[q] = results[q]
           /\ next'[q] = next[q] /\ answer'[q] = answer[q] /\ http'[q] = http[q]
           /\ ids'[q] = ids[q] /\ reported'[q] = reported[q],
         RunInv(r)'
  PROVE  ControlInv'
<1> SUFFICES ASSUME NEW q \in Run, q # r PROVE RunInv(q)'
  BY DEF ControlInv
<1>1. RunInv(q)
  BY DEF ControlInv
<1> QED
  BY <1>1 DEF RunInv, AnswerOf, ThoughtOf, PositionOf, PatchOf, IsFailed, Current

\* The steps up to the end of reason_multi.
LEMMA EarlySteps ==
  ASSUME ControlInv, NEW r \in Run,
         \/ Background(r, RunTask(r)) \/ RunTaskSync(r)
         \/ Background(r, Think(r)) \/ Request(r, Think(r)) \/ Crash(r)
  PROVE  ControlInv'
<1> USE DEF Goto
<1>1. /\ UNCHANGED <<ids, reported, next, answer, queue>>
      /\ \/ mishaps' = mishaps
         \/ mishaps < MaxMishaps /\ mishaps' = mishaps + 1
      /\ pctx' = pctx \/ pctx' = [pctx EXCEPT ![r] = TRUE]
      /\ \/ pc'[r] \in {"thinking", "dead"} /\ fatal' = fatal /\ results' = results
         \/ /\ pc'[r] = "llm" /\ fatal' = fatal
            /\ \E res \in [1..LlmJobs[TaskOf[r]] -> Result] :
                 results' = [results EXCEPT ![r] = res]
         \/ /\ pc'[r] = "llm" /\ results' = results
            /\ fatal' = [fatal EXCEPT ![r] = TRUE]
      /\ \E to \in {"thinking", "llm", "dead"} : pc' = [pc EXCEPT ![r] = to]
      /\ \/ http' = http
         \/ \E h \in {"open", "500"} : http' = [http EXCEPT ![r] = h]
      /\ pc[r] \in {"new", "thinking"}
  BY DEF Background, Request, RunTask, RunTaskSync, Think, Crash, Mishap, syncVars, Result,
         ControlInv, ControlTyped
<1>2. TaskOf[r] \in Task /\ LlmJobs[TaskOf[r]] \in Nat
  BY StoreAssumption, OrderFacts
<1>3. pctx' \in [Run -> BOOLEAN]
  BY <1>1, Zenon DEF ControlInv, ControlTyped
<1>4. fatal' \in [Run -> BOOLEAN]
  <2>1. fatal' = fatal \/ fatal' = [fatal EXCEPT ![r] = TRUE]
    BY <1>1
  <2> QED
    BY <2>1, Zenon DEF ControlInv, ControlTyped
<1>5. results' \in [Run -> Seq(Result)]
  <2>1. \A res \in [1..LlmJobs[TaskOf[r]] -> Result] : res \in Seq(Result)
    BY <1>2
  <2>2. \/ results' = results
        \/ \E res \in Seq(Result) : results' = [results EXCEPT ![r] = res]
    BY <1>1, <2>1
  <2> QED
    BY <2>2 DEF ControlInv, ControlTyped
<1>6. ControlTyped'
  <2>1. pc' \in [Run -> Stage]
    <3>1. PICK to \in {"thinking", "llm", "dead"} : pc' = [pc EXCEPT ![r] = to]
      BY <1>1
    <3>2. to \in Stage
      BY DEF Stage, Batch
    <3> QED
      BY <3>1, <3>2 DEF ControlInv, ControlTyped
  <2>3. http' \in [Run -> {"async", "open", "200", "500"}]
    BY <1>1 DEF ControlInv, ControlTyped
  <2>2. mishaps' \in 0..MaxMishaps
    BY <1>1, MultiAssumption DEF ControlInv, ControlTyped
  <2> QED
    BY <1>1, <1>3, <1>4, <1>5, <2>1, <2>2, <2>3 DEF ControlInv, ControlTyped
<1>7. answer'[r] = "none"
  BY <1>1 DEF ControlInv, RunInv, AnswerOf
<1>8. results[r] = <<>> /\ ~fatal[r] /\ ids[r] = {} /\ reported[r] # "FAILED"
  BY <1>1 DEF ControlInv, RunInv, ThoughtOf, PatchOf
<1>9. ThoughtOf(r)'
  <2>1. CASE pc'[r] \in {"thinking", "dead"} /\ fatal' = fatal /\ results' = results
    BY <1>8, <2>1 DEF ThoughtOf
  <2>2. CASE /\ pc'[r] = "llm" /\ fatal' = fatal
             /\ \E res \in [1..LlmJobs[TaskOf[r]] -> Result] :
                  results' = [results EXCEPT ![r] = res]
    <3>1. PICK res \in [1..LlmJobs[TaskOf[r]] -> Result] : results'[r] = res
      BY <2>2 DEF ControlInv, ControlTyped
    <3>2. Len(res) = LlmJobs[TaskOf[r]]
      BY <1>2
    <3> QED
      BY <1>8, <2>2, <3>1, <3>2 DEF ThoughtOf
  <2>3. CASE pc'[r] = "llm" /\ results' = results /\ fatal' = [fatal EXCEPT ![r] = TRUE]
    <3>1. fatal'[r]
      BY <2>3 DEF ControlInv, ControlTyped
    <3> QED
      BY <1>8, <2>3, <3>1 DEF ThoughtOf
  <2> QED
    BY <1>1, <2>1, <2>2, <2>3
<1>10. AnswerOf(r)' /\ PositionOf(r)' /\ PatchOf(r)'
  <2>1. pc'[r] # "posting"
    BY <1>1 DEF ControlInv, ControlTyped
  <2> QED
    BY <1>1, <1>7, <1>8, <2>1 DEF AnswerOf, PositionOf, PatchOf, ControlInv, RunInv
<1>11. \A q \in Run : q # r =>
           /\ pc'[q] = pc[q] /\ fatal'[q] = fatal[q] /\ results'[q] = results[q]
           /\ next'[q] = next[q] /\ answer'[q] = answer[q] /\ http'[q] = http[q]
           /\ ids'[q] = ids[q] /\ reported'[q] = reported[q]
  BY <1>1 DEF ControlInv, ControlTyped
<1> QED
  BY <1>1, <1>6, <1>9, <1>10, <1>11, OtherRuns DEF RunInv

\* The steps that save a batch, or lose it.
LEMMA SavingSteps ==
  ASSUME ControlInv, NEW r \in Run, NEW b \in Batch, UNCHANGED http,
         \/ SkipBatch(r, b) \/ SkipSync(r, b) \/ SelectStrategy(r, b)
         \/ EnsureStrategy(r, b) \/ SaveBatch(r, b) \/ LoseBatch(r, b)
  PROVE  ControlInv'
<1> USE DEF Goto
<1> DEFINE ended == IF b = "llm" THEN "pass" ELSE "reporting"
<1>1. /\ UNCHANGED <<pctx, results, fatal, reported, next, answer, queue>>
      /\ \/ mishaps' = mishaps
         \/ mishaps < MaxMishaps /\ mishaps' = mishaps + 1
  BY DEF SkipBatch, SkipSync, SelectStrategy, EnsureStrategy, SaveBatch, LoseBatch, EndBatch,
         Mishap, runVars
<1>2. \A n \in 0..Len(BatchKeys(r, b)) : Flushed(r, b, n) \subseteq ToSet(BatchKeys(r, b))
  <2>1. BatchKeys(r, b) \in Seq({b} \X Nat)
    BY KeysFacts, StoreAssumption DEF BatchKeys
  <2> QED
    BY <2>1 DEF Flushed, ToSet
<1>3. {n.key : n \in Rows(r, b)} \subseteq ToSet(BatchKeys(r, b))
  BY RowsFacts
<1>4. /\ pc[r] = b
      /\ \/ pc' = pc /\ ids' = ids
         \/ /\ pc' = [pc EXCEPT ![r] = ended]
            /\ \E known \in SUBSET ToSet(BatchKeys(r, b)) :
                 ids' = [ids EXCEPT ![r] = @ \union known]
  BY <1>2, <1>3
  DEF SkipBatch, SkipSync, SelectStrategy, EnsureStrategy, SaveBatch, LoseBatch, EndBatch,
      runVars
<1>5. ended \in Stage \ {"new", "thinking", "posting", "dead"}
  BY DEF Stage, Batch
<1> HIDE DEF ended
<1>6. pc' \in [Run -> Stage]
  BY <1>4, <1>5 DEF ControlInv, ControlTyped
<1>7. ids' \in [Run -> SUBSET JobKey] /\ \A q \in Run : ids'[q] \subseteq ToSet(Order(TaskOf[q]))
  <2>1. ToSet(BatchKeys(r, b)) \subseteq JobKey \intersect ToSet(Order(TaskOf[r]))
    BY BatchKeysFacts
  <2>2. CASE ids' = ids
    BY <2>2 DEF ControlInv, ControlTyped
  <2>3. CASE \E known \in SUBSET ToSet(BatchKeys(r, b)) :
               ids' = [ids EXCEPT ![r] = @ \union known]
    <3>1. PICK known \in SUBSET ToSet(BatchKeys(r, b)) :
            ids' = [ids EXCEPT ![r] = ids[r] \union known]
      BY <2>3
    <3>2. ids[r] \union known \in SUBSET (JobKey \intersect ToSet(Order(TaskOf[r])))
      BY <2>1 DEF ControlInv, ControlTyped
    <3> QED
      BY <3>1, <3>2 DEF ControlInv, ControlTyped
  <2> QED
    BY <1>4, <2>2, <2>3
<1>8. ControlTyped'
  <2>1. mishaps' \in 0..MaxMishaps
    BY <1>1, MultiAssumption DEF ControlInv, ControlTyped
  <2> QED
    BY <1>1, <1>6, <1>7, <2>1 DEF ControlInv, ControlTyped
<1>9. answer[r] = "none"
  BY <1>4 DEF ControlInv, RunInv, AnswerOf, Batch
<1>10. /\ pc[r] \notin {"new", "thinking", "posting", "dead"}
       /\ pc'[r] \notin {"new", "thinking", "posting", "dead"}
  BY <1>4, <1>5 DEF Batch, ControlInv, ControlTyped
<1>11. AnswerOf(r)' /\ ThoughtOf(r)' /\ PositionOf(r)'
  <2>1. ThoughtOf(r) /\ PositionOf(r)
    BY DEF ControlInv, RunInv
  <2> QED
    BY <1>1, <1>9, <1>10, <2>1 DEF AnswerOf, ThoughtOf, PositionOf
<1>13. PatchOf(r)'
  <2>1. PatchOf(r)
    BY DEF ControlInv, RunInv
  <2>2. ASSUME fatal[r], NEW k \in ToSet(BatchKeys(r, b)) PROVE k[1] = "pass"
    <3>1. k[1] = b
      BY BatchKeysFacts
    <3>2. b # "llm"
      BY <2>2 DEF BatchKeys, ToSet
    <3> QED
      BY <3>1, <3>2 DEF Batch
  <2>3. \A k \in ids'[r] : k \in ids[r] \/ k \in ToSet(BatchKeys(r, b))
    BY <1>4 DEF ControlInv, ControlTyped
  <2> QED
    BY <1>1, <1>10, <2>1, <2>2, <2>3 DEF PatchOf
<1>12. \A q \in Run : q # r => pc'[q] = pc[q] /\ ids'[q] = ids[q]
  BY <1>4 DEF ControlInv, ControlTyped
<1> QED
  BY <1>1, <1>8, <1>11, <1>12, <1>13, OtherRuns DEF RunInv

\* The steps between the batches and the first POST, and after the last.
LEMMA TurningSteps ==
  ASSUME ControlInv, NEW r \in Run,
         \/ Background(r, Report(r)) \/ Request(r, BeginPosts(r))
         \/ Background(r, Finish(r)) \/ Respond(r)
  PROVE  ControlInv'
<1> USE DEF Goto
<1>1. TaskOf[r] \in Task /\ LlmJobs[TaskOf[r]] \in Nat /\ PassJobs[TaskOf[r]] \in Nat
      /\ Len(Order(TaskOf[r])) = LlmJobs[TaskOf[r]] + PassJobs[TaskOf[r]]
  BY StoreAssumption, OrderFacts
<1>2. /\ UNCHANGED <<pctx, results, fatal, ids, answer, queue, mishaps>>
      /\ \/ reported' = reported
         \/ \E st \in Result : /\ reported' = [reported EXCEPT ![r] = st]
                               /\ st = "FAILED" => fatal[r]
      /\ \/ /\ pc[r] = "reporting" /\ pc' = [pc EXCEPT ![r] = "posting"] /\ http' = http
            /\ \/ next' = next /\ http[r] = "async" /\ reported'[r] # "none"
               \/ /\ next' = [next EXCEPT ![r] = LlmJobs[TaskOf[r]] + 1]
                  /\ http[r] = "open"
         \/ /\ pc[r] = "posting" /\ pc' = [pc EXCEPT ![r] = "done"] /\ next' = next
            /\ next[r] > Len(Order(TaskOf[r]))
            /\ http' = http \/ http' = [http EXCEPT ![r] = "200"]
  BY DEF Background, Request, Respond, Report, BeginPosts, Finish, Result, syncVars,
         ControlInv, ControlTyped
<1>3. AnswerOf(r) /\ ThoughtOf(r) /\ PositionOf(r) /\ PatchOf(r)
  BY DEF ControlInv, RunInv
<1>4. next[r] \in Nat /\ next'[r] \in Nat \ {0} /\ next' \in [Run -> Nat \ {0}]
  <2>1. LlmJobs[TaskOf[r]] + 1 \in Nat \ {0}
    BY <1>1
  <2>2. next' = next \/ next' = [next EXCEPT ![r] = LlmJobs[TaskOf[r]] + 1]
    BY <1>2
  <2> QED
    BY <2>1, <2>2 DEF ControlInv, ControlTyped
<1>5. answer[r] = "none"
  BY <1>1, <1>2, <1>3, <1>4 DEF AnswerOf
<1>6. ControlTyped'
  <2>1. pc' \in [Run -> Stage]
    <3>1. "posting" \in Stage /\ "done" \in Stage
      BY DEF Stage
    <3>2. pc' = [pc EXCEPT ![r] = "posting"] \/ pc' = [pc EXCEPT ![r] = "done"]
      BY <1>2
    <3>3. pc \in [Run -> Stage]
      BY DEF ControlInv, ControlTyped
    <3> QED
      BY <3>1, <3>2, <3>3
  <2>2. reported' \in [Run -> Result \union {"none"}]
    <3>1. reported' = reported \/ \E st \in Result : reported' = [reported EXCEPT ![r] = st]
      BY <1>2
    <3> QED
      BY <3>1 DEF ControlInv, ControlTyped
  <2>3. http' \in [Run -> {"async", "open", "200", "500"}]
    <3>1. http' = http \/ http' = [http EXCEPT ![r] = "200"]
      BY <1>2
    <3> QED
      BY <3>1 DEF ControlInv, ControlTyped
  <2> QED
    BY <1>2, <1>4, <2>1, <2>2, <2>3 DEF ControlInv, ControlTyped
<1>7. pc'[r] \in {"posting", "done"} /\ pc[r] \in {"reporting", "posting"}
  BY <1>2 DEF ControlInv, ControlTyped
<1>8. AnswerOf(r)' /\ ThoughtOf(r)'
  BY <1>2, <1>3, <1>5, <1>7 DEF AnswerOf, ThoughtOf
<1>9. PositionOf(r)'
  <2>1. CASE pc'[r] = "posting"
    <3>1. \/ next' = next /\ http[r] = "async" /\ http' = http
          \/ next' = [next EXCEPT ![r] = LlmJobs[TaskOf[r]] + 1]
      BY <1>2, <2>1 DEF ControlInv, ControlTyped
    <3>2. CASE next' = next /\ http[r] = "async" /\ http' = http
      BY <1>3, <3>2 DEF PositionOf
    <3>3. CASE next' = [next EXCEPT ![r] = LlmJobs[TaskOf[r]] + 1]
      <4>1. next'[r] = LlmJobs[TaskOf[r]] + 1
        BY <3>3 DEF ControlInv, ControlTyped
      <4> QED
        BY <1>1, <4>1 DEF PositionOf
    <3> QED
      BY <3>1, <3>2, <3>3
  <2>2. CASE pc'[r] = "done"
    <3>1. next' = next
      BY <1>2, <2>2 DEF ControlInv, ControlTyped
    <3> QED
      BY <1>3, <2>2, <3>1 DEF PositionOf
  <2> QED
    BY <1>7, <2>1, <2>2
<1>10. \A q \in Run : q # r => /\ pc'[q] = pc[q] /\ next'[q] = next[q]
                               /\ http'[q] = http[q] /\ reported'[q] = reported[q]
  BY <1>2 DEF ControlInv, ControlTyped
<1>11. PatchOf(r)'
  <2>1. reported'[r] = "FAILED" => fatal[r]
    BY <1>2, <1>3 DEF PatchOf, ControlInv, ControlTyped
  <2>2. pc'[r] = "posting" /\ http'[r] = "async" => reported'[r] # "none"
    BY <1>2 DEF ControlInv, ControlTyped
  <2> QED
    BY <1>2, <1>3, <1>7, <2>1, <2>2 DEF PatchOf
<1> QED
  BY <1>2, <1>6, <1>8, <1>9, <1>10, <1>11, OtherRuns DEF RunInv

\* The steps that leave a sub-job behind.
LEMMA AdvancingSteps ==
  ASSUME ControlInv, NEW r \in Run,
         \/ Background(r, SkipPost(r)) \/ Background(r, CloseFailed(r))
         \/ Background(r, RecordAnswer(r)) \/ PostSync(r)
  PROVE  ControlInv'
<1>1. AnswerOf(r) /\ ThoughtOf(r) /\ PositionOf(r) /\ PatchOf(r)
  BY DEF ControlInv, RunInv
<1>2. Len(Order(TaskOf[r])) \in Nat /\ LlmJobs[TaskOf[r]] \in Nat
  BY StoreAssumption, OrderFacts
<1>3. pc[r] = "posting" /\ next[r] \in Nat \ {0} /\ next[r] <= Len(Order(TaskOf[r]))
  <2>1. CASE ToPost(r)
    BY <2>1 DEF ToPost, ControlInv, ControlTyped
  <2>2. CASE RecordAnswer(r)
    BY <1>1, <1>2, <2>2 DEF RecordAnswer, AnswerOf
  <2> QED
    BY <2>1, <2>2 DEF Background, SkipPost, CloseFailed, PostSync
<1>4. /\ UNCHANGED <<pc, pctx, results, fatal, ids, reported, http>>
      /\ \/ mishaps' = mishaps
         \/ mishaps < MaxMishaps /\ mishaps' = mishaps + 1
      /\ \/ answer' = [answer EXCEPT ![r] = "none"]
         \/ answer' = answer /\ answer[r] = "none"
      /\ next' = [next EXCEPT ![r] = next[r] + 1]
      /\ queue' = queue \/ queue' = queue \union {<<r, Current(r)>>}
      /\ http[r] \in {"async", "open"}
  BY DEF Background, SkipPost, CloseFailed, RecordAnswer, Records, PostSync, Advance,
         TryUpdate, Mishap, ToPost, syncVars
<1>5. ControlTyped'
  <2>1. mishaps' \in 0..MaxMishaps
    BY <1>4, MultiAssumption DEF ControlInv, ControlTyped
  <2>2. next' \in [Run -> Nat \ {0}]
    BY <1>3, <1>4 DEF ControlInv, ControlTyped
  <2>3. queue' \subseteq Run \X JobKey
    BY <1>3, <1>4, CurrentFacts DEF ControlInv, ControlTyped
  <2>4. answer' \in [Run -> {"none", "ok", "failed"}]
    BY <1>4 DEF ControlInv, ControlTyped
  <2> QED
    BY <1>4, <2>1, <2>2, <2>3, <2>4 DEF ControlInv, ControlTyped
<1>6. answer'[r] = "none" /\ next'[r] = next[r] + 1
  BY <1>4 DEF ControlInv, ControlTyped
<1>7. AnswerOf(r)' /\ ThoughtOf(r)' /\ PositionOf(r)' /\ PatchOf(r)'
  BY <1>1, <1>2, <1>3, <1>4, <1>6 DEF AnswerOf, ThoughtOf, PositionOf, PatchOf
<1>8. \A q \in Run : q # r => next'[q] = next[q] /\ answer'[q] = answer[q]
  BY <1>4 DEF ControlInv, ControlTyped
<1> QED
  BY <1>4, <1>5, <1>7, <1>8, OtherRuns DEF RunInv

\* The POST of a background run, and a restart.
LEMMA PostOrDie ==
  ASSUME ControlInv, NEW r \in Run, UNCHANGED http, Post(r) \/ Die(r)
  PROVE  ControlInv'
<1>1. AnswerOf(r) /\ ThoughtOf(r) /\ PositionOf(r) /\ PatchOf(r)
  BY DEF ControlInv, RunInv
<1>2. CASE Post(r)
  <2>1. /\ next[r] <= Len(Order(TaskOf[r])) /\ pc[r] = "posting" /\ ~IsFailed(r, Current(r))
        /\ UNCHANGED <<pc, pctx, results, fatal, ids, reported, next, mishaps>>
        /\ \E st \in {"ok", "failed"} :
             /\ answer' = [answer EXCEPT ![r] = st]
             /\ \/ queue' = queue /\ st = "failed"
                \/ queue' = queue \union {<<r, Current(r)>>}
    BY <1>2 DEF Post, ToPost
  <2>2. next[r] \in 1..Len(Order(TaskOf[r])) /\ Current(r) \in JobKey
    BY <2>1, CurrentFacts
  <2>3. ControlTyped'
    BY <2>1, <2>2 DEF ControlInv, ControlTyped
  <2>4. IsFailed(r, Current(r))' = IsFailed(r, Current(r)) /\ Current(r)' = Current(r)
    BY <2>1 DEF IsFailed, Current
  <2>5. answer'[r] = "ok" => <<r, Current(r)>> \in queue'
    BY <2>1 DEF ControlInv, ControlTyped
  <2>6. AnswerOf(r)' /\ ThoughtOf(r)' /\ PositionOf(r)' /\ PatchOf(r)'
    BY <1>1, <2>1, <2>2, <2>4, <2>5 DEF AnswerOf, ThoughtOf, PositionOf, PatchOf
  <2>7. queue \subseteq queue' /\ \A q \in Run : q # r => answer'[q] = answer[q]
    BY <2>1 DEF ControlInv, ControlTyped
  <2> QED
    BY <2>1, <2>3, <2>6, <2>7, OtherRuns DEF RunInv
<1>3. CASE Die(r)
  <2>1. /\ pc' = [pc EXCEPT ![r] = "dead"] /\ pc[r] \notin {"new", "done", "dead"}
        /\ UNCHANGED <<pctx, results, fatal, ids, reported, next, answer, queue>>
        /\ mishaps < MaxMishaps /\ mishaps' = mishaps + 1
    BY <1>3 DEF Die, Mishap
  <2>2. ControlTyped'
    BY <2>1, MultiAssumption DEF ControlInv, ControlTyped, Stage
  <2>3. pc'[r] = "dead" /\ \A q \in Run : q # r => pc'[q] = pc[q]
    BY <2>1 DEF ControlInv, ControlTyped
  <2>4. AnswerOf(r)' /\ ThoughtOf(r)' /\ PositionOf(r)' /\ PatchOf(r)'
    BY <1>1, <2>1, <2>3 DEF AnswerOf, ThoughtOf, PositionOf, PatchOf, IsFailed, Current
  <2> QED
    BY <2>1, <2>2, <2>3, <2>4, OtherRuns DEF RunInv
<1> QED
  BY <1>2, <1>3

THEOREM SyncControl == SyncSpec => []ControlInv
<1>1. SyncInit => ControlInv
  <2> SUFFICES ASSUME SyncInit PROVE ControlInv
    OBVIOUS
  <2>1. \A r \in Run : Len(Order(TaskOf[r])) \in Nat
    BY StoreAssumption, OrderFacts
  <2>2. pctx \in [Run -> BOOLEAN] /\ fatal \in [Run -> BOOLEAN]
    <3>1. pctx = [r \in Run |-> FALSE] /\ fatal = [r \in Run |-> FALSE]
      BY DEF SyncInit, Init
    <3> QED
      BY <3>1, Zenon
  <2>3. ControlTyped
    BY <2>2, MultiAssumption DEF SyncInit, Init, ControlTyped, Stage, Result
  <2> QED
    BY <2>1, <2>3
    DEF SyncInit, Init, ControlInv, RunInv, AnswerOf, ThoughtOf, PositionOf, PatchOf
<1>2. ControlInv /\ [SyncNext]_allVars => ControlInv'
  <2> SUFFICES ASSUME ControlInv, [SyncNext]_allVars PROVE ControlInv'
    OBVIOUS
  <2>1. CASE UNCHANGED allVars
    BY <2>1
    DEF allVars, syncVars, vars, runVars, ControlInv, ControlTyped, RunInv, AnswerOf,
        ThoughtOf, PositionOf, PatchOf, IsFailed, Current
  <2>2. CASE SyncNext
    <3>1. PICK r \in Run :
            \/ Background(r, RunTask(r) \/ Step(r))
            \/ Die(r) /\ UNCHANGED syncVars
            \/ RunTaskSync(r) \/ SyncStep(r)
      BY <2>2 DEF SyncNext
    <3>2. CASE Background(r, RunTask(r) \/ Step(r))
      BY <3>2, EarlySteps, SavingSteps, TurningSteps, AdvancingSteps, PostOrDie
      DEF Background, Step, Save, syncVars
    <3>3. CASE Die(r) /\ UNCHANGED syncVars
      BY <3>3, PostOrDie DEF syncVars
    <3>4. CASE RunTaskSync(r) \/ SyncStep(r)
      BY <3>4, EarlySteps, SavingSteps, TurningSteps, AdvancingSteps
      DEF SyncStep, Request, SaveSync, syncVars
    <3> QED
      BY <3>1, <3>2, <3>3, <3>4
  <2> QED
    BY <2>1, <2>2
<1> QED
  BY <1>1, <1>2, PTL DEF SyncSpec

\* Both endpoints use the tables only through the transactions of Store.
THEOREM SyncImplementsStore == SyncSpec => StoreSpec
<1>1. SyncInit => StoreInit
  BY DEF SyncInit, Init
<1>2. ControlInv /\ [SyncNext]_allVars => [StoreNext]_storeVars
  BY SyncStepOfStore DEF allVars, vars
<1> QED
  BY <1>1, <1>2, SyncControl, PTL DEF SyncSpec, StoreSpec

\* A request of POST /tasks/sync beside background runs leaves a user with one
\* strategy at most.
THEOREM SyncStrategyUnique == SyncSpec => []OneActiveStrategy
  BY SyncImplementsStore, StrategyUnique, PTL

\* The rows of both batches, saved in transactions of their own, are pinned to it.
THEOREM SyncJobsPinned == SyncSpec => []JobsPinned
  BY SyncImplementsStore, JobsStayPinned, PTL

-----------------------------------------------------------------------------
(* What the tables say of the sub-jobs.                                    *)

Unposted == Stage \ {"posting", "done", "dead"}

\* A run has no rows before the split, and no POSTs before its PATCH.
Fresh ==
  \A r \in Run :
    /\ pc[r] \in {"new", "thinking"} => RowsOf(r) = {}
    /\ pc[r] \in Unposted => \A p \in queue : p[1] # r

\* A row is "failed" if the LLM failed its sub-job, and no row is that of an LLM
\* job whose batch failed as a whole.
RowStatus ==
  \A j \in jobs : /\ j.status = "failed" <=> IsFailed(j.by, j.key)
                  /\ fatal[j.by] => j.key[1] = "pass"

TableInv ==
  /\ Fresh /\ RowStatus
  /\ OkWasQueued /\ FailedStaysHome /\ ReportedFirst /\ BriefDoneHasJob

\* No step turns a request into a background run, or lets one go back.
Onward ==
  \A r \in Run :
    /\ http'[r] = "async" => http[r] = "async"
    /\ pc'[r] \in {"new", "thinking"} => pc[r] \in {"new", "thinking"}
    /\ pc'[r] \in Unposted => pc[r] \in Unposted

\* Steps that leave the jobs and the receivers alone.
LEMMA QuietTables ==
  ASSUME TableInv, ControlInv, UNCHANGED <<jobs, queue, results, fatal>>, Onward,
         \A t \in Task : raw_briefs'[t] = "done" => raw_briefs[t] = "done",
         \A r \in Run : reported'[r] = reported[r] \/ pc[r] \in Unposted
  PROVE  TableInv'
<1>1. Fresh' /\ OkWasQueued' /\ FailedStaysHome'
  BY DEF TableInv, Fresh, OkWasQueued, FailedStaysHome, RowsOf, Onward
<1>2. RowStatus' /\ BriefDoneHasJob'
  BY DEF TableInv, RowStatus, BriefDoneHasJob, IsFailed
<1>3. ReportedFirst'
  BY DEF TableInv, ReportedFirst, Fresh, Onward, ControlInv, ControlTyped
<1> QED
  BY <1>1, <1>2, <1>3 DEF TableInv

LEMMA QuietActions ==
  ASSUME TableInv, ControlInv, StoreInv, NEW r \in Run, Onward,
         \/ RunTask(r) \/ Crash(r) \/ Report(r) \/ BeginPosts(r) \/ SkipPost(r)
         \/ Finish(r) \/ Die(r)
         \/ \E b \in Batch : \/ SkipBatch(r, b) \/ SkipSync(r, b) \/ SelectStrategy(r, b)
                            \/ EnsureStrategy(r, b) \/ LoseBatch(r, b)
  PROVE  TableInv'
<1> USE DEF Goto
<1>1. UNCHANGED <<jobs, queue, results, fatal>>
  BY DEF RunTask, Crash, Report, BeginPosts, SkipPost, Finish, Die, SkipBatch, SkipSync,
         SelectStrategy, EnsureStrategy, LoseBatch, EndBatch, Advance, storeVars,
         runVars, tables, PersistOnIngest, UpsertUser, InsertRawBrief,
         MarkRawBrief, GetActiveStrategy, CreateStrategy,
         UniqueViolation, Rollback, Disconnect
<1>2. \A t \in Task : raw_briefs'[t] = "done" => raw_briefs[t] = "done"
  <2>1. \/ raw_briefs' = raw_briefs \/ PersistOnIngest(r) \/ MarkRawBrief(r, "failed")
    BY DEF RunTask, Crash, Report, BeginPosts, SkipPost, Finish, Die, SkipBatch, SkipSync,
           SelectStrategy, EnsureStrategy, LoseBatch, storeVars, tables,
           GetActiveStrategy, CreateStrategy, UniqueViolation, Rollback, Disconnect
  <2> QED
    BY <2>1, StoreAssumption DEF PersistOnIngest, UpsertUser, InsertRawBrief,
                                 MarkRawBrief, StoreInv, StoreTypeOK
<1>3. \A q \in Run : reported'[q] = reported[q] \/ pc[q] \in Unposted
  BY DEF RunTask, Crash, Report, BeginPosts, SkipPost, Finish, Die, SkipBatch, SkipSync,
         SelectStrategy, EnsureStrategy, LoseBatch, EndBatch, Advance, runVars, ControlInv,
         ControlTyped, Stage, Unposted
<1> QED
  BY <1>1, <1>2, <1>3, QuietTables

\* The split decides what is saved, of a run that saved and posted nothing yet.
LEMMA ThinkTables ==
  ASSUME TableInv, ControlInv, StoreInv, NEW r \in Run, Onward, Think(r)
  PROVE  TableInv'
<1> USE DEF Goto
<1>1. /\ UNCHANGED <<jobs, raw_briefs, queue, reported>>
      /\ RowsOf(r) = {} /\ (\A p \in queue : p[1] # r)
      /\ \A q \in Run : q # r => results'[q] = results[q] /\ fatal'[q] = fatal[q]
  BY DEF Think, storeVars, TableInv, Fresh, ControlInv, ControlTyped, Stage, Unposted
<1>2. Fresh' /\ OkWasQueued' /\ BriefDoneHasJob' /\ ReportedFirst'
  <2>1. Fresh'
    BY <1>1 DEF TableInv, Fresh, RowsOf, Onward
  <2>2. OkWasQueued' /\ BriefDoneHasJob'
    BY <1>1 DEF TableInv, OkWasQueued, BriefDoneHasJob
  <2>3. ReportedFirst'
    BY <1>1 DEF TableInv, ReportedFirst, Onward, ControlInv, ControlTyped
  <2> QED
    BY <2>1, <2>2, <2>3
<1>3. FailedStaysHome'
  <2> SUFFICES ASSUME NEW q \in Run, NEW i \in DOMAIN results'[q], results'[q][i] = "FAILED"
               PROVE  /\ <<q, <<"llm", i>> >> \notin queue
                      /\ \A j \in RowsOf(q) : j.key = <<"llm", i>> => j.dispatch = "failed"
    BY <1>1 DEF FailedStaysHome, RowsOf
  <2>1. CASE q = r
    BY <1>1, <2>1
  <2>2. CASE q # r
    BY <1>1, <2>2 DEF TableInv, FailedStaysHome
  <2> QED
    BY <2>1, <2>2
<1>4. RowStatus'
  <2>1. \A j \in jobs : j.by \in Run /\ j.by # r
    BY <1>1 DEF RowsOf, StoreInv, StoreTypeOK, JobRow
  <2> QED
    BY <1>1, <2>1 DEF TableInv, RowStatus, IsFailed
<1> QED
  BY <1>2, <1>3, <1>4 DEF TableInv

\* A sub-job is handed over only if the LLM did not fail it.
LEMMA PostTables ==
  ASSUME TableInv, ControlInv, NEW r \in Run,
         Background(r, Post(r)) \/ PostSync(r)
  PROVE  TableInv'
<1>1. /\ UNCHANGED <<jobs, raw_briefs, results, fatal, pc, http, reported>>
      /\ \/ queue' = queue
         \/ queue' = queue \union {<<r, Current(r)>>}
      /\ pc[r] = "posting" /\ next[r] <= Len(Order(TaskOf[r]))
  BY DEF Background, syncVars, Post, PostSync, ToPost, storeVars
<1>2. ~IsFailed(r, Current(r))
  <2>1. CASE Background(r, Post(r))
    BY <2>1 DEF Background, Post
  <2>2. CASE PostSync(r)
    <3>1. next[r] > LlmJobs[TaskOf[r]]
      BY <1>1, <2>2 DEF PostSync, ControlInv, RunInv, PositionOf
    <3>2. LlmJobs[TaskOf[r]] \in Nat /\ next[r] \in Nat
      BY StoreAssumption, OrderFacts DEF ControlInv, ControlTyped
    <3>3. Current(r)[1] = "pass"
      BY <1>1, <3>1, <3>2, CurrentFacts
    <3> QED
      BY <3>3 DEF IsFailed
  <2> QED
    BY <2>1, <2>2
<1>3. Fresh' /\ OkWasQueued' /\ BriefDoneHasJob' /\ RowStatus'
  <2>1. Fresh'
    BY <1>1 DEF TableInv, Fresh, RowsOf, Unposted
  <2>2. OkWasQueued' /\ BriefDoneHasJob'
    BY <1>1 DEF TableInv, OkWasQueued, BriefDoneHasJob
  <2>3. RowStatus'
    BY <1>1 DEF TableInv, RowStatus, IsFailed
  <2> QED
    BY <2>1, <2>2, <2>3
<1>5. ReportedFirst'
  <2>1. CASE Background(r, Post(r))
    <3>1. PatchOf(r) /\ Current(r) \in ids[r] /\ http[r] = "async" /\ pc[r] = "posting"
      BY <1>1, <2>1 DEF Background, Post, ControlInv, RunInv
    <3>2. reported[r] # "none" /\ (Current(r)[1] = "llm" => reported[r] # "FAILED")
      BY <3>1 DEF PatchOf
    <3>3. reported[r] \in {"none", "COMPLETED", "FAILED"}
      BY DEF ControlInv, ControlTyped, Result
    <3> QED
      BY <1>1, <3>2, <3>3 DEF TableInv, ReportedFirst
  <2>2. CASE PostSync(r)
    <3>1. http[r] = "open"
      BY <2>2 DEF PostSync
    <3> QED
      BY <1>1, <3>1 DEF TableInv, ReportedFirst
  <2> QED
    BY <2>1, <2>2
<1>4. FailedStaysHome'
  <2> SUFFICES ASSUME NEW q \in Run, NEW i \in DOMAIN results[q], results[q][i] = "FAILED"
               PROVE  <<q, <<"llm", i>> >> \notin queue'
    BY <1>1 DEF TableInv, FailedStaysHome, RowsOf
  <2>1. <<q, <<"llm", i>> >> \notin queue
    BY DEF TableInv, FailedStaysHome
  <2>2. <<q, <<"llm", i>> >> # <<r, Current(r)>>
    BY <1>2 DEF IsFailed
  <2> QED
    BY <1>1, <2>1, <2>2
<1> QED
  BY <1>3, <1>4, <1>5 DEF TableInv

\* dispatch_status is set to what became of the current sub-job.
LEMMA RecordTables ==
  ASSUME TableInv, ControlInv, StoreInv, NEW r \in Run, UNCHANGED http,
         CloseFailed(r) \/ RecordAnswer(r)
  PROVE  TableInv'
<1>1. UNCHANGED <<raw_briefs, results, fatal, pc, queue, reported, http>>
  BY DEF CloseFailed, RecordAnswer, Records, TryUpdate, Advance, UpdateDispatchStatus,
         storeVars
<1> DEFINE k == Current(r)
<1>2. PICK st \in {"ok", "failed"} :
        /\ \/ jobs' = jobs
           \/ jobs' = {IF j.by = r /\ j.key = k THEN [j EXCEPT !.dispatch = st] ELSE j :
                         j \in jobs}
        /\ st = "ok" => <<r, k>> \in queue
        /\ ~IsFailed(r, k) \/ st = "failed"
  <2>1. CASE CloseFailed(r)
    BY <2>1 DEF CloseFailed, TryUpdate, UpdateDispatchStatus, storeVars
  <2>2. CASE RecordAnswer(r)
    <3>1. answer[r] \in {"ok", "failed"} /\ ~IsFailed(r, k)
          /\ (answer[r] = "ok" => <<r, k>> \in queue)
      BY <2>2 DEF RecordAnswer, ControlInv, RunInv, ControlTyped, AnswerOf
    <3>2. UpdateDispatchStatus(r, k, answer[r]) \/ jobs' = jobs
      BY <2>2 DEF RecordAnswer, Records, TryUpdate, storeVars
    <3> QED
      BY <3>1, <3>2 DEF UpdateDispatchStatus
  <2> QED
    BY <2>1, <2>2
<1> HIDE DEF k
<1>3. ASSUME NEW n \in jobs'
      PROVE  \E j \in jobs :
               /\ n.by = j.by /\ n.key = j.key /\ n.status = j.status
               /\ \/ n.dispatch = j.dispatch
                  \/ j.by = r /\ j.key = k /\ n.dispatch = st
  BY <1>2 DEF StoreInv, StoreTypeOK, JobRow
<1>4. ASSUME NEW j \in jobs
      PROVE  \E n \in jobs' : n.by = j.by /\ n.key = j.key /\ n.status = j.status
  <2> DEFINE n == IF j.by = r /\ j.key = k THEN [j EXCEPT !.dispatch = st] ELSE j
  <2>1. n.by = j.by /\ n.key = j.key /\ n.status = j.status
    BY DEF StoreInv, StoreTypeOK, JobRow
  <2>2. n \in jobs' \/ jobs' = jobs
    BY <1>2
  <2> QED
    BY <2>1, <2>2
<1>6. Fresh'
  BY <1>1, <1>3 DEF TableInv, Fresh, RowsOf, Unposted
<1>7. OkWasQueued'
  BY <1>1, <1>2, <1>3 DEF TableInv, OkWasQueued
<1>8. FailedStaysHome'
  <2> SUFFICES ASSUME NEW q \in Run, NEW i \in DOMAIN results[q], results[q][i] = "FAILED",
                      NEW n \in RowsOf(q)', n.key = <<"llm", i>>
               PROVE  n.dispatch = "failed"
    BY <1>1 DEF TableInv, FailedStaysHome
  <2>1. PICK j \in jobs :
          /\ n.by = j.by /\ n.key = j.key
          /\ \/ n.dispatch = j.dispatch
             \/ j.by = r /\ j.key = k /\ n.dispatch = st
    BY <1>3 DEF RowsOf
  <2>2. CASE n.dispatch = j.dispatch
    BY <2>1, <2>2 DEF TableInv, FailedStaysHome, RowsOf
  <2>3. CASE j.by = r /\ j.key = k /\ n.dispatch = st
    <3>1. q = r /\ k = <<"llm", i>>
      BY <2>1, <2>3 DEF RowsOf
    <3>2. IsFailed(r, k)
      BY <3>1 DEF IsFailed
    <3> QED
      BY <1>2, <2>3, <3>2
  <2> QED
    BY <2>1, <2>2, <2>3
<1>9. RowStatus' /\ ReportedFirst'
  <2>1. RowStatus'
    BY <1>1, <1>3 DEF TableInv, RowStatus, IsFailed
  <2> QED
    BY <1>1, <2>1 DEF TableInv, ReportedFirst
<1>10. BriefDoneHasJob'
  <2> SUFFICES ASSUME NEW t \in Task, raw_briefs[t] = "done"
               PROVE  \E n \in jobs' : TaskOf[n.by] = t /\ n.key[1] = "llm" /\ n.status = "done"
    BY <1>1 DEF BriefDoneHasJob
  <2>1. PICK j \in jobs : TaskOf[j.by] = t /\ j.key[1] = "llm" /\ j.status = "done"
    BY DEF TableInv, BriefDoneHasJob
  <2>2. PICK n \in jobs' : n.by = j.by /\ n.key = j.key /\ n.status = j.status
    BY <1>4
  <2> QED
    BY <2>1, <2>2
<1> QED
  BY <1>6, <1>7, <1>8, <1>9, <1>10 DEF TableInv

\* The rows of a batch are committed together; each says what the LLM made of it.
LEMMA SaveTables ==
  ASSUME TableInv, ControlInv, StoreInv, NEW r \in Run, NEW b \in Batch, Onward,
         SaveBatch(r, b)
  PROVE  TableInv'
<1> DEFINE rows == Rows(r, b)
<1>1. /\ UNCHANGED <<results, fatal, queue, reported>> /\ jobs' = jobs \union rows
      /\ raw_briefs' = raw_briefs \/
           raw_briefs' = [raw_briefs EXCEPT ![TaskOf[r]] = BriefVerdict(r, b)]
      /\ BriefVerdict(r, b) = "keep" => raw_briefs' = raw_briefs
      /\ pc[r] = b /\ (Seeds(r, b) => held[r] # NoRow)
      /\ \A q \in Run : pc'[q] \in {"new", "thinking"} => pc[q] \in {"new", "thinking"} /\ q # r
  BY DEF SaveBatch, CommitJobs, EndBatch, Goto, ControlInv, ControlTyped, Batch
<1>2. /\ \A n \in rows : /\ n.by = r /\ n.key \in ToSet(BatchKeys(r, b)) /\ n.key[1] = b
                        /\ <<n.status, n.dispatch>> = Shape(r, n.key)
      /\ rows = {} \/ \A k \in ToSet(BatchKeys(r, b)) : \E n \in rows : n.key = k
      /\ held[r] # NoRow => \A k \in ToSet(BatchKeys(r, b)) : \E n \in rows : n.key = k
  BY RowsFacts, BatchKeysFacts
<1>3. Fresh'
  BY <1>1, <1>2 DEF TableInv, Fresh, RowsOf, Onward
<1>4. OkWasQueued'
  <2>1. \A n \in rows : n.dispatch # "ok"
    BY <1>2 DEF Shape
  <2> QED
    BY <1>1, <2>1 DEF TableInv, OkWasQueued
<1>5. FailedStaysHome'
  <2> SUFFICES ASSUME NEW q \in Run, NEW i \in DOMAIN results[q], results[q][i] = "FAILED",
                      NEW j \in RowsOf(q)', j.key = <<"llm", i>>
               PROVE  j.dispatch = "failed"
    BY <1>1 DEF TableInv, FailedStaysHome
  <2>1. CASE j \in jobs
    BY <2>1 DEF TableInv, FailedStaysHome, RowsOf
  <2>2. CASE j \in rows
    <3>1. q = r
      BY <1>2, <2>2 DEF RowsOf
    <3>2. Shape(r, j.key) = <<"failed", "failed">>
      BY <3>1 DEF Shape, IsFailed
    <3> QED
      BY <1>2, <2>2, <3>2
  <2> QED
    BY <1>1, <2>1, <2>2 DEF RowsOf
<1>6. RowStatus' /\ ReportedFirst'
  <2>1. ASSUME NEW n \in rows
        PROVE  /\ n.status = "failed" <=> IsFailed(r, n.key)
               /\ fatal[r] => n.key[1] = "pass"
    <3>1. n.status = Shape(r, n.key)[1] /\ n.key[1] = b /\ n.key \in ToSet(BatchKeys(r, b))
      BY <1>2 DEF Shape
    <3>2. fatal[r] => b # "llm"
      BY <3>1 DEF BatchKeys, ToSet
    <3> QED
      BY <3>1, <3>2 DEF Shape, Batch
  <2>2. RowStatus'
    BY <1>1, <1>2, <2>1 DEF TableInv, RowStatus, IsFailed
  <2>3. ReportedFirst'
    BY <1>1 DEF TableInv, ReportedFirst, Onward, ControlInv, ControlTyped
  <2> QED
    BY <2>2, <2>3
<1>7. BriefDoneHasJob'
  <2> SUFFICES ASSUME NEW t \in Task, raw_briefs'[t] = "done"
               PROVE  \E j \in jobs' : TaskOf[j.by] = t /\ j.key[1] = "llm" /\ j.status = "done"
    BY DEF BriefDoneHasJob
  <2>1. CASE raw_briefs[t] = "done"
    BY <1>1, <2>1 DEF TableInv, BriefDoneHasJob
  <2>2. CASE raw_briefs[t] # "done"
    <3>1. t = TaskOf[r] /\ BriefVerdict(r, b) = "done"
      BY <1>1, <2>2 DEF StoreInv, StoreTypeOK
    <3>2. b = "llm" /\ AnyCompleted(r)
      BY <3>1 DEF BriefVerdict, Batch
    <3>3. results[r] \in Seq(Result) /\ ThoughtOf(r) /\ pc[r] = "llm"
      BY <1>1, <3>2 DEF ControlInv, RunInv, ControlTyped
    <3>4. PICK i \in 1..Len(results[r]) : results[r][i] = "COMPLETED"
      BY <3>2, <3>3 DEF AnyCompleted, ToSet
    <3>5. ~fatal[r]
      BY <3>3, <3>4 DEF ThoughtOf
    <3>6. BatchKeys(r, b) = Keys(TaskOf[r], "llm") /\ i \in 1..LlmJobs[TaskOf[r]]
      BY <3>2, <3>3, <3>4, <3>5 DEF ThoughtOf, BatchKeys
    <3>7. <<"llm", i>> \in ToSet(BatchKeys(r, b))
      <4>1. /\ Keys(TaskOf[r], "llm") \in Seq({"llm"} \X Nat)
            /\ Len(Keys(TaskOf[r], "llm")) = LlmJobs[TaskOf[r]]
            /\ \A p \in 1..Len(Keys(TaskOf[r], "llm")) :
                 Keys(TaskOf[r], "llm")[p] = <<"llm", p>>
        BY KeysFacts, StoreAssumption DEF Batch
      <4> QED
        BY <3>6, <4>1 DEF ToSet
    <3>8. PICK n \in rows : n.key = <<"llm", i>>
      BY <1>1, <1>2, <3>2, <3>7 DEF Seeds
    <3>9. n.by = r /\ n.status = "done" /\ n.key[1] = "llm"
      BY <1>2, <3>4, <3>8 DEF Shape, IsFailed
    <3> QED
      BY <1>1, <3>1, <3>9
  <2> QED
    BY <2>1, <2>2
<1> QED
  BY <1>3, <1>4, <1>5, <1>6, <1>7 DEF TableInv

LEMMA StepsOnward ==
  ASSUME ControlInv, NEW r \in Run,
         \/ Background(r, RunTask(r) \/ Step(r))
         \/ Die(r) /\ UNCHANGED syncVars
         \/ RunTaskSync(r) \/ SyncStep(r)
  PROVE  Onward
<1> USE DEF Goto
<1>1. \A q \in Run : http'[q] = "async" => http[q] = "async"
  BY DEF Background, RunTaskSync, SyncStep, Request, Crash, PostSync, Respond, syncVars,
         ControlInv, ControlTyped
<1>2. \/ pc' = pc
      \/ \E to \in Stage \ {"new"} :
           /\ pc' = [pc EXCEPT ![r] = to]
           /\ to = "thinking" => pc[r] = "new"
           /\ to \in Unposted => pc[r] \in Unposted
  <2>1. ASSUME RunTask(r) \/ RunTaskSync(r)
        PROVE  pc[r] = "new" /\ pc' = [pc EXCEPT ![r] = "thinking"]
    BY <2>1 DEF RunTask, RunTaskSync
  <2>2. ASSUME Think(r) PROVE pc[r] = "thinking" /\ pc' = [pc EXCEPT ![r] = "llm"]
    BY <2>2 DEF Think
  <2>3. ASSUME NEW b \in Batch, Save(r, b) \/ SaveSync(r, b)
        PROVE  \/ pc' = pc
               \/ \E to \in {"pass", "reporting"} :
                    pc[r] = b /\ pc' = [pc EXCEPT ![r] = to]
    BY <2>3 DEF Save, SaveSync, SkipBatch, SkipSync, SelectStrategy, EnsureStrategy,
                SaveBatch, LoseBatch, EndBatch, runVars
  <2>4. ASSUME \/ Report(r) \/ BeginPosts(r) \/ Finish(r) \/ Respond(r) \/ Crash(r) \/ Die(r)
        PROVE  \E to \in {"posting", "done", "dead"} : pc' = [pc EXCEPT ![r] = to]
    BY <2>4 DEF Report, BeginPosts, Finish, Respond, Crash, Die
  <2>5. ASSUME \/ SkipPost(r) \/ CloseFailed(r) \/ Post(r) \/ RecordAnswer(r) \/ PostSync(r)
        PROVE  pc' = pc
    BY <2>5 DEF SkipPost, CloseFailed, Post, RecordAnswer, PostSync, Advance
  <2> USE DEF Unposted, Stage, Batch
  <2>6. CASE Background(r, RunTask(r) \/ Step(r)) \/ Die(r)
    BY <2>1, <2>2, <2>3, <2>4, <2>5, <2>6 DEF Background, Step
  <2>7. CASE RunTaskSync(r) \/ SyncStep(r)
    BY <2>1, <2>2, <2>3, <2>4, <2>5, <2>7 DEF SyncStep, Request
  <2> QED
    BY <2>6, <2>7
<1> QED
  BY <1>1, <1>2 DEF Onward, ControlInv, ControlTyped

THEOREM SyncInvariant == SyncSpec => [](TableInv /\ ControlInv /\ StoreInv)
<1>1. SyncInit => TableInv
  BY DEF SyncInit, Init, StoreInit, TableInv, Fresh, RowStatus, OkWasQueued, FailedStaysHome,
         ReportedFirst, BriefDoneHasJob, RowsOf
<1>2. TableInv /\ ControlInv /\ StoreInv /\ [SyncNext]_allVars => TableInv'
  <2> SUFFICES ASSUME TableInv, ControlInv, StoreInv, [SyncNext]_allVars PROVE TableInv'
    OBVIOUS
  <2>1. CASE UNCHANGED allVars
    BY <2>1, QuietTables DEF allVars, syncVars, vars, storeVars, runVars, Onward
  <2>2. CASE SyncNext
    <3>1. PICK r \in Run :
            \/ Background(r, RunTask(r) \/ Step(r))
            \/ Die(r) /\ UNCHANGED syncVars
            \/ RunTaskSync(r) \/ SyncStep(r)
      BY <2>2 DEF SyncNext
    <3>4. Onward
      BY <3>1, StepsOnward
    <3>2. CASE Background(r, RunTask(r) \/ Step(r)) \/ Die(r)
      BY <3>1, <3>2, <3>4, QuietActions, ThinkTables, SaveTables, PostTables, RecordTables
      DEF Background, Step, Save, syncVars
    <3>3. CASE RunTaskSync(r) \/ SyncStep(r)
      BY <3>3, <3>4, QuietActions, ThinkTables, SaveTables, PostTables
      DEF RunTaskSync, SyncStep, Request, SaveSync, Respond
    <3> QED
      BY <3>1, <3>2, <3>3
  <2> QED
    BY <2>1, <2>2
<1> QED
  BY <1>1, <1>2, SyncControl, SyncImplementsStore, StoreInvariant, PTL DEF SyncSpec

\* The runs keep the types of their state, and the tables theirs.
THEOREM MultiTypeCorrect == SyncSpec => []MultiTypeOK
<1>1. ControlInv /\ StoreInv => MultiTypeOK
  <2> SUFFICES ASSUME ControlInv, StoreInv PROVE MultiTypeOK
    OBVIOUS
  <2>1. \A r \in Run : next[r] \in 1..Len(Order(TaskOf[r])) + 1
    BY StoreAssumption, OrderFacts DEF ControlInv, RunInv, ControlTyped, PositionOf
  <2> QED
    BY <2>1 DEF ControlInv, ControlTyped, StoreInv, MultiTypeOK, Stage, Result
<1> QED
  BY <1>1, SyncInvariant, PTL

\* dispatch_status "ok" is never a lie, through lost answers, failed UPDATEs and
\* restarts.
THEOREM OkRowsQueued == SyncSpec => []OkWasQueued
  BY SyncInvariant, PTL DEF TableInv

\* Neither endpoint hands over a sub-job the LLM failed.
THEOREM FailedSubJobsStay == SyncSpec => []FailedStaysHome
  BY SyncInvariant, PTL DEF TableInv

\* The receivers act on the sub-jobs of a background run after its PATCH, and on
\* enriched ones only if it said COMPLETED.
THEOREM PostsAfterReport == SyncSpec => []ReportedFirst
  BY SyncInvariant, PTL DEF TableInv

\* raw_briefs says "done" only of a task with an enriched sub-job.
THEOREM DoneBriefsHaveSubJobs == SyncSpec => []BriefDoneHasJob
  BY SyncInvariant, PTL DEF TableInv

-----------------------------------------------------------------------------
(* What became of the rows that awaited their dispatch.                    *)

\* Without a mishap a row that a background run left "pending" is one the run
\* knows of, at or behind the position it has reached.
AwaitedBy(r) ==
  /\ pc[r] \notin {"posting", "done", "dead"} => next[r] = 1
  /\ pc[r] = "done" => next[r] > Len(Order(TaskOf[r]))
  /\ mishaps = 0 /\ http[r] = "async" =>
       \A j \in RowsOf(r) : j.dispatch = "pending" =>
         /\ j.key \in ids[r]
         /\ \E i \in 1..Len(Order(TaskOf[r])) : i >= next[r] /\ Order(TaskOf[r])[i] = j.key

Awaited == \A r \in Run : AwaitedBy(r)

\* Steps of a run that leave its rows and its position.
LEMMA QuietAwaited ==
  ASSUME ControlInv, Awaited, NEW r \in Run, UNCHANGED <<jobs, next>>,
         \A q \in Run : q # r => pc'[q] = pc[q] /\ ids'[q] = ids[q] /\ http'[q] = http[q],
         ids[r] \subseteq ids'[r], http'[r] = "async" => http[r] = "async",
         pc'[r] \in {"posting", "done", "dead"} \/ pc[r] \notin {"posting", "done", "dead"},
         pc'[r] = "done" => pc[r] = "done" \/ next[r] > Len(Order(TaskOf[r])),
         mishaps' = mishaps \/ mishaps' = mishaps + 1
  PROVE  Awaited'
<1> SUFFICES ASSUME NEW q \in Run PROVE AwaitedBy(q)'
  BY DEF Awaited
<1>1. mishaps' = 0 => mishaps = 0
  BY DEF ControlInv, ControlTyped
<1>2. AwaitedBy(q)
  BY DEF Awaited
<1> QED
  BY <1>1, <1>2 DEF AwaitedBy, RowsOf

\* All the steps but those that write rows or move on.
LEMMA QuietAwaitedSteps ==
  ASSUME ControlInv, Awaited, NEW r \in Run,
         \/ Background(r, RunTask(r)) \/ RunTaskSync(r)
         \/ UNCHANGED http /\ (Think(r) \/ Post(r) \/ Die(r) \/ Report(r))
         \/ Crash(r) \/ Background(r, Finish(r)) \/ Respond(r)
         \/ \E b \in Batch : /\ UNCHANGED http
                            /\ \/ SkipBatch(r, b) \/ SkipSync(r, b) \/ SelectStrategy(r, b)
                               \/ EnsureStrategy(r, b) \/ LoseBatch(r, b)
  PROVE  Awaited'
<1> USE DEF Goto
<1>1. UNCHANGED <<jobs, next>>
  BY DEF Background, RunTask, RunTaskSync, Think, Post, Die, Report, Crash, Finish, Respond,
         SkipBatch, SkipSync, SelectStrategy, EnsureStrategy, LoseBatch, EndBatch,
         storeVars, runVars, tables, PersistOnIngest, UpsertUser, InsertRawBrief,
         MarkRawBrief, GetActiveStrategy,
         CreateStrategy, UniqueViolation, Rollback, Disconnect
<1>2. mishaps' = mishaps \/ mishaps' = mishaps + 1
  BY DEF Background, RunTask, RunTaskSync, Think, Post, Die, Report, Crash, Finish, Respond,
         SkipBatch, SkipSync, SelectStrategy, EnsureStrategy, LoseBatch, Mishap, runVars
<1>3. http' = http \/ \E h \in {"open", "500", "200"} : http' = [http EXCEPT ![r] = h]
  BY DEF Background, RunTaskSync, Crash, Respond, syncVars
<1>4. ids' = ids \/ \E known : ids' = [ids EXCEPT ![r] = ids[r] \union known]
  BY DEF Background, RunTask, RunTaskSync, Think, Post, Die, Report, Crash, Finish, Respond,
         SkipBatch, SkipSync, SelectStrategy, EnsureStrategy, LoseBatch, EndBatch, runVars
<1>5. /\ \A q \in Run : q # r => pc'[q] = pc[q]
      /\ pc'[r] \in {"posting", "done", "dead"} \/ pc[r] \notin {"posting", "done", "dead"}
      /\ pc'[r] = "done" => pc[r] = "done" \/ next[r] > Len(Order(TaskOf[r]))
  BY DEF Background, RunTask, RunTaskSync, Think, Post, Die, Report, Crash, Finish, Respond,
         SkipBatch, SkipSync, SelectStrategy, EnsureStrategy, LoseBatch, EndBatch, runVars,
         ControlInv, ControlTyped, Batch
<1>6. /\ \A q \in Run : q # r => ids'[q] = ids[q] /\ http'[q] = http[q]
      /\ ids[r] \subseteq ids'[r] /\ (http'[r] = "async" => http[r] = "async")
  BY <1>3, <1>4 DEF ControlInv, ControlTyped
<1> QED
  BY <1>1, <1>2, <1>5, <1>6, QuietAwaited

\* A batch that is saved is known to its run, and none of it was posted.
LEMMA SaveAwaited ==
  ASSUME ControlInv, Awaited, NEW r \in Run, NEW b \in Batch, SaveBatch(r, b), UNCHANGED http
  PROVE  Awaited'
<1>1. /\ UNCHANGED <<next, mishaps>> /\ jobs' = jobs \union Rows(r, b)
      /\ ids' = [ids EXCEPT ![r] = ids[r] \union {n.key : n \in Rows(r, b)}]
      /\ pc[r] \notin {"posting", "done", "dead"} /\ pc'[r] # "done"
      /\ \A q \in Run : q # r => pc'[q] = pc[q]
  BY DEF SaveBatch, CommitJobs, EndBatch, Goto, ControlInv, ControlTyped, Batch
<1>2. next[r] = 1
  BY <1>1 DEF Awaited, AwaitedBy
<1>3. \A q \in Run : ids[q] \subseteq ids'[q]
  BY <1>1 DEF ControlInv, ControlTyped
<1>4. \A n \in Rows(r, b) : n.by = r /\ n.key \in ids'[r] /\ n.key \in ToSet(Order(TaskOf[r]))
  <2>1. ids'[r] = ids[r] \union {n.key : n \in Rows(r, b)}
    BY <1>1 DEF ControlInv, ControlTyped
  <2> QED
    BY <2>1, RowsFacts, BatchKeysFacts
<1>5. \A k \in ToSet(Order(TaskOf[r])) :
        \E i \in 1..Len(Order(TaskOf[r])) : i >= 1 /\ Order(TaskOf[r])[i] = k
  <2> DEFINE s == Order(TaskOf[r])
  <2>1. TaskOf[r] \in Task
    BY StoreAssumption
  <2>2. s \in Seq(JobKey)
    BY <2>1, OrderFacts
  <2> HIDE DEF s
  <2>3. \A k \in ToSet(s) : \E i \in 1..Len(s) : i >= 1 /\ s[i] = k
    BY <2>2 DEF ToSet
  <2> QED
    BY <2>3 DEF s
<1> SUFFICES ASSUME NEW q \in Run PROVE AwaitedBy(q)'
  BY DEF Awaited
<1>6. AwaitedBy(q)
  BY DEF Awaited
<1>7. CASE q = r
  BY <1>1, <1>2, <1>3, <1>4, <1>5, <1>6, <1>7 DEF AwaitedBy, RowsOf
<1>8. CASE q # r
  BY <1>1, <1>3, <1>4, <1>6, <1>8 DEF AwaitedBy, RowsOf
<1> QED
  BY <1>7, <1>8

\* The position moves on behind a row that was closed, or was never there.
LEMMA AdvanceAwaited ==
  ASSUME ControlInv, Awaited, StoreInv, NEW r \in Run,
         \/ Background(r, SkipPost(r) \/ CloseFailed(r) \/ RecordAnswer(r))
         \/ PostSync(r) \/ Request(r, BeginPosts(r))
  PROVE  Awaited'
<1>1. /\ UNCHANGED <<ids, http>>
      /\ \A q \in Run : q # r => pc'[q] = pc[q] /\ next'[q] = next[q]
      /\ pc'[r] = "posting"
      /\ mishaps' = mishaps \/ mishaps' = mishaps + 1
  BY DEF Background, SkipPost, CloseFailed, RecordAnswer, Records, Advance, TryUpdate, Mishap,
         PostSync, Request, BeginPosts, Goto, ToPost, syncVars, ControlInv, ControlTyped
<1>2. mishaps' = 0 => mishaps = 0 /\ mishaps' = mishaps
  BY <1>1 DEF ControlInv, ControlTyped
<1>3. ASSUME NEW n \in jobs'
      PROVE  \/ n \in jobs
             \/ n.by = r /\ n.key = Current(r) /\ n.dispatch # "pending"
  <2>1. CASE jobs' = jobs
    BY <2>1
  <2>2. CASE \E st \in {"ok", "failed"} : UpdateDispatchStatus(r, Current(r), st)
    BY <2>2 DEF UpdateDispatchStatus, StoreInv, StoreTypeOK, JobRow
  <2>3. jobs' = jobs \/ \E st \in {"ok", "failed"} : UpdateDispatchStatus(r, Current(r), st)
    BY DEF Background, SkipPost, CloseFailed, RecordAnswer, Records, TryUpdate, PostSync,
           Request, BeginPosts, storeVars, ControlInv, ControlTyped
  <2> QED
    BY <2>1, <2>2, <2>3
<1> SUFFICES ASSUME NEW q \in Run PROVE AwaitedBy(q)'
  BY DEF Awaited
<1>4. AwaitedBy(q)
  BY DEF Awaited
<1>5. CASE q # r
  BY <1>1, <1>2, <1>3, <1>4, <1>5 DEF AwaitedBy, RowsOf
<1>6. CASE q = r /\ http[r] = "open"
  BY <1>1, <1>6 DEF AwaitedBy
<1>7. CASE q = r /\ Background(r, SkipPost(r) \/ CloseFailed(r) \/ RecordAnswer(r))
  <2>1. next'[r] = next[r] + 1 /\ next[r] \in Nat
    BY <1>7 DEF Background, SkipPost, CloseFailed, RecordAnswer, Advance, ControlInv,
                ControlTyped
  <2> SUFFICES ASSUME mishaps' = 0, http[r] = "async", NEW n \in RowsOf(r)',
                      n.dispatch = "pending"
               PROVE  /\ n.key \in ids[r]
                      /\ \E i \in 1..Len(Order(TaskOf[r])) :
                           i >= next[r] + 1 /\ Order(TaskOf[r])[i] = n.key
    BY <1>1, <1>7, <2>1 DEF AwaitedBy
  <2>2. n \in jobs /\ n \in RowsOf(r)
    BY <1>3 DEF RowsOf
  <2>3. PICK i \in 1..Len(Order(TaskOf[r])) : i >= next[r] /\ Order(TaskOf[r])[i] = n.key
    BY <1>2, <1>4, <1>7, <2>2 DEF AwaitedBy
  <2>4. n.key \in ids[r]
    BY <1>2, <1>4, <1>7, <2>2 DEF AwaitedBy
  <2>5. n.key # Current(r)
    <3>1. CASE SkipPost(r)
      BY <2>4, <3>1 DEF SkipPost
    <3>2. CASE CloseFailed(r) \/ RecordAnswer(r)
      <4>1. ~Mishap
        BY <1>2 DEF Mishap, ControlInv, ControlTyped
      <4>2. PICK st \in {"ok", "failed"} : UpdateDispatchStatus(r, Current(r), st)
        BY <3>2, <4>1 DEF CloseFailed, RecordAnswer, Records, TryUpdate, ControlInv,
                          ControlTyped
      <4> QED
        BY <4>2 DEF UpdateDispatchStatus, RowsOf, StoreInv, StoreTypeOK, JobRow
    <3> QED
      BY <1>7, <3>1, <3>2 DEF Background
  <2>6. i # next[r]
    BY <2>3, <2>5 DEF Current
  <2> QED
    BY <2>1, <2>3, <2>4, <2>6
<1> QED
  BY <1>5, <1>6, <1>7 DEF PostSync, Request

\* Without a mishap no row of a background run that came to its end is "pending".
THEOREM RowsSettled == SyncSpec => []SettledWhenDone
<1>1. SyncInit => Awaited
  BY DEF SyncInit, Init, StoreInit, Awaited, AwaitedBy, RowsOf
<1>2. ControlInv /\ StoreInv /\ Awaited /\ [SyncNext]_allVars => Awaited'
  <2> SUFFICES ASSUME ControlInv, StoreInv, Awaited, [SyncNext]_allVars PROVE Awaited'
    OBVIOUS
  <2>1. CASE UNCHANGED allVars
    BY <2>1 DEF allVars, syncVars, vars, storeVars, runVars, Awaited, AwaitedBy, RowsOf
  <2>2. CASE SyncNext
    <3>1. PICK r \in Run :
            \/ Background(r, RunTask(r) \/ Step(r))
            \/ Die(r) /\ UNCHANGED syncVars
            \/ RunTaskSync(r) \/ SyncStep(r)
      BY <2>2 DEF SyncNext
    <3>2. CASE Background(r, RunTask(r) \/ Step(r)) \/ (Die(r) /\ UNCHANGED syncVars)
      BY <3>2, QuietAwaitedSteps, SaveAwaited, AdvanceAwaited
      DEF Background, Step, Save, syncVars
    <3>3. CASE RunTaskSync(r)
      BY <3>3, QuietAwaitedSteps
    <3>4. CASE SyncStep(r)
      <4>1. CASE Request(r, Think(r)) \/ Crash(r) \/ Respond(r)
        BY <4>1, QuietAwaitedSteps DEF Request, syncVars
      <4>2. CASE \E b \in Batch : Request(r, SaveSync(r, b))
        BY <4>2, QuietAwaitedSteps, SaveAwaited DEF Request, SaveSync, syncVars
      <4>3. CASE Request(r, BeginPosts(r)) \/ PostSync(r)
        BY <4>3, AdvanceAwaited
      <4> QED
        BY <3>4, <4>1, <4>2, <4>3 DEF SyncStep
    <3> QED
      BY <3>1, <3>2, <3>3, <3>4
  <2> QED
    BY <2>1, <2>2
<1>3. ControlInv /\ Awaited => SettledWhenDone
  <2> SUFFICES ASSUME ControlInv, Awaited, mishaps = 0, NEW r \in Run, http[r] = "async",
                      pc[r] = "done", NEW j \in RowsOf(r), j.dispatch = "pending"
               PROVE  FALSE
    BY DEF SettledWhenDone
  <2>1. next[r] > Len(Order(TaskOf[r]))
    BY DEF Awaited, AwaitedBy
  <2>2. PICK i \in 1..Len(Order(TaskOf[r])) : i >= next[r]
    BY DEF Awaited, AwaitedBy
  <2>3. Len(Order(TaskOf[r])) \in Nat /\ next[r] \in Nat
    BY StoreAssumption, OrderFacts DEF ControlInv, ControlTyped
  <2> QED
    BY <2>1, <2>2, <2>3
<1> QED
  BY <1>1, <1>2, <1>3, SyncInvariant, PTL DEF SyncSpec

-----------------------------------------------------------------------------
(* What the caller of POST /tasks/sync is told.                            *)

\* The entries of a response that are FAILED.
SaysFailed(r, k) == IF fatal[r] THEN k = NoJob ELSE IsFailed(r, k)

\* The response of a request speaks of these sub-jobs, once of each, and says
\* "ok" and FAILED of those of which it is so.
Tells(r, keys) ==
  /\ {p[1] : p \in responses[r]} = keys
  /\ \A p, q \in responses[r] : p[1] = q[1] => p = q
  /\ \A p \in responses[r] :
       /\ p[2] = "ok" => <<r, p[1]>> \in queue
       /\ p[2] = "FAILED" <=> SaysFailed(r, p[1])

\* The sub-jobs behind the position a request has reached.
Posted(r) == {Order(TaskOf[r])[i] : i \in LlmJobs[TaskOf[r]] + 1 .. next[r] - 1}

ResponseBy(r) ==
  /\ http[r] = "async" => responses[r] = {}
  /\ http[r] = "open" =>
       /\ pc[r] \notin {"new", "done"}
       /\ pc[r] \notin {"posting", "dead"} => responses[r] = {}
       /\ pc[r] = "posting" => Tells(r, Posted(r))
  /\ http[r] = "200" => pc[r] = "done" /\ Tells(r, Answered(r))
  /\ http[r] = "500" => pc[r] = "dead" /\ RowsOf(r) = {} /\ \A p \in queue : p[1] # r

Entry == (JobKey \union {NoJob}) \X {"ok", "failed", "COMPLETED", "FAILED"}

Responses == responses \in [Run -> SUBSET Entry] /\ \A r \in Run : ResponseBy(r)

\* The sub-jobs of a task are distinct, and those of the LLM come first.
LEMMA OrderDistinct ==
  ASSUME NEW t \in Task
  PROVE  /\ \A i, j \in 1..Len(Order(t)) : Order(t)[i] = Order(t)[j] => i = j
         /\ ToSet(Order(t)) = {<<"llm", i>> : i \in 1..LlmJobs[t]}
                              \union {Order(t)[i] : i \in LlmJobs[t] + 1 .. Len(Order(t))}
         /\ \A i \in LlmJobs[t] + 1 .. Len(Order(t)) : Order(t)[i][1] = "pass"
         /\ ToSet(Keys(t, "pass")) = {Order(t)[i] : i \in LlmJobs[t] + 1 .. Len(Order(t))}
<1> DEFINE s == Order(t)  n == LlmJobs[t]
<1>1. /\ n \in Nat /\ Len(s) \in Nat /\ n <= Len(s) /\ s \in Seq(JobKey)
      /\ \A i \in 1..Len(s) : s[i] = IF i <= n THEN <<"llm", i>> ELSE <<"pass", i - n>>
  BY OrderFacts
<1> HIDE DEF s, n
<1>2. ASSUME NEW i \in n + 1 .. Len(s) PROVE i \in 1..Len(s) /\ s[i] = <<"pass", i - n>>
  <2>1. i \in 1..Len(s) /\ ~(i <= n)
    BY <1>1
  <2> QED
    BY <1>1, <2>1
<1>3. ASSUME NEW i \in 1..n PROVE i \in 1..Len(s) /\ s[i] = <<"llm", i>>
  <2>1. i \in 1..Len(s) /\ i <= n
    BY <1>1
  <2> QED
    BY <1>1, <2>1
<1>4. ASSUME NEW i \in 1..Len(s), NEW j \in 1..Len(s), s[i] = s[j] PROVE i = j
  <2>1. CASE i <= n /\ j <= n
    <3>1. <<"llm", i>> = <<"llm", j>>
      BY <1>1, <1>4, <2>1
    <3> QED
      BY <3>1
  <2>2. CASE ~(i <= n) /\ ~(j <= n)
    <3>1. <<"pass", i - n>> = <<"pass", j - n>>
      BY <1>1, <1>4, <2>2
    <3> QED
      BY <1>1, <3>1
  <2>3. CASE i <= n /\ ~(j <= n)
    <3>1. <<"llm", i>> = <<"pass", j - n>>
      BY <1>1, <1>4, <2>3
    <3> QED
      BY <3>1
  <2>4. CASE ~(i <= n) /\ j <= n
    <3>1. <<"pass", i - n>> = <<"llm", j>>
      BY <1>1, <1>4, <2>4
    <3> QED
      BY <3>1
  <2> QED
    BY <2>1, <2>2, <2>3, <2>4
<1>5. ToSet(s) = {s[i] : i \in 1..Len(s)}
  BY <1>1 DEF ToSet
<1>6. 1..Len(s) = (1..n) \union (n + 1 .. Len(s))
  BY <1>1
<1>7. ToSet(s) = {<<"llm", i>> : i \in 1..n} \union {s[i] : i \in n + 1 .. Len(s)}
  BY <1>3, <1>5, <1>6
<1>8. ToSet(Keys(t, "pass")) = {s[i] : i \in n + 1 .. Len(s)}
  <2> DEFINE ks == Keys(t, "pass")
  <2>1. /\ ks \in Seq({"pass"} \X Nat) /\ Len(ks) = PassJobs[t]
        /\ \A i \in 1..Len(ks) : ks[i] = <<"pass", i>>
    BY KeysFacts DEF Batch
  <2>2. Len(s) = n + PassJobs[t] /\ PassJobs[t] \in Nat
    BY OrderFacts DEF s, n
  <2> HIDE DEF ks
  <2>3. ToSet(ks) = {<<"pass", i>> : i \in 1..Len(ks)}
    <3>1. ToSet(ks) = {ks[i] : i \in 1..Len(ks)}
      BY <2>1 DEF ToSet
    <3> QED
      BY <2>1, <3>1
  <2>4. ASSUME NEW i \in 1..Len(ks)
        PROVE  n + i \in n + 1 .. Len(s) /\ s[n + i] = <<"pass", i>>
    <3> DEFINE m == n + i
    <3>1. m \in n + 1 .. Len(s) /\ m - n = i
      BY <1>1, <2>1, <2>2
    <3> HIDE DEF m
    <3>2. s[m] = <<"pass", i>>
      BY <1>2, <3>1
    <3> QED
      BY <3>1, <3>2 DEF m
  <2>5. ASSUME NEW i \in n + 1 .. Len(s)
        PROVE  \E j \in 1..Len(ks) : s[i] = <<"pass", j>>
    <3>1. i - n \in 1..Len(ks)
      BY <1>1, <2>1, <2>2
    <3> QED
      BY <1>2, <3>1
  <2> QED
    BY <2>3, <2>4, <2>5 DEF ks
<1> QED
  BY <1>2, <1>4, <1>7, <1>8 DEF s, n

\* A step of one run tells the callers of the others nothing, and makes nothing
\* untrue that they were told.
LEMMA OtherResponses ==
  ASSUME ControlInv, Responses, NEW r \in Run, queue \subseteq queue',
         \A p \in queue' : p \in queue \/ p[1] = r,
         \A n \in jobs' : n.by = r \/ \E m \in jobs : m.by = n.by,
         \A q \in Run : q # r =>
           /\ pc'[q] = pc[q] /\ fatal'[q] = fatal[q] /\ results'[q] = results[q]
           /\ next'[q] = next[q] /\ http'[q] = http[q] /\ responses'[q] = responses[q],
         responses' \in [Run -> SUBSET Entry], ResponseBy(r)'
  PROVE  Responses'
<1> SUFFICES ASSUME NEW q \in Run, q # r PROVE ResponseBy(q)'
  BY DEF Responses
<1>1. ResponseBy(q)
  BY DEF Responses
<1>2. Posted(q)' = Posted(q) /\ Answered(q)' = Answered(q)
  BY DEF Posted, Answered
<1>3. ASSUME NEW keys, Tells(q, keys) PROVE Tells(q, keys)'
  BY <1>3 DEF Tells, SaysFailed, IsFailed
<1>4. RowsOf(q) = {} => RowsOf(q)' = {}
  BY DEF RowsOf
<1>5. (\A p \in queue : p[1] # q) => \A p \in queue' : p[1] # q
  OBVIOUS
<1> QED
  BY <1>1, <1>2, <1>3, <1>4, <1>5 DEF ResponseBy

Moves(r) ==
  \/ Background(r, RunTask(r) \/ Step(r))
  \/ Die(r) /\ UNCHANGED syncVars
  \/ RunTaskSync(r) \/ SyncStep(r)

\* What a step of a run does to the rest of the system: rows and POSTs of its own.
LEMMA StepFrame ==
  ASSUME ControlInv, StoreInv, Responses, NEW r \in Run, Moves(r)
  PROVE  /\ queue \subseteq queue' /\ \A p \in queue' : p \in queue \/ p[1] = r
         /\ \A n \in jobs' : n.by = r \/ \E m \in jobs : m.by = n.by
         /\ \A q \in Run : q # r =>
              /\ pc'[q] = pc[q] /\ fatal'[q] = fatal[q] /\ results'[q] = results[q]
              /\ next'[q] = next[q] /\ http'[q] = http[q] /\ responses'[q] = responses[q]
<1> DEFINE Runs == \A q \in Run : q # r =>
                      /\ pc'[q] = pc[q] /\ fatal'[q] = fatal[q] /\ results'[q] = results[q]
                      /\ next'[q] = next[q]
           Quiet == Runs /\ UNCHANGED <<queue, jobs>>
<1> USE DEF Goto
<1>1. ASSUME \/ RunTask(r) \/ Think(r) \/ Crash(r) \/ Report(r) \/ BeginPosts(r)
             \/ SkipPost(r) \/ Finish(r) \/ Die(r)
      PROVE  Quiet
  BY <1>1 DEF RunTask, Think, Crash, Report, BeginPosts, SkipPost, Advance, Finish, Die,
              storeVars, tables, PersistOnIngest, UpsertUser, InsertRawBrief,
              Disconnect, ControlInv, ControlTyped
<1>2. ASSUME NEW b \in Batch, \/ SkipBatch(r, b) \/ SkipSync(r, b) \/ SelectStrategy(r, b)
                              \/ EnsureStrategy(r, b) \/ LoseBatch(r, b)
      PROVE  Quiet
  BY <1>2 DEF SkipBatch, SkipSync, SelectStrategy, EnsureStrategy, LoseBatch, EndBatch,
              storeVars, runVars, tables, MarkRawBrief, GetActiveStrategy,
              CreateStrategy, UniqueViolation, Rollback, Disconnect, ControlInv, ControlTyped
<1>3. ASSUME NEW b \in Batch, SaveBatch(r, b)
      PROVE  /\ Runs /\ queue' = queue
             /\ \A n \in jobs' : n.by = r \/ \E m \in jobs : m.by = n.by
  BY <1>3, RowsFacts DEF SaveBatch, CommitJobs, EndBatch, ControlInv, ControlTyped
<1>4. ASSUME CloseFailed(r) \/ RecordAnswer(r)
      PROVE  /\ Runs /\ queue' = queue
             /\ \A n \in jobs' : \E m \in jobs : m.by = n.by
  <2>1. Runs /\ queue' = queue
    BY <1>4 DEF CloseFailed, RecordAnswer, Advance, ControlInv, ControlTyped
  <2>2. jobs' = jobs \/ \E st \in {"ok", "failed"} : UpdateDispatchStatus(r, Current(r), st)
    BY <1>4 DEF CloseFailed, RecordAnswer, Records, TryUpdate, storeVars, ControlInv,
                ControlTyped
  <2> QED
    BY <2>1, <2>2 DEF UpdateDispatchStatus, StoreInv, StoreTypeOK, JobRow
<1>5. ASSUME Post(r) \/ PostSync(r)
      PROVE  /\ Runs /\ jobs' = jobs
             /\ queue \subseteq queue' /\ \A p \in queue' : p \in queue \/ p[1] = r
  BY <1>5 DEF Post, PostSync, storeVars, ControlInv, ControlTyped
<1>6. \A q \in Run : q # r => http'[q] = http[q] /\ responses'[q] = responses[q]
  BY DEF Responses, Moves, Background, RunTaskSync, SyncStep, Request, Crash, PostSync, Respond,
         syncVars, ControlInv, ControlTyped
<1>7. ASSUME Step(r) \/ Respond(r)
      PROVE  \/ Quiet \/ CloseFailed(r) \/ RecordAnswer(r) \/ Post(r)
             \/ \E b \in Batch : SaveBatch(r, b)
  <2> HIDE DEF Quiet
  <2> QED
    BY <1>7, <1>1, <1>2 DEF Step, Save, Respond
<1>8. ASSUME SyncStep(r) \/ RunTaskSync(r)
      PROVE  Quiet \/ PostSync(r) \/ \E b \in Batch : SaveBatch(r, b)
  <2> HIDE DEF Quiet
  <2> QED
    BY <1>8, <1>1, <1>2 DEF SyncStep, RunTaskSync, Request, SaveSync, Respond
<1> HIDE DEF Runs
<1> QED
  BY <1>1, <1>3, <1>4, <1>5, <1>6, <1>7, <1>8 DEF Moves, Background, Runs

\* All the steps of a run but those that add to its response.
LEMMA QuietResponse ==
  ASSUME ControlInv, TableInv, Responses, NEW r \in Run, responses' = responses,
         \/ Background(r, RunTask(r) \/ Step(r)) \/ (Die(r) /\ UNCHANGED syncVars)
         \/ RunTaskSync(r) \/ Request(r, Think(r)) \/ Crash(r)
         \/ \E b \in Batch : Request(r, SaveSync(r, b))
  PROVE  ResponseBy(r)'
<1> USE DEF Goto
<1>1. ResponseBy(r)
  BY DEF Responses
<1>2. CASE Background(r, RunTask(r) \/ Step(r))
  BY <1>1, <1>2 DEF Background, syncVars, ResponseBy
<1>3. CASE Die(r) /\ UNCHANGED syncVars
  <2>1. pc[r] \notin {"done", "dead"} /\ pc'[r] = "dead"
    BY <1>3 DEF Die, ControlInv, ControlTyped
  <2> QED
    BY <1>1, <1>3, <2>1 DEF syncVars, ResponseBy
<1>4. CASE RunTaskSync(r)
  <2>1. pc'[r] = "thinking" /\ http[r] = "async" /\ http'[r] = "open"
    BY <1>4 DEF RunTaskSync, RunTask, ControlInv, ControlTyped
  <2> QED
    BY <1>1, <2>1 DEF ResponseBy
<1>5. CASE Request(r, Think(r))
  <2>1. pc[r] = "thinking" /\ pc'[r] = "llm" /\ http' = http /\ http[r] = "open"
    BY <1>5 DEF Request, Think, syncVars, ControlInv, ControlTyped
  <2> QED
    BY <1>1, <2>1 DEF ResponseBy
<1>6. CASE Crash(r)
  <2>1. /\ pc[r] = "thinking" /\ pc'[r] = "dead" /\ http'[r] = "500"
        /\ UNCHANGED <<jobs, queue>>
    BY <1>6 DEF Crash, storeVars, tables, ControlInv, ControlTyped
  <2>2. RowsOf(r) = {} /\ \A p \in queue : p[1] # r
    BY <2>1 DEF TableInv, Fresh, Stage, Unposted
  <2> QED
    BY <2>1, <2>2 DEF ResponseBy, RowsOf
<1>7. CASE \E b \in Batch : Request(r, SaveSync(r, b))
  <2>1. /\ pc[r] \in Batch /\ pc'[r] \in Batch \union {"reporting"}
        /\ http' = http /\ http[r] = "open"
    BY <1>7 DEF Request, SaveSync, SkipSync, SelectStrategy, EnsureStrategy, SaveBatch,
                LoseBatch, EndBatch, syncVars, runVars, Batch, ControlInv, ControlTyped
  <2> QED
    BY <1>1, <2>1 DEF ResponseBy, Batch
<1> QED
  BY <1>2, <1>3, <1>4, <1>5, <1>6, <1>7

\* The entries of a response that is extended by new sub-jobs.
LEMMA TellsMore ==
  ASSUME NEW r \in Run, NEW keys, NEW more, NEW entries, Tells(r, keys),
         responses'[r] = responses[r] \union entries, {e[1] : e \in entries} = more,
         keys \intersect more = {}, queue \subseteq queue', UNCHANGED <<fatal, results>>,
         \A e, f \in entries : e[1] = f[1] => e = f,
         \A e \in entries :
           /\ e[2] = "ok" => <<r, e[1]>> \in queue'
           /\ e[2] = "FAILED" <=> SaysFailed(r, e[1])
  PROVE  Tells(r, keys \union more)'
<1>1. {p[1] : p \in responses'[r]} = keys \union more
  BY DEF Tells
<1>2. ASSUME NEW p \in responses'[r], NEW q \in responses'[r], p[1] = q[1]
      PROVE  p = q
  <2>1. ASSUME NEW a \in responses[r], NEW b \in entries PROVE a[1] # b[1]
    <3>1. a[1] \in keys /\ b[1] \in more
      BY DEF Tells
    <3> QED
      BY <3>1
  <2> QED
    BY <1>2, <2>1 DEF Tells
<1>3. \A p \in responses'[r] :
        /\ p[2] = "ok" => <<r, p[1]>> \in queue'
        /\ p[2] = "FAILED" <=> SaysFailed(r, p[1])
  BY DEF Tells
<1> QED
  BY <1>1, <1>2, <1>3 DEF Tells, SaysFailed, IsFailed

\* The POSTs begin with an empty response.
LEMMA BeginResponse ==
  ASSUME ControlInv, Responses, NEW r \in Run, Request(r, BeginPosts(r))
  PROVE  responses' = responses /\ ResponseBy(r)'
<1>1. /\ pc[r] = "reporting" /\ pc'[r] = "posting" /\ http[r] = "open"
      /\ next'[r] = LlmJobs[TaskOf[r]] + 1 /\ UNCHANGED <<http, responses>>
  BY DEF Request, BeginPosts, Goto, syncVars, ControlInv, ControlTyped
<1>2. responses[r] = {}
  BY <1>1 DEF Responses, ResponseBy
<1>3. Posted(r)' = {}
  <2>1. LlmJobs[TaskOf[r]] \in Nat
    BY StoreAssumption, OrderFacts
  <2>2. LlmJobs[TaskOf[r]] + 1 .. next'[r] - 1 = {}
    BY <1>1, <2>1
  <2> QED
    BY <2>2 DEF Posted
<1>4. Tells(r, {})'
  BY <1>1, <1>2 DEF Tells
<1> QED
  BY <1>1, <1>3, <1>4 DEF ResponseBy

\* A POST is answered for at the position it was made at.
LEMMA PostResponse ==
  ASSUME ControlInv, Responses, NEW r \in Run, PostSync(r)
  PROVE  responses' \in [Run -> SUBSET Entry] /\ ResponseBy(r)'
<1> DEFINE t == TaskOf[r]
           s == Order(t)
           n == LlmJobs[t]
<1>1. PICK ok \in BOOLEAN, acted \in BOOLEAN :
        /\ ok => acted
        /\ queue' = IF acted THEN queue \union {<<r, Current(r)>>} ELSE queue
        /\ responses' = [responses EXCEPT ![r] = @ \union {<<Current(r), Status(ok)>>}]
  BY DEF PostSync
<1>2. /\ http[r] = "open" /\ pc[r] = "posting" /\ next[r] <= Len(s)
      /\ next' = [next EXCEPT ![r] = next[r] + 1] /\ UNCHANGED <<pc, http, results, fatal>>
  BY DEF PostSync, ToPost
<1>3. /\ t \in Task /\ n \in Nat /\ Len(s) \in Nat /\ next[r] \in Nat
      /\ next[r] > n /\ next'[r] = next[r] + 1
  BY <1>2, StoreAssumption, OrderFacts DEF ControlInv, RunInv, ControlTyped, PositionOf
<1>4. Current(r) = s[next[r]] /\ Current(r) \in JobKey
  BY <1>2, CurrentFacts DEF Current
<1>5. Tells(r, Posted(r))
  BY <1>2 DEF Responses, ResponseBy
<1> DEFINE entry == <<Current(r), Status(ok)>>
<1>13. Current(r)[1] = "pass"
  BY <1>2, <1>3, CurrentFacts
<1>6. /\ entry \in Entry /\ entry[1] = Current(r) /\ entry[2] # "FAILED"
      /\ (entry[2] = "ok" => <<r, Current(r)>> \in queue')
      /\ ~SaysFailed(r, entry[1])
  BY <1>1, <1>4, <1>13 DEF Status, Entry, IsFailed, NoJob, SaysFailed
<1> HIDE DEF entry
<1>7. /\ responses' \in [Run -> SUBSET Entry]
      /\ responses'[r] = responses[r] \union {entry}
  BY <1>1, <1>6 DEF Responses, entry
<1>8. Posted(r)' = Posted(r) \union {Current(r)} /\ Posted(r) \intersect {Current(r)} = {}
  <2>1. \A i, j \in 1..Len(s) : s[i] = s[j] => i = j
    BY <1>3, OrderDistinct
  <2> HIDE DEF s, n, t
  <2>2. n + 1 .. next'[r] - 1 = (n + 1 .. next[r] - 1) \union {next[r]}
    BY <1>3
  <2>3. \A i \in n + 1 .. next[r] - 1 : s[i] # s[next[r]]
    <3> SUFFICES ASSUME NEW i \in n + 1 .. next[r] - 1 PROVE s[i] # s[next[r]]
      OBVIOUS
    <3>1. i \in 1..Len(s) /\ next[r] \in 1..Len(s) /\ i # next[r]
      BY <1>2, <1>3
    <3> QED
      BY <2>1, <3>1
  <2>4. Posted(r) = {s[i] : i \in n + 1 .. next[r] - 1}
        /\ Posted(r)' = {s[i] : i \in n + 1 .. next'[r] - 1}
    BY DEF Posted, s, n, t
  <2> QED
    BY <1>4, <2>2, <2>3, <2>4
<1>9. PICK keys, more : keys = Posted(r) /\ more = {Current(r)}
  OBVIOUS
<1>10. Tells(r, keys \union more)'
  <2>1. {e[1] : e \in {entry}} = {Current(r)}
    BY <1>6
  <2>2. queue \subseteq queue'
    BY <1>1
  <2> QED
    <3> DEFINE entries == {entry}
    <3>1. Tells(r, keys) /\ responses'[r] = responses[r] \union entries
      BY <1>5, <1>7, <1>9
    <3>2. {e[1] : e \in entries} = more /\ keys \intersect more = {}
      BY <1>8, <1>9, <2>1
    <3>3. /\ \A e, f \in entries : e[1] = f[1] => e = f
          /\ \A e \in entries :
               /\ e[2] = "ok" => <<r, e[1]>> \in queue'
               /\ e[2] = "FAILED" <=> SaysFailed(r, e[1])
      BY <1>6
    <3> HIDE DEF entries
    <3> QED
      BY <1>2, <2>2, <3>1, <3>2, <3>3, TellsMore
<1>11. Tells(r, Posted(r))'
  BY <1>8, <1>9, <1>10 DEF Tells
<1>12. http'[r] = "open" /\ pc'[r] = "posting"
  BY <1>2
<1> QED
  BY <1>7, <1>11, <1>12 DEF ResponseBy

\* The LLM's part of the body: of each LLM job, or of none.
LEMMA LlmPart ==
  ASSUME ControlInv, NEW r \in Run, pc[r] = "posting",
         next[r] = Len(Order(TaskOf[r])) + 1
  PROVE  /\ LlmResponses(r) \subseteq Entry
         /\ \A e, f \in LlmResponses(r) : e[1] = f[1] => e = f
         /\ \A e \in LlmResponses(r) :
              /\ e[2] # "ok"
              /\ e[2] = "FAILED" <=> SaysFailed(r, e[1])
         /\ \E keys : /\ {e[1] : e \in LlmResponses(r)} = keys
                      /\ Answered(r) = Posted(r) \union keys
                      /\ Posted(r) \intersect keys = {}
<1> DEFINE t == TaskOf[r]
           s == Order(t)
           n == LlmJobs[t]
           llm == {<<"llm", i>> : i \in 1..n}
<1>1. t \in Task /\ n \in Nat /\ Len(s) \in Nat /\ n <= Len(s) /\ next[r] = Len(s) + 1
  BY StoreAssumption, OrderFacts
<1>2. Posted(r) = {s[i] : i \in n + 1 .. Len(s)}
  BY <1>1 DEF Posted
<1>3. /\ ToSet(s) = llm \union Posted(r) /\ ToSet(Keys(t, "pass")) = Posted(r)
      /\ \A k \in Posted(r) : k[1] = "pass"
  BY <1>1, <1>2, OrderDistinct
<1>4. CASE fatal[r]
  <2>1. LlmResponses(r) = {<<NoJob, "FAILED">>}
    BY <1>4 DEF LlmResponses
  <2>2. {e[1] : e \in {<<NoJob, "FAILED">>}} = {NoJob}
    OBVIOUS
  <2>3. NoJob \notin Posted(r)
    BY <1>3 DEF NoJob
  <2>4. Answered(r) = Posted(r) \union {NoJob}
    BY <1>3, <1>4 DEF Answered
  <2>5. \A e \in LlmResponses(r) : e[1] = NoJob /\ e[2] = "FAILED" /\ e \in Entry
    BY <2>1 DEF Entry
  <2>6. \A e, f \in LlmResponses(r) : e = f
    BY <2>1
  <2>7. {e[1] : e \in LlmResponses(r)} = {NoJob} /\ Posted(r) \intersect {NoJob} = {}
    BY <2>1, <2>2, <2>3
  <2> QED
    BY <1>4, <2>4, <2>5, <2>6, <2>7 DEF SaysFailed
<1>5. CASE ~fatal[r]
  <2> DEFINE told == results[r]
             entries == {<<<<"llm", i>>, told[i]>> : i \in 1..n}
  <2>1. LlmResponses(r) = entries
    BY <1>5 DEF LlmResponses
  <2>2. told \in Seq(Result) /\ Len(told) = n
    BY <1>5 DEF ControlInv, RunInv, ControlTyped, ThoughtOf
  <2>3. \A i \in 1..n : /\ told[i] \in {"COMPLETED", "FAILED"}
                        /\ told[i] = "FAILED" <=> IsFailed(r, <<"llm", i>>)
    BY <2>2 DEF Result, IsFailed
  <2>4. \A i \in 1..n : <<"llm", i>> \in JobKey
    <3> SUFFICES ASSUME NEW i \in 1..n PROVE <<"llm", i>> \in JobKey
      OBVIOUS
    <3>1. i \in 1..Len(s) /\ i <= n
      BY <1>1
    <3>2. s[i] \in JobKey /\ s[i] = IF i <= n THEN <<"llm", i>> ELSE <<"pass", i - n>>
      BY <1>1, <3>1, OrderFacts
    <3> QED
      BY <3>1, <3>2
  <2> HIDE DEF told
  <2>5. {e[1] : e \in entries} = llm
    <3>1. \A e \in entries : e[1] \in llm
      OBVIOUS
    <3>2. ASSUME NEW k \in llm PROVE \E e \in entries : e[1] = k
      <4>1. PICK i \in 1..n : k = <<"llm", i>>
        OBVIOUS
      <4>2. <<k, told[i]>> \in entries /\ <<k, told[i]>>[1] = k
        BY <4>1
      <4> QED
        BY <4>2
    <3> HIDE DEF entries, llm
    <3> QED
      BY <3>1, <3>2
  <2>6. \A e, f \in entries : e[1] = f[1] => e = f
    OBVIOUS
  <2>7. \A e \in entries : /\ e[2] # "ok"
                           /\ e[2] = "FAILED" <=> IsFailed(r, e[1])
    BY <2>3
  <2>8. entries \subseteq Entry
    BY <2>3, <2>4 DEF Entry
  <2>9. Answered(r) = Posted(r) \union llm /\ Posted(r) \intersect llm = {}
    <3>1. Answered(r) = llm \union Posted(r)
      BY <1>3, <1>5 DEF Answered
    <3>2. \A k \in llm : k[1] = "llm"
      OBVIOUS
    <3> QED
      BY <1>3, <3>1, <3>2
  <2> HIDE DEF entries, llm
  <2> QED
    BY <1>5, <2>1, <2>5, <2>6, <2>7, <2>8, <2>9 DEF SaysFailed
<1> QED
  BY <1>4, <1>5

\* The body is complete: the results of the LLM beside those of the POSTs.
LEMMA FinalResponse ==
  ASSUME ControlInv, Responses, NEW r \in Run, Respond(r)
  PROVE  responses' \in [Run -> SUBSET Entry] /\ ResponseBy(r)'
<1> DEFINE entries == LlmResponses(r)
<1>1. /\ http[r] = "open" /\ pc[r] = "posting" /\ pc' = [pc EXCEPT ![r] = "done"]
      /\ next[r] > Len(Order(TaskOf[r])) /\ http' = [http EXCEPT ![r] = "200"]
      /\ responses' = [responses EXCEPT ![r] = responses[r] \union entries]
      /\ UNCHANGED <<results, fatal, queue, next>>
  BY DEF Respond, Finish, Goto
<1>2. next[r] = Len(Order(TaskOf[r])) + 1
  <2>1. Len(Order(TaskOf[r])) \in Nat
    BY StoreAssumption, OrderFacts
  <2>2. next[r] \in Nat /\ next[r] <= Len(Order(TaskOf[r])) + 1
    BY DEF ControlInv, RunInv, ControlTyped, PositionOf
  <2> QED
    BY <1>1, <2>1, <2>2
<1>3. Tells(r, Posted(r))
  BY <1>1 DEF Responses, ResponseBy
<1>4. PICK keys : /\ {e[1] : e \in entries} = keys /\ Answered(r) = Posted(r) \union keys
                  /\ Posted(r) \intersect keys = {}
  BY <1>1, <1>2, LlmPart
<1>5. /\ entries \subseteq Entry
      /\ \A e, f \in entries : e[1] = f[1] => e = f
      /\ \A e \in entries :
           /\ e[2] # "ok"
           /\ e[2] = "FAILED" <=> SaysFailed(r, e[1])
  BY <1>1, <1>2, LlmPart
<1> HIDE DEF entries
<1>6. responses' \in [Run -> SUBSET Entry] /\ responses'[r] = responses[r] \union entries
  BY <1>1, <1>5 DEF Responses
<1>7. PICK posted : posted = Posted(r)
  OBVIOUS
<1>8. Tells(r, posted \union keys)'
  BY <1>1, <1>3, <1>4, <1>5, <1>6, <1>7, TellsMore
<1>9. Tells(r, Answered(r))'
  <2>1. Answered(r)' = posted \union keys
    BY <1>1, <1>4, <1>7 DEF Answered
  <2> QED
    BY <1>8, <2>1 DEF Tells
<1>10. http'[r] = "200" /\ pc'[r] = "done"
  BY <1>1 DEF ControlInv, ControlTyped
<1> QED
  BY <1>6, <1>9, <1>10 DEF ResponseBy

\* The caller of POST /tasks/sync is not misled: a 200 has one entry for each
\* passthrough sub-job and one for each LLM job, or a single FAILED for all the LLM
\* jobs, of which then no row was saved; "ok" is said only of what the dispatcher
\* took, FAILED only of rows that are "failed"; after a 500 nothing was saved or
\* posted.
THEOREM ResponsesHonest == SyncSpec => []ResponseHonest
<1>1. SyncInit => Responses
  BY DEF SyncInit, Responses, ResponseBy
<1>2. TableInv /\ ControlInv /\ StoreInv /\ Responses /\ [SyncNext]_allVars => Responses'
  <2> SUFFICES ASSUME TableInv, ControlInv, StoreInv, Responses, [SyncNext]_allVars
               PROVE  Responses'
    OBVIOUS
  <2>1. CASE UNCHANGED allVars
    <3>1. UNCHANGED <<http, responses, pc, next, queue, results, fatal, jobs>>
      BY <2>1 DEF allVars, syncVars, vars, storeVars, tables, runVars
    <3>2. ASSUME NEW r \in Run PROVE ResponseBy(r)'
      <4>1. /\ Posted(r)' = Posted(r) /\ Answered(r)' = Answered(r)
            /\ RowsOf(r)' = RowsOf(r)
        BY <3>1 DEF Posted, Answered, RowsOf
      <4>2. \A k : SaysFailed(r, k)' = SaysFailed(r, k)
        BY <3>1 DEF SaysFailed, IsFailed, RowsOf
      <4>3. \A keys : Tells(r, keys) <=> Tells(r, keys)'
        BY <3>1, <4>2 DEF Tells
      <4> QED
        BY <3>1, <4>1, <4>3 DEF Responses, ResponseBy
    <3> QED
      BY <3>1, <3>2 DEF Responses
  <2>2. CASE SyncNext
    <3>1. PICK r \in Run : Moves(r)
      BY <2>2 DEF SyncNext, Moves
    <3>2. responses' \in [Run -> SUBSET Entry] /\ ResponseBy(r)'
      <4>1. CASE Background(r, RunTask(r) \/ Step(r)) \/ (Die(r) /\ UNCHANGED syncVars)
        BY <4>1, QuietResponse DEF Background, syncVars, Responses
      <4>2. CASE RunTaskSync(r) \/ Request(r, Think(r)) \/ Crash(r)
        BY <4>2, QuietResponse DEF RunTaskSync, Request, Crash, syncVars, Responses
      <4>3. CASE \E b \in Batch : Request(r, SaveSync(r, b))
        BY <4>3, QuietResponse DEF Request, syncVars, Responses
      <4>4. CASE Request(r, BeginPosts(r))
        BY <4>4, BeginResponse DEF Responses
      <4>5. CASE PostSync(r) \/ Respond(r)
        BY <4>5, PostResponse, FinalResponse
      <4> QED
        BY <3>1, <4>1, <4>2, <4>3, <4>4, <4>5 DEF Moves, SyncStep
    <3> QED
      BY <3>1, <3>2, StepFrame, OtherResponses
  <2> QED
    BY <2>1, <2>2
<1>3. TableInv /\ Responses => ResponseHonest
  <2> SUFFICES ASSUME TableInv, Responses, NEW r \in Run, http[r] = "200"
               PROVE  /\ {p[1] : p \in responses[r]} = Answered(r)
                      /\ \A p, q \in responses[r] : p[1] = q[1] => p = q
                      /\ \A p \in responses[r] :
                           /\ p[2] = "ok" => <<r, p[1]>> \in queue
                           /\ \A j \in RowsOf(r) :
                                j.key = p[1] => (j.status = "failed" <=> p[2] = "FAILED")
                      /\ fatal[r] => \A j \in RowsOf(r) : j.key[1] = "pass"
    BY DEF Responses, ResponseBy, ResponseHonest
  <2>1. Tells(r, Answered(r))
    BY DEF Responses, ResponseBy
  <2>2. \A j \in RowsOf(r) : /\ j.status = "failed" <=> IsFailed(r, j.key)
                             /\ fatal[r] => j.key[1] = "pass"
    BY DEF TableInv, RowStatus, RowsOf
  <2>3. ASSUME NEW p \in responses[r], NEW j \in RowsOf(r), j.key = p[1]
        PROVE  j.status = "failed" <=> p[2] = "FAILED"
    <3>1. CASE fatal[r]
      <4>1. j.key[1] = "pass"
        BY <2>2, <3>1
      <4>2. ~IsFailed(r, j.key) /\ p[1] # NoJob
        BY <2>3, <4>1 DEF IsFailed, NoJob
      <4> QED
        BY <2>1, <2>2, <2>3, <3>1, <4>2 DEF Tells, SaysFailed
    <3>2. CASE ~fatal[r]
      BY <2>1, <2>2, <2>3, <3>2 DEF Tells, SaysFailed
    <3> QED
      BY <3>1, <3>2
  <2> QED
    BY <2>1, <2>2, <2>3 DEF Tells
<1> QED
  BY <1>1, <1>2, <1>3, SyncInvariant, PTL DEF SyncSpec
=============================================================================
