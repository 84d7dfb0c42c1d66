--------------------------- MODULE SingleTaskProofs ---------------------------
(***************************************************************************)
(* SingleTask is a client of the transactions of Store, so the theorems    *)
(* of StoreProofs hold of it; with them, what raw_briefs, jobs and         *)
(* strategies say of the runs is proved for any number of runs, tasks and  *)
(* accounts, and any number of mishaps.                                    *)
(***************************************************************************)
EXTENDS SingleTask, StoreProofs

Ended == {"reporting", "done", "dead"}     \* where persist_on_complete is over

RunTyped ==
  /\ pc \in [Run -> Live \union {"new", "done", "dead"}]
  /\ pctx \in [Run -> BOOLEAN]
  /\ outcome \in [Run -> {"none", "COMPLETED", "FAILED"}]
  /\ saved \in [Run -> {"no", "saved", "lost"}]
  /\ router \in [Task -> {"QUEUED", "DISPATCHED", "IN_PROGRESS", "COMPLETED", "FAILED"}]
  /\ mishaps \in 0..MaxMishaps

\* A run begins its session after reason(), and inserts a strategy only if that
\* succeeded.
SessionAfterReason ==
  \A r \in Run : txn[r] # "idle" =>
    /\ pc[r] = "persisting"
    /\ txn[r] = "inserted" => outcome[r] = "COMPLETED"

\* A committed strategy belongs to a run whose outcome is final.
SeederEnded == \A s \in strategies : pc[s.by] \in Ended

LostRunEnded == \A r \in Run : saved[r] = "lost" => pc[r] \in Ended

SingleInv ==
  /\ RunTyped /\ SessionAfterReason /\ SeederEnded /\ LostRunEnded
  /\ DoneHasJob /\ StrategyHasItsJob /\ LostOnlyToRival

-----------------------------------------------------------------------------
(* The steps of a run as transactions.                                     *)

\* The verdict is a set of rows that create_job may be called with.
LEMMA VerdictFacts ==
  ASSUME NEW r \in Run
  PROVE  Verdict(r).rows \in RowSets(r) /\ Verdict(r).brief \in {"done", "failed"}
<1>1. \A shape \in JobShape : {NewJob(r, "job", shape)} \in RowSets(r)
  <2> SUFFICES ASSUME NEW shape \in JobShape
               PROVE  {NewJob(r, "job", shape)} \in RowSets(r)
    OBVIOUS
  <2> DEFINE f == [k \in {"job"} |-> shape]
  <2>1. {"job"} \in SUBSET JobKey /\ f \in [{"job"} -> JobShape]
    BY SingleAssumption
  <2>2. {NewJob(r, k, f[k]) : k \in {"job"}} \in RowSets(r)
    BY <2>1, RowFamily
  <2>3. {NewJob(r, k, f[k]) : k \in {"job"}} = {NewJob(r, "job", shape)}
    BY DEF NewJob
  <2> QED
    BY <2>2, <2>3
<1>2. {} \in RowSets(r)
  <2> DEFINE f == [k \in {} |-> <<"done", "null">>]
  <2>1. {} \in SUBSET JobKey /\ f \in [{} -> JobShape]
    OBVIOUS
  <2>2. {NewJob(r, k, f[k]) : k \in {}} \in RowSets(r)
    BY <2>1, RowFamily
  <2>3. {NewJob(r, k, f[k]) : k \in {}} = {}
    OBVIOUS
  <2> QED
    BY <2>2, <2>3
<1>3. <<"done", "null">> \in JobShape /\ <<"failed", "null">> \in JobShape
  BY DEF JobShape
<1> QED
  BY <1>1, <1>2, <1>3 DEF Verdict

\* Every step of SingleTask is a step of Store or leaves the tables alone.
LEMMA StepOfStore == Next => [StoreNext]_storeVars
<1> SUFFICES ASSUME Next PROVE StoreNext \/ UNCHANGED storeVars
  OBVIOUS
<1>1. CASE \E t \in Task : RouterRetry(t)
  BY <1>1 DEF RouterRetry
<1>2. ASSUME NEW r \in Run, RunTask(r) PROVE StoreNext \/ UNCHANGED storeVars
  BY <1>2 DEF RunTask, StoreNext
<1>3. ASSUME NEW r \in Run, ReportInProgress(r) \/ Reason(r) \/ ReportOutcome(r)
      PROVE  UNCHANGED storeVars
  BY <1>3 DEF ReportInProgress, Reason, ReportOutcome
<1>4. ASSUME NEW r \in Run, Fetch(r) PROVE StoreNext \/ UNCHANGED storeVars
  BY <1>4 DEF Fetch, StoreNext
<1>5. ASSUME NEW r \in Run, BeginPersist(r) \/ EnsureStrategy(r)
      PROVE  StoreNext
  BY <1>5 DEF BeginPersist, EnsureStrategy, StoreNext, Seed
<1>6. ASSUME NEW r \in Run, SaveVerdict(r) PROVE StoreNext
  BY <1>6, VerdictFacts DEF SaveVerdict, StoreNext
<1>7. ASSUME NEW r \in Run, PersistFails(r) \/ Die(r)
      PROVE  StoreNext \/ UNCHANGED storeVars
  BY <1>7 DEF PersistFails, RaceLost, Die, StoreNext
<1> QED
  BY <1>1, <1>2, <1>3, <1>4, <1>5, <1>6, <1>7 DEF Next, Step

\* The single-task branch uses the tables only through the transactions of
\* Store.
THEOREM SingleImplementsStore == Spec => StoreSpec
<1>1. Init => StoreInit
  BY DEF Init
<1>2. [Next]_vars => [StoreNext]_storeVars
  BY StepOfStore DEF vars
<1> QED
  BY <1>1, <1>2, PTL DEF Spec, StoreSpec

\* In every interleaving of single-task runs a user has one strategy at most.
THEOREM SingleStrategyUnique == Spec => []OneActiveStrategy
  BY SingleImplementsStore, StrategyUnique, PTL

-----------------------------------------------------------------------------
(* The inductive invariant of the runs.                                    *)

\* Steps that end no transaction with a commit: they change neither strategies
\* nor jobs, and mark no brief done.
LEMMA NoCommitStep ==
  ASSUME SingleInv, StoreInv, Next, UNCHANGED <<strategies, jobs>>,
         \A t \in Task : raw_briefs'[t] = "done" => raw_briefs[t] = "done",
         \A r \in Run : pc[r] \in Ended => pc'[r] \in Ended /\ outcome'[r] = outcome[r]
  PROVE  SeederEnded' /\ DoneHasJob' /\ StrategyHasItsJob'
<1>1. \A s \in strategies : s.by \in Run
  BY DEF StoreInv, StoreTypeOK, StrategyRow
<1> QED
  BY <1>1 DEF SingleInv, SeederEnded, DoneHasJob, StrategyHasItsJob

\* The steps before the persistence and after it.
LEMMA QuietRunStep ==
  ASSUME SingleInv, StoreInv, NEW r \in Run,
         RunTask(r) \/ ReportInProgress(r) \/ Fetch(r) \/ Reason(r) \/ ReportOutcome(r)
  PROVE  SingleInv'
<1> USE DEF Goto, Mishap
<1>1. UNCHANGED <<strategies, jobs, txn, held, saved>>
  BY DEF RunTask, ReportInProgress, Fetch, Reason, ReportOutcome, ReadyToReport,
         PersistOnIngest, UpsertUser, InsertRawBrief, UpdateUserProfile, storeVars
<1>2. \A t \in Task : raw_briefs'[t] = "done" => raw_briefs[t] = "done"
  BY StoreAssumption
  DEF RunTask, ReportInProgress, Fetch, Reason, ReportOutcome, PersistOnIngest, UpsertUser, InsertRawBrief,
      UpdateUserProfile, storeVars, StoreInv, StoreTypeOK
<1>3. RunTyped'
  <2>1. /\ pc' \in [Run -> Live \union {"new", "done", "dead"}]
        /\ outcome' \in [Run -> {"none", "COMPLETED", "FAILED"}]
        /\ mishaps' \in 0..MaxMishaps
    BY SingleAssumption
    DEF SingleInv, RunTyped, Live, RunTask, ReportInProgress, Fetch, Reason, ReportOutcome,
        ReadyToReport
  <2>2. \/ router' = router
        \/ \E st \in {"DISPATCHED", "IN_PROGRESS", "COMPLETED", "FAILED"} :
             router' = [router EXCEPT ![TaskOf[r]] = st]
    BY DEF RunTask, ReportInProgress, Fetch, Reason, ReportOutcome, PatchCallback, Accepts
  <2>3. pctx' = pctx \/ pctx' = [pctx EXCEPT ![r] = TRUE]
    BY DEF RunTask, ReportInProgress, Fetch, Reason, ReportOutcome
  <2>4. router' \in [Task -> {"QUEUED", "DISPATCHED", "IN_PROGRESS", "COMPLETED", "FAILED"}]
    BY <2>2 DEF SingleInv, RunTyped
  <2>5. pctx' \in [Run -> BOOLEAN]
    BY <2>3, Zenon DEF SingleInv, RunTyped
  <2>6. saved' \in [Run -> {"no", "saved", "lost"}]
    BY <1>1 DEF SingleInv, RunTyped
  <2> QED
    BY <2>1, <2>4, <2>5, <2>6 DEF RunTyped
<1>4. /\ \A q \in Run : pc[q] \in Ended => pc'[q] \in Ended /\ outcome'[q] = outcome[q]
      /\ \A q \in Run : pc[q] = "persisting" => pc'[q] = pc[q] /\ outcome'[q] = outcome[q]
      /\ mishaps' = 0 => mishaps = 0
  BY DEF SingleInv, RunTyped, Ended, RunTask, ReportInProgress, Fetch, Reason,
         ReportOutcome, ReadyToReport
<1>5. SeederEnded' /\ DoneHasJob' /\ StrategyHasItsJob'
  <2>1. Next
    BY DEF Next, Step
  <2> QED
    BY <1>1, <1>2, <1>4, <2>1, NoCommitStep
<1>6. SessionAfterReason'
  BY <1>1, <1>4 DEF SingleInv, SessionAfterReason
<1>7. LostRunEnded' /\ LostOnlyToRival'
  BY <1>1, <1>4 DEF SingleInv, LostRunEnded, LostOnlyToRival, Owner
<1> QED
  BY <1>3, <1>5, <1>6, <1>7 DEF SingleInv

\* The SELECT and the INSERT of a strategy.
LEMMA SessionStep ==
  ASSUME SingleInv, StoreInv, NEW r \in Run, BeginPersist(r) \/ EnsureStrategy(r)
  PROVE  SingleInv'
<1>1. UNCHANGED <<strategies, jobs, raw_briefs, runVars>>
  BY DEF BeginPersist, EnsureStrategy, GetActiveStrategy, CreateStrategy, tables, runVars
<1>2. pc[r] = "persisting" /\ \A q \in Run : q # r => txn'[q] = txn[q]
  BY DEF BeginPersist, EnsureStrategy, GetActiveStrategy, CreateStrategy, StoreInv,
         StoreTypeOK
<1>3. txn'[r] = "inserted" => outcome[r] = "COMPLETED"
  BY DEF BeginPersist, EnsureStrategy, GetActiveStrategy, CreateStrategy, SeedsStrategy,
         StoreInv, StoreTypeOK
<1>4. SessionAfterReason'
  BY <1>1, <1>2, <1>3 DEF runVars, SingleInv, SessionAfterReason
<1> QED
  BY <1>1, <1>4
  DEF runVars, SingleInv, RunTyped, SeederEnded, LostRunEnded, DoneHasJob, StrategyHasItsJob,
      LostOnlyToRival, Owner

\* A transaction ends without a commit: the exception is swallowed, or the run
\* is killed.
LEMMA LosingStep ==
  ASSUME SingleInv, StoreInv, NEW r \in Run, PersistFails(r) \/ Die(r)
  PROVE  SingleInv'
<1> USE DEF Goto, Mishap
<1>1. UNCHANGED <<strategies, jobs, raw_briefs, outcome>>
  BY DEF PersistFails, Die, RaceLost, UniqueViolation, Rollback, Disconnect, EndTxn, tables,
         storeVars
<1>2. /\ txn'[r] = "idle"
      /\ \A q \in Run : q # r => txn'[q] = txn[q] /\ pc'[q] = pc[q] /\ saved'[q] = saved[q]
      /\ pc'[r] \in Ended
  BY DEF PersistFails, Die, RaceLost, UniqueViolation, Rollback, Disconnect, EndTxn,
         storeVars, Ended, StoreInv, StoreTypeOK, SingleInv, RunTyped
<1>3. RunTyped'
  BY SingleAssumption DEF SingleInv, RunTyped, Live, PersistFails, Die
<1>4. SeederEnded' /\ DoneHasJob' /\ StrategyHasItsJob'
  <2>1. Next
    BY DEF Next, Step
  <2> QED
    BY <1>1, <1>2, <2>1, NoCommitStep
<1>5. SessionAfterReason' /\ LostRunEnded'
  BY <1>1, <1>2 DEF SingleInv, SessionAfterReason, LostRunEnded
<1>6. LostOnlyToRival'
  <2>1. CASE Die(r)
    BY <2>1, SingleAssumption DEF Die, LostOnlyToRival, SingleInv, RunTyped
  <2>2. CASE PersistFails(r) /\ SeedsStrategy(r) /\ RaceLost(r) /\ UNCHANGED mishaps
    <3>1. pc[r] = "persisting" /\ outcome[r] = "COMPLETED"
      BY <2>2 DEF PersistFails, SeedsStrategy
    <3>2. PICK s \in strategies : s.user = Owner(r)
      BY <2>2 DEF RaceLost, UniqueViolation, IndexHit
    <3>3. s.by # r
      BY <3>1, <3>2 DEF SingleInv, SeederEnded, Ended
    <3> QED
      BY <1>1, <1>2, <2>2, <3>1, <3>2, <3>3 DEF SingleInv, LostOnlyToRival, Owner
  <2>3. CASE PersistFails(r) /\ mishaps' = mishaps + 1
    BY <2>3 DEF LostOnlyToRival, SingleInv, RunTyped
  <2> QED
    BY <2>1, <2>2, <2>3 DEF PersistFails
<1> QED
  BY <1>3, <1>4, <1>5, <1>6 DEF SingleInv

\* The COMMIT of persist_on_complete.
LEMMA SavingStep ==
  ASSUME SingleInv, StoreInv, NEW r \in Run, SaveVerdict(r)
  PROVE  SingleInv'
<1> DEFINE rows == Verdict(r).rows
<1>1. /\ pc[r] = "persisting" /\ pc' = [pc EXCEPT ![r] = "reporting"]
      /\ saved' = [saved EXCEPT ![r] = "saved"] /\ UNCHANGED <<pctx, outcome, router, mishaps>>
      /\ txn' = [txn EXCEPT ![r] = "idle"]
      /\ strategies' = IF txn[r] = "inserted" THEN strategies \union {held[r]}
                       ELSE strategies
      /\ jobs' = jobs \union rows
      /\ raw_briefs' = [raw_briefs EXCEPT ![TaskOf[r]] = Verdict(r).brief]
  BY VerdictFacts
  DEF SaveVerdict, Goto, CommitJobs, EndTxn, Published
<1>2. outcome[r] = "COMPLETED" =>
        \E j \in rows : j.by = r /\ j.status = "done" /\ j.strategy = held[r]
  <2> DEFINE job == NewJob(r, "job", <<"done", "null">>)
  <2>1. job.by = r /\ job.status = "done" /\ job.strategy = held[r]
    BY DEF NewJob
  <2>2. outcome[r] = "COMPLETED" => rows = {job}
    BY DEF Verdict
  <2> QED
    BY <2>1, <2>2
<1>3. Verdict(r).brief = "done" => outcome[r] = "COMPLETED"
  BY DEF Verdict
<1>4. /\ \A q \in Run : pc[q] \in Ended => pc'[q] \in Ended
      /\ pc'[r] \in Ended
      /\ \A q \in Run : q # r => txn'[q] = txn[q] /\ pc'[q] = pc[q] /\ saved'[q] = saved[q]
      /\ txn'[r] = "idle" /\ saved'[r] = "saved"
  BY <1>1 DEF Ended, SingleInv, RunTyped, StoreInv, StoreTypeOK
<1>5. txn[r] = "inserted" => held[r].by = r /\ outcome[r] = "COMPLETED"
  BY DEF StoreInv, Insertions, SingleInv, SessionAfterReason
<1>6. RunTyped'
  BY <1>1 DEF SingleInv, RunTyped, Live
<1>7. SessionAfterReason' /\ LostRunEnded'
  BY <1>1, <1>4 DEF SingleInv, SessionAfterReason, LostRunEnded
<1>8. SeederEnded'
  <2>1. \A s \in strategies : s.by \in Run
    BY DEF StoreInv, StoreTypeOK, StrategyRow
  <2> QED
    BY <1>1, <1>4, <1>5, <2>1 DEF SingleInv, SeederEnded
<1>9. DoneHasJob'
  <2> SUFFICES ASSUME NEW t \in Task, raw_briefs'[t] = "done"
               PROVE  \E j \in jobs' : TaskOf[j.by] = t /\ j.status = "done"
    BY DEF DoneHasJob
  <2>1. CASE t = TaskOf[r]
    <3>1. outcome[r] = "COMPLETED"
      BY <1>1, <1>3, <2>1 DEF StoreInv, StoreTypeOK
    <3> QED
      BY <1>1, <1>2, <2>1, <3>1
  <2>2. CASE t # TaskOf[r]
    BY <1>1, <2>2 DEF SingleInv, DoneHasJob, StoreInv, StoreTypeOK
  <2> QED
    BY <2>1, <2>2
<1>10. StrategyHasItsJob'
  <2> SUFFICES ASSUME NEW s \in strategies'
               PROVE  /\ outcome[s.by] = "COMPLETED"
                      /\ \E j \in jobs' : j.by = s.by /\ j.status = "done" /\ j.strategy = s
    BY <1>1 DEF StrategyHasItsJob
  <2>1. CASE s \in strategies
    BY <1>1, <2>1 DEF SingleInv, StrategyHasItsJob
  <2>2. CASE txn[r] = "inserted" /\ s = held[r]
    BY <1>1, <1>2, <1>5, <2>2
  <2> QED
    BY <1>1, <2>1, <2>2
<1>11. LostOnlyToRival'
  BY <1>1, <1>4 DEF SingleInv, LostOnlyToRival, Owner
<1> QED
  BY <1>6, <1>7, <1>8, <1>9, <1>10, <1>11 DEF SingleInv

\* The runs keep the invariant.
THEOREM SingleInvariant == Spec => [](SingleInv /\ StoreInv)
<1>1. Init => SingleInv
  BY SingleAssumption
  DEF Init, StoreInit, SingleInv, RunTyped, SessionAfterReason, SeederEnded, LostRunEnded,
      DoneHasJob, StrategyHasItsJob, LostOnlyToRival, Live
<1>2. SingleInv /\ StoreInv /\ [Next]_vars => SingleInv'
  <2> SUFFICES ASSUME SingleInv, StoreInv, [Next]_vars PROVE SingleInv'
    OBVIOUS
  <2>1. CASE UNCHANGED vars
    BY <2>1
    DEF vars, storeVars, runVars, SingleInv, RunTyped, SessionAfterReason, SeederEnded,
        LostRunEnded, DoneHasJob, StrategyHasItsJob, LostOnlyToRival, Owner
  <2>2. CASE \E t \in Task : RouterRetry(t)
    BY <2>2
    DEF RouterRetry, storeVars, SingleInv, RunTyped, SessionAfterReason, SeederEnded,
        LostRunEnded, DoneHasJob, StrategyHasItsJob, LostOnlyToRival, Owner
  <2>3. ASSUME NEW r \in Run, RunTask(r) \/ Step(r) \/ Die(r) PROVE SingleInv'
    BY <2>3, QuietRunStep, SessionStep, LosingStep, SavingStep DEF Step
  <2> QED
    BY <2>1, <2>2, <2>3 DEF Next
<1> QED
  BY <1>1, <1>2, SingleImplementsStore, StoreInvariant, PTL DEF Spec

\* The runs keep the types of their state, and the tables theirs.
THEOREM SingleTypeCorrect == Spec => []SingleTypeOK
<1>1. SingleInv /\ StoreInv => SingleTypeOK
  BY DEF SingleInv, RunTyped, StoreInv, SingleTypeOK
<1> QED
  BY <1>1, SingleInvariant, PTL

\* A brief is "done" only if a run of its task left a done job.
THEOREM DoneBriefsHaveJobs == Spec => []DoneHasJob
  BY SingleInvariant, PTL DEF SingleInv

\* A strategy is committed with the done job of the run that seeded it.
THEOREM StrategiesHaveJobs == Spec => []StrategyHasItsJob
  BY SingleInvariant, PTL DEF SingleInv

\* Without a mishap a result is lost only to a rival that seeded the strategy.
THEOREM ResultsLostToRivals == Spec => []LostOnlyToRival
  BY SingleInvariant, PTL DEF SingleInv
=============================================================================
