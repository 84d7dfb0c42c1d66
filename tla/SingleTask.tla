----------------------------- MODULE SingleTask -----------------------------
(***************************************************************************)
(* The life of a task that asks for one post (create_post, edit_post):     *)
(* POST /tasks, the background task _run_and_callback, the hooks of        *)
(* persistence.py, and the ROUTER that dispatches the task and receives    *)
(* the PATCHes.                                                            *)
(*                                                                         *)
(* Runs of several tasks, and several runs of one task, interleave at      *)
(* every await.  The ROUTER is external: it redispatches a task that       *)
(* FAILED or timed out, so a task may have more than one run alive.  The   *)
(* retry loop inside one PATCH is the subject of module Delivery; here a   *)
(* PATCH reaches the ROUTER or is given up.                                *)
(***************************************************************************)
EXTENDS Store

CONSTANTS
  NullContext,  \* tasks whose envelope has "context": null
  NoAccount,    \* tasks whose account_uuid or task_id is not a UUID
  MaxMishaps    \* bound on restarts and on failures of the database

ASSUME SingleAssumption ==
  /\ NullContext \subseteq Task /\ NoAccount \subseteq Task
  /\ NullContext \subseteq NoAccount
  /\ MaxMishaps \in Nat
  /\ "job" \in JobKey

VARIABLES
  pc,       \* where the run is in run_task and _run_and_callback
  pctx,     \* did persist_on_ingest hand over a PersistCtx?
  outcome,  \* status of the CallbackBody reason() produced, or "none"
  saved,    \* what became of persist_on_complete
  router,   \* the ROUTER's state of each task
  mishaps   \* statements that failed in the database and runs killed, so far

runVars == <<pc, pctx, outcome, saved, router, mishaps>>
vars == <<storeVars, runVars>>

Live == {"accepted", "fetching", "reasoning", "persisting", "reporting"}

Init ==
  /\ StoreInit
  /\ pc = [r \in Run |-> "new"]
  /\ pctx = [r \in Run |-> FALSE]
  /\ outcome = [r \in Run |-> "none"]
  /\ saved = [r \in Run |-> "no"]
  /\ router = [t \in Task |-> "QUEUED"]
  /\ mishaps = 0

Goto(r, from, to) == pc[r] = from /\ pc' = [pc EXCEPT ![r] = to]

\* A statement fails for a reason of the database's own, or a process ends.
Mishap == mishaps < MaxMishaps /\ mishaps' = mishaps + 1

-----------------------------------------------------------------------------
(* The ROUTER (external).                                                  *)

Accepts(from, to) ==
  \/ from = "DISPATCHED" /\ to \in {"IN_PROGRESS", "COMPLETED", "FAILED"}
  \/ from = "IN_PROGRESS" /\ to \in {"COMPLETED", "FAILED"}

\* A PATCH is applied, refused with 409, or never arrives.
PatchCallback(t, status) ==
  \/ router' = router
  \/ Accepts(router[t], status) /\ router' = [router EXCEPT ![t] = status]

\* A task that failed, or whose timeout expired, goes back to the queue.
RouterRetry(t) ==
  /\ router[t] \in {"DISPATCHED", "IN_PROGRESS", "FAILED"}
  /\ \E r \in Run : TaskOf[r] = t /\ pc[r] = "new"
  /\ router' = [router EXCEPT ![t] = "QUEUED"]
  /\ UNCHANGED <<storeVars, pc, pctx, outcome, saved, mishaps>>

-----------------------------------------------------------------------------
(* The service.                                                            *)

\* run_task: persist_on_ingest, add_task, 202.
RunTask(r) ==
  /\ router[TaskOf[r]] = "QUEUED"
  /\ router' = [router EXCEPT ![TaskOf[r]] = "DISPATCHED"]
  /\ Goto(r, "new", "accepted")
  /\ \/ /\ TaskOf[r] \notin NoAccount
        /\ pctx' = [pctx EXCEPT ![r] = TRUE]
        /\ PersistOnIngest(r)
        /\ UNCHANGED mishaps
     \/ /\ \/ TaskOf[r] \in NoAccount /\ UNCHANGED mishaps
           \/ TaskOf[r] \notin NoAccount /\ Mishap
        /\ UNCHANGED <<pctx, storeVars>>
  /\ UNCHANGED <<outcome, saved>>

\* The IN_PROGRESS PATCH at the top of _run_and_callback.
ReportInProgress(r) ==
  /\ Goto(r, "accepted", "fetching")
  /\ PatchCallback(TaskOf[r], "IN_PROGRESS")
  /\ UNCHANGED <<storeVars, pctx, outcome, saved, mishaps>>

\* account_uuid is read with .get("context", {}).get(...): a null context raises
\* outside any try and ends the background task.
Fetch(r) ==
  /\ IF TaskOf[r] \in NullContext
     THEN Goto(r, "fetching", "dead") /\ UNCHANGED storeVars
     ELSE /\ Goto(r, "fetching", "reasoning")
          /\ \/ UNCHANGED storeVars
             \/ pctx[r] /\ UpdateUserProfile(r)
  /\ UNCHANGED <<pctx, outcome, saved, router, mishaps>>

\* reason() in a thread; any exception becomes a FAILED CallbackBody.
Reason(r) ==
  /\ Goto(r, "reasoning", IF pctx[r] THEN "persisting" ELSE "reporting")
  /\ \E status \in {"COMPLETED", "FAILED"} : outcome' = [outcome EXCEPT ![r] = status]
  /\ UNCHANGED <<storeVars, pctx, saved, router, mishaps>>

\* persist_on_complete: the SELECT, with which ensure_strategy and the FAILED
\* branch both begin.
BeginPersist(r) ==
  /\ pc[r] = "persisting" /\ txn[r] = "idle"
  /\ GetActiveStrategy(r)
  /\ UNCHANGED runVars

\* Mutant: the FAILED branch, too, seeds a strategy when there is none.
SeedsAlways(r) == TRUE

SeedsStrategy(r) == outcome[r] = "COMPLETED"

EnsureStrategy(r) ==
  /\ pc[r] = "persisting" /\ SeedsStrategy(r)
  /\ CreateStrategy(r, "llm")
  /\ UNCHANGED runVars

\* Mutant: a failed run, too, is committed as "done".
VerdictDone(r) == [rows |-> {}, brief |-> "done"]

\* The jobs row and the raw_briefs status persist_on_complete commits.
Verdict(r) ==
  IF outcome[r] = "COMPLETED"
  THEN [rows |-> {NewJob(r, "job", <<"done", "null">>)}, brief |-> "done"]
  ELSE [rows |-> IF held[r] = NoRow THEN {}
                 ELSE {NewJob(r, "job", <<"failed", "null">>)},
        brief |-> "failed"]

SaveVerdict(r) ==
  /\ Goto(r, "persisting", "reporting")
  /\ SeedsStrategy(r) => held[r] # NoRow
  /\ CommitJobs(r, Verdict(r).rows, Verdict(r).brief)
  /\ saved' = [saved EXCEPT ![r] = "saved"]
  /\ UNCHANGED <<pctx, outcome, router, mishaps>>

\* Mutant: the INSERT gives up as soon as a rival is in the way.
RaceLostEarly(r) == Rollback(r) /\ held[r] = NoRow /\ InsertBlocked(r)

RaceLost(r) == UniqueViolation(r)

\* An exception in persist_on_complete is logged and swallowed.
PersistFails(r) ==
  /\ Goto(r, "persisting", "reporting")
  /\ \/ SeedsStrategy(r) /\ RaceLost(r) /\ UNCHANGED mishaps
     \/ Mishap /\ Rollback(r)
     \/ Mishap /\ txn[r] = "idle" /\ UNCHANGED storeVars
  /\ saved' = [saved EXCEPT ![r] = "lost"]
  /\ UNCHANGED <<pctx, outcome, router>>

ReadyToReport(r) == pc[r] = "reporting"

\* The terminal PATCH.
ReportOutcome(r) ==
  /\ ReadyToReport(r)
  /\ pc' = [pc EXCEPT ![r] = "done"]
  /\ PatchCallback(TaskOf[r], outcome[r])
  /\ UNCHANGED <<storeVars, pctx, outcome, saved, mishaps>>

\* A restart: background tasks live in memory only.
Die(r) ==
  /\ Mishap /\ pc[r] \in Live
  /\ pc' = [pc EXCEPT ![r] = "dead"]
  /\ Disconnect(r)
  /\ UNCHANGED <<pctx, outcome, saved, router>>

Step(r) ==
  \/ ReportInProgress(r) \/ Fetch(r) \/ Reason(r) \/ BeginPersist(r)
  \/ EnsureStrategy(r) \/ SaveVerdict(r) \/ PersistFails(r) \/ ReportOutcome(r)

Next ==
  \/ \E t \in Task : RouterRetry(t)
  \/ \E r \in Run : RunTask(r) \/ Step(r) \/ Die(r)

Spec == Init /\ [][Next]_vars

\* The event loop resumes every run whose await is over: Gemini, the fetches
\* and httpx have timeouts, Postgres grants the index lock when its holder ends.
FairSpec == Spec /\ \A r \in Run : WF_vars(Step(r))

-----------------------------------------------------------------------------
(* Properties.                                                             *)

SingleTypeOK ==
  /\ StoreTypeOK
  /\ pc \in [Run -> Live \union {"new", "done", "dead"}]
  /\ pctx \in [Run -> BOOLEAN]
  /\ outcome \in [Run -> {"none", "COMPLETED", "FAILED"}]
  /\ saved \in [Run -> {"no", "saved", "lost"}]
  /\ router \in [Task -> {"QUEUED", "DISPATCHED", "IN_PROGRESS", "COMPLETED", "FAILED"}]
  /\ mishaps \in 0..MaxMishaps

\* raw_briefs says "done" only of a task one of whose runs left a done job,
\* through redispatches, rollbacks and restarts at any point.
DoneHasJob ==
  \A t \in Task : raw_briefs[t] = "done" =>
    \E j \in jobs : TaskOf[j.by] = t /\ j.status = "done"

\* A strategy never outlives the run that seeded it: it was committed with the
\* done job of that run, by a run whose reason() succeeded.
StrategyHasItsJob ==
  \A s \in strategies :
    /\ outcome[s.by] = "COMPLETED"
    /\ \E j \in jobs : j.by = s.by /\ j.status = "done" /\ j.strategy = s

\* Without a mishap the only way to lose a result is the race of two first tasks
\* of one account, and then the rival's strategy is committed.
LostOnlyToRival ==
  mishaps = 0 => \A r \in Run : saved[r] = "lost" =>
    /\ outcome[r] = "COMPLETED"
    /\ \E s \in strategies : s.user = Owner(r) /\ s.by # r

\* Every accepted run ends, the runs that wait for another run's index lock
\* included, whichever of the two is rolled back or killed.
RunsFinish == \A r \in Run : pc[r] = "accepted" ~> pc[r] \in {"done", "dead"}

\* _run_and_callback (main.py:202): "Any internal exception is captured and
\* reported to the router as status=FAILED so the task never hangs".
TaskNeverHangs == \A r \in Run : pc[r] = "accepted" ~> outcome[r] # "none"

=============================================================================
