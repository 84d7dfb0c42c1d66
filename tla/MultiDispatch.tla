---------------------------- MODULE MultiDispatch ----------------------------
(***************************************************************************)
(* The multi-job branch of the background task (subscription_strategy):    *)
(* _run_multi_and_callback and persist_on_complete_multi.  The sub-jobs of *)
(* a task are split in two batches, the LLM jobs and the passthrough jobs. *)
(* Each batch is saved in a transaction of its own; then one PATCH reports *)
(* the task, and the sub-jobs are posted one after the other, each         *)
(* followed by an UPDATE of its dispatch_status.                           *)
(*                                                                         *)
(* Runs of several tasks, and several deliveries of one task, interleave   *)
(* at every await.  The retry loops inside the calls are in Delivery.      *)
(***************************************************************************)
EXTENDS Store, Sequences, SequencesExt

CONSTANTS
  LlmJobs, PassJobs,  \* number of sub-jobs of each kind of a task
  RefusableRows,      \* <<task, key>>: rows a constraint of jobs may refuse
  MaxMishaps          \* bound on restarts and on failures of the database

Batch == {"llm", "pass"}
Keys(t, b) == [i \in 1..(IF b = "llm" THEN LlmJobs[t] ELSE PassJobs[t]) |-> <<b, i>>]
Order(t) == Keys(t, "llm") \o Keys(t, "pass")   \* the order of the POSTs

\* A row is refused for what its envelope says: orchestrator_agent and action_key
\* are passed through, and jobs has a CHECK on the first, a FK on the second.
ASSUME MultiAssumption ==
  /\ LlmJobs \in [Task -> Nat] /\ PassJobs \in [Task -> Nat]
  /\ \A t \in Task : Len(Order(t)) > 0 /\ ToSet(Order(t)) \subseteq JobKey
  /\ RefusableRows \subseteq Task \X JobKey
  /\ MaxMishaps \in Nat

VARIABLES
  pc,        \* "new", "thinking", "llm" and "pass" while that batch is saved,
             \* "reporting", "posting", "done", "dead"
  pctx,      \* did persist_on_ingest hand over a PersistCtx?
  results,   \* status of each LLM job, or <<>> when none was produced
  fatal,     \* did reason_multi fail as a whole?
  ids,       \* created_jobs and passthrough_db_jobs: rows the run believes in
  reported,  \* status of the one PATCH of the task
  next,      \* position in Order of the sub-job being posted
  answer,    \* what the POST of that sub-job returned
  queue,     \* sub-jobs the orchestrator or the dispatcher was given
  mishaps    \* statements that failed in the database and runs killed, so far

runVars == <<pc, pctx, results, fatal, ids, reported, next, answer, queue, mishaps>>
vars == <<storeVars, runVars>>

Init ==
  /\ StoreInit
  /\ pc = [r \in Run |-> "new"]
  /\ pctx = [r \in Run |-> FALSE] /\ fatal = [r \in Run |-> FALSE]
  /\ results = [r \in Run |-> <<>>] /\ ids = [r \in Run |-> {}]
  /\ reported = [r \in Run |-> "none"] /\ answer = [r \in Run |-> "none"]
  /\ next = [r \in Run |-> 1]
  /\ queue = {} /\ mishaps = 0

Goto(r, from, to) == pc[r] = from /\ pc' = [pc EXCEPT ![r] = to]

\* A statement fails for a reason of the database's own, or a process ends.
Mishap == mishaps < MaxMishaps /\ mishaps' = mishaps + 1

-----------------------------------------------------------------------------
(* Ingest and the LLM.                                                     *)

\* run_task: persist_on_ingest, add_task, 202.
RunTask(r) ==
  /\ Goto(r, "new", "thinking")
  /\ \/ pctx' = [pctx EXCEPT ![r] = TRUE] /\ PersistOnIngest(r) /\ UNCHANGED mishaps
     \/ Mishap /\ UNCHANGED <<pctx, storeVars>>
  /\ UNCHANGED <<results, fatal, ids, reported, next, answer, queue>>

\* The split, and reason_multi or reason_multi_fanout on the LLM jobs: a result
\* for each of them, or one FAILED without a job for all.
Think(r) ==
  LET n == LlmJobs[TaskOf[r]]
  IN  /\ Goto(r, "thinking", "llm")
      /\ \/ /\ \E res \in [1..n -> {"COMPLETED", "FAILED"}] :
                 results' = [results EXCEPT ![r] = res]
            /\ UNCHANGED fatal
         \/ n > 0 /\ fatal' = [fatal EXCEPT ![r] = TRUE] /\ UNCHANGED results
      /\ UNCHANGED <<storeVars, pctx, ids, reported, next, answer, queue, mishaps>>

-----------------------------------------------------------------------------
(* Saving the two batches.                                                 *)

AnyCompleted(r) == "COMPLETED" \in ToSet(results[r])

\* The rows batch b of run r inserts, in their order.
BatchKeys(r, b) == IF b = "llm" /\ fatal[r] THEN <<>> ELSE Keys(TaskOf[r], b)

EndBatch(r, b, known) ==
  /\ Goto(r, b, IF b = "llm" THEN "pass" ELSE "reporting")
  /\ ids' = [ids EXCEPT ![r] = @ \union known]
  /\ UNCHANGED <<pctx, results, fatal, reported, next, answer, queue>>

\* Nothing to save; without results of its jobs the task is marked failed, and
\* an exception of that UPDATE is swallowed.
SkipBatch(r, b) ==
  /\ ~pctx[r] \/ BatchKeys(r, b) = <<>>
  /\ EndBatch(r, b, {})
  /\ IF pctx[r] /\ b = "llm" /\ fatal[r]
     THEN \/ MarkRawBrief(r, "failed") /\ UNCHANGED mishaps
          \/ Mishap /\ UNCHANGED storeVars
     ELSE UNCHANGED <<storeVars, mishaps>>

\* The SELECT of the transaction.  The passthrough batch asks a second time,
\* in ensure_strategy, when it finds nothing.
SelectStrategy(r, b) ==
  /\ pc[r] = b /\ pctx[r] /\ BatchKeys(r, b) # <<>>
  /\ held[r] = NoRow /\ (b = "llm" => txn[r] = "idle")
  /\ GetActiveStrategy(r)
  /\ UNCHANGED runVars

Seeds(r, b) == b = "pass" \/ AnyCompleted(r)

EnsureStrategy(r, b) ==
  /\ pc[r] = b /\ Seeds(r, b)
  /\ CreateStrategy(r, IF AnyCompleted(r) THEN "llm" ELSE "empty")
  /\ UNCHANGED runVars

IsFailed(r, k) == k[1] = "llm" /\ results[r][k[2]] = "FAILED"

\* Mutant: a FAILED sub-job, too, awaits its dispatch.
ShapePending(r, k) == <<"done", "pending">>

Shape(r, k) ==
  IF IsFailed(r, k) THEN <<"failed", "failed">> ELSE <<"done", "pending">>

Rows(r, b) ==
  IF held[r] = NoRow THEN {}
  ELSE {NewJob(r, k, Shape(r, k)) : k \in ToSet(BatchKeys(r, b))}

\* Mutant: the brief is done as soon as there is a result.
BriefVerdictDone(r, b) == IF b = "pass" THEN "keep" ELSE "done"

\* Only persist_on_complete_multi marks the raw_brief.
BriefVerdict(r, b) ==
  IF b = "pass" THEN "keep" ELSE IF AnyCompleted(r) THEN "done" ELSE "failed"

SaveBatch(r, b) ==
  /\ pc[r] = b
  /\ Seeds(r, b) => held[r] # NoRow
  /\ CommitJobs(r, Rows(r, b), BriefVerdict(r, b))
  /\ EndBatch(r, b, {n.key : n \in Rows(r, b)})
  /\ UNCHANGED mishaps

Refusable(r, k) == <<TaskOf[r], k>> \in RefusableRows

\* The first rows of a batch, up to the one whose INSERT raised.
Flushed(r, b, n) == ToSet(SubSeq(BatchKeys(r, b), 1, n))

\* Any exception of the transaction is logged and swallowed.  The list of ids
\* survives the rollback with the rows that had been flushed.
LoseBatch(r, b) ==
  \/ Seeds(r, b) /\ UniqueViolation(r) /\ EndBatch(r, b, {}) /\ UNCHANGED mishaps
  \/ /\ Rollback(r)
     /\ \E n \in 0..Len(BatchKeys(r, b)) :
          /\ n > 0 => held[r] # NoRow
          /\ \/ /\ held[r] # NoRow /\ n < Len(BatchKeys(r, b))
                /\ Refusable(r, BatchKeys(r, b)[n + 1]) /\ UNCHANGED mishaps
             \/ Mishap
          /\ EndBatch(r, b, Flushed(r, b, n))
  \/ /\ Mishap /\ pctx[r] /\ BatchKeys(r, b) # <<>> /\ txn[r] = "idle"
     /\ EndBatch(r, b, {}) /\ UNCHANGED storeVars

-----------------------------------------------------------------------------
(* Reporting and posting.                                                  *)

\* The one PATCH of the task.
Report(r) ==
  /\ Goto(r, "reporting", "posting")
  /\ reported' = [reported EXCEPT ![r] = IF fatal[r] THEN "FAILED" ELSE "COMPLETED"]
  /\ UNCHANGED <<storeVars, pctx, results, fatal, ids, next, answer, queue, mishaps>>

Current(r) == Order(TaskOf[r])[next[r]]

\* Mutant: the POSTs do not wait for the PATCH.
ToPostEarly(r) ==
  pc[r] \in {"reporting", "posting"} /\ answer[r] = "none" /\ next[r] <= Len(Order(TaskOf[r]))

ToPost(r) == pc[r] = "posting" /\ answer[r] = "none" /\ next[r] <= Len(Order(TaskOf[r]))

Advance(r) ==
  /\ next' = [next EXCEPT ![r] = @ + 1]
  /\ answer' = [answer EXCEPT ![r] = "none"]
  /\ UNCHANGED <<pc, pctx, results, fatal, ids, reported, queue>>

\* Best effort: an exception is swallowed.
TryUpdate(r, k, status) ==
  \/ UpdateDispatchStatus(r, k, status) /\ UNCHANGED mishaps
  \/ Mishap /\ UNCHANGED storeVars

\* No id: nothing to post.
SkipPost(r) ==
  /\ ToPost(r) /\ Current(r) \notin ids[r]
  /\ Advance(r)
  /\ UNCHANGED <<storeVars, mishaps>>

CloseFailed(r) ==
  /\ ToPost(r) /\ Current(r) \in ids[r] /\ IsFailed(r, Current(r))
  /\ TryUpdate(r, Current(r), "failed")
  /\ Advance(r)

\* _post_orch_job or _post_dispatcher: a lost answer counts as failed.
Post(r) ==
  /\ ToPost(r) /\ Current(r) \in ids[r] /\ ~IsFailed(r, Current(r))
  /\ \E status \in {"ok", "failed"}, acted \in BOOLEAN :
       /\ status = "ok" => acted
       /\ answer' = [answer EXCEPT ![r] = status]
       /\ queue' = IF acted THEN queue \union {<<r, Current(r)>>} ELSE queue
  /\ UNCHANGED <<storeVars, pc, pctx, results, fatal, ids, reported, next, mishaps>>

\* Mutants: the result of the POST is not looked at; only a positive one is
\* recorded.
RecordsBlindly(r) == TryUpdate(r, Current(r), "ok")
RecordsOk(r) ==
  IF answer[r] = "ok" THEN TryUpdate(r, Current(r), "ok") ELSE UNCHANGED <<storeVars, mishaps>>

Records(r) == TryUpdate(r, Current(r), answer[r])

RecordAnswer(r) ==
  /\ pc[r] = "posting" /\ answer[r] # "none"
  /\ Records(r)
  /\ Advance(r)

Finish(r) ==
  /\ next[r] > Len(Order(TaskOf[r]))
  /\ Goto(r, "posting", "done")
  /\ UNCHANGED <<storeVars, pctx, results, fatal, ids, reported, next, answer, queue, mishaps>>

\* A restart: background tasks live in memory only.
Die(r) ==
  /\ Mishap /\ pc[r] \notin {"new", "done", "dead"}
  /\ pc' = [pc EXCEPT ![r] = "dead"]
  /\ Disconnect(r)
  /\ UNCHANGED <<pctx, results, fatal, ids, reported, next, answer, queue>>

Save(r, b) ==
  \/ SkipBatch(r, b) \/ SelectStrategy(r, b) \/ EnsureStrategy(r, b)
  \/ SaveBatch(r, b) \/ LoseBatch(r, b)

Step(r) ==
  \/ Think(r)
  \/ \E b \in Batch : Save(r, b)
  \/ Report(r) \/ SkipPost(r) \/ CloseFailed(r) \/ Post(r) \/ RecordAnswer(r) \/ Finish(r)

Next == \E r \in Run : RunTask(r) \/ Step(r) \/ Die(r)

Spec == Init /\ [][Next]_vars

\* As in SingleTask: every await of a run ends, a wait for an index lock when
\* its holder ends its transaction.
FairSpec == Spec /\ \A r \in Run : WF_vars(Step(r))

-----------------------------------------------------------------------------
(* Properties.                                                             *)

RowsOf(r) == {j \in jobs : j.by = r}

MultiTypeOK ==
  /\ StoreTypeOK
  /\ pc \in [Run -> Batch \union {"new", "thinking", "reporting", "posting", "done", "dead"}]
  /\ pctx \in [Run -> BOOLEAN] /\ fatal \in [Run -> BOOLEAN]
  /\ \A r \in Run :
       /\ results[r] \in Seq({"COMPLETED", "FAILED"})
       /\ ids[r] \subseteq ToSet(Order(TaskOf[r]))
       /\ next[r] \in 1..Len(Order(TaskOf[r])) + 1
  /\ reported \in [Run -> {"none", "COMPLETED", "FAILED"}]
  /\ answer \in [Run -> {"none", "ok", "failed"}]
  /\ queue \subseteq Run \X JobKey
  /\ mishaps \in 0..MaxMishaps

\* dispatch_status "ok" is never a lie: the sub-job was taken over by the
\* orchestrator or the dispatcher, through lost answers, failed UPDATEs, restarts.
OkWasQueued == \A j \in jobs : j.dispatch = "ok" => <<j.by, j.key>> \in queue

\* A sub-job the LLM failed is never handed over, and its row never says it
\* waits for its dispatch or was dispatched.
FailedStaysHome ==
  \A r \in Run : \A i \in DOMAIN results[r] : results[r][i] = "FAILED" =>
    /\ <<r, <<"llm", i>> >> \notin queue
    /\ \A j \in RowsOf(r) : j.key = <<"llm", i>> => j.dispatch = "failed"

\* raw_briefs says "done" only of a task with an enriched sub-job.
BriefDoneHasJob ==
  \A t \in Task : raw_briefs[t] = "done" =>
    \E j \in jobs : TaskOf[j.by] = t /\ j.key[1] = "llm" /\ j.status = "done"

\* An accepted run ends, also one waiting for the index lock of a run that is
\* refused a row or killed.
BatchFinishes == \A r \in Run : pc[r] = "thinking" ~> pc[r] \in {"done", "dead"}

\* main.py:855: "Not persisted (degraded mode) -> nothing to POST for this job".
PostedIsPersisted == \A p \in queue : \E j \in jobs : j.by = p[1] /\ j.key = p[2]

\* persistence.py:6: "Ensures a strategy (creating v1 from the first successful
\* enrichment's brand_intelligence)".
StrategyFromEnrichment == \A s \in strategies : s.bi = "llm"

=============================================================================
