------------------------------ MODULE SyncTasks ------------------------------
(***************************************************************************)
(* The multi-job branch of POST /tasks/sync beside the background runs of  *)
(* MultiDispatch: same tables, same account, same receivers.  The endpoint *)
(* has a split, a save and a post of its own: reason_multi runs on the     *)
(* event loop and outside any try, so that an exception ends the request   *)
(* with status 500; LLM jobs are saved and not posted; passthrough jobs    *)
(* are posted whether they were saved or not, and no UPDATE records what   *)
(* became of them.  Their fate is in the HTTP response only.               *)
(*                                                                         *)
(* A task whose context is null has no PersistCtx; its request ends with   *)
(* 500 as well, and leaves no more behind than Crash does without one.     *)
(***************************************************************************)
EXTENDS MultiDispatch

CONSTANT MaySync    \* runs whose client may choose POST /tasks/sync

ASSUME SyncAssumption == MaySync \subseteq Run

VARIABLES
  http,       \* "async" for a run of POST /tasks; otherwise "open", or the status
  responses   \* <<key, status>> of each entry in the body of the response

syncVars == <<http, responses>>
allVars == <<vars, syncVars>>

SyncInit ==
  /\ Init
  /\ http = [r \in Run |-> "async"]
  /\ responses = [r \in Run |-> {}]

\* Everything of a background run.
Background(r, A) == http[r] = "async" /\ A /\ UNCHANGED syncVars

\* A step of the endpoint that answers nothing yet.
Request(r, A) == http[r] = "open" /\ A /\ UNCHANGED syncVars

-----------------------------------------------------------------------------
(* run_task_sync.                                                          *)

\* persist_on_ingest.
RunTaskSync(r) ==
  /\ r \in MaySync /\ http[r] = "async"
  /\ RunTask(r)
  /\ http' = [http EXCEPT ![r] = "open"]
  /\ UNCHANGED responses

\* reason_multi raises.
Crash(r) ==
  /\ http[r] = "open" /\ Goto(r, "thinking", "dead")
  /\ http' = [http EXCEPT ![r] = "500"]
  /\ UNCHANGED <<storeVars, pctx, results, fatal, ids, reported, next, answer, queue,
                 mishaps, responses>>

\* Nothing to save.  A batch that failed as a whole leaves its raw_brief as it is.
SkipSync(r, b) ==
  /\ ~pctx[r] \/ BatchKeys(r, b) = <<>>
  /\ EndBatch(r, b, {})
  /\ UNCHANGED <<storeVars, mishaps>>

SaveSync(r, b) ==
  \/ SkipSync(r, b) \/ SelectStrategy(r, b) \/ EnsureStrategy(r, b)
  \/ SaveBatch(r, b) \/ LoseBatch(r, b)

\* No PATCH; the POSTs begin at the first passthrough job.
BeginPosts(r) ==
  /\ Goto(r, "reporting", "posting")
  /\ next' = [next EXCEPT ![r] = LlmJobs[TaskOf[r]] + 1]
  /\ UNCHANGED <<storeVars, pctx, results, fatal, ids, reported, answer, queue, mishaps>>

\* Mutant: a FAILED answer of the dispatcher is not looked at.
StatusBlind(ok) == "ok"

Status(ok) == IF ok THEN "ok" ELSE "failed"

\* _post_dispatcher, and its part of the response.
PostSync(r) ==
  /\ http[r] = "open" /\ ToPost(r)
  /\ \E ok \in BOOLEAN, acted \in BOOLEAN :
       /\ ok => acted
       /\ queue' = IF acted THEN queue \union {<<r, Current(r)>>} ELSE queue
       /\ responses' = [responses EXCEPT ![r] = @ \union {<<Current(r), Status(ok)>>}]
  /\ next' = [next EXCEPT ![r] = @ + 1]
  /\ UNCHANGED <<storeVars, pc, pctx, results, fatal, ids, reported, answer, mishaps, http>>

NoJob == <<"llm", 0>>   \* a callback without a job

\* The callbacks of reason_multi: one for each job, or, of a batch that failed as
\* a whole, a single FAILED without a job.
LlmResponses(r) ==
  IF fatal[r] THEN {<<NoJob, "FAILED">>}
  ELSE {<<<<"llm", i>>, results[r][i]>> : i \in 1..LlmJobs[TaskOf[r]]}

Respond(r) ==
  /\ http[r] = "open"
  /\ Finish(r)
  /\ http' = [http EXCEPT ![r] = "200"]
  /\ responses' = [responses EXCEPT ![r] = @ \union LlmResponses(r)]

SyncStep(r) ==
  \/ Request(r, Think(r)) \/ Crash(r)
  \/ \E b \in Batch : Request(r, SaveSync(r, b))
  \/ Request(r, BeginPosts(r)) \/ PostSync(r) \/ Respond(r)

\* A restart ends a request without an answer.
SyncNext ==
  \E r \in Run :
    \/ Background(r, RunTask(r) \/ Step(r))
    \/ Die(r) /\ UNCHANGED syncVars
    \/ RunTaskSync(r) \/ SyncStep(r)

SyncSpec == SyncInit /\ [][SyncNext]_allVars

\* As in MultiDispatch; the handler of a request goes on when its await ends.
FairSyncSpec ==
  SyncSpec /\ \A r \in Run : WF_allVars(Background(r, Step(r)) \/ SyncStep(r))

-----------------------------------------------------------------------------
(* Properties.                                                             *)

\* Without a mishap no row of a background run that came to its end is left
\* "pending", whatever the receivers answered and whichever rows were refused, and
\* also beside a request, whose own rows stay "pending" for ever.
SettledWhenDone ==
  mishaps = 0 => \A r \in Run : http[r] = "async" /\ pc[r] = "done" =>
    \A j \in RowsOf(r) : j.dispatch # "pending"

\* What a 200 speaks of: the passthrough sub-jobs, and the LLM jobs or, when their
\* batch failed as a whole, none of them.
Answered(r) ==
  IF fatal[r] THEN {NoJob} \union ToSet(Keys(TaskOf[r], "pass"))
  ELSE ToSet(Order(TaskOf[r]))

\* The caller of POST /tasks/sync, who is the only one to learn of the passthrough
\* jobs, is not misled.  A 200 has one entry for each passthrough sub-job, and one
\* for each LLM job or one FAILED for all of them, and then no row of theirs was
\* saved; "ok" is said only of what the dispatcher took, and the FAILED entries
\* are those whose rows are "failed".  After a 500 nothing was saved or posted, so
\* that the call may be repeated.
ResponseHonest ==
  \A r \in Run :
    /\ http[r] = "200" =>
         /\ {p[1] : p \in responses[r]} = Answered(r)
         /\ \A p, q \in responses[r] : p[1] = q[1] => p = q
         /\ \A p \in responses[r] :
              /\ p[2] = "ok" => <<r, p[1]>> \in queue
              /\ \A j \in RowsOf(r) :
                   j.key = p[1] => (j.status = "failed" <=> p[2] = "FAILED")
         /\ fatal[r] => \A j \in RowsOf(r) : j.key[1] = "pass"
    /\ http[r] = "500" => RowsOf(r) = {} /\ \A p \in queue : p[1] # r

\* A receiver acts on a sub-job of a background run only after the one PATCH of
\* its task was sent, and on an enriched one only if that PATCH said COMPLETED.
ReportedFirst ==
  \A p \in queue : http[p[1]] = "async" =>
    /\ reported[p[1]] # "none"
    /\ p[2][1] = "llm" => reported[p[1]] = "COMPLETED"

=============================================================================
