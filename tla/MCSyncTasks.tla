----------------------------- MODULE MCSyncTasks -----------------------------
(* The instance of MCMultiDispatch, in which the run of t1, the task with    *)
(* sub-jobs of both kinds, may be a request of POST /tasks/sync.             *)
EXTENDS SyncTasks, MCMultiDispatch
=============================================================================
