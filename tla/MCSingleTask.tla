---------------------------- MODULE MCSingleTask ----------------------------
(* Two deliveries of task t1 and one of task t2, all of one account.       *)
EXTENDS SingleTask, TLC

CONSTANTS r1, r2, r3, t1, t2, u1

MCTaskOf == (r1 :> t1) @@ (r2 :> t1) @@ (r3 :> t2)
MCUserOf == (t1 :> u1) @@ (t2 :> u1)
=============================================================================
