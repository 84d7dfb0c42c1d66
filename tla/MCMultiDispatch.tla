--------------------------- MODULE MCMultiDispatch ---------------------------
(* Two tasks of one account: t1 has LLM and passthrough sub-jobs, t2 only    *)
(* passthrough ones; or the same task delivered twice.                       *)
EXTENDS MultiDispatch, TLC

CONSTANTS r1, r2, t1, t2, u1

MCKeys == {<<"llm", 1>>, <<"llm", 2>>, <<"pass", 1>>, <<"pass", 2>>}
MCTaskOf == (r1 :> t1) @@ (r2 :> t2)
MCTwice == (r1 :> t1) @@ (r2 :> t1)
MCUserOf == (t1 :> u1) @@ (t2 :> u1)
MCLlmJobs == (t1 :> 2) @@ (t2 :> 0)
MCPassJobs == (t1 :> 1) @@ (t2 :> 2)
MCOnlyLlm == (t1 :> 2) @@ (t2 :> 1)
MCNoPass == (t1 :> 0) @@ (t2 :> 0)
MCRefusable == {<<t1, <<"llm", 2>> >>, <<t2, <<"pass", 2>>>>}
=============================================================================
