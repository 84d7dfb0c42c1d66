---------------------------- MODULE BatchContract ----------------------------
(***************************************************************************)
(* What reason_multi and reason_multi_fanout promise to                    *)
(* _run_multi_and_callback: either one verdict for each job of the batch,  *)
(* given job by job and never revised, handed over only when all are       *)
(* there; or one FAILED for the batch as a whole and no verdict at all.    *)
(***************************************************************************)
CONSTANTS Job, Verdict, Undecided

VARIABLES verdict, fatal, returned

cvars == <<verdict, fatal, returned>>

Init ==
  /\ verdict = [j \in Job |-> Undecided]
  /\ fatal = FALSE /\ returned = FALSE

Decide ==
  /\ ~returned /\ ~fatal
  /\ \E D \in SUBSET {j \in Job : verdict[j] = Undecided}, f \in [Job -> Verdict] :
       verdict' = [j \in Job |-> IF j \in D THEN f[j] ELSE verdict[j]]
  /\ UNCHANGED <<fatal, returned>>

\* The batch fails as a whole, before any job has its verdict.
Fail ==
  /\ ~returned /\ \A j \in Job : verdict[j] = Undecided
  /\ fatal' = TRUE
  /\ returned' \in BOOLEAN
  /\ UNCHANGED verdict

Return ==
  /\ fatal \/ \A j \in Job : verdict[j] # Undecided
  /\ returned' = TRUE
  /\ UNCHANGED <<verdict, fatal>>

Spec == Init /\ [][Decide \/ Fail \/ Return]_cvars
=============================================================================
