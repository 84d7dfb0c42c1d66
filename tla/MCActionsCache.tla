---------------------------- MODULE MCActionsCache ----------------------------
(* lifespan and three requests; the second version of the catalog enables an  *)
(* action without an overlay, the third one has no row.                       *)
EXTENDS ActionsCache, TLC

CONSTANTS boot, c1, c2, c3
=============================================================================
