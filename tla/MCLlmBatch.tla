----------------------------- MODULE MCLlmBatch -----------------------------
(* More jobs than permits: two at a time, or one, and one item more than jobs. *)
EXTENDS LlmBatch
=============================================================================
