--------------------------- MODULE MCMemReadDir ---------------------------
(* A directory of up to three entries, one more than its first table holds. *)
EXTENDS MemReadDir
============================================================================
