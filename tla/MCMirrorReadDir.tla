-------------------------- MODULE MCMirrorReadDir --------------------------
(* The listings of the mirror, instantiated for TLC. *)
EXTENDS MirrorReadDir

=============================================================================
