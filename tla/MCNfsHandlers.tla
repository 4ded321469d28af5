--------------------------- MODULE MCNfsHandlers ---------------------------
(* Instances of NfsHandlers for TLC. *)
EXTENDS NfsHandlers, TLC

Symmetry == Permutations(Tasks)

\* States that differ only in the answers idle tasks have given count as one: no
\* step and no property but the type of the answers depends on them.
View == <<entries, nextid, [t \in Tasks |-> IF At(t, "idle") THEN Idle("OK") ELSE task[t]]>>
=============================================================================
