----------------------------- MODULE MCMemFiles -----------------------------
(* Requests and symmetry for the run of MemFiles.                          *)
EXTENDS MemFiles, TLC

\* Every read, write and change of size of a file; of the requests that do not
\* get that far, one of each kind.
MCRequests ==
    {r \in Request :
        CASE r.op = "READ"  -> r.obj \in Files \/ (r.offset = 0 /\ r.count = 1)
          [] r.op = "WRITE" ->
                /\ r.offset + Len(r.data) <= MaxLen
                /\ ~r.honest => r.obj \in Files /\ r.offset = 0 /\ Len(r.data) = 1
                /\ r.obj \in Dirs => r.offset = 0 /\ Len(r.data) = 1
          [] OTHER ->
                /\ r.guard # "none" => r.obj \in Files /\ r.size = 0
                /\ r.obj \in Dirs => r.size = 1}

Symmetry == Permutations(Tasks)
=============================================================================
