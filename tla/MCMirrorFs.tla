----------------------------- MODULE MCMirrorFs -----------------------------
(***************************************************************************)
(* Two names.  The host starts with a directory that holds a file, beside  *)
(* another file; with one file, so that a link may dangle; or with a link  *)
(* to a file.                                                              *)
(***************************************************************************)
EXTENDS MirrorFs, TLC

CONSTANTS a, b

MCHosts ==
    {<<a>> :> Directory @@ <<a, a>> :> Regular(1) @@ <<b>> :> Regular(2),
     <<a>> :> Regular(1),
     <<a>> :> Symlink(b) @@ <<b>> :> Regular(1)}

R(op, path) ==
    [op |-> op, path |-> path, to |-> <<a>>, link |-> b, size |-> Keep, offset |-> 0, count |-> 1]

MCRequests ==
    {R(op, p) : op \in {"LOOKUP", "REMOVE", "GUARDED", "EXCLUSIVE"}, p \in {<<a>>, <<b>>, <<a, a>>}}
    \cup {R("MKDIR", <<b>>), R("GETATTR", <<a>>), R("READLINK", <<a>>)}
    \cup {[R("WRITE", <<a>>) EXCEPT !.count = 2]}
    \cup {[R("READ", p) EXCEPT !.offset = n] : p \in {<<a>>, <<b>>}, n \in {0, MaxLen}}
    \cup {[R("SETATTR", <<a>>) EXCEPT !.size = s] : s \in {0, Huge}}
    \cup {[R("UNCHECKED", <<b>>) EXCEPT !.size = s] : s \in {1, Huge}}
    \cup {[R("RENAME", p) EXCEPT !.to = q] : p \in {<<a>>, <<a, a>>}, q \in {<<a>>, <<b>>}}
    \cup {[R("RENAME", <<a>>) EXCEPT !.to = <<a, b>>]}
    \cup {[R("SYMLINK", <<a>>) EXCEPT !.link = n] : n \in {a, b}}
============================================================================
