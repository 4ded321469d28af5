------------------------------ MODULE ByteFile ------------------------------
(***************************************************************************)
(* What clients are promised of the contents of files (vfs/mod.rs, read,   *)
(* write and setattr): every file is an array of bytes with a length.      *)
(* Each request takes place at once, at some moment while it is handled:   *)
(* what it answers and changes is what the request asks for, at that       *)
(* moment.  Bytes that were cut off never come back.  A request fails only *)
(* for the reason its status gives, and then it changes nothing.           *)
(*                                                                         *)
(* One promise of vfs/mod.rs is weakened: "the file is extended" by a      *)
(* write that starts past its end, but MemFs refuses it, see Fails.        *)
(***************************************************************************)
EXTENDS Integers, Sequences

CONSTANTS Tasks, Files, Dirs, MaxLen, Keep, Requests

VARIABLES
    len,        \* the length of each object (0 for directories), or Gone
    byte,       \* its bytes; 0 from its length on
    pending,    \* the request each task handles, or NoRequest
    answer      \* the answer each task gave last, or NoAnswer while it handles one

vars == <<len, byte, pending, answer>>

Objects == Files \cup Dirs
Index == 0..(MaxLen - 1)
Gone == -1
NoRequest == [op |-> "none"]
NoAnswer == [stat |-> "none"]
Live(o) == len[o] # Gone

Init ==
    /\ len = [o \in Objects |-> 0]
    /\ byte = [o \in Objects |-> [i \in Index |-> 0]]
    /\ pending = [t \in Tasks |-> NoRequest]
    /\ answer = [t \in Tasks |-> [stat |-> "OK"]]

Begin(t, r) ==
    /\ pending[t] = NoRequest
    /\ pending' = [pending EXCEPT ![t] = r]
    /\ answer' = [answer EXCEPT ![t] = NoAnswer]
    /\ UNCHANGED <<len, byte>>

Answer(t, a) ==
    /\ pending' = [pending EXCEPT ![t] = NoRequest]
    /\ answer' = [answer EXCEPT ![t] = a]

\* Task t handles a request of kind op for an object that is there.
Asks(t, op) == pending[t].op = op /\ Live(pending[t].obj)

\* All bytes from offset on, up to count or to the end of the file; EOF is
\* flagged exactly if the end is reached.
Read(t) ==
    LET r == pending[t]
        end == r.offset + r.count
        upto == IF end < len[r.obj] THEN end ELSE len[r.obj]
    IN  /\ Asks(t, "READ") /\ r.obj \in Files
        /\ Answer(t, [stat |-> "OK", eof |-> end >= len[r.obj],
                      data |-> IF r.offset >= upto THEN <<>>
                               ELSE [i \in 1..(upto - r.offset) |-> byte[r.obj][r.offset + i - 1]]])
        /\ UNCHANGED <<len, byte>>

Write(t) ==
    LET r == pending[t]
        end == r.offset + Len(r.data)
    IN  /\ Asks(t, "WRITE") /\ r.obj \in Files /\ r.honest
        /\ len' = [len EXCEPT ![r.obj] = IF end > @ THEN end ELSE @]
        /\ byte' = [byte EXCEPT ![r.obj] = [i \in Index |->
                IF i \in r.offset..(end - 1) THEN r.data[i - r.offset + 1] ELSE @[i]]]
        /\ Answer(t, [stat |-> "OK"])

SetSize(t) ==
    LET r == pending[t]
    IN  /\ Asks(t, "SETATTR") /\ r.obj \in Files /\ r.guard # "wrong"
        /\ r.size \in 0..MaxLen
        /\ len' = [len EXCEPT ![r.obj] = r.size]
        /\ byte' = [byte EXCEPT ![r.obj] = [i \in Index |-> IF i < r.size THEN @[i] ELSE 0]]
        /\ Answer(t, [stat |-> "OK"])

\* A SETATTR that asks for no size, or for the size of a directory.
SetNothing(t) ==
    LET r == pending[t]
    IN  /\ Asks(t, "SETATTR") /\ r.guard # "wrong"
        /\ r.obj \in Dirs \/ r.size = Keep
        /\ Answer(t, [stat |-> "OK"])
        /\ UNCHANGED <<len, byte>>

\* Request r may fail with stat now.
Fails(r, stat) ==
    \/ stat = "NOENT" /\ ~Live(r.obj)
    \/ stat = "ISDIR" /\ r.op = "READ" /\ r.obj \in Dirs
    \/ /\ stat = "INVAL" /\ r.op = "WRITE"
       /\ ~r.honest \/ r.obj \in Dirs \/ (Live(r.obj) /\ r.offset > len[r.obj])
    \/ stat = "NOT_SYNC" /\ r.op = "SETATTR" /\ r.guard = "wrong"

Fail(t, stat) ==
    /\ pending[t] # NoRequest /\ Fails(pending[t], stat)
    /\ Answer(t, [stat |-> stat])
    /\ UNCHANGED <<len, byte>>

\* Request r fails on arrival.
Refuse(t, r, stat) ==
    /\ pending[t] = NoRequest /\ Fails(r, stat)
    /\ Answer(t, [stat |-> stat])
    /\ UNCHANGED <<len, byte>>

Remove(o) ==
    /\ len' = [len EXCEPT ![o] = Gone]
    /\ byte' = [byte EXCEPT ![o] = [i \in Index |-> 0]]
    /\ UNCHANGED <<pending, answer>>

Next ==
    \/ \E t \in Tasks :
        \/ \E r \in Requests : Begin(t, r)
        \/ Read(t) \/ Write(t) \/ SetSize(t) \/ SetNothing(t)
        \/ \E stat \in {"NOENT", "ISDIR", "INVAL", "NOT_SYNC"} :
            Fail(t, stat) \/ \E r \in Requests : Refuse(t, r, stat)
    \/ \E o \in Objects : Remove(o)

Spec == Init /\ [][Next]_vars
=============================================================================
