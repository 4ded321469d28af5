------------------------------ MODULE MemFiles ------------------------------
(***************************************************************************)
(* The contents and attributes of MemFs (File::resize, read, write,        *)
(* Entry::set_attr) under the handlers of READ, WRITE and SETATTR, which   *)
(* ask for attributes in one call and act in another.                      *)
(*                                                                         *)
(* Kept of the attributes: size and used, and of the times ctime, which    *)
(* the guard of SETATTR is compared with.  MemFs sets it when an object is *)
(* created and never again, so the model has it as a constant of the       *)
(* object; mode is never changed, and owner and times are data.            *)
(***************************************************************************)
EXTENDS Integers, Sequences, FiniteSets

CONSTANTS
    Tasks,      \* tasks that handle requests
    Files,      \* files (their handles)
    Dirs,       \* directories
    Byte,       \* the bytes clients write; there are zeros besides
    MaxLen,     \* bound: the largest file clients make
    Usize,      \* 2^64: usize arithmetic is modulo Usize
    Huge,       \* a size no Vec can have (above isize::MAX)
    Keep,       \* set_size3::None
    Requests    \* the requests clients make

ASSUME FilesAssumption ==
    /\ Byte \subseteq Nat \ {0}
    /\ MaxLen \in Nat /\ Usize \in Nat /\ 2 * MaxLen < Usize
    /\ Huge \notin 0..MaxLen /\ Keep \notin 0..MaxLen /\ Huge # Keep
    /\ Files \cap Dirs = {}

VARIABLES
    entries,    \* the objects that exist
    task,       \* the tasks
    poisoned    \* the lock of MemFs is poisoned

vars == <<entries, task, poisoned>>

Objects == Files \cup Dirs
Data == UNION {[1..n -> Byte] : n \in 0..MaxLen}
Content == UNION {[1..n -> Byte \cup {0}] : n \in 0..MaxLen}
File == [content : Content, size : 0..MaxLen, used : 0..MaxLen]
Min2(a, b) == IF a < b THEN a ELSE b

\* guard: whether the SETATTR has none, one that equals the object's ctime,
\* or another.  count: the count field of a WRITE may contradict its data.
Request ==
    [op : {"READ"}, obj : Objects, offset : (0..MaxLen) \cup {Usize - 1}, count : 0..MaxLen]
    \cup [op : {"WRITE"}, obj : Objects, offset : 0..MaxLen, data : Data, honest : BOOLEAN]
    \cup [op : {"SETATTR"}, obj : Objects, size : (0..MaxLen) \cup {Keep, Huge},
          guard : {"none", "right", "wrong"}]

\* The sizes stay within the bound.
ASSUME RequestsAssumption ==
    /\ Requests \subseteq Request
    /\ \A r \in Requests : r.op = "WRITE" => r.offset + Len(r.data) <= MaxLen

Stats == {"OK", "NOENT", "ISDIR", "INVAL", "NOT_SYNC"}

Idle(answer) == [pc |-> "idle", answer |-> answer]
Busy(r) == [pc |-> "busy", req |-> r]

\* No file outgrows the bound, in contents or attributes, and every answer is
\* one the handlers give.
TypeOK ==
    /\ \A i \in DOMAIN entries : i \in Objects /\ (i \in Files => entries[i] \in File)
    /\ poisoned \in BOOLEAN
    /\ DOMAIN task = Tasks
    /\ \A t \in Tasks :
        \/ task[t].pc = "idle" /\ task[t].answer.stat \in Stats
        \/ task[t].pc \in {"busy", "dead"} /\ task[t].req \in Requests

-----------------------------------------------------------------------------
(* File.                                                                   *)

NewFile == [content |-> <<>>, size |-> 0, used |-> 0]

\* used is accumulated.
Resize_Adds(file, size) ==
    [content |-> [i \in 1..size |-> IF i <= Len(file.content) THEN file.content[i] ELSE 0],
     size |-> size, used |-> file.used + size]

Resize(file, size) ==
    [content |-> [i \in 1..size |-> IF i <= Len(file.content) THEN file.content[i] ELSE 0],
     size |-> size, used |-> size]

\* File::read in a release build: start + count wraps around (with overflow
\* checks it panics).  A start behind the end of the range is a panic.
EndOf(offset, count) == (offset + count) % Usize
ReadPanics(file, offset, count) ==
    Min2(offset, Len(file.content)) > Min2(EndOf(offset, count), Len(file.content))

\* The end counts as reached only by a read that goes past it.
ReadFile_EofPast(file, offset, count) ==
    LET end == EndOf(offset, count)
        size == Len(file.content)
    IN  [stat |-> "OK", eof |-> end > size,
         data |-> SubSeq(file.content, Min2(offset, size) + 1, Min2(end, size))]

ReadFile(file, offset, count) ==
    LET end == EndOf(offset, count)
        size == Len(file.content)
    IN  [stat |-> "OK", eof |-> end >= size,
         data |-> SubSeq(file.content, Min2(offset, size) + 1, Min2(end, size))]

\* File::write within the file, or from its end on.
WriteFile(file, offset, data) ==
    LET end == offset + Len(data)
        f == IF end > Len(file.content) THEN Resize(file, end) ELSE file
    IN  [f EXCEPT !.content = [i \in DOMAIN @ |->
            IF i \in (offset + 1)..end THEN data[i - offset] ELSE @[i]]]

-----------------------------------------------------------------------------
(* The handlers.                                                           *)

Init ==
    /\ entries = [o \in Objects |-> IF o \in Files THEN NewFile ELSE "dir"]
    /\ task = [t \in Tasks |-> Idle([stat |-> "OK"])]
    /\ poisoned = FALSE

Reply(t, answer) == task' = [task EXCEPT ![t] = Idle(answer)]

\* A handler panics: its task is gone and there is no answer.
Die(t) == task' = [task EXCEPT ![t] = [pc |-> "dead", req |-> @.req]]

\* The handler up to its call of read, write or setattr.  WRITE looks at its
\* arguments first; the attributes that READ and WRITE ask for are only passed
\* on; SETATTR needs the object, and its guard is compared with the ctime of
\* now.  None of the three may find the lock poisoned.
Call(t, r) ==
    /\ task[t].pc = "idle"
    /\ ~poisoned
    /\ CASE r.op = "WRITE" /\ ~r.honest -> Reply(t, [stat |-> "INVAL"])
         [] r.op = "SETATTR" /\ r.obj \notin DOMAIN entries -> Reply(t, [stat |-> "NOENT"])
         [] r.op = "SETATTR" /\ r.obj \in DOMAIN entries /\ r.guard = "wrong" ->
                Reply(t, [stat |-> "NOT_SYNC"])
         [] OTHER -> task' = [task EXCEPT ![t] = Busy(r)]
    /\ UNCHANGED <<entries, poisoned>>

Runs(t, op) == task[t].pc = "busy" /\ task[t].req.op = op

\* The lock of MemFs cannot be taken any more.
PanicOnLock(t) ==
    /\ task[t].pc = "busy" /\ poisoned
    /\ Die(t)
    /\ UNCHANGED <<entries, poisoned>>

\* fs.get(id) fails: somebody has removed the object since.
Missing(t) ==
    /\ task[t].pc = "busy" /\ ~poisoned
    /\ task[t].req.obj \notin DOMAIN entries
    /\ Reply(t, [stat |-> "NOENT"])
    /\ UNCHANGED <<entries, poisoned>>

ReadStep(t) ==
    LET r == task[t].req IN
    /\ Runs(t, "READ") /\ ~poisoned /\ r.obj \in DOMAIN entries
    /\ IF r.obj \in Dirs THEN Reply(t, [stat |-> "ISDIR"])
       ELSE IF ReadPanics(entries[r.obj], r.offset, r.count) THEN Die(t)
       ELSE Reply(t, ReadFile(entries[r.obj], r.offset, r.count))
    /\ UNCHANGED <<entries, poisoned>>

WriteStep(t) ==
    LET r == task[t].req IN
    /\ Runs(t, "WRITE") /\ ~poisoned /\ r.obj \in DOMAIN entries
    /\ IF r.obj \in Dirs \/ r.offset > Len(entries[r.obj].content)
       THEN Reply(t, [stat |-> "INVAL"]) /\ UNCHANGED entries
       ELSE /\ entries' = [entries EXCEPT ![r.obj] = WriteFile(@, r.offset, r.data)]
            /\ Reply(t, [stat |-> "OK"])
    /\ UNCHANGED poisoned

\* Entry::set_attr: the size of a directory is left alone without a word; a
\* Vec that cannot be that long panics under the write lock.
SetAttrStep(t) ==
    LET r == task[t].req IN
    /\ Runs(t, "SETATTR") /\ ~poisoned /\ r.obj \in DOMAIN entries
    /\ IF r.obj \in Dirs \/ r.size = Keep
       THEN Reply(t, [stat |-> "OK"]) /\ UNCHANGED <<entries, poisoned>>
       ELSE IF r.size = Huge
       THEN Die(t) /\ poisoned' = TRUE /\ UNCHANGED entries
       ELSE /\ entries' = [entries EXCEPT ![r.obj] = Resize(@, r.size)]
            /\ Reply(t, [stat |-> "OK"])
            /\ UNCHANGED poisoned

\* Another request removes an object.
Remove(o) ==
    /\ o \in DOMAIN entries /\ ~poisoned
    /\ entries' = [i \in DOMAIN entries \ {o} |-> entries[i]]
    /\ UNCHANGED <<task, poisoned>>

Next ==
    \/ \E t \in Tasks :
        \/ \E r \in Requests : Call(t, r)
        \/ Missing(t) \/ PanicOnLock(t)
        \/ ReadStep(t) \/ WriteStep(t) \/ SetAttrStep(t)
    \/ \E o \in Objects : Remove(o)

Spec == Init /\ [][Next]_vars

-----------------------------------------------------------------------------
(* The files as arrays of bytes: the attribute is their length.            *)

Length ==
    [o \in Objects |-> IF o \notin DOMAIN entries THEN -1
                       ELSE IF o \in Files THEN entries[o].size ELSE 0]

Bytes ==
    [o \in Objects |-> [i \in 0..(MaxLen - 1) |->
        IF o \in Files \cap DOMAIN entries /\ i < Len(entries[o].content)
        THEN entries[o].content[i + 1] ELSE 0]]

Pending ==
    [t \in Tasks |-> IF task[t].pc = "idle" THEN [op |-> "none"] ELSE task[t].req]

Answers ==
    [t \in Tasks |-> IF task[t].pc = "idle" THEN task[t].answer ELSE [stat |-> "none"]]

Contents ==
    INSTANCE ByteFile WITH len <- Length, byte <- Bytes, pending <- Pending, answer <- Answers

\* Concurrent requests answer and change what they would, one after the other, on
\* an array of bytes whose length is the size attribute: a READ returns exactly
\* the bytes it asks for that are there, with EOF flagged exactly when it reaches
\* the end; a WRITE answered OK has put its data where it asked, and nothing
\* else; what a SETATTR has cut off is zero when the file grows again; and a
\* request fails only for the reason its status gives and changes nothing, where
\* a WRITE that starts past the end counts as invalid.
ImplementsByteFile == Contents!Spec
=============================================================================
