--------------------------- MODULE MemFilesProofs ---------------------------
(***************************************************************************)
(* Proofs about MemFiles, for any number of tasks, files and directories,  *)
(* any bytes, any bound on the size of files and any requests within it:   *)
(* the type invariant, and that every step of the handlers is a step of    *)
(* ByteFile or none.                                                       *)
(***************************************************************************)
EXTENDS MemFiles, SequenceTheorems, TLAPS

-----------------------------------------------------------------------------
(* The inductive invariant.                                                *)

\* The size attribute of a file is the length of its contents.
Sound(file) == file \in File /\ Len(file.content) = file.size

EntriesOK ==
    /\ entries = [o \in DOMAIN entries |-> entries[o]] /\ DOMAIN entries \subseteq Objects
    /\ \A f \in Files \cap DOMAIN entries : Sound(entries[f])

\* The checks that a handler makes before it calls the file system.
Checked(r) ==
    /\ r \in Requests
    /\ r.op = "WRITE" => r.honest
    /\ r.op = "SETATTR" => r.guard # "wrong"

TaskOK(k) ==
    \/ k.pc = "idle" /\ k.answer.stat \in Stats
    \/ k.pc \in {"busy", "dead"} /\ Checked(k.req)

TasksOK == task = [t \in Tasks |-> task[t]] /\ \A t \in Tasks : TaskOK(task[t])

IInv == EntriesOK /\ TasksOK /\ poisoned \in BOOLEAN

-----------------------------------------------------------------------------
(* Contents as sequences.                                                  *)

Values == Byte \cup {0}

\* A sequence of n values.
LEMMA ContentIs ==
    ASSUME NEW s
    PROVE  s \in Content <=> s \in Seq(Values) /\ Len(s) \in 0..MaxLen
<1>1. MaxLen \in Nat
    BY FilesAssumption
<1>2. ASSUME s \in Content PROVE s \in Seq(Values) /\ Len(s) \in 0..MaxLen
  <2>1. PICK n \in 0..MaxLen : s \in [1..n -> Values]
    BY <1>2 DEF Content, Values
  <2>2. s \in Seq(Values) /\ Len(s) = n
    BY <1>1, <2>1
  <2> QED
    BY <2>2
<1>3. ASSUME s \in Seq(Values), Len(s) \in 0..MaxLen PROVE s \in Content
  <2>1. s \in [1..Len(s) -> Values]
    BY <1>3, LenProperties
  <2> QED
    BY <1>3, <2>1 DEF Content, Values
<1> QED
    BY <1>2, <1>3

\* What is built value by value.
LEMMA BuiltContent ==
    ASSUME NEW n \in 0..MaxLen, NEW s, s \in [1..n -> Values]
    PROVE  s \in Content /\ Len(s) = n
<1>1. MaxLen \in Nat /\ n \in Nat
    BY FilesAssumption
<1>2. s \in Seq(Values) /\ Len(s) = n
    BY <1>1
<1> QED
    BY <1>2, ContentIs

\* File::resize keeps the beginning and fills up with zeros.
LEMMA ResizeSound ==
    ASSUME NEW file, Sound(file), NEW size \in 0..MaxLen
    PROVE  /\ Sound(Resize(file, size)) /\ Resize(file, size).size = size
           /\ \A i \in 1..size : Resize(file, size).content[i] =
                IF i <= Len(file.content) THEN file.content[i] ELSE 0
<1> DEFINE old == file.content
           s == [i \in 1..size |-> IF i <= Len(old) THEN old[i] ELSE 0]
<1>1. old \in Seq(Values) /\ Len(old) \in Nat /\ size \in Nat
    BY ContentIs, FilesAssumption DEF Sound, File
<1>2. \A i \in 1..Len(old) : old[i] \in Values
    BY <1>1, LenProperties
<1> HIDE DEF old
<1>3. s \in [1..size -> Values]
    BY <1>1, <1>2 DEF Values
<1>4. s \in Content /\ Len(s) = size
    BY <1>3, BuiltContent
<1>5. Resize(file, size) = [content |-> s, size |-> size, used |-> size]
    BY DEF Resize, old
<1>6. \A i \in 1..size : s[i] = IF i <= Len(old) THEN old[i] ELSE 0
    OBVIOUS
<1> HIDE DEF s
<1> QED
    BY <1>4, <1>5, <1>6 DEF Sound, File, old

\* File::write puts its data in place, and the file grows to hold it.
LEMMA WriteSound ==
    ASSUME NEW file, Sound(file), NEW offset \in 0..Len(file.content), NEW data \in Data,
           offset + Len(data) <= MaxLen
    PROVE  LET new == WriteFile(file, offset, data)
               end == offset + Len(data)
           IN  /\ Sound(new)
               /\ new.size = IF end > file.size THEN end ELSE file.size
               /\ \A i \in 1..new.size : new.content[i] =
                    IF i \in (offset + 1)..end THEN data[i - offset] ELSE file.content[i]
<1> DEFINE old == file.content
           end == offset + Len(data)
           f == IF end > Len(old) THEN Resize(file, end) ELSE file
           s == [i \in DOMAIN f.content |->
                    IF i \in (offset + 1)..end THEN data[i - offset] ELSE f.content[i]]
           new == WriteFile(file, offset, data)
<1>1. /\ old \in Seq(Values) /\ Len(old) \in Nat /\ MaxLen \in Nat /\ offset \in Nat
      /\ Len(old) = file.size /\ file \in File
    BY ContentIs, FilesAssumption DEF Sound, File
<1>2. Len(data) \in Nat /\ \A i \in 1..Len(data) : data[i] \in Values
  <2>1. PICK n \in 0..MaxLen : data \in [1..n -> Byte]
    BY DEF Data
  <2>2. data \in Seq(Byte) /\ Len(data) = n
    BY <1>1, <2>1
  <2> QED
    BY <1>1, <2>1, <2>2 DEF Values
<1>3. end \in 0..MaxLen /\ end >= offset
    BY <1>1, <1>2
<1> HIDE DEF end
<1>4. /\ Sound(f) /\ f.size = IF end > Len(old) THEN end ELSE Len(old)
      /\ \A i \in 1..f.size : f.content[i] = IF i <= Len(old) THEN old[i] ELSE 0
  <2>1. CASE end > Len(old)
    BY <1>3, <2>1, ResizeSound
  <2>2. CASE ~(end > Len(old))
    BY <1>1, <2>2
  <2> QED
    BY <2>1, <2>2
<1>5. new = [f EXCEPT !.content = s]
    BY DEF WriteFile, end
<1> HIDE DEF f
<1>6. f \in File /\ f.content \in Seq(Values) /\ Len(f.content) = f.size /\ f.size \in 0..MaxLen
    BY <1>4, ContentIs DEF Sound, File
<1>7. DOMAIN f.content = 1..f.size /\ \A i \in 1..f.size : f.content[i] \in Values
    BY <1>6, LenProperties
<1>8. s \in [1..f.size -> Values]
  <2>1. \A i \in 1..f.size : i \in (offset + 1)..end => i - offset \in 1..Len(data)
    BY <1>1, <1>2 DEF end
  <2> QED
    BY <1>2, <1>7, <2>1
<1>9. s \in Content /\ Len(s) = f.size
    BY <1>6, <1>8, BuiltContent
<1>10. ASSUME NEW i \in 1..f.size
       PROVE  s[i] = IF i \in (offset + 1)..end THEN data[i - offset] ELSE old[i]
    BY <1>1, <1>3, <1>4, <1>7, <1>10
<1> HIDE DEF s
<1>11. new.content = s /\ new.size = f.size /\ new \in File
    BY <1>5, <1>6, <1>9 DEF File
<1>12. Sound(new) /\ new.size = IF end > file.size THEN end ELSE file.size
    BY <1>1, <1>4, <1>9, <1>11 DEF Sound
<1> HIDE DEF new
<1>13. \A i \in 1..new.size : new.content[i] =
            IF i \in (offset + 1)..end THEN data[i - offset] ELSE file.content[i]
    BY <1>10, <1>11
<1> QED
    BY <1>12, <1>13 DEF end, new

\* start + count, which wraps around only for the largest start.
LEMMA EndOfIs ==
    ASSUME NEW offset \in (0..MaxLen) \cup {Usize - 1}, NEW count \in 0..MaxLen
    PROVE  EndOf(offset, count) = IF offset = Usize - 1 /\ count > 0 THEN count - 1
                                                                      ELSE offset + count
<1>1. MaxLen \in Nat /\ Usize \in Nat /\ 2 * MaxLen < Usize
    BY FilesAssumption
<1>2. \A k \in Nat : k < Usize => k % Usize = k /\ (Usize + k) % Usize = k
    BY <1>1
<1>3. CASE offset = Usize - 1 /\ count > 0
  <2>1. offset + count = Usize + (count - 1) /\ count - 1 \in Nat /\ count - 1 < Usize
    BY <1>1, <1>3
  <2> QED
    BY <1>2, <1>3, <2>1 DEF EndOf
<1>4. CASE ~(offset = Usize - 1 /\ count > 0)
  <2>1. offset + count \in Nat /\ offset + count < Usize
    BY <1>1, <1>4
  <2> QED
    BY <1>2, <1>4, <2>1 DEF EndOf
<1> QED
    BY <1>3, <1>4

\* File::read, when it does not panic, returns the bytes that are there and flags
\* EOF when there are no more, the wrapped end included.
LEMMA ReadIs ==
    ASSUME NEW file, Sound(file), NEW offset \in (0..MaxLen) \cup {Usize - 1},
           NEW count \in 0..MaxLen, ~ReadPanics(file, offset, count)
    PROVE  LET upto == IF offset + count < file.size THEN offset + count ELSE file.size IN
           ReadFile(file, offset, count) =
                [stat |-> "OK", eof |-> offset + count >= file.size,
                 data |-> IF offset >= upto THEN <<>>
                          ELSE [i \in 1..(upto - offset) |-> file.content[offset + i]]]
<1> DEFINE s == file.content
           n == file.size
           end == EndOf(offset, count)
           upto == IF offset + count < n THEN offset + count ELSE n
           lo == Min2(offset, n) + 1
           hi == Min2(end, n)
           bytes == [i \in 1..(upto - offset) |-> s[offset + i]]
<1>1. /\ s \in Seq(Values) /\ Len(s) = n /\ n \in 0..MaxLen
      /\ MaxLen \in Nat /\ Usize \in Nat /\ 2 * MaxLen < Usize
    BY ContentIs, FilesAssumption DEF Sound, File
<1>2. end = IF offset = Usize - 1 /\ count > 0 THEN count - 1 ELSE offset + count
    BY EndOfIs
<1>3. ReadFile(file, offset, count) =
        [stat |-> "OK", eof |-> end >= n, data |-> SubSeq(s, lo, hi)]
    BY <1>1 DEF ReadFile
<1>4. lo <= hi + 1
    BY <1>1, <1>2 DEF ReadPanics, Min2
<1> HIDE DEF s, n, end
<1>5. (end >= n) = (offset + count >= n)
    BY <1>1, <1>2, <1>4 DEF Min2
<1>6. CASE offset >= upto
  <2>1. hi < lo /\ lo \in Int /\ hi \in Int
    BY <1>1, <1>2, <1>4, <1>6 DEF Min2
  <2>2. SubSeq(s, lo, hi) = <<>>
    <3> HIDE DEF lo, hi
    <3> QED
      BY <2>1, SubSeqEmpty
  <2> HIDE DEF lo, hi, upto
  <2> QED
    BY <1>3, <1>5, <1>6, <2>2 DEF s, n, upto
<1>7. CASE ~(offset >= upto)
  <2>1. lo = offset + 1 /\ hi = upto /\ upto <= n /\ offset \in Nat /\ upto \in Nat /\ offset < upto
    BY <1>1, <1>2, <1>4, <1>7 DEF Min2
  <2> HIDE DEF lo, hi, upto
  <2>2. \A i \in lo..hi : s[i] \in Values
    BY <1>1, <2>1, LenProperties
  <2> DEFINE q == SubSeq(s, lo, hi)
  <2>3. /\ q \in Seq(Values) /\ Len(q) = upto - offset
        /\ \A i \in 1..(upto - offset) : q[i] = s[offset + i]
    <3>1. lo \in Int /\ hi \in Int /\ lo <= hi
      BY <2>1
    <3>2. /\ q \in Seq(Values) /\ Len(q) = hi - lo + 1
          /\ \A i \in 1..(hi - lo + 1) : q[i] = s[lo + i - 1]
      BY <2>2, <3>1, SubSeqProperties
    <3> HIDE DEF q
    <3>3. hi - lo + 1 = upto - offset /\ \A i \in 1..(upto - offset) : lo + i - 1 = offset + i
      BY <2>1
    <3> QED
      BY <3>2, <3>3
  <2> HIDE DEF q
  <2>4. q = bytes
    <3>1. q \in [1..(upto - offset) -> Values]
      BY <2>3, LenProperties
    <3> QED
      BY <2>3, <3>1
  <2> HIDE DEF bytes
  <2>5. ReadFile(file, offset, count) =
            [stat |-> "OK", eof |-> offset + count >= n,
             data |-> IF offset >= upto THEN <<>> ELSE bytes]
    BY <1>3, <1>5, <1>7, <2>4 DEF q
  <2> QED
    BY <2>5 DEF s, n, upto, bytes
<1> QED
    BY <1>6, <1>7

-----------------------------------------------------------------------------
(* Requests and tasks.                                                     *)

\* What the fields of a request are.
LEMMA RequestFields ==
    ASSUME NEW r \in Requests
    PROVE  /\ r.obj \in Objects /\ r.op \in {"READ", "WRITE", "SETATTR"}
           /\ r.op = "READ" =>
                r.offset \in (0..MaxLen) \cup {Usize - 1} /\ r.count \in 0..MaxLen
           /\ r.op = "WRITE" => /\ r.offset \in 0..MaxLen /\ r.data \in Data
                                /\ r.offset + Len(r.data) <= MaxLen
           /\ r.op = "SETATTR" => r.size \in (0..MaxLen) \cup {Keep, Huge}
<1>1. r \in Request /\ (r.op = "WRITE" => r.offset + Len(r.data) <= MaxLen)
    BY RequestsAssumption
<1>2. CASE r \in [op : {"READ"}, obj : Objects, offset : (0..MaxLen) \cup {Usize - 1},
                  count : 0..MaxLen]
    BY <1>2
<1>3. CASE r \in [op : {"WRITE"}, obj : Objects, offset : 0..MaxLen, data : Data,
                  honest : BOOLEAN]
    BY <1>1, <1>3
<1>4. CASE r \in [op : {"SETATTR"}, obj : Objects, size : (0..MaxLen) \cup {Keep, Huge},
                  guard : {"none", "right", "wrong"}]
    BY <1>4
<1> QED
    BY <1>1, <1>2, <1>3, <1>4 DEF Request

\* A task that answers,
LEMMA ReplyTasks ==
    ASSUME TasksOK, NEW t \in Tasks, NEW a, a.stat \in Stats, Reply(t, a)
    PROVE  TasksOK' /\ Contents!Answer(t, a)
<1>1. /\ task' = [u \in Tasks |-> IF u = t THEN Idle(a) ELSE task[u]]
      /\ Idle(a).pc = "idle" /\ Idle(a).answer = a
    BY DEF TasksOK, Reply, Idle
<1> HIDE DEF Idle
<1>2. TasksOK'
    BY <1>1 DEF TasksOK, TaskOK
<1>3. Answers' = [Answers EXCEPT ![t] = a]
    BY <1>1 DEF Answers
<1>4. Pending' = [Pending EXCEPT ![t] = [op |-> "none"]]
    BY <1>1 DEF Pending
<1> QED
    BY <1>2, <1>3, <1>4 DEF Contents!Answer, Contents!NoRequest

\* begins,
LEMMA BeginTasks ==
    ASSUME TasksOK, NEW t \in Tasks, NEW r, Checked(r), task' = [task EXCEPT ![t] = Busy(r)]
    PROVE  /\ TasksOK' /\ Answers' = [Answers EXCEPT ![t] = [stat |-> "none"]]
           /\ Pending' = [Pending EXCEPT ![t] = r]
<1>1. /\ task' = [u \in Tasks |-> IF u = t THEN Busy(r) ELSE task[u]]
      /\ Busy(r).pc = "busy" /\ Busy(r).req = r
    BY DEF TasksOK, Busy
<1> HIDE DEF Busy
<1>2. TasksOK'
    BY <1>1 DEF TasksOK, TaskOK
<1>3. Answers' = [Answers EXCEPT ![t] = [stat |-> "none"]]
    BY <1>1 DEF Answers
<1>4. Pending' = [Pending EXCEPT ![t] = r]
    BY <1>1 DEF Pending
<1> QED
    BY <1>2, <1>3, <1>4

\* or panics, which nobody is told: its request stays unanswered.
LEMMA DieTasks ==
    ASSUME TasksOK, NEW t \in Tasks, task[t].pc = "busy", Die(t)
    PROVE  TasksOK' /\ Answers' = Answers /\ Pending' = Pending
<1> DEFINE k == [pc |-> "dead", req |-> task[t].req]
<1>1. /\ task' = [u \in Tasks |-> IF u = t THEN k ELSE task[u]] /\ k.pc = "dead"
      /\ k.req = task[t].req
    BY DEF TasksOK, Die
<1>2. Checked(k.req)
    BY DEF TasksOK, TaskOK
<1> HIDE DEF k
<1>3. TasksOK'
    BY <1>1, <1>2 DEF TasksOK, TaskOK
<1>4. Answers' = Answers
    BY <1>1 DEF Answers
<1>5. Pending' = Pending
    BY <1>1 DEF Pending
<1> QED
    BY <1>3, <1>4, <1>5

\* A task that is busy has no answer, and a request that passed the checks.
LEMMA BusyTask ==
    ASSUME TasksOK, NEW t \in Tasks, task[t].pc = "busy"
    PROVE  /\ Checked(task[t].req) /\ task[t].req \in Requests
           /\ Pending[t] = task[t].req /\ Pending[t] # Contents!NoRequest
<1>1. Checked(task[t].req) /\ task[t].req \in Requests /\ Pending[t] = task[t].req
    BY DEF TasksOK, TaskOK, Checked, Pending
<1>2. task[t].req.op # "none"
    BY <1>1, RequestFields
<1> QED
    BY <1>1, <1>2 DEF Contents!NoRequest

-----------------------------------------------------------------------------
(* A change of a file, concrete and abstract.                              *)

\* Replacing a sound file by another.
LEMMA FileReplaced ==
    ASSUME EntriesOK, NEW f \in Files \cap DOMAIN entries, NEW new, Sound(new),
           entries' = [entries EXCEPT ![f] = new]
    PROVE  /\ EntriesOK'
           /\ Length' = [Length EXCEPT ![f] = new.size]
           /\ Bytes' = [Bytes EXCEPT ![f] = [i \in 0..(MaxLen - 1) |->
                            IF i < new.size THEN new.content[i + 1] ELSE 0]]
<1>1. entries' = [o \in DOMAIN entries |-> IF o = f THEN new ELSE entries[o]]
    BY DEF EntriesOK
<1>2. DOMAIN entries' = DOMAIN entries /\ f \in Objects /\ f \in Files
    BY <1>1 DEF Objects
<1>3. EntriesOK'
    BY <1>1, <1>2 DEF EntriesOK
<1>4. Length' = [Length EXCEPT ![f] = new.size]
  <2>1. ASSUME NEW o \in Objects
        PROVE  (IF o \notin DOMAIN entries' THEN -1
                ELSE IF o \in Files THEN entries'[o].size ELSE 0)
               = IF o = f THEN new.size ELSE Length[o]
    BY <1>1, <1>2 DEF Length
  <2> QED
    BY <1>2, <2>1 DEF Length
<1>5. Bytes' = [Bytes EXCEPT ![f] = [i \in 0..(MaxLen - 1) |->
                            IF i < new.size THEN new.content[i + 1] ELSE 0]]
  <2> DEFINE b == [i \in 0..(MaxLen - 1) |-> IF i < new.size THEN new.content[i + 1] ELSE 0]
             c == [o \in Objects |-> [i \in 0..(MaxLen - 1) |->
                    IF o \in Files \cap DOMAIN entries' /\ i < Len(entries'[o].content)
                    THEN entries'[o].content[i + 1] ELSE 0]]
  <2>1. ASSUME NEW o \in Objects PROVE c[o] = IF o = f THEN b ELSE Bytes[o]
    <3>1. CASE o = f
      <4>1. o \in Files \cap DOMAIN entries' /\ entries'[o] = new /\ Len(new.content) = new.size
        BY <1>1, <1>2, <3>1 DEF Sound
      <4> QED
        BY <3>1, <4>1
    <3>2. CASE o # f
      <4>1. o \in DOMAIN entries => entries'[o] = entries[o]
        BY <1>1, <3>2
      <4>2. Bytes[o] = [i \in 0..(MaxLen - 1) |->
                    IF o \in Files \cap DOMAIN entries /\ i < Len(entries[o].content)
                    THEN entries[o].content[i + 1] ELSE 0]
        BY DEF Bytes
      <4>3. c[o] = Bytes[o]
        BY <1>2, <4>1, <4>2
      <4> QED
        BY <3>2, <4>3
    <3> QED
      BY <3>1, <3>2
  <2>2. Bytes' = c
    BY DEF Bytes
  <2>3. Bytes = [o \in Objects |-> Bytes[o]] /\ c = [o \in Objects |-> c[o]]
    BY DEF Bytes
  <2> HIDE DEF b, c
  <2>4. c = [Bytes EXCEPT ![f] = b]
    BY <1>2, <2>1, <2>3
  <2> QED
    BY <2>2, <2>4 DEF b
<1> QED
    BY <1>3, <1>4, <1>5

\* What the abstract state says of a file.
LEMMA FileSeen ==
    ASSUME EntriesOK, NEW f \in Files \cap DOMAIN entries
    PROVE  /\ f \in Objects /\ Length[f] = entries[f].size /\ Length[f] \in 0..MaxLen
           /\ Len(entries[f].content) = entries[f].size
           /\ Bytes[f] = [i \in 0..(MaxLen - 1) |->
                IF i < entries[f].size THEN entries[f].content[i + 1] ELSE 0]
<1>1. f \in Objects /\ Sound(entries[f])
    BY DEF Objects, EntriesOK
<1>2. Len(entries[f].content) = entries[f].size
    BY <1>1 DEF Sound
<1>3. Bytes[f] = [i \in 0..(MaxLen - 1) |->
                IF f \in Files \cap DOMAIN entries /\ i < Len(entries[f].content)
                THEN entries[f].content[i + 1] ELSE 0]
    BY <1>1 DEF Bytes
<1> QED
    BY <1>1, <1>2, <1>3 DEF Length, Sound, File

\* A step that leaves the objects alone.
LEMMA Untouched ==
    ASSUME EntriesOK, UNCHANGED entries
    PROVE  EntriesOK' /\ UNCHANGED <<Length, Bytes>>
BY DEF EntriesOK, Length, Bytes

\* An object of ByteFile is alive as long as there is an entry.
LEMMA LiveIs ==
    ASSUME EntriesOK, NEW o \in Objects
    PROVE  Contents!Live(o) <=> o \in DOMAIN entries
<1>1. CASE o \in Files \cap DOMAIN entries
  <2>1. Length[o] \in 0..MaxLen /\ MaxLen \in Nat
    BY <1>1, FileSeen, FilesAssumption
  <2> QED
    BY <1>1, <2>1 DEF Contents!Live, Contents!Gone
<1>2. CASE o \in DOMAIN entries /\ o \notin Files
    BY <1>2 DEF Length, Contents!Live, Contents!Gone
<1>3. CASE o \notin DOMAIN entries
    BY <1>3 DEF Length, Contents!Live, Contents!Gone
<1> QED
    BY <1>1, <1>2, <1>3

Failures == {"NOENT", "ISDIR", "INVAL", "NOT_SYNC"}

\* A request fails while it is handled,
LEMMA FailSim ==
    ASSUME IInv, NEW t \in Tasks, NEW stat \in Failures, task[t].pc = "busy",
           Reply(t, [stat |-> stat]), UNCHANGED <<entries, poisoned>>,
           Contents!Fails(task[t].req, stat)
    PROVE  IInv' /\ Contents!Next
<1>1. TasksOK' /\ Contents!Answer(t, [stat |-> stat])
    BY ReplyTasks DEF IInv, Failures, Stats
<1>2. EntriesOK' /\ UNCHANGED <<Length, Bytes>>
    BY Untouched DEF IInv
<1>3. Pending[t] = task[t].req /\ Pending[t] # Contents!NoRequest
    BY BusyTask DEF IInv
<1>4. Contents!Fail(t, stat)
    BY <1>1, <1>2, <1>3 DEF Contents!Fail
<1> QED
    BY <1>1, <1>2, <1>4 DEF IInv, Contents!Next, Failures

\* or on arrival.
LEMMA RefuseSim ==
    ASSUME IInv, NEW t \in Tasks, NEW stat \in Failures, NEW r \in Requests,
           task[t].pc = "idle", Reply(t, [stat |-> stat]), UNCHANGED <<entries, poisoned>>,
           Contents!Fails(r, stat)
    PROVE  IInv' /\ Contents!Next
<1>1. TasksOK' /\ Contents!Answer(t, [stat |-> stat])
    BY ReplyTasks DEF IInv, Failures, Stats
<1>2. EntriesOK' /\ UNCHANGED <<Length, Bytes>>
    BY Untouched DEF IInv
<1>3. Pending[t] = Contents!NoRequest
    BY DEF Pending, Contents!NoRequest
<1>4. Contents!Refuse(t, r, stat)
    BY <1>1, <1>2, <1>3 DEF Contents!Refuse
<1> QED
    BY <1>1, <1>2, <1>4 DEF IInv, Contents!Next, Failures

\* A handler begins, or fails its checks before it reaches the file system: in
\* ByteFile the request begins, or is refused.
LEMMA CallSim ==
    ASSUME IInv, NEW t \in Tasks, NEW r \in Requests, Call(t, r)
    PROVE  IInv' /\ Contents!Next
<1>1. UNCHANGED <<entries, poisoned>> /\ task[t].pc = "idle" /\ r.obj \in Objects
    BY RequestFields DEF Call
<1>2. ASSUME task' = [task EXCEPT ![t] = Busy(r)], Checked(r) PROVE IInv' /\ Contents!Next
  <2>1. /\ TasksOK' /\ Answers' = [Answers EXCEPT ![t] = [stat |-> "none"]]
        /\ Pending' = [Pending EXCEPT ![t] = r]
    BY <1>2, BeginTasks DEF IInv
  <2>2. EntriesOK' /\ UNCHANGED <<Length, Bytes>>
    BY <1>1, Untouched DEF IInv
  <2>3. Pending[t] = Contents!NoRequest
    BY <1>1 DEF Pending, Contents!NoRequest
  <2>4. Contents!Begin(t, r)
    BY <2>1, <2>2, <2>3 DEF Contents!Begin, Contents!NoAnswer
  <2> QED
    BY <1>1, <2>1, <2>2, <2>4 DEF IInv, Contents!Next
<1>3. CASE r.op = "WRITE" /\ ~r.honest
  <2>1. Reply(t, [stat |-> "INVAL"])
    BY <1>3 DEF Call
  <2>2. Contents!Fails(r, "INVAL")
    BY <1>3 DEF Contents!Fails
  <2> QED
    BY <1>1, <2>1, <2>2, RefuseSim DEF Failures
<1>4. CASE r.op = "SETATTR" /\ r.obj \notin DOMAIN entries
  <2>1. Reply(t, [stat |-> "NOENT"])
    BY <1>4 DEF Call
  <2>2. Contents!Fails(r, "NOENT")
    BY <1>1, <1>4, LiveIs DEF IInv, Contents!Fails
  <2> QED
    BY <1>1, <2>1, <2>2, RefuseSim DEF Failures
<1>5. CASE r.op = "SETATTR" /\ r.obj \in DOMAIN entries /\ r.guard = "wrong"
  <2>1. Reply(t, [stat |-> "NOT_SYNC"])
    BY <1>5 DEF Call
  <2>2. Contents!Fails(r, "NOT_SYNC")
    BY <1>5 DEF Contents!Fails
  <2> QED
    BY <1>1, <2>1, <2>2, RefuseSim DEF Failures
<1>6. CASE /\ ~(r.op = "WRITE" /\ ~r.honest)
           /\ ~(r.op = "SETATTR" /\ (r.obj \notin DOMAIN entries \/ r.guard = "wrong"))
  <2>1. task' = [task EXCEPT ![t] = Busy(r)]
    BY <1>6 DEF Call
  <2>2. Checked(r)
    BY <1>6 DEF Checked
  <2> QED
    BY <1>2, <2>1, <2>2
<1> QED
    BY <1>3, <1>4, <1>5, <1>6

\* A task that dies changes nothing that anybody sees.
LEMMA DieSim ==
    ASSUME IInv, NEW t \in Tasks, task[t].pc = "busy", Die(t), UNCHANGED entries,
           poisoned' \in BOOLEAN
    PROVE  IInv' /\ UNCHANGED Contents!vars
BY DieTasks, Untouched DEF IInv, Contents!vars

\* READ takes its bytes under one lock, a read of ByteFile, or panics, a stutter.
LEMMA ReadSim ==
    ASSUME IInv, NEW t \in Tasks, ReadStep(t)
    PROVE  IInv' /\ (Contents!Next \/ UNCHANGED Contents!vars)
<1> DEFINE r == task[t].req
           f == r.obj
           offset == r.offset
           count == r.count
           file == entries[f]
<1>1. /\ task[t].pc = "busy" /\ r.op = "READ" /\ f \in DOMAIN entries
      /\ UNCHANGED <<entries, poisoned>>
    BY DEF ReadStep, Runs
<1>2. /\ r \in Requests /\ Checked(r) /\ Pending[t] = r /\ poisoned \in BOOLEAN
    BY <1>1, BusyTask DEF IInv
<1>3. f \in Objects /\ offset \in (0..MaxLen) \cup {Usize - 1} /\ count \in 0..MaxLen
    BY <1>1, <1>2, RequestFields
<1>4. CASE f \in Dirs
  <2>1. Reply(t, [stat |-> "ISDIR"])
    BY <1>4 DEF ReadStep
  <2>2. Contents!Fails(r, "ISDIR")
    BY <1>1, <1>4 DEF Contents!Fails
  <2> QED
    BY <1>1, <2>1, <2>2, FailSim DEF Failures
<1>5. CASE f \notin Dirs /\ ReadPanics(file, offset, count)
    BY <1>1, <1>2, <1>5, DieSim DEF ReadStep
<1>6. CASE f \notin Dirs /\ ~ReadPanics(file, offset, count)
  <2> DEFINE n == file.size
             upto == IF offset + count < n THEN offset + count ELSE n
             a == [stat |-> "OK", eof |-> offset + count >= n,
                   data |-> IF offset >= upto THEN <<>>
                            ELSE [i \in 1..(upto - offset) |-> file.content[offset + i]]]
             b == [stat |-> "OK", eof |-> offset + count >= n,
                   data |-> IF offset >= upto THEN <<>>
                            ELSE [i \in 1..(upto - offset) |-> Bytes[f][offset + i - 1]]]
  <2>1. f \in Files \cap DOMAIN entries /\ Sound(file)
    BY <1>1, <1>3, <1>6 DEF Objects, IInv, EntriesOK
  <2>2. Reply(t, ReadFile(file, offset, count))
    BY <1>6 DEF ReadStep
  <2>3. ReadFile(file, offset, count) = a
    BY <1>3, <1>6, <2>1, ReadIs
  <2>4. /\ Length[f] = n /\ n \in 0..MaxLen
        /\ Bytes[f] = [i \in 0..(MaxLen - 1) |-> IF i < n THEN file.content[i + 1] ELSE 0]
    BY <2>1, FileSeen DEF IInv
  <2>5. MaxLen \in Nat /\ Usize \in Nat /\ 2 * MaxLen < Usize
    BY FilesAssumption
  <2>6. a = b
    <3>1. CASE offset >= upto
      BY <3>1
    <3>2. CASE ~(offset >= upto)
      <4>0. n \in 0..MaxLen
        BY <2>4
      <4> HIDE DEF f, file, n, offset, count
      <4>1. offset \in Nat /\ upto \in Nat /\ upto <= n
        BY <1>3, <2>5, <3>2, <4>0
      <4> HIDE DEF upto
      <4>2. \A i \in 1..(upto - offset) : Bytes[f][offset + i - 1] = file.content[offset + i]
        BY <2>4, <2>5, <4>1
      <4> QED
        BY <4>2
    <3> QED
      BY <3>1, <3>2
  <2> HIDE DEF a, b
  <2>7. a.stat \in Stats
    BY DEF a, Stats
  <2>8. TasksOK' /\ Contents!Answer(t, b)
    BY <2>2, <2>3, <2>6, <2>7, ReplyTasks DEF IInv
  <2>9. EntriesOK' /\ UNCHANGED <<Length, Bytes>>
    BY <1>1, Untouched DEF IInv
  <2>10. Contents!Asks(t, "READ")
    BY <1>1, <1>2, <1>3, LiveIs DEF IInv, Contents!Asks
  <2>11. Contents!Read(t)
    BY <1>2, <2>1, <2>4, <2>8, <2>9, <2>10 DEF Contents!Read, b
  <2>12. Contents!Next
    BY <2>11 DEF Contents!Next
  <2> QED
    BY <1>1, <1>2, <2>8, <2>9, <2>12 DEF IInv
<1> QED
    BY <1>4, <1>5, <1>6

\* WRITE resizes and copies under one lock, or is refused with nothing changed.
LEMMA WriteSim ==
    ASSUME IInv, NEW t \in Tasks, WriteStep(t)
    PROVE  IInv' /\ Contents!Next
<1> DEFINE r == task[t].req
           f == r.obj
           offset == r.offset
           data == r.data
           file == entries[f]
<1>1. task[t].pc = "busy" /\ r.op = "WRITE" /\ f \in DOMAIN entries /\ UNCHANGED poisoned
    BY DEF WriteStep, Runs
<1>2. /\ r \in Requests /\ Checked(r) /\ Pending[t] = r /\ poisoned \in BOOLEAN
    BY <1>1, BusyTask DEF IInv
<1>3. /\ f \in Objects /\ offset \in 0..MaxLen /\ data \in Data
      /\ offset + Len(data) <= MaxLen
    BY <1>1, <1>2, RequestFields
<1>4. CASE f \in Dirs \/ offset > Len(file.content)
  <2>1. Reply(t, [stat |-> "INVAL"]) /\ UNCHANGED entries
    BY <1>4 DEF WriteStep
  <2>2. Contents!Live(f)
    BY <1>1, <1>3, LiveIs DEF IInv
  <2>3. f \notin Dirs => Length[f] = Len(file.content)
    <3>1. f \notin Dirs => f \in Files \cap DOMAIN entries
      BY <1>1, <1>3 DEF Objects
    <3> QED
      BY <3>1, FileSeen DEF IInv
  <2>4. Contents!Fails(r, "INVAL")
    BY <1>1, <1>4, <2>2, <2>3 DEF Contents!Fails
  <2> QED
    BY <1>1, <2>1, <2>4, FailSim DEF Failures
<1>5. CASE ~(f \in Dirs \/ offset > Len(file.content))
  <2> DEFINE new == WriteFile(file, offset, data)
             end == offset + Len(data)
             n == file.size
  <2>1. f \in Files \cap DOMAIN entries /\ Sound(file) /\ MaxLen \in Nat
    BY <1>1, <1>3, <1>5, FilesAssumption DEF Objects, IInv, EntriesOK
  <2>2. entries' = [entries EXCEPT ![f] = new] /\ Reply(t, [stat |-> "OK"])
    BY <1>5 DEF WriteStep
  <2>3. /\ Length[f] = n /\ n \in 0..MaxLen /\ Len(file.content) = n
        /\ Bytes[f] = [i \in 0..(MaxLen - 1) |-> IF i < n THEN file.content[i + 1] ELSE 0]
    BY <2>1, FileSeen DEF IInv
  <2>4. Len(data) \in Nat
    <3>1. PICK k \in 0..MaxLen : data \in [1..k -> Byte]
      BY <1>3 DEF Data
    <3> HIDE DEF data
    <3>2. data \in Seq(Byte)
      BY <2>1, <3>1
    <3> QED
      BY <3>2, LenProperties
  <2>5. offset \in 0..Len(file.content)
    BY <1>3, <1>5, <2>3
  <2>6. /\ Sound(new) /\ new.size = IF end > n THEN end ELSE n
        /\ \A i \in 1..new.size : new.content[i] =
            IF i \in (offset + 1)..end THEN data[i - offset] ELSE file.content[i]
    BY <1>3, <2>1, <2>5, WriteSound
  <2> DEFINE old == Bytes[f]
             b == [i \in 0..(MaxLen - 1) |-> IF i < new.size THEN new.content[i + 1] ELSE 0]
             c == [i \in 0..(MaxLen - 1) |->
                    IF i \in offset..(end - 1) THEN data[i - offset + 1] ELSE old[i]]
  <2>7. EntriesOK' /\ Length' = [Length EXCEPT ![f] = new.size] /\ Bytes' = [Bytes EXCEPT ![f] = b]
    BY <2>1, <2>2, <2>6, FileReplaced DEF IInv
  <2>8. TasksOK' /\ Contents!Answer(t, [stat |-> "OK"])
    BY <2>2, ReplyTasks DEF IInv, Stats
  <2>9. b = c
    <3>1. offset \in Nat /\ end \in Nat /\ end >= offset /\ n \in Nat /\ end <= MaxLen
      BY <1>3, <2>1, <2>3, <2>4
    <3>2. \A i \in 0..(MaxLen - 1) : old[i] = IF i < n THEN file.content[i + 1] ELSE 0
      BY <2>3
    <3>3. offset <= n
      BY <2>3, <2>5
    <3> HIDE DEF f, file, n, offset, data, end, new, old
    <3>4. ASSUME NEW i \in 0..(MaxLen - 1) PROVE b[i] = c[i]
      <4>1. CASE i \in offset..(end - 1)
        <5>1. i + 1 \in 1..new.size /\ i + 1 \in (offset + 1)..end
              /\ (i + 1) - offset = i - offset + 1 /\ i < new.size
          BY <2>6, <3>1, <4>1
        <5>2. new.content[i + 1] = data[i - offset + 1]
          BY <2>6, <5>1
        <5> QED
          BY <4>1, <5>1, <5>2
      <4>2. CASE i \notin offset..(end - 1) /\ i < new.size
        <5>1. i + 1 \in 1..new.size /\ i + 1 \notin (offset + 1)..end /\ i < n
          BY <2>6, <3>1, <3>3, <4>2
        <5>2. new.content[i + 1] = file.content[i + 1]
          BY <2>6, <5>1
        <5> QED
          BY <3>2, <4>2, <5>1, <5>2
      <4>3. CASE i \notin offset..(end - 1) /\ ~(i < new.size)
        <5>1. ~(i < n)
          BY <2>6, <3>1, <4>3
        <5> QED
          BY <3>2, <4>3, <5>1
      <4> QED
        BY <4>1, <4>2, <4>3
    <3> QED
      BY <3>4
  <2>10. Contents!Asks(t, "WRITE") /\ r.honest
    BY <1>1, <1>2, <1>3, LiveIs DEF IInv, Contents!Asks, Checked
  <2>11. Contents!Write(t)
    BY <1>2, <2>1, <2>3, <2>6, <2>7, <2>8, <2>9, <2>10 DEF Contents!Write, Contents!Index
  <2>12. Contents!Next
    BY <2>11 DEF Contents!Next
  <2> QED
    BY <1>1, <1>2, <2>7, <2>8, <2>12 DEF IInv
<1> QED
    BY <1>4, <1>5

\* SETATTR cuts or fills with zeros under one lock, a change of size, or panics, a stutter.
LEMMA SetAttrSim ==
    ASSUME IInv, NEW t \in Tasks, SetAttrStep(t)
    PROVE  IInv' /\ (Contents!Next \/ UNCHANGED Contents!vars)
<1> DEFINE r == task[t].req
           f == r.obj
           size == r.size
           file == entries[f]
<1>1. task[t].pc = "busy" /\ r.op = "SETATTR" /\ f \in DOMAIN entries
    BY DEF SetAttrStep, Runs
<1>2. /\ r \in Requests /\ Checked(r) /\ Pending[t] = r /\ poisoned \in BOOLEAN
    BY <1>1, BusyTask DEF IInv
<1>3. f \in Objects /\ size \in (0..MaxLen) \cup {Keep, Huge}
    BY <1>1, <1>2, RequestFields
<1>4. CASE f \in Dirs \/ size = Keep
  <2>1. Reply(t, [stat |-> "OK"]) /\ UNCHANGED <<entries, poisoned>>
    BY <1>4 DEF SetAttrStep
  <2>2. TasksOK' /\ Contents!Answer(t, [stat |-> "OK"])
    BY <2>1, ReplyTasks DEF IInv, Stats
  <2>3. EntriesOK' /\ UNCHANGED <<Length, Bytes>>
    BY <2>1, Untouched DEF IInv
  <2>4. Contents!Asks(t, "SETATTR") /\ r.guard # "wrong"
    BY <1>1, <1>2, <1>3, LiveIs DEF IInv, Contents!Asks, Checked
  <2>5. Contents!SetNothing(t)
    BY <1>2, <1>4, <2>2, <2>3, <2>4 DEF Contents!SetNothing
  <2> QED
    BY <1>2, <2>1, <2>2, <2>3, <2>5 DEF IInv, Contents!Next
<1>5. CASE ~(f \in Dirs \/ size = Keep) /\ size = Huge
  <2>1. Die(t) /\ poisoned' = TRUE /\ UNCHANGED entries
    BY <1>5 DEF SetAttrStep
  <2> QED
    BY <1>1, <2>1, DieSim
<1>6. CASE ~(f \in Dirs \/ size = Keep) /\ size # Huge
  <2> DEFINE new == Resize(file, size)
             n == file.size
  <2>1. f \in Files \cap DOMAIN entries /\ Sound(file) /\ MaxLen \in Nat /\ size \in 0..MaxLen
    BY <1>1, <1>3, <1>6, FilesAssumption DEF Objects, IInv, EntriesOK
  <2>2. entries' = [entries EXCEPT ![f] = new] /\ Reply(t, [stat |-> "OK"]) /\ UNCHANGED poisoned
    BY <1>6 DEF SetAttrStep
  <2>3. /\ Length[f] = n /\ n \in 0..MaxLen /\ Len(file.content) = n
        /\ Bytes[f] = [i \in 0..(MaxLen - 1) |-> IF i < n THEN file.content[i + 1] ELSE 0]
    BY <2>1, FileSeen DEF IInv
  <2>4. /\ Sound(new) /\ new.size = size
        /\ \A i \in 1..size : new.content[i] = IF i <= n THEN file.content[i] ELSE 0
    <3>1. /\ Sound(new) /\ new.size = size
          /\ \A i \in 1..size : new.content[i] =
                IF i <= Len(file.content) THEN file.content[i] ELSE 0
      BY <2>1, ResizeSound
    <3>2. Len(file.content) = n
      BY <2>3
    <3> HIDE DEF f, file, n, size, new
    <3> QED
      BY <3>1, <3>2
  <2> DEFINE old == Bytes[f]
             b == [i \in 0..(MaxLen - 1) |-> IF i < new.size THEN new.content[i + 1] ELSE 0]
             c == [i \in 0..(MaxLen - 1) |-> IF i < size THEN old[i] ELSE 0]
  <2>5. EntriesOK' /\ Length' = [Length EXCEPT ![f] = new.size] /\ Bytes' = [Bytes EXCEPT ![f] = b]
    BY <2>1, <2>2, <2>4, FileReplaced DEF IInv
  <2>6. TasksOK' /\ Contents!Answer(t, [stat |-> "OK"])
    BY <2>2, ReplyTasks DEF IInv, Stats
  <2>7. b = c
    <3>1. \A i \in 0..(MaxLen - 1) : old[i] = IF i < n THEN file.content[i + 1] ELSE 0
      BY <2>3
    <3>2. n \in Nat /\ size \in Nat
      BY <2>1, <2>3
    <3> HIDE DEF f, file, n, size, new, old
    <3>3. ASSUME NEW i \in 0..(MaxLen - 1) PROVE b[i] = c[i]
      <4>1. i < size => i + 1 \in 1..size /\ (i + 1 <= n <=> i < n)
        BY <3>2
      <4>2. CASE i < size
        <5>1. new.content[i + 1] = IF i + 1 <= n THEN file.content[i + 1] ELSE 0
          BY <2>4, <4>1, <4>2
        <5>2. b[i] = new.content[i + 1] /\ c[i] = old[i]
          BY <2>4, <4>2
        <5> QED
          BY <3>1, <4>1, <4>2, <5>1, <5>2
      <4>3. CASE ~(i < size)
        BY <2>4, <4>3
      <4> QED
        BY <4>2, <4>3
    <3> QED
      BY <3>3
  <2>8. Contents!Asks(t, "SETATTR") /\ r.guard # "wrong"
    BY <1>1, <1>2, <1>3, LiveIs DEF IInv, Contents!Asks, Checked
  <2>9. Contents!SetSize(t)
    BY <1>2, <2>1, <2>4, <2>5, <2>6, <2>7, <2>8 DEF Contents!SetSize, Contents!Index
  <2>10. Contents!Next
    BY <2>9 DEF Contents!Next
  <2> QED
    BY <1>2, <2>2, <2>5, <2>6, <2>10 DEF IInv
<1> QED
    BY <1>4, <1>5, <1>6

\* Another request removes the object: the file of ByteFile is gone.
LEMMA RemoveSim ==
    ASSUME IInv, NEW o \in Objects, Remove(o)
    PROVE  IInv' /\ Contents!Next
<1>1. /\ entries' = [i \in DOMAIN entries \ {o} |-> entries[i]] /\ UNCHANGED <<task, poisoned>>
      /\ DOMAIN entries' = DOMAIN entries \ {o}
    BY DEF Remove
<1>2. EntriesOK' /\ TasksOK' /\ UNCHANGED <<Answers, Pending>>
    BY <1>1 DEF IInv, EntriesOK, TasksOK, Answers, Pending
<1>3. Length' = [Length EXCEPT ![o] = -1]
  <2>1. ASSUME NEW p \in Objects
        PROVE  (IF p \notin DOMAIN entries' THEN -1
                ELSE IF p \in Files THEN entries'[p].size ELSE 0)
               = IF p = o THEN -1 ELSE Length[p]
    BY <1>1 DEF Length
  <2> QED
    BY <2>1 DEF Length
<1>4. Bytes' = [Bytes EXCEPT ![o] = [i \in 0..(MaxLen - 1) |-> 0]]
  <2> DEFINE b == [i \in 0..(MaxLen - 1) |-> 0]
             c == [p \in Objects |-> [i \in 0..(MaxLen - 1) |->
                    IF p \in Files \cap DOMAIN entries' /\ i < Len(entries'[p].content)
                    THEN entries'[p].content[i + 1] ELSE 0]]
  <2>1. ASSUME NEW p \in Objects PROVE c[p] = IF p = o THEN b ELSE Bytes[p]
    <3>1. CASE p = o
      BY <1>1, <3>1
    <3>2. CASE p # o
      <4>1. p \in DOMAIN entries => entries'[p] = entries[p] /\ p \in DOMAIN entries'
        BY <1>1, <3>2
      <4>2. Bytes[p] = [i \in 0..(MaxLen - 1) |->
                    IF p \in Files \cap DOMAIN entries /\ i < Len(entries[p].content)
                    THEN entries[p].content[i + 1] ELSE 0]
        BY DEF Bytes
      <4>3. c[p] = Bytes[p]
        BY <1>1, <4>1, <4>2
      <4> QED
        BY <3>2, <4>3
    <3> QED
      BY <3>1, <3>2
  <2>2. Bytes' = c
    BY DEF Bytes
  <2>3. Bytes = [p \in Objects |-> Bytes[p]] /\ c = [p \in Objects |-> c[p]]
    BY DEF Bytes
  <2> HIDE DEF b, c
  <2>4. c = [Bytes EXCEPT ![o] = b]
    BY <2>1, <2>3
  <2> QED
    BY <2>2, <2>4 DEF b
<1>5. Contents!Remove(o)
    BY <1>2, <1>3, <1>4 DEF Contents!Remove, Contents!Gone, Contents!Index
<1> QED
    BY <1>1, <1>2, <1>5 DEF IInv, Contents!Next, Contents!Objects, Objects

-----------------------------------------------------------------------------
(* The theorems.                                                           *)

\* Empty files and idle tasks.
LEMMA InitSim ==
    ASSUME Init
    PROVE  IInv /\ Contents!Init
<1>1. /\ entries = [o \in Objects |-> IF o \in Files THEN NewFile ELSE "dir"]
      /\ task = [t \in Tasks |-> Idle([stat |-> "OK"])] /\ poisoned = FALSE
    BY DEF Init
<1>2. MaxLen \in Nat
    BY FilesAssumption
<1>3. NewFile.content = <<>> /\ NewFile.size = 0 /\ Len(<<>>) = 0 /\ Sound(NewFile)
  <2>1. <<>> \in Content
    <3>1. <<>> \in Seq(Values)
      BY EmptySeq
    <3>2. Len(<<>>) \in 0..MaxLen
      BY <1>2
    <3> QED
      BY <3>1, <3>2, ContentIs
  <2> QED
    BY <1>2, <2>1 DEF NewFile, Sound, File
<1>4. \A f \in Files : f \in Objects
    BY DEF Objects
<1>5. EntriesOK
    BY <1>1, <1>3, <1>4 DEF EntriesOK
<1>6. /\ TasksOK /\ Answers = [t \in Tasks |-> [stat |-> "OK"]]
      /\ Pending = [t \in Tasks |-> [op |-> "none"]]
    BY <1>1 DEF TasksOK, TaskOK, Idle, Stats, Answers, Pending
<1>7. Length = [o \in Objects |-> 0]
    BY <1>1, <1>3 DEF Length
<1>8. Bytes = [o \in Objects |-> [i \in 0..(MaxLen - 1) |-> 0]]
  <2>1. ASSUME NEW o \in Objects, NEW i \in 0..(MaxLen - 1)
        PROVE  (IF o \in Files \cap DOMAIN entries /\ i < Len(entries[o].content)
                THEN entries[o].content[i + 1] ELSE 0) = 0
    BY <1>1, <1>3, <2>1
  <2> QED
    BY <2>1 DEF Bytes
<1> QED
    BY <1>1, <1>5, <1>6, <1>7, <1>8
    DEF IInv, Contents!Init, Contents!Index, Contents!Objects, Objects, Contents!NoRequest

\* Every step of the handlers is a step of ByteFile, or changes nothing there.
LEMMA NextSim ==
    ASSUME IInv, [Next]_vars
    PROVE  IInv' /\ [Contents!Next]_(Contents!vars)
<1>1. ASSUME NEW t \in Tasks, Missing(t) PROVE IInv' /\ Contents!Next
  <2>1. /\ task[t].pc = "busy" /\ task[t].req.obj \notin DOMAIN entries
        /\ Reply(t, [stat |-> "NOENT"]) /\ UNCHANGED <<entries, poisoned>>
    BY <1>1 DEF Missing
  <2>2. task[t].req.obj \in Objects
    BY <2>1, BusyTask, RequestFields DEF IInv
  <2>3. Contents!Fails(task[t].req, "NOENT")
    BY <2>1, <2>2, LiveIs DEF IInv, Contents!Fails
  <2> QED
    BY <2>1, <2>3, FailSim DEF Failures
<1>2. ASSUME NEW t \in Tasks, PanicOnLock(t) PROVE IInv' /\ UNCHANGED Contents!vars
    BY <1>2, DieSim DEF PanicOnLock, IInv
<1>3. CASE UNCHANGED vars
  <2>1. UNCHANGED <<entries, task, poisoned>>
    BY <1>3 DEF vars
  <2> QED
    BY <2>1, Untouched DEF IInv, TasksOK, Answers, Pending, Contents!vars
<1> QED
    BY <1>1, <1>2, <1>3, CallSim, ReadSim, WriteSim, SetAttrSim, RemoveSim DEF Next

\* The inductive invariant: the size attribute is the length of the contents.
THEOREM FilesInvariant == Spec => []IInv
<1>1. Init => IInv
    BY InitSim
<1>2. IInv /\ [Next]_vars => IInv'
    BY NextSim
<1> QED
    BY <1>1, <1>2, PTL DEF Spec

\* No file outgrows the bound, in contents or attributes, whatever two requests
\* do to it at once.
THEOREM FilesTypeOK == Spec => []TypeOK
<1>1. IInv => TypeOK
    BY DEF IInv, EntriesOK, Sound, TasksOK, TaskOK, Checked, TypeOK
<1> QED
    BY <1>1, FilesInvariant, PTL

\* READ, WRITE and SETATTR of concurrent requests, each in two steps, behave as
\* what their requests ask for, done at once to an array of bytes, for offsets,
\* counts and sizes up to any MaxLen (and the largest offset a READ can have).
THEOREM FilesImplementByteFile == Spec => ImplementsByteFile
<1>1. Init => IInv /\ Contents!Init
    BY InitSim
<1>2. IInv /\ [Next]_vars => IInv' /\ [Contents!Next]_(Contents!vars)
    BY NextSim
<1> QED
    BY <1>1, <1>2, PTL DEF Spec, ImplementsByteFile, Contents!Spec
============================================================================
