------------------------- MODULE NfsHandlersProofs -------------------------
(***************************************************************************)
(* The tree of MemFs stays a tree, however the handlers interleave.        *)
(***************************************************************************)
EXTENDS NfsHandlers, MemFsProofs

Running == {"statTo", "guard", "allocate", "ready"}

TaskType ==
    [pc : {"idle"}, stat : Stats]
    \cup [pc : Running, req : Request, id : Id \cup {NoParent}]

\* A task that has allocated an id and not yet used it.
Allocated(t) == task[t].pc = "ready" /\ task[t].req.op \in Creates

\* Where a task is says what it is doing.
TaskShape ==
    \A t \in Tasks :
        /\ task[t].pc = "statTo" => task[t].req.op = "RENAME"
        /\ task[t].pc \in {"guard", "allocate"} => task[t].req.op \in Creates

\* Nothing refers to an id before its entry is pushed, and no two tasks have
\* allocated the same one.
FreshIds ==
    /\ \A i \in Id : i >= nextid => Fresh(entries, i)
    /\ \A t \in Tasks : Allocated(t) =>
        task[t].id \in Id /\ task[t].id < nextid /\ Fresh(entries, task[t].id)
    /\ \A t, u \in Tasks : Allocated(t) /\ Allocated(u) /\ task[t].id = task[u].id => t = u

IInv == TypeOK /\ Safe(entries) /\ TaskShape /\ FreshIds

-----------------------------------------------------------------------------
\* The fields of a request, by operation.
LEMMA RequestFields ==
    ASSUME NEW r \in Request
    PROVE  /\ r.op \in Creates \cup {"REMOVE", "RENAME"}
           /\ r.dir \in Id
           /\ r.op # "RENAME" => r.name \in Names
           /\ r.op = "RENAME" => r.name \in SourceNames /\ r.to \in Id /\ r.toname \in Names
           /\ r.op = "EXCLUSIVE" => r.verf \in Verfs
  BY DEF Request, Creates

\* A task is idle, or runs a request.
LEMMA TaskKinds ==
    ASSUME TypeOK, NEW t \in Tasks
    PROVE  /\ task[t] \in TaskType
           /\ task[t].pc \in Running \cup {"idle"}
           /\ task[t].pc \in Running =>
                task[t].req \in Request /\ task[t].id \in Id \cup {NoParent}
  BY DEF TypeOK, TaskType, Running

\* The fields of a task that runs a request.
LEMMA BusyFields ==
    ASSUME NEW pc \in Running, NEW r \in Request, NEW i \in Id \cup {NoParent}
    PROVE  /\ Busy(pc, r, i) \in TaskType
           /\ Busy(pc, r, i).pc = pc
           /\ Busy(pc, r, i).req = r
           /\ Busy(pc, r, i).id = i
  BY DEF Busy, TaskType, Running

\* The fields of an idle task.
LEMMA IdleFields ==
    ASSUME NEW stat \in Stats
    PROVE  Idle(stat) \in TaskType /\ Idle(stat).pc = "idle"
  BY DEF Idle, TaskType

\* A step of task t that does not touch the tree and does not allocate.
LEMMA QuietIInv ==
    ASSUME IInv, NEW t \in Tasks, NEW v \in TaskType,
           task' = [task EXCEPT ![t] = v], UNCHANGED <<entries, nextid>>,
           v.pc = "ready" => v.req.op \notin Creates,
           v.pc = "statTo" => v.req.op = "RENAME",
           v.pc \in {"guard", "allocate"} => v.req.op \in Creates
    PROVE  IInv'
  <1>1. task \in [Tasks -> TaskType]
    BY DEF IInv, TypeOK, TaskType, Running
  <1>2. task'[t] = v /\ \A u \in Tasks : u # t => task'[u] = task[u]
    BY <1>1
  <1>3. TypeOK'
    BY <1>1 DEF IInv, TypeOK, TaskType, Running
  <1>4. TaskShape'
    BY <1>2 DEF IInv, TaskShape
  <1>5. \A u \in Tasks : Allocated(u)' => u # t /\ Allocated(u) /\ task'[u] = task[u]
    BY <1>2 DEF Allocated
  <1>6. FreshIds'
    <2>1. \A i \in Id : i >= nextid' => Fresh(entries', i)
      BY DEF IInv, FreshIds
    <2>2. \A u \in Tasks : Allocated(u)' =>
            task'[u].id \in Id /\ task'[u].id < nextid' /\ Fresh(entries', task'[u].id)
      BY <1>5 DEF IInv, FreshIds
    <2>3. \A u, w \in Tasks :
            Allocated(u)' /\ Allocated(w)' /\ task'[u].id = task'[w].id => u = w
      BY <1>5 DEF IInv, FreshIds
    <2> QED BY <2>1, <2>2, <2>3 DEF FreshIds
  <1>7. Safe(entries)'
    BY DEF IInv
  <1> QED BY <1>3, <1>4, <1>6, <1>7 DEF IInv

\* The last step of task t: it changes the tree and answers.
LEMMA ReplyIInv ==
    ASSUME IInv, NEW t \in Tasks, NEW stat \in Stats, Reply(t, stat), nextid' = nextid,
           Safe(entries'),
           \A i : Fresh(entries, i) /\ ~(Allocated(t) /\ i = task[t].id) => Fresh(entries', i)
    PROVE  IInv'
  <1>1. task \in [Tasks -> TaskType]
    BY DEF IInv, TypeOK, TaskType, Running
  <1>2. /\ task' \in [Tasks -> TaskType]
        /\ task'[t].pc = "idle"
        /\ \A u \in Tasks : u # t => task'[u] = task[u]
    BY <1>1, IdleFields DEF Reply
  <1>3. TypeOK'
    BY <1>2 DEF IInv, TypeOK, TaskType, Running, Safe
  <1>4. TaskShape'
    BY <1>2 DEF IInv, TaskShape
  <1>5. \A u \in Tasks : Allocated(u)' => u # t /\ Allocated(u) /\ task'[u] = task[u]
    BY <1>2 DEF Allocated
  <1>6. FreshIds'
    <2>1. ASSUME NEW i \in Id, i >= nextid'
          PROVE  Fresh(entries', i)
      <3>1. Fresh(entries, i)
        BY <2>1 DEF IInv, FreshIds
      <3>2. Allocated(t) => task[t].id \in Id /\ task[t].id < nextid
        BY DEF IInv, FreshIds
      <3>3. nextid \in Int /\ Id \subseteq Int
        BY MemFsAssumption DEF IInv, TypeOK, Id
      <3>4. Allocated(t) => i # task[t].id
        BY <2>1, <3>2, <3>3
      <3> QED BY <3>1, <3>4
    <2>2. ASSUME NEW u \in Tasks, Allocated(u)'
          PROVE  task'[u].id \in Id /\ task'[u].id < nextid' /\ Fresh(entries', task'[u].id)
      <3>1. /\ u # t /\ Allocated(u) /\ task'[u].id = task[u].id
            /\ task[u].id \in Id /\ task[u].id < nextid /\ Fresh(entries, task[u].id)
        BY <1>5, <2>2 DEF IInv, FreshIds
      <3>2. Allocated(t) => task[u].id # task[t].id
        BY <3>1 DEF IInv, FreshIds
      <3> QED BY <3>1, <3>2
    <2>3. \A u, w \in Tasks :
            Allocated(u)' /\ Allocated(w)' /\ task'[u].id = task'[w].id => u = w
      BY <1>5 DEF IInv, FreshIds
    <2> QED BY <2>1, <2>2, <2>3 DEF FreshIds
  <1> QED BY <1>3, <1>4, <1>6 DEF IInv

-----------------------------------------------------------------------------
\* The file system starts with an empty root and no request.
LEMMA InitIInv ==
    ASSUME Init
    PROVE  IInv
  <1>1. entries = NewFs /\ nextid = 2 /\ task = [t \in Tasks |-> Idle("OK")]
    BY DEF Init, Root
  <1>2. Root \in Id /\ NoParent \notin Id /\ \A i \in Id : i # NoParent /\ (i >= 2 => i # Root)
    BY MemFsAssumption DEF Root, Id, NoParent
  <1>3. /\ DOMAIN entries = {Root}
        /\ entries[Root] = NewDir("/", NoParent)
    BY <1>1 DEF NewFs
  <1>4. /\ entries[Root].type = "dir"
        /\ entries[Root].parent = NoParent
        /\ entries[Root].content = {}
        /\ entries[Root] \in Dir
    BY <1>3 DEF NewDir, Dir
  <1>5. Dirs(entries) = {Root}
    BY <1>3, <1>4 DEF Dirs
  <1>6. WellTyped(entries)
    BY <1>1, <1>2, <1>3, <1>4, <1>5 DEF WellTyped, NewFs
  <1>7. Safe(entries)
    BY <1>2, <1>3, <1>4, <1>5, <1>6
       DEF Safe, Acyclic, ParentsAreDirs, RootUnlisted, FilesListedOnce, FileNamesUnique
  <1>8. /\ task \in [Tasks -> TaskType]
        /\ \A t \in Tasks : task[t].pc = "idle"
    BY <1>1, IdleFields DEF Stats
  <1>9. TypeOK
    BY <1>1, <1>6, <1>8, MemFsAssumption DEF TypeOK, TaskType, Running
  <1>10. TaskShape /\ \A t \in Tasks : ~Allocated(t)
    BY <1>8 DEF TaskShape, Allocated
  <1>11. \A i \in Id : i >= nextid => Fresh(entries, i)
    BY <1>1, <1>2, <1>3, <1>4, <1>5 DEF Fresh
  <1> QED BY <1>7, <1>9, <1>10, <1>11 DEF IInv, FreshIds

\* The other steps that do not touch the tree.
LEMMA AllocateIInv ==
    ASSUME IInv, NEW t \in Tasks, Allocate(t)
    PROVE  IInv'
  <1>1. task \in [Tasks -> TaskType]
    BY DEF IInv, TypeOK, TaskType, Running
  <1>2. /\ task[t].pc = "allocate"
        /\ task[t].req \in Request /\ task[t].req.op \in Creates
    BY TaskKinds DEF IInv, TaskShape, Allocate, At, Running
  <1>3. /\ nextid \in Id /\ nextid' = nextid + 1 /\ nextid' \in 1..(MaxId + 1)
        /\ entries' = entries /\ Id \subseteq Int
    BY MemFsAssumption DEF IInv, TypeOK, Allocate, Id
  <1>4. PICK v : v = Busy("ready", task[t].req, nextid)
    OBVIOUS
  <1>5. /\ v \in TaskType /\ v.pc = "ready" /\ v.req.op \in Creates /\ v.id = nextid
    BY <1>2, <1>3, <1>4, BusyFields DEF Running
  <1>6. /\ task' \in [Tasks -> TaskType]
        /\ task'[t] = v
        /\ \A u \in Tasks : u # t => task'[u] = task[u]
    BY <1>1, <1>4, <1>5 DEF Allocate
  <1>7. TypeOK'
    BY <1>3, <1>6 DEF IInv, TypeOK, TaskType, Running
  <1>8. TaskShape'
    BY <1>5, <1>6 DEF IInv, TaskShape
  <1>9. \A u \in Tasks : u # t /\ Allocated(u)' => Allocated(u) /\ task'[u].id = task[u].id
    BY <1>6 DEF Allocated
  <1>10. \A u \in Tasks : Allocated(u) => task[u].id \in Id /\ task[u].id < nextid
    BY DEF IInv, FreshIds
  <1>11. FreshIds'
    <2>1. \A i \in Id : i >= nextid' => Fresh(entries', i)
      <3>1. \A i \in Id : i >= nextid' => i >= nextid
        BY <1>3
      <3> QED BY <1>3, <3>1 DEF IInv, FreshIds
    <2>2. ASSUME NEW u \in Tasks, Allocated(u)'
          PROVE  task'[u].id \in Id /\ task'[u].id < nextid' /\ Fresh(entries', task'[u].id)
      <3>1. CASE u = t
        <4>1. task'[u].id = nextid /\ nextid < nextid' /\ nextid >= nextid
          BY <1>3, <1>5, <1>6, <3>1
        <4> QED BY <1>3, <4>1 DEF IInv, FreshIds
      <3>2. CASE u # t
        <4>1. Allocated(u) /\ task'[u].id = task[u].id
          BY <1>9, <2>2, <3>2
        <4>2. task[u].id \in Id /\ task[u].id < nextid'
          BY <1>3, <1>10, <4>1
        <4>3. Fresh(entries, task[u].id)
          BY <4>1 DEF IInv, FreshIds
        <4> QED BY <1>3, <4>1, <4>2, <4>3
      <3> QED BY <3>1, <3>2
    <2>3. ASSUME NEW u \in Tasks, NEW w \in Tasks, Allocated(u)', Allocated(w)',
                 task'[u].id = task'[w].id
          PROVE  u = w
      <3>1. \A x \in Tasks : x # t /\ Allocated(x)' => task'[x].id # nextid
        BY <1>3, <1>9, <1>10
      <3>2. CASE u = t \/ w = t
        BY <1>5, <1>6, <2>3, <3>1, <3>2
      <3>3. CASE u # t /\ w # t
        BY <1>9, <2>3, <3>3 DEF IInv, FreshIds
      <3> QED BY <3>2, <3>3
    <2> QED BY <2>1, <2>2, <2>3 DEF FreshIds
  <1>12. Safe(entries')
    BY <1>3 DEF IInv
  <1> QED BY <1>7, <1>8, <1>11, <1>12 DEF IInv

\* A request arrives.
LEMMA CallIInv ==
    ASSUME IInv, NEW t \in Tasks, NEW r \in Request, Call(t, r)
    PROVE  IInv'
  <1>1. PICK pc : pc = CASE r.op = "RENAME"  -> "statTo"
                         [] r.op = "GUARDED" -> "guard"
                         [] r.op = "REMOVE"  -> "ready"
                         [] OTHER            -> "allocate"
    OBVIOUS
  <1>2. /\ pc \in Running
        /\ pc = "ready" => r.op \notin Creates
        /\ pc = "statTo" => r.op = "RENAME"
        /\ pc \in {"guard", "allocate"} => r.op \in Creates
    BY <1>1, RequestFields DEF Running, Creates
  <1>3. PICK v : v = Busy(pc, r, NoParent)
    OBVIOUS
  <1>4. v \in TaskType /\ v.pc = pc /\ v.req = r
    BY <1>2, <1>3, BusyFields
  <1>5. task' = [task EXCEPT ![t] = v] /\ UNCHANGED <<entries, nextid>>
    BY <1>1, <1>3 DEF Call
  <1> QED BY <1>2, <1>4, <1>5, QuietIInv

\* A request is answered without having changed anything.
LEMMA ReplyQuietIInv ==
    ASSUME IInv, NEW t \in Tasks, NEW stat \in Stats, Reply(t, stat),
           UNCHANGED <<entries, nextid>>
    PROVE  IInv'
  <1>1. PICK v : v = Idle(stat)
    OBVIOUS
  <1>2. v \in TaskType /\ v.pc = "idle"
    BY <1>1, IdleFields
  <1> QED BY <1>1, <1>2, QuietIInv DEF Reply

\* A handler makes its next call.
LEMMA GotoIInv ==
    ASSUME IInv, NEW t \in Tasks, task[t].pc \in Running, NEW pc \in Running,
           Goto(t, pc), UNCHANGED <<entries, nextid>>,
           pc = "ready" => task[t].req.op \notin Creates,
           pc = "statTo" => task[t].req.op = "RENAME",
           pc \in {"guard", "allocate"} => task[t].req.op \in Creates
    PROVE  IInv'
  <1>1. task \in [Tasks -> TaskType]
    BY DEF IInv, TypeOK, TaskType, Running
  <1>2. PICK v : v = Busy(pc, task[t].req, task[t].id)
    OBVIOUS
  <1>3. v \in TaskType /\ v.pc = pc /\ v.req = task[t].req
    BY <1>2, TaskKinds, BusyFields DEF IInv
  <1>4. task' = [task EXCEPT ![t] = v]
    BY <1>1, <1>2 DEF Goto
  <1> QED BY <1>3, <1>4, QuietIInv

\* nfsproc3_rename looks at the target directory first.
LEMMA StatToIInv ==
    ASSUME IInv, NEW t \in Tasks, StatTo(t)
    PROVE  IInv'
  <1>1. task[t].pc = "statTo" /\ task[t].req.op = "RENAME"
    BY DEF StatTo, At, IInv, TaskShape
  <1>2. UNCHANGED <<entries, nextid>> /\ (Goto(t, "ready") \/ Reply(t, "NOENT"))
    BY DEF StatTo
  <1>3. CASE Goto(t, "ready")
    BY <1>1, <1>2, <1>3, GotoIInv DEF Running, Creates
  <1>4. CASE Reply(t, "NOENT")
    BY <1>2, <1>4, ReplyQuietIInv DEF Stats
  <1> QED BY <1>2, <1>3, <1>4

\* A GUARDED CREATE looks the name up first.
LEMMA GuardIInv ==
    ASSUME IInv, NEW t \in Tasks, Guard(t)
    PROVE  IInv'
  <1>1. task[t].pc = "guard" /\ task[t].req.op \in Creates
    BY DEF Guard, At, IInv, TaskShape
  <1>2. UNCHANGED <<entries, nextid>> /\ (Goto(t, "allocate") \/ Reply(t, "EXIST"))
    BY DEF Guard
  <1>3. CASE Goto(t, "allocate")
    BY <1>1, <1>2, <1>3, GotoIInv DEF Running
  <1>4. CASE Reply(t, "EXIST")
    BY <1>2, <1>4, ReplyQuietIInv DEF Stats
  <1> QED BY <1>2, <1>3, <1>4

-----------------------------------------------------------------------------
\* A file or directory that the id of task t is pushed for.
Pushed(e, f, d, i, name, isdir) ==
    \/ f = e
    \/ /\ d \in Dirs(e) /\ Fresh(e, i) /\ WellTyped(f)
       /\ Added(e, f, d, i, name, isdir)
       /\ ~isdir => Matches(e, d, name) = {}

\* Fs::push succeeds only in a directory, with an id not in use.
LEMMA PushStatProperties ==
    ASSUME NEW e, WellTyped(e), NEW d, NEW i
    PROVE  /\ PushStat(e, d, i) \in Stats
           /\ PushStat(e, d, i) = "OK" => d \in Dirs(e) /\ i \notin DOMAIN e
  BY EntryKinds DEF PushStat, Stats, IsFile

\* MKDIR pushes a directory or changes nothing.
LEMMA AddDirPushes ==
    ASSUME IInv, NEW t \in Tasks, AddDir(t)
    PROVE  /\ Pushed(entries, entries', task[t].req.dir, task[t].id, task[t].req.name, TRUE)
           /\ \E stat \in Stats : Reply(t, stat)
           /\ nextid' = nextid
           /\ Allocated(t)
  <1>1. PICK e, r, i : e = entries /\ r = task[t].req /\ i = task[t].id
    OBVIOUS
  <1>2. task[t].pc = "ready" /\ r.op = "MKDIR"
    BY <1>1 DEF AddDir, At
  <1>3. /\ r \in Request /\ r.name \in Names
    BY <1>1, <1>2, TaskKinds, RequestFields DEF IInv, Running
  <1>4. Allocated(t) /\ i \in Id /\ Fresh(e, i) /\ Safe(e) /\ WellTyped(e)
    BY <1>1, <1>2 DEF Allocated, Creates, IInv, FreshIds, Safe
  <1>5. PICK stat : stat = PushStat(e, r.dir, i)
    OBVIOUS
  <1>6. /\ stat \in Stats
        /\ stat = "OK" => r.dir \in Dirs(e) /\ i \notin DOMAIN e
    BY <1>4, <1>5, PushStatProperties
  <1>7. /\ entries' = IF stat = "OK" THEN Push(e, r.dir, i, NewDir(r.name, r.dir)) ELSE e
        /\ Reply(t, stat)
        /\ nextid' = nextid
    BY <1>1, <1>5 DEF AddDir, PushReply
  <1>8. PICK f : f = Push(e, r.dir, i, NewDir(r.name, r.dir))
    OBVIOUS
  <1>9. stat = "OK" => WellTyped(f) /\ Added(e, f, r.dir, i, r.name, TRUE)
    BY <1>3, <1>4, <1>6, <1>8, PushProperties
  <1>10. Pushed(e, entries', r.dir, i, r.name, TRUE)
    BY <1>4, <1>6, <1>7, <1>8, <1>9 DEF Pushed
  <1> QED BY <1>1, <1>4, <1>6, <1>7, <1>10

\* CREATE pushes a file or changes nothing.
LEMMA AddFilePushes ==
    ASSUME IInv, NEW t \in Tasks, AddFile(t)
    PROVE  /\ Pushed(entries, entries', task[t].req.dir, task[t].id, task[t].req.name, FALSE)
           /\ \E stat \in Stats : Reply(t, stat)
           /\ nextid' = nextid
           /\ Allocated(t)
  <1>1. PICK e, r, i : e = entries /\ r = task[t].req /\ i = task[t].id
    OBVIOUS
  <1>2. task[t].pc = "ready" /\ r.op \in Creates \ {"MKDIR"}
    BY <1>1 DEF AddFile, At
  <1>3. r \in Request /\ r.name \in Names /\ (r.op = "EXCLUSIVE" => r.verf \in Verfs)
    BY <1>1, <1>2, TaskKinds, RequestFields DEF IInv, Running, Creates
  <1>4. Allocated(t) /\ i \in Id /\ Fresh(e, i) /\ Safe(e) /\ WellTyped(e)
    BY <1>1, <1>2 DEF Allocated, Creates, IInv, FreshIds, Safe
  <1>5. PICK verf : verf = IF r.op = "EXCLUSIVE" THEN r.verf ELSE NoVerf
    OBVIOUS
  <1>6. verf \in Verfs
    BY <1>3, <1>5, MemFsAssumption
  <1>7. PICK found \in Lookup(e, r.dir, r.name) :
            IF found.stat = "NOENT" THEN PushReply(t, NewFile(r.name, verf))
            ELSE entries' = e /\ (Reply(t, found.stat) \/ Reply(t, "OK") \/ Reply(t, "EXIST"))
    <2>1. PICK found \in Lookup(entries, task[t].req.dir, task[t].req.name) :
            IF found.stat = "NOENT" THEN PushReply(t, NewFile(r.name, verf))
            ELSE /\ Reply(t, IF found.stat # "OK" THEN found.stat
                     ELSE IF r.op = "EXCLUSIVE" /\ IsFile(entries, found.id)
                             /\ entries[found.id].verf = verf
                          THEN "OK" ELSE "EXIST")
                 /\ UNCHANGED entries
      BY <1>1, <1>5 DEF AddFile
    <2>2. entries' = e \/ found.stat = "NOENT"
      BY <1>1, <2>1
    <2>3. found.stat # "NOENT" => Reply(t, found.stat) \/ Reply(t, "OK") \/ Reply(t, "EXIST")
      BY <2>1
    <2> QED BY <1>1, <2>1, <2>2, <2>3
  <1>8. /\ found.stat \in Stats
        /\ found.stat = "NOENT" /\ r.dir \in DOMAIN e => Matches(e, r.dir, r.name) = {}
    BY <1>4, LookupProperties DEF Safe, Stats
  <1>9. nextid' = nextid
    BY DEF AddFile
  <1>10. CASE found.stat # "NOENT"
    BY <1>1, <1>4, <1>7, <1>8, <1>9, <1>10 DEF Pushed, Stats
  <1>11. CASE found.stat = "NOENT"
    <2>1. PICK stat : stat = PushStat(e, r.dir, i)
      OBVIOUS
    <2>2. /\ stat \in Stats
          /\ stat = "OK" => r.dir \in Dirs(e) /\ i \notin DOMAIN e
      BY <1>4, <2>1, PushStatProperties
    <2>3. /\ entries' = IF stat = "OK" THEN Push(e, r.dir, i, NewFile(r.name, verf)) ELSE e
          /\ Reply(t, stat)
      BY <1>1, <1>7, <1>11, <2>1 DEF PushReply
    <2>4. PICK f : f = Push(e, r.dir, i, NewFile(r.name, verf))
      OBVIOUS
    <2>5. stat = "OK" => WellTyped(f) /\ Added(e, f, r.dir, i, r.name, FALSE)
      BY <1>3, <1>4, <1>6, <2>2, <2>4, PushProperties
    <2>6. stat = "OK" => Matches(e, r.dir, r.name) = {}
      BY <1>8, <1>11, <2>2 DEF Dirs
    <2>7. Pushed(e, entries', r.dir, i, r.name, FALSE)
      BY <1>4, <2>2, <2>3, <2>4, <2>5, <2>6 DEF Pushed
    <2> QED BY <1>1, <1>4, <1>9, <2>2, <2>3, <2>7
  <1> QED BY <1>10, <1>11

\* Pushing an allocated id keeps the invariant.
LEMMA PushIInv ==
    ASSUME IInv, NEW t \in Tasks, Allocated(t), NEW d, NEW name, NEW isdir \in BOOLEAN,
           Pushed(entries, entries', d, task[t].id, name, isdir),
           NEW stat \in Stats, Reply(t, stat), nextid' = nextid
    PROVE  IInv'
  <1>1. PICK e, f, i : e = entries /\ f = entries' /\ i = task[t].id
    OBVIOUS
  <1>2. Safe(e) /\ Pushed(e, f, d, i, name, isdir)
    BY <1>1 DEF IInv
  <1>3. Safe(f) /\ \A j : Fresh(e, j) /\ j # i => Fresh(f, j)
    BY <1>2, AddSafe DEF Pushed
  <1> QED BY <1>1, <1>3, ReplyIInv

\* REMOVE and RMDIR remove a child that has no children, or nothing.
LEMMA RemoveEntryRemoves ==
    ASSUME IInv, NEW t \in Tasks, RemoveEntry(t)
    PROVE  /\ \/ entries' = entries
              \/ \E d \in Dirs(entries) : \E i \in entries[d].content :
                    /\ IsDir(entries, i) => entries[i].content = {}
                    /\ entries' = Remove(entries, d, i)
           /\ \E stat \in Stats : Reply(t, stat)
           /\ nextid' = nextid
  <1>1. PICK e, r : e = entries /\ r = task[t].req
    OBVIOUS
  <1>2. WellTyped(e)
    BY <1>1 DEF IInv, Safe
  <1>3. PICK found \in RemoveOutcomes(e, r.dir, r.name) :
            /\ entries' = IF found.stat = "OK" THEN Remove(e, r.dir, found.id) ELSE e
            /\ Reply(t, found.stat)
    BY <1>1 DEF RemoveEntry
  <1>4. /\ found.stat \in Stats
        /\ found.stat = "OK" =>
            /\ r.dir \in DOMAIN e /\ ~IsFile(e, r.dir)
            /\ found.id \in Matches(e, r.dir, r.name)
            /\ IsDir(e, found.id) => e[found.id].content = {}
    BY DEF RemoveOutcomes, Ok, Err, Stats
  <1>5. found.stat = "OK" => r.dir \in Dirs(e) /\ found.id \in e[r.dir].content
    BY <1>2, <1>4, EntryKinds DEF IsFile, Matches
  <1>6. nextid' = nextid
    BY DEF RemoveEntry
  <1> QED BY <1>1, <1>3, <1>4, <1>5, <1>6

\* REMOVE and RMDIR keep the invariant.
LEMMA RemoveIInv ==
    ASSUME IInv, NEW t \in Tasks, RemoveEntry(t)
    PROVE  IInv'
  <1>1. PICK e, f : e = entries /\ f = entries'
    OBVIOUS
  <1>2. PICK stat \in Stats : Reply(t, stat)
    BY RemoveEntryRemoves
  <1>3. Safe(e)
    BY <1>1 DEF IInv
  <1>4. Safe(f) /\ \A j : Fresh(e, j) => Fresh(f, j)
    <2>1. CASE f = e
      BY <1>3, <2>1
    <2>2. CASE \E d \in Dirs(e) : \E i \in e[d].content : f = Remove(e, d, i)
      <3>1. PICK d \in Dirs(e) : \E i \in e[d].content : f = Remove(e, d, i)
        BY <2>2
      <3>2. PICK i \in e[d].content : f = Remove(e, d, i)
        BY <3>1
      <3>3. i # Root
        BY <1>3 DEF Safe, RootUnlisted
      <3> QED BY <1>3, <3>2, <3>3, RemoveSafe
    <2> QED BY <1>1, <2>1, <2>2, RemoveEntryRemoves
  <1> QED BY <1>1, <1>2, <1>4, RemoveEntryRemoves, ReplyIInv

\* RENAME is one call of Fs::rename, under the write lock.
LEMMA RenameEntryRenames ==
    ASSUME IInv, NEW t \in Tasks, RenameEntry(t)
    PROVE  \E r \in Request :
            /\ r.op = "RENAME"
            /\ \E source, target, res :
                /\ source \in Lookup(entries, r.dir, r.name)
                /\ target \in Lookup(entries, r.to, r.toname)
                /\ res = Rename(entries, r.dir, r.name, r.to, r.toname, source, target)
                /\ entries' = res.entries
                /\ Reply(t, res.stat)
                /\ nextid' = nextid
  <1>1. PICK r : r = task[t].req
    OBVIOUS
  <1>2. r \in Request /\ r.op = "RENAME"
    BY <1>1, TaskKinds DEF IInv, RenameEntry, At, Running
  <1>3. PICK source \in Lookup(entries, r.dir, r.name),
             target \in Lookup(entries, r.to, r.toname) :
            LET res == Rename(entries, r.dir, r.name, r.to, r.toname, source, target)
            IN  entries' = res.entries /\ Reply(t, res.stat)
    BY <1>1 DEF RenameEntry
  <1>4. nextid' = nextid
    BY DEF RenameEntry
  <1> QED BY <1>2, <1>3, <1>4

\* RENAME keeps the invariant.
LEMMA RenameIInv ==
    ASSUME IInv, NEW t \in Tasks, RenameEntry(t)
    PROVE  IInv'
  <1>1. PICK e : e = entries
    OBVIOUS
  <1>2. PICK r, source, target, res :
            /\ r \in Request
            /\ r.op = "RENAME"
            /\ source \in Lookup(e, r.dir, r.name)
            /\ target \in Lookup(e, r.to, r.toname)
            /\ res = Rename(e, r.dir, r.name, r.to, r.toname, source, target)
            /\ entries' = res.entries
            /\ Reply(t, res.stat)
            /\ nextid' = nextid
    BY <1>1, RenameEntryRenames
  <1>3. r.to \in Id /\ r.toname \in Names /\ Safe(e)
    BY <1>1, <1>2, RequestFields DEF IInv
  <1>4. /\ Safe(res.entries)
        /\ res.stat \in Stats
        /\ \A j : Fresh(e, j) => Fresh(res.entries, j)
    BY <1>2, <1>3, RenameSafe DEF Stats
  <1> QED BY <1>1, <1>2, <1>4, ReplyIInv

-----------------------------------------------------------------------------
\* Every step keeps the inductive invariant.
LEMMA NextIInv ==
    ASSUME IInv, [Next]_vars
    PROVE  IInv'
  <1>1. CASE UNCHANGED vars
    BY <1>1 DEF vars, IInv, TypeOK, TaskShape, FreshIds, Allocated
  <1>2. ASSUME NEW t \in Tasks, AddDir(t) PROVE IInv'
    BY <1>2, AddDirPushes, PushIInv
  <1>3. ASSUME NEW t \in Tasks, AddFile(t) PROVE IInv'
    BY <1>3, AddFilePushes, PushIInv
  <1> QED BY <1>1, <1>2, <1>3, CallIInv, StatToIInv, GuardIInv, AllocateIInv,
             RemoveIInv, RenameIInv DEF Next

\* The inductive invariant holds in every state of every behaviour.
LEMMA Invariance == Spec => []IInv
  <1>1. Init => IInv
    BY InitIInv
  <1>2. IInv /\ [Next]_vars => IInv'
    BY NextIInv
  <1> QED BY <1>1, <1>2, PTL DEF Spec

\* The variables keep their types, for any number of tasks, ids and names; in
\* particular the root stays a directory (nfsproc3_create, nfsproc3_remove,
\* nfsproc3_rename, nfsproc3_mkdir on MemFs).
THEOREM HandlersTypeCorrect == Spec => []TypeOK
  <1>1. IInv => TypeOK
    BY DEF IInv
  <1> QED BY <1>1, Invariance, PTL

\* The walk to the root that Fs::rename makes under the write lock always
\* ends, even when clients call the object of a RENAME "." or "..".
THEOREM WalkEnds == Spec => []NoCycle
  <1>1. IInv => NoCycle
    BY DEF IInv, Safe, NoCycle
  <1> QED BY <1>1, Invariance, PTL

\* However CREATEs, RENAMEs and REMOVEs race, a directory never has two files
\* of one name (add_file looks and pushes under one lock, rename removes what
\* it replaces).
THEOREM FileNamesStayUnique == Spec => []UniqueFileNames
  <1>1. IInv => UniqueFileNames
    BY DEF IInv, Safe, UniqueFileNames
  <1> QED BY <1>1, Invariance, PTL

-----------------------------------------------------------------------------
\* No RENAME calls its object "." or "..".
PlainSources == SourceNames \cap {".", ".."} = {}

\* Without "." and ".." as objects of a RENAME, every step keeps one tree.
LEMMA SoundStep ==
    ASSUME PlainSources, IInv, Sound(entries), [Next]_vars
    PROVE  Sound(entries')
  <1>1. Safe(entries) /\ WellTyped(entries)
    BY DEF IInv, Safe
  <1>2. CASE entries' = entries
    BY <1>2
  <1>3. ASSUME NEW e, e = entries, NEW f, f = entries', NEW d, NEW i, NEW name,
               NEW isdir \in BOOLEAN, Pushed(e, f, d, i, name, isdir)
        PROVE  Sound(f)
    BY <1>1, <1>3, AddSound DEF Pushed
  <1>4. ASSUME NEW t \in Tasks, AddDir(t) \/ AddFile(t)
        PROVE  Sound(entries')
    BY <1>3, <1>4, AddDirPushes, AddFilePushes
  <1>5. ASSUME NEW t \in Tasks, RemoveEntry(t)
        PROVE  Sound(entries')
    <2>1. PICK e, f : e = entries /\ f = entries'
      OBVIOUS
    <2>2. CASE f = e
      BY <2>1, <2>2
    <2>3. CASE \E d \in Dirs(e) : \E i \in e[d].content :
                    (IsDir(e, i) => e[i].content = {}) /\ f = Remove(e, d, i)
      <3>1. PICK d \in Dirs(e) : \E i \in e[d].content :
                    (IsDir(e, i) => e[i].content = {}) /\ f = Remove(e, d, i)
        BY <2>3
      <3>2. PICK i \in e[d].content :
                    (IsDir(e, i) => e[i].content = {}) /\ f = Remove(e, d, i)
        BY <3>1
      <3>3. Safe(e) /\ WellTyped(e) /\ Sound(e) /\ i # Root
        BY <1>1, <2>1 DEF Safe, RootUnlisted
      <3>4. Pruned(e, f, d, i)
        BY <3>2, <3>3, RemoveSafe
      <3>5. Sound(f)
        BY <3>2, <3>3, <3>4, RemoveSound
      <3> QED BY <2>1, <3>5
    <2> QED BY <1>5, <2>1, <2>2, <2>3, RemoveEntryRemoves
  <1>6. ASSUME NEW t \in Tasks, RenameEntry(t)
        PROVE  Sound(entries')
    <2>1. PICK e : e = entries
      OBVIOUS
    <2>2. PICK r, source, target, res :
            /\ r \in Request
            /\ r.op = "RENAME"
            /\ source \in Lookup(e, r.dir, r.name)
            /\ target \in Lookup(e, r.to, r.toname)
            /\ res = Rename(e, r.dir, r.name, r.to, r.toname, source, target)
            /\ entries' = res.entries
      BY <1>6, <2>1, RenameEntryRenames
    <2>3. r.to \in Id /\ r.toname \in Names /\ r.name \notin {".", ".."}
      BY <2>2, RequestFields DEF PlainSources
    <2>4. Sound(res.entries)
      BY <1>1, <2>1, <2>2, <2>3, RenameSound
    <2> QED BY <2>2, <2>4
  <1> QED BY <1>2, <1>4, <1>5, <1>6
          DEF Next, vars, Call, StatTo, Guard, Allocate

\* A root with no children is one tree.
LEMMA SoundInit ==
    ASSUME Init
    PROVE  Sound(entries)
  <1>1. /\ DOMAIN entries = {Root}
        /\ entries[Root].content = {}
        /\ Dirs(entries) = {Root}
    BY DEF Init, NewFs, NewDir, Dirs
  <1> QED BY <1>1 DEF Sound, ChildrenExist, ListedOnce, ParentsList

\* Every behaviour keeps one tree, in the terms of the lemmas.
LEMMA SoundInvariance == PlainSources => (Spec => [](IInv /\ Sound(entries)))
  <1> SUFFICES ASSUME PlainSources PROVE Spec => [](IInv /\ Sound(entries))
    OBVIOUS
  <1>1. Init => Sound(entries)
    BY SoundInit
  <1>2. IInv /\ Sound(entries) /\ [Next]_vars => Sound(entries)'
    BY SoundStep
  <1> QED BY <1>1, <1>2, Invariance, PTL DEF Spec

\* As long as no client calls the object of a RENAME "." or "..", the entries
\* are one tree: every child exists, hangs in one directory, and a directory's
\* parent field names the directory it hangs in (Fs::push, remove, rename).
THEOREM TreeStaysSound ==
    PlainSources => (Spec => [](NoDanglingChild /\ OneParent /\ ParentLists))
  <1> SUFFICES ASSUME PlainSources
               PROVE  Spec => [](NoDanglingChild /\ OneParent /\ ParentLists)
    OBVIOUS
  <1>1. Sound(entries) => NoDanglingChild /\ OneParent /\ ParentLists
    BY DEF Sound, NoDanglingChild, OneParent, ParentLists
  <1> QED BY <1>1, SoundInvariance, PTL

\* Its two other parts by name.  Every child of a directory exists: REMOVE and
\* RENAME take an entry and the link to it away together.
THEOREM ChildrenAlwaysExist == PlainSources => (Spec => []NoDanglingChild)
  <1>1. NoDanglingChild /\ OneParent /\ ParentLists => NoDanglingChild
    OBVIOUS
  <1> QED  BY <1>1, TreeStaysSound, PTL

\* The parent field of a directory names the directory that lists it, although
\* RENAME changes the two in different places.
THEOREM ParentFieldsAgree == PlainSources => (Spec => []ParentLists)
  <1>1. NoDanglingChild /\ OneParent /\ ParentLists => ParentLists
    OBVIOUS
  <1> QED  BY <1>1, TreeStaysSound, PTL

-----------------------------------------------------------------------------
\* A step that leaves a file without a directory is a late RENAME.
LEMMA FilesStep ==
    ASSUME PlainSources, IInv, Sound(entries), [Next]_vars
    PROVE  KeepsFiles(entries, entries') \/ LateRename
  <1>1. Safe(entries)
    BY DEF IInv
  <1>2. CASE entries' = entries
    BY <1>2 DEF KeepsFiles
  <1>3. ASSUME NEW e, NEW f, NEW d, NEW i, NEW name,
               NEW isdir \in BOOLEAN, Pushed(e, f, d, i, name, isdir)
        PROVE  KeepsFiles(e, f)
    <2>1. KeepsFiles(e, e)
      BY DEF KeepsFiles
    <2> QED BY <1>3, <2>1, AddKeepsFiles DEF Pushed
  <1>4. ASSUME NEW t \in Tasks, AddDir(t) \/ AddFile(t)
        PROVE  KeepsFiles(entries, entries')
    BY <1>3, <1>4, AddDirPushes, AddFilePushes
  <1>5. ASSUME NEW t \in Tasks, RemoveEntry(t)
        PROVE  KeepsFiles(entries, entries')
    <2>1. PICK e, f : e = entries /\ f = entries'
      OBVIOUS
    <2>2. CASE f = e
      BY <2>1, <2>2 DEF KeepsFiles
    <2>3. CASE \E d \in Dirs(e) : \E i \in e[d].content :
                    (IsDir(e, i) => e[i].content = {}) /\ f = Remove(e, d, i)
      <3>1. PICK d \in Dirs(e) : \E i \in e[d].content :
                    (IsDir(e, i) => e[i].content = {}) /\ f = Remove(e, d, i)
        BY <2>3
      <3>2. PICK i \in e[d].content :
                    (IsDir(e, i) => e[i].content = {}) /\ f = Remove(e, d, i)
        BY <3>1
      <3>3. Safe(e) /\ i # Root
        BY <1>1, <2>1 DEF Safe, RootUnlisted
      <3>4. Pruned(e, f, d, i)
        BY <3>2, <3>3, RemoveSafe
      <3>5. KeepsFiles(e, f)
        BY <3>2, <3>4, RemoveKeepsFiles
      <3> QED BY <2>1, <3>5
    <2> QED BY <1>5, <2>1, <2>2, <2>3, RemoveEntryRemoves
  <1>6. ASSUME NEW t \in Tasks, RenameEntry(t), task[t].req.to \in DOMAIN entries
        PROVE  KeepsFiles(entries, entries')
    <2>1. PICK e, r : e = entries /\ r = task[t].req
      OBVIOUS
    <2>2. r \in Request /\ r.op = "RENAME"
      BY <1>6, <2>1, TaskKinds DEF IInv, RenameEntry, At, Running
    <2>3. PICK source \in Lookup(e, r.dir, r.name), target \in Lookup(e, r.to, r.toname) :
            LET res == Rename(e, r.dir, r.name, r.to, r.toname, source, target)
            IN  entries' = res.entries /\ Reply(t, res.stat)
      BY <1>6, <2>1 DEF RenameEntry
    <2>4. PICK res : res = Rename(e, r.dir, r.name, r.to, r.toname, source, target)
      OBVIOUS
    <2>5. /\ r.to \in Id /\ r.to \in DOMAIN e /\ r.toname \in Names
          /\ r.name \notin {".", ".."}
      BY <1>6, <2>1, <2>2, RequestFields DEF PlainSources
    <2>6. KeepsFiles(e, res.entries)
      BY <1>1, <2>1, <2>3, <2>4, <2>5, RenameKeepsFiles
    <2> QED BY <2>1, <2>3, <2>4, <2>6
  <1> QED BY <1>2, <1>4, <1>5, <1>6
          DEF Next, vars, Call, StatTo, Guard, Allocate, LateRename

\* A RENAME of a file loses it only if its second directory is removed between
\* the handler's getattr and Fs::rename, which unlinks the file first; no other
\* step of any handler, and no other RENAME, leaves a file that no directory
\* lists (nfsproc3_rename, Fs::push, remove, rename).
THEOREM FilesLostOnlyByLateRename == PlainSources => (Spec => LostOnlyByLateRename)
  <1> SUFFICES ASSUME PlainSources
               PROVE  Spec => LostOnlyByLateRename
    OBVIOUS
  <1>1. IInv /\ Sound(entries) /\ [Next]_vars => [KeepsFiles(entries, entries') \/ LateRename]_vars
    BY FilesStep
  <1> QED BY <1>1, SoundInvariance, PTL DEF Spec, LostOnlyByLateRename

-----------------------------------------------------------------------------
\* The server handles one request at a time.
OneTask == \A t, u \in Tasks : t = u

\* The second directory of a RENAME is still there when it is going to be used.
TargetSeen ==
    \A t \in Tasks :
        task[t].pc = "ready" /\ task[t].req.op = "RENAME" => task[t].req.to \in DOMAIN entries

\* Nobody else can remove the directory between the two calls.
LEMMA TargetSeenStep ==
    ASSUME OneTask, IInv, TargetSeen, [Next]_vars
    PROVE  TargetSeen'
  <1>1. task \in [Tasks -> TaskType]
    BY DEF IInv, TypeOK, TaskType, Running
  <1>2. CASE UNCHANGED vars
    BY <1>2 DEF vars, TargetSeen
  <1>3. ASSUME NEW t \in Tasks, NEW stat \in Stats, Reply(t, stat)
        PROVE  TargetSeen'
    <2>1. task'[t].pc = "idle"
      BY <1>1, <1>3, IdleFields DEF Reply
    <2> QED BY <2>1 DEF OneTask, TargetSeen
  <1>4. ASSUME NEW t \in Tasks, NEW r \in Request, Call(t, r)
        PROVE  TargetSeen'
    <2>1. task'[t].pc = "ready" => task'[t].req.op # "RENAME"
      BY <1>1, <1>4, RequestFields DEF Call, Busy, Creates
    <2> QED BY <2>1 DEF OneTask, TargetSeen
  <1>5. ASSUME NEW t \in Tasks, StatTo(t)
        PROVE  TargetSeen'
    <2>1. CASE task[t].req.to \in DOMAIN entries
      <3>1. task'[t].req = task[t].req /\ entries' = entries
        BY <1>1, <1>5, <2>1 DEF StatTo, Goto, Busy
      <3> QED BY <2>1, <3>1 DEF OneTask, TargetSeen
    <2>2. CASE task[t].req.to \notin DOMAIN entries
      BY <1>3, <1>5, <2>2 DEF StatTo, Stats
    <2> QED BY <2>1, <2>2
  <1>6. ASSUME NEW t \in Tasks, Guard(t)
        PROVE  TargetSeen'
    <2>1. CASE Goto(t, "allocate")
      <3>1. task'[t].pc = "allocate"
        BY <1>1, <2>1 DEF Goto, Busy
      <3> QED BY <3>1 DEF OneTask, TargetSeen
    <2>2. CASE Reply(t, "EXIST")
      BY <1>3, <2>2 DEF Stats
    <2> QED BY <1>6, <2>1, <2>2 DEF Guard
  <1>7. ASSUME NEW t \in Tasks, Allocate(t)
        PROVE  TargetSeen'
    <2>1. task[t].req.op \in Creates
      BY <1>7 DEF Allocate, At, IInv, TaskShape
    <2>2. task'[t].req = task[t].req
      BY <1>1, <1>7 DEF Allocate, Busy
    <2> QED BY <2>1, <2>2 DEF OneTask, TargetSeen, Creates
  <1>8. ASSUME NEW t \in Tasks, AddDir(t) \/ AddFile(t) \/ RemoveEntry(t)
        PROVE  TargetSeen'
    BY <1>3, <1>8, AddDirPushes, AddFilePushes, RemoveEntryRemoves
  <1>9. ASSUME NEW t \in Tasks, RenameEntry(t)
        PROVE  TargetSeen'
    <2>1. PICK e : e = entries
      OBVIOUS
    <2>2. PICK r, source, target, res :
            /\ r \in Request
            /\ r.op = "RENAME"
            /\ source \in Lookup(e, r.dir, r.name)
            /\ target \in Lookup(e, r.to, r.toname)
            /\ res = Rename(e, r.dir, r.name, r.to, r.toname, source, target)
            /\ Reply(t, res.stat)
      BY <1>9, <2>1, RenameEntryRenames
    <2>3. r.to \in Id /\ r.toname \in Names /\ Safe(e)
      BY <2>1, <2>2, RequestFields DEF IInv
    <2>4. res.stat \in Stats
      BY <2>2, <2>3, RenameSafe DEF Stats
    <2> QED BY <1>3, <2>2, <2>4
  <1> QED BY <1>2, <1>4, <1>5, <1>6, <1>7, <1>8, <1>9 DEF Next

\* A server that handles one request at a time never loses a file: what
\* nfsproc3_rename has checked still holds when Fs::rename acts.
THEOREM OneTaskLosesNoFile == PlainSources /\ OneTask => (Spec => []NoOrphanFile)
  <1> SUFFICES ASSUME PlainSources, OneTask PROVE Spec => []NoOrphanFile
    OBVIOUS
  <1>1. Init => TargetSeen /\ NoOrphanFile
    <2> SUFFICES ASSUME Init PROVE TargetSeen /\ NoOrphanFile
      OBVIOUS
    <2>1. TargetSeen
      BY DEF Init, Idle, TargetSeen
    <2>2. \A i \in DOMAIN entries : entries[i].type = "dir"
      BY DEF Init, NewFs, NewDir
    <2> QED BY <2>1, <2>2 DEF NoOrphanFile, IsFile, Listed
  <1>2. IInv /\ TargetSeen /\ [Next]_vars => TargetSeen'
    BY TargetSeenStep
  <1>3. ASSUME IInv, Sound(entries), TargetSeen, NoOrphanFile, [Next]_vars
        PROVE  NoOrphanFile'
    <2>1. ~LateRename
      BY <1>3 DEF LateRename, RenameEntry, At, TargetSeen
    <2>2. KeepsFiles(entries, entries')
      BY <1>3, <2>1, FilesStep
    <2>3. \A i : IsFile(entries, i) => Listed(entries, i)
      BY <1>3 DEF NoOrphanFile, IsFile, Listed
    <2> QED BY <2>2, <2>3 DEF KeepsFiles, NoOrphanFile, Listed
  <1> QED BY <1>1, <1>2, <1>3, SoundInvariance, PTL DEF Spec
=============================================================================
