------------------------------ MODULE MirrorFs ------------------------------
(***************************************************************************)
(* The mirror file system of cargo-nfs3-server: mirror::Fs over a          *)
(* directory of the host, with the SymbolsCache that gives a path its      *)
(* handle.  Every system call that resolves a path or changes something is *)
(* a step of its own, together with what is then only asked of the open    *)
(* file (its length, the first entry of a directory), and so is every use  *)
(* of the cache; between them other tasks run.  The host fails where its   *)
(* tree says so, at a size it refuses, and at data it has no room for.     *)
(*                                                                         *)
(* A path is a sequence of at most two names below the root, so that a     *)
(* directory is a child of the root; a symbolic link leads to a child of   *)
(* the root.  Of a file its length is kept and whether bytes were lost.    *)
(* The handlers' first step, which asks for the attributes of the          *)
(* directory or the object, is part of Call.  READDIR is MirrorReadDir's.  *)
(* Mode, owner and times are data; a SYMLINK request carries no size.      *)
(***************************************************************************)
EXTENDS Integers, Sequences, FiniteSets

CONSTANTS
    Tasks,      \* tasks that handle requests
    Names,      \* file names
    MaxLen,     \* bound: the longest file
    MaxCalls,   \* bound: requests
    Keep,       \* set_size3::None
    Huge,       \* a size the host refuses
    None,       \* no request
    Hosts,      \* the directories to start from: a node for each path
    Requests    \* the requests clients make

VARIABLES
    disk,       \* the host's directory: a node for each path that exists
    size,       \* the length of each file, by inode number
    cache,      \* SymbolsCacheInner
    task,       \* the tasks
    calls       \* requests so far

vars == <<disk, size, cache, task, calls>>

Paths == {<<>>} \cup {<<n>> : n \in Names} \cup {<<d, n>> : d, n \in Names}
Inodes == DOMAIN size
Sizes == (0..MaxLen) \cup {Keep, Huge}
Regular(i) == [type |-> "file", ino |-> i]
Directory == [type |-> "dir"]
Symlink(n) == [type |-> "link", to |-> n]

\* A request names its object by a path (the path of its handle), or by the
\* path of a directory's handle and a name.  to: where RENAME moves it.
Ops == {"LOOKUP", "GETATTR", "READ", "READLINK", "SETATTR", "WRITE", "UNCHECKED", "GUARDED",
        "EXCLUSIVE", "MKDIR", "REMOVE", "RENAME", "SYMLINK"}
ByName == Ops \ {"GETATTR", "READ", "READLINK", "SETATTR", "WRITE"}
Request ==
    [op : Ops, path : Paths \ {<<>>}, to : Paths \ {<<>>}, link : Names, size : Sizes,
     offset : 0..MaxLen, count : 0..MaxLen]

Parent(p) == SubSeq(p, 1, Len(p) - 1)
Name(p) == p[Len(p)]
Max2(a, b) == IF a > b THEN a ELSE b
Min2(a, b) == IF a < b THEN a ELSE b

-----------------------------------------------------------------------------
(* External: path resolution of the host, whose directory is h.  An error  *)
(* is the status that map_io_error makes of it.                            *)

IsA(h, p, type) == p \in DOMAIN h /\ h[p].type = type
IsDir(h, p) == p = <<>> \/ IsA(h, p, "dir")

\* Where the child n of the root leads when links are followed: the one that
\* is no link among what n reaches; {} is a loop.
Follow(h, n) ==
    {m \in Names :
        /\ ~IsA(h, <<m>>, "link")
        /\ \A S \in SUBSET Names :
            (n \in S /\ \A x \in S : IsA(h, <<x>>, "link") => h[<<x>>].to \in S) => m \in S}

Leads(h, n) == CHOOSE m \in Follow(h, n) : TRUE

\* The status and the place of a path whose last component is not followed.
DirStat(h, p) ==
    IF Len(p) < 2 THEN "OK"
    ELSE IF Follow(h, p[1]) = {} THEN "IO"
    ELSE IF IsDir(h, <<Leads(h, p[1])>>) THEN "OK"
    ELSE IF <<Leads(h, p[1])>> \in DOMAIN h THEN "NOTDIR" ELSE "NOENT"

Place(h, p) == IF Len(p) < 2 THEN p ELSE <<Leads(h, p[1]), p[2]>>

LstatStat(h, p) ==
    IF p = <<>> \/ DirStat(h, p) # "OK" THEN DirStat(h, p)
    ELSE IF Place(h, p) \in DOMAIN h THEN "OK" ELSE "NOENT"

\* The same with the last component followed: target where it leads.
TargetStat(h, p) ==
    IF DirStat(h, p) # "OK" THEN DirStat(h, p)
    ELSE IF IsA(h, Place(h, p), "link") /\ Follow(h, h[Place(h, p)].to) = {} THEN "IO" ELSE "OK"

Target(h, p) ==
    IF IsA(h, Place(h, p), "link") THEN <<Leads(h, h[Place(h, p)].to)>> ELSE Place(h, p)

StatStat(h, p) ==
    IF TargetStat(h, p) # "OK" THEN TargetStat(h, p)
    ELSE IF Target(h, p) = <<>> \/ Target(h, p) \in DOMAIN h THEN "OK" ELSE "NOENT"

\* Opening an existing file to write.
OpenStat(h, p) ==
    IF StatStat(h, p) # "OK" THEN StatStat(h, p)
    ELSE IF IsDir(h, Target(h, p)) THEN "ISDIR" ELSE "OK"

Inode(h, p) == h[Target(h, p)].ino
Children(h, p) == {q \in DOMAIN h : Len(q) = Len(p) + 1 /\ Parent(q) = p}
Type(h, p) == h[Place(h, p)].type

\* A tree of files, links and directories, with n inode numbers in use.
Nodes(n) == {Directory} \cup {Symlink(m) : m \in Names} \cup {Regular(i) : i \in 1..n}
Tree(h, n) ==
    /\ DOMAIN h \subseteq Paths \ {<<>>}
    /\ \A p \in DOMAIN h : h[p] \in Nodes(n) /\ IsDir(h, Parent(p))

Files(h) == {p \in DOMAIN h : IsA(h, p, "file")}

\* A WRITE stays within the longest file.
ASSUME MirrorAssumption ==
    /\ MaxLen \in Nat /\ MaxCalls \in Nat
    /\ Keep \notin 0..MaxLen /\ Huge \notin 0..MaxLen /\ Keep # Huge
    /\ Requests \subseteq Request /\ None \notin Requests
    /\ \A r \in Requests : r.op = "WRITE" => r.offset + r.count <= MaxLen
    /\ \A h \in Hosts : IsFiniteSet(DOMAIN h) /\ Tree(h, Cardinality(Files(h)))

-----------------------------------------------------------------------------
(* The symbols cache.                                                      *)

ROOT_ID == 1

NewCache ==
    [path_to_id |-> [p \in {<<>>} |-> ROOT_ID], id_to_path |-> [i \in {ROOT_ID} |-> <<>>],
     next_id |-> ROOT_ID + 1]

Extend(f, x, y) == [z \in DOMAIN f \cup {x} |-> IF z = x THEN y ELSE f[z]]

\* A vacant entry is filled.
InsertPath(c, p) ==
    [path_to_id |-> Extend(c.path_to_id, p, c.next_id),
     id_to_path |-> Extend(c.id_to_path, c.next_id, p), next_id |-> c.next_id + 1]

\* The host is asked although the path has an id.
Cached_Never(p) == FALSE

Cached(p) == p \in DOMAIN cache.path_to_id

\* lookup(.., check_path): Path::exists follows links.
SymbolsStat(p) ==
    IF Cached(p) THEN "OK"
    ELSE IF StatStat(disk, Parent(p)) # "OK" THEN "BADHANDLE"
    ELSE IF StatStat(disk, p) # "OK" THEN "NOENT" ELSE "OK"

AfterLookup(p) == IF SymbolsStat(p) = "OK" /\ ~Cached(p) THEN InsertPath(cache, p) ELSE cache

\* lookup without the check.
Recorded(c, p) == IF p \in DOMAIN c.path_to_id THEN c ELSE InsertPath(c, p)

-----------------------------------------------------------------------------
(* Tasks.  History: changed, the task changed the host; lost, it destroyed *)
(* bytes; disturbed, another task changed the host meanwhile; reached, a   *)
(* READ reached the end of the file.                                       *)

Steps == {"idle", "lookup", "getattr", "read", "read_exact", "readlink", "setattr", "metadata",
          "resize", "write", "write_all", "guard", "create", "set_len", "create_new",
          "create_dir", "symlink", "register", "rmdir", "unlink", "target", "read_dir", "rename",
          "recache"}

Statuses == {"OK", "NOENT", "NOTDIR", "ISDIR", "EXIST", "NOTEMPTY", "IO", "INVAL", "BADHANDLE",
             "BADTYPE"}

Task ==
    [pc : Steps, req : Requests \cup {None}, stat : Statuses \cup {"none"}, ino : Nat,
     len : 0..MaxLen, isdir : BOOLEAN, eof : BOOLEAN, changed : BOOLEAN, lost : BOOLEAN,
     disturbed : BOOLEAN, reached : BOOLEAN]

Fresh(r, pc, stat) ==
    [pc |-> pc, req |-> r, stat |-> stat, ino |-> 0, len |-> 0, isdir |-> FALSE, eof |-> FALSE,
     changed |-> FALSE, lost |-> FALSE, disturbed |-> FALSE, reached |-> FALSE]

\* The host's tree has no node outside a directory, and the file a task has
\* open exists, whatever other tasks do to the name it was opened by.
TypeOK ==
    /\ size \in Seq(0..MaxLen) /\ Tree(disk, Len(size))
    /\ DOMAIN cache.path_to_id \subseteq Paths /\ cache.next_id \in Nat
    /\ calls \in 0..MaxCalls
    /\ task \in [Tasks -> Task]
    /\ \A t \in Tasks : task[t].ino \in {0} \cup Inodes

Init ==
    /\ disk \in Hosts
    /\ size = [i \in 1..Cardinality(Files(disk)) |-> MaxLen]
    /\ cache = NewCache
    /\ task = [t \in Tasks |-> Fresh(None, "idle", "none")]
    /\ calls = 0

Running(t, pc) == task[t].pc = pc
Path(t) == task[t].req.path
Op(t) == task[t].req.op

\* What a step does with its task: answer, or go on.  A change of the host
\* disturbs the others.
Answer(t, stat) == task' = [task EXCEPT ![t].pc = "idle", ![t].stat = stat]
Goto(t, pc) == task' = [task EXCEPT ![t].pc = pc]
Change(t, next) ==
    task' = [u \in Tasks |-> IF u = t THEN [next EXCEPT !.changed = TRUE]
                                      ELSE [task[u] EXCEPT !.disturbed = TRUE]]
Done(t) == [task[t] EXCEPT !.pc = "idle", !.stat = "OK"]
At(t, pc) == [task[t] EXCEPT !.pc = pc]

\* The handles of a request are ones the cache has given out.  The handlers
\* of the operations that change something ask for their attributes first;
\* WRITE goes on without them.
Handles(r) ==
    IF r.op = "RENAME" THEN {Parent(r.path), Parent(r.to)}
    ELSE IF r.op \in ByName THEN {Parent(r.path)} ELSE {r.path}

BeforeStats(r) ==
    IF r.op \in {"LOOKUP", "GETATTR", "READ", "READLINK", "WRITE"} THEN {}
    ELSE {LstatStat(disk, p) : p \in Handles(r)} \ {"OK"}

FirstStep(op) ==
    CASE op \in {"WRITE", "REMOVE", "RENAME"} -> "metadata"
      [] op = "UNCHECKED" -> "create"
      [] op = "GUARDED"   -> "guard"
      [] op = "EXCLUSIVE" -> "create_new"
      [] op = "MKDIR"     -> "create_dir"
      [] op = "SYMLINK"   -> "symlink"
      [] op = "LOOKUP"    -> "lookup"
      [] op = "GETATTR"   -> "getattr"
      [] op = "READ"      -> "read"
      [] op = "READLINK"  -> "readlink"
      [] op = "SETATTR"   -> "setattr"

Call(t, r) ==
    /\ Running(t, "idle") /\ calls < MaxCalls
    /\ \A p \in Handles(r) : p \in DOMAIN cache.path_to_id
    /\ calls' = calls + 1
    /\ IF BeforeStats(r) = {}
       THEN task' = [task EXCEPT ![t] = Fresh(r, FirstStep(r.op), "none")]
       ELSE \E stat \in BeforeStats(r) : task' = [task EXCEPT ![t] = Fresh(r, "idle", stat)]
    /\ UNCHANGED <<disk, size, cache>>

-----------------------------------------------------------------------------
(* LOOKUP, GETATTR (the last step of others, too), READLINK, READ.         *)

Lookup(t) ==
    /\ Running(t, "lookup")
    /\ cache' = AfterLookup(Path(t))
    /\ Answer(t, SymbolsStat(Path(t)))
    /\ UNCHANGED <<disk, size, calls>>

GetAttr(t) ==
    /\ Running(t, "getattr")
    /\ Answer(t, LstatStat(disk, Path(t)))
    /\ UNCHANGED <<disk, size, cache, calls>>

ReadLink(t) ==
    /\ Running(t, "readlink")
    /\ Answer(t, IF LstatStat(disk, Path(t)) = "NOENT" THEN "NOENT"
                 ELSE IF LstatStat(disk, Path(t)) = "OK" /\ Type(disk, Path(t)) = "link" THEN "OK"
                 ELSE "BADTYPE")
    /\ UNCHANGED <<disk, size, cache, calls>>

\* The length of what was opened; a directory can be opened, too, and has the
\* length the host gives it.
Lengths(p) == IF IsDir(disk, Target(disk, p)) THEN 0..MaxLen ELSE {size[Inode(disk, p)]}

\* File::open and the length.  A read from the end on is answered at once; the
\* bytes of a directory cannot be read.
Read(t) ==
    LET p == Path(t)
        r == task[t].req
    IN  /\ Running(t, "read")
        /\ IF StatStat(disk, p) # "OK" THEN Answer(t, StatStat(disk, p))
           ELSE \E len \in Lengths(p) :
            IF r.offset >= len \/ r.count = 0
            THEN task' = [task EXCEPT ![t] =
                    [Done(t) EXCEPT !.eof = r.count >= len,
                                    !.reached = r.offset >= len /\ ~IsDir(disk, Target(disk, p))]]
            ELSE IF IsDir(disk, Target(disk, p)) THEN Answer(t, "ISDIR")
            ELSE task' = [task EXCEPT ![t] =
                    [At(t, "read_exact") EXCEPT !.ino = Inode(disk, p), !.len = len]]
        /\ UNCHANGED <<disk, size, cache, calls>>

\* read_exact fails if the file has become shorter.
ReadExact(t) ==
    LET r == task[t].req
        end == r.offset + Min2(r.count, task[t].len - r.offset)
    IN  /\ Running(t, "read_exact")
        /\ IF size[task[t].ino] < end THEN Answer(t, "IO")
           ELSE task' = [task EXCEPT ![t] = [Done(t) EXCEPT !.eof = end >= task[t].len,
                                                            !.reached = end >= task[t].len]]
        /\ UNCHANGED <<disk, size, cache, calls>>

-----------------------------------------------------------------------------
(* SETATTR and WRITE.                                                      *)

\* path_setattr opens the file; every failure is IO.
SetAttr(t) ==
    LET p == Path(t)
        s == task[t].req.size
    IN  /\ Running(t, "setattr")
        /\ IF s = Keep THEN Goto(t, "getattr")
           ELSE IF OpenStat(disk, p) # "OK" THEN Answer(t, "IO")
           ELSE task' = [task EXCEPT ![t] = [At(t, "resize") EXCEPT !.ino = Inode(disk, p)]]
        /\ UNCHANGED <<disk, size, cache, calls>>

\* set_len on the open file, for path_setattr and for create.
SetLen(t) ==
    LET pc == task[t].pc
        s == task[t].req.size
    IN  /\ pc \in {"resize", "set_len"}
        /\ IF s = Huge THEN Answer(t, "IO") /\ UNCHANGED size
           ELSE /\ size' = [size EXCEPT ![task[t].ino] = s]
                /\ Change(t, At(t, IF pc = "resize" THEN "getattr" ELSE "register"))
        /\ UNCHANGED <<disk, cache, calls>>

WriteStat(t) ==
    /\ Running(t, "metadata") /\ Op(t) = "WRITE"
    /\ IF LstatStat(disk, Path(t)) # "OK" THEN Answer(t, LstatStat(disk, Path(t)))
       ELSE IF Type(disk, Path(t)) # "file" THEN Answer(t, "INVAL") ELSE Goto(t, "write")
    /\ UNCHANGED <<disk, size, cache, calls>>

WriteOpen(t) ==
    LET p == Path(t) IN
    /\ Running(t, "write")
    /\ IF OpenStat(disk, p) # "OK" THEN Answer(t, OpenStat(disk, p))
       ELSE task' = [task EXCEPT ![t] = [At(t, "write_all") EXCEPT !.ino = Inode(disk, p)]]
    /\ UNCHANGED <<disk, size, cache, calls>>

\* The data is appended.
Written_Appends(len, r, n) == len + n

\* The length when n bytes were written at the offset.
Written(len, r, n) == IF n = 0 THEN len ELSE Max2(len, r.offset + n)

\* seek, write_all and flush; count stands for the length of the data.  They
\* may fail, and leave what was written until then.
WriteAll(t) ==
    LET r == task[t].req
        Write(n) == size' = [size EXCEPT ![task[t].ino] = Written(@, r, n)]
    IN  /\ Running(t, "write_all")
        /\ \/ Write(r.count) /\ Change(t, At(t, "getattr"))
           \/ Answer(t, "IO") /\ UNCHANGED size
           \/ \E n \in 1..(r.count - 1) :
                Write(n) /\ Change(t, [At(t, "idle") EXCEPT !.stat = "IO"])
        /\ UNCHANGED <<disk, cache, calls>>

-----------------------------------------------------------------------------
(* CREATE, MKDIR and SYMLINK.                                              *)

\* The check is left to File::create.
GuardedLookup_None(t) ==
    /\ Running(t, "guard")
    /\ Goto(t, "create")
    /\ UNCHANGED <<disk, size, cache, calls>>

GuardedLookup(t) ==
    /\ Running(t, "guard")
    /\ cache' = AfterLookup(Path(t))
    /\ IF SymbolsStat(Path(t)) = "OK" THEN Answer(t, "EXIST") ELSE Goto(t, "create")
    /\ UNCHANGED <<disk, size, calls>>

AfterCreate(t) == IF task[t].req.size = Keep THEN "register" ELSE "set_len"

\* File::create truncates the file a path leads to, or makes it.
CreateFile(t) ==
    LET p == Path(t)
        q == Target(disk, p)
        new == Len(size) + 1
    IN  /\ Running(t, "create")
        /\ IF TargetStat(disk, p) # "OK" \/ IsDir(disk, q)
           THEN Answer(t, IF TargetStat(disk, p) # "OK" THEN TargetStat(disk, p) ELSE "ISDIR")
                /\ UNCHANGED <<disk, size>>
           ELSE IF q \in DOMAIN disk
           THEN /\ size' = [size EXCEPT ![disk[q].ino] = 0]
                /\ Change(t, [At(t, AfterCreate(t)) EXCEPT !.ino = disk[q].ino,
                                                           !.lost = size[disk[q].ino] > 0])
                /\ UNCHANGED disk
           ELSE /\ disk' = Extend(disk, q, Regular(new))
                /\ size' = Append(size, 0)
                /\ Change(t, [At(t, AfterCreate(t)) EXCEPT !.ino = new])
        /\ UNCHANGED <<cache, calls>>

\* create_new, create_dir and symlink: the name must not be taken.
MakeStat(h, p) ==
    IF DirStat(h, p) # "OK" THEN DirStat(h, p)
    ELSE IF Place(h, p) \in DOMAIN h THEN "EXIST" ELSE "OK"

Make(t, node) ==
    IF MakeStat(disk, Path(t)) # "OK" THEN Answer(t, MakeStat(disk, Path(t))) /\ UNCHANGED disk
    ELSE disk' = Extend(disk, Place(disk, Path(t)), node) /\ Change(t, At(t, "register"))

CreateNew(t) ==
    /\ Running(t, "create_new")
    /\ Make(t, Regular(Len(size) + 1))
    /\ size' = IF MakeStat(disk, Path(t)) = "OK" THEN Append(size, 0) ELSE size
    /\ UNCHANGED <<cache, calls>>

CreateDir(t) ==
    /\ Running(t, "create_dir")
    /\ Make(t, Directory)
    /\ UNCHANGED <<size, cache, calls>>

CreateLink(t) ==
    /\ Running(t, "symlink")
    /\ Make(t, Symlink(task[t].req.link))
    /\ UNCHANGED <<size, cache, calls>>

\* The new object gets its handle.
Register(t) ==
    /\ Running(t, "register")
    /\ cache' = AfterLookup(Path(t))
    /\ IF SymbolsStat(Path(t)) # "OK" THEN Answer(t, SymbolsStat(Path(t)))
       ELSE CASE Op(t) \in {"UNCHECKED", "GUARDED"} -> Goto(t, "setattr")
              [] Op(t) = "EXCLUSIVE" -> Answer(t, "OK")
              [] OTHER -> Goto(t, "getattr")
    /\ UNCHANGED <<disk, size, calls>>

-----------------------------------------------------------------------------
(* REMOVE (and RMDIR) and RENAME.                                          *)

RemoveStat(t) ==
    /\ Running(t, "metadata") /\ Op(t) = "REMOVE"
    /\ IF LstatStat(disk, Path(t)) # "OK" THEN Answer(t, LstatStat(disk, Path(t)))
       ELSE Goto(t, IF Type(disk, Path(t)) = "dir" THEN "rmdir" ELSE "unlink")
    /\ UNCHANGED <<disk, size, cache, calls>>

\* remove_dir and remove_file of the host.
UnlinkStat(h, p, pc) ==
    IF LstatStat(h, p) # "OK" THEN LstatStat(h, p)
    ELSE IF pc = "unlink" THEN (IF Type(h, p) = "dir" THEN "ISDIR" ELSE "OK")
    ELSE IF Type(h, p) # "dir" THEN "NOTDIR"
    ELSE IF Children(h, Place(h, p)) # {} THEN "IO" ELSE "OK"

Removed(h, p) == [q \in DOMAIN h \ {p} |-> h[q]]

\* The answer is to hold the attributes of what was removed.
RemoveNode_GetsAttr(t) ==
    /\ task[t].pc \in {"rmdir", "unlink"}
    /\ LET p == Path(t)
           stat == UnlinkStat(disk, p, task[t].pc)
       IN  IF stat # "OK" THEN Answer(t, stat) /\ UNCHANGED disk
           ELSE /\ disk' = Removed(disk, Place(disk, p))
                /\ Change(t, At(t, "getattr"))
    /\ UNCHANGED <<size, cache, calls>>

RemoveNode(t) ==
    /\ task[t].pc \in {"rmdir", "unlink"}
    /\ LET p == Path(t)
           stat == UnlinkStat(disk, p, task[t].pc)
       IN  IF stat # "OK" THEN Answer(t, stat) /\ UNCHANGED disk
           ELSE /\ disk' = Removed(disk, Place(disk, p))
                /\ Change(t, Done(t))
    /\ UNCHANGED <<size, cache, calls>>

RenameStat(t) ==
    /\ Running(t, "metadata") /\ Op(t) = "RENAME"
    /\ IF Path(t) = task[t].req.to THEN Answer(t, "OK")
       ELSE IF LstatStat(disk, Path(t)) # "OK" THEN Answer(t, LstatStat(disk, Path(t)))
       ELSE task' = [task EXCEPT ![t] = [At(t, "target") EXCEPT
                        !.isdir = Type(disk, Path(t)) = "dir"]]
    /\ UNCHANGED <<disk, size, cache, calls>>

\* The target must be of the same kind,
RenameTarget(t) ==
    LET q == task[t].req.to IN
    /\ Running(t, "target")
    /\ IF LstatStat(disk, q) # "OK" THEN Goto(t, "rename")
       ELSE IF (Type(disk, q) = "dir") # task[t].isdir THEN Answer(t, "EXIST")
       ELSE Goto(t, IF task[t].isdir THEN "read_dir" ELSE "rename")
    /\ UNCHANGED <<disk, size, cache, calls>>

\* and empty if a directory.
ReadDirStat(h, q) ==
    IF StatStat(h, q) # "OK" THEN StatStat(h, q)
    ELSE IF ~IsDir(h, Target(h, q)) THEN "NOTDIR"
    ELSE IF Children(h, Target(h, q)) # {} THEN "NOTEMPTY" ELSE "OK"

RenameReadDir(t) ==
    LET stat == ReadDirStat(disk, task[t].req.to) IN
    /\ Running(t, "read_dir")
    /\ IF stat # "OK" THEN Answer(t, stat) ELSE Goto(t, "rename")
    /\ UNCHANGED <<disk, size, cache, calls>>

\* rename of the host.  A directory is not moved into itself.
HostRenameStat(h, p, q) ==
    IF LstatStat(h, p) # "OK" THEN LstatStat(h, p)
    ELSE IF DirStat(h, q) # "OK" THEN DirStat(h, q)
    ELSE IF Parent(Place(h, q)) = Place(h, p) THEN "IO"
    ELSE IF LstatStat(h, q) # "OK" THEN "OK"
    ELSE IF Type(h, p) = "dir" /\ Type(h, q) # "dir" THEN "NOTDIR"
    ELSE IF Type(h, p) # "dir" /\ Type(h, q) = "dir" THEN "ISDIR"
    ELSE IF Type(h, q) = "dir" /\ Place(h, p) # Place(h, q) /\ Children(h, Place(h, q)) # {}
    THEN "IO" ELSE "OK"

\* Whatever is at from or in it is at to.
Renamed(h, from, to) ==
    LET In(p, q) == p = q \/ Parent(p) = q
        Old(p) == IF p = to THEN from ELSE Append(from, Name(p))
        dom == {p \in Paths : IF In(p, to) THEN Old(p) \in DOMAIN h
                                           ELSE p \in DOMAIN h /\ ~In(p, from)}
    IN  [p \in dom |-> IF In(p, to) THEN h[Old(p)] ELSE h[p]]

\* A directory that is not empty stays a child of the root (bound).
HostRename(t) ==
    LET p == Path(t)
        q == task[t].req.to
        stat == HostRenameStat(disk, p, q)
    IN  /\ Running(t, "rename")
        /\ stat = "OK" => Len(q) = 1 \/ Children(disk, Place(disk, p)) = {}
        /\ IF stat # "OK" THEN Answer(t, stat) /\ UNCHANGED disk
           ELSE disk' = Renamed(disk, Place(disk, p), Place(disk, q)) /\ Change(t, At(t, "recache"))
        /\ UNCHANGED <<size, cache, calls>>

\* "Invalidate cache entries": both names get a handle.
Recache(t) ==
    /\ Running(t, "recache")
    /\ cache' = Recorded(Recorded(cache, Path(t)), task[t].req.to)
    /\ Answer(t, "OK")
    /\ UNCHANGED <<disk, size, calls>>

Step(t) ==
    \/ Lookup(t) \/ GetAttr(t) \/ ReadLink(t) \/ Read(t) \/ ReadExact(t)
    \/ SetAttr(t) \/ SetLen(t) \/ WriteStat(t) \/ WriteOpen(t) \/ WriteAll(t)
    \/ GuardedLookup(t) \/ CreateFile(t) \/ CreateNew(t) \/ CreateDir(t) \/ CreateLink(t)
    \/ Register(t)
    \/ RemoveStat(t) \/ RemoveNode(t) \/ RenameStat(t) \/ RenameTarget(t) \/ RenameReadDir(t)
    \/ HostRename(t) \/ Recache(t)

Next == \E t \in Tasks : Step(t) \/ \E r \in Requests : Call(t, r)

Spec == Init /\ [][Next]_vars

-----------------------------------------------------------------------------
\* The two maps of the cache are inverse to each other and no id is ahead of
\* the counter: a handle names one path, and a path has one handle, however
\* often it is created, removed and moved, by whichever task.
HandleIsPath ==
    /\ \A p \in DOMAIN cache.path_to_id :
        cache.path_to_id[p] \in DOMAIN cache.id_to_path /\ cache.id_to_path[cache.path_to_id[p]] = p
    /\ \A i \in DOMAIN cache.id_to_path :
        /\ i < cache.next_id
        /\ cache.id_to_path[i] \in DOMAIN cache.path_to_id
        /\ cache.path_to_id[cache.id_to_path[i]] = i

\* CREATE destroys bytes only if it is UNCHECKED; GUARDED, which checks with a
\* lookup and creates with a truncating File::create, only if another task
\* changes the host while it is under way.
GuardedSpares ==
    \A t \in Tasks : task[t].lost => Op(t) = "UNCHECKED" \/ task[t].disturbed

\* An operation that fails although nobody else changes the host, which answers
\* by its tree, has changed no name or length itself, but for three cases:
\* SYMLINK makes a link whose target does not exist and then answers NOENT;
\* CREATE with a size the host refuses leaves the file it made or truncated; and
\* a WRITE that fails part way leaves the bytes it wrote.
FailedChangesNothing ==
    \A t \in Tasks :
        (task[t].stat \notin {"none", "OK"} /\ task[t].changed /\ ~task[t].disturbed) =>
            \/ Op(t) = "SYMLINK" /\ task[t].stat = "NOENT"
            \/ Op(t) \in {"UNCHECKED", "GUARDED"} /\ task[t].req.size = Huge
            \/ Op(t) = "WRITE" /\ task[t].stat = "IO" /\ task[t].req.count > 1

\* A READ that reaches the end of the file flags it.
ReadFlagsEof ==
    \A t \in Tasks :
        (task[t].stat = "OK" /\ Op(t) = "READ") => (task[t].reached => task[t].eof)
============================================================================
