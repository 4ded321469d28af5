---------------------------- MODULE NfsHandlers ----------------------------
(***************************************************************************)
(* The procedures of nfs3_server that change the name space (CREATE,       *)
(* MKDIR, REMOVE, RMDIR, RENAME; nfs_handlers.rs) running on MemFs.        *)
(*                                                                         *)
(* Each request is handled by a task of its own.  A handler calls the file *)
(* system several times and every call takes the lock of MemFs afresh, so  *)
(* other handlers may run between two calls: between the getattr of the    *)
(* directories and the operation, between the lookup of a GUARDED CREATE   *)
(* and the create, between the allocation of an id and its insertion.      *)
(***************************************************************************)
EXTENDS MemFs

CONSTANTS
    Tasks,          \* tasks that handle requests
    SourceNames     \* the names clients use for the object of a RENAME

ASSUME HandlersAssumption == SourceNames \subseteq Names \cup {".", ".."}

VARIABLES
    entries,    \* Fs.entries
    nextid,     \* MemFs.nextid
    task        \* the tasks

vars == <<entries, nextid, task>>

Request ==
    [op : {"UNCHECKED", "GUARDED", "MKDIR", "REMOVE"}, dir : Id, name : Names]
    \cup [op : {"EXCLUSIVE"}, dir : Id, name : Names, verf : Verfs]
    \cup [op : {"RENAME"}, dir : Id, name : SourceNames, to : Id, toname : Names]

Creates == {"UNCHECKED", "GUARDED", "EXCLUSIVE", "MKDIR"}

\* A task: where it is, its request and the id it has allocated; an idle one
\* keeps the answer to its last request.
Idle(stat) == [pc |-> "idle", stat |-> stat]
Busy(pc, r, i) == [pc |-> pc, req |-> r, id |-> i]

Stats == {"OK", "EXIST", "INVAL", "NOENT", "NOTDIR", "NOTEMPTY", "SERVERFAULT"}

At(t, pc) == task[t].pc = pc
Goto(t, pc) == task' = [task EXCEPT ![t] = Busy(pc, @.req, @.id)]
Reply(t, stat) == task' = [task EXCEPT ![t] = Idle(stat)]

-----------------------------------------------------------------------------
Init ==
    /\ entries = NewFs
    /\ nextid = Root + 1
    /\ task = [t \in Tasks |-> Idle("OK")]

\* The tasks that are going to allocate an id.  There are MaxId ids in all.
Reserved == {t \in Tasks : task[t].pc \in {"guard", "allocate"}}

\* A request arrives and get_wcc_attr finds its (first) directory.  Requests
\* for an object that is gone already are answered with NOENT at once and
\* change nothing.
Call(t, r) ==
    /\ At(t, "idle")
    /\ r.dir \in DOMAIN entries
    /\ r.op = "RENAME" => r.to \in DOMAIN entries
    /\ r.op \in Creates => nextid + Cardinality(Reserved) <= MaxId
    /\ task' = [task EXCEPT ![t] =
            Busy(CASE r.op = "RENAME"  -> "statTo"
                   [] r.op = "GUARDED" -> "guard"
                   [] r.op = "REMOVE"  -> "ready"
                   [] OTHER            -> "allocate", r, NoParent)]
    /\ UNCHANGED <<entries, nextid>>

\* RENAME: get_wcc_attr of the second directory.
StatTo(t) ==
    /\ At(t, "statTo")
    /\ IF task[t].req.to \in DOMAIN entries THEN Goto(t, "ready") ELSE Reply(t, "NOENT")
    /\ UNCHANGED <<entries, nextid>>

\* GUARDED CREATE: lookup of the name; only its success matters.
Guard(t) ==
    /\ At(t, "guard")
    /\ \E found \in Lookup(entries, task[t].req.dir, task[t].req.name) :
        IF found.stat = "OK" THEN Reply(t, "EXIST") ELSE Goto(t, "allocate")
    /\ UNCHANGED <<entries, nextid>>

\* add_dir and add_file take an id before they take the lock.
Allocate(t) ==
    /\ At(t, "allocate")
    /\ nextid <= MaxId
    /\ nextid' = nextid + 1
    /\ task' = [task EXCEPT ![t] = Busy("ready", @.req, nextid)]
    /\ UNCHANGED entries

\* Fs::push and the answer.
PushReply(t, entry) ==
    LET r == task[t].req
        stat == PushStat(entries, r.dir, task[t].id)
    IN  /\ entries' = IF stat = "OK" THEN Push(entries, r.dir, task[t].id, entry)
                                     ELSE entries
        /\ Reply(t, stat)

\* The second half of add_dir.
AddDir(t) ==
    /\ At(t, "ready") /\ task[t].req.op = "MKDIR"
    /\ PushReply(t, NewDir(task[t].req.name, task[t].req.dir))
    /\ UNCHANGED nextid

\* Mutant: pushes the file without looking for the name under the lock.
AddFile_Unchecked(t) ==
    LET r == task[t].req
    IN  /\ At(t, "ready") /\ r.op \in Creates \ {"MKDIR"}
        /\ PushReply(t, NewFile(r.name, IF r.op = "EXCLUSIVE" THEN r.verf ELSE NoVerf))
        /\ UNCHANGED nextid

\* The second half of add_file: look for the name and push, under one lock.  A
\* file with the verifier of an EXCLUSIVE CREATE counts as created by it.
AddFile(t) ==
    LET r == task[t].req
        verf == IF r.op = "EXCLUSIVE" THEN r.verf ELSE NoVerf
        Repeated(i) == r.op = "EXCLUSIVE" /\ IsFile(entries, i) /\ entries[i].verf = verf
    IN  /\ At(t, "ready") /\ r.op \in Creates \ {"MKDIR"}
        /\ \E found \in Lookup(entries, r.dir, r.name) :
            IF found.stat = "NOENT" THEN PushReply(t, NewFile(r.name, verf))
            ELSE /\ Reply(t, IF found.stat # "OK" THEN found.stat
                             ELSE IF Repeated(found.id) THEN "OK" ELSE "EXIST")
                 /\ UNCHANGED entries
        /\ UNCHANGED nextid

\* REMOVE and RMDIR.
RemoveEntry(t) ==
    LET r == task[t].req
    IN  /\ At(t, "ready") /\ r.op = "REMOVE"
        /\ \E found \in RemoveOutcomes(entries, r.dir, r.name) :
            /\ entries' = IF found.stat = "OK" THEN Remove(entries, r.dir, found.id)
                                               ELSE entries
            /\ Reply(t, found.stat)
        /\ UNCHANGED nextid

RenameEntry(t) ==
    LET r == task[t].req
    IN  /\ At(t, "ready") /\ r.op = "RENAME"
        /\ \E source \in Lookup(entries, r.dir, r.name),
              target \in Lookup(entries, r.to, r.toname) :
            LET res == Rename(entries, r.dir, r.name, r.to, r.toname, source, target)
            IN  entries' = res.entries /\ Reply(t, res.stat)
        /\ UNCHANGED nextid

Next ==
    \E t \in Tasks :
        \/ \E r \in Request : Call(t, r)
        \/ StatTo(t) \/ Guard(t) \/ Allocate(t)
        \/ AddDir(t) \/ AddFile(t) \/ RemoveEntry(t) \/ RenameEntry(t)

Spec == Init /\ [][Next]_vars

-----------------------------------------------------------------------------
\* Every variable stays in its type.
TypeOK ==
    /\ WellTyped(entries)
    /\ nextid \in 1..(MaxId + 1)
    /\ task \in [Tasks -> [pc : {"idle"}, stat : Stats]
                        \cup [pc : {"statTo", "guard", "allocate", "ready"},
                              req : Request, id : Id \cup {NoParent}]]

\* The next three hold as long as RENAME calls its object by a plain name; with
\* "." as a source name OneParent fails (and the other two after it).

\* No directory lists the root or an id that has no entry, whatever the order
\* in which removes, renames of plain names and creates meet: such a child makes
\* every lookup that comes across it fail with SERVERFAULT.
NoDanglingChild == ChildrenExist(entries)

\* An entry is listed by at most one directory: remove deletes the entry and
\* unlinks it from the directory it was found in only, and rename takes it out of
\* the directory that it puts it into another from.
OneParent == ListedOnce(entries)

\* A directory below the root is listed by the directory its parent field
\* names, so ".." leads to where it hangs, if sources have plain names.
ParentLists == ParentsList(entries)

\* No set of directories is cut off from the root, each hanging below another
\* of them: rename's walk to the root, made under the write lock, ends.
NoCycle == Acyclic(entries)

\* Two files of a directory never have the same name, however many CREATEs
\* and RENAMEs of that name race.
UniqueFileNames == FileNamesUnique(entries)

\* Every file is listed by a directory: rename moves a file, it does not lose
\* it.
NoOrphanFile == \A i \in DOMAIN entries : IsFile(entries, i) => Listed(entries, i)

\* The last step of a RENAME whose second directory has been removed since the
\* handler looked at it.
LateRename == \E t \in Tasks : RenameEntry(t) /\ task[t].req.to \notin DOMAIN entries

\* No other step leaves a file that no directory lists: not two RENAMEs that
\* cross, not one that meets a REMOVE of its source or of its target.
LostOnlyByLateRename == [][KeepsFiles(entries, entries') \/ LateRename]_vars
=============================================================================
