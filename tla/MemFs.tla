------------------------------- MODULE MemFs -------------------------------
(***************************************************************************)
(* The tree of nfs3_server's in-memory file system (memfs/mod.rs, struct   *)
(* Fs) as a value: a partial function from ids to entries.  Every method   *)
(* of Fs runs under the RwLock of MemFs and so is one operator here.       *)
(*                                                                         *)
(* A directory keeps its children in a HashSet, which is searched in an    *)
(* order nobody controls.  Names in a directory need not be unique (mkdir  *)
(* does not look for one), so a lookup has a set of possible outcomes.     *)
(* Contents of files are left out.                                         *)
(***************************************************************************)
EXTENDS Integers, FiniteSets, Functions

CONSTANTS
    MaxId,      \* bound on the ids that are handed out
    Names,      \* file names
    Verfs,      \* verifiers of exclusive CREATEs ...
    NoVerf      \* ... and createverf3::default(), which is one of them

ASSUME MemFsAssumption ==
    /\ MaxId \in Nat \ {0}
    /\ NoVerf \in Verfs

Id == 1..MaxId
Root == 1
NoParent == 0       \* the parent of the root, which is never the id of an entry

File == [type : {"file"}, name : Names, verf : Verfs]
Dir == [type : {"dir"}, name : Names \cup {"/"}, parent : Id \cup {NoParent},
        content : SUBSET Id]

NewFile(name, verf) == [type |-> "file", name |-> name, verf |-> verf]

NewDir(name, parent) ==
    [type |-> "dir", name |-> name, parent |-> parent, content |-> {}]

NewFs == [i \in {Root} |-> NewDir("/", NoParent)]

IsDir(e, i) == i \in DOMAIN e /\ e[i].type = "dir"
IsFile(e, i) == i \in DOMAIN e /\ e[i].type = "file"
Dirs(e) == {i \in DOMAIN e : e[i].type = "dir"}

\* What a call answers: a status, and an id when the status is OK.
Ok(i) == [stat |-> "OK", id |-> i]
Err(stat) == [stat |-> stat, id |-> NoParent]

-----------------------------------------------------------------------------
\* The entry with the given name may be any of these.
Matches(e, d, name) ==
    {i \in e[d].content : i \in DOMAIN e /\ e[i].name = name}

\* A child without an entry, when the search meets one.
Dangling(e, d) == e[d].content \ DOMAIN e

\* The possible outcomes of Fs::lookup.
Lookup(e, d, name) ==
    IF d \notin DOMAIN e THEN {Err("NOENT")}
    ELSE IF IsFile(e, d) THEN {Err("NOTDIR")}
    ELSE IF name = "." THEN {Ok(d)}
    ELSE IF name = ".." THEN
        {IF e[d].parent \in DOMAIN e THEN Ok(e[d].parent) ELSE Err("SERVERFAULT")}
    ELSE {Ok(i) : i \in Matches(e, d, name)}
         \cup {Err("SERVERFAULT") : i \in Dangling(e, d)}
         \cup {r \in {Err("NOENT")} : Matches(e, d, name) \cup Dangling(e, d) = {}}

Link(e, d, i) == [e EXCEPT ![d].content = @ \cup {i}]
Unlink(e, d, i) == [e EXCEPT ![d].content = @ \ {i}]
Forget(e, i) == Restrict(e, DOMAIN e \ {i})
Insert(e, i, entry) == [j \in DOMAIN e \cup {i} |-> IF j = i THEN entry ELSE e[j]]

\* Fs::push: the status; the entry is inserted first and taken out again when
\* the parent turns out to be unsuitable.
PushStat(e, d, i) ==
    IF i \in DOMAIN e THEN "EXIST"
    ELSE IF d \notin DOMAIN e THEN "NOENT"
    ELSE IF IsFile(e, d) THEN "NOTDIR"
    ELSE "OK"

Push(e, d, i, entry) == Link(Insert(e, i, entry), d, i)

\* Mutant: a directory that is not empty can be removed.
RemoveOutcomes_NotEmpty(e, d, name) ==
    IF name \in {".", ".."} THEN {Err("INVAL")}
    ELSE IF d \notin DOMAIN e THEN {Err("NOENT")}
    ELSE IF IsFile(e, d) THEN {Err("NOTDIR")}
    ELSE IF Matches(e, d, name) = {} THEN {Err("NOENT")}
    ELSE {Ok(i) : i \in Matches(e, d, name)}

\* Fs::remove: the possible outcomes and the tree after a successful one.  The
\* search skips children without an entry.
RemoveOutcomes(e, d, name) ==
    IF name \in {".", ".."} THEN {Err("INVAL")}
    ELSE IF d \notin DOMAIN e THEN {Err("NOENT")}
    ELSE IF IsFile(e, d) THEN {Err("NOTDIR")}
    ELSE IF Matches(e, d, name) = {} THEN {Err("NOENT")}
    ELSE {IF IsDir(e, i) /\ e[i].content # {} THEN Err("NOTEMPTY") ELSE Ok(i)
            : i \in Matches(e, d, name)}

\* Mutants: deletes the directory in place of the object; leaves the link.
Remove_Directory(e, d, i) == Unlink(Forget(e, d), d, i)
Remove_KeepsLink(e, d, i) == Forget(e, i)

Remove(e, d, i) == Unlink(Forget(e, i), d, i)

-----------------------------------------------------------------------------
\* The directories the loop in Fs::rename visits on its way from d to the root,
\* and where it ends: at the root, or at an id that is not a directory.
ClosedUpwards(e, S) ==
    \A i \in S : IsDir(e, i) /\ i # Root => e[i].parent \in S

Chain(e, d) ==
    {i \in Id \cup {NoParent} :
        \A S \in SUBSET (Id \cup {NoParent}) : d \in S /\ ClosedUpwards(e, S) => i \in S}

\* Mutant: only looks at the target directory, not at those above it.
AncestorStat_OneLevel(e, i, d) == IF i = d THEN "INVAL" ELSE "OK"

\* The status the loop ends with when directory i is to be moved below d.
AncestorStat(e, i, d) ==
    IF i \in Chain(e, d) THEN "INVAL"
    ELSE IF \E j \in Chain(e, d) : j \notin DOMAIN e THEN "NOENT"
    ELSE IF \E j \in Chain(e, d) : IsFile(e, j) THEN "SERVERFAULT"
    ELSE "OK"

\* What the status of the target, as found by lookup, makes of a rename of i.
TargetStat(e, i, toname, target) ==
    IF target.stat = "NOENT" THEN "OK"
    ELSE IF target.stat # "OK" THEN target.stat
    ELSE IF IsDir(e, i) # IsDir(e, target.id) THEN "NOTDIR"
    ELSE IF IsDir(e, i) /\ e[target.id].content # {} THEN "NOTEMPTY"
    ELSE IF toname \in {".", ".."} THEN "INVAL"
    ELSE "OK"

\* An entry gets a new name and, when it is a directory, a new parent.
SetName(e, i, name, parent) ==
    LET e1 == [e EXCEPT ![i].name = name]
    IN  IF IsDir(e, i) THEN [e1 EXCEPT ![i].parent = parent] ELSE e1

\* Mutants: the id stays in the old directory; the parent is not updated.
Rehang_KeepsLink(e, i, dir, to, toname) ==
    IF ~IsDir(e, dir) \/ ~IsDir(e, to) \/ i \notin DOMAIN e
    THEN [stat |-> "SERVERFAULT", entries |-> e]
    ELSE [stat |-> "OK", entries |-> SetName(Link(e, to, i), i, toname, to)]

Rehang_KeepsParent(e, i, dir, to, toname) ==
    IF ~IsDir(e, dir) \/ ~IsDir(e, to) \/ i \notin DOMAIN e
    THEN [stat |-> "SERVERFAULT", entries |-> e]
    ELSE [stat |-> "OK",
          entries |-> [Link(Unlink(e, dir, i), to, i) EXCEPT ![i].name = toname]]

\* The end of Fs::rename: entry i of directory dir becomes toname in directory
\* to.  The id leaves the old directory before the new one is looked at, and
\* enters the new one before the entry itself is.
Rehang(e, i, dir, to, toname) ==
    LET e1 == Unlink(e, dir, i)
        e2 == Link(e1, to, i)
        Fault(tree) == [stat |-> "SERVERFAULT", entries |-> tree]
    IN  IF ~IsDir(e, dir) THEN Fault(e)
        ELSE IF ~IsDir(e, to) \/ i \in e1[to].content THEN Fault(e1)
        ELSE IF i \notin DOMAIN e THEN Fault(e2)
        ELSE [stat |-> "OK", entries |-> SetName(e2, i, toname, to)]

\* Fs::rename, given what the two lookups have found.
Rename(e, dir, name, to, toname, source, target) ==
    LET i == source.id
        e1 == IF target.stat = "OK" THEN Remove(e, to, target.id) ELSE e
        Fail(stat, tree) == [stat |-> stat, entries |-> tree]
    IN  IF source.stat # "OK" THEN Fail(source.stat, e)
        ELSE IF dir = to /\ name = toname THEN Fail("OK", e)
        ELSE IF TargetStat(e, i, toname, target) # "OK"
             THEN Fail(TargetStat(e, i, toname, target), e)
        ELSE IF IsDir(e, i) /\ AncestorStat(e1, i, to) # "OK"
             THEN Fail(AncestorStat(e1, i, to), e1)
        ELSE Rehang(e1, i, dir, to, toname)

-----------------------------------------------------------------------------
\* What makes such a function a tree.
WellTyped(e) ==
    /\ DOMAIN e \subseteq Id
    /\ e \in [DOMAIN e -> File \cup Dir]
    /\ Root \in Dirs(e)

ChildrenExist(e) == \A d \in Dirs(e) : e[d].content \subseteq DOMAIN e \ {Root}

ListedOnce(e) ==
    \A c, d \in Dirs(e) : e[c].content \cap e[d].content # {} => c = d

ParentsList(e) ==
    \A d \in Dirs(e) \ {Root} :
        e[d].parent \in Dirs(e) /\ d \in e[e[d].parent].content

Acyclic(e) ==
    \A S \in SUBSET (Dirs(e) \ {Root}) : S # {} => \E d \in S : e[d].parent \notin S

FileNamesUnique(e) ==
    \A d \in Dirs(e) : \A i, j \in e[d].content :
        IsFile(e, i) /\ IsFile(e, j) /\ e[i].name = e[j].name => i = j

\* A directory lists i.
Listed(e, i) == \E d \in Dirs(e) : i \in e[d].content

\* The files of f are listed, but for those that were files without a
\* directory in e already.
KeepsFiles(e, f) ==
    \A i \in DOMAIN f : IsFile(f, i) /\ (IsFile(e, i) => Listed(e, i)) => Listed(f, i)
=============================================================================
