---------------------------- MODULE MemFsProofs ----------------------------
(***************************************************************************)
(* What the operators of MemFs do to a tree.  Each edit is described once, *)
(* field by field; the facts about trees follow from the description.      *)
(***************************************************************************)
EXTENDS MemFs, TLAPS

\* f is e without entry i and without the link from d to i.
Pruned(e, f, d, i) ==
    /\ DOMAIN f = DOMAIN e \ {i}
    /\ \A j \in DOMAIN f :
        /\ f[j].type = e[j].type
        /\ f[j].name = e[j].name
        /\ e[j].type = "dir" =>
            /\ f[j].parent = e[j].parent
            /\ f[j].content = IF j = d THEN e[j].content \ {i} ELSE e[j].content

\* f is e with a link from d to i.
Linked(e, f, d, i) ==
    /\ DOMAIN f = DOMAIN e
    /\ \A j \in DOMAIN e :
        /\ f[j].type = e[j].type
        /\ f[j].name = e[j].name
        /\ e[j].type = "dir" =>
            /\ f[j].parent = e[j].parent
            /\ f[j].content = IF j = d THEN e[j].content \cup {i} ELSE e[j].content

\* f is e with entry i put under the given name, and parent when it is a
\* directory, into d.
Added(e, f, d, i, name, isdir) ==
    /\ DOMAIN f = DOMAIN e \cup {i}
    /\ f[i].type = (IF isdir THEN "dir" ELSE "file")
    /\ f[i].name = name
    /\ isdir => f[i].parent = d /\ f[i].content = {}
    /\ \A j \in DOMAIN e :
        /\ f[j].type = e[j].type
        /\ f[j].name = e[j].name
        /\ e[j].type = "dir" =>
            /\ f[j].parent = e[j].parent
            /\ f[j].content = IF j = d THEN e[j].content \cup {i} ELSE e[j].content

\* f is e with a new name for i, and a new parent when it is a directory.
Renamed(e, f, i, to, toname) ==
    /\ DOMAIN f = DOMAIN e
    /\ \A j \in DOMAIN e :
        /\ f[j].type = e[j].type
        /\ f[j].name = IF j = i THEN toname ELSE e[j].name
        /\ e[j].type = "dir" =>
            /\ f[j].parent = IF j = i THEN to ELSE e[j].parent
            /\ f[j].content = e[j].content

\* f is e with the links to i from dir taken away and, if linked, one from to
\* added; if named, i also has its new name and parent.
Moved(e, f, i, dir, to, toname, linked, named) ==
    /\ DOMAIN f = DOMAIN e
    /\ \A j \in DOMAIN e :
        /\ f[j].type = e[j].type
        /\ f[j].name = IF j = i /\ named THEN toname ELSE e[j].name
        /\ e[j].type = "dir" =>
            /\ f[j].parent = IF j = i /\ named THEN to ELSE e[j].parent
            /\ f[j].content = (IF j = dir THEN e[j].content \ {i} ELSE e[j].content)
                              \cup (IF j = to /\ linked THEN {i} ELSE {})

-----------------------------------------------------------------------------
\* An entry is a file or a directory, and its type says which.
LEMMA EntryKinds ==
    ASSUME NEW e, WellTyped(e), NEW j \in DOMAIN e
    PROVE  /\ e[j].type \in {"file", "dir"}
           /\ e[j].type = "file" => e[j] \in File
           /\ e[j].type = "dir" => e[j] \in Dir
           /\ j \in Dirs(e) <=> e[j].type = "dir"
  BY DEF WellTyped, File, Dir, Dirs

\* A child is taken out of the content of one directory; nothing else changes.
LEMMA UnlinkProperties ==
    ASSUME NEW e, WellTyped(e), NEW d \in Dirs(e), NEW i
    PROVE  /\ WellTyped(Unlink(e, d, i))
           /\ Moved(e, Unlink(e, d, i), i, d, d, "", FALSE, FALSE)
  <1>1. e[d] \in Dir
    BY EntryKinds DEF Dirs
  <1>2. [e[d] EXCEPT !.content = @ \ {i}] \in Dir
    BY <1>1 DEF Dir
  <1>3. DOMAIN Unlink(e, d, i) = DOMAIN e
    BY DEF Unlink
  <1>4. \A j \in DOMAIN e : Unlink(e, d, i)[j] =
            IF j = d THEN [e[d] EXCEPT !.content = @ \ {i}] ELSE e[j]
    BY DEF Unlink, WellTyped
  <1>5. WellTyped(Unlink(e, d, i))
    BY <1>1, <1>2, <1>3, <1>4 DEF WellTyped, Dirs, Unlink, Dir
  <1>6. Moved(e, Unlink(e, d, i), i, d, d, "", FALSE, FALSE)
    BY <1>1, <1>3, <1>4, EntryKinds DEF Moved, Dir
  <1> QED BY <1>5, <1>6

\* A child is put into the content of one directory; nothing else changes.
LEMMA LinkProperties ==
    ASSUME NEW e, WellTyped(e), NEW d \in Dirs(e), NEW i \in Id
    PROVE  /\ WellTyped(Link(e, d, i))
           /\ Linked(e, Link(e, d, i), d, i)
  <1>1. e[d] \in Dir
    BY EntryKinds DEF Dirs
  <1>2. [e[d] EXCEPT !.content = @ \cup {i}] \in Dir
    BY <1>1 DEF Dir
  <1>3. DOMAIN Link(e, d, i) = DOMAIN e
    BY DEF Link
  <1>4. \A j \in DOMAIN e : Link(e, d, i)[j] =
            IF j = d THEN [e[d] EXCEPT !.content = @ \cup {i}] ELSE e[j]
    BY DEF Link, WellTyped
  <1>5. WellTyped(Link(e, d, i))
    BY <1>1, <1>2, <1>3, <1>4 DEF WellTyped, Dirs, Link, Dir
  <1>6. /\ Link(e, d, i)[d].type = "dir"
        /\ Link(e, d, i)[d].name = e[d].name
        /\ Link(e, d, i)[d].parent = e[d].parent
        /\ Link(e, d, i)[d].content = e[d].content \cup {i}
    BY <1>1, <1>4 DEF Dir, Dirs
  <1>7. Linked(e, Link(e, d, i), d, i)
    BY <1>3, <1>4, <1>6, EntryKinds DEF Linked, Dirs
  <1> QED BY <1>5, <1>7

\* Fs::remove: the entry is gone, and gone from the directory it was looked up in.
LEMMA RemoveProperties ==
    ASSUME NEW e, WellTyped(e), NEW d \in Dirs(e), NEW i, i # Root
    PROVE  /\ WellTyped(Remove(e, d, i))
           /\ Pruned(e, Remove(e, d, i), d, i)
  <1> DEFINE g == Forget(e, i)
  <1>1. /\ DOMAIN g = DOMAIN e \ {i}
        /\ \A j \in DOMAIN g : g[j] = e[j]
    BY DEF Forget, Restrict
  <1>2. g \in [DOMAIN g -> File \cup Dir]
    BY <1>1 DEF WellTyped, Forget, Restrict
  <1>3. WellTyped(g)
    BY <1>1, <1>2 DEF WellTyped, Dirs
  <1>4. CASE d = i
    <2>1. Remove(e, d, i) = g
      BY <1>1, <1>2, <1>4 DEF Remove, Unlink
    <2> QED BY <1>1, <1>3, <1>4, <2>1 DEF Pruned
  <1>5. CASE d # i
    <2>1. d \in Dirs(g)
      BY <1>1, <1>5 DEF Dirs
    <2>2. PICK f : f = Unlink(g, d, i)
      OBVIOUS
    <2>3. WellTyped(f) /\ Moved(g, f, i, d, d, "", FALSE, FALSE)
      BY <1>3, <2>1, <2>2, UnlinkProperties
    <2>4. Pruned(e, f, d, i)
      BY <1>1, <2>3 DEF Moved, Pruned
    <2> QED BY <2>2, <2>3, <2>4 DEF Remove
  <1> QED BY <1>4, <1>5

\* Fs::push: a new file or an empty directory, listed in its parent.
LEMMA PushProperties ==
    ASSUME NEW e, WellTyped(e), NEW d \in Dirs(e), NEW i \in Id, i \notin DOMAIN e,
           NEW name \in Names
    PROVE  /\ \A verf \in Verfs :
                LET f == Push(e, d, i, NewFile(name, verf))
                IN  WellTyped(f) /\ Added(e, f, d, i, name, FALSE)
           /\ LET f == Push(e, d, i, NewDir(name, d))
              IN  WellTyped(f) /\ Added(e, f, d, i, name, TRUE)
  <1>1. ASSUME NEW entry \in File \cup Dir
        PROVE  LET g == Insert(e, i, entry) f == Push(e, d, i, entry)
               IN  /\ WellTyped(g) /\ WellTyped(f)
                   /\ DOMAIN g = DOMAIN e \cup {i}
                   /\ g[i] = entry
                   /\ \A j \in DOMAIN e : g[j] = e[j]
                   /\ Linked(g, f, d, i)
    <2>1. PICK g : g = Insert(e, i, entry)
      OBVIOUS
    <2>2. DOMAIN g = DOMAIN e \cup {i} /\ g[i] = entry /\ \A j \in DOMAIN e : g[j] = e[j]
      BY <2>1 DEF Insert
    <2>3. g \in [DOMAIN g -> File \cup Dir]
      BY <2>1, <2>2 DEF Insert, WellTyped
    <2>4. WellTyped(g) /\ d \in Dirs(g)
      BY <2>2, <2>3 DEF WellTyped, Dirs
    <2>5. WellTyped(Link(g, d, i)) /\ Linked(g, Link(g, d, i), d, i)
      BY <2>4, LinkProperties
    <2> QED BY <2>1, <2>2, <2>4, <2>5 DEF Push
  <1>2. ASSUME NEW verf \in Verfs
        PROVE  LET f == Push(e, d, i, NewFile(name, verf))
               IN  WellTyped(f) /\ Added(e, f, d, i, name, FALSE)
    <2>1. PICK entry : entry = NewFile(name, verf)
      OBVIOUS
    <2>2. entry \in File /\ entry.type = "file" /\ entry.name = name
      BY <2>1 DEF NewFile, File
    <2>3. PICK g, f : g = Insert(e, i, entry) /\ f = Push(e, d, i, entry)
      OBVIOUS
    <2>4. /\ WellTyped(f) /\ Linked(g, f, d, i)
          /\ DOMAIN g = DOMAIN e \cup {i} /\ g[i] = entry
          /\ \A j \in DOMAIN e : g[j] = e[j]
      BY <1>1, <2>2, <2>3
    <2>5. Added(e, f, d, i, name, FALSE)
      BY <2>2, <2>4 DEF Linked, Added
    <2> QED BY <2>1, <2>3, <2>4, <2>5
  <1>3. LET f == Push(e, d, i, NewDir(name, d))
        IN  WellTyped(f) /\ Added(e, f, d, i, name, TRUE)
    <2>1. PICK entry : entry = NewDir(name, d)
      OBVIOUS
    <2>2. /\ entry \in Dir /\ entry.type = "dir" /\ entry.name = name
          /\ entry.parent = d /\ entry.content = {}
      BY <2>1 DEF NewDir, Dir, Dirs, WellTyped
    <2>3. PICK g, f : g = Insert(e, i, entry) /\ f = Push(e, d, i, entry)
      OBVIOUS
    <2>4. /\ WellTyped(f) /\ Linked(g, f, d, i)
          /\ DOMAIN g = DOMAIN e \cup {i} /\ g[i] = entry
          /\ \A j \in DOMAIN e : g[j] = e[j]
      BY <1>1, <2>2, <2>3
    <2>5. i # d
      BY DEF Dirs
    <2>6. /\ DOMAIN f = DOMAIN e \cup {i}
          /\ f[i].type = "dir" /\ f[i].name = name
          /\ f[i].parent = d /\ f[i].content = {}
      BY <2>2, <2>4, <2>5 DEF Linked
    <2>7. Added(e, f, d, i, name, TRUE)
      BY <2>4, <2>6 DEF Linked, Added
    <2> QED BY <2>1, <2>3, <2>4, <2>7
  <1> QED BY <1>2, <1>3

\* The name, and the parent field of a directory, are set; contents are left alone.
LEMMA SetNameProperties ==
    ASSUME NEW e, WellTyped(e), NEW i \in DOMAIN e, NEW to \in Id, NEW toname \in Names
    PROVE  /\ WellTyped(SetName(e, i, toname, to))
           /\ Renamed(e, SetName(e, i, toname, to), i, to, toname)
  <1> DEFINE g == [e EXCEPT ![i].name = toname]
             h == [g EXCEPT ![i].parent = to]
  <1>1. e \in [DOMAIN e -> File \cup Dir] /\ DOMAIN e \subseteq Id /\ Root \in Dirs(e)
    BY DEF WellTyped
  <1>2. DOMAIN g = DOMAIN e /\ DOMAIN h = DOMAIN e
    OBVIOUS
  <1>3. \A j \in DOMAIN e : g[j] = IF j = i THEN [e[i] EXCEPT !.name = toname] ELSE e[j]
    BY <1>1
  <1>4. CASE e[i].type = "file"
    <2>1. e[i] \in File /\ ~IsDir(e, i)
      BY <1>4, EntryKinds DEF IsDir
    <2>2. PICK r : r = [e[i] EXCEPT !.name = toname]
      OBVIOUS
    <2>3. r \in File /\ r.type = "file" /\ r.name = toname
      BY <2>1, <2>2 DEF File
    <2>4. g[i] = r /\ \A j \in DOMAIN e : j # i => g[j] = e[j]
      BY <1>3, <2>2
    <2>5. g \in [DOMAIN e -> File \cup Dir]
      BY <1>1, <1>2, <2>3, <2>4
    <2>6. WellTyped(g)
      BY <1>1, <1>2, <1>4, <2>3, <2>4, <2>5 DEF WellTyped, Dirs
    <2>7. Renamed(e, g, i, to, toname)
      BY <1>2, <1>4, <2>3, <2>4 DEF Renamed
    <2> QED BY <2>1, <2>6, <2>7 DEF SetName
  <1>5. CASE e[i].type = "dir"
    <2>1. e[i] \in Dir /\ IsDir(e, i)
      BY <1>5, EntryKinds DEF IsDir
    <2>2. PICK r : r = [e[i] EXCEPT !.name = toname]
      OBVIOUS
    <2>3. /\ r \in Dir /\ r.type = "dir" /\ r.name = toname
          /\ r.parent = e[i].parent /\ r.content = e[i].content
      BY <2>1, <2>2 DEF Dir
    <2>4. PICK q : q = [r EXCEPT !.parent = to]
      OBVIOUS
    <2>5. /\ q \in Dir /\ q.type = "dir" /\ q.name = toname
          /\ q.parent = to /\ q.content = e[i].content
      BY <2>3, <2>4 DEF Dir
    <2>6. h[i] = q /\ \A j \in DOMAIN e : j # i => h[j] = e[j]
      BY <1>2, <1>3, <2>2, <2>4
    <2>7. h \in [DOMAIN e -> File \cup Dir]
      BY <1>1, <1>2, <2>5, <2>6
    <2>8. WellTyped(h)
      BY <1>1, <1>2, <1>5, <2>5, <2>6, <2>7 DEF WellTyped, Dirs
    <2>9. Renamed(e, h, i, to, toname)
      BY <1>2, <1>5, <2>5, <2>6 DEF Renamed
    <2> QED BY <2>1, <2>8, <2>9 DEF SetName
  <1> QED BY <1>4, <1>5, EntryKinds

\* How far the end of rename gets, and what it has done by then.
Rehung(e, f, stat, i, dir, to, toname) ==
    \/ /\ stat = "SERVERFAULT" /\ f = e
    \/ /\ stat = "SERVERFAULT" /\ IsDir(e, dir)
       /\ ~IsDir(e, to) \/ (i \in e[to].content /\ to # dir)
       /\ Moved(e, f, i, dir, to, toname, FALSE, FALSE)
    \/ /\ stat = "SERVERFAULT" /\ IsDir(e, dir) /\ IsDir(e, to)
       /\ i \notin DOMAIN e
       /\ Moved(e, f, i, dir, to, toname, TRUE, FALSE)
    \/ /\ stat = "OK" /\ IsDir(e, dir) /\ IsDir(e, to) /\ i \in DOMAIN e
       /\ Moved(e, f, i, dir, to, toname, TRUE, TRUE)

\* The last part of Fs::rename, with what each of its early returns has already done.
LEMMA RehangProperties ==
    ASSUME NEW e, WellTyped(e), NEW i \in Id, NEW dir, NEW to \in Id, NEW toname \in Names,
           NEW r, r = Rehang(e, i, dir, to, toname)
    PROVE  WellTyped(r.entries) /\ Rehung(e, r.entries, r.stat, i, dir, to, toname)
  <1> DEFINE e1 == Unlink(e, dir, i)
             e2 == Link(e1, to, i)
  <1>1. CASE ~IsDir(e, dir)
    BY <1>1 DEF Rehang, Rehung
  <1>2. CASE IsDir(e, dir)
    <2>1. dir \in Dirs(e)
      BY <1>2 DEF IsDir, Dirs
    <2>2. WellTyped(e1) /\ Moved(e, e1, i, dir, dir, "", FALSE, FALSE)
      BY <2>1, UnlinkProperties
    <2>3. Moved(e, e1, i, dir, to, toname, FALSE, FALSE)
      BY <2>2 DEF Moved
    <2> HIDE DEF e1
    <2>4. CASE ~IsDir(e, to) \/ i \in e1[to].content
      <3>1. r.stat = "SERVERFAULT" /\ r.entries = e1
        BY <1>2, <2>4 DEF Rehang, e1
      <3>2. ~IsDir(e, to) \/ (i \in e[to].content /\ to # dir)
        BY <2>3, <2>4 DEF Moved, IsDir
      <3> QED BY <1>2, <2>2, <2>3, <3>1, <3>2 DEF Rehung
    <2>5. CASE IsDir(e, to) /\ i \notin e1[to].content
      <3>1. to \in Dirs(e1)
        BY <2>3, <2>5 DEF Moved, IsDir, Dirs
      <3>2. WellTyped(e2) /\ Linked(e1, e2, to, i)
        BY <2>2, <3>1, LinkProperties
      <3>3. Moved(e, e2, i, dir, to, toname, TRUE, FALSE)
        BY <2>3, <3>2 DEF Moved, Linked
      <3> HIDE DEF e2
      <3>4. CASE i \notin DOMAIN e
        <4>1. r.stat = "SERVERFAULT" /\ r.entries = e2
          BY <1>2, <2>5, <3>4 DEF Rehang, e1, e2
        <4> QED BY <1>2, <2>5, <3>2, <3>3, <3>4, <4>1 DEF Rehung
      <3>5. CASE i \in DOMAIN e
        <4>1. PICK f : f = SetName(e2, i, toname, to)
          OBVIOUS
        <4>2. r.stat = "OK" /\ r.entries = f
          BY <1>2, <2>5, <3>5, <4>1 DEF Rehang, e1, e2
        <4>3. i \in DOMAIN e2
          BY <3>3, <3>5 DEF Moved
        <4>4. WellTyped(f) /\ Renamed(e2, f, i, to, toname)
          BY <3>2, <4>1, <4>3, SetNameProperties
        <4>5. Moved(e, f, i, dir, to, toname, TRUE, TRUE)
          BY <3>3, <4>4 DEF Moved, Renamed
        <4> QED BY <1>2, <2>5, <3>5, <4>2, <4>4, <4>5 DEF Rehung
      <3> QED BY <3>4, <3>5
    <2> QED BY <2>4, <2>5
  <1> QED BY <1>1, <1>2

\* A parent that still exists is a directory.
ParentsAreDirs(e) ==
    \A d \in Dirs(e) : e[d].parent \in DOMAIN e => e[d].parent \in Dirs(e)

\* What a lookup may answer.
LEMMA LookupProperties ==
    ASSUME NEW e, WellTyped(e), ParentsAreDirs(e), NEW d, NEW name,
           NEW r \in Lookup(e, d, name)
    PROVE  /\ r.stat \in {"OK", "NOENT", "NOTDIR", "SERVERFAULT"}
           /\ r.stat = "OK" => d \in Dirs(e) /\ r.id \in DOMAIN e
           /\ r.stat = "OK" /\ name \notin {".", ".."} => r.id \in Matches(e, d, name)
           /\ r.stat = "OK" /\ name \in {".", ".."} => r.id \in Dirs(e)
           /\ r.stat = "NOENT" /\ d \in DOMAIN e =>
                d \in Dirs(e) /\ Matches(e, d, name) = {}
  <1>1. CASE d \notin DOMAIN e
    BY <1>1 DEF Lookup, Err
  <1>2. CASE d \in DOMAIN e /\ IsFile(e, d)
    BY <1>2 DEF Lookup, Err
  <1>3. CASE d \in DOMAIN e /\ ~IsFile(e, d)
    <2>1. d \in Dirs(e)
      BY <1>3, EntryKinds DEF IsFile
    <2>2. CASE name = "."
      BY <1>3, <2>1, <2>2 DEF Lookup, Ok
    <2>3. CASE name = ".."
      <3>1. r = IF e[d].parent \in DOMAIN e THEN Ok(e[d].parent) ELSE Err("SERVERFAULT")
        BY <1>3, <2>3 DEF Lookup
      <3> QED BY <2>1, <2>3, <3>1 DEF Ok, Err, ParentsAreDirs
    <2>4. CASE name \notin {".", ".."}
      <3>1. \/ \E i \in Matches(e, d, name) : r = Ok(i)
            \/ r = Err("SERVERFAULT")
            \/ r = Err("NOENT") /\ Matches(e, d, name) \cup Dangling(e, d) = {}
        BY <1>3, <2>4 DEF Lookup
      <3> QED BY <2>1, <2>4, <3>1 DEF Ok, Err, Matches
    <2> QED BY <2>2, <2>3, <2>4
  <1> QED BY <1>1, <1>2, <1>3

-----------------------------------------------------------------------------
\* The directories rename visits contain the first and are closed upwards.
LEMMA ChainProperties ==
    ASSUME NEW e, WellTyped(e), NEW d \in Id
    PROVE  d \in Chain(e, d) /\ ClosedUpwards(e, Chain(e, d))
  <1>1. d \in Chain(e, d)
    BY DEF Chain
  <1>2. ASSUME NEW i \in Chain(e, d), IsDir(e, i), i # Root
        PROVE  e[i].parent \in Chain(e, d)
    <2>1. e[i].parent \in Id \cup {NoParent}
      BY <1>2, EntryKinds DEF IsDir, Dir
    <2>2. ASSUME NEW S \in SUBSET (Id \cup {NoParent}), d \in S, ClosedUpwards(e, S)
          PROVE  e[i].parent \in S
      BY <1>2, <2>2 DEF Chain, ClosedUpwards
    <2> QED BY <2>1, <2>2 DEF Chain
  <1> QED BY <1>1, <1>2 DEF ClosedUpwards

\* When the walk ends well it has met the root, and not the directory to move.
LEMMA AncestorProperties ==
    ASSUME NEW e, WellTyped(e), Acyclic(e), NEW i, NEW d \in Id,
           AncestorStat(e, i, d) = "OK"
    PROVE  i \notin Chain(e, d) /\ i # Root /\ d \in Dirs(e)
  <1>1. /\ i \notin Chain(e, d)
        /\ \A j \in Chain(e, d) : j \in DOMAIN e /\ ~IsFile(e, j)
    BY DEF AncestorStat
  <1>2. Chain(e, d) \subseteq Dirs(e)
    BY <1>1, EntryKinds DEF IsFile
  <1>3. Root \in Chain(e, d)
    <2> SUFFICES ASSUME Root \notin Chain(e, d) PROVE FALSE
      OBVIOUS
    <2>1. Chain(e, d) \in SUBSET (Dirs(e) \ {Root}) /\ Chain(e, d) # {}
      BY <1>2, ChainProperties
    <2>2. PICK j \in Chain(e, d) : e[j].parent \notin Chain(e, d)
      BY <2>1 DEF Acyclic
    <2> QED BY <1>2, <2>2, ChainProperties DEF ClosedUpwards, IsDir, Dirs
  <1> QED BY <1>1, <1>2, <1>3, ChainProperties

\* Directories may disappear ...
LEMMA AcyclicShrinks ==
    ASSUME NEW e, NEW f, Acyclic(e), Dirs(f) \subseteq Dirs(e),
           \A d \in Dirs(f) : f[d].parent = e[d].parent
    PROVE  Acyclic(f)
  <1> SUFFICES ASSUME NEW S \in SUBSET (Dirs(f) \ {Root}), S # {}
               PROVE  \E d \in S : f[d].parent \notin S
    BY DEF Acyclic
  <1>1. S \in SUBSET (Dirs(e) \ {Root})
    OBVIOUS
  <1>2. PICK d \in S : e[d].parent \notin S
    BY <1>1 DEF Acyclic
  <1> QED BY <1>2

\* ... one that is nobody's parent may appear ...
LEMMA AcyclicGrows ==
    ASSUME NEW e, NEW f, Acyclic(e), NEW i, i \notin Dirs(e),
           Dirs(f) \subseteq Dirs(e) \cup {i},
           \A d \in Dirs(e) : f[d].parent = e[d].parent /\ e[d].parent # i,
           f[i].parent # i
    PROVE  Acyclic(f)
  <1> SUFFICES ASSUME NEW S \in SUBSET (Dirs(f) \ {Root}), S # {},
                      \A d \in S : f[d].parent \in S
               PROVE  FALSE
    BY DEF Acyclic
  <1>1. PICK T : T = S \ {i}
    OBVIOUS
  <1>2. T # {}
    BY <1>1
  <1>3. T \in SUBSET (Dirs(e) \ {Root})
    BY <1>1
  <1>4. PICK d \in T : e[d].parent \notin T
    BY <1>2, <1>3 DEF Acyclic
  <1> QED BY <1>1, <1>3, <1>4

\* ... and one may move to a place that is not below itself.
LEMMA AcyclicMoves ==
    ASSUME NEW e, NEW f, WellTyped(e), Acyclic(e), NEW i, NEW to \in Id,
           i \notin Chain(e, to), Dirs(f) = Dirs(e),
           \A d \in Dirs(e) : f[d].parent = IF d = i THEN to ELSE e[d].parent
    PROVE  Acyclic(f)
  <1> SUFFICES ASSUME NEW S \in SUBSET (Dirs(f) \ {Root}), S # {},
                      \A d \in S : f[d].parent \in S
               PROVE  FALSE
    BY DEF Acyclic
  <1>1. CASE i \notin S
    <2>1. PICK d \in S : e[d].parent \notin S
      BY DEF Acyclic
    <2> QED BY <1>1, <2>1
  <1>2. CASE i \in S
    <2>1. PICK T : T = S \cap Chain(e, to)
      OBVIOUS
    <2>2. to \in S
      BY <1>2
    <2>3. to \in T
      BY <2>1, <2>2, ChainProperties
    <2>4. T \in SUBSET (Dirs(e) \ {Root})
      BY <2>1
    <2>5. PICK d \in T : e[d].parent \notin T
      BY <2>3, <2>4 DEF Acyclic
    <2>6. d # i /\ f[d].parent = e[d].parent /\ e[d].parent \in S
      BY <2>1, <2>4, <2>5
    <2>7. e[d].parent \in Chain(e, to)
      BY <2>1, <2>4, <2>5, ChainProperties DEF ClosedUpwards, IsDir, Dirs
    <2> QED BY <2>1, <2>5, <2>6, <2>7
  <1> QED BY <1>1, <1>2

-----------------------------------------------------------------------------
\* The part of the invariant that holds whatever names clients use.
FilesListedOnce(e) ==
    \A c, d \in Dirs(e) : \A i \in e[c].content \cap e[d].content :
        IsFile(e, i) => c = d

RootUnlisted(e) == \A d \in Dirs(e) : Root \notin e[d].content

Safe(e) ==
    /\ WellTyped(e)
    /\ Acyclic(e)
    /\ ParentsAreDirs(e)
    /\ RootUnlisted(e)
    /\ FilesListedOnce(e)
    /\ FileNamesUnique(e)

\* The part that needs the objects of renames to be called by their names.
Sound(e) == ChildrenExist(e) /\ ListedOnce(e) /\ ParentsList(e)

\* Nothing in e refers to i.
Fresh(e, i) ==
    /\ i \notin DOMAIN e
    /\ \A d \in Dirs(e) : e[d].parent # i /\ i \notin e[d].content

\* Fs::remove keeps the tree safe.
LEMMA RemoveSafe ==
    ASSUME NEW e, NEW f, Safe(e), NEW d \in Dirs(e), NEW i, i # Root,
           f = Remove(e, d, i)
    PROVE  /\ Safe(f)
           /\ \A j : Fresh(e, j) => Fresh(f, j)
           /\ Pruned(e, f, d, i)
  <1>1. WellTyped(f) /\ Pruned(e, f, d, i)
    BY RemoveProperties DEF Safe
  <1>2. /\ Dirs(f) = Dirs(e) \ {i}
        /\ \A j \in Dirs(f) : /\ f[j].parent = e[j].parent
                              /\ f[j].content \subseteq e[j].content
        /\ \A j \in DOMAIN f : j \in DOMAIN e /\ f[j].name = e[j].name
        /\ \A j : IsFile(f, j) => IsFile(e, j)
    BY <1>1 DEF Pruned, Dirs, IsFile
  <1>3. Acyclic(f)
    BY <1>2, AcyclicShrinks DEF Safe
  <1>4. ParentsAreDirs(f)
    BY <1>1, <1>2 DEF Safe, ParentsAreDirs, Pruned
  <1>5. RootUnlisted(f)
    BY <1>2 DEF Safe, RootUnlisted
  <1>6. FilesListedOnce(f)
    BY <1>2 DEF Safe, FilesListedOnce
  <1>7. FileNamesUnique(f)
    <2> SUFFICES ASSUME NEW c \in Dirs(f), NEW j \in f[c].content, NEW k \in f[c].content,
                        IsFile(f, j), IsFile(f, k), f[j].name = f[k].name
                 PROVE  j = k
      BY DEF FileNamesUnique
    <2>1. j \in DOMAIN f /\ k \in DOMAIN f
      BY DEF IsFile
    <2> QED BY <1>2, <2>1 DEF Safe, FileNamesUnique
  <1>8. \A j : Fresh(e, j) => Fresh(f, j)
    BY <1>2 DEF Fresh
  <1> QED BY <1>1, <1>3, <1>4, <1>5, <1>6, <1>7, <1>8 DEF Safe

\* Fs::push keeps the tree safe; the name was free if a file is added.
LEMMA AddSafe ==
    ASSUME NEW e, NEW f, Safe(e), WellTyped(f), NEW d \in Dirs(e), NEW i, Fresh(e, i),
           NEW name, NEW isdir \in BOOLEAN, Added(e, f, d, i, name, isdir),
           ~isdir => Matches(e, d, name) = {}
    PROVE  Safe(f) /\ \A j : Fresh(e, j) /\ j # i => Fresh(f, j)
  <1>1. i \notin DOMAIN e /\ i # d /\ i # Root
    BY DEF Fresh, Dirs, Safe, WellTyped
  <1>2. /\ Dirs(f) = IF isdir THEN Dirs(e) \cup {i} ELSE Dirs(e)
        /\ \A j \in Dirs(e) :
            /\ f[j].parent = e[j].parent
            /\ f[j].content = IF j = d THEN e[j].content \cup {i} ELSE e[j].content
        /\ isdir => f[i].parent = d /\ f[i].content = {}
    <2>1. \A j \in DOMAIN f : j \in Dirs(f) <=> IF j = i THEN isdir ELSE j \in Dirs(e)
      BY <1>1 DEF Added, Dirs
    <2>2. Dirs(f) = IF isdir THEN Dirs(e) \cup {i} ELSE Dirs(e)
      BY <1>1, <2>1 DEF Added, Dirs
    <2>3. isdir => f[i].parent = d /\ f[i].content = {}
      BY DEF Added
    <2>4. \A j \in Dirs(e) :
            /\ f[j].parent = e[j].parent
            /\ f[j].content = IF j = d THEN e[j].content \cup {i} ELSE e[j].content
      BY DEF Added, Dirs
    <2> QED BY <2>2, <2>3, <2>4
  <1>3. /\ DOMAIN f = DOMAIN e \cup {i}
        /\ \A j \in DOMAIN e : f[j].name = e[j].name
        /\ \A j : j # i => (IsFile(f, j) <=> IsFile(e, j))
        /\ f[i].name = name
        /\ isdir => ~IsFile(f, i)
    BY <1>1 DEF Added, IsFile
  <1>4. Acyclic(f)
    <2>1. CASE isdir
      BY <1>1, <1>2, <2>1, AcyclicGrows DEF Safe, Fresh, Dirs
    <2>2. CASE ~isdir
      BY <1>2, <2>2, AcyclicShrinks DEF Safe
    <2> QED BY <2>1, <2>2
  <1>5. ParentsAreDirs(f)
    <2> SUFFICES ASSUME NEW c \in Dirs(f), f[c].parent \in DOMAIN f
                 PROVE  f[c].parent \in Dirs(f)
      BY DEF ParentsAreDirs
    <2>1. CASE c \in Dirs(e)
      <3>1. f[c].parent = e[c].parent /\ e[c].parent # i
        BY <1>2, <2>1 DEF Fresh
      <3> QED BY <1>2, <1>3, <2>1, <3>1 DEF Safe, ParentsAreDirs
    <2>2. CASE c = i /\ isdir
      BY <1>2, <2>2
    <2> QED BY <1>2, <2>1, <2>2
  <1>6. RootUnlisted(f)
    BY <1>1, <1>2 DEF Safe, RootUnlisted
  <1>7. FilesListedOnce(f)
    <2> SUFFICES ASSUME NEW b \in Dirs(f), NEW c \in Dirs(f),
                        NEW x \in f[b].content \cap f[c].content, IsFile(f, x)
                 PROVE  b = c
      BY DEF FilesListedOnce
    <2>1. b \in Dirs(e) /\ c \in Dirs(e)
      BY <1>2
    <2>2. CASE x = i
      BY <1>2, <2>1, <2>2 DEF Fresh
    <2>3. CASE x # i
      <3>1. x \in e[b].content
        BY <1>2, <2>1, <2>3
      <3>2. x \in e[c].content
        BY <1>2, <2>1, <2>3
      <3>3. IsFile(e, x)
        BY <1>3, <2>3
      <3> QED BY <2>1, <3>1, <3>2, <3>3 DEF Safe, FilesListedOnce
    <2> QED BY <2>2, <2>3
  <1>8. FileNamesUnique(f)
    <2> SUFFICES ASSUME NEW c \in Dirs(f), NEW j \in f[c].content, NEW k \in f[c].content,
                        IsFile(f, j), IsFile(f, k), f[j].name = f[k].name, j # k
                 PROVE  FALSE
      BY DEF FileNamesUnique
    <2>1. c \in Dirs(e)
      BY <1>2
    <2>2. \A x \in f[c].content : x # i => x \in e[c].content
      BY <1>2, <2>1
    <2>3. \A x : x # i /\ IsFile(f, x) => x \in DOMAIN e /\ f[x].name = e[x].name
      BY <1>3 DEF IsFile
    <2>4. CASE j # i /\ k # i
      BY <1>3, <2>1, <2>2, <2>3, <2>4 DEF Safe, FileNamesUnique
    <2>5. CASE j = i \/ k = i
      <3>1. PICK x \in {j, k} : x # i
        BY <2>5
      <3>2. c = d
        BY <1>2, <2>1, <2>5 DEF Fresh
      <3>3. x \in Matches(e, d, name)
        BY <1>3, <2>2, <2>3, <2>5, <3>1, <3>2 DEF Matches
      <3>4. ~isdir
        BY <1>3, <2>5
      <3> QED BY <3>3, <3>4
    <2> QED BY <2>4, <2>5
  <1>9. \A j : Fresh(e, j) /\ j # i => Fresh(f, j)
    <2> SUFFICES ASSUME NEW j, Fresh(e, j), j # i PROVE Fresh(f, j)
      OBVIOUS
    <2>1. j \notin DOMAIN f /\ j # d
      BY <1>3 DEF Fresh, Dirs
    <2>2. \A c \in Dirs(e) : f[c].parent # j /\ j \notin f[c].content
      BY <1>2 DEF Fresh
    <2>3. isdir => f[i].parent # j /\ j \notin f[i].content
      BY <1>2, <2>1
    <2> QED BY <1>2, <2>1, <2>2, <2>3 DEF Fresh
  <1> QED BY <1>4, <1>5, <1>6, <1>7, <1>8, <1>9 DEF Safe

\* Moving an entry keeps the tree safe when it is no ancestor of its new directory.
LEMMA MoveSafe ==
    ASSUME NEW e, NEW f, Safe(e), WellTyped(f), NEW i, i # Root, NEW dir, NEW to \in Id,
           NEW toname, NEW linked \in BOOLEAN, NEW named \in BOOLEAN,
           Moved(e, f, i, dir, to, toname, linked, named),
           linked => to \in Dirs(e),
           named => linked,
           linked /\ IsFile(e, i) =>
                /\ named
                /\ dir \in Dirs(e) /\ i \in e[dir].content
                /\ \A j \in Matches(e, to, toname) : ~IsFile(e, j),
           named /\ IsDir(e, i) => i \notin Chain(e, to)
    PROVE  Safe(f) /\ \A j : Fresh(e, j) /\ j # i => Fresh(f, j)
  <1>1. /\ DOMAIN f = DOMAIN e
        /\ Dirs(f) = Dirs(e)
        /\ \A j : IsFile(f, j) <=> IsFile(e, j)
    BY DEF Moved, Dirs, IsFile
  <1>2. \A d \in Dirs(e) :
            /\ f[d].parent = IF d = i /\ named THEN to ELSE e[d].parent
            /\ \A j \in f[d].content : j \in e[d].content \/ (j = i /\ d = to /\ linked)
            /\ i \in f[d].content => d # dir \/ (d = to /\ linked)
    BY DEF Moved, Dirs
  <1>3. \A j \in DOMAIN e : f[j].name = IF j = i /\ named THEN toname ELSE e[j].name
    BY DEF Moved
  <1>4. Acyclic(f)
    <2>1. CASE named /\ IsDir(e, i)
      BY <1>1, <1>2, <2>1, AcyclicMoves DEF Safe
    <2>2. CASE ~(named /\ IsDir(e, i))
      <3>1. \A d \in Dirs(f) : f[d].parent = e[d].parent
        BY <1>1, <1>2, <2>2 DEF IsDir, Dirs
      <3> QED BY <1>1, <3>1, AcyclicShrinks DEF Safe
    <2> QED BY <2>1, <2>2
  <1>5. ParentsAreDirs(f)
    BY <1>1, <1>2 DEF Safe, ParentsAreDirs
  <1>6. RootUnlisted(f)
    BY <1>1, <1>2 DEF Safe, RootUnlisted
  \* A moved file is listed by the directory it has moved to only.
  <1>7. ASSUME IsFile(e, i), linked, NEW d \in Dirs(f), i \in f[d].content
        PROVE  d = to
    <2> SUFFICES ASSUME d # to PROVE FALSE
      OBVIOUS
    <2>1. i \in e[d].content /\ d # dir
      BY <1>1, <1>2, <1>7
    <2> QED BY <1>1, <1>7, <2>1 DEF Safe, FilesListedOnce
  <1>8. FilesListedOnce(f)
    <2> SUFFICES ASSUME NEW b \in Dirs(f), NEW c \in Dirs(f),
                        NEW x \in f[b].content \cap f[c].content, IsFile(f, x)
                 PROVE  b = c
      BY DEF FilesListedOnce
    <2>1. CASE x = i /\ linked
      BY <1>1, <1>7, <2>1
    <2>2. CASE ~(x = i /\ linked)
      <3>1. x \in e[b].content
        BY <1>1, <1>2, <2>2
      <3>2. x \in e[c].content
        BY <1>1, <1>2, <2>2
      <3> QED BY <1>1, <3>1, <3>2 DEF Safe, FilesListedOnce
    <2> QED BY <2>1, <2>2
  <1>9. FileNamesUnique(f)
    <2> SUFFICES ASSUME NEW c \in Dirs(f), NEW j \in f[c].content, NEW k \in f[c].content,
                        IsFile(f, j), IsFile(f, k), f[j].name = f[k].name, j # k
                 PROVE  FALSE
      BY DEF FileNamesUnique
    <2>1. c \in Dirs(e) /\ j \in DOMAIN e /\ k \in DOMAIN e /\ IsFile(e, j) /\ IsFile(e, k)
      BY <1>1 DEF IsFile
    <2>2. CASE j # i /\ k # i
      <3>1. j \in e[c].content /\ k \in e[c].content
        BY <1>2, <2>1, <2>2
      <3>2. e[j].name = e[k].name
        BY <1>3, <2>1, <2>2
      <3> QED BY <2>1, <3>1, <3>2 DEF Safe, FileNamesUnique
    <2>3. CASE (j = i \/ k = i) /\ ~linked
      <3>1. j \in e[c].content /\ k \in e[c].content
        BY <1>2, <2>1, <2>3
      <3>2. e[j].name = e[k].name
        BY <1>3, <2>1, <2>3
      <3> QED BY <2>1, <3>1, <3>2 DEF Safe, FileNamesUnique
    <2>4. CASE (j = i \/ k = i) /\ linked
      <3>1. IsFile(e, i) /\ named /\ c = to
        BY <1>7, <2>1, <2>4
      <3>2. PICK x \in {j, k} : x # i
        BY <2>4
      <3>3. x \in e[to].content
        BY <1>2, <2>1, <3>1, <3>2
      <3>4. e[x].name = toname
        BY <1>3, <2>1, <2>4, <3>1, <3>2
      <3>5. x \in Matches(e, to, toname) /\ IsFile(e, x)
        BY <2>1, <3>2, <3>3, <3>4 DEF Matches
      <3> QED BY <2>4, <3>1, <3>5
    <2> QED BY <2>2, <2>3, <2>4
  <1>10. \A j : Fresh(e, j) /\ j # i => Fresh(f, j)
    <2> SUFFICES ASSUME NEW j, Fresh(e, j), j # i PROVE Fresh(f, j)
      OBVIOUS
    <2>1. linked => j # to
      BY DEF Fresh, Dirs
    <2>2. \A c \in Dirs(e) : f[c].parent # j /\ j \notin f[c].content
      BY <1>2, <2>1 DEF Fresh
    <2> QED BY <1>1, <2>2 DEF Fresh
  <1> QED BY <1>4, <1>5, <1>6, <1>8, <1>9, <1>10 DEF Safe

-----------------------------------------------------------------------------
\* The tree after rename has dealt with the target.
Cleared(e, to, target) ==
    IF target.stat = "OK" THEN Remove(e, to, target.id) ELSE e

\* The ways through rename.
LEMMA RenameCases ==
    ASSUME NEW e, NEW dir, NEW name, NEW to, NEW toname, NEW source, NEW target, NEW r,
           r = Rename(e, dir, name, to, toname, source, target)
    PROVE  LET i == source.id
               e1 == Cleared(e, to, target)
               ts == TargetStat(e, i, toname, target)
           IN  \/ r.entries = e /\ source.stat # "OK" /\ r.stat = source.stat
               \/ r.entries = e /\ r.stat = "OK"
               \/ r.entries = e /\ ts # "OK" /\ r.stat = ts
               \/ /\ source.stat = "OK" /\ ts = "OK" /\ ~(dir = to /\ name = toname)
                  /\ \/ /\ r.entries = e1
                        /\ AncestorStat(e1, i, to) # "OK" /\ r.stat = AncestorStat(e1, i, to)
                     \/ /\ r = Rehang(e1, i, dir, to, toname)
                        /\ IsDir(e, i) => AncestorStat(e1, i, to) = "OK"
  BY DEF Rename, Cleared

\* When rename goes on, the target is gone or a suitable entry of directory to.
LEMMA TargetProperties ==
    ASSUME NEW e, Safe(e), NEW to, NEW toname, NEW i, NEW target \in Lookup(e, to, toname)
    PROVE  /\ TargetStat(e, i, toname, target) \in
                {"OK", "NOTDIR", "NOTEMPTY", "INVAL", "SERVERFAULT"}
           /\ TargetStat(e, i, toname, target) = "OK" =>
                \/ /\ target.stat = "NOENT"
                   /\ to \in DOMAIN e => to \in Dirs(e) /\ Matches(e, to, toname) = {}
                \/ /\ target.stat = "OK"
                   /\ to \in Dirs(e)
                   /\ target.id \in Matches(e, to, toname)
                   /\ target.id # Root
                   /\ IsDir(e, i) <=> IsDir(e, target.id)
                   /\ IsDir(e, target.id) => e[target.id].content = {}
  <1>1. WellTyped(e) /\ ParentsAreDirs(e) /\ RootUnlisted(e)
    BY DEF Safe
  <1>2. /\ target.stat \in {"OK", "NOENT", "NOTDIR", "SERVERFAULT"}
        /\ target.stat = "OK" => to \in Dirs(e) /\ target.id \in DOMAIN e
        /\ target.stat = "OK" /\ toname \notin {".", ".."} => target.id \in Matches(e, to, toname)
        /\ target.stat = "NOENT" /\ to \in DOMAIN e =>
                to \in Dirs(e) /\ Matches(e, to, toname) = {}
    BY <1>1, LookupProperties
  <1>3. TargetStat(e, i, toname, target) \in
            {"OK", "NOTDIR", "NOTEMPTY", "INVAL", "SERVERFAULT"}
    BY <1>2 DEF TargetStat
  <1>4. ASSUME TargetStat(e, i, toname, target) = "OK", target.stat # "NOENT"
        PROVE  /\ target.stat = "OK"
               /\ toname \notin {".", ".."}
               /\ IsDir(e, i) <=> IsDir(e, target.id)
               /\ IsDir(e, target.id) => e[target.id].content = {}
    BY <1>2, <1>4 DEF TargetStat
  <1>5. to \in Dirs(e) /\ target.id \in Matches(e, to, toname) => target.id # Root
    BY <1>1 DEF RootUnlisted, Matches
  <1> QED BY <1>2, <1>3, <1>4, <1>5

\* Removing the target of a RENAME keeps the tree safe.
LEMMA ClearedSafe ==
    ASSUME NEW e, Safe(e), NEW to, NEW toname, NEW i, NEW target \in Lookup(e, to, toname),
           TargetStat(e, i, toname, target) = "OK"
    PROVE  LET e1 == Cleared(e, to, target)
           IN  /\ Safe(e1)
               /\ \A j : Fresh(e, j) => Fresh(e1, j)
               /\ \/ e1 = e /\ target.stat = "NOENT"
                  \/ Pruned(e, e1, to, target.id) /\ target.stat = "OK"
  BY TargetProperties, RemoveSafe DEF Cleared

\* Once the target is dealt with, no file of directory to has the new name.
LEMMA TargetNameIsFree ==
    ASSUME NEW e, Safe(e), NEW to, NEW toname, NEW i, NEW target \in Lookup(e, to, toname),
           TargetStat(e, i, toname, target) = "OK", ~IsDir(e, i),
           NEW e1, e1 = Cleared(e, to, target), to \in Dirs(e1),
           NEW j \in Matches(e1, to, toname)
    PROVE  ~IsFile(e1, j)
  <1>1. CASE e1 = e /\ target.stat = "NOENT"
    <2>1. to \in DOMAIN e
      BY <1>1 DEF Dirs
    <2> QED BY <1>1, <2>1, TargetProperties
  <1>2. CASE Pruned(e, e1, to, target.id) /\ target.stat = "OK"
    <2>1. /\ to \in Dirs(e) /\ target.id \in Matches(e, to, toname)
          /\ ~IsDir(e, target.id)
      BY <1>2, TargetProperties
    <2>2. IsFile(e, target.id)
      BY <2>1, EntryKinds DEF IsDir, IsFile, Matches, Safe
    <2>3. j \in DOMAIN e /\ j # target.id /\ j \in e[to].content /\ e[j].name = toname
      BY <1>2, <2>1 DEF Pruned, Matches, Dirs
    <2>4. IsFile(e1, j) => IsFile(e, j)
      BY <1>2, <2>3 DEF Pruned, IsFile
    <2> QED BY <2>1, <2>2, <2>3, <2>4 DEF Safe, FileNamesUnique, Matches
  <1> QED BY <1>1, <1>2, ClearedSafe

\* rename keeps the tree safe, whatever it is called with.
LEMMA RenameSafe ==
    ASSUME NEW e, Safe(e), NEW dir, NEW name, NEW to \in Id, NEW toname \in Names,
           NEW source \in Lookup(e, dir, name), NEW target \in Lookup(e, to, toname),
           NEW r, r = Rename(e, dir, name, to, toname, source, target)
    PROVE  /\ Safe(r.entries)
           /\ r.stat \in {"OK", "INVAL", "NOENT", "NOTDIR", "NOTEMPTY", "SERVERFAULT"}
           /\ \A j : Fresh(e, j) => Fresh(r.entries, j)
  <1>1. PICK i : i = source.id
    OBVIOUS
  <1>2. PICK e1 : e1 = Cleared(e, to, target)
    OBVIOUS
  <1>3. /\ source.stat \in {"OK", "NOENT", "NOTDIR", "SERVERFAULT"}
        /\ source.stat = "OK" => dir \in Dirs(e) /\ i \in DOMAIN e
        /\ source.stat = "OK" /\ i \notin Dirs(e) => i \in Matches(e, dir, name)
    BY <1>1, LookupProperties DEF Safe
  <1>4. CASE r.entries = e
    <2>1. AncestorStat(e1, i, to) \in {"OK", "INVAL", "NOENT", "SERVERFAULT"}
      BY DEF AncestorStat
    <2>2. r = Rehang(e1, i, dir, to, toname) => r.stat \in {"OK", "SERVERFAULT"}
      BY DEF Rehang
    <2> QED BY <1>1, <1>2, <1>3, <1>4, <2>1, <2>2, RenameCases, TargetProperties
  <1>5. CASE r.entries # e
    <2>1. /\ source.stat = "OK" /\ TargetStat(e, i, toname, target) = "OK"
          /\ \/ /\ r.entries = e1
                /\ r.stat = AncestorStat(e1, i, to)
             \/ /\ r = Rehang(e1, i, dir, to, toname)
                /\ IsDir(e, i) => AncestorStat(e1, i, to) = "OK"
      BY <1>1, <1>2, <1>5, RenameCases
    <2>2. /\ Safe(e1)
          /\ \A j : Fresh(e, j) => Fresh(e1, j)
          /\ \/ e1 = e /\ target.stat = "NOENT"
             \/ Pruned(e, e1, to, target.id) /\ target.stat = "OK"
      BY <1>2, <2>1, ClearedSafe
    <2>3. CASE r.entries = e1 /\ r.stat = AncestorStat(e1, i, to)
      BY <2>2, <2>3 DEF AncestorStat
    <2>4. CASE r = Rehang(e1, i, dir, to, toname) /\ (IsDir(e, i) => AncestorStat(e1, i, to) = "OK")
      <3>1. i \in Id /\ i \in DOMAIN e
        BY <1>3, <2>1 DEF Safe, WellTyped
      <3>2. IsDir(e, i) => i \notin Chain(e1, to) /\ i # Root
        BY <2>2, <2>4, AncestorProperties DEF Safe
      <3>3. i # Root
        BY <3>1, <3>2 DEF Safe, WellTyped, Dirs, IsDir
      <3>4. /\ IsDir(e1, i) => IsDir(e, i)
            /\ IsFile(e1, i) => IsFile(e, i)
        BY <2>2 DEF Pruned, IsDir, IsFile
      <3>5. ASSUME IsFile(e1, i), to \in Dirs(e1)
            PROVE  /\ dir \in Dirs(e1) /\ i \in e1[dir].content
                   /\ \A j \in Matches(e1, to, toname) : ~IsFile(e1, j)
        <4>1. IsFile(e, i) /\ ~IsDir(e, i) /\ i \in DOMAIN e1
          BY <3>4, <3>5 DEF IsFile, IsDir
        <4>2. dir \in Dirs(e) /\ i \in e[dir].content
          BY <1>3, <2>1, <4>1 DEF Matches, IsFile, Dirs
        <4>3. target.stat = "OK" => dir # target.id
          BY <2>1, <4>1, <4>2, TargetProperties DEF IsDir, Dirs
        <4>4. dir \in Dirs(e1) /\ i \in e1[dir].content
          BY <2>2, <4>1, <4>2, <4>3 DEF Pruned, Dirs
        <4> QED BY <1>2, <2>1, <3>5, <4>1, <4>4, TargetNameIsFree
      <3>6. PICK f : f = r.entries
        OBVIOUS
      <3>7. /\ WellTyped(f)
            /\ r.stat \in {"OK", "SERVERFAULT"}
            /\ \/ f = e1
               \/ Moved(e1, f, i, dir, to, toname, FALSE, FALSE)
               \/ /\ IsDir(e1, to) /\ i \notin DOMAIN e1
                  /\ Moved(e1, f, i, dir, to, toname, TRUE, FALSE)
               \/ /\ IsDir(e1, to) /\ i \in DOMAIN e1
                  /\ Moved(e1, f, i, dir, to, toname, TRUE, TRUE)
        <4>1. WellTyped(e1)
          BY <2>2 DEF Safe
        <4>2. r = Rehang(e1, i, dir, to, toname)
          BY <2>4
        <4>3. WellTyped(r.entries) /\ Rehung(e1, r.entries, r.stat, i, dir, to, toname)
          BY <3>1, <4>1, <4>2, RehangProperties
        <4> QED BY <3>6, <4>3 DEF Rehung
      <3>8. CASE f = e1
        BY <2>2, <3>6, <3>7, <3>8
      <3>9. ASSUME NEW linked \in BOOLEAN, NEW named \in BOOLEAN,
                   Moved(e1, f, i, dir, to, toname, linked, named),
                   linked => IsDir(e1, to), named => linked,
                   linked /\ ~named => i \notin DOMAIN e1
            PROVE  Safe(f) /\ \A j : Fresh(e1, j) /\ j # i => Fresh(f, j)
        <4>1. linked => to \in Dirs(e1)
          BY <3>9 DEF IsDir, Dirs
        <4>2. linked /\ IsFile(e1, i) =>
                /\ named
                /\ dir \in Dirs(e1) /\ i \in e1[dir].content
                /\ \A j \in Matches(e1, to, toname) : ~IsFile(e1, j)
          BY <3>5, <3>9, <4>1 DEF IsFile
        <4>3. named /\ IsDir(e1, i) => i \notin Chain(e1, to)
          BY <3>2, <3>4
        <4> QED BY <2>2, <3>3, <3>7, <3>9, <4>1, <4>2, <4>3, MoveSafe
      <3>10. Safe(f) /\ \A j : Fresh(e1, j) /\ j # i => Fresh(f, j)
        BY <2>2, <3>7, <3>8, <3>9
      <3>11. \A j : Fresh(e, j) => j # i
        BY <3>1 DEF Fresh
      <3> QED BY <2>2, <3>6, <3>7, <3>10, <3>11
    <2> QED BY <2>1, <2>3, <2>4
  <1> QED BY <1>4, <1>5

-----------------------------------------------------------------------------
\* Removing a child that has no children of its own.
LEMMA RemoveSound ==
    ASSUME NEW e, NEW f, WellTyped(e), Sound(e), NEW d \in Dirs(e), NEW i \in e[d].content,
           IsDir(e, i) => e[i].content = {}, Pruned(e, f, d, i)
    PROVE  Sound(f)
  <1>1. /\ DOMAIN f = DOMAIN e \ {i}
        /\ Dirs(f) = Dirs(e) \ {i}
        /\ \A c \in Dirs(f) : /\ f[c].parent = e[c].parent
                              /\ f[c].content = IF c = d THEN e[c].content \ {i} ELSE e[c].content
    BY DEF Pruned, Dirs
  <1>2. \A c \in Dirs(f) : f[c].content = e[c].content \ {i}
    <2> SUFFICES ASSUME NEW c \in Dirs(f), c # d PROVE i \notin e[c].content
      BY <1>1
    <2> QED BY <1>1 DEF Sound, ListedOnce
  <1>3. ChildrenExist(f)
    BY <1>1, <1>2 DEF Sound, ChildrenExist
  <1>4. ListedOnce(f)
    <2> SUFFICES ASSUME NEW b \in Dirs(f), NEW c \in Dirs(f), NEW x \in f[b].content,
                        x \in f[c].content
                 PROVE  b = c
      BY DEF ListedOnce
    <2>1. x \in e[b].content \cap e[c].content /\ b \in Dirs(e) /\ c \in Dirs(e)
      BY <1>1, <1>2
    <2> QED BY <2>1 DEF Sound, ListedOnce
  <1>5. ParentsList(f)
    <2> SUFFICES ASSUME NEW c \in Dirs(f) \ {Root}
                 PROVE  f[c].parent \in Dirs(f) /\ c \in f[f[c].parent].content
      BY DEF ParentsList
    <2>1. c \in Dirs(e) \ {Root} /\ c # i /\ f[c].parent = e[c].parent
      BY <1>1
    <2>2. e[c].parent \in Dirs(e) /\ c \in e[e[c].parent].content
      BY <2>1 DEF Sound, ParentsList
    <2>3. e[c].parent # i
      BY <2>2 DEF IsDir, Dirs
    <2>4. e[c].parent \in Dirs(f)
      BY <1>1, <2>2, <2>3
    <2> QED BY <1>2, <2>1, <2>2, <2>4
  <1> QED BY <1>3, <1>4, <1>5 DEF Sound

\* A new entry is listed once, in the directory its parent field names.
LEMMA AddSound ==
    ASSUME NEW e, NEW f, WellTyped(e), Sound(e), NEW d \in Dirs(e), NEW i, Fresh(e, i),
           NEW name, NEW isdir \in BOOLEAN, Added(e, f, d, i, name, isdir)
    PROVE  Sound(f)
  <1>1. i \notin DOMAIN e /\ i # d /\ i # Root
    BY DEF Fresh, Dirs, WellTyped
  <1>2. \A j \in DOMAIN f : j \in Dirs(f) <=> IF j = i THEN isdir ELSE j \in Dirs(e)
    BY <1>1 DEF Added, Dirs
  <1>3. /\ DOMAIN f = DOMAIN e \cup {i}
        /\ isdir => f[i].parent = d /\ f[i].content = {}
    BY DEF Added
  <1>4. \A c \in Dirs(e) : /\ c \in Dirs(f) /\ c # i
                           /\ f[c].parent = e[c].parent
                           /\ f[c].content = IF c = d THEN e[c].content \cup {i} ELSE e[c].content
    BY <1>1, <1>2, <1>3 DEF Added, Dirs
  <1>5. \A c \in Dirs(f) : c \in Dirs(e) \/ (c = i /\ isdir)
    BY <1>2 DEF Dirs
  <1>6. ChildrenExist(f)
    <2> SUFFICES ASSUME NEW c \in Dirs(f), NEW x \in f[c].content
                 PROVE  x \in DOMAIN f \ {Root}
      BY DEF ChildrenExist
    <2>1. c \in Dirs(e)
      BY <1>3, <1>5
    <2>2. x = i \/ x \in e[c].content
      BY <1>4, <2>1
    <2> QED BY <1>1, <1>3, <2>1, <2>2 DEF Sound, ChildrenExist
  <1>7. ListedOnce(f)
    <2> SUFFICES ASSUME NEW b \in Dirs(f), NEW c \in Dirs(f), NEW x \in f[b].content,
                        x \in f[c].content
                 PROVE  b = c
      BY DEF ListedOnce
    <2>1. b \in Dirs(e) /\ c \in Dirs(e)
      BY <1>3, <1>5
    <2>2. CASE x = i
      BY <1>4, <2>1, <2>2 DEF Fresh
    <2>3. CASE x # i
      <3>1. x \in e[b].content /\ x \in e[c].content
        BY <1>4, <2>1, <2>3
      <3> QED BY <2>1, <3>1 DEF Sound, ListedOnce
    <2> QED BY <2>2, <2>3
  <1>8. ParentsList(f)
    <2> SUFFICES ASSUME NEW c \in Dirs(f) \ {Root}
                 PROVE  f[c].parent \in Dirs(f) /\ c \in f[f[c].parent].content
      BY DEF ParentsList
    <2>1. CASE c \in Dirs(e)
      <3>1. e[c].parent \in Dirs(e) /\ c \in e[e[c].parent].content
        BY <2>1 DEF Sound, ParentsList
      <3> QED BY <1>4, <2>1, <3>1
    <2>2. CASE c = i /\ isdir
      BY <1>3, <1>4, <2>2
    <2> QED BY <1>5, <2>1, <2>2
  <1> QED BY <1>6, <1>7, <1>8 DEF Sound

\* A child loses its link to dir and, if linked, gets one from to.  Only a
\* file may be left without.
LEMMA MoveSound ==
    ASSUME NEW e, NEW f, WellTyped(e), Sound(e), NEW i \in DOMAIN e, NEW dir \in Dirs(e),
           i \in e[dir].content, NEW to, NEW toname, NEW linked \in BOOLEAN,
           Moved(e, f, i, dir, to, toname, linked, linked),
           linked => to \in Dirs(e),
           ~linked => IsFile(e, i)
    PROVE  Sound(f)
  <1>1. /\ DOMAIN f = DOMAIN e
        /\ Dirs(f) = Dirs(e)
        /\ i # Root
    BY DEF Moved, Dirs, Sound, ChildrenExist
  <1>2. \A c \in Dirs(e) :
            f[c].content = (e[c].content \ {i}) \cup (IF c = to /\ linked THEN {i} ELSE {})
    <2> SUFFICES ASSUME NEW c \in Dirs(e), c # dir PROVE i \notin e[c].content
      BY DEF Moved, Dirs
    <2> QED BY DEF Sound, ListedOnce
  <1>3. \A c \in Dirs(e) : f[c].parent = IF c = i /\ linked THEN to ELSE e[c].parent
    BY DEF Moved, Dirs
  <1>4. ChildrenExist(f)
    BY <1>1, <1>2 DEF Sound, ChildrenExist
  <1>5. ListedOnce(f)
    <2> SUFFICES ASSUME NEW b \in Dirs(e), NEW c \in Dirs(e), NEW x \in f[b].content,
                        x \in f[c].content
                 PROVE  b = c
      BY <1>1 DEF ListedOnce
    <2>1. CASE x = i
      BY <1>2, <2>1
    <2>2. CASE x # i
      <3>1. x \in e[b].content /\ x \in e[c].content
        BY <1>2, <2>2
      <3> QED BY <3>1 DEF Sound, ListedOnce
    <2> QED BY <2>1, <2>2
  <1>6. ParentsList(f)
    <2> SUFFICES ASSUME NEW c \in Dirs(e) \ {Root}
                 PROVE  f[c].parent \in Dirs(e) /\ c \in f[f[c].parent].content
      BY <1>1 DEF ParentsList
    <2>1. e[c].parent \in Dirs(e) /\ c \in e[e[c].parent].content
      BY DEF Sound, ParentsList
    <2>2. CASE c = i
      <3>1. linked
        BY <2>2 DEF IsFile, Dirs
      <3> QED BY <1>2, <1>3, <2>2, <3>1
    <2>3. CASE c # i
      BY <1>2, <1>3, <2>1, <2>3
    <2> QED BY <2>2, <2>3
  <1> QED BY <1>4, <1>5, <1>6 DEF Sound

\* What rename does to a sound tree when its object is not called "." or "..":
\* nothing; or it removes the target, if there is one, and then stops, or moves
\* the object, or, when there is no directory to, only unlinks the file.
RenamePath(e, f, dir, to, toname, e1, i) ==
    /\ Safe(e1) /\ Sound(e1)
    /\ \/ e1 = e
       \/ \E k \in e[to].content :
            to \in Dirs(e) /\ Pruned(e, e1, to, k) /\ (IsDir(e, k) => e[k].content = {})
    /\ i \in DOMAIN e1 /\ dir \in Dirs(e1) /\ i \in e1[dir].content
    /\ to \in DOMAIN e => to \in Dirs(e1)
    /\ \/ f = e1
       \/ to \notin Dirs(e1) /\ IsFile(e1, i) /\ Moved(e1, f, i, dir, to, toname, FALSE, FALSE)
       \/ to \in Dirs(e1) /\ Moved(e1, f, i, dir, to, toname, TRUE, TRUE)

\* rename takes one of these paths.
LEMMA RenamePaths ==
    ASSUME NEW e, Safe(e), Sound(e), NEW dir, NEW name, name \notin {".", ".."},
           NEW to \in Id, NEW toname \in Names,
           NEW source \in Lookup(e, dir, name), NEW target \in Lookup(e, to, toname),
           NEW r, r = Rename(e, dir, name, to, toname, source, target)
    PROVE  r.entries = e \/ \E e1, i : RenamePath(e, r.entries, dir, to, toname, e1, i)
  <1> SUFFICES ASSUME r.entries # e
               PROVE  \E e1, i : RenamePath(e, r.entries, dir, to, toname, e1, i)
    OBVIOUS
  <1>1. PICK i : i = source.id
    OBVIOUS
  <1>2. PICK k : k = target.id
    OBVIOUS
  <1>3. PICK e1 : e1 = Cleared(e, to, target)
    OBVIOUS
  <1>4. /\ source.stat = "OK" /\ TargetStat(e, i, toname, target) = "OK"
        /\ ~(dir = to /\ name = toname)
        /\ \/ r.entries = e1
           \/ /\ r = Rehang(e1, i, dir, to, toname)
              /\ IsDir(e, i) => AncestorStat(e1, i, to) = "OK"
    BY <1>1, <1>3, RenameCases
  <1>5. dir \in Dirs(e) /\ i \in Matches(e, dir, name)
    BY <1>1, <1>4, LookupProperties DEF Safe
  <1>6. Safe(e1)
    BY <1>3, <1>4, ClearedSafe
  <1>7. \/ e1 = e
        \/ /\ Pruned(e, e1, to, k)
           /\ to \in Dirs(e) /\ k \in Matches(e, to, toname)
           /\ IsDir(e, i) <=> IsDir(e, k)
           /\ IsDir(e, k) => e[k].content = {}
    BY <1>2, <1>3, <1>4, ClearedSafe, TargetProperties
  <1>8. Sound(e1)
    BY <1>7, RemoveSound DEF Safe, Matches
  <1>9. /\ i \in DOMAIN e1 /\ dir \in Dirs(e1) /\ i \in e1[dir].content
        /\ IsDir(e1, i) <=> IsDir(e, i)
    <2>1. CASE e1 = e
      BY <1>5, <2>1 DEF Matches
    <2>2. CASE /\ Pruned(e, e1, to, k)
               /\ to \in Dirs(e) /\ k \in Matches(e, to, toname)
               /\ IsDir(e, i) <=> IsDir(e, k)
               /\ IsDir(e, k) => e[k].content = {}
      <3>1. i # k
        BY <1>4, <1>5, <2>2 DEF Matches, Sound, ListedOnce
      <3>2. dir # k
        BY <1>5, <2>2 DEF Matches, IsDir, Dirs
      <3> QED BY <1>5, <2>2, <3>1, <3>2 DEF Pruned, Matches, IsDir, Dirs
    <2> QED BY <1>7, <2>1, <2>2
  <1>10. to \in DOMAIN e => to \in Dirs(e1)
    <2>1. to \in DOMAIN e => to \in Dirs(e)
      BY <1>4, TargetProperties
    <2>2. CASE e1 = e
      BY <2>1, <2>2
    <2>3. CASE /\ Pruned(e, e1, to, k)
               /\ to \in Dirs(e) /\ k \in Matches(e, to, toname)
               /\ IsDir(e, k) => e[k].content = {}
      <3>1. to # k
        BY <2>3 DEF Matches, IsDir, Dirs
      <3> QED BY <2>3, <3>1 DEF Pruned, Dirs
    <2> QED BY <1>7, <2>2, <2>3
  <1>11. \/ e1 = e
         \/ \E x \in e[to].content :
                to \in Dirs(e) /\ Pruned(e, e1, to, x) /\ (IsDir(e, x) => e[x].content = {})
    BY <1>7 DEF Matches
  <1>12. PICK f : f = r.entries
    OBVIOUS
  <1>13. ASSUME r = Rehang(e1, i, dir, to, toname), IsDir(e, i) => AncestorStat(e1, i, to) = "OK"
         PROVE  \/ f = e1
                \/ /\ to \notin Dirs(e1) /\ IsFile(e1, i)
                   /\ Moved(e1, f, i, dir, to, toname, FALSE, FALSE)
                \/ to \in Dirs(e1) /\ Moved(e1, f, i, dir, to, toname, TRUE, TRUE)
    <2>1. WellTyped(e1) /\ i \in Id
      BY <1>6, <1>9 DEF Safe, WellTyped
    <2>2. Rehung(e1, f, r.stat, i, dir, to, toname)
      BY <1>12, <1>13, <2>1, RehangProperties
    <2>3. IsDir(e1, to) <=> to \in Dirs(e1)
      BY DEF IsDir, Dirs
    <2>4. CASE /\ ~IsDir(e1, to) \/ (i \in e1[to].content /\ to # dir)
               /\ Moved(e1, f, i, dir, to, toname, FALSE, FALSE)
      <3>1. ~IsDir(e1, to)
        BY <1>8, <1>9, <2>4 DEF Sound, ListedOnce, IsDir, Dirs
      <3>2. ~IsDir(e1, i)
        BY <1>6, <1>9, <1>13, <3>1, AncestorProperties DEF Safe, IsDir, Dirs
      <3>3. IsFile(e1, i)
        BY <1>9, <2>1, <3>2, EntryKinds DEF IsDir, IsFile
      <3> QED BY <2>3, <2>4, <3>1, <3>3
    <2> QED BY <1>9, <2>2, <2>3, <2>4 DEF Rehung
  <1>14. RenamePath(e, f, dir, to, toname, e1, i)
    BY <1>4, <1>6, <1>8, <1>9, <1>10, <1>11, <1>12, <1>13 DEF RenamePath
  <1> QED BY <1>12, <1>14

\* rename keeps the tree sound when its object is not called "." or "..".
LEMMA RenameSound ==
    ASSUME NEW e, Safe(e), Sound(e), NEW dir, NEW name, name \notin {".", ".."},
           NEW to \in Id, NEW toname \in Names,
           NEW source \in Lookup(e, dir, name), NEW target \in Lookup(e, to, toname),
           NEW r, r = Rename(e, dir, name, to, toname, source, target)
    PROVE  Sound(r.entries)
  <1>1. CASE r.entries = e
    BY <1>1
  <1>2. ASSUME NEW e1, NEW i, NEW f, f = r.entries, RenamePath(e, f, dir, to, toname, e1, i)
        PROVE  Sound(r.entries)
    <2>1. WellTyped(e1) /\ Sound(e1)
      BY <1>2 DEF RenamePath, Safe
    <2> QED BY <1>2, <2>1, MoveSound DEF RenamePath
  <1> QED BY <1>1, <1>2, RenamePaths

-----------------------------------------------------------------------------
\* Removing a child that has no children of its own loses no other file.
LEMMA RemoveKeepsFiles ==
    ASSUME NEW e, NEW f, NEW d \in Dirs(e), NEW i,
           IsDir(e, i) => e[i].content = {}, Pruned(e, f, d, i)
    PROVE  KeepsFiles(e, f)
  <1> SUFFICES ASSUME NEW j \in DOMAIN f, IsFile(f, j), IsFile(e, j) => Listed(e, j)
               PROVE  Listed(f, j)
    BY DEF KeepsFiles
  <1>1. j \in DOMAIN e /\ j # i /\ IsFile(e, j)
    BY DEF Pruned, IsFile
  <1>2. PICK c \in Dirs(e) : j \in e[c].content
    BY <1>1 DEF Listed
  <1>3. c # i
    BY <1>2 DEF IsDir, Dirs
  <1>4. c \in Dirs(f) /\ j \in f[c].content
    BY <1>1, <1>2, <1>3 DEF Pruned, Dirs
  <1> QED BY <1>4 DEF Listed

\* A new entry is listed, and so is every other.
LEMMA AddKeepsFiles ==
    ASSUME NEW e, NEW f, NEW d \in Dirs(e), NEW i, Fresh(e, i),
           NEW name, NEW isdir \in BOOLEAN, Added(e, f, d, i, name, isdir)
    PROVE  KeepsFiles(e, f)
  <1> SUFFICES ASSUME NEW j \in DOMAIN f, IsFile(f, j), IsFile(e, j) => Listed(e, j)
               PROVE  Listed(f, j)
    BY DEF KeepsFiles
  <1>1. \A c \in Dirs(e) : c \in Dirs(f) /\ e[c].content \subseteq f[c].content
    BY DEF Added, Dirs
  <1>2. CASE j = i
    <2>1. d \in Dirs(f) /\ i \in f[d].content
      BY <1>1 DEF Added, Dirs
    <2> QED BY <1>2, <2>1 DEF Listed
  <1>3. CASE j # i
    <2>1. IsFile(e, j)
      BY <1>3 DEF Added, IsFile
    <2> QED BY <1>1, <2>1 DEF Listed
  <1> QED BY <1>2, <1>3

\* A file that is moved is listed at its new place.
LEMMA MoveKeepsFiles ==
    ASSUME NEW e, NEW f, NEW i, NEW dir, NEW to \in Dirs(e), NEW toname,
           Moved(e, f, i, dir, to, toname, TRUE, TRUE)
    PROVE  KeepsFiles(e, f)
  <1> SUFFICES ASSUME NEW j \in DOMAIN f, IsFile(f, j), IsFile(e, j) => Listed(e, j)
               PROVE  Listed(f, j)
    BY DEF KeepsFiles
  <1>1. Dirs(f) = Dirs(e) /\ IsFile(e, j)
    BY DEF Moved, Dirs, IsFile
  <1>2. CASE j = i
    <2>1. to \in Dirs(f) /\ i \in f[to].content
      BY <1>1 DEF Moved, Dirs
    <2> QED BY <1>2, <2>1 DEF Listed
  <1>3. CASE j # i
    <2>1. PICK c \in Dirs(e) : j \in e[c].content
      BY <1>1 DEF Listed
    <2>2. j \in f[c].content
      BY <1>3, <2>1 DEF Moved, Dirs
    <2> QED BY <1>1, <2>1, <2>2 DEF Listed
  <1> QED BY <1>2, <1>3

\* rename loses no file as long as the directory it moves one to exists.
LEMMA RenameKeepsFiles ==
    ASSUME NEW e, Safe(e), Sound(e), NEW dir, NEW name, name \notin {".", ".."},
           NEW to \in Id, to \in DOMAIN e, NEW toname \in Names,
           NEW source \in Lookup(e, dir, name), NEW target \in Lookup(e, to, toname),
           NEW r, r = Rename(e, dir, name, to, toname, source, target)
    PROVE  KeepsFiles(e, r.entries)
  <1>1. KeepsFiles(e, e)
    BY DEF KeepsFiles
  <1>2. ASSUME NEW e1, NEW i, NEW f, RenamePath(e, f, dir, to, toname, e1, i)
        PROVE  KeepsFiles(e, f)
    <2>1. KeepsFiles(e, e1)
      BY <1>1, <1>2, RemoveKeepsFiles DEF RenamePath
    <2>2. KeepsFiles(e1, f)
      BY <1>2, MoveKeepsFiles DEF RenamePath, KeepsFiles
    <2>3. \A j \in DOMAIN f : IsFile(f, j) => j \in DOMAIN e1 /\ IsFile(e1, j)
      BY <1>2 DEF RenamePath, Moved, IsFile
    <2> QED BY <2>1, <2>2, <2>3 DEF KeepsFiles
  <1> QED BY <1>1, <1>2, RenamePaths
=============================================================================
