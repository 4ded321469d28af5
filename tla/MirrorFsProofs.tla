--------------------------- MODULE MirrorFsProofs ---------------------------
(***************************************************************************)
(* Proofs about MirrorFs, for any number of tasks, names and requests.     *)
(* The first part is about the host: what path resolution finds in a tree, *)
(* and that the calls of the file system keep it a tree.  The second part  *)
(* is the inductive invariant.                                             *)
(***************************************************************************)
EXTENDS MirrorFs, FiniteSetTheorems, SequenceTheorems, TLAPS

\* The directory of a path with two names.
LEMMA FirstOfTwo ==
    ASSUME NEW d \in Names, NEW n \in Names
    PROVE  SubSeq(<<d, n>>, 1, 1) = <<d>>
<1> DEFINE s == <<d, n>>
           r == SubSeq(s, 1, 1)
<1>1. \A i \in 1..1 : s[i] \in Names
    OBVIOUS
<1>2. r \in Seq(Names) /\ Len(r) = 1 /\ r[1] = s[1]
    BY <1>1, SubSeqProperties, SMT
<1>3. s[1] = d /\ <<d>> \in Seq(Names) /\ Len(<<d>>) = 1 /\ <<d>>[1] = d
    OBVIOUS
<1> DEFINE t == <<d>>
<1>4. t \in Seq(Names) /\ Len(r) = Len(t) /\ \A i \in 1..Len(r) : r[i] = t[i]
    BY <1>2, <1>3
<1> HIDE DEF r, t
<1>5. r = t
    BY <1>2, <1>4, SeqEqual, Zenon
<1> QED
    BY <1>5 DEF r, t

\* A name in a child of the root.
LEMMA AppendToOne ==
    ASSUME NEW d \in Names, NEW n \in Names
    PROVE  Append(<<d>>, n) = <<d, n>>
<1> DEFINE r == Append(<<d>>, n)
           t == <<d, n>>
<1>1. <<d>> \in Seq(Names) /\ Len(<<d>>) = 1 /\ <<d>>[1] = d
    OBVIOUS
<1>2. r \in Seq(Names) /\ Len(r) = 2 /\ r[1] = d /\ r[2] = n
    BY <1>1, AppendProperties
<1>3. t \in Seq(Names) /\ Len(t) = 2 /\ t[1] = d /\ t[2] = n
    OBVIOUS
<1> HIDE DEF r, t
<1>4. \A i \in 1..Len(r) : r[i] = t[i]
    BY <1>2, <1>3
<1>5. r = t
    BY <1>2, <1>3, <1>4, SeqEqual, Zenon
<1> QED
    BY <1>5 DEF r, t

\* A path below the root has one name or two.
LEMMA PathCases ==
    ASSUME NEW p \in Paths \ {<<>>}
    PROVE  \/ \E n \in Names : p = <<n>> /\ Len(p) = 1 /\ Parent(p) = <<>> /\ Name(p) = n
           \/ \E d, n \in Names : /\ p = <<d, n>> /\ Len(p) = 2 /\ Parent(p) = <<d>>
                                  /\ Name(p) = n /\ p[1] = d /\ p[2] = n
<1>1. CASE \E n \in Names : p = <<n>>
    BY <1>1 DEF Parent, Name
<1>2. CASE \E d, n \in Names : p = <<d, n>>
  <2>1. PICK d \in Names, n \in Names : p = <<d, n>>
    BY <1>2
  <2>2. Len(p) = 2 /\ p[1] = d /\ p[2] = n /\ p[Len(p)] = n
    BY <2>1
  <2>3. SubSeq(p, 1, 1) = <<d>>
    BY <2>1, FirstOfTwo
  <2>4. Parent(p) = <<d>> /\ Name(p) = n
    BY <2>2, <2>3 DEF Parent, Name
  <2> QED
    BY <2>1, <2>2, <2>4
<1> QED
    BY <1>1, <1>2 DEF Paths

\* The paths below the root, and their parents.
LEMMA PathForms ==
    /\ <<>> \in Paths
    /\ \A n \in Names : <<n>> \in Paths \ {<<>>} /\ Parent(<<n>>) = <<>> /\ Len(<<n>>) = 1
    /\ \A d, n \in Names : /\ <<d, n>> \in Paths \ {<<>>} /\ Parent(<<d, n>>) = <<d>>
                           /\ Len(<<d, n>>) = 2
<1>1. \A n \in Names : <<n>> \in Paths \ {<<>>} /\ Len(<<n>>) = 1
    BY DEF Paths
<1>2. \A n \in Names : Parent(<<n>>) = <<>>
    BY DEF Parent
<1>3. \A d, n \in Names : <<d, n>> \in Paths \ {<<>>} /\ Len(<<d, n>>) = 2
    BY DEF Paths
<1>4. ASSUME NEW d \in Names, NEW n \in Names PROVE Parent(<<d, n>>) = <<d>>
  <2>1. Len(<<d, n>>) = 2 /\ SubSeq(<<d, n>>, 1, 1) = <<d>>
    BY FirstOfTwo
  <2> QED
    BY <2>1 DEF Parent
<1> QED
    BY <1>1, <1>2, <1>3, <1>4 DEF Paths

-----------------------------------------------------------------------------
(* Following links.                                                        *)

\* Links lead to a name that is no link.
LEMMA FollowType ==
    ASSUME NEW h, NEW n
    PROVE  \A m \in Follow(h, n) : m \in Names /\ ~IsA(h, <<m>>, "link")
BY DEF Follow

\* If a link leads somewhere, Leads is where.
LEMMA LeadsType ==
    ASSUME NEW h, NEW n, Follow(h, n) # {}
    PROVE  Leads(h, n) \in Names /\ ~IsA(h, <<Leads(h, n)>>, "link")
<1>1. Leads(h, n) \in Follow(h, n)
    BY DEF Leads
<1> QED
    BY <1>1, FollowType

\* What is no link leads to itself.
LEMMA FollowSelf ==
    ASSUME NEW h, NEW n \in Names, ~IsA(h, <<n>>, "link")
    PROVE  Follow(h, n) = {n} /\ Leads(h, n) = n
<1>1. n \in Follow(h, n)
    BY DEF Follow
<1>2. ASSUME NEW m \in Follow(h, n) PROVE m = n
  <2>1. {n} \in SUBSET Names
    OBVIOUS
  <2>2. n \in {n} /\ \A x \in {n} : IsA(h, <<x>>, "link") => h[<<x>>].to \in {n}
    OBVIOUS
  <2>3. m \in {n}
    BY ONLY <1>2, <2>1, <2>2 DEF Follow
  <2> QED
    BY <2>3
<1>3. Follow(h, n) = {n}
    BY <1>1, <1>2
<1>4. Leads(h, n) \in Follow(h, n)
    BY <1>1 DEF Leads
<1> QED
    BY <1>3, <1>4

\* A link leads where the name it holds leads.
LEMMA FollowLink ==
    ASSUME NEW h, NEW n \in Names, IsA(h, <<n>>, "link"), h[<<n>>].to \in Names
    PROVE  Follow(h, n) = Follow(h, h[<<n>>].to) /\ Leads(h, n) = Leads(h, h[<<n>>].to)
<1> DEFINE m == h[<<n>>].to
           Closed(S) == \A x \in S : IsA(h, <<x>>, "link") => h[<<x>>].to \in S
<1>1. ASSUME NEW y \in Follow(h, m) PROVE y \in Follow(h, n)
  <2>1. SUFFICES ASSUME NEW S \in SUBSET Names, n \in S, Closed(S) PROVE y \in S
    BY <1>1 DEF Follow
  <2>2. m \in S
    BY <2>1
  <2> QED
    BY <1>1, <2>1, <2>2 DEF Follow
<1>2. ASSUME NEW y \in Follow(h, n) PROVE y \in Follow(h, m)
  <2>1. SUFFICES ASSUME NEW S \in SUBSET Names, m \in S, Closed(S) PROVE y \in S
    BY <1>2 DEF Follow
  <2>2. S \cup {n} \in SUBSET Names /\ n \in S \cup {n} /\ Closed(S \cup {n})
    BY <2>1
  <2>3. y \in S \cup {n}
    BY <1>2, <2>2 DEF Follow
  <2>4. y # n
    BY <1>2 DEF Follow
  <2> QED
    BY <2>3, <2>4
<1>3. Follow(h, n) = Follow(h, m)
    BY <1>1, <1>2
<1> QED
    BY <1>3 DEF Leads

\* Where links lead depends on the links alone.
LEMMA FollowSame ==
    ASSUME NEW h, NEW g,
           \A x \in Names : IsA(h, <<x>>, "link") <=> IsA(g, <<x>>, "link"),
           \A x \in Names : IsA(h, <<x>>, "link") => h[<<x>>].to = g[<<x>>].to,
           NEW n
    PROVE  Follow(h, n) = Follow(g, n) /\ Leads(h, n) = Leads(g, n)
<1>1. Follow(h, n) \subseteq Follow(g, n)
  <2>1. SUFFICES ASSUME NEW y \in Follow(h, n), NEW S \in SUBSET Names, n \in S,
                        \A x \in S : IsA(g, <<x>>, "link") => g[<<x>>].to \in S
                 PROVE  y \in S
    BY DEF Follow
  <2>2. \A x \in S : IsA(h, <<x>>, "link") => h[<<x>>].to \in S
    BY <2>1
  <2> QED
    BY <2>1, <2>2 DEF Follow
<1>2. Follow(g, n) \subseteq Follow(h, n)
  <2>1. SUFFICES ASSUME NEW y \in Follow(g, n), NEW S \in SUBSET Names, n \in S,
                        \A x \in S : IsA(h, <<x>>, "link") => h[<<x>>].to \in S
                 PROVE  y \in S
    BY DEF Follow
  <2>2. \A x \in S : IsA(g, <<x>>, "link") => g[<<x>>].to \in S
    BY <2>1
  <2> QED
    BY <2>1, <2>2 DEF Follow
<1>3. Follow(h, n) = Follow(g, n)
    BY <1>1, <1>2
<1> QED
    BY <1>3 DEF Leads

-----------------------------------------------------------------------------
(* Path resolution in a tree.                                              *)

\* The node of a tree is a directory, a link to a name or a file with an inode
\* number in use.
LEMMA NodeType ==
    ASSUME NEW h, NEW n \in Nat, Tree(h, n), NEW p \in DOMAIN h
    PROVE  /\ p \in Paths \ {<<>>}
           /\ h[p].type \in {"dir", "link", "file"}
           /\ h[p].type = "link" => h[p].to \in Names
           /\ h[p].type = "file" => h[p].ino \in 1..n
BY DEF Tree, Nodes, Directory, Symlink, Regular

\* If the directory of a path is found, the place of the path is below it.
LEMMA PlaceType ==
    ASSUME NEW h, NEW p \in Paths \ {<<>>}, DirStat(h, p) = "OK"
    PROVE  /\ Place(h, p) \in Paths \ {<<>>} /\ Len(Place(h, p)) = Len(p)
           /\ IsDir(h, Parent(Place(h, p)))
<1>1. CASE Len(p) = 1
  <2>1. Place(h, p) = p /\ Parent(p) = <<>>
    BY <1>1, PathCases DEF Place
  <2> QED
    BY <2>1 DEF IsDir
<1>2. CASE Len(p) = 2
  <2>1. Follow(h, p[1]) # {} /\ IsDir(h, <<Leads(h, p[1])>>)
    BY <1>2 DEF DirStat
  <2>2. Place(h, p) = <<Leads(h, p[1]), p[2]>> /\ p[2] \in Names
    BY <1>2, PathCases DEF Place
  <2>3. Leads(h, p[1]) \in Names
    BY <2>1, LeadsType
  <2>4. /\ Place(h, p) \in Paths \ {<<>>} /\ Len(Place(h, p)) = 2
        /\ Parent(Place(h, p)) = <<Leads(h, p[1])>>
    BY <2>2, <2>3, PathForms
  <2> QED
    BY <1>2, <2>1, <2>4
<1> QED
    BY <1>1, <1>2, PathCases

\* Where a path leads is no link, and is below a directory.
LEMMA TargetType ==
    ASSUME NEW h, NEW n \in Nat, Tree(h, n), NEW p \in Paths \ {<<>>}, TargetStat(h, p) = "OK"
    PROVE  /\ Target(h, p) \in Paths \ {<<>>} /\ IsDir(h, Parent(Target(h, p)))
           /\ ~IsA(h, Target(h, p), "link")
<1>1. DirStat(h, p) = "OK"
    BY DEF TargetStat
<1>2. CASE IsA(h, Place(h, p), "link")
  <2>1. Follow(h, h[Place(h, p)].to) # {}
    BY <1>1, <1>2 DEF TargetStat
  <2>2. Target(h, p) = <<Leads(h, h[Place(h, p)].to)>>
    BY <1>2 DEF Target
  <2>3. /\ Leads(h, h[Place(h, p)].to) \in Names
        /\ ~IsA(h, <<Leads(h, h[Place(h, p)].to)>>, "link")
    BY <2>1, LeadsType
  <2> QED
    BY <2>2, <2>3, PathForms DEF IsDir
<1>3. CASE ~IsA(h, Place(h, p), "link")
    BY <1>1, <1>3, PlaceType DEF Target
<1> QED
    BY <1>2, <1>3

\* What exists when links are followed exists.
LEMMA StatLstat ==
    ASSUME NEW h, NEW p \in Paths \ {<<>>}, StatStat(h, p) = "OK"
    PROVE  LstatStat(h, p) = "OK"
<1>1. TargetStat(h, p) = "OK" /\ (Target(h, p) = <<>> \/ Target(h, p) \in DOMAIN h)
    BY DEF StatStat
<1>2. DirStat(h, p) = "OK"
    BY <1>1 DEF TargetStat
<1>3. Place(h, p) # <<>>
    BY <1>2, PlaceType
<1>4. Place(h, p) \in DOMAIN h
    BY <1>1, <1>3 DEF Target, IsA
<1> QED
    BY <1>2, <1>4 DEF LstatStat

\* If the directory of a path is found, the path of the directory leads to it.
LEMMA ParentStat ==
    ASSUME NEW h, NEW n \in Nat, Tree(h, n), NEW p \in Paths \ {<<>>}, DirStat(h, p) = "OK"
    PROVE  StatStat(h, Parent(p)) = "OK"
<1>1. CASE Len(p) = 1
  <2>1. Parent(p) = <<>>
    BY <1>1, PathCases
  <2>2. DirStat(h, <<>>) = "OK" /\ Place(h, <<>>) = <<>>
    BY DEF DirStat, Place
  <2>3. ~IsA(h, <<>>, "link")
    BY DEF IsA, Tree
  <2>4. TargetStat(h, <<>>) = "OK" /\ Target(h, <<>>) = <<>>
    BY <2>2, <2>3 DEF TargetStat, Target
  <2> QED
    BY <2>1, <2>4 DEF StatStat
<1>2. CASE Len(p) = 2
  <2>1. PICK d \in Names : p[1] = d /\ Parent(p) = <<d>>
    BY <1>2, PathCases
  <2> DEFINE q == <<d>>
  <2>2. q \in Paths \ {<<>>} /\ Len(q) = 1
    BY <2>1, PathForms
  <2> HIDE DEF q
  <2>3. Follow(h, d) # {} /\ IsDir(h, <<Leads(h, d)>>)
    BY <1>2, <2>1 DEF DirStat
  <2>4. <<Leads(h, d)>> \in DOMAIN h
    BY <2>3, LeadsType, PathForms DEF IsDir, IsA
  <2>5. DirStat(h, q) = "OK" /\ Place(h, q) = q
    BY <2>2 DEF DirStat, Place
  <2>6. CASE IsA(h, q, "link")
    <3>1. h[q].to \in Names
      BY <2>6, NodeType DEF IsA
    <3>2. Follow(h, d) = Follow(h, h[q].to) /\ Leads(h, d) = Leads(h, h[q].to)
      BY <2>6, <3>1, FollowLink DEF q
    <3>3. TargetStat(h, q) = "OK" /\ Target(h, q) = <<Leads(h, d)>>
      BY <2>3, <2>5, <2>6, <3>2 DEF TargetStat, Target
    <3> QED
      BY <2>1, <2>4, <3>3 DEF StatStat, q
  <2>7. CASE ~IsA(h, q, "link")
    <3>1. Leads(h, d) = d
      BY <2>7, FollowSelf DEF q
    <3>2. TargetStat(h, q) = "OK" /\ Target(h, q) = q
      BY <2>5, <2>7 DEF TargetStat, Target
    <3> QED
      BY <2>1, <2>4, <3>1, <3>2 DEF StatStat, q
  <2> QED
    BY <2>6, <2>7
<1> QED
    BY <1>1, <1>2, PathCases

-----------------------------------------------------------------------------
(* What the calls of the file system do to the tree.                       *)

\* More inode numbers in use do no harm.
LEMMA TreeGrows ==
    ASSUME NEW h, NEW n \in Nat, NEW m \in Nat, n <= m, Tree(h, n)
    PROVE  Tree(h, m)
<1>1. Nodes(n) \subseteq Nodes(m)
    BY DEF Nodes
<1> QED
    BY <1>1 DEF Tree

\* A node made below a directory, where there is none: File::create,
\* create_new, create_dir and symlink.
LEMMA ExtendTree ==
    ASSUME NEW h, NEW n \in Nat, NEW m \in Nat, n <= m, Tree(h, n),
           NEW q \in Paths \ {<<>>}, q \notin DOMAIN h, IsDir(h, Parent(q)),
           NEW node \in Nodes(m)
    PROVE  Tree(Extend(h, q, node), m)
<1> DEFINE g == Extend(h, q, node)
<1>1. DOMAIN g = DOMAIN h \cup {q} /\ \A p \in DOMAIN h : g[p] = h[p]
    BY DEF Extend
<1>2. g[q] = node
    BY DEF Extend
<1>3. \A p : IsDir(h, p) => IsDir(g, p)
    BY <1>1 DEF IsDir, IsA
<1>4. Tree(h, m)
    BY TreeGrows
<1> HIDE DEF g
<1>5. DOMAIN g \subseteq Paths \ {<<>>}
    BY <1>1, <1>4 DEF Tree
<1>6. ASSUME NEW p \in DOMAIN g PROVE g[p] \in Nodes(m) /\ IsDir(g, Parent(p))
    BY <1>1, <1>2, <1>3, <1>4, <1>6 DEF Tree
<1>7. Tree(g, m)
    BY <1>5, <1>6 DEF Tree
<1> QED
    BY <1>7 DEF g

\* A node taken away that has nothing below it: remove_file and remove_dir.
LEMMA RemovedTree ==
    ASSUME NEW h, NEW n \in Nat, Tree(h, n), NEW q \in Paths \ {<<>>},
           h[q].type = "dir" => Children(h, q) = {}
    PROVE  Tree(Removed(h, q), n)
<1> DEFINE g == Removed(h, q)
<1>1. DOMAIN g = DOMAIN h \ {q} /\ \A p \in DOMAIN g : g[p] = h[p]
    BY DEF Removed
<1> HIDE DEF g
<1>2. ASSUME NEW p \in DOMAIN g PROVE IsDir(g, Parent(p))
  <2>1. p \in DOMAIN h /\ IsDir(h, Parent(p)) /\ p \in Paths \ {<<>>}
    BY <1>1, <1>2 DEF Tree
  <2>2. CASE Parent(p) = <<>>
    BY <2>2 DEF IsDir
  <2>3. CASE Parent(p) # <<>>
    <3>1. Parent(p) \in DOMAIN h /\ h[Parent(p)].type = "dir"
      BY <2>1, <2>3 DEF IsDir, IsA
    <3>2. PICK d \in Names : Parent(p) = <<d>> /\ Len(p) = 2
      BY <2>1, <2>3, PathCases
    <3>5. Len(p) = Len(Parent(p)) + 1
      BY <3>2, PathForms
    <3>3. p \in Children(h, Parent(p))
      BY <2>1, <3>5 DEF Children
    <3>4. Parent(p) # q
      BY <3>1, <3>3
    <3> QED
      BY <1>1, <3>1, <3>4 DEF IsDir, IsA
  <2> QED
    BY <2>2, <2>3
<1>3. Tree(g, n)
    BY <1>1, <1>2 DEF Tree
<1> QED
    BY <1>3 DEF g

\* A node moved, with what is in it, to a place below a directory that is not
\* the node itself, where there is nothing in the way: rename.
LEMMA RenamedTree ==
    ASSUME NEW h, NEW n \in Nat, Tree(h, n),
           NEW from \in DOMAIN h, NEW to \in Paths \ {<<>>}, IsDir(h, Parent(to)),
           Parent(to) # from
    PROVE  Tree(Renamed(h, from, to), n)
<1> DEFINE In(p, q) == p = q \/ Parent(p) = q
           Old(p) == IF p = to THEN from ELSE Append(from, Name(p))
           g == Renamed(h, from, to)
<1>1. \A p : p \in DOMAIN g <=>
            /\ p \in Paths
            /\ IF In(p, to) THEN Old(p) \in DOMAIN h ELSE p \in DOMAIN h /\ ~In(p, from)
    BY DEF Renamed
<1>2. \A p \in DOMAIN g : g[p] = IF In(p, to) THEN h[Old(p)] ELSE h[p]
    BY DEF Renamed
<1> HIDE DEF g
<1>3. from \in Paths \ {<<>>} /\ DOMAIN h \subseteq Paths \ {<<>>}
    BY DEF Tree
<1>4. \A p \in DOMAIN g : p # <<>>
  <2>1. Parent(<<>>) = <<>>
    BY SubSeqEmpty DEF Parent
  <2>2. ~In(<<>>, to) /\ <<>> \notin DOMAIN h
    BY <1>3, <2>1
  <2> QED
    BY <1>1, <2>2
<1>5. ASSUME NEW p \in DOMAIN g PROVE g[p] \in Nodes(n)
    BY <1>1, <1>2, <1>5 DEF Tree
<1>6. ASSUME NEW p \in DOMAIN g PROVE IsDir(g, Parent(p))
  <2>1. p \in Paths \ {<<>>}
    BY <1>1, <1>4, <1>6
  <2>2. CASE p = to
    <3>1. CASE Parent(to) = <<>>
      BY <2>2, <3>1 DEF IsDir
    <3>2. CASE Parent(to) # <<>>
      <4> DEFINE d == Parent(to)
      <4>1. d \in DOMAIN h /\ h[d].type = "dir"
        BY <3>2 DEF IsDir, IsA
      <4>2. Len(to) = 2 /\ Len(d) = 1 /\ Parent(d) = <<>> /\ d \in Paths
        BY <3>2, PathCases, PathForms
      <4>3. ~In(d, to) /\ ~In(d, from)
        BY <1>3, <4>2
      <4>4. d \in DOMAIN g /\ g[d] = h[d]
        BY <1>1, <1>2, <4>1, <4>2, <4>3
      <4> QED
        BY <2>2, <4>1, <4>4 DEF IsDir, IsA
    <3> QED
      BY <3>1, <3>2
  <2>3. CASE p # to /\ Parent(p) = to
    <3>1. Append(from, Name(p)) \in DOMAIN h
      BY <1>1, <1>6, <2>3
    <3>2. Len(p) = 2 /\ Name(p) \in Names
      BY <2>1, <2>3, PathCases
    <3>3. Append(from, Name(p)) = <<from[1], Name(p)>> /\ from = <<from[1]>> /\ from[1] \in Names
      <4>1. CASE Len(from) = 1
        <5>1. PICK m \in Names : from = <<m>>
          BY <1>3, <4>1, PathCases
        <5>2. from[1] = m
          BY <5>1
        <5>3. Append(<<m>>, Name(p)) = <<m, Name(p)>>
          BY <3>2, AppendToOne
        <5> QED
          BY <5>1, <5>2, <5>3
      <4>2. CASE Len(from) = 2
        <5>1. PICK d \in Names, m \in Names : from = <<d, m>>
          BY <1>3, <4>2, PathCases
        <5>2. Len(Append(<<d, m>>, Name(p))) = 3
          OBVIOUS
        <5>3. Append(from, Name(p)) \in Paths \ {<<>>}
          BY <1>3, <3>1
        <5>4. Len(Append(from, Name(p))) \in {1, 2}
          BY <5>3, PathCases
        <5> QED
          BY <5>1, <5>2, <5>4
      <4> QED
        BY <1>3, <4>1, <4>2, PathCases
    <3>4. Parent(Append(from, Name(p))) = from
      BY <3>2, <3>3, PathForms
    <3>5. IsDir(h, from)
      BY <3>1, <3>4 DEF Tree
    <3>6. h[from].type = "dir"
      BY <1>3, <3>5 DEF IsDir, IsA
    <3>7. to \in DOMAIN g /\ g[to] = h[from]
      BY <1>1, <1>2
    <3> QED
      BY <2>3, <3>6, <3>7 DEF IsDir, IsA
  <2>4. CASE ~In(p, to)
    <3>1. p \in DOMAIN h /\ ~In(p, from) /\ IsDir(h, Parent(p))
      BY <1>1, <1>6, <2>4 DEF Tree
    <3>2. CASE Parent(p) = <<>>
      BY <3>2 DEF IsDir
    <3>3. CASE Parent(p) # <<>>
      <4> DEFINE d == Parent(p)
      <4>1. d \in DOMAIN h /\ h[d].type = "dir"
        BY <3>1, <3>3 DEF IsDir, IsA
      <4>2. d \in Paths /\ Parent(d) = <<>>
        BY <2>1, <3>3, PathCases, PathForms
      <4>3. ~In(d, to) /\ ~In(d, from)
        BY <1>3, <2>4, <3>1, <4>2
      <4>4. d \in DOMAIN g /\ g[d] = h[d]
        BY <1>1, <1>2, <4>1, <4>2, <4>3
      <4> QED
        BY <4>1, <4>4 DEF IsDir, IsA
    <3> QED
      BY <3>2, <3>3
  <2> QED
    BY <2>2, <2>3, <2>4
<1>7. DOMAIN g \subseteq Paths \ {<<>>}
    BY <1>1, <1>4
<1>8. Tree(g, n)
    BY <1>5, <1>6, <1>7 DEF Tree
<1> QED
    BY <1>8 DEF g

\* After File::create the path leads to a file that can be opened.
LEMMA CreateResolves ==
    ASSUME NEW h, NEW n \in Nat, Tree(h, n), NEW p \in Paths \ {<<>>}, TargetStat(h, p) = "OK",
           Target(h, p) \notin DOMAIN h, NEW node, node.type = "file"
    PROVE  /\ DirStat(Extend(h, Target(h, p), node), p) = "OK"
           /\ OpenStat(Extend(h, Target(h, p), node), p) = "OK"
<1> DEFINE q == Target(h, p)
           g == Extend(h, q, node)
<1>1. DOMAIN g = DOMAIN h \cup {q} /\ (\A x \in DOMAIN h : g[x] = h[x]) /\ g[q] = node
    BY DEF Extend
<1>2. q # <<>>
    BY TargetType
<1>3. DirStat(h, p) = "OK"
    BY DEF TargetStat
<1> HIDE DEF q, g
<1>4. \A x : IsDir(h, x) => IsDir(g, x)
    BY <1>1 DEF IsDir, IsA
<1>5. \A x : /\ IsA(h, x, "link") <=> IsA(g, x, "link")
             /\ IsA(h, x, "link") => h[x] = g[x]
    BY <1>1 DEF IsA, q
<1>6. \A m : Follow(h, m) = Follow(g, m) /\ Leads(h, m) = Leads(g, m)
    BY <1>5, FollowSame
<1>7. DirStat(g, p) = "OK"
    BY <1>3, <1>4, <1>6 DEF DirStat
<1>8. Place(g, p) = Place(h, p)
    BY <1>6 DEF Place
<1>9. TargetStat(g, p) = "OK"
  <2>1. CASE IsA(g, Place(g, p), "link")
    <3>1. Follow(h, h[Place(h, p)].to) # {}
      BY <1>3, <1>5, <1>8, <2>1 DEF TargetStat
    <3>2. Follow(g, g[Place(g, p)].to) # {}
      BY <1>5, <1>6, <1>8, <2>1, <3>1
    <3> QED
      BY <1>7, <3>2 DEF TargetStat
  <2>2. CASE ~IsA(g, Place(g, p), "link")
    BY <1>7, <2>2 DEF TargetStat
  <2> QED
    BY <2>1, <2>2
<1>10. Target(g, p) = q
  <2>1. CASE IsA(g, Place(g, p), "link")
    BY <1>5, <1>6, <1>8, <2>1 DEF Target, q
  <2>2. CASE ~IsA(g, Place(g, p), "link")
    BY <1>5, <1>8, <2>2 DEF Target, q
  <2> QED
    BY <2>1, <2>2
<1>11. StatStat(g, p) = "OK"
    BY <1>1, <1>9, <1>10 DEF StatStat
<1>12. ~IsDir(g, q)
    BY <1>1, <1>2 DEF IsDir, IsA
<1>13. OpenStat(g, p) = "OK"
    BY <1>10, <1>11, <1>12 DEF OpenStat
<1> QED
    BY <1>7, <1>13 DEF g, q

\* After create_new, create_dir and symlink the path names what was made; the
\* path leads to it unless it is a link.
LEMMA MakeResolves ==
    ASSUME NEW h, NEW p \in Paths \ {<<>>}, MakeStat(h, p) = "OK", NEW node
    PROVE  /\ DirStat(Extend(h, Place(h, p), node), p) = "OK"
           /\ LstatStat(Extend(h, Place(h, p), node), p) = "OK"
           /\ node.type # "link" => StatStat(Extend(h, Place(h, p), node), p) = "OK"
<1> DEFINE q == Place(h, p)
           g == Extend(h, q, node)
<1>2. DirStat(h, p) = "OK" /\ q \notin DOMAIN h
    BY DEF MakeStat
<1>1. DOMAIN g = DOMAIN h \cup {q} /\ (\A x \in DOMAIN h : g[x] = h[x]) /\ g[q] = node
    BY <1>2 DEF Extend
<1>3. q # <<>> /\ Len(q) = Len(p)
    BY <1>2, PlaceType
<1>4. \A x : IsDir(h, x) => IsDir(g, x)
    BY <1>1, <1>2 DEF IsDir, IsA
<1> HIDE DEF q, g
<1>5. DirStat(g, p) = "OK" /\ Place(g, p) = q
  <2>1. CASE Len(p) = 1
    BY <2>1 DEF DirStat, Place, q
  <2>2. CASE Len(p) = 2
    <3>1. \A x \in Names : <<x>> # q
      BY <1>3, <2>2, PathForms
    <3>2. \A x \in Names : /\ IsA(h, <<x>>, "link") <=> IsA(g, <<x>>, "link")
                           /\ IsA(h, <<x>>, "link") => h[<<x>>] = g[<<x>>]
      BY <1>1, <3>1 DEF IsA
    <3>3. \A m : Follow(h, m) = Follow(g, m) /\ Leads(h, m) = Leads(g, m)
      BY <3>2, FollowSame
    <3> QED
      BY <1>2, <1>4, <3>3 DEF DirStat, Place, q
  <2> QED
    BY <2>1, <2>2, PathCases
<1>6. LstatStat(g, p) = "OK"
    BY <1>1, <1>5 DEF LstatStat
<1>7. ASSUME node.type # "link" PROVE StatStat(g, p) = "OK"
  <2>1. ~IsA(g, q, "link")
    BY <1>1, <1>7 DEF IsA
  <2>2. TargetStat(g, p) = "OK" /\ Target(g, p) = q
    BY <1>5, <2>1 DEF TargetStat, Target
  <2> QED
    BY <1>1, <2>2 DEF StatStat
<1> QED
    BY <1>5, <1>6, <1>7 DEF g, q

\* The answers of path resolution.
LEMMA StatTypes ==
    ASSUME NEW h, NEW p
    PROVE  /\ DirStat(h, p) \in Statuses /\ LstatStat(h, p) \in Statuses
           /\ TargetStat(h, p) \in Statuses /\ StatStat(h, p) \in Statuses
           /\ OpenStat(h, p) \in Statuses /\ MakeStat(h, p) \in Statuses
<1>1. DirStat(h, p) \in Statuses
    BY DEF DirStat, Statuses
<1>2. LstatStat(h, p) \in Statuses /\ TargetStat(h, p) \in Statuses /\ MakeStat(h, p) \in Statuses
    BY <1>1 DEF LstatStat, TargetStat, MakeStat, Statuses
<1>3. StatStat(h, p) \in Statuses
    BY <1>2 DEF StatStat, Statuses
<1>4. OpenStat(h, p) \in Statuses
    BY <1>3 DEF OpenStat, Statuses
<1> QED
    BY <1>1, <1>2, <1>3, <1>4

\* What is open is a file whose inode number is in use.
LEMMA OpenInode ==
    ASSUME NEW h, NEW n \in Nat, Tree(h, n), NEW p \in Paths \ {<<>>},
           StatStat(h, p) = "OK", ~IsDir(h, Target(h, p))
    PROVE  Target(h, p) \in DOMAIN h /\ Inode(h, p) \in 1..n
<1>1. TargetStat(h, p) = "OK" /\ (Target(h, p) = <<>> \/ Target(h, p) \in DOMAIN h)
    BY DEF StatStat
<1>2. Target(h, p) \in DOMAIN h
    BY <1>1, TargetType
<1>3. h[Target(h, p)].type = "file"
    BY <1>1, <1>2, TargetType, NodeType DEF IsDir, IsA
<1> QED
    BY <1>2, <1>3, NodeType DEF Inode

-----------------------------------------------------------------------------
(* The inductive invariant.  A task that has changed the host or opened a  *)
(* file, and has not been disturbed since, still finds what it made or     *)
(* opened.  A task whose GUARDED lookup found nothing, and that has not    *)
(* been disturbed since, still does not find it.                           *)

Creating(k) == k.req.op \in {"UNCHECKED", "GUARDED"}

Shape(k, n) ==
    /\ k \in Task /\ k.ino \in 0..n
    /\ k.pc # "idle" => k.req \in Requests /\ k.stat = "none"
    /\ k.pc \in {"write", "write_all"} => k.req.op = "WRITE"
    /\ k.pc = "guard" => k.req.op = "GUARDED"
    /\ k.pc \in {"create", "set_len"} => Creating(k)
    /\ k.pc = "create_new" => k.req.op = "EXCLUSIVE"
    /\ k.pc = "create_dir" => k.req.op = "MKDIR"
    /\ k.pc = "symlink" => k.req.op = "SYMLINK"
    /\ k.pc = "register" => Creating(k) \/ k.req.op \in {"EXCLUSIVE", "MKDIR", "SYMLINK"}
    /\ k.pc = "set_len" => k.changed
    /\ k.pc \in {"set_len", "resize"} => k.req.size # Keep
    /\ k.pc \in {"set_len", "resize", "write_all", "read_exact"} => k.ino \in 1..n
    /\ k.changed =>
        k.pc \in {"idle", "getattr", "set_len", "register", "setattr", "resize", "recache"}
    /\ (k.changed /\ k.pc \in {"setattr", "resize"}) => Creating(k)

Excused(k, stat) ==
    \/ stat = "OK"
    \/ k.req.op = "SYMLINK" /\ stat = "NOENT"
    \/ Creating(k) /\ k.req.size = Huge
    \/ k.req.op = "WRITE" /\ stat = "IO" /\ k.req.count > 1

Kept(k, h) ==
    /\ (k.pc \in {"resize", "write_all"} /\ ~k.disturbed) => OpenStat(h, k.req.path) = "OK"
    /\ (k.changed /\ ~k.disturbed) =>
        /\ k.pc = "idle" => k.stat = "none" \/ Excused(k, k.stat)
        /\ k.pc = "getattr" => LstatStat(h, k.req.path) = "OK"
        /\ (k.pc \in {"set_len", "register", "setattr"} /\ Creating(k)) =>
            OpenStat(h, k.req.path) = "OK" /\ StatStat(h, Parent(k.req.path)) = "OK"
        /\ k.pc = "register" =>
            /\ StatStat(h, Parent(k.req.path)) = "OK" /\ LstatStat(h, k.req.path) = "OK"
            /\ k.req.op # "SYMLINK" => StatStat(h, k.req.path) = "OK"

Spares(k, h) ==
    /\ k.lost => k.req.op = "UNCHECKED" \/ k.disturbed
    /\ (k.pc = "create" /\ k.req.op = "GUARDED" /\ ~k.disturbed) =>
        ~(StatStat(h, Parent(k.req.path)) = "OK" /\ StatStat(h, k.req.path) = "OK")

Good(k, h, n) == Shape(k, n) /\ Kept(k, h) /\ Spares(k, h)

HostInv ==
    /\ size \in Seq(0..MaxLen) /\ Tree(disk, Len(size))
    /\ calls \in 0..MaxCalls
    /\ task \in [Tasks -> Task]
    /\ \A t \in Tasks : Good(task[t], disk, Len(size))

\* Whatever changes the host disturbs the other tasks, which then owe nothing.
LEMMA Disturbs ==
    ASSUME NEW k, NEW h, NEW g, NEW n \in Nat, NEW m \in Nat, n <= m, Good(k, h, n)
    PROVE  Good([k EXCEPT !.disturbed = TRUE], g, m)
<1> DEFINE j == [k EXCEPT !.disturbed = TRUE]
<1>1. k \in Task
    BY DEF Good, Shape
<1>2. /\ j \in Task /\ j.pc = k.pc /\ j.req = k.req /\ j.stat = k.stat /\ j.ino = k.ino
      /\ j.changed = k.changed /\ j.lost = k.lost /\ j.disturbed = TRUE
    BY <1>1 DEF Task
<1> HIDE DEF j
<1>3. Shape(j, m)
    BY <1>2 DEF Good, Shape, Creating
<1>4. Kept(j, g) /\ Spares(j, g)
    BY <1>2 DEF Kept, Spares
<1>5. Good(j, g, m)
    BY <1>3, <1>4 DEF Good
<1> QED
    BY <1>5 DEF j

\* A task may answer OK whenever it likes, and a failure if it has changed
\* nothing, has been disturbed or is excused.
LEMMA Answers ==
    ASSUME NEW k, NEW h, NEW n \in Nat, Good(k, h, n), NEW s \in Statuses,
           (k.changed /\ ~k.disturbed) => Excused(k, s)
    PROVE  Good([k EXCEPT !.pc = "idle", !.stat = s], h, n)
<1> DEFINE j == [k EXCEPT !.pc = "idle", !.stat = s]
<1>1. k \in Task
    BY DEF Good, Shape
<1>2. /\ j \in Task /\ j.pc = "idle" /\ j.req = k.req /\ j.stat = s /\ j.ino = k.ino
      /\ j.changed = k.changed /\ j.lost = k.lost /\ j.disturbed = k.disturbed
    BY <1>1 DEF Task, Steps
<1> HIDE DEF j
<1>3. Shape(j, n)
    BY <1>2 DEF Good, Shape
<1>4. Kept(j, h)
    BY <1>2 DEF Kept, Excused, Creating
<1>5. Spares(j, h)
    BY <1>2 DEF Good, Spares
<1>6. Good(j, h, n)
    BY <1>3, <1>4, <1>5 DEF Good
<1> QED
    BY <1>6 DEF j

\* A step of one task that leaves the names of the host alone.
LEMMA TaskStep ==
    ASSUME HostInv, NEW t \in Tasks, NEW k, task' = [task EXCEPT ![t] = k],
           disk' = disk, size' = size, calls' \in 0..MaxCalls,
           Good(k, disk, Len(size))
    PROVE  HostInv'
<1>1. k \in Task
    BY DEF Good, Shape
<1>2. task' \in [Tasks -> Task] /\ \A u \in Tasks : task'[u] = IF u = t THEN k ELSE task[u]
    BY <1>1 DEF HostInv
<1>3. ASSUME NEW u \in Tasks PROVE Good(task'[u], disk', Len(size'))
    BY <1>2 DEF HostInv
<1> QED
    BY <1>2, <1>3 DEF HostInv

\* A task answers its request and leaves the host alone.
LEMMA AnswerStep ==
    ASSUME HostInv, NEW t \in Tasks, NEW s \in Statuses, Answer(t, s),
           (task[t].changed /\ ~task[t].disturbed) => Excused(task[t], s),
           disk' = disk, size' = size, calls' = calls
    PROVE  HostInv'
<1> DEFINE j == [task[t] EXCEPT !.pc = "idle", !.stat = s]
<1>1. task' = [task EXCEPT ![t] = j]
    BY DEF Answer, HostInv
<1>2. Len(size) \in Nat /\ Good(task[t], disk, Len(size)) /\ calls \in 0..MaxCalls
    BY DEF HostInv
<1>3. Good(j, disk, Len(size))
    BY <1>2, Answers
<1> HIDE DEF j
<1> QED
    BY <1>1, <1>2, <1>3, TaskStep

\* A task goes on to its next system call.
LEMMA GotoStep ==
    ASSUME HostInv, NEW t \in Tasks, NEW pc, Goto(t, pc),
           Good([task[t] EXCEPT !.pc = pc], disk, Len(size)),
           disk' = disk, size' = size, calls' = calls
    PROVE  HostInv'
<1> DEFINE j == [task[t] EXCEPT !.pc = pc]
<1>1. task' = [task EXCEPT ![t] = j]
    BY DEF Goto, HostInv
<1>2. calls \in 0..MaxCalls
    BY DEF HostInv
<1> HIDE DEF j
<1>3. Good(j, disk, Len(size))
    BY DEF j
<1> QED
    BY <1>1, <1>2, <1>3, TaskStep

\* A step that changes the host.
LEMMA ChangeStep ==
    ASSUME HostInv, NEW t \in Tasks, NEW k, Change(t, k), calls' = calls,
           size' \in Seq(0..MaxLen), Len(size) <= Len(size'), Tree(disk', Len(size')),
           Good([k EXCEPT !.changed = TRUE], disk', Len(size'))
    PROVE  HostInv'
<1> DEFINE j == [k EXCEPT !.changed = TRUE]
<1>1. \A u \in Tasks : task'[u] = IF u = t THEN j ELSE [task[u] EXCEPT !.disturbed = TRUE]
    BY DEF Change
<1>2. Len(size) \in Nat /\ Len(size') \in Nat
    BY DEF HostInv
<1>3. ASSUME NEW u \in Tasks PROVE Good(task'[u], disk', Len(size'))
  <2>1. CASE u = t
    BY <1>1, <2>1
  <2>2. CASE u # t
    <3>1. Good(task[u], disk, Len(size))
      BY DEF HostInv
    <3>2. Good([task[u] EXCEPT !.disturbed = TRUE], disk', Len(size'))
      BY <1>2, <3>1, Disturbs
    <3> QED
      BY <1>1, <2>2, <3>2
  <2> QED
    BY <2>1, <2>2
<1>4. \A u \in Tasks : task'[u] \in Task
    BY <1>3 DEF Good, Shape
<1>5. task' = [u \in Tasks |-> task'[u]]
    BY DEF Change
<1>6. task' \in [Tasks -> Task]
    BY <1>4, <1>5
<1>7. (calls \in 0..MaxCalls)'
    BY DEF HostInv
<1> QED
    BY <1>3, <1>6, <1>7 DEF HostInv

\* A file gets a new length.
LEMMA SizeStep ==
    ASSUME HostInv, NEW i \in 1..Len(size), NEW v \in 0..MaxLen, size' = [size EXCEPT ![i] = v]
    PROVE  size' \in Seq(0..MaxLen) /\ Len(size') = Len(size)
BY DEF HostInv

\* Lengths are within the bound.
LEMMA SizeRange ==
    ASSUME HostInv, NEW i \in 1..Len(size)
    PROVE  size[i] \in 0..MaxLen
<1>1. size \in Seq(0..MaxLen)
    BY DEF HostInv
<1> QED
    BY <1>1, ElementOfSeq

\* A task at work has a request whose paths are below the root.
LEMMA AtWork ==
    ASSUME HostInv, NEW t \in Tasks, task[t].pc # "idle"
    PROVE  /\ task[t] \in Task /\ Good(task[t], disk, Len(size)) /\ Len(size) \in Nat
           /\ Tree(disk, Len(size))
           /\ task[t].req \in Requests /\ task[t].req \in Request
           /\ Path(t) \in Paths \ {<<>>} /\ task[t].req.to \in Paths \ {<<>>}
<1>1. /\ task[t] \in Task /\ Good(task[t], disk, Len(size)) /\ Len(size) \in Nat
      /\ Tree(disk, Len(size))
    BY DEF HostInv
<1>2. task[t].req \in Requests
    BY <1>1 DEF Good, Shape
<1>3. task[t].req \in Request
    BY <1>2, MirrorAssumption
<1> QED
    BY <1>1, <1>2, <1>3 DEF Path, Request

-----------------------------------------------------------------------------
(* The steps.                                                              *)

\* A task that has changed nothing may go on to a step that asks nothing.
LEMMA Moves ==
    ASSUME NEW k, NEW h, NEW n \in Nat, Good(k, h, n), ~k.changed, k.pc # "idle",
           NEW pc \in {"write", "rmdir", "unlink", "target", "read_dir", "rename", "getattr",
                       "create"},
           pc = "write" => k.req.op = "WRITE",
           pc = "create" =>
               /\ k.req.op = "GUARDED"
               /\ ~(StatStat(h, Parent(k.req.path)) = "OK" /\ StatStat(h, k.req.path) = "OK")
    PROVE  Good([k EXCEPT !.pc = pc], h, n)
<1> DEFINE j == [k EXCEPT !.pc = pc]
<1>1. k \in Task
    BY DEF Good, Shape
<1>2. /\ j \in Task /\ j.pc = pc /\ j.req = k.req /\ j.stat = k.stat /\ j.ino = k.ino
      /\ j.changed = k.changed /\ j.lost = k.lost /\ j.disturbed = k.disturbed
    BY <1>1 DEF Task, Steps
<1> HIDE DEF j
<1>3. Shape(j, n)
    BY <1>2 DEF Good, Shape, Creating
<1>4. Kept(j, h)
    BY <1>2 DEF Kept
<1>5. Spares(j, h)
    BY <1>2 DEF Good, Spares
<1>6. Good(j, h, n)
    BY <1>3, <1>4, <1>5 DEF Good
<1> QED
    BY <1>6 DEF j

\* A task that changes the host and goes on has to find what it made.
LEMMA Changes ==
    ASSUME NEW g, NEW m \in Nat, NEW j \in Task, j.changed = TRUE, j.req \in Requests,
           j.stat = "none", j.ino \in 0..m,
           j.pc \in {"getattr", "register", "set_len", "recache"},
           j.lost => j.req.op = "UNCHECKED" \/ j.disturbed,
           j.pc = "getattr" => LstatStat(g, j.req.path) = "OK",
           j.pc \in {"set_len", "register"} =>
               /\ StatStat(g, Parent(j.req.path)) = "OK" /\ LstatStat(g, j.req.path) = "OK"
               /\ j.req.op # "SYMLINK" => StatStat(g, j.req.path) = "OK"
               /\ Creating(j) => OpenStat(g, j.req.path) = "OK"
               /\ Creating(j) \/ j.req.op \in {"EXCLUSIVE", "MKDIR", "SYMLINK"},
           j.pc = "set_len" => Creating(j) /\ j.req.size # Keep /\ j.ino \in 1..m
    PROVE  Good(j, g, m)
<1>1. Shape(j, m)
    BY DEF Shape, Creating
<1>2. Kept(j, g)
    BY DEF Kept, Creating
<1>3. Spares(j, g)
    BY DEF Spares
<1> QED
    BY <1>1, <1>2, <1>3 DEF Good

\* A task that changes the host and then asks for the attributes finds the
\* object, unless it was disturbed.
LEMMA Finds ==
    ASSUME NEW g, NEW m \in Nat, NEW j \in Task, j.changed = TRUE, j.req \in Requests,
           j.stat = "none", j.ino \in 0..m, j.pc = "getattr",
           j.lost => j.req.op = "UNCHECKED" \/ j.disturbed,
           ~j.disturbed => LstatStat(g, j.req.path) = "OK"
    PROVE  Good(j, g, m)
BY DEF Good, Shape, Kept, Spares, Creating

\* LOOKUP changes nothing on the host.
LEMMA LookupStep ==
    ASSUME HostInv, NEW t \in Tasks, Lookup(t)
    PROVE  HostInv'
<1>1. task[t].pc = "lookup" /\ Answer(t, SymbolsStat(Path(t))) /\ disk' = disk /\ size' = size
      /\ calls' = calls
    BY DEF Lookup, Running
<1>2. ~task[t].changed
    BY <1>1, AtWork DEF Good, Shape
<1>3. SymbolsStat(Path(t)) \in Statuses
    BY DEF SymbolsStat, Statuses
<1> QED
    BY <1>1, <1>2, <1>3, AnswerStep

\* The attributes of what a task made are found, unless it was disturbed.
LEMMA GetAttrStep ==
    ASSUME HostInv, NEW t \in Tasks, GetAttr(t)
    PROVE  HostInv'
<1>1. task[t].pc = "getattr" /\ Answer(t, LstatStat(disk, Path(t))) /\ disk' = disk /\ size' = size
      /\ calls' = calls
    BY DEF GetAttr, Running
<1>2. (task[t].changed /\ ~task[t].disturbed) => Excused(task[t], LstatStat(disk, Path(t)))
    BY <1>1, AtWork DEF Good, Kept, Excused, Path
<1> QED
    BY <1>1, <1>2, StatTypes, AnswerStep

\* READLINK changes nothing.
LEMMA ReadLinkStep ==
    ASSUME HostInv, NEW t \in Tasks, ReadLink(t)
    PROVE  HostInv'
<1>1. /\ task[t].pc = "readlink" /\ disk' = disk /\ size' = size /\ calls' = calls
      /\ \E s \in Statuses : Answer(t, s)
    BY DEF ReadLink, Running, Statuses
<1>2. ~task[t].changed
    BY <1>1, AtWork DEF Good, Shape
<1> QED
    BY <1>1, <1>2, AnswerStep

\* A READ changes nothing.
LEMMA ReadAnswers ==
    ASSUME NEW k, NEW h, NEW n \in Nat, Good(k, h, n), ~k.changed,
           NEW eof \in BOOLEAN, NEW reached \in BOOLEAN
    PROVE  Good([[k EXCEPT !.pc = "idle", !.stat = "OK"] EXCEPT !.eof = eof, !.reached = reached],
                h, n)
<1> DEFINE i == [k EXCEPT !.pc = "idle", !.stat = "OK"]
           j == [i EXCEPT !.eof = eof, !.reached = reached]
<1>1. Good(i, h, n)
    BY Answers DEF Statuses
<1>2. i \in Task /\ i.changed = k.changed
    BY <1>1 DEF Good, Shape, Task
<1> HIDE DEF i
<1>3. /\ j \in Task /\ j.pc = i.pc /\ j.req = i.req /\ j.stat = i.stat /\ j.ino = i.ino
      /\ j.changed = i.changed /\ j.lost = i.lost /\ j.disturbed = i.disturbed
    BY <1>2 DEF Task
<1> HIDE DEF j
<1>4. Shape(j, n)
    BY <1>1, <1>3 DEF Good, Shape, Creating
<1>5. Kept(j, h)
    BY <1>1, <1>2, <1>3 DEF Good, Kept
<1>6. Spares(j, h)
    BY <1>1, <1>3 DEF Good, Spares
<1>7. Good(j, h, n)
    BY <1>4, <1>5, <1>6 DEF Good
<1> QED
    BY <1>7 DEF i, j

\* READ opens a file whose inode number is in use, and keeps its length.
LEMMA ReadStep ==
    ASSUME HostInv, NEW t \in Tasks, Read(t)
    PROVE  HostInv'
<1> DEFINE p == Path(t)
           r == task[t].req
           k == task[t]
<1>1. task[t].pc = "read" /\ disk' = disk /\ size' = size /\ calls' = calls
    BY DEF Read, Running
<1>2. /\ k \in Task /\ Good(k, disk, Len(size)) /\ Len(size) \in Nat /\ ~k.changed
      /\ p \in Paths \ {<<>>} /\ Tree(disk, Len(size)) /\ r \in Request
    BY <1>1, AtWork DEF Good, Shape
<1>3. CASE StatStat(disk, p) # "OK"
  <2>1. Answer(t, StatStat(disk, p))
    BY <1>3 DEF Read
  <2> QED
    BY <1>1, <1>2, <2>1, StatTypes, AnswerStep
<1>4. CASE StatStat(disk, p) = "OK"
  <2>1. PICK len \in Lengths(p) :
            IF r.offset >= len \/ r.count = 0
            THEN task' = [task EXCEPT ![t] =
                    [Done(t) EXCEPT !.eof = r.count >= len,
                                    !.reached = r.offset >= len /\ ~IsDir(disk, Target(disk, p))]]
            ELSE IF IsDir(disk, Target(disk, p)) THEN Answer(t, "ISDIR")
            ELSE task' = [task EXCEPT ![t] =
                    [At(t, "read_exact") EXCEPT !.ino = Inode(disk, p), !.len = len]]
    BY <1>4 DEF Read
  <2>2. len \in 0..MaxLen
    <3>1. CASE IsDir(disk, Target(disk, p))
      BY <3>1 DEF Lengths
    <3>2. CASE ~IsDir(disk, Target(disk, p))
      <4>1. Inode(disk, p) \in 1..Len(size)
        BY <1>2, <1>4, <3>2, OpenInode
      <4>3. \A i \in 1..Len(size) : size[i] \in 0..MaxLen
        BY SizeRange
      <4>2. size[Inode(disk, p)] \in 0..MaxLen
        BY <4>1, <4>3
      <4> QED
        BY <3>2, <4>2 DEF Lengths
    <3> QED
      BY <3>1, <3>2
  <2>3. CASE r.offset >= len \/ r.count = 0
    <3> DEFINE eof == r.count >= len
               reached == r.offset >= len /\ ~IsDir(disk, Target(disk, p))
               j == [Done(t) EXCEPT !.eof = eof, !.reached = reached]
    <3>1. eof \in BOOLEAN /\ reached \in BOOLEAN
      OBVIOUS
    <3>2. task' = [task EXCEPT ![t] = j]
      BY <2>1, <2>3
    <3> HIDE DEF eof, reached
    <3>3. Good(j, disk, Len(size))
      BY <1>2, <3>1, ReadAnswers DEF Done
    <3>4. calls' \in 0..MaxCalls
      BY <1>1 DEF HostInv
    <3> HIDE DEF j
    <3> QED
      BY <1>1, <3>2, <3>3, <3>4, TaskStep
  <2>4. CASE ~(r.offset >= len \/ r.count = 0) /\ IsDir(disk, Target(disk, p))
    <3>1. Answer(t, "ISDIR") /\ "ISDIR" \in Statuses
      BY <2>1, <2>4 DEF Statuses
    <3> QED
      BY <1>1, <1>2, <3>1, AnswerStep
  <2>5. CASE ~(r.offset >= len \/ r.count = 0) /\ ~IsDir(disk, Target(disk, p))
    <3> DEFINE j == [At(t, "read_exact") EXCEPT !.ino = Inode(disk, p), !.len = len]
    <3>1. task' = [task EXCEPT ![t] = j]
      BY <2>1, <2>5
    <3>2. Inode(disk, p) \in 1..Len(size) /\ Inode(disk, p) \in Nat
      BY <1>2, <1>4, <2>5, OpenInode
    <3> DEFINE i == [k EXCEPT !.pc = "read_exact"]
    <3>8. /\ i \in Task /\ i.pc = "read_exact" /\ i.req = k.req /\ i.stat = k.stat
          /\ i.changed = k.changed /\ i.lost = k.lost /\ i.disturbed = k.disturbed
      BY <1>2 DEF Task, Steps
    <3> HIDE DEF i
    <3>9. j = [i EXCEPT !.ino = Inode(disk, p), !.len = len]
      BY DEF i, At
    <3> HIDE DEF j
    <3>3. /\ j \in Task /\ j.pc = "read_exact" /\ j.req = k.req /\ j.stat = k.stat
          /\ j.ino = Inode(disk, p)
          /\ j.changed = k.changed /\ j.lost = k.lost /\ j.disturbed = k.disturbed
      BY <2>2, <3>2, <3>8, <3>9 DEF Task
    <3>4. Shape(j, Len(size))
      BY <1>1, <1>2, <3>2, <3>3 DEF Good, Shape, Creating
    <3>5. Kept(j, disk) /\ Spares(j, disk)
      BY <1>2, <3>3 DEF Good, Kept, Spares
    <3>6. Good(j, disk, Len(size))
      BY <3>4, <3>5 DEF Good
    <3>7. calls' \in 0..MaxCalls
      BY <1>1 DEF HostInv
    <3> QED
      BY <1>1, <3>1, <3>6, <3>7, TaskStep
  <2> QED
    BY <2>3, <2>4, <2>5
<1> QED
    BY <1>3, <1>4

\* The bytes of a READ are read from the file that was opened.
LEMMA ReadExactStep ==
    ASSUME HostInv, NEW t \in Tasks, ReadExact(t)
    PROVE  HostInv'
<1> DEFINE r == task[t].req
           end == r.offset + Min2(r.count, task[t].len - r.offset)
           eof == end >= task[t].len
           j == [Done(t) EXCEPT !.eof = eof, !.reached = eof]
<1>1. task[t].pc = "read_exact" /\ disk' = disk /\ size' = size /\ calls' = calls
    BY DEF ReadExact, Running
<1>2. Good(task[t], disk, Len(size)) /\ Len(size) \in Nat /\ ~task[t].changed
    BY <1>1, AtWork DEF Good, Shape
<1>3. CASE size[task[t].ino] < end
  <2>1. Answer(t, "IO") /\ "IO" \in Statuses
    BY <1>3 DEF ReadExact, Statuses
  <2> QED
    BY <1>1, <1>2, <2>1, AnswerStep
<1>4. CASE ~(size[task[t].ino] < end)
  <2>1. task' = [task EXCEPT ![t] = j]
    BY <1>4 DEF ReadExact
  <2>2. eof \in BOOLEAN
    OBVIOUS
  <2> HIDE DEF eof
  <2>3. Good(j, disk, Len(size))
    BY <1>2, <2>2, ReadAnswers DEF Done
  <2>4. calls' \in 0..MaxCalls
    BY <1>1 DEF HostInv
  <2> HIDE DEF j
  <2> QED
    BY <1>1, <2>1, <2>3, <2>4, TaskStep
<1> QED
    BY <1>3, <1>4

\* A file is opened for set_len or for write_all.
Opened(k, pc, i) == [[k EXCEPT !.pc = pc] EXCEPT !.ino = i]

\* Nothing else changes in the task.
LEMMA OpenedFields ==
    ASSUME NEW k \in Task, NEW pc \in Steps, NEW i \in Nat
    PROVE  LET j == Opened(k, pc, i) IN
           /\ j \in Task /\ j.pc = pc /\ j.req = k.req /\ j.stat = k.stat /\ j.ino = i
           /\ j.changed = k.changed /\ j.lost = k.lost /\ j.disturbed = k.disturbed
BY DEF Opened, Task

\* The task that opens it leaves the host alone, and will find it again.
LEMMA OpenedStep ==
    ASSUME HostInv, NEW t \in Tasks, OpenStat(disk, Path(t)) = "OK",
           NEW pc \in {"resize", "write_all"}, task[t].pc # "idle",
           task' = [task EXCEPT ![t] = Opened(task[t], pc, Inode(disk, Path(t)))],
           pc = "resize" => task[t].req.size # Keep /\ (task[t].changed => Creating(task[t])),
           pc = "write_all" => task[t].req.op = "WRITE" /\ ~task[t].changed,
           disk' = disk, size' = size, calls' = calls
    PROVE  HostInv'
<1> DEFINE p == Path(t)
           k == task[t]
           i == Inode(disk, p)
           j == Opened(k, pc, i)
<1>1. /\ k \in Task /\ Good(k, disk, Len(size)) /\ Len(size) \in Nat /\ Tree(disk, Len(size))
      /\ p \in Paths \ {<<>>} /\ p = k.req.path
    BY AtWork DEF Path
<1>2. i \in 1..Len(size)
    BY <1>1, OpenInode DEF OpenStat
<1> HIDE DEF i
<1>3. /\ j \in Task /\ j.pc = pc /\ j.req = k.req /\ j.stat = k.stat /\ j.ino = i
      /\ j.changed = k.changed /\ j.lost = k.lost /\ j.disturbed = k.disturbed
  <2>1. i \in Nat /\ pc \in Steps
    BY <1>1, <1>2 DEF Steps
  <2> QED
    BY <1>1, <2>1, OpenedFields
<1>4. task' = [task EXCEPT ![t] = j]
    BY DEF i
<1> HIDE DEF j
<1>5. Shape(j, Len(size))
    BY <1>1, <1>2, <1>3 DEF Good, Shape, Creating
<1>6. Kept(j, disk)
    BY <1>1, <1>3 DEF Kept
<1>7. Spares(j, disk)
    BY <1>1, <1>3 DEF Good, Spares
<1>8. Good(j, disk, Len(size)) /\ calls' \in 0..MaxCalls
    BY <1>5, <1>6, <1>7 DEF Good, HostInv
<1> QED
    BY <1>4, <1>8, TaskStep

\* SETATTR fails before it changes a length, or finds the object afterwards.
LEMMA SetAttrStep ==
    ASSUME HostInv, NEW t \in Tasks, SetAttr(t)
    PROVE  HostInv'
<1> DEFINE p == Path(t)
           k == task[t]
           s == k.req.size
<1>1. k.pc = "setattr" /\ disk' = disk /\ calls' = calls
    BY DEF SetAttr, Running
<1>2. /\ k \in Task /\ Good(k, disk, Len(size)) /\ Len(size) \in Nat /\ Tree(disk, Len(size))
      /\ p \in Paths \ {<<>>} /\ p = k.req.path /\ k.req \in Request
    BY <1>1, AtWork DEF Path
<1>3. (k.changed /\ ~k.disturbed) => Creating(k) /\ OpenStat(disk, p) = "OK"
    BY <1>1, <1>2 DEF Good, Shape, Kept
<1>4. OpenStat(disk, p) = "OK" => LstatStat(disk, p) = "OK"
    BY <1>2, StatLstat DEF OpenStat
<1>5. CASE s = Keep
  <2> DEFINE j == [k EXCEPT !.pc = "getattr"]
  <2>1. Goto(t, "getattr") /\ size' = size
    BY <1>5 DEF SetAttr
  <2>2. /\ j \in Task /\ j.pc = "getattr" /\ j.req = k.req /\ j.stat = k.stat /\ j.ino = k.ino
        /\ j.changed = k.changed /\ j.lost = k.lost /\ j.disturbed = k.disturbed
    BY <1>2 DEF Task, Steps
  <2> HIDE DEF j
  <2>3. Shape(j, Len(size))
    BY <1>1, <1>2, <2>2 DEF Good, Shape, Creating
  <2>4. Kept(j, disk)
    BY <1>2, <1>3, <1>4, <2>2 DEF Kept
  <2>5. Spares(j, disk)
    BY <1>2, <2>2 DEF Good, Spares
  <2>6. Good(j, disk, Len(size))
    BY <2>3, <2>4, <2>5 DEF Good
  <2> QED
    BY <1>1, <2>1, <2>6, GotoStep DEF j
<1>6. CASE s # Keep /\ OpenStat(disk, p) # "OK"
  <2>1. Answer(t, "IO") /\ size' = size /\ "IO" \in Statuses
    BY <1>6 DEF SetAttr, Statuses
  <2> QED
    BY <1>1, <1>3, <1>6, <2>1, AnswerStep
<1>7. CASE s # Keep /\ OpenStat(disk, p) = "OK"
  <2>1. task' = [task EXCEPT ![t] = Opened(k, "resize", Inode(disk, p))] /\ size' = size
    BY <1>7 DEF SetAttr, At, Opened
  <2>2. k.changed => Creating(k)
    BY <1>1, <1>2 DEF Good, Shape
  <2>3. "resize" \in {"resize", "write_all"} /\ k.pc # "idle"
    BY <1>1
  <2> QED
    BY <1>1, <1>7, <2>1, <2>2, <2>3, OpenedStep
<1> QED
    BY <1>5, <1>6, <1>7

\* WRITE asks for the metadata and changes nothing yet.
LEMMA WriteStatStep ==
    ASSUME HostInv, NEW t \in Tasks, WriteStat(t)
    PROVE  HostInv'
<1> DEFINE p == Path(t)
           k == task[t]
<1>1. k.pc = "metadata" /\ k.req.op = "WRITE" /\ disk' = disk /\ size' = size /\ calls' = calls
    BY DEF WriteStat, Running, Op
<1>2. Good(k, disk, Len(size)) /\ Len(size) \in Nat /\ ~k.changed
    BY <1>1, AtWork DEF Good, Shape
<1>3. \/ \E s \in Statuses : Answer(t, s)
      \/ Goto(t, "write")
    BY StatTypes DEF WriteStat, Statuses
<1>4. Good([k EXCEPT !.pc = "write"], disk, Len(size))
    BY <1>1, <1>2, Moves
<1> QED
    BY <1>1, <1>2, <1>3, <1>4, AnswerStep, GotoStep

\* WRITE opens the file.
LEMMA WriteOpenStep ==
    ASSUME HostInv, NEW t \in Tasks, WriteOpen(t)
    PROVE  HostInv'
<1> DEFINE p == Path(t)
           k == task[t]
<1>1. k.pc = "write" /\ disk' = disk /\ size' = size /\ calls' = calls
    BY DEF WriteOpen, Running
<1>2. k.req.op = "WRITE" /\ ~k.changed
    BY <1>1, AtWork DEF Good, Shape
<1>3. CASE OpenStat(disk, p) # "OK"
  <2>1. Answer(t, OpenStat(disk, p))
    BY <1>3 DEF WriteOpen
  <2> QED
    BY <1>1, <1>2, <2>1, StatTypes, AnswerStep
<1>4. CASE OpenStat(disk, p) = "OK"
  <2>1. task' = [task EXCEPT ![t] = Opened(k, "write_all", Inode(disk, p))]
    BY <1>4 DEF WriteOpen, At, Opened
  <2> QED
    BY <1>1, <1>2, <1>4, <2>1, OpenedStep
<1> QED
    BY <1>3, <1>4

\* The new length is within the bound, however much of the data was written.
LEMMA WrittenType ==
    ASSUME NEW r \in Requests, r.op = "WRITE", NEW len \in 0..MaxLen, NEW n \in 0..r.count
    PROVE  Written(len, r, n) \in 0..MaxLen
<1>1. r \in Request /\ r.offset + r.count <= MaxLen /\ MaxLen \in Nat
    BY MirrorAssumption
<1>2. r.offset \in 0..MaxLen /\ r.count \in 0..MaxLen
    BY <1>1 DEF Request
<1> DEFINE o == r.offset
           c == r.count
<1>3. o \in Nat /\ c \in Nat /\ o + c <= MaxLen /\ n \in 0..c
    BY <1>1, <1>2
<1>4. Written(len, r, n) = IF n = 0 THEN len ELSE Max2(len, o + n)
    BY DEF Written
<1> HIDE DEF o, c
<1> QED
    BY <1>1, <1>3, <1>4 DEF Max2

\* WRITE changes one length and finds the object afterwards, or fails before
\* it has written anything, or is excused.
LEMMA WriteAllStep ==
    ASSUME HostInv, NEW t \in Tasks, WriteAll(t)
    PROVE  HostInv'
<1> DEFINE p == Path(t)
           k == task[t]
           r == k.req
           n == Len(size)
<1>1. k.pc = "write_all" /\ disk' = disk /\ calls' = calls
    BY DEF WriteAll, Running
<1>2. /\ k \in Task /\ Good(k, disk, n) /\ n \in Nat /\ Tree(disk, n)
      /\ p \in Paths \ {<<>>} /\ p = r.path /\ r \in Request /\ r \in Requests
      /\ ~k.changed /\ r.op = "WRITE" /\ k.ino \in 1..n /\ k.stat = "none"
    BY <1>1, AtWork DEF Path, Good, Shape
<1>3. k.lost => k.req.op = "UNCHECKED" \/ k.disturbed
    BY <1>2 DEF Good, Spares
<1>4. size[k.ino] \in 0..MaxLen
    BY <1>2, SizeRange
<1>5. ASSUME NEW m \in 0..r.count, size' = [size EXCEPT ![k.ino] = Written(@, r, m)]
      PROVE  size' \in Seq(0..MaxLen) /\ Len(size') = n
  <2> DEFINE v == Written(size[k.ino], r, m)
  <2>1. v \in 0..MaxLen
    BY <1>2, <1>4, WrittenType
  <2>2. size' = [size EXCEPT ![k.ino] = v]
    BY <1>5
  <2> HIDE DEF v
  <2> QED
    BY <1>2, <2>1, <2>2, SizeStep
<1>6. r.count \in Nat
    BY <1>2, MirrorAssumption DEF Request
<1>7. CASE size' = [size EXCEPT ![k.ino] = Written(@, r, r.count)] /\ Change(t, At(t, "getattr"))
  <2> DEFINE i == [k EXCEPT !.pc = "getattr"]
             j == [i EXCEPT !.changed = TRUE]
  <2>1. Change(t, i)
    BY <1>7 DEF At
  <2>2. r.count \in 0..r.count
    BY <1>6
  <2>3. size' \in Seq(0..MaxLen) /\ Len(size') = n
    BY <1>5, <1>7, <2>2
  <2>4. /\ j \in Task /\ j.pc = "getattr" /\ j.req = k.req /\ j.stat = k.stat /\ j.ino = k.ino
        /\ j.changed = TRUE /\ j.lost = k.lost /\ j.disturbed = k.disturbed
    BY <1>2 DEF Task, Steps
  <2>5. ~k.disturbed => LstatStat(disk, p) = "OK"
    BY <1>1, <1>2, StatLstat DEF Good, Kept, OpenStat
  <2> HIDE DEF i, j
  <2>6. /\ j.req \in Requests /\ j.stat = "none" /\ j.ino \in 0..n
        /\ j.lost => j.req.op = "UNCHECKED" \/ j.disturbed
        /\ ~j.disturbed => LstatStat(disk, j.req.path) = "OK"
    BY <1>2, <1>3, <2>4, <2>5
  <2>7. Good(j, disk, n)
    BY <1>2, <2>4, <2>6, Finds
  <2> QED
    BY <1>1, <1>2, <2>1, <2>3, <2>7, ChangeStep DEF j
<1>8. CASE Answer(t, "IO") /\ UNCHANGED size
    BY <1>1, <1>2, <1>8, AnswerStep DEF Statuses
<1>9. ASSUME NEW m \in 1..(r.count - 1), size' = [size EXCEPT ![k.ino] = Written(@, r, m)],
             Change(t, [At(t, "idle") EXCEPT !.stat = "IO"])
      PROVE  HostInv'
  <2> DEFINE i == [[k EXCEPT !.pc = "idle"] EXCEPT !.stat = "IO"]
             j == [i EXCEPT !.changed = TRUE]
  <2>1. Change(t, i)
    BY <1>9 DEF At
  <2>2. m \in 0..r.count /\ r.count > 1
    BY <1>6, <1>9
  <2>3. size' \in Seq(0..MaxLen) /\ Len(size') = n
    BY <1>5, <1>9, <2>2
  <2>4. /\ j \in Task /\ j.pc = "idle" /\ j.req = k.req /\ j.stat = "IO" /\ j.ino = k.ino
        /\ j.changed = TRUE /\ j.lost = k.lost /\ j.disturbed = k.disturbed
    BY <1>2 DEF Task, Steps, Statuses
  <2> HIDE DEF i, j
  <2>5. Shape(j, n)
    BY <1>2, <2>4 DEF Shape
  <2>6. Kept(j, disk)
    BY <1>2, <2>2, <2>4 DEF Kept, Excused
  <2>7. Spares(j, disk)
    BY <1>3, <2>4 DEF Spares
  <2>8. Good(j, disk, n)
    BY <2>5, <2>6, <2>7 DEF Good
  <2> QED
    BY <1>1, <1>2, <2>1, <2>3, <2>8, ChangeStep DEF j
<1> QED
    BY <1>7, <1>8, <1>9 DEF WriteAll

\* A GUARDED create goes on only if the path leads to nothing.
LEMMA GuardedLookupStep ==
    ASSUME HostInv, NEW t \in Tasks, GuardedLookup(t)
    PROVE  HostInv'
<1> DEFINE p == Path(t)
           k == task[t]
<1>1. k.pc = "guard" /\ disk' = disk /\ size' = size /\ calls' = calls
    BY DEF GuardedLookup, Running
<1>2. /\ Good(k, disk, Len(size)) /\ Len(size) \in Nat /\ ~k.changed /\ k.req.op = "GUARDED"
      /\ p = k.req.path
    BY <1>1, AtWork DEF Good, Shape, Path
<1>3. CASE SymbolsStat(p) = "OK"
  <2>1. Answer(t, "EXIST") /\ "EXIST" \in Statuses
    BY <1>3 DEF GuardedLookup, Statuses
  <2> QED
    BY <1>1, <1>2, <2>1, AnswerStep
<1>4. CASE SymbolsStat(p) # "OK"
  <2>1. Goto(t, "create")
    BY <1>4 DEF GuardedLookup
  <2>2. ~(StatStat(disk, Parent(p)) = "OK" /\ StatStat(disk, p) = "OK")
    BY <1>4 DEF SymbolsStat
  <2>3. Good([k EXCEPT !.pc = "create"], disk, Len(size))
    BY <1>1, <1>2, <2>2, Moves
  <2> QED
    BY <1>1, <2>1, <2>3, GotoStep
<1> QED
    BY <1>3, <1>4

\* File::create truncates only what the GUARDED lookup could not have missed,
\* and what it makes can be found.
LEMMA CreateFileStep ==
    ASSUME HostInv, NEW t \in Tasks, CreateFile(t)
    PROVE  HostInv'
<1> DEFINE p == Path(t)
           k == task[t]
           q == Target(disk, p)
           n == Len(size)
           pc == AfterCreate(t)
           i == [k EXCEPT !.pc = pc]
<1>1. k.pc = "create" /\ calls' = calls
    BY DEF CreateFile, Running
<1>2. /\ k \in Task /\ Good(k, disk, n) /\ n \in Nat /\ Tree(disk, n)
      /\ p \in Paths \ {<<>>} /\ p = k.req.path /\ k.req \in Requests /\ k.stat = "none"
      /\ ~k.changed /\ Creating(k)
    BY <1>1, AtWork DEF Path, Good, Shape
<1>3. /\ k.lost => k.req.op = "UNCHECKED" \/ k.disturbed
      /\ (k.req.op = "GUARDED" /\ ~k.disturbed) =>
            ~(StatStat(disk, Parent(p)) = "OK" /\ StatStat(disk, p) = "OK")
    BY <1>1, <1>2 DEF Good, Spares
<1>4. /\ pc \in {"register", "set_len"}
      /\ pc = "set_len" => k.req.size # Keep
    BY DEF AfterCreate
<1> HIDE DEF n, pc
<1>5. /\ i \in Task /\ i.pc = pc /\ i.req = k.req /\ i.stat = k.stat /\ i.ino = k.ino
      /\ i.changed = k.changed /\ i.lost = k.lost /\ i.disturbed = k.disturbed
    BY <1>2, <1>4 DEF Task, Steps
<1> HIDE DEF i
<1>6. i = At(t, AfterCreate(t))
    BY DEF i, At, pc
<1>7. CASE TargetStat(disk, p) # "OK" \/ IsDir(disk, q)
  <2>1. disk' = disk /\ size' = size
    BY <1>7 DEF CreateFile
  <2>2. \E s \in Statuses : Answer(t, s)
    BY <1>7, StatTypes DEF CreateFile, Statuses
  <2> QED
    BY <1>1, <1>2, <2>1, <2>2, AnswerStep
<1>8. CASE TargetStat(disk, p) = "OK" /\ ~IsDir(disk, q) /\ q \in DOMAIN disk
  <2> DEFINE ino == disk[q].ino
             lost == size[ino] > 0
             u == [i EXCEPT !.ino = ino, !.lost = lost]
             j == [u EXCEPT !.changed = TRUE]
  <2>1. size' = [size EXCEPT ![ino] = 0] /\ Change(t, u) /\ disk' = disk
    BY <1>6, <1>8 DEF CreateFile
  <2>2. StatStat(disk, p) = "OK" /\ OpenStat(disk, p) = "OK"
    BY <1>8 DEF StatStat, OpenStat
  <2>3. StatStat(disk, Parent(p)) = "OK" /\ LstatStat(disk, p) = "OK"
    BY <1>2, <1>8, <2>2, ParentStat, StatLstat DEF TargetStat
  <2>4. ino \in 1..n /\ ino \in Nat
    BY <1>2, <1>8, <2>2, OpenInode DEF Inode
  <2>5. size' \in Seq(0..MaxLen) /\ Len(size') = n
    <3>1. 0 \in 0..MaxLen
      BY MirrorAssumption
    <3>2. ino \in 1..Len(size) /\ size' = [size EXCEPT ![ino] = 0]
      BY <2>1, <2>4 DEF n
    <3> HIDE DEF ino
    <3> QED
      BY <3>1, <3>2, SizeStep DEF n
  <2>6. k.req.op = "UNCHECKED" \/ k.disturbed
    BY <1>2, <1>3, <2>2, <2>3 DEF Creating
  <2>7. lost \in BOOLEAN
    OBVIOUS
  <2> HIDE DEF ino, lost
  <2>8. /\ u \in Task /\ u.pc = pc /\ u.req = k.req /\ u.stat = k.stat /\ u.ino = ino
        /\ u.disturbed = k.disturbed
    BY <1>5, <2>4, <2>7 DEF Task
  <2> HIDE DEF u
  <2>9. /\ j \in Task /\ j.pc = pc /\ j.req = k.req /\ j.stat = k.stat /\ j.ino = ino
        /\ j.changed = TRUE /\ j.disturbed = k.disturbed
    BY <2>8 DEF Task
  <2> HIDE DEF j
  <2>10. Good(j, disk, n)
    <3>1. Creating(j) /\ j.ino \in 0..n
      BY <1>2, <2>4, <2>9 DEF Creating
    <3> QED
      BY <1>2, <1>4, <2>2, <2>3, <2>4, <2>6, <2>9, <3>1, Changes
  <2> QED
    BY <1>1, <1>2, <2>1, <2>5, <2>10, ChangeStep DEF j, n
<1>9. CASE TargetStat(disk, p) = "OK" /\ ~IsDir(disk, q) /\ q \notin DOMAIN disk
  <2> DEFINE new == n + 1
             g == Extend(disk, q, Regular(new))
             u == [i EXCEPT !.ino = new]
             j == [u EXCEPT !.changed = TRUE]
  <2>1. size' = Append(size, 0) /\ Change(t, u) /\ disk' = g
    BY <1>6, <1>9 DEF CreateFile, n
  <2>2. Regular(new).type = "file" /\ Regular(new) \in Nodes(new) /\ new \in Nat
    BY <1>2 DEF Regular, Nodes
  <2>3. q \in Paths \ {<<>>} /\ IsDir(disk, Parent(q))
    BY <1>2, <1>9, TargetType
  <2>4. Tree(g, new)
    BY <1>2, <1>9, <2>2, <2>3, ExtendTree
  <2>5. DirStat(g, p) = "OK" /\ OpenStat(g, p) = "OK"
    BY <1>2, <1>9, <2>2, CreateResolves
  <2> HIDE DEF g
  <2>6. StatStat(g, p) = "OK"
    BY <2>5 DEF OpenStat
  <2>7. LstatStat(g, p) = "OK" /\ StatStat(g, Parent(p)) = "OK"
    BY <1>2, <2>2, <2>4, <2>5, <2>6, StatLstat, ParentStat
  <2>8. size' \in Seq(0..MaxLen) /\ Len(size') = new
    BY <2>1, MirrorAssumption DEF HostInv, n
  <2>9. new \in 0..new /\ new \in 1..new /\ n <= new
    BY <1>2
  <2> HIDE DEF new
  <2>10. /\ u \in Task /\ u.pc = pc /\ u.req = k.req /\ u.stat = k.stat /\ u.ino = new
         /\ u.lost = k.lost /\ u.disturbed = k.disturbed
    BY <1>5, <2>2 DEF Task
  <2> HIDE DEF u
  <2>11. /\ j \in Task /\ j.pc = pc /\ j.req = k.req /\ j.stat = k.stat /\ j.ino = new
         /\ j.changed = TRUE /\ j.lost = k.lost /\ j.disturbed = k.disturbed
    BY <2>10 DEF Task
  <2> HIDE DEF j
  <2>12. Good(j, g, new)
    <3>1. Creating(j)
      BY <1>2, <2>11 DEF Creating
    <3> QED
      BY <1>2, <1>3, <1>4, <2>2, <2>5, <2>6, <2>7, <2>9, <2>11, <3>1, Changes
  <2> QED
    BY <1>1, <2>1, <2>4, <2>8, <2>9, <2>12, ChangeStep DEF j, n
<1> QED
    BY <1>7, <1>8, <1>9

\* set_len works on the file that was created or opened; its failure changes
\* nothing, or is excused.
LEMMA SetLenStep ==
    ASSUME HostInv, NEW t \in Tasks, SetLen(t)
    PROVE  HostInv'
<1> DEFINE p == Path(t)
           k == task[t]
           n == Len(size)
           s == k.req.size
<1>1. k.pc \in {"set_len", "resize"} /\ disk' = disk /\ calls' = calls
    BY DEF SetLen
<1>2. /\ k \in Task /\ Good(k, disk, n) /\ n \in Nat /\ Tree(disk, n)
      /\ p \in Paths \ {<<>>} /\ p = k.req.path /\ k.req \in Requests /\ k.stat = "none"
      /\ k.changed => Creating(k)
      /\ k.pc = "set_len" => k.changed
      /\ k.req \in Request /\ s # Keep /\ k.ino \in 1..n
    BY <1>1, AtWork DEF Path, Good, Shape
<1>3. k.lost => k.req.op = "UNCHECKED" \/ k.disturbed
    BY <1>2 DEF Good, Spares
<1>4. CASE s = Huge
  <2>1. Answer(t, "IO") /\ size' = size /\ "IO" \in Statuses
    BY <1>4 DEF SetLen, Statuses
  <2>2. k.changed => Excused(k, "IO")
    BY <1>2, <1>4 DEF Excused
  <2> QED
    BY <1>1, <2>1, <2>2, AnswerStep
<1>5. ASSUME s # Huge, size' = [size EXCEPT ![k.ino] = s]
      PROVE  size' \in Seq(0..MaxLen) /\ Len(size') = n
  <2>1. s \in 0..MaxLen
    BY <1>2, <1>5 DEF Request, Sizes
  <2> QED
    BY <1>2, <1>5, <2>1, SizeStep
<1>6. ~k.disturbed => OpenStat(disk, p) = "OK" /\ LstatStat(disk, p) = "OK"
                      /\ StatStat(disk, p) = "OK"
  <2>1. ~k.disturbed => OpenStat(disk, p) = "OK"
    BY <1>1, <1>2 DEF Good, Kept
  <2> QED
    BY <1>2, <2>1, StatLstat DEF OpenStat
<1>7. CASE s # Huge /\ k.pc = "set_len"
  <2> DEFINE i == [k EXCEPT !.pc = "register"]
             j == [i EXCEPT !.changed = TRUE]
  <2>1. size' = [size EXCEPT ![k.ino] = s] /\ Change(t, i)
    BY <1>7 DEF SetLen, At
  <2>2. size' \in Seq(0..MaxLen) /\ Len(size') = n
    BY <1>5, <1>7, <2>1
  <2>3. /\ j \in Task /\ j.pc = "register" /\ j.req = k.req /\ j.stat = k.stat /\ j.ino = k.ino
        /\ j.changed = TRUE /\ j.lost = k.lost /\ j.disturbed = k.disturbed
    BY <1>2 DEF Task, Steps
  <2> HIDE DEF i, j
  <2>4. Shape(j, n)
    BY <1>2, <1>7, <2>3 DEF Shape, Creating
  <2>5. ~k.disturbed => StatStat(disk, Parent(p)) = "OK"
    BY <1>2, <1>7 DEF Good, Kept
  <2>6. Kept(j, disk)
    BY <1>2, <1>6, <2>3, <2>5 DEF Kept
  <2>7. Spares(j, disk)
    BY <1>3, <2>3 DEF Spares
  <2>8. Good(j, disk, n)
    BY <2>4, <2>6, <2>7 DEF Good
  <2> QED
    BY <1>1, <1>2, <2>1, <2>2, <2>8, ChangeStep DEF j
<1>8. CASE s # Huge /\ k.pc = "resize"
  <2> DEFINE i == [k EXCEPT !.pc = "getattr"]
             j == [i EXCEPT !.changed = TRUE]
  <2>1. size' = [size EXCEPT ![k.ino] = s] /\ Change(t, i)
    BY <1>8 DEF SetLen, At
  <2>2. size' \in Seq(0..MaxLen) /\ Len(size') = n
    BY <1>5, <1>8, <2>1
  <2>3. /\ j \in Task /\ j.pc = "getattr" /\ j.req = k.req /\ j.stat = k.stat /\ j.ino = k.ino
        /\ j.changed = TRUE /\ j.lost = k.lost /\ j.disturbed = k.disturbed
    BY <1>2 DEF Task, Steps
  <2> HIDE DEF i, j
  <2>4. /\ j.req \in Requests /\ j.stat = "none" /\ j.ino \in 0..n
        /\ j.lost => j.req.op = "UNCHECKED" \/ j.disturbed
        /\ ~j.disturbed => LstatStat(disk, j.req.path) = "OK"
    BY <1>2, <1>3, <1>6, <2>3
  <2>5. Good(j, disk, n)
    BY <1>2, <2>3, <2>4, Finds
  <2> QED
    BY <1>1, <1>2, <2>1, <2>2, <2>5, ChangeStep DEF j
<1> QED
    BY <1>1, <1>4, <1>7, <1>8

\* create_new, create_dir and symlink: what is made is found, unless it is a
\* link, where its place is found.
LEMMA MakeStep ==
    ASSUME HostInv, NEW t \in Tasks, NEW m \in Nat, Len(size) <= m, NEW node \in Nodes(m),
           task[t].pc \in {"create_new", "create_dir", "symlink"},
           MakeStat(disk, Path(t)) = "OK",
           node.type # "link" \/ task[t].pc = "symlink",
           disk' = Extend(disk, Place(disk, Path(t)), node), Change(t, At(t, "register")),
           size' \in Seq(0..MaxLen), Len(size') = m, calls' = calls
    PROVE  HostInv'
<1> DEFINE p == Path(t)
           k == task[t]
           n == Len(size)
           g == Extend(disk, Place(disk, p), node)
           i == [k EXCEPT !.pc = "register"]
           j == [i EXCEPT !.changed = TRUE]
<1>1. /\ k \in Task /\ Good(k, disk, n) /\ n \in Nat /\ Tree(disk, n)
      /\ p \in Paths \ {<<>>} /\ p = k.req.path /\ k.req \in Requests /\ k.stat = "none"
      /\ k.req.op \in {"EXCLUSIVE", "MKDIR", "SYMLINK"}
      /\ k.req.op = "SYMLINK" <=> k.pc = "symlink"
    BY AtWork DEF Path, Good, Shape
<1>2. k.ino \in 0..m /\ (k.lost => k.req.op = "UNCHECKED" \/ k.disturbed)
    BY <1>1 DEF Good, Shape, Spares
<1>3. DirStat(disk, p) = "OK" /\ Place(disk, p) \notin DOMAIN disk
    BY DEF MakeStat
<1>4. Place(disk, p) \in Paths \ {<<>>} /\ IsDir(disk, Parent(Place(disk, p)))
    BY <1>1, <1>3, PlaceType
<1>5. Tree(g, m)
    BY <1>1, <1>3, <1>4, ExtendTree
<1>6. /\ DirStat(g, p) = "OK" /\ LstatStat(g, p) = "OK"
      /\ node.type # "link" => StatStat(g, p) = "OK"
    BY <1>1, MakeResolves
<1> HIDE DEF g
<1>7. StatStat(g, Parent(p)) = "OK"
    BY <1>1, <1>5, <1>6, ParentStat
<1>8. /\ j \in Task /\ j.pc = "register" /\ j.req = k.req /\ j.stat = k.stat /\ j.ino = k.ino
      /\ j.changed = TRUE /\ j.lost = k.lost /\ j.disturbed = k.disturbed
    BY <1>1 DEF Task, Steps
<1> HIDE DEF j
<1>9. ~Creating(j)
    BY <1>1, <1>8 DEF Creating
<1>10. Good(j, g, m)
    BY <1>1, <1>2, <1>6, <1>7, <1>8, <1>9, Changes
<1>11. Change(t, i) /\ disk' = g
    BY DEF At, g
<1> HIDE DEF i
<1> QED
    BY <1>5, <1>10, <1>11, ChangeStep DEF j

\* create_new makes a file or leaves the host alone.
LEMMA CreateNewStep ==
    ASSUME HostInv, NEW t \in Tasks, CreateNew(t)
    PROVE  HostInv'
<1> DEFINE n == Len(size)
<1>1. task[t].pc = "create_new" /\ calls' = calls /\ n \in Nat
    BY DEF CreateNew, Running, HostInv
<1>2. CASE MakeStat(disk, Path(t)) # "OK"
  <2>1. Answer(t, MakeStat(disk, Path(t))) /\ disk' = disk /\ size' = size
    BY <1>2 DEF CreateNew, Make
  <2>2. ~task[t].changed
    BY <1>1, AtWork DEF Good, Shape
  <2> QED
    BY <1>1, <2>1, <2>2, StatTypes, AnswerStep
<1>3. CASE MakeStat(disk, Path(t)) = "OK"
  <2> DEFINE node == Regular(n + 1)
  <2>1. /\ disk' = Extend(disk, Place(disk, Path(t)), node) /\ Change(t, At(t, "register"))
        /\ size' = Append(size, 0)
    BY <1>3 DEF CreateNew, Make
  <2>2. node \in Nodes(n + 1) /\ node.type # "link" /\ n + 1 \in Nat /\ n <= n + 1
    <3>1. n + 1 \in Nat /\ n <= n + 1 /\ n + 1 \in 1..(n + 1)
      BY <1>1
    <3> HIDE DEF n
    <3> QED
      BY <3>1 DEF Nodes, Regular
  <2>3. size' \in Seq(0..MaxLen) /\ Len(size') = n + 1
    BY <2>1, MirrorAssumption DEF HostInv
  <2> HIDE DEF node
  <2> QED
    BY <1>1, <1>3, <2>1, <2>2, <2>3, MakeStep
<1> QED
    BY <1>2, <1>3

\* create_dir makes a directory or leaves the host alone.
LEMMA CreateDirStep ==
    ASSUME HostInv, NEW t \in Tasks, CreateDir(t)
    PROVE  HostInv'
<1>1. /\ task[t].pc = "create_dir" /\ calls' = calls /\ size' = size /\ Len(size) \in Nat
      /\ size' \in Seq(0..MaxLen) /\ Len(size) <= Len(size)
    BY DEF CreateDir, Running, HostInv
<1>2. CASE MakeStat(disk, Path(t)) # "OK"
  <2>1. Answer(t, MakeStat(disk, Path(t))) /\ disk' = disk
    BY <1>2 DEF CreateDir, Make
  <2>2. ~task[t].changed
    BY <1>1, AtWork DEF Good, Shape
  <2> QED
    BY <1>1, <2>1, <2>2, StatTypes, AnswerStep
<1>3. CASE MakeStat(disk, Path(t)) = "OK"
  <2>1. /\ disk' = Extend(disk, Place(disk, Path(t)), Directory) /\ Change(t, At(t, "register"))
    BY <1>3 DEF CreateDir, Make
  <2>2. Directory \in Nodes(Len(size)) /\ Directory.type # "link"
    BY DEF Nodes, Directory
  <2> QED
    BY <1>1, <1>3, <2>1, <2>2, MakeStep
<1> QED
    BY <1>2, <1>3

\* symlink makes a link or leaves the host alone.
LEMMA CreateLinkStep ==
    ASSUME HostInv, NEW t \in Tasks, CreateLink(t)
    PROVE  HostInv'
<1>1. /\ task[t].pc = "symlink" /\ calls' = calls /\ size' = size /\ Len(size) \in Nat
      /\ size' \in Seq(0..MaxLen) /\ Len(size) <= Len(size)
    BY DEF CreateLink, Running, HostInv
<1>2. CASE MakeStat(disk, Path(t)) # "OK"
  <2>1. Answer(t, MakeStat(disk, Path(t))) /\ disk' = disk
    BY <1>2 DEF CreateLink, Make
  <2>2. ~task[t].changed
    BY <1>1, AtWork DEF Good, Shape
  <2> QED
    BY <1>1, <2>1, <2>2, StatTypes, AnswerStep
<1>3. CASE MakeStat(disk, Path(t)) = "OK"
  <2> DEFINE node == Symlink(task[t].req.link)
  <2>1. /\ disk' = Extend(disk, Place(disk, Path(t)), node) /\ Change(t, At(t, "register"))
    BY <1>3 DEF CreateLink, Make
  <2>2. task[t].req.link \in Names
    BY <1>1, AtWork DEF Request
  <2>3. node \in Nodes(Len(size))
    BY <2>2 DEF Nodes
  <2> HIDE DEF node
  <2> QED
    BY <1>1, <1>3, <2>1, <2>3, MakeStep
<1> QED
    BY <1>2, <1>3

\* The new object is found when it gets its handle.
LEMMA RegisterStep ==
    ASSUME HostInv, NEW t \in Tasks, Register(t)
    PROVE  HostInv'
<1> DEFINE p == Path(t)
           k == task[t]
           n == Len(size)
<1>1. k.pc = "register" /\ disk' = disk /\ size' = size /\ calls' = calls
    BY DEF Register, Running
<1>2. /\ k \in Task /\ Good(k, disk, n) /\ n \in Nat /\ Tree(disk, n)
      /\ p \in Paths \ {<<>>} /\ p = k.req.path
      /\ Creating(k) \/ k.req.op \in {"EXCLUSIVE", "MKDIR", "SYMLINK"}
    BY <1>1, AtWork DEF Path, Good, Shape
<1>3. (k.changed /\ ~k.disturbed) =>
            /\ StatStat(disk, Parent(p)) = "OK" /\ LstatStat(disk, p) = "OK"
            /\ k.req.op # "SYMLINK" => StatStat(disk, p) = "OK"
            /\ Creating(k) => OpenStat(disk, p) = "OK"
    BY <1>1, <1>2 DEF Good, Kept
<1>4. CASE SymbolsStat(p) # "OK"
  <2>1. Answer(t, SymbolsStat(p))
    BY <1>4 DEF Register
  <2>2. SymbolsStat(p) \in Statuses
    BY DEF SymbolsStat, Statuses
  <2>3. (k.changed /\ ~k.disturbed) => Excused(k, SymbolsStat(p))
    BY <1>3, <1>4 DEF SymbolsStat, Excused
  <2> QED
    BY <1>1, <2>1, <2>2, <2>3, AnswerStep
<1>5. ASSUME NEW pc \in {"setattr", "getattr"}, pc = "setattr" => Creating(k)
      PROVE  Good([k EXCEPT !.pc = pc], disk, n)
  <2> DEFINE j == [k EXCEPT !.pc = pc]
  <2>1. /\ j \in Task /\ j.pc = pc /\ j.req = k.req /\ j.stat = k.stat /\ j.ino = k.ino
        /\ j.changed = k.changed /\ j.lost = k.lost /\ j.disturbed = k.disturbed
    BY <1>2, <1>5 DEF Task, Steps
  <2> HIDE DEF j
  <2>2. Shape(j, n)
    BY <1>1, <1>2, <1>5, <2>1 DEF Good, Shape, Creating
  <2>3. Kept(j, disk)
    BY <1>2, <1>3, <1>5, <2>1 DEF Kept, Creating
  <2>4. Spares(j, disk)
    BY <1>2, <1>5, <2>1 DEF Good, Spares
  <2>5. Good(j, disk, n)
    BY <2>2, <2>3, <2>4 DEF Good
  <2> QED
    BY <2>5 DEF j
<1>6. CASE SymbolsStat(p) = "OK" /\ Creating(k)
  <2>1. Goto(t, "setattr")
    BY <1>6 DEF Register, Op, Creating
  <2>2. Good([k EXCEPT !.pc = "setattr"], disk, n)
    BY <1>5, <1>6
  <2> QED
    BY <1>1, <2>1, <2>2, GotoStep
<1>7. CASE SymbolsStat(p) = "OK" /\ k.req.op = "EXCLUSIVE"
  <2>1. Answer(t, "OK") /\ "OK" \in Statuses
    BY <1>7 DEF Register, Op, Statuses
  <2> QED
    BY <1>1, <2>1, AnswerStep DEF Excused
<1>8. CASE SymbolsStat(p) = "OK" /\ k.req.op \in {"MKDIR", "SYMLINK"}
  <2>1. Goto(t, "getattr")
    BY <1>8 DEF Register, Op
  <2>2. Good([k EXCEPT !.pc = "getattr"], disk, n)
    BY <1>5
  <2> QED
    BY <1>1, <2>1, <2>2, GotoStep
<1> QED
    BY <1>2, <1>4, <1>6, <1>7, <1>8

\* REMOVE asks for the metadata and changes nothing yet.
LEMMA RemoveStatStep ==
    ASSUME HostInv, NEW t \in Tasks, RemoveStat(t)
    PROVE  HostInv'
<1> DEFINE k == task[t]
<1>1. k.pc = "metadata" /\ disk' = disk /\ size' = size /\ calls' = calls
    BY DEF RemoveStat, Running
<1>2. Good(k, disk, Len(size)) /\ Len(size) \in Nat /\ ~k.changed
    BY <1>1, AtWork DEF Good, Shape
<1>3. \/ \E s \in Statuses : Answer(t, s)
      \/ \E pc \in {"rmdir", "unlink"} : Goto(t, pc)
    BY StatTypes DEF RemoveStat
<1>4. \A pc \in {"rmdir", "unlink"} : Good([k EXCEPT !.pc = pc], disk, Len(size))
    BY <1>1, <1>2, Moves
<1> QED
    BY <1>1, <1>2, <1>3, <1>4, AnswerStep, GotoStep

\* A directory is removed only if it is empty.
LEMMA RemoveNodeStep ==
    ASSUME HostInv, NEW t \in Tasks, RemoveNode(t)
    PROVE  HostInv'
<1> DEFINE p == Path(t)
           k == task[t]
           n == Len(size)
           stat == UnlinkStat(disk, p, k.pc)
<1>1. k.pc \in {"rmdir", "unlink"} /\ size' = size /\ calls' = calls
    BY DEF RemoveNode
<1>2. /\ k \in Task /\ Good(k, disk, n) /\ n \in Nat /\ Tree(disk, n) /\ n <= n
      /\ p \in Paths \ {<<>>} /\ ~k.changed
    BY <1>1, AtWork DEF Path, Good, Shape
<1>3. CASE stat # "OK"
  <2>1. Answer(t, stat) /\ disk' = disk
    BY <1>3 DEF RemoveNode
  <2>2. stat \in Statuses
    BY StatTypes DEF UnlinkStat, Statuses
  <2> HIDE DEF stat
  <2> QED
    BY <1>1, <1>2, <2>1, <2>2, AnswerStep
<1>4. CASE stat = "OK"
  <2> DEFINE q == Place(disk, p)
             j == [Done(t) EXCEPT !.changed = TRUE]
             i == [k EXCEPT !.changed = TRUE]
  <2>1. disk' = Removed(disk, q) /\ Change(t, Done(t))
    BY <1>4 DEF RemoveNode
  <2>2. LstatStat(disk, p) = "OK" /\ (disk[q].type = "dir" => Children(disk, q) = {})
    BY <1>1, <1>4 DEF UnlinkStat, Type
  <2>3. DirStat(disk, p) = "OK"
    BY <2>2 DEF LstatStat
  <2>4. q \in Paths \ {<<>>}
    BY <1>2, <2>3, PlaceType
  <2>5. Tree(disk', n)
    BY <1>2, <2>1, <2>2, <2>4, RemovedTree
  <2>6. j = [k EXCEPT !.pc = "idle", !.stat = "OK", !.changed = TRUE]
    BY <1>2 DEF Done, Task
  <2>7. /\ j \in Task /\ j.pc = "idle" /\ j.req = k.req /\ j.stat = "OK" /\ j.ino = k.ino
        /\ j.changed = TRUE /\ j.lost = k.lost /\ j.disturbed = k.disturbed
    BY <1>2, <2>6 DEF Task, Steps, Statuses
  <2> HIDE DEF j
  <2>8. Shape(j, n) /\ Kept(j, disk') /\ Spares(j, disk')
    BY <1>2, <2>7 DEF Good, Shape, Kept, Spares, Excused
  <2>9. Good(j, disk', n)
    BY <2>8 DEF Good
  <2>10. size' \in Seq(0..MaxLen)
    BY <1>1 DEF HostInv
  <2> QED
    BY <1>1, <1>2, <2>1, <2>5, <2>9, <2>10, ChangeStep DEF j
<1> QED
    BY <1>3, <1>4

\* RENAME asks for the metadata and changes nothing yet.
LEMMA RenameStatStep ==
    ASSUME HostInv, NEW t \in Tasks, RenameStat(t)
    PROVE  HostInv'
<1> DEFINE k == task[t]
           p == Path(t)
<1>1. k.pc = "metadata" /\ disk' = disk /\ size' = size /\ calls' = calls
    BY DEF RenameStat, Running
<1>2. k \in Task /\ Good(k, disk, Len(size)) /\ Len(size) \in Nat /\ ~k.changed
    BY <1>1, AtWork DEF Good, Shape
<1>3. CASE p = k.req.to \/ LstatStat(disk, p) # "OK"
  <2>1. \E s \in Statuses : Answer(t, s)
    BY <1>3, StatTypes DEF RenameStat, Statuses
  <2> QED
    BY <1>1, <1>2, <2>1, AnswerStep
<1>4. CASE ~(p = k.req.to \/ LstatStat(disk, p) # "OK")
  <2> DEFINE b == Type(disk, p) = "dir"
             i == [k EXCEPT !.pc = "target"]
             j == [i EXCEPT !.isdir = b]
  <2>1. task' = [task EXCEPT ![t] = j]
    BY <1>4 DEF RenameStat, At
  <2>2. Good(i, disk, Len(size)) /\ i.changed = k.changed /\ i.pc = "target"
    BY <1>1, <1>2, Moves DEF Task
  <2>3. i \in Task /\ b \in BOOLEAN
    BY <2>2 DEF Good, Shape
  <2> HIDE DEF b, i
  <2>4. /\ j \in Task /\ j.pc = i.pc /\ j.req = i.req /\ j.stat = i.stat /\ j.ino = i.ino
        /\ j.changed = i.changed /\ j.lost = i.lost /\ j.disturbed = i.disturbed
    BY <2>3 DEF Task
  <2> HIDE DEF j
  <2>5. Shape(j, Len(size)) /\ Kept(j, disk) /\ Spares(j, disk)
    BY <1>2, <2>2, <2>4 DEF Good, Shape, Kept, Spares, Creating
  <2>6. Good(j, disk, Len(size))
    BY <2>5 DEF Good
  <2>7. calls' \in 0..MaxCalls
    BY <1>1 DEF HostInv
  <2> QED
    BY <1>1, <2>1, <2>6, <2>7, TaskStep
<1> QED
    BY <1>3, <1>4

\* RENAME looks at its target and changes nothing yet.
LEMMA RenameTargetStep ==
    ASSUME HostInv, NEW t \in Tasks, RenameTarget(t) \/ RenameReadDir(t)
    PROVE  HostInv'
<1> DEFINE k == task[t]
<1>1. k.pc \in {"target", "read_dir"} /\ disk' = disk /\ size' = size /\ calls' = calls
    BY DEF RenameTarget, RenameReadDir, Running
<1>2. Good(k, disk, Len(size)) /\ Len(size) \in Nat /\ ~k.changed
    BY <1>1, AtWork DEF Good, Shape
<1>3. ReadDirStat(disk, k.req.to) \in Statuses
    BY StatTypes DEF ReadDirStat, Statuses
<1>4. \/ \E s \in Statuses : Answer(t, s)
      \/ \E pc \in {"read_dir", "rename"} : Goto(t, pc)
  <2>1. CASE RenameTarget(t)
    BY <2>1 DEF RenameTarget, Statuses
  <2>2. CASE RenameReadDir(t)
    BY <1>3, <2>2 DEF RenameReadDir
  <2> QED
    BY <2>1, <2>2
<1>5. \A pc \in {"read_dir", "rename"} : Good([k EXCEPT !.pc = pc], disk, Len(size))
    BY <1>1, <1>2, Moves
<1> QED
    BY <1>1, <1>2, <1>4, <1>5, AnswerStep, GotoStep

\* A rename leaves a tree: a directory is not moved into itself.
LEMMA HostRenameStep ==
    ASSUME HostInv, NEW t \in Tasks, HostRename(t)
    PROVE  HostInv'
<1> DEFINE p == Path(t)
           k == task[t]
           q == k.req.to
           n == Len(size)
           stat == HostRenameStat(disk, p, q)
<1>1. k.pc = "rename" /\ size' = size /\ calls' = calls
    BY DEF HostRename, Running
<1>2. /\ k \in Task /\ Good(k, disk, n) /\ n \in Nat /\ Tree(disk, n) /\ n <= n
      /\ p \in Paths \ {<<>>} /\ q \in Paths \ {<<>>} /\ k.req \in Requests /\ ~k.changed
      /\ k.stat = "none"
    BY <1>1, AtWork DEF Path, Good, Shape
<1>3. CASE stat # "OK"
  <2>1. Answer(t, stat) /\ disk' = disk
    BY <1>3 DEF HostRename
  <2>2. stat \in Statuses
    BY StatTypes DEF HostRenameStat, Statuses
  <2> HIDE DEF stat
  <2> QED
    BY <1>1, <1>2, <2>1, <2>2, AnswerStep
<1>4. CASE stat = "OK"
  <2> DEFINE from == Place(disk, p)
             to == Place(disk, q)
             i == [k EXCEPT !.pc = "recache"]
             j == [i EXCEPT !.changed = TRUE]
  <2>1. disk' = Renamed(disk, from, to) /\ Change(t, i)
    BY <1>4 DEF HostRename, At
  <2>2. LstatStat(disk, p) = "OK" /\ DirStat(disk, q) = "OK" /\ Parent(to) # from
    BY <1>4 DEF HostRenameStat
  <2>3. from \in DOMAIN disk
    BY <1>2, <2>2 DEF LstatStat
  <2>4. to \in Paths \ {<<>>} /\ IsDir(disk, Parent(to))
    BY <1>2, <2>2, PlaceType
  <2>5. Tree(disk', n)
    BY <1>2, <2>1, <2>2, <2>3, <2>4, RenamedTree
  <2>6. /\ j \in Task /\ j.pc = "recache" /\ j.req = k.req /\ j.stat = k.stat /\ j.ino = k.ino
        /\ j.changed = TRUE /\ j.lost = k.lost /\ j.disturbed = k.disturbed
    BY <1>2 DEF Task, Steps
  <2>7. k.ino \in 0..n /\ (k.lost => k.req.op = "UNCHECKED" \/ k.disturbed)
    BY <1>2 DEF Good, Shape, Spares
  <2> HIDE DEF i, j
  <2>8. Good(j, disk', n)
    BY <1>2, <2>6, <2>7, Changes
  <2>9. size' \in Seq(0..MaxLen)
    BY <1>1 DEF HostInv
  <2> QED
    BY <1>1, <1>2, <2>1, <2>5, <2>8, <2>9, ChangeStep DEF j
<1> QED
    BY <1>3, <1>4

\* The end of RENAME leaves the host alone and answers OK.
LEMMA RecacheStep ==
    ASSUME HostInv, NEW t \in Tasks, Recache(t)
    PROVE  HostInv'
<1>1. Answer(t, "OK") /\ "OK" \in Statuses /\ disk' = disk /\ size' = size /\ calls' = calls
    BY DEF Recache, Statuses
<1> QED
    BY <1>1, AnswerStep DEF Excused

\* A request starts with nothing changed and nobody disturbed.
LEMMA CallStep ==
    ASSUME HostInv, NEW t \in Tasks, NEW r \in Requests, Call(t, r)
    PROVE  HostInv'
<1>1. disk' = disk /\ size' = size /\ calls < MaxCalls /\ calls' = calls + 1
    BY DEF Call
<1>2. calls' \in 0..MaxCalls /\ Len(size) \in Nat
    BY <1>1, MirrorAssumption DEF HostInv
<1>3. r \in Request
    BY MirrorAssumption
<1>4. FirstStep(r.op) \in
            {"metadata", "create", "guard", "create_new", "create_dir", "symlink", "lookup",
             "getattr", "read", "readlink", "setattr"}
    BY <1>3 DEF FirstStep, Request, Ops
<1>5. /\ FirstStep(r.op) = "create" => r.op = "UNCHECKED"
      /\ FirstStep(r.op) = "guard" => r.op = "GUARDED"
      /\ FirstStep(r.op) = "create_new" => r.op = "EXCLUSIVE"
      /\ FirstStep(r.op) = "create_dir" => r.op = "MKDIR"
      /\ FirstStep(r.op) = "symlink" => r.op = "SYMLINK"
    BY <1>3 DEF FirstStep, Request, Ops
<1>6. CASE BeforeStats(r) = {}
  <2> DEFINE pc == FirstStep(r.op)
             j == Fresh(r, pc, "none")
  <2>1. task' = [task EXCEPT ![t] = j]
    BY <1>6 DEF Call
  <2> HIDE DEF pc
  <2>2. /\ j.pc = pc /\ j.req = r /\ j.stat = "none" /\ j.ino = 0
        /\ j.changed = FALSE /\ j.lost = FALSE /\ j.disturbed = FALSE
    BY DEF Fresh
  <2>3. j \in Task
    BY <1>4, MirrorAssumption DEF Fresh, Task, Steps, pc
  <2> HIDE DEF j
  <2>4. Shape(j, Len(size))
    BY <1>2, <1>4, <1>5, <2>2, <2>3 DEF Shape, Creating, pc
  <2>5. Kept(j, disk) /\ Spares(j, disk)
    BY <1>4, <1>5, <2>2 DEF Kept, Spares, pc
  <2>6. Good(j, disk, Len(size))
    BY <2>4, <2>5 DEF Good
  <2> QED
    BY <1>1, <1>2, <2>1, <2>6, TaskStep
<1>7. CASE BeforeStats(r) # {}
  <2>1. PICK s \in BeforeStats(r) : task' = [task EXCEPT ![t] = Fresh(r, "idle", s)]
    BY <1>7 DEF Call
  <2> DEFINE j == Fresh(r, "idle", s)
  <2>2. s \in Statuses
    BY StatTypes DEF BeforeStats
  <2>3. /\ j.pc = "idle" /\ j.req = r /\ j.stat = s /\ j.ino = 0
        /\ j.changed = FALSE /\ j.lost = FALSE /\ j.disturbed = FALSE
    BY DEF Fresh
  <2>4. j \in Task
    BY <2>2, MirrorAssumption DEF Fresh, Task, Steps
  <2> HIDE DEF j
  <2>5. Shape(j, Len(size)) /\ Kept(j, disk) /\ Spares(j, disk)
    BY <1>2, <2>3, <2>4 DEF Shape, Kept, Spares
  <2>6. Good(j, disk, Len(size))
    BY <2>5 DEF Good
  <2>7. task' = [task EXCEPT ![t] = j]
    BY <2>1 DEF j
  <2> QED
    BY <1>1, <1>2, <2>6, <2>7, TaskStep
<1> QED
    BY <1>6, <1>7

\* The invariant holds of the directory the server is started on.
LEMMA HostInit ==
    ASSUME Init
    PROVE  HostInv
<1> DEFINE n == Cardinality(Files(disk))
<1>1. IsFiniteSet(DOMAIN disk) /\ Tree(disk, n)
    BY MirrorAssumption DEF Init
<1>2. Files(disk) \subseteq DOMAIN disk
    BY DEF Files
<1>3. n \in Nat
    BY <1>1, <1>2, FS_Subset, FS_CardinalityType
<1>4. size = [i \in 1..n |-> MaxLen]
    BY DEF Init
<1> HIDE DEF n
<1>5. size \in Seq(0..MaxLen) /\ Len(size) = n
    BY <1>3, <1>4, MirrorAssumption
<1> DEFINE j == Fresh(None, "idle", "none")
<1>6. /\ j.pc = "idle" /\ j.req = None /\ j.stat = "none" /\ j.ino = 0
      /\ j.changed = FALSE /\ j.lost = FALSE /\ j.disturbed = FALSE
    BY DEF Fresh
<1>7. j \in Task
    BY MirrorAssumption DEF Fresh, Task, Steps
<1>8. task = [t \in Tasks |-> j] /\ calls = 0
    BY DEF Init
<1> HIDE DEF j
<1>9. Shape(j, Len(size)) /\ Kept(j, disk) /\ Spares(j, disk)
    BY <1>3, <1>5, <1>6, <1>7 DEF Shape, Kept, Spares
<1>10. Good(j, disk, Len(size))
    BY <1>9 DEF Good
<1>11. calls \in 0..MaxCalls
    BY <1>8, MirrorAssumption
<1> QED
    BY <1>1, <1>5, <1>7, <1>8, <1>10, <1>11 DEF HostInv

\* Every step of the mirror keeps the invariant about the host and the tasks.
LEMMA HostNext ==
    ASSUME HostInv, [Next]_vars
    PROVE  HostInv'
<1>1. CASE UNCHANGED vars
    BY <1>1 DEF vars, HostInv
<1>2. ASSUME NEW t \in Tasks, NEW r \in Requests, Call(t, r) PROVE HostInv'
    BY <1>2, CallStep
<1>3. ASSUME NEW t \in Tasks, Step(t) PROVE HostInv'
    BY <1>3, LookupStep, GetAttrStep, ReadLinkStep, ReadStep, ReadExactStep, SetAttrStep,
       WriteStatStep, WriteOpenStep, WriteAllStep, GuardedLookupStep, CreateFileStep,
       SetLenStep, CreateNewStep,
       CreateDirStep, CreateLinkStep, RegisterStep, RemoveStatStep, RemoveNodeStep, RenameStatStep,
       RenameTargetStep, HostRenameStep, RecacheStep DEF Step
<1> QED
    BY <1>1, <1>2, <1>3 DEF Next

-----------------------------------------------------------------------------
(* The cache.                                                              *)

CacheOK(c) ==
    /\ DOMAIN c.path_to_id \subseteq Paths /\ DOMAIN c.id_to_path \subseteq Nat /\ c.next_id \in Nat
    /\ \A p \in DOMAIN c.path_to_id :
        c.path_to_id[p] \in DOMAIN c.id_to_path /\ c.id_to_path[c.path_to_id[p]] = p
    /\ \A i \in DOMAIN c.id_to_path :
        /\ i < c.next_id
        /\ c.id_to_path[i] \in DOMAIN c.path_to_id
        /\ c.path_to_id[c.id_to_path[i]] = i

\* The cache only grows.
Keeps(c, d) ==
    /\ \A p \in DOMAIN c.path_to_id :
        p \in DOMAIN d.path_to_id /\ d.path_to_id[p] = c.path_to_id[p]
    /\ \A i \in DOMAIN c.id_to_path :
        i \in DOMAIN d.id_to_path /\ d.id_to_path[i] = c.id_to_path[i]

\* A path that has no id gets one no path has had: the vacant entry of
\* path_to_id is filled with next_id.
LEMMA InsertOK ==
    ASSUME NEW c, CacheOK(c), NEW p \in Paths, p \notin DOMAIN c.path_to_id
    PROVE  CacheOK(InsertPath(c, p)) /\ Keeps(c, InsertPath(c, p))
<1> DEFINE d == InsertPath(c, p)
           n == c.next_id
<1>1. /\ d.path_to_id = Extend(c.path_to_id, p, n) /\ d.id_to_path = Extend(c.id_to_path, n, p)
      /\ d.next_id = n + 1
    BY DEF InsertPath
<1> HIDE DEF d
<1>2. n \in Nat /\ n \notin DOMAIN c.id_to_path
    BY DEF CacheOK
<1>3. /\ DOMAIN d.path_to_id = DOMAIN c.path_to_id \cup {p} /\ d.path_to_id[p] = n
      /\ \A q \in DOMAIN c.path_to_id : d.path_to_id[q] = c.path_to_id[q]
    BY <1>1 DEF Extend
<1>4. /\ DOMAIN d.id_to_path = DOMAIN c.id_to_path \cup {n} /\ d.id_to_path[n] = p
      /\ \A i \in DOMAIN c.id_to_path : d.id_to_path[i] = c.id_to_path[i]
    BY <1>1, <1>2 DEF Extend
<1>5. /\ DOMAIN d.path_to_id \subseteq Paths /\ DOMAIN d.id_to_path \subseteq Nat
      /\ d.next_id \in Nat
    BY <1>1, <1>2, <1>3, <1>4 DEF CacheOK
<1>6. \A q \in DOMAIN d.path_to_id :
        d.path_to_id[q] \in DOMAIN d.id_to_path /\ d.id_to_path[d.path_to_id[q]] = q
    BY <1>3, <1>4 DEF CacheOK
<1>7. ASSUME NEW i \in DOMAIN d.id_to_path
      PROVE  /\ i < d.next_id /\ d.id_to_path[i] \in DOMAIN d.path_to_id
             /\ d.path_to_id[d.id_to_path[i]] = i
  <2>1. CASE i = n
    BY <1>1, <1>2, <1>3, <1>4, <2>1
  <2>2. CASE i \in DOMAIN c.id_to_path
    <3>1. i < n /\ c.id_to_path[i] \in DOMAIN c.path_to_id /\ c.path_to_id[c.id_to_path[i]] = i
      BY <2>2 DEF CacheOK
    <3>2. i \in Nat
      BY <2>2 DEF CacheOK
    <3> QED
      BY <1>1, <1>2, <1>3, <1>4, <2>2, <3>1, <3>2
  <2> QED
    BY <1>4, <1>7, <2>1, <2>2
<1>8. CacheOK(d)
    BY <1>5, <1>6, <1>7 DEF CacheOK
<1>9. Keeps(c, d)
    BY <1>3, <1>4 DEF Keeps
<1> QED
    BY <1>8, <1>9 DEF d

\* lookup without the check of the host leaves a good cache.
LEMMA RecordedOK ==
    ASSUME NEW c, CacheOK(c), NEW p \in Paths
    PROVE  CacheOK(Recorded(c, p)) /\ Keeps(c, Recorded(c, p))
<1>1. CASE p \in DOMAIN c.path_to_id
    BY <1>1 DEF Recorded, Keeps
<1>2. CASE p \notin DOMAIN c.path_to_id
    BY <1>2, InsertOK DEF Recorded
<1> QED
    BY <1>1, <1>2

\* Of all steps only those that look a path up touch the cache.
LEMMA CacheNext ==
    ASSUME HostInv, CacheOK(cache), [Next]_vars
    PROVE  CacheOK(cache)' /\ Keeps(cache, cache')
<1>1. CASE cache' = cache
    BY <1>1 DEF CacheOK, Keeps
<1>2. ASSUME NEW t \in Tasks, task[t].pc # "idle", cache' = AfterLookup(Path(t))
      PROVE  CacheOK(cache') /\ Keeps(cache, cache')
  <2>1. CASE cache' = cache
    BY <2>1 DEF Keeps
  <2>2. CASE cache' # cache
    <3>1. cache' = InsertPath(cache, Path(t)) /\ Path(t) \notin DOMAIN cache.path_to_id
      BY <1>2, <2>2 DEF AfterLookup, Cached
    <3>2. Path(t) \in Paths
      BY <1>2, AtWork
    <3> QED
      BY <3>1, <3>2, InsertOK
  <2> QED
    BY <2>1, <2>2
<1>3. ASSUME NEW t \in Tasks, Recache(t)
      PROVE  CacheOK(cache') /\ Keeps(cache, cache')
  <2> DEFINE c == Recorded(cache, Path(t))
             d == Recorded(c, task[t].req.to)
  <2>1. task[t].pc # "idle" /\ cache' = d
    BY <1>3 DEF Recache, Running
  <2>2. Path(t) \in Paths /\ task[t].req.to \in Paths
    BY <2>1, AtWork
  <2>3. CacheOK(c) /\ Keeps(cache, c)
    BY <2>2, RecordedOK
  <2> HIDE DEF c
  <2>4. CacheOK(d) /\ Keeps(c, d)
    BY <2>2, <2>3, RecordedOK
  <2> HIDE DEF d
  <2>5. Keeps(cache, d)
    BY <2>3, <2>4 DEF Keeps
  <2> QED
    BY <2>1, <2>4, <2>5
<1>4. \/ cache' = cache
      \/ \E t \in Tasks : task[t].pc # "idle" /\ cache' = AfterLookup(Path(t))
      \/ \E t \in Tasks : Recache(t)
  <2>1. CASE UNCHANGED vars
    BY <2>1 DEF vars
  <2>2. ASSUME NEW t \in Tasks, NEW r \in Requests, Call(t, r) PROVE cache' = cache
    BY <2>2 DEF Call
  <2>3. ASSUME NEW t \in Tasks, Lookup(t) \/ GuardedLookup(t) \/ Register(t)
        PROVE  task[t].pc # "idle" /\ cache' = AfterLookup(Path(t))
    BY <2>3 DEF Lookup, GuardedLookup, Register, Running
  <2>4. ASSUME NEW t \in Tasks,
               \/ GetAttr(t) \/ ReadLink(t) \/ Read(t) \/ ReadExact(t) \/ SetAttr(t)
               \/ WriteStat(t) \/ WriteOpen(t) \/ WriteAll(t) \/ CreateFile(t) \/ SetLen(t)
               \/ CreateNew(t) \/ RenameReadDir(t)
               \/ CreateDir(t) \/ CreateLink(t) \/ RemoveStat(t) \/ RemoveNode(t)
               \/ RenameStat(t) \/ RenameTarget(t) \/ HostRename(t)
        PROVE  cache' = cache
    BY <2>4 DEF GetAttr, ReadLink, Read, ReadExact, SetAttr, WriteStat, WriteOpen, WriteAll,
       CreateFile, SetLen, CreateNew, CreateDir, CreateLink, RemoveStat, RemoveNode, RenameStat,
       RenameTarget, RenameReadDir, HostRename
  <2> QED
    BY <2>1, <2>2, <2>3, <2>4 DEF Next, Step
<1>5. CacheOK(cache') /\ Keeps(cache, cache')
    BY <1>1, <1>2, <1>3, <1>4
<1> QED
    BY <1>5

\* SymbolsCache::new holds the root alone.
LEMMA CacheInit ==
    ASSUME Init
    PROVE  CacheOK(cache)
BY PathForms DEF Init, NewCache, ROOT_ID, CacheOK

-----------------------------------------------------------------------------

\* The inductive invariant.
THEOREM MirrorInvariant == Spec => [](HostInv /\ CacheOK(cache))
<1>1. Init => HostInv /\ CacheOK(cache)
    BY HostInit, CacheInit
<1>2. HostInv /\ CacheOK(cache) /\ [Next]_vars => (HostInv /\ CacheOK(cache))'
    BY HostNext, CacheNext
<1> QED
    BY <1>1, <1>2, PTL DEF Spec

\* The mirrored directory stays a tree, a file a task has open exists and its
\* length stays within the bound, whatever the tasks of mirror::Fs do to each
\* other's names between two system calls.
THEOREM MirrorTypeOK == Spec => []TypeOK
<1>1. HostInv /\ CacheOK(cache) => TypeOK
  <2> SUFFICES ASSUME HostInv, CacheOK(cache) PROVE TypeOK
    OBVIOUS
  <2>1. ASSUME NEW t \in Tasks PROVE task[t].ino \in {0} \cup Inodes
    <3>1. task[t].ino \in 0..Len(size) /\ Len(size) \in Nat /\ DOMAIN size = 1..Len(size)
      BY DEF HostInv, Good, Shape
    <3> QED
      BY <3>1 DEF Inodes
  <2> QED
    BY <2>1 DEF HostInv, CacheOK, TypeOK
<1> QED
    BY <1>1, MirrorInvariant, PTL

\* The two maps of SymbolsCacheInner are inverse to each other: a handle names
\* one path and a path has one handle.
THEOREM MirrorHandleIsPath == Spec => []HandleIsPath
<1>1. CacheOK(cache) => HandleIsPath
    BY DEF CacheOK, HandleIsPath
<1> QED
    BY <1>1, MirrorInvariant, PTL

\* A handle that was given out names the same path for ever, and the path keeps
\* that handle: no step of the mirror takes an entry out of the cache or
\* changes one, not even REMOVE and the "invalidation" at the end of RENAME.
THEOREM MirrorHandlesLast == Spec => [][Keeps(cache, cache')]_cache
<1>1. HostInv /\ CacheOK(cache) /\ [Next]_vars => [Keeps(cache, cache')]_cache
    BY CacheNext
<1> QED
    BY <1>1, MirrorInvariant, PTL DEF Spec

\* CREATE destroys bytes only if it is UNCHECKED, or if another task changes
\* the host while a GUARDED create is under way.
THEOREM MirrorGuardedSpares == Spec => []GuardedSpares
<1>1. HostInv => GuardedSpares
    BY DEF HostInv, Good, Spares, GuardedSpares, Op
<1> QED
    BY <1>1, MirrorInvariant, PTL

\* An operation of the mirror that answers a failure, and during which no other
\* task changed the host, has changed nothing itself, but for a SYMLINK whose
\* target does not exist, a CREATE with a size the host refuses and a WRITE of
\* several bytes that fails part way.
THEOREM MirrorFailedChangesNothing == Spec => []FailedChangesNothing
<1>1. HostInv => FailedChangesNothing
  <2> SUFFICES ASSUME HostInv, NEW t \in Tasks, task[t].stat \notin {"none", "OK"},
                      task[t].changed, ~task[t].disturbed
               PROVE  \/ Op(t) = "SYMLINK" /\ task[t].stat = "NOENT"
                      \/ Op(t) \in {"UNCHECKED", "GUARDED"} /\ task[t].req.size = Huge
                      \/ Op(t) = "WRITE" /\ task[t].stat = "IO" /\ task[t].req.count > 1
    BY DEF FailedChangesNothing
  <2>1. Shape(task[t], Len(size)) /\ Kept(task[t], disk)
    BY DEF HostInv, Good
  <2>2. task[t].pc = "idle"
    BY <2>1 DEF Shape
  <2>3. Excused(task[t], task[t].stat)
    BY <2>1, <2>2 DEF Kept
  <2> QED
    BY <2>3 DEF Excused, Creating, Op
<1> QED
    BY <1>1, MirrorInvariant, PTL
============================================================================
