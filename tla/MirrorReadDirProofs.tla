------------------------ MODULE MirrorReadDirProofs ------------------------
(***************************************************************************)
(* Listings of the mirror: a stream has one owner, pages follow their      *)
(* cookies and never overlap, and the cache stays within its limit, for    *)
(* any number of tasks, directories and requests.                          *)
(***************************************************************************)
EXTENDS MirrorReadDir, FiniteSetTheorems, SequenceTheorems, TLAPS

\* An iterator's cookie names the listing and the entries read, also in the
\* cache.
CookieNames(it) == it.cookie = [listing |-> it.stream, read |-> it.pos]

\* A task that reads has put every entry since its cookie into the page.
ReadingInStep(me) ==
    me.pc = "reading" =>
        /\ me.it.pos = me.start.read + Len(me.page)
        /\ me.start # NewListing => me.it.stream = me.start.listing

CookiesFit ==
    /\ \A t \in Holders : CookieNames(task[t].it) /\ ReadingInStep(task[t])
    /\ \A i \in cache : CookieNames(i.it)

\* Streams that do not exist yet are mentioned nowhere.
StreamsExist ==
    /\ \A t \in Holders : task[t].it.stream < cookie_counter
    /\ \A i \in cache : i.it.stream < cookie_counter
    /\ \A t \in Tasks : \A n \in DOMAIN task[t].page :
        task[t].page[n].stream < cookie_counter

\* No page holds an entry that an open stream has yet to yield.
Yielded(e, it) == e.stream = it.stream => e.pos <= it.pos

PagesBehind ==
    \A t \in Tasks : \A n \in DOMAIN task[t].page :
        /\ \A u \in Holders : Yielded(task[t].page[n], task[u].it)
        /\ \A i \in cache : Yielded(task[t].page[n], i.it)

IInv ==
    /\ TypeOK
    /\ StreamOwnedOnce
    /\ CookiesFit
    /\ StreamsExist
    /\ PageFollowsCookie
    /\ PagesBehind
    /\ PagesDisjoint

-----------------------------------------------------------------------------
(* What the steps do to the records.                                       *)

\* The types of the fields of a task.
LEMMA TaskFields ==
    ASSUME NEW me \in Task
    PROVE  /\ me.pc \in {"idle", "reading", "dropping"}
           /\ me.dir \in Dirs
           /\ me.start \in Cookie
           /\ me.room \in Rooms \cup {0}
           /\ me.it \in MirrorFsIterator \cup {None}
           /\ me.page \in Seq(DirEntry)
           /\ me.eof \in BOOLEAN
           /\ me.stat \in Stat
           /\ me.now \in Nat
  BY DEF Task

\* A task that serves a request has an iterator.
LEMMA HolderFields ==
    ASSUME TypeOK, NEW t \in Holders
    PROVE  /\ t \in Tasks
           /\ task[t].it \in MirrorFsIterator
  <1>1. t \in Tasks /\ task[t] \in Task
    BY DEF TypeOK, Holders
  <1>2. task[t].it # None
    BY <1>1 DEF TypeOK
  <1> QED BY <1>1, <1>2, TaskFields

\* MirrorFsIterator::next counts the entry in the cookie.
LEMMA AdvanceFields ==
    ASSUME NEW it \in MirrorFsIterator
    PROVE  /\ Advance(it) \in MirrorFsIterator
           /\ Advance(it).stream = it.stream
           /\ Advance(it).pos = it.pos + 1
           /\ CookieNames(it) => CookieNames(Advance(it))
  <1>1. it.cookie \in Cookie /\ it.pos \in Nat /\ it.stream \in Nat
    BY DEF MirrorFsIterator
  <1>2. it.cookie.listing \in Nat /\ it.cookie.read \in Nat
    BY <1>1 DEF Cookie
  <1> QED BY <1>1, <1>2 DEF Advance, MirrorFsIterator, Cookie, CookieNames

LEMMA IteratorIsNotNone == \A it \in MirrorFsIterator : it # None
  BY ReadDirAssumption DEF MirrorFsIterator, Cookie

\* The three records a task can become.
LEMMA AnswerType ==
    ASSUME NEW d \in Dirs, NEW c \in Cookie, NEW s \in Stat,
           NEW p \in Seq(DirEntry), NEW e \in BOOLEAN
    PROVE  Answer(d, c, s, p, e) \in Task
  BY DEF Answer, Task

LEMMA ReadingType ==
    ASSUME NEW d \in Dirs, NEW c \in Cookie, NEW r \in Rooms \cup {0},
           NEW it \in MirrorFsIterator, NEW p \in Seq(DirEntry)
    PROVE  Reading(d, c, r, it, p) \in Task
  BY DEF Reading, Task, Stat

LEMMA DroppingType ==
    ASSUME TypeOK, NEW d \in Dirs, NEW c \in Cookie, NEW s \in Stat,
           NEW p \in Seq(DirEntry), NEW it \in MirrorFsIterator
    PROVE  Dropping(d, c, s, p, it) \in Task
  BY DEF Dropping, Task, TypeOK

LEMMA EmptyPage == <<>> \in Seq(DirEntry)
  BY EmptySeq

LEMMA CookieNewListing == NewListing \in Cookie /\ NewListing.read = 0
  BY DEF NewListing, Cookie

\* A page is a sequence of entries.
LEMMA PageEntries ==
    ASSUME NEW me \in Task, NEW n \in DOMAIN me.page
    PROVE  /\ n \in 1 .. Len(me.page)
           /\ me.page[n] \in DirEntry
           /\ me.page[n].stream \in Nat
           /\ me.page[n].pos \in Nat
  <1>1. me.page \in Seq(DirEntry)
    BY TaskFields
  <1>2. n \in 1 .. Len(me.page) /\ me.page[n] \in DirEntry
    BY <1>1, ElementOfSeq, LenProperties
  <1> QED BY <1>2 DEF DirEntry

\* The step of one task: its record becomes w, the others stay.
Becomes(t, w) ==
    /\ w \in Task
    /\ task' \in [Tasks -> Task]
    /\ task'[t] = w
    /\ \A u \in Tasks \ {t} : task'[u] = task[u]
    /\ w.it = None <=> w.pc = "idle"

LEMMA TaskBecomes ==
    ASSUME TypeOK, NEW t \in Tasks, NEW w \in Task,
           task' = [task EXCEPT ![t] = w],
           w.it = None <=> w.pc = "idle"
    PROVE  Becomes(t, w)
  BY DEF TypeOK, Becomes

\* A new listing: the next cookie of the counter, nothing read yet.
LEMMA OpenEffect ==
    ASSUME TypeOK, NEW t \in Tasks, OpenListing(t)
    PROVE  \E w :
            /\ Becomes(t, w)
            /\ w.pc = "reading" /\ w.start = NewListing /\ w.page = <<>>
            /\ w.it \in MirrorFsIterator
            /\ w.it.stream = cookie_counter /\ w.it.pos = 0 /\ CookieNames(w.it)
  <1> DEFINE it == [stream |-> cookie_counter, pos |-> 0,
                    cookie |-> [listing |-> cookie_counter, read |-> 0]]
  <1>1. PICK d \in Dirs, room \in Rooms :
            task' = [task EXCEPT ![t] = Reading(d, NewListing, room, it, <<>>)]
    BY DEF OpenListing
  <1>2. it \in MirrorFsIterator /\ it.stream = cookie_counter /\ it.pos = 0 /\ CookieNames(it)
    BY DEF TypeOK, MirrorFsIterator, Cookie, CookieNames
  <1> HIDE DEF it
  <1> DEFINE w == Reading(d, NewListing, room, it, <<>>)
  <1>3. w \in Task
    BY <1>2, ReadingType, CookieNewListing, EmptyPage
  <1>4. w.pc = "reading" /\ w.start = NewListing /\ w.page = <<>> /\ w.it = it
    BY DEF Reading
  <1> HIDE DEF w
  <1>5. Becomes(t, w)
    <2>1. task' = [task EXCEPT ![t] = w]
      BY <1>1 DEF w
    <2> QED BY <2>1, <1>2, <1>3, <1>4, IteratorIsNotNone, TaskBecomes
  <1> QED BY <1>2, <1>4, <1>5

\* pop_state: the iterator leaves the cache and the task starts at its cookie.
LEMMA ResumeEffect ==
    ASSUME TypeOK, NEW t \in Tasks, ResumeListing(t)
    PROVE  \E w, info :
            /\ Becomes(t, w)
            /\ info \in cache /\ cache' = cache \ {info}
            /\ w.pc = "reading" /\ w.page = <<>>
            /\ w.it = info.it /\ w.it \in MirrorFsIterator /\ w.start = w.it.cookie
  <1>1. PICK info \in cache, room \in Rooms :
            /\ task' = [task EXCEPT ![t] =
                    Reading(info.dir, info.it.cookie, room, info.it, <<>>)]
            /\ cache' = cache \ {info}
    BY DEF ResumeListing, pop_state
  <1> DEFINE w == Reading(info.dir, info.it.cookie, room, info.it, <<>>)
  <1>2. info.dir \in Dirs /\ info.it \in MirrorFsIterator
    BY DEF TypeOK, CachedIteratorInfo
  <1>3. info.it.cookie \in Cookie
    BY <1>2 DEF MirrorFsIterator
  <1>4. w \in Task
    BY <1>2, <1>3, ReadingType, EmptyPage
  <1>5. w.pc = "reading" /\ w.start = info.it.cookie /\ w.page = <<>> /\ w.it = info.it
    BY DEF Reading
  <1> HIDE DEF w
  <1>6. Becomes(t, w)
    <2>1. task' = [task EXCEPT ![t] = w]
      BY <1>1 DEF w
    <2> QED BY <2>1, <1>2, <1>4, <1>5, IteratorIsNotNone, TaskBecomes
  <1> QED BY <1>1, <1>2, <1>5, <1>6

\* A cookie that is not cached gets BAD_COOKIE and no entries.
LEMMA RefuseEffect ==
    ASSUME TypeOK, NEW t \in Tasks, RefuseCookie(t)
    PROVE  \E w : Becomes(t, w) /\ w.pc = "idle" /\ w.page = <<>>
  <1>1. PICK d \in Dirs, n \in 0 .. MaxListings, k \in 0 .. MaxEntries :
            task' = [task EXCEPT ![t] =
                Answer(d, [listing |-> n, read |-> k], "BAD_COOKIE", <<>>, FALSE)]
    BY DEF RefuseCookie
  <1> DEFINE w == Answer(d, [listing |-> n, read |-> k], "BAD_COOKIE", <<>>, FALSE)
  <1>2. [listing |-> n, read |-> k] \in Cookie
    BY ReadDirAssumption DEF Cookie
  <1>3. w \in Task
    BY <1>2, AnswerType, EmptyPage DEF Stat
  <1>4. w.pc = "idle" /\ w.page = <<>> /\ w.it = None
    BY DEF Answer
  <1> HIDE DEF w
  <1>5. Becomes(t, w)
    <2>1. task' = [task EXCEPT ![t] = w]
      BY <1>1 DEF w
    <2> QED BY <2>1, <1>3, <1>4, TaskBecomes
  <1> QED BY <1>4, <1>5

\* What the task of a step under way looks like.
LEMMA ReadingTask ==
    ASSUME TypeOK, NEW t \in Tasks, task[t].pc \in {"reading", "dropping"}
    PROVE  /\ t \in Holders
           /\ task[t] \in Task
           /\ task[t].it \in MirrorFsIterator
           /\ task[t].page \in Seq(DirEntry)
           /\ task[t].start \in Cookie
           /\ task[t].dir \in Dirs
           /\ task[t].room \in Rooms \cup {0}
           /\ task[t].stat \in Stat
           /\ task[t].now \in Nat
  <1>1. t \in Holders /\ task[t] \in Task
    BY DEF Holders, TypeOK
  <1> QED BY <1>1, HolderFields, TaskFields

\* An entry read goes to the end of the page, and the iterator is one further.
LEMMA PushEffect ==
    ASSUME TypeOK, NEW t \in Tasks, PushEntry(t)
    PROVE  \E w :
            /\ Becomes(t, w)
            /\ w.pc = "reading" /\ w.start = task[t].start
            /\ w.it = Advance(task[t].it)
            /\ w.page = Append(task[t].page, w.it)
  <1> DEFINE me == task[t]
             next == Advance(me.it)
             w == Reading(me.dir, me.start, me.room, next, Append(me.page, next))
  <1>1. me.pc = "reading" /\ task' = [task EXCEPT ![t] = w]
    BY DEF PushEntry
  <1>2. /\ me.it \in MirrorFsIterator /\ me.page \in Seq(DirEntry) /\ me.start \in Cookie
        /\ me.dir \in Dirs /\ me.room \in Rooms \cup {0}
    BY <1>1, ReadingTask
  <1>3. next \in MirrorFsIterator /\ next \in DirEntry
    BY <1>2, AdvanceFields DEF MirrorFsIterator, DirEntry
  <1>4. Append(me.page, next) \in Seq(DirEntry)
    BY <1>2, <1>3, AppendProperties
  <1>5. w \in Task
    BY <1>2, <1>3, <1>4, ReadingType
  <1>6. /\ w.pc = "reading" /\ w.start = me.start /\ w.it = next
        /\ w.page = Append(me.page, next)
    BY DEF Reading
  <1>7. Becomes(t, w)
    <2> HIDE DEF w, next, me
    <2> QED BY <1>1, <1>3, <1>5, <1>6, IteratorIsNotNone, TaskBecomes
  <1> QED BY <1>6, <1>7

\* A full page: the entry that did not fit has been read, the iterator is to be dropped.
LEMMA FullEffect ==
    ASSUME TypeOK, NEW t \in Tasks, PageFull(t)
    PROVE  \E w :
            /\ Becomes(t, w)
            /\ w.pc = "dropping" /\ w.start = task[t].start
            /\ w.it = Advance(task[t].it) /\ w.page = task[t].page
  <1> DEFINE me == task[t]
             stat == IF me.page = <<>> THEN "TOOSMALL" ELSE "OK"
             w == Dropping(me.dir, me.start, stat, me.page, Advance(me.it))
  <1>1. me.pc = "reading" /\ task' = [task EXCEPT ![t] = w]
    BY DEF PageFull
  <1>2. /\ me.it \in MirrorFsIterator /\ me.page \in Seq(DirEntry) /\ me.start \in Cookie
        /\ me.dir \in Dirs
    BY <1>1, ReadingTask
  <1>3. Advance(me.it) \in MirrorFsIterator /\ stat \in Stat
    BY <1>2, AdvanceFields DEF Stat
  <1>4. w \in Task
    BY <1>2, <1>3, DroppingType
  <1>5. /\ w.pc = "dropping" /\ w.start = me.start /\ w.it = Advance(me.it)
        /\ w.page = me.page
    BY DEF Dropping
  <1>6. Becomes(t, w)
    <2> HIDE DEF w, stat, me
    <2> QED BY <1>1, <1>3, <1>4, <1>5, IteratorIsNotNone, TaskBecomes
  <1> QED BY <1>5, <1>6

\* The last page drops the iterator without caching it.
LEMMA EndEffect ==
    ASSUME TypeOK, NEW t \in Tasks, EndOfStream(t)
    PROVE  \E w :
            /\ Becomes(t, w)
            /\ w.pc = "idle" /\ w.start = task[t].start /\ w.page = task[t].page
  <1> DEFINE me == task[t]
             w == Answer(me.dir, me.start, "OK", me.page, TRUE)
  <1>1. me.pc = "reading" /\ task' = [task EXCEPT ![t] = w]
    BY DEF EndOfStream
  <1>2. me.page \in Seq(DirEntry) /\ me.start \in Cookie /\ me.dir \in Dirs
    BY <1>1, ReadingTask
  <1>3. w \in Task
    BY <1>2, AnswerType DEF Stat
  <1>4. w.pc = "idle" /\ w.start = me.start /\ w.page = me.page /\ w.it = None
    BY DEF Answer
  <1>5. Becomes(t, w)
    <2> HIDE DEF w, me
    <2> QED BY <1>1, <1>3, <1>4, TaskBecomes
  <1> QED BY <1>4, <1>5

\* An error of the host answers without a page.
LEMMA ErrorEffect ==
    ASSUME TypeOK, NEW t \in Tasks, ReadError(t)
    PROVE  \E w :
            /\ Becomes(t, w)
            /\ w.pc = "dropping" /\ w.it = task[t].it /\ w.page = <<>>
  <1> DEFINE me == task[t]
             w == Dropping(me.dir, me.start, "IO", <<>>, me.it)
  <1>1. me.pc = "reading" /\ task' = [task EXCEPT ![t] = w]
    BY DEF ReadError
  <1>2. me.it \in MirrorFsIterator /\ me.start \in Cookie /\ me.dir \in Dirs
    BY <1>1, ReadingTask
  <1>3. w \in Task
    BY <1>2, DroppingType, EmptyPage DEF Stat
  <1>4. w.pc = "dropping" /\ w.it = me.it /\ w.page = <<>>
    BY DEF Dropping
  <1>5. Becomes(t, w)
    <2> HIDE DEF w, me
    <2> QED BY <1>1, <1>2, <1>3, <1>4, IteratorIsNotNone, TaskBecomes
  <1> QED BY <1>4, <1>5

\* Trimming only takes away.
LEMMA CacheStateSubset ==
    ASSUME NEW c, NEW info, NEW k \in cache_state(c, info)
    PROVE  k \subseteq c \cup {info}
  BY DEF cache_state, trim_cache_for_dir

\* Drop of the iterator: its state goes into the cache, which is then trimmed.
LEMMA CacheEffect ==
    ASSUME TypeOK, NEW t \in Tasks, CacheStream(t)
    PROVE  \E w, info :
            /\ Becomes(t, w)
            /\ w.pc = "idle" /\ w.start = task[t].start /\ w.page = task[t].page
            /\ info \in CachedIteratorInfo /\ info.it = task[t].it
            /\ cache' \subseteq cache \cup {info}
  <1> DEFINE me == task[t]
             w == Answer(me.dir, me.start, me.stat, me.page, FALSE)
             info == [dir |-> me.dir, it |-> me.it, cached_at |-> me.now]
  <1>1. me.pc = "dropping" /\ task' = [task EXCEPT ![t] = w] /\ cache' \in cache_state(cache, info)
    BY DEF CacheStream
  <1>2. /\ me.it \in MirrorFsIterator /\ me.page \in Seq(DirEntry) /\ me.start \in Cookie
        /\ me.dir \in Dirs /\ me.stat \in Stat /\ me.now \in Nat
    BY <1>1, ReadingTask
  <1>3. w \in Task
    BY <1>2, AnswerType
  <1>4. w.pc = "idle" /\ w.start = me.start /\ w.page = me.page /\ w.it = None
    BY DEF Answer
  <1>5. info \in CachedIteratorInfo /\ info.it = me.it
    BY <1>2 DEF CachedIteratorInfo
  <1>6. Becomes(t, w)
    <2> HIDE DEF w, me
    <2> QED BY <1>1, <1>3, <1>4, TaskBecomes
  <1>7. cache' \subseteq cache \cup {info}
    <2> HIDE DEF w, me, info
    <2> QED BY <1>1, CacheStateSubset
  <1> QED BY <1>4, <1>5, <1>6, <1>7

-----------------------------------------------------------------------------
(* A step of one task, reduced to what it must show about its new record   *)
(* and the new cache.                                                      *)

Others(t) == Holders \ {t}

\* An entry of a page is the one its place and the request's cookie call for.
EntryFollows(me, n) ==
    LET e == me.page[n] IN
    /\ me.start # NewListing => e.stream = me.start.listing
    /\ e.pos = me.start.read + n
    /\ e.cookie = [listing |-> e.stream, read |-> e.pos]

Apart(e, f) == e.stream # f.stream \/ e.pos # f.pos

\* The new iterator, if there is one.
IteratorFits(t, w) ==
    w.pc # "idle" =>
        /\ CookieNames(w.it) /\ ReadingInStep(w)
        /\ w.it.stream < cookie_counter'
        /\ \A u \in Others(t) : task[u].it.stream # w.it.stream
        /\ \A i \in cache' : i.it.stream # w.it.stream
        /\ \A u \in Tasks \ {t} : \A n \in DOMAIN task[u].page :
            Yielded(task[u].page[n], w.it)

\* The new page.
PageFits(t, w) ==
    \A n \in DOMAIN w.page :
        /\ EntryFollows(w, n)
        /\ w.page[n].stream < cookie_counter'
        /\ \A u \in Others(t) : Yielded(w.page[n], task[u].it)
        /\ w.pc # "idle" => Yielded(w.page[n], w.it)
        /\ \A i \in cache' : Yielded(w.page[n], i.it)
        /\ \A u \in Tasks \ {t} : \A m \in DOMAIN task[u].page :
            Apart(w.page[n], task[u].page[m])

\* The new cache, with the tasks that do not move.
CacheFits(t) ==
    /\ cache' \subseteq CachedIteratorInfo
    /\ \A i \in cache' :
        /\ CookieNames(i.it)
        /\ i.it.stream < cookie_counter'
        /\ \A u \in Others(t) : task[u].it.stream # i.it.stream
        /\ \A u \in Tasks \ {t} : \A n \in DOMAIN task[u].page :
            Yielded(task[u].page[n], i.it)
    /\ \A i, j \in cache' : i # j => i.it.stream # j.it.stream

CounterGrows ==
    /\ cookie_counter \in Nat /\ cookie_counter' \in Nat
    /\ cookie_counter <= cookie_counter'

\* Only the task that steps can begin or cease to hold an iterator.
LEMMA HoldersAfter ==
    ASSUME TypeOK, NEW t \in Tasks, NEW w, Becomes(t, w)
    PROVE  /\ Holders' \ {t} = Others(t)
           /\ t \in Holders' <=> w.pc # "idle"
  <1>1. w.pc \in {"idle", "reading", "dropping"}
    BY TaskFields DEF Becomes
  <1> QED BY <1>1 DEF Holders, Others, Becomes

LEMMA TaskStep ==
    ASSUME IInv, NEW t \in Tasks, NEW w, Becomes(t, w), CounterGrows,
           IteratorFits(t, w), PageFits(t, w), CacheFits(t),
           clock' = clock, cleaner' = cleaner
    PROVE  IInv'
  <1>1. TypeOK
    BY DEF IInv
  <1>2. /\ Holders' \ {t} = Others(t)
        /\ t \in Holders' <=> w.pc # "idle"
        /\ Others(t) \subseteq Tasks \ {t}
        /\ Holders' \subseteq Tasks
    BY <1>1, HoldersAfter DEF Others, Holders
  <1>3. /\ task'[t] = w
        /\ \A u \in Tasks \ {t} : task'[u] = task[u]
        /\ task' \in [Tasks -> Task]
        /\ w.it = None <=> w.pc = "idle"
    BY DEF Becomes
  <1>4. TypeOK'
    <2>1. \A u \in Tasks : task'[u].it = None <=> u \notin Holders'
      BY <1>1, <1>2, <1>3 DEF TypeOK, Others
    <2> QED BY <1>1, <1>3, <2>1 DEF TypeOK, CacheFits, CounterGrows
  <1>5. StreamOwnedOnce'
    <2>1. \A u, v \in Holders' : u # v => task'[u].it.stream # task'[v].it.stream
      BY <1>2, <1>3 DEF IInv, StreamOwnedOnce, IteratorFits, Others
    <2>2. \A u \in Holders', i \in cache' : task'[u].it.stream # i.it.stream
      BY <1>2, <1>3 DEF IteratorFits, CacheFits
    <2> QED BY <2>1, <2>2 DEF StreamOwnedOnce, CacheFits
  <1>6. CookiesFit'
    BY <1>2, <1>3 DEF IInv, CookiesFit, IteratorFits, CacheFits, Others
  <1>7. StreamsExist'
    <2>1. \A u \in Holders' : task'[u].it.stream < cookie_counter'
      <3> SUFFICES ASSUME NEW u \in Holders'
                   PROVE  task'[u].it.stream < cookie_counter'
        OBVIOUS
      <3>1. CASE u = t
        BY <3>1, <1>2, <1>3 DEF IteratorFits
      <3>2. CASE u # t
        <4>1. u \in Holders /\ task'[u] = task[u]
          BY <3>2, <1>2, <1>3 DEF Others
        <4>2. task[u].it.stream \in Nat
          BY <1>1, <4>1, HolderFields DEF MirrorFsIterator
        <4>3. task[u].it.stream < cookie_counter
          BY <4>1 DEF IInv, StreamsExist
        <4> QED BY <4>1, <4>2, <4>3 DEF CounterGrows
      <3> QED BY <3>1, <3>2
    <2>2. \A u \in Tasks : \A n \in DOMAIN task'[u].page :
            task'[u].page[n].stream < cookie_counter'
      <3> SUFFICES ASSUME NEW u \in Tasks, NEW n \in DOMAIN task'[u].page
                   PROVE  task'[u].page[n].stream < cookie_counter'
        OBVIOUS
      <3>1. CASE u = t
        BY <3>1, <1>3 DEF PageFits
      <3>2. CASE u # t
        <4>1. task'[u] = task[u] /\ task[u] \in Task
          BY <3>2, <1>1, <1>3 DEF TypeOK
        <4>2. task[u].page[n].stream \in Nat
          BY <4>1, PageEntries
        <4>3. task[u].page[n].stream < cookie_counter
          BY <4>1 DEF IInv, StreamsExist
        <4> QED BY <4>1, <4>2, <4>3 DEF CounterGrows
      <3> QED BY <3>1, <3>2
    <2> QED BY <2>1, <2>2 DEF StreamsExist, CacheFits
  <1>8. PageFollowsCookie'
    <2>1. \A u \in Tasks : \A n \in DOMAIN task'[u].page : EntryFollows(task'[u], n)
      BY <1>3 DEF IInv, PageFollowsCookie, PageFits, EntryFollows
    <2> QED BY <2>1 DEF PageFollowsCookie, EntryFollows
  <1>9. PagesBehind'
    <2> SUFFICES ASSUME NEW u \in Tasks, NEW n \in DOMAIN task'[u].page
                 PROVE  /\ \A v \in Holders' : Yielded(task'[u].page[n], task'[v].it)
                        /\ \A i \in cache' : Yielded(task'[u].page[n], i.it)
      BY DEF PagesBehind, Yielded
    <2>1. CASE u = t
      BY <2>1, <1>2, <1>3 DEF PageFits
    <2>2. CASE u # t
      BY <2>2, <1>2, <1>3 DEF IInv, PagesBehind, IteratorFits, CacheFits, Others
    <2> QED BY <2>1, <2>2
  <1>10. PagesDisjoint'
    <2> SUFFICES ASSUME NEW u \in Tasks, NEW v \in Tasks, u # v,
                        NEW m \in DOMAIN task'[u].page, NEW n \in DOMAIN task'[v].page
                 PROVE  Apart(task'[u].page[m], task'[v].page[n])
      BY DEF PagesDisjoint, Apart
    <2>1. CASE u = t
      BY <2>1, <1>3 DEF PageFits
    <2>2. CASE v = t
      BY <2>2, <1>3 DEF PageFits, Apart
    <2>3. CASE u # t /\ v # t
      BY <2>3, <1>3 DEF IInv, PagesDisjoint, Apart
    <2> QED BY <2>1, <2>2, <2>3
  <1> QED BY <1>4, <1>5, <1>6, <1>7, <1>8, <1>9, <1>10 DEF IInv

\* A cache that only loses streams fits.
LEMMA SmallerCacheFits ==
    ASSUME IInv, NEW t \in Tasks, CounterGrows, cache' \subseteq cache
    PROVE  CacheFits(t)
  <1>1. \A i \in cache' : i.it.stream < cookie_counter'
    <2>1. \A i \in cache : i.it.stream \in Nat /\ i.it.stream < cookie_counter
      BY DEF IInv, TypeOK, StreamsExist, CachedIteratorInfo, MirrorFsIterator
    <2> QED BY <2>1 DEF CounterGrows
  <1>2. cache' \subseteq CachedIteratorInfo
    BY DEF IInv, TypeOK
  <1>3. \A i \in cache' :
            /\ CookieNames(i.it)
            /\ \A u \in Others(t) : task[u].it.stream # i.it.stream
            /\ \A u \in Tasks \ {t} : \A n \in DOMAIN task[u].page :
                Yielded(task[u].page[n], i.it)
    BY DEF IInv, CookiesFit, StreamOwnedOnce, PagesBehind, Others
  <1>4. \A i, j \in cache' : i # j => i.it.stream # j.it.stream
    BY DEF IInv, StreamOwnedOnce
  <1> QED BY <1>1, <1>2, <1>3, <1>4 DEF CacheFits

\* A page that was there fits still, when the task's iterator moved on or is
\* given up and the cache did not change.
LEMMA OldPageFits ==
    ASSUME IInv, NEW t \in Holders, NEW w, cookie_counter' = cookie_counter,
           cache' = cache, w.page = task[t].page, w.start = task[t].start,
           w.pc # "idle" =>
                /\ w.it.stream = task[t].it.stream
                /\ w.it.pos \in Nat
                /\ task[t].it.pos <= w.it.pos
    PROVE  PageFits(t, w)
  <1>1. t \in Tasks /\ task[t] \in Task
    BY DEF IInv, TypeOK, Holders
  <1> SUFFICES ASSUME NEW n \in DOMAIN w.page
               PROVE  /\ EntryFollows(w, n)
                      /\ w.page[n].stream < cookie_counter'
                      /\ \A u \in Others(t) : Yielded(w.page[n], task[u].it)
                      /\ w.pc # "idle" => Yielded(w.page[n], w.it)
                      /\ \A i \in cache' : Yielded(w.page[n], i.it)
                      /\ \A u \in Tasks \ {t} : \A m \in DOMAIN task[u].page :
                            Apart(w.page[n], task[u].page[m])
    BY DEF PageFits
  <1>2. EntryFollows(w, n)
    BY <1>1 DEF IInv, PageFollowsCookie, EntryFollows
  <1>3. w.page[n].stream < cookie_counter'
    BY <1>1 DEF IInv, StreamsExist
  <1>4. \A u \in Holders : Yielded(w.page[n], task[u].it)
    BY <1>1 DEF IInv, PagesBehind
  <1>5. w.pc # "idle" => Yielded(w.page[n], w.it)
    <2>1. w.page[n].pos \in Nat
      BY <1>1, PageEntries
    <2>2. task[t].it.pos \in Nat
      BY HolderFields DEF IInv, MirrorFsIterator
    <2> QED BY <1>4, <2>1, <2>2 DEF Yielded
  <1>6. \A i \in cache' : Yielded(w.page[n], i.it)
    BY <1>1 DEF IInv, PagesBehind
  <1>7. \A u \in Tasks \ {t} : \A m \in DOMAIN task[u].page :
            Apart(w.page[n], task[u].page[m])
    BY <1>1 DEF IInv, PagesDisjoint, Apart
  <1> QED BY <1>2, <1>3, <1>4, <1>5, <1>6, <1>7 DEF Others

\* An iterator that kept its stream fits.
LEMMA MovedIteratorFits ==
    ASSUME IInv, NEW t \in Holders, NEW w, cookie_counter' = cookie_counter, cache' = cache,
           w.it \in MirrorFsIterator, CookieNames(w.it), ReadingInStep(w),
           w.it.stream = task[t].it.stream, task[t].it.pos <= w.it.pos
    PROVE  IteratorFits(t, w)
  <1>1. t \in Tasks /\ task[t].it.pos \in Nat /\ w.it.pos \in Nat
    BY HolderFields DEF IInv, MirrorFsIterator
  <1>2. w.it.stream < cookie_counter'
    BY DEF IInv, StreamsExist
  <1>3. \A u \in Others(t) : task[u].it.stream # w.it.stream
    BY DEF IInv, StreamOwnedOnce, Others
  <1>4. \A i \in cache' : i.it.stream # w.it.stream
    BY DEF IInv, StreamOwnedOnce
  <1>5. ASSUME NEW u \in Tasks \ {t}, NEW n \in DOMAIN task[u].page
        PROVE  Yielded(task[u].page[n], w.it)
    <2>1. Yielded(task[u].page[n], task[t].it)
      BY DEF IInv, PagesBehind
    <2>2. task[u].page[n].pos \in Nat
      BY PageEntries DEF IInv, TypeOK
    <2> QED BY <1>1, <2>1, <2>2 DEF Yielded
  <1> QED BY <1>2, <1>3, <1>4, <1>5 DEF IteratorFits

\* A page with no entry fits any cookie.
LEMMA EmptyPageFits ==
    ASSUME NEW t, NEW w, w.page = <<>>
    PROVE  PageFits(t, w)
  <1>1. DOMAIN w.page = {}
    OBVIOUS
  <1> QED BY <1>1 DEF PageFits

-----------------------------------------------------------------------------
(* One lemma for each action.                                              *)

LEMMA OpenKeeps ==
    ASSUME IInv, NEW t \in Tasks, OpenListing(t)
    PROVE  IInv'
  <1>1. PICK w :
            /\ Becomes(t, w)
            /\ w.pc = "reading" /\ w.start = NewListing /\ w.page = <<>>
            /\ w.it \in MirrorFsIterator
            /\ w.it.stream = cookie_counter /\ w.it.pos = 0 /\ CookieNames(w.it)
    BY OpenEffect DEF IInv
  <1>2. cache' = cache /\ cookie_counter' = cookie_counter + 1 /\ clock' = clock /\ cleaner' = cleaner
    BY DEF OpenListing
  <1>3. CounterGrows /\ cookie_counter < cookie_counter'
    BY <1>2 DEF CounterGrows, IInv, TypeOK
  <1>4. IteratorFits(t, w)
    <2>1. ReadingInStep(w)
      BY <1>1, CookieNewListing, EmptySeq DEF ReadingInStep
    <2>2. \A u \in Others(t) : task[u].it.stream # w.it.stream
      <3>1. \A u \in Holders : task[u].it.stream \in Nat /\ task[u].it.stream < cookie_counter
        BY HolderFields DEF IInv, StreamsExist, MirrorFsIterator
      <3> QED BY <1>1, <1>3, <3>1 DEF Others, CounterGrows
    <2>3. \A i \in cache' : i.it.stream # w.it.stream
      <3>1. \A i \in cache : i.it.stream \in Nat /\ i.it.stream < cookie_counter
        BY DEF IInv, TypeOK, StreamsExist, CachedIteratorInfo, MirrorFsIterator
      <3> QED BY <1>1, <1>2, <1>3, <3>1 DEF CounterGrows
    <2>4. ASSUME NEW u \in Tasks \ {t}, NEW n \in DOMAIN task[u].page
          PROVE  Yielded(task[u].page[n], w.it)
      <3>1. task[u].page[n].stream \in Nat /\ task[u].page[n].stream < cookie_counter
        BY PageEntries DEF IInv, TypeOK, StreamsExist
      <3> QED BY <1>1, <1>3, <3>1 DEF Yielded, CounterGrows
    <2> QED BY <1>1, <1>3, <2>1, <2>2, <2>3, <2>4 DEF IteratorFits
  <1>5. PageFits(t, w)
    BY <1>1, EmptyPageFits
  <1>6. CacheFits(t)
    BY <1>2, <1>3, SmallerCacheFits
  <1> QED BY <1>1, <1>2, <1>3, <1>4, <1>5, <1>6, TaskStep

LEMMA ResumeKeeps ==
    ASSUME IInv, NEW t \in Tasks, ResumeListing(t)
    PROVE  IInv'
  <1>1. PICK w, info :
            /\ Becomes(t, w)
            /\ info \in cache /\ cache' = cache \ {info}
            /\ w.pc = "reading" /\ w.page = <<>>
            /\ w.it = info.it /\ w.it \in MirrorFsIterator /\ w.start = w.it.cookie
    BY ResumeEffect DEF IInv
  <1>2. cookie_counter' = cookie_counter /\ clock' = clock /\ cleaner' = cleaner
    BY DEF ResumeListing
  <1>3. CounterGrows
    BY <1>2 DEF CounterGrows, IInv, TypeOK
  <1>4. IteratorFits(t, w)
    <2>1. CookieNames(w.it) /\ w.it.pos \in Nat
      BY <1>1 DEF IInv, CookiesFit, MirrorFsIterator
    <2>2. ReadingInStep(w)
      <3>1. w.start.read = w.it.pos /\ w.start.listing = w.it.stream
        BY <1>1, <2>1 DEF CookieNames
      <3>2. Len(w.page) = 0
        BY <1>1, EmptySeq
      <3> QED BY <2>1, <3>1, <3>2 DEF ReadingInStep
    <2>3. w.it.stream < cookie_counter'
      BY <1>1, <1>2 DEF IInv, StreamsExist
    <2>4. \A u \in Others(t) : task[u].it.stream # w.it.stream
      BY <1>1 DEF IInv, StreamOwnedOnce, Others
    <2>5. \A i \in cache' : i.it.stream # w.it.stream
      BY <1>1 DEF IInv, StreamOwnedOnce
    <2>6. \A u \in Tasks \ {t} : \A n \in DOMAIN task[u].page :
            Yielded(task[u].page[n], w.it)
      BY <1>1 DEF IInv, PagesBehind
    <2> QED BY <2>1, <2>2, <2>3, <2>4, <2>5, <2>6 DEF IteratorFits
  <1>5. PageFits(t, w)
    BY <1>1, EmptyPageFits
  <1>6. CacheFits(t)
    BY <1>1, <1>3, SmallerCacheFits
  <1> QED BY <1>1, <1>2, <1>3, <1>4, <1>5, <1>6, TaskStep

LEMMA RefuseKeeps ==
    ASSUME IInv, NEW t \in Tasks, RefuseCookie(t)
    PROVE  IInv'
  <1>1. PICK w : Becomes(t, w) /\ w.pc = "idle" /\ w.page = <<>>
    BY RefuseEffect DEF IInv
  <1>2. cookie_counter' = cookie_counter /\ cache' = cache /\ clock' = clock /\ cleaner' = cleaner
    BY DEF RefuseCookie
  <1>3. CounterGrows
    BY <1>2 DEF CounterGrows, IInv, TypeOK
  <1>4. IteratorFits(t, w) /\ PageFits(t, w) /\ CacheFits(t)
    BY <1>1, <1>2, <1>3, EmptyPageFits, SmallerCacheFits DEF IteratorFits
  <1> QED BY <1>1, <1>2, <1>3, <1>4, TaskStep

\* A task that reads: its iterator, where it stands and where it goes.
LEMMA ReadingFacts ==
    ASSUME IInv, NEW t \in Tasks, task[t].pc \in {"reading", "dropping"}
    PROVE  /\ t \in Holders
           /\ task[t] \in Task
           /\ task[t].page \in Seq(DirEntry)
           /\ task[t].start \in Cookie
           /\ task[t].it \in MirrorFsIterator
           /\ task[t].it.pos \in Nat
           /\ CookieNames(task[t].it)
           /\ ReadingInStep(task[t])
           /\ Advance(task[t].it) \in MirrorFsIterator
           /\ Advance(task[t].it).stream = task[t].it.stream
           /\ Advance(task[t].it).pos = task[t].it.pos + 1
           /\ CookieNames(Advance(task[t].it))
  <1>1. /\ t \in Holders /\ task[t] \in Task /\ task[t].it \in MirrorFsIterator
        /\ task[t].page \in Seq(DirEntry) /\ task[t].start \in Cookie
    BY ReadingTask DEF IInv
  <1>2. CookieNames(task[t].it) /\ ReadingInStep(task[t])
    BY <1>1 DEF IInv, CookiesFit
  <1> QED BY <1>1, <1>2, AdvanceFields DEF MirrorFsIterator

LEMMA PushKeeps ==
    ASSUME IInv, NEW t \in Tasks, PushEntry(t)
    PROVE  IInv'
  <1> DEFINE me == task[t]
  <1>1. PICK w :
            /\ Becomes(t, w)
            /\ w.pc = "reading" /\ w.start = me.start
            /\ w.it = Advance(me.it)
            /\ w.page = Append(me.page, w.it)
    BY PushEffect DEF IInv
  <1>2. /\ cookie_counter' = cookie_counter /\ cache' = cache /\ clock' = clock
        /\ cleaner' = cleaner /\ me.pc = "reading"
    BY DEF PushEntry
  <1>3. CounterGrows
    BY <1>2 DEF CounterGrows, IInv, TypeOK
  <1>4. /\ t \in Holders /\ me \in Task
        /\ me.page \in Seq(DirEntry) /\ me.start \in Cookie
        /\ me.it.pos \in Nat
        /\ me.it.pos = me.start.read + Len(me.page)
        /\ me.start # NewListing => me.it.stream = me.start.listing
        /\ w.it \in MirrorFsIterator
        /\ w.it.stream = me.it.stream
        /\ w.it.pos = me.it.pos + 1
        /\ CookieNames(w.it)
    BY <1>1, <1>2, ReadingFacts DEF ReadingInStep
  <1>5. me.start.read \in Nat /\ Len(me.page) \in Nat /\ w.it \in DirEntry
    BY <1>4, LenProperties DEF Cookie, DirEntry, MirrorFsIterator
  <1>6. /\ Len(w.page) = Len(me.page) + 1
        /\ DOMAIN w.page = 1 .. Len(me.page) + 1
        /\ DOMAIN me.page = 1 .. Len(me.page)
        /\ \A n \in 1 .. Len(me.page) : w.page[n] = me.page[n]
        /\ w.page[Len(me.page) + 1] = w.it
    <2>1. w.page \in Seq(DirEntry)
      BY <1>1, <1>4, <1>5, AppendProperties
    <2> QED BY <1>1, <1>4, <1>5, <2>1, AppendProperties, LenProperties
  <1>7. IteratorFits(t, w)
    <2>1. w.it.pos = w.start.read + Len(w.page)
      <3>1. w.start.read = me.start.read
        BY <1>1
      <3>2. w.it.pos = me.start.read + (Len(me.page) + 1)
        BY <1>4, <1>5
      <3> QED BY <3>1, <3>2, <1>6
    <2>2. w.start # NewListing => w.it.stream = w.start.listing
      BY <1>1, <1>4
    <2>3. ReadingInStep(w)
      BY <2>1, <2>2 DEF ReadingInStep
    <2> QED BY <1>2, <1>4, <2>3, MovedIteratorFits
  <1>8. PageFits(t, w)
    <2> SUFFICES ASSUME NEW n \in DOMAIN w.page
                 PROVE  /\ EntryFollows(w, n)
                        /\ w.page[n].stream < cookie_counter'
                        /\ \A u \in Others(t) : Yielded(w.page[n], task[u].it)
                        /\ w.pc # "idle" => Yielded(w.page[n], w.it)
                        /\ \A i \in cache' : Yielded(w.page[n], i.it)
                        /\ \A u \in Tasks \ {t} : \A m \in DOMAIN task[u].page :
                              Apart(w.page[n], task[u].page[m])
      BY DEF PageFits
    <2>1. CASE n \in 1 .. Len(me.page)
      <3> DEFINE old == [me EXCEPT !.it = w.it]
      <3>1. /\ old.page = me.page /\ old.start = me.start /\ old.it = w.it
            /\ old.pc = me.pc
        BY <1>4 DEF Task
      <3>2. PageFits(t, old)
        <4> HIDE DEF old
        <4> QED BY <1>2, <1>4, <3>1, OldPageFits
      <3>3. w.page[n] = old.page[n] /\ n \in DOMAIN old.page
        BY <2>1, <1>6, <3>1
      <3> HIDE DEF old
      <3>4. EntryFollows(w, n)
        BY <1>1, <3>1, <3>2, <3>3 DEF PageFits, EntryFollows
      <3> QED BY <1>1, <1>2, <3>1, <3>2, <3>3, <3>4 DEF PageFits
    <2>2. CASE n = Len(me.page) + 1
      <3>1. w.page[n] = w.it
        BY <2>2, <1>6
      <3>2. EntryFollows(w, n)
        <4>1. w.it.pos = w.start.read + n
          BY <1>1, <1>4, <1>5, <2>2
        <4>2. w.start # NewListing => w.it.stream = w.start.listing
          BY <1>1, <1>4
        <4> QED BY <3>1, <4>1, <4>2, <1>4 DEF EntryFollows, CookieNames
      <3>3. w.it.stream < cookie_counter'
        BY <1>2, <1>4 DEF IInv, StreamsExist
      <3>4. \A u \in Others(t) : Yielded(w.it, task[u].it)
        BY <1>4 DEF IInv, StreamOwnedOnce, Others, Yielded
      <3>5. Yielded(w.it, w.it)
        BY <1>4 DEF Yielded
      <3>6. \A i \in cache' : Yielded(w.it, i.it)
        BY <1>2, <1>4 DEF IInv, StreamOwnedOnce, Yielded
      <3>7. ASSUME NEW u \in Tasks \ {t}, NEW m \in DOMAIN task[u].page
            PROVE  Apart(w.it, task[u].page[m])
        <4>1. Yielded(task[u].page[m], me.it)
          BY <1>4 DEF IInv, PagesBehind
        <4>2. task[u].page[m].pos \in Nat
          BY PageEntries DEF IInv, TypeOK
        <4> QED BY <1>4, <4>1, <4>2 DEF Yielded, Apart
      <3> QED BY <3>1, <3>2, <3>3, <3>4, <3>5, <3>6, <3>7
    <2> QED BY <1>5, <1>6, <2>1, <2>2
  <1>9. CacheFits(t)
    BY <1>2, <1>3, SmallerCacheFits
  <1> QED BY <1>1, <1>2, <1>3, <1>7, <1>8, <1>9, TaskStep

LEMMA FullKeeps ==
    ASSUME IInv, NEW t \in Tasks, PageFull(t)
    PROVE  IInv'
  <1>1. PICK w :
            /\ Becomes(t, w)
            /\ w.pc = "dropping" /\ w.start = task[t].start
            /\ w.it = Advance(task[t].it) /\ w.page = task[t].page
    BY FullEffect DEF IInv
  <1>2. /\ cookie_counter' = cookie_counter /\ cache' = cache /\ clock' = clock
        /\ cleaner' = cleaner /\ task[t].pc = "reading"
    BY DEF PageFull
  <1>3. CounterGrows
    BY <1>2 DEF CounterGrows, IInv, TypeOK
  <1>4. /\ t \in Holders /\ task[t].it.pos \in Nat
        /\ w.it \in MirrorFsIterator /\ w.it.stream = task[t].it.stream
        /\ w.it.pos = task[t].it.pos + 1 /\ CookieNames(w.it)
    BY <1>1, <1>2, ReadingFacts
  <1>5. ReadingInStep(w)
    BY <1>1 DEF ReadingInStep
  <1>6. IteratorFits(t, w)
    BY <1>2, <1>4, <1>5, MovedIteratorFits
  <1>7. PageFits(t, w)
    BY <1>1, <1>2, <1>4, OldPageFits
  <1>8. CacheFits(t)
    BY <1>2, <1>3, SmallerCacheFits
  <1> QED BY <1>1, <1>2, <1>3, <1>6, <1>7, <1>8, TaskStep

LEMMA EndKeeps ==
    ASSUME IInv, NEW t \in Tasks, EndOfStream(t)
    PROVE  IInv'
  <1>1. PICK w :
            /\ Becomes(t, w)
            /\ w.pc = "idle" /\ w.start = task[t].start /\ w.page = task[t].page
    BY EndEffect DEF IInv
  <1>2. /\ cookie_counter' = cookie_counter /\ cache' = cache /\ clock' = clock
        /\ cleaner' = cleaner /\ task[t].pc = "reading"
    BY DEF EndOfStream
  <1>3. CounterGrows
    BY <1>2 DEF CounterGrows, IInv, TypeOK
  <1>4. t \in Holders
    BY <1>2, ReadingFacts
  <1>5. IteratorFits(t, w)
    BY <1>1 DEF IteratorFits
  <1>6. PageFits(t, w)
    BY <1>1, <1>2, <1>4, OldPageFits
  <1>7. CacheFits(t)
    BY <1>2, <1>3, SmallerCacheFits
  <1> QED BY <1>1, <1>2, <1>3, <1>5, <1>6, <1>7, TaskStep

LEMMA ErrorKeeps ==
    ASSUME IInv, NEW t \in Tasks, ReadError(t)
    PROVE  IInv'
  <1>1. PICK w :
            /\ Becomes(t, w)
            /\ w.pc = "dropping" /\ w.it = task[t].it /\ w.page = <<>>
    BY ErrorEffect DEF IInv
  <1>2. /\ cookie_counter' = cookie_counter /\ cache' = cache /\ clock' = clock
        /\ cleaner' = cleaner /\ task[t].pc = "reading"
    BY DEF ReadError
  <1>3. CounterGrows
    BY <1>2 DEF CounterGrows, IInv, TypeOK
  <1>4. t \in Holders /\ task[t].it.pos \in Nat /\ w.it \in MirrorFsIterator /\ CookieNames(w.it)
    BY <1>1, <1>2, ReadingFacts
  <1>5. ReadingInStep(w)
    BY <1>1 DEF ReadingInStep
  <1>6. IteratorFits(t, w)
    BY <1>1, <1>2, <1>4, <1>5, MovedIteratorFits
  <1>7. PageFits(t, w)
    BY <1>1, EmptyPageFits
  <1>8. CacheFits(t)
    BY <1>2, <1>3, SmallerCacheFits
  <1> QED BY <1>1, <1>2, <1>3, <1>6, <1>7, <1>8, TaskStep

LEMMA CacheKeeps ==
    ASSUME IInv, NEW t \in Tasks, CacheStream(t)
    PROVE  IInv'
  <1>1. PICK w, info :
            /\ Becomes(t, w)
            /\ w.pc = "idle" /\ w.start = task[t].start /\ w.page = task[t].page
            /\ info \in CachedIteratorInfo /\ info.it = task[t].it
            /\ cache' \subseteq cache \cup {info}
    BY CacheEffect DEF IInv
  <1>2. /\ cookie_counter' = cookie_counter /\ clock' = clock
        /\ cleaner' = cleaner /\ task[t].pc = "dropping"
    BY DEF CacheStream
  <1>3. CounterGrows
    BY <1>2 DEF CounterGrows, IInv, TypeOK
  <1>4. t \in Holders /\ CookieNames(info.it)
    BY <1>1, <1>2, ReadingFacts
  <1>5. IteratorFits(t, w)
    BY <1>1 DEF IteratorFits
  <1>6. PageFits(t, w)
    <2> SUFFICES ASSUME NEW n \in DOMAIN w.page
                 PROVE  /\ EntryFollows(w, n)
                        /\ w.page[n].stream < cookie_counter'
                        /\ \A u \in Others(t) : Yielded(w.page[n], task[u].it)
                        /\ \A i \in cache' : Yielded(w.page[n], i.it)
                        /\ \A u \in Tasks \ {t} : \A m \in DOMAIN task[u].page :
                              Apart(w.page[n], task[u].page[m])
      BY <1>1 DEF PageFits
    <2>1. EntryFollows(w, n)
      BY <1>1 DEF IInv, PageFollowsCookie, EntryFollows
    <2>2. w.page[n].stream < cookie_counter'
      BY <1>1, <1>2 DEF IInv, StreamsExist
    <2>3. \A u \in Holders : Yielded(w.page[n], task[u].it)
      BY <1>1 DEF IInv, PagesBehind
    <2>4. \A i \in cache' : Yielded(w.page[n], i.it)
      BY <1>1, <1>4, <2>3 DEF IInv, PagesBehind
    <2>5. \A u \in Tasks \ {t} : \A m \in DOMAIN task[u].page :
              Apart(w.page[n], task[u].page[m])
      BY <1>1 DEF IInv, PagesDisjoint, Apart
    <2> QED BY <2>1, <2>2, <2>3, <2>4, <2>5 DEF Others
  <1>7. CacheFits(t)
    <2>1. cache' \subseteq CachedIteratorInfo
      BY <1>1 DEF IInv, TypeOK
    <2>2. \A i \in cache' : CookieNames(i.it) /\ i.it.stream < cookie_counter'
      BY <1>1, <1>2, <1>4 DEF IInv, CookiesFit, StreamsExist
    <2>3. \A i \in cache' : \A u \in Others(t) : task[u].it.stream # i.it.stream
      BY <1>1, <1>4 DEF IInv, StreamOwnedOnce, Others
    <2>4. \A i \in cache' : \A u \in Tasks \ {t} : \A n \in DOMAIN task[u].page :
            Yielded(task[u].page[n], i.it)
      BY <1>1, <1>4 DEF IInv, PagesBehind
    <2>5. \A i, j \in cache' : i # j => i.it.stream # j.it.stream
      BY <1>1, <1>4 DEF IInv, StreamOwnedOnce
    <2> QED BY <2>1, <2>2, <2>3, <2>4, <2>5 DEF CacheFits
  <1> QED BY <1>1, <1>2, <1>3, <1>5, <1>6, <1>7, TaskStep

\* Steps that leave the tasks alone and may only take streams away.
LEMMA IdleStepKeeps ==
    ASSUME IInv, cache' \subseteq cache, task' = task, cookie_counter' = cookie_counter,
           clock' \in Nat, cleaner' \in [pc : {"waiting", "cleaning"}, now : Nat]
    PROVE  IInv'
  <1>1. Holders' = Holders
    BY DEF Holders
  <1>2. TypeOK' /\ StreamOwnedOnce'
    BY <1>1 DEF IInv, TypeOK, StreamOwnedOnce
  <1>3. CookiesFit' /\ StreamsExist'
    BY <1>1 DEF IInv, CookiesFit, StreamsExist
  <1>4. PageFollowsCookie' /\ PagesDisjoint'
    BY DEF IInv, PageFollowsCookie, PagesDisjoint
  <1>5. PagesBehind'
    BY <1>1 DEF IInv, PagesBehind
  <1> QED BY <1>2, <1>3, <1>4, <1>5 DEF IInv

\* Every step keeps the invariant.
LEMMA NextKeeps ==
    ASSUME IInv, [Next]_vars
    PROVE  IInv'
  <1>1. ASSUME NEW t \in Tasks,
               OpenListing(t) \/ ResumeListing(t) \/ RefuseCookie(t) \/ Serve(t)
        PROVE  IInv'
    BY <1>1, OpenKeeps, ResumeKeeps, RefuseKeeps, PushKeeps, FullKeeps, EndKeeps,
       ErrorKeeps, CacheKeeps DEF Serve
  <1>2. CASE Tick
    BY <1>2, IdleStepKeeps DEF Tick, IInv, TypeOK
  <1>3. CASE WakeCleaner
    BY <1>3, IdleStepKeeps DEF WakeCleaner, IInv, TypeOK
  <1>4. CASE CleanUp
    BY <1>4, IdleStepKeeps DEF CleanUp, cleanup, IInv, TypeOK
  <1>5. CASE UNCHANGED vars
    BY <1>5, IdleStepKeeps DEF vars, IInv, TypeOK
  <1> QED BY <1>1, <1>2, <1>3, <1>4, <1>5 DEF Next

\* No iterator exists at the start.
LEMMA InitHolds == Init => IInv
  <1> SUFFICES ASSUME Init PROVE IInv
    OBVIOUS
  <1>1. \A t \in Tasks :
            /\ task[t] \in Task
            /\ task[t].pc = "idle" /\ task[t].it = None /\ task[t].page = <<>>
    <2> SUFFICES ASSUME NEW t \in Tasks
                 PROVE  /\ task[t] \in Task
                        /\ task[t].pc = "idle" /\ task[t].it = None /\ task[t].page = <<>>
      OBVIOUS
    <2>1. PICK d \in Dirs : task[t] = Answer(d, NewListing, "OK", <<>>, FALSE)
      BY DEF Init
    <2>2. task[t] \in Task
      BY <2>1, AnswerType, CookieNewListing, EmptyPage DEF Stat
    <2> QED BY <2>1, <2>2 DEF Answer
  <1>2. Holders = {}
    BY <1>1 DEF Holders
  <1>3. \A t \in Tasks : DOMAIN task[t].page = {}
    BY <1>1
  <1>4. task \in [Tasks -> Task]
    BY <1>1 DEF Init
  <1>5. TypeOK
    BY <1>1, <1>2, <1>4 DEF Init, TypeOK
  <1> QED BY <1>2, <1>3, <1>5 DEF Init, IInv, StreamOwnedOnce, CookiesFit, StreamsExist,
          PageFollowsCookie, PagesBehind, PagesDisjoint

\* The inductive invariant holds in every state of every behaviour.
LEMMA Invariance == Spec => []IInv
  BY InitHolds, NextKeeps, PTL DEF Spec

-----------------------------------------------------------------------------
\* Tasks, cache and cleaner keep their types in every run of the listings
\* (nfsproc3_readdir, MirrorFsIterator, IteratorCache).
THEOREM ListingsTypeCorrect == Spec => []TypeOK
  <1>1. IInv => TypeOK
    BY DEF IInv
  <1> QED BY <1>1, Invariance, PTL

\* Whatever requests are sent and retransmitted, an open directory stream is
\* read by one task at most, or waits once in the cache (pop_state, drop).
THEOREM StreamsHaveOneOwner == Spec => []StreamOwnedOnce
  <1>1. IInv => StreamOwnedOnce
    BY DEF IInv
  <1> QED BY <1>1, Invariance, PTL

\* A page holds exactly the entries that follow its request's cookie, in the
\* stream the cookie belongs to (next_entry_common, get_or_create_iterator).
THEOREM PagesFollowCookies == Spec => []PageFollowsCookie
  <1>1. IInv => PageFollowsCookie
    BY DEF IInv
  <1> QED BY <1>1, Invariance, PTL

\* The pages of two tasks never hold the same entry of a listing.
THEOREM PagesNeverOverlap == Spec => []PagesDisjoint
  <1>1. IInv => PagesDisjoint
    BY DEF IInv
  <1> QED BY <1>1, Invariance, PTL

-----------------------------------------------------------------------------
(* The limit of the cache.                                                 *)

Limited(c) == IsFiniteSet(c) /\ \A d \in Dirs : Cardinality(CachedFor(c, d)) <= MaxCachedPerDir

\* Taking streams away keeps the limit.
LEMMA SmallerIsLimited ==
    ASSUME NEW c, Limited(c), NEW k \in SUBSET c
    PROVE  Limited(k)
  <1>1. IsFiniteSet(c) /\ IsFiniteSet(k)
    BY FS_Subset DEF Limited
  <1>2. ASSUME NEW d \in Dirs
        PROVE  Cardinality(CachedFor(k, d)) <= MaxCachedPerDir
    <2>1. CachedFor(c, d) \in SUBSET c /\ CachedFor(k, d) \in SUBSET CachedFor(c, d)
      BY DEF CachedFor
    <2>2. IsFiniteSet(CachedFor(c, d))
      BY <1>1, <2>1, FS_Subset
    <2>3. IsFiniteSet(CachedFor(k, d))
          /\ Cardinality(CachedFor(k, d)) <= Cardinality(CachedFor(c, d))
      BY <2>1, <2>2, FS_Subset
    <2>4. Cardinality(CachedFor(k, d)) \in Nat /\ Cardinality(CachedFor(c, d)) \in Nat
      BY <2>2, <2>3, FS_CardinalityType
    <2>5. Cardinality(CachedFor(c, d)) <= MaxCachedPerDir
      BY DEF Limited
    <2> QED BY <2>3, <2>4, <2>5, ReadDirAssumption
  <1> QED BY <1>1, <1>2 DEF Limited

\* Adding a stream and trimming its directory restores the limit, and leaves
\* the other directories alone.
LEMMA CacheStateIsLimited ==
    ASSUME NEW c, Limited(c), NEW info, NEW k \in cache_state(c, info)
    PROVE  Limited(k)
  <1> DEFINE all == c \cup {info}
             mine == CachedFor(all, info.dir)
  <1>1. IsFiniteSet(all)
    BY FS_AddElement DEF Limited
  <1>2. k \in SUBSET all /\ IsFiniteSet(k)
    BY <1>1, CacheStateSubset, FS_Subset
  <1>3. /\ Cardinality(CachedFor(k, info.dir)) <= MaxCachedPerDir
        /\ \A d \in Dirs \ {info.dir} : CachedFor(k, d) = CachedFor(c, d)
    <2>1. CASE Cardinality(mine) <= MaxCachedPerDir
      <3>1. k = all
        BY <2>1 DEF cache_state, trim_cache_for_dir
      <3> QED BY <2>1, <3>1 DEF CachedFor
    <2>2. CASE ~(Cardinality(mine) <= MaxCachedPerDir)
      <3>1. PICK g \in SUBSET mine : Cardinality(mine \ g) = MaxCachedPerDir /\ k = all \ g
        BY <2>2 DEF cache_state, trim_cache_for_dir
      <3>2. CachedFor(k, info.dir) = mine \ g
        BY <3>1 DEF CachedFor
      <3>3. \A d \in Dirs \ {info.dir} : CachedFor(k, d) = CachedFor(c, d)
        BY <3>1 DEF CachedFor
      <3> QED BY <3>1, <3>2, <3>3, ReadDirAssumption
    <2> QED BY <2>1, <2>2
  <1> QED BY <1>2, <1>3 DEF Limited

\* An empty cache is within the limit.
LEMMA EmptyIsLimited == Limited({})
  <1>1. \A d \in Dirs : CachedFor({}, d) = {}
    BY DEF CachedFor
  <1> QED BY <1>1, FS_EmptySet, ReadDirAssumption DEF Limited

\* Only cache_state adds to the cache, and it trims.
LEMMA NextKeepsLimit ==
    ASSUME Limited(cache), [Next]_vars
    PROVE  Limited(cache)'
  <1> SUFFICES Limited(cache')
    BY DEF Limited, CachedFor
  <1>1. \/ cache' \subseteq cache
        \/ \E info : cache' \in cache_state(cache, info)
    BY DEF Next, Serve, vars, OpenListing, ResumeListing, RefuseCookie, PushEntry, PageFull,
       EndOfStream, ReadError, CacheStream, Tick, WakeCleaner, CleanUp, cleanup, pop_state
  <1> QED BY <1>1, SmallerIsLimited, CacheStateIsLimited

\* The limit holds in every state of every behaviour.
LEMMA LimitInvariance == Spec => []Limited(cache)
  <1>1. Init => Limited(cache)
    BY EmptyIsLimited DEF Init
  <1>2. Limited(cache) /\ [Next]_vars => Limited(cache)'
    BY NextKeepsLimit
  <1> QED BY <1>1, <1>2, PTL DEF Spec

\* The cache never holds more than max_cached_per_dir streams of a directory
\* (trim_cache_for_dir), whatever instants the tasks read.
THEOREM CacheStaysBounded == Spec => []CacheBounded
  <1>1. Limited(cache) => CacheBounded
    BY DEF Limited, CacheBounded
  <1> QED BY <1>1, LimitInvariance, PTL

-----------------------------------------------------------------------------
(* How long a stream is kept.                                              *)

\* What KeptForRetention asks of a step.
Allowed(i) ==
    \/ \E t \in Tasks : task'[t].start = i.it.cookie /\ task'[t].it = i.it
    \/ Cardinality(CachedFor(cache', i.dir)) = MaxCachedPerDir
    \/ clock - i.cached_at > RetentionPeriod

\* The cleaner works with an instant that has passed.
CleanerBehind == cleaner.now <= clock

\* Trimming takes streams only from the directory it leaves full.
LEMMA TrimmedToLimit ==
    ASSUME NEW c, NEW info, NEW k \in cache_state(c, info), NEW i \in c \ k
    PROVE  Cardinality(CachedFor(k, i.dir)) = MaxCachedPerDir
  <1> DEFINE all == c \cup {info}
             mine == CachedFor(all, info.dir)
  <1>1. ~(Cardinality(mine) <= MaxCachedPerDir)
    BY DEF cache_state, trim_cache_for_dir
  <1>2. PICK g \in SUBSET mine : Cardinality(mine \ g) = MaxCachedPerDir /\ k = all \ g
    BY <1>1 DEF cache_state, trim_cache_for_dir
  <1>3. i.dir = info.dir
    BY <1>2 DEF CachedFor
  <1>4. CachedFor(k, info.dir) = mine \ g
    BY <1>2 DEF CachedFor
  <1> QED BY <1>2, <1>3, <1>4

\* A stream leaves the cache by a resume, by trimming or by the cleaner.
LEMMA StepKeepsStreams ==
    ASSUME TypeOK, CleanerBehind, Next, NEW i \in cache \ cache'
    PROVE  Allowed(i)
  <1>1. ASSUME NEW t \in Tasks, ResumeListing(t)
        PROVE  Allowed(i)
    <2>1. PICK w, info :
            /\ Becomes(t, w)
            /\ info \in cache /\ cache' = cache \ {info}
            /\ w.it = info.it /\ w.start = w.it.cookie
      BY <1>1, ResumeEffect
    <2>2. i = info /\ task'[t] = w
      BY <2>1 DEF Becomes
    <2> QED BY <2>1, <2>2 DEF Allowed
  <1>2. ASSUME NEW t \in Tasks, CacheStream(t)
        PROVE  Allowed(i)
    <2>1. PICK info : cache' \in cache_state(cache, info)
      BY <1>2 DEF CacheStream
    <2> QED BY <2>1, TrimmedToLimit DEF Allowed
  <1>3. CASE CleanUp
    <2>1. ~(Age(cleaner.now, i) <= RetentionPeriod)
      BY <1>3 DEF CleanUp, cleanup
    <2>2. i.cached_at \in Nat /\ cleaner.now \in Nat /\ clock \in Nat
      BY DEF TypeOK, CachedIteratorInfo
    <2>3. clock - i.cached_at > RetentionPeriod
      BY <2>1, <2>2, ReadDirAssumption DEF Age, CleanerBehind
    <2> QED BY <2>3 DEF Allowed
  <1>4. CASE cache' = cache
    BY <1>4
  <1> QED BY <1>1, <1>2, <1>3, <1>4 DEF Next, Serve, OpenListing, RefuseCookie, PushEntry,
        PageFull, EndOfStream, ReadError, Tick, WakeCleaner

\* The instant the cleaner has read stays in the past.
LEMMA CleanerStaysBehind ==
    ASSUME TypeOK, CleanerBehind, [Next]_vars
    PROVE  CleanerBehind'
  <1>1. clock \in Nat /\ cleaner.now \in Nat
    BY DEF TypeOK
  <1>2. CASE Tick
    BY <1>1, <1>2 DEF Tick, CleanerBehind
  <1>3. CASE WakeCleaner
    BY <1>1, <1>3 DEF WakeCleaner, CleanerBehind
  <1>4. CASE CleanUp
    BY <1>1, <1>4 DEF CleanUp, CleanerBehind
  <1>5. CASE UNCHANGED <<clock, cleaner>>
    BY <1>5 DEF CleanerBehind
  <1> QED BY <1>2, <1>3, <1>4, <1>5 DEF Next, vars, Serve, OpenListing, ResumeListing,
        RefuseCookie, PushEntry, PageFull, EndOfStream, ReadError, CacheStream

\* A stream is closed or given away only for a reason: a request asked for it,
\* trimming left its directory full, or its time was over (pop_state,
\* trim_cache_for_dir, cleanup).
THEOREM RetentionIsKept == Spec => KeptForRetention
  <1>1. Init => CleanerBehind
    BY DEF Init, CleanerBehind
  <1>2. TypeOK /\ CleanerBehind /\ [Next]_vars => CleanerBehind'
    BY CleanerStaysBehind
  <1>3. TypeOK /\ CleanerBehind /\ [Next]_vars
            => [\A i \in cache \ cache' : Allowed(i)]_vars
    BY StepKeepsStreams
  <1>4. [\A i \in cache \ cache' : Allowed(i)]_vars
            <=> [\A i \in cache \ cache' :
                    \/ \E t \in Tasks : task'[t].start = i.it.cookie /\ task'[t].it = i.it
                    \/ Cardinality(CachedFor(cache', i.dir)) = MaxCachedPerDir
                    \/ clock - i.cached_at > RetentionPeriod]_vars
    BY DEF Allowed
  <1> QED BY <1>1, <1>2, <1>3, <1>4, ListingsTypeCorrect, PTL
          DEF Spec, KeptForRetention

=============================================================================
