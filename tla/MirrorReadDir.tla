--------------------------- MODULE MirrorReadDir ---------------------------
(***************************************************************************)
(* Directory listings of the mirror file system.  The READDIR and          *)
(* READDIRPLUS handlers (nfs_handlers.rs) read an iterator entry by entry  *)
(* until an entry does not fit the page.  The iterator (mirror/iterator.rs)*)
(* owns an open directory stream of the host.  When it is dropped before   *)
(* the end, the stream goes into a cache (mirror/iterator_cache.rs) under  *)
(* the iterator's cookie, where a request with that cookie finds it.  A    *)
(* cleaner task closes streams that nobody came back for.                  *)
(*                                                                         *)
(* A cookie is a u64, the number of the listing in the upper half and the  *)
(* number of entries read in the lower one; [0, 0] asks for a new listing. *)
(* Neither half overflows below 2^32 listings and entries.  A stream is    *)
(* known by the listing it was opened for, an entry by its place in the    *)
(* stream.  The host decides when a stream ends, so a directory may change *)
(* while it is listed.  Requests that are refused before the iterator is   *)
(* made (handle, verifier, room for an empty reply) change nothing and are *)
(* left out.                                                               *)
(***************************************************************************)
EXTENDS Naturals, Sequences, FiniteSets

CONSTANTS
    Tasks,              \* tasks that handle requests
    Dirs,               \* directory handles
    None,               \* no iterator
    Rooms,              \* how many entries may fit a page
    MaxCachedPerDir,    \* max_cached_per_dir
    RetentionPeriod,    \* retention_period
    MaxListings,        \* bound on the listings that are started
    MaxEntries,         \* bound on the entries of a directory
    MaxTime,            \* bound on the clock
    LastArrival         \* bound: no request arrives from this instant on

ASSUME ReadDirAssumption ==
    /\ Rooms \subseteq Nat
    /\ MaxCachedPerDir \in Nat
    /\ RetentionPeriod \in Nat
    /\ MaxListings \in Nat
    /\ MaxEntries \in Nat
    /\ MaxTime \in Nat
    /\ LastArrival \in Nat
    /\ None \notin [stream : Nat, pos : Nat, cookie : [listing : Nat, read : Nat]]

VARIABLES
    clock,          \* what Instant::now() returns
    cookie_counter, \* IteratorCache.cookie_counter
    cache,          \* IteratorCache.cache, as one set
    task,           \* the request-handling tasks
    cleaner         \* the IteratorCacheCleaner task

vars == <<clock, cookie_counter, cache, task, cleaner>>

Cookie == [listing : Nat, read : Nat]
NewListing == [listing |-> 0, read |-> 0]

\* MirrorFsIterator with a ReadDir of which pos entries have been read.
MirrorFsIterator == [stream : Nat, pos : Nat, cookie : Cookie]

\* CachedIteratorInfo, with the key of the map it is stored under.
CachedIteratorInfo == [dir : Dirs, it : MirrorFsIterator, cached_at : Nat]

DirEntry == [stream : Nat, pos : Nat, cookie : Cookie]

Stat == {"OK", "BAD_COOKIE", "TOOSMALL", "IO"}

\* A task: the request it serves, the iterator, the page so far and the instant
\* read by drop.  An idle task keeps its last answer.
Task ==
    [pc : {"idle", "reading", "dropping"},
     dir : Dirs, start : Cookie, room : Rooms \cup {0},
     it : MirrorFsIterator \cup {None},
     page : Seq(DirEntry), eof : BOOLEAN, stat : Stat, now : Nat]

\* The request is answered.
Answer(d, c, stat, page, eof) ==
    [pc |-> "idle", dir |-> d, start |-> c, room |-> 0, it |-> None,
     page |-> page, eof |-> eof, stat |-> stat, now |-> 0]

\* The handler's loop, with what has been pushed so far.
Reading(d, c, room, it, page) ==
    [pc |-> "reading", dir |-> d, start |-> c, room |-> room, it |-> it,
     page |-> page, eof |-> FALSE, stat |-> "OK", now |-> 0]

\* The loop is left, the result is known, and drop has read the clock.
Dropping(d, c, stat, page, it) ==
    [pc |-> "dropping", dir |-> d, start |-> c, room |-> 0, it |-> it,
     page |-> page, eof |-> FALSE, stat |-> stat, now |-> clock]

Init ==
    /\ clock = 0
    /\ cookie_counter = 0
    /\ cache = {}
    /\ task \in [Tasks -> {Answer(d, NewListing, "OK", <<>>, FALSE) : d \in Dirs}]
    /\ cleaner = [pc |-> "waiting", now |-> 0]

-----------------------------------------------------------------------------
(* The iterator cache.                                                     *)

CachedFor(c, d) == {info \in c : info.dir = d}

\* The streams with this cookie, of which pop_state removes one.
Matching(c, d, cookie) == {info \in CachedFor(c, d) : info.it.cookie = cookie}

\* Mutant: the stream stays in the cache while it is read.
pop_state_Peek(c, info) == c

pop_state(c, info) == c \ {info}

\* Mutant: one stream too many.
trim_cache_for_dir_Late(c, d) ==
    IF Cardinality(CachedFor(c, d)) <= MaxCachedPerDir + 1 THEN {c} ELSE {c \ CachedFor(c, d)}

\* What trim_cache_for_dir may leave of c: the streams of d that were cached
\* last.  Among equal instants the order of the vector decides, any here.
trim_cache_for_dir(c, d) ==
    IF Cardinality(CachedFor(c, d)) <= MaxCachedPerDir
    THEN {c}
    ELSE {c \ gone : gone \in
            {g \in SUBSET CachedFor(c, d) :
                /\ Cardinality(CachedFor(c, d) \ g) = MaxCachedPerDir
                /\ \A x \in g, y \in CachedFor(c, d) \ g : x.cached_at <= y.cached_at}}

cache_state(c, info) == trim_cache_for_dir(c \cup {info}, info.dir)

\* Mutants: the difference wraps around; its operands are swapped.
Age_Wrapping(now, info) ==
    IF now < info.cached_at THEN RetentionPeriod + 1 ELSE now - info.cached_at
Age_Swapped(now, info) == IF info.cached_at < now THEN 0 ELSE info.cached_at - now

\* now was read before the lock, so a stream may be younger than it: the
\* difference of two Instants is 0 then.
Age(now, info) == IF now < info.cached_at THEN 0 ELSE now - info.cached_at

cleanup(c, now) == {info \in c : Age(now, info) <= RetentionPeriod}

-----------------------------------------------------------------------------
(* Handlers and iterators.                                                 *)

\* get_or_create_iterator with cookie 0: a new stream, under the next number.
OpenListing(t) ==
    /\ task[t].pc = "idle"
    /\ clock < LastArrival
    /\ cookie_counter < MaxListings
    /\ \E d \in Dirs, room \in Rooms :
        LET it == [stream |-> cookie_counter, pos |-> 0,
                   cookie |-> [listing |-> cookie_counter, read |-> 0]]
        IN  task' = [task EXCEPT ![t] = Reading(d, NewListing, room, it, <<>>)]
    /\ cookie_counter' = cookie_counter + 1
    /\ UNCHANGED <<clock, cache, cleaner>>

\* get_or_create_iterator with the cookie of a stream in the cache.
ResumeListing(t) ==
    /\ task[t].pc = "idle"
    /\ clock < LastArrival
    /\ \E info \in cache, room \in Rooms :
        /\ info.it.cookie # NewListing
        /\ task' = [task EXCEPT ![t] =
                Reading(info.dir, info.it.cookie, room, info.it, <<>>)]
        /\ cache' = pop_state(cache, info)
    /\ UNCHANGED <<clock, cookie_counter, cleaner>>

\* get_or_create_iterator with a cookie that is not in the cache.
RefuseCookie(t) ==
    /\ task[t].pc = "idle"
    /\ clock < LastArrival
    /\ \E d \in Dirs, n \in 0 .. MaxListings, k \in 0 .. MaxEntries :
        LET c == [listing |-> n, read |-> k] IN
        /\ c # NewListing
        /\ Matching(cache, d, c) = {}
        /\ task' = [task EXCEPT ![t] = Answer(d, c, "BAD_COOKIE", <<>>, FALSE)]
    /\ UNCHANGED <<clock, cookie_counter, cache, cleaner>>

\* Mutant: the stream moves on and the cookie does not.
Advance_OldCookie(it) ==
    [stream |-> it.stream, pos |-> it.pos + 1, cookie |-> it.cookie]

\* next_entry_common: the stream moves on and the cookie with it.
Advance(it) ==
    [stream |-> it.stream,
     pos |-> it.pos + 1,
     cookie |-> [listing |-> it.cookie.listing, read |-> it.cookie.read + 1]]

\* try_push accepts the entry.
PushEntry(t) ==
    LET me == task[t]
        next == Advance(me.it)
    IN
    /\ me.pc = "reading"
    /\ me.it.pos < MaxEntries
    /\ Len(me.page) < me.room
    /\ task' = [task EXCEPT ![t] =
            Reading(me.dir, me.start, me.room, next, Append(me.page, next))]
    /\ UNCHANGED <<clock, cookie_counter, cache, cleaner>>

\* Mutant: the cookie stays at the last entry of the page, while the stream is
\* one entry further.
PageFull_OldCookie(t) ==
    LET me == task[t] IN
    /\ me.pc = "reading"
    /\ me.it.pos < MaxEntries
    /\ Len(me.page) = me.room
    /\ task' = [task EXCEPT ![t] =
            Dropping(me.dir, me.start, "OK", me.page, Advance_OldCookie(me.it))]
    /\ UNCHANGED <<clock, cookie_counter, cache, cleaner>>

\* try_push refuses the entry, which has been read: the page ends before it,
\* and the iterator is dropped.
PageFull(t) ==
    LET me == task[t]
        stat == IF me.page = <<>> THEN "TOOSMALL" ELSE "OK"
    IN
    /\ me.pc = "reading"
    /\ me.it.pos < MaxEntries
    /\ Len(me.page) = me.room
    /\ task' = [task EXCEPT ![t] =
            Dropping(me.dir, me.start, stat, me.page, Advance(me.it))]
    /\ UNCHANGED <<clock, cookie_counter, cache, cleaner>>

\* Mutant: the iterator keeps the stream that has ended.
EndOfStream_Kept(t) ==
    /\ task[t].pc = "reading"
    /\ task' = [task EXCEPT ![t].pc = "idle", ![t].eof = TRUE]
    /\ UNCHANGED <<clock, cookie_counter, cache, cleaner>>

\* The stream is at its end and is closed; nothing is left to cache.
EndOfStream(t) ==
    LET me == task[t] IN
    /\ me.pc = "reading"
    /\ task' = [task EXCEPT ![t] = Answer(me.dir, me.start, "OK", me.page, TRUE)]
    /\ UNCHANGED <<clock, cookie_counter, cache, cleaner>>

\* The host fails: the page is lost, the iterator is dropped where it stands.
ReadError(t) ==
    LET me == task[t] IN
    /\ me.pc = "reading"
    /\ task' = [task EXCEPT ![t] = Dropping(me.dir, me.start, "IO", <<>>, me.it)]
    /\ UNCHANGED <<clock, cookie_counter, cache, cleaner>>

\* drop: the stream is cached, then the handler answers.
CacheStream(t) ==
    LET me == task[t] IN
    /\ me.pc = "dropping"
    /\ cache' \in cache_state(cache, [dir |-> me.dir, it |-> me.it, cached_at |-> me.now])
    /\ task' = [task EXCEPT ![t] = Answer(me.dir, me.start, me.stat, me.page, FALSE)]
    /\ UNCHANGED <<clock, cookie_counter, cleaner>>

-----------------------------------------------------------------------------
(* Time and the cleaner.                                                   *)

\* From LastArrival on the clock waits for the requests under way.
Tick ==
    /\ clock < MaxTime
    /\ clock < LastArrival \/ \A t \in Tasks : task[t].pc = "idle"
    /\ clock' = clock + 1
    /\ UNCHANGED <<cookie_counter, cache, task, cleaner>>

\* interval.tick() and Instant::now().
WakeCleaner ==
    /\ cleaner.pc = "waiting"
    /\ cleaner' = [pc |-> "cleaning", now |-> clock]
    /\ UNCHANGED <<clock, cookie_counter, cache, task>>

CleanUp ==
    /\ cleaner.pc = "cleaning"
    /\ cache' = cleanup(cache, cleaner.now)
    /\ cleaner' = [pc |-> "waiting", now |-> 0]
    /\ UNCHANGED <<clock, cookie_counter, task>>

Serve(t) ==
    \/ PushEntry(t)
    \/ PageFull(t)
    \/ EndOfStream(t)
    \/ ReadError(t)
    \/ CacheStream(t)

Next ==
    \/ \E t \in Tasks :
        \/ OpenListing(t)
        \/ ResumeListing(t)
        \/ RefuseCookie(t)
        \/ Serve(t)
    \/ Tick
    \/ WakeCleaner
    \/ CleanUp

Spec == Init /\ [][Next]_vars

\* Tokio polls every ready task, the host answers, and the interval elapses.
Fairness ==
    /\ WF_vars(Tick)
    /\ WF_vars(WakeCleaner)
    /\ WF_vars(CleanUp)
    /\ \A t \in Tasks : WF_vars(Serve(t))

FairSpec == Spec /\ Fairness

-----------------------------------------------------------------------------
(* Properties.                                                             *)

Holders == {t \in Tasks : task[t].pc \in {"reading", "dropping"}}

\* The state is well typed: an iterator is held exactly by the tasks that read
\* or drop it.
TypeOK ==
    /\ clock \in Nat
    /\ cookie_counter \in Nat
    /\ cache \subseteq CachedIteratorInfo
    /\ task \in [Tasks -> Task]
    /\ \A t \in Tasks : task[t].it = None <=> t \notin Holders
    /\ cleaner \in [pc : {"waiting", "cleaning"}, now : Nat]

\* An open directory stream has one owner, a task or one place in the cache:
\* two requests with the same cookie (a retransmission, two clients) never read
\* one stream together (pop_state removes what it finds, drop takes read_dir).
StreamOwnedOnce ==
    /\ \A t, u \in Holders : t # u => task[t].it.stream # task[u].it.stream
    /\ \A t \in Holders, i \in cache : task[t].it.stream # i.it.stream
    /\ \A i, j \in cache : i # j => i.it.stream # j.it.stream

\* A page for cookie (n, k) holds the entries k+1, k+2, ... of listing n and
\* nothing else, each with a cookie that names it: no entry of a listing is
\* skipped or mixed with another listing, however often it was interrupted by
\* full pages and failed reads.
PageFollowsCookie ==
    \A t \in Tasks : \A n \in DOMAIN task[t].page :
        LET e == task[t].page[n]
            s == task[t].start
        IN  /\ s # NewListing => e.stream = s.listing
            /\ e.pos = s.read + n
            /\ e.cookie = [listing |-> e.stream, read |-> e.pos]

\* The pages that tasks answer or are putting together have no entry in common,
\* also when two requests carry the same cookie.
PagesDisjoint ==
    \A t, u \in Tasks : t # u =>
        \A m \in DOMAIN task[t].page, n \in DOMAIN task[u].page :
            \/ task[t].page[m].stream # task[u].page[n].stream
            \/ task[t].page[m].pos # task[u].page[n].pos

\* The cache holds at most max_cached_per_dir open streams of a directory, so
\* abandoned listings cannot use up the descriptors of the process.
CacheBounded ==
    \A d \in Dirs : Cardinality(CachedFor(cache, d)) <= MaxCachedPerDir

\* A stream leaves the cache only to a request with its cookie, or to trimming,
\* which leaves its directory full, or after the retention period; whatever the
\* order in which instants were read and locks taken.
KeptForRetention ==
    [][\A i \in cache \ cache' :
        \/ \E t \in Tasks : task'[t].start = i.it.cookie /\ task'[t].it = i.it
        \/ Cardinality(CachedFor(cache', i.dir)) = MaxCachedPerDir
        \/ clock - i.cached_at > RetentionPeriod]_vars

\* A stream does not stay in the cache for ever: a request comes back for it or
\* the cleaner closes it, also one that no cookie can reach any more.
AbandonedStreamIsClosed ==
    \A n \in 0 .. MaxListings - 1 :
        (\E i \in cache : i.it.stream = n) ~> (\A i \in cache : i.it.stream # n)

\* A page that does not end the listing can be continued from its last entry:
\* the cookie of that entry finds the stream.
LastCookieCanBeResumed ==
    \A t \in Tasks :
        LET me == task[t] IN
        me.pc = "idle" /\ me.page # <<>> /\ ~me.eof
            => Matching(cache, me.dir, me.page[Len(me.page)].cookie) # {}

=============================================================================
