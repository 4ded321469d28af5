---------------------------- MODULE MemReadDir ----------------------------
(***************************************************************************)
(* Listing one directory of MemFs through READDIR or READDIRPLUS while     *)
(* other handlers change it: MemFs::make_iter, MemFsIterator and the parts *)
(* of nfsproc3_readdir and nfsproc3_readdirplus that the mirror server     *)
(* does not exercise (the cookie verifier).                                *)
(*                                                                         *)
(* The cookie of an entry is its file id.  A handler takes the lock of     *)
(* MemFs once for the attributes, once for the ids and once for each       *)
(* entry.  The content of a directory is a HashSet: its iteration order is *)
(* any order, removing an entry keeps it, and inserting one keeps it as    *)
(* long as the table does not grow.                                        *)
(***************************************************************************)
EXTENDS Integers, Sequences, SequencesExt, FiniteSets

CONSTANTS
    Ids,        \* file ids of the entries
    Mtimes,     \* modification times a client may give a directory; 0 is the epoch
    MaxRoom,    \* bound: entries that fit a page
    MaxChanges, \* bound: changes the other clients make during a listing
    Capacity    \* entries the first table of a HashSet holds (3 in hashbrown)

ASSUME MemReadDirAssumption ==
    /\ Ids \subseteq Nat \ {0} /\ IsFiniteSet(Ids) /\ Mtimes \subseteq Nat
    /\ MaxRoom \in Nat \ {0} /\ MaxChanges \in Nat /\ Capacity \in Nat \ {0}

VARIABLES
    dir,        \* the directory: exists, content (in iteration order), capacity, mtime
    fs,         \* the entries MemFs holds, in this directory or elsewhere
    unborn,     \* ids that have not been given out
    changes,    \* changes made by others
    listing     \* a client and the handler of its call

vars == <<dir, fs, unborn, changes, listing>>

\* CookieVerfExt: the verifier made of a directory's mtime.
NONE_COOKIE_VERF == 0
SOME_COOKIE_VERF == -1
FromAttr(attr) == IF attr = {} THEN SOME_COOKIE_VERF ELSE CHOOSE t \in attr : TRUE

Procs == {"READDIR", "READDIRPLUS"}
Orders(S) == Injection(1..Cardinality(S), S)
SomeOrders == UNION {Orders(S) : S \in SUBSET Ids}

\* What s and t have in common is in the same order in both.
SameOrder(s, t) ==
    \A i, j \in DOMAIN s, k, l \in DOMAIN t :
        s[i] = t[k] /\ s[j] = t[l] /\ i < j => k < l

\* room: the entries that fit the reply, -1 if not even an empty list does.
\* dirversion: the verifier computed for this call.  todo, page: the iterator
\* and the reply.  listed: the entries the client has, over all pages.
\* History of a listing: stay, the entries that never left the directory since
\* it began; moved, the table was rehashed or an entry the listing has met left and
\* came back; touched, the mtime was set.
Listing ==
    [proc : Procs, pc : {"client", "getattr", "make_iter", "next", "over"},
     cookie : Ids \cup {0}, cookieverf : Mtimes \cup {0, -1}, room : -1..MaxRoom,
     dirversion : Mtimes \cup {0, -1}, todo : SomeOrders, page : SomeOrders,
     listed : Seq(Ids), stat : {"OK", "TOOSMALL", "BAD_COOKIE", "NOENT"},
     stay : SUBSET Ids, moved : BOOLEAN, touched : BOOLEAN]

\* A directory lists only objects that exist, each once, within its capacity.
TypeOK ==
    /\ dir.exists \in BOOLEAN /\ dir.content \in SomeOrders /\ dir.mtime \in Mtimes
    /\ Len(dir.content) <= dir.capacity
    /\ fs \subseteq Ids /\ ToSet(dir.content) \subseteq fs
    /\ unborn \subseteq Ids /\ unborn \cap fs = {}
    /\ changes \in 0..MaxChanges
    /\ listing \in Listing

NewListing(proc, content) ==
    [proc |-> proc, pc |-> "client", cookie |-> 0, cookieverf |-> NONE_COOKIE_VERF, room |-> 0,
     dirversion |-> 0, todo |-> <<>>, page |-> <<>>, listed |-> <<>>, stat |-> "OK",
     stay |-> ToSet(content), moved |-> FALSE, touched |-> FALSE]

Init ==
    /\ \E s \in SomeOrders, t \in Mtimes, p \in Procs :
        /\ Len(s) <= Capacity
        /\ dir = [exists |-> TRUE, content |-> s, capacity |-> Capacity, mtime |-> t]
        /\ fs = ToSet(s)
        /\ unborn = Ids \ ToSet(s)
        /\ changes = 0
        /\ listing = NewListing(p, s)

-----------------------------------------------------------------------------
(* The other clients, each call atomic under the lock.                     *)

\* HashSet::insert.  What was removed may take up room until the table is
\* rehashed, so that any insertion may rehash it, in place or into a larger one.
InsertIn(id) ==
    /\ dir.exists
    /\ \E s \in Orders(ToSet(dir.content) \cup {id}), rehashed \in BOOLEAN,
          cap \in {dir.capacity, 2 * dir.capacity} :
        /\ Len(s) <= cap
        /\ cap # dir.capacity => rehashed
        /\ rehashed \/ SameOrder(dir.content, s)
        /\ dir' = [dir EXCEPT !.content = s, !.capacity = cap]
        /\ listing' = [listing EXCEPT !.moved =
                @ \/ rehashed \/ id \in ToSet(listing.listed \o listing.page \o listing.todo)]

\* The entry is deleted from the map of entries only.
RemoveFrom_Listed(id) ==
    /\ UNCHANGED dir
    /\ listing' = [listing EXCEPT !.stay = @ \ {id}]

RemoveFrom(id) ==
    /\ \E s \in Orders(ToSet(dir.content) \ {id}) :
        /\ SameOrder(dir.content, s)
        /\ dir' = [dir EXCEPT !.content = s]
    /\ listing' = [listing EXCEPT !.stay = @ \ {id}]

Create(id) ==
    /\ id \in unborn
    /\ InsertIn(id)
    /\ fs' = fs \cup {id} /\ unborn' = unborn \ {id}

RemoveEntry(id) ==
    /\ id \in ToSet(dir.content)
    /\ RemoveFrom(id)
    /\ fs' = fs \ {id} /\ UNCHANGED unborn

\* RENAME out of the directory or into it: the object keeps its id.
RenameOut(id) ==
    /\ id \in ToSet(dir.content)
    /\ RemoveFrom(id)
    /\ UNCHANGED <<fs, unborn>>

RenameIn(id) ==
    /\ id \in fs \ ToSet(dir.content)
    /\ InsertIn(id)
    /\ UNCHANGED <<fs, unborn>>

\* SETATTR of the directory.  MemFs itself never changes a directory's mtime.
SetMtime(t) ==
    /\ dir.exists /\ t # dir.mtime
    /\ dir' = [dir EXCEPT !.mtime = t]
    /\ listing' = [listing EXCEPT !.touched = TRUE]
    /\ UNCHANGED <<fs, unborn>>

RemoveDir ==
    /\ dir.exists /\ dir.content = <<>>
    /\ dir' = [dir EXCEPT !.exists = FALSE]
    /\ UNCHANGED <<fs, unborn, listing>>

Others ==
    /\ changes < MaxChanges
    /\ changes' = changes + 1
    /\ \/ \E id \in Ids : Create(id) \/ RemoveEntry(id) \/ RenameOut(id) \/ RenameIn(id)
       \/ \E t \in Mtimes : SetMtime(t)
       \/ RemoveDir

-----------------------------------------------------------------------------
(* The client and the handler of its call.                                 *)

ServerVars == <<dir, fs, unborn, changes>>

\* The next call of a listing.
Call(room) ==
    /\ listing.pc = "client"
    /\ listing' = [listing EXCEPT !.pc = "getattr", !.room = room]
    /\ UNCHANGED ServerVars

GetAttr ==
    /\ listing.pc = "getattr"
    /\ listing' = [listing EXCEPT !.pc = "make_iter",
                        !.dirversion = FromAttr(IF dir.exists THEN {dir.mtime} ELSE {})]
    /\ UNCHANGED ServerVars

\* What a call is refused for before the file system is asked.  The verifier
\* of READDIRPLUS is not looked at.
Refusal(l) ==
    CASE l.proc = "READDIR" /\ l.cookieverf = NONE_COOKIE_VERF /\ l.cookie # 0 -> "BAD_COOKIE"
      [] l.proc = "READDIR" /\ l.cookieverf \notin {NONE_COOKIE_VERF, l.dirversion} -> "BAD_COOKIE"
      [] l.room < 0 -> "TOOSMALL"
      [] OTHER -> "OK"

\* The page goes to the client, which goes on from its last entry.  A page too
\* small is asked for again.
Reply(l, eof) ==
    IF l.page = <<>> /\ ~eof THEN [l EXCEPT !.pc = "client", !.stat = "TOOSMALL"]
    ELSE [l EXCEPT !.pc = IF eof THEN "over" ELSE "client", !.stat = "OK",
                   !.listed = @ \o l.page, !.page = <<>>, !.todo = <<>>,
                   !.cookie = IF l.page = <<>> THEN @ ELSE Last(l.page),
                   !.cookieverf = l.dirversion]

Fail(l, stat) ==
    [l EXCEPT !.pc = IF stat = "TOOSMALL" THEN "client" ELSE "over", !.stat = stat]

\* The ids from the cookie on, itself included.
IdsAfter_Inclusive(content, cookie) ==
    SubSeq(content, CHOOSE i \in DOMAIN content : content[i] = cookie, Len(content))

IdsAfter(content, cookie) ==
    SubSeq(content, 1 + CHOOSE i \in DOMAIN content : content[i] = cookie, Len(content))

\* The cookie is good only if there is something after it.
KnownCookie_NotLast(content, cookie) == cookie = 0 \/ cookie \in ToSet(Front(<<0>> \o content))

KnownCookie(content, cookie) == cookie = 0 \/ cookie \in ToSet(content)

MakeIter ==
    /\ listing.pc = "make_iter"
    /\ listing' =
        IF Refusal(listing) # "OK" THEN Fail(listing, Refusal(listing))
        ELSE IF ~dir.exists THEN Fail(listing, "NOENT")
        ELSE IF ~KnownCookie(dir.content, listing.cookie) THEN Fail(listing, "BAD_COOKIE")
        ELSE [listing EXCEPT !.pc = "next", !.page = <<>>,
                !.todo = IF listing.cookie = 0 THEN dir.content
                         ELSE IdsAfter(dir.content, listing.cookie)]
    /\ UNCHANGED ServerVars

\* visit_next_entry and the loop of the handler: an id that MemFs no longer has
\* is skipped, one that does not fit ends the page.
NextEntry ==
    /\ listing.pc = "next"
    /\ listing' =
        IF listing.todo = <<>> THEN Reply(listing, TRUE)
        ELSE IF Head(listing.todo) \notin fs THEN [listing EXCEPT !.todo = Tail(@)]
        ELSE IF Len(listing.page) = listing.room
             THEN [Reply(listing, FALSE) EXCEPT !.todo = <<>>]
        ELSE [listing EXCEPT !.page = Append(@, Head(listing.todo)), !.todo = Tail(@)]
    /\ UNCHANGED ServerVars

Next ==
    \/ Others
    \/ \E room \in -1..MaxRoom : Call(room)
    \/ GetAttr \/ MakeIter \/ NextEntry

Spec == Init /\ [][Next]_vars

-----------------------------------------------------------------------------
\* A listing that reached the end of the directory has every entry that was in
\* it all the time, once, although others came and went between its pages and
\* between the entries of a page; unless the directory's HashSet was rehashed
\* or an entry the listing had met left and came back.
Occurrences(id) == {i \in DOMAIN listing.listed : listing.listed[i] = id}

ListedOnce ==
    (listing.pc = "over" /\ listing.stat = "OK" /\ ~listing.moved) =>
        \A id \in listing.stay : Cardinality(Occurrences(id)) = 1

\* A client that goes on with the cookie and the verifier it was given is told
\* BAD_COOKIE only if the entry of its cookie has left the directory or, by
\* READDIR, the mtime was set or is the epoch, whose verifier means "none".
BadCookieOnlyIfStale ==
    listing.stat = "BAD_COOKIE" =>
        \/ listing.cookie \notin listing.stay
        \/ listing.proc = "READDIR" /\ (listing.touched \/ listing.cookieverf = NONE_COOKIE_VERF)
============================================================================
