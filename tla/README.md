# TLA+ models of nfs3

This directory specifies and verifies parts of the NFSv3 server and client in
this repository. TLC checks the `MC*.tla` modules with the `.cfg` files of the
same prefix; the TLA+ proof system (tlapm) checks the `*Proofs.tla` modules.
`PROJECT.json` lists the runs, the source lines each definition models, the
hazards the properties are aimed at, and the findings.

    tlc -config MCTransactionTracker.cfg MCTransactionTracker
    tlapm TransactionTrackerProofs.tla

## 1. The system

| Part | Source (`src/crates/...`) | State | Operations |
|---|---|---|---|
| Transaction tracker | `nfs3_server/src/transaction_tracker.rs` | a map from peer address to a table of recent xids, each table behind an `Arc<Mutex>` | `start_transaction`, drop of a `TransactionLock`, `cleanup` every 10 s |
| RPC connection | `nfs3_server/src/{tcp,rpcwire,context}.rs`, `rpcwire/messages.rs` | per socket: a partial message, a 256 KiB pipe, an unbounded reply channel | read fragments, spawn a task per message, write replies |
| NFS handlers | `nfs3_server/src/nfs_handlers.rs`, `nfs_ext.rs` | none of their own; several calls into the file system per request | the NFSv3 procedures |
| Mount and portmap | `nfs3_server/src/{mount,portmap}_handlers.rs` | none; a channel that signals mounts | MNT, UMNT, EXPORT, GETPORT |
| VFS interface | `nfs3_server/src/vfs/` | generation number of the handles | handle encoding, read-only adapter |
| MemFs | `nfs3_server/src/memfs/` | a map from ids to entries behind one `RwLock`, an atomic id counter | lookup, push, remove, rename, read, write, setattr, iteration |
| Mirror file system | `cargo_nfs3_server/src/mirror/` | symbols cache (path to id and back), iterator cache (open directory streams by cookie) | the VFS operations on a host directory, a cleaner every 30 s |
| Client | `nfs3_client/src/` | the xid of the next call | one call at a time: send, receive, match xid; port resolution, privileged ports |
| Types, XDR, macros | `nfs3_types`, `nfs3_macros` | none | encoding and decoding |

How they interact: `handle_forever` accepts connections; each has a task that
moves bytes and replies (`process_socket`) and a task that assembles messages
(`SocketMessageHandler::read`). Every complete message gets a task of its own
(`handle_rpc_message`), which registers with the tracker all connections share,
runs the procedure on the shared file system and queues its reply. Nothing
orders the tasks of a connection, and they are not cancelled when it closes.
File systems guard each call, not each request, with locks.

What is hard, and where properties are needed:

* tracker: the look-up under a read lock and the insertion under a write lock;
  the cleaner against a running request; instants read before the locks; limits
  on the active and on the remembered transactions; the counter of active ones.
* MemFs under concurrent handlers: directories that vanish between two calls of
  one request, ids taken before the lock, a rename that changes four places,
  names "." and "..", duplicate names, a walk to the root under the write lock.
* paging of directories: cookies, cached streams, removal between two pages.
* connection: lost replies, answers out of order, a blocked writer.
* mirror: caches that outlive renames, checks separated from the host operation.

What makes each correct: no request executed twice within the retention period
(tracker); the entries form a tree, and a failed operation changes nothing
(MemFs); a listing by pages shows every entry that stays exactly once (paging);
every call is answered or the connection fails (connection); a handle names one
object (mirror).

## 2. Modules

| Module | Models |
|---|---|
| `ClientTransactions` | `struct ClientTransactions`, a table as a value; every method an operator |
| `TransactionTracker` | the tasks, the shared map, the heap of tables, the cleaner and the listener |
| `DuplicateFilter` | what the tracker promises: an abstract specification |
| `MemFs` | `struct Fs` as a value: lookup, push, remove, rename |
| `NfsHandlers` | CREATE (all three modes), MKDIR, REMOVE/RMDIR, RENAME as tasks on MemFs |
| `MemFiles` | contents and sizes of files in MemFs under READ, WRITE and SETATTR |
| `ByteFile` | what clients are promised of a file: an abstract specification |
| `MemReadDir` | READDIR and READDIRPLUS of MemFs: verifier, cookie, iterator, a directory that changes |
| `MirrorReadDir` | READDIR and READDIRPLUS of the mirror: paging loop, iterator, iterator cache, cleaner |
| `MirrorFs` | the other operations of the mirror over a host directory, and the symbols cache |
| `RpcDispatch` | how one RPC message is checked, dispatched and answered: pure operators |
| `RpcConnection` | client, TCP streams, `process_socket`, message loop, tasks and reply channel, composed |
| `XdrCodec` | `pack`, `unpack` and `packed_size` by the layout of a type, as the derive macros generate them |
| `NfsTypes` | the layout of every type of the RPC, portmap, mount and NFS protocols |
| `NfsWire` | a message on its way, and the page of a READDIR reply being filled |
| `TransactionTrackerProofs` | theorems about the tracker and lemmas about its tables |
| `MemFsProofs`, `NfsHandlersProofs`, `MemFilesProofs`, `MemReadDirProofs` | theorems about the handlers on MemFs |
| `MirrorReadDirProofs`, `MirrorFsProofs` | theorems about the mirror |
| `RpcConnectionProofs` | theorems about the connection |
| `MC*` | symmetry sets, a view (the handlers' run does not tell apart answers already given), requests, hosts and sample values for TLC |

### Transaction tracker

A table is the record of the struct: the deque as a sequence, `last_active`,
`active_transactions`. An `Instant` is a natural number. Loops that pop the
front of the deque become "drop the longest prefix that satisfies ..."
(`PrefixLength`), the binary search becomes its specification, which is what it
computes on a sorted deque; that the deque is sorted is an invariant, not an
assumption.

In `TransactionTracker` an action is a critical section. `Receive` is the spawn
of a task (decoding, the RPC version check and the credentials come before the
tracker and are in `RpcDispatch`); `StartKnown` is `start_transaction` under the
read lock, `StartUnknown` the miss, `StartInserted` and `StartInsert` the second
look under the write lock. `Register` is `add_transaction` with its three
outcomes: a retransmission is dropped without an answer, one request too many is
answered with SYSTEM_ERR, otherwise the task runs under a lock. `Finish` reads
the time and `DropLock` is the drop of the lock. `Cleanup` is one critical
section in the code too. Tables live in a heap of cells, since a lock may refer
to a table that the map has dropped; a cell is free when no `Arc` points to it.
`DropListener` covers the notification that is lost on a cleaner that is not
waiting.

`DuplicateFilter` knows the requests being executed and those remembered, and
says when a request may begin. `ImplementsFilter` maps the locks and the
completed entries of the tables to these two sets.

### Handlers on MemFs

`MemFs` keeps a partial function from ids to entries. A directory is a set of
ids and is searched in an unknown order, so `Lookup` and `RemoveOutcomes` return
the set of possible results; mkdir does not check for an existing name, so this
is not vacuous. `Rename` takes the results of its two lookups and follows the
code step by step, with what each early return has already changed. The walk to
the root is its least fixed point (`Chain`) with the status the loop ends with,
which is the loop as long as it terminates; `NoCycle` says that it does.

A handler is a task. `Call` is its start up to the first `get_wcc_attr`, `StatTo`
the second one of RENAME, `Guard` the lookup of a GUARDED CREATE, `Allocate` the
`fetch_add` on the id counter, and `AddDir`, `AddFile`, `RemoveEntry`,
`RenameEntry` the calls under the write lock together with the answer. The
`getattr` calls after the operation only fill in the reply. File contents are in
`MemFiles`. Names of new objects and of targets are any names; the source of a
RENAME is one of `SourceNames`, which may contain "." and "..", as `lookup` accepts
them. Left out: other attributes, the ROFS answer of a read-only file system and handles
that do not decode, which end a request before it does anything.

### Listings of the mirror

A stream (`ReadDir`) is known by the number of the listing it was opened for and
the number of entries read from it; a cookie is the pair the code packs into a
u64, its listing and its count, kept apart from the stream so that the two can
disagree. `OpenListing`, `ResumeListing` and `RefuseCookie` are the three ways
through `initialize_read_dir`. A cookie is whatever the request says, not only
one that was handed out. `PushEntry`, `PageFull`, `EndOfStream` and `ReadError`
are one turn of the handlers' loop; which entries fit is a number of entries
(`Rooms`) instead of bytes. `PageFull` reads the entry that does not fit, ends
the page before it and reads the clock for the drop; `CacheStream` is the rest
of the drop under the lock, with the trimming, after which the answer leaves.
`WakeCleaner` reads the clock and `CleanUp` is the sweep under the lock.

The host decides when a stream ends, so directories may change meanwhile.
READDIR and READDIRPLUS differ in what they check before the iterator exists
(READDIR compares the verifier with the directory's mtime) and in the attributes
they add; the checks end a request before it changes anything. The cache is a
set: the order of its vectors only decides which of two equally old streams is
trimmed, and the model allows either. Symbol ids are never removed, so the look-up
of an entry's handle in `next_entry_common` cannot fail. The halves of a cookie
overflow after 2^32 listings or entries, beyond what is modelled.

### Files of MemFs

`MemFiles` has the bytes, `size` and `used` of a file and follows `File::read`,
`write` and `resize` with their `usize` arithmetic (modulo `Usize`, as a release
build has it: the end of a read may wrap around); a slice out of bounds, or a
`Vec` that cannot be so long, is a panic. A panic under the write lock poisons it, and
every later request of the process ends in a panic of its own. `Call` is the
handler up to its call into MemFs: WRITE compares `count` with its data, SETATTR
asks for the object and compares its guard. MemFs never changes a ctime, so the
guard can only be right or wrong from the start. `Remove` is what other requests
may do meanwhile. `ByteFile` is the contract of `vfs/mod.rs`: a read, a write or a
change of size happens at one moment while it is handled, and bytes that were cut
off never come back. It knows the request every task handles (`Pending`), so that
the answer OK means that this request's bytes were read or written at its offset,
EOF is flagged exactly if its end reached that of the file, and a failure has the
cause its status names. In one point it is weaker than the contract: `vfs/mod.rs`
says that offset and count of a write "may go past the end of the file and that in
that case, the file is extended", while `File::write` answers INVAL to a write that
starts past the end. `ByteFile` admits that answer, and says so.

### Listings of MemFs

`MemReadDir` has one directory, its mtime, a client that lists it to the end, and
other requests that create, remove and rename entries, set the mtime or remove
the directory. The order of the `HashSet` is a sequence: an insertion puts the
new id anywhere and keeps the order of the others, unless it rehashes the table,
when any order may result. A full table must grow; since what was removed takes up
room until the next rehash, any other insertion may rehash as well, in place or into
a larger table. That is how the library's table behaves and is marked external. `GetAttr` computes the verifier, `Refusal` collects the early returns,
`MakeIter` copies the ids after the cookie, `NextEntry` is one turn of the loop,
each under its own lock.

### Mirror file system

`MirrorFs` has a host directory as a function from paths (of up to two names) to
files, directories and symbolic links. Every system call that resolves a path or
changes something is a step of its own, and so is every use of the symbols cache:
`SetAttr` opens and `SetLen` sets the length, `WriteStat`, `WriteOpen` and `WriteAll`
are the three calls of WRITE, `RenameStat`, `RenameTarget`, `RenameReadDir` and
`HostRename` those of RENAME. What is only asked of a file that is open (its length,
the first entry of a directory) belongs to the step that opens it. The handler's
getattr before the operation is part of `Call`, where its failure ends the request;
WRITE goes on without it, as the code does. The host fails where its tree says so,
at a size it refuses (`Huge`), and in `WriteAll`: seek, write_all and flush may fail
before anything was written or after a part of the data. Errors out of nowhere in
other calls (a bad disk, permissions) are left out. Most of them would come before
any change; one in the lstat after a change would be one more failure that leaves it.
The host's own rules (path resolution, what `rename`,
`remove_dir` and `File::create` refuse) are marked external; they are operators on
a host directory `h`, so that lemmas can speak of the host before and after a
change. Where a chain of symbolic links leads is stated without recursion: what is
no link and lies in every set that is closed under following links (`Follow`; empty
for a loop). A directory that would move below the second level is beyond the
bound, and the model does not take that step. The cache keeps the
two maps of `SymbolsCacheInner` and the counter. `Recache` is the end of rename:
the code's comment says "Invalidate cache entries", while it inserts both
names and removes none, so the handles of the renamed object go on naming the
old path. History in a task says whether it changed names or lengths, destroyed
bytes, reached an end of file, and whether another task changed the host
meanwhile.

### Connection

A message is two pieces, the first with both headers, so that it can be sent,
read or given up half way. The client is `RpcClient::call`; its caller may drop
the future at any await (`Cancel`), and may come back on a new connection with the
same xid, from the port of the old one or from another (`Reconnect`, which stands
for other clients that retransmit). `ReadSocket`, `FeedPipe`, `TakeReply` and `WriteFragment` are
`process_socket`, which does one of them at a time; `ReadMessage` is the message
loop with its partial fragment; a task goes through `HandleRpcMessage` (decoding,
`Screen`, the tracker), `RunHandler` and, for MNT, UMNT and UMNTALL, `SendSignal`.
A handler may panic instead (`Panic`): the unwinding task drops its lock, which
completes the transaction, sends nothing and leaves the connection open.
The tracker appears here by what `TransactionTracker` shows of it: an xid of an
address (`client_addr`, ip and port) is unknown, in progress or done, and one that
is done may have been forgotten when it is asked for again (`Forgotten`): after
60 s, by a trim, or with its whole client. Then, and from another port, the request
is executed again. A message made of the pieces of two calls has the
header of the first and unknown arguments, so all the ways its decoding may go
are considered (`Decoded`).

### Types and wire

A type is described by a layout (`U32`, `Opaque`, `Struct`, `Union`, ...), and
`XdrCodec` defines encoding, decoding and size on layouts, which is what the
derive macros generate from a declaration; the exceptions (`mknoddata3`,
`mountres3`, `Nfs3Result`, the RPC replies) are layouts that say what their
hand-written code does. The base of a byte is the constant `ByteBase`, since
TLC's integers have 32 bits; a `u32` still is four digits. `NfsWire` sends every
message in pieces, and fills a page of READDIR or READDIRPLUS entry by entry with
the accounting of `BoundedList` and `BoundedEntryPlusList`.

## 3. Runs

| Run | Bounds | Shows |
|---|---|---|
| `tracker` | 2 tasks, 1 address, xids 1..3, 1 active, 2 remembered, retention 1, clock up to 4, no arrivals from instant 2 on | `TypeOK`, `SortedByXid`, `NoConcurrentDuplicate`, `LockedIsInProgress`, `InProgressIsHeld`, `ActiveCountExact`, refinement of `DuplicateFilter`, `QuietClientIsForgotten` |
| `handlers` | 2 tasks, 4 ids, 2 names, one of them for sources of RENAME, 1 verifier | the tree invariants, `NoCycle` and `LostOnlyByLateRename` under every interleaving |
| `listing` | 2 tasks, 1 directory, 2 listings of up to 2 entries, pages of 0, 1 or 2, 1 cached stream, retention 1, clock up to 4, no arrivals from instant 2 on | the iterator cache under every interleaving; `AbandonedStreamIsClosed` |
| `connection` | 2 calls (a MNT, a WRITE or one with a bad credential), 2 connections from one port or two, streams and pipe of one piece, 1 active transaction, 1 place for mount signals | `AcceptedIsOwn`, `AtMostOnce`, `NoConfusionWithoutCancel`, `BlockedOnlyByAbandoned`, `NothingLostWhileOpen`, `EveryCallEnds` |
| `files` | 2 tasks, a file and a directory, lengths up to 2, `Usize` 8, every READ, WRITE and SETATTR within the bound, an offset of `Usize - 1`, a size no `Vec` has | refinement of `ByteFile` |
| `memlisting` | 3 ids, mtimes 0 and 1, pages of up to 2 entries or none at all, 3 changes by others, a table with room for 2 | `ListedOnce`, `BadCookieOnlyIfStale` |
| `mirror` | 2 tasks, 4 requests, 2 names, files of up to 2 bytes, 3 hosts to start from | `HandleIsPath`, `GuardedSpares`, `FailedChangesNothing` |
| `wire` | samples of every message, directories of up to 4 entries, limits at and one below each boundary, pieces of 3 bytes | `RoundTrip`, `PageFits` |
| `listing_resume`, `rename_orphan`, `rename_dot`, `mirror_read` | | counterexamples, see below |

Why the bounds are enough to be interesting. Tracker: two tasks race for one
xid; with one active transaction allowed the third outcome of `add_transaction`
occurs; with three xids and a limit of two the table is trimmed, also behind a
transaction in progress; the clock passes a retention period of one with a tick
to spare. Clients share nothing but the map, so one address is used, and two
cells suffice for it (one mapped, one held by a lock). Handlers: two tasks see
every pair of requests, and four ids give two directories besides the root and a
file, or three directories in a row, which is what a cycle through a check of one
level takes. Listings: two streams compete for one place in the cache, each can
be given up at a full page, at a page without room or at a failed read, and
continued; the cleaner's instant may be older than a stream's. Connection: with
room for half a message every writer blocks, a second call meets what a cancelled
first one left behind, and a second connection meets the task of the first.
Files: two bytes distinguish the start, the inside, the end and past the end, and
two tasks every order of a check and the change that invalidates it. Listings of
MemFs: three ids give a cookie, an entry before it and one after it. Mirror: four
requests are a lookup for each of two tasks and one operation each, on a host
where two of them can meet in one name, one directory or through one link. Wire:
the samples have every arm of every union, every value of every enum and every
padding. `TrimLimit`, `MaxTime`, `LastArrival`, `MaxId`, `MaxListings`,
`MaxEntries`, `MaxCalls`, `MaxConns`, `MaxChanges`, `MaxRoom`, `MaxLen` and
`Piece` are bounds of the model; the theorems hold for every value of theirs.

Deadlock is checked in the runs of `NfsHandlers` and `MirrorReadDir`. In the
others something ends that does not end in the code (the clock, the calls, the
changes of others), or, in `files`, every task may have panicked.

Fairness. `tracker` and `listing`: weak fairness of the clock, of every step of a
task that is running, and of the cleaner's steps. Tokio polls every ready task, a
handler is assumed to return, and the cleaner's sleep ends. Nothing forces a
client to send, nor the listener to be dropped. From `LastArrival` on the clock
waits for the requests under way; otherwise the bounded clock could run out
before they end, which says nothing about the code. `connection`: weak fairness
of the client's own steps, of `process_socket` and the message loop of each
connection, and of the tasks; nobody has to call, to cancel or to come back, and the
application need not take its mount signals. `EveryCallEnds` has that as a premise
instead: room comes up in the mount channel again and again. It is about a call that
was sent whole on the first connection and without a torn message (a reply that a
task drops, of a duplicate, is one the client of this repository never waits for),
and excepts the call whose handler panics: that one waits for ever.

### What some properties leave open

* `AcceptedIsOwn` is unconditional: whatever was cancelled, torn or repeated, a
  call that returns Ok was executed with its own arguments. What cancelling costs
  is in `NoConfusionWithoutCancel`: the next call reads the reply of the cancelled
  one and fails with `UnexpectedXid`, and a call cancelled in the middle of its
  write makes the server join the halves of two messages.
* `AtMostOnce` is per address and until the tracker forgets: `runs` counts what was
  executed (or panicked) since then. How long the tracker remembers is
  `ImplementsFilter`.
* `BlockedOnlyByAbandoned`: `process_socket` writes a reply to the end before it
  reads again, so both ends can wait for each other; with this client it takes a
  cancelled call, after which a reply stays unread.
* `ListedOnce` does not speak of listings during which the `HashSet` was rehashed,
  or an entry the listing had met left and came back: entries may then be missed
  or repeated. `BadCookieOnlyIfStale` names the other cases in which a listing
  cannot be continued, among them a directory whose mtime is the epoch, and a READDIR
  after the mtime was set: `vfs/mod.rs:13` says "We do not use cookie verifier", while
  `nfs_handlers.rs:433` compares it. READDIRPLUS does not.
* `GuardedSpares`: a file that appears between the lookup of a GUARDED CREATE and
  `File::create` is truncated; the property is about requests nobody disturbs.
* `FailedChangesNothing` is about requests nobody disturbs, and has three exceptions:
  SYMLINK to a name that does not exist makes the link and answers NOENT; CREATE with
  a size the host refuses leaves the file it made or truncated; and a WRITE whose
  write_all fails part way leaves what was written.
* `NoDanglingChild`, `OneParent` and `ParentLists` hold as long as RENAME calls its
  object by a plain name; see the finding `rename_dot`.

### Findings

* `listing_resume`: a full page is noticed by reading one entry more, and the
  stream is cached under that entry's cookie. The client continues from the last
  entry it was sent and gets BAD_COOKIE: a directory of the mirror that does not
  fit one page cannot be listed. `PageFollowsCookie` and its relatives are
  therefore about the cookies the cache knows, which no answer has contained.
* `rename_orphan`: when the target directory is removed between the handler's
  getattr and the rename, the file is unlinked from its directory and nothing
  lists it any more.
* `rename_dot`: MemFs looks up "." as the directory itself, so RENAME of `(D, ".")`
  takes D for an entry of D: it is not removed from its old parent and is listed in
  two directories. `OneParent` is violated with three ids and one task.
* `mirror_read`: the mirror answers a READ from the end of a file on with
  `eof = (count >= length)`, so a client that reads blocks smaller than the file
  up to an empty one is not told that it is at the end.

Three more behaviours of the code that the models show and no run is devoted to:
`trim_if_needed` drops the smallest xid, where its comment speaks of the oldest
transaction; MemFs refuses a WRITE that starts past the end; and a RENAME of a MemFs directory onto
its own empty child answers INVAL after it has removed the child.

## 4. Proofs

All theorems are for arbitrary constants under the named assumptions
(`TableAssumption`, `TrackerAssumption`, `MemFsAssumption`, `HandlersAssumption`,
`ReadDirAssumption`, `MemReadDirAssumption`, `ConnectionAssumption`,
`FilesAssumption`, `RequestsAssumption`, `MirrorAssumption`), which TLC evaluates in the runs. `TableAssumption` contains the
assertion of `ClientTransactions::new`. `MirrorAssumption` says that the mirror
starts on a finite tree of files, directories and links, and that a WRITE stays
within the longest file of the model; `RequestsAssumption` says the same of MemFs.

Tracker (`TransactionTrackerProofs`): `TypeCorrect`, `NoDuplicateExecution`,
`LockFindsItsTransaction`, `SlotsAreReturned`, `EntriesInProgressAreHeld`,
`TablesStaySorted`. None of the
invariants is inductive alone. That two tasks never hold the same request rests
on `LockedIsInProgress` (the second would find the first in the table), that on
the table never losing an entry in progress (trimming, expiry and the cleaner's
test skip it), and the exact count on each lock having its own entry, so that
completing one entry takes away exactly one lock. The inductive invariant is
their conjunction, with the shape of the tasks. The first part of the module holds
the lemmas about the operators of `ClientTransactions`: what each keeps of
sortedness, of the entries in progress and of their number.

`TrackerImplementsFilter` is the refinement `Spec => ImplementsFilter`. A lock given
is `Begin`, a lock dropped `End`, a pass of the cleaner `Expire`; reading the clock,
looking up the client and refusing a request are stutters (`RegisterSim`, `KnownSim`,
`InsertSim`, `DropLockSim`, `CleanupSim`, `NextSim`). It needs two things besides
`IInv`. The expiry is decided at an instant read before the table was locked:
`TimesPast` says that every instant kept by a task or the cleaner lies in the past,
so what was stale then is expired now. And a trimmed record may be forgotten only if
enough others of its client are still recognised: `RecognisedCount` maps the entries
of a sorted table one to one to the xids that are recognised.

Handlers (`NfsHandlersProofs` over `MemFsProofs`): `HandlersTypeCorrect`,
`WalkEnds`, `FileNamesStayUnique` hold whatever names clients use; the invariant
is `IInv`: types, `Safe` (acyclic, parents are directories, the root is listed
nowhere, a file is listed once, file names are unique) and `FreshIds` (nothing
refers to an id before it is pushed, no two tasks have the same one). `Safe` is
weaker than "is a tree" on purpose: the tree is not preserved when the object of
a RENAME is called ".", and yet no cycle can arise, since the
walk is made on the parent fields and those alone decide acyclicity.
`TreeStaysSound` adds `NoDanglingChild`, `OneParent` and `ParentLists` under the
hypothesis `PlainSources`, that no RENAME calls its object "." or ".."; two
theorems state the first and the last by name.
`MemFsProofs` proves each operator's effect pointwise (`Pruned`, `Added`,
`Moved`) and then that each preserves `Safe` and `Sound`.

`NoOrphanFile` is false under concurrency (run `rename_orphan`); the proofs say how
far. `FilesLostOnlyByLateRename` is an action property: in a step of any number of
tasks every file of the new tree is listed (`KeepsFiles`), unless it was not before
or the step is a RENAME whose second directory is gone (`LateRename`). It rests on
`RenamePaths`, which names the four ways through `Fs::rename` on a sound tree; only
the one without a target directory unlinks a file and gives it no new place.
It is the property `LostOnlyByLateRename` of run `handlers`. `OneTaskLosesNoFile` says
that `NoOrphanFile` holds with one task, for any ids and names:
with one task the directory that `StatTo` saw is there when `Fs::rename` acts
(`TargetSeen`).

Listings (`MirrorReadDirProofs`): `ListingsTypeCorrect`, `StreamsHaveOneOwner`,
`PagesFollowCookies`, `PagesNeverOverlap`, from one invariant `IInv`. That pages
follow their cookies needs that every iterator's cookie agrees with its stream,
in the cache too, and that a reading task has pushed everything since its start
(`CookiesFit`); that pages do not overlap needs that no page holds an entry its
stream has yet to yield (`PagesBehind`), and both that numbers of listings are
fresh (`StreamsExist`). `TaskStep` reduces a step to three facts about the new
record of its task. `CacheStaysBounded` and the action property
`RetentionIsKept` are proved apart, the one from the finiteness of the cache, the
other from the cleaner's instant being past.

Connection (`RpcConnectionProofs`): `ConnectionTypeOK`, `ConnectionAcceptedIsOwn`,
`ConnectionAtMostOnce`, `ConnectionNoConfusion`, `ConnectionBlockedOnlyByAbandoned`,
`ConnectionNothingLost`, for any number of calls, connections, places in streams and
pipe, active transactions and signals. The inductive invariant `IInv` has ten parts,
each proved to be kept by every action that can disturb it:

* `Types` and `Rooms`; `Caller` (which calls have been made and which is pending;
  connections the client has not reached are untouched);
* `Once`: of the tasks with one address and xid only one is past the tracker; while it
  runs the tracker says so and `runs` is 0, or 1 if it waits with its signal; what the
  tracker has never seen was never run. Hence `AtMostOnce`;
* `Earned`: a SUCCESS, wherever it is between task and client, is of an xid that was
  executed;
* `Streams`: fragment, pipe, what `process_socket` holds and the TCP stream, read
  as one sequence (`Up`), are messages whose halves belong together, unless the
  first half is of a call that was given up in the middle. This is what makes
  `AcceptedIsOwn` true: a message of two halves has the xid of a call that can no
  longer return Ok;
* `Safe`: an executed request's reply is somewhere between its task and the client,
  which is `NothingLostWhileOpen` with the places named;
* `Alone`, `Silent` and `Confusion`: without a cancelled call the connection holds
  exactly one request or one reply, that of the pending call, in one of six phases.
  From this follow `NoConfusionWithoutCancel` and `BlockedOnlyByAbandoned`.

The proof corrected the last property, which said that the unread reply is the one of
a cancelled call. With three calls it can be the reply of the second, which failed
with `UnexpectedXid` because it met the reply of the first; two calls, the bound of
the run, are too few to see it. The property now says that a call was cancelled before.

Mirror (`MirrorFsProofs`): `MirrorTypeOK`, `MirrorHandleIsPath`, `MirrorGuardedSpares`,
`MirrorFailedChangesNothing`, and the action property `MirrorHandlesLast`, that no
step takes an entry out of the symbols cache or changes one. `CacheOK` is inductive
by itself (`InsertOK`). `HostInv` is not about single steps: a request whose
operation has changed something still has calls to make, and they must not fail. It
says of every step of a task that nobody disturbed what the host still answers
there (`Kept`), of a GUARDED CREATE that its lookup still finds nothing (`Spares`),
and that the host is a tree. The lemmas before it say what each change of the host
(a node made, removed, renamed) leaves of path resolution; that links cannot lead
elsewhere because of a change to another name uses the closed sets of `Follow`.

`Excused` are the three exceptions; a WRITE that fails part way answers at once and
meets the third.

Files (`MemFilesProofs`): `FilesTypeOK`, and `FilesImplementByteFile`, the refinement
`Spec => ImplementsByteFile`. The invariant says that the `size` attribute is the length of the contents,
which `Resize` and `WriteFile` keep, and that the requests under way are within
the bound. Each action is then shown to be an action of `ByteFile` under the mapping (`Length`,
`Bytes`, `Answers`), or a stutter where a task panics: `ReadSim`, `WriteSim`,
`SetAttrSim`, `RemoveSim`, `CallSim`; a step must be the action for the very request
its task handles. "Any requests" means any within `MaxLen`, and those that panic. That the end of a read wraps around modulo `Usize`
does no harm since such a read panics, and this needs `2 * MaxLen < Usize`.

Listings of MemFs (`MemReadDirProofs`): `ListingTypeOK`, `CookieRefusedOnlyIfStale`,
`EveryEntryListedOnce`, for any ids and mtimes, any number of pages and of changes
between their steps. `ListedOnce` speaks of the end of a listing only, so the
inductive invariant says what holds in the middle of one. `Met` is what the listing
has met: sent to the client, in the page, copied by the iterator. As long as nothing
it has met moved,

* `Along`: `Met` repeats nothing, and what the directory still lists of it is in the
  directory's order;
* `Covered`: while a page is filled, every entry that stayed is in `Met`; between two
  pages, every one the client lacks comes after its cookie, if the directory still
  has the cookie; at the end none is lacking.

`CookieIsLast` ties the cookie to the last entry sent, so that `IdsAfter` continues
where the client is (`AfterCookie`, `AlongJoin`) and a page that is cut short leaves
the rest behind its last entry (`LaterPart`). An insertion without growth and a
removal keep the order (`SameOrder`), which is all the proof uses of a HashSet; that
an order lists each entry once is counted (`OrdersOf`). For the refusals,
`VerfOfMtime` says that the verifiers of client and call are made of the mtime until
somebody sets it, and `StayListed` that what stayed is in the directory.

Only model-checked: the three liveness properties (`QuietClientIsForgotten`,
`AbandonedStreamIsClosed`, `EveryCallEnds`), which need fairness and ENABLED and are
out of the prover's reach; and what `XdrCodec` computes (`RoundTrip`, `PageFits`):
`pack`, `unpack` and `packed_size` recurse over the layout of a type, and what a
recursive definition computes for every layout is an induction over data.

## 5. Not modelled

Not modelled: argument parsing, logging, string conversions, metadata of the
host, the executors' sockets (`connect.rs`, `net.rs`, `tokio.rs`, `smol.rs`), the
parsing of Rust tokens in the derive macros, the integration tests. ACCESS,
FSINFO, FSSTAT and PATHCONF answer from one getattr and constants. The handle
converter compares one number, and the choice of a privileged port is one
remainder of a counter (which never yields the last port of its range): a model of
either would restate the line. Messages of several fragments are accepted by the
server and sent by no client here; the message loop joins them before anything
looks at them.
