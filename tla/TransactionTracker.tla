------------------------- MODULE TransactionTracker -------------------------
(***************************************************************************)
(* Detection of retransmitted requests in nfs3_server.  Every request a    *)
(* connection receives is handled by a task of its own (rpcwire.rs,        *)
(* SocketMessageHandler::read).  The task registers (client address, xid)  *)
(* with the tracker that all connections share, executes the request while *)
(* it holds a TransactionLock and completes the transaction when the lock  *)
(* is dropped.  A cleaner task forgets clients that have gone quiet.       *)
(*                                                                         *)
(* Each action is one critical section.  "now" is read before the locks    *)
(* are taken, in the action before, so tasks may apply their instants out  *)
(* of order.  The tables are reference counted (Arc): "transactions" maps  *)
(* an address to a cell of "heap", a TransactionLock keeps a cell of its   *)
(* own, and the two need not agree.                                        *)
(***************************************************************************)
EXTENDS ClientTransactions

CONSTANTS
    Addrs,      \* peer addresses ("ip:port") of the connections
    Tasks,      \* tasks that handle requests
    Cells,      \* heap cells, each holds one table
    None,       \* no cell
    MaxTime,    \* bound on the clock
    LastArrival \* bound: no request arrives from this instant on

ASSUME TrackerAssumption ==
    /\ IsFiniteSet(Tasks)
    /\ None \notin Cells
    /\ MaxTime \in Nat
    /\ LastArrival \in Nat

VARIABLES
    clock,          \* what Instant::now() returns
    transactions,   \* the map of the tracker: a cell or None for each address
    heap,           \* the table in each cell
    task,           \* the request-handling tasks
    cleaner,        \* the cleaner task
    listening       \* whether the NFSTcpListener still exists

vars == <<clock, transactions, heap, task, cleaner, listening>>

Request == [addr : Addrs, xid : Xids]

\* A task: where it is, its request, the instant it read last, and the cell its
\* TransactionLock refers to.
Task ==
    [pc : {"idle", "arrived", "unknown", "running", "dropping"},
     req : Request \cup {None},
     now : Instant,
     lock : Cells \cup {None}]

Idle == [pc |-> "idle", req |-> None, now |-> 0, lock |-> None]

Cleaner == [pc : {"spawned", "waiting", "cleaning", "stopped"}, now : Instant]

\* The tasks that hold a TransactionLock.
Holders == {t \in Tasks : task[t].pc \in {"running", "dropping"}}

\* The cells some Arc points to: one in the map, one in each TransactionLock.
Mapped == {transactions[a] : a \in Addrs}
Locked == {task[t].lock : t \in Holders}
LocksOn(c) == {t \in Holders : task[t].lock = c}

-----------------------------------------------------------------------------
Init ==
    /\ clock = 0
    /\ transactions = [a \in Addrs |-> None]
    /\ heap = [c \in Cells |-> NewTable(0)]
    /\ task = [t \in Tasks |-> Idle]
    /\ cleaner = [pc |-> "spawned", now |-> 0]
    /\ listening = TRUE

\* Time passes.  From LastArrival on it waits for the requests under way, so
\* that a behaviour of bounded length shows what happens after a client has
\* gone quiet.
Tick ==
    /\ clock < MaxTime
    /\ clock >= LastArrival => \A t \in Tasks : task[t].pc = "idle"
    /\ clock' = clock + 1
    /\ UNCHANGED <<transactions, heap, task, cleaner, listening>>

\* A message is complete, a task is spawned for it and reads the time.  The
\* request may be new or a retransmission.
Receive(t, r) ==
    /\ task[t].pc = "idle"
    /\ clock < LastArrival
    /\ task' = [task EXCEPT ![t] =
            [pc |-> "arrived", req |-> r, now |-> clock, lock |-> None]]
    /\ UNCHANGED <<clock, transactions, heap, cleaner, listening>>

\* add_transaction on the table tab in cell c, and what start_transaction and
\* its caller make of the result.  When it fails there is no lock: the task
\* drops a retransmission silently and answers SYSTEM_ERR to one request too
\* many.  Otherwise the task holds a TransactionLock while it executes.
AlreadyExists(t, c, tab) ==
    /\ Exists(tab.transactions, task[t].req.xid)
    /\ heap' = [heap EXCEPT ![c] = Touch(tab, task[t].now)]
    /\ task' = [task EXCEPT ![t] = Idle]

TooMany(t, c, tab) ==
    /\ ~Exists(tab.transactions, task[t].req.xid)
    /\ TooManyRequests(tab)
    /\ heap' = [heap EXCEPT ![c] = Touch(tab, task[t].now)]
    /\ task' = [task EXCEPT ![t] = Idle]

Admit(t, c, tab) ==
    /\ ~Exists(tab.transactions, task[t].req.xid)
    /\ ~TooManyRequests(tab)
    /\ heap' = [heap EXCEPT ![c] = AddTransaction(tab, task[t].req.xid, task[t].now)]
    /\ task' = [task EXCEPT ![t].pc = "running", ![t].lock = c]

Register(t, c, tab) ==
    AlreadyExists(t, c, tab) \/ TooMany(t, c, tab) \/ Admit(t, c, tab)

\* start_transaction under the read lock: the client is known.
StartKnown(t) ==
    LET c == transactions[task[t].req.addr]
    IN  /\ task[t].pc = "arrived"
        /\ c # None
        /\ Register(t, c, heap[c])
        /\ UNCHANGED <<clock, transactions, cleaner, listening>>

\* The client is not known; the read lock is released.
StartUnknown(t) ==
    /\ task[t].pc = "arrived"
    /\ transactions[task[t].req.addr] = None
    /\ task' = [task EXCEPT ![t].pc = "unknown"]
    /\ UNCHANGED <<clock, transactions, heap, cleaner, listening>>

\* start_transaction under the write lock, when another task has inserted the
\* client meanwhile ...
StartInserted(t) ==
    LET c == transactions[task[t].req.addr]
    IN  /\ task[t].pc = "unknown"
        /\ c # None
        /\ Register(t, c, heap[c])
        /\ UNCHANGED <<clock, transactions, cleaner, listening>>

\* Mutant: does not look again under the write lock.
StartInsert_NoRecheck(t) ==
    /\ task[t].pc = "unknown"
    /\ \E c \in Cells \ (Mapped \cup Locked) :
        /\ transactions' = [transactions EXCEPT ![task[t].req.addr] = c]
        /\ Register(t, c, NewTable(task[t].now))
    /\ UNCHANGED <<clock, cleaner, listening>>

\* ... and when not: or_insert_with puts a new table into a free cell.
StartInsert(t) ==
    /\ task[t].pc = "unknown"
    /\ transactions[task[t].req.addr] = None
    /\ \E c \in Cells \ (Mapped \cup Locked) :
        /\ transactions' = [transactions EXCEPT ![task[t].req.addr] = c]
        /\ Register(t, c, NewTable(task[t].now))
    /\ UNCHANGED <<clock, cleaner, listening>>

\* The handler has returned (or panicked: the lock is dropped all the same);
\* TransactionLock::drop reads the time before it takes the mutex.
Finish(t) ==
    /\ task[t].pc = "running"
    /\ task' = [task EXCEPT ![t].pc = "dropping", ![t].now = clock]
    /\ UNCHANGED <<clock, transactions, heap, cleaner, listening>>

DropLock(t) ==
    /\ task[t].pc = "dropping"
    /\ heap' = [heap EXCEPT ![task[t].lock] =
            Dropped(@, task[t].req.xid, task[t].now)]
    /\ task' = [task EXCEPT ![t] = Idle]
    /\ UNCHANGED <<clock, transactions, cleaner, listening>>

\* Cleaner::run, entered by the task handle_forever spawns: from here on the
\* cleaner can be notified.
CleanerStart ==
    /\ cleaner.pc = "spawned"
    /\ cleaner' = [pc |-> "waiting", now |-> 0]
    /\ UNCHANGED <<clock, transactions, heap, task, listening>>

\* The interval of the cleaner has elapsed and it reads the time.
Wake ==
    /\ cleaner.pc = "waiting"
    /\ cleaner' = [pc |-> "cleaning", now |-> clock]
    /\ UNCHANGED <<clock, transactions, heap, task, listening>>

\* cleanup, all of it under the write lock of the map.  The table of a client
\* that is not kept is freed unless a TransactionLock still refers to it.
Cleanup ==
    LET kept == {a \in Addrs : /\ transactions[a] # None
                               /\ IsActive(heap[transactions[a]], cleaner.now)}
        keptCells == {transactions[a] : a \in kept}
    IN  /\ cleaner.pc = "cleaning"
        /\ transactions' =
            [a \in Addrs |-> IF a \in kept THEN transactions[a] ELSE None]
        /\ heap' = [c \in Cells |->
            IF c \in keptCells
            THEN [heap[c] EXCEPT !.transactions = RemoveOldTransactions(@, cleaner.now)]
            ELSE IF c \in Locked THEN heap[c] ELSE NewTable(0)]
        /\ cleaner' = [pc |-> "waiting", now |-> 0]
        /\ UNCHANGED <<clock, task, listening>>

\* The listener is dropped; its connections and their requests live on.
\* notify_waiters stops the cleaner if it waits, and is lost on it otherwise.
DropListener ==
    /\ listening
    /\ listening' = FALSE
    /\ cleaner' = IF cleaner.pc = "waiting"
                  THEN [pc |-> "stopped", now |-> 0]
                  ELSE cleaner
    /\ UNCHANGED <<clock, transactions, heap, task>>

TaskStep(t) ==
    \/ StartKnown(t) \/ StartUnknown(t) \/ StartInserted(t) \/ StartInsert(t)
    \/ Finish(t) \/ DropLock(t)

Next ==
    \/ Tick
    \/ \E t \in Tasks, r \in Request : Receive(t, r)
    \/ \E t \in Tasks : TaskStep(t)
    \/ CleanerStart
    \/ Wake
    \/ Cleanup
    \/ DropListener

Spec == Init /\ [][Next]_vars

-----------------------------------------------------------------------------
TypeOK ==
    /\ clock \in Instant
    /\ transactions \in [Addrs -> Cells \cup {None}]
    /\ heap \in [Cells -> Table]
    /\ task \in [Tasks -> Task]
    /\ cleaner \in Cleaner
    /\ listening \in BOOLEAN

\* The deque of every table stays sorted by xid without duplicates, which is
\* what find_transaction's comparison with the last entry and its binary search
\* rely on, whatever order the xids arrive in and whatever is popped.
SortedByXid == \A c \in Cells : Sorted(heap[c].transactions)

\* A request and its retransmission are never executed at the same time: two
\* tasks that hold a TransactionLock have different addresses or xids.
NoConcurrentDuplicate ==
    \A t, u \in Holders : task[t].req = task[u].req => t = u

\* The table a TransactionLock will complete is the one retransmissions of its
\* client are looked up in, and has the transaction in progress: the cleaner
\* cannot replace a table under a running request, and the assertion in
\* Transaction::complete holds.
LockedIsInProgress ==
    \A t \in Holders :
        /\ transactions[task[t].req.addr] = task[t].lock
        /\ InProgress(task[t].req.xid) \in ToSet(heap[task[t].lock].transactions)

\* Conversely nothing stays in progress without a task that will complete it:
\* such an entry would block its xid for good, and the trimming behind it.
InProgressIsHeld ==
    \A a \in Addrs : transactions[a] # None =>
        \A tx \in ToSet(heap[transactions[a]].transactions) :
            tx.state = "InProgress" =>
                \E t \in Holders : task[t].req = [addr |-> a, xid |-> tx.xid]

\* active_transactions counts the locks on the table, neither leaking a slot
\* (which would end in refusing the client for good) nor underflowing, and
\* never exceeds the limit.
ActiveCountExact ==
    \A c \in Cells :
        /\ heap[c].active_transactions = Cardinality(LocksOn(c))
        /\ heap[c].active_transactions <= MaxActiveTransactions

-----------------------------------------------------------------------------
(* The tracker implements DuplicateFilter: a lock is an execution, and the *)
(* completed entries of the table a client's requests are looked up in are *)
(* what is remembered.                                                     *)
Executing ==
    {[task |-> t, addr |-> task[t].req.addr, xid |-> task[t].req.xid] : t \in Holders}

Completed(txs) == {tx \in ToSet(txs) : tx.state = "Completed"}

RememberedOf(a) ==
    IF transactions[a] = None
    THEN {}
    ELSE {[addr |-> a, xid |-> tx.xid, at |-> tx.at] :
                tx \in Completed(heap[transactions[a]].transactions)}

Remembered == UNION {RememberedOf(a) : a \in Addrs}

Filter == INSTANCE DuplicateFilter WITH executing <- Executing, remembered <- Remembered

\* Whatever the interleaving of tasks, cleaner and retransmissions, a request is
\* not executed twice while it runs or within the retention period, and only
\* trim_if_needed, above the limit, shortens the memory.
ImplementsFilter == Filter!Spec

-----------------------------------------------------------------------------
(* Tokio polls every task that is ready, and time passes.  Nothing forces  *)
(* a client to send or the listener to be dropped.                         *)
Fairness ==
    /\ WF_vars(Tick)
    /\ \A t \in Tasks : WF_vars(TaskStep(t))
    /\ WF_vars(CleanerStart)
    /\ WF_vars(Wake)
    /\ WF_vars(Cleanup)

FairSpec == Spec /\ Fairness

\* The memory a client costs is given back: once it has gone quiet, its entry
\* leaves the map, unless the cleaner has been stopped with the listener.
QuietClientIsForgotten ==
    \A a \in Addrs :
        transactions[a] # None ~> (transactions[a] = None \/ cleaner.pc = "stopped")
=============================================================================
