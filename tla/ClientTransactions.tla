------------------------- MODULE ClientTransactions -------------------------
(***************************************************************************)
(* The per-client transaction table of nfs3_server (transaction_tracker.rs,*)
(* struct ClientTransactions): a deque of transactions sorted by xid, the  *)
(* time of the client's last activity and the number of transactions that  *)
(* are being executed.  Every method of the struct is an operator on the   *)
(* table; the mutex around the struct makes each of them one atomic step   *)
(* of TransactionTracker.                                                  *)
(*                                                                         *)
(* An xid is a u32, of which only the order matters.  An Instant is a      *)
(* natural number and a Duration a number of ticks.                        *)
(***************************************************************************)
EXTENDS Naturals, Sequences, SequencesExt, FiniteSets

CONSTANTS
    Xids,                   \* the transaction ids clients use
    RetentionPeriod,        \* how long a completed transaction is remembered
    MaxActiveTransactions,  \* transactions of a client executed at a time
    TrimLimit               \* soft limit on the length of a table

\* The last conjunct is the assertion in ClientTransactions::new.
ASSUME TableAssumption ==
    /\ Xids \subseteq Nat
    /\ RetentionPeriod \in Nat
    /\ MaxActiveTransactions \in Nat
    /\ TrimLimit \in Nat
    /\ MaxActiveTransactions < TrimLimit

Instant == Nat

\* enum TransactionState and struct Transaction; "at" is the payload of
\* Completed and has no meaning (0) while the transaction is in progress.
Transaction ==
    [xid : Xids, state : {"InProgress", "Completed"}, at : Instant]

InProgress(x) == [xid |-> x, state |-> "InProgress", at |-> 0]
CompletedAt(x, now) == [xid |-> x, state |-> "Completed", at |-> now]

Table ==
    [transactions : Seq(Transaction),
     last_active : Instant,
     active_transactions : Nat]

Sorted(txs) ==
    \A i, j \in 1..Len(txs) : i < j => txs[i].xid < txs[j].xid

NewTable(now) ==
    [transactions |-> << >>, last_active |-> now, active_transactions |-> 0]

-----------------------------------------------------------------------------
(* Instants subtract with saturation: the later of the two may have been   *)
(* read first, since "now" is always read before the locks are taken.      *)
Elapsed(now, t) == IF now > t THEN now - t ELSE 0

\* Mutant: forgets one tick early.
IsStale_Early(tx, now) ==
    tx.state = "Completed" /\ Elapsed(now, tx.at) >= RetentionPeriod

IsStale(tx, now) ==
    /\ tx.state = "Completed"
    /\ Elapsed(now, tx.at) > RetentionPeriod

\* How many entries a loop pops that pops the front of a deque as long as its
\* index (in the original deque) is in S.
PrefixLength(S) == Cardinality({i \in S : 1..i \subseteq S})

PopFront(txs, n) == SubSeq(txs, n + 1, Len(txs))

\* Mutant: only the fast path.
Exists_LastOnly(txs, x) == txs # << >> /\ txs[Len(txs)].xid = x

\* find_transaction, Ok(_): the fast path compares with the last entry only
\* and trusts the table to be sorted.
Exists(txs, x) ==
    /\ txs # << >>
    /\ txs[Len(txs)].xid >= x
    /\ \E i \in 1..Len(txs) : txs[i].xid = x

\* Mutant: appends, as if xids always grew.
InsertionPoint_Back(txs, x) == Len(txs) + 1

\* find_transaction, Err(p): where binary_search_by_key says to insert.
InsertionPoint(txs, x) ==
    1 + Cardinality({i \in 1..Len(txs) : txs[i].xid < x})

RemoveOldTransactions(txs, now) ==
    PopFront(txs, PrefixLength({i \in 1..Len(txs) : IsStale(txs[i], now)}))

TrimIfNeeded(txs) ==
    PopFront(txs, PrefixLength({i \in 1..Len(txs) :
                                    /\ i + TrimLimit <= Len(txs)
                                    /\ txs[i].state = "Completed"}))

-----------------------------------------------------------------------------
TooManyRequests(tab) == tab.active_transactions >= MaxActiveTransactions

\* add_transaction when it returns Err: only the activity time changes.
Touch(tab, now) == [tab EXCEPT !.last_active = now]

\* Mutant: counts a transaction only when it completes.
AddTransaction_Uncounted(tab, x, now) ==
    [transactions |->
        TrimIfNeeded(InsertAt(tab.transactions,
                              InsertionPoint(tab.transactions, x),
                              InProgress(x))),
     last_active |-> now,
     active_transactions |-> tab.active_transactions]

\* add_transaction when it returns Ok.
AddTransaction(tab, x, now) ==
    [transactions |->
        TrimIfNeeded(InsertAt(tab.transactions,
                              InsertionPoint(tab.transactions, x),
                              InProgress(x))),
     last_active |-> now,
     active_transactions |-> tab.active_transactions + 1]

\* Mutant: does not give the slot back.
CompleteTransaction_Leak(tab, x, now) ==
    IF Exists(tab.transactions, x)
    THEN [tab EXCEPT
            !.transactions = [i \in 1..Len(tab.transactions) |->
                IF tab.transactions[i].xid = x
                THEN CompletedAt(x, now)
                ELSE tab.transactions[i]],
            !.last_active = now]
    ELSE Touch(tab, now)

\* complete_transaction.  Transaction::complete asserts that the transaction
\* it finds is in progress; TransactionTracker shows that it always is.
CompleteTransaction(tab, x, now) ==
    IF Exists(tab.transactions, x)
    THEN [transactions |->
            [i \in 1..Len(tab.transactions) |->
                IF tab.transactions[i].xid = x
                THEN CompletedAt(x, now)
                ELSE tab.transactions[i]],
          last_active |-> now,
          active_transactions |-> tab.active_transactions - 1]
    ELSE Touch(tab, now)

\* The table a TransactionLock of xid x leaves behind when it is dropped.
Dropped(tab, x, now) ==
    [CompleteTransaction(tab, x, now) EXCEPT
        !.transactions = RemoveOldTransactions(@, now)]

HasActiveTransactions(tab, now) ==
    \E i \in 1..Len(tab.transactions) : ~IsStale(tab.transactions[i], now)

\* Mutant: ignores the transactions in progress.
IsActive_RecentOnly(tab, now) == Elapsed(now, tab.last_active) < RetentionPeriod

IsActive(tab, now) ==
    \/ Elapsed(now, tab.last_active) < RetentionPeriod
    \/ HasActiveTransactions(tab, now)
=============================================================================
