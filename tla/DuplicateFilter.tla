--------------------------- MODULE DuplicateFilter ---------------------------
(***************************************************************************)
(* What the transaction tracker promises the request handlers, without     *)
(* tables, locks or a cleaner.  A request is identified by the client's    *)
(* address and its xid.  While it is executed, and for RetentionPeriod     *)
(* after it has completed, it is not executed again.  Only one thing       *)
(* shortens that memory: a client that has more than TrimLimit requests    *)
(* remembered may lose some of them when it starts another one, and is     *)
(* left with at least TrimLimit.                                           *)
(***************************************************************************)
EXTENDS Naturals, FiniteSets

CONSTANTS Addrs, Tasks, Xids, RetentionPeriod, MaxActiveTransactions, TrimLimit

VARIABLES
    clock,          \* the current instant
    executing,      \* the requests being executed, and the task of each
    remembered      \* the completed requests, and when they completed

vars == <<clock, executing, remembered>>

TypeOK ==
    /\ clock \in Nat
    /\ executing \subseteq [task : Tasks, addr : Addrs, xid : Xids]
    /\ remembered \subseteq [addr : Addrs, xid : Xids, at : Nat]

\* The requests of client a that would be recognised as retransmissions.
Recognised(a, E, R) ==
    {e.xid : e \in {f \in E : f.addr = a}} \cup
    {r.xid : r \in {q \in R : q.addr = a}}

Expired == {r \in remembered : clock > r.at + RetentionPeriod}

Init ==
    /\ clock = 0
    /\ executing = {}
    /\ remembered = {}

Tick ==
    /\ clock' = clock + 1
    /\ UNCHANGED <<executing, remembered>>

\* Task t starts the request (a, x), which is not a retransmission.
Begin(t, a, x) ==
    /\ \A e \in executing : e.task # t
    /\ x \notin Recognised(a, executing, remembered)
    /\ Cardinality({e \in executing : e.addr = a}) < MaxActiveTransactions
    /\ executing' = executing \cup {[task |-> t, addr |-> a, xid |-> x]}
    /\ \/ remembered' = remembered
       \/ /\ remembered' \subseteq remembered
          /\ \A r \in remembered \ remembered' : r.addr = a
          /\ Cardinality(Recognised(a, executing', remembered')) >= TrimLimit
    /\ UNCHANGED clock

\* The request e completes; it counts as completed from an instant that may lie
\* a little in the past.  Expired requests may be forgotten on the occasion.
End(e, at) ==
    /\ e \in executing
    /\ at <= clock
    /\ executing' = executing \ {e}
    /\ LET done == [addr |-> e.addr, xid |-> e.xid, at |-> at]
       IN  /\ remembered' \subseteq remembered \cup {done}
           /\ \A r \in (remembered \cup {done}) \ remembered' :
                clock > r.at + RetentionPeriod
    /\ UNCHANGED clock

Expire ==
    /\ remembered' \subseteq remembered
    /\ remembered \ remembered' \subseteq Expired
    /\ UNCHANGED <<clock, executing>>

Next ==
    \/ Tick
    \/ \E t \in Tasks, a \in Addrs, x \in Xids : Begin(t, a, x)
    \/ \E e \in executing, at \in 0..clock : End(e, at)
    \/ Expire

Spec == Init /\ [][Next]_vars
=============================================================================
