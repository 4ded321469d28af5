------------------------- MODULE RpcConnectionProofs -------------------------
(***************************************************************************)
(* Proofs about RpcConnection, for any number of calls, connections,       *)
(* places in the streams, active transactions and signals.                 *)
(***************************************************************************)
EXTENDS RpcConnection, SequenceTheorems, TLAPS

-----------------------------------------------------------------------------
(* The inductive invariant, in ten parts.                                  *)

Waiting == client.pc \in {"sending", "receiving"}

\* What is on its way to the message loop of connection c, oldest piece first,
\* and on its way to the caller.
Feeding(c) == IF server[c].pc = "feeding" THEN server[c].out ELSE <<>>
Up(c) == fragment[c] \o (pipe[c] \o (Feeding(c) \o c2s[c]))
Replying(c) == IF server[c].pc = "replying" THEN server[c].out ELSE <<>>
Down(c) == s2c[c] \o Replying(c)

Message == [conn : Conns, head : Piece, tail : Piece]

\* Types, and what process_socket holds.
ClientType ==
    [pc : {"idle", "sending", "receiving", "gone"}, conn : Conns, xid : 1..(MaxCalls + 1),
     sent : 0..2, got : Seq(ReplyPiece)]

ClientOK == client \in ClientType

CallsOK ==
    calls \in [Xids -> Bodies \cup {None}] /\ outcome = [x \in Xids |-> outcome[x]]

UpOK ==
    c2s \in [Conns -> Seq(Piece)] /\ pipe \in [Conns -> Seq(Piece)]
    /\ fragment \in [Conns -> Seq(Piece)]

DownOK == s2c \in [Conns -> Seq(ReplyPiece)] /\ replies \in [Conns -> Seq(Reply)]

Holding(v) ==
    /\ v.pc = "feeding" => v.out \in Seq(Piece) /\ Len(v.out) = 1
    /\ v.pc = "replying" => v.out \in Seq(ReplyPiece) /\ v.out # <<>>
    /\ v.pc \notin {"feeding", "replying"} => v.out = <<>>

ServerOK ==
    /\ server \in [Conns -> [pc : {"unborn", "select", "feeding", "replying", "closed"},
                             out : Seq(Piece) \cup Seq(ReplyPiece)]]
    /\ \A c \in Conns : Holding(server[c])

TasksOK ==
    tasks \subseteq Task /\ tracker \in [Keys -> {"none", "running", "done"}]
    /\ addr \in [Conns -> Conns]

HistoryOK ==
    signals \in 0..SignalRoom /\ executed \subseteq Message /\ seen \subseteq Xids
    /\ runs \in [Keys -> Nat] /\ torn \in BOOLEAN

Types ==
    ClientOK /\ CallsOK /\ UpOK /\ DownOK /\ ServerOK /\ TasksOK /\ HistoryOK

\* Streams and the pipe stay within their room.
Rooms ==
    \A c \in Conns :
        Len(c2s[c]) <= SocketRoom /\ Len(s2c[c]) <= SocketRoom /\ Len(pipe[c]) <= PipeRoom

\* The calls of the client: those made have an outcome, the last one is pending
\* while the client waits.
Calling ==
    /\ client.pc = "sending" => client.sent \in {0, 1}
    /\ client.pc \in {"sending", "idle"} => client.got = <<>>
    /\ Waiting => client.xid > 1 /\ outcome[Cur] = "pending"
    /\ \A x \in Xids :
        /\ x >= client.xid => outcome[x] = "none"
        /\ x < client.xid => calls[x] \in Bodies /\ outcome[x] # "none"
        /\ outcome[x] = "pending" => x = Cur /\ Waiting

\* Connections after the client's own are unused.
Unused ==
    \A c \in Conns : c > client.conn =>
        /\ server[c] = Serving("unborn", <<>>)
        /\ c2s[c] = <<>> /\ pipe[c] = <<>> /\ fragment[c] = <<>>
        /\ replies[c] = <<>> /\ s2c[c] = <<>> /\ \A t \in tasks : t.conn # c

Caller == Calling /\ Unused

\* The tracker admits one task per address and xid, and no other until it has
\* forgotten it.
Once ==
    /\ \A t \in tasks : t.pc # "spawned" => tracker[Key(t)] = "running"
    /\ \A t, u \in tasks :
        (t.pc # "spawned" /\ u.pc # "spawned" /\ Key(t) = Key(u)) => t = u
    /\ \A k \in Keys : tracker[k] = "none" => runs[k] = 0
    /\ \A t \in tasks : t.pc = "running" => runs[Key(t)] = 0
    /\ AtMostOnce

\* A reply that says SUCCESS is the reply to something that was executed.
Backed == {e.head.xid : e \in executed}

Paid(s, B) == \A i \in 1..Len(s) : s[i].stat = "SUCCESS" => s[i].xid \in B

Earned ==
    /\ \A t \in tasks : t.pc = "signal" => t.head.xid \in Backed
    /\ \A c \in Conns :
        Paid(replies[c], Backed) /\ Paid(Replying(c), Backed) /\ Paid(s2c[c], Backed)
    /\ Paid(client.got, Backed)

\* The calls that were given up in the middle of a message, among others.
Abandoned == IF torn THEN {x \in Xids : outcome[x] \notin {"none", "pending", "Ok"}} ELSE {}

First(x) == [xid |-> x, part |-> 1]
Second(z) == [xid |-> z.xid, part |-> 2]

\* The first piece of a message is followed by the second, unless the call was
\* abandoned in between.
Linked(s, A) ==
    \A i \in 1..(Len(s) - 1) : s[i].part = 1 => s[i + 1] = Second(s[i]) \/ s[i].xid \in A

Whole(m, A) == m.head.part = 1 => m.tail = Second(m.head) \/ m.head.xid \in A

Below(s, n) == \A i \in 1..Len(s) : s[i].xid < n

Chain(c) ==
    /\ Linked(Up(c), Abandoned) /\ Below(Up(c), client.xid)
    /\ Len(fragment[c]) > 1 => fragment[c][1].part = 2

\* What the client sent last on its connection.
Tip(c, s) ==
    s # <<>> =>
        IF client.pc = "sending" /\ client.sent = 1
        THEN s[Len(s)] = First(Cur)
        ELSE s[Len(s)].part = 1 => Closed(c) \/ s[Len(s)].xid \in Abandoned

Parsed(t) ==
    /\ Whole(t, Abandoned) /\ t.head.xid < client.xid
    /\ t.pc # "spawned" => t.head.part = 1

Ran(e) == Whole(e, Abandoned) /\ e.head.part = 1

Streams ==
    /\ \A c \in Conns : Chain(c)
    /\ Tip(client.conn, Up(client.conn))
    /\ \A t \in tasks : Parsed(t)
    /\ \A e \in executed : Ran(e)
    /\ AcceptedIsOwn

\* The reply to what was executed is not lost while the connection is open.
Signalling(c, x) == \E t \in tasks : t.pc = "signal" /\ t.conn = c /\ t.head.xid = x
Has(s, x) == \E i \in 1..Len(s) : s[i].xid = x

Kept(c, x) ==
    Signalling(c, x) \/ Has(replies[c], x) \/ Has(Replying(c), x) \/ Has(s2c[c], x) \/ x \in seen

Lasts(c, x) == Closed(c) \/ Gone(c) \/ Kept(c, x)

Safe == \A e \in executed : Lasts(e.conn, e.head.xid)

\* As long as no call was cancelled, there is at most one message or reply in
\* the client's connection, and it belongs to the last call.  Everything on the
\* way in connection c: the pieces of the request u, the tasks m, the queued
\* replies r and the pieces d of the reply that were read or can be.
Uncancelled == \A x \in Xids : outcome[x] # "Cancelled"
Calm == ~Closed(client.conn) /\ Uncancelled

Mine(c) == {t \in tasks : t.conn = c}
Coming(c) == client.got \o Down(c)

Quiet(u, m, r, d) == u = <<>> /\ m = {} /\ r = <<>> /\ d = <<>>
Half(x, u, m, r, d) == Len(u) = 1 /\ u[1] = First(x) /\ m = {} /\ r = <<>> /\ d = <<>>
Sent(x, u, m, r, d) == Len(u) = 2 /\ u[1] = First(x) /\ m = {} /\ r = <<>> /\ d = <<>>

Held(x, u, m, r, d) ==
    u = <<>> /\ (\E t \in m : m = {t} /\ t.head.xid = x) /\ r = <<>> /\ d = <<>>

Answered(x, u, m, r, d) == u = <<>> /\ m = {} /\ Len(r) = 1 /\ r[1].xid = x /\ d = <<>>

Returning(x, u, m, r, d) ==
    u = <<>> /\ m = {} /\ r = <<>> /\ Len(d) = 2 /\ \A i \in 1..2 : d[i].xid = x /\ d[i].part = i

Phase(pc, n, x, u, m, r, d) ==
    /\ pc # "gone"
    /\ (pc = "idle" \/ (pc = "sending" /\ n = 0)) => Quiet(u, m, r, d)
    /\ (pc = "sending" /\ n = 1) => Half(x, u, m, r, d)
    /\ pc = "receiving" =>
        \/ Quiet(u, m, r, d) \/ Sent(x, u, m, r, d) \/ Held(x, u, m, r, d)
        \/ Answered(x, u, m, r, d) \/ Returning(x, u, m, r, d)

PhaseOf(c) ==
    Phase(client.pc, client.sent, Cur, Up(c), Mine(c), replies[c], Coming(c))

Alone == Calm => PhaseOf(client.conn)

\* Nor is there anything to read in a connection that the server has closed.
Silent ==
    (Uncancelled /\ Closed(client.conn) /\ client.pc = "receiving") =>
        client.got = <<>> /\ s2c[client.conn] = <<>>

Confusion ==
    \A x \in Xids : outcome[x] \in {"UnexpectedXid", "Garbled", "Panic"} => CancelledBefore(x)

-----------------------------------------------------------------------------
(* The dispatch, and sequences.                                            *)

\* What comes before the tracker is never a success, and what follows it is
\* one of the answers a caller knows.
LEMMA DispatchTypes ==
    ASSUME NEW call
    PROVE  Screen(call) \in {"Err", "RPC_MISMATCH", "lock"} /\ Dispatch(call) \in Stats
BY DEF Screen, Dispatch, Stats

\* A message that does not unpack is an error.
LEMMA GarbledIsErr ==
    ASSUME NEW call \in CallBody
    PROVE  Screen([call EXCEPT !.kind = "garbled"]) = "Err"
BY DEF Screen, CallBody

\* What a caller makes of the answer to its own call.
Answers ==
    {"Ok", "RpcMismatch", "ProgUnavail", "ProgMismatch", "ProcUnavail", "GarbageArgs", "SystemErr"}

\* Ok is what becomes of SUCCESS, and of nothing else.
LEMMA ResultTypes ==
    ASSUME NEW stat \in Stats
    PROVE  ClientResult(stat) \in Answers /\ (ClientResult(stat) = "Ok" => stat = "SUCCESS")
BY DEF ClientResult, Stats, Answers

\* The head of one queue may go to the end of the queue before it.
LEMMA MoveHead ==
    ASSUME NEW S, NEW s \in Seq(S), NEW t \in Seq(S), t # <<>>
    PROVE  Append(s, Head(t)) \o Tail(t) = s \o t
<1> DEFINE l == Append(s, Head(t)) \o Tail(t)
           r == s \o t
<1>1. /\ Head(t) \in S /\ Tail(t) \in Seq(S) /\ Len(Tail(t)) = Len(t) - 1
      /\ \A i \in 1..Len(Tail(t)) : Tail(t)[i] = t[i + 1]
      /\ Head(t) = t[1] /\ Len(t) \in Nat \ {0} /\ Len(s) \in Nat
    BY HeadTailProperties, EmptySeq, LenProperties
<1> DEFINE a == Append(s, Head(t))
           b == Tail(t)
<1>2. /\ a \in Seq(S) /\ Len(a) = Len(s) + 1 /\ a[Len(s) + 1] = t[1]
      /\ \A i \in 1..Len(s) : a[i] = s[i]
    BY <1>1, AppendProperties
<1>3. b \in Seq(S) /\ Len(b) = Len(t) - 1 /\ \A i \in 1..Len(b) : b[i] = t[i + 1]
    BY <1>1
<1> HIDE DEF a, b
<1>4. /\ a \o b \in Seq(S) /\ Len(a \o b) = Len(a) + Len(b)
      /\ \A i \in 1..(Len(a) + Len(b)) : (a \o b)[i] = IF i <= Len(a) THEN a[i] ELSE b[i - Len(a)]
    BY <1>2, <1>3, ConcatProperties
<1>5. /\ r \in Seq(S) /\ Len(r) = Len(s) + Len(t)
      /\ \A i \in 1..(Len(s) + Len(t)) : r[i] = IF i <= Len(s) THEN s[i] ELSE t[i - Len(s)]
    BY ConcatProperties
<1>6. l = a \o b
    BY DEF a, b
<1> HIDE DEF l, r
<1>7. Len(l) = Len(r) /\ \A i \in 1..Len(l) : l[i] = r[i]
  <2>0. Len(l) = Len(a) + Len(b)
    BY <1>4, <1>6, Zenon
  <2>1. Len(l) = Len(r) /\ Len(l) = Len(s) + Len(t) /\ Len(a) + Len(b) = Len(s) + Len(t)
    BY <1>1, <1>2, <1>3, <1>5, <2>0
  <2>2. ASSUME NEW i \in 1..Len(l) PROVE l[i] = r[i]
    <3>1. i \in 1..(Len(s) + Len(t))
      BY <2>1
    <3>2. l[i] = IF i <= Len(s) + 1 THEN a[i] ELSE b[i - (Len(s) + 1)]
      BY <1>2, <1>4, <1>6, <2>1, <3>1
    <3>3. r[i] = IF i <= Len(s) THEN s[i] ELSE t[i - Len(s)]
      BY <1>5, <3>1
    <3>4. CASE i <= Len(s)
      BY <1>1, <1>2, <3>1, <3>2, <3>3, <3>4
    <3>5. CASE i = Len(s) + 1
      <4>1. i - Len(s) = 1
        BY <1>1, <3>5
      <4> QED
        BY <1>1, <1>2, <3>2, <3>3, <3>5, <4>1
    <3>6. CASE i > Len(s) + 1
      <4>1. i - (Len(s) + 1) \in 1..Len(b) /\ (i - (Len(s) + 1)) + 1 = i - Len(s)
        BY <1>1, <1>3, <3>1, <3>6
      <4>2. b[i - (Len(s) + 1)] = t[i - Len(s)]
        BY <1>3, <4>1
      <4> QED
        BY <1>1, <3>1, <3>2, <3>3, <3>6, <4>2
    <3> QED
      BY <1>1, <3>1, <3>4, <3>5, <3>6
  <2> QED
    BY <2>1, <2>2
<1>8. l \in Seq(S) /\ r \in Seq(S)
    BY <1>4, <1>5, <1>6
<1>9. l = r
    BY <1>7, <1>8, SeqEqual, Zenon
<1> QED
    BY <1>9 DEF l, r

\* A queue is its head and its tail.
LEMMA HeadAndTail ==
    ASSUME NEW S, NEW t \in Seq(S), t # <<>>
    PROVE  <<Head(t)>> \o Tail(t) = t
<1>1. Head(t) \in S /\ <<>> \in Seq(S)
    BY HeadTailProperties
<1>2. Append(<<>>, Head(t)) = <<Head(t)>>
    OBVIOUS
<1>3. Append(<<>>, Head(t)) \o Tail(t) = <<>> \o t
    BY <1>1, MoveHead
<1>4. <<>> \o t = t
    BY ConcatEmptySeq
<1> QED
    BY <1>2, <1>3, <1>4

-----------------------------------------------------------------------------
(* Types.                                                                  *)

\* The bounds are numbers.
LEMMA Bounds ==
    {MaxCalls, MaxConns, SocketRoom, PipeRoom, MaxActive, SignalRoom} \subseteq Nat \ {0}
BY ConnectionAssumption

\* Nothing is on the way at the start.
LEMMA TypesInit == Init => Types
<1> SUFFICES ASSUME Init PROVE Types
    OBVIOUS
<1> USE Bounds DEF Init
<1>1. ClientOK
    BY DEF ClientOK, ClientType, Conns
<1>2. CallsOK
    BY DEF CallsOK
<1>3. UpOK
    BY DEF UpOK
<1>4. DownOK
    BY DEF DownOK
<1>5. ServerOK
    BY DEF ServerOK, Holding, Serving
<1>6. TasksOK
    BY DEF TasksOK, Conns
<1>7. HistoryOK
  <2>1. torn \in BOOLEAN
    BY Zenon
  <2> QED
    BY <2>1 DEF HistoryOK
<1> QED
    BY <1>1, <1>2, <1>3, <1>4, <1>5, <1>6, <1>7 DEF Types

\* The parts of Types that an action leaves alone.
LEMMA TypesFrame ==
    /\ ClientOK /\ UNCHANGED client => ClientOK'
    /\ CallsOK /\ UNCHANGED <<calls, outcome>> => CallsOK'
    /\ UpOK /\ UNCHANGED <<c2s, pipe, fragment>> => UpOK'
    /\ DownOK /\ UNCHANGED <<s2c, replies>> => DownOK'
    /\ ServerOK /\ UNCHANGED server => ServerOK'
    /\ TasksOK /\ UNCHANGED <<tasks, tracker, addr>> => TasksOK'
    /\ HistoryOK /\ UNCHANGED <<signals, executed, runs, seen, torn>> => HistoryOK'
BY DEF ClientOK, ClientType, CallsOK, UpOK, DownOK, ServerOK, TasksOK, HistoryOK

\* The call returns.
LEMMA ReturnTypes ==
    ASSUME ClientOK, CallsOK, NEW res, NEW pc \in {"idle", "gone"}, Return(res, pc),
           UNCHANGED calls
    PROVE  ClientOK' /\ CallsOK'
<1>1. ClientOK'
    BY EmptySeq DEF ClientOK, ClientType, Return
<1>2. CallsOK'
    BY DEF CallsOK, Return
<1> QED
    BY <1>1, <1>2

\* What process_socket does next is of the right type.
LEMMA ServingTypes ==
    ASSUME ServerOK, NEW c \in Conns, NEW out,
           NEW pc \in {"select", "feeding", "replying", "closed"},
           \/ pc = "feeding" /\ out \in Seq(Piece) /\ Len(out) = 1
           \/ pc = "replying" /\ out \in Seq(ReplyPiece) /\ out # <<>>
           \/ pc \in {"select", "closed"} /\ out = <<>>,
           server' = [server EXCEPT ![c] = Serving(pc, out)]
    PROVE  ServerOK'
<1>1. Serving(pc, out) \in [pc : {"unborn", "select", "feeding", "replying", "closed"},
                             out : Seq(Piece) \cup Seq(ReplyPiece)]
    BY EmptySeq DEF Serving
<1>2. Holding(Serving(pc, out))
    BY DEF Serving, Holding
<1>3. \A d \in Conns : server'[d] = IF d = c THEN Serving(pc, out) ELSE server[d]
    BY DEF ServerOK
<1> QED
    BY <1>1, <1>2, <1>3 DEF ServerOK

\* The last message of the client.
LEMMA CurType ==
    ASSUME ClientOK, client.xid > 1
    PROVE  Cur \in Xids
BY Bounds DEF ClientOK, ClientType, Cur, Xids

\* The client with four of its fields replaced.
LEMMA ClientExcept ==
    ASSUME NEW k \in ClientType, NEW p \in {"idle", "sending", "receiving", "gone"},
           NEW c \in Conns, NEW x \in 1..(MaxCalls + 1), NEW n \in 0..2,
           NEW g \in Seq(ReplyPiece)
    PROVE  /\ [k EXCEPT !.pc = p, !.xid = x, !.sent = n, !.got = g] \in ClientType
           /\ [k EXCEPT !.conn = c, !.pc = p, !.sent = n, !.got = g] \in ClientType
BY DEF ClientType

\* The client's steps keep the types.
LEMMA ClientTypes ==
    ASSUME Types, Caller,
           (\E b \in Bodies : Call(b)) \/ ClientStep \/ Cancel \/ Reconnect
    PROVE  Types'
<1> USE DEF Types, serverVars
<1>1. ASSUME NEW b \in Bodies, Call(b) PROVE Types'
  <2>0. client.xid + 1 \in 1..(MaxCalls + 1) /\ <<>> \in Seq(ReplyPiece)
    BY <1>1, Bounds, EmptySeq DEF Call, ClientOK, ClientType
  <2>1. ClientOK'
    <3> DEFINE x == client.xid + 1
               n == 0
               g == <<>>
    <3>1. client' = [client EXCEPT !.pc = "sending", !.xid = x, !.sent = n, !.got = g]
      BY <1>1 DEF Call
    <3>2. client \in ClientType /\ x \in 1..(MaxCalls + 1) /\ n \in 0..2 /\ g \in Seq(ReplyPiece)
      BY <2>0 DEF ClientOK
    <3> HIDE DEF x, n, g
    <3>3. [client EXCEPT !.pc = "sending", !.xid = x, !.sent = n, !.got = g] \in ClientType
      <4>1. 1 \in Conns
        BY Bounds DEF Conns
      <4> QED
        BY <3>2, <4>1, ClientExcept
    <3> QED
      BY <3>1, <3>3 DEF ClientOK
  <2>2. CallsOK'
    BY <1>1 DEF Call, CallsOK
  <2> QED
    BY TypesFrame, <1>1, <2>1, <2>2 DEF Call
<1>2. CASE SendPiece
  <2>0. client.sent + 1 \in 0..2
    BY <1>2 DEF SendPiece, Caller, Calling
  <2>1. ClientOK'
    BY <1>2, <2>0 DEF SendPiece, ClientOK, ClientType
  <2>2. [xid |-> Cur, part |-> client.sent + 1] \in Piece
    BY <1>2, CurType DEF SendPiece, ClientOK, ClientType, Caller, Calling, Waiting, Piece
  <2>3. UpOK'
    BY <1>2, <2>2 DEF SendPiece, UpOK, ClientOK, ClientType
  <2> QED
    BY TypesFrame, <1>2, <2>1, <2>3 DEF SendPiece
<1>3. CASE ReadPiece
  <2> DEFINE c == client.conn
             z == Head(s2c[c])
             got == Append(client.got, z)
  <2>1. c \in Conns /\ s2c[c] # <<>> /\ s2c[c] \in Seq(ReplyPiece) /\ client.got \in Seq(ReplyPiece)
    BY <1>3 DEF ReadPiece, ClientOK, ClientType, DownOK
  <2>2. z \in ReplyPiece /\ Tail(s2c[c]) \in Seq(ReplyPiece) /\ got \in Seq(ReplyPiece)
    BY <2>1, HeadTailProperties, AppendProperties
  <2>3. DownOK'
    BY <1>3, <2>2 DEF ReadPiece, DownOK
  <2>4. HistoryOK'
    BY <1>3, <2>2 DEF ReadPiece, HistoryOK, ReplyPiece
  <2>5. ClientOK' /\ CallsOK'
    <3>1. CASE got[1].part = 1 /\ Len(got) = 2
      BY <1>3, <3>1, ReturnTypes DEF ReadPiece, RecvReply
    <3>2. CASE ~(got[1].part = 1 /\ Len(got) = 2)
      <4>1. client' = [client EXCEPT !.got = got] /\ UNCHANGED <<calls, outcome>>
        BY <1>3, <3>2 DEF ReadPiece
      <4> QED
        BY <2>2, <4>1 DEF ClientOK, ClientType, CallsOK
    <3> QED
      BY <3>1, <3>2
  <2> QED
    BY TypesFrame, <1>3, <2>3, <2>4, <2>5 DEF ReadPiece
<1>4. CASE RecvGarbage
  <2>1. ClientOK' /\ CallsOK'
    BY <1>4, ReturnTypes DEF RecvGarbage
  <2> QED
    BY TypesFrame, <1>4, <2>1 DEF RecvGarbage
<1>5. CASE ConnectionLost
  <2>1. ClientOK' /\ CallsOK'
    BY <1>5, ReturnTypes DEF ConnectionLost
  <2> QED
    BY TypesFrame, <1>5, <2>1 DEF ConnectionLost
<1>6. CASE Cancel
  <2>1. ClientOK' /\ CallsOK'
    BY <1>6, ReturnTypes DEF Cancel
  <2>2. HistoryOK'
    BY <1>6 DEF Cancel, HistoryOK
  <2> QED
    BY TypesFrame, <1>6, <2>1, <2>2 DEF Cancel
<1>7. CASE Reconnect
  <2>0. client.conn + 1 \in Conns /\ <<>> \in Seq(ReplyPiece)
    BY <1>7, Bounds, EmptySeq DEF Reconnect, ClientOK, ClientType, Conns
  <2>1. ClientOK'
    <3> DEFINE c == client.conn + 1
               n == 0
               g == <<>>
    <3>1. client' = [client EXCEPT !.conn = c, !.pc = "sending", !.sent = n, !.got = g]
      BY <1>7 DEF Reconnect
    <3>2. client \in ClientType /\ c \in Conns /\ n \in 0..2 /\ g \in Seq(ReplyPiece)
      BY <2>0 DEF ClientOK
    <3> HIDE DEF c, n, g
    <3>3. [client EXCEPT !.conn = c, !.pc = "sending", !.sent = n, !.got = g] \in ClientType
      <4>1. 1 \in 1..(MaxCalls + 1)
        BY Bounds
      <4> QED
        BY <3>2, <4>1, ClientExcept
    <3> QED
      BY <3>1, <3>3 DEF ClientOK
  <2>2. ServerOK'
    BY <1>7, <2>0, ServingTypes DEF Reconnect
  <2>3. TasksOK'
    <3>1. client.conn \in Conns
      BY DEF ClientOK, ClientType
    <3>2. PICK a \in {addr[client.conn], client.conn + 1} :
            addr' = [addr EXCEPT ![client.conn + 1] = a]
      BY <1>7 DEF Reconnect
    <3>3. a \in Conns
      BY <2>0, <3>1, <3>2 DEF TasksOK
    <3> QED
      BY <1>7, <2>0, <3>2, <3>3 DEF Reconnect, TasksOK
  <2> QED
    BY TypesFrame, <1>7, <2>1, <2>2, <2>3 DEF Reconnect
<1> QED
    BY <1>1, <1>2, <1>3, <1>4, <1>5, <1>6, <1>7 DEF ClientStep

\* The queues of a connection change.
LEMMA ServerTypes ==
    ASSUME Types, NEW c \in Conns, ProcessSocket(c)
    PROVE  Types'
<1> USE DEF Types
<1>0. /\ c2s[c] \in Seq(Piece) /\ pipe[c] \in Seq(Piece) /\ s2c[c] \in Seq(ReplyPiece)
      /\ replies[c] \in Seq(Reply) /\ Holding(server[c])
    BY DEF UpOK, DownOK, ServerOK
<1>1. CASE ReadSocket(c)
  <2>1. /\ Head(c2s[c]) \in Piece /\ Tail(c2s[c]) \in Seq(Piece)
        /\ Append(pipe[c], Head(c2s[c])) \in Seq(Piece)
    BY <1>0, <1>1, HeadTailProperties, AppendProperties DEF ReadSocket
  <2>2. UpOK'
    BY <1>1, <2>1 DEF ReadSocket, UpOK
  <2>3. ServerOK'
    <3>1. <<Head(c2s[c])>> \in Seq(Piece) /\ Len(<<Head(c2s[c])>>) = 1
      BY <2>1
    <3>2. \/ UNCHANGED server
          \/ server' = [server EXCEPT ![c] = Serving("feeding", <<Head(c2s[c])>>)]
      BY <1>1 DEF ReadSocket
    <3> QED
      BY <3>1, <3>2, ServingTypes, TypesFrame
  <2> QED
    BY <1>1, <2>2, <2>3, TypesFrame DEF ReadSocket
<1>2. CASE FeedPipe(c)
  <2>1. pipe[c] \o server[c].out \in Seq(Piece)
    BY <1>0, <1>2, ConcatProperties DEF FeedPipe, Holding
  <2>2. UpOK'
    BY <1>2, <2>1 DEF FeedPipe, UpOK
  <2>3. ServerOK'
    BY <1>2, ServingTypes DEF FeedPipe
  <2> QED
    BY <1>2, <2>2, <2>3, TypesFrame DEF FeedPipe
<1>3. CASE SocketEnds(c)
  <2>1. ServerOK'
    BY <1>3, ServingTypes DEF SocketEnds
  <2> QED
    BY <1>3, <2>1, TypesFrame DEF SocketEnds
<1>4. CASE TakeReply(c)
  <2> DEFINE r == Head(replies[c])
             out == [i \in 1..2 |-> [xid |-> r.xid, part |-> i, stat |-> r.stat]]
  <2>1. r \in Reply /\ Tail(replies[c]) \in Seq(Reply) /\ <<>> \in Seq(Reply)
    BY <1>0, <1>4, HeadTailProperties, EmptySeq DEF TakeReply
  <2>2. DownOK'
    BY <1>4, <2>1 DEF TakeReply, DownOK
  <2>3. ServerOK'
    <3>1. CASE r.stat = "Err"
      BY <1>4, <3>1, ServingTypes DEF TakeReply
    <3>2. CASE r.stat # "Err"
      <4>1. \A i \in 1..2 : [xid |-> r.xid, part |-> i, stat |-> r.stat] \in ReplyPiece
        BY <2>1, <3>2 DEF Reply, ReplyPiece
      <4>2. out \in Seq(ReplyPiece) /\ Len(out) = 2
        BY <4>1
      <4>3. out # <<>>
        BY <4>2, EmptySeq
      <4>4. server' = [server EXCEPT ![c] = Serving("replying", out)]
        BY <1>4, <3>2 DEF TakeReply
      <4> HIDE DEF out
      <4> QED
        BY <4>2, <4>3, <4>4, ServingTypes
    <3> QED
      BY <3>1, <3>2
  <2> QED
    BY <1>4, <2>2, <2>3, TypesFrame DEF TakeReply
<1>5. CASE WriteFragment(c)
  <2> DEFINE out == server[c].out
  <2>1. out \in Seq(ReplyPiece) /\ out # <<>>
    BY <1>0, <1>5 DEF WriteFragment, Holding
  <2>2. /\ Head(out) \in ReplyPiece /\ Tail(out) \in Seq(ReplyPiece)
        /\ Append(s2c[c], Head(out)) \in Seq(ReplyPiece)
    BY <1>0, <2>1, HeadTailProperties, AppendProperties
  <2>3. DownOK'
    <3>1. s2c' = [s2c EXCEPT ![c] = IF Gone(c) THEN @ ELSE Append(@, Head(out))]
      BY <1>5 DEF WriteFragment
    <3> HIDE DEF out
    <3> QED
      BY <1>0, <1>5, <2>2, <3>1 DEF WriteFragment, DownOK
  <2>4. ServerOK'
    <3>1. CASE Gone(c) \/ Tail(out) = <<>>
      BY <1>5, <3>1, ServingTypes DEF WriteFragment
    <3>2. CASE ~(Gone(c) \/ Tail(out) = <<>>)
      <4>1. server' = [server EXCEPT ![c] = Serving("replying", Tail(out))]
        BY <1>5, <3>2 DEF WriteFragment
      <4> QED
        BY <2>2, <3>2, <4>1, ServingTypes
    <3> QED
      BY <3>1, <3>2
  <2> QED
    BY <1>5, <2>3, <2>4, TypesFrame DEF WriteFragment
<1> QED
    BY <1>1, <1>2, <1>3, <1>4, <1>5 DEF ProcessSocket

\* The message loop takes the next piece.
LEMMA LoopTypes ==
    ASSUME Types, NEW c \in Conns, ReadMessage(c)
    PROVE  Types'
<1> USE DEF Types
<1> DEFINE msg == Append(fragment[c], Head(pipe[c]))
<1>1. /\ pipe[c] \in Seq(Piece) /\ fragment[c] \in Seq(Piece) /\ pipe[c] # <<>>
    BY DEF UpOK, ReadMessage
<1>2. Head(pipe[c]) \in Piece /\ Tail(pipe[c]) \in Seq(Piece) /\ msg \in Seq(Piece) /\ msg # <<>>
    BY <1>1, HeadTailProperties, AppendProperties
<1>3. UpOK'
  <2>1. /\ pipe' = [pipe EXCEPT ![c] = Tail(@)] /\ UNCHANGED c2s
        /\ \/ fragment' = [fragment EXCEPT ![c] = msg]
           \/ fragment' = [fragment EXCEPT ![c] = <<>>]
    BY DEF ReadMessage
  <2>2. <<>> \in Seq(Piece)
    BY EmptySeq
  <2> HIDE DEF msg
  <2> QED
    BY <1>2, <2>1, <2>2 DEF UpOK
<1>4. TasksOK'
  <2>1. Head(msg) \in Piece /\ Last(msg) \in Piece
    <3>0. Len(msg) = Len(fragment[c]) + 1 /\ Len(fragment[c]) \in Nat
      BY <1>1, <1>2, AppendProperties, LenProperties
    <3> HIDE DEF msg
    <3>1. Len(msg) \in 1..Len(msg)
      BY <3>0
    <3>2. msg[Len(msg)] \in Piece
      BY <1>2, <3>1, ElementOfSeq
    <3> QED
      BY <1>2, <3>2, HeadTailProperties DEF Last
  <2>2. [conn |-> c, head |-> Head(msg), tail |-> Last(msg), pc |-> "spawned"] \in Task
    <3> HIDE DEF msg
    <3> QED
      BY <2>1 DEF Task
  <2>3. UNCHANGED tasks \/ Spawn(c, msg)
    BY DEF ReadMessage
  <2> QED
    BY <2>2, <2>3 DEF TasksOK, ReadMessage, Spawn
<1> QED
    BY <1>3, <1>4, TypesFrame DEF ReadMessage

\* The tracker knows a task by its address and xid.
LEMMA KeyType ==
    ASSUME Types, NEW t \in Task
    PROVE  Key(t) \in Keys
BY DEF Types, TasksOK, Task, Piece, Keys, Key

\* A transaction that is new, or that was forgotten, is entered.
Enters(k, how) ==
    /\ tracker' = [tracker EXCEPT ![k] = how]
    /\ \/ tracker[k] = "none" /\ runs' = [runs EXCEPT ![k] = @]
       \/ tracker[k] = "done" /\ runs' = [runs EXCEPT ![k] = 0]

\* What becomes of a message: an answer other than SUCCESS, nothing, or a
\* locked transaction and the handler.
LEMMA HandleCases ==
    ASSUME NEW t \in tasks, HandleRpcMessage(t)
    PROVE  \/ /\ \E stat \in (Stats \ {"SUCCESS"}) \cup {"Err"} : SendReply(t, stat)
              /\ UNCHANGED <<tracker, runs>> \/ Enters(Key(t), "done")
           \/ tasks' = tasks \ {t} /\ UNCHANGED <<tracker, replies, runs>>
           \/ /\ Enters(Key(t), "running") /\ Move(t, "running")
              /\ \E call \in Decoded(t) : Screen(call) = "lock"
<1> DEFINE k == Key(t)
<1>1. PICK call \in Decoded(t), forgotten \in Forgotten(k) :
        IF Screen(call) # "lock"
        THEN SendReply(t, Screen(call)) /\ UNCHANGED <<tracker, runs>>
        ELSE CASE LockTransaction(k, forgotten) = "AlreadyExists" ->
                    tasks' = tasks \ {t} /\ UNCHANGED <<tracker, replies, runs>>
               [] LockTransaction(k, forgotten) = "TooManyRequests" ->
                    SendReply(t, "SYSTEM_ERR") /\ UNCHANGED <<tracker, runs>>
               [] OTHER ->
                    /\ Admit(t, call)
                    /\ runs' = [runs EXCEPT ![k] = IF forgotten THEN 0 ELSE @]
    BY Zenon DEF HandleRpcMessage
<1> DEFINE lock == LockTransaction(k, forgotten)
<1>2. /\ Screen(call) \in {"Err", "RPC_MISMATCH", "lock"} /\ Dispatch(call) \in Stats
      /\ "RPC_MISMATCH" \in Stats \ {"SUCCESS"} /\ "SYSTEM_ERR" \in Stats \ {"SUCCESS"}
    BY DispatchTypes DEF Stats
<1>3. lock \in {"AlreadyExists", "TooManyRequests", "locked"}
      /\ (lock = "locked" => tracker[k] = "none" \/ forgotten)
    BY DEF LockTransaction
<1>4. forgotten => tracker[k] = "done"
    BY Zenon DEF Forgotten
<1> HIDE DEF k, lock
<1>5. CASE Screen(call) # "lock"
  <2>1. SendReply(t, Screen(call)) /\ UNCHANGED <<tracker, runs>>
    BY <1>1, <1>5
  <2>2. Screen(call) \in (Stats \ {"SUCCESS"}) \cup {"Err"}
    BY <1>2, <1>5
  <2> QED
    BY <2>1, <2>2
<1>6. CASE Screen(call) = "lock" /\ lock = "AlreadyExists"
    BY <1>1, <1>6 DEF lock
<1>7. CASE Screen(call) = "lock" /\ lock = "TooManyRequests"
  <2>1. SendReply(t, "SYSTEM_ERR") /\ UNCHANGED <<tracker, runs>>
    BY <1>1, <1>7 DEF lock
  <2> QED
    BY <1>2, <2>1
<1>8. CASE Screen(call) = "lock" /\ lock = "locked"
  <2>1. Admit(t, call) /\ runs' = [runs EXCEPT ![k] = IF forgotten THEN 0 ELSE @]
    BY <1>1, <1>8 DEF lock
  <2>2. \/ tracker[k] = "none" /\ runs' = [runs EXCEPT ![k] = @]
        \/ tracker[k] = "done" /\ runs' = [runs EXCEPT ![k] = 0]
    <3>1. CASE forgotten
      BY <1>4, <2>1, <3>1
    <3>2. CASE ~forgotten
      BY <1>3, <1>8, <2>1, <3>2
    <3> QED
      BY <3>1, <3>2, Zenon
  <2>3. CASE Dispatch(call) = "SUCCESS"
    <3>1. tracker' = [tracker EXCEPT ![k] = "running"] /\ Move(t, "running")
      BY <2>1, <2>3 DEF Admit, k
    <3> QED
      BY <1>8, <2>2, <3>1 DEF Enters, k
  <2>4. CASE Dispatch(call) # "SUCCESS"
    <3>1. Dispatch(call) \in (Stats \ {"SUCCESS"}) \cup {"Err"}
      BY <1>2, <2>4
    <3>2. tracker' = [tracker EXCEPT ![k] = "done"] /\ SendReply(t, Dispatch(call))
      BY <2>1, <2>4 DEF Admit, k
    <3> QED
      BY <2>2, <3>1, <3>2 DEF Enters, k
  <2> QED
    BY <2>3, <2>4
<1> QED
    BY <1>2, <1>3, <1>5, <1>6, <1>7, <1>8

\* A task ends with a reply, or goes on.
LEMMA ReplyTypes ==
    ASSUME Types, NEW t \in tasks, NEW stat \in Stats \cup {"Err"}, SendReply(t, stat),
           UNCHANGED s2c
    PROVE  DownOK' /\ tasks' \subseteq Task
<1>1. t \in Task /\ t.conn \in Conns /\ [xid |-> t.head.xid, stat |-> stat] \in Reply
    BY DEF Types, TasksOK, Task, Piece, Reply
<1>2. Append(replies[t.conn], [xid |-> t.head.xid, stat |-> stat]) \in Seq(Reply)
    BY <1>1, AppendProperties DEF Types, DownOK
<1>3. DownOK'
    BY <1>1, <1>2 DEF Types, DownOK, SendReply
<1> QED
    BY <1>3 DEF Types, TasksOK, SendReply

\* So does a task that goes on,
LEMMA MoveTypes ==
    ASSUME Types, NEW t \in tasks, NEW pc \in {"running", "signal"}, Move(t, pc), UNCHANGED s2c
    PROVE  DownOK' /\ tasks' \subseteq Task
<1>1. DownOK'
    BY DEF Types, DownOK, Move
<1>2. [t EXCEPT !.pc = pc] \in Task
    BY DEF Types, TasksOK, Task
<1> QED
    BY <1>1, <1>2 DEF Types, TasksOK, Move

\* and every step of a task.
LEMMA TaskTypes ==
    ASSUME Types, NEW t \in tasks, TaskStep(t)
    PROVE  Types'
<1>0. t \in Task /\ t.head.xid \in Xids /\ Key(t) \in Keys
    BY KeyType DEF Types, TasksOK, Task, Piece
<1> DEFINE k == Key(t)
<1> HIDE DEF k
<1>1. CASE HandleRpcMessage(t)
  <2>0. UNCHANGED <<client, calls, outcome, c2s, s2c, server, pipe, fragment, signals,
                    executed, addr, seen, torn>>
    BY <1>1, Zenon DEF HandleRpcMessage
  <2>1. DownOK' /\ tasks' \subseteq Task
    <3>1. CASE \E stat \in (Stats \ {"SUCCESS"}) \cup {"Err"} : SendReply(t, stat)
      BY <2>0, <3>1, ReplyTypes
    <3>2. CASE tasks' = tasks \ {t} /\ UNCHANGED replies
      BY <2>0, <3>2 DEF Types, TasksOK, DownOK
    <3>3. CASE Move(t, "running")
      BY <2>0, <3>3, MoveTypes
    <3> QED
      BY <1>1, <3>1, <3>2, <3>3, HandleCases
  <2>2. tracker' \in [Keys -> {"none", "running", "done"}] /\ runs' \in [Keys -> Nat]
    <3>1. \/ UNCHANGED <<tracker, runs>>
          \/ Enters(k, "done")
          \/ Enters(k, "running")
      BY <1>1, HandleCases DEF k
    <3>2. ASSUME NEW how \in {"running", "done"}, Enters(k, how)
          PROVE  tracker' \in [Keys -> {"none", "running", "done"}] /\ runs' \in [Keys -> Nat]
      BY <1>0, <3>2 DEF Types, TasksOK, HistoryOK, Enters, k
    <3> QED
      BY <3>1, <3>2 DEF Types, TasksOK, HistoryOK
  <2>3. TasksOK'
    BY <2>0, <2>1, <2>2 DEF Types, TasksOK
  <2>4. HistoryOK'
    BY <2>0, <2>2 DEF Types, HistoryOK
  <2> QED
    BY <2>0, <2>1, <2>3, <2>4, TypesFrame DEF Types
<1>2. ASSUME Complete(t), UNCHANGED <<s2c, addr>> PROVE TasksOK' /\ DownOK'
  <2>1. "SUCCESS" \in Stats
    BY DEF Stats
  <2>2. DownOK' /\ tasks' \subseteq Task
    BY <1>2, <2>1, ReplyTypes DEF Complete
  <2> QED
    BY <1>0, <1>2, <2>2 DEF Types, TasksOK, Complete
<1>3. CASE RunHandler(t)
  <2>1. HistoryOK'
    <3>1. [conn |-> t.conn, head |-> t.head, tail |-> t.tail] \in Message
      BY <1>0 DEF Task, Message
    <3>2. runs' = [runs EXCEPT ![k] = @ + 1]
      BY <1>3 DEF RunHandler, k
    <3> QED
      BY <1>0, <1>3, <3>1, <3>2 DEF Types, HistoryOK, RunHandler, k
  <2>2. TasksOK' /\ DownOK'
    <3>1. CASE Move(t, "signal") /\ UNCHANGED tracker
      BY <1>3, <3>1, MoveTypes DEF RunHandler, Types, TasksOK
    <3>2. CASE Complete(t)
      BY <1>2, <1>3, <3>2 DEF RunHandler
    <3> QED
      BY <1>3, <3>1, <3>2 DEF RunHandler
  <2> QED
    BY <1>3, <2>1, <2>2, TypesFrame DEF Types, RunHandler
<1>4. CASE SendSignal(t)
  <2>1. HistoryOK'
    BY <1>4, Bounds DEF Types, HistoryOK, SendSignal
  <2>2. TasksOK' /\ DownOK'
    BY <1>2, <1>4 DEF SendSignal
  <2> QED
    BY <1>4, <2>1, <2>2, TypesFrame DEF Types, SendSignal
<1>5. CASE Panic(t)
  <2>1. HistoryOK'
    <3>1. runs' = [runs EXCEPT ![k] = @ + 1]
      BY <1>5 DEF Panic, k
    <3> QED
      BY <1>0, <1>5, <3>1 DEF Types, HistoryOK, Panic, k
  <2>2. TasksOK'
    BY <1>0, <1>5 DEF Types, TasksOK, Panic
  <2> QED
    BY <1>5, <2>1, <2>2, TypesFrame DEF Types, Panic
<1> QED
    BY <1>1, <1>3, <1>4, <1>5 DEF TaskStep

\* Every step keeps the types.
LEMMA TypesStep ==
    ASSUME Types, Caller, [Next]_vars
    PROVE  Types'
<1>1. ASSUME NEW c \in Conns, ProcessSocket(c) \/ ReadMessage(c) PROVE Types'
    BY <1>1, ServerTypes, LoopTypes
<1>2. ASSUME NEW t \in tasks, TaskStep(t) PROVE Types'
    BY <1>2, TaskTypes
<1>3. CASE Listen
  <2>1. HistoryOK'
    BY <1>3, Bounds DEF Types, HistoryOK, Listen
  <2> QED
    BY <1>3, <2>1, TypesFrame DEF Types, Listen
<1>4. CASE UNCHANGED vars
    BY <1>4, TypesFrame DEF Types, vars, serverVars
<1> QED
    BY <1>1, <1>2, <1>3, <1>4, ClientTypes DEF Next

-----------------------------------------------------------------------------
(* Room in the streams.                                                    *)

\* SendPiece, ReadSocket, FeedPipe and WriteFragment wait for room.
LEMMA RoomsStep ==
    ASSUME Types, Rooms, Next
    PROVE  Rooms'
<1> USE DEF Types
<1>0. \A c \in Conns : /\ c2s[c] \in Seq(Piece) /\ pipe[c] \in Seq(Piece)
                       /\ s2c[c] \in Seq(ReplyPiece)
                       /\ Len(c2s[c]) \in Nat /\ Len(pipe[c]) \in Nat /\ Len(s2c[c]) \in Nat
    BY LenProperties DEF UpOK, DownOK
<1>1. CASE UNCHANGED <<c2s, s2c, pipe>>
    BY <1>1 DEF Rooms
<1>2. CASE SendPiece
  <2> DEFINE z == [xid |-> Cur, part |-> client.sent + 1]
  <2>1. client.conn \in Conns
    BY DEF ClientOK, ClientType
  <2>2. /\ c2s' = [c2s EXCEPT ![client.conn] = Append(@, z)] /\ UNCHANGED <<s2c, pipe>>
        /\ Len(c2s[client.conn]) < SocketRoom
    BY <1>2 DEF SendPiece, serverVars
  <2> HIDE DEF z
  <2>3. Len(Append(c2s[client.conn], z)) = Len(c2s[client.conn]) + 1
    BY <1>0, <2>1
  <2>4. ASSUME NEW d \in Conns PROVE Len(c2s'[d]) <= SocketRoom
    BY <1>0, <2>1, <2>2, <2>3, Bounds DEF Rooms, UpOK
  <2> QED
    BY <2>2, <2>4 DEF Rooms
<1>3. CASE ReadPiece
  <2>1. client.conn \in Conns
    BY DEF ClientOK, ClientType
  <2>2. /\ s2c' = [s2c EXCEPT ![client.conn] = Tail(@)] /\ UNCHANGED <<c2s, pipe>>
        /\ s2c[client.conn] # <<>>
    BY <1>3 DEF ReadPiece, serverVars
  <2>3. Len(Tail(s2c[client.conn])) = Len(s2c[client.conn]) - 1
    BY <1>0, <2>1, <2>2, HeadTailProperties
  <2>4. ASSUME NEW d \in Conns PROVE Len(s2c'[d]) <= SocketRoom
    BY <1>0, <2>1, <2>2, <2>3, Bounds DEF Rooms, DownOK
  <2> QED
    BY <2>2, <2>4 DEF Rooms
<1>4. ASSUME NEW c \in Conns, ReadSocket(c) PROVE Rooms'
  <2>1. /\ c2s' = [c2s EXCEPT ![c] = Tail(@)] /\ UNCHANGED s2c /\ c2s[c] # <<>>
        /\ \/ UNCHANGED pipe
           \/ Len(pipe[c]) < PipeRoom /\ pipe' = [pipe EXCEPT ![c] = Append(@, Head(c2s[c]))]
    BY <1>4 DEF ReadSocket
  <2>2. Len(Tail(c2s[c])) = Len(c2s[c]) - 1 /\ Head(c2s[c]) \in Piece
    BY <1>0, <2>1, HeadTailProperties
  <2>3. Len(Append(pipe[c], Head(c2s[c]))) = Len(pipe[c]) + 1
    BY <1>0, <2>2, AppendProperties
  <2>4. ASSUME NEW d \in Conns PROVE Len(c2s'[d]) <= SocketRoom
    BY <1>0, <2>1, <2>2, Bounds DEF Rooms, UpOK
  <2>5. ASSUME NEW d \in Conns PROVE Len(pipe'[d]) <= PipeRoom
    <3>1. CASE UNCHANGED pipe
      BY <3>1 DEF Rooms
    <3>2. CASE /\ Len(pipe[c]) < PipeRoom
               /\ pipe' = [pipe EXCEPT ![c] = Append(@, Head(c2s[c]))]
      BY <1>0, <2>3, <3>2, Bounds DEF Rooms, UpOK
    <3> QED
      BY <2>1, <3>1, <3>2
  <2> QED
    BY <2>1, <2>4, <2>5 DEF Rooms
<1>5. ASSUME NEW c \in Conns, FeedPipe(c) PROVE Rooms'
  <2>1. /\ pipe' = [pipe EXCEPT ![c] = @ \o server[c].out] /\ UNCHANGED <<c2s, s2c>>
        /\ Len(pipe[c]) < PipeRoom
    BY <1>5 DEF FeedPipe
  <2>2. server[c].out \in Seq(Piece) /\ Len(server[c].out) = 1
    BY <1>5 DEF FeedPipe, ServerOK, Holding
  <2>3. Len(pipe[c] \o server[c].out) = Len(pipe[c]) + 1
    <3> DEFINE o == server[c].out
    <3>1. o \in Seq(Piece) /\ Len(o) = 1 /\ pipe[c] \in Seq(Piece)
      BY <1>0, <2>2
    <3> HIDE DEF o
    <3>2. Len(pipe[c] \o o) = Len(pipe[c]) + 1
      BY <3>1, ConcatProperties
    <3> QED
      BY <3>2 DEF o
  <2>5. ASSUME NEW d \in Conns PROVE Len(pipe'[d]) <= PipeRoom
    BY <1>0, <2>1, <2>3, Bounds DEF Rooms, UpOK
  <2> QED
    BY <2>1, <2>5 DEF Rooms
<1>6. ASSUME NEW c \in Conns, WriteFragment(c) PROVE Rooms'
  <2> DEFINE z == Head(server[c].out)
  <2>1. /\ \/ UNCHANGED s2c
           \/ Len(s2c[c]) < SocketRoom /\ s2c' = [s2c EXCEPT ![c] = Append(@, z)]
        /\ UNCHANGED <<c2s, pipe>>
    BY <1>6 DEF WriteFragment, DownOK
  <2> HIDE DEF z
  <2>2. Len(Append(s2c[c], z)) = Len(s2c[c]) + 1
    BY <1>0
  <2>3. ASSUME NEW d \in Conns PROVE Len(s2c'[d]) <= SocketRoom
    <3>1. CASE UNCHANGED s2c
      BY <3>1 DEF Rooms
    <3>2. CASE Len(s2c[c]) < SocketRoom /\ s2c' = [s2c EXCEPT ![c] = Append(@, z)]
      BY <1>0, <2>2, <3>2, Bounds DEF Rooms, DownOK
    <3> QED
      BY <2>1, <3>1, <3>2
  <2> QED
    BY <2>1, <2>3 DEF Rooms
<1>7. ASSUME NEW c \in Conns, ReadMessage(c) PROVE Rooms'
  <2>1. pipe' = [pipe EXCEPT ![c] = Tail(@)] /\ UNCHANGED <<c2s, s2c>> /\ pipe[c] # <<>>
    BY <1>7 DEF ReadMessage
  <2>2. Len(Tail(pipe[c])) = Len(pipe[c]) - 1
    BY <1>0, <2>1, HeadTailProperties
  <2>3. ASSUME NEW d \in Conns PROVE Len(pipe'[d]) <= PipeRoom
    BY <1>0, <2>1, <2>2, Bounds DEF Rooms, UpOK
  <2> QED
    BY <2>1, <2>3 DEF Rooms
<1>8. ASSUME NEW b \in Bodies, Call(b) PROVE Rooms'
    BY <1>1, <1>8 DEF Call, serverVars
<1>9. CASE RecvGarbage \/ ConnectionLost \/ Cancel \/ Reconnect \/ Listen
    BY <1>1, <1>9 DEF RecvGarbage, ConnectionLost, Cancel, Reconnect, Listen, serverVars
<1>10. ASSUME NEW c \in Conns, SocketEnds(c) \/ TakeReply(c) PROVE Rooms'
    BY <1>1, <1>10 DEF SocketEnds, TakeReply
<1>11. ASSUME NEW t \in tasks, TaskStep(t) PROVE Rooms'
    BY <1>1, <1>11 DEF TaskStep, HandleRpcMessage, RunHandler, Panic, SendSignal
<1> QED
    BY <1>2, <1>3, <1>4, <1>5, <1>6, <1>7, <1>8, <1>9, <1>10, <1>11
       DEF Next, ClientStep, ProcessSocket

-----------------------------------------------------------------------------
(* The caller.                                                             *)

\* A call that returns has an outcome, and nothing else changes.
LEMMA ReturnOutcome ==
    ASSUME Types, Calling, Waiting, NEW res, NEW pc \in {"idle", "gone"}, Return(res, pc)
    PROVE  /\ Cur \in Xids /\ outcome[Cur] = "pending" /\ client.xid = Cur + 1
           /\ \A x \in Xids : outcome'[x] = IF x = Cur THEN res ELSE outcome[x]
           /\ client'.xid = client.xid /\ client'.conn = client.conn /\ client'.sent = client.sent
           /\ client'.pc = pc /\ client'.got = <<>>
<1>1. Cur \in Xids /\ outcome[Cur] = "pending" /\ client.xid = Cur + 1
    BY CurType DEF Types, Calling, Cur, ClientOK, ClientType
<1>2. \A x \in Xids : outcome'[x] = IF x = Cur THEN res ELSE outcome[x]
    BY <1>1 DEF Types, CallsOK, Return
<1> QED
    BY <1>1, <1>2 DEF Types, ClientOK, ClientType, Return

\* A call that returns is the pending one.
LEMMA ReturnCalling ==
    ASSUME Types, Calling, Waiting, NEW res, NEW pc \in {"idle", "gone"}, Return(res, pc),
           res \notin {"none", "pending"}, UNCHANGED calls
    PROVE  Calling'
<1>1. /\ Cur \in Xids /\ outcome[Cur] = "pending" /\ client.xid = Cur + 1
      /\ \A x \in Xids : outcome'[x] = IF x = Cur THEN res ELSE outcome[x]
      /\ client'.xid = client.xid /\ client'.conn = client.conn /\ client'.sent = client.sent
      /\ client'.pc = pc /\ client'.got = <<>>
    BY ReturnOutcome
<1>2. Xids \subseteq Int /\ Cur' = Cur /\ ~Waiting'
    BY <1>1 DEF Xids, Cur, Waiting
<1>3. ASSUME NEW x \in Xids
      PROVE  /\ x >= client'.xid => outcome'[x] = "none"
             /\ x < client'.xid => calls'[x] \in Bodies /\ outcome'[x] # "none"
             /\ outcome'[x] = "pending" => x = Cur' /\ Waiting'
    BY <1>1, <1>2 DEF Calling
<1> QED
    BY <1>1, <1>2, <1>3 DEF Calling

\* The piece the client reads, and what it has read with it.
LEMMA ReadPieceTypes ==
    ASSUME Types, ReadPiece
    PROVE  LET got == Append(client.got, Head(s2c[client.conn])) IN
           /\ client.conn \in Conns /\ s2c[client.conn] \in Seq(ReplyPiece)
           /\ s2c[client.conn] # <<>> /\ Head(s2c[client.conn]) \in ReplyPiece
           /\ Tail(s2c[client.conn]) \in Seq(ReplyPiece)
           /\ got \in Seq(ReplyPiece) /\ got[1] \in ReplyPiece /\ Len(got) = Len(client.got) + 1
           /\ client.got \in Seq(ReplyPiece)
<1> DEFINE got == Append(client.got, Head(s2c[client.conn]))
<1>1. /\ client.conn \in Conns /\ s2c[client.conn] # <<>>
      /\ s2c[client.conn] \in Seq(ReplyPiece) /\ client.got \in Seq(ReplyPiece)
    BY DEF Types, ClientOK, ClientType, DownOK, ReadPiece
<1>2. Head(s2c[client.conn]) \in ReplyPiece /\ Tail(s2c[client.conn]) \in Seq(ReplyPiece)
    BY <1>1, HeadTailProperties
<1>3. got \in Seq(ReplyPiece) /\ Len(got) = Len(client.got) + 1
    BY <1>1, <1>2, AppendProperties
<1>4. Len(got) \in Nat /\ 1 \in 1..Len(got)
    BY <1>1, <1>3, LenProperties
<1> HIDE DEF got
<1>5. got[1] \in ReplyPiece
    BY <1>3, <1>4, ElementOfSeq
<1> QED
    BY <1>1, <1>2, <1>3, <1>5 DEF got

\* What RecvReply makes of a whole reply.
LEMMA RecvReplyReturns ==
    ASSUME NEW r \in ReplyPiece, RecvReply(r)
    PROVE  \E res : /\ Return(res, "idle")
                    /\ res \notin {"none", "pending", "Cancelled", "Garbled", "Panic"}
                    /\ (res = "UnexpectedXid" <=> r.xid # Cur)
                    /\ (res = "Ok" => r.xid = Cur /\ r.stat = "SUCCESS")
<1> DEFINE res == IF r.xid # Cur THEN "UnexpectedXid" ELSE ClientResult(r.stat)
<1>1. r.stat \in Stats
    BY DEF ReplyPiece
<1>2. ClientResult(r.stat) \in Answers /\ (ClientResult(r.stat) = "Ok" => r.stat = "SUCCESS")
    BY <1>1, ResultTypes
<1>3. /\ res \notin {"none", "pending", "Cancelled", "Garbled", "Panic"}
      /\ (res = "UnexpectedXid" <=> r.xid # Cur)
      /\ (res = "Ok" => r.xid = Cur /\ r.stat = "SUCCESS")
    BY <1>2 DEF Answers
<1>4. Return(res, "idle")
    BY DEF RecvReply
<1> HIDE DEF res
<1> QED
    BY <1>3, <1>4

\* The calls of the client are made one after another.
LEMMA CallingStep ==
    ASSUME Types, Calling, Next
    PROVE  Calling'
<1>0. Xids \subseteq Int /\ client.xid \in Int /\ Cur = client.xid - 1
    BY DEF Types, ClientOK, ClientType, Xids, Cur
<1>1. ASSUME UNCHANGED <<client, calls, outcome>> PROVE Calling'
    BY <1>1 DEF Calling, Waiting, Cur
<1>2. ASSUME NEW b \in Bodies, Call(b) PROVE Calling'
  <2>1. /\ client'.pc = "sending" /\ client'.xid = client.xid + 1 /\ client'.sent = 0
        /\ client'.got = <<>>
    BY <1>2 DEF Call, Types, ClientOK, ClientType
  <2>2. client.xid \in Xids /\ Cur' = client.xid /\ Waiting' /\ client.pc = "idle"
    BY <1>2, <2>1 DEF Call, Types, ClientOK, ClientType, Xids, Cur, Waiting
  <2>3. \A x \in Xids : /\ outcome'[x] = IF x = client.xid THEN "pending" ELSE outcome[x]
                        /\ calls'[x] = IF x = client.xid THEN b ELSE calls[x]
    BY <1>2, <2>2 DEF Call, Types, CallsOK
  <2>4. ASSUME NEW x \in Xids
        PROVE  /\ x >= client'.xid => outcome'[x] = "none"
               /\ x < client'.xid => calls'[x] \in Bodies /\ outcome'[x] # "none"
               /\ outcome'[x] = "pending" => x = Cur' /\ Waiting'
    BY <1>0, <1>2, <2>1, <2>2, <2>3 DEF Calling, Waiting
  <2>5. Waiting' => client'.xid > 1 /\ outcome'[Cur'] = "pending"
    BY <2>1, <2>2, <2>3 DEF Xids
  <2> QED
    BY <2>1, <2>4, <2>5 DEF Calling
<1>3. CASE SendPiece
  <2>1. /\ client.pc = "sending" /\ client'.xid = client.xid /\ client'.sent = client.sent + 1
        /\ client'.got = client.got
        /\ client'.pc = IF client.sent = 1 THEN "receiving" ELSE "sending"
    BY <1>3 DEF SendPiece, Types, ClientOK, ClientType
  <2>2. UNCHANGED <<calls, outcome, Cur>> /\ Waiting /\ Waiting'
    BY <1>3, <2>1 DEF SendPiece, Cur, Waiting
  <2> QED
    BY <2>1, <2>2 DEF Calling
<1>4. CASE ReadPiece
  <2> DEFINE got == Append(client.got, Head(s2c[client.conn]))
  <2>0. Waiting /\ UNCHANGED calls /\ client.pc = "receiving"
    BY <1>4 DEF ReadPiece, Waiting
  <2>1. CASE got[1].part = 1 /\ Len(got) = 2
    <3>1. RecvReply(got[1]) /\ got[1] \in ReplyPiece
      BY <1>4, <2>1, ReadPieceTypes DEF ReadPiece
    <3> HIDE DEF got
    <3>2. PICK res : Return(res, "idle") /\ res \notin {"none", "pending"}
      BY <3>1, RecvReplyReturns
    <3> QED
      BY <2>0, <3>2, ReturnCalling
  <2>2. CASE ~(got[1].part = 1 /\ Len(got) = 2)
    <3>1. client' = [client EXCEPT !.got = got] /\ UNCHANGED outcome
      BY <1>4, <2>2 DEF ReadPiece
    <3>2. client'.pc = client.pc /\ client'.xid = client.xid /\ client'.sent = client.sent
      BY <3>1 DEF Types, ClientOK, ClientType
    <3> QED
      BY <2>0, <3>1, <3>2 DEF Calling, Waiting, Cur
  <2> QED
    BY <2>1, <2>2
<1>5. CASE RecvGarbage \/ ConnectionLost \/ Cancel
  <2>1. /\ Waiting /\ UNCHANGED calls
        /\ \E res \in {"Garbled", "Panic", "Io", "Cancelled"}, pc \in {"idle", "gone"} :
                Return(res, pc)
    BY <1>5 DEF RecvGarbage, ConnectionLost, Cancel, Waiting
  <2> QED
    BY <2>1, ReturnCalling
<1>6. CASE Reconnect
  <2>1. /\ client'.pc = "sending" /\ client'.xid = client.xid /\ client'.sent = 0
        /\ client'.got = <<>> /\ UNCHANGED <<calls, outcome>> /\ Waiting
    BY <1>6 DEF Reconnect, Types, ClientOK, ClientType, Waiting
  <2> QED
    BY <2>1 DEF Calling, Waiting, Cur
<1>7. CASE Listen
    BY <1>1, <1>7 DEF Listen
<1>8. ASSUME NEW c \in Conns, ProcessSocket(c) \/ ReadMessage(c) PROVE Calling'
    BY <1>1, <1>8
       DEF ProcessSocket, ReadSocket, FeedPipe, SocketEnds, TakeReply, WriteFragment, ReadMessage
<1>9. ASSUME NEW t \in tasks, TaskStep(t) PROVE Calling'
    BY <1>1, <1>9 DEF TaskStep, HandleRpcMessage, RunHandler, Panic, SendSignal
<1> QED
    BY <1>2, <1>3, <1>4, <1>5, <1>6, <1>7, <1>8, <1>9 DEF Next, ClientStep

\* A step changes connection c only.
Touches(c) ==
    /\ \A d \in Conns \ {c} :
        /\ server'[d] = server[d] /\ c2s'[d] = c2s[d] /\ pipe'[d] = pipe[d]
        /\ fragment'[d] = fragment[d] /\ replies'[d] = replies[d] /\ s2c'[d] = s2c[d]
    /\ \A t \in tasks' : t.conn = c \/ \E u \in tasks : u.conn = t.conn

\* The server's steps for a connection,
LEMMA ServerTouches ==
    ASSUME Types, NEW c \in Conns, ProcessSocket(c) \/ ReadMessage(c)
    PROVE  Touches(c) /\ UNCHANGED client
<1> USE DEF Types, UpOK, DownOK, ServerOK, Touches
<1>1. CASE ReadSocket(c)
    BY <1>1 DEF ReadSocket
<1>2. CASE FeedPipe(c)
    BY <1>2 DEF FeedPipe
<1>3. CASE SocketEnds(c)
    BY <1>3 DEF SocketEnds
<1>4. CASE TakeReply(c)
    BY <1>4 DEF TakeReply
<1>5. CASE WriteFragment(c)
    BY <1>5 DEF WriteFragment
<1>6. CASE ReadMessage(c)
  <2> DEFINE msg == Append(fragment[c], Head(pipe[c]))
  <2>1. UNCHANGED tasks \/ Spawn(c, msg)
    BY <1>6 DEF ReadMessage
  <2>2. \A t \in tasks' : t.conn = c \/ t \in tasks
    <3> HIDE DEF msg
    <3> QED
      BY <2>1 DEF Spawn
  <2> QED
    BY <1>6, <2>2 DEF ReadMessage
<1> QED
    BY <1>1, <1>2, <1>3, <1>4, <1>5, <1>6 DEF ProcessSocket

\* a reply
LEMMA ReplyTouches ==
    ASSUME Types, NEW t \in tasks, NEW stat, SendReply(t, stat)
    PROVE  /\ \A d \in Conns \ {t.conn} : replies'[d] = replies[d]
           /\ \A u \in tasks' : u \in tasks
<1> DEFINE z == [xid |-> t.head.xid, stat |-> stat]
<1>1. replies' = [replies EXCEPT ![t.conn] = IF Closed(t.conn) THEN @ ELSE Append(@, z)]
      /\ tasks' = tasks \ {t}
    BY DEF SendReply
<1> HIDE DEF z
<1> QED
    BY <1>1 DEF Types, DownOK

\* and the steps of a task touch no other connection.
LEMMA TaskTouches ==
    ASSUME Types, NEW t \in tasks, TaskStep(t)
    PROVE  /\ t.conn \in Conns /\ Touches(t.conn)
           /\ UNCHANGED <<client, calls, outcome, c2s, s2c, server, pipe, fragment, seen, torn>>
<1>0. t \in Task /\ t.conn \in Conns
    BY DEF Types, TasksOK, Task
<1>1. UNCHANGED <<client, calls, outcome, c2s, s2c, server, pipe, fragment, seen, torn>>
    BY DEF TaskStep, HandleRpcMessage, RunHandler, Panic, SendSignal
<1>2. ASSUME NEW pc, Move(t, pc)
      PROVE  UNCHANGED replies /\ \A u \in tasks' : u \in tasks \/ u.conn = t.conn
    BY <1>0, <1>2 DEF Move, Task
<1>3. /\ \A d \in Conns \ {t.conn} : replies'[d] = replies[d]
      /\ \A u \in tasks' : u \in tasks \/ u.conn = t.conn
  <2>1. CASE HandleRpcMessage(t)
    BY <1>2, <2>1, HandleCases, ReplyTouches
  <2>2. CASE RunHandler(t)
    BY <1>2, <2>2, ReplyTouches DEF RunHandler, Complete
  <2>3. CASE SendSignal(t)
    BY <2>3, ReplyTouches DEF SendSignal, Complete
  <2>4. CASE Panic(t)
    BY <2>4 DEF Panic
  <2> QED
    BY <2>1, <2>2, <2>3, <2>4 DEF TaskStep
<1> QED
    BY <1>0, <1>1, <1>3 DEF Touches

\* The calls of the client leave its other connections alone.
LEMMA ClientTouches ==
    ASSUME Types, ClientStep \/ Cancel \/ \E b \in Bodies : Call(b)
    PROVE  Touches(client.conn) /\ client'.conn = client.conn /\ client.conn \in Conns
           /\ UNCHANGED <<server, pipe, fragment, tasks, replies, addr, tracker, signals, executed,
                       runs>>
<1>0. client.conn \in Conns
    BY DEF Types, ClientOK, ClientType
<1>1. ASSUME NEW res, NEW pc, Return(res, pc) PROVE client'.conn = client.conn
    BY <1>1 DEF Return, Types, ClientOK, ClientType
<1>2. UNCHANGED <<server, pipe, fragment, tasks, replies, addr, tracker, signals, executed,
                       runs>>
    BY DEF ClientStep, SendPiece, ReadPiece, RecvGarbage, ConnectionLost, Cancel, Call, serverVars
<1>3. client'.conn = client.conn
  <2>1. CASE SendPiece
    BY <2>1 DEF SendPiece, Types, ClientOK, ClientType
  <2>2. CASE ReadPiece
    <3> DEFINE got == Append(client.got, Head(s2c[client.conn]))
    <3>1. RecvReply(got[1]) \/ client' = [client EXCEPT !.got = got]
      BY <2>2 DEF ReadPiece
    <3> HIDE DEF got
    <3> QED
      BY <1>1, <3>1 DEF RecvReply, Types, ClientOK, ClientType
  <2>3. CASE RecvGarbage \/ ConnectionLost \/ Cancel
    BY <1>1, <2>3 DEF RecvGarbage, ConnectionLost, Cancel
  <2>4. ASSUME NEW b \in Bodies, Call(b) PROVE client'.conn = client.conn
    BY <2>4 DEF Call, Types, ClientOK, ClientType
  <2> QED
    BY <2>1, <2>2, <2>3, <2>4 DEF ClientStep
<1>4. \A d \in Conns \ {client.conn} : c2s'[d] = c2s[d] /\ s2c'[d] = s2c[d]
    BY <1>0 DEF ClientStep, SendPiece, ReadPiece, RecvGarbage, ConnectionLost, Cancel, Call,
                Types, UpOK, DownOK
<1> QED
    BY <1>0, <1>2, <1>3, <1>4 DEF Touches

\* Nothing happens on a connection before the client opens it.
LEMMA UnusedStep ==
    ASSUME Types, Unused, Next
    PROVE  Unused'
<1>0. client.conn \in Int /\ Conns \subseteq Int
    BY DEF Types, ClientOK, ClientType, Conns
<1>1. ASSUME NEW c \in Conns, ~(c > client.conn), Touches(c), client'.conn = client.conn
      PROVE  Unused'
    BY <1>0, <1>1 DEF Unused, Touches
<1>2. ASSUME NEW c \in Conns, ProcessSocket(c) \/ ReadMessage(c) PROVE Unused'
  <2>1. c > client.conn => server[c].pc = "unborn" /\ pipe[c] = <<>>
    BY DEF Unused, Serving
  <2>2. server[c].pc \in {"select", "feeding", "replying"} \/ pipe[c] # <<>>
    BY <1>2 DEF ProcessSocket, ReadSocket, FeedPipe, SocketEnds, TakeReply, WriteFragment,
                ReadMessage
  <2>3. ~(c > client.conn)
    BY <2>1, <2>2
  <2> QED
    BY <1>1, <1>2, <2>3, ServerTouches
<1>3. ASSUME NEW t \in tasks, TaskStep(t) PROVE Unused'
    BY <1>1, <1>3, TaskTouches DEF Unused
<1>4. CASE Reconnect
  <2>1. client'.conn = client.conn + 1 /\ client.conn + 1 \in Conns
    BY <1>4, Bounds DEF Reconnect, Types, ClientOK, ClientType, Conns
  <2>2. \A d \in Conns : d # client.conn + 1 => server'[d] = server[d]
    BY <1>4 DEF Reconnect, Types, ServerOK
  <2>3. UNCHANGED <<c2s, s2c, pipe, fragment, replies, tasks>>
    BY <1>4 DEF Reconnect
  <2> QED
    BY <1>0, <2>1, <2>2, <2>3 DEF Unused
<1>5. CASE Listen
    BY <1>5 DEF Listen, Unused
<1>6. CASE ClientStep \/ Cancel \/ \E b \in Bodies : Call(b)
    BY <1>0, <1>1, <1>6, ClientTouches
<1> QED
    BY <1>2, <1>3, <1>4, <1>5, <1>6 DEF Next, ClientStep

-----------------------------------------------------------------------------
(* At most once.                                                           *)

\* The tasks keep their addresses.
LEMMA KeyStays ==
    ASSUME UNCHANGED addr, NEW t
    PROVE  Key(t)' = Key(t)
BY DEF Key

\* What is entered was not admitted, and has not run since.
LEMMA EntersOnce ==
    ASSUME Types, Once, NEW k \in Keys, NEW how \in {"running", "done"}, Enters(k, how)
    PROVE  /\ \A j \in Keys : tracker'[j] = IF j = k THEN how ELSE tracker[j]
           /\ \A j \in Keys : runs'[j] = IF j = k THEN 0 ELSE runs[j]
           /\ \A u \in tasks : u.pc # "spawned" => Key(u) # k
<1>1. tracker[k] # "running" /\ (tracker[k] = "none" => runs[k] = 0)
    BY DEF Enters, Once
<1> QED
    BY <1>1 DEF Types, TasksOK, HistoryOK, Enters, Once

\* A task that ends before it is admitted leaves the tracker's promise alone.
LEMMA ReplyOnce ==
    ASSUME Types, Once, NEW t \in tasks, tasks' = tasks \ {t}, UNCHANGED addr,
           UNCHANGED <<tracker, runs>> \/ Enters(Key(t), "done")
    PROVE  Once'
<1>0. \A u \in tasks : Key(u) \in Keys /\ Key(u)' = Key(u)
    BY KeyType, KeyStays DEF Types, TasksOK
<1>1. CASE UNCHANGED <<tracker, runs>>
    BY <1>0, <1>1 DEF Once, AtMostOnce
<1>2. CASE Enters(Key(t), "done")
  <2>1. PICK k \in Keys : k = Key(t)
    BY <1>0
  <2>2. /\ \A j \in Keys : tracker'[j] = IF j = k THEN "done" ELSE tracker[j]
        /\ \A j \in Keys : runs'[j] = IF j = k THEN 0 ELSE runs[j]
        /\ \A u \in tasks : u.pc # "spawned" => Key(u) # k
    BY <1>2, <2>1, EntersOnce
  <2> QED
    BY <1>0, <2>2 DEF Once, AtMostOnce
<1> QED
    BY <1>1, <1>2

\* A handler that has run, and ends or panics, is not run again.
LEMMA EndOnce ==
    ASSUME Types, Once, NEW t \in tasks, t.pc # "spawned", tasks' = tasks \ {t}, UNCHANGED addr,
           tracker' = [tracker EXCEPT ![Key(t)] = "done"],
           \/ UNCHANGED runs
           \/ t.pc = "running" /\ runs' = [runs EXCEPT ![Key(t)] = @ + 1]
    PROVE  Once'
<1>0. \A u \in tasks : Key(u) \in Keys /\ Key(u)' = Key(u)
    BY KeyType, KeyStays DEF Types, TasksOK
<1>1. PICK k \in Keys : k = Key(t)
    BY <1>0
<1>2. \A j \in Keys : tracker'[j] = IF j = k THEN "done" ELSE tracker[j]
    BY <1>1 DEF Types, TasksOK
<1>3. /\ \A j \in Keys : j # k => runs'[j] = runs[j]
      /\ runs'[k] <= 1
  <2>1. t.pc = "running" => runs[k] = 0
    BY <1>1 DEF Once
  <2>2. runs[k] <= 1
    BY DEF Once, AtMostOnce
  <2> QED
    BY <1>1, <2>1, <2>2 DEF Types, HistoryOK
<1>4. \A u \in tasks' : u.pc # "spawned" => Key(u) # k
    BY <1>1 DEF Once
<1> QED
    BY <1>0, <1>2, <1>3, <1>4 DEF Once, AtMostOnce

\* The tasks that are not moved are as before.
LEMMA MoveTasks ==
    ASSUME Types, NEW t \in tasks, NEW pc \in {"running", "signal"}, Move(t, pc)
    PROVE  LET m == [t EXCEPT !.pc = pc] IN
           /\ tasks' = (tasks \ {t}) \cup {m} /\ UNCHANGED replies
           /\ m \in Task /\ m.pc = pc /\ m.conn = t.conn /\ m.head = t.head /\ m.tail = t.tail
           /\ t.conn \in Conns /\ t.head \in Piece /\ t.tail \in Piece /\ t.head.xid \in Xids
BY DEF Types, TasksOK, Task, Piece, Move

\* lock_transaction admits one task per address and xid, and no other before it
\* has forgotten the first.
LEMMA OnceStep ==
    ASSUME Types, Unused, Once, Next
    PROVE  Once'
<1>0. \A u \in Task : Key(u) \in Keys
    BY KeyType
<1>00. tasks \subseteq Task
    BY DEF Types, TasksOK
<1>1. ASSUME UNCHANGED <<tasks, tracker, runs>>, \A u \in tasks : Key(u)' = Key(u) PROVE Once'
    BY <1>1 DEF Once, AtMostOnce
<1>01. ASSUME UNCHANGED addr PROVE \A u : Key(u)' = Key(u)
    BY <1>01, KeyStays
<1>2. ASSUME NEW c \in Conns, ReadMessage(c) PROVE Once'
  <2> DEFINE msg == Append(fragment[c], Head(pipe[c]))
             n == [conn |-> c, head |-> Head(msg), tail |-> Last(msg), pc |-> "spawned"]
  <2>1. UNCHANGED <<tracker, runs, addr>> /\ (UNCHANGED tasks \/ tasks' = tasks \cup {n})
    BY <1>2 DEF ReadMessage, Spawn
  <2>2. n.pc = "spawned"
    OBVIOUS
  <2> HIDE DEF n
  <2>3. \A u : Key(u)' = Key(u)
    BY <1>01, <2>1
  <2> QED
    BY <2>1, <2>2, <2>3 DEF Once, AtMostOnce
<1>3. ASSUME NEW t \in tasks, HandleRpcMessage(t) PROVE Once'
  <2>0. UNCHANGED addr /\ t.pc = "spawned"
    BY <1>3 DEF HandleRpcMessage
  <2>1. CASE /\ \E stat \in (Stats \ {"SUCCESS"}) \cup {"Err"} : SendReply(t, stat)
             /\ UNCHANGED <<tracker, runs>> \/ Enters(Key(t), "done")
    BY <2>0, <2>1, ReplyOnce DEF SendReply
  <2>2. CASE tasks' = tasks \ {t} /\ UNCHANGED <<tracker, replies, runs>>
    BY <2>0, <2>2, ReplyOnce
  <2>3. CASE Enters(Key(t), "running") /\ Move(t, "running")
    <3> DEFINE m == [t EXCEPT !.pc = "running"]
    <3>1. /\ tasks' = (tasks \ {t}) \cup {m} /\ m.pc = "running" /\ m \in Task
          /\ m.conn = t.conn /\ m.head = t.head
      BY <2>3, MoveTasks
    <3> HIDE DEF m
    <3>2. PICK k \in Keys : k = Key(t)
      BY <1>0, <1>00
    <3>3. Key(m) = k /\ \A u : Key(u)' = Key(u)
      BY <1>01, <2>0, <3>1, <3>2 DEF Key
    <3>4. /\ \A j \in Keys : tracker'[j] = IF j = k THEN "running" ELSE tracker[j]
          /\ \A j \in Keys : runs'[j] = IF j = k THEN 0 ELSE runs[j]
          /\ \A u \in tasks : u.pc # "spawned" => Key(u) # k
      BY <2>3, <3>2, EntersOnce
    <3> QED
      BY <1>0, <1>00, <3>1, <3>3, <3>4 DEF Once, AtMostOnce
  <2> QED
    BY <1>3, <2>1, <2>2, <2>3, HandleCases
<1>4. ASSUME NEW t \in tasks, RunHandler(t) PROVE Once'
  <2>1. UNCHANGED addr /\ t.pc = "running" /\ runs' = [runs EXCEPT ![Key(t)] = @ + 1]
    BY <1>4 DEF RunHandler
  <2>2. CASE Complete(t)
    BY <2>1, <2>2, EndOnce DEF Complete, SendReply
  <2>3. CASE Move(t, "signal") /\ UNCHANGED tracker
    <3> DEFINE m == [t EXCEPT !.pc = "signal"]
    <3>1. /\ tasks' = (tasks \ {t}) \cup {m} /\ m.pc = "signal" /\ m \in Task
          /\ m.conn = t.conn /\ m.head = t.head
      BY <2>3, MoveTasks
    <3> HIDE DEF m
    <3>2. PICK k \in Keys : k = Key(t)
      BY <1>0, <1>00
    <3>3. Key(m) = k /\ \A u : Key(u)' = Key(u)
      BY <1>01, <2>1, <3>1, <3>2 DEF Key
    <3>4. /\ tracker[k] = "running" /\ runs[k] = 0
          /\ \A u \in tasks : u.pc # "spawned" /\ Key(u) = k => u = t
      BY <2>1, <3>2 DEF Once
    <3>5. \A j \in Keys : runs'[j] = IF j = k THEN 1 ELSE runs[j]
      BY <2>1, <3>2, <3>4 DEF Types, HistoryOK
    <3> QED
      BY <1>0, <1>00, <2>3, <3>1, <3>3, <3>4, <3>5 DEF Once, AtMostOnce
  <2> QED
    BY <1>4, <2>2, <2>3 DEF RunHandler
<1>5. ASSUME NEW t \in tasks, Panic(t) PROVE Once'
    BY <1>5, EndOnce DEF Panic
<1>6. ASSUME NEW t \in tasks, SendSignal(t) PROVE Once'
    BY <1>6, EndOnce DEF SendSignal, Complete, SendReply
<1>7. ASSUME NEW c \in Conns, ProcessSocket(c) PROVE Once'
  <2>1. UNCHANGED <<tasks, tracker, runs, addr>>
    BY <1>7 DEF ProcessSocket, ReadSocket, FeedPipe, SocketEnds, TakeReply, WriteFragment
  <2> QED
    BY <1>1, <1>01, <2>1
<1>8. CASE Listen
  <2>1. UNCHANGED <<tasks, tracker, runs, addr>>
    BY <1>8 DEF Listen
  <2> QED
    BY <1>1, <1>01, <2>1
<1>9. CASE Reconnect
  <2>1. client.conn + 1 \in Conns /\ client.conn + 1 > client.conn
    BY <1>9, Bounds DEF Reconnect, Types, ClientOK, ClientType, Conns
  <2>2. \A u \in tasks : u.conn # client.conn + 1 /\ u.conn \in Conns
    BY <1>00, <2>1 DEF Unused, Task
  <2>3. \A d \in Conns : d # client.conn + 1 => addr'[d] = addr[d]
    BY <1>9 DEF Reconnect, Types, TasksOK
  <2>4. \A u \in tasks : Key(u)' = Key(u)
    BY <2>2, <2>3 DEF Key
  <2> QED
    BY <1>1, <1>9, <2>4 DEF Reconnect
<1>10. CASE ClientStep \/ Cancel \/ \E b \in Bodies : Call(b)
  <2>1. UNCHANGED <<tasks, tracker, runs, addr>>
    BY <1>10, ClientTouches
  <2> QED
    BY <1>1, <1>01, <2>1
<1> QED
    BY <1>2, <1>3, <1>4, <1>5, <1>6, <1>7, <1>8, <1>9, <1>10 DEF Next, ClientStep, TaskStep

-----------------------------------------------------------------------------
(* SUCCESS is earned.                                                      *)

\* Queues of replies whose successes are earned, appended to,
LEMMA PaidAppend ==
    ASSUME NEW S, NEW B, NEW s \in Seq(S), NEW z \in S, Paid(s, B),
           z.stat = "SUCCESS" => z.xid \in B
    PROVE  Paid(Append(s, z), B)
<1> DEFINE a == Append(s, z)
<1>1. Len(s) \in Nat /\ Len(a) = Len(s) + 1 /\ \A i \in 1..Len(s) : a[i] = s[i]
    BY LenProperties, AppendProperties
<1>2. a[Len(s) + 1] = z
    BY AppendProperties
<1> HIDE DEF a
<1>3. Paid(a, B)
    BY <1>1, <1>2 DEF Paid
<1> QED
    BY <1>3 DEF a

\* taken from,
LEMMA PaidParts ==
    ASSUME NEW S, NEW B, NEW s \in Seq(S), s # <<>>, Paid(s, B)
    PROVE  Paid(Tail(s), B) /\ (Head(s).stat = "SUCCESS" => Head(s).xid \in B)
<1> DEFINE t == Tail(s)
<1>1. /\ Len(s) \in Nat \ {0} /\ Len(t) = Len(s) - 1 /\ \A i \in 1..Len(t) : t[i] = s[i + 1]
      /\ Head(s) = s[1]
    BY EmptySeq, HeadTailProperties
<1> HIDE DEF t
<1>2. Paid(t, B)
    BY <1>1 DEF Paid
<1>3. Head(s).stat = "SUCCESS" => Head(s).xid \in B
    BY <1>1 DEF Paid
<1> QED
    BY <1>2, <1>3 DEF t

\* while more is executed,
LEMMA PaidMore ==
    ASSUME NEW s, NEW B, NEW C, B \subseteq C, Paid(s, B)
    PROVE  Paid(s, C)
BY DEF Paid

\* and empty.
LEMMA PaidNone == ASSUME NEW B PROVE Paid(<<>>, B)
BY DEF Paid

\* A step touches the queues of one connection at most.
LEMMA EarnedFrame ==
    ASSUME Types, Earned, Backed \subseteq Backed', Paid(client'.got, Backed'),
           \A t \in tasks' : t.pc = "signal" => t \in tasks \/ t.head.xid \in Backed',
           NEW c \in Conns,
           \A d \in Conns \ {c} : /\ server'[d] = server[d] /\ replies'[d] = replies[d]
                                  /\ s2c'[d] = s2c[d],
           /\ server'[c] = server[c] \/ Paid(Replying(c)', Backed')
           /\ replies'[c] = replies[c] \/ Paid(replies'[c], Backed')
           /\ s2c'[c] = s2c[c] \/ Paid(s2c'[c], Backed')
    PROVE  Earned'
<1>1. ASSUME NEW d \in Conns
      PROVE  /\ server'[d] = server[d] => Paid(Replying(d)', Backed')
             /\ replies'[d] = replies[d] => Paid(replies'[d], Backed')
             /\ s2c'[d] = s2c[d] => Paid(s2c'[d], Backed')
  <2>1. Paid(Replying(d), Backed) /\ Paid(replies[d], Backed) /\ Paid(s2c[d], Backed)
    BY DEF Earned
  <2>2. server'[d] = server[d] => Replying(d)' = Replying(d)
    BY DEF Replying
  <2> QED
    BY <2>1, <2>2, PaidMore
<1>2. \A d \in Conns : /\ Paid(Replying(d)', Backed') /\ Paid(replies'[d], Backed')
                       /\ Paid(s2c'[d], Backed')
    BY <1>1
<1>3. \A t \in tasks' : t.pc = "signal" => t.head.xid \in Backed'
    BY DEF Earned
<1> QED
    BY <1>2, <1>3 DEF Earned

\* A task that ends queues a reply that is no SUCCESS, or that is backed.
LEMMA ReplyEarned ==
    ASSUME Types, Earned, NEW t \in tasks, NEW stat \in Stats \cup {"Err"}, SendReply(t, stat),
           stat = "SUCCESS" => t.head.xid \in Backed', Backed \subseteq Backed',
           UNCHANGED <<client, s2c, server>>
    PROVE  Earned'
<1> DEFINE c == t.conn
           z == [xid |-> t.head.xid, stat |-> stat]
<1>1. c \in Conns /\ z \in Reply /\ replies[c] \in Seq(Reply)
    BY DEF Types, TasksOK, Task, Piece, Reply, DownOK
<1>2. /\ tasks' = tasks \ {t}
      /\ replies' = [replies EXCEPT ![c] = IF Closed(c) THEN @ ELSE Append(@, z)]
    BY DEF SendReply
<1>3. Paid(client'.got, Backed')
    BY PaidMore DEF Earned
<1>4. Paid(Append(replies[c], z), Backed')
  <2>1. Paid(replies[c], Backed')
    BY <1>1, PaidMore DEF Earned
  <2>2. z.stat = "SUCCESS" => z.xid \in Backed'
    OBVIOUS
  <2> HIDE DEF z
  <2> QED
    BY <1>1, <2>1, <2>2, PaidAppend
<1> HIDE DEF z
<1>5. replies'[c] = replies[c] \/ replies'[c] = Append(replies[c], z)
    BY <1>1, <1>2 DEF Types, DownOK
<1>6. replies'[c] = replies[c] \/ Paid(replies'[c], Backed')
    BY <1>4, <1>5
<1>7. \A d \in Conns \ {c} : replies'[d] = replies[d]
    BY <1>1, <1>2 DEF Types, DownOK
<1> HIDE DEF c
<1> QED
    BY <1>1, <1>2, <1>3, <1>6, <1>7, EarnedFrame

\* A task says SUCCESS when its handler has run.
LEMMA TaskEarned ==
    ASSUME Types, Earned, NEW t \in tasks, TaskStep(t)
    PROVE  Earned'
<1>0. UNCHANGED <<client, s2c, server>> /\ t.conn \in Conns
    BY TaskTouches
<1>00. "SUCCESS" \in Stats \cup {"Err"}
    BY DEF Stats
<1>1. ASSUME UNCHANGED replies, Backed \subseteq Backed',
             \A u \in tasks' : u.pc = "signal" => u \in tasks \/ u.head.xid \in Backed'
      PROVE  Earned'
  <2>1. Paid(client'.got, Backed')
    BY <1>0, <1>1, PaidMore DEF Earned
  <2> QED
    BY <1>0, <1>1, <2>1, EarnedFrame
<1>2. ASSUME Complete(t), Backed \subseteq Backed', t.head.xid \in Backed' PROVE Earned'
    BY <1>0, <1>00, <1>2, ReplyEarned DEF Complete
<1>3. CASE HandleRpcMessage(t)
  <2>0. Backed' = Backed
    BY <1>3 DEF HandleRpcMessage, Backed
  <2>1. ASSUME NEW stat \in (Stats \ {"SUCCESS"}) \cup {"Err"}, SendReply(t, stat) PROVE Earned'
    BY <1>0, <2>0, <2>1, ReplyEarned
  <2>2. CASE tasks' = tasks \ {t} /\ UNCHANGED replies
    BY <1>1, <2>0, <2>2
  <2>3. CASE Move(t, "running")
    <3>1. UNCHANGED replies /\ \A u \in tasks' : u.pc = "signal" => u \in tasks
      <4> DEFINE m == [t EXCEPT !.pc = "running"]
      <4>1. UNCHANGED replies /\ tasks' = (tasks \ {t}) \cup {m} /\ m.pc = "running"
        BY <2>3, MoveTasks
      <4> HIDE DEF m
      <4> QED
        BY <4>1
    <3> QED
      BY <1>1, <2>0, <3>1
  <2> QED
    BY <1>3, <2>1, <2>2, <2>3, HandleCases
<1>4. CASE RunHandler(t)
  <2> DEFINE e == [conn |-> t.conn, head |-> t.head, tail |-> t.tail]
  <2>1. executed' = executed \cup {e} /\ e.head = t.head
    BY <1>4 DEF RunHandler
  <2> HIDE DEF e
  <2>2. Backed \subseteq Backed' /\ t.head.xid \in Backed'
    BY <2>1 DEF Backed
  <2>3. CASE Move(t, "signal")
    <3> DEFINE m == [t EXCEPT !.pc = "signal"]
    <3>1. UNCHANGED replies /\ tasks' = (tasks \ {t}) \cup {m} /\ m.head = t.head
      BY <2>3, MoveTasks
    <3> HIDE DEF m
    <3> QED
      BY <1>1, <2>2, <3>1
  <2> QED
    BY <1>2, <1>4, <2>2, <2>3 DEF RunHandler
<1>5. CASE SendSignal(t)
  <2>1. Complete(t) /\ Backed' = Backed /\ t.pc = "signal"
    BY <1>5 DEF SendSignal, Backed
  <2>2. t.head.xid \in Backed
    BY <2>1 DEF Earned
  <2> QED
    BY <1>2, <2>1, <2>2
<1>6. CASE Panic(t)
  <2>1. Backed' = Backed /\ tasks' = tasks \ {t} /\ UNCHANGED replies
    BY <1>6 DEF Panic, Backed
  <2> QED
    BY <1>1, <2>1
<1> QED
    BY <1>3, <1>4, <1>5, <1>6 DEF TaskStep

\* The pieces of a reply say what the reply says.
LEMMA PaidPieces ==
    ASSUME NEW r, NEW B, r.stat = "SUCCESS" => r.xid \in B
    PROVE  Paid([i \in 1..2 |-> [xid |-> r.xid, part |-> i, stat |-> r.stat]], B)
<1> DEFINE p == [i \in 1..2 |-> [xid |-> r.xid, part |-> i, stat |-> r.stat]]
<1>1. Len(p) = 2 /\ \A i \in 1..2 : p[i].stat = r.stat /\ p[i].xid = r.xid
    OBVIOUS
<1> HIDE DEF p
<1>2. Paid(p, B)
    BY <1>1 DEF Paid
<1> QED
    BY <1>2 DEF p

\* Nobody else makes up a success.
LEMMA EarnedStep ==
    ASSUME Types, Earned, Next
    PROVE  Earned'
<1>1. ASSUME UNCHANGED <<server, replies, s2c, executed, tasks>>,
             client'.got \in {client.got, <<>>}
      PROVE  Earned'
  <2>1. Paid(client'.got, Backed')
    BY <1>1, PaidNone DEF Earned, Backed
  <2> QED
    BY <1>1, <2>1, EarnedFrame, Bounds DEF Backed, Conns
<1>2. ASSUME NEW b \in Bodies, Call(b) PROVE Earned'
  <2>1. client'.got = <<>>
    BY <1>2 DEF Call, Types, ClientOK, ClientType
  <2> QED
    BY <1>1, <1>2, <2>1 DEF Call, serverVars
<1>3. CASE SendPiece
  <2>1. client'.got = client.got
    BY <1>3 DEF SendPiece, Types, ClientOK, ClientType
  <2> QED
    BY <1>1, <1>3, <2>1 DEF SendPiece, serverVars
<1>4. CASE RecvGarbage \/ ConnectionLost \/ Cancel
  <2>1. client'.got = <<>>
    BY <1>4 DEF RecvGarbage, ConnectionLost, Cancel, Return, Types, ClientOK, ClientType
  <2> QED
    BY <1>1, <1>4, <2>1 DEF RecvGarbage, ConnectionLost, Cancel, serverVars
<1>5. CASE Reconnect
  <2>1. client'.got = <<>> /\ UNCHANGED <<replies, s2c, tasks>> /\ Backed' = Backed
    BY <1>5 DEF Reconnect, Types, ClientOK, ClientType, Backed
  <2>2. client.conn + 1 \in Conns
    BY <1>5, Bounds DEF Reconnect, Types, ClientOK, ClientType, Conns
  <2>3. PICK c \in Conns : server' = [server EXCEPT ![c] = Serving("select", <<>>)]
    BY <1>5, <2>2 DEF Reconnect
  <2>4. Paid(client'.got, Backed')
    BY <2>1, PaidNone
  <2>5. \A d \in Conns \ {c} : server'[d] = server[d]
    BY <2>3, <2>4 DEF Types, ServerOK
  <2>6. Replying(c)' = <<>>
    BY <2>3, <2>4 DEF Types, ServerOK, Replying, Serving
  <2> QED
    BY <2>1, <2>4, <2>5, <2>6, PaidNone, EarnedFrame
<1>6. CASE ReadPiece
  <2> DEFINE c == client.conn
             z == Head(s2c[c])
             got == Append(client.got, z)
  <2>1. /\ c \in Conns /\ s2c[c] \in Seq(ReplyPiece) /\ s2c[c] # <<>> /\ z \in ReplyPiece
        /\ client.got \in Seq(ReplyPiece)
    BY <1>6, ReadPieceTypes
  <2>2. UNCHANGED <<server, replies, tasks>> /\ Backed' = Backed
    BY <1>6 DEF ReadPiece, serverVars, Backed
  <2>3. Paid(s2c[c], Backed) /\ Paid(client.got, Backed)
    BY <2>1 DEF Earned
  <2>4. Paid(Tail(s2c[c]), Backed) /\ (z.stat = "SUCCESS" => z.xid \in Backed)
    BY <2>1, <2>3, PaidParts
  <2>5. Paid(got, Backed)
    <3> HIDE DEF z
    <3> QED
      BY <2>1, <2>3, <2>4, PaidAppend
  <2>6. client'.got = <<>> \/ client'.got = got
    <3>1. RecvReply(got[1]) \/ client' = [client EXCEPT !.got = got]
      BY <1>6 DEF ReadPiece
    <3> HIDE DEF got
    <3> QED
      BY <3>1 DEF RecvReply, Return, Types, ClientOK, ClientType
  <2>7. Paid(client'.got, Backed')
    BY <2>2, <2>5, <2>6, PaidNone
  <2>8. s2c' = [s2c EXCEPT ![c] = Tail(@)]
    BY <1>6 DEF ReadPiece
  <2>9. s2c'[c] = Tail(s2c[c]) /\ \A d \in Conns \ {c} : s2c'[d] = s2c[d]
    BY <2>1, <2>8 DEF Types, DownOK
  <2>10. Paid(s2c'[c], Backed')
    BY <2>2, <2>4, <2>9
  <2> HIDE DEF c
  <2> QED
    BY <2>1, <2>2, <2>7, <2>9, <2>10, EarnedFrame
<1>7. ASSUME NEW c \in Conns, ProcessSocket(c) PROVE Earned'
  <2>0. /\ \A d \in Conns \ {c} : /\ server'[d] = server[d] /\ replies'[d] = replies[d]
                                  /\ s2c'[d] = s2c[d]
        /\ UNCHANGED client
    BY <1>7, ServerTouches DEF Touches
  <2>1. Backed' = Backed /\ UNCHANGED <<tasks, client>>
    BY <1>7 DEF ProcessSocket, ReadSocket, FeedPipe, SocketEnds, TakeReply, WriteFragment, Backed
  <2>2. /\ Paid(client'.got, Backed') /\ Paid(replies[c], Backed) /\ Paid(s2c[c], Backed)
        /\ Paid(Replying(c), Backed)
    BY <2>1 DEF Earned
  <2>3. ASSUME /\ server'[c] = server[c] \/ Paid(Replying(c)', Backed')
               /\ replies'[c] = replies[c] \/ Paid(replies'[c], Backed')
               /\ s2c'[c] = s2c[c] \/ Paid(s2c'[c], Backed')
        PROVE  Earned'
    BY <2>0, <2>1, <2>2, <2>3, EarnedFrame
  <2>4. /\ replies[c] \in Seq(Reply) /\ s2c[c] \in Seq(ReplyPiece) /\ Holding(server[c])
    BY DEF Types, DownOK, ServerOK
  <2>5. ASSUME NEW out, NEW pc, pc # "replying", server' = [server EXCEPT ![c] = Serving(pc, out)]
        PROVE  Paid(Replying(c)', Backed')
    <3>1. Replying(c)' = <<>>
      BY <2>5 DEF Types, ServerOK, Replying, Serving
    <3> QED
      BY <3>1, PaidNone
  <2>6. CASE ReadSocket(c)
    <3>1. UNCHANGED <<replies, s2c>>
      BY <2>6 DEF ReadSocket
    <3>2. UNCHANGED server \/ server' = [server EXCEPT ![c] = Serving("feeding", <<Head(c2s[c])>>)]
      BY <2>6 DEF ReadSocket
    <3> QED
      BY <2>3, <2>5, <3>1, <3>2
  <2>7. CASE FeedPipe(c) \/ SocketEnds(c)
    BY <2>3, <2>5, <2>7 DEF FeedPipe, SocketEnds
  <2>8. CASE TakeReply(c)
    <3> DEFINE r == Head(replies[c])
               p == [i \in 1..2 |-> [xid |-> r.xid, part |-> i, stat |-> r.stat]]
    <3>1. Paid(Tail(replies[c]), Backed) /\ (r.stat = "SUCCESS" => r.xid \in Backed)
      BY <2>2, <2>4, <2>8, PaidParts DEF TakeReply
    <3>2. Paid(p, Backed)
      <4> HIDE DEF r
      <4> QED
        BY <3>1, PaidPieces
    <3>3. UNCHANGED s2c
      BY <2>8 DEF TakeReply
    <3>4. CASE r.stat = "Err"
      <4>1. /\ server' = [server EXCEPT ![c] = Serving("closed", <<>>)]
            /\ replies' = [replies EXCEPT ![c] = <<>>]
        BY <2>8, <3>4 DEF TakeReply
      <4>2. Paid(replies'[c], Backed')
        BY <4>1, PaidNone DEF Types, DownOK
      <4> QED
        BY <2>3, <2>5, <3>3, <4>1, <4>2
    <3>5. CASE r.stat # "Err"
      <4>1. /\ server' = [server EXCEPT ![c] = Serving("replying", p)]
            /\ replies' = [replies EXCEPT ![c] = Tail(@)]
        BY <2>8, <3>5 DEF TakeReply
      <4> HIDE DEF p
      <4>2. Replying(c)' = p /\ replies'[c] = Tail(replies[c])
        BY <4>1 DEF Types, DownOK, ServerOK, Replying, Serving
      <4> QED
        BY <2>1, <2>3, <3>1, <3>2, <3>3, <4>2
    <3> QED
      BY <3>4, <3>5
  <2>9. CASE WriteFragment(c)
    <3> DEFINE out == server[c].out
    <3>1. out \in Seq(ReplyPiece) /\ out # <<>> /\ Paid(out, Backed)
      BY <2>2, <2>4, <2>9 DEF WriteFragment, Holding, Replying
    <3>2. Paid(Tail(out), Backed) /\ (Head(out).stat = "SUCCESS" => Head(out).xid \in Backed)
          /\ Head(out) \in ReplyPiece
      BY <3>1, PaidParts, HeadTailProperties
    <3>3. Paid(Append(s2c[c], Head(out)), Backed)
      <4> DEFINE h == Head(out)
      <4> HIDE DEF h
      <4>1. Paid(Append(s2c[c], h), Backed)
        BY <2>2, <2>4, <3>2, PaidAppend DEF h
      <4> QED
        BY <4>1 DEF h
    <3>4. UNCHANGED replies
      BY <2>9 DEF WriteFragment
    <3>5. /\ s2c' = [s2c EXCEPT ![c] = IF Gone(c) THEN @ ELSE Append(@, Head(out))]
          /\ \/ server' = [server EXCEPT ![c] = Serving("select", <<>>)]
             \/ server' = [server EXCEPT ![c] = Serving("replying", Tail(out))]
      BY <2>9 DEF WriteFragment
    <3> HIDE DEF out
    <3>6. s2c'[c] = s2c[c] \/ Paid(s2c'[c], Backed')
      <4> DEFINE a == Append(s2c[c], Head(out))
      <4>1. s2c' = [s2c EXCEPT ![c] = IF Gone(c) THEN @ ELSE a] /\ Paid(a, Backed)
        BY <3>3, <3>5
      <4> HIDE DEF a
      <4> QED
        BY <2>1, <4>1 DEF Types, DownOK
    <3>7. Paid(Replying(c)', Backed')
      <4>1. CASE server' = [server EXCEPT ![c] = Serving("replying", Tail(out))]
        <5>1. Replying(c)' = Tail(out)
          BY <4>1 DEF Types, ServerOK, Replying, Serving
        <5> QED
          BY <2>1, <3>2, <5>1
      <4> QED
        BY <2>5, <3>5, <4>1
    <3> QED
      BY <2>3, <3>4, <3>6, <3>7
  <2> QED
    BY <1>7, <2>6, <2>7, <2>8, <2>9 DEF ProcessSocket
<1>8. ASSUME NEW c \in Conns, ReadMessage(c) PROVE Earned'
  <2> DEFINE msg == Append(fragment[c], Head(pipe[c]))
             n == [conn |-> c, head |-> Head(msg), tail |-> Last(msg), pc |-> "spawned"]
  <2>1. /\ UNCHANGED <<client, server, replies, s2c>> /\ Backed' = Backed
        /\ (UNCHANGED tasks \/ tasks' = tasks \cup {n}) /\ n.pc = "spawned"
    BY <1>8 DEF ReadMessage, Spawn, Backed
  <2> HIDE DEF n
  <2>2. Paid(client'.got, Backed')
    BY <2>1 DEF Earned
  <2> QED
    BY <2>1, <2>2, EarnedFrame
<1>9. CASE Listen
    BY <1>1, <1>9 DEF Listen
<1> QED
    BY <1>2, <1>3, <1>4, <1>5, <1>6, <1>7, <1>8, <1>9, TaskEarned DEF Next, ClientStep

-----------------------------------------------------------------------------
(* No reply is lost.                                                       *)

\* A reply that is queued
LEMMA HasAppend ==
    ASSUME NEW S, NEW s \in Seq(S), NEW z \in S, NEW x
    PROVE  Has(Append(s, z), x) <=> Has(s, x) \/ z.xid = x
<1> DEFINE a == Append(s, z)
<1>1. Len(s) \in Nat /\ Len(a) = Len(s) + 1 /\ \A i \in 1..Len(s) : a[i] = s[i]
    BY LenProperties, AppendProperties
<1>2. a[Len(s) + 1] = z
    BY AppendProperties
<1> HIDE DEF a
<1>3. Has(a, x) <=> Has(s, x) \/ z.xid = x
    BY <1>1, <1>2 DEF Has
<1> QED
    BY <1>3 DEF a

\* or taken is not lost.
LEMMA HasParts ==
    ASSUME NEW S, NEW s \in Seq(S), s # <<>>, NEW x, Has(s, x)
    PROVE  Head(s).xid = x \/ Has(Tail(s), x)
<1> DEFINE t == Tail(s)
<1>1. /\ Len(s) \in Nat \ {0} /\ Len(t) = Len(s) - 1 /\ \A i \in 1..Len(t) : t[i] = s[i + 1]
      /\ Head(s) = s[1]
    BY EmptySeq, HeadTailProperties
<1> HIDE DEF t
<1>2. PICK i \in 1..Len(s) : s[i].xid = x
    BY DEF Has
<1>3. CASE i = 1
    BY <1>1, <1>2, <1>3
<1>4. CASE i > 1
  <2>1. (i - 1) \in 1..Len(t) /\ (i - 1) + 1 = i
    BY <1>1, <1>2, <1>4
  <2>2. t[i - 1].xid = x
    BY <1>1, <1>2, <2>1
  <2> QED
    BY <2>1, <2>2 DEF Has, t
<1> QED
    BY <1>1, <1>2, <1>3, <1>4

\* A client that has left stays away.
LEMMA GoneStays ==
    ASSUME Types, Next, NEW c \in Conns, Gone(c)
    PROVE  Gone(c)'
<1>0. client.conn \in Int /\ c \in Int
    BY DEF Types, ClientOK, ClientType, Conns
<1>1. CASE client.pc = "gone"
  <2>1. UNCHANGED client
    BY <1>1 DEF Next, Call, ClientStep, SendPiece, ReadPiece, RecvGarbage, ConnectionLost, Cancel,
                Reconnect, ProcessSocket, ReadSocket, FeedPipe, SocketEnds, TakeReply,
                WriteFragment, ReadMessage, TaskStep, HandleRpcMessage, RunHandler, Panic, SendSignal,
                Listen
  <2> QED
    BY <2>1 DEF Gone
<1>2. CASE c < client.conn
  <2>1. CASE Reconnect
    <3>1. client'.conn = client.conn + 1
      BY <2>1 DEF Reconnect, Types, ClientOK, ClientType
    <3> QED
      BY <1>0, <1>2, <3>1 DEF Gone
  <2>2. ASSUME client'.conn = client.conn PROVE Gone(c)'
    BY <1>2, <2>2 DEF Gone
  <2>3. ASSUME NEW d \in Conns, ProcessSocket(d) \/ ReadMessage(d) PROVE Gone(c)'
    BY <2>2, <2>3, ServerTouches
  <2>4. ASSUME NEW t \in tasks, TaskStep(t) PROVE Gone(c)'
    BY <2>2, <2>4, TaskTouches
  <2>5. CASE Listen
    BY <2>2, <2>5 DEF Listen
  <2>6. CASE ClientStep \/ Cancel \/ \E b \in Bodies : Call(b)
    BY <2>2, <2>6, ClientTouches
  <2> QED
    BY <2>1, <2>3, <2>4, <2>5, <2>6 DEF Next
<1> QED
    BY <1>1, <1>2 DEF Gone

\* A closed connection stays closed.
LEMMA ClosedStays ==
    ASSUME Types, Unused, Next, NEW c \in Conns, Closed(c)
    PROVE  Closed(c)'
<1>1. ASSUME server'[c] = server[c] PROVE Closed(c)'
    BY <1>1 DEF Closed
<1>2. ASSUME NEW d \in Conns, ProcessSocket(d) \/ ReadMessage(d) PROVE Closed(c)'
  <2>1. CASE d = c
    BY <1>1, <1>2, <2>1 DEF Closed, ProcessSocket, ReadSocket, FeedPipe, SocketEnds, TakeReply,
                            WriteFragment, ReadMessage
  <2>2. CASE d # c
    BY <1>1, <1>2, <2>2, ServerTouches DEF Touches
  <2> QED
    BY <2>1, <2>2
<1>3. ASSUME NEW t \in tasks, TaskStep(t) PROVE Closed(c)'
    BY <1>1, <1>3, TaskTouches
<1>4. CASE Reconnect
  <2>1. client.conn + 1 \in Conns /\ client.conn + 1 > client.conn
    BY <1>4, Bounds DEF Reconnect, Types, ClientOK, ClientType, Conns
  <2>2. server[client.conn + 1].pc = "unborn"
    BY <2>1 DEF Unused, Serving
  <2>3. c # client.conn + 1
    BY <2>2 DEF Closed
  <2>4. server'[c] = server[c]
    BY <1>4, <2>3 DEF Reconnect, Types, ServerOK
  <2> QED
    BY <1>1, <2>4
<1>5. CASE Listen
    BY <1>1, <1>5 DEF Listen
<1>6. CASE ClientStep \/ Cancel \/ \E b \in Bodies : Call(b)
    BY <1>1, <1>6, ClientTouches
<1> QED
    BY <1>2, <1>3, <1>4, <1>5, <1>6 DEF Next

\* process_socket passes replies on.
LEMMA ServerKeeps ==
    ASSUME Types, NEW c \in Conns, ProcessSocket(c), NEW x, ~Gone(c), Kept(c, x)
    PROVE  Closed(c)' \/ Kept(c, x)'
<1>0. /\ replies[c] \in Seq(Reply) /\ s2c[c] \in Seq(ReplyPiece) /\ Holding(server[c])
    BY DEF Types, DownOK, ServerOK
<1>00. Signalling(c, x)' = Signalling(c, x) /\ UNCHANGED seen
    BY DEF Signalling, ProcessSocket, ReadSocket, FeedPipe, SocketEnds, TakeReply, WriteFragment
<1>1. CASE ReadSocket(c) \/ FeedPipe(c)
  <2>1. UNCHANGED <<replies, s2c>> /\ server[c].pc # "replying"
    BY <1>1 DEF ReadSocket, FeedPipe
  <2>2. Replying(c) = <<>> /\ Len(Replying(c)) = 0
    BY <2>1 DEF Replying
  <2>3. ~Has(Replying(c), x)
    BY <2>2 DEF Has
  <2> QED
    BY <1>00, <2>1, <2>3 DEF Kept
<1>2. CASE SocketEnds(c)
    BY <1>2 DEF SocketEnds, Closed, Serving, Types, ServerOK
<1>3. CASE TakeReply(c)
  <2> DEFINE r == Head(replies[c])
             p == [i \in 1..2 |-> [xid |-> r.xid, part |-> i, stat |-> r.stat]]
  <2>1. CASE r.stat = "Err"
    BY <1>3, <2>1 DEF TakeReply, Closed, Serving, Types, ServerOK
  <2>2. CASE r.stat # "Err"
    <3>1. /\ server' = [server EXCEPT ![c] = Serving("replying", p)]
          /\ replies' = [replies EXCEPT ![c] = Tail(@)] /\ UNCHANGED s2c /\ replies[c] # <<>>
          /\ server[c].pc = "select"
      BY <1>3, <2>2 DEF TakeReply
    <3>2. Len(p) = 2 /\ p[1].xid = r.xid
      OBVIOUS
    <3>3. Has(p, r.xid)
      <4> HIDE DEF p
      <4> QED
        BY <3>2 DEF Has
    <3> HIDE DEF p
    <3>4. Replying(c)' = p /\ replies'[c] = Tail(replies[c])
      BY <3>1 DEF Types, DownOK, ServerOK, Replying, Serving
    <3>5. Has(replies[c], x) => r.xid = x \/ Has(replies'[c], x)
      BY <1>0, <3>1, <3>4, HasParts
    <3>6. Replying(c) = <<>> /\ Len(Replying(c)) = 0
      BY <3>1 DEF Replying
    <3>7. ~Has(Replying(c), x)
      BY <3>6 DEF Has
    <3> QED
      BY <1>00, <3>1, <3>3, <3>4, <3>5, <3>7 DEF Kept
  <2> QED
    BY <2>1, <2>2
<1>4. CASE WriteFragment(c)
  <2> DEFINE out == server[c].out
  <2>1. out \in Seq(ReplyPiece) /\ out # <<>> /\ Replying(c) = out
    BY <1>0, <1>4 DEF WriteFragment, Holding, Replying
  <2>2. Head(out) \in ReplyPiece /\ Tail(out) \in Seq(ReplyPiece)
    BY <2>1, HeadTailProperties
  <2>3. /\ s2c' = [s2c EXCEPT ![c] = Append(@, Head(out))] /\ UNCHANGED replies
        /\ \/ server' = [server EXCEPT ![c] = Serving("select", <<>>)] /\ Tail(out) = <<>>
           \/ server' = [server EXCEPT ![c] = Serving("replying", Tail(out))]
    BY <1>4 DEF WriteFragment
  <2>4. Replying(c)' = Tail(out)
    <3> DEFINE rest == Tail(out)
    <3>1. \/ server' = [server EXCEPT ![c] = Serving("select", <<>>)] /\ rest = <<>>
          \/ server' = [server EXCEPT ![c] = Serving("replying", rest)]
      BY <2>3
    <3> HIDE DEF rest
    <3>2. Replying(c)' = rest
      BY <3>1 DEF Replying, Serving, Types, ServerOK
    <3> QED
      BY <3>2 DEF rest
  <2>5. s2c'[c] = Append(s2c[c], Head(out))
    BY <2>3 DEF Types, DownOK
  <2>6. Has(out, x) => Head(out).xid = x \/ Has(Tail(out), x)
    BY <2>1, HasParts
  <2> DEFINE h == Head(out)
  <2> HIDE DEF h, out
  <2>7. Has(Append(s2c[c], h), x) <=> Has(s2c[c], x) \/ h.xid = x
    BY <1>0, <2>2, HasAppend DEF h
  <2>8. Has(s2c'[c], x) <=> Has(s2c[c], x) \/ Head(out).xid = x
    BY <2>5, <2>7 DEF h
  <2> QED
    BY <1>00, <2>1, <2>3, <2>4, <2>6, <2>8 DEF Kept
<1> QED
    BY <1>1, <1>2, <1>3, <1>4 DEF ProcessSocket

\* A task that ends queues its reply.
LEMMA ReplyKeeps ==
    ASSUME Types, NEW t \in tasks, NEW stat \in Stats \cup {"Err"}, SendReply(t, stat),
           NEW c \in Conns, NEW x
    PROVE  /\ Has(replies[c], x) => Has(replies'[c], x)
           /\ c = t.conn => Closed(c) \/ Has(replies'[c], t.head.xid)
<1> DEFINE z == [xid |-> t.head.xid, stat |-> stat]
<1>1. t.conn \in Conns /\ z \in Reply /\ replies[c] \in Seq(Reply)
    BY DEF Types, TasksOK, Task, Piece, Reply, DownOK
<1>2. replies' = [replies EXCEPT ![t.conn] = IF Closed(t.conn) THEN @ ELSE Append(@, z)]
    BY DEF SendReply
<1>3. z.xid = t.head.xid
    OBVIOUS
<1> HIDE DEF z
<1>4. replies'[c] = IF c # t.conn \/ Closed(c) THEN replies[c] ELSE Append(replies[c], z)
    BY <1>1, <1>2 DEF Types, DownOK
<1>5. /\ Has(Append(replies[c], z), x) <=> Has(replies[c], x) \/ z.xid = x
      /\ Has(Append(replies[c], z), t.head.xid) <=>
            Has(replies[c], t.head.xid) \/ z.xid = t.head.xid
    BY <1>1, HasAppend
<1> QED
    BY <1>3, <1>4, <1>5

\* The tasks leave replies where they are, and answer what they executed.
LEMMA TaskKeeps ==
    ASSUME Types, NEW t \in tasks, TaskStep(t), NEW c \in Conns, NEW x, Kept(c, x)
    PROVE  Closed(c) \/ Kept(c, x)'
<1>0. /\ UNCHANGED <<client, s2c, server, seen>> /\ t.conn \in Conns
      /\ Replying(c)' = Replying(c)
    BY TaskTouches DEF Replying
<1>00. "SUCCESS" \in Stats \cup {"Err"}
    BY DEF Stats
<1>1. ASSUME Has(replies[c], x) => Has(replies'[c], x),
             Signalling(c, x) => Closed(c) \/ Signalling(c, x)' \/ Has(replies'[c], x)
      PROVE  Closed(c) \/ Kept(c, x)'
    BY <1>0, <1>1 DEF Kept
<1>2. ASSUME NEW stat \in Stats \cup {"Err"}, SendReply(t, stat) PROVE Closed(c) \/ Kept(c, x)'
  <2>1. /\ Has(replies[c], x) => Has(replies'[c], x)
        /\ c = t.conn => Closed(c) \/ Has(replies'[c], t.head.xid)
    BY <1>2, ReplyKeeps
  <2>2. tasks' = tasks \ {t}
    BY <1>2 DEF SendReply
  <2>3. Signalling(c, x) => Closed(c) \/ Signalling(c, x)' \/ Has(replies'[c], x)
    BY <2>1, <2>2 DEF Signalling
  <2> QED
    BY <1>1, <2>1, <2>3
<1>3. ASSUME NEW pc \in {"running", "signal"}, Move(t, pc), t.pc # "signal"
      PROVE  Closed(c) \/ Kept(c, x)'
  <2> DEFINE m == [t EXCEPT !.pc = pc]
  <2>1. UNCHANGED replies /\ tasks' = (tasks \ {t}) \cup {m}
    BY <1>3, MoveTasks
  <2> HIDE DEF m
  <2>2. Signalling(c, x) => Signalling(c, x)'
    BY <1>3, <2>1 DEF Signalling
  <2> QED
    BY <1>1, <2>1, <2>2
<1>4. CASE HandleRpcMessage(t)
  <2>1. t.pc = "spawned"
    BY <1>4 DEF HandleRpcMessage
  <2>2. CASE tasks' = tasks \ {t} /\ UNCHANGED replies
    <3>1. Signalling(c, x) => Signalling(c, x)'
      BY <2>1, <2>2 DEF Signalling
    <3> QED
      BY <1>1, <2>2, <3>1
  <2> QED
    BY <1>2, <1>3, <1>4, <2>1, <2>2, HandleCases
<1>5. CASE RunHandler(t)
    BY <1>00, <1>2, <1>3, <1>5 DEF RunHandler, Complete
<1>6. CASE SendSignal(t)
    BY <1>00, <1>2, <1>6 DEF SendSignal, Complete
<1>7. CASE Panic(t)
  <2>1. t.pc = "running" /\ tasks' = tasks \ {t} /\ UNCHANGED replies
    BY <1>7 DEF Panic
  <2>2. Signalling(c, x) => Signalling(c, x)'
    BY <2>1 DEF Signalling
  <2> QED
    BY <1>1, <2>1, <2>2
<1> QED
    BY <1>4, <1>5, <1>6, <1>7 DEF TaskStep

\* What was executed a step ago is answered, or on its way.
LEMMA HandlerKeeps ==
    ASSUME Types, NEW t \in tasks, RunHandler(t)
    PROVE  t.conn \in Conns /\ Lasts(t.conn, t.head.xid)'
<1> DEFINE c == t.conn
           x == t.head.xid
<1>0. c \in Conns /\ UNCHANGED server
    BY TaskTouches DEF TaskStep
<1>1. CASE Move(t, "signal")
  <2> DEFINE m == [t EXCEPT !.pc = "signal"]
  <2>1. /\ tasks' = (tasks \ {t}) \cup {m} /\ m.pc = "signal" /\ m.conn = c /\ m.head.xid = x
    BY <1>1, MoveTasks
  <2> HIDE DEF m
  <2>2. Signalling(c, x)'
    BY <2>1 DEF Signalling
  <2> QED
    BY <1>0, <2>2 DEF Lasts, Kept
<1>2. CASE Complete(t)
  <2>1. "SUCCESS" \in Stats \cup {"Err"} /\ SendReply(t, "SUCCESS")
    BY <1>2 DEF Stats, Complete
  <2>2. Closed(c) \/ Has(replies'[c], x)
    BY <1>0, <2>1, ReplyKeeps
  <2> QED
    BY <1>0, <2>2 DEF Lasts, Kept, Closed
<1> QED
    BY <1>1, <1>2 DEF RunHandler

\* What the client reads, it has seen.
LEMMA ReadPieceKeeps ==
    ASSUME Types, ReadPiece, NEW c \in Conns, NEW x, Kept(c, x)
    PROVE  Kept(c, x)'
<1> DEFINE d == client.conn
           z == Head(s2c[d])
<1>1. /\ d \in Conns /\ s2c[d] \in Seq(ReplyPiece) /\ s2c[d] # <<>>
    BY ReadPieceTypes
<1>2. /\ s2c' = [s2c EXCEPT ![d] = Tail(@)] /\ seen' = seen \cup {z.xid}
      /\ UNCHANGED <<server, replies, tasks>>
    BY DEF ReadPiece, serverVars
<1>3. Has(s2c[d], x) => z.xid = x \/ Has(Tail(s2c[d]), x)
    BY <1>1, HasParts
<1> HIDE DEF z, d
<1>4. s2c'[c] = IF c = d THEN Tail(s2c[d]) ELSE s2c[c]
    BY <1>1, <1>2 DEF Types, DownOK
<1>5. Replying(c)' = Replying(c) /\ Signalling(c, x)' = Signalling(c, x)
    BY <1>2 DEF Replying, Signalling
<1> QED
    BY <1>2, <1>3, <1>4, <1>5 DEF Kept

\* A reply is kept as long as its connection is open on both sides.
LEMMA LastsStep ==
    ASSUME Types, Unused, Next, NEW c \in Conns, NEW x, Lasts(c, x)
    PROVE  Lasts(c, x)'
<1>1. CASE Gone(c)
    BY <1>1, GoneStays DEF Lasts
<1>2. CASE Closed(c)
    BY <1>2, ClosedStays DEF Lasts
<1>3. CASE ~Gone(c) /\ ~Closed(c)
  <2>0. Kept(c, x)
    BY <1>3 DEF Lasts
  <2>1. ASSUME UNCHANGED <<replies, s2c, seen, tasks>>, server'[c] = server[c] PROVE Lasts(c, x)'
    BY <2>0, <2>1 DEF Lasts, Kept, Signalling, Replying
  <2>2. ASSUME NEW d \in Conns, ProcessSocket(d) PROVE Lasts(c, x)'
    <3>1. CASE d = c
      BY <1>3, <2>0, <2>2, <3>1, ServerKeeps DEF Lasts
    <3>2. CASE d # c
      <4>1. server'[c] = server[c] /\ replies'[c] = replies[c] /\ s2c'[c] = s2c[c]
        BY <2>2, <3>2, ServerTouches DEF Touches
      <4>2. UNCHANGED <<seen, tasks>>
        BY <2>2 DEF ProcessSocket, ReadSocket, FeedPipe, SocketEnds, TakeReply, WriteFragment
      <4>3. Replying(c)' = Replying(c) /\ Signalling(c, x)' = Signalling(c, x)
        BY <4>1, <4>2 DEF Replying, Signalling
      <4> QED
        BY <2>0, <4>1, <4>2, <4>3 DEF Lasts, Kept
    <3> QED
      BY <3>1, <3>2
  <2>3. ASSUME NEW d \in Conns, ReadMessage(d) PROVE Lasts(c, x)'
    <3>1. UNCHANGED <<replies, s2c, seen, server>> /\ tasks \subseteq tasks'
      BY <2>3 DEF ReadMessage, Spawn
    <3> QED
      BY <2>0, <3>1 DEF Lasts, Kept, Signalling, Replying
  <2>4. ASSUME NEW t \in tasks, TaskStep(t) PROVE Lasts(c, x)'
    BY <1>3, <2>0, <2>4, TaskKeeps DEF Lasts
  <2>5. CASE ReadPiece
    BY <2>0, <2>5, ReadPieceKeeps DEF Lasts
  <2>6. CASE Reconnect
    <3>1. client.conn + 1 \in Conns /\ client.conn + 1 > client.conn
      BY <2>6, Bounds DEF Reconnect, Types, ClientOK, ClientType, Conns
    <3>2. CASE c = client.conn + 1
      <4>1. Replying(c) = <<>> /\ Len(Replying(c)) = 0
        BY <3>1, <3>2 DEF Unused, Serving, Replying
      <4>2. ~Has(Replying(c), x)
        BY <4>1 DEF Has
      <4>3. UNCHANGED <<replies, s2c, seen, tasks>>
        BY <2>6 DEF Reconnect
      <4> QED
        BY <2>0, <4>2, <4>3 DEF Lasts, Kept, Signalling
    <3>3. CASE c # client.conn + 1
      BY <2>1, <2>6, <3>1, <3>3 DEF Reconnect, Types, ServerOK
    <3> QED
      BY <3>2, <3>3
  <2>7. CASE SendPiece \/ RecvGarbage \/ ConnectionLost \/ Cancel \/ Listen
    BY <2>1, <2>7 DEF SendPiece, RecvGarbage, ConnectionLost, Cancel, Listen, serverVars
  <2>8. ASSUME NEW b \in Bodies, Call(b) PROVE Lasts(c, x)'
    BY <2>1, <2>8 DEF Call, serverVars
  <2> QED
    BY <2>2, <2>3, <2>4, <2>5, <2>6, <2>7, <2>8 DEF Next, ClientStep
<1> QED
    BY <1>1, <1>2, <1>3

\* The handler runs, or nothing is executed.
LEMMA ExecutedStep ==
    ASSUME Next
    PROVE  \/ UNCHANGED executed
           \/ \E t \in tasks : RunHandler(t)
BY DEF Next, Call, ClientStep, SendPiece, ReadPiece, RecvGarbage, ConnectionLost, Cancel,
       Reconnect, ProcessSocket, ReadSocket, FeedPipe, SocketEnds, TakeReply, WriteFragment,
       ReadMessage, TaskStep, HandleRpcMessage, Panic, SendSignal, Listen, serverVars

\* So it is from the moment its handler has run.
LEMMA SafeStep ==
    ASSUME Types, Unused, Safe, Next
    PROVE  Safe'
<1>0. \A e \in executed : e.conn \in Conns
    BY DEF Types, HistoryOK, Message
<1>1. ASSUME NEW e \in executed PROVE Lasts(e.conn, e.head.xid)'
    BY <1>0, LastsStep DEF Safe
<1>2. CASE UNCHANGED executed
    BY <1>1, <1>2 DEF Safe
<1>3. ASSUME NEW t \in tasks, RunHandler(t) PROVE Safe'
  <2> DEFINE e == [conn |-> t.conn, head |-> t.head, tail |-> t.tail]
  <2>1. executed' = executed \cup {e} /\ e.conn = t.conn /\ e.head.xid = t.head.xid
    BY <1>3 DEF RunHandler
  <2>2. Lasts(t.conn, t.head.xid)'
    BY <1>3, HandlerKeeps
  <2> HIDE DEF e
  <2> QED
    BY <1>1, <2>1, <2>2 DEF Safe
<1> QED
    BY <1>2, <1>3, ExecutedStep

-----------------------------------------------------------------------------
(* The pieces on their way to the message loop.                            *)

\* What is appended to the second queue is appended to both.
LEMMA AppendRight ==
    ASSUME NEW S, NEW s \in Seq(S), NEW t \in Seq(S), NEW z \in S
    PROVE  s \o Append(t, z) = Append(s \o t, z)
<1>1. <<z>> \in Seq(S) /\ s \o t \in Seq(S)
    BY ConcatProperties
<1>2. Append(t, z) = t \o <<z>> /\ Append(s \o t, z) = (s \o t) \o <<z>>
    BY <1>1, AppendIsConcat
<1>3. (s \o t) \o <<z>> = s \o (t \o <<z>>)
    BY <1>1, ConcatAssociative
<1> QED
    BY <1>2, <1>3

\* What is on its way to the message loop is a sequence of pieces,
LEMMA UpTypes ==
    ASSUME Types, NEW c \in Conns
    PROVE  /\ fragment[c] \in Seq(Piece) /\ pipe[c] \in Seq(Piece) /\ Feeding(c) \in Seq(Piece)
           /\ c2s[c] \in Seq(Piece) /\ Feeding(c) \o c2s[c] \in Seq(Piece)
           /\ pipe[c] \o (Feeding(c) \o c2s[c]) \in Seq(Piece) /\ Up(c) \in Seq(Piece)
<1>1. fragment[c] \in Seq(Piece) /\ pipe[c] \in Seq(Piece) /\ c2s[c] \in Seq(Piece)
    BY DEF Types, UpOK
<1>2. Feeding(c) \in Seq(Piece)
    BY EmptySeq DEF Types, ServerOK, Holding, Feeding
<1>3. Feeding(c) \o c2s[c] \in Seq(Piece)
    BY <1>1, <1>2, ConcatProperties
<1>4. pipe[c] \o (Feeding(c) \o c2s[c]) \in Seq(Piece)
    BY <1>1, <1>3, ConcatProperties
<1>5. Up(c) \in Seq(Piece)
    BY <1>1, <1>4, ConcatProperties DEF Up
<1> QED
    BY <1>1, <1>2, <1>3, <1>4, <1>5

\* now
LEMMA UpTypesNow == Types => \A c \in Conns : Up(c) \in Seq(Piece)
BY UpTypes

\* and after a step that keeps the types.
LEMMA UpTypesNext == Types' => \A c \in Conns : Up(c)' \in Seq(Piece)
<1>1. Types' => (\A c \in Conns : Up(c) \in Seq(Piece))'
    BY UpTypesNow, PTL
<1> QED
    BY <1>1

\* process_socket passes pieces on, in order.
LEMMA ServerUp ==
    ASSUME Types, NEW c \in Conns, ProcessSocket(c), NEW d \in Conns
    PROVE  Up(d)' = Up(d)
<1>1. CASE d # c
  <2>1. /\ server'[d] = server[d] /\ fragment'[d] = fragment[d] /\ pipe'[d] = pipe[d]
        /\ c2s'[d] = c2s[d]
    BY <1>1, ServerTouches DEF Touches
  <2> QED
    BY <2>1 DEF Up, Feeding
<1>2. CASE d = c
  <2> DEFINE f == fragment[c]
             p == pipe[c]
             q == c2s[c]
  <2>0. f \in Seq(Piece) /\ p \in Seq(Piece) /\ q \in Seq(Piece)
    BY UpTypes
  <2>00. \A s \in Seq(Piece) : <<>> \o s = s
    BY ConcatEmptySeq
  <2>1. CASE ReadSocket(c)
    <3>1. /\ q # <<>> /\ c2s'[c] = Tail(q) /\ fragment'[c] = f
          /\ Feeding(c) = <<>>
      BY <2>1 DEF ReadSocket, Types, UpOK, Feeding
    <3>2. Head(q) \in Piece /\ Tail(q) \in Seq(Piece)
      BY <2>0, <3>1, HeadTailProperties
    <3>3. Up(c) = f \o (p \o q)
      BY <2>0, <2>00, <3>1 DEF Up
    <3>4. CASE pipe' = [pipe EXCEPT ![c] = Append(@, Head(q))] /\ UNCHANGED server
      <4>1. pipe'[c] = Append(p, Head(q)) /\ Feeding(c)' = <<>>
        BY <3>1, <3>4 DEF Types, UpOK, Feeding
      <4>2. Up(c)' = f \o (Append(p, Head(q)) \o Tail(q))
        BY <2>00, <3>1, <3>2, <4>1 DEF Up
      <4> QED
        BY <1>2, <2>0, <3>1, <3>3, <4>2, MoveHead
    <3>5. CASE server' = [server EXCEPT ![c] = Serving("feeding", <<Head(q)>>)] /\ UNCHANGED pipe
      <4>1. Feeding(c)' = <<Head(q)>>
        BY <3>5 DEF Types, ServerOK, Feeding, Serving
      <4>2. Up(c)' = f \o (p \o (<<Head(q)>> \o Tail(q)))
        BY <3>1, <3>5, <4>1 DEF Up
      <4> QED
        BY <1>2, <2>0, <3>1, <3>3, <4>2, HeadAndTail
    <3> QED
      BY <2>1, <3>4, <3>5 DEF ReadSocket
  <2>2. CASE FeedPipe(c)
    <3> DEFINE o == server[c].out
    <3>1. o \in Seq(Piece) /\ Feeding(c) = o
      BY <2>2 DEF FeedPipe, Types, ServerOK, Holding, Feeding
    <3>2. pipe'[c] = p \o o /\ fragment'[c] = f /\ c2s'[c] = q /\ Feeding(c)' = <<>>
      BY <2>2 DEF FeedPipe, Types, UpOK, ServerOK, Feeding, Serving
    <3>3. Up(c)' = f \o ((p \o o) \o q)
      BY <2>0, <2>00, <3>2 DEF Up
    <3>4. (p \o o) \o q = p \o (o \o q)
      <4> HIDE DEF p, o, q
      <4> QED
        BY <2>0, <3>1, ConcatAssociative
    <3> QED
      BY <1>2, <3>1, <3>3, <3>4 DEF Up
  <2>3. ASSUME UNCHANGED <<fragment, pipe, c2s>>,
               server[c].pc # "feeding", server'[c].pc # "feeding"
        PROVE  Up(c)' = Up(c)
    BY <2>3 DEF Up, Feeding
  <2>4. CASE SocketEnds(c) \/ TakeReply(c) \/ WriteFragment(c)
    <3>1. UNCHANGED <<fragment, pipe, c2s>> /\ server[c].pc # "feeding"
      BY <2>4 DEF SocketEnds, TakeReply, WriteFragment
    <3>2. server'[c].pc # "feeding"
      BY <2>4 DEF SocketEnds, TakeReply, WriteFragment, Serving, Types, ServerOK
    <3> QED
      BY <1>2, <2>3, <3>1, <3>2
  <2> QED
    BY <1>2, <2>1, <2>2, <2>4 DEF ProcessSocket
<1> QED
    BY <1>1, <1>2

\* The message loop takes pieces from the front.
LEMMA LoopUp ==
    ASSUME Types, NEW c \in Conns, ReadMessage(c)
    PROVE  LET msg == Append(fragment[c], Head(pipe[c])) IN
           /\ msg \in Seq(Piece) /\ Len(msg) = Len(fragment[c]) + 1
           /\ \A d \in Conns \ {c} : Up(d)' = Up(d) /\ fragment'[d] = fragment[d]
           /\ \/ /\ UNCHANGED tasks /\ Up(c)' = Up(c) /\ fragment'[c] = msg
                 /\ msg[1].part = 2 \/ Len(msg) = 1
              \/ /\ Spawn(c, msg) /\ Up(c) = msg \o Up(c)' /\ fragment'[c] = <<>>
                 /\ msg[1].part = 2 \/ Len(msg) = 2
<1> DEFINE f == fragment[c]
           p == pipe[c]
           q == Feeding(c) \o c2s[c]
           msg == Append(f, Head(p))
<1>0. f \in Seq(Piece) /\ p \in Seq(Piece) /\ q \in Seq(Piece) /\ p # <<>>
    BY UpTypes DEF ReadMessage
<1>1. /\ Head(p) \in Piece /\ Tail(p) \in Seq(Piece) /\ msg \in Seq(Piece)
      /\ Len(msg) = Len(f) + 1
    BY <1>0, HeadTailProperties, AppendProperties
<1>2. (Feeding(c) \o c2s[c])' = q /\ pipe'[c] = Tail(p)
    BY DEF ReadMessage, Types, UpOK, Feeding
<1>3. \A d \in Conns \ {c} : Up(d)' = Up(d) /\ fragment'[d] = fragment[d]
    BY ServerTouches DEF Touches, Up, Feeding
<1>4. Up(c) = msg \o (Tail(p) \o q)
  <2>1. Up(c) = f \o (p \o q)
    BY DEF Up
  <2>2. f \o p = msg \o Tail(p)
    BY <1>0, MoveHead
  <2> DEFINE r == Tail(p)
  <2>3. msg \in Seq(Piece) /\ r \in Seq(Piece) /\ q \in Seq(Piece)
    BY <1>0, <1>1
  <2> HIDE DEF f, p, q, msg, r
  <2>4. f \o (p \o q) = (f \o p) \o q
    BY <1>0, ConcatAssociative
  <2>5. (msg \o r) \o q = msg \o (r \o q)
    BY <2>3, ConcatAssociative
  <2> QED
    BY <2>1, <2>2, <2>4, <2>5 DEF r
<1>5. /\ fragment'[c] = msg => Up(c)' = msg \o (Tail(p) \o q)
      /\ fragment'[c] = <<>> => Up(c)' = Tail(p) \o q
  <2>1. Up(c)' = fragment'[c] \o (Tail(p) \o q)
    BY <1>2 DEF Up
  <2>2. Tail(p) \o q \in Seq(Piece)
    <3> HIDE DEF q
    <3> QED
      BY <1>0, <1>1, ConcatProperties
  <2>3. <<>> \o (Tail(p) \o q) = Tail(p) \o q
    <3> DEFINE r == Tail(p) \o q
    <3> HIDE DEF r
    <3>1. <<>> \o r = r
      BY <2>2, ConcatEmptySeq DEF r
    <3> QED
      BY <3>1 DEF r
  <2> QED
    BY <2>1, <2>3
<1>6. \/ /\ UNCHANGED tasks /\ fragment'[c] = msg /\ (msg[1].part = 2 \/ Len(msg) = 1)
      \/ /\ Spawn(c, msg) /\ fragment'[c] = <<>> /\ (msg[1].part = 2 \/ Len(msg) = 2)
    BY DEF ReadMessage, Types, UpOK
<1> QED
    BY <1>1, <1>3, <1>4, <1>5, <1>6

\* The client appends a piece.
LEMMA SendUp ==
    ASSUME Types, Calling, SendPiece
    PROVE  LET z == [xid |-> Cur, part |-> client.sent + 1] IN
           /\ z \in Piece /\ client.conn \in Conns
           /\ \A d \in Conns : Up(d)' = IF d = client.conn THEN Append(Up(d), z) ELSE Up(d)
<1> DEFINE z == [xid |-> Cur, part |-> client.sent + 1]
<1>1. client.conn \in Conns /\ z \in Piece
    BY CurType DEF SendPiece, Types, ClientOK, ClientType, Calling, Waiting, Piece
<1>2. /\ c2s' = [c2s EXCEPT ![client.conn] = Append(@, z)]
      /\ UNCHANGED <<server, pipe, fragment>>
    BY DEF SendPiece, serverVars
<1> HIDE DEF z
<1>3. ASSUME NEW d \in Conns, d # client.conn PROVE Up(d)' = Up(d)
    BY <1>2, <1>3 DEF Up, Feeding, Types, UpOK
<1>4. ASSUME NEW d \in Conns, d = client.conn PROVE Up(d)' = Append(Up(d), z)
  <2> DEFINE f == fragment[d]
             p == pipe[d]
             o == Feeding(d)
             q == c2s[d]
  <2>1. /\ f \in Seq(Piece) /\ p \in Seq(Piece) /\ o \in Seq(Piece) /\ q \in Seq(Piece)
        /\ o \o q \in Seq(Piece) /\ p \o (o \o q) \in Seq(Piece)
    BY UpTypes
  <2>2. c2s'[d] = Append(q, z) /\ fragment'[d] = f /\ pipe'[d] = p /\ Feeding(d)' = o
    BY <1>2, <1>4 DEF Types, UpOK, Feeding
  <2>3. Up(d)' = f \o (p \o (o \o Append(q, z))) /\ Up(d) = f \o (p \o (o \o q))
    BY <2>2 DEF Up
  <2> HIDE DEF f, p, o, q
  <2>4. o \o Append(q, z) = Append(o \o q, z)
    BY <1>1, <2>1, AppendRight
  <2> DEFINE r == o \o q
  <2>5. p \o Append(r, z) = Append(p \o r, z)
    <3> HIDE DEF r
    <3> QED
      BY <1>1, <2>1, AppendRight DEF r
  <2> DEFINE s == p \o r
  <2>6. f \o Append(s, z) = Append(f \o s, z)
    <3>1. s \in Seq(Piece)
      BY <2>1
    <3> HIDE DEF s
    <3> QED
      BY <1>1, <2>1, <3>1, AppendRight
  <2> QED
    BY <2>3, <2>4, <2>5, <2>6
<1> QED
    BY <1>1, <1>3, <1>4 DEF z

\* Only sending and the message loop change what is on its way.
LEMMA UpStep ==
    ASSUME Types, Unused, Next
    PROVE  \/ \A d \in Conns : Up(d)' = Up(d) /\ fragment'[d] = fragment[d]
           \/ SendPiece
           \/ \E c \in Conns : ReadMessage(c)
<1>1. ASSUME UNCHANGED <<server, fragment, pipe, c2s>>
      PROVE  \A d \in Conns : Up(d)' = Up(d) /\ fragment'[d] = fragment[d]
    BY <1>1 DEF Up, Feeding
<1>2. CASE \E b \in Bodies : Call(b)
    BY <1>1, <1>2 DEF Call, serverVars
<1>3. CASE ReadPiece \/ RecvGarbage \/ ConnectionLost \/ Cancel \/ Listen
    BY <1>1, <1>3 DEF ReadPiece, RecvGarbage, ConnectionLost, Cancel, Listen, serverVars
<1>4. ASSUME NEW t \in tasks, TaskStep(t)
      PROVE  \A d \in Conns : Up(d)' = Up(d) /\ fragment'[d] = fragment[d]
    BY <1>1, <1>4, TaskTouches
<1>5. CASE Reconnect
  <2>1. client.conn + 1 \in Conns /\ client.conn + 1 > client.conn
    BY <1>5, Bounds DEF Reconnect, Types, ClientOK, ClientType, Conns
  <2>2. server[client.conn + 1].pc = "unborn"
    BY <2>1 DEF Unused, Serving
  <2>3. \A d \in Conns : Feeding(d)' = Feeding(d)
    BY <1>5, <2>1, <2>2 DEF Reconnect, Types, ServerOK, Feeding, Serving
  <2> QED
    BY <1>5, <2>3 DEF Reconnect, Up
<1>6. ASSUME NEW c \in Conns, ProcessSocket(c), NEW d \in Conns
      PROVE  Up(d)' = Up(d) /\ fragment'[d] = fragment[d]
  <2>1. UNCHANGED fragment
    BY <1>6 DEF ProcessSocket, ReadSocket, FeedPipe, SocketEnds, TakeReply, WriteFragment
  <2> QED
    BY <1>6, <2>1, ServerUp
<1> QED
    BY <1>2, <1>3, <1>4, <1>5, <1>6 DEF Next, ClientStep

\* What a call has come to stays, and so does what it has torn.
LEMMA Settled ==
    ASSUME Types, Calling, Next
    PROVE  /\ \A x \in Xids : outcome[x] \notin {"none", "pending"} => outcome'[x] = outcome[x]
           /\ torn => torn'
           /\ client.xid <= client'.xid
           /\ Abandoned \subseteq Abandoned'
<1>0. client.xid \in Int
    BY DEF Types, ClientOK, ClientType
<1>2. ASSUME UNCHANGED <<outcome, torn, client>>
      PROVE  /\ \A x \in Xids : outcome[x] \notin {"none", "pending"} => outcome'[x] = outcome[x]
             /\ (torn => torn') /\ client.xid <= client'.xid
    BY <1>0, <1>2
<1>3. ASSUME NEW res, NEW pc \in {"idle", "gone"}, Return(res, pc), Waiting
      PROVE  /\ \A x \in Xids : outcome[x] \notin {"none", "pending"} => outcome'[x] = outcome[x]
             /\ client.xid <= client'.xid
    BY <1>0, <1>3, ReturnOutcome
<1>4. /\ \A x \in Xids : outcome[x] \notin {"none", "pending"} => outcome'[x] = outcome[x]
      /\ (torn => torn') /\ client.xid <= client'.xid
  <2>1. CASE \E b \in Bodies : Call(b)
    <3>1. client.xid \in Xids /\ outcome[client.xid] = "none" /\ UNCHANGED torn
      BY <2>1 DEF Call, Calling, Types, ClientOK, ClientType, Xids
    <3>2. \A x \in Xids : outcome'[x] = IF x = client.xid THEN "pending" ELSE outcome[x]
      BY <2>1, <3>1 DEF Call, Types, CallsOK
    <3>3. client'.xid = client.xid + 1
      BY <2>1 DEF Call, Types, ClientOK, ClientType
    <3> QED
      BY <1>0, <3>1, <3>2, <3>3
  <2>2. CASE SendPiece
    <3>1. client'.xid = client.xid /\ UNCHANGED <<outcome, torn>>
      BY <2>2 DEF SendPiece, Types, ClientOK, ClientType
    <3> QED
      BY <1>0, <3>1
  <2>3. CASE ReadPiece
    <3> DEFINE got == Append(client.got, Head(s2c[client.conn]))
    <3>1. /\ UNCHANGED torn /\ got[1] \in ReplyPiece /\ Waiting
          /\ RecvReply(got[1]) \/ (client' = [client EXCEPT !.got = got] /\ UNCHANGED outcome)
      BY <2>3, ReadPieceTypes DEF ReadPiece, Waiting
    <3> HIDE DEF got
    <3>2. CASE RecvReply(got[1])
      BY <1>3, <3>1, <3>2, RecvReplyReturns
    <3>3. CASE client' = [client EXCEPT !.got = got] /\ UNCHANGED outcome
      BY <1>0, <3>1, <3>3 DEF Types, ClientOK, ClientType
    <3> QED
      BY <3>1, <3>2, <3>3
  <2>4. CASE RecvGarbage \/ ConnectionLost \/ Cancel
    <3>1. /\ Waiting
          /\ \E res \in {"Garbled", "Panic", "Io", "Cancelled"}, pc \in {"idle", "gone"} :
                Return(res, pc)
      BY <2>4 DEF RecvGarbage, ConnectionLost, Cancel, Waiting
    <3>2. torn => torn'
      BY <2>4, Zenon DEF RecvGarbage, ConnectionLost, Cancel
    <3> QED
      BY <1>3, <3>1, <3>2
  <2>5. CASE Reconnect
    <3>1. client'.xid = client.xid /\ UNCHANGED <<outcome, torn>>
      BY <2>5 DEF Reconnect, Types, ClientOK, ClientType
    <3> QED
      BY <1>0, <3>1
  <2>6. ASSUME NEW c \in Conns, ProcessSocket(c) \/ ReadMessage(c)
        PROVE  UNCHANGED <<outcome, torn, client>>
    BY <2>6 DEF ProcessSocket, ReadSocket, FeedPipe, SocketEnds, TakeReply, WriteFragment,
                ReadMessage
  <2>7. ASSUME NEW t \in tasks, TaskStep(t) PROVE UNCHANGED <<outcome, torn, client>>
    BY <2>7, TaskTouches
  <2>8. CASE Listen
    BY <1>2, <2>8 DEF Listen
  <2> QED
    BY <1>2, <2>1, <2>2, <2>3, <2>4, <2>5, <2>6, <2>7, <2>8 DEF Next, ClientStep
<1>5. Abandoned \subseteq Abandoned'
  <2>1. CASE ~torn
    <3>1. Abandoned = {}
      BY <2>1 DEF Abandoned
    <3> QED
      BY <3>1
  <2>2. CASE torn
    <3>1. torn'
      BY <1>4, <2>2, Zenon
    <3>2. Abandoned = {x \in Xids : outcome[x] \notin {"none", "pending", "Ok"}}
      BY <2>2 DEF Abandoned
    <3>3. Abandoned' = {x \in Xids : outcome'[x] \notin {"none", "pending", "Ok"}}
      BY <3>1 DEF Abandoned
    <3>4. \A x \in Xids : outcome[x] \notin {"none", "pending"} => outcome'[x] = outcome[x]
      BY <1>4, Zenon
    <3> QED
      BY <3>2, <3>3, <3>4
  <2> QED
    BY <2>1, <2>2
<1> QED
    BY <1>4, <1>5

\* A stream in which first pieces are followed by second ones may grow.
LEMMA LinkedAppend ==
    ASSUME NEW s \in Seq(Piece), NEW z \in Piece, NEW A, Linked(s, A),
           s # <<>> /\ s[Len(s)].part = 1 => z = Second(s[Len(s)]) \/ s[Len(s)].xid \in A
    PROVE  Linked(Append(s, z), A)
<1> DEFINE a == Append(s, z)
<1>1. Len(s) \in Nat /\ Len(a) = Len(s) + 1 /\ (\A i \in 1..Len(s) : a[i] = s[i])
    BY LenProperties, AppendProperties
<1>2. a[Len(s) + 1] = z
    BY AppendProperties
<1>3. s = <<>> => Len(s) = 0
    BY EmptySeq
<1> HIDE DEF a
<1>4. ASSUME NEW i \in 1..(Len(a) - 1), a[i].part = 1
      PROVE  a[i + 1] = Second(a[i]) \/ a[i].xid \in A
  <2>1. CASE i < Len(s)
    <3>1. i \in 1..(Len(s) - 1) /\ i \in 1..Len(s) /\ i + 1 \in 1..Len(s)
      BY <1>1, <2>1
    <3>2. a[i] = s[i] /\ a[i + 1] = s[i + 1]
      BY <1>1, <3>1
    <3> QED
      BY <1>4, <3>1, <3>2 DEF Linked
  <2>2. CASE i = Len(s)
    <3>1. a[i] = s[Len(s)] /\ a[i + 1] = z /\ s # <<>>
      BY <1>1, <1>2, <1>3, <2>2
    <3> QED
      BY <1>4, <3>1
  <2> QED
    BY <1>1, <2>1, <2>2
<1>5. Linked(a, A)
    BY <1>4 DEF Linked
<1> QED
    BY <1>5 DEF a

\* The xids of pieces are numbers.
LEMMA XidsOf ==
    ASSUME NEW s \in Seq(Piece)
    PROVE  \A i \in 1..Len(s) : s[i] \in Piece /\ s[i].xid \in Int
<1>1. \A i \in 1..Len(s) : s[i] \in Piece
    BY ElementOfSeq
<1>2. \A z \in Piece : z.xid \in Int
    BY DEF Piece, Xids
<1> QED
    BY <1>1, <1>2

\* A stream of calls that were made may grow by another.
LEMMA BelowAppend ==
    ASSUME NEW s \in Seq(Piece), NEW z \in Piece, NEW n \in Int, NEW m \in Int, Below(s, n),
           n <= m, z.xid < m
    PROVE  Below(Append(s, z), m)
<1> DEFINE a == Append(s, z)
<1>1. Len(s) \in Nat /\ Len(a) = Len(s) + 1 /\ (\A i \in 1..Len(s) : a[i] = s[i])
    BY LenProperties, AppendProperties
<1>2. a[Len(s) + 1] = z
    BY AppendProperties
<1>3. \A i \in 1..Len(s) : s[i].xid \in Int
    BY XidsOf
<1> HIDE DEF a
<1>4. ASSUME NEW i \in 1..Len(a) PROVE a[i].xid < m
  <2>1. CASE i \in 1..Len(s)
    BY <1>1, <1>3, <2>1 DEF Below
  <2>2. CASE i = Len(s) + 1
    BY <1>2, <2>2
  <2> QED
    BY <1>1, <2>1, <2>2
<1>5. Below(a, m)
    BY <1>4 DEF Below
<1> QED
    BY <1>5 DEF a

\* Abandoning more calls
LEMMA LinkedMore ==
    ASSUME NEW s, NEW A, NEW B, A \subseteq B, Linked(s, A)
    PROVE  Linked(s, B)
BY DEF Linked

\* or making more breaks no stream.
LEMMA BelowMore ==
    ASSUME NEW s \in Seq(Piece), NEW n \in Int, NEW m \in Int, Below(s, n), n <= m
    PROVE  Below(s, m)
<1>1. \A i \in 1..Len(s) : s[i].xid \in Int
    BY XidsOf
<1> QED
    BY <1>1 DEF Below

\* What is left of a chain when its first pieces are taken away.
LEMMA Suffix ==
    ASSUME NEW m \in Seq(Piece), NEW u \in Seq(Piece), NEW s, s = m \o u
    PROVE  /\ Len(s) = Len(m) + Len(u) /\ Len(m) \in Nat /\ Len(u) \in Nat
           /\ \A i \in 1..Len(m) : s[i] = m[i]
           /\ \A i \in 1..Len(u) : s[Len(m) + i] = u[i]
<1>1. /\ Len(m) \in Nat /\ Len(u) \in Nat /\ Len(m \o u) = Len(m) + Len(u)
      /\ \A i \in 1..(Len(m) + Len(u)) : (m \o u)[i] = IF i <= Len(m) THEN m[i] ELSE u[i - Len(m)]
    BY ConcatProperties, LenProperties
<1>2. Len(s) = Len(m) + Len(u)
    BY <1>1, Zenon
<1>3. \A i \in 1..(Len(m) + Len(u)) : s[i] = IF i <= Len(m) THEN m[i] ELSE u[i - Len(m)]
    BY <1>1, Zenon
<1>4. ASSUME NEW i \in 1..Len(m) PROVE s[i] = m[i]
  <2>1. i \in 1..(Len(m) + Len(u)) /\ i <= Len(m)
    BY <1>1
  <2> QED
    BY <1>3, <2>1
<1>5. ASSUME NEW i \in 1..Len(u) PROVE s[Len(m) + i] = u[i]
  <2>1. Len(m) + i \in 1..(Len(m) + Len(u)) /\ ~(Len(m) + i <= Len(m)) /\ (Len(m) + i) - Len(m) = i
    BY <1>1
  <2> QED
    BY <1>3, <2>1
<1> QED
    BY <1>1, <1>2, <1>4, <1>5

\* What is left of a stream is in order when the stream was, and so is what was taken.
LEMMA ChainSuffix ==
    ASSUME NEW m \in Seq(Piece), NEW u \in Seq(Piece), NEW s, s = m \o u, NEW A, NEW n,
           Linked(s, A), Below(s, n)
    PROVE  /\ Linked(u, A) /\ Below(u, n) /\ Below(m, n) /\ Linked(m, A)
           /\ u # <<>> => s # <<>> /\ s[Len(s)] = u[Len(u)]
<1>1. /\ Len(s) = Len(m) + Len(u) /\ Len(m) \in Nat /\ Len(u) \in Nat
      /\ \A i \in 1..Len(m) : s[i] = m[i]
      /\ \A i \in 1..Len(u) : s[Len(m) + i] = u[i]
    BY Suffix
<1>2. Linked(u, A)
  <2>1. ASSUME NEW i \in 1..(Len(u) - 1), u[i].part = 1
        PROVE  u[i + 1] = Second(u[i]) \/ u[i].xid \in A
    <3>1. /\ i \in 1..Len(u) /\ i + 1 \in 1..Len(u) /\ Len(m) + i \in 1..(Len(s) - 1)
          /\ Len(m) + (i + 1) = (Len(m) + i) + 1
      BY <1>1
    <3>2. s[Len(m) + i] = u[i] /\ s[(Len(m) + i) + 1] = u[i + 1]
      BY <1>1, <3>1
    <3> QED
      BY <2>1, <3>1, <3>2 DEF Linked
  <2> QED
    BY <2>1 DEF Linked
<1>3. Linked(m, A)
  <2>1. ASSUME NEW i \in 1..(Len(m) - 1), m[i].part = 1
        PROVE  m[i + 1] = Second(m[i]) \/ m[i].xid \in A
    <3>1. i \in 1..Len(m) /\ i + 1 \in 1..Len(m) /\ i \in 1..(Len(s) - 1)
      BY <1>1
    <3>2. s[i] = m[i] /\ s[i + 1] = m[i + 1]
      BY <1>1, <3>1
    <3> QED
      BY <2>1, <3>1, <3>2 DEF Linked
  <2> QED
    BY <2>1 DEF Linked
<1>4. Below(u, n)
  <2>1. ASSUME NEW i \in 1..Len(u) PROVE u[i].xid < n
    <3>1. Len(m) + i \in 1..Len(s) /\ s[Len(m) + i] = u[i]
      BY <1>1
    <3> QED
      BY <3>1 DEF Below
  <2> QED
    BY <2>1 DEF Below
<1>5. Below(m, n)
  <2>1. ASSUME NEW i \in 1..Len(m) PROVE m[i].xid < n
    <3>1. i \in 1..Len(s) /\ s[i] = m[i]
      BY <1>1
    <3> QED
      BY <3>1 DEF Below
  <2> QED
    BY <2>1 DEF Below
<1>6. ASSUME u # <<>> PROVE s # <<>> /\ s[Len(s)] = u[Len(u)]
  <2>1. Len(u) \in 1..Len(u)
    BY <1>1, <1>6, EmptySeq
  <2>2. s[Len(m) + Len(u)] = u[Len(u)] /\ Len(s) # 0
    BY <1>1, <2>1
  <2> QED
    BY <1>1, <2>2
<1> QED
    BY <1>2, <1>3, <1>4, <1>5, <1>6

\* What the message loop hands over, and what stays behind.
LEMMA LoopChain ==
    ASSUME Types, NEW c \in Conns, Chain(c), ReadMessage(c)
    PROVE  /\ Linked(Up(c)', Abandoned) /\ Below(Up(c)', client.xid)
           /\ Up(c)' # <<>> => Up(c) # <<>> /\ Up(c)'[Len(Up(c)')] = Up(c)[Len(Up(c))]
           /\ Len(fragment'[c]) > 1 => fragment'[c][1].part = 2
           /\ \A t \in tasks' \ tasks : /\ Whole(t, Abandoned) /\ t.head.xid < client.xid
                                        /\ t.pc = "spawned"
<1> DEFINE msg == Append(fragment[c], Head(pipe[c]))
           n == [conn |-> c, head |-> Head(msg), tail |-> Last(msg), pc |-> "spawned"]
<1>1. /\ msg \in Seq(Piece) /\ Len(msg) = Len(fragment[c]) + 1
      /\ \/ /\ UNCHANGED tasks /\ Up(c)' = Up(c) /\ fragment'[c] = msg
            /\ msg[1].part = 2 \/ Len(msg) = 1
         \/ /\ Spawn(c, msg) /\ Up(c) = msg \o Up(c)' /\ fragment'[c] = <<>>
            /\ msg[1].part = 2 \/ Len(msg) = 2
    BY LoopUp
<1>2. Linked(Up(c), Abandoned) /\ Below(Up(c), client.xid)
    BY DEF Chain
<1>3. CASE /\ UNCHANGED tasks /\ Up(c)' = Up(c) /\ fragment'[c] = msg
           /\ msg[1].part = 2 \/ Len(msg) = 1
  <2>1. Len(fragment'[c]) > 1 => fragment'[c][1].part = 2
    <3>0. Len(msg) = 1 \/ msg[1].part = 2
      BY <1>3, Zenon
    <3>1. Len(msg) = 1 => ~(Len(msg) > 1)
      <4> DEFINE l == Len(msg)
      <4> HIDE DEF l
      <4>1. l = 1 => ~(l > 1)
        OBVIOUS
      <4> QED
        BY <4>1 DEF l
    <3>2. Len(msg) > 1 => msg[1].part = 2
      BY <3>0, <3>1, Zenon
    <3> HIDE DEF msg
    <3> QED
      BY <1>3, <3>2, Zenon
  <2> QED
    BY <1>2, <1>3, <2>1
<1>4. CASE /\ Spawn(c, msg) /\ Up(c) = msg \o Up(c)' /\ fragment'[c] = <<>>
           /\ msg[1].part = 2 \/ Len(msg) = 2
  <2>1. Up(c)' \in Seq(Piece)
    BY LoopTypes, UpTypesNext
  <2>2. /\ Linked(Up(c)', Abandoned) /\ Below(Up(c)', client.xid)
        /\ Below(msg, client.xid) /\ Linked(msg, Abandoned)
        /\ Up(c)' # <<>> => Up(c) # <<>> /\ Up(c)'[Len(Up(c)')] = Up(c)[Len(Up(c))]
    <3> DEFINE u == Up(c)'
    <3>1. u \in Seq(Piece) /\ Up(c) = msg \o u
      BY <1>4, <2>1
    <3>2. msg \in Seq(Piece)
      BY <1>1
    <3> DEFINE s == Up(c)
               A == Abandoned
               k == client.xid
    <3> HIDE DEF u, msg, s, A, k
    <3>3. s = msg \o u /\ Linked(s, A) /\ Below(s, k)
      BY <1>2, <3>1 DEF s, A, k
    <3>4. /\ Linked(u, A) /\ Below(u, k) /\ Below(msg, k) /\ Linked(msg, A)
          /\ u # <<>> => s # <<>> /\ s[Len(s)] = u[Len(u)]
      BY <3>1, <3>2, <3>3, ChainSuffix
    <3> QED
      BY <3>4 DEF u, s, A, k
  <2>3. ~(Len(fragment'[c]) > 1)
    BY <1>4
  <2>4. tasks' = tasks \cup {n}
    BY <1>4 DEF Spawn
  <2>5. Whole(n, Abandoned) /\ n.head.xid < client.xid /\ n.pc = "spawned"
    <3>1. n.head = msg[1] /\ n.tail = msg[Len(msg)] /\ n.pc = "spawned"
      BY DEF Last
    <3>2. Len(fragment[c]) \in Nat
      BY UpTypes, LenProperties
    <3> HIDE DEF n, msg
    <3>3. 1 \in 1..Len(msg) /\ msg[1].xid < client.xid
      BY <1>1, <2>2, <3>2 DEF Below
    <3>4. ASSUME msg[1].part = 1 PROVE msg[Len(msg)] = Second(msg[1]) \/ msg[1].xid \in Abandoned
      <4>1. msg[1].part # 2
        BY <3>4
      <4>2. Len(msg) = 2
        BY <1>4, <4>1
      <4>3. 1 \in 1..(Len(msg) - 1) /\ 1 + 1 = Len(msg)
        BY <4>2
      <4>4. msg[1 + 1] = Second(msg[1]) \/ msg[1].xid \in Abandoned
        BY <2>2, <3>4, <4>3 DEF Linked
      <4> QED
        BY <4>3, <4>4
    <3> QED
      BY <3>1, <3>3, <3>4 DEF Whole
  <2> HIDE DEF n
  <2> QED
    BY <2>2, <2>3, <2>4, <2>5
<1> QED
    BY <1>1, <1>3, <1>4

\* Every stream to a message loop stays in order.
LEMMA ChainStep ==
    ASSUME Types, Calling, Unused, Streams, Next, NEW c \in Conns
    PROVE  Chain(c)'
<1>0. /\ Abandoned \subseteq Abandoned' /\ client.xid <= client'.xid
      /\ client.xid \in Int /\ client'.xid \in Int
  <2>1. client.xid \in Int /\ client'.xid \in Int
    BY TypesStep DEF Types, ClientOK, ClientType, Caller
  <2>2. Abandoned \subseteq Abandoned' /\ client.xid <= client'.xid
    BY Settled
  <2> QED
    BY <2>1, <2>2
<1>1. Chain(c) /\ Up(c) \in Seq(Piece)
    BY UpTypes DEF Streams
<1>2. ASSUME Linked(Up(c)', Abandoned), Below(Up(c)', client.xid), Up(c)' \in Seq(Piece),
             Len(fragment'[c]) > 1 => fragment'[c][1].part = 2
      PROVE  Chain(c)'
    BY <1>0, <1>2, LinkedMore, BelowMore DEF Chain
<1>3. CASE Up(c)' = Up(c) /\ fragment'[c] = fragment[c]
    BY <1>1, <1>2, <1>3 DEF Chain
<1>4. CASE SendPiece
  <2> DEFINE z == [xid |-> Cur, part |-> client.sent + 1]
             s == Up(c)
  <2>1. z \in Piece /\ \A d \in Conns : Up(d)' = IF d = client.conn THEN Append(Up(d), z) ELSE Up(d)
    BY <1>4, SendUp
  <2>2. UNCHANGED fragment /\ client'.xid = client.xid
    BY <1>4 DEF SendPiece, serverVars, Types, ClientOK, ClientType
  <2>3. CASE c # client.conn
    BY <1>3, <2>1, <2>2, <2>3
  <2>4. CASE c = client.conn
    <3>1. s # <<>> /\ s[Len(s)].part = 1 => z = Second(s[Len(s)]) \/ s[Len(s)].xid \in Abandoned
      <4>1. Tip(c, s) /\ ~Closed(c) /\ client.sent \in {0, 1} /\ client.pc = "sending"
        BY <1>4, <2>4 DEF Streams, SendPiece, Calling
      <4>2. CASE client.sent = 1
        <5>1. s # <<>> => s[Len(s)] = First(Cur)
          BY <4>1, <4>2 DEF Tip
        <5>2. Second(First(Cur)) = z
          BY <4>2 DEF First, Second
        <5> QED
          BY <5>1, <5>2
      <4>3. CASE client.sent = 0
        BY <4>1, <4>3 DEF Tip
      <4> QED
        BY <4>1, <4>2, <4>3
    <3>2. z.xid < client.xid
      BY <1>0 DEF Cur
    <3>3. Up(c)' = Append(s, z) /\ s \in Seq(Piece) /\ Linked(s, Abandoned) /\ Below(s, client.xid)
      BY <1>1, <2>1, <2>4 DEF Chain
    <3> HIDE DEF z, s
    <3>4. Linked(Append(s, z), Abandoned)
      BY <2>1, <3>1, <3>3, LinkedAppend
    <3>5. Below(Append(s, z), client.xid)
      BY <1>0, <2>1, <3>2, <3>3, BelowAppend
    <3>6. Append(s, z) \in Seq(Piece)
      BY <2>1, <3>3, AppendProperties
    <3> QED
      BY <1>1, <1>2, <2>2, <3>3, <3>4, <3>5, <3>6 DEF Chain
  <2> QED
    BY <2>3, <2>4
<1>5. ASSUME NEW d \in Conns, ReadMessage(d) PROVE Chain(c)'
  <2>1. CASE c # d
    BY <1>3, <1>5, <2>1, LoopUp
  <2>2. CASE c = d
    <3>1. Up(c)' \in Seq(Piece)
      BY <1>5, LoopTypes, UpTypesNext
    <3> QED
      BY <1>1, <1>2, <1>5, <2>2, <3>1, LoopChain
  <2> QED
    BY <2>1, <2>2
<1> QED
    BY <1>3, <1>4, <1>5, UpStep

\* What the client sent last is a first piece only while it is to send the
\* second, or when nobody will read it in place.
LEMMA TipStep ==
    ASSUME Types, Calling, Unused, Streams, Next
    PROVE  Tip(client.conn, Up(client.conn))'
<1>0. Abandoned \subseteq Abandoned'
    BY Settled
<1> DEFINE half == client.pc = "sending" /\ client.sent = 1
<1>1. PICK c \in Conns : c = client'.conn
    BY TypesStep DEF Types, ClientOK, ClientType, Caller
<1>2. SUFFICES ASSUME Up(c)' # <<>>
               PROVE  IF half' THEN Up(c)'[Len(Up(c)')] = First(Cur')
                      ELSE Up(c)'[Len(Up(c)')].part = 1 =>
                            Closed(c)' \/ Up(c)'[Len(Up(c)')].xid \in Abandoned'
  <2> DEFINE u == Up(client.conn)'
  <2>1. u = Up(c)' /\ (Closed(client.conn)' <=> Closed(c)')
    BY <1>1 DEF Up, Feeding, Closed
  <2> QED
    BY <1>2, <2>1 DEF Tip
<1>3. CASE Reconnect
  <2>1. client'.conn = client.conn + 1 /\ client.conn + 1 > client.conn
    BY <1>3 DEF Reconnect, Types, ClientOK, ClientType, Conns
  <2>2. Up(c) = <<>>
    <3>1. fragment[c] = <<>> /\ pipe[c] = <<>> /\ c2s[c] = <<>> /\ Feeding(c) = <<>>
      BY <1>1, <2>1 DEF Unused, Serving, Feeding
    <3> QED
      BY <3>1 DEF Up
  <2>3. Up(c)' = Up(c)
    <3>0. client'.conn # client.conn
      BY <2>1 DEF Types, ClientOK, ClientType, Conns
    <3>1. ~SendPiece
      BY <3>0, ClientTouches DEF ClientStep
    <3>2. ~\E d \in Conns : ReadMessage(d)
      BY <3>0 DEF ReadMessage
    <3> QED
      BY <3>1, <3>2, UpStep
  <2> QED
    BY <1>2, <2>2, <2>3
<1>4. ASSUME client'.conn = client.conn PROVE c = client.conn
    BY <1>1, <1>4
<1>5. ASSUME c = client.conn, Up(c) # <<>>, ~half, ~half',
             Up(c)'[Len(Up(c)')] = Up(c)[Len(Up(c))]
      PROVE  Up(c)'[Len(Up(c)')].part = 1 => Closed(c)' \/ Up(c)'[Len(Up(c)')].xid \in Abandoned'
  <2>1. Up(c)[Len(Up(c))].part = 1 => Closed(c) \/ Up(c)[Len(Up(c))].xid \in Abandoned
    BY <1>5 DEF Streams, Tip
  <2> QED
    BY <1>0, <1>5, <2>1, ClosedStays
<1>6. ASSUME c = client.conn, Up(c) # <<>>, half, half', Cur' = Cur,
             Up(c)'[Len(Up(c)')] = Up(c)[Len(Up(c))]
      PROVE  Up(c)'[Len(Up(c)')] = First(Cur')
    BY <1>6 DEF Streams, Tip
<1>7. CASE SendPiece
  <2> DEFINE z == [xid |-> Cur, part |-> client.sent + 1]
  <2>1. z \in Piece /\ c = client.conn /\ Up(c)' = Append(Up(c), z) /\ Up(c) \in Seq(Piece)
    BY <1>1, <1>4, <1>7, SendUp, UpTypes, ClientTouches DEF ClientStep
  <2>2. Up(c)'[Len(Up(c)')] = z
    <3> DEFINE s == Up(c)
    <3> HIDE DEF z, s
    <3>1. s \in Seq(Piece) /\ z \in Piece
      BY <2>1 DEF s
    <3>2. Len(Append(s, z)) = Len(s) + 1 /\ Append(s, z)[Len(s) + 1] = z
      BY <3>1, AppendProperties
    <3> QED
      BY <2>1, <3>2 DEF s
  <2>3. /\ client.sent \in {0, 1} /\ client.pc = "sending" /\ Cur' = Cur
        /\ client'.sent = client.sent + 1
        /\ client'.pc = IF client.sent = 1 THEN "receiving" ELSE "sending"
    BY <1>7 DEF SendPiece, Calling, Cur, Types, ClientOK, ClientType
  <2>4. CASE client.sent = 0
    <3>1. z = First(Cur) /\ half'
      BY <2>3, <2>4 DEF First
    <3> QED
      BY <2>2, <2>3, <3>1
  <2>5. CASE client.sent = 1
    <3>1. z.part = 2 /\ ~half'
      BY <2>3, <2>5
    <3> QED
      BY <2>2, <3>1
  <2> QED
    BY <2>3, <2>4, <2>5
<1>8. ASSUME c = client.conn, half' <=> half, half => Cur' = Cur,
             Up(c)' # <<>> => Up(c) # <<>> /\ Up(c)'[Len(Up(c)')] = Up(c)[Len(Up(c))]
      PROVE  IF half' THEN Up(c)'[Len(Up(c)')] = First(Cur')
             ELSE Up(c)'[Len(Up(c)')].part = 1 =>
                    Closed(c)' \/ Up(c)'[Len(Up(c)')].xid \in Abandoned'
    BY <1>2, <1>5, <1>6, <1>8
<1>9. ASSUME NEW d \in Conns, ReadMessage(d)
      PROVE  IF half' THEN Up(c)'[Len(Up(c)')] = First(Cur')
             ELSE Up(c)'[Len(Up(c)')].part = 1 =>
                    Closed(c)' \/ Up(c)'[Len(Up(c)')].xid \in Abandoned'
  <2>1. UNCHANGED client /\ Chain(d)
    BY <1>9 DEF ReadMessage, Streams
  <2>2. Up(c)' # <<>> => Up(c) # <<>> /\ Up(c)'[Len(Up(c)')] = Up(c)[Len(Up(c))]
    <3>1. CASE c = d
      BY <1>9, <2>1, <3>1, LoopChain
    <3>2. CASE c # d
      BY <1>9, <3>2, LoopUp
    <3> QED
      BY <3>1, <3>2
  <2>3. (half' <=> half) /\ Cur' = Cur /\ c = client.conn
    BY <1>4, <2>1 DEF Cur
  <2> QED
    BY <1>8, <2>2, <2>3
<1>10. ASSUME ~Reconnect, ~SendPiece, ~\E d \in Conns : ReadMessage(d)
      PROVE  IF half' THEN Up(c)'[Len(Up(c)')] = First(Cur')
             ELSE Up(c)'[Len(Up(c)')].part = 1 =>
                    Closed(c)' \/ Up(c)'[Len(Up(c)')].xid \in Abandoned'
  <2>1. Up(c)' = Up(c)
    BY <1>10, UpStep
  <2>2. ASSUME UNCHANGED client
        PROVE  IF half' THEN Up(c)'[Len(Up(c)')] = First(Cur')
               ELSE Up(c)'[Len(Up(c)')].part = 1 =>
                      Closed(c)' \/ Up(c)'[Len(Up(c)')].xid \in Abandoned'
    <3>1. (half' <=> half) /\ Cur' = Cur /\ c = client.conn
      BY <1>4, <2>2 DEF Cur
    <3> QED
      BY <1>8, <2>1, <3>1
  <2>3. ASSUME NEW b \in Bodies, Call(b)
        PROVE  IF half' THEN Up(c)'[Len(Up(c)')] = First(Cur')
               ELSE Up(c)'[Len(Up(c)')].part = 1 =>
                      Closed(c)' \/ Up(c)'[Len(Up(c)')].xid \in Abandoned'
    <3>1. client.pc = "idle" /\ client'.conn = client.conn /\ client'.sent = 0
      BY <2>3 DEF Call, Types, ClientOK, ClientType
    <3>2. ~half /\ ~half' /\ c = client.conn
      BY <1>4, <3>1
    <3> QED
      BY <1>8, <2>1, <3>2
  <2>4. ASSUME NEW res, NEW pc \in {"idle", "gone"}, Return(res, pc), Waiting,
               half => Closed(client.conn) \/ (res = "Cancelled" /\ torn')
        PROVE  IF half' THEN Up(c)'[Len(Up(c)')] = First(Cur')
               ELSE Up(c)'[Len(Up(c)')].part = 1 =>
                      Closed(c)' \/ Up(c)'[Len(Up(c)')].xid \in Abandoned'
    <3>1. /\ client'.conn = client.conn /\ client'.pc = pc /\ Cur \in Xids
          /\ outcome'[Cur] = res
      BY <2>4, ReturnOutcome
    <3>2. ~half' /\ c = client.conn
      BY <1>4, <3>1
    <3>3. CASE ~half
      BY <1>8, <2>1, <3>2, <3>3
    <3>4. CASE half /\ Closed(client.conn)
      BY <3>2, <3>4, ClosedStays
    <3>5. CASE half /\ res = "Cancelled" /\ torn'
      <4>1. Up(c)[Len(Up(c))] = First(Cur)
        BY <1>2, <2>1, <3>2, <3>5 DEF Streams, Tip
      <4>2. First(Cur).xid = Cur
        BY DEF First
      <4>3. Cur \in Abandoned'
        BY <3>1, <3>5 DEF Abandoned
      <4> QED
        BY <2>1, <3>2, <4>1, <4>2, <4>3
    <3> QED
      BY <2>4, <3>3, <3>4, <3>5
  <2>5. CASE ReadPiece
    <3> DEFINE got == Append(client.got, Head(s2c[client.conn]))
    <3>1. /\ got[1] \in ReplyPiece /\ Waiting /\ client.pc = "receiving"
          /\ RecvReply(got[1]) \/ client' = [client EXCEPT !.got = got]
      BY <2>5, ReadPieceTypes DEF ReadPiece, Waiting
    <3> HIDE DEF got
    <3>2. CASE RecvReply(got[1])
      BY <2>4, <3>1, <3>2, RecvReplyReturns
    <3>3. CASE client' = [client EXCEPT !.got = got]
      <4>1. /\ client'.conn = client.conn /\ client'.pc = client.pc /\ client'.sent = client.sent
            /\ client'.xid = client.xid
        BY <3>3 DEF Types, ClientOK, ClientType
      <4>2. (half' <=> half) /\ Cur' = Cur /\ c = client.conn
        BY <1>4, <4>1 DEF Cur
      <4> QED
        BY <1>8, <2>1, <4>2
    <3> QED
      BY <3>1, <3>2, <3>3
  <2>6. CASE RecvGarbage
    <3>1. Return("Garbled", "idle") \/ Return("Panic", "gone")
      BY <2>6 DEF RecvGarbage
    <3>2. Waiting /\ ~half
      BY <2>6 DEF RecvGarbage, Waiting
    <3> QED
      BY <2>4, <3>1, <3>2
  <2>7. CASE ConnectionLost
    BY <2>4, <2>7 DEF ConnectionLost, Waiting
  <2>8. CASE Cancel
    <3>1. Return("Cancelled", "idle") /\ Waiting
      BY <2>8 DEF Cancel, Waiting
    <3>2. half => torn'
      <4>1. half => client.sent > 0
        OBVIOUS
      <4>2. torn' <=> (torn \/ client.got # <<>> \/ (client.pc = "sending" /\ client.sent > 0))
        BY <2>8, Zenon DEF Cancel
      <4> QED
        BY <4>1, <4>2, Zenon
    <3> QED
      BY <2>4, <3>1, <3>2
  <2>9. CASE Listen
    BY <2>2, <2>9 DEF Listen
  <2>10. ASSUME NEW d \in Conns, ProcessSocket(d) PROVE UNCHANGED client
    BY <2>10, ServerTouches
  <2>11. ASSUME NEW t \in tasks, TaskStep(t) PROVE UNCHANGED client
    BY <2>11, TaskTouches
  <2> QED
    BY <1>10, <2>2, <2>3, <2>5, <2>6, <2>7, <2>8, <2>9, <2>10, <2>11 DEF Next, ClientStep
<1> QED
    BY <1>3, <1>7, <1>9, <1>10

\* Abandoning more calls makes no message broken.
LEMMA WholeMore ==
    ASSUME NEW m, NEW A, NEW B, A \subseteq B, Whole(m, A)
    PROVE  Whole(m, B)
BY DEF Whole

\* Only the first pieces of messages are handled.
LEMMA HandledIsFirst ==
    ASSUME Types, Calling, NEW t \in tasks, Parsed(t),
           \E call \in Decoded(t) : Screen(call) = "lock"
    PROVE  t.head.part = 1
<1>1. t.head.xid \in Xids /\ t.head.part \in {1, 2} /\ t.head.xid < client.xid
    BY DEF Types, TasksOK, Task, Piece, Parsed
<1>2. calls[t.head.xid] \in CallBody
    BY <1>1, ConnectionAssumption DEF Calling
<1>3. ASSUME t.head.part = 2 PROVE FALSE
  <2>1. Decoded(t) = {[calls[t.head.xid] EXCEPT !.kind = "garbled"]}
    BY <1>3 DEF Decoded, Intact
  <2>2. Screen([calls[t.head.xid] EXCEPT !.kind = "garbled"]) = "Err"
    BY <1>2, GarbledIsErr
  <2> QED
    BY <2>1, <2>2
<1> QED
    BY <1>1, <1>3

\* A task has the two halves of one message, or its call was abandoned.
LEMMA ParsedStep ==
    ASSUME Types, Calling, Unused, Streams, Next, NEW t \in tasks'
    PROVE  Parsed(t)'
<1>0. /\ Abandoned \subseteq Abandoned' /\ client.xid <= client'.xid
      /\ client.xid \in Int /\ client'.xid \in Int
  <2>1. client.xid \in Int /\ client'.xid \in Int
    BY TypesStep DEF Types, ClientOK, ClientType, Caller
  <2>2. Abandoned \subseteq Abandoned' /\ client.xid <= client'.xid
    BY Settled
  <2> QED
    BY <2>1, <2>2
<1>00. \A u \in tasks : u.head.xid \in Int
    BY DEF Types, TasksOK, Task, Piece, Xids
<1>1. ASSUME NEW u \in tasks, t.head = u.head, t.tail = u.tail, t.pc # "spawned" => u.head.part = 1
      PROVE  Parsed(t)'
  <2>1. Parsed(u)
    BY DEF Streams
  <2>2. Whole(t, Abandoned)
    BY <1>1, <2>1 DEF Parsed, Whole
  <2>3. Whole(t, Abandoned')
    BY <1>0, <2>2, WholeMore
  <2>4. t.head.xid < client'.xid
    BY <1>0, <1>00, <1>1, <2>1 DEF Parsed
  <2> QED
    BY <1>1, <2>3, <2>4 DEF Parsed
<1>2. CASE t \in tasks
  <2>1. Parsed(t)
    BY <1>2 DEF Streams
  <2> QED
    BY <1>1, <1>2, <2>1 DEF Parsed
<1>3. ASSUME NEW c \in Conns, ReadMessage(c), t \notin tasks PROVE Parsed(t)'
  <2>1. Chain(c)
    BY DEF Streams
  <2>2. Whole(t, Abandoned) /\ t.head.xid < client.xid /\ t.pc = "spawned"
    BY <1>3, <2>1, LoopChain
  <2>3. UNCHANGED client
    BY <1>3 DEF ReadMessage
  <2>4. Whole(t, Abandoned')
    BY <1>0, <2>2, WholeMore
  <2> QED
    BY <2>2, <2>3, <2>4 DEF Parsed
<1>4. ASSUME NEW u \in tasks, NEW pc \in {"running", "signal"}, Move(u, pc), u.head.part = 1,
             t \notin tasks
      PROVE  Parsed(t)'
  <2> DEFINE m == [u EXCEPT !.pc = pc]
  <2>1. tasks' = (tasks \ {u}) \cup {m} /\ m.head = u.head /\ m.tail = u.tail
    BY <1>4, MoveTasks
  <2> HIDE DEF m
  <2>2. t = m
    BY <1>4, <2>1
  <2> QED
    BY <1>1, <1>4, <2>1, <2>2
<1>5. ASSUME NEW u \in tasks, TaskStep(u), t \notin tasks PROVE Parsed(t)'
  <2>0. Parsed(u)
    BY DEF Streams
  <2>1. CASE HandleRpcMessage(u)
    <3>1. Move(u, "running") /\ \E call \in Decoded(u) : Screen(call) = "lock"
      BY <1>5, <2>1, HandleCases DEF SendReply
    <3>2. u.head.part = 1
      BY <2>0, <3>1, HandledIsFirst
    <3> QED
      BY <1>4, <1>5, <3>1, <3>2
  <2>2. CASE RunHandler(u)
    <3>1. Move(u, "signal") /\ u.pc = "running"
      BY <1>5, <2>2 DEF RunHandler, Complete, SendReply
    <3>2. u.head.part = 1
      BY <2>0, <3>1 DEF Parsed
    <3> QED
      BY <1>4, <1>5, <3>1, <3>2
  <2>3. CASE SendSignal(u) \/ Panic(u)
    BY <1>5, <2>3 DEF SendSignal, Panic, Complete, SendReply
  <2> QED
    BY <1>5, <2>1, <2>2, <2>3 DEF TaskStep
<1>6. \/ UNCHANGED tasks
      \/ \E c \in Conns : ReadMessage(c)
      \/ \E u \in tasks : TaskStep(u)
    BY DEF Next, Call, ClientStep, SendPiece, ReadPiece, RecvGarbage, ConnectionLost, Cancel,
           Reconnect, ProcessSocket, ReadSocket, FeedPipe, SocketEnds, TakeReply, WriteFragment,
           Listen, serverVars
<1> QED
    BY <1>2, <1>3, <1>5, <1>6

\* So has what is executed.
LEMMA RanStep ==
    ASSUME Types, Calling, Unused, Streams, Next, NEW e \in executed'
    PROVE  Ran(e)'
<1>0. Abandoned \subseteq Abandoned'
    BY Settled
<1>1. ASSUME Ran(e) PROVE Ran(e)'
    BY <1>0, <1>1, WholeMore DEF Ran
<1>2. CASE e \in executed
    BY <1>1, <1>2 DEF Streams
<1>3. ASSUME NEW t \in tasks, RunHandler(t), e \notin executed PROVE Ran(e)'
  <2> DEFINE n == [conn |-> t.conn, head |-> t.head, tail |-> t.tail]
  <2>1. executed' = executed \cup {n} /\ n.head = t.head /\ n.tail = t.tail /\ t.pc = "running"
    BY <1>3 DEF RunHandler
  <2> HIDE DEF n
  <2>2. e = n /\ Parsed(t)
    BY <1>3, <2>1 DEF Streams
  <2> QED
    BY <1>1, <2>1, <2>2 DEF Parsed, Ran, Whole
<1> QED
    BY <1>2, <1>3, ExecutedStep

\* A call ends with Ok only by a reply to it that says SUCCESS.
LEMMA OkStep ==
    ASSUME Types, Calling, Earned, Next, NEW x \in Xids, outcome'[x] = "Ok", outcome[x] # "Ok"
    PROVE  x \in Backed /\ outcome[x] = "pending"
<1>1. ASSUME NEW res, NEW pc \in {"idle", "gone"}, Return(res, pc), Waiting
      PROVE  res = "Ok" /\ x = Cur /\ outcome[x] = "pending"
    BY <1>1, ReturnOutcome
<1>2. CASE ReadPiece
  <2> DEFINE z == Head(s2c[client.conn])
             got == Append(client.got, z)
  <2>1. /\ client.conn \in Conns /\ s2c[client.conn] \in Seq(ReplyPiece)
        /\ s2c[client.conn] # <<>> /\ z \in ReplyPiece
        /\ got \in Seq(ReplyPiece) /\ got[1] \in ReplyPiece /\ Len(got) = Len(client.got) + 1
        /\ client.got \in Seq(ReplyPiece) /\ Waiting
    BY <1>2, ReadPieceTypes DEF ReadPiece, Waiting
  <2>2. RecvReply(got[1])
    BY <1>2 DEF ReadPiece
  <2>3. Paid(got, Backed)
    <3>1. Paid(s2c[client.conn], Backed) /\ Paid(client.got, Backed)
      BY <2>1 DEF Earned
    <3>2. z.stat = "SUCCESS" => z.xid \in Backed
      BY <2>1, <3>1, PaidParts
    <3> HIDE DEF z
    <3> QED
      BY <2>1, <3>1, <3>2, PaidAppend
  <2> HIDE DEF got, z
  <2>4. PICK res : /\ Return(res, "idle")
                   /\ (res = "Ok" => got[1].xid = Cur /\ got[1].stat = "SUCCESS")
    BY <2>1, <2>2, RecvReplyReturns
  <2>5. res = "Ok" /\ x = Cur /\ outcome[x] = "pending"
    BY <1>1, <2>1, <2>4
  <2>6. 1 \in 1..Len(got)
    BY <2>1, LenProperties
  <2> QED
    BY <2>3, <2>4, <2>5, <2>6 DEF Paid
<1>3. CASE RecvGarbage \/ ConnectionLost \/ Cancel
  <2>1. /\ Waiting
        /\ \E res \in {"Garbled", "Panic", "Io", "Cancelled"}, pc \in {"idle", "gone"} :
                Return(res, pc)
    BY <1>3 DEF RecvGarbage, ConnectionLost, Cancel, Waiting
  <2> QED
    BY <1>1, <2>1
<1>4. ASSUME NEW b \in Bodies, Call(b) PROVE FALSE
  <2>1. outcome' = [outcome EXCEPT ![client.xid] = "pending"]
    BY <1>4 DEF Call
  <2> QED
    BY <2>1 DEF Types, CallsOK
<1>5. ASSUME NEW d \in Conns, ProcessSocket(d) \/ ReadMessage(d) PROVE UNCHANGED outcome
    BY <1>5 DEF ProcessSocket, ReadSocket, FeedPipe, SocketEnds, TakeReply, WriteFragment,
                ReadMessage
<1>6. ASSUME NEW t \in tasks, TaskStep(t) PROVE UNCHANGED outcome
    BY <1>6, TaskTouches
<1>7. CASE SendPiece \/ Reconnect \/ Listen
    BY <1>7 DEF SendPiece, Reconnect, Listen
<1> QED
    BY <1>2, <1>3, <1>4, <1>5, <1>6, <1>7 DEF Next, ClientStep

\* The call that gets Ok is pending, so it was not abandoned.
LEMMA AcceptedStep ==
    ASSUME Types, Calling, Earned, Streams, Next
    PROVE  AcceptedIsOwn'
<1>0. executed \subseteq executed'
  <2>1. ASSUME NEW t \in tasks, RunHandler(t) PROVE executed \subseteq executed'
    BY <2>1 DEF RunHandler
  <2> QED
    BY <2>1, ExecutedStep
<1>1. ASSUME NEW x \in Xids, outcome'[x] = "Ok"
      PROVE  \E e \in executed : e.head.xid = x /\ Intact(e)
  <2>1. CASE outcome[x] = "Ok"
    BY <2>1 DEF Streams, AcceptedIsOwn
  <2>2. CASE outcome[x] # "Ok"
    <3>1. x \in Backed /\ outcome[x] = "pending"
      BY <1>1, <2>2, OkStep
    <3>2. PICK e \in executed : e.head.xid = x
      BY <3>1 DEF Backed
    <3>3. Ran(e) /\ x \notin Abandoned
      BY <3>1 DEF Streams, Abandoned
    <3> QED
      BY <3>2, <3>3 DEF Ran, Whole, Intact, Second
  <2> QED
    BY <2>1, <2>2
<1> QED
    BY <1>0, <1>1 DEF AcceptedIsOwn, Intact

\* The parts of Streams together.
LEMMA StreamsStep ==
    ASSUME Types, Calling, Unused, Earned, Streams, Next
    PROVE  Streams'
BY ChainStep, TipStep, ParsedStep, RanStep, AcceptedStep DEF Streams

-----------------------------------------------------------------------------
(* One message or reply at a time.                                         *)

\* What is on its way to the caller, and how much of it there is.
LEMMA ComingTypes ==
    ASSUME Types, NEW c \in Conns
    PROVE  /\ client.got \in Seq(ReplyPiece) /\ s2c[c] \in Seq(ReplyPiece)
           /\ Replying(c) \in Seq(ReplyPiece) /\ Down(c) \in Seq(ReplyPiece)
           /\ Coming(c) \in Seq(ReplyPiece)
           /\ Len(client.got) \in Nat /\ Len(s2c[c]) \in Nat /\ Len(Replying(c)) \in Nat
           /\ Len(Coming(c)) = Len(client.got) + Len(s2c[c]) + Len(Replying(c))
<1> DEFINE g == client.got
           s == s2c[c]
           r == Replying(c)
<1>1. g \in Seq(ReplyPiece) /\ s \in Seq(ReplyPiece) /\ r \in Seq(ReplyPiece)
  <2>1. r \in Seq(ReplyPiece)
    BY EmptySeq DEF Types, ServerOK, Holding, Replying
  <2> QED
    BY <2>1 DEF Types, ClientOK, ClientType, DownOK
<1>2. Coming(c) = g \o (s \o r) /\ Down(c) = s \o r
    BY DEF Coming, Down
<1> HIDE DEF g, s, r
<1>3. s \o r \in Seq(ReplyPiece) /\ Len(s \o r) = Len(s) + Len(r)
    BY <1>1, ConcatProperties
<1> DEFINE q == s \o r
<1> HIDE DEF q
<1>4. q \in Seq(ReplyPiece) /\ Len(q) = Len(s) + Len(r)
    BY <1>3 DEF q
<1>5. g \o q \in Seq(ReplyPiece) /\ Len(g \o q) = Len(g) + Len(q)
    BY <1>1, <1>4, ConcatProperties
<1>6. Len(g) \in Nat /\ Len(s) \in Nat /\ Len(r) \in Nat
    BY <1>1, LenProperties
<1>7. Coming(c) = g \o q /\ Down(c) = q
    BY <1>2 DEF q
<1>8. /\ Coming(c) \in Seq(ReplyPiece) /\ Down(c) \in Seq(ReplyPiece)
      /\ Len(Coming(c)) = Len(g) + Len(s) + Len(r)
    BY <1>4, <1>5, <1>6, <1>7
<1> QED
    BY <1>1, <1>6, <1>8 DEF g, s, r

\* When nothing comes, nothing is read, waits in the socket or is being written.
LEMMA NothingComing ==
    ASSUME Types, NEW c \in Conns, Coming(c) = <<>>
    PROVE  client.got = <<>> /\ s2c[c] = <<>> /\ Replying(c) = <<>>
<1> DEFINE g == client.got
           s == s2c[c]
           r == Replying(c)
           q == s \o r
<1>1. g \in Seq(ReplyPiece) /\ s \in Seq(ReplyPiece) /\ r \in Seq(ReplyPiece)
    BY ComingTypes
<1>2. g \o q = <<>> /\ q \in Seq(ReplyPiece)
    BY ComingTypes DEF Coming, Down
<1> HIDE DEF g, s, r
<1>3. q = <<>> => s = <<>> /\ r = <<>>
    BY <1>1, ConcatEqualIffEmpty
<1> HIDE DEF q
<1>4. g = <<>> /\ q = <<>>
    BY <1>1, <1>2, ConcatEqualIffEmpty
<1> QED
    BY <1>3, <1>4 DEF g, s, r

\* A step that changes nothing on the way changes no phase.
LEMMA PhaseFrame ==
    ASSUME NEW c \in Conns, PhaseOf(c), client'.pc = client.pc, client'.sent = client.sent,
           client'.xid = client.xid, Up(c)' = Up(c), Mine(c)' = Mine(c),
           replies'[c] = replies[c], Coming(c)' = Coming(c)
    PROVE  PhaseOf(c)'
<1>1. Cur' = Cur
    BY DEF Cur
<1> QED
    BY <1>1 DEF PhaseOf

\* An empty connection has no more than the call that begins.
LEMMA QuietPhase ==
    ASSUME NEW pc \in {"idle", "sending", "receiving"}, NEW x, NEW u, NEW m, NEW r, NEW d,
           Quiet(u, m, r, d)
    PROVE  Phase(pc, 0, x, u, m, r, d) /\ (pc # "sending" => \A n : Phase(pc, n, x, u, m, r, d))
BY DEF Phase

\* A call begins on an empty connection,
LEMMA CallPhase ==
    ASSUME Types, Calling, NEW c \in Conns, c = client.conn, PhaseOf(c), NEW b \in Bodies, Call(b)
    PROVE  PhaseOf(c)'
<1>1. client.pc = "idle" /\ client'.pc = "sending" /\ client'.sent = 0 /\ client'.got = client.got
    BY DEF Call, Calling, Types, ClientOK, ClientType
<1>2. Up(c)' = Up(c) /\ Mine(c)' = Mine(c) /\ replies'[c] = replies[c] /\ Coming(c)' = Coming(c)
    BY <1>1 DEF Call, serverVars, Up, Feeding, Mine, Coming, Down, Replying
<1>3. Quiet(Up(c), Mine(c), replies[c], Coming(c))
    BY <1>1 DEF PhaseOf, Phase
<1>4. Phase("sending", 0, Cur', Up(c), Mine(c), replies[c], Coming(c))
    BY <1>3, QuietPhase
<1> QED
    BY <1>1, <1>2, <1>4 DEF PhaseOf

\* goes out in two pieces,
LEMMA SendPhase ==
    ASSUME Types, Calling, NEW c \in Conns, c = client.conn, PhaseOf(c), SendPiece
    PROVE  PhaseOf(c)'
<1> DEFINE z == [xid |-> Cur, part |-> client.sent + 1]
           u == Up(c)
<1>1. /\ client.sent \in {0, 1} /\ client.pc = "sending" /\ Cur' = Cur
      /\ client'.sent = client.sent + 1 /\ client'.got = client.got
      /\ client'.pc = IF client.sent = 1 THEN "receiving" ELSE "sending"
    BY DEF SendPiece, Calling, Cur, Types, ClientOK, ClientType
<1>2. Mine(c)' = Mine(c) /\ replies'[c] = replies[c] /\ Coming(c)' = Coming(c)
    BY <1>1 DEF SendPiece, serverVars, Mine, Coming, Down, Replying
<1>3. u \in Seq(Piece) /\ z \in Piece /\ Up(c)' = Append(u, z)
    BY SendUp, UpTypes
<1>4. client.sent = 0 => z = First(Cur)
    BY DEF First
<1> HIDE DEF u, z
<1> DEFINE w == Append(u, z)
<1>5. Len(u) \in Nat /\ Len(w) = Len(u) + 1 /\ w[Len(u) + 1] = z /\ \A i \in 1..Len(u) : w[i] = u[i]
    BY <1>3, AppendProperties, LenProperties
<1>6. w = Up(c)'
    BY <1>3
<1> HIDE DEF w
<1>7. CASE client.sent = 0
  <2>1. Quiet(u, Mine(c), replies[c], Coming(c))
    BY <1>1, <1>7 DEF PhaseOf, Phase, u
  <2>2. Len(u) = 0
    BY <2>1, EmptySeq, LenProperties DEF Quiet
  <2>3. Half(Cur, w, Mine(c), replies[c], Coming(c))
    BY <1>4, <1>5, <1>7, <2>1, <2>2 DEF Half, Quiet
  <2>4. Phase("sending", 1, Cur, w, Mine(c), replies[c], Coming(c))
    BY <2>3 DEF Phase
  <2> QED
    BY <1>1, <1>2, <1>6, <1>7, <2>4 DEF PhaseOf
<1>8. CASE client.sent = 1
  <2>1. Half(Cur, u, Mine(c), replies[c], Coming(c))
    BY <1>1, <1>8 DEF PhaseOf, Phase, u
  <2>2. Sent(Cur, w, Mine(c), replies[c], Coming(c))
    BY <1>5, <2>1 DEF Half, Sent
  <2>3. Phase("receiving", 2, Cur, w, Mine(c), replies[c], Coming(c))
    BY <2>2 DEF Phase
  <2> QED
    BY <1>1, <1>2, <1>6, <1>8, <2>3 DEF PhaseOf
<1> QED
    BY <1>1, <1>7, <1>8

\* The caller reads what comes first.
LEMMA ComingFirst ==
    ASSUME Types, NEW c \in Conns, client.got # <<>>
    PROVE  Coming(c)[1] = client.got[1] /\ Len(client.got) > 0
<1> DEFINE g == client.got
           q == Down(c)
<1>1. g \in Seq(ReplyPiece) /\ q \in Seq(ReplyPiece) /\ Coming(c) = g \o q /\ g # <<>>
    BY ComingTypes DEF Coming
<1> HIDE DEF g, q
<1>2. Len(g) \in Nat /\ Len(g) > 0 /\ Len(q) \in Nat
    BY <1>1, EmptySeq, LenProperties
<1>3. (g \o q)[1] = g[1]
    BY <1>1, <1>2, ConcatProperties
<1> QED
    BY <1>1, <1>2, <1>3 DEF g

\* Only the reply to the last call is ever read.
LEMMA ComingIsReturning ==
    ASSUME Types, Calling, NEW c \in Conns, PhaseOf(c), Coming(c) # <<>>
    PROVE  /\ client.pc = "receiving"
           /\ Returning(Cur, Up(c), Mine(c), replies[c], Coming(c))
<1>1. client.pc \in {"idle", "sending", "receiving", "gone"}
    BY DEF Types, ClientOK, ClientType
<1>2. \/ Quiet(Up(c), Mine(c), replies[c], Coming(c))
      \/ \E x : \/ Half(x, Up(c), Mine(c), replies[c], Coming(c))
                \/ Sent(x, Up(c), Mine(c), replies[c], Coming(c))
                \/ Held(x, Up(c), Mine(c), replies[c], Coming(c))
                \/ Answered(x, Up(c), Mine(c), replies[c], Coming(c))
      => FALSE
    BY DEF Quiet, Half, Sent, Held, Answered
<1>3. client.pc = "sending" => client.sent \in {0, 1}
    BY DEF Calling
<1> QED
    BY <1>1, <1>2, <1>3 DEF PhaseOf, Phase

\* and ends with the second piece of its reply.
LEMMA ReadPhase ==
    ASSUME Types, Calling, NEW c \in Conns, c = client.conn, PhaseOf(c), ReadPiece
    PROVE  PhaseOf(c)'
<1> DEFINE g == client.got
           s == s2c[c]
           r == Replying(c)
           got == Append(g, Head(s))
<1>1. /\ g \in Seq(ReplyPiece) /\ s \in Seq(ReplyPiece) /\ r \in Seq(ReplyPiece) /\ s # <<>>
      /\ Coming(c) = g \o (s \o r) /\ Len(Coming(c)) = Len(g) + Len(s) + Len(r)
      /\ Len(g) \in Nat /\ Len(s) \in Nat /\ Len(r) \in Nat
    BY ComingTypes DEF ReadPiece, Coming, Down
<1>2. /\ Head(s) \in ReplyPiece /\ Tail(s) \in Seq(ReplyPiece) /\ Len(s) > 0
      /\ Len(Tail(s)) = Len(s) - 1
    BY <1>1, HeadTailProperties, EmptySeq, LenProperties
<1>3. Coming(c) # <<>>
    BY <1>1, <1>2, EmptySeq, LenProperties
<1>4. client.pc = "receiving" /\ Returning(Cur, Up(c), Mine(c), replies[c], Coming(c))
    BY <1>3, ComingIsReturning
<1>5. /\ Up(c)' = Up(c) /\ Mine(c)' = Mine(c) /\ replies'[c] = replies[c]
      /\ Replying(c)' = r /\ s2c'[c] = Tail(s)
    BY DEF ReadPiece, serverVars, Up, Feeding, Mine, Replying, Types, DownOK
<1>6. Coming(c)' = client'.got \o (Tail(s) \o r)
    BY <1>5 DEF Coming, Down
<1>7. Len(g) + Len(s) + Len(r) = 2 /\ Coming(c)[1].part = 1
  <2>1. Len(Coming(c)) = 2 /\ Coming(c)[1].part = 1
    BY <1>4 DEF Returning
  <2> HIDE DEF g, s, r
  <2> QED
    BY <1>1, <2>1
<1>8. /\ got \in Seq(ReplyPiece) /\ Len(got) = Len(g) + 1
      /\ got[1] = IF g = <<>> THEN Head(s) ELSE g[1]
  <2>1. Len(g) > 0 \/ g = <<>>
    BY <1>1, EmptySeq, LenProperties
  <2>2. got \in Seq(ReplyPiece) /\ Len(got) = Len(g) + 1 /\ got[Len(g) + 1] = Head(s)
        /\ \A i \in 1..Len(g) : got[i] = g[i]
    BY <1>1, <1>2, AppendProperties
  <2>3. g = <<>> => Len(g) = 0
    BY EmptySeq, LenProperties
  <2>4. g # <<>> => Len(g) > 0
    BY <2>1
  <2> HIDE DEF got, g
  <2> QED
    BY <1>1, <2>2, <2>3, <2>4
<1>9. CASE g = <<>>
  <2>1. Len(got) # 2
    BY <1>8, <1>9, EmptySeq, LenProperties
  <2>2. client' = [client EXCEPT !.got = got]
    BY <2>1 DEF ReadPiece
  <2>3. /\ client'.got = got /\ client'.pc = client.pc /\ client'.sent = client.sent
        /\ client'.xid = client.xid
    BY <2>2 DEF Types, ClientOK, ClientType
  <2>4. g \o (s \o r) = got \o (Tail(s) \o r)
    <3>1. g \in Seq(ReplyPiece) /\ s \in Seq(ReplyPiece) /\ r \in Seq(ReplyPiece) /\ s # <<>>
      BY <1>1
    <3>2. g \o s = got \o Tail(s)
      BY <3>1, MoveHead
    <3> DEFINE t == Tail(s)
    <3>3. t \in Seq(ReplyPiece) /\ got \in Seq(ReplyPiece)
      BY <1>2, <1>8
    <3> HIDE DEF g, s, r, got, t
    <3>4. g \o (s \o r) = (g \o s) \o r
      BY <3>1, ConcatAssociative
    <3>5. (got \o t) \o r = got \o (t \o r)
      BY <3>1, <3>3, ConcatAssociative
    <3> QED
      BY <3>2, <3>4, <3>5 DEF t
  <2>5. Coming(c)' = Coming(c)
    BY <1>1, <1>6, <2>3, <2>4
  <2> QED
    BY <1>5, <2>3, <2>5, PhaseFrame
<1>10. CASE g # <<>>
  <2>1. g[1] = Coming(c)[1] /\ Len(g) > 0
    BY <1>10, ComingFirst
  <2>2. Len(g) = 1 /\ Len(s) = 1 /\ Len(r) = 0
    <3> DEFINE i == Len(g)
               j == Len(s)
               k == Len(r)
    <3>1. i \in Nat /\ j \in Nat /\ k \in Nat /\ i > 0 /\ j > 0 /\ i + j + k = 2
      BY <1>1, <1>2, <1>7, <2>1
    <3> HIDE DEF i, j, k
    <3>2. i = 1 /\ j = 1 /\ k = 0
      BY <3>1
    <3> QED
      BY <3>2 DEF i, j, k
  <2>3. got[1].part = 1 /\ Len(got) = 2
    BY <1>7, <1>8, <1>10, <2>1, <2>2
  <2>4. RecvReply(got[1])
    BY <2>3 DEF ReadPiece
  <2>5. client'.got = <<>> /\ client'.pc = "idle"
    BY <2>4 DEF RecvReply, Return, Types, ClientOK, ClientType
  <2>6. Tail(s) = <<>> /\ r = <<>>
    BY <1>1, <1>2, <2>2, EmptySeq, LenProperties
  <2>7. Coming(c)' = <<>>
    BY <1>6, <2>5, <2>6
  <2>8. Quiet(Up(c)', Mine(c)', replies'[c], Coming(c)')
    BY <1>4, <1>5, <2>7 DEF Returning, Quiet
  <2>9. Phase("idle", client'.sent, Cur', Up(c)', Mine(c)', replies'[c], Coming(c)')
    BY <2>8, QuietPhase
  <2> QED
    BY <2>5, <2>9 DEF PhaseOf
<1> QED
    BY <1>9, <1>10

\* process_socket passes the pieces on, and the reply back.
LEMMA ServerPhase ==
    ASSUME Types, Calling, NEW c \in Conns, c = client.conn, PhaseOf(c), ProcessSocket(c),
           ~Closed(c)'
    PROVE  PhaseOf(c)'
<1>1. /\ Up(c)' = Up(c) /\ Mine(c)' = Mine(c) /\ UNCHANGED client
      /\ server \in [Conns -> [pc : {"unborn", "select", "feeding", "replying", "closed"},
                               out : Seq(Piece) \cup Seq(ReplyPiece)]]
  <2>1. UNCHANGED <<client, tasks>>
    BY DEF ProcessSocket, ReadSocket, FeedPipe, SocketEnds, TakeReply, WriteFragment
  <2>2. Up(c)' = Up(c)
    BY ServerUp
  <2> QED
    BY <2>1, <2>2 DEF Mine, Types, ServerOK
<1>2. ASSUME replies'[c] = replies[c], Coming(c)' = Coming(c) PROVE PhaseOf(c)'
    BY <1>1, <1>2, PhaseFrame
<1>3. ASSUME ReadSocket(c) PROVE PhaseOf(c)'
  <2>1. /\ server[c].pc = "select" /\ server'[c].pc \in {"select", "feeding"}
        /\ UNCHANGED <<s2c, replies>>
    BY <1>1, <1>3 DEF ReadSocket, Serving
  <2> QED
    BY <1>1, <1>2, <2>1 DEF Coming, Down, Replying
<1>4. ASSUME FeedPipe(c) PROVE PhaseOf(c)'
  <2>1. server[c].pc = "feeding" /\ server'[c].pc = "select" /\ UNCHANGED <<s2c, replies>>
    BY <1>1, <1>4 DEF FeedPipe, Serving
  <2> QED
    BY <1>1, <1>2, <2>1 DEF Coming, Down, Replying
<1>5. ~SocketEnds(c)
    BY <1>1 DEF SocketEnds, Serving, Closed
<1>6. ASSUME TakeReply(c) PROVE PhaseOf(c)'
  <2> DEFINE r == Head(replies[c])
             out == [i \in 1..2 |-> [xid |-> r.xid, part |-> i, stat |-> r.stat]]
  <2>1. replies[c] # <<>> /\ server[c].pc = "select" /\ UNCHANGED s2c
    BY <1>6 DEF TakeReply
  <2>2. client.pc = "receiving" /\ Answered(Cur, Up(c), Mine(c), replies[c], Coming(c))
    <3>1. client.pc \in {"idle", "sending", "receiving", "gone"}
      BY DEF Types, ClientOK, ClientType
    <3>2. client.pc = "sending" => client.sent \in {0, 1}
      BY DEF Calling
    <3>3. \/ Quiet(Up(c), Mine(c), replies[c], Coming(c))
          \/ \E x : \/ Half(x, Up(c), Mine(c), replies[c], Coming(c))
                    \/ Sent(x, Up(c), Mine(c), replies[c], Coming(c))
                    \/ Held(x, Up(c), Mine(c), replies[c], Coming(c))
                    \/ Returning(x, Up(c), Mine(c), replies[c], Coming(c))
          => FALSE
      BY <2>1 DEF Quiet, Half, Sent, Held, Returning
    <3> QED
      BY <3>1, <3>2, <3>3 DEF PhaseOf, Phase
  <2>3. r = replies[c][1] /\ r.xid = Cur /\ Tail(replies[c]) = <<>>
    <3>1. replies[c] \in Seq(Reply) /\ Len(replies[c]) = 1 /\ replies[c][1].xid = Cur
      BY <2>2 DEF Types, DownOK, Answered
    <3>2. Head(replies[c]) = replies[c][1]
      BY <2>1, <3>1, HeadTailProperties
    <3>3. Tail(replies[c]) \in Seq(Reply) /\ Len(Tail(replies[c])) = 0
      BY <2>1, <3>1, HeadTailProperties
    <3>4. Tail(replies[c]) = <<>>
      BY <3>3, EmptySeq, LenProperties
    <3> QED
      BY <3>1, <3>2, <3>4
  <2>4. client.got = <<>> /\ s2c[c] = <<>>
    BY <2>2, NothingComing DEF Answered
  <2>5. r.stat # "Err"
    BY <1>1, <1>6 DEF TakeReply, Serving, Closed
  <2>6. server'[c] = Serving("replying", out) /\ replies'[c] = Tail(replies[c])
    BY <1>1, <1>6, <2>5 DEF TakeReply, Types, DownOK
  <2> HIDE DEF r
  <2>7. /\ out \in Seq(ReplyPiece) /\ Len(out) = 2
        /\ \A i \in 1..2 : out[i].xid = Cur /\ out[i].part = i
    <3>1. r \in Reply /\ r.stat \in Stats
      <4>1. replies[c] \in Seq(Reply)
        BY DEF Types, DownOK
      <4>2. r \in Reply
        BY <2>1, <4>1, HeadTailProperties DEF r
      <4> QED
        BY <2>5, <4>2 DEF Reply
    <3>2. \A i \in 1..2 : [xid |-> r.xid, part |-> i, stat |-> r.stat] \in ReplyPiece
      BY <3>1 DEF Reply, ReplyPiece
    <3>3. out \in [1..2 -> ReplyPiece]
      BY <3>2
    <3>4. out \in Seq(ReplyPiece) /\ Len(out) = 2
      BY <3>3, SeqDef
    <3> QED
      BY <2>3, <3>4
  <2>8. Coming(c)' = <<>> \o (<<>> \o out)
    BY <1>1, <2>1, <2>4, <2>6 DEF Coming, Down, Replying, Serving
  <2> HIDE DEF out
  <2>9. Coming(c)' = out
    BY <2>7, <2>8, ConcatEmptySeq
  <2>10. Returning(Cur, Up(c), Mine(c), <<>>, out)
    BY <2>2, <2>7 DEF Returning, Answered
  <2>11. Phase("receiving", client.sent, Cur, Up(c), Mine(c), <<>>, out)
    BY <2>10 DEF Phase
  <2>12. Cur' = Cur /\ replies'[c] = <<>>
    BY <1>1, <2>3, <2>6 DEF Cur
  <2> QED
    BY <1>1, <2>2, <2>9, <2>11, <2>12 DEF PhaseOf
<1>7. ASSUME WriteFragment(c) PROVE PhaseOf(c)'
  <2> DEFINE out == server[c].out
  <2>1. ~Gone(c)
    BY DEF PhaseOf, Phase, Gone, Types, ClientOK, ClientType, Conns
  <2>2. /\ server[c].pc = "replying" /\ UNCHANGED replies
        /\ s2c'[c] = Append(s2c[c], Head(out))
        /\ server'[c] = IF Tail(out) = <<>> THEN Serving("select", <<>>)
                                            ELSE Serving("replying", Tail(out))
    BY <1>1, <1>7, <2>1 DEF WriteFragment, Types, DownOK
  <2>3. Replying(c) = out /\ Replying(c)' = Tail(out)
    <3> DEFINE t == Tail(out)
    <3>1. server'[c] = IF t = <<>> THEN Serving("select", <<>>) ELSE Serving("replying", t)
      BY <2>2
    <3> HIDE DEF t
    <3>2. Replying(c)' = t
      BY <3>1 DEF Replying, Serving
    <3> QED
      BY <2>2, <3>2 DEF Replying, t
  <2>4. out \in Seq(ReplyPiece) /\ out # <<>> /\ s2c[c] \in Seq(ReplyPiece)
    BY <2>2 DEF Types, ServerOK, Holding, DownOK
  <2>5. Append(s2c[c], Head(out)) \o Tail(out) = s2c[c] \o out
    BY <2>4, MoveHead
  <2>6. Down(c)' = Down(c)
    BY <2>2, <2>3, <2>5 DEF Down
  <2> QED
    BY <1>1, <1>2, <2>2, <2>6 DEF Coming
<1> QED
    BY <1>3, <1>4, <1>5, <1>6, <1>7 DEF ProcessSocket

\* The message loop makes a task of the two pieces.
LEMMA LoopPhase ==
    ASSUME Types, Calling, Types', NEW c \in Conns, PhaseOf(c), ReadMessage(c)
    PROVE  PhaseOf(c)'
<1> DEFINE msg == Append(fragment[c], Head(pipe[c]))
           u == Up(c)
           v == Up(c)'
<1>1. /\ Coming(c)' = Coming(c) /\ replies'[c] = replies[c] /\ UNCHANGED client
    BY DEF ReadMessage, Coming, Down, Replying
<1>2. CASE UNCHANGED tasks /\ v = u
    BY <1>1, <1>2, PhaseFrame DEF Mine
<1>3. CASE Spawn(c, msg) /\ u = msg \o v /\ (msg[1].part = 2 \/ Len(msg) = 2)
  <2>1. msg \in Seq(Piece) /\ v \in Seq(Piece) /\ Len(msg) = Len(fragment[c]) + 1
        /\ Len(fragment[c]) \in Nat
    BY LoopUp, UpTypesNext, UpTypes, LenProperties
  <2> HIDE DEF msg, u, v
  <2>2. /\ Len(msg) \in Nat /\ Len(v) \in Nat /\ Len(msg) > 0
        /\ Len(msg \o v) = Len(msg) + Len(v) /\ (msg \o v)[1] = msg[1]
    <3>1. msg \in Seq(Piece) /\ v \in Seq(Piece) /\ Len(msg) > 0
      BY <2>1
    <3>2. Len(msg) \in Nat /\ Len(v) \in Nat
      BY <3>1, LenProperties
    <3> QED
      BY <3>1, <3>2, ConcatProperties
  <2>3. Len(u) = Len(msg) + Len(v) /\ u[1] = msg[1] /\ Len(u) > 0
    BY <1>3, <2>2
  <2>4. client.pc \in {"sending", "receiving"} /\ u[1] = First(Cur)
        /\ \/ Half(Cur, u, Mine(c), replies[c], Coming(c)) /\ client.pc = "sending"
           \/ Sent(Cur, u, Mine(c), replies[c], Coming(c)) /\ client.pc = "receiving"
    <3>1. client.pc \in {"idle", "sending", "receiving", "gone"}
      BY DEF Types, ClientOK, ClientType
    <3>2. client.pc = "sending" => client.sent \in {0, 1}
      BY DEF Calling
    <3>3. u # <<>>
      BY <2>3, EmptySeq, LenProperties
    <3>4. ASSUME \/ Quiet(u, Mine(c), replies[c], Coming(c))
                 \/ Held(Cur, u, Mine(c), replies[c], Coming(c))
                 \/ Answered(Cur, u, Mine(c), replies[c], Coming(c))
                 \/ Returning(Cur, u, Mine(c), replies[c], Coming(c))
          PROVE  FALSE
      BY <3>3, <3>4 DEF Quiet, Held, Answered, Returning
    <3>5. Phase(client.pc, client.sent, Cur, u, Mine(c), replies[c], Coming(c))
      BY DEF PhaseOf, u
    <3>6. \/ Half(Cur, u, Mine(c), replies[c], Coming(c)) /\ client.pc = "sending"
          \/ Sent(Cur, u, Mine(c), replies[c], Coming(c)) /\ client.pc = "receiving"
      BY <3>1, <3>2, <3>4, <3>5 DEF Phase
    <3> QED
      BY <3>6 DEF Half, Sent
  <2>5. Len(msg) = 2 /\ msg[1] = First(Cur)
    BY <1>3, <2>3, <2>4 DEF First
  <2>6. Sent(Cur, u, Mine(c), replies[c], Coming(c)) /\ client.pc = "receiving" /\ Len(v) = 0
    BY <2>2, <2>3, <2>4, <2>5 DEF Half, Sent
  <2>7. v = <<>>
    BY <2>1, <2>6, EmptySeq, LenProperties
  <2> DEFINE n == [conn |-> c, head |-> Head(msg), tail |-> Last(msg), pc |-> "spawned"]
  <2>8. n.conn = c /\ n.head.xid = Cur
    <3>1. Head(msg) = msg[1]
      BY <2>1, <2>5, HeadTailProperties, EmptySeq, LenProperties
    <3> QED
      BY <2>5, <3>1 DEF First
  <2>9. tasks' = tasks \cup {n}
    BY <1>3 DEF Spawn
  <2> HIDE DEF n
  <2>10. Mine(c) = {}
    BY <2>6 DEF Sent
  <2>11. Mine(c)' = {n}
    BY <2>8, <2>9, <2>10 DEF Mine
  <2>12. Held(Cur, v, Mine(c)', replies[c], Coming(c))
    BY <2>6, <2>7, <2>8, <2>11 DEF Held, Sent
  <2>13. Phase("receiving", client.sent, Cur, v, Mine(c)', replies[c], Coming(c))
    BY <2>12 DEF Phase
  <2>14. Cur' = Cur
    BY <1>1 DEF Cur
  <2> QED
    BY <1>1, <2>6, <2>13, <2>14 DEF PhaseOf, v
<1> QED
    BY <1>2, <1>3, LoopUp

\* What a task does about its reply.
LEMMA TaskCases ==
    ASSUME NEW t \in tasks, TaskStep(t)
    PROVE  \/ \E stat \in Stats \cup {"Err"} : SendReply(t, stat)
           \/ tasks' = tasks \ {t} /\ UNCHANGED replies
           \/ \E pc \in {"running", "signal"} : Move(t, pc)
<1>1. "SUCCESS" \in Stats
    BY DEF Stats
<1>2. CASE HandleRpcMessage(t)
    BY <1>2, HandleCases
<1>3. CASE RunHandler(t)
    BY <1>1, <1>3 DEF RunHandler, Complete
<1>4. CASE SendSignal(t) \/ Panic(t)
    BY <1>1, <1>4 DEF SendSignal, Complete, Panic
<1> QED
    BY <1>2, <1>3, <1>4 DEF TaskStep

\* The task answers, or drops a retransmission.
LEMMA TaskPhase ==
    ASSUME Types, Calling, NEW c \in Conns, PhaseOf(c), ~Closed(c), NEW t \in tasks, TaskStep(t)
    PROVE  PhaseOf(c)'
<1>1. /\ Up(c)' = Up(c) /\ Coming(c)' = Coming(c) /\ UNCHANGED client
    BY TaskTouches DEF Up, Feeding, Coming, Down, Replying
<1>2. t.conn \in Conns /\ t.head.xid \in Xids
    BY DEF Types, TasksOK, Task, Piece
<1>3. ASSUME NEW pc \in {"running", "signal"}, Move(t, pc)
      PROVE  \E m : /\ tasks' = (tasks \ {t}) \cup {m} /\ UNCHANGED replies
                    /\ m.conn = t.conn /\ m.head = t.head
    BY <1>3, MoveTasks
<1>4. CASE t.conn # c
  <2>1. replies'[c] = replies[c]
    BY <1>4, TaskTouches DEF Touches
  <2>2. Mine(c)' = Mine(c)
    <3>1. CASE tasks' = tasks \ {t}
      BY <1>4, <3>1 DEF Mine
    <3>2. CASE \E m : tasks' = (tasks \ {t}) \cup {m} /\ m.conn = t.conn
      BY <1>4, <3>2 DEF Mine
    <3> QED
      BY <1>3, <3>1, <3>2, TaskCases DEF SendReply
  <2> QED
    BY <1>1, <2>1, <2>2, PhaseFrame
<1>5. CASE t.conn = c
  <2>1. t \in Mine(c)
    BY <1>5 DEF Mine
  <2>2. client.pc = "receiving" /\ Held(Cur, Up(c), Mine(c), replies[c], Coming(c))
    <3>1. client.pc \in {"idle", "sending", "receiving", "gone"}
      BY DEF Types, ClientOK, ClientType
    <3>2. client.pc = "sending" => client.sent \in {0, 1}
      BY DEF Calling
    <3>3. ASSUME \/ Quiet(Up(c), Mine(c), replies[c], Coming(c))
                 \/ Half(Cur, Up(c), Mine(c), replies[c], Coming(c))
                 \/ Sent(Cur, Up(c), Mine(c), replies[c], Coming(c))
                 \/ Answered(Cur, Up(c), Mine(c), replies[c], Coming(c))
                 \/ Returning(Cur, Up(c), Mine(c), replies[c], Coming(c))
          PROVE  FALSE
      BY <2>1, <3>3 DEF Quiet, Half, Sent, Answered, Returning
    <3> QED
      BY <3>1, <3>2, <3>3 DEF PhaseOf, Phase
  <2>3. Mine(c) = {t} /\ t.head.xid = Cur /\ replies[c] = <<>> /\ Up(c) = <<>> /\ Coming(c) = <<>>
    BY <2>1, <2>2 DEF Held
  <2>4. Cur' = Cur
    BY <1>1 DEF Cur
  <2>5. ASSUME \/ Quiet(<<>>, Mine(c)', replies'[c], <<>>)
               \/ Held(Cur, <<>>, Mine(c)', replies'[c], <<>>)
               \/ Answered(Cur, <<>>, Mine(c)', replies'[c], <<>>)
        PROVE  PhaseOf(c)'
    <3>1. Phase("receiving", client.sent, Cur, <<>>, Mine(c)', replies'[c], <<>>)
      BY <2>5 DEF Phase
    <3> QED
      BY <1>1, <2>2, <2>3, <2>4, <3>1 DEF PhaseOf
  <2>6. ASSUME tasks' = tasks \ {t} PROVE Mine(c)' = {}
    BY <2>3, <2>6 DEF Mine
  <2>7. ASSUME NEW stat \in Stats \cup {"Err"}, SendReply(t, stat) PROVE PhaseOf(c)'
    <3> DEFINE z == [xid |-> t.head.xid, stat |-> stat]
    <3>1. tasks' = tasks \ {t} /\ replies'[c] = Append(<<>>, z)
      BY <1>5, <2>3, <2>7 DEF SendReply, Types, DownOK
    <3>2. Len(replies'[c]) = 1 /\ replies'[c][1].xid = Cur
      BY <2>3, <3>1
    <3>3. Answered(Cur, <<>>, Mine(c)', replies'[c], <<>>)
      BY <2>6, <3>1, <3>2 DEF Answered
    <3> QED
      BY <2>5, <3>3
  <2>8. ASSUME tasks' = tasks \ {t}, UNCHANGED replies PROVE PhaseOf(c)'
    BY <2>3, <2>5, <2>6, <2>8 DEF Quiet
  <2>9. ASSUME NEW pc \in {"running", "signal"}, Move(t, pc) PROVE PhaseOf(c)'
    <3>1. PICK m : /\ tasks' = (tasks \ {t}) \cup {m} /\ UNCHANGED replies
                   /\ m.conn = t.conn /\ m.head = t.head
      BY <1>3, <2>9
    <3>2. Mine(c)' = {m}
      BY <1>5, <2>3, <3>1 DEF Mine
    <3>3. Held(Cur, <<>>, Mine(c)', replies'[c], <<>>)
      BY <2>3, <3>1, <3>2 DEF Held
    <3> QED
      BY <2>5, <3>3
  <2> QED
    BY <2>7, <2>8, <2>9, TaskCases
<1> QED
    BY <1>4, <1>5

\* The reader of a reply is never out of step.
LEMMA NoGarbage ==
    ASSUME Types, Calling, NEW c \in Conns, PhaseOf(c)
    PROVE  ~RecvGarbage
<1> SUFFICES ASSUME RecvGarbage PROVE FALSE
    OBVIOUS
<1>1. client.got # <<>> /\ client.got[1].part = 2
    BY DEF RecvGarbage
<1>2. Coming(c)[1] = client.got[1] /\ Coming(c) # <<>>
  <2>1. Coming(c)[1] = client.got[1]
    BY <1>1, ComingFirst
  <2>2. Coming(c) # <<>>
    BY <1>1, NothingComing
  <2> QED
    BY <2>1, <2>2
<1>3. Returning(Cur, Up(c), Mine(c), replies[c], Coming(c))
    BY <1>2, ComingIsReturning
<1> QED
    BY <1>1, <1>2, <1>3 DEF Returning

\* Steps of other connections.
LEMMA OtherPhase ==
    ASSUME Types, NEW c \in Conns, PhaseOf(c), NEW d \in Conns \ {c},
           ProcessSocket(d) \/ ReadMessage(d)
    PROVE  PhaseOf(c)'
<1>1. Touches(d) /\ UNCHANGED client
    BY ServerTouches
<1>2. Up(c)' = Up(c) /\ replies'[c] = replies[c] /\ Coming(c)' = Coming(c)
    BY <1>1 DEF Touches, Up, Feeding, Coming, Down, Replying
<1>3. Mine(c)' = Mine(c)
  <2>1. CASE ProcessSocket(d)
    BY <2>1 DEF ProcessSocket, ReadSocket, FeedPipe, SocketEnds, TakeReply, WriteFragment, Mine
  <2>2. CASE ReadMessage(d)
    <3>1. UNCHANGED tasks \/ \E n : tasks' = tasks \cup {n} /\ n.conn = d
      <4> DEFINE msg == Append(fragment[d], Head(pipe[d]))
      <4>1. UNCHANGED tasks \/ Spawn(d, msg)
        BY <2>2, LoopUp
      <4> HIDE DEF msg
      <4>2. ASSUME Spawn(d, msg) PROVE \E n : tasks' = tasks \cup {n} /\ n.conn = d
        <5> WITNESS [conn |-> d, head |-> Head(msg), tail |-> Last(msg), pc |-> "spawned"]
        <5> QED
          BY <4>2 DEF Spawn
      <4> QED
        BY <4>1, <4>2
    <3> QED
      BY <3>1 DEF Mine
  <2> QED
    BY <2>1, <2>2
<1> QED
    BY <1>1, <1>2, <1>3, PhaseFrame

\* A cancelled call stays cancelled.
LEMMA UncancelledBefore ==
    ASSUME Types, Calling, Next, Uncancelled'
    PROVE  Uncancelled
BY Settled DEF Uncancelled

\* One message or reply at a time, as long as nothing is cancelled.
LEMMA AloneStep ==
    ASSUME Types, Calling, Unused, Alone, Next
    PROVE  Alone'
<1>0. Types'
    BY TypesStep DEF Caller
<1>1. PICK c \in Conns : c = client'.conn
    BY <1>0 DEF Types, ClientOK, ClientType
<1>2. SUFFICES ASSUME ~Closed(c)', Uncancelled' PROVE PhaseOf(c)'
  <2>1. /\ Up(client.conn)' = Up(c)' /\ Mine(client.conn)' = Mine(c)'
        /\ (replies[client.conn])' = replies'[c] /\ Coming(client.conn)' = Coming(c)'
    BY <1>1 DEF Up, Feeding, Mine, Coming, Down, Replying
  <2>2. Closed(client.conn)' <=> Closed(c)'
    BY <1>1 DEF Closed
  <2>3. PhaseOf(c)' => PhaseOf(client.conn)'
    BY <2>1 DEF PhaseOf
  <2> QED
    BY <1>2, <2>2, <2>3 DEF Alone, Calm
<1>3. Uncancelled /\ ~Closed(c)
    BY <1>2, UncancelledBefore, ClosedStays
<1>4. CASE Reconnect
  <2>1. /\ client'.conn = client.conn + 1 /\ client.conn + 1 > client.conn
        /\ client'.pc = "sending" /\ client'.sent = 0 /\ client'.got = <<>>
    BY <1>4 DEF Reconnect, Types, ClientOK, ClientType, Conns
  <2>2. /\ fragment'[c] = <<>> /\ pipe'[c] = <<>> /\ c2s'[c] = <<>> /\ s2c'[c] = <<>>
        /\ replies'[c] = <<>> /\ \A t \in tasks' : t.conn # c
    BY <1>1, <1>4, <2>1 DEF Unused, Reconnect
  <2>3. server'[c].pc = "select"
    BY <1>1, <1>4, <2>1 DEF Reconnect, Types, ServerOK, Serving
  <2>4. Feeding(c)' = <<>> /\ Replying(c)' = <<>> /\ Mine(c)' = {}
    BY <2>2, <2>3 DEF Feeding, Replying, Mine
  <2>5. Up(c)' = <<>> /\ Coming(c)' = <<>>
    BY <2>1, <2>2, <2>4 DEF Up, Coming, Down
  <2>6. Quiet(Up(c)', Mine(c)', replies'[c], Coming(c)')
    BY <2>2, <2>4, <2>5 DEF Quiet
  <2>7. Phase("sending", 0, Cur', Up(c)', Mine(c)', replies'[c], Coming(c)')
    BY <2>6, QuietPhase
  <2> QED
    BY <2>1, <2>7 DEF PhaseOf
<1>5. ASSUME client'.conn = client.conn PROVE c = client.conn /\ PhaseOf(c)
    BY <1>1, <1>3, <1>5 DEF Alone, Calm
<1>6. ASSUME ClientStep \/ Cancel \/ \E b \in Bodies : Call(b) PROVE PhaseOf(c)'
  <2>1. c = client.conn /\ PhaseOf(c)
    BY <1>5, <1>6, ClientTouches
  <2>2. ~RecvGarbage
    BY <2>1, NoGarbage
  <2>3. ~ConnectionLost
    BY <1>3, <2>1 DEF ConnectionLost
  <2>4. ~Cancel
    <3>1. ASSUME Cancel PROVE FALSE
      <4>1. Return("Cancelled", "idle") /\ Waiting
        BY <3>1 DEF Cancel, Waiting
      <4>2. Cur \in Xids /\ outcome'[Cur] = "Cancelled"
        BY <4>1, ReturnOutcome
      <4> QED
        BY <1>2, <4>2 DEF Uncancelled
    <3> QED
      BY <3>1
  <2> QED
    BY <1>6, <2>1, <2>2, <2>3, <2>4, CallPhase, SendPhase, ReadPhase DEF ClientStep
<1>7. ASSUME NEW d \in Conns, ProcessSocket(d) \/ ReadMessage(d) PROVE PhaseOf(c)'
  <2>1. c = client.conn /\ PhaseOf(c)
    BY <1>5, <1>7, ServerTouches
  <2>2. CASE d # c
    BY <1>7, <2>1, <2>2, OtherPhase
  <2>3. CASE d = c
    BY <1>0, <1>2, <1>7, <2>1, <2>3, ServerPhase, LoopPhase
  <2> QED
    BY <2>2, <2>3
<1>8. ASSUME NEW t \in tasks, TaskStep(t) PROVE PhaseOf(c)'
  <2>1. c = client.conn /\ PhaseOf(c)
    BY <1>5, <1>8, TaskTouches
  <2> QED
    BY <1>3, <1>8, <2>1, TaskPhase
<1>9. CASE Listen
  <2>1. UNCHANGED <<client, c2s, s2c, server, pipe, fragment, tasks, replies>>
    BY <1>9 DEF Listen
  <2>2. PhaseOf(c)
    BY <1>5, <2>1
  <2> QED
    BY <2>1, <2>2, PhaseFrame DEF Up, Feeding, Mine, Coming, Down, Replying
<1> QED
    BY <1>4, <1>6, <1>7, <1>8, <1>9 DEF Next

\* The server closes a connection that the client holds by an error reply, and
\* then there is nothing else in it.
LEMMA SilentStep ==
    ASSUME Types, Calling, Unused, Alone, Silent, Next
    PROVE  Silent'
<1>0. Types'
    BY TypesStep DEF Caller
<1>1. PICK c \in Conns : c = client'.conn
    BY <1>0 DEF Types, ClientOK, ClientType
<1>2. SUFFICES ASSUME Closed(c)', Uncancelled', client'.pc = "receiving"
               PROVE  client'.got = <<>> /\ s2c'[c] = <<>>
  <2>1. (Closed(client.conn)' <=> Closed(c)') /\ (s2c[client.conn])' = s2c'[c]
    BY <1>1 DEF Closed
  <2> QED
    BY <1>2, <2>1 DEF Silent
<1>3. Uncancelled
    BY <1>2, UncancelledBefore
<1>4. ASSUME client'.conn = client.conn PROVE c = client.conn /\ (~Closed(c) => PhaseOf(c))
    BY <1>1, <1>3, <1>4 DEF Alone, Calm
<1>5. ASSUME client'.conn = client.conn, client'.got = client.got, client'.pc = client.pc,
             server'[c] = server[c], s2c'[c] = s2c[c]
      PROVE  client'.got = <<>> /\ s2c'[c] = <<>>
    BY <1>2, <1>3, <1>4, <1>5 DEF Silent, Closed
<1>6. ~Reconnect
    BY <1>2 DEF Reconnect, Types, ClientOK, ClientType
<1>7. ASSUME ClientStep \/ Cancel \/ \E b \in Bodies : Call(b) PROVE FALSE
  <2>1. c = client.conn /\ UNCHANGED server
    BY <1>4, <1>7, ClientTouches
  <2>2. Closed(c)
    BY <1>2, <2>1 DEF Closed
  <2>3. ~SendPiece
    BY <2>1, <2>2 DEF SendPiece
  <2>4. ~ReadPiece
    BY <1>3, <2>1, <2>2 DEF ReadPiece, Silent
  <2>5. ASSUME NEW res, NEW pc \in {"idle", "gone"}, Return(res, pc) PROVE FALSE
    BY <1>2, <2>5 DEF Return, Types, ClientOK, ClientType
  <2>6. ~RecvGarbage /\ ~ConnectionLost /\ ~Cancel
    BY <2>5 DEF RecvGarbage, ConnectionLost, Cancel
  <2>7. ASSUME NEW b \in Bodies, Call(b) PROVE FALSE
    BY <1>2, <2>7 DEF Call, Types, ClientOK, ClientType
  <2> QED
    BY <1>7, <2>3, <2>4, <2>6, <2>7 DEF ClientStep
<1>8. ASSUME NEW d \in Conns, ProcessSocket(d)
      PROVE  client'.got = <<>> /\ s2c'[c] = <<>>
  <2>1. c = client.conn /\ UNCHANGED client /\ Touches(d)
    BY <1>4, <1>8, ServerTouches
  <2>2. CASE d # c
    BY <1>5, <2>1, <2>2 DEF Touches
  <2>3. CASE d = c
    <3>1. server \in [Conns -> [pc : {"unborn", "select", "feeding", "replying", "closed"},
                                out : Seq(Piece) \cup Seq(ReplyPiece)]]
      BY DEF Types, ServerOK
    <3>2. ~Closed(c) /\ PhaseOf(c)
      <4>1. ~Closed(c)
        BY <1>8, <2>3 DEF ProcessSocket, ReadSocket, FeedPipe, SocketEnds, TakeReply,
                          WriteFragment, Closed
      <4> QED
        BY <1>4, <2>1, <4>1
    <3>3. ~SocketEnds(c)
      BY <2>1, <3>2 DEF SocketEnds, Gone, PhaseOf, Phase, Types, ClientOK, ClientType, Conns
    <3>4. ~ReadSocket(c) /\ ~FeedPipe(c) /\ ~WriteFragment(c)
      <4>1. ASSUME ReadSocket(c) PROVE server'[c].pc \in {"select", "feeding"}
        BY <3>1, <4>1 DEF ReadSocket, Serving
      <4>2. ASSUME FeedPipe(c) PROVE server'[c].pc = "select"
        BY <3>1, <4>2 DEF FeedPipe, Serving
      <4>3. ASSUME WriteFragment(c) PROVE server'[c].pc \in {"select", "replying"}
        <5>1. PICK rest : server' = [server EXCEPT ![c] =
                            IF Gone(c) \/ rest = <<>> THEN Serving("select", <<>>)
                                                      ELSE Serving("replying", rest)]
          BY <4>3 DEF WriteFragment
        <5> QED
          BY <3>1, <5>1 DEF Serving
      <4> QED
        BY <1>2, <4>1, <4>2, <4>3 DEF Closed
    <3>5. TakeReply(c)
      BY <1>8, <2>3, <3>3, <3>4 DEF ProcessSocket
    <3>6. UNCHANGED s2c /\ replies[c] # <<>>
      BY <3>5 DEF TakeReply
    <3>7. Coming(c) = <<>>
      <4>1. ASSUME Coming(c) # <<>> PROVE FALSE
        <5>1. Returning(Cur, Up(c), Mine(c), replies[c], Coming(c))
          BY <3>2, <4>1, ComingIsReturning
        <5> QED
          BY <3>6, <5>1 DEF Returning
      <4> QED
        BY <4>1
    <3> QED
      BY <2>1, <3>6, <3>7, NothingComing
  <2> QED
    BY <2>2, <2>3
<1>9. ASSUME NEW d \in Conns, ReadMessage(d)
      PROVE  client'.got = <<>> /\ s2c'[c] = <<>>
  <2>1. UNCHANGED <<client, s2c, server>>
    BY <1>9 DEF ReadMessage
  <2> QED
    BY <1>5, <2>1
<1>10. ASSUME NEW t \in tasks, TaskStep(t) PROVE client'.got = <<>> /\ s2c'[c] = <<>>
    BY <1>5, <1>10, TaskTouches
<1>11. CASE Listen
    BY <1>5, <1>11 DEF Listen
<1> QED
    BY <1>6, <1>7, <1>8, <1>9, <1>10, <1>11 DEF Next

Bad == {"UnexpectedXid", "Garbled", "Panic"}

\* A call meets what is not its own only after another was cancelled.
LEMMA ConfusionStep ==
    ASSUME Types, Calling, Alone, Silent, Confusion, Next
    PROVE  Confusion'
<1>1. SUFFICES ASSUME NEW x \in Xids, outcome'[x] \in Bad PROVE CancelledBefore(x)'
    BY DEF Confusion, Bad
<1>2. ASSUME CancelledBefore(x) PROVE CancelledBefore(x)'
  <2>1. \A y \in 1..(x - 1) : y \in Xids
    BY ConnectionAssumption DEF Xids
  <2> QED
    BY <1>2, <2>1, Settled DEF CancelledBefore
<1>3. CASE outcome[x] \in Bad
    BY <1>2, <1>3 DEF Confusion, Bad
<1>4. CASE outcome[x] \notin Bad
  <2>1. ASSUME NEW res, NEW pc \in {"idle", "gone"}, Return(res, pc), Waiting
        PROVE  res \in Bad /\ x = Cur /\ outcome[x] = "pending"
    BY <1>1, <1>4, <2>1, ReturnOutcome
  <2>2. ASSUME Waiting, x = Cur, outcome[x] = "pending", ~CancelledBefore(x) PROVE Uncancelled
    <3>1. SUFFICES ASSUME NEW y \in Xids, outcome[y] = "Cancelled" PROVE FALSE
      BY DEF Uncancelled
    <3>2. y < client.xid /\ y # Cur /\ client.xid \in Int /\ y \in Nat \ {0}
      BY <2>2, <3>1, ConnectionAssumption DEF Calling, Types, ClientOK, ClientType, Xids
    <3>3. y \in 1..(x - 1)
      BY <2>2, <3>2 DEF Cur
    <3> QED
      BY <2>2, <3>1, <3>3 DEF CancelledBefore
  <2>3. client.conn \in Conns
    BY DEF Types, ClientOK, ClientType
  <2>4. CASE ReadPiece
    <3> DEFINE z == Head(s2c[client.conn])
               got == Append(client.got, z)
    <3>1. /\ client.conn \in Conns /\ s2c[client.conn] \in Seq(ReplyPiece)
          /\ s2c[client.conn] # <<>> /\ z \in ReplyPiece
          /\ got \in Seq(ReplyPiece) /\ got[1] \in ReplyPiece /\ Len(got) = Len(client.got) + 1
          /\ client.got \in Seq(ReplyPiece) /\ Waiting
      BY <2>4, ReadPieceTypes DEF ReadPiece, Waiting
    <3>2. got[1].part = 1 /\ Len(got) = 2 /\ RecvReply(got[1])
      BY <1>1, <1>4, <2>4 DEF ReadPiece
    <3>3. client.got # <<>> /\ got[1] = client.got[1]
      <4> HIDE DEF z
      <4>1. Len(client.got) = 1
        <5> DEFINE n == Len(client.got)
        <5>1. n \in Nat
          BY <3>1, LenProperties
        <5>2. n + 1 = 2
          BY <3>1, <3>2
        <5> HIDE DEF n
        <5>3. n = 1
          BY <5>1, <5>2
        <5> QED
          BY <5>3 DEF n
      <4>2. \A i \in 1..Len(client.got) : got[i] = client.got[i]
        BY <3>1, AppendProperties
      <4> QED
        BY <4>1, <4>2, EmptySeq, LenProperties
    <3> HIDE DEF z, got
    <3>4. PICK res : Return(res, "idle") /\ res \notin {"Garbled", "Panic"}
                     /\ (res = "UnexpectedXid" <=> got[1].xid # Cur)
      BY <3>1, <3>2, RecvReplyReturns
    <3>5. x = Cur /\ outcome[x] = "pending" /\ got[1].xid # Cur
      BY <2>1, <3>1, <3>4 DEF Bad
    <3>6. ASSUME ~CancelledBefore(x) PROVE FALSE
      <4>1. Uncancelled /\ client.pc = "receiving"
        BY <2>2, <2>4, <3>1, <3>5, <3>6 DEF ReadPiece
      <4>2. ~Closed(client.conn)
        BY <3>3, <4>1 DEF Silent
      <4>3. PICK c \in Conns : c = client.conn /\ PhaseOf(c)
        BY <2>3, <4>1, <4>2 DEF Alone, Calm
      <4>4. Coming(c)[1] = client.got[1] /\ Coming(c) # <<>>
        BY <3>3, ComingFirst, NothingComing
      <4>5. Coming(c)[1].xid = Cur
        BY <4>3, <4>4, ComingIsReturning DEF Returning
      <4> QED
        BY <3>3, <3>5, <4>4, <4>5
    <3> QED
      BY <1>2, <3>6
  <2>5. CASE RecvGarbage
    <3>1. Waiting /\ client.pc = "receiving" /\ client.got # <<>>
          /\ \E res, pc \in {"Garbled", "Panic", "idle", "gone"} :
                pc \in {"idle", "gone"} /\ Return(res, pc)
      BY <2>5 DEF RecvGarbage, Waiting
    <3>2. x = Cur /\ outcome[x] = "pending"
      BY <2>1, <3>1
    <3>3. ASSUME ~CancelledBefore(x) PROVE FALSE
      <4>1. Uncancelled
        BY <2>2, <3>1, <3>2, <3>3
      <4>2. ~Closed(client.conn)
        BY <3>1, <4>1 DEF Silent
      <4> QED
        BY <2>3, <2>5, <4>1, <4>2, NoGarbage DEF Alone, Calm
    <3> QED
      BY <1>2, <3>3
  <2>6. CASE ConnectionLost \/ Cancel
    <3>1. Waiting /\ \E res \in {"Io", "Cancelled"} : Return(res, "idle")
      BY <2>6 DEF ConnectionLost, Cancel, Waiting
    <3> QED
      BY <2>1, <3>1 DEF Bad
  <2>7. ASSUME NEW b \in Bodies, Call(b) PROVE FALSE
    <3>1. outcome' = [outcome EXCEPT ![client.xid] = "pending"]
      BY <2>7 DEF Call
    <3> QED
      BY <1>1, <1>4, <3>1 DEF Types, CallsOK, Bad
  <2>8. ASSUME NEW d \in Conns, ProcessSocket(d) \/ ReadMessage(d) PROVE UNCHANGED outcome
    BY <2>8 DEF ProcessSocket, ReadSocket, FeedPipe, SocketEnds, TakeReply, WriteFragment,
                ReadMessage
  <2>9. ASSUME NEW t \in tasks, TaskStep(t) PROVE UNCHANGED outcome
    BY <2>9, TaskTouches
  <2>10. CASE SendPiece \/ Reconnect \/ Listen
    BY <1>1, <1>4, <2>10 DEF SendPiece, Reconnect, Listen
  <2> QED
    BY <1>1, <1>4, <2>4, <2>5, <2>6, <2>7, <2>8, <2>9, <2>10 DEF Next, ClientStep
<1> QED
    BY <1>3, <1>4

-----------------------------------------------------------------------------
(* The invariant holds.                                                    *)

IInv ==
    Types /\ Rooms /\ Caller /\ Once /\ Earned /\ Streams /\ Safe /\ Alone /\ Silent /\ Confusion

\* Nobody has called, and nothing is on the way.
LEMMA InvariantInit ==
    ASSUME Init
    PROVE  IInv
<1>1. Types
    BY TypesInit
<1>2. MaxCalls \in Nat \ {0} /\ MaxConns \in Nat \ {0} /\ SocketRoom \in Nat /\ PipeRoom \in Nat
    BY ConnectionAssumption
<1>3. /\ client.pc = "idle" /\ client.conn = 1 /\ client.xid = 1 /\ client.sent = 0
      /\ client.got = <<>> /\ tasks = {} /\ executed = {} /\ seen = {} /\ torn = FALSE
    BY DEF Init
<1>4. /\ \A x \in Xids : outcome[x] = "none" /\ calls[x] = None
      /\ \A c \in Conns : /\ c2s[c] = <<>> /\ s2c[c] = <<>> /\ pipe[c] = <<>>
                          /\ fragment[c] = <<>> /\ replies[c] = <<>>
                          /\ server[c].pc = IF c = 1 THEN "select" ELSE "unborn"
                          /\ server[c] = Serving(IF c = 1 THEN "select" ELSE "unborn", <<>>)
    BY DEF Init, Serving
<1>5. \A c \in Conns : /\ Feeding(c) = <<>> /\ Replying(c) = <<>> /\ Up(c) = <<>>
                       /\ Coming(c) = <<>> /\ Mine(c) = {}
    BY <1>3, <1>4 DEF Feeding, Replying, Up, Coming, Down, Mine
<1>6. Len(<<>>) = 0 /\ 1 \in Conns
    BY <1>2 DEF Conns
<1>7. Rooms
    BY <1>2, <1>4, <1>6 DEF Rooms
<1>8. Caller
  <2>1. \A x \in Xids : x >= client.xid
    BY <1>2, <1>3 DEF Xids
  <2>2. Calling
    BY <1>2, <1>3, <1>4, <2>1 DEF Calling, Waiting, Xids
  <2>3. Unused
    BY <1>2, <1>3, <1>4 DEF Unused, Conns
  <2> QED
    BY <2>2, <2>3 DEF Caller
<1>9. Once /\ Safe
    BY <1>3 DEF Init, Once, Safe, AtMostOnce
<1>10. Earned
    BY <1>3, <1>4, <1>5, <1>6 DEF Earned, Paid
<1>11. Streams
  <2>1. ASSUME NEW c \in Conns PROVE Chain(c)
    BY <1>4, <1>5, <1>6, <2>1 DEF Chain, Linked, Below
  <2>2. Tip(client.conn, Up(client.conn))
    BY <1>3, <1>5, <1>6 DEF Tip
  <2> QED
    BY <1>3, <1>4, <2>1, <2>2 DEF Streams, AcceptedIsOwn
<1>12. Alone
  <2>1. PhaseOf(1)
    BY <1>3, <1>4, <1>5, <1>6, QuietPhase DEF PhaseOf, Quiet
  <2> QED
    BY <1>3, <2>1 DEF Alone
<1>13. Silent /\ Confusion
    BY <1>3, <1>4 DEF Silent, Confusion
<1> QED
    BY <1>1, <1>7, <1>8, <1>9, <1>10, <1>11, <1>12, <1>13 DEF IInv

\* Stuttering leaves it alone.
LEMMA InvariantStutter ==
    ASSUME IInv, UNCHANGED vars
    PROVE  IInv'
<1>1. UNCHANGED <<client, calls, outcome, c2s, s2c, server, pipe, fragment, tasks, replies, addr,
                  tracker, signals, executed, runs, seen, torn>>
    BY DEF vars, serverVars
<1>2. Types' /\ Rooms'
    BY <1>1 DEF IInv, Types, ClientOK, CallsOK, UpOK, DownOK, ServerOK, TasksOK, HistoryOK, Rooms
<1>3. Caller'
    BY <1>1 DEF IInv, Caller, Calling, Waiting, Cur, Unused
<1>4. Once' /\ Earned'
    BY <1>1 DEF IInv, Once, Key, AtMostOnce, Earned, Backed, Replying
<1>5. Streams'
    BY <1>1 DEF IInv, Streams, Chain, Up, Feeding, Abandoned, Tip, Cur, Closed, Parsed, Ran,
                AcceptedIsOwn
<1>6. Safe'
    BY <1>1 DEF IInv, Safe, Lasts, Closed, Gone, Kept, Signalling, Replying
<1>7. Alone' /\ Silent'
    BY <1>1 DEF IInv, Alone, Calm, Uncancelled, Closed, PhaseOf, Cur, Up, Feeding, Mine, Coming,
                Down, Replying, Silent
<1>8. Confusion'
    BY <1>1 DEF IInv, Confusion, CancelledBefore
<1> QED
    BY <1>2, <1>3, <1>4, <1>5, <1>6, <1>7, <1>8 DEF IInv

\* Every part is preserved, given some of the others.
LEMMA InvariantStep ==
    ASSUME IInv, [Next]_vars
    PROVE  IInv'
<1>1. CASE UNCHANGED vars
    BY <1>1, InvariantStutter
<1>2. CASE Next
    BY <1>2, TypesStep, RoomsStep, CallingStep, UnusedStep, OnceStep, EarnedStep, StreamsStep,
       SafeStep, AloneStep, SilentStep, ConfusionStep DEF IInv, Caller
<1> QED
    BY <1>1, <1>2

\* The inductive invariant, for any number of calls and connections, any room in
\* the streams and any limit of active transactions.
THEOREM ConnectionInvariant == Spec => []IInv
<1>1. Init => IInv
    BY InvariantInit
<1>2. IInv /\ [Next]_vars => IInv'
    BY InvariantStep
<1> QED
    BY <1>1, <1>2, PTL DEF Spec

\* Streams and pipe never hold more than they have room for, and process_socket
\* holds bytes exactly while it passes them on.
THEOREM ConnectionTypeOK == Spec => []TypeOK
<1>1. IInv => TypeOK
  <2> SUFFICES ASSUME IInv PROVE TypeOK
    OBVIOUS
  <2>1. DOMAIN outcome = Xids
    BY DEF IInv, Types, CallsOK
  <2>2. ASSUME NEW c \in Conns
        PROVE  /\ server[c].pc \in {"unborn", "select", "feeding", "replying", "closed"}
               /\ server[c].pc = "feeding" => server[c].out \in Seq(Piece)
               /\ server[c].pc = "replying" => server[c].out \in Seq(ReplyPiece)
               /\ (server[c].out = <<>>) = (server[c].pc \notin {"feeding", "replying"})
    <3> DEFINE v == server[c]
    <3>1. v.pc \in {"unborn", "select", "feeding", "replying", "closed"} /\ Holding(v)
      BY DEF IInv, Types, ServerOK
    <3> HIDE DEF v
    <3>2. v.pc = "feeding" => v.out # <<>>
      <4>1. v.pc = "feeding" => Len(v.out) = 1
        BY <3>1 DEF Holding
      <4>2. Len(<<>>) # 1
        OBVIOUS
      <4> QED
        BY <4>1, <4>2, Zenon
    <3>3. (v.out = <<>>) = (v.pc \notin {"feeding", "replying"})
      BY <3>1, <3>2 DEF Holding
    <3> QED
      BY <3>1, <3>3 DEF Holding, v
  <2>3. \A c \in Conns : Len(c2s[c]) <= SocketRoom /\ Len(s2c[c]) <= SocketRoom
                         /\ Len(pipe[c]) <= PipeRoom
    BY DEF IInv, Rooms
  <2> QED
    BY <2>1, <2>2, <2>3 DEF IInv, Types, ClientOK, ClientType, CallsOK, UpOK, DownOK, TasksOK,
                            HistoryOK, TypeOK
<1> QED
    BY <1>1, ConnectionInvariant, PTL

\* A call that returned Ok was executed with its own arguments.
THEOREM ConnectionAcceptedIsOwn == Spec => []AcceptedIsOwn
<1>1. IInv => AcceptedIsOwn
    BY DEF IInv, Streams
<1> QED
    BY <1>1, ConnectionInvariant, PTL

\* No request of an address is executed twice before the tracker has forgotten it,
\* on whatever connections from there it is repeated.
THEOREM ConnectionAtMostOnce == Spec => []AtMostOnce
<1>1. IInv => AtMostOnce
    BY DEF IInv, Once
<1> QED
    BY <1>1, ConnectionInvariant, PTL

\* Calls and replies are confused only after a call was cancelled.
THEOREM ConnectionNoConfusion == Spec => []NoConfusionWithoutCancel
<1>1. IInv => NoConfusionWithoutCancel
  <2> SUFFICES ASSUME IInv PROVE NoConfusionWithoutCancel
    OBVIOUS
  <2>1. ASSUME NEW e \in executed, ~torn PROVE Intact(e)
    <3>1. Ran(e) /\ Abandoned = {}
      BY <2>1 DEF IInv, Streams, Abandoned
    <3> QED
      BY <3>1 DEF Ran, Whole, Intact, Second
  <2> QED
    BY <2>1 DEF IInv, Confusion, NoConfusionWithoutCancel
<1> QED
    BY <1>1, ConnectionInvariant, PTL

\* Client and server wait for each other to read only after a cancelled call.
THEOREM ConnectionBlockedOnlyByAbandoned == Spec => []BlockedOnlyByAbandoned
<1>1. IInv => BlockedOnlyByAbandoned
  <2> SUFFICES ASSUME IInv, NEW c \in Conns, BothWritersBlocked(c) PROVE CancelledBefore(Cur)
    BY DEF BlockedOnlyByAbandoned
  <2>1. /\ client.conn = c /\ client.pc = "sending" /\ server[c].pc = "replying"
        /\ ~Closed(c) /\ Replying(c) # <<>>
    BY DEF BothWritersBlocked, Closed, Replying, IInv, Types, ServerOK, Holding
  <2>2. ~Uncancelled
    <3>1. ASSUME Uncancelled PROVE FALSE
      <4>1. PhaseOf(c)
        BY <2>1, <3>1 DEF IInv, Alone, Calm
      <4>2. Coming(c) # <<>>
        BY <2>1, NothingComing DEF IInv
      <4>3. client.pc = "receiving"
        BY <4>1, <4>2, ComingIsReturning DEF IInv, Caller
      <4> QED
        BY <2>1, <4>3
    <3> QED
      BY <3>1
  <2>3. PICK y \in Xids : outcome[y] = "Cancelled"
    BY <2>2 DEF Uncancelled
  <2>4. y < client.xid /\ y # Cur /\ client.xid \in Int /\ y \in Nat \ {0}
    BY <2>1, <2>3, ConnectionAssumption DEF IInv, Caller, Calling, Waiting, Types, ClientOK,
       ClientType, Xids
  <2>5. y \in 1..(Cur - 1)
    BY <2>4 DEF Cur
  <2> QED
    BY <2>3, <2>5 DEF CancelledBefore
<1> QED
    BY <1>1, ConnectionInvariant, PTL

\* While a connection is open on both sides no reply is dropped.
THEOREM ConnectionNothingLost == Spec => []NothingLostWhileOpen
<1>1. IInv => NothingLostWhileOpen
  <2> SUFFICES ASSUME IInv, NEW e \in executed, ~Closed(e.conn), ~Gone(e.conn)
               PROVE  Underway(e.conn, e.head.xid)
    BY DEF NothingLostWhileOpen
  <2> DEFINE c == e.conn
             x == e.head.xid
  <2>1. Kept(c, x) /\ c \in Conns
    BY DEF IInv, Safe, Lasts, Types, HistoryOK, Message
  <2> HIDE DEF c, x
  <2>2. /\ replies[c] \in Seq(Reply) /\ s2c[c] \in Seq(ReplyPiece)
        /\ server[c].pc = "replying" => server[c].out \in Seq(ReplyPiece)
    BY <2>1 DEF IInv, Types, DownOK, ServerOK, Holding
  <2>3. /\ DOMAIN replies[c] = 1..Len(replies[c]) /\ DOMAIN s2c[c] = 1..Len(s2c[c])
        /\ server[c].pc = "replying" => DOMAIN server[c].out = 1..Len(server[c].out)
    BY <2>2, LenProperties
  <2>4. Has(Replying(c), x) =>
            server[c].pc = "replying" /\ \E i \in 1..Len(server[c].out) : server[c].out[i].xid = x
    BY EmptySeq, LenProperties DEF Has, Replying
  <2>5. Underway(c, x)
    BY <2>1, <2>3, <2>4 DEF Kept, Underway, Signalling, Has
  <2> QED
    BY <2>5 DEF c, x
<1> QED
    BY <1>1, ConnectionInvariant, PTL
============================================================================
