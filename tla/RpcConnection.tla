--------------------------- MODULE RpcConnection ---------------------------
(***************************************************************************)
(* One client, RpcClient::call on its side, and the server: the task of    *)
(* process_socket, the message loop (SocketMessageHandler::read), and one  *)
(* task per message.  They are joined by a TCP stream in each direction,   *)
(* the pipe between process_socket and the message loop, and the unbounded *)
(* channel of replies.                                                     *)
(*                                                                         *)
(* A message travels as two pieces, so that it can be sent, read or        *)
(* abandoned half way; piece 1 holds the fragment header and the RPC       *)
(* header.  Bytes that do not start where a message starts are never taken *)
(* for a well-formed message.  A call may be cancelled by its caller at    *)
(* any await.  Reconnect is what other NFS clients do: the same call, with *)
(* the same xid, on a new connection, from the port of an earlier one or   *)
(* from another.  For the old connection it is the same as a client that   *)
(* leaves for good.                                                        *)
(*                                                                         *)
(* Of the transaction tracker the model has what it says of an xid of an   *)
(* address.  It may have forgotten a transaction that is done when it is   *)
(* asked again: when and why is the subject of TransactionTracker.         *)
(***************************************************************************)
EXTENDS RpcDispatch, Sequences, SequencesExt, FiniteSets

CONSTANTS
    Bodies,         \* the calls clients make
    MaxCalls,       \* bound: calls of the client; their xids are 1..MaxCalls
    MaxConns,       \* bound: connections of the client
    SocketRoom,     \* pieces a TCP stream holds
    PipeRoom,       \* pieces the duplex pipe holds
    MaxActive,      \* max_active_transactions of the tracker
    SignalRoom,     \* capacity of the mount listener's channel
    None

ASSUME ConnectionAssumption ==
    /\ Bodies \subseteq CallBody
    /\ None \notin CallBody
    /\ {MaxCalls, MaxConns, SocketRoom, PipeRoom, MaxActive, SignalRoom} \subseteq Nat \ {0}

VARIABLES
    client,     \* RpcClient: what it does, its connection, next xid, pieces sent, pieces read
    calls,      \* the call made under each xid
    outcome,    \* what the caller got
    c2s, s2c,   \* the TCP streams of each connection
    server,     \* process_socket of each connection: what it does and the pieces in its hands
    pipe,       \* the duplex pipe of each connection
    fragment,   \* SocketMessageHandler.cur_fragment of each connection
    tasks,      \* the spawned tasks
    replies,    \* the reply channel of each connection
    addr,       \* the address of each connection, named after the first one from there
    tracker,    \* the transaction tracker's view of each address and xid
    signals,    \* signals waiting for the mount listener
    executed,   \* history: the messages whose handler has run to its end
    runs,       \* history: how often it was run since the tracker last had forgotten it
    panicked,   \* history: the xids of calls whose handler has panicked
    seen,       \* history: the xids of replies the client has read (a piece of)
    torn        \* history: a call was abandoned in the middle of a message

serverVars == <<server, pipe, fragment, tasks, replies, addr, tracker, signals, executed, runs,
                panicked>>
vars == <<client, calls, outcome, c2s, s2c, serverVars, seen, torn>>

Xids == 1..MaxCalls
Conns == 1..MaxConns
Keys == Conns \X Xids      \* client_addr and xid
Piece == [xid : Xids, part : {1, 2}]
ReplyPiece == [xid : Xids, part : {1, 2}, stat : Stats]
Reply == [xid : Xids, stat : Stats \cup {"Err"}]
Task ==
    [conn : Conns, head : Piece, tail : Piece,
     pc : {"spawned", "running", "signal"}]

Cur == client.xid - 1
Intact(msg) == msg.head.part = 1 /\ msg.tail = [xid |-> msg.head.xid, part |-> 2]
Closed(c) == server[c].pc = "closed"

\* The client's end of connection c is closed.
Gone(c) == c < client.conn \/ client.pc = "gone"

\* Streams and the pipe stay within their room, and process_socket holds bytes
\* exactly while it passes them on.
TypeOK ==
    /\ client \in [pc : {"idle", "sending", "receiving", "gone"}, conn : Conns,
                   xid : 1..(MaxCalls + 1), sent : 0..2, got : Seq(ReplyPiece)]
    /\ calls \in [Xids -> Bodies \cup {None}]
    /\ DOMAIN outcome = Xids
    /\ c2s \in [Conns -> Seq(Piece)] /\ pipe \in [Conns -> Seq(Piece)]
    /\ s2c \in [Conns -> Seq(ReplyPiece)]
    /\ \A c \in Conns :
        /\ Len(c2s[c]) <= SocketRoom /\ Len(s2c[c]) <= SocketRoom /\ Len(pipe[c]) <= PipeRoom
        /\ server[c].pc \in {"unborn", "select", "feeding", "replying", "closed"}
        /\ server[c].pc = "feeding" => server[c].out \in Seq(Piece)
        /\ server[c].pc = "replying" => server[c].out \in Seq(ReplyPiece)
        /\ (server[c].out = <<>>) = (server[c].pc \notin {"feeding", "replying"})
    /\ fragment \in [Conns -> Seq(Piece)]
    /\ tasks \subseteq Task
    /\ replies \in [Conns -> Seq(Reply)]
    /\ addr \in [Conns -> Conns]
    /\ tracker \in [Keys -> {"none", "running", "done"}]
    /\ signals \in 0..SignalRoom
    /\ torn \in BOOLEAN

Serving(pc, out) == [pc |-> pc, out |-> out]

Init ==
    /\ client = [pc |-> "idle", conn |-> 1, xid |-> 1, sent |-> 0, got |-> <<>>]
    /\ calls = [x \in Xids |-> None]
    /\ outcome = [x \in Xids |-> "none"]
    /\ c2s = [c \in Conns |-> <<>>] /\ s2c = [c \in Conns |-> <<>>]
    /\ server = [c \in Conns |-> Serving(IF c = 1 THEN "select" ELSE "unborn", <<>>)]
    /\ pipe = [c \in Conns |-> <<>>]
    /\ fragment = [c \in Conns |-> <<>>]
    /\ tasks = {}
    /\ replies = [c \in Conns |-> <<>>]
    /\ addr = [c \in Conns |-> c]
    /\ tracker = [k \in Keys |-> "none"]
    /\ signals = 0
    /\ executed = {}
    /\ runs = [k \in Keys |-> 0]
    /\ panicked = {}
    /\ seen = {}
    /\ torn = FALSE

-----------------------------------------------------------------------------
(* The client.                                                             *)

Call(b) ==
    /\ client.pc = "idle" /\ client.xid <= MaxCalls
    /\ client' = [client EXCEPT !.pc = "sending", !.xid = @ + 1, !.sent = 0, !.got = <<>>]
    /\ calls' = [calls EXCEPT ![client.xid] = b]
    /\ outcome' = [outcome EXCEPT ![client.xid] = "pending"]
    /\ UNCHANGED <<c2s, s2c, serverVars, seen, torn>>

\* async_write_all of the next piece; after the last one recv_reply begins.
SendPiece ==
    LET c == client.conn IN
    /\ client.pc = "sending" /\ ~Closed(c)
    /\ Len(c2s[c]) < SocketRoom
    /\ c2s' = [c2s EXCEPT ![c] = Append(@, [xid |-> Cur, part |-> client.sent + 1])]
    /\ client' = [client EXCEPT !.sent = @ + 1,
                                !.pc = IF client.sent = 1 THEN "receiving" ELSE "sending"]
    /\ UNCHANGED <<calls, outcome, s2c, serverVars, seen, torn>>

\* The call returns res; an RpcClient that is gone closes its connection.
Return(res, pc) ==
    /\ outcome' = [outcome EXCEPT ![Cur] = res]
    /\ client' = [client EXCEPT !.pc = pc, !.got = <<>>]

\* recv_reply has read a whole reply.
RecvReply_AnyXid(reply) == Return(ClientResult(reply.stat), "idle")

RecvReply(reply) ==
    Return(IF reply.xid # Cur THEN "UnexpectedXid" ELSE ClientResult(reply.stat), "idle")

\* async_read_exact makes progress.
ReadPiece ==
    LET c == client.conn IN
    /\ client.pc = "receiving" /\ s2c[c] # <<>>
    /\ LET got == Append(client.got, Head(s2c[c])) IN
        IF got[1].part = 1 /\ Len(got) = 2
        THEN RecvReply(got[1])
        ELSE client' = [client EXCEPT !.got = got] /\ UNCHANGED outcome
    /\ s2c' = [s2c EXCEPT ![c] = Tail(@)]
    /\ seen' = seen \cup {Head(s2c[c]).xid}
    /\ UNCHANGED <<calls, c2s, serverVars, torn>>

\* recv_reply began to read in the middle of a reply: the assertion on the
\* fragment header fails, or what it takes for a message does not unpack.
RecvGarbage ==
    /\ client.pc = "receiving"
    /\ client.got # <<>> /\ client.got[1].part = 2
    /\ Return("Garbled", "idle") \/ Return("Panic", "gone")
    /\ UNCHANGED <<calls, c2s, s2c, serverVars, seen, torn>>

ConnectionLost ==
    /\ client.pc \in {"sending", "receiving"} /\ Closed(client.conn)
    /\ Return("Io", "idle")
    /\ UNCHANGED <<calls, c2s, s2c, serverVars, seen, torn>>

\* The caller drops the future of call.
Cancel ==
    /\ client.pc \in {"sending", "receiving"}
    /\ Return("Cancelled", "idle")
    /\ torn' = (torn \/ client.got # <<>> \/ (client.pc = "sending" /\ client.sent > 0))
    /\ UNCHANGED <<calls, c2s, s2c, serverVars, seen>>

\* External: the client repeats its call on a new connection, which the
\* listener accepts.
Reconnect ==
    /\ client.pc \in {"sending", "receiving"} /\ client.conn < MaxConns
    /\ client' = [client EXCEPT !.conn = @ + 1, !.pc = "sending", !.sent = 0, !.got = <<>>]
    /\ server' = [server EXCEPT ![client.conn + 1] = Serving("select", <<>>)]
    /\ \E a \in {addr[client.conn], client.conn + 1} :
        addr' = [addr EXCEPT ![client.conn + 1] = a]
    /\ UNCHANGED <<calls, outcome, c2s, s2c, pipe, fragment, tasks, replies, tracker, signals,
                   executed, runs, panicked, seen, torn>>

ClientStep == SendPiece \/ ReadPiece \/ RecvGarbage \/ ConnectionLost

-----------------------------------------------------------------------------
(* The server: process_socket.                                             *)

\* write_all takes the room of the pipe for granted.
ReadSocket_NoRoom(c) ==
    /\ server[c].pc = "select" /\ c2s[c] # <<>>
    /\ c2s' = [c2s EXCEPT ![c] = Tail(@)]
    /\ pipe' = [pipe EXCEPT ![c] = Append(@, Head(c2s[c]))]
    /\ UNCHANGED <<client, calls, outcome, s2c, server, fragment, tasks, replies, tracker,
                   signals, executed, runs, panicked, addr, seen, torn>>

\* select!: the socket has data.  write_all to the pipe waits for room.
ReadSocket(c) ==
    /\ server[c].pc = "select" /\ c2s[c] # <<>>
    /\ c2s' = [c2s EXCEPT ![c] = Tail(@)]
    /\ IF Len(pipe[c]) < PipeRoom
       THEN pipe' = [pipe EXCEPT ![c] = Append(@, Head(c2s[c]))] /\ UNCHANGED server
       ELSE server' = [server EXCEPT ![c] = Serving("feeding", <<Head(c2s[c])>>)]
            /\ UNCHANGED pipe
    /\ UNCHANGED <<client, calls, outcome, s2c, fragment, tasks, replies, tracker, signals,
                   executed, runs, panicked, addr, seen, torn>>

FeedPipe(c) ==
    /\ server[c].pc = "feeding" /\ Len(pipe[c]) < PipeRoom
    /\ pipe' = [pipe EXCEPT ![c] = @ \o server[c].out]
    /\ server' = [server EXCEPT ![c] = Serving("select", <<>>)]
    /\ UNCHANGED <<client, calls, outcome, c2s, s2c, fragment, tasks, replies, tracker, signals,
                   executed, runs, panicked, addr, seen, torn>>

\* select!: the client has closed its end.  A reset may overtake the data.
SocketEnds(c) ==
    /\ server[c].pc = "select" /\ Gone(c)
    /\ server' = [server EXCEPT ![c] = Serving("closed", <<>>)]
    /\ UNCHANGED <<client, calls, outcome, c2s, s2c, pipe, fragment, tasks, replies, tracker,
                   signals, executed, runs, panicked, addr, seen, torn>>

\* select!: a reply; an error ends the connection and what is still queued
\* is dropped with the channel.
TakeReply(c) ==
    /\ server[c].pc = "select" /\ replies[c] # <<>>
    /\ LET r == Head(replies[c]) IN
        IF r.stat = "Err"
        THEN /\ server' = [server EXCEPT ![c] = Serving("closed", <<>>)]
             /\ replies' = [replies EXCEPT ![c] = <<>>]
        ELSE /\ server' = [server EXCEPT ![c] = Serving("replying",
                    [i \in 1..2 |-> [xid |-> r.xid, part |-> i, stat |-> r.stat]])]
             /\ replies' = [replies EXCEPT ![c] = Tail(@)]
    /\ UNCHANGED <<client, calls, outcome, c2s, s2c, pipe, fragment, tasks, tracker, signals,
                   executed, runs, panicked, addr, seen, torn>>

\* Piece by piece, but the write is given up at a full socket.
WriteFragment_Gives(c) ==
    /\ server[c].pc = "replying"
    /\ LET rest == Tail(server[c].out)
           fits == ~Gone(c) /\ Len(s2c[c]) < SocketRoom
       IN  /\ server' = [server EXCEPT ![c] =
                IF ~fits \/ rest = <<>> THEN Serving("select", <<>>) ELSE Serving("replying", rest)]
           /\ s2c' = [s2c EXCEPT ![c] = IF fits THEN Append(@, Head(server[c].out)) ELSE @]
    /\ UNCHANGED <<client, calls, outcome, c2s, pipe, fragment, tasks, replies, tracker,
                   signals, executed, runs, panicked, addr, seen, torn>>

\* write_fragment: nothing is read meanwhile; an error is logged, no more.
WriteFragment(c) ==
    /\ server[c].pc = "replying"
    /\ Gone(c) \/ Len(s2c[c]) < SocketRoom
    /\ LET rest == Tail(server[c].out) IN
        /\ server' = [server EXCEPT ![c] =
                IF Gone(c) \/ rest = <<>> THEN Serving("select", <<>>)
                                          ELSE Serving("replying", rest)]
        /\ s2c' = [s2c EXCEPT ![c] = IF Gone(c) THEN @ ELSE Append(@, Head(server[c].out))]
    /\ UNCHANGED <<client, calls, outcome, c2s, pipe, fragment, tasks, replies, tracker,
                   signals, executed, runs, panicked, addr, seen, torn>>

ProcessSocket(c) ==
    ReadSocket(c) \/ FeedPipe(c) \/ SocketEnds(c) \/ TakeReply(c) \/ WriteFragment(c)

-----------------------------------------------------------------------------
(* The message loop and the tasks it spawns.                               *)

Spawn(c, msg) ==
    tasks' = tasks \cup {[conn |-> c, head |-> Head(msg), tail |-> Last(msg), pc |-> "spawned"]}

\* A message is handed over without its last piece.
ReadMessage_FirstPiece(c) ==
    /\ pipe[c] # <<>>
    /\ pipe' = [pipe EXCEPT ![c] = Tail(@)]
    /\ Spawn(c, <<Head(pipe[c])>>)
    /\ UNCHANGED <<client, calls, outcome, c2s, s2c, server, fragment, replies, tracker,
                   signals, executed, runs, panicked, addr, seen, torn>>

\* SocketMessageHandler::read, which goes on after the connection has ended
\* until the pipe is empty.  A header read out of place gives any length.
ReadMessage(c) ==
    /\ pipe[c] # <<>>
    /\ pipe' = [pipe EXCEPT ![c] = Tail(@)]
    /\ LET msg == Append(fragment[c], Head(pipe[c])) IN
        \/ /\ msg[1].part = 2 \/ Len(msg) = 1
           /\ fragment' = [fragment EXCEPT ![c] = msg]
           /\ UNCHANGED tasks
        \/ /\ msg[1].part = 2 \/ Len(msg) = 2
           /\ fragment' = [fragment EXCEPT ![c] = <<>>]
           /\ Spawn(c, msg)
    /\ UNCHANGED <<client, calls, outcome, c2s, s2c, server, replies, tracker, signals,
                   executed, runs, panicked, addr, seen, torn>>

\* What a message may unpack to.
Decoded(msg) ==
    LET call == calls[msg.head.xid] IN
    CASE msg.head.part = 2 -> {[call EXCEPT !.kind = "garbled"]}
      [] Intact(msg)       -> {call}
      [] OTHER             -> {call, [call EXCEPT !.args = "garbage"],
                               [call EXCEPT !.kind = "garbled"]}

Move(t, pc) == tasks' = (tasks \ {t}) \cup {[t EXCEPT !.pc = pc]} /\ UNCHANGED replies

\* A channel with one place.
SendReply_Latest(t, stat) ==
    /\ tasks' = tasks \ {t}
    /\ replies' = [replies EXCEPT ![t.conn] =
            IF Closed(t.conn) THEN @ ELSE <<[xid |-> t.head.xid, stat |-> stat]>>]

\* The reply is queued again by the caller.
SendReply_Twice(t, stat) ==
    /\ tasks' = tasks \ {t}
    /\ replies' = [replies EXCEPT ![t.conn] =
            IF Closed(t.conn) THEN @ ELSE @ \o [i \in 1..2 |-> [xid |-> t.head.xid, stat |-> stat]]]

\* A task ends and queues its reply; the receiver is gone with the connection.
SendReply(t, stat) ==
    /\ tasks' = tasks \ {t}
    /\ replies' = [replies EXCEPT ![t.conn] =
            IF Closed(t.conn) THEN @ ELSE Append(@, [xid |-> t.head.xid, stat |-> stat])]

\* What the tracker knows a task's request by.
Key(t) == <<addr[t.conn], t.head.xid>>

\* A transaction that is done may have been forgotten since: its retention
\* period has ended, a trim took it, or the cleaner took its address.
Forgotten(k) == IF tracker[k] = "done" THEN BOOLEAN ELSE {FALSE}

\* lock_transaction: what the tracker says of the request.
LockTransaction_Always(k, forgotten) == "locked"

LockTransaction(k, forgotten) ==
    IF tracker[k] # "none" /\ ~forgotten THEN "AlreadyExists"
    ELSE IF Cardinality({x \in Xids : tracker[<<k[1], x>>] = "running"}) >= MaxActive
         THEN "TooManyRequests" ELSE "locked"

\* The request is locked, to be executed or to be answered with an error.
Admit(t, call) ==
    IF Dispatch(call) = "SUCCESS"
    THEN tracker' = [tracker EXCEPT ![Key(t)] = "running"] /\ Move(t, "running")
    ELSE tracker' = [tracker EXCEPT ![Key(t)] = "done"] /\ SendReply(t, Dispatch(call))

\* handle_rpc_message up to the call of the handler.  A retransmission is
\* dropped without an answer.
HandleRpcMessage(t) ==
    /\ t.pc = "spawned"
    /\ \E call \in Decoded(t), forgotten \in Forgotten(Key(t)) :
        LET k == Key(t)
            locked == LockTransaction(k, forgotten)
        IN
        IF Screen(call) # "lock"
        THEN SendReply(t, Screen(call)) /\ UNCHANGED <<tracker, runs>>
        ELSE CASE locked = "AlreadyExists" ->
                    tasks' = tasks \ {t} /\ UNCHANGED <<tracker, replies, runs>>
               [] locked = "TooManyRequests" ->
                    SendReply(t, "SYSTEM_ERR") /\ UNCHANGED <<tracker, runs>>
               [] OTHER ->
                    /\ Admit(t, call)
                    /\ runs' = [runs EXCEPT ![k] = IF forgotten THEN 0 ELSE @]
    /\ UNCHANGED <<client, calls, outcome, c2s, s2c, server, pipe, fragment, signals,
                   executed, panicked, addr, seen, torn>>

\* The end of handle_rpc_message, which drops the lock, and of the task.
Complete(t) ==
    /\ SendReply(t, "SUCCESS")
    /\ tracker' = [tracker EXCEPT ![Key(t)] = "done"]

RunHandler(t) ==
    /\ t.pc = "running"
    /\ executed' = executed \cup {[conn |-> t.conn, head |-> t.head, tail |-> t.tail]}
    /\ runs' = [runs EXCEPT ![Key(t)] = @ + 1]
    /\ IF Signals(calls[t.head.xid]) THEN Move(t, "signal") /\ UNCHANGED tracker
                                     ELSE Complete(t)
    /\ UNCHANGED <<client, calls, outcome, c2s, s2c, server, pipe, fragment, signals, panicked,
                   addr, seen, torn>>

\* A handler panics (a poisoned lock, a slice out of bounds): the lock is dropped
\* with the task, nothing is sent, and nobody else takes notice.
Panic(t) ==
    /\ t.pc = "running"
    /\ runs' = [runs EXCEPT ![Key(t)] = @ + 1]
    /\ tracker' = [tracker EXCEPT ![Key(t)] = "done"]
    /\ tasks' = tasks \ {t}
    /\ panicked' = panicked \cup {t.head.xid}
    /\ UNCHANGED <<client, calls, outcome, c2s, s2c, server, pipe, fragment, replies, signals,
                   executed, addr, seen, torn>>

\* MNT, UMNT and UMNTALL wait for room in the listener's channel.
SendSignal(t) ==
    /\ t.pc = "signal" /\ signals < SignalRoom
    /\ signals' = signals + 1
    /\ Complete(t)
    /\ UNCHANGED <<client, calls, outcome, c2s, s2c, server, pipe, fragment, executed, runs,
                   panicked, addr, seen, torn>>

TaskStep(t) == HandleRpcMessage(t) \/ RunHandler(t) \/ Panic(t) \/ SendSignal(t)

\* External: the application takes a signal from its mount listener.
Listen ==
    /\ signals > 0
    /\ signals' = signals - 1
    /\ UNCHANGED <<client, calls, outcome, c2s, s2c, server, pipe, fragment, tasks, replies,
                   tracker, executed, runs, panicked, addr, seen, torn>>

Next ==
    \/ \E b \in Bodies : Call(b)
    \/ ClientStep \/ Cancel \/ Reconnect
    \/ \E c \in Conns : ProcessSocket(c) \/ ReadMessage(c)
    \/ \E t \in tasks : TaskStep(t)
    \/ Listen

\* Tokio polls what is ready, and the client's executor polls its call; nobody
\* is bound to call, to cancel, to leave or to listen.
Fairness ==
    /\ WF_vars(ClientStep)
    /\ \A c \in Conns : WF_vars(ProcessSocket(c)) /\ WF_vars(ReadMessage(c))
    /\ WF_vars(\E t \in tasks : TaskStep(t))

Spec == Init /\ [][Next]_vars
FairSpec == Spec /\ Fairness

-----------------------------------------------------------------------------
\* A call that returns Ok was executed on the server with its own arguments,
\* all of them, whatever was cancelled, torn or repeated before.
AcceptedIsOwn ==
    \A x \in Xids : outcome[x] = "Ok" =>
        \E e \in executed : e.head.xid = x /\ Intact(e)

\* A request that one address repeats is executed once, by one task, as long as
\* the tracker has not forgotten it, whichever connection it comes on, while the
\* first is still executed, has been answered, or panicked.  After it was
\* forgotten, or from another port, it is executed again.
AtMostOnce == \A k \in Keys : runs[k] <= 1

\* Without a cancelled call before it, no call meets the reply to another or
\* half of one, and no handler runs with the arguments of two calls.
CancelledBefore(x) == \E y \in 1..(x - 1) : outcome[y] = "Cancelled"

NoConfusionWithoutCancel ==
    /\ \A x \in Xids :
        outcome[x] \in {"UnexpectedXid", "Garbled", "Panic"} => CancelledBefore(x)
    /\ \A e \in executed : Intact(e) \/ torn

\* The writers of the two sides wait for each other (the client for the server
\* to read, the server for the client to read) only when the client has
\* cancelled an earlier call, and so left a reply unread.
BothWritersBlocked(c) ==
    /\ client.conn = c /\ client.pc = "sending" /\ Len(c2s[c]) = SocketRoom
    /\ server[c].pc = "replying" /\ Len(s2c[c]) = SocketRoom

BlockedOnlyByAbandoned ==
    \A c \in Conns : BothWritersBlocked(c) => CancelledBefore(Cur)

\* While a connection is open on both sides, the reply to every request that
\* was executed for it is on its way or has been read: nothing drops it.
Underway(c, x) ==
    \/ \E t \in tasks : t.conn = c /\ t.head.xid = x
    \/ \E i \in DOMAIN replies[c] : replies[c][i].xid = x
    \/ server[c].pc = "replying" /\ \E i \in DOMAIN server[c].out : server[c].out[i].xid = x
    \/ \E i \in DOMAIN s2c[c] : s2c[c][i].xid = x
    \/ x \in seen

NothingLostWhileOpen ==
    \A e \in executed : Closed(e.conn) \/ Gone(e.conn) \/ Underway(e.conn, e.head.xid)

\* A call that was sent whole on an undisturbed connection ends, with its reply,
\* with an error, or with the end of the connection, unless its handler panics:
\* then it waits for ever.  The application must keep making room in the channel
\* of its mount listener.
Undisturbed == ~torn /\ client.conn = 1

EveryCallEnds ==
    []<>(signals < SignalRoom) =>
        ((client.pc = "receiving" /\ Undisturbed)
            ~> (client.pc # "receiving" \/ ~Undisturbed \/ Cur \in panicked))
============================================================================
