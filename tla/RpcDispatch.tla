---------------------------- MODULE RpcDispatch ----------------------------
(***************************************************************************)
(* How nfs3_server answers one complete RPC message: IncomingRpcMessage::  *)
(* try_from, handle_rpc_message and the dispatch of handle_portmap,        *)
(* handle_mount and handle_nfs.  The transaction tracker stands between    *)
(* the two halves, so they are two operators: Screen (before it) and       *)
(* Dispatch (after it).                                                    *)
(***************************************************************************)
EXTENDS Integers

\* The procedures of the programs the server knows, by number.
PMAP_PROG ==
    [n \in 0..5 |-> <<"NULL", "SET", "UNSET", "GETPORT", "DUMP", "CALLIT">>[n + 1]]

MOUNT_PROGRAM ==
    [n \in 0..5 |-> <<"NULL", "MNT", "DUMP", "UMNT", "UMNTALL", "EXPORT">>[n + 1]]

NFS_PROGRAM ==
    [n \in 0..21 |->
        <<"NULL", "GETATTR", "SETATTR", "LOOKUP", "ACCESS", "READLINK", "READ", "WRITE",
          "CREATE", "MKDIR", "SYMLINK", "MKNOD", "REMOVE", "RMDIR", "RENAME", "LINK",
          "READDIR", "READDIRPLUS", "FSSTAT", "FSINFO", "PATHCONF", "COMMIT">>[n + 1]]

\* What the client's wrappers ask for: the number of a procedure.
ProcNumber(prog, name) == CHOOSE n \in DOMAIN prog : prog[n] = name

\* A call as far as the dispatch tells calls apart.  kind: "garbled" bytes do
\* not unpack as an rpc_msg, which is also what happens to a credential of an
\* unknown flavor.  cred: "bad" is AUTH_UNIX with a body that does not unpack.
\* args: "garbage" does not unpack, or has bytes left over; for MNT and UMNT,
\* "foreign" is a path outside the export or without an object, "binary" one
\* that is not UTF-8.
CallBody ==
    [kind : {"CALL", "REPLY", "garbled"}, rpcvers : {2, 3},
     cred : {"AUTH_NULL", "AUTH_UNIX", "bad"},
     prog : {"PORTMAP", "MOUNT", "NFS", "NFS_ACL", "unknown"},
     vers : {"right", "wrong"}, proc : 0..22,
     args : {"good", "garbage", "foreign", "binary"}]

\* Before the tracker is asked: an error, which ends the connection, an
\* answer, or on to the tracker.
Screen(call) ==
    IF call.kind # "CALL" THEN "Err"
    ELSE IF call.rpcvers # 2 THEN "RPC_MISMATCH"
    ELSE IF call.cred = "bad" THEN "Err"
    ELSE "lock"

\* The procedures a program implements.
Implemented(call) ==
    CASE call.prog = "PORTMAP" ->
            {n \in DOMAIN PMAP_PROG : PMAP_PROG[n] \in {"NULL", "GETPORT"}}
      [] call.prog = "MOUNT" ->
            {n \in DOMAIN MOUNT_PROGRAM : MOUNT_PROGRAM[n] # "DUMP"}
      [] call.prog = "NFS" ->
            {n \in DOMAIN NFS_PROGRAM : NFS_PROGRAM[n] \notin {"MKNOD", "LINK", "COMMIT"}}

\* With the transaction locked: SUCCESS means that the handler is called.
Dispatch(call) ==
    IF call.prog \notin {"PORTMAP", "MOUNT", "NFS"} THEN "PROG_UNAVAIL"
    ELSE IF call.vers # "right" THEN "PROG_MISMATCH"
    ELSE IF call.proc \notin Implemented(call) THEN "PROC_UNAVAIL"
    ELSE IF call.args = "garbage" THEN "GARBAGE_ARGS"
    ELSE "SUCCESS"

\* The handlers that tell the mount listener, if there is one.
Signals(call) ==
    /\ call.prog = "MOUNT"
    /\ \/ MOUNT_PROGRAM[call.proc] = "MNT" /\ call.args = "good"
       \/ MOUNT_PROGRAM[call.proc] = "UMNT" /\ call.args # "binary"
       \/ MOUNT_PROGRAM[call.proc] = "UMNTALL"

\* What RpcClient::recv_reply makes of an answer to its own call.
ClientResult(stat) ==
    CASE stat = "SUCCESS"       -> "Ok"
      [] stat = "RPC_MISMATCH"  -> "RpcMismatch"
      [] stat = "PROG_UNAVAIL"  -> "ProgUnavail"
      [] stat = "PROG_MISMATCH" -> "ProgMismatch"
      [] stat = "PROC_UNAVAIL"  -> "ProcUnavail"
      [] stat = "GARBAGE_ARGS"  -> "GarbageArgs"
      [] stat = "SYSTEM_ERR"    -> "SystemErr"

Stats == {"SUCCESS", "RPC_MISMATCH", "PROG_UNAVAIL", "PROG_MISMATCH", "PROC_UNAVAIL",
          "GARBAGE_ARGS", "SYSTEM_ERR"}
============================================================================
