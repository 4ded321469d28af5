-------------------------- MODULE MCRpcConnection --------------------------
(* The calls of the runs of RpcConnection: one for each way through the    *)
(* dispatch that the connection can tell from the others.                  *)
EXTENDS RpcConnection

Plain ==
    [kind |-> "CALL", rpcvers |-> 2, cred |-> "AUTH_UNIX", prog |-> "NFS", vers |-> "right",
     proc |-> ProcNumber(NFS_PROGRAM, "WRITE"), args |-> "good"]

Mount ==
    [Plain EXCEPT !.prog = "MOUNT", !.proc = ProcNumber(MOUNT_PROGRAM, "MNT")]

\* A call that is executed and signals, one that is executed or answered with
\* an error only, and one that ends the connection.
MCBodies == {Mount, Plain, [Plain EXCEPT !.cred = "bad"]}
============================================================================
