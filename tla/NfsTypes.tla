------------------------------ MODULE NfsTypes ------------------------------
(***************************************************************************)
(* The messages of nfs3_types: the layout of every argument and result of  *)
(* the NFSv3, MOUNT and port mapper protocols and of the RPC header, in    *)
(* the order the fields are declared.  A newtype is its only field.        *)
(***************************************************************************)
EXTENDS XdrCodec, TLC

Nfs3Option(T) == Union(1 :> T @@ 0 :> Void)

nfsstat3 ==
    {0, 1, 2, 5, 6, 13, 17, 18, 19, 20, 21, 22, 27, 28, 30, 31, 63, 66, 69, 70, 71} \cup 10001..10008

\* NFS3_OK is followed by the result, any other status by what a failure has.
Nfs3Result(T, E) == Union([stat \in nfsstat3 |-> IF stat = 0 THEN T ELSE E])

nfs_fh3 == Struct(<<Opaque>>)
filename3 == Opaque
nfspath3 == Opaque
cookieverf3 == Bytes(8)
createverf3 == Bytes(8)
writeverf3 == Bytes(8)
ftype3 == Enum(1..7)
stable_how == Enum(0..2)
nfstime3 == Struct(<<U32, U32>>)
specdata3 == Struct(<<U32, U32>>)
fattr3 ==
    Struct(<<ftype3, U32, U32, U32, U32, U64, U64, specdata3, U64, U64, nfstime3, nfstime3, nfstime3>>)
post_op_attr == Nfs3Option(fattr3)
post_op_fh3 == Nfs3Option(nfs_fh3)
wcc_attr == Struct(<<U64, nfstime3, nfstime3>>)
wcc_data == Struct(<<Nfs3Option(wcc_attr), post_op_attr>>)
set_atime == Union(0 :> Void @@ 1 :> Void @@ 2 :> nfstime3)
set_mtime == Union(0 :> Void @@ 1 :> Void @@ 2 :> nfstime3)
sattr3 ==
    Struct(<<Nfs3Option(U32), Nfs3Option(U32), Nfs3Option(U32), Nfs3Option(U64), set_atime, set_mtime>>)
diropargs3 == Struct(<<nfs_fh3, filename3>>)
createhow3 == Union(0 :> sattr3 @@ 1 :> sattr3 @@ 2 :> createverf3)
devicedata3 == Struct(<<sattr3, specdata3>>)
mknoddata3 == LaxUnion(4 :> devicedata3 @@ 3 :> devicedata3 @@ 6 :> sattr3 @@ 7 :> sattr3)
symlinkdata3 == Struct(<<sattr3, nfspath3>>)
entry3 == Struct(<<U64, filename3, U64>>)
entryplus3 == Struct(<<U64, filename3, U64, post_op_attr, post_op_fh3>>)
dirlist3 == Struct(<<List(entry3), Bool>>)
dirlistplus3 == Struct(<<List(entryplus3), Bool>>)

-----------------------------------------------------------------------------
(* Arguments and results of the procedures.                                *)

MadeObject == Nfs3Result(Struct(<<post_op_fh3, post_op_attr, wcc_data>>), Struct(<<wcc_data>>))

ACCESS3args == Struct(<<nfs_fh3, U32>>)
ACCESS3res == Nfs3Result(Struct(<<post_op_attr, U32>>), Struct(<<post_op_attr>>))
COMMIT3args == Struct(<<nfs_fh3, U64, U32>>)
COMMIT3res == Nfs3Result(Struct(<<wcc_data, writeverf3>>), Struct(<<wcc_data>>))
CREATE3args == Struct(<<diropargs3, createhow3>>)
CREATE3res == MadeObject
FSINFO3args == Struct(<<nfs_fh3>>)
FSINFO3res ==
    Nfs3Result(Struct(<<post_op_attr, U32, U32, U32, U32, U32, U32, U32, U64, nfstime3, U32>>),
               Struct(<<post_op_attr>>))
FSSTAT3args == Struct(<<nfs_fh3>>)
FSSTAT3res ==
    Nfs3Result(Struct(<<post_op_attr, U64, U64, U64, U64, U64, U64, U32>>), Struct(<<post_op_attr>>))
GETATTR3args == Struct(<<nfs_fh3>>)
GETATTR3res == Nfs3Result(Struct(<<fattr3>>), Void)
LINK3args == Struct(<<nfs_fh3, diropargs3>>)
LINK3res == Nfs3Result(Struct(<<post_op_attr, wcc_data>>), Struct(<<post_op_attr, wcc_data>>))
LOOKUP3args == Struct(<<diropargs3>>)
LOOKUP3res == Nfs3Result(Struct(<<nfs_fh3, post_op_attr, post_op_attr>>), Struct(<<post_op_attr>>))
MKDIR3args == Struct(<<diropargs3, sattr3>>)
MKDIR3res == MadeObject
MKNOD3args == Struct(<<diropargs3, mknoddata3>>)
MKNOD3res == MadeObject
PATHCONF3args == Struct(<<nfs_fh3>>)
PATHCONF3res ==
    Nfs3Result(Struct(<<post_op_attr, U32, U32, Bool, Bool, Bool, Bool>>), Struct(<<post_op_attr>>))
READ3args == Struct(<<nfs_fh3, U64, U32>>)
READ3res == Nfs3Result(Struct(<<post_op_attr, U32, Bool, Opaque>>), Struct(<<post_op_attr>>))
READDIR3args == Struct(<<nfs_fh3, U64, cookieverf3, U32>>)
READDIR3resok == Struct(<<post_op_attr, cookieverf3, dirlist3>>)
READDIR3res == Nfs3Result(READDIR3resok, Struct(<<post_op_attr>>))
READDIRPLUS3args == Struct(<<nfs_fh3, U64, cookieverf3, U32, U32>>)
READDIRPLUS3resok == Struct(<<post_op_attr, cookieverf3, dirlistplus3>>)
READDIRPLUS3res == Nfs3Result(READDIRPLUS3resok, Struct(<<post_op_attr>>))
READLINK3args == Struct(<<nfs_fh3>>)
READLINK3res == Nfs3Result(Struct(<<post_op_attr, nfspath3>>), Struct(<<post_op_attr>>))
REMOVE3args == Struct(<<diropargs3>>)
REMOVE3res == Nfs3Result(Struct(<<wcc_data>>), Struct(<<wcc_data>>))
RENAME3args == Struct(<<diropargs3, diropargs3>>)
RENAME3res == Nfs3Result(Struct(<<wcc_data, wcc_data>>), Struct(<<wcc_data, wcc_data>>))
RMDIR3args == Struct(<<diropargs3>>)
RMDIR3res == Nfs3Result(Struct(<<wcc_data>>), Struct(<<wcc_data>>))
SETATTR3args == Struct(<<nfs_fh3, sattr3, Nfs3Option(nfstime3)>>)
SETATTR3res == Nfs3Result(Struct(<<wcc_data>>), Struct(<<wcc_data>>))
SYMLINK3args == Struct(<<diropargs3, symlinkdata3>>)
SYMLINK3res == MadeObject
WRITE3args == Struct(<<nfs_fh3, U64, U32, stable_how, Opaque>>)
WRITE3res == Nfs3Result(Struct(<<wcc_data, U32, stable_how, writeverf3>>), Struct(<<wcc_data>>))

-----------------------------------------------------------------------------
(* The port mapper and the mount protocol.                                 *)

mapping == Struct(<<U32, U32, U32, U32>>)
call_args == Struct(<<U32, U32, U32, Opaque>>)
call_result == Struct(<<U32, Opaque>>)

dirpath == Opaque
name == Opaque
mountres3_ok == Struct(<<Opaque, VecU32>>)
mountres3 ==
    Union([stat \in {0, 1, 2, 5, 13, 20, 22, 63, 10004, 10006} |-> IF stat = 0 THEN mountres3_ok ELSE Void])
mountbody == Struct(<<name, dirpath>>)
export_node == Struct(<<dirpath, List(name)>>)

-----------------------------------------------------------------------------
(* The RPC message around them.                                            *)

auth_unix == Struct(<<U32, Opaque, U32, U32, VecU32>>)
opaque_auth == Struct(<<Enum(0..3), Opaque>>)
call_body == Struct(<<U32, U32, U32, U32, opaque_auth, opaque_auth>>)
accept_stat_data == Union([stat \in 0..5 |-> IF stat = 2 THEN Struct(<<U32, U32>>) ELSE Void])
rejected_reply == Union(0 :> Struct(<<U32, U32>>) @@ 1 :> Enum(0..7))
reply_body == Union(0 :> Struct(<<opaque_auth, accept_stat_data>>) @@ 1 :> rejected_reply)
msg_body == Union(0 :> call_body @@ 1 :> reply_body)
rpc_msg == Struct(<<U32, msg_body>>)

\* What a message of either end consists of, by the name of its type.
Layout ==
    [ACCESS3args |-> ACCESS3args, ACCESS3res |-> ACCESS3res, COMMIT3args |-> COMMIT3args,
     COMMIT3res |-> COMMIT3res, CREATE3args |-> CREATE3args, CREATE3res |-> CREATE3res,
     FSINFO3args |-> FSINFO3args, FSINFO3res |-> FSINFO3res, FSSTAT3args |-> FSSTAT3args,
     FSSTAT3res |-> FSSTAT3res, GETATTR3args |-> GETATTR3args, GETATTR3res |-> GETATTR3res,
     LINK3args |-> LINK3args, LINK3res |-> LINK3res, LOOKUP3args |-> LOOKUP3args,
     LOOKUP3res |-> LOOKUP3res, MKDIR3args |-> MKDIR3args, MKDIR3res |-> MKDIR3res,
     MKNOD3args |-> MKNOD3args, MKNOD3res |-> MKNOD3res, PATHCONF3args |-> PATHCONF3args,
     PATHCONF3res |-> PATHCONF3res, READ3args |-> READ3args, READ3res |-> READ3res,
     READDIR3args |-> READDIR3args, READDIR3res |-> READDIR3res, READDIRPLUS3args |-> READDIRPLUS3args,
     READDIRPLUS3res |-> READDIRPLUS3res, READLINK3args |-> READLINK3args,
     READLINK3res |-> READLINK3res, REMOVE3args |-> REMOVE3args, REMOVE3res |-> REMOVE3res,
     RENAME3args |-> RENAME3args, RENAME3res |-> RENAME3res, RMDIR3args |-> RMDIR3args,
     RMDIR3res |-> RMDIR3res, SETATTR3args |-> SETATTR3args, SETATTR3res |-> SETATTR3res,
     SYMLINK3args |-> SYMLINK3args, SYMLINK3res |-> SYMLINK3res, WRITE3args |-> WRITE3args,
     WRITE3res |-> WRITE3res, mapping |-> mapping, call_args |-> call_args, call_result |-> call_result,
     dirpath |-> dirpath, mountres3 |-> mountres3, auth_unix |-> auth_unix, rpc_msg |-> rpc_msg,
     pmaplist |-> List(mapping), mountlist |-> List(mountbody), exports |-> List(export_node)]

\* The record mark: the topmost bit says that the fragment is the last one.
EOF_FLAG == ByteBase^4 \div 2
fragment_header(length, eof) == length + (IF eof THEN EOF_FLAG ELSE 0)
fragment_eof(header) == header >= EOF_FLAG
fragment_length(header) == header % EOF_FLAG
============================================================================
