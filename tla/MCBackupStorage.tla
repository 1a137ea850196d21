-------------------------- MODULE MCBackupStorage --------------------------
(***************************************************************************)
(* BackupStorage for TLC.  Three callers: two writers and a deleter meet   *)
(* on one path of a subdirectory, a file in the root lets its directory's  *)
(* entry become durable, a file of MaxFileBytes + 2 blocks is too large, a *)
(* path with ".." is refused.                                              *)
(***************************************************************************)
EXTENDS BackupStorage, TLC

nested == <<"switch", "a">>

MCRequests ==
    {[kind |-> "Put", path |-> nested, content |-> "x", size |-> 2],
     [kind |-> "Put", path |-> nested, content |-> "y", size |-> 1],
     [kind |-> "Put", path |-> <<"b">>, content |-> "x", size |-> 4],
     [kind |-> "Put", path |-> <<"b">>, content |-> "x", size |-> 1],
     [kind |-> "Put", path |-> <<"..", "b">>, content |-> "x", size |-> 1],
     [kind |-> "Open", path |-> nested, content |-> "x", size |-> 2],
     [kind |-> "Delete", path |-> nested],
     [kind |-> "CheckReady"]}

Symmetry == Permutations(Clients)
=============================================================================
