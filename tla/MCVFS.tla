-------------------------------- MODULE MCVFS ---------------------------------
(* The finite instance of VFS for TLC.                                     *)
EXTENDS VFS

CONSTANTS t1, t2

AllCalls == {"open", "close", "seek", "read", "write", "create", "remove", "getfree",
             "mount", "unmount", "deinit"}

\* One of the threads makes every call, the other every call but mount.
MostCalls == [t \in Threads |-> IF t = t1 THEN AllCalls ELSE AllCalls \ {"mount"}]
=============================================================================
