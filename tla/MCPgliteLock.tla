---------------------------- MODULE MCPgliteLock ----------------------------
(* Three processes or two, after others that have died; a removed directory *)
(* may come again with its inode number.                                    *)
EXTENDS PgliteLock, TLC

Symmetry == Permutations(Proc) \cup Permutations(Ino)
=============================================================================
