---------------------------- MODULE MCFifoBuild ----------------------------
(***************************************************************************)
(* FifoBuild with one or two directories, a loop in the inner one, and one *)
(* or two Vims.  Each name and each process refers to one inode at most,   *)
(* so |Dirs| + |Readers| + |Writers| inodes suffice.                       *)
(***************************************************************************)
EXTENDS FifoBuild

OneDir  == 1 .. 1
TwoDirs == 1 .. 2
FourInodes == 1 .. 4
FiveInodes == 1 .. 5
=============================================================================
