------------------------------- MODULE MCDrive -------------------------------
(* Bounds for TLC: the number of objects made for one ID. *)
EXTENDS DriveTree, TLC

CONSTANTS d1, d2, f1

MCDirs     == {d1, d2}
MCFiles    == {f1}
MCSymmetry == Permutations(MCDirs)

=============================================================================
