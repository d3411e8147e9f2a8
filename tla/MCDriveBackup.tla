--------------------------- MODULE MCDriveBackup ---------------------------
(* DriveBackup for TLC: the slots and the sessions are interchangeable.     *)
EXTENDS DriveBackup, TLC

Symmetry == Permutations(Drains) \cup Permutations(Sessions)
=============================================================================
