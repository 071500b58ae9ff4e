--------------------------- MODULE MCSpeedTracker ---------------------------
(* Instances of SpeedTracker for TLC.                                       *)
EXTENDS SpeedTracker, TLC

ReaderSymmetry == Permutations(Readers)

=============================================================================
