--------------------------- MODULE MCTightReplay ----------------------------
(* Instances of TightReplay for TLC: recordings whose stamps move forward. *)
EXTENDS TightReplay

RecordedStamps == 0 .. 5
ForwardSteps == {0, 1, 2}
=============================================================================
