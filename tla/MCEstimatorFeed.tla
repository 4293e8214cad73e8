--------------------------- MODULE MCEstimatorFeed --------------------------
(* Instances of EstimatorFeed for TLC: IMU streams and scan timings, with a *)
(* scan period of two ticks and an IMU period of one.                       *)
EXTENDS EstimatorFeed

\* A steady stream; one with repeated samples and single ones missing; some
\* of twelve ticks with a hole two samples wide, early or late in a scan.
Steady == [i \in 1 .. 14 |-> i]
Uneven == <<1, 2, 2, 4, 5, 7, 8, 8, 10, 11, 13, 14, 14>>
Whole == {Steady}
Sweeps == {Steady, Uneven}
Without(missing) == SelectSeq([i \in 1 .. 12 |-> i], LAMBDA t : t \notin missing)
Holed == {Without({a, a + 1}) : a \in {3, 5, 6, 8, 10}} \cup {Without({})}

\* A sweep starts where the last scan ended, or a tick later; a snapshot comes a
\* period after the last scan.
Contiguous == {0}
Jittered == {0, 1}
Mixed == {0, 2}

Sweep == {2}
Either == {0, 2}

Yes == {TRUE}
YesNo == BOOLEAN
=============================================================================
