-------------------------------- MODULE Deskew -------------------------------
(***************************************************************************)
(* Stage [3] of the pipeline: the deskew (src/lio/deskew.cpp) and its gyro *)
(* integration (src/lio/gyr_int.cpp) -- when a scan starts and ends, from  *)
(* which instant the gyro is integrated and over which samples, whether a  *)
(* cloud comes out, and through which rotation each point is turned.       *)
(*                                                                         *)
(* A time is a number of ticks, from 1.  A group g is a scan with its IMU: *)
(* its header stamp, the span of its points' times (0 for a snapshot       *)
(* sensor, whose points carry none), whether it has points, and the        *)
(* sequence of its IMU stamps.  A rotation is the interval it was          *)
(* integrated over.                                                        *)
(***************************************************************************)
EXTENDS Integers, Sequences, FiniteSetsExt

CONSTANTS
  MaxAnchorGap,  \* kMaxAnchorGapSec
  MaxChainGap    \* the 1.0 s beyond which a scan does not chain to the last one

ASSUME DeskewAssumption == MaxAnchorGap \in Nat /\ MaxChainGap \in Nat

\* last_t1_ before the first scan.
NoTime == -1

\* A snapshot is acquired at its header stamp, a sweep up to its last point.
ScanStart(g) == g.header
ScanEnd(g) == g.header + g.span

\* The IMU reaches back to the previous scan's end, and that was not long ago.
Chains(g, prevEnd) ==
  /\ prevEnd > 0 /\ prevEnd <= ScanStart(g)
  /\ ScanStart(g) - prevEnd < MaxChainGap
  /\ Head(g.imu) <= prevEnd + MaxAnchorGap

\* Mutant of Anchor: the rotation of a dropped scan is missed.
AnchorAtStart(g, prevEnd) == ScanStart(g)

Anchor(g, prevEnd) == IF Chains(g, prevEnd) THEN prevEnd ELSE ScanStart(g)
-----------------------------------------------------------------------------
(* GyrInt. *)

\* The sample handed to GyrInt::reset(): the last one at or before t, or else
\* the first.
BracketOf(imu, t) == Max({1} \cup {i \in DOMAIN imu : \A j \in 2 .. i : imu[j] <= t})

\* The instants at which the rotation since the anchor is known: the anchor,
\* and each sample after the bracket, unless it is late or a duplicate.
Knots(imu, anchor) ==
  LET first == BracketOf(imu, anchor) + 1
      later == {i \in first .. Len(imu) :
                  imu[i] > anchor /\ \A j \in first .. i - 1 : imu[j] < imu[i]}
  IN IF first > Len(imu) THEN {} ELSE {anchor} \cup {imu[i] : i \in later}

\* rotationAt(t) reaches to t, but not beyond the knots.
RotationAt(knots, t) == Min({Max({t, Min(knots)}), Max(knots)})
-----------------------------------------------------------------------------
(* Deskew::process(). *)

GyroOf(g, prevEnd) == Knots(g.imu, Anchor(g, prevEnd))

\* A cloud comes out: there are points, and the integration is not empty.
Deskewable(g, prevEnd) == g.imu # <<>> /\ g.points /\ GyroOf(g, prevEnd) # {}

\* The rotation since the anchor at the scan's end.
DeltaRot(g, prevEnd) ==
  [from |-> Anchor(g, prevEnd), to |-> RotationAt(GyroOf(g, prevEnd), ScanEnd(g))]

\* A point taken at an instant is turned through the rotation from one instant
\* to another; the anchor cancels out.
Compensated(g, prevEnd) ==
  LET gyro == GyroOf(g, prevEnd)
  IN {[at |-> t, from |-> RotationAt(gyro, t), to |-> RotationAt(gyro, ScanEnd(g))] :
        t \in ScanStart(g) .. ScanEnd(g)}
=============================================================================
