----------------------------- MODULE MeasureSync -----------------------------
(***************************************************************************)
(* Stage [2] of the pipeline: the IMU and LiDAR buffers, the time-jump     *)
(* watchdog, and the release of a scan together with the IMU samples that  *)
(* bracket it (src/lio/sync.cpp).                                          *)
(*                                                                         *)
(* MeasureSync is a plain object that its owner calls under a mutex, so it *)
(* is modelled as a record and operators on it: each operator is the       *)
(* effect of one member function.  A stamp is a number of ticks; an IMU    *)
(* sample is its stamp; a scan is a record with a field stamp.             *)
(***************************************************************************)
EXTENDS Integers, Sequences

CONSTANTS
  ScanGuard,    \* scan_guard_sec: IMU required past a scan's header stamp
  RestartJump   \* kRestartJumpSec: a longer backwards jump is a restart

ASSUME SyncAssumption ==
  /\ ScanGuard \in Nat
  /\ RestartJump \in Nat

\* The initial last_imu_time_ and last_lidar_time_: no message seen yet.
NoStamp == -1

Cleared == [imu |-> <<>>, lidar |-> <<>>, lastImu |-> NoStamp, lastLidar |-> NoStamp]
-----------------------------------------------------------------------------
\* Mutant of Jump: a message that is late by a hair is let through.
JumpLenient(t, last) ==
  IF last - t > RestartJump /\ last >= 0 THEN "Restart" ELSE "None"

(* The watchdog: what a stamp t means after the stamp last. *)
Jump(t, last) ==
  IF last < 0 \/ t >= last THEN "None"
  ELSE IF last - t > RestartJump THEN "Restart"
  ELSE "OutOfOrder"

CheckedImu(s, t) ==
  LET j == Jump(t, s.lastImu) IN
    IF j = "OutOfOrder" THEN s
    ELSE [(IF j = "Restart" THEN Cleared ELSE s) EXCEPT !.lastImu = t]

CheckedLidar(s, t) ==
  LET j == Jump(t, s.lastLidar) IN
    IF j = "OutOfOrder" THEN s
    ELSE [(IF j = "Restart" THEN Cleared ELSE s) EXCEPT !.lastLidar = t]

PushedImu(s, t) == [s EXCEPT !.imu = Append(@, t)]

PushedLidar(s, scan) == [s EXCEPT !.lidar = Append(@, scan)]
-----------------------------------------------------------------------------
Back(q) == q[Len(q)]

\* The first position whose stamp is t or later; one past the end if none is.
FirstAt(q, t) ==
  CHOOSE i \in 1 .. Len(q) + 1 :
    /\ i <= Len(q) => q[i] >= t
    /\ \A j \in 1 .. i - 1 : q[j] < t

ScanStamp(s) == Head(s.lidar).stamp
GuardedEnd(s) == ScanStamp(s) + ScanGuard

\* next() discards the front scan: no IMU sample precedes it.
Discards(s) ==
  /\ s.lidar # <<>> /\ s.imu # <<>>
  /\ Head(s.imu) > ScanStamp(s)

\* next() releases the front scan: the IMU covers it on both sides.
Releases(s) ==
  /\ s.lidar # <<>> /\ s.imu # <<>>
  /\ Head(s.imu) <= ScanStamp(s)
  /\ Back(s.imu) >= GuardedEnd(s)

Discarded(s) == [s EXCEPT !.lidar = Tail(@)]

\* Mutant of Group: the copy stops before the bracket sample past the end.
GroupShort(s) ==
  [scan |-> Head(s.lidar), imu |-> SubSeq(s.imu, 1, FirstAt(s.imu, GuardedEnd(s)) - 1)]

\* The samples up to the first one past the end of the scan, that one included.
Group(s) ==
  [scan |-> Head(s.lidar), imu |-> SubSeq(s.imu, 1, FirstAt(s.imu, GuardedEnd(s)))]

\* Mutant of Released: what the group has consumed is dropped at once.
ReleasedEager(s) ==
  [s EXCEPT !.lidar = Tail(@),
            !.imu = SubSeq(@, FirstAt(@, GuardedEnd(s)), Len(@))]

\* What stays buffered: the last sample at or before this scan's start, and on.
Released(s) ==
  [s EXCEPT !.lidar = Tail(@),
            !.imu = SubSeq(@, FirstAt(@, ScanStamp(s) + 1) - 1, Len(@))]

\* The IMU of a dropped group goes in front of the next group's; the samples
\* both hold are kept once.  The samples past the last dropped one are a suffix,
\* since a group's samples are in time order.
MergeDroppedImu(dropped, next) ==
  IF dropped.imu = <<>> THEN next
  ELSE [next EXCEPT !.imu =
          dropped.imu \o SubSeq(@, FirstAt(@, Back(dropped.imu) + 1), Len(@))]
=============================================================================
