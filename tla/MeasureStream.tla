---------------------------- MODULE MeasureStream ----------------------------
(***************************************************************************)
(* What stage [2] promises, told without buffers: the groups taken are a   *)
(* function of the stamps of the two streams, whatever order the messages  *)
(* of the one arrive in relative to those of the other.                    *)
(*                                                                         *)
(* The scan taken next is the first one, after those taken, that some IMU  *)
(* sample precedes.  Its IMU is every sample from the last one at or       *)
(* before the start of the scan taken before it, to the first one past its *)
(* own guarded end.                                                        *)
(***************************************************************************)
EXTENDS Integers, Sequences, FiniteSetsExt

CONSTANTS Stamps, Guard

VARIABLES
  imu, scans,   \* the stamps of all the samples and of all the scans, in order
  last,         \* the position of the last scan taken; 0 before that
  group         \* the last group taken

vars == <<imu, scans, last, group>>

Init == imu = <<>> /\ scans = <<>> /\ last = 0 /\ group = [scan |-> -1, imu |-> <<>>]

HearImu(t) == imu' = Append(imu, t) /\ UNCHANGED <<scans, last, group>>

HearScan(t) == scans' = Append(scans, t) /\ UNCHANGED <<imu, last, group>>

\* The bracket of the start t of a scan, and of its end.
Before(t) == Max({i \in DOMAIN imu : imu[i] <= t})
After(t) == Min({i \in DOMAIN imu : imu[i] >= t})

Usable(n) == imu # <<>> /\ imu[1] <= scans[n]

Take(n) ==
  /\ n \in last + 1 .. Len(scans) /\ Usable(n)
  /\ \A skipped \in last + 1 .. n - 1 : ~Usable(skipped)
  /\ \E i \in DOMAIN imu : imu[i] >= scans[n] + Guard
  /\ group' = [scan |-> scans[n],
               imu |-> SubSeq(imu, IF last = 0 THEN 1 ELSE Before(scans[last]),
                              After(scans[n] + Guard))]
  /\ last' = n
  /\ UNCHANGED <<imu, scans>>

Next == (\E t \in Stamps : HearImu(t) \/ HearScan(t)) \/ (\E n \in DOMAIN scans : Take(n))

Spec == Init /\ [][Next]_vars
=============================================================================
