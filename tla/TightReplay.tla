----------------------------- MODULE TightReplay -----------------------------
(***************************************************************************)
(* The offline driver (src/tight_replay.cpp): one thread reads a recording *)
(* in its order, initialises the IMU, feeds MeasureSync, and drains it     *)
(* into the estimator after every message.  It has no watchdog and no      *)
(* queue.  Each topic's stamps move forward in the recording; how the two  *)
(* topics interleave in it is free.                                        *)
(***************************************************************************)
EXTENDS MeasureSync

CONSTANTS
  Stamps,       \* the stamps of the recorded messages
  Steps,        \* how far a topic's stamp moves from one message to the next
  MaxMessages   \* bound on the messages of a recording

ASSUME ReplayAssumption ==
  Stamps \subseteq Nat /\ Steps \subseteq Nat /\ MaxMessages \in Nat

VARIABLES
  messages,      \* messages read so far
  source,        \* the stamp of each topic's latest message
  pc,            \* reading, in drain(), or past the end
  inited,        \* inited
  sync,          \* sync
  meas,          \* the group last processed by the estimator
  imu, scans,    \* the stamps of all that was pushed into sync
  last           \* how many of the scans have left it up to the one processed

recording == <<messages, source>>
history == <<imu, scans, last>>
vars == <<recording, pc, inited, sync, meas, history>>

Init ==
  /\ messages = 0 /\ source = [imu |-> NoStamp, lidar |-> NoStamp]
  /\ pc = "read" /\ inited = FALSE
  /\ sync = Cleared /\ meas = [scan |-> -1, imu |-> <<>>]
  /\ imu = <<>> /\ scans = <<>> /\ last = 0

Read(kind, t) ==
  /\ pc = "read" /\ messages < MaxMessages
  /\ source[kind] # NoStamp => t - source[kind] \in Steps
  /\ messages' = messages + 1
  /\ source' = [source EXCEPT ![kind] = t]

\* init.add() may accept the window; no sample of it is pushed.
InitSample(t) ==
  /\ Read("imu", t) /\ ~inited
  /\ inited' \in BOOLEAN
  /\ UNCHANGED <<pc, sync, meas, history>>

ImuMessage(t) ==
  /\ Read("imu", t) /\ inited
  /\ sync' = PushedImu(sync, t) /\ imu' = Append(imu, t)
  /\ pc' = "drain"
  /\ UNCHANGED <<inited, meas, scans, last>>

IgnoredScan(t) ==
  /\ Read("lidar", t) /\ ~inited
  /\ UNCHANGED <<pc, inited, sync, meas, history>>

LidarMessage(t) ==
  /\ Read("lidar", t) /\ inited
  /\ sync' = PushedLidar(sync, [stamp |-> t]) /\ scans' = Append(scans, t)
  /\ pc' = "drain"
  /\ UNCHANGED <<inited, meas, imu, last>>

\* drain(): a round of the loop, on what next() answers.
Process ==
  /\ pc = "drain" /\ Releases(sync)
  /\ meas' = [scan |-> ScanStamp(sync), imu |-> Group(sync).imu]
  /\ sync' = Released(sync)
  /\ last' = Len(scans) - Len(sync'.lidar)
  /\ UNCHANGED <<recording, pc, inited, imu, scans>>

Drained ==
  /\ pc = "drain" /\ ~Releases(sync)
  /\ sync' = IF Discards(sync) THEN Discarded(sync) ELSE sync
  /\ pc' = "read"
  /\ UNCHANGED <<recording, inited, meas, history>>

\* The recording ends, wherever it ends; the verdict is not modelled.
End ==
  /\ pc = "read" /\ pc' = "end"
  /\ UNCHANGED <<recording, inited, sync, meas, history>>

Next ==
  \/ \E t \in Stamps :
       InitSample(t) \/ ImuMessage(t) \/ IgnoredScan(t) \/ LidarMessage(t)
  \/ Process \/ Drained \/ End

Spec == Init /\ [][Next]_vars
-----------------------------------------------------------------------------
(* Properties. *)

\* The buffers and the loop give the groups that the stamps of the two streams
\* define, however the recording interleaves them: a run is reproducible, and a
\* live node that keeps up processes the same groups (next(), drain()).
Stream == INSTANCE MeasureStream WITH Guard <- ScanGuard, group <- meas
Reproducible == Stream!Spec
=============================================================================
