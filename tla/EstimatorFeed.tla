----------------------------- MODULE EstimatorFeed ---------------------------
(***************************************************************************)
(* The estimator in isolation: scans come to it one after the other, each  *)
(* with the IMU that MeasureSync and the worker's queue give it -- from    *)
(* the bracket of the previous scan's start, or of the first dropped one's *)
(* predecessor, to the first sample past the guarded end -- over streams   *)
(* of IMU stamps and timings of scans chosen freely.  (GlassLio has the    *)
(* node feed it instead.)                                                  *)
(***************************************************************************)
EXTENDS LioEstimator

CONSTANTS
  Guard,         \* scan_guard_sec
  Streams,       \* the IMU streams: sequences of stamps
  Headers,       \* a scan's header stamp after the last one's end
  Spans,         \* the span of a scan's points
  MaxUnusable,   \* bound on the scans without points, in a row
  EmptyAnywhere, \* may a scan without points follow a dropped scan, or a pause?
  MaxRuns        \* bound on the runs of a behaviour

ASSUME FeedAssumption ==
  /\ Guard \in Nat /\ Headers \subseteq Nat /\ Spans \subseteq Nat
  /\ \A s \in Streams : /\ s \in Seq(Nat \ {0}) /\ s # <<>>
                       /\ \A i, j \in DOMAIN s : i <= j => s[i] <= s[j]
  /\ EmptyAnywhere \in BOOLEAN /\ MaxUnusable \in Nat /\ MaxRuns \in Nat

VARIABLES
  run, ready,       \* the current run; has initialize() been called in it
  stream,           \* the IMU stamps of this run
  lastEnd, from,    \* end of the last scan released; where its successor's
                    \* IMU begins
  inherits,         \* will the next group inherit a dropped one's IMU?
  unusable          \* scans without points in a row

feedVars == <<run, ready, stream, lastEnd, from, inherits, unusable>>
vars == <<feedVars, estVars>>

Sync == INSTANCE MeasureSync WITH ScanGuard <- Guard, RestartJump <- 0

Init ==
  /\ EstimatorInit
  /\ run = 1 /\ ready = FALSE /\ stream \in Streams
  /\ lastEnd = NoTime /\ from = NoTime /\ inherits = FALSE /\ unusable = 0

\* The source restarted.
Restart ==
  /\ ready /\ run < MaxRuns
  /\ EstimatorReset
  /\ run' = run + 1 /\ ready' = FALSE
  /\ stream' \in Streams /\ lastEnd' = NoTime /\ from' = NoTime
  /\ inherits' = FALSE /\ unusable' = 0

Start ==
  /\ ~ready
  /\ Initialize(run)
  /\ ready' = TRUE
  /\ UNCHANGED <<run, stream, lastEnd, from, inherits, unusable>>

Covered(header) == Head(stream) <= header /\ header + Guard <= Sync!Back(stream)

\* Mutant of GroupImu: the copy stops before the sample past the guarded end.
GroupImuShort(header) ==
  SubSeq(stream, IF from = NoTime THEN 1 ELSE Sync!FirstAt(stream, from + 1) - 1,
         Sync!FirstAt(stream, header + Guard) - 1)

GroupImu(header) ==
  SubSeq(stream, IF from = NoTime THEN 1 ELSE Sync!FirstAt(stream, from + 1) - 1,
         Sync!FirstAt(stream, header + Guard))

\* The soonest a scan may start.
Soonest == IF lastEnd = NoTime THEN Head(stream) ELSE lastEnd

\* A scan without points takes with it the IMU that its group is the last to
\* hold: none, if it follows a processed scan at once.
MayBeEmpty(header) ==
  unusable < MaxUnusable /\ (EmptyAnywhere \/ (~inherits /\ header = Soonest))

\* The scans that may come next, each with the IMU of its group.
Deliverable ==
  {[run |-> run, header |-> h, span |-> d, points |-> p, imu |-> GroupImu(h)] :
     h \in {h \in {Soonest + late : late \in Headers} : Covered(h)},
     d \in Spans, p \in BOOLEAN}

\* The worker is behind: a scan is dropped, the next group inherits its IMU.
DropScan(g) ==
  /\ ready /\ g.points
  /\ lastEnd' = ScanEnd(g)
  /\ from' = IF from = NoTime THEN Head(stream) ELSE from
  /\ inherits' = TRUE
  /\ UNCHANGED <<run, ready, stream, unusable, estVars>>

DeliverScan(g) ==
  /\ ready
  /\ g.points \/ MayBeEmpty(g.header)
  /\ ProcessScan(g)
  /\ lastEnd' = ScanEnd(g) /\ from' = g.header /\ inherits' = FALSE
  /\ unusable' = IF g.points THEN 0 ELSE unusable + 1
  /\ UNCHANGED <<run, ready, stream>>

Next ==
  \/ Restart \/ Start
  \/ \E g \in Deliverable : DropScan(g) \/ DeliverScan(g)

Spec == Init /\ [][Next]_vars
=============================================================================
