----------------------------- MODULE GlassLioNode ----------------------------
(***************************************************************************)
(* The threading skeleton of the node (src/glasslio_node.cpp): the         *)
(* callbacks of the executor's thread, the worker thread that owns the     *)
(* estimator, and the hand-off between them -- a bounded queue and three   *)
(* flags under queue_mutex_, and a condition variable.                     *)
(*                                                                         *)
(* One step is one critical section of queue_mutex_ with the thread-local  *)
(* code around it.  A notify is a step of its own, because it comes after  *)
(* the unlock.  buf_mutex_ is taken first thing by each callback and held  *)
(* to its end: cb is the position of the callback that holds it.           *)
(*                                                                         *)
(* A world is one run of the data source: 1 at the start, one more at each *)
(* reset.  Worlds only label data (a scan, an init result, what the map is *)
(* made of); no guard reads them.                                          *)
(***************************************************************************)
EXTENDS MeasureSync, FiniteSets

CONSTANTS
  MaxQueue,      \* max_queue_: the worker queue's bound
  InitSamples,   \* init_samples_: the window of the IMU initialisation
  Stamps,        \* the stamps a message can carry
  Jumps,         \* how each topic's stamp may move from one message to the next
  MaxArrivals    \* bound on the messages that arrive in a behaviour

ASSUME NodeAssumption ==
  /\ MaxQueue \in Nat \ {0}
  /\ InitSamples \in Nat \ {0}
  /\ Stamps \subseteq Nat
  /\ Jumps \in [{"imu", "lidar"} -> SUBSET Int]
  /\ MaxArrivals \in Nat

VARIABLES
  ok,              \* rclcpp::ok()
  arrivals,        \* messages received so far (bounds the model)
  source,          \* the stamp of each topic's latest message
  cb, msg,         \* executor thread: position, message in hand
  sync,            \* sync_
  window,          \* samples in imu_init_'s window
  initialized,     \* imu_init_->initialized()
  queue, resetRequested, initPending, pendingSeed, stop,   \* the hand-off
  wpc, meas, seed, \* worker: position, its group, its copy of pendingSeed
  est,             \* estimator_: the world it was initialised for, and the
                   \* worlds its map holds scans of
  world,           \* the current world
  heard            \* stamps of the IMU samples buffered in this world

sourceVars == <<ok, arrivals, source>>
cbVars == <<cb, msg, sync, window, initialized, world, heard>>
handOff == <<queue, resetRequested, initPending, pendingSeed, stop>>
workerVars == <<meas, seed, est>>
vars == <<sourceVars, cbVars, handOff, wpc, workerVars>>

NoWorld == 0
Scan == [stamp : Stamps \cup {NoStamp}, world : Nat]
MeasureGroup == [scan : Scan, imu : Seq(Stamps)]
SyncState == [imu : Seq(Stamps), lidar : Seq(Scan),
              lastImu : Stamps \cup {NoStamp}, lastLidar : Stamps \cup {NoStamp}]
NoGroup == [scan |-> [stamp |-> NoStamp, world |-> NoWorld], imu |-> <<>>]
Blank == [seed |-> NoWorld, map |-> {}]

Init ==
  /\ ok = TRUE /\ arrivals = 0 /\ source = [imu |-> NoStamp, lidar |-> NoStamp]
  /\ cb = "idle" /\ msg = [kind |-> "imu", stamp |-> NoStamp]
  /\ sync = Cleared /\ window = 0 /\ initialized = FALSE
  /\ queue = <<>> /\ resetRequested = FALSE /\ stop = FALSE
  /\ initPending = FALSE /\ pendingSeed = NoWorld
  /\ wpc = "top" /\ meas = NoGroup /\ seed = NoWorld /\ est = Blank
  /\ world = 1 /\ heard = {}
-----------------------------------------------------------------------------
(* The executor's thread. *)

\* The executor dispatches a message of the topic kind.
Arrives(kind, t) ==
  /\ cb = "idle" /\ ok
  /\ arrivals < MaxArrivals
  /\ source[kind] # NoStamp => t - source[kind] \in Jumps[kind]
  /\ arrivals' = arrivals + 1
  /\ source' = [source EXCEPT ![kind] = t]
  /\ msg' = [kind |-> kind, stamp |-> t]
  /\ UNCHANGED ok

\* onTimeJump(): where the callback goes for each verdict of the watchdog.
Dispatch(jump) ==
  CASE jump = "None" -> "accept"
    [] jump = "Restart" -> "reset"
    [] jump = "OutOfOrder" -> "idle"

ImuMessage(t) ==
  /\ Arrives("imu", t)
  /\ sync' = CheckedImu(sync, t)
  /\ cb' = Dispatch(Jump(t, sync.lastImu))
  /\ UNCHANGED <<window, initialized, world, heard, handOff, wpc, workerVars>>

\* Before initialisation a scan is ignored, and not even its clock is watched.
LidarMessage(t) ==
  /\ Arrives("lidar", t)
  /\ IF initialized
       THEN /\ sync' = CheckedLidar(sync, t)
            /\ cb' = Dispatch(Jump(t, sync.lastLidar))
       ELSE UNCHANGED <<sync, cb>>
  /\ UNCHANGED <<window, initialized, world, heard, handOff, wpc, workerVars>>

\* Mutant of Reset: the queue keeps the scans of the old world.
ResetKeepsQueue ==
  /\ cb = "reset"
  /\ sync' = Cleared
  /\ window' = 0 /\ initialized' = FALSE
  /\ resetRequested' = TRUE
  /\ world' = world + 1 /\ heard' = {}
  /\ cb' = "notifyReset"
  /\ UNCHANGED <<sourceVars, msg, queue, initPending, pendingSeed, stop, wpc, workerVars>>

\* reset(): the callback's own state, then the request to the worker.
Reset ==
  /\ cb = "reset"
  /\ sync' = Cleared
  /\ window' = 0 /\ initialized' = FALSE
  /\ queue' = <<>> /\ resetRequested' = TRUE
  /\ world' = world + 1 /\ heard' = {}
  /\ cb' = "notifyReset"
  /\ UNCHANGED <<sourceVars, msg, initPending, pendingSeed, stop, wpc, workerVars>>

\* ImuInit::add(): a full window is accepted if it was static, else it slides.
AddInitSample ==
  /\ cb = "accept" /\ msg.kind = "imu" /\ ~initialized
  /\ \/ /\ window + 1 < InitSamples
        /\ window' = window + 1
        /\ cb' = "idle" /\ UNCHANGED initialized
     \/ /\ window + 1 >= InitSamples
        /\ window' = InitSamples
        /\ \E static \in BOOLEAN :
             /\ initialized' = static
             /\ cb' = IF static THEN "init" ELSE "idle"
  /\ UNCHANGED <<sourceVars, msg, sync, world, heard, handOff, wpc, workerVars>>

AcceptImu ==
  /\ cb = "accept" /\ msg.kind = "imu" /\ initialized
  /\ sync' = PushedImu(sync, msg.stamp)
  /\ heard' = heard \cup {msg.stamp}
  /\ cb' = "ready"
  /\ UNCHANGED <<sourceVars, msg, window, initialized, world, handOff, wpc, workerVars>>

AcceptLidar ==
  /\ cb = "accept" /\ msg.kind = "lidar"
  /\ sync' = PushedLidar(sync, [stamp |-> msg.stamp, world |-> world])
  /\ cb' = "ready"
  /\ UNCHANGED <<sourceVars, msg, window, initialized, world, heard, handOff, wpc,
                 workerVars>>

OnInitialized ==
  /\ cb = "init"
  /\ initPending' = TRUE /\ pendingSeed' = world
  /\ cb' = "notifyInit"
  /\ UNCHANGED <<sourceVars, msg, sync, window, initialized, world, heard, queue,
                 resetRequested, stop, wpc, workerVars>>

\* Mutants of Enqueued: the bound is off by one; a dropped group's IMU is lost.
EnqueuedOverfull(q, g) ==
  IF Len(q) <= MaxQueue THEN Append(q, g)
  ELSE Append([Tail(q) EXCEPT ![1] = MergeDroppedImu(Head(q), @)], g)

EnqueuedNoMerge(q, g) ==
  IF Len(q) < MaxQueue THEN Append(q, g) ELSE Append(Tail(q), g)

\* push_back under the bound: the oldest group goes, its IMU is inherited.
Enqueued(q, g) ==
  IF Len(q) < MaxQueue THEN Append(q, g)
  ELSE IF Len(q) > 1 THEN Append([Tail(q) EXCEPT ![1] = MergeDroppedImu(Head(q), @)], g)
  ELSE Append(Tail(q), MergeDroppedImu(Head(q), g))

\* One round of the loop of enqueueReady().
EnqueueReady ==
  /\ cb = "ready"
  /\ \/ /\ Releases(sync)
        /\ sync' = Released(sync)
        /\ queue' = Enqueued(queue, Group(sync))
        /\ cb' = "notifyScan"
     \/ /\ Discards(sync)
        /\ sync' = Discarded(sync)
        /\ cb' = "idle" /\ UNCHANGED queue
     \/ /\ ~Releases(sync) /\ ~Discards(sync)
        /\ cb' = "idle" /\ UNCHANGED <<sync, queue>>
  /\ UNCHANGED <<sourceVars, msg, window, initialized, world, heard, resetRequested,
                 initPending, pendingSeed, stop, wpc, workerVars>>

\* queue_cv_.notify_one() or notify_all(): the worker is the only waiter.
AfterNotify ==
  [notifyReset |-> "accept", notifyInit |-> "idle", notifyScan |-> "ready",
   notifyStop |-> "join"]

\* Mutant of Notify: onInitialized() does not notify.
NotifyNotInit ==
  /\ cb \in DOMAIN AfterNotify
  /\ wpc' = IF wpc = "asleep" /\ cb # "notifyInit" THEN "lock" ELSE wpc
  /\ cb' = AfterNotify[cb]
  /\ UNCHANGED <<sourceVars, msg, sync, window, initialized, world, heard, handOff,
                 workerVars>>

Notify ==
  /\ cb \in DOMAIN AfterNotify
  /\ wpc' = IF wpc = "asleep" THEN "lock" ELSE wpc
  /\ cb' = AfterNotify[cb]
  /\ UNCHANGED <<sourceVars, msg, sync, window, initialized, world, heard, handOff,
                 workerVars>>

\* SIGINT: rclcpp::ok() turns false; spin() returns and the node is destroyed.
Interrupt ==
  /\ ok
  /\ ok' = FALSE
  /\ UNCHANGED <<arrivals, source, cbVars, handOff, wpc, workerVars>>

Destroy ==
  /\ cb = "idle" /\ ~ok
  /\ stop' = TRUE
  /\ cb' = "notifyStop"
  /\ UNCHANGED <<sourceVars, msg, sync, window, initialized, world, heard, queue,
                 resetRequested, initPending, pendingSeed, wpc, workerVars>>

Join ==
  /\ cb = "join" /\ wpc = "done"
  /\ cb' = "gone"
  /\ UNCHANGED <<sourceVars, msg, sync, window, initialized, world, heard, handOff, wpc,
                 workerVars>>
-----------------------------------------------------------------------------
(* The worker's thread. *)

\* while (rclcpp::ok())
LoopTest ==
  /\ wpc = "top"
  /\ wpc' = IF ok THEN "lock" ELSE "done"
  /\ UNCHANGED <<sourceVars, cbVars, handOff, workerVars>>

\* Mutants of Awaited: the worker sleeps through a scan, or through stop_.
AwaitedNoScan == stop \/ resetRequested \/ initPending

AwaitedNoStop == resetRequested \/ initPending \/ queue # <<>>

\* The predicate of queue_cv_.wait().
Awaited == stop \/ resetRequested \/ initPending \/ queue # <<>>

Wait ==
  /\ wpc = "lock" /\ ~Awaited
  /\ wpc' = "asleep"
  /\ UNCHANGED <<sourceVars, cbVars, handOff, workerVars>>

SpuriousWakeUp ==
  /\ wpc = "asleep"
  /\ wpc' = "lock"
  /\ UNCHANGED <<sourceVars, cbVars, handOff, workerVars>>

Stop ==
  /\ wpc = "lock" /\ stop
  /\ wpc' = "done"
  /\ UNCHANGED <<sourceVars, cbVars, handOff, workerVars>>

TakeReset ==
  /\ wpc = "lock" /\ ~stop /\ resetRequested
  /\ resetRequested' = FALSE
  /\ wpc' = "reset"
  /\ UNCHANGED <<sourceVars, cbVars, queue, initPending, pendingSeed, stop, workerVars>>

TakeInit ==
  /\ wpc = "lock" /\ ~stop /\ ~resetRequested /\ initPending
  /\ initPending' = FALSE
  /\ seed' = pendingSeed
  /\ wpc' = "init"
  /\ UNCHANGED <<sourceVars, cbVars, queue, resetRequested, pendingSeed, stop, meas, est>>

\* Mutant of TakeScan: the newest scan is taken first.
TakeNewest ==
  /\ wpc = "lock" /\ ~stop /\ ~resetRequested /\ ~initPending /\ queue # <<>>
  /\ meas' = Back(queue) /\ queue' = SubSeq(queue, 1, Len(queue) - 1)
  /\ wpc' = "process"
  /\ UNCHANGED <<sourceVars, cbVars, resetRequested, initPending, pendingSeed, stop,
                 seed, est>>

TakeScan ==
  /\ wpc = "lock" /\ ~stop /\ ~resetRequested /\ ~initPending /\ queue # <<>>
  /\ meas' = Head(queue) /\ queue' = Tail(queue)
  /\ wpc' = "process"
  /\ UNCHANGED <<sourceVars, cbVars, resetRequested, initPending, pendingSeed, stop,
                 seed, est>>

\* estimator_->reset() and estimator_->initialize(), outside the lock.
ResetEstimator ==
  /\ wpc = "reset"
  /\ est' = Blank
  /\ wpc' = "top"
  /\ UNCHANGED <<sourceVars, cbVars, handOff, meas, seed>>

InitEstimator ==
  /\ wpc = "init"
  /\ est' = [est EXCEPT !.seed = seed]
  /\ wpc' = "top"
  /\ UNCHANGED <<sourceVars, cbVars, handOff, meas, seed>>

\* handleScan(): processScan() may find no cloud, may refuse to insert the scan
\* into the map, or may insert it.
HandleScan ==
  /\ wpc = "process"
  /\ \/ wpc' = "top" /\ UNCHANGED est
     \/ wpc' = "publish" /\ UNCHANGED est
     \/ wpc' = "publish" /\ est' = [est EXCEPT !.map = @ \cup {meas.scan.world}]
  /\ UNCHANGED <<sourceVars, cbVars, handOff, meas, seed>>

\* logScan() and publishAll() read the estimator's pose and map.
Publish ==
  /\ wpc = "publish"
  /\ wpc' = "top"
  /\ UNCHANGED <<sourceVars, cbVars, handOff, workerVars>>
-----------------------------------------------------------------------------
Callback ==
  \/ Reset \/ AddInitSample \/ AcceptImu \/ AcceptLidar \/ OnInitialized
  \/ EnqueueReady \/ Notify \/ Destroy \/ Join

Worker ==
  \/ LoopTest \/ Wait \/ Stop \/ TakeReset \/ TakeInit \/ TakeScan
  \/ ResetEstimator \/ InitEstimator \/ HandleScan \/ Publish

Terminated == cb = "gone" /\ UNCHANGED vars

Next ==
  \/ \E t \in Stamps : ImuMessage(t) \/ LidarMessage(t)
  \/ Interrupt \/ Callback \/ Worker \/ SpuriousWakeUp \/ Terminated

Spec == Init /\ [][Next]_vars

\* A dispatched callback runs to its end and the worker is scheduled; messages,
\* SIGINT and spurious wake-ups need never come.
FairSpec == Spec /\ WF_vars(Callback) /\ WF_vars(Worker)
-----------------------------------------------------------------------------
(* Properties. *)

Positions == {"idle", "reset", "accept", "init", "ready", "join", "gone"}
               \cup DOMAIN AfterNotify

\* Every variable has its type, and the worker queue never exceeds max_queue_.
TypeOK ==
  /\ ok \in BOOLEAN /\ arrivals \in Nat
  /\ source \in [{"imu", "lidar"} -> Stamps \cup {NoStamp}]
  /\ cb \in Positions
  /\ msg \in [kind : {"imu", "lidar"}, stamp : Stamps \cup {NoStamp}]
  /\ cb \in {"reset", "notifyReset", "accept"} => msg.stamp \in Stamps
  /\ sync \in SyncState
  /\ window \in 0 .. InitSamples /\ initialized \in BOOLEAN
  /\ queue \in Seq(MeasureGroup) /\ Len(queue) <= MaxQueue
  /\ resetRequested \in BOOLEAN /\ initPending \in BOOLEAN /\ stop \in BOOLEAN
  /\ pendingSeed \in Nat /\ seed \in Nat
  /\ wpc \in {"top", "lock", "asleep", "reset", "init", "process", "publish", "done"}
  /\ meas \in MeasureGroup
  /\ est \in [seed : Nat, map : SUBSET Nat]
  /\ world \in Nat \ {NoWorld} /\ heard \subseteq Stamps

\* A scan is registered and published only against the estimator of its own
\* world: one initialised from that world's IMU window, with a map built from
\* that world's scans alone -- however resets, initialisations and the scan in
\* flight interleave (reset(), onInitialized(), workerLoop()).
EstimatorMatchesScan ==
  wpc \in {"process", "publish"} =>
    /\ est.seed = meas.scan.world
    /\ est.map \subseteq {meas.scan.world}

Sorted(q) == \A i, j \in DOMAIN q : i <= j => q[i] <= q[j]

\* The groups the worker has or will get.
Groups == {queue[i] : i \in DOMAIN queue}
            \cup (IF wpc \in {"process", "publish"} THEN {meas} ELSE {})

\* The IMU samples of the buffer and of every group are in time order, whatever
\* order messages came in and however many groups were merged into one: what
\* next(), mergeDroppedImu() and the deskew rely on.
ImuInOrder ==
  /\ Sorted(sync.imu)
  /\ \A g \in Groups : Sorted(g.imu)

\* Every group handed over still brackets its scan on both sides: a sample at
\* or before its start and one past its guarded end (next(), sync.hpp).
GroupsBracketed ==
  \A g \in Groups :
    /\ g.imu # <<>>
    /\ Head(g.imu) <= g.scan.stamp
    /\ Back(g.imu) >= g.scan.stamp + ScanGuard

StampsOf(q) == {q[i] : i \in DOMAIN q}

\* Of two scans of one world that the worker takes one after the other, however
\* many were dropped between them, the two groups hold every IMU sample that
\* was buffered from the start of the first to the end of the second
\* (mergeDroppedImu(), enqueueReady()).
NoImuLost ==
  [][ LET span == {t \in heard : Head(meas.imu) <= t /\ t <= Back(meas'.imu)}
      IN meas' # meas /\ meas # NoGroup /\ meas'.scan.world = meas.scan.world
           => span \subseteq StampsOf(meas.imu) \cup StampsOf(meas'.imu) ]_vars

\* Within a world, scans reach the estimator in the order of their stamps.
ScansInOrder ==
  [][ meas' # meas /\ meas'.scan.world = meas.scan.world
        => meas.scan.stamp <= meas'.scan.stamp ]_vars

\* A scan is discarded only if this world has no IMU sample at or before it:
\* pruning never takes the bracket that a later scan needs (next()).
DiscardedUnpreceded ==
  [][ cb = "ready" /\ cb' = "idle" /\ sync' # sync
        => \A t \in heard : t > ScanStamp(sync) ]_vars

\* No wake-up is lost: while the worker sleeps through something it waits for --
\* a stop, a reset, an init or a scan -- the callback that asked for it stands
\* between its unlock and its notify (reset(), onInitialized(), enqueueReady(),
\* ~GlassLioNode(), against queue_cv_.wait() in workerLoop()).
WakeUpPending == wpc = "asleep" /\ Awaited => cb \in DOMAIN AfterNotify

\* What a callback requests of the worker is done, unless the node stops: no
\* notify of queue_cv_ is lost.
RequestsServed ==
  resetRequested \/ initPending ~> (~resetRequested /\ ~initPending) \/ wpc = "done"

InQueue(t, w) == \E i \in DOMAIN queue : queue[i].scan = [stamp |-> t, world |-> w]

\* A queued scan does not stay queued: it is processed, dropped for newer ones
\* or wiped by a reset, unless the node stops.
ScansServed ==
  \A t \in Stamps : \A w \in 1 .. MaxArrivals : InQueue(t, w) ~> ~InQueue(t, w) \/ wpc = "done"

\* After SIGINT the destructor gets its worker joined (~GlassLioNode()).
ShutdownCompletes == ~ok ~> cb = "gone"
=============================================================================
