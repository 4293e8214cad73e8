# glass-lio in TLA+

glass-lio is a LiDAR-inertial odometry node: it subscribes to an IMU topic and a
point-cloud topic, pairs each scan with the IMU samples that bracket it, deskews
it, registers it against a local voxel map (loosely with ICP, or tightly with the
IMU folded into the solve), and publishes a pose. This directory holds a model of
its control: which message, scan, request or result goes where, in what order, and
what a step may never do to the state of another. The numbers -- points, rotations,
residuals, covariances -- are abstracted to what they refer to.

Paths are relative to the repository's root, which is `src/` in `PROJECT.json`.

## Inventory

| part | state | operations | what is hard |
|---|---|---|---|
| measurement synchronisation (`src/lio/sync.cpp`) | the IMU and scan buffers; each topic's last stamp | `checkImu`/`checkLidar` (watchdog), `push*`, `next`, `clear`, `mergeDroppedImu` | late, repeated and restarted stamps; pruning by one sample too many; merging groups that overlap |
| node (`src/glasslio_node.cpp`) | `buf_mutex_`: sync and IMU initialisation. `queue_mutex_`: bounded queue, `reset_requested_`, `init_pending_`, `stop_`. The worker: the estimator | both callbacks, `onTimeJump`, `reset`, `onInitialized`, `enqueueReady`, `workerLoop`, `handleScan`, the destructor | two threads, three flags and a condition variable; a reset while a scan is in flight; a queue at its limit; shutdown |
| deskew (`src/lio/deskew.cpp`) | the last scan's end, the rotation over it, the gyro bias | `process` | the anchor of the gyro integration across drops and restarts; points at the rim of what the IMU covers |
| estimator (`src/lio/lio_estimator.cpp`) | pose, velocity, `NavState`, covariance, gravity, map, counters of the warm-up, the last result | `initialize`, `reset`, `processScan` | paths that end early and must leave a state the next scan can start from |
| registration (`src/lio/registration.cpp`, `tight_registration.cpp`) | none between calls | `alignPointToPlane`, `alignTightlyCoupled` | results made of several linearizations; a solve that fails at a later iteration; gates that look at the wrong pose |
| gyro integration (`src/lio/gyr_int.cpp`) | the rotations of one scan | `add`, `rotationAt` | late and repeated stamps |
| local map (`src/lio/local_map.cpp`) | voxels with a reservoir of points, a lazily fitted plane, a display copy | `insert`, `prune`, `closestPlane`, `num_planes`, `target` | two caches to keep honest; keys of negative coordinates; the reservoir's draws |
| offline replay (`src/tight_replay.cpp`) | a sync, an initialisation, an estimator, in one thread | reading a recording, `drain` | the groups must not depend on how the two topics interleave |
| external: glass_core, ROS 2 | -- | IMU initialisation, Gauss-Newton, preintegration; the executor | absent from the repository; modelled from its use |
| launch files, parameters, Docker, tests, docs | -- | -- | not modelled; tests and docs were read for what they promise |

**Interaction.** The executor's thread runs one callback at a time, which holds
`buf_mutex_` to its end. The callback initialises the IMU, watches the clock, fills
the buffers, and moves every scan that the IMU covers into a queue of at most
`max_queue` groups; if it is full, the oldest group goes and the next inherits its
IMU. The worker's thread takes, under `queue_mutex_`, a reset first, then an
initialisation, then a scan, and does the work outside the lock: only it touches the
estimator, which drives deskew, registration and the map.

**What makes each part correct.** Sync: the groups are a function of the two streams
of stamps, bracket their scans, are in time order, and lose nothing. Node: a scan
meets the estimator of its own run, no request is lost, the queue keeps its bound,
shutdown ends. Estimator: the interval a factor or a guess spans is the one between
the two poses it relates; the pose and its covariance refer to the same instant; the
map is fed when it must be and only then. Map: no cached plane or copy is stale, the
sample is uniform, the nearest plane is found.

## Modules

| module | models | notes |
|---|---|---|
| `MeasureSync` | `MeasureSync`, `mergeDroppedImu` | a record and operators on it: the object has no thread of its own |
| `GlassLioNode` | the node, its two threads and the hand-off | extends `MeasureSync` |
| `Deskew` | `Deskew::process` and `GyrInt` | operators |
| `Registration` | what the solvers may answer, and how the caller reads it | operators |
| `Solvers` | the iterations of both solvers, and the caller | extends `Registration` |
| `LioEstimator` | the estimator's state and operations | extends `Deskew`, `Registration` |
| `EstimatorFeed` | the estimator alone, fed as sync and queue would | extends `LioEstimator` |
| `GlassLio` | the live program: the estimator behind the node's worker | extends `GlassLioNode` and `LioEstimator` |
| `LocalMap` | the voxel map | three coordinates, squared distances |
| `MeasureStream` | what stage [2] promises, without buffers | abstract |
| `TightReplay` | the offline driver | extends `MeasureSync`; implements `MeasureStream` |
| `GlassLioNodeProofs`, `NodeOrderProofs` | theorems of the node | worlds; order, brackets, losses |
| `EstimatorProofs` | lemmas on one scan of the estimator, whoever feeds it | |
| `EstimatorFeedProofs` | theorems of the estimator alone | extends `EstimatorProofs` |
| `GlassLioProofs` | theorems of the live program | extends `NodeOrderProofs` and `EstimatorProofs` |
| `LocalMapProofs`, `SolversProofs` | theorems of the map and the solvers | |
| `ReplayProofs` | `TightReplay` implements `MeasureStream` | |
| `MC...` | stamps, streams and points for TLC | |

`PROJECT.json` maps every definition to the lines it models.

### Sync and node

A stamp is a natural number, an IMU sample is its stamp. `Jump` is the watchdog's
verdict, `Released`/`Group` and `Discarded` are the ways `next()` ends, and the
model's buffer after a release starts at the last sample at or before the scan's
start, as in the code.

In `GlassLioNode` a step is one critical section of `queue_mutex_` with the
thread-local code around it. `cb` is where the callback is; since it holds
`buf_mutex_` from the first line to the last, a new message is dispatched only when
`cb = "idle"`. `wpc` is where the worker is. A `notify_one` comes after the unlock,
so it is a step of its own (`Notify`): between the write and the notify the worker may
test its predicate, sleep, or wake spuriously. The order reset, initialisation, scan
of `workerLoop()` is in the guards of `TakeReset`, `TakeInit`, `TakeScan`.
`handleScan()` is two steps, because the callback may run between processing and
publishing. The estimator is two labels here (`GlassLio` has the estimator itself): the world whose IMU initialised it, and
the worlds of the scans its map holds. A *world* is one run of the data source, which
each reset ends; worlds label data and no guard reads them. `heard` is a history
variable, for `NoImuLost`.

### Estimator and deskew

An instant is a tick. A pose is the instant it refers to; a velocity is measured or
not; a bias or gravity vector is the run and scan it comes from; the navigation
covariance is the instant it describes; the map is the set of scans in it. A rotation
is the interval it was integrated over. A group is a scan with the *sequence* of its IMU
stamps, so that repeated and missing samples are cases like any other.

`Deskew` follows `process()`: `Anchor` and `BracketOf` choose where the gyro is
integrated from, `Knots` is `GyrInt::integrate()` with its refusal of late and repeated
samples, `RotationAt` is `rotationAt()` with its clamp at both ends, and `Compensated`
gives, for each instant of the scan, the rotation its points are turned through.
`Preintegrated` is the set of pieces that `buildPreintegration()` integrates, each
sample's interval clipped at both ends of the window and holes refused. What a solver
answers is open within `LooseAnswers` and `TightAnswers` (a solve may be accepted only
against a map with planes). Each early return is an action: `TightNoImu`,
`TightBootstrap`, `TightRejected`, `TightAccepted`, and the `Loose...` ones.
`ProcessScan` is the whole of `processScan()`.

`EstimatorFeed` gives the estimator scans as the synchronisation does: from the bracket
of the previous scan, or of the first dropped one, to the first sample past the guarded
end. `DropScan` is the queue's overflow.

### Solvers

Iterate 0 is the guess, iterate k what k steps have made of it. Every field of a
`RegistrationResult` or `TightResult` is the iterate that it was computed at, and a
*view* is what associating the scan at an iterate gives: enough correspondences or not,
a low residual or not, translation and rotation constrained or not. Views are free, so
the properties hold however the map looks from each iterate. The tight loop is the one
in the source. The loose loop is `optimizeSE3()`, which is not in the repository:
`LooseFails` and `LooseStep` are what `alignPointToPlane()` relies on. `Commit` is what
`registerScanLoose()` and `registerScanTight()` do with the result. `AnswersAsPromised`
ties the module to `LioEstimator`: what the iterations can return is what the
estimator's model is given.

### The live program

`GlassLio` puts the estimator under the two labels: each of the worker's three calls is
the action of `GlassLioNode` (`ResetEstimator`,
`InitEstimator`, `HandleScan`) and the operation
of `LioEstimator` (`EstimatorReset`, `Initialize`, `ProcessScan`) in one step, and the
groups are those that the buffers, the pruning, the queue and `mergeDroppedImu()` have
made of a stream of messages. `EstimatorAsAssumed` says that the labels were right.

### Local map

A place has three whole coordinates, a voxel is a cube, and lengths are compared by
their squares, as in the code. The plane of a voxel is its centroid, kept as a sum and a
count, if there are enough points and all lie on one surface; the distance to a plane is
that of its centroid, as in `closestPlane()`. That keeps what can go wrong: which voxel a
coordinate falls in on both sides of zero, the reservoir's cap and draws, what marks a
plane or the copy as out of date, how far a search must look and in which order it comes
to the voxels, and what pruning by the centre of a voxel does to the points in it. The
draw is any number of its range.

`prune()` compares the centre of a voxel with the range, and a point is up to half the
voxel's diagonal from the centre. `PrunedByRange` is therefore stated with half the
diagonal on both sides, not with half a voxel.

### Replay

`TightReplay` reads a recording whose two topics move forward and interleave freely.
`MeasureStream` says which scan is taken next and with which samples, as a function of
the stamps alone. The refinement maps the group last processed and the history of the
two streams; the buffers do not appear in it. It is proved too, for a guard above zero.

## Runs

| run | bounds | shows |
|---|---|---|
| `node_any` | 6 messages, any stamps of 0..3, queue of 2, guard 1 | `TypeOK`; `EstimatorMatchesScan`; `ImuInOrder`, `GroupsBracketed`; `WakeUpPending` |
| `node_forward` | 10 messages, each topic moves by 1 or 2 ticks, queue of 2 | `GroupsBracketed`, `NoImuLost`, `ScansInOrder` when the worker falls behind |
| `node_live` | 5 messages, two stamps, queue of 1, window of 2 | `RequestsServed`, `ScansServed`, `ShutdownCompletes` |
| `system` | 8 messages, stamps of 1..5, queue of 1, sweeps of one tick, an IMU that restarts | `EstimatorAsAssumed`, `EveryScanDeskewed`, `DiscardedUnpreceded`; `FactorSpansPoses` and `CalibrationOfRun` on the groups that really arise |
| `est_sweep` | 6 scans, 2 runs, warm-up of 3, sweeps that jitter, a steady stream and one with repeated and missing samples, drops, empty scans, singular information | the types, the guess, window, factor, points, pose, map and calibration properties |
| `est_coast` | 4 scans, sweeps and snapshots, IMU streams of 12 ticks with a hole, a map that may be left | `CovarianceOfState`, `NeverAhead` |
| `solve` | 3 iterations, any view at each | what a result is made of, on every way out of either loop |
| `map` | three dimensions, voxels of 2 ticks with 2 points, 3 points into each, reach of 2 voxels | both caches, the sample, the search, pruning |
| `replay` | 9 messages, stamps of 0..5 | `Reproducible`: `TightReplay` implements `MeasureStream` |
| `node_reanchor`, `est_seed`, `est_lost` | as their passing runs | a statement of a comment, doc or test that the code does not keep |

Why the bounds are enough. `node_any`: an initialisation, a scan with its bracket, a
restart, and a second initialisation take five messages, so a scan of an old world can
be in flight or queued at any point of the new one. `node_forward`: ten messages fill a
queue of two and overflow it twice, so a merged group is merged again. Reaching it needs
topics that move forward; a topic that also jumps is `node_any`'s. `node_live`: with a
queue of one the dropped group is merged into the one in hand. `system`: eight messages
reach a drop that merges, a restart under a scan in flight, and a tight scan of the second
run; the
LiDAR never jumps back there, because `DiscardedUnpreceded` assumes topics whose late
messages are recognised (see `node_reanchor`), and scans have points, because an empty
one may lose IMU (see `est_lost`). The estimator's
streams are in time order, which `ImuInOrderAlways` proves of every group; its
interaction reaches back one scan through the window, two through drop and inheritance,
and `Warmup` scans through the counter; six scans are one or two more than these need.
`solve`: three iterations have a first, a middle and a last one; `SolversProofs` does the
rest. `map`: three points into a reservoir of two is the first time that the draw
matters, and the keys cover -1 to 2, so both a search of two rings and the origin are
crossed. Half a voxel in the place of half the diagonal is refuted there on both sides: a
point is kept, and another erased, that is further than that from the range.

`TypeOK` of each module carries the bounds that a slip would break (the queue's, the
reservoir's, the iterations', and that a window never begins before time began).

The estimator runs and the replay set `CHECK_DEADLOCK FALSE`: their input is bounded,
and they stop when it is used up. The node and the live program check deadlock: their
only end is `Terminated`, after the destructor.

**Fairness.** Only `node_live` assumes any: `WF(Callback)` -- a callback that has been
dispatched runs to its end, and the executor, once SIGINT has stopped it, destroys the
node -- and `WF(Worker)` -- the operating system schedules the worker. No message, no
SIGINT and no spurious wake-up is ever promised. The mutexes need no fairness of their
own: no thread holds one while it waits for the other (the worker releases
`queue_mutex_` before it works, the callback takes it inside `buf_mutex_` only, and the
worker never takes `buf_mutex_`). Liveness is checked to the point where messages stop,
which is where a lost wake-up would show.

## What disagrees

Runs that TLC refutes, each one statement against what the code does:

- `node_reanchor`: `check()` re-anchors the watchdog on a restart, and the `reset()`
  that follows clears the anchor. The next message of the topic is accepted, however
  late. (`test_sync.cpp` tests `check()` alone.)
- `est_seed`: the warm-up counts scans, not alignments, so the tight path may start from
  a velocity that nothing measured.
- `est_lost`: a scan without points takes the IMU it inherited from a dropped scan with
  it; the next factor misses that interval. The same happens without a drop after a
  pause between sweeps, or with two such scans in a row.

Seen while modelling, in the model as in the code, and left out of the runs:

- `lidarCallback()` tests `initialized()` and then the clock (`src/glasslio_node.cpp:390`).
  A scan that reveals a restart resets the initialisation and is buffered all the same,
  although the comment at line 383 and `docs/implementation/pipeline.md:52` say that scans
  before initialisation are dropped. It is harmless: `EstimatorMatchesScan` and
  `CalibrationOfRun` hold with it.
- A frame that no IMU precedes is discarded and ends the loop of `enqueueReady()`
  (`src/glasslio_node.cpp:398`), so a covered scan behind it waits for the next message. That the discard is right,
  `DiscardedUnpreceded`, needs topics whose late messages are recognised: after the
  re-anchoring of `node_reanchor`, IMU of before may have been pruned for a later scan.
- `last_corr_` keeps an earlier scan's number on the loose bootstrap
  (`src/lio/lio_estimator.cpp:207`), also across a reset; a tight scan without an IMU
  span coasts with both the number and the residual of an earlier one (line 318). Only the
  ratio is set back on every path, which is what `RatioOfScan` says.
- An IMU hole longer than 0.1 s is skipped (`src/lio/lio_estimator.cpp:287`), so a
  predicted pose lies before the end of the scan it is published with. `PoseAtScanEnd`
  is therefore checked on streams without holes.
- `map_bootstrapped_` stays true when the robot has left what the map covers
  (`src/lio/lio_estimator.cpp:506`), so a map pruned until too sparse is not mended.
  `SparseMapFed` is checked with `Leaves` FALSE. A map pruned to nothing bootstraps
  again, at the pose before the scan; `PoseAtScanEnd` assumes that away too.
- When the information matrix has no inverse (`src/lio/lio_estimator.cpp:374`), the solve
  is kept and so is the old covariance. `CovarianceOfState` is checked with
  `PosteriorExists` always TRUE.
- The bracket of the anchor may lie after it, by up to `kMaxAnchorGapSec`
  (`src/lio/deskew.cpp:59`); `GyrInt` then extrapolates the rate at the anchor, although
  `include/glasslio/gyr_int.hpp:21` says "a sample at or before the start".
- The tight residual and information are those of the linearization before the state
  that is handed back (`src/lio/tight_registration.cpp:178`), also when the loop ends at
  `max_iterations` after a large step: the state itself was never measured.
  `OneLinearization` says exactly this much. The loose path measures once more, for its
  gate only.
- A sweep begins at its header's stamp in `Deskew`, as `docs/implementation/2-sync.md`
  and `3-deskew.md` have it; the code takes the smallest point time
  (`src/lio/deskew.cpp:36`). The two are the same for a driver that stamps the first point.
- The odometry of a sweep carries the header's stamp, the scan's start
  (`src/glasslio_node.cpp:522`), while the pose is the one at the scan's end.
- `include/glasslio/local_map.hpp:71` says points in a full voxel are dropped; the code
  samples a reservoir.
- `max_queue` of 0 would ask an empty queue for its front (`src/glasslio_node.cpp:412`);
  `NodeAssumption` excludes it, as do the parameter files.

## Proofs

`GlassLioNodeProofs`, from `SyncAssumption` and `NodeAssumption`:

- `TypeCorrect`: `Spec => []TypeOK`, the queue's bound with it. The lemmas say what each
  operator of `MeasureSync` returns; that a released group is a group needs that
  `FirstAt`, a CHOOSE, has the position it looks for (`FirstAtSpec`, from the
  well-founded order of finite sets). `TypeOK` is inductive as stated.
- `EstimatorMatchesScanAlways`: a scan is only processed against the estimator of its
  own world. That is far from inductive: it speaks of the moment of processing, while
  what makes it so is what is pending. `WorldInv` says it of everything in flight.
  `DueSeed`: the world of which the estimator will have been initialised once what is
  pending -- a reset, an initialisation, the worker's copy of it -- has been served.
  `DueMap`: likewise for its map. `DueOfWorld`: while the current world counts as
  initialised and its initialisation was requested, the due seed is the current world;
  the due map never holds another. `QueuedOnlyInitialized` and `BufferedOfWorld`: scans
  are queued only then, and every buffered or queued scan is of the current world. The
  scan in the worker's hand is the exception: it may be of an older world, and then it
  is the estimator's present, not its due, that matches it (`EstimatorMatchesScan`). The step lemma has one case per action.
- `WakeUpPendingAlways`: while the worker sleeps through a request, its notify is still to
  come. It is inductive: what makes `Awaited` true ends before a notify, `Wait` tests
  `Awaited` in the critical section in which it falls asleep, and `Notify` wakes. It is
  the safety half of `RequestsServed`, `ScansServed` and `ShutdownCompletes`, which TLC
  checks: what fairness must add is only that the notify is reached and the woken worker
  runs. `JoinedAwakeAlways` follows for the destructor: the worker it joins is awake.

`NodeOrderProofs`, from the same assumptions: `ImuInOrderAlways` and
`GroupsBracketedAlways`. Neither is inductive, since neither says what keeps a late sample
out or a merged group in order; `OrderInv` does. `BufferInOrder`: no buffered sample is
later than the watchdog's newest stamp, nor than the sample about to be pushed (after a
reset the watchdog has no stamp, and the guard is that the node is then uninitialised and
pushes none). `QueueInOrder`: no queued group starts before the one ahead of it, nor after
anything still buffered, and without a buffered sample nothing is queued, save between the
watchdog's clearing of the buffer and the reset that empties the queue. The lemmas on sequences say that the prefix `next()` copies
covers the scan (`PrefixCovers`), that the suffix it keeps is not empty and not earlier
(`SuffixKept`), and that what `mergeDroppedImu()` concatenates is in order and covers the
next scan, its kept part empty or not (`MergeCovers`).

The other three theorems there are about what crosses the hand-off.

- `NoImuLostAlways`, without a further hypothesis: of what the node heard between the
  first sample of a group and the last one of the next, the two hold everything, however
  many groups were dropped and merged between them. `ChainInv` says it of everything in
  flight. `BufferWhole`: the buffer holds all that was heard since its first sample.
  `HandoffWhole`: each group, queued or last taken, holds all that was heard between its
  ends, and the next one starts at or before its scan, so no gap is between the two.
  `LastReaches`: so does the buffer after the newest group. A dropped group would break
  the chain, which `mergeDroppedImu()` keeps.
- `ScansInOrderAlways` and `DiscardedUnprecededAlways`, from `LidarForward(0)`: the
  LiDAR's stamps do not go back. `node_reanchor` refutes the former without that, so the
  hypothesis is a fact about the topic and not a convenience. `ScansApart(p)`: buffered,
  queued and taken scans are in order, each `p` ticks apart; `PrunedBehind`: the buffer
  starts at or before everything that may still come, or nothing was ever pruned.
- `DenseInv(gap)` serves `GlassLioProofs`: if the IMU source leaves no hole longer than
  `gap`, no buffer, queued group or merged group has one.

`EstimatorProofs` has, for one call of `processScan()` on any group in time order, what
each path leaves behind: the types (`ScanTyped`), the time line (`Timeline`: no pose,
state or rotation is later than the last scan), which instant the pose, the covariance and
the factor refer to. What a knot, a bracket or a piece of the preintegration covers is in
its lemmas on the operators of `Deskew` and `LioEstimator`; the longest is that the pieces
of `Preintegrated` are disjoint and cover each tick of a window without holes
(`TickCovered`), so that their summed length is the window's. It knows nothing of who
calls, and both modules below build on it.

`EstimatorFeedProofs`, from `EstimatorAssumption`, `DeskewAssumption` and
`FeedAssumption` (streams are in time order, as `ImuInOrderAlways` proves): the types, and
nine of the estimator's properties, from `FeedInv`, which is `Typed` and `Timeline` with
the position of the feed: the next group starts no later than the first scan that was
dropped, or the end of the last. The further hypotheses are named, and `est_sweep` or
`est_coast` satisfies each where it checks the property:

| theorem | hypothesis | why the code needs it |
|---|---|---|
| `TypeCorrect`, `RatioOfScanAlways`, `NeverAheadAlways`, `CalibrationOfRunAlways` | none | |
| `PointsAtScanEndAlways` | `SpansGuarded`: no sweep exceeds `scan_guard_sec` | the guard is the IMU that a sweep waits for |
| `CovarianceOfStateAlways` | `PosteriorExists = {TRUE}` | see above: a singular information keeps the old covariance |
| `SparseMapFedAlways`, `MapHoldsAlignedAlways` | `Leaves = FALSE` | see above: a map left behind is not mended |
| `GuessSpansPoseAlways` | `SpansGuarded`, `NoImuLost`, `Leaves = FALSE`, pauses below `kMaxChainGapSec` | an empty scan after a drop takes the IMU with it (`est_lost`); deskew does not chain over a longer pause |
| `FactorSpansPosesAlways`, `PoseAtScanEndAlways` | `SpansGuarded`, `NoImuLost`, `StreamsWhole`, `Leaves = FALSE` | a hole is not integrated over |

`Continuous` (the next group reaches back to the last processed scan), `InRange`, `LoosePose`
and `TightPose` (the pose is at the end of the last scan, or at its prediction) are the
invariants of the last three.

`GlassLioProofs` joins the two. `SystemImplementsNode`: `SystemSpec => Spec`, the whole is
a behaviour of the node, step by step, with no variable to hide; so every theorem of the
node holds of the live program, and with them the groups it hands over are known. What
remains is to show that they are what `EstimatorProofs` asks of a group:

- `CalibrationOfRunAlways`, without hypothesis: `Calibrated` ties the node's label of
  whose IMU initialised the estimator to the run of the biases and gravity it has, and
  `EstimatorMatchesScan` ties the label to the scan in hand.
- `EstimatorAsAssumedAlways`, from `Leaves = FALSE` (a map pruned to nothing has no
  scans, which a label cannot know); `EveryScanDeskewedAlways`, from clouds with points
  and a guard above zero.
- `SystemTypeCorrect` and `NeverAheadAlways`, from `Paced(p)`: time begins after tick 0,
  and sweeps do not overlap, that is no sweep is longer than the `p` ticks that two
  stamps are at least apart. `Timed(p)` is the invariant: the last processed scan ended
  by the one in hand, or within `p` of the one before.
- `RatioOfScanAlways`, from `Paced(p)` too; `CovarianceOfStateAlways`, with
  `PosteriorExists = {TRUE}`; `SparseMapFedAlways` and `MapHoldsAlignedAlways`, with
  `Leaves = FALSE` and the invariant `InRange`; `PointsAtScanEndAlways`, with no sweep
  longer than the guard, since `GroupsBracketed` says that the group then reaches past it.
- `GuessSpansPoseAlways`, from `Swept(p)` -- `Paced(p)`, sweeps within the guard, clouds
  with points and a guard above zero -- `Leaves = FALSE` and `[][Prompt]_estVars`: after
  the first scan no pause is as long as `kMaxChainGapSec`. The IMU may have holes here.
- `FactorSpansPosesAlways` and `PoseAtScanEndAlways`, from `Steady(p)`, which is `Swept(p)`
  with an IMU source without holes; and `Leaves = FALSE`. `ServedInOrder`: what the estimator has processed is of this world unless a
  reset is due. `ReachesBack`: the group in hand starts by the end of the last scan, from
  `ChainInv`. With `DenseInv` the group then covers its window, and `Posed` follows as
  in the feed. `system` satisfies all of these with `p` = 1.

`LocalMapProofs`, from `MapAssumption`, for every size of voxel and cap, any range,
search distance and set of points:

- `PlanesFreshAlways` and `TargetFreshAlways`, from the inductive
  `MapInv == MapShape /\ PlanesFresh /\ TargetFresh`. The proof leaves `Fit` unexpanded:
  it holds for any plane fit that is a function of the points.
- `PrunedByRangeAlways`, from `PlaceInv`: each point is in the voxel of its place, and a
  voxel holds as many points as came, up to the cap. `HalfDiagonal`: on both sides of
  zero, a point is no further from the centre of its voxel than half the diagonal.
  `Triangle` is the triangle inequality for squared lengths; the product of two vectors is
  bounded by the identity of Lagrange.
- `ClosestOfAllAlways`. The rings reach as far as the search distance (`RingsCover`), so a
  voxel beyond them along any axis has no plane within it (`ReachInRings`), if the centroid
  of a voxel's points lies inside the voxel; of those found a nearest exists, which is a
  least element of an order of ratios compared without division (`RatioOrder`,
  `SomeLeast`), and of the nearest one that the loops come to first (`FirstKey`).
- That the centroid lies inside, along each axis (`TotalInside`), is an induction over a
  fold. No induction
  theorem can be cited for it, but a least counterexample can be taken: `LeastSubset`
  gives one among the subsets of a finite set, `SummedExists` and `SummedUnique` that the
  recursive function in the fold exists, whatever order it adds in, and `SummedBetween`
  its bounds.
- `MapTypeCorrect`: `TypeOK`, with what each voxel holds.
- `SampleUniformAlways`: the sample is uniform for every cap and any number of points in
  a voxel. What is kept of n points is a function of the n draws (`KeptStep`; that the
  recursive function in `Reservoir` exists is again by a least counterexample, `LeastOf`,
  as are the two inductions on n). `UniformAlways`: with n above the cap, a set is kept
  under as many draws as a set of n - 1 points, times n - `MaxPoints`. Without the last
  point (`WaysWithoutLast`) it was there before, and the last draw missed the reservoir;
  with it (`WaysWithLast`), one of the n - `MaxPoints` points that the set lacks was there
  instead, and only the draw of its place replaces it. Both counts are one-to-one maps of
  the draws. `SeenStep`: a voxel in use has had a point, no more than the bound.

`ReplayProofs`, from `SyncAssumption` and `ReplayAssumption`: `ReproducibleAlways`,
`Spec => Stream!Spec` for a guard above zero. `sync.hpp` asks for more than that, namely
one longer than a scan; with none, samples that repeat a stamp are grouped as they happen
to arrive, and TLC refutes the refinement. `ReplayInv` says what the buffers are in terms of the streams,
which have no buffers. `BuffersAreEnds`: the scans waiting are the last ones of theirs,
and the IMU buffer is the IMU's from `Base` on, the last sample at or before the start of
the scan last taken (`LastBy`), where pruning cut it. `LastCovered`: the stream has gone
on past that scan's guarded end, so that a sample yet to come cannot move `Base`.
`SkippedUnusable`: a scan that left without being taken has no IMU before it, and never
will. From these, `Taken` computes what `next()` releases, keeps and counts; `ProcessTakes`
finds in it the step `Take` of the abstract specification, a message is `HearImu` or
`HearScan`, and a discard, the initialisation and the end are stutters.

`SolversProofs`, from `SolversAssumption`: `SolversTypeCorrect`,
`OneLinearizationAlways`, `RefusedLeavesGuessAlways`, `GatedAtSolutionAlways`,
`ResyncVerifiedAlways` and `AnswersAsPromisedAlways`, for every `max_iterations`. The
properties speak of what is returned; the invariant `SolveInv` adds what makes it so while
the loop runs. `LoopInv`: the fields written after the loop are untouched in it.
`ViewsInv`: at iterate k the scan was associated at 0 to k-1, and with enough
correspondences at 0 once a step was taken. `TightInv`: in the loop, a valid result is
`Linearized`, all of iterate k-1. `LooseInv` and `CallerInv`: what the gate and the
caller left. An iteration either fails or steps, and the lemmas `IterateFails` and
`IterateSteps` serve both loops.

Only model-checked: the liveness properties, since fairness and ENABLED are out of the
prover's reach, and the statements that the violation runs refute.

## Not modelled

Numerical content: least squares, SO(3), the downsampling of a cloud, covariances as
matrices; whether a view has enough planes, a low residual or an observable rotation is a
free choice in `Solvers`. `optimizeSE3()`, the preintegration and the static test of the
IMU are in another repository; what the code relies on is modelled. ROS conversions,
parameter reading, logging and the text and format of what is published. The verdict at
the end of `tight_replay`. Data types without state (`types.hpp`, `ros_time.hpp`,
`livox_point.hpp`).

## Plan

Done: sync, node, estimator, map, replay, the solvers, gyro integration, and the
composition of node and estimator, in that order; the proofs of the node, of the solvers,
of the estimator alone, of the live program, of the map and of the replay. Next:

1. The node, per world and with a worker that keeps up, implementing `MeasureStream`,
   with the lemmas of `ReplayProofs` on the ends of a stream.
