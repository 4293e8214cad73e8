----------------------------- MODULE LioEstimator ----------------------------
(***************************************************************************)
(* Stages [3] to [6] of the pipeline (src/lio/lio_estimator.cpp): deskew,  *)
(* loose or tight registration, and the local map, one scan at a time on   *)
(* the worker's thread.                                                    *)
(*                                                                         *)
(* Poses, covariances and maps are not numbers here but what is known of   *)
(* them: the instant a pose refers to, whether a velocity was measured,    *)
(* which scan a residual was counted on, which scans the map was built     *)
(* from.  What a solver answers is left open within Registration; what the *)
(* code does with the answer is not.                                       *)
(*                                                                         *)
(* The estimator has no thread of its own: EstimatorFeed gives it scans in *)
(* isolation, GlassLio puts it behind the node.  A group names the run of  *)
(* the data source that its scan belongs to; no guard reads it.            *)
(***************************************************************************)
EXTENDS Deskew, Registration, FiniteSets

CONSTANTS
  UseTight,          \* use_tight: fold the IMU into the solve
  Warmup,            \* tight_warmup_scans
  ConstantVelocity,  \* use_constant_velocity
  MaxImuGap,         \* kMaxImuGapSec
  PlaneScans,        \* scans a map needs before it has planes to align with
  PosteriorExists,   \* what posteriorCovariance() may return
  Leaves,            \* can the robot leave the map's range?
  MaxScans           \* bound on the scans of a behaviour

ASSUME EstimatorAssumption ==
  /\ UseTight \in BOOLEAN /\ ConstantVelocity \in BOOLEAN /\ Leaves \in BOOLEAN
  /\ Warmup \in Nat /\ PlaneScans \in Nat \ {0} /\ MaxImuGap \in Nat
  /\ PosteriorExists \subseteq BOOLEAN /\ PosteriorExists # {}
  /\ MaxScans \in Nat

VARIABLES
  scans,            \* scans processed so far: the last one's name
  deskew,           \* deskew_: last_t1_, last_dt_, last_delta_rot_, the bias
  pose, velocity,   \* pose_: the instant it refers to; velocity_: measured?
  state,            \* state_: its instant, its velocity, its gyro bias
  gravity,          \* gravity_
  navCov, biasCov,  \* nav_cov_: the instant it describes; bias_cov_: its growth
  map, bootstrapped,
  scansDone, prevScanEnd,
  report,           \* last_rmse_, last_corr_, last_rot_eig_ratio_: of which scan
  result            \* the ScanResult, and what it was computed over

solved == <<deskew, pose, velocity, state, gravity, navCov, biasCov, map, bootstrapped,
            scansDone, prevScanEnd, report>>
estVars == <<scans, solved, result>>

\* A zero, or a value never computed: of no scan, of no run.
None == 0

\* A bias, or gravity: of which run, and solved on which scan (None: at init).
Origin == [run : Nat, scan : 0 .. MaxScans]
NoOrigin == [run |-> None, scan |-> None]

Fresh == [rmse |-> None, corr |-> None, ratio |-> None]
NoResult == [scan |-> None, run |-> None, ok |-> FALSE, trusted |-> FALSE, path |-> "none",
             begin |-> NoTime, end |-> NoTime, factor |-> {}, points |-> {},
             report |-> Fresh]

EstimatorInit ==
  /\ scans = 0
  /\ deskew = [end |-> NoTime, span |-> 0, rot |-> [from |-> NoTime, to |-> NoTime],
               bias |-> NoOrigin]
  /\ pose = NoTime /\ velocity = FALSE
  /\ state = [at |-> NoTime, velocity |-> FALSE, bias |-> NoOrigin]
  /\ gravity = NoOrigin /\ navCov = NoTime /\ biasCov = 0
  /\ map = {} /\ bootstrapped = FALSE
  /\ scansDone = 0 /\ prevScanEnd = NoTime
  /\ report = Fresh /\ result = NoResult
-----------------------------------------------------------------------------
(* reset() and initialize(), in the order the node calls them. *)

\* Mutant of EstimatorReset: the map is kept.
ResetKeepsMap ==
  /\ bootstrapped' = FALSE
  /\ deskew' = [deskew EXCEPT !.end = NoTime]
  /\ pose' = NoTime /\ velocity' = FALSE
  /\ state' = [at |-> NoTime, velocity |-> FALSE, bias |-> NoOrigin]
  /\ scansDone' = 0 /\ prevScanEnd' = NoTime
  /\ navCov' = NoTime /\ biasCov' = 0
  /\ UNCHANGED <<scans, gravity, map, report, result>>

\* The source restarted: resetPipelineState().
EstimatorReset ==
  /\ map' = {} /\ bootstrapped' = FALSE
  /\ deskew' = [deskew EXCEPT !.end = NoTime]
  /\ pose' = NoTime /\ velocity' = FALSE
  /\ state' = [at |-> NoTime, velocity |-> FALSE, bias |-> NoOrigin]
  /\ scansDone' = 0 /\ prevScanEnd' = NoTime
  /\ navCov' = NoTime /\ biasCov' = 0
  /\ UNCHANGED <<scans, gravity, report, result>>

\* Mutant of Initialize: deskew is not given the new bias.
InitializeNotDeskew(run) ==
  LET origin == [run |-> run, scan |-> None] IN
    /\ gravity' = origin
    /\ state' = [at |-> NoTime, velocity |-> FALSE, bias |-> origin]
    /\ navCov' = NoTime /\ biasCov' = 0
    /\ UNCHANGED <<scans, deskew, pose, velocity, map, bootstrapped, scansDone,
                   prevScanEnd, report, result>>

\* The IMU of this run was found static.
Initialize(run) ==
  LET origin == [run |-> run, scan |-> None] IN
    /\ deskew' = [deskew EXCEPT !.bias = origin]
    /\ gravity' = origin
    /\ state' = [at |-> NoTime, velocity |-> FALSE, bias |-> origin]
    /\ navCov' = NoTime /\ biasCov' = 0
    /\ UNCHANGED <<scans, pose, velocity, map, bootstrapped, scansDone, prevScanEnd,
                   report, result>>
-----------------------------------------------------------------------------
(* [5] Registration, over the window from begin to end, of the scan n. *)

\* Mutants of WindowBegin: the window is always the scan's own duration; the
\* first scan is not told apart.
WindowOfScan(g) == ScanEnd(g) - g.span

WindowFromPrevious(g) == prevScanEnd

\* From the previous scan's end; the first scan's window is its own duration.
WindowBegin(g) == IF prevScanEnd > 0 THEN prevScanEnd ELSE ScanEnd(g) - g.span

\* Mutant of Preintegrated: the group's IMU is integrated whole.
PreintegratedWhole(imu, begin, end) ==
  {[from |-> imu[i], to |-> imu[i + 1], sample |-> i] : i \in 1 .. Len(imu) - 1}

\* What buildPreintegration() integrates: each sample's interval, clipped into
\* the window, unless nothing is left of it or it is a hole.
Preintegrated(imu, begin, end) ==
  {p \in {[from |-> Max({imu[i], begin}), to |-> Min({imu[i + 1], end}), sample |-> i] :
            i \in 1 .. Len(imu) - 1} :
     p.to - p.from \in 1 .. MaxImuGap}

\* pre.dt(): the ticks of all pieces, those of two pieces counted twice.
Elapsed(factor) == Cardinality(UNION {{p} \X (p.from .. p.to - 1) : p \in factor})

\* The first pose of a run is the origin, at whatever instant it is taken.
Defined(at, end) == IF at = NoTime THEN end ELSE at

\* An alignment can succeed only against a map with planes.
HasPlanes == Cardinality(map) >= PlaneScans

\* seedNavStateFromLoose(), at the end of the last warm-up scan.
Seeds == UseTight /\ scansDone < Warmup /\ scansDone + 1 = Warmup

SeedFromLoose ==
  IF Seeds
    THEN /\ state' = [state EXCEPT !.at = pose', !.velocity = velocity']
         /\ navCov' = pose' /\ biasCov' = 0
    ELSE UNCHANGED <<state, navCov, biasCov>>

\* Mutant of LooseBootstrap: the ratio of an earlier tight solve is kept.
LooseBootstrapStale(n, begin, end) ==
  /\ map = {}
  /\ pose' = Defined(pose, end)
  /\ report' = [report EXCEPT !.rmse = None]
  /\ UNCHANGED velocity

\* An empty map: the first scan is trusted without an alignment.
LooseBootstrap(n, begin, end) ==
  /\ map = {}
  /\ pose' = Defined(pose, end)
  /\ report' = [report EXCEPT !.rmse = None, !.ratio = None]
  /\ UNCHANGED velocity

\* Of the scan n, if the solver computed it.
Of(n, level) == IF level = "none" THEN None ELSE n

\* updatePose() with the guess: constant velocity, or none.
LooseRejected(n, begin, end, answer) ==
  /\ map # {} /\ ~Accepted(answer)
  /\ pose' = pose + (end - begin)
  /\ velocity' = IF end > begin THEN velocity /\ ConstantVelocity ELSE velocity
  /\ report' = [rmse |-> Of(n, answer.rmse), corr |-> n, ratio |-> None]

LooseAccepted(n, begin, end, answer) ==
  /\ map # {} /\ Accepted(answer)
  /\ pose' = end
  /\ velocity' = (velocity \/ end > begin)
  /\ report' = [rmse |-> Of(n, answer.rmse), corr |-> n, ratio |-> None]

RegisterLoose(n, begin, end, trusted) ==
  /\ \/ trusted /\ LooseBootstrap(n, begin, end)
     \/ \E answer \in LooseAnswers(HasPlanes) :
          \/ ~trusted /\ LooseRejected(n, begin, end, answer)
          \/ trusted /\ LooseAccepted(n, begin, end, answer)
  /\ SeedFromLoose
  /\ UNCHANGED gravity

\* No usable IMU in the window: neither the state nor the pose is moved.
TightNoImu(n, end, dt) ==
  /\ dt = 0
  /\ report' = [report EXCEPT !.ratio = None]
  /\ pose' = Defined(pose, end)
  /\ state' = [state EXCEPT !.at = Defined(@, end)]
  /\ navCov' = Defined(navCov, end)
  /\ UNCHANGED <<velocity, gravity, biasCov>>

TightBootstrap(n, end, dt) ==
  /\ dt > 0 /\ map = {}
  /\ report' = Fresh
  /\ pose' = Defined(pose, end)
  /\ state' = [state EXCEPT !.at = Defined(@, end)]
  /\ navCov' = Defined(navCov, end)
  /\ biasCov' = biasCov + dt
  /\ UNCHANGED <<velocity, gravity>>

TightReport(n, answer) ==
  [rmse |-> Of(n, answer.rmse), corr |-> n, ratio |-> Of(n, answer.ratio)]

\* Mutant of TightRejected: a coast keeps the covariance of the last solve.
TightRejectedNoCov(n, end, dt, answer) ==
  /\ ~Accepted(answer)
  /\ state' = [state EXCEPT !.at = @ + dt]
  /\ pose' = state.at + dt /\ velocity' = state.velocity
  /\ UNCHANGED <<gravity, navCov>>
  /\ biasCov' = biasCov + dt

\* The prediction is committed, and its covariance propagated with it.
TightRejected(n, end, dt, answer) ==
  /\ ~Accepted(answer)
  /\ state' = [state EXCEPT !.at = @ + dt]
  /\ pose' = state.at + dt /\ velocity' = state.velocity
  /\ navCov' = navCov + dt
  /\ UNCHANGED gravity
  /\ biasCov' = biasCov + dt

TightAccepted(n, end, dt, answer, run) ==
  /\ Accepted(answer)
  /\ state' = [at |-> end, velocity |-> TRUE, bias |-> [run |-> run, scan |-> n]]
  /\ pose' = end /\ velocity' = TRUE
  /\ gravity' = [run |-> run, scan |-> n]
  /\ \E posterior \in PosteriorExists :
       IF posterior THEN navCov' = end /\ biasCov' = 0
       ELSE navCov' = navCov /\ biasCov' = biasCov + dt

\* The joint solve, and whether its bias goes to the deskew.
TightSolve(n, end, dt, trusted, resync, run) ==
  /\ dt > 0 /\ map # {}
  /\ \E answer \in TightAnswers(HasPlanes) :
       /\ trusted = Accepted(answer) /\ resync = Resyncs(answer)
       /\ report' = TightReport(n, answer)
       /\ TightRejected(n, end, dt, answer) \/ TightAccepted(n, end, dt, answer, run)

RegisterTight(n, end, dt, trusted, resync, run) ==
  \/ ~trusted /\ ~resync /\ TightNoImu(n, end, dt)
  \/ trusted /\ ~resync /\ TightBootstrap(n, end, dt)
  \/ TightSolve(n, end, dt, trusted, resync, run)

Tight == UseTight /\ scansDone >= Warmup
-----------------------------------------------------------------------------
(* [6] The map. *)

\* prune(): what lies out of range of the pose goes; that may be all of it.
Pruned(m) == IF Leaves THEN SUBSET m ELSE {m}

\* Mutants of InsertIntoMap: the first scan ends the bootstrap; every scan is
\* inserted.
InsertEndsBootstrap(n, trusted) ==
  /\ bootstrapped' = (bootstrapped \/ trusted)
  /\ IF ~trusted /\ bootstrapped'
       THEN UNCHANGED map
       ELSE map' \in Pruned(map \cup {n})

InsertUntrusted(n, trusted) ==
  /\ bootstrapped' = (bootstrapped \/ (trusted /\ map # {}))
  /\ map' \in Pruned(map \cup {n})

InsertIntoMap(n, trusted) ==
  /\ bootstrapped' = (bootstrapped \/ (trusted /\ map # {}))
  /\ IF ~trusted /\ bootstrapped'
       THEN UNCHANGED map
       ELSE map' \in Pruned(map \cup {n})
-----------------------------------------------------------------------------
(* processScan(). *)

\* deskew_->process() and, after a tight solve whose rotation the LiDAR can
\* verify, set_gyro_bias().
Deskewed(g, resync) ==
  deskew' = [end |-> ScanEnd(g), span |-> g.span, rot |-> DeltaRot(g, deskew.end),
             bias |-> IF resync THEN state'.bias ELSE deskew.bias]

Register(g, n, trusted) ==
  LET begin == WindowBegin(g)
      end == ScanEnd(g)
      factor == Preintegrated(g.imu, begin, end)
  IN /\ IF Tight
          THEN \E resync \in BOOLEAN :
                 /\ RegisterTight(n, end, Elapsed(factor), trusted, resync, g.run)
                 /\ Deskewed(g, resync)
          ELSE /\ RegisterLoose(n, begin, end, trusted)
               /\ Deskewed(g, FALSE)
     /\ prevScanEnd' = end
     /\ scansDone' = scansDone + 1
     /\ result' = [scan |-> n, run |-> g.run, ok |-> TRUE, trusted |-> trusted,
                   path |-> IF Tight THEN "tight" ELSE "loose",
                   begin |-> begin, end |-> end, factor |-> factor,
                   points |-> Compensated(g, deskew.end), report |-> report']

ProcessScan(g) ==
  LET n == scans + 1 IN
    /\ n <= MaxScans
    /\ scans' = n
    /\ IF Deskewable(g, deskew.end)
         THEN \E trusted \in BOOLEAN : Register(g, n, trusted) /\ InsertIntoMap(n, trusted)
         ELSE /\ result' = [NoResult EXCEPT !.scan = n, !.run = g.run]
              /\ UNCHANGED solved
-----------------------------------------------------------------------------
(* Properties. *)

Times == {NoTime} \cup Nat
Report == [rmse : 0 .. MaxScans, corr : 0 .. MaxScans, ratio : 0 .. MaxScans]

\* Every variable has its type.
EstimatorTypeOK ==
  /\ scans \in 0 .. MaxScans
  /\ deskew \in [end : Times, span : Nat, rot : [from : Times, to : Times], bias : Origin]
  /\ pose \in Times /\ velocity \in BOOLEAN
  /\ state \in [at : Times, velocity : BOOLEAN, bias : Origin]
  /\ gravity \in Origin /\ navCov \in Times /\ biasCov \in Nat
  /\ map \subseteq 1 .. MaxScans /\ bootstrapped \in BOOLEAN
  /\ scansDone \in 0 .. MaxScans /\ prevScanEnd \in Times
  /\ report \in Report
  /\ result \in [scan : 0 .. MaxScans, run : Nat, ok : BOOLEAN, trusted : BOOLEAN,
                 path : {"none", "loose", "tight"}, begin : Times, end : Times,
                 factor : SUBSET [from : Nat, to : Nat, sample : Nat],
                 points : SUBSET [at : Nat, from : Nat, to : Nat], report : Report]
  /\ result.ok => result.begin \in Nat /\ result.end \in Nat

\* This step ran a scan through the stages, on the path named.
Ran(path) == result' # result /\ result'.path = path

\* The motion that the loose path adds to its pose is the motion since that
\* pose, in rotation and in time, however many scans were dropped or had no
\* points in between (registerScan(), Deskew::process()).
GuessSpansPose ==
  [][ Ran("loose") /\ map # {} =>
        /\ result'.begin = pose
        /\ deskew'.rot = [from |-> pose, to |-> result'.end] ]_estVars

\* The IMU factor is integrated over exactly the time from the state it starts
\* at to the end of the scan, all of it and none of it twice, however the
\* samples lie and whatever groups were merged (buildPreintegration()).
FactorSpansPoses ==
  [][ Ran("tight") /\ map # {} =>
        /\ state.at = result'.begin
        /\ UNION {p.from .. p.to - 1 : p \in result'.factor}
             = result'.begin .. result'.end - 1
        /\ Elapsed(result'.factor) = result'.end - result'.begin ]_estVars

\* Every point of the cloud is turned from the instant it was taken at to the
\* end of the scan, the instant its pose will refer to: neither end of that
\* rotation is clamped to what the IMU covers (Deskew::process(), GyrInt).
PointsAtScanEnd ==
  \A p \in result.points : p.from = p.at /\ p.to = result.end

\* The covariance that weighs the IMU factor is the one of the state the factor
\* starts at: it is neither left behind by a coast nor ahead of one.
CovarianceOfState ==
  [][ Ran("tight") /\ map # {} => navCov = state.at ]_estVars

\* The pose that is published with a scan is the one at the scan's end, whether
\* it was aligned, predicted or carried over (registerScan(), publishOdom()).
PoseAtScanEnd ==
  [][ result' # result /\ result'.ok => pose' = result'.end ]_estVars

\* With a hole in the IMU the pose may lie before the end of its scan, but it
\* is never ahead of it: however often a prediction is carried over, no part of
\* a window is counted twice (buildPreintegration(), registerScanTight()).
NeverAhead ==
  [][ Ran("tight") => pose' <= result'.end /\ state'.at <= result'.end ]_estVars

\* A map too sparse to align with is never refused a scan, or it would stay
\* sparse for ever (insertIntoMap()).
Refused == ~result.trusted /\ bootstrapped
SparseMapFed == [][ result' # result /\ result'.ok /\ ~HasPlanes => ~Refused' ]_estVars

\* After the bootstrap, a scan enters the map only if a solve has aligned it.
MapHoldsAligned ==
  [][ bootstrapped /\ map' # map /\ scans' # scans
        => result'.trusted /\ result'.report.corr = result'.scan ]_estVars

\* The rotation ratio that a result reports is this scan's, or zero.
RatioOfScan ==
  result.ok => result.report.ratio \in {None, result.scan}

\* A scan is processed with the biases and the gravity of its own run, although
\* reset() leaves some of them alone (reset(), initialize()).
CalibrationOfRun ==
  [][ result' # result =>
        {deskew.bias.run, state.bias.run, gravity.run} = {result'.run} ]_estVars

\* The tight path starts from a velocity that the warm-up measured.
VelocityMeasured == [][ Ran("tight") => state.velocity ]_estVars
=============================================================================
