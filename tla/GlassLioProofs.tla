---------------------------- MODULE GlassLioProofs ---------------------------
(***************************************************************************)
(* Proofs about GlassLio, for every value of its constants: the whole of   *)
(* the live program is the node of GlassLioNode, so what is proved of the  *)
(* groups that the node hands over holds of those the estimator gets, and  *)
(* with it what is proved of one scan of the estimator.                    *)
(***************************************************************************)
EXTENDS GlassLio, NodeOrderProofs, EstimatorProofs

-----------------------------------------------------------------------------
(* The whole implements the node.                                           *)

LEMMA SystemStep == [SystemNext]_systemVars => [Next]_vars
<1>1. SystemReset => Next
  BY Zenon DEF SystemReset, Next, Worker
<1>2. SystemInitialize => Next
  BY Zenon DEF SystemInitialize, Next, Worker
<1>3. SystemScan => Next
  BY Zenon DEF SystemScan, Next, Worker
<1>4. NodeAlone => Next
  BY Zenon DEF NodeAlone, Next, Worker
<1>5. UNCHANGED systemVars => UNCHANGED vars
  BY DEF systemVars
<1>6. QED
  BY <1>1, <1>2, <1>3, <1>4, <1>5, Zenon DEF SystemNext

(* What the model of the node leaves open -- whether a scan gives a cloud, and
   whether it enters the map -- the estimator decides, and nothing else: all that
   GlassLioNode promises, the whole keeps. *)
THEOREM SystemImplementsNode == SystemSpec => Spec
<1>1. SystemInit => Init
  BY DEF SystemInit
<1>2. QED
  BY <1>1, SystemStep, PTL DEF SystemSpec, Spec

LEMMA SystemOrdered == SystemSpec => []OrderInv
<1>1. Init => OrderInv
  BY OrderInvInit
<1>2. OrderInv /\ [Next]_vars => OrderInv'
  BY OrderInvStep
<1>3. QED
  BY <1>1, <1>2, SystemImplementsNode, PTL DEF Spec

LEMMA SystemOfWorld == SystemSpec => []WorldInv
<1>1. Init => WorldInv
  BY WorldInvInit
<1>2. WorldInv /\ [Next]_vars => WorldInv'
  BY WorldInvStep
<1>3. QED
  BY <1>1, <1>2, SystemImplementsNode, PTL DEF Spec

(* A step resets the estimator, initialises it, gives it a scan, or leaves it
   alone, and then the node's own copy too. *)
Alone == NodeAlone \/ UNCHANGED systemVars

LEMMA SystemSteps ==
  ASSUME [SystemNext]_systemVars
  PROVE  \/ SystemReset \/ SystemInitialize
         \/ \E span \in Spans, points \in Points :
              /\ HandleScan /\ ProcessScan(InHand(span, points))
              /\ wpc' = IF result'.ok THEN "publish" ELSE "top"
              /\ est'.map = IF scans' \in map' THEN est.map \cup {meas.scan.world} ELSE est.map
         \/ Alone /\ UNCHANGED <<est, estVars>>
<1>1. NodeAlone => UNCHANGED <<est, estVars>>
  <2>1. \A t \in Stamps : ImuMessage(t) \/ LidarMessage(t) => UNCHANGED est
    BY DEF ImuMessage, LidarMessage, workerVars
  <2>2. Callback => UNCHANGED est
    BY DEF Callback, Reset, AddInitSample, AcceptImu, AcceptLidar, OnInitialized, EnqueueReady,
           Notify, Destroy, Join, workerVars
  <2>3. Interrupt \/ LoopTest \/ Wait \/ SpuriousWakeUp \/ Stop \/ TakeReset \/ Publish
          => UNCHANGED est
    BY DEF Interrupt, LoopTest, Wait, SpuriousWakeUp, Stop, TakeReset, Publish, workerVars
  <2>4. TakeInit \/ TakeScan \/ Terminated => UNCHANGED est
    BY DEF TakeInit, TakeScan, Terminated, vars, workerVars
  <2>5. NodeAlone => UNCHANGED est /\ UNCHANGED estVars
    BY <2>1, <2>2, <2>3, <2>4, Zenon DEF NodeAlone
  <2>6. QED
    BY <2>5
<1>2. UNCHANGED systemVars => UNCHANGED <<est, estVars>>
  BY DEF systemVars, vars, workerVars
<1>3. QED
  BY <1>1, <1>2, Zenon DEF SystemNext, SystemScan, Alone

(* The group that the worker holds is one that the estimator can be given. *)
LEMMA InHandSpec ==
  ASSUME OrderInv, wpc = "process", NEW span \in Spans, NEW points \in Points
  PROVE  LET g == InHand(span, points)
         IN /\ g \in ScanGroup /\ InOrder(g.imu) /\ g.imu # <<>>
            /\ g.run = meas.scan.world /\ g.header = meas.scan.stamp
            /\ g.span = span /\ g.points = points /\ g.imu = meas.imu
            /\ g.header \in Stamps
            /\ g.imu[1] <= g.header
            /\ g.header + ScanGuard <= g.imu[Len(g.imu)]
            /\ ScanEnd(g) = meas.scan.stamp + span
<1> DEFINE g == InHand(span, points)
<1>1. /\ g.run = meas.scan.world /\ g.header = meas.scan.stamp
      /\ g.span = span /\ g.points = points /\ g.imu = meas.imu
      /\ g = [run |-> meas.scan.world, header |-> meas.scan.stamp, span |-> span,
              points |-> points, imu |-> meas.imu]
  BY DEF InHand
<1> HIDE DEF g
<1>2. Bracketed(meas) /\ meas \in MeasureGroup
  BY DEF OrderInv, TakenCovered, TypeOK
<1>3. meas.imu \in Seq(Stamps) /\ meas.scan \in Scan
  BY <1>2 DEF MeasureGroup
<1>4. /\ meas.imu # <<>> /\ Sorted(meas.imu)
      /\ meas.imu[1] <= meas.scan.stamp
      /\ meas.imu[Len(meas.imu)] >= meas.scan.stamp + ScanGuard
  BY <1>2 DEF Bracketed, Covers
<1>5. meas.scan.stamp \in Stamps
  <2>1. meas.imu[1] \in Stamps /\ Stamps \subseteq Nat
    BY <1>3, <1>4, StampsInt, NodeAssumption
  <2>2. meas.scan.stamp \in Stamps \cup {NoStamp}
    BY <1>3 DEF Scan
  <2>3. ~(meas.imu[1] <= NoStamp)
    <3>1. meas.imu[1] \in Nat
      BY <2>1
    <3>2. \A x \in Nat : ~(x <= NoStamp)
      BY DEF NoStamp
    <3>3. QED
      BY <3>1, <3>2
  <2>4. QED
    BY <2>2, <2>3, <1>4
<1>6. g \in ScanGroup
  <2>1. meas.imu \in Seq(Nat) /\ meas.scan.stamp \in Nat
    <3>1. \A i \in 1 .. Len(meas.imu) : meas.imu[i] \in Nat
      BY <1>3, StampsInt, NodeAssumption
    <3>2. meas.imu \in [1 .. Len(meas.imu) -> Stamps] /\ Len(meas.imu) \in Nat
      BY <1>3, LenProperties
    <3>3. meas.imu \in [1 .. Len(meas.imu) -> Nat]
      BY <3>1, <3>2
    <3>4. meas.imu \in Seq(Nat)
      BY <3>2, <3>3, SeqDef
    <3>5. QED
      BY <3>4, <1>5, NodeAssumption
  <2>2. meas.scan.world \in Nat
    BY <1>3 DEF Scan
  <2>3. span \in Nat /\ points \in BOOLEAN
    BY GlassLioAssumption
  <2>4. QED
    BY <2>1, <2>2, <2>3, <1>1 DEF ScanGroup
<1>7. InOrder(g.imu)
  BY <1>1, <1>4 DEF InOrder, Sorted
<1>8. g.header + ScanGuard <= g.imu[Len(g.imu)]
  <2> DEFINE last == meas.imu[Len(meas.imu)]
  <2>1. last \in Int /\ meas.scan.stamp \in Int /\ ScanGuard \in Int
    BY <1>3, <1>4, <1>5, StampsInt, ConstantsType
  <2>2. last >= meas.scan.stamp + ScanGuard
    BY <1>4
  <2> HIDE DEF last
  <2>3. meas.scan.stamp + ScanGuard <= last
    BY <2>1, <2>2
  <2>4. QED
    BY <2>3, <1>1 DEF last
<1>9. ScanEnd(g) = meas.scan.stamp + span
  BY <1>1 DEF ScanEnd
<1>10. QED
  BY <1>1, <1>4, <1>5, <1>6, <1>7, <1>8, <1>9, Zenon DEF g
-----------------------------------------------------------------------------
(* What holds whatever order stamps come in.                                *)

LEMMA SystemRecords == SystemSpec => []Records
<1>1. SystemInit => Records
  BY InitRecords DEF SystemInit
<1>2. OrderInv /\ Records /\ [SystemNext]_systemVars => Records'
  <2> SUFFICES ASSUME OrderInv, Records, [SystemNext]_systemVars PROVE Records'
    OBVIOUS
  <2>1. CASE SystemReset
    BY <2>1, ResetRecords DEF SystemReset
  <2>2. CASE SystemInitialize
    BY <2>2, InitializeRecords DEF SystemInitialize
  <2>3. ASSUME NEW span \in Spans, NEW points \in Points,
               HandleScan, ProcessScan(InHand(span, points))
        PROVE  Records'
    <3>1. wpc = "process"
      BY <2>3 DEF HandleScan
    <3>2. InHand(span, points) \in ScanGroup
      BY <3>1, InHandSpec
    <3>3. QED
      BY <2>3, <3>2, ScanRecords
  <2>4. CASE UNCHANGED <<est, estVars>>
    BY <2>4 DEF Records, estVars, solved
  <2>5. QED
    BY <2>1, <2>2, <2>3, <2>4, SystemSteps, Zenon
<1>3. QED
  BY <1>1, <1>2, SystemOrdered, PTL DEF SystemSpec

(* The estimator is initialised for the world that the node thinks it is, and all
   that is calibrated in it with it. *)
Calibrated ==
  /\ est.seed = state.bias.run
  /\ est.seed # NoWorld => CalibratedFor(est.seed)

(* A scan in the worker's hands is of some world. *)
HeldOfWorld == wpc = "process" => meas.scan.world # NoWorld

LEMMA SystemHeld == SystemSpec => []HeldOfWorld
<1>1. Init => HeldOfWorld
  BY DEF Init, HeldOfWorld
<1>2. WorldInv /\ HeldOfWorld /\ [Next]_vars => HeldOfWorld'
  <2> SUFFICES ASSUME WorldInv, HeldOfWorld, [Next]_vars, wpc' = "process"
               PROVE  meas'.scan.world # NoWorld
    BY DEF HeldOfWorld
  <2>1. CASE meas' = meas /\ wpc = "process"
    BY <2>1 DEF HeldOfWorld
  <2>2. CASE TakeScan
    <3>1. queue \in Seq(MeasureGroup) /\ queue # <<>> /\ meas' = Head(queue)
      BY <2>2 DEF TakeScan, WorldInv, TypeOK
    <3>2. 1 \in DOMAIN queue /\ Head(queue) = queue[1]
      BY <3>1, EmptySeq, LenProperties
    <3>3. queue[1].scan.world = world /\ world # NoWorld
      BY <3>2 DEF WorldInv, BufferedOfWorld, TypeOK
    <3>4. QED
      BY <3>1, <3>2, <3>3
  <2>3. ~TakeScan => wpc = "process"
    <3>1. ASSUME NEW t \in Stamps, ImuMessage(t) \/ LidarMessage(t)
          PROVE  wpc = "process"
      BY <3>1 DEF ImuMessage, LidarMessage
    <3>2. Callback => wpc = "process"
      BY DEF Callback, Reset, AddInitSample, AcceptImu, AcceptLidar, OnInitialized,
             EnqueueReady, Notify, Destroy, Join
    <3>3. Interrupt \/ LoopTest \/ Wait \/ SpuriousWakeUp \/ Stop \/ TakeReset \/ TakeInit
            => wpc = "process"
      BY DEF Interrupt, LoopTest, Wait, SpuriousWakeUp, Stop, TakeReset, TakeInit
    <3>4. ResetEstimator \/ InitEstimator \/ HandleScan \/ Publish => wpc = "process"
      BY DEF ResetEstimator, InitEstimator, HandleScan, Publish
    <3>5. Terminated \/ UNCHANGED vars => wpc = "process"
      BY DEF Terminated, vars
    <3>6. QED
      BY <3>1, <3>2, <3>3, <3>4, <3>5, Zenon DEF Next, Worker
  <2>4. meas' # meas => TakeScan
    BY TakenIs
  <2>5. QED
    BY <2>1, <2>2, <2>3, <2>4
<1>3. QED
  BY <1>1, <1>2, SystemOfWorld, SystemImplementsNode, PTL DEF Spec

(* One scan, of the estimator and of the node's copy of it. *)
LEMMA ScanOfWorld ==
  ASSUME OrderInv, WorldInv, HeldOfWorld, Calibrated, HandleScan,
         NEW span \in Spans, NEW points \in Points, ProcessScan(InHand(span, points))
  PROVE  /\ InHand(span, points) \in ScanGroup
         /\ InHand(span, points).run = est.seed
         /\ CalibratedFor(InHand(span, points).run)
         /\ est'.seed = est.seed
<1> DEFINE g == InHand(span, points)
<1>1. wpc = "process"
  BY DEF HandleScan
<1>2. g \in ScanGroup /\ g.run = meas.scan.world
  BY <1>1, InHandSpec
<1> HIDE DEF g
<1>3. est.seed = meas.scan.world /\ meas.scan.world # NoWorld
  BY <1>1 DEF WorldInv, EstimatorMatchesScan, HeldOfWorld
<1>4. CalibratedFor(est.seed)
  BY <1>3, Zenon DEF Calibrated
<1>5. est'.seed = est.seed
  <2>1. est \in [seed : Nat, map : SUBSET Nat]
    BY DEF OrderInv, TypeOK
  <2>2. est' = est \/ est' = [est EXCEPT !.map = @ \cup {meas.scan.world}]
    BY DEF HandleScan
  <2>3. QED
    BY <2>1, <2>2
<1>6. QED
  BY <1>2, <1>3, <1>4, <1>5, Zenon DEF g

LEMMA SystemCalibrated == SystemSpec => []Calibrated
<1>1. SystemInit => Calibrated
  BY DEF SystemInit, Init, EstimatorInit, Calibrated, Blank, NoWorld, None, NoOrigin
<1>2. OrderInv /\ WorldInv /\ HeldOfWorld /\ Records /\ Calibrated /\ [SystemNext]_systemVars
        => Calibrated'
  <2> SUFFICES ASSUME OrderInv, WorldInv, HeldOfWorld, Records, Calibrated,
                      [SystemNext]_systemVars
               PROVE  Calibrated'
    OBVIOUS
  <2>1. CASE SystemReset
    <3>1. est' = Blank /\ state' = [at |-> NoTime, velocity |-> FALSE, bias |-> NoOrigin]
      BY <2>1, Zenon DEF SystemReset, ResetEstimator, EstimatorReset
    <3>2. est'.seed = NoWorld /\ state'.bias.run = None
      BY <3>1 DEF Blank, NoOrigin
    <3>3. QED
      BY <3>2 DEF Calibrated, NoWorld, None
  <2>2. CASE SystemInitialize
    <3>1. PICK run : run = seed
      OBVIOUS
    <3>2. Initialize(run) /\ seed' = run
      BY <2>2, <3>1 DEF SystemInitialize, InitEstimator
    <3>3. CalibratedFor(run)'
      BY <3>2, InitializeCalibrates
    <3>4. est'.seed = run
      <4>1. est \in [seed : Nat, map : SUBSET Nat]
        BY DEF OrderInv, TypeOK
      <4>2. QED
        BY <2>2, <3>1, <4>1 DEF SystemInitialize, InitEstimator
    <3>5. QED
      BY <3>3, <3>4 DEF Calibrated, CalibratedFor
  <2>3. ASSUME NEW span \in Spans, NEW points \in Points,
               HandleScan, ProcessScan(InHand(span, points))
        PROVE  Calibrated'
    <3>1. PICK g : g = InHand(span, points)
      OBVIOUS
    <3>2. PICK run : run = g.run
      OBVIOUS
    <3>3. CalibratedFor(run) /\ run = est.seed /\ est'.seed = run /\ ProcessScan(g)
      BY <2>3, <3>1, <3>2, ScanOfWorld, Zenon
    <3>4. CalibratedFor(g.run)'
      BY <3>2, <3>3, ScanCalibrated
    <3>5. QED
      BY <3>2, <3>3, <3>4 DEF Calibrated, CalibratedFor
  <2>4. CASE UNCHANGED <<est, estVars>>
    BY <2>4 DEF Calibrated, CalibratedFor, estVars, solved
  <2>5. QED
    BY <2>1, <2>2, <2>3, <2>4, SystemSteps, Zenon
<1>3. QED
  BY <1>1, <1>2, SystemOrdered, SystemOfWorld, SystemHeld, SystemRecords, PTL DEF SystemSpec

(* Only a scan gives a result. *)
LEMMA ScannedIs ==
  ASSUME [SystemNext]_systemVars, result' # result
  PROVE  HandleScan /\ \E span \in Spans, points \in Points : ProcessScan(InHand(span, points))
<1>1. ~UNCHANGED <<est, estVars>>
  BY DEF estVars
<1>2. ~SystemReset /\ ~SystemInitialize
  BY DEF SystemReset, EstimatorReset, SystemInitialize, Initialize
<1>3. QED
  BY <1>1, <1>2, SystemSteps, Zenon

(* A scan is processed with the biases and the gravity of its own run, in whatever
   order resets and initialisations reach the worker. *)
THEOREM CalibrationOfRunAlways == SystemSpec => CalibrationOfRun
<1>1. OrderInv /\ WorldInv /\ HeldOfWorld /\ Calibrated /\ [SystemNext]_systemVars
        => [result' # result =>
              {deskew.bias.run, state.bias.run, gravity.run} = {result'.run}]_estVars
  <2> SUFFICES ASSUME OrderInv, WorldInv, HeldOfWorld, Calibrated,
                      [SystemNext]_systemVars, result' # result
               PROVE  {deskew.bias.run, state.bias.run, gravity.run} = {result'.run}
    OBVIOUS
  <2>1. PICK span \in Spans, points \in Points :
          HandleScan /\ ProcessScan(InHand(span, points))
    BY ScannedIs
  <2>2. PICK g : g = InHand(span, points)
    OBVIOUS
  <2>3. CalibratedFor(g.run) /\ ProcessScan(g)
    BY <2>1, <2>2, ScanOfWorld, Zenon
  <2>4. result'.run = g.run
    BY <2>3, ScanRun
  <2>5. QED
    BY <2>3, <2>4 DEF CalibratedFor
<1>2. QED
  BY <1>1, SystemOrdered, SystemOfWorld, SystemHeld, SystemCalibrated, PTL
  DEF SystemSpec, CalibrationOfRun

(* The estimator is what the node has it for, in a map that the robot never
   leaves: with what pruning takes, the map may empty again. *)
MapAsAssumed == est.map = {} <=> map = {}

THEOREM EstimatorAsAssumedAlways ==
  ASSUME Leaves = FALSE
  PROVE  SystemSpec => []EstimatorAsAssumed
<1>1. SystemInit => MapAsAssumed
  BY DEF SystemInit, Init, EstimatorInit, MapAsAssumed, Blank
<1>2. OrderInv /\ MapAsAssumed /\ [SystemNext]_systemVars => MapAsAssumed'
  <2> SUFFICES ASSUME OrderInv, MapAsAssumed, [SystemNext]_systemVars
               PROVE  MapAsAssumed'
    OBVIOUS
  <2>1. CASE SystemReset
    BY <2>1 DEF SystemReset, ResetEstimator, EstimatorReset, MapAsAssumed, Blank
  <2>2. CASE SystemInitialize
    <3>1. est \in [seed : Nat, map : SUBSET Nat]
      BY DEF OrderInv, TypeOK
    <3>2. est'.map = est.map /\ map' = map
      BY <2>2, <3>1 DEF SystemInitialize, InitEstimator, Initialize
    <3>3. QED
      BY <3>2 DEF MapAsAssumed
  <2>3. ASSUME NEW span \in Spans, NEW points \in Points,
               ProcessScan(InHand(span, points)),
               est'.map = IF scans' \in map' THEN est.map \cup {meas.scan.world}
                                             ELSE est.map
        PROVE  MapAsAssumed'
    <3>1. PICK g : g = InHand(span, points)
      OBVIOUS
    <3>2. scans' = scans + 1 /\ (map' = map \/ map' = map \cup {scans + 1})
      <4>1. ASSUME NEW trusted, InsertIntoMap(scans + 1, trusted)
            PROVE  map' = map \/ map' = map \cup {scans + 1}
        <5>1. map' = map \/ map' \in Pruned(map \cup {scans + 1})
          BY <4>1, Zenon DEF InsertIntoMap
        <5>2. Pruned(map \cup {scans + 1}) = {map \cup {scans + 1}}
          BY DEF Pruned
        <5>3. QED
          BY <5>1, <5>2
      <4>2. UNCHANGED solved => map' = map
        BY DEF solved
      <4>3. ProcessScan(g)
        BY <2>3, <3>1
      <4>4. QED
        BY <4>1, <4>2, <4>3, Scanned, Zenon
    <3>3. CASE map' = map
      BY <2>3, <3>3 DEF MapAsAssumed
    <3>4. CASE map' = map \cup {scans + 1}
      BY <2>3, <3>2, <3>4 DEF MapAsAssumed
    <3>5. QED
      BY <3>2, <3>3, <3>4
  <2>4. CASE UNCHANGED <<est, estVars>>
    BY <2>4 DEF MapAsAssumed, estVars, solved
  <2>5. QED
    BY <2>1, <2>2, <2>3, <2>4, SystemSteps, Zenon
<1>3. Calibrated /\ MapAsAssumed => EstimatorAsAssumed
  BY DEF Calibrated, MapAsAssumed, EstimatorAsAssumed
<1>4. QED
  BY <1>1, <1>2, <1>3, SystemOrdered, SystemCalibrated, PTL DEF SystemSpec

(* A scan with points is always deskewed, if the guard is not zero: what the node
   prunes and merges never leaves a group without a sample past its scan's start. *)
LEMMA HeldDeskewable ==
  ASSUME Points = {TRUE}, ScanGuard > 0, OrderInv, Records, wpc = "process",
         NEW span \in Spans, NEW points \in Points
  PROVE  Deskewable(InHand(span, points), deskew.end)
<1>1. PICK g : g = InHand(span, points)
  OBVIOUS
<1>2. /\ g \in ScanGroup /\ g.imu # <<>> /\ g.points = points /\ g.header \in Stamps
      /\ g.imu[1] <= g.header /\ g.header + ScanGuard <= g.imu[Len(g.imu)]
  BY <1>1, InHandSpec, Zenon
<1>3. g.header < g.imu[Len(g.imu)]
  <2>1. g.header \in Int /\ ScanGuard \in Int
    BY <1>2, ConstantsType
  <2>2. g.imu[Len(g.imu)] \in Nat
    BY <1>2, LastSample
  <2>3. QED
    BY <1>2, <2>1, <2>2
<1>4. g.points /\ deskew.end \in Times
  BY <1>2 DEF Records
<1>5. QED
  BY <1>1, <1>2, <1>3, <1>4, BracketedDeskewable

THEOREM EveryScanDeskewedAlways ==
  ASSUME Points = {TRUE}, ScanGuard > 0
  PROVE  SystemSpec => []EveryScanDeskewed
<1>1. SystemInit => EveryScanDeskewed
  BY DEF SystemInit, EstimatorInit, NoResult, EveryScanDeskewed
<1>2. OrderInv /\ Records /\ EveryScanDeskewed /\ [SystemNext]_systemVars
        => EveryScanDeskewed'
  <2> SUFFICES ASSUME OrderInv, Records, EveryScanDeskewed, [SystemNext]_systemVars
               PROVE  EveryScanDeskewed'
    OBVIOUS
  <2>1. CASE result' = result
    BY <2>1 DEF EveryScanDeskewed
  <2>2. CASE result' # result
    <3>1. PICK span \in Spans, points \in Points :
            HandleScan /\ ProcessScan(InHand(span, points))
      BY <2>2, ScannedIs
    <3>2. wpc = "process"
      BY <3>1 DEF HandleScan
    <3>3. PICK g : g = InHand(span, points)
      OBVIOUS
    <3>4. ProcessScan(g) /\ Deskewable(g, deskew.end)
      BY <3>1, <3>2, <3>3, HeldDeskewable
    <3>5. PICK trusted \in BOOLEAN : Register(g, scans + 1, trusted)
      BY <3>4, Scanned, Zenon
    <3>6. result'.ok
      BY <3>5 DEF Register
    <3>7. QED
      BY <3>6 DEF EveryScanDeskewed
  <2>3. QED
    BY <2>1, <2>2
<1>3. QED
  BY <1>1, <1>2, SystemOrdered, SystemRecords, PTL DEF SystemSpec
-----------------------------------------------------------------------------
(* What holds of a LiDAR whose sweeps do not overlap.                       *)

(* Stamps count from one; scans come p or more apart, and no sweep is longer. *)
Paced(p) == 0 \notin Stamps /\ LidarForward(p) /\ \A d \in Spans : d <= p

(* What a step that leaves the estimator alone does to what the worker has to do. *)
Keeps ==
  /\ UNCHANGED <<meas, resetRequested, initPending, world>>
  /\ wpc' = wpc \/ {wpc, wpc'} \cap {"process", "reset", "init"} = {}

LEMMA AloneSteps ==
  ASSUME TypeOK, Alone
  PROVE  Keeps \/ TakeScan \/ Reset \/ OnInitialized \/ TakeReset \/ TakeInit
<1>1. \A t \in Stamps : ImuMessage(t) \/ LidarMessage(t) => Keeps
  BY DEF ImuMessage, LidarMessage, handOff, workerVars, Keeps
<1>2. AddInitSample \/ AcceptImu \/ AcceptLidar \/ EnqueueReady \/ Destroy \/ Join => Keeps
  BY DEF AddInitSample, AcceptImu, AcceptLidar, EnqueueReady, Destroy, Join, handOff,
         workerVars, Keeps
<1>3. Notify => Keeps
  <2>1. Notify => /\ UNCHANGED <<meas, resetRequested, initPending, world>>
                  /\ wpc' = wpc \/ (wpc = "asleep" /\ wpc' = "lock")
    BY DEF Notify, handOff, workerVars
  <2>2. QED
    BY <2>1 DEF Keeps
<1>4. Interrupt \/ LoopTest \/ Wait \/ SpuriousWakeUp \/ Stop \/ Publish => Keeps
  BY DEF Interrupt, LoopTest, Wait, SpuriousWakeUp, Stop, Publish, cbVars, handOff,
         workerVars, Keeps
<1>5. Terminated \/ UNCHANGED systemVars => Keeps
  BY DEF Terminated, systemVars, vars, cbVars, handOff, workerVars, Keeps
<1>6. QED
  BY <1>1, <1>2, <1>3, <1>4, <1>5, Zenon DEF Alone, NodeAlone, Callback

LEMMA SystemApart ==
  ASSUME NEW p \in Nat, LidarForward(p)
  PROVE  SystemSpec => []ScansApart(p)
<1>1. Init => ScansApart(p)
  BY InitApart
<1>2. WorldInv /\ ScansApart(p) /\ [Next]_vars => ScansApart(p)'
  <2>1. WorldInv => TypeOK
    BY DEF WorldInv
  <2>2. QED
    BY <2>1, ApartStep
<1>3. QED
  BY <1>1, <1>2, SystemOfWorld, SystemImplementsNode, PTL DEF Spec

(* The last scan processed ended by the time the next one starts, if that is in the
   worker's hands, and else by the time that any next one can. *)
Behind(p) ==
  prevScanEnd # NoTime =>
    IF wpc = "process" THEN prevScanEnd <= meas.scan.stamp
    ELSE meas # NoGroup /\ prevScanEnd <= meas.scan.stamp + p

Timed(p) == Typed /\ Timeline /\ Behind(p)

LEMMA ScanTimed ==
  ASSUME NEW p \in Nat, Paced(p), OrderInv, Timed(p), wpc = "process",
         NEW span \in Spans, NEW points \in Points
  PROVE  LET g == InHand(span, points)
         IN /\ g \in ScanGroup /\ InOrder(g.imu)
            /\ Typed /\ Timeline
            /\ 0 < g.header /\ prevScanEnd <= g.header
<1>1. PICK g : g = InHand(span, points)
  OBVIOUS
<1>2. /\ g \in ScanGroup /\ InOrder(g.imu) /\ g.header \in Stamps
      /\ g.header = meas.scan.stamp
  BY <1>1, InHandSpec, Zenon
<1>3. Typed /\ Timeline /\ Behind(p)
  BY DEF Timed
<1>4. g.header \in Nat /\ 0 < g.header
  <2>1. g.header \in Nat /\ g.header # 0
    BY <1>2, NodeAssumption DEF Paced
  <2>2. QED
    BY <2>1
<1>5. prevScanEnd <= g.header
  <2>1. CASE prevScanEnd = NoTime
    BY <2>1, <1>4 DEF NoTime
  <2>2. CASE prevScanEnd # NoTime
    BY <2>2, <1>2, <1>3 DEF Behind
  <2>3. QED
    BY <2>1, <2>2
<1>6. QED
  BY <1>1, <1>2, <1>3, <1>4, <1>5, Zenon

(* A scan leaves the end of its sweep behind, or what was there. *)
LEMMA ScanBehind ==
  ASSUME NEW p \in Nat, Paced(p), OrderInv, Timed(p), HandleScan,
         NEW span \in Spans, NEW points \in Points, ProcessScan(InHand(span, points))
  PROVE  Behind(p)'
<1>1. PICK g : g = InHand(span, points)
  OBVIOUS
<1>2. wpc = "process" /\ wpc' # "process" /\ meas' = meas
  BY DEF HandleScan
<1>3. /\ g.header = meas.scan.stamp /\ g.header \in Stamps /\ g.imu # <<>>
      /\ g.imu = meas.imu /\ ScanEnd(g) = meas.scan.stamp + span
  BY <1>1, <1>2, InHandSpec, Zenon
<1>4. prevScanEnd <= g.header /\ Typed
  BY <1>1, <1>2, ScanTimed, Zenon
<1>5. meas # NoGroup
  BY <1>3 DEF NoGroup
<1>6. meas.scan.stamp \in Int /\ span \in Int /\ prevScanEnd \in Int /\ span <= p
  <2>1. meas.scan.stamp \in Int
    BY <1>3, ConstantsType
  <2>2. span \in Int /\ span <= p
    BY GlassLioAssumption DEF Paced
  <2>3. prevScanEnd \in Int
    BY <1>4 DEF Typed, EstimatorTypeOK, Times, NoTime
  <2>4. QED
    BY <2>1, <2>2, <2>3
<1>7. prevScanEnd' = prevScanEnd \/ prevScanEnd' = ScanEnd(g)
  <2>1. ASSUME NEW trusted, Outcome(g, scans + 1, trusted)
        PROVE  prevScanEnd' = ScanEnd(g)
    BY <2>1, Zenon DEF Outcome
  <2>2. UNCHANGED solved => prevScanEnd' = prevScanEnd
    BY DEF solved
  <2>3. ProcessScan(g)
    BY <1>1
  <2>4. QED
    BY <2>1, <2>2, <2>3, <1>4, Processed, Zenon
<1>8. prevScanEnd' <= meas.scan.stamp + p
  <2>1. CASE prevScanEnd' = prevScanEnd
    <3>1. prevScanEnd <= meas.scan.stamp
      BY <1>3, <1>4
    <3>2. QED
      BY <2>1, <3>1, <1>6
  <2>2. CASE prevScanEnd' = ScanEnd(g)
    BY <2>2, <1>3, <1>6
  <2>3. QED
    BY <1>7, <2>1, <2>2
<1>9. QED
  BY <1>2, <1>5, <1>8 DEF Behind

(* The next group taken starts after that. *)
LEMMA TakeBehind ==
  ASSUME NEW p \in Nat, TypeOK, ScansApart(p), Behind(p), prevScanEnd \in Times,
         TakeScan, prevScanEnd' = prevScanEnd
  PROVE  Behind(p)'
<1>1. wpc = "lock" /\ wpc' = "process" /\ meas' = Head(queue) /\ queue # <<>>
  BY DEF TakeScan
<1>2. 1 \in DOMAIN queue /\ Head(queue) = queue[1] /\ queue[1] \in MeasureGroup
  <2>1. queue \in Seq(MeasureGroup)
    BY DEF TypeOK
  <2>2. QED
    BY <1>1, <2>1, EmptySeq, LenProperties, ElementOfSeq
<1>3. SUFFICES ASSUME prevScanEnd # NoTime
               PROVE  prevScanEnd <= queue[1].scan.stamp
  BY <1>1, <1>2 DEF Behind
<1>4. meas # NoGroup /\ prevScanEnd <= meas.scan.stamp + p
  BY <1>1, <1>3 DEF Behind
<1>5. meas.scan.stamp + p <= queue[1].scan.stamp /\ meas.scan.stamp \in Stamps
  BY <1>2, <1>4 DEF ScansApart, TakenApart, Ahead
<1>6. /\ prevScanEnd \in Int /\ meas.scan.stamp \in Int /\ queue[1].scan.stamp \in Int
  <2>1. prevScanEnd \in Int
    BY DEF Times, NoTime
  <2>2. QED
    BY <2>1, <1>2, <1>5, ConstantsType, GroupFields
<1>7. QED
  BY <1>4, <1>5, <1>6

LEMMA SystemTimed ==
  ASSUME NEW p \in Nat, Paced(p)
  PROVE  SystemSpec => []Timed(p)
<1>1. SystemInit => Timed(p)
  <2>1. EstimatorInit => Behind(p)
    BY DEF EstimatorInit, Behind
  <2>2. QED
    BY <2>1, InitTyped, InitTimeline DEF SystemInit, Timed
<1>2. OrderInv /\ ScansApart(p) /\ Timed(p) /\ [SystemNext]_systemVars => Timed(p)'
  <2> SUFFICES ASSUME OrderInv, ScansApart(p), Timed(p), [SystemNext]_systemVars
               PROVE  Timed(p)'
    OBVIOUS
  <2>1. Typed /\ Timeline /\ Behind(p) /\ TypeOK
    BY DEF Timed, OrderInv
  <2>2. CASE SystemReset
    <3>1. EstimatorReset
      BY <2>2 DEF SystemReset
    <3>2. prevScanEnd' = NoTime
      BY <3>1 DEF EstimatorReset
    <3>3. Behind(p)'
      BY <3>2 DEF Behind
    <3>4. QED
      BY <2>1, <3>1, <3>3, ResetTyped, ResetTimeline DEF Timed
  <2>3. CASE SystemInitialize
    <3>1. PICK run : run = seed
      OBVIOUS
    <3>2. Initialize(run) /\ run \in Nat
      BY <2>1, <2>3, <3>1 DEF SystemInitialize, TypeOK
    <3>3. /\ prevScanEnd' = prevScanEnd /\ meas' = meas
          /\ wpc = "init" /\ wpc' = "top"
      BY <2>3 DEF SystemInitialize, InitEstimator, Initialize
    <3>4. Behind(p)'
      BY <2>1, <3>3 DEF Behind
    <3>5. QED
      BY <2>1, <3>2, <3>4, InitializeTyped, InitializeTimeline DEF Timed
  <2>4. ASSUME NEW span \in Spans, NEW points \in Points,
               HandleScan, ProcessScan(InHand(span, points))
        PROVE  Timed(p)'
    <3>1. Behind(p)'
      BY <2>4, ScanBehind
    <3>2. PICK g : g = InHand(span, points)
      OBVIOUS
    <3>3. wpc = "process"
      BY <2>4 DEF HandleScan
    <3>4. /\ g \in ScanGroup /\ InOrder(g.imu) /\ Typed /\ Timeline
          /\ 0 < g.header /\ prevScanEnd <= g.header /\ ProcessScan(g)
      BY <2>4, <3>2, <3>3, ScanTimed, Zenon
    <3>5. Typed' /\ Timeline'
      BY <3>4, ScanTyped, ScanTimeline
    <3>6. QED
      BY <3>1, <3>5 DEF Timed
  <2>5. CASE Alone /\ UNCHANGED <<est, estVars>>
    <3>1. UNCHANGED estVars
      BY <2>5
    <3>2. Typed' /\ Timeline'
      BY <2>1, <3>1, Zenon DEF Typed, EstimatorTypeOK, Timeline, estVars, solved
    <3>3. prevScanEnd' = prevScanEnd /\ prevScanEnd \in Times
      BY <2>1, <3>1 DEF estVars, solved, Typed, EstimatorTypeOK
    <3>4. CASE TakeScan
      BY <2>1, <3>2, <3>3, <3>4, TakeBehind DEF Timed
    <3>5. CASE meas' = meas /\ (wpc' = "process" <=> wpc = "process")
      <4>1. Behind(p)'
        BY <2>1, <3>3, <3>5 DEF Behind
      <4>2. QED
        BY <3>2, <4>1 DEF Timed
    <3>6. ~TakeScan => meas' = meas /\ (wpc' = "process" <=> wpc = "process")
      <4>1. Keeps => meas' = meas /\ (wpc' = "process" <=> wpc = "process")
        BY DEF Keeps
      <4>2. Reset \/ OnInitialized \/ TakeReset \/ TakeInit
              => meas' = meas /\ (wpc' = "process" <=> wpc = "process")
        BY DEF Reset, OnInitialized, TakeReset, TakeInit, workerVars
      <4>3. QED
        BY <2>1, <2>5, <4>1, <4>2, AloneSteps, Zenon
    <3>7. QED
      BY <3>4, <3>5, <3>6
  <2>6. QED
    BY <2>2, <2>3, <2>4, <2>5, SystemSteps, Zenon
<1>3. QED
  BY <1>1, <1>2, SystemOrdered, SystemApart, PTL DEF SystemSpec, Paced

(* Every variable of the estimator has its type in the whole, too. *)
THEOREM SystemTypeCorrect ==
  ASSUME NEW p \in Nat, Paced(p)
  PROVE  SystemSpec => []EstimatorTypeOK
<1>1. Timed(p) => EstimatorTypeOK
  BY DEF Timed, Typed
<1>2. QED
  BY <1>1, SystemTimed, PTL

(* A step that gives a result, as one scan that is on time. *)
LEMMA ScanOnTime ==
  ASSUME NEW p \in Nat, Paced(p), OrderInv, Timed(p), [SystemNext]_systemVars,
         result' # result
  PROVE  \E span \in Spans, points \in Points, g \in ScanGroup :
           /\ g = InHand(span, points) /\ wpc = "process" /\ ProcessScan(g)
           /\ InOrder(g.imu) /\ 0 < g.header /\ prevScanEnd <= g.header
<1>1. PICK span \in Spans, points \in Points :
        HandleScan /\ ProcessScan(InHand(span, points))
  BY ScannedIs
<1>2. wpc = "process"
  BY <1>1 DEF HandleScan
<1>3. PICK g : g = InHand(span, points)
  OBVIOUS
<1>4. /\ g \in ScanGroup /\ InOrder(g.imu) /\ 0 < g.header /\ prevScanEnd <= g.header
      /\ ProcessScan(g)
  BY <1>1, <1>2, <1>3, ScanTimed, Zenon
<1>5. QED
  BY <1>2, <1>3, <1>4, Zenon

(* No pose of the tight path is ahead of its scan, whatever holes the IMU has. *)
THEOREM NeverAheadAlways ==
  ASSUME NEW p \in Nat, Paced(p)
  PROVE  SystemSpec => NeverAhead
<1>1. OrderInv /\ Timed(p) /\ [SystemNext]_systemVars
        => [Ran("tight") => pose' <= result'.end /\ state'.at <= result'.end]_estVars
  <2> SUFFICES ASSUME OrderInv, Timed(p), [SystemNext]_systemVars, Ran("tight")
               PROVE  pose' <= result'.end /\ state'.at <= result'.end
    OBVIOUS
  <2>1. result' # result
    BY DEF Ran
  <2>2. PICK g \in ScanGroup :
          ProcessScan(g) /\ InOrder(g.imu) /\ 0 < g.header /\ prevScanEnd <= g.header
    BY <2>1, ScanOnTime, Zenon
  <2>3. Typed /\ Timeline
    BY DEF Timed
  <2>4. QED
    BY <2>2, <2>3, ScanNeverAhead
<1>2. QED
  BY <1>1, SystemOrdered, SystemTimed, PTL DEF SystemSpec, NeverAhead
-----------------------------------------------------------------------------
(* What else holds of every scan, of a LiDAR whose sweeps do not overlap.   *)

LEMMA SystemCovariance ==
  ASSUME NEW p \in Nat, Paced(p), PosteriorExists = {TRUE}
  PROVE  SystemSpec => []CovarianceMatches
<1>1. SystemInit => CovarianceMatches
  BY InitCovariance DEF SystemInit
<1>2. OrderInv /\ Timed(p) /\ CovarianceMatches /\ [SystemNext]_systemVars
        => CovarianceMatches'
  <2> SUFFICES ASSUME OrderInv, Timed(p), CovarianceMatches, [SystemNext]_systemVars
               PROVE  CovarianceMatches'
    OBVIOUS
  <2>1. CASE SystemReset
    BY <2>1, ResetCovariance DEF SystemReset
  <2>2. CASE SystemInitialize
    <3>1. PICK run : run = seed
      OBVIOUS
    <3>2. Initialize(run)
      BY <2>2, <3>1 DEF SystemInitialize
    <3>3. QED
      BY <3>2, InitializeCovariance
  <2>3. ASSUME NEW span \in Spans, NEW points \in Points, ProcessScan(InHand(span, points))
        PROVE  CovarianceMatches'
    <3>1. PICK g : g = InHand(span, points)
      OBVIOUS
    <3>2. ProcessScan(g) /\ Typed
      BY <2>3, <3>1 DEF Timed
    <3>3. QED
      BY <3>2, ScanCovariance
  <2>4. CASE UNCHANGED estVars
    BY <2>4 DEF CovarianceMatches, estVars, solved
  <2>5. QED
    BY <2>1, <2>2, <2>3, <2>4, SystemSteps, Zenon
<1>3. SystemSpec => []Timed(p)
  BY SystemTimed
<1>4. QED
  BY <1>1, <1>2, <1>3, SystemOrdered, PTL DEF SystemSpec

(* The covariance that weighs the IMU factor is the state's, through coasts, warm-ups
   and restarts, if every accepted solve leaves one. *)
THEOREM CovarianceOfStateAlways ==
  ASSUME NEW p \in Nat, Paced(p), PosteriorExists = {TRUE}
  PROVE  SystemSpec => CovarianceOfState
<1>1. CovarianceMatches => [Ran("tight") /\ map # {} => navCov = state.at]_estVars
  BY DEF CovarianceMatches
<1>2. SystemSpec => []CovarianceMatches
  BY SystemCovariance
<1>3. QED
  BY <1>1, <1>2, PTL DEF CovarianceOfState

(* The ratio that is published with a scan is not one of an earlier scan or run. *)
THEOREM RatioOfScanAlways ==
  ASSUME NEW p \in Nat, Paced(p)
  PROVE  SystemSpec => []RatioOfScan
<1>1. SystemInit => RatioOfScan
  BY DEF SystemInit, EstimatorInit, NoResult, RatioOfScan
<1>2. OrderInv /\ Timed(p) /\ RatioOfScan /\ [SystemNext]_systemVars => RatioOfScan'
  <2> SUFFICES ASSUME OrderInv, Timed(p), RatioOfScan, [SystemNext]_systemVars
               PROVE  RatioOfScan'
    OBVIOUS
  <2>1. CASE result' = result
    BY <2>1, Zenon DEF RatioOfScan
  <2>2. CASE result' # result
    <3>1. PICK g \in ScanGroup : ProcessScan(g)
      BY <2>2, ScanOnTime, Zenon
    <3>2. QED
      BY <3>1, ScanRatio DEF Timed
  <2>3. QED
    BY <2>1, <2>2
<1>3. SystemSpec => []Timed(p)
  BY SystemTimed
<1>4. QED
  BY <1>1, <1>2, <1>3, SystemOrdered, PTL DEF SystemSpec

(* No sweep is longer than the guard that its scan is held back for. *)
SpansGuarded == \A d \in Spans : d <= ScanGuard

LEMMA HeldReachesEnd ==
  ASSUME SpansGuarded, OrderInv, wpc = "process", NEW span \in Spans, NEW points \in Points,
         NEW g, g = InHand(span, points)
  PROVE  ScanEnd(g) <= g.imu[Len(g.imu)]
<1>1. /\ g \in ScanGroup /\ g.imu # <<>> /\ g.header \in Stamps
      /\ g.header = meas.scan.stamp
      /\ g.header + ScanGuard <= g.imu[Len(g.imu)]
      /\ ScanEnd(g) = meas.scan.stamp + span
  BY InHandSpec, Zenon
<1>2. g.imu[Len(g.imu)] \in Nat
  BY <1>1, LastSample
<1>3. g.header \in Int /\ ScanGuard \in Int /\ span \in Int /\ span <= ScanGuard
  <2>1. span \in Nat /\ g.header \in Int /\ ScanGuard \in Int
    BY <1>1, ConstantsType, GlassLioAssumption
  <2>2. span <= ScanGuard
    BY Zenon DEF SpansGuarded
  <2>3. QED
    BY <2>1, <2>2
<1>4. QED
  BY <1>1, <1>2, <1>3

(* Every point of a cloud is turned to the end of its scan: the node holds a scan
   back until its IMU reaches that far, whatever was merged into the group. *)
THEOREM PointsAtScanEndAlways ==
  ASSUME NEW p \in Nat, Paced(p), SpansGuarded
  PROVE  SystemSpec => []PointsAtScanEnd
<1>1. SystemInit => PointsAtScanEnd
  BY DEF SystemInit, EstimatorInit, NoResult, PointsAtScanEnd
<1>2. OrderInv /\ Timed(p) /\ PointsAtScanEnd /\ [SystemNext]_systemVars => PointsAtScanEnd'
  <2> SUFFICES ASSUME OrderInv, Timed(p), PointsAtScanEnd, [SystemNext]_systemVars
               PROVE  PointsAtScanEnd'
    OBVIOUS
  <2>1. CASE result' = result
    BY <2>1, Zenon DEF PointsAtScanEnd
  <2>2. CASE result' # result
    <3>1. PICK span \in Spans, points \in Points, g \in ScanGroup :
            g = InHand(span, points) /\ wpc = "process" /\ ProcessScan(g)
      BY <2>2, ScanOnTime, Zenon
    <3>2. ScanEnd(g) <= g.imu[Len(g.imu)]
      BY <3>1, HeldReachesEnd
    <3>3. QED
      BY <3>1, <3>2, ScanPoints DEF Timed
  <2>3. QED
    BY <2>1, <2>2
<1>3. SystemSpec => []Timed(p)
  BY SystemTimed
<1>4. QED
  BY <1>1, <1>2, <1>3, SystemOrdered, PTL DEF SystemSpec
-----------------------------------------------------------------------------
(* What holds of a map that the robot never leaves.                         *)

LEMMA SystemInRange ==
  ASSUME NEW p \in Nat, Paced(p), Leaves = FALSE
  PROVE  SystemSpec => []InRange
<1>1. SystemInit => InRange
  BY DEF SystemInit, EstimatorInit, InRange
<1>2. OrderInv /\ Timed(p) /\ InRange /\ [SystemNext]_systemVars => InRange'
  <2> SUFFICES ASSUME OrderInv, Timed(p), InRange, [SystemNext]_systemVars
               PROVE  InRange'
    OBVIOUS
  <2>1. CASE UNCHANGED <<map, scansDone, bootstrapped>>
    BY <2>1, Zenon DEF InRange, HasPlanes
  <2>2. CASE SystemReset
    BY <2>2 DEF SystemReset, EstimatorReset, InRange
  <2>3. CASE SystemInitialize
    BY <2>1, <2>3 DEF SystemInitialize, Initialize
  <2>4. CASE UNCHANGED estVars
    BY <2>1, <2>4 DEF estVars, solved
  <2>5. ASSUME NEW span \in Spans, NEW points \in Points, ProcessScan(InHand(span, points))
        PROVE  InRange'
    <3>1. PICK g : g = InHand(span, points)
      OBVIOUS
    <3>2. ProcessScan(g) /\ Typed /\ Timeline
      BY <2>5, <3>1 DEF Timed
    <3>3. QED
      BY <3>2, ScanInRange
  <2>6. QED
    BY <2>2, <2>3, <2>4, <2>5, SystemSteps, Zenon
<1>3. SystemSpec => []Timed(p)
  BY SystemTimed
<1>4. QED
  BY <1>1, <1>2, <1>3, SystemOrdered, PTL DEF SystemSpec

(* A map too sparse to align with is refused no scan, whatever came before: the node
   never stays without a map for good. *)
THEOREM SparseMapFedAlways ==
  ASSUME NEW p \in Nat, Paced(p), Leaves = FALSE
  PROVE  SystemSpec => SparseMapFed
<1>1. OrderInv /\ Timed(p) /\ InRange /\ [SystemNext]_systemVars
        => [result' # result /\ result'.ok /\ ~HasPlanes => ~Refused']_estVars
  <2> SUFFICES ASSUME OrderInv, Timed(p), InRange, [SystemNext]_systemVars,
                      result' # result, result'.ok, ~HasPlanes
               PROVE  ~Refused'
    OBVIOUS
  <2>1. PICK g \in ScanGroup : ProcessScan(g)
    BY ScanOnTime, Zenon
  <2>2. QED
    BY <2>1, ScanSparseFed DEF Timed
<1>2. SystemSpec => []Timed(p)
  BY SystemTimed
<1>3. SystemSpec => []InRange
  BY SystemInRange
<1>4. QED
  BY <1>1, <1>2, <1>3, SystemOrdered, PTL DEF SystemSpec, SparseMapFed

(* Once the map is good, only scans that a solve aligned enter it. *)
THEOREM MapHoldsAlignedAlways ==
  ASSUME NEW p \in Nat, Paced(p), Leaves = FALSE
  PROVE  SystemSpec => MapHoldsAligned
<1>1. OrderInv /\ Timed(p) /\ InRange /\ [SystemNext]_systemVars
        => [bootstrapped /\ map' # map /\ scans' # scans
              => result'.trusted /\ result'.report.corr = result'.scan]_estVars
  <2> SUFFICES ASSUME OrderInv, Timed(p), InRange, [SystemNext]_systemVars,
                      bootstrapped, map' # map, scans' # scans
               PROVE  result'.trusted /\ result'.report.corr = result'.scan
    OBVIOUS
  <2>1. ~SystemReset /\ ~SystemInitialize /\ ~UNCHANGED <<est, estVars>>
    BY DEF SystemReset, EstimatorReset, SystemInitialize, Initialize, estVars, solved
  <2>2. PICK span \in Spans, points \in Points : ProcessScan(InHand(span, points))
    BY <2>1, SystemSteps, Zenon
  <2>3. PICK g : g = InHand(span, points)
    OBVIOUS
  <2>4. ProcessScan(g) /\ Typed
    BY <2>2, <2>3 DEF Timed
  <2>5. QED
    BY <2>4, ScanMapAligned
<1>2. SystemSpec => []Timed(p)
  BY SystemTimed
<1>3. SystemSpec => []InRange
  BY SystemInRange
<1>4. QED
  BY <1>1, <1>2, <1>3, SystemOrdered, PTL DEF SystemSpec, MapHoldsAligned
-----------------------------------------------------------------------------
(* What holds if moreover the IMU reaches past every sweep, and has no hole.  *)

(* A sweep is no longer than the guard, and the clouds have points. *)
Swept(p) == Paced(p) /\ SpansGuarded /\ Points = {TRUE} /\ ScanGuard > 0

(* No two samples of the IMU are further apart than the estimator integrates over. *)
Steady(p) == Swept(p) /\ ImuSteady(MaxImuGap)

(* What the estimator has processed, since its last reset, is of this world, unless
   a reset is due; then it was initialised before, and is not again. *)
ServedInOrder ==
  /\ prevScanEnd # NoTime \/ wpc = "process" => Current \/ resetRequested \/ wpc = "reset"
  /\ wpc = "init" => prevScanEnd = NoTime
  /\ initPending /\ (prevScanEnd # NoTime \/ wpc = "process")
       => resetRequested \/ wpc = "reset"

(* The IMU of the group in hand reaches back to the end of the last scan; that of a
   next one will, since it begins by that scan's start. *)
ReachesBack ==
  prevScanEnd # NoTime =>
    IF wpc = "process" THEN meas.imu[1] <= prevScanEnd ELSE meas.scan.stamp <= prevScanEnd

LEMMA SystemChained == SystemSpec => []ChainInv
<1>1. Init => ChainInv
  BY InitChain
<1>2. OrderInv /\ WorldInv /\ ChainInv /\ [Next]_vars => ChainInv'
  BY ChainStep DEF WorldInv
<1>3. QED
  BY <1>1, <1>2, SystemOrdered, SystemOfWorld, SystemImplementsNode, PTL DEF Spec

LEMMA SystemDense ==
  ASSUME ImuSteady(MaxImuGap)
  PROVE  SystemSpec => []DenseInv(MaxImuGap)
<1>1. MaxImuGap \in Int
  BY EstimatorAssumption
<1>2. Init => DenseInv(MaxImuGap)
  BY <1>1, InitDense
<1>3. OrderInv /\ WorldInv /\ ChainInv /\ DenseInv(MaxImuGap) /\ [Next]_vars
        => DenseInv(MaxImuGap)'
  BY <1>1, DenseStep
<1>4. QED
  BY <1>2, <1>3, SystemOrdered, SystemOfWorld, SystemChained, SystemImplementsNode, PTL DEF Spec

(* Until it is initialised, the node has nothing of its world in hand. *)
LEMMA NothingBeforeInit == ASSUME WorldInv, ChainInv, cb = "init" PROVE ~Current
<1>1. sync.imu = <<>>
  BY DEF WorldInv, QueuedOnlyInitialized, InitRequested
<1>2. QED
  BY <1>1 DEF ChainInv, BufferWhole

LEMMA SystemServed == SystemSpec => []ServedInOrder
<1>1. SystemInit => ServedInOrder
  BY DEF SystemInit, Init, EstimatorInit, ServedInOrder
<1>2. OrderInv /\ WorldInv /\ ChainInv /\ ServedInOrder /\ [SystemNext]_systemVars
        => ServedInOrder'
  <2> SUFFICES ASSUME OrderInv, WorldInv, ChainInv, ServedInOrder, [SystemNext]_systemVars
               PROVE  ServedInOrder'
    OBVIOUS
  <2>1. CASE SystemReset
    BY <2>1 DEF SystemReset, ResetEstimator, EstimatorReset, ServedInOrder
  <2>2. CASE SystemInitialize
    <3>1. wpc = "init" /\ wpc' = "top" /\ prevScanEnd' = prevScanEnd
      BY <2>2 DEF SystemInitialize, InitEstimator, Initialize
    <3>2. QED
      BY <3>1 DEF ServedInOrder
  <2>3. CASE HandleScan
    <3>1. /\ wpc = "process" /\ wpc' \in {"top", "publish"}
          /\ UNCHANGED <<meas, world, resetRequested, initPending>>
      BY <2>3 DEF HandleScan, cbVars, handOff
    <3>2. QED
      BY <3>1 DEF ServedInOrder, Current
  <2>4. CASE Alone /\ UNCHANGED <<est, estVars>>
    <3>1. prevScanEnd' = prevScanEnd
      BY <2>4 DEF estVars, solved
    <3>2. CASE Keeps
      BY <3>1, <3>2 DEF Keeps, ServedInOrder, Current
    <3>3. CASE Reset
      BY <3>1, <3>3 DEF Reset, workerVars, ServedInOrder
    <3>4. CASE OnInitialized
      <4>1. ~Current
        BY <3>4, NothingBeforeInit DEF OnInitialized
      <4>2. UNCHANGED <<wpc, meas, world, resetRequested>>
        BY <3>4 DEF OnInitialized, workerVars
      <4>3. QED
        BY <3>1, <4>1, <4>2 DEF ServedInOrder, Current
    <3>5. CASE TakeReset
      BY <3>5 DEF TakeReset, ServedInOrder
    <3>6. CASE TakeInit
      BY <3>1, <3>6 DEF TakeInit, ServedInOrder
    <3>7. CASE TakeScan
      <4>1. queue \in Seq(MeasureGroup) /\ queue # <<>>
        BY <3>7 DEF TakeScan, OrderInv, TypeOK
      <4>2. 1 \in DOMAIN queue /\ Head(queue) = queue[1]
        BY <4>1, EmptySeq, LenProperties
      <4>3. Head(queue).scan.world = world
        BY <4>2 DEF WorldInv, BufferedOfWorld
      <4>4. /\ meas' = Head(queue) /\ world' = world /\ wpc' = "process"
            /\ ~initPending /\ initPending' = initPending
        BY <3>7 DEF TakeScan, cbVars
      <4>5. Current'
        BY <4>3, <4>4 DEF Current
      <4>6. QED
        BY <4>4, <4>5 DEF ServedInOrder
    <3>8. QED
      BY <2>4, <3>2, <3>3, <3>4, <3>5, <3>6, <3>7, AloneSteps, Zenon DEF OrderInv
  <2>5. QED
    BY <2>1, <2>2, <2>3, <2>4, SystemSteps, Zenon
<1>3. QED
  BY <1>1, <1>2, SystemOrdered, SystemOfWorld, SystemChained, PTL DEF SystemSpec

LEMMA SystemReaches ==
  ASSUME NEW p \in Nat, Swept(p)
  PROVE  SystemSpec => []ReachesBack
<1> USE DEF Swept
<1>1. SystemInit => ReachesBack
  BY DEF SystemInit, EstimatorInit, ReachesBack
<1>2. OrderInv /\ WorldInv /\ ChainInv /\ Records /\ Timed(p) /\ ServedInOrder
        /\ ReachesBack /\ [SystemNext]_systemVars => ReachesBack'
  <2> SUFFICES ASSUME OrderInv, WorldInv, ChainInv, Records, Timed(p), ServedInOrder,
                      ReachesBack, [SystemNext]_systemVars
               PROVE  ReachesBack'
    OBVIOUS
  <2>1. CASE SystemReset
    BY <2>1 DEF SystemReset, EstimatorReset, ReachesBack
  <2>2. CASE SystemInitialize
    BY <2>2 DEF SystemInitialize, InitEstimator, Initialize, ServedInOrder, ReachesBack
  <2>3. ASSUME NEW span \in Spans, NEW points \in Points,
               HandleScan, ProcessScan(InHand(span, points))
        PROVE  ReachesBack'
    <3>1. PICK g : g = InHand(span, points)
      OBVIOUS
    <3>2. wpc = "process" /\ wpc' # "process" /\ meas' = meas
      BY <2>3 DEF HandleScan
    <3>3. ProcessScan(g) /\ Deskewable(g, deskew.end)
      BY <2>3, <3>1, <3>2, HeldDeskewable
    <3>4. PICK trusted \in BOOLEAN : Register(g, scans + 1, trusted)
      BY <3>3, Scanned, Zenon
    <3>5. prevScanEnd' = ScanEnd(g)
      BY <3>4, Zenon DEF Register
    <3>6. ScanEnd(g) = meas.scan.stamp + span /\ g.header = meas.scan.stamp
          /\ g.header \in Stamps
      BY <3>1, <3>2, InHandSpec, Zenon
    <3>7. meas.scan.stamp \in Int /\ span \in Nat
      BY <3>6, ConstantsType, GlassLioAssumption
    <3>8. meas.scan.stamp <= prevScanEnd'
      BY <3>5, <3>6, <3>7
    <3>9. QED
      BY <3>2, <3>8 DEF ReachesBack
  <2>4. CASE Alone /\ UNCHANGED <<est, estVars>>
    <3>1. prevScanEnd' = prevScanEnd
      BY <2>4 DEF estVars, solved
    <3>2. CASE meas' = meas /\ (wpc' = "process" <=> wpc = "process")
      BY <3>1, <3>2 DEF ReachesBack
    <3>3. CASE TakeScan
      <4>1. SUFFICES ASSUME prevScanEnd # NoTime
                     PROVE  Head(queue).imu[1] <= prevScanEnd
        BY <3>1, <3>3 DEF TakeScan, ReachesBack
      <4>2. /\ wpc = "lock" /\ ~resetRequested /\ queue # <<>>
            /\ queue \in Seq(MeasureGroup)
        BY <3>3 DEF TakeScan, OrderInv, TypeOK
      <4>3. Current
        BY <4>1, <4>2 DEF ServedInOrder
      <4>4. meas.scan.stamp <= prevScanEnd
        BY <4>1, <4>2 DEF ReachesBack
      <4>5. Head(queue) = queue[1] /\ 1 \in DOMAIN queue /\ queue[1] \in MeasureGroup
        BY <4>2, EmptySeq, LenProperties, ElementOfSeq
      <4>6. queue[1].imu[1] <= meas.scan.stamp
        BY <4>2, <4>3 DEF ChainInv, HandoffWhole
      <4>7. queue[1].imu[1] \in Int
        <5>1. Bracketed(queue[1])
          BY <4>5 DEF OrderInv, QueueInOrder, QueueCovered
        <5>2. QED
          BY <4>5, <5>1, GroupFields
      <4>8. meas.scan.stamp \in Int /\ prevScanEnd \in Int
        <5>1. meas \in MeasureGroup
          BY DEF OrderInv, TypeOK
        <5>2. prevScanEnd \in Int
          BY DEF Timed, Typed, EstimatorTypeOK, Times, NoTime
        <5>3. QED
          BY <5>1, <5>2, GroupFields
      <4>9. QED
        BY <4>4, <4>5, <4>6, <4>7, <4>8
    <3>4. ~TakeScan => meas' = meas /\ (wpc' = "process" <=> wpc = "process")
      <4>1. Keeps => meas' = meas /\ (wpc' = "process" <=> wpc = "process")
        BY DEF Keeps
      <4>2. Reset \/ OnInitialized \/ TakeReset \/ TakeInit
              => meas' = meas /\ (wpc' = "process" <=> wpc = "process")
        BY DEF Reset, OnInitialized, TakeReset, TakeInit, workerVars
      <4>3. QED
        BY <2>4, <4>1, <4>2, AloneSteps, Zenon DEF OrderInv
    <3>5. QED
      BY <3>2, <3>3, <3>4
  <2>5. QED
    BY <2>1, <2>2, <2>3, <2>4, SystemSteps, Zenon
<1>3. QED
  BY <1>1, <1>2, SystemOrdered, SystemOfWorld, SystemChained, SystemRecords, SystemTimed,
     SystemServed, PTL DEF SystemSpec

(* The IMU of a scan begins before the window that it is registered over does. *)
LEMMA HeldReachesBegin ==
  ASSUME OrderInv, Typed, Timeline, ReachesBack, wpc = "process", NEW span \in Spans,
         NEW points \in Points, NEW g, g = InHand(span, points), prevScanEnd <= g.header
  PROVE  g.imu[1] <= WindowBegin(g)
<1>1. /\ g \in ScanGroup /\ g.imu = meas.imu /\ g.imu[1] <= g.header
  BY InHandSpec, Zenon
<1>2. WindowBegin(g) = IF scansDone > 0 THEN prevScanEnd ELSE g.header
  BY <1>1, WindowOf
<1>3. CASE scansDone > 0
  <2>1. prevScanEnd # NoTime
    BY <1>3 DEF Timeline, NoTime
  <2>2. QED
    BY <1>1, <1>2, <1>3, <2>1 DEF ReachesBack
<1>4. CASE ~(scansDone > 0)
  BY <1>1, <1>2, <1>4
<1>5. QED
  BY <1>3, <1>4

(* So the IMU of a scan covers the window that it is registered over. *)
LEMMA HeldCovers ==
  ASSUME NEW p \in Nat, Steady(p), OrderInv, DenseInv(MaxImuGap), Timed(p), ReachesBack,
         wpc = "process", NEW span \in Spans, NEW points \in Points
  PROVE  CoversWindow(InHand(span, points))
<1>1. PICK g : g = InHand(span, points)
  OBVIOUS
<1>2. /\ g \in ScanGroup /\ InOrder(g.imu) /\ g.imu # <<>> /\ g.imu = meas.imu
      /\ g.header = meas.scan.stamp /\ g.header \in Stamps
      /\ g.span = span /\ g.imu[1] <= g.header
      /\ g.header + ScanGuard <= g.imu[Len(g.imu)]
      /\ ScanEnd(g) = meas.scan.stamp + span
  BY <1>1, InHandSpec, Zenon
<1>3. Typed /\ Timeline /\ prevScanEnd <= g.header
  BY <1>1, ScanTimed, Zenon DEF Steady, Swept
<1>4. NoHole(g.imu)
  <2>1. Dense(MaxImuGap, meas.imu)
    BY DEF DenseInv, HandoffDense
  <2>2. QED
    BY <2>1, <1>2 DEF Dense, NoHole
<1>5. g.imu[1] <= WindowBegin(g)
  BY <1>1, <1>2, <1>3, HeldReachesBegin
<1>6. ScanEnd(g) <= g.imu[Len(g.imu)]
  BY <1>1, HeldReachesEnd DEF Steady, Swept
<1>7. QED
  BY <1>1, <1>2, <1>4, <1>5, <1>6 DEF CoversWindow
-----------------------------------------------------------------------------
(* Poses, in a map that the robot never leaves.                             *)

(* What the pose of the last scan is, on either path. *)
Posed == InRange /\ LoosePose /\ TightPose

LEMMA SystemPosed ==
  ASSUME NEW p \in Nat, Steady(p), Leaves = FALSE
  PROVE  SystemSpec => []Posed
<1>1. SystemInit => Posed
  BY DEF SystemInit, EstimatorInit, Posed, InRange, LoosePose, TightPose
<1>2. OrderInv /\ DenseInv(MaxImuGap) /\ Timed(p) /\ ServedInOrder /\ ReachesBack /\ Posed
        /\ [SystemNext]_systemVars => Posed'
  <2> SUFFICES ASSUME OrderInv, DenseInv(MaxImuGap), Timed(p), ServedInOrder, ReachesBack,
                      Posed, [SystemNext]_systemVars
               PROVE  Posed'
    OBVIOUS
  <2>1. Typed /\ Timeline
    BY DEF Timed
  <2>2. CASE scansDone' = 0 /\ bootstrapped' = FALSE
    BY <2>2 DEF Posed, InRange, LoosePose, TightPose
  <2>3. CASE SystemReset
    BY <2>2, <2>3 DEF SystemReset, EstimatorReset
  <2>4. CASE SystemInitialize
    <3>1. prevScanEnd = NoTime
      BY <2>4 DEF SystemInitialize, InitEstimator, ServedInOrder
    <3>2. scansDone = 0 /\ bootstrapped = FALSE
      <4>1. scansDone \in Nat /\ ~(scansDone > 0)
        BY <2>1, <3>1, EstimatorAssumption DEF Typed, EstimatorTypeOK, Timeline, NoTime
      <4>2. QED
        BY <2>1, <4>1 DEF Timeline
    <3>3. QED
      BY <2>2, <2>4, <3>2 DEF SystemInitialize, Initialize
  <2>5. ASSUME NEW span \in Spans, NEW points \in Points,
               HandleScan, ProcessScan(InHand(span, points))
        PROVE  Posed'
    <3>1. PICK g : g = InHand(span, points)
      OBVIOUS
    <3>2. wpc = "process"
      BY <2>5 DEF HandleScan
    <3>3. g \in ScanGroup /\ prevScanEnd <= g.header /\ ProcessScan(g)
      BY <2>5, <3>1, <3>2, ScanTimed, Zenon DEF Steady, Swept
    <3>4. CoversWindow(g)
      BY <3>1, <3>2, HeldCovers
    <3>5. InRange /\ LoosePose /\ TightPose
      BY DEF Posed
    <3>6. InRange' /\ LoosePose' /\ TightPose'
      BY <2>1, <3>3, <3>4, <3>5, ScanInRange, ScanLoosePose, ScanTightPose
    <3>7. QED
      BY <3>6 DEF Posed
  <2>6. CASE UNCHANGED estVars
    BY <2>6, Zenon DEF Posed, InRange, HasPlanes, LoosePose, TightPose, Tight, estVars, solved
  <2>7. QED
    BY <2>3, <2>4, <2>5, <2>6, SystemSteps, Zenon
<1>3. Paced(p) /\ ImuSteady(MaxImuGap)
  BY DEF Steady, Swept
<1>4. SystemSpec => []DenseInv(MaxImuGap)
  BY <1>3, SystemDense
<1>5. SystemSpec => []Timed(p)
  BY <1>3, SystemTimed
<1>6. SystemSpec => []ReachesBack
  BY SystemReaches DEF Steady
<1>7. QED
  BY <1>1, <1>2, <1>4, <1>5, <1>6, SystemOrdered, SystemServed, PTL DEF SystemSpec

LEMMA SystemLoosePose ==
  ASSUME NEW p \in Nat, Paced(p), Leaves = FALSE
  PROVE  SystemSpec => []LoosePose
<1>1. SystemInit => LoosePose
  BY DEF SystemInit, EstimatorInit, LoosePose
<1>2. OrderInv /\ Timed(p) /\ InRange /\ ServedInOrder /\ LoosePose /\ [SystemNext]_systemVars
        => LoosePose'
  <2> SUFFICES ASSUME OrderInv, Timed(p), InRange, ServedInOrder, LoosePose,
                      [SystemNext]_systemVars
               PROVE  LoosePose'
    OBVIOUS
  <2>1. Typed /\ Timeline
    BY DEF Timed
  <2>2. CASE SystemReset
    BY <2>2 DEF SystemReset, EstimatorReset, LoosePose
  <2>3. CASE SystemInitialize
    <3>1. prevScanEnd = NoTime
      BY <2>3 DEF SystemInitialize, InitEstimator, ServedInOrder
    <3>2. scansDone \in Nat /\ ~(scansDone > 0)
      BY <2>1, <3>1, EstimatorAssumption DEF Typed, EstimatorTypeOK, Timeline, NoTime
    <3>3. scansDone' = scansDone
      BY <2>3 DEF SystemInitialize, Initialize
    <3>4. QED
      BY <3>2, <3>3 DEF LoosePose
  <2>4. ASSUME NEW span \in Spans, NEW points \in Points,
               HandleScan, ProcessScan(InHand(span, points))
        PROVE  LoosePose'
    <3>1. PICK g : g = InHand(span, points)
      OBVIOUS
    <3>2. wpc = "process"
      BY <2>4 DEF HandleScan
    <3>3. g \in ScanGroup /\ prevScanEnd <= g.header /\ ProcessScan(g)
      BY <2>4, <3>1, <3>2, ScanTimed, Zenon
    <3>4. QED
      BY <2>1, <3>3, ScanLoosePose
  <2>5. CASE UNCHANGED estVars
    BY <2>5, Zenon DEF LoosePose, estVars, solved
  <2>6. QED
    BY <2>2, <2>3, <2>4, <2>5, SystemSteps, Zenon
<1>3. SystemSpec => []Timed(p)
  BY SystemTimed
<1>4. SystemSpec => []InRange
  BY SystemInRange
<1>5. QED
  BY <1>1, <1>2, <1>3, <1>4, SystemOrdered, SystemServed, PTL DEF SystemSpec

(* The rotation and the time that the loose guess adds to its pose are the motion
   since that pose, whatever was dropped, merged or reset in between -- as long as no
   pause is as long as the second after which deskew does not chain.  Holes in the IMU
   do not matter here: the gyro is integrated over them. *)
THEOREM GuessSpansPoseAlways ==
  ASSUME NEW p \in Nat, Swept(p), Leaves = FALSE
  PROVE  SystemSpec /\ [][Prompt]_estVars => GuessSpansPose
<1>1. OrderInv /\ Timed(p) /\ ReachesBack /\ LoosePose /\ [SystemNext]_systemVars
        /\ [Prompt]_estVars
        => [Ran("loose") /\ map # {} =>
              /\ result'.begin = pose
              /\ deskew'.rot = [from |-> pose, to |-> result'.end]]_estVars
  <2> SUFFICES ASSUME OrderInv, Timed(p), ReachesBack, LoosePose, [SystemNext]_systemVars,
                      [Prompt]_estVars, Ran("loose"), map # {}
               PROVE  /\ result'.begin = pose
                      /\ deskew'.rot = [from |-> pose, to |-> result'.end]
    OBVIOUS
  <2>1. result' # result /\ Prompt
    BY DEF Ran, estVars
  <2>2. PICK span \in Spans, points \in Points, g \in ScanGroup :
          /\ g = InHand(span, points) /\ wpc = "process" /\ ProcessScan(g)
          /\ prevScanEnd <= g.header
    BY <2>1, ScanOnTime, Zenon DEF Swept
  <2>3. Typed /\ Timeline
    BY DEF Timed
  <2>4. ASSUME Deskewable(g, deskew.end)
        PROVE  /\ g.imu[1] <= WindowBegin(g) /\ ScanEnd(g) <= g.imu[Len(g.imu)]
               /\ prevScanEnd # NoTime => g.header - prevScanEnd < MaxChainGap
    <3>1. g.imu[1] <= WindowBegin(g)
      BY <2>2, <2>3, HeldReachesBegin
    <3>2. ScanEnd(g) <= g.imu[Len(g.imu)]
      BY <2>2, HeldReachesEnd DEF Swept
    <3>3. PICK trusted \in BOOLEAN : Register(g, scans + 1, trusted)
      BY <2>2, <2>4, Zenon DEF ProcessScan
    <3>4. result'.ok = TRUE /\ result'.end = ScanEnd(g)
      BY <2>2, <2>3, <3>3, Outcomes, GoodResult, Zenon
    <3>5. deskew'.span = g.span
      <4>1. \E resync \in BOOLEAN : Deskewed(g, resync)
        BY <3>3, Zenon DEF Register
      <4>2. QED
        BY <4>1 DEF Deskewed
    <3>6. ScanEnd(g) - g.span = g.header
      BY <2>2 DEF ScanEnd, ScanGroup
    <3>7. QED
      BY <2>1, <3>1, <3>2, <3>4, <3>5, <3>6 DEF Prompt
  <2>5. QED
    BY <2>2, <2>3, <2>4, ScanGuessSpans
<1>2. SystemSpec => []Timed(p)
  BY SystemTimed DEF Swept
<1>3. SystemSpec => []ReachesBack
  BY SystemReaches
<1>4. SystemSpec => []LoosePose
  BY SystemLoosePose DEF Swept
<1>5. QED
  BY <1>1, <1>2, <1>3, <1>4, SystemOrdered, PTL DEF SystemSpec, GuessSpansPose

(* A step that gives a result, as one scan whose IMU covers its window. *)
LEMMA ScanCovered ==
  ASSUME NEW p \in Nat, Steady(p), OrderInv, DenseInv(MaxImuGap), Timed(p), ReachesBack,
         [SystemNext]_systemVars, result' # result
  PROVE  \E g \in ScanGroup : /\ ProcessScan(g) /\ CoversWindow(g)
                              /\ prevScanEnd <= g.header
<1>1. PICK span \in Spans, points \in Points, g \in ScanGroup :
        /\ g = InHand(span, points) /\ wpc = "process" /\ ProcessScan(g)
        /\ prevScanEnd <= g.header
  BY ScanOnTime, Zenon DEF Steady, Swept
<1>2. CoversWindow(g)
  BY <1>1, HeldCovers
<1>3. QED
  BY <1>1, <1>2

(* The IMU factor of a tight solve is integrated over exactly the time from the
   state it starts at to the end of the scan, whatever the interleaving of the
   callbacks and the worker, however many scans the queue drops and merges, and
   however often the IMU restarts. *)
THEOREM FactorSpansPosesAlways ==
  ASSUME NEW pace \in Nat, Steady(pace), Leaves = FALSE
  PROVE  SystemSpec => FactorSpansPoses
<1>1. OrderInv /\ DenseInv(MaxImuGap) /\ Timed(pace) /\ ReachesBack /\ Posed
        /\ [SystemNext]_systemVars
        => [Ran("tight") /\ map # {} =>
              /\ state.at = result'.begin
              /\ UNION {p.from .. p.to - 1 : p \in result'.factor}
                   = result'.begin .. result'.end - 1
              /\ Elapsed(result'.factor) = result'.end - result'.begin]_estVars
  <2> SUFFICES ASSUME OrderInv, DenseInv(MaxImuGap), Timed(pace), ReachesBack, Posed,
                      [SystemNext]_systemVars, Ran("tight"), map # {}
               PROVE  /\ state.at = result'.begin
                      /\ UNION {p.from .. p.to - 1 : p \in result'.factor}
                           = result'.begin .. result'.end - 1
                      /\ Elapsed(result'.factor) = result'.end - result'.begin
    OBVIOUS
  <2>1. result' # result
    BY DEF Ran
  <2>2. PICK g \in ScanGroup : ProcessScan(g) /\ CoversWindow(g) /\ prevScanEnd <= g.header
    BY <2>1, ScanCovered, Zenon
  <2>3. Typed /\ Timeline /\ InRange /\ TightPose
    BY DEF Timed, Posed
  <2>4. QED
    BY <2>2, <2>3, ScanFactorSpans
<1>2. Paced(pace) /\ ImuSteady(MaxImuGap)
  BY DEF Steady, Swept
<1>3. SystemSpec => []DenseInv(MaxImuGap)
  BY <1>2, SystemDense
<1>4. SystemSpec => []Timed(pace)
  BY <1>2, SystemTimed
<1>5. SystemSpec => []ReachesBack
  BY SystemReaches DEF Steady
<1>6. SystemSpec => []Posed
  BY SystemPosed
<1>7. QED
  BY <1>1, <1>3, <1>4, <1>5, <1>6, SystemOrdered, PTL DEF SystemSpec, FactorSpansPoses

(* And the pose that is published with a scan is the one at the end of it. *)
THEOREM PoseAtScanEndAlways ==
  ASSUME NEW p \in Nat, Steady(p), Leaves = FALSE
  PROVE  SystemSpec => PoseAtScanEnd
<1>1. OrderInv /\ DenseInv(MaxImuGap) /\ Timed(p) /\ ReachesBack /\ Posed
        /\ [SystemNext]_systemVars
        => [result' # result /\ result'.ok => pose' = result'.end]_estVars
  <2> SUFFICES ASSUME OrderInv, DenseInv(MaxImuGap), Timed(p), ReachesBack, Posed,
                      [SystemNext]_systemVars, result' # result, result'.ok
               PROVE  pose' = result'.end
    OBVIOUS
  <2>1. PICK g \in ScanGroup : ProcessScan(g) /\ CoversWindow(g) /\ prevScanEnd <= g.header
    BY ScanCovered, Zenon
  <2>2. Typed /\ Timeline /\ InRange /\ LoosePose /\ TightPose
    BY DEF Timed, Posed
  <2>3. QED
    BY <2>1, <2>2, ScanPoseAtEnd
<1>2. Paced(p) /\ ImuSteady(MaxImuGap)
  BY DEF Steady, Swept
<1>3. SystemSpec => []DenseInv(MaxImuGap)
  BY <1>2, SystemDense
<1>4. SystemSpec => []Timed(p)
  BY <1>2, SystemTimed
<1>5. SystemSpec => []ReachesBack
  BY SystemReaches DEF Steady
<1>6. SystemSpec => []Posed
  BY SystemPosed
<1>7. QED
  BY <1>1, <1>3, <1>4, <1>5, <1>6, SystemOrdered, PTL DEF SystemSpec, PoseAtScanEnd
=============================================================================
