------------------------------- MODULE GlassLio ------------------------------
(***************************************************************************)
(* The whole of the live program: the node of GlassLioNode, with the       *)
(* estimator of LioEstimator behind its worker.  The estimator gets the    *)
(* groups as the buffers and the worker's queue really make them -- merged *)
(* over dropped scans, cut at the brackets -- and its resets and           *)
(* initialisations when the worker gets to them.                           *)
(*                                                                         *)
(* What GlassLioNode knows of the estimator (est) stays beside the         *)
(* estimator itself; EstimatorAsAssumed relates the two.                   *)
(***************************************************************************)
EXTENDS GlassLioNode, LioEstimator

CONSTANTS
  Spans,   \* the span of a scan's points
  Points   \* may a scan have points, or none?

ASSUME GlassLioAssumption == Spans \subseteq Nat /\ Points \subseteq BOOLEAN

systemVars == <<vars, estVars>>

SystemInit == Init /\ EstimatorInit
-----------------------------------------------------------------------------
SystemReset == ResetEstimator /\ EstimatorReset

SystemInitialize == InitEstimator /\ Initialize(seed)

\* The group in the worker's hands, as the estimator sees it.
InHand(span, points) ==
  [run |-> meas.scan.world, header |-> meas.scan.stamp, span |-> span, points |-> points,
   imu |-> meas.imu]

\* handleScan(): what is published is what processScan() answers.
SystemScan ==
  \E span \in Spans, points \in Points :
    /\ HandleScan
    /\ ProcessScan(InHand(span, points))
    /\ wpc' = IF result'.ok THEN "publish" ELSE "top"
    /\ est'.map = IF scans' \in map' THEN est.map \cup {meas.scan.world} ELSE est.map

\* The rest of the node never touches the estimator.
NodeAlone ==
  /\ \/ \E t \in Stamps : ImuMessage(t) \/ LidarMessage(t)
     \/ Callback \/ Interrupt
     \/ LoopTest \/ Wait \/ SpuriousWakeUp \/ Stop
     \/ TakeReset \/ TakeInit \/ TakeScan \/ Publish
     \/ Terminated
  /\ UNCHANGED estVars

SystemNext == SystemReset \/ SystemInitialize \/ SystemScan \/ NodeAlone

SystemSpec == SystemInit /\ [][SystemNext]_systemVars
-----------------------------------------------------------------------------
(* Properties.  Those of LioEstimator are checked of the estimator here, on *)
(* the groups it really gets, and DiscardedUnpreceded of the node's groups. *)

\* The estimator is what the model of the node says it is: initialised for that
\* world, and with a map exactly when scans were inserted since the last reset.
EstimatorAsAssumed ==
  /\ est.seed = state.bias.run
  /\ est.map = {} <=> map = {}

\* No scan is wasted: the IMU of a group that the node hands over always lets
\* its scan be deskewed, after any pruning and merging, if the scan has points
\* (Points is {TRUE} where this is checked).
EveryScanDeskewed == result.scan # None => result.ok
=============================================================================
