------------------------- MODULE GlassLioNodeProofs -------------------------
(* Proofs about GlassLioNode, for every value of its constants. *)
EXTENDS GlassLioNode, SequenceTheorems, FiniteSetTheorems, WellFoundedInduction, TLAPS

(* A nonempty set of naturals has a least element. *)
LEMMA LeastNatural ==
  ASSUME NEW T \in SUBSET Nat, T # {}
  PROVE  \E x \in T : \A y \in T : x <= y
<1> DEFINE F == {0 .. x : x \in T}
<1>1. F \subseteq FiniteSubsetsOf(Nat)
  <2>1. \A x \in T : IsFiniteSet(0 .. x) /\ 0 .. x \subseteq Nat
    BY FS_Interval
  <2>2. QED
    BY <2>1 DEF FiniteSubsetsOf
<1>2. F # {}
  OBVIOUS
<1>3. PICK S \in F : \A U \in F : <<U, S>> \notin StrictSubsetOrdering(Nat)
  BY <1>1, <1>2, FS_StrictSubsetOrderingWellFounded, WFMin
<1>4. PICK x \in T : S = 0 .. x
  OBVIOUS
<1>5. ASSUME NEW y \in T, y < x
      PROVE  FALSE
  <2>1. 0 .. y \subseteq 0 .. x /\ x \in 0 .. x /\ x \notin 0 .. y
    BY <1>5
  <2>2. <<0 .. y, 0 .. x>> \in StrictSubsetOrdering(Nat)
    BY <2>1 DEF StrictSubsetOrdering
  <2>3. QED
    BY <2>2, <1>3, <1>4
<1>6. QED
  BY <1>5

(* FirstAt is what its definition says: the first position at t or later. *)
LEMMA FirstAtSpec ==
  ASSUME NEW q \in Seq(Int), NEW t \in Int
  PROVE  LET i == FirstAt(q, t)
         IN /\ i \in 1 .. Len(q) + 1
            /\ i <= Len(q) => q[i] >= t
            /\ \A j \in 1 .. i - 1 : q[j] < t
<1> DEFINE T == {i \in 1 .. Len(q) + 1 : i <= Len(q) => q[i] >= t}
<1>1. T \in SUBSET Nat /\ Len(q) + 1 \in T
  OBVIOUS
<1>2. PICK i \in T : \A j \in T : i <= j
  BY <1>1, LeastNatural
<1>3. \A j \in 1 .. i - 1 : q[j] < t
  BY <1>2
<1>4. \E k \in 1 .. Len(q) + 1 :
        (k <= Len(q) => q[k] >= t) /\ \A j \in 1 .. k - 1 : q[j] < t
  BY <1>2, <1>3
<1>5. QED
  BY <1>4 DEF FirstAt
-----------------------------------------------------------------------------
(* The operators of MeasureSync keep their types. *)

LEMMA ConstantsType ==
  /\ ScanGuard \in Int /\ RestartJump \in Int
  /\ Stamps \subseteq Int /\ NoStamp \in Int /\ NoStamp \notin Stamps
  /\ MaxQueue \in Nat /\ MaxQueue > 0
  /\ InitSamples \in Nat /\ InitSamples > 0
BY SyncAssumption, NodeAssumption DEF NoStamp

LEMMA FirstAtStamps ==
  ASSUME NEW q \in Seq(Stamps), NEW t \in Int
  PROVE  /\ FirstAt(q, t) \in 1 .. Len(q) + 1
         /\ FirstAt(q, t) <= Len(q) => q[FirstAt(q, t)] >= t
         /\ \A j \in 1 .. FirstAt(q, t) - 1 : q[j] < t
<1>1. q \in Seq(Int)
  BY ConstantsType, SeqMonotonic
<1>2. QED
  BY <1>1, FirstAtSpec

LEMMA SubSeqStamps ==
  ASSUME NEW q \in Seq(Stamps), NEW m \in Int, NEW n \in Int, m >= 1, n <= Len(q)
  PROVE  SubSeq(q, m, n) \in Seq(Stamps)
<1>1. \A i \in m .. n : q[i] \in Stamps
  BY ElementOfSeq
<1>2. QED
  BY <1>1, SubSeqProperties

LEMMA CheckedType ==
  ASSUME NEW s \in SyncState, NEW t \in Stamps
  PROVE  CheckedImu(s, t) \in SyncState /\ CheckedLidar(s, t) \in SyncState
<1>1. Cleared \in SyncState
  BY DEF Cleared, SyncState
<1>2. \A u \in SyncState : /\ [u EXCEPT !.lastImu = t] \in SyncState
                            /\ [u EXCEPT !.lastLidar = t] \in SyncState
  BY DEF SyncState
<1>3. QED
  BY <1>1, <1>2, Zenon DEF CheckedImu, CheckedLidar

LEMMA SyncUpdate ==
  ASSUME NEW s \in SyncState, NEW p \in Seq(Scan), NEW q \in Seq(Stamps)
  PROVE  /\ [s EXCEPT !.lidar = p] \in SyncState
         /\ [s EXCEPT !.imu = q] \in SyncState
         /\ [s EXCEPT !.lidar = p, !.imu = q] \in SyncState
<1>1. \A u \in SyncState : [u EXCEPT !.lidar = p] \in SyncState
  BY DEF SyncState
<1>2. \A u \in SyncState : [u EXCEPT !.imu = q] \in SyncState
  BY DEF SyncState
<1>3. QED
  BY <1>1, <1>2

LEMMA PushedType ==
  ASSUME NEW s \in SyncState
  PROVE  /\ \A t \in Stamps : PushedImu(s, t) \in SyncState
         /\ \A scan \in Scan : PushedLidar(s, scan) \in SyncState
<1>1. s.imu \in Seq(Stamps) /\ s.lidar \in Seq(Scan)
  BY DEF SyncState
<1>2. /\ \A t \in Stamps : Append(s.imu, t) \in Seq(Stamps)
      /\ \A scan \in Scan : Append(s.lidar, scan) \in Seq(Scan)
  BY <1>1, AppendProperties
<1>3. QED
  BY <1>1, <1>2, SyncUpdate DEF PushedImu, PushedLidar

LEMMA DiscardedType ==
  ASSUME NEW s \in SyncState, Discards(s)
  PROVE  Discarded(s) \in SyncState
<1>1. Tail(s.lidar) \in Seq(Scan) /\ s.imu \in Seq(Stamps)
  BY HeadTailProperties DEF SyncState, Discards
<1>2. QED
  BY <1>1, SyncUpdate DEF Discarded

LEMMA HeadStamp ==
  ASSUME NEW s \in SyncState, s.lidar # <<>>
  PROVE  Head(s.lidar) \in Scan /\ Head(s.lidar).stamp \in Int
<1>1. Head(s.lidar) \in Scan
  BY HeadTailProperties DEF SyncState
<1>2. QED
  BY <1>1, ConstantsType DEF Scan

(* A released scan leaves a buffer, and gives a group, of the right type. *)
LEMMA ReleasedType ==
  ASSUME NEW s \in SyncState, Releases(s), Head(s.lidar).stamp \in Int
  PROVE  Released(s) \in SyncState /\ Group(s) \in MeasureGroup
<1> DEFINE imu == s.imu
           end == GuardedEnd(s)
           past == ScanStamp(s) + 1
<1>1. imu \in Seq(Stamps) /\ s.lidar \in Seq(Scan) /\ imu # <<>> /\ s.lidar # <<>>
  BY DEF SyncState, Releases
<1>2. Head(s.lidar) \in Scan /\ Tail(s.lidar) \in Seq(Scan)
  BY <1>1, HeadTailProperties
<1>3. ScanStamp(s) \in Int /\ end \in Int /\ past \in Int
  BY ConstantsType DEF ScanStamp, GuardedEnd
<1>4. /\ Len(imu) \in Nat /\ Len(imu) >= 1
      /\ imu[1] \in Int /\ imu[Len(imu)] \in Int
      /\ imu[1] < past /\ imu[Len(imu)] >= end
  <2>1. Len(imu) \in Nat /\ Len(imu) >= 1
    BY <1>1, EmptySeq, LenProperties
  <2>2. imu[1] \in Stamps /\ imu[Len(imu)] \in Stamps
    BY <2>1, <1>1, ElementOfSeq
  <2>3. imu[1] <= ScanStamp(s) /\ imu[Len(imu)] >= end
    <3>1. Head(imu) = imu[1] /\ Back(imu) = imu[Len(imu)]
      BY <1>1 DEF Back
    <3>2. QED
      BY <3>1, Zenon DEF Releases
  <2>4. imu[1] \in Int /\ imu[Len(imu)] \in Int
    BY <2>2, ConstantsType
  <2>5. imu[1] < past
    BY <2>3, <2>4, <1>3
  <2>6. QED
    BY <2>1, <2>3, <2>4, <2>5
<1> HIDE DEF imu, end, past
<1>5. SubSeq(imu, 1, FirstAt(imu, end)) \in Seq(Stamps)
  <2>1. /\ FirstAt(imu, end) \in 1 .. Len(imu) + 1
        /\ \A j \in 1 .. FirstAt(imu, end) - 1 : imu[j] < end
    BY <1>1, <1>3, FirstAtStamps
  <2>2. FirstAt(imu, end) # Len(imu) + 1
    BY <2>1, <1>3, <1>4
  <2>3. QED
    BY <2>1, <2>2, <1>1, <1>4, SubSeqStamps
<1>6. SubSeq(imu, FirstAt(imu, past) - 1, Len(imu)) \in Seq(Stamps)
  <2>1. /\ FirstAt(imu, past) \in 1 .. Len(imu) + 1
        /\ FirstAt(imu, past) <= Len(imu) => imu[FirstAt(imu, past)] >= past
    BY <1>1, <1>3, FirstAtStamps
  <2>2. FirstAt(imu, past) # 1
    BY <2>1, <1>3, <1>4
  <2>3. QED
    BY <2>1, <2>2, <1>1, <1>4, SubSeqStamps, SMTT(30)
<1>7. Released(s) \in SyncState
  BY <1>2, <1>6, SyncUpdate DEF Released, imu, past
<1>8. QED
  BY <1>2, <1>5, <1>7 DEF Group, MeasureGroup, imu, end

(* Merging a dropped group's IMU into the next one leaves that one's scan. *)
LEMMA MergedType ==
  ASSUME NEW d \in MeasureGroup, NEW n \in MeasureGroup
  PROVE  /\ MergeDroppedImu(d, n) \in MeasureGroup
         /\ MergeDroppedImu(d, n).scan = n.scan
<1>1. CASE d.imu = <<>>
  BY <1>1 DEF MergeDroppedImu
<1>2. CASE d.imu # <<>>
  <2> DEFINE kept == SubSeq(n.imu, FirstAt(n.imu, Back(d.imu) + 1), Len(n.imu))
  <2>1. d.imu \in Seq(Stamps) /\ n.imu \in Seq(Stamps)
    BY DEF MeasureGroup
  <2>2. Len(d.imu) \in 1 .. Len(d.imu) /\ Len(n.imu) \in Nat
    BY <2>1, <1>2, EmptySeq, LenProperties
  <2>3. Back(d.imu) + 1 \in Int
    <3>1. d.imu[Len(d.imu)] \in Stamps
      BY <2>1, <2>2, ElementOfSeq
    <3>2. Back(d.imu) \in Int
      BY <3>1, ConstantsType, Zenon DEF Back
    <3>3. QED
      BY <3>2
  <2>4. FirstAt(n.imu, Back(d.imu) + 1) \in 1 .. Len(n.imu) + 1
    BY <2>1, <2>3, FirstAtStamps
  <2>5. kept \in Seq(Stamps)
    BY <2>1, <2>2, <2>4, SubSeqStamps
  <2>6. d.imu \o kept \in Seq(Stamps)
    BY <2>1, <2>5, ConcatProperties
  <2> HIDE DEF kept
  <2> DEFINE imu == d.imu \o kept
  <2> HIDE DEF imu
  <2>7. [n EXCEPT !.imu = imu] \in MeasureGroup /\ [n EXCEPT !.imu = imu].scan = n.scan
    <3>1. [n EXCEPT !.imu = imu] \in MeasureGroup
      BY <2>6 DEF MeasureGroup, imu
    <3>2. [n EXCEPT !.imu = imu].scan = n.scan
      BY DEF MeasureGroup
    <3>3. QED
      BY <3>1, <3>2, Zenon
  <2>8. MergeDroppedImu(d, n) = [n EXCEPT !.imu = imu]
    BY <1>2, Zenon DEF MergeDroppedImu, kept, imu
  <2>9. QED
    BY <2>7, <2>8, Zenon
<1>3. QED
  BY <1>1, <1>2

LEMMA ExceptFirst ==
  ASSUME NEW S, NEW t \in Seq(S), Len(t) >= 1, NEW e \in S
  PROVE  /\ [t EXCEPT ![1] = e] \in Seq(S)
         /\ Len([t EXCEPT ![1] = e]) = Len(t)
         /\ \A j \in 1 .. Len(t) : [t EXCEPT ![1] = e][j] = IF j = 1 THEN e ELSE t[j]
<1>1. 1 \in 1 .. Len(t)
  BY LenProperties
<1>2. QED
  BY <1>1, ExceptSeq

(* push_back under the bound: the queue keeps its type and its bound, and holds
   no scan but the ones it held and the new one. *)
LEMMA EnqueuedType ==
  ASSUME NEW q \in Seq(MeasureGroup), Len(q) <= MaxQueue, NEW g \in MeasureGroup
  PROVE  /\ Enqueued(q, g) \in Seq(MeasureGroup)
         /\ Len(Enqueued(q, g)) <= MaxQueue
         /\ \A w : (\A i \in DOMAIN q : q[i].scan.world = w) /\ g.scan.world = w
                     => \A i \in DOMAIN Enqueued(q, g) : Enqueued(q, g)[i].scan.world = w
<1>1. CASE Len(q) < MaxQueue
  BY <1>1, AppendProperties, ConstantsType DEF Enqueued
<1>2. CASE Len(q) = MaxQueue /\ Len(q) > 1
  <2> DEFINE t == Tail(q)
             m == MergeDroppedImu(Head(q), t[1])
             r == [t EXCEPT ![1] = m]
  <2>1. /\ Head(q) \in MeasureGroup /\ t \in Seq(MeasureGroup)
        /\ Len(t) = Len(q) - 1 /\ \A i \in 1 .. Len(q) - 1 : t[i] = q[i + 1]
        /\ 1 \in 1 .. Len(t) /\ t[1] \in MeasureGroup
    BY <1>2, HeadTailProperties, ElementOfSeq
  <2>2. m \in MeasureGroup /\ m.scan = t[1].scan
    BY <2>1, MergedType
  <2> HIDE DEF t, m
  <2>3. /\ r \in Seq(MeasureGroup) /\ Len(r) = Len(q) - 1
        /\ \A i \in 1 .. Len(r) : r[i].scan = q[i + 1].scan
    <3>1. /\ r \in Seq(MeasureGroup) /\ Len(r) = Len(t)
          /\ \A j \in 1 .. Len(t) : r[j] = IF j = 1 THEN m ELSE t[j]
      <4>1. Len(t) >= 1
        BY <2>1, <1>2
      <4>2. t \in Seq(MeasureGroup) /\ m \in MeasureGroup
        BY <2>1, <2>2
      <4>3. QED
        BY <4>1, <4>2, ExceptFirst
    <3> HIDE DEF r
    <3>2. ASSUME NEW i \in 1 .. Len(r)
          PROVE  r[i].scan = q[i + 1].scan
      <4>1. t[i] = q[i + 1] /\ t[1].scan = m.scan
        BY <3>1, <2>1, <2>2
      <4>2. (r[i] = m /\ i = 1) \/ r[i] = t[i]
        BY <3>1
      <4>3. QED
        BY <4>1, <4>2
    <3>3. QED
      BY <3>1, <3>2, <2>1
  <2> HIDE DEF r
  <2>4. Enqueued(q, g) = Append(r, g)
    BY <1>2, ConstantsType DEF Enqueued, r, m, t
  <2>5. /\ Append(r, g) \in Seq(MeasureGroup) /\ Len(Append(r, g)) = Len(q)
        /\ \A i \in 1 .. Len(q) : Append(r, g)[i] = IF i = Len(q) THEN g ELSE r[i]
    BY <2>3, AppendProperties
  <2>6. \A i \in 1 .. Len(q) - 1 : i + 1 \in DOMAIN q
    BY <1>2
  <2>7. ASSUME NEW w, \A i \in DOMAIN q : q[i].scan.world = w, g.scan.world = w,
               NEW i \in 1 .. Len(q)
        PROVE  Append(r, g)[i].scan.world = w
    <3>1. CASE i = Len(q)
      BY <3>1, <2>5, <2>7
    <3>2. CASE i # Len(q)
      <4>1. i \in 1 .. Len(r) /\ i \in 1 .. Len(q) - 1
        BY <3>2, <2>3
      <4>2. Append(r, g)[i].scan = q[i + 1].scan
        BY <4>1, <3>2, <2>3, <2>5
      <4>3. QED
        BY <4>1, <4>2, <2>6, <2>7
    <3>3. QED
      BY <3>1, <3>2
  <2>8. DOMAIN Append(r, g) = 1 .. Len(q)
    BY <2>5, LenProperties
  <2>9. QED
    BY <1>2, <2>4, <2>5, <2>7, <2>8
<1>3. CASE Len(q) = MaxQueue /\ Len(q) <= 1
  <2>1. Len(q) = 1 /\ Head(q) \in MeasureGroup /\ Tail(q) = <<>>
    BY <1>3, HeadTailProperties, ConstantsType, EmptySeq
  <2>2. /\ MergeDroppedImu(Head(q), g) \in MeasureGroup
        /\ MergeDroppedImu(Head(q), g).scan = g.scan
    BY <2>1, MergedType
  <2>3. Enqueued(q, g) = Append(<<>>, MergeDroppedImu(Head(q), g))
    <3>1. ~(Len(q) < MaxQueue) /\ ~(Len(q) > 1)
      BY <1>3, <2>1, ConstantsType
    <3>2. QED
      BY <3>1, <2>1, Zenon DEF Enqueued
  <2>4. QED
    BY <1>3, <2>1, <2>2, <2>3, EmptySeq, AppendProperties
<1>4. QED
  BY <1>1, <1>2, <1>3, ConstantsType, LenProperties
-----------------------------------------------------------------------------
(* Type correctness. *)

LEMMA PositionsAre ==
  Positions = {"idle", "reset", "accept", "init", "ready", "join", "gone",
               "notifyReset", "notifyInit", "notifyScan", "notifyStop"}
BY DEF Positions, AfterNotify

LEMMA InitTypeOK == Init => TypeOK
<1> SUFFICES ASSUME Init PROVE TypeOK
  OBVIOUS
<1>1. Cleared \in SyncState /\ NoGroup \in MeasureGroup
  BY NodeAssumption DEF Cleared, SyncState, NoGroup, MeasureGroup, Scan, NoWorld
<1>2. /\ ok \in BOOLEAN /\ arrivals \in Nat /\ cb \in Positions
      /\ source \in [{"imu", "lidar"} -> Stamps \cup {NoStamp}]
      /\ cb = "idle" /\ msg \in [kind : {"imu", "lidar"}, stamp : Stamps \cup {NoStamp}]
      /\ world \in Nat \ {NoWorld} /\ heard \subseteq Stamps
  BY PositionsAre DEF Init, NoWorld
<1>3. queue \in Seq(MeasureGroup) /\ Len(queue) = 0
  BY EmptySeq DEF Init
<1>4. /\ sync \in SyncState /\ meas \in MeasureGroup
      /\ initialized \in BOOLEAN
      /\ resetRequested \in BOOLEAN /\ initPending \in BOOLEAN /\ stop \in BOOLEAN
  BY <1>1, Zenon DEF Init
<1>5. window \in 0 .. InitSamples /\ pendingSeed \in Nat /\ seed \in Nat /\ wpc = "top"
  BY ConstantsType DEF Init, NoWorld
<1>6. est \in [seed : Nat, map : SUBSET Nat]
  BY DEF Init, Blank, NoWorld
<1>7. QED
  BY <1>2, <1>3, <1>4, <1>5, <1>6, ConstantsType DEF TypeOK

LEMMA StepTypeOK ==
  ASSUME TypeOK, [Next]_vars
  PROVE  TypeOK'
<1> USE DEF TypeOK, sourceVars, cbVars, handOff, workerVars
<1>1. ASSUME NEW t \in Stamps, ImuMessage(t)
      PROVE  TypeOK'
  <2>1. CheckedImu(sync, t) \in SyncState
    BY CheckedType
  <2>2. Dispatch(Jump(t, sync.lastImu)) \in Positions
    BY PositionsAre DEF Dispatch, Jump
  <2>3. QED
    BY <1>1, <2>1, <2>2 DEF ImuMessage, Arrives
<1>2. ASSUME NEW t \in Stamps, LidarMessage(t)
      PROVE  TypeOK'
  <2>1. CheckedLidar(sync, t) \in SyncState
    BY CheckedType
  <2>2. Dispatch(Jump(t, sync.lastLidar)) \in Positions
    BY PositionsAre DEF Dispatch, Jump
  <2>3. QED
    BY <1>2, <2>1, <2>2 DEF LidarMessage, Arrives
<1>3. CASE Interrupt
  BY <1>3 DEF Interrupt
<1>4. CASE Reset
  <2>1. Cleared \in SyncState
    BY DEF Cleared, SyncState
  <2>2. world + 1 \in Nat \ {NoWorld}
    BY DEF NoWorld
  <2>3. <<>> \in Seq(MeasureGroup) /\ Len(<<>>) <= MaxQueue
    BY EmptySeq, ConstantsType
  <2>4. 0 \in 0 .. InitSamples
    BY ConstantsType
  <2>5. QED
    BY <1>4, <2>1, <2>2, <2>3, <2>4, PositionsAre DEF Reset
<1>5. CASE AddInitSample
  BY <1>5, ConstantsType, PositionsAre DEF AddInitSample
<1>6. CASE AcceptImu
  <2>1. msg.stamp \in Stamps
    BY <1>6 DEF AcceptImu
  <2>2. PushedImu(sync, msg.stamp) \in SyncState
    BY <2>1, PushedType
  <2>3. QED
    BY <1>6, <2>1, <2>2, PositionsAre DEF AcceptImu
<1>7. CASE AcceptLidar
  <2>1. [stamp |-> msg.stamp, world |-> world] \in Scan
    BY <1>7 DEF AcceptLidar, Scan
  <2>2. PushedLidar(sync, [stamp |-> msg.stamp, world |-> world]) \in SyncState
    BY <2>1, PushedType
  <2>3. QED
    BY <1>7, <2>2, PositionsAre DEF AcceptLidar
<1>8. CASE OnInitialized
  BY <1>8, PositionsAre DEF OnInitialized
<1>9. CASE EnqueueReady
  <2>1. /\ sync' \in SyncState
        /\ queue' \in Seq(MeasureGroup) /\ Len(queue') <= MaxQueue
    <3>1. CASE Releases(sync) /\ sync' = Released(sync)
               /\ queue' = Enqueued(queue, Group(sync))
      <4>1. Released(sync) \in SyncState /\ Group(sync) \in MeasureGroup
        BY <3>1, HeadStamp, ReleasedType DEF Releases
      <4>2. QED
        BY <3>1, <4>1, EnqueuedType
    <3>2. CASE Discards(sync) /\ sync' = Discarded(sync) /\ UNCHANGED queue
      BY <3>2, DiscardedType
    <3>3. CASE UNCHANGED <<sync, queue>>
      BY <3>3
    <3>4. QED
      BY <1>9, <3>1, <3>2, <3>3, Zenon DEF EnqueueReady
  <2>2. cb' \in {"notifyScan", "idle"}
    BY <1>9 DEF EnqueueReady
  <2>3. QED
    BY <1>9, <2>1, <2>2, PositionsAre DEF EnqueueReady
<1>10. CASE Notify
  <2>1. cb' \in Positions /\ (cb' = "accept" => cb = "notifyReset")
        /\ cb' \notin {"reset", "notifyReset"}
    BY <1>10, PositionsAre DEF Notify, AfterNotify
  <2>2. QED
    BY <1>10, <2>1 DEF Notify
<1>11. CASE Destroy
  BY <1>11, PositionsAre DEF Destroy
<1>12. CASE Join
  BY <1>12, PositionsAre DEF Join
<1>13. CASE LoopTest \/ Wait \/ SpuriousWakeUp \/ Stop
  BY <1>13 DEF LoopTest, Wait, SpuriousWakeUp, Stop
<1>14. CASE TakeReset \/ TakeInit
  BY <1>14 DEF TakeReset, TakeInit
<1>15. CASE TakeScan
  <2>1. queue # <<>>
    BY <1>15 DEF TakeScan
  <2>2. /\ Head(queue) \in MeasureGroup /\ Tail(queue) \in Seq(MeasureGroup)
        /\ Len(Tail(queue)) = Len(queue) - 1 /\ Len(queue) \in Nat
    BY <2>1, HeadTailProperties
  <2>3. Len(Tail(queue)) <= MaxQueue
    BY <2>2, ConstantsType
  <2>4. QED
    BY <1>15, <2>2, <2>3 DEF TakeScan
<1>16. CASE ResetEstimator \/ InitEstimator
  <2>1. Blank \in [seed : Nat, map : SUBSET Nat]
    BY DEF Blank, NoWorld
  <2>2. [est EXCEPT !.seed = seed] \in [seed : Nat, map : SUBSET Nat]
    OBVIOUS
  <2>3. QED
    BY <1>16, <2>1, <2>2 DEF ResetEstimator, InitEstimator
<1>17. CASE HandleScan
  <2>1. meas.scan.world \in Nat
    BY DEF MeasureGroup, Scan
  <2>2. [est EXCEPT !.map = @ \cup {meas.scan.world}] \in [seed : Nat, map : SUBSET Nat]
    BY <2>1
  <2>3. QED
    BY <1>17, <2>2 DEF HandleScan
<1>18. CASE Publish
  BY <1>18 DEF Publish
<1>19. CASE UNCHANGED vars
  BY <1>19 DEF vars
<1>20. QED
  BY <1>1, <1>2, <1>3, <1>4, <1>5, <1>6, <1>7, <1>8, <1>9, <1>10, <1>11, <1>12, <1>13,
     <1>14, <1>15, <1>16, <1>17, <1>18, <1>19, Zenon
  DEF Next, Callback, Worker, Terminated

(* The node keeps its types, and its queue its bound, in every behaviour. *)
THEOREM TypeCorrect == Spec => []TypeOK
<1>1. Init => TypeOK
  BY InitTypeOK
<1>2. TypeOK /\ [Next]_vars => TypeOK'
  BY StepTypeOK
<1>3. QED
  BY <1>1, <1>2, PTL DEF Spec
-----------------------------------------------------------------------------
(* The estimator matches the scan it is given.                             *)
(*                                                                         *)
(* EstimatorMatchesScan says nothing of what is still on its way to the    *)
(* worker: requests not yet taken, scans not yet queued.  The invariant    *)
(* below says what they will make of the estimator.                        *)

\* The world the estimator will be initialised for, and the worlds its map may
\* hold, when the worker has served every request and ended its scan.
DueSeed ==
  IF initPending THEN pendingSeed
  ELSE IF resetRequested \/ wpc = "reset" THEN NoWorld
  ELSE IF wpc = "init" THEN seed
  ELSE est.seed

DueMap ==
  IF resetRequested \/ wpc = "reset" THEN {}
  ELSE est.map \cup (IF wpc = "process" THEN {meas.scan.world} ELSE {})

BufferedOfWorld ==
  /\ \A i \in DOMAIN sync.lidar : sync.lidar[i].world = world
  /\ \A i \in DOMAIN queue : queue[i].scan.world = world

\* IMU is buffered, and so scans are queued, only after onInitialized().
InitRequested == initialized /\ cb # "init"
QueuedOnlyInitialized ==
  /\ cb = "init" => initialized
  /\ sync.imu # <<>> \/ queue # <<>> => InitRequested

DueOfWorld ==
  /\ InitRequested => DueSeed = world
  /\ DueMap \subseteq {world}

WorldInv ==
  /\ TypeOK
  /\ BufferedOfWorld
  /\ QueuedOnlyInitialized
  /\ DueOfWorld
  /\ EstimatorMatchesScan

LEMMA CheckedBuffers ==
  ASSUME NEW s \in SyncState, NEW t \in Stamps
  PROVE  /\ CheckedImu(s, t).imu \in {s.imu, <<>>}
         /\ CheckedImu(s, t).lidar \in {s.lidar, <<>>}
         /\ CheckedLidar(s, t).imu \in {s.imu, <<>>}
         /\ CheckedLidar(s, t).lidar \in {s.lidar, <<>>}
<1>1. Cleared \in SyncState /\ Cleared.imu = <<>> /\ Cleared.lidar = <<>>
  BY DEF Cleared, SyncState
<1>2. \A u \in SyncState : /\ [u EXCEPT !.lastImu = t].imu = u.imu
                            /\ [u EXCEPT !.lastImu = t].lidar = u.lidar
                            /\ [u EXCEPT !.lastLidar = t].imu = u.imu
                            /\ [u EXCEPT !.lastLidar = t].lidar = u.lidar
  BY DEF SyncState
<1>3. CheckedImu(s, t) \in {s, [s EXCEPT !.lastImu = t], [Cleared EXCEPT !.lastImu = t]}
  BY Zenon DEF CheckedImu
<1>4. CheckedLidar(s, t) \in {s, [s EXCEPT !.lastLidar = t], [Cleared EXCEPT !.lastLidar = t]}
  BY Zenon DEF CheckedLidar
<1>5. QED
  BY <1>1, <1>2, <1>3, <1>4

LEMMA WorldInvInit == Init => WorldInv
<1> SUFFICES ASSUME Init PROVE WorldInv
  OBVIOUS
<1>1. sync.imu = <<>> /\ sync.lidar = <<>> /\ queue = <<>>
  BY DEF Init, Cleared
<1>2. DueMap = {} /\ ~InitRequested /\ wpc = "top" /\ cb = "idle"
  BY DEF Init, DueMap, InitRequested, Blank
<1>3. BufferedOfWorld
  BY <1>1, EmptySeq DEF BufferedOfWorld
<1>4. QED
  BY <1>1, <1>2, <1>3, InitTypeOK
  DEF WorldInv, QueuedOnlyInitialized, DueOfWorld, EstimatorMatchesScan

LEMMA WorldInvStep ==
  ASSUME WorldInv, [Next]_vars
  PROVE  WorldInv'
<1>1. TypeOK'
  BY StepTypeOK DEF WorldInv
<1> DEFINE Rest == BufferedOfWorld /\ QueuedOnlyInitialized /\ DueOfWorld
                     /\ EstimatorMatchesScan
<1>2. SUFFICES Rest'
  BY <1>1 DEF WorldInv
<1>3. TypeOK /\ Rest
  BY DEF WorldInv
<1>4. ASSUME UNCHANGED <<world, queue>>, sync'.lidar \in {sync.lidar, <<>>}
      PROVE  BufferedOfWorld'
  BY <1>3, <1>4 DEF BufferedOfWorld
<1>5. ASSUME UNCHANGED <<world, handOff, wpc, workerVars>>,
             InitRequested' = InitRequested, cb' = "init" => initialized',
             sync'.imu \in {sync.imu, <<>>} \/ InitRequested
      PROVE  (QueuedOnlyInitialized /\ DueOfWorld /\ EstimatorMatchesScan)'
  BY <1>3, <1>5
  DEF handOff, workerVars, QueuedOnlyInitialized, DueOfWorld, DueSeed, DueMap,
      EstimatorMatchesScan
<1>6. ASSUME NEW t \in Stamps, ImuMessage(t)
      PROVE  Rest'
  <2>1. sync'.imu \in {sync.imu, <<>>} /\ sync'.lidar \in {sync.lidar, <<>>}
    BY <1>3, <1>6, CheckedBuffers DEF ImuMessage, TypeOK
  <2>2. cb = "idle" /\ cb' \in {"accept", "reset", "idle"}
    BY <1>6 DEF ImuMessage, Arrives, Dispatch, Jump
  <2>3. UNCHANGED <<initialized, world, handOff, wpc, workerVars>> /\ queue' = queue
    BY <1>6 DEF ImuMessage, handOff
  <2>4. QED
    BY <2>1, <2>2, <2>3, <1>4, <1>5 DEF InitRequested
<1>7. ASSUME NEW t \in Stamps, LidarMessage(t)
      PROVE  Rest'
  <2>1. sync'.imu \in {sync.imu, <<>>} /\ sync'.lidar \in {sync.lidar, <<>>}
    BY <1>3, <1>7, CheckedBuffers DEF LidarMessage, TypeOK
  <2>2. cb = "idle" /\ cb' \in {"accept", "reset", "idle"}
    BY <1>7 DEF LidarMessage, Arrives, Dispatch, Jump
  <2>3. UNCHANGED <<initialized, world, handOff, wpc, workerVars>> /\ queue' = queue
    BY <1>7 DEF LidarMessage, handOff
  <2>4. QED
    BY <2>1, <2>2, <2>3, <1>4, <1>5 DEF InitRequested
<1>8. CASE Interrupt
  <2>1. UNCHANGED <<cb, sync, initialized, world, queue, handOff, wpc, workerVars>>
    BY <1>8 DEF Interrupt, cbVars, handOff
  <2>2. QED
    BY <1>3, <1>4, <1>5, <2>1 DEF InitRequested, QueuedOnlyInitialized
<1>9. CASE Reset
  <2>1. sync'.imu = <<>> /\ sync'.lidar = <<>> /\ queue' = <<>>
    BY <1>9 DEF Reset, Cleared
  <2>2. BufferedOfWorld'
    BY <2>1, EmptySeq DEF BufferedOfWorld
  <2>3. QueuedOnlyInitialized' /\ ~InitRequested'
    BY <1>9, <2>1 DEF Reset, QueuedOnlyInitialized, InitRequested
  <2>4. DueOfWorld'
    BY <1>9, <2>3 DEF Reset, DueOfWorld, DueMap
  <2>5. EstimatorMatchesScan'
    BY <1>3, <1>9 DEF Reset, workerVars, EstimatorMatchesScan
  <2>6. QED
    BY <2>2, <2>3, <2>4, <2>5
<1>10. CASE AddInitSample
  <2>1. cb' = "init" => initialized'
    BY <1>10 DEF AddInitSample
  <2>2. InitRequested' = InitRequested
    BY <1>10 DEF AddInitSample, InitRequested
  <2>3. UNCHANGED <<sync, world, handOff, wpc, workerVars>> /\ queue' = queue
    BY <1>10 DEF AddInitSample, handOff
  <2>4. QED
    BY <2>1, <2>2, <2>3, <1>4, <1>5
<1>11. CASE AcceptImu
  <2>1. InitRequested /\ InitRequested' /\ cb' # "init"
    BY <1>11 DEF AcceptImu, InitRequested
  <2>2. sync'.lidar = sync.lidar
    BY <1>3, <1>11 DEF AcceptImu, PushedImu, TypeOK, SyncState
  <2>3. UNCHANGED <<world, handOff, wpc, workerVars>> /\ queue' = queue
    BY <1>11 DEF AcceptImu, handOff
  <2>4. QED
    BY <2>1, <2>2, <2>3, <1>4, <1>5
<1>12. CASE AcceptLidar
  <2> DEFINE scan == [stamp |-> msg.stamp, world |-> world]
  <2>1. InitRequested' = InitRequested /\ cb' # "init"
    BY <1>12 DEF AcceptLidar, InitRequested
  <2>2. UNCHANGED <<world, handOff, wpc, workerVars>> /\ queue' = queue
    BY <1>12 DEF AcceptLidar, handOff
  <2>3. sync'.imu = sync.imu /\ sync'.lidar = Append(sync.lidar, scan)
    BY <1>3, <1>12 DEF AcceptLidar, PushedLidar, TypeOK, SyncState
  <2>4. sync.lidar \in Seq(Scan) /\ scan \in Scan /\ scan.world = world
    BY <1>3, <1>12 DEF AcceptLidar, TypeOK, SyncState, Scan
  <2> HIDE DEF scan
  <2>5. \A i \in DOMAIN sync'.lidar : sync'.lidar[i].world = world
    BY <1>3, <2>3, <2>4, AppendProperties DEF BufferedOfWorld
  <2>6. BufferedOfWorld'
    BY <1>3, <2>2, <2>5 DEF BufferedOfWorld
  <2>7. QED
    BY <2>1, <2>2, <2>3, <2>6, <1>5
<1>13. CASE OnInitialized
  <2>1. UNCHANGED <<sync, world, queue, resetRequested, wpc, workerVars>>
    BY <1>13 DEF OnInitialized
  <2>2. InitRequested' /\ cb' # "init" /\ DueSeed' = world' /\ DueMap' = DueMap
    BY <1>3, <1>13
    DEF OnInitialized, InitRequested, QueuedOnlyInitialized, DueSeed, DueMap, workerVars
  <2>3. QED
    BY <1>3, <1>4, <2>1, <2>2
    DEF QueuedOnlyInitialized, DueOfWorld, EstimatorMatchesScan, workerVars
<1>14. CASE EnqueueReady
  <2>1. UNCHANGED <<initialized, world, resetRequested, initPending, pendingSeed, stop,
                    wpc, workerVars>> /\ cb = "ready" /\ cb' # "init"
    BY <1>14 DEF EnqueueReady
  <2>2. (DueOfWorld /\ EstimatorMatchesScan)' /\ InitRequested' = InitRequested
    BY <1>3, <2>1
    DEF DueOfWorld, DueSeed, DueMap, EstimatorMatchesScan, workerVars, InitRequested
  <2>3. CASE Releases(sync) /\ sync' = Released(sync)
             /\ queue' = Enqueued(queue, Group(sync))
    <3>1. /\ sync.lidar \in Seq(Scan) /\ sync.lidar # <<>> /\ sync.imu # <<>>
          /\ Len(sync.lidar) >= 1 /\ Head(sync.lidar) = sync.lidar[1]
      BY <1>3, <2>3, EmptySeq, LenProperties DEF Releases, TypeOK, SyncState
    <3>2. Group(sync) \in MeasureGroup /\ Group(sync).scan.world = world
      <4>1. Group(sync) \in MeasureGroup
        BY <1>3, <2>3, <3>1, HeadStamp, ReleasedType DEF TypeOK
      <4>2. Group(sync).scan = Head(sync.lidar)
        BY DEF Group
      <4>3. sync.lidar[1].world = world
        BY <1>3, <3>1 DEF BufferedOfWorld
      <4>4. QED
        BY <4>1, <4>2, <4>3, <3>1
    <3>3. \A i \in DOMAIN queue' : queue'[i].scan.world = world
      <4>1. /\ queue \in Seq(MeasureGroup) /\ Len(queue) <= MaxQueue
            /\ \A i \in DOMAIN queue : queue[i].scan.world = world
        BY <1>3 DEF TypeOK, BufferedOfWorld
      <4>2. \A i \in DOMAIN Enqueued(queue, Group(sync)) :
              Enqueued(queue, Group(sync))[i].scan.world = world
        BY <4>1, <3>2, EnqueuedType
      <4>3. QED
        BY <4>2, <2>3
    <3>4. \A i \in DOMAIN sync'.lidar : sync'.lidar[i].world = world
      <4>1. sync'.lidar = Tail(sync.lidar)
        BY <1>3, <2>3 DEF Released, TypeOK, SyncState
      <4>2. QED
        BY <4>1, <1>3, <3>1, HeadTailProperties DEF BufferedOfWorld
    <3>5. BufferedOfWorld' /\ QueuedOnlyInitialized'
      BY <1>3, <2>1, <2>2, <3>1, <3>3, <3>4 DEF BufferedOfWorld, QueuedOnlyInitialized
    <3>6. QED
      BY <2>2, <3>5
  <2>4. CASE Discards(sync) /\ sync' = Discarded(sync) /\ UNCHANGED queue
    <3>1. sync'.lidar = Tail(sync.lidar) /\ sync'.imu = sync.imu
      BY <1>3, <2>4 DEF Discarded, TypeOK, SyncState
    <3>2. sync.lidar \in Seq(Scan) /\ sync.lidar # <<>>
      BY <1>3, <2>4 DEF Discards, TypeOK, SyncState
    <3>3. \A i \in DOMAIN sync'.lidar : sync'.lidar[i].world = world
      BY <3>1, <3>2, <1>3, HeadTailProperties DEF BufferedOfWorld
    <3>4. QED
      BY <1>3, <2>1, <2>2, <2>4, <3>1, <3>3 DEF BufferedOfWorld, QueuedOnlyInitialized
  <2>5. CASE UNCHANGED <<sync, queue>>
    BY <1>3, <2>1, <2>2, <2>5 DEF BufferedOfWorld, QueuedOnlyInitialized
  <2>6. QED
    BY <1>14, <2>3, <2>4, <2>5, Zenon DEF EnqueueReady
<1>15. CASE Notify
  <2>1. UNCHANGED <<initialized, world, sync, handOff, workerVars>>
    BY <1>15 DEF Notify
  <2>2. cb # "init" /\ cb' # "init"
    BY <1>15 DEF Notify, AfterNotify
  <2>3. wpc' = wpc \/ (wpc = "asleep" /\ wpc' = "lock")
    BY <1>15 DEF Notify
  <2>4. DueSeed' = DueSeed /\ DueMap' = DueMap /\ EstimatorMatchesScan'
    BY <1>3, <2>1, <2>3
    DEF DueSeed, DueMap, EstimatorMatchesScan, handOff, workerVars
  <2>5. QED
    BY <1>3, <1>4, <2>1, <2>2, <2>4
    DEF QueuedOnlyInitialized, DueOfWorld, InitRequested, handOff
<1>16. CASE Destroy \/ Join
  <2>1. UNCHANGED <<sync, initialized, world, queue, resetRequested, initPending,
                    pendingSeed, wpc, workerVars>> /\ cb # "init" /\ cb' # "init"
    BY <1>16 DEF Destroy, Join, handOff
  <2>2. QED
    BY <1>3, <1>4, <2>1
    DEF QueuedOnlyInitialized, DueOfWorld, DueSeed, DueMap, EstimatorMatchesScan,
        InitRequested, workerVars
<1>17. ASSUME UNCHANGED cbVars, queue' \in {queue, IF queue = <<>> THEN queue ELSE Tail(queue)},
              DueSeed' = DueSeed, DueMap' \subseteq DueMap
       PROVE  (BufferedOfWorld /\ QueuedOnlyInitialized /\ DueOfWorld)'
  <2>1. UNCHANGED <<sync, world>> /\ InitRequested' = InitRequested /\ cb' = cb
        /\ initialized' = initialized
    BY <1>17 DEF cbVars, InitRequested
  <2>2. \A i \in DOMAIN queue' : queue'[i].scan.world = world
    <3>1. CASE queue' = queue
      BY <1>3, <3>1 DEF BufferedOfWorld
    <3>2. CASE queue # <<>> /\ queue' = Tail(queue)
      BY <1>3, <3>2, HeadTailProperties DEF BufferedOfWorld, TypeOK
    <3>3. QED
      BY <1>17, <3>1, <3>2
  <2>3. queue' # <<>> => queue # <<>>
    BY <1>17
  <2>4. QED
    BY <1>3, <1>17, <2>1, <2>2, <2>3
    DEF BufferedOfWorld, QueuedOnlyInitialized, DueOfWorld
<1>18. CASE LoopTest \/ Wait \/ SpuriousWakeUp \/ Stop
  <2>1. /\ UNCHANGED <<cbVars, handOff, workerVars>>
        /\ wpc \in {"top", "lock", "asleep"} /\ wpc' \in {"lock", "done", "asleep"}
    BY <1>18 DEF LoopTest, Wait, SpuriousWakeUp, Stop
  <2>2. DueSeed' = DueSeed /\ DueMap' = DueMap /\ queue' = queue /\ EstimatorMatchesScan'
    BY <2>1 DEF DueSeed, DueMap, EstimatorMatchesScan, handOff, workerVars
  <2>3. QED
    BY <2>1, <2>2, <1>17
<1>19. CASE TakeReset \/ TakeInit
  <2>1. UNCHANGED <<cbVars, queue>>
    BY <1>19 DEF TakeReset, TakeInit
  <2>2. DueSeed' = DueSeed /\ DueMap' \subseteq DueMap
    BY <1>19 DEF TakeReset, TakeInit, DueSeed, DueMap, workerVars
  <2>3. EstimatorMatchesScan'
    BY <1>19 DEF TakeReset, TakeInit, EstimatorMatchesScan
  <2>4. QED
    BY <2>1, <2>2, <2>3, <1>17
<1>20. CASE TakeScan
  <2>1. /\ UNCHANGED <<cbVars, seed, est, resetRequested, initPending, pendingSeed>>
        /\ ~resetRequested /\ ~initPending /\ wpc = "lock" /\ wpc' = "process"
        /\ queue # <<>> /\ queue' = Tail(queue) /\ meas' = Head(queue)
    BY <1>20 DEF TakeScan
  <2>2. InitRequested /\ est.seed = world /\ est.map \subseteq {world}
    BY <1>3, <2>1 DEF QueuedOnlyInitialized, DueOfWorld, DueSeed, DueMap
  <2>3. Head(queue).scan.world = world
    <3>1. queue \in Seq(MeasureGroup) /\ 1 \in DOMAIN queue /\ Head(queue) = queue[1]
      BY <1>3, <2>1, EmptySeq, LenProperties DEF TypeOK
    <3>2. QED
      BY <1>3, <3>1 DEF BufferedOfWorld
  <2>4. UNCHANGED <<sync, world, cb, initialized>> /\ InitRequested'
    BY <2>1, <2>2 DEF cbVars, InitRequested
  <2>5. EstimatorMatchesScan'
    BY <2>1, <2>2, <2>3 DEF EstimatorMatchesScan
  <2>6. DueSeed' = world /\ DueMap' \subseteq {world}
    BY <2>1, <2>2, <2>3 DEF DueSeed, DueMap
  <2>7. (BufferedOfWorld /\ QueuedOnlyInitialized)'
    <3>1. \A i \in DOMAIN queue' : queue'[i].scan.world = world
      BY <1>3, <2>1, HeadTailProperties DEF BufferedOfWorld, TypeOK
    <3>2. QED
      BY <1>3, <2>4, <3>1 DEF BufferedOfWorld, QueuedOnlyInitialized
  <2>8. QED
    BY <2>4, <2>5, <2>6, <2>7 DEF DueOfWorld
<1>21. CASE ResetEstimator \/ InitEstimator
  <2>1. UNCHANGED <<cbVars, handOff>> /\ queue' = queue /\ wpc' = "top"
    BY <1>21 DEF ResetEstimator, InitEstimator, handOff
  <2>2. DueSeed' = DueSeed /\ DueMap' \subseteq DueMap
    <3>1. CASE ResetEstimator
      BY <2>1, <3>1 DEF ResetEstimator, DueSeed, DueMap, handOff, Blank
    <3>2. CASE InitEstimator
      <4>1. est'.seed = seed /\ est'.map = est.map
        BY <1>3, <3>2 DEF InitEstimator, TypeOK
      <4>2. QED
        BY <4>1, <2>1, <3>2 DEF InitEstimator, DueSeed, DueMap, handOff
    <3>3. QED
      BY <1>21, <3>1, <3>2
  <2>3. EstimatorMatchesScan'
    BY <2>1 DEF EstimatorMatchesScan
  <2>4. QED
    BY <2>1, <2>2, <2>3, <1>17
<1>22. CASE HandleScan
  <2>1. UNCHANGED <<cbVars, handOff, meas, seed>> /\ queue' = queue /\ wpc = "process"
        /\ wpc' \in {"top", "publish"}
    BY <1>22 DEF HandleScan, handOff
  <2>2. est'.seed = est.seed /\ est'.map \subseteq est.map \cup {meas.scan.world}
    BY <1>3, <1>22 DEF HandleScan, TypeOK
  <2>3. DueSeed' = DueSeed /\ DueMap' \subseteq DueMap
    BY <2>1, <2>2 DEF DueSeed, DueMap, handOff
  <2>4. EstimatorMatchesScan'
    BY <1>3, <2>1, <2>2 DEF EstimatorMatchesScan
  <2>5. QED
    BY <2>1, <2>3, <2>4, <1>17
<1>23. CASE Publish
  <2>1. UNCHANGED <<cbVars, handOff, workerVars>> /\ queue' = queue /\ wpc' = "top"
        /\ wpc = "publish"
    BY <1>23 DEF Publish, handOff
  <2>2. DueSeed' = DueSeed /\ DueMap' = DueMap /\ EstimatorMatchesScan'
    BY <2>1 DEF DueSeed, DueMap, EstimatorMatchesScan, handOff, workerVars
  <2>3. QED
    BY <2>1, <2>2, <1>17
<1>24. CASE UNCHANGED vars
  <2>1. UNCHANGED <<cbVars, handOff, wpc, workerVars>> /\ queue' = queue
    BY <1>24 DEF vars, handOff
  <2>2. DueSeed' = DueSeed /\ DueMap' = DueMap /\ EstimatorMatchesScan'
    BY <1>3, <2>1 DEF DueSeed, DueMap, EstimatorMatchesScan, handOff, workerVars
  <2>3. QED
    BY <2>1, <2>2, <1>17
<1>25. QED
  BY <1>6, <1>7, <1>8, <1>9, <1>10, <1>11, <1>12, <1>13, <1>14, <1>15, <1>16, <1>18,
     <1>19, <1>20, <1>21, <1>22, <1>23, <1>24, Zenon
  DEF Next, Callback, Worker, Terminated

(* A scan meets only the estimator of its own world, in every behaviour and    *)
(* for every queue bound, initialisation window and order of stamps.           *)
THEOREM EstimatorMatchesScanAlways == Spec => []EstimatorMatchesScan
<1>1. Init => WorldInv
  BY WorldInvInit
<1>2. WorldInv /\ [Next]_vars => WorldInv'
  BY WorldInvStep
<1>3. WorldInv => EstimatorMatchesScan
  BY DEF WorldInv
<1>4. QED
  BY <1>1, <1>2, <1>3, PTL DEF Spec
-----------------------------------------------------------------------------
(* No wake-up is lost.                                                     *)
(*                                                                         *)
(* WakeUpPending is inductive as it stands: whatever makes Awaited true    *)
(* leaves its callback before a notify, Wait tests Awaited, and a notify   *)
(* wakes the worker.                                                       *)

LEMMA NotifiesAre ==
  DOMAIN AfterNotify = {"notifyReset", "notifyInit", "notifyScan", "notifyStop"}
BY DEF AfterNotify

LEMMA WakeUpStep ==
  ASSUME WakeUpPending, [Next]_vars
  PROVE  WakeUpPending'
<1> USE NotifiesAre
<1> DEFINE Requested == stop \/ resetRequested \/ initPending \/ queue # <<>>
<1>0. WakeUpPending <=> (wpc = "asleep" /\ Requested => cb \in DOMAIN AfterNotify)
  BY DEF WakeUpPending, Awaited
<1>00. WakeUpPending' <=> (wpc' = "asleep" /\ Requested' => cb' \in DOMAIN AfterNotify)
  BY DEF WakeUpPending, Awaited
<1>1. ASSUME NEW t \in Stamps, ImuMessage(t) \/ LidarMessage(t)
      PROVE  WakeUpPending'
  <2>1. cb = "idle" /\ wpc' = wpc /\ (Requested' <=> Requested)
    BY <1>1 DEF ImuMessage, LidarMessage, Arrives, handOff
  <2>2. QED
    BY <2>1, <1>0, <1>00
<1>2. CASE Interrupt
  <2>1. cb' = cb /\ wpc' = wpc /\ (Requested' <=> Requested)
    BY <1>2 DEF Interrupt, handOff, cbVars
  <2>2. QED
    BY <2>1, <1>0, <1>00
<1>3. CASE Reset \/ OnInitialized \/ Destroy
  BY <1>3, <1>00 DEF Reset, OnInitialized, Destroy
<1>4. CASE AddInitSample \/ AcceptImu \/ AcceptLidar
  <2>1. cb = "accept" /\ wpc' = wpc /\ (Requested' <=> Requested)
    BY <1>4 DEF AddInitSample, AcceptImu, AcceptLidar, handOff
  <2>2. QED
    BY <2>1, <1>0, <1>00
<1>5. CASE EnqueueReady
  <2>1. cb = "ready" /\ wpc' = wpc
    BY <1>5 DEF EnqueueReady
  <2>2. cb' = "notifyScan" \/ (Requested' <=> Requested)
    BY <1>5 DEF EnqueueReady
  <2>3. QED
    BY <2>1, <2>2, <1>0, <1>00
<1>6. CASE Notify
  <2>1. wpc' # "asleep"
    BY <1>6 DEF Notify
  <2>2. QED
    BY <2>1, <1>00
<1>7. CASE Join
  <2>1. cb = "join" /\ wpc = "done" /\ wpc' = wpc
    BY <1>7 DEF Join
  <2>2. QED
    BY <2>1, <1>00
<1>8. CASE Wait
  <2>1. ~Requested /\ (Requested' <=> Requested)
    BY <1>8 DEF Wait, Awaited, handOff
  <2>2. QED
    BY <2>1, <1>00
<1>9. CASE LoopTest \/ SpuriousWakeUp
  <2>1. wpc' # "asleep"
    BY <1>9 DEF LoopTest, SpuriousWakeUp
  <2>2. QED
    BY <2>1, <1>00
<1>10. CASE Stop \/ TakeReset \/ TakeInit \/ TakeScan
  <2>1. wpc' # "asleep"
    BY <1>10 DEF Stop, TakeReset, TakeInit, TakeScan
  <2>2. QED
    BY <2>1, <1>00
<1>11. CASE ResetEstimator \/ InitEstimator \/ HandleScan \/ Publish
  <2>1. wpc' # "asleep"
    BY <1>11 DEF ResetEstimator, InitEstimator, HandleScan, Publish
  <2>2. QED
    BY <2>1, <1>00
<1>12. CASE UNCHANGED vars
  <2>1. cb' = cb /\ wpc' = wpc /\ (Requested' <=> Requested)
    BY <1>12 DEF vars, cbVars, handOff
  <2>2. QED
    BY <2>1, <1>0, <1>00
<1>13. QED
  BY <1>1, <1>2, <1>3, <1>4, <1>5, <1>6, <1>7, <1>8, <1>9, <1>10, <1>11, <1>12, Zenon
  DEF Next, Callback, Worker, Terminated

(* While the worker sleeps through a request, the notify of that request is  *)
(* still to come: what RequestsServed, ScansServed and ShutdownCompletes     *)
(* need of the condition variable.                                           *)
THEOREM WakeUpPendingAlways == Spec => []WakeUpPending
<1>1. Init => WakeUpPending
  BY DEF Init, WakeUpPending
<1>2. WakeUpPending /\ [Next]_vars => WakeUpPending'
  BY WakeUpStep
<1>3. QED
  BY <1>1, <1>2, PTL DEF Spec

\* The destructor joins only after it has set stop_, and sets it for good.
StopSet == cb \in {"notifyStop", "join", "gone"} => stop

\* The worker that the destructor joins is not asleep; and the node is gone only
\* once it has ended.
JoinedAwake ==
  /\ cb = "join" => wpc # "asleep"
  /\ cb = "gone" => wpc = "done"

LEMMA JoinStep ==
  ASSUME StopSet, cb = "gone" => wpc = "done", [Next]_vars
  PROVE  StopSet' /\ (cb = "gone" => wpc = "done")'
<1> USE NotifiesAre
<1>1. ASSUME NEW t \in Stamps, ImuMessage(t) \/ LidarMessage(t)
      PROVE  cb' \notin {"notifyStop", "join", "gone"}
  <2>1. cb = "idle" /\ (cb' = cb \/ \E j \in {"None", "Restart", "OutOfOrder"} : cb' = Dispatch(j))
    BY <1>1 DEF ImuMessage, LidarMessage, Arrives, Jump
  <2>2. QED
    BY <2>1 DEF Dispatch
<1>2. CASE Interrupt
  BY <1>2 DEF Interrupt, cbVars, handOff, StopSet
<1>3. CASE Reset \/ OnInitialized \/ AddInitSample \/ AcceptImu \/ AcceptLidar \/ EnqueueReady
  <2>1. cb' \notin {"notifyStop", "join", "gone"}
    BY <1>3 DEF Reset, OnInitialized, AddInitSample, AcceptImu, AcceptLidar, EnqueueReady
  <2>2. QED
    BY <2>1 DEF StopSet
<1>4. CASE Notify
  <2>1. cb \in DOMAIN AfterNotify /\ cb' = AfterNotify[cb] /\ stop' = stop
    BY <1>4 DEF Notify, handOff
  <2>2. cb' # "gone" /\ cb' # "notifyStop" /\ (cb' = "join" => cb = "notifyStop")
    BY <2>1 DEF AfterNotify
  <2>3. QED
    BY <2>1, <2>2 DEF StopSet
<1>5. CASE Destroy
  BY <1>5 DEF Destroy, StopSet
<1>6. CASE Join
  BY <1>6 DEF Join, StopSet, handOff
<1>7. CASE LoopTest \/ Wait \/ SpuriousWakeUp \/ Stop \/ TakeReset \/ TakeInit \/ TakeScan
  <2>1. cb' = cb /\ stop' = stop /\ wpc # "done"
    BY <1>7 DEF LoopTest, Wait, SpuriousWakeUp, Stop, TakeReset, TakeInit, TakeScan, cbVars,
                handOff
  <2>2. QED
    BY <2>1 DEF StopSet
<1>8. CASE ResetEstimator \/ InitEstimator \/ HandleScan \/ Publish
  <2>1. cb' = cb /\ stop' = stop /\ wpc # "done"
    BY <1>8 DEF ResetEstimator, InitEstimator, HandleScan, Publish, cbVars, handOff
  <2>2. QED
    BY <2>1 DEF StopSet
<1>9. CASE UNCHANGED vars
  BY <1>9 DEF vars, cbVars, handOff, StopSet
<1>10. ASSUME NEW t \in Stamps, ImuMessage(t) \/ LidarMessage(t)
       PROVE  StopSet' /\ (cb = "gone" => wpc = "done")'
  BY <1>1, <1>10 DEF StopSet
<1>11. QED
  BY <1>10, <1>2, <1>3, <1>4, <1>5, <1>6, <1>7, <1>8, <1>9, Zenon
  DEF Next, Callback, Worker, Terminated

(* The destructor never joins a sleeping worker, and never returns before    *)
(* the worker has ended (~GlassLioNode()).                                   *)
THEOREM JoinedAwakeAlways == Spec => []JoinedAwake
<1> DEFINE EndedFirst == cb = "gone" => wpc = "done"
<1>1. Init => StopSet /\ EndedFirst
  BY DEF Init, StopSet
<1>2. StopSet /\ EndedFirst /\ [Next]_vars => StopSet' /\ EndedFirst'
  BY JoinStep
<1>3. WakeUpPending /\ StopSet /\ EndedFirst => JoinedAwake
  BY NotifiesAre DEF WakeUpPending, Awaited, StopSet, JoinedAwake
<1> HIDE DEF EndedFirst
<1>4. QED
  BY <1>1, <1>2, <1>3, WakeUpPendingAlways, PTL DEF Spec
=============================================================================
