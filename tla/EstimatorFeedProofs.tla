------------------------- MODULE EstimatorFeedProofs -------------------------
(* Proofs about EstimatorFeed, for every value of its constants: whatever    *)
(* the streams of IMU, the timings of scans, the drops and the answers of    *)
(* the solvers.                                                              *)
EXTENDS EstimatorFeed, EstimatorProofs

(* The assumptions that some theorems are about.  A sweep is no longer than
   scan_guard_sec, which is chosen as its duration; *)
SpansGuarded == \A d \in Spans : d <= Guard

(* the IMU has no hole longer than kMaxImuGapSec; *)
StreamsWhole == \A s \in Streams : NoHole(s)

(* a scan without points follows a processed scan at once, and only one does:
   of two such scans in a row, or of one after a drop, the IMU is lost with it. *)
NoImuLost == EmptyAnywhere = FALSE /\ MaxUnusable <= 1 /\ Guard > 0
-----------------------------------------------------------------------------
(* FirstAt gives the first position whose stamp is t or later. *)
LEMMA FirstAtSpec ==
  ASSUME NEW q \in Seq(Nat), NEW t \in Int
  PROVE  LET i == Sync!FirstAt(q, t)
         IN /\ i \in 1 .. Len(q) + 1
            /\ i <= Len(q) => q[i] >= t
            /\ \A j \in 1 .. i - 1 : q[j] < t
<1> DEFINE n == Len(q)
           T == {i \in 1 .. n + 1 : i <= n => q[i] >= t}
<1>1. n \in Nat /\ \A i \in 1 .. n : q[i] \in Nat
  BY LenProperties, ElementOfSeq
<1> HIDE DEF n
<1>2. T \in SUBSET (1 .. n + 1) /\ T \subseteq Int /\ n + 1 \in T
  BY <1>1
<1>3. IsFiniteSet(T)
  <2>1. IsFiniteSet(1 .. n + 1)
    BY <1>1, FS_Interval
  <2>2. QED
    BY <2>1, <1>2, FS_Subset
<1>4. PICK i \in T : \A j \in T : i <= j
  <2>1. T # {}
    BY <1>2
  <2>2. QED
    BY <2>1, <1>2, <1>3, MinOfFinite
<1>5. \A j \in 1 .. i - 1 : q[j] < t
  <2>1. ASSUME NEW j \in 1 .. i - 1
        PROVE  q[j] < t
    <3>1. j \in 1 .. n /\ ~(i <= j)
      BY <1>1, <1>2, <1>4
    <3>2. j \notin T
      BY <3>1, <1>4
    <3>3. q[j] \in Nat
      BY <3>1, <1>1
    <3>4. QED
      BY <3>1, <3>2, <3>3, <1>1
  <2>2. QED
    BY <2>1
<1>6. \E k \in 1 .. n + 1 : (k <= n => q[k] >= t) /\ \A j \in 1 .. k - 1 : q[j] < t
  BY <1>4, <1>5
<1>7. QED
  BY <1>6 DEF Sync!FirstAt, n

(* A stretch of samples in time order. *)
LEMMA Stretch ==
  ASSUME NEW s \in Seq(Nat), InOrder(s), NEW m \in Nat \ {0}, NEW n \in Nat, n <= Len(s)
  PROVE  LET r == SubSeq(s, m, n)
         IN /\ r \in Seq(Nat) /\ InOrder(r)
            /\ NoHole(s) => NoHole(r)
            /\ r # <<>> <=> m <= n
            /\ r # <<>> => r[1] = s[m] /\ r[Len(r)] = s[n]
<1> DEFINE r == SubSeq(s, m, n)
<1>1. Len(s) \in Nat /\ DOMAIN s = 1 .. Len(s) /\ \A i \in 1 .. Len(s) : s[i] \in Nat
  BY LenProperties, ElementOfSeq
<1>2. \A i \in m .. n : s[i] \in Nat
  BY <1>1
<1>3. /\ r \in Seq(Nat)
      /\ Len(r) = IF m <= n THEN n - m + 1 ELSE 0
      /\ \A i \in 1 .. n - m + 1 : r[i] = s[m + i - 1]
  BY <1>2, SubSeqProperties
<1> HIDE DEF r
<1>4. DOMAIN r = 1 .. Len(r)
  BY <1>3, LenProperties
<1>5. \A i \in 1 .. Len(r) : m + i - 1 \in 1 .. n /\ r[i] = s[m + i - 1]
  BY <1>1, <1>3
<1>6. InOrder(r)
  <2>1. ASSUME NEW i \in DOMAIN r, NEW j \in DOMAIN r, i <= j
        PROVE  r[i] <= r[j]
    <3>1. m + i - 1 \in DOMAIN s /\ m + j - 1 \in DOMAIN s /\ m + i - 1 <= m + j - 1
      <4>1. i \in 1 .. Len(r) /\ j \in 1 .. Len(r) /\ i \in Int /\ j \in Int
        BY <1>3, <1>4
      <4>2. m + i - 1 \in 1 .. n /\ m + j - 1 \in 1 .. n
        BY <4>1, <1>5
      <4>3. m + i - 1 <= m + j - 1
        BY <4>1, <2>1
      <4>4. QED
        BY <4>2, <4>3, <1>1
    <3>2. s[m + i - 1] <= s[m + j - 1]
      BY <3>1 DEF InOrder
    <3>3. QED
      BY <3>2, <1>4, <1>5, SMTT(30)
  <2>2. QED
    BY <2>1 DEF InOrder
<1>7. ASSUME NoHole(s)
      PROVE  NoHole(r)
  <2>1. ASSUME NEW i \in 1 .. Len(r) - 1
        PROVE  r[i + 1] - r[i] <= MaxImuGap
    <3> DEFINE k == m + i - 1
    <3>1. i \in 1 .. Len(r) /\ i + 1 \in 1 .. Len(r) /\ m + (i + 1) - 1 = k + 1
      BY <1>3
    <3>2. r[i] = s[k] /\ r[i + 1] = s[k + 1] /\ k \in 1 .. n /\ k + 1 \in 1 .. n
      BY <3>1, <1>5
    <3>3. k \in 1 .. Len(s) - 1
      BY <3>2, <1>1
    <3> HIDE DEF k
    <3>4. QED
      BY <3>2, <3>3, <1>7 DEF NoHole
  <2>2. QED
    BY <2>1 DEF NoHole
<1>8. r # <<>> <=> m <= n
  <2>1. r # <<>> <=> Len(r) # 0
    BY <1>3, EmptySeq
  <2>2. QED
    BY <2>1, <1>3
<1>9. ASSUME m <= n
      PROVE  r[1] = s[m] /\ r[Len(r)] = s[n]
  <2>1. Len(r) = n - m + 1 /\ 1 \in 1 .. Len(r) /\ Len(r) \in 1 .. Len(r)
    BY <1>3, <1>9
  <2>2. m + 1 - 1 = m /\ m + Len(r) - 1 = n
    BY <2>1
  <2>3. QED
    BY <2>1, <2>2, <1>5
<1>10. QED
  BY <1>3, <1>6, <1>7, <1>8, <1>9 DEF r
-----------------------------------------------------------------------------
(* The invariant of the feed. *)

FeedTyped ==
  /\ Typed
  /\ run \in Nat /\ ready \in BOOLEAN /\ stream \in Streams
  /\ lastEnd \in Times /\ from \in Times
  /\ inherits \in BOOLEAN /\ unusable \in Nat

(* Nothing is processed before initialize(), no scan starts before the end of
   the one before it, and its IMU reaches back to where that one began. *)
FeedOrder ==
  /\ Timeline
  /\ ~ready => scansDone = 0
  /\ prevScanEnd <= lastEnd
  /\ from = NoTime <=> lastEnd = NoTime
  /\ from # NoTime => Head(stream) <= from /\ from <= lastEnd

FeedInv == FeedTyped /\ FeedOrder

LEMMA StreamSpec ==
  ASSUME NEW s \in Streams
  PROVE  /\ s \in Seq(Nat) /\ s # <<>> /\ InOrder(s)
         /\ Len(s) \in Nat /\ Len(s) >= 1
         /\ Head(s) = s[1] /\ Head(s) \in Nat /\ Head(s) > 0
         /\ Sync!Back(s) = s[Len(s)] /\ Sync!Back(s) \in Nat
<1>1. s \in Seq(Nat \ {0}) /\ s # <<>> /\ InOrder(s)
  BY FeedAssumption DEF InOrder
<1>2. s \in Seq(Nat)
  <2>1. Nat \ {0} \subseteq Nat
    OBVIOUS
  <2>2. QED
    BY <1>1, <2>1, SeqMonotonic
<1>3. Len(s) \in Nat /\ Len(s) >= 1
  BY <1>1, EmptySeq, LenProperties
<1>4. Head(s) = s[1] /\ s[1] \in Nat \ {0}
  BY <1>1, <1>3, ElementOfSeq
<1>5. s[Len(s)] \in Nat
  BY <1>2, <1>3, ElementOfSeq
<1>6. QED
  BY <1>1, <1>2, <1>3, <1>4, <1>5 DEF Sync!Back

(* The scans that may come next: none begins before the last one ended, and its
   IMU is in order and reaches past its guarded end. *)
LEMMA DeliverableSpec ==
  ASSUME FeedInv, NEW g \in Deliverable
  PROVE  /\ g \in ScanGroup /\ g.run = run /\ g.span \in Spans
         /\ InOrder(g.imu) /\ (NoHole(stream) => NoHole(g.imu))
         /\ 0 < g.header /\ lastEnd <= g.header /\ prevScanEnd <= g.header
         /\ Head(stream) <= g.header /\ from <= g.header
         /\ g.imu # <<>> => /\ g.imu[1] <= IF from = NoTime THEN Head(stream) ELSE from
                           /\ g.header + Guard <= g.imu[Len(g.imu)]
         /\ Guard > 0 => g.imu # <<>>
<1>1. PICK late \in Headers, d \in Spans, p \in BOOLEAN :
        /\ Covered(Soonest + late)
        /\ g = [run |-> run, header |-> Soonest + late, span |-> d, points |-> p,
                imu |-> GroupImu(Soonest + late)]
  BY DEF Deliverable
<1> DEFINE h == Soonest + late
           start == IF from = NoTime THEN 1 ELSE Sync!FirstAt(stream, from + 1) - 1
           stop == Sync!FirstAt(stream, h + Guard)
<1>2. late \in Nat /\ d \in Nat /\ Guard \in Nat /\ run \in Nat
  BY FeedAssumption DEF FeedInv, FeedTyped
<1>3. /\ stream \in Seq(Nat) /\ stream # <<>> /\ InOrder(stream)
      /\ Len(stream) \in Nat /\ Len(stream) >= 1
      /\ Head(stream) = stream[1] /\ Head(stream) \in Nat /\ Head(stream) > 0
      /\ Sync!Back(stream) = stream[Len(stream)] /\ Sync!Back(stream) \in Nat
  BY StreamSpec DEF FeedInv, FeedTyped
<1>4. /\ lastEnd \in Times /\ from \in Times /\ prevScanEnd \in Times
      /\ prevScanEnd <= lastEnd
      /\ from = NoTime <=> lastEnd = NoTime
      /\ from # NoTime => Head(stream) <= from /\ from <= lastEnd
  BY Zenon DEF FeedInv, FeedTyped, FeedOrder, Typed, EstimatorTypeOK
<1>5. /\ h \in Nat /\ 0 < h /\ lastEnd <= h /\ prevScanEnd <= h /\ from <= h
      /\ Head(stream) <= h
  BY <1>2, <1>3, <1>4 DEF Soonest, Times, NoTime
<1>6. Head(stream) <= h /\ h + Guard <= Sync!Back(stream)
  BY <1>1 DEF Covered
<1> HIDE DEF h
<1>7. /\ stop \in 1 .. Len(stream) + 1
      /\ stop <= Len(stream) => stream[stop] >= h + Guard
      /\ \A j \in 1 .. stop - 1 : stream[j] < h + Guard
  <2>1. h + Guard \in Int
    BY <1>2, <1>5
  <2>2. QED
    BY <2>1, <1>3, FirstAtSpec
<1>8. stop \in 1 .. Len(stream) /\ stream[stop] >= h + Guard
  <2> HIDE DEF stop
  <2>1. stop # Len(stream) + 1
    <3> SUFFICES ASSUME stop = Len(stream) + 1 PROVE FALSE
      OBVIOUS
    <3>1. stream[Len(stream)] < h + Guard
      BY <1>3, <1>7
    <3>2. QED
      BY <3>1, <1>2, <1>3, <1>5, <1>6
  <2>2. QED
    BY <2>1, <1>3, <1>7
<1>9. /\ start \in 1 .. Len(stream)
      /\ stream[start] <= IF from = NoTime THEN Head(stream) ELSE from
      /\ \A j \in 1 .. start : stream[j] <= IF from = NoTime THEN Head(stream) ELSE from
  <2>1. CASE from = NoTime
    BY <2>1, <1>3
  <2>2. CASE from # NoTime
    <3> DEFINE k == Sync!FirstAt(stream, from + 1)
    <3>1. from \in Nat /\ Head(stream) <= from
      BY <2>2, <1>4 DEF Times
    <3>2. /\ k \in 1 .. Len(stream) + 1
          /\ k <= Len(stream) => stream[k] >= from + 1
          /\ \A j \in 1 .. k - 1 : stream[j] < from + 1
      <4>1. from + 1 \in Int
        BY <3>1
      <4>2. QED
        BY <4>1, <1>3, FirstAtSpec
    <3>3. start = k - 1
      BY <2>2
    <3> HIDE DEF k, start
    <3>4. k # 1
      BY <3>1, <3>2, <1>3
    <3>5. start \in 1 .. Len(stream)
      BY <3>2, <3>3, <3>4, <1>3
    <3>6. ASSUME NEW j \in 1 .. start
          PROVE  stream[j] <= from
      <4>1. j \in 1 .. k - 1 /\ j \in 1 .. Len(stream)
        BY <3>2, <3>3, <1>3
      <4>2. stream[j] \in Nat /\ stream[j] < from + 1
        BY <4>1, <3>2, <1>3, ElementOfSeq
      <4>3. QED
        BY <4>2, <3>1
    <3>7. start \in 1 .. start
      BY <3>5
    <3>8. QED
      BY <3>5, <3>6, <3>7, <2>2
  <2>3. QED
    BY <2>1, <2>2
<1>10. g.imu = SubSeq(stream, start, stop) /\ g.header = h /\ g.span = d /\ g.run = run
       /\ g.points = p
  BY <1>1 DEF GroupImu, h
<1> HIDE DEF start, stop
<1>11. /\ g.imu \in Seq(Nat) /\ InOrder(g.imu)
       /\ NoHole(stream) => NoHole(g.imu)
       /\ g.imu # <<>> <=> start <= stop
       /\ g.imu # <<>> => g.imu[1] = stream[start] /\ g.imu[Len(g.imu)] = stream[stop]
  <2>1. start \in Nat \ {0} /\ stop \in Nat /\ stop <= Len(stream)
    BY <1>3, <1>8, <1>9
  <2> DEFINE imu == SubSeq(stream, start, stop)
  <2>2. /\ imu \in Seq(Nat) /\ InOrder(imu)
        /\ NoHole(stream) => NoHole(imu)
        /\ imu # <<>> <=> start <= stop
        /\ imu # <<>> => imu[1] = stream[start] /\ imu[Len(imu)] = stream[stop]
    BY <2>1, <1>3, Stretch, ZenonT(30)
  <2>3. g.imu = imu
    BY <1>10
  <2> HIDE DEF imu
  <2>4. QED
    BY <2>2, <2>3
<1>12. ASSUME Guard > 0
       PROVE  g.imu # <<>>
  <2> SUFFICES ASSUME ~(start <= stop) PROVE FALSE
    BY <1>11
  <2>1. stop \in 1 .. start
    BY <1>3, <1>8, <1>9
  <2>2. stream[stop] <= IF from = NoTime THEN Head(stream) ELSE from
    BY <2>1, <1>9
  <2>3. stream[stop] <= h
    <3>1. stream[stop] \in Nat
      BY <1>3, <1>8, ElementOfSeq
    <3>2. QED
      BY <3>1, <2>2, <1>3, <1>4, <1>5 DEF Times, NoTime
  <2>4. stream[stop] \in Nat /\ stream[stop] >= h + Guard
    BY <1>3, <1>8, ElementOfSeq
  <2>5. QED
    BY <2>3, <2>4, <1>2, <1>5, <1>12
<1>13. g \in ScanGroup
  <2>1. run \in Nat /\ h \in Nat /\ d \in Nat /\ p \in BOOLEAN
    BY <1>1, <1>2, <1>5
  <2>2. SubSeq(stream, start, stop) \in Seq(Nat)
    BY <1>10, <1>11
  <2>3. g = [run |-> run, header |-> h, span |-> d, points |-> p,
             imu |-> SubSeq(stream, start, stop)]
    BY <1>1 DEF GroupImu, h, start, stop
  <2>4. QED
    BY <2>1, <2>2, <2>3 DEF ScanGroup
<1>14. /\ g.header + Guard <= stream[stop]
       /\ stream[start] <= IF from = NoTime THEN Head(stream) ELSE from
  <2>1. stream[stop] \in Nat
    BY <1>3, <1>8, ElementOfSeq
  <2>2. QED
    BY <2>1, <1>2, <1>5, <1>8, <1>9, <1>10
<1>15. g.span \in Spans /\ g.run = run
  BY <1>1, <1>10
<1>16. QED
  BY <1>5, <1>10, <1>11, <1>12, <1>13, <1>14, <1>15

LEMMA FeedInit == Init => FeedInv
<1> SUFFICES ASSUME Init PROVE FeedInv
  OBVIOUS
<1>1. Typed /\ Timeline
  BY InitTyped, InitTimeline DEF Init
<1>2. FeedTyped
  BY <1>1 DEF Init, FeedTyped, Times
<1>3. FeedOrder
  BY <1>1 DEF Init, FeedOrder, EstimatorInit, NoTime
<1>4. QED
  BY <1>2, <1>3 DEF FeedInv

LEMMA FeedRestart == FeedInv /\ Restart => FeedInv'
<1> SUFFICES ASSUME FeedInv, Restart PROVE FeedInv'
  OBVIOUS
<1>1. Typed /\ EstimatorReset
  BY DEF FeedInv, FeedTyped, Restart
<1>2. Typed' /\ Timeline'
  BY <1>1, ResetTyped, ResetTimeline
<1>3. FeedTyped'
  <2>1. run' \in Nat /\ unusable' \in Nat /\ lastEnd' \in Times /\ from' \in Times
    BY DEF FeedInv, FeedTyped, Restart, Times
  <2>2. ready' \in BOOLEAN /\ inherits' \in BOOLEAN /\ stream' \in Streams
    BY Zenon DEF Restart
  <2>3. QED
    BY <1>2, <2>1, <2>2, Zenon DEF FeedTyped
<1>4. FeedOrder'
  BY <1>1, <1>2 DEF FeedOrder, Restart, EstimatorReset, NoTime
<1>5. QED
  BY <1>3, <1>4 DEF FeedInv

LEMMA FeedStart == FeedInv /\ Start => FeedInv'
<1> SUFFICES ASSUME FeedInv, Start PROVE FeedInv'
  OBVIOUS
<1>1. Typed /\ Timeline /\ run \in Nat /\ Initialize(run)
  BY DEF FeedInv, FeedTyped, FeedOrder, Start
<1>2. Typed' /\ Timeline'
  BY <1>1, InitializeTyped, InitializeTimeline
<1>3. FeedTyped'
  BY <1>2 DEF FeedInv, FeedTyped, Start
<1>4. FeedOrder'
  BY <1>1, <1>2 DEF FeedInv, FeedOrder, Start, Initialize
<1>5. QED
  BY <1>3, <1>4 DEF FeedInv

LEMMA GroupOfFeed ==
  ASSUME FeedInv, NEW g \in Deliverable
  PROVE  /\ ScanEnd(g) \in Nat /\ g.header \in Nat /\ g.header <= ScanEnd(g)
         /\ ScanEnd(g) \in Times /\ g.header \in Times
         /\ prevScanEnd \in Times /\ prevScanEnd <= ScanEnd(g) /\ ScanEnd(g) # NoTime
<1>1. g \in ScanGroup /\ prevScanEnd <= g.header
  BY DeliverableSpec
<1>2. g.header \in Nat /\ g.span \in Nat
  BY <1>1 DEF ScanGroup
<1>3. prevScanEnd \in Times
  BY Zenon DEF FeedInv, FeedTyped, Typed, EstimatorTypeOK
<1>4. QED
  BY <1>1, <1>2, <1>3 DEF ScanEnd, Times, NoTime

LEMMA StutterTyped ==
  ASSUME UNCHANGED estVars, Typed, Timeline
  PROVE  Typed' /\ Timeline' /\ scansDone' = scansDone /\ prevScanEnd' = prevScanEnd
<1>1. /\ scans' = scans /\ deskew' = deskew /\ pose' = pose /\ velocity' = velocity
      /\ state' = state /\ gravity' = gravity /\ navCov' = navCov /\ biasCov' = biasCov
      /\ map' = map /\ bootstrapped' = bootstrapped /\ scansDone' = scansDone
      /\ prevScanEnd' = prevScanEnd /\ report' = report /\ result' = result
  BY DEF estVars, solved
<1>2. QED
  BY <1>1, Zenon DEF Typed, EstimatorTypeOK, Timeline

LEMMA FeedDrop ==
  ASSUME FeedInv, NEW g \in Deliverable, DropScan(g)
  PROVE  FeedInv'
<1>1. UNCHANGED <<run, ready, stream, unusable, estVars>>
  BY DEF DropScan
<1>2. Typed' /\ Timeline' /\ scansDone' = scansDone /\ prevScanEnd' = prevScanEnd
  <2>1. UNCHANGED estVars /\ Typed /\ Timeline
    BY <1>1 DEF FeedInv, FeedTyped, FeedOrder
  <2>2. QED
    BY <2>1, StutterTyped
<1>3. /\ ScanEnd(g) \in Times /\ ScanEnd(g) # NoTime /\ prevScanEnd <= ScanEnd(g)
      /\ g.header <= ScanEnd(g) /\ Head(stream) <= g.header /\ from <= g.header
      /\ g.header \in Nat /\ ScanEnd(g) \in Nat
  BY GroupOfFeed, DeliverableSpec
<1>4. /\ lastEnd' = ScanEnd(g) /\ inherits' = TRUE
      /\ from' = IF from = NoTime THEN Head(stream) ELSE from
  BY DEF DropScan
<1>5. Head(stream) \in Nat
  BY StreamSpec DEF FeedInv, FeedTyped
<1>6. FeedTyped'
  <2>1. from' \in Times
    BY <1>4, <1>5 DEF FeedInv, FeedTyped, Times
  <2>2. QED
    BY <1>1, <1>2, <1>3, <1>4, <2>1 DEF FeedInv, FeedTyped
<1>7. FeedOrder'
  <2>1. from' # NoTime /\ Head(stream) <= from' /\ from' <= lastEnd'
    BY <1>3, <1>4, <1>5 DEF FeedInv, FeedTyped, FeedOrder, Times, NoTime
  <2>2. QED
    BY <1>1, <1>2, <1>3, <1>4, <2>1 DEF FeedInv, FeedOrder
<1>8. QED
  BY <1>6, <1>7 DEF FeedInv

LEMMA FeedDeliver ==
  ASSUME FeedInv, NEW g \in Deliverable, DeliverScan(g)
  PROVE  FeedInv'
<1>1. UNCHANGED <<run, ready, stream>> /\ ProcessScan(g) /\ ready
  BY DEF DeliverScan
<1>2. /\ g \in ScanGroup /\ InOrder(g.imu) /\ 0 < g.header /\ prevScanEnd <= g.header
      /\ Head(stream) <= g.header
  BY DeliverableSpec
<1>3. Typed /\ Timeline
  BY DEF FeedInv, FeedTyped, FeedOrder
<1>4. Typed' /\ Timeline'
  BY <1>1, <1>2, <1>3, ScanTyped, ScanTimeline
<1>5. /\ ScanEnd(g) \in Times /\ ScanEnd(g) # NoTime /\ prevScanEnd <= ScanEnd(g)
      /\ g.header <= ScanEnd(g) /\ g.header \in Nat /\ ScanEnd(g) \in Nat
  BY GroupOfFeed
<1>6. /\ lastEnd' = ScanEnd(g) /\ from' = g.header /\ inherits' = FALSE
      /\ unusable' = IF g.points THEN 0 ELSE unusable + 1
  BY DEF DeliverScan
<1>7. FeedTyped'
  <2>1. run' \in Nat /\ ready' \in BOOLEAN /\ stream' \in Streams
    BY <1>1 DEF FeedInv, FeedTyped
  <2>2. lastEnd' \in Times /\ from' \in Times /\ inherits' \in BOOLEAN
    BY <1>5, <1>6 DEF Times
  <2>3. unusable' \in Nat
    BY <1>6 DEF FeedInv, FeedTyped
  <2>4. QED
    BY <1>4, <2>1, <2>2, <2>3, Zenon DEF FeedTyped
<1>8. prevScanEnd' <= ScanEnd(g)
  <2>1. prevScanEnd' = ScanEnd(g) \/ prevScanEnd' = prevScanEnd
    BY <1>1, <1>3, Processed, Zenon DEF Outcome, solved
  <2>2. QED
    BY <2>1, <1>5
<1>9. FeedOrder'
  BY <1>1, <1>2, <1>4, <1>5, <1>6, <1>8 DEF FeedOrder, NoTime
<1>10. QED
  BY <1>7, <1>9 DEF FeedInv

LEMMA FeedStutter == FeedInv /\ UNCHANGED vars => FeedInv'
<1> SUFFICES ASSUME FeedInv, UNCHANGED vars PROVE FeedInv'
  OBVIOUS
<1>1. /\ UNCHANGED estVars /\ run' = run /\ ready' = ready /\ stream' = stream
      /\ lastEnd' = lastEnd /\ from' = from /\ inherits' = inherits
      /\ unusable' = unusable
  BY DEF vars, feedVars
<1>2. Typed' /\ Timeline' /\ scansDone' = scansDone /\ prevScanEnd' = prevScanEnd
  BY <1>1, StutterTyped DEF FeedInv, FeedTyped, FeedOrder
<1>3. QED
  BY <1>1, <1>2, Zenon DEF FeedInv, FeedTyped, FeedOrder

LEMMA FeedStep == FeedInv /\ [Next]_vars => FeedInv'
BY FeedRestart, FeedStart, FeedDrop, FeedDeliver, FeedStutter, Zenon DEF Next

LEMMA FeedInvariant == Spec => []FeedInv
<1>1. QED
  BY FeedInit, FeedStep, PTL DEF Spec
-----------------------------------------------------------------------------
(* What holds of every feed. *)

LEMMA ResultOfScan ==
  ASSUME [Next]_vars, result' # result
  PROVE  \E g \in Deliverable : DeliverScan(g)
<1>1. ~UNCHANGED vars
  BY DEF vars, estVars
<1>2. ~Restart /\ ~Start
  BY DEF Restart, EstimatorReset, Start, Initialize
<1>3. \A g \in Deliverable : ~DropScan(g)
  BY DEF DropScan, estVars
<1>4. QED
  BY <1>1, <1>2, <1>3, Zenon DEF Next

LEMMA ScanOfFeed ==
  ASSUME FeedInv, NEW g \in Deliverable, DeliverScan(g)
  PROVE  /\ Typed /\ Timeline /\ ProcessScan(g)
         /\ g \in ScanGroup /\ g.run = run /\ InOrder(g.imu)
         /\ 0 < g.header /\ prevScanEnd <= g.header
BY DeliverableSpec DEF FeedInv, FeedTyped, FeedOrder, DeliverScan

(* The IMU of a scan reaches to its end, if no sweep is longer than the guard. *)
LEMMA ReachesEnd ==
  ASSUME SpansGuarded, FeedInv, NEW g \in Deliverable, g.imu # <<>>
  PROVE  ScanEnd(g) <= g.imu[Len(g.imu)]
<1>1. /\ g \in ScanGroup /\ g.span \in Spans /\ g.header + Guard <= g.imu[Len(g.imu)]
  BY DeliverableSpec
<1>2. g.span <= Guard /\ g.span \in Nat /\ g.header \in Nat /\ Guard \in Nat
  BY <1>1, FeedAssumption DEF SpansGuarded, ScanGroup
<1>3. g.imu[Len(g.imu)] \in Nat
  BY <1>1, LastSample
<1>4. QED
  BY <1>1, <1>2, <1>3 DEF ScanEnd

(* Every variable of the estimator has its type: in particular no window ends
   before it begins, and nothing is counted in negative ticks. *)
THEOREM TypeCorrect == Spec => []EstimatorTypeOK
<1>1. FeedInv => EstimatorTypeOK
  BY DEF FeedInv, FeedTyped, Typed
<1>2. QED
  BY <1>1, FeedInvariant, PTL

(* The ratio a result reports is never one of an earlier scan. *)
THEOREM RatioOfScanAlways == Spec => []RatioOfScan
<1>1. Init => RatioOfScan
  BY DEF Init, EstimatorInit, NoResult, RatioOfScan
<1>2. ASSUME FeedInv, RatioOfScan, [Next]_vars
      PROVE  RatioOfScan'
  <2>1. CASE result' = result
    BY <2>1, <1>2, Zenon DEF RatioOfScan
  <2>2. CASE result' # result
    <3>1. PICK g \in Deliverable : DeliverScan(g)
      BY <2>2, <1>2, ResultOfScan
    <3>2. QED
      BY <3>1, <1>2, ScanOfFeed, ScanRatio
  <2>3. QED
    BY <2>1, <2>2
<1>3. QED
  BY <1>1, <1>2, FeedInvariant, PTL DEF Spec

(* Every point is turned to the end of its scan, if no sweep is longer than the
   guard that its scan was held back for. *)
THEOREM PointsAtScanEndAlways ==
  ASSUME SpansGuarded
  PROVE  Spec => []PointsAtScanEnd
<1>1. Init => PointsAtScanEnd
  BY DEF Init, EstimatorInit, NoResult, PointsAtScanEnd
<1>2. ASSUME FeedInv, PointsAtScanEnd, [Next]_vars
      PROVE  PointsAtScanEnd'
  <2>1. CASE result' = result
    BY <2>1, <1>2, Zenon DEF PointsAtScanEnd
  <2>2. CASE result' # result
    <3>1. PICK g \in Deliverable : DeliverScan(g)
      BY <2>2, <1>2, ResultOfScan
    <3>2. ASSUME Deskewable(g, deskew.end)
          PROVE  ScanEnd(g) <= g.imu[Len(g.imu)]
      BY <3>1, <3>2, <1>2, ReachesEnd DEF Deskewable
    <3>3. QED
      BY <3>1, <3>2, <1>2, ScanOfFeed, ScanPoints
  <2>3. QED
    BY <2>1, <2>2
<1>3. QED
  BY <1>1, <1>2, FeedInvariant, PTL DEF Spec

(* No pose of the tight path is ahead of its scan. *)
THEOREM NeverAheadAlways == Spec => NeverAhead
<1>1. ASSUME FeedInv, [Next]_vars, Ran("tight")
      PROVE  pose' <= result'.end /\ state'.at <= result'.end
  <2>1. PICK g \in Deliverable : DeliverScan(g)
    BY <1>1, ResultOfScan DEF Ran
  <2>2. QED
    BY <2>1, <1>1, ScanOfFeed, ScanNeverAhead
<1>2. FeedInv /\ [Next]_vars =>
        [Ran("tight") => pose' <= result'.end /\ state'.at <= result'.end]_estVars
  BY <1>1
<1>3. QED
  BY <1>2, FeedInvariant, PTL DEF Spec, NeverAhead

(* The covariance is the state's, if every accepted solve leaves one. *)
THEOREM CovarianceOfStateAlways ==
  ASSUME PosteriorExists = {TRUE}
  PROVE  Spec => CovarianceOfState
<1>1. Init => CovarianceMatches
  BY InitCovariance DEF Init
<1>2. ASSUME FeedInv, CovarianceMatches, [Next]_vars
      PROVE  CovarianceMatches'
  <2>1. CASE Restart
    BY <2>1, ResetCovariance DEF Restart
  <2>2. CASE Start
    BY <2>2, InitializeCovariance DEF Start
  <2>3. CASE UNCHANGED estVars
    BY <2>3, <1>2 DEF CovarianceMatches, estVars, solved
  <2>4. ASSUME NEW g \in Deliverable, DeliverScan(g)
        PROVE  CovarianceMatches'
    BY <2>4, <1>2, ScanOfFeed, ScanCovariance
  <2>5. QED
    BY <2>1, <2>2, <2>3, <2>4, <1>2, Zenon DEF Next, DropScan, vars
<1>3. CovarianceMatches => [Ran("tight") /\ map # {} => navCov = state.at]_estVars
  BY DEF CovarianceMatches
<1>4. QED
  BY <1>1, <1>2, <1>3, FeedInvariant, PTL DEF Spec, CovarianceOfState

(* A scan is processed with what its own run was initialised with. *)
FeedCalibrated == ready => CalibratedFor(run)

THEOREM CalibrationOfRunAlways == Spec => CalibrationOfRun
<1>1. Init => FeedCalibrated
  BY DEF Init, FeedCalibrated
<1>2. ASSUME FeedInv, FeedCalibrated, [Next]_vars
      PROVE  FeedCalibrated'
  <2>1. CASE Restart
    BY <2>1 DEF Restart, FeedCalibrated
  <2>2. CASE Start
    <3>1. Typed /\ Initialize(run) /\ run' = run
      BY <2>2, <1>2 DEF Start, FeedInv, FeedTyped
    <3>2. CalibratedFor(run)'
      BY <3>1, TypedRecords, InitializeCalibrates
    <3>3. QED
      BY <3>2 DEF FeedCalibrated
  <2>3. CASE UNCHANGED <<run, ready, estVars>>
    BY <2>3, <1>2 DEF FeedCalibrated, CalibratedFor, estVars, solved
  <2>4. ASSUME NEW g \in Deliverable, DeliverScan(g)
        PROVE  FeedCalibrated'
    <3>1. ready /\ run' = run /\ g.run = run /\ Typed /\ ProcessScan(g)
      BY <2>4, <1>2, ScanOfFeed DEF DeliverScan
    <3>2. CalibratedFor(g.run)
      BY <3>1, <1>2, Zenon DEF FeedCalibrated
    <3>3. CalibratedFor(g.run)'
      BY <3>1, <3>2, TypedRecords, ScanCalibrated
    <3>4. QED
      BY <3>1, <3>3 DEF FeedCalibrated, CalibratedFor
  <2>5. ASSUME NEW g \in Deliverable, DropScan(g)
        PROVE  FeedCalibrated'
    BY <2>3, <2>5 DEF DropScan
  <2>6. CASE UNCHANGED vars
    BY <2>3, <2>6 DEF vars, feedVars
  <2>7. QED
    BY <2>1, <2>2, <2>4, <2>5, <2>6, <1>2, Zenon DEF Next
<1>3. ASSUME FeedInv, FeedCalibrated, [Next]_vars, result' # result
      PROVE  {deskew.bias.run, state.bias.run, gravity.run} = {result'.run}
  <2>1. PICK g \in Deliverable : DeliverScan(g)
    BY <1>3, ResultOfScan
  <2>2. ready /\ result'.run = run
    BY <2>1, <1>3, ScanOfFeed, ScanRun DEF DeliverScan
  <2>3. QED
    BY <2>2, <1>3 DEF FeedCalibrated, CalibratedFor
<1>4. FeedInv /\ FeedCalibrated /\ [Next]_vars =>
        [result' # result =>
           {deskew.bias.run, state.bias.run, gravity.run} = {result'.run}]_estVars
  BY <1>3
<1>5. QED
  BY <1>1, <1>2, <1>4, FeedInvariant, PTL DEF Spec, CalibrationOfRun
-----------------------------------------------------------------------------
(* What holds of a map that the robot never leaves. *)

LEMMA FeedInRange ==
  ASSUME Leaves = FALSE
  PROVE  Spec => []InRange
<1>1. Init => InRange
  BY DEF Init, EstimatorInit, InRange
<1>2. ASSUME FeedInv, InRange, [Next]_vars
      PROVE  InRange'
  <2>1. CASE Restart
    BY <2>1 DEF Restart, EstimatorReset, InRange
  <2>2. CASE UNCHANGED <<map, scansDone, bootstrapped>>
    BY <2>2, <1>2, Zenon DEF InRange, HasPlanes
  <2>3. CASE Start
    BY <2>2, <2>3 DEF Start, Initialize
  <2>4. CASE UNCHANGED estVars
    BY <2>2, <2>4 DEF estVars, solved
  <2>5. ASSUME NEW g \in Deliverable, DeliverScan(g)
        PROVE  InRange'
    BY <2>5, <1>2, ScanOfFeed, ScanInRange
  <2>6. QED
    BY <2>1, <2>3, <2>4, <2>5, <1>2, Zenon DEF Next, DropScan, vars
<1>3. QED
  BY <1>1, <1>2, FeedInvariant, PTL DEF Spec

(* A map without planes is never refused a scan. *)
THEOREM SparseMapFedAlways ==
  ASSUME Leaves = FALSE
  PROVE  Spec => SparseMapFed
<1>1. ASSUME FeedInv, InRange, [Next]_vars, result' # result, result'.ok, ~HasPlanes
      PROVE  ~Refused'
  <2>1. PICK g \in Deliverable : DeliverScan(g)
    BY <1>1, ResultOfScan
  <2>2. QED
    BY <2>1, <1>1, ScanOfFeed, ScanSparseFed
<1>2. FeedInv /\ InRange /\ [Next]_vars =>
        [result' # result /\ result'.ok /\ ~HasPlanes => ~Refused']_estVars
  BY <1>1
<1>3. QED
  BY <1>2, FeedInvariant, FeedInRange, PTL DEF Spec, SparseMapFed

(* After the bootstrap the map takes only scans that a solve aligned. *)
THEOREM MapHoldsAlignedAlways ==
  ASSUME Leaves = FALSE
  PROVE  Spec => MapHoldsAligned
<1>1. ASSUME FeedInv, InRange, [Next]_vars, bootstrapped, map' # map, scans' # scans
      PROVE  result'.trusted /\ result'.report.corr = result'.scan
  <2>1. PICK g \in Deliverable : DeliverScan(g)
    <3>1. ~UNCHANGED vars /\ ~Restart /\ ~Start /\ \A g \in Deliverable : ~DropScan(g)
      BY <1>1 DEF vars, estVars, Restart, EstimatorReset, Start, Initialize, DropScan
    <3>2. QED
      BY <3>1, <1>1, Zenon DEF Next
  <2>2. QED
    BY <2>1, <1>1, ScanOfFeed, ScanMapAligned
<1>2. FeedInv /\ InRange /\ [Next]_vars =>
        [bootstrapped /\ map' # map /\ scans' # scans
           => result'.trusted /\ result'.report.corr = result'.scan]_estVars
  BY <1>1
<1>3. QED
  BY <1>2, FeedInvariant, FeedInRange, PTL DEF Spec, MapHoldsAligned
-----------------------------------------------------------------------------
(* What holds of feeds whose IMU reaches back to the last scan processed.    *)

(* No IMU is lost between two processed scans: the next group's begins before
   the last one ended. *)
Continuous ==
  /\ from # NoTime /\ prevScanEnd # NoTime => from <= prevScanEnd
  /\ ~inherits /\ unusable = 0 /\ lastEnd # NoTime => lastEnd = prevScanEnd

(* A scan with points is always registered. *)
LEMMA PointsRegistered ==
  ASSUME NoImuLost, FeedInv, NEW g \in Deliverable, DeliverScan(g)
  PROVE  prevScanEnd' = IF g.points THEN ScanEnd(g) ELSE prevScanEnd
<1>1. /\ g \in ScanGroup /\ prevScanEnd <= g.header /\ Head(stream) <= g.header /\ from <= g.header
      /\ g.imu # <<>> => /\ g.imu[1] <= IF from = NoTime THEN Head(stream) ELSE from
                        /\ g.header + Guard <= g.imu[Len(g.imu)]
      /\ g.imu # <<>>
  BY DeliverableSpec DEF NoImuLost
<1>2. Typed /\ Timeline /\ ProcessScan(g) /\ deskew.end \in Times
  BY ScanOfFeed DEF Typed, EstimatorTypeOK
<1>3. ASSUME g.points
      PROVE  Deskewable(g, deskew.end)
  <2>1. g.imu[1] \in Nat /\ g.imu[Len(g.imu)] \in Nat
    BY <1>1, LastSample
  <2>2. g.header \in Nat /\ from \in Times /\ Head(stream) \in Nat
    BY <1>1, StreamSpec DEF ScanGroup, FeedInv, FeedTyped
  <2>3. g.imu[1] <= g.header
    BY <1>1, <2>1, <2>2 DEF Times, NoTime
  <2>4. g.header < g.imu[Len(g.imu)]
    BY <1>1, <2>1, <2>2, FeedAssumption DEF NoImuLost
  <2>5. QED
    BY <1>1, <1>2, <1>3, <2>3, <2>4, BracketedDeskewable
<1>4. CASE g.points
  <2>1. \E trusted \in BOOLEAN : Register(g, scans + 1, trusted)
    BY <1>2, <1>3, <1>4, Zenon DEF ProcessScan
  <2>2. QED
    BY <2>1, <1>4, Zenon DEF Register
<1>5. CASE ~g.points
  <2>1. ~Deskewable(g, deskew.end)
    BY <1>5 DEF Deskewable
  <2>2. QED
    BY <2>1, <1>2, <1>5 DEF ProcessScan, solved
<1>6. QED
  BY <1>4, <1>5

LEMMA FeedContinuous ==
  ASSUME NoImuLost
  PROVE  Spec => []Continuous
<1>1. Init => Continuous
  BY DEF Init, Continuous
<1>2. ASSUME FeedInv, Continuous, [Next]_vars
      PROVE  Continuous'
  <2>1. CASE Restart
    BY <2>1 DEF Restart, Continuous
  <2>2. CASE UNCHANGED <<lastEnd, from, inherits, unusable, prevScanEnd>>
    BY <2>2, <1>2, Zenon DEF Continuous
  <2>3. CASE Start
    BY <2>2, <2>3 DEF Start, Initialize
  <2>4. CASE UNCHANGED vars
    BY <2>2, <2>4 DEF vars, feedVars, estVars, solved
  <2>5. ASSUME NEW g \in Deliverable, DropScan(g)
        PROVE  Continuous'
    <3>1. /\ inherits' = TRUE /\ prevScanEnd' = prevScanEnd
          /\ from' = IF from = NoTime THEN Head(stream) ELSE from
      BY <2>5 DEF DropScan, estVars, solved
    <3>2. from = NoTime => prevScanEnd = NoTime
      <4>1. /\ prevScanEnd \in Times /\ prevScanEnd <= lastEnd
            /\ from = NoTime <=> lastEnd = NoTime
        BY <1>2, Zenon DEF FeedInv, FeedTyped, FeedOrder, Typed, EstimatorTypeOK
      <4>2. QED
        BY <4>1 DEF Times, NoTime
    <3>3. QED
      BY <3>1, <3>2, <1>2 DEF Continuous
  <2>6. ASSUME NEW g \in Deliverable, DeliverScan(g)
        PROVE  Continuous'
    <3>1. prevScanEnd' = IF g.points THEN ScanEnd(g) ELSE prevScanEnd
      BY <2>6, <1>2, PointsRegistered
    <3>2. /\ lastEnd' = ScanEnd(g) /\ from' = g.header /\ inherits' = FALSE
          /\ unusable' = IF g.points THEN 0 ELSE unusable + 1
          /\ g.points \/ MayBeEmpty(g.header)
      BY <2>6 DEF DeliverScan
    <3>3. g.header \in Nat /\ g.header <= ScanEnd(g) /\ unusable \in Nat
      BY <1>2, GroupOfFeed DEF FeedInv, FeedTyped
    <3>4. CASE g.points
      BY <3>1, <3>2, <3>3, <3>4 DEF Continuous
    <3>5. CASE ~g.points
      <4>1. ~inherits /\ g.header = Soonest /\ unusable < MaxUnusable
        BY <3>2, <3>5 DEF MayBeEmpty, NoImuLost
      <4>2. unusable = 0
        BY <4>1, <3>3, FeedAssumption DEF NoImuLost
      <4>3. lastEnd # NoTime => from' = prevScanEnd
        BY <4>1, <4>2, <3>2, <1>2 DEF Continuous, Soonest
      <4>4. lastEnd = NoTime => prevScanEnd = NoTime
        <5>1. prevScanEnd \in Times /\ prevScanEnd <= lastEnd
          BY <1>2, Zenon DEF FeedInv, FeedTyped, FeedOrder, Typed, EstimatorTypeOK
        <5>2. QED
          BY <5>1 DEF Times, NoTime
      <4>5. from' # NoTime /\ prevScanEnd' # NoTime => from' <= prevScanEnd'
        BY <3>1, <3>2, <3>3, <3>5, <4>3, <4>4
      <4>6. unusable' # 0
        BY <3>2, <3>3, <3>5
      <4>7. QED
        BY <4>5, <4>6 DEF Continuous
    <3>6. QED
      BY <3>4, <3>5
  <2>7. QED
    BY <2>1, <2>3, <2>4, <2>5, <2>6, <1>2, Zenon DEF Next
<1>3. QED
  BY <1>1, <1>2, FeedInvariant, PTL DEF Spec

(* So the IMU of a scan reaches back to where its window begins. *)
LEMMA ReachesBegin ==
  ASSUME NoImuLost, FeedInv, Continuous, NEW g \in Deliverable
  PROVE  g.imu # <<>> /\ g.imu[1] <= WindowBegin(g)
<1>1. /\ g \in ScanGroup /\ prevScanEnd <= g.header /\ Head(stream) <= g.header /\ from <= g.header
      /\ g.imu # <<>> => g.imu[1] <= IF from = NoTime THEN Head(stream) ELSE from
      /\ g.imu # <<>>
  BY DeliverableSpec DEF NoImuLost
<1>2. Typed /\ Timeline
  BY DEF FeedInv, FeedTyped, FeedOrder
<1>3. WindowBegin(g) = IF scansDone > 0 THEN prevScanEnd ELSE g.header
  BY <1>1, <1>2, WindowOf
<1>4. /\ from \in Times /\ prevScanEnd \in Times /\ g.header \in Nat /\ Head(stream) \in Nat
      /\ from = NoTime <=> lastEnd = NoTime
      /\ prevScanEnd <= lastEnd
  <2>1. Head(stream) \in Nat /\ g.header \in Nat
    BY <1>1, StreamSpec DEF FeedInv, FeedTyped, ScanGroup
  <2>2. QED
    BY <2>1, Zenon DEF FeedInv, FeedTyped, FeedOrder, Typed, EstimatorTypeOK, Timeline
<1>5. g.imu[1] \in Nat
  BY <1>1, LastSample
<1>6. CASE scansDone > 0
  <2>1. prevScanEnd > 0 /\ prevScanEnd \in Nat
    BY <1>2, <1>4, <1>6 DEF Timeline, Times, NoTime
  <2>2. prevScanEnd <= lastEnd /\ lastEnd # NoTime /\ from # NoTime
    <3>1. prevScanEnd <= lastEnd
      BY DEF FeedInv, FeedOrder
    <3>2. lastEnd # NoTime
      BY <3>1, <2>1 DEF NoTime
    <3>3. QED
      BY <3>1, <3>2, <1>4
  <2>3. from <= prevScanEnd
    BY <2>1, <2>2 DEF Continuous, NoTime
  <2>4. g.imu[1] <= from /\ from \in Nat
    BY <1>1, <1>4, <2>2 DEF Times
  <2>5. QED
    BY <1>1, <1>3, <1>5, <1>6, <2>1, <2>3, <2>4
<1>7. CASE ~(scansDone > 0)
  <2>1. g.imu[1] <= g.header
    BY <1>1, <1>4, <1>5 DEF Times, NoTime
  <2>2. QED
    BY <2>1, <1>1, <1>3, <1>7
<1>8. QED
  BY <1>6, <1>7

LEMMA FeedLoosePose ==
  ASSUME Leaves = FALSE
  PROVE  Spec => []LoosePose
<1>1. Init => LoosePose
  BY DEF Init, EstimatorInit, LoosePose
<1>2. ASSUME FeedInv, InRange, LoosePose, [Next]_vars
      PROVE  LoosePose'
  <2>1. CASE Restart
    BY <2>1 DEF Restart, EstimatorReset, LoosePose
  <2>2. CASE UNCHANGED <<pose, scansDone, prevScanEnd>>
    BY <2>2, <1>2, Zenon DEF LoosePose
  <2>3. CASE Start
    BY <2>2, <2>3 DEF Start, Initialize
  <2>4. CASE UNCHANGED estVars
    BY <2>2, <2>4 DEF estVars, solved
  <2>5. ASSUME NEW g \in Deliverable, DeliverScan(g)
        PROVE  LoosePose'
    BY <2>5, <1>2, ScanOfFeed, ScanLoosePose
  <2>6. QED
    BY <2>1, <2>3, <2>4, <2>5, <1>2, Zenon DEF Next, DropScan, vars
<1>3. QED
  BY <1>1, <1>2, FeedInvariant, FeedInRange, PTL DEF Spec

(* The guess of a loose scan adds to its pose the motion since that pose, over
   any number of dropped scans -- as long as none of the pauses that they make is
   as long as the second after which deskew does not chain. *)
THEOREM GuessSpansPoseAlways ==
  ASSUME SpansGuarded, NoImuLost, Leaves = FALSE
  PROVE  Spec /\ [][Prompt]_estVars => GuessSpansPose
<1>1. ASSUME FeedInv, Continuous, LoosePose, [Next]_vars, [Prompt]_estVars,
             Ran("loose"), map # {}
      PROVE  /\ result'.begin = pose
             /\ deskew'.rot = [from |-> pose, to |-> result'.end]
  <2>1. result' # result
    BY <1>1 DEF Ran
  <2>2. PICK g \in Deliverable : DeliverScan(g)
    BY <2>1, <1>1, ResultOfScan
  <2>3. Typed /\ Timeline /\ ProcessScan(g) /\ g \in ScanGroup /\ prevScanEnd <= g.header
    BY <2>2, <1>1, ScanOfFeed
  <2>4. Prompt
    BY <2>1, <1>1 DEF estVars
  <2>5. ASSUME Deskewable(g, deskew.end)
        PROVE  /\ g.imu[1] <= WindowBegin(g) /\ ScanEnd(g) <= g.imu[Len(g.imu)]
               /\ prevScanEnd # NoTime => g.header - prevScanEnd < MaxChainGap
    <3>1. g.imu # <<>> /\ g.imu[1] <= WindowBegin(g)
      BY <1>1, ReachesBegin
    <3>2. ScanEnd(g) <= g.imu[Len(g.imu)]
      BY <3>1, <1>1, ReachesEnd
    <3>3. PICK trusted \in BOOLEAN : Register(g, scans + 1, trusted)
      BY <2>3, <2>5, Zenon DEF ProcessScan
    <3>4. result'.ok = TRUE /\ result'.end = ScanEnd(g)
      BY <2>3, <3>3, Outcomes, GoodResult, Zenon
    <3>5. deskew'.span = g.span
      <4>1. \E resync \in BOOLEAN : Deskewed(g, resync)
        BY <3>3, Zenon DEF Register
      <4>2. QED
        BY <4>1 DEF Deskewed
    <3>6. ScanEnd(g) - g.span = g.header
      BY <2>3 DEF ScanEnd, ScanGroup
    <3>7. QED
      BY <2>1, <2>4, <3>1, <3>2, <3>4, <3>5, <3>6 DEF Prompt
  <2>6. QED
    BY <2>3, <2>5, <1>1, ScanGuessSpans
<1>2. FeedInv /\ Continuous /\ LoosePose /\ [Next]_vars /\ [Prompt]_estVars =>
        [Ran("loose") /\ map # {} =>
           /\ result'.begin = pose
           /\ deskew'.rot = [from |-> pose, to |-> result'.end]]_estVars
  BY <1>1
<1>3. QED
  BY <1>2, FeedInvariant, FeedContinuous, FeedLoosePose, PTL DEF Spec, GuessSpansPose
-----------------------------------------------------------------------------
(* What holds if moreover the IMU has no hole.                               *)

LEMMA FeedCovers ==
  ASSUME SpansGuarded, StreamsWhole, NoImuLost, FeedInv, Continuous, NEW g \in Deliverable
  PROVE  CoversWindow(g)
<1>1. InOrder(g.imu) /\ NoHole(g.imu)
  BY DeliverableSpec DEF StreamsWhole, FeedInv, FeedTyped
<1>2. g.imu # <<>> /\ g.imu[1] <= WindowBegin(g)
  BY ReachesBegin
<1>3. ScanEnd(g) <= g.imu[Len(g.imu)]
  BY <1>2, ReachesEnd
<1>4. QED
  BY <1>1, <1>2, <1>3 DEF CoversWindow

LEMMA FeedTightPose ==
  ASSUME SpansGuarded, StreamsWhole, NoImuLost, Leaves = FALSE
  PROVE  Spec => []TightPose
<1>1. Init => TightPose
  BY DEF Init, EstimatorInit, TightPose
<1>2. ASSUME FeedInv, Continuous, InRange, LoosePose, TightPose, [Next]_vars
      PROVE  TightPose'
  <2>1. CASE Restart
    BY <2>1 DEF Restart, EstimatorReset, TightPose
  <2>2. CASE UNCHANGED estVars
    BY <2>2, <1>2 DEF TightPose, Tight, estVars, solved
  <2>3. CASE Start
    <3>1. scansDone' = 0
      BY <2>3, <1>2 DEF Start, Initialize, FeedInv, FeedOrder
    <3>2. QED
      BY <3>1 DEF TightPose
  <2>4. ASSUME NEW g \in Deliverable, DeliverScan(g)
        PROVE  TightPose'
    <3>1. CoversWindow(g)
      BY <1>2, FeedCovers
    <3>2. QED
      BY <2>4, <3>1, <1>2, ScanOfFeed, ScanTightPose
  <2>5. QED
    BY <2>1, <2>2, <2>3, <2>4, <1>2, Zenon DEF Next, DropScan, vars
<1>3. QED
  BY <1>1, <1>2, FeedInvariant, FeedContinuous, FeedInRange, FeedLoosePose, PTL DEF Spec

(* The IMU factor spans the time since the state it starts at, once, however the
   samples lie and whatever scans were dropped. *)
THEOREM FactorSpansPosesAlways ==
  ASSUME SpansGuarded, StreamsWhole, NoImuLost, Leaves = FALSE
  PROVE  Spec => FactorSpansPoses
<1>1. ASSUME FeedInv, Continuous, InRange, TightPose, [Next]_vars, Ran("tight"), map # {}
      PROVE  /\ state.at = result'.begin
             /\ UNION {p.from .. p.to - 1 : p \in result'.factor}
                  = result'.begin .. result'.end - 1
             /\ Elapsed(result'.factor) = result'.end - result'.begin
  <2>1. PICK g \in Deliverable : DeliverScan(g)
    BY <1>1, ResultOfScan DEF Ran
  <2>2. CoversWindow(g)
    BY <1>1, FeedCovers
  <2>3. QED
    BY <2>1, <2>2, <1>1, ScanOfFeed, ScanFactorSpans
<1>2. FeedInv /\ Continuous /\ InRange /\ TightPose /\ [Next]_vars =>
        [Ran("tight") /\ map # {} =>
           /\ state.at = result'.begin
           /\ UNION {p.from .. p.to - 1 : p \in result'.factor}
                = result'.begin .. result'.end - 1
           /\ Elapsed(result'.factor) = result'.end - result'.begin]_estVars
  BY <1>1
<1>3. QED
  BY <1>2, FeedInvariant, FeedContinuous, FeedInRange, FeedTightPose, PTL
  DEF Spec, FactorSpansPoses

(* And the pose published with a scan is the one at its end. *)
THEOREM PoseAtScanEndAlways ==
  ASSUME SpansGuarded, StreamsWhole, NoImuLost, Leaves = FALSE
  PROVE  Spec => PoseAtScanEnd
<1>1. ASSUME FeedInv, Continuous, InRange, LoosePose, TightPose, [Next]_vars,
             result' # result, result'.ok
      PROVE  pose' = result'.end
  <2>1. PICK g \in Deliverable : DeliverScan(g)
    BY <1>1, ResultOfScan
  <2>2. CoversWindow(g)
    BY <1>1, FeedCovers
  <2>3. QED
    BY <2>1, <2>2, <1>1, ScanOfFeed, ScanPoseAtEnd
<1>2. FeedInv /\ Continuous /\ InRange /\ LoosePose /\ TightPose /\ [Next]_vars =>
        [result' # result /\ result'.ok => pose' = result'.end]_estVars
  BY <1>1
<1>3. QED
  BY <1>2, FeedInvariant, FeedContinuous, FeedInRange, FeedLoosePose, FeedTightPose, PTL
  DEF Spec, PoseAtScanEnd
=============================================================================
