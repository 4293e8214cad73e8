--------------------------- MODULE NodeOrderProofs ---------------------------
(***************************************************************************)
(* What the node hands over, for every value of the constants: whatever    *)
(* order stamps come in, however many groups the bounded queue merges into *)
(* one, and however the callbacks and the worker interleave.               *)
(*                                                                         *)
(*   - the IMU samples are in time order, and bracket their scan;          *)
(*   - no sample that a later scan needs is lost between two groups        *)
(*     (ChainInv), and so a steady IMU stays steady (DenseInv);            *)
(*   - the scans of one stretch of the world come in order;                *)
(*   - a scan is discarded only for want of the IMU before it.             *)
(***************************************************************************)
EXTENDS GlassLioNodeProofs

(* The samples q are in time order and bracket a scan of stamp t. *)
Covers(q, t) ==
  /\ q # <<>> /\ Sorted(q)
  /\ q[1] <= t
  /\ q[Len(q)] >= t + ScanGuard

Bracketed(g) == Covers(g.imu, g.scan.stamp)

LEMMA StampsInt ==
  ASSUME NEW q \in Seq(Stamps)
  PROVE  /\ Len(q) \in Nat /\ DOMAIN q = 1 .. Len(q)
         /\ \A i \in 1 .. Len(q) : q[i] \in Stamps /\ q[i] \in Int
         /\ q # <<>> => 1 \in 1 .. Len(q) /\ Len(q) \in 1 .. Len(q) /\ Head(q) = q[1]
<1>1. Len(q) \in Nat /\ DOMAIN q = 1 .. Len(q)
  BY LenProperties
<1>2. \A i \in 1 .. Len(q) : q[i] \in Stamps
  BY ElementOfSeq
<1>3. q # <<>> => Len(q) >= 1
  BY EmptySeq
<1>4. q # <<>> => Head(q) = q[1]
  OBVIOUS
<1>5. \A i \in 1 .. Len(q) : q[i] \in Int
  BY <1>2, ConstantsType
<1>6. q # <<>> => 1 \in 1 .. Len(q) /\ Len(q) \in 1 .. Len(q)
  BY <1>1, <1>3
<1>7. QED
  BY <1>1, <1>2, <1>4, <1>5, <1>6, Zenon

(* A stretch of a sequence in time order is in time order. *)
LEMMA SortedStretch ==
  ASSUME NEW q \in Seq(Stamps), Sorted(q),
         NEW m \in Int, NEW n \in Int, m >= 1, n <= Len(q), m <= n
  PROVE  LET r == SubSeq(q, m, n)
         IN /\ r \in Seq(Stamps) /\ r # <<>> /\ Sorted(r)
            /\ Len(r) = n - m + 1
            /\ r[1] = q[m] /\ r[Len(r)] = q[n]
            /\ \A i \in 1 .. Len(r) : r[i] = q[m + i - 1]
<1> DEFINE r == SubSeq(q, m, n)
<1>1. \A i \in m .. n : q[i] \in Stamps
  BY StampsInt
<1>2. /\ r \in Seq(Stamps)
      /\ Len(r) = n - m + 1
      /\ \A i \in 1 .. n - m + 1 : r[i] = q[m + i - 1]
  BY <1>1, SubSeqProperties
<1> HIDE DEF r
<1>3. DOMAIN r = 1 .. Len(r) /\ Len(r) >= 1
  BY <1>2, StampsInt
<1>4. Sorted(r)
  <2>1. SUFFICES ASSUME NEW i \in 1 .. Len(r), NEW j \in 1 .. Len(r), i <= j
                 PROVE  r[i] <= r[j]
    BY <1>3 DEF Sorted
  <2>2. r[i] = q[m + i - 1] /\ r[j] = q[m + j - 1]
    BY <1>2
  <2>3. m + i - 1 \in DOMAIN q /\ m + j - 1 \in DOMAIN q /\ m + i - 1 <= m + j - 1
    BY <1>2, <2>1, StampsInt
  <2>4. QED
    BY <2>2, <2>3 DEF Sorted
<1>5. r[1] = q[m] /\ r[Len(r)] = q[n]
  BY <1>2, <1>3
<1>6. r # <<>>
  BY <1>3, EmptySeq
<1>7. QED
  BY <1>2, <1>4, <1>5, <1>6 DEF r

LEMMA SortedSuffix ==
  ASSUME NEW q \in Seq(Stamps), Sorted(q), NEW m \in 1 .. Len(q)
  PROVE  LET r == SubSeq(q, m, Len(q))
         IN /\ r \in Seq(Stamps) /\ r # <<>> /\ Sorted(r)
            /\ r[1] = q[m] /\ r[Len(r)] = q[Len(q)]
<1> DEFINE n == Len(q)
<1>1. n \in Nat /\ n = Len(q)
  BY StampsInt
<1>2. m \in Int /\ n \in Int /\ m >= 1 /\ n <= Len(q) /\ m <= n
  BY <1>1
<1> HIDE DEF n
<1>3. LET r == SubSeq(q, m, n)
      IN /\ r \in Seq(Stamps) /\ r # <<>> /\ Sorted(r)
         /\ r[1] = q[m] /\ r[Len(r)] = q[n]
  BY <1>2, SortedStretch
<1>4. QED
  BY <1>3 DEF n

(* What next() copies into a group: the prefix up to the first sample past the
   end of the scan covers the scan, and starts where the buffer does. *)
LEMMA PrefixCovers ==
  ASSUME NEW q \in Seq(Stamps), NEW t \in Int, Covers(q, t)
  PROVE  LET r == SubSeq(q, 1, FirstAt(q, t + ScanGuard))
         IN r \in Seq(Stamps) /\ Covers(r, t) /\ r[1] = q[1]
<1> DEFINE k == FirstAt(q, t + ScanGuard)
<1>1. /\ t + ScanGuard \in Int /\ Len(q) \in 1 .. Len(q)
      /\ q # <<>> /\ Sorted(q) /\ q[1] <= t /\ q[Len(q)] >= t + ScanGuard
      /\ q[Len(q)] \in Int
  BY ConstantsType, StampsInt DEF Covers
<1>2. /\ k \in 1 .. Len(q) + 1
      /\ k <= Len(q) => q[k] >= t + ScanGuard
      /\ \A j \in 1 .. k - 1 : q[j] < t + ScanGuard
  BY <1>1, FirstAtStamps
<1> HIDE DEF k
<1>3. k \in Int /\ 1 <= k /\ k <= Len(q)
  BY <1>1, <1>2
<1>4. /\ SubSeq(q, 1, k) \in Seq(Stamps) /\ SubSeq(q, 1, k) # <<>>
      /\ Sorted(SubSeq(q, 1, k))
      /\ SubSeq(q, 1, k)[1] = q[1]
      /\ SubSeq(q, 1, k)[Len(SubSeq(q, 1, k))] = q[k]
  BY <1>1, <1>3, SortedStretch
<1>5. QED
  BY <1>1, <1>2, <1>3, <1>4 DEF Covers, k

(* What next() leaves buffered: the suffix from the last sample at or before the
   start of the scan is not empty, and none of it is new. *)
LEMMA SuffixKept ==
  ASSUME NEW q \in Seq(Stamps), NEW t \in Int, Covers(q, t)
  PROVE  LET r == SubSeq(q, FirstAt(q, t + 1) - 1, Len(q))
         IN /\ r \in Seq(Stamps) /\ r # <<>> /\ Sorted(r)
            /\ q[1] <= r[1] /\ r[Len(r)] = q[Len(q)]
<1> DEFINE k == FirstAt(q, t + 1)
<1>1. /\ t + 1 \in Int /\ Len(q) \in 1 .. Len(q) /\ 1 \in 1 .. Len(q)
      /\ q # <<>> /\ Sorted(q) /\ q[1] <= t /\ q[1] \in Int
      /\ DOMAIN q = 1 .. Len(q)
  BY StampsInt DEF Covers
<1>2. k \in 1 .. Len(q) + 1 /\ (k <= Len(q) => q[k] >= t + 1)
  BY <1>1, FirstAtStamps
<1> HIDE DEF k
<1>3. k # 1
  BY <1>1, <1>2
<1>4. k - 1 \in 1 .. Len(q)
  BY <1>1, <1>2, <1>3
<1>5. q[1] <= q[k - 1]
  BY <1>1, <1>4 DEF Sorted
<1> DEFINE m == k - 1
<1>6. m \in 1 .. Len(q)
  BY <1>4
<1> HIDE DEF m
<1>7. /\ SubSeq(q, m, Len(q)) \in Seq(Stamps) /\ SubSeq(q, m, Len(q)) # <<>>
      /\ Sorted(SubSeq(q, m, Len(q)))
      /\ SubSeq(q, m, Len(q))[1] = q[m]
      /\ SubSeq(q, m, Len(q))[Len(SubSeq(q, m, Len(q)))] = q[Len(q)]
  BY <1>1, <1>6, SortedSuffix
<1>8. QED
  BY <1>5, <1>7 DEF m, k

(* What mergeDroppedImu() builds: a dropped group's samples, then the next
   group's past the last of them, cover the next group's scan. *)
LEMMA MergeCovers ==
  ASSUME NEW d \in Seq(Stamps), NEW n \in Seq(Stamps), NEW t \in Int,
         d # <<>>, Sorted(d), Covers(n, t), d[1] <= n[1]
  PROVE  LET r == d \o SubSeq(n, FirstAt(n, d[Len(d)] + 1), Len(n))
         IN Covers(r, t) /\ r[1] = d[1]
<1> DEFINE last == d[Len(d)]
           k == FirstAt(n, last + 1)
           kept == SubSeq(n, k, Len(n))
           r == d \o kept
<1>1. /\ Len(d) \in 1 .. Len(d) /\ 1 \in 1 .. Len(d) /\ DOMAIN d = 1 .. Len(d)
      /\ \A i \in 1 .. Len(d) : d[i] \in Int
      /\ last \in Int /\ last + 1 \in Int
  BY StampsInt
<1>2. /\ Len(n) \in 1 .. Len(n) /\ 1 \in 1 .. Len(n) /\ DOMAIN n = 1 .. Len(n)
      /\ \A i \in 1 .. Len(n) : n[i] \in Int
      /\ Sorted(n) /\ n[1] <= t /\ n[Len(n)] >= t + ScanGuard
  BY StampsInt DEF Covers
<1>3. t + ScanGuard \in Int
  BY ConstantsType
<1>4. \A i \in 1 .. Len(d) : d[i] <= last
  BY <1>1, SMTT(30) DEF Sorted
<1>5. d[1] <= t
  BY <1>1, <1>2
<1>6. /\ k \in 1 .. Len(n) + 1
      /\ k <= Len(n) => n[k] >= last + 1
      /\ \A j \in 1 .. k - 1 : n[j] < last + 1
  BY <1>1, FirstAtStamps
<1> HIDE DEF k, last
<1>7. CASE k = Len(n) + 1
  <2>1. kept = <<>>
    BY <1>2, <1>7, SubSeqEmpty
  <2>2. r = d
    BY <2>1, ConcatEmptySeq
  <2>3. n[Len(n)] <= last
    BY <1>1, <1>2, <1>6, <1>7, SMTT(30)
  <2>4. last >= t + ScanGuard
    BY <1>1, <1>2, <1>3, <2>3
  <2>5. QED
    BY <2>2, <2>4, <1>5 DEF Covers, last, k
<1>8. CASE k <= Len(n)
  <2>1. /\ kept \in Seq(Stamps) /\ kept # <<>> /\ Sorted(kept)
        /\ kept[1] = n[k] /\ kept[Len(kept)] = n[Len(n)]
    <3>1. k \in 1 .. Len(n)
      BY <1>2, <1>6, <1>8
    <3>2. QED
      BY <3>1, <1>2, SortedSuffix
  <2> HIDE DEF kept
  <2>2. /\ Len(kept) \in 1 .. Len(kept) /\ 1 \in 1 .. Len(kept)
        /\ DOMAIN kept = 1 .. Len(kept)
        /\ \A i \in 1 .. Len(kept) : kept[i] \in Int
    BY <2>1, StampsInt
  <2>3. \A i \in 1 .. Len(kept) : last <= kept[i]
    <3>1. last <= kept[1]
      BY <1>1, <1>6, <1>8, <2>1, <2>2
    <3>2. \A i \in 1 .. Len(kept) : kept[1] <= kept[i]
      BY <2>1, <2>2, SMTT(30) DEF Sorted
    <3>3. QED
      BY <3>1, <3>2, <1>1, <2>2
  <2>4. /\ r \in Seq(Stamps) /\ Len(r) = Len(d) + Len(kept)
        /\ \A i \in 1 .. Len(d) + Len(kept) :
             r[i] = IF i <= Len(d) THEN d[i] ELSE kept[i - Len(d)]
    BY <2>1, ConcatProperties
  <2> HIDE DEF r
  <2>5. DOMAIN r = 1 .. Len(r) /\ r # <<>>
    BY <2>2, <2>4, <1>1, StampsInt, EmptySeq
  <2>6. Sorted(r)
    <3>1. SUFFICES ASSUME NEW i \in 1 .. Len(r), NEW j \in 1 .. Len(r), i <= j
                   PROVE  r[i] <= r[j]
      BY <2>5 DEF Sorted
    <3>2. CASE j <= Len(d)
      <4>1. i \in DOMAIN d /\ j \in DOMAIN d /\ r[i] = d[i] /\ r[j] = d[j]
        BY <3>1, <3>2, <1>1, <2>2, <2>4
      <4>2. QED
        BY <4>1, <3>1 DEF Sorted
    <3>3. CASE i > Len(d)
      <4>1. /\ i - Len(d) \in DOMAIN kept /\ j - Len(d) \in DOMAIN kept
            /\ i - Len(d) <= j - Len(d)
            /\ r[i] = kept[i - Len(d)] /\ r[j] = kept[j - Len(d)]
        BY <3>1, <3>3, <1>1, <2>2, <2>4
      <4>2. QED
        BY <4>1, <2>1 DEF Sorted
    <3>4. CASE i <= Len(d) /\ j > Len(d)
      <4>1. /\ i \in 1 .. Len(d) /\ j - Len(d) \in 1 .. Len(kept)
            /\ r[i] = d[i] /\ r[j] = kept[j - Len(d)]
        BY <3>1, <3>4, <1>1, <2>2, <2>4
      <4>2. r[i] <= last /\ last <= r[j] /\ r[i] \in Int /\ r[j] \in Int
        BY <4>1, <1>1, <1>4, <2>2, <2>3
      <4>3. QED
        BY <4>2, <1>1
    <3>5. QED
      BY <3>1, <3>2, <3>3, <3>4, <1>1, <2>2, <2>4
  <2>7. r[1] = d[1] /\ r[Len(r)] = n[Len(n)]
    <3>1. 1 \in 1 .. Len(d) + Len(kept) /\ Len(r) \in 1 .. Len(d) + Len(kept)
          /\ 1 <= Len(d) /\ ~(Len(r) <= Len(d)) /\ Len(r) - Len(d) = Len(kept)
      BY <1>1, <2>2, <2>4
    <3>2. r[1] = d[1] /\ r[Len(r)] = kept[Len(kept)]
      BY <3>1, <2>4
    <3>3. QED
      BY <3>2, <2>1
  <2>8. QED
    BY <1>2, <1>5, <2>5, <2>6, <2>7 DEF Covers, r, kept, k, last
<1>9. QED
  BY <1>2, <1>6, <1>7, <1>8
-----------------------------------------------------------------------------
(* Groups and the queue of groups. *)

LEMMA GroupFields ==
  ASSUME NEW g \in MeasureGroup
  PROVE  /\ g.imu \in Seq(Stamps) /\ g.scan \in Scan /\ g.scan.stamp \in Int
         /\ Bracketed(g) => g.imu[1] \in Int
<1>1. g.imu \in Seq(Stamps) /\ g.scan \in Scan
  BY DEF MeasureGroup
<1>2. g.scan.stamp \in Int
  BY <1>1, ConstantsType DEF Scan
<1>3. Bracketed(g) => g.imu[1] \in Int
  BY <1>1, StampsInt DEF Bracketed, Covers
<1>4. QED
  BY <1>1, <1>2, <1>3

LEMMA MergedBracketed ==
  ASSUME NEW d \in MeasureGroup, NEW n \in MeasureGroup,
         Bracketed(d), Bracketed(n), d.imu[1] <= n.imu[1]
  PROVE  /\ Bracketed(MergeDroppedImu(d, n))
         /\ MergeDroppedImu(d, n).imu[1] = d.imu[1]
<1> DEFINE imu == d.imu \o SubSeq(n.imu, FirstAt(n.imu, d.imu[Len(d.imu)] + 1), Len(n.imu))
<1>1. d.imu \in Seq(Stamps) /\ n.imu \in Seq(Stamps) /\ n.scan.stamp \in Int
  BY GroupFields
<1>2. d.imu # <<>> /\ Sorted(d.imu) /\ Covers(n.imu, n.scan.stamp)
  BY DEF Bracketed, Covers
<1>3. Covers(imu, n.scan.stamp) /\ imu[1] = d.imu[1]
  BY <1>1, <1>2, MergeCovers
<1>4. MergeDroppedImu(d, n) = [n EXCEPT !.imu = imu]
  BY <1>2, Zenon DEF MergeDroppedImu, Back
<1> HIDE DEF imu
<1>5. [n EXCEPT !.imu = imu].imu = imu /\ [n EXCEPT !.imu = imu].scan = n.scan
  BY DEF MeasureGroup
<1>6. QED
  BY <1>3, <1>4, <1>5, Zenon DEF Bracketed

(* Every queued group brackets its scan, and none starts before the one ahead. *)
QueueCovered(q) ==
  /\ \A i \in DOMAIN q : Bracketed(q[i])
  /\ \A i, j \in DOMAIN q : i <= j => q[i].imu[1] <= q[j].imu[1]

HeadsUpTo(q, t) == \A i \in DOMAIN q : q[i].imu[1] <= t

LEMMA QueueFields ==
  ASSUME NEW q \in Seq(MeasureGroup), QueueCovered(q)
  PROVE  /\ Len(q) \in Nat /\ DOMAIN q = 1 .. Len(q)
         /\ \A i \in 1 .. Len(q) : q[i] \in MeasureGroup /\ q[i].imu[1] \in Int
<1>1. Len(q) \in Nat /\ DOMAIN q = 1 .. Len(q)
  BY LenProperties
<1>2. ASSUME NEW i \in 1 .. Len(q)
      PROVE  q[i] \in MeasureGroup /\ q[i].imu[1] \in Int
  BY <1>1, ElementOfSeq, GroupFields DEF QueueCovered
<1>3. QED
  BY <1>1, <1>2

LEMMA AppendCovered ==
  ASSUME NEW q \in Seq(MeasureGroup), NEW g \in MeasureGroup,
         QueueCovered(q), Bracketed(g), HeadsUpTo(q, g.imu[1])
  PROVE  QueueCovered(Append(q, g)) /\ HeadsUpTo(Append(q, g), g.imu[1])
<1> DEFINE r == Append(q, g)
<1>1. /\ r \in Seq(MeasureGroup) /\ Len(r) = Len(q) + 1
      /\ \A i \in 1 .. Len(q) : r[i] = q[i]
      /\ r[Len(q) + 1] = g
  BY AppendProperties
<1> HIDE DEF r
<1>2. /\ Len(q) \in Nat /\ DOMAIN q = 1 .. Len(q) /\ DOMAIN r = 1 .. Len(q) + 1
      /\ g.imu[1] \in Int
  BY <1>1, LenProperties, GroupFields
<1>3. \A i \in DOMAIN r : Bracketed(r[i])
  BY <1>1, <1>2 DEF QueueCovered
<1>4. HeadsUpTo(r, g.imu[1])
  BY <1>1, <1>2 DEF HeadsUpTo
<1>5. \A i, j \in DOMAIN r : i <= j => r[i].imu[1] <= r[j].imu[1]
  <2>1. SUFFICES ASSUME NEW i \in 1 .. Len(q) + 1, NEW j \in 1 .. Len(q) + 1, i <= j
                 PROVE  r[i].imu[1] <= r[j].imu[1]
    BY <1>2
  <2>2. CASE j = Len(q) + 1
    BY <1>1, <1>2, <1>4, <2>2 DEF HeadsUpTo
  <2>3. CASE j # Len(q) + 1
    <3>1. i \in DOMAIN q /\ j \in DOMAIN q /\ r[i] = q[i] /\ r[j] = q[j]
      BY <1>1, <1>2, <2>1, <2>3
    <3>2. QED
      BY <3>1, <2>1 DEF QueueCovered
  <2>4. QED
    BY <2>2, <2>3
<1>6. QED
  BY <1>3, <1>4, <1>5 DEF QueueCovered, r

LEMMA TailCovered ==
  ASSUME NEW q \in Seq(MeasureGroup), q # <<>>, QueueCovered(q)
  PROVE  /\ Head(q) \in MeasureGroup /\ Head(q) = q[1] /\ Bracketed(Head(q))
         /\ Tail(q) \in Seq(MeasureGroup) /\ Len(Tail(q)) = Len(q) - 1
         /\ \A i \in 1 .. Len(q) - 1 : Tail(q)[i] = q[i + 1]
         /\ QueueCovered(Tail(q))
         /\ \A t : HeadsUpTo(q, t) => HeadsUpTo(Tail(q), t)
<1> DEFINE r == Tail(q)
<1>1. /\ Head(q) \in MeasureGroup
      /\ r \in Seq(MeasureGroup) /\ Len(r) = Len(q) - 1
      /\ \A i \in 1 .. Len(r) : r[i] = q[i + 1]
  BY HeadTailProperties
<1>2. Head(q) = q[1]
  OBVIOUS
<1> HIDE DEF r
<1>3. /\ Len(q) \in Nat /\ Len(q) >= 1 /\ DOMAIN q = 1 .. Len(q)
      /\ DOMAIN r = 1 .. Len(q) - 1
  BY <1>1, LenProperties, EmptySeq
<1>4. 1 \in DOMAIN q /\ \A i \in DOMAIN r : i + 1 \in DOMAIN q /\ r[i] = q[i + 1]
  BY <1>1, <1>3
<1>5. Bracketed(q[1]) /\ \A i \in DOMAIN r : Bracketed(r[i])
  BY <1>4 DEF QueueCovered
<1>6. \A i, j \in DOMAIN r : i <= j => r[i].imu[1] <= r[j].imu[1]
  <2>1. SUFFICES ASSUME NEW i \in DOMAIN r, NEW j \in DOMAIN r, i <= j
                 PROVE  r[i].imu[1] <= r[j].imu[1]
    OBVIOUS
  <2>2. i + 1 <= j + 1
    BY <1>3, <2>1
  <2>3. QED
    BY <1>4, <2>2 DEF QueueCovered
<1>7. \A t : HeadsUpTo(q, t) => HeadsUpTo(r, t)
  BY <1>4 DEF HeadsUpTo
<1>8. QED
  BY <1>1, <1>2, <1>5, <1>6, <1>7 DEF QueueCovered, r

(* Dropping the oldest group and giving its IMU to the one behind it. *)
LEMMA DropCovered ==
  ASSUME NEW q \in Seq(MeasureGroup), Len(q) > 1, QueueCovered(q)
  PROVE  LET r == [Tail(q) EXCEPT ![1] = MergeDroppedImu(Head(q), Tail(q)[1])]
         IN /\ r \in Seq(MeasureGroup) /\ QueueCovered(r)
            /\ \A t : HeadsUpTo(q, t) => HeadsUpTo(r, t)
<1> DEFINE s == Tail(q)
           m == MergeDroppedImu(Head(q), s[1])
           r == [s EXCEPT ![1] = m]
<1>1. q # <<>> /\ Len(q) \in Nat /\ DOMAIN q = 1 .. Len(q)
  BY EmptySeq, LenProperties
<1>2. /\ Head(q) \in MeasureGroup /\ Head(q) = q[1] /\ Bracketed(Head(q))
      /\ s \in Seq(MeasureGroup) /\ Len(s) = Len(q) - 1
      /\ \A i \in 1 .. Len(q) - 1 : s[i] = q[i + 1]
      /\ QueueCovered(s)
      /\ \A t : HeadsUpTo(q, t) => HeadsUpTo(s, t)
  BY <1>1, TailCovered
<1> HIDE DEF s
<1>3. /\ 1 \in 1 .. Len(s) /\ Len(s) >= 1 /\ DOMAIN s = 1 .. Len(s)
      /\ 1 \in DOMAIN q /\ 2 \in DOMAIN q /\ 1 \in 1 .. Len(q) - 1
  BY <1>1, <1>2, LenProperties
<1>4. s[1] = q[2] /\ s[1] \in MeasureGroup /\ Bracketed(s[1])
      /\ q[1].imu[1] <= s[1].imu[1]
  <2>1. s[1] = q[1 + 1]
    BY <1>2, <1>3
  <2>2. s[1] = q[2]
    BY <2>1
  <2>3. s[1] \in MeasureGroup
    BY <1>2, <1>3, ElementOfSeq
  <2>4. QED
    BY <2>2, <2>3, <1>2, <1>3 DEF QueueCovered
<1>5. m \in MeasureGroup /\ Bracketed(m) /\ m.imu[1] = q[1].imu[1]
  BY <1>2, <1>4, MergedType, MergedBracketed
<1> HIDE DEF m
<1>6. /\ r \in Seq(MeasureGroup) /\ Len(r) = Len(s)
      /\ \A j \in 1 .. Len(s) : r[j] = IF j = 1 THEN m ELSE s[j]
  BY <1>2, <1>3, <1>5, ExceptFirst
<1> HIDE DEF r
<1>7. DOMAIN r = 1 .. Len(s)
  BY <1>6, LenProperties
<1>8. \A i \in 1 .. Len(s) : r[i].imu[1] \in Int /\ s[i].imu[1] \in Int
  <2>1. m.imu[1] \in Int
    BY <1>5, GroupFields
  <2>2. \A i \in 1 .. Len(s) : s[i].imu[1] \in Int
    BY <1>2, QueueFields
  <2>3. QED
    BY <2>1, <2>2, <1>6
<1>9. \A i \in 1 .. Len(s) : r[i].imu[1] <= s[i].imu[1]
  <2>1. SUFFICES ASSUME NEW i \in 1 .. Len(s)
                 PROVE  r[i].imu[1] <= s[i].imu[1]
    OBVIOUS
  <2>2. CASE i = 1
    BY <2>2, <1>4, <1>5, <1>6
  <2>3. CASE i # 1
    BY <2>3, <1>6, <1>8
  <2>4. QED
    BY <2>2, <2>3
<1>10. \A i \in DOMAIN r : Bracketed(r[i])
  BY <1>2, <1>3, <1>5, <1>6, <1>7 DEF QueueCovered
<1>11. \A i, j \in DOMAIN r : i <= j => r[i].imu[1] <= r[j].imu[1]
  <2>1. SUFFICES ASSUME NEW i \in 1 .. Len(s), NEW j \in 1 .. Len(s), i <= j
                 PROVE  r[i].imu[1] <= r[j].imu[1]
    BY <1>7
  <2>2. s[i].imu[1] <= s[j].imu[1]
    BY <2>1, <1>2, <1>3 DEF QueueCovered
  <2>3. CASE j = 1
    <3>1. i = 1
      BY <2>1, <2>3
    <3>2. QED
      BY <3>1, <2>3, <1>8
  <2>4. CASE j # 1
    <3>1. r[j] = s[j]
      BY <2>4, <1>6
    <3>2. r[i].imu[1] <= s[i].imu[1]
      BY <1>9
    <3>3. QED
      BY <3>1, <3>2, <2>2, <1>8
  <2>5. QED
    BY <2>3, <2>4
<1>12. ASSUME NEW t, HeadsUpTo(q, t)
       PROVE  HeadsUpTo(r, t)
  <2>1. m.imu[1] <= t
    BY <1>12, <1>3, <1>5 DEF HeadsUpTo
  <2>2. \A i \in 1 .. Len(s) : s[i].imu[1] <= t
    BY <1>12, <1>2, <1>3 DEF HeadsUpTo
  <2>3. QED
    BY <2>1, <2>2, <1>6, <1>7 DEF HeadsUpTo
<1>13. QED
  BY <1>6, <1>10, <1>11, <1>12 DEF QueueCovered, r, m, s

(* push_back under the bound keeps every group a bracket of its scan. *)
LEMMA EnqueuedCovered ==
  ASSUME NEW q \in Seq(MeasureGroup), Len(q) <= MaxQueue, NEW g \in MeasureGroup,
         QueueCovered(q), Bracketed(g), HeadsUpTo(q, g.imu[1])
  PROVE  QueueCovered(Enqueued(q, g)) /\ HeadsUpTo(Enqueued(q, g), g.imu[1])
<1>1. Len(q) \in Nat
  BY LenProperties
<1>2. CASE Len(q) < MaxQueue
  BY <1>2, AppendCovered DEF Enqueued
<1>3. CASE ~(Len(q) < MaxQueue) /\ Len(q) > 1
  <2> DEFINE r == [Tail(q) EXCEPT ![1] = MergeDroppedImu(Head(q), Tail(q)[1])]
  <2>1. r \in Seq(MeasureGroup) /\ QueueCovered(r) /\ HeadsUpTo(r, g.imu[1])
    BY <1>3, DropCovered
  <2>2. Enqueued(q, g) = Append(r, g)
    BY <1>3, Zenon DEF Enqueued
  <2> HIDE DEF r
  <2>3. QED
    BY <2>1, <2>2, AppendCovered
<1>4. CASE ~(Len(q) < MaxQueue) /\ ~(Len(q) > 1)
  <2> DEFINE m == MergeDroppedImu(Head(q), g)
  <2>1. Len(q) = 1 /\ q # <<>> /\ 1 \in DOMAIN q
    <3>1. Len(q) = 1
      <4> DEFINE n == Len(q)
      <4>1. n \in Nat /\ ~(n < MaxQueue) /\ ~(n > 1)
        BY <1>1, <1>4
      <4>2. MaxQueue \in Nat /\ MaxQueue > 0
        BY ConstantsType, Zenon
      <4> HIDE DEF n
      <4>3. n = 1
        BY <4>1, <4>2
      <4>4. QED
        BY <4>3 DEF n
    <3>2. q # <<>> /\ DOMAIN q = 1 .. Len(q)
      BY <3>1, EmptySeq, LenProperties
    <3>3. QED
      BY <3>1, <3>2
  <2>2. /\ Head(q) \in MeasureGroup /\ Head(q) = q[1] /\ Bracketed(Head(q))
        /\ Tail(q) \in Seq(MeasureGroup) /\ Len(Tail(q)) = 0
        /\ QueueCovered(Tail(q))
    BY <2>1, TailCovered
  <2>3. q[1].imu[1] <= g.imu[1]
    BY <2>1 DEF HeadsUpTo
  <2>4. m \in MeasureGroup /\ Bracketed(m) /\ m.imu[1] = q[1].imu[1]
    BY <2>2, <2>3, MergedType, MergedBracketed
  <2>5. HeadsUpTo(Tail(q), m.imu[1])
    <3>1. DOMAIN Tail(q) = 1 .. 0
      BY <2>2, LenProperties
    <3>2. \A i \in 1 .. 0 : FALSE
      OBVIOUS
    <3>3. QED
      BY <3>1, <3>2, Zenon DEF HeadsUpTo
  <2>6. Enqueued(q, g) = Append(Tail(q), m)
    BY <1>4, Zenon DEF Enqueued
  <2> HIDE DEF m
  <2>7. QueueCovered(Append(Tail(q), m)) /\ HeadsUpTo(Append(Tail(q), m), m.imu[1])
    BY <2>2, <2>4, <2>5, AppendCovered
  <2>8. HeadsUpTo(Append(Tail(q), m), g.imu[1])
    <3>1. /\ Len(Append(Tail(q), m)) = 1
          /\ Append(Tail(q), m) \in Seq(MeasureGroup)
          /\ Append(Tail(q), m)[1] = m
      <4> DEFINE u == Tail(q)
      <4>1. u \in Seq(MeasureGroup) /\ Len(u) = 0
        BY <2>2
      <4> HIDE DEF u
      <4>2. /\ Append(u, m) \in Seq(MeasureGroup)
            /\ Len(Append(u, m)) = Len(u) + 1
            /\ Append(u, m)[Len(u) + 1] = m
        BY <4>1, <2>4, AppendProperties
      <4>3. Len(Append(u, m)) = 1 /\ Append(u, m)[1] = m
        BY <4>1, <4>2
      <4>4. QED
        BY <4>2, <4>3 DEF u
    <3>2. DOMAIN Append(Tail(q), m) = 1 .. 1
      BY <3>1, LenProperties
    <3>3. m.imu[1] <= g.imu[1]
      BY <2>3, <2>4
    <3>4. \A i \in 1 .. 1 : i = 1
      OBVIOUS
    <3>5. QED
      BY <3>1, <3>2, <3>3, <3>4, Zenon DEF HeadsUpTo
  <2>9. QED
    BY <2>6, <2>7, <2>8
<1>5. QED
  BY <1>2, <1>3, <1>4

(* A group next() releases brackets its scan; what stays buffered is in time
   order and starts no earlier. *)
LEMMA ReleasedCovered ==
  ASSUME NEW s \in SyncState, Sorted(s.imu), Releases(s)
  PROVE  /\ Bracketed(Group(s)) /\ Group(s).imu[1] = s.imu[1]
         /\ Sorted(Released(s).imu) /\ Released(s).imu # <<>>
         /\ s.imu[1] <= Released(s).imu[1]
         /\ Released(s).imu[Len(Released(s).imu)] = s.imu[Len(s.imu)]
<1> DEFINE q == s.imu
           t == ScanStamp(s)
           left == SubSeq(q, FirstAt(q, t + 1) - 1, Len(q))
           taken == SubSeq(q, 1, FirstAt(q, t + ScanGuard))
<1>1. q \in Seq(Stamps) /\ q # <<>> /\ s.lidar # <<>>
  BY DEF SyncState, Releases
<1>2. t \in Int
  BY <1>1, HeadStamp DEF ScanStamp
<1>3. q[1] <= t /\ q[Len(q)] >= t + ScanGuard
  <2>1. Head(q) = q[1] /\ Back(q) = q[Len(q)]
    BY <1>1 DEF Back
  <2>2. QED
    BY <2>1, Zenon DEF Releases, GuardedEnd
<1>4. Covers(q, t)
  BY <1>1, <1>3 DEF Covers
<1>5. Group(s) = [scan |-> Head(s.lidar), imu |-> taken]
  BY DEF Group, GuardedEnd
<1>6. Released(s).imu = left
  BY DEF Released, SyncState
<1> HIDE DEF q, t
<1>7. Covers(taken, t) /\ taken[1] = q[1]
  BY <1>1, <1>2, <1>4, PrefixCovers
<1>8. left # <<>> /\ Sorted(left) /\ q[1] <= left[1] /\ left[Len(left)] = q[Len(q)]
  BY <1>1, <1>2, <1>4, SuffixKept
<1> HIDE DEF left, taken
<1>9. Group(s).imu = taken /\ Group(s).scan.stamp = t
  BY <1>5 DEF t, ScanStamp
<1>10. QED
  BY <1>6, <1>7, <1>8, <1>9, Zenon DEF Bracketed, q
-----------------------------------------------------------------------------
(* The inductive invariant.                                                 *)
(*                                                                          *)
(* ImuInOrder and GroupsBracketed say nothing of the newest stamp, which is *)
(* what keeps late samples out, nor of where queued groups start, which is  *)
(* what keeps a merged group in order.                                      *)

(* The buffer: in time order, none later than the newest stamp, and none later
   than the sample about to be pushed. *)
BufferInOrder ==
  /\ Sorted(sync.imu)
  /\ \A i \in DOMAIN sync.imu : sync.imu[i] <= sync.lastImu
  /\ cb = "accept" /\ msg.kind = "imu" /\ initialized
       => /\ msg.stamp <= sync.lastImu
          /\ \A i \in DOMAIN sync.imu : sync.imu[i] <= msg.stamp
  /\ cb = "notifyReset" => ~initialized

(* The queue: every group a bracket, none starting before the one ahead of it or
   after what is still buffered; without a buffered sample nothing is queued. *)
QueueInOrder ==
  /\ QueueCovered(queue)
  /\ \A i \in DOMAIN sync.imu : HeadsUpTo(queue, sync.imu[i])
  /\ sync.imu = <<>> /\ cb # "reset" => queue = <<>>

TakenCovered == wpc \in {"process", "publish"} => Bracketed(meas)

OrderInv == TypeOK /\ BufferInOrder /\ QueueInOrder /\ TakenCovered

LEMMA OrderInvInit == Init => OrderInv
<1> SUFFICES ASSUME Init PROVE OrderInv
  OBVIOUS
<1>1. sync.imu = <<>> /\ queue = <<>> /\ cb = "idle" /\ wpc = "top"
  BY DEF Init, Cleared
<1>2. \A i \in DOMAIN sync.imu : FALSE
  BY <1>1
<1>3. \A i \in DOMAIN queue : FALSE
  BY <1>1
<1>4. BufferInOrder
  BY <1>1, <1>2 DEF BufferInOrder, Sorted
<1>5. QueueInOrder
  BY <1>1, <1>2, <1>3 DEF QueueInOrder, QueueCovered
<1>6. TakenCovered
  BY <1>1 DEF TakenCovered
<1>7. QED
  BY <1>4, <1>5, <1>6, InitTypeOK DEF OrderInv

(* An emptied buffer is in order, whatever else it holds. *)
LEMMA EmptyInOrder ==
  /\ Sorted(<<>>) /\ QueueCovered(<<>>)
  /\ \A i \in DOMAIN <<>> : FALSE
<1>1. \A i \in DOMAIN <<>> : FALSE
  OBVIOUS
<1>2. QED
  BY <1>1 DEF Sorted, QueueCovered

(* The watchdog keeps the buffer behind the newest stamp. *)
LEMMA CheckedInOrder ==
  ASSUME NEW s \in SyncState, NEW t \in Stamps,
         \A i \in DOMAIN s.imu : s.imu[i] <= s.lastImu
  PROVE  LET r == CheckedImu(s, t)
         IN /\ r.imu \in {s.imu, <<>>}
            /\ \A i \in DOMAIN r.imu : r.imu[i] <= r.lastImu
            /\ Jump(t, s.lastImu) = "None"
                 => r.imu = s.imu /\ r.lastImu = t
            /\ Jump(t, s.lastImu) = "OutOfOrder" => r = s
<1> DEFINE j == Jump(t, s.lastImu)
           r == CheckedImu(s, t)
<1>1. /\ t \in Nat /\ s.lastImu \in Int /\ s.imu \in Seq(Stamps)
      /\ \A i \in DOMAIN s.imu : s.imu[i] \in Nat
  <2>1. s.imu \in Seq(Stamps) /\ s.lastImu \in Stamps \cup {NoStamp}
    BY DEF SyncState
  <2>2. \A i \in DOMAIN s.imu : s.imu[i] \in Stamps
    BY <2>1, StampsInt
  <2>3. QED
    BY <2>1, <2>2, NodeAssumption, ConstantsType
<1>2. Cleared \in SyncState /\ Cleared.imu = <<>>
  BY DEF Cleared, SyncState
<1>3. \A u \in SyncState : /\ [u EXCEPT !.lastImu = t].imu = u.imu
                            /\ [u EXCEPT !.lastImu = t].lastImu = t
  BY DEF SyncState
<1>4. CASE j = "OutOfOrder"
  <2>1. r = s
    BY <1>4, Zenon DEF CheckedImu
  <2>2. QED
    BY <1>4, <2>1
<1>5. CASE j = "Restart"
  <2>1. r = [Cleared EXCEPT !.lastImu = t]
    BY <1>5 DEF CheckedImu
  <2>2. r.imu = <<>>
    BY <2>1, <1>2, <1>3
  <2>3. QED
    BY <1>5, <2>2, EmptyInOrder
<1>6. CASE j = "None"
  <2>1. r = [s EXCEPT !.lastImu = t]
    BY <1>6 DEF CheckedImu
  <2>2. r.imu = s.imu /\ r.lastImu = t
    BY <2>1, <1>3
  <2>3. s.lastImu < 0 \/ t >= s.lastImu
    BY <1>6, <1>1 DEF Jump
  <2>4. \A i \in DOMAIN s.imu : s.imu[i] <= t
    BY <2>3, <1>1
  <2>5. QED
    BY <1>6, <2>2, <2>4
<1>7. j \in {"None", "Restart", "OutOfOrder"}
  BY DEF Jump
<1>8. QED
  BY <1>4, <1>5, <1>6, <1>7

(* Pushing a sample no older than the buffer keeps it, and what is queued, in
   order. *)
LEMMA PushedInOrder ==
  ASSUME NEW q \in Seq(Stamps), NEW t \in Stamps, NEW last \in Int, t <= last,
         Sorted(q), \A i \in DOMAIN q : q[i] <= t, \A i \in DOMAIN q : q[i] <= last
  PROVE  LET r == Append(q, t)
         IN /\ Sorted(r) /\ r # <<>>
            /\ \A i \in DOMAIN r : r[i] <= last
            /\ \A i \in DOMAIN r : r[i] = t \/ \E k \in DOMAIN q : r[i] = q[k]
<1> DEFINE r == Append(q, t)
<1>1. /\ r \in Seq(Stamps) /\ r # <<>> /\ Len(r) = Len(q) + 1
      /\ \A i \in 1 .. Len(q) : r[i] = q[i]
      /\ r[Len(q) + 1] = t
  BY AppendProperties
<1> HIDE DEF r
<1>2. Len(q) \in Nat /\ DOMAIN q = 1 .. Len(q) /\ DOMAIN r = 1 .. Len(q) + 1
      /\ t \in Int
  BY <1>1, LenProperties, ConstantsType
<1>3. Sorted(r)
  <2>1. SUFFICES ASSUME NEW i \in 1 .. Len(q) + 1, NEW j \in 1 .. Len(q) + 1, i <= j
                 PROVE  r[i] <= r[j]
    BY <1>2 DEF Sorted
  <2>2. CASE j = Len(q) + 1
    BY <1>1, <1>2, <2>2
  <2>3. CASE j # Len(q) + 1
    <3>1. i \in DOMAIN q /\ j \in DOMAIN q /\ r[i] = q[i] /\ r[j] = q[j]
      BY <1>1, <1>2, <2>1, <2>3
    <3>2. QED
      BY <3>1, <2>1 DEF Sorted
  <2>4. QED
    BY <2>2, <2>3
<1>4. \A i \in DOMAIN r : r[i] = t \/ \E k \in DOMAIN q : r[i] = q[k]
  BY <1>1, <1>2
<1>5. \A i \in DOMAIN r : r[i] <= last
  BY <1>4
<1>6. QED
  BY <1>1, <1>3, <1>4, <1>5 DEF r

(* A step that leaves the buffers and the queue alone, or empties the buffer on
   its way to a reset, keeps both in order. *)
LEMMA UntouchedInOrder ==
  ASSUME OrderInv,
         UNCHANGED queue,
         sync'.imu = sync.imu /\ sync'.lastImu = sync.lastImu,
         (cb' = "accept" /\ msg'.kind = "imu" /\ initialized')
           => cb = "accept" /\ msg' = msg /\ initialized,
         cb' = "notifyReset" => cb = "notifyReset" /\ initialized' = initialized,
         cb = "reset" => cb' = "reset"
  PROVE  (BufferInOrder /\ QueueInOrder)'
BY DEF OrderInv, BufferInOrder, QueueInOrder

LEMMA OrderInvStep ==
  ASSUME OrderInv, [Next]_vars
  PROVE  OrderInv'
<1> DEFINE Rest == BufferInOrder /\ QueueInOrder /\ TakenCovered
<1>1. TypeOK /\ TypeOK' /\ Rest
  BY StepTypeOK DEF OrderInv
<1>2. SUFFICES Rest'
  BY <1>1 DEF OrderInv
<1>3. /\ sync \in SyncState /\ sync.imu \in Seq(Stamps) /\ sync.lidar \in Seq(Scan)
      /\ sync.lastImu \in Int
      /\ queue \in Seq(MeasureGroup) /\ Len(queue) <= MaxQueue
  BY <1>1, ConstantsType DEF TypeOK, SyncState
<1>4. ASSUME UNCHANGED <<wpc, meas>> \/ wpc' \notin {"process", "publish"}
      PROVE  TakenCovered'
  BY <1>1, <1>4 DEF TakenCovered
<1>5. ASSUME NEW t \in Stamps, ImuMessage(t)
      PROVE  Rest'
  <2> DEFINE r == CheckedImu(sync, t)
  <2>1. /\ cb = "idle" /\ cb' = Dispatch(Jump(t, sync.lastImu)) /\ sync' = r
        /\ msg' = [kind |-> "imu", stamp |-> t]
        /\ UNCHANGED <<initialized, queue, wpc, meas>>
    BY <1>5 DEF ImuMessage, Arrives, handOff, workerVars
  <2>2. \A i \in DOMAIN sync.imu : sync.imu[i] <= sync.lastImu
    BY <1>1 DEF BufferInOrder
  <2>3. /\ r.imu \in {sync.imu, <<>>}
        /\ \A i \in DOMAIN r.imu : r.imu[i] <= r.lastImu
        /\ Jump(t, sync.lastImu) = "None" => r.imu = sync.imu /\ r.lastImu = t
        /\ Jump(t, sync.lastImu) = "OutOfOrder" => r = sync
    BY <1>3, <2>2, CheckedInOrder
  <2> HIDE DEF r
  <2>4. /\ cb' \in {"accept", "reset", "idle"}
        /\ cb' = "accept" => Jump(t, sync.lastImu) = "None"
        /\ cb' # "reset" => r.imu = sync.imu
    BY <2>1, <2>3 DEF Dispatch, Jump
  <2>5. Sorted(r.imu)
    BY <1>1, <2>3, EmptyInOrder DEF BufferInOrder
  <2>6. cb' = "accept" => /\ msg'.stamp <= r.lastImu
                          /\ \A i \in DOMAIN r.imu : r.imu[i] <= msg'.stamp
    <3>1. CASE cb' = "accept"
      <4>1. msg'.stamp = t /\ r.lastImu = t /\ t <= t
        BY <2>1, <2>3, <2>4, <3>1, ConstantsType
      <4>2. QED
        BY <4>1, <2>3
    <3>2. QED
      BY <3>1
  <2>7. BufferInOrder'
    BY <2>1, <2>3, <2>4, <2>5, <2>6 DEF BufferInOrder
  <2>8. QueueInOrder'
    <3>1. \A i \in DOMAIN r.imu : HeadsUpTo(queue, r.imu[i])
      BY <1>1, <2>3, EmptyInOrder DEF QueueInOrder
    <3>2. r.imu = <<>> /\ cb' # "reset" => queue = <<>>
      BY <1>1, <2>1, <2>4 DEF QueueInOrder
    <3>3. QED
      BY <1>1, <2>1, <3>1, <3>2 DEF QueueInOrder
  <2>9. QED
    BY <2>1, <2>7, <2>8, <1>4
<1>6. ASSUME NEW t \in Stamps, LidarMessage(t)
      PROVE  Rest'
  <2>1. /\ cb = "idle" /\ msg' = [kind |-> "lidar", stamp |-> t]
        /\ UNCHANGED <<initialized, queue, wpc, meas>>
    BY <1>6 DEF LidarMessage, Arrives, handOff, workerVars
  <2>2. CASE ~initialized
    <3>1. UNCHANGED <<sync, cb>>
      BY <1>6, <2>2 DEF LidarMessage
    <3>2. QED
      BY <2>1, <3>1, <1>4, UntouchedInOrder
  <2>3. CASE initialized
    <3> DEFINE r == CheckedLidar(sync, t)
    <3>1. sync' = r /\ cb' = Dispatch(Jump(t, sync.lastLidar))
      BY <1>6, <2>3 DEF LidarMessage
    <3>2. Jump(t, sync.lastLidar) \in {"None", "Restart", "OutOfOrder"}
      BY DEF Jump
    <3>3. CASE Jump(t, sync.lastLidar) = "Restart"
      <4>1. r.imu = <<>>
        <5>1. r = [Cleared EXCEPT !.lastLidar = t]
          BY <3>3 DEF CheckedLidar
        <5>2. QED
          BY <5>1 DEF Cleared
      <4>2. cb' = "reset"
        BY <3>1, <3>3 DEF Dispatch
      <4>3. BufferInOrder' /\ QueueInOrder'
        BY <1>1, <2>1, <3>1, <4>1, <4>2, EmptyInOrder DEF BufferInOrder, QueueInOrder
      <4>4. QED
        BY <2>1, <4>3, <1>4
    <3>4. CASE Jump(t, sync.lastLidar) # "Restart"
      <4>1. r.imu = sync.imu /\ r.lastImu = sync.lastImu
        <5>1. r \in {sync, [sync EXCEPT !.lastLidar = t]}
          BY <3>4, Zenon DEF CheckedLidar
        <5>2. QED
          BY <5>1, <1>3 DEF SyncState
      <4>2. cb' \in {"accept", "idle"} /\ msg'.kind = "lidar"
        BY <2>1, <3>1, <3>2, <3>4 DEF Dispatch
      <4>3. BufferInOrder' /\ QueueInOrder'
        BY <2>1, <3>1, <4>1, <4>2, UntouchedInOrder
      <4>4. QED
        BY <2>1, <4>3, <1>4
    <3>5. QED
      BY <3>3, <3>4
  <2>4. QED
    BY <2>2, <2>3
<1>7. CASE Reset
  <2>1. sync'.imu = <<>> /\ queue' = <<>> /\ cb' = "notifyReset" /\ ~initialized'
        /\ UNCHANGED <<wpc, meas>>
    BY <1>7 DEF Reset, Cleared, workerVars
  <2>2. BufferInOrder' /\ QueueInOrder'
    BY <2>1, EmptyInOrder DEF BufferInOrder, QueueInOrder
  <2>3. QED
    BY <2>1, <2>2, <1>4
<1>8. CASE Interrupt \/ AddInitSample \/ OnInitialized \/ Destroy \/ Join
  <2>1. UNCHANGED <<sync, queue, wpc, meas>>
    BY <1>8 DEF Interrupt, AddInitSample, OnInitialized, Destroy, Join, cbVars, handOff,
                workerVars
  <2>2. \/ UNCHANGED <<cb, msg, initialized>>
        \/ cb # "reset" /\ cb' \notin {"accept", "notifyReset"}
    BY <1>8 DEF Interrupt, AddInitSample, OnInitialized, Destroy, Join, cbVars
  <2>3. BufferInOrder' /\ QueueInOrder'
    BY <2>1, <2>2, UntouchedInOrder
  <2>4. QED
    BY <2>1, <2>3, <1>4
<1>9. CASE AcceptLidar
  <2>1. /\ cb = "accept" /\ cb' = "ready"
        /\ UNCHANGED <<queue, wpc, meas>>
    BY <1>9 DEF AcceptLidar, handOff, workerVars
  <2>2. sync'.imu = sync.imu /\ sync'.lastImu = sync.lastImu
    BY <1>3, <1>9 DEF AcceptLidar, PushedLidar, SyncState
  <2>3. BufferInOrder' /\ QueueInOrder'
    BY <2>1, <2>2, UntouchedInOrder
  <2>4. QED
    BY <2>1, <2>3, <1>4
<1>10. CASE AcceptImu
  <2> DEFINE t == msg.stamp
             r == Append(sync.imu, t)
  <2>1. /\ cb = "accept" /\ msg.kind = "imu" /\ initialized /\ cb' = "ready"
        /\ sync' = PushedImu(sync, t)
        /\ UNCHANGED <<queue, wpc, meas>>
    BY <1>10 DEF AcceptImu, handOff, workerVars
  <2>2. t \in Stamps
    BY <1>1, <2>1 DEF TypeOK
  <2>3. /\ t <= sync.lastImu /\ Sorted(sync.imu)
        /\ \A i \in DOMAIN sync.imu : sync.imu[i] <= t
        /\ \A i \in DOMAIN sync.imu : sync.imu[i] <= sync.lastImu
    BY <1>1, <2>1 DEF BufferInOrder
  <2>4. /\ Sorted(r) /\ r # <<>>
        /\ \A i \in DOMAIN r : r[i] <= sync.lastImu
        /\ \A i \in DOMAIN r : r[i] = t \/ \E k \in DOMAIN sync.imu : r[i] = sync.imu[k]
    BY <1>3, <2>2, <2>3, PushedInOrder
  <2>5. sync'.imu = r /\ sync'.lastImu = sync.lastImu
    BY <1>3, <2>1 DEF PushedImu, SyncState
  <2>6. \A i \in DOMAIN r : HeadsUpTo(queue, r[i])
    <3>1. HeadsUpTo(queue, t)
      <4>1. CASE sync.imu = <<>>
        <5>1. queue = <<>>
          BY <1>1, <2>1, <4>1 DEF QueueInOrder
        <5>2. QED
          BY <5>1, EmptyInOrder DEF HeadsUpTo
      <4>2. CASE sync.imu # <<>>
        <5>1. 1 \in DOMAIN sync.imu /\ sync.imu[1] \in Int
          BY <1>3, <4>2, StampsInt
        <5>2. HeadsUpTo(queue, sync.imu[1]) /\ sync.imu[1] <= t /\ t \in Int
          BY <1>1, <2>2, <2>3, <5>1, ConstantsType DEF QueueInOrder
        <5>3. \A i \in DOMAIN queue : queue[i].imu[1] \in Int
          BY <1>1, <1>3, QueueFields DEF QueueInOrder
        <5>4. QED
          BY <5>1, <5>2, <5>3 DEF HeadsUpTo
      <4>3. QED
        BY <4>1, <4>2
    <3>2. \A k \in DOMAIN sync.imu : HeadsUpTo(queue, sync.imu[k])
      BY <1>1 DEF QueueInOrder
    <3>3. QED
      BY <3>1, <3>2, <2>4
  <2> HIDE DEF r
  <2>7. BufferInOrder'
    BY <2>1, <2>4, <2>5 DEF BufferInOrder
  <2>8. QueueInOrder'
    BY <1>1, <2>1, <2>4, <2>5, <2>6 DEF QueueInOrder
  <2>9. QED
    BY <2>1, <2>7, <2>8, <1>4
<1>11. CASE EnqueueReady
  <2>1. cb = "ready" /\ cb' \notin {"accept", "notifyReset"} /\ UNCHANGED <<wpc, meas>>
    BY <1>11 DEF EnqueueReady, workerVars
  <2>2. CASE Releases(sync) /\ sync' = Released(sync)
             /\ queue' = Enqueued(queue, Group(sync))
    <3> DEFINE g == Group(sync)
               q == sync.imu
               left == Released(sync).imu
    <3>1. Sorted(q) /\ \A i \in DOMAIN q : q[i] <= sync.lastImu
      BY <1>1 DEF BufferInOrder
    <3>2. /\ Bracketed(g) /\ g.imu[1] = q[1]
          /\ Sorted(left) /\ left # <<>> /\ q[1] <= left[1]
          /\ left[Len(left)] = q[Len(q)]
      BY <1>3, <2>2, <3>1, ReleasedCovered
    <3>3. g \in MeasureGroup /\ Released(sync) \in SyncState
      BY <1>3, <2>2, HeadStamp, ReleasedType DEF Releases
    <3>4. Released(sync).lastImu = sync.lastImu
      BY <1>3 DEF Released, SyncState
    <3>5. q # <<>> /\ left \in Seq(Stamps)
      BY <2>2, <3>3 DEF Releases, SyncState
    <3> HIDE DEF g, left
    <3>6. /\ 1 \in DOMAIN q /\ Len(q) \in DOMAIN q /\ q[1] \in Int /\ q[Len(q)] \in Int
          /\ 1 \in DOMAIN left /\ Len(left) \in DOMAIN left
          /\ \A i \in DOMAIN left : left[i] \in Int /\ 1 <= i /\ i <= Len(left)
      <4>1. /\ DOMAIN q = 1 .. Len(q) /\ 1 \in 1 .. Len(q) /\ Len(q) \in 1 .. Len(q)
            /\ \A i \in 1 .. Len(q) : q[i] \in Int
        BY <1>3, <3>5, StampsInt
      <4>2. /\ DOMAIN left = 1 .. Len(left) /\ 1 \in 1 .. Len(left)
            /\ Len(left) \in 1 .. Len(left)
            /\ \A i \in 1 .. Len(left) : left[i] \in Int
        BY <3>2, <3>5, StampsInt
      <4>3. QED
        BY <4>1, <4>2
    <3>7. HeadsUpTo(queue, q[1])
      BY <1>1, <3>6 DEF QueueInOrder
    <3>8. QueueCovered(queue') /\ HeadsUpTo(queue', q[1])
      <4>1. QueueCovered(queue) /\ HeadsUpTo(queue, g.imu[1])
        BY <1>1, <3>2, <3>7 DEF QueueInOrder
      <4>2. QueueCovered(Enqueued(queue, g)) /\ HeadsUpTo(Enqueued(queue, g), g.imu[1])
        BY <1>3, <3>2, <3>3, <4>1, EnqueuedCovered
      <4>3. QED
        BY <4>2, <2>2, <3>2 DEF g
    <3>9. \A i \in DOMAIN left : HeadsUpTo(queue', left[i])
      <4>1. \A i \in DOMAIN queue' : queue'[i].imu[1] \in Int
        <5>1. queue' \in Seq(MeasureGroup)
          BY <1>1 DEF TypeOK
        <5>2. QED
          BY <3>8, <5>1, QueueFields
      <4>2. \A i \in DOMAIN left : left[1] <= left[i]
        BY <3>2, <3>6 DEF Sorted
      <4>3. \A i \in DOMAIN left : q[1] <= left[i]
        BY <3>2, <3>6, <4>2
      <4>4. QED
        BY <3>6, <3>8, <4>1, <4>3 DEF HeadsUpTo
    <3>10. \A i \in DOMAIN left : left[i] <= sync.lastImu
      <4>1. \A i \in DOMAIN left : left[i] <= left[Len(left)]
        BY <3>2, <3>6 DEF Sorted
      <4>2. q[Len(q)] <= sync.lastImu
        BY <3>1, <3>6
      <4>3. QED
        BY <4>1, <4>2, <3>2, <3>6, <1>3
    <3>11. sync'.imu = left /\ sync'.lastImu = sync.lastImu
      BY <2>2, <3>4 DEF left
    <3>12. BufferInOrder'
      BY <2>1, <3>2, <3>10, <3>11 DEF BufferInOrder
    <3>13. QueueInOrder'
      BY <3>2, <3>8, <3>9, <3>11 DEF QueueInOrder
    <3>14. QED
      BY <2>1, <3>12, <3>13, <1>4
  <2>3. CASE Discards(sync) /\ sync' = Discarded(sync) /\ UNCHANGED queue
    <3>1. sync'.imu = sync.imu /\ sync'.lastImu = sync.lastImu
      BY <1>3, <2>3 DEF Discarded, SyncState
    <3>2. BufferInOrder' /\ QueueInOrder'
      BY <2>1, <2>3, <3>1, UntouchedInOrder
    <3>3. QED
      BY <2>1, <3>2, <1>4
  <2>4. CASE UNCHANGED <<sync, queue>>
    <3>1. BufferInOrder' /\ QueueInOrder'
      BY <2>1, <2>4, UntouchedInOrder
    <3>2. QED
      BY <2>1, <3>1, <1>4
  <2>5. QED
    BY <1>11, <2>2, <2>3, <2>4, Zenon DEF EnqueueReady
<1>12. CASE Notify
  <2>1. /\ UNCHANGED <<sync, msg, initialized, queue, meas>>
        /\ wpc' = wpc \/ wpc' = "lock"
    BY <1>12 DEF Notify, handOff, workerVars
  <2>2. /\ cb # "reset" /\ cb' # "notifyReset"
        /\ cb' = "accept" => cb = "notifyReset"
    BY <1>12 DEF Notify, AfterNotify
  <2>3. cb' = "accept" => ~initialized'
    BY <1>1, <2>1, <2>2 DEF BufferInOrder
  <2>4. BufferInOrder' /\ QueueInOrder'
    BY <2>1, <2>2, <2>3, UntouchedInOrder
  <2>5. TakenCovered'
    BY <2>1, <1>4
  <2>6. QED
    BY <2>4, <2>5
<1>13. CASE TakeScan
  <2>1. /\ UNCHANGED <<sync, cb, msg, initialized>>
        /\ queue # <<>> /\ meas' = Head(queue) /\ queue' = Tail(queue)
    BY <1>13 DEF TakeScan, cbVars
  <2>2. /\ Bracketed(Head(queue)) /\ QueueCovered(Tail(queue))
        /\ \A t : HeadsUpTo(queue, t) => HeadsUpTo(Tail(queue), t)
    BY <1>1, <1>3, <2>1, TailCovered DEF QueueInOrder
  <2>3. BufferInOrder'
    BY <1>1, <2>1 DEF BufferInOrder
  <2>4. QueueInOrder'
    BY <1>1, <2>1, <2>2 DEF QueueInOrder
  <2>5. TakenCovered'
    BY <2>1, <2>2 DEF TakenCovered
  <2>6. QED
    BY <2>3, <2>4, <2>5
<1>14. CASE \/ LoopTest \/ Wait \/ SpuriousWakeUp \/ Stop \/ TakeReset \/ TakeInit
            \/ ResetEstimator \/ InitEstimator \/ HandleScan \/ Publish \/ UNCHANGED vars
  <2>1. UNCHANGED <<sync, cb, msg, initialized, queue>>
    BY <1>14 DEF LoopTest, Wait, SpuriousWakeUp, Stop, TakeReset, TakeInit,
                 ResetEstimator, InitEstimator, HandleScan, Publish, vars, cbVars, handOff
  <2>2. BufferInOrder' /\ QueueInOrder'
    BY <2>1, UntouchedInOrder
  <2>3. meas' = meas /\ (wpc' \in {"process", "publish"} => wpc \in {"process", "publish"})
    BY <1>14 DEF LoopTest, Wait, SpuriousWakeUp, Stop, TakeReset, TakeInit,
                 ResetEstimator, InitEstimator, HandleScan, Publish, vars, workerVars
  <2>4. TakenCovered'
    BY <1>1, <2>3 DEF TakenCovered
  <2>5. QED
    BY <2>2, <2>4
<1>15. QED
  BY <1>5, <1>6, <1>7, <1>8, <1>9, <1>10, <1>11, <1>12, <1>13, <1>14, Zenon
  DEF Next, Callback, Worker, Terminated
-----------------------------------------------------------------------------
LEMMA GroupsAre ==
  ASSUME OrderInv, NEW g \in Groups
  PROVE  g \in MeasureGroup /\ Bracketed(g)
<1>1. CASE \E i \in DOMAIN queue : g = queue[i]
  <2>1. queue \in Seq(MeasureGroup) /\ QueueCovered(queue)
    BY DEF OrderInv, TypeOK, QueueInOrder
  <2>2. QED
    BY <1>1, <2>1, QueueFields DEF QueueCovered
<1>2. CASE wpc \in {"process", "publish"} /\ g = meas
  BY <1>2 DEF OrderInv, TypeOK, TakenCovered
<1>3. QED
  BY <1>1, <1>2 DEF Groups

LEMMA OrderInvImplies == OrderInv => ImuInOrder /\ GroupsBracketed
<1> SUFFICES ASSUME OrderInv PROVE ImuInOrder /\ GroupsBracketed
  OBVIOUS
<1>1. \A g \in Groups : /\ g.imu # <<>> /\ Sorted(g.imu)
                         /\ Head(g.imu) <= g.scan.stamp
                         /\ Back(g.imu) >= g.scan.stamp + ScanGuard
  <2>1. SUFFICES ASSUME NEW g \in Groups
                 PROVE  /\ g.imu # <<>> /\ Sorted(g.imu)
                        /\ Head(g.imu) <= g.scan.stamp
                        /\ Back(g.imu) >= g.scan.stamp + ScanGuard
    OBVIOUS
  <2>2. g.imu \in Seq(Stamps) /\ Covers(g.imu, g.scan.stamp)
    BY GroupsAre, GroupFields DEF Bracketed
  <2>3. Head(g.imu) = g.imu[1]
    BY <2>2, StampsInt DEF Covers
  <2>4. QED
    BY <2>2, <2>3, Zenon DEF Covers, Back
<1>2. Sorted(sync.imu)
  BY DEF OrderInv, BufferInOrder
<1>3. QED
  BY <1>1, <1>2, Zenon DEF ImuInOrder, GroupsBracketed

(* The buffer and every group are in time order, in every behaviour: for every *)
(* order of stamps, restart threshold, guard and queue bound.                  *)
THEOREM ImuInOrderAlways == Spec => []ImuInOrder
<1>1. Init => OrderInv
  BY OrderInvInit
<1>2. OrderInv /\ [Next]_vars => OrderInv'
  BY OrderInvStep
<1>3. OrderInv => ImuInOrder
  BY OrderInvImplies
<1>4. QED
  BY <1>1, <1>2, <1>3, PTL DEF Spec

(* Every group the worker has or will get brackets its scan, in every behaviour. *)
THEOREM GroupsBracketedAlways == Spec => []GroupsBracketed
<1>1. Init => OrderInv
  BY OrderInvInit
<1>2. OrderInv /\ [Next]_vars => OrderInv'
  BY OrderInvStep
<1>3. OrderInv => GroupsBracketed
  BY OrderInvImplies
<1>4. QED
  BY <1>1, <1>2, <1>3, PTL DEF Spec
-----------------------------------------------------------------------------
(* What a step does, as far as the buffers and the hand-off are concerned.   *)

Enqueues == cb = "ready" /\ UNCHANGED <<meas, heard, world, source, msg>>

ReleaseScan ==
  /\ Enqueues /\ cb' = "notifyScan"
  /\ Releases(sync) /\ sync' = Released(sync)
  /\ queue' = Enqueued(queue, Group(sync))

DiscardScan ==
  /\ Enqueues /\ cb' = "idle" /\ queue' = queue
  /\ Discards(sync) /\ sync' = Discarded(sync)

(* All the rest: neither touched, and a message in hand stays so. *)
Quiet ==
  /\ UNCHANGED <<sync, queue, meas, heard, world, source, msg>>
  /\ \/ UNCHANGED <<cb, initialized>>
     \/ cb = "notifyReset" /\ cb' = "accept" /\ UNCHANGED initialized
     \/ cb = "accept" /\ ~initialized /\ cb' \in {"idle", "init"}
     \/ cb \notin {"accept", "reset"} /\ cb' \notin {"accept", "reset", "notifyReset"}

LEMMA Steps ==
  ASSUME [Next]_vars
  PROVE  \/ Quiet \/ ReleaseScan \/ DiscardScan
         \/ \E t \in Stamps : ImuMessage(t) \/ LidarMessage(t)
         \/ Reset \/ AcceptImu \/ AcceptLidar \/ TakeScan
<1>1. CASE Interrupt \/ Destroy \/ Join
  BY <1>1 DEF Interrupt, Destroy, Join, cbVars, sourceVars, handOff, workerVars, Quiet
<1>2. CASE AddInitSample
  BY <1>2 DEF AddInitSample, sourceVars, handOff, workerVars, Quiet
<1>3. CASE OnInitialized
  BY <1>3 DEF OnInitialized, sourceVars, workerVars, Quiet
<1>4. CASE Notify
  BY <1>4 DEF Notify, AfterNotify, sourceVars, handOff, workerVars, Quiet
<1>5. CASE EnqueueReady
  <2>1. cb = "ready" /\ UNCHANGED <<meas, heard, world, source, msg>>
    BY <1>5 DEF EnqueueReady, sourceVars, workerVars
  <2>2. CASE Releases(sync) /\ sync' = Released(sync) /\ cb' = "notifyScan"
             /\ queue' = Enqueued(queue, Group(sync))
    BY <2>1, <2>2, Zenon DEF ReleaseScan, Enqueues
  <2>3. CASE Discards(sync) /\ sync' = Discarded(sync) /\ cb' = "idle" /\ UNCHANGED queue
    BY <2>1, <2>3, Zenon DEF DiscardScan, Enqueues
  <2>4. CASE cb' = "idle" /\ UNCHANGED <<sync, queue>>
    BY <2>1, <2>4 DEF Quiet
  <2>5. QED
    BY <1>5, <2>2, <2>3, <2>4, Zenon DEF EnqueueReady
<1>6. CASE LoopTest \/ Wait \/ SpuriousWakeUp \/ Stop \/ TakeReset \/ TakeInit
  BY <1>6 DEF LoopTest, Wait, SpuriousWakeUp, Stop, TakeReset, TakeInit, sourceVars, cbVars,
              handOff, workerVars, Quiet
<1>7. CASE ResetEstimator \/ InitEstimator \/ HandleScan \/ Publish \/ UNCHANGED vars
  BY <1>7 DEF ResetEstimator, InitEstimator, HandleScan, Publish, vars, sourceVars, cbVars,
              handOff, workerVars, Quiet
<1>8. QED
  BY <1>1, <1>2, <1>3, <1>4, <1>5, <1>6, <1>7, Zenon DEF Next, Callback, Worker, Terminated

(* push_back under the bound: the new group behind the others and then, if that
   is one too many, the oldest merged into the next. *)
LEMMA EnqueuedIs ==
  ASSUME NEW q \in Seq(MeasureGroup), Len(q) <= MaxQueue, NEW g \in MeasureGroup
  PROVE  LET a == Append(q, g)
             r == Enqueued(q, g)
         IN /\ a \in Seq(MeasureGroup) /\ Len(a) = Len(q) + 1
            /\ \A i \in 1 .. Len(q) : a[i] = q[i]
            /\ a[Len(q) + 1] = g
            /\ \/ r = a
               \/ /\ Len(a) >= 2 /\ Len(r) = Len(a) - 1
                  /\ r[1] = MergeDroppedImu(a[1], a[2])
                  /\ \A i \in 2 .. Len(r) : r[i] = a[i + 1]
<1> DEFINE n == Len(q)
           a == Append(q, g)
           r == Enqueued(q, g)
<1>1. /\ a \in Seq(MeasureGroup) /\ Len(a) = n + 1
      /\ \A i \in 1 .. n : a[i] = q[i]
      /\ a[n + 1] = g
  BY AppendProperties
<1>2. n \in Nat /\ n <= MaxQueue /\ MaxQueue \in Nat /\ MaxQueue > 0
  BY LenProperties, ConstantsType
<1>3. CASE n < MaxQueue
  <2>1. r = a
    BY <1>3 DEF Enqueued
  <2>2. QED
    BY <1>1, <2>1
<1>4. CASE ~(n < MaxQueue) /\ n > 1
  <2> DEFINE s == Tail(q)
             m == MergeDroppedImu(Head(q), s[1])
             u == [s EXCEPT ![1] = m]
  <2>1. q # <<>> /\ Head(q) = q[1]
    BY <1>2, <1>4, EmptySeq
  <2>2. /\ Head(q) \in MeasureGroup /\ s \in Seq(MeasureGroup) /\ Len(s) = n - 1
        /\ \A i \in 1 .. Len(s) : s[i] = q[i + 1]
    BY <2>1, HeadTailProperties
  <2> HIDE DEF s
  <2>3. Len(s) >= 1 /\ 1 \in 1 .. Len(s) /\ s[1] = q[2] /\ s[1] \in MeasureGroup
    <3>1. Len(s) \in Nat /\ Len(s) >= 1 /\ 1 \in 1 .. Len(s)
      BY <1>2, <1>4, <2>2
    <3>2. s[1] = q[1 + 1] /\ s[1] \in MeasureGroup
      BY <2>2, <3>1, ElementOfSeq
    <3>3. QED
      BY <3>1, <3>2
  <2>4. m \in MeasureGroup
    BY <2>2, <2>3, MergedType
  <2>5. m = MergeDroppedImu(a[1], a[2])
    <3>1. 1 \in 1 .. n /\ 2 \in 1 .. n
      BY <1>2, <1>4
    <3>2. a[1] = q[1] /\ a[2] = q[2]
      BY <1>1, <3>1
    <3>3. QED
      BY <2>1, <2>3, <3>2
  <2> HIDE DEF m
  <2>6. /\ u \in Seq(MeasureGroup) /\ Len(u) = Len(s)
        /\ \A j \in 1 .. Len(s) : u[j] = IF j = 1 THEN m ELSE s[j]
    BY <2>2, <2>3, <2>4, ExceptFirst
  <2>7. r = Append(u, g)
    BY <1>4, Zenon DEF Enqueued, m, s
  <2> HIDE DEF u, r, a, n
  <2>8. /\ Len(r) = Len(u) + 1
        /\ \A i \in 1 .. Len(u) : r[i] = u[i]
        /\ r[Len(u) + 1] = g
    BY <2>6, <2>7, AppendProperties
  <2>9. Len(r) = n /\ Len(u) = n - 1 /\ r[1] = m
    BY <2>2, <2>3, <2>6, <2>8, <1>2
  <2>10. ASSUME NEW i \in 2 .. Len(r)
         PROVE  r[i] = a[i + 1]
    <3>1. CASE i = n
      BY <3>1, <1>1, <1>2, <2>8, <2>9
    <3>2. CASE i # n
      <4>1. i \in 1 .. n - 1 /\ i # 1 /\ i + 1 \in 1 .. n
        BY <3>2, <1>2, <2>9
      <4>2. r[i] = s[i] /\ s[i] = q[i + 1]
        BY <4>1, <2>2, <2>6, <2>8, <2>9
      <4>3. QED
        BY <4>1, <4>2, <1>1
    <3>3. QED
      BY <3>1, <3>2
  <2>11. Len(a) >= 2 /\ Len(r) = Len(a) - 1
    BY <1>1, <1>2, <1>4, <2>9
  <2>12. QED
    BY <1>1, <2>5, <2>9, <2>10, <2>11 DEF a, r, n
<1>5. CASE ~(n < MaxQueue) /\ ~(n > 1)
  <2> DEFINE m == MergeDroppedImu(Head(q), g)
             s == Tail(q)
  <2>1. n = 1
    <3> HIDE DEF n
    <3>1. QED
      BY <1>2, <1>5
  <2>2. q # <<>> /\ Head(q) = q[1]
    <3>1. Len(q) = 1
      BY <2>1
    <3>2. 1 \in 1 .. Len(q) /\ q[1] \in MeasureGroup
      BY <3>1, ElementOfSeq
    <3>3. q # <<>>
      BY <3>2
    <3>4. QED
      BY <3>3
  <2>3. Head(q) \in MeasureGroup /\ s \in Seq(MeasureGroup) /\ Len(s) = 0
    BY <2>1, <2>2, HeadTailProperties
  <2>4. m \in MeasureGroup
    BY <2>3, MergedType
  <2>5. a[1] = q[1] /\ a[2] = g
    <3>1. 1 \in 1 .. n /\ n + 1 = 2
      BY <2>1
    <3>2. QED
      BY <1>1, <3>1
  <2>6. m = MergeDroppedImu(a[1], a[2])
    BY <2>2, <2>5
  <2>7. r = Append(s, m)
    BY <1>5, Zenon DEF Enqueued
  <2> HIDE DEF m, s, r, a, n
  <2>8. Len(r) = 1 /\ r[1] = m
    <3>1. Len(r) = Len(s) + 1 /\ r[Len(s) + 1] = m
      BY <2>3, <2>4, <2>7, AppendProperties
    <3>2. QED
      BY <3>1, <2>3
  <2>9. Len(a) >= 2 /\ Len(r) = Len(a) - 1 /\ \A i \in 2 .. Len(r) : FALSE
    BY <1>1, <2>1, <2>8
  <2>10. QED
    BY <1>1, <2>6, <2>8, <2>9 DEF a, r, n
<1>6. QED
  BY <1>3, <1>4, <1>5

(* Its scans are those of the queue and the new one, but perhaps the oldest. *)
LEMMA EnqueuedScans ==
  ASSUME NEW q \in Seq(MeasureGroup), Len(q) <= MaxQueue, NEW g \in MeasureGroup
  PROVE  LET a == Append(q, g)
             r == Enqueued(q, g)
         IN /\ DOMAIN r = 1 .. Len(r) /\ Len(r) \in Nat
            /\ \E k \in {0, 1} :
                 \A i \in DOMAIN r : i + k \in 1 .. Len(q) + 1 /\ r[i].scan = a[i + k].scan
<1> DEFINE n == Len(q)
           a == Append(q, g)
           r == Enqueued(q, g)
<1>1. n \in Nat /\ r \in Seq(MeasureGroup)
  BY LenProperties, EnqueuedType
<1>2. DOMAIN r = 1 .. Len(r) /\ Len(r) \in Nat
  BY <1>1, LenProperties
<1>3. /\ a \in Seq(MeasureGroup) /\ Len(a) = n + 1
      /\ \/ r = a
         \/ /\ Len(a) >= 2 /\ Len(r) = Len(a) - 1
            /\ r[1] = MergeDroppedImu(a[1], a[2])
            /\ \A i \in 2 .. Len(r) : r[i] = a[i + 1]
  BY EnqueuedIs
<1> HIDE DEF a, r, n
<1>4. CASE r = a
  <2>1. \A i \in DOMAIN r : i + 0 \in 1 .. n + 1 /\ r[i].scan = a[i + 0].scan
    BY <1>2, <1>3, <1>4
  <2>2. QED
    BY <1>2, <2>1 DEF a, r, n
<1>5. CASE /\ Len(a) >= 2 /\ Len(r) = Len(a) - 1
           /\ r[1] = MergeDroppedImu(a[1], a[2])
           /\ \A i \in 2 .. Len(r) : r[i] = a[i + 1]
  <2>1. a[1] \in MeasureGroup /\ a[2] \in MeasureGroup
    BY <1>1, <1>3, <1>5, ElementOfSeq
  <2>2. r[1].scan = a[2].scan
    BY <2>1, <1>5, MergedType
  <2>3. ASSUME NEW i \in DOMAIN r
        PROVE  i + 1 \in 1 .. n + 1 /\ r[i].scan = a[i + 1].scan
    <3>1. CASE i = 1
      BY <3>1, <2>2, <1>1, <1>2, <1>3, <1>5
    <3>2. CASE i # 1
      BY <3>2, <1>1, <1>2, <1>3, <1>5
    <3>3. QED
      BY <3>1, <3>2
  <2>4. QED
    BY <1>2, <2>3 DEF a, r, n
<1>6. QED
  BY <1>3, <1>4, <1>5
-----------------------------------------------------------------------------
(* Scans of a LiDAR that moves forward, by p or more.                        *)

Pending(kind) == cb \in {"accept", "reset", "notifyReset"} /\ msg.kind = kind

(* The stamps that every scan not yet released comes p or more after. *)
Ahead(p) ==
  {x \in Stamps :
     /\ x <= source.lidar
     /\ \A j \in DOMAIN sync.lidar : x + p <= sync.lidar[j].stamp
     /\ Pending("lidar") => x + p <= msg.stamp}

BufferedApart(p) ==
  /\ \A j \in DOMAIN sync.lidar :
       /\ sync.lidar[j].stamp \in Stamps /\ sync.lidar[j].stamp <= source.lidar
       /\ Pending("lidar") => sync.lidar[j].stamp + p <= msg.stamp
  /\ \A i, j \in DOMAIN sync.lidar : i < j => sync.lidar[i].stamp + p <= sync.lidar[j].stamp
  /\ Pending("lidar") => msg.stamp = source.lidar

QueueApart(p) ==
  /\ \A i \in DOMAIN queue : queue[i].scan.stamp \in Ahead(p)
  /\ \A i, j \in DOMAIN queue : i < j => queue[i].scan.stamp + p <= queue[j].scan.stamp

TakenApart(p) ==
  meas # NoGroup =>
    /\ meas.scan.stamp \in Ahead(p)
    /\ \A i \in DOMAIN queue : meas.scan.stamp + p <= queue[i].scan.stamp

ScansApart(p) == BufferedApart(p) /\ QueueApart(p) /\ TakenApart(p)

LidarForward(p) == \A d \in Jumps["lidar"] : p <= d

LEMMA InitApart == ASSUME NEW p \in Nat, Init PROVE ScansApart(p)
<1>1. /\ sync.lidar = <<>> /\ queue = <<>> /\ meas = NoGroup /\ cb = "idle"
  BY DEF Init, Cleared
<1>2. (\A i \in DOMAIN sync.lidar : FALSE) /\ (\A i \in DOMAIN queue : FALSE)
  BY <1>1
<1>3. ~Pending("lidar")
  BY <1>1 DEF Pending
<1>4. QED
  BY <1>1, <1>2, <1>3 DEF ScansApart, BufferedApart, QueueApart, TakenApart

(* Most steps only forget scans. *)
LEMMA ForgetApart ==
  ASSUME NEW p \in Nat, ScansApart(p),
         source'.lidar = source.lidar, meas' = meas,
         sync'.lidar \in {sync.lidar, <<>>}, queue' \in {queue, <<>>},
         Pending("lidar")' => Pending("lidar") /\ msg' = msg
  PROVE  ScansApart(p)'
<1>1. \A j \in DOMAIN sync'.lidar :
         j \in DOMAIN sync.lidar /\ sync'.lidar[j] = sync.lidar[j]
  OBVIOUS
<1>2. \A i \in DOMAIN queue' : i \in DOMAIN queue /\ queue'[i] = queue[i]
  OBVIOUS
<1>3. Ahead(p) \subseteq Ahead(p)'
  BY <1>1 DEF Ahead
<1>4. BufferedApart(p)'
  BY <1>1 DEF ScansApart, BufferedApart
<1>5. QueueApart(p)'
  BY <1>2, <1>3 DEF ScansApart, QueueApart
<1>6. TakenApart(p)'
  BY <1>2, <1>3 DEF ScansApart, TakenApart
<1>7. QED
  BY <1>4, <1>5, <1>6 DEF ScansApart

LEMMA ApartStep ==
  ASSUME NEW p \in Nat, LidarForward(p), TypeOK, ScansApart(p), [Next]_vars
  PROVE  ScansApart(p)'
<1>1. /\ sync \in SyncState /\ sync.lidar \in Seq(Scan) /\ sync.imu \in Seq(Stamps)
      /\ queue \in Seq(MeasureGroup) /\ Len(queue) <= MaxQueue
      /\ source \in [{"imu", "lidar"} -> Stamps \cup {NoStamp}] /\ Stamps \subseteq Nat
  BY NodeAssumption DEF TypeOK, SyncState
<1>2. /\ Len(sync.lidar) \in Nat /\ DOMAIN sync.lidar = 1 .. Len(sync.lidar)
      /\ Len(queue) \in Nat /\ DOMAIN queue = 1 .. Len(queue)
  BY <1>1, LenProperties
<1>3. BufferedApart(p) /\ QueueApart(p) /\ TakenApart(p)
  BY DEF ScansApart
<1>4. CASE Quiet
  <2>1. Pending("lidar")' => Pending("lidar")
    BY <1>4 DEF Quiet, Pending
  <2>2. QED
    BY <1>4, <2>1, ForgetApart DEF Quiet
<1>5. ASSUME NEW t \in Stamps, ImuMessage(t)
      PROVE  ScansApart(p)'
  <2>1. /\ sync' = CheckedImu(sync, t) /\ msg' = [kind |-> "imu", stamp |-> t]
        /\ source' = [source EXCEPT !["imu"] = t] /\ queue' = queue /\ meas' = meas
    BY <1>5 DEF ImuMessage, Arrives, handOff, workerVars
  <2>2. source'.lidar = source.lidar /\ ~Pending("lidar")'
    BY <1>1, <2>1 DEF Pending
  <2>3. sync'.lidar \in {sync.lidar, <<>>}
    BY <1>1, <2>1, CheckedBuffers
  <2>4. QED
    BY <2>1, <2>2, <2>3, ForgetApart
<1>6. ASSUME NEW t \in Stamps, LidarMessage(t)
      PROVE  ScansApart(p)'
  <2>1. /\ msg' = [kind |-> "lidar", stamp |-> t]
        /\ source' = [source EXCEPT !["lidar"] = t] /\ queue' = queue /\ meas' = meas
        /\ source["lidar"] # NoStamp => t - source["lidar"] \in Jumps["lidar"]
    BY <1>6 DEF LidarMessage, Arrives, handOff, workerVars
  <2>2. source'.lidar = t /\ msg'.stamp = t /\ t \in Nat
    BY <1>1, <2>1
  <2>3. sync'.lidar \in {sync.lidar, <<>>}
    <3>1. sync' \in {sync, CheckedLidar(sync, t)}
      BY <1>6, Zenon DEF LidarMessage
    <3>2. QED
      BY <1>1, <3>1, CheckedBuffers
  <2>4. \A j \in DOMAIN sync'.lidar :
           j \in DOMAIN sync.lidar /\ sync'.lidar[j] = sync.lidar[j]
    BY <2>3
  <2>5. ASSUME NEW x \in Stamps, x <= source.lidar
        PROVE  x <= t /\ x + p <= t
    <3>1. x \in Nat /\ source["lidar"] \in Nat \cup {NoStamp} /\ source["lidar"] # NoStamp
      <4>1. x \in Nat /\ source["lidar"] \in Nat \cup {NoStamp}
        BY <1>1
      <4>2. source["lidar"] # NoStamp
        BY <2>5, <4>1 DEF NoStamp
      <4>3. QED
        BY <4>1, <4>2
    <3>2. t - source.lidar \in Jumps["lidar"]
      BY <2>1, <3>1
    <3>3. p <= t - source.lidar
      BY <3>2 DEF LidarForward
    <3>4. QED
      BY <2>2, <2>5, <3>1, <3>3
  <2>6. Ahead(p) \subseteq Ahead(p)'
    BY <2>2, <2>4, <2>5 DEF Ahead
  <2>7. BufferedApart(p)'
    BY <1>3, <2>2, <2>4, <2>5 DEF BufferedApart
  <2>8. QueueApart(p)' /\ TakenApart(p)'
    BY <1>3, <2>1, <2>6 DEF QueueApart, TakenApart
  <2>9. QED
    BY <2>7, <2>8 DEF ScansApart
<1>7. CASE Reset
  <2>1. /\ cb = "reset" /\ msg' = msg /\ source' = source /\ meas' = meas
        /\ sync'.lidar = <<>> /\ queue' = <<>>
    BY <1>7 DEF Reset, Cleared, sourceVars, workerVars
  <2>2. Pending("lidar")' => Pending("lidar")
    BY <2>1 DEF Pending
  <2>3. QED
    BY <2>1, <2>2, ForgetApart
<1>8. CASE AcceptImu
  <2>1. /\ source' = source /\ meas' = meas /\ queue' = queue
        /\ sync'.lidar = sync.lidar /\ cb' = "ready"
    BY <1>1, <1>8 DEF AcceptImu, PushedImu, SyncState, sourceVars, handOff, workerVars
  <2>2. QED
    BY <2>1, ForgetApart DEF Pending
<1>9. CASE AcceptLidar
  <2> DEFINE scan == [stamp |-> msg.stamp, world |-> world]
             r == Append(sync.lidar, scan)
  <2>1. /\ Pending("lidar") /\ source' = source /\ meas' = meas /\ queue' = queue
        /\ sync'.lidar = r /\ cb' = "ready" /\ msg.stamp \in Stamps
    BY <1>1, <1>9 DEF AcceptLidar, PushedLidar, SyncState, sourceVars, handOff, workerVars,
                      Pending, TypeOK
  <2>2. scan \in Scan /\ scan.stamp = msg.stamp
    BY <2>1 DEF Scan, TypeOK
  <2> HIDE DEF scan
  <2>3. /\ DOMAIN r = 1 .. Len(sync.lidar) + 1
        /\ \A j \in DOMAIN sync.lidar : r[j] = sync.lidar[j]
        /\ r[Len(sync.lidar) + 1] = scan
    <3>1. /\ r \in Seq(Scan) /\ Len(r) = Len(sync.lidar) + 1
          /\ \A i \in 1 .. Len(sync.lidar) : r[i] = sync.lidar[i]
          /\ r[Len(sync.lidar) + 1] = scan
      BY <1>1, <2>2, AppendProperties
    <3> HIDE DEF r
    <3>2. QED
      BY <1>2, <3>1, LenProperties
  <2> HIDE DEF r
  <2>4. \A j \in DOMAIN r : (j \in DOMAIN sync.lidar /\ r[j] = sync.lidar[j])
                            \/ (j = Len(sync.lidar) + 1 /\ r[j].stamp = msg.stamp)
    BY <1>2, <2>2, <2>3
  <2>5. ~Pending("lidar")'
    BY <2>1 DEF Pending
  <2>6. msg.stamp = source.lidar /\ msg.stamp \in Nat
    BY <1>1, <1>3, <2>1 DEF BufferedApart
  <2>7. Ahead(p) \subseteq Ahead(p)'
    BY <2>1, <2>4, <2>5 DEF Ahead
  <2>8. BufferedApart(p)'
    <3>1. \A j \in DOMAIN r : r[j].stamp \in Stamps /\ r[j].stamp <= source.lidar
      BY <1>3, <2>1, <2>4, <2>6 DEF BufferedApart
    <3>2. \A i, j \in DOMAIN r : i < j => r[i].stamp + p <= r[j].stamp
      <4>1. SUFFICES ASSUME NEW i \in DOMAIN r, NEW j \in DOMAIN r, i < j
                     PROVE  r[i].stamp + p <= r[j].stamp
        OBVIOUS
      <4>2. i \in DOMAIN sync.lidar /\ r[i] = sync.lidar[i]
        BY <1>2, <2>3, <4>1
      <4>3. QED
        BY <1>3, <2>1, <2>4, <4>1, <4>2 DEF BufferedApart
    <3>3. QED
      BY <2>1, <2>5, <3>1, <3>2 DEF BufferedApart
  <2>9. QueueApart(p)' /\ TakenApart(p)'
    BY <1>3, <2>1, <2>7 DEF QueueApart, TakenApart
  <2>10. QED
    BY <2>8, <2>9 DEF ScansApart
<1>10. ASSUME sync.lidar # <<>>, sync'.lidar = Tail(sync.lidar),
              source' = source, cb' \in {"notifyScan", "idle"}
       PROVE  /\ BufferedApart(p)'
              /\ Ahead(p) \subseteq Ahead(p)'
              /\ Head(sync.lidar) = sync.lidar[1] /\ 1 \in DOMAIN sync.lidar
              /\ sync.lidar[1].stamp \in Ahead(p)'
  <2> DEFINE r == Tail(sync.lidar)
  <2>1. /\ Head(sync.lidar) = sync.lidar[1] /\ 1 \in DOMAIN sync.lidar
        /\ \A j \in DOMAIN r : /\ j \in Nat /\ j + 1 \in DOMAIN sync.lidar /\ 1 < j + 1
                               /\ r[j] = sync.lidar[j + 1]
    <3>1. /\ r \in Seq(Scan) /\ Len(r) = Len(sync.lidar) - 1
          /\ \A i \in 1 .. Len(r) : r[i] = sync.lidar[i + 1]
      BY <1>1, <1>10, HeadTailProperties
    <3>2. Len(sync.lidar) >= 1 /\ Head(sync.lidar) = sync.lidar[1]
      BY <1>1, <1>2, <1>10, EmptySeq
    <3> HIDE DEF r
    <3>3. DOMAIN r = 1 .. Len(sync.lidar) - 1
      BY <3>1, LenProperties
    <3>4. QED
      BY <1>2, <3>1, <3>2, <3>3, SMTT(30)
  <2>2. sync'.lidar = r /\ ~Pending("lidar")'
    BY <1>10 DEF Pending
  <2> HIDE DEF r
  <2>3. BufferedApart(p)'
    <3>1. \A j \in DOMAIN r : r[j].stamp \in Stamps /\ r[j].stamp <= source.lidar
      BY <1>3, <2>1 DEF BufferedApart
    <3>2. \A i, j \in DOMAIN r : i < j => r[i].stamp + p <= r[j].stamp
      BY <1>3, <2>1 DEF BufferedApart
    <3>3. QED
      BY <1>10, <2>2, <3>1, <3>2 DEF BufferedApart
  <2>4. Ahead(p) \subseteq Ahead(p)'
    BY <1>10, <2>1, <2>2 DEF Ahead
  <2>5. sync.lidar[1].stamp \in Ahead(p)'
    <3>1. sync.lidar[1].stamp \in Stamps /\ sync.lidar[1].stamp <= source.lidar
      BY <1>3, <2>1 DEF BufferedApart
    <3>2. \A j \in DOMAIN r : sync.lidar[1].stamp + p <= r[j].stamp
      BY <1>3, <2>1 DEF BufferedApart
    <3>3. QED
      BY <1>10, <2>2, <3>1, <3>2 DEF Ahead
  <2>6. QED
    BY <2>1, <2>3, <2>4, <2>5
<1>11. CASE DiscardScan
  <2>1. /\ sync.lidar # <<>> /\ sync'.lidar = Tail(sync.lidar)
        /\ source' = source /\ cb' = "idle" /\ queue' = queue /\ meas' = meas
    BY <1>1, <1>11 DEF DiscardScan, Enqueues, Discards, Discarded, SyncState
  <2>2. BufferedApart(p)' /\ Ahead(p) \subseteq Ahead(p)'
    BY <1>10, <2>1
  <2>3. QueueApart(p)' /\ TakenApart(p)'
    BY <1>3, <2>1, <2>2 DEF QueueApart, TakenApart
  <2>4. QED
    BY <2>2, <2>3 DEF ScansApart
<1>12. CASE ReleaseScan
  <2> DEFINE g == Group(sync)
             a == Append(queue, g)
             r == Enqueued(queue, g)
  <2>1. /\ sync.lidar # <<>> /\ sync'.lidar = Tail(sync.lidar)
        /\ source' = source /\ cb' = "notifyScan" /\ queue' = r /\ meas' = meas
    BY <1>1, <1>12 DEF ReleaseScan, Enqueues, Releases, Released, SyncState
  <2>2. /\ BufferedApart(p)' /\ Ahead(p) \subseteq Ahead(p)'
        /\ Head(sync.lidar) = sync.lidar[1] /\ 1 \in DOMAIN sync.lidar
        /\ sync.lidar[1].stamp \in Ahead(p)'
    BY <1>10, <2>1
  <2>3. g \in MeasureGroup /\ g.scan = sync.lidar[1]
    <3>1. g \in MeasureGroup
      BY <1>1, <1>12, HeadStamp, ReleasedType DEF ReleaseScan, Releases
    <3>2. QED
      BY <2>2, <3>1 DEF Group
  <2>4. /\ \A i \in 1 .. Len(queue) : a[i] = queue[i]
        /\ a[Len(queue) + 1] = g
        /\ DOMAIN r = 1 .. Len(r) /\ Len(r) \in Nat
    BY <1>1, <2>3, EnqueuedIs, EnqueuedScans
  <2>5. PICK k \in {0, 1} :
          \A i \in DOMAIN r : i + k \in 1 .. Len(queue) + 1 /\ r[i].scan = a[i + k].scan
    BY <1>1, <2>3, EnqueuedScans
  <2> HIDE DEF a, r, g
  <2>6. ASSUME NEW i \in 1 .. Len(queue) + 1
        PROVE  \/ i \in DOMAIN queue /\ a[i].scan = queue[i].scan
               \/ i = Len(queue) + 1 /\ a[i].scan = sync.lidar[1]
    BY <1>2, <2>3, <2>4
  <2>7. \A i \in 1 .. Len(queue) + 1 : a[i].scan.stamp \in Ahead(p)'
    <3>1. \A i \in DOMAIN queue : queue[i].scan.stamp \in Ahead(p)'
      BY <1>3, <2>2 DEF QueueApart
    <3>2. QED
      BY <2>2, <2>6, <3>1, Zenon
  <2>8. \A i, j \in 1 .. Len(queue) + 1 : i < j => a[i].scan.stamp + p <= a[j].scan.stamp
    <3>1. SUFFICES ASSUME NEW i \in 1 .. Len(queue) + 1, NEW j \in 1 .. Len(queue) + 1, i < j
                   PROVE  a[i].scan.stamp + p <= a[j].scan.stamp
      OBVIOUS
    <3>2. i \in DOMAIN queue /\ a[i].scan = queue[i].scan
      BY <1>2, <2>6, <3>1
    <3>3. CASE j = Len(queue) + 1
      <4>1. a[j].scan = sync.lidar[1]
        BY <2>3, <2>4, <3>3
      <4>2. queue[i].scan.stamp + p <= sync.lidar[1].stamp
        BY <1>3, <2>2, <3>2 DEF QueueApart, Ahead
      <4>3. QED
        BY <3>2, <4>1, <4>2
    <3>4. CASE j # Len(queue) + 1
      <4>1. j \in DOMAIN queue /\ a[j].scan = queue[j].scan
        BY <2>6, <3>4
      <4>2. QED
        BY <1>3, <3>1, <3>2, <4>1 DEF QueueApart
    <3>5. QED
      BY <3>3, <3>4
  <2>9. QueueApart(p)'
    <3>1. \A i \in DOMAIN r : r[i].scan.stamp \in Ahead(p)'
      <4>1. ASSUME NEW i \in DOMAIN r
            PROVE  r[i].scan.stamp \in Ahead(p)'
        <5>1. i + k \in 1 .. Len(queue) + 1 /\ r[i].scan.stamp = a[i + k].scan.stamp
          BY <2>5
        <5>2. a[i + k].scan.stamp \in Ahead(p)'
          BY <2>7, <5>1
        <5>3. QED
          BY <5>1, <5>2, Zenon
      <4>2. QED
        BY <4>1
    <3>2. \A i, j \in DOMAIN r : i < j => r[i].scan.stamp + p <= r[j].scan.stamp
      <4>1. SUFFICES ASSUME NEW i \in DOMAIN r, NEW j \in DOMAIN r, i < j
                     PROVE  r[i].scan.stamp + p <= r[j].scan.stamp
        OBVIOUS
      <4>2. i + k < j + k
        BY <2>4, <4>1
      <4>3. QED
        BY <2>5, <2>8, <4>2
    <3>3. QED
      BY <2>1, <3>1, <3>2 DEF QueueApart
  <2>10. TakenApart(p)'
    <3>1. SUFFICES ASSUME meas # NoGroup
                   PROVE  /\ meas.scan.stamp \in Ahead(p)'
                          /\ \A i \in DOMAIN r : meas.scan.stamp + p <= r[i].scan.stamp
      BY <2>1 DEF TakenApart
    <3>2. meas.scan.stamp \in Ahead(p)
      BY <1>3, <3>1 DEF TakenApart
    <3>3. meas.scan.stamp + p <= sync.lidar[1].stamp
      BY <2>2, <3>2 DEF Ahead
    <3>4. \A i \in 1 .. Len(queue) + 1 : meas.scan.stamp + p <= a[i].scan.stamp
      BY <1>3, <2>6, <3>1, <3>3 DEF TakenApart
    <3>5. \A i \in DOMAIN r : meas.scan.stamp + p <= r[i].scan.stamp
      BY <2>5, <3>4
    <3>6. QED
      BY <2>2, <3>2, <3>5
  <2>11. QED
    BY <2>2, <2>9, <2>10 DEF ScansApart
<1>13. CASE TakeScan
  <2> DEFINE r == Tail(queue)
  <2>1. /\ queue # <<>> /\ meas' = Head(queue) /\ queue' = r
        /\ UNCHANGED <<sync, source, msg, cb>>
    BY <1>13 DEF TakeScan, sourceVars, cbVars
  <2>2. /\ Head(queue) = queue[1] /\ 1 \in DOMAIN queue
        /\ \A j \in DOMAIN r : /\ j \in Nat /\ j + 1 \in DOMAIN queue /\ 1 < j + 1
                               /\ r[j] = queue[j + 1]
    <3>1. /\ r \in Seq(MeasureGroup) /\ Len(r) = Len(queue) - 1
          /\ \A i \in 1 .. Len(r) : r[i] = queue[i + 1]
      BY <1>1, <2>1, HeadTailProperties
    <3>2. Len(queue) >= 1 /\ Head(queue) = queue[1]
      BY <1>1, <1>2, <2>1, EmptySeq
    <3> HIDE DEF r
    <3>3. DOMAIN r = 1 .. Len(queue) - 1
      BY <3>1, LenProperties
    <3>4. QED
      BY <1>2, <3>1, <3>2, <3>3
  <2> HIDE DEF r
  <2>3. Ahead(p) \subseteq Ahead(p)'
    BY <2>1 DEF Ahead, Pending
  <2>4. BufferedApart(p)'
    BY <1>3, <2>1 DEF BufferedApart, Pending
  <2>5. QueueApart(p)'
    <3>1. \A i \in DOMAIN r : r[i].scan.stamp \in Ahead(p)
      BY <1>3, <2>2 DEF QueueApart
    <3>2. \A i, j \in DOMAIN r : i < j => r[i].scan.stamp + p <= r[j].scan.stamp
      BY <1>3, <2>2 DEF QueueApart
    <3>3. QED
      BY <2>1, <2>3, <3>1, <3>2 DEF QueueApart
  <2>6. TakenApart(p)'
    <3>1. meas' = queue[1] /\ queue[1].scan.stamp \in Ahead(p)'
      BY <1>3, <2>1, <2>2, <2>3 DEF QueueApart
    <3>2. \A i \in DOMAIN r : queue[1].scan.stamp + p <= r[i].scan.stamp
      BY <1>3, <2>2 DEF QueueApart
    <3>3. QED
      BY <2>1, <3>1, <3>2 DEF TakenApart
  <2>7. QED
    BY <2>4, <2>5, <2>6 DEF ScansApart
<1>14. QED
  BY <1>4, <1>5, <1>6, <1>7, <1>8, <1>9, <1>11, <1>12, <1>13, Steps, Zenon

Current == meas.scan.world = world

LEMMA ApartImplies ==
  ASSUME TypeOK, BufferedOfWorld, ScansApart(0), [Next]_vars
  PROVE  meas' # meas /\ meas'.scan.world = meas.scan.world
           => meas.scan.stamp <= meas'.scan.stamp
<1>1. SUFFICES ASSUME meas' # meas, meas'.scan.world = meas.scan.world
               PROVE  meas.scan.stamp <= meas'.scan.stamp
  OBVIOUS
<1>2. TakeScan
  <2>1. Enqueues => meas' = meas
    BY DEF Enqueues
  <2>2. \A t \in Stamps : ImuMessage(t) \/ LidarMessage(t) => meas' = meas
    BY DEF ImuMessage, LidarMessage, workerVars
  <2>3. Reset \/ AcceptImu \/ AcceptLidar => meas' = meas
    BY DEF Reset, AcceptImu, AcceptLidar, workerVars
  <2>4. QED
    BY <1>1, <2>1, <2>2, <2>3, Steps DEF Quiet, ReleaseScan, DiscardScan
<1>3. queue \in Seq(MeasureGroup) /\ queue # <<>> /\ meas' = Head(queue)
  BY <1>2 DEF TypeOK, TakeScan
<1>4. Head(queue) = queue[1] /\ 1 \in DOMAIN queue
  BY <1>3, EmptySeq, LenProperties
<1>5. meas # NoGroup
  <2>1. meas'.scan.world = world /\ world # NoWorld
    BY <1>3, <1>4 DEF BufferedOfWorld, TypeOK
  <2>2. NoGroup.scan.world = NoWorld
    BY DEF NoGroup
  <2>3. QED
    BY <1>1, <2>1, <2>2
<1>6. meas.scan.stamp + 0 <= queue[1].scan.stamp /\ meas.scan.stamp \in Stamps
  BY <1>4, <1>5 DEF ScansApart, TakenApart, Ahead
<1>7. meas.scan.stamp \in Int
  BY <1>6, ConstantsType
<1>8. QED
  BY <1>3, <1>4, <1>6, <1>7

(* Scans of one world reach the estimator in the order of their stamps, if the
   LiDAR's stamps do not go back -- the restart after which they may is that of
   another source, and node_reanchor shows that the hypothesis is needed. *)
THEOREM ScansInOrderAlways ==
  ASSUME LidarForward(0)
  PROVE  Spec => ScansInOrder
<1>1. Init => WorldInv /\ ScansApart(0)
  BY WorldInvInit, InitApart
<1>2. WorldInv /\ ScansApart(0) /\ [Next]_vars => (WorldInv /\ ScansApart(0))'
  <2>1. SUFFICES ASSUME WorldInv, ScansApart(0), [Next]_vars
                 PROVE  WorldInv' /\ ScansApart(0)'
    OBVIOUS
  <2>2. TypeOK
    BY <2>1 DEF WorldInv
  <2>3. QED
    BY <2>1, <2>2, WorldInvStep, ApartStep
<1>3. WorldInv /\ ScansApart(0) /\ [Next]_vars
        => [meas' # meas /\ meas'.scan.world = meas.scan.world
              => meas.scan.stamp <= meas'.scan.stamp]_vars
  <2>1. SUFFICES ASSUME WorldInv, ScansApart(0), [Next]_vars
                 PROVE  meas' # meas /\ meas'.scan.world = meas.scan.world
                          => meas.scan.stamp <= meas'.scan.stamp
    OBVIOUS
  <2>2. TypeOK /\ BufferedOfWorld
    BY <2>1 DEF WorldInv
  <2>3. QED
    BY <2>1, <2>2, ApartImplies
<1>4. QED
  BY <1>1, <1>2, <1>3, PTL DEF Spec, ScansInOrder
-----------------------------------------------------------------------------
(* What a stretch of the buffer, or a merged group, has of the samples in H,  *)
(* and the holes in it.                                                      *)

HoldsAll(H, q) == \A t \in H : q[1] <= t /\ t <= q[Len(q)] => t \in StampsOf(q)

Dense(gap, q) == \A i \in 1 .. Len(q) - 1 : q[i + 1] - q[i] <= gap

LEMMA StretchHolds ==
  ASSUME NEW q \in Seq(Stamps), Sorted(q), NEW H \in SUBSET Stamps, HoldsAll(H, q),
         NEW m \in Int, NEW n \in Int, m >= 1, n <= Len(q), m <= n
  PROVE  LET r == SubSeq(q, m, n)
         IN /\ HoldsAll(H, r)
            /\ \A gap \in Int : Dense(gap, q) => Dense(gap, r)
<1> DEFINE r == SubSeq(q, m, n)
<1>1. /\ r \in Seq(Stamps) /\ r # <<>>
      /\ Len(r) = n - m + 1
      /\ r[1] = q[m] /\ r[Len(r)] = q[n]
      /\ \A i \in 1 .. Len(r) : r[i] = q[m + i - 1]
  BY SortedStretch
<1> HIDE DEF r
<1>2. /\ Len(q) \in Nat /\ DOMAIN q = 1 .. Len(q) /\ DOMAIN r = 1 .. Len(r)
      /\ \A i \in 1 .. Len(q) : q[i] \in Int
      /\ 1 \in 1 .. Len(q) /\ Len(q) \in 1 .. Len(q) /\ m \in 1 .. Len(q) /\ n \in 1 .. Len(q)
  BY <1>1, StampsInt
<1>3. \A i, j \in 1 .. Len(q) : i <= j => q[i] <= q[j]
  BY <1>2 DEF Sorted
<1>4. HoldsAll(H, r)
  <2>1. SUFFICES ASSUME NEW t \in H, q[m] <= t, t <= q[n]
                 PROVE  \E i \in 1 .. Len(r) : t = r[i]
    BY <1>1, <1>2 DEF HoldsAll, StampsOf
  <2>2. t \in Int
    BY ConstantsType
  <2>3. q[1] <= t /\ t <= q[Len(q)]
    <3>1. q[1] <= q[m] /\ q[n] <= q[Len(q)]
      BY <1>2, <1>3
    <3>2. QED
      BY <1>2, <2>1, <2>2, <3>1
  <2>4. PICK j \in 1 .. Len(q) : t = q[j]
    BY <1>2, <2>3 DEF HoldsAll, StampsOf
  <2>5. CASE j < m
    <3>1. q[j] <= q[m]
      BY <1>2, <1>3, <2>5
    <3>2. t = r[1]
      BY <1>1, <1>2, <2>1, <2>4, <3>1
    <3>3. QED
      BY <1>1, <3>2
  <2>6. CASE j > n
    <3>1. q[n] <= q[j]
      BY <1>2, <1>3, <2>6
    <3>2. t = r[Len(r)]
      BY <1>1, <1>2, <2>1, <2>4, <3>1
    <3>3. QED
      BY <1>1, <3>2
  <2>7. CASE m <= j /\ j <= n
    <3>1. j - m + 1 \in 1 .. Len(r) /\ m + (j - m + 1) - 1 = j
      BY <1>1, <2>7
    <3>2. r[j - m + 1] = q[j]
      BY <1>1, <3>1
    <3>3. QED
      BY <2>4, <3>1, <3>2
  <2>8. QED
    BY <2>5, <2>6, <2>7
<1>5. ASSUME NEW gap \in Int, Dense(gap, q)
      PROVE  Dense(gap, r)
  <2>1. SUFFICES ASSUME NEW i \in 1 .. Len(r) - 1
                 PROVE  r[i + 1] - r[i] <= gap
    BY DEF Dense
  <2>2. i \in 1 .. Len(r) /\ i + 1 \in 1 .. Len(r) /\ m + i - 1 \in 1 .. Len(q) - 1
        /\ m + (i + 1) - 1 = (m + i - 1) + 1
    BY <1>1, <1>2
  <2>3. r[i] = q[m + i - 1] /\ r[i + 1] = q[(m + i - 1) + 1]
    BY <1>1, <2>2
  <2>4. QED
    BY <1>5, <2>2, <2>3 DEF Dense
<1>6. QED
  BY <1>4, <1>5 DEF r

LEMMA MergeHolds ==
  ASSUME NEW d \in Seq(Stamps), NEW n \in Seq(Stamps), NEW H \in SUBSET Stamps,
         d # <<>>, n # <<>>, Sorted(d), Sorted(n), n[1] <= d[Len(d)],
         HoldsAll(H, d), HoldsAll(H, n)
  PROVE  LET r == d \o SubSeq(n, FirstAt(n, d[Len(d)] + 1), Len(n))
         IN /\ HoldsAll(H, r)
            /\ r[Len(r)] \in {d[Len(d)], n[Len(n)]}
            /\ \A gap \in Int : Dense(gap, d) /\ Dense(gap, n) => Dense(gap, r)
<1> DEFINE last == d[Len(d)]
           k == FirstAt(n, last + 1)
           kept == SubSeq(n, k, Len(n))
           r == d \o kept
<1>1. /\ Len(d) \in 1 .. Len(d) /\ 1 \in 1 .. Len(d) /\ DOMAIN d = 1 .. Len(d)
      /\ \A i \in 1 .. Len(d) : d[i] \in Int
      /\ last \in Int /\ last + 1 \in Int
  BY StampsInt
<1>2. /\ Len(n) \in 1 .. Len(n) /\ 1 \in 1 .. Len(n) /\ DOMAIN n = 1 .. Len(n)
      /\ \A i \in 1 .. Len(n) : n[i] \in Int
      /\ n[1] <= last
  BY StampsInt
<1>3. /\ k \in 1 .. Len(n) + 1
      /\ k <= Len(n) => n[k] >= last + 1
      /\ \A j \in 1 .. k - 1 : n[j] < last + 1
  BY <1>1, FirstAtStamps
<1> HIDE DEF k, last
<1>4. CASE k = Len(n) + 1
  <2>1. kept = <<>>
    BY <1>2, <1>4, SubSeqEmpty
  <2>2. r = d
    BY <2>1, ConcatEmptySeq
  <2>3. QED
    BY <2>2 DEF last, k
<1>5. CASE k <= Len(n)
  <2>1. k \in Int /\ Len(n) \in Int /\ k >= 1 /\ Len(n) <= Len(n) /\ k \in 1 .. Len(n)
    BY <1>2, <1>3, <1>5
  <2>2. /\ kept \in Seq(Stamps) /\ Len(kept) = Len(n) - k + 1
        /\ kept[1] = n[k] /\ kept[Len(kept)] = n[Len(n)]
        /\ \A i \in 1 .. Len(kept) : kept[i] = n[k + i - 1]
    BY <1>5, <2>1, SortedStretch
  <2> HIDE DEF kept
  <2>3. Len(kept) \in 1 .. Len(kept) /\ 1 \in 1 .. Len(kept)
    BY <2>1, <2>2
  <2>4. /\ r \in Seq(Stamps) /\ Len(r) = Len(d) + Len(kept)
        /\ \A i \in 1 .. Len(d) + Len(kept) :
             r[i] = IF i <= Len(d) THEN d[i] ELSE kept[i - Len(d)]
    BY <2>2, ConcatProperties
  <2> HIDE DEF r
  <2>5. /\ DOMAIN r = 1 .. Len(r)
        /\ \A i \in 1 .. Len(d) : i \in DOMAIN r /\ r[i] = d[i]
        /\ \A i \in 1 .. Len(kept) : Len(d) + i \in DOMAIN r /\ r[Len(d) + i] = kept[i]
    <3>1. DOMAIN r = 1 .. Len(r)
      BY <2>4, StampsInt
    <3>2. ASSUME NEW i \in 1 .. Len(d)
          PROVE  i \in DOMAIN r /\ r[i] = d[i]
      BY <1>1, <2>3, <2>4, <3>1
    <3>3. ASSUME NEW i \in 1 .. Len(kept)
          PROVE  Len(d) + i \in DOMAIN r /\ r[Len(d) + i] = kept[i]
      <4>1. Len(d) + i \in 1 .. Len(d) + Len(kept) /\ ~(Len(d) + i <= Len(d))
            /\ (Len(d) + i) - Len(d) = i
        BY <1>1, <2>3
      <4>2. QED
        BY <2>4, <3>1, <4>1
    <3>4. QED
      BY <3>1, <3>2, <3>3
  <2>6. r[1] = d[1] /\ r[Len(r)] = n[Len(n)]
    BY <1>1, <2>2, <2>3, <2>4, <2>5
  <2>7. HoldsAll(H, r)
    <3>1. SUFFICES ASSUME NEW t \in H, d[1] <= t, t <= n[Len(n)]
                   PROVE  \E i \in DOMAIN r : t = r[i]
      BY <2>6 DEF HoldsAll, StampsOf
    <3>2. t \in Int
      BY ConstantsType
    <3>3. CASE t <= last
      <4>1. PICK i \in DOMAIN d : t = d[i]
        BY <3>1, <3>3 DEF HoldsAll, StampsOf, last
      <4>2. QED
        BY <1>1, <2>5, <4>1
    <3>4. CASE ~(t <= last)
      <4>1. n[1] <= t
        BY <1>1, <1>2, <3>2, <3>4
      <4>2. PICK j \in DOMAIN n : t = n[j]
        BY <3>1, <4>1 DEF HoldsAll, StampsOf
      <4>3. ~(j \in 1 .. k - 1)
        BY <1>1, <1>3, <3>2, <3>4, <4>2
      <4>4. j - k + 1 \in 1 .. Len(kept) /\ k + (j - k + 1) - 1 = j
        <5>1. j \in Int /\ k <= j /\ j <= Len(n)
          <6>1. j \in 1 .. Len(n)
            BY <1>2, <4>2
          <6>2. QED
            BY <2>1, <4>3, <6>1
        <5>2. Len(kept) = Len(n) - k + 1
          BY <2>2
        <5>3. QED
          BY <2>1, <5>1, <5>2
      <4>5. kept[j - k + 1] = t
        BY <2>2, <4>2, <4>4
      <4>6. QED
        BY <2>5, <4>4, <4>5
    <3>5. QED
      BY <3>3, <3>4
  <2>8. ASSUME NEW gap \in Int, Dense(gap, d), Dense(gap, n)
        PROVE  Dense(gap, r)
    <3>1. SUFFICES ASSUME NEW i \in 1 .. Len(r) - 1
                   PROVE  r[i + 1] - r[i] <= gap
      BY DEF Dense
    <3>2. CASE i < Len(d)
      <4>1. i \in 1 .. Len(d) - 1 /\ i \in 1 .. Len(d) /\ i + 1 \in 1 .. Len(d)
        BY <1>1, <3>2
      <4>2. QED
        BY <2>5, <2>8, <4>1 DEF Dense
    <3>3. CASE i = Len(d)
      <4>1. r[i] = last /\ r[i + 1] = n[k]
        BY <1>1, <2>2, <2>3, <2>5, <3>3 DEF last
      <4>2. k # 1
        BY <1>1, <1>2, <1>3, <1>5
      <4>3. k - 1 \in 1 .. k - 1 /\ k - 1 \in 1 .. Len(n) - 1 /\ (k - 1) + 1 = k
        BY <2>1, <4>2
      <4>4. n[k - 1] <= last
        BY <1>1, <1>2, <1>3, <4>3
      <4>5. n[k] - n[k - 1] <= gap
        BY <2>8, <4>3 DEF Dense
      <4>6. n[k] \in Int /\ n[k - 1] \in Int
        BY <1>2, <2>1, <4>3
      <4>7. QED
        BY <1>1, <4>1, <4>4, <4>5, <4>6
    <3>4. CASE i > Len(d)
      <4> DEFINE j == i - Len(d)
      <4>1. /\ j \in 1 .. Len(kept) /\ j + 1 \in 1 .. Len(kept)
            /\ Len(d) + j = i /\ Len(d) + (j + 1) = i + 1
            /\ k + j - 1 \in 1 .. Len(n) - 1 /\ k + (j + 1) - 1 = (k + j - 1) + 1
        BY <1>1, <2>1, <2>2, <2>4, <3>4, SMTT(30)
      <4> HIDE DEF j
      <4>2. r[i] = n[k + j - 1] /\ r[i + 1] = n[(k + j - 1) + 1]
        BY <2>2, <2>5, <4>1
      <4>3. QED
        BY <2>8, <4>1, <4>2 DEF Dense
    <3>5. i \in Int /\ Len(d) \in Int
      <4>1. Len(r) \in Int
        BY <1>1, <2>3, <2>4
      <4>2. QED
        BY <1>1, <4>1
    <3>6. i < Len(d) \/ i = Len(d) \/ i > Len(d)
      BY <3>5
    <3>7. QED
      BY <3>2, <3>3, <3>4, <3>6
  <2>9. QED
    BY <2>6, <2>7, <2>8 DEF r, kept, k, last
<1>6. k = Len(n) + 1 \/ k <= Len(n)
  BY <1>2, <1>3
<1>7. QED
  BY <1>4, <1>5, <1>6

(* What two groups hold, their merger holds, if the second begins within the
   first. *)
LEMMA MergedHolds ==
  ASSUME NEW d \in MeasureGroup, NEW n \in MeasureGroup, NEW H \in SUBSET Stamps,
         Bracketed(d), Bracketed(n), HoldsAll(H, d.imu), HoldsAll(H, n.imu),
         n.imu[1] <= d.scan.stamp
  PROVE  LET m == MergeDroppedImu(d, n)
         IN /\ m.scan = n.scan
            /\ HoldsAll(H, m.imu)
            /\ m.imu[Len(m.imu)] \in {d.imu[Len(d.imu)], n.imu[Len(n.imu)]}
            /\ \A gap \in Int : Dense(gap, d.imu) /\ Dense(gap, n.imu) => Dense(gap, m.imu)
<1> DEFINE imu == d.imu \o SubSeq(n.imu, FirstAt(n.imu, d.imu[Len(d.imu)] + 1), Len(n.imu))
<1>1. /\ d.imu \in Seq(Stamps) /\ n.imu \in Seq(Stamps)
      /\ d.imu # <<>> /\ n.imu # <<>> /\ Sorted(d.imu) /\ Sorted(n.imu)
  BY GroupFields DEF Bracketed, Covers
<1>2. n.imu[1] <= d.imu[Len(d.imu)]
  <2>1. /\ d.scan.stamp \in Int /\ n.imu[1] \in Int /\ d.imu[Len(d.imu)] \in Int
        /\ ScanGuard \in Nat
    <3>1. d.scan.stamp \in Int /\ n.imu[1] \in Int
      BY GroupFields
    <3>2. d.imu[Len(d.imu)] \in Int
      BY <1>1, StampsInt
    <3>3. QED
      BY <3>1, <3>2, SyncAssumption
  <2>2. d.imu[Len(d.imu)] >= d.scan.stamp + ScanGuard
    BY DEF Bracketed, Covers
  <2>3. QED
    BY <2>1, <2>2
<1>3. /\ HoldsAll(H, imu)
      /\ imu[Len(imu)] \in {d.imu[Len(d.imu)], n.imu[Len(n.imu)]}
      /\ \A gap \in Int : Dense(gap, d.imu) /\ Dense(gap, n.imu) => Dense(gap, imu)
  BY <1>1, <1>2, MergeHolds
<1>4. MergeDroppedImu(d, n) = [n EXCEPT !.imu = imu]
  BY <1>1, Zenon DEF MergeDroppedImu, Back
<1> HIDE DEF imu
<1>5. [n EXCEPT !.imu = imu].imu = imu /\ [n EXCEPT !.imu = imu].scan = n.scan
  BY DEF MeasureGroup
<1>6. QED
  BY <1>3, <1>4, <1>5, Zenon
-----------------------------------------------------------------------------
(* The queue: each group whole, and each but the first begins at or before the *)
(* scan of the one ahead.                                                      *)

QueueLinked(H, q) ==
  /\ \A i \in DOMAIN q : HoldsAll(H, q[i].imu)
  /\ \A i \in DOMAIN q : i + 1 \in DOMAIN q => q[i + 1].imu[1] <= q[i].scan.stamp

EndsBy(t, g) == g.imu[Len(g.imu)] <= t

QueueEndsBy(t, q) == \A i \in DOMAIN q : EndsBy(t, q[i])

QueueDense(gap, q) == \A i \in DOMAIN q : Dense(gap, q[i].imu)

LEMMA AppendLinked ==
  ASSUME NEW q \in Seq(MeasureGroup), NEW g \in MeasureGroup, NEW H \in SUBSET Stamps,
         QueueLinked(H, q), HoldsAll(H, g.imu),
         q # <<>> => g.imu[1] <= q[Len(q)].scan.stamp
  PROVE  LET a == Append(q, g)
         IN /\ QueueLinked(H, a)
            /\ \A t \in Int : QueueEndsBy(t, q) /\ EndsBy(t, g) => QueueEndsBy(t, a)
            /\ \A gap \in Int : QueueDense(gap, q) /\ Dense(gap, g.imu) => QueueDense(gap, a)
            /\ a[1] = IF q = <<>> THEN g ELSE q[1]
<1> DEFINE a == Append(q, g)
<1>1. /\ a \in Seq(MeasureGroup) /\ Len(a) = Len(q) + 1
      /\ \A i \in 1 .. Len(q) : a[i] = q[i]
      /\ a[Len(q) + 1] = g
  BY AppendProperties
<1> HIDE DEF a
<1>2. Len(q) \in Nat /\ DOMAIN q = 1 .. Len(q) /\ DOMAIN a = 1 .. Len(q) + 1
  BY <1>1, LenProperties
<1>3. \A i \in DOMAIN a : (i \in DOMAIN q /\ a[i] = q[i]) \/ (i = Len(q) + 1 /\ a[i] = g)
  BY <1>1, <1>2
<1>4. ASSUME NEW i \in DOMAIN a, i + 1 \in DOMAIN a
      PROVE  a[i + 1].imu[1] <= a[i].scan.stamp
  <2>1. i \in DOMAIN q /\ a[i] = q[i]
    BY <1>1, <1>2, <1>4
  <2>2. CASE i + 1 \in DOMAIN q
    <3>1. a[i + 1] = q[i + 1]
      BY <1>1, <1>2, <2>2
    <3>2. QED
      BY <2>1, <2>2, <3>1 DEF QueueLinked
  <2>3. CASE i + 1 \notin DOMAIN q
    <3>1. i = Len(q) /\ a[i + 1] = g
      BY <1>1, <1>2, <1>4, <2>1, <2>3
    <3>2. q # <<>>
      BY <2>1
    <3>3. QED
      BY <2>1, <3>1, <3>2
  <2>4. QED
    BY <2>2, <2>3
<1>5. QueueLinked(H, a)
  BY <1>3, <1>4 DEF QueueLinked
<1>6. \A t \in Int : QueueEndsBy(t, q) /\ EndsBy(t, g) => QueueEndsBy(t, a)
  BY <1>3 DEF QueueEndsBy
<1>7. \A gap \in Int : QueueDense(gap, q) /\ Dense(gap, g.imu) => QueueDense(gap, a)
  BY <1>3 DEF QueueDense
<1>8. a[1] = IF q = <<>> THEN g ELSE q[1]
  <2>1. CASE q = <<>>
    <3>1. Len(q) = 0
      BY <2>1, EmptySeq
    <3>2. QED
      BY <1>1, <2>1, <3>1
  <2>2. CASE q # <<>>
    <3>1. 1 \in 1 .. Len(q)
      BY <1>2, <2>2, EmptySeq
    <3>2. QED
      BY <1>1, <2>2, <3>1
  <2>3. QED
    BY <2>1, <2>2
<1>9. QED
  BY <1>5, <1>6, <1>7, <1>8 DEF a

(* The queue a with its first two groups merged. *)
LEMMA MergeLinked ==
  ASSUME NEW a \in Seq(MeasureGroup), NEW r \in Seq(MeasureGroup), NEW H \in SUBSET Stamps,
         QueueCovered(a), QueueLinked(H, a),
         Len(a) >= 2, Len(r) = Len(a) - 1, r[1] = MergeDroppedImu(a[1], a[2]),
         \A i \in 2 .. Len(r) : r[i] = a[i + 1]
  PROVE  /\ QueueLinked(H, r)
         /\ \A t \in Int : QueueEndsBy(t, a) => QueueEndsBy(t, r)
         /\ \A gap \in Int : QueueDense(gap, a) => QueueDense(gap, r)
         /\ r[1].imu[1] = a[1].imu[1]
         /\ r[Len(r)].scan = a[Len(a)].scan
<1>1. /\ Len(a) \in Nat /\ DOMAIN a = 1 .. Len(a) /\ DOMAIN r = 1 .. Len(r)
      /\ Len(r) \in Nat /\ 1 \in DOMAIN a /\ 2 \in DOMAIN a /\ 1 \in DOMAIN r
      /\ Len(r) \in DOMAIN r
  BY LenProperties
<1>2. /\ a[1] \in MeasureGroup /\ a[2] \in MeasureGroup
      /\ Bracketed(a[1]) /\ Bracketed(a[2])
      /\ HoldsAll(H, a[1].imu) /\ HoldsAll(H, a[2].imu)
      /\ a[1].imu[1] <= a[2].imu[1]
  BY <1>1, ElementOfSeq DEF QueueCovered, QueueLinked
<1>3. a[2].imu[1] <= a[1].scan.stamp
  <2>1. 1 + 1 \in DOMAIN a
    BY <1>1
  <2>2. a[1 + 1].imu[1] <= a[1].scan.stamp
    BY <1>1, <2>1 DEF QueueLinked
  <2>3. QED
    BY <2>2
<1>4. /\ r[1].scan = a[2].scan
      /\ HoldsAll(H, r[1].imu)
      /\ r[1].imu[Len(r[1].imu)] \in {a[1].imu[Len(a[1].imu)], a[2].imu[Len(a[2].imu)]}
      /\ \A gap \in Int : Dense(gap, a[1].imu) /\ Dense(gap, a[2].imu) => Dense(gap, r[1].imu)
  BY <1>2, <1>3, MergedHolds, ZenonT(30)
<1>5. r[1].imu[1] = a[1].imu[1]
  BY <1>2, MergedBracketed
<1>6. ASSUME NEW i \in DOMAIN r
      PROVE  i + 1 \in DOMAIN a /\ (i = 1 \/ (i # 1 /\ r[i] = a[i + 1]))
  BY <1>1
<1>7. \A i \in DOMAIN r : i + 1 \in DOMAIN a /\ r[i].scan = a[i + 1].scan
  <2>1. r[1].scan = a[1 + 1].scan
    BY <1>4
  <2>2. QED
    BY <1>6, <2>1
<1>8. \A i \in DOMAIN r : HoldsAll(H, r[i].imu)
  BY <1>4, <1>6 DEF QueueLinked
<1>9. ASSUME NEW i \in DOMAIN r, i + 1 \in DOMAIN r
      PROVE  r[i + 1].imu[1] <= r[i].scan.stamp
  <2>1. r[i + 1] = a[(i + 1) + 1] /\ i + 1 \in DOMAIN a /\ (i + 1) + 1 \in DOMAIN a
    BY <1>1, <1>6, <1>9
  <2>2. a[(i + 1) + 1].imu[1] <= a[i + 1].scan.stamp
    BY <2>1 DEF QueueLinked
  <2>3. QED
    BY <1>7, <2>1, <2>2
<1>10. ASSUME NEW t \in Int, QueueEndsBy(t, a)
       PROVE  QueueEndsBy(t, r)
  <2>1. EndsBy(t, r[1])
    BY <1>1, <1>4, <1>10 DEF QueueEndsBy, EndsBy
  <2>2. QED
    BY <1>6, <1>10, <2>1 DEF QueueEndsBy
<1>11. ASSUME NEW gap \in Int, QueueDense(gap, a)
       PROVE  QueueDense(gap, r)
  <2>1. Dense(gap, r[1].imu)
    BY <1>1, <1>4, <1>11 DEF QueueDense
  <2>2. QED
    BY <1>6, <1>11, <2>1 DEF QueueDense
<1>12. r[Len(r)].scan = a[Len(a)].scan
  BY <1>1, <1>7
<1>13. QED
  BY <1>5, <1>8, <1>9, <1>10, <1>11, <1>12 DEF QueueLinked

LEMMA EnqueuedLinked ==
  ASSUME NEW q \in Seq(MeasureGroup), Len(q) <= MaxQueue, NEW g \in MeasureGroup,
         NEW H \in SUBSET Stamps,
         QueueCovered(q), Bracketed(g), HeadsUpTo(q, g.imu[1]),
         QueueLinked(H, q), HoldsAll(H, g.imu),
         q # <<>> => g.imu[1] <= q[Len(q)].scan.stamp
  PROVE  LET r == Enqueued(q, g)
         IN /\ r # <<>>
            /\ QueueLinked(H, r)
            /\ \A t \in Int : QueueEndsBy(t, q) /\ EndsBy(t, g) => QueueEndsBy(t, r)
            /\ \A gap \in Int : QueueDense(gap, q) /\ Dense(gap, g.imu) => QueueDense(gap, r)
            /\ r[1].imu[1] = IF q = <<>> THEN g.imu[1] ELSE q[1].imu[1]
            /\ r[Len(r)].scan = g.scan
<1> DEFINE a == Append(q, g)
           r == Enqueued(q, g)
<1>1. /\ a \in Seq(MeasureGroup) /\ Len(a) = Len(q) + 1
      /\ a[Len(q) + 1] = g
      /\ \/ r = a
         \/ /\ Len(a) >= 2 /\ Len(r) = Len(a) - 1
            /\ r[1] = MergeDroppedImu(a[1], a[2])
            /\ \A i \in 2 .. Len(r) : r[i] = a[i + 1]
  BY EnqueuedIs
<1>2. r \in Seq(MeasureGroup)
  BY EnqueuedType
<1>3. QueueCovered(a)
  BY AppendCovered
<1>4. /\ QueueLinked(H, a)
      /\ \A t \in Int : QueueEndsBy(t, q) /\ EndsBy(t, g) => QueueEndsBy(t, a)
      /\ \A gap \in Int : QueueDense(gap, q) /\ Dense(gap, g.imu) => QueueDense(gap, a)
      /\ a[1] = IF q = <<>> THEN g ELSE q[1]
  BY AppendLinked
<1> HIDE DEF a, r
<1>5. CASE r = a
  <2>1. r # <<>>
    <3>1. Len(r) >= 1
      BY <1>1, <1>5, LenProperties
    <3>2. QED
      BY <3>1, EmptySeq
  <2>2. r[Len(r)].scan = g.scan
    BY <1>1, <1>5
  <2>3. r[1].imu[1] = IF q = <<>> THEN g.imu[1] ELSE q[1].imu[1]
    BY <1>4, <1>5
  <2>4. QED
    BY <1>4, <1>5, <2>1, <2>2, <2>3 DEF r
<1>6. CASE /\ Len(a) >= 2 /\ Len(r) = Len(a) - 1
           /\ r[1] = MergeDroppedImu(a[1], a[2])
           /\ \A i \in 2 .. Len(r) : r[i] = a[i + 1]
  <2>1. /\ QueueLinked(H, r)
        /\ \A t \in Int : QueueEndsBy(t, a) => QueueEndsBy(t, r)
        /\ \A gap \in Int : QueueDense(gap, a) => QueueDense(gap, r)
        /\ r[1].imu[1] = a[1].imu[1]
        /\ r[Len(r)].scan = a[Len(a)].scan
    BY <1>1, <1>2, <1>3, <1>4, <1>6, MergeLinked
  <2>2. r # <<>>
    <3>1. Len(r) >= 1
      BY <1>1, <1>6, LenProperties
    <3>2. QED
      BY <3>1, EmptySeq
  <2>3. r[Len(r)].scan = g.scan
    BY <1>1, <2>1
  <2>4. r[1].imu[1] = IF q = <<>> THEN g.imu[1] ELSE q[1].imu[1]
    BY <1>4, <2>1
  <2>5. QED
    BY <1>4, <2>1, <2>2, <2>3, <2>4 DEF r
<1>7. QED
  BY <1>1, <1>5, <1>6

(* One more sample heard, no earlier than those of a stretch. *)
LEMMA HeardMore ==
  ASSUME NEW q \in Seq(Stamps), q # <<>>, NEW H \in SUBSET Stamps, NEW t \in Stamps,
         HoldsAll(H, q), q[Len(q)] <= t
  PROVE  HoldsAll(H \cup {t}, q)
<1>1. SUFFICES ASSUME NEW u \in H \cup {t}, q[1] <= u, u <= q[Len(q)]
               PROVE  u \in StampsOf(q)
  BY DEF HoldsAll
<1>2. CASE u \in H
  BY <1>1, <1>2 DEF HoldsAll
<1>3. CASE u = t
  <2>1. Len(q) \in DOMAIN q /\ q[Len(q)] \in Int /\ t \in Int
    BY StampsInt, ConstantsType
  <2>2. t = q[Len(q)]
    BY <1>1, <1>3, <2>1
  <2>3. QED
    BY <1>3, <2>1, <2>2 DEF StampsOf
<1>4. QED
  BY <1>1, <1>2, <1>3

LEMMA PushedHolds ==
  ASSUME NEW q \in Seq(Stamps), NEW H \in SUBSET Stamps, NEW t \in Stamps,
         q # <<>> => HoldsAll(H, q) /\ \A u \in H : u <= q[Len(q)],
         q = <<>> => H = {},
         \A i \in DOMAIN q : q[i] <= t
  PROVE  LET r == Append(q, t)
         IN /\ HoldsAll(H \cup {t}, r)
            /\ \A u \in H \cup {t} : u <= r[Len(r)]
            /\ r[Len(r)] = t
            /\ r[1] = IF q = <<>> THEN t ELSE q[1]
            /\ \A gap \in Int : Dense(gap, q) /\ (q # <<>> => t - q[Len(q)] <= gap)
                                  => Dense(gap, r)
<1> DEFINE r == Append(q, t)
<1>1. /\ r \in Seq(Stamps) /\ Len(r) = Len(q) + 1
      /\ \A i \in 1 .. Len(q) : r[i] = q[i]
      /\ r[Len(q) + 1] = t
  BY AppendProperties
<1> HIDE DEF r
<1>2. /\ Len(q) \in Nat /\ DOMAIN q = 1 .. Len(q) /\ DOMAIN r = 1 .. Len(q) + 1
      /\ t \in Int /\ (\A u \in H : u \in Int)
      /\ \A i \in 1 .. Len(q) : q[i] \in Int
  <2>1. Len(q) \in Nat /\ DOMAIN q = 1 .. Len(q) /\ DOMAIN r = 1 .. Len(q) + 1
    BY <1>1, LenProperties
  <2>2. t \in Int /\ \A u \in H : u \in Int
    BY ConstantsType
  <2>3. QED
    BY <2>1, <2>2, StampsInt
<1>3. q # <<>> => /\ 1 \in 1 .. Len(q) /\ Len(q) \in 1 .. Len(q)
                  /\ q[Len(q)] \in Int /\ q[Len(q)] <= t
  BY <1>2, StampsInt
<1>4. r[Len(r)] = t
  BY <1>1
<1>5. r[1] = IF q = <<>> THEN t ELSE q[1]
  <2>1. CASE q = <<>>
    <3>1. Len(q) = 0
      BY <2>1, EmptySeq
    <3>2. QED
      BY <1>1, <2>1, <3>1
  <2>2. CASE q # <<>>
    BY <1>1, <1>3, <2>2
  <2>3. QED
    BY <2>1, <2>2
<1>6. \A u \in H \cup {t} : u <= r[Len(r)]
  <2>1. ASSUME NEW u \in H
        PROVE  u <= t
    <3>1. q # <<>>
      BY <2>1
    <3>2. u <= q[Len(q)]
      BY <2>1, <3>1
    <3>3. QED
      BY <1>2, <1>3, <3>1, <3>2
  <2>2. QED
    BY <1>2, <1>4, <2>1
<1>7. HoldsAll(H \cup {t}, r)
  <2>1. SUFFICES ASSUME NEW u \in H \cup {t}, r[1] <= u
                 PROVE  u \in StampsOf(r)
    BY DEF HoldsAll
  <2>2. CASE u = t
    BY <1>1, <1>2, <2>2 DEF StampsOf
  <2>3. CASE u \in H
    <3>1. q # <<>>
      BY <2>3
    <3>2. u \in StampsOf(q)
      BY <1>5, <2>1, <2>3, <3>1 DEF HoldsAll
    <3>3. QED
      BY <1>1, <1>2, <3>2 DEF StampsOf
  <2>4. QED
    BY <2>1, <2>2, <2>3
<1>8. ASSUME NEW gap \in Int, Dense(gap, q), q # <<>> => t - q[Len(q)] <= gap
      PROVE  Dense(gap, r)
  <2>1. SUFFICES ASSUME NEW i \in 1 .. Len(r) - 1
                 PROVE  r[i + 1] - r[i] <= gap
    BY DEF Dense
  <2>2. i \in 1 .. Len(q)
    BY <1>1, <1>2
  <2>3. CASE i = Len(q)
    <3>1. r[i + 1] = t /\ r[i] = q[Len(q)]
      BY <1>1, <2>2, <2>3
    <3>2. q # <<>>
      BY <2>2, <2>3
    <3>3. QED
      BY <1>8, <3>1, <3>2
  <2>4. CASE i # Len(q)
    <3>1. i \in 1 .. Len(q) - 1 /\ i + 1 \in 1 .. Len(q)
      <4>1. Len(q) \in Nat
        BY <1>2
      <4>2. QED
        BY <2>2, <2>4, <4>1
    <3>2. r[i + 1] = q[i + 1] /\ r[i] = q[i]
      BY <1>1, <2>2, <3>1
    <3>3. QED
      BY <1>8, <3>1, <3>2 DEF Dense
  <2>5. QED
    BY <2>3, <2>4
<1>9. QED
  BY <1>4, <1>5, <1>6, <1>7, <1>8 DEF r

(* What a release takes and what it leaves. *)
LEMMA ReleasedHolds ==
  ASSUME NEW s \in SyncState, Sorted(s.imu), Releases(s), NEW H \in SUBSET Stamps,
         HoldsAll(H, s.imu)
  PROVE  LET g == Group(s)
             left == Released(s).imu
         IN /\ HoldsAll(H, g.imu) /\ HoldsAll(H, left)
            /\ EndsBy(s.imu[Len(s.imu)], g)
            /\ g.scan = Head(s.lidar)
            /\ left[1] <= g.scan.stamp
            /\ \E i \in DOMAIN s.imu : left[1] = s.imu[i]
            /\ \A gap \in Int : Dense(gap, s.imu) => Dense(gap, g.imu) /\ Dense(gap, left)
<1> DEFINE q == s.imu
           t == ScanStamp(s)
           m == FirstAt(q, t + 1) - 1
           k == FirstAt(q, t + ScanGuard)
<1>1. q \in Seq(Stamps) /\ q # <<>> /\ s.lidar # <<>>
  BY DEF SyncState, Releases
<1>2. t \in Int /\ t + 1 \in Int /\ t + ScanGuard \in Int
  <2>1. t \in Int
    BY <1>1, HeadStamp DEF ScanStamp
  <2>2. ScanGuard \in Nat
    BY SyncAssumption
  <2> HIDE DEF t
  <2>3. QED
    BY <2>1, <2>2
<1>3. /\ 1 \in 1 .. Len(q) /\ Len(q) \in 1 .. Len(q) /\ DOMAIN q = 1 .. Len(q)
      /\ \A i \in 1 .. Len(q) : q[i] \in Int
  BY <1>1, StampsInt
<1>4. q[1] <= t /\ q[Len(q)] >= t + ScanGuard
  <2>1. Head(q) = q[1] /\ Back(q) = q[Len(q)]
    BY <1>1 DEF Back
  <2>2. QED
    BY <2>1, Zenon DEF Releases, GuardedEnd
<1>5. /\ Group(s) = [scan |-> Head(s.lidar), imu |-> SubSeq(q, 1, k)]
      /\ Released(s).imu = SubSeq(q, m, Len(q))
      /\ Head(s.lidar).stamp = t
  BY DEF Group, Released, GuardedEnd, ScanStamp, SyncState
<1>6. /\ k \in 1 .. Len(q) + 1
      /\ \A j \in 1 .. k - 1 : q[j] < t + ScanGuard
  BY <1>1, <1>2, FirstAtStamps
<1>7. /\ m \in Int /\ m + 1 \in 1 .. Len(q) + 1
      /\ m + 1 <= Len(q) => q[m + 1] >= t + 1
      /\ \A j \in 1 .. m : q[j] < t + 1
  <2> DEFINE n == FirstAt(q, t + 1)
  <2>1. /\ n \in 1 .. Len(q) + 1
        /\ n <= Len(q) => q[n] >= t + 1
        /\ \A j \in 1 .. n - 1 : q[j] < t + 1
    BY <1>1, <1>2, FirstAtStamps
  <2> HIDE DEF n
  <2>2. (n - 1) + 1 = n /\ n - 1 \in Int
    BY <2>1
  <2>3. QED
    BY <2>1, <2>2 DEF n
<1> HIDE DEF k, m, t, q
<1>8. k \in 1 .. Len(q)
  <2>1. k # Len(q) + 1
    BY <1>2, <1>3, <1>4, <1>6
  <2>2. QED
    BY <1>3, <1>6, <2>1
<1>9. m \in 1 .. Len(q) /\ m \in Int
  <2>1. m # 0
    <3>1. CASE m = 0
      <4>1. m + 1 = 1
        BY <3>1
      <4>2. q[1] >= t + 1
        BY <1>3, <1>7, <4>1
      <4>3. QED
        BY <1>2, <1>3, <1>4, <4>2
    <3>2. QED
      BY <3>1
  <2>2. Len(q) \in Int
    BY <1>3
  <2>3. QED
    BY <1>7, <2>1, <2>2
<1>10. /\ HoldsAll(H, SubSeq(q, 1, k))
       /\ \A gap \in Int : Dense(gap, q) => Dense(gap, SubSeq(q, 1, k))
       /\ SubSeq(q, 1, k)[Len(SubSeq(q, 1, k))] = q[k]
  <2>1. k \in Int /\ 1 <= k /\ k <= Len(q)
    BY <1>8
  <2>2. q \in Seq(Stamps) /\ Sorted(q) /\ HoldsAll(H, q) /\ 1 \in Int /\ 1 >= 1
    BY <1>1 DEF q
  <2>3. QED
    BY <2>1, <2>2, StretchHolds, SortedStretch
<1>11. /\ HoldsAll(H, SubSeq(q, m, Len(q)))
       /\ \A gap \in Int : Dense(gap, q) => Dense(gap, SubSeq(q, m, Len(q)))
       /\ SubSeq(q, m, Len(q))[1] = q[m]
  <2>1. Len(q) \in Int /\ 1 <= m /\ m <= Len(q)
    BY <1>3, <1>9
  <2>2. q \in Seq(Stamps) /\ Sorted(q) /\ HoldsAll(H, q) /\ Len(q) <= Len(q)
    BY <1>1, <2>1 DEF q
  <2>3. QED
    BY <1>9, <2>1, <2>2, StretchHolds, SortedStretch
<1>12. q[k] <= q[Len(q)]
  BY <1>3, <1>8 DEF Sorted, q
<1>13. q[m] <= t
  <2>1. m \in 1 .. m
    BY <1>9
  <2>2. q[m] < t + 1
    BY <1>7, <2>1
  <2>3. QED
    BY <1>2, <1>3, <1>9, <2>2
<1> DEFINE g == Group(s)
           left == Released(s).imu
<1>14. g.imu = SubSeq(q, 1, k) /\ g.scan = Head(s.lidar) /\ left = SubSeq(q, m, Len(q))
  <2>1. left = SubSeq(q, m, Len(q))
    BY <1>5, Zenon
  <2>2. g = [scan |-> Head(s.lidar), imu |-> SubSeq(q, 1, k)]
    BY <1>5, Zenon
  <2> HIDE DEF g, left
  <2>3. QED
    BY <2>1, <2>2
<1>15. g.scan.stamp = t
  BY <1>5
<1> HIDE DEF g, left
<1>16. /\ HoldsAll(H, g.imu) /\ HoldsAll(H, left)
       /\ \A gap \in Int : Dense(gap, q) => Dense(gap, g.imu) /\ Dense(gap, left)
  BY <1>10, <1>11, <1>14
<1>17. EndsBy(q[Len(q)], g)
  BY <1>10, <1>12, <1>14 DEF EndsBy
<1>18. left[1] <= g.scan.stamp /\ \E i \in DOMAIN q : left[1] = q[i]
  BY <1>3, <1>9, <1>11, <1>13, <1>14, <1>15
<1>19. QED
  BY <1>14, <1>16, <1>17, <1>18 DEF g, left, q
-----------------------------------------------------------------------------
(* The inductive invariant of NoImuLost: what is buffered, queued and in the   *)
(* worker's hands holds every sample heard, and each begins within the one     *)
(* before it.  For it says of one step what the worker sees at its next take,  *)
(* after any number of messages, drops and merges.                             *)

Newest == sync.imu[Len(sync.imu)]

(* The buffer holds what was heard of its stretch, and nothing heard is newer.
   Without a buffered sample, none was heard and no scan of this world taken. *)
BufferWhole ==
  /\ sync.imu # <<>> => HoldsAll(heard, sync.imu) /\ \A t \in heard : t <= Newest
  /\ sync.imu = <<>> /\ cb # "reset" => heard = {} /\ ~Current
  /\ meas.scan.world <= world

(* So does every group, the one last taken included. *)
HandoffWhole ==
  /\ QueueLinked(heard, queue)
  /\ sync.imu # <<>> => QueueEndsBy(Newest, queue)
  /\ Current => /\ Bracketed(meas) /\ HoldsAll(heard, meas.imu)
                /\ sync.imu # <<>> => EndsBy(Newest, meas)
                /\ queue # <<>> => queue[1].imu[1] <= meas.scan.stamp

(* The buffer begins at or before the last scan released. *)
LastReaches ==
  sync.imu # <<>> =>
    /\ queue # <<>> => sync.imu[1] <= queue[Len(queue)].scan.stamp
    /\ Current /\ queue = <<>> => sync.imu[1] <= meas.scan.stamp

ChainInv == BufferWhole /\ HandoffWhole /\ LastReaches

LEMMA InitChain == Init => ChainInv
<1> SUFFICES ASSUME Init PROVE ChainInv
  OBVIOUS
<1>1. /\ sync.imu = <<>> /\ queue = <<>> /\ heard = {} /\ meas.scan.world = 0 /\ world = 1
  BY DEF Init, Cleared, NoGroup, NoWorld
<1>2. \A i \in DOMAIN queue : FALSE
  BY <1>1
<1>3. ~Current /\ meas.scan.world <= world
  BY <1>1 DEF Current
<1>4. BufferWhole
  BY <1>1, <1>3 DEF BufferWhole
<1>5. HandoffWhole
  BY <1>1, <1>2, <1>3 DEF HandoffWhole, QueueLinked
<1>6. LastReaches
  BY <1>1 DEF LastReaches
<1>7. QED
  BY <1>4, <1>5, <1>6 DEF ChainInv

(* A step that leaves the queue and the IMU buffer alone, or empties the buffer
   on its way to a reset. *)
LEMMA KeptChain ==
  ASSUME ChainInv, UNCHANGED <<queue, meas, heard, world>>,
         sync'.imu = sync.imu \/ (sync'.imu = <<>> /\ cb' = "reset"),
         cb = "reset" => cb' = "reset"
  PROVE  ChainInv'
<1>1. Current' = Current
  BY DEF Current
<1>2. CASE sync'.imu = sync.imu
  <2>1. Newest' = Newest
    BY <1>2 DEF Newest
  <2>2. BufferWhole'
    BY <1>1, <1>2, <2>1 DEF ChainInv, BufferWhole
  <2>3. HandoffWhole'
    BY <1>1, <1>2, <2>1 DEF ChainInv, HandoffWhole
  <2>4. LastReaches'
    BY <1>1, <1>2 DEF ChainInv, LastReaches
  <2>5. QED
    BY <2>2, <2>3, <2>4 DEF ChainInv
<1>3. CASE sync'.imu = <<>> /\ cb' = "reset"
  <2>1. BufferWhole'
    BY <1>3 DEF ChainInv, BufferWhole
  <2>2. HandoffWhole'
    BY <1>1, <1>3 DEF ChainInv, HandoffWhole
  <2>3. LastReaches'
    BY <1>3 DEF LastReaches
  <2>4. QED
    BY <2>1, <2>2, <2>3 DEF ChainInv
<1>4. QED
  BY <1>2, <1>3

LEMMA PushChain ==
  ASSUME OrderInv, ChainInv, AcceptImu
  PROVE  ChainInv'
<1> DEFINE q == sync.imu
           t == msg.stamp
           r == Append(q, t)
<1>1. /\ cb = "accept" /\ msg.kind = "imu" /\ initialized
      /\ heard' = heard \cup {t} /\ UNCHANGED <<queue, meas, world>>
      /\ sync' = PushedImu(sync, t)
  BY DEF AcceptImu, handOff, workerVars
<1>2. /\ sync \in SyncState /\ q \in Seq(Stamps) /\ heard \in SUBSET Stamps
      /\ t \in Stamps /\ queue \in Seq(MeasureGroup) /\ meas \in MeasureGroup
  BY <1>1 DEF OrderInv, TypeOK, SyncState
<1>3. sync'.imu = r
  BY <1>1, <1>2 DEF PushedImu, SyncState
<1>4. /\ \A i \in DOMAIN q : q[i] <= t
      /\ q = <<>> => queue = <<>>
  BY <1>1 DEF OrderInv, BufferInOrder, QueueInOrder
<1>5. /\ q # <<>> => HoldsAll(heard, q) /\ \A u \in heard : u <= q[Len(q)]
      /\ q = <<>> => heard = {} /\ ~Current
      /\ meas.scan.world <= world
  BY <1>1 DEF ChainInv, BufferWhole, Newest
<1>6. /\ HoldsAll(heard', r)
      /\ \A u \in heard' : u <= r[Len(r)]
      /\ r[Len(r)] = t /\ r[1] = IF q = <<>> THEN t ELSE q[1]
  <2>1. /\ q # <<>> => HoldsAll(heard, q) /\ \A u \in heard : u <= q[Len(q)]
        /\ q = <<>> => heard = {}
        /\ \A i \in DOMAIN q : q[i] <= t
    BY <1>4, <1>5
  <2>2. /\ HoldsAll(heard \cup {t}, r)
        /\ \A u \in heard \cup {t} : u <= r[Len(r)]
        /\ r[Len(r)] = t /\ r[1] = IF q = <<>> THEN t ELSE q[1]
    BY <1>2, <2>1, PushedHolds, ZenonT(30)
  <2> HIDE DEF r
  <2>3. QED
    BY <1>1, <2>2
<1>7. r # <<>> /\ r \in Seq(Stamps)
  BY <1>2, AppendProperties
<1> HIDE DEF r
<1>8. Newest' = t
  BY <1>3, <1>6 DEF Newest
<1>9. Current' = Current
  BY <1>1 DEF Current
<1>10. BufferWhole'
  <2>1. HoldsAll(heard', sync'.imu)
    BY <1>3, <1>6
  <2>2. \A u \in heard' : u <= Newest'
    BY <1>6, <1>8
  <2>3. QED
    BY <1>1, <1>3, <1>5, <1>7, <2>1, <2>2 DEF BufferWhole
<1>11. CASE q = <<>>
  <2>1. queue = <<>> /\ ~Current /\ \A i \in DOMAIN queue : FALSE
    BY <1>4, <1>5, <1>11
  <2>2. HandoffWhole'
    BY <1>1, <1>9, <2>1 DEF HandoffWhole, QueueLinked, QueueEndsBy
  <2>3. LastReaches'
    BY <1>1, <1>9, <2>1 DEF LastReaches
  <2>4. QED
    BY <1>10, <2>2, <2>3 DEF ChainInv
<1>12. CASE q # <<>>
  <2>1. /\ Newest = q[Len(q)] /\ Newest \in Int /\ t \in Int /\ Newest <= t
    BY <1>2, <1>4, <1>12, StampsInt, ConstantsType DEF Newest
  <2>2. ASSUME NEW g \in MeasureGroup, Bracketed(g), HoldsAll(heard, g.imu), EndsBy(Newest, g)
        PROVE  HoldsAll(heard', g.imu) /\ EndsBy(t, g)
    <3>1. g.imu \in Seq(Stamps) /\ g.imu # <<>> /\ g.imu[Len(g.imu)] \in Int
      BY <2>2, GroupFields, StampsInt DEF Bracketed, Covers
    <3>2. g.imu[Len(g.imu)] <= t
      BY <2>1, <2>2, <3>1 DEF EndsBy
    <3>3. QED
      BY <1>1, <1>2, <2>2, <3>1, <3>2, HeardMore DEF EndsBy
  <2>3. QueueLinked(heard', queue) /\ QueueEndsBy(t, queue)
    <3>1. ASSUME NEW i \in DOMAIN queue
          PROVE  HoldsAll(heard', queue[i].imu) /\ EndsBy(t, queue[i])
      <4>1. queue[i] \in MeasureGroup
        BY <1>2, LenProperties, ElementOfSeq
      <4>2. Bracketed(queue[i])
        BY DEF OrderInv, QueueInOrder, QueueCovered
      <4>3. HoldsAll(heard, queue[i].imu) /\ EndsBy(Newest, queue[i])
        BY <1>12 DEF ChainInv, HandoffWhole, QueueLinked, QueueEndsBy
      <4>4. QED
        BY <2>2, <4>1, <4>2, <4>3
    <3>2. \A i \in DOMAIN queue : i + 1 \in DOMAIN queue
                                    => queue[i + 1].imu[1] <= queue[i].scan.stamp
      BY DEF ChainInv, HandoffWhole, QueueLinked
    <3>3. QED
      BY <3>1, <3>2 DEF QueueLinked, QueueEndsBy
  <2>4. Current => /\ Bracketed(meas) /\ HoldsAll(heard', meas.imu) /\ EndsBy(t, meas)
                   /\ queue # <<>> => queue[1].imu[1] <= meas.scan.stamp
    BY <1>2, <1>12, <2>2 DEF ChainInv, HandoffWhole
  <2>5. HandoffWhole'
    <3>1. QueueLinked(heard, queue)'
      BY <1>1, <2>3
    <3>2. QueueEndsBy(Newest, queue)'
      BY <1>1, <1>8, <2>3
    <3>3. QED
      BY <1>1, <1>8, <1>9, <2>4, <3>1, <3>2 DEF HandoffWhole
  <2>6. LastReaches'
    BY <1>1, <1>3, <1>6, <1>9, <1>12 DEF ChainInv, LastReaches
  <2>7. QED
    BY <1>10, <2>5, <2>6 DEF ChainInv
<1>13. QED
  BY <1>11, <1>12

LEMMA ReleaseChain ==
  ASSUME OrderInv, ChainInv, ReleaseScan
  PROVE  ChainInv'
<1> DEFINE q == sync.imu
           g == Group(sync)
           left == Released(sync).imu
           r == Enqueued(queue, g)
<1>1. /\ Releases(sync) /\ sync'.imu = left /\ queue' = r
      /\ UNCHANGED <<meas, heard, world>>
  BY DEF ReleaseScan, Enqueues
<1>2. /\ sync \in SyncState /\ q \in Seq(Stamps) /\ Sorted(q) /\ heard \in SUBSET Stamps
      /\ queue \in Seq(MeasureGroup) /\ Len(queue) <= MaxQueue
  BY DEF OrderInv, TypeOK, SyncState, BufferInOrder
<1>3. q # <<>>
  BY <1>1 DEF Releases
<1>4. /\ Bracketed(g) /\ g.imu[1] = q[1]
      /\ left # <<>> /\ left[Len(left)] = q[Len(q)]
  BY <1>1, <1>2, ReleasedCovered
<1>5. HoldsAll(heard, q) /\ (\A t \in heard : t <= Newest) /\ meas.scan.world <= world
  BY <1>3 DEF ChainInv, BufferWhole
<1>6. /\ HoldsAll(heard, g.imu) /\ HoldsAll(heard, left)
      /\ EndsBy(q[Len(q)], g)
      /\ left[1] <= g.scan.stamp
  BY <1>1, <1>2, <1>5, ReleasedHolds
<1>7. g \in MeasureGroup
  BY <1>1, <1>2, HeadStamp, ReleasedType DEF Releases
<1>8. HeadsUpTo(queue, g.imu[1]) /\ QueueCovered(queue)
  <2>1. 1 \in DOMAIN q
    BY <1>2, <1>3, StampsInt
  <2>2. QED
    BY <1>4, <2>1 DEF OrderInv, QueueInOrder
<1>9. /\ QueueLinked(heard, queue) /\ QueueEndsBy(Newest, queue)
      /\ queue # <<>> => g.imu[1] <= queue[Len(queue)].scan.stamp
  BY <1>3, <1>4 DEF ChainInv, HandoffWhole, LastReaches
<1>10. Newest = q[Len(q)] /\ Newest \in Int
  BY <1>2, <1>3, StampsInt DEF Newest
<1>11. /\ r # <<>> /\ QueueLinked(heard, r) /\ QueueEndsBy(Newest, r)
       /\ r[1].imu[1] = IF queue = <<>> THEN g.imu[1] ELSE queue[1].imu[1]
       /\ r[Len(r)].scan = g.scan
  BY <1>2, <1>4, <1>6, <1>7, <1>8, <1>9, <1>10, EnqueuedLinked
<1> HIDE DEF g, left, r
<1>12. Newest' = Newest /\ Current' = Current
  BY <1>1, <1>4, <1>10 DEF Newest, Current
<1>13. BufferWhole'
  BY <1>1, <1>4, <1>5, <1>6, <1>12 DEF BufferWhole
<1>14. HandoffWhole'
  <2>1. QueueLinked(heard, queue)' /\ QueueEndsBy(Newest, queue)'
    BY <1>1, <1>11, <1>12
  <2>2. Current => /\ Bracketed(meas) /\ HoldsAll(heard, meas.imu) /\ EndsBy(Newest, meas)
                   /\ r[1].imu[1] <= meas.scan.stamp
    BY <1>3, <1>4, <1>11 DEF ChainInv, HandoffWhole, LastReaches
  <2>3. QED
    BY <1>1, <1>12, <2>1, <2>2 DEF HandoffWhole
<1>15. LastReaches'
  BY <1>1, <1>6, <1>11 DEF LastReaches
<1>16. QED
  BY <1>13, <1>14, <1>15 DEF ChainInv

LEMMA TakeChain ==
  ASSUME OrderInv, BufferedOfWorld, ChainInv, TakeScan
  PROVE  ChainInv'
<1> DEFINE r == Tail(queue)
<1>1. /\ queue # <<>> /\ meas' = Head(queue) /\ queue' = r
      /\ UNCHANGED <<sync, cb, heard, world>>
  BY DEF TakeScan, cbVars
<1>2. queue \in Seq(MeasureGroup) /\ QueueCovered(queue) /\ world \in Nat
  BY DEF OrderInv, TypeOK, QueueInOrder
<1>3. /\ Head(queue) = queue[1] /\ 1 \in DOMAIN queue
      /\ Len(queue) \in Nat /\ DOMAIN queue = 1 .. Len(queue)
      /\ DOMAIN r = 1 .. Len(r) /\ Len(r) = Len(queue) - 1
      /\ \A j \in DOMAIN r : j + 1 \in DOMAIN queue /\ r[j] = queue[j + 1]
  <2>1. /\ r \in Seq(MeasureGroup) /\ Len(r) = Len(queue) - 1
        /\ \A i \in 1 .. Len(r) : r[i] = queue[i + 1]
    BY <1>1, <1>2, HeadTailProperties
  <2>2. Len(queue) >= 1 /\ Head(queue) = queue[1]
    BY <1>1, <1>2, EmptySeq
  <2> HIDE DEF r
  <2>3. DOMAIN r = 1 .. Len(r) /\ Len(queue) \in Nat /\ DOMAIN queue = 1 .. Len(queue)
    BY <1>2, <2>1, LenProperties
  <2>4. QED
    BY <2>1, <2>2, <2>3
<1> HIDE DEF r
<1>4. sync.imu = <<>> => cb = "reset"
  BY <1>1 DEF OrderInv, QueueInOrder
<1>5. meas'.scan.world = world /\ Current'
  BY <1>1, <1>3 DEF BufferedOfWorld, Current
<1>6. Newest' = Newest
  BY <1>1 DEF Newest
<1>7. BufferWhole'
  BY <1>1, <1>2, <1>4, <1>5, <1>6 DEF ChainInv, BufferWhole
<1>8. r # <<>> => /\ 1 \in DOMAIN r /\ r[1] = queue[2] /\ 1 + 1 \in DOMAIN queue
                  /\ r[Len(r)] = queue[Len(queue)]
  <2>1. SUFFICES ASSUME r # <<>>
                 PROVE  /\ 1 \in DOMAIN r /\ r[1] = queue[2] /\ 1 + 1 \in DOMAIN queue
                        /\ r[Len(r)] = queue[Len(queue)]
    OBVIOUS
  <2>2. r \in Seq(MeasureGroup)
    BY <1>1, <1>2, HeadTailProperties DEF r
  <2>3. Len(r) \in Nat /\ Len(r) >= 1
    BY <2>1, <2>2, EmptySeq, LenProperties
  <2>4. 1 \in DOMAIN r /\ Len(r) \in DOMAIN r
    BY <1>3, <2>3
  <2>5. r[1] = queue[1 + 1] /\ r[Len(r)] = queue[Len(r) + 1] /\ 1 + 1 \in DOMAIN queue
    BY <1>3, <2>4
  <2>6. Len(r) + 1 = Len(queue) /\ 1 + 1 = 2
    BY <1>3
  <2>7. QED
    BY <2>4, <2>5, <2>6
<1>9. HandoffWhole'
  <2>1. QueueLinked(heard, r)
    <3>1. \A j \in DOMAIN r : HoldsAll(heard, r[j].imu)
      BY <1>3 DEF ChainInv, HandoffWhole, QueueLinked
    <3>2. ASSUME NEW j \in DOMAIN r, j + 1 \in DOMAIN r
          PROVE  r[j + 1].imu[1] <= r[j].scan.stamp
      <4>1. /\ r[j] = queue[j + 1] /\ r[j + 1] = queue[(j + 1) + 1]
            /\ j + 1 \in DOMAIN queue /\ (j + 1) + 1 \in DOMAIN queue
        BY <1>3, <3>2
      <4>2. queue[(j + 1) + 1].imu[1] <= queue[j + 1].scan.stamp
        BY <4>1 DEF ChainInv, HandoffWhole, QueueLinked
      <4>3. QED
        BY <4>1, <4>2
    <3>3. QED
      BY <3>1, <3>2 DEF QueueLinked
  <2>2. sync.imu # <<>> => QueueEndsBy(Newest, r)
    BY <1>3 DEF ChainInv, HandoffWhole, QueueEndsBy
  <2>3. /\ Bracketed(queue[1]) /\ HoldsAll(heard, queue[1].imu)
        /\ sync.imu # <<>> => EndsBy(Newest, queue[1])
    BY <1>2, <1>3 DEF QueueCovered, ChainInv, HandoffWhole, QueueLinked, QueueEndsBy
  <2>4. r # <<>> => r[1].imu[1] <= queue[1].scan.stamp
    <3>1. r # <<>> => queue[1 + 1].imu[1] <= queue[1].scan.stamp
      BY <1>3, <1>8 DEF ChainInv, HandoffWhole, QueueLinked
    <3>2. QED
      BY <1>8, <3>1
  <2>5. QueueLinked(heard, queue)' /\ (sync.imu # <<>> => QueueEndsBy(Newest, queue))'
    BY <1>1, <1>6, <2>1, <2>2
  <2>6. QED
    BY <1>1, <1>3, <1>6, <2>3, <2>4, <2>5 DEF HandoffWhole
<1>10. LastReaches'
  <2>1. ASSUME sync.imu # <<>>
        PROVE  sync.imu[1] <= queue[Len(queue)].scan.stamp
    BY <1>1, <2>1 DEF ChainInv, LastReaches
  <2>2. r = <<>> => queue[Len(queue)] = queue[1]
    <3>1. r = <<>> => Len(r) = 0
      OBVIOUS
    <3>2. r = <<>> => Len(queue) = 1
      <4>1. Len(r) = Len(queue) - 1 /\ Len(queue) \in Nat
        BY <1>3
      <4>2. QED
        BY <3>1, <4>1
    <3>3. QED
      BY <3>2
  <2>3. QED
    BY <1>1, <1>3, <1>8, <2>1, <2>2 DEF LastReaches
<1>11. QED
  BY <1>7, <1>9, <1>10 DEF ChainInv

LEMMA ChainStep ==
  ASSUME OrderInv, BufferedOfWorld, ChainInv, [Next]_vars
  PROVE  ChainInv'
<1>1. sync \in SyncState /\ TypeOK
  BY DEF OrderInv, TypeOK
<1>2. CASE Quiet
  BY <1>2, KeptChain DEF Quiet
<1>3. CASE DiscardScan
  <2>1. sync'.imu = sync.imu
    BY <1>1, <1>3 DEF DiscardScan, Discarded, SyncState
  <2>2. QED
    BY <1>3, <2>1, KeptChain DEF DiscardScan, Enqueues
<1>4. ASSUME NEW t \in Stamps, ImuMessage(t)
      PROVE  ChainInv'
  <2>1. /\ cb = "idle" /\ cb' = Dispatch(Jump(t, sync.lastImu))
        /\ sync' = CheckedImu(sync, t) /\ UNCHANGED <<queue, meas, heard, world>>
    BY <1>4 DEF ImuMessage, Arrives, handOff, workerVars
  <2>2. sync'.imu = sync.imu \/ (sync'.imu = <<>> /\ cb' = "reset")
    <3>1. CASE Jump(t, sync.lastImu) = "Restart"
      <4>1. sync' = [Cleared EXCEPT !.lastImu = t]
        BY <2>1, <3>1 DEF CheckedImu
      <4>2. QED
        BY <2>1, <3>1, <4>1 DEF Dispatch, Cleared
    <3>2. CASE Jump(t, sync.lastImu) # "Restart"
      <4>1. sync' \in {sync, [sync EXCEPT !.lastImu = t]}
        BY <2>1, <3>2, Zenon DEF CheckedImu
      <4>2. QED
        BY <1>1, <4>1 DEF SyncState
    <3>3. QED
      BY <3>1, <3>2
  <2>3. QED
    BY <2>1, <2>2, KeptChain
<1>5. ASSUME NEW t \in Stamps, LidarMessage(t)
      PROVE  ChainInv'
  <2>1. cb = "idle" /\ UNCHANGED <<queue, meas, heard, world>>
    BY <1>5 DEF LidarMessage, Arrives, handOff, workerVars
  <2>2. CASE ~initialized
    <3>1. sync' = sync
      BY <1>5, <2>2 DEF LidarMessage
    <3>2. QED
      BY <2>1, <3>1, KeptChain
  <2>3. CASE initialized
    <3>1. sync' = CheckedLidar(sync, t) /\ cb' = Dispatch(Jump(t, sync.lastLidar))
      BY <1>5, <2>3 DEF LidarMessage
    <3>2. sync'.imu = sync.imu \/ (sync'.imu = <<>> /\ cb' = "reset")
      <4>1. CASE Jump(t, sync.lastLidar) = "Restart"
        <5>1. sync' = [Cleared EXCEPT !.lastLidar = t]
          BY <3>1, <4>1 DEF CheckedLidar
        <5>2. QED
          BY <3>1, <4>1, <5>1 DEF Dispatch, Cleared
      <4>2. CASE Jump(t, sync.lastLidar) # "Restart"
        <5>1. sync' \in {sync, [sync EXCEPT !.lastLidar = t]}
          BY <3>1, <4>2, Zenon DEF CheckedLidar
        <5>2. QED
          BY <1>1, <5>1 DEF SyncState
      <4>3. QED
        BY <4>1, <4>2
    <3>3. QED
      BY <2>1, <3>2, KeptChain
  <2>4. QED
    BY <2>2, <2>3
<1>6. CASE Reset
  <2>1. /\ sync'.imu = <<>> /\ queue' = <<>> /\ heard' = {} /\ world' = world + 1
        /\ meas' = meas
    BY <1>6 DEF Reset, Cleared, workerVars
  <2>2. meas.scan.world <= world /\ world \in Nat /\ meas.scan.world \in Nat
    <3>1. meas.scan \in Scan
      BY <1>1, GroupFields DEF TypeOK
    <3>2. QED
      BY <1>1, <3>1 DEF ChainInv, BufferWhole, TypeOK, Scan
  <2>3. ~Current' /\ meas'.scan.world <= world'
    BY <2>1, <2>2 DEF Current
  <2>4. BufferWhole'
    BY <2>1, <2>3 DEF BufferWhole
  <2>5. HandoffWhole' /\ LastReaches'
    BY <2>1, <2>3 DEF HandoffWhole, LastReaches, QueueLinked
  <2>6. QED
    BY <2>4, <2>5 DEF ChainInv
<1>7. CASE AcceptLidar
  <2>1. sync'.imu = sync.imu
    BY <1>1, <1>7 DEF AcceptLidar, PushedLidar, SyncState
  <2>2. cb = "accept" /\ UNCHANGED <<queue, meas, heard, world>>
    BY <1>7 DEF AcceptLidar, handOff, workerVars
  <2>3. QED
    BY <2>1, <2>2, KeptChain
<1>8. QED
  BY <1>2, <1>3, <1>4, <1>5, <1>6, <1>7, PushChain, ReleaseChain, TakeChain, Steps, Zenon

(* Only TakeScan gives the worker another scan. *)
LEMMA TakenIs ==
  ASSUME [Next]_vars, meas' # meas
  PROVE  TakeScan
<1>1. Enqueues => meas' = meas
  BY DEF Enqueues
<1>2. \A t \in Stamps : ImuMessage(t) \/ LidarMessage(t) => meas' = meas
  BY DEF ImuMessage, LidarMessage, workerVars
<1>3. Reset \/ AcceptImu \/ AcceptLidar => meas' = meas
  BY DEF Reset, AcceptImu, AcceptLidar, workerVars
<1>4. QED
  BY <1>1, <1>2, <1>3, Steps DEF Quiet, ReleaseScan, DiscardScan

LEMMA ChainImplies ==
  ASSUME OrderInv, BufferedOfWorld, ChainInv, [Next]_vars
  PROVE  LET span == {t \in heard : Head(meas.imu) <= t /\ t <= Back(meas'.imu)}
         IN meas' # meas /\ meas # NoGroup /\ meas'.scan.world = meas.scan.world
              => span \subseteq StampsOf(meas.imu) \cup StampsOf(meas'.imu)
<1> SUFFICES ASSUME meas' # meas, meas'.scan.world = meas.scan.world,
                    NEW t \in heard, Head(meas.imu) <= t, t <= Back(meas'.imu)
             PROVE  t \in StampsOf(meas.imu) \cup StampsOf(meas'.imu)
  OBVIOUS
<1>1. TakeScan /\ queue # <<>> /\ meas' = Head(queue)
  BY TakenIs DEF TakeScan
<1>2. queue \in Seq(MeasureGroup) /\ meas \in MeasureGroup /\ QueueCovered(queue)
      /\ heard \subseteq Stamps
  BY DEF OrderInv, TypeOK, QueueInOrder
<1>3. meas' = queue[1] /\ 1 \in DOMAIN queue /\ queue[1] \in MeasureGroup
  BY <1>1, <1>2, EmptySeq, LenProperties, ElementOfSeq
<1>4. Current
  BY <1>3 DEF BufferedOfWorld, Current
<1>5. /\ Bracketed(meas) /\ HoldsAll(heard, meas.imu)
      /\ Bracketed(queue[1]) /\ HoldsAll(heard, queue[1].imu)
      /\ queue[1].imu[1] <= meas.scan.stamp
  BY <1>1, <1>2, <1>3, <1>4 DEF ChainInv, HandoffWhole, QueueLinked, QueueCovered
<1>6. /\ meas.imu \in Seq(Stamps) /\ queue[1].imu \in Seq(Stamps)
      /\ meas.imu # <<>> /\ queue[1].imu # <<>> /\ meas.scan.stamp \in Int
      /\ meas.imu[Len(meas.imu)] >= meas.scan.stamp + ScanGuard
  BY <1>2, <1>3, <1>5, GroupFields DEF Bracketed, Covers
<1>7. /\ Head(meas.imu) = meas.imu[1] /\ meas.imu[Len(meas.imu)] \in Int
      /\ queue[1].imu[1] \in Int /\ t \in Int /\ ScanGuard \in Nat
  <2>1. Head(meas.imu) = meas.imu[1] /\ meas.imu[Len(meas.imu)] \in Int
    BY <1>6, StampsInt
  <2>2. queue[1].imu[1] \in Int
    BY <1>6, StampsInt
  <2>3. QED
    BY <1>2, <2>1, <2>2, ConstantsType, SyncAssumption
<1>8. CASE t <= meas.imu[Len(meas.imu)]
  BY <1>5, <1>7, <1>8 DEF HoldsAll
<1>9. CASE ~(t <= meas.imu[Len(meas.imu)])
  <2>1. queue[1].imu[1] <= t
    <3>1. PICK first \in Int : first = queue[1].imu[1]
      BY <1>7
    <3>2. PICK last \in Int : last = meas.imu[Len(meas.imu)]
      BY <1>7
    <3>3. PICK start \in Int : start = meas.scan.stamp
      BY <1>6
    <3>4. first <= start /\ last >= start + ScanGuard
      BY <1>5, <1>6, <3>1, <3>2, <3>3
    <3>5. ~(t <= last) /\ t \in Int /\ ScanGuard \in Nat
      BY <1>7, <1>9, <3>2
    <3>6. first <= t
      BY <3>4, <3>5
    <3>7. QED
      BY <3>1, <3>6
  <2>2. t <= queue[1].imu[Len(queue[1].imu)]
    BY <1>3 DEF Back
  <2>3. QED
    BY <1>3, <1>5, <2>1, <2>2 DEF HoldsAll
<1>10. QED
  BY <1>8, <1>9

(* No IMU sample is lost between two scans of one world that the worker takes one
   after the other: for every order of stamps, bound of the queue and guard, and
   however many messages, drops and merges come between. *)
THEOREM NoImuLostAlways == Spec => NoImuLost
<1> DEFINE Inv == OrderInv /\ WorldInv /\ ChainInv
           span == {t \in heard : Head(meas.imu) <= t /\ t <= Back(meas'.imu)}
<1>1. Init => Inv
  BY OrderInvInit, WorldInvInit, InitChain
<1>2. Inv /\ [Next]_vars => Inv'
  <2>1. SUFFICES ASSUME OrderInv, WorldInv, ChainInv, [Next]_vars
                 PROVE  OrderInv' /\ WorldInv' /\ ChainInv'
    OBVIOUS
  <2>2. BufferedOfWorld
    BY <2>1 DEF WorldInv
  <2>3. QED
    BY <2>1, <2>2, OrderInvStep, WorldInvStep, ChainStep
<1>3. Inv /\ [Next]_vars
        => [meas' # meas /\ meas # NoGroup /\ meas'.scan.world = meas.scan.world
              => span \subseteq StampsOf(meas.imu) \cup StampsOf(meas'.imu)]_vars
  <2>1. SUFFICES ASSUME OrderInv, WorldInv, ChainInv, [Next]_vars
                 PROVE  meas' # meas /\ meas # NoGroup /\ meas'.scan.world = meas.scan.world
                          => span \subseteq StampsOf(meas.imu) \cup StampsOf(meas'.imu)
    OBVIOUS
  <2>2. BufferedOfWorld
    BY <2>1 DEF WorldInv
  <2>3. QED
    BY <2>1, <2>2, ChainImplies
<1>4. QED
  BY <1>1, <1>2, <1>3, PTL DEF Spec, NoImuLost
-----------------------------------------------------------------------------
(* Pruning leaves the bracket of every scan still to come: either nothing heard *)
(* was pruned, or the buffer begins at or before all scans buffered or to come. *)

NothingPruned == \A t \in heard : sync.imu[1] <= t

PrunedBehind ==
  sync.imu # <<>> =>
    \/ NothingPruned
    \/ /\ sync.imu[1] <= source.lidar
       /\ \A j \in DOMAIN sync.lidar : sync.imu[1] <= sync.lidar[j].stamp

LEMMA KeptPruned ==
  ASSUME PrunedBehind, heard' = heard, sync'.imu \in {sync.imu, <<>>},
         sync.imu # <<>> /\ sync.imu[1] <= source.lidar => sync.imu[1] <= source'.lidar,
         \A j \in DOMAIN sync'.lidar : \E k \in DOMAIN sync.lidar : sync'.lidar[j] = sync.lidar[k]
  PROVE  PrunedBehind'
<1>1. SUFFICES ASSUME sync'.imu = sync.imu, sync.imu # <<>>
               PROVE  \/ NothingPruned'
                      \/ /\ sync.imu[1] <= source'.lidar
                         /\ \A j \in DOMAIN sync'.lidar : sync.imu[1] <= sync'.lidar[j].stamp
  BY DEF PrunedBehind
<1>2. CASE NothingPruned
  BY <1>1, <1>2 DEF NothingPruned
<1>3. CASE /\ sync.imu[1] <= source.lidar
           /\ \A j \in DOMAIN sync.lidar : sync.imu[1] <= sync.lidar[j].stamp
  BY <1>1, <1>3
<1>4. QED
  BY <1>1, <1>2, <1>3 DEF PrunedBehind

LEMMA PrunedStep ==
  ASSUME LidarForward(0), OrderInv, ChainInv, ScansApart(0), PrunedBehind, [Next]_vars
  PROVE  PrunedBehind'
<1>1. /\ sync \in SyncState /\ sync.imu \in Seq(Stamps) /\ sync.lidar \in Seq(Scan)
      /\ heard \subseteq Stamps
      /\ source \in [{"imu", "lidar"} -> Stamps \cup {NoStamp}] /\ Stamps \subseteq Nat
  BY NodeAssumption DEF OrderInv, TypeOK, SyncState
<1>2. /\ DOMAIN sync.imu = 1 .. Len(sync.imu) /\ Len(sync.imu) \in Nat
      /\ DOMAIN sync.lidar = 1 .. Len(sync.lidar) /\ Len(sync.lidar) \in Nat
      /\ sync.imu # <<>> => 1 \in DOMAIN sync.imu /\ sync.imu[1] \in Nat
  <2>1. /\ DOMAIN sync.imu = 1 .. Len(sync.imu) /\ Len(sync.imu) \in Nat
        /\ DOMAIN sync.lidar = 1 .. Len(sync.lidar) /\ Len(sync.lidar) \in Nat
    BY <1>1, LenProperties
  <2>2. sync.imu # <<>> => 1 \in DOMAIN sync.imu /\ sync.imu[1] \in Stamps
    BY <1>1, StampsInt
  <2>3. QED
    BY <1>1, <2>1, <2>2
<1>3. CASE Quiet \/ TakeScan
  BY <1>3, KeptPruned DEF Quiet, TakeScan, sourceVars, cbVars
<1>4. ASSUME NEW t \in Stamps, ImuMessage(t)
      PROVE  PrunedBehind'
  <2>1. /\ sync' = CheckedImu(sync, t) /\ heard' = heard
        /\ source' = [source EXCEPT !["imu"] = t]
    BY <1>4 DEF ImuMessage, Arrives
  <2>2. sync'.imu \in {sync.imu, <<>>} /\ sync'.lidar \in {sync.lidar, <<>>}
    BY <1>1, <2>1, CheckedBuffers
  <2>3. source'.lidar = source.lidar
    BY <1>1, <2>1
  <2>4. \A j \in DOMAIN sync'.lidar : \E k \in DOMAIN sync.lidar : sync'.lidar[j] = sync.lidar[k]
    BY <2>2
  <2>5. QED
    BY <2>1, <2>2, <2>3, <2>4, KeptPruned
<1>5. ASSUME NEW t \in Stamps, LidarMessage(t)
      PROVE  PrunedBehind'
  <2>1. /\ sync' \in {sync, CheckedLidar(sync, t)} /\ heard' = heard
        /\ source' = [source EXCEPT !["lidar"] = t]
        /\ source["lidar"] # NoStamp => t - source["lidar"] \in Jumps["lidar"]
    BY <1>5, Zenon DEF LidarMessage, Arrives
  <2>2. sync'.imu \in {sync.imu, <<>>} /\ sync'.lidar \in {sync.lidar, <<>>}
    BY <1>1, <2>1, CheckedBuffers
  <2>3. ASSUME sync.imu # <<>>, sync.imu[1] <= source.lidar
        PROVE  sync.imu[1] <= source'.lidar
    <3>1. source["lidar"] \in Nat \cup {NoStamp} /\ sync.imu[1] \in Nat /\ t \in Nat
      BY <1>1, <1>2, <2>3
    <3>2. source["lidar"] # NoStamp
      BY <2>3, <3>1 DEF NoStamp
    <3>3. 0 <= t - source["lidar"]
      BY <2>1, <3>2 DEF LidarForward
    <3>4. source'.lidar = t
      BY <1>1, <2>1
    <3>5. QED
      BY <2>3, <3>1, <3>2, <3>3, <3>4
  <2>4. \A j \in DOMAIN sync'.lidar : \E k \in DOMAIN sync.lidar : sync'.lidar[j] = sync.lidar[k]
    BY <2>2
  <2>5. QED
    BY <2>1, <2>2, <2>3, <2>4, KeptPruned
<1>6. CASE Reset
  BY <1>6 DEF Reset, Cleared, PrunedBehind
<1>7. CASE AcceptImu
  <2> DEFINE t == msg.stamp
             r == Append(sync.imu, t)
  <2>1. /\ cb = "accept" /\ msg.kind = "imu" /\ initialized /\ t \in Stamps
        /\ heard' = heard \cup {t} /\ source' = source
        /\ sync'.imu = r /\ sync'.lidar = sync.lidar
    BY <1>1, <1>7 DEF AcceptImu, PushedImu, SyncState, sourceVars, OrderInv, TypeOK
  <2>2. /\ \A i \in DOMAIN sync.imu : sync.imu[i] <= t
        /\ sync.imu = <<>> => heard = {}
    BY <2>1 DEF OrderInv, BufferInOrder, ChainInv, BufferWhole
  <2>3. r[1] = IF sync.imu = <<>> THEN t ELSE sync.imu[1]
    <3>1. /\ \A i \in 1 .. Len(sync.imu) : r[i] = sync.imu[i]
          /\ r[Len(sync.imu) + 1] = t
      BY <1>1, <2>1, AppendProperties
    <3> HIDE DEF r
    <3>2. CASE sync.imu = <<>>
      <4>1. Len(sync.imu) = 0
        BY <3>2
      <4>2. QED
        BY <3>1, <3>2, <4>1
    <3>3. CASE sync.imu # <<>>
      BY <1>2, <3>1, <3>3
    <3>4. QED
      BY <3>2, <3>3
  <2> HIDE DEF r
  <2>4. CASE sync.imu = <<>>
    <3>1. heard' = {t} /\ sync'.imu[1] = t /\ t <= t
      <4>1. t \in Nat
        BY <1>1, <2>1
      <4>2. heard' = {t}
        BY <2>1, <2>2, <2>4
      <4>3. sync'.imu[1] = t
        BY <2>1, <2>3, <2>4
      <4>4. QED
        BY <4>1, <4>2, <4>3
    <3>2. NothingPruned'
      BY <3>1 DEF NothingPruned
    <3>3. QED
      BY <3>2 DEF PrunedBehind
  <2>5. CASE sync.imu # <<>>
    <3>1. sync'.imu[1] = sync.imu[1] /\ sync.imu[1] <= t
      BY <1>2, <2>1, <2>2, <2>3, <2>5
    <3>2. NothingPruned => NothingPruned'
      BY <2>1, <3>1 DEF NothingPruned
    <3>3. QED
      BY <2>1, <2>5, <3>1, <3>2 DEF PrunedBehind
  <2>6. QED
    BY <2>4, <2>5
<1>8. CASE AcceptLidar
  <2> DEFINE scan == [stamp |-> msg.stamp, world |-> world]
             r == Append(sync.lidar, scan)
  <2>1. /\ Pending("lidar") /\ heard' = heard /\ source' = source
        /\ sync'.lidar = r /\ sync'.imu = sync.imu /\ msg.stamp \in Stamps /\ world \in Nat
    BY <1>1, <1>8 DEF AcceptLidar, PushedLidar, SyncState, sourceVars, Pending, OrderInv, TypeOK
  <2>2. scan \in Scan /\ scan.stamp = msg.stamp
    BY <2>1 DEF Scan
  <2>3. msg.stamp = source.lidar
    BY <2>1 DEF ScansApart, BufferedApart
  <2> HIDE DEF scan
  <2>4. \A j \in DOMAIN r : (j \in DOMAIN sync.lidar /\ r[j] = sync.lidar[j])
                            \/ r[j].stamp = msg.stamp
    <3>1. /\ r \in Seq(Scan) /\ Len(r) = Len(sync.lidar) + 1
          /\ \A i \in 1 .. Len(sync.lidar) : r[i] = sync.lidar[i]
          /\ r[Len(sync.lidar) + 1] = scan
      BY <1>1, <2>2, AppendProperties
    <3> HIDE DEF r
    <3>2. DOMAIN r = 1 .. Len(sync.lidar) + 1
      BY <3>1, LenProperties
    <3>3. QED
      BY <1>2, <2>2, <3>1, <3>2
  <2> HIDE DEF r
  <2>5. NothingPruned' = NothingPruned
    BY <2>1 DEF NothingPruned
  <2>6. QED
    BY <2>1, <2>3, <2>4, <2>5 DEF PrunedBehind
<1>9. ASSUME sync.lidar # <<>>, sync'.lidar = Tail(sync.lidar)
      PROVE  /\ Head(sync.lidar) = sync.lidar[1] /\ 1 \in DOMAIN sync.lidar
             /\ \A j \in DOMAIN sync'.lidar :
                  j + 1 \in DOMAIN sync.lidar /\ 1 < j + 1 /\ sync'.lidar[j] = sync.lidar[j + 1]
  <2> DEFINE r == Tail(sync.lidar)
  <2>1. /\ r \in Seq(Scan) /\ Len(r) = Len(sync.lidar) - 1
        /\ \A i \in 1 .. Len(r) : r[i] = sync.lidar[i + 1]
    BY <1>1, <1>9, HeadTailProperties
  <2>2. Len(sync.lidar) >= 1 /\ Head(sync.lidar) = sync.lidar[1]
    BY <1>1, <1>2, <1>9, EmptySeq
  <2>3. sync'.lidar = r
    BY <1>9
  <2> HIDE DEF r
  <2>4. DOMAIN r = 1 .. Len(sync.lidar) - 1
    BY <2>1, LenProperties
  <2>5. QED
    BY <1>2, <2>1, <2>2, <2>3, <2>4
<1>10. CASE DiscardScan
  <2>1. /\ sync.lidar # <<>> /\ sync'.lidar = Tail(sync.lidar) /\ sync'.imu = sync.imu
        /\ source' = source /\ heard' = heard
    BY <1>1, <1>10 DEF DiscardScan, Enqueues, Discards, Discarded, SyncState
  <2>2. QED
    BY <1>9, <2>1, KeptPruned
<1>11. CASE ReleaseScan
  <2> DEFINE left == Released(sync).imu
  <2>1. /\ sync.lidar # <<>> /\ sync'.lidar = Tail(sync.lidar) /\ sync'.imu = left
        /\ Releases(sync) /\ source' = source /\ heard' = heard /\ sync.imu # <<>>
    BY <1>1, <1>11 DEF ReleaseScan, Enqueues, Releases, Released, SyncState
  <2>2. Sorted(sync.imu) /\ HoldsAll(heard, sync.imu)
    BY <2>1 DEF OrderInv, BufferInOrder, ChainInv, BufferWhole
  <2>3. /\ left[1] <= Group(sync).scan.stamp
        /\ Group(sync).scan = Head(sync.lidar)
        /\ \E i \in DOMAIN sync.imu : left[1] = sync.imu[i]
    BY <1>1, <2>1, <2>2, ReleasedHolds
  <2>4. left[1] <= sync.lidar[1].stamp /\ left[1] \in Int
    <3>1. \A i \in DOMAIN sync.imu : sync.imu[i] \in Int
      BY <1>1, StampsInt
    <3>2. QED
      BY <1>9, <2>1, <2>3, <3>1
  <2> HIDE DEF left
  <2>5. 1 \in DOMAIN sync.lidar /\ sync.lidar[1].stamp \in Nat
        /\ sync.lidar[1].stamp <= source.lidar /\ source.lidar \in Int
    <3>1. source.lidar \in Int
      <4>1. source["lidar"] \in Stamps \cup {NoStamp}
        BY <1>1
      <4>2. QED
        BY <4>1, ConstantsType
    <3>2. QED
      BY <1>1, <1>9, <2>1, <3>1 DEF ScansApart, BufferedApart
  <2>6. left[1] <= source.lidar
    BY <2>4, <2>5
  <2>7. ASSUME NEW j \in DOMAIN sync'.lidar
        PROVE  left[1] <= sync'.lidar[j].stamp
    <3>1. /\ j + 1 \in DOMAIN sync.lidar /\ 1 < j + 1
          /\ sync'.lidar[j] = sync.lidar[j + 1]
      BY <1>9, <2>1
    <3>2. /\ sync.lidar[1].stamp + 0 <= sync.lidar[j + 1].stamp
          /\ sync.lidar[j + 1].stamp \in Nat
      BY <1>1, <2>5, <3>1 DEF ScansApart, BufferedApart
    <3>3. QED
      BY <2>4, <2>5, <3>1, <3>2
  <2>8. QED
    BY <2>1, <2>6, <2>7 DEF PrunedBehind
<1>12. QED
  BY <1>3, <1>4, <1>5, <1>6, <1>7, <1>8, <1>10, <1>11, Steps, Zenon

LEMMA PrunedImplies ==
  ASSUME OrderInv, PrunedBehind, [Next]_vars
  PROVE  cb = "ready" /\ cb' = "idle" /\ sync' # sync
           => \A t \in heard : t > ScanStamp(sync)
<1>1. SUFFICES ASSUME cb = "ready", cb' = "idle", sync' # sync, NEW t \in heard
               PROVE  t > ScanStamp(sync)
  OBVIOUS
<1>2. DiscardScan
  <2>1. \A u \in Stamps : ImuMessage(u) \/ LidarMessage(u) => cb = "idle"
    BY DEF ImuMessage, LidarMessage, Arrives
  <2>2. /\ Reset => cb = "reset"
        /\ AcceptImu \/ AcceptLidar => cb = "accept"
        /\ TakeScan => cb' = cb
        /\ Quiet => sync' = sync
        /\ ReleaseScan => cb' = "notifyScan"
    BY DEF Reset, AcceptImu, AcceptLidar, TakeScan, cbVars, Quiet, ReleaseScan
  <2>3. QED
    BY <1>1, <2>1, <2>2, Steps
<1>3. /\ sync.imu \in Seq(Stamps) /\ sync.imu # <<>>
      /\ sync \in SyncState /\ sync.lidar \in Seq(Scan) /\ sync.lidar # <<>>
      /\ Head(sync.imu) > ScanStamp(sync) /\ t \in Int
  BY <1>2, ConstantsType DEF OrderInv, TypeOK, SyncState, DiscardScan, Discards
<1>4. Head(sync.imu) = sync.imu[1] /\ sync.imu[1] \in Int
  BY <1>3, StampsInt
<1>5. ScanStamp(sync) = sync.lidar[1].stamp /\ 1 \in DOMAIN sync.lidar
      /\ ScanStamp(sync) \in Int
  <2>1. Len(sync.lidar) >= 1 /\ Head(sync.lidar) = sync.lidar[1]
        /\ DOMAIN sync.lidar = 1 .. Len(sync.lidar)
    BY <1>3, EmptySeq, LenProperties
  <2>2. ScanStamp(sync) \in Int
    BY <1>3, HeadStamp DEF ScanStamp
  <2>3. QED
    BY <2>1, <2>2 DEF ScanStamp
<1>6. NothingPruned
  BY <1>3, <1>4, <1>5 DEF PrunedBehind
<1>7. QED
  BY <1>3, <1>4, <1>5, <1>6 DEF NothingPruned

(* A scan is discarded only if its world has no IMU sample at or before it, if
   the LiDAR's stamps do not go back (node_reanchor shows what happens if they
   do): pruning never takes the bracket that a later scan needs. *)
THEOREM DiscardedUnprecededAlways ==
  ASSUME LidarForward(0)
  PROVE  Spec => DiscardedUnpreceded
<1> DEFINE Inv == OrderInv /\ WorldInv /\ ChainInv /\ ScansApart(0) /\ PrunedBehind
<1>1. Init => Inv
  <2>1. Init => PrunedBehind
    BY DEF Init, Cleared, PrunedBehind
  <2>2. Init => ScansApart(0)
    BY InitApart
  <2>3. QED
    BY <2>1, <2>2, OrderInvInit, WorldInvInit, InitChain
<1>2. Inv /\ [Next]_vars => Inv'
  <2>1. SUFFICES ASSUME OrderInv, WorldInv, ChainInv, ScansApart(0), PrunedBehind, [Next]_vars
                 PROVE  OrderInv' /\ WorldInv' /\ ChainInv' /\ ScansApart(0)' /\ PrunedBehind'
    OBVIOUS
  <2>2. BufferedOfWorld /\ TypeOK
    BY <2>1 DEF WorldInv
  <2>3. OrderInv' /\ WorldInv' /\ ChainInv'
    BY <2>1, <2>2, OrderInvStep, WorldInvStep, ChainStep
  <2>4. ScansApart(0)'
    BY <2>1, <2>2, ApartStep
  <2>5. PrunedBehind'
    BY <2>1, PrunedStep
  <2>6. QED
    BY <2>3, <2>4, <2>5
<1>3. Inv /\ [Next]_vars
        => [cb = "ready" /\ cb' = "idle" /\ sync' # sync
              => \A t \in heard : t > ScanStamp(sync)]_vars
  <2>1. SUFFICES ASSUME OrderInv, PrunedBehind, [Next]_vars
                 PROVE  cb = "ready" /\ cb' = "idle" /\ sync' # sync
                          => \A t \in heard : t > ScanStamp(sync)
    OBVIOUS
  <2>2. QED
    BY <2>1, PrunedImplies
<1>4. QED
  BY <1>1, <1>2, <1>3, PTL DEF Spec, DiscardedUnpreceded
-----------------------------------------------------------------------------
(* The IMU of a source whose stamps step by gap or less, as the buffer, the    *)
(* queue and the worker hold it: no hole is longer.                            *)

ImuSteady(gap) == \A d \in Jumps["imu"] : d <= gap

(* The newest sample buffered is the newest the source gave, but for those that
   came late and the one about to be pushed. *)
NewestNear(gap) ==
  /\ cb = "accept" /\ msg.kind = "imu" /\ initialized
       => /\ msg.stamp = source.imu /\ msg.stamp = sync.lastImu
          /\ sync.imu # <<>> => msg.stamp - Newest <= gap
  /\ sync.imu # <<>> /\ ~(cb = "accept" /\ msg.kind = "imu")
       => source.imu <= Newest /\ sync.lastImu = Newest /\ source.imu \in Stamps

HandoffDense(gap) ==
  Dense(gap, sync.imu) /\ Dense(gap, meas.imu) /\ QueueDense(gap, queue)

DenseInv(gap) == NewestNear(gap) /\ HandoffDense(gap)

LEMMA EmptyDense == ASSUME NEW gap PROVE Dense(gap, <<>>) /\ QueueDense(gap, <<>>)
<1>1. \A i \in 1 .. Len(<<>>) - 1 : FALSE
  OBVIOUS
<1>2. \A i \in DOMAIN <<>> : FALSE
  OBVIOUS
<1>3. QED
  BY <1>1, <1>2 DEF Dense, QueueDense

LEMMA InitDense == ASSUME NEW gap \in Int, Init PROVE DenseInv(gap)
<1>1. sync.imu = <<>> /\ queue = <<>> /\ meas.imu = <<>> /\ cb = "idle"
  BY DEF Init, Cleared, NoGroup
<1>2. QED
  BY <1>1, EmptyDense DEF DenseInv, NewestNear, HandoffDense

LEMMA KeptDense ==
  ASSUME NEW gap \in Int, HandoffDense(gap), UNCHANGED <<queue, meas>>,
         sync'.imu \in {sync.imu, <<>>}
  PROVE  HandoffDense(gap)'
BY EmptyDense DEF HandoffDense

LEMMA MessageDense ==
  ASSUME NEW gap \in Int, ImuSteady(gap), TypeOK, DenseInv(gap),
         NEW t \in Stamps, ImuMessage(t)
  PROVE  DenseInv(gap)'
<1> DEFINE r == CheckedImu(sync, t)
<1>1. /\ sync \in SyncState /\ sync.imu \in Seq(Stamps)
      /\ sync.lastImu \in Int /\ t \in Nat /\ Stamps \subseteq Nat
      /\ source \in [{"imu", "lidar"} -> Stamps \cup {NoStamp}]
  BY NodeAssumption, ConstantsType DEF TypeOK, SyncState
<1>2. /\ cb = "idle" /\ cb' = Dispatch(Jump(t, sync.lastImu)) /\ sync' = r
      /\ msg' = [kind |-> "imu", stamp |-> t] /\ source' = [source EXCEPT !["imu"] = t]
      /\ source["imu"] # NoStamp => t - source["imu"] \in Jumps["imu"]
      /\ UNCHANGED <<queue, meas>>
  BY DEF ImuMessage, Arrives, handOff, workerVars
<1>3. source'.imu = t /\ msg'.stamp = t
  BY <1>1, <1>2
<1>4. sync'.imu \in {sync.imu, <<>>}
  BY <1>1, <1>2, CheckedBuffers
<1>5. HandoffDense(gap)'
  BY <1>2, <1>4, KeptDense DEF DenseInv
<1>6. sync.imu # <<>> => /\ source.imu <= Newest /\ sync.lastImu = Newest
                         /\ source.imu \in Nat /\ Newest \in Int
                         /\ t - source.imu <= gap
  <2>1. SUFFICES ASSUME sync.imu # <<>>
                 PROVE  /\ source.imu <= Newest /\ sync.lastImu = Newest
                        /\ source.imu \in Nat /\ Newest \in Int
                        /\ t - source.imu <= gap
    OBVIOUS
  <2>2. source.imu <= Newest /\ sync.lastImu = Newest /\ source.imu \in Stamps
    BY <1>2, <2>1 DEF DenseInv, NewestNear
  <2>3. source["imu"] # NoStamp
    BY <2>2, ConstantsType
  <2>4. t - source["imu"] <= gap
    BY <1>2, <2>3 DEF ImuSteady
  <2>5. QED
    BY <1>1, <2>2, <2>4
<1> HIDE DEF r
<1>7. CASE Jump(t, sync.lastImu) = "Restart"
  <2>1. sync'.imu = <<>> /\ cb' = "reset"
    BY <1>2, <1>7 DEF r, CheckedImu, Cleared, Dispatch
  <2>2. NewestNear(gap)'
    BY <2>1 DEF NewestNear
  <2>3. QED
    BY <1>5, <2>2 DEF DenseInv
<1>8. CASE Jump(t, sync.lastImu) = "OutOfOrder"
  <2>1. sync' = sync /\ cb' = "idle"
    BY <1>2, <1>8 DEF r, CheckedImu, Dispatch
  <2>2. t < sync.lastImu
    BY <1>1, <1>8 DEF Jump
  <2>3. Newest' = Newest
    BY <2>1 DEF Newest
  <2>4. sync.imu # <<>> => t <= Newest
    BY <1>1, <1>6, <2>2
  <2>5. NewestNear(gap)'
    BY <1>3, <1>6, <2>1, <2>3, <2>4 DEF NewestNear
  <2>6. QED
    BY <1>5, <2>5 DEF DenseInv
<1>9. CASE Jump(t, sync.lastImu) = "None"
  <2>1. cb' = "accept"
    BY <1>2, <1>9 DEF Dispatch
  <2>2. sync' = [sync EXCEPT !.lastImu = t]
    BY <1>2, <1>9 DEF r, CheckedImu
  <2>3. sync'.imu = sync.imu /\ sync'.lastImu = t
    BY <1>1, <2>2 DEF SyncState
  <2>4. Newest' = Newest
    BY <2>3 DEF Newest
  <2>5. sync.imu # <<>> => t - Newest <= gap
    BY <1>1, <1>6
  <2>6. NewestNear(gap)'
    BY <1>2, <1>3, <2>1, <2>3, <2>4, <2>5 DEF NewestNear
  <2>7. QED
    BY <1>5, <2>6 DEF DenseInv
<1>10. QED
  BY <1>7, <1>8, <1>9 DEF Jump

LEMMA DenseStep ==
  ASSUME NEW gap \in Int, ImuSteady(gap), OrderInv, WorldInv, ChainInv, DenseInv(gap),
         [Next]_vars
  PROVE  DenseInv(gap)'
<1>1. /\ TypeOK /\ sync \in SyncState /\ sync.imu \in Seq(Stamps) /\ heard \in SUBSET Stamps
      /\ queue \in Seq(MeasureGroup) /\ Len(queue) <= MaxQueue
      /\ source \in [{"imu", "lidar"} -> Stamps \cup {NoStamp}]
  BY DEF OrderInv, TypeOK, SyncState
<1>2. sync.imu # <<>> => initialized
  BY DEF WorldInv, QueuedOnlyInitialized, InitRequested
<1>3. NewestNear(gap) /\ HandoffDense(gap)
  BY DEF DenseInv
<1>4. CASE Quiet
  <2>1. UNCHANGED <<sync, queue, meas, source, msg>> /\ Newest' = Newest
    BY <1>4 DEF Quiet, Newest
  <2>2. HandoffDense(gap)'
    BY <1>3, <2>1, KeptDense
  <2>3. cb = "notifyReset" => ~initialized
    BY DEF OrderInv, BufferInOrder
  <2>4. NewestNear(gap)'
    <3>1. CASE UNCHANGED <<cb, initialized>>
      BY <1>3, <2>1, <3>1 DEF NewestNear
    <3>2. CASE cb = "notifyReset" /\ cb' = "accept" /\ UNCHANGED initialized
      BY <1>2, <2>1, <2>3, <3>2 DEF NewestNear
    <3>3. CASE cb = "accept" /\ ~initialized /\ cb' \in {"idle", "init"}
      BY <1>2, <2>1, <3>3 DEF NewestNear
    <3>4. CASE cb \notin {"accept", "reset"} /\ cb' \notin {"accept", "reset", "notifyReset"}
      BY <1>3, <2>1, <3>4 DEF NewestNear
    <3>5. QED
      BY <1>4, <3>1, <3>2, <3>3, <3>4, Zenon DEF Quiet
  <2>5. QED
    BY <2>2, <2>4 DEF DenseInv
<1>5. CASE TakeScan
  <2>1. /\ UNCHANGED <<sync, cb, msg, initialized, source>> /\ Newest' = Newest
        /\ queue # <<>> /\ meas' = Head(queue) /\ queue' = Tail(queue)
    BY <1>5 DEF TakeScan, sourceVars, cbVars, Newest
  <2>2. NewestNear(gap)'
    BY <1>3, <2>1 DEF NewestNear
  <2>3. /\ Head(queue) = queue[1] /\ 1 \in DOMAIN queue
        /\ \A j \in DOMAIN Tail(queue) : j + 1 \in DOMAIN queue /\ Tail(queue)[j] = queue[j + 1]
    <3> DEFINE r == Tail(queue)
    <3>1. /\ r \in Seq(MeasureGroup) /\ Len(r) = Len(queue) - 1
          /\ \A i \in 1 .. Len(r) : r[i] = queue[i + 1]
      BY <1>1, <2>1, HeadTailProperties
    <3>2. /\ Len(queue) >= 1 /\ Head(queue) = queue[1]
          /\ Len(queue) \in Nat /\ DOMAIN queue = 1 .. Len(queue)
      BY <1>1, <2>1, EmptySeq, LenProperties
    <3> HIDE DEF r
    <3>3. DOMAIN r = 1 .. Len(queue) - 1
      BY <3>1, LenProperties
    <3>4. \A j \in DOMAIN r : j + 1 \in DOMAIN queue /\ r[j] = queue[j + 1]
      BY <3>1, <3>2, <3>3
    <3>5. QED
      BY <3>2, <3>4 DEF r
  <2>4. HandoffDense(gap)'
    BY <1>3, <2>1, <2>3 DEF HandoffDense, QueueDense
  <2>5. QED
    BY <2>2, <2>4 DEF DenseInv
<1>6. ASSUME NEW t \in Stamps, LidarMessage(t)
      PROVE  DenseInv(gap)'
  <2>1. /\ cb = "idle" /\ msg' = [kind |-> "lidar", stamp |-> t]
        /\ source' = [source EXCEPT !["lidar"] = t]
        /\ sync' \in {sync, CheckedLidar(sync, t)} /\ UNCHANGED <<queue, meas>>
    BY <1>6, Zenon DEF LidarMessage, Arrives, handOff, workerVars
  <2>2. sync'.imu \in {sync.imu, <<>>}
    BY <1>1, <2>1, CheckedBuffers
  <2>3. HandoffDense(gap)'
    BY <1>3, <2>1, <2>2, KeptDense
  <2>4. sync'.imu # <<>> => sync'.imu = sync.imu /\ sync'.lastImu = sync.lastImu
    <3>1. CASE sync' = sync
      BY <3>1
    <3>2. CASE sync' = CheckedLidar(sync, t) /\ Jump(t, sync.lastLidar) = "Restart"
      BY <3>2 DEF CheckedLidar, Cleared
    <3>3. CASE sync' = CheckedLidar(sync, t) /\ Jump(t, sync.lastLidar) # "Restart"
      <4>1. sync' \in {sync, [sync EXCEPT !.lastLidar = t]}
        BY <3>3, Zenon DEF CheckedLidar
      <4>2. QED
        BY <1>1, <4>1 DEF SyncState
    <3>4. QED
      BY <2>1, <3>1, <3>2, <3>3
  <2>5. source'.imu = source.imu /\ msg'.kind = "lidar"
    BY <1>1, <2>1
  <2>6. NewestNear(gap)'
    <3>1. SUFFICES ASSUME sync'.imu # <<>>
                   PROVE  source.imu <= Newest' /\ sync'.lastImu = Newest'
                          /\ source.imu \in Stamps
      BY <2>5 DEF NewestNear
    <3>2. sync'.imu = sync.imu /\ sync'.lastImu = sync.lastImu /\ Newest' = Newest
      BY <2>4, <3>1 DEF Newest
    <3>3. QED
      BY <1>3, <2>1, <3>1, <3>2 DEF NewestNear
  <2>7. QED
    BY <2>3, <2>6 DEF DenseInv
<1>7. CASE Reset
  <2>1. sync'.imu = <<>> /\ queue' = <<>> /\ meas' = meas /\ cb' = "notifyReset"
    BY <1>7 DEF Reset, Cleared, workerVars
  <2>2. QED
    BY <1>3, <2>1, EmptyDense DEF DenseInv, NewestNear, HandoffDense
<1>8. CASE AcceptLidar \/ DiscardScan
  <2>1. /\ sync'.imu = sync.imu /\ sync'.lastImu = sync.lastImu
        /\ UNCHANGED <<queue, meas, source, msg>>
        /\ ~(cb = "accept" /\ msg.kind = "imu") /\ cb' \in {"ready", "idle"}
    <3>1. CASE AcceptLidar
      BY <1>1, <3>1 DEF AcceptLidar, PushedLidar, SyncState, sourceVars, handOff, workerVars
    <3>2. CASE DiscardScan
      BY <1>1, <3>2 DEF DiscardScan, Enqueues, Discarded, SyncState
    <3>3. QED
      BY <1>8, <3>1, <3>2
  <2>2. Newest' = Newest
    BY <2>1 DEF Newest
  <2>3. NewestNear(gap)'
    BY <1>3, <2>1, <2>2 DEF NewestNear
  <2>4. HandoffDense(gap)'
    BY <1>3, <2>1, KeptDense
  <2>5. QED
    BY <2>3, <2>4 DEF DenseInv
<1>9. CASE AcceptImu
  <2> DEFINE q == sync.imu
             t == msg.stamp
             r == Append(q, t)
  <2>1. /\ cb = "accept" /\ msg.kind = "imu" /\ initialized /\ t \in Stamps
        /\ cb' = "ready" /\ UNCHANGED <<queue, meas, source, msg>>
        /\ sync'.imu = r /\ sync'.lastImu = sync.lastImu
    BY <1>1, <1>9 DEF AcceptImu, PushedImu, SyncState, sourceVars, handOff, workerVars, TypeOK
  <2>2. /\ \A i \in DOMAIN q : q[i] <= t
        /\ q # <<>> => HoldsAll(heard, q) /\ \A u \in heard : u <= q[Len(q)]
        /\ q = <<>> => heard = {}
    BY <2>1 DEF OrderInv, BufferInOrder, ChainInv, BufferWhole, Newest
  <2>3. /\ t = source.imu /\ t = sync.lastImu
        /\ q # <<>> => t - q[Len(q)] <= gap
    BY <1>3, <2>1 DEF NewestNear, Newest
  <2>4. r[Len(r)] = t /\ Dense(gap, r)
    BY <1>1, <1>3, <2>1, <2>2, <2>3, PushedHolds DEF HandoffDense
  <2> HIDE DEF r
  <2>5. Newest' = t /\ t <= t
    BY <2>1, <2>4, ConstantsType DEF Newest
  <2>6. NewestNear(gap)'
    BY <2>1, <2>3, <2>5 DEF NewestNear
  <2>7. HandoffDense(gap)'
    BY <1>3, <2>1, <2>4 DEF HandoffDense
  <2>8. QED
    BY <2>6, <2>7 DEF DenseInv
<1>10. CASE ReleaseScan
  <2> DEFINE q == sync.imu
             g == Group(sync)
             left == Released(sync).imu
             r == Enqueued(queue, g)
  <2>1. /\ Releases(sync) /\ sync'.imu = left /\ queue' = r /\ q # <<>>
        /\ sync'.lastImu = sync.lastImu /\ cb = "ready" /\ cb' = "notifyScan"
        /\ UNCHANGED <<meas, source, msg>>
    BY <1>1, <1>10 DEF ReleaseScan, Enqueues, Releases, Released, SyncState
  <2>2. Sorted(q) /\ HoldsAll(heard, q) /\ QueueCovered(queue) /\ QueueLinked(heard, queue)
    BY <2>1 DEF OrderInv, BufferInOrder, QueueInOrder, ChainInv, BufferWhole, HandoffWhole
  <2>3. /\ Bracketed(g) /\ g.imu[1] = q[1]
        /\ left # <<>> /\ left[Len(left)] = q[Len(q)]
    BY <1>1, <2>1, <2>2, ReleasedCovered
  <2>4. /\ HoldsAll(heard, g.imu)
        /\ Dense(gap, g.imu) /\ Dense(gap, left)
    BY <1>1, <1>3, <2>1, <2>2, ReleasedHolds DEF HandoffDense
  <2>5. g \in MeasureGroup
    BY <1>1, <2>1, HeadStamp, ReleasedType DEF Releases
  <2>6. HeadsUpTo(queue, g.imu[1])
    <3>1. 1 \in DOMAIN q
      BY <1>1, <2>1, StampsInt
    <3>2. QED
      BY <2>3, <3>1 DEF OrderInv, QueueInOrder
  <2>7. queue # <<>> => g.imu[1] <= queue[Len(queue)].scan.stamp
    BY <2>1, <2>3 DEF ChainInv, LastReaches
  <2>8. QueueDense(gap, queue) /\ Dense(gap, meas.imu)
    BY <1>3 DEF HandoffDense
  <2>9. QueueDense(gap, r)
    BY <1>1, <2>2, <2>3, <2>4, <2>5, <2>6, <2>7, <2>8, EnqueuedLinked
  <2> HIDE DEF r, g, left
  <2>10. Newest' = Newest
    BY <2>1, <2>3 DEF Newest
  <2>11. NewestNear(gap)'
    BY <1>3, <2>1, <2>10 DEF NewestNear
  <2>12. HandoffDense(gap)'
    BY <2>1, <2>4, <2>8, <2>9 DEF HandoffDense
  <2>13. QED
    BY <2>11, <2>12 DEF DenseInv
<1>11. QED
  BY <1>1, <1>4, <1>5, <1>6, <1>7, <1>8, <1>9, <1>10, MessageDense, Steps, Zenon

(* All that holds of what the node hands over, of a LiDAR that steps by p or more
   and an IMU that steps by gap or less. *)
NodeInv(p, gap) == OrderInv /\ WorldInv /\ ChainInv /\ ScansApart(p) /\ DenseInv(gap)

LEMMA NodeInvInit == ASSUME NEW p \in Nat, NEW gap \in Int, Init PROVE NodeInv(p, gap)
BY OrderInvInit, WorldInvInit, InitChain, InitApart, InitDense DEF NodeInv

LEMMA NodeInvStep ==
  ASSUME NEW p \in Nat, NEW gap \in Int, LidarForward(p), ImuSteady(gap),
         NodeInv(p, gap), [Next]_vars
  PROVE  NodeInv(p, gap)'
<1>1. OrderInv /\ WorldInv /\ ChainInv /\ ScansApart(p) /\ DenseInv(gap)
  BY DEF NodeInv
<1>2. BufferedOfWorld /\ TypeOK
  BY <1>1 DEF WorldInv
<1>3. OrderInv' /\ WorldInv' /\ ChainInv'
  BY <1>1, <1>2, OrderInvStep, WorldInvStep, ChainStep
<1>4. ScansApart(p)' /\ DenseInv(gap)'
  BY <1>1, <1>2, ApartStep, DenseStep
<1>5. QED
  BY <1>3, <1>4 DEF NodeInv
=============================================================================
