----------------------------- MODULE ReplayProofs -----------------------------
(***************************************************************************)
(* TightReplay implements MeasureStream, for every recording whose topics  *)
(* move forward and every guard above zero: what the buffers, the pruning  *)
(* and the loop of drain() give is what the stamps alone define.           *)
(***************************************************************************)
EXTENDS TightReplay, FiniteSetTheorems, SequenceTheorems, TLAPS

(* In time order, repeated stamps allowed. *)
Forward(q) == \A i, j \in 1 .. Len(q) : i < j => q[i] <= q[j]

(* The last position whose stamp is t or earlier. *)
LastBy(q, t) ==
  CHOOSE i \in {n \in DOMAIN q : q[n] <= t} : \A j \in {n \in DOMAIN q : q[n] <= t} : i >= j

(* The first position whose stamp is t or later. *)
FirstFrom(q, t) ==
  CHOOSE i \in {n \in DOMAIN q : q[n] >= t} : \A j \in {n \in DOMAIN q : q[n] >= t} : i <= j

-----------------------------------------------------------------------------
(* Sequences.                                                               *)

LEMMA StampNat ==
  ASSUME NEW q \in Seq(Stamps)
  PROVE  /\ Len(q) \in Nat /\ DOMAIN q = 1 .. Len(q)
         /\ \A i \in 1 .. Len(q) : q[i] \in Stamps /\ q[i] \in Nat
         /\ q # <<>> => Len(q) >= 1 /\ Head(q) = q[1]
<1>1. Len(q) \in Nat /\ DOMAIN q = 1 .. Len(q)
  BY LenProperties
<1>2. \A i \in 1 .. Len(q) : q[i] \in Stamps
  BY ElementOfSeq
<1>3. q # <<>> => Len(q) >= 1
  BY EmptySeq
<1>4. q # <<>> => Head(q) = q[1]
  OBVIOUS
<1>5. QED
  BY <1>1, <1>2, <1>3, <1>4, ReplayAssumption

(* A nonempty set of naturals has a least element. *)
LEMMA LeastNatural ==
  ASSUME NEW T \in SUBSET Nat, T # {}
  PROVE  \E x \in T : \A y \in T : x <= y
<1> DEFINE F == {0 .. x : x \in T}
<1>1. F \subseteq FiniteSubsetsOf(Nat)
  <2>1. \A x \in T : IsFiniteSet(0 .. x) /\ 0 .. x \subseteq Nat
    BY FS_Interval
  <2>2. QED
    BY <2>1 DEF FiniteSubsetsOf
<1>2. PICK S \in F : \A U \in F : <<U, S>> \notin StrictSubsetOrdering(Nat)
  <2>1. F # {}
    OBVIOUS
  <2>2. QED
    BY <1>1, <2>1, FS_StrictSubsetOrderingWellFounded, WFMin
<1>3. PICK x \in T : S = 0 .. x
  OBVIOUS
<1>4. ASSUME NEW y \in T, y < x
      PROVE  FALSE
  <2>1. 0 .. y \in F /\ 0 .. y \subseteq 0 .. x /\ 0 .. y # 0 .. x
    BY <1>4
  <2>2. <<0 .. y, 0 .. x>> \in StrictSubsetOrdering(Nat)
    BY <2>1 DEF StrictSubsetOrdering
  <2>3. QED
    BY <2>1, <2>2, <1>2, <1>3
<1>5. QED
  BY <1>4

LEMMA FirstAtSpec ==
  ASSUME NEW q \in Seq(Stamps), NEW t \in Int
  PROVE  LET i == FirstAt(q, t)
         IN /\ i \in 1 .. Len(q) + 1
            /\ i <= Len(q) => q[i] >= t
            /\ \A j \in 1 .. i - 1 : q[j] < t
<1>1. Len(q) \in Nat /\ \A i \in 1 .. Len(q) : q[i] \in Nat
  BY StampNat
<1> DEFINE T == {i \in 1 .. Len(q) + 1 : i <= Len(q) => q[i] >= t}
<1>2. T \in SUBSET Nat /\ Len(q) + 1 \in T
  BY <1>1
<1>3. PICK i \in T : \A j \in T : i <= j
  BY <1>2, LeastNatural
<1>4. \A j \in 1 .. i - 1 : q[j] < t
  BY <1>1, <1>3
<1>5. \E k \in 1 .. Len(q) + 1 :
        (k <= Len(q) => q[k] >= t) /\ \A j \in 1 .. k - 1 : q[j] < t
  BY <1>3, <1>4
<1>6. QED
  BY <1>5 DEF FirstAt

(* The last position by t, from what is on either side of it. *)
LEMMA LastByIs ==
  ASSUME NEW q \in Seq(Stamps), NEW t \in Int, NEW m \in 1 .. Len(q),
         q[m] <= t, \A i \in m + 1 .. Len(q) : q[i] > t
  PROVE  LastBy(q, t) = m
<1> DEFINE T == {n \in DOMAIN q : q[n] <= t}
<1>1. Len(q) \in Nat /\ DOMAIN q = 1 .. Len(q) /\ \A i \in 1 .. Len(q) : q[i] \in Nat
  BY StampNat
<1>2. m \in T /\ \A j \in T : j \in Nat /\ m >= j
  BY <1>1
<1> HIDE DEF T
<1>3. \E i \in T : \A j \in T : i >= j
  BY <1>2
<1>4. LastBy(q, t) = CHOOSE i \in T : \A j \in T : i >= j
  BY Zenon DEF LastBy, T
<1>5. LastBy(q, t) \in T /\ \A j \in T : LastBy(q, t) >= j
  BY <1>3, <1>4
<1>6. PICK l \in T : l = LastBy(q, t) /\ l >= m
  BY <1>2, <1>5
<1>7. QED
  BY <1>1, <1>2, <1>6

(* It is there, if some stamp is by t, and in order the stamps past it are later. *)
LEMMA LastBySpec ==
  ASSUME NEW q \in Seq(Stamps), NEW t \in Int, q # <<>>, q[1] <= t
  PROVE  LET m == LastBy(q, t)
         IN /\ m \in 1 .. Len(q) /\ q[m] <= t
            /\ \A i \in m + 1 .. Len(q) : q[i] > t
<1>1. Len(q) \in Nat /\ Len(q) >= 1 /\ DOMAIN q = 1 .. Len(q)
      /\ \A i \in 1 .. Len(q) : q[i] \in Nat
  BY StampNat
<1> DEFINE T == {n \in 0 .. Len(q) - 1 : q[Len(q) - n] <= t}
<1>2. T \in SUBSET Nat /\ Len(q) - 1 \in T
  BY <1>1
<1>3. PICK n \in T : \A j \in T : n <= j
  BY <1>2, LeastNatural
<1>4. PICK m \in 1 .. Len(q) : m = Len(q) - n
  <2>1. n \in 0 .. Len(q) - 1
    BY <1>3
  <2>2. Len(q) - n \in 1 .. Len(q)
    BY <2>1, <1>1
  <2>3. QED
    BY <2>2
<1>5. q[m] <= t
  BY <1>1, <1>3, <1>4
<1>6. ASSUME NEW i \in m + 1 .. Len(q) PROVE q[i] > t
  <2>1. Len(q) - i \in 0 .. Len(q) - 1 /\ Len(q) - (Len(q) - i) = i
    BY <1>1, <1>4
  <2>2. ~(n <= Len(q) - i)
    BY <1>1, <1>3, <1>4
  <2>3. Len(q) - i \notin T
    BY <2>2, <1>3
  <2>4. ~(q[i] <= t)
    BY <2>1, <2>3
  <2>5. i \in 1 .. Len(q)
    BY <1>1, <1>4
  <2>6. QED
    BY <2>4, <2>5, <1>1
<1>7. LastBy(q, t) = m
  BY <1>5, <1>6, LastByIs
<1>8. QED
  BY <1>5, <1>6, <1>7

(* The end of a stream, from b on. *)
From(q, b) == SubSeq(q, b, Len(q))

LEMMA FromSpec ==
  ASSUME NEW q \in Seq(Stamps), NEW b \in 1 .. Len(q) + 1
  PROVE  /\ From(q, b) \in Seq(Stamps)
         /\ Len(From(q, b)) = Len(q) - b + 1
         /\ \A i \in 1 .. Len(q) - b + 1 : From(q, b)[i] = q[b + i - 1]
<1>1. Len(q) \in Nat /\ \A i \in 1 .. Len(q) : q[i] \in Stamps
  BY StampNat
<1>2. \A i \in b .. Len(q) : q[i] \in Stamps
  BY <1>1
<1>3. QED
  BY <1>1, <1>2, SubSeqProperties DEF From

(* A part of it is a part of the stream. *)
LEMMA PartOfFrom ==
  ASSUME NEW q \in Seq(Stamps), NEW b \in 1 .. Len(q) + 1,
         NEW m \in 1 .. Len(q) - b + 2, NEW n \in 0 .. Len(q) - b + 1
  PROVE  SubSeq(From(q, b), m, n) = SubSeq(q, b + m - 1, b + n - 1)
<1> DEFINE r == From(q, b)
           s == SubSeq(r, m, n)
           t == SubSeq(q, b + m - 1, b + n - 1)
<1>1. /\ Len(q) \in Nat /\ (\A i \in 1 .. Len(q) : q[i] \in Stamps)
      /\ Len(r) = Len(q) - b + 1 /\ \A i \in 1 .. Len(q) - b + 1 : r[i] = q[b + i - 1]
  BY StampNat, FromSpec
<1> HIDE DEF r
<1>2. \A i \in m .. n : r[i] \in Stamps /\ r[i] = q[b + i - 1]
  <2>1. \A i \in m .. n : i \in 1 .. Len(q) - b + 1 /\ b + i - 1 \in 1 .. Len(q)
    BY <1>1
  <2>2. QED
    BY <2>1, <1>1
<1>3. \A i \in b + m - 1 .. b + n - 1 : q[i] \in Stamps
  <2>1. \A i \in b + m - 1 .. b + n - 1 : i \in 1 .. Len(q)
    BY <1>1
  <2>2. QED
    BY <2>1, <1>1
<1>4. /\ s \in Seq(Stamps) /\ Len(s) = (IF m <= n THEN n - m + 1 ELSE 0)
      /\ \A i \in 1 .. n - m + 1 : s[i] = r[m + i - 1]
  BY <1>2, <1>1, SubSeqProperties
<1>5. /\ t \in Seq(Stamps)
      /\ Len(t) = (IF m <= n THEN n - m + 1 ELSE 0)
      /\ \A i \in 1 .. n - m + 1 : t[i] = q[b + m - 1 + i - 1]
  <2>1. b + m - 1 \in Int /\ b + n - 1 \in Int
    BY <1>1
  <2>2. /\ t \in Seq(Stamps)
        /\ Len(t) = IF b + m - 1 <= b + n - 1 THEN (b + n - 1) - (b + m - 1) + 1 ELSE 0
        /\ \A i \in 1 .. (b + n - 1) - (b + m - 1) + 1 : t[i] = q[b + m - 1 + i - 1]
    BY <2>1, <1>3, SubSeqProperties
  <2>3. /\ (b + n - 1) - (b + m - 1) + 1 = n - m + 1
        /\ b + m - 1 <= b + n - 1 <=> m <= n
    BY <1>1
  <2>4. QED
    BY <2>2, <2>3
<1> HIDE DEF s, t
<1>6. ASSUME NEW i \in 1 .. Len(s) PROVE s[i] = t[i]
  <2>1. m <= n /\ i \in 1 .. n - m + 1
    BY <1>4, <1>6, <1>1
  <2>2. m + i - 1 \in m .. n /\ b + (m + i - 1) - 1 = b + m - 1 + i - 1
    BY <2>1, <1>1
  <2>3. QED
    BY <2>1, <2>2, <1>2, <1>4, <1>5
<1>7. QED
  BY <1>4, <1>5, <1>6, SeqEqual DEF s, t, r

(* A stream that grows, grows at its end. *)
LEMMA FromAppend ==
  ASSUME NEW q \in Seq(Stamps), NEW t \in Stamps, NEW b \in 1 .. Len(q) + 1
  PROVE  From(Append(q, t), b) = Append(From(q, b), t)
<1> DEFINE p == Append(q, t)
           r == From(p, b)
           s == Append(From(q, b), t)
<1>1. /\ Len(q) \in Nat /\ p \in Seq(Stamps) /\ Len(p) = Len(q) + 1
      /\ \A i \in 1 .. Len(q) : p[i] = q[i]
      /\ p[Len(q) + 1] = t
  BY StampNat, AppendProperties
<1> HIDE DEF p
<1>2. b \in 1 .. Len(p) + 1
  BY <1>1
<1>3. r \in Seq(Stamps) /\ Len(r) = Len(p) - b + 1
      /\ \A i \in 1 .. Len(p) - b + 1 : r[i] = p[b + i - 1]
  BY <1>1, <1>2, FromSpec
<1>4. From(q, b) \in Seq(Stamps) /\ Len(From(q, b)) = Len(q) - b + 1
      /\ \A i \in 1 .. Len(q) - b + 1 : From(q, b)[i] = q[b + i - 1]
  BY FromSpec
<1>5. /\ s \in Seq(Stamps) /\ Len(s) = Len(q) - b + 2
      /\ \A i \in 1 .. Len(q) - b + 1 : s[i] = q[b + i - 1]
      /\ s[Len(q) - b + 2] = t
  <2>1. PICK f \in Seq(Stamps) : f = From(q, b)
    BY <1>4
  <2>2. /\ Append(f, t) \in Seq(Stamps) /\ Len(Append(f, t)) = Len(f) + 1
        /\ \A i \in 1 .. Len(f) : Append(f, t)[i] = f[i]
        /\ Append(f, t)[Len(f) + 1] = t
    BY AppendProperties
  <2>3. Len(f) = Len(q) - b + 1 /\ Len(f) + 1 = Len(q) - b + 2
    BY <1>1, <1>4, <2>1
  <2>4. QED
    BY <2>1, <2>2, <2>3, <1>4
<1> HIDE DEF r, s
<1>6. ASSUME NEW i \in 1 .. Len(r) PROVE r[i] = s[i]
  <2>1. i \in 1 .. Len(p) - b + 1
    BY <1>3
  <2>2. CASE i = Len(q) - b + 2
    <3>1. b + i - 1 = Len(q) + 1
      BY <2>2, <1>1
    <3>2. QED
      BY <2>1, <2>2, <3>1, <1>1, <1>3, <1>5
  <2>3. CASE i # Len(q) - b + 2
    <3>1. i \in 1 .. Len(q) - b + 1 /\ b + i - 1 \in 1 .. Len(q)
      BY <2>1, <2>3, <1>1
    <3>2. QED
      BY <2>1, <3>1, <1>1, <1>3, <1>5
  <2>4. QED
    BY <2>2, <2>3
<1>7. Len(r) = Len(s)
  BY <1>1, <1>3, <1>5
<1>8. QED
  BY <1>3, <1>5, <1>6, <1>7, SeqEqual DEF p, r, s

(* The first position from t, from what is on either side of it. *)
LEMMA FirstFromIs ==
  ASSUME NEW q \in Seq(Stamps), NEW t \in Int, NEW m \in 1 .. Len(q),
         q[m] >= t, \A i \in 1 .. m - 1 : q[i] < t
  PROVE  FirstFrom(q, t) = m
<1> DEFINE T == {n \in DOMAIN q : q[n] >= t}
<1>1. Len(q) \in Nat /\ DOMAIN q = 1 .. Len(q) /\ \A i \in 1 .. Len(q) : q[i] \in Nat
  BY StampNat
<1>2. m \in T /\ \A j \in T : j \in Nat /\ m <= j
  <2>1. ASSUME NEW j \in T PROVE j \in Nat /\ m <= j
    <3>1. j \in 1 .. Len(q) /\ q[j] >= t /\ q[j] \in Nat
      BY <1>1
    <3>2. ~(j \in 1 .. m - 1)
      BY <3>1
    <3>3. QED
      BY <3>1, <3>2, <1>1
  <2>2. QED
    BY <2>1, <1>1
<1> HIDE DEF T
<1>3. \E i \in T : \A j \in T : i <= j
  BY <1>2
<1>4. FirstFrom(q, t) = CHOOSE i \in T : \A j \in T : i <= j
  BY Zenon DEF FirstFrom, T
<1>5. FirstFrom(q, t) \in T /\ \A j \in T : FirstFrom(q, t) <= j
  BY <1>3, <1>4
<1>6. PICK l \in T : l = FirstFrom(q, t) /\ l <= m
  BY <1>2, <1>5
<1>7. QED
  BY <1>1, <1>2, <1>6
-----------------------------------------------------------------------------
(* The invariant.                                                           *)

SyncType ==
  [imu : Seq(Stamps), lidar : Seq([stamp : Stamps]),
   lastImu : {NoStamp}, lastLidar : {NoStamp}]

(* How many scans have left the buffer, and where in its stream the IMU's begins. *)
Gone == Len(scans) - Len(sync.lidar)
Base == IF last = 0 THEN 1 ELSE LastBy(imu, scans[last])

ReplayTyped ==
  /\ imu \in Seq(Stamps) /\ scans \in Seq(Stamps) /\ sync \in SyncType
  /\ source \in [{"imu", "lidar"} -> Stamps \cup {NoStamp}]
  /\ last \in Nat /\ last <= Gone

(* Both streams are in time order, up to the latest message read. *)
InTime ==
  /\ Forward(imu) /\ \A i \in 1 .. Len(imu) : imu[i] <= source["imu"]
  /\ Forward(scans) /\ \A i \in 1 .. Len(scans) : scans[i] <= source["lidar"]

(* The buffers are the ends of the streams. *)
BuffersAreEnds ==
  /\ sync.imu = From(imu, Base)
  /\ \A j \in 1 .. Len(sync.lidar) : sync.lidar[j].stamp = scans[Gone + j]

(* The IMU covers the scan last taken, on both sides of it. *)
LastCovered ==
  last > 0 => /\ imu # <<>> /\ imu[1] <= scans[last]
              /\ imu[Len(imu)] >= scans[last] + ScanGuard

(* The scans that left the buffer without being taken have no IMU before them. *)
SkippedUnusable == \A k \in last + 1 .. Gone : imu # <<>> /\ imu[1] > scans[k]

ReplayInv == ReplayTyped /\ InTime /\ BuffersAreEnds /\ LastCovered /\ SkippedUnusable

(* Positions and stamps, as numbers. *)
LEMMA Counts ==
  ASSUME ReplayTyped
  PROVE  /\ Len(imu) \in Nat /\ Len(scans) \in Nat /\ Len(sync.lidar) \in Nat
         /\ (\A i \in 1 .. Len(imu) : imu[i] \in Nat)
         /\ (\A i \in 1 .. Len(scans) : scans[i] \in Nat)
         /\ Gone \in Nat /\ Gone + Len(sync.lidar) = Len(scans)
         /\ last > 0 => last \in 1 .. Len(scans) /\ scans[last] \in Nat
<1>1. /\ Len(imu) \in Nat /\ Len(scans) \in Nat
      /\ (\A i \in 1 .. Len(imu) : imu[i] \in Nat)
      /\ (\A i \in 1 .. Len(scans) : scans[i] \in Nat)
  BY StampNat DEF ReplayTyped
<1>2. Len(sync.lidar) \in Nat
  <2>1. sync.lidar \in Seq([stamp : Stamps])
    BY DEF ReplayTyped, SyncType
  <2>2. QED
    BY <2>1, LenProperties
<1>3. last \in Nat /\ last <= Gone
  BY DEF ReplayTyped
<1>4. QED
  BY <1>1, <1>2, <1>3 DEF Gone

LEMMA BaseSpec ==
  ASSUME ReplayTyped, LastCovered
  PROVE  /\ Base \in 1 .. Len(imu) + 1
         /\ last > 0 => /\ Base \in 1 .. Len(imu) /\ imu[Base] <= scans[last]
                        /\ \A i \in Base + 1 .. Len(imu) : imu[i] > scans[last]
<1>1. imu \in Seq(Stamps) /\ last \in Nat
  BY DEF ReplayTyped
<1>2. CASE last = 0
  BY <1>1, <1>2, Counts DEF Base
<1>3. CASE last > 0
  <2>1. scans[last] \in Int /\ imu # <<>> /\ imu[1] <= scans[last]
    BY <1>3, Counts DEF LastCovered
  <2>2. Base = LastBy(imu, scans[last])
    BY <1>3 DEF Base
  <2>3. QED
    BY <1>1, <2>1, <2>2, LastBySpec, Counts, SMTT(30)
<1>4. QED
  BY <1>1, <1>2, <1>3

(* A message read is not before those of its topic. *)
LEMMA NotBefore ==
  ASSUME ReplayTyped, InTime, NEW t \in Stamps
  PROVE  /\ Read("imu", t) =>
              /\ \A i \in 1 .. Len(imu) : imu[i] <= t
              /\ source' = [source EXCEPT !["imu"] = t]
         /\ Read("lidar", t) =>
              /\ \A i \in 1 .. Len(scans) : scans[i] <= t
              /\ source' = [source EXCEPT !["lidar"] = t]
<1>1. t \in Nat /\ \A k \in {"imu", "lidar"} : source[k] \in Nat \cup {NoStamp}
  BY ReplayAssumption DEF ReplayTyped
<1>2. ASSUME NEW k \in {"imu", "lidar"}, Read(k, t)
      PROVE  source[k] = NoStamp \/ source[k] <= t
  <2>1. source[k] # NoStamp => t - source[k] \in Nat
    BY <1>2, ReplayAssumption DEF Read
  <2>2. QED
    BY <2>1, <1>1
<1>3. /\ (\A i \in 1 .. Len(imu) : imu[i] \in Nat /\ imu[i] <= source["imu"])
      /\ (\A i \in 1 .. Len(scans) : scans[i] \in Nat /\ scans[i] <= source["lidar"])
  BY Counts DEF InTime
<1>4. ASSUME Read("imu", t) PROVE \A i \in 1 .. Len(imu) : imu[i] <= t
  BY <1>1, <1>2, <1>3, <1>4 DEF NoStamp
<1>5. ASSUME Read("lidar", t) PROVE \A i \in 1 .. Len(scans) : scans[i] <= t
  BY <1>1, <1>2, <1>3, <1>5 DEF NoStamp
<1>6. QED
  BY <1>4, <1>5 DEF Read

(* Stamps that move forward stay in order as one is added. *)
LEMMA ForwardAppend ==
  ASSUME NEW q \in Seq(Stamps), Forward(q), NEW t \in Stamps, \A i \in 1 .. Len(q) : q[i] <= t
  PROVE  /\ Append(q, t) \in Seq(Stamps) /\ Len(Append(q, t)) = Len(q) + 1
         /\ \A i \in 1 .. Len(q) : Append(q, t)[i] = q[i]
         /\ Append(q, t)[Len(q) + 1] = t
         /\ Forward(Append(q, t))
         /\ \A i \in 1 .. Len(Append(q, t)) : Append(q, t)[i] <= t
<1>1. PICK p : p = Append(q, t)
  OBVIOUS
<1>2. /\ Len(q) \in Nat /\ t \in Nat /\ p \in Seq(Stamps) /\ Len(p) = Len(q) + 1
      /\ (\A i \in 1 .. Len(q) : p[i] = q[i] /\ q[i] \in Nat)
      /\ p[Len(q) + 1] = t
  BY <1>1, StampNat, AppendProperties, ReplayAssumption
<1>3. \A i \in 1 .. Len(p) : p[i] <= t
  <2>1. ASSUME NEW i \in 1 .. Len(p) PROVE p[i] <= t
    <3>1. i \in 1 .. Len(q) \/ i = Len(q) + 1
      BY <1>2
    <3>2. QED
      BY <3>1, <1>2
  <2>2. QED
    BY <2>1
<1>4. ASSUME NEW i \in 1 .. Len(p), NEW j \in 1 .. Len(p), i < j PROVE p[i] <= p[j]
  <2>1. i \in 1 .. Len(q) /\ (j \in 1 .. Len(q) \/ j = Len(q) + 1)
    BY <1>2, <1>4
  <2>2. CASE j \in 1 .. Len(q)
    BY <2>1, <2>2, <1>2, <1>4 DEF Forward
  <2>3. CASE j = Len(q) + 1
    BY <2>3, <1>2, <1>3
  <2>4. QED
    BY <2>1, <2>2, <2>3
<1>5. Forward(p)
  BY <1>4 DEF Forward
<1>6. QED
  BY <1>1, <1>2, <1>3, <1>5
-----------------------------------------------------------------------------
(* One action after the other.                                              *)

LEMMA InitReplay == Init => ReplayInv
<1> SUFFICES ASSUME Init PROVE ReplayInv
  OBVIOUS
<1>1. /\ imu = <<>> /\ scans = <<>> /\ last = 0 /\ sync = Cleared
      /\ source = [imu |-> NoStamp, lidar |-> NoStamp]
  BY DEF Init
<1>2. sync.imu = <<>> /\ sync.lidar = <<>> /\ Len(<<>>) = 0 /\ sync \in SyncType
  BY <1>1, EmptySeq DEF Cleared, SyncType
<1>3. Gone = 0
  BY <1>1, <1>2 DEF Gone
<1>4. ReplayTyped
  BY <1>1, <1>2, <1>3, EmptySeq DEF ReplayTyped
<1>5. InTime
  BY <1>1, <1>2 DEF InTime, Forward
<1>6. BuffersAreEnds
  <2>1. From(<<>>, 1) = <<>>
    BY <1>2, SubSeqEmpty DEF From
  <2>2. QED
    BY <1>1, <1>2, <2>1 DEF BuffersAreEnds, Base
<1>7. QED
  BY <1>1, <1>3, <1>4, <1>5, <1>6 DEF ReplayInv, LastCovered, SkippedUnusable

(* What is read before the initialisation leaves the buffers alone. *)
LEMMA IgnoredStep ==
  ASSUME ReplayInv, NEW t \in Stamps, InitSample(t) \/ IgnoredScan(t)
  PROVE  ReplayInv'
<1>1. UNCHANGED <<sync, imu, scans, last>>
  BY DEF InitSample, IgnoredScan, history
<1>2. /\ source \in [{"imu", "lidar"} -> Stamps \cup {NoStamp}]
      /\ imu \in Seq(Stamps) /\ scans \in Seq(Stamps)
  BY DEF ReplayInv, ReplayTyped
<1>3. \/ Read("imu", t) /\ source' = [source EXCEPT !["imu"] = t]
      \/ Read("lidar", t) /\ source' = [source EXCEPT !["lidar"] = t]
  BY NotBefore DEF InitSample, IgnoredScan, ReplayInv
<1>4. source' \in [{"imu", "lidar"} -> Stamps \cup {NoStamp}]
  BY <1>2, <1>3
<1>5. /\ \A i \in 1 .. Len(imu) : imu[i] <= source'["imu"]
      /\ \A i \in 1 .. Len(scans) : scans[i] <= source'["lidar"]
  BY <1>2, <1>3, NotBefore DEF ReplayInv, InTime
<1>6. ReplayTyped' /\ InTime'
  BY <1>1, <1>4, <1>5 DEF ReplayInv, ReplayTyped, InTime, Gone
<1>7. QED
  BY <1>1, <1>6 DEF ReplayInv, BuffersAreEnds, Base, Gone, LastCovered, SkippedUnusable

LEMMA ImuStep ==
  ASSUME ScanGuard > 0, ReplayInv, NEW t \in Stamps, ImuMessage(t)
  PROVE  ReplayInv'
<1> USE DEF ReplayInv
<1>1. /\ Read("imu", t) /\ imu' = Append(imu, t) /\ sync' = PushedImu(sync, t)
      /\ UNCHANGED <<scans, last>>
  BY DEF ImuMessage
<1>2. /\ imu \in Seq(Stamps) /\ scans \in Seq(Stamps) /\ sync \in SyncType /\ Forward(imu)
      /\ source \in [{"imu", "lidar"} -> Stamps \cup {NoStamp}]
      /\ \A i \in 1 .. Len(imu) : imu[i] <= t
      /\ source' = [source EXCEPT !["imu"] = t]
  BY <1>1, NotBefore DEF ReplayTyped, InTime
<1>3. /\ imu' \in Seq(Stamps) /\ Len(imu') = Len(imu) + 1
      /\ \A i \in 1 .. Len(imu) : imu'[i] = imu[i]
      /\ imu'[Len(imu) + 1] = t
      /\ Forward(imu') /\ \A i \in 1 .. Len(imu') : imu'[i] <= t
  BY <1>1, <1>2, ForwardAppend
<1>4. sync'.imu = Append(sync.imu, t) /\ sync'.lidar = sync.lidar /\ sync' \in SyncType
  BY <1>1, <1>2, AppendProperties DEF PushedImu, SyncType
<1>5. Gone' = Gone
  BY <1>1, <1>4 DEF Gone
<1>6. ReplayTyped' /\ InTime'
  BY <1>1, <1>2, <1>3, <1>4, <1>5 DEF ReplayTyped, InTime
<1>7. LastCovered'
  <2>1. SUFFICES ASSUME last > 0
                 PROVE  /\ imu' # <<>> /\ imu'[1] <= scans[last]
                        /\ imu'[Len(imu')] >= scans[last] + ScanGuard
    BY <1>1 DEF LastCovered
  <2>2. /\ imu # <<>> /\ imu[1] <= scans[last] /\ imu[Len(imu)] >= scans[last] + ScanGuard
        /\ scans[last] \in Nat
    BY <2>1, Counts DEF LastCovered
  <2>3. Len(imu) \in Nat /\ Len(imu) >= 1 /\ imu[Len(imu)] \in Nat /\ t \in Nat
    BY <1>2, <2>2, StampNat, ReplayAssumption
  <2>4. imu'[1] = imu[1] /\ imu'[Len(imu')] = t /\ imu[Len(imu)] <= t
    BY <1>2, <1>3, <2>3
  <2>5. imu' # <<>>
    BY <1>3, <2>3, EmptySeq
  <2>6. t >= scans[last] + ScanGuard
    BY <2>2, <2>3, <2>4, SyncAssumption
  <2>7. QED
    BY <2>2, <2>4, <2>5, <2>6
<1>8. SkippedUnusable'
  <2>1. SUFFICES ASSUME NEW k \in last + 1 .. Gone PROVE imu' # <<>> /\ imu'[1] > scans[k]
    BY <1>1, <1>5 DEF SkippedUnusable
  <2>2. imu # <<>> /\ imu[1] > scans[k]
    BY DEF SkippedUnusable
  <2>3. Len(imu) \in Nat /\ Len(imu) >= 1
    BY <1>2, <2>2, StampNat
  <2>4. imu' # <<>>
    BY <1>3, <2>3, EmptySeq
  <2>5. QED
    BY <1>3, <2>2, <2>3, <2>4
<1>9. Base' = Base
  <2>1. CASE last = 0
    BY <2>1, <1>1 DEF Base
  <2>2. CASE last > 0
    <3>1. /\ Base \in 1 .. Len(imu) /\ imu[Base] <= scans[last]
          /\ \A i \in Base + 1 .. Len(imu) : imu[i] > scans[last]
      BY <2>2, BaseSpec
    <3>2. /\ Len(imu) \in Nat /\ scans[last] \in Nat /\ t \in Nat
          /\ imu[Len(imu)] >= scans[last] + ScanGuard /\ imu[Len(imu)] \in Nat
      BY <2>2, <3>1, Counts, ReplayAssumption DEF LastCovered
    <3>3. t > scans[last]
      BY <1>2, <3>1, <3>2, SyncAssumption
    <3>4. ASSUME NEW i \in Base + 1 .. Len(imu') PROVE imu'[i] > scans[last]
      <4>1. i \in Base + 1 .. Len(imu) \/ i = Len(imu) + 1
        BY <1>3, <3>1, <3>2
      <4>2. \A j \in Base + 1 .. Len(imu) : j \in 1 .. Len(imu)
        BY <3>1, <3>2
      <4>3. QED
        BY <4>1, <4>2, <1>3, <3>1, <3>3
    <3>5. Base \in 1 .. Len(imu') /\ imu'[Base] <= scans[last]
      BY <1>3, <3>1, <3>2
    <3>6. LastBy(imu', scans[last]) = Base
      BY <1>3, <3>2, <3>4, <3>5, LastByIs
    <3>7. QED
      BY <2>2, <3>6, <1>1 DEF Base
  <2>3. QED
    BY <2>1, <2>2 DEF ReplayTyped
<1>10. BuffersAreEnds'
  <2>1. sync.imu = From(imu, Base) /\ Base \in 1 .. Len(imu) + 1
    BY BaseSpec DEF BuffersAreEnds
  <2>2. From(Append(imu, t), Base) = Append(From(imu, Base), t)
    BY <1>2, <2>1, FromAppend
  <2>3. QED
    BY <1>1, <1>4, <1>5, <1>9, <2>1, <2>2 DEF BuffersAreEnds
<1>11. QED
  BY <1>6, <1>7, <1>8, <1>10

LEMMA LidarStep ==
  ASSUME ReplayInv, NEW t \in Stamps, LidarMessage(t)
  PROVE  ReplayInv'
<1> USE DEF ReplayInv
<1>1. /\ Read("lidar", t) /\ scans' = Append(scans, t)
      /\ sync' = PushedLidar(sync, [stamp |-> t])
      /\ UNCHANGED <<imu, last>>
  BY DEF LidarMessage
<1>2. /\ imu \in Seq(Stamps) /\ scans \in Seq(Stamps) /\ sync \in SyncType /\ Forward(scans)
      /\ source \in [{"imu", "lidar"} -> Stamps \cup {NoStamp}]
      /\ \A i \in 1 .. Len(scans) : scans[i] <= t
      /\ source' = [source EXCEPT !["lidar"] = t]
  BY <1>1, NotBefore DEF ReplayTyped, InTime
<1>3. /\ scans' \in Seq(Stamps) /\ Len(scans') = Len(scans) + 1
      /\ \A i \in 1 .. Len(scans) : scans'[i] = scans[i]
      /\ scans'[Len(scans) + 1] = t
      /\ Forward(scans') /\ \A i \in 1 .. Len(scans') : scans'[i] <= t
  BY <1>1, <1>2, ForwardAppend
<1>4. /\ sync'.imu = sync.imu /\ sync'.lidar = Append(sync.lidar, [stamp |-> t])
      /\ sync.lidar \in Seq([stamp : Stamps])
  BY <1>1, <1>2 DEF PushedLidar, SyncType
<1>5. /\ sync'.lidar \in Seq([stamp : Stamps])
      /\ Len(sync'.lidar) = Len(sync.lidar) + 1
      /\ \A j \in 1 .. Len(sync.lidar) : sync'.lidar[j] = sync.lidar[j]
      /\ sync'.lidar[Len(sync.lidar) + 1] = [stamp |-> t]
  BY <1>4, AppendProperties
<1>6. sync' \in SyncType
  BY <1>1, <1>2, <1>5 DEF PushedLidar, SyncType
<1>7. Gone' = Gone /\ Gone \in Nat /\ Gone + Len(sync.lidar) = Len(scans)
      /\ Len(sync.lidar) \in Nat
  BY <1>3, <1>5, Counts DEF Gone
<1>8. ReplayTyped' /\ InTime'
  BY <1>1, <1>2, <1>3, <1>6, <1>7 DEF ReplayTyped, InTime
<1>9. last > 0 => scans'[last] = scans[last]
  BY <1>3, Counts
<1>10. Base' = Base
  <2>1. CASE last = 0
    BY <2>1, <1>1 DEF Base
  <2>2. CASE last > 0
    BY <2>2, <1>1, <1>9 DEF Base
  <2>3. QED
    BY <2>1, <2>2 DEF ReplayTyped
<1>11. LastCovered'
  BY <1>1, <1>9 DEF LastCovered
<1>12. SkippedUnusable'
  <2>1. \A k \in last + 1 .. Gone : k \in 1 .. Len(scans)
    BY <1>7, Counts DEF ReplayTyped
  <2>2. QED
    BY <1>1, <1>3, <1>7, <2>1 DEF SkippedUnusable
<1>13. BuffersAreEnds'
  <2>1. ASSUME NEW j \in 1 .. Len(sync'.lidar) PROVE sync'.lidar[j].stamp = scans'[Gone + j]
    <3>1. CASE j \in 1 .. Len(sync.lidar)
      <4>1. Gone + j \in 1 .. Len(scans)
        BY <3>1, <1>7
      <4>2. QED
        BY <3>1, <4>1, <1>3, <1>5 DEF BuffersAreEnds
    <3>2. CASE j = Len(sync.lidar) + 1
      <4>1. Gone + j = Len(scans) + 1
        BY <3>2, <1>7
      <4>2. QED
        BY <3>2, <4>1, <1>3, <1>5
    <3>3. QED
      BY <3>1, <3>2, <1>5, <1>7
  <2>2. QED
    BY <2>1, <1>1, <1>4, <1>7, <1>10 DEF BuffersAreEnds
<1>14. QED
  BY <1>8, <1>11, <1>12, <1>13

(* What next() looks at: the front scan, and both ends of the IMU buffer. *)
LEMMA Front ==
  ASSUME ReplayInv, sync.lidar # <<>>, sync.imu # <<>>
  PROVE  /\ Gone + 1 \in 1 .. Len(scans) /\ ScanStamp(sync) = scans[Gone + 1]
         /\ Base \in 1 .. Len(imu) /\ imu # <<>>
         /\ Head(sync.imu) = imu[Base] /\ Back(sync.imu) = imu[Len(imu)]
         /\ Tail(sync.lidar) \in Seq([stamp : Stamps])
         /\ Len(Tail(sync.lidar)) = Len(sync.lidar) - 1
         /\ \A j \in 1 .. Len(sync.lidar) - 1 : Tail(sync.lidar)[j] = sync.lidar[j + 1]
<1> USE DEF ReplayInv
<1>1. /\ imu \in Seq(Stamps) /\ sync.imu \in Seq(Stamps)
      /\ sync.lidar \in Seq([stamp : Stamps])
  BY DEF ReplayTyped, SyncType
<1>2. Len(sync.lidar) \in Nat /\ Len(sync.lidar) >= 1 /\ Head(sync.lidar) = sync.lidar[1]
  BY <1>1, EmptySeq, LenProperties
<1>3. /\ Gone \in Nat /\ Gone + Len(sync.lidar) = Len(scans) /\ Len(scans) \in Nat
      /\ Len(imu) \in Nat
  BY Counts
<1>4. Gone + 1 \in 1 .. Len(scans) /\ ScanStamp(sync) = scans[Gone + 1]
  BY <1>2, <1>3 DEF BuffersAreEnds, ScanStamp
<1>5. PICK q \in Seq(Stamps) : q = sync.imu
  BY <1>1
<1>6. Len(q) \in Nat /\ Len(q) >= 1 /\ Head(q) = q[1]
  BY <1>5, StampNat
<1>7. PICK b \in 1 .. Len(imu) + 1 : b = Base
  BY BaseSpec
<1>8. Len(q) = Len(imu) - b + 1 /\ \A i \in 1 .. Len(imu) - b + 1 : q[i] = imu[b + i - 1]
  BY <1>1, <1>5, <1>7, FromSpec, ZenonT(30) DEF BuffersAreEnds
<1>9. b \in 1 .. Len(imu)
  BY <1>3, <1>6, <1>8
<1>10. q[1] = imu[b] /\ q[Len(q)] = imu[Len(imu)]
  <2>1. 1 \in 1 .. Len(imu) - b + 1 /\ b + 1 - 1 = b
    BY <1>3, <1>9
  <2>2. Len(q) \in 1 .. Len(imu) - b + 1 /\ b + Len(q) - 1 = Len(imu)
    BY <1>3, <1>6, <1>8, <1>9
  <2>3. QED
    BY <2>1, <2>2, <1>8
<1>11. imu # <<>>
  BY <1>9, <1>3, EmptySeq
<1>12. /\ Tail(sync.lidar) \in Seq([stamp : Stamps])
       /\ Len(Tail(sync.lidar)) = Len(sync.lidar) - 1
       /\ \A j \in 1 .. Len(sync.lidar) - 1 : Tail(sync.lidar)[j] = sync.lidar[j + 1]
  <2>1. PICK l \in Seq([stamp : Stamps]) : l = sync.lidar /\ l # <<>>
    BY <1>1
  <2>2. /\ Tail(l) \in Seq([stamp : Stamps]) /\ Len(Tail(l)) = Len(l) - 1
        /\ \A j \in 1 .. Len(l) - 1 : Tail(l)[j] = l[j + 1]
    BY <2>1, HeadTailProperties
  <2>3. QED
    BY <2>1, <2>2
<1>13. QED
  BY <1>4, <1>5, <1>6, <1>7, <1>9, <1>10, <1>11, <1>12 DEF Back

(* A scan that is taken: what covers it, and where its own last sample by its start is. *)
LEMMA Taken ==
  ASSUME ScanGuard > 0, ReplayInv, Process
  PROVE  LET n == Gone + 1
             m == LastBy(imu, scans[n])
         IN /\ n \in 1 .. Len(scans) /\ scans[n] \in Nat /\ last' = n /\ Gone' = n
            /\ imu # <<>> /\ imu[1] <= scans[n] /\ imu[Len(imu)] >= scans[n] + ScanGuard
            /\ Base \in 1 .. m /\ m \in 1 .. Len(imu)
            /\ sync'.imu = From(imu, m)
            /\ meas' = [scan |-> scans[n],
                        imu |-> SubSeq(imu, Base, FirstFrom(imu, scans[n] + ScanGuard))]
<1> USE DEF ReplayInv
<1>1. /\ sync.lidar # <<>> /\ sync.imu # <<>>
      /\ Head(sync.imu) <= ScanStamp(sync) /\ Back(sync.imu) >= GuardedEnd(sync)
      /\ sync' = Released(sync) /\ last' = Len(scans) - Len(sync'.lidar)
      /\ meas' = [scan |-> ScanStamp(sync), imu |-> Group(sync).imu]
      /\ UNCHANGED <<imu, scans>>
  BY DEF Process, Releases
<1>2. PICK n \in 1 .. Len(scans) : n = Gone + 1
  BY <1>1, Front
<1>3. PICK t \in Nat : t = scans[n] /\ t = ScanStamp(sync)
  BY <1>1, <1>2, Front, Counts
<1>4. PICK b \in 1 .. Len(imu) : b = Base
  BY <1>1, Front
<1>5. PICK q \in Seq(Stamps) : q = sync.imu /\ q = From(imu, b)
  BY <1>4 DEF ReplayTyped, SyncType, BuffersAreEnds
<1>6. /\ imu \in Seq(Stamps) /\ Len(imu) \in Nat /\ Forward(imu)
      /\ \A i \in 1 .. Len(imu) : imu[i] \in Nat
  BY Counts DEF ReplayTyped, InTime
<1>7. imu # <<>> /\ imu[b] <= t /\ imu[Len(imu)] >= t + ScanGuard
  BY <1>1, <1>3, <1>4, Front DEF GuardedEnd
<1>8. imu[1] <= t
  <2>1. b = 1 \/ imu[1] <= imu[b]
    BY <1>4, <1>6 DEF Forward
  <2>2. 1 \in 1 .. Len(imu)
    BY <1>4, <1>6
  <2>3. QED
    BY <2>1, <2>2, <1>4, <1>6, <1>7
<1>9. /\ Len(q) = Len(imu) - b + 1 /\ Len(q) \in Nat
      /\ \A i \in 1 .. Len(q) : q[i] = imu[b + i - 1] /\ q[i] \in Nat
  <2>1. b \in 1 .. Len(imu) + 1
    BY <1>4, <1>6
  <2>2. /\ Len(q) = Len(imu) - b + 1
        /\ \A i \in 1 .. Len(imu) - b + 1 : q[i] = imu[b + i - 1]
    BY <2>1, <1>5, <1>6, FromSpec
  <2>3. Len(q) \in Nat /\ \A i \in 1 .. Len(q) : q[i] \in Nat
    BY StampNat
  <2>4. QED
    BY <2>2, <2>3
<1>10. ScanGuard \in Nat
  BY SyncAssumption
<1>11. PICK e \in 1 .. Len(q) + 1 :
         /\ e = FirstAt(q, t + 1) /\ (e <= Len(q) => q[e] >= t + 1)
         /\ \A j \in 1 .. e - 1 : q[j] < t + 1
  <2>1. t + 1 \in Int
    OBVIOUS
  <2>2. /\ FirstAt(q, t + 1) \in 1 .. Len(q) + 1
        /\ FirstAt(q, t + 1) <= Len(q) => q[FirstAt(q, t + 1)] >= t + 1
        /\ \A j \in 1 .. FirstAt(q, t + 1) - 1 : q[j] < t + 1
    BY <2>1, FirstAtSpec
  <2>3. QED
    BY <2>2
<1>12. q[1] <= t /\ q[Len(q)] >= t + 1 /\ Len(q) >= 1
  <2>1. 1 \in 1 .. Len(q) /\ b + 1 - 1 = b /\ Len(q) \in 1 .. Len(q)
        /\ b + Len(q) - 1 = Len(imu)
    BY <1>4, <1>6, <1>9
  <2>2. QED
    <3>1. Len(q) >= 1 /\ q[1] = imu[b]
      BY <2>1, <1>4, <1>6, <1>9
    <3>2. q[Len(q)] = imu[Len(imu)] /\ imu[Len(imu)] \in Nat
      BY <2>1, <3>1, <1>6, <1>9
    <3>3. QED
      BY <3>1, <3>2, <1>7, <1>10
<1>13. e \in 2 .. Len(q)
  <2>1. Len(q) \in 1 .. Len(q) /\ 1 \in 1 .. Len(q) /\ q[1] \in Nat /\ q[Len(q)] \in Nat
    BY <1>9, <1>12
  <2>2. e # 1
    BY <2>1, <1>11, <1>12
  <2>3. ~(Len(q) \in 1 .. e - 1)
    BY <2>1, <1>11, <1>12
  <2>4. QED
    BY <2>2, <2>3, <1>9, <1>12
<1>14. PICK m \in b .. Len(imu) : m = b + e - 2
  BY <1>4, <1>6, <1>9, <1>13
<1>15. imu[m] <= t
  <2>1. e - 1 \in 1 .. Len(q) /\ e - 1 \in 1 .. e - 1 /\ b + (e - 1) - 1 = m
    BY <1>4, <1>9, <1>13, <1>14
  <2>2. q[e - 1] = imu[m] /\ q[e - 1] \in Nat /\ q[e - 1] < t + 1
    BY <2>1, <1>9, <1>11
  <2>3. QED
    BY <2>2
<1>16. \A i \in m + 1 .. Len(imu) : imu[i] > t
  <2>1. m + 1 \in 1 .. Len(imu) /\ imu[m + 1] > t
    <3>1. b + e - 1 = m + 1 /\ e \in 1 .. Len(q) /\ m + 1 \in 1 .. Len(imu)
      BY <1>4, <1>6, <1>9, <1>13, <1>14
    <3>2. q[e] = imu[m + 1] /\ q[e] \in Nat
      BY <3>1, <1>9
    <3>3. q[e] >= t + 1
      BY <3>1, <1>9, <1>11
    <3>4. QED
      BY <3>1, <3>2, <3>3
  <2>2. ASSUME NEW i \in m + 1 .. Len(imu) PROVE imu[i] > t
    <3>1. i \in 1 .. Len(imu) /\ (i = m + 1 \/ m + 1 < i)
      BY <2>1
    <3>2. i = m + 1 \/ imu[m + 1] <= imu[i]
      BY <3>1, <2>1, <1>6 DEF Forward
    <3>3. QED
      BY <3>1, <3>2, <2>1, <1>6, SMTT(30)
  <2>3. QED
    BY <2>2
<1>17. m \in 1 .. Len(imu) /\ LastBy(imu, t) = m
  <2>1. m \in 1 .. Len(imu)
    BY <1>4, <1>14
  <2>2. QED
    BY <2>1, <1>6, <1>15, <1>16, LastByIs
<1>18. sync'.imu = From(imu, m)
  <2>1. sync'.imu = SubSeq(q, e - 1, Len(q))
    BY <1>1, <1>3, <1>5, <1>11 DEF Released, ReplayTyped, SyncType
  <2>2. /\ b \in 1 .. Len(imu) + 1 /\ e - 1 \in 1 .. Len(imu) - b + 2
        /\ Len(q) \in 0 .. Len(imu) - b + 1
        /\ b + (e - 1) - 1 = m /\ b + Len(q) - 1 = Len(imu)
    BY <1>4, <1>6, <1>9, <1>13, <1>14
  <2>3. SubSeq(q, e - 1, Len(q)) = SubSeq(imu, b + (e - 1) - 1, b + Len(q) - 1)
    BY <2>2, <1>5, <1>6, PartOfFrom
  <2>4. QED
    BY <2>1, <2>2, <2>3 DEF From
<1>19. Group(sync).imu = SubSeq(imu, b, FirstFrom(imu, t + ScanGuard))
  <2>1. t + ScanGuard \in Int
    BY <1>10
  <2>2. PICK f \in 1 .. Len(q) + 1 :
          /\ f = FirstAt(q, t + ScanGuard) /\ (f <= Len(q) => q[f] >= t + ScanGuard)
          /\ \A j \in 1 .. f - 1 : q[j] < t + ScanGuard
    BY <1>5, <2>1, FirstAtSpec
  <2>3. f \in 1 .. Len(q)
    <3>1. Len(q) \in 1 .. Len(q) /\ b + Len(q) - 1 = Len(imu)
      BY <1>9, <1>12, <1>4, <1>6
    <3>2. q[Len(q)] >= t + ScanGuard /\ q[Len(q)] \in Nat
      BY <3>1, <1>7, <1>9
    <3>3. ~(Len(q) \in 1 .. f - 1)
      BY <3>2, <2>1, <2>2, SMTT(30)
    <3>4. QED
      BY <3>1, <3>3, <1>9
  <2>4. PICK g \in 1 .. Len(imu) : g = b + f - 1
    BY <2>3, <1>4, <1>6, <1>9
  <2>5. imu[g] >= t + ScanGuard
    <3>1. f <= Len(q) /\ b + f - 1 = g
      BY <2>3, <2>4, <1>9
    <3>2. q[f] = imu[g] /\ q[f] >= t + ScanGuard
      BY <3>1, <2>2, <2>3, <1>9
    <3>3. QED
      BY <3>2
  <2>6. ASSUME NEW i \in 1 .. g - 1 PROVE imu[i] < t + ScanGuard
    <3>1. i \in 1 .. Len(imu) /\ imu[i] \in Nat /\ imu[b] \in Nat
      BY <1>4, <1>6, <2>4
    <3>2. CASE i <= b
      <4>1. i = b \/ imu[i] <= imu[b]
        BY <3>1, <3>2, <1>4, <1>6 DEF Forward
      <4>2. PICK x \in Nat, y \in Nat : x = imu[i] /\ y = imu[b]
        BY <3>1
      <4>3. x <= y
        BY <4>1, <4>2, SMTT(30)
      <4>4. y <= t
        BY <4>2, <1>7
      <4>5. x < t + ScanGuard
        BY <4>3, <4>4, <1>10
      <4>6. QED
        BY <4>2, <4>5
    <3>3. CASE i > b
      <4>1. i - b + 1 \in 1 .. f - 1 /\ i - b + 1 \in 1 .. Len(q) /\ b + (i - b + 1) - 1 = i
        BY <3>1, <3>3, <2>3, <2>4, <1>4, <1>9
      <4>2. QED
        BY <4>1, <2>2, <1>9
    <3>4. QED
      BY <3>1, <3>2, <3>3, <1>4
  <2>7. FirstFrom(imu, t + ScanGuard) = g
    BY <2>1, <2>5, <2>6, <1>6, FirstFromIs
  <2>8. /\ b \in 1 .. Len(imu) + 1 /\ 1 \in 1 .. Len(imu) - b + 2
        /\ f \in 0 .. Len(imu) - b + 1 /\ b + 1 - 1 = b
    BY <1>4, <1>6, <1>9, <2>3
  <2>9. SubSeq(q, 1, f) = SubSeq(imu, b + 1 - 1, b + f - 1)
    BY <2>8, <1>5, <1>6, PartOfFrom
  <2>10. Group(sync).imu = SubSeq(q, 1, f)
    BY <1>3, <1>5, <2>2 DEF Group, GuardedEnd
  <2>11. QED
    BY <2>4, <2>7, <2>8, <2>9, <2>10
<1>20. last' = n /\ Gone' = n
  <2>1. sync'.lidar = Tail(sync.lidar)
    BY <1>1 DEF Released, ReplayTyped, SyncType
  <2>2. Len(sync'.lidar) = Len(sync.lidar) - 1
    BY <1>1, <2>1, Front
  <2>3. /\ Len(scans) \in Nat /\ Len(sync.lidar) \in Nat
        /\ Gone \in Nat /\ Gone + Len(sync.lidar) = Len(scans)
    BY Counts
  <2>4. Len(scans) - Len(sync'.lidar) = n
    <3>1. PICK l \in Nat : l = Len(sync.lidar)
      BY <2>3
    <3>2. PICK k \in Nat : k = Gone /\ k + l = Len(scans) /\ n = k + 1
      BY <3>1, <2>3, <1>2
    <3>3. PICK h : h = Len(sync'.lidar) /\ h = l - 1
      BY <3>1, <2>2
    <3>4. PICK s \in Nat : s = Len(scans) /\ k + l = s
      BY <3>2, <2>3
    <3>5. s - h = k + 1
      BY <3>3, <3>4
    <3>6. QED
      BY <3>2, <3>3, <3>4, <3>5
  <2>5. QED
    BY <2>4, <1>1 DEF Gone
<1>21. b \in 1 .. m
  BY <1>4, <1>14
<1>22. QED
  BY <1>1, <1>2, <1>3, <1>4, <1>7, <1>8, <1>17, <1>18, <1>19, <1>20, <1>21

LEMMA ProcessStep ==
  ASSUME ScanGuard > 0, ReplayInv, Process
  PROVE  ReplayInv'
<1> USE DEF ReplayInv
<1>1. PICK n \in 1 .. Len(scans) : n = Gone + 1
  BY Taken
<1>2. PICK m \in 1 .. Len(imu) : m = LastBy(imu, scans[n])
  BY <1>1, Taken
<1>3. /\ last' = n /\ Gone' = n /\ scans[n] \in Nat
      /\ imu # <<>> /\ imu[1] <= scans[n] /\ imu[Len(imu)] >= scans[n] + ScanGuard
      /\ sync'.imu = From(imu, m)
  BY <1>1, <1>2, Taken
<1>4. /\ sync' = Released(sync) /\ sync.lidar # <<>> /\ sync.imu # <<>>
      /\ UNCHANGED <<imu, scans, source>>
  BY DEF Process, Releases, recording
<1>5. /\ imu \in Seq(Stamps) /\ sync \in SyncType /\ sync'.lidar = Tail(sync.lidar)
      /\ Len(imu) \in Nat
  BY <1>4, Counts DEF Released, ReplayTyped, SyncType
<1>6. sync' \in SyncType
  <2>1. m \in 1 .. Len(imu) + 1
    BY <1>5
  <2>2. From(imu, m) \in Seq(Stamps)
    BY <2>1, <1>5, FromSpec
  <2>3. sync'.lidar \in Seq([stamp : Stamps])
    BY <1>4, <1>5, Front
  <2>4. QED
    BY <2>2, <2>3, <1>3, <1>4, <1>5 DEF Released, SyncType
<1>7. ReplayTyped' /\ InTime'
  BY <1>3, <1>4, <1>6 DEF ReplayTyped, InTime
<1>8. Base' = m
  BY <1>2, <1>3, <1>4 DEF Base
<1>9. BuffersAreEnds'
  <2>1. /\ Len(sync'.lidar) = Len(sync.lidar) - 1 /\ Len(sync.lidar) \in Nat /\ Gone \in Nat
        /\ \A j \in 1 .. Len(sync.lidar) - 1 : sync'.lidar[j] = sync.lidar[j + 1]
    BY <1>4, <1>5, Front, Counts
  <2>2. ASSUME NEW j \in 1 .. Len(sync'.lidar) PROVE sync'.lidar[j].stamp = scans[n + j]
    <3>1. j + 1 \in 1 .. Len(sync.lidar) /\ Gone + (j + 1) = n + j
      <4>1. PICK l \in Nat : l = Len(sync.lidar)
        BY <2>1
      <4>2. PICK h : h = Len(sync'.lidar) /\ h = l - 1
        BY <4>1, <2>1
      <4>3. j \in 1 .. h
        BY <4>2
      <4>4. PICK g \in Nat : g = Gone /\ n = g + 1
        BY <2>1, <1>1
      <4>5. QED
        BY <4>1, <4>2, <4>3, <4>4
    <3>2. sync.lidar[j + 1].stamp = scans[Gone + (j + 1)]
      BY <3>1 DEF BuffersAreEnds
    <3>3. sync'.lidar[j] = sync.lidar[j + 1]
      BY <2>1
    <3>4. QED
      BY <3>1, <3>2, <3>3
  <2>3. QED
    BY <2>2, <1>3, <1>4, <1>8 DEF BuffersAreEnds
<1>10. LastCovered' /\ SkippedUnusable'
  BY <1>3, <1>4 DEF LastCovered, SkippedUnusable
<1>11. QED
  BY <1>7, <1>9, <1>10

(* A scan is discarded only before the first one is taken. *)
LEMMA DrainedStep ==
  ASSUME ReplayInv, Drained
  PROVE  ReplayInv'
<1> USE DEF ReplayInv
<1>1. UNCHANGED <<imu, scans, last, source>>
  BY DEF Drained, recording, history
<1>2. CASE ~Discards(sync)
  <2>1. sync' = sync
    BY <1>2 DEF Drained
  <2>2. Gone' = Gone /\ Base' = Base
    BY <2>1, <1>1 DEF Gone, Base
  <2>3. QED
    BY <2>1, <2>2, <1>1 DEF ReplayTyped, InTime, BuffersAreEnds, LastCovered, SkippedUnusable
<1>3. CASE Discards(sync)
  <2>1. /\ sync' = Discarded(sync) /\ sync.lidar # <<>> /\ sync.imu # <<>>
        /\ Head(sync.imu) > ScanStamp(sync) /\ sync \in SyncType
    BY <1>3 DEF Drained, Discards, ReplayTyped
  <2>2. PICK n \in 1 .. Len(scans) : n = Gone + 1
    BY <2>1, Front
  <2>3. imu # <<>> /\ Base \in 1 .. Len(imu) /\ imu[Base] > scans[n]
    BY <2>1, <2>2, Front
  <2>4. last = 0
    <3>1. SUFFICES ASSUME last > 0 PROVE FALSE
      BY DEF ReplayTyped
    <3>2. imu[Base] <= scans[last] /\ last \in 1 .. Len(scans) /\ scans[last] \in Nat
      BY <3>1, BaseSpec, Counts
    <3>3. scans[n] \in Nat /\ imu[Base] \in Nat
      BY <2>3, Counts
    <3>4. last < n
      BY <2>2, <3>1, Counts DEF ReplayTyped
    <3>5. scans[last] <= scans[n]
      BY <3>2, <3>4 DEF InTime, Forward
    <3>6. QED
      BY <3>2, <3>3, <3>5, <2>3
  <2>5. imu[1] > scans[n]
    BY <2>3, <2>4 DEF Base
  <2>6. /\ sync'.imu = sync.imu /\ sync'.lidar = Tail(sync.lidar)
        /\ sync'.lidar \in Seq([stamp : Stamps]) /\ sync' \in SyncType
    <3>1. Tail(sync.lidar) \in Seq([stamp : Stamps])
      BY <2>1, Front
    <3>2. QED
      BY <3>1, <2>1 DEF Discarded, SyncType
  <2>7. /\ Len(sync'.lidar) = Len(sync.lidar) - 1 /\ Len(sync.lidar) \in Nat /\ Gone \in Nat
        /\ \A j \in 1 .. Len(sync.lidar) - 1 : sync'.lidar[j] = sync.lidar[j + 1]
    BY <2>1, <2>6, Front, Counts
  <2>8. Gone' = n
    <3>1. PICK l \in Nat : l = Len(sync.lidar)
      BY <2>7
    <3>2. PICK h : h = Len(sync'.lidar) /\ h = l - 1
      BY <3>1, <2>7
    <3>3. PICK s \in Nat : s = Len(scans) /\ n = (s - l) + 1
      BY <3>1, <2>2, Counts DEF Gone
    <3>4. s - h = n
      BY <3>2, <3>3
    <3>5. QED
      BY <3>2, <3>3, <3>4, <1>1 DEF Gone
  <2>9. ReplayTyped' /\ InTime'
    <3>1. last <= n
      BY <2>4, <2>2
    <3>2. QED
      BY <3>1, <1>1, <2>6, <2>8 DEF ReplayTyped, InTime
  <2>10. Base' = Base
    BY <2>4, <1>1 DEF Base
  <2>11. BuffersAreEnds'
    <3>1. ASSUME NEW j \in 1 .. Len(sync'.lidar) PROVE sync'.lidar[j].stamp = scans[n + j]
      <4>1. j + 1 \in 1 .. Len(sync.lidar) /\ Gone + (j + 1) = n + j
        <5>1. PICK l \in Nat : l = Len(sync.lidar)
          BY <2>7
        <5>2. PICK h : h = Len(sync'.lidar) /\ h = l - 1
          BY <5>1, <2>7
        <5>3. j \in 1 .. h
          BY <5>2
        <5>4. PICK g \in Nat : g = Gone /\ n = g + 1
          BY <2>7, <2>2
        <5>5. QED
          BY <5>1, <5>2, <5>3, <5>4
      <4>2. sync.lidar[j + 1].stamp = scans[Gone + (j + 1)]
        BY <4>1 DEF BuffersAreEnds
      <4>3. sync'.lidar[j] = sync.lidar[j + 1]
        BY <2>7
      <4>4. QED
        BY <4>1, <4>2, <4>3
    <3>2. QED
      BY <3>1, <1>1, <2>6, <2>8, <2>10 DEF BuffersAreEnds
  <2>12. LastCovered' /\ SkippedUnusable'
    <3>1. ASSUME NEW k \in last + 1 .. n PROVE imu # <<>> /\ imu[1] > scans[k]
      <4>1. k \in last + 1 .. Gone \/ k = n
        BY <2>2, <2>4, <2>7
      <4>2. QED
        BY <4>1, <2>3, <2>5 DEF SkippedUnusable
    <3>2. QED
      BY <3>1, <1>1, <2>4, <2>8 DEF LastCovered, SkippedUnusable
  <2>13. QED
    BY <2>9, <2>11, <2>12
<1>4. QED
  BY <1>2, <1>3

LEMMA ReplayInductive ==
  ASSUME ScanGuard > 0, ReplayInv, [Next]_vars
  PROVE  ReplayInv'
<1>1. CASE End \/ UNCHANGED vars
  <2>1. UNCHANGED <<sync, imu, scans, last, source>>
    BY <1>1 DEF End, vars, recording, history
  <2>2. Gone' = Gone /\ Base' = Base
    BY <2>1 DEF Gone, Base
  <2>3. QED
    BY <2>1, <2>2 DEF ReplayInv, ReplayTyped, InTime, BuffersAreEnds, LastCovered, SkippedUnusable
<1>2. CASE \E t \in Stamps :
             InitSample(t) \/ ImuMessage(t) \/ IgnoredScan(t) \/ LidarMessage(t)
  BY <1>2, IgnoredStep, ImuStep, LidarStep
<1>3. CASE Process
  BY <1>3, ProcessStep
<1>4. CASE Drained
  BY <1>4, DrainedStep
<1>5. QED
  BY <1>1, <1>2, <1>3, <1>4 DEF Next
-----------------------------------------------------------------------------
(* The refinement.                                                          *)

(* A scan processed is the scan that the streams define as the next one. *)
LEMMA ProcessTakes ==
  ASSUME ScanGuard > 0, ReplayInv, Process
  PROVE  \E n \in DOMAIN scans : Stream!Take(n)
<1> USE DEF ReplayInv
<1>1. PICK n \in 1 .. Len(scans) : n = Gone + 1
  BY Taken
<1>2. /\ imu # <<>> /\ imu[1] <= scans[n] /\ imu[Len(imu)] >= scans[n] + ScanGuard
      /\ meas' = [scan |-> scans[n],
                  imu |-> SubSeq(imu, Base, FirstFrom(imu, scans[n] + ScanGuard))]
      /\ last' = n /\ UNCHANGED <<imu, scans>>
  <2>1. UNCHANGED <<imu, scans>>
    BY DEF Process
  <2>2. QED
    BY <1>1, <2>1, Taken
<1>3. imu \in Seq(Stamps) /\ scans \in Seq(Stamps) /\ last \in Nat /\ last <= Gone
  BY DEF ReplayTyped
<1>4. n \in last + 1 .. Len(scans) /\ n \in DOMAIN scans
  BY <1>1, <1>3, Counts
<1>5. Stream!Usable(n)
  BY <1>2 DEF Stream!Usable
<1>6. \A skipped \in last + 1 .. n - 1 : ~Stream!Usable(skipped)
  <2>1. \A k \in last + 1 .. n - 1 :
          k \in last + 1 .. Gone /\ k \in 1 .. Len(scans)
    BY <1>1, <1>3, Counts
  <2>2. 1 \in 1 .. Len(imu)
    BY <1>2, <1>3, StampNat
  <2>3. \A k \in last + 1 .. n - 1 : imu[1] > scans[k] /\ imu[1] \in Nat /\ scans[k] \in Nat
    BY <2>1, <2>2, Counts DEF SkippedUnusable
  <2>4. \A k \in last + 1 .. n - 1 : ~(imu[1] <= scans[k])
    BY <2>3
  <2>5. QED
    BY <2>4 DEF Stream!Usable
<1>7. \E i \in DOMAIN imu : imu[i] >= scans[n] + ScanGuard
  <2>1. Len(imu) \in DOMAIN imu
    BY <1>2, <1>3, StampNat
  <2>2. QED
    BY <1>2, <2>1
<1>8. \A t : Stream!Before(t) = LastBy(imu, t) /\ Stream!After(t) = FirstFrom(imu, t)
  BY Zenon DEF Stream!Before, Stream!After, Stream!Max, Stream!Min, LastBy, FirstFrom
<1>9. meas' = [scan |-> scans[n],
               imu |-> SubSeq(imu, IF last = 0 THEN 1 ELSE Stream!Before(scans[last]),
                              Stream!After(scans[n] + ScanGuard))]
  BY <1>2, <1>8 DEF Base
<1>10. Stream!Take(n)
  BY <1>2, <1>4, <1>5, <1>6, <1>7, <1>9 DEF Stream!Take
<1>11. QED
  BY <1>4, <1>10

LEMMA StreamStep ==
  ASSUME ScanGuard > 0, ReplayInv, [Next]_vars
  PROVE  [Stream!Next]_(Stream!vars)
<1>1. CASE \E t \in Stamps : ImuMessage(t) \/ LidarMessage(t)
  <2>1. PICK t \in Stamps : ImuMessage(t) \/ LidarMessage(t)
    BY <1>1
  <2>2. Stream!HearImu(t) \/ Stream!HearScan(t)
    BY <2>1 DEF ImuMessage, LidarMessage, Stream!HearImu, Stream!HearScan
  <2>3. QED
    BY <2>2 DEF Stream!Next
<1>2. CASE Process
  BY <1>2, ProcessTakes DEF Stream!Next
<1>3. CASE \/ \E t \in Stamps : InitSample(t) \/ IgnoredScan(t)
           \/ Drained \/ End \/ UNCHANGED vars
  BY <1>3 DEF InitSample, IgnoredScan, Drained, End, vars, history, Stream!vars
<1>4. QED
  BY <1>1, <1>2, <1>3 DEF Next

(* A replay is reproducible: for every recording whose topics move forward,  *)
(* however it interleaves them, the groups that drain() processes are those  *)
(* the stamps of the two streams define, in order and sample for sample (the *)
(* property Reproducible; next() and drain()).  The guard past a scan's      *)
(* stamp is above zero, as sync.hpp asks for; without one, samples that      *)
(* repeat a stamp are grouped as they happen to arrive.                      *)
THEOREM ReproducibleAlways == ASSUME ScanGuard > 0 PROVE Spec => Reproducible
<1>1. Init => ReplayInv
  BY InitReplay
<1>2. ReplayInv /\ [Next]_vars => ReplayInv'
  BY ReplayInductive
<1>3. Init => Stream!Init
  BY DEF Init, Stream!Init
<1>4. ReplayInv /\ [Next]_vars => [Stream!Next]_(Stream!vars)
  BY StreamStep
<1>5. QED
  BY <1>1, <1>2, <1>3, <1>4, PTL DEF Spec, Reproducible, Stream!Spec
=============================================================================
