--------------------------- MODULE EstimatorProofs ---------------------------
(* Proofs about Deskew and LioEstimator, for every value of the constants:   *)
(* what the operators return, and what one scan does to the estimator.  The  *)
(* theorems are those of its two users, EstimatorFeed and GlassLio.          *)
EXTENDS LioEstimator, SequenceTheorems, FunctionTheorems, FiniteSetTheorems,
        WellFoundedInduction, TLAPS

(* The scans and IMU that the estimator is given. *)
ScanGroup == [run : Nat, header : Nat, span : Nat, points : BOOLEAN, imu : Seq(Nat)]
-----------------------------------------------------------------------------
(* Greatest and least elements. *)

(* A finite nonempty set of integers has a greatest element: one with as few
   above it as there can be. *)
LEMMA MaxOfFinite ==
  ASSUME NEW S, S \subseteq Int, IsFiniteSet(S), S # {}
  PROVE  Max(S) \in S /\ \A x \in S : x <= Max(S)
<1> DEFINE Above(x) == {y \in S : y > x}
           F == {Above(x) : x \in S}
<1>1. F \subseteq FiniteSubsetsOf(S)
  <2>1. \A x \in S : IsFiniteSet(Above(x)) /\ Above(x) \subseteq S
    BY FS_Subset
  <2>2. QED
    BY <2>1 DEF FiniteSubsetsOf
<1>2. F # {}
  OBVIOUS
<1>3. PICK A \in F : \A U \in F : <<U, A>> \notin StrictSubsetOrdering(S)
  BY <1>1, <1>2, FS_StrictSubsetOrderingWellFounded, WFMin
<1>4. PICK x \in S : A = Above(x)
  OBVIOUS
<1>5. ASSUME NEW y \in S, y > x
      PROVE  FALSE
  <2>1. x \in Int /\ y \in Int /\ \A z \in S : z \in Int
    OBVIOUS
  <2>2. \A z \in S : z > y => z > x
    BY <2>1, <1>5
  <2>3. Above(y) \subseteq Above(x) /\ y \in Above(x) /\ y \notin Above(y)
    <3>1. y \notin Above(y)
      BY <2>1
    <3>2. Above(y) \subseteq Above(x)
      BY <2>2
    <3>3. QED
      BY <3>1, <3>2, <1>5
  <2>4. <<Above(y), Above(x)>> \in StrictSubsetOrdering(S)
    BY <2>3 DEF StrictSubsetOrdering
  <2>5. QED
    BY <2>4, <1>3, <1>4
<1>6. \E z \in S : \A y \in S : z >= y
  BY <1>5
<1>7. QED
  BY <1>6 DEF Max

(* Likewise the least one. *)
LEMMA MinOfFinite ==
  ASSUME NEW S, S \subseteq Int, IsFiniteSet(S), S # {}
  PROVE  Min(S) \in S /\ \A x \in S : Min(S) <= x
<1> DEFINE Below(x) == {y \in S : y < x}
           F == {Below(x) : x \in S}
<1>1. F \subseteq FiniteSubsetsOf(S)
  <2>1. \A x \in S : IsFiniteSet(Below(x)) /\ Below(x) \subseteq S
    BY FS_Subset
  <2>2. QED
    BY <2>1 DEF FiniteSubsetsOf
<1>2. F # {}
  OBVIOUS
<1>3. PICK A \in F : \A U \in F : <<U, A>> \notin StrictSubsetOrdering(S)
  BY <1>1, <1>2, FS_StrictSubsetOrderingWellFounded, WFMin
<1>4. PICK x \in S : A = Below(x)
  OBVIOUS
<1>5. ASSUME NEW y \in S, y < x
      PROVE  FALSE
  <2>1. x \in Int /\ y \in Int /\ \A z \in S : z \in Int
    OBVIOUS
  <2>2. \A z \in S : z < y => z < x
    BY <2>1, <1>5
  <2>3. Below(y) \subseteq Below(x) /\ y \in Below(x) /\ y \notin Below(y)
    <3>1. y \notin Below(y)
      BY <2>1
    <3>2. Below(y) \subseteq Below(x)
      BY <2>2
    <3>3. QED
      BY <3>1, <3>2, <1>5
  <2>4. <<Below(y), Below(x)>> \in StrictSubsetOrdering(S)
    BY <2>3 DEF StrictSubsetOrdering
  <2>5. QED
    BY <2>4, <1>3, <1>4
<1>6. \E z \in S : \A y \in S : z <= y
  BY <1>5
<1>7. QED
  BY <1>6 DEF Min

LEMMA MaxOfPair ==
  ASSUME NEW a \in Int, NEW b \in Int
  PROVE  Max({a, b}) = IF a <= b THEN b ELSE a
<1>1. \E x \in {a, b} : \A y \in {a, b} : x >= y
  OBVIOUS
<1>2. Max({a, b}) \in {a, b} /\ \A y \in {a, b} : Max({a, b}) >= y
  BY <1>1 DEF Max
<1>3. QED
  BY <1>2

LEMMA MinOfPair ==
  ASSUME NEW a \in Int, NEW b \in Int
  PROVE  Min({a, b}) = IF a <= b THEN a ELSE b
<1>1. \E x \in {a, b} : \A y \in {a, b} : x <= y
  OBVIOUS
<1>2. Min({a, b}) \in {a, b} /\ \A y \in {a, b} : Min({a, b}) <= y
  BY <1>1 DEF Min
<1>3. QED
  BY <1>2
-----------------------------------------------------------------------------
(* The deskew. *)

(* The bracket of t is the last sample of the leading ones that are not past t. *)
LEMMA BracketSpec ==
  ASSUME NEW imu \in Seq(Nat), imu # <<>>, NEW t \in Int
  PROVE  /\ BracketOf(imu, t) \in 1 .. Len(imu)
         /\ \A j \in 2 .. BracketOf(imu, t) : imu[j] <= t
         /\ BracketOf(imu, t) < Len(imu) => imu[BracketOf(imu, t) + 1] > t
<1> DEFINE B == {1} \cup {i \in DOMAIN imu : \A j \in 2 .. i : imu[j] <= t}
           k == Max(B)
<1>1. Len(imu) \in Nat /\ Len(imu) >= 1 /\ DOMAIN imu = 1 .. Len(imu)
  BY EmptySeq, LenProperties
<1>2. \A i \in 1 .. Len(imu) : imu[i] \in Nat
  BY ElementOfSeq
<1>3. B \subseteq 1 .. Len(imu) /\ B # {}
  BY <1>1
<1> HIDE DEF B
<1>4. IsFiniteSet(B)
  <2>1. IsFiniteSet(1 .. Len(imu))
    BY <1>1, FS_Interval
  <2>2. QED
    BY <2>1, <1>3, FS_Subset
<1>5. k \in B /\ \A i \in B : i <= k
  <2>1. B \subseteq Int
    BY <1>3
  <2>2. QED
    BY <2>1, <1>3, <1>4, MaxOfFinite
<1> USE DEF B
<1> HIDE DEF k
<1>6. \A j \in 2 .. k : imu[j] <= t
  BY <1>5
<1>7. ASSUME k < Len(imu), imu[k + 1] <= t
      PROVE  FALSE
  <2>1. k + 1 \in 1 .. Len(imu)
    BY <1>1, <1>3, <1>5, <1>7
  <2>2. \A j \in 2 .. k + 1 : imu[j] <= t
    BY <1>1, <1>3, <1>5, <1>6, <1>7
  <2>3. k + 1 \in B
    BY <2>1, <2>2, <1>1
  <2>4. QED
    BY <2>3, <1>1, <1>3, <1>5, SMTT(30)
<1>8. QED
  BY <1>1, <1>2, <1>3, <1>5, <1>6, <1>7 DEF BracketOf, k
(* The knots run from the anchor to the latest sample, and there are some as
   soon as a sample comes after the bracket. *)
LEMMA KnotsSpec ==
  ASSUME NEW imu \in Seq(Nat), imu # <<>>, NEW anchor \in Nat
  PROVE  LET knots == Knots(imu, anchor)
         IN /\ knots # {} <=> BracketOf(imu, anchor) < Len(imu)
            /\ knots # {} => /\ Min(knots) = anchor
                            /\ Max(knots) \in Nat /\ anchor <= Max(knots)
                            /\ imu[Len(imu)] <= Max(knots)
<1> DEFINE first == BracketOf(imu, anchor) + 1
           n == Len(imu)
           last == imu[n]
           later == {i \in first .. n :
                       imu[i] > anchor /\ \A j \in first .. i - 1 : imu[j] < imu[i]}
           S == {anchor} \cup {imu[i] : i \in later}
<1>1. n \in Nat /\ first \in 2 .. n + 1 /\ \A i \in 1 .. n : imu[i] \in Nat
  <2>1. anchor \in Int /\ n \in Nat
    BY LenProperties
  <2>2. BracketOf(imu, anchor) \in 1 .. n
    BY <2>1, BracketSpec
  <2>3. \A i \in 1 .. n : imu[i] \in Nat
    BY ElementOfSeq
  <2>4. QED
    BY <2>1, <2>2, <2>3
<1>2. Knots(imu, anchor) = IF first > n THEN {} ELSE S
  BY DEF Knots
<1> HIDE DEF first, n
<1>3. S \subseteq Nat /\ anchor \in S /\ \A x \in S : anchor <= x
  BY <1>1
<1>4. IsFiniteSet(S)
  <2> DEFINE f == [i \in later |-> imu[i]]
  <2>1. later \in SUBSET (1 .. n) /\ IsFiniteSet(1 .. n)
    BY <1>1, FS_Interval
  <2>2. IsFiniteSet(later)
    BY <2>1, FS_Subset
  <2>3. f \in Surjection(later, {imu[i] : i \in later})
    BY DEF Surjection
  <2>4. IsFiniteSet({imu[i] : i \in later})
    BY <2>2, <2>3, FS_Surjection
  <2>5. QED
    BY <2>4, FS_Singleton, FS_Union
<1>5. ASSUME first <= n
      PROVE  \E x \in S : last <= x
  <2>1. CASE last <= anchor
    BY <2>1, <1>3
  <2>2. CASE last > anchor
    <3> DEFINE T == {i \in first .. n : imu[i] >= last}
    <3>1. T \subseteq Int /\ T # {} /\ T \in SUBSET (1 .. n)
      BY <1>1, <1>5
    <3>2. IsFiniteSet(T)
      <4>1. IsFiniteSet(1 .. n)
        BY <1>1, FS_Interval
      <4>2. QED
        BY <4>1, <3>1, FS_Subset
    <3>3. Min(T) \in T /\ \A i \in T : Min(T) <= i
      BY <3>1, <3>2, MinOfFinite
    <3>4. PICK i \in T : \A j \in T : i <= j
      BY <3>3
    <3>5. i \in first .. n /\ imu[i] \in Nat /\ imu[i] >= last /\ last \in Nat
      BY <1>1, <3>1, <3>4
    <3>6. \A j \in first .. i - 1 : imu[j] < last
      BY <1>1, <3>4, <3>5
    <3>7. \A j \in first .. i - 1 : imu[j] < imu[i]
      BY <1>1, <3>5, <3>6
    <3>8. imu[i] > anchor
      BY <2>2, <3>5
    <3>9. i \in later
      BY <3>5, <3>7, <3>8
    <3>10. QED
      BY <3>5, <3>9
  <2>3. QED
    BY <2>1, <2>2, <1>1, <1>5
<1> HIDE DEF S
<1>6. Min(S) \in S /\ Max(S) \in S /\ \A x \in S : Min(S) <= x /\ x <= Max(S)
  <2>1. S \subseteq Int /\ S # {}
    BY <1>3
  <2>2. QED
    BY <2>1, <1>4, MinOfFinite, MaxOfFinite
<1>7. CASE first <= n
  <2>1. Knots(imu, anchor) = S /\ S # {}
    BY <1>1, <1>2, <1>3, <1>7
  <2>2. Min(S) = anchor
    <3>1. Min(S) \in Nat /\ anchor <= Min(S) /\ Min(S) <= anchor
      BY <1>3, <1>6
    <3>2. QED
      BY <3>1
  <2>3. Max(S) \in Nat /\ anchor <= Max(S)
    <3>1. Max(S) \in Nat
      BY <1>3, <1>6
    <3>2. anchor <= Max(S)
      BY <1>3, <1>6
    <3>3. QED
      BY <3>1, <3>2
  <2>4. last <= Max(S)
    <3>1. PICK x \in S : last <= x
      BY <1>5, <1>7
    <3>2. x \in Nat /\ x <= Max(S) /\ last \in Nat
      BY <3>1, <1>1, <1>3, <1>6, <1>7
    <3>3. QED
      BY <3>1, <3>2, <2>3
  <2>5. BracketOf(imu, anchor) < Len(imu)
    BY <1>7, BracketSpec DEF first, n
  <2>6. QED
    BY <2>1, <2>2, <2>3, <2>4, <2>5 DEF n
<1>8. CASE first > n
  <2>1. Knots(imu, anchor) = {}
    BY <1>2, <1>8
  <2>2. ~(BracketOf(imu, anchor) < Len(imu))
    BY <1>8, BracketSpec, LenProperties DEF first, n
  <2>3. QED
    BY <2>1, <2>2
<1>9. QED
  BY <1>1, <1>7, <1>8

(* The rotation is known at every instant from the anchor to the last sample,
   and clamped to the knots elsewhere. *)
LEMMA RotationSpec ==
  ASSUME NEW imu \in Seq(Nat), imu # <<>>, NEW anchor \in Nat,
         Knots(imu, anchor) # {}, NEW t \in Nat
  PROVE  /\ RotationAt(Knots(imu, anchor), t) \in Nat
         /\ anchor <= t /\ t <= imu[Len(imu)] => RotationAt(Knots(imu, anchor), t) = t
<1> DEFINE knots == Knots(imu, anchor)
<1>1. Min(knots) = anchor /\ Max(knots) \in Nat /\ imu[Len(imu)] <= Max(knots)
  BY KnotsSpec
<1>2. imu[Len(imu)] \in Nat
  BY EmptySeq, LenProperties, ElementOfSeq
<1>3. RotationAt(knots, t) = Min({Max({t, anchor}), Max(knots)})
  BY <1>1 DEF RotationAt
<1> HIDE DEF knots
<1>4. Max({t, anchor}) = IF t <= anchor THEN anchor ELSE t
  BY MaxOfPair
<1>5. Max({t, anchor}) \in Nat
  BY <1>4
<1>6. RotationAt(knots, t)
        = IF Max({t, anchor}) <= Max(knots) THEN Max({t, anchor}) ELSE Max(knots)
  <2>1. Max({t, anchor}) \in Int /\ Max(knots) \in Int
    BY <1>1, <1>5
  <2>2. QED
    BY <2>1, <1>3, MinOfPair
<1>7. RotationAt(knots, t) \in Nat
  BY <1>1, <1>5, <1>6
<1>8. ASSUME anchor <= t, t <= imu[Len(imu)]
      PROVE  RotationAt(knots, t) = t
  <2>1. Max({t, anchor}) = t
    BY <1>4, <1>8
  <2>2. t <= Max(knots)
    BY <1>1, <1>2, <1>8
  <2>3. QED
    BY <2>1, <2>2, <1>6
<1>9. QED
  BY <1>7, <1>8 DEF knots

LEMMA GroupTimes ==
  ASSUME NEW g \in ScanGroup, NEW prevEnd \in Times
  PROVE  /\ ScanStart(g) \in Nat /\ ScanEnd(g) \in Nat /\ ScanStart(g) <= ScanEnd(g)
         /\ Anchor(g, prevEnd) \in Nat /\ Anchor(g, prevEnd) <= ScanStart(g)
<1>1. g.header \in Nat /\ g.span \in Nat
  BY DEF ScanGroup
<1>2. prevEnd > 0 => prevEnd \in Nat
  BY DEF Times, NoTime
<1>3. Chains(g, prevEnd) => prevEnd > 0 /\ prevEnd <= ScanStart(g)
  BY DEF Chains
<1>4. QED
  BY <1>1, <1>2, <1>3 DEF ScanStart, ScanEnd, Anchor

LEMMA LastSample ==
  ASSUME NEW g \in ScanGroup, g.imu # <<>>
  PROVE  /\ g.imu \in Seq(Nat) /\ Len(g.imu) \in Nat /\ Len(g.imu) >= 1
         /\ g.imu[1] \in Nat /\ g.imu[Len(g.imu)] \in Nat /\ Head(g.imu) = g.imu[1]
<1>1. g.imu \in Seq(Nat)
  BY DEF ScanGroup
<1>2. Len(g.imu) \in Nat /\ Len(g.imu) >= 1
  BY <1>1, EmptySeq, LenProperties
<1>3. QED
  BY <1>1, <1>2, ElementOfSeq

(* A deskewed scan: rotations are between instants, and those of its points and
   of its end are complete if the IMU reaches past that end. *)
LEMMA DeskewSpec ==
  ASSUME NEW g \in ScanGroup, NEW prevEnd \in Times, Deskewable(g, prevEnd)
  PROVE  /\ DeltaRot(g, prevEnd) \in [from : Nat, to : Nat]
         /\ Compensated(g, prevEnd) \subseteq [at : Nat, from : Nat, to : Nat]
         /\ ScanEnd(g) <= g.imu[Len(g.imu)] =>
              /\ DeltaRot(g, prevEnd) = [from |-> Anchor(g, prevEnd), to |-> ScanEnd(g)]
              /\ \A p \in Compensated(g, prevEnd) : p.from = p.at /\ p.to = ScanEnd(g)
<1> DEFINE gyro == GyroOf(g, prevEnd)
           anchor == Anchor(g, prevEnd)
           end == ScanEnd(g)
           last == g.imu[Len(g.imu)]
<1>1. g.imu \in Seq(Nat) /\ g.imu # <<>> /\ gyro # {}
  BY DEF Deskewable, ScanGroup
<1>2. /\ anchor \in Nat /\ end \in Nat /\ ScanStart(g) \in Nat
      /\ anchor <= ScanStart(g) /\ ScanStart(g) <= end
  BY GroupTimes
<1>3. \A t \in Nat : /\ RotationAt(gyro, t) \in Nat
                     /\ anchor <= t /\ t <= last => RotationAt(gyro, t) = t
  BY <1>1, <1>2, RotationSpec DEF GyroOf
<1>4. last \in Nat
  BY <1>1, LastSample
<1>5. /\ DeltaRot(g, prevEnd) = [from |-> anchor, to |-> RotationAt(gyro, end)]
      /\ Compensated(g, prevEnd) =
           {[at |-> t, from |-> RotationAt(gyro, t), to |-> RotationAt(gyro, end)] :
              t \in ScanStart(g) .. end}
  BY DEF DeltaRot, Compensated
<1> HIDE DEF gyro, anchor, end, last
<1>6. \A t \in ScanStart(g) .. end : t \in Nat /\ anchor <= t /\ t <= end
  BY <1>2
<1>7. DeltaRot(g, prevEnd) \in [from : Nat, to : Nat]
  BY <1>2, <1>3, <1>5
<1>8. Compensated(g, prevEnd) \subseteq [at : Nat, from : Nat, to : Nat]
  BY <1>2, <1>3, <1>5, <1>6
<1>9. ASSUME end <= last
      PROVE  /\ DeltaRot(g, prevEnd) = [from |-> anchor, to |-> end]
             /\ \A p \in Compensated(g, prevEnd) : p.from = p.at /\ p.to = end
  <2>1. RotationAt(gyro, end) = end
    BY <1>2, <1>3, <1>9
  <2>2. \A t \in ScanStart(g) .. end : RotationAt(gyro, t) = t
    BY <1>2, <1>3, <1>4, <1>6, <1>9
  <2>3. QED
    BY <2>1, <2>2, <1>5
<1>10. QED
  BY <1>7, <1>8, <1>9 DEF end, last, anchor

(* A scan with points can be deskewed if its IMU begins by its start and goes
   on past it. *)
LEMMA BracketedDeskewable ==
  ASSUME NEW g \in ScanGroup, NEW prevEnd \in Times, g.points, g.imu # <<>>,
         g.imu[1] <= g.header, g.header < g.imu[Len(g.imu)]
  PROVE  Deskewable(g, prevEnd)
<1> DEFINE anchor == Anchor(g, prevEnd)
           n == Len(g.imu)
           k == BracketOf(g.imu, anchor)
<1>1. g.imu \in Seq(Nat) /\ n \in Nat /\ n >= 1 /\ g.imu[1] \in Nat /\ g.imu[n] \in Nat
  BY LastSample
<1>2. anchor \in Nat /\ anchor <= g.header /\ g.header \in Nat
  BY GroupTimes DEF ScanStart, ScanGroup
<1>3. k \in 1 .. n /\ \A j \in 2 .. k : g.imu[j] <= anchor
  <2>1. anchor \in Int
    BY <1>2
  <2>2. QED
    BY <2>1, <1>1, BracketSpec
<1> HIDE DEF k, n, anchor
<1>4. k # n
  <2> SUFFICES ASSUME k = n PROVE FALSE
    OBVIOUS
  <2>1. n # 1
    BY <1>1, <1>2 DEF n
  <2>2. g.imu[n] <= anchor
    BY <2>1, <1>1, <1>3
  <2>3. QED
    BY <2>2, <1>1, <1>2 DEF n
<1>5. GyroOf(g, prevEnd) # {}
  BY <1>1, <1>2, <1>3, <1>4, KnotsSpec DEF GyroOf, k, n, anchor
<1>6. QED
  BY <1>5 DEF Deskewable
-----------------------------------------------------------------------------
(* The IMU factor. *)

InOrder(imu) == \A i, j \in DOMAIN imu : i <= j => imu[i] <= imu[j]

(* What is integrated of the interval after the sample i. *)
Piece(imu, begin, end, i) ==
  [from |-> Max({imu[i], begin}), to |-> Min({imu[i + 1], end}), sample |-> i]

(* A piece lies between a sample and its successor, and within the window; no
   two come from the same sample. *)
LEMMA PieceSpec ==
  ASSUME NEW imu \in Seq(Nat), NEW begin \in Nat, NEW end \in Nat,
         NEW p \in Preintegrated(imu, begin, end)
  PROVE  /\ p \in [from : Nat, to : Nat, sample : Nat]
         /\ p.sample \in 1 .. Len(imu) - 1
         /\ imu[p.sample] \in Nat /\ imu[p.sample + 1] \in Nat
         /\ p = Piece(imu, begin, end, p.sample)
         /\ imu[p.sample] <= p.from /\ p.to <= imu[p.sample + 1]
         /\ begin <= p.from /\ p.to <= end /\ p.from < p.to
<1>1. PICK i \in 1 .. Len(imu) - 1 :
        p = [from |-> Max({imu[i], begin}), to |-> Min({imu[i + 1], end}), sample |-> i]
  BY DEF Preintegrated
<1>2. p.to - p.from \in 1 .. MaxImuGap
  BY DEF Preintegrated
<1>3. Len(imu) \in Nat /\ i \in 1 .. Len(imu) /\ i + 1 \in 1 .. Len(imu)
  BY LenProperties
<1>4. imu[i] \in Nat /\ imu[i + 1] \in Nat
  BY <1>3, ElementOfSeq
<1>5. /\ p.from = IF imu[i] <= begin THEN begin ELSE imu[i]
      /\ p.to = IF imu[i + 1] <= end THEN imu[i + 1] ELSE end
  BY <1>1, <1>4, MaxOfPair, MinOfPair, SMTT(30)
<1>6. p.from \in Nat /\ p.to \in Nat /\ p.from < p.to
  <2>1. p.from \in Nat /\ p.to \in Nat
    BY <1>4, <1>5
  <2>2. PICK a \in Nat, b \in Nat : a = p.from /\ b = p.to
    BY <2>1
  <2>3. b - a \in 1 .. MaxImuGap /\ MaxImuGap \in Nat
    BY <1>2, <2>2, EstimatorAssumption
  <2>4. a < b
    BY <2>3
  <2>5. QED
    BY <2>1, <2>2, <2>4
<1>7. /\ imu[i] <= p.from /\ p.to <= imu[i + 1]
      /\ begin <= p.from /\ p.to <= end
  BY <1>4, <1>5
<1>8. p = Piece(imu, begin, end, p.sample) /\ p.sample = i
  BY <1>1 DEF Piece
<1>9. p \in [from : Nat, to : Nat, sample : Nat]
  BY <1>1, <1>3, <1>6
<1>10. QED
  BY <1>3, <1>4, <1>6, <1>7, <1>8, <1>9

LEMMA FactorFinite ==
  ASSUME NEW imu \in Seq(Nat), NEW begin \in Nat, NEW end \in Nat
  PROVE  IsFiniteSet(Preintegrated(imu, begin, end))
<1> DEFINE F == Preintegrated(imu, begin, end)
           f == [p \in F |-> p.sample]
<1>1. ASSUME NEW p \in F
      PROVE  /\ p.sample \in 1 .. Len(imu)
             /\ p = Piece(imu, begin, end, p.sample)
  <2>1. /\ p.sample \in 1 .. Len(imu) - 1
        /\ p = Piece(imu, begin, end, p.sample)
    BY PieceSpec, ZenonT(30)
  <2>2. p.sample \in 1 .. Len(imu)
    BY <2>1, LenProperties
  <2>3. QED
    BY <2>1, <2>2
<1> HIDE DEF F
<1>2. f \in Injection(F, 1 .. Len(imu))
  <2>1. f \in [F -> 1 .. Len(imu)]
    BY <1>1
  <2>2. ASSUME NEW p \in F, NEW q \in F, f[p] = f[q]
        PROVE  p = q
    <3>1. p.sample = q.sample
      BY <2>2
    <3>2. QED
      BY <3>1, <1>1, Zenon
  <2> HIDE DEF f
  <2>3. QED
    BY <2>1, <2>2, Fun_IsInj
<1>3. IsFiniteSet(1 .. Len(imu))
  BY LenProperties, FS_Interval
<1>4. QED
  BY <1>2, <1>3, FS_Injection DEF F

(* The ticks that the factor's pieces are made of. *)
Ticks(factor) == UNION {{p} \X (p.from .. p.to - 1) : p \in factor}

LEMMA ElapsedType ==
  ASSUME NEW imu \in Seq(Nat), NEW begin \in Nat, NEW end \in Nat
  PROVE  Elapsed(Preintegrated(imu, begin, end)) \in Nat
<1> DEFINE F == Preintegrated(imu, begin, end)
<1>1. IsFiniteSet(F) /\ IsFiniteSet(begin .. end)
  BY FactorFinite, FS_Interval
<1>2. IsFiniteSet(F \X (begin .. end))
  BY <1>1, FS_Product
<1>3. ASSUME NEW p \in F
      PROVE  p.from .. p.to - 1 \subseteq begin .. end
  <2>1. p.from \in Nat /\ p.to \in Nat /\ begin <= p.from /\ p.to <= end
    BY PieceSpec
  <2>2. QED
    BY <2>1
<1> HIDE DEF F
<1>4. Ticks(F) \in SUBSET (F \X (begin .. end))
  BY <1>3 DEF Ticks
<1>5. IsFiniteSet(Ticks(F))
  BY <1>2, <1>4, FS_Subset
<1>6. QED
  BY <1>5, FS_CardinalityType DEF Elapsed, Ticks, F

(* Of samples in time order, no tick of the window is integrated twice. *)
LEMMA PiecesApart ==
  ASSUME NEW imu \in Seq(Nat), NEW begin \in Nat, NEW end \in Nat, InOrder(imu)
  PROVE  LET F == Preintegrated(imu, begin, end)
             f == [x \in Ticks(F) |-> x[2]]
         IN f \in Injection(Ticks(F), begin .. end - 1)
<1> DEFINE F == Preintegrated(imu, begin, end)
           f == [x \in Ticks(F) |-> x[2]]
<1>1. ASSUME NEW p \in F
      PROVE  /\ p.sample \in 1 .. Len(imu) - 1 /\ p.from \in Nat /\ p.to \in Nat
             /\ imu[p.sample] \in Nat /\ imu[p.sample + 1] \in Nat
             /\ imu[p.sample] <= p.from /\ p.to <= imu[p.sample + 1]
             /\ begin <= p.from /\ p.to <= end
             /\ p = Piece(imu, begin, end, p.sample)
  <2>1. p \in [from : Nat, to : Nat, sample : Nat]
    BY PieceSpec, Zenon
  <2>2. p.from \in Nat /\ p.to \in Nat
    BY <2>1
  <2>3. QED
    BY <2>2, PieceSpec, ZenonT(30)
<1> HIDE DEF F
<1>2. ASSUME NEW p \in F, NEW q \in F, p.sample < q.sample
      PROVE  p.to <= q.from
  <2>1. DOMAIN imu = 1 .. Len(imu) /\ Len(imu) \in Nat
    BY LenProperties
  <2>2. p.sample \in 1 .. Len(imu) - 1 /\ q.sample \in 1 .. Len(imu) - 1
    BY <1>1
  <2>3. p.sample + 1 \in DOMAIN imu /\ q.sample \in DOMAIN imu /\ p.sample + 1 <= q.sample
    BY <2>1, <2>2, <1>2, SMTT(30)
  <2>4. imu[p.sample + 1] <= imu[q.sample]
    BY <2>3 DEF InOrder
  <2>5. /\ p.to \in Nat /\ imu[p.sample + 1] \in Nat /\ p.to <= imu[p.sample + 1]
        /\ q.from \in Nat /\ imu[q.sample] \in Nat /\ imu[q.sample] <= q.from
    BY <1>1
  <2>6. QED
    BY <2>4, <2>5
<1>3. ASSUME NEW p \in F, NEW q \in F,
             NEW t \in p.from .. p.to - 1, t \in q.from .. q.to - 1
      PROVE  p = q
  <2>1. /\ p.from \in Nat /\ p.to \in Nat /\ q.from \in Nat /\ q.to \in Nat
        /\ p.sample \in Int /\ q.sample \in Int
    <3>1. p.sample \in 1 .. Len(imu) - 1 /\ q.sample \in 1 .. Len(imu) - 1
      BY <1>1
    <3>2. QED
      BY <3>1, <1>1, SMTT(30)
  <2>2. p.sample < q.sample => p.to <= q.from
    BY <1>2
  <2>3. q.sample < p.sample => q.to <= p.from
    BY <1>2
  <2>4. p.sample = q.sample
    BY <2>1, <2>2, <2>3, <1>3
  <2>5. QED
    BY <2>4, <1>1, Zenon
<1>4. \A x \in Ticks(F) : x[1] \in F /\ x[2] \in x[1].from .. x[1].to - 1 /\ x = <<x[1], x[2]>>
  BY DEF Ticks
<1>5. f \in [Ticks(F) -> begin .. end - 1]
  <2>1. ASSUME NEW x \in Ticks(F)
        PROVE  x[2] \in begin .. end - 1
    <3>1. x[1] \in F /\ x[2] \in x[1].from .. x[1].to - 1
      BY <1>4
    <3>2. /\ x[1].from \in Nat /\ x[1].to \in Nat
          /\ begin <= x[1].from /\ x[1].to <= end
      BY <3>1, <1>1
    <3>3. QED
      BY <3>1, <3>2, SMTT(30)
  <2>2. QED
    BY <2>1
<1>6. ASSUME NEW x \in Ticks(F), NEW y \in Ticks(F), f[x] = f[y]
      PROVE  x = y
  <2>1. x[2] = y[2]
    BY <1>6
  <2>2. x[1] = y[1]
    BY <2>1, <1>3, <1>4
  <2>3. QED
    BY <2>1, <2>2, <1>4
<1> HIDE DEF f
<1>7. f \in Injection(Ticks(F), begin .. end - 1)
  BY <1>5, <1>6, Fun_IsInj
<1>8. QED
  BY <1>7 DEF F, f

LEMMA WindowSize ==
  ASSUME NEW begin \in Nat, NEW end \in Nat, begin <= end
  PROVE  /\ IsFiniteSet(begin .. end - 1)
         /\ Cardinality(begin .. end - 1) = end - begin
<1>1. end - 1 \in Int
  OBVIOUS
<1>2. /\ IsFiniteSet(begin .. end - 1)
      /\ Cardinality(begin .. end - 1)
           = IF begin > end - 1 THEN 0 ELSE (end - 1) - begin + 1
  BY <1>1, FS_Interval
<1>3. QED
  BY <1>2

LEMMA ElapsedAtMost ==
  ASSUME NEW imu \in Seq(Nat), NEW begin \in Nat, NEW end \in Nat, InOrder(imu),
         begin <= end
  PROVE  Elapsed(Preintegrated(imu, begin, end)) <= end - begin
<1> DEFINE F == Preintegrated(imu, begin, end)
           f == [x \in Ticks(F) |-> x[2]]
<1>1. f \in Injection(Ticks(F), begin .. end - 1)
  BY PiecesApart
<1>2. IsFiniteSet(begin .. end - 1) /\ Cardinality(begin .. end - 1) = end - begin
  BY WindowSize
<1> HIDE DEF f, F
<1>3. Cardinality(Ticks(F)) <= Cardinality(begin .. end - 1)
  BY <1>1, <1>2, FS_Injection
<1>4. QED
  BY <1>2, <1>3 DEF Elapsed, Ticks, F

NoHole(imu) == \A i \in 1 .. Len(imu) - 1 : imu[i + 1] - imu[i] <= MaxImuGap

(* A tick of the window lies between two samples, and so in a piece, if the IMU
   covers the window and has no hole. *)
LEMMA TickCovered ==
  ASSUME NEW imu \in Seq(Nat), imu # <<>>, NEW begin \in Nat, NEW end \in Nat,
         NoHole(imu), imu[1] <= begin, end <= imu[Len(imu)],
         NEW t \in begin .. end - 1
  PROVE  \E p \in Preintegrated(imu, begin, end) : t \in p.from .. p.to - 1
<1> DEFINE n == Len(imu)
           T == {i \in 1 .. n : imu[i] > t}
<1>1. n \in Nat /\ n >= 1
  BY EmptySeq, LenProperties
<1>2. \A i \in 1 .. n : imu[i] \in Nat
  BY ElementOfSeq
<1> HIDE DEF n
<1>3. imu[n] \in Nat /\ imu[1] \in Nat /\ end <= imu[n]
  BY <1>1, <1>2 DEF n
<1>4. n \in T /\ 1 \notin T /\ T \in SUBSET (1 .. n)
  BY <1>1, <1>3
<1>5. IsFiniteSet(T)
  <2>1. IsFiniteSet(1 .. n)
    BY <1>1, FS_Interval
  <2>2. QED
    BY <2>1, <1>4, FS_Subset
<1>6. PICK m \in T : \A i \in T : m <= i
  <2>1. T \subseteq Int /\ T # {}
    BY <1>4
  <2>2. QED
    BY <2>1, <1>5, MinOfFinite
<1> DEFINE i == m - 1
<1>7. i \in 1 .. n - 1 /\ i + 1 = m
  BY <1>4, <1>6
<1> HIDE DEF i
<1>8. imu[i] \in Nat /\ imu[i + 1] \in Nat /\ imu[i] <= t /\ t < imu[i + 1]
  <2>1. i \in 1 .. n /\ ~(m <= i)
    BY <1>1, <1>7
  <2>2. i \notin T
    BY <2>1, <1>6
  <2>3. imu[i] \in Nat /\ imu[m] \in Nat /\ t \in Nat
    BY <2>1, <1>2, <1>4, <1>6
  <2>4. ~(imu[i] > t) /\ imu[m] > t
    BY <2>1, <2>2, <1>6
  <2>5. QED
    BY <2>3, <2>4, <1>7
<1>9. imu[i + 1] - imu[i] <= MaxImuGap
  BY <1>7 DEF NoHole, n
<1> DEFINE p == Piece(imu, begin, end, i)
<1>10. /\ p.from = IF imu[i] <= begin THEN begin ELSE imu[i]
       /\ p.to = IF imu[i + 1] <= end THEN imu[i + 1] ELSE end
  <2>1. p.from = Max({imu[i], begin}) /\ p.to = Min({imu[i + 1], end})
    BY DEF Piece
  <2>2. /\ Max({imu[i], begin}) = IF imu[i] <= begin THEN begin ELSE imu[i]
        /\ Min({imu[i + 1], end}) = IF imu[i + 1] <= end THEN imu[i + 1] ELSE end
    <3>1. /\ imu[i] \in Int /\ begin \in Int
          /\ imu[i + 1] \in Int /\ end \in Int
      BY <1>8
    <3>2. QED
      BY <3>1, MaxOfPair, MinOfPair
  <2>3. QED
    BY <2>1, <2>2, Zenon
<1> HIDE DEF p
<1>11. p.from \in Nat /\ p.to \in Nat /\ p.from <= t /\ t < p.to
  BY <1>8, <1>10
<1>12. p.to - p.from \in 1 .. MaxImuGap
  <2>1. p.to - p.from <= imu[i + 1] - imu[i]
    <3> DEFINE from == p.from
               to == p.to
               a == imu[i]
               b == imu[i + 1]
    <3>1. /\ from \in Nat /\ to \in Nat /\ a \in Nat /\ b \in Nat
          /\ from = IF a <= begin THEN begin ELSE a
          /\ to = IF b <= end THEN b ELSE end
      BY <1>8, <1>10, <1>11, Zenon
    <3> HIDE DEF from, to, a, b
    <3>2. a <= from /\ to <= b
      BY <3>1
    <3>3. to - from <= b - a
      BY <3>1, <3>2
    <3>4. QED
      BY <3>3 DEF from, to, a, b
  <2>2. MaxImuGap \in Nat /\ t \in Nat
    BY EstimatorAssumption
  <2>3. p.to - p.from \in Int /\ p.to - p.from >= 1
    BY <2>2, <1>11, SMTT(30)
  <2>4. p.to - p.from <= MaxImuGap
    <3> DEFINE d == imu[i + 1] - imu[i]
    <3>1. d \in Int /\ p.to - p.from <= d /\ d <= MaxImuGap
      BY <2>1, <1>8, <1>9
    <3> HIDE DEF d
    <3>2. QED
      BY <3>1, <2>2, <2>3
  <2>5. QED
    BY <2>2, <2>3, <2>4
<1>13. p \in Preintegrated(imu, begin, end)
  BY <1>7, <1>12 DEF Preintegrated, Piece, n, p
<1>14. QED
  BY <1>11, <1>13

(* Then the factor is integrated over all of the window, once. *)
LEMMA FactorCovers ==
  ASSUME NEW imu \in Seq(Nat), imu # <<>>, NEW begin \in Nat, NEW end \in Nat,
         InOrder(imu), NoHole(imu), imu[1] <= begin, begin <= end,
         end <= imu[Len(imu)]
  PROVE  LET factor == Preintegrated(imu, begin, end)
         IN /\ UNION {p.from .. p.to - 1 : p \in factor} = begin .. end - 1
            /\ Elapsed(factor) = end - begin
<1> DEFINE F == Preintegrated(imu, begin, end)
           f == [x \in Ticks(F) |-> x[2]]
<1>1. \A t \in begin .. end - 1 : \E p \in F : t \in p.from .. p.to - 1
  BY TickCovered
<1>2. ASSUME NEW p \in F
      PROVE  p.from .. p.to - 1 \subseteq begin .. end - 1
  <2>1. p.from \in Nat /\ p.to \in Nat /\ begin <= p.from /\ p.to <= end
    BY PieceSpec
  <2>2. QED
    BY <2>1
<1>3. f \in Injection(Ticks(F), begin .. end - 1)
  BY PiecesApart
<1>4. IsFiniteSet(begin .. end - 1) /\ Cardinality(begin .. end - 1) = end - begin
  BY WindowSize
<1> HIDE DEF F
<1>5. UNION {p.from .. p.to - 1 : p \in F} = begin .. end - 1
  BY <1>1, <1>2
<1>6. f \in Surjection(Ticks(F), begin .. end - 1)
  <2>1. ASSUME NEW t \in begin .. end - 1
        PROVE  \E x \in Ticks(F) : f[x] = t
    <3>1. PICK p \in F : t \in p.from .. p.to - 1
      BY <1>1
    <3>2. <<p, t>> \in Ticks(F)
      BY <3>1 DEF Ticks
    <3>3. f[<<p, t>>] = t
      BY <3>2
    <3>4. QED
      BY <3>2, <3>3
  <2>2. f \in [Ticks(F) -> begin .. end - 1]
    BY <1>3, Fun_InjectionProperties
  <2> HIDE DEF f
  <2>3. QED
    BY <2>1, <2>2, Fun_IsSurj
<1> HIDE DEF f
<1>7. Cardinality(Ticks(F)) = end - begin
  BY <1>3, <1>4, <1>6, FS_Injection, Zenon
<1>8. QED
  BY <1>5, <1>7 DEF Elapsed, Ticks, F
-----------------------------------------------------------------------------
(* Types.  No more scans are registered than processed. *)

Typed == EstimatorTypeOK /\ scansDone <= scans

Result == [scan : 0 .. MaxScans, run : Nat, ok : BOOLEAN, trusted : BOOLEAN,
           path : {"none", "loose", "tight"}, begin : Times, end : Times,
           factor : SUBSET [from : Nat, to : Nat, sample : Nat],
           points : SUBSET [at : Nat, from : Nat, to : Nat], report : Report]

LEMMA InitTyped == EstimatorInit => Typed
<1>1. NoOrigin \in Origin /\ Fresh \in Report /\ NoTime \in Times /\ 0 \in 0 .. MaxScans
  BY EstimatorAssumption DEF NoOrigin, Origin, Fresh, Report, Times, None
<1>2. NoResult.ok = FALSE
  BY DEF NoResult
<1>3. NoResult \in Result
  BY <1>1 DEF NoResult, Result, None
<1> SUFFICES ASSUME EstimatorInit PROVE Typed
  OBVIOUS
<1>4. deskew \in [end : Times, span : Nat, rot : [from : Times, to : Times], bias : Origin]
  BY <1>1 DEF EstimatorInit
<1>5. state \in [at : Times, velocity : BOOLEAN, bias : Origin]
  BY <1>1 DEF EstimatorInit
<1>6. velocity \in BOOLEAN /\ bootstrapped \in BOOLEAN
  BY Zenon DEF EstimatorInit
<1>7. /\ scans = 0 /\ scansDone = 0 /\ scans \in 0 .. MaxScans /\ scansDone \in 0 .. MaxScans
      /\ pose \in Times /\ gravity \in Origin /\ navCov \in Times /\ biasCov \in Nat
      /\ map \subseteq 1 .. MaxScans /\ prevScanEnd \in Times /\ report \in Report
  BY <1>1 DEF EstimatorInit
<1>8. scansDone <= scans
  BY <1>7
<1>9. result = NoResult
  BY DEF EstimatorInit
<1>10. QED
  BY <1>2, <1>3, <1>4, <1>5, <1>6, <1>7, <1>8, <1>9, Zenon DEF Typed, EstimatorTypeOK, Result

LEMMA ResetTyped == Typed /\ EstimatorReset => Typed'
<1> SUFFICES ASSUME Typed, EstimatorReset PROVE Typed'
  OBVIOUS
<1>1. NoOrigin \in Origin /\ NoTime \in Times /\ 0 \in 0 .. MaxScans
  BY EstimatorAssumption DEF NoOrigin, Origin, Times, None
<1>2. deskew' \in [end : Times, span : Nat, rot : [from : Times, to : Times], bias : Origin]
  BY <1>1 DEF EstimatorReset, Typed, EstimatorTypeOK
<1>3. state' \in [at : Times, velocity : BOOLEAN, bias : Origin]
  BY <1>1 DEF EstimatorReset
<1>4. velocity' \in BOOLEAN /\ bootstrapped' \in BOOLEAN
  BY Zenon DEF EstimatorReset
<1>5. /\ pose' \in Times /\ navCov' \in Times /\ biasCov' \in Nat
      /\ map' \subseteq 1 .. MaxScans /\ scansDone' \in 0 .. MaxScans /\ prevScanEnd' \in Times
  BY <1>1 DEF EstimatorReset
<1>6. UNCHANGED <<scans, gravity, report, result>> /\ scansDone' = 0
  BY DEF EstimatorReset
<1>7. scans' \in 0 .. MaxScans /\ gravity' \in Origin /\ report' \in Report
  BY <1>6, Zenon DEF Typed, EstimatorTypeOK
<1>8. scansDone' <= scans'
  BY <1>6, <1>7
<1>9. QED
  BY <1>2, <1>3, <1>4, <1>5, <1>6, <1>7, <1>8, Zenon DEF Typed, EstimatorTypeOK

LEMMA InitializeTyped ==
  ASSUME NEW run \in Nat, Typed, Initialize(run)
  PROVE  Typed'
<1>1. [run |-> run, scan |-> None] \in Origin /\ NoTime \in Times
  BY EstimatorAssumption DEF Origin, Times, None
<1>2. QED
  BY <1>1 DEF Initialize, Typed, EstimatorTypeOK

FactorOf(g) == Preintegrated(g.imu, WindowBegin(g), ScanEnd(g))

(* A scan's window does not end before it begins, if its sweep begins after the
   scan before it ended. *)
LEMMA WindowTyped ==
  ASSUME NEW g \in ScanGroup, Typed, prevScanEnd <= g.header
  PROVE  /\ WindowBegin(g) \in Nat /\ ScanEnd(g) \in Nat /\ WindowBegin(g) <= ScanEnd(g)
         /\ FactorOf(g) \subseteq [from : Nat, to : Nat, sample : Nat]
         /\ Elapsed(FactorOf(g)) \in Nat
<1>1. g.header \in Nat /\ g.span \in Nat /\ g.imu \in Seq(Nat)
  BY DEF ScanGroup
<1>2. prevScanEnd \in Times
  BY DEF Typed, EstimatorTypeOK
<1>3. /\ ScanEnd(g) = g.header + g.span
      /\ WindowBegin(g) = IF prevScanEnd > 0 THEN prevScanEnd ELSE ScanEnd(g) - g.span
  BY DEF ScanEnd, WindowBegin
<1>4. WindowBegin(g) \in Nat /\ ScanEnd(g) \in Nat /\ WindowBegin(g) <= ScanEnd(g)
  BY <1>1, <1>2, <1>3 DEF Times, NoTime
<1>5. \A p \in FactorOf(g) : p \in [from : Nat, to : Nat, sample : Nat]
  BY <1>1, <1>4, PieceSpec, Zenon DEF FactorOf
<1>6. Elapsed(FactorOf(g)) \in Nat
  BY <1>1, <1>4, ElapsedType DEF FactorOf
<1>7. QED
  BY <1>4, <1>5, <1>6

(* The part of the state that the two registrations set. *)
Registered ==
  /\ pose \in Times /\ velocity \in BOOLEAN
  /\ state \in [at : Times, velocity : BOOLEAN, bias : Origin]
  /\ gravity \in Origin /\ navCov \in Times /\ biasCov \in Nat /\ report \in Report

LEMMA LooseTyped ==
  ASSUME NEW n \in 0 .. MaxScans, NEW begin \in Nat, NEW end \in Nat, begin <= end,
         NEW trusted, Registered, RegisterLoose(n, begin, end, trusted)
  PROVE  Registered'
<1>1. \A level : Of(n, level) \in 0 .. MaxScans
  BY EstimatorAssumption DEF Of, None
<1>2. None \in 0 .. MaxScans
  BY EstimatorAssumption DEF None
<1>3. /\ pose' \in Times /\ velocity' \in BOOLEAN /\ report' \in Report
  <2>1. CASE LooseBootstrap(n, begin, end)
    <3>1. Defined(pose, end) \in Times
      BY DEF Defined, Registered, Times
    <3>2. QED
      BY <2>1, <3>1, <1>2 DEF LooseBootstrap, Registered, Report
  <2>2. ASSUME NEW answer, LooseRejected(n, begin, end, answer)
        PROVE  pose' \in Times /\ velocity' \in BOOLEAN /\ report' \in Report
    <3>1. pose + (end - begin) \in Times
      BY DEF Registered, Times, NoTime
    <3>2. velocity' \in BOOLEAN
      BY <2>2, EstimatorAssumption DEF LooseRejected, Registered
    <3>3. report' \in Report
      BY <2>2, <1>1, <1>2 DEF LooseRejected, Report
    <3>4. QED
      BY <2>2, <3>1, <3>2, <3>3 DEF LooseRejected
  <2>3. ASSUME NEW answer, LooseAccepted(n, begin, end, answer)
        PROVE  pose' \in Times /\ velocity' \in BOOLEAN /\ report' \in Report
    <3>1. report' \in Report
      BY <2>3, <1>1, <1>2 DEF LooseAccepted, Report
    <3>2. pose' \in Times /\ velocity' \in BOOLEAN
      BY <2>3 DEF LooseAccepted, Registered, Times
    <3>3. QED
      BY <3>1, <3>2
  <2>4. QED
    BY <2>1, <2>2, <2>3 DEF RegisterLoose
<1>4. /\ state' \in [at : Times, velocity : BOOLEAN, bias : Origin]
      /\ navCov' \in Times /\ biasCov' \in Nat
  <2>1. CASE Seeds
    <3>1. state' = [state EXCEPT !.at = pose', !.velocity = velocity']
      BY <2>1, Zenon DEF RegisterLoose, SeedFromLoose
    <3>2. navCov' = pose' /\ biasCov' = 0
      BY <2>1, Zenon DEF RegisterLoose, SeedFromLoose
    <3>3. QED
      BY <3>1, <3>2, <1>3 DEF Registered
  <2>2. CASE ~Seeds
    BY <2>2, Zenon DEF RegisterLoose, SeedFromLoose, Registered
  <2>3. QED
    BY <2>1, <2>2
<1>5. gravity' \in Origin
  BY DEF RegisterLoose, Registered
<1>6. QED
  BY <1>3, <1>4, <1>5 DEF Registered

LEMMA TightTyped ==
  ASSUME NEW n \in 0 .. MaxScans, NEW end \in Nat, NEW dt \in Nat, NEW run \in Nat,
         NEW trusted, NEW resync, Registered, RegisterTight(n, end, dt, trusted, resync, run)
  PROVE  Registered'
<1>1. \A level : Of(n, level) \in 0 .. MaxScans
  BY EstimatorAssumption DEF Of, None
<1>2. None \in 0 .. MaxScans /\ Fresh \in Report
  BY EstimatorAssumption DEF None, Fresh, Report
<1>3. Defined(pose, end) \in Times /\ Defined(state.at, end) \in Times
        /\ Defined(navCov, end) \in Times
  BY DEF Defined, Registered, Times
<1>4. state.at + dt \in Times /\ navCov + dt \in Times
  BY DEF Registered, Times, NoTime
<1>5. [run |-> run, scan |-> n] \in Origin
  BY DEF Origin
<1>6. CASE TightNoImu(n, end, dt)
  <2>1. pose' \in Times /\ navCov' \in Times /\ UNCHANGED <<velocity, gravity, biasCov>>
    BY <1>3, <1>6 DEF TightNoImu
  <2>2. state' \in [at : Times, velocity : BOOLEAN, bias : Origin]
    BY <1>3, <1>6 DEF TightNoImu, Registered
  <2>3. report' \in Report
    BY <1>2, <1>6 DEF TightNoImu, Registered, Report
  <2>4. QED
    BY <2>1, <2>2, <2>3, Zenon DEF Registered
<1>7. CASE TightBootstrap(n, end, dt)
  <2>1. pose' \in Times /\ navCov' \in Times /\ UNCHANGED <<velocity, gravity>>
    BY <1>3, <1>7 DEF TightBootstrap
  <2>2. state' \in [at : Times, velocity : BOOLEAN, bias : Origin]
    BY <1>3, <1>7 DEF TightBootstrap, Registered
  <2>3. report' \in Report /\ biasCov' \in Nat
    BY <1>2, <1>7 DEF TightBootstrap, Registered
  <2>4. QED
    BY <2>1, <2>2, <2>3, Zenon DEF Registered
<1>8. ASSUME NEW answer, report' = TightReport(n, answer), TightRejected(n, end, dt, answer)
      PROVE  Registered'
  <2>1. report' \in Report
    BY <1>1, <1>8 DEF TightReport, Report
  <2>2. state' \in [at : Times, velocity : BOOLEAN, bias : Origin]
    BY <1>4, <1>8 DEF TightRejected, Registered
  <2>3. pose' \in Times /\ navCov' \in Times /\ biasCov' \in Nat /\ UNCHANGED gravity
    BY <1>4, <1>8 DEF TightRejected, Registered
  <2>4. velocity' \in BOOLEAN
    BY <1>8 DEF TightRejected, Registered
  <2>5. QED
    BY <2>1, <2>2, <2>3, <2>4, Zenon DEF Registered
<1>9. ASSUME NEW answer, report' = TightReport(n, answer),
             TightAccepted(n, end, dt, answer, run)
      PROVE  Registered'
  <2>1. report' \in Report
    BY <1>1, <1>9 DEF TightReport, Report
  <2>2. state' \in [at : Times, velocity : BOOLEAN, bias : Origin]
    BY <1>5, <1>9 DEF TightAccepted, Times
  <2>3. pose' \in Times /\ gravity' \in Origin /\ velocity' \in BOOLEAN
    BY <1>5, <1>9 DEF TightAccepted, Times
  <2>4. navCov' \in Times /\ biasCov' \in Nat
    BY <1>9 DEF TightAccepted, Times, Registered
  <2>5. QED
    BY <2>1, <2>2, <2>3, <2>4, Zenon DEF Registered
<1>10. QED
  BY <1>6, <1>7, <1>8, <1>9, Zenon DEF RegisterTight, TightSolve

(* One scan keeps the types. *)
LEMMA ScanTyped ==
  ASSUME NEW g \in ScanGroup, Typed, prevScanEnd <= g.header, ProcessScan(g)
  PROVE  Typed'
<1> DEFINE n == scans + 1
<1>1. scans \in 0 .. MaxScans /\ n \in 1 .. MaxScans /\ scans' = n /\ g.run \in Nat
  BY DEF ProcessScan, Typed, EstimatorTypeOK, ScanGroup
<1>2. scansDone \in 0 .. MaxScans /\ scansDone <= scans /\ MaxScans \in Nat
  BY EstimatorAssumption DEF Typed, EstimatorTypeOK
<1>3. CASE UNCHANGED solved /\ result' = [NoResult EXCEPT !.scan = n, !.run = g.run]
  <2>1. Fresh \in Report /\ NoTime \in Times
    BY <1>2 DEF Fresh, Report, Times, None
  <2>2. /\ result' \in Result
        /\ ~result'.ok
    <3>1. result' = [NoResult EXCEPT !.scan = n, !.run = g.run] /\ NoResult.ok = FALSE
      BY <1>3 DEF NoResult
    <3>2. NoResult \in Result /\ n \in 0 .. MaxScans
      BY <1>1, <1>2, <2>1 DEF NoResult, Result, None
    <3> HIDE DEF n
    <3>3. result'.ok = NoResult.ok
      BY <3>1, <3>2 DEF Result
    <3>4. QED
      BY <3>1, <3>2, <3>3, <1>1 DEF Result
  <2>3. scans' \in 0 .. MaxScans /\ scansDone' <= scans'
    BY <1>1, <1>2, <1>3 DEF solved
  <2>4. QED
    BY <1>3, <2>2, <2>3, Zenon DEF solved, Typed, EstimatorTypeOK, Result
<1>4. ASSUME NEW trusted \in BOOLEAN, Deskewable(g, deskew.end),
             Register(g, n, trusted), InsertIntoMap(n, trusted)
      PROVE  Typed'
  <2> DEFINE begin == WindowBegin(g)
             end == ScanEnd(g)
             factor == FactorOf(g)
  <2>1. /\ begin \in Nat /\ end \in Nat /\ begin <= end /\ Elapsed(factor) \in Nat
        /\ factor \subseteq [from : Nat, to : Nat, sample : Nat]
    BY WindowTyped
  <2>2. /\ DeltaRot(g, deskew.end) \in [from : Nat, to : Nat]
        /\ Compensated(g, deskew.end) \subseteq [at : Nat, from : Nat, to : Nat]
    BY <1>4, DeskewSpec DEF Typed, EstimatorTypeOK
  <2>3. Registered
    BY Zenon DEF Typed, EstimatorTypeOK, Registered
  <2>4. /\ result' = [scan |-> n, run |-> g.run, ok |-> TRUE, trusted |-> trusted,
                      path |-> IF Tight THEN "tight" ELSE "loose",
                      begin |-> begin, end |-> end, factor |-> factor,
                      points |-> Compensated(g, deskew.end), report |-> report']
        /\ prevScanEnd' = end /\ scansDone' = scansDone + 1
        /\ \E resync \in BOOLEAN : Deskewed(g, resync)
    BY <1>4, Zenon DEF Register, FactorOf
  <2>5. Registered'
    <3>1. CASE Tight
      <4>1. PICK resync \in BOOLEAN :
              RegisterTight(n, end, Elapsed(factor), trusted, resync, g.run)
        BY <1>4, <3>1, Zenon DEF Register, FactorOf
      <4>2. n \in 0 .. MaxScans
        BY <1>1
      <4> HIDE DEF n, end, factor
      <4>3. QED
        BY <4>1, <4>2, <2>1, <2>3, <1>1, TightTyped
    <3>2. CASE ~Tight
      <4>1. RegisterLoose(n, begin, end, trusted)
        BY <1>4, <3>2, Zenon DEF Register, FactorOf
      <4>2. n \in 0 .. MaxScans
        BY <1>1
      <4> HIDE DEF n, end, begin
      <4>3. QED
        BY <4>1, <4>2, <2>1, <2>3, LooseTyped
    <3>3. QED
      BY <3>1, <3>2
  <2>6. deskew' \in [end : Times, span : Nat, rot : [from : Times, to : Times], bias : Origin]
    <3>1. PICK resync \in BOOLEAN : Deskewed(g, resync)
      BY <2>4
    <3>2. (IF resync THEN state'.bias ELSE deskew.bias) \in Origin
      BY <2>5 DEF Registered, Typed, EstimatorTypeOK
    <3>3. g.span \in Nat /\ DeltaRot(g, deskew.end) \in [from : Times, to : Times]
      BY <2>2 DEF ScanGroup, Times
    <3>4. QED
      BY <3>1, <3>2, <3>3, <2>1 DEF Deskewed, Times
  <2>7. map' \subseteq 1 .. MaxScans /\ bootstrapped' \in BOOLEAN
    <3>1. map \subseteq 1 .. MaxScans /\ bootstrapped \in BOOLEAN
      BY DEF Typed, EstimatorTypeOK
    <3>2. bootstrapped' \in BOOLEAN
      BY <1>4, <3>1 DEF InsertIntoMap
    <3>3. map' = map \/ map' \in Pruned(map \cup {n})
      BY <1>4, Zenon DEF InsertIntoMap
    <3>4. map' \subseteq map \cup {n}
      BY <3>3 DEF Pruned
    <3>5. QED
      BY <3>1, <3>2, <3>4, <1>1
  <2>8. /\ scans' \in 0 .. MaxScans /\ scansDone' \in 0 .. MaxScans /\ scansDone' <= scans'
        /\ prevScanEnd' \in Times
    BY <1>1, <1>2, <2>1, <2>4 DEF Times
  <2>9. /\ result' \in Result
        /\ result'.begin \in Nat /\ result'.end \in Nat
    <3>1. n \in 0 .. MaxScans /\ begin \in Times /\ end \in Times /\ report' \in Report
      BY <1>1, <2>1, <2>5 DEF Times, Registered
    <3> HIDE DEF n, begin, end, factor
    <3>2. QED
      BY <3>1, <1>1, <2>1, <2>2, <2>4 DEF Result
  <2> HIDE DEF n
  <2>10. QED
    BY <2>5, <2>6, <2>7, <2>8, <2>9, Zenon DEF Registered, Typed, EstimatorTypeOK, Result
<1>5. QED
  BY <1>3, <1>4, Zenon DEF ProcessScan
-----------------------------------------------------------------------------
(* What a registration does to the two poses, and when it may be trusted. *)

Aligned(n) == map # {} /\ HasPlanes /\ report'.corr = n

LooseOutcome(n, begin, end, trusted) ==
  /\ \/ map = {} /\ trusted /\ pose' = Defined(pose, end)
     \/ map # {} /\ ~trusted /\ pose' = pose + (end - begin)
     \/ trusted /\ Aligned(n) /\ pose' = end
  /\ state'.at = IF Seeds THEN pose' ELSE state.at

TightOutcome(n, end, dt, trusted) ==
  \/ /\ (dt = 0 /\ ~trusted) \/ (map = {} /\ trusted)
     /\ pose' = Defined(pose, end) /\ state'.at = Defined(state.at, end)
  \/ map # {} /\ ~trusted /\ pose' = state.at + dt /\ state'.at = state.at + dt
  \/ trusted /\ Aligned(n) /\ pose' = end /\ state'.at = end

LEMMA LooseOutcomes ==
  ASSUME NEW n, NEW begin, NEW end, NEW trusted \in BOOLEAN, Typed,
         RegisterLoose(n, begin, end, trusted)
  PROVE  LooseOutcome(n, begin, end, trusted)
<1>1. state \in [at : Times, velocity : BOOLEAN, bias : Origin]
  BY DEF Typed, EstimatorTypeOK
<1>2. state'.at = IF Seeds THEN pose' ELSE state.at
  <2>1. CASE Seeds
    <3>1. state' = [state EXCEPT !.at = pose', !.velocity = velocity']
      BY <2>1, Zenon DEF RegisterLoose, SeedFromLoose
    <3>2. QED
      BY <3>1, <2>1, <1>1
  <2>2. CASE ~Seeds
    BY <2>2, Zenon DEF RegisterLoose, SeedFromLoose
  <2>3. QED
    BY <2>1, <2>2
<1>3. CASE trusted /\ LooseBootstrap(n, begin, end)
  BY <1>2, <1>3 DEF LooseBootstrap, LooseOutcome
<1>4. ASSUME NEW answer, ~trusted, LooseRejected(n, begin, end, answer)
      PROVE  LooseOutcome(n, begin, end, trusted)
  BY <1>2, <1>4 DEF LooseRejected, LooseOutcome
<1>5. ASSUME NEW answer \in LooseAnswers(HasPlanes), trusted,
             LooseAccepted(n, begin, end, answer)
      PROVE  LooseOutcome(n, begin, end, trusted)
  <2>1. HasPlanes
    BY <1>5 DEF LooseAnswers, LooseAccepted, Accepted
  <2>2. map # {} /\ report'.corr = n /\ pose' = end
    BY <1>5 DEF LooseAccepted
  <2>3. QED
    BY <2>1, <2>2, <1>2, <1>5 DEF LooseOutcome, Aligned
<1>6. QED
  BY <1>3, <1>4, <1>5, Zenon DEF RegisterLoose

LEMMA TightOutcomes ==
  ASSUME NEW n, NEW end, NEW dt, NEW run, NEW trusted \in BOOLEAN, NEW resync \in BOOLEAN,
         Typed, RegisterTight(n, end, dt, trusted, resync, run)
  PROVE  TightOutcome(n, end, dt, trusted)
<1>1. state \in [at : Times, velocity : BOOLEAN, bias : Origin]
  BY DEF Typed, EstimatorTypeOK
<1>2. CASE ~trusted /\ TightNoImu(n, end, dt)
  <2>1. state'.at = Defined(state.at, end) /\ pose' = Defined(pose, end) /\ dt = 0
    BY <1>1, <1>2 DEF TightNoImu
  <2>2. QED
    BY <2>1, <1>2 DEF TightOutcome
<1>3. CASE trusted /\ TightBootstrap(n, end, dt)
  <2>1. state'.at = Defined(state.at, end) /\ pose' = Defined(pose, end) /\ map = {}
    BY <1>1, <1>3 DEF TightBootstrap
  <2>2. QED
    BY <2>1, <1>3 DEF TightOutcome
<1>4. ASSUME NEW answer, map # {}, trusted = Accepted(answer),
             TightRejected(n, end, dt, answer)
      PROVE  TightOutcome(n, end, dt, trusted)
  <2>1. state'.at = state.at + dt /\ pose' = state.at + dt /\ ~trusted
    BY <1>1, <1>4 DEF TightRejected
  <2>2. QED
    BY <2>1, <1>4 DEF TightOutcome
<1>5. ASSUME NEW answer \in TightAnswers(HasPlanes), map # {}, trusted = Accepted(answer),
             report' = TightReport(n, answer), TightAccepted(n, end, dt, answer, run)
      PROVE  TightOutcome(n, end, dt, trusted)
  <2>1. HasPlanes /\ trusted
    BY <1>5 DEF TightAnswers, TightAccepted, Accepted
  <2>2. report'.corr = n /\ pose' = end /\ state'.at = end
    BY <1>5 DEF TightAccepted, TightReport
  <2>3. QED
    BY <2>1, <2>2, <1>5 DEF TightOutcome, Aligned
<1>6. QED
  BY <1>2, <1>3, <1>4, <1>5, Zenon DEF RegisterTight, TightSolve

(* A scan that is registered: its window, its result, and the outcome. *)
Outcome(g, n, trusted) ==
  LET begin == WindowBegin(g)
      end == ScanEnd(g)
  IN /\ prevScanEnd' = end /\ deskew'.end = end /\ scansDone' = scansDone + 1
     /\ deskew'.rot = DeltaRot(g, deskew.end)
     /\ result' = [scan |-> n, run |-> g.run, ok |-> TRUE, trusted |-> trusted,
                   path |-> IF Tight THEN "tight" ELSE "loose",
                   begin |-> begin, end |-> end, factor |-> FactorOf(g),
                   points |-> Compensated(g, deskew.end), report |-> report']
     /\ IF Tight THEN TightOutcome(n, end, Elapsed(FactorOf(g)), trusted)
                 ELSE LooseOutcome(n, begin, end, trusted)

LEMMA Outcomes ==
  ASSUME NEW g, NEW n, NEW trusted \in BOOLEAN, Typed, Register(g, n, trusted)
  PROVE  Outcome(g, n, trusted)
<1> DEFINE begin == WindowBegin(g)
           end == ScanEnd(g)
<1>1. /\ prevScanEnd' = end /\ scansDone' = scansDone + 1
      /\ result' = [scan |-> n, run |-> g.run, ok |-> TRUE, trusted |-> trusted,
                    path |-> IF Tight THEN "tight" ELSE "loose",
                    begin |-> begin, end |-> end, factor |-> FactorOf(g),
                    points |-> Compensated(g, deskew.end), report |-> report']
  BY Zenon DEF Register, FactorOf
<1>2. PICK resync \in BOOLEAN :
        /\ Deskewed(g, resync)
        /\ IF Tight THEN RegisterTight(n, end, Elapsed(FactorOf(g)), trusted, resync, g.run)
                    ELSE RegisterLoose(n, begin, end, trusted)
  BY Zenon DEF Register, FactorOf
<1>3. deskew'.end = end /\ deskew'.rot = DeltaRot(g, deskew.end)
  BY <1>2 DEF Deskewed
<1>4. IF Tight THEN TightOutcome(n, end, Elapsed(FactorOf(g)), trusted)
              ELSE LooseOutcome(n, begin, end, trusted)
  BY <1>2, TightOutcomes, LooseOutcomes, Zenon
<1>5. QED
  BY <1>1, <1>3, <1>4, Zenon DEF Outcome

(* A scan that is not registered leaves no trace but its failed result. *)
LEMMA Scanned ==
  ASSUME NEW g, ProcessScan(g)
  PROVE  /\ scans' = scans + 1
         /\ \/ /\ ~Deskewable(g, deskew.end) /\ UNCHANGED solved
               /\ result' = [NoResult EXCEPT !.scan = scans + 1, !.run = g.run]
            \/ \E trusted \in BOOLEAN : /\ Deskewable(g, deskew.end)
                                        /\ Register(g, scans + 1, trusted)
                                        /\ InsertIntoMap(scans + 1, trusted)
BY Zenon DEF ProcessScan

LEMMA Processed ==
  ASSUME NEW g, Typed, ProcessScan(g)
  PROVE  /\ scans' = scans + 1
         /\ \/ UNCHANGED solved /\ result' = [NoResult EXCEPT !.scan = scans + 1, !.run = g.run]
            \/ \E trusted \in BOOLEAN : /\ Deskewable(g, deskew.end)
                                        /\ Register(g, scans + 1, trusted)
                                        /\ Outcome(g, scans + 1, trusted)
                                        /\ InsertIntoMap(scans + 1, trusted)
<1>1. \A trusted \in BOOLEAN :
        Register(g, scans + 1, trusted) => Outcome(g, scans + 1, trusted)
  BY Outcomes
<1>2. QED
  BY <1>1, Scanned, Zenon

LEMMA FailedResult ==
  ASSUME NEW n, NEW run, result' = [NoResult EXCEPT !.scan = n, !.run = run]
  PROVE  /\ result'.scan = n /\ result'.run = run /\ result'.ok = FALSE
         /\ result'.path = "none" /\ result'.points = {}
BY DEF NoResult

(* What a registered scan reports, field by field. *)
LEMMA GoodResult ==
  ASSUME NEW g, NEW n, NEW trusted, Outcome(g, n, trusted)
  PROVE  /\ result'.scan = n /\ result'.run = g.run /\ result'.ok = TRUE
         /\ result'.trusted = trusted
         /\ result'.path = IF Tight THEN "tight" ELSE "loose"
         /\ result'.begin = WindowBegin(g) /\ result'.end = ScanEnd(g)
         /\ result'.factor = FactorOf(g)
         /\ result'.points = Compensated(g, deskew.end) /\ result'.report = report'
<1>1. result' = [scan |-> n, run |-> g.run, ok |-> TRUE, trusted |-> trusted,
                 path |-> IF Tight THEN "tight" ELSE "loose",
                 begin |-> WindowBegin(g), end |-> ScanEnd(g), factor |-> FactorOf(g),
                 points |-> Compensated(g, deskew.end), report |-> report']
  BY Zenon DEF Outcome
<1>2. QED
  BY <1>1
-----------------------------------------------------------------------------
(* The timeline: nothing is known before the first scan, and no pose is ahead *)
(* of the last scan's end.                                                    *)
Timeline ==
  /\ deskew.end = prevScanEnd
  /\ scansDone = 0 => /\ pose = NoTime /\ state.at = NoTime /\ prevScanEnd = NoTime
                      /\ map = {} /\ bootstrapped = FALSE
  /\ scansDone > 0 => prevScanEnd > 0
  /\ pose <= prevScanEnd /\ state.at <= prevScanEnd

LEMMA InitTimeline == EstimatorInit => Timeline
BY DEF EstimatorInit, Timeline, NoTime

LEMMA ResetTimeline == Typed /\ EstimatorReset => Timeline'
<1> SUFFICES ASSUME Typed, EstimatorReset PROVE Timeline'
  OBVIOUS
<1>1. deskew \in [end : Times, span : Nat, rot : [from : Times, to : Times], bias : Origin]
  BY DEF Typed, EstimatorTypeOK
<1>2. deskew'.end = NoTime
  BY <1>1 DEF EstimatorReset
<1>3. QED
  BY <1>2 DEF EstimatorReset, Timeline, NoTime

LEMMA InitializeTimeline ==
  ASSUME NEW run, Typed, Timeline, Initialize(run)
  PROVE  Timeline'
<1>1. deskew \in [end : Times, span : Nat, rot : [from : Times, to : Times], bias : Origin]
  BY DEF Typed, EstimatorTypeOK
<1>2. deskew'.end = deskew.end /\ state'.at = NoTime
  BY <1>1 DEF Initialize
<1>3. NoTime <= prevScanEnd
  BY DEF Typed, EstimatorTypeOK, Times, NoTime
<1>4. QED
  BY <1>2, <1>3 DEF Initialize, Timeline

(* The window of a scan begins where the one before it ended. *)
LEMMA WindowOf ==
  ASSUME NEW g \in ScanGroup, Typed, Timeline, prevScanEnd <= g.header
  PROVE  /\ WindowBegin(g) = IF scansDone > 0 THEN prevScanEnd ELSE g.header
         /\ WindowBegin(g) \in Nat /\ ScanEnd(g) \in Nat /\ WindowBegin(g) <= ScanEnd(g)
         /\ g.header \in Nat /\ g.header <= ScanEnd(g)
         /\ g.imu \in Seq(Nat)
<1>1. scansDone \in Nat /\ prevScanEnd \in Times
  BY EstimatorAssumption DEF Typed, EstimatorTypeOK
<1>2. g.header \in Nat /\ g.span \in Nat /\ g.imu \in Seq(Nat)
  BY DEF ScanGroup
<1>3. scansDone = 0 => ~(prevScanEnd > 0)
  BY DEF Timeline, NoTime
<1>4. scansDone > 0 => prevScanEnd > 0
  BY DEF Timeline
<1>5. WindowBegin(g) = IF scansDone > 0 THEN prevScanEnd ELSE g.header
  <2>1. ScanEnd(g) - g.span = g.header
    BY <1>2 DEF ScanEnd
  <2>2. QED
    BY <1>1, <1>3, <1>4, <2>1 DEF WindowBegin
<1>6. WindowBegin(g) \in Nat /\ ScanEnd(g) \in Nat /\ WindowBegin(g) <= ScanEnd(g)
  BY WindowTyped
<1>7. QED
  BY <1>2, <1>5, <1>6 DEF ScanEnd

(* One scan keeps the timeline. *)
LEMMA ScanTimeline ==
  ASSUME NEW g \in ScanGroup, Typed, Timeline, InOrder(g.imu),
         0 < g.header, prevScanEnd <= g.header, ProcessScan(g)
  PROVE  Timeline'
<1> DEFINE begin == WindowBegin(g)
           end == ScanEnd(g)
           dt == Elapsed(FactorOf(g))
<1>1. CASE UNCHANGED solved
  BY <1>1, Zenon DEF Timeline, solved
<1>2. ASSUME NEW trusted \in BOOLEAN, Outcome(g, scans + 1, trusted)
      PROVE  Timeline'
  <2>1. /\ begin = IF scansDone > 0 THEN prevScanEnd ELSE g.header
        /\ begin \in Nat /\ end \in Nat /\ begin <= end /\ 0 < end
        /\ g.imu \in Seq(Nat)
    <3>1. /\ begin = IF scansDone > 0 THEN prevScanEnd ELSE g.header
          /\ begin \in Nat /\ end \in Nat /\ begin <= end
          /\ g.header \in Nat /\ g.header <= end /\ g.imu \in Seq(Nat)
      BY WindowOf
    <3> HIDE DEF begin, end
    <3>2. QED
      BY <3>1
  <2>2. dt \in Nat /\ dt <= end - begin
    BY <2>1, ElapsedType, ElapsedAtMost DEF FactorOf
  <2>3. /\ scansDone \in Nat /\ pose \in Times /\ state.at \in Times /\ prevScanEnd \in Times
    BY EstimatorAssumption DEF Typed, EstimatorTypeOK
  <2>4. prevScanEnd' = end /\ deskew'.end = end /\ scansDone' = scansDone + 1
    BY <1>2, Zenon DEF Outcome
  <2>5. /\ scansDone = 0 => pose = NoTime /\ state.at = NoTime /\ map = {}
        /\ pose <= prevScanEnd /\ state.at <= prevScanEnd /\ prevScanEnd <= end
    <3>1. prevScanEnd <= begin
      BY <2>1, <2>3 DEF Timeline, Times, NoTime
    <3> HIDE DEF begin, end
    <3>2. QED
      BY <2>1, <2>3, <3>1 DEF Timeline, Times, NoTime
  <2> HIDE DEF begin, end, dt
  <2>6. Defined(pose, end) <= end /\ Defined(state.at, end) <= end
    BY <2>1, <2>3, <2>5 DEF Defined, Times, NoTime
  <2>7. /\ pose <= end /\ state.at <= end
    BY <2>1, <2>3, <2>5 DEF Times, NoTime
  <2>8. map # {} => pose + (end - begin) <= end /\ state.at + dt <= end
    <3>1. ASSUME map # {}
          PROVE  begin = prevScanEnd
      BY <3>1, <2>1, <2>3, <2>5
    <3>2. QED
      BY <3>1, <2>1, <2>2, <2>3, <2>5 DEF Times, NoTime
  <2>9. pose' <= end /\ state'.at <= end
    <3>1. CASE Tight
      <4>1. TightOutcome(scans + 1, end, dt, trusted)
        BY <1>2, <3>1, Zenon DEF Outcome, end, dt
      <4>2. QED
        BY <4>1, <2>1, <2>6, <2>8 DEF TightOutcome
    <3>2. CASE ~Tight
      <4>1. LooseOutcome(scans + 1, begin, end, trusted)
        BY <1>2, <3>2, Zenon DEF Outcome, end, begin
      <4>2. pose' <= end
        BY <4>1, <2>1, <2>6, <2>8 DEF LooseOutcome
      <4>3. QED
        BY <4>1, <4>2, <2>7 DEF LooseOutcome
    <3>3. QED
      BY <3>1, <3>2
  <2>10. QED
    BY <2>1, <2>3, <2>4, <2>9 DEF Timeline
<1>3. QED
  BY <1>1, <1>2, Processed, Zenon

(* A pose taken on the tight path is not ahead of its scan. *)
LEMMA ScanNeverAhead ==
  ASSUME NEW g \in ScanGroup, Typed, Timeline, InOrder(g.imu),
         0 < g.header, prevScanEnd <= g.header, ProcessScan(g), Ran("tight")
  PROVE  pose' <= result'.end /\ state'.at <= result'.end
<1>1. Timeline'
  BY ScanTimeline
<1>2. ASSUME result' = [NoResult EXCEPT !.scan = scans + 1, !.run = g.run]
      PROVE  FALSE
  BY <1>2, FailedResult DEF Ran
<1>3. PICK trusted \in BOOLEAN : Outcome(g, scans + 1, trusted)
  BY <1>2, Processed, Zenon
<1>4. result'.end = ScanEnd(g) /\ prevScanEnd' = ScanEnd(g)
  BY <1>3, GoodResult, Zenon DEF Outcome
<1>5. QED
  BY <1>1, <1>4 DEF Timeline
-----------------------------------------------------------------------------
(* A map that is never left: there is one after the first scan, and one with  *)
(* planes after the bootstrap.                                                *)
InRange == /\ scansDone > 0 => map # {}
           /\ bootstrapped => HasPlanes

LEMMA MapGrows ==
  ASSUME Leaves = FALSE, Typed, NEW n, NEW trusted \in BOOLEAN, InsertIntoMap(n, trusted)
  PROVE  /\ map' = map \/ map' = map \cup {n}
         /\ bootstrapped' = (bootstrapped \/ (trusted /\ map # {}))
         /\ HasPlanes => HasPlanes'
<1>1. bootstrapped' = (bootstrapped \/ (trusted /\ map # {}))
  BY Zenon DEF InsertIntoMap
<1>2. map' = map \/ map' = map \cup {n}
  <2>1. map' = map \/ map' \in Pruned(map \cup {n})
    BY Zenon DEF InsertIntoMap
  <2>2. Pruned(map \cup {n}) = {map \cup {n}}
    BY DEF Pruned
  <2>3. QED
    BY <2>1, <2>2
<1>3. IsFiniteSet(map) /\ IsFiniteSet(map \cup {n})
  <2>1. IsFiniteSet(1 .. MaxScans)
    BY EstimatorAssumption, FS_Interval
  <2>2. map \in SUBSET (1 .. MaxScans)
    BY DEF Typed, EstimatorTypeOK
  <2>3. IsFiniteSet(map)
    BY <2>1, <2>2, FS_Subset
  <2>4. QED
    BY <2>3, FS_AddElement
<1>4. /\ Cardinality(map) \in Nat /\ Cardinality(map \cup {n}) \in Nat
      /\ Cardinality(map) <= Cardinality(map \cup {n})
  <2>1. map \in SUBSET (map \cup {n})
    OBVIOUS
  <2>2. QED
    BY <2>1, <1>3, FS_Subset, FS_CardinalityType
<1>5. HasPlanes => HasPlanes'
  BY <1>2, <1>4, EstimatorAssumption DEF HasPlanes
<1>6. QED
  BY <1>1, <1>2, <1>5

LEMMA ScanInRange ==
  ASSUME NEW g, Leaves = FALSE, Typed, Timeline, InRange, ProcessScan(g)
  PROVE  InRange'
<1>1. CASE UNCHANGED solved
  BY <1>1, Zenon DEF InRange, HasPlanes, solved
<1>2. ASSUME NEW trusted \in BOOLEAN, Outcome(g, scans + 1, trusted),
             InsertIntoMap(scans + 1, trusted)
      PROVE  InRange'
  <2>1. /\ map' = map \/ map' = map \cup {scans + 1}
        /\ bootstrapped' = (bootstrapped \/ (trusted /\ map # {}))
        /\ HasPlanes => HasPlanes'
    BY <1>2, MapGrows
  <2>2. trusted /\ map # {} => HasPlanes
    BY <1>2 DEF Outcome, TightOutcome, LooseOutcome, Aligned
  <2>3. map' # {}
    <3>1. CASE map # {}
      BY <3>1, <2>1
    <3>2. CASE map = {}
      <4>1. ~bootstrapped
        <5>1. ~HasPlanes
          BY <3>2, FS_EmptySet, EstimatorAssumption DEF HasPlanes
        <5>2. QED
          BY <5>1, Zenon DEF InRange
      <4>2. ~bootstrapped'
        BY <4>1, <3>2, <2>1
      <4>3. map' \in Pruned(map \cup {scans + 1})
        BY <4>2, <1>2, Zenon DEF InsertIntoMap
      <4>4. QED
        BY <4>3, <1>2 DEF Pruned
    <3>3. QED
      BY <3>1, <3>2
  <2>4. bootstrapped' => HasPlanes'
    BY <2>1, <2>2, Zenon DEF InRange
  <2>5. QED
    BY <2>3, <2>4, Zenon DEF InRange
<1>3. QED
  BY <1>1, <1>2, Processed, Zenon

(* What enters the map once it is good was aligned. *)
LEMMA ScanMapAligned ==
  ASSUME NEW g, Leaves = FALSE, Typed, InRange, ProcessScan(g), bootstrapped, map' # map
  PROVE  result'.trusted /\ result'.report.corr = result'.scan
<1>1. ~UNCHANGED solved
  BY DEF solved
<1>2. PICK trusted \in BOOLEAN : Outcome(g, scans + 1, trusted) /\ InsertIntoMap(scans + 1, trusted)
  BY <1>1, Processed, Zenon
<1>3. trusted = TRUE
  BY <1>2 DEF InsertIntoMap
<1>4. HasPlanes
  BY Zenon DEF InRange
<1>5. map # {}
  BY <1>4, FS_EmptySet, EstimatorAssumption DEF HasPlanes
<1>6. Aligned(scans + 1)
  <2>1. CASE Tight
    <3>1. TightOutcome(scans + 1, ScanEnd(g), Elapsed(FactorOf(g)), trusted)
      BY <1>2, <2>1, Zenon DEF Outcome
    <3>2. QED
      BY <3>1, <1>3, <1>5 DEF TightOutcome
  <2>2. CASE ~Tight
    <3>1. LooseOutcome(scans + 1, WindowBegin(g), ScanEnd(g), trusted)
      BY <1>2, <2>2, Zenon DEF Outcome
    <3>2. QED
      BY <3>1, <1>3, <1>5 DEF LooseOutcome
  <2>3. QED
    BY <2>1, <2>2
<1>7. result'.scan = scans + 1 /\ result'.trusted = trusted /\ result'.report = report'
  BY <1>2, GoodResult, Zenon
<1>8. QED
  BY <1>3, <1>6, <1>7 DEF Aligned

(* A sparse map is fed every scan. *)
LEMMA ScanSparseFed ==
  ASSUME NEW g, Leaves = FALSE, Typed, InRange, ProcessScan(g), result'.ok, ~HasPlanes
  PROVE  ~Refused'
<1>1. ~bootstrapped
  BY Zenon DEF InRange
<1>2. ~(result' = [NoResult EXCEPT !.scan = scans + 1, !.run = g.run])
  BY FailedResult
<1>3. PICK trusted \in BOOLEAN : Outcome(g, scans + 1, trusted) /\ InsertIntoMap(scans + 1, trusted)
  BY <1>2, Processed, Zenon
<1>4. result'.trusted = trusted
  BY <1>3, GoodResult, Zenon
<1>5. bootstrapped' = (bootstrapped \/ (trusted /\ map # {}))
  BY <1>3, Zenon DEF InsertIntoMap
<1>6. QED
  BY <1>1, <1>4, <1>5 DEF Refused
-----------------------------------------------------------------------------
(* Poses at the scan's end, of a map that is never left.                     *)

(* On the loose path nothing more is needed ... *)
LoosePose ==
  scansDone > 0 /\ (~UseTight \/ scansDone <= Warmup) => pose = prevScanEnd

(* ... on the tight one, an IMU that covers every window. *)
TightPose == scansDone > 0 /\ Tight => pose = prevScanEnd /\ state.at = prevScanEnd

LEMMA ScanLoosePose ==
  ASSUME NEW g \in ScanGroup, Typed, Timeline, InRange, LoosePose,
         prevScanEnd <= g.header, ProcessScan(g)
  PROVE  LoosePose'
<1> DEFINE begin == WindowBegin(g)
           end == ScanEnd(g)
<1>1. CASE UNCHANGED solved
  BY <1>1, Zenon DEF LoosePose, solved
<1>2. ASSUME NEW trusted \in BOOLEAN, Outcome(g, scans + 1, trusted),
             scansDone' > 0, ~UseTight \/ scansDone' <= Warmup
      PROVE  pose' = prevScanEnd'
  <2>1. /\ begin = IF scansDone > 0 THEN prevScanEnd ELSE g.header
        /\ begin \in Nat /\ end \in Nat
    BY WindowOf
  <2>2. scansDone \in Nat /\ Warmup \in Nat
    BY EstimatorAssumption DEF Typed, EstimatorTypeOK
  <2>3. prevScanEnd' = end /\ scansDone' = scansDone + 1
    BY <1>2, Zenon DEF Outcome
  <2>4. ~Tight
    BY <1>2, <2>2, <2>3 DEF Tight
  <2>5. LooseOutcome(scans + 1, begin, end, trusted)
    BY <1>2, <2>4, Zenon DEF Outcome
  <2>6. scansDone > 0 => pose = prevScanEnd /\ map # {}
    BY <1>2, <2>2, <2>3 DEF LoosePose, InRange
  <2>7. scansDone = 0 => pose = NoTime /\ map = {}
    BY DEF Timeline
  <2> HIDE DEF begin, end
  <2>8. CASE map = {}
    BY <2>2, <2>5, <2>6, <2>7, <2>8, <2>3 DEF LooseOutcome, Defined, Aligned
  <2>9. CASE map # {}
    <3>1. scansDone > 0 /\ pose = begin
      BY <2>1, <2>2, <2>6, <2>7, <2>9
    <3>2. pose' = end
      BY <3>1, <2>1, <2>5, <2>9 DEF LooseOutcome
    <3>3. QED
      BY <3>2, <2>3
  <2>10. QED
    BY <2>8, <2>9
<1>3. QED
  BY <1>1, <1>2, Processed, Zenon DEF LoosePose

(* The IMU of a group covers its window, without a hole. *)
CoversWindow(g) ==
  /\ g.imu # <<>> /\ InOrder(g.imu) /\ NoHole(g.imu)
  /\ g.imu[1] <= WindowBegin(g) /\ ScanEnd(g) <= g.imu[Len(g.imu)]

LEMMA WindowCovered ==
  ASSUME NEW g \in ScanGroup, Typed, Timeline, prevScanEnd <= g.header, CoversWindow(g)
  PROVE  /\ UNION {p.from .. p.to - 1 : p \in FactorOf(g)} = WindowBegin(g) .. ScanEnd(g) - 1
         /\ Elapsed(FactorOf(g)) = ScanEnd(g) - WindowBegin(g)
<1> DEFINE begin == WindowBegin(g)
           end == ScanEnd(g)
<1>1. begin \in Nat /\ end \in Nat /\ begin <= end /\ g.imu \in Seq(Nat)
  BY WindowOf
<1>2. /\ g.imu # <<>> /\ InOrder(g.imu) /\ NoHole(g.imu)
      /\ g.imu[1] <= begin /\ end <= g.imu[Len(g.imu)]
  BY Zenon DEF CoversWindow
<1> HIDE DEF begin, end
<1>3. /\ UNION {p.from .. p.to - 1 : p \in Preintegrated(g.imu, begin, end)}
           = begin .. end - 1
      /\ Elapsed(Preintegrated(g.imu, begin, end)) = end - begin
  BY <1>1, <1>2, FactorCovers
<1>4. QED
  BY <1>3, Zenon DEF FactorOf, begin, end

LEMMA ScanTightPose ==
  ASSUME NEW g \in ScanGroup, Typed, Timeline, InRange, LoosePose, TightPose,
         prevScanEnd <= g.header, ProcessScan(g),
         Deskewable(g, deskew.end) => CoversWindow(g)
  PROVE  TightPose'
<1> DEFINE begin == WindowBegin(g)
           end == ScanEnd(g)
           dt == Elapsed(FactorOf(g))
<1>1. CASE UNCHANGED solved
  BY <1>1, Zenon DEF TightPose, Tight, solved
<1>2. ASSUME NEW trusted \in BOOLEAN, Outcome(g, scans + 1, trusted),
             Deskewable(g, deskew.end), scansDone' > 0, Tight'
      PROVE  pose' = prevScanEnd' /\ state'.at = prevScanEnd'
  <2>1. /\ begin = IF scansDone > 0 THEN prevScanEnd ELSE g.header
        /\ begin \in Nat /\ end \in Nat
    BY WindowOf
  <2>2. scansDone \in Nat /\ Warmup \in Nat
    BY EstimatorAssumption DEF Typed, EstimatorTypeOK
  <2>3. prevScanEnd' = end /\ scansDone' = scansDone + 1
    BY <1>2, Zenon DEF Outcome
  <2>4. dt = end - begin
    BY <1>2, WindowCovered
  <2>5. scansDone > 0 => map # {}
    BY DEF InRange
  <2>6. scansDone = 0 => pose = NoTime /\ state.at = NoTime /\ map = {}
    BY DEF Timeline
  <2>7. LoosePose'
    BY ScanLoosePose
  <2>8. CASE Tight
    <3>1. TightOutcome(scans + 1, end, dt, trusted)
      BY <1>2, <2>8, Zenon DEF Outcome
    <3>2. scansDone > 0 => pose = begin /\ state.at = begin
      BY <2>1, <2>8 DEF TightPose
    <3> HIDE DEF begin, end, dt
    <3>3. pose' = end /\ state'.at = end
      <4>1. CASE scansDone > 0
        <5>1. Defined(pose, end) = IF begin = NoTime THEN end ELSE begin
          BY <3>2, <4>1 DEF Defined
        <5>2. Defined(state.at, end) = IF begin = NoTime THEN end ELSE begin
          BY <3>2, <4>1 DEF Defined
        <5>3. QED
          BY <5>1, <5>2, <3>1, <3>2, <4>1, <2>1, <2>4, <2>5
          DEF TightOutcome, NoTime
      <4>2. CASE scansDone = 0
        BY <3>1, <4>2, <2>6 DEF TightOutcome, Defined, Aligned
      <4>3. QED
        BY <4>1, <4>2, <2>2
    <3>4. QED
      BY <3>3, <2>3
  <2>9. CASE ~Tight
    <3>1. UseTight /\ scansDone' = Warmup /\ scansDone < Warmup
      BY <2>9, <1>2, <2>2, <2>3 DEF Tight
    <3>2. pose' = prevScanEnd'
      BY <3>1, <2>7, <1>2, <2>2 DEF LoosePose
    <3>3. Seeds
      BY <3>1, <2>3 DEF Seeds
    <3>4. LooseOutcome(scans + 1, begin, end, trusted)
      BY <1>2, <2>9, Zenon DEF Outcome
    <3>5. state'.at = pose'
      BY <3>3, <3>4, Zenon DEF LooseOutcome
    <3>6. QED
      BY <3>2, <3>5
  <2>10. QED
    BY <2>8, <2>9
<1>3. QED
  BY <1>1, <1>2, Processed, Zenon DEF TightPose

(* So a tight solve starts where its window does, and its factor spans it. *)
LEMMA ScanFactorSpans ==
  ASSUME NEW g \in ScanGroup, Typed, Timeline, InRange, TightPose,
         prevScanEnd <= g.header, ProcessScan(g),
         Deskewable(g, deskew.end) => CoversWindow(g), Ran("tight"), map # {}
  PROVE  /\ state.at = result'.begin
         /\ UNION {p.from .. p.to - 1 : p \in result'.factor}
              = result'.begin .. result'.end - 1
         /\ Elapsed(result'.factor) = result'.end - result'.begin
<1>1. ASSUME result' = [NoResult EXCEPT !.scan = scans + 1, !.run = g.run]
      PROVE  FALSE
  BY <1>1, FailedResult DEF Ran
<1>2. PICK trusted \in BOOLEAN :
        Outcome(g, scans + 1, trusted) /\ Deskewable(g, deskew.end)
  BY <1>1, Processed, Zenon
<1>3. /\ result'.begin = WindowBegin(g) /\ result'.end = ScanEnd(g)
      /\ result'.factor = FactorOf(g)
  BY <1>2, GoodResult, Zenon
<1>4. Tight
  <2>1. result'.path = IF Tight THEN "tight" ELSE "loose"
    BY <1>2, GoodResult, Zenon
  <2>2. QED
    BY <2>1 DEF Ran
<1>5. scansDone > 0
  <2>1. scansDone \in Nat
    BY EstimatorAssumption DEF Typed, EstimatorTypeOK
  <2>2. QED
    BY <2>1 DEF Timeline
<1>6. state.at = WindowBegin(g)
  BY <1>4, <1>5, WindowOf DEF TightPose
<1>7. /\ UNION {p.from .. p.to - 1 : p \in FactorOf(g)} = WindowBegin(g) .. ScanEnd(g) - 1
      /\ Elapsed(FactorOf(g)) = ScanEnd(g) - WindowBegin(g)
  BY <1>2, WindowCovered
<1>8. QED
  BY <1>3, <1>6, <1>7, Zenon

(* And the pose of every result is at its end. *)
LEMMA ScanPoseAtEnd ==
  ASSUME NEW g \in ScanGroup, Typed, Timeline, InRange, LoosePose, TightPose,
         prevScanEnd <= g.header, ProcessScan(g), result'.ok,
         Deskewable(g, deskew.end) => CoversWindow(g)
  PROVE  pose' = result'.end
<1>1. ~(result' = [NoResult EXCEPT !.scan = scans + 1, !.run = g.run])
  BY FailedResult
<1>2. PICK trusted \in BOOLEAN : Outcome(g, scans + 1, trusted)
  BY <1>1, Processed, Zenon
<1>3. result'.end = ScanEnd(g) /\ prevScanEnd' = ScanEnd(g) /\ scansDone' = scansDone + 1
  BY <1>2, GoodResult, Zenon DEF Outcome
<1>4. LoosePose' /\ TightPose'
  BY ScanLoosePose, ScanTightPose
<1>5. scansDone \in Nat /\ Warmup \in Nat /\ UseTight \in BOOLEAN
  BY EstimatorAssumption DEF Typed, EstimatorTypeOK
<1>6. pose' = prevScanEnd'
  BY <1>3, <1>4, <1>5 DEF LoosePose, TightPose, Tight
<1>7. QED
  BY <1>3, <1>6

(* No pause so long that a scan no longer chains to the last one. *)
Prompt ==
  result' # result /\ result'.ok /\ prevScanEnd # NoTime =>
    (result'.end - deskew'.span) - prevScanEnd < MaxChainGap

(* Of a group whose IMU reaches back to the previous scan's end, soon after it:
   the rotation of the guess is the motion since the pose. *)
LEMMA ScanGuessSpans ==
  ASSUME NEW g \in ScanGroup, Typed, Timeline, LoosePose,
         prevScanEnd <= g.header, ProcessScan(g),
         Deskewable(g, deskew.end) =>
           /\ g.imu[1] <= WindowBegin(g) /\ ScanEnd(g) <= g.imu[Len(g.imu)]
           /\ prevScanEnd # NoTime => g.header - prevScanEnd < MaxChainGap,
         Ran("loose"), map # {}
  PROVE  /\ result'.begin = pose
         /\ deskew'.rot = [from |-> pose, to |-> result'.end]
<1>1. ASSUME result' = [NoResult EXCEPT !.scan = scans + 1, !.run = g.run]
      PROVE  FALSE
  BY <1>1, FailedResult DEF Ran
<1>2. PICK trusted \in BOOLEAN :
        Outcome(g, scans + 1, trusted) /\ Deskewable(g, deskew.end)
  BY <1>1, Processed, Zenon
<1>3. /\ result'.begin = WindowBegin(g) /\ result'.end = ScanEnd(g)
      /\ deskew'.rot = DeltaRot(g, deskew.end)
  BY <1>2, GoodResult, Zenon DEF Outcome
<1>4. ~Tight
  <2>1. result'.path = IF Tight THEN "tight" ELSE "loose"
    BY <1>2, GoodResult, Zenon
  <2>2. QED
    BY <2>1 DEF Ran
<1>5. scansDone \in Nat /\ Warmup \in Nat /\ UseTight \in BOOLEAN /\ prevScanEnd \in Times
  BY EstimatorAssumption DEF Typed, EstimatorTypeOK
<1>6. scansDone > 0 /\ prevScanEnd > 0 /\ deskew.end = prevScanEnd
  BY <1>5 DEF Timeline
<1>7. pose = prevScanEnd
  BY <1>4, <1>5, <1>6 DEF LoosePose, Tight
<1>8. WindowBegin(g) = prevScanEnd /\ g.header \in Nat
  BY <1>6, WindowOf
<1>9. Chains(g, prevScanEnd)
  <2>1. g.imu # <<>>
    BY <1>2 DEF Deskewable
  <2>2. Head(g.imu) = g.imu[1] /\ g.imu[1] \in Nat
    BY <2>1, LastSample
  <2>3. g.imu[1] <= prevScanEnd /\ g.header - prevScanEnd < MaxChainGap
    BY <1>2, <1>6, <1>8 DEF NoTime
  <2>4. Head(g.imu) <= prevScanEnd + MaxAnchorGap
    BY <2>2, <2>3, <1>5, DeskewAssumption DEF Times, NoTime
  <2>5. QED
    BY <2>3, <2>4, <1>6 DEF Chains, ScanStart
<1>10. DeltaRot(g, prevScanEnd) = [from |-> prevScanEnd, to |-> ScanEnd(g)]
  <2>1. Deskewable(g, prevScanEnd) /\ ScanEnd(g) <= g.imu[Len(g.imu)]
    BY <1>2, <1>6
  <2>2. DeltaRot(g, prevScanEnd) = [from |-> Anchor(g, prevScanEnd), to |-> ScanEnd(g)]
    BY <2>1, <1>5, DeskewSpec
  <2>3. QED
    BY <2>2, <1>9 DEF Anchor
<1>11. QED
  BY <1>3, <1>6, <1>7, <1>8, <1>10

(* Every point is turned to the end of its scan, if the IMU reaches past it. *)
LEMMA ScanPoints ==
  ASSUME NEW g \in ScanGroup, Typed, ProcessScan(g),
         Deskewable(g, deskew.end) => ScanEnd(g) <= g.imu[Len(g.imu)]
  PROVE  PointsAtScanEnd'
<1>1. CASE result' = [NoResult EXCEPT !.scan = scans + 1, !.run = g.run]
  BY <1>1, FailedResult DEF PointsAtScanEnd
<1>2. ASSUME NEW trusted \in BOOLEAN, Outcome(g, scans + 1, trusted),
             Deskewable(g, deskew.end)
      PROVE  PointsAtScanEnd'
  <2>1. result'.points = Compensated(g, deskew.end) /\ result'.end = ScanEnd(g)
    BY <1>2, GoodResult, Zenon
  <2>2. deskew.end \in Times
    BY DEF Typed, EstimatorTypeOK
  <2>3. \A p \in Compensated(g, deskew.end) : p.from = p.at /\ p.to = ScanEnd(g)
    BY <1>2, <2>2, DeskewSpec
  <2>4. QED
    BY <2>1, <2>3, Zenon DEF PointsAtScanEnd
<1>3. QED
  BY <1>1, <1>2, Processed, Zenon
-----------------------------------------------------------------------------
(* What is kept beside the poses: the covariance, the report, the biases.    *)

(* The covariance follows the state, if a solve always leaves one. *)
CovarianceMatches == navCov = state.at

LEMMA InitCovariance == EstimatorInit => CovarianceMatches
BY DEF EstimatorInit, CovarianceMatches

LEMMA ResetCovariance == EstimatorReset => CovarianceMatches'
BY DEF EstimatorReset, CovarianceMatches

LEMMA InitializeCovariance == ASSUME NEW run, Initialize(run) PROVE CovarianceMatches'
BY DEF Initialize, CovarianceMatches

LEMMA ScanCovariance ==
  ASSUME NEW g, PosteriorExists = {TRUE}, Typed, CovarianceMatches, ProcessScan(g)
  PROVE  CovarianceMatches'
<1>1. CASE UNCHANGED solved
  BY <1>1, Zenon DEF CovarianceMatches, solved
<1>2. ASSUME NEW trusted \in BOOLEAN, Register(g, scans + 1, trusted)
      PROVE  CovarianceMatches'
  <2> DEFINE n == scans + 1
             begin == WindowBegin(g)
             end == ScanEnd(g)
             dt == Elapsed(FactorOf(g))
  <2> HIDE DEF n, begin, end, dt
  <2>1. state \in [at : Times, velocity : BOOLEAN, bias : Origin]
    BY DEF Typed, EstimatorTypeOK
  <2>2. CASE Tight
    <3>1. PICK resync \in BOOLEAN : RegisterTight(n, end, dt, trusted, resync, g.run)
      BY <1>2, <2>2, Zenon DEF Register, FactorOf, n, end, dt
    <3>2. CASE TightNoImu(n, end, dt)
      <4>1. state'.at = Defined(state.at, end) /\ navCov' = Defined(navCov, end)
        BY <2>1, <3>2 DEF TightNoImu
      <4>2. QED
        BY <4>1 DEF CovarianceMatches
    <3>3. CASE TightBootstrap(n, end, dt)
      <4>1. state'.at = Defined(state.at, end) /\ navCov' = Defined(navCov, end)
        BY <2>1, <3>3 DEF TightBootstrap
      <4>2. QED
        BY <4>1 DEF CovarianceMatches
    <3>4. ASSUME NEW answer, TightRejected(n, end, dt, answer)
          PROVE  CovarianceMatches'
      <4>1. state'.at = state.at + dt /\ navCov' = navCov + dt
        BY <2>1, <3>4 DEF TightRejected
      <4>2. QED
        BY <4>1 DEF CovarianceMatches
    <3>5. ASSUME NEW answer, TightAccepted(n, end, dt, answer, g.run)
          PROVE  CovarianceMatches'
      BY <3>5 DEF TightAccepted, CovarianceMatches
    <3>6. QED
      BY <3>1, <3>2, <3>3, <3>4, <3>5, Zenon DEF RegisterTight, TightSolve
  <2>3. CASE ~Tight
    <3>1. SeedFromLoose
      BY <1>2, <2>3, Zenon DEF Register, RegisterLoose
    <3>2. CASE Seeds
      <4>1. state' = [state EXCEPT !.at = pose', !.velocity = velocity'] /\ navCov' = pose'
        BY <3>1, <3>2, Zenon DEF SeedFromLoose
      <4>2. state'.at = pose'
        BY <2>1, <4>1
      <4>3. QED
        BY <4>1, <4>2 DEF CovarianceMatches
    <3>3. CASE ~Seeds
      BY <3>1, <3>3, Zenon DEF SeedFromLoose, CovarianceMatches
    <3>4. QED
      BY <3>2, <3>3
  <2>4. QED
    BY <2>2, <2>3
<1>3. QED
  BY <1>1, <1>2, Processed, Zenon

(* The ratio that is reported was computed on this scan, or not at all. *)
LEMMA ScanRatio ==
  ASSUME NEW g, Typed, ProcessScan(g)
  PROVE  RatioOfScan'
<1> DEFINE n == scans + 1
<1>1. CASE result' = [NoResult EXCEPT !.scan = n, !.run = g.run]
  BY <1>1, FailedResult DEF RatioOfScan
<1>2. ASSUME NEW trusted \in BOOLEAN, Register(g, n, trusted), Outcome(g, n, trusted)
      PROVE  RatioOfScan'
  <2> DEFINE begin == WindowBegin(g)
             end == ScanEnd(g)
             dt == Elapsed(FactorOf(g))
  <2> HIDE DEF n, begin, end, dt
  <2>1. report \in Report
    BY DEF Typed, EstimatorTypeOK
  <2>2. \A level : Of(n, level) \in {None, n}
    BY DEF Of
  <2>3. report'.ratio \in {None, n}
    <3>1. CASE Tight
      <4>1. PICK resync \in BOOLEAN : RegisterTight(n, end, dt, trusted, resync, g.run)
        BY <1>2, <3>1, Zenon DEF Register, FactorOf, n, end, dt
      <4>2. CASE TightNoImu(n, end, dt)
        BY <4>2, <2>1 DEF TightNoImu, Report
      <4>3. CASE TightBootstrap(n, end, dt)
        BY <4>3 DEF TightBootstrap, Fresh
      <4>4. ASSUME NEW answer, report' = TightReport(n, answer)
            PROVE  report'.ratio \in {None, n}
        BY <4>4, <2>2 DEF TightReport
      <4>5. QED
        BY <4>1, <4>2, <4>3, <4>4, Zenon DEF RegisterTight, TightSolve
    <3>2. CASE ~Tight
      <4>1. RegisterLoose(n, begin, end, trusted)
        BY <1>2, <3>2, Zenon DEF Register, FactorOf, n, end, begin
      <4>2. CASE LooseBootstrap(n, begin, end)
        BY <4>2, <2>1 DEF LooseBootstrap, Report
      <4>3. ASSUME NEW answer, LooseRejected(n, begin, end, answer)
            PROVE  report'.ratio \in {None, n}
        BY <4>3 DEF LooseRejected
      <4>4. ASSUME NEW answer, LooseAccepted(n, begin, end, answer)
            PROVE  report'.ratio \in {None, n}
        BY <4>4 DEF LooseAccepted
      <4>5. QED
        BY <4>1, <4>2, <4>3, <4>4, Zenon DEF RegisterLoose
    <3>3. QED
      BY <3>1, <3>2
  <2>4. result'.scan = n /\ result'.report = report'
    BY <1>2, GoodResult, Zenon
  <2>5. QED
    BY <2>3, <2>4 DEF RatioOfScan
<1>3. QED
  BY <1>1, <1>2, Processed, Zenon

(* Of the types, what it takes to tell which fields an EXCEPT keeps, and when the
   next scan is deskewed from. *)
Records ==
  /\ deskew = [end |-> deskew.end, span |-> deskew.span, rot |-> deskew.rot,
               bias |-> deskew.bias]
  /\ deskew.end \in Times
  /\ state = [at |-> state.at, velocity |-> state.velocity, bias |-> state.bias]

LEMMA TypedRecords == Typed => Records
<1> SUFFICES ASSUME Typed PROVE Records
  OBVIOUS
<1>1. /\ deskew \in [end : Times, span : Nat, rot : [from : Times, to : Times], bias : Origin]
      /\ state \in [at : Times, velocity : BOOLEAN, bias : Origin]
  BY Zenon DEF Typed, EstimatorTypeOK
<1>2. QED
  BY <1>1 DEF Records

LEMMA InitRecords == EstimatorInit => Records
BY DEF EstimatorInit, Records, Times

LEMMA ResetRecords == Records /\ EstimatorReset => Records'
<1> SUFFICES ASSUME Records, EstimatorReset PROVE Records'
  OBVIOUS
<1>1. /\ deskew' = [deskew EXCEPT !.end = NoTime]
      /\ state' = [at |-> NoTime, velocity |-> FALSE, bias |-> NoOrigin]
  BY Zenon DEF EstimatorReset
<1>2. deskew' = [end |-> NoTime, span |-> deskew.span, rot |-> deskew.rot,
                 bias |-> deskew.bias]
  BY <1>1 DEF Records
<1>3. QED
  BY <1>1, <1>2 DEF Records, Times

LEMMA InitializeRecords ==
  ASSUME NEW run, Records, Initialize(run)
  PROVE  Records'
<1> DEFINE origin == [run |-> run, scan |-> None]
<1>1. /\ deskew' = [deskew EXCEPT !.bias = origin]
      /\ state' = [at |-> NoTime, velocity |-> FALSE, bias |-> origin]
  BY Zenon DEF Initialize
<1> HIDE DEF origin
<1>2. deskew' = [end |-> deskew.end, span |-> deskew.span, rot |-> deskew.rot,
                 bias |-> origin]
  BY <1>1 DEF Records
<1>3. QED
  BY <1>1, <1>2 DEF Records

LEMMA ScanRecords ==
  ASSUME NEW g \in ScanGroup, Records, ProcessScan(g)
  PROVE  Records'
<1>1. CASE UNCHANGED solved
  BY <1>1, Zenon DEF Records, solved
<1>2. ASSUME NEW trusted \in BOOLEAN, Register(g, scans + 1, trusted)
      PROVE  Records'
  <2> DEFINE n == scans + 1
             begin == WindowBegin(g)
             end == ScanEnd(g)
             dt == Elapsed(FactorOf(g))
             run == g.run
  <2>1. end \in Nat
    BY DEF ScanGroup, ScanEnd
  <2> HIDE DEF n, begin, end, dt, run
  <2>2. state = [at |-> state.at, velocity |-> state.velocity, bias |-> state.bias]
    BY Zenon DEF Records
  <2>3. state' = [at |-> state'.at, velocity |-> state'.velocity, bias |-> state'.bias]
    <3>1. CASE Tight
      <4>1. PICK resync \in BOOLEAN : RegisterTight(n, end, dt, trusted, resync, run)
        BY <1>2, <3>1, Zenon DEF Register, FactorOf, n, end, dt, run
      <4>2. CASE TightNoImu(n, end, dt)
        BY <4>2, <2>2 DEF TightNoImu
      <4>3. CASE TightBootstrap(n, end, dt)
        BY <4>3, <2>2 DEF TightBootstrap
      <4>4. ASSUME NEW answer, TightRejected(n, end, dt, answer)
            PROVE  state' = [at |-> state'.at, velocity |-> state'.velocity,
                             bias |-> state'.bias]
        BY <4>4, <2>2 DEF TightRejected
      <4>5. ASSUME NEW answer, TightAccepted(n, end, dt, answer, run)
            PROVE  state' = [at |-> state'.at, velocity |-> state'.velocity,
                             bias |-> state'.bias]
        <5>1. state' = [at |-> end, velocity |-> TRUE, bias |-> [run |-> run, scan |-> n]]
          BY <4>5, Zenon DEF TightAccepted
        <5>2. QED
          BY <5>1
      <4>6. QED
        BY <4>1, <4>2, <4>3, <4>4, <4>5, Zenon DEF RegisterTight, TightSolve
    <3>2. CASE ~Tight
      <4>1. state' = [state EXCEPT !.at = pose', !.velocity = velocity'] \/ state' = state
        BY <1>2, <3>2, Zenon DEF Register, RegisterLoose, SeedFromLoose
      <4>2. QED
        BY <4>1, <2>2
    <3>3. QED
      BY <3>1, <3>2
  <2>4. PICK resync \in BOOLEAN : Deskewed(g, resync)
    BY <1>2, Zenon DEF Register
  <2>5. deskew' = [end |-> end, span |-> g.span, rot |-> DeltaRot(g, deskew.end),
                   bias |-> IF resync THEN state'.bias ELSE deskew.bias]
    BY <2>4, Zenon DEF Deskewed, end
  <2>6. deskew'.end = end /\ end \in Times
    BY <2>1, <2>5 DEF Times
  <2>7. deskew' = [end |-> deskew'.end, span |-> deskew'.span, rot |-> deskew'.rot,
                   bias |-> deskew'.bias]
    BY <2>5
  <2>8. QED
    BY <2>3, <2>6, <2>7, Zenon DEF Records
<1>3. QED
  BY <1>1, <1>2, Scanned, Zenon

(* Biases and gravity of one run. *)
CalibratedFor(run) ==
  deskew.bias.run = run /\ state.bias.run = run /\ gravity.run = run

LEMMA InitializeCalibrates ==
  ASSUME NEW run, Records, Initialize(run)
  PROVE  CalibratedFor(run)'
<1>1. deskew' = [deskew EXCEPT !.bias = [run |-> run, scan |-> None]]
  BY Zenon DEF Initialize
<1>2. deskew'.bias = [run |-> run, scan |-> None]
  BY <1>1 DEF Records
<1>3. QED
  BY <1>2 DEF Initialize, CalibratedFor

(* A scan of that run keeps them so. *)
LEMMA ScanCalibrated ==
  ASSUME NEW g, Records, CalibratedFor(g.run), ProcessScan(g)
  PROVE  CalibratedFor(g.run)'
<1>1. CASE UNCHANGED solved
  BY <1>1, Zenon DEF CalibratedFor, solved
<1>2. ASSUME NEW trusted \in BOOLEAN, Register(g, scans + 1, trusted)
      PROVE  CalibratedFor(g.run)'
  <2> DEFINE n == scans + 1
             begin == WindowBegin(g)
             end == ScanEnd(g)
             dt == Elapsed(FactorOf(g))
             run == g.run
  <2> HIDE DEF n, begin, end, dt, run
  <2>1. state = [at |-> state.at, velocity |-> state.velocity, bias |-> state.bias]
    BY Zenon DEF Records
  <2>2. deskew.bias.run = run /\ state.bias.run = run /\ gravity.run = run
    BY Zenon DEF CalibratedFor, run
  <2>3. state'.bias.run = run /\ gravity'.run = run
    <3>1. CASE Tight
      <4>1. PICK resync \in BOOLEAN : RegisterTight(n, end, dt, trusted, resync, run)
        BY <1>2, <3>1, Zenon DEF Register, FactorOf, n, end, dt, run
      <4>2. CASE TightNoImu(n, end, dt)
        BY <4>2, <2>1, <2>2 DEF TightNoImu
      <4>3. CASE TightBootstrap(n, end, dt)
        BY <4>3, <2>1, <2>2 DEF TightBootstrap
      <4>4. ASSUME NEW answer, TightRejected(n, end, dt, answer)
            PROVE  state'.bias.run = run /\ gravity'.run = run
        BY <4>4, <2>1, <2>2 DEF TightRejected
      <4>5. ASSUME NEW answer, TightAccepted(n, end, dt, answer, run)
            PROVE  state'.bias.run = run /\ gravity'.run = run
        BY <4>5 DEF TightAccepted
      <4>6. QED
        BY <4>1, <4>2, <4>3, <4>4, <4>5, Zenon DEF RegisterTight, TightSolve
    <3>2. CASE ~Tight
      <4>1. SeedFromLoose /\ UNCHANGED gravity
        BY <1>2, <3>2, Zenon DEF Register, RegisterLoose
      <4>2. state'.bias = state.bias
        <5>1. state' = [state EXCEPT !.at = pose', !.velocity = velocity'] \/ state' = state
          BY <4>1, Zenon DEF SeedFromLoose
        <5>2. QED
          BY <5>1, <2>1
      <4>3. QED
        BY <4>1, <4>2, <2>2, Zenon
    <3>3. QED
      BY <3>1, <3>2
  <2>4. deskew'.bias = state'.bias \/ deskew'.bias = deskew.bias
    <3>1. PICK resync \in BOOLEAN : Deskewed(g, resync)
      BY <1>2, Zenon DEF Register
    <3>2. QED
      BY <3>1 DEF Deskewed
  <2>5. QED
    BY <2>2, <2>3, <2>4, Zenon DEF CalibratedFor, run
<1>3. QED
  BY <1>1, <1>2, Scanned, Zenon

LEMMA ScanRun ==
  ASSUME NEW g, ProcessScan(g)
  PROVE  result'.run = g.run /\ result'.scan = scans + 1
<1>1. ASSUME NEW trusted, Register(g, scans + 1, trusted)
      PROVE  result'.run = g.run /\ result'.scan = scans + 1
  BY <1>1 DEF Register
<1>2. QED
  BY <1>1, FailedResult, Scanned, Zenon
=============================================================================
