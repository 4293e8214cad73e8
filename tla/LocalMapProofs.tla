---------------------------- MODULE LocalMapProofs ---------------------------
(***************************************************************************)
(* Proofs about LocalMap, for every size of voxel and reservoir, every     *)
(* range and search distance, and every set of points.                     *)
(*                                                                         *)
(* The proofs of freshness leave what Fit() sums up alone: they only use   *)
(* that it is the one thing that makes a plane out of points.  Those of    *)
(* the search and of the types need where the plane of the points of one   *)
(* voxel lies: inside it, whatever the order in which the fold adds them.  *)
(***************************************************************************)
EXTENDS LocalMap, FiniteSetTheorems, SequenceTheorems, TLAPS

\* The shape of the map: each voxel is a record of its four fields.
Fields == {"points", "seen", "plane", "dirty"}
Shaped(v) == v = [points |-> v.points, seen |-> v.seen, plane |-> v.plane, dirty |-> v.dirty]
               /\ v.dirty \in BOOLEAN
MapShape == /\ voxels = [k \in DOMAIN voxels |-> voxels[k]]
            /\ \A k \in DOMAIN voxels : Shaped(voxels[k])
            /\ dirty \in BOOLEAN

Fresh(v) == ~v.dirty => v.plane = Fit(v.points)

\* A voxel that gets one more point keeps its shape and its plane's freshness:
\* either its points change and it is marked, or neither happens.
LEMMA FilledFresh ==
  ASSUME NEW v, NEW p, NEW j, Shaped(v), Fresh(v)
  PROVE  Shaped(Filled(v, p, j)) /\ Fresh(Filled(v, p, j))
<1> DEFINE w == Filled(v, p, j)
           stores == Stores(Len(v.points), j)
           mark == v.dirty \/ stores
           points == Sampled(v.points, p, j)
           seen == v.seen + 1
<1>0. w = [v EXCEPT !.points = points, !.seen = seen, !.dirty = mark]
  BY Zenon DEF Filled
<1>1. w = [points |-> points, seen |-> seen, plane |-> v.plane, dirty |-> mark]
  <2> HIDE DEF points, seen, mark, w
  <2> QED BY <1>0 DEF Shaped
<1>d. mark \in BOOLEAN /\ w.dirty = mark
  <2> HIDE DEF points, seen, w, stores
  <2> QED BY <1>1
<1>2. Shaped(w)
  <2> HIDE DEF points, seen, mark, w
  <2> QED BY <1>1, <1>d DEF Shaped
<1>3. ASSUME ~w.dirty PROVE w.plane = Fit(w.points)
  <2>1. ~v.dirty /\ ~stores
    BY <1>d, <1>3
  <2>2. Sampled(v.points, p, j) = v.points
    BY <2>1 DEF Sampled, Stores
  <2>3. v.plane = Fit(v.points)
    BY <2>1 DEF Fresh
  <2> QED BY <1>1, <2>2, <2>3
<1> QED BY <1>2, <1>3 DEF Fresh

\* An empty voxel is marked, so nothing is claimed of its plane.
LEMMA EmptyFresh == Shaped(EmptyVoxel) /\ Fresh(EmptyVoxel)
BY DEF EmptyVoxel, Shaped, Fresh

\* Refitting makes a plane fresh and leaves the points alone.
LEMMA RefittedFresh ==
  ASSUME NEW v, Shaped(v), Fresh(v)
  PROVE  /\ Shaped(Refitted(v)) /\ Fresh(Refitted(v))
         /\ Refitted(v).points = v.points
<1>1. CASE v.dirty
  <2>1. Refitted(v) = [points |-> v.points, seen |-> v.seen, plane |-> Fit(v.points),
                       dirty |-> FALSE]
    BY <1>1 DEF Refitted, Shaped
  <2> QED BY <2>1 DEF Shaped, Fresh
<1>2. CASE ~v.dirty
  BY <1>2 DEF Refitted
<1> QED BY <1>1, <1>2

\* What the copy for display is made of: two maps with the same voxels in use
\* and the same points in them give the same copy.
LEMMA StoredSame ==
  ASSUME NEW vs, NEW ws, DOMAIN vs = DOMAIN ws,
         \A k \in DOMAIN vs : vs[k].points = ws[k].points
  PROVE  Stored(vs) = Stored(ws)
<1> DEFINE Copy(us, k) == { <<k, i, us[k].points[i]>> : i \in DOMAIN us[k].points }
<1>1. \A k \in DOMAIN vs : Copy(vs, k) = Copy(ws, k)
  OBVIOUS
<1>2. {Copy(vs, k) : k \in DOMAIN vs} = {Copy(ws, k) : k \in DOMAIN ws}
  <2> HIDE DEF Copy
  <2> QED BY <1>1
<1> QED BY <1>2 DEF Stored
-----------------------------------------------------------------------------
MapInv == MapShape /\ PlanesFresh /\ TargetFresh

\* Every operation keeps the planes and the copy as fresh as they say they are.
LEMMA MapStep == ASSUME MapInv, [Next]_vars PROVE MapInv'
<1> USE DEF MapInv
<1> DEFINE Old == \A k \in DOMAIN voxels : Shaped(voxels[k]) /\ Fresh(voxels[k])
           New == \A k \in DOMAIN voxels' : Shaped(voxels'[k]) /\ Fresh(voxels'[k])
<1>0. Old
  BY DEF MapShape, PlanesFresh, Fresh
<1>a. ASSUME New, voxels' = [k \in DOMAIN voxels' |-> voxels'[k]], dirty' \in BOOLEAN
      PROVE  (MapShape /\ PlanesFresh)'
  BY <1>a DEF MapShape, PlanesFresh, Fresh, Shaped
<1>1. ASSUME NEW p \in Points, Insert(p) PROVE MapInv'
  <2> DEFINE k == KeyOf(p.at)
             v == Voxel(k)
  <2>1. PICK j \in Draws(v.seen + 1) :
          voxels' = [x \in DOMAIN voxels \cup {k} |->
                       IF x = k THEN Filled(v, p, j) ELSE voxels[x]]
    BY <1>1 DEF Insert
  <2>2. Shaped(v) /\ Fresh(v)
    BY <1>0, EmptyFresh DEF Voxel
  <2>3. Shaped(Filled(v, p, j)) /\ Fresh(Filled(v, p, j))
    BY <2>2, FilledFresh
  <2>4. New
    BY <1>0, <2>1, <2>3
  <2>5. voxels' = [x \in DOMAIN voxels' |-> voxels'[x]]
    BY <2>1
  <2>6. dirty' = TRUE
    BY <1>1 DEF Insert
  <2> QED BY <1>a, <2>4, <2>5, <2>6 DEF TargetFresh
<1>2. ASSUME NEW origin \in Origins, Prune(origin) PROVE MapInv'
  <2> DEFINE near == {x \in DOMAIN voxels : InRange(x, origin)}
  <2>1. /\ voxels' = [x \in near |-> voxels[x]]
        /\ dirty' = (dirty \/ near # DOMAIN voxels)
        /\ targetCache' = targetCache
    BY <1>2 DEF Prune
  <2>2. New
    BY <1>0, <2>1
  <2>3. voxels' = [x \in DOMAIN voxels' |-> voxels'[x]]
    BY <2>1
  <2>4. dirty' \in BOOLEAN
    BY <2>1
  <2>5. ASSUME ~dirty' PROVE targetCache' = Stored(voxels')
    <3>1. ~dirty /\ near = DOMAIN voxels
      BY <2>1, <2>5 DEF MapShape
    <3>2. DOMAIN voxels' = DOMAIN voxels /\ \A x \in DOMAIN voxels' : voxels'[x] = voxels[x]
      BY <2>1, <3>1
    <3>3. Stored(voxels') = Stored(voxels)
      BY <3>2, StoredSame
    <3> QED BY <2>1, <3>1, <3>3 DEF TargetFresh
  <2> QED BY <1>a, <2>2, <2>3, <2>4, <2>5 DEF TargetFresh
<1>3. ASSUME NEW at \in Queries, ClosestPlane(at) PROVE MapInv'
  <2> DEFINE keys == {x \in DOMAIN voxels : \A a \in Axes : x[a] - KeyOf(at)[a] \in -Rings .. Rings}
  <2>1. /\ voxels' = [x \in DOMAIN voxels |->
                        IF x \in keys THEN Refitted(voxels[x]) ELSE voxels[x]]
        /\ dirty' = dirty /\ targetCache' = targetCache
    BY <1>3 DEF ClosestPlane
  <2>2. \A x \in DOMAIN voxels : /\ Shaped(Refitted(voxels[x])) /\ Fresh(Refitted(voxels[x]))
                                 /\ Refitted(voxels[x]).points = voxels[x].points
    BY <1>0, RefittedFresh
  <2> HIDE DEF keys
  <2>3. New
    BY <1>0, <2>1, <2>2
  <2>4. Stored(voxels') = Stored(voxels)
    <3>1. DOMAIN voxels' = DOMAIN voxels
          /\ \A x \in DOMAIN voxels' : voxels'[x].points = voxels[x].points
      BY <2>1, <2>2
    <3> QED BY <3>1, StoredSame
  <2>5. voxels' = [x \in DOMAIN voxels' |-> voxels'[x]]
    BY <2>1
  <2> QED BY <1>a, <2>1, <2>3, <2>4, <2>5 DEF TargetFresh, MapShape
<1>4. CASE InsertNothing
  <2>1. voxels' = voxels /\ dirty' = TRUE
    BY <1>4 DEF InsertNothing
  <2>2. New /\ voxels' = [x \in DOMAIN voxels' |-> voxels'[x]]
    BY <1>0, <2>1 DEF MapShape
  <2> QED BY <1>a, <2>1, <2>2 DEF TargetFresh
<1>5. CASE NumPlanes
  <2>1. /\ voxels' = [x \in DOMAIN voxels |-> Refitted(voxels[x])]
        /\ dirty' = dirty /\ targetCache' = targetCache
    BY <1>5 DEF NumPlanes
  <2>2. \A x \in DOMAIN voxels : /\ Shaped(Refitted(voxels[x])) /\ Fresh(Refitted(voxels[x]))
                                 /\ Refitted(voxels[x]).points = voxels[x].points
    BY <1>0, RefittedFresh
  <2>3. New
    BY <2>1, <2>2
  <2>4. Stored(voxels') = Stored(voxels)
    <3>1. DOMAIN voxels' = DOMAIN voxels
          /\ \A x \in DOMAIN voxels' : voxels'[x].points = voxels[x].points
      BY <2>1, <2>2
    <3> QED BY <3>1, StoredSame
  <2>5. voxels' = [x \in DOMAIN voxels' |-> voxels'[x]]
    BY <2>1
  <2> QED BY <1>a, <2>1, <2>3, <2>4, <2>5 DEF TargetFresh, MapShape
<1>6. CASE Target
  <2>1. voxels' = voxels /\ dirty' = FALSE /\ targetCache' = Stored(voxels)
    BY <1>6 DEF Target
  <2>2. New /\ voxels' = [x \in DOMAIN voxels' |-> voxels'[x]]
    BY <1>0, <2>1 DEF MapShape
  <2> QED BY <1>a, <2>1, <2>2 DEF TargetFresh
<1>7. CASE UNCHANGED vars
  BY <1>7 DEF vars, MapShape, PlanesFresh, TargetFresh
<1> QED BY <1>1, <1>2, <1>3, <1>4, <1>5, <1>6, <1>7 DEF Next

LEMMA MapInvAlways == Spec => []MapInv
<1>1. Init => MapInv
  BY DEF Init, MapInv, MapShape, PlanesFresh, TargetFresh
<1>2. MapInv /\ [Next]_vars => MapInv'
  BY MapStep
<1> QED BY <1>1, <1>2, PTL DEF Spec

\* No plane that registration aligns with is out of date: a voxel not marked
\* dirty holds the plane of its present points (insert(), fitPlane()).
THEOREM PlanesFreshAlways == Spec => []PlanesFresh
<1>1. MapInv => PlanesFresh
  BY DEF MapInv
<1> QED BY <1>1, MapInvAlways, PTL

\* The copy for display, while it counts as current, holds the points of the
\* map (insert(), prune(), target()).
THEOREM TargetFreshAlways == Spec => []TargetFresh
<1>1. MapInv => TargetFresh
  BY DEF MapInv
<1> QED BY <1>1, MapInvAlways, PTL
-----------------------------------------------------------------------------
(* Arithmetic of the keys and of the search. *)

(* A product keeps an order, and a strict one if the factor is not zero. *)
LEMMA MulMono ==
  ASSUME NEW a \in Int, NEW b \in Int, NEW c \in Nat
  PROVE  /\ a <= b => a * c <= b * c
         /\ a < b /\ c > 0 => a * c < b * c
OBVIOUS

(* The order of numbers and that of their squares. *)
LEMMA Squares ==
  ASSUME NEW x \in Int, NEW b \in Nat
  PROVE  /\ Square(x) \in Nat
         /\ Square(x) < Square(b) => -b < x /\ x < b
         /\ -b <= x /\ x <= b => Square(x) <= Square(b)
<1>1. Square(x) \in Nat
  BY DEF Square
<1>2. ASSUME b <= x PROVE b * b <= x * x
  <2>1. b * b <= x * b /\ b * x <= x * x
    BY <1>2, MulMono
  <2>2. QED
    BY <2>1
<1>3. ASSUME b <= -x PROVE b * b <= x * x
  <2>1. PICK y \in Nat : y = -x
    BY <1>3
  <2>2. b * b <= y * b /\ b * y <= y * y
    BY <1>3, <2>1, MulMono
  <2>3. x * x = y * y
    BY <2>1
  <2>4. QED
    BY <2>2, <2>3
<1>4. ASSUME -b <= x, x <= b PROVE x * x <= b * b
  <2>1. PICK y \in Nat : x * x = y * y /\ y <= b
    <3>1. CASE x >= 0
      BY <3>1, <1>4
    <3>2. CASE x < 0
      <4>1. -x \in Nat /\ x * x = (-x) * (-x) /\ -x <= b
        BY <3>2, <1>4
      <4>2. QED
        BY <4>1
    <3>3. QED
      BY <3>1, <3>2
  <2>2. y * y <= b * y /\ y * b <= b * b
    BY <2>1, MulMono
  <2>3. QED
    BY <2>1, <2>2
<1>5. QED
  BY <1>1, <1>2, <1>3, <1>4 DEF Square

(* The three axes. *)
LEMMA ThreeAxes ==
  /\ Axes = {1, 2, 3}
  /\ \A k, l \in Place : k[1] = l[1] /\ k[2] = l[2] /\ k[3] = l[3] => k = l
<1>1. Axes = {1, 2, 3}
  BY DEF Axes
<1>2. QED
  BY <1>1 DEF Place

(* A square of a distance is that of no less along each axis. *)
LEMMA DistanceType ==
  ASSUME NEW u \in Place, NEW v \in Place
  PROVE  /\ SquaredDistance(u, v) \in Nat
         /\ \A a \in Axes : /\ Square(u[a] - v[a]) \in Nat
                            /\ Square(u[a] - v[a]) <= SquaredDistance(u, v)
<1>1. \A a \in {1, 2, 3} : Square(u[a] - v[a]) \in Nat
  <2>1. SUFFICES ASSUME NEW a \in {1, 2, 3} PROVE Square(u[a] - v[a]) \in Nat
    OBVIOUS
  <2>2. PICK d \in Int : d = u[a] - v[a]
    BY ThreeAxes DEF Place
  <2>3. QED
    BY <2>2, Squares
<1>2. PICK x \in Nat, y \in Nat, z \in Nat :
        x = Square(u[1] - v[1]) /\ y = Square(u[2] - v[2]) /\ z = Square(u[3] - v[3])
  BY <1>1
<1>3. SquaredDistance(u, v) = x + y + z
  BY <1>2 DEF SquaredDistance
<1>4. QED
  BY <1>1, <1>2, <1>3, ThreeAxes

(* A voxel holds the places from its key's corner to the next one's. *)
LEMMA KeyBounds ==
  ASSUME NEW at \in Place
  PROVE  /\ KeyOf(at) \in Place
         /\ \A a \in Axes : /\ at[a] \in Int /\ KeyOf(at)[a] \in Int
                            /\ KeyOf(at)[a] * VoxelSize <= at[a]
                            /\ at[a] <= KeyOf(at)[a] * VoxelSize + VoxelSize - 1
<1>1. SUFFICES ASSUME NEW a \in Axes
               PROVE  /\ at[a] \in Int /\ KeyOf(at)[a] \in Int
                      /\ KeyOf(at)[a] * VoxelSize <= at[a]
                      /\ at[a] <= KeyOf(at)[a] * VoxelSize + VoxelSize - 1
  BY DEF KeyOf, Place
<1>2. PICK x \in Int : x = at[a]
  BY DEF Place
<1>3. KeyOf(at)[a] = x \div VoxelSize
  BY <1>2 DEF KeyOf
<1>4. QED
  BY <1>2, <1>3, MapAssumption

(* The loops come to one key before another or to the other before the one. *)
LEMMA BeforeOrder ==
  /\ \A k \in Place : ~Before(k, k)
  /\ \A k, l, m \in Place : Before(k, l) /\ Before(l, m) => Before(k, m)
  /\ \A k, l \in Place : k # l => Before(k, l) \/ Before(l, k)
<1>1. \A k, l \in Place : Before(k, l) <=> \/ k[1] < l[1]
                                           \/ k[1] = l[1] /\ k[2] < l[2]
                                           \/ k[1] = l[1] /\ k[2] = l[2] /\ k[3] < l[3]
  <2>1. 1 .. 1 - 1 = {} /\ 1 .. 2 - 1 = {1} /\ 1 .. 3 - 1 = {1, 2}
    OBVIOUS
  <2>2. QED
    BY <2>1, ThreeAxes DEF Before
<1>2. \A k \in Place : k[1] \in Int /\ k[2] \in Int /\ k[3] \in Int
  BY ThreeAxes DEF Place
<1>3. QED
  BY <1>1, <1>2, ThreeAxes

(* The rings reach as far as the search distance. *)
LEMMA RingsCover == Rings \in Nat \ {0} /\ MaxDist <= Rings * VoxelSize
<1> DEFINE r == (MaxDist + VoxelSize - 1) \div VoxelSize
<1>1. /\ r \in Int /\ MaxDist <= r * VoxelSize /\ VoxelSize >= 1
      /\ VoxelSize \in Nat
  BY MapAssumption
<1> HIDE DEF r
<1>2. \E x \in {1, r} : \A y \in {1, r} : x >= y
  BY <1>1
<1>3. Rings \in {1, r} /\ Rings >= 1 /\ Rings >= r
  BY <1>2 DEF Rings, Max, r
<1>4. r * VoxelSize <= Rings * VoxelSize
  BY <1>1, <1>3, MulMono
<1>5. QED
  BY <1>1, <1>3, <1>4, MapAssumption

(* A plane within reach of a place is of a voxel that the search looks at: along
   each axis it is no further than the search reaches. *)
LEMMA ReachInRings ==
  ASSUME NEW at \in Place, NEW k \in Place, NEW plane \in Plane, plane.n > 0,
         \A a \in Axes : plane.sum[a] \in plane.n * (k[a] * VoxelSize)
                           .. plane.n * (k[a] * VoxelSize + VoxelSize - 1),
         Within(plane, at)
  PROVE  \A a \in Axes : k[a] - KeyOf(at)[a] \in -Rings .. Rings
<1> SUFFICES ASSUME NEW a \in Axes PROVE k[a] - KeyOf(at)[a] \in -Rings .. Rings
  OBVIOUS
<1>0. PICK V, R : V = VoxelSize /\ R = Rings
  OBVIOUS
<1>1. V \in Nat /\ V > 0 /\ MaxDist \in Nat /\ R \in Nat /\ MaxDist <= R * V
  BY <1>0, RingsCover, MapAssumption
<1>2. PICK m \in Int, h \in Int, x \in Int :
        /\ m = KeyOf(at)[a] /\ h = k[a] /\ x = at[a]
        /\ m * V <= x /\ x <= m * V + V - 1
  <2>1. k[a] \in Int
    BY DEF Place
  <2>2. QED
    BY <2>1, <1>0, KeyBounds
<1>3. PICK n \in Nat, s \in Int : n = plane.n /\ s = plane.sum[a] /\ n > 0
  BY DEF Plane, Place
<1>4. PICK c \in Int : c = h * V /\ n * c <= s /\ s <= n * (c + V - 1)
  <2>1. s \in n * (h * V) .. n * (h * V + V - 1)
    BY <1>0, <1>2, <1>3
  <2>2. h * V \in Int
    BY <1>1
  <2>3. QED
    BY <2>1, <2>2, <1>1
<1>5. s - n * x < MaxDist * n /\ n * x - s < MaxDist * n
  <2>1. plane.sum \in Place /\ Times(n, at) \in Place
    BY <1>3 DEF Plane, Place, Times
  <2>2. Times(n, at)[a] = n * x
    BY <1>2 DEF Times
  <2>3. SquaredDistance(plane.sum, Times(n, at)) < Square(MaxDist * n)
    BY <1>3 DEF Within, Offset
  <2>4. PICK d \in Int, b \in Nat : d = s - n * x /\ b = MaxDist * n
    BY <1>1
  <2>5. Square(d) <= SquaredDistance(plane.sum, Times(n, at)) /\ Square(d) \in Nat
    BY <2>1, <2>2, <2>4, <1>3, DistanceType
  <2>6. SquaredDistance(plane.sum, Times(n, at)) \in Nat /\ Square(b) \in Nat
    BY <2>1, Squares, DistanceType
  <2>7. Square(d) < Square(b)
    BY <2>3, <2>4, <2>5, <2>6
  <2>8. -b < d /\ d < b
    BY <2>7, Squares
  <2>9. QED
    BY <2>4, <2>8
<1>6. x < MaxDist + c + V - 1
  <2>1. (x - MaxDist) * n < (c + V - 1) * n
    BY <1>1, <1>4, <1>5
  <2>2. QED
    BY <2>1, <1>1, <1>3, MulMono
<1>7. c - MaxDist < x
  <2>1. (c - MaxDist) * n < x * n
    BY <1>1, <1>4, <1>5
  <2>2. QED
    BY <2>1, <1>1, <1>3, MulMono
<1>8. ~(m >= h + R + 1)
  <2>1. SUFFICES ASSUME m >= h + R + 1 PROVE FALSE
    OBVIOUS
  <2>2. (h + R + 1) * V <= m * V
    BY <2>1, <1>1, MulMono
  <2>3. (h + R + 1) * V = c + R * V + V
    BY <1>1, <1>4
  <2>4. R * V \in Int /\ m * V \in Int
    BY <1>1
  <2>5. QED
    BY <2>2, <2>3, <2>4, <1>1, <1>2, <1>4, <1>6
<1>9. ~(h >= m + R + 1)
  <2>1. SUFFICES ASSUME h >= m + R + 1 PROVE FALSE
    OBVIOUS
  <2>2. (m + R + 1) * V <= h * V
    BY <2>1, <1>1, MulMono
  <2>3. (m + R + 1) * V = m * V + R * V + V
    BY <1>1
  <2>4. R * V \in Int /\ m * V \in Int
    BY <1>1
  <2>5. QED
    BY <2>2, <2>3, <2>4, <1>1, <1>2, <1>4, <1>7
<1>10. QED
  BY <1>0, <1>1, <1>2, <1>8, <1>9

(* In a finite set, a transitive order in which nothing is below itself has an
   element with nothing below it. *)
LEMMA SomeLeast ==
  ASSUME NEW F, IsFiniteSet(F), F # {}, NEW R,
         \A x \in F : <<x, x>> \notin R,
         \A x, y, z \in F : <<x, y>> \in R /\ <<y, z>> \in R => <<x, z>> \in R
  PROVE  \E x \in F : \A y \in F : <<y, x>> \notin R
<1> DEFINE Below(x) == {y \in F : <<y, x>> \in R}
           T == {Below(x) : x \in F}
<1>1. T \subseteq FiniteSubsetsOf(F) /\ T # {}
  <2>1. \A x \in F : Below(x) \in FiniteSubsetsOf(F)
    BY FS_Subset DEF FiniteSubsetsOf
  <2>2. PICK x \in F : TRUE
    OBVIOUS
  <2> HIDE DEF Below
  <2>3. QED
    BY <2>1, <2>2
<1>2. PICK S \in T : \A U \in T : <<U, S>> \notin StrictSubsetOrdering(F)
  BY <1>1, FS_StrictSubsetOrderingWellFounded, WFMin
<1>3. PICK x \in F : S = Below(x)
  OBVIOUS
<1>4. ASSUME NEW y \in F, <<y, x>> \in R
      PROVE  FALSE
  <2>1. Below(y) \subseteq Below(x) /\ y \in Below(x) /\ y \notin Below(y)
    BY <1>4
  <2>2. Below(y) \in T /\ Below(y) \subseteq F /\ Below(x) \subseteq F
    OBVIOUS
  <2> HIDE DEF Below, T
  <2>3. <<Below(y), Below(x)>> \in StrictSubsetOrdering(F)
    BY <2>1, <2>2 DEF StrictSubsetOrdering
  <2>4. QED
    BY <2>2, <2>3, <1>2, <1>3
<1>5. QED
  BY <1>4

(* Finitely many keys have one that the loops come to first. *)
LEMMA FirstKey ==
  ASSUME NEW F \in SUBSET Place, IsFiniteSet(F), F # {}
  PROVE  \E k \in F : \A l \in F \ {k} : Before(k, l)
<1> DEFINE R == {e \in F \X F : Before(e[1], e[2])}
<1>1. \A x, y \in F : <<x, y>> \in R <=> Before(x, y)
  OBVIOUS
<1> HIDE DEF R
<1>2. \A x \in F : <<x, x>> \notin R
  BY <1>1, BeforeOrder
<1>3. \A x, y, z \in F : <<x, y>> \in R /\ <<y, z>> \in R => <<x, z>> \in R
  BY <1>1, BeforeOrder
<1>4. PICK k \in F : \A l \in F : <<l, k>> \notin R
  BY <1>2, <1>3, SomeLeast
<1>5. \A l \in F \ {k} : Before(k, l)
  BY <1>1, <1>4, BeforeOrder
<1>6. QED
  BY <1>5

(* Being nearer is a strict order, the distances compared as fractions. *)
LEMMA RatioOrder ==
  ASSUME NEW a \in Nat, NEW b \in Nat, NEW c \in Nat,
         NEW x \in Nat \ {0}, NEW y \in Nat \ {0}, NEW z \in Nat \ {0},
         a * y < b * x, b * z < c * y
  PROVE  a * z < c * x
<1>1. (a * y) * z < (b * x) * z
  BY MulMono
<1>2. (b * z) * x < (c * y) * x
  BY MulMono
<1>3. (b * x) * z = (b * z) * x /\ (a * y) * z = (a * z) * y /\ (c * y) * x = (c * x) * y
  OBVIOUS
<1>4. (a * z) * y < (c * x) * y
  BY <1>1, <1>2, <1>3
<1>5. a * z \in Int /\ c * x \in Int
  OBVIOUS
<1>6. QED
  BY <1>4, <1>5, MulMono

(* Types of the two sides of the fraction. *)
LEMMA OffsetType ==
  ASSUME NEW q \in Plane, NEW at \in Place
  PROVE  Offset(q, at) \in Nat /\ q.n \in Nat
<1>1. q.sum \in Place /\ q.n \in Nat
  BY DEF Plane
<1>2. Times(q.n, at) \in Place
  BY <1>1 DEF Times, Place
<1>3. QED
  BY <1>1, <1>2, DistanceType DEF Offset

(* What is answered is a plane within reach that none in the keys looked at beats,
   or none because none is within reach. *)
LEMMA ClosestSpec ==
  ASSUME NEW vs, NEW keys \in SUBSET Place, IsFiniteSet(keys), NEW at \in Place,
         \A k \in keys : vs[k].plane \in Plane
                           /\ (vs[k].plane # NoPlane => vs[k].plane.n > 0)
  PROVE  LET q == ClosestIn(vs, keys, at)
         IN /\ q = NoPlane => \A k \in keys : ~Within(vs[k].plane, at)
            /\ q # NoPlane => \E b \in keys :
                  /\ q = vs[b].plane /\ Within(q, at)
                  /\ \A l \in keys : Within(vs[l].plane, at) => ~Nearer(vs[l].plane, q, at)
<1> DEFINE found == {k \in keys : Within(vs[k].plane, at)}
           best == {k \in found : \A l \in found : ~Nearer(vs[l].plane, vs[k].plane, at)}
<1>1. CASE found = {}
  <2>1. ClosestIn(vs, keys, at) = NoPlane
    BY <1>1, Zenon DEF ClosestIn
  <2>2. QED
    BY <2>1, <1>1
<1>2. CASE found # {}
  <2> DEFINE R == {e \in found \X found : Nearer(vs[e[1]].plane, vs[e[2]].plane, at)}
  <2>1. \A x, y \in found : <<x, y>> \in R <=> Nearer(vs[x].plane, vs[y].plane, at)
    OBVIOUS
  <2>2. \A x \in found : /\ Offset(vs[x].plane, at) \in Nat
                         /\ Square(vs[x].plane.n) \in Nat \ {0} /\ vs[x].plane # NoPlane
    <3>1. SUFFICES ASSUME NEW x \in found
                   PROVE  /\ Offset(vs[x].plane, at) \in Nat
                          /\ Square(vs[x].plane.n) \in Nat \ {0} /\ vs[x].plane # NoPlane
      OBVIOUS
    <3>2. vs[x].plane # NoPlane /\ vs[x].plane \in Plane
      BY Zenon DEF Within
    <3>3. Offset(vs[x].plane, at) \in Nat /\ vs[x].plane.n \in Nat \ {0}
      BY <3>2, OffsetType
    <3>4. PICK n \in Nat \ {0} : n = vs[x].plane.n
      BY <3>3
    <3>5. Square(n) \in Nat \ {0}
      BY DEF Square
    <3>6. QED
      BY <3>2, <3>3, <3>4, <3>5
  <2>3. IsFiniteSet(found) /\ found \subseteq Place
    BY FS_Subset
  <2> HIDE DEF found, R
  <2>4. \A x \in found : <<x, x>> \notin R
    BY <2>1, <2>2 DEF Nearer
  <2>5. \A x, y, z \in found : <<x, y>> \in R /\ <<y, z>> \in R => <<x, z>> \in R
    BY <2>1, <2>2, RatioOrder DEF Nearer
  <2>6. \E x \in found : \A y \in found : <<y, x>> \notin R
    BY <1>2, <2>3, <2>4, <2>5, SomeLeast
  <2>7. best # {} /\ best \subseteq Place /\ best \subseteq found
    BY <2>1, <2>3, <2>6, Zenon
  <2>8. IsFiniteSet(best)
    BY <2>3, <2>7, FS_Subset
  <2> HIDE DEF best
  <2>9. \E k \in best : \A l \in best \ {k} : Before(k, l)
    BY <2>7, <2>8, FirstKey
  <2>10. PICK b \in best : b = CHOOSE k \in best : \A l \in best \ {k} : Before(k, l)
    BY <2>9
  <2>11. ClosestIn(vs, keys, at) = vs[b].plane
    BY <1>2, <2>10, Zenon DEF ClosestIn, found, best
  <2>12. b \in found /\ \A l \in found : ~Nearer(vs[l].plane, vs[b].plane, at)
    BY DEF best
  <2>13. QED
    BY <2>2, <2>11, <2>12, Zenon DEF found
<1>3. QED
  BY <1>1, <1>2
-----------------------------------------------------------------------------
(* What a voxel holds: points that belong to it, as many as came or as fit. *)
Placed(k, v) ==
  /\ v.points \in Seq(Points) /\ v.seen \in Nat
  /\ Len(v.points) = IF v.seen < MaxPoints THEN v.seen ELSE MaxPoints
  /\ \A i \in DOMAIN v.points : KeyOf(v.points[i].at) = k

PlaceInv ==
  /\ DOMAIN voxels \subseteq Place /\ IsFiniteSet(DOMAIN voxels)
  /\ \A k \in DOMAIN voxels : Placed(k, voxels[k])

(* So does an empty one. *)
LEMMA EmptyPlaced == ASSUME NEW k PROVE Placed(k, EmptyVoxel)
<1>1. EmptyVoxel.points = <<>> /\ EmptyVoxel.seen = 0
  BY DEF EmptyVoxel
<1>2. \A i \in DOMAIN <<>> : FALSE
  OBVIOUS
<1>3. QED
  BY <1>1, <1>2, EmptySeq, MapAssumption DEF Placed

(* A point is added to the list, or takes the place of one in it. *)
LEMMA SampledSpec ==
  ASSUME NEW q \in Seq(Points), NEW p \in Points, NEW j \in Nat, Len(q) <= MaxPoints
  PROVE  LET r == Sampled(q, p, j)
         IN /\ r \in Seq(Points)
            /\ Len(r) = IF Len(q) < MaxPoints THEN Len(q) + 1 ELSE Len(q)
            /\ \A i \in DOMAIN r : r[i] = p \/ (i \in DOMAIN q /\ r[i] = q[i])
<1>1. Len(q) \in Nat /\ DOMAIN q = 1 .. Len(q) /\ MaxPoints \in Nat
  BY LenProperties, MapAssumption
<1>2. CASE Len(q) < MaxPoints
  <2>1. Sampled(q, p, j) = Append(q, p)
    BY <1>2 DEF Sampled
  <2>2. QED
    BY <2>1, <1>1, <1>2, AppendProperties
<1>3. CASE ~(Len(q) < MaxPoints) /\ j < MaxPoints
  <2>1. Sampled(q, p, j) = [q EXCEPT ![j + 1] = p]
    BY <1>3 DEF Sampled
  <2>2. j + 1 \in 1 .. Len(q)
    BY <1>1, <1>3
  <2>3. QED
    BY <2>1, <2>2, <1>1, <1>3, ExceptSeq
<1>4. CASE ~(Len(q) < MaxPoints) /\ ~(j < MaxPoints)
  BY <1>1, <1>4 DEF Sampled
<1>5. QED
  BY <1>2, <1>3, <1>4

(* A voxel that gets one more point of its own still holds only its own. *)
LEMMA FilledPlaced ==
  ASSUME NEW k, NEW v, Placed(k, v), NEW p \in Points, KeyOf(p.at) = k,
         NEW j \in Draws(v.seen + 1),
         v = [points |-> v.points, seen |-> v.seen, plane |-> v.plane, dirty |-> v.dirty]
  PROVE  Placed(k, Filled(v, p, j))
<1> DEFINE r == Sampled(v.points, p, j)
<1>1. j \in Nat /\ MaxPoints \in Nat /\ v.seen \in Nat /\ v.points \in Seq(Points)
      /\ Len(v.points) <= MaxPoints
  BY MapAssumption DEF Draws, Placed
<1>2. Filled(v, p, j).points = r /\ Filled(v, p, j).seen = v.seen + 1
  <2> HIDE DEF r
  <2>1. PICK d : d = (v.dirty \/ Stores(Len(v.points), j))
    OBVIOUS
  <2>2. Filled(v, p, j) = [v EXCEPT !.points = r, !.seen = v.seen + 1, !.dirty = d]
    BY <2>1, Zenon DEF Filled, r
  <2>3. QED
    BY <2>2
<1>3. /\ r \in Seq(Points)
      /\ Len(r) = IF Len(v.points) < MaxPoints THEN Len(v.points) + 1 ELSE Len(v.points)
      /\ \A i \in DOMAIN r : r[i] = p \/ (i \in DOMAIN v.points /\ r[i] = v.points[i])
  BY <1>1, SampledSpec
<1> HIDE DEF r
<1>4. Len(v.points) = IF v.seen < MaxPoints THEN v.seen ELSE MaxPoints
  BY DEF Placed
<1>5. \A i \in DOMAIN r : KeyOf(r[i].at) = k
  BY <1>3 DEF Placed
<1>6. Len(r) = IF v.seen + 1 < MaxPoints THEN v.seen + 1 ELSE MaxPoints
  BY <1>1, <1>3, <1>4
<1>7. QED
  BY <1>1, <1>2, <1>3, <1>5, <1>6 DEF Placed

(* Every operation keeps each point in the voxel of its place. *)
LEMMA PlaceStep == ASSUME MapInv, PlaceInv, [Next]_vars PROVE PlaceInv'
<1>1. ASSUME DOMAIN voxels' \subseteq DOMAIN voxels,
             \A k \in DOMAIN voxels' : /\ voxels'[k].points = voxels[k].points
                                       /\ voxels'[k].seen = voxels[k].seen
      PROVE  PlaceInv'
  BY <1>1, FS_Subset DEF PlaceInv, Placed
<1>2. ASSUME NEW p \in Points, Insert(p) PROVE PlaceInv'
  <2> DEFINE k == KeyOf(p.at)
             v == Voxel(k)
  <2>1. PICK j \in Draws(v.seen + 1) :
          voxels' = [x \in DOMAIN voxels \cup {k} |->
                       IF x = k THEN Filled(v, p, j) ELSE voxels[x]]
    BY <1>2 DEF Insert
  <2>2. Placed(k, v)
    BY EmptyPlaced DEF PlaceInv, Voxel
  <2>3. Shaped(v)
    BY EmptyFresh DEF MapInv, MapShape, Voxel
  <2>4. Placed(k, Filled(v, p, j))
    BY <2>2, <2>3, FilledPlaced DEF Shaped
  <2>5. k \in Place
    BY KeyBounds, MapAssumption
  <2> HIDE DEF k, v
  <2>6. DOMAIN voxels' = DOMAIN voxels \cup {k}
    BY <2>1
  <2>7. ASSUME NEW x \in DOMAIN voxels' PROVE Placed(x, voxels'[x])
    <3>1. CASE x = k
      BY <3>1, <2>1, <2>4, <2>6
    <3>2. CASE x # k
      BY <3>2, <2>1, <2>6 DEF PlaceInv
    <3>3. QED
      BY <3>1, <3>2
  <2>8. /\ DOMAIN voxels' \subseteq Place /\ IsFiniteSet(DOMAIN voxels')
        /\ \A x \in DOMAIN voxels' : Placed(x, voxels'[x])
    BY <2>5, <2>6, <2>7, FS_AddElement DEF PlaceInv
  <2>9. QED
    BY <2>8 DEF PlaceInv, Placed
<1>3. ASSUME NEW origin \in Origins, Prune(origin) PROVE PlaceInv'
  BY <1>1, <1>3 DEF Prune
<1>4. \A x \in DOMAIN voxels : /\ Refitted(voxels[x]).points = voxels[x].points
                               /\ Refitted(voxels[x]).seen = voxels[x].seen
  <2>1. SUFFICES ASSUME NEW x \in DOMAIN voxels
                 PROVE  /\ Refitted(voxels[x]).points = voxels[x].points
                        /\ Refitted(voxels[x]).seen = voxels[x].seen
    OBVIOUS
  <2>2. Shaped(voxels[x])
    BY DEF MapInv, MapShape
  <2>3. CASE voxels[x].dirty
    <3>1. Refitted(voxels[x]) =
            [points |-> voxels[x].points, seen |-> voxels[x].seen,
             plane |-> Fit(voxels[x].points), dirty |-> FALSE]
      BY <2>2, <2>3 DEF Refitted, Shaped
    <3>2. QED
      BY <3>1
  <2>4. CASE ~voxels[x].dirty
    BY <2>4 DEF Refitted
  <2>5. QED
    BY <2>3, <2>4
<1>5. ASSUME NEW at \in Queries, ClosestPlane(at) PROVE PlaceInv'
  <2> DEFINE keys == {x \in DOMAIN voxels : \A a \in Axes : x[a] - KeyOf(at)[a] \in -Rings .. Rings}
  <2>1. voxels' = [x \in DOMAIN voxels |->
                     IF x \in keys THEN Refitted(voxels[x]) ELSE voxels[x]]
    BY <1>5 DEF ClosestPlane
  <2> HIDE DEF keys
  <2>2. QED
    BY <2>1, <1>1, <1>4
<1>6. CASE NumPlanes
  BY <1>1, <1>4, <1>6 DEF NumPlanes
<1>7. CASE UNCHANGED voxels
  BY <1>1, <1>7
<1>8. QED
  BY <1>2, <1>3, <1>5, <1>6, <1>7 DEF Next, InsertNothing, Target, vars

LEMMA PlaceInvAlways == Spec => []PlaceInv
<1>1. Init => PlaceInv
  BY FS_EmptySet DEF Init, PlaceInv
<1>2. MapInv /\ PlaceInv /\ [Next]_vars => PlaceInv'
  BY PlaceStep
<1>3. QED
  BY <1>1, <1>2, MapInvAlways, PTL DEF Spec

(* A point is no further from the centre of its voxel than half the diagonal. *)
LEMMA HalfDiagonal ==
  ASSUME NEW at \in Place, NEW k, KeyOf(at) = k
  PROVE  /\ TwiceCenter(k) \in Place /\ Times(2, at) \in Place
         /\ SquaredDistance(TwiceCenter(k), Times(2, at)) <= 3 * Square(VoxelSize)
         /\ SquaredDistance(Times(2, at), TwiceCenter(k)) <= 3 * Square(VoxelSize)
<1>1. VoxelSize \in Nat /\ k \in Place
  BY KeyBounds, MapAssumption
<1>2. TwiceCenter(k) \in Place /\ Times(2, at) \in Place
  BY <1>1 DEF TwiceCenter, Times, Place
<1>3. \A a \in Axes : /\ Square(TwiceCenter(k)[a] - Times(2, at)[a]) \in 0 .. Square(VoxelSize)
                      /\ Square(Times(2, at)[a] - TwiceCenter(k)[a]) \in 0 .. Square(VoxelSize)
  <2>1. SUFFICES ASSUME NEW a \in Axes
                 PROVE  /\ Square(TwiceCenter(k)[a] - Times(2, at)[a]) \in 0 .. Square(VoxelSize)
                        /\ Square(Times(2, at)[a] - TwiceCenter(k)[a]) \in 0 .. Square(VoxelSize)
    OBVIOUS
  <2>2. PICK x \in Int, h \in Int : /\ x = at[a] /\ h = k[a] /\ h * VoxelSize <= x
                                    /\ x <= h * VoxelSize + VoxelSize - 1
    BY KeyBounds
  <2>3. PICK c \in Int : c = h * VoxelSize
    BY <1>1
  <2>4. TwiceCenter(k)[a] = 2 * c + VoxelSize /\ Times(2, at)[a] = 2 * x
    BY <1>1, <2>2, <2>3 DEF TwiceCenter, Times
  <2>5. PICK d \in Int : d = 2 * c + VoxelSize - 2 * x
    BY <1>1
  <2>6. -VoxelSize <= d /\ d <= VoxelSize /\ -VoxelSize <= -d /\ -d <= VoxelSize
    BY <1>1, <2>2, <2>3, <2>5
  <2>7. /\ Square(d) \in Nat /\ Square(d) <= Square(VoxelSize)
        /\ Square(-d) \in Nat /\ Square(-d) <= Square(VoxelSize)
        /\ Square(VoxelSize) \in Nat
    BY <1>1, <2>6, Squares
  <2>8. Times(2, at)[a] - TwiceCenter(k)[a] = -d
    BY <1>1, <2>4, <2>5
  <2>9. TwiceCenter(k)[a] - Times(2, at)[a] = d
    BY <1>1, <2>4, <2>5
  <2>10. QED
    BY <2>7, <2>8, <2>9
<1>4. Square(VoxelSize) \in Nat
  BY <1>1, Squares
<1>5. QED
  BY <1>2, <1>3, <1>4, ThreeAxes DEF SquaredDistance

(* Doubling two places doubles what they are apart. *)
LEMMA Doubled ==
  ASSUME NEW u \in Place, NEW v \in Place
  PROVE  /\ SquaredDistance(Times(2, u), Times(2, v)) = 4 * SquaredDistance(u, v)
         /\ 4 * SquaredDistance(u, v) \in Nat
<1>1. PICK d1 \in Int, d2 \in Int, d3 \in Int :
        d1 = u[1] - v[1] /\ d2 = u[2] - v[2] /\ d3 = u[3] - v[3]
  BY ThreeAxes DEF Place
<1>2. \A a \in Axes : u[a] \in Int /\ v[a] \in Int
  BY DEF Place
<1>3. /\ Times(2, u)[1] - Times(2, v)[1] = 2 * d1
      /\ Times(2, u)[2] - Times(2, v)[2] = 2 * d2
      /\ Times(2, u)[3] - Times(2, v)[3] = 2 * d3
  BY <1>1, <1>2, ThreeAxes DEF Times
<1>4. SquaredDistance(Times(2, u), Times(2, v))
        = (2 * d1) * (2 * d1) + (2 * d2) * (2 * d2) + (2 * d3) * (2 * d3)
  BY <1>3 DEF SquaredDistance, Square
<1>5. SquaredDistance(u, v) = d1 * d1 + d2 * d2 + d3 * d3
  BY <1>1 DEF SquaredDistance, Square
<1>6. SquaredDistance(u, v) \in Nat
  BY DistanceType
<1>7. QED
  BY <1>4, <1>5, <1>6

(* The triangle inequality, for lengths given by bounds on their squares: the
   product of two vectors is no more than that of their lengths (Lagrange). *)
LEMMA Triangle ==
  ASSUME NEW u \in Place, NEW v \in Place, NEW w \in Place,
         NEW X \in Nat, NEW Y \in Nat, NEW Z \in Nat,
         SquaredDistance(u, v) <= X, SquaredDistance(v, w) <= Y,
         Z <= SquaredDistance(u, w)
  PROVE  RootAtMostSum(Z, X, Y)
<1>0. /\ u[1] \in Int /\ u[2] \in Int /\ u[3] \in Int
      /\ v[1] \in Int /\ v[2] \in Int /\ v[3] \in Int
      /\ w[1] \in Int /\ w[2] \in Int /\ w[3] \in Int
  BY ThreeAxes DEF Place
<1>p. PICK p1 \in Int, p2 \in Int, p3 \in Int :
        p1 = u[1] - v[1] /\ p2 = u[2] - v[2] /\ p3 = u[3] - v[3]
  BY <1>0
<1>q. PICK q1 \in Int, q2 \in Int, q3 \in Int :
        q1 = v[1] - w[1] /\ q2 = v[2] - w[2] /\ q3 = v[3] - w[3]
  BY <1>0
<1>1. p1 + q1 = u[1] - w[1] /\ p2 + q2 = u[2] - w[2] /\ p3 + q3 = u[3] - w[3]
  BY <1>0, <1>p, <1>q
<1>2. PICK x \in Int, y \in Int, d \in Int, e \in Int :
        /\ x = p1 * p1 + p2 * p2 + p3 * p3
        /\ y = q1 * q1 + q2 * q2 + q3 * q3
        /\ d = p1 * q1 + p2 * q2 + p3 * q3
        /\ e = (p1 * q2 - p2 * q1) * (p1 * q2 - p2 * q1)
               + (p1 * q3 - p3 * q1) * (p1 * q3 - p3 * q1)
               + (p2 * q3 - p3 * q2) * (p2 * q3 - p3 * q2)
  OBVIOUS
<1>3. x <= X /\ y <= Y
  BY <1>p, <1>q, <1>2 DEF SquaredDistance, Square
<1>4. Z <= x + y + 2 * d
  <2>1. SquaredDistance(u, w) = (p1 + q1) * (p1 + q1) + (p2 + q2) * (p2 + q2)
                                + (p3 + q3) * (p3 + q3)
    BY <1>1 DEF SquaredDistance, Square
  <2>2. (p1 + q1) * (p1 + q1) + (p2 + q2) * (p2 + q2) + (p3 + q3) * (p3 + q3)
          = x + y + 2 * d
    BY <1>2
  <2>3. QED
    BY <2>1, <2>2
<1>5. d * d + e = x * y
  BY <1>2
<1>6. \A a, b, c \in Int : a * a + b * b + c * c >= 0
  OBVIOUS
<1>7. e >= 0 /\ x >= 0 /\ y >= 0
  <2>1. PICK a \in Int, b \in Int, c \in Int :
          a = p1 * q2 - p2 * q1 /\ b = p1 * q3 - p3 * q1 /\ c = p2 * q3 - p3 * q2
    OBVIOUS
  <2>2. e = a * a + b * b + c * c
    BY <1>2, <2>1
  <2>3. QED
    BY <1>2, <1>6, <2>2
<1>8. SUFFICES ASSUME Z > X + Y PROVE Square(Z - X - Y) <= 4 * X * Y
  BY DEF RootAtMostSum
<1>9. PICK t \in Nat : t = Z - X - Y /\ t <= 2 * d
  BY <1>3, <1>4, <1>8
<1>10. t * t <= 4 * (d * d)
  <2>1. d \in Nat /\ t * t <= 2 * d * t /\ t * d <= 2 * d * d
    BY <1>9, MulMono
  <2>2. QED
    BY <2>1
<1>11. x * y <= X * Y
  <2>1. x \in Nat /\ y \in Nat /\ x * y <= X * y /\ y * X <= Y * X
    BY <1>3, <1>7, MulMono
  <2>2. QED
    BY <2>1
<1>12. t * t <= 4 * (X * Y)
  BY <1>5, <1>7, <1>10, <1>11
<1>13. QED
  BY <1>9, <1>12 DEF Square
(* Pruning cuts at the range, give or take half the diagonal of a voxel, wherever
   the robot is: no point further inside is lost and none further outside is
   kept (prune(), keyOf(), voxelCenter()). *)
THEOREM PrunedByRangeAlways == Spec => PrunedByRange
<1>1. PlaceInv =>
        [ \A origin \in Origins : Prune(origin) =>
            \A k \in DOMAIN voxels : \A i \in DOMAIN voxels[k].points :
              LET distance == 4 * SquaredDistance(voxels[k].points[i].at, origin)
                  range == Square(2 * MaxRange)
                  diagonal == 3 * Square(VoxelSize)
              IN IF k \in DOMAIN voxels' THEN RootAtMostSum(distance, range, diagonal)
                 ELSE RootAtMostSum(range, distance, diagonal) ]_vars
  <2> SUFFICES ASSUME PlaceInv, NEW origin \in Origins, Prune(origin),
                      NEW k \in DOMAIN voxels, NEW i \in DOMAIN voxels[k].points
               PROVE  LET distance == 4 * SquaredDistance(voxels[k].points[i].at, origin)
                          range == Square(2 * MaxRange)
                          diagonal == 3 * Square(VoxelSize)
                      IN IF k \in DOMAIN voxels' THEN RootAtMostSum(distance, range, diagonal)
                         ELSE RootAtMostSum(range, distance, diagonal)
    OBVIOUS
  <2>1. PICK at : at = voxels[k].points[i].at
    OBVIOUS
  <2>2. at \in Place /\ origin \in Place /\ KeyOf(at) = k
    <3>1. voxels[k].points \in Seq(Points) /\ KeyOf(voxels[k].points[i].at) = k
      BY DEF PlaceInv, Placed
    <3>2. voxels[k].points[i] \in Points
      BY <3>1, ElementOfSeq, LenProperties
    <3>3. QED
      BY <2>1, <3>1, <3>2, MapAssumption
  <2>3. k \in DOMAIN voxels' <=> InRange(k, origin)
    BY DEF Prune
  <2>4. PICK range \in Nat, diagonal \in Nat, distance \in Nat :
          /\ range = Square(2 * MaxRange) /\ diagonal = 3 * Square(VoxelSize)
          /\ distance = 4 * SquaredDistance(at, origin)
    <3>1. 2 * MaxRange \in Nat /\ VoxelSize \in Nat
      BY MapAssumption
    <3>2. Square(2 * MaxRange) \in Nat /\ Square(VoxelSize) \in Nat
      BY <3>1, Squares
    <3>3. 4 * SquaredDistance(at, origin) \in Nat
      BY <2>2, Doubled
    <3>4. QED
      BY <3>2, <3>3
  <2>5. PICK u, v, w : u = Times(2, at) /\ v = TwiceCenter(k) /\ w = Times(2, origin)
    OBVIOUS
  <2>6. /\ u \in Place /\ v \in Place /\ w \in Place
        /\ SquaredDistance(u, v) <= diagonal /\ SquaredDistance(v, u) <= diagonal
        /\ SquaredDistance(u, w) = distance
    <3>1. w \in Place
      BY <2>2, <2>5 DEF Times, Place
    <3>2. QED
      BY <3>1, <2>2, <2>4, <2>5, HalfDiagonal, Doubled
  <2>7. SquaredDistance(v, w) \in Nat
    BY <2>6, DistanceType
  <2>8. CASE k \in DOMAIN voxels'
    <3>1. SquaredDistance(v, w) <= range
      BY <2>3, <2>4, <2>5, <2>8 DEF InRange
    <3>2. RootAtMostSum(distance, diagonal, range)
      BY <2>6, <3>1, Triangle
    <3>3. RootAtMostSum(distance, range, diagonal)
      BY <3>2 DEF RootAtMostSum, Square
    <3>4. QED
      BY <2>1, <2>4, <2>8, <3>3
  <2>9. CASE k \notin DOMAIN voxels'
    <3>1. range <= SquaredDistance(v, w)
      BY <2>3, <2>4, <2>5, <2>7, <2>9 DEF InRange
    <3>2. RootAtMostSum(range, diagonal, distance)
      BY <2>6, <3>1, Triangle
    <3>3. RootAtMostSum(range, distance, diagonal)
      BY <3>2 DEF RootAtMostSum, Square
    <3>4. QED
      BY <2>1, <2>4, <2>9, <3>3
  <2>10. QED
    BY <2>8, <2>9
<1>2. QED
  BY <1>1, PlaceInvAlways, PTL DEF Spec, PrunedByRange
-----------------------------------------------------------------------------
(* The centroid of points of one voxel lies inside it.                       *)

Pick(s) == CHOOSE x \in s : TRUE

(* The fold of a sum, a set of places at a time. *)
Summed(f, T, g) ==
  \A s \in SUBSET T : g[s] = IF s = {} THEN 0 ELSE f[Pick(s)] + g[s \ {Pick(s)}]

(* A nonempty family of subsets of a finite set has a least one. *)
LEMMA LeastSubset ==
  ASSUME NEW S, IsFiniteSet(S), NEW B \in SUBSET SUBSET S, B # {}
  PROVE  \E s \in B : \A u \in B : u \subseteq s => u = s
<1>1. B \subseteq FiniteSubsetsOf(S)
  BY FS_Subset DEF FiniteSubsetsOf
<1>2. PICK s \in B : \A u \in B : <<u, s>> \notin StrictSubsetOrdering(S)
  BY <1>1, FS_StrictSubsetOrderingWellFounded, WFMin
<1>3. ASSUME NEW u \in B, u \subseteq s, u # s PROVE FALSE
  BY <1>2, <1>3 DEF StrictSubsetOrdering
<1>4. QED
  BY <1>3

LEMMA Picked ==
  ASSUME NEW s, s # {}
  PROVE  /\ Pick(s) \in s /\ s \ {Pick(s)} \subseteq s /\ s \ {Pick(s)} # s
BY DEF Pick

(* Two such sums agree where both are defined. *)
LEMMA SummedUnique ==
  ASSUME NEW S, IsFiniteSet(S), NEW f \in [S -> Int],
         NEW T \in SUBSET S, NEW U \in SUBSET T, NEW g, NEW h,
         Summed(f, T, g), Summed(f, U, h)
  PROVE  \A s \in SUBSET U : g[s] = h[s]
<1> DEFINE B == {s \in SUBSET U : g[s] # h[s]}
<1>1. SUFFICES ASSUME B # {} PROVE FALSE
  OBVIOUS
<1>2. PICK s \in B : \A u \in B : u \subseteq s => u = s
  <2>1. B \in SUBSET SUBSET S
    OBVIOUS
  <2>2. QED
    <3> HIDE DEF B
    <3> QED BY <1>1, <2>1, LeastSubset
<1>3. g[s] = (IF s = {} THEN 0 ELSE f[Pick(s)] + g[s \ {Pick(s)}])
      /\ h[s] = (IF s = {} THEN 0 ELSE f[Pick(s)] + h[s \ {Pick(s)}])
  BY DEF Summed
<1>4. s # {}
  BY <1>3
<1>5. s \ {Pick(s)} \notin B
  BY <1>2, <1>4, Picked
<1>6. g[s \ {Pick(s)}] = h[s \ {Pick(s)}]
  BY <1>5
<1>7. QED
  BY <1>3, <1>4, <1>6

(* There is one, on the subsets of any finite set. *)
LEMMA SummedExists ==
  ASSUME NEW S, IsFiniteSet(S), NEW f \in [S -> Int]
  PROVE  \E g : Summed(f, S, g)
<1> DEFINE B == {T \in SUBSET S : ~\E g : Summed(f, T, g)}
<1>1. SUFFICES ASSUME B # {} PROVE FALSE
  OBVIOUS
<1>2. PICK T \in B : \A u \in B : u \subseteq T => u = T
  <2>1. B \in SUBSET SUBSET S
    OBVIOUS
  <2>2. QED
    <3> HIDE DEF B
    <3> QED BY <1>1, <2>1, LeastSubset
<1>3. \A u \in SUBSET T : u # T => \E g : Summed(f, u, g)
  BY <1>2
<1> DEFINE of(u) == CHOOSE g : Summed(f, u, g)
           last == IF T = {} THEN 0 ELSE f[Pick(T)] + of(T \ {Pick(T)})[T \ {Pick(T)}]
           g == [s \in SUBSET T |-> IF s = T THEN last ELSE of(s)[s]]
<1>4. \A u \in SUBSET T : u # T => Summed(f, u, of(u))
  BY <1>3
<1> HIDE DEF of
<1>5. ASSUME NEW s \in SUBSET T
      PROVE  g[s] = IF s = {} THEN 0 ELSE f[Pick(s)] + g[s \ {Pick(s)}]
  <2> DEFINE r == s \ {Pick(s)}
  <2>1. CASE s = T
    BY <2>1, Picked
  <2>2. CASE s # T /\ s = {}
    BY <2>2, <1>4 DEF Summed
  <2>3. CASE s # T /\ s # {}
    <3>1. r \in SUBSET s /\ r \in SUBSET T /\ r # T
      BY <2>3, Picked
    <3>2. of(s)[s] = f[Pick(s)] + of(s)[r]
      BY <2>3, <1>4 DEF Summed
    <3>3. of(s)[r] = of(r)[r]
      BY <2>3, <3>1, <1>4, SummedUnique
    <3>4. g[s] = of(s)[s] /\ g[r] = of(r)[r]
      BY <2>3, <3>1
    <3>5. QED
      BY <2>3, <3>2, <3>3, <3>4
  <2>4. QED
    BY <2>1, <2>2, <2>3
<1>6. Summed(f, T, g)
  BY <1>5 DEF Summed
<1>7. QED
  BY <1>6

(* Between the least and the greatest of its terms, times their number. *)
LEMMA SummedBetween ==
  ASSUME NEW S, IsFiniteSet(S), NEW lo \in Int, NEW hi \in Int,
         NEW f \in [S -> lo .. hi], NEW g, Summed(f, S, g)
  PROVE  g[S] \in Cardinality(S) * lo .. Cardinality(S) * hi
<1> DEFINE B == {s \in SUBSET S : g[s] \notin Cardinality(s) * lo .. Cardinality(s) * hi}
<1>1. SUFFICES ASSUME B # {} PROVE FALSE
  OBVIOUS
<1>2. PICK s \in B : \A u \in B : u \subseteq s => u = s
  <2>1. B \in SUBSET SUBSET S
    OBVIOUS
  <2>2. QED
    <3> HIDE DEF B
    <3> QED BY <1>1, <2>1, LeastSubset
<1>3. g[s] = (IF s = {} THEN 0 ELSE f[Pick(s)] + g[s \ {Pick(s)}])
  BY DEF Summed
<1>4. s # {}
  <2>1. SUFFICES ASSUME s = {} PROVE FALSE
    OBVIOUS
  <2>2. g[s] = 0 /\ Cardinality(s) = 0
    BY <1>3, <2>1, FS_EmptySet
  <2>3. 0 * lo = 0 /\ 0 * hi = 0
    OBVIOUS
  <2>4. QED
    BY <1>2, <2>2, <2>3
<1>5. PICK r \in SUBSET S : r = s \ {Pick(s)}
  BY <1>2
<1>6. r \notin B
  BY <1>2, <1>4, <1>5, Picked
<1>7. IsFiniteSet(s) /\ Pick(s) \in s /\ Pick(s) \in S
  BY <1>2, <1>4, Picked, FS_Subset
<1>8. PICK c \in Nat : c = Cardinality(r) /\ Cardinality(s) = c + 1
  <2>1. IsFiniteSet(r) /\ Cardinality(r) = Cardinality(s) - 1 /\ Cardinality(s) \in Nat /\ Cardinality(r) \in Nat
    BY <1>5, <1>7, FS_RemoveElement, FS_CardinalityType
  <2>2. QED
    BY <2>1
<1>9. PICK x \in Int : x = f[Pick(s)] /\ lo <= x /\ x <= hi
  BY <1>7
<1>10. PICK y \in Int : y = g[r] /\ c * lo <= y /\ y <= c * hi
  BY <1>6, <1>8
<1>11. g[s] = x + y
  BY <1>3, <1>4, <1>5, <1>9, <1>10
<1>12. (c + 1) * lo = c * lo + lo /\ (c + 1) * hi = c * hi + hi
  OBVIOUS
<1>13. x + y \in (c + 1) * lo .. (c + 1) * hi
  BY <1>9, <1>10, <1>12
<1>14. QED
  BY <1>2, <1>8, <1>11, <1>13

(* The sum in a plane is such a sum of the places of the points, along each axis. *)
LEMMA TotalInside ==
  ASSUME NEW n \in Nat, NEW q \in [1 .. n -> Points], NEW a \in Axes, NEW k \in Int,
         \A i \in 1 .. n : KeyOf(q[i].at)[a] = k
  PROVE  FoldFunction(LAMBDA p, sum : p.at[a] + sum, 0, q)
           \in n * (k * VoxelSize) .. n * (k * VoxelSize + VoxelSize - 1)
<1> DEFINE S == 1 .. n
           f == [i \in S |-> q[i].at[a]]
           lo == k * VoxelSize
           hi == k * VoxelSize + VoxelSize - 1
           Rule(h) == [s \in SUBSET S |-> IF s = {} THEN 0
                                          ELSE q[Pick(s)].at[a] + h[s \ {Pick(s)}]]
           iter == CHOOSE h : h = Rule(h)
<1>1. IsFiniteSet(S) /\ Cardinality(S) = n
  BY FS_Interval
<1>2. f \in [S -> lo .. hi] /\ f \in [S -> Int] /\ lo \in Int /\ hi \in Int
  <2>1. ASSUME NEW i \in S PROVE f[i] \in Int /\ lo <= f[i] /\ f[i] <= hi
    BY KeyBounds, MapAssumption
  <2>2. lo \in Int /\ hi \in Int
    BY MapAssumption
  <2>3. QED
    BY <2>1, <2>2
<1>3. \A s \in SUBSET S : s # {} => q[Pick(s)].at[a] = f[Pick(s)]
  BY Picked
<1>4. PICK g : Summed(f, S, g)
  BY <1>1, <1>2, SummedExists
<1>5. \E h : h = Rule(h)
  <2> DEFINE h == [s \in SUBSET S |-> g[s]]
  <2>1. ASSUME NEW s \in SUBSET S PROVE h[s] = Rule(h)[s]
    BY <1>3, <1>4, Picked DEF Summed
  <2>2. h = Rule(h)
    BY <2>1
  <2>3. QED
    BY <2>2
<1>6. iter = Rule(iter)
  <2> HIDE DEF Rule
  <2> QED BY <1>5
<1> HIDE DEF iter
<1>7. Summed(f, S, iter)
  <2>1. ASSUME NEW s \in SUBSET S
        PROVE  iter[s] = IF s = {} THEN 0 ELSE f[Pick(s)] + iter[s \ {Pick(s)}]
    BY <1>3, <1>6
  <2>2. QED
    BY <2>1 DEF Summed
<1>8. FoldFunction(LAMBDA p, sum : p.at[a] + sum, 0, q) = iter[S]
  BY DEF FoldFunction, FoldFunctionOnSet, MapThenFoldSet, Pick, iter
<1>9. iter[S] \in Cardinality(S) * lo .. Cardinality(S) * hi
  BY <1>1, <1>2, <1>7, SummedBetween
<1>10. QED
  BY <1>1, <1>8, <1>9

LEMMA CentroidOf ==
  ASSUME NEW k, NEW v, Placed(k, v), Fit(v.points) # NoPlane
  PROVE  LET q == Fit(v.points)
         IN /\ k \in Place /\ q \in Plane /\ q.n > 0
            /\ \A a \in Axes : q.sum[a] \in q.n * (k[a] * VoxelSize)
                                              .. q.n * (k[a] * VoxelSize + VoxelSize - 1)
<1> DEFINE n == Len(v.points)
           q == Fit(v.points)
<1>1. /\ v.points \in Seq(Points) /\ n \in Nat /\ DOMAIN v.points = 1 .. n
      /\ \A i \in 1 .. n : KeyOf(v.points[i].at) = k /\ v.points[i] \in Points
  BY ElementOfSeq, LenProperties DEF Placed
<1>2. PICK p \in [1 .. n -> Points] : p = v.points
  BY <1>1
<1>3. q = [sum |-> [a \in Axes |-> FoldFunction(LAMBDA x, sum : x.at[a] + sum, 0, p)],
           n |-> n]
  BY <1>2 DEF Fit
<1>4. n > 0 /\ 1 \in 1 .. n
  <2>1. n >= MinPoints
    BY DEF Fit
  <2>2. QED
    BY <1>1, <2>1, MapAssumption
<1>5. k \in Place
  BY <1>1, <1>4, KeyBounds, MapAssumption
<1> HIDE DEF n, q
<1>6. ASSUME NEW a \in Axes
      PROVE  FoldFunction(LAMBDA x, sum : x.at[a] + sum, 0, p)
               \in n * (k[a] * VoxelSize) .. n * (k[a] * VoxelSize + VoxelSize - 1)
  <2>1. k[a] \in Int /\ \A i \in 1 .. n : KeyOf(p[i].at)[a] = k[a]
    BY <1>1, <1>2, <1>5 DEF Place
  <2>2. QED
    BY <1>1, <2>1, TotalInside
<1>7. q.n = n /\ \A a \in Axes : q.sum[a] \in n * (k[a] * VoxelSize)
                                                .. n * (k[a] * VoxelSize + VoxelSize - 1)
  BY <1>3, <1>6
<1>8. q.sum \in Place /\ q.n \in Nat /\ q.n > 0
  <2>1. ASSUME NEW a \in Axes
        PROVE  FoldFunction(LAMBDA x, sum : x.at[a] + sum, 0, p) \in Int
    <3>1. PICK t, m, V : /\ t = FoldFunction(LAMBDA x, sum : x.at[a] + sum, 0, p)
                         /\ m = k[a] /\ V = VoxelSize
      OBVIOUS
    <3>2. t \in n * (m * V) .. n * (m * V + V - 1) /\ m \in Int /\ V \in Nat
      BY <3>1, <1>5, <1>6, MapAssumption DEF Place
    <3>3. t \in Int
      BY <3>2, <1>1
    <3>4. QED
      BY <3>1, <3>3
  <2>2. QED
    BY <2>1, <1>1, <1>3, <1>4 DEF Place
<1>9. q \in Plane
  BY <1>3, <1>8 DEF Plane
<1>10. QED
  BY <1>5, <1>7, <1>8, <1>9 DEF q

(* The planes of the voxels searched are those of their points, so they have the
   type of one, and a voxel with one within reach is searched. *)
LEMMA SearchedPlanes ==
  ASSUME NEW at \in Place, MapInv, PlaceInv, ClosestPlane(at)
  PROVE  \E keys \in SUBSET Place :
           /\ IsFiniteSet(keys) /\ keys \subseteq DOMAIN voxels'
           /\ answer' = [at |-> at, asked |-> TRUE, plane |-> ClosestIn(voxels', keys, at)]
           /\ \A k \in keys : /\ voxels'[k].plane = Fit(voxels'[k].points)
                              /\ voxels'[k].plane \in Plane
                              /\ voxels'[k].plane # NoPlane => voxels'[k].plane.n > 0
           /\ \A k \in DOMAIN voxels' : Within(Fit(voxels'[k].points), at) => k \in keys
<1> DEFINE keys == {x \in DOMAIN voxels : \A a \in Axes : x[a] - KeyOf(at)[a] \in -Rings .. Rings}
<1>1. /\ voxels' = [x \in DOMAIN voxels |->
                      IF x \in keys THEN Refitted(voxels[x]) ELSE voxels[x]]
      /\ answer' = [at |-> at, asked |-> TRUE, plane |-> ClosestIn(voxels', keys, at)]
  BY DEF ClosestPlane
<1>2. keys \subseteq DOMAIN voxels
  OBVIOUS
<1>3. IsFiniteSet(keys) /\ keys \in SUBSET Place /\ keys \subseteq DOMAIN voxels
  <2> HIDE DEF keys
  <2> QED BY <1>2, FS_Subset DEF PlaceInv
<1>4. \A x \in DOMAIN voxels : /\ Shaped(voxels[x]) /\ Fresh(voxels[x])
                               /\ Placed(x, voxels[x])
  BY DEF MapInv, MapShape, PlanesFresh, Fresh, PlaceInv
<1>5. \A x \in DOMAIN voxels : /\ Refitted(voxels[x]).points = voxels[x].points
                               /\ Refitted(voxels[x]).plane = Fit(voxels[x].points)
  <2>1. SUFFICES ASSUME NEW x \in DOMAIN voxels
                 PROVE  /\ Refitted(voxels[x]).points = voxels[x].points
                        /\ Refitted(voxels[x]).plane = Fit(voxels[x].points)
    OBVIOUS
  <2>2. PICK v : v = voxels[x]
    OBVIOUS
  <2>3. CASE v.dirty
    BY <1>4, <2>2, <2>3 DEF Refitted, Shaped
  <2>4. CASE ~v.dirty
    BY <1>4, <2>2, <2>4 DEF Refitted, Fresh
  <2>5. QED
    BY <2>2, <2>3, <2>4
<1>6. DOMAIN voxels' = DOMAIN voxels
  BY <1>1
<1>7. \A k \in DOMAIN voxels : voxels'[k].points = voxels[k].points
  <2> HIDE DEF keys
  <2> QED BY <1>1, <1>5
<1>8. \A k \in keys : voxels'[k].plane = Fit(voxels[k].points)
  <2> HIDE DEF keys
  <2> QED BY <1>1, <1>3, <1>5
<1>9. \A k \in DOMAIN voxels : Within(Fit(voxels[k].points), at) => k \in keys
  <2>1. SUFFICES ASSUME NEW k \in DOMAIN voxels, Within(Fit(voxels[k].points), at)
                 PROVE  k \in keys
    OBVIOUS
  <2>2. PICK q : q = Fit(voxels[k].points)
    OBVIOUS
  <2>3. q # NoPlane
    BY <2>1, <2>2 DEF Within
  <2>4. /\ k \in Place /\ q \in Plane /\ q.n > 0
        /\ \A a \in Axes : q.sum[a] \in q.n * (k[a] * VoxelSize)
                                          .. q.n * (k[a] * VoxelSize + VoxelSize - 1)
    BY <1>4, <2>2, <2>3, CentroidOf
  <2>5. \A a \in Axes : k[a] - KeyOf(at)[a] \in -Rings .. Rings
    BY <2>1, <2>2, <2>4, ReachInRings
  <2>6. QED
    BY <2>5
<1>10. \A k \in DOMAIN voxels : /\ Fit(voxels[k].points) \in Plane
                                /\ Fit(voxels[k].points) # NoPlane
                                     => Fit(voxels[k].points).n > 0
  <2>1. NoPlane \in Plane
    BY DEF NoPlane, Plane, Zero, Place
  <2>2. QED
    BY <1>4, <2>1, CentroidOf
<1> HIDE DEF keys
<1>11. /\ \A k \in keys : /\ voxels'[k].plane = Fit(voxels'[k].points)
                          /\ voxels'[k].plane \in Plane
                          /\ voxels'[k].plane # NoPlane => voxels'[k].plane.n > 0
       /\ \A k \in DOMAIN voxels' : Within(Fit(voxels'[k].points), at) => k \in keys
  BY <1>3, <1>6, <1>7, <1>8, <1>9, <1>10
<1>12. QED
  BY <1>1, <1>3, <1>6, <1>11

(* The search finds the nearest plane of the whole map, fitted to its present
   points, for every size of voxel and every search distance (closestPlane()). *)
THEOREM ClosestOfAllAlways == Spec => []ClosestOfAll
<1>1. Init => ClosestOfAll
  BY DEF Init, NoAnswer, ClosestOfAll
<1>2. MapInv /\ PlaceInv /\ ClosestOfAll /\ [Next]_vars => ClosestOfAll'
  <2> SUFFICES ASSUME MapInv, PlaceInv, ClosestOfAll, [Next]_vars
               PROVE  ClosestOfAll'
    OBVIOUS
  <2>1. CASE answer' = NoAnswer
    BY <2>1 DEF ClosestOfAll, NoAnswer
  <2>2. ASSUME NEW at \in Queries, ClosestPlane(at) PROVE ClosestOfAll'
    <3>1. at \in Place
      BY MapAssumption
    <3>2. PICK keys \in SUBSET Place :
            /\ IsFiniteSet(keys) /\ keys \subseteq DOMAIN voxels'
            /\ answer' = [at |-> at, asked |-> TRUE, plane |-> ClosestIn(voxels', keys, at)]
            /\ \A k \in keys : /\ voxels'[k].plane = Fit(voxels'[k].points)
                               /\ voxels'[k].plane \in Plane
                               /\ voxels'[k].plane # NoPlane => voxels'[k].plane.n > 0
            /\ \A k \in DOMAIN voxels' : Within(Fit(voxels'[k].points), at) => k \in keys
      BY <2>2, <3>1, SearchedPlanes, Zenon
    <3>3. PICK q : q = ClosestIn(voxels', keys, at)
      OBVIOUS
    <3>4. answer'.plane = q /\ answer'.at = at
      BY <3>2, <3>3
    <3>5. /\ q = NoPlane => \A k \in keys : ~Within(voxels'[k].plane, at)
          /\ q # NoPlane => \E b \in keys :
               /\ q = voxels'[b].plane /\ Within(q, at)
               /\ \A l \in keys : Within(voxels'[l].plane, at)
                                    => ~Nearer(voxels'[l].plane, q, at)
      <4>1. PICK vs : vs = voxels'
        OBVIOUS
      <4>2. QED
        BY <3>1, <3>2, <3>3, <4>1, ClosestSpec
    <3>6. \A k \in DOMAIN voxels' : Within(Fit(voxels'[k].points), at) =>
            q # NoPlane /\ ~Nearer(Fit(voxels'[k].points), q, at)
      BY <3>2, <3>5, Zenon
    <3>7. q # NoPlane => Within(q, at) /\ \E b \in DOMAIN voxels' : q = Fit(voxels'[b].points)
      BY <3>2, <3>5, Zenon
    <3>8. QED
      BY <3>4, <3>6, <3>7, Zenon DEF ClosestOfAll
  <2>3. CASE UNCHANGED vars
    BY <2>3, Zenon DEF ClosestOfAll, vars
  <2>4. QED
    BY <2>1, <2>2, <2>3 DEF Next, Insert, Prune, InsertNothing, NumPlanes, Target
<1>3. QED
  BY <1>1, <1>2, MapInvAlways, PlaceInvAlways, PTL DEF Spec

(* The types of what PlaceInv does not speak of. *)
PlaneTyped ==
  /\ \A k \in DOMAIN voxels : voxels[k].plane \in Plane
  /\ copies \in 0 .. MaxCopies
  /\ targetCache \subseteq Place \X Nat \X Points
  /\ answer \in [at : Place, asked : BOOLEAN, plane : Plane]

LEMMA NoPlaneType == NoPlane \in Plane /\ NoAnswer \in [at : Place, asked : BOOLEAN, plane : Plane]
<1>1. Zero \in Place
  BY DEF Zero, Place
<1>2. NoPlane \in Plane
  BY <1>1 DEF NoPlane, Plane
<1>3. QED
  BY <1>1, <1>2 DEF NoAnswer

LEMMA FitType ==
  ASSUME NEW k, NEW v, Placed(k, v)
  PROVE  Fit(v.points) \in Plane
BY CentroidOf, NoPlaneType

LEMMA StoredType ==
  ASSUME PlaceInv
  PROVE  Stored(voxels) \subseteq Place \X Nat \X Points
<1>1. SUFFICES ASSUME NEW k \in DOMAIN voxels, NEW i \in DOMAIN voxels[k].points
               PROVE  k \in Place /\ i \in Nat /\ voxels[k].points[i] \in Points
  BY DEF Stored
<1>2. k \in Place /\ voxels[k].points \in Seq(Points)
  BY DEF PlaceInv, Placed
<1>3. QED
  BY <1>2, ElementOfSeq, LenProperties

LEMMA PlaneTypedStep ==
  ASSUME MapInv, PlaceInv, PlaneTyped, [Next]_vars
  PROVE  PlaneTyped'
<1>1. \A k \in DOMAIN voxels : /\ Shaped(voxels[k]) /\ voxels[k].plane \in Plane
                               /\ Fit(voxels[k].points) \in Plane
  BY FitType DEF MapInv, MapShape, PlaceInv, PlaneTyped
<1>2. \A k \in DOMAIN voxels : Refitted(voxels[k]).plane \in Plane
  <2>1. SUFFICES ASSUME NEW k \in DOMAIN voxels PROVE Refitted(voxels[k]).plane \in Plane
    OBVIOUS
  <2>2. PICK v : v = voxels[k]
    OBVIOUS
  <2>3. CASE v.dirty
    BY <1>1, <2>2, <2>3 DEF Refitted, Shaped
  <2>4. CASE ~v.dirty
    BY <1>1, <2>2, <2>4 DEF Refitted
  <2>5. QED
    BY <2>2, <2>3, <2>4
<1>3. ASSUME \A k \in DOMAIN voxels' : voxels'[k].plane \in Plane,
             copies' \in 0 .. MaxCopies, targetCache' \subseteq Place \X Nat \X Points,
             answer' \in [at : Place, asked : BOOLEAN, plane : Plane]
      PROVE  PlaneTyped'
  BY <1>3 DEF PlaneTyped
<1>4. ASSUME NEW p \in Points, Insert(p) PROVE PlaneTyped'
  <2> DEFINE k == KeyOf(p.at)
             v == Voxel(k)
  <2>1. PICK j \in Draws(v.seen + 1) :
          voxels' = [x \in DOMAIN voxels \cup {k} |->
                       IF x = k THEN Filled(v, p, j) ELSE voxels[x]]
    BY <1>4 DEF Insert
  <2>2. Shaped(v) /\ v.plane \in Plane
    BY <1>1, EmptyFresh, NoPlaneType DEF Voxel, EmptyVoxel
  <2>3. Filled(v, p, j).plane = v.plane
    <3>1. PICK d, r, n : /\ d = (v.dirty \/ Stores(Len(v.points), j))
                         /\ r = Sampled(v.points, p, j) /\ n = v.seen + 1
      OBVIOUS
    <3>2. Filled(v, p, j) = [v EXCEPT !.points = r, !.seen = n, !.dirty = d]
      BY <3>1, Zenon DEF Filled
    <3>3. QED
      BY <2>2, <3>2 DEF Shaped
  <2> HIDE DEF k, v
  <2>4. \A x \in DOMAIN voxels' : voxels'[x].plane \in Plane
    BY <1>1, <2>1, <2>2, <2>3
  <2>5. UNCHANGED <<targetCache, copies>> /\ answer' = NoAnswer
    BY <1>4 DEF Insert
  <2>6. QED
    BY <2>4, <2>5, <1>3, NoPlaneType DEF PlaneTyped
<1>5. ASSUME NEW origin \in Origins, Prune(origin) PROVE PlaneTyped'
  BY <1>1, <1>3, <1>5, NoPlaneType DEF Prune, PlaneTyped
<1>6. ASSUME NEW at \in Queries, ClosestPlane(at) PROVE PlaneTyped'
  <2>1. at \in Place
    BY MapAssumption
  <2>2. PICK keys \in SUBSET Place :
          /\ IsFiniteSet(keys)
          /\ answer' = [at |-> at, asked |-> TRUE, plane |-> ClosestIn(voxels', keys, at)]
          /\ \A k \in keys : /\ voxels'[k].plane \in Plane
                             /\ voxels'[k].plane # NoPlane => voxels'[k].plane.n > 0
    BY <1>6, <2>1, SearchedPlanes
  <2>3. PICK vs, q : vs = voxels' /\ q = ClosestIn(vs, keys, at)
    OBVIOUS
  <2>4. q = NoPlane \/ \E b \in keys : q = vs[b].plane
    BY <2>1, <2>2, <2>3, ClosestSpec, Zenon
  <2>5. q \in Plane
    BY <2>2, <2>3, <2>4, NoPlaneType
  <2>6. answer' \in [at : Place, asked : BOOLEAN, plane : Plane]
    BY <2>1, <2>2, <2>3, <2>5
  <2> DEFINE near == {x \in DOMAIN voxels : \A a \in Axes : x[a] - KeyOf(at)[a] \in -Rings .. Rings}
  <2>7. /\ voxels' = [x \in DOMAIN voxels |->
                        IF x \in near THEN Refitted(voxels[x]) ELSE voxels[x]]
        /\ UNCHANGED <<targetCache, copies>>
    BY <1>6 DEF ClosestPlane
  <2> HIDE DEF near
  <2>8. \A x \in DOMAIN voxels' : voxels'[x].plane \in Plane
    BY <1>1, <1>2, <2>7
  <2>9. QED
    BY <2>6, <2>7, <2>8, <1>3 DEF PlaneTyped
<1>7. CASE NumPlanes
  BY <1>2, <1>3, <1>7, NoPlaneType DEF NumPlanes, PlaneTyped
<1>8. CASE InsertNothing
  BY <1>1, <1>3, <1>8, NoPlaneType DEF InsertNothing, PlaneTyped
<1>9. CASE Target
  <2>1. copies' \in 0 .. MaxCopies
    BY <1>9, MapAssumption DEF Target, PlaneTyped
  <2>2. QED
    BY <1>1, <1>3, <1>9, <2>1, NoPlaneType, StoredType DEF Target
<1>10. CASE UNCHANGED vars
  BY <1>10 DEF vars, PlaneTyped
<1>11. QED
  BY <1>4, <1>5, <1>6, <1>7, <1>8, <1>9, <1>10 DEF Next

(* Every variable of the map has its type, and no voxel holds more than its cap
   (insert()). *)
THEOREM MapTypeCorrect == Spec => []TypeOK
<1>1. Init => PlaneTyped
  BY NoPlaneType, MapAssumption DEF Init, PlaneTyped
<1>2. MapInv /\ PlaceInv /\ PlaneTyped /\ [Next]_vars => PlaneTyped'
  BY PlaneTypedStep
<1>3. MapInv /\ PlaceInv /\ PlaneTyped => TypeOK
  <2>1. SUFFICES ASSUME MapInv, PlaceInv, PlaneTyped PROVE TypeOK
    OBVIOUS
  <2>2. ASSUME NEW k \in DOMAIN voxels
        PROVE  /\ voxels[k] \in VoxelType
               /\ Len(voxels[k].points) = Min({voxels[k].seen, MaxPoints})
    <3>1. PICK v : v = voxels[k]
      OBVIOUS
    <3>2. /\ v = [points |-> v.points, seen |-> v.seen, plane |-> v.plane, dirty |-> v.dirty]
          /\ v.dirty \in BOOLEAN /\ v.plane \in Plane
          /\ v.points \in Seq(Points) /\ v.seen \in Nat
          /\ Len(v.points) = IF v.seen < MaxPoints THEN v.seen ELSE MaxPoints
      BY <2>1, <3>1 DEF MapInv, MapShape, Shaped, PlaceInv, Placed, PlaneTyped
    <3>3. v \in VoxelType
      BY <3>2 DEF VoxelType
    <3>4. ASSUME NEW a \in Nat, NEW b \in Nat
          PROVE  Min({a, b}) = IF a < b THEN a ELSE b
      <4>1. \E x \in {a, b} : \A y \in {a, b} : x <= y
        OBVIOUS
      <4>2. Min({a, b}) \in {a, b} /\ \A y \in {a, b} : Min({a, b}) <= y
        BY <4>1 DEF Min
      <4>3. QED
        BY <4>2
    <3>5. Len(v.points) = Min({v.seen, MaxPoints})
      BY <3>2, <3>4, MapAssumption
    <3>6. QED
      BY <3>1, <3>3, <3>5
  <2>3. DOMAIN voxels \subseteq Place /\ dirty \in BOOLEAN
    BY <2>1 DEF MapInv, MapShape, PlaceInv
  <2>4. QED
    BY <2>1, <2>2, <2>3 DEF TypeOK, PlaneTyped
<1>4. QED
  BY <1>1, <1>2, <1>3, MapInvAlways, PlaceInvAlways, PTL DEF Spec
-----------------------------------------------------------------------------
(* The sample that a voxel keeps.                                          *)
(*                                                                         *)
(* The sets of MaxPoints points kept of n > MaxPoints are each kept under  *)
(* as many draws as those kept of n - 1, times n - MaxPoints.  One without *)
(* the last point was kept before, and the last draw missed the reservoir, *)
(* as n - MaxPoints of the n do.  One with it was made of a set that held, *)
(* in its place, one of the n - MaxPoints points the new set is without,   *)
(* and the last draw hit the place of that point: one draw for each.       *)

(* A set of numbers has a least one; what fails for some number fails for a least
   one, and holds for the one before it. *)
LEMMA LeastOf ==
  ASSUME NEW B \in SUBSET Nat, B # {}
  PROVE  \E n \in B : n - 1 \notin B /\ \A m \in B : n <= m
<1>1. PICK b \in B : TRUE
  OBVIOUS
<1> DEFINE F == {0 .. m : m \in B \cap (0 .. b)}
<1>2. IsFiniteSet(0 .. b)
  BY <1>1, FS_Interval
<1>2a. F \in SUBSET SUBSET (0 .. b) /\ F # {}
  <2>1. \A m \in 0 .. b : 0 .. m \subseteq 0 .. b
    BY <1>1
  <2>2. 0 .. b \in F
    BY <1>1
  <2>3. QED
    BY <2>1, <2>2
<1>3. PICK s \in F : \A u \in F : u \subseteq s => u = s
  <2>1. PICK S : S = 0 .. b
    OBVIOUS
  <2> HIDE DEF F
  <2>2. IsFiniteSet(S) /\ F \in SUBSET SUBSET S /\ F # {}
    BY <2>1, <1>2, <1>2a
  <2>3. QED
    BY <2>2, LeastSubset
<1>4. PICK n \in B \cap (0 .. b) : s = 0 .. n
  BY <1>3
<1>5. ASSUME NEW m \in B, m < n PROVE FALSE
  <2>1. 0 .. m \in F /\ 0 .. m \subseteq s
    BY <1>4, <1>5
  <2>2. n \in 0 .. n /\ n \notin 0 .. m
    BY <1>5
  <2>3. QED
    BY <2>1, <2>2, <1>3, <1>4
<1>6. QED
  BY <1>5

\* The function that Reservoir() defines: what is kept after each of n points.
KeptBy(n, d, f) ==
  f = [i \in 0 .. n |-> IF i = 0 THEN <<>> ELSE Sampled(f[i - 1], i, d[i])]

KeptAfter(n, d) == (CHOOSE f : KeptBy(n, d, f))[n]

(* What Reservoir() keeps is what the function keeps of all n points. *)
LEMMA ReservoirIs == ASSUME NEW n, NEW d PROVE Reservoir(n, d) = Range(KeptAfter(n, d))
BY DEF Reservoir, KeptAfter, KeptBy

(* Two such functions agree up to where their draws do. *)
LEMMA KeptUnique ==
  ASSUME NEW n \in Nat, NEW m \in 0 .. n, NEW d, NEW e, NEW f, NEW g,
         KeptBy(n, d, f), KeptBy(m, e, g), \A i \in 1 .. m : d[i] = e[i]
  PROVE  \A i \in 0 .. m : f[i] = g[i]
<1> DEFINE B == {i \in 0 .. m : f[i] # g[i]}
<1>1. SUFFICES ASSUME B # {} PROVE FALSE
  OBVIOUS
<1>2. PICK i \in B : i - 1 \notin B
  <2>1. B \in SUBSET Nat
    OBVIOUS
  <2> HIDE DEF B
  <2>2. QED
    BY <1>1, <2>1, LeastOf
<1>3. /\ f[i] = IF i = 0 THEN <<>> ELSE Sampled(f[i - 1], i, d[i])
      /\ g[i] = IF i = 0 THEN <<>> ELSE Sampled(g[i - 1], i, e[i])
  <2>1. i \in 0 .. n /\ i \in 0 .. m
    OBVIOUS
  <2>2. QED
    BY <2>1, Zenon DEF KeptBy
<1>4. i # 0 /\ i - 1 \in 0 .. m /\ i \in 1 .. m
  BY <1>3
<1>5. f[i - 1] = g[i - 1]
  BY <1>2, <1>4
<1>6. QED
  BY <1>3, <1>4, <1>5

(* There is one for any number of points. *)
LEMMA KeptExists == ASSUME NEW n \in Nat, NEW d PROVE \E f : KeptBy(n, d, f)
<1> DEFINE B == {m \in Nat : ~\E f : KeptBy(m, d, f)}
<1>1. SUFFICES ASSUME B # {} PROVE FALSE
  OBVIOUS
<1>2. PICK m \in B : m - 1 \notin B
  <2>1. B \in SUBSET Nat
    OBVIOUS
  <2> HIDE DEF B
  <2>2. QED
    BY <1>1, <2>1, LeastOf
<1>3. CASE m = 0
  <2> DEFINE f == [i \in 0 .. 0 |-> <<>>]
  <2>1. f = [i \in 0 .. 0 |-> IF i = 0 THEN <<>> ELSE Sampled(f[i - 1], i, d[i])]
    OBVIOUS
  <2>2. QED
    BY <2>1, <1>3 DEF KeptBy
<1>4. CASE m # 0
  <2>1. m - 1 \in Nat
    BY <1>4
  <2>2. PICK g : KeptBy(m - 1, d, g)
    BY <2>1, <1>2
  <2> DEFINE f == [i \in 0 .. m |-> IF i = m THEN Sampled(g[m - 1], m, d[m]) ELSE g[i]]
  <2>3. ASSUME NEW i \in 0 .. m
        PROVE  f[i] = IF i = 0 THEN <<>> ELSE Sampled(f[i - 1], i, d[i])
    <3>1. CASE i = m
      <4>1. i - 1 \in 0 .. m /\ i - 1 # m /\ i # 0
        BY <1>4, <3>1
      <4>2. f[i - 1] = g[m - 1]
        BY <3>1, <4>1
      <4>3. QED
        BY <3>1, <4>1, <4>2
    <3>2. CASE i # m
      <4>1. i \in 0 .. m - 1
        BY <3>2
      <4>2. g[i] = IF i = 0 THEN <<>> ELSE Sampled(g[i - 1], i, d[i])
        BY <2>2, <4>1, Zenon DEF KeptBy
      <4>3. CASE i = 0
        BY <3>2, <4>2, <4>3
      <4>4. CASE i # 0
        <5>1. i - 1 \in 0 .. m /\ i - 1 # m
          BY <3>2, <4>4
        <5>2. f[i - 1] = g[i - 1] /\ f[i] = g[i]
          BY <5>1, <3>2
        <5>3. QED
          BY <4>2, <4>4, <5>2
      <4>5. QED
        BY <4>3, <4>4
    <3>3. QED
      BY <3>1, <3>2
  <2>4. f = [i \in 0 .. m |-> IF i = 0 THEN <<>> ELSE Sampled(f[i - 1], i, d[i])]
    BY <2>3, Zenon
  <2>5. QED
    BY <2>4 DEF KeptBy
<1>5. QED
  BY <1>3, <1>4

\* What is kept of n points only depends on the first n draws, and follows from
\* what is kept of one point less.
LEMMA KeptStep ==
  ASSUME NEW n \in Nat, NEW d, NEW e, \A i \in 1 .. n : d[i] = e[i]
  PROVE  /\ KeptAfter(n, d) = KeptAfter(n, e)
         /\ n = 0 => KeptAfter(n, d) = <<>>
         /\ n # 0 => KeptAfter(n, d) = Sampled(KeptAfter(n - 1, e), n, d[n])
<1>1. PICK f : f = CHOOSE x : KeptBy(n, d, x)
  OBVIOUS
<1>2. PICK g : g = CHOOSE x : KeptBy(n, e, x)
  OBVIOUS
<1>3. KeptBy(n, d, f) /\ KeptBy(n, e, g)
  <2>1. \E x : KeptBy(n, d, x)
    BY KeptExists
  <2>2. \E x : KeptBy(n, e, x)
    BY KeptExists
  <2>3. QED
    BY <1>1, <1>2, <2>1, <2>2
<1>4. KeptAfter(n, d) = f[n] /\ KeptAfter(n, e) = g[n]
  BY <1>1, <1>2 DEF KeptAfter
<1>5. f[n] = g[n]
  <2>1. n \in 0 .. n
    OBVIOUS
  <2>2. \A i \in 0 .. n : f[i] = g[i]
    BY <2>1, <1>3, KeptUnique
  <2>3. QED
    BY <2>1, <2>2
<1>6. f[n] = IF n = 0 THEN <<>> ELSE Sampled(f[n - 1], n, d[n])
  <2>1. n \in 0 .. n
    OBVIOUS
  <2>2. QED
    BY <2>1, <1>3, Zenon DEF KeptBy
<1>7. ASSUME n # 0 PROVE f[n - 1] = KeptAfter(n - 1, e)
  <2>1. n - 1 \in Nat /\ n - 1 \in 0 .. n /\ n - 1 \in 0 .. n - 1
    BY <1>7
  <2>2. PICK h : h = CHOOSE x : KeptBy(n - 1, e, x)
    OBVIOUS
  <2>3. KeptBy(n - 1, e, h)
    <3>1. \E x : KeptBy(n - 1, e, x)
      BY <2>1, KeptExists
    <3>2. QED
      BY <2>2, <3>1
  <2>4. \A i \in 1 .. n - 1 : d[i] = e[i]
    OBVIOUS
  <2>5. \A i \in 0 .. n - 1 : f[i] = h[i]
    BY <2>1, <2>3, <2>4, <1>3, KeptUnique
  <2>6. QED
    BY <2>1, <2>2, <2>5 DEF KeptAfter
<1>8. QED
  BY <1>4, <1>5, <1>6, <1>7

\* Of n points, as many are kept as there is room for, and none of them twice.
KeptOf(n, s) ==
  /\ s \in Seq(1 .. n)
  /\ Len(s) = IF n < MaxPoints THEN n ELSE MaxPoints
  /\ \A i, j \in 1 .. Len(s) : s[i] = s[j] => i = j

(* One more point: it takes an empty place, or the place of one kept before, or
   none, so that there are still as many and none is there twice. *)
LEMMA SampledKept ==
  ASSUME NEW n \in Nat \ {0}, NEW s, KeptOf(n - 1, s), NEW j \in Nat
  PROVE  KeptOf(n, Sampled(s, n, j))
<1>1. s \in Seq(1 .. n - 1) /\ s \in Seq(1 .. n) /\ MaxPoints \in Nat \ {0}
  <2>1. s \in Seq(1 .. n - 1)
    BY DEF KeptOf
  <2>2. 1 .. n - 1 \subseteq 1 .. n
    OBVIOUS
  <2>3. QED
    BY <2>1, <2>2, MapAssumption
<1>2. PICK l \in Nat : l = Len(s)
  BY <1>1, LenProperties
<1>3. l = IF n - 1 < MaxPoints THEN n - 1 ELSE MaxPoints
  BY <1>2 DEF KeptOf
<1>4. \A i \in 1 .. l : s[i] \in 1 .. n - 1
  BY <1>1, <1>2, ElementOfSeq
<1>5. \A i, k \in 1 .. l : s[i] = s[k] => i = k
  BY <1>2 DEF KeptOf
<1>6. CASE l < MaxPoints
  <2>1. PICK t : t = Append(s, n)
    OBVIOUS
  <2>2. /\ t \in Seq(1 .. n) /\ Len(t) = l + 1
        /\ \A i \in 1 .. l : t[i] = s[i]
        /\ t[l + 1] = n
    BY <2>1, <1>1, <1>2, AppendProperties
  <2>3. ASSUME NEW i \in 1 .. l + 1, NEW k \in 1 .. l + 1, t[i] = t[k] PROVE i = k
    <3>1. CASE i = l + 1 \/ k = l + 1
      <4>1. \A x \in 1 .. l : t[x] # n
        BY <2>2, <1>4
      <4>2. QED
        BY <3>1, <4>1, <2>2, <2>3
    <3>2. CASE i \in 1 .. l /\ k \in 1 .. l
      BY <3>2, <2>2, <2>3, <1>5
    <3>3. QED
      BY <3>1, <3>2
  <2>4. l + 1 = IF n < MaxPoints THEN n ELSE MaxPoints
    BY <1>1, <1>3, <1>6
  <2>5. Sampled(s, n, j) = t
    BY <2>1, <1>2, <1>6 DEF Sampled
  <2>6. PICK m \in Nat : m = l + 1
    BY <1>2
  <2>7. t \in Seq(1 .. n) /\ Len(t) = m /\ \A i, k \in 1 .. m : t[i] = t[k] => i = k
    BY <2>2, <2>3, <2>6
  <2>8. m = IF n < MaxPoints THEN n ELSE MaxPoints
    BY <2>4, <2>6
  <2>9. QED
    BY <2>5, <2>7, <2>8 DEF KeptOf
<1>7. CASE l = MaxPoints
  <2>1. l = (IF n < MaxPoints THEN n ELSE MaxPoints) /\ n - 1 >= MaxPoints
    BY <1>1, <1>3, <1>7
  <2>2. CASE j < MaxPoints
    <3>1. PICK t : t = [s EXCEPT ![j + 1] = n]
      OBVIOUS
    <3>2. j + 1 \in 1 .. l /\ n \in 1 .. n
      BY <2>2, <1>1, <1>7
    <3>3. /\ t \in Seq(1 .. n) /\ Len(t) = l
          /\ \A i \in 1 .. l : t[i] = IF i = j + 1 THEN n ELSE s[i]
      BY <3>1, <3>2, <1>1, <1>2, ExceptSeq
    <3>4. ASSUME NEW i \in 1 .. l, NEW k \in 1 .. l, t[i] = t[k] PROVE i = k
      <4>1. \A x \in 1 .. l : s[x] # n
        BY <1>4
      <4>2. QED
        BY <3>3, <3>4, <4>1, <1>5
    <3>5. Sampled(s, n, j) = t
      BY <3>1, <2>2, <1>2, <1>7 DEF Sampled
    <3>6. QED
      BY <3>3, <3>4, <3>5, <2>1 DEF KeptOf
  <2>3. CASE ~(j < MaxPoints)
    <3>1. Sampled(s, n, j) = s
      BY <2>3, <1>2, <1>7, <1>1 DEF Sampled
    <3>2. QED
      BY <3>1, <2>1, <1>1, <1>2, <1>5 DEF KeptOf
  <2>4. QED
    BY <2>2, <2>3
<1>8. QED
  BY <1>1, <1>3, <1>6, <1>7

(* So it is after any number of points. *)
LEMMA KeptSpec ==
  ASSUME NEW n \in Nat, NEW d, \A i \in 1 .. n : d[i] \in Nat
  PROVE  KeptOf(n, KeptAfter(n, d))
<1> DEFINE B == {m \in 0 .. n : ~KeptOf(m, KeptAfter(m, d))}
<1>1. SUFFICES ASSUME B # {} PROVE FALSE
  OBVIOUS
<1>2. PICK m \in B : m - 1 \notin B
  <2>1. B \in SUBSET Nat
    OBVIOUS
  <2> HIDE DEF B
  <2>2. QED
    BY <1>1, <2>1, LeastOf
<1>3. m \in Nat /\ m \in 0 .. n
  OBVIOUS
<1>4. CASE m = 0
  <2>1. KeptAfter(m, d) = <<>>
    BY <1>3, <1>4, KeptStep
  <2>2. KeptOf(0, <<>>)
    BY MapAssumption, EmptySeq DEF KeptOf
  <2>3. QED
    BY <2>1, <2>2, <1>4
<1>5. CASE m # 0
  <2>1. PICK s : s = KeptAfter(m - 1, d)
    OBVIOUS
  <2>2. KeptOf(m - 1, s)
    BY <2>1, <1>2, <1>3, <1>5
  <2>3. KeptAfter(m, d) = Sampled(s, m, d[m])
    BY <2>1, <1>3, <1>5, KeptStep
  <2>4. d[m] \in Nat /\ m \in Nat \ {0}
    BY <1>3, <1>5
  <2>5. QED
    BY <2>2, <2>3, <2>4, SampledKept
<1>6. QED
  BY <1>4, <1>5

\* The draws for n points; what they keep; and in how many ways a set is kept.
DrawsFor(n) == {d \in [1 .. n -> 0 .. n] : \A i \in 1 .. n : d[i] \in Draws(i)}
Keeping(n, kept) == {d \in DrawsFor(n) : Range(KeptAfter(n, d)) = kept}

Cut(n, d) == [i \in 1 .. n - 1 |-> d[i]]
Extended(n, e, j) == [i \in 1 .. n |-> IF i = n THEN j ELSE e[i]]

(* Finitely many draws are possible. *)
LEMMA DrawsFinite == ASSUME NEW n \in Nat PROVE IsFiniteSet(DrawsFor(n))
<1> DEFINE T == SUBSET ((1 .. n) \X (0 .. n))
           graph == [d \in DrawsFor(n) |-> {<<i, d[i]>> : i \in 1 .. n}]
<1>1. IsFiniteSet(T)
  <2>1. IsFiniteSet(1 .. n) /\ IsFiniteSet(0 .. n)
    BY FS_Interval
  <2>2. IsFiniteSet((1 .. n) \X (0 .. n))
    BY <2>1, FS_Product
  <2>3. QED
    BY <2>2, FS_SUBSET
<1>2. graph \in [DrawsFor(n) -> T]
  BY DEF DrawsFor
<1>3. ASSUME NEW d \in DrawsFor(n), NEW e \in DrawsFor(n), graph[d] = graph[e]
      PROVE  d = e
  <2>1. d \in [1 .. n -> 0 .. n] /\ e \in [1 .. n -> 0 .. n]
    BY DEF DrawsFor
  <2>2. ASSUME NEW i \in 1 .. n PROVE d[i] = e[i]
    <3>1. <<i, d[i]>> \in graph[d]
      OBVIOUS
    <3>2. PICK k \in 1 .. n : <<i, d[i]>> = <<k, e[k]>>
      BY <3>1, <1>3
    <3>3. QED
      BY <3>2
  <2>3. QED
    BY <2>1, <2>2
<1> HIDE DEF T, graph
<1>4. graph \in Injection(DrawsFor(n), T)
  BY <1>2, <1>3 DEF Injection, IsInjective
<1>5. QED
  BY <1>1, <1>4, FS_Injection

\* The draws for n points are those for one point less, and one more.
LEMMA DrawsSplit ==
  ASSUME NEW n \in Nat \ {0}, NEW d \in DrawsFor(n)
  PROVE  /\ Cut(n, d) \in DrawsFor(n - 1) /\ d[n] \in 0 .. n - 1
         /\ d = Extended(n, Cut(n, d), d[n])
         /\ KeptAfter(n, d) = Sampled(KeptAfter(n - 1, Cut(n, d)), n, d[n])
<1>1. d \in [1 .. n -> 0 .. n] /\ \A i \in 1 .. n : d[i] \in 0 .. i - 1
  BY DEF DrawsFor, Draws
<1>2. PICK e : e = Cut(n, d)
  OBVIOUS
<1>3. e = [i \in 1 .. n - 1 |-> d[i]] /\ \A i \in 1 .. n - 1 : e[i] = d[i]
  BY <1>2 DEF Cut
<1>4. \A i \in 1 .. n - 1 : i \in 1 .. n /\ d[i] \in 0 .. i - 1 /\ d[i] \in 0 .. n - 1
  BY <1>1
<1>5. e \in DrawsFor(n - 1)
  BY <1>3, <1>4 DEF DrawsFor, Draws
<1>6. n \in 1 .. n /\ d[n] \in 0 .. n - 1
  BY <1>1
<1>7. d = Extended(n, e, d[n])
  <2>1. d = [i \in 1 .. n |-> d[i]]
    BY <1>1
  <2>2. \A i \in 1 .. n : d[i] = IF i = n THEN d[n] ELSE e[i]
    BY <1>3
  <2>3. QED
    BY <2>1, <2>2, Zenon DEF Extended
<1>8. KeptAfter(n, d) = Sampled(KeptAfter(n - 1, e), n, d[n])
  <2>1. KeptAfter(n, d) = Sampled(KeptAfter(n - 1, d), n, d[n])
    BY KeptStep
  <2>2. n - 1 \in Nat /\ \A i \in 1 .. n - 1 : d[i] = e[i]
    BY <1>3
  <2>3. KeptAfter(n - 1, d) = KeptAfter(n - 1, e)
    BY <2>2, KeptStep
  <2>4. QED
    BY <2>1, <2>3
<1>9. QED
  BY <1>2, <1>5, <1>6, <1>7, <1>8

(* And one more draw can be any in its range, whatever those before. *)
LEMMA DrawsExtended ==
  ASSUME NEW n \in Nat \ {0}, NEW e \in DrawsFor(n - 1), NEW j \in 0 .. n - 1
  PROVE  /\ Extended(n, e, j) \in DrawsFor(n)
         /\ Cut(n, Extended(n, e, j)) = e /\ Extended(n, e, j)[n] = j
         /\ KeptAfter(n, Extended(n, e, j)) = Sampled(KeptAfter(n - 1, e), n, j)
<1>1. e \in [1 .. n - 1 -> 0 .. n - 1] /\ \A i \in 1 .. n - 1 : e[i] \in 0 .. i - 1
  BY DEF DrawsFor, Draws
<1>2. PICK d : d = Extended(n, e, j)
  OBVIOUS
<1>3. d = [i \in 1 .. n |-> IF i = n THEN j ELSE e[i]]
  BY <1>2 DEF Extended
<1>4. \A i \in 1 .. n : d[i] = IF i = n THEN j ELSE e[i]
  BY <1>3
<1>5. \A i \in 1 .. n : d[i] \in 0 .. i - 1 /\ d[i] \in 0 .. n
  BY <1>1, <1>4
<1>6. d \in DrawsFor(n)
  BY <1>3, <1>5 DEF DrawsFor, Draws
<1>7. d[n] = j
  BY <1>4
<1>8. Cut(n, d) = e
  <2>1. \A i \in 1 .. n - 1 : d[i] = e[i]
    BY <1>4
  <2>2. e = [i \in 1 .. n - 1 |-> e[i]]
    BY <1>1
  <2>3. QED
    BY <2>1, <2>2 DEF Cut
<1>9. KeptAfter(n, d) = Sampled(KeptAfter(n - 1, e), n, j)
  BY <1>6, <1>7, <1>8, DrawsSplit
<1>10. QED
  BY <1>2, <1>6, <1>7, <1>8, <1>9

(* What the draws keep has the right number of points, none twice. *)
LEMMA DrawsKept ==
  ASSUME NEW n \in Nat, NEW d \in DrawsFor(n)
  PROVE  KeptOf(n, KeptAfter(n, d))
<1>1. \A i \in 1 .. n : d[i] \in Nat
  BY DEF DrawsFor
<1>2. QED
  BY <1>1, KeptSpec

(* What a function maps onto, one to one, has the size of its domain. *)
LEMMA SameSize ==
  ASSUME NEW S, IsFiniteSet(S), NEW T, NEW h \in [S -> T],
         \A a, b \in S : h[a] = h[b] => a = b,
         \A t \in T : \E a \in S : h[a] = t
  PROVE  IsFiniteSet(T) /\ Cardinality(T) = Cardinality(S)
<1>1. h \in Injection(S, T) /\ h \in Surjection(S, T)
  BY DEF Injection, IsInjective, Surjection
<1>2. ExistsBijection(S, T)
  BY <1>1 DEF ExistsBijection, Bijection
<1>3. QED
  BY <1>2, FS_Bijection

\* What a draw makes of a full reservoir.
LEMMA FullSampled ==
  ASSUME NEW n \in Nat \ {0}, n > MaxPoints, NEW s, KeptOf(n - 1, s), NEW j \in 0 .. n - 1
  PROVE  /\ s \in Seq(1 .. n - 1) /\ Len(s) = MaxPoints
         /\ Range(s) \subseteq 1 .. n - 1 /\ n \notin Range(s)
         /\ j >= MaxPoints => Sampled(s, n, j) = s
         /\ j < MaxPoints =>
              /\ j + 1 \in 1 .. MaxPoints /\ s[j + 1] \in Range(s)
              /\ Range(Sampled(s, n, j)) = (Range(s) \ {s[j + 1]}) \cup {n}
<1>1. s \in Seq(1 .. n - 1) /\ Len(s) = MaxPoints /\ MaxPoints \in Nat \ {0}
  BY MapAssumption DEF KeptOf
<1>2. \A i \in 1 .. MaxPoints : s[i] \in 1 .. n - 1
  BY <1>1, ElementOfSeq
<1>3. DOMAIN s = 1 .. MaxPoints
  BY <1>1, LenProperties
<1>4. Range(s) \subseteq 1 .. n - 1 /\ n \notin Range(s)
  BY <1>2, <1>3 DEF Range
<1>5. j >= MaxPoints => Sampled(s, n, j) = s
  BY <1>1 DEF Sampled
<1>6. ASSUME j < MaxPoints
      PROVE  /\ j + 1 \in 1 .. MaxPoints /\ s[j + 1] \in Range(s)
             /\ Range(Sampled(s, n, j)) = (Range(s) \ {s[j + 1]}) \cup {n}
  <2>1. PICK t : t = [s EXCEPT ![j + 1] = n]
    OBVIOUS
  <2>2. j + 1 \in 1 .. MaxPoints
    BY <1>1, <1>6
  <2>3. s \in Seq(1 .. n) /\ n \in 1 .. n
    BY <1>1
  <2>4. /\ t \in Seq(1 .. n) /\ Len(t) = MaxPoints
        /\ \A i \in 1 .. MaxPoints : t[i] = IF i = j + 1 THEN n ELSE s[i]
    BY <1>1, <2>1, <2>2, <2>3, ExceptSeq
  <2>5. DOMAIN t = 1 .. MaxPoints
    BY <2>4, LenProperties
  <2>6. Sampled(s, n, j) = t
    BY <1>1, <1>6, <2>1 DEF Sampled
  <2>7. \A i, k \in 1 .. MaxPoints : s[i] = s[k] => i = k
    BY <1>1 DEF KeptOf
  <2>8. Range(t) = (Range(s) \ {s[j + 1]}) \cup {n}
    <3>1. ASSUME NEW x \in Range(t) PROVE x \in (Range(s) \ {s[j + 1]}) \cup {n}
      <4>1. PICK i \in 1 .. MaxPoints : x = t[i]
        BY <2>5 DEF Range
      <4>2. CASE i = j + 1
        BY <4>1, <4>2, <2>4
      <4>3. CASE i # j + 1
        <5>1. x = s[i] /\ s[i] # s[j + 1]
          BY <4>1, <4>3, <2>2, <2>4, <2>7
        <5>2. s[i] \in Range(s)
          BY <1>3 DEF Range
        <5>3. QED
          BY <5>1, <5>2
      <4>4. QED
        BY <4>2, <4>3
    <3>2. n \in Range(t)
      <4>1. t[j + 1] = n
        BY <2>2, <2>4
      <4>2. QED
        BY <4>1, <2>2, <2>5 DEF Range
    <3>3. ASSUME NEW x \in Range(s), x # s[j + 1] PROVE x \in Range(t)
      <4>1. PICK i \in 1 .. MaxPoints : x = s[i]
        BY <1>3 DEF Range
      <4>2. t[i] = x
        BY <4>1, <3>3, <2>4
      <4>3. QED
        BY <4>2, <2>5 DEF Range
    <3>4. QED
      BY <3>1, <3>2, <3>3
  <2>9. s[j + 1] \in Range(s)
    BY <1>3, <2>2 DEF Range
  <2>10. QED
    BY <2>2, <2>6, <2>8, <2>9
<1>7. QED
  BY <1>1, <1>4, <1>5, <1>6

\* A set without the last point is kept when it was kept before, and the draw is
\* past the reservoir: in n - MaxPoints ways each.
LEMMA WaysWithoutLast ==
  ASSUME NEW n \in Nat \ {0}, n > MaxPoints, NEW K, n \notin K
  PROVE  Cardinality(Keeping(n, K)) = Cardinality(Keeping(n - 1, K)) * (n - MaxPoints)
<1>1. PICK S : S = Keeping(n - 1, K)
  OBVIOUS
<1>2. PICK J : J = MaxPoints .. n - 1
  OBVIOUS
<1>3. MaxPoints \in Nat /\ n - 1 \in Nat /\ IsFiniteSet(J) /\ Cardinality(J) = n - MaxPoints
  BY <1>2, MapAssumption, FS_Interval
<1>4. IsFiniteSet(S) /\ Cardinality(S) \in Nat
  <2>1. S \subseteq DrawsFor(n - 1)
    BY <1>1 DEF Keeping
  <2>2. QED
    BY <2>1, <1>3, DrawsFinite, FS_Subset, FS_CardinalityType
<1>5. IsFiniteSet(S \X J) /\ Cardinality(S \X J) = Cardinality(S) * Cardinality(J)
  BY <1>3, <1>4, FS_Product
<1>6. ASSUME NEW e \in S, NEW j \in J
      PROVE  /\ Extended(n, e, j) \in Keeping(n, K)
             /\ Cut(n, Extended(n, e, j)) = e /\ Extended(n, e, j)[n] = j
  <2>1. e \in DrawsFor(n - 1) /\ Range(KeptAfter(n - 1, e)) = K /\ j \in 0 .. n - 1
    BY <1>1, <1>2, <1>3 DEF Keeping
  <2>2. KeptOf(n - 1, KeptAfter(n - 1, e))
    BY <2>1, <1>3, DrawsKept
  <2>3. Sampled(KeptAfter(n - 1, e), n, j) = KeptAfter(n - 1, e)
    BY <2>1, <2>2, <1>2, <1>3, FullSampled
  <2>4. QED
    BY <2>1, <2>3, DrawsExtended DEF Keeping
<1>7. ASSUME NEW d \in Keeping(n, K)
      PROVE  Cut(n, d) \in S /\ d[n] \in J /\ d = Extended(n, Cut(n, d), d[n])
  <2>1. d \in DrawsFor(n) /\ Range(KeptAfter(n, d)) = K
    BY DEF Keeping
  <2>2. PICK s : s = KeptAfter(n - 1, Cut(n, d))
    OBVIOUS
  <2>3. PICK j : j = d[n]
    OBVIOUS
  <2>4. /\ Cut(n, d) \in DrawsFor(n - 1) /\ j \in 0 .. n - 1
        /\ d = Extended(n, Cut(n, d), j) /\ Range(Sampled(s, n, j)) = K
    BY <2>1, <2>2, <2>3, DrawsSplit
  <2>5. KeptOf(n - 1, s)
    BY <2>2, <2>4, <1>3, DrawsKept
  <2>6. ~(j < MaxPoints)
    <3>1. SUFFICES ASSUME j < MaxPoints PROVE FALSE
      OBVIOUS
    <3>2. Range(Sampled(s, n, j)) = (Range(s) \ {s[j + 1]}) \cup {n}
      BY <2>4, <2>5, <3>1, FullSampled
    <3>3. QED
      BY <2>4, <3>2
  <2>7. j >= MaxPoints /\ j \in J
    BY <2>4, <2>6, <1>2, <1>3
  <2>8. Range(s) = K
    BY <2>4, <2>5, <2>7, FullSampled
  <2>9. QED
    BY <2>2, <2>3, <2>4, <2>7, <2>8, <1>1 DEF Keeping
<1> DEFINE h == [x \in S \X J |-> Extended(n, x[1], x[2])]
<1>8. h \in [S \X J -> Keeping(n, K)]
  BY <1>6
<1>9. ASSUME NEW a \in S \X J, NEW b \in S \X J, h[a] = h[b] PROVE a = b
  <2>1. /\ Cut(n, h[a]) = a[1] /\ h[a][n] = a[2]
        /\ Cut(n, h[b]) = b[1] /\ h[b][n] = b[2]
    BY <1>6
  <2> HIDE DEF h
  <2>2. a[1] = b[1] /\ a[2] = b[2]
    BY <1>9, <2>1
  <2>3. QED
    BY <2>2
<1>10. ASSUME NEW d \in Keeping(n, K) PROVE \E a \in S \X J : h[a] = d
  <2>1. <<Cut(n, d), d[n]>> \in S \X J
    BY <1>7
  <2>2. h[<<Cut(n, d), d[n]>>] = d
    BY <2>1, <1>7
  <2>3. QED
    BY <2>1, <2>2
<1> HIDE DEF h
<1>11. Cardinality(Keeping(n, K)) = Cardinality(S \X J)
  BY <1>5, <1>8, <1>9, <1>10, SameSize
<1>12. QED
  BY <1>1, <1>3, <1>5, <1>11

\* A set with the last point is kept when it replaced one of those kept before:
\* the other points of the set, and one of the n - MaxPoints that are not in it.
LEMMA WaysWithLast ==
  ASSUME NEW n \in Nat \ {0}, n > MaxPoints,
         NEW K \in SUBSET (1 .. n), Cardinality(K) = MaxPoints, n \in K,
         NEW c \in Nat,
         \A x \in (1 .. n - 1) \ K :
           Cardinality(Keeping(n - 1, (K \ {n}) \cup {x})) = c
  PROVE  Cardinality(Keeping(n, K)) = c * (n - MaxPoints)
<1>1. PICK K0 : K0 = K \ {n}
  OBVIOUS
<1>2. PICK X : X = (1 .. n - 1) \ K0
  OBVIOUS
<1>3. MaxPoints \in Nat \ {0} /\ n - 1 \in Nat /\ K0 \subseteq 1 .. n - 1
  BY <1>1, MapAssumption
<1>4. IsFiniteSet(X) /\ Cardinality(X) = n - MaxPoints
  <2>1. IsFiniteSet(1 .. n - 1) /\ Cardinality(1 .. n - 1) = n - 1
    <3>1. PICK N \in Nat : N = n - 1
      BY <1>3
    <3>2. IsFiniteSet(1 .. N) /\ Cardinality(1 .. N) = (IF 1 > N THEN 0 ELSE N - 1 + 1)
      BY FS_Interval
    <3>3. (IF 1 > N THEN 0 ELSE N - 1 + 1) = N
      OBVIOUS
    <3>4. QED
      BY <3>1, <3>2, <3>3
  <2>2. IsFiniteSet(K)
    <3>1. IsFiniteSet(1 .. n)
      BY FS_Interval
    <3>2. QED
      BY <3>1, FS_Subset
  <2>3. Cardinality(K0) = MaxPoints - 1
    BY <1>1, <2>2, FS_RemoveElement
  <2>4. IsFiniteSet(X) /\ Cardinality(X) = n - 1 - Cardinality((1 .. n - 1) \cap K0)
    BY <1>2, <2>1, FS_Difference
  <2>5. (1 .. n - 1) \cap K0 = K0
    BY <1>3
  <2>6. Cardinality(X) = n - 1 - (MaxPoints - 1)
    BY <2>3, <2>4, <2>5
  <2>7. n - 1 - (MaxPoints - 1) = n - MaxPoints
    BY <1>3
  <2>8. QED
    BY <2>4, <2>6, <2>7
<1>5. PICK C : C = 1 .. c
  OBVIOUS
<1>6. IsFiniteSet(C) /\ Cardinality(C) = c
  BY <1>5, FS_Interval
<1>7. IsFiniteSet(X \X C) /\ Cardinality(X \X C) = (n - MaxPoints) * c
  BY <1>4, <1>6, FS_Product
<1> DEFINE Of(x) == Keeping(n - 1, K0 \cup {x})
           B == [x \in X |-> CHOOSE b : /\ b \in [C -> Of(x)]
                                        /\ \A i, k \in C : b[i] = b[k] => i = k
                                        /\ \A e \in Of(x) : \E k \in C : b[k] = e]
<1>8. ASSUME NEW x \in X
      PROVE  /\ B[x] \in [C -> Of(x)]
             /\ \A i, k \in C : B[x][i] = B[x][k] => i = k
             /\ \A e \in Of(x) : \E k \in C : B[x][k] = e
  <2>1. Cardinality(Of(x)) = c
    BY <1>1, <1>2
  <2>2. IsFiniteSet(Of(x))
    <3>1. Of(x) \subseteq DrawsFor(n - 1)
      BY DEF Keeping
    <3> HIDE DEF Of
    <3>2. QED
      BY <3>1, <1>3, DrawsFinite, FS_Subset
  <2>3. PICK T : T = Of(x)
    OBVIOUS
  <2> HIDE DEF Of
  <2>4. \E b : b \in Bijection(C, T)
    BY <2>1, <2>2, <2>3, <1>6, FS_SameCardinalityBij DEF ExistsBijection
  <2>5. \E b : /\ b \in [C -> T]
               /\ \A i, k \in C : b[i] = b[k] => i = k
               /\ \A e \in T : \E k \in C : b[k] = e
    BY <2>4 DEF Bijection, Injection, IsInjective, Surjection
  <2>6. QED
    BY <2>3, <2>5
<1> HIDE DEF B
<1> DEFINE Kept(e) == KeptAfter(n - 1, e)
           At(e, x) == CHOOSE j \in 0 .. MaxPoints - 1 : Kept(e)[j + 1] = x
           h == [a \in X \X C |-> Extended(n, B[a[1]][a[2]], At(B[a[1]][a[2]], a[1]))]
    (* A draw before that keeps a set Of(x), and the position of x in it. *)
<1>9. ASSUME NEW x \in X, NEW e \in Of(x)
      PROVE  /\ e \in DrawsFor(n - 1) /\ Range(Kept(e)) = K0 \cup {x} /\ x \notin K0
             /\ At(e, x) \in 0 .. MaxPoints - 1 /\ Kept(e)[At(e, x) + 1] = x
             /\ \A j \in 0 .. MaxPoints - 1 : Kept(e)[j + 1] = x => j = At(e, x)
  <2>1. e \in DrawsFor(n - 1) /\ Range(Kept(e)) = K0 \cup {x} /\ x \notin K0
    BY <1>2 DEF Keeping
  <2>2. PICK s : s = Kept(e)
    OBVIOUS
  <2>3. KeptOf(n - 1, s)
    BY <2>1, <2>2, <1>3, DrawsKept
  <2>4. s \in Seq(1 .. n - 1) /\ Len(s) = MaxPoints
    BY <2>3, <1>3 DEF KeptOf
  <2>5. x \in Range(s) /\ DOMAIN s = 1 .. MaxPoints
    BY <2>1, <2>2, <2>4, LenProperties
  <2>6. PICK i \in 1 .. MaxPoints : s[i] = x
    BY <2>5 DEF Range
  <2>7. i - 1 \in 0 .. MaxPoints - 1 /\ s[(i - 1) + 1] = x
    BY <2>6, <1>3
  <2>8. At(e, x) \in 0 .. MaxPoints - 1 /\ s[At(e, x) + 1] = x
    BY <2>2, <2>7
  <2> HIDE DEF At
  <2>9. ASSUME NEW j \in 0 .. MaxPoints - 1, s[j + 1] = x PROVE j = At(e, x)
    <3>1. PICK k \in 0 .. MaxPoints - 1 : k = At(e, x)
      BY <2>8
    <3>2. j + 1 \in 1 .. Len(s) /\ k + 1 \in 1 .. Len(s) /\ s[j + 1] = s[k + 1]
      BY <2>4, <2>8, <2>9, <3>1, <1>3
    <3>3. j + 1 = k + 1
      BY <3>2, <2>3 DEF KeptOf
    <3>4. QED
      BY <3>1, <3>3
  <2>10. QED
    BY <2>1, <2>2, <2>8, <2>9
<1> HIDE DEF At
<1>10. ASSUME NEW x \in X, NEW e \in Of(x)
       PROVE  /\ Extended(n, e, At(e, x)) \in Keeping(n, K)
              /\ Cut(n, Extended(n, e, At(e, x))) = e
  <2>1. PICK j : j = At(e, x)
    OBVIOUS
  <2>2. PICK s : s = Kept(e)
    OBVIOUS
  <2>3. /\ e \in DrawsFor(n - 1) /\ Range(s) = K0 \cup {x} /\ x \notin K0
        /\ j \in 0 .. MaxPoints - 1 /\ s[j + 1] = x
    BY <2>1, <2>2, <1>9
  <2>4. KeptOf(n - 1, s) /\ j \in 0 .. n - 1 /\ j < MaxPoints
    BY <2>2, <2>3, <1>3, DrawsKept
  <2>5. Range(Sampled(s, n, j)) = (Range(s) \ {s[j + 1]}) \cup {n}
    BY <2>4, FullSampled
  <2>6. Range(Sampled(s, n, j)) = K
    BY <2>3, <2>5, <1>1
  <2>7. QED
    BY <2>1, <2>2, <2>3, <2>4, <2>6, DrawsExtended DEF Keeping
<1>11. ASSUME NEW d \in Keeping(n, K)
       PROVE  \E x \in X : Cut(n, d) \in Of(x) /\ d = Extended(n, Cut(n, d), At(Cut(n, d), x))
  <2>1. d \in DrawsFor(n) /\ Range(KeptAfter(n, d)) = K
    BY DEF Keeping
  <2>2. PICK e : e = Cut(n, d)
    OBVIOUS
  <2>3. PICK j : j = d[n]
    OBVIOUS
  <2>4. PICK s : s = Kept(e)
    OBVIOUS
  <2>5. /\ e \in DrawsFor(n - 1) /\ j \in 0 .. n - 1
        /\ d = Extended(n, e, j) /\ Range(Sampled(s, n, j)) = K
    BY <2>1, <2>2, <2>3, <2>4, DrawsSplit
  <2>6. KeptOf(n - 1, s)
    BY <2>4, <2>5, <1>3, DrawsKept
  <2>7. n \notin Range(s) /\ Range(s) \subseteq 1 .. n - 1
    BY <2>5, <2>6, FullSampled
  <2>8. j < MaxPoints
    <3>1. SUFFICES ASSUME ~(j < MaxPoints) PROVE FALSE
      OBVIOUS
    <3>2. j >= MaxPoints
      BY <3>1, <2>5, <1>3
    <3>3. Sampled(s, n, j) = s
      BY <3>2, <2>5, <2>6, FullSampled
    <3>4. QED
      BY <3>3, <2>5, <2>7
  <2>9. PICK x : x = s[j + 1]
    OBVIOUS
  <2>10. x \in Range(s) /\ K = (Range(s) \ {x}) \cup {n}
    BY <2>5, <2>6, <2>8, <2>9, FullSampled
  <2>11. K0 = Range(s) \ {x} /\ x \in X /\ Range(s) = K0 \cup {x}
    BY <2>7, <2>10, <1>1, <1>2
  <2>12. e \in Of(x)
    BY <2>4, <2>5, <2>11 DEF Keeping
  <2>13. j = At(e, x)
    <3>1. j \in 0 .. MaxPoints - 1 /\ Kept(e)[j + 1] = x
      BY <2>4, <2>5, <2>8, <2>9, <1>3
    <3>2. QED
      BY <3>1, <2>11, <2>12, <1>9
  <2>14. QED
    BY <2>2, <2>5, <2>11, <2>12, <2>13
<1>12. ASSUME NEW a \in X \X C
       PROVE  /\ a[1] \in X /\ a[2] \in C /\ B[a[1]][a[2]] \in Of(a[1])
              /\ h[a] \in Keeping(n, K) /\ Cut(n, h[a]) = B[a[1]][a[2]]
  <2>1. a[1] \in X /\ a[2] \in C
    OBVIOUS
  <2>2. B[a[1]][a[2]] \in Of(a[1])
    <3> HIDE DEF Of
    <3> QED BY <2>1, <1>8
  <2>3. PICK e : e = B[a[1]][a[2]]
    OBVIOUS
  <2>4. h[a] = Extended(n, e, At(e, a[1])) /\ e \in Of(a[1])
    BY <2>2, <2>3
  <2> HIDE DEF h, Of
  <2>5. QED
    BY <2>1, <2>3, <2>4, <1>10
<1>13. ASSUME NEW a \in X \X C, NEW b \in X \X C, h[a] = h[b] PROVE a = b
  <2>1. PICK x \in X, k \in C : a = <<x, k>>
    OBVIOUS
  <2>2. PICK y \in X, m \in C : b = <<y, m>>
    OBVIOUS
  <2>3. B[x][k] = B[y][m] /\ B[x][k] \in Of(x) /\ B[y][m] \in Of(y)
    <3> HIDE DEF h, Of
    <3> QED BY <1>12, <1>13, <2>1, <2>2
  <2>4. PICK e : e = B[x][k]
    OBVIOUS
  <2>5. K0 \cup {x} = K0 \cup {y} /\ x \notin K0 /\ y \notin K0
    <3>1. e \in Of(x) /\ e \in Of(y)
      BY <2>3, <2>4
    <3> HIDE DEF Of
    <3>2. QED
      BY <3>1, <1>9
  <2>6. x = y
    BY <2>5
  <2>7. k = m
    <3> HIDE DEF Of
    <3> QED BY <2>3, <2>6, <1>8
  <2>8. QED
    BY <2>1, <2>2, <2>6, <2>7
<1>14. ASSUME NEW d \in Keeping(n, K) PROVE \E a \in X \X C : h[a] = d
  <2>1. PICK e : e = Cut(n, d)
    OBVIOUS
  <2>2. PICK x \in X : e \in Of(x) /\ d = Extended(n, e, At(e, x))
    BY <2>1, <1>11
  <2>3. PICK k \in C : B[x][k] = e
    <3> HIDE DEF Of
    <3> QED BY <2>2, <1>8
  <2>4. <<x, k>> \in X \X C /\ h[<<x, k>>] = Extended(n, B[x][k], At(B[x][k], x))
    OBVIOUS
  <2>5. QED
    BY <2>2, <2>3, <2>4
<1>15. h \in [X \X C -> Keeping(n, K)]
  BY <1>12
<1> HIDE DEF h
<1>16. Cardinality(Keeping(n, K)) = Cardinality(X \X C)
  BY <1>7, <1>13, <1>14, <1>15, SameSize
<1>17. QED
  BY <1>7, <1>16, <1>3

(* The smaller of two numbers. *)
LEMMA LeastOfTwo ==
  ASSUME NEW a \in Nat, NEW b \in Nat
  PROVE  Min({a, b}) = IF a < b THEN a ELSE b
BY DEF Min

(* A set is kept in finitely many ways. *)
LEMMA KeepingCount == ASSUME NEW n \in Nat, NEW K PROVE Cardinality(Keeping(n, K)) \in Nat
<1>1. Keeping(n, K) \subseteq DrawsFor(n)
  BY DEF Keeping
<1>2. PICK S : S = Keeping(n, K)
  OBVIOUS
<1>3. IsFiniteSet(S)
  BY <1>1, <1>2, DrawsFinite, FS_Subset
<1>4. QED
  BY <1>2, <1>3, FS_CardinalityType

\* How many of n points are kept.
Room(n) == IF n < MaxPoints THEN n ELSE MaxPoints

\* The sets that can be kept of n points are all kept in as many ways.
Uniform(n) ==
  \E c \in Nat : \A K \in SUBSET (1 .. n) :
    Cardinality(K) = Room(n) => Cardinality(Keeping(n, K)) = c

(* Sampled uniformly whatever their number: by the two counts above, from one
   point less; while the reservoir is not full, all points are kept. *)
LEMMA UniformAlways == ASSUME NEW n \in Nat \ {0} PROVE Uniform(n)
<1> DEFINE Z == {m \in Nat \ {0} : ~Uniform(m)}
<1>1. SUFFICES ASSUME Z # {} PROVE FALSE
  OBVIOUS
<1>2. PICK m \in Z : m - 1 \notin Z
  <2>1. Z \in SUBSET Nat
    OBVIOUS
  <2> HIDE DEF Z
  <2>2. QED
    BY <1>1, <2>1, LeastOf
<1>3. m \in Nat \ {0} /\ ~Uniform(m) /\ MaxPoints \in Nat \ {0}
  BY MapAssumption
<1>4. CASE m <= MaxPoints
  <2>1. Room(m) = m
    BY <1>3, <1>4 DEF Room
  <2>2. PICK S : S = 1 .. m
    OBVIOUS
  <2>3. IsFiniteSet(S) /\ Cardinality(S) = m
    BY <2>2, <1>3, FS_Interval
  <2>4. ASSUME NEW K \in SUBSET (1 .. m), Cardinality(K) = m PROVE K = S
    <3>1. K \in SUBSET S
      BY <2>2
    <3>2. QED
      BY <3>1, <2>3, <2>4, FS_Subset
  <2>5. Cardinality(Keeping(m, S)) \in Nat
    BY <1>3, KeepingCount
  <2>6. Uniform(m)
    BY <2>1, <2>4, <2>5 DEF Uniform
  <2>7. QED
    BY <2>6, <1>3
<1>5. CASE ~(m <= MaxPoints)
  <2>1. m > MaxPoints /\ m - 1 \in Nat \ {0} /\ Room(m) = MaxPoints /\ Room(m - 1) = MaxPoints
    BY <1>3, <1>5 DEF Room
  <2>2. Uniform(m - 1)
    BY <2>1, <1>2
  <2>3. PICK c \in Nat : \A K \in SUBSET (1 .. m - 1) :
          Cardinality(K) = MaxPoints => Cardinality(Keeping(m - 1, K)) = c
    BY <2>1, <2>2 DEF Uniform
  <2>4. ASSUME NEW K \in SUBSET (1 .. m), Cardinality(K) = MaxPoints
        PROVE  Cardinality(Keeping(m, K)) = c * (m - MaxPoints)
    <3>1. CASE m \notin K
      <4>1. K \in SUBSET (1 .. m - 1)
        BY <3>1, <1>3
      <4>2. Cardinality(Keeping(m - 1, K)) = c
        BY <4>1, <2>3, <2>4
      <4>3. Cardinality(Keeping(m, K)) = Cardinality(Keeping(m - 1, K)) * (m - MaxPoints)
        BY <3>1, <2>1, <1>3, WaysWithoutLast
      <4>4. QED
        BY <4>2, <4>3
    <3>2. CASE m \in K
      <4>1. IsFiniteSet(K)
        <5>1. PICK S : S = 1 .. m
          OBVIOUS
        <5>2. IsFiniteSet(S) /\ K \in SUBSET S
          BY <5>1, <1>3, FS_Interval
        <5>3. QED
          BY <5>2, FS_Subset
      <4>2. PICK L : L = K \ {m}
        OBVIOUS
      <4>3. IsFiniteSet(L) /\ Cardinality(L) = MaxPoints - 1 /\ L \subseteq 1 .. m - 1
        <5>1. IsFiniteSet(L) /\ Cardinality(L) = Cardinality(K) - 1
          BY <3>2, <4>1, <4>2, FS_RemoveElement
        <5>2. L \subseteq 1 .. m - 1
          BY <4>2, <1>3
        <5>3. QED
          BY <5>1, <5>2, <2>4
      <4>4. ASSUME NEW x \in (1 .. m - 1) \ K
            PROVE  Cardinality(Keeping(m - 1, (K \ {m}) \cup {x})) = c
        <5>1. PICK T : T = L \cup {x}
          OBVIOUS
        <5>2. x \notin L
          BY <4>2
        <5>3. Cardinality(T) = Cardinality(L) + 1
          BY <4>3, <5>1, <5>2, FS_AddElement
        <5>4. Cardinality(T) = MaxPoints - 1 + 1
          BY <4>3, <5>3
        <5>5. MaxPoints - 1 + 1 = MaxPoints
          BY <1>3
        <5>6. T \in SUBSET (1 .. m - 1)
          BY <4>3, <5>1
        <5>7. Cardinality(Keeping(m - 1, T)) = c
          BY <5>4, <5>5, <5>6, <2>3
        <5>8. QED
          BY <5>1, <5>7, <4>2
      <4>5. QED
        BY <3>2, <4>4, <2>1, <2>4, <1>3, WaysWithLast
    <3>3. QED
      BY <3>1, <3>2
  <2>5. c * (m - MaxPoints) \in Nat
    <3>1. PICK w \in Nat : w = m - MaxPoints
      BY <2>1, <1>3
    <3>2. c * w \in Nat
      OBVIOUS
    <3>3. QED
      BY <3>1, <3>2
  <2>6. Uniform(m)
    BY <2>1, <2>4, <2>5 DEF Uniform
  <2>7. QED
    BY <2>6, <1>3
<1>6. QED
  BY <1>4, <1>5

(* In terms of Ways: the counts of the sets that can be kept are one number. *)
LEMMA WaysUniform ==
  ASSUME NEW n \in 1 .. MaxSeen
  PROVE  Cardinality(Range(Ways[n])) = 1
<1>1. n \in Nat \ {0} /\ MaxPoints \in Nat \ {0} /\ Min({n, MaxPoints}) = Room(n)
  BY MapAssumption, LeastOfTwo DEF Room
<1>2. PICK S : S = kSubset(Room(n), 1 .. n)
  OBVIOUS
<1>3. \A K : K \in S <=> K \in SUBSET (1 .. n) /\ Cardinality(K) = Room(n)
  BY <1>2 DEF kSubset
<1>4. PICK w : w = Ways[n]
  OBVIOUS
<1>5. w = [kept \in S |-> Cardinality(Keeping(n, kept))]
  <2>1. \A kept : Keeping(n, kept) = {d \in DrawsFor(n) : Reservoir(n, d) = kept}
    BY ReservoirIs DEF Keeping
  <2>2. w = [kept \in S |-> Cardinality({d \in DrawsFor(n) : Reservoir(n, d) = kept})]
    BY <1>1, <1>2, <1>4, Zenon DEF Ways, DrawsFor
  <2>3. QED
    BY <2>1, <2>2
<1>6. PICK c \in Nat : \A K \in SUBSET (1 .. n) :
        Cardinality(K) = Room(n) => Cardinality(Keeping(n, K)) = c
  BY <1>1, UniformAlways DEF Uniform
<1>7. \E K : K \in S
  <2>1. PICK r \in Nat : r = Room(n)
    BY <1>1 DEF Room
  <2>2. r <= n
    BY <1>1, <2>1 DEF Room
  <2>3. PICK K : K = 1 .. r
    OBVIOUS
  <2>4. Cardinality(K) = r
    <3>1. Cardinality(K) = IF 1 > r THEN 0 ELSE r - 1 + 1
      BY <2>3, FS_Interval
    <3>2. (IF 1 > r THEN 0 ELSE r - 1 + 1) = r
      OBVIOUS
    <3>3. QED
      BY <3>1, <3>2
  <2>5. K \in SUBSET (1 .. n)
    BY <2>2, <2>3, <1>1
  <2>6. QED
    BY <2>1, <2>4, <2>5, <1>3
<1>8. Range(w) = {c}
  <2>1. \A K \in S : w[K] = c
    BY <1>3, <1>5, <1>6
  <2>2. DOMAIN w = S
    BY <1>5
  <2>3. QED
    BY <2>1, <2>2, <1>7 DEF Range
<1>9. QED
  BY <1>4, <1>8, FS_Singleton

\* A voxel in use has had a point.
SeenBound == \A k \in DOMAIN voxels : voxels[k].seen \in 1 .. MaxSeen

(* Every operation keeps it so: a voxel comes into use with its first point. *)
LEMMA SeenStep == ASSUME MapInv, PlaceInv, SeenBound, [Next]_vars PROVE SeenBound'
<1>1. ASSUME DOMAIN voxels' \subseteq DOMAIN voxels,
             \A k \in DOMAIN voxels' : voxels'[k].seen = voxels[k].seen
      PROVE  SeenBound'
  BY <1>1 DEF SeenBound
<1>2. \A k \in DOMAIN voxels : Refitted(voxels[k]).seen = voxels[k].seen
  <2>1. SUFFICES ASSUME NEW k \in DOMAIN voxels PROVE Refitted(voxels[k]).seen = voxels[k].seen
    OBVIOUS
  <2>2. PICK v : v = voxels[k]
    OBVIOUS
  <2>3. v = [points |-> v.points, seen |-> v.seen, plane |-> v.plane, dirty |-> v.dirty]
    BY <2>2 DEF MapInv, MapShape, Shaped
  <2>4. Refitted(v).seen = v.seen
    BY <2>3 DEF Refitted
  <2>5. QED
    BY <2>2, <2>4
<1>3. ASSUME NEW p \in Points, Insert(p) PROVE SeenBound'
  <2> DEFINE k == KeyOf(p.at)
             v == Voxel(k)
  <2>1. PICK j \in Draws(v.seen + 1) :
          voxels' = [x \in DOMAIN voxels \cup {k} |->
                       IF x = k THEN Filled(v, p, j) ELSE voxels[x]]
    BY <1>3 DEF Insert
  <2>2. v.seen \in Nat /\ v.seen + 1 \in 1 .. MaxSeen
    <3>1. v.seen < MaxSeen
      BY <1>3 DEF Insert
    <3>2. v.seen \in Nat
      BY DEF PlaceInv, Placed, Voxel, EmptyVoxel
    <3>3. QED
      BY <3>1, <3>2, MapAssumption
  <2>3. Shaped(v)
    BY EmptyFresh DEF MapInv, MapShape, Voxel
  <2>4. Filled(v, p, j).seen = v.seen + 1
    <3>1. PICK d, r, n : /\ d = (v.dirty \/ Stores(Len(v.points), j))
                         /\ r = Sampled(v.points, p, j) /\ n = v.seen + 1
      OBVIOUS
    <3>2. Filled(v, p, j) = [v EXCEPT !.points = r, !.seen = n, !.dirty = d]
      BY <3>1, Zenon DEF Filled
    <3>3. QED
      BY <2>3, <3>1, <3>2 DEF Shaped
  <2> HIDE DEF k, v
  <2>5. ASSUME NEW x \in DOMAIN voxels' PROVE voxels'[x].seen \in 1 .. MaxSeen
    <3>1. CASE x = k
      BY <3>1, <2>1, <2>2, <2>4, <2>5
    <3>2. CASE x # k
      BY <3>2, <2>1, <2>5 DEF SeenBound
    <3>3. QED
      BY <3>1, <3>2
  <2>6. QED
    BY <2>5 DEF SeenBound
<1>4. ASSUME NEW origin \in Origins, Prune(origin) PROVE SeenBound'
  BY <1>1, <1>4 DEF Prune
<1>5. ASSUME NEW at \in Queries, ClosestPlane(at) PROVE SeenBound'
  <2> DEFINE keys == {x \in DOMAIN voxels : \A a \in Axes : x[a] - KeyOf(at)[a] \in -Rings .. Rings}
  <2>1. voxels' = [x \in DOMAIN voxels |->
                     IF x \in keys THEN Refitted(voxels[x]) ELSE voxels[x]]
    BY <1>5 DEF ClosestPlane
  <2> HIDE DEF keys
  <2>2. QED
    BY <2>1, <1>1, <1>2
<1>6. CASE NumPlanes
  BY <1>1, <1>2, <1>6 DEF NumPlanes
<1>7. CASE UNCHANGED voxels
  BY <1>1, <1>7
<1>8. QED
  BY <1>3, <1>4, <1>5, <1>6, <1>7 DEF Next, InsertNothing, Target, vars

(* The points that a voxel holds are a uniform sample of all that ever landed in
   it: whatever their number and the size of the reservoir, each set of points
   is kept under as many draws (insert()). *)
THEOREM SampleUniformAlways == Spec => []SampleUniform
<1>1. Init => SeenBound
  BY DEF Init, SeenBound
<1>2. MapInv /\ PlaceInv /\ SeenBound /\ [Next]_vars => SeenBound'
  BY SeenStep
<1>3. SeenBound => SampleUniform
  BY WaysUniform DEF SeenBound, SampleUniform
<1>4. QED
  BY <1>1, <1>2, <1>3, MapInvAlways, PlaceInvAlways, PTL DEF Spec
=============================================================================
