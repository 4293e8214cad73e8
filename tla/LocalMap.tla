------------------------------- MODULE LocalMap ------------------------------
(***************************************************************************)
(* The voxel hash that scans are registered against                        *)
(* (src/lio/local_map.cpp): a reservoir of points in each voxel, a plane   *)
(* fitted lazily to them, and a cached copy of the whole map for display.  *)
(*                                                                         *)
(* A place has three coordinates, in ticks, and distances are compared by  *)
(* their squares.  A point lies on a surface, and the points of a voxel    *)
(* pass for planar when they are enough and all on one surface; the plane  *)
(* is their centroid, kept as a sum and a count.  The pseudo-random draw   *)
(* of the reservoir is any number in its range.                            *)
(*                                                                         *)
(* insert() takes the points of a cloud one by one and nothing sees the    *)
(* map between two of them, so clouds of one point reach every map; the    *)
(* points that are not finite, which it skips, make an empty cloud.        *)
(***************************************************************************)
EXTENDS Integers, Sequences, FiniteSetsExt, Functions

CONSTANTS
  VoxelSize,      \* voxel_size_
  MaxPoints,      \* max_points_per_voxel_
  MaxRange,       \* max_range_
  MinPoints,      \* min_points_for_plane_
  MaxDist,        \* max_correspondence_distance, of every query
  Points,         \* the points of the scans: a place and a surface
  Queries,        \* the places asked for a plane
  Origins,        \* the poses to prune around
  MaxSeen,        \* bound on the points that land in a voxel
  MaxCopies       \* bound on the copies made for display

Axes == 1 .. 3
Place == [Axes -> Int]

ASSUME MapAssumption ==
  /\ VoxelSize \in Nat \ {0} /\ MaxPoints \in Nat \ {0} /\ MaxRange \in Nat
  /\ MinPoints \in Nat \ {0} /\ MaxDist \in Nat \ {0}
  /\ \A p \in Points : p.at \in Place
  /\ Queries \subseteq Place /\ Origins \subseteq Place
  /\ MaxSeen \in Nat /\ MaxCopies \in Nat

VARIABLES
  voxels,       \* voxels_: from the keys in use to their voxels
  dirty,        \* dirty_: the map changed since the copy was made
  targetCache,  \* target_cache_: the voxel and position of each point, with it
  copies,       \* copies made so far
  answer        \* what the last operation, if a query, answered

vars == <<voxels, dirty, targetCache, copies, answer>>

Zero == [a \in Axes |-> 0]
NoPlane == [sum |-> Zero, n |-> 0]
NoAnswer == [at |-> Zero, asked |-> FALSE, plane |-> NoPlane]
EmptyVoxel == [points |-> <<>>, seen |-> 0, plane |-> NoPlane, dirty |-> TRUE]

Init ==
  /\ voxels = <<>> /\ dirty = TRUE
  /\ targetCache = {} /\ copies = 0
  /\ answer = NoAnswer
-----------------------------------------------------------------------------
\* Mutant of KeyOf: a cast, which rounds towards zero.
KeyOfCast(at) ==
  [a \in Axes |-> IF at[a] < 0 THEN -((-at[a]) \div VoxelSize) ELSE at[a] \div VoxelSize]

KeyOf(at) == [a \in Axes |-> at[a] \div VoxelSize]

\* Twice the centre of the voxel k, to stay in whole ticks.
TwiceCenter(k) == [a \in Axes |-> (2 * k[a] + 1) * VoxelSize]

Square(x) == x * x
Times(n, u) == [a \in Axes |-> n * u[a]]
SquaredDistance(u, v) == Square(u[1] - v[1]) + Square(u[2] - v[2]) + Square(u[3] - v[3])

\* Mutant of Draws: the draw may come out one too high.
DrawsOneTooMany(seen) == 0 .. seen

\* uniform_int_distribution(0, seen - 1), seen counting the point in hand.
Draws(seen) == 0 .. seen - 1

\* Is a point stored, in a voxel that holds n, under the draw j?
Stores(n, j) == n < MaxPoints \/ j < MaxPoints

\* Mutant of Sampled: the cap is off by one.
SampledOverfull(points, p, j) ==
  IF Len(points) <= MaxPoints THEN Append(points, p)
  ELSE IF j < MaxPoints THEN [points EXCEPT ![j + 1] = p]
  ELSE points

\* Algorithm R: append while there is room, then replace the one drawn.
Sampled(points, p, j) ==
  IF Len(points) < MaxPoints THEN Append(points, p)
  ELSE IF j < MaxPoints THEN [points EXCEPT ![j + 1] = p]
  ELSE points

\* Mutant of Filled: a replaced point leaves the plane alone.
FilledKeepsPlane(v, p, j) ==
  [v EXCEPT !.points = Sampled(v.points, p, j),
            !.seen = @ + 1,
            !.dirty = @ \/ Len(v.points) < MaxPoints]

\* A voxel after one more point has landed in it.
Filled(v, p, j) ==
  [v EXCEPT !.points = Sampled(v.points, p, j),
            !.seen = @ + 1,
            !.dirty = @ \/ Stores(Len(v.points), j)]

Voxel(k) == IF k \in DOMAIN voxels THEN voxels[k] ELSE EmptyVoxel

Insert(p) ==
  LET k == KeyOf(p.at)
      v == Voxel(k)
  IN /\ v.seen < MaxSeen
     /\ \E j \in Draws(v.seen + 1) :
          voxels' = [x \in DOMAIN voxels \cup {k} |->
                       IF x = k THEN Filled(v, p, j) ELSE voxels[x]]
     /\ dirty' = TRUE
     /\ answer' = NoAnswer
     /\ UNCHANGED <<targetCache, copies>>

InsertNothing ==
  /\ dirty' = TRUE
  /\ answer' = NoAnswer
  /\ UNCHANGED <<voxels, targetCache, copies>>

InRange(k, origin) ==
  SquaredDistance(TwiceCenter(k), Times(2, origin)) <= Square(2 * MaxRange)

\* Mutant of Prune: the copy for display is not told.
PruneKeepsCopy(origin) ==
  LET near == {k \in DOMAIN voxels : InRange(k, origin)}
  IN /\ voxels' = [k \in near |-> voxels[k]]
     /\ answer' = NoAnswer
     /\ UNCHANGED <<dirty, targetCache, copies>>

Prune(origin) ==
  LET near == {k \in DOMAIN voxels : InRange(k, origin)}
  IN /\ voxels' = [k \in near |-> voxels[k]]
     /\ dirty' = (dirty \/ near # DOMAIN voxels)
     /\ answer' = NoAnswer
     /\ UNCHANGED <<targetCache, copies>>
-----------------------------------------------------------------------------
(* Planes. *)

SurfacesOf(points) == {points[i].surface : i \in DOMAIN points}

\* Enough points and all on one surface, or no plane.
Fit(points) ==
  IF Len(points) >= MinPoints /\ Cardinality(SurfacesOf(points)) = 1
    THEN [sum |-> [a \in Axes |-> FoldFunction(LAMBDA p, sum : p.at[a] + sum, 0, points)],
          n   |-> Len(points)]
    ELSE NoPlane

\* A plane is refitted when it is asked for, if its points have changed.
Refitted(v) ==
  IF v.dirty THEN [v EXCEPT !.dirty = FALSE, !.plane = Fit(v.points)] ELSE v

\* The square of n times the distance of the centroid.
Offset(plane, at) == SquaredDistance(plane.sum, Times(plane.n, at))
Nearer(p, q, at) == Offset(p, at) * Square(q.n) < Offset(q, at) * Square(p.n)
Within(plane, at) == plane # NoPlane /\ Offset(plane, at) < Square(MaxDist * plane.n)

\* Mutant of Rings: the fixed ring of direct neighbours.
OneRing == 1

\* The rings of neighbours searched: at least one, enough to cover MaxDist.
Rings == Max({1, (MaxDist + VoxelSize - 1) \div VoxelSize})

\* The order in which the loops over dx, dy and dz come to the keys.
Before(k, l) == \E a \in Axes : k[a] < l[a] /\ \A b \in 1 .. a - 1 : k[b] = l[b]

\* The first plane that no other beats.
ClosestIn(vs, keys, at) ==
  LET found == {k \in keys : Within(vs[k].plane, at)}
      best == {k \in found : \A l \in found : ~Nearer(vs[l].plane, vs[k].plane, at)}
      first == CHOOSE k \in best : \A l \in best \ {k} : Before(k, l)
  IN IF found = {} THEN NoPlane ELSE vs[first].plane

ClosestPlane(at) ==
  LET keys == {k \in DOMAIN voxels : \A a \in Axes : k[a] - KeyOf(at)[a] \in -Rings .. Rings}
  IN /\ voxels' = [k \in DOMAIN voxels |->
                     IF k \in keys THEN Refitted(voxels[k]) ELSE voxels[k]]
     /\ answer' = [at |-> at, asked |-> TRUE, plane |-> ClosestIn(voxels', keys, at)]
     /\ UNCHANGED <<dirty, targetCache, copies>>

\* num_planes(): every plane that is out of date is refitted, to be counted.
NumPlanes ==
  /\ voxels' = [k \in DOMAIN voxels |-> Refitted(voxels[k])]
  /\ answer' = NoAnswer
  /\ UNCHANGED <<dirty, targetCache, copies>>

Stored(vs) ==
  UNION { { <<k, i, vs[k].points[i]>> : i \in DOMAIN vs[k].points } : k \in DOMAIN vs }

\* target(): the copy for display, made again only after a change.
Target ==
  /\ dirty /\ copies < MaxCopies
  /\ targetCache' = Stored(voxels)
  /\ dirty' = FALSE
  /\ copies' = copies + 1
  /\ answer' = NoAnswer
  /\ UNCHANGED voxels

Next ==
  \/ \E p \in Points : Insert(p)
  \/ \E origin \in Origins : Prune(origin)
  \/ \E at \in Queries : ClosestPlane(at)
  \/ InsertNothing \/ NumPlanes \/ Target

Spec == Init /\ [][Next]_vars
-----------------------------------------------------------------------------
(* Properties. *)

Plane == [sum : Place, n : Nat]
VoxelType == [points : Seq(Points), seen : Nat, plane : Plane, dirty : BOOLEAN]

\* Every variable has its type; a voxel never holds more than its cap, and one
\* that is not full holds all that ever landed in it.
TypeOK ==
  /\ DOMAIN voxels \subseteq Place
  /\ \A k \in DOMAIN voxels :
       /\ voxels[k] \in VoxelType
       /\ Len(voxels[k].points) = Min({voxels[k].seen, MaxPoints})
  /\ dirty \in BOOLEAN /\ copies \in 0 .. MaxCopies
  /\ targetCache \subseteq Place \X Nat \X Points
  /\ answer \in [at : Place, asked : BOOLEAN, plane : Plane]

\* A plane that is not marked dirty is the one that its voxel's present points
\* give: no insertion, replacement or erasure leaves an old plane in use
\* (insert(), fitPlane()).
PlanesFresh ==
  \A k \in DOMAIN voxels : ~voxels[k].dirty => voxels[k].plane = Fit(voxels[k].points)

\* While it counts as current, the copy for display holds exactly the points of
\* the map (target(), insert(), prune()).
TargetFresh == ~dirty => targetCache = Stored(voxels)

\* What closestPlane() answers is the nearest of all the planes of the map, as
\* its present points give them, or none because none is within reach: the
\* rings it looks through miss no plane.
ClosestOfAll ==
  LET planes == {Fit(voxels[k].points) : k \in DOMAIN voxels}
      reach == {q \in planes : Within(q, answer.at)}
  IN answer.asked =>
       IF answer.plane = NoPlane THEN reach = {}
       ELSE answer.plane \in reach
              /\ \A q \in reach : ~Nearer(q, answer.plane, answer.at)

\* The points kept out of the first n to land in a voxel, under the draws d.
Reservoir(n, d) ==
  LET kept[i \in 0 .. n] == IF i = 0 THEN <<>> ELSE Sampled(kept[i - 1], i, d[i])
  IN Range(kept[n])

\* In how many ways each set of points can be the one that is kept.
Ways ==
  [n \in 1 .. MaxSeen |->
     LET draws == {d \in [1 .. n -> 0 .. n] : \A i \in 1 .. n : d[i] \in Draws(i)}
     IN [kept \in kSubset(Min({n, MaxPoints}), 1 .. n) |->
           Cardinality({d \in draws : Reservoir(n, d) = kept})]]

\* Of the points that ever landed in a voxel, those it holds are a uniform
\* sample: every subset of their number is kept under as many draws (insert()).
SampleUniform ==
  \A k \in DOMAIN voxels : Cardinality(Range(Ways[voxels[k].seen])) = 1

\* sqrt(z) <= sqrt(x) + sqrt(y), for natural numbers.
RootAtMostSum(z, x, y) == z <= x + y \/ Square(z - x - y) <= 4 * x * y

\* Pruning erases whole voxels, but never a point that is more than half the
\* diagonal of a voxel inside the range, on any side of the origin, and leaves
\* none that is more than that outside it (prune(), keyOf(), voxelCenter()).
\* The three lengths are doubled and squared.
PrunedByRange ==
  [][ \A origin \in Origins : Prune(origin) =>
        \A k \in DOMAIN voxels : \A i \in DOMAIN voxels[k].points :
          LET distance == 4 * SquaredDistance(voxels[k].points[i].at, origin)
              range == Square(2 * MaxRange)
              diagonal == 3 * Square(VoxelSize)
          IN IF k \in DOMAIN voxels' THEN RootAtMostSum(distance, range, diagonal)
             ELSE RootAtMostSum(range, distance, diagonal) ]_vars
=============================================================================
