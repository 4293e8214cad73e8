--------------------------- MODULE MCGlassLioNode ---------------------------
(* Instances of GlassLioNode for TLC: the stamps and how they may move. *)
EXTENDS GlassLioNode

Either(jumps) == [kind \in {"imu", "lidar"} |-> jumps]

\* Any stamp may follow any other: late, repeated, skipped, restarted.
AnyStamps == 0 .. 3
AnyJump == Either(-3 .. 3)
FewStamps == {0, 1}

\* Each topic moves forward by one tick or two.
ForwardStamps == 0 .. 6
ForwardJumps == Either({1, 2})
=============================================================================
