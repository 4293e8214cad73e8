------------------------------ MODULE MCGlassLio -----------------------------
(* An instance of GlassLio for TLC: a sweep of one tick, scans and samples  *)
(* one or two ticks apart; the IMU may restart.                             *)
EXTENDS GlassLio

SomeStamps == 1 .. 5
Periods == [imu |-> {1, 2, -2}, lidar |-> {1, 2}]
Sweep == {1}
Yes == {TRUE}
=============================================================================
