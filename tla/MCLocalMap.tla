----------------------------- MODULE MCLocalMap -----------------------------
(* An instance of LocalMap for TLC: voxels of two ticks, the one above the  *)
(* origin the corner of two surfaces, one below it on every axis, and one   *)
(* two voxels away along the second.                                        *)
EXTENDS LocalMap

At(place, surface) == [at |-> place, surface |-> surface]

ScanPoints == {At(<<-1, -1, -1>>, "floor"), At(<<0, 0, 0>>, "floor"),
               At(<<1, 0, 1>>, "wall"), At(<<1, 4, 0>>, "wall")}
QueryPlaces == {<<-1, -1, -1>>, <<1, 1, 1>>}
RobotPlaces == {<<-1, -1, -1>>, <<3, 3, 2>>}
=============================================================================
