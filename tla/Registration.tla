----------------------------- MODULE Registration ----------------------------
(***************************************************************************)
(* What the two solvers of stage [5] promise their caller: the answers     *)
(* that a RegistrationResult (registration.hpp) and a TightResult          *)
(* (tight_registration.hpp) can carry, and how the estimator reads them.   *)
(*                                                                         *)
(* A residual and an eigenvalue ratio matter only by whether they were     *)
(* computed and on which side of their threshold they lie.                 *)
(***************************************************************************)

\* Not computed; below the threshold; at it or above.
Level == {"none", "low", "high"}

Answer == [valid : BOOLEAN, rmse : Level, ratio : Level]

\* ICP: a ratio that was computed and found low makes the answer invalid.
LooseAnswers(planes) ==
  {a \in Answer :
     IF a.valid THEN planes /\ a.rmse # "none" /\ a.ratio = "high"
     ELSE a.ratio # "high" /\ (a.ratio = "low" => planes)}

\* The tight solve: a low ratio is reported, not refused; a solve that is
\* refused at a later iteration keeps the residual of the one before.
TightAnswers(planes) ==
  {a \in Answer :
     IF a.valid THEN planes /\ a.rmse # "none" /\ a.ratio # "none"
     ELSE a.ratio = "none" /\ (a.rmse # "none" => planes)}

\* The caller's test: a usable pose, and a residual that is not too large.
Accepted(a) == a.valid /\ a.rmse # "high"

\* Mutant of Resyncs: the bias of every accepted solve is fed back.
ResyncsAlways(a) == Accepted(a)

\* The refined gyro bias is fed back to the deskew: the LiDAR sees rotation.
Resyncs(a) == Accepted(a) /\ a.ratio = "high"
=============================================================================
