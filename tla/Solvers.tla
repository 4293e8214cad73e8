------------------------------- MODULE Solvers -------------------------------
(***************************************************************************)
(* Stage [5], inside: the iterations of the two solvers --                 *)
(* alignTightlyCoupled() (src/lio/tight_registration.cpp) and              *)
(* alignPointToPlane() (src/lio/registration.cpp) around optimizeSE3() of  *)
(* glass_core -- and what the caller then does with the result.            *)
(*                                                                         *)
(* Iterate 0 is the guess, iterate k what k steps have made of it.  The    *)
(* scan is associated with the map anew at every iterate; what that gives  *)
(* is a view.  A result's fields are the iterates they were computed at.   *)
(***************************************************************************)
EXTENDS Registration, Integers

CONSTANTS
  MaxIterations   \* max_iterations

ASSUME SolversAssumption == MaxIterations \in Nat \ {0}

VARIABLES
  solver,    \* "loose" or "tight"
  pc,        \* "iterate", "finish", "caller", "done"
  k,         \* the iterate in hand
  lidar,     \* lidar_rotation_H: the iterate it was taken at
  result,    \* the RegistrationResult or TightResult
  views,     \* the view of every iterate associated so far
  taken,     \* the caller: the iterate whose pose it commits
  resynced   \* the caller: was deskew given the bias?

vars == <<solver, pc, k, lidar, result, views, taken, resynced>>

Guess == 0
NoIterate == -1
Iterates == Guess .. MaxIterations

\* Enough correspondences?  Then: is the residual low, does the geometry
\* constrain the translation, and the rotation?
Views ==
  {v \in [enough : BOOLEAN, fits : BOOLEAN, translation : BOOLEAN, rotation : BOOLEAN] :
     v.enough \/ ~(v.fits \/ v.translation \/ v.rotation)}

Init ==
  /\ solver \in {"loose", "tight"}
  /\ pc = "iterate" /\ k = Guess /\ lidar = NoIterate
  /\ result = [valid |-> FALSE, converged |-> FALSE, pose |-> Guess, gravity |-> Guess,
               corr |-> NoIterate, rmse |-> NoIterate, info |-> NoIterate,
               ratio |-> NoIterate]
  /\ views = [i \in {} |-> FALSE]
  /\ taken = NoIterate /\ resynced = FALSE

\* The source or the map is empty.
NothingToAlign ==
  /\ pc = "iterate" /\ k = Guess
  /\ pc' = "caller"
  /\ UNCHANGED <<solver, k, lidar, result, views, taken, resynced>>

\* Associating the scan at iterate i gives the view v.
Sees(i, v) == views' = [j \in DOMAIN views \cup {i} |-> IF j = i THEN v ELSE views[j]]
-----------------------------------------------------------------------------
(* The tight solve. *)

TightTooFew(v) ==
  /\ ~v.enough
  /\ result' = [result EXCEPT !.valid = FALSE, !.corr = k]
  /\ pc' = "caller"
  /\ UNCHANGED <<k, lidar>>

\* The increment is not finite.
TightNotFinite(v) ==
  /\ v.enough
  /\ result' = [result EXCEPT !.valid = FALSE, !.corr = k]
  /\ lidar' = k
  /\ pc' = "caller"
  /\ UNCHANGED k

\* Mutants of TightStep: the information is handed back only on convergence;
\* the result is moved in place; the loop runs once too often.
TightStepInfoLate(v, small) ==
  /\ v.enough
  /\ result' = [result EXCEPT !.valid = TRUE, !.converged = small, !.corr = k, !.rmse = k,
                              !.info = IF small THEN k ELSE @]
  /\ lidar' = k
  /\ k' = k + 1
  /\ pc' = IF small \/ k + 1 = MaxIterations THEN "finish" ELSE "iterate"

TightStepInPlace(v, small) ==
  /\ v.enough
  /\ result' = [result EXCEPT !.valid = TRUE, !.converged = small, !.corr = k, !.rmse = k,
                              !.info = k, !.pose = k + 1, !.gravity = k + 1]
  /\ lidar' = k
  /\ k' = k + 1
  /\ pc' = IF small \/ k + 1 = MaxIterations THEN "finish" ELSE "iterate"

TightStepOneMore(v, small) ==
  /\ v.enough
  /\ result' = [result EXCEPT !.valid = TRUE, !.converged = small, !.corr = k, !.rmse = k,
                              !.info = k]
  /\ lidar' = k
  /\ k' = k + 1
  /\ pc' = IF small \/ k + 1 > MaxIterations THEN "finish" ELSE "iterate"

\* The step is taken; if it is small, it is the last one.
TightStep(v, small) ==
  /\ v.enough
  /\ result' = [result EXCEPT !.valid = TRUE, !.converged = small, !.corr = k, !.rmse = k,
                              !.info = k]
  /\ lidar' = k
  /\ k' = k + 1
  /\ pc' = IF small \/ k + 1 = MaxIterations THEN "finish" ELSE "iterate"

TightIterate ==
  /\ solver = "tight" /\ pc = "iterate"
  /\ \E v \in Views :
       /\ Sees(k, v)
       /\ \/ TightTooFew(v)
          \/ TightNotFinite(v)
          \/ \E small \in BOOLEAN : TightStep(v, small)
  /\ UNCHANGED <<solver, taken, resynced>>

\* After the loop.
TightFinish ==
  /\ solver = "tight" /\ pc = "finish"
  /\ result' = [result EXCEPT !.pose = k, !.gravity = k, !.ratio = lidar]
  /\ pc' = "caller"
  /\ UNCHANGED <<solver, k, lidar, views, taken, resynced>>
-----------------------------------------------------------------------------
(* The loose solve. *)

\* Too few correspondences, or an increment that is not finite.
LooseFails ==
  /\ result' = [result EXCEPT !.valid = FALSE, !.corr = k]
  /\ pc' = "finish"
  /\ UNCHANGED k

LooseStep(v, small) ==
  /\ v.enough
  /\ result' = [result EXCEPT !.valid = TRUE, !.converged = small, !.corr = k, !.rmse = k]
  /\ k' = k + 1
  /\ pc' = IF small \/ k + 1 = MaxIterations THEN "finish" ELSE "iterate"

\* One round of optimizeSE3(): it moves the pose T in place.
LooseIterate ==
  /\ solver = "loose" /\ pc = "iterate"
  /\ \E v \in Views :
       /\ Sees(k, v)
       /\ LooseFails \/ \E small \in BOOLEAN : LooseStep(v, small)
  /\ UNCHANGED <<solver, lidar, taken, resynced>>

\* Mutants of LooseGate: the information of the last iteration is gated; the
\* ratio is reported and nothing more.
LooseGateBefore ==
  /\ solver = "loose" /\ pc = "finish"
  /\ IF result.valid
       THEN /\ result' = [result EXCEPT !.pose = k, !.ratio = k - 1,
                                        !.valid = views[k - 1].translation]
            /\ \E v \in Views : Sees(k, v)
       ELSE /\ result' = [result EXCEPT !.pose = k]
            /\ UNCHANGED views
  /\ pc' = "caller"
  /\ UNCHANGED <<solver, k, lidar, taken, resynced>>

LooseGateReports ==
  /\ solver = "loose" /\ pc = "finish"
  /\ IF result.valid
       THEN \E v \in Views :
              /\ Sees(k, v)
              /\ result' = [result EXCEPT !.pose = k, !.ratio = k]
       ELSE /\ result' = [result EXCEPT !.pose = k]
            /\ UNCHANGED views
  /\ pc' = "caller"
  /\ UNCHANGED <<solver, k, lidar, taken, resynced>>

\* The degeneracy gate associates once more, at the pose found; the pose is
\* handed back whatever the verdict.
LooseGate ==
  /\ solver = "loose" /\ pc = "finish"
  /\ IF result.valid
       THEN \E v \in Views :
              /\ Sees(k, v)
              /\ result' = [result EXCEPT !.pose = k, !.ratio = k, !.valid = v.translation]
       ELSE /\ result' = [result EXCEPT !.pose = k]
            /\ UNCHANGED views
  /\ pc' = "caller"
  /\ UNCHANGED <<solver, k, lidar, taken, resynced>>
-----------------------------------------------------------------------------
(* The caller: registerScanLoose() and registerScanTight(). *)

LevelOf(i, above) == IF i = NoIterate THEN "none" ELSE IF above THEN "high" ELSE "low"

\* The result as the caller reads it.
AnswerOf(r) ==
  [valid |-> r.valid,
   rmse |-> LevelOf(r.rmse, r.rmse # NoIterate /\ ~views[r.rmse].fits),
   ratio |-> LevelOf(r.ratio, r.ratio # NoIterate /\
               IF solver = "loose" THEN views[r.ratio].translation
               ELSE views[r.ratio].rotation)]

\* A refused result: the guess is committed.
Commit ==
  /\ pc = "caller"
  /\ taken' = IF Accepted(AnswerOf(result)) THEN result.pose ELSE Guess
  /\ resynced' = (solver = "tight" /\ Resyncs(AnswerOf(result)))
  /\ pc' = "done"
  /\ UNCHANGED <<solver, k, lidar, result, views>>

Done == pc = "done" /\ UNCHANGED vars

Next ==
  \/ NothingToAlign \/ TightIterate \/ TightFinish \/ LooseIterate \/ LooseGate
  \/ Commit \/ Done

Spec == Init /\ [][Next]_vars
-----------------------------------------------------------------------------
(* Properties. *)

Fields == {NoIterate} \cup Iterates

\* Every variable has its type; no more than max_iterations steps are taken.
TypeOK ==
  /\ solver \in {"loose", "tight"} /\ pc \in {"iterate", "finish", "caller", "done"}
  /\ k \in Iterates /\ lidar \in Fields
  /\ result \in [valid : BOOLEAN, converged : BOOLEAN, pose : Iterates, gravity : Iterates,
                 corr : Fields, rmse : Fields, info : Fields, ratio : Fields]
  /\ DOMAIN views \subseteq Iterates /\ \A i \in DOMAIN views : views[i] \in Views
  /\ taken \in Fields /\ resynced \in BOOLEAN

Returned == pc \in {"caller", "done"}

\* What a valid tight result says of its solution is all said of one
\* linearization, the last, one step before the state it returns: the
\* information that becomes the covariance, the residual and the number that
\* are judged, the ratio that gates the resync (alignTightlyCoupled()).
OneLinearization ==
  Returned /\ solver = "tight" /\ result.valid =>
    /\ {result.info, result.rmse, result.corr, result.ratio} = {result.pose - 1}
    /\ result.gravity = result.pose
    /\ views[result.info].enough

\* A solve that is refused, at whatever iteration, leaves nothing of the steps
\* it took before: the tight result hands back the guess without a ratio, and
\* the caller goes on from the guess (alignTightlyCoupled(), registerScan*()).
RefusedLeavesGuess ==
  /\ Returned /\ solver = "tight" /\ ~result.valid =>
       result.pose = Guess /\ result.gravity = Guess /\ result.ratio = NoIterate
  /\ pc = "done" /\ ~Accepted(AnswerOf(result)) => taken = Guess /\ ~resynced

\* The loose path moves to a pose only if the geometry constrains it there, at
\* the pose itself and not where the last step came from (alignPointToPlane()).
GatedAtSolution ==
  pc = "done" /\ solver = "loose" /\ taken # Guess => views[taken].translation

\* The deskew is given only a bias that was refined at a linearization where
\* the LiDAR alone constrained the rotation (registerScanTight()).
ResyncVerified ==
  resynced => solver = "tight" /\ taken > Guess /\ views[taken - 1].rotation

\* The solvers answer what the model of the estimator lets them answer
\* (RegistrationResult, TightResult).
AnswersAsPromised ==
  LET planes == DOMAIN views # {} /\ views[Guess].enough
  IN Returned => AnswerOf(result) \in
       IF solver = "loose" THEN LooseAnswers(planes) ELSE TightAnswers(planes)
=============================================================================
