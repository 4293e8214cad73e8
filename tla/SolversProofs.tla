---------------------------- MODULE SolversProofs ----------------------------
(***************************************************************************)
(* What the two solvers hand back, for every max_iterations: proofs of the *)
(* properties of Solvers.                                                  *)
(***************************************************************************)
EXTENDS Solvers, TLAPS

\* The fields of the result that are written after the loop.
Unmoved ==
  result.pose = Guess /\ result.gravity = Guess /\ result.ratio = NoIterate

Results ==
  [valid : BOOLEAN, converged : BOOLEAN, pose : Iterates, gravity : Iterates,
   corr : Fields, rmse : Fields, info : Fields, ratio : Fields]

\* All of a linearization, and of the last one.
Linearized ==
  /\ k > 0 /\ k - 1 \in DOMAIN views /\ views[k - 1].enough
  /\ result.info = k - 1 /\ result.rmse = k - 1 /\ result.corr = k - 1 /\ lidar = k - 1

\* The loop: nothing is handed back before its end.
LoopInv ==
  /\ pc = "iterate" => k < MaxIterations
  /\ pc \in {"iterate", "finish"} => Unmoved
  /\ pc # "done" => taken = NoIterate /\ resynced = FALSE

\* A step was taken only where the scan was associated, at the guess to begin with.
ViewsInv ==
  /\ k > 0 => Guess \in DOMAIN views /\ views[Guess].enough
  /\ DOMAIN views # {} => Guess \in DOMAIN views
  /\ pc = "iterate" => DOMAIN views = 0 .. k - 1
  /\ pc = "finish" => DOMAIN views \subseteq 0 .. k
  /\ result.rmse # NoIterate => result.rmse < k
  /\ result.valid => result.rmse # NoIterate

TightInv ==
  solver = "tight" =>
    /\ pc \in {"iterate", "finish"} /\ result.valid => Linearized
    /\ pc = "finish" => result.valid
    /\ Returned /\ ~result.valid => Unmoved

LooseInv ==
  solver = "loose" /\ Returned =>
    IF result.valid
      THEN /\ result.ratio = result.pose /\ result.pose \in DOMAIN views
           /\ views[result.pose].translation
      ELSE result.ratio # NoIterate => k > 0 /\ ~views[result.ratio].translation

\* What the caller committed, and what it fed back.
CallerInv ==
  pc = "done" =>
    /\ taken = IF Accepted(AnswerOf(result)) THEN result.pose ELSE Guess
    /\ resynced = (solver = "tight" /\ Resyncs(AnswerOf(result)))

SolveInv ==
  /\ TypeOK /\ LoopInv /\ ViewsInv /\ TightInv /\ LooseInv /\ OneLinearization
  /\ CallerInv
-----------------------------------------------------------------------------
\* The views after the scan has been associated once more.
LEMMA SeesViews ==
  ASSUME NEW i, NEW v, Sees(i, v)
  PROVE  /\ DOMAIN views' = DOMAIN views \cup {i}
         /\ views'[i] = v
         /\ \A j \in DOMAIN views \ {i} : views'[j] = views[j]
  BY DEF Sees

LEMMA SolveInit == Init => SolveInv
  <1> SUFFICES ASSUME Init PROVE SolveInv
    OBVIOUS
  <1> USE DEF Init
  <1>v. DOMAIN views = {}
    OBVIOUS
  <1>r. result.valid = FALSE /\ result.pose = Guess /\ result.gravity = Guess
        /\ result.rmse = NoIterate /\ result.ratio = NoIterate
    OBVIOUS
  <1>1. TypeOK
    <2>1. MaxIterations \in Nat /\ Guess \in Iterates /\ NoIterate \in Fields
      BY SolversAssumption DEF Iterates, Guess, NoIterate, Fields
    <2>2. result \in [valid : BOOLEAN, converged : BOOLEAN, pose : Iterates,
                      gravity : Iterates, corr : Fields, rmse : Fields, info : Fields,
                      ratio : Fields]
      BY <2>1
    <2> QED BY <1>v, <2>1, <2>2 DEF TypeOK
  <1>2. LoopInv
    BY <1>r, SolversAssumption DEF LoopInv, Unmoved, Guess
  <1>3. ViewsInv
    BY <1>v, <1>r DEF ViewsInv, Guess
  <1>4. TightInv /\ LooseInv /\ OneLinearization /\ CallerInv
    BY <1>r DEF TightInv, LooseInv, OneLinearization, CallerInv, Returned
  <1> QED BY <1>1, <1>2, <1>3, <1>4 DEF SolveInv

LEMMA NothingToAlignKeeps == SolveInv /\ NothingToAlign => SolveInv'
  <1> SUFFICES ASSUME SolveInv, NothingToAlign PROVE SolveInv'
    OBVIOUS
  <1> USE DEF SolveInv, NothingToAlign
  <1>1. TypeOK'
    BY DEF TypeOK
  <1>2. ~result.valid /\ Unmoved
    BY DEF ViewsInv, LoopInv, TypeOK, Fields, Iterates, Guess, NoIterate
  <1>3. LoopInv' /\ ViewsInv'
    BY <1>2 DEF LoopInv, ViewsInv
  <1>4. TightInv' /\ LooseInv' /\ OneLinearization' /\ CallerInv'
    BY <1>2 DEF TightInv, LooseInv, OneLinearization, CallerInv, Returned, Unmoved
  <1> QED BY <1>1, <1>3, <1>4
\* An iteration begins with the scan associated at the iterate in hand.
LEMMA Iterating ==
  ASSUME SolveInv, pc = "iterate", NEW v \in Views, Sees(k, v)
  PROVE  /\ MaxIterations \in Nat /\ k \in Nat /\ k < MaxIterations
         /\ k \in Iterates /\ k + 1 \in Iterates /\ k \in Fields
         /\ Unmoved /\ taken = NoIterate /\ resynced = FALSE
         /\ result \in Results /\ lidar \in Fields
         /\ result.rmse # NoIterate => result.rmse < k
         /\ DOMAIN views' = 0 .. k /\ views'[k] = v
         /\ k = Guess \/ views'[Guess].enough
         /\ Guess \in DOMAIN views' /\ DOMAIN views' \subseteq Iterates
         /\ \A i \in DOMAIN views' : views'[i] \in Views
  <1>n. /\ MaxIterations \in Nat /\ k \in Nat /\ k < MaxIterations
        /\ k \in Iterates /\ k + 1 \in Iterates /\ k \in Fields
    BY SolversAssumption DEF SolveInv, TypeOK, LoopInv, Iterates, Guess, Fields
  <1>u. Unmoved /\ taken = NoIterate /\ resynced = FALSE
    BY DEF SolveInv, LoopInv
  <1>t. /\ result \in Results /\ lidar \in Fields
        /\ \A i \in DOMAIN views : views[i] \in Views
    BY DEF SolveInv, TypeOK, Results
  <1>w. /\ DOMAIN views = 0 .. k - 1
        /\ k > 0 => views[Guess].enough
        /\ result.rmse # NoIterate => result.rmse < k
    BY DEF SolveInv, ViewsInv
  <1>v. /\ DOMAIN views' = 0 .. k /\ views'[k] = v
        /\ \A j \in 0 .. k - 1 : views'[j] = views[j]
    <2>1. DOMAIN views' = (0 .. k - 1) \cup {k}
      BY SeesViews, <1>w
    <2>2. (0 .. k - 1) \cup {k} = 0 .. k /\ k \notin 0 .. k - 1
      BY <1>n
    <2> QED BY <2>1, <2>2, SeesViews, <1>w
  <1>x. Guess \in DOMAIN views' /\ DOMAIN views' \subseteq Iterates
        /\ \A i \in DOMAIN views' : views'[i] \in Views
    BY <1>n, <1>t, <1>v, <1>w DEF Iterates, Guess
  <1>g. k = Guess \/ views'[Guess].enough
    BY <1>n, <1>v, <1>w DEF Guess
  <1> QED BY <1>n, <1>u, <1>t, <1>w, <1>v, <1>x, <1>g

\* An iteration that ends the solve, or the loop, without a step.
LEMMA IterateFails ==
  ASSUME SolveInv, pc = "iterate", NEW v \in Views, Sees(k, v),
         result'.valid = FALSE, result'.rmse = result.rmse, result' \in Results,
         Unmoved', k' = k, lidar' \in Fields,
         UNCHANGED <<solver, taken, resynced>>,
         pc' = IF solver = "tight" THEN "caller" ELSE "finish"
  PROVE  SolveInv'
  <1>n. /\ MaxIterations \in Nat /\ k \in Nat /\ k < MaxIterations
        /\ k \in Iterates /\ k + 1 \in Iterates /\ k \in Fields
    BY Iterating
  <1>r. Unmoved /\ taken = NoIterate /\ resynced = FALSE
        /\ (result.rmse # NoIterate => result.rmse < k)
    BY Iterating
  <1>v. /\ DOMAIN views' = 0 .. k /\ views'[k] = v
        /\ k = Guess \/ views'[Guess].enough
        /\ Guess \in DOMAIN views' /\ DOMAIN views' \subseteq Iterates
        /\ \A i \in DOMAIN views' : views'[i] \in Views
    BY Iterating
  <1>1. TypeOK'
    BY <1>n, <1>r, <1>v DEF TypeOK, SolveInv, Results
  <1>2. LoopInv'
    BY <1>n, <1>r, <1>v DEF LoopInv
  <1>3. ViewsInv'
    BY <1>n, <1>r, <1>v DEF ViewsInv, Guess
  <1>4. TightInv' /\ LooseInv' /\ OneLinearization' /\ CallerInv'
    BY DEF TightInv, LooseInv, OneLinearization, CallerInv, Returned, SolveInv, TypeOK
  <1> QED BY <1>1, <1>2, <1>3, <1>4 DEF SolveInv

\* An iteration that takes a step.
LEMMA IterateSteps ==
  ASSUME SolveInv, pc = "iterate", NEW v \in Views, Sees(k, v), v.enough,
         result'.valid = TRUE, result'.rmse = k, result' \in Results,
         Unmoved', k' = k + 1, lidar' \in Fields,
         solver = "tight" => result'.info = k /\ result'.corr = k /\ lidar' = k,
         UNCHANGED <<solver, taken, resynced>>,
         pc' \in {"iterate", "finish"}, pc' = "iterate" => k + 1 # MaxIterations
  PROVE  SolveInv'
  <1>n. /\ MaxIterations \in Nat /\ k \in Nat /\ k < MaxIterations
        /\ k \in Iterates /\ k + 1 \in Iterates /\ k \in Fields
    BY Iterating
  <1>r. Unmoved /\ taken = NoIterate /\ resynced = FALSE
        /\ (result.rmse # NoIterate => result.rmse < k)
    BY Iterating
  <1>v. /\ DOMAIN views' = 0 .. k /\ views'[k] = v
        /\ k = Guess \/ views'[Guess].enough
        /\ Guess \in DOMAIN views' /\ DOMAIN views' \subseteq Iterates
        /\ \A i \in DOMAIN views' : views'[i] \in Views
    BY Iterating
  <1>1. TypeOK'
    BY <1>n, <1>r, <1>v DEF TypeOK, SolveInv, Results
  <1>2. LoopInv'
    BY <1>n, <1>r, <1>v DEF LoopInv
  <1>3. ViewsInv'
    <2>1. DOMAIN views' = 0 .. k' - 1 /\ DOMAIN views' \subseteq 0 .. k'
      BY <1>n, <1>r, <1>v
    <2>2. views'[Guess].enough /\ result'.rmse # NoIterate /\ result'.rmse < k'
      BY <1>n, <1>r, <1>v DEF NoIterate
    <2> QED BY <2>1, <2>2, <1>n, <1>r, <1>v DEF ViewsInv
  <1>4. solver = "tight" => Linearized'
    BY <1>n, <1>r, <1>v DEF Linearized
  <1>5. TightInv' /\ LooseInv' /\ OneLinearization' /\ CallerInv'
    BY <1>4 DEF TightInv, LooseInv, OneLinearization, CallerInv, Returned
  <1> QED BY <1>1, <1>2, <1>3, <1>5 DEF SolveInv

LEMMA TightIterateKeeps == SolveInv /\ TightIterate => SolveInv'
  <1>1. SUFFICES ASSUME SolveInv, TightIterate, NEW v \in Views, Sees(k, v),
                        TightTooFew(v) \/ TightNotFinite(v)
                          \/ \E small \in BOOLEAN : TightStep(v, small)
                 PROVE  SolveInv'
    BY DEF TightIterate
  <1>c. solver = "tight" /\ pc = "iterate" /\ UNCHANGED <<solver, taken, resynced>>
    BY <1>1 DEF TightIterate
  <1>i. result \in Results /\ Unmoved /\ k \in Fields /\ lidar \in Fields
    BY <1>1, <1>c, Iterating
  <1>2. CASE TightTooFew(v)
    <2>1. result'.valid = FALSE /\ result'.rmse = result.rmse /\ result' \in Results
          /\ Unmoved'
      BY <1>2, <1>i DEF TightTooFew, Unmoved, Results
    <2> QED BY <2>1, <1>1, <1>2, <1>c, <1>i, IterateFails DEF TightTooFew
  <1>3. CASE TightNotFinite(v)
    <2>1. result'.valid = FALSE /\ result'.rmse = result.rmse /\ result' \in Results
          /\ Unmoved'
      BY <1>3, <1>i DEF TightNotFinite, Unmoved, Results
    <2> QED BY <2>1, <1>1, <1>3, <1>c, <1>i, IterateFails DEF TightNotFinite
  <1>4. ASSUME NEW small \in BOOLEAN, TightStep(v, small) PROVE SolveInv'
    <2>1. result'.valid = TRUE /\ result'.rmse = k /\ result' \in Results
          /\ Unmoved' /\ result'.info = k /\ result'.corr = k
      BY <1>4, <1>i DEF TightStep, Unmoved, Results
    <2>2. /\ v.enough /\ k' = k + 1 /\ lidar' = k
          /\ pc' \in {"iterate", "finish"} /\ (pc' = "iterate" => k + 1 # MaxIterations)
      BY <1>4 DEF TightStep
    <2> QED BY <2>1, <2>2, <1>1, <1>c, <1>i, IterateSteps
  <1> QED BY <1>1, <1>2, <1>3, <1>4

LEMMA LooseIterateKeeps == SolveInv /\ LooseIterate => SolveInv'
  <1>1. SUFFICES ASSUME SolveInv, LooseIterate, NEW v \in Views, Sees(k, v),
                        LooseFails \/ \E small \in BOOLEAN : LooseStep(v, small)
                 PROVE  SolveInv'
    BY DEF LooseIterate
  <1>c. /\ solver = "loose" /\ pc = "iterate" /\ UNCHANGED <<solver, taken, resynced>>
        /\ lidar' = lidar
    BY <1>1 DEF LooseIterate
  <1>i. result \in Results /\ Unmoved /\ k \in Fields /\ lidar \in Fields
    BY <1>1, <1>c, Iterating
  <1>2. CASE LooseFails
    <2>1. result'.valid = FALSE /\ result'.rmse = result.rmse /\ result' \in Results
          /\ Unmoved'
      BY <1>2, <1>i DEF LooseFails, Unmoved, Results
    <2> QED BY <2>1, <1>1, <1>2, <1>c, <1>i, IterateFails DEF LooseFails
  <1>3. ASSUME NEW small \in BOOLEAN, LooseStep(v, small) PROVE SolveInv'
    <2>1. result'.valid = TRUE /\ result'.rmse = k /\ result' \in Results /\ Unmoved'
      BY <1>3, <1>i DEF LooseStep, Unmoved, Results
    <2>2. /\ v.enough /\ k' = k + 1
          /\ pc' \in {"iterate", "finish"} /\ (pc' = "iterate" => k + 1 # MaxIterations)
      BY <1>3 DEF LooseStep
    <2> QED BY <2>1, <2>2, <1>1, <1>3, <1>c, <1>i, IterateSteps
  <1> QED BY <1>1, <1>2, <1>3

LEMMA TightFinishKeeps == SolveInv /\ TightFinish => SolveInv'
  <1> SUFFICES ASSUME SolveInv, TightFinish PROVE SolveInv'
    OBVIOUS
  <1>1. Linearized /\ result.valid
    BY DEF SolveInv, TightFinish, TightInv
  <1>n. k \in Nat /\ k \in Iterates /\ lidar \in Fields
    BY SolversAssumption DEF SolveInv, TypeOK, Iterates, Guess
  <1>r. /\ result'.valid = TRUE /\ result'.corr = result.corr /\ result'.rmse = result.rmse
        /\ result'.info = result.info /\ result'.pose = k /\ result'.gravity = k
        /\ result'.ratio = lidar
        /\ result' \in Results
    BY <1>1, <1>n DEF TightFinish, SolveInv, TypeOK, Results
  <1>2. TypeOK'
    BY <1>r DEF TightFinish, SolveInv, TypeOK, Results
  <1>3. LoopInv' /\ ViewsInv'
    BY <1>r, <1>1 DEF TightFinish, SolveInv, LoopInv, ViewsInv
  <1>4. TightInv' /\ LooseInv' /\ CallerInv'
    BY <1>r DEF TightFinish, TightInv, LooseInv, CallerInv
  <1>5. OneLinearization'
    BY <1>r, <1>1 DEF TightFinish, OneLinearization, Linearized
  <1> QED BY <1>2, <1>3, <1>4, <1>5 DEF SolveInv
LEMMA LooseGateKeeps == SolveInv /\ LooseGate => SolveInv'
  <1> SUFFICES ASSUME SolveInv, LooseGate PROVE SolveInv'
    OBVIOUS
  <1>c. /\ solver = "loose" /\ pc = "finish" /\ pc' = "caller"
        /\ solver' = solver /\ k' = k /\ lidar' = lidar
        /\ taken' = taken /\ resynced' = resynced
    BY DEF LooseGate
  <1>n. k \in Nat /\ k \in Iterates /\ k \in Fields
    BY SolversAssumption DEF SolveInv, TypeOK, Iterates, Guess, Fields
  <1>t. result \in Results
    BY DEF SolveInv, TypeOK, Results
  <1>i. LoopInv'
    BY <1>c DEF SolveInv, LoopInv
  <1>1. CASE result.valid
    <2> PICK v \in Views : /\ Sees(k, v)
                           /\ result' = [result EXCEPT !.pose = k, !.ratio = k,
                                                       !.valid = v.translation]
      BY <1>1 DEF LooseGate
    <2>v. v.translation \in BOOLEAN
      BY DEF Views
    <2>r. /\ result'.valid = v.translation /\ result'.rmse = result.rmse
          /\ result'.pose = k /\ result'.ratio = k
          /\ result' \in Results
      BY <1>n, <1>t, <2>v DEF Results
    <2>k. k > 0 /\ result.rmse # NoIterate /\ Guess \in DOMAIN views /\ views[Guess].enough
          /\ result.rmse < k
      BY <1>1, <1>n, <1>t DEF SolveInv, ViewsInv, Results, Fields, NoIterate, Iterates, Guess
    <2>s. /\ DOMAIN views' = DOMAIN views \cup {k} /\ views'[k] = v
          /\ \A j \in DOMAIN views \ {k} : views'[j] = views[j]
      BY SeesViews
    <2>1. TypeOK'
      <3>1. DOMAIN views' \subseteq Iterates /\ \A j \in DOMAIN views' : views'[j] \in Views
        BY <2>s, <1>n DEF SolveInv, TypeOK
      <3> QED BY <3>1, <2>r, <1>c, <1>n DEF TypeOK, SolveInv, Results
    <2>2. ViewsInv'
      <3>1. Guess \in DOMAIN views' /\ views'[Guess].enough
        BY <2>k, <2>s DEF Guess
      <3> QED BY <3>1, <2>k, <2>r, <1>c DEF ViewsInv
    <2>3. TightInv' /\ OneLinearization' /\ CallerInv'
      BY <1>c DEF TightInv, OneLinearization, CallerInv
    <2>4. LooseInv'
      BY <2>s, <2>k, <2>r, <1>c DEF LooseInv
    <2> QED BY <1>i, <2>1, <2>2, <2>3, <2>4 DEF SolveInv
  <1>2. CASE ~result.valid
    <2>1. result' = [result EXCEPT !.pose = k] /\ views' = views
      BY <1>2 DEF LooseGate
    <2>r. /\ result'.valid = FALSE /\ result'.rmse = result.rmse
          /\ result'.ratio = NoIterate
          /\ result' \in Results
      BY <1>2, <1>c, <1>n, <1>t, <2>1 DEF SolveInv, LoopInv, Unmoved, Results
    <2>2. TypeOK'
      BY <2>1, <2>r, <1>c, <1>n DEF TypeOK, SolveInv, Results
    <2>3. ViewsInv'
      BY <2>1, <2>r, <1>c DEF ViewsInv, SolveInv
    <2>4. TightInv' /\ OneLinearization' /\ CallerInv' /\ LooseInv'
      BY <2>r, <1>c DEF TightInv, OneLinearization, CallerInv, LooseInv
    <2> QED BY <1>i, <2>2, <2>3, <2>4 DEF SolveInv
  <1> QED BY <1>1, <1>2

LEMMA CommitKeeps == SolveInv /\ Commit => SolveInv'
  <1> SUFFICES ASSUME SolveInv, Commit PROVE SolveInv'
    OBVIOUS
  <1>1. TypeOK'
    BY SolversAssumption
       DEF Commit, SolveInv, TypeOK, Fields, Iterates, Guess, Accepted, Resyncs, AnswerOf
  <1>2. LoopInv' /\ ViewsInv'
    BY DEF Commit, SolveInv, LoopInv, ViewsInv, Unmoved
  <1>3. TightInv' /\ LooseInv' /\ OneLinearization'
    BY DEF Commit, SolveInv, TightInv, LooseInv, OneLinearization, Returned, Unmoved
  <1>4. CallerInv'
    BY DEF Commit, CallerInv, AnswerOf, LevelOf
  <1> QED BY <1>1, <1>2, <1>3, <1>4 DEF SolveInv

LEMMA SolveStep == SolveInv /\ [Next]_vars => SolveInv'
  <1> SUFFICES ASSUME SolveInv, [Next]_vars PROVE SolveInv'
    OBVIOUS
  <1>1. CASE UNCHANGED vars
    BY <1>1 DEF vars, SolveInv, TypeOK, LoopInv, ViewsInv, TightInv, LooseInv,
                OneLinearization, CallerInv, Unmoved, Linearized, Returned, AnswerOf,
                LevelOf
  <1> QED
    BY <1>1, NothingToAlignKeeps, TightIterateKeeps, TightFinishKeeps, LooseIterateKeeps,
       LooseGateKeeps, CommitKeeps
       DEF Next, Done
-----------------------------------------------------------------------------
(* The properties, from the invariant. *)

LEMMA SolveInvAlways == Spec => []SolveInv
  BY SolveInit, SolveStep, PTL DEF Spec

LEMMA ReturnedRefused == SolveInv => RefusedLeavesGuess
  <1> SUFFICES ASSUME SolveInv PROVE RefusedLeavesGuess
    OBVIOUS
  <1>1. Returned /\ solver = "tight" /\ ~result.valid => Unmoved
    BY DEF SolveInv, TightInv
  <1>2. pc = "done" /\ ~Accepted(AnswerOf(result)) => taken = Guess /\ ~resynced
    BY DEF SolveInv, CallerInv, Resyncs
  <1> QED BY <1>1, <1>2 DEF RefusedLeavesGuess, Unmoved

LEMMA ReturnedGated == SolveInv => GatedAtSolution
  <1> SUFFICES ASSUME SolveInv, pc = "done", solver = "loose", taken # Guess
               PROVE  views[taken].translation
    BY DEF GatedAtSolution
  <1>1. Accepted(AnswerOf(result)) /\ taken = result.pose
    BY DEF SolveInv, CallerInv
  <1>2. result.valid
    BY <1>1 DEF Accepted, AnswerOf
  <1> QED BY <1>1, <1>2 DEF SolveInv, LooseInv, Returned

LEMMA ReturnedVerified == SolveInv => ResyncVerified
  <1> SUFFICES ASSUME SolveInv, resynced
               PROVE  solver = "tight" /\ taken > Guess /\ views[taken - 1].rotation
    BY DEF ResyncVerified
  <1>1. pc = "done"
    BY DEF SolveInv, LoopInv
  <1>2. solver = "tight" /\ Resyncs(AnswerOf(result)) /\ Accepted(AnswerOf(result))
    BY <1>1 DEF SolveInv, CallerInv, Resyncs
  <1>3. taken = result.pose /\ result.valid
    BY <1>1, <1>2 DEF SolveInv, CallerInv, Accepted, AnswerOf
  <1>4. result.ratio = result.pose - 1
    BY <1>1, <1>2, <1>3 DEF SolveInv, OneLinearization, Returned
  <1>5. result.ratio # NoIterate /\ views[result.ratio].rotation
    BY <1>2 DEF Resyncs, AnswerOf, LevelOf
  <1>6. result.pose \in Int /\ result.ratio \in Fields
    BY SolversAssumption DEF SolveInv, TypeOK, Iterates, Guess
  <1> QED
    BY <1>2, <1>3, <1>4, <1>5, <1>6, SolversAssumption DEF Fields, NoIterate, Iterates, Guess

LEMMA ReturnedPromised == SolveInv => AnswersAsPromised
  <1> SUFFICES ASSUME SolveInv, Returned
               PROVE  AnswerOf(result) \in
                        LET planes == DOMAIN views # {} /\ views[Guess].enough
                        IN IF solver = "loose" THEN LooseAnswers(planes)
                           ELSE TightAnswers(planes)
    BY DEF AnswersAsPromised
  <1> DEFINE a == AnswerOf(result)
             planes == DOMAIN views # {} /\ views[Guess].enough
  <1>t. result \in Results /\ k \in Nat /\ solver \in {"loose", "tight"}
    BY SolversAssumption DEF SolveInv, TypeOK, Results, Iterates, Guess
  <1>1. a \in Answer /\ a.valid = result.valid
    BY <1>t DEF AnswerOf, Answer, Level, LevelOf, Results
  <1>2. result.rmse # NoIterate => planes
    BY <1>t DEF SolveInv, ViewsInv, Results, Fields, NoIterate, Iterates, Guess
  <1>3. a.rmse # "none" <=> result.rmse # NoIterate
    BY DEF AnswerOf, LevelOf
  <1>4. result.valid => result.rmse # NoIterate
    BY DEF SolveInv, ViewsInv
  <1>5. CASE solver = "loose"
    <2>1. a.ratio = LevelOf(result.ratio, result.ratio # NoIterate /\
                              views[result.ratio].translation)
      BY <1>5 DEF AnswerOf
    <2>2. ASSUME result.valid PROVE a.ratio = "high"
      <3>1. result.ratio # NoIterate /\ views[result.ratio].translation
        BY <1>5, <1>t, <2>2, SolversAssumption
           DEF SolveInv, LooseInv, Results, NoIterate, Iterates, Guess
      <3> QED BY <3>1, <2>1 DEF LevelOf
    <2>3. ASSUME ~result.valid PROVE a.ratio # "high" /\ (a.ratio = "low" => planes)
      <3>1. result.ratio # NoIterate => k > 0 /\ ~views[result.ratio].translation
        BY <1>5, <2>3 DEF SolveInv, LooseInv
      <3>2. k > 0 => planes
        BY DEF SolveInv, ViewsInv
      <3> QED BY <3>1, <3>2, <2>1 DEF LevelOf
    <2> QED BY <1>1, <1>2, <1>3, <1>4, <1>5, <2>2, <2>3 DEF LooseAnswers
  <1>6. CASE solver = "tight"
    <2>1. a.ratio = "none" <=> result.ratio = NoIterate
      BY <1>6 DEF AnswerOf, LevelOf
    <2>2. ASSUME result.valid PROVE result.ratio # NoIterate
      BY <1>6, <1>4, <2>2 DEF SolveInv, OneLinearization
    <2>3. ~result.valid => result.ratio = NoIterate
      BY <1>6 DEF SolveInv, TightInv, Unmoved
    <2> QED BY <1>1, <1>2, <1>3, <1>4, <1>6, <2>1, <2>2, <2>3 DEF TightAnswers
  <1> QED BY <1>t, <1>5, <1>6

\* Types, and with them the bound on the steps: no more than max_iterations.
THEOREM SolversTypeCorrect == Spec => []TypeOK
  BY SolveInvAlways, PTL DEF SolveInv

\* What a valid tight result says of its solution is of one linearization.
THEOREM OneLinearizationAlways == Spec => []OneLinearization
  BY SolveInvAlways, PTL DEF SolveInv

\* A refused solve, at whatever iteration, leaves the guess.
THEOREM RefusedLeavesGuessAlways == Spec => []RefusedLeavesGuess
  BY SolveInvAlways, ReturnedRefused, PTL

\* The loose path moves only to poses where the geometry constrains it.
THEOREM GatedAtSolutionAlways == Spec => []GatedAtSolution
  BY SolveInvAlways, ReturnedGated, PTL

\* Only a bias that the LiDAR could verify goes to the deskew.
THEOREM ResyncVerifiedAlways == Spec => []ResyncVerified
  BY SolveInvAlways, ReturnedVerified, PTL

\* The solvers answer within what the estimator is modelled against.
THEOREM AnswersAsPromisedAlways == Spec => []AnswersAsPromised
  BY SolveInvAlways, ReturnedPromised, PTL
=============================================================================
