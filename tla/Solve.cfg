\* Both solvers, three iterations at most, any view at each iterate.
CONSTANTS
  MaxIterations = 3
SPECIFICATION Spec
INVARIANTS
  TypeOK
  OneLinearization
  RefusedLeavesGuess
  GatedAtSolution
  ResyncVerified
  AnswersAsPromised
