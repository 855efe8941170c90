\* Three jobs over three packages with any dependencies between them, or one
\* verification that looks a release up twice at most.
CONSTANTS
  N = 3
  Jobs = {j1, j2, j3}
  ResolveAttempts = 2
SPECIFICATION MCSpec
SYMMETRY JobSymmetry
INVARIANT ExitsTellTheTruth
PROPERTY DependenciesComeFirst
CHECK_DEADLOCK FALSE
