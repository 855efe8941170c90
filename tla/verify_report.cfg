\* One verification that looks a release up twice at most.
CONSTANT ResolveAttempts = 2
SPECIFICATION VerifySpec
INVARIANT LeftoversFailTheReport
CHECK_DEADLOCK FALSE
