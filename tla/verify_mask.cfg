\* One verification that looks a release up twice at most.
CONSTANT ResolveAttempts = 2
SPECIFICATION VerifySpec
INVARIANT FailureIsReported
CHECK_DEADLOCK FALSE
