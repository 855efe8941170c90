\* Three calls over two orders, two skus and two subscriptions, or two flows on
\* one thread, one with a deadline, whose reducer has two results besides the
\* timeout.
CONSTANTS
  Orders = {o1, o2}
  Skus = {k1, k2}
  Subs = {s1, s2}
  Callers = {c1, c2, c3}
  None = None
  Flows = {f1, f2}
  WithDeadline = {f1}
  Results = {r1, r2, late}
  TimedOut = late
  Failure = Failure
  Pending = Pending
SPECIFICATION MCSpec
INVARIANTS GrantedOnce OkMeansGranted NothingOutlivesTheFlow
PROPERTIES ImplementsOneShot CoreCallsEnd
CHECK_DEADLOCK FALSE
