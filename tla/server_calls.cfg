\* One order status call with three attempts, answers about its order and
\* about another one, or a message that is sent three times at most, or one
\* reward and one legacy call with three keys, or two requests under one signal
\* with bodies up to one byte over the limit, or one identity call, or two
\* remote calls of which one is timed.
CONSTANTS
  Orders = {o1}
  OtherIds = {o2}
  Skus = {s1, s2}
  Queries = {q1}
  MaxAttempts = 3
  None = None
  MaxSends = 3
  Keys = {k1, k2, k3}
  Rewards = {r1}
  Legacy = {c1}
  NoKey = NoKey
  Requests = {n1, n2}
  MaxBytes = 2
  MaxDelivered = 3
  Logins = {l1}
  Remotes = {m1, m2}
  TimedRemotes = {m1}
SPECIFICATION MCSpec
INVARIANTS OrderVerdictsAreCurrent GrantGateIsSound MessageVerdictsAreTrue MessageDeliveredOnce RewardPaidOnce VerdictsAreTrue LegacyIsRecoverable ResolvedIsWhole SettledIsReleased LoginVerdictsAreTrue RemoteOutcomesAreTrue
PROPERTIES ServerCallsEnd ImplementsLedger
CHECK_DEADLOCK FALSE
