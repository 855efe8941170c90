\* Three promotion calls, or two attachments of one adapter to one element with
\* two initializations, or two agreements of which one is timed, or three
\* calls that share reviews or a store, or two diagnosed runs.
CONSTANTS
  Calls = {c1, c2, c3}
  Deadline = TRUE
  BannerAdapters = {b1}
  Elements = {e1}
  Inits = {i1, i2}
  Attachments = {t1, t2}
  NoInit = NoInit
  Agreements = {g1, g2}
  TimedAgreements = {g1}
  Reviews = {v1}
  Storages = {s1}
  Attempts = {a1, a2, a3}
  Askers = {u1, u2, u3}
  NoAttempt = NoAttempt
  Runs = {d1, d2}
  Capacity = 2
  MaxClears = 1
SPECIFICATION MCSpec
INVARIANTS LockFollowsWork AnswersAreTrue BannersAreOwned SharingIsExact RingIsRecent
PROPERTIES NothingStartsLate TimedCallsEnd
CHECK_DEADLOCK FALSE
