\* Two recoveries of one order, the second while the first has just failed.
CONSTANTS
  Orders = {o1}
  Skus = {k1}
  Subs = {s1}
  Flows = {f1}
  SlotCalls = {c1}
  Recoveries = {r1, r2}
  Callers <- AllCallers
  FlowOf <- SpreadCalls
  SkuOf <- SameSku
  Deadline = TRUE
  None = None
SPECIFICATION Spec
PROPERTIES NextCallRetries
CHECK_DEADLOCK FALSE
