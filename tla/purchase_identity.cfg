\* One purchase whose slot is invoked for two orders.
CONSTANTS
  Orders = {o1, o2}
  Skus = {k1}
  Subs = {s1}
  Flows = {f1}
  SlotCalls = {c1, c2}
  Recoveries = {}
  Callers <- AllCallers
  FlowOf <- SpreadCalls
  SkuOf <- SameSku
  Deadline = TRUE
  None = None
SPECIFICATION Spec
INVARIANTS UnknownPairWasHandedOver
CHECK_DEADLOCK FALSE
