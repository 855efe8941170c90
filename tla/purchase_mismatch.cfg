\* An order mismatch that settles past the deadline.
CONSTANTS
  Orders = {o1, o2}
  Skus = {k1}
  Subs = {s1}
  Flows = {f1}
  SlotCalls = {c1}
  Recoveries = {}
  Callers <- AllCallers
  FlowOf <- SpreadCalls
  SkuOf <- SameSku
  Deadline = TRUE
  None = None
SPECIFICATION Spec
PROPERTIES UnknownNamesConfirmedOrder
CHECK_DEADLOCK FALSE
