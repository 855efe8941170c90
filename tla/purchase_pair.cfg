\* Two purchases of different skus that the platform may confuse.
CONSTANTS
  Orders = {o1, o2}
  Skus = {k1, k2}
  Subs = {}
  Flows = {f1, f2}
  SlotCalls = {c1, c2}
  Recoveries = {}
  Callers <- AllCallers
  FlowOf <- SpreadCalls
  SkuOf <- SpreadSkus
  Deadline = TRUE
  None = None
SPECIFICATION FairSpec
INVARIANTS CompletedIsPaidAndGranted
PROPERTIES PurchaseReturns
CHECK_DEADLOCK FALSE
