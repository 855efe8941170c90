\* One purchase whose slot is invoked twice, and one recovery.
CONSTANTS
  Orders = {o1, o2}
  Skus = {k1}
  Subs = {s1}
  Flows = {f1}
  SlotCalls = {c1, c2}
  Recoveries = {r1}
  Callers <- AllCallers
  FlowOf <- SpreadCalls
  SkuOf <- SameSku
  Deadline = TRUE
  None = None
SPECIFICATION Spec
SYMMETRY OrderSymmetry
INVARIANTS TypeOK NotifyOnlyAfterGrant
PROPERTIES NoSuccessOverFailedGrant IdentifiedOrderIsReported NoPaymentAfterReturn ImplementsContract
CHECK_DEADLOCK FALSE
