\* One ad group: two load calls and two show calls.
CONSTANTS
  AdGroups = {a1}
  Loads = {l1, l2}
  Shows = {s1, s2}
  None = None
  Deadline = TRUE
SPECIFICATION FairSpec
INVARIANTS SlotsTrackWork SingleUse NoOrphanedListener
PROPERTIES ImplementsAdContract OperationsEnd
CHECK_DEADLOCK FALSE
