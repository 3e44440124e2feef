\* Three requests for one url on a fifo topic.
SPECIFICATION Spec
CONSTANTS
  Caller = {r1, r2, r3}
  Fifo = TRUE
SYMMETRY CallerSymmetry
INVARIANTS
  TypeOK
  PortalNeverAhead
  LastAloneIsLastInBoth
  DifferenceIsExplained
