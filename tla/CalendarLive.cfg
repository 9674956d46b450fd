SPECIFICATION FairSpec
CONSTANTS
  Digests = {d1, d2, d3}
  BatchMax = 3
  LtpPriority = FALSE
  MaxSubmits = 3
  MaxTx = 2
  Faults = {}
PROPERTIES AckedEventuallyAnchored
