SPECIFICATION Spec
CONSTANTS
  Digests = {d1, d2}
  BatchMax = 2
  LtpPriority = FALSE
  MaxSubmits = 2
  MaxTx = 1
  Faults = {"race"}
INVARIANTS AckedDigestsTracked
