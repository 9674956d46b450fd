SPECIFICATION Spec
CONSTANTS
  r1 = r1  r2 = r2  k1 = k1  k2 = k2  k3 = k3
  NoRoot = NoRoot  NoKey = NoKey
  Procs = {p1}
  Roots = {r1, r2}
  Keys = {k1, k2, k3}
  Heights = {7, 8}
  KeysOf <- OwnKeysOf
  MaxTime = 2
  MaxLog = 3
  Setups <- FaultSetups
INVARIANTS OrderIndexesMeta UpgradeVerifies OneV2PerRoot TimestampedListed
PROPERTY ConfirmedProofKept
CHECK_DEADLOCK FALSE
