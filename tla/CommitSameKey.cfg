SPECIFICATION Spec
CONSTANTS
  r1 = r1  r2 = r2  k1 = k1  k2 = k2  k3 = k3
  NoRoot = NoRoot  NoKey = NoKey
  Procs = {p1}
  Roots = {r1, r2}
  Keys = {k1}
  Heights = {7}
  KeysOf <- SameKeyOf
  MaxTime = 1
  MaxLog = 2
  Setups <- PlainSetups
INVARIANTS OrderIndexesMeta
CHECK_DEADLOCK FALSE
