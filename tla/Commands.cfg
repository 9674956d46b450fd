SPECIFICATION AllSpec
CONSTANTS
  Procs = {p1, p2}
  Roots = {r1, r2}
  Prices = {1, 2, 5}
  Fee = 1
  Threshold = 5
  Setups <- MCSetups
  MaxInvoices = 2
  Faults = {"crash", "io"}
  NoRoot = NoRoot
  None = None
  Jobs <- PackJobs
  LtpJobs <- TransportJobs
  PeerFrames <- Frames
  LtpChain = "regtest"
  MaxJobs = 2
  MaxFaults = 1
  MaxCrashes = 1
  MaxDepth = 1
  Ttl = 0
  MaxReceived = 2
  MaxClock = 1
INVARIANTS
  SettledWasChallenged PaidIsSettleable HashedSettledByOwnInvoice
  UndisturbedPackVerifies VerifiedPackDecodes ManifestIsReadyMarker LtpFilesSound
CHECK_DEADLOCK FALSE
