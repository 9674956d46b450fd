CONSTANTS
  Requests = {r1, r2}
  Routes = {"removed", "static", "update", "status", "blocks", "rare.txt", "clock", "tx", "r/tx", "sat", "r/sat", "block", "output", "satpoint", "address", "satscard", "outputs_address", "input", "search", "fallback", "r/blockhash", "r/blockheight", "r/blocktime", "r/blockinfo", "commitment", "commitments", "content"}
  WithoutSats = {"r/utxo", "r/sat", "output", "status"}
  IndexSats = {TRUE, FALSE}
  IndexAddresses = TRUE
  TxIndex = TRUE
  MaxBlocks = 1
  MaxPresses = 2
  Digests = {d1, d2, d3}
  BatchMax = 2
  Priorities = {0, 1}
  MaxDepth = 3
  MaxSubmits = 4
SPECIFICATION AllSpec
INVARIANT NoExitDuringUpdate
PROPERTY RequestsAnswered
PROPERTY ShutdownCompletes
PROPERTY ImplementsBatchQueue
PROPERTY QueuedEventuallyTried
CHECK_DEADLOCK FALSE
