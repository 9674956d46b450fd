CONSTANTS
  Requests = {r1}
  Routes = {"r/utxo"}
  WithoutSats = {}
  IndexSats = {TRUE}
  IndexAddresses = TRUE
  TxIndex = TRUE
  MaxPresses = 2
  MaxBlocks = 1
SPECIFICATION FairSpec
PROPERTY RequestsAnswered
CHECK_DEADLOCK FALSE
