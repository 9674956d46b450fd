SPECIFICATION CallSpec
CONSTANTS
  MaxLeaves = 9
  MaxTxs = 6
  FIRST_SUBSIDY = 80
  LAST_EXACT = 4
  FIRST_POST_SUBSIDY = 7
  SUBSIDY_HALVING_INTERVAL = 13
  DIFFCHANGE_INTERVAL = 6
  COIN_VALUE = 8
  WordBits = 10
  MaxByte = 3
  SentinelLen = 3
  MAX_OTS_ORDER_PATH_LEN = 3
  SCHEMA_VERSION = 4
  MaxU32 = 3
  None = None
  Err = Err
INVARIANTS MigrationsChain
CHECK_DEADLOCK FALSE
