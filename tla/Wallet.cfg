SPECIFICATION WalletSpec
CONSTANTS
  Subsidy = 2
  MaxHeight = 3
  MaxTxs = 6
  BaseBits = 4
  DeltaBits = 3
  IndexHeight = 2
  IndexTxs = 5
  Procs = {p1, p2}
  Spenders = {p1}
  MaxTries = 1
  Mnemonics = {"m1", "m2"}
INVARIANTS SatsIndexed SentSatsArrive BroadcastIsReported MnemonicOpensWallet SatsListedWhereSendFinds
CHECK_DEADLOCK FALSE
