CONSTANTS
  Fund = fund
  Closers = {c1, c2}
  MaxHeight = 5
  MaxReorg = 2
  MaxForks = 2
  Seal = seal
  TipFirst = TRUE
  NoTx = NoTx
  NoHash = NoHash
  NoEntry = NoEntry
SPECIFICATION Spec
INVARIANT SyncTypeOK SpendOnChain
CHECK_DEADLOCK FALSE
PROPERTY Settles
