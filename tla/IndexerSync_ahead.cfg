CONSTANTS
  Fund = fund
  Closers = {c1, c2}
  MaxHeight = 4
  MaxReorg = 2
  MaxForks = 1
  Seal = seal
  TipFirst = FALSE
  NoTx = NoTx
  NoHash = NoHash
  NoEntry = NoEntry
SPECIFICATION Spec
INVARIANT RollbackForgets
CHECK_DEADLOCK FALSE
