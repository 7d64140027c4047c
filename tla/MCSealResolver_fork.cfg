CONSTANTS
  Fund = fund
  Closers = {c1, c2}
  MaxHeight = 4
  MaxForks = 1
  NetworkId = "btq"
  FundScript <- MCScript
  NoLeaf = NoLeaf
  NoTx = NoTx
  NoBlock = NoBlock
  MaxReorg = 2
  Seals <- ClosableSeals
  PqLeaves <- MCLeaves
SPECIFICATION Spec
INVARIANT ClosedValidWasFinal
