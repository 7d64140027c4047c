CONSTANTS
  Fund = fund
  Closers = {c1, c2}
  MaxHeight = 4
  MaxForks = 1
  NetworkId = "btq"
  FundScript <- MCScript
  NoLeaf = NoLeaf
  NoTx = NoTx
  NoBlock = NoBlock
  MaxReorg = 1
  Seals <- ClosableSeals
  PqLeaves <- TwoLeaves
SPECIFICATION Spec
INVARIANT RootRecomputed
