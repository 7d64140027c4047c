CONSTANTS
  Seals <- MCSeals
  Unbound = Unbound
  PlainSizes <- MCSizes
  CommitmentSize = 130
  Window = 2
  LeafLimit = 256
  SpkLimit = 4096
  MaxOutputs = 3
SPECIFICATION Spec
INVARIANT DuplicatesRejected
