SPECIFICATION Spec
CONSTANTS
  p1 = p1
  p2 = p2
  LeafHash <- MCLeafHash
  Junk <- MCJunk
  TxidLength = 2
  Dilithium5 = FALSE
  Oversized <- MCOversized
  PqScripts <- MCPqScripts
  Scripts <- MCScripts
  Mpcs <- MCMpcs
  Txids <- MCTxids
  Others <- MCOthers
  Numbers = {1}
  MaxLeaves = 3
  MaxByte = 3
  MaxFaults = 1
INVARIANTS ExchangeTypeOK RoundTrip AcceptedIsEncoding DigestTellsSealsApart PayloadBindsOutpoint RetBindsOneCommitment MultiBindsTheList ProvenIsLeaf FoundIsVerified
CHECK_DEADLOCK FALSE
