CONSTANTS
  Outpoints = {o1, o2}
  Txids = {t1}
  Tips <- MCTips
  MaxIndexed = 2
  NoTx = NoTx
  NoHash = NoHash
  NoEntry = NoEntry
SPECIFICATION SqliteSpec
INVARIANT SqliteTypeOK SpendFiled RollbackIsDurable TipIsDurable
PROPERTY ImplementsIndexer
