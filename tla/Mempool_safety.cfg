SPECIFICATION Spec
CONSTANTS
  Blocks = {"g", "a1", "a2", "b1", "b2", "b3", "d2", "d3", "d4"}
  Genesis = "g"
  Prev <- MCPrev
  Height <- MCHeight
  Ancestors <- MCAncestors
  Txs <- MCTxs
  Vin <- MCVin
  Vtx <- MCVtx
  Trust <- MCHeight
  Generated = {"c", "e", "k"}
  Malformed = {}
  Invalid = {"u"}
  Large = {"l"}
  Skipped = {"l"}
  Lock <- MCLock
  nCoinbaseMaturity = 1
  TotalBlocksEstimate = 0
  MAX_ORPHAN_TRANSACTIONS = 2
  MaxBlockTxs = 2
  None = None
INVARIANTS IndexesExact PoolOutsideChain BlockConnects
PROPERTIES OrphansResolved NothingLost BlockComplete
