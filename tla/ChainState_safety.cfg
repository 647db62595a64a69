SPECIFICATION NoLateAbort
CONSTANTS
  Blocks = {"g", "a1", "a2", "a3", "b1", "b2", "b3", "b4", "c2", "c3", "c4"}
  Genesis = "g"
  Prev <- MCPrev
  Height <- MCHeight
  Ancestors <- MCAncestors
  Txs <- MCTxs
  Vtx <- MCDoubleSpend
  Vin <- MCVin
  Trust <- MCTrust
  Signed = {"a1", "b1", "b2", "c2"}
  Mode = "STRICT"
  Faults = {"crash", "commit"}
  MaxFaults = 2
  None = None
INVARIANTS TxIndexMatches NextMatches BestCommitted MostTrust SyncInMainChain
PROPERTIES SyncAdvances TrustFallsToCheckpoint
CHECK_DEADLOCK FALSE
