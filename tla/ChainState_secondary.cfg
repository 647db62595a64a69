SPECIFICATION Spec
CONSTANTS
  Blocks = {"g", "a1", "b1", "b2", "b3", "b4"}
  Genesis = "g"
  Prev <- MCPrev
  Height <- MCHeight
  Ancestors <- MCAncestors
  Txs <- MCTxs
  Vtx <- MCDoubleSpend
  Vin <- MCVin
  Trust <- MCOutweighs
  Signed = {"b1"}
  Mode = "STRICT"
  Faults = {}
  MaxFaults = 0
  None = None
INVARIANTS BestCommitted
CHECK_DEADLOCK FALSE
