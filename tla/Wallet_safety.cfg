SPECIFICATION WalletsSpec
CONSTANTS
  Blocks = {"g", "a1", "a2", "b1", "b2", "b3", "d2", "z3"}
  Genesis = "g"
  Prev <- MCPrev
  Height <- MCHeight
  Ancestors <- MCAncestors
  Txs <- MCTxs
  Vin <- MCVin
  Vtx <- MCVtx
  Trust <- MCTrust
  Mine = {"c", "e", "s", "x", "i"}
  Own = {"x", "y", "y2"}
  Coinbases = {"c", "e", "f"}
  Stakes = {"s"}
  Bad = {"z3"}
  TxnFails = TRUE
  HashOrder <- MCHashOrder
  None = None
  Clients = {k1, k2}
  Target = 1
  MaxKeys = 4
  MaxCompactions = 1
SYMMETRY MCSymmetry
CHECK_DEADLOCK FALSE
INVARIANTS ChainSpendsMarked StakesRefunded Recorded CommitAccepted UsedOnce KeysDurable WhollyEncrypted
