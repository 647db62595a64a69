SPECIFICATION Spec
CONSTANTS
  Peers = {1, 2}
  None = None
  Prompt = {2}
  Blocks <- ForkBlocks
  Genesis = "g"
  Prev <- MCPrev
  Height <- MCHeight
  Trust <- MCTrust
  Ancestors <- MCAncestors
  PeerChain <- ForkChains
  HashOrder <- MCHashOrder
  Flaky = {"a2"}
  Announced = {"a2"}
  MAX_BLOCKS_IN_FLIGHT_PER_PEER = 2
  BLOCK_DOWNLOAD_WINDOW = 1
  BLOCK_DOWNLOAD_TIMEOUT = 1
  BLOCK_STALL_TIMEOUT = 0
  SYNC_HEADERS_RETRY = 1
  SYNC_PEER_STALL_TIMEOUT = 2
  HEIGHT_PRUNE_INTERVAL = 1
  MAX_HEADERS = 3
  HEADERS_LOOKAHEAD = 1
  MAX_ORPHAN_BLOCKS = 1
  TotalBlocksEstimate = 1
INVARIANTS TrackedNotLost WithinWindows
PROPERTIES TrackedUntilHeld
