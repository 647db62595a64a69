SPECIFICATION SyncSpec
CONSTANTS
  Peers = {1, 2, 3}
  None = None
  Prompt = {2}
  Blocks <- ChainBlocks
  Genesis = "g"
  Prev <- MCPrev
  Height <- MCHeight
  Trust <- MCTrust
  Ancestors <- MCAncestors
  PeerChain <- SameChain
  HashOrder <- MCHashOrder
  Flaky = {}
  Announced = {}
  MAX_BLOCKS_IN_FLIGHT_PER_PEER = 1
  BLOCK_DOWNLOAD_WINDOW = 2
  BLOCK_DOWNLOAD_TIMEOUT = 3
  BLOCK_STALL_TIMEOUT = 1
  SYNC_HEADERS_RETRY = 2
  SYNC_PEER_STALL_TIMEOUT = 9
  HEIGHT_PRUNE_INTERVAL = 2
  MAX_HEADERS = 3
  HEADERS_LOOKAHEAD = 2
  MAX_ORPHAN_BLOCKS = 2
  TotalBlocksEstimate = 3
  OrphanBlocks = {"g", "a1", "a2", "a3", "a4", "a5", "b1", "b2", "b3", "d3"}
  FlakyOrphans = {"a2", "b2"}
  ORPHAN_BLOCKS = 3
  MAX_ORPHANDRAIN_BLOCKS = 2
INVARIANT BufferExact
PROPERTIES DownloadEnds ConnectedAboveBest
CHECK_DEADLOCK FALSE
