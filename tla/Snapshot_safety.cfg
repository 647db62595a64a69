SPECIFICATION FairSpec
CONSTANTS
  Peers = {1, 2}
  ChainAt <- MCChainAt
  Files <- MCFiles
  IndexFiles <- MCIndexFiles
  Size <- MCSize
  MaxGrow = 1
  SNAP_CHUNK_BYTES = 2
  SNAP_PEER_TIMEOUT = 0
  SNAP_GIVEUP_SECONDS = 0
  Faults = {"crash", "disconnect", "disk"}
  MaxFaults = 1
  MaxUnasked = 1
  None = None
INVARIANTS AppliedWhole RejectedNeverRuns
PROPERTY FetchEnds
CHECK_DEADLOCK FALSE
