SPECIFICATION PeersSpec
CONSTANTS
  Services <- MCServices
  Ip <- MCIp
  Sources = {"x", "y"}
  NewBuckets = {1, 2}
  TriedBuckets = {1, 2}
  NewBucketOf <- MCNewBucketOf
  TriedBucketOf <- MCTriedBucketOf
  ADDRMAN_NEW_BUCKET_SIZE = 1
  ADDRMAN_TRIED_BUCKET_SIZE = 1
  ADDRMAN_NEW_BUCKETS_PER_ADDRESS = 2
  ADDRMAN_GETADDR_MAX_PCT = 67
  MaxIds = 5
  Nodes = {n1, n2}
  Addrs = {a}
  Openers = {o1, o2}
  nMaxOutbound = 2
  nMaxInbound = 1
  None = None
SYMMETRY MCSymmetry
INVARIANTS Consistent RoundTrip UsedAreAlive 
