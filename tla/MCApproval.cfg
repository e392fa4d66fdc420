SPECIFICATION ApprovalSpec
CONSTANTS
  Procs = {p1, p2}
  Options <- MCOptions
  Commits = {c1}
  Repo <- MCRepo
  Order <- MCOrder
  Names <- MCNames
  Unsafe = {}
  Reserved = {}
  Blocks <- MCBlocks
  Bad <- MCBad
  MaxParts = 2
  MAX_PARTS = 1
  Missing = Missing
  Link = Link
  Unreadable = Unreadable
  Malformed = Malformed
  Unsigned = Unsigned
  Foreign = Foreign
  Cut = Cut
  Keys = {k1, k2}
  KeyId <- MCKeyId
  FirstKeys = {k1, Foreign}
  NoKey = NoKey
  OneVolume = FALSE
  Room <- MCRoom
  NoChunks = NoChunks
  NoFile = NoFile
  NoCommit = NoCommit
  Verifier = V1
  FirstDests = {"dir"}
  Clock = {t1, t2}
  MaxRuns = 2
  MaxCrashes = 0
  MaxErrors = 0
  MaxFaults = 0
  MaxRemovals = 0
  MaxKills = 1
  MaxLooks = 1
  A = A
  X = X
  k1 = k1
  k2 = k2
  id1 = id1
  id2 = id2
  c1 = c1
CHECK_DEADLOCK FALSE
SYMMETRY MCSymmetry
INVARIANTS ValidMeansSigned BlockNamesSigner SignedBundleVerifies
