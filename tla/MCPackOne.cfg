SPECIFICATION FairSpec
CONSTANTS
  Procs = {p1}
  Options <- MCOptions
  Commits = {c1, c2, c3, c4, c5, c6, c7}
  Repo <- MCRepo
  Order <- MCOrder
  Names <- MCNames
  Unsafe <- MCUnsafe
  Reserved <- MCReserved
  Blocks <- MCBlocks
  Bad <- MCBad
  MaxParts = 5
  MAX_PARTS = 3
  Missing = Missing
  Link = Link
  Unreadable = Unreadable
  Malformed = Malformed
  Unsigned = Unsigned
  Foreign = Foreign
  Cut = Cut
  Keys = {k1}
  KeyId <- MCKeyId
  FirstKeys = {k1, Missing, Foreign}
  NoKey = NoKey
  OneVolume = TRUE
  Room <- MCTight
  NoChunks = NoChunks
  NoFile = NoFile
  NoCommit = NoCommit
  Verifier = V
  FirstDests = {"none", "other"}
  Clock = {t1}
  MaxRuns = 2
  MaxCrashes = 1
  MaxErrors = 1
  MaxFaults = 1
  MaxRemovals = 1
  A = A
  B = B
  C = C
  D = D
  E = E
  X = X
  V = V
  k1 = k1
  id1 = id1
  c1 = c1
  c2 = c2
  c3 = c3
  c4 = c4
  c5 = c5
  c6 = c6
  c7 = c7
  t1 = t1
  t2 = t2
  p1 = p1
  p2 = p2
CHECK_DEADLOCK FALSE
INVARIANTS TypeOK SuccessIsVerified OnlyRefusals IntactMeansComplete
PROPERTIES IntactBundleKept Terminates
