SPECIFICATION Spec
CONSTANTS
  Procs = {p1}
  Options <- MCPlain
  Commits = {c1}
  Repo <- MCRepo
  Order <- MCOrder
  Names <- MCNames
  Unsafe <- MCUnsafe
  Reserved <- MCReserved
  Blocks <- MCBlocks
  Bad <- MCBad
  MaxParts = 5
  MAX_PARTS = 3
  Missing = Missing
  Link = Link
  Unreadable = Unreadable
  Malformed = Malformed
  Unsigned = Unsigned
  Foreign = Foreign
  Cut = Cut
  Keys = {k1}
  KeyId <- MCKeyId
  FirstKeys = {k1}
  NoKey = NoKey
  OneVolume = FALSE
  Room <- MCAmple
  NoChunks = NoChunks
  NoFile = NoFile
  NoCommit = NoCommit
  Verifier = V
  FirstDests = {"dir"}
  Clock = {t1}
  MaxRuns = 2
  MaxCrashes = 0
  MaxErrors = 0
  MaxFaults = 1
  MaxRemovals = 0
  A = A
  B = B
  C = C
  D = D
  E = E
  X = X
  V = V
  k1 = k1
  id1 = id1
  c1 = c1
  c2 = c2
  c3 = c3
  c4 = c4
  c5 = c5
  c6 = c6
  c7 = c7
  t1 = t1
  t2 = t2
  p1 = p1
  p2 = p2
CHECK_DEADLOCK FALSE
INVARIANT AdviceWorks
