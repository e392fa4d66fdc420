SPECIFICATION FerrySpec
CONSTANTS
  Procs = {p1}
  Options <- MCOptions
  Commits = {c1, c2}
  Repo <- MCRepo
  Order <- MCOrder
  Names <- MCNames
  Unsafe = {}
  Reserved = {}
  Blocks <- MCBlocks
  Bad <- MCBad
  MaxParts = 4
  MAX_PARTS = 2
  Missing = Missing
  Link = Link
  Unreadable = Unreadable
  Malformed = Malformed
  Unsigned = Unsigned
  Foreign = Foreign
  Cut = Cut
  Keys = {k1}
  KeyId <- MCKeyId
  FirstKeys = {k1}
  NoKey = NoKey
  OneVolume = FALSE
  Room <- MCRoom
  NoChunks = NoChunks
  NoFile = NoFile
  NoCommit = NoCommit
  Verifier = V
  FirstDests = {"dir"}
  Clock = {t1}
  MaxRuns = 2
  MaxCrashes = 0
  MaxErrors = 0
  MaxFaults = 0
  MaxRemovals = 0
  Readers = {r1}
  ReaderOptions <- MCReading
  ReceiptName <- MCReceipt
  Suffix = Suffix
  Astray = Astray
  Hole = Hole
  NoManifest = NoManifest
  MaxReads = 2
  MaxCarries = 2
  MaxLooks = 1
  A = A
  B = B
  C = C
  X = X
  k1 = k1
  id1 = id1
  c1 = c1
  c2 = c2
CHECK_DEADLOCK FALSE
INVARIANTS InspectedDelivered PackedUnpacks
PROPERTIES Implements
