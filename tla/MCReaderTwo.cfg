SPECIFICATION Spec
CONSTANTS
  Names <- MCNames
  Unsafe <- MCUnsafe
  Blocks <- MCBlocks
  Tools <- MCTools
  ManifestType <- MCManifests
  MaxParts = 4
  Missing = Missing
  Link = Link
  Unreadable = Unreadable
  Malformed = Malformed
  Procs = {p1, p2}
  Options <- ForcedBlind
  Media <- GoodMedia
  Damage <- MCDamage
  FirstDest <- FreshDest
  FirstKind = "none"
  ReceiptName <- MCReceipt
  Suffix = Suffix
  Astray = Astray
  Missized <- MCMissized
  NoFile = NoFile
  Hole = Hole
  NoManifest = NoManifest
  MaxRuns = 3
  MaxChanges = 0
  MaxCrashes = 0
  MaxErrors = 1
  MaxStuck = 1
  p1 = p1
  p2 = p2
  A = A
  B = B
  C = C
  Old = Old
  V = V
CHECK_DEADLOCK FALSE
INVARIANTS  NoTempLeft
