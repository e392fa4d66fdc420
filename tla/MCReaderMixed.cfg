SPECIFICATION FairSpec
CONSTANTS
  Names <- MCNames
  Unsafe <- MCUnsafe
  Blocks <- MCBlocks
  Tools <- MCTools
  ManifestType <- MCManifests
  MaxParts = 4
  Missing = Missing
  Link = Link
  Unreadable = Unreadable
  Malformed = Malformed
  Procs = {p1}
  Options <- AllOptions
  Media <- MixedMedia
  Damage <- MCDamage
  FirstDest <- FreshDest
  FirstKind = "none"
  ReceiptName <- MCReceipt
  Suffix = Suffix
  Astray = Astray
  Missized <- MCMissized
  NoFile = NoFile
  Hole = Hole
  NoManifest = NoManifest
  MaxRuns = 2
  MaxChanges = 1
  MaxCrashes = 0
  MaxErrors = 1
  MaxStuck = 1
  p1 = p1
  p2 = p2
  A = A
  B = B
  C = C
  Old = Old
  V = V
CHECK_DEADLOCK FALSE
INVARIANTS TypeOK VerdictExact FinalFilesWhole CompleteOnSuccess
PROPERTIES Terminates
