SPECIFICATION FairSpec
CONSTANTS
  Sizes <- MCSizes
  ChunkSizes <- MCChunks
  NoChunks = NoChunks
  BufSize = 3
  NoFile = NoFile
  MaxResizes = 2
CHECK_DEADLOCK FALSE
INVARIANTS TypeOK NoPartTooLong PartsTile DiskAsDeclared CountAsPredicted
PROPERTIES ImplementsPlan Terminates
