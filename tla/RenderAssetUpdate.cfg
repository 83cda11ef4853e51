SPECIFICATION FairSpec
CONSTANTS
  mip = mip
  Mips <- OneMip
  NoThread = NoThread
INVARIANTS
  MemorySafe
  UpdateAgrees
  TextureAgrees
PROPERTIES
  SuspensionIsQuiet
  UpdateCompletes
  SuspensionEnds
