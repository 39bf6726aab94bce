SPECIFICATION Spec
CONSTANTS
  BlockSize = 8
  SuperblockOffset = 2
  SuperblockSize = 2
  NameLen <- MCNameLen
  Dot = 2
  DotDot = 3
  Root = 0
  Gone = Gone
  Hosts <- MCEmptyHosts
  RewriteSizes <- MCRewriteSizes
  MaxWrites = 2
  MaxNameLen = 4
  MaxBlock = 8
  DefaultMaxDepth = 3
  ReadSizes <- MCReadSizes
  Depths <- MCDepths
  Slash <- MCSlash
  Lossy <- MCLossy
  Given = {}
  FromHost = FromHost
  Unmapped = 8
  JumpSizes = {2}
PROPERTY ChangedFilesAreRefused
