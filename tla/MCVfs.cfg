SPECIFICATION MCSpec
CONSTANTS
  fat32 = fat32
  ttyfs = ttyfs
  ramfs = ramfs
  dev = dev
  tty = tty
  ram = ram
  sub = sub
  file = file
  FileSystems = {fat32, ttyfs, ramfs}
  Nodes <- MCNodes
  Dirs <- MCDirs
  NullOnMiss = {fat32, ttyfs}
  Boot <- MCBoot
  Tasks = {t1, t2}
  Init0 = t1
  Paths <- MCPaths
  Slash = Slash
  Dot = Dot
  DotDot = DotDot
  None = None
  MaxHandles = 3
  MaxForks = 2
  Consoles <- MCConsoles
  NoFile = NoFile
  BlockSize = 2
  Trees <- MCTrees
  Lengths <- MCLengths
  Offsets <- MCOffsets
INVARIANTS CwdLeadsBack ResolvesAsMeant FilesOwned RamShowsArchive
PROPERTY ChangesHeld
CHECK_DEADLOCK FALSE
