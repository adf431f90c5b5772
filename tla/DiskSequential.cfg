CONSTANTS
  w1 = w1
  w2 = w2
  sda = sda
  sdb = sdb
  sdc = sdc
  sda1 = sda1
  sda2 = sda2
  sdb1 = sdb1
  sdb2 = sdb2
  sdb3 = sdb3
  sda3 = sda3
  crypt = crypt
  vg = vg
  md = md
  cswap = cswap
  root = root
  varbackup = varbackup
  home = home
  Data = Data
  NoLabel = NoLabel
  NoPath = NoPath
  RootPath = root
  Detachable <- ThreeDisks
  Disks <- ThreeDisks
  FirstMounts <- DeepMounts
  FirstSwaps <- DeepSwaps
  FsType <- Types
  Fstab <- BackupFstab
  Label <- Labels
  LiesOn <- DeepStack
  Mapped <- DeepMapped
  Parts <- DeepParts
  Protected <- ProtectedPaths
  Pullable <- OnlyData
  Stacked <- DeepStacked
  Workers <- OneWorker

SPECIFICATION Spec
INVARIANTS
  EjectedLeavesNoDirectory
  NeverOvermounts
PROPERTIES
  ProtectedMountsStay
  RefusalTouchesNothing
  DetachIsClean
  ImplementsStorage
