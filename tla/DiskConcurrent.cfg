CONSTANTS
  w1 = w1
  w2 = w2
  sda = sda
  sdb = sdb
  sdc = sdc
  sda1 = sda1
  sda2 = sda2
  sdb1 = sdb1
  sdb2 = sdb2
  sdb3 = sdb3
  sda3 = sda3
  crypt = crypt
  vg = vg
  md = md
  cswap = cswap
  root = root
  varbackup = varbackup
  home = home
  Data = Data
  NoLabel = NoLabel
  NoPath = NoPath
  RootPath = root
  Detachable <- ThreeDisks
  Disks <- ThreeDisks
  FirstMounts <- WideMounts
  FirstSwaps <- NoNodes
  FsType <- Types
  Fstab <- FewBackupFstab
  Label <- Labels
  LiesOn <- WideStack
  Mapped <- OnlyVg
  Parts <- WideParts
  Protected <- ProtectedPaths
  Pullable <- OnlyData
  Stacked <- OnlyVg
  Workers <- TwoWorkers

SPECIFICATION Spec
SYMMETRY Symmetry
INVARIANTS
  RootStays
