CONSTANTS
  w1 = w1
  w2 = w2
  sda = sda
  sdb = sdb
  sdc = sdc
  sda1 = sda1
  sda2 = sda2
  sdb1 = sdb1
  sdb2 = sdb2
  sdb3 = sdb3
  sda3 = sda3
  crypt = crypt
  vg = vg
  md = md
  cswap = cswap
  root = root
  varbackup = varbackup
  home = home
  Data = Data
  NoLabel = NoLabel
  NoPath = NoPath
  RootPath = root
  Detachable <- TwoDisks
  Disks <- TwoDisks
  FirstMounts <- PlainMounts
  FirstSwaps <- NoNodes
  FsType <- Types
  Fstab <- NoFstab
  Label <- Namesake
  LiesOn <- PlainStack
  Mapped <- NoNodes
  Parts <- FewParts
  Protected <- ProtectedPaths
  Pullable <- NoNodes
  Stacked <- NoNodes
  Workers <- OneWorker

SPECIFICATION Spec
INVARIANTS
  NeverOvermounts
