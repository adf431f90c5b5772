CONSTANTS
  Pids = {p1, p2}
  MaxBytes = 2
  Period = 1
  MaxBlocks = 2
  EnergyRange = 4
  RangeKnown = TRUE
  Sources = {net}
  Procs = {q1}
  RingCap = 2
  MaxGpus = 2
  MaxWatts = 2
  MaxCount = 2
  MaxSamples = 3
  Names = {sda}
  Disks = {d1, d2}
  Silent = {d2}
  ThermalCap = 2
  MaxRows = 1
  Callers = {r1, r2, sh}
  CommandLine = {sh}
  Bodies <- MCBodies
  Readers = {"u1", "u2"}
  Rights = {"thermal", "power"}
  Derived = {"reason"}
  Admin = "sudo"
  Memberships <- MCMemberships
  Routes <- MCRoutes
  Slices = {"c1", "c2"}
SPECIFICATION HostSpec
INVARIANTS
  FeedsAreHonest
  TrafficIsAccounted
  HistoryIsCoherent
  ChartFollowsProbes
  HeadlessSettles
  AnswerIsTrue
  RightsDecideWhatIsSeen
PROPERTIES
  ChartSlides
  PluggedDiskIsCharted
  UnpluggedDiskLeavesChart
