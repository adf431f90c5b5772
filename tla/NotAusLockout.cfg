CONSTANTS
  p1 = p1
  Requests = {}
  Callers = {c1, c2, c3}
  Passwords <- OnePassword
  BadLength = BadLength
  WrongPassword = WrongPassword
  Keep = Keep
  NoHash = NoHash
  Missing = Missing
  Unreadable = Unreadable
  Free = Free
  ExternalEdits <- ArmAndDelete
  SaveFaults <- NoFaults
  WrapperFaults <- AnyFault
  MaxFailures = 2
  LockoutTicks = 2

SPECIFICATION Spec
SYMMETRY SymmetricCallers
INVARIANTS
  GuessBudget
PROPERTIES
  CooldownOnlyEndsFor
