CONSTANTS
  p1 = p1
  Requests = {r1}
  Callers = {c1}
  Passwords <- OnePassword
  BadLength = BadLength
  WrongPassword = WrongPassword
  Keep = Keep
  NoHash = NoHash
  Missing = Missing
  Unreadable = Unreadable
  Free = Free
  ExternalEdits <- SomeEdits
  SaveFaults <- SaveMayFail
  WrapperFaults <- CleanRefused
  MaxFailures = 2
  LockoutTicks = 1

SPECIFICATION FairSpec
INVARIANTS
PROPERTIES
  PowerOffIsAuthorized
  CallersAreAnswered
  ConfirmedPowersOffOrDaemonDies
  ImplementsButton
