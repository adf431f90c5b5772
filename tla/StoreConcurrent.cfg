CONSTANTS
  p1 = p1
  p2 = p2
  Requests = {r1, r2}
  Passwords <- TwoPasswords
  BadLength = BadLength
  Keep = Keep
  NoHash = NoHash
  Missing = Missing
  Unreadable = Unreadable
  Free = Free
  ExternalEdits <- NoEdits
  SaveFaults <- MayFail

SPECIFICATION FairStoreSpec
INVARIANTS
  ArmedImpliesConfigured
  NeverTorn
  SetAndArmIsAccepted
PROPERTIES
  PasswordIsNeverLost
  ImplementsRegister
  RequestsAreAnswered
