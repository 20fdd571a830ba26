SPECIFICATION WireSpec
CONSTANTS
  Hops = 3
  NewCodes <- MCNewCodes
  NewOperations <- MCNewOperations
  Payloads = {payload}
  NoPayload = NoPayload
  ExtraKeys = {hint}
\* A call that was answered is over.
CHECK_DEADLOCK FALSE
INVARIANTS
  ErrorsWhole
  Recognised
  VerdictsKept
  FailuresExplained
