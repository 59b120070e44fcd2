CONSTANTS
  Messages = {m1}
  BestEffort = {m1}
  Slots = {r1, r2}
  MaxRetries = 2
  NoEntry = NoEntry
SPECIFICATION FairSpec
INVARIANT DeliveryTypeOK
INVARIANT AcceptedIsKept
INVARIANT DuplicateHasCause
INVARIANT SettledStaysSettled
PROPERTY RecoveryAdvances
CHECK_DEADLOCK FALSE
