SPECIFICATION FairSpec
CONSTANTS
  Requests = {r1, r2, r3}
  LastSeat = 3
INVARIANTS NoWaitCycle
PROPERTIES ImplementsAtomicConfirm EveryConfirmEnds
\* Every confirm ends.
CHECK_DEADLOCK FALSE
