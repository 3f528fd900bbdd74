CONSTANTS
  Seats = {s1, s2}
  Owners = {o1, o2}
  None = None
  TTL = 2
  Overstay = FALSE
  MaxFaults = 1
SPECIFICATION FairAppSpec
INVARIANTS AppTypeOK OneHoldPerSeat AllOrNothing NoRequestOutlivesItsStores GracefulStopLeavesNothing
PROPERTIES OwnersUnlock RefusedForACall ImplementsLocks HoldsEnd SignalsEndTheProcess
