CONSTANTS
  Seats = {1, 2}
  Bookings = {b1, b2}
  Requests = {r1, r2}
  Ticker = ticker
  None = None
  Priced = {1, 2}
  MaxTickets = 2
  HoldTime = 1
  MaxDeadlockRetries = 2
  Operations = {"hold", "confirm", "cancel", "release"}
  Straddling = FALSE
  MaxClock = 3
  MaxFaults = 1
SPECIFICATION Spec
SYMMETRY Interchangeable
INVARIANTS LiveBookingKeepsSeats NoDoubleBooking ShownTruthfully
PROPERTIES SettledIsFinal ImplementsSale
