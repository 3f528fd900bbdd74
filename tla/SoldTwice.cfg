CONSTANTS
  Seats = {1}
  Bookings = {b1, b2}
  Requests = {r1, r2}
  Ticker = ticker
  None = None
  Priced = {1}
  MaxTickets = 0
  HoldTime = 1
  MaxDeadlockRetries = 2
  Operations = {"hold", "confirm"}
  Straddling = TRUE
  MaxClock = 3
  MaxFaults = 0
SPECIFICATION Spec
SYMMETRY Interchangeable
INVARIANT SeatSoldOnce
