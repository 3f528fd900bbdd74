CONSTANTS
  Seats = {1, 2}
  Bookings = {b1, b2}
  Requests = {r1, r2}
  Ticker = ticker
  None = None
  Priced = {1, 2}
  MaxTickets = 2
  HoldTime = 1
  MaxDeadlockRetries = 2
  Operations = {"hold", "confirm", "cancel", "release"}
  Straddling = TRUE
  MaxClock = 3
  MaxFaults = 0
SPECIFICATION Spec
SYMMETRY Interchangeable
INVARIANTS TypeOK HeldSeatBacked HoldsNeverDeadlock
PROPERTIES HoldNeverTakesLiveSeat ReleaserFreesOnlyLapsedSeats SettledOnce
