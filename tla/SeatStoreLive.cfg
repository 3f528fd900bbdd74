CONSTANTS
  Seats = {1, 2}
  Bookings = {b1, b2}
  Requests = {r1}
  Ticker = ticker
  None = None
  Priced = {1, 2}
  MaxTickets = 0
  HoldTime = 0
  MaxDeadlockRetries = 2
  Operations = {"hold", "confirm", "cancel"}
  Straddling = TRUE
  MaxClock = 1
  MaxFaults = 1
SPECIFICATION FairSpec
PROPERTIES TransactionsEnd ExpiredHoldsEnd
