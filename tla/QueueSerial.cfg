CONSTANTS
  Users = {u1, u2, u3}
  Requests = {r1, r2}
  NoUser = NoUser
  MaxActive = 1
  SessionTTL = 2
  LockTTL = 2
  Overstay = FALSE
  MaxFaults = 1
SPECIFICATION Spec
SYMMETRY Interchangeable
INVARIANTS OneOperationAtATime NoGhosts AnswersHold
PROPERTIES LiveUsersKeepTheirPlace NoOvertaking ImplementsRoom
