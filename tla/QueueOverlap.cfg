CONSTANTS
  Users = {u1, u2}
  Requests = {r1, r2}
  NoUser = NoUser
  MaxActive = 1
  SessionTTL = 1
  LockTTL = 1
  Overstay = TRUE
  MaxFaults = 1
SPECIFICATION Spec
SYMMETRY Interchangeable
INVARIANTS TypeOK RoomWithinLimit AdmittedDoNotWait
PROPERTIES LineIsKept
