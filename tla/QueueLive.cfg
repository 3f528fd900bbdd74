CONSTANTS
  Users = {u1, u2, u3}
  Requests = {r1}
  NoUser = NoUser
  MaxActive = 1
  SessionTTL = 2
  LockTTL = 2
  Overstay = FALSE
  MaxFaults = 1
SPECIFICATION FairSpec
PROPERTIES LockIsReleased WaitingEnds
