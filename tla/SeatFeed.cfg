CONSTANTS
  Showtimes = {s1}
  Handlers = {h1}
  Releaser = releaser
  Clients = {c1, c2}
  None = None
  Capacity = 1
  MaxVersion = 1
  MaxFaults = 1
SPECIFICATION FairSpec
INVARIANTS TypeOK OnlyOpenChannels NoNewsLost
PROPERTIES BroadcastsEnd NewsArrives
