CONSTANTS
  Gateway = gw
  Hosts = {gw, h}
  Remote = {r}
  Callers = {h, r}
  Servers = {s1, s2, s3}
  Bare = {s3}
  None = none
  Static = static
  RxSize = 2
  MaxArrivals = 4
  MaxCalls = 2
SPECIFICATION NetSpec
CHECK_DEADLOCK FALSE
INVARIANTS ReachesNextHop RepliesMatch
PROPERTIES CallsEnd
