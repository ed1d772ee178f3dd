SPECIFICATION Spec
CONSTANTS
  r1 = r1
  r2 = r2
  q1 = q1
  q2 = q2
  s1 = s1
  Owners = {r1, r2, q1, q2}
  Timed = {r1, q1}
  Requests = {r1, r2}
  Posts = {q1, q2}
  Stops = {s1}
  Hours = {h1}
  Jobs = {j1}
  NoJob = NoJob
  NoOne = NoOne
  MaxPid = 2
  PidReuse = FALSE
  Faults = {}
  MaxRestarts = 1
  Loads <- TwoPlaybacks
INVARIANT SignalsReachTheirOwn
