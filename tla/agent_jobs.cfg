SPECIFICATION FairSpec
CONSTANTS
  r1 = r1
  r2 = r2
  q1 = q1
  q2 = q2
  s1 = s1
  Owners = {r1, r2, q1, q2}
  Timed = {r1, q1}
  Requests = {r1, r2}
  Posts = {q1, q2}
  Stops = {s1}
  Hours = {h1}
  Jobs = {j1}
  NoJob = NoJob
  NoOne = NoOne
  MaxPid = 2
  PidReuse = TRUE
  Faults = {"credentials", "put", "delete", "log", "url_put", "recorder",
            "playlist", "list", "item", "player"}
  MaxRestarts = 2
  Loads <- TwoOfAKindOrOneOfEach
INVARIANTS
  RecorderIsListed
  UrlsBeforeForget
  PlaysOnce
  PlayerIsListed
PROPERTIES
  AutoStop
  StopIsComplete
