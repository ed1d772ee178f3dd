SPECIFICATION Spec
CONSTANTS
  r1 = r1
  r2 = r2
  r3 = r3
  Default = Default
  Requests = {r1, r2, r3}
  Kinds = {"record", "cancel"}
  Faults = {}
  MaxCrashes = 0
PROPERTY RequestsAnswered
