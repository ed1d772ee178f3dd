SPECIFICATION Spec
CONSTANTS
  r1 = r1
  r2 = r2
  r3 = r3
  Default = Default
  Requests = {r1, r2, r3}
  Kinds = {"pool", "keyless", "record", "play", "lookup", "cancel", "stats"}
  Faults = {"put", "agent", "refuse", "read", "kill"}
  MaxCrashes = 1
SYMMETRY RequestSymmetry
INVARIANTS JobsAreRecorded PlainSuccessComplete
