\* One process at a time is enough for liveness; it may crash and come back.
CONSTANTS
  Writers = {w1, w2}
  Entries = {a, b, x}
  Invalid = {x}
  Repair = Repair
  NoWriter = NoWriter
  MaxFile = 2
  MaxPowerLoss = 0
SPECIFICATION FairSpec
PROPERTY CallsSettle
