\* Two processes, two valid appends and one the schema refuses, two repairs
\* or creations beyond the first, one power loss.
CONSTANTS
  Writers = {w1, w2}
  Entries = {a, b, x}
  Invalid = {x}
  Repair = Repair
  NoWriter = NoWriter
  MaxFile = 3
  MaxPowerLoss = 1
SPECIFICATION Spec
SYMMETRY Symmetry
INVARIANTS
  AckedDurable
  RefusedNeverWritten
  InOrder
  ReadsStayPrefix
  JournalInv
PROPERTIES
  BackupBeforeRepair
  ImplementsDurableLog
