CONSTANTS
  NUM_PT_ENTRIES = 8
  KernelSlot = 6
  PdeTables = 3
  Split = 9
  Image = {0, 1}
  MaxTlb = 2
  Bit24 = 8
SPECIFICATION MmuSpec
INVARIANTS
  QueryAnswers
CHECK_DEADLOCK FALSE
