CONSTANTS
  Zones = {"low", "high"}
  Base <- MCBase
  Frames <- MCFrames
  PageSize = 2
  Lists = {l1, l2}
  MaxCount = 3
  MaxAddress = 4
  mmu_initial_mappings <- MCMappings
  NULL = NULL
SPECIFICATION Spec
PROPERTY FreedIsFree
CHECK_DEADLOCK FALSE
