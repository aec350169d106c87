CONSTANTS
  Zones = {"low", "high"}
  Base <- MCBase
  Frames <- MCFrames
  PageSize = 2
  Lists = {l1, l2}
  MaxCount = 3
  MaxAddress = 4
  mmu_initial_mappings <- MCMappings
  NULL = NULL
SPECIFICATION Spec
INVARIANTS TypeOK FreeCountMatches FlagTellsFree OneOwner OnlyWithoutAddressLost
           UnassignedOnlyWhenExhausted
PROPERTIES RangeStopsForCause CallEnds ImplementsPmmSpec
CHECK_DEADLOCK FALSE
