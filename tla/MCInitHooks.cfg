CONSTANTS
  Hooks <- MCHooks
  StageOf <- MCStageOf
  PriorityOf <- MCPriorityOf
  MaxStage = 5
  Wrap = 256
SPECIFICATION Spec
INVARIANTS
  TypeOK
  StageTruthful
  
PROPERTIES
  CallsDelimit
  UptoReturns
