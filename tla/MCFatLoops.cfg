SPECIFICATION LoopsSpec
CONSTANTS
  MaxCluster = 5
  MaxCount = 4
INVARIANTS CallsTypeOK HintTight
PROPERTIES LoopsImplementCalls WalkEndsAtLast LoopsReturn
CHECK_DEADLOCK FALSE
