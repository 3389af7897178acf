SPECIFICATION Spec
CONSTANTS
  Keys = {deployment, pod}
  Versions = {1, 2}
  Sound = {1}
  LLM = {0, 100}
  Fallback = 80
  Threshold = 75
  MaxRollouts = 3
  MaxFaults = 1
PROPERTY RollbackLeavesVersion
CHECK_DEADLOCK FALSE
