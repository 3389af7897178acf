\* The deployed values of the loop's breaker (five failures, five minutes in ticks
\* of 30 seconds); two actors of each other part, whose behaviours end.
SPECIFICATION AllSpec
CONSTANTS
  Callers = {c1, c2}
  FailureThreshold = 2
  Recovery = 1
  MaxCommandFaults = 1
  Keys = {deployment, pod}
  Versions = {1, 2}
  Sound = {1}
  LLM = {0, 100}
  Fallback = 80
  Confident = 75
  MaxRollouts = 3
  MaxQueryFaults = 1
  Pods = {pod1, pod2}
  Files = {oom, crash}
  Retries = 2
  MaxStarts = 3
  MaxPodFaults = 1
  MaxCopies = 2
  Threshold = 5
  ResetSeconds = 10
  Loop = scheduler
  Readers = {api1, api2}
CHECK_DEADLOCK FALSE
INVARIANTS CutsOnlyAStreak UselessRestartsStop UndisturbedStartIndexes
PROPERTIES PauseIsKept CutLoopIsRetried PauseEndsByOlderUse ReadyAgain
