SPECIFICATION Spec
CONSTANTS
  CPU = {0, 1, 2}
  Siblings = {2}
  MeasureCPU = {1}
  Tid = {1, 2}
  MaxBirths = 0
  MaxExits = 0
  NoTask = NoTask
  Callers = {"record", "diagnose", "hand"}
  Clients = {"record", "diagnose", "hand"}
  NoFile = NoFile
  NoRecovery = NoRecovery
  Sessions = 2
  Rounds = 1
  Programs = 1
  Repetitions = 2
  Warmup = 1
  MaxFaults = 1
  MaxStudies = 1
INVARIANT RecordingLeavesMode
CHECK_DEADLOCK FALSE
