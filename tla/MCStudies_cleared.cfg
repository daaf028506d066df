SPECIFICATION Spec
CONSTANTS
  CPU = {0, 1, 2}
  Siblings = {2}
  MeasureCPU = {1}
  Tid = {1, 2}
  MaxBirths = 1
  MaxExits = 1
  NoTask = NoTask
  Callers = {"record", "diagnose", "hand"}
  Clients = {"record", "diagnose", "hand"}
  NoFile = NoFile
  NoRecovery = NoRecovery
  Sessions = 2
  Rounds = 1
  Programs = 1
  Repetitions = 2
  Warmup = 1
  MaxFaults = 2
  MaxStudies = 1
INVARIANT ClearedMeansEveryTask
CHECK_DEADLOCK FALSE
