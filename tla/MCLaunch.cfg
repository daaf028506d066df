SPECIFICATION Spec
CONSTANTS
  Pid = {1, 2, 3}
  Main = 1
  PipeSize = 2
  MaxForks = 3
INVARIANTS
  TypeOK
  OnlyOwnKilled
  NoSurvivors
  OutputKept
PROPERTY
  LaunchEnds
CHECK_DEADLOCK FALSE
