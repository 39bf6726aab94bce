SPECIFICATION RunsSpec
CONSTANTS
  Process = {p1, p2, p3}
  Pid = {1, 2}
  MaxRuns = 3
INVARIANTS
  RunsAreKept
  NoLitterFromTheLiving
