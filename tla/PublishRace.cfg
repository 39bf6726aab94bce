SPECIFICATION Spec
CONSTANTS
  Process = {p1, p2}
  Hash = {"a", "b"}
  Pid = {1, 2}
  MaxPowerLosses = 1
  Nobody = Nobody
INVARIANTS
  LostRaceIsNotAnError
