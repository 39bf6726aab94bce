SPECIFICATION Spec
CONSTANTS
  Profile = {"rust", "fsck", "linux"}
  Limit = 3
  MaxLines = 4
  MaxErrors = 2
INVARIANTS
  VerdictIsEarned
  CrashesAreTold
