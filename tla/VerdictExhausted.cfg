SPECIFICATION Spec
CONSTANTS
  Profile = {"rust", "fsck"}
  Limit = 3
  MaxLines = 2
  MaxErrors = 0
INVARIANTS
  ExhaustionIsNotTheImage
