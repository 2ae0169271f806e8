SPECIFICATION Spec
CONSTANTS
  Polls = {p1}
  None = None
  MaxEvents = 2
  Recent = 2
  Keys = 2
  Cooldown = 1
  Stamps = {1, 3}
  Unreadable = FALSE
  MaxChanges = 3
INVARIANTS RestartKeepsCooldown
