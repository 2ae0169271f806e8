SPECIFICATION Spec
CONSTANTS
  Polls = {p1, p2}
  None = None
  MaxEvents = 2
  Recent = 2
  Keys = 2
  Cooldown = 1
  Stamps = {1, 3}
  Unreadable = TRUE
  MaxChanges = 4
SYMMETRY Alike
INVARIANTS NoDisconnectInvented AnnouncedOnce ReaderMissesNothing CooldownKept
