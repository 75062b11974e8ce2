CONSTANTS
  left = left
  center = center
  Line <- MCLine
  Center = center
  Mute <- NoMute
  MaxAge = 4
SPECIFICATION Spec
INVARIANTS
  EverySensorInTurn
CHECK_DEADLOCK TRUE
