CONSTANTS
  left = left
  center = center
  Line <- MCLine
  Center = center
  Mute <- MCMute
  MaxAge = 4
SPECIFICATION Spec
INVARIANTS
  TypeOK
  NeverSwapped
  EndMinusStart
  MissIsForgotten
CHECK_DEADLOCK TRUE
