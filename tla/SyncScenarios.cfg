SPECIFICATION Spec
CONSTANTS
  a = a
  b = b
  c = c
  None = None
INVARIANTS PushesArrive OnlySharersHear
PROPERTIES RefusedIsSentNothing ConvergesInSilence
CHECK_DEADLOCK FALSE
