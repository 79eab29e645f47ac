SPECIFICATION Spec
CONSTANTS
  Programs = {echo, cat}
  Pages = {1, 2, 3, 4}
  LINE_CAP = 3
CHECK_DEADLOCK FALSE
PROPERTIES EveryProgramReads
