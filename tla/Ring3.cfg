SPECIFICATION Spec
CONSTANTS
  Programs = {echo, cat}
  Pages = {1, 2, 3, 4}
  LINE_CAP = 3
INVARIANTS LaunchesApart InterruptsRestored LineEnds
PROPERTIES FilesProgramReads
CHECK_DEADLOCK FALSE
