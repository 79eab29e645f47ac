SPECIFICATION ClientSpec
CONSTANTS MaxProcesses = 3
          MaxPid = 2
          Pages = 5
INVARIANTS ResumedWhereSaved
CHECK_DEADLOCK FALSE
