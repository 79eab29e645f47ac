SPECIFICATION FairClientSpec
CONSTANTS MaxProcesses = 3
          MaxPid = 2
          Pages = 5
PROPERTY QueuedGetsTheCpu
CHECK_DEADLOCK FALSE
