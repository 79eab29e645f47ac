SPECIFICATION FairClientSpec
CONSTANTS MaxProcesses = 5
          MaxPid = 4
          Pages = 7
INVARIANTS QueueIsAList
           StacksAccounted
           EoiOwedOnce
PROPERTIES RoundRobinSpec FirstInLineGetsTheCpu
CHECK_DEADLOCK FALSE
