SPECIFICATION QueueSpec
CONSTANTS Procs = {p1, p2}
          Idle = idle
PROPERTY KeepsItsTurn
