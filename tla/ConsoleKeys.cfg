SPECIFICATION ConsoleSpec
CONSTANTS
  Keys = {"p", "+", "t", "ctrl_c"}
  InitialWorkers = 5
  MaxKeys = 3
  MaxNow = 6
INVARIANTS TotalPausedIsTotal NeverOverstated PlusAddsTen
PROPERTIES CtrlCQuits
