SPECIFICATION ConsoleSpec
CONSTANTS
  Keys = {"q", "ctrl_c", "p", "s", "+", "-", "r", "a", "t", "0", "2", "=", "enter", "esc", "backspace"}
  InitialWorkers = 5
  MaxKeys = 3
  MaxNow = 4
INVARIANT PausedTimeHonest
PROPERTY BothGetOut
