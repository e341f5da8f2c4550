SPECIFICATION Spec
CONSTANTS
  Threads = {"command", "main"}
  Signals = {"INP", "ALRM"}
  Coils = {"SERVO_ON", "START"}
  Registers = {"SPEED"}
  Ops <- Operations
  OPLOOPS = 2
  MaxCalls = 3
  MaxFaults = 2
  MaxLate = 1
  MaxChanges = 1
CONSTRAINT Claimed
INVARIANT NothingLeftBehind
INVARIANT ReadIsOwn
INVARIANT WriteTookEffect
INVARIANT FailsOnlyAfterFaults
CHECK_DEADLOCK FALSE
