----------------------------- MODULE MCModbusLink -----------------------------
(* Model checking of ModbusLink: the transactions of the command thread and, at *)
(* the exit, main's serve_off.                                                  *)
EXTENDS ModbusLink

Ask(f, c, v) == [fc |-> f, of |-> c, val |-> v]

Operations(t) ==
    IF t = "main" THEN {Ask("WRITE_SINGLE_COIL", "SERVO_ON", TRUE)}
    ELSE {Ask("READ_COILS", s, FALSE) : s \in Signals}
           \cup {Ask("WRITE_SINGLE_COIL", c, TRUE) : c \in Coils \ {"SERVO_ON"}}
           \cup {Ask("WRITE_MULTIPLE_REGISTERS", r, TRUE) : r \in Registers}
           \cup {Ask("READ_HOLDING_REGISTERS", r, FALSE) : r \in Registers}

\* Bound: nothing is claimed any more once the line is shared and something was lost, so
\* what comes after is not explored.
Claimed == ~(shared /\ faults > 0)

=============================================================================
