------------------------------- MODULE Startup -------------------------------
(***************************************************************************)
(* The life of the daemon process: hold.sh starts it, main initialises the *)
(* drive and the encoder, serves, and leaves again, by stop, by a failed   *)
(* initialisation or killed.  The amplifier, its parameters and the axis   *)
(* outlive the process; everything else starts from its static value.      *)
(*                                                                         *)
(* The question is the common zero of two coordinate systems: the drive    *)
(* counts from the position of its last PST_PRESET, the daemon from the    *)
(* encoder angle of the first frame (g_start_angle), and goto_point        *)
(* subtracts the second to command the first.                              *)
(***************************************************************************)
EXTENDS Drive, Sequences, FiniteSets

CONSTANTS Params,        \* the amplifier's parameter registers
          Reset,         \* configure.ini: RESET = 1
          Points,        \* angles the clients ask for
          MaxFails,      \* bound: transactions that fail on both attempts
          MaxOsErrors,   \* bound: failures to open a device or start a thread
          MaxUnready,    \* bound: RDY is off after SERVO_ON
          MaxTimeouts,   \* bound: 180 s without an encoder frame
          MaxCrashes,    \* bound: the process is killed
          MaxMoves       \* bound: points accepted

ASSUME StartupAssumption ==
    /\ Reset \in BOOLEAN /\ Points \subseteq Int
    /\ {MaxFails, MaxOsErrors, MaxUnready, MaxTimeouts, MaxCrashes, MaxMoves} \subseteq Nat

VARIABLES
    boot,     \* main thread: where in main, "down" when there is no process
    step,     \* main thread: the transaction of position_reset
    todo,     \* main thread: parameters init_parameters has still to write
    ini, sumfile,  \* configure.ini and sumangle.txt exist
    right,    \* the parameters that hold the value alpha_setting.c gives them
    drive,    \* the amplifier
    shaft,    \* the encoder's angle of the output axis
    start,    \* g_start_angle
    enabled,  \* encoder_is_enable_
    status,   \* g_ctrl_status
    stop,     \* g_stop
    commands, \* the command thread runs
    unclean,  \* history: this process found the axis moving or PST_PRESET on
    spent     \* what the bounds have spent

process == <<step, todo, start, enabled, status, stop, commands>>
files   == <<ini, sumfile>>
axis    == <<drive, shaft>>
vars    == <<boot, process, unclean, files, right, axis, spent>>

Budgets == {"fails", "oserrors", "unready", "timeouts", "crashes", "moves"}
Bound == [fails |-> MaxFails, oserrors |-> MaxOsErrors, unready |-> MaxUnready,
          timeouts |-> MaxTimeouts, crashes |-> MaxCrashes, moves |-> MaxMoves]
Spend(b) == spent[b] < Bound[b] /\ spent' = [spent EXCEPT ![b] = @ + 1]

Boots == {"down", "ini", "sum", "open", "init", "check", "serve_on", "ready", "unready",
          "send", "uart", "wait", "reset", "socket", "loop", "serve_off"}

\* position_reset: cancel, wait for standstill, preset the position, clear the deviation.
PositionReset ==
    <<"cancel_on", "cancel_off", "wait_inp",
      "preset_on", "preset_off", "clear_on", "clear_off">>

Transaction(d, t) ==
    CASE t = "cancel_on"  -> WriteCoil(d, "PST_CANCEL", TRUE)
      [] t = "cancel_off" -> WriteCoil(d, "PST_CANCEL", FALSE)
      [] t = "preset_on"  -> WriteCoil(d, "PST_PRESET", TRUE)
      [] t = "preset_off" -> WriteCoil(d, "PST_PRESET", FALSE)
      [] t = "clear_on"   -> WriteCoil(d, "DEVIATION_CLR", TRUE)
      [] t = "clear_off"  -> WriteCoil(d, "DEVIATION_CLR", FALSE)
      [] t = "wait_inp"   -> d

TypeOK ==
    /\ boot \in Boots /\ step \in 1..Len(PositionReset) /\ todo \subseteq Params
    /\ {ini, sumfile, enabled, stop, commands, unclean} \subseteq BOOLEAN
    /\ right \subseteq Params
    /\ drive \in DriveSet /\ {shaft, start} \subseteq Int
    /\ status \in {"NONE", "INITLIZING", "FREE", "LOCATING", "STOPING"}
    /\ spent \in [Budgets -> Nat]

Init ==
    /\ boot = "down" /\ step = 1 /\ todo = {}
    /\ ini \in BOOLEAN /\ sumfile \in BOOLEAN
    /\ right \in IF Reset THEN SUBSET Params ELSE {Params}
    /\ drive = [coil |-> [c \in Coils |-> FALSE], reg |-> [r \in Registers |-> 1],
                ref |-> 0, target |-> 0, pos |-> 0, busy |-> FALSE, fault |-> {}]
    /\ shaft \in Points /\ start = 0 /\ enabled = FALSE
    /\ status = "NONE" /\ stop = FALSE /\ commands = FALSE /\ unclean = FALSE
    /\ spent = [b \in Budgets |-> 0]

-----------------------------------------------------------------------------
(* The supervisor *)

\* hold.sh starts the program whenever there is none.
Launch ==
    /\ boot = "down" /\ boot' = "ini"
    /\ step' = 1 /\ todo' = Params
    /\ start' = 0 /\ enabled' = FALSE /\ status' = "NONE"
    /\ stop' = FALSE /\ commands' = FALSE
    /\ unclean' = (~InPosition(drive) \/ drive.coil["PST_PRESET"])
    /\ UNCHANGED <<files, right, axis, spent>>

\* killall -9, a fault of the process, the power of the controller board.
Crash ==
    /\ boot # "down" /\ boot' = "down" /\ commands' = FALSE
    /\ Spend("crashes")
    /\ UNCHANGED <<unclean, step, todo, start, enabled, status, stop, files, right, axis>>

Leave == boot' = "down" /\ commands' = FALSE

-----------------------------------------------------------------------------
(* main, up to the servo *)

\* A missing configure.ini is written with defaults and read again.
LoadIniOnce ==
    /\ boot = "ini"
    /\ IF ini THEN boot' = "sum" /\ UNCHANGED commands ELSE Leave
    /\ UNCHANGED <<unclean, ini, step, todo, start, enabled, status, stop, sumfile, right, axis, spent>>
LoadIni ==
    /\ boot = "ini" /\ boot' = "sum" /\ ini' = TRUE
    /\ UNCHANGED <<unclean, process, sumfile, right, axis, spent>>

ReadSum ==
    /\ boot = "sum"
    /\ IF sumfile THEN boot' = "open" /\ UNCHANGED commands ELSE Leave
    /\ UNCHANGED <<unclean, step, todo, start, enabled, status, stop, files, right, axis, spent>>

\* init_buffers_for_modbus and open_modbus_rtu_master.
OpenLine ==
    /\ boot = "open"
    /\ \/ boot' = (IF Reset THEN "init" ELSE "check") /\ UNCHANGED <<commands, spent>>
       \/ Leave /\ Spend("oserrors")
    /\ UNCHANGED <<unclean, step, todo, start, enabled, status, stop, files, right, axis>>

\* init_parameters does not look at the result of its writes.
WriteParameter ==
    /\ boot = "init"
    /\ \E p \in todo :
         /\ todo' = todo \ {p}
         /\ boot' = IF todo' = {} THEN "check" ELSE "init"
         /\ \/ right' = right \cup {p} /\ UNCHANGED spent
            \/ UNCHANGED right /\ Spend("fails")
    /\ UNCHANGED <<unclean, step, start, enabled, status, stop, commands, files, axis>>

\* check_parameters reads every one of them back.
CheckPassesUnread == right = Params \/ spent["fails"] > 0
CheckPasses == right = Params
CheckParameters ==
    /\ boot = "check"
    /\ \/ CheckPasses /\ boot' = "serve_on" /\ UNCHANGED <<commands, spent>>
       \/ ~CheckPasses /\ Leave /\ UNCHANGED spent
       \/ Leave /\ Spend("fails")
    /\ UNCHANGED <<unclean, step, todo, start, enabled, status, stop, files, right, axis>>

\* A write that fails may have taken effect, its reply lost.
Attempt(d) == drive' = d /\ UNCHANGED spent
Failure(d) == drive' \in {drive, d} /\ Spend("fails")

\* S_RDY must be on before the servo is asked for.
ServeOn ==
    /\ boot = "serve_on"
    /\ LET d == WriteCoil(drive, "SERVO_ON", TRUE) IN
       \/ Attempt(d) /\ boot' = "ready" /\ UNCHANGED commands
       \/ Failure(d) /\ Leave
       \/ UNCHANGED drive /\ (Spend("unready") \/ Spend("fails")) /\ Leave
    /\ UNCHANGED <<unclean, step, todo, start, enabled, status, stop, files, right, shaft>>

IsReady ==
    /\ boot = "ready"
    /\ \/ boot' = "send" /\ UNCHANGED spent
       \/ boot' = "unready" /\ (Spend("unready") \/ Spend("fails"))
    /\ UNCHANGED <<unclean, process, files, right, axis>>

ReleaseServo(from) ==
    /\ boot = from /\ Leave
    /\ LET d == WriteCoil(drive, "SERVO_ON", FALSE) IN Attempt(d) \/ Failure(d)
    /\ UNCHANGED <<unclean, step, todo, start, enabled, status, stop, files, right, shaft>>

UnreadyLeavesIt ==
    /\ boot = "unready" /\ Leave
    /\ UNCHANGED <<unclean, step, todo, start, enabled, status, stop, files, right, axis, spent>>
Unready == ReleaseServo("unready")

\* Speed, acceleration and deceleration time: a failure only sets g_stop.
SendProfile ==
    /\ boot = "send" /\ boot' = "uart"
    /\ \/ UNCHANGED <<stop, spent>>
       \/ stop' = TRUE /\ Spend("fails")
    /\ UNCHANGED <<unclean, step, todo, start, enabled, status, commands, files, right, axis>>

-----------------------------------------------------------------------------
(* main, up to the loop *)

ListeningUart ==
    /\ boot = "uart"
    /\ \/ boot' = "wait" /\ UNCHANGED <<commands, spent>>
       \/ Leave /\ Spend("oserrors")
    /\ UNCHANGED <<unclean, step, todo, start, enabled, status, stop, files, right, axis>>

\* The encoder thread: its first frame fixes the angle the axis has at the start.
FirstFrame ==
    /\ boot \in {"wait", "reset", "socket", "loop", "serve_off"} /\ ~enabled
    /\ enabled' = TRUE /\ start' = shaft
    /\ UNCHANGED <<unclean, boot, step, todo, status, stop, commands, files, right, axis, spent>>

WaitEncoderOnce ==
    /\ boot = "wait"
    /\ boot' = IF stop THEN "socket" ELSE "reset"
    /\ UNCHANGED <<unclean, process, files, right, axis, spent>>
WaitEncoder ==
    /\ boot = "wait"
    /\ \/ enabled /\ UNCHANGED <<stop, spent>>
       \/ ~enabled /\ stop' = TRUE /\ Spend("timeouts")
    /\ boot' = IF stop' THEN "socket" ELSE "reset"
    /\ UNCHANGED <<unclean, step, todo, start, enabled, status, commands, files, right, axis>>

\* One transaction of position_reset; a failed one ends it, and the daemon.
LastStep == Len(PositionReset)
ResetStep ==
    /\ boot = "reset"
    /\ LET t == PositionReset[step]
           d == Transaction(drive, t)
       IN \/ /\ Attempt(d) /\ (t = "wait_inp" => InPosition(drive))
             /\ UNCHANGED stop
             /\ IF step < LastStep
                THEN step' = step + 1 /\ UNCHANGED <<boot, status>>
                ELSE step' = 1 /\ boot' = "socket" /\ status' = "INITLIZING"
          \/ /\ Failure(d)
             /\ stop' = TRUE /\ step' = 1 /\ boot' = "socket" /\ status' = "INITLIZING"
    /\ UNCHANGED <<unclean, todo, start, enabled, commands, files, right, shaft>>

\* listening_socket starts the command thread, also when g_stop is already set.
ListeningSocket ==
    /\ boot = "socket"
    /\ \/ boot' = "loop" /\ commands' = TRUE /\ UNCHANGED spent
       \/ Leave /\ Spend("oserrors")
    /\ UNCHANGED <<unclean, step, todo, start, enabled, status, stop, files, right, axis>>

LoopEnds ==
    /\ boot = "loop" /\ stop /\ boot' = "serve_off"
    /\ UNCHANGED <<unclean, process, files, right, axis, spent>>

Exit == ReleaseServo("serve_off")

MainThread ==
    \/ LoadIni \/ ReadSum \/ OpenLine \/ WriteParameter \/ CheckParameters
    \/ ServeOn \/ IsReady \/ Unready \/ SendProfile
    \/ ListeningUart \/ WaitEncoder \/ ResetStep \/ ListeningSocket
    \/ LoopEnds \/ Exit

-----------------------------------------------------------------------------
(* The command thread in outline (module MotorServo has it in full) *)

BecomesFree ==
    /\ commands /\ InPosition(drive) /\ status # "FREE" /\ status' = "FREE"
    /\ UNCHANGED <<unclean, boot, step, todo, start, enabled, stop, commands, files, right, axis, spent>>

\* goto_point: the target in the drive's coordinates.
Point(p) ==
    /\ commands /\ status = "FREE" /\ InPosition(drive) /\ status' = "LOCATING"
    /\ drive' = Started(WritePosition(drive, p - start))
    /\ Spend("moves")
    /\ UNCHANGED <<unclean, boot, step, todo, start, enabled, stop, commands, files, right, shaft>>

\* The stop command: emergency stop, servo off, g_stop.
StopCommand ==
    /\ commands /\ status \notin {"NONE", "INITLIZING", "STOPING"} /\ status' = "STOPING"
    /\ stop' = TRUE
    /\ drive' = WriteCoil(drive, "SERVO_ON", FALSE)
    /\ UNCHANGED <<unclean, boot, step, todo, start, enabled, commands, files, right, shaft, spent>>

CommandThread == BecomesFree \/ StopCommand \/ \E p \in Points : Point(p)

DriveAdvances ==
    /\ CanAdvance(drive) /\ drive' = Advanced(drive)
    /\ shaft' = shaft + (drive'.pos - drive.pos)
    /\ UNCHANGED <<unclean, boot, process, files, right, spent>>

Next ==
    \/ Launch \/ Crash \/ MainThread \/ FirstFrame \/ CommandThread \/ DriveAdvances

Spec == Init /\ [][Next]_vars

\* hold.sh loops, main runs, the encoder streams, a drive that can move does.
Fairness == /\ WF_vars(Launch) /\ WF_vars(MainThread)
            /\ WF_vars(FirstFrame) /\ WF_vars(DriveAdvances)
FairSpec == Spec /\ Fairness

-----------------------------------------------------------------------------
(* Properties *)

\* Where an axis that went to the drive's position would be, as the daemon counts.
Aligned == shaft = start + drive.pos

\* While the daemon serves, the zero of the drive and g_start_angle are the same point
\* of the axis: a commanded angle is the angle reached, also after a restart that
\* finds the axis elsewhere and whatever was lost (position_reset, set_g_start_angle,
\* goto_point), unless the previous process left a motion or a raised PST_PRESET.
AlignedInService == commands /\ ~stop /\ ~unclean => Aligned

\* The servo is only ever on with every parameter register verified, whatever was
\* lost while they were written and whenever the process was killed.
ServoConfigured == drive.coil["SERVO_ON"] => right = Params

\* A process that ends by itself, with its line up and its devices there, leaves the
\* servo off, at whatever point of the initialisation it gives up.
ExitReleasesServo ==
    boot = "down" /\ {spent[b] : b \in {"crashes", "oserrors", "fails"}} = {0}
        => ~drive.coil["SERVO_ON"]

\* hold.sh brings the daemon back in service after every exit and crash: no
\* initialisation is stuck on what an earlier one left behind, nor on a missing
\* configure.ini.  A missing sumangle.txt nobody creates: then it is never in service.
BackInService == IF sumfile THEN []<>(boot = "loop") ELSE [](boot # "loop")

=============================================================================
