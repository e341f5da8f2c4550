------------------------------ MODULE Resources ------------------------------
(***************************************************************************)
(* What the daemon holds from its start to its end: the log file, the       *)
(* Modbus line with its context and the encoder's line.  main takes and     *)
(* gives them back in order; the command thread uses the context and the    *)
(* log until the process is gone, and the kernel keeps the settings of both *)
(* lines from one process to the next.                                      *)
(***************************************************************************)
EXTENDS Logger

CONSTANTS RtuConfs, UartConfs,  \* what configure.ini may ask of the lines
          Amplifier, Encoder,   \* what the devices at the other ends are set to
          Kernel,               \* the settings of a line after a reset of the board
          MaxRuns, MaxEdits, MaxErrors, MaxResets  \* bounds

ASSUME ResourcesAssumption ==
    /\ Loggers = {"main", "command"}
    /\ {MaxRuns, MaxEdits, MaxErrors, MaxResets} \subseteq Nat

VARIABLES
    conf,      \* configure.ini
    given,     \* what the process has read of it
    boot,      \* where main is
    tty,       \* the settings the kernel has for the two lines
    ctx,       \* the Modbus context: "none", "made", "open", "freed"
    old_tios,  \* the settings of the Modbus line that will be put back
    fd,        \* the encoder's line: "none", "open", "closed"
    released,  \* this process has called serve_off
    g_stop,
    command,   \* the command thread: "none", "idle", "busy" in a transaction, "failed"
    faulted,   \* the process ended in the freed context or the closed log
    served,    \* history: the configurations the daemon came to serve with
    counts

lines  == <<tty, old_tios, ctx, fd>>
past   == <<faulted, served>>
resVars == <<conf, given, boot, lines, released, g_stop, command, past, counts>>
vars == <<logVars, resVars>>

Parities == {"N", "E", "O", "S", "none"}
Asked    == [speed : Int, bits : Int, parity : Parities, stop : Int]
Setting  == [speed : Int, bits : Int, parity : {"N", "E", "O"}, stop : {1, 2}, raw : BOOLEAN]

ASSUME SettingsAssumption ==
    /\ RtuConfs \cup UartConfs \subseteq Asked
    /\ {Amplifier, Encoder, Kernel} \subseteq Setting

Places_main == {"none", "logger", "start", "settings", "new", "connect", "configure", "check",
                "servo", "uart", "speed", "frame", "wait", "listen", "serve", "serve_off",
                "close_rtu", "close_uart", "close_log", "return", "report", "give_back"}

TypeOK ==
    /\ LoggerTypeOK
    /\ {conf.rtu, conf.uart, given.rtu, given.uart} \subseteq Asked
    /\ boot \in Places_main
    /\ tty.rtu \in Setting /\ tty.uart \in Setting /\ old_tios \in Setting
    /\ ctx \in {"none", "made", "open", "freed"} /\ fd \in {"none", "open", "closed"}
    /\ ctx = "open" => boot \notin {"none", "logger", "start", "settings", "new", "connect"}
    /\ {released, g_stop, faulted} \subseteq BOOLEAN
    /\ command \in {"none", "idle", "busy", "failed"}
    /\ command # "none" => boot \in {"serve", "serve_off", "close_rtu", "close_uart",
                                     "close_log", "return"}
    /\ counts \in [{"runs", "edits", "errors", "resets"} -> Nat]

Init ==
    /\ LoggerInit
    /\ conf \in [rtu : RtuConfs, uart : UartConfs] /\ given = conf
    /\ boot = "none"
    /\ tty \in [rtu : {Kernel, Amplifier}, uart : {Kernel}] /\ old_tios = Kernel
    /\ ctx = "none" /\ fd = "none"
    /\ released = FALSE /\ g_stop = FALSE /\ command = "none"
    /\ faulted = FALSE /\ served = {}
    /\ counts = [runs |-> 0, edits |-> 0, errors |-> 0, resets |-> 0]

Bound == [runs |-> MaxRuns, edits |-> MaxEdits, errors |-> MaxErrors, resets |-> MaxResets]
Spend(k) == counts[k] < Bound[k] /\ counts' = [counts EXCEPT ![k] = @ + 1]
Free == UNCHANGED counts

-----------------------------------------------------------------------------
(* What the settings asked for make of a line *)

RtuSpeeds  == {110, 300, 600, 1200, 2400, 4800, 9600, 19200, 38400, 57600, 115200}
UartSpeeds == {1200, 2400, 4800, 9600, 19200, 38400, 57600, 115200}

\* modbus_new_rtu knows three parities; _modbus_rtu_connect then sets every property of the
\* line anew, from nothing, and takes a default for what it does not know.
RtuTakes(a) == a.parity \in {"N", "E", "O"}
RtuSpeedKept(a, line) == IF a.speed \in RtuSpeeds THEN a.speed ELSE line.speed
RtuSpeed(a, line) == IF a.speed \in RtuSpeeds THEN a.speed ELSE 9600
RtuFrame(a) == [bits |-> IF a.bits \in 5..8 THEN a.bits ELSE 8,
                parity |-> a.parity, stop |-> IF a.stop = 1 THEN 1 ELSE 2]
RtuSetting(a, line) ==
    LET f == RtuFrame(a)
    IN [speed |-> RtuSpeed(a, line), bits |-> f.bits, parity |-> f.parity, stop |-> f.stop,
        raw |-> TRUE]

\* set_speed and set_Parity change the settings they find, and leave the line as it was when
\* they do not know what is asked; listening_uart does not look at their results.
UartSpeed(a, line) == IF a.speed \in UartSpeeds THEN [line EXCEPT !.speed = a.speed] ELSE line
UartTakes(a) == a.bits \in {7, 8} /\ a.parity # "none" /\ a.stop \in {1, 2}
UartFrame(a, line) ==
    IF UartTakes(a)
    THEN [line EXCEPT !.bits = a.bits, !.stop = a.stop, !.raw = TRUE,
                      !.parity = IF a.parity = "S" THEN "N" ELSE a.parity]
    ELSE line

-----------------------------------------------------------------------------
(* main *)

At(here) == boot = here
To(there) == boot' = there
Fails == Spend("errors") /\ To("report")
Well(there) == Free /\ To(there)

Launch ==
    /\ At("none") /\ Spend("runs") /\ To("logger")
    /\ LoggerRestart
    /\ released' = FALSE /\ g_stop' = FALSE /\ faulted' = FALSE
    /\ UNCHANGED <<conf, given, lines, command, served>>

\* Everything that belongs to the process goes with it; the settings of the lines stay.
Gone ==
    /\ To("none") /\ ctx' = "none" /\ fd' = "none" /\ command' = "none"
    /\ UNCHANGED <<conf, given, old_tios, released, g_stop, served>>
Ends == Gone /\ UNCHANGED <<logVars, tty, faulted>>

\* elog_init: exit when log.txt does not open.
OpenLog ==
    /\ At("logger")
    /\ \/ ElogInit /\ Well("start") /\ UNCHANGED <<conf, given, lines, released, g_stop, command, past>>
       \/ Spend("errors") /\ Ends
StartLog ==
    /\ At("start") /\ ElogStart /\ Well("settings")
    /\ UNCHANGED <<conf, given, lines, released, g_stop, command, past>>

ReadSettings ==
    /\ At("settings") /\ given' = conf /\ Well("new")
    /\ UNCHANGED <<logVars, conf, lines, released, g_stop, command, past>>

NewRtu ==
    /\ At("new") /\ Free
    /\ IF RtuTakes(given.rtu) THEN ctx' = "made" /\ To("connect")
       ELSE ctx' = "freed" /\ To("report")
    /\ UNCHANGED <<logVars, conf, given, tty, old_tios, fd, released, g_stop, command, past>>

\* The settings found are kept, to be put back by _modbus_rtu_close.
Connect ==
    /\ At("connect")
    /\ \/ ctx' = "open" /\ old_tios' = tty.rtu /\ Well("configure")
       \/ ctx' = "freed" /\ UNCHANGED old_tios /\ Fails
    /\ UNCHANGED <<logVars, conf, given, tty, fd, released, g_stop, command, past>>

Configure ==
    /\ At("configure")
    /\ \/ tty' = [tty EXCEPT !.rtu = RtuSetting(given.rtu, @)] /\ UNCHANGED ctx /\ Well("check")
       \/ ctx' = "freed" /\ UNCHANGED tty /\ Fails
    /\ UNCHANGED <<logVars, conf, given, old_tios, fd, released, g_stop, command, past>>

\* The amplifier answers on a line that is set as its own end.
CheckParameters ==
    /\ At("check")
    /\ \/ tty.rtu = Amplifier /\ Well("servo")
       \/ tty.rtu # Amplifier /\ Well("report")
       \/ Fails
    /\ UNCHANGED <<logVars, conf, given, lines, released, g_stop, command, past>>
ServoOn ==
    /\ At("servo")
    /\ \/ UNCHANGED released /\ Well("uart")
       \/ UNCHANGED released /\ Fails         \* serve_on
       \/ released' = TRUE /\ Fails           \* not ready: serve_off
    /\ UNCHANGED <<logVars, conf, given, lines, g_stop, command, past>>

OpenUart ==
    /\ At("uart")
    /\ \/ fd' = "open" /\ Well("speed")
       \/ UNCHANGED fd /\ Fails
    /\ UNCHANGED <<logVars, conf, given, tty, old_tios, ctx, released, g_stop, command, past>>
SetSpeed ==
    /\ At("speed") /\ Well("frame")
    /\ tty' = [tty EXCEPT !.uart = UartSpeed(given.uart, @)]
    /\ UNCHANGED <<logVars, conf, given, old_tios, ctx, fd, released, g_stop, command, past>>
SetParity ==
    /\ At("frame") /\ Well("wait")
    /\ tty' = [tty EXCEPT !.uart = UartFrame(given.uart, @)]
    /\ UNCHANGED <<logVars, conf, given, old_tios, ctx, fd, released, g_stop, command, past>>

\* Frames are only found on a line that is set as the encoder's end; after three minutes
\* without one main logs and stops, but goes on to the socket first.
Wait ==
    /\ At("wait") /\ To("listen")
    /\ \/ tty.uart = Encoder /\ Free /\ UNCHANGED <<g_stop, logVars>>
       \/ /\ IF tty.uart = Encoder THEN Spend("errors") ELSE Free
          /\ g_stop' = TRUE
          /\ \E level \in Levels, len \in Lengths : Log("main", level, len)
    /\ UNCHANGED <<conf, given, lines, released, command, past>>

mainIsQuiet == call["main"].pc = "idle"

\* listening_socket: the command thread, or none; the thread then leaves the process when it
\* cannot bind its socket.
Listen ==
    /\ At("listen") /\ mainIsQuiet
    /\ \/ /\ command' = "idle" /\ Well("serve")
          /\ served' = IF g_stop THEN served ELSE served \cup {given}
          /\ UNCHANGED <<logVars, conf, given, lines, released, g_stop, faulted>>
       \/ Fails /\ UNCHANGED <<logVars, conf, given, lines, released, g_stop, command, past>>
       \/ Spend("errors") /\ Ends

\* No shared memory: main logs it while the command thread is already there.
NoSharedMemory ==
    /\ At("serve") /\ mainIsQuiet /\ Spend("errors")
    /\ \E level \in Levels, len \in Lengths : Log("main", level, len)
    /\ UNCHANGED <<conf, given, boot, lines, released, g_stop, command, past>>

AfterLoopClosing == "close_rtu"
AfterLoop == "serve_off"
LoopEnds ==
    /\ At("serve") /\ mainIsQuiet /\ g_stop /\ Well(AfterLoop)
    /\ UNCHANGED <<logVars, conf, given, lines, released, g_stop, command, past>>
ServeOff ==
    /\ At("serve_off") /\ released' = TRUE /\ Well("close_rtu")
    /\ UNCHANGED <<logVars, conf, given, lines, g_stop, command, past>>

GivesBackRtu == ctx' = "freed" /\ tty' = [tty EXCEPT !.rtu = old_tios]
CloseRtu ==
    /\ At("close_rtu") /\ GivesBackRtu /\ Well("close_uart")
    /\ UNCHANGED <<logVars, conf, given, old_tios, fd, released, g_stop, command, past>>
CloseUart ==
    /\ At("close_uart") /\ fd' = "closed" /\ Well("close_log")
    /\ UNCHANGED <<logVars, conf, given, tty, old_tios, ctx, released, g_stop, command, past>>
CloseLog ==
    /\ At("close_log") /\ ElogClose /\ Well("return")
    /\ UNCHANGED <<conf, given, lines, released, g_stop, command, past>>
Return == At("return") /\ Free /\ Ends

\* An early return: the reason is logged, then the context is given back.
Report ==
    /\ At("report") /\ Well("give_back")
    /\ \E level \in Levels, len \in Lengths : Log("main", level, len)
    /\ UNCHANGED <<conf, given, lines, released, g_stop, command, past>>
GiveBack ==
    /\ At("give_back") /\ mainIsQuiet /\ Free /\ Gone
    /\ tty' = IF ctx = "open" THEN [tty EXCEPT !.rtu = old_tios] ELSE tty
    /\ UNCHANGED <<logVars, faulted>>

-----------------------------------------------------------------------------
(* The command thread *)

rest == <<conf, given, boot, lines, released, served>>

Stop ==
    /\ command = "idle" /\ g_stop' = TRUE /\ Free
    /\ UNCHANGED <<logVars, rest, command, faulted>>
Transact ==
    /\ command = "idle" /\ command' = "busy" /\ Free
    /\ UNCHANGED <<logVars, rest, g_stop, faulted>>
Answered ==
    /\ command = "busy" /\ ctx = "open"
    /\ \/ command' = "idle" /\ Free
       \/ command' = "failed" /\ Spend("errors")
    /\ UNCHANGED <<logVars, rest, g_stop, faulted>>
\* main has freed the context under it: the call fails, or the process is gone.
UsesFreed ==
    /\ command = "busy" /\ ctx = "freed" /\ Free
    /\ \/ command' = "failed" /\ UNCHANGED <<logVars, rest, g_stop, faulted>>
       \/ faulted' = TRUE /\ Gone /\ UNCHANGED <<logVars, tty>>
LogFailure ==
    /\ command = "failed" /\ command' = "idle" /\ Free
    /\ call["command"].pc = "idle"
    /\ \E level \in Levels, len \in Lengths : Log("command", level, len)
    /\ UNCHANGED <<rest, g_stop, faulted>>

\* main has closed the file under its line: the line is lost (Output), or the process is gone.
WritesClosed ==
    /\ At("return") /\ call["command"].pc = "output" /\ Free
    /\ faulted' = TRUE /\ Gone /\ UNCHANGED <<logVars, tty>>

\* A thread that is in elog_output does nothing else.
Logs(t) == ElogOutput(t) /\ boot # "none" /\ UNCHANGED resVars
CommandSteps == call["command"].pc = "idle" /\ (Stop \/ Transact \/ Answered \/ UsesFreed)

-----------------------------------------------------------------------------
(* The world around *)

Crash == At("serve") /\ Spend("errors") /\ Ends
Edit ==
    /\ Spend("edits") /\ conf' \in [rtu : RtuConfs, uart : UartConfs]
    /\ UNCHANGED <<logVars, given, boot, lines, released, g_stop, command, past>>
Reset ==
    /\ At("none") /\ Spend("resets") /\ tty' = [rtu |-> Kernel, uart |-> Kernel]
    /\ UNCHANGED <<logVars, conf, given, boot, old_tios, ctx, fd, released, g_stop, command, past>>

MainSteps ==
    \/ Launch \/ OpenLog \/ StartLog \/ ReadSettings \/ NewRtu \/ Connect \/ Configure
    \/ CheckParameters \/ ServoOn \/ OpenUart \/ SetSpeed \/ SetParity \/ Wait \/ Listen
    \/ NoSharedMemory \/ LoopEnds \/ ServeOff \/ CloseRtu \/ CloseUart \/ CloseLog \/ Return
    \/ Report \/ GiveBack

Next ==
    \/ MainSteps \/ CommandSteps \/ LogFailure \/ WritesClosed
    \/ (\E t \in Loggers : Logs(t))
    \/ Crash \/ Edit \/ Reset

Spec == Init /\ [][Next]_vars

\* The scheduler runs both threads.
FairSpec == Spec /\ WF_vars(MainSteps) /\ \A t \in Loggers : WF_vars(Logs(t))

-----------------------------------------------------------------------------
(* Properties *)

\* A configuration the daemon has served with is good for every later start, after other
\* configurations, kills and a reset of the board: neither line depends on what an earlier
\* process left in the kernel.  For the encoder's line that takes a speed and a frame that
\* set_speed and set_Parity know (_modbus_rtu_connect, set_speed, set_Parity).
WorksAgain ==
    given \in served =>
        /\ boot = "check" => tty.rtu = Amplifier
        /\ boot = "wait" /\ given.uart.speed \in UartSpeeds /\ UartTakes(given.uart)
              => tty.uart = Encoder

\* The command thread may end the process in the context main has freed or in the log it has
\* closed, but not before main has asked the amplifier to let go of the shaft (main after its
\* loop).
FaultsOnlyReleased == faulted => released

\* Once g_stop is set the process ends: main's log line waits for the command thread's at
\* most (elog_port_output_lock, the end of main).
StopEndsRun == g_stop ~> boot = "none"

=============================================================================
