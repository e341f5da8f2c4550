----------------------------- MODULE MotorServo -----------------------------
(***************************************************************************)
(* The motor-servo daemon once it is running: the command thread of        *)
(* cmdparser.c, the shutdown half of main.c, the drive on the Modbus line, *)
(* the encoder angle the other thread publishes, and the clients' UDP      *)
(* commands.                                                               *)
(*                                                                         *)
(* A command handler is a program: the sequence of Modbus transactions and *)
(* local effects it performs.  The command thread executes one of them per *)
(* step, so the drive, the main thread, the encoder and the clients are    *)
(* interleaved between any two transactions of a handler.                  *)
(***************************************************************************)
EXTENDS Drive, Sequences

CONSTANTS Clients,       \* UDP endpoints that send commands
          Requests,      \* the commands they may send: [cmd, v, w]
          Anticlockwise, \* configure.ini: left and right are exchanged
          Left0, Right0, \* configure.ini: max_left_position, max_right_position
          MaxAngle,      \* the mechanical limit of set_g_left_angle (90 degrees)
          MaxRate,       \* the clamp of the speed and time setters
          FastFrom, FastIs, \* set_speed_value: a speed beyond the one is taken for the other
          CheckRate,     \* the profile of the self check
          MaxSends,      \* bound: commands sent in a behaviour
          MaxQueue,      \* bound: datagrams waiting in the socket
          MaxFails,      \* bound: transactions that fail on both attempts
          MaxUpsets,     \* bound: faults the drive raises
          MaxFreezes     \* bound: the encoder stops being heard (0 or 1)

Cmds == {"GNONE", "GRIGHT", "GLEFT", "GPOINT", "GPST_CANCEL", "GEMG", "GSPEED",
         "GACCE_TIME", "GDECE_TIME", "GMAX_POINT", "GCHECK", "GERROR_MSG",
         "GALARM_RST", "GSPEEDMSG", "GSUM"}

RequestSet == [cmd : Cmds, v : Int, w : Int]

ASSUME MotorServoAssumption ==
    /\ Clients # {}
    /\ Requests \subseteq RequestSet
    /\ Anticlockwise \in BOOLEAN
    /\ MaxAngle \in Nat /\ MaxRate \in Nat \ {0} /\ {FastFrom, FastIs, CheckRate} \subseteq Int
    /\ Left0 \in -MaxAngle..MaxAngle /\ Right0 \in -MaxAngle..MaxAngle
    /\ {MaxSends, MaxQueue, MaxFails, MaxUpsets, MaxFreezes} \subseteq Nat

VARIABLES
    pc,      \* command thread: where in the loop of parsesocket
    req,     \* command thread: temp_x, the parsed command
    step,    \* command thread: the instruction of its handler
    reply,   \* the message the command thread has just sent, "" for none
    peer,    \* clientAddr: where messages go
    status,  \* g_ctrl_status
    stop,    \* g_stop
    limit,   \* g_left_angle, g_right_angle
    dest,    \* destination_angle
    cruise,  \* cruise_speed, imme_acceleration_time, imme_deceleration_time
    mpc,     \* main thread: where in main
    drive,   \* the amplifier
    angle,   \* encoder_angle_val
    frozen,  \* the encoder is no longer heard
    inbox,   \* the socket's receive queue
    sent, fails, upsets   \* what the bounds have spent

thread == <<pc, req, step, reply, peer>>
shared == <<status, stop, limit, dest, cruise>>
env    == <<inbox, sent, upsets, frozen>>
vars   == <<thread, shared, mpc, drive, angle, env, fails>>

Statuses == {"NONE", "FREE", "INITLIZING", "STOPING", "LOCATING", "LEFTORRIGHT", "ERROOR"}
Replies  == {"", "$B", "$D", "$E", "$F", "$G", "$H"}
PCs      == {"recv", "run", "inp", "alarm", "ot", "ot2", "data", "life"}
MainPCs  == {"loop", "serve_off", "close", "return", "exit"}

-----------------------------------------------------------------------------
(* Conversions *)

\* set_g_left_angle, set_g_right_angle: no limit outside the mechanical range.
ClampAngle(a) == IF a < -MaxAngle THEN -MaxAngle ELSE IF a > MaxAngle THEN MaxAngle ELSE a

\* goto_point: the target is moved into the limits, the right one having the last word.
ClampPoint(a, l) == LET b == IF a < l.left THEN l.left ELSE a
                    IN  IF b > l.right THEN l.right ELSE b

\* set_cruise_speed and the two time setters, whose parameter is unsigned: a
\* negative value becomes a huge one.
ClampRate(x) == IF x < 0 \/ x >= MaxRate THEN MaxRate ELSE IF x <= 1 THEN 1 ELSE x
Rate(m) == ClampRate(IF m.cmd = "GSPEED" /\ m.v > FastFrom THEN FastIs ELSE m.v)

\* parsesocket: the request in the coordinates of the drive.
Parse(m) ==
    LET turn(x) == IF Anticlockwise THEN -x ELSE x
        a == turn(m.v)
        b == turn(m.w)
    IN  CASE m.cmd = "GPOINT" -> [m EXCEPT !.v = a]
          [] m.cmd = "GMAX_POINT" /\ a > b  -> [m EXCEPT !.v = b, !.w = a]
          [] m.cmd = "GMAX_POINT" /\ a <= b -> [m EXCEPT !.v = a, !.w = b]
          [] m.cmd = "GLEFT" /\ Anticlockwise -> [m EXCEPT !.cmd = "GRIGHT"]
          [] m.cmd = "GRIGHT" /\ Anticlockwise -> [m EXCEPT !.cmd = "GLEFT"]
          [] OTHER -> m

-----------------------------------------------------------------------------
(* The handlers, as programs *)

Coil(c, on)   == [op |-> "coil", coil |-> c, on |-> on]
Send(r, from) == [op |-> "send", reg |-> r, from |-> from]
Aim(at)       == [op |-> "aim", at |-> at]
IfInp         == [op |-> "if_inp"]
WaitInp       == [op |-> "wait_inp"]
PutRef        == [op |-> "ref"]
Report        == [op |-> "report"]
SetStop       == [op |-> "set_stop"]

Instructions ==
    {Coil(c, on) : c \in Coils, on \in BOOLEAN}
      \cup {Send(r, f) : r \in Registers, f \in {"cruise", "check"}}
      \cup {Aim(at) : at \in {"point", "zero", "left", "right"}}
      \cup {IfInp, WaitInp, PutRef, Report, SetStop}

task_cancel == <<Coil("PST_CANCEL", TRUE), Coil("PST_CANCEL", FALSE)>>
run_to_angle == <<IfInp, PutRef, Coil("START", TRUE), Coil("START", FALSE)>>
send_profile(from) == <<Send("SPEED", from), Send("ACC_TIM", from), Send("DEC_TIM", from)>>
check_motion_unrestored ==
    task_cancel \o send_profile("check")
      \o <<Aim("zero")>>  \o run_to_angle \o <<WaitInp>>
check_motion ==
    task_cancel \o send_profile("check")
      \o <<Aim("zero")>>  \o run_to_angle \o <<WaitInp>>
      \o <<Aim("left")>>  \o run_to_angle \o <<WaitInp>>
      \o <<Aim("right")>> \o run_to_angle \o <<WaitInp>>
      \o <<Aim("zero")>>  \o run_to_angle
      \o send_profile("cruise")

emergency_stop_keeps_servo ==
    <<Coil("EMG", TRUE), Coil("EMG", FALSE), SetStop>>
emergency_stop ==
    <<Coil("EMG", TRUE), Coil("EMG", FALSE), Coil("SERVO_ON", FALSE), SetStop>>

Program ==
    [GNONE       |-> <<>>,
     GPST_CANCEL |-> task_cancel,
     GEMG        |-> emergency_stop,
     GSPEED      |-> task_cancel \o <<Send("SPEED", "cruise")>>,
     GACCE_TIME  |-> task_cancel \o <<Send("ACC_TIM", "cruise")>>,
     GDECE_TIME  |-> task_cancel \o <<Send("DEC_TIM", "cruise")>>,
     GMAX_POINT  |-> <<>>,
     GCHECK      |-> check_motion,
     GERROR_MSG  |-> <<Report>>,
     GALARM_RST  |-> <<Coil("RST", TRUE), Coil("RST", FALSE)>>,
     GPOINT      |-> <<Aim("point")>> \o run_to_angle,
     GLEFT       |-> <<Aim("left")>>  \o run_to_angle,
     GRIGHT      |-> <<Aim("right")>> \o run_to_angle,
     GSUM        |-> <<>>,
     GSPEEDMSG   |-> <<>>]

\* Where force_stop or serve_off resumes after a failed transaction: GEMG ignores
\* their results.  Every other handler returns.
ResumeSkips(s) == s + 2
Resume(s) == IF s <= 2 THEN 3 ELSE 4

RegisterOf == [GSPEED |-> "SPEED", GACCE_TIME |-> "ACC_TIM", GDECE_TIME |-> "DEC_TIM"]

-----------------------------------------------------------------------------
(* Admission: the tests of parsesocket and run_cmd on the status read on receipt *)

NotReady == status \in {"INITLIZING", "NONE"}
NeedsFreeButLimits(c) == c \notin {"GNONE", "GPST_CANCEL", "GEMG", "GSPEEDMSG", "GMAX_POINT"}
NeedsFree(c) == c \notin {"GNONE", "GPST_CANCEL", "GEMG", "GSPEEDMSG"}
Admitted(c) == ~NotReady /\ (NeedsFree(c) => status = "FREE")

StatusOnUncancelled(c) == IF c = "GPOINT" THEN "LOCATING" ELSE status
StatusOn(c) == CASE c \in {"GPST_CANCEL", "GEMG"} -> "STOPING"
                 [] c = "GPOINT" -> "LOCATING"
                 [] c \in {"GLEFT", "GRIGHT", "GCHECK"} -> "LEFTORRIGHT"
                 [] OTHER -> status

ReplyOn(c) == CASE c = "GSPEEDMSG" -> "$G" [] c = "GSUM" -> "$H" [] OTHER -> ""

TypeOK ==
    /\ pc \in PCs /\ req \in RequestSet
    /\ step \in 1..(Len(Program[req.cmd]) + 1)
    /\ pc = "run" => step \in 1..Len(Program[req.cmd])
    /\ reply \in Replies /\ peer \in Clients
    /\ status \in Statuses /\ stop \in BOOLEAN
    /\ limit \in [left : Int, right : Int] /\ dest \in Int
    /\ cruise \in [Registers -> Int]
    /\ mpc \in MainPCs /\ drive \in DriveSet /\ angle \in Int
    /\ inbox \in Seq([from : Clients, msg : RequestSet])
    /\ frozen \in BOOLEAN /\ {sent, fails, upsets} \subseteq Nat

InitialProfile == [r \in Registers |-> 1]
InitialDrive ==
    [coil |-> [c \in Coils |-> c = "SERVO_ON"], reg |-> InitialProfile,
     ref |-> 0, target |-> 0, pos |-> 0, busy |-> FALSE, fault |-> {}]

\* main has initialised: servo on, profile sent, position preset, thread started.
Init ==
    /\ pc = "recv" /\ req = [cmd |-> "GNONE", v |-> 0, w |-> 0] /\ step = 1
    /\ reply = "" /\ peer \in Clients
    /\ status = "INITLIZING" /\ stop = FALSE
    /\ limit = [left |-> Left0, right |-> Right0] /\ dest = 0
    /\ cruise = InitialProfile
    /\ mpc = "loop" /\ drive = InitialDrive
    /\ angle = 0 /\ frozen = FALSE
    /\ inbox = <<>> /\ sent = 0 /\ fails = 0 /\ upsets = 0

-----------------------------------------------------------------------------
(* The Modbus line: OPLOOPS attempts, then the operation fails.  A write whose
   reply is lost may have taken effect.  After close_modbus_rtu_master nothing
   the command thread still attempts can succeed. *)

Alive == mpc # "exit"
LineOpen == mpc \in {"loop", "serve_off", "close"}
LineFails == \/ ~LineOpen /\ UNCHANGED fails
             \/ LineOpen /\ fails < MaxFails /\ fails' = fails + 1

WriteFails(d) == LineFails /\ drive' \in (IF LineOpen THEN {drive, d} ELSE {drive})
WriteDone(d)  == LineOpen /\ drive' = d /\ UNCHANGED fails

\* A read of one bit; a failed one counts as "off" (is_INP, and the comparisons of
\* the -1 of get_out_status with 0 or 1).
ReadsTrusting(bit, on) == \/ LineOpen /\ UNCHANGED fails /\ on = bit
                          \/ LineFails /\ on
Reads(bit, on) == \/ LineOpen /\ UNCHANGED fails /\ on = bit
                  \/ LineFails /\ ~on

(* The command thread: a command received *)

Received(m) ==
    /\ Alive /\ pc = "recv" /\ inbox # <<>>
    /\ m = Head(inbox).msg
    /\ inbox' = Tail(inbox) /\ peer' = Head(inbox).from
    /\ req' = Parse(m) /\ step' = 1
    /\ UNCHANGED <<stop, dest, mpc, drive, angle, sent, upsets, frozen, fails>>

Refuse(m) ==
    /\ Received(m)
    /\ ~Admitted(Parse(m).cmd)
    /\ pc' = "inp" /\ reply' = "$D"
    /\ UNCHANGED <<status, limit, cruise>>

Accept(m) ==
    LET r == Parse(m) IN
    /\ Received(m)
    /\ Admitted(r.cmd)
    /\ status' = StatusOn(r.cmd)
    /\ reply' = ReplyOn(r.cmd)
    /\ pc' = IF Program[r.cmd] = <<>> THEN "inp" ELSE "run"
    /\ limit' = IF r.cmd = "GMAX_POINT"
                THEN [left |-> ClampAngle(r.v), right |-> ClampAngle(r.w)] ELSE limit
    /\ cruise' = IF r.cmd \in DOMAIN RegisterOf
                 THEN [cruise EXCEPT ![RegisterOf[r.cmd]] = Rate(r)] ELSE cruise

NothingReceived ==
    /\ Alive /\ pc = "recv" /\ inbox = <<>>
    /\ pc' = "inp"
    /\ UNCHANGED <<req, step, reply, peer, shared, mpc, drive, angle, env, fails>>

(* The command thread: one instruction of a handler *)

Running(op) == Alive /\ pc = "run" /\ Program[req.cmd][step].op = op
Instr == Program[req.cmd][step]

Continue == IF step < Len(Program[req.cmd])
            THEN step' = step + 1 /\ UNCHANGED pc
            ELSE step' = 1 /\ pc' = "inp"
Abort == IF req.cmd = "GEMG" THEN step' = Resume(step) /\ UNCHANGED pc
                             ELSE step' = 1 /\ pc' = "inp"

WriteCoilInstr ==
    /\ Running("coil")
    /\ LET d == WriteCoil(drive, Instr.coil, Instr.on) IN
       \/ WriteDone(d) /\ Continue
       \/ WriteFails(d) /\ Abort
    /\ UNCHANGED <<req, reply, peer, shared, mpc, angle, env>>

SendInstr ==
    /\ Running("send")
    /\ LET v == IF Instr.from = "cruise" THEN cruise[Instr.reg] ELSE CheckRate
           d == WriteRegister(drive, Instr.reg, v) IN
       \/ WriteDone(d) /\ Continue
       \/ WriteFails(d) /\ Abort
    /\ UNCHANGED <<req, reply, peer, shared, mpc, angle, env>>

\* set_abs_control_mode and the position registers, two writes without effect of
\* their own until START.
PutRefInstr ==
    /\ Running("ref")
    /\ LET d == WritePosition(drive, dest) IN
       \/ WriteDone(d) /\ Continue
       \/ WriteFails(d) /\ Abort
    /\ UNCHANGED <<req, reply, peer, shared, mpc, angle, env>>

\* goto_point, goto_left, goto_right up to run_to_angle.
AimInstr ==
    /\ Running("aim")
    /\ dest' = CASE Instr.at = "point" -> ClampPoint(req.v, limit)
                 [] Instr.at = "zero"  -> ClampPoint(0, limit)
                 [] Instr.at = "left"  -> limit.left
                 [] Instr.at = "right" -> limit.right
    /\ Continue
    /\ UNCHANGED <<req, reply, peer, status, stop, limit, cruise, mpc, drive, angle, env, fails>>

\* run_to_angle does nothing unless the drive is in position.
IfInpInstr ==
    /\ Running("if_inp")
    /\ \E on \in BOOLEAN : /\ Reads(InPosition(drive), on)
                         /\ IF on THEN Continue ELSE Abort
    /\ UNCHANGED <<req, reply, peer, shared, mpc, drive, angle, env>>

\* check_motion polls INP until it is on.
AfterWaitInverted(on) == IF on THEN UNCHANGED <<pc, step>> ELSE Continue
AfterWait(on) == IF on THEN Continue ELSE UNCHANGED <<pc, step>>
WaitInpInstr ==
    /\ Running("wait_inp")
    /\ \E on \in BOOLEAN : Reads(InPosition(drive), on) /\ AfterWait(on)
    /\ UNCHANGED <<req, reply, peer, shared, mpc, drive, angle, env>>

\* send_error_msg: eight reads, then the message; nothing is sent if one fails.
ReportInstr ==
    /\ Running("report")
    /\ \E done \in BOOLEAN : /\ Reads(TRUE, done)
                           /\ reply' = IF done THEN "$E" ELSE reply
    /\ Continue
    /\ UNCHANGED <<req, peer, shared, mpc, drive, angle, env>>

SetStopInstr ==
    /\ Running("set_stop")
    /\ stop' = TRUE
    /\ Continue
    /\ UNCHANGED <<req, reply, peer, status, limit, dest, cruise, mpc, drive, angle, env, fails>>

-----------------------------------------------------------------------------
(* The command thread: the checks that end every turn of its loop *)

Poll(at, next) == Alive /\ pc = at /\ pc' = next

\* In position, whatever the status was it becomes FREE.
AfterInpKeepsLocating(s) == IF s = "LOCATING" THEN s ELSE "FREE"
AfterInp(s) == "FREE"

\* In position: a point is done.
PollInp ==
    /\ Poll("inp", "alarm")
    /\ \E on \in BOOLEAN :
         /\ Reads(InPosition(drive), on)
         /\ status' = IF on THEN AfterInp(status) ELSE status
         /\ reply' = IF on /\ status = "LOCATING" THEN "$B" ELSE ""
    /\ UNCHANGED <<req, step, peer, stop, limit, dest, cruise, mpc, drive, angle, env>>

\* motor_zero_speed is initialised to 1 and only ever set to 1.
motor_zero_speed == 1
EncoderSlow == frozen \/ angle = drive.pos

\* The alarm output, then the comparison of encoder and motor standstill.
PollAlarm ==
    /\ Poll("alarm", "ot")
    /\ \E alarm \in BOOLEAN :
         /\ Reads("ALRM_DETC" \in drive.fault, alarm)
         /\ LET mismatch == EncoderSlow /\ motor_zero_speed # 1 IN
            /\ status' = IF alarm \/ mismatch THEN "ERROOR" ELSE status
            /\ reply' = IF mismatch THEN "$F" ELSE ""
    /\ UNCHANGED <<req, step, peer, stop, limit, dest, cruise, mpc, drive, angle, env>>

SetCont(c, on) == \/ WriteDone(WriteCoil(drive, c, on))
                  \/ WriteFails(WriteCoil(drive, c, on))

\* Over-travel: the side that is exceeded is set, and both are cleared inside.
CheckLeftLimit ==
    /\ Poll("ot", "data") /\ angle < limit.left
    /\ SetCont("OT_MINUS", TRUE)
    /\ UNCHANGED <<req, step, reply, peer, shared, mpc, angle, env>>
CheckRightLimit ==
    /\ Poll("ot", "data") /\ angle >= limit.left /\ angle > limit.right
    /\ SetCont("OT_PLUS", TRUE)
    /\ UNCHANGED <<req, step, reply, peer, shared, mpc, angle, env>>
ClearLeftLimit ==
    /\ Poll("ot", "ot2") /\ angle >= limit.left /\ angle <= limit.right
    /\ SetCont("OT_MINUS", FALSE)
    /\ UNCHANGED <<req, step, reply, peer, shared, mpc, angle, env>>
ClearRightLimitCopied ==
    /\ Poll("ot2", "data")
    /\ SetCont("OT_MINUS", FALSE)
    /\ UNCHANGED <<req, step, reply, peer, shared, mpc, angle, env>>
ClearRightLimit ==
    /\ Poll("ot2", "data")
    /\ SetCont("OT_PLUS", FALSE)
    /\ UNCHANGED <<req, step, reply, peer, shared, mpc, angle, env>>

\* RS485 data error and lifetime warning.
PollWarning(at, next, f) ==
    /\ Poll(at, next)
    /\ \E on \in BOOLEAN : /\ Reads(f \in drive.fault, on)
                         /\ status' = IF on THEN "ERROOR" ELSE status
    /\ UNCHANGED <<req, step, reply, peer, stop, limit, dest, cruise, mpc, drive, angle, env>>

CommandThread ==
    \/ \E m \in Requests : Refuse(m) \/ Accept(m)
    \/ NothingReceived
    \/ WriteCoilInstr \/ SendInstr \/ PutRefInstr \/ AimInstr
    \/ IfInpInstr \/ WaitInpInstr \/ ReportInstr \/ SetStopInstr
    \/ PollInp \/ PollAlarm
    \/ CheckLeftLimit \/ CheckRightLimit \/ ClearLeftLimit \/ ClearRightLimit
    \/ PollWarning("data", "life", "DATA_ERROR")
    \/ PollWarning("life", "recv", "LIFE_WRNING")

-----------------------------------------------------------------------------
(* The main thread after its loop sees g_stop *)

MainSeesStop ==
    /\ mpc = "loop" /\ stop
    /\ mpc' = "serve_off"
    /\ UNCHANGED <<thread, shared, drive, angle, env, fails>>

MainServeOffMissing ==
    /\ mpc = "serve_off" /\ mpc' = "close"
    /\ UNCHANGED <<thread, shared, drive, angle, env, fails>>
MainServeOff ==
    /\ mpc = "serve_off" /\ mpc' = "close"
    /\ SetCont("SERVO_ON", FALSE)
    /\ UNCHANGED <<thread, shared, angle, env>>

MainCloses ==
    /\ mpc = "close" /\ mpc' = "return"
    /\ UNCHANGED <<thread, shared, drive, angle, env, fails>>

MainReturns ==
    /\ mpc = "return" /\ mpc' = "exit"
    /\ UNCHANGED <<thread, shared, drive, angle, env, fails>>

MainThread == MainSeesStop \/ MainServeOff \/ MainCloses \/ MainReturns

-----------------------------------------------------------------------------
(* The environment *)

DriveAdvances ==
    /\ CanAdvance(drive) /\ drive' = Advanced(drive)
    /\ UNCHANGED <<thread, shared, mpc, angle, env, fails>>

DriveFaults ==
    /\ upsets < MaxUpsets /\ upsets' = upsets + 1
    /\ \E f \in Faults \ drive.fault : drive' = Faulted(drive, f)
    /\ UNCHANGED <<thread, shared, mpc, angle, inbox, sent, frozen, fails>>

\* The encoder thread publishes the angle of the output axis.
EncoderSamples ==
    /\ Alive /\ ~frozen /\ angle # drive.pos
    /\ angle' = drive.pos
    /\ UNCHANGED <<thread, shared, mpc, drive, env, fails>>

EncoderFreezes ==
    /\ MaxFreezes > 0 /\ ~frozen /\ frozen' = TRUE
    /\ UNCHANGED <<thread, shared, mpc, drive, angle, inbox, sent, upsets, fails>>

ClientSends(c, m) ==
    /\ sent < MaxSends /\ Len(inbox) < MaxQueue
    /\ sent' = sent + 1
    /\ inbox' = Append(inbox, [from |-> c, msg |-> m])
    /\ UNCHANGED <<thread, shared, mpc, drive, angle, upsets, frozen, fails>>

Exited == ~Alive /\ UNCHANGED vars

Next ==
    \/ CommandThread
    \/ MainThread
    \/ DriveAdvances \/ DriveFaults
    \/ EncoderSamples \/ EncoderFreezes
    \/ \E c \in Clients, m \in Requests : ClientSends(c, m)
    \/ Exited

Spec == Init /\ [][Next]_vars

\* Both threads keep running, a drive that can move does, the encoder streams.
Fairness ==
    /\ WF_vars(CommandThread)
    /\ WF_vars(MainThread)
    /\ WF_vars(DriveAdvances)
    /\ WF_vars(EncoderSamples)

FairSpec == Spec /\ Fairness

-----------------------------------------------------------------------------
(* Safety *)

\* FREE is what admits the next motion and every change of profile or limits: it
\* is only ever shown by a drive that stands still, whatever transactions failed
\* (run_cmd's tests on FREE, the update after is_INP, the status set before goto_*).
FreeMeansStandstill == status = "FREE" => InPosition(drive)

\* A motion under way goes to a point between the limits in force: maxpoint cannot
\* move a limit under a motion, nor a handler start towards a stale target.
TravelWithinLimits ==
    ~InPosition(drive) => limit.left <= drive.target /\ drive.target <= limit.right

\* No transaction has failed on all its attempts and the drive has raised no fault.
Intact == fails = 0 /\ upsets = 0

\* "$B" is sent with the axis at the destination of the accepted point: not after a
\* cancel, a left or right run, nor half way, as long as the drive is sound and hears
\* every command.  (Once g_stop is set the command thread still answers until the
\* process is gone, with the servo off.)
DoneMeansArrived == Intact /\ reply = "$B" /\ ~stop => drive.pos = dest

\* stop releases the servo twice, in run_cmd and at the end of main: the process
\* never exits with the servo on unless both releases failed.
ServoReleasedOnExit == ~Alive /\ drive.coil["SERVO_ON"] => fails >= 2

\* As long as no transaction is lost, the amplifier runs between commands with the
\* profile the daemon believes in, also after a self check, which has one of its own,
\* and whatever a cancel, an alarm or an ignored motion does to the check.
ProfileApplied == pc = "recv" /\ LineOpen /\ fails = 0 => drive.reg = cruise

\* After a stop command that released the servo nothing sets the axis in motion again
\* before the exit, not even the commands that were already waiting in the socket.
NoMotionAfterStop ==
    [][stop /\ fails = 0 /\ InPosition(drive) => InPosition(drive')]_vars

-----------------------------------------------------------------------------
(* Liveness *)

\* An accepted stop ends the process with the servo released.
StopEnds ==
    (pc = "run" /\ req.cmd = "GEMG") ~> (~Alive /\ ~drive.coil["SERVO_ON"])

Outside == drive.pos < limit.left \/ drive.pos > limit.right

\* Two maxpoint commands, one limit and then the other moved across the axis: each set an
\* over-travel input, neither is cleared out there, and no direction is left.
Trapped == Outside /\ drive.coil["OT_PLUS"] /\ drive.coil["OT_MINUS"]

\* An accepted point does not leave the axis LOCATING for ever, from wherever the limits
\* have left it and whatever input that set, unless it is trapped outside of them by both
\* or the encoder is no longer heard (run_cmd, the over-travel checks of parsesocket).
LocatingEnds ==
    status = "LOCATING" ~> (status # "LOCATING" \/ ~Alive \/ Trapped \/ frozen)

\* A self check started with no over-travel input on comes to its end, failed
\* transactions or not, and the command thread back to its socket.
ClearCheckEnds ==
    (pc = "run" /\ req.cmd = "GCHECK" /\ step = 1 /\ ~drive.coil["OT_PLUS"] /\ ~drive.coil["OT_MINUS"])
        ~> (pc = "recv" \/ ~Alive)

\* Once the axis is back between the limits, over-travel no longer holds it, also after
\* both inputs were on, unless a self check keeps the command thread from looking or the
\* encoder is no longer heard.
OvertravelCleared ==
    ~Outside ~> \/ ~drive.coil["OT_PLUS"] /\ ~drive.coil["OT_MINUS"]
                \/ Outside \/ frozen
                \/ (pc = "run" /\ req.cmd = "GCHECK") \/ ~Alive

-----------------------------------------------------------------------------
(* What the manual says and the code does not do *)

\* Every self check comes to its last leg, so that a stop that waits in the socket is
\* heard (check_motion polls INP on the thread that would read it).
CheckEnds == (pc = "run" /\ req.cmd = "GCHECK") ~> (pc = "recv" \/ ~Alive)

=============================================================================
