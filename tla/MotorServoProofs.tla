-------------------------- MODULE MotorServoProofs --------------------------
(* Theorems about MotorServo for every value of its constants. *)
EXTENDS MotorServoService, SequenceTheorems, TLAPS

-----------------------------------------------------------------------------
(* The operators of Drive *)

\* START maps drives to drives.
LEMMA StartedType ==
    ASSUME NEW d \in DriveSet
    PROVE  Started(d) \in DriveSet
<1>1. (d.ref # d.pos) \in BOOLEAN
  OBVIOUS
<1> QED BY <1>1 DEF DriveSet, Started

\* A coil write maps drives to drives.
LEMMA WriteCoilType ==
    ASSUME NEW d \in DriveSet, NEW c \in Coils, NEW on \in BOOLEAN
    PROVE  WriteCoil(d, c, on) \in DriveSet
<1> DEFINE w == [d EXCEPT !.coil[c] = on]
<1>1. w \in DriveSet
  BY DEF DriveSet
<1>2. /\ Started(w) \in DriveSet /\ Halted(w) \in DriveSet
      /\ Cleared(w) \in DriveSet /\ Preset(w) \in DriveSet
  <2> HIDE DEF w
  <2>1. Started(w) \in DriveSet
    BY <1>1, StartedType
  <2>2. Halted(w) \in DriveSet
    BY <1>1 DEF DriveSet, Halted
  <2>3. Cleared(w) \in DriveSet
    BY <1>1 DEF DriveSet, Cleared
  <2>4. Preset(w) \in DriveSet
    BY <1>1 DEF DriveSet, Preset
  <2> QED BY <2>1, <2>2, <2>3, <2>4
<1> QED
  BY <1>1, <1>2 DEF WriteCoil

\* So do the register and position writes, the travel and the faults of the drive.
LEMMA DriveOperatorsType ==
    ASSUME NEW d \in DriveSet
    PROVE  /\ \A r \in Registers, v \in Int : WriteRegister(d, r, v) \in DriveSet
           /\ \A p \in Int : WritePosition(d, p) \in DriveSet
           /\ Advanced(d) \in DriveSet
           /\ \A f \in Faults : Faulted(d, f) \in DriveSet
<1>1. \A r \in Registers, v \in Int : WriteRegister(d, r, v) \in DriveSet
  BY DEF DriveSet, WriteRegister
<1>2. \A p \in Int : WritePosition(d, p) \in DriveSet
  BY DEF DriveSet, WritePosition
<1>3. Advanced(d) \in DriveSet
  <2> DEFINE p == IF d.target > d.pos THEN d.pos + 1
                  ELSE IF d.target < d.pos THEN d.pos - 1 ELSE d.pos
  <2>1. p \in Int /\ (p # d.target) \in BOOLEAN
    BY DEF DriveSet
  <2>2. [d EXCEPT !.pos = p, !.busy = (p # d.target)] \in DriveSet
    <3> HIDE DEF p
    <3> QED BY <2>1 DEF DriveSet
  <2> QED BY <2>2 DEF Advanced
<1>4. \A f \in Faults : Faulted(d, f) \in DriveSet
  BY DEF DriveSet, Faulted
<1> QED BY <1>1, <1>2, <1>3, <1>4

\* Only START sets a drive in motion.
LEMMA WriteCoilBusy ==
    ASSUME NEW d \in DriveSet, NEW c \in Coils, NEW on \in BOOLEAN,
           c # "START", ~d.busy
    PROVE  ~WriteCoil(d, c, on).busy
<1> DEFINE w == [d EXCEPT !.coil[c] = on]
<1>1. w.busy = d.busy
  BY DEF DriveSet
<1>2. w \in DriveSet
  BY DEF DriveSet
<1>3. ~Halted(w).busy /\ ~Cleared(w).busy /\ Preset(w).busy = w.busy
  BY <1>2 DEF Halted, Cleared, Preset, DriveSet
<1> QED
  BY <1>1, <1>3 DEF WriteCoil

\* A coil write changes the coil it names and, on its active edge, what that coil
\* acts on: the motion is the business of START, the zero that of PST_PRESET.
LEMMA WriteCoilFrame ==
    ASSUME NEW d \in DriveSet, NEW c \in Coils, NEW on \in BOOLEAN
    PROVE  /\ WriteCoil(d, c, on).coil = [d.coil EXCEPT ![c] = on]
           /\ WriteCoil(d, c, on).reg = d.reg /\ WriteCoil(d, c, on).ref = d.ref
           /\ c # "START" => WriteCoil(d, c, on).target = d.target
           /\ c # "PST_PRESET" => WriteCoil(d, c, on).pos = d.pos
<1> DEFINE w == [d EXCEPT !.coil[c] = on]
<1>1. w \in DriveSet
  BY DEF DriveSet
<1>2. /\ w.coil = [d.coil EXCEPT ![c] = on]
      /\ w.reg = d.reg /\ w.ref = d.ref /\ w.target = d.target /\ w.pos = d.pos
  BY DEF DriveSet
<1>3. \A x \in {Started(w), Halted(w), Cleared(w), Preset(w)} :
         x.coil = w.coil /\ x.reg = w.reg /\ x.ref = w.ref
  <2> HIDE DEF w
  <2> QED BY <1>1 DEF DriveSet, Started, Halted, Cleared, Preset
<1>4. /\ \A x \in {Halted(w), Cleared(w), Preset(w)} : x.target = w.target
      /\ \A x \in {Started(w), Halted(w), Cleared(w)} : x.pos = w.pos
  <2> HIDE DEF w
  <2> QED BY <1>1 DEF DriveSet, Started, Halted, Cleared, Preset
<1>5. /\ WriteCoil(d, c, on) \in {w, Started(w), Halted(w), Cleared(w), Preset(w)}
      /\ c # "START" => WriteCoil(d, c, on) \in {w, Halted(w), Cleared(w), Preset(w)}
      /\ c # "PST_PRESET" => WriteCoil(d, c, on) \in {w, Started(w), Halted(w), Cleared(w)}
  BY DEF WriteCoil
<1> HIDE DEF w
<1> QED BY <1>2, <1>3, <1>4, <1>5

\* No coil write but the release changes the servo coil.
LEMMA WriteCoilServo ==
    ASSUME NEW d \in DriveSet, NEW c \in Coils, NEW on \in BOOLEAN
    PROVE  /\ c # "SERVO_ON" => WriteCoil(d, c, on).coil["SERVO_ON"] = d.coil["SERVO_ON"]
           /\ ~WriteCoil(d, "SERVO_ON", FALSE).coil["SERVO_ON"]
<1>1. "SERVO_ON" \in Coils /\ d.coil \in [Coils -> BOOLEAN]
  BY DEF Coils, DriveSet
<1>2. ASSUME c # "SERVO_ON"
      PROVE  WriteCoil(d, c, on).coil["SERVO_ON"] = d.coil["SERVO_ON"]
  <2>1. WriteCoil(d, c, on).coil = [d.coil EXCEPT ![c] = on]
    BY WriteCoilFrame
  <2> QED BY <1>1, <1>2, <2>1, Zenon
<1>3. ~WriteCoil(d, "SERVO_ON", FALSE).coil["SERVO_ON"]
  <2>1. WriteCoil(d, "SERVO_ON", FALSE).coil = [d.coil EXCEPT !["SERVO_ON"] = FALSE]
    BY <1>1, WriteCoilFrame
  <2> QED BY <1>1, <2>1, Zenon
<1> QED BY <1>2, <1>3

\* Writing START: an enabled drive that nothing holds back takes the position on its
\* rising edge, every other write of it leaves the motion alone.
LEMMA WriteStart ==
    ASSUME NEW d \in DriveSet, NEW on \in BOOLEAN
    PROVE  /\ WriteCoil(d, "START", on).fault = d.fault
           /\ WriteCoil(d, "START", on).busy =>
                 \/ d.busy /\ WriteCoil(d, "START", on).target = d.target
                 \/ /\ on /\ d.coil["SERVO_ON"] /\ d.ref # d.pos
                    /\ WriteCoil(d, "START", on).target = d.ref
           /\ ~on => WriteCoil(d, "START", on).busy = d.busy
           /\ on /\ ~d.coil["START"] /\ CanRun(d) =>
                 (WriteCoil(d, "START", on).busy <=> d.ref # d.pos)
<1> DEFINE w == [d EXCEPT !.coil["START"] = on]
           x == WriteCoil(d, "START", on)
<1>1. /\ w \in DriveSet /\ w.busy = d.busy /\ w.target = d.target /\ w.fault = d.fault
      /\ w.ref = d.ref /\ w.pos = d.pos
      /\ \A c \in Coils \ {"START"} : w.coil[c] = d.coil[c]
  BY DEF DriveSet
<1>2. x = w \/ (on /\ ~d.coil["START"] /\ CanRun(w) /\ x = Started(w))
  BY DEF WriteCoil, Started
<1>3. CanRun(w) <=> CanRun(d)
  <2>1. {"SERVO_ON", "PST_CANCEL", "EMG"} \subseteq Coils \ {"START"}
    BY DEF Coils
  <2> QED BY <1>1, <2>1, Zenon DEF CanRun
<1>4. ~on => x = w
  BY DEF WriteCoil
<1>5. on /\ ~d.coil["START"] => x = Started(w)
  BY DEF WriteCoil
<1> HIDE DEF w, x
<1>6. CanRun(w) => /\ Started(w).busy <=> w.ref # w.pos
                   /\ Started(w).target = w.ref /\ Started(w).fault = w.fault
  BY <1>1 DEF Started, DriveSet
<1>7. CanRun(d) => d.coil["SERVO_ON"]
  BY DEF CanRun
<1>8. x.fault = d.fault
  BY <1>1, <1>2, <1>6
<1>9. x.busy => \/ d.busy /\ x.target = d.target
                \/ on /\ d.coil["SERVO_ON"] /\ d.ref # d.pos /\ x.target = d.ref
  BY <1>1, <1>2, <1>3, <1>6, <1>7
<1>10. on /\ ~d.coil["START"] /\ CanRun(d) => (x.busy <=> d.ref # d.pos)
  BY <1>1, <1>3, <1>5, <1>6
<1> QED BY <1>1, <1>4, <1>8, <1>9, <1>10 DEF x

\* One unit of travel leads to the target, which ends the positioning.
LEMMA AdvancedFrame ==
    ASSUME NEW d \in DriveSet, d.pos # d.target
    PROVE  /\ Advanced(d).coil = d.coil /\ Advanced(d).reg = d.reg
           /\ Advanced(d).ref = d.ref /\ Advanced(d).target = d.target
           /\ Advanced(d).fault = d.fault
           /\ Advanced(d).pos = IF d.pos < d.target THEN d.pos + 1 ELSE d.pos - 1
           /\ Advanced(d).busy <=> Advanced(d).pos # d.target
<1> DEFINE p == IF d.target > d.pos THEN d.pos + 1
                ELSE IF d.target < d.pos THEN d.pos - 1 ELSE d.pos
<1>1. d.pos \in Int /\ d.target \in Int
  BY DEF DriveSet
<1>2. p = IF d.pos < d.target THEN d.pos + 1 ELSE d.pos - 1
  BY <1>1
<1>3. Advanced(d) = [d EXCEPT !.pos = p, !.busy = (p # d.target)]
  BY DEF Advanced
<1> HIDE DEF p
<1> QED BY <1>2, <1>3 DEF DriveSet

\* No coil write raises a fault.
LEMMA WriteCoilFault ==
    ASSUME NEW d \in DriveSet, NEW c \in Coils, NEW on \in BOOLEAN
    PROVE  WriteCoil(d, c, on).fault \subseteq d.fault
<1> DEFINE w == [d EXCEPT !.coil[c] = on]
<1>1. w \in DriveSet /\ w.fault = d.fault
  BY DEF DriveSet
<1>2. WriteCoil(d, c, on) \in {w, Started(w), Halted(w), Cleared(w), Preset(w)}
  BY DEF WriteCoil
<1> HIDE DEF w
<1>3. /\ Started(w).fault = w.fault /\ Halted(w).fault = w.fault
      /\ Preset(w).fault = w.fault /\ Cleared(w).fault = w.fault \ {"ALRM_DETC"}
  BY <1>1 DEF DriveSet, Started, Halted, Cleared, Preset
<1> QED BY <1>1, <1>2, <1>3

\* The over-travel coils are levels: writing one changes nothing else.
LEMMA WriteOvertravel ==
    ASSUME NEW d \in DriveSet, NEW c \in {"OT_PLUS", "OT_MINUS"}, NEW on \in BOOLEAN
    PROVE  /\ WriteCoil(d, c, on).busy = d.busy /\ WriteCoil(d, c, on).fault = d.fault
           /\ \A e \in Coils \ {c} : WriteCoil(d, c, on).coil[e] = d.coil[e]
<1>1. WriteCoil(d, c, on) = [d EXCEPT !.coil[c] = on]
  BY DEF WriteCoil
<1>2. c \in Coils
  BY DEF Coils
<1> QED BY <1>1, <1>2 DEF DriveSet

-----------------------------------------------------------------------------
(* The handlers *)

MotionCmds == {"GPOINT", "GLEFT", "GRIGHT", "GCHECK"}
QuietCmds  == Cmds \ (MotionCmds \cup {"GEMG"})

\* The instructions of a handler that neither starts the axis nor stops the daemon,
\* and those of a motion.
QuietInstructions ==
    {Coil(c, on) : c \in {"PST_CANCEL", "RST"}, on \in BOOLEAN}
      \cup {Send(r, f) : r \in Registers, f \in {"cruise", "check"}}
      \cup {Report}
MotionInstructions ==
    QuietInstructions
      \cup {Coil("START", on) : on \in BOOLEAN}
      \cup {Aim(at) : at \in {"point", "zero", "left", "right"}}
      \cup {IfInp, WaitInp, PutRef}

\* A handler that is neither a motion nor the emergency stop has none of their
\* instructions.
LEMMA QuietPrograms == \A c \in QuietCmds : Program[c] \in Seq(QuietInstructions)
<1> DEFINE Q == QuietInstructions
<1>1. /\ \A c \in {"PST_CANCEL", "RST"}, on \in BOOLEAN : Coil(c, on) \in Q
      /\ \A r \in Registers, f \in {"cruise", "check"} : Send(r, f) \in Q
      /\ Report \in Q
  BY DEF QuietInstructions
<1>2. /\ Coil("PST_CANCEL", TRUE) \in Q /\ Coil("PST_CANCEL", FALSE) \in Q
      /\ Coil("RST", TRUE) \in Q /\ Coil("RST", FALSE) \in Q
  BY <1>1, Zenon
<1> HIDE DEF Q
<1>3. /\ <<>> \in Seq(Q)
      /\ \A a \in Q : <<a>> \in Seq(Q)
      /\ \A a, b \in Q : <<a, b>> \in Seq(Q)
      /\ \A s, t \in Seq(Q) : s \o t \in Seq(Q)
  OBVIOUS
<1>4. task_cancel \in Seq(Q)
  BY <1>2, <1>3, Zenon DEF task_cancel
<1>5. \A r \in Registers : task_cancel \o <<Send(r, "cruise")>> \in Seq(Q)
  BY <1>1, <1>3, <1>4
<1>6. <<Coil("RST", TRUE), Coil("RST", FALSE)>> \in Seq(Q) /\ <<Report>> \in Seq(Q)
  BY <1>1, <1>2, <1>3, Zenon
<1>7. /\ Program["GNONE"] = <<>> /\ Program["GMAX_POINT"] = <<>>
      /\ Program["GSUM"] = <<>> /\ Program["GSPEEDMSG"] = <<>>
      /\ Program["GPST_CANCEL"] = task_cancel
      /\ Program["GSPEED"] = task_cancel \o <<Send("SPEED", "cruise")>>
      /\ Program["GACCE_TIME"] = task_cancel \o <<Send("ACC_TIM", "cruise")>>
      /\ Program["GDECE_TIME"] = task_cancel \o <<Send("DEC_TIM", "cruise")>>
  BY DEF Program
<1>8. /\ Program["GERROR_MSG"] = <<Report>>
      /\ Program["GALARM_RST"] = <<Coil("RST", TRUE), Coil("RST", FALSE)>>
  BY DEF Program
<1> QED
  BY <1>3, <1>4, <1>5, <1>6, <1>7, <1>8 DEF Q, QuietCmds, MotionCmds, Cmds, Registers

\* A motion never touches the servo or g_stop.
LEMMA MotionPrograms == \A c \in MotionCmds : Program[c] \in Seq(MotionInstructions)
<1> DEFINE Q == MotionInstructions
<1>1. /\ \A c \in {"PST_CANCEL", "RST"}, on \in BOOLEAN : Coil(c, on) \in Q
      /\ \A on \in BOOLEAN : Coil("START", on) \in Q
      /\ \A r \in Registers, f \in {"cruise", "check"} : Send(r, f) \in Q
      /\ \A at \in {"point", "zero", "left", "right"} : Aim(at) \in Q
      /\ IfInp \in Q /\ WaitInp \in Q /\ PutRef \in Q
  BY DEF MotionInstructions, QuietInstructions
<1>2. /\ Coil("PST_CANCEL", TRUE) \in Q /\ Coil("PST_CANCEL", FALSE) \in Q
      /\ Coil("START", TRUE) \in Q /\ Coil("START", FALSE) \in Q
  BY <1>1, Zenon
<1> HIDE DEF Q
<1>3. /\ \A a \in Q : <<a>> \in Seq(Q)
      /\ \A a, b \in Q : <<a, b>> \in Seq(Q)
      /\ \A a, b, c, d \in Q : <<a, b, c, d>> \in Seq(Q)
      /\ \A s, t \in Seq(Q) : s \o t \in Seq(Q)
  OBVIOUS
<1>4. task_cancel \in Seq(Q) /\ run_to_angle \in Seq(Q)
  BY <1>1, <1>2, <1>3, Zenon DEF task_cancel, run_to_angle
<1>5. \A at \in {"point", "zero", "left", "right"} : <<Aim(at)>> \o run_to_angle \in Seq(Q)
  BY <1>1, <1>3, <1>4
<1>6. \A f \in {"cruise", "check"} : send_profile(f) \in Seq(Q)
  BY <1>1 DEF send_profile, Registers
<1>7. check_motion \in Seq(Q)
  <2>1. /\ \A at \in {"point", "zero", "left", "right"} : <<Aim(at)>> \in Seq(Q)
        /\ <<WaitInp>> \in Seq(Q)
    BY <1>1, <1>3
  <2> QED BY <2>1, <1>3, <1>4, <1>6 DEF check_motion
<1>8. /\ Program["GCHECK"] = check_motion
      /\ Program["GPOINT"] = <<Aim("point")>> \o run_to_angle
      /\ Program["GLEFT"] = <<Aim("left")>> \o run_to_angle
      /\ Program["GRIGHT"] = <<Aim("right")>> \o run_to_angle
  BY DEF Program
<1> QED
  BY <1>5, <1>7, <1>8 DEF Q, MotionCmds

\* The emergency stop, transaction by transaction.
LEMMA EmergencyProgram ==
    /\ Len(Program["GEMG"]) = 4
    /\ Program["GEMG"][1] = Coil("EMG", TRUE)
    /\ Program["GEMG"][2] = Coil("EMG", FALSE)
    /\ Program["GEMG"][3] = Coil("SERVO_ON", FALSE)
    /\ Program["GEMG"][4] = SetStop
BY DEF Program, emergency_stop

\* Every handler is a sequence of instructions.
LEMMA ProgramType == \A c \in Cmds : Program[c] \in Seq(Instructions)
<1>1. QuietInstructions \subseteq Instructions /\ MotionInstructions \subseteq Instructions
  <2>1. {"PST_CANCEL", "RST", "START"} \subseteq Coils
    BY DEF Coils
  <2> QED
    BY <2>1 DEF QuietInstructions, MotionInstructions, Instructions
<1>2. Program["GEMG"] \in Seq(Instructions)
  <2>1. \A a, b, c, d \in Instructions : <<a, b, c, d>> \in Seq(Instructions)
    OBVIOUS
  <2>2. {"EMG", "SERVO_ON"} \subseteq Coils
    BY DEF Coils
  <2>3. /\ \A c \in Coils, on \in BOOLEAN : Coil(c, on) \in Instructions
        /\ SetStop \in Instructions
    BY DEF Instructions
  <2>4. /\ Coil("EMG", TRUE) \in Instructions /\ Coil("EMG", FALSE) \in Instructions
        /\ Coil("SERVO_ON", FALSE) \in Instructions
    BY <2>2, <2>3, Zenon
  <2>5. Program["GEMG"] = emergency_stop
    BY DEF Program
  <2> QED BY <2>1, <2>3, <2>4, <2>5, Zenon DEF emergency_stop
<1>3. \A S, s : s \in Seq(S) /\ S \subseteq Instructions => s \in Seq(Instructions)
  OBVIOUS
<1>4. \A c \in QuietCmds \cup MotionCmds : Program[c] \in Seq(Instructions)
  BY <1>1, <1>3, QuietPrograms, MotionPrograms
<1> QED BY <1>2, <1>4 DEF QuietCmds

\* What an instruction of each kind carries.
LEMMA InstructionFields ==
    ASSUME NEW i \in Instructions
    PROVE  /\ i.op = "coil" => i.coil \in Coils /\ i.on \in BOOLEAN
           /\ i.op = "send" => i.reg \in Registers
           /\ i.op = "aim"  => i.at \in {"point", "zero", "left", "right"}
BY DEF Instructions, Coil, Send, Aim, IfInp, WaitInp, PutRef, Report, SetStop

\* A request stays one when it is turned into the coordinates of the drive.
LEMMA ParseType ==
    ASSUME NEW m \in RequestSet
    PROVE  Parse(m) \in RequestSet
<1> DEFINE turn(x) == IF Anticlockwise THEN -x ELSE x
           a == turn(m.v)
           b == turn(m.w)
<1>1. m.v \in Int /\ m.w \in Int
  BY DEF RequestSet
<1>2. a \in Int /\ b \in Int
  BY <1>1
<1>3. /\ [m EXCEPT !.v = a] \in RequestSet
      /\ [m EXCEPT !.v = a, !.w = b] \in RequestSet
      /\ [m EXCEPT !.v = b, !.w = a] \in RequestSet
      /\ [m EXCEPT !.cmd = "GLEFT"] \in RequestSet
      /\ [m EXCEPT !.cmd = "GRIGHT"] \in RequestSet
  <2> HIDE DEF a, b
  <2> QED BY <1>2 DEF RequestSet, Cmds
<1>4. CASE m.cmd = "GPOINT"
  BY <1>3, <1>4 DEF Parse
<1>5. CASE m.cmd = "GMAX_POINT"
  BY <1>1, <1>2, <1>3, <1>5 DEF Parse
<1>6. CASE m.cmd = "GLEFT" \/ m.cmd = "GRIGHT"
  BY <1>3, <1>6 DEF Parse
<1>7. CASE m.cmd \notin {"GPOINT", "GMAX_POINT", "GLEFT", "GRIGHT"}
  BY <1>7 DEF Parse
<1> QED BY <1>4, <1>5, <1>6, <1>7

-----------------------------------------------------------------------------
(* Type correctness *)

\* The instruction under execution, and where the handler goes on from it.
LEMMA RunningInstruction ==
    ASSUME TypeOK, pc = "run"
    PROVE  /\ Instr \in Instructions
           /\ req.cmd \in Cmds
           /\ Len(Program[req.cmd]) \in Nat
           /\ Continue => /\ pc' \in {"run", "inp"}
                          /\ step' \in 1..(Len(Program[req.cmd]) + 1)
                          /\ pc' = "run" => step' \in 1..Len(Program[req.cmd])
           /\ Abort => /\ pc' \in {"run", "inp"}
                       /\ step' \in 1..(Len(Program[req.cmd]) + 1)
                       /\ pc' = "run" => step' \in 1..Len(Program[req.cmd])
<1>1. req.cmd \in Cmds
  BY DEF TypeOK, RequestSet
<1>2. Program[req.cmd] \in Seq(Instructions) /\ step \in 1..Len(Program[req.cmd])
  BY <1>1, ProgramType DEF TypeOK
<1>3. Instr \in Instructions /\ Len(Program[req.cmd]) \in Nat
  BY <1>2 DEF Instr
<1>4. ASSUME Continue
      PROVE  /\ pc' \in {"run", "inp"}
             /\ step' \in 1..(Len(Program[req.cmd]) + 1)
             /\ pc' = "run" => step' \in 1..Len(Program[req.cmd])
  BY <1>2, <1>3, <1>4 DEF Continue
<1>5. ASSUME Abort
      PROVE  /\ pc' \in {"run", "inp"}
             /\ step' \in 1..(Len(Program[req.cmd]) + 1)
             /\ pc' = "run" => step' \in 1..Len(Program[req.cmd])
  <2>1. CASE req.cmd = "GEMG"
    BY <1>5, <2>1, EmergencyProgram DEF Abort, Resume, TypeOK
  <2>2. CASE req.cmd # "GEMG"
    BY <1>3, <1>5, <2>2 DEF Abort
  <2> QED BY <2>1, <2>2
<1> QED BY <1>1, <1>3, <1>4, <1>5

\* A transaction on the line leaves a drive and a count of failures.
LEMMA LineType ==
    ASSUME TypeOK, NEW d \in DriveSet
    PROVE  /\ LineFails => fails' \in Nat
           /\ WriteDone(d) \/ WriteFails(d) => drive' \in DriveSet /\ fails' \in Nat
           /\ \A bit, on : Reads(bit, on) => fails' \in Nat
BY DEF TypeOK, LineFails, WriteDone, WriteFails, Reads

\* Every variable keeps its type in every behaviour.
THEOREM TypeCorrect == Spec => []TypeOK
<1>1. Init => TypeOK
  <2> SUFFICES ASSUME Init PROVE TypeOK
    OBVIOUS
  <2>1. Len(Program["GNONE"]) = 0
    BY DEF Program
  <2>2. InitialDrive \in DriveSet /\ InitialProfile \in [Registers -> Int]
    <3> DEFINE up == [c \in Coils |-> c = "SERVO_ON"]
    <3>1. InitialProfile \in [Registers -> Int]
      BY DEF InitialProfile
    <3>2. up \in [Coils -> BOOLEAN]
      OBVIOUS
    <3>3. {} \in SUBSET Faults /\ FALSE \in BOOLEAN /\ 0 \in Int
      OBVIOUS
    <3>4. InitialDrive = [coil |-> up, reg |-> InitialProfile, ref |-> 0, target |-> 0,
                          pos |-> 0, busy |-> FALSE, fault |-> {}]
      BY DEF InitialDrive
    <3> HIDE DEF up
    <3> QED BY <3>1, <3>2, <3>3, <3>4 DEF DriveSet
  <2>3. limit \in [left : Int, right : Int] /\ cruise \in [Registers -> Int]
    <3>1. Left0 \in Int /\ Right0 \in Int
      BY MotorServoAssumption
    <3> QED BY <2>2, <3>1 DEF Init
  <2>4. inbox \in Seq([from : Clients, msg : RequestSet])
    <3> DEFINE Messages == [from : Clients, msg : RequestSet]
    <3> HIDE DEF Messages
    <3>1. <<>> \in Seq(Messages)
      OBVIOUS
    <3> QED BY <3>1 DEF Init, Messages
  <2>5. drive \in DriveSet
    BY <2>2 DEF Init
  <2>6. req \in RequestSet /\ req.cmd = "GNONE" /\ step = 1
    <3>1. req = [cmd |-> "GNONE", v |-> 0, w |-> 0] /\ step = 1
      BY DEF Init
    <3> QED BY <3>1 DEF RequestSet, Cmds
  <2>7. stop \in BOOLEAN /\ frozen \in BOOLEAN
    BY Zenon DEF Init
  <2>8. /\ pc \in PCs /\ reply \in Replies /\ peer \in Clients
        /\ status \in Statuses /\ dest \in Int /\ mpc \in MainPCs /\ angle \in Int
        /\ {sent, fails, upsets} \subseteq Nat
    <3>1. /\ pc = "recv" /\ reply = "" /\ peer \in Clients
          /\ status = "INITLIZING" /\ dest = 0 /\ mpc = "loop" /\ angle = 0
          /\ sent = 0 /\ fails = 0 /\ upsets = 0
      BY Zenon DEF Init
    <3>2. pc \in PCs /\ reply \in Replies /\ status \in Statuses /\ mpc \in MainPCs
      BY <3>1 DEF PCs, Replies, Statuses, MainPCs
    <3>3. peer \in Clients
      BY <3>1
    <3>4. dest \in Int /\ angle \in Int /\ {sent, fails, upsets} \subseteq Nat
      <4>1. 0 \in Int /\ 0 \in Nat
        OBVIOUS
      <4> QED BY <3>1, <4>1, Zenon
    <3> QED BY <3>2, <3>3, <3>4
  <2>9. /\ step \in 1..(Len(Program[req.cmd]) + 1)
        /\ pc = "run" => step \in 1..Len(Program[req.cmd])
    <3>1. pc = "recv"
      BY DEF Init
    <3> QED BY <2>1, <2>6, <3>1
  <2> QED
    BY <2>3, <2>4, <2>5, <2>6, <2>7, <2>8, <2>9, Zenon DEF TypeOK
<1>2. TypeOK /\ [Next]_vars => TypeOK'
  <2> SUFFICES ASSUME TypeOK, [Next]_vars PROVE TypeOK'
    OBVIOUS
  <2> DEFINE Messages == [from : Clients, msg : RequestSet]
  <2>1. ASSUME NEW m \in Requests, Received(m)
        PROVE  /\ req' \in RequestSet /\ step' = 1 /\ inbox' \in Seq(Messages)
               /\ peer' \in Clients
               /\ Len(Program[req'.cmd]) \in Nat
               /\ req' = Parse(m)
    <3>1. m \in RequestSet /\ Parse(m) \in RequestSet
      BY MotorServoAssumption, ParseType
    <3>2. inbox \in Seq(Messages) /\ inbox # <<>>
      BY <2>1 DEF TypeOK, Received
    <3>3. Head(inbox) \in Messages /\ Tail(inbox) \in Seq(Messages)
      <4> HIDE DEF Messages
      <4> QED BY <3>2
    <3>4. Program[Parse(m).cmd] \in Seq(Instructions)
      BY <3>1, ProgramType DEF RequestSet
    <3>5. Head(inbox).from \in Clients
      BY <3>3
    <3> QED BY <2>1, <3>1, <3>3, <3>4, <3>5 DEF Received
  <2>2. ASSUME NEW m \in Requests, Refuse(m) PROVE TypeOK'
    <3>1. Received(m)
      BY <2>2 DEF Refuse
    <3>2. /\ req' \in RequestSet /\ step' = 1 /\ inbox' \in Seq(Messages)
          /\ peer' \in Clients /\ Len(Program[req'.cmd]) \in Nat
      BY <2>1, <3>1
    <3>3. /\ pc' = "inp" /\ reply' = "$D"
          /\ UNCHANGED <<status, limit, cruise>>
      BY <2>2 DEF Refuse
    <3>4. UNCHANGED <<stop, dest, mpc, drive, angle, sent, upsets, frozen, fails>>
      BY <3>1 DEF Received
    <3>5. /\ step' \in 1..(Len(Program[req'.cmd]) + 1)
          /\ pc' = "run" => step' \in 1..Len(Program[req'.cmd])
      BY <3>2, <3>3
    <3>6. pc' \in PCs /\ reply' \in Replies /\ peer' \in Clients
      BY <3>2, <3>3 DEF TypeOK, PCs, Replies
    <3> QED
      BY <3>2, <3>3, <3>4, <3>5, <3>6, Zenon DEF TypeOK
  <2>3. ASSUME NEW m \in Requests, Accept(m) PROVE TypeOK'
    <3>1. Received(m)
      BY <2>3 DEF Accept
    <3>2. status' \in Statuses
      BY <2>3 DEF Accept, StatusOn, TypeOK, Statuses
    <3>3. limit' \in [left : Int, right : Int] /\ cruise' \in [Registers -> Int]
      <4>1. Parse(m).v \in Int /\ Parse(m).w \in Int
        BY <2>1, <3>1 DEF RequestSet
      <4>2. \A x \in Int : ClampAngle(x) \in Int /\ ClampRate(x) \in Int
        BY MotorServoAssumption DEF ClampAngle, ClampRate
      <4>3. Rate(Parse(m)) \in Int
        BY <4>1, <4>2, MotorServoAssumption DEF Rate
      <4> QED
        BY <2>3, <4>1, <4>2, <4>3 DEF Accept, TypeOK
    <3>4. pc' \in {"inp", "run"} /\ (pc' = "run" => step' \in 1..Len(Program[req'.cmd]))
      <4>1. Program[Parse(m).cmd] \in Seq(Instructions)
        BY <2>1, <3>1, ProgramType DEF RequestSet
      <4>2. Program[Parse(m).cmd] # <<>> => Len(Program[Parse(m).cmd]) >= 1
        BY <4>1
      <4> QED BY <2>1, <2>3, <3>1, <4>2 DEF Accept
    <3>5. reply' \in Replies
      BY <2>1, <2>3, <3>1 DEF Accept, ReplyOn, Replies, TypeOK
    <3>6. /\ pc' \in PCs /\ req' \in RequestSet
          /\ step' \in 1..(Len(Program[req'.cmd]) + 1)
          /\ inbox' \in Seq(Messages) /\ peer' \in Clients
      <4>1. /\ req' \in RequestSet /\ step' = 1 /\ inbox' \in Seq(Messages)
            /\ peer' \in Clients /\ Len(Program[req'.cmd]) \in Nat
        BY <2>1, <3>1
      <4>2. step' \in 1..(Len(Program[req'.cmd]) + 1)
        BY <4>1
      <4>3. pc' \in PCs
        BY <3>4 DEF PCs
      <4> QED BY <4>1, <4>2, <4>3, Zenon
    <3>7. UNCHANGED <<stop, dest, mpc, drive, angle, sent, upsets, frozen, fails>>
      BY <3>1 DEF Received
    <3> QED
      BY <3>2, <3>3, <3>4, <3>5, <3>6, <3>7, Zenon DEF TypeOK
  <2>4. CASE NothingReceived
    BY <2>4 DEF NothingReceived, TypeOK, PCs, shared, env
  <2>5. ASSUME pc = "run", \/ WriteCoilInstr \/ SendInstr \/ PutRefInstr \/ AimInstr
                           \/ IfInpInstr \/ WaitInpInstr \/ ReportInstr \/ SetStopInstr
        PROVE  TypeOK'
    <3>1. /\ Instr \in Instructions
          /\ req' = req
          /\ pc' \in {"run", "inp"}
          /\ step' \in 1..(Len(Program[req.cmd]) + 1)
          /\ pc' = "run" => step' \in 1..Len(Program[req.cmd])
      BY <2>5, RunningInstruction
      DEF WriteCoilInstr, SendInstr, PutRefInstr, AimInstr, IfInpInstr, WaitInpInstr,
          ReportInstr, SetStopInstr, AfterWait, TypeOK
    <3>2. drive' \in DriveSet /\ fails' \in Nat
      <4>1. CASE WriteCoilInstr
        BY <4>1, <3>1, InstructionFields, WriteCoilType, LineType
        DEF WriteCoilInstr, Running, Instr, TypeOK
      <4>2. CASE SendInstr
        <5>1. Instr.reg \in Registers
          BY <4>2, <3>1, InstructionFields DEF SendInstr, Running, Instr
        <5>2. cruise[Instr.reg] \in Int /\ CheckRate \in Int
          BY <5>1, MotorServoAssumption DEF TypeOK
        <5> QED BY <4>2, <5>1, <5>2, DriveOperatorsType, LineType DEF SendInstr, TypeOK
      <4>3. CASE PutRefInstr
        BY <4>3, DriveOperatorsType, LineType DEF PutRefInstr, TypeOK
      <4>4. CASE AimInstr \/ SetStopInstr
        BY <4>4 DEF AimInstr, SetStopInstr, TypeOK
      <4>5. CASE IfInpInstr \/ WaitInpInstr \/ ReportInstr
        <5>1. drive' = drive /\ \E bit, on : Reads(bit, on)
          BY <4>5 DEF IfInpInstr, WaitInpInstr, ReportInstr
        <5> QED BY <5>1, LineType DEF TypeOK
      <4> QED BY <2>5, <4>1, <4>2, <4>3, <4>4, <4>5
    <3>3. dest' \in Int
      <4>1. ASSUME AimInstr PROVE dest' \in Int
        <5>1. Instr.at \in {"point", "zero", "left", "right"}
          BY <4>1, <3>1, InstructionFields DEF AimInstr, Running, Instr
        <5>2. req.v \in Int /\ limit.left \in Int /\ limit.right \in Int
          BY DEF TypeOK, RequestSet
        <5>3. \A a \in Int : ClampPoint(a, limit) \in Int
          BY <5>2 DEF ClampPoint
        <5> QED BY <4>1, <5>1, <5>2, <5>3 DEF AimInstr
      <4> QED
        BY <2>5, <4>1 DEF WriteCoilInstr, SendInstr, PutRefInstr, IfInpInstr, WaitInpInstr,
           ReportInstr, SetStopInstr, TypeOK, shared
    <3>4. stop' \in BOOLEAN /\ reply' \in Replies
      BY <2>5 DEF WriteCoilInstr, SendInstr, PutRefInstr, AimInstr, IfInpInstr, WaitInpInstr,
         ReportInstr, SetStopInstr, TypeOK, shared, Replies
    <3>5. /\ UNCHANGED <<peer, status, limit, cruise, mpc, angle, env>>
      BY <2>5 DEF WriteCoilInstr, SendInstr, PutRefInstr, AimInstr, IfInpInstr, WaitInpInstr,
         ReportInstr, SetStopInstr, shared
    <3> QED
      BY <3>1, <3>2, <3>3, <3>4, <3>5 DEF TypeOK, PCs, env
  <2>6. CASE PollInp \/ PollAlarm \/ PollWarning("data", "life", "DATA_ERROR")
             \/ PollWarning("life", "recv", "LIFE_WRNING")
    <3>1. \E bit, on : Reads(bit, on)
      BY <2>6 DEF PollInp, PollAlarm, PollWarning
    <3>2. status' \in Statuses /\ reply' \in Replies /\ pc' \in PCs \ {"run"}
      BY <2>6 DEF PollInp, PollAlarm, PollWarning, Poll, AfterInp, TypeOK, Statuses, Replies, PCs
    <3> QED
      BY <2>6, <3>1, <3>2, LineType DEF PollInp, PollAlarm, PollWarning, TypeOK, env
  <2>7. CASE CheckLeftLimit \/ CheckRightLimit \/ ClearLeftLimit \/ ClearRightLimit
    <3>1. /\ drive' \in DriveSet /\ fails' \in Nat
      BY <2>7, WriteCoilType, LineType
      DEF CheckLeftLimit, CheckRightLimit, ClearLeftLimit, ClearRightLimit, SetCont, TypeOK, Coils
    <3>2. pc' \in PCs \ {"run"}
      BY <2>7 DEF CheckLeftLimit, CheckRightLimit, ClearLeftLimit, ClearRightLimit, Poll, PCs
    <3> QED
      BY <2>7, <3>1, <3>2
      DEF CheckLeftLimit, CheckRightLimit, ClearLeftLimit, ClearRightLimit, TypeOK, shared, env
  <2>8. CASE MainThread
    <3>1. drive' \in DriveSet /\ fails' \in Nat
      BY <2>8, WriteCoilType, LineType
      DEF MainThread, MainSeesStop, MainServeOff, MainCloses, MainReturns, SetCont, TypeOK, Coils
    <3> QED
      BY <2>8, <3>1 DEF MainThread, MainSeesStop, MainServeOff, MainCloses, MainReturns, TypeOK,
         MainPCs, thread, shared, env
  <2>9. CASE DriveAdvances \/ DriveFaults \/ EncoderSamples \/ EncoderFreezes
    <3>1. drive' \in DriveSet
      BY <2>9, DriveOperatorsType
      DEF DriveAdvances, DriveFaults, EncoderSamples, EncoderFreezes, TypeOK
    <3>2. drive.pos \in Int /\ angle \in Int
      BY DEF TypeOK, DriveSet
    <3>3. angle' \in Int /\ frozen' \in BOOLEAN
      BY <2>9, <3>2 DEF DriveAdvances, DriveFaults, EncoderSamples, EncoderFreezes, TypeOK, env
    <3>4. sent' \in Nat /\ fails' \in Nat /\ upsets' \in Nat
      BY <2>9 DEF DriveAdvances, DriveFaults, EncoderSamples, EncoderFreezes, TypeOK, env
    <3> QED
      BY <2>9, <3>1, <3>3, <3>4 DEF DriveAdvances, DriveFaults, EncoderSamples, EncoderFreezes,
         TypeOK, thread, shared, env
  <2>10. ASSUME NEW c \in Clients, NEW m \in Requests, ClientSends(c, m) PROVE TypeOK'
    <3>1. [from |-> c, msg |-> m] \in Messages
      BY MotorServoAssumption
    <3>2. inbox' \in Seq(Messages)
      BY <2>10, <3>1 DEF ClientSends, TypeOK
    <3> QED
      BY <2>10, <3>2 DEF ClientSends, TypeOK, thread, shared
  <2>11. CASE Exited \/ UNCHANGED vars
    BY <2>11 DEF Exited, vars, thread, shared, env, TypeOK
  <2>12. CASE CommandThread
    <3>1. \/ WriteCoilInstr \/ SendInstr \/ PutRefInstr \/ AimInstr
          \/ IfInpInstr \/ WaitInpInstr \/ ReportInstr \/ SetStopInstr
          => pc = "run"
      BY DEF WriteCoilInstr, SendInstr, PutRefInstr, AimInstr, IfInpInstr, WaitInpInstr,
         ReportInstr, SetStopInstr, Running
    <3> QED BY <2>12, <3>1, <2>2, <2>3, <2>4, <2>5, <2>6, <2>7 DEF CommandThread
  <2> QED
    BY <2>8, <2>9, <2>10, <2>11, <2>12 DEF Next
<1> QED BY <1>1, <1>2, PTL DEF Spec

-----------------------------------------------------------------------------
(* FREE means standstill *)

\* A failed or completed transaction that would not set the drive in motion does not.
LEMMA QuietLine ==
    ASSUME NEW d, ~drive.busy, ~d.busy, WriteDone(d) \/ WriteFails(d)
    PROVE  ~drive'.busy
BY DEF WriteDone, WriteFails

\* START is an instruction of motions only.
LEMMA StartInMotionsOnly ==
    ASSUME TypeOK, pc = "run", Instr.op = "coil", Instr.coil = "START"
    PROVE  req.cmd \in MotionCmds
<1>1. req.cmd \in Cmds /\ step \in 1..Len(Program[req.cmd])
  BY DEF TypeOK, RequestSet
<1>2. CASE req.cmd \in QuietCmds
  <2>1. Instr \in QuietInstructions
    BY <1>1, <1>2, QuietPrograms DEF Instr
  <2> QED BY <2>1 DEF QuietInstructions, Coil, Send, Report
<1>3. CASE req.cmd = "GEMG"
  BY <1>1, <1>3, EmergencyProgram DEF Instr, Coil, SetStop
<1> QED BY <1>1, <1>2, <1>3 DEF QuietCmds

\* A motion is announced in the status before its first transaction and for as long
\* as its handler runs.
MotionAnnounced == pc = "run" /\ req.cmd \in MotionCmds => status # "FREE"

StandstillInv == FreeMeansStandstill /\ MotionAnnounced

\* FREE is never shown while a positioning is outstanding, whatever fails, in every
\* interleaving of the threads, the drive and the clients.
THEOREM FreeIsStandstill == Spec => []FreeMeansStandstill
<1>1. Init => StandstillInv
  BY DEF Init, StandstillInv, FreeMeansStandstill, MotionAnnounced
<1>2. TypeOK /\ TypeOK' /\ StandstillInv /\ [Next]_vars => StandstillInv'
  <2> SUFFICES ASSUME TypeOK, TypeOK', StandstillInv, [Next]_vars
               PROVE  StandstillInv'
    OBVIOUS
  <2> USE DEF StandstillInv, FreeMeansStandstill, MotionAnnounced, InPosition
  <2>1. ASSUME NEW m \in Requests, Refuse(m) PROVE StandstillInv'
    BY <2>1 DEF Refuse, Received
  <2>2. ASSUME NEW m \in Requests, Accept(m) PROVE StandstillInv'
    <3>1. drive' = drive /\ req' = Parse(m) /\ status' = StatusOn(Parse(m).cmd)
      BY <2>2 DEF Accept, Received
    <3>2. status' = "FREE" => status = "FREE" /\ Parse(m).cmd \notin MotionCmds
      BY <3>1 DEF StatusOn, MotionCmds
    <3> QED BY <3>1, <3>2
  <2>3. CASE NothingReceived
    BY <2>3 DEF NothingReceived, shared
  <2>4. ASSUME pc = "run", \/ WriteCoilInstr \/ SendInstr \/ PutRefInstr \/ AimInstr
                           \/ IfInpInstr \/ WaitInpInstr \/ ReportInstr \/ SetStopInstr
        PROVE  StandstillInv'
    <3>1. status' = status /\ req' = req
      BY <2>4 DEF WriteCoilInstr, SendInstr, PutRefInstr, AimInstr, IfInpInstr, WaitInpInstr,
         ReportInstr, SetStopInstr, shared
    <3>2. ASSUME status = "FREE" PROVE ~drive'.busy
      <4>1. ~drive.busy /\ drive \in DriveSet
        BY <3>2 DEF TypeOK
      <4>2. CASE WriteCoilInstr
        <5>1. Instr \in Instructions /\ Instr.op = "coil"
          BY <2>4, <4>2, RunningInstruction DEF WriteCoilInstr, Running, Instr
        <5>2. Instr.coil \in Coils /\ Instr.on \in BOOLEAN
          BY <5>1, InstructionFields
        <5>3. Instr.coil # "START"
          BY <2>4, <3>2, <5>1, StartInMotionsOnly
        <5>4. ~WriteCoil(drive, Instr.coil, Instr.on).busy
          BY <4>1, <5>2, <5>3, WriteCoilBusy
        <5> QED BY <4>1, <4>2, <5>4, QuietLine DEF WriteCoilInstr
      <4>3. CASE SendInstr
        <5>1. \A r, v : ~WriteRegister(drive, r, v).busy
          BY <4>1 DEF WriteRegister, DriveSet
        <5> QED BY <4>1, <4>3, <5>1, QuietLine DEF SendInstr
      <4>4. CASE PutRefInstr
        <5>1. ~WritePosition(drive, dest).busy
          BY <4>1 DEF WritePosition, DriveSet
        <5> QED BY <4>1, <4>4, <5>1, QuietLine DEF PutRefInstr
      <4>5. CASE AimInstr \/ IfInpInstr \/ WaitInpInstr \/ ReportInstr \/ SetStopInstr
        BY <4>1, <4>5 DEF AimInstr, IfInpInstr, WaitInpInstr, ReportInstr, SetStopInstr
      <4> QED BY <2>4, <4>2, <4>3, <4>4, <4>5
    <3> QED BY <2>4, <3>1, <3>2
  <2>5. CASE PollInp
    <3>1. drive' = drive /\ pc' # "run"
      BY <2>5 DEF PollInp, Poll
    <3>2. status' = "FREE" => status = "FREE" \/ InPosition(drive)
      BY <2>5 DEF PollInp, Reads
    <3> QED BY <3>1, <3>2
  <2>6. CASE PollAlarm \/ PollWarning("data", "life", "DATA_ERROR")
             \/ PollWarning("life", "recv", "LIFE_WRNING")
    <3>1. drive' = drive /\ pc' # "run"
      BY <2>6 DEF PollAlarm, PollWarning, Poll
    <3>2. status' = "FREE" => status = "FREE"
      BY <2>6 DEF PollAlarm, PollWarning
    <3> QED BY <3>1, <3>2
  <2>7. CASE CheckLeftLimit \/ CheckRightLimit \/ ClearLeftLimit \/ ClearRightLimit
    <3>1. pc' # "run" /\ status' = status
      BY <2>7 DEF CheckLeftLimit, CheckRightLimit, ClearLeftLimit, ClearRightLimit, Poll, shared
    <3>2. ASSUME ~drive.busy PROVE ~drive'.busy
      <4>1. \A c \in {"OT_PLUS", "OT_MINUS"}, on \in BOOLEAN : ~WriteCoil(drive, c, on).busy
        BY <3>2, WriteCoilBusy DEF TypeOK, Coils
      <4>2. \E c \in {"OT_PLUS", "OT_MINUS"}, on \in BOOLEAN : SetCont(c, on)
        BY <2>7 DEF CheckLeftLimit, CheckRightLimit, ClearLeftLimit, ClearRightLimit
      <4> QED BY <3>2, <4>1, <4>2, QuietLine DEF SetCont
    <3> QED BY <3>1, <3>2
  <2>8. CASE MainThread
    <3>1. UNCHANGED <<pc, req, status>>
      BY <2>8 DEF MainThread, MainSeesStop, MainServeOff, MainCloses, MainReturns, thread, shared
    <3>2. ASSUME ~drive.busy PROVE ~drive'.busy
      <4>1. CASE MainServeOff
        <5>1. ~WriteCoil(drive, "SERVO_ON", FALSE).busy
          BY <3>2, WriteCoilBusy DEF TypeOK, Coils
        <5> QED BY <3>2, <4>1, <5>1, QuietLine DEF MainServeOff, SetCont
      <4>2. CASE MainSeesStop \/ MainCloses \/ MainReturns
        BY <3>2, <4>2 DEF MainSeesStop, MainCloses, MainReturns
      <4> QED BY <2>8, <4>1, <4>2 DEF MainThread
    <3> QED BY <3>1, <3>2
  <2>9. CASE DriveAdvances \/ DriveFaults \/ EncoderSamples \/ EncoderFreezes
    <3>1. UNCHANGED <<pc, req, status>>
      BY <2>9 DEF DriveAdvances, DriveFaults, EncoderSamples, EncoderFreezes, thread, shared
    <3>2. ASSUME ~drive.busy PROVE ~drive'.busy
      <4>1. ~DriveAdvances
        BY <3>2 DEF DriveAdvances, CanAdvance
      <4>2. \A f : ~Faulted(drive, f).busy
        BY <3>2 DEF Faulted, TypeOK, DriveSet
      <4> QED BY <2>9, <3>2, <4>1, <4>2 DEF DriveFaults, EncoderSamples, EncoderFreezes
    <3> QED BY <3>1, <3>2
  <2>10. ASSUME NEW c \in Clients, NEW m \in Requests, ClientSends(c, m)
         PROVE  StandstillInv'
    BY <2>10 DEF ClientSends, thread, shared
  <2>11. CASE Exited \/ UNCHANGED vars
    BY <2>11 DEF Exited, vars, thread, shared
  <2>12. CASE CommandThread
    <3>1. \/ WriteCoilInstr \/ SendInstr \/ PutRefInstr \/ AimInstr
          \/ IfInpInstr \/ WaitInpInstr \/ ReportInstr \/ SetStopInstr
          => pc = "run"
      BY DEF WriteCoilInstr, SendInstr, PutRefInstr, AimInstr, IfInpInstr, WaitInpInstr,
         ReportInstr, SetStopInstr, Running
    <3> QED BY <2>12, <3>1, <2>1, <2>2, <2>3, <2>4, <2>5, <2>6, <2>7 DEF CommandThread
  <2> QED
    BY <2>8, <2>9, <2>10, <2>11, <2>12 DEF Next
<1>3. StandstillInv => FreeMeansStandstill
  BY DEF StandstillInv
<1> QED BY <1>1, <1>2, <1>3, TypeCorrect, PTL DEF Spec

-----------------------------------------------------------------------------
(* The servo is released before the process exits *)

\* The servo coil and g_stop are instructions of the emergency stop only, in its
\* third and fourth place.
LEMMA ReleaseInEmergencyOnly ==
    ASSUME TypeOK, pc = "run"
    PROVE  /\ Instr.op = "coil" /\ Instr.coil = "SERVO_ON" =>
                  req.cmd = "GEMG" /\ step = 3 /\ ~Instr.on
           /\ Instr.op = "set_stop" => req.cmd = "GEMG" /\ step = 4
<1>1. req.cmd \in Cmds /\ step \in 1..Len(Program[req.cmd])
  BY DEF TypeOK, RequestSet
<1>2. CASE req.cmd \in QuietCmds
  <2>1. Instr \in QuietInstructions
    BY <1>1, <1>2, QuietPrograms DEF Instr
  <2> QED BY <2>1 DEF QuietInstructions, Coil, Send, Report
<1>3. CASE req.cmd \in MotionCmds
  <2>1. Instr \in MotionInstructions
    BY <1>1, <1>3, MotionPrograms DEF Instr
  <2> QED
    BY <2>1 DEF MotionInstructions, QuietInstructions, Coil, Send, Report, Aim, IfInp, WaitInp, PutRef
<1>4. CASE req.cmd = "GEMG"
  <2>1. step \in 1..4
    BY <1>1, <1>4, EmergencyProgram
  <2> QED BY <1>4, <2>1, EmergencyProgram DEF Instr, Coil, SetStop
<1> QED BY <1>1, <1>2, <1>3, <1>4 DEF QuietCmds

On == drive.coil["SERVO_ON"]

\* What each of the two releases leaves behind if it fails: the one in run_cmd before
\* g_stop is set, the one in main before the line is closed.
ReleaseInv ==
    /\ mpc # "loop" => stop
    /\ pc = "run" /\ req.cmd = "GEMG" /\ step = 4 /\ On => fails >= 1
    /\ stop /\ On => fails >= 1
    /\ mpc \notin {"loop", "serve_off"} /\ On => fails >= 2

\* Steps that neither touch the servo, the stop flag, the line nor the handler.
LEMMA ReleaseUntouched ==
    ASSUME TypeOK, TypeOK', ReleaseInv, On' => On, fails' >= fails,
           UNCHANGED <<stop, mpc>>,
           pc' = "run" /\ req'.cmd = "GEMG" /\ step' = 4
             => \/ UNCHANGED <<pc, req, step>>
                \/ On' => fails' >= 1
    PROVE  ReleaseInv'
<1>1. fails \in Nat /\ fails' \in Nat
  BY DEF TypeOK
<1>2. LineOpen' <=> LineOpen
  BY DEF LineOpen
<1>3. /\ mpc' # "loop" => stop'
      /\ stop' /\ On' => fails' >= 1
      /\ mpc' \notin {"loop", "serve_off"} /\ On' => fails' >= 2
  BY <1>1, <1>2 DEF ReleaseInv
<1>4. pc' = "run" /\ req'.cmd = "GEMG" /\ step' = 4 /\ On' => fails' >= 1
  BY <1>1 DEF ReleaseInv
<1> QED BY <1>3, <1>4 DEF ReleaseInv

\* The two releases are followed through the life of the process (stop, and main after its loop).
LEMMA ReleaseTracked == Spec => []ReleaseInv
<1>1. Init => ReleaseInv
  BY DEF Init, ReleaseInv, LineOpen
<1>2. TypeOK /\ TypeOK' /\ ReleaseInv /\ [Next]_vars => ReleaseInv'
  <2> SUFFICES ASSUME TypeOK, TypeOK', ReleaseInv, [Next]_vars
               PROVE  ReleaseInv'
    OBVIOUS
  <2>0. fails \in Nat /\ fails' \in Nat /\ drive \in DriveSet
    BY DEF TypeOK
  <2>a. /\ LineFails => fails' >= fails
        /\ \A d : WriteDone(d) \/ WriteFails(d) => fails' >= fails
        /\ \A bit, on : Reads(bit, on) => fails' >= fails
    BY <2>0 DEF LineFails, WriteDone, WriteFails, Reads
  <2>b. ASSUME NEW c \in Coils \ {"SERVO_ON"}, NEW on \in BOOLEAN,
               WriteDone(WriteCoil(drive, c, on)) \/ WriteFails(WriteCoil(drive, c, on)), On'
        PROVE  On
    <3> DEFINE d == WriteCoil(drive, c, on)
    <3>1. d.coil["SERVO_ON"] = drive.coil["SERVO_ON"]
      BY <2>0, WriteCoilServo
    <3>2. WriteDone(d) \/ WriteFails(d)
      BY <2>b
    <3> HIDE DEF d
    <3> QED BY <2>b, <3>1, <3>2 DEF WriteDone, WriteFails, On
  <2>1. ASSUME NEW m \in Requests, Refuse(m) PROVE ReleaseInv'
    BY <2>0, <2>1, ReleaseUntouched DEF Refuse, Received, On
  <2>2. ASSUME NEW m \in Requests, Accept(m) PROVE ReleaseInv'
    <3>1. step' = 1 /\ UNCHANGED <<stop, mpc, drive, fails>>
      BY <2>2 DEF Accept, Received
    <3> QED BY <2>0, <3>1, ReleaseUntouched DEF On
  <2>3. CASE NothingReceived
    BY <2>0, <2>3, ReleaseUntouched DEF NothingReceived, shared, On
  <2>4. CASE pc = "run" /\ WriteCoilInstr
    <3>1. /\ Instr \in Instructions /\ Instr.op = "coil"
          /\ UNCHANGED <<req, stop, mpc>>
      BY <2>4, RunningInstruction DEF WriteCoilInstr, Running, Instr, shared
    <3>2. Instr.coil \in Coils /\ Instr.on \in BOOLEAN
      BY <3>1, InstructionFields
    <3> DEFINE d == WriteCoil(drive, Instr.coil, Instr.on)
    <3>3. WriteDone(d) \/ WriteFails(d)
      BY <2>4 DEF WriteCoilInstr
    <3>4. CASE Instr.coil # "SERVO_ON"
      <4>1. On' => On
        BY <2>b, <3>2, <3>3, <3>4
      <4>2. ~(pc' = "run" /\ req'.cmd = "GEMG" /\ step' = 4)
        <5>1. req.cmd = "GEMG" => step \in {1, 2}
          <6>1. req.cmd = "GEMG" => step \in 1..4
            BY <2>4, EmergencyProgram DEF TypeOK
          <6>2. req.cmd = "GEMG" => step # 3 /\ step # 4
            BY <3>1, <3>4, EmergencyProgram DEF Instr, Coil, SetStop
          <6> QED BY <6>1, <6>2
        <5>2. Continue \/ Abort
          BY <2>4 DEF WriteCoilInstr
        <5> QED BY <3>1, <5>1, <5>2, EmergencyProgram DEF Continue, Abort, Resume
      <4>3. fails' >= fails
        BY <2>a, <3>3
      <4> QED BY <3>1, <4>1, <4>2, <4>3, ReleaseUntouched
    <3>5. CASE Instr.coil = "SERVO_ON"
      <4>1. ~Instr.on
        BY <2>4, <3>1, <3>5, ReleaseInEmergencyOnly
      <4>2. ~d.coil["SERVO_ON"]
        BY <2>0, <3>2, <3>5, <4>1, WriteCoilServo
      <4>3. CASE WriteDone(d)
        <5>1. ~On'
          BY <4>2, <4>3 DEF WriteDone, On
        <5> QED BY <3>1, <5>1 DEF ReleaseInv
      <4>4. CASE WriteFails(d)
        <5>1. On' => On
          <6> HIDE DEF d
          <6> QED BY <4>2, <4>4 DEF WriteFails, On
        <5>2. LineOpen => fails' = fails + 1
          BY <4>4 DEF WriteFails, LineFails
        <5>3. fails' >= fails
          BY <2>a, <4>4
        <5> QED
          BY <2>0, <3>1, <5>1, <5>2, <5>3 DEF ReleaseInv, LineOpen
      <4> QED BY <3>3, <4>3, <4>4
    <3> QED BY <3>4, <3>5
  <2>5. CASE pc = "run" /\ (SendInstr \/ PutRefInstr)
    <3>1. /\ Instr.op \in {"send", "ref"} /\ Instr \in Instructions
          /\ UNCHANGED <<req, stop, mpc>>
      BY <2>5, RunningInstruction DEF SendInstr, PutRefInstr, Running, Instr, shared
    <3>2. req.cmd # "GEMG"
      <4>1. req.cmd = "GEMG" => step \in 1..4
        BY <2>5, EmergencyProgram DEF TypeOK
      <4> QED BY <3>1, <4>1, EmergencyProgram DEF Instr, Coil, SetStop
    <3>3. \E e : /\ e.coil = drive.coil
                 /\ WriteDone(e) \/ WriteFails(e)
      <4>1. \A r, v : WriteRegister(drive, r, v).coil = drive.coil
        BY <2>0 DEF WriteRegister, DriveSet
      <4>2. WritePosition(drive, dest).coil = drive.coil
        BY <2>0 DEF WritePosition, DriveSet
      <4> QED BY <2>5, <4>1, <4>2 DEF SendInstr, PutRefInstr
    <3>4. (On' => On) /\ fails' >= fails
      BY <2>a, <3>3 DEF WriteDone, WriteFails, On
    <3> QED BY <3>1, <3>2, <3>4, ReleaseUntouched
  <2>6. CASE pc = "run" /\ (AimInstr \/ IfInpInstr \/ WaitInpInstr \/ ReportInstr)
    <3>1. /\ Instr.op \in {"aim", "if_inp", "wait_inp", "report"}
          /\ UNCHANGED <<req, stop, mpc, drive>>
      BY <2>6 DEF AimInstr, IfInpInstr, WaitInpInstr, ReportInstr, Running, Instr, shared
    <3>2. req.cmd # "GEMG"
      <4>1. req.cmd = "GEMG" => step \in 1..4
        BY <2>6, EmergencyProgram DEF TypeOK
      <4> QED BY <3>1, <4>1, EmergencyProgram DEF Instr, Coil, SetStop
    <3>3. fails' >= fails
      <4>1. fails' = fails \/ \E bit, on : Reads(bit, on)
        BY <2>6 DEF AimInstr, IfInpInstr, WaitInpInstr, ReportInstr
      <4> QED BY <2>0, <2>a, <4>1
    <3> QED BY <3>1, <3>2, <3>3, ReleaseUntouched DEF On
  <2>7. CASE pc = "run" /\ SetStopInstr
    <3>1. /\ Instr.op = "set_stop" /\ stop' /\ pc' = "inp"
          /\ UNCHANGED <<mpc, drive, fails>>
      <4>1. Instr.op = "set_stop" /\ stop' /\ UNCHANGED <<mpc, drive, fails>> /\ Continue
        BY <2>7 DEF SetStopInstr, Running, Instr
      <4>2. req.cmd = "GEMG" /\ step = 4
        BY <2>7, <4>1, ReleaseInEmergencyOnly
      <4> QED BY <4>1, <4>2, EmergencyProgram DEF Continue
    <3>2. req.cmd = "GEMG" /\ step = 4
      BY <2>7, <3>1, ReleaseInEmergencyOnly
    <3> QED BY <2>7, <3>1, <3>2 DEF ReleaseInv, On, LineOpen
  <2>8. CASE PollInp \/ PollAlarm \/ PollWarning("data", "life", "DATA_ERROR")
             \/ PollWarning("life", "recv", "LIFE_WRNING")
    <3>1. UNCHANGED <<stop, mpc, drive>> /\ pc' # "run"
      BY <2>8 DEF PollInp, PollAlarm, PollWarning, Poll
    <3>2. fails' >= fails
      BY <2>a, <2>8 DEF PollInp, PollAlarm, PollWarning
    <3> QED BY <3>1, <3>2, ReleaseUntouched DEF On
  <2>9. CASE CheckLeftLimit \/ CheckRightLimit \/ ClearLeftLimit \/ ClearRightLimit
    <3>1. UNCHANGED <<stop, mpc>> /\ pc' # "run"
      BY <2>9 DEF CheckLeftLimit, CheckRightLimit, ClearLeftLimit, ClearRightLimit, Poll, shared
    <3>2. \E c \in {"OT_PLUS", "OT_MINUS"}, on \in BOOLEAN : SetCont(c, on)
      BY <2>9 DEF CheckLeftLimit, CheckRightLimit, ClearLeftLimit, ClearRightLimit
    <3>3. {"OT_PLUS", "OT_MINUS"} \subseteq Coils \ {"SERVO_ON"}
      BY DEF Coils
    <3>4. (On' => On) /\ fails' >= fails
      BY <2>a, <2>b, <3>2, <3>3 DEF SetCont
    <3> QED BY <3>1, <3>4, ReleaseUntouched
  <2>10. CASE MainSeesStop \/ MainCloses \/ MainReturns
    BY <2>10 DEF MainSeesStop, MainCloses, MainReturns, thread, shared, ReleaseInv, LineOpen, On
  <2>11. CASE MainServeOff
    <3> DEFINE d == WriteCoil(drive, "SERVO_ON", FALSE)
    <3>1. ~d.coil["SERVO_ON"]
      BY <2>0, WriteCoilServo DEF Coils
    <3>2. /\ mpc = "serve_off" /\ stop /\ LineOpen
          /\ UNCHANGED <<pc, req, step, stop>>
      BY <2>11 DEF MainServeOff, thread, shared, ReleaseInv, LineOpen
    <3>3. CASE WriteDone(d)
      <4>1. ~On'
        BY <3>1, <3>3 DEF WriteDone, On
      <4> QED BY <3>2, <4>1 DEF ReleaseInv
    <3>4. CASE WriteFails(d)
      <4>1. (On' => On) /\ fails' = fails + 1
        <5> HIDE DEF d
        <5> QED BY <3>1, <3>2, <3>4 DEF WriteFails, LineFails, On
      <4> QED BY <2>0, <3>2, <4>1 DEF ReleaseInv
    <3> QED BY <2>11, <3>3, <3>4 DEF MainServeOff, SetCont
  <2>12. CASE DriveAdvances \/ DriveFaults \/ EncoderSamples \/ EncoderFreezes
    <3>1. UNCHANGED <<pc, req, step, stop, mpc, fails>>
      BY <2>12 DEF DriveAdvances, DriveFaults, EncoderSamples, EncoderFreezes, thread, shared
    <3>2. drive'.coil = drive.coil
      <4>1. Advanced(drive).coil = drive.coil
        BY <2>0 DEF Advanced, DriveSet
      <4>2. \A f : Faulted(drive, f).coil = drive.coil
        BY <2>0 DEF Faulted, DriveSet
      <4> QED
        BY <2>12, <4>1, <4>2 DEF DriveAdvances, DriveFaults, EncoderSamples, EncoderFreezes
    <3> QED BY <2>0, <3>1, <3>2, ReleaseUntouched DEF On
  <2>13. ASSUME NEW c \in Clients, NEW m \in Requests, ClientSends(c, m)
         PROVE  ReleaseInv'
    BY <2>0, <2>13, ReleaseUntouched DEF ClientSends, thread, shared, On
  <2>14. CASE Exited \/ UNCHANGED vars
    BY <2>0, <2>14, ReleaseUntouched DEF Exited, vars, thread, shared, On
  <2>15. CASE CommandThread
    <3>1. \/ WriteCoilInstr \/ SendInstr \/ PutRefInstr \/ AimInstr
          \/ IfInpInstr \/ WaitInpInstr \/ ReportInstr \/ SetStopInstr
          => pc = "run"
      BY DEF WriteCoilInstr, SendInstr, PutRefInstr, AimInstr, IfInpInstr, WaitInpInstr,
         ReportInstr, SetStopInstr, Running
    <3> QED
      BY <2>15, <3>1, <2>1, <2>2, <2>3, <2>4, <2>5, <2>6, <2>7, <2>8, <2>9 DEF CommandThread
  <2> QED
    BY <2>10, <2>11, <2>12, <2>13, <2>14, <2>15 DEF Next, MainThread
<1> QED BY <1>1, <1>2, TypeCorrect, PTL DEF Spec

\* The process never exits with the servo on unless both releases failed.
THEOREM ServoReleased == Spec => []ServoReleasedOnExit
<1>1. TypeOK /\ ReleaseInv => ServoReleasedOnExit
  BY DEF ReleaseInv, ServoReleasedOnExit, Alive, LineOpen, On
<1> QED BY <1>1, TypeCorrect, ReleaseTracked, PTL

-----------------------------------------------------------------------------
(* The order of a handler's instructions *)

IsStart(i) == i.op = "coil" /\ i.coil = "START" /\ i.on

\* The instructions of a motion that find the axis at rest: up to START, and again
\* once INP was polled.
BeforeStart(i) ==
    \/ i.op \in {"aim", "if_inp", "ref"}
    \/ i.op = "coil" /\ i.coil = "PST_CANCEL"
    \/ i.op = "send" /\ i.from = "check"
    \/ IsStart(i)

\* What may come after what in a handler: a motion goes from its aim over the check of
\* INP and the target to START and waits for INP before it aims again, and a coil that
\* is set is reset next.
Follows(i, j) ==
    /\ BeforeStart(j) => i.op = "wait_inp" \/ (BeforeStart(i) /\ ~IsStart(i))
    /\ IsStart(j) => i.op = "ref"
    /\ j.op = "ref" => i.op = "if_inp"
    /\ j.op = "if_inp" => i.op = "aim"
    /\ i.op = "coil" /\ i.on => j = Coil(i.coil, FALSE)

\* A sequence of instructions in such an order, from the first to the last.
Ordered(s, first, last) ==
    /\ s \in Seq(Instructions) /\ s # <<>>
    /\ s[1] = first /\ s[Len(s)] = last
    /\ \A k \in 1..(Len(s) - 1) : Follows(s[k], s[k + 1])

\* Two such sequences one after the other.
LEMMA OrderedConcat ==
    ASSUME NEW s, NEW t, NEW a, NEW b, NEW c, NEW d,
           Ordered(s, a, b), Ordered(t, c, d), Follows(b, c)
    PROVE  Ordered(s \o t, a, d)
<1>1. /\ s \in Seq(Instructions) /\ s # <<>> /\ s[1] = a /\ s[Len(s)] = b
      /\ t \in Seq(Instructions) /\ t # <<>> /\ t[1] = c /\ t[Len(t)] = d
  BY DEF Ordered
<1> DEFINE u == s \o t
<1>2. Len(s) \in Nat \ {0} /\ Len(t) \in Nat \ {0}
  BY <1>1
<1>3. /\ u \in Seq(Instructions) /\ Len(u) = Len(s) + Len(t)
      /\ \A k \in 1..Len(s) : u[k] = s[k]
      /\ \A k \in 1..Len(t) : u[Len(s) + k] = t[k]
  BY <1>1, ConcatProperties
<1> HIDE DEF u
<1>4. u # <<>> /\ u[1] = a /\ u[Len(u)] = d
  <2>1. 1 \in 1..Len(s) /\ Len(t) \in 1..Len(t) /\ Len(u) # 0
    BY <1>2, <1>3
  <2>2. u[1] = s[1] /\ u[Len(u)] = t[Len(t)]
    BY <1>3, <2>1
  <2> QED BY <1>1, <2>1, <2>2
<1>5. ASSUME NEW k \in 1..(Len(u) - 1)
      PROVE  Follows(u[k], u[k + 1])
  <2>1. CASE k < Len(s)
    <3>1. k \in 1..(Len(s) - 1) /\ u[k] = s[k] /\ u[k + 1] = s[k + 1]
      BY <1>2, <1>3, <2>1
    <3> QED BY <3>1 DEF Ordered
  <2>2. CASE k = Len(s)
    <3>1. u[k] = b /\ u[k + 1] = c
      BY <1>1, <1>2, <1>3, <2>2
    <3> QED BY <3>1
  <2>3. CASE k > Len(s)
    <3> DEFINE n == k - Len(s)
    <3>1. /\ n \in 1..(Len(t) - 1) /\ n \in 1..Len(t) /\ n + 1 \in 1..Len(t)
          /\ k = Len(s) + n /\ k + 1 = Len(s) + (n + 1)
      <4> DEFINE p == Len(s)
                 q == Len(t)
      <4>1. p \in Nat /\ q \in Nat /\ k \in Int /\ p < k /\ k <= p + q - 1
        BY <1>2, <1>3, <2>3
      <4> HIDE DEF p, q
      <4>2. /\ k - p \in 1..(q - 1) /\ k - p \in 1..q /\ k - p + 1 \in 1..q
            /\ k = p + (k - p) /\ k + 1 = p + (k - p + 1)
        BY <4>1
      <4> QED BY <4>2 DEF p, q
    <3> HIDE DEF n
    <3>2. u[k] = t[n] /\ u[k + 1] = t[n + 1]
      <4>1. u[Len(s) + n] = t[n] /\ u[Len(s) + (n + 1)] = t[n + 1]
        BY <1>3, <3>1
      <4> QED BY <3>1, <4>1
    <3> QED BY <3>1, <3>2 DEF Ordered
  <2> QED BY <1>2, <2>1, <2>2, <2>3
<1> QED BY <1>3, <1>4, <1>5 DEF Ordered, u

\* The building blocks of the handlers.
LEMMA OrderedBlocks ==
    /\ Ordered(task_cancel, Coil("PST_CANCEL", TRUE), Coil("PST_CANCEL", FALSE))
    /\ Ordered(run_to_angle, IfInp, Coil("START", FALSE))
    /\ Ordered(send_profile("check"), Send("SPEED", "check"), Send("DEC_TIM", "check"))
    /\ Ordered(send_profile("cruise"), Send("SPEED", "cruise"), Send("DEC_TIM", "cruise"))
    /\ \A i \in Instructions : Ordered(<<i>>, i, i)
    /\ \A i, j \in Instructions : Follows(i, j) => Ordered(<<i, j>>, i, j)
<1> DEFINE I == Instructions
<1>1. {"PST_CANCEL", "START"} \subseteq Coils
  BY DEF Coils
<1>2. /\ \A c \in Coils, on \in BOOLEAN : Coil(c, on) \in I
      /\ \A r \in Registers, f \in {"cruise", "check"} : Send(r, f) \in I
      /\ IfInp \in I /\ PutRef \in I
  BY DEF Instructions
<1>3. /\ Coil("PST_CANCEL", TRUE) \in I /\ Coil("PST_CANCEL", FALSE) \in I
      /\ Coil("START", TRUE) \in I /\ Coil("START", FALSE) \in I
  BY <1>1, <1>2, Zenon
<1>4. /\ Follows(Coil("PST_CANCEL", TRUE), Coil("PST_CANCEL", FALSE))
      /\ Follows(IfInp, PutRef)
      /\ Follows(PutRef, Coil("START", TRUE))
      /\ Follows(Coil("START", TRUE), Coil("START", FALSE))
  BY DEF Follows, BeforeStart, IsStart, Coil, IfInp, PutRef
<1>5. \A q, r \in Registers, f \in {"cruise", "check"} : Follows(Send(q, f), Send(r, f))
  BY DEF Follows, BeforeStart, IsStart, Send
<1> HIDE DEF I
<1>6. /\ \A a \in I : Ordered(<<a>>, a, a)
      /\ \A a, b \in I : Follows(a, b) => Ordered(<<a, b>>, a, b)
      /\ \A a, b, c \in I :
            Follows(a, b) /\ Follows(b, c) => Ordered(<<a, b, c>>, a, c)
      /\ \A a, b, c, d \in I :
            Follows(a, b) /\ Follows(b, c) /\ Follows(c, d) => Ordered(<<a, b, c, d>>, a, d)
  <2>1. \A a \in I : Ordered(<<a>>, a, a)
    BY DEF Ordered, I
  <2>2. \A a, b \in I : Follows(a, b) => Ordered(<<a, b>>, a, b)
    BY DEF Ordered, I
  <2>3. ASSUME NEW a \in I, NEW b \in I, NEW c \in I, Follows(a, b), Follows(b, c)
        PROVE  Ordered(<<a, b, c>>, a, c)
    <3>1. \A k \in 1..2 : k = 1 \/ k = 2
      OBVIOUS
    <3> QED BY <2>3, <3>1 DEF Ordered, I
  <2>4. ASSUME NEW a \in I, NEW b \in I, NEW c \in I, NEW d \in I,
               Follows(a, b), Follows(b, c), Follows(c, d)
        PROVE  Ordered(<<a, b, c, d>>, a, d)
    <3>1. \A k \in 1..3 : k = 1 \/ k = 2 \/ k = 3
      OBVIOUS
    <3> QED BY <2>4, <3>1 DEF Ordered, I
  <2> QED BY <2>1, <2>2, <2>3, <2>4
<1>7. Ordered(task_cancel, Coil("PST_CANCEL", TRUE), Coil("PST_CANCEL", FALSE))
  BY <1>3, <1>4, <1>6, Zenon DEF task_cancel
<1>8. Ordered(run_to_angle, IfInp, Coil("START", FALSE))
  BY <1>2, <1>3, <1>4, <1>6, Zenon DEF run_to_angle
<1>9. \A f \in {"cruise", "check"} :
         Ordered(send_profile(f), Send("SPEED", f), Send("DEC_TIM", f))
  <2>1. {"SPEED", "ACC_TIM", "DEC_TIM"} \subseteq Registers
    BY DEF Registers
  <2> QED BY <1>2, <1>5, <1>6, <2>1, Zenon DEF send_profile
<1> QED BY <1>6, <1>7, <1>8, <1>9 DEF I

\* A motion to a point, to the left or to the right.
LEMMA OrderedRun ==
    ASSUME NEW at \in {"point", "zero", "left", "right"}
    PROVE  Ordered(<<Aim(at)>> \o run_to_angle, Aim(at), Coil("START", FALSE))
<1>1. Aim(at) \in Instructions
  BY DEF Instructions
<1>2. Follows(Aim(at), IfInp)
  BY DEF Follows, BeforeStart, IsStart, Aim, IfInp
<1> QED BY <1>1, <1>2, OrderedBlocks, OrderedConcat

\* The legs of the self check.
check_legs ==
    task_cancel \o send_profile("check")
      \o <<Aim("zero")>>  \o run_to_angle \o <<WaitInp>>
      \o <<Aim("left")>>  \o run_to_angle \o <<WaitInp>>
      \o <<Aim("right")>> \o run_to_angle \o <<WaitInp>>
      \o <<Aim("zero")>>  \o run_to_angle

\* In the self check the cancel comes before every START, and the profile is sent last (check_motion).
LEMMA OrderedCheck ==
    /\ check_motion = check_legs \o send_profile("cruise")
    /\ Ordered(check_legs, Coil("PST_CANCEL", TRUE), Coil("START", FALSE))
    /\ Ordered(check_motion, Coil("PST_CANCEL", TRUE), Send("DEC_TIM", "cruise"))
<1> DEFINE C == Coil("PST_CANCEL", TRUE)
           S == Coil("START", FALSE)
           W == WaitInp
           P == send_profile("check")
           R == run_to_angle
<1>1. \A at \in {"point", "zero", "left", "right"} :
         /\ Follows(Send("DEC_TIM", "check"), Aim(at))
         /\ Follows(Aim(at), IfInp)
         /\ Follows(W, Aim(at))
  BY DEF Follows, BeforeStart, IsStart, Send, Aim, WaitInp, IfInp
<1>2. /\ Follows(Coil("PST_CANCEL", FALSE), Send("SPEED", "check"))
      /\ Follows(S, W)
      /\ Follows(S, Send("SPEED", "cruise"))
  BY DEF Follows, BeforeStart, IsStart, Coil, Send, WaitInp
<1>3. /\ \A at \in {"zero", "left", "right"} : Ordered(<<Aim(at)>>, Aim(at), Aim(at))
      /\ Ordered(<<W>>, W, W)
  <2>1. /\ \A at \in {"zero", "left", "right"} : Aim(at) \in Instructions
        /\ W \in Instructions
    BY DEF Instructions
  <2> QED BY <2>1, OrderedBlocks
<1>4. /\ Ordered(task_cancel, C, Coil("PST_CANCEL", FALSE))
      /\ Ordered(P, Send("SPEED", "check"), Send("DEC_TIM", "check"))
      /\ Ordered(R, IfInp, S)
      /\ Ordered(send_profile("cruise"), Send("SPEED", "cruise"), Send("DEC_TIM", "cruise"))
  BY OrderedBlocks
<1> HIDE DEF C, S, W, P, R
\* One leg, appended to what the check has done so far.
<1>5. ASSUME NEW s, NEW last, NEW at \in {"zero", "left", "right"},
             Ordered(s, C, last), Follows(last, Aim(at))
      PROVE  Ordered(s \o <<Aim(at)>> \o R, C, S)
  <2>1. Ordered(s \o <<Aim(at)>>, C, Aim(at))
    BY <1>3, <1>5, OrderedConcat
  <2> QED BY <1>1, <1>4, <2>1, OrderedConcat
<1>6. ASSUME NEW s, Ordered(s, C, S)
      PROVE  Ordered(s \o <<W>>, C, W)
  BY <1>2, <1>3, <1>6, OrderedConcat
<1>7. Ordered(task_cancel \o P, C, Send("DEC_TIM", "check"))
  BY <1>2, <1>4, OrderedConcat
<1>8. Ordered(task_cancel \o P \o <<Aim("zero")>> \o R \o <<W>>, C, W)
  BY <1>1, <1>5, <1>6, <1>7
<1>9. Ordered(task_cancel \o P \o <<Aim("zero")>> \o R \o <<W>>
                \o <<Aim("left")>> \o R \o <<W>>, C, W)
  BY <1>1, <1>5, <1>6, <1>8
<1>10. Ordered(task_cancel \o P \o <<Aim("zero")>> \o R \o <<W>>
                \o <<Aim("left")>> \o R \o <<W>> \o <<Aim("right")>> \o R \o <<W>>, C, W)
  BY <1>1, <1>5, <1>6, <1>9
<1>11. Ordered(check_legs, C, S)
  BY <1>1, <1>5, <1>10 DEF check_legs, P, R, W
<1>12. check_motion = check_legs \o send_profile("cruise")
  BY DEF check_motion, check_legs
<1>13. Ordered(check_motion, C, Send("DEC_TIM", "cruise"))
  BY <1>2, <1>4, <1>11, <1>12, OrderedConcat
<1> QED BY <1>11, <1>12, <1>13 DEF C, S

\* Every handler is in such an order, begins neither with the check of INP, nor with a
\* target or START, and sets no coil last.
LEMMA ProgramOrder ==
    ASSUME NEW c \in Cmds, Program[c] # <<>>
    PROVE  \E first, last :
              /\ Ordered(Program[c], first, last)
              /\ first.op \notin {"if_inp", "ref"} /\ ~IsStart(first)
              /\ ~(last.op = "coil" /\ last.on)
<1> USE DEF IsStart
<1>1. CASE c \in {"GPOINT", "GLEFT", "GRIGHT"}
  <2>1. PICK at \in {"point", "left", "right"} : Program[c] = <<Aim(at)>> \o run_to_angle
    <3>1. /\ Program["GPOINT"] = <<Aim("point")>> \o run_to_angle
          /\ Program["GLEFT"] = <<Aim("left")>> \o run_to_angle
          /\ Program["GRIGHT"] = <<Aim("right")>> \o run_to_angle
      BY DEF Program
    <3> QED BY <1>1, <3>1, Zenon
  <2>2. Aim(at).op = "aim" /\ ~Coil("START", FALSE).on
    BY DEF Aim, Coil
  <2>3. Ordered(Program[c], Aim(at), Coil("START", FALSE))
    BY <2>1, OrderedRun
  <2> QED BY <2>2, <2>3
<1>2. CASE c = "GCHECK"
  <2>1. Program[c] = check_motion
    BY <1>2 DEF Program
  <2>2. /\ Coil("PST_CANCEL", TRUE).op = "coil" /\ Coil("PST_CANCEL", TRUE).coil # "START"
        /\ Send("DEC_TIM", "cruise").op # "coil"
    BY DEF Coil, Send
  <2>3. Ordered(Program[c], Coil("PST_CANCEL", TRUE), Send("DEC_TIM", "cruise"))
    BY <2>1, OrderedCheck
  <2> QED BY <2>2, <2>3
<1>3. CASE c = "GPST_CANCEL"
  <2>1. Program[c] = task_cancel
    BY <1>3 DEF Program
  <2>2. /\ Coil("PST_CANCEL", TRUE).op = "coil" /\ Coil("PST_CANCEL", TRUE).coil # "START"
        /\ ~Coil("PST_CANCEL", FALSE).on
    BY DEF Coil
  <2> QED BY <2>1, <2>2, OrderedBlocks
<1>4. CASE c \in {"GSPEED", "GACCE_TIME", "GDECE_TIME"}
  <2>1. PICK r \in Registers : Program[c] = task_cancel \o <<Send(r, "cruise")>>
    <3>1. /\ Program["GSPEED"] = task_cancel \o <<Send("SPEED", "cruise")>>
          /\ Program["GACCE_TIME"] = task_cancel \o <<Send("ACC_TIM", "cruise")>>
          /\ Program["GDECE_TIME"] = task_cancel \o <<Send("DEC_TIM", "cruise")>>
      BY DEF Program
    <3>2. {"SPEED", "ACC_TIM", "DEC_TIM"} \subseteq Registers
      BY DEF Registers
    <3> QED BY <1>4, <3>1, <3>2, Zenon
  <2>2. Send(r, "cruise") \in Instructions
    BY DEF Instructions
  <2>3. Follows(Coil("PST_CANCEL", FALSE), Send(r, "cruise"))
    BY DEF Follows, BeforeStart, Coil, Send
  <2>4. Ordered(Program[c], Coil("PST_CANCEL", TRUE), Send(r, "cruise"))
    BY <2>1, <2>2, <2>3, OrderedBlocks, OrderedConcat
  <2>5. /\ Coil("PST_CANCEL", TRUE).op = "coil" /\ Coil("PST_CANCEL", TRUE).coil # "START"
        /\ Send(r, "cruise").op # "coil"
    BY DEF Coil, Send
  <2> QED BY <2>4, <2>5
<1>5. CASE c = "GEMG"
  <2> DEFINE P == Program[c]
  <2>1. P \in Seq(Instructions) /\ Len(P) = 4 /\ P # <<>>
    BY <1>5, EmergencyProgram, ProgramType
  <2>2. /\ P[1] = Coil("EMG", TRUE) /\ P[2] = Coil("EMG", FALSE)
        /\ P[3] = Coil("SERVO_ON", FALSE) /\ P[4] = SetStop
    BY <1>5, EmergencyProgram
  <2> HIDE DEF P
  <2>3. Follows(P[1], P[2]) /\ Follows(P[2], P[3]) /\ Follows(P[3], P[4])
    BY <2>2 DEF Follows, BeforeStart, Coil, SetStop
  <2>4. \A k \in 1..3 : k = 1 \/ k = 2 \/ k = 3
    OBVIOUS
  <2>5. Ordered(P, P[1], P[4])
    BY <2>1, <2>3, <2>4 DEF Ordered
  <2>6. P[1].op = "coil" /\ P[1].coil # "START" /\ P[4].op # "coil"
    BY <2>2 DEF Coil, SetStop
  <2> QED BY <2>5, <2>6 DEF P
<1>6. CASE c = "GERROR_MSG"
  <2>1. Program[c] = <<Report>> /\ Report \in Instructions
    BY <1>6 DEF Program, Instructions
  <2>2. Report.op = "report"
    BY DEF Report
  <2> QED BY <2>1, <2>2, OrderedBlocks
<1>7. CASE c = "GALARM_RST"
  <2> DEFINE a == Coil("RST", TRUE)
             b == Coil("RST", FALSE)
  <2>1. Program[c] = <<a, b>>
    BY <1>7 DEF Program
  <2>2. a \in Instructions /\ b \in Instructions
    <3>1. "RST" \in Coils /\ \A x \in Coils, on \in BOOLEAN : Coil(x, on) \in Instructions
      BY DEF Coils, Instructions
    <3> QED BY <3>1, Zenon
  <2>3. Follows(a, b)
    BY DEF Follows, BeforeStart, Coil
  <2>4. a.op = "coil" /\ a.coil # "START" /\ ~b.on
    BY DEF Coil
  <2> HIDE DEF a, b
  <2>5. Ordered(Program[c], a, b)
    BY <2>1, <2>2, <2>3, OrderedBlocks
  <2> QED BY <2>4, <2>5
<1>8. CASE c \in {"GNONE", "GMAX_POINT", "GSUM", "GSPEEDMSG"}
  BY <1>8 DEF Program
<1> QED BY <1>1, <1>2, <1>3, <1>4, <1>5, <1>6, <1>7, <1>8 DEF Cmds

\* How a handler goes on after an instruction that succeeds.
LEMMA HandlerContinues ==
    ASSUME TypeOK, pc = "run", req' = req, Continue
    PROVE  \/ /\ pc' = "run" /\ step' = step + 1 /\ step < Len(Program[req.cmd])
              /\ Follows(Instr, Instr')
           \/ /\ pc' = "inp" /\ step = Len(Program[req.cmd])
              /\ ~(Instr.op = "coil" /\ Instr.on)
<1> DEFINE P == Program[req.cmd]
<1>1. req.cmd \in Cmds /\ step \in 1..Len(P)
  BY DEF TypeOK, RequestSet
<1>2. P \in Seq(Instructions)
  BY <1>1, ProgramType
<1>3. P # <<>>
  BY <1>1
<1>4. PICK first, last : Ordered(P, first, last) /\ ~(last.op = "coil" /\ last.on)
  BY <1>1, <1>3, ProgramOrder
<1>5. Instr = P[step] /\ Instr' = P[step']
  BY DEF Instr
<1> HIDE DEF P
<1>6. CASE step < Len(P)
  <2>1. pc' = "run" /\ step' = step + 1
    BY <1>6 DEF Continue, P
  <2>2. step \in 1..(Len(P) - 1)
    BY <1>1, <1>2, <1>6
  <2>3. Follows(P[step], P[step + 1])
    BY <1>4, <2>2 DEF Ordered
  <2>4. Follows(Instr, Instr')
    BY <1>5, <2>1, <2>3
  <2> QED BY <1>6, <2>1, <2>4 DEF P
<1>7. CASE step = Len(P)
  <2>1. pc' = "inp"
    BY <1>7 DEF Continue, P
  <2>2. Instr = last
    BY <1>4, <1>5, <1>7 DEF Ordered
  <2> QED BY <1>4, <1>7, <2>1, <2>2 DEF P
<1> QED BY <1>1, <1>2, <1>6, <1>7

\* Where a handler begins.
LEMMA HandlerBegins ==
    ASSUME TypeOK, NEW m \in Requests, Accept(m)
    PROVE  /\ req'.cmd \in Cmds /\ step' = 1
           /\ pc' = IF Program[req'.cmd] = <<>> THEN "inp" ELSE "run"
           /\ pc' = "run" => Instr'.op \notin {"if_inp", "ref"} /\ ~IsStart(Instr')
<1>1. Parse(m) \in RequestSet
  BY MotorServoAssumption, ParseType
<1>2. /\ req' = Parse(m) /\ step' = 1
      /\ pc' = IF Program[Parse(m).cmd] = <<>> THEN "inp" ELSE "run"
  BY DEF Accept, Received
<1>3. req'.cmd \in Cmds
  BY <1>1, <1>2 DEF RequestSet
<1>4. pc' = IF Program[req'.cmd] = <<>> THEN "inp" ELSE "run"
  BY <1>2
<1>5. ASSUME pc' = "run"
      PROVE  Instr'.op \notin {"if_inp", "ref"} /\ ~IsStart(Instr')
  <2>1. PICK first, last : /\ Ordered(Program[req'.cmd], first, last)
                           /\ first.op \notin {"if_inp", "ref"} /\ ~IsStart(first)
    BY <1>3, <1>4, <1>5, ProgramOrder
  <2>2. Instr' = first
    BY <1>2, <2>1 DEF Instr, Ordered
  <2> QED BY <2>1, <2>2
<1> QED BY <1>2, <1>3, <1>4, <1>5

\* Which handlers have the instructions of a motion, and which coils a handler writes.
LEMMA MotionOnly ==
    ASSUME TypeOK, pc = "run"
    PROVE  /\ Instr.op \in {"aim", "if_inp", "wait_inp", "ref"} => req.cmd \in MotionCmds
           /\ Instr.op = "coil" =>
                 /\ Instr.coil \in {"PST_CANCEL", "RST", "START", "EMG", "SERVO_ON"}
                 /\ Instr.coil = "START" => req.cmd \in MotionCmds
<1>1. req.cmd \in Cmds /\ step \in 1..Len(Program[req.cmd])
  BY DEF TypeOK, RequestSet
<1>2. CASE req.cmd \in QuietCmds
  <2>1. Instr \in QuietInstructions
    BY <1>1, <1>2, QuietPrograms DEF Instr
  <2> QED BY <2>1 DEF QuietInstructions, Coil, Send, Report
<1>3. CASE req.cmd \in MotionCmds
  <2>1. Instr \in MotionInstructions
    BY <1>1, <1>3, MotionPrograms DEF Instr
  <2> QED
    BY <1>3, <2>1 DEF MotionInstructions, QuietInstructions, Coil, Send, Report, Aim, IfInp,
       WaitInp, PutRef
<1>4. CASE req.cmd = "GEMG"
  <2>1. step \in 1..4
    BY <1>1, <1>4, EmergencyProgram
  <2> QED BY <1>4, <2>1, EmergencyProgram DEF Instr, Coil, SetStop
<1> QED BY <1>1, <1>2, <1>3, <1>4 DEF QuietCmds

\* A coil other than START or PST_PRESET, written or not, moves neither the shaft nor
\* the target and begins no positioning.
LEMMA CoilWritten ==
    ASSUME TypeOK, NEW c \in Coils \ {"START", "PST_PRESET"}, NEW on \in BOOLEAN,
           WriteDone(WriteCoil(drive, c, on)) \/ WriteFails(WriteCoil(drive, c, on))
    PROVE  /\ drive'.busy => drive.busy
           /\ UNCHANGED <<drive.target, drive.ref, drive.pos, drive.reg>>
<1> DEFINE d == WriteCoil(drive, c, on)
<1>1. drive \in DriveSet
  BY DEF TypeOK
<1>2. d.target = drive.target /\ d.ref = drive.ref /\ d.pos = drive.pos /\ d.reg = drive.reg
  BY <1>1, WriteCoilFrame
<1>3. d.busy => drive.busy
  BY <1>1, WriteCoilBusy
<1>4. drive' = drive \/ drive' = d
  BY DEF WriteDone, WriteFails
<1> HIDE DEF d
<1> QED BY <1>2, <1>3, <1>4

\* START, written or not.
LEMMA StartWritten ==
    ASSUME TypeOK, NEW on \in BOOLEAN,
           WriteDone(WriteCoil(drive, "START", on)) \/ WriteFails(WriteCoil(drive, "START", on))
    PROVE  /\ drive'.busy => \/ drive.busy /\ drive'.target = drive.target
                             \/ /\ on /\ drive.coil["SERVO_ON"] /\ drive.ref # drive.pos
                                /\ drive'.target = drive.ref
           /\ UNCHANGED <<drive.ref, drive.pos, drive.reg, drive.fault>>
<1> DEFINE d == WriteCoil(drive, "START", on)
<1>1. drive \in DriveSet /\ "START" \in Coils
  BY DEF TypeOK, Coils
<1>2. d.ref = drive.ref /\ d.pos = drive.pos /\ d.reg = drive.reg
  BY <1>1, WriteCoilFrame
<1>3. /\ d.fault = drive.fault
      /\ d.busy => \/ drive.busy /\ d.target = drive.target
                   \/ /\ on /\ drive.coil["SERVO_ON"] /\ drive.ref # drive.pos
                      /\ d.target = drive.ref
  BY <1>1, WriteStart
<1>4. drive' = drive \/ drive' = d
  BY DEF WriteDone, WriteFails
<1> HIDE DEF d
<1> QED BY <1>2, <1>3, <1>4

\* What the main thread, the drive, the encoder and the clients do beside the command
\* thread.
Beside == \/ MainThread \/ DriveAdvances \/ DriveFaults \/ EncoderSamples \/ EncoderFreezes
          \/ \E c \in Clients, m \in Requests : ClientSends(c, m)
          \/ Exited \/ UNCHANGED vars

\* What others do beside the command thread leaves its handler, the limits and the profile alone.
LEMMA BesideFrame ==
    ASSUME TypeOK, Beside
    PROVE  /\ UNCHANGED <<pc, req, step, reply, peer, status, stop, limit, dest, cruise>>
           /\ drive'.busy => drive.busy
           /\ UNCHANGED <<drive.target, drive.ref, drive.reg>>
           /\ drive'.pos # drive.pos => DriveAdvances
<1>1. drive \in DriveSet
  BY DEF TypeOK
<1>2. UNCHANGED <<pc, req, step, reply, peer, status, stop, limit, dest, cruise>>
  BY DEF Beside, MainThread, MainSeesStop, MainServeOff, MainCloses, MainReturns, DriveAdvances,
     DriveFaults, EncoderSamples, EncoderFreezes, ClientSends, Exited, vars, thread, shared
<1>3. CASE MainServeOff
  <2>1. "SERVO_ON" \in Coils \ {"START", "PST_PRESET"}
    BY DEF Coils
  <2> QED BY <1>2, <1>3, <2>1, CoilWritten DEF MainServeOff, SetCont
<1>4. CASE DriveAdvances
  <2>1. drive.busy /\ drive' = Advanced(drive)
    BY <1>4 DEF DriveAdvances, CanAdvance
  <2>2. /\ Advanced(drive).target = drive.target /\ Advanced(drive).ref = drive.ref
        /\ Advanced(drive).reg = drive.reg
    BY <1>1 DEF Advanced, DriveSet
  <2> QED BY <1>2, <1>4, <2>1, <2>2
<1>5. CASE DriveFaults
  <2>1. \A f : /\ Faulted(drive, f).busy = drive.busy /\ Faulted(drive, f).pos = drive.pos
               /\ Faulted(drive, f).target = drive.target
               /\ Faulted(drive, f).ref = drive.ref /\ Faulted(drive, f).reg = drive.reg
    BY <1>1 DEF Faulted, DriveSet
  <2> QED BY <1>2, <1>5, <2>1 DEF DriveFaults
<1>6. CASE MainSeesStop \/ MainCloses \/ MainReturns \/ EncoderSamples \/ EncoderFreezes
           \/ (\E c \in Clients, m \in Requests : ClientSends(c, m))
           \/ Exited \/ UNCHANGED vars
  BY <1>2, <1>6 DEF MainSeesStop, MainCloses, MainReturns, EncoderSamples, EncoderFreezes, ClientSends,
     Exited, vars
<1> QED BY <1>3, <1>4, <1>5, <1>6 DEF Beside, MainThread

\* The steps of the daemon, sorted by what the command thread is doing.
HandlerStep ==
    /\ pc = "run"
    /\ \/ WriteCoilInstr \/ SendInstr \/ PutRefInstr \/ AimInstr
       \/ IfInpInstr \/ WaitInpInstr \/ ReportInstr \/ SetStopInstr

LimitStep == CheckLeftLimit \/ CheckRightLimit \/ ClearLeftLimit \/ ClearRightLimit

WarningStep == PollWarning("data", "life", "DATA_ERROR") \/ PollWarning("life", "recv", "LIFE_WRNING")

\* Every step is one of these kinds.
LEMMA StepKinds ==
    ASSUME [Next]_vars
    PROVE  \/ \E m \in Requests : Refuse(m)
           \/ \E m \in Requests : Accept(m)
           \/ NothingReceived \/ HandlerStep
           \/ PollInp \/ PollAlarm \/ LimitStep \/ WarningStep
           \/ Beside
<1>1. ASSUME CommandThread
      PROVE  \/ \E m \in Requests : Refuse(m)
             \/ \E m \in Requests : Accept(m)
             \/ NothingReceived \/ HandlerStep
             \/ PollInp \/ PollAlarm \/ LimitStep \/ WarningStep
  <2>1. \/ WriteCoilInstr \/ SendInstr \/ PutRefInstr \/ AimInstr
        \/ IfInpInstr \/ WaitInpInstr \/ ReportInstr \/ SetStopInstr
        => pc = "run"
    BY DEF WriteCoilInstr, SendInstr, PutRefInstr, AimInstr, IfInpInstr, WaitInpInstr,
       ReportInstr, SetStopInstr, Running
  <2> QED BY <1>1, <2>1 DEF CommandThread, HandlerStep, LimitStep, WarningStep
<1>2. Next \/ UNCHANGED vars => CommandThread \/ Beside
  BY DEF Next, Beside
<1> QED BY <1>1, <1>2

\* What an instruction may change: only AimInstr sets dest, only PutRefInstr the
\* position, only ReportInstr says anything, START alone begins a positioning, and a
\* handler waits nowhere but at INP.
LEMMA HandlerFrame ==
    ASSUME TypeOK, HandlerStep
    PROVE  /\ Instr \in Instructions /\ req.cmd \in Cmds
           /\ UNCHANGED <<req, peer, status, limit, cruise, mpc, angle>>
           /\ \/ Continue
              \/ Abort
              \/ Instr.op = "wait_inp" /\ UNCHANGED <<pc, step>>
           /\ Instr.op # "aim" => UNCHANGED dest
           /\ Instr.op # "ref" => UNCHANGED drive.ref
           /\ UNCHANGED drive.pos
           /\ drive'.busy => \/ drive.busy /\ UNCHANGED drive.target
                             \/ /\ IsStart(Instr) /\ drive.coil["SERVO_ON"]
                                /\ drive.ref # drive.pos /\ drive'.target = drive.ref
           /\ reply' = reply \/ reply' = "$E"
           /\ Instr.op = "wait_inp" => ~drive.busy \/ UNCHANGED <<pc, step>>
<1>1. Instr \in Instructions /\ req.cmd \in Cmds /\ drive \in DriveSet
  BY RunningInstruction DEF HandlerStep, TypeOK
<1> USE DEF Running
<1>2. CASE WriteCoilInstr
  <2>1. /\ Instr.op = "coil"
        /\ UNCHANGED <<req, peer, status, limit, cruise, mpc, angle, dest, reply>>
    BY <1>2 DEF WriteCoilInstr, Instr, shared
  <2>2. Instr.coil \in Coils \ {"PST_PRESET"} /\ Instr.on \in BOOLEAN
    <3>1. Instr.coil \in {"PST_CANCEL", "RST", "START", "EMG", "SERVO_ON"}
      BY <2>1, MotionOnly DEF HandlerStep
    <3> QED BY <1>1, <2>1, <3>1, InstructionFields
  <2> DEFINE d == WriteCoil(drive, Instr.coil, Instr.on)
  <2>3. (WriteDone(d) \/ WriteFails(d)) /\ (Continue \/ Abort)
    BY <1>2 DEF WriteCoilInstr
  <2>4. CASE Instr.coil = "START"
    <3>1. /\ drive'.busy => \/ drive.busy /\ drive'.target = drive.target
                            \/ /\ Instr.on /\ drive.coil["SERVO_ON"] /\ drive.ref # drive.pos
                               /\ drive'.target = drive.ref
          /\ UNCHANGED <<drive.ref, drive.pos>>
      BY <2>2, <2>3, <2>4, StartWritten
    <3> HIDE DEF d
    <3> QED BY <1>1, <2>1, <2>3, <2>4, <3>1 DEF IsStart
  <2>5. CASE Instr.coil # "START"
    <3>1. (drive'.busy => drive.busy) /\ UNCHANGED <<drive.target, drive.ref, drive.pos>>
      BY <2>2, <2>3, <2>5, CoilWritten
    <3> HIDE DEF d
    <3> QED BY <1>1, <2>1, <2>3, <3>1
  <2> QED BY <2>4, <2>5
<1>3. CASE SendInstr
  <2>1. \A r, v : /\ WriteRegister(drive, r, v).busy = drive.busy
                  /\ WriteRegister(drive, r, v).target = drive.target
                  /\ WriteRegister(drive, r, v).ref = drive.ref
                  /\ WriteRegister(drive, r, v).pos = drive.pos
    BY <1>1 DEF WriteRegister, DriveSet
  <2>2. PICK r, v : LET d == WriteRegister(drive, r, v)
                    IN  (WriteDone(d) /\ Continue) \/ (WriteFails(d) /\ Abort)
    BY <1>3 DEF SendInstr
  <2>3. drive' = drive \/ drive' = WriteRegister(drive, r, v)
    BY <2>2 DEF WriteDone, WriteFails
  <2>4. /\ Instr.op = "send"
        /\ UNCHANGED <<req, peer, status, limit, cruise, mpc, angle, dest, reply>>
    BY <1>3 DEF SendInstr, Instr, shared
  <2> QED BY <1>1, <2>1, <2>2, <2>3, <2>4
<1>4. CASE PutRefInstr
  <2> DEFINE d == WritePosition(drive, dest)
  <2>1. d.busy = drive.busy /\ d.target = drive.target /\ d.pos = drive.pos
    BY <1>1 DEF WritePosition, DriveSet
  <2>2. (WriteDone(d) /\ Continue) \/ (WriteFails(d) /\ Abort)
    BY <1>4 DEF PutRefInstr
  <2>3. drive' = drive \/ drive' = d
    BY <2>2 DEF WriteDone, WriteFails
  <2>4. /\ Instr.op = "ref"
        /\ UNCHANGED <<req, peer, status, limit, cruise, mpc, angle, dest, reply>>
    BY <1>4 DEF PutRefInstr, Instr, shared
  <2> HIDE DEF d
  <2> QED BY <1>1, <2>1, <2>2, <2>3, <2>4
<1>5. CASE AimInstr \/ SetStopInstr
  <2>1. /\ Instr.op \in {"aim", "set_stop"} /\ Continue
        /\ UNCHANGED <<req, peer, status, limit, cruise, mpc, angle, drive, reply>>
        /\ Instr.op # "aim" => UNCHANGED dest
    BY <1>5 DEF AimInstr, SetStopInstr, Instr
  <2> QED BY <1>1, <2>1
<1>6. CASE IfInpInstr \/ ReportInstr
  <2>1. /\ Instr.op \in {"if_inp", "report"} /\ (Continue \/ Abort)
        /\ UNCHANGED <<req, peer, status, limit, cruise, mpc, angle, drive, dest>>
        /\ reply' = reply \/ reply' = "$E"
    BY <1>6 DEF IfInpInstr, ReportInstr, Instr, shared
  <2> QED BY <1>1, <2>1
<1>7. CASE WaitInpInstr
  <2>1. /\ Instr.op = "wait_inp"
        /\ UNCHANGED <<req, peer, status, limit, cruise, mpc, angle, drive, dest, reply>>
    BY <1>7 DEF WaitInpInstr, Instr, shared
  <2>2. PICK on \in BOOLEAN : Reads(InPosition(drive), on) /\ AfterWait(on)
    BY <1>7 DEF WaitInpInstr
  <2>3. CASE on
    BY <1>1, <2>1, <2>2, <2>3 DEF Reads, AfterWait, InPosition
  <2>4. CASE ~on
    BY <1>1, <2>1, <2>2, <2>4 DEF AfterWait
  <2> QED BY <2>3, <2>4
<1> QED BY <1>2, <1>3, <1>4, <1>5, <1>6, <1>7 DEF HandlerStep

-----------------------------------------------------------------------------
(* The course of a motion *)

Heading == pc = "run" /\ req.cmd \in MotionCmds

\* The status a handler runs under.
HandlerStatus(c) ==
    CASE c = "GPOINT" -> "LOCATING"
      [] c \in {"GLEFT", "GRIGHT", "GCHECK"} -> "LEFTORRIGHT"
      [] c \in {"GPST_CANCEL", "GEMG"} -> "STOPING"
      [] OTHER -> "FREE"

\* What a motion does, whatever fails: it is begun at rest, towards dest and nothing
\* else, and its status says so.
CourseInv ==
    /\ pc = "run" => status = HandlerStatus(req.cmd)
    /\ Heading /\ BeforeStart(Instr) => ~drive.busy
    /\ Heading /\ IsStart(Instr) => drive.ref = dest
    /\ drive.busy => /\ drive.target = dest /\ drive.pos # dest
                     /\ status \notin {"NONE", "INITLIZING"}
    /\ reply = "$B" => pc = "alarm"

\* The steps that leave the handlers alone: no positioning begins, the destination and
\* the position for START stay.
LEMMA CourseKept ==
    ASSUME TypeOK, CourseInv,
           pc' # "run" \/ UNCHANGED <<pc, req, step, status>>,
           drive'.busy => /\ drive.busy /\ status' \notin {"NONE", "INITLIZING"}
                          /\ drive'.pos # dest,
           UNCHANGED <<drive.ref, drive.target, dest>>,
           reply' = "$B" => pc' = "alarm"
    PROVE  CourseInv'
<1>1. pc' = "run" => UNCHANGED <<Instr, Heading>>
  BY DEF Instr, Heading
<1>2. pc' = "run" => status' = HandlerStatus(req'.cmd)
  BY DEF CourseInv
<1>3. Heading' /\ BeforeStart(Instr') => ~drive'.busy
  BY <1>1 DEF CourseInv, Heading
<1>4. Heading' /\ IsStart(Instr') => drive'.ref = dest'
  BY <1>1 DEF CourseInv, Heading
<1>5. drive'.busy => /\ drive'.target = dest' /\ drive'.pos # dest'
                     /\ status' \notin {"NONE", "INITLIZING"}
  BY DEF CourseInv
<1> QED BY <1>2, <1>3, <1>4, <1>5 DEF CourseInv

\* A motion under way goes on with the instruction that follows, or polls INP again.
LEMMA MotionContinues ==
    ASSUME TypeOK, HandlerStep, Heading'
    PROVE  /\ Heading
           /\ \/ /\ Continue /\ Follows(Instr, Instr')
                 /\ Instr.op = "wait_inp" => ~drive.busy
              \/ Instr.op = "wait_inp" /\ Instr' = Instr
<1>1. /\ pc = "run" /\ UNCHANGED req
      /\ Continue \/ Abort \/ (Instr.op = "wait_inp" /\ UNCHANGED <<pc, step>>)
      /\ Instr.op = "wait_inp" => ~drive.busy \/ UNCHANGED <<pc, step>>
  BY HandlerFrame DEF HandlerStep
<1>2. Heading /\ req.cmd # "GEMG" /\ pc' = "run"
  BY <1>1 DEF Heading, MotionCmds
<1>3. ~Abort
  BY <1>2 DEF Abort
<1>4. CASE Continue
  <2>1. step' = step + 1 /\ Follows(Instr, Instr')
    BY <1>1, <1>2, <1>4, HandlerContinues
  <2>2. step \in Nat
    BY DEF TypeOK
  <2>3. step' # step
    BY <2>1, <2>2
  <2> QED BY <1>1, <1>2, <1>4, <2>1, <2>3
<1>5. CASE Instr.op = "wait_inp" /\ UNCHANGED <<pc, step>>
  BY <1>1, <1>2, <1>5 DEF Instr
<1> QED BY <1>1, <1>3, <1>4, <1>5

\* The instructions of the handlers.
LEMMA CourseOfHandler ==
    ASSUME TypeOK, CourseInv, HandlerStep
    PROVE  CourseInv'
<1>1. /\ Instr \in Instructions /\ req.cmd \in Cmds /\ pc = "run"
      /\ UNCHANGED <<req, status>>
      /\ Continue \/ Abort \/ (Instr.op = "wait_inp" /\ UNCHANGED <<pc, step>>)
      /\ Instr.op # "aim" => UNCHANGED dest
      /\ Instr.op # "ref" => UNCHANGED drive.ref
      /\ UNCHANGED drive.pos
      /\ drive'.busy => \/ drive.busy /\ UNCHANGED drive.target
                        \/ /\ IsStart(Instr) /\ drive.ref # drive.pos
                           /\ drive'.target = drive.ref
      /\ reply' = reply \/ reply' = "$E"
      /\ Instr.op = "wait_inp" => ~drive.busy \/ UNCHANGED <<pc, step>>
  BY HandlerFrame DEF HandlerStep
<1>2. /\ Instr.op \in {"aim", "if_inp", "wait_inp", "ref"} => Heading
      /\ IsStart(Instr) => Heading
  BY <1>1, MotionOnly DEF Heading, IsStart
<1>3. pc' = "run" => status' = HandlerStatus(req'.cmd)
  BY <1>1 DEF CourseInv
<1>4. drive'.busy => /\ drive'.target = dest' /\ drive'.pos # dest'
                     /\ status' \notin {"NONE", "INITLIZING"}
  <2> SUFFICES ASSUME drive'.busy
               PROVE  /\ drive'.target = dest' /\ drive'.pos # dest'
                      /\ status' \notin {"NONE", "INITLIZING"}
    OBVIOUS
  <2>1. status \notin {"NONE", "INITLIZING"}
    BY <1>1 DEF CourseInv, HandlerStatus
  <2>2. CASE drive.busy /\ UNCHANGED drive.target
    <3>1. Instr.op # "aim"
      BY <1>2, <2>2 DEF CourseInv, BeforeStart
    <3> QED BY <1>1, <2>1, <2>2, <3>1 DEF CourseInv
  <2>3. CASE IsStart(Instr) /\ drive.ref # drive.pos /\ drive'.target = drive.ref
    <3>1. drive.ref = dest
      BY <1>2, <2>3 DEF CourseInv
    <3>2. UNCHANGED dest
      BY <1>1, <2>3 DEF IsStart
    <3> QED BY <1>1, <2>1, <2>3, <3>1, <3>2
  <2> QED BY <1>1, <2>2, <2>3
<1>5. ASSUME Heading'
      PROVE  \/ /\ Continue /\ Follows(Instr, Instr')
                /\ Instr.op = "wait_inp" => ~drive.busy
             \/ Instr.op = "wait_inp" /\ Instr' = Instr
  BY <1>5, MotionContinues
<1>6. ASSUME Heading', BeforeStart(Instr')
      PROVE  ~drive'.busy
  <2>1. ~drive.busy /\ ~IsStart(Instr)
    <3>1. \/ Follows(Instr, Instr') /\ (Instr.op = "wait_inp" => ~drive.busy)
          \/ Instr.op = "wait_inp" /\ BeforeStart(Instr)
      BY <1>5, <1>6
    <3>2. Instr.op = "wait_inp" => ~BeforeStart(Instr) /\ ~IsStart(Instr)
      BY DEF BeforeStart, IsStart
    <3>3. \/ Instr.op = "wait_inp" /\ ~drive.busy
          \/ BeforeStart(Instr) /\ ~IsStart(Instr)
      BY <1>6, <3>1, <3>2 DEF Follows
    <3>4. Heading
      BY <1>1, <1>6 DEF Heading
    <3> QED BY <3>2, <3>3, <3>4 DEF CourseInv
  <2> QED BY <1>1, <2>1
<1>7. ASSUME Heading', IsStart(Instr')
      PROVE  drive'.ref = dest'
  <2>1. Instr.op = "ref" /\ Continue
    <3>1. Instr.op = "wait_inp" => ~IsStart(Instr)
      BY DEF IsStart
    <3> QED BY <1>5, <1>7, <3>1 DEF Follows
  <2>2. PutRefInstr
    BY <2>1
    DEF HandlerStep, WriteCoilInstr, SendInstr, PutRefInstr, AimInstr, IfInpInstr,
        WaitInpInstr, ReportInstr, SetStopInstr, Running, Instr
  <2>3. drive' = WritePosition(drive, dest) /\ UNCHANGED dest
    <3>1. ~Abort
      BY <1>1, <1>7 DEF Abort, Heading, MotionCmds
    <3> QED BY <2>2, <3>1 DEF PutRefInstr, WriteDone, shared
  <2> QED BY <2>3 DEF WritePosition, TypeOK, DriveSet
<1>8. reply' = "$B" => pc' = "alarm"
  BY <1>1 DEF CourseInv
<1> QED BY <1>3, <1>4, <1>6, <1>7, <1>8 DEF CourseInv

\* The commands received: a motion is admitted at rest.
LEMMA CourseOfReceipt ==
    ASSUME TypeOK, CourseInv, FreeMeansStandstill, NEW m \in Requests,
           Refuse(m) \/ Accept(m)
    PROVE  CourseInv'
<1>1. UNCHANGED <<dest, drive>> /\ pc = "recv"
  BY DEF Refuse, Accept, Received
<1>2. drive'.busy => drive'.target = dest' /\ drive'.pos # dest'
  BY <1>1 DEF CourseInv
<1>3. CASE Refuse(m)
  <2>1. pc' = "inp" /\ reply' = "$D" /\ UNCHANGED status
    BY <1>3 DEF Refuse
  <2> QED BY <1>1, <1>2, <2>1 DEF CourseInv, Heading
<1>4. CASE Accept(m)
  <2> DEFINE c == req'.cmd
  <2>1. /\ Admitted(c) /\ status' = StatusOn(c) /\ reply' = ReplyOn(c)
        /\ UNCHANGED <<dest, drive>>
    BY <1>4 DEF Accept, Received
  <2>2. /\ c \in Cmds
        /\ pc' = IF Program[c] = <<>> THEN "inp" ELSE "run"
        /\ pc' = "run" => ~IsStart(Instr')
    BY <1>4, HandlerBegins
  <2>3. status \notin {"NONE", "INITLIZING"} /\ (NeedsFree(c) => status = "FREE")
    BY <2>1 DEF Admitted, NotReady
  <2>4. pc' = "run" => status' = HandlerStatus(c)
    <3>1. pc' = "run" => c \notin {"GNONE", "GMAX_POINT", "GSUM", "GSPEEDMSG"}
      BY <2>2 DEF Program
    <3> QED BY <2>1, <2>3, <3>1 DEF StatusOn, HandlerStatus, NeedsFree
  <2>5. Heading' => ~drive'.busy
    <3>1. Heading' => NeedsFree(c)
      BY DEF Heading, NeedsFree, MotionCmds
    <3> QED BY <2>1, <2>3, <3>1 DEF FreeMeansStandstill, InPosition
  <2>6. status' \notin {"NONE", "INITLIZING"}
    BY <2>1, <2>3 DEF StatusOn
  <2>7. reply' # "$B"
    BY <2>1 DEF ReplyOn
  <2>8. ~(Heading' /\ IsStart(Instr'))
    BY <2>2 DEF Heading
  <2> QED BY <1>2, <2>4, <2>5, <2>6, <2>7, <2>8 DEF CourseInv, c
<1> QED BY <1>3, <1>4

\* Wherever a motion is, it goes to dest, was begun at rest and is announced.
THEOREM Course == Spec => []CourseInv
<1>1. Init => CourseInv
  <2>1. ~InitialDrive.busy
    BY DEF InitialDrive
  <2>2. Init => pc = "recv" /\ drive = InitialDrive /\ reply = ""
    BY Zenon DEF Init
  <2> QED BY <2>1, <2>2 DEF CourseInv, Heading
<1>2. TypeOK /\ FreeMeansStandstill /\ CourseInv /\ [Next]_vars => CourseInv'
  <2> SUFFICES ASSUME TypeOK, FreeMeansStandstill, CourseInv, [Next]_vars
               PROVE  CourseInv'
    OBVIOUS
  <2>0. reply = "$B" => pc = "alarm"
    BY DEF CourseInv
  <2>1. ASSUME NEW m \in Requests, Refuse(m) \/ Accept(m) PROVE CourseInv'
    BY <2>1, CourseOfReceipt
  <2>2. CASE NothingReceived
    <3>1. /\ pc = "recv" /\ pc' = "inp"
          /\ UNCHANGED <<reply, status, dest, drive>>
      BY <2>2 DEF NothingReceived, shared
    <3> QED BY <2>0, <3>1, CourseKept DEF CourseInv
  <2>3. CASE HandlerStep
    BY <2>3, CourseOfHandler
  <2>4. CASE PollInp
    <3>1. /\ pc' = "alarm" /\ UNCHANGED <<dest, drive>>
          /\ status' = status \/ status' = "FREE"
      BY <2>4 DEF PollInp, Poll, AfterInp
    <3> QED BY <3>1, CourseKept DEF CourseInv
  <2>5. CASE PollAlarm
    <3>1. /\ pc' = "ot" /\ UNCHANGED <<dest, drive>>
          /\ status' = status \/ status' = "ERROOR"
          /\ reply' = ""
      <4>1. pc' = "ot" /\ UNCHANGED <<dest, drive>>
        BY <2>5 DEF PollAlarm, Poll
      <4>2. motor_zero_speed = 1
        BY DEF motor_zero_speed
      <4>3. PICK alarm \in BOOLEAN :
               LET mismatch == EncoderSlow /\ motor_zero_speed # 1 IN
               /\ status' = IF alarm \/ mismatch THEN "ERROOR" ELSE status
               /\ reply' = IF mismatch THEN "$F" ELSE ""
        BY <2>5 DEF PollAlarm
      <4>4. (status' = status \/ status' = "ERROOR") /\ reply' = ""
        BY <4>2, <4>3
      <4> QED BY <4>1, <4>4
    <3> QED BY <3>1, CourseKept DEF CourseInv
  <2>6. CASE LimitStep
    <3>1. /\ pc \in {"ot", "ot2"} /\ pc' \in {"ot2", "data"}
          /\ UNCHANGED <<reply, status, dest>>
          /\ \E c \in {"OT_PLUS", "OT_MINUS"}, on \in BOOLEAN : SetCont(c, on)
      BY <2>6 DEF LimitStep, CheckLeftLimit, CheckRightLimit, ClearLeftLimit,
         ClearRightLimit, Poll, shared
    <3>2. {"OT_PLUS", "OT_MINUS"} \subseteq Coils \ {"START", "PST_PRESET"}
      BY DEF Coils
    <3>3. /\ drive'.busy => drive.busy
          /\ UNCHANGED <<drive.ref, drive.target, drive.pos>>
      BY <3>1, <3>2, CoilWritten DEF SetCont
    <3> QED BY <2>0, <3>1, <3>3, CourseKept DEF CourseInv
  <2>7. CASE WarningStep
    <3>1. /\ pc \in {"data", "life"} /\ pc' \in {"life", "recv"}
          /\ UNCHANGED <<reply, dest, drive>>
          /\ status' = status \/ status' = "ERROOR"
      <4>1. ASSUME NEW at, NEW next, NEW f, PollWarning(at, next, f)
            PROVE  /\ pc = at /\ pc' = next /\ UNCHANGED <<reply, dest, drive>>
                   /\ status' = status \/ status' = "ERROOR"
        <5>1. \E on \in BOOLEAN : status' = IF on THEN "ERROOR" ELSE status
          BY <4>1 DEF PollWarning
        <5>2. pc = at /\ pc' = next /\ UNCHANGED <<reply, dest, drive>>
          BY <4>1 DEF PollWarning, Poll
        <5> QED BY <5>1, <5>2
      <4> QED BY <2>7, <4>1 DEF WarningStep
    <3> QED BY <2>0, <3>1, CourseKept DEF CourseInv
  <2>8. CASE Beside
    <3>1. /\ UNCHANGED <<pc, req, step, reply, status, dest>>
          /\ drive'.busy => drive.busy
          /\ UNCHANGED <<drive.target, drive.ref>>
          /\ drive'.pos # drive.pos => DriveAdvances
      BY <2>8, BesideFrame
    <3>2. drive'.busy => drive'.pos # dest
      <4>1. CASE DriveAdvances
        <5>1. drive \in DriveSet /\ drive.busy /\ drive' = Advanced(drive)
          BY <4>1 DEF TypeOK, DriveAdvances, CanAdvance
        <5>2. drive.target = dest /\ drive.pos # drive.target
          BY <5>1 DEF CourseInv
        <5> QED BY <5>1, <5>2, AdvancedFrame
      <4>2. CASE drive'.pos = drive.pos
        BY <3>1, <4>2 DEF CourseInv
      <4> QED BY <3>1, <4>1, <4>2
    <3> QED BY <2>0, <3>1, <3>2, CourseKept DEF CourseInv
  <2> QED BY <2>1, <2>2, <2>3, <2>4, <2>5, <2>6, <2>7, <2>8, StepKinds
<1> QED BY <1>1, <1>2, TypeCorrect, FreeIsStandstill, PTL DEF Spec

-----------------------------------------------------------------------------
(* Travel between the limits *)

Within(p) == limit.left <= p /\ p <= limit.right

\* The destination of a motion under way or about to start lies between the limits.
LimitsInv ==
    /\ limit.left <= limit.right
    /\ \/ drive.busy
       \/ Heading /\ (Instr.op \in {"if_inp", "ref"} \/ IsStart(Instr))
       => Within(dest)

\* A maxpoint is put in order before it is taken.
LEMMA ParseOrders ==
    ASSUME NEW m \in RequestSet, Parse(m).cmd = "GMAX_POINT"
    PROVE  Parse(m).v <= Parse(m).w
<1> DEFINE turn(x) == IF Anticlockwise THEN -x ELSE x
           a == turn(m.v)
           b == turn(m.w)
<1>1. m.v \in Int /\ m.w \in Int
  BY DEF RequestSet
<1>2. a \in Int /\ b \in Int
  BY <1>1
<1>3. m.cmd = "GMAX_POINT"
  <2>1. CASE m.cmd \in {"GPOINT", "GLEFT", "GRIGHT"}
    <3>1. /\ [m EXCEPT !.v = a].cmd = m.cmd
          /\ [m EXCEPT !.cmd = "GLEFT"].cmd = "GLEFT"
          /\ [m EXCEPT !.cmd = "GRIGHT"].cmd = "GRIGHT"
      BY DEF RequestSet
    <3> QED BY <2>1, <3>1 DEF Parse
  <2>2. CASE m.cmd \notin {"GPOINT", "GLEFT", "GRIGHT", "GMAX_POINT"}
    BY <2>2 DEF Parse
  <2> QED BY <2>1, <2>2
<1>4. Parse(m) = IF a > b THEN [m EXCEPT !.v = b, !.w = a] ELSE [m EXCEPT !.v = a, !.w = b]
  BY <1>1, <1>2, <1>3 DEF Parse
<1> HIDE DEF a, b
<1> QED BY <1>2, <1>4 DEF RequestSet

\* Clamping keeps the order.
LEMMA ClampOrder ==
    ASSUME NEW a \in Int, NEW b \in Int, a <= b
    PROVE  ClampAngle(a) <= ClampAngle(b)
BY MotorServoAssumption DEF ClampAngle

\* Every destination a handler aims at lies between the limits.
LEMMA AimWithin ==
    ASSUME TypeOK, LimitsInv, pc = "run", AimInstr
    PROVE  Within(dest') /\ UNCHANGED limit
<1>1. limit.left \in Int /\ limit.right \in Int /\ req.v \in Int
  BY DEF TypeOK, RequestSet
<1>2. \A x \in Int : Within(ClampPoint(x, limit))
  BY <1>1 DEF ClampPoint, Within, LimitsInv
<1>3. Within(limit.left) /\ Within(limit.right)
  BY <1>1 DEF Within, LimitsInv
<1>4. Instr.at \in {"point", "zero", "left", "right"}
  BY RunningInstruction, InstructionFields DEF AimInstr, Running, Instr
<1>5. \/ dest' = ClampPoint(req.v, limit) \/ dest' = ClampPoint(0, limit)
      \/ dest' = limit.left \/ dest' = limit.right
  BY <1>4 DEF AimInstr
<1>6. UNCHANGED limit
  BY DEF AimInstr
<1> QED BY <1>1, <1>2, <1>3, <1>5, <1>6 DEF Within

\* The steps that leave the handlers and the limits alone.
LEMMA LimitsKept ==
    ASSUME LimitsInv, UNCHANGED <<limit, dest>>, drive'.busy => drive.busy,
           pc' # "run" \/ UNCHANGED <<pc, req, step>>
    PROVE  LimitsInv'
<1>1. pc' = "run" => UNCHANGED <<Instr, Heading>>
  BY DEF Instr, Heading
<1>2. Within(dest)' <=> Within(dest)
  BY DEF Within
<1>3. Heading' => pc' = "run"
  BY DEF Heading
<1> QED BY <1>1, <1>2, <1>3 DEF LimitsInv

\* The instructions of a handler keep the axis between the limits.
LEMMA LimitsOfHandler ==
    ASSUME TypeOK, CourseInv, LimitsInv, HandlerStep
    PROVE  LimitsInv'
<1>1. /\ pc = "run" /\ UNCHANGED limit
      /\ Instr.op # "aim" => UNCHANGED dest
      /\ drive'.busy => drive.busy \/ (IsStart(Instr) /\ Instr.op = "coil")
  BY HandlerFrame DEF HandlerStep, IsStart
<1>2. CASE Instr.op = "aim"
  <2>1. AimInstr
    BY <1>2 DEF HandlerStep, WriteCoilInstr, SendInstr, PutRefInstr, IfInpInstr,
       WaitInpInstr, ReportInstr, SetStopInstr, Running, Instr
  <2>2. Within(dest')
    BY <1>1, <2>1, AimWithin
  <2> QED BY <1>1, <2>2 DEF LimitsInv, Within
<1>3. CASE Instr.op # "aim"
  <2>1. UNCHANGED <<limit, dest>> /\ (Within(dest)' <=> Within(dest))
    BY <1>1, <1>3 DEF Within
  <2>2. IsStart(Instr) => Heading
    BY <1>1, MotionOnly DEF Heading, IsStart
  <2>3. drive'.busy => Within(dest)
    BY <1>1, <2>2 DEF LimitsInv
  <2>4. ASSUME Heading', Instr'.op \in {"if_inp", "ref"} \/ IsStart(Instr')
        PROVE  Within(dest)
    <3>1. Heading
      BY <2>4, MotionContinues
    <3>2. Instr.op \in {"if_inp", "ref"}
      <4>1. \/ Follows(Instr, Instr')
            \/ Instr.op = "wait_inp" /\ Instr' = Instr
        BY <2>4, MotionContinues
      <4>2. CASE Follows(Instr, Instr')
        BY <1>3, <2>4, <4>2 DEF Follows
      <4>3. CASE Instr.op = "wait_inp" /\ Instr' = Instr
        BY <2>4, <4>3 DEF IsStart
      <4> QED BY <4>1, <4>2, <4>3
    <3> QED BY <3>1, <3>2 DEF LimitsInv
  <2> QED BY <2>1, <2>3, <2>4 DEF LimitsInv
<1> QED BY <1>2, <1>3

\* maxpoint is admitted at rest and between handlers only.
LEMMA LimitsOfReceipt ==
    ASSUME TypeOK, LimitsInv, FreeMeansStandstill, NEW m \in Requests,
           Refuse(m) \/ Accept(m)
    PROVE  LimitsInv'
<1>1. UNCHANGED <<dest, drive>>
  BY DEF Refuse, Accept, Received
<1>2. CASE Refuse(m)
  <2>1. pc' # "run" /\ UNCHANGED limit
    BY <1>2 DEF Refuse
  <2> QED BY <1>1, <2>1, LimitsKept
<1>3. CASE Accept(m)
  <2> DEFINE r == Parse(m)
  <2>1. /\ Admitted(r.cmd) /\ req' = r
        /\ limit' = IF r.cmd = "GMAX_POINT"
                    THEN [left |-> ClampAngle(r.v), right |-> ClampAngle(r.w)] ELSE limit
    BY <1>3 DEF Accept, Received
  <2>2. m \in RequestSet /\ r \in RequestSet
    BY MotorServoAssumption, ParseType
  <2>3. ~(Heading' /\ (Instr'.op \in {"if_inp", "ref"} \/ IsStart(Instr')))
    BY <1>3, HandlerBegins DEF Heading
  <2>4. CASE r.cmd = "GMAX_POINT"
    <3>1. status = "FREE"
      BY <2>1, <2>4 DEF Admitted, NeedsFree
    <3>2. ~drive'.busy
      BY <1>1, <3>1 DEF FreeMeansStandstill, InPosition
    <3>3. ClampAngle(r.v) <= ClampAngle(r.w)
      <4>1. r.v <= r.w /\ r.v \in Int /\ r.w \in Int
        BY <2>2, <2>4, ParseOrders DEF RequestSet
      <4> QED BY <4>1, ClampOrder
    <3> QED BY <2>1, <2>3, <2>4, <3>2, <3>3 DEF LimitsInv
  <2>5. CASE r.cmd # "GMAX_POINT"
    <3>1. UNCHANGED limit
      BY <2>1, <2>5
    <3> QED BY <1>1, <2>3, <3>1 DEF LimitsInv, Within
  <2> QED BY <2>4, <2>5
<1> QED BY <1>2, <1>3

\* Every travel goes to a point between the limits in force, whatever maxpoint, motions
\* and failures come before.  The limits of configure.ini are taken as they are: they
\* have to be in order.
THEOREM TravelBounded ==
    ASSUME Left0 <= Right0
    PROVE  Spec => []TravelWithinLimits
<1>1. Init => LimitsInv
  <2>1. ~InitialDrive.busy
    BY DEF InitialDrive
  <2>2. Init => /\ pc = "recv" /\ drive = InitialDrive
                /\ limit = [left |-> Left0, right |-> Right0]
    BY Zenon DEF Init
  <2> QED BY <2>1, <2>2 DEF LimitsInv, Heading
<1>2. TypeOK /\ FreeMeansStandstill /\ CourseInv /\ LimitsInv /\ [Next]_vars => LimitsInv'
  <2> SUFFICES ASSUME TypeOK, FreeMeansStandstill, CourseInv, LimitsInv, [Next]_vars
               PROVE  LimitsInv'
    OBVIOUS
  <2>1. ASSUME NEW m \in Requests, Refuse(m) \/ Accept(m) PROVE LimitsInv'
    BY <2>1, LimitsOfReceipt
  <2>2. CASE HandlerStep
    BY <2>2, LimitsOfHandler
  <2>3. CASE NothingReceived \/ PollInp \/ PollAlarm \/ WarningStep
    <3>1. pc' # "run" /\ UNCHANGED <<limit, dest, drive>>
      BY <2>3 DEF NothingReceived, PollInp, PollAlarm, WarningStep, PollWarning, Poll, shared
    <3> QED BY <3>1, LimitsKept
  <2>4. CASE LimitStep
    <3>1. /\ pc' # "run" /\ UNCHANGED <<limit, dest>>
          /\ \E c \in {"OT_PLUS", "OT_MINUS"}, on \in BOOLEAN : SetCont(c, on)
      BY <2>4 DEF LimitStep, CheckLeftLimit, CheckRightLimit, ClearLeftLimit,
         ClearRightLimit, Poll, shared
    <3>2. {"OT_PLUS", "OT_MINUS"} \subseteq Coils \ {"START", "PST_PRESET"}
      BY DEF Coils
    <3>3. drive'.busy => drive.busy
      BY <3>1, <3>2, CoilWritten DEF SetCont
    <3> QED BY <3>1, <3>3, LimitsKept
  <2>5. CASE Beside
    BY <2>5, BesideFrame, LimitsKept
  <2> QED BY <2>1, <2>2, <2>3, <2>4, <2>5, StepKinds
<1>3. CourseInv /\ LimitsInv => TravelWithinLimits
  BY DEF CourseInv, LimitsInv, Within, TravelWithinLimits, InPosition
<1> QED BY <1>1, <1>2, <1>3, TypeCorrect, FreeIsStandstill, Course, PTL DEF Spec

-----------------------------------------------------------------------------
(* What a line that loses nothing adds *)

\* No transaction has failed and the line is open: neither comes back.
Sound == fails = 0 /\ LineOpen

\* Failures are counted, never taken back, and a line that was closed stays closed.
LEMMA FailuresGrow ==
    ASSUME TypeOK, [Next]_vars
    PROVE  (fails' = fails \/ LineFails) /\ (LineOpen' => LineOpen)
<1>1. /\ \A d : WriteDone(d) \/ WriteFails(d) => fails' = fails \/ LineFails
      /\ \A bit, on : Reads(bit, on) => fails' = fails \/ LineFails
  BY DEF WriteDone, WriteFails, Reads
<1>2. CASE \E m \in Requests : Refuse(m) \/ Accept(m)
  BY <1>2 DEF Refuse, Accept, Received, LineOpen
<1>3. CASE NothingReceived
  BY <1>3 DEF NothingReceived, LineOpen
<1>4. CASE HandlerStep
  <2>1. UNCHANGED mpc
    BY <1>4, HandlerFrame
  <2>2. CASE WriteCoilInstr \/ SendInstr \/ PutRefInstr
    <3>1. \E d : WriteDone(d) \/ WriteFails(d)
      BY <2>2 DEF WriteCoilInstr, SendInstr, PutRefInstr
    <3> QED BY <1>1, <2>1, <3>1 DEF LineOpen
  <2>3. CASE IfInpInstr \/ WaitInpInstr \/ ReportInstr
    <3>1. \E bit, on : Reads(bit, on)
      BY <2>3 DEF IfInpInstr, WaitInpInstr, ReportInstr
    <3> QED BY <1>1, <2>1, <3>1 DEF LineOpen
  <2>4. CASE AimInstr \/ SetStopInstr
    BY <2>1, <2>4 DEF AimInstr, SetStopInstr, LineOpen
  <2> QED BY <1>4, <2>2, <2>3, <2>4 DEF HandlerStep
<1>5. CASE PollInp \/ PollAlarm \/ WarningStep
  <2>1. UNCHANGED mpc /\ \E bit, on : Reads(bit, on)
    BY <1>5 DEF PollInp, PollAlarm, WarningStep, PollWarning
  <2> QED BY <1>1, <2>1 DEF LineOpen
<1>6. CASE LimitStep
  <2>1. UNCHANGED mpc /\ \E d : WriteDone(d) \/ WriteFails(d)
    BY <1>6 DEF LimitStep, CheckLeftLimit, CheckRightLimit, ClearLeftLimit,
       ClearRightLimit, SetCont
  <2> QED BY <1>1, <2>1 DEF LineOpen
<1>7. CASE MainServeOff
  <2>1. mpc = "serve_off" /\ \E d : WriteDone(d) \/ WriteFails(d)
    BY <1>7 DEF MainServeOff, SetCont
  <2> QED BY <1>1, <2>1 DEF LineOpen
<1>8. CASE Beside /\ ~MainServeOff
  BY <1>8 DEF Beside, MainThread, MainSeesStop, MainCloses, MainReturns, DriveAdvances, DriveFaults,
     EncoderSamples, EncoderFreezes, ClientSends, Exited, vars, LineOpen
<1> QED BY <1>2, <1>3, <1>4, <1>5, <1>6, <1>7, <1>8, StepKinds

\* The number of failures was zero before, if it is zero now.
LEMMA FailureFree ==
    ASSUME TypeOK, [Next]_vars, fails' = 0
    PROVE  fails = 0
<1>1. fails \in Nat /\ (fails' = fails \/ LineFails)
  BY FailuresGrow DEF TypeOK
<1> QED BY <1>1 DEF LineFails

\* Without faults and failures after a step there were none before it.
LEMMA SoundBefore ==
    ASSUME TypeOK, [Next]_vars, Sound'
    PROVE  Sound
BY FailureFree, FailuresGrow DEF Sound

\* Then every instruction takes effect and the handler goes on.
LEMMA HandlerSucceeds ==
    ASSUME TypeOK, CourseInv, HandlerStep, Sound, Sound'
    PROVE  /\ Continue \/ (Instr.op = "wait_inp" /\ UNCHANGED <<pc, step>>)
           /\ Instr.op = "coil" => drive' = WriteCoil(drive, Instr.coil, Instr.on)
           /\ Instr.op = "send" =>
                 drive' = WriteRegister(drive, Instr.reg,
                             IF Instr.from = "cruise" THEN cruise[Instr.reg] ELSE CheckRate)
           /\ Instr.op = "ref" => drive' = WritePosition(drive, dest)
           /\ Instr.op \notin {"coil", "send", "ref"} => drive' = drive
<1>1. ~LineFails
  BY DEF LineFails, Sound, LineOpen, TypeOK
<1>2. \A d : ~WriteFails(d)
  BY <1>1 DEF WriteFails
<1>3. CASE WriteCoilInstr
  BY <1>2, <1>3 DEF WriteCoilInstr, WriteDone, Running, Instr
<1>4. CASE SendInstr
  BY <1>2, <1>4 DEF SendInstr, WriteDone, Running, Instr
<1>5. CASE PutRefInstr
  BY <1>2, <1>5 DEF PutRefInstr, WriteDone, Running, Instr
<1>6. CASE AimInstr \/ SetStopInstr
  BY <1>6 DEF AimInstr, SetStopInstr, Running, Instr
<1>7. CASE IfInpInstr
  <2>1. Instr.op = "if_inp" /\ drive' = drive
    BY <1>7 DEF IfInpInstr, Running, Instr
  <2>2. InPosition(drive)
    <3>1. Heading
      BY <2>1, MotionOnly DEF HandlerStep, Heading
    <3> QED BY <2>1, <3>1 DEF CourseInv, BeforeStart, InPosition
  <2>3. PICK on \in BOOLEAN : /\ Reads(InPosition(drive), on)
                              /\ IF on THEN Continue ELSE Abort
    BY <1>7 DEF IfInpInstr
  <2>4. on
    BY <1>1, <2>2, <2>3 DEF Reads
  <2> QED BY <2>1, <2>3, <2>4
<1>8. CASE WaitInpInstr
  <2>1. Instr.op = "wait_inp" /\ drive' = drive
    BY <1>8 DEF WaitInpInstr, Running, Instr
  <2> QED BY <1>8, <2>1 DEF WaitInpInstr, AfterWait
<1>9. CASE ReportInstr
  BY <1>9 DEF ReportInstr, Running, Instr
<1> QED BY <1>3, <1>4, <1>5, <1>6, <1>7, <1>8, <1>9 DEF HandlerStep

-----------------------------------------------------------------------------
(* The profile in the amplifier *)

\* The handler under way has still to send a register of the cruise profile.
Pending(r) ==
    /\ pc = "run"
    /\ \E k \in step..Len(Program[req.cmd]) : Program[req.cmd][k] = Send(r, "cruise")

ProfileInv == Sound => \A r \in Registers : Pending(r) \/ drive.reg[r] = cruise[r]

\* The three handlers that set a register send it last.
LEMMA SetterPrograms ==
    ASSUME NEW c \in DOMAIN RegisterOf
    PROVE  /\ c \in {"GSPEED", "GACCE_TIME", "GDECE_TIME"} /\ RegisterOf[c] \in Registers
           /\ Len(Program[c]) = 3 /\ Program[c][3] = Send(RegisterOf[c], "cruise")
<1>1. c = "GSPEED" \/ c = "GACCE_TIME" \/ c = "GDECE_TIME"
  BY DEF RegisterOf
<1>2. \A i : /\ Len(task_cancel \o <<i>>) = 3
             /\ (task_cancel \o <<i>>)[3] = i
  BY DEF task_cancel
<1>3. CASE c = "GSPEED"
  <2>1. Program[c] = task_cancel \o <<Send("SPEED", "cruise")>>
    BY <1>3 DEF Program
  <2> QED BY <1>2, <1>3, <2>1 DEF RegisterOf, Registers
<1>4. CASE c = "GACCE_TIME"
  <2>1. Program[c] = task_cancel \o <<Send("ACC_TIM", "cruise")>>
    BY <1>4 DEF Program
  <2> QED BY <1>2, <1>4, <2>1 DEF RegisterOf, Registers
<1>5. CASE c = "GDECE_TIME"
  <2>1. Program[c] = task_cancel \o <<Send("DEC_TIM", "cruise")>>
    BY <1>5 DEF Program
  <2> QED BY <1>2, <1>5, <2>1 DEF RegisterOf, Registers
<1> QED BY <1>1, <1>3, <1>4, <1>5

\* Instructions that send no profile but the daemon's own.
CruiseOnly == {i \in Instructions : i.op = "send" => i.from = "cruise"}

\* The self check is the only handler that sends another.
LEMMA CruiseOnlyPrograms == \A c \in Cmds \ {"GCHECK"} : Program[c] \in Seq(CruiseOnly)
<1> DEFINE Q == CruiseOnly
<1>1. \A i : i \in Instructions /\ i.op # "send" => i \in Q
  BY DEF CruiseOnly
<1>2. /\ \A c \in Coils, on \in BOOLEAN : Coil(c, on) \in Instructions
      /\ \A at \in {"point", "zero", "left", "right"} : Aim(at) \in Instructions
      /\ IfInp \in Instructions /\ PutRef \in Instructions /\ Report \in Instructions
      /\ SetStop \in Instructions
      /\ \A r \in Registers : Send(r, "cruise") \in Instructions
  BY DEF Instructions
<1>3. /\ \A c, on : Coil(c, on).op # "send"
      /\ \A at : Aim(at).op # "send"
      /\ IfInp.op # "send" /\ PutRef.op # "send" /\ Report.op # "send"
      /\ SetStop.op # "send"
      /\ \A r : Send(r, "cruise").from = "cruise"
  BY DEF Coil, Aim, IfInp, PutRef, Report, SetStop, Send
<1>4. /\ \A c \in Coils, on \in BOOLEAN : Coil(c, on) \in Q
      /\ \A at \in {"point", "zero", "left", "right"} : Aim(at) \in Q
      /\ IfInp \in Q /\ PutRef \in Q /\ Report \in Q /\ SetStop \in Q
      /\ \A r \in Registers : Send(r, "cruise") \in Q
  BY <1>1, <1>2, <1>3, Zenon DEF CruiseOnly
<1>5. \A c \in {"PST_CANCEL", "START", "EMG", "SERVO_ON", "RST"} :
         Coil(c, TRUE) \in Q /\ Coil(c, FALSE) \in Q
  <2>1. {"PST_CANCEL", "START", "EMG", "SERVO_ON", "RST"} \subseteq Coils
    BY DEF Coils
  <2> QED BY <1>4, <2>1, Zenon
<1> HIDE DEF Q
<1>6. /\ <<>> \in Seq(Q)
      /\ \A a \in Q : <<a>> \in Seq(Q)
      /\ \A a, b \in Q : <<a, b>> \in Seq(Q)
      /\ \A a, b, c, d \in Q : <<a, b, c, d>> \in Seq(Q)
      /\ \A s, t \in Seq(Q) : s \o t \in Seq(Q)
  OBVIOUS
<1>7. task_cancel \in Seq(Q) /\ run_to_angle \in Seq(Q) /\ emergency_stop \in Seq(Q)
  <2>1. task_cancel \in Seq(Q)
    BY <1>5, <1>6, Zenon DEF task_cancel
  <2>2. run_to_angle \in Seq(Q)
    BY <1>4, <1>5, <1>6, Zenon DEF run_to_angle
  <2>3. emergency_stop \in Seq(Q)
    BY <1>4, <1>5, <1>6, Zenon DEF emergency_stop
  <2> QED BY <2>1, <2>2, <2>3
<1>8. /\ \A at \in {"point", "zero", "left", "right"} : <<Aim(at)>> \o run_to_angle \in Seq(Q)
      /\ \A r \in Registers : task_cancel \o <<Send(r, "cruise")>> \in Seq(Q)
  BY <1>4, <1>6, <1>7
<1>9. <<Coil("RST", TRUE), Coil("RST", FALSE)>> \in Seq(Q) /\ <<Report>> \in Seq(Q)
  BY <1>4, <1>5, <1>6, Zenon
<1>10. /\ Program["GNONE"] = <<>> /\ Program["GMAX_POINT"] = <<>>
       /\ Program["GSUM"] = <<>> /\ Program["GSPEEDMSG"] = <<>>
       /\ Program["GPST_CANCEL"] = task_cancel
       /\ Program["GSPEED"] = task_cancel \o <<Send("SPEED", "cruise")>>
       /\ Program["GACCE_TIME"] = task_cancel \o <<Send("ACC_TIM", "cruise")>>
       /\ Program["GDECE_TIME"] = task_cancel \o <<Send("DEC_TIM", "cruise")>>
       /\ Program["GEMG"] = emergency_stop
  BY DEF Program
<1>11. /\ Program["GERROR_MSG"] = <<Report>>
       /\ Program["GALARM_RST"] = <<Coil("RST", TRUE), Coil("RST", FALSE)>>
       /\ Program["GPOINT"] = <<Aim("point")>> \o run_to_angle
       /\ Program["GLEFT"] = <<Aim("left")>> \o run_to_angle
       /\ Program["GRIGHT"] = <<Aim("right")>> \o run_to_angle
  BY DEF Program
<1> QED
  BY <1>6, <1>7, <1>8, <1>9, <1>10, <1>11 DEF Q, Cmds, Registers

\* A register the self check sets to its own profile is sent again further on.
LEMMA CheckRestores ==
    ASSUME TypeOK, pc = "run", Instr.op = "send", Instr.from # "cruise"
    PROVE  \E k \in (step + 1)..Len(Program[req.cmd]) :
              Program[req.cmd][k] = Send(Instr.reg, "cruise")
<1>1. req.cmd \in Cmds /\ step \in 1..Len(Program[req.cmd]) /\ step \in Nat
  BY DEF TypeOK, RequestSet
<1>2. req.cmd = "GCHECK"
  <2>1. CASE req.cmd # "GCHECK"
    <3>1. Program[req.cmd] \in Seq(CruiseOnly)
      BY <1>1, <2>1, CruiseOnlyPrograms
    <3>2. Instr \in CruiseOnly
      BY <1>1, <3>1 DEF Instr
    <3> QED BY <3>2 DEF CruiseOnly
  <2> QED BY <2>1
<1> DEFINE A == check_legs
           B == send_profile("cruise")
<1>3. /\ Program[req.cmd] = A \o B
      /\ A \in Seq(Instructions) /\ B \in Seq(Instructions)
  BY <1>2, OrderedCheck, OrderedBlocks DEF Program, Ordered
<1>4. /\ Len(B) = 3 /\ B[1] = Send("SPEED", "cruise") /\ B[2] = Send("ACC_TIM", "cruise")
      /\ B[3] = Send("DEC_TIM", "cruise")
  BY DEF send_profile
<1> HIDE DEF A, B
<1>5. /\ Len(A \o B) = Len(A) + 3
      /\ \A k \in 1..3 : (A \o B)[Len(A) + k] = B[k]
      /\ Len(A) \in Nat
  <2>1. Len(A) \in Nat /\ Len(A \o B) = Len(A) + Len(B)
    BY <1>3, ConcatProperties
  <2>2. ASSUME NEW k \in 1..3 PROVE (A \o B)[Len(A) + k] = B[k]
    <3>1. k \in 1..Len(B)
      BY <1>4
    <3> QED BY <1>3, <3>1, ConcatProperties
  <2> QED BY <1>4, <2>1, <2>2
<1>6. \A r \in Registers : \E k \in 1..3 : B[k] = Send(r, "cruise")
  BY <1>4 DEF Registers
<1>7. step <= Len(A)
  <2>1. CASE step > Len(A)
    <3> DEFINE n == step - Len(A)
    <3>1. n \in 1..3 /\ step = Len(A) + n
      BY <1>1, <1>3, <1>5, <2>1
    <3> HIDE DEF n
    <3>2. Instr = B[n]
      BY <1>3, <1>5, <3>1 DEF Instr
    <3>3. n = 1 \/ n = 2 \/ n = 3
      BY <3>1
    <3>4. Instr.from = "cruise"
      BY <1>4, <3>2, <3>3 DEF Send
    <3> QED BY <3>4
  <2> QED BY <1>1, <1>5, <2>1
<1>8. Instr.reg \in Registers
  BY RunningInstruction, InstructionFields
<1>9. PICK k \in 1..3 : B[k] = Send(Instr.reg, "cruise")
  BY <1>6, <1>8
<1>10. Len(A) + k \in (step + 1)..Len(A \o B) /\ (A \o B)[Len(A) + k] = B[k]
  <2> DEFINE n == Len(A)
  <2>1. n \in Nat /\ step \in Nat /\ step <= n /\ Len(A \o B) = n + 3
    BY <1>1, <1>5, <1>7
  <2> HIDE DEF n
  <2>2. n + k \in (step + 1)..(n + 3)
    BY <2>1
  <2> QED BY <1>5, <2>1, <2>2 DEF n
<1> QED BY <1>3, <1>9, <1>10

\* Between handlers nothing is pending; then a setter that is admitted is.
LEMMA ProfileOfReceipt ==
    ASSUME TypeOK, ProfileInv, NEW m \in Requests, Refuse(m) \/ Accept(m)
    PROVE  ProfileInv'
<1>1. /\ pc = "recv" /\ UNCHANGED <<mpc, drive, fails>>
      /\ Sound' <=> Sound
  BY DEF Refuse, Accept, Received, Sound, LineOpen
<1>2. Sound => \A r \in Registers : drive.reg[r] = cruise[r]
  BY <1>1 DEF ProfileInv, Pending
<1>3. CASE Refuse(m)
  <2>1. UNCHANGED cruise
    BY <1>3 DEF Refuse
  <2> QED BY <1>1, <1>2, <2>1 DEF ProfileInv
<1>4. CASE Accept(m)
  <2> DEFINE c == req'.cmd
  <2>1. cruise' = IF c \in DOMAIN RegisterOf
                  THEN [cruise EXCEPT ![RegisterOf[c]] = Rate(req')] ELSE cruise
    BY <1>4 DEF Accept, Received
  <2>2. step' = 1 /\ pc' = IF Program[c] = <<>> THEN "inp" ELSE "run"
    BY <1>4, HandlerBegins
  <2> HIDE DEF c
  <2>3. CASE c \in DOMAIN RegisterOf
    <3>1. /\ RegisterOf[c] \in Registers
          /\ Len(Program[c]) = 3 /\ Program[c][3] = Send(RegisterOf[c], "cruise")
      BY <2>3, SetterPrograms
    <3>2. pc' = "run" /\ step' = 1
      BY <2>2, <3>1
    <3>3. ASSUME NEW r \in Registers, Sound
          PROVE  Pending(r)' \/ drive'.reg[r] = cruise'[r]
      <4>1. CASE r = RegisterOf[c]
        <5>1. 3 \in 1..Len(Program[c]) /\ Program[c][3] = Send(r, "cruise")
          BY <3>1, <4>1
        <5>2. 3 \in step'..Len(Program[req'.cmd]) /\ Program[req'.cmd][3] = Send(r, "cruise")
          BY <3>2, <5>1 DEF c
        <5> QED BY <3>2, <5>2 DEF Pending
      <4>2. CASE r # RegisterOf[c]
        <5>1. cruise'[r] = cruise[r]
          BY <2>1, <2>3, <4>2 DEF TypeOK
        <5> QED BY <1>1, <1>2, <3>3, <5>1
      <4> QED BY <4>1, <4>2
    <3> QED BY <1>1, <3>3 DEF ProfileInv
  <2>4. CASE c \notin DOMAIN RegisterOf
    BY <1>1, <1>2, <2>1, <2>4 DEF ProfileInv
  <2> QED BY <2>3, <2>4
<1> QED BY <1>3, <1>4

\* A handler sends what is pending before it ends.
LEMMA ProfileOfHandler ==
    ASSUME TypeOK, CourseInv, ProfileInv, HandlerStep, Sound, Sound',
           NEW r \in Registers
    PROVE  Pending(r)' \/ drive'.reg[r] = cruise'[r]
<1> DEFINE P == Program[req.cmd]
<1>1. /\ pc = "run" /\ Instr \in Instructions /\ UNCHANGED <<req, cruise>>
      /\ drive \in DriveSet /\ step \in 1..Len(P) /\ step \in Nat
  BY HandlerFrame DEF HandlerStep, TypeOK
<1>2. Instr = P[step] /\ Pending(r) <=> \E k \in step..Len(P) : P[k] = Send(r, "cruise")
  BY <1>1 DEF Pending, Instr
\* What is to be sent further on stays to be sent.
<1>3. ASSUME NEW k \in (step + 1)..Len(P), P[k] = Send(r, "cruise")
      PROVE  Pending(r)'
  <2>1. CASE Continue
    <3>1. step < Len(P)
      BY <1>1, <1>3
    <3>2. pc' = "run" /\ step' = step + 1
      BY <1>1, <2>1, <3>1 DEF Continue
    <3> QED BY <1>1, <1>3, <3>2 DEF Pending
  <2>2. CASE UNCHANGED <<pc, step>>
    <3>1. k \in step..Len(P)
      BY <1>1, <1>3
    <3> QED BY <1>1, <1>3, <2>2, <3>1 DEF Pending
  <2> QED BY <2>1, <2>2, HandlerSucceeds
<1>4. CASE Instr.op = "send"
  <2> DEFINE v == IF Instr.from = "cruise" THEN cruise[Instr.reg] ELSE CheckRate
  <2>1. /\ drive' = WriteRegister(drive, Instr.reg, v) /\ Instr.reg \in Registers
    BY <1>1, <1>4, HandlerSucceeds, InstructionFields
  <2> HIDE DEF v
  <2>2. drive'.reg[r] = IF r = Instr.reg THEN v ELSE drive.reg[r]
    BY <1>1, <2>1 DEF WriteRegister, DriveSet
  <2>3. CASE r = Instr.reg /\ Instr.from = "cruise"
    BY <1>1, <2>2, <2>3 DEF v
  <2>4. CASE r = Instr.reg /\ Instr.from # "cruise"
    BY <1>1, <1>3, <1>4, <2>4, CheckRestores
  <2>5. CASE r # Instr.reg
    <3>1. Instr # Send(r, "cruise")
      BY <2>5 DEF Send
    <3>2. CASE Pending(r)
      <4>1. PICK k \in step..Len(P) : P[k] = Send(r, "cruise")
        BY <1>1, <3>2 DEF Pending
      <4>2. k \in (step + 1)..Len(P)
        BY <1>1, <3>1, <4>1 DEF Instr
      <4> QED BY <1>3, <4>1, <4>2
    <3>3. CASE drive.reg[r] = cruise[r]
      BY <1>1, <2>2, <2>5, <3>3
    <3> QED BY <3>2, <3>3 DEF ProfileInv
  <2> QED BY <2>3, <2>4, <2>5
<1>5. CASE Instr.op # "send"
  <2>1. drive'.reg = drive.reg
    <3>1. CASE Instr.op = "coil"
      <4>1. Instr.coil \in Coils /\ Instr.on \in BOOLEAN
        BY <1>1, <3>1, InstructionFields
      <4>2. drive' = WriteCoil(drive, Instr.coil, Instr.on)
        BY <3>1, HandlerSucceeds
      <4> QED BY <1>1, <4>1, <4>2, WriteCoilFrame
    <3>2. CASE Instr.op = "ref"
      BY <1>1, <3>2, HandlerSucceeds DEF WritePosition, DriveSet
    <3>3. CASE Instr.op \notin {"coil", "send", "ref"}
      BY <3>3, HandlerSucceeds
    <3> QED BY <1>5, <3>1, <3>2, <3>3
  <2>2. CASE Pending(r)
    <3>1. Instr # Send(r, "cruise")
      BY <1>5 DEF Send
    <3>2. PICK k \in step..Len(P) : P[k] = Send(r, "cruise")
      BY <1>1, <2>2 DEF Pending
    <3>3. k \in (step + 1)..Len(P)
      BY <1>1, <3>1, <3>2 DEF Instr
    <3> QED BY <1>3, <3>2, <3>3
  <2>3. CASE drive.reg[r] = cruise[r]
    BY <1>1, <2>1, <2>3
  <2> QED BY <2>2, <2>3 DEF ProfileInv
<1> QED BY <1>4, <1>5

\* As long as no transaction is lost, the amplifier runs between commands with the
\* profile the daemon believes in, also after a self check.
THEOREM ProfileKept == Spec => []ProfileApplied
<1>1. Init => ProfileInv
  <2>1. InitialDrive.reg = InitialProfile
    BY DEF InitialDrive
  <2>2. Init => drive = InitialDrive /\ cruise = InitialProfile
    BY Zenon DEF Init
  <2> QED BY <2>1, <2>2 DEF ProfileInv
<1>2. TypeOK /\ CourseInv /\ ProfileInv /\ [Next]_vars => ProfileInv'
  <2> SUFFICES ASSUME TypeOK, CourseInv, ProfileInv, [Next]_vars, Sound'
               PROVE  \A r \in Registers : Pending(r)' \/ drive'.reg[r] = cruise'[r]
    BY DEF ProfileInv
  <2>0. Sound
    BY SoundBefore
  <2>1. ASSUME NEW m \in Requests, Refuse(m) \/ Accept(m)
        PROVE  \A r \in Registers : Pending(r)' \/ drive'.reg[r] = cruise'[r]
    BY <2>1, ProfileOfReceipt DEF ProfileInv
  <2>2. CASE HandlerStep
    BY <2>0, <2>2, ProfileOfHandler
  \* The other steps of the command thread are no instructions of a handler.
  <2>3. ASSUME pc # "run", drive'.reg = drive.reg, UNCHANGED cruise
        PROVE  \A r \in Registers : Pending(r)' \/ drive'.reg[r] = cruise'[r]
    BY <2>0, <2>3 DEF ProfileInv, Pending
  <2>4. CASE NothingReceived \/ PollInp \/ PollAlarm \/ WarningStep
    <3>1. pc # "run" /\ UNCHANGED <<cruise, drive>>
      BY <2>4 DEF NothingReceived, PollInp, PollAlarm, WarningStep, PollWarning, Poll, shared
    <3> QED BY <2>3, <3>1
  <2>5. CASE LimitStep
    <3>1. /\ pc # "run" /\ UNCHANGED cruise
          /\ \E c \in {"OT_PLUS", "OT_MINUS"}, on \in BOOLEAN : SetCont(c, on)
      BY <2>5 DEF LimitStep, CheckLeftLimit, CheckRightLimit, ClearLeftLimit,
         ClearRightLimit, Poll, shared
    <3>2. {"OT_PLUS", "OT_MINUS"} \subseteq Coils \ {"START", "PST_PRESET"}
      BY DEF Coils
    <3> QED BY <2>3, <3>1, <3>2, CoilWritten DEF SetCont
  <2>6. CASE Beside
    <3>1. UNCHANGED <<pc, req, step, cruise>> /\ drive'.reg = drive.reg
      BY <2>6, BesideFrame
    <3> QED BY <2>0, <3>1 DEF ProfileInv, Pending
  <2> QED BY <2>1, <2>2, <2>4, <2>5, <2>6, StepKinds
<1>3. TypeOK /\ ProfileInv => ProfileApplied
  <2> SUFFICES ASSUME TypeOK, ProfileInv, pc = "recv", Sound
               PROVE  drive.reg = cruise
    BY DEF ProfileApplied, Sound
  <2>1. \A r \in Registers : drive.reg[r] = cruise[r]
    BY DEF ProfileInv, Pending
  <2>2. drive.reg \in [Registers -> Int] /\ cruise \in [Registers -> Int]
    BY DEF TypeOK, DriveSet
  <2> QED BY <2>1, <2>2
<1> QED BY <1>1, <1>2, <1>3, TypeCorrect, Course, PTL DEF Spec

-----------------------------------------------------------------------------
(* What an untroubled motion promises *)

\* A sound drive does what the handlers tell it: the servo is on until the stop releases
\* it, no pulse is left on a coil, and a located point is where the axis stands.
StatusIntact == status \in DOMAIN PhaseOf

ServoIntact == On \/ (pc = "run" /\ req.cmd = "GEMG" /\ step = 4)

PulsesIntact ==
    \A c \in {"PST_CANCEL", "EMG", "START"} :
       drive.coil[c] => pc = "run" /\ Instr = Coil(c, FALSE)

Starting == pc = "run" /\ req.cmd = "GPOINT" /\ step <= 4

ArrivalIntact == status = "LOCATING" /\ ~drive.busy => drive.pos = dest \/ Starting

ReportIntact == reply = "$B" => ~drive.busy /\ drive.pos = dest

IntactInv ==
    Intact => /\ StatusIntact /\ drive.fault = {}
              /\ ~stop => ServoIntact /\ PulsesIntact /\ ArrivalIntact /\ ReportIntact

\* The steps that are no instructions of a handler, nor a motion of the drive.
LEMMA IntactKept ==
    ASSUME IntactInv, Intact,
           StatusIntact', drive'.fault = {}, UNCHANGED stop,
           ~stop => \A c \in {"SERVO_ON", "PST_CANCEL", "EMG", "START"} :
                       drive'.coil[c] = drive.coil[c],
           ~stop => ArrivalIntact' /\ ReportIntact',
           pc # "run" \/ UNCHANGED <<pc, req, step>>
    PROVE  IntactInv'
<1> SUFFICES ASSUME ~stop
             PROVE  ServoIntact' /\ PulsesIntact'
  BY DEF IntactInv
<1>1. ServoIntact /\ PulsesIntact
  BY DEF IntactInv
<1>2. On' <=> On
  BY DEF On
<1>3. CASE pc # "run"
  BY <1>1, <1>2, <1>3 DEF ServoIntact, PulsesIntact
<1>4. CASE UNCHANGED <<pc, req, step>>
  <2>1. UNCHANGED Instr
    BY <1>4 DEF Instr
  <2> QED BY <1>1, <1>2, <1>4, <2>1 DEF ServoIntact, PulsesIntact
<1> QED BY <1>3, <1>4

\* The last two instructions of a point.
LEMMA PointProgram ==
    /\ Len(Program["GPOINT"]) = 5
    /\ Program["GPOINT"][4] = Coil("START", TRUE)
    /\ Program["GPOINT"][5] = Coil("START", FALSE)
<1>1. \A a, b, c, d, e : /\ Len(<<a>> \o <<b, c, d, e>>) = 5
                         /\ (<<a>> \o <<b, c, d, e>>)[4] = d
                         /\ (<<a>> \o <<b, c, d, e>>)[5] = e
  OBVIOUS
<1> DEFINE a == Aim("point")
           b == IfInp
           c == PutRef
           d == Coil("START", TRUE)
           e == Coil("START", FALSE)
           P == Program["GPOINT"]
<1>2. P = <<a>> \o <<b, c, d, e>>
  BY DEF Program, run_to_angle
<1> HIDE DEF a, b, c, d, e, P
<1>3. Len(P) = 5 /\ P[4] = d /\ P[5] = e
  BY <1>1, <1>2
<1> QED BY <1>3 DEF d, e, P

\* The servo, pulse by pulse.
LEMMA PulsesOfHandler ==
    ASSUME TypeOK, CourseInv, IntactInv, Intact, Sound, Sound', ~stop, HandlerStep, ~stop'
    PROVE  ServoIntact' /\ PulsesIntact' /\ drive'.fault = {}
<1>1. /\ pc = "run" /\ Instr \in Instructions /\ UNCHANGED req /\ drive \in DriveSet
      /\ req.cmd \in Cmds /\ step \in 1..Len(Program[req.cmd])
  BY HandlerFrame DEF HandlerStep, TypeOK
<1>2. ServoIntact /\ PulsesIntact /\ drive.fault = {}
  BY DEF IntactInv
<1> DEFINE C == {"PST_CANCEL", "EMG", "START"}
<1>3. C \subseteq Coils /\ "SERVO_ON" \in Coils \ C
  BY DEF Coils
<1>4. CASE Instr.op = "coil"
  <2> DEFINE d == WriteCoil(drive, Instr.coil, Instr.on)
  <2>1. /\ Instr.coil \in Coils /\ Instr.on \in BOOLEAN /\ drive' = d /\ Continue
    <3>1. Instr.coil \in Coils /\ Instr.on \in BOOLEAN
      BY <1>1, <1>4, InstructionFields
    <3>2. drive' = d /\ Continue
      BY <1>4, HandlerSucceeds
    <3> QED BY <3>1, <3>2
  <2>2. /\ d.fault \subseteq drive.fault
        /\ d.coil = [drive.coil EXCEPT ![Instr.coil] = Instr.on]
    BY <1>1, <2>1, WriteCoilFault, WriteCoilFrame
  <2> HIDE DEF d
  <2>3. drive'.fault = {}
    BY <1>2, <2>1, <2>2
  <2>4. \A c \in Coils : drive'.coil[c] = IF c = Instr.coil THEN Instr.on ELSE drive.coil[c]
    BY <1>1, <2>1, <2>2 DEF DriveSet
  <2>5. ServoIntact'
    <3>1. CASE Instr.coil = "SERVO_ON"
      <4>1. req.cmd = "GEMG" /\ step = 3
        BY <1>1, <1>4, <3>1, ReleaseInEmergencyOnly
      <4>2. Len(Program[req.cmd]) = 4
        BY <4>1, EmergencyProgram
      <4>3. pc' = "run" /\ step' = 4
        BY <1>1, <2>1, <4>1, <4>2 DEF Continue
      <4> QED BY <1>1, <4>1, <4>3 DEF ServoIntact
    <3>2. CASE Instr.coil # "SERVO_ON"
      <4>1. ~(req.cmd = "GEMG" /\ step = 4)
        BY <1>4, EmergencyProgram DEF Instr, SetStop
      <4>2. drive'.coil["SERVO_ON"] = drive.coil["SERVO_ON"]
        BY <1>3, <2>4, <3>2
      <4> QED BY <1>2, <4>1, <4>2 DEF ServoIntact, On
    <3> QED BY <3>1, <3>2
  <2>6. ASSUME NEW c \in C, drive'.coil[c]
        PROVE  pc' = "run" /\ Instr' = Coil(c, FALSE)
    <3>1. c = Instr.coil /\ Instr.on
      <4>1. CASE c = Instr.coil
        BY <1>3, <2>4, <2>6, <4>1
      <4>2. CASE c # Instr.coil
        <5>1. drive.coil[c]
          BY <1>3, <2>4, <2>6, <4>2
        <5>2. Instr = Coil(c, FALSE)
          BY <1>2, <5>1 DEF PulsesIntact
        <5> QED BY <4>2, <5>2 DEF Coil
      <4> QED BY <4>1, <4>2
    <3>2. pc' = "run" /\ Follows(Instr, Instr')
      BY <1>1, <1>4, <2>1, <3>1, HandlerContinues
    <3> QED BY <1>4, <3>1, <3>2 DEF Follows
  <2> QED BY <2>3, <2>5, <2>6 DEF PulsesIntact
<1>5. CASE Instr.op # "coil"
  <2>1. \A c \in C : ~drive.coil[c]
    BY <1>2, <1>5 DEF PulsesIntact, Coil
  <2>2. drive'.coil = drive.coil /\ drive'.fault = drive.fault
    <3>1. CASE Instr.op = "send"
      BY <1>1, <3>1, HandlerSucceeds DEF WriteRegister, DriveSet
    <3>2. CASE Instr.op = "ref"
      BY <1>1, <3>2, HandlerSucceeds DEF WritePosition, DriveSet
    <3>3. CASE Instr.op \notin {"coil", "send", "ref"}
      BY <3>3, HandlerSucceeds
    <3> QED BY <1>5, <3>1, <3>2, <3>3
  <2>3. ServoIntact'
    <3>1. CASE req.cmd = "GEMG" /\ step = 4
      <4>1. SetStopInstr
        BY <3>1, EmergencyProgram
        DEF HandlerStep, WriteCoilInstr, SendInstr, PutRefInstr, AimInstr, IfInpInstr,
            WaitInpInstr, ReportInstr, SetStopInstr, Running, SetStop
      <4> QED BY <4>1 DEF SetStopInstr
    <3>2. CASE ~(req.cmd = "GEMG" /\ step = 4)
      BY <1>2, <2>2, <3>2 DEF ServoIntact, On
    <3> QED BY <3>1, <3>2
  <2> QED BY <1>2, <2>1, <2>2, <2>3 DEF PulsesIntact
<1> QED BY <1>4, <1>5

\* START, with nothing in its way, begins the motion to dest, or is there already.
LEMMA ArrivalOfHandler ==
    ASSUME TypeOK, CourseInv, IntactInv, Intact, Sound, Sound', ~stop, HandlerStep
    PROVE  ArrivalIntact'
<1>1. /\ pc = "run" /\ UNCHANGED <<req, status>> /\ drive \in DriveSet
      /\ req.cmd \in Cmds /\ step \in 1..Len(Program[req.cmd])
      /\ UNCHANGED drive.pos
      /\ Instr.op # "aim" => UNCHANGED dest
  BY HandlerFrame DEF HandlerStep, TypeOK
<1>2. ServoIntact /\ PulsesIntact /\ ArrivalIntact /\ drive.fault = {}
  BY DEF IntactInv
<1> SUFFICES ASSUME status' = "LOCATING", ~drive'.busy
             PROVE  drive'.pos = dest' \/ Starting'
  BY DEF ArrivalIntact
<1>3. req.cmd = "GPOINT"
  BY <1>1 DEF CourseInv, HandlerStatus
<1>4. step \in 1..5
  BY <1>1, <1>3, PointProgram
<1>5. CASE step < 4
  <2>1. Continue => step' = step + 1 /\ pc' = "run"
    BY <1>1, <1>3, <1>4, <1>5, PointProgram DEF Continue
  <2>2. Continue \/ UNCHANGED <<pc, step>>
    BY HandlerSucceeds
  <2> QED BY <1>1, <1>3, <1>4, <1>5, <2>1, <2>2 DEF Starting
<1>6. CASE step = 4
  <2>1. Instr = Coil("START", TRUE)
    BY <1>3, <1>6, PointProgram DEF Instr
  <2>2. Instr.op = "coil" /\ Instr.coil = "START" /\ Instr.on /\ IsStart(Instr) /\ Heading
    BY <1>1, <1>3, <2>1 DEF Coil, IsStart, Heading, MotionCmds
  <2>3. drive' = WriteCoil(drive, "START", TRUE) /\ drive.ref = dest /\ UNCHANGED dest
    BY <1>1, <2>1, <2>2, HandlerSucceeds DEF CourseInv, Coil
  <2>4. ~drive.coil["START"] /\ CanRun(drive)
    <3>1. \A c \in {"PST_CANCEL", "EMG", "START"} : Instr # Coil(c, FALSE)
      BY <2>2 DEF Coil
    <3>2. \A c \in {"PST_CANCEL", "EMG", "START"} : ~drive.coil[c]
      BY <1>2, <3>1 DEF PulsesIntact
    <3>3. On
      BY <1>2, <1>3 DEF ServoIntact
    <3> QED BY <1>2, <3>2, <3>3 DEF CanRun, On
  <2>5. drive'.busy <=> drive.ref # drive.pos
    BY <1>1, <2>3, <2>4, WriteStart
  <2> QED BY <1>1, <2>3, <2>5
<1>7. CASE step = 5
  <2>1. Instr = Coil("START", FALSE)
    BY <1>3, <1>7, PointProgram DEF Instr
  <2>2. Instr.op = "coil" /\ Instr.coil = "START" /\ Instr.on = FALSE
    BY <2>1 DEF Coil
  <2>3. drive' = WriteCoil(drive, "START", FALSE) /\ UNCHANGED dest
    BY <1>1, <2>2, HandlerSucceeds
  <2>4. drive'.busy = drive.busy
    BY <1>1, <2>3, WriteStart
  <2>5. ~drive.busy /\ status = "LOCATING" /\ ~Starting
    BY <1>1, <1>7, <2>4 DEF Starting
  <2> QED BY <1>1, <1>2, <2>3, <2>5 DEF ArrivalIntact
<1> QED BY <1>4, <1>5, <1>6, <1>7

\* No instruction raises a fault.
LEMMA FaultsOfHandler ==
    ASSUME TypeOK, HandlerStep
    PROVE  drive'.fault \subseteq drive.fault
<1>1. Instr \in Instructions /\ drive \in DriveSet
  BY HandlerFrame DEF TypeOK
<1>2. CASE WriteCoilInstr
  <2> DEFINE d == WriteCoil(drive, Instr.coil, Instr.on)
  <2>1. Instr.coil \in Coils /\ Instr.on \in BOOLEAN
    BY <1>1, <1>2, InstructionFields DEF WriteCoilInstr, Running, Instr
  <2>2. d.fault \subseteq drive.fault
    BY <1>1, <2>1, WriteCoilFault
  <2>3. drive' = drive \/ drive' = d
    BY <1>2 DEF WriteCoilInstr, WriteDone, WriteFails
  <2> HIDE DEF d
  <2> QED BY <2>2, <2>3
<1>3. CASE SendInstr
  <2>1. \A r, v : WriteRegister(drive, r, v).fault = drive.fault
    BY <1>1 DEF WriteRegister, DriveSet
  <2>2. drive' = drive \/ \E r, v : drive' = WriteRegister(drive, r, v)
    BY <1>3 DEF SendInstr, WriteDone, WriteFails
  <2> QED BY <2>1, <2>2
<1>4. CASE PutRefInstr
  <2>1. WritePosition(drive, dest).fault = drive.fault
    BY <1>1 DEF WritePosition, DriveSet
  <2>2. drive' = drive \/ drive' = WritePosition(drive, dest)
    BY <1>4 DEF PutRefInstr, WriteDone, WriteFails
  <2> QED BY <2>1, <2>2
<1>5. CASE AimInstr \/ IfInpInstr \/ WaitInpInstr \/ ReportInstr \/ SetStopInstr
  BY <1>5 DEF AimInstr, IfInpInstr, WaitInpInstr, ReportInstr, SetStopInstr
<1> QED BY <1>2, <1>3, <1>4, <1>5 DEF HandlerStep

\* Faults are counted, never taken back: DriveFaults alone raises one.
LEMMA UpsetsGrow ==
    ASSUME TypeOK, [Next]_vars
    PROVE  UNCHANGED upsets \/ (DriveFaults /\ upsets' = upsets + 1)
<1>1. CASE \E m \in Requests : Refuse(m) \/ Accept(m)
  BY <1>1 DEF Refuse, Accept, Received
<1>2. CASE NothingReceived \/ HandlerStep
  BY <1>2 DEF NothingReceived, HandlerStep, WriteCoilInstr, SendInstr, PutRefInstr,
     AimInstr, IfInpInstr, WaitInpInstr, ReportInstr, SetStopInstr, env
<1>3. CASE PollInp \/ PollAlarm \/ LimitStep \/ WarningStep
  BY <1>3 DEF PollInp, PollAlarm, LimitStep, CheckLeftLimit, CheckRightLimit,
     ClearLeftLimit, ClearRightLimit, WarningStep, PollWarning, env
<1>4. CASE Beside
  BY <1>4 DEF Beside, MainThread, MainSeesStop, MainServeOff, MainCloses, MainReturns, DriveAdvances,
     DriveFaults, EncoderSamples, EncoderFreezes, ClientSends, Exited, vars, env
<1> QED BY <1>1, <1>2, <1>3, <1>4, StepKinds

\* What was intact at the end was intact before.
LEMMA IntactBefore ==
    ASSUME TypeOK, [Next]_vars, Intact'
    PROVE  Intact
<1>1. upsets \in Nat
  BY DEF TypeOK
<1> QED BY <1>1, UpsetsGrow, FailureFree DEF Intact

\* A drive without a fault trips none of the checks, and they say nothing of a point.
LEMMA SilentChecks ==
    ASSUME TypeOK, CourseInv, drive.fault = {}, PollAlarm \/ WarningStep
    PROVE  pc # "run" /\ UNCHANGED <<stop, dest, drive, status>> /\ reply' # "$B"
<1>1. CASE PollAlarm
  <2>1. pc = "alarm" /\ UNCHANGED <<stop, dest, drive>>
    BY <1>1 DEF PollAlarm, Poll
  <2>2. PICK alarm \in BOOLEAN :
           /\ Reads("ALRM_DETC" \in drive.fault, alarm)
           /\ LET mismatch == EncoderSlow /\ motor_zero_speed # 1 IN
              /\ status' = IF alarm \/ mismatch THEN "ERROOR" ELSE status
              /\ reply' = IF mismatch THEN "$F" ELSE ""
    BY <1>1 DEF PollAlarm
  <2>3. ~alarm
    BY <2>2 DEF Reads
  <2>4. motor_zero_speed = 1
    BY DEF motor_zero_speed
  <2>5. status' = status /\ reply' = ""
    BY <2>2, <2>3, <2>4
  <2> QED BY <2>1, <2>5
<1>2. CASE WarningStep
  <2>1. ASSUME NEW at \in {"data", "life"}, NEW next, NEW f, PollWarning(at, next, f)
        PROVE  /\ pc = at /\ UNCHANGED <<stop, dest, drive, reply>>
               /\ status' = status
    <3>1. pc = at /\ UNCHANGED <<stop, dest, drive, reply>>
      BY <2>1 DEF PollWarning, Poll
    <3>2. PICK on \in BOOLEAN : /\ Reads(f \in drive.fault, on)
                                /\ status' = IF on THEN "ERROOR" ELSE status
      BY <2>1 DEF PollWarning
    <3>3. ~on
      BY <3>2 DEF Reads
    <3> QED BY <3>1, <3>2, <3>3
  <2>2. pc \in {"data", "life"} /\ UNCHANGED <<stop, dest, drive, reply, status>>
    BY <1>2, <2>1 DEF WarningStep
  <2> QED BY <2>2 DEF CourseInv
<1> QED BY <1>1, <1>2

\* The over-travel inputs are the only thing the check of the limits writes.
LEMMA LimitFrame ==
    ASSUME TypeOK, CourseInv, LimitStep
    PROVE  /\ pc # "run" /\ UNCHANGED <<stop, dest, status, reply>> /\ reply # "$B"
           /\ UNCHANGED <<drive.busy, drive.pos, drive.fault>>
           /\ \A c \in {"SERVO_ON", "PST_CANCEL", "EMG", "START"} : drive'.coil[c] = drive.coil[c]
<1> DEFINE Held == {"SERVO_ON", "PST_CANCEL", "EMG", "START"}
<1>1. /\ pc \in {"ot", "ot2"} /\ UNCHANGED <<stop, dest, status, reply>>
      /\ \E c \in {"OT_PLUS", "OT_MINUS"}, on \in BOOLEAN : SetCont(c, on)
  BY DEF LimitStep, CheckLeftLimit, CheckRightLimit, ClearLeftLimit,
     ClearRightLimit, Poll, shared
<1>2. PICK c \in {"OT_PLUS", "OT_MINUS"}, on \in BOOLEAN : SetCont(c, on)
  BY <1>1
<1> DEFINE d == WriteCoil(drive, c, on)
<1>3. drive \in DriveSet
  BY DEF TypeOK
<1>4. /\ d.busy = drive.busy /\ d.fault = drive.fault
      /\ \A e \in Coils \ {c} : d.coil[e] = drive.coil[e]
  BY <1>3, WriteOvertravel
<1>5. c \in Coils /\ c # "PST_PRESET" /\ Held \subseteq Coils \ {c}
  BY DEF Coils
<1>6. d.pos = drive.pos
  BY <1>3, <1>5, WriteCoilFrame
<1>7. drive' = drive \/ drive' = d
  BY <1>2 DEF SetCont, WriteDone, WriteFails
<1> HIDE DEF d, Held
<1>8. UNCHANGED <<drive.busy, drive.pos, drive.fault>>
  BY <1>4, <1>6, <1>7
<1>9. \A e \in Held : drive'.coil[e] = drive.coil[e]
  BY <1>4, <1>5, <1>7
<1> QED BY <1>1, <1>8, <1>9 DEF Held, CourseInv

\* The checks that end every turn see no fault, and report a point at its destination.
LEMMA IntactOfChecks ==
    ASSUME TypeOK, CourseInv, IntactInv, Intact, PollInp \/ PollAlarm \/ LimitStep \/ WarningStep
    PROVE  IntactInv'
<1>1. /\ StatusIntact /\ drive.fault = {}
      /\ ~stop => ServoIntact /\ PulsesIntact /\ ArrivalIntact /\ ReportIntact
      /\ drive \in DriveSet
  BY DEF IntactInv, TypeOK
<1>2. CASE PollInp
  <2>1. /\ pc = "inp" /\ UNCHANGED <<stop, dest, drive>>
    BY <1>2 DEF PollInp, Poll
  <2>2. PICK on \in BOOLEAN :
           /\ Reads(InPosition(drive), on)
           /\ status' = IF on THEN AfterInp(status) ELSE status
           /\ reply' = IF on /\ status = "LOCATING" THEN "$B" ELSE ""
    BY <1>2 DEF PollInp
  <2>3. StatusIntact'
    BY <1>1, <2>2 DEF StatusIntact, AfterInp, PhaseOf
  <2>4. status' = "LOCATING" => status = "LOCATING"
    BY <2>2 DEF AfterInp
  <2>5. reply' = "$B" => ~drive.busy /\ status = "LOCATING"
    BY <2>2 DEF Reads, InPosition
  <2>6. ~stop /\ status = "LOCATING" /\ ~drive.busy => drive.pos = dest
    BY <1>1, <2>1 DEF ArrivalIntact, Starting
  <2>7. ~stop => ArrivalIntact' /\ ReportIntact'
    BY <2>1, <2>4, <2>5, <2>6 DEF ArrivalIntact, ReportIntact
  <2> QED BY <1>1, <2>1, <2>3, <2>7, IntactKept
\* None of the other checks touches what ArrivalIntact is about.
<1>3. ASSUME pc # "run", UNCHANGED <<stop, dest, status, drive.busy, drive.pos>>,
             reply' # "$B", drive'.fault = {},
             \A c \in {"SERVO_ON", "PST_CANCEL", "EMG", "START"} :
                drive'.coil[c] = drive.coil[c]
      PROVE  IntactInv'
  <2>1. StatusIntact' /\ (~stop => ArrivalIntact' /\ ReportIntact')
    BY <1>1, <1>3 DEF StatusIntact, ArrivalIntact, ReportIntact, Starting
  <2> QED BY <1>3, <2>1, IntactKept
<1>4. CASE PollAlarm \/ WarningStep
  <2>1. pc # "run" /\ UNCHANGED <<stop, dest, drive, status>> /\ reply' # "$B"
    BY <1>1, <1>4, SilentChecks
  <2> QED BY <1>1, <1>3, <2>1
<1>5. CASE LimitStep
  <2>1. /\ pc # "run" /\ UNCHANGED <<stop, dest, status, reply>> /\ reply # "$B"
        /\ UNCHANGED <<drive.busy, drive.pos, drive.fault>>
        /\ \A c \in {"SERVO_ON", "PST_CANCEL", "EMG", "START"} : drive'.coil[c] = drive.coil[c]
    BY <1>5, LimitFrame
  <2> QED BY <1>1, <1>3, <2>1
<1> QED BY <1>2, <1>4, <1>5

\* A command received finds no pulse on a coil and says nothing of a point.
LEMMA IntactOfReceipt ==
    ASSUME TypeOK, CourseInv, IntactInv, Intact, NEW m \in Requests, Refuse(m) \/ Accept(m)
    PROVE  IntactInv'
<1>1. /\ StatusIntact /\ drive.fault = {} /\ (~stop => ArrivalIntact)
      /\ pc = "recv" /\ UNCHANGED <<stop, dest, drive>>
  BY DEF IntactInv, Refuse, Accept, Received
<1>2. CASE Refuse(m)
  <2>1. UNCHANGED status /\ reply' = "$D"
    BY <1>2 DEF Refuse
  <2>2. StatusIntact' /\ (~stop => ArrivalIntact' /\ ReportIntact')
    BY <1>1, <2>1 DEF StatusIntact, ArrivalIntact, ReportIntact, Starting
  <2> QED BY <1>1, <2>2, IntactKept
<1>3. CASE Accept(m)
  <2> DEFINE c == req'.cmd
  <2>1. status' = StatusOn(c) /\ reply' = ReplyOn(c)
    BY <1>3 DEF Accept, Received
  <2>2. step' = 1 /\ pc' = IF Program[c] = <<>> THEN "inp" ELSE "run"
    BY <1>3, HandlerBegins
  <2>3. StatusIntact'
    BY <1>1, <2>1 DEF StatusIntact, StatusOn, PhaseOf
  <2>4. ReportIntact'
    BY <2>1 DEF ReportIntact, ReplyOn
  <2>5. ~stop => ArrivalIntact'
    <3>1. CASE c = "GPOINT"
      <4>1. Len(Program["GPOINT"]) = 5
        BY PointProgram
      <4>2. pc' = "run"
        BY <2>2, <3>1, <4>1
      <4> QED BY <2>2, <3>1, <4>2 DEF ArrivalIntact, Starting
    <3>2. CASE c # "GPOINT"
      <4>1. status' = "LOCATING" => status = "LOCATING"
        BY <2>1, <3>2 DEF StatusOn
      <4> QED BY <1>1, <4>1 DEF ArrivalIntact, Starting
    <3> QED BY <3>1, <3>2
  <2> QED BY <1>1, <2>3, <2>4, <2>5, IntactKept
<1> QED BY <1>2, <1>3

\* A motion of the drive ends on its target, which is dest.
LEMMA IntactOfBeside ==
    ASSUME TypeOK, CourseInv, ReleaseInv, IntactInv, Intact, Intact', Beside
    PROVE  IntactInv'
<1>1. /\ StatusIntact /\ drive.fault = {} /\ (~stop => ArrivalIntact /\ ReportIntact)
      /\ drive \in DriveSet
  BY DEF IntactInv, TypeOK
<1>2. UNCHANGED <<pc, req, step, reply, peer, status, stop, limit, dest, cruise>>
  BY BesideFrame
<1>3. StatusIntact'
  BY <1>1, <1>2 DEF StatusIntact
<1>4. CASE MainServeOff
  <2>1. stop
    BY <1>4 DEF MainServeOff, ReleaseInv
  <2> DEFINE d == WriteCoil(drive, "SERVO_ON", FALSE)
  <2>2. d.fault \subseteq drive.fault
    BY <1>1, WriteCoilFault DEF Coils
  <2>3. drive' = drive \/ drive' = d
    BY <1>4 DEF MainServeOff, SetCont, WriteDone, WriteFails
  <2> HIDE DEF d
  <2>4. drive'.fault = {}
    BY <1>1, <2>2, <2>3
  <2> QED BY <1>2, <1>3, <2>1, <2>4, IntactKept
<1>5. CASE DriveAdvances
  <2>1. drive.busy /\ drive' = Advanced(drive) /\ drive.target = dest /\ drive.pos # drive.target
    BY <1>5 DEF DriveAdvances, CanAdvance, CourseInv
  <2>2. /\ drive'.coil = drive.coil /\ drive'.fault = drive.fault
        /\ drive'.busy <=> drive'.pos # dest
    BY <1>1, <2>1, AdvancedFrame
  <2>3. ~stop => ArrivalIntact' /\ ReportIntact'
    BY <1>1, <1>2, <2>1, <2>2 DEF ArrivalIntact, ReportIntact
  <2> QED BY <1>1, <1>2, <1>3, <2>2, <2>3, IntactKept
<1>6. CASE DriveFaults
  <2>1. upsets \in Nat /\ upsets = 0 /\ upsets' = upsets + 1
    BY <1>6 DEF DriveFaults, Intact, TypeOK
  <2> QED BY <2>1 DEF Intact
<1>7. CASE UNCHANGED drive
  <2>1. ~stop => ArrivalIntact' /\ ReportIntact'
    BY <1>1, <1>2, <1>7 DEF ArrivalIntact, ReportIntact, Starting
  <2> QED BY <1>1, <1>2, <1>3, <1>7, <2>1, IntactKept
<1>8. MainServeOff \/ DriveAdvances \/ DriveFaults \/ UNCHANGED drive
  BY DEF Beside, MainThread, MainSeesStop, MainCloses, MainReturns, EncoderSamples, EncoderFreezes,
     ClientSends, Exited, vars
<1> QED BY <1>4, <1>5, <1>6, <1>7, <1>8

\* As long as nothing fails, the daemon, its line and its drive agree.
LEMMA StaysIntact == Spec => []IntactInv
<1>1. Init => IntactInv
  <2>1. /\ InitialDrive.coil = [c \in Coils |-> c = "SERVO_ON"]
        /\ InitialDrive.fault = {}
    BY DEF InitialDrive
  <2>2. Init => /\ pc = "recv" /\ drive = InitialDrive /\ reply = "" /\ status = "INITLIZING"
    BY Zenon DEF Init
  <2>3. /\ "SERVO_ON" \in Coils
        /\ \A c \in {"PST_CANCEL", "EMG", "START"} : c \in Coils /\ c # "SERVO_ON"
    BY DEF Coils
  <2>4. /\ InitialDrive.coil["SERVO_ON"]
        /\ \A c \in {"PST_CANCEL", "EMG", "START"} : ~InitialDrive.coil[c]
    BY <2>1, <2>3
  <2> QED
    BY <2>1, <2>2, <2>4 DEF IntactInv, StatusIntact, PhaseOf, ServoIntact, PulsesIntact,
       ArrivalIntact, ReportIntact, On
<1>2. TypeOK /\ CourseInv /\ ReleaseInv /\ IntactInv /\ [Next]_vars => IntactInv'
  <2> SUFFICES ASSUME TypeOK, CourseInv, ReleaseInv, IntactInv, [Next]_vars, Intact'
               PROVE  IntactInv'
    BY DEF IntactInv
  <2>0. Intact
    BY IntactBefore
  <2>1. ASSUME NEW m \in Requests, Refuse(m) \/ Accept(m) PROVE IntactInv'
    BY <2>0, <2>1, IntactOfReceipt
  <2>2. CASE NothingReceived
    <3>1. /\ pc = "recv" /\ pc' = "inp" /\ UNCHANGED <<status, stop, dest, drive, reply>>
      BY <2>2 DEF NothingReceived, shared
    <3>2. /\ StatusIntact /\ drive.fault = {} /\ (~stop => ArrivalIntact /\ ReportIntact)
      BY <2>0 DEF IntactInv
    <3>3. StatusIntact' /\ (~stop => ArrivalIntact' /\ ReportIntact')
      BY <3>1, <3>2 DEF StatusIntact, ArrivalIntact, ReportIntact, Starting
    <3> QED BY <2>0, <3>1, <3>2, <3>3, IntactKept
  <2>3. CASE HandlerStep
    <3>1. StatusIntact'
      BY <2>0, <2>3, HandlerFrame DEF IntactInv, StatusIntact
    <3>2. drive'.fault = {}
      BY <2>0, <2>3, FaultsOfHandler DEF IntactInv
    <3>3. ASSUME ~stop'
          PROVE  ServoIntact' /\ PulsesIntact' /\ ArrivalIntact' /\ ReportIntact'
      <4>1. ~stop
        BY <2>3, <3>3 DEF HandlerStep, WriteCoilInstr, SendInstr, PutRefInstr, AimInstr,
           IfInpInstr, WaitInpInstr, ReportInstr, SetStopInstr, shared
      <4>2. Sound /\ Sound'
        <5>1. mpc = "loop" /\ UNCHANGED mpc
          BY <2>3, <4>1, HandlerFrame DEF ReleaseInv
        <5> QED BY <2>0, <5>1 DEF Sound, Intact, LineOpen
      <4>3. ReportIntact'
        <5>1. pc = "run" /\ (reply' = reply \/ reply' = "$E")
          BY <2>3, HandlerFrame DEF HandlerStep
        <5> QED BY <5>1 DEF CourseInv, ReportIntact
      <4> QED BY <2>0, <2>3, <3>3, <4>1, <4>2, <4>3, PulsesOfHandler, ArrivalOfHandler
    <3> QED BY <3>1, <3>2, <3>3 DEF IntactInv
  <2>4. CASE PollInp \/ PollAlarm \/ LimitStep \/ WarningStep
    BY <2>0, <2>4, IntactOfChecks
  <2>5. CASE Beside
    BY <2>0, <2>5, IntactOfBeside
  <2> QED BY <2>1, <2>2, <2>3, <2>4, <2>5, StepKinds
<1> QED BY <1>1, <1>2, TypeCorrect, Course, ReleaseTracked, PTL DEF Spec

\* A point is reported as done with the axis at its destination.
THEOREM DoneIsArrived == Spec => []DoneMeansArrived
<1>1. IntactInv => DoneMeansArrived
  BY DEF IntactInv, DoneMeansArrived, ReportIntact
<1> QED BY <1>1, StaysIntact, PTL

\* Once the servo was released by a stop, no step of any actor begins a motion.
THEOREM StoppedForGood == Spec => NoMotionAfterStop
<1>1. TypeOK /\ ReleaseInv /\ [Next]_vars
        => [stop /\ fails = 0 /\ InPosition(drive) => InPosition(drive')]_vars
  <2> SUFFICES ASSUME TypeOK, ReleaseInv, [Next]_vars, stop, fails = 0, ~drive.busy
               PROVE  ~drive'.busy
    BY DEF InPosition
  <2>1. ~drive.coil["SERVO_ON"]
    BY DEF ReleaseInv, On
  <2>2. CASE HandlerStep
    BY <2>1, <2>2, HandlerFrame
  <2>3. CASE LimitStep
    <3>1. \E c \in {"OT_PLUS", "OT_MINUS"}, on \in BOOLEAN : SetCont(c, on)
      BY <2>3 DEF LimitStep, CheckLeftLimit, CheckRightLimit, ClearLeftLimit,
         ClearRightLimit
    <3>2. {"OT_PLUS", "OT_MINUS"} \subseteq Coils \ {"START", "PST_PRESET"}
      BY DEF Coils
    <3> QED BY <3>1, <3>2, CoilWritten DEF SetCont
  <2>4. CASE Beside
    BY <2>4, BesideFrame
  <2>5. CASE \/ \E m \in Requests : Refuse(m) \/ Accept(m)
             \/ NothingReceived \/ PollInp \/ PollAlarm \/ WarningStep
    BY <2>5 DEF Refuse, Accept, Received, NothingReceived, PollInp, PollAlarm, WarningStep,
       PollWarning
  <2> QED BY <2>2, <2>3, <2>4, <2>5, StepKinds
<1> QED BY <1>1, TypeCorrect, ReleaseTracked, PTL DEF Spec, NoMotionAfterStop

-----------------------------------------------------------------------------
(* The service the clients see *)

Phase    == IF stop THEN "released" ELSE PhaseOf[status]
Reported == reply = "$B" /\ ~stop

\* The actions of AxisService in the terms of the daemon.
LEMMA ServiceActions ==
    /\ /\ Phase = "idle" /\ Phase' \in {"locating", "turning"}
       /\ ~Reported' /\ dest' \in Int /\ UNCHANGED drive.pos
       => Service!Next
    /\ /\ Phase \in {"locating", "turning", "released"} /\ dest' \in Int
       /\ UNCHANGED <<Phase, drive.pos, Reported>>
       => Service!Next
    /\ /\ Phase \in {"locating", "turning", "stopping"} /\ drive.pos # dest
       /\ drive'.pos = IF drive.pos < dest THEN drive.pos + 1 ELSE drive.pos - 1
       /\ UNCHANGED <<Phase, dest, Reported>>
       => Service!Next
    /\ /\ Phase = "locating" /\ drive.pos = dest /\ Phase' = "idle" /\ Reported'
       /\ UNCHANGED <<drive.pos, dest>>
       => Service!Next
    /\ /\ Phase \in {"starting", "turning", "stopping"} /\ Phase' = "idle" /\ ~Reported'
       /\ UNCHANGED <<drive.pos, dest>>
       => Service!Next
    /\ /\ Phase \in {"idle", "locating", "turning"} /\ Phase' = "stopping" /\ ~Reported'
       /\ UNCHANGED <<drive.pos, dest>>
       => Service!Next
    /\ Reported /\ ~Reported' /\ UNCHANGED <<Phase, drive.pos, dest>> => Service!Next
    /\ /\ Phase = "stopping" /\ Phase' = "released" /\ ~Reported'
       /\ UNCHANGED <<drive.pos, dest>>
       => Service!Next
    /\ UNCHANGED <<Phase, drive.pos, dest, Reported>> => UNCHANGED Service!vars
BY DEF Phase, Reported, Service!Next, Service!Begin, Service!Choose, Service!Travel,
   Service!Arrive, Service!Settle, Service!Interrupt, Service!Acknowledge,
   Service!Release, Service!vars

\* What leaves status, stop, dest and the axis alone, and says nothing of a point, is
\* invisible unless it ends such a message.
LEMMA ServiceIdles ==
    ASSUME UNCHANGED <<status, stop, dest, drive.pos>>, reply' = "$B" => reply = "$B"
    PROVE  Service!Next \/ UNCHANGED Service!vars
<1>1. UNCHANGED Phase /\ (Reported' => Reported)
  BY DEF Phase, Reported
<1>2. CASE Reported /\ ~Reported'
  BY <1>1, <1>2, ServiceActions
<1>3. CASE UNCHANGED Reported
  BY <1>1, <1>3, ServiceActions
<1>4. Reported \in BOOLEAN /\ Reported' \in BOOLEAN
  BY DEF Reported
<1> QED BY <1>1, <1>2, <1>3, <1>4

\* The commands: a motion is begun from FREE, a cancel or a stop interrupts it.
LEMMA ServiceOfReceipt ==
    ASSUME TypeOK, TypeOK', CourseInv, IntactInv, Intact,
           NEW m \in Requests, Refuse(m) \/ Accept(m)
    PROVE  Service!Next \/ UNCHANGED Service!vars
<1>1. /\ pc = "recv" /\ UNCHANGED <<stop, dest, drive>> /\ reply # "$B"
      /\ StatusIntact /\ dest' \in Int
  BY DEF Refuse, Accept, Received, CourseInv, IntactInv, TypeOK
<1>2. CASE Refuse(m)
  BY <1>1, <1>2, ServiceIdles DEF Refuse
<1>3. CASE Accept(m)
  <2> DEFINE c == req'.cmd
  <2>1. Admitted(c) /\ status' = StatusOn(c) /\ reply' = ReplyOn(c)
    BY <1>3 DEF Accept, Received
  <2>2. reply' # "$B"
    BY <2>1 DEF ReplyOn
  <2>3. CASE UNCHANGED status \/ stop
    <3>1. UNCHANGED <<Phase, Reported>>
      BY <1>1, <2>2, <2>3 DEF Phase, Reported
    <3> QED BY <1>1, <3>1, ServiceActions
  <2>4. CASE status' # status /\ ~stop
    <3>1. status \in {"FREE", "LOCATING", "LEFTORRIGHT", "STOPING"}
      BY <1>1, <2>1 DEF Admitted, NotReady, StatusIntact, PhaseOf
    <3>2. Phase = PhaseOf[status] /\ Phase' = PhaseOf[status'] /\ ~Reported'
      BY <1>1, <2>2, <2>4 DEF Phase, Reported
    <3>3. CASE c \in {"GPST_CANCEL", "GEMG"}
      <4>1. Phase \in {"idle", "locating", "turning"} /\ Phase' = "stopping"
        BY <2>1, <2>4, <3>1, <3>2, <3>3 DEF StatusOn, PhaseOf
      <4> QED BY <1>1, <3>2, <4>1, ServiceActions
    <3>4. CASE c \in {"GPOINT", "GLEFT", "GRIGHT", "GCHECK"}
      <4>1. status = "FREE"
        BY <2>1, <3>4 DEF Admitted, NeedsFree
      <4>2. Phase = "idle" /\ Phase' \in {"locating", "turning"}
        BY <2>1, <3>2, <3>4, <4>1 DEF StatusOn, PhaseOf
      <4> QED BY <1>1, <3>2, <4>2, ServiceActions
    <3> QED BY <2>1, <2>4, <3>3, <3>4 DEF StatusOn
  <2> QED BY <2>3, <2>4
<1> QED BY <1>2, <1>3

\* The instructions: a leg gets its goal, the end of a stop releases the axis.
LEMMA ServiceOfHandler ==
    ASSUME TypeOK, TypeOK', CourseInv, HandlerStep
    PROVE  Service!Next \/ UNCHANGED Service!vars
<1>1. /\ pc = "run" /\ reply # "$B" /\ reply' # "$B" /\ UNCHANGED <<status, drive.pos>>
      /\ status = HandlerStatus(req.cmd) /\ dest' \in Int
  <2>1. pc = "run" /\ reply # "$B" /\ status = HandlerStatus(req.cmd)
    BY DEF HandlerStep, CourseInv
  <2>2. UNCHANGED <<status, drive.pos>> /\ (reply' = reply \/ reply' = "$E")
    BY HandlerFrame
  <2> QED BY <2>1, <2>2 DEF TypeOK
<1>2. ~Reported /\ ~Reported' /\ UNCHANGED Reported
  BY <1>1 DEF Reported
<1>3. CASE AimInstr
  <2>1. UNCHANGED stop /\ Heading
    <3>1. Instr.op = "aim"
      BY <1>3 DEF AimInstr, Running, Instr
    <3> QED BY <1>1, <1>3, <3>1, MotionOnly DEF AimInstr, Heading
  <2>2. UNCHANGED Phase /\ Phase \in {"locating", "turning", "released"}
    BY <1>1, <2>1 DEF Phase, Heading, MotionCmds, HandlerStatus, PhaseOf
  <2> QED BY <1>1, <1>2, <2>2, ServiceActions
<1>4. CASE SetStopInstr
  <2>1. stop' = TRUE /\ UNCHANGED dest
    BY <1>4 DEF SetStopInstr
  <2>2. req.cmd = "GEMG"
    <3>1. Instr.op = "set_stop"
      BY <1>4 DEF SetStopInstr, Running, Instr
    <3> QED BY <1>1, <3>1, ReleaseInEmergencyOnly
  <2>3. Phase' = "released" /\ Phase \in {"stopping", "released"}
    BY <1>1, <2>1, <2>2 DEF Phase, HandlerStatus, PhaseOf
  <2>4. CASE Phase = "stopping"
    BY <1>1, <1>2, <2>1, <2>3, <2>4, ServiceActions
  <2>5. CASE UNCHANGED Phase
    BY <1>1, <1>2, <2>1, <2>5, ServiceActions
  <2> QED BY <2>3, <2>4, <2>5
<1>5. CASE WriteCoilInstr \/ SendInstr \/ PutRefInstr \/ IfInpInstr \/ WaitInpInstr \/ ReportInstr
  <2>1. UNCHANGED <<stop, dest>>
    BY <1>5 DEF WriteCoilInstr, SendInstr, PutRefInstr, IfInpInstr, WaitInpInstr,
       ReportInstr, shared
  <2> QED BY <1>1, <2>1, ServiceIdles
<1> QED BY <1>3, <1>4, <1>5 DEF HandlerStep

\* The check for INP ends a motion, a point at its destination.
LEMMA ServiceOfInp ==
    ASSUME TypeOK, CourseInv, IntactInv, Intact, PollInp
    PROVE  Service!Next \/ UNCHANGED Service!vars
<1>1. /\ pc = "inp" /\ UNCHANGED <<stop, dest, drive>> /\ reply # "$B"
      /\ StatusIntact /\ (~stop => ArrivalIntact)
  BY DEF PollInp, Poll, CourseInv, IntactInv
<1>2. PICK on \in BOOLEAN :
         /\ Reads(InPosition(drive), on)
         /\ status' = IF on THEN AfterInp(status) ELSE status
         /\ reply' = IF on /\ status = "LOCATING" THEN "$B" ELSE ""
  BY DEF PollInp
<1>3. CASE ~on
  <2>1. UNCHANGED status /\ reply' = ""
    BY <1>2, <1>3
  <2> QED BY <1>1, <2>1, ServiceIdles
<1>4. CASE on /\ stop
  <2>1. UNCHANGED <<Phase, Reported>>
    BY <1>1, <1>4 DEF Phase, Reported
  <2> QED BY <1>1, <2>1, ServiceActions
<1>5. CASE on /\ ~stop
  <2>1. ~drive.busy /\ status' = "FREE"
    BY <1>2, <1>5 DEF Reads, InPosition, AfterInp
  <2>2. Phase = PhaseOf[status] /\ Phase' = "idle"
    BY <1>1, <1>5, <2>1 DEF Phase, PhaseOf
  <2>3. CASE status = "LOCATING"
    <3>1. drive.pos = dest /\ Reported'
      BY <1>1, <1>2, <1>5, <2>1, <2>3 DEF ArrivalIntact, Starting, Reported
    <3>2. Phase = "locating"
      BY <2>2, <2>3 DEF PhaseOf
    <3> QED BY <1>1, <2>2, <3>1, <3>2, ServiceActions
  <2>4. CASE status = "FREE"
    <3>1. UNCHANGED status /\ reply' = ""
      BY <1>2, <2>1, <2>4
    <3> QED BY <1>1, <3>1, ServiceIdles
  <2>5. CASE status \in {"INITLIZING", "LEFTORRIGHT", "STOPING"}
    <3>1. ~Reported'
      BY <1>2, <2>5 DEF Reported
    <3>2. Phase \in {"starting", "turning", "stopping"}
      BY <2>2, <2>5 DEF PhaseOf
    <3> QED BY <1>1, <2>2, <3>1, <3>2, ServiceActions
  <2> QED BY <1>1, <2>3, <2>4, <2>5 DEF StatusIntact, PhaseOf
<1> QED BY <1>3, <1>4, <1>5

\* The drive travels towards the goal of a motion that was announced, while it is on.
LEMMA ServiceOfDrive ==
    ASSUME TypeOK, CourseInv, FreeMeansStandstill, IntactInv, ReleaseInv, Intact,
           DriveAdvances
    PROVE  Service!Next
<1>1. /\ drive.busy /\ CanRun(drive) /\ drive' = Advanced(drive) /\ drive \in DriveSet
      /\ UNCHANGED <<status, stop, dest, reply>>
  BY DEF DriveAdvances, CanAdvance, TypeOK, thread, shared
<1>2. drive.target = dest /\ drive.pos # dest /\ status \notin {"NONE", "INITLIZING", "FREE"}
  BY <1>1 DEF CourseInv, FreeMeansStandstill, InPosition
<1>3. ~stop
  BY <1>1 DEF CanRun, ReleaseInv, Intact, On
<1>4. Phase \in {"locating", "turning", "stopping"}
  BY <1>2, <1>3 DEF Phase, IntactInv, StatusIntact, PhaseOf
<1>5. drive'.pos = IF drive.pos < dest THEN drive.pos + 1 ELSE drive.pos - 1
  BY <1>1, <1>2, AdvancedFrame
<1>6. UNCHANGED <<Phase, Reported>>
  BY <1>1 DEF Phase, Reported
<1> QED BY <1>1, <1>2, <1>4, <1>5, <1>6, ServiceActions

\* Every step of the daemon, its drive and its clients that ends without a failure or a
\* fault is a step of the service or invisible to it.
LEMMA ServiceStep ==
    ASSUME TypeOK, TypeOK', FreeMeansStandstill, CourseInv, ReleaseInv, IntactInv,
           [Next]_vars, Intact'
    PROVE  Service!Next \/ UNCHANGED Service!vars
<1>1. Intact /\ drive.fault = {}
  BY IntactBefore DEF IntactInv
<1>2. ASSUME NEW m \in Requests, Refuse(m) \/ Accept(m)
      PROVE  Service!Next \/ UNCHANGED Service!vars
  BY <1>1, <1>2, ServiceOfReceipt
<1>3. CASE NothingReceived
  BY <1>3, ServiceIdles DEF NothingReceived, shared
<1>4. CASE HandlerStep
  BY <1>4, ServiceOfHandler
<1>5. CASE PollInp
  BY <1>1, <1>5, ServiceOfInp
<1>6. CASE PollAlarm \/ WarningStep
  <2>1. UNCHANGED <<stop, dest, drive, status>> /\ reply' # "$B"
    BY <1>1, <1>6, SilentChecks
  <2> QED BY <2>1, ServiceIdles
<1>7. CASE LimitStep
  <2>1. UNCHANGED <<stop, dest, status, reply, drive.pos>>
    BY <1>7, LimitFrame
  <2> QED BY <2>1, ServiceIdles
<1>8. CASE Beside
  <2>1. CASE DriveAdvances
    BY <1>1, <2>1, ServiceOfDrive
  <2>2. CASE ~DriveAdvances
    <3>1. UNCHANGED <<stop, dest, status, reply, drive.pos>>
      BY <1>8, <2>2, BesideFrame
    <3> QED BY <3>1, ServiceIdles
  <2> QED BY <2>1, <2>2
<1> QED BY <1>2, <1>3, <1>4, <1>5, <1>6, <1>7, <1>8, StepKinds

\* The daemon implements AxisService for as long as no transaction fails and the
\* amplifier raises no fault: the first state is one of the service, and every step that
\* ends intact is a step of the service or a stutter.
THEOREM ServesWhileIntact ==
    Spec => Service!Init /\ [][Intact' => Service!Next]_(Service!vars)
<1>1. Init => Service!Init
  <2>1. InitialDrive.pos = 0
    BY DEF InitialDrive
  <2>2. Init => /\ status = "INITLIZING" /\ stop = FALSE /\ drive = InitialDrive /\ dest = 0
                /\ reply # "$B"
    BY Zenon DEF Init
  <2> QED BY <2>1, <2>2 DEF Service!Init, PhaseOf
<1>2. /\ TypeOK /\ TypeOK' /\ FreeMeansStandstill /\ CourseInv /\ ReleaseInv /\ IntactInv
      /\ [Next]_vars
      => [Intact' => Service!Next]_(Service!vars)
  BY ServiceStep
<1> QED
  BY <1>1, <1>2, TypeCorrect, FreeIsStandstill, Course, ReleaseTracked, StaysIntact, PTL
  DEF Spec

\* With a line and an amplifier that never fail, the safety half of ImplementsService
\* holds without any condition.
THEOREM ServesTheAxis ==
    ASSUME MaxFails = 0, MaxUpsets = 0
    PROVE  Spec => Service!Init /\ [][Service!Next]_(Service!vars)
<1>1. Init => Intact
  BY DEF Init, Intact
<1>2. TypeOK /\ Intact /\ [Next]_vars => Intact'
  <2> SUFFICES ASSUME TypeOK, Intact, [Next]_vars
               PROVE  Intact'
    OBVIOUS
  <2>1. fails' = 0
    BY FailuresGrow DEF Intact, LineFails, LineOpen, TypeOK
  <2>2. ~DriveFaults
    BY DEF DriveFaults, Intact
  <2> QED BY <2>1, <2>2, UpsetsGrow DEF Intact
<1>3. Spec => []Intact
  BY <1>1, <1>2, TypeCorrect, PTL DEF Spec
<1> QED BY <1>3, ServesWhileIntact, PTL DEF Spec

=============================================================================
