------------------------------- MODULE Drive -------------------------------
(***************************************************************************)
(* The ALPHA servo amplifier at the far end of the Modbus line, as far as  *)
(* the daemon uses it: coils it writes, discrete outputs it reads, three   *)
(* motion-profile registers and the position register of the "immediate    *)
(* value" operation.  The amplifier is not in the repository; this is what *)
(* alpha_setting.h and the callers in src/Motor-Servo take it to do.       *)
(*                                                                         *)
(* A drive is a record, and every operator maps a drive to a drive, so the *)
(* processes that share the line compose with it by plain assignment.      *)
(***************************************************************************)
EXTENDS Integers

\* CONT (input) coils written by the daemon.
Coils == {"SERVO_ON", "START", "PST_CANCEL", "EMG", "RST", "OT_PLUS", "OT_MINUS",
          "PST_PRESET", "DEVIATION_CLR"}

\* Registers of the immediate value: speed, acceleration and deceleration time.
Registers == {"SPEED", "ACC_TIM", "DEC_TIM"}

\* OUT signals that latch until the amplifier is reset.
Faults == {"ALRM_DETC", "DATA_ERROR", "LIFE_WRNING"}

DriveSet ==
    [coil    : [Coils -> BOOLEAN],
     reg     : [Registers -> Int],
     ref     : Int,            \* IMME_VLU_POSITION: where the next START goes
     target  : Int,            \* where the motion under way goes
     pos     : Int,            \* the motor shaft, in units of the output axis
     busy    : BOOLEAN,        \* a positioning is outstanding
     fault   : SUBSET Faults]

\* INP: no positioning outstanding.
InPosition(d) == ~d.busy

\* START is obeyed only by an enabled, healthy drive that nothing holds back.
CanRun(d) == /\ d.coil["SERVO_ON"]
             /\ ~d.coil["PST_CANCEL"]
             /\ ~d.coil["EMG"]
             /\ "ALRM_DETC" \notin d.fault

\* START, PST_CANCEL, EMG, RST and PST_PRESET act on their ON edge, SERVO_ON on its
\* OFF edge; the over-travel inputs are levels.  PST_PRESET makes the position of the
\* shaft the zero of the drive's coordinates.
Started(d)  == IF CanRun(d) THEN [d EXCEPT !.busy = (d.ref # d.pos), !.target = d.ref]
                            ELSE d
Halted(d)   == [d EXCEPT !.busy = FALSE]
Cleared(d)  == [d EXCEPT !.busy = FALSE, !.fault = @ \ {"ALRM_DETC"}]
Preset(d)   == [d EXCEPT !.pos = 0]

WriteCoil(d, c, on) ==
    LET w == [d EXCEPT !.coil[c] = on]
        rising  == on /\ ~d.coil[c]
        falling == ~on /\ d.coil[c]
    IN  IF rising /\ c = "START" THEN Started(w)
        ELSE IF \/ rising /\ c \in {"PST_CANCEL", "EMG"}
                \/ falling /\ c = "SERVO_ON" THEN Halted(w)
        ELSE IF rising /\ c = "RST" THEN Cleared(w)
        ELSE IF rising /\ c = "PST_PRESET" THEN Preset(w)
        ELSE w

WriteRegister(d, r, v) == [d EXCEPT !.reg[r] = v]
WritePosition(d, p)    == [d EXCEPT !.ref = p]

\* Over-travel inhibits one direction of motion.
Inhibited(d) == \/ d.target > d.pos /\ d.coil["OT_PLUS"]
                \/ d.target < d.pos /\ d.coil["OT_MINUS"]

\* One unit of travel; the positioning is over when the shaft reaches the target.
CanAdvance(d) == d.busy /\ CanRun(d) /\ ~Inhibited(d)
Advanced(d) ==
    LET p == IF d.target > d.pos THEN d.pos + 1
             ELSE IF d.target < d.pos THEN d.pos - 1 ELSE d.pos
    IN  [d EXCEPT !.pos = p, !.busy = (p # d.target)]

Faulted(d, f) == [d EXCEPT !.fault = @ \cup {f}]

============================================================================
