---------------------------- MODULE StartupProofs ----------------------------
(* Theorems about Startup for every value of its constants. *)
EXTENDS Startup, SequenceTheorems, TLAPS

-----------------------------------------------------------------------------
(* The operators of Drive, for the writes of a start. MotorServoProofs has these lemmas    *)
(* for those of the handlers: no module can extend MotorServo and Startup.                *)

\* START maps drives to drives.
LEMMA StartedType ==
    ASSUME NEW d \in DriveSet
    PROVE  Started(d) \in DriveSet
<1>1. (d.ref # d.pos) \in BOOLEAN
  OBVIOUS
<1> QED BY <1>1 DEF DriveSet, Started

\* A coil write maps drives to drives.
LEMMA WriteCoilType ==
    ASSUME NEW d \in DriveSet, NEW c \in Coils, NEW on \in BOOLEAN
    PROVE  WriteCoil(d, c, on) \in DriveSet
<1> DEFINE w == [d EXCEPT !.coil[c] = on]
<1>1. w \in DriveSet
  BY DEF DriveSet
<1>2. /\ Started(w) \in DriveSet /\ Halted(w) \in DriveSet
      /\ Cleared(w) \in DriveSet /\ Preset(w) \in DriveSet
  <2> HIDE DEF w
  <2>1. Started(w) \in DriveSet
    BY <1>1, StartedType
  <2>2. Halted(w) \in DriveSet
    BY <1>1 DEF DriveSet, Halted
  <2>3. Cleared(w) \in DriveSet
    BY <1>1 DEF DriveSet, Cleared
  <2>4. Preset(w) \in DriveSet
    BY <1>1 DEF DriveSet, Preset
  <2> QED BY <2>1, <2>2, <2>3, <2>4
<1> QED
  BY <1>1, <1>2 DEF WriteCoil

\* So do the register and position writes, the travel and the faults of the drive.
LEMMA DriveOperatorsType ==
    ASSUME NEW d \in DriveSet
    PROVE  /\ \A r \in Registers, v \in Int : WriteRegister(d, r, v) \in DriveSet
           /\ \A p \in Int : WritePosition(d, p) \in DriveSet
           /\ Advanced(d) \in DriveSet
           /\ \A f \in Faults : Faulted(d, f) \in DriveSet
<1>1. \A r \in Registers, v \in Int : WriteRegister(d, r, v) \in DriveSet
  BY DEF DriveSet, WriteRegister
<1>2. \A p \in Int : WritePosition(d, p) \in DriveSet
  BY DEF DriveSet, WritePosition
<1>3. Advanced(d) \in DriveSet
  <2> DEFINE p == IF d.target > d.pos THEN d.pos + 1
                  ELSE IF d.target < d.pos THEN d.pos - 1 ELSE d.pos
  <2>1. p \in Int /\ (p # d.target) \in BOOLEAN
    BY DEF DriveSet
  <2>2. [d EXCEPT !.pos = p, !.busy = (p # d.target)] \in DriveSet
    <3> HIDE DEF p
    <3> QED BY <2>1 DEF DriveSet
  <2> QED BY <2>2 DEF Advanced
<1>4. \A f \in Faults : Faulted(d, f) \in DriveSet
  BY DEF DriveSet, Faulted
<1> QED BY <1>1, <1>2, <1>3, <1>4

\* Only START sets a drive in motion.
LEMMA WriteCoilBusy ==
    ASSUME NEW d \in DriveSet, NEW c \in Coils, NEW on \in BOOLEAN,
           c # "START", ~d.busy
    PROVE  ~WriteCoil(d, c, on).busy
<1> DEFINE w == [d EXCEPT !.coil[c] = on]
<1>1. w.busy = d.busy
  BY DEF DriveSet
<1>2. w \in DriveSet
  BY DEF DriveSet
<1>3. ~Halted(w).busy /\ ~Cleared(w).busy /\ Preset(w).busy = w.busy
  BY <1>2 DEF Halted, Cleared, Preset, DriveSet
<1> QED
  BY <1>1, <1>3 DEF WriteCoil

\* A coil write changes the coil it names and, on its active edge, what that coil
\* acts on: the motion is the business of START, the zero that of PST_PRESET.
LEMMA WriteCoilFrame ==
    ASSUME NEW d \in DriveSet, NEW c \in Coils, NEW on \in BOOLEAN
    PROVE  /\ WriteCoil(d, c, on).coil = [d.coil EXCEPT ![c] = on]
           /\ WriteCoil(d, c, on).reg = d.reg /\ WriteCoil(d, c, on).ref = d.ref
           /\ c # "START" => WriteCoil(d, c, on).target = d.target
           /\ c # "PST_PRESET" => WriteCoil(d, c, on).pos = d.pos
<1> DEFINE w == [d EXCEPT !.coil[c] = on]
<1>1. w \in DriveSet
  BY DEF DriveSet
<1>2. /\ w.coil = [d.coil EXCEPT ![c] = on]
      /\ w.reg = d.reg /\ w.ref = d.ref /\ w.target = d.target /\ w.pos = d.pos
  BY DEF DriveSet
<1>3. \A x \in {Started(w), Halted(w), Cleared(w), Preset(w)} :
         x.coil = w.coil /\ x.reg = w.reg /\ x.ref = w.ref
  <2> HIDE DEF w
  <2> QED BY <1>1 DEF DriveSet, Started, Halted, Cleared, Preset
<1>4. /\ \A x \in {Halted(w), Cleared(w), Preset(w)} : x.target = w.target
      /\ \A x \in {Started(w), Halted(w), Cleared(w)} : x.pos = w.pos
  <2> HIDE DEF w
  <2> QED BY <1>1 DEF DriveSet, Started, Halted, Cleared, Preset
<1>5. /\ WriteCoil(d, c, on) \in {w, Started(w), Halted(w), Cleared(w), Preset(w)}
      /\ c # "START" => WriteCoil(d, c, on) \in {w, Halted(w), Cleared(w), Preset(w)}
      /\ c # "PST_PRESET" => WriteCoil(d, c, on) \in {w, Started(w), Halted(w), Cleared(w)}
  BY DEF WriteCoil
<1> HIDE DEF w
<1> QED BY <1>2, <1>3, <1>4, <1>5

\* The rising edge of PST_PRESET makes the position of the shaft the zero.
LEMMA PresetZeroes ==
    ASSUME NEW d \in DriveSet, ~d.coil["PST_PRESET"]
    PROVE  WriteCoil(d, "PST_PRESET", TRUE).pos = 0
<1> DEFINE w == [d EXCEPT !.coil["PST_PRESET"] = TRUE]
<1>1. w \in DriveSet
  BY DEF DriveSet, Coils
<1>2. WriteCoil(d, "PST_PRESET", TRUE) = Preset(w)
  BY DEF WriteCoil
<1> HIDE DEF w
<1> QED BY <1>1, <1>2 DEF Preset, DriveSet

\* Its falling edge does nothing.
LEMMA PresetDropped ==
    ASSUME NEW d \in DriveSet
    PROVE  WriteCoil(d, "PST_PRESET", FALSE).pos = d.pos
<1>1. WriteCoil(d, "PST_PRESET", FALSE) = [d EXCEPT !.coil["PST_PRESET"] = FALSE]
  BY DEF WriteCoil
<1> QED BY <1>1 DEF DriveSet

\* No coil write but the release changes the servo coil.
LEMMA WriteCoilServo ==
    ASSUME NEW d \in DriveSet, NEW c \in Coils, NEW on \in BOOLEAN
    PROVE  /\ c # "SERVO_ON" => WriteCoil(d, c, on).coil["SERVO_ON"] = d.coil["SERVO_ON"]
           /\ ~WriteCoil(d, "SERVO_ON", FALSE).coil["SERVO_ON"]
<1>1. "SERVO_ON" \in Coils /\ d.coil \in [Coils -> BOOLEAN]
  BY DEF Coils, DriveSet
<1>2. ASSUME c # "SERVO_ON"
      PROVE  WriteCoil(d, c, on).coil["SERVO_ON"] = d.coil["SERVO_ON"]
  <2>1. WriteCoil(d, c, on).coil = [d.coil EXCEPT ![c] = on]
    BY WriteCoilFrame
  <2> QED BY <1>1, <1>2, <2>1, Zenon
<1>3. ~WriteCoil(d, "SERVO_ON", FALSE).coil["SERVO_ON"]
  <2>1. WriteCoil(d, "SERVO_ON", FALSE).coil = [d.coil EXCEPT !["SERVO_ON"] = FALSE]
    BY <1>1, WriteCoilFrame
  <2> QED BY <1>1, <2>1, Zenon
<1> QED BY <1>2, <1>3

-----------------------------------------------------------------------------
(* Type correctness *)

\* A budget is a count, and spending one never lowers another.
LEMMA Spending ==
    ASSUME spent \in [Budgets -> Nat], NEW b \in Budgets, Spend(b)
    PROVE  spent' \in [Budgets -> Nat] /\ \A e \in Budgets : spent'[e] >= spent[e]
BY DEF Spend

\* position_reset, transaction by transaction.
LEMMA ResetTransactions ==
    ASSUME NEW d
    PROVE  /\ Len(PositionReset) = 7 /\ LastStep = 7
           /\ PositionReset[3] = "wait_inp"
           /\ Transaction(d, PositionReset[1]) = WriteCoil(d, "PST_CANCEL", TRUE)
           /\ Transaction(d, PositionReset[2]) = WriteCoil(d, "PST_CANCEL", FALSE)
           /\ Transaction(d, PositionReset[3]) = d
           /\ Transaction(d, PositionReset[4]) = WriteCoil(d, "PST_PRESET", TRUE)
           /\ Transaction(d, PositionReset[5]) = WriteCoil(d, "PST_PRESET", FALSE)
           /\ Transaction(d, PositionReset[6]) = WriteCoil(d, "DEVIATION_CLR", TRUE)
           /\ Transaction(d, PositionReset[7]) = WriteCoil(d, "DEVIATION_CLR", FALSE)
<1>1. /\ Len(PositionReset) = 7 /\ LastStep = 7
      /\ PositionReset[1] = "cancel_on" /\ PositionReset[2] = "cancel_off"
      /\ PositionReset[3] = "wait_inp" /\ PositionReset[4] = "preset_on"
      /\ PositionReset[5] = "preset_off" /\ PositionReset[6] = "clear_on"
      /\ PositionReset[7] = "clear_off"
  BY DEF PositionReset, LastStep
<1> QED BY <1>1 DEF Transaction

\* What a step of position_reset leaves is a drive.
LEMMA TransactionType ==
    ASSUME NEW d \in DriveSet, NEW i \in 1..7
    PROVE  Transaction(d, PositionReset[i]) \in DriveSet
<1>1. {"PST_CANCEL", "PST_PRESET", "DEVIATION_CLR"} \subseteq Coils
  BY DEF Coils
<1>2. \A c \in {"PST_CANCEL", "PST_PRESET", "DEVIATION_CLR"}, on \in BOOLEAN :
         WriteCoil(d, c, on) \in DriveSet
  BY <1>1, WriteCoilType
<1>3. i = 1 \/ i = 2 \/ i = 3 \/ i = 4 \/ i = 5 \/ i = 6 \/ i = 7
  OBVIOUS
<1> QED BY <1>2, <1>3, ResetTransactions, Zenon

\* A write on the line leaves the drive as it was or as the write makes it.
LEMMA WriteOutcome ==
    ASSUME spent \in [Budgets -> Nat], NEW d, Attempt(d) \/ Failure(d)
    PROVE  /\ drive' \in {drive, d}
           /\ spent' \in [Budgets -> Nat]
           /\ \A e \in Budgets : spent'[e] >= spent[e]
           /\ spent'["fails"] = 0 => drive' = d
<1>1. "fails" \in Budgets
  BY DEF Budgets
<1>2. CASE Attempt(d)
  BY <1>2 DEF Attempt
<1>3. CASE Failure(d)
  <2>1. Spend("fails") /\ drive' \in {drive, d}
    BY <1>3 DEF Failure
  <2>2. spent'["fails"] = spent["fails"] + 1
    BY <1>1, <2>1 DEF Spend
  <2> QED BY <1>1, <2>1, <2>2, Spending
<1> QED BY <1>2, <1>3

\* Every variable keeps its type in every life of the process.
THEOREM TypeCorrect == Spec => []TypeOK
<1>0. /\ Len(PositionReset) = 7 /\ LastStep = 7
      /\ {"fails", "oserrors", "unready", "timeouts", "crashes", "moves"} = Budgets
  BY ResetTransactions DEF Budgets
<1>1. Init => TypeOK
  <2> SUFFICES ASSUME Init PROVE TypeOK
    OBVIOUS
  <2>1. drive \in DriveSet
    <3> DEFINE off == [c \in Coils |-> FALSE]
               ones == [r \in Registers |-> 1]
    <3>1. off \in [Coils -> BOOLEAN] /\ ones \in [Registers -> Int] /\ {} \in SUBSET Faults
      OBVIOUS
    <3>2. drive = [coil |-> off, reg |-> ones, ref |-> 0, target |-> 0, pos |-> 0,
                   busy |-> FALSE, fault |-> {}]
      BY DEF Init
    <3> HIDE DEF off, ones
    <3> QED BY <3>1, <3>2 DEF DriveSet
  <2>2. {ini, sumfile, enabled, stop, commands, unclean} \subseteq BOOLEAN
    BY Zenon DEF Init
  <2>3. shaft \in Int /\ start \in Int
    BY StartupAssumption DEF Init
  <2>4. right \subseteq Params /\ spent \in [Budgets -> Nat]
    BY DEF Init
  <2>5. boot \in Boots /\ step \in 1..Len(PositionReset) /\ todo \subseteq Params
    BY <1>0 DEF Init, Boots
  <2>6. status \in {"NONE", "INITLIZING", "FREE", "LOCATING", "STOPING"}
    BY DEF Init
  <2> QED BY <2>1, <2>2, <2>3, <2>4, <2>5, <2>6 DEF TypeOK
<1>2. TypeOK /\ [Next]_vars => TypeOK'
  <2> SUFFICES ASSUME TypeOK, [Next]_vars PROVE TypeOK'
    OBVIOUS
  <2>a. /\ spent \in [Budgets -> Nat]
        /\ \A b \in Budgets : Spend(b) => spent' \in [Budgets -> Nat]
        /\ \A d : Attempt(d) \/ Failure(d) => /\ drive' \in {drive, d}
                                              /\ spent' \in [Budgets -> Nat]
    <3>1. spent \in [Budgets -> Nat]
      BY DEF TypeOK
    <3> QED BY <3>1, Spending, WriteOutcome
  <2>b. /\ WriteCoil(drive, "SERVO_ON", TRUE) \in DriveSet
        /\ WriteCoil(drive, "SERVO_ON", FALSE) \in DriveSet
    BY WriteCoilType DEF TypeOK, Coils
  <2> USE DEF process, files, axis
  <2>1. CASE Launch
    <3>1. unclean' \in BOOLEAN
      BY <2>1, Zenon DEF Launch
    <3>2. {ini, sumfile, enabled, stop, commands, unclean}' \subseteq BOOLEAN
      <4>1. UNCHANGED <<ini, sumfile>> /\ enabled' = FALSE /\ stop' = FALSE /\ commands' = FALSE
        BY <2>1 DEF Launch
      <4>2. ini \in BOOLEAN /\ sumfile \in BOOLEAN
        BY DEF TypeOK
      <4> QED BY <3>1, <4>1, <4>2, Zenon
    <3>3. (boot \in Boots /\ step \in 1..Len(PositionReset) /\ todo \subseteq Params)'
      BY <1>0, <2>1 DEF Launch, Boots
    <3>4. /\ UNCHANGED <<right, drive, shaft, spent>> /\ start' = 0 /\ status' = "NONE"
      BY <2>1 DEF Launch
    <3> QED BY <3>2, <3>3, <3>4 DEF TypeOK
  <2>2. CASE Crash
    BY <1>0, <2>a, <2>2 DEF Crash, TypeOK, Boots
  <2>3. CASE LoadIni \/ ReadSum \/ OpenLine \/ CheckParameters \/ IsReady \/ SendProfile
             \/ ListeningUart \/ WaitEncoder \/ ListeningSocket \/ LoopEnds
    BY <1>0, <2>a, <2>3 DEF LoadIni, ReadSum, OpenLine, CheckParameters, IsReady, SendProfile,
       ListeningUart, WaitEncoder, ListeningSocket, LoopEnds, Leave, TypeOK, Boots
  <2>4. CASE WriteParameter
    BY <1>0, <2>a, <2>4 DEF WriteParameter, TypeOK, Boots
  <2>5. CASE ServeOn \/ Unready \/ Exit
    BY <2>a, <2>b, <2>5 DEF ServeOn, Unready, Exit, ReleaseServo, Leave, TypeOK, Boots, Budgets
  <2>6. CASE ResetStep
    <3> DEFINE d == Transaction(drive, PositionReset[step])
    <3>1. d \in DriveSet
      BY <1>0, TransactionType DEF TypeOK
    <3>2. Attempt(d) \/ Failure(d)
      BY <2>6 DEF ResetStep
    <3>3. drive' \in DriveSet /\ spent' \in [Budgets -> Nat]
      BY <2>a, <3>1, <3>2 DEF TypeOK
    <3>4. /\ UNCHANGED <<unclean, todo, start, enabled, commands, files, right, shaft>>
          /\ step' = 1 \/ (step < 7 /\ step' = step + 1)
          /\ stop' = stop \/ stop' = TRUE
          /\ boot' = boot \/ boot' = "socket"
          /\ status' = status \/ status' = "INITLIZING"
      BY <1>0, <2>6 DEF ResetStep
    <3>5. {ini, sumfile, enabled, stop, commands, unclean}' \subseteq BOOLEAN
      BY <3>4, Zenon DEF TypeOK
    <3>6. (boot \in Boots /\ step \in 1..Len(PositionReset) /\ todo \subseteq Params)'
      BY <1>0, <3>4 DEF TypeOK, Boots
    <3>7. (right \subseteq Params /\ {shaft, start} \subseteq Int
           /\ status \in {"NONE", "INITLIZING", "FREE", "LOCATING", "STOPING"})'
      BY <3>4 DEF TypeOK
    <3> QED BY <3>3, <3>5, <3>6, <3>7 DEF TypeOK
  <2>7. CASE FirstFrame \/ BecomesFree
    BY <2>7 DEF FirstFrame, BecomesFree, TypeOK
  <2>8. CASE StopCommand
    BY <2>b, <2>8 DEF StopCommand, TypeOK
  <2>9. ASSUME NEW p \in Points, Point(p) PROVE TypeOK'
    <3>1. p - start \in Int
      BY StartupAssumption DEF TypeOK
    <3>2. WritePosition(drive, p - start) \in DriveSet
      BY <3>1, DriveOperatorsType DEF TypeOK
    <3>3. Started(WritePosition(drive, p - start)) \in DriveSet
      BY <3>2, StartedType
    <3> QED BY <1>0, <2>a, <2>9, <3>3 DEF Point, TypeOK
  <2>10. CASE DriveAdvances
    <3>1. Advanced(drive) \in DriveSet /\ drive \in DriveSet
      BY DriveOperatorsType DEF TypeOK
    <3>2. Advanced(drive).pos - drive.pos \in Int
      BY <3>1 DEF DriveSet
    <3> QED BY <2>10, <3>1, <3>2 DEF DriveAdvances, TypeOK
  <2>11. CASE UNCHANGED vars
    BY <2>11 DEF vars, TypeOK
  <2> QED
    BY <2>1, <2>2, <2>3, <2>4, <2>5, <2>6, <2>7, <2>8, <2>9, <2>10, <2>11
    DEF Next, MainThread, CommandThread
<1> QED BY <1>1, <1>2, PTL DEF Spec

-----------------------------------------------------------------------------
(* The servo is on only with every parameter verified *)

On == drive.coil["SERVO_ON"]

\* Of all transactions only that of ServeOn turns the servo on; the release turns it off.
LEMMA ServoWrites ==
    ASSUME TypeOK, [Next]_vars, ~ServeOn
    PROVE  /\ On' => On
           /\ (Unready \/ Exit) /\ spent'["fails"] = 0 => ~On'
<1>0. drive \in DriveSet /\ spent \in [Budgets -> Nat]
  BY DEF TypeOK
<1>1. CASE Unready \/ Exit
  <2> DEFINE d == WriteCoil(drive, "SERVO_ON", FALSE)
  <2>1. ~d.coil["SERVO_ON"]
    BY <1>0, WriteCoilServo DEF Coils
  <2>2. Attempt(d) \/ Failure(d)
    BY <1>1 DEF Unready, Exit, ReleaseServo
  <2>3. drive' \in {drive, d} /\ (spent'["fails"] = 0 => drive' = d)
    BY <1>0, <2>2, WriteOutcome
  <2> QED BY <2>1, <2>3, Zenon DEF On
<1>2. CASE ResetStep
  <2> DEFINE d == Transaction(drive, PositionReset[step])
  <2>1. \A c \in {"PST_CANCEL", "PST_PRESET", "DEVIATION_CLR"}, on \in BOOLEAN :
            WriteCoil(drive, c, on).coil["SERVO_ON"] = drive.coil["SERVO_ON"]
    <3>1. \A c \in {"PST_CANCEL", "PST_PRESET", "DEVIATION_CLR"} : c \in Coils /\ c # "SERVO_ON"
      BY DEF Coils
    <3> QED BY <1>0, <3>1, WriteCoilServo, Zenon
  <2>2. step \in 1..7
    BY ResetTransactions DEF TypeOK
  <2>3. step = 1 \/ step = 2 \/ step = 3 \/ step = 4 \/ step = 5 \/ step = 6 \/ step = 7
    BY <2>2
  <2>4. d.coil["SERVO_ON"] = drive.coil["SERVO_ON"]
    BY <2>1, <2>3, ResetTransactions, Zenon
  <2>5. drive' \in {drive, d}
    BY <1>0, <1>2, WriteOutcome DEF ResetStep
  <2>6. ~Unready /\ ~Exit
    BY <1>2 DEF ResetStep, Unready, Exit, ReleaseServo
  <2> QED BY <2>4, <2>5, <2>6, Zenon DEF On
<1>3. CASE StopCommand
  <2>1. ~WriteCoil(drive, "SERVO_ON", FALSE).coil["SERVO_ON"]
    BY <1>0, WriteCoilServo DEF Coils
  <2> QED BY <1>1, <1>3, <2>1 DEF StopCommand, On
<1>4. ASSUME NEW p \in Points, Point(p) PROVE drive'.coil = drive.coil
  <2>1. \A d \in DriveSet : Started(d).coil = d.coil
    BY DEF Started, DriveSet
  <2>2. p - start \in Int
    BY StartupAssumption DEF TypeOK
  <2>3. /\ WritePosition(drive, p - start) \in DriveSet
        /\ WritePosition(drive, p - start).coil = drive.coil
    BY <1>0, <2>2, DriveOperatorsType DEF WritePosition, DriveSet
  <2> QED BY <1>4, <2>1, <2>3 DEF Point
<1>5. CASE DriveAdvances
  <2>1. Advanced(drive).coil = drive.coil
    BY <1>0 DEF Advanced, DriveSet
  <2> QED BY <1>1, <1>5, <2>1 DEF DriveAdvances, On
<1>6. \/ Unready \/ Exit \/ ResetStep \/ StopCommand \/ DriveAdvances
      \/ \E p \in Points : Point(p)
      \/ drive' = drive
  BY DEF Next, vars, MainThread, CommandThread, Launch, Crash, LoadIni, ReadSum, OpenLine,
     WriteParameter, CheckParameters, IsReady, SendProfile, ListeningUart, WaitEncoder,
     ListeningSocket, LoopEnds, FirstFrame, BecomesFree, axis
<1> QED BY <1>1, <1>2, <1>3, <1>4, <1>5, <1>6 DEF On

\* A process that reaches ServeOn has read every parameter back, and no step spoils one.
ConfiguredInv == ServoConfigured /\ (boot = "serve_on" => right = Params)

\* The servo is never on with a parameter that was not verified.
THEOREM ConfiguredServo == Spec => []ServoConfigured
<1>1. Init => ConfiguredInv
  BY DEF Init, ConfiguredInv, ServoConfigured, Coils
<1>2. TypeOK /\ ConfiguredInv /\ [Next]_vars => ConfiguredInv'
  <2> SUFFICES ASSUME TypeOK, ConfiguredInv, [Next]_vars
               PROVE  ConfiguredInv'
    OBVIOUS
  <2>1. right = Params => right' = Params
    <3>1. right' = right \/ \E p \in todo : right' = right \cup {p}
      BY DEF Next, vars, MainThread, CommandThread, Launch, Crash, LoadIni, ReadSum, OpenLine,
         WriteParameter, CheckParameters, ServeOn, IsReady, Unready, Exit, ReleaseServo,
         SendProfile, ListeningUart, WaitEncoder, ResetStep, ListeningSocket, LoopEnds,
         FirstFrame, BecomesFree, StopCommand, Point, DriveAdvances
    <3> QED BY <3>1 DEF TypeOK
  <2>2. boot' = "serve_on" => boot = "serve_on" \/ right = Params
    BY DEF Next, vars, MainThread, CommandThread, Launch, Crash, LoadIni, ReadSum, OpenLine,
       WriteParameter, CheckParameters, CheckPasses, ServeOn, IsReady, Unready, Exit,
       ReleaseServo, Leave, SendProfile, ListeningUart, WaitEncoder, ResetStep,
       ListeningSocket, LoopEnds, FirstFrame, BecomesFree, StopCommand, Point, DriveAdvances
  <2>3. CASE ServeOn
    <3>1. boot = "serve_on"
      BY <2>3 DEF ServeOn
    <3> QED BY <2>1, <3>1 DEF ConfiguredInv, ServoConfigured
  <2>4. CASE ~ServeOn
    <3>1. On' => On
      BY <2>4, ServoWrites
    <3> QED BY <2>1, <2>2, <3>1 DEF ConfiguredInv, ServoConfigured, On
  <2> QED BY <2>3, <2>4
<1>3. ConfiguredInv => ServoConfigured
  BY DEF ConfiguredInv
<1> QED BY <1>1, <1>2, <1>3, TypeCorrect, PTL DEF Spec

-----------------------------------------------------------------------------
(* A process that ends by itself leaves the servo off *)

Serving == boot \in {"loop", "serve_off"}
BeforeServo == boot \in {"down", "ini", "sum", "open", "init", "check", "serve_on"}

\* Nothing was lost yet: no kill, no device refused, no transaction failed.
Lossless == spent["crashes"] = 0 /\ spent["oserrors"] = 0 /\ spent["fails"] = 0

\* The command thread is gone with the loop; until ServeOn the servo is off, if every
\* process before this one could release it.
ReleaseInv ==
    /\ commands <=> Serving
    /\ Lossless /\ BeforeServo => ~On

\* What was lost stays lost.
LEMMA LossesCount ==
    ASSUME TypeOK, [Next]_vars
    PROVE  Lossless' => Lossless
<1> DEFINE grown == \A b \in Budgets : spent'[b] >= spent[b]
<1>1. spent \in [Budgets -> Nat] /\ {"crashes", "oserrors", "fails"} \subseteq Budgets
  BY DEF TypeOK, Budgets
<1>2. \/ spent' = spent \/ \E b \in Budgets : Spend(b)
      \/ \E d : Attempt(d) \/ Failure(d)
  BY DEF Next, vars, MainThread, CommandThread, Launch, Crash, LoadIni, ReadSum, OpenLine,
     WriteParameter, CheckParameters, ServeOn, IsReady, Unready, Exit, ReleaseServo,
     SendProfile, ListeningUart, WaitEncoder, ResetStep, ListeningSocket, LoopEnds,
     FirstFrame, BecomesFree, StopCommand, Point, DriveAdvances, Budgets
<1>3. grown
  <2>1. ASSUME spent' = spent PROVE grown
    BY <1>1, <2>1
  <2>2. ASSUME NEW b \in Budgets, Spend(b) PROVE grown
    BY <1>1, <2>2, Spending
  <2>3. ASSUME NEW d, Attempt(d) \/ Failure(d) PROVE grown
    BY <1>1, <2>3, WriteOutcome
  <2> HIDE DEF grown
  <2> QED BY <1>2, <2>1, <2>2, <2>3
<1> QED BY <1>1, <1>3 DEF Lossless

\* Where main goes from each of its places: one step on, or down.
LEMMA LeavesOff ==
    ASSUME TypeOK, ReleaseInv, [Next]_vars, Lossless', BeforeServo'
    PROVE  (ServeOn => UNCHANGED drive) /\ (BeforeServo \/ Unready \/ Exit)
<1>1. /\ ~Crash
      /\ \A b \in {"crashes", "oserrors", "fails"} : ~Spend(b)
  <2>1. \A b \in {"crashes", "oserrors", "fails"} : spent[b] \in Nat /\ spent'[b] = 0
    BY DEF TypeOK, Lossless, Budgets
  <2>2. \A b \in {"crashes", "oserrors", "fails"} : Spend(b) => spent'[b] = spent[b] + 1
    BY DEF TypeOK, Spend, Budgets
  <2> QED BY <2>1, <2>2 DEF Crash
<1>2. ~\E d : Failure(d)
  BY <1>1 DEF Failure
<1>3. ServeOn => UNCHANGED drive
  BY <1>2 DEF ServeOn, BeforeServo
<1>4. BeforeServo \/ Unready \/ Exit
  BY <1>1, <1>2 DEF Next, vars, MainThread, CommandThread, Launch, LoadIni, ReadSum, OpenLine,
     WriteParameter, CheckParameters, ServeOn, IsReady, SendProfile, ListeningUart,
     WaitEncoder, ResetStep, ListeningSocket, LoopEnds, FirstFrame, BecomesFree, StopCommand,
     Point, DriveAdvances, BeforeServo
<1> QED BY <1>3, <1>4

\* The command thread runs between ListeningSocket and the end of the process.
LEMMA ServingCommands ==
    ASSUME TypeOK, commands <=> Serving, [Next]_vars
    PROVE  commands' <=> Serving'
<1>1. CASE ListeningSocket \/ LoopEnds \/ LoadIni \/ ReadSum \/ OpenLine \/ WriteParameter
             \/ CheckParameters \/ SendProfile \/ ListeningUart \/ WaitEncoder
  BY <1>1 DEF ListeningSocket, LoopEnds, LoadIni, ReadSum, OpenLine, WriteParameter,
     CheckParameters, SendProfile, ListeningUart, WaitEncoder, Leave, process, Serving
<1>2. CASE ServeOn \/ Unready \/ Exit
  <2>1. \/ Leave
        \/ boot = "serve_on" /\ boot' = "ready" /\ commands' = commands
    BY <1>2 DEF ServeOn, Unready, Exit, ReleaseServo
  <2> QED BY <2>1 DEF Leave, Serving
<1>3. CASE ResetStep \/ FirstFrame
  BY <1>3 DEF ResetStep, FirstFrame, Serving
<1>4. CASE BecomesFree \/ StopCommand \/ DriveAdvances \/ UNCHANGED vars
           \/ \E p \in Points : Point(p)
  BY <1>4 DEF BecomesFree, StopCommand, Point, DriveAdvances, vars, process, Serving
<1>5. CASE IsReady \/ Launch \/ Crash
  BY <1>5 DEF IsReady, Launch, Crash, process, Serving
<1> QED BY <1>1, <1>2, <1>3, <1>4, <1>5 DEF Next, MainThread, CommandThread

\* A daemon that gives up, or is told to stop, with its line up leaves the servo off.
THEOREM ExitReleases == Spec => []ExitReleasesServo
<1>1. Init => ReleaseInv
  BY DEF Init, ReleaseInv, Serving, On, Coils
<1>2. TypeOK /\ TypeOK' /\ ReleaseInv /\ [Next]_vars => ReleaseInv'
  <2> SUFFICES ASSUME TypeOK, TypeOK', ReleaseInv, [Next]_vars
               PROVE  ReleaseInv'
    OBVIOUS
  <2>1. commands' <=> Serving'
    BY ServingCommands DEF ReleaseInv
  <2>2. ASSUME Lossless', BeforeServo' PROVE ~On'
    <3>1. Lossless
      BY <2>2, LossesCount
    <3>2. BeforeServo \/ Unready \/ Exit
      BY <2>2, LeavesOff
    <3>3. spent'["fails"] = 0
      BY <2>2 DEF Lossless
    <3>4. CASE ServeOn
      <4>1. UNCHANGED drive /\ BeforeServo
        BY <2>2, <3>4, LeavesOff DEF ServeOn, BeforeServo
      <4> QED BY <3>1, <4>1 DEF ReleaseInv, On
    <3>5. CASE ~ServeOn
      BY <3>1, <3>2, <3>3, <3>5, ServoWrites DEF ReleaseInv
    <3> QED BY <3>4, <3>5
  <2> QED BY <2>1, <2>2 DEF ReleaseInv
<1>3. ReleaseInv => ExitReleasesServo
  <2> SUFFICES ASSUME ReleaseInv, boot = "down",
                      {spent[b] : b \in {"crashes", "oserrors", "fails"}} = {0}
               PROVE  ~On
    BY DEF ExitReleasesServo, On
  <2>1. Lossless
    BY DEF Lossless
  <2> QED BY <2>1 DEF ReleaseInv, BeforeServo
<1> QED BY <1>1, <1>2, <1>3, TypeCorrect, PTL DEF Spec

-----------------------------------------------------------------------------
(* One zero for the drive and the daemon *)

\* From the start of a process that found a clean drive to its g_stop.
Undisturbed == boot # "down" /\ ~unclean /\ ~stop

\* Where a process stands on its way to the common zero: the axis rests until the
\* command thread runs, the encoder is heard before position_reset, the angle it gave
\* is the one the axis still has, and the preset is raised and dropped once.
AtRest ==
    /\ ~drive.busy
    /\ enabled => start = shaft
    /\ boot # "socket" => (drive.coil["PST_PRESET"] <=> boot = "reset" /\ step = 5)
    /\ boot = "socket" \/ (boot = "reset" /\ step >= 5) => drive.pos = 0

AlignInv ==
    /\ commands <=> Serving
    /\ boot \notin {"down", "reset"} => step = 1
    /\ enabled => boot \in {"down", "wait", "reset", "socket", "loop", "serve_off"}
    /\ Undisturbed =>
         /\ boot \in {"reset", "socket", "loop", "serve_off"} => enabled
         /\ ~Serving => AtRest
         /\ Serving => Aligned

\* No transaction of position_reset sets the axis in motion.
LEMMA TransactionsRest ==
    ASSUME NEW d \in DriveSet, NEW i \in 1..7, ~d.busy
    PROVE  ~Transaction(d, PositionReset[i]).busy
<1>1. \A c \in {"PST_CANCEL", "PST_PRESET", "DEVIATION_CLR"}, on \in BOOLEAN :
         ~WriteCoil(d, c, on).busy
  BY WriteCoilBusy DEF Coils
<1>2. i = 1 \/ i = 2 \/ i = 3 \/ i = 4 \/ i = 5 \/ i = 6 \/ i = 7
  OBVIOUS
<1> QED BY <1>1, <1>2, ResetTransactions, Zenon

\* It raises PST_PRESET in its fourth step, drops it in its fifth, and the position is
\* zero from then on.
LEMMA TransactionsPreset ==
    ASSUME NEW d \in DriveSet, NEW i \in 1..7,
           d.coil["PST_PRESET"] <=> i = 5,
           i >= 5 => d.pos = 0
    PROVE  LET e == Transaction(d, PositionReset[i]) IN
           /\ e.coil["PST_PRESET"] <=> i = 4
           /\ i >= 4 => e.pos = 0
<1>1. /\ {"PST_CANCEL", "PST_PRESET", "DEVIATION_CLR"} \subseteq Coils
      /\ d.coil \in [Coils -> BOOLEAN]
  BY DEF Coils, DriveSet
<1>2. ASSUME NEW c \in {"PST_CANCEL", "DEVIATION_CLR"}, NEW on \in BOOLEAN
      PROVE  /\ WriteCoil(d, c, on).coil["PST_PRESET"] = d.coil["PST_PRESET"]
             /\ WriteCoil(d, c, on).pos = d.pos
  <2>1. c \in Coils /\ c # "PST_PRESET"
    BY <1>1
  <2>2. /\ WriteCoil(d, c, on).coil = [d.coil EXCEPT ![c] = on]
        /\ WriteCoil(d, c, on).pos = d.pos
    BY <2>1, WriteCoilFrame
  <2> QED BY <1>1, <2>1, <2>2, Zenon
<1>3. CASE i = 4
  <2>0. ~d.coil["PST_PRESET"]
    BY <1>3
  <2>1. WriteCoil(d, "PST_PRESET", TRUE).coil = [d.coil EXCEPT !["PST_PRESET"] = TRUE]
    BY <1>1, WriteCoilFrame
  <2>2. WriteCoil(d, "PST_PRESET", TRUE).pos = 0
    BY <2>0, PresetZeroes
  <2>3. WriteCoil(d, "PST_PRESET", TRUE).coil["PST_PRESET"]
    BY <1>1, <2>1
  <2> QED BY <1>3, <2>2, <2>3, ResetTransactions
<1>4. CASE i = 5
  <2>1. WriteCoil(d, "PST_PRESET", FALSE).coil = [d.coil EXCEPT !["PST_PRESET"] = FALSE]
    BY <1>1, WriteCoilFrame
  <2>2. WriteCoil(d, "PST_PRESET", FALSE).pos = d.pos
    BY PresetDropped
  <2>3. ~WriteCoil(d, "PST_PRESET", FALSE).coil["PST_PRESET"]
    BY <1>1, <2>1
  <2>4. Transaction(d, PositionReset[i]) = WriteCoil(d, "PST_PRESET", FALSE)
    BY <1>4, ResetTransactions
  <2>5. d.pos = 0 /\ i # 4
    BY <1>4
  <2> QED BY <2>2, <2>3, <2>4, <2>5, Zenon
<1>5. CASE i \in {1, 2, 3, 6, 7}
  <2>1. ~d.coil["PST_PRESET"] /\ (i >= 4 => d.pos = 0)
    BY <1>5
  <2>2. i = 1 \/ i = 2 \/ i = 3 \/ i = 6 \/ i = 7
    BY <1>5
  <2>3. LET e == Transaction(d, PositionReset[i]) IN
        e.coil["PST_PRESET"] = d.coil["PST_PRESET"] /\ e.pos = d.pos
    <3>1. CASE i = 3
      BY <3>1, ResetTransactions, Zenon
    <3>2. CASE i # 3
      <4>1. PICK c \in {"PST_CANCEL", "DEVIATION_CLR"}, on \in BOOLEAN :
               Transaction(d, PositionReset[i]) = WriteCoil(d, c, on)
        BY <2>2, <3>2, ResetTransactions
      <4> QED BY <1>2, <4>1, Zenon
    <3> QED BY <3>1, <3>2
  <2> QED BY <1>5, <2>1, <2>3
<1> QED BY <1>3, <1>4, <1>5

\* The steps of main that leave the axis and the encoder alone.
Elsewhere == LoadIni \/ ReadSum \/ OpenLine \/ WriteParameter \/ CheckParameters
             \/ IsReady \/ SendProfile \/ ListeningUart \/ WaitEncoder \/ ListeningSocket
             \/ LoopEnds

\* They go from one place to the next, or down.
LEMMA ElsewhereSteps ==
    ASSUME TypeOK, Elsewhere
    PROVE  /\ UNCHANGED <<unclean, step, start, enabled, drive, shaft>>
           /\ stop => stop'
           /\ boot # "down"
           /\ \/ boot' = "down"
              \/ boot \in {"ini", "sum", "open", "init", "check", "ready", "send", "uart"}
                 /\ boot' \notin {"down", "reset", "socket", "loop", "serve_off"}
              \/ boot = "wait" /\ boot' = "reset" /\ enabled /\ ~stop
              \/ boot = "wait" /\ boot' = "socket" /\ stop'
              \/ boot = "socket" /\ boot' = "loop"
              \/ boot = "loop" /\ boot' = "serve_off" /\ stop'
<1> USE DEF process, files, axis
<1>1. CASE WaitEncoder
  BY <1>1 DEF WaitEncoder, TypeOK
<1>2. CASE LoadIni \/ ReadSum \/ OpenLine \/ CheckParameters
  BY <1>2 DEF LoadIni, ReadSum, OpenLine, CheckParameters, Leave
<1>3. CASE WriteParameter \/ IsReady \/ SendProfile
  BY <1>3 DEF WriteParameter, IsReady, SendProfile
<1>4. CASE ListeningUart \/ ListeningSocket \/ LoopEnds
  BY <1>4 DEF ListeningUart, ListeningSocket, LoopEnds, Leave
<1> QED BY <1>1, <1>2, <1>3, <1>4 DEF Elsewhere

\* A commanded angle is the angle reached: while the daemon serves, the zero of the
\* drive and g_start_angle are one point of the axis.
THEOREM ServesAligned == Spec => []AlignedInService
<1>1. Init => AlignInv
  BY DEF Init, AlignInv, Serving, Undisturbed
<1>2. TypeOK /\ TypeOK' /\ AlignInv /\ [Next]_vars => AlignInv'
  <2> SUFFICES ASSUME TypeOK, TypeOK', AlignInv, [Next]_vars
               PROVE  AlignInv'
    OBVIOUS
  <2>0. /\ drive \in DriveSet /\ boot \in Boots /\ step \in 1..7
        /\ shaft \in Int /\ start \in Int
    BY ResetTransactions DEF TypeOK
  <2>c. commands' <=> Serving'
    BY ServingCommands DEF AlignInv
  <2>1. CASE Launch
    BY <2>c, <2>1 DEF Launch, AlignInv, AtRest, Undisturbed, Serving, InPosition, axis
  <2>2. CASE Crash \/ ServeOn \/ Unready \/ Exit
    <3>1. CASE boot' = "down"
      BY <2>c, <3>1 DEF AlignInv, Undisturbed, Serving
    <3>2. CASE ServeOn /\ boot' = "ready"
      <4> DEFINE d == WriteCoil(drive, "SERVO_ON", TRUE)
      <4>1. /\ boot = "serve_on" /\ drive' = d
            /\ UNCHANGED <<unclean, step, start, enabled, stop, shaft>>
        BY <3>2 DEF ServeOn, Attempt, Failure, Leave
      <4>2. d.coil = [drive.coil EXCEPT !["SERVO_ON"] = TRUE]
        BY <2>0, WriteCoilFrame DEF Coils
      <4>3. d.coil["PST_PRESET"] = drive.coil["PST_PRESET"]
        BY <2>0, <4>2 DEF DriveSet, Coils
      <4>4. ~drive.busy => ~d.busy
        BY <2>0, WriteCoilBusy DEF Coils
      <4> HIDE DEF d
      <4> QED BY <2>c, <3>2, <4>1, <4>3, <4>4 DEF AlignInv, AtRest, Undisturbed, Serving
    <3> QED BY <2>2, <3>1, <3>2 DEF Crash, ServeOn, Unready, Exit, ReleaseServo, Leave
  <2>3. CASE Elsewhere
    <3>1. /\ UNCHANGED <<unclean, step, start, enabled, drive, shaft>>
          /\ stop => stop'
          /\ boot # "down"
      BY <2>3, ElsewhereSteps
    <3>2. CASE boot' = "down"
      BY <2>c, <3>2 DEF AlignInv, Undisturbed, Serving
    <3>3. CASE /\ boot \in {"ini", "sum", "open", "init", "check", "ready", "send", "uart"}
               /\ boot' \notin {"down", "reset", "socket", "loop", "serve_off"}
      BY <2>c, <3>1, <3>3 DEF AlignInv, AtRest, Undisturbed, Serving
    <3>4. CASE boot = "wait" /\ boot' = "reset" /\ enabled
      BY <2>0, <2>c, <3>1, <3>4 DEF AlignInv, AtRest, Undisturbed, Serving
    <3>5. CASE stop' /\ boot' \in {"socket", "serve_off"} /\ boot \in {"wait", "loop"}
      BY <2>c, <3>1, <3>5 DEF AlignInv, Undisturbed, Serving
    <3>6. CASE boot = "socket" /\ boot' = "loop"
      <4>1. CASE stop
        BY <2>c, <3>1, <3>6, <4>1 DEF AlignInv, Undisturbed, Serving
      <4>2. CASE ~stop /\ ~unclean
        <5>1. enabled /\ start = shaft /\ drive.pos = 0
          BY <3>6, <4>2 DEF AlignInv, AtRest, Undisturbed, Serving
        <5>2. Aligned'
          BY <2>0, <3>1, <5>1 DEF Aligned
        <5> QED BY <2>c, <3>1, <3>6, <5>1, <5>2 DEF AlignInv, Undisturbed, Serving
      <4>3. CASE unclean
        BY <2>c, <3>1, <3>6, <4>3 DEF AlignInv, Undisturbed, Serving
      <4> QED BY <4>1, <4>2, <4>3
    <3> QED BY <2>3, <3>2, <3>3, <3>4, <3>5, <3>6, ElsewhereSteps
  <2>4. CASE ResetStep
    <3> DEFINE d == Transaction(drive, PositionReset[step])
    <3>1. /\ boot = "reset"
          /\ UNCHANGED <<unclean, start, enabled, shaft>>
          /\ \/ /\ drive' = d /\ stop' = stop
                /\ \/ step < 7 /\ step' = step + 1 /\ boot' = "reset"
                   \/ step = 7 /\ step' = 1 /\ boot' = "socket"
             \/ stop' /\ step' = 1 /\ boot' = "socket"
      <4>1. LastStep = 7
        BY ResetTransactions
      <4> HIDE DEF d
      <4> QED BY <2>0, <2>4, <4>1 DEF ResetStep, Attempt, d
    <3>2. CASE stop'
      BY <2>c, <3>1, <3>2 DEF AlignInv, Undisturbed, Serving
    <3>3. CASE ~stop'
      <4>1. drive' = d /\ ~stop
        BY <3>1, <3>3
      <4>2. ASSUME ~unclean PROVE AtRest'
        <5>1. AtRest /\ enabled
          BY <3>1, <4>1, <4>2 DEF AlignInv, Undisturbed, Serving
        <5>2. ~drive'.busy
          BY <2>0, <4>1, <5>1, TransactionsRest DEF AtRest
        <5>3. drive'.coil["PST_PRESET"] <=> step = 4
          BY <2>0, <3>1, <4>1, <5>1, TransactionsPreset DEF AtRest
        <5>4. step >= 4 => drive'.pos = 0
          BY <2>0, <3>1, <4>1, <5>1, TransactionsPreset DEF AtRest
        <5>5. \/ step < 7 /\ step' = step + 1 /\ boot' = "reset"
              \/ step = 7 /\ step' = 1 /\ boot' = "socket"
          BY <3>1, <3>3
        <5>6. (enabled => start = shaft)'
          BY <3>1, <5>1 DEF AtRest
        <5>7. (boot # "socket" => (drive.coil["PST_PRESET"] <=> boot = "reset" /\ step = 5))'
          <6>1. boot' # "socket" => (step' = 5 <=> step = 4)
            BY <2>0, <5>5
          <6> QED BY <5>3, <5>5, <6>1
        <5>8. (boot = "socket" \/ (boot = "reset" /\ step >= 5) => drive.pos = 0)'
          BY <2>0, <5>4, <5>5
        <5> QED BY <5>2, <5>6, <5>7, <5>8 DEF AtRest
      <4> QED BY <2>c, <3>1, <4>1, <4>2 DEF AlignInv, Undisturbed, Serving
    <3> QED BY <3>2, <3>3
  <2>5. CASE FirstFrame
    BY <2>c, <2>5 DEF FirstFrame, AlignInv, AtRest, Undisturbed, Serving, axis
  <2>6. CASE BecomesFree
    BY <2>c, <2>6 DEF BecomesFree, AlignInv, AtRest, Undisturbed, Serving, axis, Aligned
  <2>7. CASE StopCommand
    BY <2>c, <2>7 DEF StopCommand, AlignInv, Undisturbed, Serving
  <2>8. ASSUME NEW p \in Points, Point(p) PROVE AlignInv'
    <3>1. drive'.pos = drive.pos
      <4>1. p - start \in Int
        BY <2>0, StartupAssumption
      <4>2. /\ WritePosition(drive, p - start) \in DriveSet
            /\ WritePosition(drive, p - start).pos = drive.pos
        BY <2>0, <4>1, DriveOperatorsType DEF WritePosition, DriveSet
      <4>3. \A d \in DriveSet : Started(d).pos = d.pos
        BY DEF Started, DriveSet
      <4> QED BY <2>8, <4>2, <4>3 DEF Point
    <3>2. /\ commands
          /\ UNCHANGED <<unclean, boot, step, start, enabled, stop, shaft>>
      BY <2>8 DEF Point, files
    <3> QED BY <2>c, <3>1, <3>2 DEF AlignInv, Undisturbed, Serving, Aligned
  <2>9. CASE DriveAdvances
    <3>1. /\ drive.busy /\ shaft' = shaft + (drive'.pos - drive.pos)
          /\ UNCHANGED <<unclean, boot, step, start, enabled, stop>>
      BY <2>9 DEF DriveAdvances, CanAdvance, process
    <3>2. drive.pos \in Int /\ drive'.pos \in Int
      BY DEF TypeOK, DriveSet
    <3>3. Aligned => Aligned'
      BY <2>0, <3>1, <3>2 DEF Aligned
    <3> QED BY <2>c, <3>1, <3>3 DEF AlignInv, AtRest, Undisturbed, Serving
  <2>10. CASE UNCHANGED vars
    BY <2>10 DEF vars, process, axis, AlignInv, AtRest, Undisturbed, Serving, Aligned
  <2> QED
    BY <2>1, <2>2, <2>3, <2>4, <2>5, <2>6, <2>7, <2>8, <2>9, <2>10
    DEF Next, MainThread, CommandThread, Elsewhere
<1>3. AlignInv => AlignedInService
  BY DEF AlignInv, AlignedInService, Undisturbed, Serving
<1> QED BY <1>1, <1>2, <1>3, TypeCorrect, PTL DEF Spec

=============================================================================
