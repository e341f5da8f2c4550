------------------------------- MODULE SumAngle -------------------------------
(***************************************************************************)
(* The odometer: g_sum_angle, which every goto_point, goto_left and        *)
(* goto_right increases by the way it is about to send the axis, and       *)
(* sumangle.txt, which keeps it over restarts.  The file is opened "r+"    *)
(* and never truncated, so what it holds after a write is the new text and *)
(* whatever of the old one was longer.                                     *)
(*                                                                         *)
(* Angles are counted in the last decimal that "%lf" prints.               *)
(***************************************************************************)
EXTENDS Integers, Sequences

CONSTANTS Base,        \* the radix of the text
          InitialSums, \* what sumangle.txt may hold at the installation
          Angles,      \* destinations, and where the axis may stand
          MaxMoves,    \* bound: motions asked for
          MaxCrashes   \* bound: the process is killed

ASSUME SumAngleAssumption ==
    /\ Base \in Nat \ {0, 1} /\ InitialSums \subseteq Nat /\ Angles \subseteq Int
    /\ MaxMoves \in Nat /\ MaxCrashes \in Nat

VARIABLES
    pc,       \* main, then the command thread
    sum,      \* g_sum_angle
    file,     \* the text of sumangle.txt, a sequence of digits
    pos,      \* the axis, as the encoder shows it
    dest,     \* destination_angle
    moving,   \* the drive has a positioning outstanding
    base,     \* history: the sum at the installation
    travelled,\* history: the way the axis has gone since
    moves, crashes

vars == <<pc, sum, file, pos, dest, moving, base, travelled, moves, crashes>>

Abs(x) == IF x < 0 THEN -x ELSE x

-----------------------------------------------------------------------------
(* The text of a number and the number a text is read as *)

Power[k \in Nat] == IF k = 0 THEN 1 ELSE Base * Power[k - 1]

\* Digits to print n with, by its length.
Width(n) == CHOOSE k \in 1..(n + 1) : n < Power[k] /\ (k = 1 \/ Power[k - 1] <= n)
Text(n) == LET k == Width(n) IN [i \in 1..k |-> ((n \div Power[k - i]) % Base)]
ValueOf(t) == LET v[i \in 0..Len(t)] == IF i = 0 THEN 0 ELSE v[i - 1] * Base + t[i]
              IN  v[Len(t)]

\* A text written over the start of another one.
Over(old, new) == new \o SubSeq(old, Len(new) + 1, Len(old))

TypeOK ==
    /\ pc \in {"down", "read", "reset", "idle", "update", "open", "print", "start"}
    /\ sum \in Nat /\ file \in Seq(0..(Base - 1))
    /\ {pos, dest} \subseteq Int /\ moving \in BOOLEAN
    /\ {base, travelled} \subseteq Nat /\ moves \in 0..MaxMoves /\ crashes \in 0..MaxCrashes

Init ==
    /\ pc = "down" /\ sum = 0
    /\ base \in InitialSums /\ file = Text(base)
    /\ pos \in Angles /\ dest = pos /\ moving = FALSE
    /\ travelled = 0 /\ moves = 0 /\ crashes = 0

-----------------------------------------------------------------------------

\* The supervisor starts the process: g_sum_angle is 0 again.
Launch ==
    /\ pc = "down" /\ pc' = "read" /\ sum' = 0
    /\ UNCHANGED <<file, pos, dest, moving, base, travelled, moves, crashes>>

\* read_g_sum_angle adds what it reads.
ReadSum ==
    /\ pc = "read" /\ pc' = "reset"
    /\ sum' = sum + ValueOf(file)
    /\ UNCHANGED <<file, pos, dest, moving, base, travelled, moves, crashes>>

\* position_reset cancels what the drive was doing.
ResetPosition ==
    /\ pc = "reset" /\ pc' = "idle" /\ moving' = FALSE
    /\ UNCHANGED <<sum, file, pos, dest, base, travelled, moves, crashes>>

\* A motion is only accepted at standstill (MotorServo: FreeMeansStandstill).
Accept(a) ==
    /\ pc = "idle" /\ ~moving /\ moves < MaxMoves
    /\ pc' = "update" /\ dest' = a /\ moves' = moves + 1
    /\ UNCHANGED <<sum, file, pos, moving, base, travelled, crashes>>

Diff == Abs(dest - pos)

\* update_g_sum_angle
Update ==
    /\ pc = "update" /\ pc' = "open"
    /\ sum' = sum + Diff
    /\ UNCHANGED <<file, pos, dest, moving, base, travelled, moves, crashes>>

\* write_g_sum_angle opens the file "r+", and prints when it is closed.
OpenTruncating ==
    /\ pc = "open" /\ pc' = "print"
    /\ file' = <<>>
    /\ UNCHANGED <<sum, pos, dest, moving, base, travelled, moves, crashes>>
OpenSum ==
    /\ pc = "open" /\ pc' = "print"
    /\ UNCHANGED <<sum, file, pos, dest, moving, base, travelled, moves, crashes>>

PrintedBefore == sum - Diff
Printed == sum
PrintSum ==
    /\ pc = "print" /\ pc' = "start"
    /\ file' = Over(file, Text(Printed))
    /\ UNCHANGED <<sum, pos, dest, moving, base, travelled, moves, crashes>>

\* run_to_angle: START is obeyed or not; the way has been counted all the same.
Run ==
    /\ pc = "start" /\ pc' = "idle"
    /\ moving' \in {FALSE, dest # pos}
    /\ UNCHANGED <<sum, file, pos, dest, base, travelled, moves, crashes>>

\* cancel and stop.
Cancel ==
    /\ pc = "idle" /\ moving /\ moving' = FALSE
    /\ UNCHANGED <<pc, sum, file, pos, dest, base, travelled, moves, crashes>>

\* The drive does not need the process to go on.
Travel ==
    /\ moving
    /\ pos' = IF pos < dest THEN pos + 1 ELSE pos - 1
    /\ moving' = (pos' # dest) /\ travelled' = travelled + 1
    /\ UNCHANGED <<pc, sum, file, dest, base, moves, crashes>>

\* The sum command.
Query == pc = "idle" /\ UNCHANGED vars

\* Killed, or gone down in get_data_buf, which reads info.txt without a look at fopen.
Crash ==
    /\ pc # "down" /\ crashes < MaxCrashes
    /\ pc' = "down" /\ crashes' = crashes + 1
    /\ UNCHANGED <<sum, file, pos, dest, moving, base, travelled, moves>>

Next ==
    \/ Launch \/ ReadSum \/ ResetPosition
    \/ \E a \in Angles : Accept(a)
    \/ Update \/ OpenSum \/ PrintSum \/ Run \/ Cancel \/ Query
    \/ Travel \/ Crash

Spec == Init /\ [][Next]_vars

-----------------------------------------------------------------------------
(* Properties *)

\* The odometer on disk never goes back, over motions, failed ones, and kills at any
\* point of a write.
FileNeverGoesBack == [][ValueOf(file') >= ValueOf(file)]_vars

\* What the axis has gone, and what the motion under way will still go, is on disk
\* before it is gone: no kill makes the odometer forget travel (the update and the
\* write come before START in goto_point, goto_left, goto_right).
NeverUnderestimates ==
    base + travelled + (IF moving THEN Abs(dest - pos) ELSE 0) <= ValueOf(file)

=============================================================================
