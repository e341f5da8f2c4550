---------------------------- MODULE AxisService ----------------------------
(***************************************************************************)
(* What the daemon promises its clients about the axis, without the        *)
(* amplifier, the Modbus line or the command thread: one motion at a time, *)
(* travel only towards the goal and never while idle or released, "done"   *)
(* for a located point only, and only with the axis on its goal.           *)
(***************************************************************************)
EXTENDS Integers

VARIABLES phase,  \* what the status tells the clients
          at,     \* the axis
          goal,   \* where the motion goes
          done    \* the positioning is being reported as done

vars == <<phase, at, goal, done>>

Init == phase = "starting" /\ at = 0 /\ goal = 0 /\ done = FALSE

Begin ==
    /\ phase = "idle" /\ phase' \in {"locating", "turning"}
    /\ done' = FALSE /\ goal' \in Int
    /\ UNCHANGED at

\* A motion may have several legs; each gets its goal here.
Choose ==
    /\ phase \in {"locating", "turning", "released"} /\ goal' \in Int
    /\ UNCHANGED <<phase, at, done>>

Travel ==
    /\ phase \in {"locating", "turning", "stopping"}
    /\ at # goal /\ at' = (IF at < goal THEN at + 1 ELSE at - 1)
    /\ UNCHANGED <<phase, goal, done>>

Arrive ==
    /\ phase = "locating" /\ at = goal
    /\ phase' = "idle" /\ done' = TRUE
    /\ UNCHANGED <<at, goal>>

Settle ==
    /\ phase \in {"starting", "turning", "stopping"}
    /\ phase' = "idle" /\ done' = FALSE
    /\ UNCHANGED <<at, goal>>

Interrupt ==
    /\ phase \in {"idle", "locating", "turning"}
    /\ phase' = "stopping" /\ done' = FALSE
    /\ UNCHANGED <<at, goal>>

Acknowledge == done /\ done' = FALSE /\ UNCHANGED <<phase, at, goal>>

Release ==
    /\ phase = "stopping" /\ phase' = "released" /\ done' = FALSE
    /\ UNCHANGED <<at, goal>>

Next == \/ Begin \/ Choose \/ Travel \/ Arrive \/ Settle
        \/ Interrupt \/ Acknowledge \/ Release

\* A motion that was begun comes to its end.
Spec == /\ Init /\ [][Next]_vars
        /\ WF_vars(Travel) /\ WF_vars(Arrive) /\ WF_vars(Settle)

============================================================================
