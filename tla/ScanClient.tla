----------------------------- MODULE ScanClient -----------------------------
(***************************************************************************)
(* The operator's window (Form1.cs) against the service the daemon          *)
(* promises: the UI thread with its clicks and the scan timer, the          *)
(* listening thread, the lock on the socket that both take, and datagrams   *)
(* that are lost or late in both directions.  The daemon is AxisService,    *)
(* with the $A sender of main.c.                                            *)
(***************************************************************************)
EXTENDS Integers, Sequences

CONSTANTS Positions,  \* where the operator may send the axis
          Scans,      \* the ends of the scans, <<left, right>>
          Gotos,      \* the motions of single buttons: commands "point" and "runto"
          WebGotos,   \* the motions of the web page
          Tolerance,  \* 0.3 degrees: how near the timer takes for arrived
          Unheard,    \* the angle shown before the first $A (360)
          MaxQueue,   \* bound: datagrams waiting at each end
          MaxClicks,  \* bound: buttons pressed other than to connect
          MaxUpsets   \* bound: datagrams lost, commands of another client, restarts

ASSUME ScanClientAssumption ==
    /\ Positions \subseteq Int /\ Unheard \in Int \ Positions
    /\ Scans \subseteq Positions \X Positions
    /\ Tolerance \in Nat \ {0}
    /\ {MaxQueue, MaxClicks, MaxUpsets} \subseteq Nat

VARIABLES
    phase, at, goal, done,   \* the daemon
    clientAddr,              \* the daemon's only client: the last one it heard
    up, down,                \* datagrams to the daemon and back
    link,                    \* mclient: "none" (null), "open", "shut" (closed, not null)
    lock,                    \* the listening thread is inside Receive
    sending,                 \* UI thread: the command it waits to send, <<>> for none
    ticking,                 \* UI thread: in timer1_Tick, past the status
    cmdstatus, timer, loop,  \* 0, 1 (check), 2 (scan); timer1; checkBox1
    left, right,             \* left_degree, right_degree
    mstatus, mangle,         \* what was last heard; of the status, whether it is FREE
    quiet,                   \* history: cancel was the last motion button
    clicks, upsets

axis    == <<phase, at, goal, done>>
daemon  == <<axis, clientAddr>>
scan    == <<cmdstatus, timer, loop, left, right, quiet>>
heard   == <<mstatus, mangle>>
ui      == <<sending, ticking, link>>
vars    == <<daemon, up, down, lock, ui, scan, heard, clicks, upsets>>

Axis == INSTANCE AxisService

Phases == {"starting", "idle", "locating", "turning", "stopping", "released"}
Cmds   == {"$", "point", "runto", "check", "cancel", "stop", "query"}
Cmd(c, p) == [cmd |-> c, to |-> p]
Plain(c)  == Cmd(c, Unheard)
Places == Positions \cup {Unheard}
CmdSet == [cmd : Cmds, to : Places]
Seen == {"free", "busy"}
MsgSet == [status : Seen, angle : Int]

ASSUME Gotos \cup WebGotos \subseteq {Cmd(c, p) : c \in {"point", "runto"}, p \in Positions}

TypeOK ==
    /\ phase \in Phases /\ at \in Int /\ goal \in Int /\ done \in BOOLEAN
    /\ clientAddr \in {"nobody", "window", "web"}
    /\ up \in Seq(CmdSet) /\ Len(up) <= MaxQueue
    /\ down \in Seq(MsgSet) /\ Len(down) <= MaxQueue
    /\ link \in {"none", "open", "shut"} /\ lock \in BOOLEAN
    /\ sending \in Seq(CmdSet) /\ Len(sending) <= 1 /\ ticking \in BOOLEAN
    /\ cmdstatus \in 0..2 /\ timer \in BOOLEAN /\ loop \in BOOLEAN
    /\ left \in Places /\ right \in Places
    /\ cmdstatus = 2 => {left, right} \subseteq Positions
    /\ mstatus \in Seen /\ mangle \in Int
    /\ quiet \in BOOLEAN /\ clicks \in 0..MaxClicks /\ upsets \in 0..MaxUpsets

Init ==
    /\ Axis!Init
    /\ clientAddr = "nobody" /\ up = <<>> /\ down = <<>>
    /\ link = "none" /\ lock = FALSE /\ sending = <<>> /\ ticking = FALSE
    /\ cmdstatus = 0 /\ timer = FALSE /\ loop \in BOOLEAN
    /\ left = Unheard /\ right = Unheard
    /\ mstatus = "free" /\ mangle = Unheard
    /\ quiet = FALSE /\ clicks = 0 /\ upsets = 0

-----------------------------------------------------------------------------
(* Datagrams: a full queue drops the newest, either end may lose one. *)

Post(q, m) == IF Len(q) < MaxQueue THEN Append(q, m) ELSE q

Lose ==
    /\ upsets < MaxUpsets /\ upsets' = upsets + 1
    /\ \/ up # <<>> /\ up' = Tail(up) /\ UNCHANGED down
       \/ down # <<>> /\ down' = Tail(down) /\ UNCHANGED up
    /\ UNCHANGED <<daemon, lock, ui, scan, heard, clicks>>

-----------------------------------------------------------------------------
(* The daemon *)

client == <<lock, ui, scan, heard, clicks, upsets>>

\* A motion is refused with $D unless the status is FREE, and every command before the
\* status is FREE for the first time.  Of the legs of the self check
\* only the last one, to the origin, is kept.
StartsMotion(c) ==
    \/ c.cmd \in {"point", "runto"} /\ goal' = c.to
       /\ phase' = (IF c.cmd = "point" THEN "locating" ELSE "turning") /\ Axis!Begin
    \/ c.cmd = "check" /\ goal' = 0 /\ phase' = "turning" /\ Axis!Begin

Handle ==
    /\ up # <<>> /\ phase # "released"
    /\ up' = Tail(up) /\ clientAddr' = "window"
    /\ LET c == Head(up) IN
       \/ c.cmd \in {"point", "runto", "check"}
          /\ IF phase = "idle" THEN StartsMotion(c) ELSE UNCHANGED axis
       \/ c.cmd = "cancel"
          /\ IF phase \in {"idle", "locating", "turning"} THEN Axis!Interrupt
             ELSE UNCHANGED axis
       \/ c.cmd = "stop"
          /\ IF phase = "starting" THEN UNCHANGED axis
             ELSE phase' = "released" /\ done' = FALSE /\ UNCHANGED <<at, goal>>
       \/ c.cmd \in {"$", "query"} /\ UNCHANGED axis
    /\ UNCHANGED <<down, client>>

\* platop.c: a command of the web page comes from a socket of its own, which the daemon
\* then takes for its client.
OtherClient(c) ==
    /\ upsets < MaxUpsets /\ upsets' = upsets + 1
    /\ phase # "released" /\ clientAddr' = "web"
    /\ IF phase = "idle" THEN StartsMotion(c) ELSE UNCHANGED axis
    /\ quiet' = FALSE
    /\ UNCHANGED <<up, down, lock, ui, cmdstatus, timer, loop, left, right, heard, clicks>>

\* hold.sh: a new process for one that was killed or has ended.  Its socket has received
\* nothing, so that it has no client; position_reset halts the axis before it serves.
Restart ==
    /\ upsets < MaxUpsets /\ upsets' = upsets + 1
    /\ phase' = "starting" /\ goal' = at /\ done' = FALSE /\ UNCHANGED at
    /\ clientAddr' = "nobody" /\ up' = <<>>
    /\ UNCHANGED <<down, lock, ui, scan, heard, clicks>>

\* The axis moves, and INP makes the status FREE.
Move == Axis!Travel /\ UNCHANGED <<clientAddr, up, down, client>>
Arrive ==
    /\ \/ Axis!Arrive
       \/ Axis!Settle /\ (phase = "turning" => at = goal)
    /\ UNCHANGED <<clientAddr, up, down, client>>

\* main: $A with the status and the angle.  It reads one after the other, as timer1_Tick
\* does: that a motion begins in between is shown there.  At 200 a second some of them
\* find room in the client's buffer; those that do not are left out.
SendStatus ==
    /\ phase # "released" /\ clientAddr = "window" /\ Len(down) < MaxQueue
    /\ down' = Append(down, [status |-> IF phase = "idle" THEN "free" ELSE "busy",
                             angle |-> at])
    /\ UNCHANGED <<axis, clientAddr, up, client>>

-----------------------------------------------------------------------------
(* The listening thread *)

listening == <<daemon, up, ui, scan, clicks, upsets>>

\* It takes the lock and blocks in Receive, which gives up after ReceiveTimeout.
Listen ==
    /\ link = "open" /\ ~lock /\ lock' = TRUE
    /\ UNCHANGED <<down, heard, listening>>

\* MessageParse: the angle and the status of a $A.  The other messages are only shown.
AngleWhileBusy(m) == IF m.status = "busy" THEN m.angle ELSE mangle
AngleOf(m) == m.angle
Take ==
    /\ lock /\ lock' = FALSE
    /\ down # <<>> /\ down' = Tail(down)
    /\ LET m == Head(down) IN
       mstatus' = m.status /\ mangle' = AngleOf(m)
    /\ UNCHANGED listening

NeverGivesUp == lock = FALSE
GivesUp == TRUE
ReceiveTimeout ==
    /\ lock /\ down = <<>> /\ GivesUp /\ lock' = FALSE
    /\ UNCHANGED <<down, heard, listening>>

-----------------------------------------------------------------------------
(* The UI thread *)

Ready == sending = <<>> /\ ~ticking
Click == Ready /\ clicks < MaxClicks /\ clicks' = clicks + 1
uiRest == <<daemon, up, down, lock, heard, upsets>>

\* IPconnect_Click opens the socket and sends "$" before the listening thread starts.
Connect ==
    /\ Ready /\ link # "open" /\ link' = "open"
    /\ up' = Post(up, Plain("$"))
    /\ UNCHANGED <<clicks, daemon, down, lock, heard, upsets, sending, ticking, scan>>

\* IPClose_Click: Receive is interrupted and the socket is gone; the timer runs on.
Close ==
    /\ Click /\ link # "none" /\ link' = "none" /\ down' = <<>> /\ lock' = FALSE
    /\ UNCHANGED <<daemon, up, heard, upsets, sending, ticking, scan>>

\* Every button below asks for a socket first, open or not.
Button == Click /\ link # "none"
Ask(c) == sending' = <<c>> /\ UNCHANGED <<ticking, link>>

\* What the timer does from then on.
CmdAfterScan   == 2
CmdAfterCheck  == 1

\* A button that is only served when the last status heard is FREE.
Scan(l, r) ==
    /\ Button /\ mstatus = "free"
    /\ left' = l /\ right' = r /\ cmdstatus' = CmdAfterScan /\ timer' = TRUE /\ quiet' = FALSE
    /\ Ask(Cmd("point", l)) /\ UNCHANGED <<loop, uiRest>>
Check ==
    /\ Button /\ mstatus = "free"
    /\ cmdstatus' = CmdAfterCheck /\ timer' = TRUE /\ quiet' = FALSE
    /\ Ask(Plain("check")) /\ UNCHANGED <<loop, left, right, uiRest>>
Goto(c) ==
    /\ Button /\ mstatus = "free"
    /\ cmdstatus' = 0 /\ quiet' = FALSE
    /\ Ask(c) /\ UNCHANGED <<timer, loop, left, right, uiRest>>

GoesOn == cmdstatus
CmdAfterCancel == 0
Cancel ==
    /\ Button /\ cmdstatus' = CmdAfterCancel /\ quiet' = TRUE
    /\ Ask(Plain("cancel")) /\ UNCHANGED <<timer, loop, left, right, uiRest>>
Inquire ==
    /\ Button /\ cmdstatus' = 0
    /\ Ask(Plain("query")) /\ UNCHANGED <<timer, loop, left, right, quiet, uiRest>>
CheckBox ==
    /\ Click /\ loop' = ~loop
    /\ UNCHANGED <<cmdstatus, timer, left, right, quiet, ui, uiRest>>

\* MotorStop_Click sends under the lock and then closes the socket.
MotorStop ==
    /\ Button /\ ~lock /\ link' = "shut" /\ down' = <<>>
    /\ up' = IF link = "open" THEN Post(up, Plain("stop")) ELSE up
    /\ cmdstatus' = 0
    /\ UNCHANGED <<daemon, lock, heard, upsets, sending, ticking, timer, loop, left, right, quiet>>

\* CommandSend: under the lock that the listening thread holds in Receive.  On a closed
\* socket the exception is caught and shown.
CommandSend ==
    /\ sending # <<>> /\ sending' = <<>>
    /\ \/ link = "open" /\ ~lock /\ up' = Post(up, Head(sending))
       \/ link # "open" /\ UNCHANGED up
    /\ UNCHANGED <<daemon, down, lock, heard, upsets, ticking, link, scan, clicks>>

\* timer1_Tick: the status, then the angle, each as the listening thread left it.
Near(p) == mangle - p < Tolerance /\ p - mangle < Tolerance
NextLegNear ==
    IF cmdstatus = 2 /\ Near(left) THEN <<Cmd("point", left)>> ELSE <<>>
NextLeg ==
    CASE cmdstatus = 1 /\ loop -> <<Plain("check")>>
      [] cmdstatus = 2 /\ Near(right) /\ loop -> <<Cmd("point", left)>>
      [] cmdstatus = 2 /\ ~Near(right) /\ Near(left) -> <<Cmd("point", right)>>
      [] OTHER -> <<>>

Tick ==
    /\ Ready /\ timer /\ mstatus = "free" /\ ticking' = TRUE
    /\ UNCHANGED <<sending, link, scan, clicks, uiRest>>
TickEnds ==
    /\ ticking /\ ticking' = FALSE /\ sending' = NextLeg
    /\ cmdstatus' = IF cmdstatus = 2 /\ Near(right) /\ ~loop THEN 0 ELSE cmdstatus
    /\ UNCHANGED <<link, timer, loop, left, right, quiet, clicks, uiRest>>

-----------------------------------------------------------------------------

Clicks ==
    \/ Connect \/ Close \/ Check \/ Cancel \/ Inquire \/ CheckBox \/ MotorStop
    \/ \E s \in Scans : Scan(s[1], s[2])
    \/ \E g \in Gotos : Goto(g)

Next ==
    \/ Lose \/ (\E g \in WebGotos : OtherClient(g)) \/ Restart \/ Handle \/ Move \/ Arrive \/ SendStatus
    \/ Listen \/ Take \/ ReceiveTimeout
    \/ Clicks \/ CommandSend \/ Tick \/ TickEnds

\* Every thread is scheduled; the UI thread gets the lock some time, though the listening
\* thread takes it again at once; the operator and the losses owe nothing.
FairSpec ==
    /\ Init /\ [][Next]_vars
    /\ WF_vars(Handle) /\ WF_vars(Move) /\ WF_vars(Arrive)
    /\ SF_vars(SendStatus)
    /\ WF_vars(Listen \/ Take \/ ReceiveTimeout)
    /\ SF_vars(CommandSend) /\ SF_vars(Tick) /\ WF_vars(TickEnds)

-----------------------------------------------------------------------------
(* Properties *)

\* The window does not freeze: a command the UI thread waits to send gets sent, though the
\* listening thread blocks in Receive with the lock and the daemon may be silent
\* (CommandSend, ListenUdp).
UiNeverFreezes == sending # <<>> ~> sending = <<>>

\* After a cancel the axis comes to rest for good: the scan timer starts no further leg,
\* whatever is still under way (Stop_Click, timer1_Tick).
CancelRests == (<>[]quiet) => <>[](phase \in {"idle", "released"})

\* A continuous scan that stands at one of its ends gets to the other one, though commands
\* and status messages are lost, late or seen halfway through the timer's work
\* (timer1_Tick, MessageParse).
Looping == cmdstatus = 2 /\ loop /\ timer /\ link = "open" /\ clientAddr = "window" /\ phase # "released"
StandsAt(p) == phase = "idle" /\ at = p
ScanTurns ==
    /\ (Looping /\ StandsAt(left)) ~> (~Looping \/ StandsAt(right))
    /\ (Looping /\ StandsAt(right)) ~> (~Looping \/ StandsAt(left))

\* Once the window has been heard it shows where the axis has come to rest, though datagrams
\* were lost, the page took the status away or the daemon was started anew in between: every
\* $A has the whole truth, and they never cease (main's loop, m_socket_read, MessageParse).
Served == phase = "idle" /\ clientAddr = "window" /\ link = "open"
FollowsAxis == Served ~> (mangle = at \/ ~Served)

=============================================================================
