------------------------------ MODULE Terminal ------------------------------
(***************************************************************************)
(* motor_term.c, the operator's text terminal: the main thread sends what   *)
(* is typed, the other one reads what the daemon answers.  Both make the    *)
(* socket when they find none, without a lock.                              *)
(***************************************************************************)
EXTENDS Integers, Sequences, FiniteSets

CONSTANTS Typed,      \* the lines the operator types, other than "exit" and "q"
          Junk,       \* what a buffer holds that nothing was read into
          MaxSockets, \* bound: sockets of one process
          MaxStarts,  \* bound: starts of the terminal
          MaxMail     \* bound: commands under way, and answers of the same content

ASSUME TerminalAssumption ==
    /\ Junk \notin Typed
    /\ MaxSockets \in Nat \ {0, 1} /\ {MaxStarts, MaxMail} \subseteq Nat

VARIABLES
    term,      \* "none", "running", "exited", "dead" (by a signal)
    pc,        \* what the two threads are doing
    sock,      \* the global sock: the number of a socket, 0 for -1
    port,      \* of every socket made: "none", "auto" or "own" (MY_PORT)
    buf_show,  \* what the stack buffer of get_command holds
    fsh_angle, \* the last angle heard
    to_daemon, from_daemon,  \* datagrams under way
    starts

mail     == <<to_daemon, from_daemon>>
termVars == <<term, pc, sock, port, buf_show, fsh_angle, mail, starts>>

Threads == {"main", "recv"}
Post(q, m) == IF Len(q) < MaxMail THEN Append(q, m) ELSE q
Same(q, m) == {i \in 1..Len(q) : q[i] = m}
PostAnswer(q, m) == IF Cardinality(Same(q, m)) < MaxMail THEN Append(q, m) ELSE q
Angle(v)  == [kind |-> "angle", v |-> v]
List      == [kind |-> "list", v |-> 0]

TerminalTypeOK ==
    /\ term \in {"none", "running", "exited", "dead"}
    /\ pc \in [Threads -> {"idle", "check", "socket", "bind", "send", "receive"}]
    /\ port \in Seq({"none", "auto", "own"}) /\ sock \in 0..Len(port)
    /\ buf_show \in Typed \cup {Junk} /\ fsh_angle \in Nat
    /\ Len(to_daemon) <= MaxMail
    /\ \A i \in 1..Len(from_daemon) : Cardinality(Same(from_daemon, from_daemon[i])) <= MaxMail
    /\ starts \in 0..MaxStarts

NoThreads == [t \in Threads |-> "idle"]
TerminalInit ==
    /\ term = "none" /\ pc = NoThreads /\ sock = 0 /\ port = <<>>
    /\ buf_show = Junk /\ fsh_angle = 0
    /\ to_daemon = <<>> /\ from_daemon = <<>> /\ starts = 0

Start ==
    /\ term # "running" /\ starts < MaxStarts /\ starts' = starts + 1
    /\ term' = "running" /\ pc' = [main |-> "idle", recv |-> "check"]
    /\ UNCHANGED <<sock, port, buf_show, fsh_angle, mail>>

Running == term = "running"
Goes(t, to) == pc' = [pc EXCEPT ![t] = to]

\* Everything the process had goes with it.
Ends(how) ==
    /\ term' = how /\ pc' = NoThreads /\ sock' = 0 /\ port' = <<>>
    /\ buf_show' = Junk /\ fsh_angle' = 0 /\ from_daemon' = <<>>

-----------------------------------------------------------------------------
(* init_sock, called by either thread *)

AfterInit(t) == IF t = "main" THEN "send" ELSE "receive"

CheckSock(t) ==
    /\ Running /\ pc[t] = "check"
    /\ Goes(t, IF sock = 0 THEN "socket" ELSE AfterInit(t))
    /\ UNCHANGED <<term, sock, port, buf_show, fsh_angle, mail, starts>>

MakeSocket(t) ==
    /\ Running /\ pc[t] = "socket" /\ Len(port) < MaxSockets
    /\ port' = Append(port, "none") /\ sock' = Len(port) + 1 /\ Goes(t, "bind")
    /\ UNCHANGED <<term, buf_show, fsh_angle, mail, starts>>

\* The socket that is bound is whatever the global holds by now.  One that has a port, or
\* a port that another socket has, of this process or another, is refused, and that ends
\* the process.
MayBind == port[sock] = "none" /\ \A s \in 1..Len(port) : port[s] # "own"
RefusedGoesOn(t) ==
    Goes(t, AfterInit(t)) /\ UNCHANGED <<term, sock, port, buf_show, fsh_angle, from_daemon>>
Refused(t) == Ends("exited")
BindSocket(t) ==
    /\ Running /\ pc[t] = "bind"
    /\ \/ /\ MayBind /\ port' = [port EXCEPT ![sock] = "own"] /\ Goes(t, AfterInit(t))
          /\ UNCHANGED <<term, sock, buf_show, fsh_angle, from_daemon>>
       \/ Refused(t)
    /\ UNCHANGED <<to_daemon, starts>>

-----------------------------------------------------------------------------
(* The main thread: get_command, sendbuf *)

Reads == Running /\ pc["main"] = "idle"

Enter(line) ==
    /\ Reads /\ buf_show' = line /\ Goes("main", "check")
    /\ UNCHANGED <<term, sock, port, fsh_angle, mail, starts>>
Exit == Reads /\ Ends("exited") /\ UNCHANGED <<to_daemon, starts>>

\* At the end of a pipe, for ever, and after a Ctrl-D the input is readable and gives
\* nothing: the byte before the buffer is written, and the buffer, which the last call may
\* have filled, is sent again.
ReadNothing ==
    /\ Reads /\ buf_show' \in {buf_show, Junk} /\ Goes("main", "check")
    /\ UNCHANGED <<term, sock, port, fsh_angle, mail, starts>>

\* A socket that is not bound yet gets a port of the system's choice with the first sendto.
Send ==
    /\ Running /\ pc["main"] = "send" /\ Goes("main", "idle")
    /\ port' = IF port[sock] = "none" THEN [port EXCEPT ![sock] = "auto"] ELSE port
    /\ to_daemon' = Post(to_daemon, [from |-> "terminal", line |-> buf_show])
    /\ UNCHANGED <<term, sock, buf_show, fsh_angle, from_daemon, starts>>

-----------------------------------------------------------------------------
(* The receiving thread *)

\* An angle is stored.  An answer with a comma and without "$A" ($E, $G, $H) is compared
\* with a null pointer: where that difference is positive it is memcpy's length, which no
\* process survives; where it is negative (32 bits) the answer is printed.
Receive ==
    /\ Running /\ pc["recv"] = "receive" /\ port[sock] = "own" /\ from_daemon # <<>>
    /\ LET m == Head(from_daemon) IN
       \/ m.kind = "list" /\ Ends("dead")
       \/ /\ fsh_angle' = IF m.kind = "angle" THEN m.v ELSE fsh_angle
          /\ from_daemon' = Tail(from_daemon)
          /\ UNCHANGED <<term, pc, sock, port, buf_show>>
    /\ UNCHANGED <<to_daemon, starts>>

InitSock(t) == CheckSock(t) \/ MakeSocket(t) \/ BindSocket(t)
TerminalNext ==
    \/ Start \/ (\E line \in Typed : Enter(line)) \/ Exit \/ ReadNothing \/ Send \/ Receive
    \/ \E t \in Threads : InitSock(t)

TerminalFairness ==
    /\ \A t \in Threads : WF_termVars(InitSock(t))
    /\ WF_termVars(Send) /\ WF_termVars(Receive)

-----------------------------------------------------------------------------
(* Properties *)

\* However the two threads share the work of init_sock, a terminal whose threads are both
\* past it listens on MY_PORT or is gone: it never runs on with a socket that no answer
\* reaches (init_sock).
NeverDeafSilently ==
    Running /\ pc["recv"] = "receive" /\ pc["main"] \in {"idle", "send"} => port[sock] = "own"

=============================================================================
