------------------------------ MODULE Monitors ------------------------------
(***************************************************************************)
(* Terminal, web page and daemon together: they share the daemon's one      *)
(* clientAddr, which is whoever spoke last, and the shared memory.          *)
(***************************************************************************)
EXTENDS Terminal, StatusPage

CONSTANTS Lists,     \* the lines the daemon answers with a list: spdmsg, errormsg, query
          MaxUsers,  \* bound: starts of the terminal and requests of the page together
          MaxUpsets  \* bound: commands of the page and ends of the daemon's process

VARIABLES clientAddr,  \* "nobody", "terminal", "page" (whose socket is closed by then)
          spoke,       \* history: who was heard last by this process
          upsets

net  == <<clientAddr, spoke>>
vars == <<termVars, pageVars, net, upsets>>

TypeOK ==
    /\ TerminalTypeOK /\ StatusPageTypeOK
    /\ {clientAddr, spoke} \subseteq {"nobody", "terminal", "page"}

Init ==
    /\ TerminalInit /\ StatusPageInit
    /\ clientAddr = "nobody" /\ spoke = "nobody" /\ upsets = 0

Upset == upsets < MaxUpsets /\ upsets' = upsets + 1

ToClient(m) ==
    from_daemon' = IF clientAddr' = "terminal" /\ term = "running" THEN PostAnswer(from_daemon, m)
                   ELSE from_daemon

\* m_socket_write: main's $A, every turn of the loop.
SendAngle ==
    /\ Sent /\ UNCHANGED net /\ ToClient(Angle(curangle))
    /\ UNCHANGED <<term, pc, sock, port, buf_show, fsh_angle, to_daemon, starts,
                   upsets>>

\* m_socket_read and run_cmd: the sender becomes the client, then it is answered.  Answers
\* that the terminal only prints are left out; what is no command gets none.
FirstClient(from) == IF clientAddr = "nobody" THEN from ELSE clientAddr
Client(from) == from
HandleCommand ==
    /\ up /\ to_daemon # <<>> /\ to_daemon' = Tail(to_daemon)
    /\ LET m == Head(to_daemon) IN
       /\ clientAddr' = Client(m.from) /\ spoke' = m.from
       /\ IF m.line \in Lists THEN ToClient(List) ELSE UNCHANGED from_daemon
    /\ UNCHANGED <<term, pc, sock, port, buf_show, fsh_angle, starts, pageVars,
                   upsets>>

\* send_cmd of platop.c: a socket of its own that is closed at once.
PageCommand ==
    /\ Upset
    /\ to_daemon' = Post(to_daemon, [from |-> "page", line |-> "cancel"])
    /\ UNCHANGED <<term, pc, sock, port, buf_show, fsh_angle, from_daemon, starts,
                   pageVars, net>>

\* The daemon's socket goes with its process, and the new one knows nobody.
DaemonEnds ==
    /\ Upset /\ Dies /\ clientAddr' = "nobody" /\ spoke' = "nobody" /\ to_daemon' = <<>>
    /\ UNCHANGED <<term, pc, sock, port, buf_show, fsh_angle, from_daemon, starts>>

Loop == ReadStatus \/ ReadAngle \/ CopyWord
Page == Ask \/ ReadMem \/ Answered

\* Terminal and request share nothing, so that one of them at a time is enough; a reading of
\* the processor's usage shares nothing with anybody, and is enough before all the rest.
Untouched == ~up /\ starts + requests + changes + upsets = 0
Next ==
    \/ Untouched /\ Usage /\ UNCHANGED <<termVars, net, upsets>>
    \/ /\ occupy = <<>>
       /\ \/ TerminalNext /\ UNCHANGED <<pageVars, net, upsets>>
          \/ (Loop \/ Page \/ Attach \/ \E f \in {"angle", "status"} : Change(f))
                /\ UNCHANGED <<termVars, net, upsets>>
          \/ SendAngle \/ HandleCommand \/ PageCommand \/ DaemonEnds
       /\ starts' + requests' <= MaxUsers

Spec == Init /\ [][Next]_vars

\* The scheduler runs every thread, the supervisor starts the daemon again; the operator,
\* the page and the end of a process owe nothing.
FairSpec ==
    /\ Spec
    /\ TerminalFairness
    /\ WF_vars(Loop /\ UNCHANGED <<termVars, net, upsets>>) /\ WF_vars(SendAngle)
    /\ WF_vars(HandleCommand)

\* A terminal that was the last one to speak hears where the axis is, or something newer,
\* though the page took the angles away before and the daemon was started anew (m_socket_read,
\* m_socket_write, recvsocket).
Hearing == spoke = "terminal" /\ Running /\ pc["recv"] = "receive" /\ up
TerminalHears ==
    \A v \in 1..MaxChanges : (Hearing /\ now.angle >= v) ~> (fsh_angle >= v \/ ~Hearing)

=============================================================================
