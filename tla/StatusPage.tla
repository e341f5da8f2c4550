----------------------------- MODULE StatusPage -----------------------------
(***************************************************************************)
(* The web page beside the daemon: main publishes angle and status in       *)
(* shared memory without a lock, and every request of the page is a process *)
(* of its own that copies them (platop.c), sends a command, or shows how    *)
(* busy the processor is (info.c, platforminfo.c).                          *)
(***************************************************************************)
EXTENDS Integers, Sequences

CONSTANTS Samples,      \* what the counters of /proc/stat, 64 bits wide, may be at first
          Grown,        \* what may be added to them in a second
          Modulus,      \* the page's own counters are unsigned of so many values
          MaxChanges,   \* bound: changes of angle or status
          MaxRequests   \* bound: requests of the page

Fields == {"user", "nice", "system", "idle"}

ASSUME StatusPageAssumption ==
    /\ Modulus \in Nat \ {0}
    /\ Samples \subseteq [Fields -> Nat] /\ Grown \subseteq [Fields -> Nat]
    /\ {MaxChanges, MaxRequests} \subseteq Nat

VARIABLES
    up,        \* the daemon is in its loop
    now,       \* angle and status, each by the number of its version
    publish,   \* main's loop: "status", "angle", "send", "copy"
    word,      \* the next word to copy
    curangle, ctrl_status,  \* what this turn of the loop has read
    shm,       \* the segment: <<>> until it exists, then its three words
    complete,  \* history: the words of the last publication that was completed
    request,   \* the request being served
    occupy,    \* of the usage shown: the counters at first, then what has been added to them
    changes, requests

pubVars  == <<up, publish, word, curangle, ctrl_status, shm, complete>>
pageSide == <<request, requests, occupy>>
pageVars == <<pubVars, now, changes, pageSide>>

Words == 1..3   \* of the 32 bytes: the halves of the double, the status
Zeros == <<0, 0, 0>>
NoRequest == [page |-> "none", words |-> <<>>, since |-> Zeros]

StatusPageInit ==
    /\ up = FALSE /\ now = [angle |-> 0, status |-> 0]
    /\ publish = "none" /\ word = 1 /\ curangle = 0 /\ ctrl_status = 0
    /\ shm = <<>> /\ complete = Zeros
    /\ request = NoRequest /\ occupy = <<>>
    /\ changes = 0 /\ requests = 0

StatusPageTypeOK ==
    /\ up \in BOOLEAN /\ now \in [angle : Nat, status : Nat]
    /\ publish \in {"none", "status", "angle", "send", "copy"} /\ word \in Words
    /\ {curangle, ctrl_status} \subseteq Nat
    /\ shm \in Seq(Nat) /\ Len(shm) \in {0, 3} /\ complete \in Seq(Nat)
    /\ request.page \in {"none", "myinfo"}
    /\ occupy = <<>> \/ occupy[1] \in Samples
    /\ up <=> publish # "none"

-----------------------------------------------------------------------------
(* main *)

Change(f) ==
    /\ up /\ changes < MaxChanges /\ changes' = changes + 1
    /\ now' = [now EXCEPT ![f] = @ + 1]
    /\ UNCHANGED <<pubVars, pageSide>>

\* The segment outlives the process, and a new one takes it as it is.
Attach ==
    /\ ~up /\ up' = TRUE /\ publish' = "status" /\ word' = 1
    /\ shm' = IF shm = <<>> THEN Zeros ELSE shm
    /\ UNCHANGED <<now, curangle, ctrl_status, complete, changes, pageSide>>
Dies ==
    /\ up /\ up' = FALSE /\ publish' = "none"
    /\ UNCHANGED <<word, now, curangle, ctrl_status, shm, complete, changes, pageSide>>

loopRest == <<up, now, complete, changes, pageSide>>
ReadStatus ==
    /\ publish = "status" /\ publish' = "angle" /\ ctrl_status' = now.status
    /\ UNCHANGED <<curangle, shm, word, loopRest>>
ReadAngle ==
    /\ publish = "angle" /\ publish' = "send" /\ curangle' = now.angle
    /\ UNCHANGED <<ctrl_status, shm, word, loopRest>>

\* What becomes of the datagram, the caller says.
Sent ==
    /\ publish = "send" /\ publish' = "copy"
    /\ UNCHANGED <<curangle, ctrl_status, shm, word, loopRest>>

\* memcpy of the 32 bytes, a word at a time, in the order of their addresses.
shmbufOfFloats == <<curangle, ctrl_status, ctrl_status>>
shmbuf == <<curangle, curangle, ctrl_status>>
CopyWord ==
    /\ publish = "copy" /\ shm' = [shm EXCEPT ![word] = shmbuf[word]]
    /\ word' = (word % 3) + 1
    /\ IF word = 3 THEN publish' = "status" /\ complete' = <<curangle, curangle, ctrl_status>>
       ELSE UNCHANGED <<publish, complete>>
    /\ UNCHANGED <<up, now, curangle, ctrl_status, changes, pageSide>>

-----------------------------------------------------------------------------
(* platop.c *)

daemonSide == <<pubVars, now, changes>>

Ask ==
    /\ request.page = "none" /\ requests < MaxRequests /\ requests' = requests + 1
    /\ request' = [page |-> "myinfo", words |-> <<>>, since |-> complete]
    /\ UNCHANGED <<daemonSide, occupy>>

\* readmem: without a segment shmget fails, the initial 0.1 and 1 are shown.
ReadMem ==
    /\ request.page = "myinfo" /\ Len(request.words) < 3
    /\ request' = IF shm = <<>> THEN NoRequest
                  ELSE [request EXCEPT !.words = Append(@, shm[Len(@) + 1])]
    /\ UNCHANGED <<daemonSide, requests, occupy>>
Shown == request.page = "myinfo" /\ Len(request.words) = 3

Answered ==
    /\ Shown
    /\ request' = NoRequest /\ UNCHANGED <<daemonSide, requests, occupy>>

-----------------------------------------------------------------------------
(* info.c and platforminfo.c: the usage of the processor over a second.  A request shares *)
(* nothing with another or with the daemon's loop.                                       *)

\* get_occupy: sscanf(%u) where a long has 32 bits.  Past the range C leaves the result open;
\* the library the page is built with gives the greatest value.
Read(c) == [f \in Fields |-> IF c[f] < Modulus THEN c[f] ELSE Modulus - 1]
Later(o, d) == [f \in Fields |-> o[f] + d[f]]

\* cal_occupy: the sums and the differences are unsigned, only then made double.
Wrap(n)  == n % Modulus
SumOf(c) == c.user + c.nice + c.system + c.idle
Delta(n, o) == Wrap(n - o)
cal_occupyWithoutNice(o, n) ==
    [num |-> 100 * (Delta(n.system, o.system) + Delta(n.user, o.user)),
     den |-> Wrap(SumOf(n) - n.nice) - Wrap(SumOf(o) - o.nice)]
cal_occupy(o, n) ==
    [num |-> 100 * (Delta(n.system, o.system) + Delta(n.user, o.user)),
     den |-> Wrap(SumOf(n)) - Wrap(SumOf(o))]
cpumem_info == cal_occupy(Read(occupy[1]), Read(Later(occupy[1], occupy[2])))

\* get_occupy, a second, get_occupy, then the row of the table.
FirstReading ==
    /\ occupy = <<>> /\ \E o \in Samples : occupy' = <<o>>
    /\ UNCHANGED <<daemonSide, request, requests>>
SecondReading ==
    /\ Len(occupy) = 1 /\ \E d \in Grown : occupy' = Append(occupy, d)
    /\ UNCHANGED <<daemonSide, request, requests>>
UsageShown ==
    /\ Len(occupy) = 2 /\ occupy' = <<>>
    /\ UNCHANGED <<daemonSide, request, requests>>
Usage == FirstReading \/ SecondReading \/ UsageShown

-----------------------------------------------------------------------------
(* Properties *)

\* Each word the page shows is at least as new as the last publication that was complete
\* when the request came, over restarts of the daemon and in spite of the copies that run
\* at the same time (readmem, main's loop).  The words need not belong together.
FreshFields == Shown => \A i \in Words : request.words[i] >= request.since[i]

\* The usage shown is the share of user and system in the time that went by, as long as each
\* counter is within the range of its own; their sum may have left the range before, but not
\* in this second (get_occupy, cal_occupy).  Past the range a counter is read as standing still.
UsageIsShare ==
    Len(occupy) = 2 =>
        LET o == occupy[1]  d == occupy[2]  u == cpumem_info IN
        /\ SumOf(d) > 0 /\ Wrap(SumOf(o)) + SumOf(d) < Modulus
        /\ \A f \in Fields : Later(o, d)[f] < Modulus
        => /\ u.num * SumOf(d) = 100 * (d.user + d.system) * u.den
           /\ 0 <= u.num /\ u.num <= 100 * u.den

=============================================================================
