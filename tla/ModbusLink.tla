------------------------------ MODULE ModbusLink ------------------------------
(***************************************************************************)
(* One Modbus RTU line and the two threads that use it: libmodbus as it is *)
(* compiled into the daemon (no error recovery, no flush) under the        *)
(* OPLOOPS attempts that every operation of alpha_motion_control.c makes.  *)
(*                                                                         *)
(* An RTU reply carries the function and the data, and neither a           *)
(* transaction number nor the address that was read: whoever reads next    *)
(* takes the next reply there is.  The command thread and, at the end,     *)
(* main (serve_off) call into the same context without a lock: one of them *)
(* may take the other's reply, or each a part of its bytes.                *)
(***************************************************************************)
EXTENDS Naturals, SequencesExt

CONSTANTS Threads,    \* the threads that use the line
          Signals,    \* OUT bits of the amplifier
          Coils,      \* CONT bits
          Registers,  \* register pairs
          Ops(_),     \* the operations a thread may ask for
          OPLOOPS,    \* attempts per operation
          MaxCalls,   \* bound: operations
          MaxFaults,  \* bound: requests or replies lost or spoilt, requests refused
          MaxLate,    \* bound: replies that come after the response timeout
          MaxChanges  \* bound: changes of an OUT bit

Cells == Signals \cup Coils \cup Registers
Functions == {"READ_COILS", "WRITE_SINGLE_COIL", "READ_HOLDING_REGISTERS",
              "WRITE_MULTIPLE_REGISTERS"}
Reading == {"READ_COILS", "READ_HOLDING_REGISTERS"}
OpSet == [fc : Functions, of : Cells, val : BOOLEAN]

ASSUME ModbusLinkAssumption ==
    /\ IsFiniteSet(Threads) /\ Cells # {}
    /\ \A t \in Threads : Ops(t) \subseteq OpSet
    /\ OPLOOPS \in Nat \ {0}
    /\ {MaxCalls, MaxFaults, MaxLate, MaxChanges} \subseteq Nat

VARIABLES
    op,       \* each thread's operation
    tries,    \* the attempts it has begun, 0 when it has none under way
    outcome,  \* how its last operation ended
    cell,     \* the amplifier's bits and registers
    requests, \* on the way to the amplifier
    replies,  \* in the serial driver, unread
    had,      \* history: what each thread's cell held since its call
    shared,   \* history: two threads have used the line at once
    hurt,     \* history: faults during the call
    astray,   \* history: whether a call found something on the line or in the driver, or
              \* a reply has been late or of a wrong length since
    calls, faults, late, changes

histories == <<had, shared, hurt, astray>>
vars == <<op, tries, outcome, cell, requests, replies, histories, calls, faults, late, changes>>

Outcomes == [how : {"none", "failed", "done"}, val : BOOLEAN]
None == [how |-> "none", val |-> FALSE]
Failed == [how |-> "failed", val |-> FALSE]
Done(v) == [how |-> "done", val |-> v]
Waiting == {t \in Threads : tries[t] > 0}

Reply(o, v) == [fc |-> o.fc, val |-> v, sound |-> TRUE]
Spoilt(r)   == [r EXCEPT !.sound = FALSE]
\* An exception reply: the function with its top bit set.
Exception   == [fc |-> "exception", val |-> FALSE, sound |-> TRUE]
\* Bytes that do not tell how long they are: a reply whose function or byte count was hit
\* (a byte with a parity error is delivered as 0), or the rest of one read short.
Debris      == [fc |-> "debris", val |-> FALSE, sound |-> FALSE]
ReplySet == [fc : Functions \cup {"exception", "debris"}, val : BOOLEAN, sound : BOOLEAN]

TypeOK ==
    /\ op \in [Threads -> OpSet] /\ tries \in [Threads -> 0..OPLOOPS]
    /\ outcome \in [Threads -> Outcomes]
    /\ cell \in [Cells -> BOOLEAN]
    /\ requests \in Seq(OpSet) /\ replies \in Seq(ReplySet)
    /\ had \in [Threads -> SUBSET BOOLEAN] /\ shared \in BOOLEAN
    /\ hurt \in [Threads -> Nat] /\ astray \in [Threads -> {"no", "since", "before"}]
    /\ {calls, faults, late, changes} \subseteq Nat

Init ==
    /\ op = [t \in Threads |-> CHOOSE o \in OpSet : TRUE]
    /\ tries = [t \in Threads |-> 0] /\ outcome = [t \in Threads |-> None]
    /\ cell = [c \in Cells |-> FALSE]
    /\ requests = <<>> /\ replies = <<>>
    /\ had = [t \in Threads |-> {}] /\ shared = FALSE
    /\ hurt = [t \in Threads |-> 0] /\ astray = [t \in Threads |-> "no"]
    /\ calls = 0 /\ faults = 0 /\ late = 0 /\ changes = 0

-----------------------------------------------------------------------------
(* The daemon's side *)

\* send_msg: nothing that is still unread is thrown away before.
Send(o) == requests' = Append(requests, o)

Call(t, o) ==
    /\ tries[t] = 0 /\ calls < MaxCalls /\ calls' = calls + 1
    /\ op' = [op EXCEPT ![t] = o] /\ tries' = [tries EXCEPT ![t] = 1]
    /\ outcome' = [outcome EXCEPT ![t] = None]
    /\ Send(o)
    /\ had' = [had EXCEPT ![t] = {cell[o.of]}]
    /\ shared' = (shared \/ Waiting # {})
    /\ hurt' = [hurt EXCEPT ![t] = 0]
    /\ astray' = [astray EXCEPT
                    ![t] = IF requests = <<>> /\ replies = <<>> THEN "no" ELSE "before"]
    /\ UNCHANGED <<cell, replies, faults, late, changes>>

\* _modbus_rtu_check_integrity: the sum of the message.
Integrity(r) == r.sound

\* check_confirmation: the length, which goes with the function, and the function; neither
\* address nor value.
AcceptsAny(o, r) == Integrity(r)
Accepts(o, r) == Integrity(r) /\ r.fc = o.fc

End(t, result) ==
    /\ tries' = [tries EXCEPT ![t] = 0] /\ outcome' = [outcome EXCEPT ![t] = result]
    /\ UNCHANGED requests

\* The for loop over OPLOOPS around each libmodbus call; check_register has none.
Attempts(o) == IF o.fc = "READ_HOLDING_REGISTERS" THEN 1 ELSE OPLOOPS
RetryOnce(t) == End(t, Failed)
Retry(t) ==
    IF tries[t] < Attempts(op[t])
    THEN tries' = [tries EXCEPT ![t] = @ + 1] /\ Send(op[t]) /\ UNCHANGED outcome
    ELSE End(t, Failed)

\* What a reading may leave that begins in the middle of a reply: it ends at a boundary or
\* inside a message, that one or a later one.
Torn == UNION {LET rest == SubSeq(replies, n + 1, Len(replies)) IN {rest, <<Debris>> \o rest} :
                   n \in 1..Len(replies)}

\* receive_msg: how much is read goes with the function and the byte count in the reply, so
\* a reply is read whole even when it is none of ours, unless it is one of these two that
\* is wrong; nothing is flushed.
UnreadExceptions == IF Head(replies) = Exception THEN {replies} ELSE {Tail(replies)}
UnreadAfter == IF Head(replies) = Debris THEN Torn ELSE {Tail(replies)}

Receive(t) ==
    /\ tries[t] > 0 /\ replies # <<>>
    /\ replies' \in UnreadAfter
    /\ IF Accepts(op[t], Head(replies))
       THEN End(t, Done(IF op[t].fc \in Reading THEN Head(replies).val ELSE op[t].val))
       ELSE Retry(t)
    /\ UNCHANGED <<op, cell, histories, calls, faults, late, changes>>

\* Two threads read at once and each gets a part of a reply: both attempts fail.
Split(t, u) ==
    /\ t # u /\ {t, u} \subseteq Waiting /\ replies # <<>>
    /\ replies' \in Torn
    /\ LET again == {v \in {t, u} : tries[v] < Attempts(op[v])} IN
       /\ tries' = [v \in Threads |-> IF v \in again THEN tries[v] + 1
                                     ELSE IF v \in {t, u} THEN 0 ELSE tries[v]]
       /\ outcome' = [v \in Threads |-> IF v \in {t, u} \ again THEN Failed ELSE outcome[v]]
       /\ \E order \in SetToSeqs(again) :
              requests' = requests \o [i \in DOMAIN order |-> op[order[i]]]
    /\ UNCHANGED <<op, cell, histories, calls, faults, late, changes>>

\* A reply was late or of a wrong length during the call.
Stray == astray' = [t \in Threads |-> IF t \in Waiting /\ astray[t] = "no" THEN "since"
                                                                         ELSE astray[t]]

\* select returns after the response timeout without a byte: the request or its reply
\* is lost, or the amplifier is late.
GivesUpContent(t) == End(t, Done(op[t].val))
GivesUp(t) == Retry(t)
Timeout(t) ==
    /\ tries[t] > 0 /\ replies = <<>>
    /\ \/ requests = <<>> /\ UNCHANGED <<late, astray>>
       \/ requests # <<>> /\ late < MaxLate /\ late' = late + 1 /\ Stray
    /\ GivesUp(t)
    /\ UNCHANGED <<op, cell, replies, had, shared, hurt, calls, faults, changes>>

-----------------------------------------------------------------------------
(* The line and the amplifier *)

\* The amplifier carries out the oldest request.
Effect(o) == IF o.fc \in Reading THEN cell ELSE [cell EXCEPT ![o.of] = o.val]
Sees(c) == had' = [t \in Threads |-> had[t] \cup {c[op[t].of]}]

Answer ==
    /\ requests # <<>>
    /\ LET o == Head(requests) IN
       /\ cell' = Effect(o) /\ Sees(cell')
       /\ replies' = Append(replies, Reply(o, cell[o.of]))
    /\ requests' = Tail(requests)
    /\ UNCHANGED <<op, tries, outcome, shared, hurt, astray, calls, faults, late, changes>>

Fault ==
    /\ faults < MaxFaults /\ faults' = faults + 1
    /\ hurt' = [t \in Threads |-> hurt[t] + 1]
    /\ UNCHANGED <<op, tries, outcome, shared, calls, late, changes>>

LoseRequest ==
    /\ Fault /\ requests # <<>>
    /\ requests' = Tail(requests)
    /\ UNCHANGED <<cell, replies, had, astray>>

\* The reply is lost, or one of its bytes is hit: only the sum is wrong, or how long it is
\* taken to be as well.
LoseReply ==
    /\ Fault /\ requests # <<>>
    /\ LET o == Head(requests) IN
       /\ cell' = Effect(o) /\ Sees(cell')
       /\ \/ /\ replies' \in {replies, Append(replies, Spoilt(Reply(o, cell[o.of])))}
             /\ UNCHANGED astray
          \/ replies' = Append(replies, Debris) /\ Stray
    /\ requests' = Tail(requests)

Refuse ==
    /\ Fault /\ requests # <<>>
    /\ replies' = Append(replies, Exception) /\ requests' = Tail(requests)
    /\ UNCHANGED <<cell, had, astray>>

Change(s) ==
    /\ changes < MaxChanges /\ changes' = changes + 1
    /\ cell' = [cell EXCEPT ![s] = ~@] /\ Sees(cell')
    /\ UNCHANGED <<op, tries, outcome, requests, replies, shared, hurt, astray, calls, faults, late>>

Next ==
    \/ \E t \in Threads : \E o \in Ops(t) : Call(t, o)
    \/ \E t \in Threads : Receive(t) \/ Timeout(t)
    \/ \E t, u \in Threads : Split(t, u)
    \/ Answer \/ LoseRequest \/ LoseReply \/ Refuse
    \/ \E s \in Signals : Change(s)

Spec == Init /\ [][Next]_vars

-----------------------------------------------------------------------------
(* Properties *)

Ended(t) == tries[t] = 0 /\ outcome[t].how = "done"

\* As long as one thread at a time used the line, an operation that finds nothing on it
\* leaves neither a request nor a reply behind for the next one, whatever was lost, had a
\* wrong sum or was refused, unless a reply was late or its function or byte count was hit:
\* nothing flushes (modbus_read_bits, modbus_write_bit and the retries).
NothingLeftBehind ==
    ~shared /\ (\A t \in Threads : astray[t] = "no")
        => Len(requests) + Len(replies) <= Cardinality(Waiting)

\* A read that found nothing on the line returns a value its own bit or register had since
\* the call, not the answer to another question, whatever was late or hit during the call
\* (get_out_status, is_INP, check_register).
ReadIsOwn ==
    \A t \in Threads :
        Ended(t) /\ op[t].fc \in Reading /\ ~shared /\ astray[t] # "before"
            => outcome[t].val \in had[t]

\* A write that found nothing on the line and reports success has taken effect, whatever was
\* lost, late or hit.  If it found something there, or two threads have used the line at
\* once (serve_off of main while the command thread is still at work), it has taken effect
\* or is on its way as long as nothing was lost: the amplifier is not left switched on by a
\* reply that was another one's.
WriteTookEffect ==
    \A t \in Threads :
        Ended(t) /\ op[t].fc \notin Reading =>
            \/ op[t].val \in had[t]
            \/ (shared \/ astray[t] = "before") /\ (faults = 0 => op[t] \in Range(requests))

\* An operation that found nothing on the line fails only after a fault in each of its
\* attempts: one message lost, refused or with a wrong sum is always made good (the OPLOOPS
\* loops).  Not so a late reply, or one whose function or byte count was hit: what that one
\* leaves in the driver can spoil every further attempt.
FailsOnlyAfterFaults ==
    \A t \in Threads :
        outcome[t].how = "failed" /\ ~shared /\ astray[t] = "no" => hurt[t] >= Attempts(op[t])

=============================================================================
