------------------------------- MODULE Encoder -------------------------------
(***************************************************************************)
(* The encoder of the output axis, from its frames on the serial line to   *)
(* the angle the daemon publishes: receivethread of am335x_setting.c with  *)
(* its buffer, the parsers of a frame, the wrap at half a turn and the     *)
(* filter that drops a position too far from the last one.                 *)
(*                                                                         *)
(* A frame is a header of two bytes, the position of the axis in one turn, *)
(* most significant byte first, and the sum of all that, modulo the radix. *)
(* A byte may be lost, and the first read may begin inside a frame.        *)
(***************************************************************************)
EXTENDS Integers, Sequences, SequencesExt

CONSTANTS Base,      \* the radix of a byte (256)
          Mark,      \* the header, two bytes (FF 81), of sum Base / 2
          Payload,   \* bytes of a position: 3 for encoder 1 and 2, 2 for 3
          Pulses,    \* g_pulse_per_circle: the highest count of a turn
          Direction, \* -1 for encoder 1, whose sense is opposite to the motor's
          Threshold, \* dlt_threshold, in pulses
          MaxStep,   \* pulses the axis makes between two frames at top speed
          Capacity,  \* sizeof g_recvbuf
          MaxRead,   \* the third argument of read
          Axis,      \* where the axis can be, in pulses from the encoder's zero
          MaxWire,   \* bound: bytes the serial driver holds
          MaxMoves,  \* bound: pulses the axis moves
          MaxLost    \* bound: bytes lost on the line

\* What a digit k places from the last is worth.
Weight(k) == CASE k = 0 -> 1 [] k = 1 -> Base [] k = 2 -> Base * Base

ASSUME EncoderAssumption ==
    /\ Base \in Nat \ {0, 1} /\ Mark \in [1..2 -> 0..(Base - 1)]
    /\ Payload \in {2, 3} /\ Pulses \in Nat \ {0} /\ Pulses < Base * Weight(Payload - 1)
    /\ Direction \in {-1, 1} /\ Threshold \in Nat \ {0}
    /\ Capacity \in Nat /\ MaxRead \in 1..Capacity
    /\ Axis \subseteq Int /\ MaxStep \in Nat
    /\ {MaxWire, MaxMoves, MaxLost} \subseteq Nat

VARIABLES
    axis,     \* the output axis
    heading,  \* which way it turns
    wire,     \* bytes in the serial driver
    buf,      \* g_recvbuf, its first g_recvlen bytes
    pc,       \* receivethread: at its read, or in the loop over the frames
    enabled,  \* encoder_is_enable_
    start,    \* g_start_angle, in pulses
    position, \* encoder_position
    latest,   \* history: the axis in the last frame sent
    seen,     \* history: the axis in all of them
    fooled,   \* history: a position was taken that is in none of them
    lost, moves

vars == <<axis, heading, wire, buf, pc, enabled, start, position, latest, seen, fooled, lost, moves>>

Abs(x) == IF x < 0 THEN -x ELSE x
Sum(bytes) ==
    LET s[i \in 0..Len(bytes)] == IF i = 0 THEN 0 ELSE s[i - 1] + bytes[i]
    IN  s[Len(bytes)] % Base
FrameLen == Payload + 3

-----------------------------------------------------------------------------
(* The encoder's side *)

\* The count of one turn, and its bytes.
Count(a) == a % (Pulses + 1)
Frame == [a \in Axis |->
    LET body == Mark \o [i \in 1..Payload |-> (Count(a) \div Weight(Payload - i)) % Base]
    IN  Append(body, Sum(body))]

-----------------------------------------------------------------------------
(* recv_proc_data_1, recv_proc_data_2 *)

IsHead(b, i) == b[i] = Mark[1] /\ b[i + 1] = Mark[2]
HeadsOf(b) == {i \in 1..(Len(b) - 1) : IsHead(b, i)}
FirstHead(b) == CHOOSE i \in 1..(Len(b) - 1) :
                    IsHead(b, i) /\ \A j \in 1..(i - 1) : ~IsHead(b, j)

\* There is a header and the frame behind it is complete.
HasFrame(b) == HeadsOf(b) # {} /\ FirstHead(b) + FrameLen - 1 <= Len(b)
First(b) == SubSeq(b, FirstHead(b), FirstHead(b) + FrameLen - 1)

\* A complete frame leaves the buffer with all that was before it, sound or not.
ConsumedOnly(b) == SubSeq(b, FrameLen + 1, Len(b))
Consumed(b) == SubSeq(b, FirstHead(b) + FrameLen, Len(b))

SoundAlways(f) == TRUE
Sound(f) == Last(f) = Sum(Front(f))
Value(f) == LET v[i \in 2..(2 + Payload)] == IF i = 2 THEN 0 ELSE v[i - 1] * Base + f[i]
            IN  v[2 + Payload]

\* The count as a signed position around zero, in the sense of the motor.
Signed(v) == Direction * (IF v > Pulses \div 2 THEN v - Pulses ELSE v)

\* A position too far from the last one is dropped.
NearLate(p, q) == Abs(p - q) < Threshold - 1
Near(p, q) == Abs(p - q) < Threshold

PositionOf == [a \in Axis |-> Signed(Count(a))]

-----------------------------------------------------------------------------

TypeOK ==
    /\ axis \in Axis /\ heading \in {-1, 1} /\ latest \in Axis /\ seen \subseteq Axis
    /\ wire \in Seq(0..(Base - 1)) /\ buf \in Seq(0..(Base - 1)) /\ Len(buf) < Capacity
    /\ pc \in {"read", "parse"} /\ enabled \in BOOLEAN
    /\ fooled \in BOOLEAN /\ {start, position} \subseteq Int
    /\ lost \in 0..MaxLost /\ moves \in 0..MaxMoves

\* The line is opened at any point of a frame.
Init ==
    /\ axis \in Axis /\ heading \in {-1, 1} /\ latest = axis /\ seen = {axis}
    /\ \E k \in 1..FrameLen : wire = SubSeq(Frame[axis], k, FrameLen)
    /\ buf = <<>> /\ pc = "read"
    /\ enabled = FALSE /\ start = 0 /\ position = 0 /\ fooled = FALSE
    /\ lost = 0 /\ moves = 0

\* The axis turns one way, at most MaxStep pulses between two frames.
Ahead == IF heading = 1 THEN axis..(axis + MaxStep) ELSE (axis - MaxStep)..axis
Emit ==
    /\ Len(wire) + FrameLen <= MaxWire
    /\ \E a \in Ahead \cap Axis :
         /\ moves' = moves + Abs(a - axis) /\ moves' <= MaxMoves
         /\ axis' = a
    /\ wire' = wire \o Frame[axis']
    /\ latest' = axis' /\ seen' = seen \cup {axis'}
    /\ UNCHANGED <<heading, buf, pc, enabled, start, position, fooled, lost>>

LoseByte ==
    /\ lost < MaxLost /\ lost' = lost + 1
    /\ \E i \in 1..Len(wire) : wire' = RemoveAt(wire, i)
    /\ UNCHANGED <<axis, heading, buf, pc, enabled, start, position, latest, seen, fooled, moves>>

\* read, which takes what there is; what does not fit empties the buffer.
Fits(n) == n + Len(buf) < Capacity
Read ==
    /\ pc = "read" /\ wire # <<>>
    /\ LET n == IF Len(wire) < MaxRead THEN Len(wire) ELSE MaxRead
           new == buf \o SubSeq(wire, 1, n)
       IN /\ wire' = SubSeq(wire, n + 1, Len(wire))
          /\ IF Fits(n) THEN buf' = new /\ pc' = "parse"
                        ELSE buf' = <<>> /\ UNCHANGED pc
    /\ UNCHANGED <<axis, heading, enabled, start, position, latest, seen, fooled, lost, moves>>

\* One sound frame: the first one ever gives the start angle.
Parse ==
    /\ pc = "parse" /\ Len(buf) > 2 /\ HasFrame(buf) /\ Sound(First(buf))
    /\ LET p == Signed(Value(First(buf))) IN
       /\ start' = IF enabled THEN start ELSE p
       /\ position' = IF ~enabled \/ Near(position, p) THEN p ELSE position
       /\ fooled' = (fooled \/ p \notin {PositionOf[a] : a \in seen})
    /\ enabled' = TRUE
    /\ buf' = Consumed(buf)
    /\ UNCHANGED <<axis, heading, wire, pc, latest, seen, lost, moves>>

\* Anything else ends the loop over the frames.
Break ==
    /\ pc = "parse" /\ pc' = "read"
    /\ \/ (Len(buf) <= 2 \/ ~HasFrame(buf)) /\ UNCHANGED buf
       \/ Len(buf) > 2 /\ HasFrame(buf) /\ ~Sound(First(buf)) /\ buf' = Consumed(buf)
    /\ UNCHANGED <<axis, heading, wire, enabled, start, position, latest, seen, fooled, lost, moves>>

Next == Emit \/ LoseByte \/ Read \/ Parse \/ Break

Spec == Init /\ [][Next]_vars

\* The encoder streams and the thread is scheduled.
Fairness == WF_vars(Emit) /\ WF_vars(Read) /\ WF_vars(Parse \/ Break)
FairSpec == Spec /\ Fairness

-----------------------------------------------------------------------------
(* Properties *)

\* No frame is taken that the encoder has not sent, wherever in a frame the first read
\* began, as long as no byte is lost: the first one, which no filter checks, gives
\* g_start_angle (recv_proc_data_*, receivethread).
NeverFooled == lost = 0 => ~fooled

\* As many bytes as a frame has, from byte i of the frame of a on.
Between(a, b, i) == SubSeq(Frame[a] \o Frame[b], i, i + FrameLen - 1)

\* What the numbers of an encoder must be for that: what looks like a frame between those
\* of two positions that may follow each other, and has a right sum, has the position of
\* one of them.
FramesApart ==
    \A a, b \in Axis : Abs(a - b) <= MaxStep =>
        \A i \in 2..FrameLen :
            IsHead(Between(a, b, i), 1) /\ Sound(Between(a, b, i))
                => Signed(Value(Between(a, b, i))) \in {PositionOf[a], PositionOf[b]}

\* A header such as FF 81 to the radix 256, which is enough for a turn of as many counts
\* as two bytes have: twice its sum is a multiple of the radix, twice its first byte is not.
HeaderApart ==
    /\ Base % 2 = 0 /\ Mark[1] # Mark[2]
    /\ (2 * (Mark[1] + Mark[2])) % Base = 0 /\ (2 * Mark[1]) % Base # 0

\* When all that was sent has been read, the angle published is that of the last frame,
\* as long as no byte is lost (g_recvbuf, the loop over the frames, the filter).
UpToDate ==
    lost = 0 /\ enabled /\ wire = <<>> /\ pc = "read" => position = PositionOf[latest]

\* What the numbers must be for that: what looks like a frame between those of two positions
\* never has a right sum, and the axis is never past the filter from one frame to the next.
FramesAlone ==
    \A a, b \in Axis : Abs(a - b) <= MaxStep =>
        \A i \in 2..FrameLen : ~(IsHead(Between(a, b, i), 1) /\ Sound(Between(a, b, i)))
StepsNear == \A a, b \in Axis : Abs(a - b) <= MaxStep => Near(PositionOf[a], PositionOf[b])

\* A count whose bytes show a header inside a stream of its frames.
Hidden == {a \in Axis : \E i \in 2..FrameLen : IsHead(Frame[a] \o Frame[a], i)}

\* Lost bytes do not cost the daemon its angle for good: once the axis rests, it is
\* published, unless its count hides a header or a false frame had a right sum.
FollowsAgain == <>[](axis \in Hidden \/ fooled \/ (enabled /\ position = PositionOf[axis]))

=============================================================================
