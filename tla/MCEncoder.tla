------------------------------ MODULE MCEncoder ------------------------------
(* Model checking of Encoder: bytes of radix 8, a header of sum 4.            *)
EXTENDS Encoder

Header == <<7, 5>>
NearZero == -4..3

\* What the theorem about NeverFooled needs of the constants holds here.
ASSUME SixteenBitTurn == HeaderApart /\ Pulses + 1 = Base * Base /\ MaxStep < Base

=============================================================================
