---------------------------- MODULE MCResources ----------------------------
(* Model checking of Resources: lines that are asked for well, at a speed nobody   *)
(* knows, at another speed, and with a frame that cannot be set.                   *)
EXTENDS Resources

Ask(s, b, p) == [speed |-> s, bits |-> b, parity |-> p, stop |-> 1]
Line(s, p, raw) == [speed |-> s, bits |-> 8, parity |-> p, stop |-> 1, raw |-> raw]

RtuAsked  == {Ask(9600, 8, "E"), Ask(14400, 8, "E"), Ask(9600, 8, "none")}
UartAsked == {Ask(57600, 8, "N"), Ask(14400, 6, "S")}
AmplifierEnd == Line(9600, "E", TRUE)
EncoderEnd   == Line(57600, "N", TRUE)
AfterReset   == Line(38400, "N", FALSE)

=============================================================================
