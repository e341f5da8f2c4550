------------------------------ MODULE MCSumAngle ------------------------------
(* Model checking of SumAngle: an odometer that is almost new, and sums whose text *)
(* grows by a digit on the way.                                                    *)
EXTENDS SumAngle

FiveAngles == -2..2
Sums == {1, 24, 27}

=============================================================================
