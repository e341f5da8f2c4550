---------------------------- MODULE MCScanClient ----------------------------
(* Model checking of ScanClient: one window, an axis with two ends. *)
EXTENDS ScanClient

TwoEnds == {0, 1}
OneScan == {<<1, 0>>}
OneGoto == {Cmd("runto", 0)}
PointGoto == {Cmd("point", 1)}

=============================================================================
