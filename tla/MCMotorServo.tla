---------------------------- MODULE MCMotorServo ----------------------------
(* Small instances of MotorServo: the commands each run's clients may send.  *)
EXTENDS MotorServoService

Minus2 == -2
Minus1 == -1

Ask(c, v, w) == [cmd |-> c, v |-> v, w |-> w]
Bare(cs) == {Ask(c, 0, 0) : c \in cs}
Points(vs) == {Ask("GPOINT", v, 0) : v \in vs}

\* Motions, their interruption and limits that move under them; 3 lies beyond every
\* limit, and the limits always contain the origin.
MotionRequests == Points({-3, 1}) \cup Bare({"GLEFT", "GRIGHT", "GPST_CANCEL", "GEMG", "GNONE"})
                    \cup {Ask("GMAX_POINT", 1, -1), Ask("GMAX_POINT", -5, 5)}

\* Every kind of handler.
FaultRequests == Points({1}) \cup Bare({"GLEFT", "GCHECK", "GPST_CANCEL", "GEMG", "GALARM_RST",
                                       "GERROR_MSG", "GSPEEDMSG", "GSUM"})
                   \cup {Ask("GSPEED", 3, 0), Ask("GACCE_TIME", 9, 0), Ask("GDECE_TIME", -1, 0)}

\* What has to end.  configure.ini leaves the axis right of both limits, a maxpoint left of
\* them, and another takes it in again.
LiveRequests == Points({1}) \cup Bare({"GCHECK", "GEMG", "GPST_CANCEL"})
                  \cup {Ask("GMAX_POINT", 2, 1), Ask("GMAX_POINT", -1, 1)}

\* Limits that leave the axis right of both, then a self check.
CheckRequests == Bare({"GCHECK", "GEMG"}) \cup {Ask("GMAX_POINT", -2, -1)}

=============================================================================
