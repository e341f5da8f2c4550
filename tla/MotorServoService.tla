------------------------- MODULE MotorServoService -------------------------
(* The daemon implements AxisService as long as no transaction fails and the  *)
(* amplifier raises no fault.                                                 *)
EXTENDS MotorServo

PhaseOf == [INITLIZING |-> "starting", FREE |-> "idle", LOCATING |-> "locating",
            LEFTORRIGHT |-> "turning", STOPING |-> "stopping"]

Service == INSTANCE AxisService
    WITH phase <- IF stop THEN "released" ELSE PhaseOf[status],
         at    <- drive.pos,
         goal  <- dest,
         done  <- reply = "$B" /\ ~stop

\* Every step of the daemon, its drive and its clients is a step of the promised
\* service or invisible to it, and a motion that was begun ends.
ImplementsService == Service!Spec

=============================================================================
