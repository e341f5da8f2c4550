------------------------------ MODULE MCStartup ------------------------------
(* Model checking of Startup: the points the clients ask for. *)
EXTENDS Startup

NearPoints == {0, 1}

=============================================================================
