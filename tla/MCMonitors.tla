----------------------------- MODULE MCMonitors -----------------------------
(* Model checking of Monitors. *)
EXTENDS Monitors

\* The page's counters have 4 values, those of /proc/stat one more, and up to two are added to
\* each in the second.
AllSamples == [Fields -> 0..4]
AllGrowth  == [Fields -> 0..2]

=============================================================================
