--------------------------- MODULE MCTelemetryAuth ---------------------------
(* TelemetryAuth on small instances; the constants that are sets of numbers *)
(* get their values here.                                                   *)
EXTENDS TelemetryAuth, TLC

NoSkew   == {0}
FastOnly == {0, 2}    \* an NTP-synchronised clock, or one 2 ticks fast
===============================================================================
