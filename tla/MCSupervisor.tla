---------------------------- MODULE MCSupervisor ----------------------------
(* Values of the constants of Supervisor for TLC.                          *)
EXTENDS Supervisor

CONSTANTS c1, c2

NoChild == {}
OneChild == {c1}
TwoChildren == {c1, c2}
=============================================================================
