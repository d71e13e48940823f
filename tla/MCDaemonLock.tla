---------------------------- MODULE MCDaemonLock ----------------------------
(* An instance of DaemonLock for TLC.                                      *)
EXTENDS DaemonLock

CONSTANTS d1, d2, d3

MCProcs == {d1, d2, d3}
=============================================================================
