---------------------------- MODULE MCDaemonClients ----------------------------
(* An instance of DaemonClients for TLC.                                    *)
EXTENDS DaemonClients

=============================================================================
