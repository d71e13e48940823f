---------------------------- MODULE MCDatabaseOpen ----------------------------
(* An instance of DatabaseOpen for TLC.                                     *)
EXTENDS DatabaseOpen

CONSTANTS p1, p2, p3

MCProcesses == {p1, p2, p3}

=============================================================================
