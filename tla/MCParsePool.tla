----------------------------- MODULE MCParsePool -----------------------------
(* An instance of ParsePool for TLC.                                        *)
EXTENDS ParsePool

CONSTANTS NWorkers

MCWorkers == 1..NWorkers
=============================================================================
