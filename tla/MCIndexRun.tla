------------------------------ MODULE MCIndexRun ------------------------------
(* An instance of IndexRun for TLC.  The settings are one index each of a    *)
(* fresh database with the fast journal, of one that keeps its log, of an    *)
(* existing one whose log grows, of one with references enough for the pool, *)
(* and of a fresh one that another process opens.                            *)
EXTENDS IndexRun

CONSTANTS w1, w2

MCResolvers == {w1, w2}
MCSettings ==
    {{"fresh", "worker"}, {"fresh", "worker", "valve"}, {"valve"}, {"large"},
     {"fresh", "guest"}}

=============================================================================
