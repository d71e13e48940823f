------------------------------- MODULE MCEngine -------------------------------
(* An instance of Engine for TLC.                                           *)
EXTENDS Engine

CONSTANTS s1, s2

MCSessions == {s1, s2}
MCCalls == {<<s1, 1>>, <<s1, 2>>}

=============================================================================
