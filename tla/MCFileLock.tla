----------------------------- MODULE MCFileLock -----------------------------
(* An instance of FileLock for TLC.                                        *)
EXTENDS FileLock

CONSTANTS p1, p2, p3

MCProcs == {p1, p2, p3}
=============================================================================
