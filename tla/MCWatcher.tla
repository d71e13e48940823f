----------------------------- MODULE MCWatcher -----------------------------
(* An instance of Watcher for TLC: two files, one of them in a directory.  *)
EXTENDS Watcher

CONSTANTS fr, fd, d1

MCFiles == {fr, fd}
MCDirs  == {d1}
MCDirOf == [f \in MCFiles |-> IF f = fd THEN d1 ELSE Root]
=============================================================================
