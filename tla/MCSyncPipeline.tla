--------------------------- MODULE MCSyncPipeline ---------------------------
(* An instance of SyncPipeline for TLC: two headers, one of which uses the  *)
(* macro as well, so that it can be ambiguous and a user can be deleted.    *)
EXTENDS SyncPipeline

CONSTANTS h, u, a, b

MCHeaders == {h, u}
MCUsers   == {u}
MCDefs    == {a, b}

\* Written again, a header defines the macro in another way, then in the first way.
MCDefAt == [c \in 1..MaxChanges + 1 |-> IF c = 2 THEN b ELSE a]

\* The properties of the passing run excuse what follows a cause: it is not
\* explored there.
MCNoCause == causes = {}
=============================================================================
