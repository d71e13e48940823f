----------------------------- MODULE MCTraversal -----------------------------
(* An instance of Traversal for TLC: four nodes in three files, a class, its *)
(* member, a class that may extend it, and a test; almost any of them may    *)
(* call another.                                                             *)
EXTENDS Traversal

CONSTANTS n1, n2, n3, n4, f1, f2, f3

MCNodes == {n1, n2, n3, n4}
MCFileOf == [n \in MCNodes |-> CASE n \in {n1, n2} -> f1 [] n = n3 -> f2 [] n = n4 -> f3]
Row(kind, s, t) == [source |-> s, target |-> t, kind |-> kind]
MCRows ==
    {Row("calls", p[1], p[2]) : p \in {<<n1, n3>>, <<n3, n1>>, <<n2, n3>>, <<n3, n4>>,
                                       <<n4, n1>>, <<n4, n3>>, <<n3, n3>>}}
    \cup {Row("contains", n1, n2), Row("extends", n3, n1), Row("extends", n4, n3)}
MCTypeRows == {Row("extends", p[1], p[2]) : p \in MCNodes \X MCNodes}
=============================================================================
