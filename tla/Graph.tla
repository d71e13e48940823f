-------------------------------- MODULE Graph --------------------------------
(***************************************************************************)
(* The code graph as the searches see it: the rows of the edges table and  *)
(* the queries over them (src/db/queries.ts), with the definitions of what *)
(* is near a node that the searches are compared with.                     *)
(*                                                                         *)
(* An edge is a record [source, target, kind].  A query gives a set of     *)
(* edges: the statements promise no order.                                 *)
(***************************************************************************)
EXTENDS Naturals, FiniteSets, Sequences

CONSTANTS
    Nodes,
    Rows,         \* the edges there may be
    FileOf,       \* the file of each node
    Containers,   \* nodes whose kind is one of containerKinds
    MaxEdges      \* bound: rows of the table

ASSUME GraphAssumption ==
    /\ IsFiniteSet(Nodes) /\ IsFiniteSet(Rows)
    /\ \A e \in Rows : e.source \in Nodes /\ e.target \in Nodes
    /\ DOMAIN FileOf = Nodes /\ Containers \subseteq Nodes
    /\ MaxEdges \in Nat

VARIABLE edges

InsertEdge(e) ==
    /\ e \notin edges /\ Cardinality(edges) < MaxEdges
    /\ edges' = edges \cup {e}

-----------------------------------------------------------------------------
(* Queries of the database.                                                 *)

Kinds == {e.kind : e \in Rows}
CallKinds == {"calls", "references", "imports"}
TypeKinds == {"extends", "implements"}
Files == {FileOf[n] : n \in Nodes}

getOutgoingEdges(n, kinds) == {e \in edges : e.source = n /\ e.kind \in kinds}
getIncomingEdges(n, kinds) == {e \in edges : e.target = n /\ e.kind \in kinds}

Ends(e) == {e.source, e.target}
Other(e, n) == IF e.source = n THEN e.target ELSE e.source

\* The files that the nodes of a file have edges into
getDependencyFilePaths(f) ==
    {FileOf[e.target] : e \in {d \in edges :
        FileOf[d.source] = f /\ FileOf[d.target] # f /\ d.kind # "contains"}}

-----------------------------------------------------------------------------
(* What is near a node.  A relation is a function from a node to the nodes  *)
(* one step from it.                                                        *)

Targets(kinds) == [n \in Nodes |-> {e.target : e \in getOutgoingEdges(n, kinds)}]
Sources(kinds) == [n \in Nodes |-> {e.source : e \in getIncomingEdges(n, kinds)}]

Neighbours(direction) ==
    [n \in Nodes |->
        (IF direction = "incoming" THEN {} ELSE Targets(Kinds)[n]) \cup
        (IF direction = "outgoing" THEN {} ELSE Sources(Kinds)[n])]

\* x, f[x], f[f[x]], ...
Iterate(f, x) == LET W[i \in Nat] == IF i = 0 THEN x ELSE f[W[i - 1]] IN W

\* The nodes that at most d steps lead to
Within(n, d, step) ==
    Iterate([S \in SUBSET Nodes |-> S \cup UNION {step[m] : m \in S}], {n})[d]

\* The least set that has S and, with a node, what one step leads to
Closure(S, step) ==
    {n \in Nodes : \A T \in SUBSET Nodes :
        S \subseteq T /\ (\A m \in T : step[m] \subseteq T) => n \in T}

Members == [n \in Nodes |-> IF n \in Containers THEN Targets({"contains"})[n] ELSE {}]

\* What a change of n may break, d references away: what refers to it, and, for
\* a container, to its members
Dependents(n, d) ==
    Iterate([S \in SUBSET Nodes |->
               Closure(S \cup UNION {Sources(Kinds \ {"contains"})[m] : m \in S}, Members)],
            Closure({n}, Members))[d]
=============================================================================
