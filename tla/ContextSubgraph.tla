--------------------------- MODULE ContextSubgraph ---------------------------
(***************************************************************************)
(* The subgraph that is collected around the entry points of a query       *)
(* (findRelevantContext of src/context/index.ts, from the point where the  *)
(* entry points are chosen): what the searches find from them, cut to a    *)
(* number of nodes, of nodes in a file, and of nodes in test files.        *)
(*                                                                         *)
(* The searches are those of Search, one after the other.  Where the code  *)
(* keeps the first of several nodes in the order of a map, any may be      *)
(* kept.  A node with members is taken for a type.                         *)
(***************************************************************************)
EXTENDS Search

CONSTANTS
    TestNodes,    \* nodes of test files
    searchLimit, maxNodes, traversalDepth,
    maxPerFile,   \* Max(5, 20% of maxNodes) in the code
    maxNonProd    \* Max(3, 15% of maxNodes) in the code

ASSUME ContextAssumption ==
    /\ TestNodes \subseteq Nodes
    /\ {searchLimit, maxNodes, traversalDepth, maxPerFile, maxNonProd} \subseteq Nat \ {0}

VARIABLES
    stage,        \* how far findRelevantContext is
    entry,        \* the entry points
    todo,         \* nodes whose search is to come
    gathered,     \* nodes: those of the context
    links,        \* edges: those of the context
    added,        \* hierarchyNodesAdded
    roots         \* the entry points that the context names

contextVars == <<stage, entry, todo, gathered, links, added, roots>>

Stages == {"none", "types", "siblings", "spread", "trim", "files", "tests", "edges", "done"}

ContextTypeOK ==
    /\ stage \in Stages
    /\ entry \subseteq Nodes /\ todo \subseteq Nodes /\ gathered \subseteq Nodes
    /\ roots \subseteq entry /\ links \subseteq Rows /\ added \in Nat

ContextAtRest ==
    /\ stage = "none" /\ added = 0
    /\ entry = {} /\ todo = {} /\ gathered = {} /\ links = {} /\ roots = {}

DividedUp(a, b) == (a + b - 1) \div b
maxHierarchyNodes == DividedUp(maxNodes, 4)
recoveryKinds == {"calls", "extends", "implements", "references", "overrides", "defines"}

-----------------------------------------------------------------------------
(* Collecting.                                                              *)

findRelevantContext(R) ==
    /\ stage = "none" /\ search = "none"
    /\ stage' = "types"
    /\ entry' = R /\ todo' = R /\ gathered' = R /\ roots' = R
    /\ UNCHANGED <<links, added, searchVars>>

\* The hierarchy of a type is asked for, as long as there is room.
AskHierarchy(n) ==
    /\ stage \in {"types", "siblings"} /\ search = "none"
    /\ n \in todo \cap Containers /\ added < maxHierarchyNodes
    /\ todo' = todo \ {n}
    /\ getTypeHierarchy(n)
    /\ UNCHANGED <<stage, entry, gathered, links, added, roots>>

\* The hierarchy of an entry point is added whole, with all its edges, that of a
\* type found so as far as there is room, with the edges that fit.
AddHierarchy(new) ==
    /\ stage \in {"types", "siblings"} /\ search = "getTypeHierarchy" /\ Finished
    /\ new \subseteq nodes \ gathered
    /\ LET room == maxHierarchyNodes - added
           whole == stage = "types" \/ Cardinality(nodes \ gathered) <= room
       IN  IF whole THEN new = nodes \ gathered ELSE Cardinality(new) = room
    /\ gathered' = gathered \cup new
    /\ added' = added + Cardinality(new)
    /\ links' = links \cup {e \in {found[i] : i \in DOMAIN found} :
                              stage = "siblings" => Ends(e) \subseteq gathered'}
    /\ Returned
    /\ UNCHANGED <<stage, entry, todo, roots>>

\* No type is left, or no room: the types found are next, then the traversals.
HierarchiesAdded ==
    /\ stage \in {"types", "siblings"} /\ search = "none"
    /\ todo \cap Containers = {} \/ added >= maxHierarchyNodes
    /\ IF stage = "types" /\ added > 0
       THEN stage' = "siblings" /\ todo' = (gathered \cap Containers) \ roots
       ELSE stage' = "spread" /\ todo' = entry
    /\ UNCHANGED <<entry, gathered, links, added, roots, searchVars>>

AskTraversal(n) ==
    /\ stage = "spread" /\ search = "none" /\ n \in todo
    /\ todo' = todo \ {n}
    /\ traverseBFS(n, "both", traversalDepth, DividedUp(maxNodes, Cardinality(entry)))
    /\ UNCHANGED <<stage, entry, gathered, links, added, roots>>

AddTraversal ==
    /\ stage = "spread" /\ search = "traverseBFS" /\ Finished
    /\ gathered' = gathered \cup nodes
    /\ links' = links \cup {found[i] : i \in DOMAIN found}
    /\ Returned
    /\ UNCHANGED <<stage, entry, todo, added, roots>>

TraversalsAdded ==
    /\ stage = "spread" /\ search = "none" /\ todo = {}
    /\ stage' = "trim"
    /\ UNCHANGED <<entry, todo, gathered, links, added, roots, searchVars>>

-----------------------------------------------------------------------------
(* Cutting.                                                                 *)

\* kept: as many of the nodes as there is room for, those of first before any
\* other
Preferred(kept, of, first, room) ==
    /\ kept \subseteq of
    /\ IF Cardinality(of) <= room THEN kept = of ELSE Cardinality(kept) = room
    /\ of \cap first \subseteq kept \/ kept \subseteq first

\* priorityIds: the entry points and, as the edges are walked through, what an
\* edge connects with one that is in.  The order of the edges decides how far
\* this goes beyond the neighbours of the entry points.
PriorityIds(ids) ==
    LET connected == [n \in Nodes |-> {m \in Nodes : \E e \in links : Ends(e) = {n, m}}]
    IN  /\ roots \cup UNION {connected[n] : n \in roots} \subseteq ids
        /\ ids \subseteq Closure(roots, connected)

\* The first of priorityIds, the entry points before the others, then other nodes
Trim(kept, ids) ==
    /\ stage = "trim" /\ stage' = "files"
    /\ IF Cardinality(gathered) <= maxNodes THEN kept = gathered
       ELSE /\ PriorityIds(ids)
            /\ Preferred(kept, gathered, roots, maxNodes)
            /\ Preferred(kept, gathered, ids, maxNodes)
    /\ gathered' = kept
    /\ UNCHANGED <<entry, todo, links, added, roots, searchVars>>

CapFiles(kept) ==
    /\ stage = "files" /\ stage' = "tests"
    /\ kept \subseteq gathered
    /\ \A f \in Files : LET of(S) == {n \in S : FileOf[n] = f}
                        IN  Preferred(of(kept), of(gathered), roots, maxPerFile)
    /\ gathered' = kept
    /\ UNCHANGED <<entry, todo, links, added, roots, searchVars>>

\* Unless the query is about tests; what is evicted is no root any more.
CapTests(evicted) ==
    /\ stage = "tests" /\ stage' = "edges"
    /\ evicted \subseteq gathered \cap TestNodes
    /\ LET tests == Cardinality(gathered \cap TestNodes)
       IN  \/ evicted = {}
           \/ tests > maxNonProd /\ Cardinality(evicted) = tests - maxNonProd
    /\ gathered' = gathered \ evicted
    /\ roots' = roots \ evicted
    /\ UNCHANGED <<entry, todo, links, added, searchVars>>

\* For a mutant: the edges are not filtered again after the caps.
EdgesLeftUnfiltered == links

EdgesLeft == {e \in links : Ends(e) \subseteq gathered}

\* The edges between the nodes that are left, and the recovered ones
FilterEdges ==
    /\ stage = "edges" /\ stage' = "done"
    /\ links' = EdgesLeft \cup {e \in edges : Ends(e) \subseteq gathered /\ e.kind \in recoveryKinds}
    /\ UNCHANGED <<entry, todo, gathered, added, roots, searchVars>>

ContextReturned ==
    /\ stage = "done" /\ stage' = "none" /\ added' = 0
    /\ entry' = {} /\ todo' = {} /\ gathered' = {} /\ links' = {} /\ roots' = {}
    /\ UNCHANGED searchVars

StartContext ==
    \E R \in SUBSET Nodes : R # {} /\ Cardinality(R) <= searchLimit /\ findRelevantContext(R)

ContextStep ==
    \/ \E n \in Nodes : AskHierarchy(n) \/ AskTraversal(n)
    \/ \E S \in SUBSET Nodes : AddHierarchy(S) \/ CapFiles(S) \/ CapTests(S)
    \/ \E S, ids \in SUBSET Nodes : Trim(S, ids)
    \/ HierarchiesAdded \/ AddTraversal \/ TraversalsAdded \/ FilterEdges \/ ContextReturned

-----------------------------------------------------------------------------
\* The subgraph has at most maxNodes nodes, no edge that leads out of it, and
\* every entry point that it names, whatever the caps evict, as long as the
\* entry points of one file do not exceed the cap themselves, nor all of them
\* that on all nodes (context/index.ts:934-1141).
ContextIsClosed ==
    stage = "done" =>
        /\ Cardinality(gathered) <= maxNodes
        /\ UNION {Ends(e) : e \in links} \subseteq gathered
        /\ (/\ Cardinality(entry) <= maxNodes
            /\ \A f \in Files : Cardinality({n \in entry : FileOf[n] = f}) <= maxPerFile)
           => roots \subseteq gathered

=============================================================================
