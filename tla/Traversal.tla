------------------------------ MODULE Traversal ------------------------------
(***************************************************************************)
(* Searches over every graph that rows of the edges table can make: those  *)
(* of GraphTraverser on their own or called by findRelevantContext, and    *)
(* the one for circular dependencies.  Only one of them runs at a time;    *)
(* the table changes between them.                                         *)
(***************************************************************************)
EXTENDS ContextSubgraph, FileCycles

vars == <<edges, searchVars, contextVars, cycleVars>>

TypeOK == SearchTypeOK /\ ContextTypeOK /\ CycleTypeOK

Init == edges = {} /\ SearchInit /\ ContextAtRest /\ CycleInit

Quiet == search = "none" /\ stage = "none" /\ ~looking

Insert ==
    /\ Quiet /\ \E e \in Rows : InsertEdge(e)
    /\ UNCHANGED <<searchVars, contextVars, cycleVars>>

Searching ==
    /\ \/ Quiet /\ StartSearch
       \/ SearchStep
       \/ (stage = "none" /\ Finished /\ Returned)
    /\ UNCHANGED <<edges, contextVars, cycleVars>>

Collecting ==
    /\ (Quiet /\ StartContext) \/ ContextStep
    /\ UNCHANGED <<edges, cycleVars>>

Tracing ==
    /\ (Quiet /\ findCircularDependencies) \/ CycleStep \/ CyclesReturned
    /\ UNCHANGED <<edges, searchVars, contextVars>>

Next == Insert \/ Searching \/ Collecting \/ Tracing

Spec == Init /\ [][Next]_vars

\* The searches return what their definitions say, no more and no less: by
\* breadth, by depth, along a shortest path, around circles of files.
SearchesAreExact ==
    /\ Finished => /\ search = "traverseBFS" => BreadthFirstIsExact
                   /\ search = "traverseDFS" => DepthFirstIsExact
                   /\ search = "findPath" => PathIsShortest
    /\ AllLookedAt => CyclesAreExact

=============================================================================
