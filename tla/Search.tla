------------------------------- MODULE Search -------------------------------
(***************************************************************************)
(* The searches of the code graph (GraphTraverser, src/graph/traversal.ts) *)
(* as they run: one step takes a node off the queue of a breadth-first     *)
(* search, looks at one edge of the node that is being expanded, or        *)
(* returns from a call of a recursive function.                            *)
(*                                                                         *)
(* Searches are synchronous, so at most one runs.  Its local variables are *)
(* the variables of this module.  The kinds of nodes and edges that a      *)
(* caller may restrict a search to, and includeStart, are left out.        *)
(***************************************************************************)
EXTENDS Graph

CONSTANTS
    Depths,       \* bound: the values of maxDepth
    Limits        \* bound: the values of limit

ASSUME SearchAssumption ==
    /\ Depths \subseteq Nat /\ Limits \subseteq Nat \ {0}

VARIABLES
    search,       \* the method that was called, or "none"
    opts,         \* its arguments
    running,      \* the function of it that runs
    queue,        \* of a breadth-first search
    stack,        \* the nodes being expanded, the innermost last
    visited,
    nodes, found  \* the nodes and edges of the result

searchVars == <<search, opts, running, queue, stack, visited, nodes, found>>

Directions == {"outgoing", "incoming", "both"}
Options == [from : Nodes, to : Nodes, direction : Directions, maxDepth : Nat, limit : Nat]
NoOptions == [maxDepth |-> 0]
BreadthFirst == {"traverseBFS", "findPath"}

\* The arguments of a method that has no more than these
Arguments(n, d) ==
    [from |-> n, to |-> n, direction |-> "outgoing", maxDepth |-> d, limit |-> 0]

\* A step of the queue: a node and the edges of the result that lead to it
Steps == [node : Nodes, path : Seq(Rows), depth : Nat]

\* A node with the edges still to look at: in members those to its members,
\* which come first
Frames == [node : Nodes, path : Seq(Rows), depth : Nat,
           members : SUBSET Rows, rest : SUBSET Rows]

SearchTypeOK ==
    /\ edges \subseteq Rows
    /\ search \in {"none", "traverseBFS", "findPath", "traverseDFS", "getCallers",
                   "getCallees", "getCallGraph", "getTypeHierarchy", "getImpactRadius"}
    /\ search # "none" => opts \in Options
    /\ running \in {"none", "traverseBFS", "findPath", "dfsRecursive",
                    "getCallersRecursive", "getCalleesRecursive",
                    "getTypeAncestors", "getTypeDescendants", "getImpactRecursive"}
    /\ queue \in Seq(Steps) /\ stack \in Seq(Frames)
    /\ visited \subseteq Nodes /\ nodes \subseteq Nodes /\ found \in Seq(Rows)

\* Nothing runs: the locals of the last search are gone.
AtRest ==
    /\ search = "none" /\ opts = NoOptions /\ running = "none"
    /\ queue = <<>> /\ stack = <<>>
    /\ visited = {} /\ nodes = {} /\ found = <<>>

SearchInit == AtRest

-----------------------------------------------------------------------------
(* The edges of a node that a function looks at.                            *)

getAdjacentEdges(n, direction) ==
    (IF direction = "incoming" THEN {} ELSE getOutgoingEdges(n, Kinds)) \cup
    (IF direction = "outgoing" THEN {} ELSE getIncomingEdges(n, Kinds))

\* For a mutant: the container of a node depends on it (#536).
DependsOnAll(n) == getIncomingEdges(n, Kinds)

\* The edges of what depends on a node
DependsOn(n) == getIncomingEdges(n, Kinds \ {"contains"})

EdgesOf(f, o, n) ==
    CASE f \in {"traverseBFS", "dfsRecursive"} -> getAdjacentEdges(n, o.direction)
      [] f = "findPath"            -> getOutgoingEdges(n, Kinds)
      [] f = "getCallersRecursive" -> getIncomingEdges(n, CallKinds)
      [] f = "getCalleesRecursive" -> getOutgoingEdges(n, CallKinds)
      [] f = "getTypeAncestors"    -> getOutgoingEdges(n, TypeKinds)
      [] f = "getTypeDescendants"  -> getIncomingEdges(n, TypeKinds)
      [] f = "getImpactRecursive"  -> DependsOn(n)

MemberEdges(f, n) ==
    IF f = "getImpactRecursive" /\ n \in Containers
    THEN getOutgoingEdges(n, {"contains"}) ELSE {}

Frame(f, o, n, path, depth) ==
    [node |-> n, path |-> path, depth |-> depth,
     members |-> MemberEdges(f, n), rest |-> EdgesOf(f, o, n)]

-----------------------------------------------------------------------------
(* Breadth first.                                                           *)

StartBreadthFirst(f, o, result) ==
    /\ search = "none"
    /\ search' = f /\ opts' = o /\ running' = f
    /\ queue' = <<[node |-> o.from, path |-> <<>>, depth |-> 0]>>
    /\ nodes' = result
    /\ UNCHANGED <<stack, visited, found>>

traverseBFS(n, direction, d, limit) ==
    StartBreadthFirst("traverseBFS",
        [Arguments(n, d) EXCEPT !.direction = direction, !.limit = limit], {n})

findPath(n, to) == StartBreadthFirst("findPath", [Arguments(n, 0) EXCEPT !.to = to], {})

\* For a mutant: the depth is checked after the neighbours were added.
AtDepthTooFar(s) == running = "traverseBFS" /\ s.depth > opts.maxDepth

AtDepth(s) == running = "traverseBFS" /\ s.depth >= opts.maxDepth

\* A step that does not end the search: its node is expanded, unless it was
\* before or is at the greatest depth.
Expand(s) ==
    /\ queue' = Tail(queue)
    /\ IF s.node \in visited THEN UNCHANGED <<stack, visited, found>>
       ELSE /\ visited' = visited \cup {s.node}
            /\ found' = IF running = "traverseBFS" THEN found \o s.path ELSE found
            /\ stack' = IF AtDepth(s) THEN <<>>
                        ELSE <<Frame(running, opts, s.node, s.path, s.depth)>>
    /\ UNCHANGED nodes

PathFound(s) ==
    /\ queue' = <<>> /\ found' = s.path
    /\ nodes' = {s.node} \cup {s.path[i].source : i \in DOMAIN s.path}
    /\ UNCHANGED <<stack, visited>>

TakeStep ==
    /\ running \in BreadthFirst /\ stack = <<>> /\ queue # <<>>
    /\ LET s == Head(queue)
       IN  \/ running = "traverseBFS" /\ Cardinality(nodes) < opts.limit /\ Expand(s)
           \/ running = "findPath" /\ s.node = opts.to /\ PathFound(s)
           \/ running = "findPath" /\ s.node # opts.to /\ Expand(s)
    /\ UNCHANGED <<search, opts, running>>

Rank(e) == CASE e.kind = "contains" -> 0 [] e.kind = "calls" -> 1 [] OTHER -> 2

\* The next edge of the node: its other end is queued, if not visited yet.
QueueNeighbour(e) ==
    /\ running \in BreadthFirst /\ stack # <<>>
    /\ LET f == stack[1]
           next == Other(e, f.node)
       IN  /\ e \in f.rest
           /\ running = "traverseBFS" => \A d \in f.rest : Rank(e) <= Rank(d)
           /\ stack' = <<[f EXCEPT !.rest = @ \ {e}]>>
           /\ IF next \in visited THEN UNCHANGED <<queue, nodes>>
              ELSE LET path == IF running = "traverseBFS" THEN <<e>> ELSE Append(f.path, e)
                   IN  /\ queue' = Append(queue, [node |-> next, path |-> path,
                                                  depth |-> f.depth + 1])
                       /\ nodes' = IF running = "traverseBFS" THEN nodes \cup {next} ELSE nodes
    /\ UNCHANGED <<search, opts, running, visited, found>>

-----------------------------------------------------------------------------
(* Depth first: the recursive functions, of which one runs.                 *)

\* A call of f that returns at once: the depth of the hierarchy is not bounded,
\* and only dfsRecursive looks at the limit.
Refused(f, o, n, depth, seen, result) ==
    \/ n \in seen
    \/ f \notin {"getTypeAncestors", "getTypeDescendants"} /\ depth >= o.maxDepth
    \/ f = "dfsRecursive" /\ Cardinality(result) >= o.limit

\* The outermost call of f
FirstCall(f, o, seen, result) ==
    IF Refused(f, o, o.from, 0, seen, result)
    THEN stack' = <<>> /\ visited' = seen
    ELSE stack' = <<Frame(f, o, o.from, <<>>, 0)>> /\ visited' = seen \cup {o.from}

StartDepthFirst(method, f, o, result) ==
    /\ search = "none"
    /\ search' = method /\ opts' = o /\ running' = f /\ nodes' = result
    /\ FirstCall(f, o, {}, result)
    /\ UNCHANGED <<queue, found>>

traverseDFS(n, direction, d, limit) ==
    StartDepthFirst("traverseDFS", "dfsRecursive",
        [Arguments(n, d) EXCEPT !.direction = direction, !.limit = limit], {n})

getCallers(n, d) ==
    StartDepthFirst("getCallers", "getCallersRecursive", Arguments(n, d), {})
getCallees(n, d) ==
    StartDepthFirst("getCallees", "getCalleesRecursive", Arguments(n, d), {})
getCallGraph(n, d) ==
    StartDepthFirst("getCallGraph", "getCallersRecursive", Arguments(n, d), {n})
getTypeHierarchy(n) ==
    StartDepthFirst("getTypeHierarchy", "getTypeAncestors", Arguments(n, 0), {n})
getImpactRadius(n, d) ==
    StartDepthFirst("getImpactRadius", "getImpactRecursive", Arguments(n, d), {n})

\* The callers are known, now the callees, with a visited set of their own.
CalleesNext ==
    /\ search = "getCallGraph" /\ running = "getCallersRecursive" /\ stack = <<>>
    /\ running' = "getCalleesRecursive"
    /\ FirstCall("getCalleesRecursive", opts, {}, nodes)
    /\ UNCHANGED <<search, opts, queue, nodes, found>>

\* The ancestors are known, now the descendants: with what was visited before,
\* the node itself included.
DescendantsNext ==
    /\ running = "getTypeAncestors" /\ stack = <<>>
    /\ running' = "getTypeDescendants"
    /\ FirstCall("getTypeDescendants", opts, visited, nodes)
    /\ UNCHANGED <<search, opts, queue, nodes, found>>

\* Whether a node is not added again: the functions ask visited or the nodes of
\* the result, getImpactRecursive the one for members and the other for the rest.
Known(n, inside) ==
    \/ n \in visited
    \/ /\ running \in {"getTypeAncestors", "getTypeDescendants", "getImpactRecursive"}
       /\ ~inside /\ n \in nodes

\* The innermost call looks at an edge, adds its other end and calls itself for
\* it.  A member is as deep as its container.
Look(e) ==
    /\ running \notin BreadthFirst /\ stack # <<>>
    /\ LET top == Len(stack)
           f == stack[top]
           inside == f.members # {}
           next == Other(e, f.node)
           depth == IF inside THEN f.depth ELSE f.depth + 1
           left == [stack EXCEPT ![top] =
                      [f EXCEPT !.members = @ \ {e}, !.rest = IF inside THEN @ ELSE @ \ {e}]]
       IN  /\ e \in (IF inside THEN f.members ELSE f.rest)
           /\ IF Known(next, inside) THEN stack' = left /\ UNCHANGED <<visited, nodes, found>>
              ELSE /\ nodes' = nodes \cup {next} /\ found' = Append(found, e)
                   /\ IF Refused(running, opts, next, depth, visited, nodes')
                      THEN stack' = left /\ UNCHANGED visited
                      ELSE /\ stack' = Append(left, Frame(running, opts, next, <<>>, depth))
                           /\ visited' = visited \cup {next}
    /\ UNCHANGED <<search, opts, running, queue>>

-----------------------------------------------------------------------------
(* The loop over the edges of a node ends.                                  *)
Leave ==
    /\ stack # <<>>
    /\ stack[Len(stack)].members = {} /\ stack[Len(stack)].rest = {}
    /\ stack' = SubSeq(stack, 1, Len(stack) - 1)
    /\ UNCHANGED <<search, opts, running, queue, visited, nodes, found>>

Finished ==
    /\ search # "none" /\ stack = <<>>
    /\ running = "traverseBFS" => queue = <<>> \/ Cardinality(nodes) >= opts.limit
    /\ running = "findPath" => queue = <<>>
    /\ ~(search = "getCallGraph" /\ running = "getCallersRecursive")
    /\ running # "getTypeAncestors"

\* The caller has the result.
Returned ==
    /\ search' = "none" /\ opts' = NoOptions /\ running' = "none"
    /\ queue' = <<>> /\ stack' = <<>>
    /\ visited' = {} /\ nodes' = {} /\ found' = <<>>

StartSearch ==
    \E n, to \in Nodes, direction \in Directions, d \in Depths, limit \in Limits :
        \/ traverseBFS(n, direction, d, limit) \/ traverseDFS(n, direction, d, limit)
        \/ getCallers(n, d) \/ getCallees(n, d) \/ getCallGraph(n, d)
        \/ getImpactRadius(n, d) \/ getTypeHierarchy(n) \/ findPath(n, to)

SearchStep ==
    \/ TakeStep \/ CalleesNext \/ DescendantsNext \/ Leave
    \/ \E e \in edges : QueueNeighbour(e) \/ Look(e)

-----------------------------------------------------------------------------
(* Properties, for a search that has finished.                              *)

\* traverseBFS returns nodes within the depth and, unless the limit cut it, all
\* of them, each but the first with one edge that leads to it (:48-120).
BreadthFirstIsExact ==
    LET near == Within(opts.from, opts.maxDepth, Neighbours(opts.direction))
    IN  /\ nodes \subseteq near
        /\ Cardinality(nodes) < opts.limit =>
             /\ nodes = near
             /\ Len(found) = Cardinality(near) - 1
             /\ {opts.from} \cup UNION {Ends(found[i]) : i \in DOMAIN found} = near

\* traverseDFS returns nodes within the depth and, unless the limit cut it or the
\* depth can, all of them (:129-199).
DepthFirstIsExact ==
    LET near == Within(opts.from, opts.maxDepth, Neighbours(opts.direction))
    IN  /\ nodes \subseteq near
        /\ Cardinality(nodes) < opts.limit /\ opts.maxDepth >= Cardinality(Nodes)
             => nodes = near

\* findPath returns a path if there is one, and none that is shorter is left
\* (:550-607).
PathIsShortest ==
    LET near(d) == Within(opts.from, d, Targets(Kinds))
    IN  /\ nodes = {} => opts.to \notin near(Cardinality(Nodes))
        /\ nodes # {} =>
             /\ \A i \in DOMAIN found :
                  found[i].source = IF i = 1 THEN opts.from ELSE found[i - 1].target
             /\ opts.to = IF found = <<>> THEN opts.from ELSE found[Len(found)].target
             /\ found # <<>> => opts.to \notin near(Len(found) - 1)

\* The callers and callees of a function are never farther than asked for, and all
\* of them are there when one step is asked for or the depth cannot bind
\* (:230-350).
CallsAreExact ==
    LET callers == Within(opts.from, opts.maxDepth, Sources(CallKinds))
        callees == Within(opts.from, opts.maxDepth, Targets(CallKinds))
        all == CASE search = "getCallers" -> callers \ {opts.from}
                 [] search = "getCallees" -> callees \ {opts.from}
                 [] OTHER -> callers \cup callees
    IN  /\ nodes \subseteq all
        /\ opts.maxDepth = 1 \/ opts.maxDepth >= Cardinality(Nodes) => nodes = all

\* The impact of a node does not climb from a member to its container, goes no
\* farther than asked for, and misses nothing when the depth cannot bind
\* (:466-540).
ImpactIsExact ==
    /\ nodes \subseteq Dependents(opts.from, opts.maxDepth)
    /\ opts.maxDepth >= Cardinality(Nodes) => nodes = Dependents(opts.from, opts.maxDepth)

\* The hierarchy of a type has its ancestors, however many there are (:358-432).
AncestorsAreThere == Closure({opts.from}, Targets(TypeKinds)) \subseteq nodes

\* What depends on a node is found: callers, callees, impact, and the ancestors
\* of a type.
DependentsAreFound ==
    Finished =>
        /\ search \in {"getCallers", "getCallees", "getCallGraph"} => CallsAreExact
        /\ search = "getImpactRadius" => ImpactIsExact
        /\ search = "getTypeHierarchy" => AncestorsAreThere

\* "Get descendants (what extends/implements this)" (traversal.ts:374); "This
\* dedicated step ensures subclasses and superclasses always appear in results"
\* (context/index.ts:942-943).
HierarchyHasDescendants ==
    Finished /\ search = "getTypeHierarchy" => Sources(TypeKinds)[opts.from] \subseteq nodes

\* "Returns all nodes that could be affected by changes to this node", within
\* the depth (traversal.ts:460).
ImpactIsComplete ==
    Finished /\ search = "getImpactRadius" =>
        Within(opts.from, opts.maxDepth, Sources(Kinds \ {"contains"})) \subseteq nodes

\* "Maximum nodes to return" (types.ts:420).
LimitIsKept ==
    Finished /\ search = "traverseBFS" => Cardinality(nodes) <= opts.limit

=============================================================================
