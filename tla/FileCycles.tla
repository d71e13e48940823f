----------------------------- MODULE FileCycles -----------------------------
(***************************************************************************)
(* The search for circular dependencies between files                      *)
(* (findCircularDependencies, src/graph/queries.ts).  One step starts with *)
(* a file, follows one dependency, or returns from a call of dfs.          *)
(***************************************************************************)
EXTENDS Graph

VARIABLES
    looking,      \* whether the search runs
    starts,       \* the files that the outer loop has yet to look at
    calls,        \* the calls of dfs, the innermost last: a file and the
                  \* dependencies it has yet to follow
    traced,       \* visited
    cycles

cycleVars == <<looking, starts, calls, traced, cycles>>

CycleTypeOK ==
    /\ looking \in BOOLEAN
    /\ starts \subseteq Files /\ traced \subseteq Files
    /\ calls \in Seq([file : Files, rest : SUBSET Files])
    /\ cycles \subseteq Seq(Files)

CycleInit ==
    looking = FALSE /\ starts = {} /\ calls = <<>> /\ traced = {} /\ cycles = {}

findCircularDependencies ==
    /\ ~looking /\ looking' = TRUE
    /\ starts' = Files
    /\ UNCHANGED <<calls, traced, cycles>>

\* dfs marks the file and asks for its dependencies.
Enter(f, under) ==
    /\ calls' = Append(under, [file |-> f, rest |-> getDependencyFilePaths(f)])
    /\ traced' = traced \cup {f}

NextFile(f) ==
    /\ looking /\ calls = <<>> /\ f \in starts
    /\ starts' = starts \ {f}
    /\ IF f \in traced THEN UNCHANGED <<calls, traced>> ELSE Enter(f, <<>>)
    /\ UNCHANGED <<looking, cycles>>

\* path, with the file that calls
Path == [i \in DOMAIN calls |-> calls[i].file]

OnStack(f) == \E i \in DOMAIN calls : calls[i].file = f

\* dfs is called for a dependency of the innermost file: it is on the recursion
\* stack, done, or new.
Follow(g) ==
    /\ calls # <<>>
    /\ LET top == Len(calls)
           under == [calls EXCEPT ![top].rest = @ \ {g}]
       IN  /\ g \in calls[top].rest
           /\ IF OnStack(g)
              THEN /\ \E i \in {j \in DOMAIN calls : calls[j].file = g} :
                        cycles' = cycles \cup {SubSeq(Path, i, top)}
                   /\ calls' = under /\ UNCHANGED traced
              ELSE /\ IF g \in traced THEN calls' = under /\ UNCHANGED traced
                      ELSE Enter(g, under)
                   /\ UNCHANGED cycles
    /\ UNCHANGED <<looking, starts>>

ReturnFromDfs ==
    /\ calls # <<>> /\ calls[Len(calls)].rest = {}
    /\ calls' = SubSeq(calls, 1, Len(calls) - 1)
    /\ UNCHANGED <<looking, starts, traced, cycles>>

AllLookedAt == looking /\ calls = <<>> /\ starts = {}

CyclesReturned ==
    /\ AllLookedAt
    /\ looking' = FALSE /\ traced' = {} /\ cycles' = {}
    /\ UNCHANGED <<starts, calls>>

CycleStep ==
    \/ ReturnFromDfs
    \/ \E f \in Files : NextFile(f) \/ Follow(f)

-----------------------------------------------------------------------------
\* What is reported is a circle of dependencies without repetitions; when
\* nothing is, any set of files has one that depends on no other of them
\* (graph/queries.ts:226-264).
CyclesAreExact ==
    /\ \A c \in cycles :
         /\ Len(c) > 0
         /\ \A i, j \in 1..Len(c) : c[i] = c[j] => i = j
         /\ \A i \in 1..Len(c) :
              (IF i = Len(c) THEN c[1] ELSE c[i + 1]) \in getDependencyFilePaths(c[i])
    /\ cycles = {} =>
         \A S \in SUBSET Files : S # {} =>
            \E f \in S : getDependencyFilePaths(f) \cap S = {}

=============================================================================
