--------------------------- MODULE EdgeSyncProofs ---------------------------
(***************************************************************************)
(* Proofs about EdgeSync: between syncs the edges are true, no reference   *)
(* is lost and every parked one has been offered what is there, short of   *)
(* the named exceptions; and the passes of a sync see the database, not a  *)
(* stale cache.                                                            *)
(***************************************************************************)
EXTENDS EdgeSync, FiniteSetTheorems, TLAPS

-----------------------------------------------------------------------------
(* The inductive invariant.                                                *)

NodeSet == Files \X Names \X Lines
RefSet == Files \X Names
EdgeSet == Files \X Names \X NodeSet

Storing == {"insert", "refer", "rewire", "record"}
Passing == {"changed", "resurrected", "retry"}

AnyContent == UNION {Contents[f] : f \in Files}

SyncSet == [by : Procs \cup {"no process"}, phase : {"sync", "fallback"},
            todo : SUBSET Files, file : Files \cup {NoFile},
            content : AnyContent \cup {Absent},
            saved : SUBSET EdgeSet, unwired : SUBSET Files, changed : SUBSET Files,
            resurrected : SUBSET Files, removed : BOOLEAN]

TypeOK ==
    /\ DOMAIN disk = Files /\ \A f \in Files : disk[f] \in Contents[f] \cup {Absent}
    /\ DOMAIN row = Files /\ \A f \in Files : row[f] \in Contents[f] \cup {Absent}
    /\ nodes \subseteq NodeSet /\ edges \subseteq EdgeSet
    /\ pending \subseteq RefSet /\ failed \subseteq RefSet
    /\ known \in [Procs -> {Cold} \cup SUBSET Names]
    /\ cached \in [Procs -> [Names -> {Cold} \cup SUBSET NodeSet]]
    /\ pc \in {"idle", "remove", "delete", "store", "fallback", "sweep"} \cup Storing \cup Passing
    /\ sync \in SyncSet
    /\ pc # "idle" => sync.by \in Procs
    /\ pc \in {"delete"} \cup Storing => sync.file \in Files
    /\ pc \in Storing => sync.content \in Contents[sync.file]

\* Which locals of a sync are in use when.
Staged ==
    /\ pc \in {"idle", "remove", "delete"} => sync.unwired = {} /\ sync.changed = {}
    /\ pc \in {"idle", "remove", "delete", "fallback"} \cup Passing => sync.phase = "sync"
    /\ pc \notin {"insert", "refer", "rewire"} => sync.saved = {}
    /\ pc = "sweep" => sync.phase = "fallback" /\ sync.todo = {}

\* An edge leads to a symbol of the name that its file uses, and a saved one did; a
\* row is of a name that its file uses.
UsedBy(r) == row[r[1]] # Absent => r[2] \in row[r[1]].uses

TrueRefs ==
    /\ \A e \in edges : e[3] \in nodes
    /\ \A e \in edges \cup sync.saved : e[3][2] = e[2] /\ UsedBy(Ref(e))
    /\ \A r \in pending \cup failed : UsedBy(r)

\* The file that is stored has no row, and after its nodes it has no edges; its
\* references are the pending ones.
FileInHand ==
    /\ pc \in Storing => row[sync.file] = Absent
    /\ \A e \in sync.saved : e[1] # sync.file
    /\ pc \in Storing \ {"insert"} =>
          /\ Nodes(sync.file, sync.content) \subseteq nodes
          /\ \A e \in edges : e[1] # sync.file
          /\ \A r \in pending \cup failed : r[1] = sync.file => r[2] \in sync.content.uses
    /\ pc \in {"rewire", "record"} => Uses(sync.file, sync.content) \subseteq pending

\* The edges into the file to be deleted are pending again, if they have a name.
Resurrection ==
    /\ pc = "delete" => {Ref(e) : e \in Incoming(sync.file)} \ unstamped \subseteq pending
    /\ sync.phase = "sync" /\ pc # "delete" /\ sync.resurrected # {} => sync.removed

\* The files that are to be stored again for the references they have lost.
Again == IF sync.phase = "sync" THEN sync.unwired ELSE sync.todo

Accounted ==
    \A r \in Limbo :
        \/ r \in Excused
        \/ \E e \in sync.saved : r = Ref(e)
        \/ r[1] \in Again

\* The files whose symbols have still to be offered to the parked references.
Unoffered ==
    (IF sync.phase = "sync" /\ pc # "fallback" THEN sync.changed ELSE {})
       \cup (IF pc \in Storing \ {"insert"} THEN {sync.file} ELSE {})

\* A parked reference has nothing to be offered.
Settled(r) == r[2] \in missed \/ \A v \in Named(r[2], nodes) : <<r[1], r[2], v>> \in refused

Parked ==
    \A r \in failed :
        \/ r[2] \in missed \cup popular
        \/ \A v \in Named(r[2], nodes) : v[1] \in Unoffered \/ <<r[1], r[2], v>> \in refused

\* A cache for a name has nodes of that name; during the passes that of the sync has
\* what the database has, or there is nothing to resolve.
FreshCaches(p) ==
    /\ KnownNames(p) = {v[2] : v \in nodes}
    /\ \A n \in Names : cached[p][n] = Cold \/ cached[p][n] = Named(n, nodes)

Caches ==
    /\ \A p \in Procs : \A n \in Names :
          cached[p][n] = Cold \/ \A v \in cached[p][n] : v[2] = n
    /\ pc \in Passing =>
          FreshCaches(sync.by) \/ (sync.changed = {} /\ sync.resurrected = {})

Core == Staged /\ TrueRefs /\ FileInHand /\ Resurrection /\ Accounted /\ Parked /\ Caches

IInv == TypeOK /\ Core

-----------------------------------------------------------------------------
(* The sets.                                                               *)

\* What edges, nodes and references are made of.
LEMMA Shapes ==
    /\ \A e \in EdgeSet : /\ e[1] \in Files /\ e[2] \in Names /\ e[3] \in NodeSet
                          /\ Ref(e) \in RefSet /\ Ref(e)[1] = e[1] /\ Ref(e)[2] = e[2]
    /\ \A v \in NodeSet : v[1] \in Files /\ v[2] \in Names
    /\ \A r \in RefSet : r[1] \in Files /\ r[2] \in Names
    /\ \A r \in RefSet, v \in NodeSet :
          /\ <<r[1], r[2], v>> \in EdgeSet /\ Ref(<<r[1], r[2], v>>) = r
          /\ <<r[1], r[2], v>>[3] = v /\ <<r[1], r[2], v>>[1] = r[1] /\ <<r[1], r[2], v>>[2] = r[2]
    /\ \A f \in Files : \A c \in Contents[f] :
          /\ Nodes(f, c) \subseteq NodeSet /\ \A v \in Nodes(f, c) : v[1] = f
          /\ Uses(f, c) \subseteq RefSet
          /\ \A r \in RefSet : r \in Uses(f, c) <=> r[1] = f /\ r[2] \in c.uses
<1>1. \A e \in EdgeSet : /\ e[1] \in Files /\ e[2] \in Names /\ e[3] \in NodeSet
                         /\ Ref(e) \in RefSet /\ Ref(e)[1] = e[1] /\ Ref(e)[2] = e[2]
  BY DEF EdgeSet, RefSet, Ref
<1>2. \A v \in NodeSet : v[1] \in Files /\ v[2] \in Names
  BY DEF NodeSet
<1>3. \A r \in RefSet : r[1] \in Files /\ r[2] \in Names
  BY DEF RefSet
<1>4. \A r \in RefSet, v \in NodeSet :
          /\ <<r[1], r[2], v>> \in EdgeSet /\ Ref(<<r[1], r[2], v>>) = r
          /\ <<r[1], r[2], v>>[3] = v /\ <<r[1], r[2], v>>[1] = r[1] /\ <<r[1], r[2], v>>[2] = r[2]
  BY DEF EdgeSet, RefSet, Ref
<1>5. ASSUME NEW f \in Files, NEW c \in Contents[f]
      PROVE  /\ Nodes(f, c) \subseteq NodeSet /\ \A v \in Nodes(f, c) : v[1] = f
             /\ Uses(f, c) \subseteq RefSet
             /\ \A r \in RefSet : r \in Uses(f, c) <=> r[1] = f /\ r[2] \in c.uses
  <2>1. c.defines \subseteq Names \X Lines /\ c.uses \subseteq Names
    BY EdgeSyncAssumption
  <2>2. Nodes(f, c) \subseteq NodeSet /\ \A v \in Nodes(f, c) : v[1] = f
    BY <2>1 DEF Nodes, NodeSet
  <2>3. Uses(f, c) \subseteq RefSet
    BY <2>1 DEF Uses, RefSet
  <2>4. \A r \in RefSet : r \in Uses(f, c) <=> r[1] = f /\ r[2] \in c.uses
    BY DEF Uses, RefSet
  <2>5. QED
    BY <2>2, <2>3, <2>4
<1>6. QED
  BY <1>1, <1>2, <1>3, <1>4, <1>5

\* The references that the database does not know of.
Unknown(r, rw, pe, fa, ed) ==
    /\ r \in RefSet /\ rw[r[1]] # Absent /\ r[2] \in rw[r[1]].uses
    /\ r \notin pe /\ r \notin fa /\ \A e \in ed : r # Ref(e)

\* A reference is in limbo when its file uses the name and no table has it.
LEMMA LimboIs ==
    ASSUME NEW rw, \A f \in Files : rw[f] \in Contents[f] \cup {Absent},
           NEW pe, NEW fa, NEW ed, NEW r
    PROVE  r \in {q \in UNION {Uses(f, rw[f]) : f \in {g \in Files : rw[g] # Absent}} :
                     q \notin pe \cup fa \cup {Ref(e) : e \in ed}}
             <=> Unknown(r, rw, pe, fa, ed)
<1> DEFINE U == UNION {Uses(f, rw[f]) : f \in {g \in Files : rw[g] # Absent}}
<1>1. r \in U <=> r \in RefSet /\ rw[r[1]] # Absent /\ r[2] \in rw[r[1]].uses
  <2>1. ASSUME r \in U
        PROVE  r \in RefSet /\ rw[r[1]] # Absent /\ r[2] \in rw[r[1]].uses
    <3>1. PICK f \in Files : rw[f] # Absent /\ r \in Uses(f, rw[f])
      BY <2>1
    <3>2. rw[f] \in Contents[f]
      BY <3>1
    <3>3. r \in RefSet /\ r[1] = f /\ r[2] \in rw[f].uses
      BY <3>1, <3>2, Shapes
    <3>4. QED
      BY <3>1, <3>3
  <2>2. ASSUME r \in RefSet, rw[r[1]] # Absent, r[2] \in rw[r[1]].uses
        PROVE  r \in U
    <3>1. r[1] \in Files
      BY <2>2, Shapes
    <3>2. r \in Uses(r[1], rw[r[1]])
      BY <2>2, <3>1, Shapes
    <3>3. QED
      BY <2>2, <3>1, <3>2
  <2>3. QED
    BY <2>1, <2>2
<1> HIDE DEF U
<1>2. QED
  BY <1>1 DEF Unknown, U

\* Of a state, and of its successor.
LEMMA LimboNow ==
    ASSUME TypeOK
    PROVE  \A r : r \in Limbo <=> Unknown(r, row, pending, failed, edges)
<1>1. \A f \in Files : row[f] \in Contents[f] \cup {Absent}
  BY DEF TypeOK
<1>2. ASSUME NEW r
      PROVE  r \in Limbo <=> Unknown(r, row, pending, failed, edges)
  BY <1>1, LimboIs DEF Limbo
<1>3. QED
  BY <1>2

\* The same of the next state.
LEMMA LimboThen ==
    ASSUME TypeOK'
    PROVE  \A r : r \in Limbo' <=> Unknown(r, row', pending', failed', edges')
<1>1. \A f \in Files : row'[f] \in Contents[f] \cup {Absent}
  BY DEF TypeOK
<1>2. ASSUME NEW r
      PROVE  r \in Limbo' <=> Unknown(r, row', pending', failed', edges')
  BY <1>1, LimboIs DEF Limbo
<1>3. QED
  BY <1>2

-----------------------------------------------------------------------------
(* Resolving references.                                                   *)

\* What becomes of the references that are resolved.
LEMMA PersistEffect ==
    ASSUME TypeOK, TrueRefs, Caches, NEW p \in Procs, NEW refs, refs \subseteq pending \cup failed,
           Persist(p, refs)
    PROVE  /\ nodes' = nodes /\ row' = row
           /\ edges \subseteq edges' /\ edges' \subseteq EdgeSet
           /\ \A e \in edges' \ edges : e[3] \in nodes /\ e[3][2] = e[2] /\ Ref(e) \in refs
           /\ pending' = pending \ refs /\ failed \ refs \subseteq failed' /\ failed' \subseteq failed \cup refs
           /\ dropped \subseteq dropped' /\ missed \subseteq missed'
           /\ \A r \in refs : r \in dropped' \cup failed' \/ \E e \in edges' : r = Ref(e)
           /\ \A r \in failed' \cap refs :
                 r[2] \in missed' \/ \A v \in Named(r[2], nodes) : <<r[1], r[2], v>> \in refused'
           /\ \A r \in failed' \ refs : \A v \in nodes :
                 <<r[1], r[2], v>> \in refused => <<r[1], r[2], v>> \in refused'
           /\ refs = {} \/ FreshCaches(p) => UNCHANGED <<dropped, missed>>
<1>0. PICK parked \in SUBSET refs :
        /\ {r \in refs : Found(p, r[2]) = {}} \subseteq parked
        /\ \E target \in [refs \ parked -> UNION {Found(p, r[2]) : r \in refs \ parked}] :
             /\ \A r \in refs \ parked : target[r] \in Found(p, r[2])
             /\ edges' = edges \cup
                  {<<r[1], r[2], target[r]>> : r \in {q \in refs \ parked : target[q] \in nodes}}
             /\ dropped' = dropped \cup {r \in refs \ parked : target[r] \notin nodes}
        /\ pending' = pending \ refs /\ failed' = (failed \ refs) \cup parked
        /\ missed' = missed \cup
             {r[2] : r \in {q \in parked : ~(Named(q[2], nodes) \subseteq Found(p, q[2]))}}
        /\ refused' = {e \in refused : Ref(e) \notin refs} \cup
             {e \in Offers(parked) : e[3] \in Found(p, e[2])}
        /\ UNCHANGED <<row, nodes>>
  BY DEF Persist
<1> DEFINE bound == refs \ parked
<1>1. PICK target \in [bound -> UNION {Found(p, r[2]) : r \in bound}] :
        /\ \A r \in bound : target[r] \in Found(p, r[2])
        /\ edges' = edges \cup
             {<<r[1], r[2], target[r]>> : r \in {q \in bound : target[q] \in nodes}}
        /\ dropped' = dropped \cup {r \in bound : target[r] \notin nodes}
  BY <1>0
<1>2. /\ pending' = pending \ refs /\ failed' = (failed \ refs) \cup parked
      /\ missed' = missed \cup
           {r[2] : r \in {q \in parked : ~(Named(q[2], nodes) \subseteq Found(p, q[2]))}}
      /\ UNCHANGED <<row, nodes>>
  BY <1>0
<1>3. refs \subseteq RefSet /\ nodes \subseteq NodeSet /\ edges \subseteq EdgeSet
  BY DEF TypeOK
<1>4. ASSUME NEW r \in bound
      PROVE  target[r][2] = r[2]
  <2>1. r[2] \in Names /\ target[r] \in Found(p, r[2])
    BY <1>1, <1>3, Shapes
  <2>2. Found(p, r[2]) = Named(r[2], nodes) \/ Found(p, r[2]) = cached[p][r[2]]
    BY <2>1 DEF Found
  <2>3. cached[p][r[2]] = Cold \/ \A v \in cached[p][r[2]] : v[2] = r[2]
    BY <2>1 DEF Caches
  <2>4. Found(p, r[2]) = Named(r[2], nodes) \/ cached[p][r[2]] # Cold
    BY <2>1 DEF Found
  <2>5. QED
    BY <2>1, <2>2, <2>3, <2>4 DEF Named
<1> HIDE DEF bound
<1>5. /\ edges \subseteq edges'
      /\ \A e \in edges' \ edges : \E r \in bound : target[r] \in nodes /\ e = <<r[1], r[2], target[r]>>
      /\ \A r \in bound : target[r] \in nodes => <<r[1], r[2], target[r]>> \in edges'
  BY <1>1
<1>6. bound \subseteq refs
  BY DEF bound
<1>7. \A e \in edges' \ edges : e \in EdgeSet /\ e[3] \in nodes /\ e[3][2] = e[2] /\ Ref(e) \in refs
  BY <1>3, <1>4, <1>5, <1>6, Shapes
<1>8. ASSUME NEW r \in refs
      PROVE  r \in dropped' \cup failed' \/ \E e \in edges' : r = Ref(e)
  <2>1. CASE r \notin bound
    BY <1>2, <2>1 DEF bound
  <2>2. CASE r \in bound /\ target[r] \notin nodes
    BY <1>1, <2>2
  <2>3. CASE r \in bound /\ target[r] \in nodes
    <3>1. r \in RefSet /\ target[r] \in NodeSet
      BY <1>3, <2>3
    <3>2. Ref(<<r[1], r[2], target[r]>>) = r
      BY <3>1, Shapes
    <3>3. <<r[1], r[2], target[r]>> \in edges'
      BY <1>5, <2>3
    <3>4. QED
      BY <3>2, <3>3
  <2>4. QED
    BY <2>1, <2>2, <2>3
<1>9. ASSUME NEW r \in failed' \cap refs, r[2] \notin missed', NEW v \in Named(r[2], nodes)
      PROVE  <<r[1], r[2], v>> \in refused'
  <2>1. r \in parked /\ v \in Found(p, r[2])
    BY <1>2, <1>9
  <2>2. <<r[1], r[2], v>> \in Offers(parked)
    BY <1>9, <2>1 DEF Offers
  <2>3. <<r[1], r[2], v>>[3] = v /\ <<r[1], r[2], v>>[2] = r[2]
    BY <1>3, <1>9, Shapes DEF Named
  <2>4. QED
    BY <1>0, <2>1, <2>2, <2>3
<1>15. ASSUME NEW r \in failed' \ refs, NEW v \in nodes, <<r[1], r[2], v>> \in refused
       PROVE  <<r[1], r[2], v>> \in refused'
  <2>1. r \in failed
    BY <1>0, <1>15
  <2>2. r \in RefSet /\ v \in NodeSet
    BY <1>3, <2>1 DEF TypeOK
  <2>3. Ref(<<r[1], r[2], v>>) = r
    BY <2>2, Shapes
  <2>4. QED
    BY <1>0, <1>15, <2>3
<1>10. ASSUME refs = {} \/ FreshCaches(p)
       PROVE  UNCHANGED <<dropped, missed>>
  <2>1. CASE refs = {}
    BY <1>1, <1>2, <1>6, <2>1
  <2>2. ASSUME FreshCaches(p), NEW r \in refs
        PROVE  Found(p, r[2]) = Named(r[2], nodes)
    <3>1. r[2] \in Names
      BY <1>3, Shapes
    <3>2. r[2] \notin KnownNames(p) => Named(r[2], nodes) = {}
      BY <2>2 DEF FreshCaches, Named
    <3>3. QED
      BY <2>2, <3>1, <3>2 DEF Found, FreshCaches
  <2>3. CASE FreshCaches(p)
    <3>1. \A r \in bound : target[r] \in nodes
      BY <1>1, <1>6, <2>2, <2>3 DEF Named
    <3>2. \A r \in parked : Named(r[2], nodes) \subseteq Found(p, r[2])
      BY <2>2, <2>3
    <3>3. QED
      BY <1>1, <1>2, <3>1, <3>2
  <2>4. QED
    BY <1>10, <2>1, <2>3
<1>11. edges' \subseteq EdgeSet
  BY <1>3, <1>7
<1>12. failed \ refs \subseteq failed' /\ failed' \subseteq failed \cup refs /\ dropped \subseteq dropped'
  BY <1>1, <1>2
<1>13. missed \subseteq missed'
  BY <1>2
<1>14. QED
  BY <1>2, <1>5, <1>7, <1>8, <1>9, <1>10, <1>11, <1>12, <1>13, <1>15

\* What the caches hold afterwards.
LEMMA FillEffect ==
    ASSUME TypeOK, Caches, NEW p \in Procs, NEW names, names \subseteq Names, FillCaches(p, names),
           nodes' = nodes
    PROVE  /\ known' \in [Procs -> {Cold} \cup SUBSET Names]
           /\ cached' \in [Procs -> [Names -> {Cold} \cup SUBSET NodeSet]]
           /\ \A q \in Procs : \A n \in Names :
                 cached'[q][n] = Cold \/ \A v \in cached'[q][n] : v[2] = n
           /\ FreshCaches(p) => FreshCaches(p)'
<1>1. /\ known' = IF names = {} THEN known ELSE [known EXCEPT ![p] = KnownNames(p)]
      /\ cached' = [cached EXCEPT ![p] = [n \in Names |->
                      IF n \in names \cap KnownNames(p) THEN Found(p, n) ELSE cached[p][n]]]
  BY DEF FillCaches
<1>2. /\ known \in [Procs -> {Cold} \cup SUBSET Names] /\ nodes \subseteq NodeSet
      /\ cached \in [Procs -> [Names -> {Cold} \cup SUBSET NodeSet]]
  BY DEF TypeOK
<1>3. KnownNames(p) \in SUBSET Names
  BY <1>2, Shapes DEF KnownNames
<1>4. ASSUME NEW n \in Names
      PROVE  /\ Found(p, n) \in SUBSET NodeSet /\ \A v \in Found(p, n) : v[2] = n
             /\ FreshCaches(p) => Found(p, n) = Named(n, nodes)
  <2>1. \/ Found(p, n) = {} /\ n \notin KnownNames(p)
        \/ Found(p, n) = Named(n, nodes)
        \/ Found(p, n) = cached[p][n] /\ cached[p][n] # Cold
    BY DEF Found
  <2>2. cached[p][n] \in {Cold} \cup SUBSET NodeSet
    BY <1>2
  <2>3. Named(n, nodes) \in SUBSET NodeSet /\ \A v \in Named(n, nodes) : v[2] = n
    BY <1>2 DEF Named
  <2>4. FreshCaches(p) /\ n \notin KnownNames(p) => Named(n, nodes) = {}
    BY DEF FreshCaches, Named
  <2>5. cached[p][n] = Cold \/ \A v \in cached[p][n] : v[2] = n
    BY DEF Caches
  <2>6. FreshCaches(p) => cached[p][n] = Cold \/ cached[p][n] = Named(n, nodes)
    BY DEF FreshCaches
  <2>7. QED
    BY <2>1, <2>2, <2>3, <2>4, <2>5, <2>6
<1>5. known' \in [Procs -> {Cold} \cup SUBSET Names]
  BY <1>1, <1>2, <1>3
<1>6. \A q \in Procs : \A n \in Names :
         cached'[q][n] = IF q = p /\ n \in names \cap KnownNames(p) THEN Found(p, n) ELSE cached[q][n]
  BY <1>1, <1>2
<1>7. cached' \in [Procs -> [Names -> {Cold} \cup SUBSET NodeSet]]
  <2>1. [n \in Names |-> IF n \in names \cap KnownNames(p) THEN Found(p, n) ELSE cached[p][n]]
          \in [Names -> {Cold} \cup SUBSET NodeSet]
    BY <1>2, <1>4
  <2>2. QED
    BY <1>1, <1>2, <2>1
<1>8. \A q \in Procs : \A n \in Names :
         cached'[q][n] = Cold \/ \A v \in cached'[q][n] : v[2] = n
  BY <1>4, <1>6 DEF Caches
<1>9. ASSUME FreshCaches(p)
      PROVE  FreshCaches(p)'
  <2>1. KnownNames(p)' = {v[2] : v \in nodes'}
    <3>1. KnownNames(p) = {v[2] : v \in nodes}
      BY <1>9 DEF FreshCaches
    <3>2. known'[p] = known[p] \/ known'[p] = KnownNames(p)
      BY <1>1, <1>2
    <3>3. QED
      BY <3>1, <3>2 DEF KnownNames
  <2>2. \A n \in Names : cached'[p][n] = Cold \/ cached'[p][n] = Named(n, nodes')
    BY <1>4, <1>6, <1>9 DEF FreshCaches
  <2>3. QED
    BY <2>1, <2>2 DEF FreshCaches
<1>10. QED
  BY <1>5, <1>7, <1>8, <1>9

\* A process that clears its caches has fresh ones.
LEMMA ClearEffect ==
    ASSUME TypeOK, Caches, NEW p \in Procs, ClearCaches(p)
    PROVE  /\ known' \in [Procs -> {Cold} \cup SUBSET Names]
           /\ cached' \in [Procs -> [Names -> {Cold} \cup SUBSET NodeSet]]
           /\ \A q \in Procs : \A n \in Names :
                 cached'[q][n] = Cold \/ \A v \in cached'[q][n] : v[2] = n
           /\ FreshCaches(p)'
<1>1. /\ known' = [known EXCEPT ![p] = Cold]
      /\ cached' = [cached EXCEPT ![p] = [n \in Names |-> Cold]]
      /\ known \in [Procs -> {Cold} \cup SUBSET Names]
      /\ cached \in [Procs -> [Names -> {Cold} \cup SUBSET NodeSet]]
  BY DEF ClearCaches, TypeOK
<1>2. known' \in [Procs -> {Cold} \cup SUBSET Names] /\ known'[p] = Cold
  BY <1>1
<1>3. \A q \in Procs : \A n \in Names : cached'[q][n] = IF q = p THEN Cold ELSE cached[q][n]
  BY <1>1
<1>4. cached' \in [Procs -> [Names -> {Cold} \cup SUBSET NodeSet]]
  <2>1. [n \in Names |-> Cold] \in [Names -> {Cold} \cup SUBSET NodeSet]
    OBVIOUS
  <2>2. QED
    BY <1>1, <2>1
<1>5. FreshCaches(p)'
  BY <1>2, <1>3 DEF FreshCaches, KnownNames
<1>6. QED
  BY <1>2, <1>3, <1>4, <1>5 DEF Caches

\* What resolving does to the invariant.
LEMMA ResolveKeeps ==
    ASSUME IInv, pc \notin {"idle", "delete"} \cup Storing, NEW refs, refs \subseteq pending \cup failed,
           Persist(sync.by, refs), sync'.saved = {}
    PROVE  /\ TrueRefs'
           /\ nodes' = nodes /\ row' = row /\ edges' \subseteq EdgeSet
           /\ pending' \subseteq RefSet /\ failed' \subseteq RefSet
           /\ dropped \subseteq dropped' /\ missed \subseteq missed'
           /\ \A r : Unknown(r, row', pending', failed', edges') =>
                 r \in dropped' \/ Unknown(r, row, pending, failed, edges)
           /\ \A r \in failed' : r \in failed \ refs \/ Settled(r)'
           /\ \A r \in failed' \ refs : \A v \in nodes :
                 <<r[1], r[2], v>> \in refused => <<r[1], r[2], v>> \in refused'
           /\ refs = {} \/ FreshCaches(sync.by) => UNCHANGED <<dropped, missed>>
<1>1. TypeOK /\ TrueRefs /\ Caches /\ sync.by \in Procs
  BY DEF IInv, Core, TypeOK
<1>2. /\ nodes' = nodes /\ row' = row
      /\ edges \subseteq edges' /\ edges' \subseteq EdgeSet
      /\ \A e \in edges' \ edges : e[3] \in nodes /\ e[3][2] = e[2] /\ Ref(e) \in refs
      /\ pending' = pending \ refs /\ failed \ refs \subseteq failed' /\ failed' \subseteq failed \cup refs
      /\ dropped \subseteq dropped' /\ missed \subseteq missed'
      /\ \A r \in refs : r \in dropped' \cup failed' \/ \E e \in edges' : r = Ref(e)
      /\ \A r \in failed' \cap refs :
            r[2] \in missed' \/ \A v \in Named(r[2], nodes) : <<r[1], r[2], v>> \in refused'
      /\ \A r \in failed' \ refs : \A v \in nodes :
            <<r[1], r[2], v>> \in refused => <<r[1], r[2], v>> \in refused'
      /\ refs = {} \/ FreshCaches(sync.by) => UNCHANGED <<dropped, missed>>
  BY <1>1, PersistEffect
<1>3. pending' \subseteq RefSet /\ failed' \subseteq RefSet
  BY <1>1, <1>2 DEF TypeOK
<1>4. TrueRefs'
  <2>1. \A r \in pending' \cup failed' : UsedBy(r)'
    BY <1>1, <1>2 DEF TrueRefs, UsedBy
  <2>2. ASSUME NEW e \in edges'
        PROVE  e[3] \in nodes' /\ e[3][2] = e[2] /\ UsedBy(Ref(e))'
    <3>1. CASE e \in edges
      BY <1>1, <1>2, <3>1 DEF TrueRefs, UsedBy
    <3>2. CASE e \notin edges
      <4>1. Ref(e) \in pending \cup failed /\ e[3] \in nodes' /\ e[3][2] = e[2]
        BY <1>2, <3>2
      <4>2. QED
        BY <1>1, <1>2, <4>1 DEF TrueRefs, UsedBy
    <3>3. QED
      BY <3>1, <3>2
  <2>3. QED
    BY <2>1, <2>2 DEF TrueRefs, Ref
<1>5. ASSUME NEW r, Unknown(r, row', pending', failed', edges')
      PROVE  r \in dropped' \/ Unknown(r, row, pending, failed, edges)
  <2>1. CASE r \in refs
    BY <1>2, <1>5, <2>1 DEF Unknown
  <2>2. CASE r \notin refs
    BY <1>2, <1>5, <2>2 DEF Unknown
  <2>3. QED
    BY <2>1, <2>2
<1>6. \A r \in failed' : r \in failed \ refs \/ Settled(r)'
  BY <1>2 DEF Settled
<1>7. QED
  BY <1>2, <1>3, <1>4, <1>5, <1>6

-----------------------------------------------------------------------------
(* Removing a file.                                                        *)

\* What removing the rows of a file leaves of nodes, edges and references.
LEMMA DeleteEffect ==
    ASSUME TypeOK, TrueRefs, NEW f \in Files, DeleteFile(f)
    PROVE  /\ DOMAIN row' = Files /\ \A g \in Files : row'[g] = IF g = f THEN Absent ELSE row[g]
           /\ nodes' \subseteq nodes
           /\ \A e : e \in edges' <=> e \in edges /\ e[1] # f /\ e[3][1] # f
           /\ \A e \in edges' : e[3] \in nodes'
           /\ pending' = {r \in pending : r[1] # f} /\ failed' = {r \in failed : r[1] # f}
           /\ \A r \in failed' : \A v \in nodes' :
                 <<r[1], r[2], v>> \in refused => <<r[1], r[2], v>> \in refused'
           /\ \A r : Unknown(r, row', pending', failed', edges') =>
                 /\ r[1] # f
                 /\ Unknown(r, row, pending, failed, edges) \/ \E e \in Incoming(f) : r = Ref(e)
<1>1. /\ row' = [row EXCEPT ![f] = Absent] /\ nodes' = nodes \ NodesOf(f)
      /\ edges' = {e \in edges : e[1] # f /\ e[3] \notin NodesOf(f)}
      /\ pending' = {r \in pending : r[1] # f} /\ failed' = {r \in failed : r[1] # f}
      /\ refused' = {e \in refused : e[1] # f /\ e[3] \notin NodesOf(f)}
  BY DEF DeleteFile, Cascade
<1>2. DOMAIN row' = Files /\ \A g \in Files : row'[g] = IF g = f THEN Absent ELSE row[g]
  BY <1>1 DEF TypeOK
<1>3. \A e \in edges : e[3] \in NodesOf(f) <=> e[3][1] = f
  BY DEF TrueRefs, NodesOf
<1>4. /\ \A e : e \in edges' <=> e \in edges /\ e[1] # f /\ e[3][1] # f
      /\ \A e \in edges' : e[3] \in nodes'
  BY <1>1, <1>3 DEF TrueRefs
<1>5. ASSUME NEW r, Unknown(r, row', pending', failed', edges')
      PROVE  /\ r[1] # f
             /\ Unknown(r, row, pending, failed, edges) \/ \E e \in Incoming(f) : r = Ref(e)
  <2>1. r \in RefSet /\ r[1] \in Files /\ r[1] # f
    BY <1>2, <1>5, Shapes DEF Unknown
  <2>2. row'[r[1]] = row[r[1]]
    BY <1>2, <2>1
  <2>3. r \notin pending /\ r \notin failed
    BY <1>1, <1>5, <2>1 DEF Unknown
  <2>4. CASE \E e \in edges : r = Ref(e)
    <3>1. PICK e \in edges : r = Ref(e)
      BY <2>4
    <3>2. e[1] = r[1] /\ e \notin edges'
      BY <1>5, <3>1, Shapes DEF Unknown, TypeOK
    <3>3. e \in Incoming(f)
      BY <1>4, <2>1, <3>2 DEF Incoming
    <3>4. QED
      BY <2>1, <3>1, <3>3
  <2>5. CASE ~\E e \in edges : r = Ref(e)
    BY <1>5, <2>1, <2>2, <2>3, <2>5 DEF Unknown
  <2>6. QED
    BY <2>4, <2>5
<1>6. ASSUME NEW r \in failed', NEW v \in nodes', <<r[1], r[2], v>> \in refused
      PROVE  <<r[1], r[2], v>> \in refused'
  <2>1. r \in RefSet /\ v \in NodeSet /\ r[1] # f /\ v \notin NodesOf(f)
    BY <1>1, <1>6 DEF TypeOK
  <2>2. <<r[1], r[2], v>>[1] = r[1] /\ <<r[1], r[2], v>>[3] = v
    BY <2>1, Shapes
  <2>3. QED
    BY <1>1, <1>6, <2>1, <2>2
<1>7. QED
  BY <1>1, <1>2, <1>4, <1>5, <1>6

-----------------------------------------------------------------------------
(* The invariant holds in the initial states, and every step keeps it.     *)

\* Nothing but the files on disk changes.
LEMMA Frame ==
    ASSUME Core, UNCHANGED <<dbVars, caches, pc, sync, history>>
    PROVE  Core'
<1>1. UNCHANGED <<row, nodes, edges, pending, failed, unstamped, known, cached, pc, sync, Excused,
                  missed, popular, refused>>
  BY DEF dbVars, caches, history, skips, Excused
<1>2. Staged' /\ TrueRefs' /\ FileInHand' /\ Resurrection'
  BY <1>1 DEF Core, Staged, TrueRefs, FileInHand, Resurrection, UsedBy, Incoming
<1>3. Accounted' /\ Parked' /\ Caches'
  BY <1>1 DEF Core, Accounted, Parked, Caches, Limbo, Again, Unoffered, FreshCaches, KnownNames
<1>4. QED
  BY <1>2, <1>3 DEF Core

\* An edit of the tree preserves the invariant.
LEMMA EditStep ==
    ASSUME IInv, NEW f \in Files, NEW c \in Contents[f] \cup {Absent}, Edit(f, c)
    PROVE  IInv'
<1>1. /\ disk' = [disk EXCEPT ![f] = c] /\ UNCHANGED <<dbVars, caches, pc, sync, history>>
  BY DEF Edit
<1>2. Core'
  BY <1>1, Frame DEF IInv
<1>3. TypeOK'
  <2>1. DOMAIN disk' = Files /\ \A g \in Files : disk'[g] \in Contents[g] \cup {Absent}
    BY <1>1 DEF IInv, TypeOK
  <2>2. QED
    BY <1>1, <2>1 DEF IInv, TypeOK, dbVars, caches
<1>4. QED
  BY <1>2, <1>3 DEF IInv

\* The steps that leave the database alone.
LEMMA BetweenSyncs ==
    ASSUME IInv, \/ (\E p \in Procs : StartSync(p)) \/ Detect \/ Fallback
                 \/ \E f \in Files : StoreUnchanged(f)
    PROVE  IInv'
<1>1. TypeOK /\ Core
  BY DEF IInv
<1>2. UNCHANGED <<envVars, dbVars, caches, forgiven, forgotten, missed, dropped, unnamed, popular, refused>>
  BY DEF StartSync, Detect, Fallback, StoreUnchanged, history, skips
<1>3. UNCHANGED <<disk, row, nodes, edges, pending, failed, unstamped, known, cached, forgiven,
                  forgotten, missed, dropped, unnamed, popular, refused>>
  BY <1>2 DEF envVars, dbVars, caches
<1>4. Limbo' = Limbo
  BY <1>3 DEF Limbo
<1>5. ASSUME NEW p \in Procs, StartSync(p)
      PROVE  IInv'
  <2>1. /\ pc = "idle" /\ pc' = "remove"
        /\ sync' = [NoSync EXCEPT !.by = p, !.todo = {f \in Files : row[f] # Absent /\ disk[f] = Absent}]
    BY <1>5 DEF StartSync
  <2>2. /\ sync'.by = p /\ sync'.phase = "sync" /\ sync'.saved = {} /\ sync'.unwired = {}
        /\ sync'.changed = {} /\ sync'.resurrected = {}
    BY <2>1 DEF NoSync
  <2>3. TypeOK'
    <3>1. sync' \in SyncSet
      <4>1. NoSync \in SyncSet
        BY DEF NoSync, SyncSet
      <4>2. {f \in Files : row[f] # Absent /\ disk[f] = Absent} \in SUBSET Files
        OBVIOUS
      <4>3. QED
        BY <2>1, <4>1, <4>2 DEF SyncSet
    <3>2. QED
      BY <1>1, <1>3, <2>1, <2>2, <3>1 DEF TypeOK, SyncSet, Storing, Passing
  <2>4. Staged' /\ TrueRefs' /\ FileInHand' /\ Resurrection'
    BY <1>1, <1>3, <2>1, <2>2
       DEF Core, Staged, TrueRefs, FileInHand, Resurrection, UsedBy, Storing, Passing
  <2>5. Excused' = Excused
    BY <1>3, <1>5 DEF StartSync, history, skips, Excused
  <2>6. Accounted' /\ Caches'
    BY <1>1, <1>3, <1>4, <2>1, <2>2, <2>5
       DEF Core, Staged, Accounted, Caches, Again, Storing, Passing
  <2>7. Parked'
    BY <1>1, <1>3, <2>1, <2>2 DEF Core, Staged, Parked, Named, Unoffered, Storing
  <2>8. QED
    BY <2>3, <2>4, <2>6, <2>7 DEF IInv, Core
<1>6. CASE Detect
  <2>1. /\ pc = "remove" /\ pc' = "store"
        /\ sync' = [sync EXCEPT !.todo = {f \in Files : disk[f] \notin {Absent, row[f]}}]
    BY <1>6 DEF Detect
  <2>2. /\ sync'.by = sync.by /\ sync'.phase = sync.phase /\ sync'.saved = sync.saved
        /\ sync'.unwired = sync.unwired /\ sync'.changed = sync.changed /\ sync'.file = sync.file
        /\ sync'.resurrected = sync.resurrected /\ sync'.removed = sync.removed
    BY <1>1, <2>1 DEF TypeOK, SyncSet
  <2>3. TypeOK'
    <3>1. sync' \in SyncSet
      BY <1>1, <2>1 DEF TypeOK, SyncSet
    <3>2. QED
      BY <1>1, <1>3, <2>1, <2>2, <3>1 DEF TypeOK, SyncSet, Storing, Passing
  <2>4. Staged' /\ TrueRefs' /\ FileInHand' /\ Resurrection'
    BY <1>1, <1>3, <2>1, <2>2
       DEF Core, Staged, TrueRefs, FileInHand, Resurrection, UsedBy, Storing, Passing
  <2>5. Excused' = Excused
    BY <1>3, <1>6 DEF Detect, history, skips, Excused
  <2>6. Accounted' /\ Caches'
    BY <1>1, <1>3, <1>4, <2>1, <2>2, <2>5
       DEF Core, Staged, Accounted, Caches, Again, Storing, Passing
  <2>7. Parked'
    BY <1>1, <1>3, <2>1, <2>2 DEF Core, Staged, Parked, Named, Unoffered, Storing
  <2>8. QED
    BY <2>3, <2>4, <2>6, <2>7 DEF IInv, Core
<1>7. CASE Fallback
  <2>1. /\ pc = "fallback" /\ pc' = "store"
        /\ sync' = [sync EXCEPT !.phase = "fallback", !.todo = sync.unwired \ sync.changed,
                                !.unwired = {}, !.resurrected = sync.unwired \ sync.changed]
    BY <1>7 DEF Fallback
  <2>2. /\ sync'.by = sync.by /\ sync'.phase = "fallback" /\ sync'.saved = sync.saved
        /\ sync'.todo = sync.unwired \ sync.changed /\ sync'.changed = sync.changed
    BY <1>1, <2>1 DEF TypeOK, SyncSet
  <2>3. TypeOK'
    <3>1. sync' \in SyncSet
      BY <1>1, <2>1 DEF TypeOK, SyncSet
    <3>2. QED
      BY <1>1, <1>3, <2>1, <2>2, <3>1 DEF TypeOK, SyncSet, Storing, Passing
  <2>4. Staged' /\ TrueRefs' /\ FileInHand' /\ Resurrection'
    BY <1>1, <1>3, <2>1, <2>2
       DEF Core, Staged, TrueRefs, FileInHand, Resurrection, UsedBy, Storing, Passing
  <2>5. ASSUME NEW r \in Limbo, r \notin Excused'
        PROVE  r[1] \in sync'.todo
    <3>1. sync.phase = "sync" /\ sync.saved = {}
      BY <1>1, <2>1 DEF Core, Staged
    <3>2. r \notin Excused /\ r[1] \notin sync.unwired \cap sync.changed
      BY <1>3, <1>7, <2>5 DEF Fallback, Excused
    <3>3. r[1] \in sync.unwired
      BY <1>1, <2>5, <3>1, <3>2 DEF Core, Accounted, Again
    <3>4. QED
      BY <2>2, <3>2, <3>3
  <2>6. Accounted'
    BY <1>4, <2>2, <2>5 DEF Accounted, Again
  <2>7. Caches' /\ Parked'
    BY <1>1, <1>3, <2>1, <2>2 DEF Core, Staged, Caches, Parked, Named, Unoffered, Storing, Passing
  <2>8. QED
    BY <2>3, <2>4, <2>6, <2>7 DEF IInv, Core
<1>8. ASSUME NEW f \in Files, StoreUnchanged(f)
      PROVE  IInv'
  <2>1. /\ pc = "store" /\ pc' = pc /\ sync.phase = "sync"
        /\ sync' = [sync EXCEPT !.todo = @ \ {f}, !.changed = @ \cup {f}]
        /\ UNCHANGED history
    BY <1>8 DEF StoreUnchanged
  <2>2. /\ sync'.by = sync.by /\ sync'.phase = sync.phase /\ sync'.saved = sync.saved
        /\ sync'.unwired = sync.unwired /\ sync'.changed = sync.changed \cup {f}
        /\ sync'.file = sync.file /\ sync'.resurrected = sync.resurrected
        /\ sync'.removed = sync.removed /\ sync' \in SyncSet
    BY <1>1, <2>1 DEF TypeOK, SyncSet
  <2>3. TypeOK'
    BY <1>1, <1>3, <2>1, <2>2 DEF TypeOK, Storing
  <2>4. Staged' /\ TrueRefs' /\ FileInHand' /\ Resurrection'
    BY <1>1, <1>3, <2>1, <2>2
       DEF Core, Staged, TrueRefs, FileInHand, Resurrection, UsedBy, Storing, Passing
  <2>5. Excused' = Excused
    BY <2>1 DEF history, skips, Excused
  <2>6. Accounted' /\ Caches'
    BY <1>1, <1>3, <1>4, <2>1, <2>2, <2>5 DEF Core, Accounted, Caches, Again, Passing
  <2>7. Parked'
    BY <1>1, <1>3, <2>1, <2>2 DEF Core, Parked, Named, Unoffered, Storing
  <2>8. QED
    BY <2>3, <2>4, <2>6, <2>7 DEF IInv, Core
<1>9. QED
  BY <1>5, <1>6, <1>7, <1>8

\* A sync is broken off: what it has taken is in the history.
LEMMA CrashStep ==
    ASSUME IInv, Crash
    PROVE  IInv'
<1>1. TypeOK /\ Core
  BY DEF IInv
<1>2. /\ pc # "idle" /\ pc' = "idle" /\ sync' = NoSync
      /\ ClearCaches(sync.by) \/ UNCHANGED caches
      /\ forgiven' = forgiven \cup Limbo
      /\ missed' = missed \cup {v[2] : v \in {w \in nodes : w[1] \in sync.changed \cup {sync.file}}}
      /\ UNCHANGED <<disk, row, nodes, edges, pending, failed, unstamped, popular, refused>>
      /\ Limbo \subseteq Excused'
  BY DEF Crash, dbVars, skips, Excused
<1>3. /\ sync'.saved = {} /\ sync'.unwired = {} /\ sync'.changed = {} /\ sync'.phase = "sync"
      /\ sync'.resurrected = {} /\ sync' \in SyncSet
  BY <1>2 DEF NoSync, SyncSet
<1>4. /\ known' \in [Procs -> {Cold} \cup SUBSET Names]
      /\ cached' \in [Procs -> [Names -> {Cold} \cup SUBSET NodeSet]]
      /\ \A q \in Procs : \A n \in Names :
            cached'[q][n] = Cold \/ \A v \in cached'[q][n] : v[2] = n
  <2>1. CASE ClearCaches(sync.by)
    <3>1. PICK p \in Procs : p = sync.by
      BY <1>1, <1>2 DEF TypeOK
    <3>2. Caches /\ ClearCaches(p)
      BY <1>1, <2>1, <3>1 DEF Core
    <3>3. /\ known' \in [Procs -> {Cold} \cup SUBSET Names]
          /\ cached' \in [Procs -> [Names -> {Cold} \cup SUBSET NodeSet]]
          /\ \A q \in Procs : \A n \in Names :
                cached'[q][n] = Cold \/ \A v \in cached'[q][n] : v[2] = n
          /\ FreshCaches(p)'
      BY <1>1, <3>2, ClearEffect
    <3>4. QED
      BY <3>3
  <2>2. CASE UNCHANGED caches
    BY <1>1, <2>2 DEF caches, TypeOK, Core, Caches
  <2>3. QED
    BY <1>2, <2>1, <2>2
<1>5. TypeOK'
  BY <1>1, <1>2, <1>3, <1>4 DEF TypeOK, Storing, Passing
<1>6. Staged' /\ TrueRefs' /\ FileInHand' /\ Resurrection' /\ Caches'
  BY <1>1, <1>2, <1>3, <1>4
     DEF Core, Staged, TrueRefs, FileInHand, Resurrection, Caches, UsedBy, Storing, Passing
<1>7. Accounted'
  <2>1. Limbo' = Limbo
    BY <1>2 DEF Limbo
  <2>2. QED
    BY <1>2, <2>1 DEF Accounted
<1>8. Parked'
  <2>1. ASSUME NEW r \in failed, r[2] \notin missed' \cup popular', NEW v \in Named(r[2], nodes)
        PROVE  <<r[1], r[2], v>> \in refused
    <3>1. v \in nodes /\ v[2] = r[2]
      BY DEF Named
    <3>2. v[1] \in Unoffered \/ <<r[1], r[2], v>> \in refused
      BY <1>1, <1>2, <2>1 DEF Core, Parked
    <3>3. v[1] \in Unoffered => v[1] \in sync.changed \cup {sync.file}
      BY DEF Unoffered
    <3>4. v[1] \in sync.changed \cup {sync.file} => v[2] \in missed'
      BY <1>2, <3>1
    <3>5. QED
      BY <2>1, <3>1, <3>2, <3>3, <3>4
  <2>2. QED
    BY <1>2, <2>1 DEF Parked, Named
<1>9. QED
  BY <1>5, <1>6, <1>7, <1>8 DEF IInv, Core

\* The caches are cleared, unless the sync has neither stored nor removed a file.
LEMMA EndOfExtractionStep ==
    ASSUME IInv, EndOfExtraction
    PROVE  IInv'
<1>1. TypeOK /\ Core
  BY DEF IInv
<1>2. /\ pc = "store" /\ sync.phase = "sync" /\ pc' = "changed"
      /\ \/ ClearCaches(sync.by)
         \/ sync.changed = {} /\ ~sync.removed /\ UNCHANGED caches
      /\ UNCHANGED <<disk, row, nodes, edges, pending, failed, unstamped, sync, Excused, missed, popular, refused>>
  BY DEF EndOfExtraction, envVars, dbVars, history, skips, Excused
<1>3. Caches'
      /\ known' \in [Procs -> {Cold} \cup SUBSET Names]
      /\ cached' \in [Procs -> [Names -> {Cold} \cup SUBSET NodeSet]]
  <2>1. CASE ClearCaches(sync.by)
    <3>1. PICK p \in Procs : p = sync.by
      BY <1>1, <1>2 DEF TypeOK
    <3>2. Caches /\ ClearCaches(p)
      BY <1>1, <2>1, <3>1 DEF Core
    <3>3. /\ known' \in [Procs -> {Cold} \cup SUBSET Names]
          /\ cached' \in [Procs -> [Names -> {Cold} \cup SUBSET NodeSet]]
          /\ \A q \in Procs : \A n \in Names :
                cached'[q][n] = Cold \/ \A v \in cached'[q][n] : v[2] = n
          /\ FreshCaches(p)'
      BY <1>1, <3>2, ClearEffect
    <3>4. FreshCaches(sync.by)'
      BY <1>2, <3>1, <3>3 DEF FreshCaches, KnownNames
    <3>5. QED
      BY <3>3, <3>4 DEF Caches
  <2>2. CASE sync.changed = {} /\ ~sync.removed /\ UNCHANGED caches
    <3>1. sync.resurrected = {}
      BY <1>1, <1>2, <2>2 DEF Core, Resurrection
    <3>2. QED
      BY <1>1, <1>2, <2>2, <3>1 DEF caches, TypeOK, Core, Caches
  <2>3. QED
    BY <1>2, <2>1, <2>2
<1>4. TypeOK'
  BY <1>1, <1>2, <1>3 DEF TypeOK, Storing, Passing
<1>5. Staged' /\ TrueRefs' /\ FileInHand' /\ Resurrection'
  BY <1>1, <1>2
     DEF Core, Staged, TrueRefs, FileInHand, Resurrection, UsedBy, Storing, Passing
<1>6. Accounted' /\ Parked'
  BY <1>1, <1>2 DEF Core, Accounted, Parked, Limbo, Again, Unoffered, Storing, Passing
<1>7. QED
  BY <1>3, <1>4, <1>5, <1>6 DEF IInv, Core

\* A file that is gone.
LEMMA ResurrectStep ==
    ASSUME IInv, NEW f \in Files, Resurrect(f)
    PROVE  IInv'
<1> DEFINE again == {Ref(e) : e \in Incoming(f)} \ unstamped
<1>1. TypeOK /\ Core
  BY DEF IInv
<1>2. /\ pc = "remove" /\ pc' = "delete"
      /\ pending' = pending \cup again
      /\ sync' = [sync EXCEPT !.file = f, !.todo = @ \ {f},
                              !.resurrected = @ \cup {r[1] : r \in again}]
      /\ UNCHANGED <<disk, row, nodes, edges, failed, unstamped, known, cached, Excused, missed, popular, refused>>
  BY DEF Resurrect, envVars, caches, history, skips, Excused
<1>3. Incoming(f) \subseteq edges /\ Incoming(f) \subseteq EdgeSet
  BY <1>1 DEF Incoming, TypeOK
<1>4. sync' \in SyncSet
  <2>1. {r[1] : r \in again} \subseteq Files
    BY <1>3, Shapes
  <2>2. QED
    BY <1>1, <1>2, <2>1 DEF TypeOK, SyncSet
<1>5. /\ sync'.by = sync.by /\ sync'.phase = sync.phase /\ sync'.saved = sync.saved
      /\ sync'.unwired = sync.unwired /\ sync'.changed = sync.changed /\ sync'.file = f
  BY <1>1, <1>2 DEF TypeOK, SyncSet
<1>6. TypeOK'
  <2>1. again \subseteq RefSet
    BY <1>3, Shapes
  <2>2. QED
    BY <1>1, <1>2, <1>4, <1>5, <2>1 DEF TypeOK, Storing, Passing
<1>7. TrueRefs'
  <2>1. \A r \in again : UsedBy(r)
    BY <1>1, <1>3 DEF Core, TrueRefs
  <2>2. QED
    BY <1>1, <1>2, <1>5, <2>1 DEF Core, TrueRefs, UsedBy
<1>8. Resurrection'
  BY <1>2, <1>5 DEF Resurrection, Incoming
<1>9. Staged' /\ FileInHand' /\ Caches'
  BY <1>1, <1>2, <1>5 DEF Core, Staged, FileInHand, Caches, Storing, Passing
<1>10. Accounted'
  <2>1. \A r : r \in Limbo' => r \in Limbo
    BY <1>2 DEF Limbo
  <2>2. QED
    BY <1>1, <1>2, <1>5, <2>1 DEF Core, Staged, Accounted, Again
<1>11. Parked'
  BY <1>1, <1>2, <1>5 DEF Core, Parked, Named, Unoffered, Storing
<1>12. QED
  BY <1>6, <1>7, <1>8, <1>9, <1>10, <1>11 DEF IInv, Core

\* The removal of a file preserves the invariant.
LEMMA DeleteStep ==
    ASSUME IInv, Delete
    PROVE  IInv'
<1> DEFINE f == sync.file
<1>1. TypeOK /\ Core /\ TrueRefs
  BY DEF IInv, Core
<1>2. /\ pc = "delete" /\ pc' = "remove" /\ DeleteFile(f)
      /\ sync' = [sync EXCEPT !.file = NoFile, !.removed = TRUE]
      /\ UNCHANGED <<disk, known, cached, missed, popular>>
      /\ Excused' = Excused \cup ({Ref(e) : e \in Incoming(f)} \cap unstamped)
  BY DEF Delete, envVars, caches, Excused
<1>3. /\ sync'.by = sync.by /\ sync'.phase = sync.phase /\ sync'.saved = sync.saved
      /\ sync'.unwired = sync.unwired /\ sync'.changed = sync.changed /\ sync'.removed
      /\ sync' \in SyncSet
  BY <1>1, <1>2 DEF TypeOK, SyncSet
<1>4. f \in Files
  BY <1>1, <1>2 DEF TypeOK
<1>5. /\ DOMAIN row' = Files /\ \A g \in Files : row'[g] = IF g = f THEN Absent ELSE row[g]
      /\ nodes' \subseteq nodes
      /\ \A e : e \in edges' <=> e \in edges /\ e[1] # f /\ e[3][1] # f
      /\ \A e \in edges' : e[3] \in nodes'
      /\ pending' = {r \in pending : r[1] # f} /\ failed' = {r \in failed : r[1] # f}
      /\ \A r \in failed' : \A v \in nodes' :
            <<r[1], r[2], v>> \in refused => <<r[1], r[2], v>> \in refused'
      /\ \A r : Unknown(r, row', pending', failed', edges') =>
            /\ r[1] # f
            /\ Unknown(r, row, pending, failed, edges) \/ \E e \in Incoming(f) : r = Ref(e)
  BY <1>1, <1>2, <1>4, DeleteEffect
<1> HIDE DEF f
<1>6. TypeOK'
  BY <1>1, <1>2, <1>3, <1>4, <1>5 DEF TypeOK, Storing, Passing
<1>7. TrueRefs'
  <2>1. sync'.saved = {}
    BY <1>1, <1>2, <1>3 DEF Core, Staged
  <2>2. \A r \in RefSet : UsedBy(r) => UsedBy(r)'
    BY <1>5, Shapes DEF UsedBy
  <2>3. \A e \in EdgeSet : Ref(e) \in RefSet
    BY Shapes
  <2>4. edges' \subseteq EdgeSet /\ edges' \subseteq edges /\ pending' \cup failed' \subseteq RefSet
        /\ pending' \cup failed' \subseteq pending \cup failed
    BY <1>1, <1>5 DEF TypeOK
  <2>5. QED
    BY <1>1, <1>5, <2>1, <2>2, <2>3, <2>4 DEF TrueRefs, Ref
<1>8. Staged' /\ FileInHand' /\ Resurrection' /\ Caches'
  BY <1>1, <1>2, <1>3 DEF Core, Staged, FileInHand, Resurrection, Caches, Storing, Passing
<1>9. Accounted'
  <2>1. ASSUME NEW r \in Limbo', r \notin Excused'
        PROVE  r \in Limbo
    <3>1. Unknown(r, row', pending', failed', edges')
      BY <1>6, <2>1, LimboThen
    <3>2. r[1] # f /\ r \notin pending
      BY <1>5, <3>1 DEF Unknown
    <3>3. ~\E e \in Incoming(f) : r = Ref(e)
      BY <1>1, <1>2, <2>1, <3>2 DEF Core, Resurrection, f
    <3>4. QED
      BY <1>1, <1>5, <3>1, <3>3, LimboNow
  <2>2. QED
    BY <1>1, <1>2, <1>3, <2>1 DEF Core, Staged, Accounted, Again
<1>10. Parked'
  BY <1>1, <1>2, <1>3, <1>5 DEF Core, Parked, Named, Unoffered, Storing
<1>11. QED
  BY <1>6, <1>7, <1>8, <1>9, <1>10 DEF IInv, Core

\* A file to store: it is deleted first.
LEMMA StoreFileStep ==
    ASSUME IInv, NEW f \in Files, StoreFile(f)
    PROVE  IInv'
<1>1. TypeOK /\ Core /\ TrueRefs
  BY DEF IInv, Core
<1>2. /\ pc = "store" /\ pc' = "insert" /\ disk[f] # Absent
      /\ sync' = [sync EXCEPT !.file = f, !.content = disk[f], !.todo = @ \ {f},
                              !.saved = IF row[f] = Absent THEN {} ELSE Incoming(f)]
      /\ UNCHANGED <<disk, known, cached, Excused, missed, popular>>
  BY DEF StoreFile, envVars, caches, skips, Excused
<1>3. Incoming(f) \subseteq edges /\ Incoming(f) \subseteq EdgeSet /\ \A e \in Incoming(f) : e[1] # f
  BY <1>1 DEF Incoming, TypeOK
<1>4. disk[f] \in Contents[f] /\ disk[f] \in AnyContent
  BY <1>1, <1>2 DEF TypeOK, AnyContent
<1>5. /\ sync'.by = sync.by /\ sync'.phase = sync.phase /\ sync'.file = f /\ sync'.content = disk[f]
      /\ sync'.todo = sync.todo \ {f} /\ sync'.unwired = sync.unwired /\ sync'.changed = sync.changed
      /\ sync'.saved = (IF row[f] = Absent THEN {} ELSE Incoming(f))
      /\ sync'.resurrected = sync.resurrected /\ sync'.removed = sync.removed /\ sync' \in SyncSet
  BY <1>1, <1>2, <1>3, <1>4 DEF TypeOK, SyncSet
<1>6. /\ DOMAIN row' = Files /\ \A g \in Files : row'[g] = IF g = f THEN Absent ELSE row[g]
      /\ nodes' \subseteq nodes /\ edges' \subseteq edges /\ pending' \subseteq pending /\ failed' \subseteq failed
      /\ \A e \in edges' : e[3] \in nodes'
      /\ \A r \in failed' : \A v \in nodes' :
            <<r[1], r[2], v>> \in refused => <<r[1], r[2], v>> \in refused'
      /\ \A r : Unknown(r, row', pending', failed', edges') =>
            /\ r[1] # f
            /\ Unknown(r, row, pending, failed, edges) \/ \E e \in sync'.saved : r = Ref(e)
  <2>1. CASE row[f] # Absent
    <3>1. DeleteFile(f) /\ sync'.saved = Incoming(f)
      BY <1>5, <2>1 DEF StoreFile
    <3>2. /\ DOMAIN row' = Files /\ \A g \in Files : row'[g] = IF g = f THEN Absent ELSE row[g]
          /\ nodes' \subseteq nodes
          /\ \A e : e \in edges' <=> e \in edges /\ e[1] # f /\ e[3][1] # f
          /\ \A e \in edges' : e[3] \in nodes'
          /\ pending' = {r \in pending : r[1] # f} /\ failed' = {r \in failed : r[1] # f}
          /\ \A r \in failed' : \A v \in nodes' :
                <<r[1], r[2], v>> \in refused => <<r[1], r[2], v>> \in refused'
          /\ \A r : Unknown(r, row', pending', failed', edges') =>
                /\ r[1] # f
                /\ Unknown(r, row, pending, failed, edges) \/ \E e \in Incoming(f) : r = Ref(e)
      BY <1>1, <3>1, DeleteEffect
    <3>3. QED
      BY <3>1, <3>2
  <2>2. CASE row[f] = Absent
    <3>1. UNCHANGED <<row, nodes, edges, pending, failed, refused>>
      BY <2>2 DEF StoreFile, dbVars
    <3>2. \A r : Unknown(r, row, pending, failed, edges) => r[1] # f
      BY <2>2 DEF Unknown
    <3>3. QED
      BY <1>1, <2>2, <3>1, <3>2 DEF TypeOK, TrueRefs
  <2>3. QED
    BY <2>1, <2>2
<1>7. TypeOK'
  <2>1. \A g \in Files : row'[g] \in Contents[g] \cup {Absent}
    BY <1>1, <1>6 DEF TypeOK
  <2>2. QED
    BY <1>1, <1>2, <1>4, <1>5, <1>6, <2>1 DEF TypeOK, Storing, Passing
<1>8. TrueRefs'
  <2>1. \A r \in RefSet : UsedBy(r) => UsedBy(r)'
    BY <1>6, Shapes DEF UsedBy
  <2>2. \A e \in EdgeSet : Ref(e) \in RefSet
    BY Shapes
  <2>3. edges' \cup sync'.saved \subseteq edges /\ edges \subseteq EdgeSet /\ pending \cup failed \subseteq RefSet
    BY <1>1, <1>3, <1>5, <1>6 DEF TypeOK
  <2>4. QED
    BY <1>1, <1>6, <2>1, <2>2, <2>3 DEF TrueRefs, Ref
<1>9. FileInHand'
  BY <1>2, <1>3, <1>5, <1>6 DEF FileInHand, Storing
<1>10. Staged' /\ Resurrection' /\ Caches'
  BY <1>1, <1>2, <1>3, <1>5, <1>6 DEF Core, Staged, Resurrection, Caches, Storing, Passing
<1>11. Accounted'
  <2>1. ASSUME NEW r \in Limbo'
        PROVE  \/ r \in Excused'
               \/ \E e \in sync'.saved : r = Ref(e)
               \/ r[1] \in Again'
    <3>1. Unknown(r, row', pending', failed', edges')
      BY <1>7, LimboThen
    <3>2. r[1] # f /\ (r \in Limbo \/ \E e \in sync'.saved : r = Ref(e))
      BY <1>1, <1>6, <3>1, LimboNow
    <3>3. ASSUME r \in Limbo
          PROVE  r \in Excused \/ r[1] \in Again
      BY <1>1, <1>2, <3>3 DEF Core, Staged, Accounted
    <3>4. r[1] \in Again => r[1] \in Again'
      BY <1>5, <3>2 DEF Again
    <3>5. QED
      BY <1>2, <3>2, <3>3, <3>4
  <2>2. QED
    BY <2>1 DEF Accounted
<1>12. Parked'
  BY <1>1, <1>2, <1>5, <1>6 DEF Core, Parked, Named, Unoffered, Storing
<1>13. QED
  BY <1>7, <1>8, <1>9, <1>10, <1>11, <1>12 DEF IInv, Core

\* A file that cannot be read.
LEMMA SkipFileStep ==
    ASSUME IInv, NEW f \in Files, SkipFile(f)
    PROVE  IInv'
<1>1. TypeOK /\ Core
  BY DEF IInv
<1>2. /\ pc = "store" /\ f \in sync.todo /\ sync' = [sync EXCEPT !.todo = @ \ {f}]
      /\ forgiven' = IF sync.phase = "fallback"
                     THEN forgiven \cup {r \in Limbo : r[1] = f} ELSE forgiven
      /\ UNCHANGED <<disk, row, nodes, edges, pending, failed, unstamped, known, cached, pc, missed, popular, refused>>
      /\ Excused \subseteq Excused' /\ forgiven' \subseteq Excused'
  BY DEF SkipFile, envVars, dbVars, caches, skips, Excused
<1>3. /\ sync'.by = sync.by /\ sync'.phase = sync.phase /\ sync'.file = sync.file
      /\ sync'.content = sync.content /\ sync'.todo = sync.todo \ {f}
      /\ sync'.unwired = sync.unwired /\ sync'.changed = sync.changed /\ sync'.saved = sync.saved
      /\ sync'.resurrected = sync.resurrected /\ sync'.removed = sync.removed /\ sync' \in SyncSet
  BY <1>1, <1>2 DEF TypeOK, SyncSet
<1>4. TypeOK'
  BY <1>1, <1>2, <1>3 DEF TypeOK
<1>5. Staged' /\ TrueRefs' /\ FileInHand' /\ Resurrection' /\ Caches' /\ Parked'
  BY <1>1, <1>2, <1>3
     DEF Core, Staged, TrueRefs, FileInHand, Resurrection, Caches, Parked, UsedBy, Named,
         Unoffered, Storing, Passing
<1>6. Accounted'
  <2>1. Limbo' = Limbo
    BY <1>2 DEF Limbo
  <2>2. ASSUME NEW r \in Limbo, r[1] \in Again
        PROVE  r \in forgiven' \/ r[1] \in Again'
    <3>1. CASE sync.phase = "sync"
      BY <1>3, <2>2, <3>1 DEF Again
    <3>2. CASE sync.phase = "fallback"
      <4>1. r[1] \in sync.todo /\ Again' = sync.todo \ {f}
        BY <1>3, <2>2, <3>2 DEF Again
      <4>2. r[1] = f => r \in forgiven'
        BY <1>2, <2>2, <3>2
      <4>3. QED
        BY <4>1, <4>2
    <3>3. sync.phase \in {"sync", "fallback"}
      BY <1>1 DEF TypeOK, SyncSet
    <3>4. QED
      BY <3>1, <3>2, <3>3
  <2>3. QED
    BY <1>1, <1>2, <1>3, <2>1, <2>2 DEF Core, Accounted
<1>7. QED
  BY <1>4, <1>5, <1>6 DEF IInv, Core

\* The nodes of the file; those that a crash left are replaced, and take their
\* edges with them.
LEMMA InsertNodesStep ==
    ASSUME IInv, InsertNodes
    PROVE  IInv'
<1> DEFINE f == sync.file
           new == Nodes(f, sync.content)
           gone == nodes \cap new
<1>1. TypeOK /\ Core
  BY DEF IInv
<1>2. /\ pc = "insert" /\ pc' = "refer"
      /\ nodes' = nodes \cup new
      /\ edges' = {e \in edges : e[1] # f /\ e[3] \notin gone}
      /\ pending' = {r \in pending : r[1] # f} /\ failed' = {r \in failed : r[1] # f}
      /\ forgiven' = {r \in forgiven : r[1] # f} \cup
                         {Ref(e) : e \in {d \in edges : d[3] \in gone /\ d[1] # f}}
      /\ refused' = {e \in refused : e[1] # f /\ e[3] \notin gone}
      /\ UNCHANGED <<disk, row, known, cached, sync, missed, popular>>
      /\ \A r \in Excused : r[1] # f => r \in Excused'
      /\ forgiven' \subseteq Excused'
  BY DEF InsertNodes, Cascade, envVars, caches, skips, Excused
<1>3. f \in Files /\ sync.content \in Contents[f] /\ row[f] = Absent
  BY <1>1, <1>2 DEF TypeOK, Core, FileInHand, Storing
<1>4. new \subseteq NodeSet /\ \A v \in new : v[1] = f
  BY <1>3, Shapes
<1>5. TypeOK'
  BY <1>1, <1>2, <1>3, <1>4 DEF TypeOK, Storing, Passing
<1>6. TrueRefs'
  BY <1>1, <1>2 DEF Core, TrueRefs, UsedBy
<1>7. FileInHand'
  BY <1>1, <1>2, <1>3 DEF Core, FileInHand
<1>8. Staged' /\ Resurrection' /\ Caches'
  BY <1>1, <1>2 DEF Core, Staged, Resurrection, Caches, Storing, Passing
<1> HIDE DEF new
<1>9. Accounted'
  <2>1. ASSUME NEW r \in Limbo'
        PROVE  \/ r \in Excused'
               \/ \E e \in sync'.saved : r = Ref(e)
               \/ r[1] \in Again'
    <3>1. Unknown(r, row', pending', failed', edges')
      BY <1>5, LimboThen
    <3>2. r[1] # f /\ r \notin pending /\ r \notin failed
      BY <1>2, <1>3, <3>1 DEF Unknown
    <3>3. CASE \E e \in edges : r = Ref(e)
      <4>1. PICK e \in edges : r = Ref(e)
        BY <3>3
      <4>2. e[1] # f /\ e \notin edges'
        BY <1>1, <3>1, <3>2, <4>1, Shapes DEF TypeOK, Unknown
      <4>3. e[3] \in gone
        BY <1>2, <4>2
      <4>4. r \in forgiven'
        BY <1>2, <4>1, <4>2, <4>3
      <4>5. QED
        BY <1>2, <4>4
    <3>4. CASE ~\E e \in edges : r = Ref(e)
      <4>1. r \in Limbo
        BY <1>1, <1>2, <3>1, <3>2, <3>4, LimboNow DEF Unknown
      <4>2. /\ r \in Excused => r \in Excused'
            /\ r[1] \in Again => r[1] \in Again'
        BY <1>2, <3>2 DEF Again
      <4>3. QED
        BY <1>1, <1>2, <4>1, <4>2 DEF Core, Accounted
    <3>5. QED
      BY <3>3, <3>4
  <2>2. QED
    BY <2>1 DEF Accounted
<1>10. Parked'
  <2>1. Unoffered' = Unoffered \cup {f}
    BY <1>2 DEF Unoffered, Storing
  <2>2. ASSUME NEW r \in failed', NEW v \in nodes', v[2] = r[2], r[2] \notin missed' \cup popular'
        PROVE  v[1] \in Unoffered' \/ <<r[1], r[2], v>> \in refused'
    <3>1. r \in failed /\ r \in RefSet /\ v \in NodeSet /\ r[1] # f
      BY <1>1, <1>2, <1>4, <2>2 DEF TypeOK
    <3>2. CASE v \in new
      BY <1>4, <2>1, <3>2
    <3>3. CASE v \in nodes /\ v \notin new
      <4>1. v[1] \in Unoffered \/ <<r[1], r[2], v>> \in refused
        BY <1>1, <1>2, <2>2, <3>1, <3>3 DEF Core, Parked, Named
      <4>2. <<r[1], r[2], v>>[1] = r[1] /\ <<r[1], r[2], v>>[3] = v
        BY <3>1, Shapes
      <4>3. QED
        BY <1>2, <2>1, <3>1, <3>3, <4>1, <4>2
    <3>4. QED
      BY <1>2, <2>2, <3>2, <3>3
  <2>3. QED
    BY <2>2 DEF Parked, Named
<1>11. QED
  BY <1>5, <1>6, <1>7, <1>8, <1>9, <1>10 DEF IInv, Core

\* Its references wait for the passes.
LEMMA InsertRefsStep ==
    ASSUME IInv, InsertRefs
    PROVE  IInv'
<1> DEFINE f == sync.file
           uses == Uses(f, sync.content)
<1>1. TypeOK /\ Core
  BY DEF IInv
<1>2. /\ pc = "refer" /\ pc' = "rewire" /\ pending' = pending \cup uses
      /\ \A r \in Excused : r[1] # f => r \in Excused'
      /\ UNCHANGED <<disk, row, nodes, edges, failed, unstamped, known, cached, sync, missed, popular, refused>>
  BY DEF InsertRefs, envVars, caches, Excused
<1>3. f \in Files /\ sync.content \in Contents[f] /\ row[f] = Absent
  BY <1>1, <1>2 DEF TypeOK, Core, FileInHand, Storing
<1>4. uses \subseteq RefSet /\ \A r \in uses : r[1] = f /\ r[2] \in sync.content.uses
  BY <1>3, Shapes
<1>5. TypeOK'
  BY <1>1, <1>2, <1>3, <1>4 DEF TypeOK, Storing, Passing
<1>6. TrueRefs'
  BY <1>1, <1>2, <1>3, <1>4 DEF Core, TrueRefs, UsedBy
<1>7. FileInHand'
  BY <1>1, <1>2, <1>3, <1>4 DEF Core, FileInHand, Storing
<1>8. Staged' /\ Resurrection' /\ Caches' /\ Parked'
  BY <1>1, <1>2
     DEF Core, Staged, Resurrection, Caches, Parked, Named, Unoffered, Storing, Passing
<1>9. Accounted'
  <2>1. ASSUME NEW r \in Limbo'
        PROVE  r \in Limbo /\ r[1] # f
    <3>1. Unknown(r, row', pending', failed', edges')
      BY <1>5, LimboThen
    <3>2. QED
      BY <1>1, <1>2, <1>3, <3>1, LimboNow DEF Unknown
  <2>2. QED
    BY <1>1, <1>2, <2>1 DEF Core, Accounted, Again
<1>10. QED
  BY <1>5, <1>6, <1>7, <1>8, <1>9 DEF IInv, Core

\* The edges into it go to the symbols that are there now; the files of those that
\* cannot are to be stored again.
LEMMA RewireStep ==
    ASSUME IInv, Rewire
    PROVE  IInv'
<1> DEFINE f == sync.file
           wired == {e \in sync.saved : Cardinality(Matches(e)) = 1}
           lost == sync.saved \ wired
           to(e) == CHOOSE v \in Matches(e) : TRUE
<1>1. TypeOK /\ Core /\ TrueRefs
  BY DEF IInv, Core
<1>2. /\ pc = "rewire" /\ pc' = "record"
      /\ edges' = edges \cup {<<e[1], e[2], to(e)>> : e \in wired}
      /\ sync' = [sync EXCEPT !.saved = {}, !.unwired = @ \cup {e[1] : e \in lost}]
      /\ forgotten' = IF sync.phase = "fallback"
                      THEN forgotten \cup {Ref(e) : e \in lost} ELSE forgotten
      /\ UNCHANGED <<disk, row, nodes, pending, failed, unstamped, known, cached, missed, popular, refused>>
      /\ Excused \subseteq Excused' /\ forgotten' \subseteq Excused'
  BY DEF Rewire, envVars, caches, skips, Excused
<1>3. /\ f \in Files /\ sync.content \in Contents[f] /\ Nodes(f, sync.content) \subseteq nodes
      /\ nodes \subseteq NodeSet /\ edges \subseteq EdgeSet /\ sync.saved \subseteq EdgeSet
      /\ sync.phase \in {"sync", "fallback"}
  BY <1>1, <1>2 DEF TypeOK, SyncSet, Core, FileInHand, Storing
<1>4. ASSUME NEW e \in wired
      PROVE  to(e) \in nodes /\ to(e)[2] = e[2]
  <2>1. Matches(e) # {}
    BY FS_EmptySet
  <2>2. to(e) \in Matches(e)
    BY <2>1
  <2>3. to(e) \in nodes /\ to(e)[2] = e[3][2]
    BY <1>3, <2>2 DEF Matches, Named
  <2>4. QED
    BY <1>1, <2>3 DEF TrueRefs
<1> HIDE DEF to
<1>5. ASSUME NEW e \in wired
      PROVE  LET d == <<e[1], e[2], to(e)>> IN
             d \in EdgeSet /\ Ref(d) = Ref(e) /\ d[1] = e[1] /\ d[2] = e[2] /\ d[3] = to(e)
  <2>1. e \in EdgeSet /\ to(e) \in NodeSet
    BY <1>3, <1>4
  <2>2. Ref(e) \in RefSet /\ Ref(e)[1] = e[1] /\ Ref(e)[2] = e[2]
    BY <2>1, Shapes
  <2>3. QED
    BY <2>1, <2>2, Shapes
<1>6. /\ edges \subseteq edges' /\ edges' \subseteq EdgeSet
      /\ \A d \in edges' \ edges :
            /\ d[3] \in nodes /\ d[3][2] = d[2]
            /\ \E e \in sync.saved : d[1] = e[1] /\ Ref(d) = Ref(e)
      /\ \A e \in wired : \E d \in edges' : Ref(d) = Ref(e)
  <2>1. ASSUME NEW d \in edges', d \notin edges
        PROVE  /\ d[3] \in nodes /\ d[3][2] = d[2] /\ d \in EdgeSet
               /\ \E e \in sync.saved : d[1] = e[1] /\ Ref(d) = Ref(e)
    <3>1. PICK e \in wired : d = <<e[1], e[2], to(e)>>
      BY <1>2, <2>1
    <3>2. QED
      BY <1>4, <1>5, <3>1
  <2>2. ASSUME NEW e \in wired
        PROVE  \E d \in edges' : Ref(d) = Ref(e)
    <3>1. <<e[1], e[2], to(e)>> \in edges'
      BY <1>2
    <3>2. QED
      BY <1>5, <3>1
  <2>3. QED
    BY <1>2, <1>3, <2>1, <2>2
<1>7. /\ sync'.by = sync.by /\ sync'.phase = sync.phase /\ sync'.file = f /\ sync'.content = sync.content
      /\ sync'.todo = sync.todo /\ sync'.unwired = sync.unwired \cup {e[1] : e \in lost}
      /\ sync'.changed = sync.changed /\ sync'.saved = {}
      /\ sync'.resurrected = sync.resurrected /\ sync'.removed = sync.removed /\ sync' \in SyncSet
  <2>1. {e[1] : e \in lost} \subseteq Files
    BY <1>3, Shapes
  <2>2. QED
    BY <1>1, <1>2, <2>1 DEF TypeOK, SyncSet
<1>8. lost \subseteq sync.saved /\ wired \cup lost = sync.saved
  OBVIOUS
<1> HIDE DEF wired, lost
<1>9. TypeOK'
  BY <1>1, <1>2, <1>3, <1>6, <1>7 DEF TypeOK, Storing, Passing
<1>10. TrueRefs'
  BY <1>1, <1>2, <1>6, <1>7 DEF TrueRefs, UsedBy
<1>11. FileInHand'
  BY <1>1, <1>2, <1>3, <1>6, <1>7 DEF Core, FileInHand, Storing
<1>12. Staged' /\ Resurrection' /\ Caches' /\ Parked'
  BY <1>1, <1>2, <1>3, <1>7
     DEF Core, Staged, Resurrection, Caches, Parked, Named, Unoffered, Storing, Passing
<1>13. Accounted'
  <2>1. ASSUME NEW r \in Limbo'
        PROVE  r \in Excused' \/ r[1] \in Again'
    <3>1. Unknown(r, row', pending', failed', edges')
      BY <1>9, LimboThen
    <3>2. r \in Limbo /\ \A d \in edges' : r # Ref(d)
      BY <1>1, <1>2, <1>6, <3>1, LimboNow DEF Unknown
    <3>3. CASE r \in Excused
      BY <1>2, <3>3
    <3>4. CASE r[1] \in Again
      BY <1>7, <3>4 DEF Again
    <3>5. ASSUME NEW e \in sync.saved, r = Ref(e)
          PROVE  r \in Excused' \/ r[1] \in Again'
      <4>1. e \in lost /\ r[1] = e[1]
        BY <1>3, <1>6, <1>8, <3>2, <3>5, Shapes
      <4>2. CASE sync.phase = "fallback"
        BY <1>2, <3>5, <4>1, <4>2
      <4>3. CASE sync.phase = "sync"
        BY <1>7, <4>1, <4>3 DEF Again
      <4>4. QED
        BY <1>3, <4>2, <4>3
    <3>6. QED
      BY <1>1, <3>2, <3>3, <3>4, <3>5 DEF Core, Accounted
  <2>2. QED
    BY <2>1 DEF Accounted
<1>14. QED
  BY <1>9, <1>10, <1>11, <1>12, <1>13 DEF IInv, Core

\* Its row is there at last.
LEMMA RecordFileStep ==
    ASSUME IInv, RecordFile
    PROVE  IInv'
<1> DEFINE f == sync.file
<1>1. TypeOK /\ Core /\ TrueRefs
  BY DEF IInv, Core
<1>2. /\ pc = "record" /\ pc' = "store"
      /\ row' = [row EXCEPT ![f] = sync.content]
      /\ sync' = [sync EXCEPT !.file = NoFile, !.content = Absent,
                              !.changed = IF sync.phase = "sync" THEN @ \cup {f} ELSE @]
      /\ missed' = IF sync.phase = "sync" THEN missed ELSE missed \cup {v[2] : v \in NodesOf(f)}
      /\ UNCHANGED <<disk, nodes, edges, pending, failed, unstamped, known, cached, Excused, popular, refused>>
  BY DEF RecordFile, envVars, caches, skips, Excused
<1>3. /\ f \in Files /\ sync.content \in Contents[f] /\ sync.saved = {}
      /\ \A e \in edges : e[1] # f
      /\ \A r \in pending \cup failed : r[1] = f => r[2] \in sync.content.uses
      /\ Uses(f, sync.content) \subseteq pending
      /\ sync.phase \in {"sync", "fallback"}
  BY <1>1, <1>2 DEF TypeOK, SyncSet, Core, Staged, FileInHand, Storing
<1>4. /\ sync'.by = sync.by /\ sync'.phase = sync.phase
      /\ sync'.todo = sync.todo /\ sync'.unwired = sync.unwired
      /\ sync'.changed = (IF sync.phase = "sync" THEN sync.changed \cup {f} ELSE sync.changed)
      /\ sync'.saved = {}
      /\ sync'.resurrected = sync.resurrected /\ sync'.removed = sync.removed /\ sync' \in SyncSet
  BY <1>1, <1>2, <1>3 DEF TypeOK, SyncSet
<1>5. DOMAIN row' = Files /\ \A g \in Files : row'[g] = IF g = f THEN sync.content ELSE row[g]
  BY <1>1, <1>2, <1>3 DEF TypeOK
<1>6. TypeOK'
  <2>1. \A g \in Files : row'[g] \in Contents[g] \cup {Absent}
    BY <1>1, <1>3, <1>5 DEF TypeOK
  <2>2. QED
    BY <1>1, <1>2, <1>4, <1>5, <2>1 DEF TypeOK, Storing, Passing
<1>7. TrueRefs'
  <2>1. ASSUME NEW r \in RefSet, UsedBy(r), r[1] = f => r[2] \in sync.content.uses
        PROVE  UsedBy(r)'
    BY <1>3, <1>5, <2>1, Shapes DEF UsedBy
  <2>2. ASSUME NEW e \in edges
        PROVE  UsedBy(Ref(e))'
    <3>1. Ref(e) \in RefSet /\ Ref(e)[1] = e[1] /\ UsedBy(Ref(e))
      BY <1>1, Shapes DEF TypeOK, TrueRefs
    <3>2. row'[e[1]] = row[e[1]]
      BY <1>3, <1>5, <3>1, Shapes
    <3>3. QED
      BY <3>1, <3>2 DEF UsedBy, Ref
  <2>3. pending \cup failed \subseteq RefSet
    BY <1>1 DEF TypeOK
  <2>4. QED
    BY <1>1, <1>2, <1>3, <1>4, <2>1, <2>2, <2>3 DEF TrueRefs, Ref
<1>8. FileInHand'
  BY <1>1, <1>2, <1>3, <1>4 DEF Core, FileInHand, Storing
<1>9. Staged' /\ Resurrection' /\ Caches'
  BY <1>1, <1>2, <1>4 DEF Core, Staged, Resurrection, Caches, Storing, Passing
<1>10. Accounted'
  <2>1. ASSUME NEW r \in Limbo'
        PROVE  r \in Limbo /\ r[1] # f
    <3>1. Unknown(r, row', pending', failed', edges')
      BY <1>6, LimboThen
    <3>2. r \in RefSet /\ r[1] \in Files /\ r \notin pending
      BY <1>2, <3>1, Shapes DEF Unknown
    <3>3. r[1] # f
      <4>1. SUFFICES ASSUME r[1] = f PROVE FALSE
        OBVIOUS
      <4>2. r[2] \in sync.content.uses
        BY <1>5, <3>1, <3>2, <4>1 DEF Unknown
      <4>3. QED
        BY <1>3, <3>2, <4>1, <4>2, Shapes
    <3>4. row'[r[1]] = row[r[1]]
      BY <1>5, <3>2, <3>3
    <3>5. QED
      BY <1>1, <1>2, <3>1, <3>3, <3>4, LimboNow DEF Unknown
  <2>2. ASSUME NEW r, r[1] \in Again, r[1] # f
        PROVE  r[1] \in Again'
    BY <1>4, <2>2 DEF Again
  <2>3. QED
    BY <1>1, <1>2, <1>3, <2>1, <2>2 DEF Core, Accounted
<1>11. Parked'
  <2>1. ASSUME NEW r \in failed, NEW v \in Named(r[2], nodes), r[2] \notin missed' \cup popular
        PROVE  v[1] \in Unoffered' \/ <<r[1], r[2], v>> \in refused
    <3>1. v \in nodes /\ v[2] = r[2]
      BY DEF Named
    <3>2. r[2] \notin missed
      BY <1>2, <2>1
    <3>3. v[1] \in Unoffered \/ <<r[1], r[2], v>> \in refused
      BY <1>1, <2>1, <3>2 DEF Core, Parked
    <3>4. CASE sync.phase = "sync"
      BY <1>2, <1>4, <3>3, <3>4 DEF Unoffered, Storing
    <3>5. CASE sync.phase = "fallback"
      <4>1. v[1] \in Unoffered => v[1] = f
        BY <1>2, <3>5 DEF Unoffered, Storing
      <4>2. v[1] = f => v[2] \in missed'
        BY <1>2, <3>1, <3>5 DEF NodesOf
      <4>3. QED
        BY <2>1, <3>1, <3>3, <4>1, <4>2
    <3>6. QED
      BY <1>3, <3>4, <3>5
  <2>2. QED
    BY <1>2, <2>1 DEF Parked, Named
<1>12. QED
  BY <1>6, <1>7, <1>8, <1>9, <1>10, <1>11 DEF IInv, Core

\* A parked reference that resolving leaves has nothing to be offered but what it
\* had before, and that only if it was not among those that were resolved.
LEMMA ParkedKept ==
    ASSUME Parked, nodes' = nodes, missed \subseteq missed', NEW refs,
           \A r \in failed' : r \in failed \ refs \/ Settled(r)',
           \A r \in failed' \ refs : \A v \in nodes :
              <<r[1], r[2], v>> \in refused => <<r[1], r[2], v>> \in refused',
           NEW r \in failed', r[2] \notin missed', r[2] \notin popular, NEW v \in Named(r[2], nodes)
    PROVE  (v[1] \in Unoffered /\ r \in failed \ refs) \/ <<r[1], r[2], v>> \in refused'
<1>1. CASE Settled(r)'
  BY <1>1 DEF Settled
<1>2. CASE r \in failed \ refs
  BY <1>2 DEF Parked, Named
<1>3. QED
  BY <1>1, <1>2

\* A pass over references keeps all but what says which caches are fresh.
LEMMA PassEffect ==
    ASSUME IInv, NEW refs, refs \subseteq pending \cup failed,
           NEW from \in Passing \cup {"store"}, NEW to \in {"resurrected", "retry", "fallback", "sweep"},
           Pass(from, to, refs)
    PROVE  /\ pc = from /\ pc' = to /\ UNCHANGED <<sync, nodes>>
           /\ TypeOK' /\ TrueRefs' /\ FileInHand' /\ Resurrection' /\ Accounted'
           /\ missed \subseteq missed'
           /\ \A r \in failed' : r \in failed \ refs \/ Settled(r)'
           /\ \A r \in failed' \ refs : \A v \in nodes :
                 <<r[1], r[2], v>> \in refused => <<r[1], r[2], v>> \in refused'
           /\ \A q \in Procs : \A n \in Names :
                 cached'[q][n] = Cold \/ \A v \in cached'[q][n] : v[2] = n
           /\ FreshCaches(sync.by) => FreshCaches(sync.by)'
           /\ refs = {} \/ FreshCaches(sync.by) => UNCHANGED <<dropped, missed>>
<1>1. TypeOK /\ Core /\ Caches
  BY DEF IInv, Core
<1>2. /\ pc = from /\ pc' = to /\ Persist(sync.by, refs) /\ FillCaches(sync.by, {r[2] : r \in refs})
      /\ UNCHANGED <<disk, sync, forgiven, forgotten, overlooked, unnamed>>
  BY DEF Pass, envVars
<1>3. sync.saved = {}
  BY <1>1, <1>2 DEF Core, Staged, Passing
<1>4. PICK p \in Procs : p = sync.by
  BY <1>1, <1>2 DEF TypeOK, Passing
<1>5. /\ TrueRefs' /\ nodes' = nodes /\ row' = row /\ edges' \subseteq EdgeSet
      /\ pending' \subseteq RefSet /\ failed' \subseteq RefSet
      /\ dropped \subseteq dropped' /\ missed \subseteq missed'
      /\ \A r : Unknown(r, row', pending', failed', edges') =>
            r \in dropped' \/ Unknown(r, row, pending, failed, edges)
      /\ \A r \in failed' : r \in failed \ refs \/ Settled(r)'
      /\ \A r \in failed' \ refs : \A v \in nodes :
            <<r[1], r[2], v>> \in refused => <<r[1], r[2], v>> \in refused'
      /\ refs = {} \/ FreshCaches(sync.by) => UNCHANGED <<dropped, missed>>
  <2>1. pc \notin {"idle", "delete"} \cup Storing /\ sync'.saved = {}
    BY <1>2, <1>3 DEF Passing, Storing
  <2>2. QED
    BY <1>2, <2>1, ResolveKeeps
<1>6. /\ known' \in [Procs -> {Cold} \cup SUBSET Names]
      /\ cached' \in [Procs -> [Names -> {Cold} \cup SUBSET NodeSet]]
      /\ \A q \in Procs : \A n \in Names :
            cached'[q][n] = Cold \/ \A v \in cached'[q][n] : v[2] = n
      /\ FreshCaches(p) => FreshCaches(p)'
  <2>1. PICK names : names = {r[2] : r \in refs}
    OBVIOUS
  <2>2. names \subseteq Names
    <3>1. refs \subseteq RefSet
      BY <1>1 DEF TypeOK
    <3>2. QED
      BY <2>1, <3>1, Shapes
  <2>3. FillCaches(p, names)
    BY <1>2, <1>4, <2>1
  <2>4. QED
    BY <1>1, <1>5, <2>2, <2>3, FillEffect
<1>7. FreshCaches(sync.by) => FreshCaches(sync.by)'
  BY <1>2, <1>4, <1>6 DEF FreshCaches, KnownNames
<1>8. TypeOK'
  BY <1>1, <1>2, <1>5, <1>6 DEF TypeOK, Storing, Passing
<1>9. FileInHand' /\ Resurrection'
  BY <1>1, <1>2, <1>3 DEF Core, FileInHand, Resurrection, Storing, Passing
<1>10. Accounted'
  <2>1. ASSUME NEW r \in Limbo'
        PROVE  r \in dropped' \/ r \in Limbo
    <3>1. Unknown(r, row', pending', failed', edges')
      BY <1>8, LimboThen
    <3>2. QED
      BY <1>1, <1>5, <3>1, LimboNow
  <2>2. Excused \subseteq Excused' /\ dropped' \subseteq Excused'
    BY <1>2, <1>5 DEF Excused
  <2>3. QED
    BY <1>1, <1>2, <2>1, <2>2 DEF Core, Accounted, Again
<1>11. QED
  BY <1>2, <1>5, <1>6, <1>7, <1>8, <1>9, <1>10

\* The three passes of a sync, and the one after the fallback.
LEMMA PassStep ==
    ASSUME IInv, ResolveChanged \/ ResolveResurrected \/ RetryFailed \/ ResolveFallback
    PROVE  IInv'
<1>1. TypeOK /\ Core
  BY DEF IInv
<1>2. ASSUME NEW refs, refs \subseteq pending, NEW from \in {"changed", "resurrected"},
             NEW to \in {"resurrected", "retry"}, Pass(from, to, refs), popular' = popular
      PROVE  IInv'
  <2>1. /\ pc = from /\ pc' = to /\ UNCHANGED <<sync, nodes>>
        /\ TypeOK' /\ TrueRefs' /\ FileInHand' /\ Resurrection' /\ Accounted'
        /\ missed \subseteq missed'
        /\ \A r \in failed' : r \in failed \ refs \/ Settled(r)'
        /\ \A r \in failed' \ refs : \A v \in nodes :
              <<r[1], r[2], v>> \in refused => <<r[1], r[2], v>> \in refused'
        /\ \A q \in Procs : \A n \in Names :
              cached'[q][n] = Cold \/ \A v \in cached'[q][n] : v[2] = n
        /\ FreshCaches(sync.by) => FreshCaches(sync.by)'
    BY <1>2, PassEffect DEF Passing
  <2>2. Staged'
    BY <1>1, <2>1 DEF Core, Staged, Passing
  <2>3. Parked'
    <3>1. Unoffered' = Unoffered
      BY <1>2, <2>1 DEF Unoffered, Storing
    <3>2. ASSUME NEW r \in failed', r[2] \notin missed' \cup popular', NEW v \in Named(r[2], nodes)
          PROVE  v[1] \in Unoffered \/ <<r[1], r[2], v>> \in refused'
      BY <1>1, <1>2, <2>1, <3>2, ParkedKept DEF Core
    <3>3. QED
      BY <2>1, <3>1, <3>2 DEF Parked, Named
  <2>4. Caches'
    BY <1>1, <2>1 DEF Core, Caches, Passing
  <2>5. QED
    BY <2>1, <2>2, <2>3, <2>4 DEF IInv, Core
<1>3. CASE ResolveChanged
  <2>1. PICK refs : refs = PendingOf(sync.changed)
    OBVIOUS
  <2>2. QED
    BY <1>2, <1>3, <2>1 DEF ResolveChanged, PendingOf
<1>4. CASE ResolveResurrected
  <2>1. PICK refs : refs = PendingOf(sync.resurrected)
    OBVIOUS
  <2>2. QED
    BY <1>2, <1>4, <2>1 DEF ResolveResurrected, PendingOf
<1>5. CASE RetryFailed
  <2>1. PICK refs : refs = Retryable
    OBVIOUS
  <2>2. Pass("retry", "fallback", refs) /\ refs \subseteq pending \cup failed
    BY <1>5, <2>1 DEF RetryFailed, Retryable
  <2>3. /\ pc = "retry" /\ pc' = "fallback" /\ UNCHANGED <<sync, nodes>>
        /\ TypeOK' /\ TrueRefs' /\ FileInHand' /\ Resurrection' /\ Accounted'
        /\ missed \subseteq missed'
        /\ \A r \in failed' : r \in failed \ refs \/ Settled(r)'
        /\ \A r \in failed' \ refs : \A v \in nodes :
              <<r[1], r[2], v>> \in refused => <<r[1], r[2], v>> \in refused'
        /\ \A q \in Procs : \A n \in Names :
              cached'[q][n] = Cold \/ \A v \in cached'[q][n] : v[2] = n
    BY <2>2, PassEffect DEF Passing
  <2>4. Staged' /\ Caches'
    BY <1>1, <2>3 DEF Core, Staged, Caches, Passing
  <2>5. ASSUME NEW r \in failed', r[2] \notin missed' \cup popular', NEW v \in Named(r[2], nodes)
        PROVE  <<r[1], r[2], v>> \in refused'
    <3>1. CASE Settled(r)'
      BY <2>3, <2>5, <3>1 DEF Settled, Named
    <3>2. CASE r \in failed \ refs
      <4>1. r[2] \notin TooMany /\ (r[2] \in popular => r[2] \in NewNames)
        BY <1>5, <2>5 DEF RetryFailed
      <4>2. r[2] \notin NewNames
        BY <2>1, <3>2, <4>1 DEF Retryable
      <4>3. v[1] \in Unoffered \/ <<r[1], r[2], v>> \in refused'
        BY <1>1, <2>3, <2>5, <4>1, <4>2, ParkedKept DEF Core
      <4>4. v[1] \notin sync.changed
        BY <4>2 DEF NewNames, Named
      <4>5. v[1] \notin Unoffered
        BY <2>3, <4>4 DEF Unoffered, Storing
      <4>6. QED
        BY <4>3, <4>5
    <3>3. QED
      BY <2>3, <3>1, <3>2
  <2>6. Parked'
    BY <2>3, <2>5 DEF Parked, Named
  <2>7. QED
    BY <2>3, <2>4, <2>6 DEF IInv, Core
<1>6. CASE ResolveFallback
  <2>1. PICK refs : refs = PendingOf(sync.resurrected)
    OBVIOUS
  <2>2. Pass("store", "sweep", refs) /\ refs \subseteq pending \cup failed
        /\ sync.phase = "fallback" /\ sync.todo = {}
    BY <1>6, <2>1 DEF ResolveFallback, PendingOf
  <2>3. /\ pc = "store" /\ pc' = "sweep" /\ UNCHANGED <<sync, nodes>>
        /\ TypeOK' /\ TrueRefs' /\ FileInHand' /\ Resurrection' /\ Accounted'
        /\ missed \subseteq missed'
        /\ \A r \in failed' : r \in failed \ refs \/ Settled(r)'
        /\ \A r \in failed' \ refs : \A v \in nodes :
              <<r[1], r[2], v>> \in refused => <<r[1], r[2], v>> \in refused'
        /\ \A q \in Procs : \A n \in Names :
              cached'[q][n] = Cold \/ \A v \in cached'[q][n] : v[2] = n
    BY <2>2, PassEffect
  <2>4. Staged' /\ Caches'
    BY <1>1, <2>2, <2>3 DEF Core, Staged, Caches, Passing
  <2>5. popular' = popular /\ Unoffered = {}
    BY <1>6, <2>2, <2>3 DEF ResolveFallback, Unoffered, Storing
  <2>6. ASSUME NEW r \in failed', r[2] \notin missed' \cup popular', NEW v \in Named(r[2], nodes)
        PROVE  <<r[1], r[2], v>> \in refused'
    BY <1>1, <2>3, <2>5, <2>6, ParkedKept DEF Core
  <2>7. Parked'
    BY <2>3, <2>6 DEF Parked, Named
  <2>8. QED
    BY <2>3, <2>4, <2>7 DEF IInv, Core
<1>7. QED
  BY <1>3, <1>4, <1>5, <1>6

\* The last pass, over what is pending still.
LEMMA SweepStep ==
    ASSUME IInv, Sweep
    PROVE  IInv'
<1>1. TypeOK /\ Core /\ Caches
  BY DEF IInv, Core
<1>2. /\ pc = "sweep" /\ pc' = "idle" /\ Persist(sync.by, pending) /\ sync' = NoSync
      /\ ClearCaches(sync.by) \/ UNCHANGED caches
      /\ UNCHANGED <<disk, forgiven, forgotten, overlooked, unnamed, popular>>
  BY DEF Sweep, envVars, skips
<1>3. /\ sync'.saved = {} /\ sync'.unwired = {} /\ sync'.changed = {} /\ sync'.phase = "sync"
      /\ sync'.resurrected = {} /\ sync' \in SyncSet
  BY <1>2 DEF NoSync, SyncSet
<1>4. PICK refs : refs = pending
  OBVIOUS
<1>5. /\ TrueRefs' /\ nodes' = nodes /\ row' = row /\ edges' \subseteq EdgeSet
      /\ pending' \subseteq RefSet /\ failed' \subseteq RefSet
      /\ dropped \subseteq dropped' /\ missed \subseteq missed'
      /\ \A r : Unknown(r, row', pending', failed', edges') =>
            r \in dropped' \/ Unknown(r, row, pending, failed, edges)
      /\ \A r \in failed' : r \in failed \ refs \/ Settled(r)'
      /\ \A r \in failed' \ refs : \A v \in nodes :
            <<r[1], r[2], v>> \in refused => <<r[1], r[2], v>> \in refused'
  <2>1. pc \notin {"idle", "delete"} \cup Storing /\ refs \subseteq pending \cup failed
    BY <1>2, <1>4 DEF Storing
  <2>2. Persist(sync.by, refs)
    BY <1>2, <1>4
  <2>3. QED
    BY <1>3, <2>1, <2>2, ResolveKeeps
<1>6. /\ known' \in [Procs -> {Cold} \cup SUBSET Names]
      /\ cached' \in [Procs -> [Names -> {Cold} \cup SUBSET NodeSet]]
      /\ \A q \in Procs : \A n \in Names :
            cached'[q][n] = Cold \/ \A v \in cached'[q][n] : v[2] = n
  <2>1. CASE ClearCaches(sync.by)
    <3>1. PICK p \in Procs : p = sync.by
      BY <1>1, <1>2 DEF TypeOK
    <3>2. ClearCaches(p)
      BY <2>1, <3>1
    <3>3. QED
      BY <1>1, <3>2, ClearEffect
  <2>2. CASE UNCHANGED caches
    BY <1>1, <2>2 DEF caches, TypeOK, Caches
  <2>3. QED
    BY <1>2, <2>1, <2>2
<1>7. TypeOK'
  BY <1>1, <1>2, <1>3, <1>5, <1>6 DEF TypeOK, Storing, Passing
<1>8. Staged' /\ FileInHand' /\ Resurrection' /\ Caches'
  BY <1>2, <1>3, <1>6 DEF Staged, FileInHand, Resurrection, Caches, Storing, Passing
<1>9. Accounted'
  <2>1. ASSUME NEW r \in Limbo'
        PROVE  r \in Excused'
    <3>1. Unknown(r, row', pending', failed', edges')
      BY <1>7, LimboThen
    <3>2. r \in dropped' \/ r \in Limbo
      BY <1>1, <1>5, <3>1, LimboNow
    <3>3. Again = {} /\ sync.saved = {}
      BY <1>1, <1>2 DEF Core, Staged, Again
    <3>4. r \in Limbo => r \in Excused
      BY <1>1, <3>3 DEF Core, Accounted
    <3>5. Excused \subseteq Excused' /\ dropped' \subseteq Excused'
      BY <1>2, <1>5 DEF Excused
    <3>6. QED
      BY <3>2, <3>4, <3>5
  <2>2. QED
    BY <2>1 DEF Accounted
<1>10. Parked'
  <2>1. Unoffered = {}
    BY <1>1, <1>2 DEF Core, Staged, Unoffered, Storing
  <2>2. ASSUME NEW r \in failed', r[2] \notin missed' \cup popular', NEW v \in Named(r[2], nodes)
        PROVE  <<r[1], r[2], v>> \in refused'
    BY <1>1, <1>2, <1>5, <2>1, <2>2, ParkedKept DEF Core
  <2>3. QED
    BY <1>5, <2>2 DEF Parked, Named
<1>11. QED
  BY <1>5, <1>7, <1>8, <1>9, <1>10 DEF IInv, Core

\* All is indexed, every reference bound or parked.
LEMMA InitIInv ==
    ASSUME Init
    PROVE  IInv
<1> DEFINE uses == UNION {Uses(f, Origin[f]) : f \in Files}
           refs == uses \ failed
<1>1. /\ disk = Origin /\ row = Origin /\ pc = "idle" /\ sync = NoSync /\ pending = {}
      /\ nodes = UNION {Nodes(f, Origin[f]) : f \in Files}
      /\ failed \subseteq uses /\ refused = Offers(failed)
      /\ known = [p \in Procs |-> Cold] /\ cached = [p \in Procs |-> [n \in Names |-> Cold]]
  BY DEF Init
<1>2. PICK target \in [refs -> nodes] :
        /\ \A r \in refs : target[r][2] = r[2]
        /\ edges = {<<r[1], r[2], target[r]>> : r \in refs}
  BY DEF Init
<1>3. \A f \in Files : Origin[f] \in Contents[f] /\ Origin[f] # Absent
  BY EdgeSyncAssumption
<1>4. nodes \subseteq NodeSet
  BY <1>1, <1>3, Shapes
<1>5. uses \subseteq RefSet /\ \A r \in uses : r[2] \in Origin[r[1]].uses
  BY <1>3, Shapes
<1>6. \A r \in RefSet : r[2] \in Origin[r[1]].uses => r \in uses
  <2>1. ASSUME NEW r \in RefSet, r[2] \in Origin[r[1]].uses
        PROVE  r \in uses
    <3>1. r[1] \in Files
      BY Shapes
    <3>2. r \in Uses(r[1], Origin[r[1]])
      BY <1>3, <2>1, <3>1, Shapes
    <3>3. QED
      BY <3>1, <3>2
  <2>2. QED
    BY <2>1
<1> HIDE DEF uses
<1>7. ASSUME NEW r \in refs
      PROVE  LET d == <<r[1], r[2], target[r]>> IN
             d \in EdgeSet /\ Ref(d) = r /\ d[3] \in nodes /\ d[3][2] = d[2]
  <2>1. r \in RefSet /\ target[r] \in nodes /\ target[r] \in NodeSet
    BY <1>2, <1>4, <1>5
  <2>2. target[r][2] = r[2]
    BY <1>2
  <2>3. QED
    BY <2>1, <2>2, Shapes
<1>8. /\ \A e \in edges : e \in EdgeSet /\ Ref(e) \in refs /\ e[3] \in nodes /\ e[3][2] = e[2]
      /\ \A r \in refs : \E e \in edges : r = Ref(e)
  <2>1. ASSUME NEW e \in edges
        PROVE  e \in EdgeSet /\ Ref(e) \in refs /\ e[3] \in nodes /\ e[3][2] = e[2]
    <3>1. PICK r \in refs : e = <<r[1], r[2], target[r]>>
      BY <1>2
    <3>2. QED
      BY <1>7, <3>1
  <2>2. ASSUME NEW r \in refs
        PROVE  \E e \in edges : r = Ref(e)
    <3>1. <<r[1], r[2], target[r]>> \in edges
      BY <1>2
    <3>2. QED
      BY <1>7, <3>1
  <2>3. QED
    BY <2>1, <2>2
<1>9. /\ sync.saved = {} /\ sync.unwired = {} /\ sync.changed = {} /\ sync.phase = "sync"
      /\ sync.resurrected = {} /\ sync \in SyncSet
  BY <1>1 DEF NoSync, SyncSet
<1>10. TypeOK
  <2>1. failed \subseteq RefSet /\ edges \subseteq EdgeSet
    BY <1>1, <1>5, <1>8
  <2>2. /\ known \in [Procs -> {Cold} \cup SUBSET Names]
        /\ cached \in [Procs -> [Names -> {Cold} \cup SUBSET NodeSet]]
    <3>1. [n \in Names |-> Cold] \in [Names -> {Cold} \cup SUBSET NodeSet]
      OBVIOUS
    <3>2. QED
      BY <1>1, <3>1
  <2>3. DOMAIN Origin = Files
    BY EdgeSyncAssumption
  <2>4. QED
    BY <1>1, <1>3, <1>4, <1>9, <2>1, <2>2, <2>3 DEF TypeOK, Storing, Passing
<1>11. TrueRefs
  <2>1. refs \cup failed \subseteq uses
    BY <1>1
  <2>2. QED
    BY <1>1, <1>5, <1>8, <1>9, <2>1 DEF TrueRefs, UsedBy
<1>12. Staged /\ FileInHand /\ Resurrection /\ Caches
  BY <1>1, <1>9 DEF Staged, FileInHand, Resurrection, Caches, Storing, Passing
<1>13. Accounted
  <2>1. ASSUME NEW r \in Limbo
        PROVE  FALSE
    <3>1. Unknown(r, row, pending, failed, edges)
      BY <1>10, LimboNow
    <3>2. r \in uses /\ r \notin failed
      BY <1>1, <1>6, <3>1 DEF Unknown
    <3>3. QED
      BY <1>8, <3>1, <3>2 DEF Unknown
  <2>2. QED
    BY <2>1 DEF Accounted
<1>14. Parked
  <2>1. ASSUME NEW r \in failed, NEW v \in Named(r[2], nodes)
        PROVE  <<r[1], r[2], v>> \in refused
    <3>1. refused = Offers(failed)
      BY <1>1
    <3>2. QED
      BY <2>1, <3>1 DEF Offers
  <2>2. QED
    BY <2>1 DEF Parked
<1>15. QED
  BY <1>10, <1>11, <1>12, <1>13, <1>14 DEF IInv, Core

\* Every step keeps the invariant.
LEMMA StepIInv ==
    ASSUME IInv, [Next]_vars
    PROVE  IInv'
<1>1. CASE \E f \in Files : Resurrect(f) \/ \E c \in Contents[f] \cup {Absent} : Edit(f, c)
  BY <1>1, ResurrectStep, EditStep
<1>2. CASE Store
  BY <1>2, StoreFileStep, BetweenSyncs, SkipFileStep, InsertNodesStep, InsertRefsStep, RewireStep, RecordFileStep
     DEF Store
<1>3. CASE (\E p \in Procs : StartSync(p)) \/ Detect \/ Fallback
  BY <1>3, BetweenSyncs
<1>4. CASE Delete \/ EndOfExtraction
  BY <1>4, DeleteStep, EndOfExtractionStep
<1>5. CASE ResolveChanged \/ ResolveResurrected \/ RetryFailed \/ ResolveFallback
  BY <1>5, PassStep
<1>6. CASE Sweep \/ Crash
  BY <1>6, SweepStep, CrashStep
<1>7. CASE UNCHANGED vars
  <2>1. /\ UNCHANGED <<dbVars, caches, pc, sync, history>>
        /\ UNCHANGED <<disk, row, nodes, edges, pending, failed, known, cached>>
    BY <1>7 DEF vars, envVars, dbVars, caches
  <2>2. Core'
    BY <2>1, Frame DEF IInv
  <2>3. TypeOK'
    BY <2>1 DEF IInv, TypeOK
  <2>4. QED
    BY <2>2, <2>3 DEF IInv
<1>8. QED
  BY <1>1, <1>2, <1>3, <1>4, <1>5, <1>6, <1>7 DEF Next

-----------------------------------------------------------------------------
(* The theorems.                                                           *)

\* In every reachable state, in the middle of a sync too, each reference that the
\* database does not know of has its exception or its file that is to be stored
\* again, each edge ends at a symbol that is there, and each parked reference has been
\* offered the symbols of its name but those of files still to be offered to it.
THEOREM Invariance == Spec => []IInv
<1>1. Init => IInv
  BY InitIInv
<1>2. IInv /\ [Next]_vars => IInv'
  BY StepIInv
<1>3. QED
  BY <1>1, <1>2, PTL DEF Spec

\* The variables have their types, and a sync that stores a file has the file and
\* its content.
THEOREM TypeCorrect == Spec => []TypeOK
<1>1. IInv => TypeOK
  BY DEF IInv
<1>2. QED
  BY <1>1, Invariance, PTL

\* No store or removal of the file it points into loses a reference silently
\* (storeExtractionResult, rewireEdges and sync of extraction/index.ts).
THEOREM NothingLost == Spec => []NothingIsLost
<1>1. IInv => NothingIsLost
  <2>1. SUFFICES ASSUME IInv, pc = "idle"
                 PROVE  Limbo \subseteq Excused
    BY DEF NothingIsLost
  <2>2. sync.saved = {} /\ Again = {}
    BY <2>1 DEF IInv, Core, Staged, Again
  <2>3. QED
    BY <2>1, <2>2 DEF IInv, Core, Accounted
<1>2. QED
  BY <1>1, Invariance, PTL

\* Between syncs an edge leads from a use of a name to a symbol of that name.
THEOREM TrueEdges == Spec => []EdgesAreTrue
<1>1. IInv => EdgesAreTrue
  <2>1. SUFFICES ASSUME IInv, pc = "idle", NEW e \in edges
                 PROVE  /\ e[3] \in nodes /\ e[3][2] = e[2]
                        /\ row[e[1]] # Absent => e[2] \in row[e[1]].uses
    BY DEF EdgesAreTrue
  <2>2. e \in EdgeSet /\ TrueRefs
    BY <2>1 DEF IInv, TypeOK, Core
  <2>3. Ref(e)[1] = e[1] /\ Ref(e)[2] = e[2]
    BY <2>2, Shapes
  <2>4. QED
    BY <2>2, <2>3 DEF TrueRefs, UsedBy
<1>2. QED
  BY <1>1, Invariance, PTL

\* Between syncs a parked reference has been offered every symbol of its name, unless
\* a retry did not come about or left its name aside for its many rows
\* (getRetryableFailedReferences of db/queries.ts).
THEOREM ParkedOffered == Spec => []ParkedWasOffered
<1>1. IInv => ParkedWasOffered
  <2>1. SUFFICES ASSUME IInv, pc = "idle", NEW r \in failed, r[2] \notin missed \cup popular
                 PROVE  Offers({r}) \subseteq refused
    BY DEF ParkedWasOffered
  <2>2. Unoffered = {}
    BY <2>1 DEF IInv, Core, Staged, Unoffered, Storing
  <2>3. \A v \in Named(r[2], nodes) : <<r[1], r[2], v>> \in refused
    BY <2>1, <2>2 DEF IInv, Core, Parked
  <2>4. QED
    BY <2>3 DEF Offers
<1>2. QED
  BY <1>1, Invariance, PTL

\* The passes over changed, resurrected and failed references never resolve
\* against a stale cache: their sync has cleared it, or has nothing to resolve.
THEOREM PassesSee == Spec => PassesSeeTheDatabase
<1>1. ASSUME IInv, [Next]_vars, pc \in {"changed", "resurrected", "retry"}, pc' # "idle"
      PROVE  UNCHANGED <<dropped, missed>>
  <2>1. FreshCaches(sync.by) \/ (sync.changed = {} /\ sync.resurrected = {})
    BY <1>1 DEF IInv, Core, Caches, Passing
  <2>2. ASSUME NEW refs, refs \subseteq pending \cup failed, NEW from \in Passing, NEW to \in {"resurrected", "retry", "fallback"},
               Pass(from, to, refs), refs = {} \/ FreshCaches(sync.by)
        PROVE  UNCHANGED <<dropped, missed>>
    BY <1>1, <2>2, PassEffect
  <2>3. CASE ResolveChanged
    <3>1. PICK refs : refs = PendingOf(sync.changed)
      OBVIOUS
    <3>2. QED
      BY <2>1, <2>2, <2>3, <3>1 DEF ResolveChanged, PendingOf, Passing
  <2>4. CASE ResolveResurrected
    <3>1. PICK refs : refs = PendingOf(sync.resurrected)
      OBVIOUS
    <3>2. QED
      BY <2>1, <2>2, <2>4, <3>1 DEF ResolveResurrected, PendingOf, Passing
  <2>5. CASE RetryFailed
    <3>1. PICK refs : refs = Retryable
      OBVIOUS
    <3>2. QED
      BY <2>1, <2>2, <2>5, <3>1 DEF RetryFailed, Retryable, NewNames, Passing
  <2>6. CASE (\E f \in Files : \E c \in Contents[f] \cup {Absent} : Edit(f, c)) \/ UNCHANGED vars
    BY <2>6 DEF Edit, vars, history
  <2>7. QED
    BY <1>1, <2>3, <2>4, <2>5, <2>6
       DEF Next, Store, StartSync, Resurrect, Delete, Detect, StoreFile, StoreUnchanged, SkipFile, InsertNodes, InsertRefs,
           Rewire, RecordFile, EndOfExtraction, Fallback, ResolveFallback, Pass, Sweep, Crash
<1>2. IInv /\ [Next]_vars =>
        [(pc \in {"changed", "resurrected", "retry"} /\ pc' # "idle") => UNCHANGED <<dropped, missed>>]_vars
  BY <1>1
<1>3. QED
  BY <1>2, Invariance, PTL DEF PassesSeeTheDatabase, Spec

=============================================================================
