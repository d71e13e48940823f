----------------------------- MODULE ProxyProofs -----------------------------
(***************************************************************************)
(* Proofs about Proxy: every request is in one place until it is answered, *)
(* and answered once; a cancellation is lost only on a call that waited    *)
(* when the proxy gave up the daemon; and every step of the proxy is one   *)
(* that HostService allows.                                                *)
(***************************************************************************)
EXTENDS Proxy, FiniteSetTheorems, SequenceTheorems, WellFoundedInduction, TLAPS

-----------------------------------------------------------------------------
(* Sequences of different elements.                                        *)

Distinct(s) == \A i, j \in 1..Len(s) : s[i] = s[j] => i = j

\* The elements of a sequence are those at its positions.
LEMMA ElementsOf ==
    ASSUME NEW S, NEW s \in Seq(S)
    PROVE  /\ \A x : x \in ToSet(s) <=> \E i \in 1..Len(s) : s[i] = x
           /\ ToSet(s) \subseteq S
           /\ s = <<>> => ToSet(s) = {}
<1>1. DOMAIN s = 1..Len(s) /\ Len(s) \in Nat /\ s \in [1..Len(s) -> S]
  BY LenProperties
<1>2. s = <<>> => Len(s) = 0
  BY EmptySeq
<1>3. QED
  BY <1>1, <1>2 DEF ToSet

\* A new element is appended.
LEMMA ElementsOfAppend ==
    ASSUME NEW S, NEW s \in Seq(S), NEW x \in S
    PROVE  /\ Append(s, x) \in Seq(S)
           /\ ToSet(Append(s, x)) = ToSet(s) \cup {x}
           /\ Distinct(s) /\ x \notin ToSet(s) => Distinct(Append(s, x))
<1> DEFINE t == Append(s, x)
<1>1. /\ t \in Seq(S) /\ Len(t) = Len(s) + 1 /\ t[Len(s) + 1] = x
      /\ \A i \in 1..Len(s) : t[i] = s[i]
  BY AppendProperties
<1>2. Len(s) \in Nat
  BY LenProperties
<1> HIDE DEF t
<1>3. /\ \A y : y \in ToSet(t) <=> \E i \in 1..Len(t) : t[i] = y
      /\ \A y : y \in ToSet(s) <=> \E i \in 1..Len(s) : s[i] = y
  BY <1>1, ElementsOf
<1>4. \A i \in 1..Len(t) : i \in 1..Len(s) \/ i = Len(s) + 1
  BY <1>1, <1>2
<1>5. ToSet(t) = ToSet(s) \cup {x}
  <2>1. ASSUME NEW y \in ToSet(t) PROVE y \in ToSet(s) \cup {x}
    BY <1>1, <1>3, <1>4
  <2>2. ASSUME NEW y \in ToSet(s) PROVE y \in ToSet(t)
    BY <1>1, <1>2, <1>3
  <2>3. x \in ToSet(t)
    BY <1>1, <1>2, <1>3
  <2>4. QED
    BY <2>1, <2>2, <2>3
<1>6. ASSUME Distinct(s), x \notin ToSet(s)
      PROVE  Distinct(t)
  BY <1>1, <1>2, <1>3, <1>4, <1>6 DEF Distinct
<1>7. QED
  BY <1>1, <1>5, <1>6 DEF t

\* A part of a sequence.
LEMMA ElementsOfPart ==
    ASSUME NEW S, NEW s \in Seq(S), NEW m \in 1..Len(s) + 1, NEW n \in 0..Len(s)
    PROVE  /\ SubSeq(s, m, n) \in Seq(S)
           /\ \A x : x \in ToSet(SubSeq(s, m, n)) <=> \E i \in m..n : s[i] = x
           /\ Distinct(s) => Distinct(SubSeq(s, m, n))
<1> DEFINE t == SubSeq(s, m, n)
<1>1. Len(s) \in Nat /\ s \in [1..Len(s) -> S]
  BY LenProperties
<1>2. \A i \in m..n : s[i] \in S
  BY <1>1
<1>3. /\ t \in Seq(S) /\ Len(t) = IF m <= n THEN n - m + 1 ELSE 0
      /\ \A i \in 1..n - m + 1 : t[i] = s[m + i - 1]
  BY <1>1, <1>2, SubSeqProperties
<1> HIDE DEF t
<1>4. ASSUME NEW x
      PROVE  x \in ToSet(t) <=> \E i \in m..n : s[i] = x
  <2>1. x \in ToSet(t) <=> \E i \in 1..Len(t) : t[i] = x
    BY <1>3, ElementsOf
  <2>2. ASSUME NEW i \in m..n PROVE i - m + 1 \in 1..Len(t) /\ t[i - m + 1] = s[i]
    BY <1>1, <1>3
  <2>3. ASSUME NEW i \in 1..Len(t) PROVE m + i - 1 \in m..n /\ t[i] = s[m + i - 1]
    BY <1>1, <1>3
  <2>4. ASSUME NEW i \in m..n, s[i] = x PROVE x \in ToSet(t)
    BY <2>1, <2>2, <2>4
  <2>5. ASSUME x \in ToSet(t) PROVE \E i \in m..n : s[i] = x
    BY <2>1, <2>3, <2>5
  <2>6. QED
    BY <2>4, <2>5
<1>5. ASSUME Distinct(s)
      PROVE  Distinct(t)
  <2>1. \A i \in 1..Len(t) : m + i - 1 \in 1..Len(s) /\ t[i] = s[m + i - 1]
    BY <1>1, <1>3
  <2>2. ASSUME NEW i \in 1..Len(t), NEW j \in 1..Len(t), t[i] = t[j]
        PROVE  i = j
    <3>1. m + i - 1 = m + j - 1
      BY <1>5, <2>1, <2>2 DEF Distinct
    <3>2. QED
      BY <3>1
  <2>3. QED
    BY <2>2 DEF Distinct
<1>6. QED
  BY <1>3, <1>4, <1>5 DEF t

\* The first element is taken.
LEMMA ElementsOfTail ==
    ASSUME NEW S, NEW s \in Seq(S), s # <<>>, Distinct(s)
    PROVE  /\ Tail(s) \in Seq(S) /\ Distinct(Tail(s))
           /\ Head(s) \in S /\ Head(s) \in ToSet(s)
           /\ ToSet(Tail(s)) = ToSet(s) \ {Head(s)}
<1>1. /\ Tail(s) = SubSeq(s, 2, Len(s)) /\ Head(s) = s[1] /\ Len(s) \in Nat \ {0}
      /\ Head(s) \in S /\ Tail(s) \in Seq(S)
  BY TailIsSubSeq, EmptySeq, HeadTailProperties
<1>2. /\ \A x : x \in ToSet(Tail(s)) <=> \E i \in 2..Len(s) : s[i] = x
      /\ Distinct(Tail(s))
  <2>1. 2 \in 1..Len(s) + 1 /\ Len(s) \in 0..Len(s)
    BY <1>1
  <2>2. /\ \A x : x \in ToSet(SubSeq(s, 2, Len(s))) <=> \E i \in 2..Len(s) : s[i] = x
        /\ Distinct(s) => Distinct(SubSeq(s, 2, Len(s)))
    BY <2>1, ElementsOfPart
  <2>3. QED
    BY <1>1, <2>2
<1>3. \A x : x \in ToSet(s) <=> \E i \in 1..Len(s) : s[i] = x
  BY ElementsOf
<1>4. ToSet(Tail(s)) = ToSet(s) \ {Head(s)}
  <2>1. ASSUME NEW x \in ToSet(Tail(s)) PROVE x \in ToSet(s) /\ x # Head(s)
    BY <1>1, <1>2, <1>3 DEF Distinct
  <2>2. ASSUME NEW x \in ToSet(s), x # Head(s) PROVE x \in ToSet(Tail(s))
    BY <1>1, <1>2, <1>3, <2>2
  <2>3. QED
    BY <2>1, <2>2
<1>5. QED
  BY <1>1, <1>2, <1>3, <1>4

\* A sequence is cut in two: its elements are on one side or the other.
LEMMA ElementsOfCut ==
    ASSUME NEW S, NEW s \in Seq(S), Distinct(s), NEW k \in 0..Len(s)
    PROVE  LET front == SubSeq(s, 1, k)
               rest  == SubSeq(s, k + 1, Len(s))
           IN  /\ rest \in Seq(S) /\ Distinct(rest)
               /\ ToSet(front) \cup ToSet(rest) = ToSet(s)
               /\ ToSet(front) \cap ToSet(rest) = {}
<1> DEFINE front == SubSeq(s, 1, k)
           rest  == SubSeq(s, k + 1, Len(s))
<1>1. Len(s) \in Nat
  BY LenProperties
<1>2. /\ \A x : x \in ToSet(front) <=> \E i \in 1..k : s[i] = x
      /\ \A x : x \in ToSet(rest) <=> \E i \in k + 1..Len(s) : s[i] = x
      /\ rest \in Seq(S) /\ Distinct(rest)
  BY <1>1, ElementsOfPart
<1>3. \A x : x \in ToSet(s) <=> \E i \in 1..Len(s) : s[i] = x
  BY ElementsOf
<1> HIDE DEF front, rest
<1>4. \A i \in 1..Len(s) : i \in 1..k \/ i \in k + 1..Len(s)
  BY <1>1
<1>5. ToSet(front) \cup ToSet(rest) = ToSet(s)
  <2>1. ASSUME NEW x \in ToSet(s) PROVE x \in ToSet(front) \cup ToSet(rest)
    BY <1>2, <1>3, <1>4
  <2>2. ASSUME NEW x \in ToSet(front) \cup ToSet(rest) PROVE x \in ToSet(s)
    BY <1>1, <1>2, <1>3
  <2>3. QED
    BY <2>1, <2>2
<1>6. ToSet(front) \cap ToSet(rest) = {}
  BY <1>1, <1>2 DEF Distinct
<1>7. QED
  BY <1>2, <1>5, <1>6 DEF front, rest

-----------------------------------------------------------------------------
(* The inductive invariant.                                                *)

Ids(s) == RequestsIn(ToSet(s))
CancelIds(s) == CancelsIn(ToSet(s))

\* The lines that wait for the daemon, those the failed start has still to serve,
\* and the calls being served here.
Waiting == Ids(pending)
Left    == Ids(buffered)
Served  == {c \in Calls : local[c] # "no"}

\* What the daemon has of the requests.
AtPeer == Ids(toDaemon) \cup atDaemon \cup ToSet(fromDaemon)

\* The requests the proxy has not answered.
Open == (Waiting \cup inflight \cup Left \cup Served) \ Inits

\* No cancellation overtakes its call.
CancelsFollow(s) ==
    \A i, j \in 1..Len(s) : \A c \in Calls : s[i] = Cancel(c) /\ s[j] = Request(c) => j < i

\* Where the lines and the calls can be, by what has become of the daemon.
Connecting ==
    daemonStatus = "connecting" =>
        /\ conn = "none" /\ inflight = {} /\ buffered = <<>> /\ Served = {}
        /\ asked \cap Calls \subseteq Waiting

Ready ==
    daemonStatus = "ready" =>
        /\ conn # "none" /\ pending = <<>> /\ buffered = <<>> /\ Served = {}
        /\ AtPeer \ Inits \subseteq inflight
        /\ conn = "open" => inflight \subseteq AtPeer

Failed ==
    daemonStatus = "failed" =>
        /\ conn # "open" /\ fromDaemon = <<>> /\ pending = <<>> /\ inflight = {}
        /\ Left \cap Served = {}
        /\ CancelIds(buffered) \cup (Left \cap Calls) \subseteq caught

Closed ==
    /\ conn # "open" => toDaemon = <<>> /\ atDaemon = {}
    /\ conn = "none" => fromDaemon = <<>>

\* The queues hold a line once, and a request is in one of them at most.
Queues ==
    /\ Distinct(pending) /\ Distinct(buffered) /\ Distinct(toDaemon) /\ Distinct(fromDaemon)
    /\ Waiting \cup Left \subseteq asked \ Lists
    /\ inflight \cup Served \cup AtPeer \subseteq asked
    /\ CancelIds(pending) \cup CancelIds(toDaemon) \subseteq cancelled /\ cancelled \subseteq asked
    /\ Ids(toDaemon) \cap (atDaemon \cup ToSet(fromDaemon)) = {}
    /\ atDaemon \cap ToSet(fromDaemon) = {}
    /\ CancelsFollow(pending) /\ CancelsFollow(toDaemon)

\* A request is answered once, when the proxy has no more to do with it.
Answers == \A r \in Requests : replies[r] = IF r \in asked \ Open THEN 1 ELSE 0

\* The cancellations that had no effect.
Heard == unheard \subseteq caught /\ (daemonStatus # "failed" => unheard = {})

Core == Connecting /\ Ready /\ Failed /\ Closed /\ Queues /\ Answers /\ Heard

IInv == TypeOK /\ Core

-----------------------------------------------------------------------------
(* The operators.                                                          *)

\* The requests and the cancellations in a set of lines.
LEMMA IdsOf ==
    ASSUME NEW L, L \subseteq Lines
    PROVE  /\ RequestsIn(L) \subseteq Requests /\ CancelsIn(L) \subseteq Calls
           /\ \A r : r \in RequestsIn(L) <=> Request(r) \in L
           /\ \A c : c \in CancelsIn(L) <=> Cancel(c) \in L
<1>1. \A l \in L : \/ l = Request(l.id) /\ l.op = "request" /\ l.id \in Requests
                   \/ l = Cancel(l.id) /\ l.op = "cancel" /\ l.id \in Calls
  BY DEF Lines, Request, Cancel
<1>2. \A r : Request(r).op = "request" /\ Request(r).id = r
  BY DEF Request
<1>3. \A c : Cancel(c).op = "cancel" /\ Cancel(c).id = c
  BY DEF Cancel
<1>4. ASSUME NEW r PROVE r \in RequestsIn(L) <=> Request(r) \in L
  BY <1>1, <1>2 DEF RequestsIn
<1>5. ASSUME NEW c PROVE c \in CancelsIn(L) <=> Cancel(c) \in L
  BY <1>1, <1>3 DEF CancelsIn
<1>6. RequestsIn(L) \subseteq Requests /\ CancelsIn(L) \subseteq Calls
  BY <1>1 DEF RequestsIn, CancelsIn
<1>7. QED
  BY <1>4, <1>5, <1>6

\* A line is a request or a cancellation.
LEMMA OneLine ==
    /\ \A r \in Requests : /\ Request(r) \in Lines
                           /\ RequestsIn({Request(r)}) = {r} /\ CancelsIn({Request(r)}) = {}
    /\ \A c \in Calls : /\ Cancel(c) \in Lines
                        /\ RequestsIn({Cancel(c)}) = {} /\ CancelsIn({Cancel(c)}) = {c}
    /\ \A r, c : Request(r) # Cancel(c)
    /\ \A l \in Lines : (\E r \in Requests : l = Request(r)) \/ (\E c \in Calls : l = Cancel(c))
<1>1. \A r : Request(r).op = "request" /\ Request(r).id = r
  BY DEF Request
<1>2. \A c : Cancel(c).op = "cancel" /\ Cancel(c).id = c
  BY DEF Cancel
<1>3. QED
  BY <1>1, <1>2 DEF Lines, RequestsIn, CancelsIn

\* A record of the variables serveVars.
ServeState(s) ==
    /\ s.replies \in [Requests -> Nat] /\ s.local \in [Calls -> {"no", "opening", "running"}]
    /\ s.engine \in {"none", "opening", "ready"}
    /\ s.aborted \subseteq Calls /\ s.unheard \subseteq Calls
    /\ s = [replies |-> s.replies, local |-> s.local, aborted |-> s.aborted,
            unheard |-> s.unheard, engine |-> s.engine]

\* Lines that are served here: what becomes of the record of the variables.
LEMMA HandleLocallyEffect ==
    ASSUME NEW s, ServeState(s), NEW L, L \subseteq Lines
    PROVE  LET t == HandleLocally(s, L)
           IN  /\ t.replies \in [Requests -> Nat]
               /\ \A r \in Requests : t.replies[r] =
                     s.replies[r] + IF r \in RequestsIn(L) \cap Others THEN 1 ELSE 0
               /\ t.local \in [Calls -> {"no", "opening", "running"}]
               /\ \A c \in Calls : t.local[c] # "no" <=> c \in RequestsIn(L) \/ s.local[c] # "no"
               /\ t.engine \in {"none", "opening", "ready"} /\ t.aborted \subseteq Calls
               /\ t.unheard \subseteq
                     s.unheard \cup {c \in CancelsIn(L) : s.replies[c] = 0 /\ s.local[c] = "no"}
<1> DEFINE cs == CancelsIn(L)
           hit == {c \in cs : s.local[c] # "no"}
           starts == RequestsIn(L) \cap Calls
           t == HandleLocally(s, L)
<1>1. cs \subseteq Calls
  BY IdsOf
<1>2. /\ t.replies = [r \in Requests |-> s.replies[r] + IF r \in RequestsIn(L) \cap Others THEN 1 ELSE 0]
      /\ t.local = [c \in Calls |-> IF c \notin starts THEN s.local[c]
                                    ELSE IF s.engine = "ready" THEN "running" ELSE "opening"]
      /\ t.engine = IF starts # {} /\ s.engine = "none" THEN "opening" ELSE s.engine
      /\ t.aborted = s.aborted \cup hit
      /\ t.unheard = s.unheard \cup Missed(s, cs \ hit)
  BY DEF HandleLocally, Reply, ServeState
<1>3. QED
  BY <1>1, <1>2 DEF Missed, ServeState

\* A set of natural numbers that is not empty has a least element.
LEMMA Minimum ==
    ASSUME NEW S, S \subseteq Nat, S # {}
    PROVE  Min(S) \in S
<1> DEFINE R == {p \in Nat \X Nat : p[1] < p[2]}
<1>1. IsWellFoundedOn(R, Nat)
  BY NatLessThanWellFounded DEF OpToRel
<1>2. \A x, y \in Nat : y < x => <<y, x>> \in R
  OBVIOUS
<1> HIDE DEF R
<1>3. PICK x \in S : \A y \in S : ~ (<<y, x>> \in R)
  BY <1>1, WFMin
<1>4. ASSUME NEW y \in S PROVE x <= y
  <2>1. ~(y < x)
    BY <1>2, <1>3
  <2>2. QED
    BY <2>1
<1>5. QED
  BY <1>4 DEF Min

\* The loop over the buffered lines stops at one of them, or at the end.
LEMMA StopOf ==
    ASSUME NEW ls \in Seq(Lines)
    PROVE  UpToCall(ls) \in 0..Len(ls) /\ Awaited(ls) \in Calls \cup {NoCall}
<1> DEFINE I == {i \in 1..Len(ls) : IsCall(ls[i])}
           k == SelectInSeq(ls, IsCall)
<1>1. Len(ls) \in Nat
  BY LenProperties
<1>2. k = IF I # {} THEN Min(I) ELSE 0
  BY DEF SelectInSeq
<1>3. I # {} => Min(I) \in I
  <2>1. I \subseteq Nat
    BY <1>1
  <2>2. QED
    BY <2>1, Minimum
<1>4. UpToCall(ls) = IF k = 0 THEN Len(ls) ELSE k
  BY DEF UpToCall
<1>5. Awaited(ls) = IF k = 0 THEN NoCall ELSE ls[k].id
  BY DEF Awaited
<1> HIDE DEF k
<1>6. k = 0 \/ (k \in 1..Len(ls) /\ IsCall(ls[k]))
  BY <1>2, <1>3
<1>7. QED
  BY <1>1, <1>4, <1>5, <1>6 DEF IsCall

\* What the loop serves of the lines ls, and what it leaves.
LEMMA ServeBufferedEffect ==
    ASSUME NEW s, ServeState(s), NEW ls \in Seq(Lines), Distinct(ls), ServeBuffered(s, ls)
    PROVE  \E P \in SUBSET Requests :
               /\ P \cap Left' = {} /\ P \cup Left' = Ids(ls)
               /\ buffered' \in Seq(Lines) /\ Distinct(buffered')
               /\ serving' \in Calls \cup {NoCall}
               /\ CancelIds(buffered') \subseteq CancelIds(ls)
               /\ replies' \in [Requests -> Nat]
               /\ \A r \in Requests : replies'[r] = s.replies[r] + IF r \in P \cap Others THEN 1 ELSE 0
               /\ local' \in [Calls -> {"no", "opening", "running"}]
               /\ \A c \in Calls : local'[c] # "no" <=> c \in P \/ s.local[c] # "no"
               /\ engine' \in {"none", "opening", "ready"} /\ aborted' \subseteq Calls
               /\ unheard' \subseteq
                     s.unheard \cup {c \in CancelIds(ls) : s.replies[c] = 0 /\ s.local[c] = "no"}
<1> DEFINE k == UpToCall(ls)
           front == SubSeq(ls, 1, k)
           P == Ids(front)
           t == HandleLocally(s, ToSet(front))
<1>1. k \in 0..Len(ls) /\ Awaited(ls) \in Calls \cup {NoCall}
  BY StopOf
<1>2. /\ buffered' = SubSeq(ls, k + 1, Len(ls)) /\ serving' = Awaited(ls)
      /\ replies' = t.replies /\ local' = t.local /\ aborted' = t.aborted
      /\ unheard' = t.unheard /\ engine' = t.engine
  BY DEF ServeBuffered, Becomes
<1> HIDE DEF k
<1>3. /\ buffered' \in Seq(Lines) /\ Distinct(buffered')
      /\ ToSet(front) \cup ToSet(buffered') = ToSet(ls) /\ ToSet(front) \cap ToSet(buffered') = {}
  BY <1>1, <1>2, ElementsOfCut
<1>4. ToSet(ls) \subseteq Lines
  BY ElementsOf
<1> HIDE DEF front, t
<1>5. P \cap Left' = {} /\ P \cup Left' = Ids(ls) /\ P \subseteq Requests
  <2>1. ToSet(front) \subseteq Lines /\ ToSet(buffered') \subseteq Lines
    BY <1>3, <1>4
  <2>2. /\ P \subseteq Requests
        /\ \A r : r \in P <=> Request(r) \in ToSet(front)
        /\ \A r : r \in Left' <=> Request(r) \in ToSet(buffered')
        /\ \A r : r \in Ids(ls) <=> Request(r) \in ToSet(ls)
    BY <1>4, <2>1, IdsOf DEF Left, Ids
  <2>3. QED
    BY <1>3, <2>2
<1>6. CancelIds(buffered') \subseteq CancelIds(ls) /\ CancelsIn(ToSet(front)) \subseteq CancelIds(ls)
  BY <1>3 DEF CancelIds, CancelsIn
<1>7. /\ t.replies \in [Requests -> Nat]
      /\ \A r \in Requests : t.replies[r] = s.replies[r] + IF r \in P \cap Others THEN 1 ELSE 0
      /\ t.local \in [Calls -> {"no", "opening", "running"}]
      /\ \A c \in Calls : t.local[c] # "no" <=> c \in P \/ s.local[c] # "no"
      /\ t.engine \in {"none", "opening", "ready"} /\ t.aborted \subseteq Calls
      /\ t.unheard \subseteq s.unheard
            \cup {c \in CancelsIn(ToSet(front)) : s.replies[c] = 0 /\ s.local[c] = "no"}
  <2>1. ToSet(front) \subseteq Lines
    BY <1>3, <1>4
  <2>2. QED
    BY <2>1, HandleLocallyEffect DEF t, Ids
<1> HIDE DEF P, t
<1>8. /\ replies' \in [Requests -> Nat]
      /\ \A r \in Requests : replies'[r] = s.replies[r] + IF r \in P \cap Others THEN 1 ELSE 0
      /\ local' \in [Calls -> {"no", "opening", "running"}]
      /\ \A c \in Calls : local'[c] # "no" <=> c \in P \/ s.local[c] # "no"
      /\ engine' \in {"none", "opening", "ready"} /\ aborted' \subseteq Calls
  BY <1>2, <1>7
<1>9. unheard' \subseteq
         s.unheard \cup {c \in CancelIds(ls) : s.replies[c] = 0 /\ s.local[c] = "no"}
  BY <1>2, <1>6, <1>7
<1>10. serving' \in Calls \cup {NoCall}
  BY <1>1, <1>2
<1>11. QED
  BY <1>3, <1>5, <1>6, <1>8, <1>9, <1>10

\* The variables are such a record, and a reply counts.
LEMMA NowIs ==
    ASSUME TypeOK
    PROVE  /\ ServeState(Now)
           /\ Now.replies = replies /\ Now.local = local /\ Now.aborted = aborted
           /\ Now.unheard = unheard /\ Now.engine = engine
BY DEF TypeOK, Now, ServeState

\* What answering a set of requests does to a serving state.
LEMMA ReplyEffect ==
    ASSUME NEW s, ServeState(s), NEW rs
    PROVE  LET t == Reply(s, rs)
           IN  /\ ServeState(t)
               /\ t.replies = [r \in Requests |-> s.replies[r] + IF r \in rs THEN 1 ELSE 0]
               /\ t.local = s.local /\ t.aborted = s.aborted /\ t.unheard = s.unheard
               /\ t.engine = s.engine
BY DEF Reply, ServeState

\* What giving up cancelled calls does to it.
LEMMA GiveUpEffect ==
    ASSUME NEW s, ServeState(s), NEW m \in SUBSET Calls, NEW a
    PROVE  LET t == [s EXCEPT !.unheard = @ \cup m, !.aborted = @ \ a]
           IN  /\ ServeState(t)
               /\ t.replies = s.replies /\ t.local = s.local /\ t.unheard = s.unheard \cup m
<1> DEFINE u == [s EXCEPT !.unheard = s.unheard \cup m]
           t == [s EXCEPT !.unheard = @ \cup m, !.aborted = @ \ a]
<1>1. /\ ServeState(u)
      /\ u.replies = s.replies /\ u.local = s.local /\ u.unheard = s.unheard \cup m
      /\ u.aborted = s.aborted
  BY DEF ServeState
<1>2. t = [u EXCEPT !.aborted = s.aborted \ a]
  BY DEF ServeState
<1> HIDE DEF u, t
<1>3. /\ t.replies = u.replies /\ t.local = u.local /\ t.unheard = u.unheard
      /\ ServeState(t)
  BY <1>1, <1>2 DEF ServeState
<1>4. QED
  BY <1>1, <1>3 DEF t

\* What the end of a local call does to it.
LEMMA DoneEffect ==
    ASSUME NEW s, ServeState(s), NEW c \in Calls
    PROVE  LET t == [s EXCEPT !.local[c] = "no", !.aborted = @ \ {c}]
           IN  /\ ServeState(t)
               /\ t.replies = s.replies /\ t.local = [s.local EXCEPT ![c] = "no"]
               /\ t.unheard = s.unheard
<1> DEFINE u == [s EXCEPT !.local = [s.local EXCEPT ![c] = "no"]]
           t == [s EXCEPT !.local[c] = "no", !.aborted = @ \ {c}]
<1>1. /\ ServeState(u)
      /\ u.replies = s.replies /\ u.local = [s.local EXCEPT ![c] = "no"]
      /\ u.unheard = s.unheard /\ u.aborted = s.aborted
  BY DEF ServeState
<1>2. t = [u EXCEPT !.aborted = s.aborted \ {c}]
  BY DEF ServeState
<1> HIDE DEF u, t
<1>3. /\ t.replies = u.replies /\ t.local = u.local /\ t.unheard = u.unheard
      /\ ServeState(t)
  BY <1>1, <1>2 DEF ServeState
<1>4. QED
  BY <1>1, <1>3 DEF t

\* The order of a call and its cancellation, as a queue grows and shrinks.
LEMMA FollowAppend ==
    ASSUME NEW s \in Seq(Lines), NEW x \in Lines, CancelsFollow(s),
           \A c \in Calls : x = Request(c) => c \notin CancelIds(s)
    PROVE  CancelsFollow(Append(s, x))
<1> DEFINE t == Append(s, x)
<1>1. /\ Len(t) = Len(s) + 1 /\ t[Len(s) + 1] = x /\ Len(s) \in Nat
      /\ \A i \in 1..Len(s) : t[i] = s[i]
  BY AppendProperties, LenProperties
<1> HIDE DEF t
<1>2. ASSUME NEW i \in 1..Len(t), NEW j \in 1..Len(t), NEW c \in Calls,
             t[i] = Cancel(c), t[j] = Request(c)
      PROVE  j < i
  <2>1. CASE j \in 1..Len(s) /\ i \in 1..Len(s)
    BY <1>1, <1>2, <2>1 DEF CancelsFollow
  <2>2. CASE j = Len(s) + 1
    <3>1. i \in 1..Len(s)
      BY <1>1, <1>2, <2>2, OneLine
    <3>2. Cancel(c) \in ToSet(s)
      BY <1>1, <1>2, <3>1, ElementsOf
    <3>3. ToSet(s) \subseteq Lines
      BY ElementsOf
    <3>4. c \in CancelIds(s)
      BY <3>2, <3>3, IdsOf DEF CancelIds
    <3>5. QED
      BY <1>1, <1>2, <2>2, <3>4
  <2>3. CASE j \in 1..Len(s) /\ i = Len(s) + 1
    BY <1>1, <2>3
  <2>4. QED
    BY <1>1, <2>1, <2>2, <2>3
<1>3. QED
  BY <1>2 DEF CancelsFollow, t

\* Taking the first line keeps the cancellations behind their calls.
LEMMA FollowTail ==
    ASSUME NEW s \in Seq(Lines), s # <<>>, CancelsFollow(s)
    PROVE  /\ CancelsFollow(Tail(s))
           /\ \A c \in Calls : Head(s) = Cancel(c) => Request(c) \notin ToSet(s)
<1>1. /\ Len(s) \in Nat \ {0} /\ Head(s) = s[1] /\ Len(Tail(s)) = Len(s) - 1
      /\ \A i \in 1..Len(Tail(s)) : Tail(s)[i] = s[i + 1]
  BY EmptySeq, HeadTailProperties
<1>2. CancelsFollow(Tail(s))
  <2>1. ASSUME NEW i \in 1..Len(Tail(s)), NEW j \in 1..Len(Tail(s)), NEW c \in Calls,
               Tail(s)[i] = Cancel(c), Tail(s)[j] = Request(c)
        PROVE  j < i
    <3>1. s[i + 1] = Cancel(c) /\ s[j + 1] = Request(c) /\ i + 1 \in 1..Len(s) /\ j + 1 \in 1..Len(s)
      BY <1>1, <2>1
    <3>2. j + 1 < i + 1
      BY <3>1 DEF CancelsFollow
    <3>3. QED
      BY <1>1, <3>2
  <2>2. QED
    BY <2>1 DEF CancelsFollow
<1>3. ASSUME NEW c \in Calls, Head(s) = Cancel(c), Request(c) \in ToSet(s)
      PROVE  FALSE
  <2>1. PICK j \in 1..Len(s) : s[j] = Request(c)
    BY <1>3, ElementsOf
  <2>2. j < 1
    BY <1>1, <1>3, <2>1 DEF CancelsFollow
  <2>3. QED
    BY <1>1, <2>2
<1>4. QED
  BY <1>2, <1>3

\* A queue grows by a line that is new.
LEMMA QueueGrows ==
    ASSUME NEW s \in Seq(Lines), NEW x \in Lines, Distinct(s), CancelsFollow(s),
           \A r \in Requests : x = Request(r) => r \notin Ids(s) \cup CancelIds(s),
           \A c \in Calls : x = Cancel(c) => c \notin CancelIds(s)
    PROVE  /\ Append(s, x) \in Seq(Lines) /\ Distinct(Append(s, x)) /\ CancelsFollow(Append(s, x))
           /\ \A r \in Requests : x = Request(r) =>
                 Ids(Append(s, x)) = Ids(s) \cup {r} /\ CancelIds(Append(s, x)) = CancelIds(s)
           /\ \A c \in Calls : x = Cancel(c) =>
                 Ids(Append(s, x)) = Ids(s) /\ CancelIds(Append(s, x)) = CancelIds(s) \cup {c}
<1>1. ToSet(s) \subseteq Lines
  BY ElementsOf
<1>2. x \notin ToSet(s)
  BY <1>1, OneLine, IdsOf DEF Ids, CancelIds
<1>3. Append(s, x) \in Seq(Lines) /\ Distinct(Append(s, x)) /\ ToSet(Append(s, x)) = ToSet(s) \cup {x}
  BY <1>2, ElementsOfAppend
<1>4. CancelsFollow(Append(s, x))
  BY FollowAppend DEF Requests
<1>5. /\ Ids(Append(s, x)) = Ids(s) \cup RequestsIn({x})
      /\ CancelIds(Append(s, x)) = CancelIds(s) \cup CancelsIn({x})
  BY <1>3 DEF Ids, CancelIds, RequestsIn, CancelsIn
<1>6. QED
  BY <1>3, <1>4, <1>5, OneLine

\* A queue shrinks by its first line.
LEMMA QueueShrinks ==
    ASSUME NEW s \in Seq(Lines), s # <<>>, Distinct(s), CancelsFollow(s)
    PROVE  /\ Tail(s) \in Seq(Lines) /\ Distinct(Tail(s)) /\ CancelsFollow(Tail(s))
           /\ CancelIds(Tail(s)) \subseteq CancelIds(s)
           /\ \/ \E r \in Requests : Head(s) = Request(r) /\ r \in Ids(s) /\ Ids(Tail(s)) = Ids(s) \ {r}
              \/ \E c \in Calls : /\ Head(s) = Cancel(c) /\ c \in CancelIds(s)
                                  /\ c \notin Ids(s) /\ Ids(Tail(s)) = Ids(s)
<1>1. /\ Tail(s) \in Seq(Lines) /\ Distinct(Tail(s)) /\ Head(s) \in Lines /\ Head(s) \in ToSet(s)
      /\ ToSet(Tail(s)) = ToSet(s) \ {Head(s)}
  BY ElementsOfTail
<1>2. CancelsFollow(Tail(s)) /\ \A c \in Calls : Head(s) = Cancel(c) => Request(c) \notin ToSet(s)
  BY FollowTail
<1>3. ToSet(s) \subseteq Lines /\ ToSet(Tail(s)) \subseteq Lines
  BY <1>1, ElementsOf
<1>4. /\ \A r : r \in Ids(s) <=> Request(r) \in ToSet(s)
      /\ \A r : r \in Ids(Tail(s)) <=> Request(r) \in ToSet(Tail(s))
      /\ \A c : c \in CancelIds(s) <=> Cancel(c) \in ToSet(s)
      /\ \A c : c \in CancelIds(Tail(s)) <=> Cancel(c) \in ToSet(Tail(s))
  BY <1>3, IdsOf DEF Ids, CancelIds
<1>5. \A q, r : Request(q) = Request(r) => q = r
  BY DEF Request
<1>6. CASE \E r \in Requests : Head(s) = Request(r)
  <2>1. PICK r \in Requests : Head(s) = Request(r)
    BY <1>6
  <2>2. r \in Ids(s) /\ Ids(Tail(s)) = Ids(s) \ {r}
    BY <1>1, <1>4, <1>5, <2>1
  <2>3. QED
    BY <1>1, <1>2, <1>4, <2>1, <2>2
<1>7. CASE \E c \in Calls : Head(s) = Cancel(c)
  <2>1. PICK c \in Calls : Head(s) = Cancel(c)
    BY <1>7
  <2>2. c \in CancelIds(s) /\ c \notin Ids(s) /\ Ids(Tail(s)) = Ids(s)
    <3>1. \A r : Request(r) # Head(s)
      BY <2>1, OneLine
    <3>2. QED
      BY <1>1, <1>2, <1>4, <2>1, <3>1
  <2>3. QED
    BY <1>1, <1>2, <1>4, <2>1, <2>2
<1>8. QED
  BY <1>1, <1>6, <1>7, OneLine

\* No line is in an empty queue.
LEMMA EmptyQueue ==
    /\ <<>> \in Seq(Lines) /\ <<>> \in Seq(Requests) /\ ToSet(<<>>) = {}
    /\ Ids(<<>>) = {} /\ CancelIds(<<>>) = {} /\ Distinct(<<>>) /\ CancelsFollow(<<>>)
<1>1. /\ <<>> \in Seq(Lines) /\ <<>> \in Seq(Requests) /\ Len(<<>>) = 0
      /\ ToSet(<<>>) = {}
  BY EmptySeq, ElementsOf
<1>2. QED
  BY <1>1 DEF Ids, CancelIds, RequestsIn, CancelsIn, Distinct, CancelsFollow

-----------------------------------------------------------------------------
(* The invariant holds in the initial states, and every step keeps it.     *)

\* The invariant holds at first.
LEMMA InitIInv == Init => IInv
<1> SUFFICES ASSUME Init PROVE IInv
  OBVIOUS
<1>1. TypeOK
  BY EmptyQueue DEF Init, TypeOK
<1>2. /\ Waiting = {} /\ Left = {} /\ Served = {} /\ AtPeer = {} /\ Ids(toDaemon) = {}
      /\ CancelIds(pending) = {} /\ CancelIds(toDaemon) = {} /\ ToSet(fromDaemon) = {}
      /\ Distinct(pending) /\ Distinct(buffered) /\ Distinct(toDaemon) /\ Distinct(fromDaemon)
      /\ CancelsFollow(pending) /\ CancelsFollow(toDaemon)
  BY EmptyQueue DEF Init, Waiting, Left, Served, AtPeer
<1>3. Queues
  BY <1>2 DEF Init, Queues
<1>4. Connecting /\ Ready /\ Failed /\ Closed /\ Answers /\ Heard
  BY <1>2 DEF Init, Connecting, Ready, Failed, Closed, Answers, Heard
<1>5. QED
  BY <1>1, <1>3, <1>4 DEF IInv, Core

\* No answer is taken back.
Grows == \A r \in Requests : replies'[r] >= replies[r]

\* A new request is routed: it waits for the daemon, is sent to it, or is served
\* here; an initialize has its answer at once.
LEMMA RouteRequest ==
    ASSUME IInv, NEW r \in (Inits \cup Others \cup Calls) \ asked,
           asked' = asked \cup {r}, RouteToDaemon(Request(r), {r} \cap Inits),
           UNCHANGED <<hostUp, cancelled>>
    PROVE  IInv' /\ \A q \in Requests \ {r} : replies'[q] = replies[q]
<1> USE IdsAreDistinct
<1>1. TypeOK /\ Core /\ r \in Requests /\ r \notin Lists
  BY DEF IInv, Requests
<1>2. UNCHANGED <<hostUp, cancelled, daemonStatus, buffered, serving, conn, fromDaemon, atDaemon, caught>>
  BY DEF RouteToDaemon
<1>3. /\ Left' = Left /\ CancelIds(buffered') = CancelIds(buffered)
      /\ ToSet(fromDaemon') = ToSet(fromDaemon)
  BY <1>2 DEF Left
<1>4. /\ Waiting \subseteq asked /\ inflight \subseteq asked /\ Left \subseteq asked
      /\ Served \subseteq asked /\ AtPeer \subseteq asked
      /\ CancelIds(pending) \subseteq asked /\ CancelIds(toDaemon) \subseteq asked
  BY <1>1 DEF Core, Queues
<1>5. /\ Request(r) \in Lines /\ RequestsIn({Request(r)}) = {r} /\ CancelsIn({Request(r)}) = {}
      /\ \A q \in Requests : Request(r) = Request(q) => q = r
      /\ \A c \in Calls : Request(r) # Cancel(c)
  BY <1>1, OneLine DEF Request
<1>6. replies[r] = 0
  BY <1>1 DEF Core, Answers
<1>7. CASE daemonStatus = "connecting"
  <2>1. /\ pending' = Append(pending, Request(r)) /\ UNCHANGED <<inflight, toDaemon>>
        /\ Becomes(Reply(Now, {r} \cap Inits))
    BY <1>7 DEF RouteToDaemon
  <2>2. /\ replies' = [q \in Requests |-> replies[q] + IF q \in {r} \cap Inits THEN 1 ELSE 0]
        /\ UNCHANGED <<local, aborted, unheard, engine>>
    BY <1>1, <2>1, NowIs, ReplyEffect DEF Becomes
  <2>3. /\ pending' \in Seq(Lines) /\ Distinct(pending') /\ CancelsFollow(pending')
        /\ Waiting' = Waiting \cup {r} /\ CancelIds(pending') = CancelIds(pending)
    <3>1. pending \in Seq(Lines) /\ Distinct(pending) /\ CancelsFollow(pending)
      BY <1>1 DEF TypeOK, Core, Queues
    <3>2. r \notin Ids(pending) \cup CancelIds(pending)
      BY <1>4 DEF Waiting
    <3>3. QED
      BY <1>1, <1>5, <2>1, <3>1, <3>2, QueueGrows DEF Waiting
  <2>4. /\ Served' = Served /\ AtPeer' = AtPeer /\ Ids(toDaemon') = Ids(toDaemon)
        /\ CancelIds(toDaemon') = CancelIds(toDaemon)
    BY <1>2, <2>1, <2>2 DEF Served, AtPeer
  <2>5. TypeOK'
    BY <1>1, <1>2, <1>7, <2>1, <2>2, <2>3 DEF TypeOK
  <2>6. Open' = (Open \cup {r}) \ Inits
    BY <1>3, <2>1, <2>3, <2>4 DEF Open
  <2>7. Answers'
    BY <1>1, <1>4, <1>6, <2>2, <2>6 DEF Core, Answers, TypeOK, Open
  <2>8. Queues'
    BY <1>1, <1>2, <1>3, <2>1, <2>3, <2>4 DEF Core, Queues
  <2>9. Connecting' /\ Ready' /\ Failed' /\ Closed' /\ Heard'
    BY <1>1, <1>2, <1>7, <2>1, <2>2, <2>3, <2>4
       DEF Core, Connecting, Ready, Failed, Closed, Heard, TypeOK
  <2>10. \A q \in Requests \ {r} : replies'[q] = replies[q]
    BY <1>1, <2>2 DEF TypeOK
  <2>11. QED
    BY <2>5, <2>7, <2>8, <2>9, <2>10 DEF IInv, Core
<1>8. CASE daemonStatus = "ready"
  <2>1. /\ inflight' = inflight \cup ({r} \ Inits) /\ UNCHANGED pending
        /\ toDaemon' = IF conn = "open" THEN Append(toDaemon, Request(r)) ELSE toDaemon
        /\ Becomes(Reply(Now, {r} \cap Inits))
    BY <1>5, <1>8 DEF RouteToDaemon, Tracked
  <2>2. /\ replies' = [q \in Requests |-> replies[q] + IF q \in {r} \cap Inits THEN 1 ELSE 0]
        /\ UNCHANGED <<local, aborted, unheard, engine>>
    BY <1>1, <2>1, NowIs, ReplyEffect DEF Becomes
  <2>3. /\ toDaemon' \in Seq(Lines) /\ Distinct(toDaemon') /\ CancelsFollow(toDaemon')
        /\ Ids(toDaemon') = IF conn = "open" THEN Ids(toDaemon) \cup {r} ELSE Ids(toDaemon)
        /\ CancelIds(toDaemon') = CancelIds(toDaemon)
    <3>1. toDaemon \in Seq(Lines) /\ Distinct(toDaemon) /\ CancelsFollow(toDaemon)
      BY <1>1 DEF TypeOK, Core, Queues
    <3>2. r \notin Ids(toDaemon) \cup CancelIds(toDaemon)
      BY <1>4 DEF AtPeer
    <3>3. QED
      <4>1. CASE conn = "open"
        BY <1>1, <1>5, <2>1, <3>1, <3>2, <4>1, QueueGrows
      <4>2. CASE conn # "open"
        BY <2>1, <3>1, <4>2
      <4>3. QED
        BY <4>1, <4>2
  <2>4. /\ Served' = Served /\ Waiting' = Waiting /\ CancelIds(pending') = CancelIds(pending)
        /\ AtPeer' = IF conn = "open" THEN AtPeer \cup {r} ELSE AtPeer
    BY <1>2, <2>1, <2>2, <2>3 DEF Served, Waiting, AtPeer
  <2>5. TypeOK'
    BY <1>1, <1>2, <1>8, <2>1, <2>2, <2>3 DEF TypeOK
  <2>6. Open' = (Open \cup {r}) \ Inits
    BY <1>3, <2>1, <2>4 DEF Open
  <2>7. Answers'
    BY <1>1, <1>4, <1>6, <2>2, <2>6 DEF Core, Answers, TypeOK, Open
  <2>8. Queues'
    <3>1. r \notin AtPeer
      BY <1>4
    <3>2. QED
      BY <1>1, <1>2, <1>3, <2>1, <2>3, <2>4, <3>1 DEF Core, Queues, AtPeer
  <2>9. Connecting' /\ Ready' /\ Failed' /\ Closed' /\ Heard'
    BY <1>1, <1>2, <1>8, <2>1, <2>2, <2>3, <2>4
       DEF Core, Connecting, Ready, Failed, Closed, Heard, TypeOK
  <2>10. \A q \in Requests \ {r} : replies'[q] = replies[q]
    BY <1>1, <2>2 DEF TypeOK
  <2>11. QED
    BY <2>5, <2>7, <2>8, <2>9, <2>10 DEF IInv, Core
<1>9. CASE daemonStatus = "failed"
  <2>1. /\ Becomes(HandleLocally(Reply(Now, {r} \cap Inits), {Request(r)}))
        /\ UNCHANGED <<inflight, toDaemon, pending>>
    BY <1>9 DEF RouteToDaemon
  <2>2. /\ replies' \in [Requests -> Nat]
        /\ \A q \in Requests : replies'[q] = replies[q] + IF q \in {r} \ Calls THEN 1 ELSE 0
        /\ local' \in [Calls -> {"no", "opening", "running"}]
        /\ \A c \in Calls : local'[c] # "no" <=> c = r \/ local[c] # "no"
        /\ engine' \in {"none", "opening", "ready"} /\ aborted' \subseteq Calls
        /\ unheard' \subseteq unheard
    <3> DEFINE s == Reply(Now, {r} \cap Inits)
               t == HandleLocally(s, {Request(r)})
    <3>1. /\ ServeState(s)
          /\ s.replies = [q \in Requests |-> replies[q] + IF q \in {r} \cap Inits THEN 1 ELSE 0]
          /\ s.local = local /\ s.unheard = unheard
      BY <1>1, NowIs, ReplyEffect
    <3> HIDE DEF s
    <3>2. /\ t.replies \in [Requests -> Nat]
          /\ \A q \in Requests : t.replies[q] = s.replies[q] + IF q \in {r} \cap Others THEN 1 ELSE 0
          /\ t.local \in [Calls -> {"no", "opening", "running"}]
          /\ \A c \in Calls : t.local[c] # "no" <=> c \in {r} \/ s.local[c] # "no"
          /\ t.engine \in {"none", "opening", "ready"} /\ t.aborted \subseteq Calls
          /\ t.unheard \subseteq s.unheard
      <4>1. {Request(r)} \subseteq Lines
        BY <1>5
      <4>2. /\ t.replies \in [Requests -> Nat]
            /\ \A q \in Requests : t.replies[q] =
                  s.replies[q] + IF q \in RequestsIn({Request(r)}) \cap Others THEN 1 ELSE 0
            /\ t.local \in [Calls -> {"no", "opening", "running"}]
            /\ \A c \in Calls : t.local[c] # "no" <=> c \in RequestsIn({Request(r)}) \/ s.local[c] # "no"
            /\ t.engine \in {"none", "opening", "ready"} /\ t.aborted \subseteq Calls
            /\ t.unheard \subseteq s.unheard \cup
                  {c \in CancelsIn({Request(r)}) : s.replies[c] = 0 /\ s.local[c] = "no"}
        BY <3>1, <4>1, HandleLocallyEffect
      <4> HIDE DEF t
      <4>3. QED
        BY <1>5, <4>2
    <3>3. /\ replies' = t.replies /\ local' = t.local /\ aborted' = t.aborted
          /\ unheard' = t.unheard /\ engine' = t.engine
      BY <2>1 DEF Becomes, s
    <3> HIDE DEF t
    <3>4. ASSUME NEW q \in Requests
          PROVE  replies'[q] = replies[q] + IF q \in {r} \ Calls THEN 1 ELSE 0
      BY <1>1, <3>1, <3>2, <3>3 DEF TypeOK
    <3>5. QED
      BY <3>1, <3>2, <3>3, <3>4
  <2>3. /\ Served' = Served \cup ({r} \cap Calls) /\ Waiting' = Waiting /\ AtPeer' = AtPeer
        /\ CancelIds(pending') = CancelIds(pending) /\ CancelIds(toDaemon') = CancelIds(toDaemon)
        /\ Ids(toDaemon') = Ids(toDaemon)
    BY <1>2, <2>1, <2>2 DEF Served, Waiting, AtPeer
  <2>4. TypeOK'
    BY <1>1, <1>2, <1>9, <2>1, <2>2 DEF TypeOK
  <2>5. Open' = Open \cup ({r} \cap Calls)
    BY <1>3, <2>1, <2>3 DEF Open
  <2>6. Answers'
    <3>1. r \notin Open
      BY <1>4 DEF Open
    <3>2. QED
      BY <1>1, <1>6, <2>2, <2>5, <3>1 DEF Core, Answers
  <2>7. Queues'
    BY <1>1, <1>2, <1>3, <2>1, <2>3 DEF Core, Queues
  <2>8. Connecting' /\ Ready' /\ Failed' /\ Closed' /\ Heard'
    BY <1>1, <1>2, <1>3, <1>4, <1>9, <2>1, <2>2, <2>3
       DEF Core, Connecting, Ready, Failed, Closed, Heard
  <2>9. \A q \in Requests \ {r} : replies'[q] = replies[q]
    BY <1>1, <2>2 DEF TypeOK
  <2>10. QED
    BY <2>4, <2>6, <2>7, <2>8, <2>9 DEF IInv, Core
<1>10. QED
  BY <1>1, <1>7, <1>8, <1>9 DEF TypeOK

\* A cancellation is routed: it follows its call to the daemon; served here, it is
\* lost on a call that the failed start has still to serve.
LEMMA RouteCancel ==
    ASSUME IInv, NEW c \in Calls, HostCancels(c)
    PROVE  IInv' /\ \A r \in Requests : replies'[r] = replies[r]
<1> USE IdsAreDistinct
<1>1. TypeOK /\ Core /\ RouteToDaemon(Cancel(c), {}) /\ c \in asked \ cancelled
      /\ cancelled' = cancelled \cup {c} /\ UNCHANGED <<hostUp, asked>>
  BY DEF IInv, HostCancels
<1>2. UNCHANGED <<daemonStatus, buffered, serving, conn, fromDaemon, atDaemon, caught>>
  BY <1>1 DEF RouteToDaemon
<1>3. /\ Left' = Left /\ CancelIds(buffered') = CancelIds(buffered)
      /\ ToSet(fromDaemon') = ToSet(fromDaemon)
  BY <1>2 DEF Left
<1>4. CancelIds(pending) \subseteq cancelled /\ CancelIds(toDaemon) \subseteq cancelled
  BY <1>1 DEF Core, Queues
<1>5. /\ Cancel(c) \in Lines /\ RequestsIn({Cancel(c)}) = {} /\ CancelsIn({Cancel(c)}) = {c}
      /\ \A d \in Calls : Cancel(c) = Cancel(d) => c = d
      /\ \A r \in Requests : Cancel(c) # Request(r)
  BY OneLine DEF Cancel
<1>6. ASSUME UNCHANGED <<pending, inflight, toDaemon, local, engine>>, aborted' \subseteq Calls,
             \A r \in Requests : replies'[r] = replies[r], replies' \in [Requests -> Nat],
             unheard' \subseteq unheard \cup {c}, c \in unheard' => c \in caught \/ c \in unheard,
             unheard' = unheard \/ daemonStatus = "failed"
      PROVE  IInv' /\ \A r \in Requests : replies'[r] = replies[r]
  <2>1. /\ Waiting' = Waiting /\ Served' = Served /\ AtPeer' = AtPeer /\ Open' = Open
        /\ Ids(toDaemon') = Ids(toDaemon)
        /\ CancelIds(pending') = CancelIds(pending) /\ CancelIds(toDaemon') = CancelIds(toDaemon)
    BY <1>2, <1>3, <1>6 DEF Waiting, Served, AtPeer, Open, Left
  <2>2. TypeOK'
    BY <1>1, <1>2, <1>6 DEF TypeOK
  <2>3. Queues' /\ Answers'
    BY <1>1, <1>2, <1>3, <1>6, <2>1 DEF Core, Queues, Answers
  <2>4. Connecting' /\ Ready' /\ Failed' /\ Closed' /\ Heard'
    BY <1>1, <1>2, <1>3, <1>6, <2>1 DEF Core, Connecting, Ready, Failed, Closed, Heard
  <2>5. QED
    BY <1>6, <2>2, <2>3, <2>4 DEF IInv, Core
<1>7. ASSUME Becomes(Reply(Now, {}))
      PROVE  UNCHANGED <<replies, local, aborted, unheard, engine>>
  <2>1. /\ replies' = [q \in Requests |-> replies[q] + IF q \in {} THEN 1 ELSE 0]
        /\ UNCHANGED <<local, aborted, unheard, engine>>
    BY <1>1, <1>7, NowIs, ReplyEffect DEF Becomes
  <2>2. QED
    BY <1>1, <2>1 DEF TypeOK
<1>8. CASE daemonStatus = "connecting"
  <2>1. /\ pending' = Append(pending, Cancel(c))
        /\ UNCHANGED <<inflight, toDaemon, replies, local, aborted, unheard, engine>>
    BY <1>1, <1>7, <1>8 DEF RouteToDaemon
  <2>2. /\ pending' \in Seq(Lines) /\ Distinct(pending') /\ CancelsFollow(pending')
        /\ Waiting' = Waiting /\ CancelIds(pending') = CancelIds(pending) \cup {c}
    <3>1. pending \in Seq(Lines) /\ Distinct(pending) /\ CancelsFollow(pending) /\ c \notin CancelIds(pending)
      BY <1>1, <1>4 DEF TypeOK, Core, Queues
    <3>2. QED
      BY <1>5, <2>1, <3>1, QueueGrows DEF Waiting
  <2>3. /\ Served' = Served /\ AtPeer' = AtPeer /\ Open' = Open
        /\ Ids(toDaemon') = Ids(toDaemon) /\ CancelIds(toDaemon') = CancelIds(toDaemon)
    BY <1>2, <1>3, <2>1, <2>2 DEF Served, AtPeer, Open
  <2>4. TypeOK'
    BY <1>1, <1>2, <1>8, <2>1, <2>2 DEF TypeOK
  <2>5. Queues' /\ Answers'
    BY <1>1, <1>2, <1>3, <2>1, <2>2, <2>3 DEF Core, Queues, Answers
  <2>6. Connecting' /\ Ready' /\ Failed' /\ Closed' /\ Heard'
    BY <1>1, <1>2, <1>3, <1>8, <2>1, <2>2, <2>3 DEF Core, Connecting, Ready, Failed, Closed, Heard
  <2>7. QED
    BY <2>1, <2>4, <2>5, <2>6 DEF IInv, Core
<1>9. CASE daemonStatus = "ready"
  <2>1. /\ inflight' = inflight /\ UNCHANGED <<pending, replies, local, aborted, unheard, engine>>
        /\ toDaemon' = IF conn = "open" THEN Append(toDaemon, Cancel(c)) ELSE toDaemon
    BY <1>1, <1>5, <1>7, <1>9 DEF RouteToDaemon, Tracked
  <2>2. CASE conn # "open"
    BY <1>1, <1>6, <2>1, <2>2 DEF TypeOK
  <2>3. CASE conn = "open"
    <3>1. /\ toDaemon' \in Seq(Lines) /\ Distinct(toDaemon') /\ CancelsFollow(toDaemon')
          /\ Ids(toDaemon') = Ids(toDaemon) /\ CancelIds(toDaemon') = CancelIds(toDaemon) \cup {c}
      <4>1. toDaemon \in Seq(Lines) /\ Distinct(toDaemon) /\ CancelsFollow(toDaemon) /\ c \notin CancelIds(toDaemon)
        BY <1>1, <1>4 DEF TypeOK, Core, Queues
      <4>2. QED
        BY <1>5, <2>1, <2>3, <4>1, QueueGrows
    <3>2. /\ Served' = Served /\ AtPeer' = AtPeer /\ Waiting' = Waiting /\ Open' = Open
          /\ CancelIds(pending') = CancelIds(pending)
      BY <1>2, <1>3, <2>1, <3>1 DEF Served, AtPeer, Waiting, Open
    <3>3. TypeOK'
      BY <1>1, <1>2, <1>9, <2>1, <3>1 DEF TypeOK
    <3>4. Queues' /\ Answers'
      BY <1>1, <1>2, <1>3, <2>1, <3>1, <3>2 DEF Core, Queues, Answers
    <3>5. Connecting' /\ Ready' /\ Failed' /\ Closed' /\ Heard'
      BY <1>1, <1>2, <1>3, <1>9, <2>1, <2>3, <3>1, <3>2 DEF Core, Connecting, Ready, Failed, Closed, Heard
    <3>6. QED
      BY <2>1, <3>3, <3>4, <3>5 DEF IInv, Core
  <2>4. QED
    BY <2>2, <2>3
<1>10. CASE daemonStatus = "failed"
  <2> DEFINE s == Reply(Now, {})
             t == HandleLocally(s, {Cancel(c)})
  <2>1. /\ Becomes(t) /\ UNCHANGED <<inflight, toDaemon, pending>>
    BY <1>1, <1>10 DEF RouteToDaemon
  <2>2. /\ ServeState(s) /\ s.replies = [q \in Requests |-> replies[q] + IF q \in {} THEN 1 ELSE 0]
        /\ s.local = local /\ s.unheard = unheard /\ s.engine = engine
    BY <1>1, NowIs, ReplyEffect
  <2>3. replies' = t.replies /\ local' = t.local /\ aborted' = t.aborted
        /\ unheard' = t.unheard /\ engine' = t.engine
    BY <2>1 DEF Becomes
  <2> HIDE DEF s
  <2>4. {Cancel(c)} \subseteq Lines
    BY <1>5
  <2>5. /\ t.replies \in [Requests -> Nat]
        /\ \A q \in Requests : t.replies[q] =
              s.replies[q] + IF q \in RequestsIn({Cancel(c)}) \cap Others THEN 1 ELSE 0
        /\ t.local \in [Calls -> {"no", "opening", "running"}]
        /\ \A d \in Calls : t.local[d] # "no" <=> d \in RequestsIn({Cancel(c)}) \/ s.local[d] # "no"
        /\ t.engine \in {"none", "opening", "ready"} /\ t.aborted \subseteq Calls
        /\ t.unheard \subseteq s.unheard \cup
              {d \in CancelsIn({Cancel(c)}) : s.replies[d] = 0 /\ s.local[d] = "no"}
    BY <2>2, <2>4, HandleLocallyEffect
  <2>6. t.local = local /\ t.engine = engine
    BY <1>1, <1>5, <2>2 DEF HandleLocally, Reply, TypeOK, ServeState
  <2> HIDE DEF t
  <2>7. \A q \in Requests : replies'[q] = replies[q]
    <3>1. ASSUME NEW q \in Requests
          PROVE  replies'[q] = replies[q]
      <4>1. replies[q] \in Nat
        BY <1>1 DEF TypeOK
      <4>2. s.replies[q] = replies[q]
        BY <2>2, <4>1
      <4>3. q \notin RequestsIn({Cancel(c)}) \cap Others
        BY <1>5
      <4>4. t.replies[q] = s.replies[q] + 0
        BY <2>5, <4>3
      <4>5. QED
        BY <2>3, <4>1, <4>2, <4>4
    <3>2. QED
      BY <3>1
  <2>8. unheard' \subseteq unheard \cup {c} /\ (c \in unheard' => c \in unheard \/ (replies[c] = 0 /\ local[c] = "no"))
    <3>1. c \in Requests /\ replies[c] \in Nat
      BY <1>1 DEF TypeOK, Requests
    <3>2. s.replies[c] = replies[c]
      BY <2>2, <3>1
    <3>3. QED
      BY <1>5, <2>2, <2>3, <2>5, <3>2
  <2>9. replies[c] = 0 /\ local[c] = "no" => c \in caught
    <3>1. ASSUME replies[c] = 0, local[c] = "no"
          PROVE  c \in caught
      <4>1. c \in Open
        BY <1>1, <3>1 DEF Core, Answers, Requests
      <4>2. Waiting = {} /\ inflight = {} /\ c \notin Served
        BY <1>1, <1>10, <3>1, EmptyQueue DEF Core, Failed, Waiting, Served
      <4>3. QED
        BY <1>1, <1>10, <4>1, <4>2 DEF Core, Failed, Open
    <3>2. QED
      BY <3>1
  <2>10. QED
    BY <1>6, <1>10, <2>1, <2>3, <2>5, <2>6, <2>7, <2>8, <2>9
<1>11. QED
  BY <1>1, <1>8, <1>9, <1>10 DEF TypeOK

\* A request that is answered at once, and the end of the host.
LEMMA ListsAndShutdown ==
    ASSUME IInv, Shutdown \/ \E r \in Requests : HostLists(r)
    PROVE  IInv'
<1> USE IdsAreDistinct
<1>1. TypeOK /\ Core
  BY DEF IInv
<1>2. CASE Shutdown
  <2>1. /\ UNCHANGED <<asked, cancelled, serveVars, sockVars, daemonStatus, pending, inflight, buffered,
                       serving, caught>>
        /\ hostUp' = FALSE
    BY <1>2 DEF Shutdown
  <2>2. Waiting' = Waiting /\ Left' = Left /\ Served' = Served /\ AtPeer' = AtPeer /\ Open' = Open
    BY <2>1 DEF Waiting, Left, Served, AtPeer, Open, serveVars, sockVars
  <2>3. TypeOK'
    BY <1>1, <2>1 DEF TypeOK, serveVars, sockVars
  <2>4. Queues' /\ Answers' /\ Connecting' /\ Ready' /\ Failed' /\ Closed' /\ Heard'
    BY <1>1, <2>1, <2>2
       DEF Core, Queues, Answers, Connecting, Ready, Failed, Closed, Heard, serveVars, sockVars
  <2>5. QED
    BY <2>3, <2>4 DEF IInv, Core
<1>3. ASSUME NEW r \in Requests, HostLists(r)
      PROVE  IInv'
  <2>1. /\ UNCHANGED <<hostUp, cancelled, sockVars, daemonStatus, pending, inflight, buffered, serving, caught>>
        /\ r \in Lists \ asked /\ asked' = asked \cup {r}
        /\ replies' = [q \in Requests |-> replies[q] + IF q \in {r} THEN 1 ELSE 0]
        /\ UNCHANGED <<local, aborted, unheard, engine>>
    BY <1>1, <1>3, NowIs, ReplyEffect DEF HostLists, Becomes
  <2>2. Waiting' = Waiting /\ Left' = Left /\ Served' = Served /\ AtPeer' = AtPeer /\ Open' = Open
    BY <2>1 DEF Waiting, Left, Served, AtPeer, Open, sockVars
  <2>3. TypeOK'
    BY <1>1, <2>1 DEF TypeOK, sockVars
  <2>4. Answers'
    <3>1. r \notin Open
      BY <1>1, <2>1 DEF Core, Queues, Open
    <3>2. QED
      BY <1>1, <2>1, <2>2, <3>1 DEF Core, Answers
  <2>5. Queues' /\ Connecting' /\ Ready' /\ Failed' /\ Closed' /\ Heard'
    BY <1>1, <2>1, <2>2 DEF Core, Queues, Connecting, Ready, Failed, Closed, Heard, sockVars
  <2>6. QED
    BY <2>3, <2>4, <2>5 DEF IInv, Core
<1>4. QED
  BY <1>2, <1>3

\* The lines that waited for the daemon are sent to it, and are in flight.
LEMMA ConnectedStep ==
    ASSUME IInv, Connected
    PROVE  IInv'
<1> USE IdsAreDistinct
<1>1. TypeOK /\ Core
  BY DEF IInv
<1>2. /\ daemonStatus = "connecting" /\ daemonStatus' = "ready" /\ conn' = "open"
      /\ inflight' = Waiting \ Inits /\ toDaemon' = pending /\ pending' = <<>>
      /\ UNCHANGED <<hostVars, serveVars, fromDaemon, atDaemon, buffered, serving, caught>>
  BY DEF Connected, Tracked, Waiting, Ids
<1>3. /\ conn = "none" /\ inflight = {} /\ Left = {} /\ Served = {} /\ atDaemon = {}
      /\ fromDaemon = <<>> /\ ToSet(fromDaemon) = {} /\ buffered = <<>>
  BY <1>1, <1>2, EmptyQueue DEF Core, Connecting, Closed, Left
<1>4. /\ Waiting' = {} /\ Left' = {} /\ Served' = {} /\ AtPeer' = Waiting
      /\ Ids(toDaemon') = Waiting /\ CancelIds(toDaemon') = CancelIds(pending)
      /\ CancelIds(pending') = {} /\ ToSet(fromDaemon') = {}
  BY <1>2, <1>3, EmptyQueue DEF Waiting, Left, Served, AtPeer, serveVars
<1>5. TypeOK'
  <2>1. inflight' \subseteq Requests \ (Inits \cup Lists)
    BY <1>1, <1>2 DEF TypeOK, Core, Queues
  <2>2. QED
    BY <1>1, <1>2, <2>1, EmptyQueue DEF TypeOK, hostVars, serveVars
<1>6. Queues'
  BY <1>1, <1>2, <1>3, <1>4, EmptyQueue DEF Core, Queues, hostVars
<1>7. Answers'
  <2>1. Open' = Open
    BY <1>2, <1>3, <1>4 DEF Open
  <2>2. QED
    BY <1>1, <1>2, <2>1 DEF Core, Answers, hostVars, serveVars
<1>8. Connecting' /\ Ready' /\ Failed' /\ Closed' /\ Heard'
  BY <1>1, <1>2, <1>3, <1>4, EmptyQueue
     DEF Core, Connecting, Ready, Failed, Closed, Heard, hostVars, serveVars
<1>9. QED
  BY <1>5, <1>6, <1>7, <1>8 DEF IInv, Core

\* They are served here, one after the other.
LEMMA StartFailedStep ==
    ASSUME IInv, StartFailed
    PROVE  IInv' /\ Grows
<1> USE IdsAreDistinct
<1>1. TypeOK /\ Core /\ ServeState(Now)
  BY NowIs DEF IInv
<1>2. /\ daemonStatus = "connecting" /\ daemonStatus' = "failed" /\ pending' = <<>>
      /\ caught' = Waiting \cap Calls /\ ServeBuffered(Now, pending)
      /\ UNCHANGED <<hostVars, sockVars, inflight>>
  BY DEF StartFailed, Waiting, Ids
<1>3. /\ conn = "none" /\ inflight = {} /\ Left = {} /\ Served = {} /\ atDaemon = {}
      /\ fromDaemon = <<>> /\ ToSet(fromDaemon) = {} /\ toDaemon = <<>>
      /\ pending \in Seq(Lines) /\ Distinct(pending) /\ unheard = {}
      /\ CancelIds(pending) \subseteq Waiting \cap Calls
  <2>1. CancelIds(pending) \subseteq Calls /\ CancelIds(pending) \subseteq asked
    BY <1>1 DEF Core, Queues, TypeOK
  <2>2. QED
    BY <1>1, <1>2, <2>1, EmptyQueue DEF Core, Connecting, Closed, Queues, Left, TypeOK, Heard
<1>4. PICK P \in SUBSET Requests :
        /\ P \cap Left' = {} /\ P \cup Left' = Ids(pending)
        /\ buffered' \in Seq(Lines) /\ Distinct(buffered')
        /\ serving' \in Calls \cup {NoCall}
        /\ CancelIds(buffered') \subseteq CancelIds(pending)
        /\ replies' \in [Requests -> Nat]
        /\ \A r \in Requests : replies'[r] = Now.replies[r] + IF r \in P \cap Others THEN 1 ELSE 0
        /\ local' \in [Calls -> {"no", "opening", "running"}]
        /\ \A c \in Calls : local'[c] # "no" <=> c \in P \/ Now.local[c] # "no"
        /\ engine' \in {"none", "opening", "ready"} /\ aborted' \subseteq Calls
        /\ unheard' \subseteq
              Now.unheard \cup {c \in CancelIds(pending) : Now.replies[c] = 0 /\ Now.local[c] = "no"}
  BY <1>1, <1>2, <1>3, ServeBufferedEffect
<1>13. /\ Now.replies = replies /\ Now.local = local /\ Now.unheard = unheard /\ Waiting = Ids(pending)
      /\ unheard' \subseteq CancelIds(pending)
  BY <1>3, <1>4 DEF Now, Waiting
<1>5. /\ Waiting' = {} /\ Served' = P \cap Calls /\ AtPeer' = {} /\ Ids(toDaemon') = {}
      /\ CancelIds(toDaemon') = {} /\ CancelIds(pending') = {} /\ ToSet(fromDaemon') = {}
  BY <1>2, <1>3, <1>4, <1>13, EmptyQueue DEF Waiting, Served, AtPeer, sockVars
<1>6. TypeOK'
  <2>1. unheard' \subseteq Calls /\ caught' \subseteq Calls
    BY <1>2, <1>3, <1>13
  <2>2. QED
    BY <1>1, <1>2, <1>3, <1>4, <2>1, EmptyQueue DEF TypeOK, hostVars, sockVars
<1>7. Waiting \subseteq asked \ Lists
  BY <1>1 DEF Core, Queues
<1>8. Queues'
  BY <1>1, <1>2, <1>3, <1>4, <1>13, <1>5, <1>7, EmptyQueue DEF Core, Queues, hostVars, sockVars
<1>9. Answers'
  <2>1. ASSUME NEW r \in Requests
        PROVE  replies'[r] = IF r \in asked' \ Open' THEN 1 ELSE 0
    <3>1. /\ r \in Open <=> r \in Waiting \ Inits
          /\ r \in Open' <=> r \in (Left' \cup (P \cap Calls)) \ Inits
          /\ asked' = asked
      BY <1>2, <1>3, <1>5 DEF Open, hostVars
    <3>2. replies[r] = IF r \in asked \ Open THEN 1 ELSE 0
      BY <1>1 DEF Core, Answers
    <3>3. r \in P \cap Others => r \in Waiting \ (Inits \cup Left' \cup Calls) /\ r \in asked
      BY <1>4, <1>13, <1>7
    <3>4. r \in Waiting \ (Inits \cup Others) => r \in Left' \cup (P \cap Calls)
      BY <1>4, <1>13, <1>7 DEF Requests
    <3>5. QED
      BY <1>4, <1>13, <3>1, <3>2, <3>3, <3>4
  <2>2. QED
    BY <2>1 DEF Answers
<1>10. Connecting' /\ Ready' /\ Failed' /\ Closed' /\ Heard'
  BY <1>1, <1>2, <1>3, <1>4, <1>13, <1>5 DEF Core, Connecting, Ready, Failed, Closed, Heard, sockVars, TypeOK
<1>11. Grows
  BY <1>1, <1>4, <1>13 DEF Grows, TypeOK
<1>12. QED
  BY <1>6, <1>8, <1>9, <1>10, <1>11 DEF IInv, Core

\* An answer of the daemon is relayed, but for that to the initialize.
LEMMA OnDataStep ==
    ASSUME IInv, OnData
    PROVE  IInv' /\ Grows
<1> USE IdsAreDistinct
<1> DEFINE r == Head(fromDaemon)
<1>1. TypeOK /\ Core /\ fromDaemon # <<>>
  BY DEF IInv, OnData
<1>2. /\ inflight' = inflight \ {r} /\ fromDaemon' = Tail(fromDaemon)
      /\ replies' = [q \in Requests |-> replies[q] + IF q \in {r} \ Inits THEN 1 ELSE 0]
      /\ UNCHANGED <<local, aborted, unheard, engine>>
      /\ UNCHANGED <<hostVars, daemonStatus, pending, buffered, serving, conn, toDaemon, atDaemon, caught>>
  BY <1>1, NowIs, ReplyEffect DEF OnData, Becomes
<1>3. /\ fromDaemon' \in Seq(Requests) /\ Distinct(fromDaemon') /\ r \in Requests
      /\ r \in ToSet(fromDaemon) /\ ToSet(fromDaemon') = ToSet(fromDaemon) \ {r}
  <2>1. fromDaemon \in Seq(Requests) /\ Distinct(fromDaemon)
    BY <1>1 DEF TypeOK, Core, Queues
  <2>2. QED
    BY <1>1, <1>2, <2>1, ElementsOfTail
<1> HIDE DEF r
<1>4. daemonStatus = "ready"
  BY <1>1 DEF Core, Connecting, Failed, Closed, TypeOK
<1>5. r \in Inits \/ (r \in inflight /\ r \in Open)
  BY <1>1, <1>3, <1>4 DEF Core, Ready, AtPeer, Open, TypeOK
<1>6. r \notin Ids(toDaemon) \cup atDaemon
  BY <1>1, <1>3 DEF Core, Queues
<1>7. /\ Waiting' = Waiting /\ Left' = Left /\ Served' = Served /\ AtPeer' = AtPeer \ {r}
      /\ Ids(toDaemon') = Ids(toDaemon) /\ CancelIds(toDaemon') = CancelIds(toDaemon)
      /\ CancelIds(pending') = CancelIds(pending)
  BY <1>2, <1>3, <1>6 DEF Waiting, Left, Served, AtPeer
<1>8. Waiting = {} /\ Left = {} /\ Served = {}
  BY <1>1, <1>4, EmptyQueue DEF Core, Ready, Waiting, Left
<1>9. TypeOK'
  BY <1>1, <1>2, <1>3 DEF TypeOK, hostVars
<1>10. Answers'
  <2>1. Open = inflight \ Inits /\ Open' = Open \ {r} /\ asked' = asked
    BY <1>2, <1>7, <1>8 DEF Open, hostVars
  <2>2. r \in asked
    BY <1>1, <1>3 DEF Core, Queues, AtPeer
  <2>3. ASSUME NEW q \in Requests
        PROVE  replies'[q] = IF q \in asked' \ Open' THEN 1 ELSE 0
    <3>1. /\ replies[q] = IF q \in asked \ Open THEN 1 ELSE 0
          /\ replies'[q] = replies[q] + IF q \in {r} \ Inits THEN 1 ELSE 0
      BY <1>1, <1>2 DEF Core, Answers
    <3>2. QED
      BY <1>5, <2>1, <2>2, <3>1
  <2>4. QED
    BY <2>3 DEF Answers
<1>11. Queues'
  BY <1>1, <1>2, <1>3, <1>7 DEF Core, Queues, hostVars
<1>12. Connecting' /\ Ready' /\ Failed' /\ Closed' /\ Heard'
  BY <1>1, <1>2, <1>4, <1>7 DEF Core, Connecting, Ready, Failed, Closed, Heard
<1>13. Grows
  BY <1>1, <1>2 DEF Grows, TypeOK
<1>14. QED
  BY <1>9, <1>10, <1>11, <1>12, <1>13 DEF IInv, Core

\* The daemon is given up: what it has not answered is served here.
LEMMA OnDaemonLostStep ==
    ASSUME IInv, OnDaemonLost
    PROVE  IInv' /\ Grows
<1> USE IdsAreDistinct
<1> DEFINE L == {Request(r) : r \in inflight}
           missed == Missed(Now, cancelled \cap inflight)
           s == [Now EXCEPT !.unheard = @ \cup missed, !.aborted = @ \ inflight]
           t == HandleLocally(s, L)
<1>1. TypeOK /\ Core /\ ServeState(Now)
  BY NowIs DEF IInv
<1>2. /\ conn = "closed" /\ fromDaemon = <<>> /\ daemonStatus = "ready" /\ daemonStatus' = "failed"
      /\ inflight' = {} /\ caught' = inflight \cap Calls
      /\ replies' = t.replies /\ local' = t.local /\ aborted' = t.aborted
      /\ unheard' = t.unheard /\ engine' = t.engine
      /\ UNCHANGED <<hostVars, sockVars, pending, buffered, serving>>
  BY DEF OnDaemonLost, Becomes
<1>3. /\ ServeState(s) /\ s.replies = replies /\ s.local = local
      /\ s.unheard \subseteq unheard \cup (cancelled \cap inflight)
  <2>1. missed \subseteq cancelled \cap inflight /\ missed \in SUBSET Calls
    BY <1>1 DEF Missed, TypeOK
  <2> HIDE DEF missed
  <2>2. /\ ServeState(s)
        /\ s.replies = Now.replies /\ s.local = Now.local /\ s.unheard = Now.unheard \cup missed
    BY <1>1, <2>1, GiveUpEffect
  <2> HIDE DEF s
  <2>3. Now.replies = replies /\ Now.local = local /\ Now.unheard = unheard
    BY <1>1, NowIs
  <2>4. QED
    BY <2>1, <2>2, <2>3
<1>4. L \subseteq Lines /\ RequestsIn(L) = inflight /\ CancelsIn(L) = {}
  <2>1. L \subseteq Lines
    <3>1. \A r \in inflight : Request(r) \in Lines
      BY <1>1, OneLine DEF TypeOK
    <3>2. QED
      BY <3>1
  <2>2. \A r : r \in RequestsIn(L) <=> Request(r) \in L
    BY <2>1, IdsOf
  <2>3. \A q, r : Request(q) = Request(r) => q = r
    BY DEF Request
  <2>4. RequestsIn(L) = inflight
    <3>1. ASSUME NEW r
          PROVE  Request(r) \in L <=> r \in inflight
      BY <2>3
    <3>2. QED
      BY <2>2, <3>1
  <2>5. CancelsIn(L) = {}
    BY <2>1, IdsOf, OneLine
  <2>6. QED
    BY <2>1, <2>4, <2>5
<1> HIDE DEF s, L
<1>5. /\ t.replies \in [Requests -> Nat]
      /\ \A r \in Requests : t.replies[r] =
            s.replies[r] + IF r \in RequestsIn(L) \cap Others THEN 1 ELSE 0
      /\ t.local \in [Calls -> {"no", "opening", "running"}]
      /\ \A c \in Calls : t.local[c] # "no" <=> c \in RequestsIn(L) \/ s.local[c] # "no"
      /\ t.engine \in {"none", "opening", "ready"} /\ t.aborted \subseteq Calls
      /\ t.unheard \subseteq
            s.unheard \cup {c \in CancelsIn(L) : s.replies[c] = 0 /\ s.local[c] = "no"}
  BY <1>3, <1>4, HandleLocallyEffect
<1> HIDE DEF t
<1>6. /\ Waiting = {} /\ Left = {} /\ Served = {} /\ pending = <<>> /\ buffered = <<>>
      /\ toDaemon = <<>> /\ atDaemon = {} /\ unheard = {}
  BY <1>1, <1>2, EmptyQueue DEF Core, Ready, Closed, Heard, Waiting, Left
<1>7. unheard' \subseteq inflight \cap Calls
  BY <1>1, <1>2, <1>3, <1>4, <1>5, <1>6 DEF TypeOK
<1>8. /\ Waiting' = {} /\ Left' = {} /\ Served' = inflight \cap Calls /\ AtPeer' = {}
      /\ Ids(toDaemon') = {} /\ CancelIds(toDaemon') = {} /\ CancelIds(pending') = {}
      /\ CancelIds(buffered') = {} /\ ToSet(fromDaemon') = {}
  <2>1. UNCHANGED <<pending, buffered, toDaemon, fromDaemon, atDaemon>>
    BY <1>2 DEF sockVars
  <2>2. Served' = inflight \cap Calls
    BY <1>2, <1>3, <1>4, <1>5, <1>6 DEF Served
  <2>3. QED
    BY <1>2, <1>6, <2>1, <2>2, EmptyQueue DEF Waiting, Left, AtPeer
<1>9. TypeOK'
  BY <1>1, <1>2, <1>5, <1>7 DEF TypeOK, hostVars, sockVars
<1>10. Answers'
  <2>1. Open = inflight /\ Open' = inflight \cap Calls /\ asked' = asked /\ inflight \subseteq asked
    BY <1>1, <1>2, <1>6, <1>8 DEF Open, hostVars, TypeOK, Core, Queues
  <2>2. inflight \subseteq Others \cup Calls
    BY <1>1 DEF TypeOK, Requests
  <2>3. ASSUME NEW r \in Requests
        PROVE  replies'[r] = IF r \in asked' \ Open' THEN 1 ELSE 0
    <3>1. /\ replies[r] = IF r \in asked \ Open THEN 1 ELSE 0
          /\ replies'[r] = replies[r] + IF r \in inflight \cap Others THEN 1 ELSE 0
      BY <1>1, <1>2, <1>3, <1>4, <1>5 DEF Core, Answers
    <3>2. QED
      BY <2>1, <2>2, <3>1
  <2>4. QED
    BY <2>3 DEF Answers
<1>11. Queues'
  <2>1. inflight \subseteq asked
    BY <1>1 DEF Core, Queues
  <2>2. QED
    BY <1>1, <1>2, <1>6, <1>8, <2>1, EmptyQueue DEF Core, Queues, hostVars, sockVars
<1>12. Connecting' /\ Ready' /\ Failed' /\ Closed' /\ Heard'
  BY <1>1, <1>2, <1>6, <1>7, <1>8 DEF Core, Connecting, Ready, Failed, Closed, Heard, sockVars
<1>13. Grows
  BY <1>1, <1>2, <1>3, <1>5 DEF Grows, TypeOK
<1>14. QED
  BY <1>9, <1>10, <1>11, <1>12, <1>13 DEF IInv, Core

\* The engine is ready: the calls that waited for it run.
LEMMA EngineReadyStep ==
    ASSUME IInv, EngineReady
    PROVE  IInv'
<1>1. TypeOK /\ Core
  BY DEF IInv
<1>2. /\ engine' = "ready"
      /\ local' = [c \in Calls |-> IF local[c] = "opening" THEN "running" ELSE local[c]]
      /\ UNCHANGED <<hostVars, replies, aborted, unheard, sockVars, daemonStatus, pending,
                     inflight, buffered, serving, caught>>
  BY DEF EngineReady
<1>3. Waiting' = Waiting /\ Left' = Left /\ Served' = Served /\ AtPeer' = AtPeer /\ Open' = Open
  BY <1>1, <1>2 DEF Waiting, Left, Served, AtPeer, Open, sockVars, TypeOK
<1>4. TypeOK'
  BY <1>1, <1>2 DEF TypeOK, hostVars, sockVars
<1>5. Queues' /\ Answers' /\ Connecting' /\ Ready' /\ Failed' /\ Closed' /\ Heard'
  BY <1>1, <1>2, <1>3
     DEF Core, Queues, Answers, Connecting, Ready, Failed, Closed, Heard, hostVars, sockVars
<1>6. QED
  BY <1>4, <1>5 DEF IInv, Core

\* A call is answered here; if the failed start awaited it, its loop goes on.
LEMMA LocalDoneStep ==
    ASSUME IInv, NEW c \in Calls, LocalDone(c)
    PROVE  IInv' /\ Grows
<1> USE IdsAreDistinct
<1> DEFINE d == [Now EXCEPT !.local[c] = "no", !.aborted = @ \ {c}]
           s == Reply(d, {c})
<1>1. TypeOK /\ Core /\ ServeState(Now) /\ c \in Requests \ (Inits \cup Others \cup Lists)
  BY NowIs DEF IInv, Requests
<1>2. /\ local[c] = "running"
      /\ IF serving = c THEN ServeBuffered(s, buffered)
         ELSE Becomes(s) /\ UNCHANGED <<buffered, serving>>
      /\ UNCHANGED <<hostVars, sockVars, daemonStatus, pending, inflight, caught>>
  BY DEF LocalDone
<1>3. /\ ServeState(s)
      /\ s.replies = [r \in Requests |-> replies[r] + IF r \in {c} THEN 1 ELSE 0]
      /\ s.local = [local EXCEPT ![c] = "no"] /\ s.unheard = unheard
  <2>1. /\ ServeState(d) /\ d.replies = Now.replies
        /\ d.local = [Now.local EXCEPT ![c] = "no"] /\ d.unheard = Now.unheard
    BY <1>1, DoneEffect
  <2> HIDE DEF d
  <2>2. /\ ServeState(s)
        /\ s.replies = [r \in Requests |-> d.replies[r] + IF r \in {c} THEN 1 ELSE 0]
        /\ s.local = d.local /\ s.unheard = d.unheard
    BY <2>1, ReplyEffect
  <2>3. Now.replies = replies /\ Now.local = local /\ Now.unheard = unheard
    BY <1>1, NowIs
  <2> HIDE DEF s
  <2>4. QED
    BY <2>1, <2>2, <2>3
<1> HIDE DEF s, d
<1>4. c \in Served
  BY <1>2 DEF Served
<1>5. /\ daemonStatus = "failed" /\ pending = <<>> /\ inflight = {} /\ conn # "open"
      /\ fromDaemon = <<>> /\ toDaemon = <<>> /\ atDaemon = {} /\ Left \cap Served = {}
      /\ CancelIds(buffered) \subseteq caught /\ Left \cap Calls \subseteq caught
      /\ buffered \in Seq(Lines) /\ Distinct(buffered)
  BY <1>1, <1>4 DEF Core, Connecting, Ready, Failed, Closed, TypeOK, Queues
<1>6. PICK P \in SUBSET Requests :
        /\ P \cap Left' = {} /\ P \cup Left' = Left
        /\ buffered' \in Seq(Lines) /\ Distinct(buffered')
        /\ serving' \in Calls \cup {NoCall}
        /\ CancelIds(buffered') \subseteq CancelIds(buffered)
        /\ replies' \in [Requests -> Nat]
        /\ \A r \in Requests : replies'[r] = s.replies[r] + IF r \in P \cap Others THEN 1 ELSE 0
        /\ local' \in [Calls -> {"no", "opening", "running"}]
        /\ \A e \in Calls : local'[e] # "no" <=> e \in P \/ s.local[e] # "no"
        /\ engine' \in {"none", "opening", "ready"} /\ aborted' \subseteq Calls
        /\ unheard' \subseteq s.unheard \cup CancelIds(buffered)
  <2>1. CASE serving = c
    <3>1. ServeBuffered(s, buffered)
      BY <1>2, <2>1
    <3>2. PICK P \in SUBSET Requests :
            /\ P \cap Left' = {} /\ P \cup Left' = Ids(buffered)
            /\ buffered' \in Seq(Lines) /\ Distinct(buffered')
            /\ serving' \in Calls \cup {NoCall}
            /\ CancelIds(buffered') \subseteq CancelIds(buffered)
            /\ replies' \in [Requests -> Nat]
            /\ \A r \in Requests : replies'[r] = s.replies[r] + IF r \in P \cap Others THEN 1 ELSE 0
            /\ local' \in [Calls -> {"no", "opening", "running"}]
            /\ \A e \in Calls : local'[e] # "no" <=> e \in P \/ s.local[e] # "no"
            /\ engine' \in {"none", "opening", "ready"} /\ aborted' \subseteq Calls
            /\ unheard' \subseteq
                  s.unheard \cup {e \in CancelIds(buffered) : s.replies[e] = 0 /\ s.local[e] = "no"}
      BY <1>3, <1>5, <3>1, ServeBufferedEffect
    <3>3. Ids(buffered) = Left /\ unheard' \subseteq s.unheard \cup CancelIds(buffered)
      BY <3>2 DEF Left
    <3>4. QED
      BY <3>2, <3>3
  <2>2. CASE serving # c
    <3>1. /\ replies' = s.replies /\ local' = s.local /\ aborted' = s.aborted
          /\ unheard' = s.unheard /\ engine' = s.engine /\ UNCHANGED <<buffered, serving>>
      BY <1>2, <2>2 DEF Becomes
    <3>2. Left' = Left /\ CancelIds(buffered') = CancelIds(buffered)
      BY <3>1 DEF Left
    <3>3. replies' \in [Requests -> Nat] /\ \A r \in Requests : replies'[r] \in Nat
      BY <1>3, <3>1 DEF ServeState
    <3>4. WITNESS {} \in SUBSET Requests
    <3>5. QED
      BY <1>1, <1>3, <1>5, <3>1, <3>2, <3>3 DEF ServeState, TypeOK
  <2>3. QED
    BY <2>1, <2>2
<1>7. /\ Waiting' = {} /\ Waiting = {} /\ Served' = (Served \ {c}) \cup (P \cap Calls)
      /\ AtPeer' = {} /\ Ids(toDaemon') = {} /\ CancelIds(toDaemon') = {}
      /\ CancelIds(pending') = {} /\ ToSet(fromDaemon') = {}
  <2>1. Served' = (Served \ {c}) \cup (P \cap Calls)
    BY <1>1, <1>3, <1>6 DEF Served, TypeOK
  <2>2. QED
    BY <1>2, <1>5, <2>1, EmptyQueue DEF Waiting, AtPeer, sockVars
<1>8. unheard' \subseteq caught /\ caught' = caught /\ UNCHANGED hostVars /\ caught \subseteq Calls
  BY <1>1, <1>2, <1>3, <1>5, <1>6 DEF Core, Heard, TypeOK
<1>9. TypeOK'
  BY <1>1, <1>2, <1>5, <1>6, <1>8, EmptyQueue DEF TypeOK, hostVars, sockVars
<1>10. c \notin Left /\ Left \subseteq asked \ Lists /\ Served \subseteq asked
  BY <1>1, <1>4, <1>5 DEF Core, Queues
<1>11. Answers'
  <2>1. ASSUME NEW r \in Requests
        PROVE  replies'[r] = IF r \in asked' \ Open' THEN 1 ELSE 0
    <3>1. /\ r \in Open <=> r \in (Left \cup Served) \ Inits
          /\ r \in Open' <=> r \in (Left' \cup Served') \ Inits
          /\ asked' = asked
      BY <1>2, <1>5, <1>7 DEF Open, hostVars
    <3>2. replies[r] = IF r \in asked \ Open THEN 1 ELSE 0
      BY <1>1 DEF Core, Answers
    <3>3. replies'[r] = (replies[r] + IF r \in {c} THEN 1 ELSE 0) + IF r \in P \cap Others THEN 1 ELSE 0
      BY <1>3, <1>6
    <3>4. CASE r = c
      <4>1. r \in Open /\ r \notin Open' /\ r \in asked /\ r \notin P
        BY <1>1, <1>4, <1>6, <1>7, <1>10, <3>1, <3>4
      <4>2. QED
        BY <3>1, <3>2, <3>3, <3>4, <4>1
    <3>5. CASE r # c /\ r \in P \cap Others
      <4>1. r \in Open /\ r \notin Open' /\ r \in asked
        BY <1>6, <1>7, <1>10, <3>1, <3>5 DEF Served
      <4>2. QED
        BY <3>1, <3>2, <3>3, <3>5, <4>1
    <3>6. CASE r # c /\ r \notin P \cap Others
      <4>1. r \in Open <=> r \in Open'
        BY <1>6, <1>7, <1>10, <3>1, <3>6 DEF Requests
      <4>2. QED
        BY <3>1, <3>2, <3>3, <3>6, <4>1
    <3>7. QED
      BY <3>4, <3>5, <3>6
  <2>2. QED
    BY <2>1 DEF Answers
<1>12. Queues'
  BY <1>1, <1>2, <1>5, <1>6, <1>7, <1>10, EmptyQueue DEF Core, Queues, hostVars, sockVars
<1>13. Connecting' /\ Ready' /\ Failed' /\ Closed' /\ Heard'
  BY <1>1, <1>2, <1>4, <1>5, <1>6, <1>7, <1>8
     DEF Core, Connecting, Ready, Failed, Closed, Heard, sockVars
<1>14. Grows
  <2>1. ASSUME NEW r \in Requests
        PROVE  replies'[r] >= replies[r]
    <3>1. replies[r] \in Nat /\ s.replies[r] = replies[r] + IF r \in {c} THEN 1 ELSE 0
      BY <1>1, <1>3 DEF TypeOK
    <3>2. replies'[r] = s.replies[r] + IF r \in P \cap Others THEN 1 ELSE 0
      BY <1>6
    <3>3. QED
      BY <3>1, <3>2
  <2>2. QED
    BY <2>1 DEF Grows
<1>15. QED
  BY <1>9, <1>11, <1>12, <1>13, <1>14 DEF IInv, Core

\* While the connection is open, what is in flight is what the daemon has.
LEMMA OpenConnection ==
    ASSUME IInv, conn = "open"
    PROVE  /\ daemonStatus = "ready" /\ pending = <<>> /\ buffered = <<>>
           /\ Waiting = {} /\ Left = {} /\ Served = {} /\ CancelIds(pending) = {}
           /\ CancelIds(buffered) = {}
           /\ AtPeer \ Inits \subseteq inflight /\ inflight \subseteq AtPeer /\ Open = inflight \ Inits
<1>1. TypeOK /\ Core
  BY DEF IInv
<1>2. /\ daemonStatus = "ready" /\ pending = <<>> /\ buffered = <<>> /\ Served = {}
      /\ AtPeer \ Inits \subseteq inflight /\ inflight \subseteq AtPeer
  BY <1>1 DEF Core, Connecting, Ready, Failed, TypeOK
<1>3. Waiting = {} /\ Left = {} /\ CancelIds(pending) = {} /\ CancelIds(buffered) = {}
  BY <1>2, EmptyQueue DEF Waiting, Left
<1>4. QED
  BY <1>2, <1>3 DEF Open

\* A step of the daemon's session moves a request from one place at the daemon to
\* another.
LEMMA MovedAtPeer ==
    ASSUME IInv, conn = "open",
           UNCHANGED <<hostVars, replies, local, engine, conn, daemonStatus, pending, inflight,
                       buffered, serving, caught>>,
           unheard' = unheard, aborted' \subseteq Calls, AtPeer' = AtPeer,
           toDaemon' \in Seq(Lines), Distinct(toDaemon'), CancelsFollow(toDaemon'),
           CancelIds(toDaemon') \subseteq CancelIds(toDaemon),
           fromDaemon' \in Seq(Requests), Distinct(fromDaemon'), atDaemon' \subseteq Calls,
           Ids(toDaemon') \cap (atDaemon' \cup ToSet(fromDaemon')) = {},
           atDaemon' \cap ToSet(fromDaemon') = {}
    PROVE  IInv'
<1>1. TypeOK /\ Core /\ daemonStatus = "ready"
  BY OpenConnection DEF IInv
<1>2. /\ Waiting' = Waiting /\ Left' = Left /\ Served' = Served /\ Open' = Open
      /\ CancelIds(pending') = CancelIds(pending)
  BY DEF Waiting, Left, Served, Open
<1>3. TypeOK'
  BY <1>1 DEF TypeOK, hostVars
<1>4. Queues'
  BY <1>1, <1>2 DEF Core, Queues, hostVars
<1>5. Answers' /\ Connecting' /\ Ready' /\ Failed' /\ Closed' /\ Heard'
  BY <1>1, <1>2 DEF Core, Answers, Connecting, Ready, Failed, Closed, Heard, hostVars
<1>6. QED
  BY <1>3, <1>4, <1>5 DEF IInv, Core

\* The session takes a line: a call is served, another request is answered, and a
\* cancellation finds its call, or its call has been answered.
LEMMA DaemonReadsStep ==
    ASSUME IInv, DaemonReads
    PROVE  IInv'
<1> USE IdsAreDistinct
<1> DEFINE l == Head(toDaemon)
<1>1. TypeOK /\ Core
  BY DEF IInv
<1>2. /\ conn = "open" /\ toDaemon # <<>>
      /\ atDaemon' = IF IsCall(l) THEN atDaemon \cup {l.id} ELSE atDaemon
      /\ fromDaemon' = IF l.op = "request" /\ ~IsCall(l) THEN Append(fromDaemon, l.id) ELSE fromDaemon
      /\ aborted' = IF l.op = "cancel" /\ l.id \in atDaemon THEN aborted \cup {l.id} ELSE aborted
      /\ unheard' = IF l.op = "cancel" /\ l.id \notin atDaemon \cup ToSet(fromDaemon)
                    THEN unheard \cup Missed(Now, {l.id}) ELSE unheard
      /\ toDaemon' = Tail(toDaemon)
      /\ UNCHANGED <<hostVars, replies, local, engine, conn, daemonStatus, pending, inflight,
                     buffered, serving, caught>>
  BY DEF DaemonReads
<1>3. /\ toDaemon' \in Seq(Lines) /\ Distinct(toDaemon') /\ CancelsFollow(toDaemon')
      /\ CancelIds(toDaemon') \subseteq CancelIds(toDaemon)
      /\ \/ \E r \in Requests : l = Request(r) /\ r \in Ids(toDaemon) /\ Ids(toDaemon') = Ids(toDaemon) \ {r}
         \/ \E c \in Calls : /\ l = Cancel(c) /\ c \in CancelIds(toDaemon)
                             /\ c \notin Ids(toDaemon) /\ Ids(toDaemon') = Ids(toDaemon)
  <2>1. toDaemon \in Seq(Lines) /\ Distinct(toDaemon) /\ CancelsFollow(toDaemon)
    BY <1>1 DEF TypeOK, Core, Queues
  <2>2. QED
    BY <1>2, <2>1, QueueShrinks
<1> HIDE DEF l
<1>4. /\ fromDaemon \in Seq(Requests) /\ Distinct(fromDaemon) /\ atDaemon \subseteq Calls
      /\ aborted \subseteq Calls
      /\ Ids(toDaemon) \cap (atDaemon \cup ToSet(fromDaemon)) = {}
      /\ atDaemon \cap ToSet(fromDaemon) = {}
  BY <1>1 DEF TypeOK, Core, Queues
<1>5. CASE \E r \in Requests : l = Request(r) /\ r \in Ids(toDaemon) /\ Ids(toDaemon') = Ids(toDaemon) \ {r}
  <2>1. PICK r \in Requests : l = Request(r) /\ r \in Ids(toDaemon) /\ Ids(toDaemon') = Ids(toDaemon) \ {r}
    BY <1>5
  <2>2. l.op = "request" /\ l.id = r /\ (IsCall(l) <=> r \in Calls)
    BY <2>1 DEF Request, IsCall
  <2>3. unheard' = unheard /\ aborted' = aborted
    BY <1>2, <2>2
  <2>4. CASE r \in Calls
    <3>1. atDaemon' = atDaemon \cup {r} /\ fromDaemon' = fromDaemon
      BY <1>2, <2>2, <2>4
    <3>2. AtPeer' = AtPeer
      BY <2>1, <3>1 DEF AtPeer
    <3>3. /\ atDaemon' \subseteq Calls /\ aborted' \subseteq Calls
          /\ Ids(toDaemon') \cap (atDaemon' \cup ToSet(fromDaemon')) = {}
          /\ atDaemon' \cap ToSet(fromDaemon') = {}
      BY <1>4, <2>1, <2>3, <2>4, <3>1
    <3>4. fromDaemon' \in Seq(Requests) /\ Distinct(fromDaemon')
      BY <1>4, <3>1
    <3>5. QED
      BY <1>2, <1>3, <2>3, <3>2, <3>3, <3>4, MovedAtPeer
  <2>5. CASE r \notin Calls
    <3>1. atDaemon' = atDaemon /\ fromDaemon' = Append(fromDaemon, r)
      BY <1>2, <2>2, <2>5
    <3>2. r \notin ToSet(fromDaemon) /\ r \notin atDaemon
      BY <1>4, <2>1
    <3>3. /\ fromDaemon' \in Seq(Requests) /\ Distinct(fromDaemon')
          /\ ToSet(fromDaemon') = ToSet(fromDaemon) \cup {r}
      BY <1>4, <3>1, <3>2, ElementsOfAppend
    <3>4. AtPeer' = AtPeer
      BY <2>1, <3>1, <3>3 DEF AtPeer
    <3>5. QED
      BY <1>2, <1>3, <1>4, <2>1, <2>3, <3>1, <3>2, <3>3, <3>4, MovedAtPeer
  <2>6. QED
    BY <2>4, <2>5
<1>6. CASE \E c \in Calls : /\ l = Cancel(c) /\ c \in CancelIds(toDaemon)
                           /\ c \notin Ids(toDaemon) /\ Ids(toDaemon') = Ids(toDaemon)
  <2>1. PICK c \in Calls : /\ l = Cancel(c) /\ c \in CancelIds(toDaemon)
                           /\ c \notin Ids(toDaemon) /\ Ids(toDaemon') = Ids(toDaemon)
    BY <1>6
  <2>2. l.op = "cancel" /\ l.id = c /\ ~IsCall(l)
    BY <2>1 DEF Cancel, IsCall
  <2>3. atDaemon' = atDaemon /\ fromDaemon' = fromDaemon /\ aborted' \subseteq Calls
    BY <1>2, <1>4, <2>2
  <2>4. AtPeer' = AtPeer
    BY <2>1, <2>3 DEF AtPeer
  <2>5. unheard' = unheard
    <3>1. ASSUME c \notin atDaemon \cup ToSet(fromDaemon)
          PROVE  Missed(Now, {c}) = {}
      <4>1. c \in asked /\ c \in Requests /\ c \notin AtPeer
        BY <1>1, <2>1, <3>1 DEF Core, Queues, Requests, AtPeer
      <4>2. c \notin Open
        BY <1>2, <4>1, OpenConnection
      <4>3. replies[c] = 1
        BY <1>1, <4>1, <4>2 DEF Core, Answers
      <4>4. QED
        BY <4>3 DEF Missed, Now
    <3>2. QED
      BY <1>2, <2>2, <3>1
  <2>6. QED
    BY <1>2, <1>3, <1>4, <2>1, <2>3, <2>4, <2>5, MovedAtPeer
<1>7. QED
  BY <1>3, <1>5, <1>6

\* A call is answered by the daemon.
LEMMA DaemonAnswersStep ==
    ASSUME IInv, NEW c \in Calls, DaemonAnswers(c)
    PROVE  IInv'
<1>1. TypeOK /\ Core /\ c \in Requests
  BY DEF IInv, Requests
<1>2. /\ conn = "open" /\ c \in atDaemon /\ atDaemon' = atDaemon \ {c}
      /\ aborted' = aborted \ {c} /\ fromDaemon' = Append(fromDaemon, c)
      /\ UNCHANGED <<hostVars, replies, local, unheard, engine, conn, toDaemon, daemonStatus,
                     pending, inflight, buffered, serving, caught>>
  BY DEF DaemonAnswers
<1>3. /\ fromDaemon \in Seq(Requests) /\ Distinct(fromDaemon) /\ atDaemon \subseteq Calls
      /\ aborted \subseteq Calls /\ toDaemon \in Seq(Lines) /\ Distinct(toDaemon)
      /\ CancelsFollow(toDaemon)
      /\ Ids(toDaemon) \cap (atDaemon \cup ToSet(fromDaemon)) = {}
      /\ atDaemon \cap ToSet(fromDaemon) = {}
  BY <1>1 DEF TypeOK, Core, Queues
<1>4. /\ fromDaemon' \in Seq(Requests) /\ Distinct(fromDaemon')
      /\ ToSet(fromDaemon') = ToSet(fromDaemon) \cup {c}
  BY <1>1, <1>2, <1>3, ElementsOfAppend
<1>5. AtPeer' = AtPeer /\ Ids(toDaemon') = Ids(toDaemon) /\ CancelIds(toDaemon') = CancelIds(toDaemon)
  BY <1>2, <1>4 DEF AtPeer
<1>6. QED
  BY <1>2, <1>3, <1>4, <1>5, MovedAtPeer

\* The daemon dies: what it had is gone, but for the first of its answers.
LEMMA DaemonDiesStep ==
    ASSUME IInv, DaemonDies
    PROVE  IInv'
<1>1. TypeOK /\ Core
  BY DEF IInv
<1>2. /\ conn = "open" /\ conn' = "closed" /\ toDaemon' = <<>> /\ atDaemon' = {}
      /\ UNCHANGED <<hostVars, serveVars, daemonStatus, pending, inflight, buffered, serving, caught>>
  BY DEF DaemonDies
<1>3. PICK n \in 0..Len(fromDaemon) : fromDaemon' = SubSeq(fromDaemon, 1, n)
  BY DEF DaemonDies
<1>4. fromDaemon \in Seq(Requests) /\ Distinct(fromDaemon)
  BY <1>1 DEF TypeOK, Core, Queues
<1>5. /\ fromDaemon' \in Seq(Requests) /\ Distinct(fromDaemon')
      /\ ToSet(fromDaemon') \subseteq ToSet(fromDaemon)
  <2>1. Len(fromDaemon) \in Nat
    BY <1>4, LenProperties
  <2>2. /\ fromDaemon' \in Seq(Requests) /\ Distinct(fromDaemon')
        /\ \A x : x \in ToSet(fromDaemon') <=> \E i \in 1..n : fromDaemon[i] = x
    BY <1>3, <1>4, <2>1, ElementsOfPart
  <2>3. \A x : x \in ToSet(fromDaemon) <=> \E i \in 1..Len(fromDaemon) : fromDaemon[i] = x
    BY <1>4, ElementsOf
  <2>4. QED
    BY <2>1, <2>2, <2>3
<1>6. /\ Waiting' = Waiting /\ Left' = Left /\ Served' = Served /\ Open' = Open
      /\ AtPeer' \subseteq AtPeer /\ Ids(toDaemon') = {} /\ CancelIds(toDaemon') = {}
      /\ CancelIds(pending') = CancelIds(pending) /\ Distinct(toDaemon') /\ CancelsFollow(toDaemon')
  BY <1>2, <1>5, EmptyQueue DEF Waiting, Left, Served, Open, AtPeer, serveVars
<1>7. TypeOK'
  BY <1>1, <1>2, <1>5, EmptyQueue DEF TypeOK, hostVars, serveVars
<1>8. Queues'
  BY <1>1, <1>2, <1>5, <1>6 DEF Core, Queues, hostVars
<1>9. daemonStatus = "ready"
  BY <1>2, OpenConnection
<1>10. Answers' /\ Connecting' /\ Ready' /\ Failed' /\ Closed' /\ Heard'
  BY <1>1, <1>2, <1>6, <1>9
     DEF Core, Answers, Connecting, Ready, Failed, Closed, Heard, hostVars, serveVars
<1>11. QED
  BY <1>7, <1>8, <1>10 DEF IInv, Core

\* Every step keeps the invariant.
LEMMA StepIInv == IInv /\ [Next]_vars => IInv'
<1> SUFFICES ASSUME IInv, [Next]_vars PROVE IInv'
  OBVIOUS
<1> USE IdsAreDistinct
<1>1. CASE UNCHANGED vars
  <2>1. /\ UNCHANGED <<hostVars, serveVars, sockVars, daemonStatus, pending, inflight, buffered,
                       serving, caught>>
    BY <1>1 DEF vars
  <2>2. Waiting' = Waiting /\ Left' = Left /\ Served' = Served /\ AtPeer' = AtPeer /\ Open' = Open
    BY <2>1 DEF Waiting, Left, Served, AtPeer, Open, serveVars, sockVars
  <2>3. TypeOK /\ Core
    BY DEF IInv
  <2>4. TypeOK'
    BY <2>1, <2>3 DEF TypeOK, hostVars, serveVars, sockVars
  <2>5. Queues' /\ Answers' /\ Connecting' /\ Ready' /\ Failed' /\ Closed' /\ Heard'
    BY <2>1, <2>2, <2>3
       DEF Core, Queues, Answers, Connecting, Ready, Failed, Closed, Heard, hostVars, serveVars, sockVars
  <2>6. QED
    BY <2>4, <2>5 DEF IInv, Core
<1>2. ASSUME NEW r \in Requests, HostInitializes(r)
      PROVE  IInv'
  <2>1. /\ r \in (Inits \cup Others \cup Calls) \ asked /\ {r} = {r} \cap Inits
        /\ asked' = asked \cup {r} /\ RouteToDaemon(Request(r), {r}) /\ UNCHANGED <<hostUp, cancelled>>
    BY <1>2 DEF HostInitializes
  <2>2. QED
    BY <2>1, RouteRequest
<1>3. ASSUME NEW r \in Requests, HostRequests(r)
      PROVE  IInv'
  <2>1. /\ r \in (Inits \cup Others \cup Calls) \ asked /\ {} = {r} \cap Inits
        /\ asked' = asked \cup {r} /\ RouteToDaemon(Request(r), {}) /\ UNCHANGED <<hostUp, cancelled>>
    BY <1>3 DEF HostRequests
  <2>2. QED
    BY <2>1, RouteRequest
<1>4. ASSUME NEW r \in Requests, HostLists(r)
      PROVE  IInv'
  BY <1>4, ListsAndShutdown
<1>5. CASE Shutdown
  BY <1>5, ListsAndShutdown
<1>6. ASSUME NEW c \in Calls, HostCancels(c) \/ LocalDone(c) \/ DaemonAnswers(c)
      PROVE  IInv'
  BY <1>6, RouteCancel, LocalDoneStep, DaemonAnswersStep
<1>7. CASE Connected \/ StartFailed \/ OnData \/ OnDaemonLost \/ EngineReady \/ DaemonReads \/ DaemonDies
  BY <1>7, ConnectedStep, StartFailedStep, OnDataStep, OnDaemonLostStep, EngineReadyStep,
     DaemonReadsStep, DaemonDiesStep
<1>8. QED
  BY <1>1, <1>2, <1>3, <1>4, <1>5, <1>6, <1>7 DEF Next, Host

-----------------------------------------------------------------------------
(* The theorems.                                                           *)

\* The invariant holds in every state the proxy reaches.
THEOREM Invariance == Spec => []IInv
BY InitIInv, StepIInv, PTL DEF Spec

\* The variables always have their types: a settled connection leaves no line waiting.
THEOREM TypeCorrect == Spec => []TypeOK
<1>1. IInv => TypeOK
  BY DEF IInv
<1>2. QED
  BY <1>1, Invariance, PTL

\* No request is answered twice, by the daemon and here, or at once and again.
THEOREM NeverAnsweredTwice == Spec => []AnsweredOnce
<1>1. IInv => AnsweredOnce
  BY DEF IInv, Core, Answers, AnsweredOnce
<1>2. QED
  BY <1>1, Invariance, PTL

\* A cancellation has no effect only on a call that waited when the daemon was
\* given up.
THEOREM CancelHeard == Spec => []CancelIsHeard
<1>1. IInv => CancelIsHeard
  BY DEF IInv, Core, Heard, CancelIsHeard
<1>2. QED
  BY <1>1, Invariance, PTL

\* A request is in exactly one place that will see to it until it is answered.
THEOREM NothingLost == Spec => []NoRequestLost
<1> DEFINE Places(r) ==
        {p \in {"pending", "inflight", "buffered", "local"} :
            CASE p = "pending"  -> Request(r) \in ToSet(pending)
              [] p = "inflight" -> r \in inflight
              [] p = "buffered" -> Request(r) \in ToSet(buffered)
              [] p = "local"    -> r \in Calls /\ local[r] # "no"}
<1>1. ASSUME IInv, NEW r \in asked \ Inits
      PROVE  Cardinality(Places(r)) = IF replies[r] = 0 THEN 1 ELSE 0
  <2>1. TypeOK /\ Core /\ r \in Requests
    BY <1>1 DEF IInv, TypeOK
  <2>2. /\ Request(r) \in ToSet(pending) <=> r \in Waiting
        /\ Request(r) \in ToSet(buffered) <=> r \in Left
        /\ r \in Calls /\ local[r] # "no" <=> r \in Served
    <3>1. ToSet(pending) \subseteq Lines /\ ToSet(buffered) \subseteq Lines
      BY <2>1, ElementsOf DEF TypeOK
    <3>2. QED
      BY <3>1, IdsOf DEF Waiting, Left, Served, Ids
  <2>3. Places(r) = (IF r \in Waiting THEN {"pending"} ELSE {})
                       \cup (IF r \in inflight THEN {"inflight"} ELSE {})
                       \cup (IF r \in Left THEN {"buffered"} ELSE {})
                       \cup (IF r \in Served THEN {"local"} ELSE {})
    BY <2>2
  <2> HIDE DEF Places
  <2>4. replies[r] = IF r \in Open THEN 0 ELSE 1
    BY <1>1, <2>1 DEF Core, Answers
  <2>5. r \in Open <=> r \in Waiting \cup inflight \cup Left \cup Served
    BY <1>1 DEF Open
  <2>6. /\ r \in Waiting => r \notin inflight \cup Left \cup Served
        /\ r \in inflight => r \notin Left \cup Served
        /\ r \notin Left \cap Served
    BY <2>1, EmptyQueue DEF Core, Connecting, Ready, Failed, TypeOK, Waiting, Left
  <2>7. CASE r \in Open
    <3>1. \E p : Places(r) = {p}
      BY <2>3, <2>5, <2>6, <2>7
    <3>2. QED
      BY <2>4, <2>7, <3>1, FS_Singleton
  <2>8. CASE r \notin Open
    <3>1. Places(r) = {}
      BY <2>3, <2>5, <2>8
    <3>2. QED
      BY <2>4, <2>8, <3>1, FS_EmptySet
  <2>9. QED
    BY <2>7, <2>8
<1>2. IInv => NoRequestLost
  BY <1>1 DEF NoRequestLost
<1>3. QED
  BY <1>2, Invariance, PTL

-----------------------------------------------------------------------------
(* The proxy does what HostService allows: each of its steps asks a request,  *)
(* answers requests that were asked, leaves, or changes nothing the host sees. *)

Replied == {r \in Requests : replies[r] > 0}

\* Every step of the proxy is a step of the service, or one it does not see.
LEMMA StepOfService == IInv /\ [Next]_vars => [Service!Next]_Service!hostVars
<1> SUFFICES ASSUME IInv, [Next]_vars PROVE [Service!Next]_Service!hostVars
  OBVIOUS
<1> USE IdsAreDistinct
<1>1. TypeOK /\ IInv' /\ TypeOK'
  BY StepIInv DEF IInv
<1>2. Replied \subseteq asked /\ Replied' \subseteq asked'
  BY <1>1 DEF IInv, Core, Answers, Replied
<1>3. ASSUME NEW r \in Requests \ asked, hostUp, hostUp' = hostUp, asked' = asked \cup {r},
             \A q \in Requests \ {r} : replies'[q] = replies[q]
      PROVE  Service!Ask(r)
  <2>1. Replied' \in {Replied, Replied \cup {r}}
    BY <1>2, <1>3 DEF Replied
  <2>2. QED
    BY <1>3, <2>1 DEF Service!Ask, Replied
<1>4. ASSUME hostUp, UNCHANGED <<hostUp, asked>>, Grows
      PROVE  Service!Answer
  <2>1. Replied \subseteq Replied'
    BY <1>1, <1>4 DEF Replied, Grows, TypeOK
  <2>2. QED
    BY <1>2, <1>4, <2>1 DEF Service!Answer, Replied
<1>5. ASSUME UNCHANGED <<hostUp, asked>>, \A r \in Requests : replies'[r] = replies[r]
      PROVE  UNCHANGED Service!hostVars
  BY <1>5 DEF Service!hostVars
<1>6. ASSUME NEW r \in Requests, HostInitializes(r)
      PROVE  Service!Ask(r)
  <2>1. /\ r \in (Inits \cup Others \cup Calls) \ asked /\ {r} = {r} \cap Inits /\ hostUp
        /\ asked' = asked \cup {r} /\ RouteToDaemon(Request(r), {r}) /\ UNCHANGED <<hostUp, cancelled>>
    BY <1>6 DEF HostInitializes
  <2>2. \A q \in Requests \ {r} : replies'[q] = replies[q]
    BY <2>1, RouteRequest
  <2>3. QED
    BY <1>3, <2>1, <2>2
<1>7. ASSUME NEW r \in Requests, HostRequests(r)
      PROVE  Service!Ask(r)
  <2>1. /\ r \in (Inits \cup Others \cup Calls) \ asked /\ {} = {r} \cap Inits /\ hostUp
        /\ asked' = asked \cup {r} /\ RouteToDaemon(Request(r), {}) /\ UNCHANGED <<hostUp, cancelled>>
    BY <1>7 DEF HostRequests
  <2>2. \A q \in Requests \ {r} : replies'[q] = replies[q]
    BY <2>1, RouteRequest
  <2>3. QED
    BY <1>3, <2>1, <2>2
<1>8. ASSUME NEW r \in Requests, HostLists(r)
      PROVE  Service!Ask(r)
  <2>1. /\ r \notin asked /\ hostUp /\ hostUp' = hostUp /\ asked' = asked \cup {r}
        /\ replies' = [q \in Requests |-> replies[q] + IF q \in {r} THEN 1 ELSE 0]
    BY <1>1, <1>8, NowIs, ReplyEffect DEF HostLists, Becomes
  <2>2. \A q \in Requests \ {r} : replies'[q] = replies[q]
    BY <1>1, <2>1 DEF TypeOK
  <2>3. QED
    BY <1>3, <2>1, <2>2
<1>9. CASE \E c \in Calls : HostCancels(c)
  <2>1. UNCHANGED <<hostUp, asked>> /\ \A r \in Requests : replies'[r] = replies[r]
    BY <1>9, RouteCancel DEF HostCancels
  <2>2. QED
    BY <1>5, <2>1
<1>10. CASE Shutdown
  <2>1. /\ hostUp' = FALSE /\ asked' = asked /\ replies' = replies
    BY <1>10 DEF Shutdown, serveVars
  <2>2. Service!Leave
    BY <2>1 DEF Service!Leave
  <2>3. QED
    BY <2>2 DEF Service!Next
<1>11. CASE StartFailed \/ OnData \/ OnDaemonLost \/ \E c \in Calls : LocalDone(c)
  <2>1. hostUp /\ UNCHANGED <<hostUp, asked>>
    BY <1>11 DEF StartFailed, OnData, OnDaemonLost, LocalDone, hostVars
  <2>2. Grows
    BY <1>11, StartFailedStep, OnDataStep, OnDaemonLostStep, LocalDoneStep
  <2>3. Service!Answer
    BY <1>4, <2>1, <2>2
  <2>4. QED
    BY <2>3 DEF Service!Next
<1>12. CASE \/ Connected \/ EngineReady \/ DaemonReads \/ DaemonDies \/ UNCHANGED vars
            \/ \E c \in Calls : DaemonAnswers(c)
  <2>1. UNCHANGED hostVars /\ replies' = replies
    BY <1>12 DEF Connected, EngineReady, DaemonReads, DaemonDies, DaemonAnswers, vars, serveVars
  <2>2. QED
    BY <1>5, <2>1 DEF hostVars
<1>13. QED
  BY <1>6, <1>7, <1>8, <1>9, <1>10, <1>11, <1>12 DEF Next, Host, Service!Next

\* The safety half of the promise of HostService: what the host sees of the proxy is
\* a behaviour of the service, whatever becomes of the daemon.
THEOREM ServesAsPromised == Spec => Service!Init /\ [][Service!Next]_Service!hostVars
<1>1. Init => Service!Init
  BY DEF Init, Service!Init
<1>2. QED
  BY <1>1, StepOfService, Invariance, PTL DEF Spec

=============================================================================
