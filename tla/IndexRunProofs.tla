---------------------------- MODULE IndexRunProofs ----------------------------
(***************************************************************************)
(* Proofs about IndexRun: what is resolved was stored, the rows are        *)
(* admitted in order, the log stays within its bound, and a run that       *)
(* returns, or the open after a crash, leaves schema, full-text index,     *)
(* threads and timers as they should be.                                   *)
(***************************************************************************)
EXTENDS IndexRun, FiniteSetTheorems, TLAPS

-----------------------------------------------------------------------------
(* The inductive invariant, in parts.                                      *)

Loading == {"load", "parked", "below"}
Folding == {"fold", "folding"}
Batching == {"batch", "await", "admit", "remove", "unwind"}
Healed == {"crashed", "torn", "healTriggers", "healIndexes", "opened"}
Phases == {"begin", "drain", "closing", "endIndexes", "endNodes", "endTriggers", "resolve",
           "restore", "settle", "returned"} \cup Loading \cup Folding \cup Batching \cup Healed

Messages == {Open, Drain, Close} \cup [type : {"bundle"}, file : Files]
Answers == {"ready", "ack", "error", "drained"}
Parts == Nat \X Nat

SequencesOK ==
    /\ todo \in Seq(Files) /\ again \in Seq(Files) /\ sent \in Seq(Files) /\ stored \in Seq(Files)
    /\ inbox \in Seq(Messages) /\ answers \in Seq(Answers)

\* Only the window of a fresh database has indexes.
DropsOK == drops \in Seq(IF "fresh" \in setting THEN Triggers \cup Indexes ELSE Triggers)

TypeOK ==
    /\ setting \in Settings /\ pc \in Phases /\ SequencesOK /\ DropsOK
    /\ retrying \in BOOLEAN /\ outcome \in {"ok", "aborted", "threw"}
    /\ indexes \subseteq Indexes /\ triggers \subseteq Triggers /\ broken \in BOOLEAN
    /\ guest \in {"out", "rebuilt", "synced", "done"}
    /\ thread \in {"none", "running", "died", "stopped", "exited"}
    /\ errored \in BOOLEAN /\ connected \in BOOLEAN /\ firstError \in BOOLEAN /\ below \in BOOLEAN
    /\ closing \in BOOLEAN /\ outstanding \in Nat
    /\ drained \in {"none", "waiting", "resolved", "rejected"}

\* The worker of the writer lives in the first pass over the files of a fresh
\* database, and only then.
Living ==
    /\ pc = "begin" => thread = "none" /\ ~retrying /\ stored = <<>> /\ sent = <<>>
    /\ thread \notin {"none", "exited"} =>
          "worker" \in setting /\ ~retrying /\ pc \in Loading \cup {"drain", "closing"}
    /\ pc \in {"below", "drain"} => UsesWriter

\* The bundles that the worker has not stored, after Open and before Drain.
Opening == inbox # <<>> /\ Head(inbox) = Open
First == IF Opening THEN 1 ELSE 0
Left == Len(sent) - Len(stored)

Queued ==
    /\ Len(stored) <= Len(sent)
    /\ \A i \in 1..Len(stored) : stored[i] = sent[i]
    /\ Len(inbox) >= First + Left
    /\ \A i \in 1..Left : inbox[First + i] = Bundle(sent[Len(stored) + i])
    /\ \A i \in 1..Len(inbox) : i > First + Left => inbox[i] = Drain /\ pc = "drain"

Failing == firstError \/ "error" \in ToSet(answers)

\* Before the drain is asked for there is none, before the writer is closed no one closes it.
Undrained ==
    pc \in {"begin"} \cup Loading /\ ~retrying =>
       /\ drained = "none" /\ "drained" \notin ToSet(answers)
       /\ \A i \in 1..Len(inbox) : inbox[i] # Drain

Unclosed ==
    pc \in {"begin", "drain"} \cup Loading /\ ~retrying => \A i \in 1..Len(inbox) : inbox[i] # Close

Sending == pc \in Loading \cup {"drain"} /\ thread = "running" /\ ~Failing => Queued

\* The drain is the last of the messages, and of the answers.
Draining ==
    pc = "drain" =>
       /\ \A i \in 1..Len(inbox) : inbox[i] = Drain => i = Len(inbox)
       /\ "drained" \in ToSet(answers) =>
            /\ inbox = <<>> /\ \A i \in 1..Len(answers) : answers[i] = "drained" => i = Len(answers)
            /\ (Failing \/ stored = sent)
       /\ drained = "resolved" => inbox = <<>> /\ stored = sent

Complete ==
    outcome = "ok" =>
       /\ pc = "closing" => stored = sent /\ \A i \in 1..Len(inbox) : inbox[i] = Close
       /\ pc \in Loading /\ ~UsesWriter => stored = sent
       /\ pc \notin {"begin", "drain", "closing"} \cup Loading \cup Healed => stored = sent

Storing == Undrained /\ Unclosed /\ Sending /\ Draining /\ Complete

\* The schema, the full-text index and the pool.
Restored ==
    /\ "nodes_ai" \in triggers /\ guest = "out" => fts = ToSet(stored)
    /\ pc \in {"begin", "endTriggers", "healTriggers"} => fts = ToSet(stored)
    /\ pc \in {"resolve", "restore", "settle", "returned"} \cup Folding \cup Batching /\ ~broken =>
          fts = ToSet(stored) /\ (drops = <<>> => triggers = Triggers)
    /\ pc \in {"healIndexes", "opened"} => triggers = Triggers
    /\ pc = "opened" => indexes = Indexes
    /\ pc \in {"begin", "drain", "closing", "endIndexes"} \cup Loading /\ "fresh" \notin setting =>
          indexes = Indexes
    /\ pc \in {"endNodes", "endTriggers", "resolve", "settle", "returned"} \cup Folding
          /\ ~broken /\ drops = <<>> => indexes = Indexes
    /\ DOMAIN resolver = Resolvers
    /\ pool = "none" => \A w \in Resolvers : resolver[w] \in {"none", "dead"}
    /\ pool # "none" => pc \in Batching
    /\ pc = "returned" => Idle /\ ~timer

\* The rows.
Admitted == IF edges = <<>> THEN 0 ELSE edges[Len(edges)][2]

Contiguous(s, from) == \A i \in DOMAIN s : s[i][1] = IF i = 1 THEN from ELSE s[i - 1][2] + 1

RowsTypeOK ==
    /\ cursor \in 0..NRefs /\ pending \subseteq 1..NRefs
    /\ edges \in Seq(Parts) /\ batch \in Seq(Parts)
    /\ nextId \in Nat /\ waiting \subseteq Nat /\ poolFailed \in BOOLEAN
    /\ posted \cup finished \subseteq Nat \X Resolvers \X Parts
    /\ results \in Seq(Nat \X Parts)

\* The chunks of the batch that runs: each is in flight, as the part of the batch that
\* its id says, or has its result.
InFlight ==
    LET n == ChunkCount(FirstRow, LastRow)
        first == nextId - n
        ids == first..(nextId - 1)
        ChunkOf(id) == Chunk(FirstRow, LastRow, id - first + 1)
    IN  /\ \A t \in posted \cup finished : t[1] >= first => t[3] = ChunkOf(t[1])
        /\ \A k \in DOMAIN results : results[k][1] \in ids /\ results[k][2] = ChunkOf(results[k][1])
        /\ \/ /\ waiting \subseteq ids /\ Len(results) + Cardinality(waiting) = n
              /\ \A i \in ids : i \in waiting \/ \E k \in DOMAIN results : results[k][1] = i
           \/ waiting = {} /\ Len(results) < n

Rows ==
    /\ Contiguous(edges, 1)
    /\ \A r \in 1..NRefs : r \in pending \/ r <= Admitted
    /\ pc \notin {"remove", "unwind", "restore", "settle", "returned"} \cup Healed => Admitted = cursor
    /\ pc \in {"await", "admit", "remove"} => cursor < NRefs
    /\ pc = "admit" => batch # <<>> /\ Contiguous(batch, FirstRow) /\ batch[Len(batch)][2] = LastRow
    /\ pc = "remove" => Admitted = LastRow
    /\ \A t \in posted \cup finished : t[1] < nextId
    /\ pc = "await" => nextId >= ChunkCount(FirstRow, LastRow) /\ InFlight

\* The log.
Room == IF "worker" \in setting THEN Window ELSE 1

LogTypeOK ==
    /\ {frames, copied, size, baseline, snapshot, passes} \subseteq Nat
    /\ pause \in BOOLEAN /\ gaveUp \in BOOLEAN /\ timer \in BOOLEAN
    /\ inflight \in {"none", "fire", "pause"} /\ row \in {"none", "full", "part", "null"}
    /\ copied <= frames /\ snapshot <= frames /\ frames <= size /\ baseline <= size

\* Without a valve nothing of it moves.
Unvalved ==
    "valve" \notin setting /\ pc \notin Healed =>
       Growth = OldFrames /\ ~timer /\ ~pause /\ inflight = "none"

Unstarted == pc = "begin" => inbox = <<>> /\ answers = <<>> /\ outstanding = 0 /\ ~connected

Grown ==
    "valve" \in setting /\ ~gaveUp /\ pc \in {"begin", "drain", "closing"} \cup Loading =>
       Growth <= Larger(OldFrames, Hard + Room)

\* How many bundles the worker has handled when it is through with message i.
Ahead(i) == i - First

\* The log has room for every bundle that is queued.
Reserved ==
    /\ \A i \in 1..Len(inbox) : inbox[i] = Open => i = 1
    /\ thread = "running" =>
          \A i \in 1..Len(inbox) : inbox[i].type = "bundle" =>
             /\ Ahead(i) <= Window
             /\ "valve" \in setting /\ ~gaveUp => Growth + Ahead(i) <= Hard + Window

Roomy ==
    UsesWriter /\ ~firstError /\ (pc \in {"load", "parked"} \/ (pc = "below" /\ ~below)) =>
       outstanding < Window

\* Every bundle that was sent is queued or answered, or no longer outstanding.
Tally ==
    /\ \A i \in 1..Len(answers) : answers[i] = "ready" => i = 1
    /\ \/ ~connected /\ Opening /\ answers = <<>> /\ Len(inbox) <= outstanding + 1
       \/ /\ ~connected /\ ~Opening /\ answers # <<>> /\ Head(answers) = "error"
          /\ Len(inbox) + Len(answers) <= outstanding + 1
       \/ /\ connected /\ ~Opening
          /\ Len(inbox) + Len(answers) <=
                outstanding + IF answers # <<>> /\ Head(answers) = "ready" THEN 1 ELSE 0

Counted == pc \in Loading /\ thread = "running" /\ ~firstError => Tally

\* What a pause that has folded the log leaves to the bundles on their way.
Paused ==
    pc = "parked" /\ ~pause /\ ~gaveUp =>
       /\ UsesWriter /\ thread = "running" /\ ~firstError => Growth + Len(inbox) + 1 - First <= Window
       /\ ~UsesWriter => Growth = 0

Bounded == Unvalved /\ Unstarted /\ Grown /\ Reserved /\ Roomy /\ Counted /\ Paused

-----------------------------------------------------------------------------
(* Steps.                                                                  *)

USE DEF vars, runVars, dbVars, resolutionVars, writerVars, valveVars, logVars, passVars, pauseVars,
        poolVars

\* Heads, tails and appended elements keep to the elements of a sequence.
LEMMA SeqFacts ==
    ASSUME NEW S, NEW s \in Seq(S)
    PROVE  /\ s # <<>> => Head(s) \in S /\ Tail(s) \in Seq(S)
           /\ \A x \in S : Append(s, x) \in Seq(S)
  OBVIOUS

\* What the messages to the worker are.
LEMMA MessageFacts ==
    /\ {Open, Drain, Close} \subseteq Messages /\ \A f \in Files : Bundle(f) \in Messages
    /\ \A f \in Files : Bundle(f).type = "bundle" /\ Bundle(f).file = f
    /\ Open.type = "open" /\ Drain.type = "drain" /\ Close.type = "close"
    /\ \A m \in Messages : \/ m \in {Open, Drain, Close}
                            \/ (m.type = "bundle" /\ m.file \in Files /\ m = Bundle(m.file))
<1>1. \A f \in Files : Bundle(f) \in Messages /\ Bundle(f).type = "bundle" /\ Bundle(f).file = f
  BY DEF Messages, Bundle
<1>2. \A m \in [type : {"bundle"}, file : Files] :
         m.type = "bundle" /\ m.file \in Files /\ m = Bundle(m.file)
  BY DEF Bundle
<1>3. Open.type = "open" /\ Drain.type = "drain" /\ Close.type = "close"
  BY DEF Open, Drain, Close
<1>4. {Open, Drain, Close} \subseteq Messages
  BY DEF Messages
<1>5. \A m \in Messages : m \in {Open, Drain, Close} \/ m \in [type : {"bundle"}, file : Files]
  BY DEF Messages
<1>6. QED
  BY <1>1, <1>2, <1>3, <1>4, <1>5

\* What an append and a tail hold, by positions.
LEMMA AppendFacts ==
    ASSUME NEW S, NEW s \in Seq(S), NEW x \in S, NEW t, t = Append(s, x)
    PROVE  /\ Len(s) \in Nat /\ Len(t) = Len(s) + 1 /\ t[Len(s) + 1] = x
           /\ \A i \in 1..Len(s) : t[i] = s[i]
           /\ ToSet(t) = ToSet(s) \cup {x}
<1>1. /\ Len(s) \in Nat /\ Len(t) = Len(s) + 1 /\ t[Len(s) + 1] = x
      /\ \A i \in 1..Len(s) : t[i] = s[i]
      /\ DOMAIN t = 1..(Len(s) + 1) /\ DOMAIN s = 1..Len(s)
  OBVIOUS
<1>2. QED
  BY <1>1 DEF ToSet

\* What an append adds to the set of elements.
LEMMA AppendSet ==
    ASSUME NEW S, NEW s \in Seq(S), NEW x, NEW t \in Seq(S), Len(t) = Len(s) + 1, t[Len(s) + 1] = x,
           \A i \in 1..Len(s) : t[i] = s[i]
    PROVE  ToSet(t) = ToSet(s) \cup {x}
<1>1. DOMAIN t = 1..(Len(s) + 1) /\ DOMAIN s = 1..Len(s) /\ Len(s) \in Nat
  OBVIOUS
<1>2. QED
  BY <1>1 DEF ToSet

\* What a tail holds, by positions.
LEMMA TailFacts ==
    ASSUME NEW S, NEW s \in Seq(S), s # <<>>, NEW t, t = Tail(s)
    PROVE  /\ Len(s) \in Nat /\ Len(s) >= 1 /\ Head(s) = s[1] /\ Len(t) = Len(s) - 1
           /\ \A i \in 1..(Len(s) - 1) : t[i] = s[i + 1]
           /\ ToSet(s) = {Head(s)} \cup ToSet(t)
<1>1. /\ Len(s) \in Nat /\ Len(s) >= 1 /\ Head(s) = s[1] /\ Len(t) = Len(s) - 1
      /\ \A i \in 1..(Len(s) - 1) : t[i] = s[i + 1]
      /\ DOMAIN t = 1..(Len(s) - 1) /\ DOMAIN s = 1..Len(s)
  OBVIOUS
<1>2. \A i \in 2..Len(s) : i - 1 \in 1..(Len(s) - 1) /\ s[i] = t[i - 1]
  BY <1>1
<1>3. \A i \in 1..(Len(s) - 1) : t[i] = s[i + 1] /\ i + 1 \in 1..Len(s)
  BY <1>1
<1>4. 1 \in 1..Len(s) /\ \A i \in 1..Len(s) : i = 1 \/ i \in 2..Len(s)
  BY <1>1
<1>5. ToSet(s) = {s[i] : i \in 1..Len(s)} /\ ToSet(t) = {t[i] : i \in 1..(Len(s) - 1)}
  BY <1>1 DEF ToSet
<1>6. ASSUME NEW x \in ToSet(s) PROVE x \in {Head(s)} \cup ToSet(t)
  <2>1. PICK i \in 1..Len(s) : x = s[i]
    BY <1>5
  <2>2. CASE i = 1
    BY <1>1, <2>1, <2>2
  <2>3. CASE i \in 2..Len(s)
    BY <1>2, <1>5, <2>1, <2>3
  <2>4. QED
    BY <1>4, <2>2, <2>3
<1>7. {Head(s)} \cup ToSet(t) \subseteq ToSet(s)
  BY <1>1, <1>3, <1>4, <1>5
<1>8. QED
  BY <1>1, <1>6, <1>7

\* A step keeps the elements of the queues and lists to their types.
LEMMA SequencesStep ==
    ASSUME TypeOK, [Next]_vars
    PROVE  SequencesOK'
<1>1. todo \in Seq(Files)
  BY DEF TypeOK, SequencesOK
<1>2. again \in Seq(Files)
  BY DEF TypeOK, SequencesOK
<1>3. sent \in Seq(Files)
  BY DEF TypeOK, SequencesOK
<1>4. stored \in Seq(Files)
  BY DEF TypeOK, SequencesOK
<1>5. inbox \in Seq(Messages)
  BY DEF TypeOK, SequencesOK
<1>6. answers \in Seq(Answers)
  BY DEF TypeOK, SequencesOK
<1>7. Open \in Messages /\ Drain \in Messages /\ Close \in Messages
  BY MessageFacts
<1>24. <<>> \in Seq(Files) /\ <<>> \in Seq(Messages) /\ <<>> \in Seq(Answers)
  OBVIOUS
<1>25. <<Open>> \in Seq(Messages)
  BY <1>7
<1>26. answers # <<>> => Tail(answers) \in Seq(Answers)
  BY <1>6
<1>8. todo # <<>> => Head(todo) \in Files /\ Tail(todo) \in Seq(Files)
  BY <1>1
<1>9. todo # <<>> => Bundle(Head(todo)) \in Messages
  BY <1>8, MessageFacts
<1>10. CASE BeginLoad
  <2>1. inbox' = inbox \/ inbox' = <<Open>>
    BY <1>10 DEF BeginLoad, Start
  <2>2. inbox' \in Seq(Messages)
    BY <1>5, <1>25, <2>1
  <2>3. UNCHANGED <<todo, again, sent, stored, answers>>
    BY <1>10 DEF BeginLoad, Start
  <2>4. QED
    BY <1>1, <1>2, <1>3, <1>4, <1>6, <2>2, <2>3 DEF SequencesOK
<1>11. CASE Skip
  <2>1. again' = again \/ (todo # <<>> /\ again' = Append(again, Head(todo)))
    BY <1>11 DEF Skip
  <2>2. again' \in Seq(Files)
    BY <1>2, <1>8, <2>1
  <2>3. todo # <<>> /\ todo' = Tail(todo)
    BY <1>11 DEF Skip
  <2>4. todo' \in Seq(Files)
    BY <1>1, <1>8, <2>3
  <2>5. UNCHANGED <<sent, stored, inbox, answers>>
    BY <1>11 DEF Skip
  <2>6. QED
    BY <1>3, <1>4, <1>5, <1>6, <2>2, <2>4, <2>5 DEF SequencesOK
<1>12. CASE Post
  <2>1. todo # <<>> /\ inbox' = Append(inbox, Bundle(Head(todo)))
    BY <1>12 DEF Post, MayStore, Send
  <2>2. inbox' \in Seq(Messages)
    BY <1>5, <1>9, <1>8, <2>1
  <2>3. todo # <<>> /\ sent' = Append(sent, Head(todo))
    BY <1>12 DEF Post, MayStore, Send
  <2>4. sent' \in Seq(Files)
    BY <1>3, <1>8, <2>3
  <2>5. todo # <<>> /\ todo' = Tail(todo)
    BY <1>12 DEF Post, MayStore, Send
  <2>6. todo' \in Seq(Files)
    BY <1>1, <1>8, <2>5
  <2>7. UNCHANGED <<again, stored, answers>>
    BY <1>12 DEF Post, MayStore, Send
  <2>8. QED
    BY <1>2, <1>4, <1>6, <2>2, <2>4, <2>6, <2>7 DEF SequencesOK
<1>13. CASE Store
  <2>1. todo # <<>> /\ stored' = Append(stored, Head(todo))
    BY <1>13 DEF Store, MayStore
  <2>2. stored' \in Seq(Files)
    BY <1>4, <1>8, <2>1
  <2>3. todo # <<>> /\ sent' = Append(sent, Head(todo))
    BY <1>13 DEF Store, MayStore
  <2>4. sent' \in Seq(Files)
    BY <1>3, <1>8, <2>3
  <2>5. todo # <<>> /\ todo' = Tail(todo)
    BY <1>13 DEF Store, MayStore
  <2>6. todo' \in Seq(Files)
    BY <1>1, <1>8, <2>5
  <2>7. UNCHANGED <<again, inbox, answers>>
    BY <1>13 DEF Store, MayStore
  <2>8. QED
    BY <1>2, <1>5, <1>6, <2>2, <2>4, <2>6, <2>7 DEF SequencesOK
<1>14. CASE StoreThrows
  <2>1. inbox' = inbox \/ inbox' = Append(inbox, Close)
    BY <1>14 DEF StoreThrows, CloseWriter, AskClose
  <2>2. inbox' \in Seq(Messages)
    BY <1>5, <1>7, <2>1
  <2>3. UNCHANGED <<todo, again, sent, stored, answers>>
    BY <1>14 DEF StoreThrows, CloseWriter, AskClose
  <2>4. QED
    BY <1>1, <1>2, <1>3, <1>4, <1>6, <2>2, <2>3 DEF SequencesOK
<1>15. CASE Abort
  <2>1. inbox' = inbox \/ inbox' = Append(inbox, Close)
    BY <1>15 DEF Abort, CloseWriter, AskClose
  <2>2. inbox' \in Seq(Messages)
    BY <1>5, <1>7, <2>1
  <2>3. todo' = <<>>
    BY <1>15 DEF Abort, CloseWriter, AskClose
  <2>4. todo' \in Seq(Files)
    BY <1>1, <2>3
  <2>5. UNCHANGED <<again, sent, stored, answers>>
    BY <1>15 DEF Abort, CloseWriter, AskClose
  <2>6. QED
    BY <1>2, <1>3, <1>4, <1>6, <2>2, <2>4, <2>5 DEF SequencesOK
<1>16. CASE Finish
  <2>1. inbox' = inbox \/ inbox' = Append(inbox, Drain)
    BY <1>16 DEF Finish, AskDrain
  <2>2. inbox' \in Seq(Messages)
    BY <1>5, <1>7, <2>1
  <2>3. UNCHANGED <<todo, again, sent, stored, answers>>
    BY <1>16 DEF Finish, AskDrain
  <2>4. QED
    BY <1>1, <1>2, <1>3, <1>4, <1>6, <2>2, <2>3 DEF SequencesOK
<1>17. CASE Drained
  <2>1. inbox' = inbox \/ inbox' = Append(inbox, Close)
    BY <1>17 DEF Drained, CloseWriter, AskClose
  <2>2. inbox' \in Seq(Messages)
    BY <1>5, <1>7, <2>1
  <2>3. UNCHANGED <<todo, again, sent, stored, answers>>
    BY <1>17 DEF Drained, CloseWriter, AskClose
  <2>4. QED
    BY <1>1, <1>2, <1>3, <1>4, <1>6, <2>2, <2>3 DEF SequencesOK
<1>18. CASE Closed
  <2>1. todo' = todo \/ todo' = again
    BY <1>18 DEF Closed
  <2>2. todo' \in Seq(Files)
    BY <1>1, <1>2, <2>1
  <2>3. again' = again \/ again' = <<>>
    BY <1>18 DEF Closed
  <2>4. again' \in Seq(Files)
    BY <1>2, <1>24, <2>3
  <2>5. UNCHANGED <<sent, stored, inbox, answers>>
    BY <1>18 DEF Closed
  <2>6. QED
    BY <1>3, <1>4, <1>5, <1>6, <2>2, <2>4, <2>5 DEF SequencesOK
<1>19. CASE SecondPass
  <2>1. todo' = todo \/ todo' = again
    BY <1>19 DEF SecondPass
  <2>2. todo' \in Seq(Files)
    BY <1>1, <1>2, <2>1
  <2>3. again' = again \/ again' = <<>>
    BY <1>19 DEF SecondPass
  <2>4. again' \in Seq(Files)
    BY <1>2, <1>24, <2>3
  <2>5. UNCHANGED <<sent, stored, inbox, answers>>
    BY <1>19 DEF SecondPass
  <2>6. QED
    BY <1>3, <1>4, <1>5, <1>6, <2>2, <2>4, <2>5 DEF SequencesOK
<1>20. CASE WriterRuns
  <2>1. inbox # <<>> /\ inbox' = Tail(inbox)
    BY <1>20 DEF WriterRuns, WorkerStep
  <2>2. inbox' \in Seq(Messages)
    BY <1>5, <2>1
  <2>3. stored' = stored \/ (Head(inbox).type = "bundle" /\ stored' = Append(stored, Head(inbox).file))
    BY <1>20 DEF WriterRuns, WorkerStep, HandleOpen, HandleBundle, HandleDrain, HandleClose
  <2>4. Head(inbox) \in Messages
    BY <1>5, <2>1
  <2>5. Head(inbox).type = "bundle" => Head(inbox).file \in Files
    BY <2>4, MessageFacts
  <2>6. stored' \in Seq(Files)
    BY <1>4, <2>3, <2>5
  <2>7. \/ answers' = answers
        \/ \E a \in Answers : answers' = Append(answers, a)
    BY <1>20 DEF WriterRuns, WorkerStep, HandleOpen, HandleBundle, HandleDrain, HandleClose, Reply, Answers
  <2>8. answers' \in Seq(Answers)
    BY <1>6, <2>7
  <2>9. UNCHANGED <<todo, again, sent>>
    BY <1>20 DEF WriterRuns, Elsewhere
  <2>10. QED
    BY <1>1, <1>2, <1>3, <2>2, <2>6, <2>8, <2>9 DEF SequencesOK
<1>21. CASE WriterEvents \/ WriterDies \/ Crash
  <2>1. inbox' = inbox \/ inbox' = <<>>
    BY <1>21 DEF WriterEvents, ClientStep, OnAnswer, OnError, OnExit, Terminate, WriterDies, WorkerDies, Crash
  <2>2. inbox' \in Seq(Messages)
    BY <1>5, <1>24, <2>1
  <2>3. \/ answers' = answers \/ answers' = <<>>
        \/ (answers # <<>> /\ answers' = Tail(answers))
    BY <1>21 DEF WriterEvents, ClientStep, OnAnswer, OnError, OnExit, Terminate, WriterDies, WorkerDies, Crash
  <2>4. answers' \in Seq(Answers)
    BY <1>6, <1>24, <1>26, <2>3
  <2>5. stored' = stored /\ (UNCHANGED <<todo, again, sent>> \/ (todo' = <<>> /\ again' = <<>> /\ sent' = <<>>))
    BY <1>21 DEF WriterEvents, ClientStep, OnAnswer, OnError, OnExit, Terminate, WriterDies, WorkerDies, Crash, Elsewhere
  <2>6. todo' \in Seq(Files) /\ again' \in Seq(Files) /\ sent' \in Seq(Files)
    BY <1>1, <1>2, <1>3, <1>24, <2>5
  <2>7. QED
    BY <1>4, <2>2, <2>4, <2>5, <2>6 DEF SequencesOK
<1>22. CASE \/ OpenWindow \/ OpenThrows \/ Park \/ HasRoom \/ EndLoad \/ Resolution \/ PoolReady
          \/ Settle \/ Heal \/ ValveEvents \/ PoolTimer \/ PoolEvents \/ GuestOpens \/ UNCHANGED vars
  <2>1. UNCHANGED <<todo, again, sent, stored, inbox, answers>>
    BY <1>22 DEF OpenWindow, OpenThrows, Park, HasRoom, EndLoad, EndParseLoad, EndNodeLoad, Fold, Folded, Resolution,
           BeginResolution, NextBatch, BatchAnswered, AdmitEdges, RemoveRows, BatchThrows, Unwind,
           EndResolutionLoad, PoolReady, Settle, Heal, HealNodes, HealIndexes, Healing, ValveEvents,
           PoolTimer, PoolEvents, GuestOpens, Elsewhere
  <2>2. QED
    BY <1>1, <1>2, <1>3, <1>4, <1>5, <1>6, <2>1 DEF SequencesOK
<1>23. QED
  BY <1>10, <1>11, <1>12, <1>13, <1>14, <1>15, <1>16, <1>17, <1>18, <1>19, <1>20, <1>21, <1>22
     DEF Next, Main, Load

\* A window is opened from the front of what it drops.
LEMMA DropsStep ==
    ASSUME TypeOK, [Next]_vars
    PROVE  DropsOK'
<1> DEFINE S == IF "fresh" \in setting THEN Triggers \cup Indexes ELSE Triggers
<1>1. drops \in Seq(S)
  BY DEF TypeOK, DropsOK
<1>2. CASE OpenWindow
  <2>1. drops # <<>> /\ drops' = Tail(drops) /\ setting' = setting
    BY <1>2 DEF OpenWindow
  <2>2. drops' \in Seq(S)
    BY <1>1, <2>1, SeqFacts
  <2>3. QED
    BY <2>1, <2>2 DEF DropsOK
<1>3. CASE ~OpenWindow
  <2>1. setting' = setting /\ (drops' = drops \/ drops' = <<>>)
    BY <1>3 DEF Next, Main, Load, OpenThrows, BeginLoad, Skip, Park, Post, HasRoom, Store, StoreThrows, Abort,
           Finish, Drained, Closed, SecondPass, EndLoad, EndParseLoad, EndNodeLoad, Fold, Folded, Resolution,
           BeginResolution, NextBatch, BatchAnswered, AdmitEdges, RemoveRows, BatchThrows, Unwind,
           EndResolutionLoad, PoolReady, Settle, Heal, HealNodes, HealIndexes, Healing, WriterRuns,
           WriterEvents, WriterDies, ValveEvents, PoolTimer, PoolEvents, Crash, GuestOpens, Elsewhere
  <2>2. drops' \in Seq(S)
    <3> HIDE DEF S
    <3>1. CASE drops' = drops
      BY <1>1, <3>1
    <3>2. CASE drops' = <<>>
      BY <3>2
    <3>3. QED
      BY <2>1, <3>1, <3>2
  <2>3. QED
    BY <2>1, <2>2 DEF DropsOK
<1>4. QED
  BY <1>2, <1>3

\* A step keeps the types.
LEMMA TypeStep ==
    ASSUME TypeOK, [Next]_vars
    PROVE  TypeOK'
<1>0. SequencesOK' /\ DropsOK'
  BY SequencesStep, DropsStep
<1>1. TypeOK
  OBVIOUS
<1>40. indexes # Indexes => NextIndex \in Indexes
  BY <1>1 DEF TypeOK, NextIndex
<1>43. NextTrigger \in Triggers
  BY DEF NextTrigger, Triggers
<1>2. CASE BeginLoad
  <2>1. triggers' \subseteq Triggers
    BY <1>1, <1>2 DEF TypeOK, BeginLoad
  <2>2. indexes' \subseteq Indexes
    BY <1>1, <1>2 DEF TypeOK, BeginLoad
  <2>3. pc' \in Phases
    BY <1>1, <1>2 DEF TypeOK, BeginLoad, Phases, Loading
  <2>4. thread' \in {"none", "running", "died", "stopped", "exited"}
    BY <1>1, <1>2 DEF TypeOK, BeginLoad, Start
  <2>5. UNCHANGED <<errored, connected, firstError, below, closing, outstanding, drained>>
    BY <1>1, <1>2 DEF TypeOK, BeginLoad, Start
  <2>6. UNCHANGED <<setting, retrying, outcome, broken, guest>>
    BY <1>1, <1>2 DEF TypeOK, BeginLoad, Start
  <2>7. QED
    BY <1>1, <1>0, <2>1, <2>2, <2>3, <2>4, <2>5, <2>6 DEF TypeOK
<1>3. CASE Skip
  BY <1>1, <1>3, <1>0 DEF TypeOK, Phases, Loading, Folding, Batching, Healed, Skip
<1>4. CASE Park
  BY <1>1, <1>4, <1>0 DEF TypeOK, Phases, Loading, Folding, Batching, Healed, Park, Pause
<1>5. CASE Post
  BY <1>1, <1>5, <1>0 DEF TypeOK, Phases, Loading, Folding, Batching, Healed, Post, MayStore,
         UsesWriter, Send, Refused
<1>6. CASE HasRoom
  BY <1>1, <1>6, <1>0 DEF TypeOK, Phases, Loading, Folding, Batching, Healed, HasRoom
<1>7. CASE Store
  BY <1>1, <1>7, <1>0 DEF TypeOK, Phases, Loading, Folding, Batching, Healed, Store, MayStore,
         UsesWriter, Synchronise, Write, Commit
<1>8. CASE StoreThrows
  <2>1. closing' \in BOOLEAN
    BY <1>1, <1>8 DEF TypeOK, StoreThrows, CloseWriter, AskClose
  <2>2. outcome' \in {"ok", "aborted", "threw"} /\ pc' \in Phases
    BY <1>1, <1>8 DEF TypeOK, StoreThrows, CloseWriter, AskClose, Phases, Loading, Folding, Healed
  <2>3. UNCHANGED <<setting, retrying, indexes, triggers, broken, guest, thread, drained>>
    BY <1>1, <1>8 DEF StoreThrows, CloseWriter, AskClose
  <2>4. UNCHANGED <<errored, connected, firstError, below, outstanding>>
    BY <1>1, <1>8 DEF StoreThrows, CloseWriter, AskClose
  <2>5. QED
    BY <1>1, <1>0, <2>1, <2>2, <2>3, <2>4 DEF TypeOK
<1>9. CASE Abort
  <2>1. closing' \in BOOLEAN
    BY <1>1, <1>9 DEF TypeOK, Abort, CloseWriter, AskClose
  <2>2. outcome' \in {"ok", "aborted", "threw"} /\ pc' \in Phases
    BY <1>1, <1>9 DEF TypeOK, Abort, CloseWriter, AskClose, Phases, Loading, Folding, Healed
  <2>3. UNCHANGED <<setting, retrying, indexes, triggers, broken, guest, thread, drained>>
    BY <1>1, <1>9 DEF Abort, CloseWriter, AskClose
  <2>4. UNCHANGED <<errored, connected, firstError, below, outstanding>>
    BY <1>1, <1>9 DEF Abort, CloseWriter, AskClose
  <2>5. QED
    BY <1>1, <1>0, <2>1, <2>2, <2>3, <2>4 DEF TypeOK
<1>10. CASE Finish
  BY <1>1, <1>10, <1>0 DEF TypeOK, Phases, Loading, Folding, Batching, Healed, Finish, UsesWriter,
         AskDrain, Refused
<1>11. CASE Drained
  <2>1. closing' \in BOOLEAN
    BY <1>1, <1>11 DEF TypeOK, Drained, CloseWriter, AskClose
  <2>2. outcome' \in {"ok", "aborted", "threw"} /\ pc' \in Phases
    BY <1>1, <1>11 DEF TypeOK, Drained, CloseWriter, AskClose, Phases, Loading, Folding, Healed
  <2>3. UNCHANGED <<setting, retrying, indexes, triggers, broken, guest, thread, drained>>
    BY <1>1, <1>11 DEF Drained, CloseWriter, AskClose
  <2>4. UNCHANGED <<errored, connected, firstError, below, outstanding>>
    BY <1>1, <1>11 DEF Drained, CloseWriter, AskClose
  <2>5. QED
    BY <1>1, <1>0, <2>1, <2>2, <2>3, <2>4 DEF TypeOK
<1>12. CASE Closed
  <2>1. retrying' \in BOOLEAN
    BY <1>1, <1>12 DEF TypeOK, Closed
  <2>2. pc' \in Phases
    BY <1>1, <1>12 DEF TypeOK, Closed, Phases, Loading, Folding, Healed
  <2>3. UNCHANGED <<setting, outcome, indexes, triggers, broken, guest, thread, drained, closing>>
    BY <1>1, <1>12 DEF Closed
  <2>4. UNCHANGED <<errored, connected, firstError, below, outstanding>>
    BY <1>1, <1>12 DEF Closed
  <2>5. QED
    BY <1>1, <1>0, <2>1, <2>2, <2>3, <2>4 DEF TypeOK
<1>13. CASE SecondPass
  <2>1. retrying' \in BOOLEAN
    BY <1>1, <1>13 DEF TypeOK, SecondPass
  <2>2. pc' \in Phases
    BY <1>1, <1>13 DEF TypeOK, SecondPass, Phases, Loading, Folding, Healed
  <2>3. UNCHANGED <<setting, outcome, indexes, triggers, broken, guest, thread, drained, closing>>
    BY <1>1, <1>13 DEF SecondPass
  <2>4. UNCHANGED <<errored, connected, firstError, below, outstanding>>
    BY <1>1, <1>13 DEF SecondPass
  <2>5. QED
    BY <1>1, <1>0, <2>1, <2>2, <2>3, <2>4 DEF TypeOK
<1>14. CASE EndParseLoad
  <2>1. broken' \in BOOLEAN
    BY <1>1, <1>14 DEF TypeOK, EndParseLoad
  <2>2. outcome' \in {"ok", "aborted", "threw"} /\ pc' \in Phases
    BY <1>1, <1>14 DEF TypeOK, EndParseLoad, Phases, Loading, Folding, Healed
  <2>3. indexes' \subseteq Indexes
    BY <1>1, <1>14, <1>40 DEF TypeOK, EndParseLoad
  <2>4. UNCHANGED <<setting, retrying, triggers, guest, thread, drained, closing>>
    BY <1>1, <1>14 DEF EndParseLoad
  <2>5. UNCHANGED <<errored, connected, firstError, below, outstanding>>
    BY <1>1, <1>14 DEF EndParseLoad
  <2>6. QED
    BY <1>1, <1>0, <2>1, <2>2, <2>3, <2>4, <2>5 DEF TypeOK
<1>15. CASE EndNodeLoad
  <2>1. broken' \in BOOLEAN /\ triggers' \subseteq Triggers
    BY <1>1, <1>15, <1>43 DEF TypeOK, EndNodeLoad, Rebuild
  <2>2. outcome' \in {"ok", "aborted", "threw"} /\ pc' \in Phases
    BY <1>1, <1>15 DEF TypeOK, EndNodeLoad, Rebuild, Phases, Loading, Folding, Healed
  <2>3. UNCHANGED <<setting, indexes, retrying, guest, thread, drained, closing>>
    BY <1>1, <1>15 DEF EndNodeLoad, Rebuild
  <2>4. UNCHANGED <<errored, connected, firstError, below, outstanding>>
    BY <1>1, <1>15 DEF EndNodeLoad, Rebuild
  <2>5. QED
    BY <1>1, <1>0, <2>1, <2>2, <2>3, <2>4 DEF TypeOK
<1>16. CASE Fold
  BY <1>1, <1>16, <1>0 DEF TypeOK, Phases, Loading, Folding, Batching, Healed, Fold, Pause,
         AfterFold
<1>17. CASE Folded
  BY <1>1, <1>17, <1>0 DEF TypeOK, Phases, Loading, Folding, Batching, Healed, Folded, AfterFold
<1>18. CASE BeginResolution
  BY <1>1, <1>18, <1>0 DEF TypeOK, Phases, Loading, Folding, Batching, Healed, BeginResolution,
         Create
<1>19. CASE NextBatch
  BY <1>1, <1>19, <1>0 DEF TypeOK, Phases, Loading, Folding, Batching, Healed, NextBatch,
         ResolveBatch, Destroy
<1>20. CASE BatchAnswered
  BY <1>1, <1>20, <1>0 DEF TypeOK, Phases, Loading, Folding, Batching, Healed, BatchAnswered,
         Destroy
<1>21. CASE AdmitEdges
  BY <1>1, <1>21, <1>0 DEF TypeOK, Phases, Loading, Folding, Batching, Healed, AdmitEdges, Write,
         Commit
<1>22. CASE RemoveRows
  BY <1>1, <1>22, <1>0 DEF TypeOK, Phases, Loading, Folding, Batching, Healed, RemoveRows, Write,
         Commit
<1>23. CASE BatchThrows
  BY <1>1, <1>23, <1>0 DEF TypeOK, Phases, Loading, Folding, Batching, Healed, BatchThrows
<1>24. CASE Unwind
  BY <1>1, <1>24, <1>0 DEF TypeOK, Phases, Loading, Folding, Batching, Healed, Unwind, Destroy
<1>25. CASE EndResolutionLoad
  <2>1. broken' \in BOOLEAN
    BY <1>1, <1>25 DEF TypeOK, EndResolutionLoad
  <2>2. outcome' \in {"ok", "aborted", "threw"} /\ pc' \in Phases
    BY <1>1, <1>25 DEF TypeOK, EndResolutionLoad, Phases, Loading, Folding, Healed
  <2>3. indexes' \subseteq Indexes
    BY <1>1, <1>25, <1>40 DEF TypeOK, EndResolutionLoad
  <2>4. UNCHANGED <<setting, retrying, triggers, guest, thread, drained, closing>>
    BY <1>1, <1>25 DEF EndResolutionLoad
  <2>5. UNCHANGED <<errored, connected, firstError, below, outstanding>>
    BY <1>1, <1>25 DEF EndResolutionLoad
  <2>6. QED
    BY <1>1, <1>0, <2>1, <2>2, <2>3, <2>4, <2>5 DEF TypeOK
<1>26. CASE PoolReady
  BY <1>1, <1>26, <1>0 DEF TypeOK, Phases, Loading, Folding, Batching, Healed, PoolReady, Destroy
<1>27. CASE Settle
  BY <1>1, <1>27, <1>0 DEF TypeOK, Phases, Loading, Folding, Batching, Healed, Settle
<1>28. CASE HealNodes
  <2>1. triggers' \subseteq Triggers
    BY <1>1, <1>28, <1>43 DEF TypeOK, HealNodes, Rebuild, Healing
  <2>2. pc' \in Phases
    BY <1>1, <1>28 DEF TypeOK, HealNodes, Rebuild, Healing, Phases, Loading, Folding, Healed
  <2>3. UNCHANGED <<setting, outcome, retrying, indexes, broken, guest, thread, drained, closing>>
    BY <1>1, <1>28 DEF HealNodes, Rebuild, Healing
  <2>4. UNCHANGED <<errored, connected, firstError, below, outstanding>>
    BY <1>1, <1>28 DEF HealNodes, Rebuild, Healing
  <2>5. QED
    BY <1>1, <1>0, <2>1, <2>2, <2>3, <2>4 DEF TypeOK
<1>29. CASE HealIndexes
  <2>1. indexes' \subseteq Indexes
    BY <1>1, <1>29, <1>40 DEF TypeOK, HealIndexes, Healing
  <2>2. pc' \in Phases
    BY <1>1, <1>29 DEF TypeOK, HealIndexes, Healing, Phases, Loading, Folding, Healed
  <2>3. UNCHANGED <<setting, outcome, retrying, triggers, broken, guest, thread, drained, closing>>
    BY <1>1, <1>29 DEF HealIndexes, Healing
  <2>4. UNCHANGED <<errored, connected, firstError, below, outstanding>>
    BY <1>1, <1>29 DEF HealIndexes, Healing
  <2>5. QED
    BY <1>1, <1>0, <2>1, <2>2, <2>3, <2>4 DEF TypeOK
<1>30. CASE WriterRuns
  BY <1>1, <1>30, <1>0 DEF TypeOK, Phases, Loading, Folding, Batching, Healed, WriterRuns,
         WorkerStep, HandleOpen, HandleBundle, HandleDrain, HandleClose, Reply, Synchronise, Write,
         Commit, Elsewhere
<1>31. CASE WriterEvents
  <2>1. errored' \in BOOLEAN /\ firstError' \in BOOLEAN /\ below' \in BOOLEAN /\ closing' \in BOOLEAN
    BY <1>1, <1>31 DEF TypeOK, WriterEvents, ClientStep, OnAnswer, SettleOne, OnError, OnExit, FailAll,
           Terminate
  <2>2. outstanding' \in Nat
    BY <1>1, <1>31 DEF TypeOK, WriterEvents, ClientStep, OnAnswer, SettleOne, OnError, OnExit, FailAll,
           Terminate
  <2>3. thread' \in {"none", "running", "died", "stopped", "exited"}
    BY <1>1, <1>31 DEF TypeOK, WriterEvents, ClientStep, OnAnswer, OnError, OnExit, Terminate
  <2>4. drained' \in {"none", "waiting", "resolved", "rejected"}
    BY <1>1, <1>31 DEF TypeOK, WriterEvents, ClientStep, OnAnswer, OnError, OnExit, FailAll, Terminate
  <2>5. UNCHANGED <<setting, pc, retrying, outcome, indexes, triggers, broken, guest, connected>>
    BY <1>31 DEF WriterEvents, ClientStep, OnAnswer, OnError, OnExit, Terminate, Elsewhere
  <2>6. QED
    BY <1>1, <1>0, <2>1, <2>2, <2>3, <2>4, <2>5 DEF TypeOK
<1>32. CASE WriterDies
  BY <1>1, <1>32, <1>0 DEF TypeOK, Phases, Loading, Folding, Batching, Healed, WriterDies,
         WorkerDies, Elsewhere
<1>33. CASE ValveEvents
  BY <1>1, <1>33, <1>0 DEF TypeOK, Phases, Loading, Folding, Batching, Healed, ValveEvents, Check,
         Begin, Fired, Rebase, NextPass, PassAnswered, CheckpointEnds, Elsewhere
<1>34. CASE PoolTimer
  BY <1>1, <1>34, <1>0 DEF TypeOK, Phases, Loading, Folding, Batching, Healed, PoolTimer, OnTimeout,
         Fail, Elsewhere
<1>35. CASE PoolEvents
  BY <1>1, <1>35, <1>0 DEF TypeOK, Phases, Loading, Folding, Batching, Healed, PoolEvents, OnResult,
         Resolves, OnReady, OnFailure, Fail, Opens, Breaks, Elsewhere
<1>36. CASE Crash
  BY <1>1, <1>36, <1>0 DEF TypeOK, Phases, Loading, Folding, Batching, Healed, Crash, Destroy
<1>37. CASE GuestOpens
  <2>1. triggers' \subseteq Triggers /\ guest' \in {"out", "rebuilt", "synced", "done"} /\ indexes' \subseteq Indexes
    BY <1>1, <1>37 DEF TypeOK, GuestOpens
  <2>2. UNCHANGED <<setting, pc, retrying, outcome, broken, errored, connected, firstError, below,
                    outstanding, thread, drained, closing>>
    BY <1>37 DEF GuestOpens, Healing
  <2>3. QED
    BY <1>1, <1>0, <2>1, <2>2 DEF TypeOK
<1>38. CASE UNCHANGED vars
  BY <1>1, <1>38, <1>0 DEF TypeOK, Phases, Loading, Folding, Batching, Healed
<1>41. CASE OpenWindow
  BY <1>1, <1>41, <1>0 DEF TypeOK, OpenWindow
<1>42. CASE OpenThrows
  BY <1>1, <1>42, <1>0 DEF TypeOK, Phases, OpenThrows
<1>39. QED
  BY <1>1, <1>2, <1>3, <1>4, <1>5, <1>6, <1>7, <1>8, <1>9, <1>10, <1>11, <1>12, <1>13, <1>14, <1>15,
     <1>16, <1>17, <1>18, <1>19, <1>20, <1>21, <1>22, <1>23, <1>24, <1>25, <1>26, <1>27, <1>28,
     <1>29, <1>30, <1>31, <1>32, <1>33, <1>34, <1>35, <1>36, <1>37, <1>38, <1>41, <1>42
     DEF Next, Main, Load, EndLoad, Resolution, Heal

\* A worker is started by the first pass of a fresh run and is gone when that pass has ended.
LEMMA LivingStep ==
    ASSUME TypeOK, Living, [Next]_vars
    PROVE  Living'
<1>1. Living
  OBVIOUS
<1>2. CASE BeginLoad
  BY <1>1, <1>2 DEF TypeOK, Living, Phases, Loading, Folding, Batching, Healed, UsesWriter,
         BeginLoad, Start
<1>3. CASE Skip
  BY <1>1, <1>3 DEF TypeOK, Living, Phases, Loading, Folding, Batching, Healed, UsesWriter, Skip
<1>4. CASE Park
  BY <1>1, <1>4 DEF TypeOK, Living, Phases, Loading, Folding, Batching, Healed, UsesWriter, Park,
         Pause
<1>5. CASE Post
  BY <1>1, <1>5 DEF TypeOK, Living, Phases, Loading, Folding, Batching, Healed, UsesWriter, Post,
         MayStore, UsesWriter, Send, Refused
<1>6. CASE HasRoom
  BY <1>1, <1>6 DEF TypeOK, Living, Phases, Loading, Folding, Batching, Healed, UsesWriter, HasRoom
<1>7. CASE Store
  BY <1>1, <1>7 DEF TypeOK, Living, Phases, Loading, Folding, Batching, Healed, UsesWriter, Store,
         MayStore, UsesWriter, Synchronise, Write, Commit
<1>8. CASE StoreThrows
  BY <1>1, <1>8 DEF TypeOK, Living, Phases, Loading, Folding, Batching, Healed, UsesWriter,
         StoreThrows, MayStore, UsesWriter, Refused, CloseWriter, AskClose
<1>9. CASE Abort
  BY <1>1, <1>9 DEF TypeOK, Living, Phases, Loading, Folding, Batching, Healed, UsesWriter, Abort,
         CloseWriter, AskClose
<1>10. CASE Finish
  BY <1>1, <1>10 DEF TypeOK, Living, Phases, Loading, Folding, Batching, Healed, UsesWriter, Finish,
         UsesWriter, AskDrain, Refused
<1>11. CASE Drained
  BY <1>1, <1>11 DEF TypeOK, Living, Phases, Loading, Folding, Batching, Healed, UsesWriter,
         Drained, CloseWriter, AskClose
<1>12. CASE Closed
  BY <1>1, <1>12 DEF TypeOK, Living, Phases, Loading, Folding, Batching, Healed, UsesWriter, Closed
<1>13. CASE SecondPass
  BY <1>1, <1>13 DEF TypeOK, Living, Phases, Loading, Folding, Batching, Healed, UsesWriter,
         SecondPass, UsesWriter
<1>14. CASE EndParseLoad
  BY <1>1, <1>14 DEF TypeOK, Living, Phases, Loading, Folding, Batching, Healed, UsesWriter,
         EndParseLoad
<1>15. CASE EndNodeLoad
  BY <1>1, <1>15 DEF TypeOK, Living, Phases, Loading, Folding, Batching, Healed, UsesWriter,
         EndNodeLoad, Rebuild
<1>16. CASE Fold
  BY <1>1, <1>16 DEF TypeOK, Living, Phases, Loading, Folding, Batching, Healed, UsesWriter, Fold,
         Pause, AfterFold
<1>17. CASE Folded
  BY <1>1, <1>17 DEF TypeOK, Living, Phases, Loading, Folding, Batching, Healed, UsesWriter, Folded,
         AfterFold
<1>18. CASE BeginResolution
  BY <1>1, <1>18 DEF TypeOK, Living, Phases, Loading, Folding, Batching, Healed, UsesWriter,
         BeginResolution, Create
<1>19. CASE NextBatch
  BY <1>1, <1>19 DEF TypeOK, Living, Phases, Loading, Folding, Batching, Healed, UsesWriter,
         NextBatch, ResolveBatch, Destroy
<1>20. CASE BatchAnswered
  BY <1>1, <1>20 DEF TypeOK, Living, Phases, Loading, Folding, Batching, Healed, UsesWriter,
         BatchAnswered, Destroy
<1>21. CASE AdmitEdges
  BY <1>1, <1>21 DEF TypeOK, Living, Phases, Loading, Folding, Batching, Healed, UsesWriter,
         AdmitEdges, Write, Commit
<1>22. CASE RemoveRows
  BY <1>1, <1>22 DEF TypeOK, Living, Phases, Loading, Folding, Batching, Healed, UsesWriter,
         RemoveRows, Write, Commit
<1>23. CASE BatchThrows
  BY <1>1, <1>23 DEF TypeOK, Living, Phases, Loading, Folding, Batching, Healed, UsesWriter,
         BatchThrows
<1>24. CASE Unwind
  BY <1>1, <1>24 DEF TypeOK, Living, Phases, Loading, Folding, Batching, Healed, UsesWriter, Unwind,
         Destroy
<1>25. CASE EndResolutionLoad
  BY <1>1, <1>25 DEF TypeOK, Living, Phases, Loading, Folding, Batching, Healed, UsesWriter,
         EndResolutionLoad
<1>26. CASE PoolReady
  BY <1>1, <1>26 DEF TypeOK, Living, Phases, Loading, Folding, Batching, Healed, UsesWriter,
         PoolReady, Destroy
<1>27. CASE Settle
  BY <1>1, <1>27 DEF TypeOK, Living, Phases, Loading, Folding, Batching, Healed, UsesWriter, Settle
<1>28. CASE HealNodes
  BY <1>1, <1>28 DEF TypeOK, Living, Phases, Loading, Folding, Batching, Healed, UsesWriter,
         HealNodes, Rebuild, Healing
<1>29. CASE HealIndexes
  BY <1>1, <1>29 DEF TypeOK, Living, Phases, Loading, Folding, Batching, Healed, UsesWriter,
         HealIndexes, Healing
<1>30. CASE WriterRuns
  BY <1>1, <1>30 DEF TypeOK, Living, Phases, Loading, Folding, Batching, Healed, UsesWriter,
         WriterRuns, WorkerStep, HandleOpen, HandleBundle, HandleDrain, HandleClose, Reply,
         Synchronise, Write, Commit, Elsewhere
<1>31. CASE WriterEvents
  BY <1>1, <1>31 DEF TypeOK, Living, Phases, Loading, Folding, Batching, Healed, UsesWriter,
         WriterEvents, ClientStep, OnAnswer, SettleOne, OnError, OnExit, FailAll, Terminate,
         Elsewhere
<1>32. CASE WriterDies
  BY <1>1, <1>32 DEF TypeOK, Living, Phases, Loading, Folding, Batching, Healed, UsesWriter,
         WriterDies, WorkerDies, Elsewhere
<1>33. CASE ValveEvents
  BY <1>1, <1>33 DEF TypeOK, Living, Phases, Loading, Folding, Batching, Healed, UsesWriter,
         ValveEvents, Check, Begin, Fired, Rebase, NextPass, PassAnswered, CheckpointEnds, Elsewhere
<1>34. CASE PoolTimer
  BY <1>1, <1>34 DEF TypeOK, Living, Phases, Loading, Folding, Batching, Healed, UsesWriter,
         PoolTimer, OnTimeout, Fail, Elsewhere
<1>35. CASE PoolEvents
  BY <1>1, <1>35 DEF TypeOK, Living, Phases, Loading, Folding, Batching, Healed, UsesWriter,
         PoolEvents, OnResult, Resolves, OnReady, OnFailure, Fail, Opens, Breaks, Elsewhere
<1>36. CASE Crash
  BY <1>1, <1>36 DEF TypeOK, Living, Phases, Loading, Folding, Batching, Healed, UsesWriter, Crash,
         Destroy
<1>37. CASE GuestOpens
  BY <1>1, <1>37 DEF TypeOK, Living, Phases, Loading, Folding, Batching, Healed, UsesWriter,
         GuestOpens, Rebuild, Healing
<1>38. CASE UNCHANGED vars
  BY <1>1, <1>38 DEF TypeOK, Living, Phases, Loading, Folding, Batching, Healed, UsesWriter
<1>41. CASE OpenWindow
  BY <1>1, <1>41 DEF Living, UsesWriter, OpenWindow
<1>42. CASE OpenThrows
  BY <1>1, <1>42 DEF TypeOK, Living, Loading, UsesWriter, OpenThrows
<1>39. QED
  BY <1>1, <1>2, <1>3, <1>4, <1>5, <1>6, <1>7, <1>8, <1>9, <1>10, <1>11, <1>12, <1>13, <1>14, <1>15,
     <1>16, <1>17, <1>18, <1>19, <1>20, <1>21, <1>22, <1>23, <1>24, <1>25, <1>26, <1>27, <1>28,
     <1>29, <1>30, <1>31, <1>32, <1>33, <1>34, <1>35, <1>36, <1>37, <1>38, <1>41, <1>42
     DEF Next, Main, Load, EndLoad, Resolution, Heal

\* The bulk windows close: what they drop is restored before a phase relies on it.
LEMMA RestoredStep ==
    ASSUME TypeOK, Living, Restored, [Next]_vars
    PROVE  Restored'
<1>1. TypeOK /\ Living /\ Restored
  OBVIOUS
<1>2. CASE BeginLoad
  BY <1>1, <1>2 DEF TypeOK, Living, Restored, Phases, Loading, Folding, Batching, Healed,
         UsesWriter, BeginLoad, Start
<1>3. CASE Skip
  BY <1>1, <1>3 DEF TypeOK, Living, Restored, Phases, Loading, Folding, Batching, Healed,
         UsesWriter, Skip
<1>4. CASE Park
  BY <1>1, <1>4 DEF TypeOK, Living, Restored, Phases, Loading, Folding, Batching, Healed,
         UsesWriter, Park, Pause
<1>5. CASE Post
  BY <1>1, <1>5 DEF TypeOK, Living, Restored, Phases, Loading, Folding, Batching, Healed,
         UsesWriter, Post, MayStore, UsesWriter, Send, Refused
<1>6. CASE HasRoom
  BY <1>1, <1>6 DEF TypeOK, Living, Restored, Phases, Loading, Folding, Batching, Healed,
         UsesWriter, HasRoom
<1>7. CASE Store
  BY <1>1, <1>7 DEF TypeOK, Living, Restored, Phases, Loading, Folding, Batching, Healed,
         UsesWriter, Store, MayStore, UsesWriter, Synchronise, Write, Commit
<1>8. CASE StoreThrows
  BY <1>1, <1>8 DEF TypeOK, Living, Restored, Phases, Loading, Folding, Batching, Healed,
         UsesWriter, StoreThrows, MayStore, UsesWriter, Refused, CloseWriter, AskClose
<1>9. CASE Abort
  BY <1>1, <1>9 DEF TypeOK, Living, Restored, Phases, Loading, Folding, Batching, Healed,
         UsesWriter, Abort, CloseWriter, AskClose
<1>10. CASE Finish
  BY <1>1, <1>10 DEF TypeOK, Living, Restored, Phases, Loading, Folding, Batching, Healed,
         UsesWriter, Finish, UsesWriter, AskDrain, Refused
<1>11. CASE Drained
  BY <1>1, <1>11 DEF TypeOK, Living, Restored, Phases, Loading, Folding, Batching, Healed,
         UsesWriter, Drained, CloseWriter, AskClose
<1>12. CASE Closed
  BY <1>1, <1>12 DEF TypeOK, Living, Restored, Phases, Loading, Folding, Batching, Healed,
         UsesWriter, Closed
<1>13. CASE SecondPass
  BY <1>1, <1>13 DEF TypeOK, Living, Restored, Phases, Loading, Folding, Batching, Healed,
         UsesWriter, SecondPass, UsesWriter
<1>14. CASE EndParseLoad
  BY <1>1, <1>14 DEF TypeOK, Living, Restored, Phases, Loading, Folding, Batching, Healed,
         UsesWriter, EndParseLoad
<1>15. CASE EndNodeLoad
  BY <1>1, <1>15 DEF TypeOK, Living, Restored, Phases, Loading, Folding, Batching, Healed,
         UsesWriter, EndNodeLoad, Rebuild
<1>16. CASE Fold
  BY <1>1, <1>16 DEF TypeOK, Living, Restored, Phases, Loading, Folding, Batching, Healed,
         UsesWriter, Fold, Pause, AfterFold
<1>17. CASE Folded
  BY <1>1, <1>17 DEF TypeOK, Living, Restored, Phases, Loading, Folding, Batching, Healed,
         UsesWriter, Folded, AfterFold
<1>18. CASE BeginResolution
  BY <1>1, <1>18 DEF TypeOK, Living, Restored, Phases, Loading, Folding, Batching, Healed,
         UsesWriter, BeginResolution, Create
<1>19. CASE NextBatch
  BY <1>1, <1>19 DEF TypeOK, Living, Restored, Phases, Loading, Folding, Batching, Healed,
         UsesWriter, NextBatch, ResolveBatch, Destroy
<1>20. CASE BatchAnswered
  BY <1>1, <1>20 DEF TypeOK, Living, Restored, Phases, Loading, Folding, Batching, Healed,
         UsesWriter, BatchAnswered, Destroy
<1>21. CASE AdmitEdges
  BY <1>1, <1>21 DEF TypeOK, Living, Restored, Phases, Loading, Folding, Batching, Healed,
         UsesWriter, AdmitEdges, Write, Commit
<1>22. CASE RemoveRows
  BY <1>1, <1>22 DEF TypeOK, Living, Restored, Phases, Loading, Folding, Batching, Healed,
         UsesWriter, RemoveRows, Write, Commit
<1>23. CASE BatchThrows
  BY <1>1, <1>23 DEF TypeOK, Living, Restored, Phases, Loading, Folding, Batching, Healed,
         UsesWriter, BatchThrows
<1>24. CASE Unwind
  BY <1>1, <1>24 DEF TypeOK, Living, Restored, Phases, Loading, Folding, Batching, Healed,
         UsesWriter, Unwind, Destroy
<1>25. CASE EndResolutionLoad
  BY <1>1, <1>25 DEF TypeOK, Living, Restored, Phases, Loading, Folding, Batching, Healed,
         UsesWriter, EndResolutionLoad
<1>26. CASE PoolReady
  BY <1>1, <1>26 DEF TypeOK, Living, Restored, Phases, Loading, Folding, Batching, Healed,
         UsesWriter, PoolReady, Destroy
<1>27. CASE Settle
  BY <1>1, <1>27 DEF TypeOK, Living, Restored, Idle, Phases, Loading, Folding, Batching, Healed,
         UsesWriter, Settle
<1>28. CASE HealNodes
  BY <1>1, <1>28 DEF TypeOK, Living, Restored, Phases, Loading, Folding, Batching, Healed,
         UsesWriter, HealNodes, Rebuild, Healing
<1>29. CASE HealIndexes
  BY <1>1, <1>29 DEF TypeOK, Living, Restored, Phases, Loading, Folding, Batching, Healed,
         UsesWriter, HealIndexes, Healing
<1>30. CASE WriterRuns
  BY <1>1, <1>30 DEF TypeOK, Living, Restored, Phases, Loading, Folding, Batching, Healed,
         UsesWriter, WriterRuns, WorkerStep, HandleOpen, HandleBundle, HandleDrain, HandleClose,
         Reply, Synchronise, Write, Commit, Elsewhere
<1>31. CASE WriterEvents
  BY <1>1, <1>31 DEF TypeOK, Living, Restored, Idle, Phases, Loading, Folding, Batching, Healed,
         UsesWriter, WriterEvents, ClientStep, OnAnswer, SettleOne, OnError, OnExit, FailAll,
         Terminate, Elsewhere
<1>32. CASE WriterDies
  BY <1>1, <1>32 DEF TypeOK, Living, Restored, Phases, Loading, Folding, Batching, Healed,
         UsesWriter, WriterDies, WorkerDies, Elsewhere
<1>33. CASE ValveEvents
  BY <1>1, <1>33 DEF TypeOK, Living, Restored, Idle, Phases, Loading, Folding, Batching, Healed,
         UsesWriter, ValveEvents, Check, Begin, Fired, Rebase, NextPass, PassAnswered,
         CheckpointEnds, Elsewhere
<1>34. CASE PoolTimer
  BY <1>1, <1>34 DEF TypeOK, Living, Restored, Idle, Phases, Loading, Folding, Batching, Healed,
         UsesWriter, PoolTimer, OnTimeout, Fail, Elsewhere
<1>35. CASE PoolEvents
  BY <1>1, <1>35 DEF TypeOK, Living, Restored, Idle, Phases, Loading, Folding, Batching, Healed,
         UsesWriter, PoolEvents, OnResult, Resolves, OnReady, OnFailure, Fail, Opens, Breaks,
         Elsewhere
<1>36. CASE Crash
  BY <1>1, <1>36 DEF TypeOK, Living, Restored, Phases, Loading, Folding, Batching, Healed,
         UsesWriter, Crash, Destroy
<1>37. CASE GuestOpens
  BY <1>1, <1>37 DEF TypeOK, Living, Restored, Idle, Phases, Loading, Folding, Batching, Healed,
         UsesWriter, GuestOpens, Rebuild, Healing
<1>38. CASE UNCHANGED vars
  BY <1>1, <1>38 DEF TypeOK, Living, Restored, Idle, Phases, Loading, Folding, Batching, Healed,
         UsesWriter
<1>41. CASE OpenWindow
  <2>1. "fresh" \notin setting => Head(drops) \in Triggers
    BY <1>1, <1>41 DEF TypeOK, DropsOK, OpenWindow
  <2>2. Triggers \cap Indexes = {}
    BY DEF Triggers, Indexes, ResolutionIndexes
  <2>3. QED
    BY <1>1, <1>41, <2>1, <2>2 DEF TypeOK, Living, Restored, Idle, Loading, Folding, Batching, OpenWindow
<1>42. CASE OpenThrows
  BY <1>1, <1>42 DEF TypeOK, Living, Restored, Idle, Loading, Folding, Batching, OpenThrows
<1>39. QED
  BY <1>1, <1>2, <1>3, <1>4, <1>5, <1>6, <1>7, <1>8, <1>9, <1>10, <1>11, <1>12, <1>13, <1>14, <1>15,
     <1>16, <1>17, <1>18, <1>19, <1>20, <1>21, <1>22, <1>23, <1>24, <1>25, <1>26, <1>27, <1>28,
     <1>29, <1>30, <1>31, <1>32, <1>33, <1>34, <1>35, <1>36, <1>37, <1>38, <1>41, <1>42
     DEF Next, Main, Load, EndLoad, Resolution, Heal

\* Before the drain the queue holds nothing but what Queued lists.
LEMMA QueuedFacts ==
    ASSUME TypeOK, Queued
    PROVE  /\ First \in {0, 1} /\ Left \in Nat /\ Len(inbox) \in Nat /\ Len(stored) \in Nat
           /\ Len(sent) = Len(stored) + Left /\ Len(inbox) >= First + Left
           /\ pc # "drain" => Len(inbox) = First + Left
<1>1. inbox \in Seq(Messages) /\ sent \in Seq(Files) /\ stored \in Seq(Files)
  BY DEF TypeOK, SequencesOK
<1>2. Len(inbox) \in Nat /\ Len(sent) \in Nat /\ Len(stored) \in Nat /\ First \in {0, 1}
  BY <1>1 DEF First
<1>3. Left \in Nat /\ Len(sent) = Len(stored) + Left /\ Len(inbox) >= First + Left
  BY <1>2 DEF Queued, Left
<1>4. ASSUME pc # "drain" PROVE Len(inbox) = First + Left
  <2>1. \A i \in 1..Len(inbox) : ~(i > First + Left)
    BY <1>4 DEF Queued
  <2>2. Len(inbox) = 0 \/ ~(Len(inbox) > First + Left)
    BY <1>2, <2>1
  <2>3. QED
    BY <1>2, <1>3, <2>2
<1>5. QED
  BY <1>2, <1>3, <1>4

\* The worker takes the head of the queue.
LEMMA QueuedTail ==
    ASSUME TypeOK, Queued, inbox # <<>>, inbox' = Tail(inbox), UNCHANGED <<sent, pc>>
    PROVE  /\ Head(inbox).type = "open" /\ stored' = stored => Queued'
           /\ Head(inbox).type = "bundle" /\ stored' = Append(stored, Head(inbox).file) => Queued'
           /\ Head(inbox).type = "drain" => stored = sent
           /\ Head(inbox).type = "drain" /\ stored' = stored => Queued'
<1>1. inbox \in Seq(Messages) /\ sent \in Seq(Files) /\ stored \in Seq(Files)
  BY DEF TypeOK, SequencesOK
<1>2. /\ Len(inbox) \in Nat /\ Len(inbox) >= 1 /\ Len(inbox') = Len(inbox) - 1 /\ Head(inbox) = inbox[1]
      /\ \A i \in 1..(Len(inbox) - 1) : inbox'[i] = inbox[i + 1]
  BY <1>1, TailFacts
<1>3. /\ First \in {0, 1} /\ Left \in Nat /\ Len(stored) \in Nat
      /\ Len(sent) = Len(stored) + Left /\ Len(inbox) >= First + Left
  BY QueuedFacts
<1>4. \A i \in 1..Left : inbox[First + i] = Bundle(sent[Len(stored) + i]) /\ sent[Len(stored) + i] \in Files
  <2>1. \A i \in 1..Left : inbox[First + i] = Bundle(sent[Len(stored) + i])
    BY DEF Queued
  <2>2. \A i \in 1..Left : Len(stored) + i \in 1..Len(sent)
    BY <1>3
  <2>3. \A i \in 1..Len(sent) : sent[i] \in Files
    BY <1>1
  <2>4. QED
    BY <2>1, <2>2, <2>3
<1>5. \A i \in 1..Len(inbox) : i > First + Left => inbox[i] = Drain /\ pc = "drain"
  BY DEF Queued
<1>6. /\ Open.type = "open" /\ Drain.type = "drain"
      /\ \A f \in Files : Bundle(f).type = "bundle" /\ Bundle(f).file = f
  BY MessageFacts
<1>7. \A i \in 1..Len(inbox) : i > First => inbox[i].type # "open"
  <2>1. TAKE i \in 1..Len(inbox)
  <2>2. HAVE i > First
  <2>3. CASE i > First + Left
    BY <1>5, <1>6, <2>3
  <2>4. CASE i - First \in 1..Left
    <3>1. First + (i - First) = i
      BY <1>2, <1>3
    <3>2. inbox[i] = Bundle(sent[Len(stored) + (i - First)]) /\ sent[Len(stored) + (i - First)] \in Files
      BY <1>4, <2>4, <3>1
    <3>3. QED
      BY <1>6, <3>2
  <2>5. QED
    BY <1>2, <1>3, <2>2, <2>3, <2>4
<1>8. First' = 0
  <2>1. inbox' # <<>> => Len(inbox) - 1 >= 1 /\ Head(inbox') = inbox'[1]
    BY <1>1, <1>2
  <2>2. inbox' # <<>> => Head(inbox').type # "open"
    BY <1>2, <1>3, <1>7, <2>1
  <2>3. QED
    BY <1>6, <2>2 DEF First, Opening
<1>9. Head(inbox) = Open <=> First = 1
  BY DEF First, Opening
<1>10. ASSUME Head(inbox).type = "open", stored' = stored PROVE Queued'
  <2>1. Head(inbox) = Open
    BY <1>1, <1>10, MessageFacts, SeqFacts
  <2>2. First = 1 /\ Left' = Left
    BY <1>9, <1>10, <2>1 DEF Left
  <2>3. \A i \in 1..Left : i \in 1..(Len(inbox) - 1) /\ inbox'[i] = inbox[First + i]
    BY <1>2, <1>3, <2>2
  <2>4. \A i \in 1..Len(inbox') : i > First' + Left' => i + 1 \in 1..Len(inbox) /\ i + 1 > First + Left
    BY <1>2, <1>3, <1>8, <2>2
  <2>5. \A i \in 1..Len(inbox') : i > First' + Left' => inbox'[i] = Drain /\ pc' = "drain"
    BY <1>2, <1>5, <2>4
  <2>6. \A i \in 1..Left' : inbox'[First' + i] = Bundle(sent'[Len(stored') + i])
    BY <1>3, <1>4, <1>8, <1>10, <2>2, <2>3
  <2>7. Len(inbox') >= First' + Left' /\ Len(stored') <= Len(sent')
    BY <1>2, <1>3, <1>8, <1>10, <2>2
  <2>8. \A i \in 1..Len(stored') : stored'[i] = sent'[i]
    BY <1>10 DEF Queued
  <2>9. QED
    BY <2>5, <2>6, <2>7, <2>8 DEF Queued
<1>11. ASSUME Head(inbox).type = "bundle", stored' = Append(stored, Head(inbox).file) PROVE Queued'
  <2>1. First = 0
    BY <1>3, <1>6, <1>9, <1>11
  <2>2. Left >= 1
    BY <1>2, <1>3, <1>5, <1>6, <1>11, <2>1
  <2>3. 1 \in 1..Left /\ First + 1 = 1
    BY <1>3, <2>1, <2>2
  <2>4. inbox[1] = Bundle(sent[Len(stored) + 1]) /\ sent[Len(stored) + 1] \in Files
    BY <1>4, <2>3
  <2>5. Head(inbox).file = sent[Len(stored) + 1] /\ Head(inbox).file \in Files
    BY <1>2, <1>6, <2>4
  <2>6. /\ Len(stored') = Len(stored) + 1 /\ stored'[Len(stored) + 1] = Head(inbox).file
        /\ \A i \in 1..Len(stored) : stored'[i] = stored[i]
    BY <1>1, <1>11, <2>5, AppendFacts
  <2>7. Left' = Left - 1
    BY <1>3, <2>6 DEF Left
  <2>8. \A i \in 1..Left' : i + 1 \in 1..Left /\ i \in 1..(Len(inbox) - 1)
    BY <1>2, <1>3, <2>1, <2>7
  <2>9. \A i \in 1..Left' : inbox'[First' + i] = Bundle(sent'[Len(stored') + i])
    <3>1. TAKE i \in 1..Left'
    <3>2. inbox'[i] = inbox[i + 1] /\ inbox[First + (i + 1)] = Bundle(sent[Len(stored) + (i + 1)])
      BY <1>2, <1>4, <2>8
    <3>3. /\ First' + i = i /\ First + (i + 1) = i + 1
          /\ Len(stored') + i = Len(stored) + (i + 1)
      BY <1>3, <1>8, <2>1, <2>6, <2>7
    <3>4. QED
      BY <3>2, <3>3
  <2>10. \A i \in 1..Len(inbox') : i > First' + Left' => inbox'[i] = Drain /\ pc' = "drain"
    <3>1. \A i \in 1..Len(inbox') : i > First' + Left' => i + 1 \in 1..Len(inbox) /\ i + 1 > First + Left
      BY <1>2, <1>3, <1>8, <2>1, <2>7
    <3>2. QED
      BY <1>2, <1>5, <3>1
  <2>11. Len(inbox') >= First' + Left' /\ Len(stored') <= Len(sent')
    BY <1>2, <1>3, <1>8, <2>1, <2>2, <2>6, <2>7
  <2>12. \A i \in 1..Len(stored') : stored'[i] = sent'[i]
    <3>1. \A i \in 1..Len(stored) : stored[i] = sent[i]
      BY DEF Queued
    <3>2. QED
      BY <1>3, <2>5, <2>6, <3>1
  <2>13. QED
    BY <2>9, <2>10, <2>11, <2>12 DEF Queued
<1>12. ASSUME Head(inbox).type = "drain" PROVE stored = sent /\ (stored' = stored => Queued')
  <2>1. First = 0
    BY <1>3, <1>6, <1>9, <1>12
  <2>2. Left = 0
    <3>1. ASSUME Left >= 1 PROVE FALSE
      <4>1. 1 \in 1..Left /\ First + 1 = 1
        BY <1>3, <2>1, <3>1
      <4>2. QED
        BY <1>2, <1>4, <1>6, <1>12, <4>1
    <3>2. QED
      BY <1>3, <3>1
  <2>3. Len(stored) = Len(sent) /\ \A i \in 1..Len(stored) : stored[i] = sent[i]
    BY <1>3, <2>2 DEF Queued
  <2>4. stored = sent
    BY <1>1, <2>3
  <2>5. ASSUME stored' = stored PROVE Queued'
    <3>1. Left' = 0
      BY <2>2, <2>5 DEF Left
    <3>2. \A i \in 1..Len(inbox') : i + 1 \in 1..Len(inbox) /\ i + 1 > First + Left
      BY <1>2, <2>1, <2>2
    <3>3. \A i \in 1..Len(inbox') : inbox'[i] = Drain /\ pc' = "drain"
      BY <1>2, <1>5, <3>2
    <3>4. Len(inbox') >= First' + Left' /\ Len(stored') <= Len(sent')
      BY <1>2, <1>3, <1>8, <2>3, <2>5, <3>1
    <3>5. \A i \in 1..Len(stored') : stored'[i] = sent'[i]
      BY <2>3, <2>5
    <3>6. QED
      BY <3>1, <3>3, <3>4, <3>5 DEF Queued
  <2>6. QED
    BY <2>4, <2>5
<1>13. QED
  BY <1>10, <1>11, <1>12

\* A step keeps the bundles and the drain in the order in which they were sent.
LEMMA StoringStep ==
    ASSUME TypeOK, Living, Storing, [Next]_vars
    PROVE  Storing'
<1>1. TypeOK /\ Living /\ Storing
  OBVIOUS
<1>2. CASE BeginLoad
  <2>1. /\ thread = "none" /\ ~retrying /\ stored = <<>> /\ sent = <<>> /\ retrying' = retrying
        /\ pc = "begin" /\ pc' = "load" /\ UNCHANGED <<answers, stored, sent, drained, firstError, outcome>>
    BY <1>1, <1>2 DEF Living, BeginLoad, Start
  <2>2. CASE UNCHANGED <<thread, inbox>>
    BY <1>1, <2>1, <2>2 DEF Storing, Undrained, Unclosed, Sending, Draining, Complete, Loading, Healed
  <2>3. CASE inbox' = <<Open>>
    <3>1. Len(inbox') = 1 /\ inbox'[1] = Open /\ inbox' # <<>> /\ Head(inbox') = Open
      BY <2>3
    <3>2. Queued'
      BY <2>1, <3>1 DEF Queued, Opening, First, Left
    <3>3. Open # Drain /\ Open # Close
      BY MessageFacts
    <3>4. QED
      BY <1>1, <2>1, <3>1, <3>2, <3>3 DEF Storing, Undrained, Unclosed, Sending, Draining, Complete, Loading, Healed
  <2>4. QED
    BY <1>2, <2>2, <2>3 DEF BeginLoad, Start
<1>3. CASE Skip
  BY <1>1, <1>3 DEF TypeOK, Living, Storing, Undrained, Unclosed, Sending, Draining, Complete, Queued, Opening, First, Left, Failing, Phases, Loading, Folding, Batching,
         Healed, UsesWriter, Skip
<1>4. CASE Park
  BY <1>1, <1>4 DEF TypeOK, Living, Storing, Undrained, Unclosed, Sending, Draining, Complete, Queued, Opening, First, Left, Failing, Phases, Loading, Folding, Batching,
         Healed, UsesWriter, Park, Pause
<1>5. CASE Post
  <2> DEFINE b == Bundle(Head(todo))
  <2>1. /\ Head(todo) \in Files /\ b \in Messages /\ b # Open /\ b # Drain /\ b # Close
        /\ inbox \in Seq(Messages) /\ sent \in Seq(Files) /\ stored \in Seq(Files)
    <3>1. todo \in Seq(Files) /\ todo # <<>>
      BY <1>1, <1>5 DEF TypeOK, SequencesOK, Post, MayStore
    <3>2. Head(todo) \in Files
      BY <3>1, SeqFacts
    <3>3. QED
      BY <1>1, <3>2, MessageFacts DEF TypeOK, SequencesOK
  <2>2. /\ inbox' = Append(inbox, b) /\ sent' = Append(sent, Head(todo)) /\ pc \in Loading /\ pc' \in Loading
        /\ ~retrying /\ "worker" \in setting /\ ~firstError
        /\ UNCHANGED <<thread, stored, answers, drained, retrying, setting, firstError>>
    BY <1>5 DEF Post, Send, Refused, MayStore, UsesWriter, Loading
  <2>3. /\ Len(inbox') = Len(inbox) + 1 /\ inbox'[Len(inbox) + 1] = b /\ Len(inbox) \in Nat
        /\ \A i \in 1..Len(inbox) : inbox'[i] = inbox[i]
    BY <2>1, <2>2, AppendFacts
  <2>4. /\ Len(sent') = Len(sent) + 1 /\ sent'[Len(sent) + 1] = Head(todo) /\ Len(sent) \in Nat
        /\ \A i \in 1..Len(sent) : sent'[i] = sent[i]
    BY <2>1, <2>2, AppendFacts
  <2>5. First' = First
    <3>1. inbox = <<>> => inbox' # <<>> /\ Head(inbox') = b
      BY <2>1, <2>2
    <3>2. inbox # <<>> => inbox' # <<>> /\ Head(inbox') = Head(inbox)
      <4>1. ASSUME inbox # <<>> PROVE Len(inbox) >= 1 /\ inbox' # <<>>
        BY <2>1, <2>3, <4>1
      <4>2. QED
        BY <2>1, <2>2, <2>3, <4>1
    <3>3. QED
      BY <2>1, <3>1, <3>2 DEF First, Opening
  <2>6. ASSUME Queued PROVE Queued'
    <3>1. Len(stored) \in Nat /\ Len(inbox) = First + Left /\ First \in {0, 1} /\ Left \in Nat
      BY <1>1, <2>2, <2>6, QueuedFacts DEF Loading
    <3>2. Left' = Left + 1
      BY <2>1, <2>2, <2>4 DEF Left
    <3>3. \A i \in 1..Left' : inbox'[First' + i] = Bundle(sent'[Len(stored') + i])
      <4>1. TAKE i \in 1..Left'
      <4>2. CASE i = Left + 1
        <5>1. First' + i = Len(inbox) + 1 /\ Len(stored') + i = Len(sent) + 1
          BY <2>1, <2>2, <2>4, <2>5, <3>1, <4>2 DEF Left
        <5>2. QED
          BY <5>1, <2>3, <2>4
      <4>3. CASE i \in 1..Left
        <5>1. First' + i \in 1..Len(inbox) /\ Len(stored') + i \in 1..Len(sent) /\ First' + i = First + i
              /\ Len(stored') + i = Len(stored) + i
          BY <2>1, <2>2, <2>4, <2>5, <3>1, <4>3 DEF Left
        <5>2. QED
          BY <5>1, <2>3, <2>4, <2>6, <4>3 DEF Queued
      <4>4. QED
        BY <3>1, <3>2, <4>1, <4>2, <4>3
    <3>4. \A i \in 1..Len(stored') : stored'[i] = sent'[i]
      BY <2>1, <2>2, <2>4, <2>6 DEF Queued
    <3>5. Len(stored') <= Len(sent') /\ Len(inbox') = First' + Left'
      BY <2>2, <2>3, <2>4, <2>5, <2>6, <3>1, <3>2 DEF Queued
    <3>6. \A i \in 1..Len(inbox') : i > First' + Left' => inbox'[i] = Drain /\ pc' = "drain"
      BY <2>3, <2>5, <3>1, <3>2, <3>5
    <3>7. QED
      BY <3>3, <3>4, <3>5, <3>6 DEF Queued
  <2>7. \A i \in 1..Len(inbox') : (i \in 1..Len(inbox) /\ inbox'[i] = inbox[i]) \/ inbox'[i] = b
    BY <2>3
  <2>8. pc' \in {"load", "below"} /\ outcome' = outcome
    BY <1>5 DEF Post
  <2>9. QED
    BY <1>1, <2>1, <2>2, <2>6, <2>7, <2>8 DEF Storing, Undrained, Unclosed, Sending, Draining, Complete, UsesWriter, Loading, Healed, Failing
<1>6. CASE HasRoom
  BY <1>1, <1>6 DEF TypeOK, Living, Storing, Undrained, Unclosed, Sending, Draining, Complete, Queued, Opening, First, Left, Failing, Phases, Loading, Folding, Batching,
         Healed, UsesWriter, HasRoom
<1>7. CASE Store
  BY <1>1, <1>7 DEF TypeOK, Living, Storing, Undrained, Unclosed, Sending, Draining, Complete, Queued, Opening, First, Left, Failing, Phases, Loading, Folding, Batching,
         Healed, UsesWriter, Store, MayStore, UsesWriter, Synchronise, Write, Commit
<1>8. CASE StoreThrows
  BY <1>1, <1>8 DEF TypeOK, Living, Storing, Undrained, Unclosed, Sending, Draining, Complete, Queued, Opening, First, Left, Failing, Phases, Loading, Folding, Batching,
         Healed, UsesWriter, StoreThrows, MayStore, UsesWriter, Refused, CloseWriter, AskClose
<1>9. CASE Abort
  BY <1>1, <1>9 DEF TypeOK, Living, Storing, Undrained, Unclosed, Sending, Draining, Complete, Queued, Opening, First, Left, Failing, Phases, Loading, Folding, Batching,
         Healed, UsesWriter, Abort, CloseWriter, AskClose
<1>10. CASE Finish
  <2>1. /\ inbox \in Seq(Messages) /\ sent \in Seq(Files) /\ stored \in Seq(Files) /\ Drain \in Messages
        /\ Drain # Open /\ Drain # Close
    BY <1>1, MessageFacts DEF TypeOK, SequencesOK
  <2>2. /\ pc = "load" /\ pc' = "drain" /\ ~retrying /\ "worker" \in setting
        /\ UNCHANGED <<thread, stored, sent, answers, outcome, retrying, setting, firstError>>
    BY <1>10 DEF Finish, AskDrain, UsesWriter
  <2>3. drained = "none" /\ "drained" \notin ToSet(answers) /\ \A i \in 1..Len(inbox) : inbox[i] # Drain
    BY <1>1, <2>2 DEF Storing, Undrained, Unclosed, Sending, Draining, Complete, Loading
  <2>4. CASE Refused /\ drained' = "rejected" /\ inbox' = inbox
    BY <1>1, <2>2, <2>3, <2>4 DEF Storing, Undrained, Unclosed, Sending, Draining, Complete, Loading, Healed, Failing, Refused
  <2>5. CASE drained' = "waiting" /\ inbox' = Append(inbox, Drain)
    <3>1. /\ Len(inbox') = Len(inbox) + 1 /\ inbox'[Len(inbox) + 1] = Drain /\ Len(inbox) \in Nat
          /\ \A i \in 1..Len(inbox) : inbox'[i] = inbox[i]
      BY <2>1, <2>5, AppendFacts
    <3>2. First' = First
      <4>1. inbox = <<>> => inbox' # <<>> /\ Head(inbox') = Drain
        BY <2>1, <2>5
      <4>2. inbox # <<>> => inbox' # <<>> /\ Head(inbox') = Head(inbox)
        BY <2>1, <2>5
      <4>3. QED
        BY <2>1, <4>1, <4>2 DEF First, Opening
    <3>3. ASSUME Queued PROVE Queued'
      <4>1. Len(stored) \in Nat /\ Len(inbox) = First + Left /\ First \in {0, 1} /\ Left \in Nat /\ Left' = Left
        BY <1>1, <2>2, <3>3, QueuedFacts DEF Left
      <4>2. \A i \in 1..Left' : inbox'[First' + i] = Bundle(sent'[Len(stored') + i])
        <5>1. \A i \in 1..Left : First + i \in 1..Len(inbox)
          BY <4>1
        <5>2. QED
          BY <2>2, <3>1, <3>2, <3>3, <4>1, <5>1 DEF Queued
      <4>3. \A i \in 1..Len(inbox') : i > First' + Left' => inbox'[i] = Drain /\ pc' = "drain"
        BY <2>2, <3>1, <3>2, <4>1
      <4>4. \A i \in 1..Len(stored') : stored'[i] = sent'[i]
        BY <2>2, <3>3 DEF Queued
      <4>5. Len(stored') <= Len(sent') /\ Len(inbox') >= First' + Left'
        BY <2>2, <3>1, <3>2, <3>3, <4>1 DEF Queued
      <4>6. QED
        BY <4>2, <4>3, <4>4, <4>5 DEF Queued
    <3>4. \A i \in 1..Len(inbox') : (i \in 1..Len(inbox) /\ inbox'[i] = inbox[i]) \/ i = Len(inbox')
      BY <3>1
    <3>5. inbox'[Len(inbox')] = Drain
      BY <3>1
    <3>6. QED
      BY <1>1, <2>1, <2>2, <2>3, <2>5, <3>3, <3>4, <3>5 DEF Storing, Undrained, Unclosed, Sending, Draining, Complete, Loading, Healed, Failing
  <2>6. QED
    BY <1>10, <2>4, <2>5 DEF Finish, AskDrain
<1>11. CASE Drained
  BY <1>1, <1>11 DEF TypeOK, Living, Storing, Undrained, Unclosed, Sending, Draining, Complete, Queued, Opening, First, Left, Failing, Phases, Loading, Folding, Batching,
         Healed, UsesWriter, Drained, CloseWriter, AskClose
<1>12. CASE Closed
  BY <1>1, <1>12 DEF TypeOK, Living, Storing, Undrained, Unclosed, Sending, Draining, Complete, Queued, Opening, First, Left, Failing, Phases, Loading, Folding, Batching,
         Healed, UsesWriter, Closed
<1>13. CASE SecondPass
  BY <1>1, <1>13 DEF TypeOK, Living, Storing, Undrained, Unclosed, Sending, Draining, Complete, Queued, Opening, First, Left, Failing, Phases, Loading, Folding, Batching,
         Healed, UsesWriter, SecondPass, UsesWriter
<1>14. CASE EndParseLoad
  BY <1>1, <1>14 DEF TypeOK, Living, Storing, Undrained, Unclosed, Sending, Draining, Complete, Queued, Opening, First, Left, Failing, Phases, Loading, Folding, Batching,
         Healed, UsesWriter, EndParseLoad
<1>15. CASE EndNodeLoad
  BY <1>1, <1>15 DEF TypeOK, Living, Storing, Undrained, Unclosed, Sending, Draining, Complete, Queued, Opening, First, Left, Failing, Phases, Loading, Folding, Batching,
         Healed, UsesWriter, EndNodeLoad, Rebuild
<1>16. CASE Fold
  BY <1>1, <1>16 DEF TypeOK, Living, Storing, Undrained, Unclosed, Sending, Draining, Complete, Queued, Opening, First, Left, Failing, Phases, Loading, Folding, Batching,
         Healed, UsesWriter, Fold, Pause, AfterFold
<1>17. CASE Folded
  BY <1>1, <1>17 DEF TypeOK, Living, Storing, Undrained, Unclosed, Sending, Draining, Complete, Queued, Opening, First, Left, Failing, Phases, Loading, Folding, Batching,
         Healed, UsesWriter, Folded, AfterFold
<1>18. CASE BeginResolution
  BY <1>1, <1>18 DEF TypeOK, Living, Storing, Undrained, Unclosed, Sending, Draining, Complete, Queued, Opening, First, Left, Failing, Phases, Loading, Folding, Batching,
         Healed, UsesWriter, BeginResolution, Create
<1>19. CASE NextBatch
  BY <1>1, <1>19 DEF TypeOK, Living, Storing, Undrained, Unclosed, Sending, Draining, Complete, Queued, Opening, First, Left, Failing, Phases, Loading, Folding, Batching,
         Healed, UsesWriter, NextBatch, ResolveBatch, Destroy
<1>20. CASE BatchAnswered
  BY <1>1, <1>20 DEF TypeOK, Living, Storing, Undrained, Unclosed, Sending, Draining, Complete, Queued, Opening, First, Left, Failing, Phases, Loading, Folding, Batching,
         Healed, UsesWriter, BatchAnswered, Destroy
<1>21. CASE AdmitEdges
  BY <1>1, <1>21 DEF TypeOK, Living, Storing, Undrained, Unclosed, Sending, Draining, Complete, Queued, Opening, First, Left, Failing, Phases, Loading, Folding, Batching,
         Healed, UsesWriter, AdmitEdges, Write, Commit
<1>22. CASE RemoveRows
  BY <1>1, <1>22 DEF TypeOK, Living, Storing, Undrained, Unclosed, Sending, Draining, Complete, Queued, Opening, First, Left, Failing, Phases, Loading, Folding, Batching,
         Healed, UsesWriter, RemoveRows, Write, Commit
<1>23. CASE BatchThrows
  BY <1>1, <1>23 DEF TypeOK, Living, Storing, Undrained, Unclosed, Sending, Draining, Complete, Queued, Opening, First, Left, Failing, Phases, Loading, Folding, Batching,
         Healed, UsesWriter, BatchThrows
<1>24. CASE Unwind
  BY <1>1, <1>24 DEF TypeOK, Living, Storing, Undrained, Unclosed, Sending, Draining, Complete, Queued, Opening, First, Left, Failing, Phases, Loading, Folding, Batching,
         Healed, UsesWriter, Unwind, Destroy
<1>25. CASE EndResolutionLoad
  BY <1>1, <1>25 DEF TypeOK, Living, Storing, Undrained, Unclosed, Sending, Draining, Complete, Queued, Opening, First, Left, Failing, Phases, Loading, Folding, Batching,
         Healed, UsesWriter, EndResolutionLoad
<1>26. CASE PoolReady
  BY <1>1, <1>26 DEF TypeOK, Living, Storing, Undrained, Unclosed, Sending, Draining, Complete, Queued, Opening, First, Left, Failing, Phases, Loading, Folding, Batching,
         Healed, UsesWriter, PoolReady, Destroy
<1>27. CASE Settle
  BY <1>1, <1>27 DEF TypeOK, Living, Storing, Undrained, Unclosed, Sending, Draining, Complete, Queued, Opening, First, Left, Failing, Phases, Loading, Folding, Batching,
         Healed, UsesWriter, Settle
<1>28. CASE HealNodes
  BY <1>1, <1>28 DEF TypeOK, Living, Storing, Undrained, Unclosed, Sending, Draining, Complete, Queued, Opening, First, Left, Failing, Phases, Loading, Folding, Batching,
         Healed, UsesWriter, HealNodes, Rebuild, Healing
<1>29. CASE HealIndexes
  BY <1>1, <1>29 DEF TypeOK, Living, Storing, Undrained, Unclosed, Sending, Draining, Complete, Queued, Opening, First, Left, Failing, Phases, Loading, Folding, Batching,
         Healed, UsesWriter, HealIndexes, Healing
<1>30. CASE WriterRuns
  <2>1. /\ thread = "running" /\ inbox # <<>> /\ inbox' = Tail(inbox)
        /\ pc \in Loading \cup {"drain", "closing"} /\ ~retrying /\ "worker" \in setting
        /\ UNCHANGED <<pc, setting, retrying, sent, outcome, firstError, drained>>
    BY <1>1, <1>30 DEF Living, WriterRuns, WorkerStep, Elsewhere
  <2>2. inbox \in Seq(Messages) /\ answers \in Seq(Answers)
    BY <1>1 DEF TypeOK, SequencesOK
  <2>3. /\ Len(inbox) \in Nat /\ Len(inbox) >= 1 /\ Len(inbox') = Len(inbox) - 1 /\ Head(inbox) = inbox[1]
        /\ \A i \in 1..(Len(inbox) - 1) : inbox'[i] = inbox[i + 1]
    BY <2>1, <2>2, TailFacts
  <2>15. 1 \in 1..Len(inbox)
    BY <2>3
  <2>4. \A i \in 1..Len(inbox') : i + 1 \in 1..Len(inbox) /\ inbox'[i] = inbox[i + 1]
    BY <2>3
  <2>5. ASSUME Queued
        PROVE  /\ Head(inbox).type = "open" /\ stored' = stored => Queued'
               /\ Head(inbox).type = "bundle" /\ stored' = Append(stored, Head(inbox).file) => Queued'
               /\ Head(inbox).type = "drain" => stored = sent
               /\ Head(inbox).type = "drain" /\ stored' = stored => Queued'
    BY <1>1, <2>1, <2>5, QueuedTail
  <2>6. Head(inbox).type = "drain" => Head(inbox) = Drain
    BY <2>1, <2>2, MessageFacts, SeqFacts
  <2>7. Head(inbox).type = "close" <=> Head(inbox) = Close
    BY <2>1, <2>2, MessageFacts, SeqFacts
  <2>8. pc = "closing" /\ outcome = "ok" => Head(inbox).type = "close"
    BY <1>1, <2>3, <2>7 DEF Storing, Complete
  <2>9. pc # "closing" => Head(inbox).type # "close"
    BY <1>1, <2>1, <2>3, <2>7, <2>15 DEF Storing, Unclosed
  <2>10. Head(inbox).type = "drain" => pc \notin Loading
    BY <1>1, <2>1, <2>3, <2>6, <2>15 DEF Storing, Undrained
  <2>11. CASE HandleClose
    <3>1. pc = "closing" /\ thread' = "stopped" /\ UNCHANGED <<stored, answers>>
      BY <2>1, <2>9, <2>11 DEF HandleClose, Loading
    <3>2. QED
      BY <1>1, <2>1, <2>4, <3>1 DEF Storing, Undrained, Unclosed, Sending, Draining, Complete, Loading,
             Healed
  <2>12. ASSUME NEW a \in Answers, answers' = Append(answers, a), thread' = thread,
                Head(inbox).type # "close",
                \/ a = "error" /\ stored' = stored
                \/ a = "ready" /\ stored' = stored /\ Head(inbox).type = "open"
                \/ /\ a = "ack" /\ Head(inbox).type = "bundle"
                   /\ stored' = Append(stored, Head(inbox).file)
                \/ a = "drained" /\ stored' = stored /\ Head(inbox).type = "drain",
                a = "drained" <=> Head(inbox).type = "drain"
         PROVE  Storing'
    <3>1. /\ ToSet(answers') = ToSet(answers) \cup {a} /\ Len(answers') = Len(answers) + 1
          /\ Len(answers) \in Nat /\ \A i \in 1..Len(answers) : answers'[i] = answers[i]
      <4>1. answers' = Append(answers, a)
        BY <2>12
      <4>2. answers \in Seq(Answers)
        BY <2>2
      <4>3. answers'[Len(answers) + 1] = a /\ answers' \in Seq(Answers)
        BY <4>1, <4>2, AppendFacts
      <4>4. Len(answers') = Len(answers) + 1
        BY <4>1, <4>2, AppendFacts
      <4>5. Len(answers) \in Nat
        BY <4>1, <4>2, AppendFacts
      <4>6. \A i \in 1..Len(answers) : answers'[i] = answers[i]
        BY <4>1, <4>2, AppendFacts
      <4>7. ToSet(answers') = ToSet(answers) \cup {a}
        BY <4>2, <4>3, <4>4, <4>6, AppendSet
      <4>8. QED
        BY <4>4, <4>5, <4>6, <4>7
    <3>2. Failing => Failing'
      BY <2>1, <3>1 DEF Failing
    <3>3. a = "error" => Failing'
      BY <3>1 DEF Failing
    <3>4. pc \in Loading \cup {"drain"} /\ ~Failing' => Queued /\ Queued'
      BY <1>1, <2>1, <2>5, <2>12, <3>2, <3>3 DEF Storing, Sending
    <3>5. Undrained'
      BY <1>1, <2>1, <2>4, <2>10, <2>12, <3>1 DEF Storing, Undrained
    <3>6. Unclosed'
      BY <1>1, <2>1, <2>4 DEF Storing, Unclosed
    <3>7. Sending'
      BY <2>1, <2>12, <3>4 DEF Sending
    <3>8. Draining'
      <4>1. SUFFICES ASSUME pc = "drain" PROVE Draining'
        BY <2>1 DEF Draining
      <4>2. \A i \in 1..Len(inbox') : inbox'[i] = Drain => i = Len(inbox')
        BY <1>1, <2>3, <2>4, <4>1 DEF Storing, Draining
      <4>3. "drained" \notin ToSet(answers) /\ drained # "resolved"
        BY <1>1, <2>1, <4>1 DEF Storing, Draining
      <4>4. CASE a = "drained"
        <5>1. Head(inbox) = Drain /\ Len(inbox) = 1
          BY <1>1, <2>3, <2>6, <2>12, <4>1, <4>4 DEF Storing, Draining
        <5>2. inbox' = <<>>
          BY <2>1, <2>2, <5>1
        <5>3. Failing' \/ stored' = sent'
          BY <2>1, <2>5, <2>12, <3>4, <4>1, <4>4
        <5>4. \A i \in 1..Len(answers) : answers[i] \in ToSet(answers)
          BY <2>2 DEF ToSet
        <5>5. \A i \in 1..Len(answers') : answers'[i] = "drained" => i = Len(answers')
          BY <3>1, <4>3, <5>4
        <5>6. QED
          BY <2>1, <4>2, <4>3, <5>2, <5>3, <5>5 DEF Draining
      <4>5. CASE a # "drained"
        BY <2>1, <3>1, <4>2, <4>3, <4>5 DEF Draining
      <4>6. QED
        BY <4>4, <4>5
    <3>9. Complete'
      BY <1>1, <2>1, <2>8, <2>12 DEF Storing, Complete, Loading, Healed, UsesWriter
    <3>10. QED
      BY <3>5, <3>6, <3>7, <3>8, <3>9 DEF Storing
  <2>13. CASE \E ok \in BOOLEAN : HandleOpen(ok) \/ HandleBundle(ok) \/ (ok /\ HandleDrain)
    BY <2>12, <2>13 DEF HandleOpen, HandleBundle, HandleDrain, Reply, Answers
  <2>14. QED
    BY <1>30, <2>11, <2>13 DEF WriterRuns, WorkerStep
<1>31. CASE WriterEvents
  <2>1. /\ inbox \in Seq(Messages) /\ answers \in Seq(Answers) /\ sent \in Seq(Files)
        /\ stored \in Seq(Files)
    BY <1>1 DEF TypeOK, SequencesOK
  <2>2. UNCHANGED <<pc, setting, retrying, sent, stored, outcome>>
    BY <1>31 DEF WriterEvents, ClientStep, OnAnswer, OnError, OnExit, Terminate, Elsewhere
  <2>3. CASE Terminate \/ OnError \/ OnExit
    <3>1. /\ UNCHANGED answers /\ (inbox' = inbox \/ (inbox' = <<>> /\ thread' = "died"))
          /\ (firstError => firstError')
          /\ (thread' = "running" => thread = "running" /\ inbox' = inbox)
          /\ (drained' = drained \/ (drained = "waiting" /\ drained' = "rejected"))
      BY <1>1, <2>3 DEF TypeOK, Terminate, OnError, OnExit, FailAll
    <3>2. Failing => Failing'
      BY <3>1 DEF Failing
    <3>3. Queued /\ inbox' = inbox => Queued'
      BY <2>2 DEF Queued, First, Left, Opening
    <3>4. inbox' = <<>> => Len(inbox') = 0
      OBVIOUS
    <3>5. Undrained' /\ Unclosed' /\ Sending'
      BY <1>1, <2>2, <3>1, <3>2, <3>3, <3>4 DEF Storing, Undrained, Unclosed, Sending
    <3>6. Draining'
      BY <1>1, <2>2, <3>1, <3>2, <3>4 DEF Storing, Draining
    <3>7. Complete'
      BY <1>1, <2>2, <3>1, <3>4 DEF Storing, Complete, UsesWriter
    <3>8. QED
      BY <3>5, <3>6, <3>7 DEF Storing
  <2>4. CASE OnAnswer
    <3>1. /\ answers # <<>> /\ answers' = Tail(answers) /\ UNCHANGED <<thread, inbox>>
          /\ firstError' = (firstError \/ Head(answers) = "error")
      BY <1>1, <2>1, <2>4 DEF TypeOK, OnAnswer
    <3>2. /\ Len(answers) >= 1 /\ Head(answers) = answers[1] /\ Len(answers') = Len(answers) - 1
          /\ Len(answers) \in Nat /\ \A i \in 1..(Len(answers) - 1) : answers'[i] = answers[i + 1]
          /\ ToSet(answers) = {Head(answers)} \cup ToSet(answers')
      BY <2>1, <3>1, TailFacts
    <3>3. Failing' <=> Failing
      BY <3>1, <3>2 DEF Failing
    <3>4. Queued' <=> Queued
      BY <2>2, <3>1 DEF Queued, First, Left, Opening
    <3>5. drained' = drained \/ (Head(answers) = "drained" /\ drained' \in {"rejected", "resolved"})
      BY <2>4 DEF OnAnswer
    <3>6. drained' = "resolved" => drained = "resolved" \/ (Head(answers) = "drained" /\ ~firstError)
      BY <2>4 DEF OnAnswer
    <3>7. Undrained' /\ Unclosed' /\ Sending'
      BY <1>1, <2>2, <3>1, <3>2, <3>3, <3>4, <3>5 DEF Storing, Undrained, Unclosed, Sending
    <3>8. Draining'
      <4>1. SUFFICES ASSUME pc = "drain" PROVE Draining'
        BY <2>2 DEF Draining
      <4>2. \A i \in 1..Len(inbox') : inbox'[i] = Drain => i = Len(inbox')
        BY <1>1, <3>1, <4>1 DEF Storing, Draining
      <4>3. ASSUME "drained" \in ToSet(answers')
            PROVE  /\ inbox' = <<>> /\ (Failing' \/ stored' = sent')
                   /\ \A i \in 1..Len(answers') : answers'[i] = "drained" => i = Len(answers')
        <5>1. /\ inbox = <<>> /\ (Failing \/ stored = sent)
              /\ \A i \in 1..Len(answers) : answers[i] = "drained" => i = Len(answers)
          BY <1>1, <3>2, <4>1, <4>3 DEF Storing, Draining
        <5>2. \A i \in 1..Len(answers') : i + 1 \in 1..Len(answers) /\ answers'[i] = answers[i + 1]
          BY <3>2
        <5>3. \A i \in 1..Len(answers') : answers'[i] = "drained" => i = Len(answers')
          BY <3>2, <5>1, <5>2
        <5>4. QED
          BY <2>2, <3>1, <3>3, <5>1, <5>3
      <4>4. ASSUME drained' = "resolved" PROVE inbox' = <<>> /\ stored' = sent'
        <5>1. CASE drained = "resolved"
          BY <1>1, <2>2, <3>1, <4>1, <5>1 DEF Storing, Draining
        <5>2. CASE Head(answers) = "drained" /\ ~firstError
          <6>1. /\ inbox = <<>> /\ (Failing \/ stored = sent)
                /\ \A i \in 1..Len(answers) : answers[i] = "drained" => i = Len(answers)
            BY <1>1, <3>2, <4>1, <5>2 DEF Storing, Draining
          <6>2. Len(answers) = 1
            BY <3>2, <5>2, <6>1
          <6>3. ToSet(answers') = {}
            BY <3>2, <6>2 DEF ToSet
          <6>4. ~Failing
            BY <3>2, <5>2, <6>3 DEF Failing
          <6>5. QED
            BY <2>2, <3>1, <6>1, <6>4
        <5>3. QED
          BY <3>6, <4>4, <5>1, <5>2
      <4>5. QED
        BY <4>2, <4>3, <4>4 DEF Draining
    <3>9. Complete'
      BY <1>1, <2>2, <3>1 DEF Storing, Complete, UsesWriter
    <3>10. QED
      BY <3>7, <3>8, <3>9 DEF Storing
  <2>5. QED
    BY <1>31, <2>3, <2>4 DEF WriterEvents, ClientStep
<1>32. CASE WriterDies
  BY <1>1, <1>32 DEF TypeOK, Living, Storing, Undrained, Unclosed, Sending, Draining, Complete, Queued, Opening, First, Left, Failing, Phases, Loading, Folding, Batching,
         Healed, UsesWriter, WriterDies, WorkerDies, Elsewhere
<1>33. CASE ValveEvents
  BY <1>1, <1>33 DEF TypeOK, Living, Storing, Undrained, Unclosed, Sending, Draining, Complete, Queued, Opening, First, Left, Failing, Phases, Loading, Folding, Batching,
         Healed, UsesWriter, ValveEvents, Check, Begin, Fired, Rebase, NextPass, PassAnswered,
         CheckpointEnds, Elsewhere
<1>34. CASE PoolTimer
  BY <1>1, <1>34 DEF TypeOK, Living, Storing, Undrained, Unclosed, Sending, Draining, Complete, Queued, Opening, First, Left, Failing, Phases, Loading, Folding, Batching,
         Healed, UsesWriter, PoolTimer, OnTimeout, Fail, Elsewhere
<1>35. CASE PoolEvents
  BY <1>1, <1>35 DEF TypeOK, Living, Storing, Undrained, Unclosed, Sending, Draining, Complete, Queued, Opening, First, Left, Failing, Phases, Loading, Folding, Batching,
         Healed, UsesWriter, PoolEvents, OnResult, Resolves, OnReady, OnFailure, Fail, Opens,
         Breaks, Elsewhere
<1>36. CASE Crash
  BY <1>1, <1>36 DEF TypeOK, Living, Storing, Undrained, Unclosed, Sending, Draining, Complete, Queued, Opening, First, Left, Failing, Phases, Loading, Folding, Batching,
         Healed, UsesWriter, Crash, Destroy
<1>37. CASE GuestOpens
  BY <1>1, <1>37 DEF TypeOK, Living, Storing, Undrained, Unclosed, Sending, Draining, Complete, Queued, Opening, First, Left, Failing, Phases, Loading, Folding, Batching,
         Healed, UsesWriter, GuestOpens, Rebuild, Healing
<1>38. CASE UNCHANGED vars
  BY <1>1, <1>38 DEF TypeOK, Living, Storing, Undrained, Unclosed, Sending, Draining, Complete, Queued, Opening, First, Left, Failing, Phases, Loading, Folding, Batching,
         Healed, UsesWriter
<1>41. CASE OpenWindow
  <2>1. UNCHANGED <<runVars, pc, outcome, writerVars>>
    BY <1>41 DEF OpenWindow
  <2>2. QED
    BY <1>1, <2>1 DEF Storing, Undrained, Unclosed, Sending, Queued, Opening, First, Left, Failing, Draining,
           Complete, Loading, Healed, UsesWriter
<1>42. CASE OpenThrows
  <2>1. pc' \in {"settle", "endNodes"} /\ outcome' = "threw"
    BY <1>42 DEF OpenThrows
  <2>2. QED
    BY <2>1 DEF Storing, Undrained, Unclosed, Sending, Draining, Complete, Loading
<1>39. QED
  BY <1>1, <1>2, <1>3, <1>4, <1>5, <1>6, <1>7, <1>8, <1>9, <1>10, <1>11, <1>12, <1>13, <1>14, <1>15,
     <1>16, <1>17, <1>18, <1>19, <1>20, <1>21, <1>22, <1>23, <1>24, <1>25, <1>26, <1>27, <1>28,
     <1>29, <1>30, <1>31, <1>32, <1>33, <1>34, <1>35, <1>36, <1>37, <1>38, <1>41, <1>42
     DEF Next, Main, Load, EndLoad, Resolution, Heal

(* The rows.                                                               *)

\* Rounding up.
LEMMA Division ==
    ASSUME NEW d \in Nat, NEW c \in Nat \ {0}
    PROVE  LET n == (d + c) \div c IN n \in Nat /\ n >= 1 /\ (n - 1) * c <= d /\ d < n * c
<1> DEFINE n == (d + c) \div c
<1>1. n \in Int
  OBVIOUS
<1>2. n * c <= d + c /\ d + c < (n + 1) * c
  OBVIOUS
<1>3. (n - 1) * c = n * c - c /\ (n + 1) * c = n * c + c
  BY <1>1
<1>4. (n - 1) * c <= d /\ d < n * c /\ n * c \in Int
  BY <1>1, <1>2, <1>3
<1>5. n >= 1
  <2>1. ASSUME n <= 0 PROVE FALSE
    <3>1. n * c <= 0
      BY <1>1, <2>1
    <3>2. QED
      BY <1>4, <3>1
  <2>2. QED
    BY <1>1, <2>1
<1>6. QED
  BY <1>1, <1>4, <1>5

\* The chunks of a batch cover its rows one after the other.
LEMMA Chunks ==
    ASSUME NEW first \in Nat, NEW last \in Nat, first <= last
    PROVE  LET n == ChunkCount(first, last) IN
           /\ n \in Nat /\ n >= 1
           /\ \A i \in 1..n : /\ Chunk(first, last, i) \in Nat \X Nat
                              /\ i = 1 => Chunk(first, last, i)[1] = first
                              /\ i > 1 => Chunk(first, last, i)[1] = Chunk(first, last, i - 1)[2] + 1
                              /\ i = n => Chunk(first, last, i)[2] = last
<1> DEFINE n == ChunkCount(first, last)
<1>1. ChunkSize \in Nat \ {0}
  BY ResolverPoolAssumption
<1>2. n \in Nat /\ n >= 1 /\ (n - 1) * ChunkSize <= last - first /\ last - first < n * ChunkSize
  BY <1>1, Division DEF ChunkCount
<1> DEFINE From(i) == first + (i - 1) * ChunkSize
<1>3. ASSUME NEW i \in 1..n
      PROVE  /\ From(i) \in Nat /\ (i - 1) * ChunkSize \in Nat
             /\ From(i) <= last
             /\ i < n => From(i + 1) = From(i) + ChunkSize /\ From(i + 1) <= last
             /\ i = n => From(i) + ChunkSize > last
  <2>1. (i - 1) * ChunkSize \in Nat /\ From(i) \in Nat
    BY <1>1, <1>2
  <2>2. (i - 1) * ChunkSize <= (n - 1) * ChunkSize
    BY <1>1, <1>2
  <2>3. i < n => i * ChunkSize <= (n - 1) * ChunkSize
    BY <1>1, <1>2
  <2>4. i * ChunkSize = (i - 1) * ChunkSize + ChunkSize /\ (i + 1) - 1 = i
    BY <1>1, <1>2
  <2>5. (n - 1) * ChunkSize \in Int /\ n * ChunkSize = (n - 1) * ChunkSize + ChunkSize
    BY <1>1, <1>2
  <2>6. QED
    BY <1>1, <1>2, <2>1, <2>2, <2>3, <2>4, <2>5
<1>4. \A i \in 1..n : Chunk(first, last, i) =
         <<From(i), IF From(i) + ChunkSize - 1 < last THEN From(i) + ChunkSize - 1 ELSE last>>
  BY DEF Chunk
<1> HIDE DEF n, From
<1>5. ASSUME NEW i \in 1..n
      PROVE  /\ Chunk(first, last, i) \in Nat \X Nat
             /\ i = 1 => Chunk(first, last, i)[1] = first
             /\ i > 1 => Chunk(first, last, i)[1] = Chunk(first, last, i - 1)[2] + 1
             /\ i = n => Chunk(first, last, i)[2] = last
  <2>1. From(1) = first
    BY <1>1 DEF From
  <2>2. Chunk(first, last, i) \in Nat \X Nat
    BY <1>1, <1>3, <1>4
  <2>3. i = n => Chunk(first, last, i)[2] = last
    BY <1>1, <1>2, <1>3, <1>4
  <2>4. ASSUME i > 1 PROVE Chunk(first, last, i)[1] = Chunk(first, last, i - 1)[2] + 1
    <3>1. i - 1 \in 1..n /\ i - 1 < n /\ (i - 1) + 1 = i
      BY <1>2, <2>4
    <3>2. From(i - 1) \in Nat /\ From(i) = From(i - 1) + ChunkSize /\ From(i) <= last
      BY <1>3, <3>1
    <3>3. Chunk(first, last, i - 1)[2] = From(i - 1) + ChunkSize - 1
      BY <1>1, <1>4, <3>1, <3>2
    <3>4. QED
      BY <1>1, <1>4, <3>2, <3>3
  <2>5. QED
    BY <1>4, <2>1, <2>2, <2>3, <2>4
<1>6. QED
  BY <1>2, <1>5 DEF n

\* A batch is not empty while rows are left.
LEMMA BatchFacts ==
    ASSUME RowsTypeOK
    PROVE  /\ cursor \in Nat /\ FirstRow \in Nat /\ LastRow \in 0..NRefs /\ NRefs \in Nat
           /\ cursor < NRefs => FirstRow <= LastRow /\ cursor < LastRow
<1>1. NRefs \in Nat /\ BatchSize \in Nat \ {0}
  BY IndexRunAssumption
<1>2. cursor \in 0..NRefs
  BY DEF RowsTypeOK
<1>3. QED
  BY <1>1, <1>2 DEF FirstRow, LastRow

\* When all the chunks of the batch are answered, Combined has them in order.
LEMMA CombinedFacts ==
    ASSUME RowsTypeOK, Rows, pc = "await", Len(results) = ChunkCount(FirstRow, LastRow)
    PROVE  /\ Combined \in Seq(Parts) /\ Combined # <<>>
           /\ Contiguous(Combined, FirstRow) /\ Combined[Len(Combined)][2] = LastRow
<1> DEFINE n == ChunkCount(FirstRow, LastRow)
           first == nextId - n
<1>1. cursor < NRefs /\ nextId >= n /\ InFlight
  BY DEF Rows
<1>2. FirstRow \in Nat /\ LastRow \in Nat /\ FirstRow <= LastRow
  BY <1>1, BatchFacts
<1>3. /\ n \in Nat /\ n >= 1
      /\ \A i \in 1..n : /\ Chunk(FirstRow, LastRow, i) \in Nat \X Nat
                         /\ i = 1 => Chunk(FirstRow, LastRow, i)[1] = FirstRow
                         /\ i > 1 => Chunk(FirstRow, LastRow, i)[1] = Chunk(FirstRow, LastRow, i - 1)[2] + 1
                         /\ i = n => Chunk(FirstRow, LastRow, i)[2] = LastRow
  BY <1>2, Chunks
<1> HIDE DEF n
<1>4. nextId \in Nat /\ results \in Seq(Nat \X Parts) /\ Len(results) = n
  BY DEF RowsTypeOK, n
<1>5. /\ \A k \in DOMAIN results : /\ results[k][1] \in first..(nextId - 1)
                                  /\ results[k][2] = Chunk(FirstRow, LastRow, results[k][1] - first + 1)
      /\ waiting \subseteq first..(nextId - 1) /\ Len(results) + Cardinality(waiting) = n
      /\ \A i \in first..(nextId - 1) : i \in waiting \/ \E k \in DOMAIN results : results[k][1] = i
  BY <1>1, <1>4 DEF InFlight, n
<1>6. waiting = {}
  <2>1. first \in Int /\ nextId - 1 \in Int
    BY <1>3, <1>4
  <2>2. IsFiniteSet(waiting)
    BY <1>5, <2>1, FS_Interval, FS_Subset
  <2>3. Cardinality(waiting) = 0
    BY <1>3, <1>4, <1>5, <2>2, FS_CardinalityType
  <2>4. QED
    BY <2>2, <2>3, FS_EmptySet
<1> DEFINE Answer(i) == CHOOSE r \in ToSet(results) : r[1] = nextId - n + i - 1
<1>7. ASSUME NEW i \in 1..n PROVE Answer(i)[2] = Chunk(FirstRow, LastRow, i)
  <2>1. nextId - n + i - 1 \in first..(nextId - 1) /\ (nextId - n + i - 1) - first + 1 = i
    BY <1>3, <1>4
  <2>2. PICK k \in DOMAIN results : results[k][1] = nextId - n + i - 1
    BY <1>5, <1>6, <2>1
  <2>3. Answer(i) \in ToSet(results) /\ Answer(i)[1] = nextId - n + i - 1
    BY <2>2 DEF ToSet
  <2>4. PICK m \in DOMAIN results : Answer(i) = results[m]
    BY <2>3 DEF ToSet
  <2>5. Answer(i)[2] = Chunk(FirstRow, LastRow, results[m][1] - first + 1)
    BY <1>5, <2>4
  <2>6. results[m][1] - first + 1 = i
    BY <2>1, <2>3, <2>4
  <2>7. QED
    BY <2>5, <2>6
<1>8. Combined = [i \in 1..n |-> Answer(i)[2]]
  BY <1>4 DEF Combined
<1> HIDE DEF Answer
<1>9. Combined = [i \in 1..n |-> Chunk(FirstRow, LastRow, i)]
  BY <1>7, <1>8
<1>10. Combined \in Seq(Parts) /\ Len(Combined) = n /\ DOMAIN Combined = 1..n
  BY <1>3, <1>9 DEF Parts
<1>11. \A i \in 1..n : Combined[i] = Chunk(FirstRow, LastRow, i)
  BY <1>9
<1>12. Contiguous(Combined, FirstRow)
  <2>1. ASSUME NEW i \in 1..n
        PROVE  Combined[i][1] = IF i = 1 THEN FirstRow ELSE Combined[i - 1][2] + 1
    <3>1. CASE i = 1
      BY <1>3, <1>11, <3>1
    <3>2. CASE i > 1
      <4>1. i - 1 \in 1..n
        BY <1>3, <3>2
      <4>2. QED
        BY <1>3, <1>11, <3>2, <4>1
    <3>3. QED
      BY <3>1, <3>2
  <2>2. QED
    BY <1>10, <2>1 DEF Contiguous
<1>13. QED
  BY <1>3, <1>10, <1>11, <1>12

\* A step keeps the types of rows, chunks and results.
LEMMA RowsTypeStep ==
    ASSUME RowsTypeOK, Rows, [Next]_vars
    PROVE  RowsTypeOK'
<1>1. RowsTypeOK /\ Rows
  OBVIOUS
<1>2. /\ cursor \in Nat /\ FirstRow \in Nat /\ LastRow \in 0..NRefs /\ NRefs \in Nat
      /\ cursor < NRefs => FirstRow <= LastRow
  BY <1>1, BatchFacts
<1>3. <<FirstRow, LastRow>> \in Parts
  BY <1>2 DEF Parts
<1>4. <<<<FirstRow, LastRow>>>> \in Seq(Parts) /\ <<>> \in Seq(Parts) /\ <<>> \in Seq(Nat \X Parts)
  BY <1>3
<1>5. results \in Seq(Nat \X Parts) /\ nextId \in Nat /\ waiting \subseteq Nat
  BY <1>1 DEF RowsTypeOK
<1>6. edges \in Seq(Parts) /\ batch \in Seq(Parts)
  BY <1>1 DEF RowsTypeOK
<1>7. CASE NextBatch
  <2>1. UNCHANGED <<cursor, edges, pending>>
    BY <1>7 DEF NextBatch
  <2>2. CASE ResolveBatch(FirstRow, LastRow) /\ cursor < NRefs /\ batch' = batch
    <3> DEFINE n == ChunkCount(FirstRow, LastRow)
    <3>1. /\ n \in Nat /\ n >= 1
          /\ \A i \in 1..n : Chunk(FirstRow, LastRow, i) \in Parts
      BY <1>2, <2>2, Chunks DEF Parts
    <3> HIDE DEF n
    <3>2. PICK to \in [nextId .. nextId + n - 1 -> Resolvers] :
             posted' = posted \cup {<<i, to[i], Chunk(FirstRow, LastRow, i - nextId + 1)>> :
                                       i \in nextId .. nextId + n - 1}
      BY <2>2 DEF ResolveBatch, n
    <3>3. \A i \in nextId .. nextId + n - 1 : i \in Nat /\ i - nextId + 1 \in 1..n
      BY <1>5, <3>1
    <3>4. posted' \subseteq posted \cup (Nat \X Resolvers \X Parts)
      BY <3>1, <3>2, <3>3
    <3>5. /\ nextId' = nextId + n /\ waiting' = nextId .. nextId + n - 1 /\ results' = <<>>
          /\ UNCHANGED <<finished, poolFailed>>
      BY <2>2 DEF ResolveBatch, n
    <3>6. nextId' \in Nat /\ waiting' \subseteq Nat
      BY <1>5, <3>1, <3>3, <3>5
    <3>7. QED
      BY <1>1, <1>4, <2>1, <2>2, <3>4, <3>5, <3>6 DEF RowsTypeOK
  <2>3. CASE batch' \in {batch, <<<<FirstRow, LastRow>>>>} /\ (Destroy \/ UNCHANGED poolVars)
    <3>1. batch' \in Seq(Parts) /\ results' \in Seq(Nat \X Parts)
      BY <1>4, <1>5, <1>6, <2>3 DEF Destroy
    <3>2. QED
      BY <1>1, <2>1, <2>3, <3>1 DEF RowsTypeOK, Destroy
  <2>4. QED
    BY <1>7, <2>2, <2>3 DEF NextBatch
<1>8. CASE BatchAnswered
  <2>1. batch' \in Seq(Parts)
    BY <1>1, <1>4, <1>8, CombinedFacts DEF BatchAnswered
  <2>2. results' \in Seq(Nat \X Parts)
    BY <1>4, <1>5, <1>8 DEF BatchAnswered, Destroy
  <2>3. QED
    BY <1>1, <1>8, <2>1, <2>2 DEF RowsTypeOK, BatchAnswered, Destroy
<1>9. CASE AdmitEdges
  <2>1. edges' = edges \o batch /\ batch' = <<>>
    BY <1>9 DEF AdmitEdges
  <2>2. edges' \in Seq(Parts) /\ batch' \in Seq(Parts)
    BY <1>4, <1>6, <2>1
  <2>3. QED
    BY <1>1, <1>9, <2>2 DEF RowsTypeOK, AdmitEdges
<1>10. CASE RemoveRows
  BY <1>1, <1>2, <1>10 DEF RowsTypeOK, RemoveRows
<1>11. CASE BatchThrows
  BY <1>1, <1>4, <1>11 DEF RowsTypeOK, BatchThrows
<1>12. CASE Unwind \/ PoolReady \/ PoolTimer
  <2>1. results' \in Seq(Nat \X Parts)
    BY <1>4, <1>5, <1>12 DEF Unwind, PoolReady, PoolTimer, OnTimeout, Destroy
  <2>2. QED
    BY <1>1, <1>12, <2>1 DEF RowsTypeOK, Unwind, PoolReady, PoolTimer, OnTimeout, Fail, Destroy, Elsewhere
<1>13. CASE Crash
  <2>1. results' \in Seq(Nat \X Parts) /\ batch' \in Seq(Parts)
    BY <1>4, <1>5, <1>13 DEF Crash, Destroy
  <2>2. cursor' \in 0..NRefs /\ UNCHANGED <<pending, edges>>
    BY <1>2, <1>13 DEF Crash
  <2>3. waiting' \subseteq Nat /\ poolFailed' \in BOOLEAN /\ nextId' = nextId
    BY <1>1, <1>13 DEF RowsTypeOK, Crash, Destroy
  <2>4. posted' \cup finished' \subseteq Nat \X Resolvers \X Parts
    BY <1>1, <1>13 DEF RowsTypeOK, Crash, Destroy
  <2>5. QED
    BY <1>1, <2>1, <2>2, <2>3, <2>4 DEF RowsTypeOK
<1>14. CASE PoolEvents
  <2>1. UNCHANGED <<cursor, edges, pending, batch>>
    BY <1>14 DEF PoolEvents, Elsewhere
  <2>2. ASSUME NEW t \in finished, OnResult(t) PROVE RowsTypeOK'
    <3>1. t[1] \in Nat /\ t[3] \in Parts
      BY <1>1 DEF RowsTypeOK
    <3>2. results' = results \/ results' = Append(results, <<t[1], t[3]>>)
      BY <2>2 DEF OnResult
    <3>3. results' \in Seq(Nat \X Parts)
      <4>1. <<t[1], t[3]>> \in Nat \X Parts
        BY <3>1
      <4>2. results \in Seq(Nat \X Parts)
        BY <1>5
      <4>3. Append(results, <<t[1], t[3]>>) \in Seq(Nat \X Parts)
        BY <4>1, <4>2, SeqFacts
      <4>4. QED
        BY <3>2, <4>2, <4>3
    <3>4. QED
      BY <1>1, <2>1, <2>2, <3>3 DEF RowsTypeOK, OnResult
  <2>3. ASSUME NEW t \in posted, Resolves(t) PROVE RowsTypeOK'
    BY <1>1, <2>1, <2>3 DEF RowsTypeOK, Resolves
  <2>4. ASSUME NEW w \in Resolvers, NEW how, OnReady(w) \/ OnFailure(w) \/ Opens(w) \/ Breaks(w, how)
        PROVE  RowsTypeOK'
    BY <1>1, <2>1, <2>4 DEF RowsTypeOK, OnReady, OnFailure, Fail, Opens, Breaks
  <2>5. QED
    BY <1>14, <2>2, <2>3, <2>4 DEF PoolEvents
<1>15. CASE \/ Load \/ EndLoad \/ BeginResolution \/ EndResolutionLoad \/ Settle \/ Heal \/ GuestOpens
          \/ WriterRuns \/ WriterEvents \/ WriterDies \/ ValveEvents \/ UNCHANGED vars
  <2>1. UNCHANGED <<cursor, batch, edges, pending, nextId, waiting, poolFailed, posted, finished, results>>
    BY <1>15 DEF Load, OpenWindow, OpenThrows, BeginLoad, Skip, Park, Post, HasRoom, Store, StoreThrows, Abort, Finish, Drained,
           Closed, SecondPass, EndLoad, EndParseLoad, EndNodeLoad, Fold, Folded, BeginResolution, Create,
           EndResolutionLoad, Settle, Heal, HealNodes, HealIndexes, Healing, GuestOpens, WriterRuns,
           WriterEvents, WriterDies, ValveEvents, Elsewhere
  <2>2. QED
    BY <1>1, <2>1 DEF RowsTypeOK
<1>16. QED
  BY <1>7, <1>8, <1>9, <1>10, <1>11, <1>12, <1>13, <1>14, <1>15 DEF Next, Main, Resolution

\* A step that leaves the rows, the chunks and the results alone.
RowsUnchanged == UNCHANGED <<cursor, batch, edges, pending, nextId, waiting, posted, finished, results>>

\* A step admits nothing but the next rows.
LEMMA RowsStep ==
    ASSUME TypeOK, RowsTypeOK, Rows, [Next]_vars
    PROVE  Rows'
<1>1. RowsTypeOK /\ Rows
  OBVIOUS
<1>2. /\ cursor \in Nat /\ FirstRow \in Nat /\ LastRow \in 0..NRefs /\ NRefs \in Nat
      /\ cursor < NRefs => FirstRow <= LastRow /\ cursor < LastRow
  BY <1>1, BatchFacts
<1>3. results \in Seq(Nat \X Parts) /\ nextId \in Nat /\ waiting \subseteq Nat /\ edges \in Seq(Parts)
  BY <1>1 DEF RowsTypeOK
<1>4. ASSUME RowsUnchanged,
             \/ pc' = pc
             \/ /\ pc' \notin {"await", "admit", "remove"}
                /\ \/ pc' \in {"unwind", "restore", "settle", "returned"} \cup Healed
                   \/ pc \notin {"remove", "unwind", "restore", "settle", "returned"} \cup Healed
      PROVE  Rows'
  <2>1. InFlight' <=> InFlight
    BY <1>4 DEF RowsUnchanged, InFlight, FirstRow, LastRow
  <2>2. Admitted' = Admitted /\ Contiguous(edges', 1) = Contiguous(edges, 1)
    BY <1>4 DEF RowsUnchanged, Admitted
  <2>3. FirstRow' = FirstRow /\ LastRow' = LastRow
    BY <1>4 DEF RowsUnchanged, FirstRow, LastRow
  <2>4. QED
    BY <1>1, <1>4, <2>1, <2>2, <2>3 DEF Rows, RowsUnchanged
<1>5. CASE NextBatch
  <2>1. pc = "batch" /\ UNCHANGED <<cursor, edges, pending>> /\ Admitted = cursor
    BY <1>1, <1>5 DEF NextBatch, Rows, Healed
  <2>2. Admitted' = Admitted /\ FirstRow' = FirstRow /\ LastRow' = LastRow
    BY <2>1 DEF Admitted, FirstRow, LastRow
  <2>3. /\ Contiguous(edges', 1) /\ \A r \in 1..NRefs : r \in pending' \/ r <= Admitted'
        /\ Admitted' = cursor'
    BY <1>1, <2>1, <2>2 DEF Rows
  <2>4. CASE pc' = "unwind" /\ UNCHANGED poolVars
    BY <1>1, <2>1, <2>3, <2>4 DEF Rows
  <2>5. CASE pc' = "admit" /\ cursor < NRefs /\ batch' = <<<<FirstRow, LastRow>>>>
             /\ (Destroy \/ UNCHANGED poolVars)
    <3>1. \A t \in posted' \cup finished' : t[1] < nextId'
      BY <1>1, <2>5 DEF Rows, Destroy
    <3>2. batch' # <<>> /\ Contiguous(batch', FirstRow) /\ batch'[Len(batch')][2] = LastRow
      BY <2>5 DEF Contiguous
    <3>3. QED
      BY <1>2, <2>1, <2>2, <2>3, <2>5, <3>1, <3>2 DEF Rows
  <2>6. CASE pc' = "await" /\ cursor < NRefs /\ ResolveBatch(FirstRow, LastRow)
    <3> DEFINE n == ChunkCount(FirstRow, LastRow)
    <3>1. n \in Nat /\ n >= 1
      BY <1>2, <2>6, Chunks
    <3> HIDE DEF n
    <3> DEFINE ids == nextId .. nextId + n - 1
    <3>2. PICK to \in [ids -> Resolvers] :
             posted' = posted \cup {<<i, to[i], Chunk(FirstRow, LastRow, i - nextId + 1)>> : i \in ids}
      BY <2>6 DEF ResolveBatch, n
    <3>3. waiting' = ids /\ results' = <<>> /\ nextId' = nextId + n /\ finished' = finished
      BY <2>6 DEF ResolveBatch, n
    <3>4. nextId' - n = nextId /\ ids = nextId .. nextId' - 1 /\ nextId' >= n
      BY <1>3, <3>1, <3>3
    <3>5. \A t \in posted' \cup finished' :
             \/ t[1] < nextId
             \/ t[1] \in ids /\ t[3] = Chunk(FirstRow, LastRow, t[1] - nextId + 1)
      <4>1. \A t \in posted \cup finished : t[1] < nextId
        BY <1>1 DEF Rows
      <4>2. QED
        BY <3>2, <3>3, <4>1
    <3>6. \A t \in posted' \cup finished' : t[1] \in Nat
      <4>1. \A t \in posted \cup finished : t[1] \in Nat
        BY <1>1 DEF RowsTypeOK
      <4>2. \A i \in ids : i \in Nat
        BY <1>3, <3>1
      <4> HIDE DEF ids
      <4>3. QED
        BY <3>2, <3>3, <4>1, <4>2
    <3>7. ASSUME NEW t \in posted' \cup finished' PROVE t[1] < nextId'
      <4>1. t[1] < nextId \/ t[1] \in nextId .. nextId + n - 1
        BY <3>5
      <4>2. t[1] \in Nat
        BY <3>6
      <4>3. QED
        BY <1>3, <3>1, <3>3, <4>1, <4>2
    <3>8. Cardinality(waiting') = n
      <4>1. Cardinality(ids) = n
        BY <1>3, <3>1, FS_Interval
      <4>2. QED
        BY <3>3, <4>1
    <3>9. ChunkCount(FirstRow', LastRow') = n
      BY <2>2 DEF n
    <3>10. \A t \in posted' \cup finished' : t[1] >= nextId => t[3] = Chunk(FirstRow, LastRow, t[1] - nextId + 1)
      BY <1>3, <3>5, <3>6
    <3>11. InFlight'
      BY <2>2, <3>1, <3>3, <3>4, <3>8, <3>9, <3>10 DEF InFlight
    <3>12. QED
      BY <2>1, <2>2, <2>3, <2>6, <3>4, <3>7, <3>9, <3>11 DEF Rows
  <2>7. QED
    BY <1>5, <2>4, <2>5, <2>6 DEF NextBatch
<1>6. CASE BatchAnswered
  <2>1. pc = "await" /\ pc' = "admit" /\ UNCHANGED <<cursor, edges, pending>> /\ Admitted = cursor /\ cursor < NRefs
    BY <1>1, <1>6 DEF BatchAnswered, Rows, Healed
  <2>2. Admitted' = Admitted /\ FirstRow' = FirstRow /\ LastRow' = LastRow
    BY <2>1 DEF Admitted, FirstRow, LastRow
  <2>3. batch' # <<>> /\ Contiguous(batch', FirstRow) /\ batch'[Len(batch')][2] = LastRow
    <3>1. CASE batch' = <<<<FirstRow, LastRow>>>>
      BY <3>1 DEF Contiguous
    <3>2. CASE Len(results) = ChunkCount(FirstRow, LastRow) /\ batch' = Combined
      BY <1>1, <2>1, <3>2, CombinedFacts
    <3>3. QED
      BY <1>6, <3>1, <3>2 DEF BatchAnswered
  <2>4. \A t \in posted' \cup finished' : t[1] < nextId'
    BY <1>1, <1>6 DEF Rows, BatchAnswered, Destroy
  <2>5. QED
    BY <1>1, <2>1, <2>2, <2>3, <2>4 DEF Rows
<1>7. CASE AdmitEdges
  <2>1. /\ pc = "admit" /\ pc' = "remove" /\ edges' = edges \o batch
        /\ UNCHANGED <<cursor, pending, poolVars>>
    BY <1>7 DEF AdmitEdges
  <2>2. /\ batch # <<>> /\ Contiguous(batch, FirstRow) /\ batch[Len(batch)][2] = LastRow
        /\ Contiguous(edges, 1) /\ Admitted = cursor /\ cursor < NRefs
        /\ \A r \in 1..NRefs : r \in pending \/ r <= Admitted
    BY <1>1, <2>1 DEF Rows, Healed
  <2>3. batch \in Seq(Parts)
    BY <1>1 DEF RowsTypeOK
  <2>4. /\ Len(edges) \in Nat /\ Len(batch) \in Nat /\ Len(batch) >= 1 /\ Len(edges') = Len(edges) + Len(batch)
        /\ \A i \in 1..Len(edges) : edges'[i] = edges[i]
        /\ \A i \in 1..Len(batch) : edges'[Len(edges) + i] = batch[i]
        /\ edges' # <<>> /\ DOMAIN edges' = 1..(Len(edges) + Len(batch))
        /\ DOMAIN edges = 1..Len(edges) /\ DOMAIN batch = 1..Len(batch)
    BY <1>3, <2>1, <2>2, <2>3
  <2>5. Admitted' = LastRow
    <3>1. Len(batch) \in 1..Len(batch)
      BY <2>4
    <3>2. edges'[Len(edges')] = batch[Len(batch)]
      BY <2>4, <3>1
    <3>3. QED
      BY <2>2, <2>4, <3>2 DEF Admitted
  <2>6. Contiguous(edges', 1)
    <3>1. SUFFICES ASSUME NEW i \in 1..(Len(edges) + Len(batch))
                   PROVE  edges'[i][1] = IF i = 1 THEN 1 ELSE edges'[i - 1][2] + 1
      BY <2>4 DEF Contiguous
    <3>2. CASE i \in 1..Len(edges)
      <4>1. edges[i][1] = IF i = 1 THEN 1 ELSE edges[i - 1][2] + 1
        BY <2>2, <2>4, <3>2 DEF Contiguous
      <4>2. edges'[i] = edges[i] /\ (i # 1 => edges'[i - 1] = edges[i - 1])
        BY <2>4, <3>2
      <4>3. QED
        BY <4>1, <4>2
    <3>3. CASE i - Len(edges) \in 1..Len(batch)
      <4> DEFINE k == i - Len(edges)
      <4>1. batch[k][1] = IF k = 1 THEN FirstRow ELSE batch[k - 1][2] + 1
        BY <2>2, <2>4, <3>3 DEF Contiguous
      <4>2. edges'[i] = batch[k]
        <5>1. Len(edges) + k = i
          BY <2>4
        <5>2. QED
          BY <2>4, <3>3, <5>1
      <4>3. CASE k = 1
        <5>1. CASE Len(edges) = 0
          <6>1. edges = <<>> /\ i = 1
            BY <1>3, <2>4, <4>3, <5>1
          <6>2. FirstRow = 1
            BY <2>2, <6>1 DEF Admitted, FirstRow
          <6>3. QED
            BY <4>1, <4>2, <4>3, <6>1, <6>2
        <5>2. CASE Len(edges) > 0
          <6>1. edges # <<>> /\ i = Len(edges) + 1 /\ Len(edges) \in 1..Len(edges)
            BY <2>4, <4>3, <5>2
          <6>2. edges'[i - 1][2] = cursor
            BY <2>2, <2>4, <6>1 DEF Admitted
          <6>3. QED
            BY <1>2, <2>4, <4>1, <4>2, <4>3, <5>2, <6>1, <6>2 DEF FirstRow
        <5>3. QED
          BY <2>4, <5>1, <5>2
      <4>4. CASE k # 1
        <5>1. k - 1 \in 1..Len(batch) /\ Len(edges) + (k - 1) = i - 1 /\ i # 1
          BY <2>4, <3>3, <4>4
        <5>2. edges'[i - 1] = batch[k - 1]
          BY <2>4, <5>1
        <5>3. QED
          BY <4>1, <4>2, <4>4, <5>1, <5>2
      <4>5. QED
        BY <4>3, <4>4
    <3>4. QED
      BY <2>4, <3>2, <3>3
  <2>7. \A r \in 1..NRefs : r \in pending' \/ r <= Admitted'
    BY <1>2, <2>1, <2>2, <2>5
  <2>8. FirstRow' = FirstRow /\ LastRow' = LastRow
    BY <2>1 DEF FirstRow, LastRow
  <2>9. QED
    BY <1>1, <2>1, <2>2, <2>5, <2>6, <2>7, <2>8 DEF Rows
<1>8. CASE RemoveRows
  <2>1. /\ pc = "remove" /\ pc' = "batch" /\ cursor' = LastRow /\ pending' = pending \ (FirstRow..LastRow)
        /\ UNCHANGED <<edges, poolVars>>
    BY <1>8 DEF RemoveRows
  <2>2. Admitted = LastRow /\ Contiguous(edges, 1) /\ \A r \in 1..NRefs : r \in pending \/ r <= Admitted
    BY <1>1, <2>1 DEF Rows
  <2>3. Admitted' = Admitted
    BY <2>1 DEF Admitted
  <2>4. \A r \in 1..NRefs : r \in pending' \/ r <= Admitted'
    BY <1>2, <2>1, <2>2, <2>3
  <2>5. QED
    BY <1>1, <2>1, <2>2, <2>3, <2>4 DEF Rows
<1>9. CASE BatchThrows \/ Unwind \/ Crash
  <2>1. /\ pc' \in {"unwind", "restore", "crashed", "torn"} /\ UNCHANGED <<edges, pending>>
        /\ (UNCHANGED poolVars \/ Destroy)
    BY <1>9 DEF BatchThrows, Unwind, Crash
  <2>2. Admitted' = Admitted
    BY <2>1 DEF Admitted
  <2>3. \A t \in posted' \cup finished' : t[1] < nextId'
    BY <1>1, <2>1 DEF Rows, Destroy
  <2>4. QED
    BY <1>1, <2>1, <2>2, <2>3 DEF Rows, Healed
<1>10. ASSUME pc = "await"
       PROVE  /\ InFlight /\ ChunkCount(FirstRow, LastRow) \in Nat /\ ChunkCount(FirstRow, LastRow) >= 1
              /\ cursor < NRefs
  <2>1. cursor < NRefs /\ InFlight
    BY <1>1, <1>10 DEF Rows
  <2>2. QED
    BY <1>2, <2>1, Chunks
\* A step of the pool: what is left to show of it.
<1>11. ASSUME UNCHANGED <<pc, cursor, batch, edges, pending, nextId>>,
              posted' \cup finished' \subseteq posted \cup finished,
              pc = "await" => InFlight'
       PROVE  Rows'
  <2>1. FirstRow' = FirstRow /\ LastRow' = LastRow /\ Admitted' = Admitted
    BY <1>11 DEF FirstRow, LastRow, Admitted
  <2>2. \A t \in posted' \cup finished' : t[1] < nextId'
    BY <1>1, <1>11 DEF Rows
  <2>3. QED
    BY <1>1, <1>11, <2>1, <2>2 DEF Rows
<1>12. CASE PoolReady
  <2>1. CASE UNCHANGED poolVars
    BY <1>4, <1>12, <2>1 DEF PoolReady, RowsUnchanged
  <2>2. CASE Destroy
    <3>1. /\ UNCHANGED <<pc, cursor, batch, edges, pending, nextId>>
          /\ posted' = {} /\ finished' = {} /\ waiting' = {} /\ results' = <<>>
      BY <1>12, <2>2 DEF PoolReady, Destroy
    <3>2. FirstRow' = FirstRow /\ LastRow' = LastRow
      BY <3>1 DEF FirstRow, LastRow
    <3>3. pc = "await" => InFlight'
      BY <1>10, <3>1, <3>2 DEF InFlight
    <3>4. QED
      BY <1>11, <3>1, <3>3
  <2>3. QED
    BY <1>12, <2>1, <2>2 DEF PoolReady
<1>13. ASSUME UNCHANGED <<pc, cursor, batch, edges, pending, nextId, posted, finished, results>>, waiting' = {}
       PROVE  Rows'
  <2>1. FirstRow' = FirstRow /\ LastRow' = LastRow
    BY <1>13 DEF FirstRow, LastRow
  <2>2. ASSUME pc = "await" PROVE InFlight'
    <3> DEFINE n == ChunkCount(FirstRow, LastRow)
    <3>1. n \in Nat /\ n >= 1 /\ InFlight
      BY <1>10, <2>2
    <3>2. Cardinality({}) = 0 /\ Len(results) \in Nat
      BY <1>3, FS_EmptySet
    <3>3. CASE waiting = {}
      BY <1>13, <2>1, <3>1, <3>3 DEF InFlight
    <3>4. CASE waiting # {}
      <4>1. waiting \subseteq (nextId - n)..(nextId - 1) /\ Len(results) + Cardinality(waiting) = n
        BY <3>1, <3>4 DEF InFlight
      <4>2. IsFiniteSet(waiting)
        <5>1. nextId - n \in Int /\ nextId - 1 \in Int
          BY <1>3, <3>1
        <5>2. IsFiniteSet((nextId - n)..(nextId - 1))
          BY <5>1, FS_Interval
        <5>3. QED
          BY <4>1, <5>2, FS_Subset
      <4>3. Cardinality(waiting) \in Nat /\ Cardinality(waiting) # 0
        BY <3>4, <4>2, FS_CardinalityType, FS_EmptySet
      <4>4. Len(results) < n
        BY <3>1, <3>2, <4>1, <4>3
      <4>5. QED
        BY <1>13, <2>1, <3>1, <4>4 DEF InFlight
    <3>5. QED
      BY <3>3, <3>4
  <2>3. QED
    BY <1>11, <1>13, <2>2
<1>14. CASE PoolTimer
  BY <1>13, <1>14 DEF PoolTimer, OnTimeout, Fail, Elsewhere
<1>15. CASE PoolEvents
  <2>1. UNCHANGED <<pc, cursor, batch, edges, pending, nextId>>
    BY <1>15 DEF PoolEvents, OnResult, Resolves, OnReady, OnFailure, Opens, Breaks, Elsewhere
  <2>2. ASSUME NEW t \in finished, OnResult(t) PROVE Rows'
    <3>1. CASE t[1] \notin waiting
      <4>1. posted' \cup finished' \subseteq posted \cup finished /\ UNCHANGED <<waiting, results>>
        BY <2>2, <3>1 DEF OnResult
      <4>2. pc = "await" => InFlight'
        BY <1>10, <2>1, <4>1 DEF InFlight, FirstRow, LastRow
      <4>3. QED
        BY <1>11, <2>1, <4>1, <4>2
    <3>2. CASE t[1] \in waiting
      <4>1. /\ posted' \cup finished' \subseteq posted \cup finished /\ waiting' = waiting \ {t[1]}
            /\ results' = Append(results, <<t[1], t[3]>>)
        BY <2>2, <3>2 DEF OnResult
      <4>2. ASSUME pc = "await" PROVE InFlight'
        <5> DEFINE n == ChunkCount(FirstRow, LastRow)
                   first == nextId - n
        <5>1. n \in Nat /\ n >= 1 /\ InFlight
          BY <1>10, <4>2
        <5>2. FirstRow' = FirstRow /\ LastRow' = LastRow /\ nextId' = nextId
          BY <2>1 DEF FirstRow, LastRow
        <5>3. /\ waiting \subseteq first..(nextId - 1) /\ Len(results) + Cardinality(waiting) = n
              /\ \A i \in first..(nextId - 1) : i \in waiting \/ \E k \in DOMAIN results : results[k][1] = i
          BY <3>2, <5>1 DEF InFlight
        <5>4. t[1] \in first..(nextId - 1) /\ t[3] = Chunk(FirstRow, LastRow, t[1] - first + 1)
          <6>1. t[1] \in first..(nextId - 1)
            BY <3>2, <5>3
          <6>2. first \in Int /\ nextId - 1 \in Int
            BY <1>3, <5>1
          <6>3. t[1] >= first
            BY <6>1, <6>2
          <6>4. \A u \in finished : u[1] >= first => u[3] = Chunk(FirstRow, LastRow, u[1] - first + 1)
            BY <5>1 DEF InFlight
          <6>5. QED
            BY <6>1, <6>3, <6>4
        <5>5. IsFiniteSet(waiting)
          <6>1. first \in Int /\ nextId - 1 \in Int
            BY <1>3, <5>1
          <6>2. IsFiniteSet(first..(nextId - 1))
            BY <6>1, FS_Interval
          <6>3. QED
            BY <5>3, <6>2, FS_Subset
        <5>6. Cardinality(waiting') = Cardinality(waiting) - 1 /\ Cardinality(waiting) \in Nat
          BY <3>2, <4>1, <5>5, FS_RemoveElement, FS_CardinalityType
        <5>7. <<t[1], t[3]>> \in Nat \X Parts
          BY <1>1 DEF RowsTypeOK
        <5>8. /\ Len(results') = Len(results) + 1 /\ Len(results) \in Nat
              /\ \A k \in 1..Len(results) : results'[k] = results[k]
              /\ results'[Len(results) + 1] = <<t[1], t[3]>>
          <6>1. results \in Seq(Nat \X Parts)
            BY <1>3
          <6>2. QED
            BY <4>1, <5>7, <6>1, AppendFacts
        <5>9. DOMAIN results' = 1..(Len(results) + 1) /\ DOMAIN results = 1..Len(results)
          <6>1. results \in Seq(Nat \X Parts)
            BY <1>3
          <6>2. Append(results, <<t[1], t[3]>>) \in Seq(Nat \X Parts)
            BY <5>7, <6>1, SeqFacts
          <6>3. results' \in Seq(Nat \X Parts)
            BY <4>1, <6>2
          <6>4. QED
            BY <5>8, <6>1, <6>3
        <5>10. \A k \in DOMAIN results' : /\ results'[k][1] \in first..(nextId - 1)
                                        /\ results'[k][2] = Chunk(FirstRow, LastRow, results'[k][1] - first + 1)
          <6>1. \A k \in DOMAIN results : /\ results[k][1] \in first..(nextId - 1)
                                        /\ results[k][2] = Chunk(FirstRow, LastRow, results[k][1] - first + 1)
            BY <5>1 DEF InFlight
          <6>2. TAKE k \in DOMAIN results'
          <6>3. CASE k \in DOMAIN results
            BY <5>8, <5>9, <6>1, <6>3
          <6>4. CASE k = Len(results) + 1
            BY <5>4, <5>8, <6>4
          <6>5. QED
            BY <5>8, <5>9, <6>2, <6>3, <6>4
        <5>11. \A i \in first..(nextId - 1) : i \in waiting' \/ \E k \in DOMAIN results' : results'[k][1] = i
          <6>1. TAKE i \in first..(nextId - 1)
          <6>2. CASE i \in waiting /\ i # t[1]
            BY <4>1, <6>2
          <6>3. CASE i = t[1]
            <7>1. Len(results) + 1 \in DOMAIN results'
              BY <5>8, <5>9
            <7>2. QED
              BY <5>8, <6>3, <7>1
          <6>4. CASE \E k \in DOMAIN results : results[k][1] = i
            BY <5>8, <5>9, <6>4
          <6>5. QED
            BY <5>3, <6>1, <6>2, <6>3, <6>4
        <5>12. \A u \in posted' \cup finished' : u[1] >= first => u[3] = Chunk(FirstRow, LastRow, u[1] - first + 1)
          BY <4>1, <5>1 DEF InFlight
        <5>13. waiting' \subseteq first..(nextId - 1) /\ Len(results') + Cardinality(waiting') = n
          BY <4>1, <5>1, <5>3, <5>6, <5>8
        <5>14. QED
          BY <5>2, <5>10, <5>11, <5>12, <5>13 DEF InFlight
      <4>3. QED
        BY <1>11, <2>1, <4>1, <4>2
    <3>3. QED
      BY <3>1, <3>2
  <2>3. ASSUME NEW t \in posted, Resolves(t) PROVE Rows'
    <3>1. posted' \cup finished' \subseteq posted \cup finished /\ UNCHANGED <<waiting, results>>
      BY <2>3 DEF Resolves
    <3>2. pc = "await" => InFlight'
      BY <1>10, <2>1, <3>1 DEF InFlight, FirstRow, LastRow
    <3>3. QED
      BY <1>11, <2>1, <3>1, <3>2
  <2>4. ASSUME NEW w \in Resolvers, OnFailure(w) PROVE Rows'
    BY <1>13, <2>1, <2>4 DEF OnFailure, Fail
  <2>5. ASSUME NEW w \in Resolvers, NEW how, OnReady(w) \/ Opens(w) \/ Breaks(w, how) PROVE Rows'
    BY <1>4, <2>1, <2>5 DEF OnReady, Opens, Breaks, RowsUnchanged
  <2>6. QED
    BY <1>15, <2>2, <2>3, <2>4, <2>5 DEF PoolEvents
<1>16. CASE \/ Load \/ EndLoad \/ BeginResolution \/ EndResolutionLoad \/ Settle \/ Heal \/ GuestOpens
          \/ WriterRuns \/ WriterEvents \/ WriterDies \/ ValveEvents \/ UNCHANGED vars
  <2>1. RowsUnchanged
    BY <1>16 DEF RowsUnchanged, Load, OpenWindow, OpenThrows, BeginLoad, Skip, Park, Post, HasRoom, Store, StoreThrows, Abort,
           Finish, Drained, Closed, SecondPass, EndLoad, EndParseLoad, EndNodeLoad, Fold, Folded,
           BeginResolution, Create, EndResolutionLoad, Settle, Heal, HealNodes, HealIndexes, Healing,
           GuestOpens, WriterRuns, WriterEvents, WriterDies, ValveEvents, Elsewhere
  <2>2. \/ pc' = pc
        \/ /\ pc' \notin {"await", "admit", "remove"}
           /\ \/ pc' \in {"unwind", "restore", "settle", "returned"} \cup Healed
              \/ pc \notin {"remove", "unwind", "restore", "settle", "returned"} \cup Healed
    <3>1. CASE Load
      BY <3>1 DEF Load, OpenWindow, OpenThrows, BeginLoad, Skip, Park, Post, MayStore, HasRoom, Store, StoreThrows, CloseWriter, Abort,
             Finish, Drained, Closed, SecondPass, Healed
    <3>2. CASE EndLoad
      BY <3>2 DEF EndLoad, EndParseLoad, EndNodeLoad, Fold, Folded, AfterFold, Healed
    <3>3. CASE BeginResolution \/ EndResolutionLoad \/ Settle
      BY <3>3 DEF BeginResolution, EndResolutionLoad, Settle, Healed
    <3>4. CASE Heal
      BY <3>4 DEF Heal, HealNodes, HealIndexes, Healed
    <3>5. CASE GuestOpens \/ WriterRuns \/ WriterEvents \/ WriterDies \/ ValveEvents \/ UNCHANGED vars
      BY <3>5 DEF GuestOpens, WriterRuns, WriterEvents, WriterDies, ValveEvents, Elsewhere
    <3>6. QED
      BY <1>16, <3>1, <3>2, <3>3, <3>4, <3>5
  <2>3. QED
    BY <1>4, <2>1, <2>2
<1>17. QED
  BY <1>5, <1>6, <1>7, <1>8, <1>9, <1>12, <1>14, <1>15, <1>16 DEF Next, Main, Resolution

(* The log.                                                                *)

\* The ways in which a step moves the log and its valve.
Zeroed ==
    /\ frames' = 0 /\ copied' = 0 /\ size' = 0 /\ baseline' = 0 /\ timer' = FALSE
    /\ inflight' = "none" /\ snapshot' = 0 /\ row' = "none"
    /\ pause' = FALSE /\ passes' = 0 /\ gaveUp' = FALSE

Timed ==
    timer' \in BOOLEAN /\ (timer' => timer \/ "valve" \in setting) /\ UNCHANGED <<logVars, baseline, passVars, pauseVars>>

ValveMoves ==
    \/ Check \/ Fired \/ NextPass \/ PassAnswered
    \/ \E r \in {"full", "part", "null"} : CheckpointEnds(r)

\* What a step can be to the valve.
LEMMA ValveCases ==
    ASSUME [Next]_vars
    PROVE  \/ UNCHANGED valveVars \/ Timed \/ ValveMoves \/ (Zeroed /\ pc' \in Healed)
           \/ "valve" \in setting /\ Pause
           \/ /\ "valve" \in setting /\ Commit
              /\ Store \/ (WriterRuns /\ stored' # stored) \/ pc' \in {"remove", "batch"}
<1>1. CASE Load
  <2>1. CASE OpenThrows \/ BeginLoad
    <3>1. timer' = ("valve" \in setting) /\ UNCHANGED <<logVars, baseline, passVars, pauseVars>>
      BY <2>1 DEF OpenThrows, BeginLoad
    <3>2. timer' \in BOOLEAN
      BY <3>1
    <3>3. QED
      BY <3>1, <3>2 DEF Timed
  <2>2. CASE Park
    BY <2>2 DEF Park
  <2>3. CASE Store
    BY <2>3 DEF Store, Write
  <2>4. CASE \/ OpenWindow \/ Skip \/ Post \/ HasRoom \/ StoreThrows \/ Abort \/ Finish \/ Drained
             \/ Closed \/ SecondPass
    BY <2>4 DEF OpenWindow, Skip, Post, HasRoom, StoreThrows, Abort, Finish, Drained, Closed, SecondPass
  <2>5. QED
    BY <1>1, <2>1, <2>2, <2>3, <2>4 DEF Load
<1>2. CASE EndLoad
  BY <1>2 DEF EndLoad, EndParseLoad, EndNodeLoad, Fold, Folded
<1>3. CASE Resolution \/ PoolReady
  BY <1>3 DEF Resolution, BeginResolution, NextBatch, BatchAnswered, AdmitEdges, RemoveRows, BatchThrows,
         Unwind, EndResolutionLoad, PoolReady, Write
<1>4. CASE Settle
  BY <1>4 DEF Settle, Timed
<1>5. CASE Heal \/ GuestOpens \/ WriterEvents \/ WriterDies \/ PoolTimer \/ PoolEvents
  BY <1>5 DEF Heal, HealNodes, HealIndexes, Healing, GuestOpens, WriterEvents, WriterDies, PoolTimer,
         PoolEvents
<1>6. CASE WriterRuns
  BY <1>6 DEF WriterRuns, Write
<1>7. CASE ValveEvents
  BY <1>7 DEF ValveEvents, ValveMoves
<1>8. CASE Crash
  BY <1>8 DEF Crash, Zeroed, Healed
<1>9. QED
  BY <1>1, <1>2, <1>3, <1>4, <1>5, <1>6, <1>7, <1>8 DEF Next, Main

\* A commit makes the log grow by at most one frame.
LEMMA CommitFacts ==
    ASSUME LogTypeOK, Commit
    PROVE  LogTypeOK' /\ Growth \in Nat /\ Growth' \in Nat /\ Growth' <= Growth + 1
<1>1. {frames, copied, size, baseline} \subseteq Nat /\ copied <= frames /\ frames <= size /\ baseline <= size
  BY DEF LogTypeOK
<1>2. frames' \in Nat /\ size' \in Nat /\ frames' <= size' /\ size <= size' /\ size' <= size + 1 /\ baseline' = baseline
  BY <1>1 DEF Commit, Larger
<1>3. copied' \in Nat /\ copied' <= frames' /\ snapshot' \in Nat /\ snapshot' <= frames'
  BY <1>1 DEF LogTypeOK, Commit
<1>4. UNCHANGED <<passes, pause, gaveUp, timer, inflight, row>>
  BY DEF Commit
<1>5. LogTypeOK'
  BY <1>1, <1>2, <1>3, <1>4 DEF LogTypeOK
<1>6. QED
  BY <1>1, <1>2, <1>5 DEF Growth

\* A step keeps the order of the log's marks.
LEMMA LogTypeStep ==
    ASSUME LogTypeOK, [Next]_vars
    PROVE  LogTypeOK'
<1>1. LogTypeOK
  OBVIOUS
<1>2. CASE UNCHANGED valveVars
  BY <1>1, <1>2 DEF LogTypeOK
<1>3. CASE Timed
  BY <1>1, <1>3 DEF LogTypeOK, Timed
<1>4. CASE Zeroed
  <2>1. {frames', copied', size', baseline', snapshot', passes'} \subseteq Nat
    BY <1>4 DEF Zeroed
  <2>2. pause' \in BOOLEAN /\ gaveUp' \in BOOLEAN /\ timer' \in BOOLEAN /\ inflight' = "none" /\ row' = "none"
    BY <1>4 DEF Zeroed
  <2>3. copied' <= frames' /\ snapshot' <= frames' /\ frames' <= size' /\ baseline' <= size'
    BY <1>4 DEF Zeroed
  <2>4. QED
    BY <2>1, <2>2, <2>3 DEF LogTypeOK
<1>5. CASE Commit
  BY <1>1, <1>5, CommitFacts
<1>6. CASE Pause
  BY <1>1, <1>6 DEF LogTypeOK, Pause
<1>7. CASE Check \/ NextPass
  BY <1>1, <1>7 DEF LogTypeOK, Check, NextPass, Begin
<1>8. CASE Fired \/ PassAnswered
  <2>1. UNCHANGED <<frames, copied, size, timer>> /\ inflight' = "none" /\ row' = "none" /\ snapshot' = 0
    BY <1>8 DEF Fired, PassAnswered
  <2>2. baseline' \in {size, baseline} /\ passes' \in {0, passes}
    BY <1>8 DEF Fired, PassAnswered, Rebase
  <2>3. pause' \in BOOLEAN /\ gaveUp' \in BOOLEAN
    BY <1>1, <1>8 DEF LogTypeOK, Fired, PassAnswered
  <2>4. {frames, copied, size, baseline, passes} \subseteq Nat /\ copied <= frames /\ frames <= size /\ baseline <= size
    BY <1>1 DEF LogTypeOK
  <2>5. QED
    BY <1>1, <2>1, <2>2, <2>3, <2>4 DEF LogTypeOK
<1>9. ASSUME NEW r \in {"full", "part", "null"}, CheckpointEnds(r) PROVE LogTypeOK'
  BY <1>1, <1>9 DEF LogTypeOK, CheckpointEnds, Larger
<1>10. QED
  BY <1>2, <1>3, <1>4, <1>5, <1>6, <1>7, <1>8, <1>9, ValveCases DEF ValveMoves

\* Which phases a step leads to.
LEMMA PhaseFacts ==
    ASSUME [Next]_vars
    PROVE  /\ setting' = setting
           /\ pc \in Healed => pc' \in Healed
           /\ pc' \in {"begin", "drain", "closing"} \cup Loading => pc \in {"begin", "drain", "closing"} \cup Loading
           /\ pc' \in Loading => pc \in Loading \cup {"begin", "closing"}
           /\ pc' = "begin" => pc = "begin"
           /\ pc' \in {"remove", "batch"} => pc \in {"resolve", "batch", "admit", "remove"}
<1>1. CASE Load
  BY <1>1 DEF Healed, Loading, Load, OpenWindow, OpenThrows, BeginLoad, Skip, Park, Post, MayStore, HasRoom, Store, StoreThrows,
         CloseWriter, Abort, Finish, Drained, Closed, SecondPass
<1>2. CASE EndLoad
  BY <1>2 DEF Healed, Loading, EndLoad, EndParseLoad, EndNodeLoad, Fold, Folded, AfterFold
<1>3. CASE Resolution
  BY <1>3 DEF Healed, Loading, Resolution, BeginResolution, NextBatch, BatchAnswered, AdmitEdges, RemoveRows,
         BatchThrows, Unwind, EndResolutionLoad
<1>4. CASE PoolReady \/ Settle \/ Heal \/ Crash \/ GuestOpens
  BY <1>4 DEF Healed, Loading, PoolReady, Settle, Heal, HealNodes, HealIndexes, Healing, Crash, GuestOpens
<1>5. CASE WriterRuns \/ WriterEvents \/ WriterDies \/ ValveEvents \/ PoolTimer \/ PoolEvents \/ UNCHANGED vars
  BY <1>5 DEF WriterRuns, WriterEvents, WriterDies, ValveEvents, PoolTimer, PoolEvents, Elsewhere
<1>6. QED
  BY <1>1, <1>2, <1>3, <1>4, <1>5 DEF Next, Main

\* Only a commit makes the log grow, and a pause that had given up ends well only when all is folded.
LEMMA GrowthFacts ==
    ASSUME LogTypeOK, [Next]_vars, ~Commit \/ (~Store /\ ~WriterRuns /\ pc' \notin {"remove", "batch"})
    PROVE  Growth \in Nat /\ Growth' \in Nat /\ Growth' <= Growth /\ (~gaveUp' => ~gaveUp \/ Growth' = 0)
<1>1. size \in Nat /\ baseline \in Nat /\ baseline <= size
  BY DEF LogTypeOK
<1>2. CASE UNCHANGED <<size, baseline, gaveUp>>
  BY <1>1, <1>2 DEF Growth
<1>3. CASE Zeroed
  BY <1>1, <1>3 DEF Growth, Zeroed
<1>4. CASE Fired
  BY <1>1, <1>4 DEF Growth, Fired, Rebase
<1>5. CASE PassAnswered
  <2>1. CASE row = "full"
    <3>1. baseline' = size /\ size' = size
      BY <1>5, <2>1 DEF PassAnswered, Rebase
    <3>2. QED
      BY <1>1, <3>1 DEF Growth
  <2>2. CASE row # "full"
    <3>1. baseline' = baseline /\ size' = size /\ (~gaveUp' => ~gaveUp)
      BY <1>5, <2>2 DEF PassAnswered, Rebase
    <3>2. QED
      BY <1>1, <3>1 DEF Growth
  <2>3. QED
    BY <2>1, <2>2
<1>6. Timed \/ Check \/ NextPass \/ Pause \/ (\E r \in {"full", "part", "null"} : CheckpointEnds(r)) =>
         UNCHANGED <<size, baseline, gaveUp>>
  BY DEF Timed, Check, NextPass, Begin, Pause, CheckpointEnds
<1>7. QED
  BY <1>2, <1>3, <1>4, <1>5, <1>6, ValveCases DEF ValveMoves

\* Whether Open is still queued after a message is appended or taken.
LEMMA FirstFacts ==
    ASSUME inbox \in Seq(Messages)
    PROVE  /\ \A m \in Messages \ {Open} : inbox' = Append(inbox, m) => First' = First
           /\ inbox' = <<Open>> => First' = 1
           /\ /\ inbox # <<>> /\ inbox' = Tail(inbox)
              /\ \A i \in 1..Len(inbox) : inbox[i] = Open => i = 1
              => First' = 0
<1>1. ASSUME NEW m \in Messages \ {Open}, inbox' = Append(inbox, m) PROVE First' = First
  <2>1. inbox = <<>> => inbox' # <<>> /\ Head(inbox') = m
    BY <1>1
  <2>2. inbox # <<>> => inbox' # <<>> /\ Head(inbox') = Head(inbox)
    BY <1>1
  <2>3. QED
    BY <1>1, <2>1, <2>2 DEF First, Opening
<1>2. inbox' = <<Open>> => First' = 1
  <2>1. inbox' = <<Open>> => inbox' # <<>> /\ Head(inbox') = Open
    OBVIOUS
  <2>2. QED
    BY <2>1 DEF First, Opening
<1>3. ASSUME inbox # <<>>, inbox' = Tail(inbox), \A i \in 1..Len(inbox) : inbox[i] = Open => i = 1
      PROVE  First' = 0
  <2>1. /\ Len(inbox) \in Nat /\ Len(inbox') = Len(inbox) - 1
        /\ \A i \in 1..(Len(inbox) - 1) : inbox'[i] = inbox[i + 1]
    BY <1>3, TailFacts
  <2>2. inbox' # <<>> => Len(inbox) - 1 >= 1 /\ Head(inbox') = inbox'[1]
    BY <1>3, <2>1
  <2>3. inbox' # <<>> => Head(inbox') = inbox[2] /\ 2 \in 1..Len(inbox)
    BY <2>1, <2>2
  <2>4. QED
    BY <1>3, <2>3 DEF First, Opening
<1>4. QED
  BY <1>1, <1>2, <1>3

\* The ways in which a step changes the queue of the worker.
LEMMA QueueCases ==
    ASSUME [Next]_vars
    PROVE  \/ UNCHANGED <<inbox, thread>>
           \/ thread' # "running" /\ inbox' \in {inbox, <<>>}
           \/ BeginLoad /\ Start
           \/ Post \/ WriterRuns
           \/ thread' = thread /\ \E m \in {Drain, Close} : inbox' = Append(inbox, m)
<1>1. CASE BeginLoad
  BY <1>1 DEF BeginLoad
<1>2. CASE StoreThrows \/ Abort \/ Finish \/ Drained
  BY <1>2 DEF StoreThrows, Abort, Finish, Drained, CloseWriter, AskClose, AskDrain
<1>3. CASE OpenWindow \/ OpenThrows \/ Skip \/ Park \/ HasRoom \/ Store \/ Closed \/ SecondPass
  BY <1>3 DEF OpenWindow, OpenThrows, Skip, Park, HasRoom, Store, Closed, SecondPass
<1>4. CASE EndLoad \/ Resolution \/ PoolReady \/ Settle \/ Heal \/ GuestOpens
  BY <1>4 DEF EndLoad, EndParseLoad, EndNodeLoad, Fold, Folded, Resolution, BeginResolution, NextBatch,
         BatchAnswered, AdmitEdges, RemoveRows, BatchThrows, Unwind, EndResolutionLoad, PoolReady, Settle,
         Heal, HealNodes, HealIndexes, Healing, GuestOpens
<1>5. CASE ValveEvents \/ PoolTimer \/ PoolEvents \/ UNCHANGED vars
  BY <1>5 DEF ValveEvents, PoolTimer, PoolEvents
<1>6. CASE WriterEvents \/ WriterDies \/ Crash
  BY <1>6 DEF WriterEvents, ClientStep, OnAnswer, OnError, OnExit, Terminate, WriterDies, WorkerDies, Crash
<1>7. QED
  BY <1>1, <1>2, <1>3, <1>4, <1>5, <1>6 DEF Next, Main, Load

\* Without a valve the log stays as it is until a crash.
LEMMA UnvalvedStep ==
    ASSUME LogTypeOK, Unvalved, [Next]_vars
    PROVE  Unvalved'
<1>1. SUFFICES ASSUME "valve" \notin setting', pc' \notin Healed
               PROVE  (Growth = OldFrames /\ ~timer /\ ~pause /\ inflight = "none")'
  BY DEF Unvalved
<1>2. "valve" \notin setting /\ Growth = OldFrames /\ ~timer /\ ~pause /\ inflight = "none"
  BY <1>1, PhaseFacts DEF Unvalved
<1>3. ~ValveMoves
  BY <1>2 DEF ValveMoves, Check, Fired, NextPass, PassAnswered, CheckpointEnds
<1>4. UNCHANGED valveVars \/ Timed
  BY <1>1, <1>2, <1>3, ValveCases
<1>5. QED
  BY <1>2, <1>4 DEF Timed, Growth

\* Before the run begins its writer has nothing to do.
LEMMA UnstartedStep ==
    ASSUME Living, Unstarted, [Next]_vars
    PROVE  Unstarted'
<1>1. SUFFICES ASSUME pc' = "begin"
               PROVE  inbox' = <<>> /\ answers' = <<>> /\ outstanding' = 0 /\ ~connected'
  BY DEF Unstarted
<1>2. pc = "begin" /\ inbox = <<>> /\ answers = <<>> /\ outstanding = 0 /\ ~connected /\ thread = "none"
  BY <1>1, PhaseFacts DEF Unstarted, Living
<1>3. (Load => OpenWindow) /\ ~EndLoad /\ ~Resolution /\ ~Settle /\ ~Heal
  BY <1>1, <1>2 DEF Load, OpenThrows, BeginLoad, Skip, Park, Post, MayStore, HasRoom, Store, StoreThrows, Abort, Finish,
         Drained, Closed, SecondPass, EndLoad, EndParseLoad, EndNodeLoad, Fold, Folded, Resolution,
         BeginResolution, NextBatch, BatchAnswered, AdmitEdges, RemoveRows, BatchThrows, Unwind,
         EndResolutionLoad, Settle, Heal, HealNodes, HealIndexes
<1>4. CASE WriterRuns \/ WriterEvents \/ WriterDies
  BY <1>2, <1>4 DEF WriterRuns, WorkerStep, WriterEvents, ClientStep, OnAnswer, OnError, OnExit, FailAll,
         Terminate, WriterDies, WorkerDies
<1>5. CASE PoolReady \/ ValveEvents \/ PoolTimer \/ PoolEvents \/ GuestOpens \/ UNCHANGED vars
  BY <1>2, <1>5 DEF PoolReady, ValveEvents, PoolTimer, PoolEvents, GuestOpens, Healing
<1>6. CASE Crash
  BY <1>1, <1>6 DEF Crash
<1>7. CASE OpenWindow
  BY <1>2, <1>7 DEF OpenWindow
<1>8. QED
  BY <1>3, <1>4, <1>5, <1>6, <1>7 DEF Next, Main

\* The bounds are numbers, and the worker's room is the window.
LEMMA BoundFacts ==
    /\ Window \in Nat /\ Window >= 1 /\ Soft \in Nat /\ OldFrames \in Nat /\ Hard \in Nat /\ Room \in Nat /\ Room >= 1
    /\ Larger(OldFrames, Hard + Room) \in Nat /\ Larger(OldFrames, Hard + Room) >= Hard + Room
    /\ "worker" \in setting => Room = Window
  BY StoreWriterAssumption, WalValveAssumption DEF Hard, Room, Larger

\* The bundle that the worker stores next has its place.
LEMMA HeadReserved ==
    ASSUME TypeOK, LogTypeOK, Reserved, WriterRuns, stored' # stored
    PROVE  /\ Head(inbox).type = "bundle" /\ First = 0 /\ Head(inbox) # Open
           /\ "valve" \in setting /\ ~gaveUp => Growth + 1 <= Hard + Window
<1>1. thread = "running" /\ inbox # <<>> /\ Head(inbox).type = "bundle"
  BY DEF WriterRuns, WorkerStep, HandleOpen, HandleBundle, HandleDrain, HandleClose
<1>2. inbox \in Seq(Messages)
  BY DEF TypeOK, SequencesOK
<1>3. Head(inbox) = inbox[1] /\ 1 \in 1..Len(inbox)
  BY <1>1, <1>2
<1>4. Head(inbox) # Open
  BY <1>1, MessageFacts
<1>5. First = 0
  BY <1>4 DEF First, Opening
<1>6. "valve" \in setting /\ ~gaveUp => Growth + Ahead(1) <= Hard + Window
  BY <1>1, <1>3 DEF Reserved
<1>7. QED
  BY <1>1, <1>4, <1>5, <1>6 DEF Ahead

\* A commit finds the log below its bound.
LEMMA GrownStep ==
    ASSUME TypeOK, Living, LogTypeOK, Bounded, [Next]_vars
    PROVE  Grown'
<1>1. SUFFICES ASSUME "valve" \in setting', ~gaveUp', pc' \in {"begin", "drain", "closing"} \cup Loading
               PROVE  Growth' <= Larger(OldFrames, Hard + Room')
  BY DEF Grown
<1>2. "valve" \in setting /\ pc \in {"begin", "drain", "closing"} \cup Loading /\ Room' = Room /\ setting' = setting
  BY <1>1, PhaseFacts DEF Room
<1>3. ~gaveUp => Growth <= Larger(OldFrames, Hard + Room)
  BY <1>2 DEF Bounded, Grown
<1>4. CASE ~Commit
  BY <1>1, <1>2, <1>3, <1>4, GrowthFacts, BoundFacts
<1>5. CASE Commit
  <2>1. Growth \in Nat /\ Growth' \in Nat /\ Growth' <= Growth + 1 /\ ~gaveUp
    BY <1>1, <1>5, CommitFacts DEF Commit
  <2>2. CASE Store
    <3>1. ~UsesWriter /\ MayStore
      BY <2>2 DEF Store
    <3>2. Growth <= Hard
      BY <1>2, <2>1, <3>1, BoundFacts DEF MayStore, Bounded, Paused
    <3>3. QED
      BY <1>2, <2>1, <3>2, BoundFacts
  <2>3. CASE WriterRuns /\ stored' # stored
    <3>1. Growth + 1 <= Hard + Window
      BY <1>2, <2>1, <2>3, HeadReserved DEF Bounded
    <3>2. "worker" \in setting
      BY <2>3 DEF Living, WriterRuns, WorkerStep
    <3>3. QED
      BY <1>2, <2>1, <3>1, <3>2, BoundFacts
  <2>4. CASE UNCHANGED valveVars \/ Timed \/ ValveMoves \/ Pause
    <3>1. size' = size /\ (baseline' = baseline \/ baseline' = size)
      BY <2>4 DEF Timed, ValveMoves, Check, Fired, Rebase, NextPass, PassAnswered, Pause, CheckpointEnds
    <3>2. QED
      BY <1>2, <1>3, <2>1, <3>1, BoundFacts DEF LogTypeOK, Growth
  <2>5. pc' \notin {"remove", "batch"} /\ pc' \notin Healed
    BY <1>1 DEF Loading, Healed
  <2>6. QED
    BY <2>2, <2>3, <2>4, <2>5, ValveCases
<1>6. QED
  BY <1>4, <1>5

\* What a step of the worker does to its queue and to the log.
LEMMA WorkerFacts ==
    ASSUME TypeOK, Living, LogTypeOK, Reserved, WriterRuns
    PROVE  /\ thread = "running" /\ inbox # <<>> /\ UNCHANGED <<firstError, outstanding, gaveUp, setting, pc, pause, retrying>>
           /\ Len(inbox) \in Nat /\ Len(inbox) >= 1 /\ Len(inbox') = Len(inbox) - 1
           /\ \A i \in 1..Len(inbox') : i + 1 \in 1..Len(inbox) /\ inbox'[i] = inbox[i + 1] /\ inbox'[i] # Open
           /\ First \in {0, 1} /\ First' = 0 /\ (Opening <=> Head(inbox).type = "open") /\ (First = 1 <=> Opening)
           /\ Growth \in Nat /\ Growth' \in Nat
           /\ Growth' <= Growth + IF stored' = stored THEN 0 ELSE 1
           /\ stored' # stored => First = 0
           /\ "worker" \in setting /\ ~retrying
<1>1. /\ thread = "running" /\ inbox # <<>> /\ inbox' = Tail(inbox)
      /\ UNCHANGED <<firstError, outstanding, setting, pc, retrying>> /\ "worker" \in setting /\ ~retrying
  BY DEF WriterRuns, WorkerStep, Elsewhere, Living
<1>2. inbox \in Seq(Messages)
  BY DEF TypeOK, SequencesOK
<1>3. /\ Len(inbox) \in Nat /\ Len(inbox) >= 1 /\ Head(inbox) = inbox[1] /\ Len(inbox') = Len(inbox) - 1
      /\ \A i \in 1..(Len(inbox) - 1) : inbox'[i] = inbox[i + 1]
  BY <1>1, <1>2, TailFacts
<1>4. \A i \in 1..Len(inbox) : inbox[i] = Open => i = 1
  BY DEF Reserved
<1>5. \A i \in 1..Len(inbox') : i + 1 \in 1..Len(inbox) /\ inbox'[i] = inbox[i + 1] /\ inbox'[i] # Open
  <2>1. \A i \in 1..Len(inbox') : i + 1 \in 1..Len(inbox) /\ inbox'[i] = inbox[i + 1] /\ i + 1 # 1
    BY <1>3
  <2>2. QED
    BY <1>4, <2>1
<1>6. First' = 0
  BY <1>1, <1>2, <1>4, FirstFacts
<1>7. First \in {0, 1} /\ (Opening <=> Head(inbox) = Open) /\ (First = 1 <=> Opening)
  BY <1>1 DEF First, Opening
<1>8. Head(inbox) = Open <=> Head(inbox).type = "open"
  <2>1. Head(inbox) \in Messages
    BY <1>1, <1>2, SeqFacts
  <2>2. QED
    BY <2>1, MessageFacts
<1>9. /\ Growth \in Nat /\ Growth' \in Nat /\ UNCHANGED <<gaveUp, pause>>
      /\ Growth' <= Growth + IF stored' = stored THEN 0 ELSE 1
  <2>1. Growth \in Nat
    BY DEF LogTypeOK, Growth
  <2>2. CASE UNCHANGED valveVars
    BY <2>1, <2>2 DEF Growth
  <2>3. CASE Commit /\ stored' # stored
    <3>1. UNCHANGED <<gaveUp, pause>>
      BY <2>3 DEF Commit
    <3>2. QED
      BY <2>3, <3>1, CommitFacts
  <2>4. QED
    BY <2>2, <2>3 DEF WriterRuns, Write
<1>10. stored' # stored => First = 0
  BY HeadReserved
<1>11. QED
  BY <1>1, <1>3, <1>5, <1>6, <1>7, <1>8, <1>9, <1>10

\* Whenever the main thread may send, the queue leaves room for one bundle.
LEMMA SendFacts ==
    ASSUME TypeOK, Living, LogTypeOK, Bounded, thread = "running", ~firstError, UsesWriter,
           pc \in {"load", "parked"}
    PROVE  /\ Len(inbox) \in Nat /\ outstanding \in Nat /\ outstanding < Window /\ First \in {0, 1}
           /\ Len(inbox) + 1 - First <= outstanding + 1
<1>1. outstanding < Window /\ outstanding \in Nat
  BY DEF Bounded, Roomy, TypeOK
<1>2. /\ inbox \in Seq(Messages) /\ answers \in Seq(Answers)
  BY DEF TypeOK, SequencesOK
<1>3. Len(inbox) \in Nat /\ Len(answers) \in Nat /\ (answers # <<>> => Len(answers) >= 1)
  BY <1>2
<1>4. \/ Opening /\ Len(inbox) <= outstanding + 1
      \/ ~Opening /\ answers # <<>> /\ Len(inbox) + Len(answers) <= outstanding + 1
      \/ ~Opening /\ Len(inbox) + Len(answers) <= outstanding
  <2>1. Counted
    BY DEF Bounded
  <2>2. QED
    BY <1>1, <1>3, <2>1 DEF Counted, Tally, Loading
<1>5. First \in {0, 1} /\ (Opening => First = 1) /\ (~Opening => First = 0)
  BY DEF First
<1>6. QED
  BY <1>1, <1>3, <1>4, <1>5, StoreWriterAssumption

\* A bundle is sent only when the log has room for it and for those before it.
LEMMA ReservedStep ==
    ASSUME TypeOK, Living, LogTypeOK, Bounded, [Next]_vars
    PROVE  Reserved'
<1>1. inbox \in Seq(Messages) /\ Len(inbox) \in Nat
  BY DEF TypeOK, SequencesOK
<1>2. /\ \A i \in 1..Len(inbox) : inbox[i] = Open => i = 1
      /\ thread = "running" =>
          \A i \in 1..Len(inbox) : inbox[i].type = "bundle" =>
             /\ Ahead(i) <= Window
             /\ "valve" \in setting /\ ~gaveUp => Growth + Ahead(i) <= Hard + Window
  BY DEF Bounded, Reserved
<1>3. First \in {0, 1} /\ setting' = setting
  BY PhaseFacts DEF First
<1>4. CASE WriterRuns
  <2>1. ASSUME NEW i \in 1..Len(inbox'), inbox'[i].type = "bundle"
        PROVE  /\ i - First' <= Window
               /\ "valve" \in setting' /\ ~gaveUp' => Growth' + (i - First') <= Hard + Window
    <3>1. /\ i + 1 \in 1..Len(inbox) /\ inbox[i + 1].type = "bundle" /\ thread = "running"
          /\ Growth \in Nat /\ Growth' \in Nat /\ First' = 0 /\ gaveUp' = gaveUp
          /\ Growth' <= Growth + IF stored' = stored THEN 0 ELSE 1
          /\ (stored' # stored => First = 0)
      BY <1>4, <2>1, WorkerFacts DEF Bounded
    <3>2. /\ (i + 1) - First <= Window
          /\ "valve" \in setting /\ ~gaveUp => Growth + ((i + 1) - First) <= Hard + Window
      BY <1>2, <3>1 DEF Ahead
    <3>3. i \in Int /\ i - First' = i
      BY <1>4, <2>1, <3>1, WorkerFacts DEF Bounded
    <3>4. (i + 1) - First >= i /\ (First = 0 => (i + 1) - First = i + 1) /\ (i + 1) - First \in Int
      BY <1>3, <3>3
    <3>5. i - First' <= Window
      BY <3>2, <3>3, <3>4, BoundFacts
    <3>6. "valve" \in setting' /\ ~gaveUp' => Growth' + i <= Hard + Window
      <4>1. SUFFICES ASSUME "valve" \in setting, ~gaveUp PROVE Growth' + i <= Hard + Window
        BY <1>3, <3>1
      <4>2. Growth + ((i + 1) - First) <= Hard + Window
        BY <3>2, <4>1
      <4>3. Growth' + i <= Growth + ((i + 1) - First)
        <5>1. CASE stored' = stored
          <6>1. Growth' <= Growth /\ Growth \in Nat /\ Growth' \in Nat
            BY <3>1, <5>1
          <6>2. QED
            BY <3>3, <3>4, <6>1
        <5>2. CASE stored' # stored
          <6>1. Growth' <= Growth + 1 /\ Growth \in Nat /\ Growth' \in Nat /\ (i + 1) - First = i + 1
            BY <3>1, <3>4, <5>2
          <6>2. QED
            BY <3>3, <6>1
        <5>3. QED
          BY <5>1, <5>2
      <4>4. Growth' + i \in Int /\ Growth + ((i + 1) - First) \in Int /\ Hard + Window \in Int
        BY <3>1, <3>3, <3>4, BoundFacts
      <4>5. QED
        BY <4>2, <4>3, <4>4
    <3>7. QED
      BY <3>3, <3>5, <3>6
  <2>2. \A i \in 1..Len(inbox') : inbox'[i] = Open => i = 1
    BY <1>4, WorkerFacts DEF Bounded
  <2>3. QED
    BY <2>1, <2>2 DEF Reserved, Ahead
<1>5. ASSUME thread = "running", ~WriterRuns
      PROVE  Growth \in Nat /\ Growth' \in Nat /\ Growth' <= Growth /\ (~gaveUp' => ~gaveUp \/ Growth' = 0)
  <2>1. pc \in Loading \cup {"drain", "closing"} /\ UsesWriter
    BY <1>5 DEF Living, UsesWriter
  <2>2. ~Store /\ pc' \notin {"remove", "batch"}
    BY <2>1, PhaseFacts DEF Store, Loading
  <2>3. QED
    BY <1>5, <2>2, GrowthFacts
\* A queue that has no bundle that it did not have.
<1>6. ASSUME ~WriterRuns, \A i \in 1..Len(inbox') : inbox'[i] = Open => i = 1,
             thread' = "running" =>
                /\ thread = "running" /\ First' = First
                /\ \A i \in 1..Len(inbox') : inbox'[i].type = "bundle" =>
                      i \in 1..Len(inbox) /\ inbox[i].type = "bundle"
      PROVE  Reserved'
  <2>1. ASSUME thread' = "running", NEW i \in 1..Len(inbox'), inbox'[i].type = "bundle"
        PROVE  /\ i - First' <= Window
               /\ "valve" \in setting' /\ ~gaveUp' => Growth' + (i - First') <= Hard + Window
    <3>1. thread = "running" /\ First' = First /\ i \in 1..Len(inbox) /\ inbox[i].type = "bundle"
      BY <1>6, <2>1
    <3>2. i - First \in Int /\ i - First <= Window
      BY <1>1, <1>2, <1>3, <3>1 DEF Ahead
    <3>3. "valve" \in setting /\ ~gaveUp => Growth + (i - First) <= Hard + Window
      BY <1>2, <3>1 DEF Ahead
    <3>4. Growth \in Nat /\ Growth' \in Nat /\ Growth' <= Growth /\ (~gaveUp' => ~gaveUp \/ Growth' = 0)
      BY <1>5, <1>6, <3>1
    <3>5. "valve" \in setting' /\ ~gaveUp' => Growth' + (i - First) <= Hard + Window
      <4>1. Hard \in Nat /\ Window \in Nat
        BY BoundFacts
      <4>2. SUFFICES ASSUME "valve" \in setting, ~gaveUp' PROVE Growth' + (i - First) <= Hard + Window
        BY <1>3
      <4>3. CASE ~gaveUp
        <5>1. Growth + (i - First) <= Hard + Window
          BY <3>3, <4>2, <4>3
        <5>2. QED
          BY <3>2, <3>4, <4>1, <5>1
      <4>4. CASE Growth' = 0
        BY <3>2, <4>1, <4>4
      <4>5. QED
        BY <3>4, <4>2, <4>3, <4>4
    <3>6. QED
      BY <3>1, <3>2, <3>5
  <2>2. QED
    BY <1>6, <2>1 DEF Reserved, Ahead
<1>7. CASE UNCHANGED <<inbox, thread>> /\ ~WriterRuns
  BY <1>2, <1>6, <1>7 DEF First, Opening
<1>8. CASE thread' # "running" /\ inbox' \in {inbox, <<>>} /\ ~WriterRuns
  BY <1>2, <1>6, <1>8
<1>9. CASE BeginLoad /\ Start
  <2>1. inbox' = <<Open>>
    BY <1>9 DEF Start
  <2>2. Len(inbox') = 1 /\ inbox'[1].type # "bundle"
    BY <2>1, MessageFacts
  <2>3. QED
    BY <2>2 DEF Reserved
<1>10. ASSUME NEW m \in Messages \ {Open}, inbox' = Append(inbox, m), thread' = thread
       PROVE  /\ First' = First /\ Len(inbox') = Len(inbox) + 1 /\ inbox'[Len(inbox) + 1] = m
              /\ \A i \in 1..Len(inbox) : inbox'[i] = inbox[i]
              /\ \A i \in 1..Len(inbox') : inbox'[i] = Open => i = 1
  <2>1. First' = First
    BY <1>1, <1>10, FirstFacts
  <2>2. /\ Len(inbox') = Len(inbox) + 1 /\ inbox'[Len(inbox) + 1] = m
        /\ \A i \in 1..Len(inbox) : inbox'[i] = inbox[i]
    BY <1>1, <1>10, AppendFacts
  <2>3. \A i \in 1..Len(inbox') : i \in 1..Len(inbox) \/ i = Len(inbox) + 1
    BY <1>1, <2>2
  <2>4. QED
    BY <1>2, <2>1, <2>2, <2>3
<1>11. ASSUME NEW m \in {Drain, Close}, inbox' = Append(inbox, m), thread' = thread, ~WriterRuns
       PROVE  Reserved'
  <2>1. m \in Messages \ {Open} /\ m.type # "bundle"
    BY MessageFacts
  <2>2. /\ First' = First /\ Len(inbox') = Len(inbox) + 1 /\ inbox'[Len(inbox) + 1] = m
        /\ \A i \in 1..Len(inbox) : inbox'[i] = inbox[i]
        /\ \A i \in 1..Len(inbox') : inbox'[i] = Open => i = 1
    BY <1>10, <1>11, <2>1
  <2>3. \A i \in 1..Len(inbox') : i \in 1..Len(inbox) \/ i = Len(inbox) + 1
    BY <1>1, <2>2
  <2>4. \A i \in 1..Len(inbox') : inbox'[i].type = "bundle" => i \in 1..Len(inbox) /\ inbox[i].type = "bundle"
    BY <2>1, <2>2, <2>3
  <2>5. QED
    BY <1>6, <1>11, <2>2, <2>4
<1>12. CASE Post /\ ~WriterRuns
  <2>1. /\ inbox' = Append(inbox, Bundle(Head(todo))) /\ thread' = thread /\ todo # <<>> /\ ~firstError /\ UsesWriter
        /\ MayStore /\ pc \in {"load", "parked"}
    BY <1>12 DEF Post, Send, Refused, MayStore
  <2>2. Bundle(Head(todo)) \in Messages \ {Open}
    <3>1. Head(todo) \in Files
      BY <2>1, SeqFacts DEF TypeOK, SequencesOK
    <3>2. QED
      BY <3>1, MessageFacts
  <2>3. /\ First' = First /\ Len(inbox') = Len(inbox) + 1
        /\ \A i \in 1..Len(inbox) : inbox'[i] = inbox[i]
        /\ \A i \in 1..Len(inbox') : inbox'[i] = Open => i = 1
    BY <1>10, <2>1, <2>2
  <2>4. ASSUME thread = "running"
        PROVE  /\ Len(inbox) + 1 - First <= Window
               /\ "valve" \in setting /\ ~gaveUp => Growth + (Len(inbox) + 1 - First) <= Hard + Window
    <3>1. /\ outstanding \in Nat /\ outstanding < Window /\ Len(inbox) + 1 - First <= outstanding + 1
      BY <2>1, <2>4, SendFacts
    <3>2. Len(inbox) + 1 - First <= Window /\ Len(inbox) + 1 - First \in Int
      BY <1>1, <1>3, <3>1, BoundFacts
    <3>3. CASE pc = "load"
      <4>1. "valve" \in setting => Growth <= Hard
        BY <2>1, <3>3 DEF MayStore
      <4>2. Growth \in Nat
        BY <1>5, <1>12, <2>4
      <4>3. QED
        BY <3>2, <4>1, <4>2, BoundFacts
    <3>4. CASE pc = "parked"
      <4>1. ~pause
        BY <2>1, <3>4 DEF MayStore
      <4>2. ~gaveUp => Growth + Len(inbox) + 1 - First <= Window
        BY <2>1, <2>4, <3>4, <4>1 DEF Bounded, Paused
      <4>3. Growth \in Nat
        BY <1>5, <1>12, <2>4
      <4>4. QED
        BY <1>1, <1>3, <3>2, <4>2, <4>3, BoundFacts
    <3>5. QED
      BY <2>1, <3>3, <3>4
  <2>5. UNCHANGED <<setting, gaveUp, size, baseline>>
    BY <1>12 DEF Post
  <2>6. ASSUME thread' = "running", NEW i \in 1..Len(inbox'), inbox'[i].type = "bundle"
        PROVE  /\ i - First' <= Window
               /\ "valve" \in setting' /\ ~gaveUp' => Growth' + (i - First') <= Hard + Window
    <3>1. thread = "running" /\ Growth' = Growth
      BY <2>1, <2>5, <2>6 DEF Growth
    <3>2. CASE i \in 1..Len(inbox)
      <4>1. inbox[i].type = "bundle"
        BY <2>3, <2>6, <3>2
      <4>2. QED
        BY <1>2, <2>3, <2>5, <3>1, <3>2, <4>1 DEF Ahead
    <3>3. CASE i = Len(inbox) + 1
      <4>1. i - First' = Len(inbox) + 1 - First /\ setting' = setting /\ gaveUp' = gaveUp
        <5>1. First' = First
          BY <2>3
        <5>2. i - First' = Len(inbox) + 1 - First
          BY <1>1, <1>3, <3>3, <5>1
        <5>3. QED
          BY <2>5, <5>2
      <4>2. /\ Len(inbox) + 1 - First <= Window
            /\ "valve" \in setting /\ ~gaveUp => Growth + (Len(inbox) + 1 - First) <= Hard + Window
        BY <2>4, <3>1
      <4>3. QED
        BY <3>1, <4>1, <4>2
    <3>4. QED
      BY <1>1, <2>3, <2>6, <3>2, <3>3
  <2>7. QED
    BY <2>3, <2>6 DEF Reserved, Ahead
<1>13. QED
  BY <1>4, <1>7, <1>8, <1>9, <1>11, <1>12, QueueCases

\* The steps that leave the writer and the phase alone, and the phases of those that are not of the load.
LEMMA WriterCases ==
    ASSUME [Next]_vars
    PROVE  \/ Load \/ WriterRuns \/ WriterEvents \/ WriterDies
           \/ UNCHANGED <<pc, setting, retrying, writerVars>>
           \/ pc' \notin {"begin"} \cup Loading
<1>1. CASE EndLoad
  BY <1>1 DEF Loading, EndLoad, EndParseLoad, EndNodeLoad, Fold, Folded, AfterFold
<1>2. CASE Resolution
  BY <1>2 DEF Loading, Resolution, BeginResolution, NextBatch, BatchAnswered, AdmitEdges, RemoveRows,
         BatchThrows, Unwind, EndResolutionLoad
<1>3. CASE Settle \/ Heal \/ Crash
  BY <1>3 DEF Loading, Settle, Heal, HealNodes, HealIndexes, Healing, Crash
<1>4. CASE PoolReady \/ GuestOpens \/ ValveEvents \/ PoolTimer \/ PoolEvents \/ UNCHANGED vars
  BY <1>4 DEF PoolReady, GuestOpens, Healing, ValveEvents, PoolTimer, PoolEvents, Elsewhere
<1>5. QED
  BY <1>1, <1>2, <1>3, <1>4 DEF Next, Main

\* The main thread goes on only when fewer bundles than the window are outstanding.
LEMMA RoomyStep ==
    ASSUME TypeOK, Bounded, [Next]_vars
    PROVE  Roomy'
<1>1. SUFFICES ASSUME UsesWriter', ~firstError', pc' \in {"load", "parked"} \/ (pc' = "below" /\ ~below')
               PROVE  outstanding' < Window
  BY DEF Roomy
<1>2. /\ outstanding \in Nat /\ Window \in Nat /\ Window >= 1 /\ ~retrying' /\ "worker" \in setting
      /\ below \in BOOLEAN /\ retrying \in BOOLEAN
  BY <1>1, PhaseFacts, BoundFacts DEF TypeOK, UsesWriter
<1>3. UsesWriter /\ ~firstError /\ (pc \in {"load", "parked"} \/ (pc = "below" /\ ~below)) => outstanding < Window
  BY DEF Bounded, Roomy
<1>4. ASSUME outstanding' = outstanding, ~firstError, ~retrying, below' = below, pc' = pc
      PROVE  outstanding' < Window
  BY <1>1, <1>2, <1>3, <1>4 DEF UsesWriter
<1>5. CASE Load
  <2>1. CASE BeginLoad
    BY <1>2, <2>1 DEF BeginLoad, Start, Bounded, Unstarted
  <2>7. CASE OpenWindow \/ OpenThrows
    BY <1>1, <2>7 DEF OpenWindow, OpenThrows
  <2>2. CASE Post
    <3>1. outstanding' = outstanding + 1 /\ below' = (outstanding' >= Window)
      BY <2>2 DEF Post, Send
    <3>2. ~below'
      BY <1>1, <2>2 DEF Post
    <3>3. ~(outstanding' >= Window)
      BY <3>1, <3>2
    <3>4. outstanding' \in Nat
      BY <1>2, <3>1
    <3>5. QED
      BY <1>2, <3>3, <3>4
  <2>3. CASE Skip \/ Park \/ HasRoom
    BY <1>1, <1>2, <1>3, <2>3 DEF Skip, Park, HasRoom, UsesWriter
  <2>4. CASE Store
    BY <1>2, <2>4 DEF Store, UsesWriter
  <2>5. CASE StoreThrows \/ Abort \/ Finish \/ Drained \/ Closed \/ SecondPass
    BY <1>1, <1>2, <2>5 DEF StoreThrows, CloseWriter, Abort, Finish, Drained, Closed, SecondPass
  <2>6. QED
    BY <1>5, <2>1, <2>2, <2>3, <2>4, <2>5, <2>7 DEF Load
<1>6. CASE WriterRuns \/ WriterDies
  BY <1>1, <1>2, <1>4, <1>6 DEF WriterRuns, WorkerStep, WriterDies, WorkerDies, Elsewhere
<1>7. CASE WriterEvents
  <2>1. UNCHANGED <<pc, retrying>>
    BY <1>7 DEF WriterEvents, Elsewhere
  <2>2. CASE Terminate \/ OnError \/ OnExit
    BY <1>1, <1>2, <1>4, <2>1, <2>2 DEF Terminate, OnError, OnExit, FailAll
  <2>3. CASE OnAnswer
    <3>1. CASE UNCHANGED <<firstError, outstanding, below>>
      BY <1>1, <1>2, <1>4, <2>1, <3>1
    <3>2. CASE SettleOne /\ firstError' = firstError
      <4>1. outstanding' <= outstanding /\ outstanding' \in Nat /\ below' = (below /\ outstanding' >= Window)
        BY <1>2, <3>2 DEF SettleOne
      <4>2. CASE below /\ ~below'
        <5>1. ~(outstanding' >= Window)
          BY <4>1, <4>2
        <5>2. QED
          BY <1>2, <4>1, <5>1
      <4>3. CASE ~(below /\ ~below')
        <5>1. outstanding < Window
          BY <1>1, <1>2, <1>3, <2>1, <3>2, <4>3 DEF UsesWriter
        <5>2. QED
          BY <1>2, <4>1, <5>1
      <4>4. QED
        BY <4>2, <4>3
    <3>3. QED
      BY <1>1, <2>3, <3>1, <3>2 DEF OnAnswer
  <2>4. QED
    BY <1>7, <2>2, <2>3 DEF WriterEvents, ClientStep
<1>8. CASE UNCHANGED <<pc, setting, retrying, writerVars>>
  BY <1>1, <1>2, <1>4, <1>8
<1>9. QED
  BY <1>1, <1>5, <1>6, <1>7, <1>8, WriterCases DEF Loading

\* The counter of outstanding bundles covers the queue and the answers.
LEMMA CountedStep ==
    ASSUME TypeOK, Living, LogTypeOK, Storing, Bounded, [Next]_vars
    PROVE  Counted'
<1>1. SUFFICES ASSUME pc' \in Loading, thread' = "running", ~firstError'
               PROVE  Tally'
  BY DEF Counted
<1>2. /\ inbox \in Seq(Messages) /\ answers \in Seq(Answers) /\ outstanding \in Nat
      /\ Len(inbox) \in Nat /\ Len(answers) \in Nat
  BY DEF TypeOK, SequencesOK
<1>3. /\ answers # <<>> => Len(answers) >= 1 /\ Head(answers) = answers[1]
      /\ answers = <<>> => Len(answers) = 0
  BY <1>2
<1>4. pc \in Loading /\ thread = "running" /\ ~firstError => Tally
  BY DEF Bounded, Counted
<1>5. ASSUME pc \in Loading, thread = "running", ~firstError,
             UNCHANGED <<connected, inbox, answers, outstanding>>
      PROVE  Tally'
  BY <1>4, <1>5 DEF Tally, Opening
<1>6. CASE BeginLoad
  <2>1. pc = "begin" /\ thread = "none" /\ inbox = <<>> /\ answers = <<>> /\ outstanding = 0 /\ ~connected
    BY <1>6 DEF BeginLoad, Living, Bounded, Unstarted
  <2>2. Start
    BY <1>1, <1>6, <2>1 DEF BeginLoad
  <2>3. inbox' = <<Open>> /\ answers' = <<>> /\ outstanding' = 0 /\ ~connected'
    BY <2>1, <2>2 DEF Start
  <2>4. Len(inbox') = 1 /\ Head(inbox') = Open /\ inbox' # <<>> /\ Len(answers') = 0
    BY <2>3
  <2>5. QED
    BY <2>3, <2>4 DEF Tally, Opening
<1>7. CASE Post
  <2>1. /\ inbox' = Append(inbox, Bundle(Head(todo))) /\ outstanding' = outstanding + 1
        /\ UNCHANGED <<connected, answers, thread, firstError>> /\ todo # <<>> /\ pc \in Loading
    BY <1>7 DEF Post, Send, MayStore, Loading
  <2>2. Bundle(Head(todo)) \in Messages \ {Open}
    <3>1. Head(todo) \in Files
      BY <2>1, SeqFacts DEF TypeOK, SequencesOK
    <3>2. QED
      BY <3>1, MessageFacts
  <2>3. Tally
    BY <1>1, <1>4, <2>1
  <2>4. Opening' <=> Opening
    <3>1. First' = First
      BY <1>2, <2>1, <2>2, FirstFacts
    <3>2. QED
      BY <3>1 DEF First
  <2>5. Len(inbox') = Len(inbox) + 1
    BY <1>2, <2>1, <2>2, AppendFacts
  <2>6. CASE ~connected /\ Opening /\ answers = <<>> /\ Len(inbox) <= outstanding + 1
    <3>1. Len(inbox') <= outstanding' + 1
      BY <1>2, <2>1, <2>5, <2>6
    <3>2. QED
      BY <2>1, <2>3, <2>4, <2>6, <3>1 DEF Tally
  <2>7. CASE /\ ~connected /\ ~Opening /\ answers # <<>> /\ Head(answers) = "error"
             /\ Len(inbox) + Len(answers) <= outstanding + 1
    <3>1. Len(inbox') + Len(answers) <= outstanding' + 1
      BY <1>2, <2>1, <2>5, <2>7
    <3>2. QED
      BY <2>1, <2>3, <2>4, <2>7, <3>1 DEF Tally
  <2>8. ASSUME connected, ~Opening, NEW k \in {0, 1}, Len(inbox) + Len(answers) <= outstanding + k
        PROVE  Len(inbox') + Len(answers) <= outstanding' + k
    BY <1>2, <2>1, <2>5, <2>8
  <2>9. CASE /\ connected /\ ~Opening
             /\ Len(inbox) + Len(answers) <=
                   outstanding + IF answers # <<>> /\ Head(answers) = "ready" THEN 1 ELSE 0
    <3>1. Len(inbox') + Len(answers') <=
                   outstanding' + IF answers' # <<>> /\ Head(answers') = "ready" THEN 1 ELSE 0
      BY <2>1, <2>8, <2>9
    <3>2. QED
      BY <2>1, <2>3, <2>4, <2>9, <3>1 DEF Tally
  <2>10. QED
    BY <2>3, <2>6, <2>7, <2>9 DEF Tally
<1>8. CASE WriterRuns
  <2>1. /\ thread = "running" /\ inbox # <<>> /\ UNCHANGED <<firstError, outstanding, pc>> /\ ~retrying
        /\ Len(inbox) >= 1 /\ Len(inbox') = Len(inbox) - 1 /\ First' = 0
        /\ (Opening <=> Head(inbox).type = "open")
    BY <1>8, WorkerFacts DEF Bounded
  <2>2. ~Opening'
    BY <2>1 DEF First
  <2>3. Tally /\ pc \in Loading
    BY <1>1, <1>4, <2>1
  <2>4. Head(inbox).type \notin {"drain", "close"}
    <3>1. Head(inbox) = inbox[1] /\ 1 \in 1..Len(inbox) /\ Head(inbox) \in Messages
      BY <1>2, <2>1, SeqFacts
    <3>2. Head(inbox) # Drain /\ Head(inbox) # Close
      BY <2>1, <2>3, <3>1 DEF Storing, Undrained, Unclosed
    <3>3. QED
      BY <3>1, <3>2, MessageFacts
  <2>5. PICK ok \in BOOLEAN : HandleOpen(ok) \/ HandleBundle(ok)
    BY <1>8, <2>4 DEF WriterRuns, WorkerStep, HandleDrain, HandleClose
  <2>6. CASE HandleOpen(ok)
    <3>1. /\ connected' = ok /\ answers' = Append(answers, IF ok THEN "ready" ELSE "error")
          /\ Opening
      BY <2>1, <2>6 DEF HandleOpen, Reply
    <3>2. answers = <<>> /\ Len(inbox) <= outstanding + 1
      BY <2>3, <3>1 DEF Tally
    <3>3. CASE ok
      <4>1. connected' /\ answers' = <<"ready">>
        BY <3>1, <3>2, <3>3
      <4>2. answers' # <<>> /\ Head(answers') = "ready" /\ Len(answers') = 1
        BY <4>1
      <4>3. Len(inbox') + Len(answers') <= outstanding' + 1
        BY <1>2, <2>1, <3>2, <4>2
      <4>4. \A i \in 1..Len(answers') : answers'[i] = "ready" => i = 1
        BY <4>2
      <4>5. QED
        BY <2>2, <4>1, <4>2, <4>3, <4>4 DEF Tally
    <3>4. CASE ~ok
      <4>1. ~connected' /\ answers' = <<"error">>
        BY <3>1, <3>2, <3>4
      <4>2. answers' # <<>> /\ Head(answers') = "error" /\ Len(answers') = 1
        BY <4>1
      <4>3. Len(inbox') + Len(answers') <= outstanding' + 1
        BY <1>2, <2>1, <3>2, <4>2
      <4>4. \A i \in 1..Len(answers') : answers'[i] = "ready" => i = 1
        BY <4>2
      <4>5. QED
        BY <2>2, <4>1, <4>2, <4>3, <4>4 DEF Tally
    <3>5. QED
      BY <3>3, <3>4
  <2>7. CASE HandleBundle(ok)
    <3>1. /\ connected' = connected /\ (ok => connected) /\ ~Opening
          /\ answers' = Append(answers, IF ok THEN "ack" ELSE "error")
      BY <2>1, <2>7 DEF HandleBundle, Reply
    <3> DEFINE a == IF ok THEN "ack" ELSE "error"
    <3>2. a \in Answers /\ a # "ready" /\ (~ok => a = "error")
      BY DEF Answers
    <3> HIDE DEF a
    <3>3. /\ Len(answers') = Len(answers) + 1 /\ answers'[Len(answers) + 1] = a
          /\ \A i \in 1..Len(answers) : answers'[i] = answers[i]
      <4>1. answers' = Append(answers, a)
        BY <3>1 DEF a
      <4>2. QED
        BY <1>2, <3>2, <4>1, AppendFacts
    <3>4. answers' \in Seq(Answers)
      <4>1. answers' = Append(answers, a)
        BY <3>1 DEF a
      <4>2. QED
        BY <1>2, <3>2, <4>1, SeqFacts
    <3>5. answers' # <<>> /\ Head(answers') = answers'[1]
      BY <1>2, <3>3, <3>4
    <3>6. \A i \in 1..Len(answers') : answers'[i] = "ready" => i = 1
      <4>1. TAKE i \in 1..Len(answers')
      <4>2. i \in 1..Len(answers) \/ i = Len(answers) + 1
        BY <1>2, <3>3
      <4>3. QED
        BY <2>3, <3>2, <3>3, <4>2 DEF Tally
    <3>7. Len(inbox') + Len(answers') = Len(inbox) + Len(answers)
      BY <1>2, <2>1, <3>3
    <3>8. CASE answers # <<>>
      <4>1. Head(answers') = Head(answers)
        <5>1. 1 \in 1..Len(answers)
          BY <1>2, <1>3, <3>8
        <5>2. QED
          BY <1>3, <3>3, <3>5, <3>8, <5>1
      <4>2. QED
        BY <2>1, <2>2, <2>3, <3>1, <3>5, <3>6, <3>7, <3>8, <4>1 DEF Tally
    <3>9. CASE answers = <<>>
      <4>1. connected /\ Len(inbox) + Len(answers) <= outstanding + 0
        BY <2>3, <3>1, <3>9 DEF Tally
      <4>2. Head(answers') # "ready"
        BY <1>3, <3>2, <3>3, <3>5, <3>9
      <4>3. QED
        BY <2>1, <2>2, <3>1, <3>5, <3>6, <3>7, <4>1, <4>2 DEF Tally
    <3>10. QED
      BY <3>8, <3>9
  <2>8. QED
    BY <2>5, <2>6, <2>7
<1>9. CASE WriterEvents
  <2>1. UNCHANGED <<pc, retrying, setting>>
    BY <1>9 DEF WriterEvents, Elsewhere
  <2>2. ~Terminate /\ ~OnError /\ ~OnExit
    BY <1>1 DEF Terminate, OnError, OnExit, FailAll
  <2>3. OnAnswer
    BY <1>9, <2>2 DEF WriterEvents, ClientStep
  <2>4. /\ thread = "running" /\ ~firstError /\ pc \in Loading /\ UNCHANGED <<connected, inbox>>
        /\ answers # <<>> /\ answers' = Tail(answers) /\ Head(answers) # "error"
    BY <1>1, <2>1, <2>3 DEF OnAnswer
  <2>5. Tally
    BY <1>4, <2>4
  <2>6. Opening' <=> Opening
    BY <2>4 DEF Opening
  <2>7. connected /\ ~Opening
    BY <2>4, <2>5 DEF Tally
  <2>8. /\ Len(answers') = Len(answers) - 1 /\ Len(answers) >= 1 /\ Len(answers') \in Nat
        /\ \A i \in 1..(Len(answers) - 1) : answers'[i] = answers[i + 1]
    BY <1>2, <2>4, TailFacts
  <2>9. \A i \in 1..Len(answers') : answers'[i] # "ready"
    <3>1. \A i \in 1..Len(answers') : i + 1 \in 1..Len(answers) /\ i + 1 # 1 /\ answers'[i] = answers[i + 1]
      BY <1>2, <2>8
    <3>2. QED
      BY <2>5, <3>1 DEF Tally
  <2>10. answers' # <<>> => Head(answers') # "ready"
    <3>1. answers' \in Seq(Answers)
      BY <1>2, <2>4, SeqFacts
    <3>2. answers' # <<>> => Head(answers') = answers'[1] /\ 1 \in 1..Len(answers')
      BY <3>1
    <3>3. QED
      BY <2>9, <3>2
  <2>11. Len(inbox') = Len(inbox) /\ connected' = connected
    BY <2>4
  <2>12. Len(inbox') + Len(answers') <= outstanding'
    <3>1. CASE Head(answers) = "ready" /\ outstanding' = outstanding
      <4>1. Len(inbox) + Len(answers) <= outstanding + 1
        BY <2>4, <2>5, <2>7, <3>1 DEF Tally
      <4>2. QED
        BY <1>2, <2>8, <2>11, <3>1, <4>1
    <3>2. CASE Head(answers) = "ack" /\ SettleOne
      <4>1. Len(inbox) + Len(answers) <= outstanding
        BY <1>2, <2>4, <2>5, <2>7, <3>2 DEF Tally
      <4>2. outstanding' = outstanding - 1
        BY <1>2, <2>8, <3>2, <4>1 DEF SettleOne
      <4>3. QED
        BY <1>2, <2>8, <2>11, <4>1, <4>2
    <3>3. Head(answers) # "drained"
      <4>1. Head(answers) \in ToSet(answers)
        <5>1. Head(answers) = answers[1] /\ 1 \in DOMAIN answers
          BY <1>2, <2>4
        <5>2. QED
          BY <5>1 DEF ToSet
      <4>2. ~retrying
        BY <2>4 DEF Living
      <4>3. QED
        BY <2>4, <4>1, <4>2 DEF Storing, Undrained
    <3>4. QED
      BY <2>3, <2>4, <3>1, <3>2, <3>3 DEF OnAnswer
  <2>13. QED
    <3>1. Len(inbox') + Len(answers') <=
             outstanding' + IF answers' # <<>> /\ Head(answers') = "ready" THEN 1 ELSE 0
      <4>1. outstanding' \in Nat
        BY <1>2, <2>3 DEF OnAnswer, SettleOne
      <4>2. QED
        BY <2>10, <2>12, <4>1
    <3>2. QED
      BY <2>6, <2>7, <2>9, <2>11, <3>1 DEF Tally
<1>10. CASE Load /\ ~BeginLoad /\ ~Post
  <2>1. UNCHANGED <<connected, inbox, answers, outstanding, thread, firstError>> /\ pc \in Loading
    <3>1. CASE Skip \/ Park \/ HasRoom \/ SecondPass
      BY <3>1 DEF Skip, Park, HasRoom, SecondPass, Loading
    <3>2. CASE Store
      BY <3>2 DEF Store, MayStore, Loading
    <3>3. CASE Abort
      BY <1>1, <3>3 DEF Abort, CloseWriter, Loading
    <3>4. CASE StoreThrows \/ Finish \/ Drained \/ Closed
      BY <1>1, <3>4 DEF StoreThrows, CloseWriter, Finish, Drained, Closed, Loading
    <3>5. CASE OpenWindow \/ OpenThrows
      BY <1>1, <3>5 DEF OpenWindow, OpenThrows, Loading
    <3>6. QED
      BY <1>10, <3>1, <3>2, <3>3, <3>4, <3>5 DEF Load
  <2>2. QED
    BY <1>1, <1>5, <2>1
<1>11. CASE WriterDies
  BY <1>1, <1>11 DEF WriterDies, WorkerDies
<1>12. CASE UNCHANGED <<pc, setting, retrying, writerVars>>
  BY <1>1, <1>5, <1>12
<1>13. QED
  BY <1>1, <1>6, <1>7, <1>8, <1>9, <1>10, <1>11, <1>12, WriterCases

\* A pause that ends well leaves the log empty, and what is queued fits the window.
LEMMA PausedStep ==
    ASSUME TypeOK, Living, LogTypeOK, Bounded, [Next]_vars
    PROVE  Paused'
<1>1. SUFFICES ASSUME pc' = "parked", ~pause', ~gaveUp'
               PROVE  /\ UsesWriter' /\ thread' = "running" /\ ~firstError' =>
                            Growth' + Len(inbox') + 1 - First' <= Window
                      /\ ~UsesWriter' => Growth' = 0
  BY DEF Paused
<1>2. /\ inbox \in Seq(Messages) /\ Len(inbox) \in Nat /\ First \in {0, 1} /\ Window \in Nat
      /\ Growth \in Nat
  <2>1. inbox \in Seq(Messages) /\ Len(inbox) \in Nat
    BY DEF TypeOK, SequencesOK
  <2>2. First \in {0, 1} /\ Window \in Nat
    BY BoundFacts DEF First
  <2>3. Growth \in Nat
    BY DEF LogTypeOK, Growth
  <2>4. QED
    BY <2>1, <2>2, <2>3
<1>3. pc = "parked" /\ ~pause /\ ~gaveUp =>
         /\ UsesWriter /\ thread = "running" /\ ~firstError => Growth + Len(inbox) + 1 - First <= Window
         /\ ~UsesWriter => Growth = 0
  BY DEF Bounded, Paused
<1>4. CASE Load
  <2>1. CASE BeginLoad \/ Skip \/ HasRoom \/ Store \/ StoreThrows \/ Abort \/ Finish \/ Drained \/ Closed \/ SecondPass
    BY <1>1, <2>1 DEF BeginLoad, Skip, HasRoom, Store, StoreThrows, CloseWriter, Abort, Finish, Drained, Closed,
           SecondPass
  <2>2. CASE Post
    BY <1>1, <2>2 DEF Post
  <2>3. CASE Park
    BY <1>1, <2>3 DEF Park, Pause
  <2>4. CASE OpenWindow \/ OpenThrows
    BY <1>1, <2>4 DEF OpenWindow, OpenThrows
  <2>5. QED
    BY <1>4, <2>1, <2>2, <2>3, <2>4 DEF Load
<1>5. CASE WriterRuns
  <2>1. /\ thread = "running" /\ UNCHANGED <<firstError, gaveUp, setting, pc, pause, retrying>>
        /\ Len(inbox') = Len(inbox) - 1 /\ First' = 0 /\ Growth' \in Nat
        /\ Growth' <= Growth + IF stored' = stored THEN 0 ELSE 1
        /\ (stored' # stored => First = 0)
        /\ "worker" \in setting /\ ~retrying
    BY <1>5, WorkerFacts DEF Bounded
  <2>2. UsesWriter /\ UsesWriter'
    BY <2>1 DEF UsesWriter
  <2>3. ASSUME ~firstError' PROVE Growth' + Len(inbox') + 1 - First' <= Window
    <3>1. Growth + Len(inbox) + 1 - First <= Window
      BY <1>1, <1>3, <2>1, <2>2, <2>3
    <3>2. Growth' <= Growth + 1 - First
      <4>1. CASE stored' = stored
        BY <1>2, <2>1, <4>1
      <4>2. CASE stored' # stored
        BY <1>2, <2>1, <4>2
      <4>3. QED
        BY <4>1, <4>2
    <3>3. Growth' + Len(inbox') + 1 - First' = Growth' + Len(inbox)
      BY <1>2, <2>1
    <3>4. QED
      BY <1>2, <2>1, <3>1, <3>2, <3>3
  <2>4. QED
    BY <2>2, <2>3
\* The log may have shrunk, or the pause may have ended.
<1>6. ASSUME ~Store, ~WriterRuns, UNCHANGED <<pc, setting, retrying, inbox>>,
             thread' = "running" /\ ~firstError' => thread = "running" /\ ~firstError,
             ~pause \/ PassAnswered
      PROVE  /\ UsesWriter' /\ thread' = "running" /\ ~firstError' =>
                   Growth' + Len(inbox') + 1 - First' <= Window
             /\ ~UsesWriter' => Growth' = 0
  <2>1. /\ Growth' \in Nat /\ Growth' <= Growth /\ (~gaveUp' => ~gaveUp \/ Growth' = 0)
    BY <1>1, <1>6, GrowthFacts
  <2>2. First' = First /\ Len(inbox') = Len(inbox) /\ (UsesWriter' <=> UsesWriter)
    BY <1>6 DEF First, Opening, UsesWriter
  <2>3. CASE Growth' = 0
    <3>1. ASSUME UsesWriter, thread = "running", ~firstError PROVE Len(inbox) + 1 - First <= Window
      <4>1. outstanding \in Nat /\ outstanding < Window /\ Len(inbox) + 1 - First <= outstanding + 1
        BY <1>1, <1>6, <3>1, SendFacts
      <4>2. QED
        BY <1>2, <4>1
    <3>2. QED
      BY <1>2, <1>6, <2>2, <2>3, <3>1
  <2>4. CASE Growth' # 0
    <3>1. ~gaveUp
      BY <1>1, <2>1, <2>4
    <3>2. ~pause
      <4>1. ASSUME PassAnswered, pause PROVE FALSE
        <5>1. row = "full"
          BY <1>1, <4>1 DEF PassAnswered
        <5>2. baseline' = size /\ size' = size
          BY <4>1, <5>1 DEF PassAnswered, Rebase
        <5>3. Growth' = 0
          BY <5>2 DEF Growth, LogTypeOK
        <5>4. QED
          BY <2>4, <5>3
      <4>2. QED
        BY <1>6, <4>1
    <3>3. /\ UsesWriter /\ thread = "running" /\ ~firstError => Growth + Len(inbox) + 1 - First <= Window
          /\ ~UsesWriter => Growth = 0
      BY <1>1, <1>3, <1>6, <3>1, <3>2
    <3>4. ASSUME Growth + Len(inbox) + 1 - First <= Window
          PROVE  Growth' + Len(inbox) + 1 - First <= Window
      BY <1>2, <2>1, <3>4
    <3>5. ~UsesWriter => Growth' = 0
      BY <1>2, <2>1, <3>3
    <3>6. QED
      BY <1>6, <2>2, <3>3, <3>4, <3>5
  <2>5. QED
    BY <2>3, <2>4
<1>7. CASE WriterEvents \/ WriterDies
  <2>1. UNCHANGED <<pc, setting, retrying, pause, gaveUp>>
    BY <1>7 DEF WriterEvents, WriterDies, Elsewhere
  <2>2. ~Store /\ ~pause
    BY <1>1, <2>1 DEF Store
  <2>3. thread' = "running" /\ ~firstError' =>
           thread = "running" /\ ~firstError /\ inbox' = inbox /\ UNCHANGED <<size, baseline>>
    BY <1>7 DEF WriterEvents, ClientStep, OnAnswer, OnError, OnExit, FailAll, Terminate, WriterDies, WorkerDies
  <2>4. ~UsesWriter' => ~UsesWriter /\ Growth' = Growth
    BY <1>7, <2>1 DEF WriterEvents, WriterDies, UsesWriter, Growth
  <2>5. UsesWriter' => UsesWriter
    BY <2>1 DEF UsesWriter
  <2>6. ASSUME thread' = "running", ~firstError' PROVE First' = First /\ Len(inbox') = Len(inbox) /\ Growth' = Growth
    BY <2>3, <2>6 DEF First, Opening, Growth
  <2>7. QED
    BY <1>1, <1>3, <2>1, <2>2, <2>3, <2>4, <2>5, <2>6
<1>8. CASE UNCHANGED <<pc, setting, retrying, writerVars>> /\ ~WriterRuns
  <2>1. ~Store
    BY <1>1, <1>8 DEF Store
  <2>2. ~pause \/ PassAnswered
    <3>1. ~Pause
      BY <1>1 DEF Pause
    <3>2. ~ (Zeroed /\ pc' \in Healed)
      BY <1>1 DEF Healed
    <3>3. Commit \/ UNCHANGED valveVars \/ Timed \/ Check \/ Fired \/ NextPass
          \/ (\E r \in {"full", "part", "null"} : CheckpointEnds(r)) => pause' = pause
      BY DEF Commit, Timed, Check, Fired, NextPass, CheckpointEnds
    <3>4. QED
      BY <1>1, <3>1, <3>2, <3>3, ValveCases DEF ValveMoves
  <2>3. QED
    BY <1>6, <1>8, <2>1, <2>2
<1>9. QED
  BY <1>1, <1>4, <1>5, <1>7, <1>8, WriterCases DEF Loading

-----------------------------------------------------------------------------
(* The invariant and what follows from it.                                 *)

IInv == TypeOK /\ Living /\ Storing /\ Restored /\ RowsTypeOK /\ Rows /\ LogTypeOK /\ Bounded

\* The invariant holds at first.
LEMMA Initially == Init => IInv
<1>1. SUFFICES ASSUME Init PROVE IInv
  OBVIOUS
<1>2. NFiles \in Nat /\ NRefs \in Nat /\ OldFrames \in Nat
  BY IndexRunAssumption, WalValveAssumption
<1>3. /\ setting \in Settings /\ pc = "begin" /\ todo = [i \in Files |-> i] /\ again = <<>> /\ retrying = FALSE
      /\ sent = <<>> /\ outcome = "ok" /\ indexes = Indexes /\ triggers = Triggers /\ fts = {} /\ broken = FALSE
      /\ drops = <<"nodes_ai", "nodes_ad">>
                  \o (IF "fresh" \in setting THEN <<"edge", "unresolved", "node">> ELSE <<>>)
      /\ pool = "none" /\ cursor = 0 /\ batch = <<>> /\ edges = <<>> /\ pending = 1..NRefs /\ guest = "out"
  BY <1>1 DEF Init
<1>4. /\ thread = "none" /\ errored = FALSE /\ connected = FALSE /\ inbox = <<>> /\ answers = <<>> /\ stored = <<>>
      /\ firstError = FALSE /\ outstanding = 0 /\ below = FALSE /\ drained = "none" /\ closing = FALSE
  BY <1>1 DEF Init, WriterInit
<1>5. /\ frames = OldFrames /\ copied = 0 /\ size = OldFrames /\ baseline = 0 /\ timer = FALSE
      /\ inflight = "none" /\ snapshot = 0 /\ row = "none" /\ pause = FALSE /\ passes = 0 /\ gaveUp = FALSE
  BY <1>1 DEF Init, ValveInit
<1>6. /\ resolver = [w \in Resolvers |-> "none"] /\ posted = {} /\ finished = {} /\ waiting = {}
      /\ results = <<>> /\ nextId = 1 /\ poolFailed = FALSE
  BY <1>1 DEF Init, PoolInit
<1>7. SequencesOK
  <2>1. todo \in Seq(Files)
    BY <1>2, <1>3 DEF Files
  <2>2. QED
    BY <1>3, <1>4, <2>1 DEF SequencesOK
<1>20. DropsOK
  <2>1. /\ <<"nodes_ai", "nodes_ad">> \in Seq(Triggers)
        /\ <<"nodes_ai", "nodes_ad">> \in Seq(Triggers \cup Indexes)
        /\ <<"edge", "unresolved", "node">> \in Seq(Triggers \cup Indexes)
    BY DEF Triggers, Indexes, ResolutionIndexes
  <2>2. CASE "fresh" \in setting
    BY <1>3, <2>1, <2>2 DEF DropsOK
  <2>3. CASE "fresh" \notin setting
    <3>1. drops = <<"nodes_ai", "nodes_ad">>
      BY <1>3, <2>3
    <3>2. QED
      BY <2>1, <2>3, <3>1 DEF DropsOK
  <2>4. QED
    BY <2>2, <2>3
<1>8. TypeOK
  BY <1>3, <1>4, <1>7, <1>20 DEF TypeOK, Phases
<1>9. Living
  BY <1>3, <1>4 DEF Living
<1>10. ToSet(answers) = {} /\ ToSet(stored) = {} /\ Len(inbox) = 0
  BY <1>4 DEF ToSet
<1>11. Storing
  BY <1>3, <1>4, <1>10 DEF Storing, Undrained, Unclosed, Sending, Draining, Complete, Loading
<1>12. Restored
  BY <1>3, <1>4, <1>6, <1>10 DEF Restored, Folding, Batching
<1>13. RowsTypeOK
  <2>1. cursor \in 0..NRefs /\ pending \subseteq 1..NRefs
    BY <1>2, <1>3
  <2>2. edges \in Seq(Parts) /\ batch \in Seq(Parts) /\ results \in Seq(Nat \X Parts)
    BY <1>3, <1>6
  <2>3. posted \cup finished \subseteq Nat \X Resolvers \X Parts
    BY <1>6
  <2>4. nextId \in Nat /\ waiting \subseteq Nat /\ poolFailed \in BOOLEAN
    BY <1>6
  <2>5. QED
    BY <2>1, <2>2, <2>3, <2>4 DEF RowsTypeOK
<1>14. Rows
  BY <1>2, <1>3, <1>6 DEF Rows, Admitted, Contiguous
<1>15. LogTypeOK
  <2>1. {frames, copied, size, baseline, snapshot, passes} \subseteq Nat
    BY <1>2, <1>5
  <2>2. pause \in BOOLEAN /\ gaveUp \in BOOLEAN /\ timer \in BOOLEAN
    BY <1>5
  <2>3. inflight = "none" /\ row = "none" /\ copied <= frames /\ snapshot <= frames /\ frames <= size
        /\ baseline <= size
    BY <1>2, <1>5
  <2>4. QED
    BY <2>1, <2>2, <2>3 DEF LogTypeOK
<1>16. Growth = OldFrames
  BY <1>2, <1>5 DEF Growth
<1>17. Grown
  BY <1>2, <1>16, BoundFacts DEF Grown, Larger
<1>18. Bounded
  BY <1>3, <1>4, <1>5, <1>10, <1>16, <1>17 DEF Bounded, Unvalved, Unstarted, Reserved, Roomy, Counted, Paused, Loading
<1>19. QED
  BY <1>8, <1>9, <1>11, <1>12, <1>13, <1>14, <1>15, <1>18 DEF IInv

\* A step preserves the invariant.
LEMMA Step == IInv /\ [Next]_vars => IInv'
<1>1. SUFFICES ASSUME IInv, [Next]_vars PROVE IInv'
  OBVIOUS
<1>2. TypeOK /\ Living /\ Storing /\ Restored /\ RowsTypeOK /\ Rows /\ LogTypeOK /\ Bounded
  BY <1>1 DEF IInv
<1>3. TypeOK' /\ Living' /\ Storing' /\ Restored'
  BY <1>1, <1>2, TypeStep, LivingStep, StoringStep, RestoredStep
<1>4. RowsTypeOK' /\ Rows'
  BY <1>1, <1>2, RowsTypeStep, RowsStep
<1>5. LogTypeOK'
  BY <1>1, <1>2, LogTypeStep
<1>6. Unvalved' /\ Unstarted'
  BY <1>1, <1>2, UnvalvedStep, UnstartedStep DEF Bounded
<1>7. Grown' /\ Reserved' /\ Roomy' /\ Counted' /\ Paused'
  BY <1>1, <1>2, GrownStep, ReservedStep, RoomyStep, CountedStep, PausedStep
<1>8. Bounded'
  BY <1>6, <1>7 DEF Bounded
<1>9. QED
  BY <1>3, <1>4, <1>5, <1>8 DEF IInv

\* The conjunction of the parts is an invariant.
THEOREM Invariance == Spec => []IInv
<1>1. Init => IInv
  BY Initially
<1>2. IInv /\ [Next]_vars => IInv'
  BY Step
<1>3. QED
  BY <1>1, <1>2, PTL DEF Spec

\* Every variable of the run, of its writer, of its valve and of its rows keeps to its type.
THEOREM TypeCorrect == Spec => [](TypeOK /\ RowsTypeOK /\ LogTypeOK)
<1>1. IInv => TypeOK /\ RowsTypeOK /\ LogTypeOK
  BY DEF IInv
<1>2. QED
  BY <1>1, Invariance, PTL

\* What the phases after the store read is what was sent, in its order, whatever worker
\* stored it and however its messages and answers were interleaved (store-writer.ts:4-6).
THEOREM StoredFirst == Spec => []StoredBeforeResolving
<1>1. IInv => StoredBeforeResolving
  BY DEF IInv, Storing, Complete, StoredBeforeResolving, Loading, Healed
<1>2. QED
  BY <1>1, Invariance, PTL

\* A run that could restore its triggers, and an open after a crash, have the nodes of
\* exactly the stored files in the full-text index (db/index.ts:107-110).
THEOREM FullText == Spec => []FullTextIsTrue
<1>1. IInv => FullTextIsTrue
  BY DEF IInv, Restored, FullTextIsTrue, Triggers
<1>2. QED
  BY <1>1, Invariance, PTL

\* The rows are admitted once and in order, in batches and chunks of any size and by any
\* number of workers, and a row that left unresolved_refs has its edges (resolver-pool.ts:4-7).
THEOREM RowsInOrder == Spec => []RowsAdmittedInOrder
<1>1. IInv => RowsAdmittedInOrder
  BY DEF IInv, Rows, Contiguous, Admitted, RowsAdmittedInOrder
<1>2. QED
  BY <1>1, Invariance, PTL

\* The log outgrows its baseline by no more than the hard cap and the window of the writer
\* while files are stored, whatever the size of either (wal-valve.ts:123-128).
THEOREM LogBounded == Spec => []GrowthIsBounded
<1>1. ASSUME IInv PROVE GrowthIsBounded
  <2>1. SUFFICES ASSUME pc \in Loading, ~gaveUp PROVE Growth <= Larger(OldFrames, Hard + Room)
    BY DEF GrowthIsBounded, Loading, Room
  <2>2. Unvalved /\ Grown
    BY <1>1 DEF IInv, Bounded
  <2>3. CASE "valve" \in setting
    BY <2>1, <2>2, <2>3 DEF Grown
  <2>4. CASE "valve" \notin setting
    <3>1. Growth = OldFrames
      BY <2>1, <2>2, <2>4 DEF Unvalved, Loading, Healed
    <3>2. QED
      BY <3>1, BoundFacts DEF Larger
  <2>5. QED
    BY <2>3, <2>4
<1>2. IInv => GrowthIsBounded
  BY <1>1
<1>3. QED
  BY <1>2, Invariance, PTL

\* indexAll returns with no thread, timer, checkpoint or resolver of its own, and it, or the
\* open after a crash, puts back the indexes and triggers that the bulk window dropped.
THEOREM NothingLeft == Spec => []NothingLeftBehind
<1>1. ASSUME IInv PROVE NothingLeftBehind
  <2>1. Living /\ Restored
    BY <1>1 DEF IInv
  <2>2. pc = "returned" => thread \in {"none", "exited"}
    BY <2>1 DEF Living, Loading
  <2>3. pc = "returned" => Idle /\ ~timer /\ \A w \in Resolvers : resolver[w] \in {"none", "dead"}
    BY <2>1 DEF Restored, Batching
  <2>4. (pc = "returned" /\ ~broken /\ drops = <<>>) \/ pc = "opened" =>
           triggers = Triggers /\ indexes = Indexes
    BY <2>1 DEF Restored
  <2>5. QED
    BY <2>2, <2>3, <2>4 DEF NothingLeftBehind
<1>2. IInv => NothingLeftBehind
  BY <1>1
<1>3. QED
  BY <1>2, Invariance, PTL

=============================================================================
