------------------------------- MODULE Engine -------------------------------
(***************************************************************************)
(* The selection engine over the turns of several threads: the locked part *)
(* of Engine.Assemble (rrc/assembly.go, rrc/prerequisite_selection.go),    *)
(* the shed that prices the thread's next selection, the provenance that   *)
(* RRCLLM.recordProvenance banks after a generation, and the edges table   *)
(* (storage/edges.go) a restart reloads.                                   *)
(*                                                                         *)
(* What is retrieved, how it scores and what the shed refuses are free     *)
(* choices; ModelCall models the shed, PrerequisiteGraph the walks.  A     *)
(* thread runs one call at a time.  The window fits its budget whole.      *)
(***************************************************************************)
EXTENDS PrerequisiteGraph

CONSTANTS
    None,           \* the anchor of no call
    Raws,           \* scores of the scorer
    Similar,        \* cosine of the vectors of two messages; below 0 counts as 0
    Floors,         \* highest score of a reference sample; NoFloor: too few chunks
    RerankTopK,     \* cfg.RerankTopK: candidates retrieved
    Histories,      \* stored threads and edges the program starts with
    MaxSelections,  \* bound on selection events
    MaxRestarts,    \* bound on restarts
    MaxDeletes      \* bound on deleted threads

\* A provenance edge within a thread runs forward, or from a tool step, which is
\* never an anchor.
Forward(e, own, sem) ==
    e.src = "prov" /\ own[e.from] = own[e.to] => e.from < e.to \/ e.from \notin sem

\* What a store the program wrote holds: ids in the order of insertion, turns of
\* their thread's messages, the current one of the newest, and edges between
\* messages inserted.
ValidStore(own, sem, trn, prv, rows) ==
    /\ DOMAIN own \subseteq Messages /\ DOMAIN prv = DOMAIN trn
    /\ \A m \in DOMAIN own, n \in Messages \ DOMAIN own : m < n
    /\ \A t \in DOMAIN trn :
          /\ trn[t] \cup prv[t] \subseteq {m \in DOMAIN own : own[m] = t}
          /\ \A m \in DOMAIN own \ trn[t], n \in trn[t] : own[m] = t => m < n
    /\ IsFiniteSet(rows)
    /\ \A e \in rows : {e.from, e.to} \subseteq DOMAIN own /\ Forward(e, own, sem)

ASSUME EngineAssumption ==
    /\ Similar \in [Messages -> [Messages -> 0 .. Unit]]
    /\ Raws \subseteq 0 .. Unit /\ NoFloor \in Floors /\ Floors \subseteq NoFloor .. Unit
    /\ RerankTopK \in Nat /\ MaxSelections \in Nat /\ MaxRestarts \in Nat /\ MaxDeletes \in Nat

ASSUME HistoryAssumption ==
    \A h \in Histories :
        /\ ValidStore(h.owner, DOMAIN h.owner \ h.tools, h.turn, h.prev, h.disk)
        /\ h.disk \subseteq Edge

Scopes == {"thread", "all"}

VARIABLES
    scorer,         \* a reranker is configured
    owner,          \* the thread of a message, kept by the engine after its row is gone
    semantic,       \* messages with text or thinking; the others are tool steps
    stored,         \* rows of messages; its chunks are stored with a message
    turn, prev,     \* the current and the preceding turn of a thread
    live,           \* rows of threads
    indexed,        \* messages of the vector index
    pc,             \* of a thread's call: "idle", "selected", "sent"
    call,           \* its anchor, turn record, selection and edges to publish
    dag,            \* Engine.dag
    price,          \* Engine.price, as binding or slack
    disk,           \* rows of edges
    selections, restarts, deletes

corpus  == <<scorer, owner, semantic, stored, turn, prev, live, indexed>>
Threads == DOMAIN turn
bounds  == <<selections, restarts, deletes>>
vars    == <<corpus, pc, call, dag, price, disk, bounds>>

NoCall == [anchor |-> None, record |-> {}, window |-> {}, picked |-> [m \in {} |-> 0], edges |-> {}]

\* Started on a store: the engine loads every edge.
Init ==
    \E h \in Histories :
        /\ scorer = h.scorer /\ owner = h.owner /\ semantic = DOMAIN h.owner \ h.tools
        /\ stored = DOMAIN h.owner /\ turn = h.turn /\ prev = h.prev /\ live = DOMAIN h.turn /\ indexed = stored
        /\ disk = h.disk /\ dag = SetToBag(h.disk)
        /\ pc = [t \in live |-> "idle"] /\ call = [t \in live |-> NoCall]
        /\ price = [t \in live |-> "slack"]
        /\ selections = h.selections /\ restarts = h.restarts /\ deletes = h.deletes

Unused == Messages \ DOMAIN owner

\* Insert a message at the end of a thread's turn.
Store(t, kind, newTurn) ==
    /\ t \in live /\ Unused # {}
    /\ LET m == Min(Unused)
       IN /\ owner' = [x \in DOMAIN owner \cup {m} |-> IF x = m THEN t ELSE owner[x]]
          /\ semantic' = IF kind = "semantic" THEN semantic \cup {m} ELSE semantic
          /\ stored' = stored \cup {m} /\ indexed' = indexed \cup {m}
          /\ turn' = [turn EXCEPT ![t] = IF newTurn THEN {m} ELSE @ \cup {m}]
          /\ prev' = IF newTurn THEN [prev EXCEPT ![t] = turn[t]] ELSE prev
    /\ UNCHANGED <<scorer, live>>

\* A user message opens a turn.
Post(t) ==
    /\ pc[t] = "idle"
    /\ Store(t, "semantic", TRUE)
    /\ UNCHANGED <<pc, call, dag, price, disk, bounds>>
-----------------------------------------------------------------------------
(* One selection event, under the engine's lock.                           *)

Window(t) == prev[t] \cup turn[t]

\* Mutant: the first discourse of the turn, not the latest, is its focus.
FirstAnchor(t) == Min(turn[t] \cap semantic)

\* lastSemantic: the last message of the turn that is not a tool step.
Anchor(t) == Max(turn[t] \cap semantic)

InScope(t, scope) == {m \in DOMAIN owner : scope = "all" \/ owner[m] = t}

\* The index keeps what was deleted; the window is excluded by the predicate.
Eligible(t, scope) == (indexed \cap InScope(t, scope)) \ Window(t)
Retrieved(t, scope) == {F \in SUBSET Eligible(t, scope) : Cardinality(F) <= RerankTopK}

\* Messages by their stored chunks; a deleted one has none.
ChunksForMessages(ids) == ids \cap stored

\* What the walk reached joins what was retrieved.
Candidates(found, mass) == found \cup ChunksForMessages(DOMAIN mass \ found)

\* They are all scored against the same window.
ScoreReached(found, mass) == [Candidates(found, mass) -> Raws]

\* The scorer does not tell the batch apart: no edges, no floor.
Flat(raw) == scorer /\ \A m, n \in DOMAIN raw : raw[m] = raw[n]

\* The floor, if there is a scorer and something to judge.
ReferenceFloors(raw) == IF scorer /\ ~Flat(raw) THEN Floors ELSE {NoFloor}

\* nullP: above the whole reference sample; ties count against the candidate.
BeatsAll(score, floor) == score > floor

\* The stance admits a null probability of up to 1 - Loss.
StanceAdmits(p, q) == p * Unit <= q * (Unit - Loss)

\* The rank of a mass among those reached gives its null probability.
MassDetected(m, mass) ==
    /\ m \in DOMAIN mass
    /\ LET rank == Cardinality({x \in DOMAIN mass : mass[x] > mass[m] \/ (mass[x] = mass[m] /\ x <= m)})
       IN StanceAdmits(rank, Cardinality(DOMAIN mass) + 1)

\* Bits add: the null probabilities of two detections multiply, rounded down.
Joint(p, q) == Unit - ((Unit - p) * (Unit - q)) \div Unit

\* Confidences an edge from m may be stored with; {} when no channel detects it.
\* A binding price may leave one channel of two.
Verdicts(m, raw, floor, mass, binding) ==
    LET semantically == IF BeatsAll(raw[m], floor) THEN {Beat} ELSE {}
        bymass       == IF MassDetected(m, mass) THEN {Loss, Beat} ELSE {}
        jointly      == {Joint(p, q) : p \in semantically, q \in bymass}
    IN IF floor = NoFloor THEN {raw[m]}
       ELSE IF jointly = {} \/ binding THEN semantically \cup bymass \cup jointly
       ELSE jointly

\* The edges of an event.  A binding price may refuse any detection.
Accepted(t, raw, floor, mass) ==
    LET binding    == price[t] = "binding"
        verdict(m) == Verdicts(m, raw, floor, mass, binding)
        able == {m \in DOMAIN raw : ~Flat(raw) /\ verdict(m) # {}}
        kept == IF floor # NoFloor /\ binding THEN SUBSET able ELSE {able}
    IN UNION {Pick(K, verdict) : K \in kept}

FormedEdges(anchor, raw, verdict) ==
    {[from |-> m, to |-> anchor, src |-> "ce", score |-> verdict[m], raw |-> raw[m]] : m \in DOMAIN verdict}

\* selectLocked: what is selected, each at its raw product, rounded up to a score.
Selected(g, anchor, S, floor) ==
    LET got == Extract(g, anchor, S, floor)
    IN Pick(DOMAIN got, LAMBDA m : {(Weight(v) * Unit + One - 1) \div One : v \in got[m].vias})

\* ApplyMMR: the candidate with the largest novel part is next, what it repeats of
\* the query and of those before it discounted; a message outside V has no vector
\* and repeats nothing.  A single message keeps its score.
Novel(score, m, kept, V) ==
    score[m] * (Unit - Max({0} \cup {Similar[m][k] : k \in IF m \in V THEN kept \cap V ELSE {}}))
ApplyMMR(score, query, V) ==
    LET known     == IF Cardinality(DOMAIN score) <= 1 THEN {} ELSE query
        kept(out) == known \cup {out[i].id : i \in DOMAIN out}
        left(out) == DOMAIN score \ {out[i].id : i \in DOMAIN out}
        best(out) == CHOOSE m \in left(out) : \A n \in left(out) :
            LET a == Novel(score, m, kept(out), V)
                b == Novel(score, n, kept(out), V)
            IN a > b \/ (a = b /\ score[m] >= score[n])
    IN Iterate(LAMBDA out : Append(out, [id |-> best(out), value |-> Novel(score, best(out), kept(out), V)]),
               << >>, Cardinality(DOMAIN score))

\* The reranking keeps every message, none above its own score; no message is
\* ahead of one that was worth more when it was its turn, the values descend, and
\* what the query already says is worth nothing beside others.
RerankSound(score, query, V) ==
    LET out    == ApplyMMR(score, query, V)
        ids    == [i \in DOMAIN out |-> out[i].id]
        known  == IF Len(out) <= 1 THEN {} ELSE query
        before(i) == known \cup {ids[k] : k \in 1 .. i - 1}
    IN /\ Range(ids) = DOMAIN score /\ Len(ids) = Cardinality(DOMAIN score)
       /\ \A i, j \in DOMAIN out : i <= j =>
             /\ out[i].value >= Novel(score, ids[j], before(i), V)
             /\ out[i].value >= out[j].value
       /\ \A i \in DOMAIN out :
             /\ out[i].value <= score[ids[i]] * Unit
             /\ ids[i] \in V /\ (\E q \in known \cap V : Similar[ids[i]][q] = Unit) => out[i].value = 0

\* selectPrerequisitesLocked, then selectLocked over the grown graph.
Select(t, scope) ==
    /\ pc[t] = "idle" /\ turn[t] \cap semantic # {} /\ selections < MaxSelections
    /\ LET S    == InScope(t, scope)
           mass == Mass(dag, Window(t), S)
       IN \E found \in Retrieved(t, scope) : \E raw \in ScoreReached(found, mass) :
          \E floor \in ReferenceFloors(raw) : \E verdict \in Accepted(t, raw, floor, mass) :
             LET new   == FormedEdges(Anchor(t), raw, verdict)
                 grown == dag (+) SetToBag(new)
             IN /\ dag' = grown
                /\ \E picked \in Selected(grown, Anchor(t), S, floor) :
                      call' = [call EXCEPT ![t] = [anchor |-> Anchor(t), record |-> turn[t], window |-> Window(t),
                                                   picked |-> picked, edges |-> new]]
    /\ pc' = [pc EXCEPT ![t] = "selected"]
    /\ selections' = selections + 1
    /\ UNCHANGED <<corpus, price, disk, restarts, deletes>>
-----------------------------------------------------------------------------
(* The rest of the call.                                                   *)

\* InsertEdge replaces the row of the same endpoints and source.
Key(e) == <<e.from, e.to, e.src>>
InsertEdges(rows, new) == {e \in rows : \A n \in new : Key(n) # Key(e)} \cup new

Return(t) == pc' = [pc EXCEPT ![t] = "idle"] /\ call' = [call EXCEPT ![t] = NoCall]

\* Every selected message is loaded, the budget sheds some or none, the price is
\* set and the edges of the event are published.
Missing(t) == DOMAIN call[t].picked \ (stored \cup call[t].window)
Shed(t) ==
    /\ pc[t] = "selected" /\ Missing(t) = {}
    /\ \E p \in IF DOMAIN call[t].picked = {} THEN {"slack"} ELSE {"slack", "binding"} :
          price' = [price EXCEPT ![t] = p]
    /\ disk' = InsertEdges(disk, call[t].edges)
    /\ pc' = [pc EXCEPT ![t] = "sent"]
    /\ UNCHANGED <<corpus, call, dag, bounds>>

\* Assembly fails (a selected message is gone, the store or the window's
\* budget), or the provider does: nothing is published or recorded after it.
CallFails(t) ==
    /\ pc[t] \in {"selected", "sent"}
    /\ Return(t)
    /\ UNCHANGED <<corpus, dag, price, disk, bounds>>

\* recordProvenance: the turn record at full weight, a selected message at its
\* raw evidence, shed or not; a message contributes once.
ProvenanceEdges(c) ==
    {[from |-> m, to |-> c.anchor, src |-> "prov", raw |-> 0,
      score |-> IF m \in c.record THEN Unit ELSE c.picked[m]]
        : m \in (c.record \cup {x \in DOMAIN c.picked : c.picked[x] > 0}) \ {c.anchor}}

Recorded(t) ==
    LET new == ProvenanceEdges(call[t])
    IN dag' = dag (+) SetToBag(new) /\ disk' = InsertEdges(disk, new)

\* The model answers with discourse or a tool step, which the runner stores in
\* the turn; of a deleted thread nothing is stored.
Generate(t, kind) ==
    /\ pc[t] = "sent" /\ t \in live
    /\ Recorded(t)
    /\ Store(t, kind, FALSE)
    /\ Return(t)
    /\ UNCHANGED <<price, bounds>>
GenerateDeleted(t) ==
    /\ pc[t] = "sent" /\ t \notin live
    /\ Recorded(t)
    /\ Return(t)
    /\ UNCHANGED <<corpus, price, bounds>>

\* deleteThread: the rows of the thread, its messages and its edges; the engine
\* and a call under way keep what they hold.
Delete(t) ==
    /\ t \in live /\ deletes < MaxDeletes
    /\ live' = live \ {t}
    /\ stored' = {m \in stored : owner[m] # t}
    /\ turn' = [turn EXCEPT ![t] = {}] /\ prev' = [prev EXCEPT ![t] = {}]
    /\ disk' = {e \in disk : owner[e.from] # t /\ owner[e.to] # t}
    /\ deletes' = deletes + 1
    /\ UNCHANGED <<scorer, owner, semantic, indexed, pc, call, dag, price, selections, restarts>>

\* NewEngine with the rows of edges, and an index of the stored messages.
Restart ==
    /\ restarts < MaxRestarts
    /\ dag' = SetToBag(disk) /\ indexed' = stored
    /\ price' = [t \in Threads |-> "slack"]
    /\ pc' = [t \in Threads |-> "idle"] /\ call' = [t \in Threads |-> NoCall]
    /\ restarts' = restarts + 1
    /\ UNCHANGED <<scorer, owner, semantic, stored, turn, prev, live, disk, selections, deletes>>

Next ==
    \/ Restart
    \/ \E t \in Threads :
          \/ Post(t) \/ Shed(t) \/ CallFails(t) \/ GenerateDeleted(t) \/ Delete(t)
          \/ \E scope \in Scopes : Select(t, scope)
          \/ \E kind \in {"semantic", "tool"} : Generate(t, kind)

Spec == Init /\ [][Next]_vars
-----------------------------------------------------------------------------

\* Walked from any window of the program, in either scope, the banked mass of a
\* message is the sum over all its recorded paths, and the cap cuts the weakest
\* (provenanceMassWalk).
MassExact ==
    \A t \in Threads, scope \in Scopes :
        pc[t] = "idle" /\ turn[t] # {} => MassIsExact(dag, Window(t), InScope(t, scope))

\* From any anchor, read at any floor, the walk selects the messages a path above
\* the stance leads to and no other, whatever earlier events left in the graph
\* (extractSubgraph); reranked against the query and the vectors there are, the
\* selection stays whole and in the order of what each message adds (ApplyMMR).
SelectionExact ==
    \A t \in Threads, scope \in Scopes, floor \in Floors :
        pc[t] = "selected" /\ turn[t] # {} =>
            LET got == Extract(dag, Anchor(t), InScope(t, scope), floor)
            IN /\ SelectionIsExact(dag, Anchor(t), InScope(t, scope), floor)
               /\ RerankSound([m \in DOMAIN got |-> got[m].value], turn[t] \cap semantic, indexed \cap stored)

\* Within a thread, what contributed to a message is older than it unless it is a
\* tool step, which is never an anchor: a walk in thread scope meets no cycle
\* ("Provenance is generation-ordered", provenanceMassWalk).
GenerationOrdered ==
    \A e \in BagToSet(dag) : Forward(e, owner, semantic)
=============================================================================
