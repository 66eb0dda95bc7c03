----------------------------- MODULE VectorStore -----------------------------
(***************************************************************************)
(* The chunk vectors: the table chunk_vectors of the database, the index   *)
(* in memory that every retrieval reads, the embed workers that feed both, *)
(* and the build of a new index when the program starts or its settings    *)
(* change (service/oracle, service/annindex, service/search,               *)
(* service/storage/embeddings.go, service/substrate/substrate.go).         *)
(*                                                                         *)
(* A vector is the code and the score its text has against the one query   *)
(* of the model, both constants.  The retrievals change nothing and are    *)
(* operators on an index; the properties ask them in every state.          *)
(***************************************************************************)
EXTENDS Hnsw, Chunking

CONSTANTS
    Threads,        \* threads that may be created
    None,
    Messages,       \* naturals: messages that may be stored
    Text,           \* Text[m]: the scoring serialization of m
    Code, Score,    \* of a chunk: sign bits, and similarity to the query
    QueryCode,
    Embedders,      \* records [model, dim]: what the settings may configure
    Draws,          \* Draws[graph]: the layers drawn for the nodes of a graph, in turn
    Stores,         \* initial contents [home, stored, vectors, dim]
    Overfetch, Ef, SearchOverfetch, MinShortlist, RandomFetch, RandomCap,
    MaxBuilds, MaxCrashes, MaxDeletes

Global == "global"

\* How many chunks a message has, and the keys of all.
Chunks == [m \in Messages |-> Len(Split(Text[m], MaxChars, OverlapChars))]
Keys   == UNION {{m} \X (1..Chunks[m]) : m \in Messages}

\* A text is of bytes, a code is finite, a score is a number, a graph draws a layer
\* for every node, and a model has one width.  The program starts with a database it
\* left: the vectors are of chunks of messages, of the table's width and of a model
\* that can be configured.
ASSUME VectorAssumption ==
    /\ None \notin Threads \cup {Global} /\ Global \notin Threads
    /\ Text \in [Messages -> Seq(SampleBytes)] /\ MaxChars \in Nat /\ OverlapChars \in Nat
    /\ (\A key \in Keys : IsFiniteSet(Code[key])) /\ IsFiniteSet(QueryCode) /\ Score \in [Keys -> Int]
    /\ Overfetch \in Nat \ {0} /\ Ef \in Nat \ {0} /\ SearchOverfetch \in Nat /\ MinShortlist \in Nat
    /\ \A r \in Threads \cup {Global} : Draws[r] \in Seq(Nat) \ {<<>>}
    /\ \A e \in Embedders : e.dim \in Nat \ {0} /\ \A f \in Embedders : e.model = f.model => e.dim = f.dim
    /\ \A s \in Stores :
        /\ s.home \in [Messages -> Threads \cup {None}]
        /\ s.stored \subseteq {m \in Messages : s.home[m] # None}
        /\ IsFiniteSet(s.vectors)
        /\ \A v \in s.vectors : /\ v.key \in Keys /\ v.dim = s.dim
                                 /\ \E e \in Embedders : e.model = v.model /\ e.dim = v.dim

VARIABLES
    home,       \* thread a message was stored in, None before
    stored,     \* messages that have a row; a row's chunks have rows too
    vectors,    \* rows of chunk_vectors
    tableDim,   \* width of chunk_vectors, which embedding_meta records
    indexes,    \* the indexes built since the program started
    observer,   \* the one the database notifies, 0 for none
    live,       \* the one of the installed substrate, 0 for none
    build,      \* the build in progress
    task,       \* the embed task of each message
    missed,     \* <<index, chunk>>: notified to an older index after its scan
    gone, crashes

storeVars == <<home, stored, vectors, tableDim, gone>>
vars == <<home, stored, vectors, tableDim, indexes, observer, live, build, task, missed, gone, crashes>>

NoTask == [pc |-> "none", emb |-> None, got |-> 0, next |-> 0, thread |-> None]
Idle == [pc |-> "idle", emb |-> None, threads |-> <<>>]

NewIndex(e, threads) ==
    [emb |-> e, dim |-> 0, threadByMsg |-> threads, keys |-> <<>>,
     graphs |-> [r \in Threads \cup {Global} |-> EmptyGraph], loose |-> {}, panicked |-> FALSE]

-----------------------------------------------------------------------------
(* The index. *)

\* The layers of a graph's nodes, in turn; the generator has a period.
Layer(name, n) == Draws[name][(n % Len(Draws[name])) + 1]

Grown(g, name, vid, key) == insert(g, vid, Code[key], Layer(name, Len(g.nodes)))

\* Mutant: a key counts as present when its message is.
AddOncePerMessage(ix, key, t, dim) ==
    IF \E k \in Range(ix.keys) : k[1] = key[1] THEN ix ELSE
    [ix EXCEPT !.dim = dim,
               !.keys = Append(@, key),
               !.graphs = [r \in DOMAIN @ |-> IF r \in {Global, t} THEN Grown(@[r], r, Len(ix.keys) + 1, key)
                                             ELSE @[r]]]

\* A vector enters the global graph and, when its thread is known, the thread's
\* partition.  A key already present is ignored; another width than the first
\* vector's is a panic.
Add(ix, key, t, dim) ==
    IF key \in Range(ix.keys) THEN ix
    ELSE IF ix.dim \notin {0, dim} THEN [ix EXCEPT !.panicked = TRUE]
    ELSE [ix EXCEPT !.dim = dim,
                    !.keys = Append(@, key),
                    !.graphs = [r \in DOMAIN @ |-> IF r \in {Global, t} THEN Grown(@[r], r, Len(ix.keys) + 1, key)
                                                  ELSE @[r]]]

\* Chunks by descending score; equal ones, which the code orders as they come,
\* stay in their order.
ByScore(keys) ==
    LET order == NearestFirst([i \in DOMAIN keys |-> -Score[keys[i]]], DOMAIN keys)
    IN  [i \in DOMAIN order |-> keys[order[i]]]

\* Up to n chunks of a graph: the index searches by sign bits and orders what it
\* found by the finer code.
IndexSearch(ix, n, route) ==
    LET res == search(ix.graphs[route], QueryCode, n, Ef)
    IN  ByScore([i \in DOMAIN res |-> ix.keys[res[i]]])

ThreadIn(ix, m) == IF m \in DOMAIN ix.threadByMsg THEN ix.threadByMsg[m] ELSE None

\* The thread of a message is recorded.
Recorded(ix, m, t) ==
    [ix EXCEPT !.threadByMsg = [k \in DOMAIN @ \cup {m} |-> IF k = m THEN t ELSE @[k]]]

\* The predicate of a selection: its scope, Global or a thread, and the messages
\* of the local context, which it excludes.
EvalPredicate(m, t, scope, excluded) == (scope = Global \/ t = scope) /\ m \notin excluded

\* A predicate that pins one thread is answered by the thread's partition.
ThreadScopeOf(scope) == scope

\* The first chunk of each message, of those that pass.
FirstChunks(cands, pass) ==
    FoldLeft(LAMBDA out, key : IF key \in pass /\ \A i \in DOMAIN out : out[i][1] # key[1]
                               THEN Append(out, key) ELSE out,
             <<>>, cands)

\* The chunks of a shortlist that pass, one per message: its best.
Picked(ix, cands, scope, excluded) ==
    FirstChunks(cands, {key \in Range(cands) : EvalPredicate(key[1], ThreadIn(ix, key[1]), scope, excluded)})

\* Mutant: one shortlist, never widened.
WidenOnce(ix, k, fetch, scope, excluded) ==
    Picked(ix, IndexSearch(ix, fetch, ThreadScopeOf(scope)), scope, excluded)

\* The shortlist is doubled until enough of it passes or the graph has no more.
Widen(ix, k, fetch, scope, excluded) ==
    LET widen[m \in Nat] ==
            LET cands  == IndexSearch(ix, m, ThreadScopeOf(scope))
                picked == Picked(ix, cands, scope, excluded)
            IN  IF Len(picked) >= k \/ Len(cands) < m THEN picked ELSE widen[2 * m]
    IN  widen[fetch]

UpTo(s, n) == SubSeq(s, 1, Min({n, Len(s)}))

NearestChunks(ix, k, scope, excluded) == UpTo(Widen(ix, k, k * Overfetch, scope, excluded), k)

\* The search a user asks for: one shortlist, the best chunk of each message.
Search(ix, limit) ==
    LET shortlist == IndexSearch(ix, Max({limit * SearchOverfetch, MinShortlist}), Global)
    IN  UpTo(FirstChunks(shortlist, Range(shortlist)), limit)

\* The rows of the chunks of messages, which go with their messages.
GetChunksForMessages(ids) == {key \in Keys : key[1] \in ids \cap stored}

\* The text of a retrieved chunk is read from its row, empty without it.
HasText(key) == key \in GetChunksForMessages({key[1]})

\* The chunks whose vectors are pooled for each message: those of its rows that
\* are in the index; without any the message has no vector.
RepresentativeVectors(ix, ids) ==
    LET pooled == GetChunksForMessages(ids) \cap Range(ix.keys)
        Group(keys) == [m \in {key[1] : key \in keys} |-> {key \in keys : key[1] = m}]
    IN  Group(pooled)

\* The query resolver: a hit whose message has no row stays null in the list.
SearchQuery(hits) == [i \in DOMAIN hits |-> IF hits[i][1] \in stored THEN hits[i] ELSE None]

\* Rows in a pseudo-random order, here the order of the keys.
RandomChunkRefs(limit) ==
    UpTo(SetToSortSeq(GetChunksForMessages(Messages),
                      LAMBDA a, b : a[1] < b[1] \/ (a[1] = b[1] /\ a[2] < b[2])), limit)

\* The noise reference: the fetch is doubled at most until its cap.
RandomChunks(n, fetch, scope, excluded) ==
    LET random[m \in Nat] ==
            LET rows  == RandomChunkRefs(m)
                match == SelectSeq(rows, LAMBDA key : EvalPredicate(key[1], home[key[1]], scope, excluded))
            IN  IF Len(match) >= n THEN SubSeq(match, 1, n)
                ELSE IF Len(rows) < m \/ m >= n * RandomCap THEN match
                ELSE random[2 * m]
    IN  random[fetch]

-----------------------------------------------------------------------------
Init ==
    /\ \E s \in Stores : /\ home = s.home
                         /\ stored = s.stored
                         /\ vectors = s.vectors
                         /\ tableDim = s.dim
    /\ indexes = <<>> /\ observer = 0 /\ live = 0
    /\ build = Idle
    /\ task = [m \in Messages |-> NoTask]
    /\ missed = {} /\ gone = {} /\ crashes = 0

\* A message is stored with its chunks, then handed to the embed queue of the
\* installed substrate.
Store(m, t) ==
    /\ live # 0 /\ home[m] = None /\ t \notin gone
    /\ home' = [home EXCEPT ![m] = t]
    /\ stored' = stored \cup {m}
    /\ task' = [task EXCEPT ![m] = [NoTask EXCEPT !.pc = "queued", !.emb = indexes[live].emb]]
    /\ UNCHANGED <<vectors, tableDim, indexes, observer, live, build, missed, gone, crashes>>

\* A worker reads the chunks and asks the embedder for their vectors: an error,
\* or any number of them.  The chunks of a deleted message are gone.
Embed(m, n) ==
    /\ task[m].pc = "queued"
    /\ task' = [task EXCEPT ![m] = IF m \in stored /\ n > 0
                                   THEN [@ EXCEPT !.pc = "lookup", !.got = n, !.next = 1]
                                   ELSE NoTask]
    /\ UNCHANGED <<storeVars, indexes, observer, live, build, missed, crashes>>

\* InsertChunkEmbedding reads the message's thread, and fails without the row.
Lookup(m) ==
    /\ task[m].pc = "lookup"
    /\ task' = [task EXCEPT ![m] = IF m \in stored THEN [@ EXCEPT !.pc = "commit", !.thread = home[m]]
                                   ELSE NoTask]
    /\ UNCHANGED <<storeVars, indexes, observer, live, build, missed, crashes>>

\* Its transaction replaces the vector of the chunk; the table refuses one of
\* another width, which ends the task.
Commit(m) ==
    LET w == task[m]
        key == <<m, w.next>>
    IN  /\ w.pc = "commit"
        /\ IF w.emb.dim = tableDim
           THEN /\ vectors' = {v \in vectors : v.key # key \/ v.model # w.emb.model}
                                \cup {[key |-> key, model |-> w.emb.model, dim |-> w.emb.dim]}
                /\ task' = [task EXCEPT ![m].pc = "notify"]
           ELSE /\ vectors' = vectors
                /\ task' = [task EXCEPT ![m] = NoTask]
        /\ UNCHANGED <<home, stored, tableDim, indexes, observer, live, build, missed, gone, crashes>>

\* The task after one chunk: the next chunk it has a vector for.
Advanced(w) == IF w.next < w.got THEN [w EXCEPT !.pc = "lookup", !.next = @ + 1] ELSE NoTask

\* Mutant: the observer takes vectors of every model.
NotifyAnyModel(m) ==
    LET w == task[m]
    IN  /\ w.pc = "notify"
        /\ missed' = IF build.pc = "scanned" THEN missed \cup {<<Len(indexes), <<m, w.next>> >>}
                     ELSE missed
        /\ IF observer = 0
           THEN /\ task' = [task EXCEPT ![m] = Advanced(w)]
                /\ UNCHANGED indexes
           ELSE /\ indexes' = [indexes EXCEPT ![observer] = Recorded(@, m, w.thread)]
                /\ task' = [task EXCEPT ![m] = [@ EXCEPT !.pc = "add", !.thread = <<observer, w.thread>>]]
        /\ UNCHANGED <<storeVars, observer, live, build, crashes>>

\* After the commit the observer of that moment is called.  An index of another
\* model ignores the vector; the others record the thread first.
Notify(m) ==
    LET w == task[m]
    IN  /\ w.pc = "notify"
        /\ missed' = IF build.pc = "scanned" THEN missed \cup {<<Len(indexes), <<m, w.next>> >>}
                     ELSE missed
        /\ IF observer = 0 \/ indexes[observer].emb.model # w.emb.model
           THEN /\ task' = [task EXCEPT ![m] = Advanced(w)]
                /\ UNCHANGED indexes
           ELSE /\ indexes' = [indexes EXCEPT ![observer] = Recorded(@, m, w.thread)]
                /\ task' = [task EXCEPT ![m] = [@ EXCEPT !.pc = "add", !.thread = <<observer, w.thread>>]]
        /\ UNCHANGED <<storeVars, observer, live, build, crashes>>

\* The observer then takes the index's own lock and adds the vector.
AddVector(m) ==
    LET w == task[m]
    IN  /\ w.pc = "add"
        /\ indexes' = [indexes EXCEPT ![w.thread[1]] = Add(@, <<m, w.next>>, w.thread[2], w.emb.dim)]
        /\ task' = [task EXCEPT ![m] = Advanced([w EXCEPT !.thread = None])]
        /\ UNCHANGED <<storeVars, observer, live, build, missed, crashes>>

-----------------------------------------------------------------------------
(* The build of a substrate: at boot, and on every reload while the workers *)
(* of the installed one go on.                                              *)

\* The embedder is probed for its width.  Another width than the table's drops
\* the table and creates it empty; a failed probe leaves it as it is.
Probe(e, answers) ==
    /\ build.pc = "idle" /\ Len(indexes) < MaxBuilds
    /\ build' = [Idle EXCEPT !.pc = "probed", !.emb = e]
    /\ IF answers /\ e.dim # tableDim
       THEN tableDim' = e.dim /\ vectors' = {}
       ELSE UNCHANGED <<tableDim, vectors>>
    /\ UNCHANGED <<home, stored, indexes, observer, live, task, missed, gone, crashes>>

\* A read fails: the build is given up and the installed substrate stays.
BuildFails ==
    /\ build.pc \in {"probed", "snapped"}
    /\ build' = Idle
    /\ UNCHANGED <<storeVars, indexes, observer, live, task, missed, crashes>>

MessageThreads ==
    /\ build.pc = "probed"
    /\ build' = [build EXCEPT !.pc = "snapped", !.threads = [m \in stored |-> home[m]]]
    /\ UNCHANGED <<storeVars, indexes, observer, live, task, missed, crashes>>

EachChunkEmbeddingForModel(model) == {v.key : v \in {u \in vectors : u.model = model}}

\* The vectors of chunks, in turn, fill an index that has read its threads.
Filled(ix, order, dim) ==
    FoldLeft(LAMBDA acc, key : Add(acc, key, ThreadIn(ix, key[1]), dim), ix, order)

\* The stored vectors of the model fill the new index, in any order.  A vector whose
\* message was not in the snapshot has no thread and stays out of the partitions.
Scan ==
    LET ix   == NewIndex(build.emb, build.threads)
        rows == EachChunkEmbeddingForModel(build.emb.model)
    IN  /\ build.pc = "snapped"
        /\ \E order \in SetToSeqs(rows) :
              indexes' = Append(indexes,
                [Filled(ix, order, tableDim) EXCEPT !.loose = {key[1] : key \in rows} \ DOMAIN build.threads])
        /\ build' = [build EXCEPT !.pc = "scanned"]
        /\ UNCHANGED <<storeVars, observer, live, task, missed, crashes>>

SetEmbeddingObserver ==
    /\ build.pc = "scanned"
    /\ observer' = Len(indexes)
    /\ build' = [build EXCEPT !.pc = "observed"]
    /\ UNCHANGED <<storeVars, indexes, live, task, missed, crashes>>

Install ==
    /\ build.pc = "observed"
    /\ live' = observer
    /\ build' = Idle
    /\ UNCHANGED <<storeVars, indexes, observer, task, missed, crashes>>

-----------------------------------------------------------------------------
\* Deleting a thread deletes its messages and their chunks, and a trigger the
\* vectors of the chunks.  No index is told.
DeleteThread(t) ==
    /\ live # 0 /\ t \notin gone /\ Cardinality(gone) < MaxDeletes
    /\ gone' = gone \cup {t}
    /\ stored' = {m \in stored : home[m] # t}
    /\ vectors' = {v \in vectors : v.key[1] \notin stored \/ home[v.key[1]] # t}
    /\ UNCHANGED <<home, tableDim, indexes, observer, live, build, task, missed, crashes>>

Crash ==
    /\ crashes < MaxCrashes
    /\ crashes' = crashes + 1
    /\ indexes' = <<>> /\ observer' = 0 /\ live' = 0
    /\ build' = Idle
    /\ task' = [m \in Messages |-> NoTask]
    /\ missed' = {}
    /\ UNCHANGED storeVars

Next ==
    \/ \E m \in Messages : \/ \E t \in Threads : Store(m, t)
                           \/ \E n \in 0..Chunks[m] : Embed(m, n)
                           \/ Lookup(m) \/ Commit(m) \/ Notify(m) \/ AddVector(m)
    \/ \E e \in Embedders, answers \in BOOLEAN : Probe(e, answers)
    \/ BuildFails \/ MessageThreads \/ Scan \/ SetEmbeddingObserver \/ Install
    \/ \E t \in Threads : DeleteThread(t)
    \/ Crash

Spec == Init /\ [][Next]_vars

-----------------------------------------------------------------------------
Members(ix, g) == {ix.keys[g.nodes[i].vid] : i \in DOMAIN g.nodes}

\* Every index can be searched without a fault, whatever vectors of whatever
\* models its observer was called with: one width, its embedder's, graphs whose
\* links stay on their layers (annindex/hnsw.go indexes them unchecked), the
\* thread of a searchable chunk known, and every chunk in the partition of its
\* message's thread and in no other.  Only a message that was stored between the
\* build's two reads is outside the partitions.
IndexSound ==
    \A i \in DOMAIN indexes :
        LET ix == indexes[i]
        IN  /\ ~ix.panicked
            /\ ix.dim \in {0, ix.emb.dim}
            /\ \A r \in DOMAIN ix.graphs : Navigable(ix.graphs[r])
            /\ \A m \in DOMAIN ix.threadByMsg : ix.threadByMsg[m] = home[m]
            /\ Members(ix, ix.graphs[Global]) = Range(ix.keys)
            /\ \A t \in Threads : \A key \in Members(ix, ix.graphs[t]) : home[key[1]] = t
            /\ \A key \in Range(ix.keys) :
                \/ key[1] \in ix.loose
                \/ /\ key[1] \in DOMAIN ix.threadByMsg
                   /\ key \in Members(ix, ix.graphs[home[key[1]]])

\* No stored vector is lost to retrieval without a race: a vector of the model
\* that is in the table and not in the index the database notifies is either on
\* its way to it, or was notified to the index before it after this one's build
\* had read the table (storage/db.go has the observer set once, before inserts).
IndexCurrent ==
    observer # 0 =>
        LET ix == indexes[observer]
        IN  \A v \in {u \in vectors : u.model = ix.emb.model} :
                LET w == task[v.key[1]]
                IN  \/ v.key \in Range(ix.keys)
                    \/ <<observer, v.key>> \in missed
                    \/ w.next = v.key[2] /\ (w.pc = "notify" \/ (w.pc = "add" /\ w.thread[1] = observer))

Distinct(s) == \A i, j \in DOMAIN s : i # j => s[i][1] # s[j][1]

Eligible(ix, scope, route, excluded) ==
    {m \in {key[1] : key \in Members(ix, ix.graphs[route])} :
        EvalPredicate(m, ThreadIn(ix, m), scope, excluded)}

\* What chunks for a selection must be: at most k, of messages that are eligible,
\* each once; that of a message that is still there has a text and a vector.
SelectionScoped(ix, k, res, able) ==
    /\ Distinct(res) /\ Len(res) <= k
    /\ \A i \in DOMAIN res :
        /\ res[i][1] \in able
        /\ res[i][1] \in stored =>
            HasText(res[i]) /\ res[i] \in RepresentativeVectors(ix, {res[i][1]})[res[i][1]]

\* They are as many as there can be.
SelectionSound(ix, k, res, able) ==
    SelectionScoped(ix, k, res, able) /\ Len(res) = Min({k, Cardinality(able)})

\* A thread's partition leaves out only what IndexSound leaves out.
RouteScoped(ix, scope, excluded) ==
    Eligible(ix, scope, scope, excluded) \ ix.loose = Eligible(ix, scope, Global, excluded) \ ix.loose

\* A ranked answer has at most limit chunks, a message once.
RankingScoped(limit, ranked) ==
    /\ Distinct(ranked) /\ Len(ranked) <= limit
    /\ \A i, j \in DOMAIN ranked : i < j => Score[ranked[i]] >= Score[ranked[j]]

\* An item of a user's search is null for a deleted message only, and none of the
\* best is missed by a shortlist that holds them all.
RankingSound(ix, limit, ranked) ==
    /\ LET shown == SearchQuery(ranked)
       IN  \A i \in DOMAIN ranked : shown[i] = None <=> home[ranked[i][1]] \in gone
    /\ Len(ix.keys) <= MinShortlist =>
        \A key \in Range(ix.keys) :
            \/ \E i \in DOMAIN ranked : Score[ranked[i]] >= Score[key] /\ ranked[i][1] = key[1]
            \/ Len(ranked) = limit /\ Score[ranked[limit]] >= Score[key]

\* A noise reference of at most k chunks, all in scope.
NoiseSound(k, noise, scope, excluded) ==
    /\ Len(noise) <= k
    /\ \A i \in DOMAIN noise : EvalPredicate(noise[i][1], home[noise[i][1]], scope, excluded)

\* Retrieval returns k messages whenever k are eligible: each once, in scope and
\* not excluded, however many chunks of excluded or repeated messages fill the
\* shortlist; and answering from a thread's partition instead of the global graph
\* changes nothing, apart from the messages IndexSound leaves out.  A chunk of a
\* message that is still there comes with its text and a vector to compare it by.
\* The search of a user is ranked and has a message once; the noise reference is in scope.
RetrievalSound ==
    live # 0 =>
        LET ix == indexes[live]
        IN  /\ RankingScoped(2, Search(ix, 2)) /\ RankingSound(ix, 2, Search(ix, 2))
            /\ \A scope \in DOMAIN ix.graphs, excluded \in {{}} \cup {{m} : m \in stored} :
                LET able == Eligible(ix, scope, scope, excluded)
                IN  /\ RouteScoped(ix, scope, excluded)
                    /\ \A k \in 1..2 :
                        /\ SelectionSound(ix, k, NearestChunks(ix, k, scope, excluded), able)
                        /\ NoiseSound(k, RandomChunks(k, k * RandomFetch, scope, excluded), scope, excluded)
=============================================================================
