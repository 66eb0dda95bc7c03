# A TLA+ verification of Grudge

Grudge is a self-hosted agent service in Go. It keeps every conversation as an
append-only thread of messages in SQLite, runs an LLM agent (Google ADK) on a
thread, and for each outbound model call assembles the request from the store:
a window of recent turns plus older prerequisites that its selection engine
(RRC) finds. This directory models the parts of it whose correctness depends on
interleavings, failures and long sequences of steps, model-checks them with TLC
and proves the central safety properties with TLAPS.

`PROJECT.json` lists the components, the runs, the correspondence of every
definition with the source lines it models, the disagreement between code and
documentation that a run exhibits, the hazards the properties are aimed at, and
the theorems.

## 1. Inventory

| component | state | operations | hard behaviour | what makes it correct |
|---|---|---|---|---|
| **turn runner** `service/agent/runner.go` | position counter, buffered tool calls, thinking and text buffers, turn id, context | `SendMessage`, `processEvents`, `CancelTurn`, `NextPosition` | resolvers write beside the turn without its lock; stop, failing insert, crash at any step | stored calls and results are paired, ordered, settled; a stop returns |
| **message store** `service/storage/messages.go`, `chunks.go` | the messages and chunks tables | `InsertMessage`, `InsertToolCallPair`, bounded reads | partial writes | append-only, pairs are atomic |
| **threads and branches** `graph/schema.threads.resolvers.go`, `schema.messages.resolvers.go` | threads, working directories | create, update, archive, delete, send, edit | statements of several mutations interleave with builds and reloads | a change reaches the live runner; a branch holds whole turns |
| **runner registry** `service/runtime/registry.go` | one entry per thread, builds in flight | `GetOrBuild`, `SetCancel`, `Stop`, `Delete`, `StopAll` | concurrent builds, failing builds, stop during start | single flight, no orphan, every waiter wakes |
| **autonomous loop** `service/agent/autonomous.go` | pause gate, round, deadline | kickoff, tick, pause, resume, exit with deferred calls | pause racing a tick, cancel while paused | pause holds, a cancel ends the loop |
| **agent state, reconciler** `service/storage/agentstate.go`, `service/runtime/reconcile.go` | row: status, mode, rounds, start | narrow updates, boot restart | crash between row and goroutine | rounds continue, no phantom run |
| **mutations** `service/graph/schema.*.resolvers.go` | none of their own | start, stop, pause, resume, plan, chat, approve ... | any order, any number of clients | every mutation returns |
| **tools, hooks, sandbox** `service/agent/tools`, `service/hooks`, `sandbox` | files, tasks, mode | the tools, their guards, hooks and container | a guard passed before a wait of minutes; edits of one file | effects pass every gate; an edit keeps what others wrote |
| **approvals, tool agent** `service/approvals`, `service/runtime/toolagent.go` | a channel of capacity 1 per waiting call | register, verdict, answer, timeout, cancel | verdicts from several tabs, late verdicts, equal ids | the first verdict decides, nothing leaks, every call returns |
| **settings, substrate holder, embed queue** `service/config`, `service/substrate`, `service/search/embedqueue.go` | settings in memory and file, engine, queue and its workers | boot, update, reload, save, enqueue, close | overlapping updates, failing save or build, crash | nothing accepted is lost; engine, queue and settings match; an acknowledged update stays |
| **model call and assembly** `adkbridge/rrcllm.go`, `rrc/assembly.go`, `rrc/protocol.go` | window, selection, excluded and dropped messages | load, close, shed, select, send, retry | overflow retries, groups that share messages, boundary of the budget | the request is closed, fits, keeps its focus; the call ends |
| **selection engine** `rrc/*.go`, `storage/edges.go` | graph of scored and provenance edges, shadow price, edges table | select, walk, detect, rerank, record provenance, restart | two threads on one graph, cycles, deletions, restarts | each walk computes its definition; provenance keeps the order of generation |
| **vectors** `service/oracle`, `service/annindex`, `service/search`, `rrc/chunk` | chunk vectors, HNSW index, observer | chunk, embed, commit, notify, rebuild, search | reload with another embedder beside the workers | the index is sound and current; a retrieval is complete and filtered |
| **provider road** `core/adapter`, `core/httpc`, `core/genaicodec`, `rrc/tokenscale` | stream buffers, attempts, ring of observations | encode, stream, retry, batch, observe, save | fragments interleave, streams break, retries, cancellation, crash | whole calls, no replay, results with their inputs, durable scale |
| **pubsub, attachments** `service/pubsub`, `service/attachments` | subscribers and their buffers; files | subscribe, publish; upload, download | slow and leaving subscribers; files larger than declared | only a full buffer loses; reported files are kept |
| token counting, score cache, subagents, plans, secrets, skills, prompt, MCP, web client, generated code, tools around the program | | | | *not modelled, see section 8* |

**How they interact.** A mutation asks the registry for the thread's runner,
which builds one with the engine the substrate holder has at that moment. The
runner holds its own mutex during a turn; ADK calls the model through the RRC
bridge (one model call per step of the turn), the tools through the tool agent,
which may wait for an approval. Every stored message is handed to the embed
queue, whose workers fill the vector table and, through an observer, the index
that the engine retrieves from. A settings change saves the settings, builds a
new substrate, closes the old queue and stops all runners. At boot the
reconciler restarts the runs the agent_state rows say were running, and only
then the listener starts.

## 2. Modules

| module | models |
|---|---|
| `ThreadLog` | abstract: what the message table promises about one thread |
| `TurnRunner` | one runner, the table and the resolvers that write beside it; refines `ThreadLog` |
| `AgentLifecycle` | registry, loops, agent_state row, mutations, boot |
| `ThreadService` (extends `PubSub`) | mutations of threads and messages, the runner each leaves, branches, uploads, subscribing tabs |
| `Approvals` | waiting tool calls and the verdicts sent to them |
| `ToolCalls` (extends `Approvals`) | tool calls of several threads through their guards, hooks, approvals, effects |
| `Settings` | decoding, validating, applying and building settings, as operators |
| `SubstrateHolder` (extends `Settings`) | boot, settings updates, substrate, embed queue, workers, inserts, crash |
| `ModelCall` | one outbound model call: window, closure, selection, shedding, retries, provenance |
| `PrerequisiteGraph` | the engine's graph and its two walks, beside reference definitions |
| `Engine` (extends it) | selection events, calls and provenance of several threads on one graph, edges table, restart |
| `Chunking`, `Hnsw` | splitting of text, and the graph index, as operators |
| `VectorStore` (extends both) | vector table, index, embed workers, rebuild, retrievals |
| `WireCodec` | canonical chats and the adapters' encodings, as operators |
| `ProviderCall` (extends it) | one call to a provider: encoding, attempts, stream, batches, token scale |
| `MC*` | instances for TLC: constants, initial stores, scripts |
| `*_proofs` | theorems and their lemmas; those of `ModelCall` stand in `TurnRunner_proofs` |

Operators named after a mistake and introduced by "Mutant:" are alternative forms of the
definition that follows. No specification uses them; each is what a
plausible bug would make of that definition, and replacing the definition by
it makes TLC find the violation of one property.

### TurnRunner

`log` is the table. `msgSeq` is the atomic counter and each of its `Add`, `Load`
and `Store` operations is a step (`MintID`, `LoadPosition`, `SyncRead`,
`SyncCompare`, `SyncStore`), because `NextPosition` is called by resolvers that
do not hold `r.mu`. `todo` holds the messages the current event has still to
build. A tool call is buffered (`BufferCall`) and stored with its result
(`StoreResult`), or with an error result by the turn-end flush (`FlushNext`,
`StoreFlush`). Events come from ADK in any order the code has a branch for.
Every store may fail, `CancelTurn` and `Crash` may happen anywhere. Text is the
set of thinking blocks it comes from, so that a signature can be compared with
the text it was issued for. A block may end without a signature (`EvBlockEnds`), and
its text then waits for the signature of a later one; `sealed` is the blocks a
signature was issued for. `Recycled` and `ZeroTextBlocks` admit two provider
behaviours (repeated call ids, a signed block without text) that the passing
runs leave out; see section 7. `Table` instantiates `ThreadLog` with `rows <- log`
and `ImplementsThreadLog` is its specification.

### AgentLifecycle

A mutation is the list of its critical sections, database accesses and blocking
points (`Script`); `job[p].todo` is what process *p* has still to do and an
early return empties it. Deferred calls of a loop's goroutine are such a list
too. A turn is taking `r.mu`, an outcome, and releasing it.

### ThreadService and PubSub

A request is an operation with the point it has reached; every SQL statement
and every critical section of the registry is a step. `building[t]` collects what
a build has read so far (engine, completer, row, mode, in this order), so that a
change may fall between any two reads; `raced` marks the threads for which one did.
`SetMode` is the agent's own EnterPlanMode tool, which stops no runner; `planned` marks
the threads where that happened. `PubSub` keeps one bounded channel per subscription. A
publication takes the read lock (`Publish`) and sends to one subscriber at a time (`SendNext`),
with the sends of other publishers of the topic in between; it holds up subscriptions and
unsubscriptions, not the other publishers. A name of a file is a sequence of bytes of a few kinds,
marked and cut as `sanitizeFilename` does it.
Every runner has a position counter and a current turn of its own, which a
denial or a correction sent through it uses as they are at that moment (`seq` and
`turn`, by the request whose build made the runner). Two runners of one thread
can therefore overlap, and a denial that finds a runner before its first turn
stores its pair under a turn without a user's message. `MaxPositions` bounds the
messages a script may store. Denials and corrections find a registered runner;
names, view state and type sniffing are left out.

### Approvals and ToolCalls

`RequireApproval` and `AskUser` have the same shape: publish, register, select
over context, timer and channel, unregister. `SendApproval` looks the channel
up under the lock and sends outside it; `Lookup` and `Send` are two steps.
In `ToolCalls` a call runs the list of stages its tool has (`Stages`): resolve the
path, plan guard, hook, permission, approval, read, truncate, fill, run,
post-hook. A truncation or a write may fail, the write after any part of the
content. Paths are sequences of names, so that `..` and a sibling whose name
begins with the plan directory's are what they are in the code. Ids are
numbered per runner and the registry is one for all threads. The working
directory of a command is the process's own. Glob, Grep, the web tools, Agent,
SendMessage and TodoWrite are left out.

### Settings and SubstrateHolder

`Settings` says which update decodes, validates, builds and searches;
`SubstrateHolder` runs boot and updates through the holder's lock: apply in memory,
save (truncate, then write), build, store the engine, swap the queue, notify.
`Holder.Enqueue` loads the queue pointer (`LoadQueue`) and sends (`Send`) in two
steps. `Crash` may happen at any step and is followed by `Boot` and `Bootstrap`
on the file as it was left.

### ModelCall

A message is its position; a stored thread gives each position a turn, a kind, a
counterpart and a cost in tokens. Tool calls and results are one per row, as
`InsertToolCallPair` stores them, so closure is a message and its counterpart; a
missing or ambiguous counterpart is `Missing`. The scorer's choice is
free: any set of messages with any strengths (in bits, `Certain` being the
confidence 1 whose bits are infinite). `ShedLocal`, `ShedGroup` are one iteration each of
the two loops of `Assemble`; `Overflow` is one retry of `GenerateContent`.
The order of the wire is left out: no property is about it.

### PrerequisiteGraph and Engine

The graph is a bag of edges: `AddEdge` appends without looking. Scores are
multiples of 1/`Unit` and products are exact. `Mass` is `provenanceMassWalk`
(settle by best bound up to a cap, then sum in topological order, cycles last),
`Extract` is `extractSubgraph` (a heap of path values), `ApplyMMR` the
diversity rerank. `MassIsExact`, `SelectionIsExact` and `RerankSound` compare them with
definitions by path extension. In `Engine` what is retrieved and how it scores
is free within `Raws`; the reference sample gives a floor; a binding price may
refuse any detection, by one channel or by both. A thread runs one call at a time, its window
fits whole, a confidence is `Beat` for the text, `Loss` or `Beat` for the mass, and their sum in bits
for both (`Joint`), ties of the heap go any way, and the score cache is left out, as its scorer is free.

### Chunking, Hnsw and VectorStore

`Split` works on bytes of four kinds; the assumption `SplitIsSound` checks it over
every text of five bytes (blank ends make the shorter ones), every size and every overlap. `Hnsw` inserts and
searches as `hnsw.go` does, with the layers drawn given as constants and ties
broken by node. A vector is its sign code and its score against the one query
of the model. `VectorStore` runs embed workers (`Lookup`, `Commit`, `Notify`,
`AddVector`) beside a build (`Probe`, `MessageThreads`, `Scan`,
`SetEmbeddingObserver`, `Install`), a deletion and a crash. A model name
determines its width. The retrievals are operators that the properties ask in
every state.

### WireCodec and ProviderCall

`WireCodec` is `chatwire.Canonicalize` and what each adapter sends and counts. In
`ProviderCall` one call is encoded, attempted, classified, retried and streamed;
fragments of two tool calls interleave; a list service is asked in batches; and
an observation enters the token scale, whose save is several steps.

## 3. Runs

| run | instance | shows |
|---|---|---|
| `turn_alone` | 2 turns, 2 calls, 2 thinking blocks, 1 crash, no resolver | pairing, settling, unique ordered positions, signatures, results shown only when durable, refinement of `ThreadLog` |
| `turn_resolvers` | 2 turns, 1 call, a resolver's write, failing position reads, fair | a cancelled turn returns |
| `lifecycle_mutations` | any 2 of the 12 mutations, 2 clients, failing builds, mode-changing turns, fair | no registered runner is overwritten; every mutation returns; a cancelled loop ends |
| `lifecycle_run` | start, pause, resume, 2 rounds, 2 loops, 1 crash | pause holds; rounds never go back; a quiet thread is not Running |
| `threads` | 16 scripts of 3 requests, a spare thread, a reload, an agent that enters plan mode, buffers of 1, names of 4 bytes | the live runner is current; branches keep whole turns; each publisher's events arrive in order and are lost only behind a full buffer; reported uploads are kept and can be fetched |
| `tools` | plans of 2 calls of 1 or 2 threads, with users, modes and hooks, fair | effects pass every gate; an edit keeps what others wrote; verdicts and answers reach their calls; calls return |
| `misdirected_verdict` | 2 threads, 1 command each | **violated**: the approval of one call starts the other |
| `substrate` | all pairs of 12 updates and some triples, 3 reloads, 2 messages, buffer 1, failing builds, 1 crash, fair | nothing lost or doubled; engine, queue and settings match; acknowledged updates stay; replaced queues drain and end |
| `model_call` | 9 stored threads, 3 strengths, budget 7, fair | closure; budget, focus, density order, one publication; termination |
| `provider_call` | 7290 chats by 4 adapters and 7 list services, a second call, 2 attempts, 2 fragments, 1 crash, fair | requests are valid and counted; whole calls; no replay; alignment; durable scale; a cancelled call returns |
| `engine` | 5 messages, 2 threads, 984 graphs, 2 selections, 1 restart, 1 deletion | both walks and the rerank compute what they should; provenance is ordered |
| `vectors` | 3 messages of 2, 1 and 1 chunks, 2 threads, 2 embedders, 2 builds, 1 crash, 1 deletion | index sound and current; retrievals complete and filtered |

The violated property states what the documentation says; the finding in
`PROJECT.json` quotes it.

**Why the bounds are enough.** Positions, turns and calls are compared pairwise,
so two of each meet every comparison; a third turn repeats the second's seeding.
`MaxSeq` ends a turn after a few events but never blocks one in progress; four positions hold two pairs in
either order, in one turn or in two, or a pair and both thinking blocks. Two thinking blocks
are an unsigned one and the signed one its text is stored with, or two signed ones with a change
between them.
Two clients with one mutation each meet every pair of critical sections
(`lifecycle_run`, which checks no liveness, takes them as symmetric); two
loops suffice for a loop that survives its successor; the bounds on runners and
loops of `lifecycle_mutations` are above what two mutations can start, so that
no process waits for a bound. Three requests of `threads` are a change, a build it
overtakes and a third party. A buffer of one is full after one message. Names of up to
six bytes against a limit of four are cut at a blank, inside a character, before an extension
and to the stem of a device. The
updates of `substrate` contain each way to be refused, to fail and to keep or
change each block. The nine threads of `MCModelCall` contain a pair in, before and
across the window's edge, a window over the budget that can and one that cannot
be shed, a correction inside a turn, a missing counterpart, a turn without
discourse and the empty thread; with costs of 1 to 4 against a budget of 7 every
outcome of both shedding loops occurs. The graphs of `MCEngine` have up to six
edges of two weights, paths of three hops and cycles of two messages, against a
cap of two. Four chunks against an `M` of 2 force links to be pruned and shortlists of one
to be widened. `turn_alone` uses the symmetry of call ids, which no property
tells apart, and no liveness is checked there.

CHECK_DEADLOCK is off except in `provider_call`, whose last step loops: a service whose
clients have stopped asking, and a call that has returned, are meant to rest.

## 4. Fairness

Weak fairness is given only to goroutines of the program, one condition per
goroutine: the runner's own steps (`TurnRunner`), processes and loops
(`AgentLifecycle`), calls and mutations (`ToolCalls`), workers and closers (`SubstrateHolder`), the call (`ModelCall`, `ProviderCall`). The
Go scheduler and Go's mutexes justify it. Nobody has to send a request, answer an
approval, insert a message or crash, and a provider owes no answer: a request or
a read on a cancelled context fails, which is Go's contract, and that is what
`CancelReturns` rests on. In `ModelCall` turns end because the provider answers or the
call fails; embeds end because of the job timeout, waits because of the timer; these are
steps of the goroutine that waits. Provider overflows are steps of the call, and
`CallEnds` holds although every request may overflow.

## 5. Proofs

All theorems hold for every value of the constants: any sets of calls, clients,
users, writers and threads and any bounds.

* **`TurnRunner_proofs`**. `TypeCorrect`: `TypeOK` is inductive; `TypeSync` carries
  that a value about to be stored into the counter is not negative although
  `MaxPosition` returns -1 for an empty thread or a failed read. `ProtocolClosure`: the
  invariant is `Inv` = `Table!Closed` (a call row is directly followed by its
  result and a key names one call), `TurnKeys` (turn ids grow, so a new turn
  meets no row of its own), `Unstored` (a call that is buffered or about to be
  has no row), `Seen` (`seenCallIDs` covers the turn's calls wherever they are)
  and `Queue` (what one event may build). `ProtocolClosed` alone is not
  inductive: storing a pair is only safe because its call has no row yet.
  `Refinement`: from the same invariant every step is an `AppendRow`, an
  `AppendPair` or leaves the table alone.
  `RowsSoundHolds` adds `Reading`: positions are handed out in order (`Counter`: no
  row and no buffered call is above the counter, which only a sync lowers, to the
  highest row, with nothing buffered; `Apart`: a buffered call holds a
  position no row has), and `Telling`: whenever something is stored, the signature in the
  buffer is of the last block of the buffered text (`Buffer`), no other block in it was ever signed, and what
  is stored is of blocks that are over (`Past`), so that no later signature can be for it.
  A block that ended unsigned is allowed in front, as the code stores it so (section 7). Its
  hypotheses, no second writer, no failing read and no block signed without text, are
  disagreements of section 7, each of which makes the property false. `TurnSettledHolds` adds `Settling`: a call the turn issued is about to be
  handled, or buffered and shown, or stored and no longer shown, and what is buffered is
  listed for the flush unless an error was already returned. Its hypothesis
  `Recycled = {}`, ids issued once, is also in section 7.
* **`AgentLifecycle_proofs`**. `StepMoves` reduces every step to five moves of the
  registry; `SingleFlight` (while a build runs nothing is registered and one
  process runs it) is inductive under them, and `OneRegistered` follows.
  `PauseHoldsAlways` and `NoPhantomRunAlways` rest on `LifeShape`: what is left of a
  mutation is `Ordered` (each step is followed by one that may follow it, a
  step that sets a run up has the spawn still to come, a runner is in hand
  when a step needs it), and an autoState belongs to one runner and one loop.
  `PauseInv` says where a loop that began a turn since the pause can be: before the
  gate, or blocked at it on the generation of the gate that is closed now. Both
  parts are needed, as a loop that waits on an older channel would run on.
  `PhantomInv` says who owes the next status: whenever the row says Running and
  nobody sent a resume, a loop has not returned, or a process still has the spawn,
  its write of Idle or the reconciliation to do, or a chat turn has its own. The
  theorem has the hypothesis `~BuildsFail`: `StartAutonomous` writes Running before it builds
  (section 7), so with a failing build the property is false.
* **`ToolCalls_proofs`**. Of `Approvals`: `Registered` (a call that waits under an id
  of its own is registered, and no channel stays registered after its wait) and an invariant on
  channels (until a wait ends its channel is empty or holds the first verdict
  given for its id) give `FirstVerdict`. `ApprovalsImplemented` (`ToolSpec => Spec`) maps every
  step of a tool to a step of `Approvals` or a stutter, so its theorems hold of the
  tools. `GatedEffects`: `Progress` ties the stage a call has reached to its outcome, `Gating`
  says of each stage what it leaves for good (hook allowed, path inside the
  workspace, permission), `Guarding` that the plan guard's verdict is
  about the mode the call saw, and `EffectedPast` that an effect has every earlier
  stage behind it. `NoClobber` is an action property over `Fresh` (what an edit
  keeps is part of what it read since its approval). `ResultsMatch` follows from
  `Results`: a question keeps the reply its wait ended with, and numbers of tasks are fresh.
* **`SubstrateHolder_proofs`**. One invariant of five parts: who holds the lock
  and how many requests are counted (`Control`), that every set of settings a restart or
  a rollback may bring back is sound on its own account (`Texts`), which settings the engine
  was built from at each point of a reload (`Match`), that every queue but the one
  in use is retired (`Lines`), and that a message is in one place (`Places`).
  `NothingLost` follows from the last, `Consistent` from `Match` and `Lines`,
  which speak of the window between the two stores that the property excludes,
  `SettingsKept` from `Texts`.
* **`ThreadService_proofs`**. `Fanout`: each channel holds what was published on its
  topic since it subscribed, each publisher's events in order, less what met a full buffer and
  what publications under way have yet to send to it (`Sound`). The lock is in the argument twice: a
  channel with sends to come is listed and open, and a publication under way is
  its publisher's last, so what is sent is newer than all that publisher sent before. `RunnerCurrent`: what a
  build has read so far is in force unless the thread is `raced` or `planned` (`Reading`), which the registered
  runner inherits (`Running`); `Builder` and `Unborn` close the induction.
  `BranchWhole`: a turn's first message is its user's (`Leading`, which needs
  `Counting`: a runner's counter is past its turn's first message), and the branch
  point is the first message of a turn, for good if that is the user's (`Anchor`). `AttachmentsKept`:
  `sanitizeFilename` leaves its own results alone, for names of any length, but for the exceptions the
  property names: a result that was not cut is trimmed and marked already, and a cut one begins as it did and
  is as long as the limit. Trims are minima and maxima of positions, found with the
  well-foundedness of the naturals.
* **`ProviderCall_proofs`**. `Flow` (what the caller has seen at each point of a call,
  all of it from the attempt under way) gives `NoReplay`; `Bridge` (fragments in the
  decoder, in its queue and at the bridge are in order and, once given, whole;
  the final response repeats the given calls) gives `WholeCalls`; `Landed` gives
  `Aligned`; `Durable` (a rename only puts a flushed file in place) `ScaleDurable`.
  `Asking` (what a caller asks is a request of messages) gives `RequestSound`, with lemmas
  on the codecs: flattening keeps each part in its place, a unit is a message and
  the results of its calls, and in the sorted atoms of a request an id is called once and
  answered after its call. Their inductions are least counterexamples, by the
  well-foundedness of the naturals.
* **The model call** (at the end of `TurnRunner_proofs`, which extends `ModelCall` too). `LocalIntact` (since the window was closed no message in
  it misses its counterpart) and the lemma that a closure is closed give
  `WireClosed`, from the assumption (`StoredThread`) that counterparts in a stored thread are
  mutual and of one turn. `ProtocolClosure` is why the store satisfies it.
  `CallSoundHolds` rests on four more parts: `Focus` (from the load on the window holds the
  anchor and what else is pinned, as a shed takes the least message that is
  not), `Densest` (no group left is thinner than one shed; before the first shed of
  an attempt nothing is dropped but what an overflow excluded), `Sent` and `Recorded`. What
  messages cost enters only as a number: the proof of `Densest` never adds.
* **`VectorStore_proofs`**. One invariant, `VectorInv`, of five parts: what the table
  may hold (`StoreFits`); that every index was filled with keys of chunks, in whole graphs,
  each in its thread's partition or of a message the build read no thread for
  (`IndexesFit`); that the snapshot of a build gives messages the
  thread they were stored in, which no step changes (`BuildFits`); that a task is at a chunk its
  message has, and one that is about to add was given an index of its own model, whose
  map has the message (`TasksFit`: with an embedder per model this is why no width ever
  differs); and that the observed index, and one that was scanned and is not observed yet, lack only
  vectors on their way and vectors missed (`AllCurrent`: the second half is needed, since
  `SetEmbeddingObserver` makes it the first). `IndexSound` and `IndexCurrent` follow.
  Below them stand two results about data. A graph stays whole under `insert`, for
  any codes, layers and widths of the beam (`InsertWhole`): what a beam holds is always reached
  from its entry over links of the layer, so its nodes have the layer; the entry of
  a layer has it because the walk comes from above; and a pruned list is no
  longer than its limit. And the cutting of a text comes to its end (`SplitType`), because each
  window begins after the one before. As elsewhere, folds and recursive functions are
  shown to exist before anything is said of them, by the well-foundedness of the naturals.

  `RetrievalScoped` is what of `RetrievalSound` holds whatever a graph misses, for every size, route and
  exclusion. A search of a whole graph finds nodes of it, and
  its list is no longer than the graph, so the doubling of `Widen`
  ends (`SearchFinds`, `WidenOf`); the order by distance and by score is kept by the fold that takes the
  first chunk of each message (`NearestFirstOrdered`, `FirstChunksOf`); and a message
  the build did not race with is eligible on its thread's partition exactly when it is on
  the global graph (`RouteOf`), which is the part that needs `VectorInv`.

* **`Engine_proofs`**. `GenerationOrdered`: an edge is banked long after the event that
  chose its ends, so the invariant follows it from the selection (`Pending`: what a call
  would record is older than its anchor, a tool step, or of another thread) into
  the graph and the rows a restart reloads (`Banked`). Behind both stands `Corpus`: ids are
  given in order, and a turn holds the newest messages of its thread, so what the
  thread has outside it is older than the anchor. `StoreStaysValid`: what the
  program leaves in its store meets `HistoryAssumption` again.

  `SelectionExact` needs little of that (`Focused`: a call under way keeps the anchor it
  selected for) and holds of any graph of scored edges, cyclic or not. The walk
  is compared with its reference step by step (`Exact`): after as many steps of each, no
  message is worth more in the queue than the reference will know a step later, what
  was visited is worth no less than what was not, and what is selected has passed its value
  on; a pop visits one message, so after `Hops` pops nothing waits (`WalkExact`). Values
  are products of scores, and all that is used of them is that an edge never raises one and
  keeps the order of two (`TimesGrows`). That the reduction keeps a message's own edge
  is a property of the order of selection (`Layered`): what a message's paths start from
  was selected before it, and so was what those lead to. `ApplyMMR` follows placing by
  placing (`Ranked`).

  `MassExact` compares three computations over the same graph. What the walk reaches: `Reached`
  says that no message outside the window is worth less than an edge into the window or a settled message gives
  it, that what is settled is worth no less than what waits, and that neither is more
  than the reference has after as many steps; when the walk ends, `Settled` bounds the
  reference from above by the same values, so the cap cuts the weakest. What the drain sums:
  a graph without a cycle has a rank (`AcyclicRank`, the number of a message's descendants), so
  there is always a message to finalize and its mass is the sum over its edges of masses that are final
  (`DrainExact`). What the reference sums: the paths of each length, whose total obeys
  the same equation once no path is longer than the messages reached (`PathSumFixed`). The two
  sums agree only because no product is rounded, which `PowerDivides` shows: `One` is
  `Unit` to the power `Hops`, and a path into the window from messages reached has fewer edges
  than that. `WindowInv` adds to the invariant what the theorem needs of the states:
  the windows hold messages, and the graph holds each edge a number of times.

  Folds and iterations are a CHOOSE among functions that fit a
  recursion; `FoldExists` and `RunExists` show that one fits, `SubsetSet` and `UpTo` that what
  each step keeps the whole keeps, from the well-foundedness of the naturals, which needs no
  induction theorem with an operator.

**Assumptions on the constants.** Each is named in the module that declares the
constants, and evaluated by TLC. Most say that bounds are numbers, that scripts are
sequences of the model's operations, and that the values which stand for "none"
are no members of the sets beside them. Six say more. `NameAssumption`: a name has at least one byte, the
one used in place of an empty one names no device, and no device's name begins with the mark. `HistoryAssumption` says that a store
the engine starts on is one the program wrote (`ValidStore`): an empty one is,
and `StoreStaysValid` shows that every store it leaves is. `ToolAssumption`
says that the working paths of a command are sequences of names: `Clean`
is a fold over the path, and what a fold returns for every input needs an
induction. It also has an id for every call a thread may number, which the code's
counter always has. `HolderAssumption` has a worker (the pool's size is at least one) and a
buffer of at least one job.
`ProviderAssumption` has a batch of at least one text and an attempt of at least one,
and says that a request's messages are messages of the model. `VectorAssumption` says that a text
is of bytes, that codes are finite and scores numbers, that there is a layer to draw for every node,
that a shortlist and a beam hold one chunk at least, and that a model has one width, which the settings do not enforce (section 7); its initial stores hold
vectors of the table's width under models that can be configured.

Only model-checked:

* everything under fairness (`StopReturns`, `EverythingEnds`, `CancelEnds`,
  `CallsReturn`, `QueuesEnd`, `CallEnds`, `CancelReturns`), which TLAPS cannot prove here;
* what `RetrievalSound` says beyond `RetrievalScoped`: that a selection has as many chunks as there
  are eligible messages, and that no best chunk is missed, is no theorem for every index, as
  section 7 says of identical codes (a beam can miss nodes that no link leads to); it
  holds at the sizes a run reaches, and a retrieval over larger ones is approximate
  by design. That a null item is of a deleted message, and the noise reference, which is
  sorted by a `CHOOSE` among permutations, are checked with it;
* `SplitIsSound`, evaluated over every text of the sample length;
* `RoundsMonotone`: it needs that one loop at a time writes a run's counter, which
  is only true because `lifecycle_run` starts one run: a second start during the
  first, which the code accepts, gives two loops.

## 6. Plan

1. *Done:* all modules of section 2, with the proofs above.
2. *Prove next:* what of `SplitIsSound` holds for every text, from `SplitType`.
3. *Model next, if the code grows into it:* subagents with `Engine.Fork` and `Merge`
   once something spawns one.

## 7. Disagreements and limits met while modelling

Each is reachable in the models or read off the lines named; only the misdirected
verdict has a run of its own.

**Turn and store**

* `NextPosition` during a turn can hand out a position the turn also uses
  (`runner.go:396` against the comment at 391-395), so `RowsSound` is checked without such writers.
* A user stop stores synthetic error results for buffered calls
  (`runner.go:826`), `runner.go:911-914` says that none is persisted.
* `genaikit/completer.go:131` names a call without id after its tool; the second
  call of a tool in a turn is then skipped as a re-emission (`runner.go:713`).
  With `Recycled = Calls`, `TurnSettled` fails.
* `storeThinking` keeps a signature when the buffer is empty (`runner.go:653`);
  with `ZeroTextBlocks = TRUE`, `RowsSound` fails.
* The text of a block that ended unsigned stays in the buffer and is stored in one row with the signed
  block after it, under a signature that does not cover it (`runner.go:800-809`).
  `RowsSound` therefore allows earlier unsigned text in a signed row; a provider that verifies signatures
  against the text may refuse it.
* `tickRound` is never reset although `runner.go:112-115` says it is at SendMessage's
  entry (420-424 says it is not), and it is set without the lock.

**Runs and mutations**

* A stop between `getOrCreateRunner` and `SetCancel` leaves a loop nobody can
  cancel (`schema.agent.resolvers.go:168`). The model has it; no property covers it, as
  `EverythingEnds` speaks of cancelled loops.
* The deferred `stopRunner` of a finished run stops a newer one (`:176`); no property covers it.
* `StartAutonomousRun` writes Running before the runner is built; when the build
  fails the mutation returns its error and the row stays Running, which
  `lifecycle_run` and the theorem, where builds succeed, leave out (`schema.agent.resolvers.go:157-165`).
* A kickoff without response pauses the run (`autonomous.go:94`), although
  `runner.go:904-907` calls it a no-op.
* A chat turn's deferred Idle may overwrite a run that just started
  (`schema.messages.resolvers.go:209`).
* Resume writes Running with nothing to resume (`schema.agent.resolvers.go:140`), with a correction or without,
  and, during a start, begins a second loop (`:100`). `NoPhantomRun` and
  `RoundsMonotone` are therefore stated for histories without a resume.

**Threads** (`RunnerCurrent` excuses the first two through `raced` and the third through `planned`)

* A build that read the row, the mode or the engine before a change registers
  after the stop (against `schema.threads.resolvers.go:65-70`; `graph/deps.go:18`,
  `schema.agent.resolvers.go:206`); engine and completer are loaded separately and
  may be of two substrates.
* `UpdateThread` reads, changes and writes the row: an overlapping rename reverts
  sandbox and directories without stopping the runner.
* The agent's own EnterPlanMode tool writes plan mode and leaves the runner as it is
  (`plan.go:27`, `toolagent.go:137-146`), so the agent has the prompt of normal mode until something else stops its
  runner, although `enter-plan-mode.adoc:12-13` tells it to follow "the mode-plan section of the
  system prompt".
* Approving a plan manually leaves the plan-mode prompt. A deleted thread's runner stays
  registered. A thread's row and its directories are not one transaction.
* A branch cut at a correction inside a turn holds a call without its result
  (against `messages.go:366-367`), and so does one cut in a turn that has no
  message of the user, which a denial before the first turn leaves; a branch of a branch loses the grandparent's
  prefix; a failed first insert leaves an empty branch; `ThreadCorpus` is only
  used for emptiness (against `schema.messages.resolvers.go:125-128`).
* Publishers of one topic hold a read lock and send side by side (`pubsub.go:65-66`,
  `117-118`): two tabs may get two publishers' events in different orders, and an event may be dropped
  behind one that was published later. `Fanout` promises an order for each publisher only.
* A refused upload leaves its earlier files; deleting a thread leaves its
  attachments. `sanitizeFilename` is not idempotent, and the download route refuses a reported name
  that it would change (`attachments.go:231-237`): one that begins with a blank its leading dots were hiding, or whose
  cut to 255 bytes, which comes after the trim and the marking of device names (`:309-325`), left a blank
  at the end or the stem of a device. A cut inside a character is reported with a replacement character. An extension
  near or over the limit leaves a name too long for the file system, and the upload fails.

**Tools and approvals**

* Ids restart with every runner while the registry is shared: a verdict, or the
  note of a denial, reaches the wrong thread (`build.go:197`, run `misdirected_verdict`).
* A second verdict blocks its mutation on the full channel (`registry.go:70`
  against 4-5); a verdict between the pending event and the registration is
  refused (`toolagent.go:189`).
* Plan mode is checked before the wait for approval and not after it; a failed
  read of the mode counts as no plan mode; `HasPrefix` without a separator exempts
  siblings of the plan directory; `EnterPlanMode` has no guard; the task tools and TodoWrite default to
  "ask" and never ask; NotebookEdit fires no hook; a sandboxed thread cannot write plan files.
* File writes ignore cancellation and are not atomic: one that fails reports an error and leaves the part
  it wrote in place of the old content (`file.go:78,107,165`). Overlapping edits from two
  threads lose one (`NoClobber` is about what was there when an edit reads); tasks are handed out shared
  and unlocked. A cancelled `docker run` is taken to end its container.

**Settings and substrate**

* A crash inside `Save` leaves a torn file that the next boot refuses
  (`settings.go:240`); settings that do not build are saved first and stop the
  next boot (`holder.go:171`, `main.go:148`).
* A failed save or build leaves the settings changed in memory, and a later
  reload applies them. Hooks and MCP tools are made once at boot
  (`main.go:120,133`). Settings are read without the lock by the query and by `factory.go:160`.
* An insert that loaded the queue before a reload panics on the closed channel
  (`embedqueue.go:94`); messages queued at a crash are never embedded. After a
  reload the workers of two queues embed at once (`holder.go:193`), over the cap
  of `embedqueue.go:33-34`.

**Model call and engine**

* Provenance is recorded for messages the budget shed and for streams that broke
  off (`rrcllm.go:278` against 331-332 and 275-277); a window's tail can become a
  contributor through another thread (against `rrcllm.go:325`).
* An excluded message can return as the counterpart of another root, so a retry
  may repeat a request (`rrcllm.go:290`); a certain group is never shed
  (`detect.go:79`, `assembly.go:519`), so a call can fail with groups left.
* A correction stored during a turn makes the turn's next call fail the anchor check
  (`assembly.go:31`).
* An autonomous tick without content is serialized anyway (`assembly.go:79` against
  `rrcllm.go:191-198`).
* Within one turn's tool loop the anchor repeats, so seeds of an earlier event are
  read at their stored verdict (against `selection.go:42-49`); `transitiveReduction` reduces a multi-hop message to its last edge
  although no shortcut exists (`selection.go:187-254`); a single candidate is
  always "flat".
* Repeated provenance doubles edges in memory while the table's key merges them, so
  mass differs after a restart; edges admitted before a failing shed are not
  persisted; provenance across threads is not ordered by generation.
* A deleted thread stays in graph and index; a call that selects from it fails
  (`schema.threads.resolvers.go:92`, `assembly.go:209`). Deleting a thread that has branches fails.
* A single selected message is not discounted for repeating the query, two are (`engine.go:276`).

**Vectors**

* A vector committed after a rebuild's scan and notified to the old observer is
  missing until the next start (`db.go:24`, `substrate.go:226`); `IndexCurrent`
  names exactly these. No backfill exists, though comments rely on one
  (`embeddings.go:311`, `substrate.go:177-179`).
* A message committed between the snapshot of threads and the scan is indexed
  without its thread (against `predicate.go:221-223`); a thread deleted between lookup
  and commit leaves an orphan vector; retrieval can return a deleted message's
  chunk with empty text, and the search resolver (`SearchQuery`) a nil entry, which the
  schema's `[SearchResult!]!` does not allow.
* One model name with another width makes a search panic. A build that fails after its probe has
  already dropped the table. Many identical codes leave nodes of the base layer unreachable.
* With an overlap of more than half the size a chunk can lie inside the one before;
  cuts are on bytes and may split a character.

**Providers**

* Errors of the genai SDK have no `Status()`, so a 503 from vertex or googleai is
  not retried; a 4xx whose body contains "500" is. A mid-stream error is reported to retry events as
  success, and a cancellation gives no final event.
* A stream that ends without its terminal event drops pending calls; the genai
  adapter synthesises Done for a truncated one. An unsigned thinking-only message
  becomes an empty anthropic message. Recycled ids can leave a call unanswered in
  the canonical chat; `RequestSound` assumes unique ids.

## 8. Not modelled

Out of a model checker's reach: numeric scoring, embeddings and tokenization
(only their outcome is, as a free choice or a constant), and the containers,
file systems and services outside the program. Without protocol: secrets, data
directory, plans, selections, tick traces, migrations, skills, prompt assembly, MCP
loading, error presentation, queries. Unreachable in this program: subagents with
`Engine.Fork` and `Merge`, `EnsureVector`, `InsertChunks`, `NearestChunkVectors`, `ScanChunkVectors`,
`ExecStream`, `UpdateEngineConfig` and `ReloadProviders` (the last two are kept in
`SubstrateHolder` as further kinds of reload). The web client, generated code,
benchmarks, evaluation and the tools around the program are left aside.
`PROJECT.json` gives the reason for each component.
