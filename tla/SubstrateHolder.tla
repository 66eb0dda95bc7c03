--------------------------- MODULE SubstrateHolder ---------------------------
(***************************************************************************)
(* substrate.Holder (service/substrate/holder.go): the engine and the      *)
(* embed queue behind atomic pointers, rebuilt under a lock when settings  *)
(* change; config.json, written on the way and read at boot                *)
(* (service/cmd/grudge/main.go); search.EmbedQueue                         *)
(* (service/search/embedqueue.go): a bounded channel and its workers; and  *)
(* the inserts that feed it (service/messages/inserter.go).  Settings are  *)
(* numbered; a substrate is the number of the settings it was built from.  *)
(***************************************************************************)
EXTENDS Settings, Sequences, SequencesExt

CONSTANTS
    Producers,      \* goroutines that insert messages
    Reloaders,      \* goroutines that change settings
    Nobody,         \* no goroutine
    Workers,        \* workers of one queue
    Buffer,         \* capacity of a queue's channel
    Plans,          \* the requests of a behaviour, in order, each a reload
                    \* ("providers", "engine", "mutate") and its input; whether
                    \* the database fails; the local services there are; the
                    \* messages and the crashes
    MaxReloads,     \* bound: requests of a plan
    MaxMessages     \* bound: messages of a plan

ASSUME HolderAssumption ==
    /\ Nobody \notin Reloaders /\ Workers # {}
    /\ Buffer \in Nat \ {0} /\ MaxReloads \in Nat /\ MaxMessages \in Nat
    /\ \A p \in Plans :
          /\ Len(p.asks) \in 0 .. MaxReloads /\ DOMAIN p.asks = 1 .. Len(p.asks)
          /\ p.messages \in 0 .. MaxMessages /\ p.crashes \in Nat /\ p.found \subseteq Roles
          /\ \A i \in DOMAIN p.asks :
                /\ p.asks[i].kind \in {"providers", "engine", "mutate"}
                /\ DOMAIN p.asks[i].set \subseteq Blocks
    /\ Absent # Torn /\ {Absent, Torn} \cap (1 .. MaxReloads + 1) = {}

Versions == 1 .. MaxReloads + 1
Queues   == Versions
Messages == 1 .. MaxMessages

VARIABLES
    plan,           \* what this behaviour asks for
    asked,          \* requests begun
    settings,       \* the settings of a number
    written,        \* history: the request that last wrote a block, or the stance
    cfg,            \* cfg.Settings: number of the settings in memory
    file,           \* config.json: Absent, Torn or a number
    subs,           \* Holder.current
    embeds,         \* Holder.embeds: a queue, 0 if nil
    lock,           \* Holder.mu
    reload,         \* a reloader's pc, request, settings replaced, settings built from
    reloads,        \* requests that took the lock
    mutated,        \* history: settings written by MutateSettings
    acked,          \* history: requests that returned without an error
    up,             \* the process: "up", "loaded", "down", "refused" to start
    crashes,        \* crashes so far
    queue,          \* ver: its substrate (0: unused); jobs; closed
    hand,           \* hand[q][w]: 0 idle, a message being embedded, -1 exited
    retired,        \* queues whose Close runs in a goroutine of its own
    prod,           \* a producer's pc, message and queue
    stored, sent, done      \* messages inserted, enqueued, embedded or failed

asks   == <<plan, asked>>
store  == <<settings, written, cfg, file>>
holder == <<asks, store, subs, embeds, lock, reload, reloads, mutated, acked, up, crashes>>
pool   == <<queue, hand, retired>>
feed   == <<prod, stored, sent>>
vars   == <<holder, pool, feed, done>>

Nothing == [kind |-> "providers", set |-> << >>]
Resting == [pc |-> "idle", ask |-> Nothing, old |-> 1, ver |-> 1]
Idle == [pc |-> "idle", m |-> 0, q |-> 0]
NewQueue(v) == [ver |-> v, jobs |-> << >>, closed |-> "no"]

Empty == [q \in Queues |-> [w \in Workers |-> 0]]
\* The queue Bootstrap makes, if there is an embedder.
First(v) == IF Searches(settings[v]) THEN 1 ELSE 0
Fresh(v) == [q \in Queues |-> NewQueue(IF q = First(v) THEN v ELSE 0)]

Init ==
    /\ plan \in Plans /\ asked = 0
    /\ settings = [v \in Versions |-> defaultSettings(plan.found)]
    /\ written = [v \in Versions |-> [b \in Blocks \cup {"stance"} |-> 0]]
    /\ cfg = 1 /\ file = Absent /\ subs = 1 /\ lock = Nobody
    /\ reload = [x \in Reloaders |-> Resting]
    /\ reloads = 0 /\ mutated = {} /\ acked = {} /\ up = "up" /\ crashes = 0
    /\ queue = Fresh(1) /\ embeds = First(1) /\ hand = Empty /\ retired = {}
    /\ prod = [p \in Producers |-> Idle]
    /\ stored = 0 /\ sent = {} /\ done = {}
-----------------------------------------------------------------------------
(* Reloads: ReloadProviders, UpdateEngineConfig and MutateSettings.        *)

At(x, pc) == reload[x].pc = pc

\* updateSettings decodes and validates its input before it takes the lock.
Request(x) ==
    /\ up = "up" /\ At(x, "idle") /\ asked < Len(plan.asks)
    /\ asked' = asked + 1
    /\ reload' = [reload EXCEPT ![x] = IF Decodes(plan.asks[asked'].set)
                                       THEN [pc |-> "lock", ask |-> plan.asks[asked'], old |-> cfg, ver |-> 1]
                                       ELSE Resting]
    /\ UNCHANGED <<plan, store, subs, embeds, lock, reloads, mutated, acked, up, crashes, pool, feed, done>>

Blocked(set) == DOMAIN set \cup (IF "engine" \in DOMAIN set /\ Engine(set["engine"])["loss_ratio"] > 0
                                THEN {"stance"} ELSE {})

\* The settings that base becomes under the request get the next number.
Begin(x, base) ==
    LET ask == reload[x].ask
        v   == reloads + 2
    IN /\ At(x, "lock")
       /\ reloads' = reloads + 1
       /\ IF ask.kind = "providers" THEN UNCHANGED <<settings, written, cfg, mutated>>
          ELSE /\ cfg' = v
               /\ settings' = [settings EXCEPT ![v] = Apply(settings[base], ask.set)]
               /\ written' = [written EXCEPT ![v] =
                                [b \in DOMAIN @ |-> IF b \in Blocked(ask.set) THEN v ELSE written[cfg][b]]]
               /\ mutated' = IF ask.kind = "mutate" THEN mutated \cup {v} ELSE mutated
       /\ reload' = [reload EXCEPT ![x].pc = IF ask.kind = "mutate" THEN "save" ELSE "build", ![x].old = cfg]
       /\ UNCHANGED <<asks, file, subs, embeds, acked, up, crashes, pool, feed, done>>

\* Mutant: the new settings are worked out from those read before the lock.
BeginStale(x) == lock = Nobody /\ lock' = x /\ Begin(x, reload[x].old)

\* Mutant: a reload does not take the holder's lock.
BeginUnlocked(x) == Begin(x, cfg) /\ UNCHANGED lock

\* Take h.mu and write the new settings into memory.
Acquire(x) == lock = Nobody /\ lock' = x /\ Begin(x, cfg)

Finish(x, v) ==
    /\ cfg' = v
    /\ reload' = [reload EXCEPT ![x] = Resting]
    /\ lock' = Nobody
    /\ UNCHANGED <<asks, settings, written, subs, embeds, reloads, mutated, up, crashes, pool, feed, done>>

\* cfg.Save truncates config.json ...
Truncate(x) ==
    /\ At(x, "save")
    /\ \/ /\ file' = Torn
          /\ reload' = [reload EXCEPT ![x].pc = "write"]
          /\ UNCHANGED <<asks, settings, written, cfg, subs, embeds, lock, reloads, mutated, acked, up, crashes,
                         pool, feed, done>>
       \/ Finish(x, cfg) /\ UNCHANGED <<file, acked>>

\* ... and writes it; an error leaves the settings mutated in memory.
Write(x) ==
    /\ At(x, "write")
    /\ \/ /\ file' = cfg
          /\ reload' = [reload EXCEPT ![x].pc = "build"]
          /\ UNCHANGED <<asks, settings, written, cfg, subs, embeds, lock, reloads, mutated, acked, up, crashes,
                         pool, feed, done>>
       \/ Finish(x, cfg) /\ UNCHANGED <<file, acked>>

\* Build fails on a provider, or on the vector table and index of an embedder.
\* UpdateEngineConfig restores the settings; MutateSettings keeps them, in
\* memory and in the file.
MayFail(v) == ~Buildable(settings[v]) \/ (Searches(settings[v]) /\ plan.fails)
BuildFails(x) ==
    /\ At(x, "build") /\ MayFail(cfg)
    /\ Finish(x, IF reload[x].ask.kind = "engine" THEN reload[x].old ELSE cfg)
    /\ UNCHANGED <<file, acked>>

\* Build reads cfg.Settings; h.current.Store.
StoreSubstrate(x) ==
    /\ At(x, "build") /\ Buildable(settings[cfg])
    /\ subs' = cfg
    /\ reload' = [reload EXCEPT ![x].pc = "swap", ![x].ver = cfg]
    /\ UNCHANGED <<asks, store, embeds, lock, reloads, mutated, acked, up, crashes, pool, feed, done>>

\* h.embeds.Swap: a new queue, or nil when no embedder is configured; the old
\* queue is closed in a goroutine of its own.
SwapQueue(x) ==
    /\ At(x, "swap")
    /\ IF Searches(settings[reload[x].ver])
       THEN /\ embeds' = reloads + 1
            /\ queue' = [queue EXCEPT ![reloads + 1] = NewQueue(reload[x].ver)]
       ELSE embeds' = 0 /\ UNCHANGED queue
    /\ retired' = retired \cup ({embeds} \ {0})
    /\ reload' = [reload EXCEPT ![x].pc = "notify"]
    /\ UNCHANGED <<asks, store, subs, lock, reloads, mutated, acked, up, crashes, hand, feed, done>>

\* onReload (runners.StopAll: AgentLifecycle's Reload); the deferred Unlock.
Notify(x) ==
    /\ At(x, "notify") /\ Finish(x, cfg)
    /\ acked' = IF reload[x].ask.kind = "mutate" THEN acked \cup {cfg} ELSE acked
    /\ UNCHANGED file

ReloadStep(x) ==
    \/ Acquire(x) \/ Truncate(x) \/ Write(x) \/ BuildFails(x)
    \/ StoreSubstrate(x) \/ SwapQueue(x) \/ Notify(x)
-----------------------------------------------------------------------------
(* Crash and boot.                                                         *)

\* The process ends anywhere; what its queues held is not enqueued again.
Crash ==
    /\ up \in {"up", "loaded"} /\ crashes < plan.crashes
    /\ up' = "down" /\ crashes' = crashes + 1
    /\ lock' = Nobody /\ reload' = [x \in Reloaders |-> Resting]
    /\ embeds' = 0 /\ queue' = [q \in Queues |-> NewQueue(0)] /\ hand' = Empty /\ retired' = {}
    /\ prod' = [p \in Producers |-> Idle] /\ sent' = done
    /\ UNCHANGED <<asks, store, subs, reloads, mutated, acked, stored, done>>

\* config.Load: without a file the local services are probed again; main exits
\* on an error.
Boot ==
    /\ up = "down"
    /\ \/ /\ file = Absent /\ cfg' = 1 /\ up' = "loaded"
          /\ \E found \in SUBSET plan.found : settings' = [settings EXCEPT ![1] = defaultSettings(found)]
       \/ /\ file # Absent /\ UNCHANGED settings
          /\ IF file # Torn /\ Loads(settings[file])
             THEN up' = "loaded" /\ cfg' = file
             ELSE up' = "refused" /\ UNCHANGED cfg
    /\ UNCHANGED <<asks, written, file, subs, embeds, lock, reload, reloads, mutated, acked, crashes,
                   pool, feed, done>>

\* Holder.Bootstrap: main exits when the substrate cannot be built.
Bootstrap ==
    /\ up = "loaded"
    /\ \/ MayFail(cfg) /\ up' = "refused" /\ UNCHANGED <<subs, embeds, queue>>
       \/ /\ Buildable(settings[cfg]) /\ up' = "up" /\ subs' = cfg
          /\ queue' = Fresh(cfg) /\ embeds' = First(cfg)
    /\ UNCHANGED <<asks, store, lock, reload, reloads, mutated, acked, crashes, hand, retired, feed, done>>
-----------------------------------------------------------------------------
(* Inserts.                                                                *)

\* Inserter.Insert has stored a message.
StoreMessage(p) ==
    /\ up = "up" /\ prod[p].pc = "idle" /\ stored < plan.messages
    /\ stored' = stored + 1
    /\ prod' = [prod EXCEPT ![p] = [pc |-> "load", m |-> stored + 1, q |-> 0]]
    /\ UNCHANGED <<holder, pool, sent, done>>

\* Holder.Enqueue loads the queue; nil is a silent no-op.
LoadQueue(p) ==
    /\ prod[p].pc = "load"
    /\ prod' = [prod EXCEPT ![p] = IF embeds = 0 THEN Idle
                                   ELSE [@ EXCEPT !.pc = "send", !.q = embeds]]
    /\ UNCHANGED <<holder, pool, stored, sent, done>>

\* EmbedQueue.Enqueue blocks while the buffer is full.
Send(p) ==
    /\ prod[p].pc = "send"
    /\ LET q == prod[p].q
       IN /\ queue[q].closed = "no" /\ Len(queue[q].jobs) < Buffer
          /\ queue' = [queue EXCEPT ![q].jobs = Append(@, prod[p].m)]
    /\ sent' = sent \cup {prod[p].m}
    /\ prod' = [prod EXCEPT ![p] = Idle]
    /\ UNCHANGED <<holder, hand, retired, stored, done>>

\* Sending on a closed channel panics, also for a sender that was blocked; the
\* panic ends the goroutine, or the process when nothing recovers it.
SendPanics(p) ==
    /\ prod[p].pc = "send" /\ queue[prod[p].q].closed = "yes"
    /\ prod' = [prod EXCEPT ![p].pc = "panicked"]
    /\ UNCHANGED <<holder, pool, stored, sent, done>>
-----------------------------------------------------------------------------
(* Workers and Close.                                                      *)

Exited == -1

TakeJob(q, w) ==
    /\ hand[q][w] = 0 /\ queue[q].jobs # << >>
    /\ hand' = [hand EXCEPT ![q][w] = Head(queue[q].jobs)]
    /\ queue' = [queue EXCEPT ![q].jobs = Tail(@)]
    /\ UNCHANGED <<holder, retired, feed, done>>

\* EmbedMessageChunks succeeds, fails or times out; an error is logged.
Embed(q, w) ==
    /\ hand[q][w] > 0
    /\ done' = done \cup {hand[q][w]}
    /\ hand' = [hand EXCEPT ![q][w] = 0]
    /\ UNCHANGED <<holder, queue, retired, feed>>

\* Mutant: a worker stops as soon as the queue is closed.
ExitAtOnce(q, w) ==
    /\ hand[q][w] = 0 /\ queue[q].closed = "yes"
    /\ hand' = [hand EXCEPT ![q][w] = Exited]
    /\ UNCHANGED <<holder, queue, retired, feed, done>>

\* range over a closed channel ends when it is drained.
ExitWorker(q, w) ==
    /\ hand[q][w] = 0 /\ queue[q].closed = "yes" /\ queue[q].jobs = << >>
    /\ hand' = [hand EXCEPT ![q][w] = Exited]
    /\ UNCHANGED <<holder, queue, retired, feed, done>>

Working(q) == queue[q].ver # 0

WorkerStep(q, w) == Working(q) /\ (TakeJob(q, w) \/ Embed(q, w) \/ ExitWorker(q, w))

\* Mutant: Close waits for the workers and leaves the channel open.
WaitOnly(q) == q \in retired /\ Exited \in {hand[q][w] : w \in Workers} /\ UNCHANGED vars

CloseQueue(q) ==
    /\ q \in retired /\ queue[q].closed = "no"
    /\ queue' = [queue EXCEPT ![q].closed = "yes"]
    /\ UNCHANGED <<holder, hand, retired, feed, done>>
-----------------------------------------------------------------------------
Next ==
    \/ \E x \in Reloaders : Request(x) \/ ReloadStep(x)
    \/ Crash \/ Boot \/ Bootstrap
    \/ \E p \in Producers : StoreMessage(p) \/ LoadQueue(p) \/ Send(p) \/ SendPanics(p)
    \/ \E q \in Queues, w \in Workers : WorkerStep(q, w)
    \/ \E q \in Queues : CloseQueue(q)

Spec == Init /\ [][Next]_vars

\* Every job ends by its timeout, so workers and closers keep running.
FairSpec ==
    /\ Spec
    /\ \A q \in Queues, w \in Workers : WF_vars(WorkerStep(q, w))
    /\ \A q \in Queues : WF_vars(CloseQueue(q))
-----------------------------------------------------------------------------
(* Properties.                                                             *)

InHand(m)  == \E q \in Queues, w \in Workers : hand[q][w] = m
Waiting(m) == \E q \in Queues : m \in ToSet(queue[q].jobs)
Gone(q)    == \A w \in Workers : hand[q][w] = Exited

\* Every message a queue accepted is in exactly one place - the channel, a
\* worker's hands, or tried - and workers leave no message behind when they
\* exit: a reload loses nothing and repeats nothing that Enqueue took.
NothingLost ==
    /\ \A m \in sent :
          /\ Waiting(m) \/ InHand(m) \/ m \in done
          /\ ~(Waiting(m) /\ InHand(m)) /\ ~(m \in done /\ (Waiting(m) \/ InHand(m)))
    /\ \A q \in Queues : Gone(q) => queue[q].jobs = << >>

\* When no reload holds the lock, the embed queue in use was built with the
\* engine in use and every other queue is closed or about to be.
Paired ==
    lock = Nobody =>
       /\ embeds # 0 => queue[embeds].ver = subs
       /\ \A q \in Queues \ {embeds} : Working(q) => q \in retired

\* When no reload holds the lock, the settings in memory are the ones the
\* current substrate was built from: UpdateEngineConfig rolls a failed build
\* back.  MutateSettings does not, and a later reload applies what it wrote.
ConfigMatches == lock = Nobody => subs = cfg \/ cfg \in mutated

\* Engine, queue and settings belong together whenever the service runs and no
\* reload is under way, after a restart too.
Consistent == up = "up" => Paired /\ ConfigMatches

\* An update that was acknowledged is in force, block for block, until a later
\* one replaces the block, over overlapping updates, failed saves and builds of
\* others, and restarts; and it is in the file.
Kept(v) ==
    \A u \in acked, b \in Blocks \cup {"stance"} : written[u][b] = u => written[v][b] >= u

\* The stance of the settings is the last one a client gave: 0 keeps it.
StanceKept(v) ==
    LET w == written[v]["stance"]
    IN Stance(settings[v]) = IF w = 0 THEN DefaultConfig["loss_ratio"]
                             ELSE settings[w]["engine"]["loss_ratio"]

\* Every block of the settings is the one its last writer asked for.
BlockKept(v) ==
    \A b \in Blocks \ {"engine"} : settings[v][b] = settings[IF written[v][b] = 0 THEN 1 ELSE written[v][b]][b]

\* Settings survive: what clients were told is saved stays saved.  A process
\* that does not start again is excused: a crash inside Save leaves a torn file,
\* and settings that cannot be built are saved all the same.
SettingsKept ==
    /\ up = "up" => Kept(cfg) /\ StanceKept(cfg) /\ BlockKept(cfg)
    /\ file \in Versions => Kept(file)

\* Whatever a queue accepted is tried, also when the queue is replaced, unless
\* the process ends.
Drains == \A m \in Messages : m \in sent ~> (m \in done \/ m \notin sent)

\* Close returns: the workers of a replaced queue exit.
CloseReturns == \A q \in Queues : q \in retired ~> (Gone(q) \/ q \notin retired)

\* A reload leaves nothing behind for ever: neither messages nor workers.
QueuesEnd == Drains /\ CloseReturns
=============================================================================
