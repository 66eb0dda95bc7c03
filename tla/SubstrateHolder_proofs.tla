------------------------ MODULE SubstrateHolder_proofs ------------------------
(***************************************************************************)
(* Any number of producers, reloaders, workers, settings and messages:     *)
(* the embed queues lose and repeat nothing, engine, queue and settings    *)
(* belong together, and acknowledged settings stay.                        *)
(***************************************************************************)
EXTENDS SubstrateHolder, FiniteSetTheorems, TLAPS

\* Every request of every plan, and the one of a reloader at rest.
Asks == {Nothing} \cup UNION {{p.asks[i] : i \in DOMAIN p.asks} : p \in Plans}
Pcs  == {"idle", "lock", "save", "write", "build", "swap", "notify"}
Reload == [pc: Pcs, ask: Asks, old: Nat, ver: Nat]
Keyed == Blocks \cup {"stance"}

Waiters == {x \in Reloaders : reload[x].pc = "lock"}

\* Exactly the reloader past its Lock holds the lock, and requests that hold or
\* await it are counted: the numbers of settings and queues never run out.
Control ==
    /\ plan \in Plans /\ asked \in 0 .. Len(plan.asks) /\ reloads \in Nat
    /\ up \in {"up", "loaded", "down", "refused"}
    /\ lock \in Reloaders \cup {Nobody}
    /\ reload \in [Reloaders -> Reload]
    /\ \A x \in Reloaders : lock = x <=> reload[x].pc \notin {"idle", "lock"}
    /\ up # "up" => \A x \in Reloaders : reload[x].pc = "idle"
    /\ IsFiniteSet(Waiters) /\ reloads + Cardinality(Waiters) <= asked
    /\ \A x \in Reloaders : Decodes(reload[x].ask.set)

Numbers == 1 .. reloads + 1
Sound(v) == Kept(v) /\ StanceKept(v) /\ BlockKept(v)

\* The settings in memory, in the file and, while a build may be rolled back,
\* the ones it would go back to are sound, each on its own account: a restart
\* or a rollback puts any of them in force.
Texts ==
    /\ reloads \in 0 .. MaxReloads
    /\ DOMAIN settings = Versions /\ DOMAIN written = Versions
    /\ \A v \in Versions : written[v] \in [Keyed -> 0 .. reloads + 1]
    /\ \A b \in Keyed : written[1][b] = 0
    /\ cfg \in Numbers /\ file \in {Absent, Torn} \cup Numbers /\ acked \subseteq Numbers
    /\ file = Absent => acked = {}
    /\ Sound(cfg) /\ (file \in Versions => Sound(file))
    /\ \A x \in Reloaders : reload[x].pc \in {"save", "write", "build"} /\ reload[x].ask.kind = "engine" =>
          reload[x].old \in Numbers /\ Sound(reload[x].old)
    /\ \A x \in Reloaders : reload[x].pc \in {"build", "swap", "notify"} /\ reload[x].ask.kind = "mutate" =>
          file = cfg

\* Which settings the engine in use was built from, at each point of a reload.
Matched(v) == subs = v \/ v \in mutated
Match ==
    /\ subs \in Numbers
    /\ up = "up" =>
       /\ lock = Nobody => Matched(cfg)
       /\ \A x \in Reloaders :
             /\ reload[x].pc \in {"save", "write"} => cfg \in mutated /\ reload[x].ask.kind = "mutate"
             /\ reload[x].pc = "build" =>
                   Matched(IF reload[x].ask.kind = "engine" THEN reload[x].old ELSE cfg)
             /\ reload[x].pc = "swap" => subs = cfg /\ reload[x].ver = cfg
             /\ reload[x].pc = "notify" => subs = cfg

Swapping == \E x \in Reloaders : reload[x].pc = "swap"

\* The queue in use belongs to the engine in use, but between the two stores of
\* a reload; every other queue is retired, and the numbers to come, with the one
\* of a reload that has not swapped yet, are unused.
Lines ==
    /\ queue \in [Queues -> [ver: Nat, jobs: Seq(Messages), closed: {"no", "yes"}]]
    /\ hand \in [Queues -> [Workers -> Messages \cup {0, Exited}]]
    /\ embeds \in Queues \cup {0} /\ retired \subseteq Queues
    /\ embeds # 0 => Working(embeds) /\ (Swapping \/ queue[embeds].ver = subs)
    /\ \A q \in Queues \ {embeds} : Working(q) => q \in retired
    /\ \A q \in Queues : q > reloads + 1 \/ up # "up" => ~Working(q)
    /\ \A x \in Reloaders : reload[x].pc \in {"save", "write", "build", "swap"} =>
          \A q \in Queues : q = reloads + 1 => ~Working(q)
    /\ \A q \in Queues : ~Working(q) => queue[q].jobs = << >> /\ \A w \in Workers : hand[q][w] = 0
    /\ \A q \in Queues, w \in Workers : hand[q][w] = Exited => queue[q].closed = "yes" /\ queue[q].jobs = << >>

\* Every message is in one place: with its producer, in one slot of one
\* channel, in one worker's hands, or tried.
Places ==
    /\ prod \in [Producers -> [pc: {"idle", "load", "send", "panicked"}, m: Nat, q: Queues \cup {0}]]
    /\ \A p \in Producers : prod[p].pc = "send" => prod[p].q \in Queues /\ Working(prod[p].q)
    /\ up # "up" => \A p \in Producers : prod[p].pc = "idle"
    /\ stored \in 0 .. plan.messages /\ sent \subseteq 1 .. stored /\ done \subseteq sent
    /\ \A p \in Producers : prod[p].pc \in {"load", "send"} => prod[p].m \in (1 .. stored) \ sent
    /\ \A p, r \in Producers :
          prod[p].pc \in {"load", "send"} /\ prod[r].pc \in {"load", "send"} /\ prod[p].m = prod[r].m => p = r
    /\ \A m \in sent : Waiting(m) \/ InHand(m) \/ m \in done
    /\ \A q \in Queues : \A i \in DOMAIN queue[q].jobs :
          queue[q].jobs[i] \in sent \ done /\ ~InHand(queue[q].jobs[i])
    /\ \A q, r \in Queues : \A i \in DOMAIN queue[q].jobs, j \in DOMAIN queue[r].jobs :
          queue[q].jobs[i] = queue[r].jobs[j] => q = r /\ i = j
    /\ \A q \in Queues, w \in Workers : hand[q][w] \in Messages => hand[q][w] \in sent \ done
    /\ \A q, r \in Queues, w, y \in Workers :
          hand[q][w] \in Messages /\ hand[q][w] = hand[r][y] => q = r /\ w = y

Inv == Control /\ Texts /\ Match /\ Lines /\ Places
-----------------------------------------------------------------------------
(* Control.                                                                *)

\* What HolderAssumption says of a request.
LEMMA AskShape ==
    ASSUME NEW a \in Asks
    PROVE  a.kind \in {"providers", "engine", "mutate"} /\ DOMAIN a.set \subseteq Blocks
<1>1. CASE a = Nothing
  BY <1>1 DEF Nothing
<1>2. CASE a # Nothing
  <2>1. PICK p \in Plans : \E i \in DOMAIN p.asks : a = p.asks[i]
    BY <1>2 DEF Asks
  <2> QED BY <2>1, HolderAssumption
<1> QED BY <1>1, <1>2

\* The request of a plan that comes next is one of Asks.
LEMMA NextAsk ==
    ASSUME Control, asked < Len(plan.asks) PROVE plan.asks[asked + 1] \in Asks
<1>1. plan \in Plans /\ asked + 1 \in 1 .. Len(plan.asks) /\ DOMAIN plan.asks = 1 .. Len(plan.asks)
  BY HolderAssumption DEF Control
<1> QED BY <1>1 DEF Asks

\* A number taken under the lock is one of Versions.
LEMMA Room ==
    ASSUME Control PROVE reloads <= MaxReloads /\ (Waiters # {} => reloads < MaxReloads)
<1>1. asked <= MaxReloads /\ asked \in Nat /\ reloads \in Nat /\ MaxReloads \in Nat
  BY HolderAssumption DEF Control
<1>2. Cardinality(Waiters) \in Nat /\ (Waiters # {} => Cardinality(Waiters) # 0)
  BY FS_CardinalityType, FS_EmptySet DEF Control
<1>3. reloads + Cardinality(Waiters) <= asked
  BY DEF Control
<1> HIDE DEF Waiters
<1> QED BY <1>1, <1>2, <1>3

\* A step that leaves the reloaders' state alone preserves Control.
LEMMA ControlKept ==
    ASSUME Control, UNCHANGED <<plan, asked, reloads, lock, reload, up>> PROVE Control'
<1>1. Waiters' = Waiters
  BY DEF Waiters
<1> QED BY <1>1 DEF Control

\* A request that has decoded its input waits for the lock.
LEMMA ControlRequest ==
    ASSUME Control, cfg \in Nat, NEW x \in Reloaders, Request(x) PROVE Control'
<1>0. Cardinality(Waiters) \in Nat /\ IsFiniteSet(Waiters) /\ asked \in Nat /\ reloads \in Nat
  BY FS_CardinalityType, HolderAssumption DEF Control
<1>1. plan.asks[asked + 1] \in Asks /\ Nothing \in Asks
  BY NextAsk DEF Request, Asks
<1>2. asked' = asked + 1 /\ asked' \in 0 .. Len(plan.asks) /\ UNCHANGED <<plan, reloads, lock, up>> /\ up = "up"
  BY HolderAssumption DEF Request, Control
<1>3. reload[x].pc = "idle"
  BY DEF Request, At
<1>4. CASE Decodes(plan.asks[asked'].set)
  <2>1. reload' = [reload EXCEPT ![x] = [pc |-> "lock", ask |-> plan.asks[asked'], old |-> cfg, ver |-> 1]]
    BY <1>4 DEF Request
  <2>2. Waiters' = Waiters \cup {x} /\ x \notin Waiters
    BY <1>3, <2>1 DEF Waiters, Control
  <2>3. IsFiniteSet(Waiters') /\ Cardinality(Waiters') = Cardinality(Waiters) + 1
    BY <1>0, <2>2, FS_AddElement
  <2>4. reloads' + Cardinality(Waiters') <= asked'
    BY <1>0, <1>2, <2>3 DEF Control
  <2> QED BY <1>1, <1>2, <1>3, <1>4, <2>1, <2>3, <2>4 DEF Control, Reload, Pcs
<1>5. CASE ~Decodes(plan.asks[asked'].set)
  <2>1. reload' = [reload EXCEPT ![x] = Resting]
    BY <1>5 DEF Request
  <2>2. Waiters' = Waiters
    BY <1>3, <2>1 DEF Waiters, Control, Resting
  <2>3. Decodes(Nothing.set)
    BY DEF Decodes, Nothing
  <2> QED BY <1>0, <1>1, <1>2, <1>3, <2>1, <2>2, <2>3 DEF Control, Reload, Pcs, Resting
<1> QED BY <1>4, <1>5

\* A reload takes the lock.
LEMMA ControlAcquire ==
    ASSUME Control, cfg \in Nat, NEW x \in Reloaders, Acquire(x) PROVE Control'
<1>0. Cardinality(Waiters) \in Nat /\ IsFiniteSet(Waiters) /\ asked \in Nat /\ reloads \in Nat
  BY FS_CardinalityType, HolderAssumption DEF Control
<1>1. /\ reload[x].pc = "lock" /\ lock = Nobody /\ lock' = x /\ reloads' = reloads + 1
      /\ UNCHANGED <<plan, asked, up>>
  BY DEF Acquire, Begin, At, asks
<1>2. /\ reload' \in [Reloaders -> Reload] /\ \A y \in Reloaders \ {x} : reload'[y] = reload[y]
      /\ reload'[x].pc \in {"save", "build"} /\ reload'[x].ask = reload[x].ask
  <2>1. PICK pc \in {"save", "build"} : reload' = [reload EXCEPT ![x].pc = pc, ![x].old = cfg]
    BY DEF Acquire, Begin
  <2> QED BY <2>1 DEF Control, Reload, Pcs
<1>3. Waiters' = Waiters \ {x} /\ x \in Waiters
  BY <1>1, <1>2 DEF Waiters, Control
<1>4. IsFiniteSet(Waiters') /\ Cardinality(Waiters') = Cardinality(Waiters) - 1
  BY <1>0, <1>3, FS_RemoveElement
<1>5. reloads' + Cardinality(Waiters') <= asked'
  BY <1>0, <1>1, <1>4 DEF Control
<1>6. ASSUME NEW y \in Reloaders
      PROVE  /\ lock' = y <=> reload'[y].pc \notin {"idle", "lock"}
             /\ Decodes(reload'[y].ask.set) /\ up = "up"
  BY <1>1, <1>2, HolderAssumption DEF Control
<1> QED BY <1>0, <1>1, <1>2, <1>4, <1>5, <1>6 DEF Control

\* The reloader that has the lock goes on, or finishes and releases it.
LEMMA ControlHolding ==
    ASSUME Control, NEW x \in Reloaders, reload[x].pc \notin {"idle", "lock"},
           UNCHANGED <<plan, asked, reloads, up>>,
           reload' \in [Reloaders -> Reload], \A y \in Reloaders \ {x} : reload'[y] = reload[y],
           Decodes(reload'[x].ask.set),
           \/ lock' = lock /\ reload'[x].pc \notin {"idle", "lock"}
           \/ lock' = Nobody /\ reload'[x].pc = "idle"
    PROVE  Control'
<1>1. Waiters' = Waiters
  BY DEF Waiters, Control
<1>2. lock = x /\ up = "up" /\ lock' \in Reloaders \cup {Nobody}
  BY DEF Control
<1>3. ASSUME NEW y \in Reloaders
      PROVE  (lock' = y <=> reload'[y].pc \notin {"idle", "lock"}) /\ Decodes(reload'[y].ask.set)
  <2>1. CASE y = x
    BY <1>2, <2>1, HolderAssumption DEF Control
  <2>2. CASE y # x
    BY <1>2, <2>2, HolderAssumption DEF Control
  <2> QED BY <2>1, <2>2
<1> QED BY <1>1, <1>2, <1>3 DEF Control

\* Every other step of a reload is of one of these forms.
LEMMA ControlReload ==
    ASSUME Control, cfg \in Nat, NEW x \in Reloaders, ReloadStep(x) PROVE Control'
<1>1. CASE Acquire(x)
  BY <1>1, ControlAcquire
<1>2. ASSUME Finish(x, cfg) \/ Finish(x, reload[x].old), reload[x].pc \notin {"idle", "lock"} PROVE Control'
  <2>1. Resting \in Reload /\ Decodes(Resting.ask.set) /\ Resting.pc = "idle"
    BY DEF Resting, Reload, Asks, Pcs, Decodes, Nothing
  <2>2. reload' = [reload EXCEPT ![x] = Resting] /\ lock' = Nobody /\ UNCHANGED <<plan, asked, reloads, up>>
    BY <1>2 DEF Finish, asks
  <2> QED BY <1>2, <2>1, <2>2, ControlHolding DEF Control
<1>3. ASSUME NEW pc \in Pcs \ {"idle", "lock"}, NEW v \in Nat, UNCHANGED <<plan, asked, reloads, up, lock>>,
             reload' = [reload EXCEPT ![x].pc = pc, ![x].ver = v], reload[x].pc \notin {"idle", "lock"}
      PROVE  Control'
  BY <1>3, ControlHolding DEF Control, Reload
<1>4. ASSUME NEW pc \in Pcs \ {"idle", "lock"}, UNCHANGED <<plan, asked, reloads, up, lock>>,
             reload' = [reload EXCEPT ![x].pc = pc], reload[x].pc \notin {"idle", "lock"}
      PROVE  Control'
  BY <1>4, ControlHolding DEF Control, Reload
<1>5. CASE Truncate(x)
  BY <1>2, <1>4, <1>5 DEF Truncate, At, asks, Pcs
<1>6. CASE Write(x)
  BY <1>2, <1>4, <1>6 DEF Write, At, asks, Pcs
<1>7. CASE BuildFails(x)
  BY <1>2, <1>7 DEF BuildFails, At
<1>8. CASE StoreSubstrate(x)
  BY <1>3, <1>8 DEF StoreSubstrate, At, asks, Pcs
<1>9. CASE SwapQueue(x)
  BY <1>4, <1>9 DEF SwapQueue, At, asks, Pcs
<1>10. CASE Notify(x)
  BY <1>2, <1>10 DEF Notify, At
<1> QED BY <1>1, <1>5, <1>6, <1>7, <1>8, <1>9, <1>10 DEF ReloadStep

\* Crash and boot.
LEMMA ControlBoot ==
    ASSUME Control, Crash \/ Boot \/ Bootstrap PROVE Control'
<1>1. CASE Crash
  <2>1. Waiters' = {}
    BY <1>1 DEF Crash, Waiters, Resting
  <2>2. IsFiniteSet({}) /\ Cardinality({}) = 0
    BY FS_EmptySet
  <2>3. Resting \in Reload /\ Decodes(Resting.ask.set) /\ Resting.pc = "idle"
    BY DEF Resting, Reload, Asks, Pcs, Decodes, Nothing
  <2>4. reloads <= asked
    BY FS_CardinalityType, HolderAssumption DEF Control
  <2> QED BY <1>1, <2>1, <2>2, <2>3, <2>4, HolderAssumption DEF Crash, asks, Control
<1>2. CASE Boot \/ Bootstrap
  <2>1. UNCHANGED <<plan, asked, reloads, lock, reload>> /\ up # "up" /\ up' \in {"up", "loaded", "refused"}
    BY <1>2 DEF Boot, Bootstrap, asks
  <2>2. Waiters' = Waiters
    BY <2>1 DEF Waiters
  <2> QED BY <2>1, <2>2 DEF Control
<1> QED BY <1>1, <1>2
-----------------------------------------------------------------------------
(* Texts.                                                                  *)

\* What Texts says of the number of some settings.
LEMMA Numbered ==
    ASSUME Texts PROVE /\ Numbers \subseteq Versions /\ 1 \in Numbers
                       /\ \A v \in Numbers, b \in Keyed : written[v][b] # 0 => written[v][b] \in Numbers
BY HolderAssumption DEF Texts, Numbers, Versions

\* Settings that are sound stay so while what they refer to stays.
LEMMA SoundKept ==
    ASSUME Texts, NEW v \in Numbers, Sound(v),
           \A u \in Numbers : settings'[u] = settings[u] /\ written'[u] = written[u],
           acked' = acked
    PROVE  Sound(v)'
<1>1. Kept(v)'
  BY DEF Texts, Sound, Kept, Keyed
<1>2. StanceKept(v)'
  <2> DEFINE w == written[v]["stance"]
  <2>1. w # 0 => w \in Numbers
    BY Numbered DEF Keyed
  <2>2. Stance(settings[v]) = IF w = 0 THEN DefaultConfig["loss_ratio"] ELSE settings[w]["engine"]["loss_ratio"]
    BY DEF Sound, StanceKept
  <2> QED BY <2>1, <2>2 DEF StanceKept
<1>3. BlockKept(v)'
  <2> SUFFICES ASSUME NEW b \in Blocks \ {"engine"}
               PROVE  settings'[v][b] = settings'[IF written'[v][b] = 0 THEN 1 ELSE written'[v][b]][b]
    BY DEF BlockKept
  <2>1. written[v][b] # 0 => written[v][b] \in Numbers
    BY Numbered DEF Keyed
  <2> QED BY <2>1, Numbered DEF Sound, BlockKept
<1> QED BY <1>1, <1>2, <1>3 DEF Sound

\* A step that changes neither texts nor acknowledgements preserves Texts, if
\* a build begins with the file written and with settings to go back to.
LEMMA TextsKept ==
    ASSUME Texts, UNCHANGED <<settings, written, acked, reloads>>,
           cfg' \in Numbers /\ Sound(cfg'),
           file' = file \/ file' = Torn \/ (file' \in Numbers /\ Sound(file')),
           \A x \in Reloaders : reload'[x].pc \in {"save", "write", "build"} /\ reload'[x].ask.kind = "engine" =>
              reload'[x].old \in Numbers /\ Sound(reload'[x].old),
           \A x \in Reloaders : reload'[x].pc \in {"build", "swap", "notify"} /\ reload'[x].ask.kind = "mutate" =>
              file' = cfg'
    PROVE  Texts'
<1>1. Sound(cfg)' /\ Numbers' = Numbers
  BY DEF Sound, Kept, StanceKept, BlockKept, Numbers
<1>2. ASSUME file' \in Versions PROVE Sound(file)'
  <2>1. Sound(file')
    BY <1>2, HolderAssumption DEF Texts, Versions
  <2> QED BY <2>1 DEF Sound, Kept, StanceKept, BlockKept
<1>3. ASSUME NEW x \in Reloaders, Sound(reload'[x].old) PROVE Sound(reload[x].old)'
  BY <1>3 DEF Sound, Kept, StanceKept, BlockKept
<1>4. file' = Absent => acked' = {}
  BY HolderAssumption DEF Texts, Numbers
<1>5. file' \in {Absent, Torn} \cup Numbers
  BY DEF Texts
<1> QED BY <1>1, <1>2, <1>3, <1>4, <1>5 DEF Texts

\* New settings, made from sound ones under the lock, are sound.
LEMMA SoundNew ==
    ASSUME Texts, reloads < MaxReloads, NEW set, Decodes(set), DOMAIN set \subseteq Blocks,
           cfg' = reloads + 2, acked' = acked,
           settings' = [settings EXCEPT ![reloads + 2] = Apply(settings[cfg], set)],
           written' = [written EXCEPT ![reloads + 2] =
                         [b \in DOMAIN @ |-> IF b \in Blocked(set) THEN reloads + 2 ELSE written[cfg][b]]]
    PROVE  Sound(cfg)'
<1> DEFINE v == reloads + 2
<1>1. v \in Versions \ Numbers /\ cfg \in Numbers /\ cfg' = v /\ v \in Nat /\ v # 0 /\ v # 1
  BY HolderAssumption DEF Texts, Versions, Numbers
<1>2. /\ settings'[v] = Apply(settings[cfg], set)
      /\ \A u \in Numbers : settings'[u] = settings[u] /\ written'[u] = written[u]
      /\ \A b \in Keyed : written'[v][b] = IF b \in Blocked(set) THEN v ELSE written[cfg][b]
  BY <1>1, Numbered DEF Texts
<1>3. \A b \in Keyed : written[cfg][b] # 0 => written[cfg][b] \in Numbers
  BY <1>1, Numbered
<1> HIDE DEF v
<1>4. Kept(cfg)'
  <2> SUFFICES ASSUME NEW u \in acked, NEW b \in Keyed, written'[u][b] = u PROVE written'[v][b] >= u
    BY <1>1 DEF Kept, Keyed
  <2>1. u \in Numbers /\ written[u][b] = u
    BY <1>2 DEF Texts
  <2>2. written[cfg][b] >= u
    BY <2>1 DEF Texts, Sound, Kept, Keyed
  <2>3. v >= u
    BY <2>1 DEF v, Texts, Numbers
  <2> QED BY <1>2, <2>2, <2>3
<1>5. BlockKept(cfg)'
  <2> SUFFICES ASSUME NEW b \in Blocks \ {"engine"}
               PROVE  settings'[v][b] = settings'[IF written'[v][b] = 0 THEN 1 ELSE written'[v][b]][b]
    BY <1>1 DEF BlockKept
  <2>1. b \in Keyed /\ (b \in Blocked(set) <=> b \in DOMAIN set)
    BY DEF Keyed, Blocked, Blocks
  <2>2. CASE b \in DOMAIN set
    BY <1>1, <1>2, <2>1, <2>2
  <2>3. CASE b \notin DOMAIN set
    <3>1. settings'[v][b] = settings[cfg][b] /\ written'[v][b] = written[cfg][b]
      BY <1>2, <2>1, <2>3 DEF Apply
    <3>2. settings[cfg][b] = settings[IF written[cfg][b] = 0 THEN 1 ELSE written[cfg][b]][b]
      BY DEF Texts, Sound, BlockKept
    <3> QED BY <1>2, <1>3, <2>1, <3>1, <3>2, Numbered
  <2> QED BY <2>2, <2>3
<1>6. StanceKept(cfg)'
  <2> DEFINE w  == written[cfg]["stance"]
             w2 == written'[v]["stance"]
             l(s) == s["engine"]["loss_ratio"]
  <2>1. Stance(settings[cfg]) = IF w = 0 THEN DefaultConfig["loss_ratio"] ELSE l(settings[w])
    BY DEF Texts, Sound, StanceKept
  <2>2. w2 = IF "stance" \in Blocked(set) THEN v ELSE w
    BY <1>2 DEF Keyed
  <2>3. w # 0 => w \in Numbers
    BY <1>3 DEF Keyed
  <2>4. "stance" \notin DOMAIN set
    BY DEF Blocks
  <2>5. CASE "engine" \notin DOMAIN set
    <3>1. settings'[v]["engine"] = settings[cfg]["engine"] /\ w2 = w
      BY <1>2, <2>2, <2>4, <2>5 DEF Apply, Blocks, Blocked
    <3> QED BY <1>1, <1>2, <2>1, <2>3, <3>1 DEF StanceKept, Stance
  <2>6. CASE "engine" \in DOMAIN set
    <3> DEFINE e == Engine(set["engine"])["loss_ratio"]
    <3>1. e \in 0 .. 100
      BY <2>6 DEF Decodes, UnmarshalEngine, Validate
    <3>2. settings'[v]["engine"] = KeepStance(settings[cfg], set["engine"])
      BY <1>2, <2>6 DEF Apply, Blocks
    <3>3. l(settings'[v]) = IF e = 0 THEN l(settings[cfg]) ELSE e
      BY <3>2 DEF KeepStance, Engine
    <3>4. "stance" \in Blocked(set) <=> e > 0
      BY <2>4, <2>6 DEF Blocked
    <3>5. CASE e = 0
      BY <1>1, <1>2, <2>1, <2>2, <2>3, <3>3, <3>4, <3>5 DEF StanceKept, Stance
    <3>6. CASE e > 0
      BY <1>1, <1>2, <2>2, <3>3, <3>4, <3>6 DEF StanceKept, Stance
    <3> QED BY <3>1, <3>5, <3>6
  <2> QED BY <2>5, <2>6
<1> QED BY <1>4, <1>5, <1>6 DEF Sound

\* A reload that holds the lock is alone.
LEMMA Alone ==
    ASSUME Control, NEW x \in Reloaders, reload[x].pc \notin {"idle", "lock"}, NEW y \in Reloaders, y # x
    PROVE  reload[y].pc \in {"idle", "lock"}
BY DEF Control

\* Taking the lock and writing the new settings into memory.
LEMMA TextsAcquire ==
    ASSUME Control, Texts, NEW x \in Reloaders, Acquire(x) PROVE Texts'
<1> DEFINE ask == reload[x].ask
<1>1. reloads < MaxReloads /\ reloads' = reloads + 1 /\ reload[x].pc = "lock" /\ UNCHANGED <<file, acked>>
  <2>1. x \in Waiters
    BY DEF Acquire, Begin, At, Waiters
  <2> QED BY <2>1, Room DEF Acquire, Begin, At
<1>2. ask.kind \in {"providers", "engine", "mutate"} /\ DOMAIN ask.set \subseteq Blocks /\ Decodes(ask.set)
  <2>1. ask \in Asks
    BY DEF Control, Reload
  <2> QED BY <2>1, AskShape DEF Control
<1>3. Numbers' = 1 .. reloads + 2 /\ Numbers \subseteq Numbers'
  BY <1>1 DEF Numbers, Texts
<1>4. /\ \A y \in Reloaders \ {x} : reload'[y] = reload[y] /\ reload[y].pc \in {"idle", "lock"}
      /\ reload'[x].pc = (IF ask.kind = "mutate" THEN "save" ELSE "build")
      /\ reload'[x].ask = ask /\ reload'[x].old = cfg
  BY HolderAssumption DEF Acquire, Begin, Control, Reload
<1>5. CASE ask.kind = "providers"
  <2>1. UNCHANGED <<settings, written, cfg>>
    BY <1>5 DEF Acquire, Begin
  <2>2. \A v \in Versions : written'[v] \in [Keyed -> 0 .. reloads' + 1]
    BY <1>1, <2>1 DEF Texts
  <2>3. Sound(cfg)' /\ (file' \in Versions => Sound(file)')
    BY <1>1, <2>1 DEF Texts, Sound, Kept, StanceKept, BlockKept
  <2>4. /\ cfg' \in Numbers' /\ acked' \subseteq Numbers'
        /\ file' \in {Absent, Torn} \cup Numbers'
    BY <1>1, <1>3, <2>1 DEF Texts
  <2>5. \A y \in Reloaders : reload'[y].pc \notin {"idle", "lock"} => reload'[y].ask.kind = "providers"
    BY <1>4, <1>5
  <2>6. reloads' \in 0 .. MaxReloads
    BY <1>1, HolderAssumption DEF Texts
  <2> QED BY <1>1, <2>1, <2>2, <2>3, <2>4, <2>5, <2>6 DEF Texts
<1>6. CASE ask.kind # "providers"
  <2>1. /\ cfg' = reloads + 2
        /\ settings' = [settings EXCEPT ![reloads + 2] = Apply(settings[cfg], ask.set)]
        /\ written' = [written EXCEPT ![reloads + 2] =
                         [b \in DOMAIN @ |-> IF b \in Blocked(ask.set) THEN reloads + 2 ELSE written[cfg][b]]]
    BY <1>6 DEF Acquire, Begin
  <2>2. Sound(cfg)'
    BY <1>1, <1>2, <2>1, SoundNew
  <2>3. \A u \in Numbers : settings'[u] = settings[u] /\ written'[u] = written[u]
    BY <1>1, <2>1, Numbered DEF Texts, Numbers
  <2>4. DOMAIN settings' = Versions /\ DOMAIN written' = Versions
    BY <2>1 DEF Texts
  <2>5. ASSUME NEW v \in Versions PROVE written'[v] \in [Keyed -> 0 .. reloads + 2]
    <3>1. cfg \in Versions
      BY Numbered DEF Texts
    <3> QED BY <1>1, <2>1, <3>1 DEF Texts
  <2>6. \A b \in Keyed : written'[1][b] = 0
    BY <2>3, Numbered DEF Texts
  <2>7. ASSUME file' \in Versions PROVE Sound(file)'
    <3>1. file \in Numbers /\ Sound(file) /\ file' = file
      BY <1>1, <2>7, HolderAssumption DEF Texts, Versions
    <3>2. \A v \in Numbers : Sound(v) => Sound(v)'
      BY <1>1, <2>3, SoundKept
    <3> QED BY <3>1, <3>2 DEF Sound, Kept, StanceKept, BlockKept
  <2>8. ASSUME ask.kind = "engine" PROVE cfg \in Numbers' /\ Sound(reload[x].old)'
    <3>1. cfg \in Numbers /\ Sound(cfg)
      BY DEF Texts
    <3>2. \A v \in Numbers : Sound(v) => Sound(v)'
      BY <1>1, <2>3, SoundKept
    <3> QED BY <1>3, <1>4, <3>1, <3>2 DEF Sound, Kept, StanceKept, BlockKept
  <2>9. cfg' \in Numbers' /\ file' \in {Absent, Torn} \cup Numbers' /\ acked' \subseteq Numbers'
    BY <1>1, <1>3, <2>1 DEF Texts
  <2>10. reloads' \in 0 .. MaxReloads /\ reloads' + 1 = reloads + 2
    BY <1>1, HolderAssumption DEF Texts
  <2>11. ASSUME NEW y \in Reloaders, reload'[y].pc \in {"save", "write", "build"}, reload'[y].ask.kind = "engine"
         PROVE  reload'[y].old \in Numbers' /\ Sound(reload[y].old)'
    BY <1>4, <2>8, <2>11
  <2>12. \A y \in Reloaders : reload'[y].pc \in {"build", "swap", "notify"} => reload'[y].ask.kind # "mutate"
    BY <1>4
  <2> QED BY <1>1, <2>2, <2>4, <2>5, <2>6, <2>7, <2>9, <2>10, <2>11, <2>12 DEF Texts
<1> QED BY <1>5, <1>6

\* Steps of a reload under way, and the beginning of one.
LEMMA TextsReload ==
    ASSUME Control, Texts, NEW x \in Reloaders, Request(x) \/ ReloadStep(x) PROVE Texts'
<1>0. cfg \in Numbers /\ Sound(cfg) /\ (file \in Versions => Sound(file))
  BY DEF Texts
<1>1. CASE Acquire(x)
  BY <1>1, TextsAcquire
<1>2. ASSUME NEW v \in Numbers, Sound(v), Finish(x, v), reload[x].pc \notin {"idle", "lock"}, UNCHANGED <<file, acked>>
      PROVE  Texts'
  <2>1. \A y \in Reloaders : reload'[y].pc \in {"idle", "lock"}
    <3>1. \A y \in Reloaders \ {x} : reload'[y] = reload[y] /\ reload'[x].pc = "idle"
      BY <1>2 DEF Finish, Control, Resting
    <3> QED BY <1>2, <3>1, Alone DEF Finish, Control, Resting
  <2> QED BY <1>2, <2>1, TextsKept DEF Finish
<1>3. CASE Request(x)
  <2>1. UNCHANGED <<settings, written, cfg, file, acked, reloads>>
    BY <1>3 DEF Request, store
  <2>2. \A y \in Reloaders : reload'[y].pc \notin {"idle", "lock"} => reload'[y] = reload[y]
    BY <1>3 DEF Request, Resting, Control
  <2> QED BY <1>0, <2>1, <2>2, TextsKept DEF Texts
<1>4. ASSUME NEW pc \in Pcs, reload[x].pc \notin {"idle", "lock"},
             \/ reload' = [reload EXCEPT ![x].pc = pc]
             \/ reload' = [reload EXCEPT ![x].pc = pc, ![x].ver = cfg]
      PROVE  /\ reload'[x].pc = pc /\ reload'[x].ask = reload[x].ask /\ reload'[x].old = reload[x].old
             /\ \A y \in Reloaders : y # x => reload'[y].pc \in {"idle", "lock"}
  BY <1>4, Alone DEF Control, Reload
<1>5. CASE Truncate(x)
  <2>1. CASE Finish(x, cfg) /\ UNCHANGED <<file, acked>>
    BY <1>0, <1>2, <1>5, <2>1 DEF Truncate, At
  <2>2. CASE ~(Finish(x, cfg) /\ UNCHANGED <<file, acked>>)
    <3>1. /\ reload[x].pc = "save" /\ file' = Torn /\ reload' = [reload EXCEPT ![x].pc = "write"]
          /\ UNCHANGED <<settings, written, cfg, acked, reloads>>
      BY <1>5, <2>2 DEF Truncate, At
    <3>2. \A y \in Reloaders : reload'[y].pc \in {"save", "write", "build", "swap", "notify"} =>
             y = x /\ reload'[y].pc = "write" /\ reload'[y].ask = reload[y].ask /\ reload'[y].old = reload[y].old
      BY <1>4, <3>1 DEF Pcs
    <3>3. \A y \in Reloaders : reload'[y].pc \in {"save", "write", "build"} /\ reload'[y].ask.kind = "engine" =>
             reload'[y].old \in Numbers /\ Sound(reload'[y].old)
      BY <3>1, <3>2 DEF Texts
    <3>4. \A y \in Reloaders : reload'[y].pc \notin {"build", "swap", "notify"}
      BY <3>2
    <3> QED BY <1>0, <3>1, <3>3, <3>4, TextsKept
  <2> QED BY <2>1, <2>2
<1>6. CASE Write(x)
  <2>1. CASE Finish(x, cfg) /\ UNCHANGED <<file, acked>>
    BY <1>0, <1>2, <1>6, <2>1 DEF Write, At
  <2>2. CASE ~(Finish(x, cfg) /\ UNCHANGED <<file, acked>>)
    <3>1. /\ reload[x].pc = "write" /\ file' = cfg /\ reload' = [reload EXCEPT ![x].pc = "build"]
          /\ UNCHANGED <<settings, written, cfg, acked, reloads>>
      BY <1>6, <2>2 DEF Write, At
    <3>2. \A y \in Reloaders : reload'[y].pc \in {"save", "write", "build", "swap", "notify"} =>
             y = x /\ reload'[y].pc = "build" /\ reload'[y].ask = reload[y].ask /\ reload'[y].old = reload[y].old
      BY <1>4, <3>1 DEF Pcs
    <3>3. \A y \in Reloaders : reload'[y].pc \in {"save", "write", "build"} /\ reload'[y].ask.kind = "engine" =>
             reload'[y].old \in Numbers /\ Sound(reload'[y].old)
      BY <3>1, <3>2 DEF Texts
    <3>4. file' \in Numbers /\ Sound(file') /\ file' = cfg' /\ cfg' \in Numbers /\ Sound(cfg')
      BY <1>0, <3>1
    <3> QED BY <3>1, <3>3, <3>4, TextsKept
  <2> QED BY <2>1, <2>2
<1>7. CASE BuildFails(x)
  <2>1. /\ reload[x].pc = "build" /\ UNCHANGED <<file, acked>>
        /\ Finish(x, IF reload[x].ask.kind = "engine" THEN reload[x].old ELSE cfg)
    BY <1>7 DEF BuildFails, At
  <2>2. reload[x].ask.kind = "engine" => reload[x].old \in Numbers /\ Sound(reload[x].old)
    BY <2>1 DEF Texts
  <2> QED BY <1>0, <1>2, <2>1, <2>2
<1>8. ASSUME StoreSubstrate(x) \/ SwapQueue(x) PROVE Texts'
  <2>1. /\ UNCHANGED <<settings, written, cfg, file, acked, reloads>> /\ reload[x].pc \in {"build", "swap"}
        /\ \E pc \in {"swap", "notify"} : \/ reload' = [reload EXCEPT ![x].pc = pc]
                                         \/ reload' = [reload EXCEPT ![x].pc = pc, ![x].ver = cfg]
    BY <1>8 DEF StoreSubstrate, SwapQueue, At, store
  <2>2. \A y \in Reloaders : reload'[y].pc \in {"save", "write", "build", "swap", "notify"} =>
             y = x /\ reload'[y].pc \in {"swap", "notify"} /\ reload'[y].ask = reload[y].ask
    BY <1>4, <2>1 DEF Pcs
  <2> QED BY <1>0, <2>1, <2>2, TextsKept DEF Texts
<1>9. CASE Notify(x)
  <2>1. /\ reload[x].pc = "notify" /\ Finish(x, cfg) /\ file' = file
        /\ acked' = IF reload[x].ask.kind = "mutate" THEN acked \cup {cfg} ELSE acked
    BY <1>9 DEF Notify, At
  <2>2. CASE reload[x].ask.kind # "mutate"
    BY <1>0, <1>2, <2>1, <2>2
  <2>3. CASE reload[x].ask.kind = "mutate"
    <3>1. file = cfg /\ acked' = acked \cup {cfg} /\ UNCHANGED <<settings, written, cfg, file, reloads>>
      BY <2>1, <2>3 DEF Texts, Finish
    <3>2. \A y \in Reloaders : reload'[y].pc \in {"idle", "lock"}
      <4>1. \A y \in Reloaders \ {x} : reload'[y] = reload[y] /\ reload'[x].pc = "idle"
        BY <2>1 DEF Finish, Control, Resting
      <4> QED BY <2>1, <4>1, Alone DEF Finish, Control, Resting
    <3>3. Sound(cfg)'
      <4>1. StanceKept(cfg)' /\ BlockKept(cfg)'
        BY <1>0, <3>1 DEF Sound, StanceKept, BlockKept
      <4>2. Kept(cfg)'
        BY <1>0, <3>1 DEF Sound, Kept, Texts, Numbers
      <4> QED BY <4>1, <4>2 DEF Sound
    <3>4. Sound(file)'
      BY <3>1, <3>3 DEF Sound, Kept, StanceKept, BlockKept
    <3>5. file' # Absent /\ acked' \subseteq Numbers' /\ Numbers' = Numbers
      <4>1. cfg \in Versions /\ cfg \in Numbers /\ Numbers' = Numbers
        BY <1>0, <3>1, Numbered DEF Numbers
      <4> QED BY <3>1, <4>1, HolderAssumption DEF Texts, Versions
    <3> QED BY <3>1, <3>2, <3>3, <3>4, <3>5 DEF Texts
  <2> QED BY <2>2, <2>3
<1> QED BY <1>1, <1>3, <1>5, <1>6, <1>7, <1>8, <1>9 DEF ReloadStep

\* Crash and boot.
LEMMA TextsBoot ==
    ASSUME Control, Texts, Crash \/ Boot \/ Bootstrap PROVE Texts'
<1>0. cfg \in Numbers /\ Sound(cfg) /\ (file \in Versions => Sound(file))
  BY DEF Texts
<1>1. \A x \in Reloaders : reload'[x].pc = "idle"
  BY DEF Crash, Boot, Bootstrap, Resting, Control
<1>2. CASE UNCHANGED <<settings, written, acked, reloads, cfg, file>>
  BY <1>0, <1>1, <1>2, TextsKept DEF Texts
<1>3. CASE Boot
  <2>1. up = "down" /\ UNCHANGED <<written, acked, reloads, file>>
    BY <1>3 DEF Boot
  <2>2. CASE file # Absent
    <3>1. settings' = settings /\ (cfg' = cfg \/ (file # Torn /\ cfg' = file))
      BY <1>3, <2>2 DEF Boot
    <3>2. cfg' = file => file \in Numbers /\ Sound(file)
      BY <1>0, <2>2, <3>1, Numbered DEF Texts
    <3> QED BY <1>0, <1>1, <2>1, <3>1, <3>2, TextsKept DEF Texts
  <2>3. CASE file = Absent
    <3>1. PICK found \in SUBSET plan.found : settings' = [settings EXCEPT ![1] = defaultSettings(found)] /\ cfg' = 1
      BY <1>3, <2>3 DEF Boot
    <3>2. acked' = {} /\ file' \notin Versions
      BY <2>1, <2>3, HolderAssumption DEF Texts, Versions
    <3>3. 1 \in Versions /\ \A b \in Keyed : written'[1][b] = 0
      BY <2>1, Numbered DEF Texts
    <3>4. settings'[1]["engine"]["loss_ratio"] = 0
      BY <3>1, <3>3 DEF Texts, defaultSettings, DefaultConfig, Blocks
    <3>5. Sound(cfg)'
      BY <3>1, <3>2, <3>3, <3>4 DEF Sound, Kept, StanceKept, Stance, BlockKept, Keyed
    <3>6. Numbers' = Numbers /\ 1 \in Numbers
      BY <2>1, Numbered DEF Numbers
    <3> QED BY <1>1, <2>1, <3>1, <3>2, <3>3, <3>5, <3>6 DEF Texts
  <2> QED BY <2>2, <2>3
<1> QED BY <1>2, <1>3 DEF Crash, Bootstrap, store
-----------------------------------------------------------------------------
(* Match.                                                                  *)

\* Steps of a reload.
LEMMA MatchReload ==
    ASSUME Control, Texts, Match, NEW x \in Reloaders, Request(x) \/ ReloadStep(x) PROVE Match'
<1>0. \A y \in Reloaders : y # x /\ reload[x].pc \notin {"idle", "lock"} => reload[y].pc \in {"idle", "lock"}
  BY Alone
<1>1. CASE Request(x)
  <2>1. UNCHANGED <<subs, cfg, up, lock, mutated, reloads>>
    BY <1>1 DEF Request, store
  <2>2. \A y \in Reloaders : reload'[y].pc \notin {"idle", "lock"} => reload'[y] = reload[y]
    BY <1>1 DEF Request, Resting, Control
  <2> QED BY <2>1, <2>2 DEF Match, Matched, Numbers
<1>2. CASE Acquire(x)
  <2> DEFINE ask == reload[x].ask
  <2>1. ask.kind \in {"providers", "engine", "mutate"}
    BY AskShape DEF Control, Reload
  <2>2. /\ \A y \in Reloaders \ {x} : reload'[y] = reload[y] /\ reload[y].pc \in {"idle", "lock"}
        /\ reload'[x].pc = (IF ask.kind = "mutate" THEN "save" ELSE "build")
        /\ reload'[x].ask = ask /\ reload'[x].old = cfg
    BY <1>2, HolderAssumption DEF Acquire, Begin, Control, Reload
  <2>3. lock = Nobody /\ lock' = x /\ x # Nobody /\ reloads' = reloads + 1 /\ UNCHANGED <<subs, up>> /\ up = "up"
    BY <1>2, HolderAssumption DEF Acquire, Begin, At, Control
  <2>4. Matched(cfg) /\ subs' \in Numbers'
    BY <2>3 DEF Match, Numbers, Texts
  <2>5. /\ ask.kind = "mutate" => cfg' \in mutated'
        /\ ask.kind # "mutate" => mutated' = mutated
        /\ ask.kind = "providers" => cfg' = cfg
    BY <1>2, <2>1 DEF Acquire, Begin
  <2>6. ASSUME NEW y \in Reloaders
        PROVE  /\ reload'[y].pc \in {"save", "write"} => cfg' \in mutated' /\ reload'[y].ask.kind = "mutate"
               /\ reload'[y].pc = "build" => Matched(IF reload[y].ask.kind = "engine" THEN reload[y].old ELSE cfg)'
               /\ reload'[y].pc \notin {"swap", "notify"}
    <3>1. CASE y # x
      BY <2>2, <3>1
    <3>2. CASE y = x
      <4>1. CASE ask.kind = "mutate"
        BY <2>2, <2>5, <3>2, <4>1
      <4>2. CASE ask.kind # "mutate"
        BY <2>1, <2>2, <2>3, <2>4, <2>5, <3>2, <4>2 DEF Matched
      <4> QED BY <4>1, <4>2
    <3> QED BY <3>1, <3>2
  <2> QED BY <2>3, <2>4, <2>6 DEF Match
<1>3. ASSUME NEW v, Finish(x, v), Matched(v), reload[x].pc \notin {"idle", "lock"} PROVE Match'
  <2>1. \A y \in Reloaders : reload'[y].pc \in {"idle", "lock"}
    <3>1. \A y \in Reloaders \ {x} : reload'[y] = reload[y] /\ reload'[x].pc = "idle"
      BY <1>3 DEF Finish, Control, Resting
    <3> QED BY <1>0, <1>3, <3>1 DEF Finish, Control, Resting
  <2> QED BY <1>3, <2>1 DEF Finish, Match, Matched, Numbers
<1>4. ASSUME reload[x].pc \notin {"idle", "lock"} PROVE up = "up" /\ lock = x /\ x # Nobody
  BY <1>4, HolderAssumption DEF Control
<1>5. ASSUME NEW pc \in Pcs, reload[x].pc \notin {"idle", "lock"},
             \/ reload' = [reload EXCEPT ![x].pc = pc]
             \/ reload' = [reload EXCEPT ![x].pc = pc, ![x].ver = cfg]
      PROVE  /\ reload'[x].pc = pc /\ reload'[x].ask = reload[x].ask /\ reload'[x].old = reload[x].old
             /\ \A y \in Reloaders : y # x => reload'[y].pc \in {"idle", "lock"}
  BY <1>5, Alone DEF Control, Reload
<1>6. CASE Truncate(x)
  <2>1. reload[x].pc = "save" /\ Matched(cfg) /\ cfg \in mutated /\ reload[x].ask.kind = "mutate"
    BY <1>4, <1>6 DEF Truncate, At, Match, Matched
  <2>2. CASE Finish(x, cfg)
    BY <1>3, <2>1, <2>2
  <2>3. CASE ~Finish(x, cfg)
    <3>1. reload' = [reload EXCEPT ![x].pc = "write"] /\ UNCHANGED <<subs, cfg, up, lock, mutated, reloads>>
      BY <1>6, <2>3 DEF Truncate
    <3> QED BY <1>4, <1>5, <2>1, <3>1 DEF Match, Matched, Numbers, Pcs
  <2> QED BY <2>2, <2>3
<1>7. CASE Write(x)
  <2>1. reload[x].pc = "write" /\ Matched(cfg) /\ cfg \in mutated /\ reload[x].ask.kind = "mutate"
    BY <1>4, <1>7 DEF Write, At, Match, Matched
  <2>2. CASE Finish(x, cfg)
    BY <1>3, <2>1, <2>2
  <2>3. CASE ~Finish(x, cfg)
    <3>1. reload' = [reload EXCEPT ![x].pc = "build"] /\ UNCHANGED <<subs, cfg, up, lock, mutated, reloads>>
      BY <1>7, <2>3 DEF Write
    <3>2. reload'[x].pc = "build" /\ \A y \in Reloaders : y # x => reload'[y].pc \in {"idle", "lock"}
      BY <1>5, <2>1, <3>1 DEF Pcs
    <3>3. reload'[x].ask.kind = "mutate"
      BY <1>5, <2>1, <3>1 DEF Pcs
    <3> QED BY <1>4, <2>1, <3>1, <3>2, <3>3 DEF Match, Matched, Numbers
  <2> QED BY <2>2, <2>3
<1>8. CASE BuildFails(x)
  BY <1>3, <1>4, <1>8 DEF BuildFails, At, Match
<1>9. CASE StoreSubstrate(x)
  <2>1. /\ reload[x].pc = "build" /\ subs' = cfg /\ reload' = [reload EXCEPT ![x].pc = "swap", ![x].ver = cfg]
        /\ UNCHANGED <<cfg, up, lock, mutated, reloads>>
    BY <1>9 DEF StoreSubstrate, At, store
  <2>2. reload'[x].ver = cfg
    BY <2>1 DEF Control, Reload
  <2> QED BY <1>4, <1>5, <2>1, <2>2 DEF Match, Matched, Numbers, Pcs, Texts
<1>10. CASE SwapQueue(x)
  <2>1. /\ reload[x].pc = "swap" /\ reload' = [reload EXCEPT ![x].pc = "notify"]
        /\ UNCHANGED <<subs, cfg, up, lock, mutated, reloads>>
    BY <1>10 DEF SwapQueue, At, store
  <2> QED BY <1>4, <1>5, <2>1 DEF Match, Matched, Numbers, Pcs
<1>11. CASE Notify(x)
  BY <1>3, <1>4, <1>11 DEF Notify, At, Match, Matched
<1> QED BY <1>1, <1>2, <1>6, <1>7, <1>8, <1>9, <1>10, <1>11 DEF ReloadStep

\* Crash and boot.
LEMMA MatchBoot ==
    ASSUME Control, Texts, Match, Crash \/ Boot \/ Bootstrap PROVE Match'
<1>1. CASE up' # "up"
  BY <1>1 DEF Match, Texts, Numbers, Crash, Boot, Bootstrap, store
<1>2. CASE up' = "up"
  <2>1. subs' = cfg /\ cfg' = cfg /\ UNCHANGED <<reload, reloads>> /\ up # "up"
    BY <1>2 DEF Crash, Boot, Bootstrap, store
  <2> QED BY <1>2, <2>1 DEF Match, Matched, Texts, Numbers, Control
<1> QED BY <1>1, <1>2
-----------------------------------------------------------------------------
(* Lines.                                                                  *)

\* A step that leaves the queues alone preserves Lines, if the engine is only
\* replaced on the way to a swap and a number taken is new.
LEMMA LinesKept ==
    ASSUME Lines, UNCHANGED <<queue, hand, embeds, retired>>,
           reloads \in Nat /\ reloads' \in Nat /\ reloads <= reloads', up' # "up" => up # "up",
           Swapping' \/ (subs' = subs /\ ~Swapping),
           \A y \in Reloaders : reload'[y].pc \in {"save", "write", "build", "swap"} =>
              \A q \in Queues : q = reloads' + 1 => ~Working(q)
    PROVE  Lines'
<1>1. \A q \in Queues : Working(q)' <=> Working(q)
  BY DEF Working
<1>2. embeds # 0 => Working(embeds)' /\ (Swapping' \/ queue'[embeds].ver = subs')
  BY <1>1 DEF Lines
<1>3. \A q \in Queues : q > reloads' + 1 \/ up' # "up" => ~Working(q)
  BY DEF Lines, Queues, Versions
<1> QED BY <1>1, <1>2, <1>3 DEF Lines

\* The swap: a number not used before becomes the queue in use, and the queue
\* that was in use is retired.
LEMMA LinesSwap ==
    ASSUME Control, Texts, Match, Lines, NEW x \in Reloaders, SwapQueue(x) PROVE Lines'
<1> DEFINE n == reloads + 1
<1>1. /\ reload[x].pc = "swap" /\ reload[x].ver = subs /\ subs \in Nat \ {0} /\ up = "up"
      /\ UNCHANGED <<hand, subs, reloads, up>> /\ reload' = [reload EXCEPT ![x].pc = "notify"]
  BY DEF SwapQueue, At, Match, Numbers, Control, store
<1>2. n \in Queues /\ ~Working(n) /\ reloads \in Nat
  BY SMTT(20), <1>1, Numbered DEF Lines, Texts, Queues, Numbers
<1>3. \A y \in Reloaders : reload'[y].pc \in {"idle", "lock", "notify"}
  BY <1>1, Alone DEF Control, Reload
<1>4. retired' = retired \cup ({embeds} \ {0})
  BY DEF SwapQueue
<1>5. CASE Searches(settings[reload[x].ver])
  <2>1. embeds' = n /\ queue' = [queue EXCEPT ![n] = NewQueue(subs)]
    BY <1>1, <1>5 DEF SwapQueue
  <2>2. queue' \in [Queues -> [ver: Nat, jobs: Seq(Messages), closed: {"no", "yes"}]]
    BY <1>1, <2>1 DEF Lines, NewQueue
  <2>3. /\ queue'[n].ver = subs /\ queue'[n].jobs = << >> /\ \A w \in Workers : hand[n][w] = 0
        /\ \A q \in Queues \ {n} : queue'[q] = queue[q]
    BY <1>2, <2>1 DEF Lines, NewQueue
  <2>4. Working(embeds)' /\ queue'[embeds'].ver = subs'
    BY <1>1, <1>2, <2>1, <2>3 DEF Working
  <2>5. \A q \in Queues \ {n} : Working(q)' => q \in retired'
    BY <1>4, <2>3 DEF Lines, Working, Queues, Versions
  <2>6. \A q \in Queues : q > n \/ up' # "up" => ~Working(q)'
    BY <1>1, <1>2, <2>3 DEF Lines, Working, Queues, Versions
  <2>7. \A q \in Queues : ~Working(q)' => queue'[q].jobs = << >> /\ \A w \in Workers : hand'[q][w] = 0
    BY <1>1, <2>3 DEF Lines, Working
  <2>8. ASSUME NEW q \in Queues, NEW w \in Workers, hand'[q][w] = Exited
        PROVE  queue'[q].closed = "yes" /\ queue'[q].jobs = << >>
    <3>1. q # n
      BY <1>1, <2>3, <2>8 DEF Exited
    <3> QED BY <1>1, <2>3, <2>8, <3>1 DEF Lines
  <2> QED BY <1>1, <1>2, <1>3, <1>4, <2>1, <2>2, <2>4, <2>5, <2>6, <2>7, <2>8 DEF Lines
<1>6. CASE ~Searches(settings[reload[x].ver])
  <2>1. embeds' = 0 /\ queue' = queue
    BY <1>6 DEF SwapQueue
  <2>2. \A q \in Queues : Working(q)' <=> Working(q)
    BY <2>1 DEF Working
  <2>3. \A q \in Queues : Working(q) => q \in retired'
    BY <1>4 DEF Lines, Queues, Versions
  <2>4. retired' \subseteq Queues
    BY <1>4 DEF Lines
  <2> QED BY <1>1, <1>3, <2>1, <2>2, <2>3, <2>4 DEF Lines
<1> QED BY <1>5, <1>6

\* The other steps of a reload.
LEMMA LinesReload ==
    ASSUME Control, Texts, Match, Lines, NEW x \in Reloaders, Request(x) \/ ReloadStep(x) PROVE Lines'
<1>0. reloads \in Nat
  BY DEF Control
<1>1. CASE SwapQueue(x)
  BY <1>1, LinesSwap
<1>2. CASE Acquire(x)
  <2>1. UNCHANGED <<queue, hand, embeds, retired, subs, up>> /\ reloads' = reloads + 1
    BY <1>2 DEF Acquire, Begin, pool
  <2>2. \A y \in Reloaders : reload'[y].pc # "swap" /\ reload[y].pc # "swap"
    <3>1. \A y \in Reloaders : reload[y].pc \in {"idle", "lock"}
      BY <1>2, HolderAssumption DEF Acquire, Control
    <3>2. PICK pc \in {"save", "build"} : reload' = [reload EXCEPT ![x].pc = pc, ![x].old = cfg]
      BY <1>2 DEF Acquire, Begin
    <3> QED BY ZenonT(60), <3>1, <3>2 DEF Control, Reload
  <2>3. \A q \in Queues : q = reloads' + 1 => ~Working(q)
    BY <1>0, <2>1 DEF Lines
  <2>4. ~Swapping /\ reloads <= reloads' /\ reloads' \in Nat
    BY <1>0, <2>1, <2>2 DEF Swapping
  <2> QED BY <1>0, <2>1, <2>3, <2>4, LinesKept
<1>3. CASE StoreSubstrate(x)
  <2>1. /\ UNCHANGED <<queue, hand, embeds, retired, up, reloads>> /\ reload[x].pc = "build"
        /\ reload' = [reload EXCEPT ![x].pc = "swap", ![x].ver = cfg]
    BY <1>3 DEF StoreSubstrate, pool, At
  <2>2. reload'[x].pc = "swap" /\ \A y \in Reloaders \ {x} : reload'[y] = reload[y]
    BY <2>1 DEF Control, Reload
  <2>3. \A q \in Queues : q = reloads + 1 => ~Working(q)
    BY <2>1 DEF Lines
  <2>4. Swapping'
    BY <2>2 DEF Swapping
  <2>5. reloads <= reloads'
    BY <1>0, <2>1
  <2> QED BY <1>0, <2>1, <2>3, <2>4, <2>5, LinesKept
<1>4. CASE Request(x) \/ Truncate(x) \/ Write(x) \/ BuildFails(x) \/ Notify(x)
  <2>1. UNCHANGED <<queue, hand, embeds, retired, subs, up, reloads>>
    BY <1>4 DEF Request, Truncate, Write, BuildFails, Notify, Finish, pool
  <2>2. /\ \A y \in Reloaders \ {x} : reload'[y] = reload[y]
        /\ reload'[x].pc \in {"save", "write", "build", "swap"} => reload[x].pc \in {"save", "write", "build", "swap"}
        /\ reload[x].pc # "swap" /\ reload'[x].pc # "swap"
    <3>1. CASE Request(x)
      BY <3>1 DEF Request, Resting, At, Control
    <3>2. CASE Truncate(x)
      BY <3>2 DEF Truncate, Finish, Resting, At, Control, Reload
    <3>3. CASE Write(x)
      BY <3>3 DEF Write, Finish, Resting, At, Control, Reload
    <3>4. CASE BuildFails(x) \/ Notify(x)
      BY <3>4 DEF BuildFails, Notify, Finish, Resting, At, Control, Reload
    <3> QED BY <1>4, <3>1, <3>2, <3>3, <3>4
  <2>3. Swapping' <=> Swapping
    BY <2>2 DEF Swapping
  <2>4. ASSUME NEW y \in Reloaders, reload'[y].pc \in {"save", "write", "build", "swap"}, NEW q \in Queues, q = reloads + 1
        PROVE  ~Working(q)
    BY <2>2, <2>4 DEF Lines
  <2>5. reloads <= reloads'
    BY <1>0, <2>1
  <2> QED BY <1>0, <2>1, <2>3, <2>4, <2>5, LinesKept
<1> QED BY <1>1, <1>2, <1>3, <1>4 DEF ReloadStep

\* Crash and boot.
LEMMA LinesBoot ==
    ASSUME Control, Texts, Lines, Crash \/ Boot \/ Bootstrap PROVE Lines'
<1>0. reloads \in Nat /\ reloads' = reloads /\ (Exited = 0) = FALSE
  BY DEF Control, Crash, Boot, Bootstrap, Exited
<1>1. \A y \in Reloaders : reload'[y].pc = "idle"
  BY DEF Crash, Boot, Bootstrap, Control, Resting
<1>2. CASE Crash
  BY <1>0, <1>1, <1>2 DEF Crash, Empty, NewQueue, Lines, Working, Swapping
<1>3. CASE Boot \/ (Bootstrap /\ UNCHANGED <<queue, embeds, subs>>)
  <2>1. UNCHANGED <<queue, hand, embeds, retired, subs>> /\ up # "up"
    BY <1>3 DEF Boot, Bootstrap, pool
  <2>2. ~Swapping
    BY <2>1 DEF Swapping, Control
  <2>3. reloads <= reloads' /\ reloads' \in Nat
    BY <1>0
  <2> QED BY <1>0, <1>1, <2>1, <2>2, <2>3, LinesKept
<1>4. CASE Bootstrap /\ queue' = Fresh(cfg) /\ embeds' = First(cfg) /\ subs' = cfg /\ up' = "up"
  <2>1. \A q \in Queues : ~Working(q)
    BY <1>4 DEF Bootstrap, Lines
  <2>2. UNCHANGED <<hand, retired>> /\ cfg \in Nat \ {0} /\ 1 \in Queues
    BY <1>4, Numbered DEF Bootstrap, Texts, Numbers, Queues
  <2>3. First(cfg) \in {0, 1}
    BY DEF First
  <2>4. \A q \in Queues : queue'[q] = NewQueue(IF q = embeds' THEN cfg ELSE 0)
    BY <1>4 DEF Fresh
  <2>5. \A q \in Queues : queue'[q].ver = (IF q = embeds' THEN cfg ELSE 0) /\ queue'[q].jobs = << >>
    <3>1. \A v : NewQueue(v).ver = v /\ NewQueue(v).jobs = << >>
      BY DEF NewQueue
    <3> QED BY <2>4, <3>1
  <2>6. queue' \in [Queues -> [ver: Nat, jobs: Seq(Messages), closed: {"no", "yes"}]]
    <3>1. \A v \in Nat : NewQueue(v) \in [ver: Nat, jobs: Seq(Messages), closed: {"no", "yes"}]
      BY DEF NewQueue
    <3> QED BY <1>4, <2>2, <3>1 DEF Fresh
  <2>7. \A q \in Queues, w \in Workers : hand'[q][w] = 0
    BY <2>1, <2>2 DEF Lines
  <2>8. \A q \in Queues : Working(q)' <=> q = embeds'
    BY <2>2, <2>5 DEF Working
  <2>9. embeds' \in Queues \cup {0} /\ (embeds' # 0 => queue'[embeds'].ver = subs')
    BY <1>4, <2>2, <2>3, <2>5
  <2>10. \A q \in Queues : q > reloads' + 1 \/ up' # "up" => ~Working(q)'
    BY <1>0, <1>4, <2>3, <2>8 DEF Queues, Versions
  <2> QED BY <1>0, <1>1, <2>2, <2>5, <2>6, <2>7, <2>8, <2>9, <2>10 DEF Lines
<1> QED BY <1>2, <1>3, <1>4 DEF Bootstrap

\* A step of the pool preserves Lines, if it leaves unused queues alone and
\* nobody exits from, or sends into, the wrong queue.
LEMMA LinesPool ==
    ASSUME Lines, UNCHANGED <<embeds, subs, reloads, up, reload, retired>>,
           queue' \in [Queues -> [ver: Nat, jobs: Seq(Messages), closed: {"no", "yes"}]],
           hand' \in [Queues -> [Workers -> Messages \cup {0, Exited}]],
           \A r \in Queues : queue'[r].ver = queue[r].ver,
           \A r \in Queues : ~Working(r) => queue'[r].jobs = queue[r].jobs /\ hand'[r] = hand[r],
           \A r \in Queues, y \in Workers : hand'[r][y] = Exited => queue'[r].closed = "yes" /\ queue'[r].jobs = << >>
    PROVE  Lines'
<1>1. \A r \in Queues : Working(r)' <=> Working(r)
  BY DEF Working
<1>2. Swapping' <=> Swapping
  BY DEF Swapping
<1>3. embeds' # 0 => Working(embeds)' /\ (Swapping' \/ queue'[embeds'].ver = subs')
  BY <1>1, <1>2 DEF Lines
<1> QED BY <1>1, <1>3 DEF Lines

\* Inserts, workers and Close.
LEMMA LinesSend ==
    ASSUME Control, Lines, Places, NEW p \in Producers, Send(p) PROVE Lines'
<1> DEFINE q == prod[p].q
           m == prod[p].m
<1>1. /\ q \in Queues /\ Working(q) /\ m \in 1 .. stored /\ stored <= plan.messages /\ stored \in Nat
      /\ queue[q].closed = "no" /\ queue' = [queue EXCEPT ![q].jobs = Append(@, m)]
      /\ UNCHANGED <<embeds, subs, reloads, up, reload, retired, hand>>
  BY HolderAssumption DEF Send, holder, Places, Control
<1>2. m \in Messages
  BY <1>1, HolderAssumption DEF Messages, Control
<1> HIDE DEF q, m
<1>3. /\ queue'[q].jobs = Append(queue[q].jobs, m) /\ queue'[q].ver = queue[q].ver
      /\ queue'[q].closed = "no" /\ \A r \in Queues \ {q} : queue'[r] = queue[r]
  BY <1>1 DEF Lines
<1>4. queue' \in [Queues -> [ver: Nat, jobs: Seq(Messages), closed: {"no", "yes"}]]
  <2>1. queue[q].jobs \in Seq(Messages)
    BY <1>1 DEF Lines
  <2>2. Append(queue[q].jobs, m) \in Seq(Messages)
    BY <1>2, <2>1
  <2> QED BY <1>1, <2>2 DEF Lines
<1>5. \A y \in Workers : hand[q][y] # Exited
  BY <1>1 DEF Lines
<1>6. \A r \in Queues : queue'[r].ver = queue[r].ver /\ (~Working(r) => queue'[r].jobs = queue[r].jobs)
  BY <1>1, <1>3
<1>7. \A r \in Queues, y \in Workers : hand'[r][y] = Exited => queue'[r].closed = "yes" /\ queue'[r].jobs = << >>
  BY <1>1, <1>3, <1>5 DEF Lines
<1> QED BY <1>1, <1>4, <1>6, <1>7, LinesPool DEF Lines

\* A worker's step.
LEMMA LinesWorker ==
    ASSUME Lines, NEW q \in Queues, NEW w \in Workers, WorkerStep(q, w) PROVE Lines'
<1>0. Working(q) /\ UNCHANGED <<embeds, subs, reloads, up, reload, retired>>
  BY DEF WorkerStep, TakeJob, Embed, ExitWorker, holder
<1>1. CASE TakeJob(q, w)
  <2> DEFINE m == Head(queue[q].jobs)
  <2>1. /\ hand' = [hand EXCEPT ![q][w] = m] /\ queue' = [queue EXCEPT ![q].jobs = Tail(@)]
        /\ queue[q].jobs # << >> /\ queue[q].jobs \in Seq(Messages)
    BY <1>1 DEF TakeJob, Lines
  <2>2. m \in Messages /\ Tail(queue[q].jobs) \in Seq(Messages)
    BY <2>1
  <2> HIDE DEF m
  <2>3. /\ queue' \in [Queues -> [ver: Nat, jobs: Seq(Messages), closed: {"no", "yes"}]]
        /\ hand' \in [Queues -> [Workers -> Messages \cup {0, Exited}]]
    BY ZenonT(60), <2>1, <2>2 DEF Lines
  <2>4. /\ \A r \in Queues : queue'[r].ver = queue[r].ver
        /\ \A r \in Queues : r # q => queue'[r] = queue[r] /\ hand'[r] = hand[r]
    BY <2>1 DEF Lines
  <2>5. \A y \in Workers : hand'[q][y] # Exited
    <3>1. \A y \in Workers : hand[q][y] # Exited
      BY <2>1 DEF Lines
    <3>2. m # Exited
      BY <2>2, HolderAssumption DEF Messages, Exited
    <3> QED BY <2>1, <3>1, <3>2 DEF Lines
  <2>6. \A r \in Queues, y \in Workers : hand'[r][y] = Exited => queue'[r].closed = "yes" /\ queue'[r].jobs = << >>
    BY ZenonT(60), <2>4, <2>5 DEF Lines
  <2> QED BY <1>0, <2>3, <2>4, <2>6, LinesPool
<1>2. CASE Embed(q, w) \/ ExitWorker(q, w)
  <2>1. PICK v \in {0, Exited} : hand' = [hand EXCEPT ![q][w] = v] /\ queue' = queue
                                  /\ (v = Exited => queue[q].closed = "yes" /\ queue[q].jobs = << >>)
    BY <1>2 DEF Embed, ExitWorker, Exited
  <2>2. hand' \in [Queues -> [Workers -> Messages \cup {0, Exited}]]
    BY <2>1 DEF Lines
  <2>3. \A r \in Queues : r # q => hand'[r] = hand[r]
    BY <2>1 DEF Lines
  <2>4. \A r \in Queues, y \in Workers : hand'[r][y] = Exited => queue'[r].closed = "yes" /\ queue'[r].jobs = << >>
    BY <2>1 DEF Lines
  <2> QED BY <1>0, <2>1, <2>2, <2>3, <2>4, LinesPool DEF Lines
<1> QED BY <1>1, <1>2 DEF WorkerStep

\* Close closes the channel.
LEMMA LinesClose ==
    ASSUME Lines, NEW q \in Queues, CloseQueue(q) PROVE Lines'
<1>1. /\ UNCHANGED <<embeds, subs, reloads, up, reload, retired, hand>>
      /\ queue' = [queue EXCEPT ![q].closed = "yes"]
  BY DEF CloseQueue, holder
<1>2. queue' \in [Queues -> [ver: Nat, jobs: Seq(Messages), closed: {"no", "yes"}]]
  <2> DEFINE S == Seq(Messages)
  <2>1. queue \in [Queues -> [ver: Nat, jobs: S, closed: {"no", "yes"}]]
    BY DEF Lines
  <2> HIDE DEF S
  <2>2. queue' \in [Queues -> [ver: Nat, jobs: S, closed: {"no", "yes"}]]
    BY <1>1, <2>1
  <2> QED BY <2>2 DEF S
<1>3. \A r \in Queues : /\ queue'[r].ver = queue[r].ver /\ queue'[r].jobs = queue[r].jobs
                       /\ queue[r].closed = "yes" => queue'[r].closed = "yes"
  BY <1>1 DEF Lines
<1> QED BY <1>1, <1>2, <1>3, LinesPool DEF Lines
-----------------------------------------------------------------------------
(* Places.                                                                 *)

\* A step that moves no message preserves Places.
LEMMA PlacesKept ==
    ASSUME Places, UNCHANGED <<plan, hand, feed, done>>, up' # "up" => up # "up",
           \A q \in Queues : queue'[q].jobs = queue[q].jobs /\ (Working(q) => Working(q)')
    PROVE  Places'
<1>1. UNCHANGED <<prod, stored, sent>>
  BY DEF feed
<1>2. \A m : (InHand(m)' <=> InHand(m)) /\ (Waiting(m)' <=> Waiting(m))
  BY DEF InHand, Waiting
<1>3. \A q \in Queues : \A i \in DOMAIN queue'[q].jobs :
          queue'[q].jobs[i] \in sent \ done /\ ~InHand(queue[q].jobs[i])'
  BY <1>2 DEF Places
<1> QED BY <1>1, <1>2, <1>3 DEF Places

\* Reloads, crash and boot.
LEMMA PlacesReload ==
    ASSUME Control, Texts, Match, Lines, Places, NEW x \in Reloaders, Request(x) \/ ReloadStep(x) PROVE Places'
<1>1. UNCHANGED <<plan, hand, feed, done, up>>
  BY DEF Request, ReloadStep, Acquire, Begin, Truncate, Write, BuildFails, Finish, StoreSubstrate, SwapQueue, Notify,
         asks, pool
<1>2. ASSUME NEW q \in Queues PROVE queue'[q].jobs = queue[q].jobs /\ (Working(q) => Working(q)')
  <2>1. CASE queue' = queue
    BY <2>1 DEF Working
  <2>2. CASE SwapQueue(x) /\ queue' # queue
    <3>1. queue' = [queue EXCEPT ![reloads + 1] = NewQueue(reload[x].ver)] /\ reload[x].pc = "swap"
      BY <2>2 DEF SwapQueue, At
    <3>2. q = reloads + 1 => ~Working(q) /\ queue[q].jobs = << >>
      BY <3>1 DEF Lines
    <3> QED BY <3>1, <3>2 DEF Lines, NewQueue, Working
  <2> QED BY <2>1, <2>2 DEF Request, ReloadStep, Acquire, Begin, Truncate, Write, BuildFails, Finish, StoreSubstrate,
                            Notify, pool
<1> QED BY <1>1, <1>2, PlacesKept

\* A crash forgets what was not tried; a start finds nothing.
LEMMA PlacesBoot ==
    ASSUME Control, Lines, Places, Crash \/ Boot \/ Bootstrap PROVE Places'
<1>1. CASE Crash
  <2>1. /\ prod' = [p \in Producers |-> Idle] /\ sent' = done /\ UNCHANGED <<stored, done, plan>>
        /\ \A q \in Queues : queue'[q].jobs = << >> /\ \A w \in Workers : hand'[q][w] = 0
    BY <1>1 DEF Crash, asks, Empty, NewQueue
  <2>2. \A q \in Queues, w \in Workers : hand'[q][w] \notin Messages
    BY <2>1, HolderAssumption DEF Messages
  <2>3. \A q \in Queues : DOMAIN queue'[q].jobs = {}
    BY <2>1
  <2>4. prod' \in [Producers -> [pc: {"idle", "load", "send", "panicked"}, m: Nat, q: Queues \cup {0}]]
        /\ \A p \in Producers : prod'[p].pc = "idle"
    BY <2>1 DEF Idle
  <2> QED BY <2>1, <2>2, <2>3, <2>4 DEF Places
<1>2. CASE Boot \/ Bootstrap
  <2>1. UNCHANGED <<plan, hand, feed, done>> /\ up # "up"
    BY <1>2 DEF Boot, Bootstrap, asks, pool
  <2>2. \A q \in Queues : ~Working(q) /\ queue[q].jobs = << >>
    BY <2>1 DEF Lines
  <2>3. \A q \in Queues : queue'[q].jobs = << >>
    <3>1. \A v : NewQueue(v).jobs = << >>
      BY DEF NewQueue
    <3> QED BY <1>2, <2>2, <3>1 DEF Boot, Bootstrap, pool, Fresh
  <2> QED BY <2>1, <2>2, <2>3, PlacesKept
<1> QED BY <1>1, <1>2

\* A producer stores a message, loads the queue, or panics.
LEMMA PlacesInsert ==
    ASSUME Control, Lines, Places, NEW p \in Producers, StoreMessage(p) \/ LoadQueue(p) \/ SendPanics(p) PROVE Places'
<1>0. UNCHANGED <<plan, up, queue, hand, sent, done>>
  BY DEF StoreMessage, LoadQueue, SendPanics, holder, asks, pool
<1>1. \A m : (InHand(m)' <=> InHand(m)) /\ (Waiting(m)' <=> Waiting(m))
  BY <1>0 DEF InHand, Waiting
<1>2. \A q \in Queues : Working(q)' <=> Working(q)
  BY <1>0 DEF Working
<1>3. \A q \in Queues : \A i \in DOMAIN queue'[q].jobs :
          queue'[q].jobs[i] \in sent \ done /\ ~InHand(queue[q].jobs[i])'
  BY <1>0, <1>1 DEF Places
<1>4. CASE StoreMessage(p)
  <2>1. /\ up = "up" /\ stored < plan.messages /\ stored' = stored + 1 /\ stored \in Nat /\ plan.messages \in Nat
        /\ prod' = [prod EXCEPT ![p] = [pc |-> "load", m |-> stored + 1, q |-> 0]]
    BY <1>4, HolderAssumption DEF StoreMessage, Places, Control
  <2>2. prod' \in [Producers -> [pc: {"idle", "load", "send", "panicked"}, m: Nat, q: Queues \cup {0}]]
    BY <2>1 DEF Places
  <2>3. prod'[p].pc = "load" /\ prod'[p].m = stored + 1 /\ \A r \in Producers \ {p} : prod'[r] = prod[r]
    BY <2>1 DEF Places
  <2>4. stored' \in 0 .. plan.messages /\ sent \subseteq 1 .. stored' /\ stored + 1 \in (1 .. stored') \ sent
    BY <2>1 DEF Places
  <2>5. \A r \in Producers : prod'[r].pc \in {"load", "send"} => prod'[r].m \in (1 .. stored') \ sent
    BY <2>1, <2>3, <2>4 DEF Places
  <2>6. \A r, t \in Producers :
          prod'[r].pc \in {"load", "send"} /\ prod'[t].pc \in {"load", "send"} /\ prod'[r].m = prod'[t].m => r = t
    <3>1. \A r \in Producers \ {p} : prod'[r].pc \in {"load", "send"} => prod'[r].m # stored + 1
      BY <2>1, <2>3 DEF Places
    <3> QED BY <2>3, <3>1 DEF Places
  <2>7. \A r \in Producers : prod'[r].pc = "send" => prod'[r].q \in Queues /\ Working(prod[r].q)'
    BY <1>0, <1>2, <2>3 DEF Places
  <2> QED BY <1>0, <1>1, <1>3, <2>1, <2>2, <2>4, <2>5, <2>6, <2>7 DEF Places
<1>5. CASE LoadQueue(p) \/ SendPanics(p)
  <2>1. stored' = stored /\ prod[p].pc \in {"load", "send"} /\ up = "up"
    BY <1>5 DEF LoadQueue, SendPanics, Places
  <2>2. /\ prod' \in [Producers -> [pc: {"idle", "load", "send", "panicked"}, m: Nat, q: Queues \cup {0}]]
        /\ \A r \in Producers \ {p} : prod'[r] = prod[r]
        /\ prod'[p].pc \in {"load", "send"} => prod'[p].m = prod[p].m
        /\ prod'[p].pc = "send" => prod'[p].q = embeds /\ embeds # 0
    <3>1. CASE LoadQueue(p) /\ embeds = 0
      BY <3>1 DEF LoadQueue, Places, Idle
    <3>2. CASE LoadQueue(p) /\ embeds # 0
      <4> DEFINE t == [prod[p] EXCEPT !.pc = "send", !.q = embeds]
      <4>1. prod' = [prod EXCEPT ![p] = t]
        BY <3>2 DEF LoadQueue
      <4>2. t \in [pc: {"idle", "load", "send", "panicked"}, m: Nat, q: Queues \cup {0}] /\ t.m = prod[p].m /\ t.q = embeds
        <5>1. prod[p] \in [pc: {"idle", "load", "send", "panicked"}, m: Nat, q: Queues \cup {0}] /\ embeds \in Queues \cup {0}
          BY DEF Places, Lines
        <5> HIDE DEF Queues
        <5> QED BY <5>1
      <4> HIDE DEF t
      <4> QED BY <3>2, <4>1, <4>2 DEF Places
    <3>3. CASE SendPanics(p)
      BY <3>3 DEF SendPanics, Places
    <3> QED BY <1>5, <3>1, <3>2, <3>3
  <2>3. \A r \in Producers : prod'[r].pc \in {"load", "send"} => prod[r].pc \in {"load", "send"} /\ prod'[r].m = prod[r].m
    BY <2>1, <2>2
  <2>4. \A r \in Producers : prod'[r].pc = "send" => prod'[r].q \in Queues /\ Working(prod[r].q)'
    <3>1. embeds # 0 => embeds \in Queues /\ Working(embeds)
      BY DEF Lines
    <3> QED BY <1>0, <2>2, <3>1 DEF Places, Working
  <2>5. /\ \A r \in Producers : prod'[r].pc \in {"load", "send"} => prod'[r].m \in (1 .. stored) \ sent
        /\ \A r, t \in Producers :
             prod'[r].pc \in {"load", "send"} /\ prod'[t].pc \in {"load", "send"} /\ prod'[r].m = prod'[t].m => r = t
    BY <2>3 DEF Places
  <2> QED BY <1>0, <1>1, <1>3, <2>1, <2>2, <2>4, <2>5 DEF Places
<1> QED BY <1>4, <1>5

\* A queue takes a message.
LEMMA PlacesSend ==
    ASSUME Control, Lines, Places, NEW p \in Producers, Send(p) PROVE Places'
<1> DEFINE q == prod[p].q
           m == prod[p].m
           n == Len(queue[q].jobs) + 1
<1>1. /\ prod[p].pc = "send" /\ q \in Queues /\ Working(q) /\ m \in (1 .. stored) \ sent /\ up = "up"
      /\ queue' = [queue EXCEPT ![q].jobs = Append(@, m)] /\ prod' = [prod EXCEPT ![p] = Idle]
      /\ sent' = sent \cup {m} /\ UNCHANGED <<plan, up, hand, stored, done>>
  BY DEF Send, Places, holder, asks
<1>2. queue[q].jobs \in Seq(Messages) /\ DOMAIN queue[q].jobs = 1 .. Len(queue[q].jobs) /\ n \in Nat
  BY <1>1 DEF Lines
<1>3. stored \in Nat /\ stored <= MaxMessages /\ m \in Messages
  BY <1>1, HolderAssumption DEF Places, Control, Messages
<1>4. /\ DOMAIN queue'[q].jobs = 1 .. n /\ queue'[q].jobs[n] = m /\ queue'[q].ver = queue[q].ver
      /\ \A i \in DOMAIN queue[q].jobs : queue'[q].jobs[i] = queue[q].jobs[i]
      /\ \A r \in Queues \ {q} : queue'[r] = queue[r]
  <2>1. queue'[q].jobs = Append(queue[q].jobs, m) /\ queue'[q].ver = queue[q].ver
    BY <1>1 DEF Lines
  <2>2. \A r \in Queues \ {q} : queue'[r] = queue[r]
    BY <1>1 DEF Lines
  <2> HIDE DEF q, m
  <2> QED BY <1>2, <1>3, <2>1, <2>2 DEF n
<1>5. /\ prod' \in [Producers -> [pc: {"idle", "load", "send", "panicked"}, m: Nat, q: Queues \cup {0}]]
      /\ prod'[p].pc = "idle" /\ \A r \in Producers \ {p} : prod'[r] = prod[r]
  BY <1>1 DEF Places, Idle
<1> HIDE DEF q, m, n
<1>6. \A r \in Queues : Working(r)' <=> Working(r)
  BY <1>4 DEF Working
<1>7. \A r \in Producers : prod'[r].pc = "send" => prod'[r].q \in Queues /\ Working(prod[r].q)'
  BY <1>5, <1>6 DEF Places, Working
<1>8. \A r \in Producers : prod'[r].pc \in {"load", "send"} => r # p /\ prod[r].m # m /\ prod'[r] = prod[r]
  BY <1>1, <1>5 DEF Places, m
<1>9. \A k : InHand(k)' <=> InHand(k)
  BY <1>1 DEF InHand
<1>10. ~InHand(m)
  BY <1>1, <1>3 DEF InHand, Places
<1>11. \A r \in Queues : \A i \in DOMAIN queue'[r].jobs :
          \/ r = q /\ i = n /\ queue'[r].jobs[i] = m
          \/ i \in DOMAIN queue[r].jobs /\ queue'[r].jobs[i] = queue[r].jobs[i]
  BY SMTT(20), <1>2, <1>4 DEF n
<1>12. \A k \in sent' : Waiting(k)' \/ InHand(k)' \/ k \in done'
  <2> SUFFICES ASSUME NEW k \in sent' PROVE Waiting(k)' \/ InHand(k)' \/ k \in done'
    OBVIOUS
  <2>1. CASE k = m
    <3>1. n \in DOMAIN queue'[q].jobs
      BY <1>2, <1>4 DEF n
    <3> QED BY <1>1, <1>4, <2>1, <3>1 DEF Waiting, ToSet
  <2>2. CASE k # m /\ Waiting(k)
    <3>1. PICK r \in Queues : \E i \in DOMAIN queue[r].jobs : queue[r].jobs[i] = k
      BY <2>2 DEF Waiting, ToSet
    <3>2. \E i \in DOMAIN queue'[r].jobs : queue'[r].jobs[i] = k
      BY <1>2, <1>4, <3>1 DEF n
    <3> QED BY <3>2 DEF Waiting, ToSet
  <2>3. CASE k # m /\ ~Waiting(k)
    BY <1>1, <1>9, <2>3 DEF Places
  <2> QED BY <2>1, <2>2, <2>3
<1>13. ASSUME NEW r \in Queues, NEW i \in DOMAIN queue'[r].jobs
       PROVE  queue'[r].jobs[i] \in sent' \ done' /\ ~InHand(queue[r].jobs[i])'
  <2>1. CASE r = q /\ i = n /\ queue'[r].jobs[i] = m
    BY <1>1, <1>9, <1>10, <2>1 DEF Places
  <2>2. CASE i \in DOMAIN queue[r].jobs /\ queue'[r].jobs[i] = queue[r].jobs[i]
    BY <1>1, <1>9, <2>2 DEF Places
  <2> QED BY <1>11, <2>1, <2>2
<1>14. ASSUME NEW r \in Queues, NEW t \in Queues, NEW i \in DOMAIN queue'[r].jobs, NEW j \in DOMAIN queue'[t].jobs,
              queue'[r].jobs[i] = queue'[t].jobs[j]
       PROVE  r = t /\ i = j
  <2>1. \A u \in Queues : \A k \in DOMAIN queue[u].jobs : queue[u].jobs[k] # m
    BY <1>1 DEF Places
  <2> QED BY <1>11, <1>14, <2>1 DEF Places
<1>15. \A r \in Queues, w \in Workers : hand'[r][w] \in Messages => hand'[r][w] \in sent' \ done'
  BY <1>1 DEF Places
<1>16. /\ stored' \in 0 .. plan'.messages /\ sent' \subseteq 1 .. stored' /\ done' \subseteq sent'
       /\ \A r \in Producers : prod'[r].pc \in {"load", "send"} => prod'[r].m \in (1 .. stored') \ sent'
       /\ \A r, t \in Producers :
             prod'[r].pc \in {"load", "send"} /\ prod'[t].pc \in {"load", "send"} /\ prod'[r].m = prod'[t].m => r = t
  BY <1>1, <1>8 DEF Places
<1>17. \A r, t \in Queues, w, y \in Workers :
          hand'[r][w] \in Messages /\ hand'[r][w] = hand'[t][y] => r = t /\ w = y
  BY <1>1 DEF Places
<1> QED BY <1>1, <1>5, <1>7, <1>12, <1>13, <1>14, <1>15, <1>16, <1>17 DEF Places

\* A worker takes the head of its channel.
LEMMA PlacesTake ==
    ASSUME Control, Lines, Places, NEW q \in Queues, NEW w \in Workers, TakeJob(q, w) PROVE Places'
<1> DEFINE jobs == queue[q].jobs
           m == Head(jobs)
<1>1. /\ hand[q][w] = 0 /\ jobs # << >> /\ jobs \in Seq(Messages) /\ hand' = [hand EXCEPT ![q][w] = m]
      /\ queue' = [queue EXCEPT ![q].jobs = Tail(@)] /\ UNCHANGED <<plan, up, prod, stored, sent, done>>
  BY DEF TakeJob, Lines, holder, asks, feed
<1>2. DOMAIN jobs = 1 .. Len(jobs) /\ Len(jobs) \in Nat \ {0} /\ m = jobs[1]
  BY <1>1
<1>3. /\ DOMAIN queue'[q].jobs = 1 .. Len(jobs) - 1 /\ queue'[q].ver = queue[q].ver
      /\ \A i \in 1 .. Len(jobs) - 1 : queue'[q].jobs[i] = jobs[i + 1]
      /\ \A r \in Queues \ {q} : queue'[r] = queue[r]
  <2>1. queue'[q].jobs = Tail(jobs) /\ queue'[q].ver = queue[q].ver
    BY <1>1 DEF Lines
  <2>2. \A r \in Queues \ {q} : queue'[r] = queue[r]
    BY <1>1 DEF Lines
  <2> HIDE DEF jobs
  <2> QED BY <1>1, <1>2, <2>1, <2>2
<1>4. m \in sent \ done /\ ~InHand(m) /\ m \in Messages
  BY <1>1, <1>2 DEF Places
<1> HIDE DEF m, jobs
<1>5. \A r \in Queues, y \in Workers : hand'[r][y] = IF r = q /\ y = w THEN m ELSE hand[r][y]
  <2>1. hand' = [hand EXCEPT ![q][w] = m]
    BY <1>1
  <2> QED BY <2>1 DEF Lines
<1>6. \A r \in Queues : \A i \in DOMAIN queue'[r].jobs : \E j \in DOMAIN queue[r].jobs :
          /\ queue'[r].jobs[i] = queue[r].jobs[j] /\ (r # q => j = i) /\ (r = q => j = i + 1)
  <2> SUFFICES ASSUME NEW r \in Queues, NEW i \in DOMAIN queue'[r].jobs
               PROVE  \E j \in DOMAIN queue[r].jobs :
                        queue'[r].jobs[i] = queue[r].jobs[j] /\ (r # q => j = i) /\ (r = q => j = i + 1)
    OBVIOUS
  <2>1. CASE r = q
    <3>1. i \in 1 .. Len(jobs) - 1 /\ i + 1 \in DOMAIN queue[q].jobs
      BY <1>2, <1>3, <2>1 DEF jobs
    <3> QED BY <1>3, <2>1, <3>1 DEF jobs
  <2>2. CASE r # q
    BY <1>3, <2>2
  <2> QED BY <2>1, <2>2
<1>7. \A r \in Queues : \A i \in DOMAIN queue'[r].jobs : queue'[r].jobs[i] # m
  <2> SUFFICES ASSUME NEW r \in Queues, NEW i \in DOMAIN queue'[r].jobs PROVE queue'[r].jobs[i] # m
    OBVIOUS
  <2>1. PICK j \in DOMAIN queue[r].jobs :
          queue'[r].jobs[i] = queue[r].jobs[j] /\ (r # q => j = i) /\ (r = q => j = i + 1)
    BY <1>6
  <2>2. r # q \/ j # 1
    BY <1>2, <1>3, <2>1
  <2>3. 1 \in DOMAIN queue[q].jobs /\ queue[q].jobs[1] = m
    BY <1>2 DEF jobs
  <2> QED BY <2>1, <2>2, <2>3 DEF Places
<1>8. \A r \in Queues : Working(r)' <=> Working(r)
  BY <1>3 DEF Working
<1>9. \A r \in Producers : prod'[r].pc = "send" => prod'[r].q \in Queues /\ Working(prod[r].q)'
  BY <1>1, <1>8 DEF Places, Working
<1>10. \A k : k # 0 => (InHand(k)' <=> InHand(k) \/ k = m)
  BY <1>1, <1>5 DEF InHand
<1>11. \A k \in sent : k # 0
  BY DEF Places
<1>12. ASSUME NEW k \in sent PROVE Waiting(k)' \/ InHand(k)' \/ k \in done
  <2>1. CASE Waiting(k) /\ k # m
    <3>1. PICK r \in Queues : \E j \in DOMAIN queue[r].jobs : queue[r].jobs[j] = k
      BY <2>1 DEF Waiting, ToSet
    <3>2. PICK j \in DOMAIN queue[r].jobs : queue[r].jobs[j] = k
      BY <3>1
    <3>3. CASE r # q
      BY <1>3, <3>2, <3>3 DEF Waiting, ToSet
    <3>4. CASE r = q
      <4>1. j # 1 /\ j \in 1 .. Len(jobs)
        BY <1>2, <2>1, <3>2, <3>4 DEF jobs
      <4>2. j - 1 \in DOMAIN queue'[q].jobs /\ queue'[q].jobs[j - 1] = k
        BY <1>2, <1>3, <3>2, <3>4, <4>1 DEF jobs
      <4> QED BY <4>2 DEF Waiting, ToSet
    <3> QED BY <3>3, <3>4
  <2>2. CASE ~Waiting(k) \/ k = m
    BY <1>10, <1>11, <2>2 DEF Places
  <2> QED BY <2>1, <2>2
<1>13. ASSUME NEW r \in Queues, NEW i \in DOMAIN queue'[r].jobs
       PROVE  queue'[r].jobs[i] \in sent' \ done' /\ ~InHand(queue[r].jobs[i])'
  <2>1. PICK j \in DOMAIN queue[r].jobs : queue'[r].jobs[i] = queue[r].jobs[j]
    BY <1>6
  <2>2. queue'[r].jobs[i] \in sent \ done /\ ~InHand(queue'[r].jobs[i]) /\ queue'[r].jobs[i] # m
    BY <1>7, <2>1 DEF Places
  <2> QED BY <1>1, <1>10, <1>11, <2>2
<1>14. ASSUME NEW r \in Queues, NEW t \in Queues, NEW i \in DOMAIN queue'[r].jobs, NEW j \in DOMAIN queue'[t].jobs,
              queue'[r].jobs[i] = queue'[t].jobs[j]
       PROVE  r = t /\ i = j
  <2>1. PICK k \in DOMAIN queue[r].jobs :
          queue'[r].jobs[i] = queue[r].jobs[k] /\ (r # q => k = i) /\ (r = q => k = i + 1)
    BY <1>6
  <2>2. PICK l \in DOMAIN queue[t].jobs :
          queue'[t].jobs[j] = queue[t].jobs[l] /\ (t # q => l = j) /\ (t = q => l = j + 1)
    BY <1>6
  <2>3. r = t /\ k = l
    <3>1. queue[r].jobs[k] = queue[t].jobs[l] => r = t /\ k = l
      BY DEF Places
    <3> QED BY <1>14, <2>1, <2>2, <3>1
  <2>4. r = q => i \in Int /\ j \in Int
    BY <1>2, <1>3, <2>3
  <2> QED BY <2>1, <2>2, <2>3, <2>4
<1>15. /\ \A r \in Queues, y \in Workers : hand'[r][y] \in Messages => hand'[r][y] \in sent' \ done'
       /\ \A r, t \in Queues, y, z \in Workers :
             hand'[r][y] \in Messages /\ hand'[r][y] = hand'[t][z] => r = t /\ y = z
  BY <1>1, <1>4, <1>5 DEF Places, InHand
<1> QED BY <1>1, <1>9, <1>12, <1>13, <1>14, <1>15 DEF Places

\* A worker is done with its message, or exits.
LEMMA PlacesWork ==
    ASSUME Control, Lines, Places, NEW q \in Queues, NEW w \in Workers, Embed(q, w) \/ ExitWorker(q, w) PROVE Places'
<1>1. /\ UNCHANGED <<plan, up, prod, stored, sent, queue>>
      /\ \E v \in {0, Exited} : hand' = [hand EXCEPT ![q][w] = v]
  BY DEF Embed, ExitWorker, holder, asks, feed, Exited
<1>2. 0 \notin Messages /\ Exited \notin Messages
  BY HolderAssumption DEF Messages, Exited
<1>3. /\ hand'[q][w] \notin Messages
      /\ \A r \in Queues, y \in Workers : r # q \/ y # w => hand'[r][y] = hand[r][y]
  <2>1. PICK v \in {0, Exited} : hand' = [hand EXCEPT ![q][w] = v]
    BY <1>1
  <2>2. \A r \in Queues, y \in Workers : hand'[r][y] = IF r = q /\ y = w THEN v ELSE hand[r][y]
    BY <2>1 DEF Lines
  <2> QED BY <1>2, <2>2
<1>4. \/ hand[q][w] \in Messages /\ done' = done \cup {hand[q][w]}
      \/ hand[q][w] \notin Messages /\ done' = done
  <2>1. CASE Embed(q, w)
    BY <2>1 DEF Embed, Lines, Exited
  <2>2. CASE ExitWorker(q, w)
    BY <1>2, <2>2 DEF ExitWorker
  <2> QED BY <2>1, <2>2
<1>5. \A k \in Messages : InHand(k)' <=> InHand(k) /\ k # hand[q][w]
  <2> SUFFICES ASSUME NEW k \in Messages PROVE InHand(k)' <=> InHand(k) /\ k # hand[q][w]
    OBVIOUS
  <2>1. ASSUME InHand(k)' PROVE InHand(k) /\ k # hand[q][w]
    <3>1. PICK r \in Queues, y \in Workers : hand'[r][y] = k
      BY <2>1 DEF InHand
    <3>2. r # q \/ y # w
      BY <1>3, <3>1
    <3> QED BY <1>3, <3>1, <3>2 DEF InHand, Places
  <2>2. ASSUME InHand(k), k # hand[q][w] PROVE InHand(k)'
    BY <1>3, <2>2 DEF InHand
  <2> QED BY <2>1, <2>2
<1>6. sent \subseteq Messages
  BY HolderAssumption DEF Places, Control, Messages
<1>7. \A k : Waiting(k)' <=> Waiting(k)
  BY <1>1 DEF Waiting
<1>8. \A r \in Producers : prod'[r].pc = "send" => prod'[r].q \in Queues /\ Working(prod[r].q)'
  BY <1>1 DEF Places, Working
<1>9. \A k \in sent : Waiting(k)' \/ InHand(k)' \/ k \in done'
  BY <1>4, <1>5, <1>6, <1>7 DEF Places
<1>10. ASSUME NEW r \in Queues, NEW i \in DOMAIN queue[r].jobs
       PROVE  queue'[r].jobs[i] \in sent' \ done' /\ ~InHand(queue[r].jobs[i])'
  <2>1. queue[r].jobs[i] \in sent \ done /\ ~InHand(queue[r].jobs[i]) /\ queue'[r].jobs[i] = queue[r].jobs[i]
    BY <1>1 DEF Places
  <2>2. queue[r].jobs[i] # hand[q][w]
    BY <2>1 DEF InHand
  <2> QED BY <1>1, <1>4, <1>5, <1>6, <2>1, <2>2
<1>11. /\ \A r \in Queues, y \in Workers : hand'[r][y] \in Messages => hand'[r][y] \in sent' \ done'
       /\ \A r, t \in Queues, y, z \in Workers :
             hand'[r][y] \in Messages /\ hand'[r][y] = hand'[t][z] => r = t /\ y = z
  BY <1>1, <1>3, <1>4 DEF Places
<1>12. done' \subseteq sent'
  BY <1>1, <1>4 DEF Places
<1> QED BY <1>1, <1>8, <1>9, <1>10, <1>11, <1>12 DEF Places
-----------------------------------------------------------------------------
(* The invariant and the theorems.                                         *)

\* Inv holds initially.
LEMMA InitInv == Init => Inv
<1> SUFFICES ASSUME Init PROVE Inv
  OBVIOUS
<1>0. reloads = 0 /\ asked = 0 /\ plan \in Plans /\ MaxReloads \in Nat /\ Len(plan.asks) \in Nat /\ plan.messages \in Nat
  BY HolderAssumption DEF Init
<1>1. \A x \in Reloaders : reload[x] = Resting
  BY DEF Init
<1>2. Resting \in Reload /\ Decodes(Resting.ask.set) /\ Resting.pc = "idle"
  BY DEF Resting, Reload, Asks, Pcs, Decodes, Nothing
<1>3. Control
  <2>1. Waiters = {}
    BY <1>1, <1>2 DEF Waiters
  <2>2. IsFiniteSet({}) /\ Cardinality({}) = 0
    BY FS_EmptySet
  <2>3. \A x \in Reloaders : lock # x
    BY HolderAssumption DEF Init
  <2>4. reload \in [Reloaders -> Reload]
    BY <1>2 DEF Init
  <2>5. IsFiniteSet(Waiters) /\ reloads + Cardinality(Waiters) <= asked
    BY <1>0, <2>1, <2>2
  <2> QED BY <1>0, <1>1, <1>2, <2>3, <2>4, <2>5 DEF Init, Control
<1>4. Texts
  <2>1. cfg = 1 /\ file = Absent /\ acked = {} /\ Numbers = {1} /\ 1 \in Versions /\ Absent \notin Versions
    BY <1>0, HolderAssumption DEF Init, Numbers, Versions
  <2>2. /\ DOMAIN settings = Versions /\ DOMAIN written = Versions
        /\ \A v \in Versions : written[v] \in [Keyed -> 0 .. reloads + 1] /\ \A b \in Keyed : written[v][b] = 0
    BY <1>0 DEF Init, Keyed
  <2>3. settings[1]["engine"]["loss_ratio"] = 0
    BY <2>1 DEF Init, defaultSettings, DefaultConfig, Blocks
  <2>4. Sound(1)
    BY <2>1, <2>2, <2>3 DEF Sound, Kept, StanceKept, Stance, BlockKept, Keyed
  <2> QED BY <1>0, <1>1, <1>2, <2>1, <2>2, <2>4 DEF Texts
<1>5. Match
  BY <1>0, <1>1, <1>2 DEF Init, Match, Matched, Numbers
<1>6. 1 \in Queues /\ First(1) \in {0, 1} /\ (Exited = 0) = FALSE
  BY HolderAssumption DEF Queues, Versions, First, Exited
<1>7. \A q \in Queues : queue[q] = NewQueue(IF q = embeds THEN 1 ELSE 0)
  BY DEF Init, Fresh
<1>8. \A v : NewQueue(v).ver = v /\ NewQueue(v).jobs = << >>
  BY DEF NewQueue
<1>9. \A q \in Queues, w \in Workers : hand[q][w] = 0
  BY DEF Init, Empty
<1>10. Lines
  <2>1. queue \in [Queues -> [ver: Nat, jobs: Seq(Messages), closed: {"no", "yes"}]]
    <3>1. \A v \in Nat : NewQueue(v) \in [ver: Nat, jobs: Seq(Messages), closed: {"no", "yes"}]
      BY DEF NewQueue
    <3> QED BY <3>1 DEF Init, Fresh
  <2>2. hand \in [Queues -> [Workers -> Messages \cup {0, Exited}]]
    BY DEF Init, Empty
  <2>3. \A q \in Queues : Working(q) <=> q = embeds
    BY <1>7, <1>8 DEF Working
  <2>4. embeds \in {0, 1} /\ subs = 1 /\ up = "up" /\ retired = {} /\ (embeds # 0 => queue[embeds].ver = 1)
    BY <1>6, <1>7, <1>8 DEF Init
  <2>5. \A q \in Queues : q > reloads + 1 \/ up # "up" => ~Working(q)
    BY <1>0, <2>3, <2>4 DEF Queues, Versions
  <2> QED BY <1>1, <1>2, <1>6, <1>7, <1>8, <1>9, <2>1, <2>2, <2>3, <2>4, <2>5 DEF Lines
<1>11. Places
  <2>1. \A q \in Queues : DOMAIN queue[q].jobs = {}
    BY <1>7, <1>8
  <2>2. \A q \in Queues, w \in Workers : hand[q][w] \notin Messages
    BY <1>9, HolderAssumption DEF Messages
  <2>3. /\ prod \in [Producers -> [pc: {"idle", "load", "send", "panicked"}, m: Nat, q: Queues \cup {0}]]
        /\ \A p \in Producers : prod[p].pc = "idle"
    BY DEF Init, Idle
  <2> QED BY <1>0, <2>1, <2>2, <2>3 DEF Init, Places
<1> QED BY <1>3, <1>4, <1>5, <1>10, <1>11 DEF Inv

\* Inv is inductive.
LEMMA StepInv == Inv /\ [Next]_vars => Inv'
<1> SUFFICES ASSUME Inv, [Next]_vars PROVE Inv'
  OBVIOUS
<1> USE DEF Inv
<1>0. cfg \in Nat
  BY DEF Texts, Numbers
<1>1. ASSUME NEW x \in Reloaders, Request(x) \/ ReloadStep(x) PROVE Inv'
  BY <1>0, <1>1, ControlRequest, ControlReload, TextsReload, MatchReload, LinesReload, PlacesReload
<1>2. CASE Crash \/ Boot \/ Bootstrap
  BY <1>2, ControlBoot, TextsBoot, MatchBoot, LinesBoot, PlacesBoot
<1>3. ASSUME UNCHANGED holder PROVE Control' /\ Texts' /\ Match'
  <2>1. UNCHANGED <<plan, asked, settings, written, cfg, file, subs, embeds, lock, reload, reloads, mutated, acked, up>>
    BY <1>3 DEF holder, asks, store
  <2>2. Texts'
    BY <2>1, TextsKept DEF Texts
  <2>3. Match'
    BY <2>1 DEF Match, Matched, Numbers
  <2> QED BY <2>1, <2>2, <2>3, ControlKept
<1>4. ASSUME UNCHANGED <<holder, pool>> PROVE Lines'
  <2>1. UNCHANGED <<embeds, subs, reload, reloads, up, queue, hand, retired>>
    BY <1>4 DEF holder, pool
  <2> QED BY <2>1, LinesPool DEF Lines
<1>5. ASSUME NEW p \in Producers, StoreMessage(p) \/ LoadQueue(p) \/ SendPanics(p) PROVE Inv'
  <2>1. UNCHANGED <<holder, pool>>
    BY <1>5 DEF StoreMessage, LoadQueue, SendPanics
  <2> QED BY <1>3, <1>4, <1>5, <2>1, PlacesInsert
<1>6. ASSUME NEW p \in Producers, Send(p) PROVE Inv'
  <2>1. UNCHANGED holder
    BY <1>6 DEF Send
  <2> QED BY <1>3, <1>6, <2>1, LinesSend, PlacesSend
<1>7. ASSUME NEW q \in Queues, NEW w \in Workers, WorkerStep(q, w) PROVE Inv'
  <2>1. UNCHANGED holder
    BY <1>7 DEF WorkerStep, TakeJob, Embed, ExitWorker
  <2>2. Places'
    BY <1>7, PlacesTake, PlacesWork DEF WorkerStep
  <2> QED BY <1>3, <1>7, <2>1, <2>2, LinesWorker
<1>8. ASSUME NEW q \in Queues, CloseQueue(q) PROVE Inv'
  <2>1. UNCHANGED <<holder, hand, feed, done>> /\ queue' = [queue EXCEPT ![q].closed = "yes"]
    BY <1>8 DEF CloseQueue
  <2>2. \A r \in Queues : queue'[r].jobs = queue[r].jobs /\ (Working(r) => Working(r)')
    BY <2>1 DEF Lines, Working
  <2>3. UNCHANGED <<plan, up>>
    BY <2>1 DEF holder, asks
  <2>4. Places'
    BY <2>1, <2>2, <2>3, PlacesKept
  <2> QED BY <1>3, <1>8, <2>1, <2>4, LinesClose
<1>9. CASE UNCHANGED vars
  <2>1. UNCHANGED <<holder, pool, feed, done>>
    BY <1>9 DEF vars
  <2>2. Places'
    <3>1. UNCHANGED <<plan, up, hand, queue>>
      BY <2>1 DEF holder, asks, pool
    <3> QED BY <2>1, <3>1, PlacesKept DEF Working
  <2> QED BY <1>3, <1>4, <2>1, <2>2
<1> QED BY <1>1, <1>2, <1>5, <1>6, <1>7, <1>8, <1>9 DEF Next

\* Inv holds in every reachable state.
LEMMA Invariant == Spec => []Inv
BY InitInv, StepInv, PTL DEF Spec

\* Over any number of reloads and restarts, a message Enqueue took is in one
\* place until it is tried, and a queue whose workers exited is empty.
THEOREM NothingLostHolds == Spec => []NothingLost
<1>1. Inv => NothingLost
  <2> SUFFICES ASSUME Inv PROVE NothingLost
    OBVIOUS
  <2>1. ASSUME NEW m \in sent
        PROVE  /\ Waiting(m) \/ InHand(m) \/ m \in done
               /\ ~(Waiting(m) /\ InHand(m)) /\ ~(m \in done /\ (Waiting(m) \/ InHand(m)))
    <3>1. Waiting(m) => ~InHand(m) /\ m \notin done
      BY DEF Inv, Places, Waiting, ToSet
    <3>2. InHand(m) => m \notin done
      <4>1. m \in Messages
        BY HolderAssumption DEF Inv, Places, Control, Messages
      <4> QED BY <4>1 DEF Inv, Places, InHand
    <3> QED BY <3>1, <3>2 DEF Inv, Places
  <2>2. ASSUME NEW q \in Queues, Gone(q) PROVE queue[q].jobs = << >>
    BY <2>2, HolderAssumption DEF Inv, Lines, Gone
  <2> QED BY <2>1, <2>2 DEF NothingLost
<1> QED BY <1>1, Invariant, PTL

\* Engine, embed queue and settings in use belong together whenever the service
\* runs and no reload holds the lock.
THEOREM ConsistentHolds == Spec => []Consistent
<1>1. Inv => Consistent
  <2> SUFFICES ASSUME Inv, up = "up", lock = Nobody
               PROVE  /\ embeds # 0 => queue[embeds].ver = subs
                      /\ \A q \in Queues \ {embeds} : Working(q) => q \in retired
                      /\ subs = cfg \/ cfg \in mutated
    BY DEF Consistent, Paired, ConfigMatches
  <2>1. ~Swapping
    BY HolderAssumption DEF Inv, Control, Swapping
  <2> QED BY <2>1 DEF Inv, Lines, Match, Matched
<1> QED BY <1>1, Invariant, PTL

\* An acknowledged update stays in force and in the file until a later one
\* replaces it, over overlapping updates, rollbacks, failed saves and restarts.
THEOREM SettingsKeptHolds == Spec => []SettingsKept
<1>1. Inv => SettingsKept
  BY DEF Inv, Texts, Sound, SettingsKept
<1> QED BY <1>1, Invariant, PTL
=============================================================================
