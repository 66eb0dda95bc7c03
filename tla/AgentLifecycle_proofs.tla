------------------------ MODULE AgentLifecycle_proofs ------------------------
(***************************************************************************)
(* Proofs about AgentLifecycle, for any number of clients, mutations,      *)
(* loops and crashes: Registry.GetOrBuild is a single flight; a paused     *)
(* loop begins at most the turn it was on its way to (PauseHolds); and     *)
(* when nothing runs the row does not say Running (NoPhantomRun, where no  *)
(* build fails).                                                           *)
(*                                                                         *)
(* LifeShape is what all of it rests on: the lists of steps of the         *)
(* mutations are well ordered, so that a runner is in hand when a step     *)
(* needs it, and loops, runners and lists agree.  PauseInv and PhantomInv  *)
(* strengthen the two properties to inductive invariants.                  *)
(***************************************************************************)
EXTENDS AgentLifecycle, SequenceTheorems, TLAPS

\* While a build closure runs nothing is registered, and one process runs it.
SingleFlight ==
    /\ building # {} => entry = 0
    /\ \A p, q \in building : p = q

-----------------------------------------------------------------------------
(* Only GetOrBuild, its two outcomes, Stop, StopAll and Crash touch the    *)
(* registry's map.                                                         *)

\* What a step may do to the entry and to the set of builders.
RegistryMove ==
    \/ UNCHANGED <<entry, building>>
    \/ entry = 0 /\ building = {} /\ entry' = entry /\ \E p : building' = {p}
    \/ \E p \in building : building' = building \ {p}
    \/ entry' = 0 /\ building' = building
    \/ entry' = 0 /\ building' = {}

\* Every step of the specification moves the registry in one of these ways.
LEMMA StepMoves == ASSUME [Next]_vars PROVE RegistryMove
<1> USE DEF RegistryMove, registry, bounds
<1>1. CASE \E c \in Clients, op \in Ops : Request(c, op)
  BY <1>1 DEF Request
<1>2. ASSUME NEW p \in Procs, RowStep(p) PROVE RegistryMove
  BY <1>2 DEF RowStep, Write, LoadState, ChatLoad
<1>3. ASSUME NEW p \in Procs, RegistryStep(p) PROVE RegistryMove
  <2>1. CASE GetOrBuild(p)
    BY <2>1 DEF GetOrBuild, TakeEntry, StartBuild
  <2>2. CASE BuildDone(p)
    BY <2>2 DEF BuildDone
  <2>3. CASE BuildFailed(p)
    BY <2>3 DEF BuildFailed
  <2>4. CASE StopGet(p)
    BY <2>4 DEF StopGet
  <2>5. CASE StopCancel(p)
    BY <2>5 DEF StopCancel
  <2>6. CASE StopDelete(p)
    BY <2>6 DEF StopDelete
  <2>7. CASE StopAll(p)
    BY <2>7 DEF StopAll
  <2>8. CASE Spawn(p)
    BY <2>8 DEF Spawn
  <2> QED BY <1>3, <2>1, <2>2, <2>3, <2>4, <2>5, <2>6, <2>7, <2>8 DEF RegistryStep
<1>4. ASSUME NEW p \in Procs, GateStep(p) PROVE RegistryMove
  BY <1>4 DEF GateStep, PauseGet, PauseGate, ResumeGet, IsActive, ResumeGate, ChatLock,
              ChatTurn, Reconcile
<1>5. ASSUME NEW g \in Loops, LoopStep(g) PROVE RegistryMove
  BY <1>5 DEF LoopStep, LoopInit, TurnStart, TurnEnd, FailPause, FailRow, Seed, Bump,
              Gate, Wake, CtxDone, TimerDone, Exit, Tick
<1>6. CASE \E r \in Runners, m \in ToolModes : TurnSetsMode(r, m)
  BY <1>6 DEF TurnSetsMode
<1>7. CASE Listen
  BY <1>7 DEF Listen
<1>8. CASE Crash
  BY <1>8 DEF Crash
<1>9. CASE UNCHANGED vars
  BY <1>9 DEF vars
<1> QED BY <1>1, <1>2, <1>3, <1>4, <1>5, <1>6, <1>7, <1>8, <1>9 DEF Next, ProcStep

\* At most one process is ever inside the build closure of a thread, and only
\* while the thread has no runner (GetOrBuild's critical section).
THEOREM SingleFlightHolds == Spec => []SingleFlight
<1>1. Init => SingleFlight
  BY DEF Init, SingleFlight
<1>2. SingleFlight /\ [Next]_vars => SingleFlight'
  <2> SUFFICES ASSUME SingleFlight, RegistryMove PROVE SingleFlight'
    BY StepMoves
  <2> QED BY DEF SingleFlight, RegistryMove
<1> QED BY <1>1, <1>2, PTL DEF Spec

\* A registered runner is deleted before another one takes its place, so no
\* runner is orphaned by a concurrent build.
THEOREM OneRegisteredHolds == Spec => OneRegistered
<1>1. SingleFlight /\ [Next]_vars => [entry # 0 /\ entry' # 0 => entry' = entry]_vars
  <2> SUFFICES ASSUME SingleFlight, RegistryMove, entry # 0, entry' # 0
               PROVE  entry' = entry
    BY StepMoves
  <2> QED BY DEF SingleFlight, RegistryMove
<1> QED BY <1>1, SingleFlightHolds, PTL DEF Spec, OneRegistered
-----------------------------------------------------------------------------
(* What a process has still to do.                                         *)

\* The steps that use the runner in hand, and those that put one there.
Needy == {"spawn", "lock", "turn", "pauseGate", "isActive", "resumeGate"}
Hands == {<<"getOrBuild", "spawn">>, <<"getOrBuild", "lock">>, <<"lock", "turn">>, <<"pauseGet", "pauseGate">>}

\* The steps that never come last, and what each is followed by.
Chained == {<<"stopGet", "stopCancel">>, <<"stopCancel", "stopDelete">>, <<"pauseGet", "pauseGate">>,
            <<"lock", "turn">>, <<"turn", "chatLoad">>, <<"chatLoad", "chatIdle">>}
Links == {"stopGet", "stopCancel", "pauseGet", "lock", "turn", "chatLoad"}

\* Step y comes right after step x in a mutation.
Follows(x, y) ==
    /\ y \in Needy => <<x, y>> \in Hands
    /\ x \in Links => <<x, y>> \in Chained
    /\ x # "chatIdle"

\* What may be left of a mutation.
Ordered(s) ==
    /\ \E S : s \in Seq(S)
    /\ \A i \in 1 .. Len(s) - 1 : Follows(s[i], s[i + 1])
    /\ s # << >> => s[Len(s)] \notin Links
    /\ \A i \in 1 .. Len(s) : s[i] \in {"beginRun", "ensureAuto"} => \E k \in i + 1 .. Len(s) : s[k] = "spawn"

\* A runner is in hand when it is needed.
Handed(j) == DOMAIN j = {"todo", "r", "budget"} /\ Ordered(j.todo) /\ (j.todo # << >> /\ Head(j.todo) \in Needy => j.r \in Runners)

\* The loops: one that has not returned has a runner and no deferred call to make.
LoopFields == {"pc", "on", "ctx", "round", "paused", "gen", "wait", "since"}
LoopShape ==
    /\ DOMAIN loop = Loops
    /\ \A g \in Loops :
          /\ DOMAIN loop[g] = LoopFields /\ loop[g].gen \in Nat
          /\ loop[g].pc # "done" => job[g].todo = << >>
          /\ loop[g].pc \in {"unused", "done"} => loop[g].on = 0
          /\ loop[g].pc \notin {"unused", "done"} => loop[g].on \in Runners

\* The runners: each autoState was made by one loop, on one runner.
RunnerFields == {"prompt", "cancel", "mu", "auto"}
RunnerShape ==
    /\ DOMAIN runner = Runners
    /\ \A r \in Runners : DOMAIN runner[r] = RunnerFields /\ runner[r].auto \in Loops \cup {0}
    /\ \A r \in Runners : runner[r].auto # 0 => loop[runner[r].auto].pc \notin {"unused", "init"}
    /\ \A r, q \in Runners : runner[r].auto # 0 /\ runner[r].auto = runner[q].auto => r = q

\* The processes, and the registry that hands them runners.
JobShape ==
    /\ DOMAIN job = Procs /\ \A p \in Procs : Handed(job[p])
    /\ entry \in Runners \cup {0} /\ built \in Nat
    /\ \A p \in building : p \in Procs /\ At(p, "getOrBuild") /\ job[p].r \in Runners

LifeShape == SingleFlight /\ JobShape /\ LoopShape /\ RunnerShape
-----------------------------------------------------------------------------
(* PauseHolds.                                                             *)

\* A loop past its start has a state to look at.
Started(g) == loop[g].pc \notin {"unused", "init", "done"} => runner[loop[g].on].auto # 0

\* Where a loop can be that began a turn since the pause: not yet at the gate
\* again, or blocked there on the state and the channel that are current.
BeforeGate == {"kickTurn", "tickTurn", "kickNone", "kickFail", "tickFail", "kickRow", "tickRow", "seed", "bump", "gate"}
Past(g) ==
    LET a == runner[loop[g].on].auto
    IN  /\ loop[a].paused = "yes"
        /\ \/ loop[g].pc \in BeforeGate
           \/ loop[g].pc = "blocked" /\ loop[g].wait = <<a, loop[a].gen>>
PauseInv == \A g \in Loops : Started(g) /\ loop[g].since \in {0, 1} /\ (loop[g].since = 1 => Past(g))
-----------------------------------------------------------------------------
(* NoPhantomRun.                                                           *)

In(t, s)  == \E i \in 1 .. Len(t) : t[i] = s
Has(p, s) == In(job[p].todo, s)

\* Who will write what follows Running: a loop that has not returned, or a process
\* that is to start one, to write Idle or to reconcile; a chat turn's process.
Dues == {"spawn", "setIdle", "reconcile"}
Owed == (\E g \in Loops : Live(g)) \/ (\E p \in Procs, s \in Dues : Has(p, s))
ChatOwed == \E p \in Procs : Has(p, "chatIdle")

\* r.mu is held by a turn in progress.
Holder(r) ==
    LET p == runner[r].mu
    IN  \/ p = Nobody
        \/ p \in Loops /\ loop[p].pc \in {"kickTurn", "tickTurn"} /\ loop[p].on = r
        \/ p \in Procs /\ At(p, "turn") /\ Mine(p) = r

\* Only a resume's steps write Running without starting a loop.
Resumes == {"resumeGet", "isActive", "resumeGate", "setRunning"}
Resuming(p) == \E s \in Resumes : Has(p, s)

Due == row.st = "running" => Owed \/ (row.mode # "autonomous" /\ ChatOwed)

RowFields == {"st", "mode", "round", "run"}
PhantomInv ==
    /\ DOMAIN row = RowFields /\ sent \in [Ops -> Nat]
    /\ \A r \in Runners : Holder(r)
    /\ NoResume => (\A p \in Procs : ~Resuming(p)) /\ Due

-----------------------------------------------------------------------------
(* Lemmas about what is left to do.                                        *)

\* What the chains say.
LEMMA Chains ==
    /\ \A z : Follows("stopGet", z) => z = "stopCancel"
    /\ \A z : Follows("stopCancel", z) => z = "stopDelete"
    /\ \A z : Follows("pauseGet", z) => z = "pauseGate"
    /\ \A z : Follows("lock", z) => z = "turn"
    /\ \A z : Follows("turn", z) => z = "chatLoad"
    /\ \A z : Follows("chatLoad", z) => z = "chatIdle"
    /\ \A z : ~Follows("chatIdle", z)
    /\ \A x, z : Follows(x, z) /\ z \in Needy => x \in {"getOrBuild", "lock", "pauseGet"}
  BY DEF Follows, Links, Chained, Needy, Hands

\* The first step of a list, and the rest.
LEMMA FirstStep ==
    ASSUME NEW s, Ordered(s), s # << >>
    PROVE  /\ Len(s) \in Nat /\ Len(s) >= 1 /\ Head(s) = s[1] /\ Len(Tail(s)) = Len(s) - 1
           /\ \A i \in 1 .. Len(s) - 1 : Tail(s)[i] = s[i + 1]
           /\ \E S : Tail(s) \in Seq(S)
           /\ Tail(s) = << >> <=> Len(s) = 1
           /\ Tail(s) # << >> => Head(Tail(s)) = s[2] /\ Follows(Head(s), Head(Tail(s)))
           /\ Head(s) \in Links => Tail(s) # << >>
  <1>1. PICK S : s \in Seq(S)  BY DEF Ordered
  <1>2. Len(s) \in Nat /\ Len(s) >= 1  BY <1>1, EmptySeq
  <1>3. Head(s) = s[1] /\ Tail(s) \in Seq(S) /\ Len(Tail(s)) = Len(s) - 1 /\ \A i \in 1 .. Len(s) - 1 : Tail(s)[i] = s[i + 1]
    BY <1>1, <1>2, HeadTailProperties
  <1>4. Tail(s) = << >> <=> Len(s) = 1  BY <1>2, <1>3, EmptySeq
  <1>5. ASSUME Tail(s) # << >>  PROVE Head(Tail(s)) = s[2] /\ Follows(Head(s), Head(Tail(s)))
    <2>1. Len(s) - 1 >= 1  BY <1>2, <1>4, <1>5
    <2>2. Head(Tail(s)) = Tail(s)[1]  BY <1>3, <1>5, HeadTailProperties
    <2>3. 1 \in 1 .. Len(s) - 1 /\ 1 + 1 = 2  BY <1>2, <2>1
    <2>4. Follows(s[1], s[1 + 1])  BY <2>3 DEF Ordered
    <2> QED BY <1>3, <2>2, <2>3, <2>4
  <1>6. Len(s) = 1 => s[1] \notin Links  BY DEF Ordered
  <1> QED BY <1>2, <1>3, <1>4, <1>5, <1>6

\* The rest is a list too.
LEMMA OrderedTail ==
    ASSUME NEW s, Ordered(s), s # << >>
    PROVE  Ordered(Tail(s))
  <1>1. /\ Len(s) \in Nat /\ Len(s) >= 1 /\ Len(Tail(s)) = Len(s) - 1
        /\ \A i \in 1 .. Len(s) - 1 : Tail(s)[i] = s[i + 1]
    BY FirstStep
  <1>0. (\E S : Tail(s) \in Seq(S)) /\ (Tail(s) = << >> <=> Len(s) = 1)  BY FirstStep
  <1>2. PICK n \in Nat : n = Len(s) - 1
    <2>1. Len(s) - 1 \in Nat  BY <1>1
    <2> QED BY <2>1
  <1>3. Len(Tail(s)) = n /\ \A i \in 1 .. n : Tail(s)[i] = s[i + 1]  BY <1>1, <1>2
  <1>4. ASSUME NEW i \in 1 .. n - 1  PROVE Follows(Tail(s)[i], Tail(s)[i + 1])
    <2>1. i \in 1 .. n /\ i + 1 \in 1 .. n /\ i + 1 \in 1 .. Len(s) - 1 /\ i + 1 + 1 = i + 2  BY <1>2
    <2>2. Follows(s[i + 1], s[i + 1 + 1])  BY <2>1 DEF Ordered
    <2> QED BY <1>3, <2>1, <2>2
  <1>5. ASSUME Tail(s) # << >>  PROVE Tail(s)[n] \notin Links
    <2>1. n \in 1 .. n /\ n + 1 = Len(s) /\ s # << >>  BY <1>0, <1>1, <1>2, <1>5
    <2> QED BY <1>3, <2>1 DEF Ordered
  <1>6. ASSUME NEW i \in 1 .. n, Tail(s)[i] \in {"beginRun", "ensureAuto"}  PROVE \E k \in i + 1 .. n : Tail(s)[k] = "spawn"
    <2>1. i + 1 \in 1 .. Len(s) /\ s[i + 1] \in {"beginRun", "ensureAuto"}  BY <1>1, <1>2, <1>3, <1>6
    <2>2. PICK k \in i + 1 + 1 .. Len(s) : s[k] = "spawn"  BY <2>1 DEF Ordered
    <2>3. k - 1 \in i + 1 .. n /\ k - 1 \in 1 .. n /\ k - 1 + 1 = k  BY <1>1, <1>2, <2>2
    <2> QED BY <1>3, <2>2, <2>3
  <1> QED BY <1>0, <1>3, <1>4, <1>5, <1>6 DEF Ordered

\* Lists of up to five steps.
Begins(x) == x \in {"beginRun", "ensureAuto"}

\* A list of one step is a list of a mutation when the step may come last.
LEMMA OneStep ==
    ASSUME NEW a, a \notin Links, ~Begins(a)
    PROVE  Ordered(<<a>>)
  <1> DEFINE s == <<a>>
  <1>1. s \in Seq({a}) /\ Len(s) = 1 /\ s[1] = a  OBVIOUS
  <1> HIDE DEF s
  <1>2. \A i \in 1 .. 1 : ~Begins(s[i])  BY <1>1
  <1>3. \A i \in 1 .. 1 - 1 : Follows(s[i], s[i + 1])  OBVIOUS
  <1> QED BY <1>1, <1>2, <1>3 DEF Ordered, Begins, s

\* A list of two steps, the second allowed after the first.
LEMMA TwoSteps ==
    ASSUME NEW a, NEW b, Follows(a, b), b \notin Links, ~Begins(a), ~Begins(b)
    PROVE  Ordered(<<a, b>>)
  <1> DEFINE s == <<a, b>>
  <1>1. s \in Seq({a, b}) /\ Len(s) = 2 /\ s[1] = a /\ s[2] = b  OBVIOUS
  <1> HIDE DEF s
  <1>2. \A i \in 1 .. 2 - 1 : Follows(s[i], s[i + 1])  BY <1>1
  <1>3. \A i \in 1 .. 2 : ~Begins(s[i])  BY <1>1
  <1> QED BY <1>1, <1>2, <1>3 DEF Ordered, Begins, s

\* A list of three steps; one that writes Running first ends in a spawn.
LEMMA ThreeSteps ==
    ASSUME NEW a, NEW b, NEW c, Follows(a, b), Follows(b, c), c \notin Links, ~Begins(b), ~Begins(c), Begins(a) => c = "spawn"
    PROVE  Ordered(<<a, b, c>>)
  <1> DEFINE s == <<a, b, c>>
  <1>1. s \in Seq({a, b, c}) /\ Len(s) = 3 /\ s[1] = a /\ s[2] = b /\ s[3] = c  OBVIOUS
  <1> HIDE DEF s
  <1>2. s # << >>  BY <1>1
  <1>3. \A i \in 1 .. 3 - 1 : Follows(s[i], s[i + 1])  BY <1>1
  <1>4. ASSUME NEW i \in 1 .. 3, Begins(s[i])  PROVE \E k \in i + 1 .. 3 : s[k] = "spawn"
    <2>1. i = 1  BY <1>1, <1>4
    <2>2. 3 \in i + 1 .. 3  BY <2>1
    <2> QED BY <1>1, <1>4, <2>1, <2>2
  <1> QED BY <1>1, <1>3, <1>4 DEF Ordered, Begins, s

\* A list of four steps.
LEMMA FourSteps ==
    ASSUME NEW a, NEW b, NEW c, NEW d, Follows(a, b), Follows(b, c), Follows(c, d), d \notin Links,
           ~Begins(a), ~Begins(b), ~Begins(c), ~Begins(d)
    PROVE  Ordered(<<a, b, c, d>>)
  <1> DEFINE s == <<a, b, c, d>>
  <1>1. s \in Seq({a, b, c, d}) /\ Len(s) = 4 /\ s[1] = a /\ s[2] = b /\ s[3] = c /\ s[4] = d  OBVIOUS
  <1> HIDE DEF s
  <1>2. \A i \in 1 .. 4 - 1 : Follows(s[i], s[i + 1])  BY <1>1
  <1>3. \A i \in 1 .. 4 : ~Begins(s[i])  BY <1>1
  <1> QED BY <1>1, <1>2, <1>3 DEF Ordered, Begins, s

\* A list of five steps.
LEMMA FiveSteps ==
    ASSUME NEW a, NEW b, NEW c, NEW d, NEW e, Follows(a, b), Follows(b, c), Follows(c, d), Follows(d, e), e \notin Links,
           ~Begins(a), ~Begins(b), ~Begins(c), ~Begins(d), ~Begins(e)
    PROVE  Ordered(<<a, b, c, d, e>>)
  <1> DEFINE s == <<a, b, c, d, e>>
  <1>1. s \in Seq({a, b, c, d, e}) /\ Len(s) = 5 /\ s[1] = a /\ s[2] = b /\ s[3] = c /\ s[4] = d /\ s[5] = e  OBVIOUS
  <1> HIDE DEF s
  <1>2. \A i \in 1 .. 5 - 1 : Follows(s[i], s[i + 1])  BY <1>1
  <1>3. \A i \in 1 .. 5 : ~Begins(s[i])  BY <1>1
  <1> QED BY <1>1, <1>2, <1>3 DEF Ordered, Begins, s

\* A list put together from two, by its elements.
LEMMA Joined ==
    ASSUME NEW s, NEW t, NEW u, NEW S, s \in Seq(S), t \in Seq(S), u \in Seq(S), Len(u) = Len(s) + Len(t),
           \A i \in 1 .. Len(u) : u[i] = IF i <= Len(s) THEN s[i] ELSE t[i - Len(s)]
    PROVE  s \o t = u
  <1> DEFINE v == s \o t
  <1>1. v \in Seq(S) /\ Len(v) = Len(u) /\ \A i \in 1 .. Len(u) : v[i] = u[i]  BY ConcatProperties
  <1> HIDE DEF v
  <1>2. v = u  BY <1>1, SeqEqual
  <1> QED BY <1>2 DEF v

\* The lists of the model, written out.
LEMMA Lists ==
    /\ StopAgent = <<"stopGet", "stopCancel", "stopDelete", "ensureIdle">>
    /\ EnterPlanMode = <<"ensurePlan", "stopGet", "stopCancel", "stopDelete", "getOrBuild">>
    /\ Deferred = <<"setIdle", "stopGet", "stopCancel", "stopDelete">>
  <1> DEFINE S == {"stopGet", "stopCancel", "stopDelete", "ensureIdle", "ensurePlan", "getOrBuild", "setIdle"}
  <1>1. <<"stopGet", "stopCancel", "stopDelete">> \o <<"ensureIdle">> = <<"stopGet", "stopCancel", "stopDelete", "ensureIdle">>
    <2> DEFINE s == <<"stopGet", "stopCancel", "stopDelete">>
               t == <<"ensureIdle">>
               u == <<"stopGet", "stopCancel", "stopDelete", "ensureIdle">>
    <2>1. s \in Seq(S) /\ t \in Seq(S) /\ u \in Seq(S) /\ Len(s) = 3 /\ Len(t) = 1 /\ Len(u) = 4  OBVIOUS
    <2>2. /\ u[1] = s[1] /\ u[2] = s[2] /\ u[3] = s[3] /\ u[4] = t[1]  OBVIOUS
    <2> HIDE DEF s, t, u, S
    <2>3. Len(u) = Len(s) + Len(t) /\ \A i \in 1 .. Len(u) : u[i] = IF i <= Len(s) THEN s[i] ELSE t[i - Len(s)]  BY <2>1, <2>2
    <2>4. s \o t = u  BY <2>1, <2>3, Joined
    <2> QED BY <2>4 DEF s, t, u
  <1>2. <<"ensurePlan">> \o <<"stopGet", "stopCancel", "stopDelete">> \o <<"getOrBuild">>
        = <<"ensurePlan", "stopGet", "stopCancel", "stopDelete", "getOrBuild">>
    <2> DEFINE s == <<"ensurePlan">>
               t == <<"stopGet", "stopCancel", "stopDelete">>
               u == <<"ensurePlan", "stopGet", "stopCancel", "stopDelete">>
               v == <<"getOrBuild">>
               w == <<"ensurePlan", "stopGet", "stopCancel", "stopDelete", "getOrBuild">>
    <2>1. /\ s \in Seq(S) /\ t \in Seq(S) /\ u \in Seq(S) /\ v \in Seq(S) /\ w \in Seq(S)
          /\ Len(s) = 1 /\ Len(t) = 3 /\ Len(u) = 4 /\ Len(v) = 1 /\ Len(w) = 5
      OBVIOUS
    <2>2. /\ u[1] = s[1] /\ u[2] = t[1] /\ u[3] = t[2] /\ u[4] = t[3]
          /\ w[1] = u[1] /\ w[2] = u[2] /\ w[3] = u[3] /\ w[4] = u[4] /\ w[5] = v[1]
      OBVIOUS
    <2> HIDE DEF s, t, u, v, w, S
    <2>3. Len(u) = Len(s) + Len(t) /\ \A i \in 1 .. Len(u) : u[i] = IF i <= Len(s) THEN s[i] ELSE t[i - Len(s)]  BY <2>1, <2>2
    <2>4. s \o t = u  BY <2>1, <2>3, Joined
    <2>5. Len(w) = Len(u) + Len(v) /\ \A i \in 1 .. Len(w) : w[i] = IF i <= Len(u) THEN u[i] ELSE v[i - Len(u)]  BY <2>1, <2>2
    <2>6. u \o v = w  BY <2>1, <2>5, Joined
    <2> QED BY <2>4, <2>6 DEF s, t, u, v, w
  <1>3. <<"setIdle">> \o <<"stopGet", "stopCancel", "stopDelete">> = <<"setIdle", "stopGet", "stopCancel", "stopDelete">>
    <2> DEFINE s == <<"setIdle">>
               t == <<"stopGet", "stopCancel", "stopDelete">>
               u == <<"setIdle", "stopGet", "stopCancel", "stopDelete">>
    <2>1. s \in Seq(S) /\ t \in Seq(S) /\ u \in Seq(S) /\ Len(s) = 1 /\ Len(t) = 3 /\ Len(u) = 4  OBVIOUS
    <2>2. /\ u[1] = s[1] /\ u[2] = t[1] /\ u[3] = t[2] /\ u[4] = t[3]  OBVIOUS
    <2> HIDE DEF s, t, u, S
    <2>3. Len(u) = Len(s) + Len(t) /\ \A i \in 1 .. Len(u) : u[i] = IF i <= Len(s) THEN s[i] ELSE t[i - Len(s)]  BY <2>1, <2>2
    <2>4. s \o t = u  BY <2>1, <2>3, Joined
    <2> QED BY <2>4 DEF s, t, u
  <1> QED BY <1>1, <1>2, <1>3 DEF stopRunner, StopAgent, EnterPlanMode, Deferred

\* Which steps may follow which.
LEMMA MayFollow ==
    /\ Follows("stopGet", "stopCancel") /\ Follows("stopCancel", "stopDelete") /\ Follows("stopDelete", "ensureIdle")
    /\ Follows("pauseGet", "pauseGate") /\ Follows("pauseGate", "loadState") /\ Follows("loadState", "setPaused")
    /\ Follows("loadState", "resumeGet") /\ Follows("loadState", "getOrBuild") /\ Follows("getOrBuild", "resumeGet")
    /\ Follows("beginRun", "getOrBuild") /\ Follows("getOrBuild", "spawn") /\ Follows("ensurePlan", "stopGet")
    /\ Follows("stopDelete", "getOrBuild") /\ Follows("ensureAuto", "getOrBuild") /\ Follows("getOrBuild", "lock")
    /\ Follows("lock", "turn") /\ Follows("turn", "chatLoad") /\ Follows("chatLoad", "chatIdle")
    /\ Follows("setIdle", "stopGet") /\ Follows("spawn", "setRunning") /\ Follows("resumeGate", "setRunning")
  BY DEF Follows, Links, Chained, Needy, Hands

\* A list that begins without a runner in hand.
Fresh(s) == Ordered(s) /\ s # << >> /\ Head(s) \notin Needy

\* Every mutation, the deferred calls and the boot are such lists; so is what a
\* resume goes on with, but for the two steps that follow isActive.
LEMMA Scripts ==
    /\ \A op \in MutationNames : Fresh(Script[op])
    /\ Fresh(Deferred) /\ Fresh(ReconcileOnBoot) /\ Fresh(<<"setIdle">>) /\ Fresh(<<"getOrBuild", "spawn">>)
    /\ Fresh(<<"getOrBuild", "spawn", "setRunning">>) /\ Fresh(<<"setRunning">>)
    /\ Ordered(<<"isActive">>) /\ Ordered(<<"resumeGate", "setRunning">>) /\ Ordered(<< >>)
  <1> USE MayFollow
  <1>0. \A x \in {"stopDelete", "ensureIdle", "setPaused", "resumeGet", "spawn", "getOrBuild", "chatIdle", "stopAll",
                  "setRunning", "setIdle", "reconcile", "isActive"} : x \notin Links
    BY DEF Links
  <1>1. \A x \in {"stopDelete", "ensureIdle", "setPaused", "resumeGet", "spawn", "getOrBuild", "chatIdle", "stopAll",
                  "setRunning", "setIdle", "reconcile", "isActive", "stopGet", "stopCancel", "pauseGet", "pauseGate",
                  "loadState", "ensurePlan", "lock", "turn", "chatLoad", "resumeGate"} : ~Begins(x)
    BY DEF Begins
  <1>2. Ordered(StopAgent) /\ Ordered(Deferred)  BY <1>0, <1>1, FourSteps, Lists
  <1>3. Ordered(EnterPlanMode) /\ Ordered(RejectPlan)  BY <1>0, <1>1, FiveSteps, Lists DEF EnterPlanMode, RejectPlan
  <1>4. Ordered(PauseAgent)  BY <1>0, <1>1, FourSteps DEF PauseAgent
  <1>5. Ordered(ResumeAgent)  BY <1>0, <1>1, TwoSteps DEF ResumeAgent
  <1>6. Ordered(ResumeCorrected)  BY <1>0, <1>1, ThreeSteps DEF ResumeCorrected
  <1>7. Ordered(StartAutonomous) /\ Ordered(ApproveAuto)  BY <1>0, <1>1, ThreeSteps DEF StartAutonomous, ApproveAuto
  <1>8. Ordered(SendMessage)  BY <1>0, <1>1, FiveSteps DEF SendMessage
  <1>9. Ordered(UpdateThread)  BY <1>0, <1>1, ThreeSteps DEF UpdateThread, stopRunner
  <1>10. Ordered(ApproveManual) /\ Ordered(Reload) /\ Ordered(ReconcileOnBoot) /\ Ordered(<<"setIdle">>)
         /\ Ordered(<<"setRunning">>) /\ Ordered(<<"isActive">>)
    BY <1>0, <1>1, OneStep DEF ApproveManual, Reload, ReconcileOnBoot
  <1>11. Ordered(<<"getOrBuild", "spawn">>) /\ Ordered(<<"resumeGate", "setRunning">>)  BY <1>0, <1>1, TwoSteps
  <1>12. Ordered(<<"getOrBuild", "spawn", "setRunning">>)  BY <1>0, <1>1, ThreeSteps
  <1>13. Ordered(<< >>)  BY DEF Ordered
  <1>14. \A op \in MutationNames : Script[op] \in
           {StartAutonomous, StopAgent, PauseAgent, ResumeAgent, ResumeCorrected, EnterPlanMode, RejectPlan,
            ApproveAuto, ApproveManual, SendMessage, UpdateThread, Reload}
    BY DEF Script, MutationNames
  <1>15. \A x \in {"stopGet", "ensurePlan", "setIdle", "pauseGet", "loadState", "beginRun", "ensureAuto", "getOrBuild",
                   "ensureIdle", "stopAll", "reconcile", "setRunning"} : x \notin Needy
    BY DEF Needy
  <1>16. Fresh(StopAgent) /\ Fresh(Deferred) /\ Fresh(EnterPlanMode)  BY <1>2, <1>3, <1>15, Lists DEF Fresh
  <1>17. Fresh(RejectPlan)  BY <1>16 DEF RejectPlan, EnterPlanMode
  <1>18. Fresh(PauseAgent) /\ Fresh(ResumeAgent) /\ Fresh(ResumeCorrected)
    BY <1>4, <1>5, <1>6, <1>15 DEF Fresh, PauseAgent, ResumeAgent, ResumeCorrected
  <1>19. Fresh(StartAutonomous) /\ Fresh(ApproveAuto)  BY <1>7, <1>15 DEF Fresh, StartAutonomous, ApproveAuto
  <1>20. Fresh(SendMessage) /\ Fresh(UpdateThread)  BY <1>8, <1>9, <1>15 DEF Fresh, SendMessage, UpdateThread, stopRunner
  <1>21. Fresh(ApproveManual) /\ Fresh(Reload) /\ Fresh(ReconcileOnBoot) /\ Fresh(<<"setIdle">>) /\ Fresh(<<"setRunning">>)
    BY <1>10, <1>15 DEF Fresh, ApproveManual, Reload, ReconcileOnBoot
  <1>22. Fresh(<<"getOrBuild", "spawn">>) /\ Fresh(<<"getOrBuild", "spawn", "setRunning">>)  BY <1>11, <1>12, <1>15 DEF Fresh
  <1> QED BY <1>10, <1>11, <1>13, <1>14, <1>16, <1>17, <1>18, <1>19, <1>20, <1>21, <1>22

\* The skip of Stop when nothing is registered.
LEMMA StopSkips ==
    ASSUME NEW s, Ordered(s), s # << >>, Head(s) = "stopGet"
    PROVE  LET u == SubSeq(s, 4, Len(s)) IN
           /\ Ordered(u) /\ (u # << >> => Head(u) \notin Needy) /\ Len(s) >= 3
           /\ s[1] = "stopGet" /\ s[2] = "stopCancel" /\ s[3] = "stopDelete"
           /\ u = Tail(Tail(Tail(s)))
  <1>1. Tail(s) # << >> /\ Head(Tail(s)) = "stopCancel" /\ Ordered(Tail(s)) /\ Head(s) = s[1] /\ s[2] = Head(Tail(s))
    BY FirstStep, OrderedTail, Chains DEF Links
  <1>2. PICK t : t = Tail(s)  OBVIOUS
  <1>3. Ordered(t) /\ t # << >> /\ Head(t) = "stopCancel"  BY <1>1, <1>2
  <1>4. Tail(t) # << >> /\ Head(Tail(t)) = "stopDelete" /\ Ordered(Tail(t)) /\ t[2] = Head(Tail(t))
    BY <1>3, FirstStep, OrderedTail, Chains DEF Links
  <1>5. PICK v : v = Tail(t)  OBVIOUS
  <1>6. Ordered(v) /\ v # << >> /\ Head(v) = "stopDelete"  BY <1>4, <1>5
  <1>7. Ordered(Tail(v)) /\ (Tail(v) # << >> => Follows("stopDelete", Head(Tail(v))))  BY <1>6, FirstStep, OrderedTail
  <1>8. Tail(v) # << >> => Head(Tail(v)) \notin Needy  BY <1>7, Chains
  <1>9. PICK S : s \in Seq(S)  BY DEF Ordered
  <1>10. Len(s) \in Nat /\ Len(s) - 1 = Len(t) /\ Len(t) - 1 = Len(v) /\ Len(v) >= 1 /\ Len(t) >= 1 /\ Len(s) >= 1
    BY <1>2, <1>3, <1>5, <1>6, FirstStep
  <1>11. Len(s) >= 3 /\ Len(t) \in Nat  BY <1>10
  <1>12. t = SubSeq(s, 2, Len(s))  BY <1>2, <1>9, TailIsSubSeq
  <1>13. v = SubSeq(s, 3, Len(s))
    <2>1. 2 \in 1 .. Len(s) /\ Len(s) \in 2 .. Len(s)  BY <1>10, <1>11
    <2>2. Tail(SubSeq(s, 2, Len(s))) = SubSeq(s, 2 + 1, Len(s))  BY <1>9, <2>1, HeadTailOfSubSeq
    <2> QED BY <1>5, <1>12, <2>2
  <1>14. Tail(v) = SubSeq(s, 4, Len(s))
    <2>1. 3 \in 1 .. Len(s) /\ Len(s) \in 3 .. Len(s)  BY <1>10, <1>11
    <2>2. Tail(SubSeq(s, 3, Len(s))) = SubSeq(s, 3 + 1, Len(s))  BY <1>9, <2>1, HeadTailOfSubSeq
    <2> QED BY <1>13, <2>2
  <1>15. t[2] = s[3]
    <2>1. 2 \in 1 .. Len(s) - 1 /\ 2 + 1 = 3  BY <1>10, <1>11
    <2>2. t[2] = s[2 + 1]  BY <2>1, <1>2, FirstStep
    <2> QED BY <2>1, <2>2
  <1> QED BY <1>1, <1>2, <1>4, <1>5, <1>7, <1>8, <1>11, <1>14, <1>15

\* What a step leaves a process with.
Fields(j) == DOMAIN j = {"todo", "r", "budget"}

\* A process left with a list has a runner in hand when the list begins with a step
\* that needs one.
LEMMA LeftHanded ==
    ASSUME NEW j, Fields(j), NEW s, Ordered(s), s # << >> /\ Head(s) \in Needy => j.r \in Runners
    PROVE  Handed(Left(j, s))
  <1>1. Handed(Idle)  BY Scripts DEF Handed, Idle
  <1>2. [j EXCEPT !.todo = s].todo = s /\ [j EXCEPT !.todo = s].r = j.r /\ DOMAIN [j EXCEPT !.todo = s] = {"todo", "r", "budget"}
    BY DEF Fields
  <1>3. PICK k : k = [j EXCEPT !.todo = s]  OBVIOUS
  <1>4. Handed(k)  BY <1>2, <1>3 DEF Handed
  <1> QED BY <1>1, <1>3, <1>4 DEF Left

\* Going on with the rest: only getOrBuild and pauseGet must have found a runner.
LEMMA AdvanceHanded ==
    ASSUME NEW j, Handed(j), j.todo # << >>, Head(j.todo) \notin {"getOrBuild", "pauseGet"} \/ j.r \in Runners
    PROVE  Handed(Left(j, Tail(j.todo)))
  <1>1. PICK s : s = j.todo  OBVIOUS
  <1>2. Ordered(s) /\ s # << >>  BY <1>1 DEF Handed
  <1>3. Ordered(Tail(s)) /\ (Tail(s) # << >> => Follows(Head(s), Head(Tail(s))))  BY <1>2, OrderedTail, FirstStep
  <1>4. ASSUME Tail(s) # << >>, Head(Tail(s)) \in Needy  PROVE j.r \in Runners
    <2>1. Head(s) \in {"getOrBuild", "lock", "pauseGet"}  BY <1>3, <1>4, Chains
    <2> QED BY <1>1, <2>1 DEF Handed, Needy
  <1> QED BY <1>1, <1>3, <1>4, LeftHanded DEF Fields, Handed

\* Going on with a list that begins without a runner.
LEMMA FreshHanded ==
    ASSUME NEW j, Fields(j), NEW s, Fresh(s) \/ s = << >>
    PROVE  Handed(Left(j, s))
  BY LeftHanded, Scripts DEF Fresh

\* Going on with a registered or a new runner.
LEMMA TakeHanded ==
    ASSUME NEW j, Handed(j), j.todo # << >>, NEW r \in Runners
    PROVE  Handed(Left([j EXCEPT !.r = r], Tail(j.todo))) /\ Handed(Left([j EXCEPT !.r = r], j.todo))
  <1>1. PICK k : k = [j EXCEPT !.r = r]  OBVIOUS
  <1>2. k.r \in Runners /\ Fields(k)  BY <1>1 DEF Handed, Fields
  <1>3. PICK s : s = j.todo  OBVIOUS
  <1>4. Ordered(s) /\ Ordered(Tail(s))  BY <1>3, OrderedTail DEF Handed
  <1> QED BY <1>1, <1>2, <1>3, <1>4, LeftHanded

\* What a step of one process does to the jobs.
Job(p) == job' = job \/ \E j : Handed(j) /\ job' = [job EXCEPT ![p] = j]

\* Going on with the rest, with another list, or with a runner.
LEMMA AdvanceJob ==
    ASSUME JobShape, NEW p \in Procs, job[p].todo # << >>, Advance(p),
           Head(job[p].todo) \notin {"getOrBuild", "pauseGet"} \/ job[p].r \in Runners
    PROVE  Job(p)
  <1>1. Handed(job[p])  BY DEF JobShape
  <1>2. Handed(Left(job[p], Tail(job[p].todo)))  BY <1>1, AdvanceHanded
  <1> QED BY <1>2 DEF Job, Advance, Then

\* A step that goes on with a fresh list.
LEMMA ThenJob ==
    ASSUME JobShape, NEW p \in Procs, NEW s, Then(p, s), Fresh(s) \/ s = << >>
    PROVE  Job(p)
  <1>1. Fields(job[p])  BY DEF JobShape, Handed, Fields
  <1>2. Handed(Left(job[p], s))  BY <1>1, FreshHanded
  <1> QED BY <1>2 DEF Job, Then

\* A step that takes a runner.
LEMMA TakeJob ==
    ASSUME JobShape, NEW p \in Procs, job[p].todo # << >>, NEW r \in Runners,
           Take(p, r, Tail(job[p].todo)) \/ Take(p, r, job[p].todo)
    PROVE  Job(p)
  <1>1. Handed(job[p])  BY DEF JobShape
  <1>2. /\ Handed(Left([job[p] EXCEPT !.r = r], Tail(job[p].todo)))
        /\ Handed(Left([job[p] EXCEPT !.r = r], job[p].todo))
    BY <1>1, TakeHanded
  <1> QED BY <1>2 DEF Job, Take

\* The steps on the row.
LEMMA RowJob ==
    ASSUME JobShape, NEW p \in Procs, RowStep(p)
    PROVE  Job(p)
  <1>0. Handed(job[p])  BY DEF JobShape
  <1>1. ASSUME NEW s, NEW new, Write(p, s, new), s \notin {"getOrBuild", "pauseGet"}  PROVE Job(p)
    BY <1>1, AdvanceJob DEF Write, At
  <1>2. CASE LoadState(p)
    <2>1. PICK b : job' = [job EXCEPT ![p] = Left([@ EXCEPT !.budget = b], IF row.st = "none" THEN << >> ELSE Tail(job[p].todo))]
      BY <1>2 DEF LoadState
    <2>2. PICK k : k = [job[p] EXCEPT !.budget = b]  OBVIOUS
    <2>3. Fields(k) /\ k.todo = job[p].todo /\ k.r = job[p].r  BY <1>0, <2>2 DEF Handed, Fields
    <2>4. Handed(k)  BY <1>0, <2>3 DEF Handed, Fields
    <2>5. job[p].todo # << >> /\ Head(job[p].todo) = "loadState"  BY <1>2 DEF LoadState, At
    <2>6. Handed(Left(k, Tail(job[p].todo)))  BY <2>3, <2>4, <2>5, AdvanceHanded
    <2>7. Handed(Left(k, << >>))  BY <2>3, FreshHanded
    <2>8. job' = [job EXCEPT ![p] = Left(k, IF row.st = "none" THEN << >> ELSE Tail(job[p].todo))]  BY <2>1, <2>2
    <2> QED BY <2>6, <2>7, <2>8 DEF Job
  <1>3. CASE ChatLoad(p)
    <2>1. Then(p, << >>) \/ Advance(p)  BY <1>3 DEF ChatLoad, Advance
    <2>2. job[p].todo # << >> /\ Head(job[p].todo) = "chatLoad"  BY <1>3 DEF ChatLoad, At
    <2> QED BY <2>1, <2>2, ThenJob, AdvanceJob
  <1>4. CASE Write(p, "setIdle", Narrow("idle", "normal"))  BY <1>1, <1>4
  <1>5. CASE Write(p, "setPaused", Narrow("paused", row.mode))  BY <1>1, <1>5
  <1>6. CASE Write(p, "setRunning", Narrow("running", row.mode))  BY <1>1, <1>6
  <1>7. CASE Write(p, "chatIdle", Narrow("idle", row.mode))  BY <1>1, <1>7
  <1>8. CASE Write(p, "ensureIdle", Ensure("idle", "normal"))  BY <1>1, <1>8
  <1>9. CASE Write(p, "ensurePlan", Ensure("idle", "plan"))  BY <1>1, <1>9
  <1>10. CASE Write(p, "ensureAuto", Ensure("running", "autonomous"))  BY <1>1, <1>10
  <1>11. CASE Write(p, "beginRun", Row("running", "autonomous", 0, row.run + 1))  BY <1>1, <1>11
  <1> QED BY <1>2, <1>3, <1>4, <1>5, <1>6, <1>7, <1>8, <1>9, <1>10, <1>11 DEF RowStep

\* The steps of the registry.
LEMMA RegistryJob ==
    ASSUME LifeShape, NEW p \in Procs, RegistryStep(p), ~BuildFailed(p)
    PROVE  Job(p)
  <1>0. JobShape /\ Handed(job[p]) /\ entry \in Runners \cup {0}  BY DEF LifeShape, JobShape
  <1>1. CASE GetOrBuild(p)
    <2>1. job[p].todo # << >>  BY <1>1 DEF GetOrBuild, At
    <2>2. CASE TakeEntry(p)  BY <1>0, <2>1, <2>2, TakeJob DEF TakeEntry
    <2>3. CASE StartBuild(p)
      <3>1. built + 1 \in Runners  BY <2>3, LifecycleAssumption DEF StartBuild, Runners, LifeShape, JobShape
      <3> QED BY <1>0, <2>1, <2>3, <3>1, TakeJob DEF StartBuild
    <2>4. CASE job' = job  BY <2>4 DEF Job
    <2> QED BY <1>1, <2>2, <2>3, <2>4 DEF GetOrBuild
  <1>2. CASE BuildDone(p)
    <2>1. job[p].r \in Runners /\ job[p].todo # << >>  BY <1>0, <1>2 DEF BuildDone, JobShape, At
    <2> QED BY <1>0, <1>2, <2>1, AdvanceJob DEF BuildDone
  <1>3. CASE StopGet(p)
    <2>1. job[p].todo # << >> /\ Head(job[p].todo) = "stopGet"  BY <1>3 DEF StopGet, At
    <2>2. CASE entry = 0
      <3>1. PICK s : s = SubSeq(job[p].todo, 4, Len(job[p].todo))  OBVIOUS
      <3>2. Ordered(s) /\ (s # << >> => Head(s) \notin Needy)  BY <1>0, <2>1, <3>1, StopSkips DEF Handed
      <3>3. Fresh(s) \/ s = << >>  BY <3>2 DEF Fresh
      <3>4. Then(p, s)  BY <1>3, <2>2, <3>1 DEF StopGet
      <3> QED BY <1>0, <3>3, <3>4, ThenJob
    <2>3. CASE entry # 0
      <3>1. Take(p, entry, Tail(job[p].todo)) /\ entry \in Runners  BY <1>0, <1>3, <2>3 DEF StopGet
      <3> QED BY <1>0, <2>1, <3>1, TakeJob
    <2> QED BY <2>2, <2>3
  <1>4. ASSUME StopCancel(p) \/ StopDelete(p) \/ StopAll(p) \/ Spawn(p)  PROVE Job(p)
    <2>1. Advance(p) /\ job[p].todo # << >> /\ Head(job[p].todo) \in {"stopCancel", "stopDelete", "stopAll", "spawn"}
      BY <1>4 DEF StopCancel, StopDelete, StopAll, Spawn, At
    <2> QED BY <1>0, <2>1, AdvanceJob
  <1> QED BY <1>1, <1>2, <1>3, <1>4 DEF RegistryStep

\* The steps of pause, resume, chat turns and the boot.
LEMMA GateJob ==
    ASSUME JobShape, NEW p \in Procs, GateStep(p)
    PROVE  Job(p)
  <1>0. Handed(job[p]) /\ entry \in Runners \cup {0}  BY DEF JobShape
  <1>1. CASE PauseGet(p)
    <2>1. job[p].todo # << >> /\ Head(job[p].todo) = "pauseGet"  BY <1>1 DEF PauseGet, At
    <2>2. PICK s : s = job[p].todo  OBVIOUS
    <2>3. CASE entry = 0
      <3>1. Ordered(s) /\ s # << >> /\ Head(s) = "pauseGet"  BY <1>0, <2>1, <2>2 DEF Handed
      <3>2. PICK t : t = Tail(s)  OBVIOUS
      <3>3. Ordered(t) /\ t # << >> /\ Head(t) = "pauseGate"  BY <3>1, <3>2, FirstStep, OrderedTail, Chains DEF Links
      <3>4. Ordered(Tail(t)) /\ (Tail(t) # << >> => Follows("pauseGate", Head(Tail(t))))  BY <3>3, FirstStep, OrderedTail
      <3>5. Fresh(Tail(t)) \/ Tail(t) = << >>  BY <3>4, Chains DEF Fresh
      <3>6. Then(p, Tail(t))  BY <1>1, <2>2, <2>3, <3>2 DEF PauseGet
      <3> QED BY <3>5, <3>6, ThenJob
    <2>4. CASE entry # 0
      <3>1. Take(p, entry, Tail(job[p].todo)) /\ entry \in Runners  BY <1>0, <1>1, <2>4 DEF PauseGet
      <3> QED BY <2>1, <3>1, TakeJob
    <2> QED BY <2>3, <2>4
  <1>2. ASSUME PauseGate(p) \/ ResumeGate(p) \/ ChatLock(p) \/ ChatTurn(p)  PROVE Job(p)
    <2>1. Advance(p) /\ job[p].todo # << >> /\ Head(job[p].todo) \in {"pauseGate", "resumeGate", "lock", "turn"}
      BY <1>2 DEF PauseGate, ResumeGate, ChatLock, ChatTurn, At
    <2> QED BY <2>1, AdvanceJob
  <1>3. Fresh(Restart(p))  BY Scripts DEF Restart
  <1>4. CASE ResumeGet(p)
    <2>1. CASE Then(p, Restart(p))  BY <1>3, <2>1, ThenJob
    <2>2. CASE Take(p, entry, <<"isActive">>) /\ entry # 0
      <3>1. PICK k : k = [job[p] EXCEPT !.r = entry]  OBVIOUS
      <3>2. k.r \in Runners /\ Fields(k)  BY <1>0, <2>2, <3>1 DEF Handed, Fields
      <3>3. PICK s : s = <<"isActive">>  OBVIOUS
      <3>4. Ordered(s)  BY <3>3, Scripts
      <3>5. Handed(Left(k, s))  BY <3>2, <3>4, LeftHanded
      <3>6. job' = [job EXCEPT ![p] = Left(k, s)]  BY <2>2, <3>1, <3>3 DEF Take
      <3> QED BY <3>5, <3>6 DEF Job
    <2> QED BY <1>4, <2>1, <2>2 DEF ResumeGet
  <1>5. CASE IsActive(p)
    <2>1. job[p].r \in Runners  BY <1>0, <1>5 DEF IsActive, At, Handed, Needy
    <2>2. PICK s : s = <<"resumeGate", "setRunning">>  OBVIOUS
    <2>3. Ordered(s) /\ Fields(job[p])  BY <1>0, <2>2, Scripts DEF Handed, Fields
    <2>4. Handed(Left(job[p], s))  BY <2>1, <2>3, LeftHanded
    <2>5. Then(p, s) \/ Then(p, Restart(p))  BY <1>5, <2>2 DEF IsActive
    <2>6. CASE Then(p, s)  BY <2>4, <2>6 DEF Job, Then
    <2> QED BY <1>3, <2>5, <2>6, ThenJob
  <1>6. CASE Reconcile(p)
    <2>1. PICK s : s = <<"getOrBuild", "spawn">>  OBVIOUS
    <2>2. Fresh(s)  BY <2>1, Scripts
    <2>3. Then(p, << >>) \/ Then(p, s)  BY <1>6, <2>1 DEF Reconcile
    <2> QED BY <2>2, <2>3, ThenJob
  <1> QED BY <1>1, <1>2, <1>4, <1>5, <1>6 DEF GateStep

\* A step of one process keeps the jobs.
LEMMA JobKept ==
    ASSUME JobShape, NEW p \in Procs, Job(p)
    PROVE  /\ DOMAIN job' = Procs /\ \A q \in Procs : Handed(job'[q])
           /\ \A q \in Procs : q # p => job'[q] = job[q]
  BY DEF JobShape, Job

\* What the steps leave of jobs, registry, loops and runners.
LEMMA Untouched ==
    ASSUME [Next]_vars
    PROVE  \/ \E c \in Clients, op \in Ops : Request(c, op)
           \/ \E p \in Procs : RowStep(p) \/ RegistryStep(p) \/ GateStep(p)
           \/ \E g \in Loops : LoopStep(g)
           \/ (Listen \/ UNCHANGED vars \/ \E r \in Runners, m \in ToolModes : TurnSetsMode(r, m))
              /\ UNCHANGED <<job, entry, building, built, runner, loop>>
           \/ Crash
  BY DEF Next, ProcStep, Listen, TurnSetsMode, vars, registry

\* A loop's step moves no job but its own, when it returns.
LEMMA LoopJob ==
    ASSUME LifeShape, NEW g \in Loops, LoopStep(g)
    PROVE  /\ UNCHANGED <<entry, building, built, waiting>>
           /\ job' = job \/ (Exit(g) /\ loop[g].pc \in {"blocked", "select"} /\ Job(g) /\ job'[g].todo = Deferred)
  <1>1. CASE CtxDone(g) \/ TimerDone(g)
    <2>1. Exit(g) /\ loop[g].pc \in {"blocked", "select"}  BY <1>1 DEF CtxDone, TimerDone
    <2>2. Then(g, Deferred) /\ g \in Procs  BY <2>1 DEF Exit, Procs
    <2>3. Job(g)  BY <2>2, ThenJob, Scripts DEF LifeShape
    <2>4. Deferred # << >>  BY Scripts DEF Fresh
    <2>5. job' = [job EXCEPT ![g] = [job[g] EXCEPT !.todo = Deferred]]  BY <2>2, <2>4 DEF Then, Left
    <2>6. job'[g].todo = Deferred  BY <2>2, <2>5 DEF LifeShape, JobShape, Handed
    <2>7. UNCHANGED <<entry, building, built, waiting>>  BY <2>1 DEF Exit, registry
    <2> QED BY <2>1, <2>3, <2>6, <2>7
  <1>2. CASE LoopInit(g) \/ TurnStart(g) \/ FailPause(g) \/ FailRow(g) \/ Seed(g) \/ Bump(g) \/ Gate(g) \/ Wake(g) \/ Tick(g)
    BY <1>2 DEF LoopInit, TurnStart, FailPause, FailRow, Seed, Bump, Gate, Wake, Tick, registry
  <1>3. CASE \E o \in {"ok", "none", "err"} : TurnEnd(g, o)  BY <1>3 DEF TurnEnd, registry
  <1> QED BY <1>1, <1>2, <1>3 DEF LoopStep

\* A process that builds is the only one, and its list begins with GetOrBuild.
LEMMA JobShapeStep ==
    ASSUME LifeShape, [Next]_vars
    PROVE  JobShape'
  <1>0. JobShape /\ SingleFlight  BY DEF LifeShape
  <1>1. ASSUME NEW c \in Clients, NEW op \in Ops, Request(c, op)  PROVE JobShape'
    <2>1. Then(c, Script[op]) /\ c \in Procs /\ job[c].todo = << >>  BY <1>1 DEF Request, Procs, Servers
    <2>2. Fresh(Script[op])  BY Scripts, LifecycleAssumption
    <2>3. Job(c)  BY <1>0, <2>1, <2>2, ThenJob
    <2>4. UNCHANGED <<entry, building, built>>  BY <1>1 DEF Request, registry
    <2>5. c \notin building  BY <1>0, <2>1 DEF JobShape, At
    <2> QED BY <1>0, <2>1, <2>3, <2>4, <2>5, JobKept DEF JobShape, At
  <1>2. ASSUME NEW p \in Procs, RowStep(p) \/ GateStep(p)  PROVE JobShape'
    <2>1. Job(p)  BY <1>0, <1>2, RowJob, GateJob
    <2>2. UNCHANGED <<entry, building, built>>
      BY <1>2 DEF RowStep, Write, LoadState, ChatLoad, GateStep, PauseGet, PauseGate, ResumeGet, IsActive, ResumeGate,
         ChatLock, ChatTurn, Reconcile, registry
    <2>3. ~At(p, "getOrBuild")
      BY <1>2 DEF RowStep, Write, LoadState, ChatLoad, GateStep, PauseGet, PauseGate, ResumeGet, IsActive, ResumeGate,
         ChatLock, ChatTurn, Reconcile, At
    <2>4. p \notin building  BY <1>0, <2>3 DEF JobShape
    <2> QED BY <1>0, <2>1, <2>2, <2>4, JobKept DEF JobShape, At
  <1>3. ASSUME NEW p \in Procs, RegistryStep(p), ~BuildFailed(p)  PROVE JobShape'
    <2>1. Job(p)  BY <1>3, RegistryJob
    <2>2. /\ DOMAIN job' = Procs /\ \A q \in Procs : Handed(job'[q])
          /\ \A q \in Procs : q # p => job'[q] = job[q]
      BY <1>0, <2>1, JobKept
    <2>3. CASE GetOrBuild(p) /\ ~StartBuild(p)
      <3>1. UNCHANGED <<entry, building, built>> /\ p \notin building  BY <2>3 DEF GetOrBuild, TakeEntry, registry
      <3> QED BY <1>0, <2>2, <3>1 DEF JobShape, At
    <2>4. CASE GetOrBuild(p) /\ StartBuild(p)
      <3>1. built + 1 \in Runners /\ built + 1 \in Nat
        BY <1>0, <2>4, LifecycleAssumption DEF StartBuild, Runners, JobShape
      <3>2. job'[p] = [job[p] EXCEPT !.r = built + 1] /\ At(p, "getOrBuild")
        BY <1>0, <2>4 DEF StartBuild, GetOrBuild, Take, Left, At, JobShape
      <3>3. job'[p].r = built + 1 /\ job'[p].todo = job[p].todo  BY <1>0, <3>2 DEF JobShape, Handed
      <3>4. At(p, "getOrBuild")'  BY <3>2, <3>3 DEF At
      <3>5. entry' = entry /\ built' = built + 1 /\ building' = building \cup {p} /\ p \notin building
        BY <2>4 DEF StartBuild, GetOrBuild
      <3> QED BY <1>0, <2>2, <3>1, <3>3, <3>4, <3>5 DEF JobShape, At
    <2>5. CASE BuildDone(p)
      <3>1. entry' = job[p].r /\ job[p].r \in Runners /\ building' = building \ {p} /\ built' = built
        BY <1>0, <2>5 DEF BuildDone, Mine, JobShape
      <3> QED BY <1>0, <2>2, <3>1 DEF JobShape, At
    <2>6. CASE StopGet(p) \/ StopCancel(p) \/ StopDelete(p) \/ StopAll(p) \/ Spawn(p)
      <3>1. entry' \in {entry, 0} /\ building' = building /\ built' = built
        BY <2>6 DEF StopGet, StopCancel, StopDelete, StopAll, Spawn, registry
      <3>2. ~At(p, "getOrBuild")  BY <2>6 DEF StopGet, StopCancel, StopDelete, StopAll, Spawn, At
      <3>3. p \notin building  BY <1>0, <3>2 DEF JobShape
      <3> QED BY <1>0, <2>2, <3>1, <3>3 DEF JobShape, At
    <2> QED BY <1>3, <2>3, <2>4, <2>5, <2>6 DEF RegistryStep
  <1>4. ASSUME NEW p \in Procs, BuildFailed(p)  PROVE JobShape'
    <2>1. Handed(Idle)  BY Scripts DEF Handed, Idle
    <2>2. PICK k : k = [Idle EXCEPT !.todo = <<"setIdle">>]  OBVIOUS
    <2>3. Handed(k)
      <3>1. Fields(Idle)  BY DEF Fields, Idle
      <3>2. PICK s : s = <<"setIdle">>  OBVIOUS
      <3>3. Fresh(s)  BY <3>2, Scripts
      <3>4. Left(Idle, s) = k  BY <2>2, <3>2, <3>3 DEF Left, Fresh
      <3> QED BY <3>1, <3>3, <3>4, FreshHanded
    <2>4. DOMAIN job' = Procs /\ \A q \in Procs : job'[q] \in {job[q], k, Idle}
      BY <1>4, <2>2 DEF BuildFailed, GiveUp
    <2>5. \A q \in Procs : Handed(job'[q])  BY <1>0, <2>1, <2>3, <2>4 DEF JobShape
    <2>6. building' = {} /\ entry' = entry /\ built' = built  BY <1>0, <1>4 DEF BuildFailed, SingleFlight
    <2> QED BY <1>0, <2>4, <2>5, <2>6 DEF JobShape
  <1>5. ASSUME NEW g \in Loops, LoopStep(g)  PROVE JobShape'
    <2>1. UNCHANGED <<entry, building, built>>  BY <1>5, LoopJob
    <2>2. CASE job' = job  BY <1>0, <2>1, <2>2 DEF JobShape, At
    <2>3. CASE Job(g) /\ loop[g].pc \in {"blocked", "select"}
      <3>1. g \notin building  BY <1>0, <2>3 DEF LifeShape, LoopShape, JobShape, At
      <3>2. g \in Procs  BY DEF Procs
      <3> QED BY <1>0, <2>1, <2>3, <3>1, <3>2, JobKept DEF JobShape, At
    <2> QED BY <1>5, <2>2, <2>3, LoopJob
  <1>6. CASE UNCHANGED <<job, entry, building, built>>  BY <1>0, <1>6 DEF JobShape, At
  <1>7. CASE Crash
    <2>1. Handed(Idle)  BY Scripts DEF Handed, Idle
    <2>2. PICK k : k = [Idle EXCEPT !.todo = ReconcileOnBoot]  OBVIOUS
    <2>3. Handed(k)
      <3>1. Fields(Idle)  BY DEF Fields, Idle
      <3>2. Left(Idle, ReconcileOnBoot) = k  BY <2>2, Scripts DEF Left, Fresh
      <3> QED BY <3>1, <3>2, FreshHanded, Scripts
    <2>4. DOMAIN job' = Procs /\ \A q \in Procs : job'[q] \in {k, Idle}  BY <1>7, <2>2 DEF Crash, Boot
    <2> QED BY <1>0, <1>7, <2>1, <2>3, <2>4 DEF JobShape, Crash
  <1> QED BY <1>1, <1>2, <1>3, <1>4, <1>5, <1>6, <1>7, Untouched

-----------------------------------------------------------------------------
(* Loops, runners and pauses.                                              *)

\* The runners keep their states.
AutosKept ==
    /\ DOMAIN runner' = Runners
    /\ \A r \in Runners : DOMAIN runner'[r] = RunnerFields /\ runner'[r].auto = runner[r].auto

\* A loop that is past its start looks at a state of its runner.
LEMMA Inside ==
    ASSUME LifeShape, PauseInv, NEW g \in Loops, loop[g].pc \notin {"unused", "init", "done"}
    PROVE  loop[g].on \in Runners /\ runner[loop[g].on].auto \in Loops
  <1>1. loop[g].on \in Runners  BY DEF LifeShape, LoopShape
  <1>2. runner[loop[g].on].auto # 0  BY DEF PauseInv, Started
  <1> QED BY <1>1, <1>2 DEF LifeShape, RunnerShape

\* A loop that began a turn since the pause is not at its select.
LEMMA PastInside ==
    ASSUME LifeShape, PauseInv, NEW g \in Loops, loop[g].since = 1
    PROVE  /\ loop[g].pc \in BeforeGate \cup {"blocked"} /\ loop[g].pc \notin {"unused", "init", "done"}
           /\ loop[g].on \in Runners /\ runner[loop[g].on].auto \in Loops /\ Past(g)
  <1>1. Past(g)  BY DEF PauseInv
  <1>2. loop[g].pc \in BeforeGate \cup {"blocked"} /\ loop[g].pc \notin {"unused", "init", "done"}  BY <1>1 DEF Past, BeforeGate
  <1> QED BY <1>1, <1>2, Inside

\* A step of one loop that is past its start and does not return.
LEMMA OneLoop ==
    ASSUME LifeShape, PauseInv, NEW g \in Loops, AutosKept, job' = job, DOMAIN loop' = Loops,
           DOMAIN loop'[g] = LoopFields, \A h \in Loops : h # g => loop'[h] = loop[h],
           loop'[g].on = loop[g].on, loop'[g].paused = loop[g].paused, loop'[g].gen = loop[g].gen,
           loop[g].pc \notin {"unused", "init", "done"}, loop'[g].pc \notin {"unused", "init", "done"},
           loop'[g].since \in {0, 1},
           loop'[g].since = 1 =>
              LET a == runner[loop[g].on].auto
              IN  /\ loop[a].paused = "yes"
                  /\ \/ loop'[g].pc \in BeforeGate
                     \/ loop'[g].pc = "blocked" /\ loop'[g].wait = <<a, loop[a].gen>>
    PROVE  LoopShape' /\ RunnerShape' /\ PauseInv'
  <1>1. LoopShape /\ RunnerShape  BY DEF LifeShape
  <1>2. LoopShape'
    <2>1. loop[g].on \in Runners /\ loop[g].gen \in Nat /\ job[g].todo = << >>  BY <1>1 DEF LoopShape
    <2> QED BY <1>1, <2>1 DEF LoopShape
  <1>3. RunnerShape'
    <2>1. \A h \in Loops : loop[h].pc \notin {"unused", "init"} => loop'[h].pc \notin {"unused", "init"}  OBVIOUS
    <2> QED BY <1>1, <2>1 DEF RunnerShape, AutosKept
  <1>4. \A h \in Loops : loop'[h].on = loop[h].on /\ loop'[h].paused = loop[h].paused /\ loop'[h].gen = loop[h].gen  OBVIOUS
  <1>5. ASSUME NEW h \in Loops  PROVE Started(h)'
    <2>1. loop'[h].pc \notin {"unused", "init", "done"} => loop[h].pc \notin {"unused", "init", "done"}  OBVIOUS
    <2>2. loop[h].pc \notin {"unused", "init", "done"} => loop[h].on \in Runners /\ runner[loop[h].on].auto \in Loops  BY Inside
    <2>3. 0 \notin Loops  BY DEF Loops
    <2> QED BY <1>4, <2>1, <2>2, <2>3 DEF Started, AutosKept
  <1>6. ASSUME NEW h \in Loops  PROVE loop'[h].since \in {0, 1} /\ (loop'[h].since = 1 => Past(h)')
    <2>1. CASE h = g
      <3>1. PICK a \in Loops : a = runner[loop[g].on].auto /\ loop[g].on \in Runners  BY Inside
      <3>2. runner'[loop'[g].on].auto = a  BY <3>1 DEF AutosKept
      <3> QED BY <1>4, <2>1, <3>1, <3>2 DEF Past
    <2>2. CASE h # g
      <3>1. loop'[h] = loop[h] /\ loop[h].since \in {0, 1}  BY <2>2 DEF PauseInv
      <3>2. ASSUME loop[h].since = 1  PROVE Past(h)'
        <4>1. PICK a \in Loops : a = runner[loop[h].on].auto /\ loop[h].on \in Runners /\ Past(h)  BY <3>2, PastInside
        <4>2. runner'[loop'[h].on].auto = a  BY <3>1, <4>1 DEF AutosKept
        <4> QED BY <1>4, <3>1, <4>1, <4>2 DEF Past
      <3> QED BY <3>1, <3>2
    <2> QED BY <2>1, <2>2
  <1> QED BY <1>2, <1>3, <1>5, <1>6 DEF PauseInv

\* A step that moves no loop: at most contexts are cancelled.
LEMMA NoLoop ==
    ASSUME LifeShape, PauseInv, AutosKept, DOMAIN loop' = Loops,
           \A g \in Loops : /\ DOMAIN loop'[g] = LoopFields
                            /\ loop'[g].pc = loop[g].pc /\ loop'[g].on = loop[g].on /\ loop'[g].wait = loop[g].wait
                            /\ loop'[g].paused = loop[g].paused /\ loop'[g].gen = loop[g].gen
                            /\ loop'[g].since = loop[g].since,
           \A g \in Loops : loop[g].pc # "done" => job'[g].todo = << >>
    PROVE  LoopShape' /\ RunnerShape' /\ PauseInv'
  <1>1. LoopShape /\ RunnerShape  BY DEF LifeShape
  <1>2. LoopShape' /\ RunnerShape'  BY <1>1 DEF LoopShape, RunnerShape, AutosKept
  <1>3. ASSUME NEW h \in Loops  PROVE Started(h)'
    <2>1. loop[h].pc \notin {"unused", "init", "done"} => loop[h].on \in Runners /\ runner[loop[h].on].auto \in Loops  BY Inside
    <2>2. 0 \notin Loops  BY DEF Loops
    <2> QED BY <2>1, <2>2 DEF Started, AutosKept
  <1>4. ASSUME NEW h \in Loops, loop[h].since = 1  PROVE Past(h)'
    <2>1. PICK a \in Loops : a = runner[loop[h].on].auto /\ loop[h].on \in Runners /\ Past(h)  BY <1>4, PastInside
    <2>2. runner'[loop'[h].on].auto = a  BY <2>1 DEF AutosKept
    <2> QED BY <2>1, <2>2 DEF Past
  <1> QED BY <1>2, <1>3, <1>4 DEF PauseInv

\* What Pause and Resume make of the loops.
Gated(L, r) ==
    /\ DOMAIN L = Loops
    /\ \A h \in Loops : /\ DOMAIN L[h] = LoopFields /\ L[h].gen \in Nat
                        /\ L[h].pc = loop[h].pc /\ L[h].on = loop[h].on /\ L[h].wait = loop[h].wait
    /\ \/ L = loop
       \/ \A h \in Loops : /\ loop[h].on = r => L[h].since = 0
                           /\ loop[h].on # r => L[h].since = loop[h].since
                           /\ h # runner[r].auto => L[h].paused = loop[h].paused /\ L[h].gen = loop[h].gen

\* Pause and Resume move only paused, gen and since, and only for one runner.
LEMMA GatesGated ==
    ASSUME LoopShape, NEW r \in Runners, NEW from, NEW to, NEW n \in {0, 1}
    PROVE  Gated(Gates(r, from, to, n), r)
  <1>1. PICK a : a = runner[r].auto  OBVIOUS
  <1>2. Gated(loop, r)  BY DEF Gated, LoopShape
  <1>3. PICK L : L = [g \in Loops |->
                [loop[g] EXCEPT !.paused = IF g = a THEN to ELSE @,
                                !.gen    = IF g = a THEN @ + n ELSE @,
                                !.since  = IF loop[g].on = r THEN 0 ELSE @]]  OBVIOUS
  <1>4. DOMAIN L = Loops  BY <1>3
  <1>5. ASSUME NEW h \in Loops
        PROVE  /\ DOMAIN L[h] = LoopFields /\ L[h].pc = loop[h].pc /\ L[h].on = loop[h].on /\ L[h].wait = loop[h].wait
               /\ L[h].since = (IF loop[h].on = r THEN 0 ELSE loop[h].since)
               /\ L[h].paused = (IF h = a THEN to ELSE loop[h].paused)
               /\ L[h].gen = (IF h = a THEN loop[h].gen + n ELSE loop[h].gen)
    <2>1. DOMAIN loop[h] = LoopFields  BY DEF LoopShape
    <2> QED BY <1>3, <2>1 DEF LoopFields
  <1>6. \A h \in Loops : L[h].gen \in Nat  BY <1>5 DEF LoopShape
  <1>7. Gated(L, r)  BY <1>1, <1>4, <1>5, <1>6 DEF Gated
  <1> QED BY <1>1, <1>2, <1>3, <1>7 DEF Gates

\* A pause or a resume, and perhaps a step of one loop before its gate.
LEMMA GatedStep ==
    ASSUME LifeShape, PauseInv, NEW r \in Runners, NEW L, Gated(L, r), AutosKept, job' = job \/ (\A g \in Loops : loop[g].pc # "done" => job'[g].todo = << >>),
           DOMAIN loop' = Loops,
           \A h \in Loops : /\ DOMAIN loop'[h] = LoopFields /\ loop'[h].gen = L[h].gen /\ loop'[h].on = L[h].on
                            /\ loop'[h].wait = L[h].wait /\ loop'[h].paused = L[h].paused /\ loop'[h].since = L[h].since
                            /\ \/ loop'[h].pc = L[h].pc
                               \/ loop'[h].pc \in BeforeGate /\ L[h].pc \in BeforeGate
    PROVE  LoopShape' /\ RunnerShape' /\ PauseInv'
  <1>1. LoopShape /\ RunnerShape  BY DEF LifeShape
  <1>2. \A x \in BeforeGate : x \notin {"unused", "init", "done", "blocked"}  BY DEF BeforeGate
  <1>3. \A h \in Loops : /\ loop'[h].pc = "unused" <=> loop[h].pc = "unused"
                         /\ loop'[h].pc = "init" <=> loop[h].pc = "init"
                         /\ loop'[h].pc = "done" <=> loop[h].pc = "done"
                         /\ loop'[h].pc \in BeforeGate <=> loop[h].pc \in BeforeGate
                         /\ loop'[h].pc = "blocked" <=> loop[h].pc = "blocked"
    BY <1>2 DEF Gated
  <1>4. \A h \in Loops : loop'[h].on = loop[h].on /\ loop'[h].wait = loop[h].wait /\ loop'[h].gen \in Nat  BY DEF Gated
  <1>5. LoopShape' /\ RunnerShape'  BY <1>1, <1>3, <1>4 DEF LoopShape, RunnerShape, AutosKept
  <1>6. ASSUME NEW h \in Loops  PROVE Started(h)'
    <2>1. loop[h].pc \notin {"unused", "init", "done"} => loop[h].on \in Runners /\ runner[loop[h].on].auto \in Loops  BY Inside
    <2>2. 0 \notin Loops  BY DEF Loops
    <2> QED BY <1>3, <1>4, <2>1, <2>2 DEF Started, AutosKept
  <1>7. ASSUME NEW h \in Loops  PROVE loop'[h].since \in {0, 1} /\ (loop'[h].since = 1 => Past(h)')
    <2>1. loop[h].since \in {0, 1}  BY DEF PauseInv
    <2>2. loop'[h].since \in {0, 1}  BY <2>1 DEF Gated
    <2>3. ASSUME loop'[h].since = 1  PROVE Past(h)'
      <3>1. loop[h].since = 1  BY <2>1, <2>3 DEF Gated
      <3>2. PICK a \in Loops : a = runner[loop[h].on].auto /\ loop[h].on \in Runners /\ Past(h)  BY <3>1, PastInside
      <3>3. runner'[loop'[h].on].auto = a  BY <1>4, <3>2 DEF AutosKept
      <3>4. loop'[a].paused = loop[a].paused /\ loop'[a].gen = loop[a].gen
        <4>1. CASE L = loop  BY <4>1
        <4>2. CASE L # loop
          <5>1. loop[h].on # r  BY <2>3, <4>2 DEF Gated
          <5>2. 0 \notin Loops  BY DEF Loops
          <5>3. a # runner[r].auto  BY <1>1, <3>2, <5>1, <5>2 DEF RunnerShape
          <5> QED BY <4>2, <5>3 DEF Gated
        <4> QED BY <4>1, <4>2
      <3> QED BY <1>3, <1>4, <3>2, <3>3, <3>4 DEF Past
    <2> QED BY <2>2, <2>3
  <1> QED BY <1>5, <1>6, <1>7 DEF PauseInv

\* The steps of a process leave the states where they are.
LEMMA ProcAutos ==
    ASSUME LifeShape, NEW p \in Procs, ProcStep(p)
    PROVE  AutosKept
  <1>1. DOMAIN runner = Runners /\ \A r \in Runners : DOMAIN runner[r] = RunnerFields  BY DEF LifeShape, RunnerShape
  <1>2. CASE runner' = runner  BY <1>1, <1>2 DEF AutosKept
  <1>3. ASSUME NEW r, NEW x, runner' = [runner EXCEPT ![r].mu = x] \/ runner' = [runner EXCEPT ![r].prompt = x]  PROVE AutosKept
    BY <1>1, <1>3 DEF AutosKept, RunnerFields
  <1>4. CASE RegistryStep(p)
    <2>1. CASE StartBuild(p)  BY <1>3, <2>1 DEF StartBuild
    <2>2. CASE Spawn(p)
      <3>1. PICK g : runner' = [r \in Runners |-> IF r = entry THEN [runner[r] EXCEPT !.cancel = g] ELSE runner[r]]
        BY <2>2 DEF Spawn
      <3> QED BY <1>1, <3>1 DEF AutosKept, RunnerFields
    <2>3. CASE ~StartBuild(p) /\ ~Spawn(p)
      <3>1. runner' = runner
        BY <1>4, <2>3 DEF RegistryStep, GetOrBuild, TakeEntry, BuildDone, BuildFailed, StopGet, StopCancel, StopDelete, StopAll
      <3> QED BY <1>2, <3>1
    <2> QED BY <2>1, <2>2, <2>3
  <1>5. CASE GateStep(p)
    <2>1. CASE ChatLock(p) \/ ChatTurn(p)  BY <1>3, <2>1 DEF ChatLock, ChatTurn, Lock, Unlock
    <2>2. CASE ~ChatLock(p) /\ ~ChatTurn(p)
      <3>1. runner' = runner
        BY <1>5, <2>2 DEF GateStep, PauseGet, PauseGate, ResumeGet, IsActive, ResumeGate, Reconcile
      <3> QED BY <1>2, <3>1
    <2> QED BY <2>1, <2>2
  <1>6. CASE RowStep(p)
    <2>1. runner' = runner  BY <1>6 DEF RowStep, Write, LoadState, ChatLoad
    <2> QED BY <1>2, <2>1
  <1> QED BY <1>4, <1>5, <1>6 DEF ProcStep

\* Nor do they give a loop that has not returned anything to do.
LEMMA ProcIdle ==
    ASSUME LifeShape, NEW p \in Procs, ProcStep(p), NEW g \in Loops, loop[g].pc # "done"
    PROVE  job'[g].todo = << >> /\ p # g
  <1>0. JobShape /\ LoopShape  BY DEF LifeShape
  <1>1. job[g].todo = << >>  BY <1>0 DEF LoopShape
  <1>2. job[p].todo # << >>
    <2>1. CASE p \in building  BY <1>0, <2>1 DEF JobShape, At
    <2>2. CASE p \notin building
      BY <2>2 DEF ProcStep, RowStep, Write, LoadState, ChatLoad, RegistryStep, GetOrBuild, BuildDone, BuildFailed, StopGet,
         StopCancel, StopDelete, StopAll, Spawn, GateStep, PauseGet, PauseGate, ResumeGet, IsActive, ResumeGate,
         ChatLock, ChatTurn, Reconcile, At
    <2> QED BY <2>1, <2>2
  <1>3. p # g /\ g \in Procs  BY <1>1, <1>2 DEF Procs
  <1>4. CASE BuildFailed(p)
    <2>1. g # Main  BY LifecycleAssumption DEF Servers
    <2>2. job'[g] \in {job[g], Idle}  BY <1>3, <1>4, <2>1 DEF BuildFailed, GiveUp
    <2> QED BY <1>1, <1>3, <2>2 DEF Idle
  <1>5. CASE ~BuildFailed(p)
    <2>1. Job(p)  BY <1>0, <1>5, RowJob, RegistryJob, GateJob DEF ProcStep
    <2> QED BY <1>0, <1>1, <1>3, <2>1, JobKept
  <1> QED BY <1>3, <1>4, <1>5

\* A new loop has begun nothing.
LEMMA SpawnPause ==
    ASSUME LifeShape, PauseInv, NEW p \in Procs, Spawn(p)
    PROVE  LoopShape' /\ RunnerShape' /\ PauseInv'
  <1>0. ProcStep(p)  BY DEF ProcStep, RegistryStep
  <1>1. AutosKept  BY <1>0, ProcAutos
  <1>2. \A g \in Loops : loop[g].pc # "done" => job'[g].todo = << >>  BY <1>0, ProcIdle
  <1>3. PICK g \in Loops : /\ \A h \in Loops : loop[h].pc = "unused" <=> h >= g
                           /\ loop' = [loop EXCEPT ![g].pc = "init", ![g].on = Mine(p)]
    BY DEF Spawn
  <1>4. LoopShape /\ RunnerShape /\ Handed(job[p])  BY DEF LifeShape, JobShape
  <1>5. g >= g  BY DEF Loops
  <1>6. loop[g].pc = "unused"  BY <1>3, <1>5
  <1>7. Mine(p) \in Runners  BY <1>4 DEF Spawn, At, Handed, Needy, Mine
  <1>8. /\ DOMAIN loop' = Loops /\ \A h \in Loops : h # g => loop'[h] = loop[h]
        /\ DOMAIN loop'[g] = LoopFields /\ loop'[g].pc = "init" /\ loop'[g].on = Mine(p)
        /\ loop'[g].gen = loop[g].gen /\ loop'[g].paused = loop[g].paused /\ loop'[g].since = loop[g].since
    BY <1>3, <1>4 DEF LoopShape, LoopFields
  <1>9. LoopShape'  BY <1>2, <1>4, <1>6, <1>7, <1>8 DEF LoopShape
  <1>10. \A h \in Loops : loop[h].pc \notin {"unused", "init"} => h # g  BY <1>6
  <1>11. RunnerShape'  BY <1>1, <1>4, <1>8, <1>10 DEF RunnerShape, AutosKept
  <1>12. loop[g].since = 0
    <2>1. loop[g].since = 1 => loop[g].pc \notin {"unused", "init", "done"}  BY PastInside
    <2> QED BY <1>6, <2>1 DEF PauseInv
  <1>13. ASSUME NEW h \in Loops  PROVE Started(h)'
    <2>1. loop[h].pc \notin {"unused", "init", "done"} => loop[h].on \in Runners /\ runner[loop[h].on].auto \in Loops  BY Inside
    <2>2. 0 \notin Loops  BY DEF Loops
    <2> QED BY <1>1, <1>8, <2>1, <2>2 DEF Started, AutosKept
  <1>14. ASSUME NEW h \in Loops  PROVE loop'[h].since \in {0, 1} /\ (loop'[h].since = 1 => Past(h)')
    <2>1. CASE h = g  BY <1>8, <1>12, <2>1
    <2>2. CASE h # g
      <3>1. loop'[h] = loop[h] /\ loop[h].since \in {0, 1}  BY <1>8, <2>2 DEF PauseInv
      <3>2. ASSUME loop[h].since = 1  PROVE Past(h)'
        <4>1. PICK a \in Loops : a = runner[loop[h].on].auto /\ loop[h].on \in Runners /\ Past(h)  BY <3>2, PastInside
        <4>2. runner'[loop'[h].on].auto = a  BY <1>1, <3>1, <4>1 DEF AutosKept
        <4>3. loop'[a].paused = loop[a].paused /\ loop'[a].gen = loop[a].gen  BY <1>8
        <4> QED BY <3>1, <4>1, <4>2, <4>3 DEF Past
      <3> QED BY <3>1, <3>2
    <2> QED BY <2>1, <2>2
  <1> QED BY <1>9, <1>11, <1>13, <1>14 DEF PauseInv

\* The steps of a process.
LEMMA ProcPause ==
    ASSUME LifeShape, PauseInv, NEW p \in Procs, ProcStep(p)
    PROVE  LoopShape' /\ RunnerShape' /\ PauseInv'
  <1>1. AutosKept  BY ProcAutos
  <1>2. \A g \in Loops : loop[g].pc # "done" => job'[g].todo = << >>  BY ProcIdle
  <1>3. LoopShape /\ Handed(job[p])  BY DEF LifeShape, JobShape
  <1>4. CASE loop' = loop  BY <1>1, <1>2, <1>3, <1>4, NoLoop DEF LoopShape
  <1>5. ASSUME NEW r, Cancel(r)  PROVE LoopShape' /\ RunnerShape' /\ PauseInv'
    <2>1. DOMAIN loop' = Loops  BY <1>5 DEF Cancel
    <2>2. ASSUME NEW g \in Loops
          PROVE  /\ DOMAIN loop'[g] = LoopFields
                 /\ loop'[g].pc = loop[g].pc /\ loop'[g].on = loop[g].on /\ loop'[g].wait = loop[g].wait
                 /\ loop'[g].paused = loop[g].paused /\ loop'[g].gen = loop[g].gen
                 /\ loop'[g].since = loop[g].since
      <3>1. DOMAIN loop[g] = LoopFields  BY <1>3 DEF LoopShape
      <3>2. loop'[g] = [loop[g] EXCEPT !.ctx = "canceled"] \/ loop'[g] = loop[g]  BY <1>5 DEF Cancel
      <3> QED BY <3>1, <3>2 DEF LoopFields
    <2> QED BY <1>1, <1>2, <2>1, <2>2, NoLoop
  <1>6. CASE PauseGate(p) \/ ResumeGate(p)
    <2>1. PICK r : r = Mine(p)  OBVIOUS
    <2>2. r \in Runners  BY <1>3, <1>6, <2>1 DEF PauseGate, ResumeGate, At, Handed, Needy, Mine
    <2>3. loop' = Gates(r, "no", "yes", 0) \/ loop' = Gates(r, "yes", "no", 1)
      BY <1>6, <2>1 DEF PauseGate, ResumeGate, Pause, Resume
    <2>4. Gated(loop', r)  BY <1>3, <2>2, <2>3, GatesGated
    <2>5. PICK L : L = loop'  OBVIOUS
    <2> QED BY <1>1, <1>2, <2>2, <2>4, <2>5, GatedStep DEF Gated
  <1>7. CASE RegistryStep(p)
    <2>1. CASE StopCancel(p) \/ StopAll(p)  BY <1>5, <2>1 DEF StopCancel, StopAll
    <2>2. CASE Spawn(p)  BY <2>2, SpawnPause
    <2>3. CASE GetOrBuild(p) \/ BuildDone(p) \/ BuildFailed(p) \/ StopGet(p) \/ StopDelete(p)
      BY <1>4, <2>3 DEF GetOrBuild, BuildDone, BuildFailed, StopGet, StopDelete
    <2> QED BY <1>7, <2>1, <2>2, <2>3 DEF RegistryStep
  <1>8. CASE GateStep(p)
    <2>1. CASE loop' = loop  BY <1>4, <2>1
    <2>2. CASE loop' # loop  BY <1>6, <1>8, <2>2 DEF GateStep, PauseGet, ResumeGet, IsActive, ChatLock, ChatTurn, Reconcile
    <2> QED BY <2>1, <2>2
  <1>9. CASE RowStep(p)
    <2>1. loop' = loop  BY <1>9 DEF RowStep, Write, LoadState, ChatLoad
    <2> QED BY <1>4, <2>1
  <1> QED BY <1>7, <1>8, <1>9 DEF ProcStep

\* RunAutonomous makes a new state, which is not paused for anyone.
LEMMA InitPause ==
    ASSUME LifeShape, PauseInv, NEW g \in Loops, LoopInit(g)
    PROVE  LoopShape' /\ RunnerShape' /\ PauseInv'
  <1>1. LoopShape /\ RunnerShape  BY DEF LifeShape
  <1>2. PICK r \in Runners : r = loop[g].on  BY <1>1 DEF LoopInit, LoopShape
  <1>3. runner' = [runner EXCEPT ![r].auto = g] /\ loop[g].pc = "init" /\ job' = job  BY <1>2 DEF LoopInit
  <1>4. /\ DOMAIN runner' = Runners /\ runner'[r].auto = g
        /\ \A q \in Runners : DOMAIN runner'[q] = RunnerFields /\ (q # r => runner'[q].auto = runner[q].auto)
    BY <1>1, <1>3 DEF RunnerShape, RunnerFields
  <1>5. DOMAIN loop' = Loops  BY DEF LoopInit
  <1>6. ASSUME NEW h \in Loops
        PROVE  /\ DOMAIN loop'[h] = LoopFields /\ loop'[h].pc = (IF h = g THEN "kick" ELSE loop[h].pc)
               /\ loop'[h].since = (IF loop[h].on = r THEN 0 ELSE loop[h].since)
               /\ loop'[h].on = loop[h].on /\ loop'[h].gen = loop[h].gen /\ loop'[h].paused = loop[h].paused
               /\ loop'[h].wait = loop[h].wait
    <2>1. DOMAIN loop[h] = LoopFields  BY <1>1 DEF LoopShape
    <2>2. loop'[h] = [loop[h] EXCEPT !.pc = IF h = g THEN "kick" ELSE @, !.since = IF loop[h].on = r THEN 0 ELSE @]
      BY <1>2 DEF LoopInit
    <2> QED BY <2>1, <2>2 DEF LoopFields
  <1>7. LoopShape'
    <2>1. loop[g].gen \in Nat /\ loop[g].on \in Runners /\ job[g].todo = << >>  BY <1>1, <1>2, <1>3 DEF LoopShape
    <2> QED BY <1>1, <1>3, <1>5, <1>6, <2>1 DEF LoopShape
  <1>8. \A q \in Runners : runner[q].auto # 0 => runner[q].auto # g  BY <1>1, <1>3 DEF RunnerShape
  <1>9. 0 \notin Loops  BY DEF Loops
  <1>10. RunnerShape'
    <2>1. \A q \in Runners : runner'[q].auto \in Loops \cup {0}  BY <1>1, <1>4 DEF RunnerShape
    <2>2. \A q \in Runners : runner'[q].auto # 0 => loop'[runner'[q].auto].pc \notin {"unused", "init"}
      BY <1>1, <1>4, <1>6, <2>1 DEF RunnerShape
    <2>3. \A q, u \in Runners : runner'[q].auto # 0 /\ runner'[q].auto = runner'[u].auto => q = u
      BY <1>1, <1>4, <1>8, <1>9 DEF RunnerShape
    <2> QED BY <1>4, <2>1, <2>2, <2>3 DEF RunnerShape
  <1>11. ASSUME NEW h \in Loops  PROVE Started(h)'
    <2>1. CASE loop[h].on = r  BY <1>4, <1>6, <1>9, <2>1 DEF Started
    <2>2. CASE loop[h].on # r
      <3>1. h # g  BY <1>2, <2>2
      <3>2. loop[h].pc \notin {"unused", "init", "done"} => loop[h].on \in Runners /\ runner[loop[h].on].auto \in Loops  BY Inside
      <3> QED BY <1>4, <1>6, <1>9, <2>2, <3>1, <3>2 DEF Started
    <2> QED BY <2>1, <2>2
  <1>12. ASSUME NEW h \in Loops  PROVE loop'[h].since \in {0, 1} /\ (loop'[h].since = 1 => Past(h)')
    <2>1. CASE loop[h].on = r  BY <1>6, <2>1
    <2>2. CASE loop[h].on # r
      <3>1. loop'[h].since = loop[h].since /\ loop[h].since \in {0, 1} /\ h # g  BY <1>2, <1>6, <2>2 DEF PauseInv
      <3>2. ASSUME loop[h].since = 1  PROVE Past(h)'
        <4>1. PICK a \in Loops : a = runner[loop[h].on].auto /\ loop[h].on \in Runners /\ Past(h)  BY <3>2, PastInside
        <4>2. runner'[loop'[h].on].auto = a  BY <1>4, <1>6, <2>2, <4>1
        <4> QED BY <1>6, <3>1, <4>1, <4>2 DEF Past
      <3> QED BY <3>1, <3>2
    <2> QED BY <2>1, <2>2
  <1> QED BY <1>7, <1>10, <1>11, <1>12 DEF PauseInv

\* RunAutonomous returns.
LEMMA ExitPause ==
    ASSUME LifeShape, PauseInv, NEW g \in Loops, Exit(g), loop[g].pc \in {"blocked", "select"}, Job(g)
    PROVE  LoopShape' /\ RunnerShape' /\ PauseInv'
  <1>1. LoopShape /\ RunnerShape /\ JobShape  BY DEF LifeShape
  <1>2. /\ DOMAIN loop' = Loops /\ \A h \in Loops : h # g => loop'[h] = loop[h]
        /\ DOMAIN loop'[g] = LoopFields /\ loop'[g].pc = "done" /\ loop'[g].on = 0 /\ loop'[g].since = 0
        /\ loop'[g].gen = loop[g].gen /\ loop'[g].paused = loop[g].paused
    BY <1>1 DEF Exit, LoopShape, LoopFields
  <1>3. g \in Procs /\ \A h \in Loops : h # g => job'[h] = job[h]  BY <1>1, JobKept DEF Procs
  <1>4. runner' = runner  BY DEF Exit
  <1>5. LoopShape'  BY <1>1, <1>2, <1>3 DEF LoopShape
  <1>6. RunnerShape'  BY <1>1, <1>2, <1>4 DEF RunnerShape
  <1>7. ASSUME NEW h \in Loops  PROVE Started(h)'  BY <1>2, <1>4 DEF Started, PauseInv
  <1>8. ASSUME NEW h \in Loops  PROVE loop'[h].since \in {0, 1} /\ (loop'[h].since = 1 => Past(h)')
    <2>1. CASE h = g  BY <1>2, <2>1
    <2>2. CASE h # g
      <3>1. loop'[h] = loop[h] /\ loop[h].since \in {0, 1}  BY <1>2, <2>2 DEF PauseInv
      <3>2. ASSUME loop[h].since = 1  PROVE Past(h)'
        <4>1. PICK a \in Loops : a = runner[loop[h].on].auto /\ Past(h)  BY <3>2, PastInside
        <4>2. loop'[a].paused = loop[a].paused /\ loop'[a].gen = loop[a].gen  BY <1>2
        <4> QED BY <1>4, <3>1, <4>1, <4>2 DEF Past
      <3> QED BY <3>1, <3>2
    <2> QED BY <2>1, <2>2
  <1> QED BY <1>5, <1>6, <1>7, <1>8 DEF PauseInv

\* A turn begins at most once while the state is paused: it began before the gate.
LEMMA TurnPause ==
    ASSUME LifeShape, PauseInv, NEW g \in Loops, TurnStart(g)
    PROVE  LoopShape' /\ RunnerShape' /\ PauseInv'
  <1>1. LoopShape /\ RunnerShape  BY DEF LifeShape
  <1>2. loop[g].pc \in {"kick", "tick"}  BY DEF TurnStart
  <1>3. PICK r \in Runners, a \in Loops : r = loop[g].on /\ a = runner[r].auto  BY <1>2, Inside
  <1>4. loop[g].since = 0
    <2>1. loop[g].since = 1 => loop[g].pc \in BeforeGate \cup {"blocked"}  BY PastInside
    <2> QED BY <1>2, <2>1 DEF PauseInv, BeforeGate
  <1>5. runner' = [runner EXCEPT ![r].mu = g] /\ job' = job  BY <1>3 DEF TurnStart, Lock
  <1>6. AutosKept  BY <1>1, <1>5 DEF AutosKept, RunnerShape, RunnerFields
  <1>7. loop' = [loop EXCEPT ![g].since = IF loop[a].paused = "yes" THEN @ + 1 ELSE @,
                             ![g].pc = IF @ = "kick" THEN "kickTurn" ELSE "tickTurn"]
    BY <1>3 DEF TurnStart
  <1>8. /\ DOMAIN loop' = Loops /\ \A h \in Loops : h # g => loop'[h] = loop[h]
        /\ DOMAIN loop'[g] = LoopFields /\ loop'[g].on = loop[g].on /\ loop'[g].paused = loop[g].paused
        /\ loop'[g].gen = loop[g].gen /\ loop'[g].pc \in {"kickTurn", "tickTurn"}
        /\ loop'[g].since = (IF loop[a].paused = "yes" THEN 1 ELSE 0)
    BY <1>1, <1>4, <1>7 DEF LoopShape, LoopFields
  <1>9. loop'[g].pc \in BeforeGate /\ loop'[g].pc \notin {"unused", "init", "done"}  BY <1>8 DEF BeforeGate
  <1>10. loop'[g].since = 1 => loop[runner[loop[g].on].auto].paused = "yes"  BY <1>3, <1>8
  <1>11. loop'[g].since \in {0, 1} /\ job' = job /\ loop[g].pc \notin {"unused", "init", "done"}  BY <1>2, <1>5, <1>8
  <1> QED BY <1>6, <1>8, <1>9, <1>10, <1>11, OneLoop

\* A step of one loop that only moves its position, and what it waits for.
Moved(g, l, w) ==
    /\ DOMAIN loop' = Loops /\ \A h \in Loops : h # g => loop'[h] = loop[h]
    /\ DOMAIN loop'[g] = LoopFields /\ loop'[g].on = loop[g].on /\ loop'[g].paused = loop[g].paused
    /\ loop'[g].gen = loop[g].gen /\ loop'[g].since = loop[g].since /\ loop'[g].pc = l /\ loop'[g].wait = w

\* The forms in which the steps of a loop are written.
LEMMA Moves ==
    ASSUME LifeShape, NEW g \in Loops, NEW l, NEW n, NEW w
    PROVE  /\ loop' = [loop EXCEPT ![g].pc = l] => Moved(g, l, loop[g].wait)
           /\ loop' = [loop EXCEPT ![g].round = n, ![g].pc = l] => Moved(g, l, loop[g].wait)
           /\ loop' = [loop EXCEPT ![g].pc = l, ![g].wait = w] => Moved(g, l, w)
  BY DEF LifeShape, LoopShape, LoopFields, Moved

\* Such a step keeps what PauseInv says unless the loop passes its gate while paused.
LEMMA PlainPause ==
    ASSUME LifeShape, PauseInv, NEW g \in Loops, NEW l, NEW w, Moved(g, l, w),
           runner' = runner \/ (\E r : runner' = [runner EXCEPT ![r].mu = Nobody]), job' = job,
           loop[g].pc \notin {"unused", "init", "done"}, l \notin {"unused", "init", "done"},
           loop[g].since = 1 => l \in BeforeGate \/ (l = "blocked" /\ w = <<runner[loop[g].on].auto, loop[runner[loop[g].on].auto].gen>>)
    PROVE  LoopShape' /\ RunnerShape' /\ PauseInv'
  <1>1. LoopShape /\ RunnerShape  BY DEF LifeShape
  <1>2. AutosKept  BY <1>1 DEF AutosKept, RunnerShape, RunnerFields
  <1>4. loop[g].since \in {0, 1}  BY DEF PauseInv
  <1>5. loop[g].since = 1 => loop[runner[loop[g].on].auto].paused = "yes"  BY PastInside DEF Past
  <1> QED BY <1>2, <1>4, <1>5, OneLoop DEF Moved

\* OnAutonomousError pauses the state the loop itself looks at.
LEMMA FailPausePause ==
    ASSUME LifeShape, PauseInv, NEW g \in Loops, FailPause(g)
    PROVE  LoopShape' /\ RunnerShape' /\ PauseInv'
  <1>1. LoopShape /\ RunnerShape  BY DEF LifeShape
  <1>2. loop[g].pc \in {"kickNone", "kickFail", "tickFail"}  BY DEF FailPause
  <1>3. PICK r \in Runners : r = loop[g].on  BY <1>2, Inside
  <1>4. PICK L : L = Pause(r)  OBVIOUS
  <1>5. Gated(L, r)  BY <1>1, <1>4, GatesGated DEF Pause
  <1>6. loop' = [L EXCEPT ![g].pc = IF @ = "tickFail" THEN "tickRow" ELSE "kickRow"]  BY <1>3, <1>4 DEF FailPause
  <1>7. runner' = runner /\ job' = job  BY DEF FailPause
  <1>8. AutosKept  BY <1>1, <1>7 DEF AutosKept, RunnerShape
  <1>9. DOMAIN loop' = Loops /\ L[g].pc = loop[g].pc  BY <1>5, <1>6 DEF Gated
  <1>10. ASSUME NEW h \in Loops
         PROVE  /\ DOMAIN loop'[h] = LoopFields /\ loop'[h].gen = L[h].gen /\ loop'[h].on = L[h].on
                /\ loop'[h].wait = L[h].wait /\ loop'[h].paused = L[h].paused /\ loop'[h].since = L[h].since
                /\ loop'[h].pc = L[h].pc \/ (loop'[h].pc \in BeforeGate /\ L[h].pc \in BeforeGate)
    <2>1. DOMAIN L = Loops /\ DOMAIN L[h] = LoopFields  BY <1>5 DEF Gated
    <2>2. CASE h # g  BY <1>6, <2>1, <2>2
    <2>3. CASE h = g
      <3>1. loop'[g] = [L[g] EXCEPT !.pc = IF @ = "tickFail" THEN "tickRow" ELSE "kickRow"]  BY <1>6, <2>1
      <3> QED BY <1>2, <1>9, <2>1, <2>3, <3>1 DEF LoopFields, BeforeGate
    <2> QED BY <2>2, <2>3
  <1> QED BY <1>5, <1>7, <1>8, <1>9, <1>10, GatedStep

\* The steps of a loop.
LEMMA LoopPause ==
    ASSUME LifeShape, PauseInv, NEW g \in Loops, LoopStep(g)
    PROVE  LoopShape' /\ RunnerShape' /\ PauseInv'
  <1>0. loop[g].since \in {0, 1}  BY DEF PauseInv
  <1>1. CASE LoopInit(g)  BY <1>1, InitPause
  <1>2. CASE TurnStart(g)  BY <1>2, TurnPause
  <1>3. CASE FailPause(g)  BY <1>3, FailPausePause
  <1>4. CASE CtxDone(g) \/ TimerDone(g)
    <2>1. Exit(g) /\ loop[g].pc \in {"blocked", "select"}  BY <1>4 DEF CtxDone, TimerDone
    <2>2. Job(g)
      <3>1. CASE job' = job  BY <3>1 DEF Job
      <3> QED BY <3>1, LoopJob
    <2> QED BY <2>1, <2>2, ExitPause
  <1>5. ASSUME NEW l \in BeforeGate, Moved(g, l, loop[g].wait), job' = job, loop[g].pc \in BeforeGate,
               runner' = runner \/ (\E r : runner' = [runner EXCEPT ![r].mu = Nobody])
        PROVE  LoopShape' /\ RunnerShape' /\ PauseInv'
    <2>1. loop[g].pc \notin {"unused", "init", "done"} /\ l \notin {"unused", "init", "done"}  BY <1>5 DEF BeforeGate
    <2> QED BY <1>5, <2>1, PlainPause
  <1>6. CASE \E o \in {"ok", "none", "err"} : TurnEnd(g, o)
    <2>1. PICK o \in {"ok", "none", "err"} : TurnEnd(g, o)  BY <1>6
    <2>2. PICK l : l = IF loop[g].pc = "kickTurn" THEN AfterKick(o) ELSE AfterTick(o)  OBVIOUS
    <2>3. l \in BeforeGate  BY <2>2 DEF AfterKick, AfterTick, BeforeGate
    <2>4. loop' = [loop EXCEPT ![g].pc = l] /\ job' = job /\ loop[g].pc \in BeforeGate
      BY <2>1, <2>2 DEF TurnEnd, Goto, BeforeGate
    <2>5. \E r : runner' = [runner EXCEPT ![r].mu = Nobody]  BY <2>1 DEF TurnEnd, Unlock
    <2> QED BY <1>5, <2>3, <2>4, <2>5, Moves
  <1>7. CASE FailRow(g)
    <2>1. PICK l : l = IF loop[g].pc = "kickRow" THEN "seed" ELSE "gate"  OBVIOUS
    <2>2. loop' = [loop EXCEPT ![g].pc = l] /\ job' = job /\ runner' = runner /\ loop[g].pc \in BeforeGate /\ l \in BeforeGate
      BY <1>7, <2>1 DEF FailRow, Goto, BeforeGate
    <2> QED BY <1>5, <2>2, Moves
  <1>8. CASE Seed(g) \/ Bump(g)
    <2>1. PICK l : l = "gate"  OBVIOUS
    <2>2. PICK n : loop' = [loop EXCEPT ![g].round = n, ![g].pc = l]
      <3>1. CASE Seed(g)  BY <2>1, <3>1 DEF Seed
      <3>2. CASE Bump(g)
        <4>1. PICK n : n = loop[g].round + 1  OBVIOUS
        <4>2. loop' = [loop EXCEPT ![g].round = @ + 1, ![g].pc = l]  BY <2>1, <3>2 DEF Bump
        <4>3. loop' = [loop EXCEPT ![g].round = n, ![g].pc = l]  BY <4>1, <4>2
        <4> QED BY <4>3
      <3> QED BY <1>8, <3>1, <3>2
    <2>3. Moved(g, l, loop[g].wait)  BY <2>2, Moves
    <2>4. job' = job /\ runner' = runner /\ loop[g].pc \in BeforeGate /\ l \in BeforeGate  BY <1>8, <2>1 DEF Seed, Bump, BeforeGate
    <2> QED BY <1>5, <2>3, <2>4
  <1>9. CASE Gate(g)
    <2>1. loop[g].pc = "gate" /\ job' = job /\ runner' = runner  BY <1>9 DEF Gate
    <2>2. PICK a : a = runner[loop[g].on].auto  OBVIOUS
    <2>3. CASE loop[a].paused = "no"
      <3>1. PICK l : l = "select"  OBVIOUS
      <3>2. Moved(g, l, loop[g].wait)  BY <1>9, <2>2, <2>3, <3>1, Moves DEF Gate, Goto
      <3>3. loop[g].since # 1  BY <2>2, <2>3, PastInside DEF Past
      <3> QED BY <2>1, <3>1, <3>2, <3>3, PlainPause
    <2>4. CASE loop[a].paused # "no"
      <3>1. PICK l, w : l = "blocked" /\ w = <<a, loop[a].gen>>  OBVIOUS
      <3>2. loop' = [loop EXCEPT ![g].pc = l, ![g].wait = w]  BY <1>9, <2>2, <2>4, <3>1 DEF Gate
      <3>3. Moved(g, l, w)  BY <3>2, Moves
      <3> QED BY <2>1, <2>2, <3>1, <3>3, PlainPause
    <2> QED BY <2>3, <2>4
  <1>10. CASE Wake(g)
    <2>1. loop[g].pc = "blocked" /\ job' = job /\ runner' = runner /\ loop[loop[g].wait[1]].gen > loop[g].wait[2]
      BY <1>10 DEF Wake
    <2>2. PICK l, w : l = "select" /\ w = NoState  OBVIOUS
    <2>3. loop' = [loop EXCEPT ![g].pc = l, ![g].wait = w]  BY <1>10, <2>2 DEF Wake
    <2>4. Moved(g, l, w)  BY <2>3, Moves
    <2>5. ASSUME loop[g].since = 1  PROVE FALSE
      <3>1. PICK a \in Loops : a = runner[loop[g].on].auto /\ Past(g)  BY <2>5, PastInside
      <3>2. loop[g].wait = <<a, loop[a].gen>>  BY <2>1, <3>1 DEF Past, BeforeGate
      <3>3. loop[a].gen \in Nat  BY DEF LifeShape, LoopShape
      <3>4. loop[a].gen > loop[a].gen  BY <2>1, <3>2
      <3> QED BY <3>3, <3>4
    <2> QED BY <2>1, <2>2, <2>4, <2>5, PlainPause
  <1>11. CASE Tick(g)
    <2>1. loop[g].pc = "select" /\ job' = job /\ runner' = runner  BY <1>11 DEF Tick
    <2>2. PICK l : l = "tick"  OBVIOUS
    <2>3. loop' = [loop EXCEPT ![g].pc = l]  BY <1>11, <2>2 DEF Tick, Goto
    <2>4. Moved(g, l, loop[g].wait)  BY <2>3, Moves
    <2>5. loop[g].since # 1
      <3>1. loop[g].since = 1 => loop[g].pc \in BeforeGate \cup {"blocked"}  BY PastInside
      <3> QED BY <2>1, <3>1 DEF BeforeGate
    <2> QED BY <2>1, <2>2, <2>4, <2>5, PlainPause
  <1> QED BY <1>1, <1>2, <1>3, <1>4, <1>6, <1>7, <1>8, <1>9, <1>10, <1>11 DEF LoopStep

\* A crash ends every loop, and nobody has the deferred calls left.
LEMMA CrashPause ==
    ASSUME LifeShape, PauseInv, Crash
    PROVE  LoopShape' /\ RunnerShape' /\ PauseInv'
  <1>1. LoopShape /\ RunnerShape  BY DEF LifeShape
  <1>2. DOMAIN loop' = Loops /\ DOMAIN runner' = Runners  BY DEF Crash
  <1>3. ASSUME NEW h \in Loops
        PROVE  /\ DOMAIN loop'[h] = LoopFields /\ loop'[h].pc = (IF loop[h].pc = "unused" THEN "unused" ELSE "done")
               /\ loop'[h].on = 0 /\ loop'[h].since = 0 /\ loop'[h].gen = loop[h].gen
    <2>1. DOMAIN loop[h] = LoopFields  BY <1>1 DEF LoopShape
    <2>2. loop'[h] = [loop[h] EXCEPT !.pc = IF @ = "unused" THEN @ ELSE "done", !.on = 0, !.round = 0,
                                     !.wait = NoState, !.since = 0]
      BY DEF Crash
    <2> QED BY <2>1, <2>2 DEF LoopFields
  <1>4. ASSUME NEW r \in Runners  PROVE DOMAIN runner'[r] = RunnerFields /\ runner'[r].auto = runner[r].auto
    <2>1. DOMAIN runner[r] = RunnerFields  BY <1>1 DEF RunnerShape
    <2>2. runner'[r] = [runner[r] EXCEPT !.mu = Nobody, !.cancel = 0]  BY DEF Crash
    <2> QED BY <2>1, <2>2 DEF RunnerFields
  <1>5. \A h \in Loops : job'[h].todo = << >>
    <2>1. \A h \in Loops : h \in Procs /\ h # Main  BY LifecycleAssumption DEF Procs, Servers
    <2> QED BY <2>1 DEF Crash, Boot, Idle
  <1>6. LoopShape'  BY <1>1, <1>2, <1>3, <1>5 DEF LoopShape
  <1>7. RunnerShape'  BY <1>1, <1>2, <1>3, <1>4 DEF RunnerShape
  <1>8. \A h \in Loops : Started(h)' /\ loop'[h].since = 0  BY <1>3 DEF Started
  <1> QED BY <1>6, <1>7, <1>8 DEF PauseInv

\* Every step keeps the shape, and a loop that began a turn since the pause from
\* beginning another.
LEMMA PauseStep ==
    ASSUME LifeShape, PauseInv, [Next]_vars
    PROVE  LifeShape' /\ PauseInv'
  <1>1. JobShape'  BY JobShapeStep
  <1>2. SingleFlight'
    <2>1. RegistryMove /\ SingleFlight  BY StepMoves DEF LifeShape
    <2> QED BY <2>1 DEF SingleFlight, RegistryMove
  <1>3. LoopShape /\ RunnerShape  BY DEF LifeShape
  <1>4. ASSUME runner' = runner, loop' = loop, \A g \in Loops : job'[g] = job[g]
        PROVE  LoopShape' /\ RunnerShape' /\ PauseInv'
    <2>1. AutosKept  BY <1>3, <1>4 DEF AutosKept, RunnerShape
    <2> QED BY <1>3, <1>4, <2>1, NoLoop DEF LoopShape
  <1>5. LoopShape' /\ RunnerShape' /\ PauseInv'
    <2>1. ASSUME NEW c \in Clients, NEW op \in Ops, Request(c, op)  PROVE LoopShape' /\ RunnerShape' /\ PauseInv'
      <3>1. \A g \in Loops : job'[g] = job[g]  BY <2>1, LifecycleAssumption DEF Request, Then, Servers
      <3> QED BY <1>4, <2>1, <3>1 DEF Request
    <2>2. ASSUME NEW p \in Procs, RowStep(p) \/ RegistryStep(p) \/ GateStep(p)  PROVE LoopShape' /\ RunnerShape' /\ PauseInv'
      BY <2>2, ProcPause DEF ProcStep
    <2> QED BY <1>4, <2>1, <2>2, LoopPause, CrashPause, Untouched
  <1> QED BY <1>1, <1>2, <1>5 DEF LifeShape

\* At the start nothing runs and the boot reconciles.
LEMMA PauseInit == ASSUME Init PROVE LifeShape /\ PauseInv
  <1>1. SingleFlight  BY DEF Init, SingleFlight
  <1>2. JobShape
    <2>1. Handed(Idle)  BY Scripts DEF Handed, Idle
    <2>2. PICK k : k = [Idle EXCEPT !.todo = ReconcileOnBoot]  OBVIOUS
    <2>3. Handed(k)
      <3>1. Fields(Idle)  BY DEF Fields, Idle
      <3>2. Left(Idle, ReconcileOnBoot) = k  BY <2>2, Scripts DEF Left, Fresh
      <3> QED BY <3>1, <3>2, FreshHanded, Scripts
    <2>4. DOMAIN job = Procs /\ \A q \in Procs : job[q] \in {k, Idle}  BY <2>2 DEF Init, Boot
    <2> QED BY <2>1, <2>3, <2>4 DEF JobShape, Init
  <1>3. \A g \in Loops : job[g].todo = << >>
    <2>1. \A h \in Loops : h \in Procs /\ h # Main  BY LifecycleAssumption DEF Procs, Servers
    <2> QED BY <2>1 DEF Init, Boot, Idle
  <1>4. LoopShape  BY <1>3 DEF Init, LoopShape, LoopFields
  <1>5. RunnerShape  BY DEF Init, RunnerShape, RunnerFields
  <1>6. PauseInv  BY DEF Init, PauseInv, Started
  <1> QED BY <1>1, <1>2, <1>4, <1>5, <1>6 DEF LifeShape

\* Once PauseAutonomous has returned, a loop begins at most the turn it was on its way
\* to: for any number of clients, loops, runners, mutations, crashes and failed builds.
THEOREM PauseHoldsAlways == Spec => []PauseHolds
<1>1. Init => LifeShape /\ PauseInv
  BY PauseInit
<1>2. LifeShape /\ PauseInv /\ [Next]_vars => (LifeShape /\ PauseInv)'
  BY PauseStep
<1>3. PauseInv => PauseHolds
  BY DEF PauseInv, PauseHolds
<1> QED BY <1>1, <1>2, <1>3, PTL DEF Spec

-----------------------------------------------------------------------------
(* NoPhantomRun: what is left to do of it.                                 *)

\* The steps of a list are its first and those of the rest.
LEMMA InTail ==
    ASSUME NEW t, Ordered(t), t # << >>, NEW s
    PROVE  In(t, s) <=> Head(t) = s \/ In(Tail(t), s)
  <1>1. /\ Len(t) \in Nat /\ Len(t) >= 1 /\ Head(t) = t[1] /\ Len(Tail(t)) = Len(t) - 1
        /\ \A i \in 1 .. Len(t) - 1 : Tail(t)[i] = t[i + 1]
    BY FirstStep
  <1>2. PICK n \in Nat : n = Len(t) - 1
    <2>1. Len(t) - 1 \in Nat  BY <1>1
    <2> QED BY <2>1
  <1>3. Len(t) = n + 1 /\ Len(Tail(t)) = n /\ \A i \in 1 .. n : Tail(t)[i] = t[i + 1]  BY <1>1, <1>2
  <1>4. ASSUME In(t, s)  PROVE Head(t) = s \/ In(Tail(t), s)
    <2>1. PICK i \in 1 .. n + 1 : t[i] = s  BY <1>3, <1>4 DEF In
    <2>2. CASE i = 1  BY <1>1, <2>1, <2>2
    <2>3. CASE i # 1
      <3>1. i - 1 \in 1 .. n /\ i - 1 + 1 = i  BY <2>3
      <3> QED BY <1>3, <2>1, <3>1 DEF In
    <2> QED BY <2>2, <2>3
  <1>5. ASSUME Head(t) = s  PROVE In(t, s)
    <2>1. 1 \in 1 .. n + 1  OBVIOUS
    <2> QED BY <1>1, <1>3, <1>5, <2>1 DEF In
  <1>6. ASSUME In(Tail(t), s)  PROVE In(t, s)
    <2>1. PICK i \in 1 .. n : Tail(t)[i] = s  BY <1>3, <1>6 DEF In
    <2>2. i + 1 \in 1 .. n + 1  OBVIOUS
    <2> QED BY <1>3, <2>1, <2>2 DEF In
  <1> QED BY <1>4, <1>5, <1>6

\* Lists of up to five steps, by their steps.
Avoids(t) == \A s \in Resumes : ~In(t, s)

\* A list avoids the steps of a resume when each of its steps does.
LEMMA AvoidLists ==
    ASSUME NEW a, NEW b, NEW c, NEW d, NEW e, a \notin Resumes
    PROVE  /\ Avoids(<< >>) /\ Avoids(<<a>>)
           /\ b \notin Resumes => Avoids(<<a, b>>)
           /\ b \notin Resumes /\ c \notin Resumes => Avoids(<<a, b, c>>)
           /\ b \notin Resumes /\ c \notin Resumes /\ d \notin Resumes => Avoids(<<a, b, c, d>>)
           /\ b \notin Resumes /\ c \notin Resumes /\ d \notin Resumes /\ e \notin Resumes => Avoids(<<a, b, c, d, e>>)
  <1>1. Avoids(<< >>)  BY DEF In, Avoids
  <1>2. Avoids(<<a>>)  BY DEF In, Avoids
  <1>3. b \notin Resumes => Avoids(<<a, b>>)  BY DEF In, Avoids
  <1>4. b \notin Resumes /\ c \notin Resumes => Avoids(<<a, b, c>>)  BY DEF In, Avoids
  <1>5. b \notin Resumes /\ c \notin Resumes /\ d \notin Resumes => Avoids(<<a, b, c, d>>)  BY DEF In, Avoids
  <1>6. b \notin Resumes /\ c \notin Resumes /\ d \notin Resumes /\ e \notin Resumes => Avoids(<<a, b, c, d, e>>)
    BY DEF In, Avoids
  <1> QED BY <1>1, <1>2, <1>3, <1>4, <1>5, <1>6

\* Only the two resumes, and neither the deferred calls nor the boot, write Running
\* without starting a loop.
LEMMA PlainScripts ==
    /\ \A op \in MutationNames \ {"resume", "correct"} : Avoids(Script[op])
    /\ Avoids(Deferred) /\ Avoids(ReconcileOnBoot) /\ Avoids(<<"getOrBuild", "spawn">>) /\ Avoids(<< >>)
    /\ In(Deferred, "setIdle") /\ In(ReconcileOnBoot, "reconcile") /\ In(<<"getOrBuild", "spawn">>, "spawn")
  <1>0. \A x \in {"stopGet", "stopCancel", "stopDelete", "ensureIdle", "ensurePlan", "getOrBuild", "setIdle", "reconcile",
                  "pauseGet", "pauseGate", "loadState", "setPaused", "beginRun", "spawn", "ensureAuto", "lock", "turn",
                  "chatLoad", "chatIdle", "stopAll"} : x \notin Resumes
    BY DEF Resumes
  <1>1. Avoids(Deferred) /\ Avoids(StopAgent)  BY <1>0, AvoidLists, Lists
  <1>2. Avoids(PauseAgent)  BY <1>0, AvoidLists DEF PauseAgent
  <1>3. Avoids(StartAutonomous) /\ Avoids(ApproveAuto)  BY <1>0, AvoidLists DEF StartAutonomous, ApproveAuto
  <1>4. Avoids(UpdateThread)  BY <1>0, AvoidLists DEF UpdateThread, stopRunner
  <1>5. Avoids(EnterPlanMode) /\ Avoids(RejectPlan)
    <2>1. RejectPlan = EnterPlanMode  BY DEF RejectPlan, EnterPlanMode
    <2> QED BY <1>0, <2>1, AvoidLists, Lists
  <1>6. Avoids(SendMessage)  BY <1>0, AvoidLists DEF SendMessage
  <1>7. Avoids(ApproveManual) /\ Avoids(Reload) /\ Avoids(ReconcileOnBoot)
    BY <1>0, AvoidLists DEF ApproveManual, Reload, ReconcileOnBoot
  <1>8. Avoids(<<"getOrBuild", "spawn">>) /\ Avoids(<< >>)  BY <1>0, AvoidLists
  <1>9. \A op \in MutationNames \ {"resume", "correct"} : Script[op] \in
           {StartAutonomous, StopAgent, PauseAgent, EnterPlanMode, RejectPlan,
            ApproveAuto, ApproveManual, SendMessage, UpdateThread, Reload}
    BY DEF Script, MutationNames
  <1>10. In(Deferred, "setIdle")
    <2>1. PICK t : t = Deferred  OBVIOUS
    <2>2. Len(t) = 4 /\ t[1] = "setIdle" /\ 1 \in 1 .. 4  BY <2>1, Lists
    <2> QED BY <2>1, <2>2 DEF In
  <1>11. In(ReconcileOnBoot, "reconcile")  BY DEF In, ReconcileOnBoot
  <1>12. In(<<"getOrBuild", "spawn">>, "spawn")
    <2>1. PICK t : t = <<"getOrBuild", "spawn">>  OBVIOUS
    <2>2. Len(t) = 2 /\ t[2] = "spawn" /\ 2 \in 1 .. 2  BY <2>1
    <2> QED BY <2>1, <2>2 DEF In
  <1> QED BY <1>1, <1>2, <1>3, <1>4, <1>5, <1>6, <1>7, <1>8, <1>9, <1>10, <1>11, <1>12

\* A chat turn is followed by its two status steps, and they end the mutation.
LEMMA ChatEnd ==
    ASSUME NEW t, Ordered(t), t # << >>
    PROVE  /\ Head(t) = "turn" => In(t, "chatIdle")
           /\ Head(t) = "chatLoad" => \A s : In(t, s) => s \in {"chatLoad", "chatIdle"}
           /\ Head(t) \in {"beginRun", "ensureAuto"} => In(Tail(t), "spawn")
  <1>1. ASSUME NEW u, Ordered(u), u # << >>, Head(u) = "chatLoad"
        PROVE  In(u, "chatIdle") /\ \A s : In(u, s) => s \in {"chatLoad", "chatIdle"}
    <2>1. PICK v : v = Tail(u)  OBVIOUS
    <2>2. Ordered(v) /\ v # << >> /\ Head(v) = "chatIdle"  BY <1>1, <2>1, FirstStep, OrderedTail, Chains DEF Links
    <2>3. Tail(v) = << >>  BY <2>2, FirstStep, Chains
    <2>4. \A s : ~In(<< >>, s)  BY DEF In
    <2> QED BY <1>1, <2>1, <2>2, <2>3, <2>4, InTail
  <1>2. ASSUME Head(t) = "turn"  PROVE In(t, "chatIdle")
    <2>1. PICK u : u = Tail(t)  OBVIOUS
    <2>2. Ordered(u) /\ u # << >> /\ Head(u) = "chatLoad"  BY <1>2, <2>1, FirstStep, OrderedTail, Chains DEF Links
    <2> QED BY <1>1, <2>1, <2>2, InTail
  <1>3. ASSUME Head(t) \in {"beginRun", "ensureAuto"}  PROVE In(Tail(t), "spawn")
    <2>1. /\ Len(t) \in Nat /\ Len(t) >= 1 /\ Head(t) = t[1] /\ Len(Tail(t)) = Len(t) - 1
          /\ \A i \in 1 .. Len(t) - 1 : Tail(t)[i] = t[i + 1]
      BY FirstStep
    <2>2. 1 \in 1 .. Len(t)  BY <2>1
    <2>3. PICK k \in 1 + 1 .. Len(t) : t[k] = "spawn"  BY <1>3, <2>1, <2>2 DEF Ordered
    <2>4. k - 1 \in 1 .. Len(t) - 1 /\ k - 1 + 1 = k  BY <2>1, <2>3
    <2> QED BY <2>1, <2>3, <2>4 DEF In
  <1> QED BY <1>1, <1>2, <1>3

-----------------------------------------------------------------------------
(* NoPhantomRun: the steps of a process.                                   *)

\* What a process is left with.
LEMMA Goes ==
    ASSUME JobShape, NEW p \in Procs
    PROVE  /\ \A t : Then(p, t) => job'[p].todo = t /\ (t # << >> => job'[p].r = job[p].r)
           /\ \A r, t : Take(p, r, t) => job'[p].todo = t
           /\ \A t : Then(p, t) => \A q \in Procs : q # p => job'[q] = job[q]
           /\ \A r, t : Take(p, r, t) => \A q \in Procs : q # p => job'[q] = job[q]
  <1>1. DOMAIN job = Procs /\ Fields(job[p])  BY DEF JobShape, Handed, Fields
  <1>2. \A j, t : Fields(j) => Left(j, t).todo = t /\ (t # << >> => Left(j, t).r = j.r)
    BY DEF Fields, Left, Idle
  <1>3. ASSUME NEW t, Then(p, t)
        PROVE  job'[p].todo = t /\ (t # << >> => job'[p].r = job[p].r) /\ \A q \in Procs : q # p => job'[q] = job[q]
    <2>1. job'[p] = Left(job[p], t)  BY <1>1, <1>3 DEF Then
    <2> QED BY <1>1, <1>2, <1>3, <2>1 DEF Then
  <1>4. ASSUME NEW r, NEW t, Take(p, r, t)  PROVE job'[p].todo = t /\ \A q \in Procs : q # p => job'[q] = job[q]
    <2>1. PICK k : k = [job[p] EXCEPT !.r = r]  OBVIOUS
    <2>2. Fields(k)  BY <1>1, <2>1 DEF Fields
    <2>3. job' = [job EXCEPT ![p] = Left(k, t)]  BY <1>4, <2>1 DEF Take
    <2> QED BY <1>1, <1>2, <2>2, <2>3
  <1> QED BY <1>3, <1>4

\* A process moves no loop that was started.
LEMMA ProcLoops ==
    ASSUME LifeShape, NEW p \in Procs, ProcStep(p), NEW g \in Loops, loop[g].pc # "unused"
    PROVE  loop'[g].pc = loop[g].pc /\ loop'[g].on = loop[g].on
  <1>1. LoopShape /\ Handed(job[p])  BY DEF LifeShape, JobShape
  <1>2. DOMAIN loop = Loops /\ DOMAIN loop[g] = LoopFields  BY <1>1 DEF LoopShape
  <1>3. ASSUME NEW r, Cancel(r)  PROVE loop'[g].pc = loop[g].pc /\ loop'[g].on = loop[g].on
    <2>1. loop'[g] = [loop[g] EXCEPT !.ctx = "canceled"] \/ loop'[g] = loop[g]  BY <1>3 DEF Cancel
    <2> QED BY <1>2, <2>1 DEF LoopFields
  <1>4. CASE PauseGate(p) \/ ResumeGate(p)
    <2>1. PICK r : r = Mine(p)  OBVIOUS
    <2>2. r \in Runners  BY <1>1, <1>4, <2>1 DEF PauseGate, ResumeGate, At, Handed, Needy, Mine
    <2>3. loop' = Gates(r, "no", "yes", 0) \/ loop' = Gates(r, "yes", "no", 1)
      BY <1>4, <2>1 DEF PauseGate, ResumeGate, Pause, Resume
    <2>4. Gated(loop', r)  BY <1>1, <2>2, <2>3, GatesGated
    <2> QED BY <2>4 DEF Gated
  <1>5. CASE Spawn(p)
    <2>1. PICK h \in Loops : /\ \A x \in Loops : loop[x].pc = "unused" <=> x >= h
                             /\ loop' = [loop EXCEPT ![h].pc = "init", ![h].on = Mine(p)]
      BY <1>5 DEF Spawn
    <2>2. h >= h  BY DEF Loops
    <2>3. g # h  BY <2>1, <2>2
    <2> QED BY <1>2, <2>1, <2>3
  <1>6. CASE RegistryStep(p)
    <2>1. CASE StopCancel(p) \/ StopAll(p)  BY <1>3, <2>1 DEF StopCancel, StopAll
    <2>2. CASE ~StopCancel(p) /\ ~StopAll(p) /\ ~Spawn(p)
      BY <1>6, <2>2 DEF RegistryStep, GetOrBuild, BuildDone, BuildFailed, StopGet, StopDelete
    <2> QED BY <1>5, <2>1, <2>2
  <1>7. CASE GateStep(p) /\ ~PauseGate(p) /\ ~ResumeGate(p)
    BY <1>7 DEF GateStep, PauseGet, ResumeGet, IsActive, ChatLock, ChatTurn, Reconcile
  <1>8. CASE RowStep(p)  BY <1>8 DEF RowStep, Write, LoadState, ChatLoad
  <1> QED BY <1>4, <1>6, <1>7, <1>8 DEF ProcStep

\* Nor does it end one.
LEMMA ProcLive ==
    ASSUME LifeShape, NEW p \in Procs, ProcStep(p)
    PROVE  \A g \in Loops : Live(g) => Live(g)'
  BY ProcLoops DEF Live

\* r.mu: a process takes it for a turn and gives it back after.
LEMMA ProcMu ==
    ASSUME LifeShape, NEW p \in Procs, ProcStep(p), NEW r \in Runners
    PROVE  \/ runner'[r].mu = runner[r].mu /\ ~At(p, "turn")
           \/ ChatLock(p) /\ r = Mine(p) /\ runner'[r].mu = p
           \/ ChatLock(p) /\ r # Mine(p) /\ runner'[r].mu = runner[r].mu
           \/ ChatTurn(p) /\ r = Mine(p) /\ runner'[r].mu = Nobody
           \/ ChatTurn(p) /\ r # Mine(p) /\ runner'[r].mu = runner[r].mu
  <1>1. DOMAIN runner = Runners /\ DOMAIN runner[r] = RunnerFields /\ JobShape /\ Handed(job[p])
    BY DEF LifeShape, RunnerShape, JobShape
  <1>2. CASE runner' = runner /\ ~At(p, "turn")  BY <1>2
  <1>3. CASE ChatLock(p)
    <2>1. runner' = [runner EXCEPT ![Mine(p)].mu = p]  BY <1>3 DEF ChatLock, Lock
    <2> QED BY <1>1, <1>3, <2>1 DEF RunnerFields
  <1>4. CASE ChatTurn(p)
    <2>1. runner' = [runner EXCEPT ![Mine(p)].mu = Nobody]  BY <1>4 DEF ChatTurn, Unlock
    <2> QED BY <1>1, <1>4, <2>1 DEF RunnerFields
  <1>5. CASE RegistryStep(p)
    <2>0. ~At(p, "turn")
      <3>1. CASE p \in building  BY <1>1, <3>1 DEF JobShape, At
      <3>2. CASE p \notin building
        BY <1>5, <3>2 DEF RegistryStep, GetOrBuild, BuildDone, BuildFailed, StopGet, StopCancel, StopDelete, StopAll, Spawn, At
      <3> QED BY <3>1, <3>2
    <2>1. CASE StartBuild(p)
      <3>1. runner' = [runner EXCEPT ![built + 1].prompt = row.mode]  BY <2>1 DEF StartBuild
      <3> QED BY <1>1, <2>0, <3>1 DEF RunnerFields
    <2>2. CASE Spawn(p)
      <3>1. PICK g : runner' = [q \in Runners |-> IF q = entry THEN [runner[q] EXCEPT !.cancel = g] ELSE runner[q]]
        BY <2>2 DEF Spawn
      <3> QED BY <1>1, <2>0, <3>1 DEF RunnerFields
    <2>3. CASE ~StartBuild(p) /\ ~Spawn(p)
      <3>1. runner' = runner
        BY <1>5, <2>3 DEF RegistryStep, GetOrBuild, TakeEntry, BuildDone, BuildFailed, StopGet, StopCancel, StopDelete, StopAll
      <3> QED BY <1>2, <2>0, <3>1
    <2> QED BY <2>1, <2>2, <2>3
  <1>6. CASE GateStep(p) /\ ~ChatLock(p) /\ ~ChatTurn(p)
    <2>1. runner' = runner /\ ~At(p, "turn")
      BY <1>6 DEF GateStep, PauseGet, PauseGate, ResumeGet, IsActive, ResumeGate, Reconcile, At
    <2> QED BY <1>2, <2>1
  <1>7. CASE RowStep(p)
    <2>1. runner' = runner /\ ~At(p, "turn")  BY <1>7 DEF RowStep, Write, LoadState, ChatLoad, At
    <2> QED BY <1>2, <2>1
  <1> QED BY <1>3, <1>4, <1>5, <1>6, <1>7 DEF ProcStep

\* The holder of r.mu keeps it until its turn ends: a process's step.
LEMMA HolderProc ==
    ASSUME LifeShape, \A r \in Runners : Holder(r), NEW p \in Procs, ProcStep(p), ~BuildFailed(p)
    PROVE  \A r \in Runners : Holder(r)'
  <1> TAKE r \in Runners
  <1>1. JobShape /\ Handed(job[p]) /\ Holder(r)  BY DEF LifeShape, JobShape
  <1>2. Job(p)  BY <1>1, RowJob, RegistryJob, GateJob DEF ProcStep
  <1>3. \A q \in Procs : q # p => job'[q] = job[q]  BY <1>1, <1>2, JobKept
  <1>4. PICK x : x = runner[r].mu  OBVIOUS
  <1>5. CASE runner'[r].mu = x /\ (~At(p, "turn") \/ Mine(p) # r)
    <2>1. CASE x = Nobody  BY <1>5, <2>1 DEF Holder
    <2>2. CASE x \in Loops /\ loop[x].pc \in {"kickTurn", "tickTurn"} /\ loop[x].on = r
      <3>1. loop'[x].pc = loop[x].pc /\ loop'[x].on = loop[x].on  BY <2>2, ProcLoops
      <3> QED BY <1>5, <2>2, <3>1 DEF Holder
    <2>3. CASE x \in Procs /\ At(x, "turn") /\ Mine(x) = r
      <3>1. job'[x] = job[x]  BY <1>3, <1>5, <2>3
      <3> QED BY <1>5, <2>3, <3>1 DEF Holder, At, Mine
    <2> QED BY <1>1, <1>4, <2>1, <2>2, <2>3 DEF Holder
  <1>6. CASE ChatLock(p) /\ r = Mine(p) /\ runner'[r].mu = p
    <2>1. PICK t : t = job[p].todo  OBVIOUS
    <2>2. Ordered(t) /\ t # << >> /\ Head(t) = "lock"  BY <1>1, <1>6, <2>1 DEF ChatLock, At, Handed
    <2>3. Tail(t) # << >> /\ Head(Tail(t)) = "turn"  BY <2>2, FirstStep, Chains DEF Links
    <2>4. job'[p].todo = Tail(t) /\ job'[p].r = job[p].r  BY <1>1, <1>6, <2>1, <2>3, Goes DEF ChatLock, Advance
    <2> QED BY <1>6, <2>3, <2>4 DEF Holder, At, Mine
  <1>7. CASE runner'[r].mu = Nobody  BY <1>7 DEF Holder
  <1>8. ChatLock(p) => ~At(p, "turn")  BY DEF ChatLock, At
  <1> QED BY <1>4, <1>5, <1>6, <1>7, <1>8, ProcMu

\* What a loop's step moves.
Turning == {"kickTurn", "tickTurn"}
LoopMove(g) ==
    /\ loop[g].pc \notin {"unused", "done"}
    /\ \A h \in Loops : h # g => loop'[h].pc = loop[h].pc /\ loop'[h].on = loop[h].on
    /\ Exit(g) \/ loop'[g].pc \notin {"unused", "done"}
    /\ \/ loop[g].pc \notin Turning /\ \A r \in Runners : runner'[r].mu = runner[r].mu
       \/ /\ loop[g].pc \notin Turning /\ loop'[g].pc \in Turning /\ loop'[g].on = loop[g].on
          /\ \A r \in Runners : runner'[r].mu = IF r = loop[g].on THEN g ELSE runner[r].mu
       \/ /\ loop[g].pc \in Turning
          /\ \A r \in Runners : runner'[r].mu = IF r = loop[g].on THEN Nobody ELSE runner[r].mu

\* Every step of a loop moves like that.
LEMMA LoopMoves ==
    ASSUME LifeShape, PauseInv, NEW g \in Loops, LoopStep(g)
    PROVE  LoopMove(g)
  <1>0. /\ DOMAIN loop = Loops /\ \A h \in Loops : DOMAIN loop[h] = LoopFields
        /\ DOMAIN runner = Runners /\ \A r \in Runners : DOMAIN runner[r] = RunnerFields
    BY DEF LifeShape, LoopShape, RunnerShape
  <1>1. CASE LoopInit(g)
    <2>1. runner' = [runner EXCEPT ![loop[g].on].auto = g] /\ loop[g].pc = "init"  BY <1>1 DEF LoopInit
    <2>2. \A r \in Runners : runner'[r].mu = runner[r].mu  BY <1>0, <2>1 DEF RunnerFields
    <2>3. ASSUME NEW h \in Loops
          PROVE  loop'[h].on = loop[h].on /\ loop'[h].pc = IF h = g THEN "kick" ELSE loop[h].pc
      <3>1. loop'[h] = [loop[h] EXCEPT !.pc    = IF h = g THEN "kick" ELSE @,
                                       !.since = IF loop[h].on = loop[g].on THEN 0 ELSE @]
        BY <1>1 DEF LoopInit
      <3> QED BY <1>0, <3>1 DEF LoopFields
    <2> QED BY <2>1, <2>2, <2>3 DEF LoopMove, Turning
  <1>2. CASE TurnStart(g)
    <2>1. loop[g].pc \in {"kick", "tick"} /\ runner' = [runner EXCEPT ![loop[g].on].mu = g]  BY <1>2 DEF TurnStart, Lock
    <2>2. \A r \in Runners : runner'[r].mu = IF r = loop[g].on THEN g ELSE runner[r].mu  BY <1>0, <2>1 DEF RunnerFields
    <2>3. PICK n : loop' = [loop EXCEPT ![g].since = n, ![g].pc = IF @ = "kick" THEN "kickTurn" ELSE "tickTurn"]
      <3>1. PICK n : n = IF loop[runner[loop[g].on].auto].paused = "yes" THEN loop[g].since + 1 ELSE loop[g].since  OBVIOUS
      <3>2. loop' = [loop EXCEPT ![g].since = IF loop[runner[loop[g].on].auto].paused = "yes" THEN @ + 1 ELSE @,
                                 ![g].pc = IF @ = "kick" THEN "kickTurn" ELSE "tickTurn"]
        BY <1>2 DEF TurnStart
      <3> QED BY <3>1, <3>2
    <2>4. /\ loop'[g].pc \in Turning /\ loop'[g].on = loop[g].on
          /\ \A h \in Loops : h # g => loop'[h] = loop[h]
      BY <1>0, <2>3 DEF LoopFields, Turning
    <2>5. \A x \in Turning : x \notin {"unused", "done", "kick", "tick"}  BY DEF Turning
    <2> QED BY <2>1, <2>2, <2>4, <2>5 DEF LoopMove
  <1>3. CASE \E o \in {"ok", "none", "err"} : TurnEnd(g, o)
    <2>1. PICK o \in {"ok", "none", "err"} : TurnEnd(g, o)  BY <1>3
    <2>2. PICK l : l = IF loop[g].pc = "kickTurn" THEN AfterKick(o) ELSE AfterTick(o)  OBVIOUS
    <2>3. l \notin {"unused", "done"}  BY <2>2 DEF AfterKick, AfterTick
    <2>4. loop[g].pc \in Turning /\ loop' = [loop EXCEPT ![g].pc = l] /\ runner' = [runner EXCEPT ![loop[g].on].mu = Nobody]
      BY <2>1, <2>2 DEF TurnEnd, Goto, Unlock, Turning
    <2>5. \A r \in Runners : runner'[r].mu = IF r = loop[g].on THEN Nobody ELSE runner[r].mu  BY <1>0, <2>4 DEF RunnerFields
    <2>6. loop'[g].pc = l /\ \A h \in Loops : h # g => loop'[h] = loop[h]  BY <1>0, <2>4 DEF LoopFields
    <2> QED BY <2>3, <2>4, <2>5, <2>6 DEF LoopMove, Turning
  <1>4. CASE CtxDone(g) \/ TimerDone(g)
    <2>1. Exit(g) /\ loop[g].pc \in {"blocked", "select"}  BY <1>4 DEF CtxDone, TimerDone
    <2>2. runner' = runner /\ \A h \in Loops : h # g => loop'[h] = loop[h]  BY <1>0, <2>1 DEF Exit
    <2> QED BY <2>1, <2>2 DEF LoopMove, Turning
  <1>5. CASE FailPause(g)
    <2>1. loop[g].pc \in {"kickNone", "kickFail", "tickFail"} /\ runner' = runner  BY <1>5 DEF FailPause
    <2>2. PICK r \in Runners : r = loop[g].on  BY <2>1, Inside
    <2>3. PICK L : L = Pause(r)  OBVIOUS
    <2>4. Gated(L, r)  BY <2>3, GatesGated DEF Pause, LifeShape
    <2>5. loop' = [L EXCEPT ![g].pc = IF @ = "tickFail" THEN "tickRow" ELSE "kickRow"]  BY <1>5, <2>2, <2>3 DEF FailPause
    <2>6. loop'[g].pc \in {"tickRow", "kickRow"} /\ \A h \in Loops : h # g => loop'[h] = L[h]
      BY <2>4, <2>5 DEF Gated, LoopFields
    <2> QED BY <2>1, <2>4, <2>6 DEF LoopMove, Turning, Gated
  <1>6. CASE FailRow(g) \/ Seed(g) \/ Bump(g) \/ Gate(g) \/ Wake(g) \/ Tick(g)
    <2>1. runner' = runner /\ loop[g].pc \in {"kickRow", "tickRow", "seed", "bump", "gate", "blocked", "select"}
      BY <1>6 DEF FailRow, Seed, Bump, Gate, Wake, Tick
    <2>2. \E l, n, w : /\ l \notin {"unused", "done"}
                       /\ \/ loop' = [loop EXCEPT ![g].pc = l]
                          \/ loop' = [loop EXCEPT ![g].round = n, ![g].pc = l]
                          \/ loop' = [loop EXCEPT ![g].pc = l, ![g].wait = w]
      <3>1. CASE FailRow(g)
        <4>1. PICK l : l = IF loop[g].pc = "kickRow" THEN "seed" ELSE "gate"  OBVIOUS
        <4>2. loop' = [loop EXCEPT ![g].pc = l] /\ l \notin {"unused", "done"}  BY <3>1, <4>1 DEF FailRow, Goto
        <4> QED BY <4>2
      <3>2. CASE Seed(g)  BY <3>2 DEF Seed
      <3>3. CASE Bump(g)
        <4>1. PICK n : n = loop[g].round + 1  OBVIOUS
        <4>2. loop' = [loop EXCEPT ![g].round = @ + 1, ![g].pc = "gate"]  BY <3>3 DEF Bump
        <4>3. loop' = [loop EXCEPT ![g].round = n, ![g].pc = "gate"]  BY <4>1, <4>2
        <4> QED BY <4>3
      <3>4. CASE Gate(g)
        <4>1. CASE loop' = [loop EXCEPT ![g].pc = "select"]  BY <4>1
        <4>2. CASE loop' = [loop EXCEPT ![g].pc = "blocked", ![g].wait = <<runner[loop[g].on].auto, loop[runner[loop[g].on].auto].gen>>]
          BY <4>2
        <4> QED BY <3>4, <4>1, <4>2 DEF Gate, Goto
      <3>5. CASE Wake(g)  BY <3>5 DEF Wake
      <3>6. CASE Tick(g)  BY <3>6 DEF Tick, Goto
      <3> QED BY <1>6, <3>1, <3>2, <3>3, <3>4, <3>5, <3>6
    <2>3. PICK l, n, w : /\ l \notin {"unused", "done"}
                         /\ \/ loop' = [loop EXCEPT ![g].pc = l]
                            \/ loop' = [loop EXCEPT ![g].round = n, ![g].pc = l]
                            \/ loop' = [loop EXCEPT ![g].pc = l, ![g].wait = w]
      BY <2>2
    <2>4. Moved(g, l, loop[g].wait) \/ Moved(g, l, w)  BY <2>3, Moves
    <2> QED BY <2>1, <2>3, <2>4 DEF LoopMove, Turning, Moved
  <1> QED BY <1>1, <1>2, <1>3, <1>4, <1>5, <1>6 DEF LoopStep

\* The holder of r.mu keeps it until its turn ends: a loop's step.
LEMMA HolderLoop ==
    ASSUME LifeShape, PauseInv, \A r \in Runners : Holder(r), NEW g \in Loops, LoopStep(g)
    PROVE  \A r \in Runners : Holder(r)'
  <1> TAKE r \in Runners
  <1>1. JobShape /\ LoopShape /\ Holder(r)  BY DEF LifeShape
  <1>2. LoopMove(g)  BY LoopMoves
  <1>3. job[g].todo = << >> /\ g \in Procs  BY <1>1, <1>2 DEF LoopShape, LoopMove, Procs
  <1>4. job' = job \/ Job(g)  BY LoopJob
  <1>5. \A q \in Procs : q # g => job'[q] = job[q]  BY <1>1, <1>3, <1>4, JobKept
  <1>6. PICK x : x = runner[r].mu  OBVIOUS
  <1>7. CASE runner'[r].mu = x /\ (loop[g].pc \notin Turning \/ loop[g].on # r)
    <2>1. CASE x = Nobody  BY <1>7, <2>1 DEF Holder
    <2>2. CASE x \in Loops /\ loop[x].pc \in Turning /\ loop[x].on = r
      <3>1. x # g  BY <1>7, <2>2
      <3> QED BY <1>2, <1>7, <2>2, <3>1 DEF Holder, LoopMove, Turning
    <2>3. CASE x \in Procs /\ At(x, "turn") /\ Mine(x) = r
      <3>1. x # g  BY <1>3, <2>3 DEF At
      <3> QED BY <1>5, <1>7, <2>3, <3>1 DEF Holder, At, Mine
    <2> QED BY <1>1, <1>6, <2>1, <2>2, <2>3 DEF Holder, Turning
  <1>8. CASE runner'[r].mu = Nobody  BY <1>8 DEF Holder
  <1>9. CASE runner'[r].mu = g /\ loop'[g].pc \in Turning /\ loop'[g].on = r  BY <1>9 DEF Holder, Turning
  <1> QED BY <1>2, <1>6, <1>7, <1>8, <1>9 DEF LoopMove

-----------------------------------------------------------------------------
(* NoPhantomRun: who writes what follows Running.                          *)

\* What a step keeps of the lists.
Kept ==
    /\ \A p \in Procs, s \in Dues \cup {"chatIdle"} : Has(p, s) => Has(p, s)'
    /\ \A g \in Loops : Live(g) => Live(g)'

\* A step that keeps the lists and the row keeps who writes after Running.
LEMMA DueKept == ASSUME Kept, row' = row, Due PROVE Due'
  <1>1. Owed => Owed'  BY DEF Kept, Owed
  <1>2. ChatOwed => ChatOwed'  BY DEF Kept, ChatOwed
  <1> QED BY <1>1, <1>2 DEF Due

\* Going on with the rest of a list.
LEMMA RestKept ==
    ASSUME LifeShape, NEW p \in Procs, ProcStep(p), ~BuildFailed(p), job[p].todo # << >>,
           \/ job'[p].todo = Tail(job[p].todo)
           \/ job'[p].todo = job[p].todo
    PROVE  /\ Head(job[p].todo) \notin Dues \cup {"chatIdle"} => Kept
           /\ Resuming(p)' => Resuming(p)
  <1>1. JobShape /\ Handed(job[p])  BY DEF LifeShape, JobShape
  <1>2. Job(p)  BY <1>1, RowJob, RegistryJob, GateJob DEF ProcStep
  <1>3. \A q \in Procs : q # p => job'[q] = job[q]  BY <1>1, <1>2, JobKept
  <1>4. PICK t : t = job[p].todo  OBVIOUS
  <1>5. Ordered(t) /\ t # << >>  BY <1>1, <1>4 DEF Handed
  <1>6. \A s : In(t, s) <=> Head(t) = s \/ In(Tail(t), s)  BY <1>5, InTail
  <1>7. job'[p].todo = Tail(t) \/ job'[p].todo = t  BY <1>4
  <1>8. \A s : Has(p, s)' => Has(p, s)  BY <1>4, <1>6, <1>7 DEF Has
  <1>9. \A s : Has(p, s) /\ s # Head(t) => Has(p, s)'  BY <1>4, <1>6, <1>7 DEF Has
  <1>10. \A q \in Procs : q # p => \A s : Has(q, s) => Has(q, s)'  BY <1>3 DEF Has
  <1>11. Head(t) \notin Dues \cup {"chatIdle"} => Kept  BY <1>9, <1>10, ProcLive DEF Kept
  <1> QED BY <1>4, <1>8, <1>11 DEF Resuming

\* The steps on the row.
LEMMA RowDue ==
    ASSUME LifeShape, DOMAIN row = RowFields, Due, NEW p \in Procs, RowStep(p), ~BuildFailed(p), ~Resuming(p)
    PROVE  DOMAIN row' = RowFields /\ Due' /\ ~Resuming(p)'
  <1>1. JobShape /\ Handed(job[p]) /\ ProcStep(p)  BY DEF LifeShape, JobShape, ProcStep
  <1>2. PICK t : t = job[p].todo  OBVIOUS
  <1>3. Ordered(t)  BY <1>1, <1>2 DEF Handed
  <1>4. ASSUME NEW s, NEW new, Write(p, s, new)
        PROVE  row' = new /\ job'[p].todo = Tail(t) /\ t # << >> /\ Head(t) = s /\ ~Resuming(p)'
    <2>1. row' = new /\ job'[p].todo = Tail(t) /\ t # << >> /\ Head(t) = s
      BY <1>1, <1>2, <1>4, Goes DEF Write, Advance, At
    <2> QED BY <1>1, <1>2, <2>1, RestKept
  <1>5. \A st, mode : /\ DOMAIN Narrow(st, mode) = RowFields /\ DOMAIN Ensure(st, mode) = RowFields
                      /\ Ensure(st, mode).st = st /\ (st # "running" => Narrow(st, mode).st # "running")
    BY DEF Narrow, Ensure, RowFields
  <1>6. ASSUME NEW s, NEW st \in {"idle", "paused"}, NEW m, NEW new, new = Narrow(st, m) \/ new = Ensure(st, m), Write(p, s, new)
        PROVE  DOMAIN row' = RowFields /\ Due' /\ ~Resuming(p)'
    <2>1. DOMAIN new = RowFields /\ new.st # "running"  BY <1>5, <1>6
    <2> QED BY <1>4, <1>6, <2>1 DEF Due
  <1>7. ASSUME NEW s \in {"beginRun", "ensureAuto"}, NEW new, DOMAIN new = RowFields, Write(p, s, new)
        PROVE  DOMAIN row' = RowFields /\ Due' /\ ~Resuming(p)'
    <2>1. row' = new /\ job'[p].todo = Tail(t) /\ t # << >> /\ Head(t) = s /\ ~Resuming(p)'  BY <1>4, <1>7
    <2>2. In(Tail(t), "spawn")  BY <1>3, <2>1, ChatEnd
    <2>3. Has(p, "spawn")'  BY <2>1, <2>2 DEF Has
    <2>4. Owed'  BY <2>3 DEF Owed, Dues
    <2> QED BY <1>7, <2>1, <2>4 DEF Due
  <1>8. CASE Write(p, "setIdle", Narrow("idle", "normal"))  BY <1>6, <1>8
  <1>9. CASE Write(p, "setPaused", Narrow("paused", row.mode))  BY <1>6, <1>9
  <1>10. CASE Write(p, "chatIdle", Narrow("idle", row.mode))  BY <1>6, <1>10
  <1>11. CASE Write(p, "ensureIdle", Ensure("idle", "normal"))  BY <1>6, <1>11
  <1>12. CASE Write(p, "ensurePlan", Ensure("idle", "plan"))  BY <1>6, <1>12
  <1>13. CASE Write(p, "ensureAuto", Ensure("running", "autonomous"))  BY <1>5, <1>7, <1>13
  <1>14. CASE Write(p, "beginRun", Row("running", "autonomous", 0, row.run + 1))
    <2>1. DOMAIN Row("running", "autonomous", 0, row.run + 1) = RowFields  BY DEF Row, RowFields
    <2> QED BY <1>7, <1>14, <2>1
  <1>15. CASE Write(p, "setRunning", Narrow("running", row.mode))
    <2>1. t # << >> /\ Head(t) = "setRunning"  BY <1>4, <1>15
    <2>2. In(t, "setRunning")  BY <1>3, <2>1, InTail
    <2> QED BY <1>2, <2>2 DEF Resuming, Resumes, Has
  <1>16. CASE LoadState(p)
    <2>1. row' = row /\ t # << >> /\ Head(t) = "loadState"  BY <1>2, <1>16 DEF LoadState, At
    <2>2. PICK b : job' = [job EXCEPT ![p] = Left([@ EXCEPT !.budget = b], IF row.st = "none" THEN << >> ELSE Tail(job[p].todo))]
      BY <1>16 DEF LoadState
    <2>3. PICK k : k = [job[p] EXCEPT !.budget = b]  OBVIOUS
    <2>4. Fields(k)  BY <1>1, <2>3 DEF Handed, Fields
    <2>5. PICK u : u = IF row.st = "none" THEN << >> ELSE Tail(t)  OBVIOUS
    <2>6. job'[p] = Left(k, u)  BY <1>1, <1>2, <2>2, <2>3, <2>5 DEF JobShape
    <2>7. job'[p].todo = u  BY <2>4, <2>6 DEF Left, Idle, Fields
    <2>8. CASE row.st = "none"
      <3>1. job'[p].todo = << >>  BY <2>5, <2>7, <2>8
      <3>2. ~Resuming(p)'  BY <3>1, PlainScripts DEF Resuming, Has, Avoids
      <3> QED BY <2>1, <2>8, <3>2 DEF Due
    <2>9. CASE row.st # "none"
      <3>1. job'[p].todo = Tail(job[p].todo)  BY <1>2, <2>5, <2>7, <2>9
      <3>2. Head(job[p].todo) \notin Dues \cup {"chatIdle"}  BY <1>2, <2>1 DEF Dues
      <3> QED BY <1>1, <1>2, <2>1, <3>1, <3>2, RestKept, DueKept
    <2> QED BY <2>8, <2>9
  <1>17. CASE ChatLoad(p)
    <2>1. row' = row /\ t # << >> /\ Head(t) = "chatLoad"  BY <1>2, <1>17 DEF ChatLoad, At
    <2>2. CASE row.st = "none" \/ (row.st = "running" /\ row.mode = "autonomous")
      <3>1. Then(p, << >>)  BY <1>17, <2>2 DEF ChatLoad
      <3>2. job'[p].todo = << >> /\ \A q \in Procs : q # p => job'[q] = job[q]  BY <1>1, <3>1, Goes
      <3>3. ~Resuming(p)'  BY <3>2, PlainScripts DEF Resuming, Has, Avoids
      <3>4. \A s \in Dues : ~Has(p, s)
        <4>1. \A s : In(t, s) => s \in {"chatLoad", "chatIdle"}  BY <1>3, <2>1, ChatEnd
        <4> QED BY <1>2, <4>1 DEF Has, Dues
      <3>5. Owed => Owed'
        <4>1. \A q \in Procs, s \in Dues : Has(q, s) => Has(q, s)'  BY <3>2, <3>4 DEF Has
        <4> QED BY <1>1, <4>1, ProcLive DEF Owed
      <3> QED BY <2>1, <2>2, <3>3, <3>5 DEF Due
    <2>3. CASE ~(row.st = "none" \/ (row.st = "running" /\ row.mode = "autonomous"))
      <3>1. Then(p, Tail(job[p].todo))  BY <1>17, <2>3 DEF ChatLoad
      <3>2. job'[p].todo = Tail(job[p].todo)  BY <1>1, <3>1, Goes
      <3>3. Head(job[p].todo) \notin Dues \cup {"chatIdle"}  BY <1>2, <2>1 DEF Dues
      <3> QED BY <1>1, <1>2, <2>1, <3>2, <3>3, RestKept, DueKept
    <2> QED BY <2>2, <2>3
  <1> QED BY <1>8, <1>9, <1>10, <1>11, <1>12, <1>13, <1>14, <1>15, <1>16, <1>17 DEF RowStep

\* The steps of the registry.
LEMMA RegistryDue ==
    ASSUME LifeShape, DOMAIN row = RowFields, Due, NEW p \in Procs, RegistryStep(p), ~BuildFailed(p), ~Resuming(p)
    PROVE  DOMAIN row' = RowFields /\ Due' /\ ~Resuming(p)'
  <1>1. JobShape /\ Handed(job[p]) /\ ProcStep(p)  BY DEF LifeShape, JobShape, ProcStep
  <1>2. row' = row
    BY DEF RegistryStep, GetOrBuild, BuildDone, BuildFailed, StopGet, StopCancel, StopDelete, StopAll, Spawn
  <1>3. ASSUME job[p].todo # << >>, Head(job[p].todo) \notin Dues \cup {"chatIdle"},
               job'[p].todo = Tail(job[p].todo) \/ job'[p].todo = job[p].todo
        PROVE  Due' /\ ~Resuming(p)'
    BY <1>1, <1>2, <1>3, RestKept, DueKept
  <1>4. CASE GetOrBuild(p)
    <2>1. job[p].todo # << >> /\ Head(job[p].todo) = "getOrBuild"  BY <1>4 DEF GetOrBuild, At
    <2>2. job' = job \/ (\E r : Take(p, r, Tail(job[p].todo)) \/ Take(p, r, job[p].todo))
      BY <1>4 DEF GetOrBuild, TakeEntry, StartBuild
    <2>3. job'[p].todo = Tail(job[p].todo) \/ job'[p].todo = job[p].todo  BY <1>1, <2>2, Goes
    <2> QED BY <1>2, <1>3, <2>1, <2>3 DEF Dues
  <1>5. CASE BuildDone(p)
    <2>1. job[p].todo # << >> /\ Head(job[p].todo) = "getOrBuild"  BY <1>1, <1>5 DEF BuildDone, JobShape, At
    <2>2. job'[p].todo = Tail(job[p].todo)  BY <1>1, <1>5, Goes DEF BuildDone, Advance
    <2> QED BY <1>2, <1>3, <2>1, <2>2 DEF Dues
  <1>6. CASE StopCancel(p) \/ StopDelete(p) \/ StopAll(p)
    <2>1. job[p].todo # << >> /\ Head(job[p].todo) \in {"stopCancel", "stopDelete", "stopAll"} /\ Advance(p)
      BY <1>6 DEF StopCancel, StopDelete, StopAll, At
    <2>2. job'[p].todo = Tail(job[p].todo)  BY <1>1, <2>1, Goes DEF Advance
    <2> QED BY <1>2, <1>3, <2>1, <2>2 DEF Dues
  <1>7. CASE StopGet(p)
    <2>1. job[p].todo # << >> /\ Head(job[p].todo) = "stopGet"  BY <1>7 DEF StopGet, At
    <2>2. CASE entry # 0
      <3>1. Take(p, entry, Tail(job[p].todo))  BY <1>7, <2>2 DEF StopGet
      <3>2. job'[p].todo = Tail(job[p].todo)  BY <1>1, <3>1, Goes
      <3> QED BY <1>2, <1>3, <2>1, <3>2 DEF Dues
    <2>3. CASE entry = 0
      <3>1. PICK t : t = job[p].todo  OBVIOUS
      <3>2. Ordered(t) /\ t # << >> /\ Head(t) = "stopGet"  BY <1>1, <2>1, <3>1 DEF Handed
      <3>3. PICK u : u = Tail(t)  OBVIOUS
      <3>4. Ordered(u) /\ u # << >> /\ Head(u) = "stopCancel"  BY <3>2, <3>3, FirstStep, OrderedTail, Chains DEF Links
      <3>5. PICK v : v = Tail(u)  OBVIOUS
      <3>6. Ordered(v) /\ v # << >> /\ Head(v) = "stopDelete"  BY <3>4, <3>5, FirstStep, OrderedTail, Chains DEF Links
      <3>7. \A s : In(t, s) <=> s \in {"stopGet", "stopCancel", "stopDelete"} \/ In(Tail(v), s)
        <4>1. \A s : In(t, s) <=> Head(t) = s \/ In(u, s)  BY <3>2, <3>3, InTail
        <4>2. \A s : In(u, s) <=> Head(u) = s \/ In(v, s)  BY <3>4, <3>5, InTail
        <4>3. \A s : In(v, s) <=> Head(v) = s \/ In(Tail(v), s)  BY <3>6, InTail
        <4> QED BY <3>2, <3>4, <3>6, <4>1, <4>2, <4>3
      <3>8. Then(p, SubSeq(t, 4, Len(t)))  BY <1>7, <2>3, <3>1 DEF StopGet
      <3>9. SubSeq(t, 4, Len(t)) = Tail(v)  BY <3>2, <3>3, <3>5, StopSkips
      <3>10. job'[p].todo = Tail(v) /\ \A q \in Procs : q # p => job'[q] = job[q]  BY <1>1, <3>8, <3>9, Goes
      <3>11. \A s \in Dues \cup {"chatIdle"} \cup Resumes : Has(p, s) <=> Has(p, s)'
        <4>1. \A s \in Dues \cup {"chatIdle"} \cup Resumes : s \notin {"stopGet", "stopCancel", "stopDelete"}  BY DEF Dues, Resumes
        <4> QED BY <3>1, <3>7, <3>10, <4>1 DEF Has
      <3>12. Kept
        <4>1. \A q \in Procs : q # p => \A s : Has(q, s) => Has(q, s)'  BY <3>10 DEF Has
        <4> QED BY <1>1, <3>11, <4>1, ProcLive DEF Kept
      <3>13. ~Resuming(p)'  BY <3>11 DEF Resuming
      <3> QED BY <1>2, <3>12, <3>13, DueKept
    <2> QED BY <2>2, <2>3
  <1>8. CASE Spawn(p)
    <2>1. job[p].todo # << >> /\ Advance(p)  BY <1>8 DEF Spawn, At
    <2>2. job'[p].todo = Tail(job[p].todo)  BY <1>1, <2>1, Goes DEF Advance
    <2>3. ~Resuming(p)'  BY <1>1, <2>1, <2>2, RestKept
    <2>4. PICK g \in Loops : loop' = [loop EXCEPT ![g].pc = "init", ![g].on = Mine(p)]  BY <1>8 DEF Spawn
    <2>5. loop'[g].pc = "init"  BY <2>4 DEF LifeShape, LoopShape, LoopFields
    <2>6. Owed'  BY <2>5 DEF Owed, Live
    <2> QED BY <1>2, <2>3, <2>6 DEF Due
  <1> QED BY <1>2, <1>4, <1>5, <1>6, <1>7, <1>8 DEF RegistryStep

\* The steps of pause, chat turns and the boot.
LEMMA GateDue ==
    ASSUME LifeShape, DOMAIN row = RowFields, Due, NEW p \in Procs, GateStep(p), ~BuildFailed(p), ~Resuming(p)
    PROVE  DOMAIN row' = RowFields /\ Due' /\ ~Resuming(p)'
  <1>1. JobShape /\ Handed(job[p]) /\ ProcStep(p)  BY DEF LifeShape, JobShape, ProcStep
  <1>2. PICK t : t = job[p].todo  OBVIOUS
  <1>3. Ordered(t)  BY <1>1, <1>2 DEF Handed
  <1>4. ASSUME row' = row, t # << >>, Head(t) \notin Dues \cup {"chatIdle"}, job'[p].todo = Tail(t)
        PROVE  DOMAIN row' = RowFields /\ Due' /\ ~Resuming(p)'
    <2>1. Kept /\ ~Resuming(p)'  BY <1>1, <1>2, <1>4, RestKept
    <2> QED BY <1>4, <2>1, DueKept
  <1>5. ASSUME t # << >>  PROVE Head(t) \notin Resumes
    <2>1. In(t, Head(t))  BY <1>3, <1>5, InTail
    <2> QED BY <1>2, <2>1 DEF Resuming, Has
  <1>6. CASE ResumeGet(p) \/ IsActive(p) \/ ResumeGate(p)
    <2>1. t # << >> /\ Head(t) \in Resumes  BY <1>2, <1>6 DEF ResumeGet, IsActive, ResumeGate, At, Resumes
    <2> QED BY <1>5, <2>1
  <1>7. CASE PauseGate(p) \/ ChatLock(p) \/ ChatTurn(p)
    <2>1. t # << >> /\ Head(t) \in {"pauseGate", "lock", "turn"} /\ row' = row /\ Advance(p)
      BY <1>2, <1>7 DEF PauseGate, ChatLock, ChatTurn, At
    <2>2. job'[p].todo = Tail(t)  BY <1>1, <1>2, <2>1, Goes DEF Advance
    <2> QED BY <1>4, <2>1, <2>2 DEF Dues
  <1>8. CASE PauseGet(p)
    <2>1. t # << >> /\ Head(t) = "pauseGet" /\ row' = row  BY <1>2, <1>8 DEF PauseGet, At
    <2>2. CASE entry # 0
      <3>1. Take(p, entry, Tail(t))  BY <1>2, <1>8, <2>2 DEF PauseGet
      <3>2. job'[p].todo = Tail(t)  BY <1>1, <3>1, Goes
      <3> QED BY <1>4, <2>1, <3>2 DEF Dues
    <2>3. CASE entry = 0
      <3>1. PICK u : u = Tail(t)  OBVIOUS
      <3>2. Ordered(u) /\ u # << >> /\ Head(u) = "pauseGate"  BY <1>3, <2>1, <3>1, FirstStep, OrderedTail, Chains DEF Links
      <3>3. \A s : In(t, s) <=> s \in {"pauseGet", "pauseGate"} \/ In(Tail(u), s)
        <4>1. \A s : In(t, s) <=> Head(t) = s \/ In(u, s)  BY <1>3, <2>1, <3>1, InTail
        <4>2. \A s : In(u, s) <=> Head(u) = s \/ In(Tail(u), s)  BY <3>2, InTail
        <4> QED BY <2>1, <3>2, <4>1, <4>2
      <3>4. Then(p, Tail(u))  BY <1>2, <1>8, <2>3, <3>1 DEF PauseGet
      <3>5. job'[p].todo = Tail(u) /\ \A q \in Procs : q # p => job'[q] = job[q]  BY <1>1, <3>4, Goes
      <3>6. \A s \in Dues \cup {"chatIdle"} \cup Resumes : Has(p, s) <=> Has(p, s)'
        <4>1. \A s \in Dues \cup {"chatIdle"} \cup Resumes : s \notin {"pauseGet", "pauseGate"}  BY DEF Dues, Resumes
        <4> QED BY <1>2, <3>3, <3>5, <4>1 DEF Has
      <3>7. Kept
        <4>1. \A q \in Procs : q # p => \A s : Has(q, s) => Has(q, s)'  BY <3>5 DEF Has
        <4> QED BY <1>1, <3>6, <4>1, ProcLive DEF Kept
      <3>8. ~Resuming(p)'  BY <3>6 DEF Resuming
      <3> QED BY <2>1, <3>7, <3>8, DueKept
    <2> QED BY <2>2, <2>3
  <1>9. CASE Reconcile(p)
    <2>1. PICK u : u = <<"getOrBuild", "spawn">>  OBVIOUS
    <2>2. \/ row' = row /\ row.st # "running" /\ Then(p, << >>)
          \/ row' = row /\ Then(p, u)
          \/ row' = Narrow("idle", "normal") /\ Then(p, << >>)
      BY <1>9, <2>1 DEF Reconcile, ActiveRow
    <2>3. Then(p, << >>) => ~Resuming(p)'
      <3>1. Then(p, << >>) => job'[p].todo = << >>  BY <1>1, Goes
      <3> QED BY <3>1, PlainScripts DEF Resuming, Has, Avoids
    <2>4. CASE row' = row /\ row.st # "running" /\ Then(p, << >>)  BY <2>3, <2>4 DEF Due
    <2>5. CASE row' = row /\ Then(p, u)
      <3>1. job'[p].todo = u  BY <1>1, <2>5, Goes
      <3>2. ~Resuming(p)'  BY <2>1, <3>1, PlainScripts DEF Resuming, Has, Avoids
      <3>3. Has(p, "spawn")'  BY <2>1, <3>1, PlainScripts DEF Has
      <3>4. Owed'  BY <3>3 DEF Owed, Dues
      <3> QED BY <2>5, <3>2, <3>4 DEF Due
    <2>6. CASE row' = Narrow("idle", "normal") /\ Then(p, << >>)
      <3>1. DOMAIN row' = RowFields /\ row'.st # "running"  BY <2>6 DEF Narrow, RowFields
      <3> QED BY <2>3, <2>6, <3>1 DEF Due
    <2> QED BY <2>2, <2>4, <2>5, <2>6
  <1> QED BY <1>6, <1>7, <1>8, <1>9 DEF GateStep

\* Every step of a process keeps what PhantomInv says.
LEMMA PhantomProc ==
    ASSUME LifeShape, PhantomInv, ~BuildsFail, NEW p \in Procs, ProcStep(p)
    PROVE  PhantomInv'
  <1>1. ~BuildFailed(p)  BY DEF BuildFailed
  <1>2. \A r \in Runners : Holder(r)'  BY <1>1, HolderProc DEF PhantomInv
  <1>3. sent' = sent
    BY DEF ProcStep, RowStep, Write, LoadState, ChatLoad, RegistryStep, GetOrBuild, BuildDone, BuildFailed, StopGet,
       StopCancel, StopDelete, StopAll, Spawn, GateStep, PauseGet, PauseGate, ResumeGet, IsActive, ResumeGate,
       ChatLock, ChatTurn, Reconcile, bounds
  <1>4. JobShape  BY DEF LifeShape
  <1>5. Job(p)  BY <1>1, <1>4, RowJob, RegistryJob, GateJob DEF ProcStep
  <1>6. \A q \in Procs : q # p => job'[q] = job[q]  BY <1>4, <1>5, JobKept
  <1>7. DOMAIN row' = RowFields
    <2>1. CASE RowStep(p)
      <3>1. \A st, mode : DOMAIN Narrow(st, mode) = RowFields /\ DOMAIN Ensure(st, mode) = RowFields
        BY DEF Narrow, Ensure, RowFields, PhantomInv
      <3>2. DOMAIN Row("running", "autonomous", 0, row.run + 1) = RowFields  BY DEF Row, RowFields
      <3>3. row' = row \/ (\E st, mode : row' = Narrow(st, mode) \/ row' = Ensure(st, mode))
            \/ row' = Row("running", "autonomous", 0, row.run + 1)
        BY <2>1 DEF RowStep, Write, LoadState, ChatLoad
      <3> QED BY <3>1, <3>2, <3>3 DEF PhantomInv
    <2>2. CASE RegistryStep(p)
      BY <2>2 DEF RegistryStep, GetOrBuild, BuildDone, BuildFailed, StopGet, StopCancel, StopDelete, StopAll, Spawn, PhantomInv
    <2>3. CASE GateStep(p)
      <3>1. row' = row \/ row' = Narrow("idle", "normal")
        BY <2>3 DEF GateStep, PauseGet, PauseGate, ResumeGet, IsActive, ResumeGate, ChatLock, ChatTurn, Reconcile
      <3> QED BY <3>1 DEF Narrow, RowFields, PhantomInv
    <2> QED BY <2>1, <2>2, <2>3 DEF ProcStep
  <1>8. ASSUME NoResume'  PROVE (\A q \in Procs : ~Resuming(q)') /\ Due'
    <2>1. NoResume  BY <1>3, <1>8 DEF NoResume
    <2>2. (\A q \in Procs : ~Resuming(q)) /\ Due /\ DOMAIN row = RowFields  BY <2>1 DEF PhantomInv
    <2>3. Due' /\ ~Resuming(p)'  BY <1>1, <2>2, RowDue, RegistryDue, GateDue DEF ProcStep
    <2>4. \A q \in Procs : q # p => (Resuming(q)' => Resuming(q))  BY <1>6 DEF Resuming, Has
    <2> QED BY <2>2, <2>3, <2>4
  <1> QED BY <1>2, <1>3, <1>7, <1>8 DEF PhantomInv

\* A loop that has not returned, or has its deferred calls to make, will write Idle.
LEMMA PhantomLoop ==
    ASSUME LifeShape, PauseInv, PhantomInv, NEW g \in Loops, LoopStep(g)
    PROVE  PhantomInv'
  <1>1. \A r \in Runners : Holder(r)'  BY HolderLoop DEF PhantomInv
  <1>2. sent' = sent
    BY DEF LoopStep, LoopInit, TurnStart, TurnEnd, FailPause, FailRow, Seed, Bump, Gate, Wake, CtxDone, TimerDone, Exit,
       Tick, bounds
  <1>3. DOMAIN row' = RowFields
    <2>1. row' = row \/ (\E st, mode : row' = Narrow(st, mode)) \/ (\E n : row' = [row EXCEPT !.round = n])
      <3>1. CASE Bump(g)
        <4>1. PICK n : n = loop[g].round + 1  OBVIOUS
        <4>2. row' = row \/ row' = [row EXCEPT !.round = n]  BY <3>1, <4>1 DEF Bump
        <4> QED BY <4>2
      <3>2. CASE FailRow(g)  BY <3>2 DEF FailRow
      <3>3. CASE ~Bump(g) /\ ~FailRow(g)
        BY <3>3 DEF LoopStep, LoopInit, TurnStart, TurnEnd, FailPause, Seed, Gate, Wake, CtxDone, TimerDone, Exit, Tick
      <3> QED BY <3>1, <3>2, <3>3
    <2> QED BY <2>1 DEF Narrow, RowFields, PhantomInv
  <1>4. JobShape /\ g \in Procs  BY DEF LifeShape, Procs
  <1>5. job' = job \/ (Exit(g) /\ Job(g) /\ job'[g].todo = Deferred)  BY LoopJob
  <1>6. \A q \in Procs : q # g => job'[q] = job[q]  BY <1>4, <1>5, JobKept
  <1>7. Owed'
    <2>1. CASE Exit(g)
      <3>1. loop'[g].pc = "done"  BY <2>1 DEF Exit, LifeShape, LoopShape, LoopFields
      <3>2. job'[g].todo = Deferred
        <4>1. Then(g, Deferred)  BY <2>1 DEF Exit
        <4> QED BY <1>4, <4>1, Goes
      <3>3. Has(g, "setIdle")'  BY <3>2, PlainScripts DEF Has
      <3> QED BY <1>4, <3>3 DEF Owed, Dues
    <2>2. CASE ~Exit(g)
      <3>1. loop'[g].pc \notin {"unused", "done"}  BY <2>2, LoopMoves DEF LoopMove
      <3> QED BY <3>1 DEF Owed, Live
    <2> QED BY <2>1, <2>2
  <1>8. Resuming(g)' => Resuming(g)
    <2>1. CASE job' = job  BY <2>1 DEF Resuming, Has
    <2>2. CASE job'[g].todo = Deferred  BY <2>2, PlainScripts DEF Resuming, Has, Avoids
    <2> QED BY <1>5, <2>1, <2>2
  <1>9. \A q \in Procs : Resuming(q)' => Resuming(q)  BY <1>6, <1>8 DEF Resuming, Has
  <1>10. NoResume' => NoResume  BY <1>2 DEF NoResume
  <1> QED BY <1>1, <1>2, <1>3, <1>7, <1>9, <1>10 DEF PhantomInv, Due

\* A new request is none of the two resumes, or nothing more is promised.
LEMMA PhantomRequest ==
    ASSUME LifeShape, PhantomInv, NEW c \in Clients, NEW op \in Ops, Request(c, op)
    PROVE  PhantomInv'
  <1>1. JobShape /\ c \in Procs  BY DEF LifeShape, Procs, Servers
  <1>2. job[c].todo = << >> /\ Then(c, Script[op]) /\ UNCHANGED <<row, runner, loop>>
        /\ sent' = [sent EXCEPT ![op] = @ + 1]
    BY DEF Request
  <1>3. job'[c].todo = Script[op] /\ \A q \in Procs : q # c => job'[q] = job[q]  BY <1>1, <1>2, Goes
  <1>4. sent \in [Ops -> Nat] /\ sent' \in [Ops -> Nat] /\ sent'[op] = sent[op] + 1 /\ sent[op] \in Nat
        /\ \A x \in Ops : sent[x] # 0 => sent'[x] # 0
    BY <1>2 DEF PhantomInv
  <1>5. \A r \in Runners : Holder(r)'
    <2> TAKE r \in Runners
    <2>1. Holder(r)  BY DEF PhantomInv
    <2>2. runner[r].mu # c \/ ~At(c, "turn")  BY <1>2 DEF At
    <2>3. \A x \in Procs : x # c => (At(x, "turn") /\ Mine(x) = r => At(x, "turn")' /\ Mine(x)' = r)  BY <1>3 DEF At, Mine
    <2> QED BY <1>2, <2>1, <2>2, <2>3 DEF Holder
  <1>6. ASSUME NoResume'  PROVE (\A q \in Procs : ~Resuming(q)') /\ Due'
    <2>1. NoResume  BY <1>4, <1>6 DEF NoResume
    <2>2. op \in MutationNames  BY LifecycleAssumption
    <2>3. sent'[op] # 0  BY <1>4
    <2>4. op \notin {"resume", "correct"}  BY <1>6, <2>3 DEF NoResume
    <2>5. ~Resuming(c)'  BY <1>3, <2>2, <2>4, PlainScripts DEF Resuming, Has, Avoids
    <2>6. \A q \in Procs : q # c => ~Resuming(q)'  BY <1>3, <2>1 DEF PhantomInv, Resuming, Has
    <2>7. \A s : ~Has(c, s)
      <3>1. \A s : ~In(<< >>, s)  BY DEF In
      <3> QED BY <1>2, <3>1 DEF Has
    <2>8. Kept
      <3>1. \A q \in Procs, s \in Dues \cup {"chatIdle"} : Has(q, s) => Has(q, s)'  BY <1>3, <2>7 DEF Has
      <3>2. \A g \in Loops : Live(g) => Live(g)'  BY <1>2 DEF Live
      <3> QED BY <3>1, <3>2 DEF Kept
    <2>9. Due'  BY <1>2, <2>1, <2>8, DueKept DEF PhantomInv
    <2> QED BY <2>5, <2>6, <2>9
  <1> QED BY <1>2, <1>4, <1>5, <1>6 DEF PhantomInv

\* A turn that sets the mode has a process or a loop behind it.
LEMMA PhantomMode ==
    ASSUME LifeShape, PhantomInv, NEW r \in Runners, NEW m \in ToolModes, TurnSetsMode(r, m)
    PROVE  PhantomInv'
  <1>1. runner[r].mu # Nobody /\ row' = Narrow("running", m) /\ UNCHANGED <<runner, loop, job, sent>>
    BY DEF TurnSetsMode, bounds
  <1>2. DOMAIN row = RowFields /\ Holder(r)  BY DEF PhantomInv
  <1>3. DOMAIN row' = RowFields /\ (row.st = "none" => row'.st = "none") /\ (row.st # "none" => row'.mode = m)
    BY <1>1, <1>2 DEF Narrow, RowFields
  <1>4. m # "autonomous"  BY LifecycleAssumption
  <1>5. Owed \/ ChatOwed
    <2>1. PICK x : x = runner[r].mu  OBVIOUS
    <2>2. CASE x \in Loops /\ loop[x].pc \in {"kickTurn", "tickTurn"}  BY <2>2 DEF Owed, Live
    <2>3. CASE x \in Procs /\ At(x, "turn")
      <3>1. Ordered(job[x].todo) /\ job[x].todo # << >> /\ Head(job[x].todo) = "turn"
        BY <2>3 DEF At, LifeShape, JobShape, Handed
      <3>2. Has(x, "chatIdle")  BY <3>1, ChatEnd DEF Has
      <3> QED BY <2>3, <3>2 DEF ChatOwed
    <2> QED BY <1>1, <1>2, <2>1, <2>2, <2>3 DEF Holder
  <1>6. (Owed => Owed') /\ (ChatOwed => ChatOwed')  BY <1>1 DEF Owed, ChatOwed, Has, Live
  <1>7. Due'  BY <1>3, <1>4, <1>5, <1>6 DEF Due
  <1>8. \A q \in Runners : Holder(q)'  BY <1>1 DEF PhantomInv, Holder, At, Mine
  <1>9. \A q \in Procs : Resuming(q)' => Resuming(q)  BY <1>1 DEF Resuming, Has
  <1>10. NoResume' => NoResume  BY <1>1 DEF NoResume
  <1> QED BY <1>1, <1>3, <1>7, <1>8, <1>9, <1>10 DEF PhantomInv

\* After a crash the boot reconciles.
LEMMA PhantomBoot ==
    ASSUME job = Boot
    PROVE  Owed /\ \A q \in Procs : ~Resuming(q)
  <1>1. Main \in Procs  BY DEF Procs, Servers
  <1>2. job[Main].todo = ReconcileOnBoot /\ \A q \in Procs : q # Main => job[q].todo = << >>  BY <1>1 DEF Boot, Idle
  <1>3. Has(Main, "reconcile")  BY <1>2, PlainScripts DEF Has
  <1>4. Owed  BY <1>1, <1>3 DEF Owed, Dues
  <1>5. \A q \in Procs : ~Resuming(q)  BY <1>2, PlainScripts DEF Resuming, Has, Avoids
  <1> QED BY <1>4, <1>5

\* Every step keeps it.
LEMMA PhantomStep ==
    ASSUME LifeShape, PauseInv, PhantomInv, ~BuildsFail, [Next]_vars
    PROVE  PhantomInv'
  <1>1. CASE Crash
    <2>1. job' = Boot /\ row' = row /\ sent' = sent  BY <1>1 DEF Crash
    <2>2. Owed' /\ \A q \in Procs : ~Resuming(q)'
      <3>1. Main \in Procs  BY DEF Procs, Servers
      <3>2. job'[Main].todo = ReconcileOnBoot /\ \A q \in Procs : q # Main => job'[q].todo = << >>
        BY <2>1, <3>1 DEF Boot, Idle
      <3>3. Has(Main, "reconcile")'  BY <3>2, PlainScripts DEF Has
      <3>4. Owed'  BY <3>1, <3>3 DEF Owed, Dues
      <3>5. \A q \in Procs : ~Resuming(q)'  BY <3>2, PlainScripts DEF Resuming, Has, Avoids
      <3> QED BY <3>4, <3>5
    <2>3. ASSUME NEW r \in Runners  PROVE Holder(r)'
      <3>1. DOMAIN runner[r] = RunnerFields  BY DEF LifeShape, RunnerShape
      <3>2. runner'[r] = [runner[r] EXCEPT !.mu = Nobody, !.cancel = 0]  BY <1>1 DEF Crash
      <3>3. runner'[r].mu = Nobody  BY <3>1, <3>2 DEF RunnerFields
      <3> QED BY <3>3 DEF Holder
    <2> QED BY <2>1, <2>2, <2>3 DEF PhantomInv, Due
  <1>2. ASSUME UNCHANGED <<row, runner, loop, job, sent>>  PROVE PhantomInv'
    <2>1. \A q \in Runners : Holder(q)'  BY <1>2 DEF PhantomInv, Holder, At, Mine
    <2>2. (Owed => Owed') /\ (ChatOwed => ChatOwed')  BY <1>2 DEF Owed, ChatOwed, Has, Live
    <2>3. \A q \in Procs : Resuming(q)' => Resuming(q)  BY <1>2 DEF Resuming, Has
    <2>4. NoResume' => NoResume  BY <1>2 DEF NoResume
    <2> QED BY <1>2, <2>1, <2>2, <2>3, <2>4 DEF PhantomInv, Due
  <1>3. CASE Listen \/ UNCHANGED vars  BY <1>2, <1>3 DEF Listen, vars, bounds
  <1> QED BY <1>1, <1>3, PhantomProc, PhantomLoop, PhantomRequest, PhantomMode DEF Next

\* At the start there is no row.
LEMMA PhantomInit == ASSUME Init PROVE PhantomInv
  <1>1. DOMAIN row = RowFields /\ row.st = "none"  BY DEF Init, NoRow, Row, RowFields
  <1>2. sent \in [Ops -> Nat]  BY DEF Init
  <1>3. \A r \in Runners : Holder(r)  BY DEF Init, Holder
  <1>4. \A q \in Procs : ~Resuming(q)  BY PhantomBoot DEF Init
  <1> QED BY <1>1, <1>2, <1>3, <1>4 DEF PhantomInv, Due

\* When nothing runs any more, the row does not say Running: for any number of clients,
\* loops, runners, mutations and crashes, where no build fails.  (A build that fails after
\* StartAutonomous wrote Running leaves it there: nobody writes the row again.)
THEOREM NoPhantomRunAlways == ASSUME ~BuildsFail PROVE Spec => []NoPhantomRun
<1>1. Init => LifeShape /\ PauseInv /\ PhantomInv
  BY PauseInit, PhantomInit
<1>2. LifeShape /\ PauseInv /\ PhantomInv /\ [Next]_vars => (LifeShape /\ PauseInv /\ PhantomInv)'
  BY PauseStep, PhantomStep
<1>3. PhantomInv => NoPhantomRun
  <2> SUFFICES ASSUME PhantomInv, Quiet, NoResume PROVE row.st # "running"
    BY DEF NoPhantomRun
  <2>1. \A s : ~In(<< >>, s)  BY DEF In
  <2>2. \A p \in Procs : \A s : ~Has(p, s)  BY <2>1 DEF Quiet, Has
  <2>3. ~Owed /\ ~ChatOwed  BY <2>2 DEF Owed, ChatOwed, Quiet
  <2> QED BY <2>3 DEF PhantomInv, Due
<1> QED BY <1>1, <1>2, <1>3, PTL DEF Spec

=============================================================================
