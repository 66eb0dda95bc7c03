---------------------------- MODULE AgentLifecycle ----------------------------
(***************************************************************************)
(* The life of one thread's agent: the runner registry                     *)
(* (service/runtime/registry.go), the autonomous loops that run on         *)
(* registered runners (service/agent/autonomous.go), the agent_state row,  *)
(* the GraphQL mutations that start, stop, pause and resume all that, and  *)
(* the reconciliation at boot.                                             *)
(*                                                                         *)
(* A mutation is a list of steps, one for each critical section, database  *)
(* access or blocking point of the resolver: job[p].todo is what process p *)
(* has still to do, and an early return empties it.  The deferred calls of *)
(* a loop's goroutine are such a list too.  A turn is abstracted to taking *)
(* r.mu, an outcome and releasing r.mu; TurnRunner models its inside.      *)
(***************************************************************************)
EXTENDS Integers, Sequences, Functions

CONSTANTS
    Clients,        \* goroutines that serve GraphQL mutations
    Main,           \* the goroutine that boots the process
    Nobody,         \* no process
    Budget,         \* bound: how many times each mutation is sent
    MaxRequests,    \* bound: mutations sent in all
    ToolModes,      \* modes a turn's EnterPlan and ExitPlan tools may set
    BuildsFail,     \* may runtime.Build fail?
    MaxRunners,     \* bound: runners built
    MaxLoops,       \* bound: autonomous loops started
    MaxRounds,      \* bound: rounds of a loop before its timer fires
    MaxCrashes      \* bound: process crashes

MutationNames == {"start", "stop", "pause", "resume", "correct", "plan", "reject",
                  "approve", "accept", "chat", "update", "reload"}
Ops     == DOMAIN Budget
Runners == 1 .. MaxRunners
Loops   == 1 .. MaxLoops
Servers == Clients \cup {Main}
Procs   == Servers \cup Loops

ASSUME LifecycleAssumption ==
    /\ Main \notin Clients /\ Nobody \notin Procs
    /\ Servers \cap Loops = {}
    /\ MaxRequests \in Nat /\ MaxRunners \in Nat /\ MaxLoops \in Nat
    /\ Ops \subseteq MutationNames /\ Budget \in [Ops -> Nat] /\ ToolModes \subseteq {"plan", "normal"}
    /\ BuildsFail \in BOOLEAN

VARIABLES
    row,            \* agent_state: st ("none": no row), mode, round, run (started_at)
    entry,          \* the registered runner, 0 if none
    building,       \* the processes inside the build closure
    waiting,        \* the processes blocked on the buildSignal
    built,          \* how many runners were built
    runner,         \* prompt: mode its system prompt is for; cancel: the loop
                    \* Entry.Cancel cancels, 0 if nil; mu: holder of r.mu;
                    \* auto: the loop that made r.autoState, 0 if nil
    loop,           \* pc; on: its runner; ctx; round; paused and gen of the
                    \* AutonomousState it made (gen counts closed resume
                    \* channels); wait: the state and channel it is blocked on;
                    \* since: turns begun since the pause (history)
    job,            \* todo; r: the runner in hand; budget: can a run be resumed?
    booted, sent, crashes

registry == <<entry, building, waiting>>
bounds   == <<booted, sent, crashes>>
vars     == <<row, registry, built, runner, loop, job, bounds>>

Row(st, mode, r, run) == [st |-> st, mode |-> mode, round |-> r, run |-> run]
NoRow   == Row("none", "normal", 0, 0)
NoState == <<0, 0>>
Idle    == [todo |-> << >>, r |-> 0, budget |-> "no"]

\* What each mutation has to do, in order.
stopRunner      == <<"stopGet", "stopCancel", "stopDelete">>
StopAgent       == stopRunner \o <<"ensureIdle">>
PauseAgent      == <<"pauseGet", "pauseGate", "loadState", "setPaused">>
ResumeAgent     == <<"loadState", "resumeGet">>
ResumeCorrected == <<"loadState", "getOrBuild", "resumeGet">>
StartAutonomous == <<"beginRun", "getOrBuild", "spawn">>
EnterPlanMode   == <<"ensurePlan">> \o stopRunner \o <<"getOrBuild">>
RejectPlan      == <<"ensurePlan">> \o stopRunner \o <<"getOrBuild">>
ApproveAuto     == <<"ensureAuto", "getOrBuild", "spawn">>
ApproveManual   == <<"ensureIdle">>
SendMessage     == <<"getOrBuild", "lock", "turn", "chatLoad", "chatIdle">>
UpdateThread    == stopRunner
Reload          == <<"stopAll">>

\* The deferred calls of the goroutine that ran a loop, and the boot.
Deferred        == <<"setIdle">> \o stopRunner
ReconcileOnBoot == <<"reconcile">>

Script ==
    [ start |-> StartAutonomous, stop |-> StopAgent, pause |-> PauseAgent,
      resume |-> ResumeAgent, correct |-> ResumeCorrected, plan |-> EnterPlanMode,
      reject |-> RejectPlan, approve |-> ApproveAuto, accept |-> ApproveManual,
      chat |-> SendMessage, update |-> UpdateThread, reload |-> Reload ]

Boot == [p \in Procs |-> IF p = Main THEN [Idle EXCEPT !.todo = ReconcileOnBoot] ELSE Idle]

Init ==
    /\ row = NoRow
    /\ entry = 0 /\ building = {} /\ waiting = {} /\ built = 0
    /\ runner = [r \in Runners |->
                    [prompt |-> "normal", cancel |-> 0, mu |-> Nobody, auto |-> 0]]
    /\ loop = [g \in Loops |->
                  [pc |-> "unused", on |-> 0, ctx |-> "live", round |-> 0,
                   paused |-> "no", gen |-> 0, wait |-> NoState, since |-> 0]]
    /\ job = Boot
    /\ booted = "no" /\ sent = [o \in Ops |-> 0] /\ crashes = 0
-----------------------------------------------------------------------------
(* Steps of a process.                                                     *)

At(p, s) == job[p].todo # << >> /\ Head(job[p].todo) = s
Mine(p)  == job[p].r

\* The job with todo left, or the idle process once nothing is left.
Left(j, todo)    == IF todo = << >> THEN Idle ELSE [j EXCEPT !.todo = todo]
Then(p, todo)    == job' = [job EXCEPT ![p] = Left(@, todo)]
Advance(p)       == Then(p, Tail(job[p].todo))
Take(p, r, todo) == job' = [job EXCEPT ![p] = Left([@ EXCEPT !.r = r], todo)]

Requests == FoldFunction(LAMBDA a, b : a + b, 0, sent)

\* A client takes a request; the HTTP listener starts after reconciliation.
Request(c, op) ==
    /\ booted = "yes" /\ job[c].todo = << >>
    /\ sent[op] < Budget[op] /\ Requests < MaxRequests
    /\ sent' = [sent EXCEPT ![op] = @ + 1]
    /\ Then(c, Script[op])
    /\ UNCHANGED <<row, registry, built, runner, loop, booted, crashes>>

\* A step that writes the row and nothing else.
Write(p, s, new) ==
    /\ At(p, s)
    /\ row' = new
    /\ Advance(p)
    /\ UNCHANGED <<registry, built, runner, loop, bounds>>

\* The narrow UPDATEs of agentstate.go do nothing when there is no row.
Narrow(st, mode) == IF row.st = "none" THEN row ELSE [row EXCEPT !.st = st, !.mode = mode]

\* EnsureAgentStateRow, then SetAgentStatusAndMode.
Ensure(st, mode) == [row EXCEPT !.st = st, !.mode = mode]

\* RemainingBudget needs the started_at that only StartAutonomous writes; the
\* budget may have run out.
HasBudget == IF row.mode = "autonomous" /\ row.run # 0 THEN {"yes", "no"} ELSE {"no"}

\* PauseAgent and ResumeAgent return an error when there is no row.
LoadState(p) ==
    /\ At(p, "loadState")
    /\ \E b \in HasBudget :
          LET todo == IF row.st = "none" THEN << >> ELSE Tail(job[p].todo)
          IN job' = [job EXCEPT ![p] = Left([@ EXCEPT !.budget = b], todo)]
    /\ UNCHANGED <<row, registry, built, runner, loop, bounds>>

\* SendMessage's deferred status write reads the row first and spares a running
\* autonomous one.
ChatLoad(p) ==
    /\ At(p, "chatLoad")
    /\ Then(p, IF row.st = "none" \/ (row.st = "running" /\ row.mode = "autonomous")
               THEN << >> ELSE Tail(job[p].todo))
    /\ UNCHANGED <<row, registry, built, runner, loop, bounds>>

RowStep(p) ==
    \/ Write(p, "setIdle", Narrow("idle", "normal"))
    \/ Write(p, "setPaused", Narrow("paused", row.mode))
    \/ Write(p, "setRunning", Narrow("running", row.mode))
    \/ Write(p, "chatIdle", Narrow("idle", row.mode))
    \/ Write(p, "ensureIdle", Ensure("idle", "normal"))
    \/ Write(p, "ensurePlan", Ensure("idle", "plan"))
    \/ Write(p, "ensureAuto", Ensure("running", "autonomous"))
    \/ Write(p, "beginRun", Row("running", "autonomous", 0, row.run + 1))
    \/ LoadState(p) \/ ChatLoad(p)
-----------------------------------------------------------------------------
(* Registry.                                                               *)

\* The build reads the mode its system prompt is assembled for.
StartBuild(p) ==
    /\ built < MaxRunners
    /\ built' = built + 1
    /\ building' = building \cup {p}
    /\ runner' = [runner EXCEPT ![built + 1].prompt = row.mode]
    /\ Take(p, built + 1, job[p].todo)
    /\ UNCHANGED <<entry, waiting>>

TakeEntry(p) ==
    /\ entry # 0
    /\ Take(p, entry, Tail(job[p].todo))
    /\ UNCHANGED <<registry, built, runner>>

\* Mutant: a caller that finds a build in progress starts another one.
EveryoneBuilds(p) ==
    /\ At(p, "getOrBuild") /\ p \notin building
    /\ TakeEntry(p) \/ (entry = 0 /\ StartBuild(p))
    /\ UNCHANGED <<row, loop, bounds>>

\* GetOrBuild: a registered runner, or wait for the build in progress, or
\* start one.
GetOrBuild(p) ==
    /\ At(p, "getOrBuild") /\ p \notin waiting \cup building
    /\ \/ TakeEntry(p)
       \/ /\ entry = 0 /\ building # {}
          /\ waiting' = waiting \cup {p}
          /\ UNCHANGED <<entry, building, built, runner, job>>
       \/ entry = 0 /\ building = {} /\ StartBuild(p)
    /\ UNCHANGED <<row, loop, bounds>>

\* The build succeeded: register the runner, let the waiters look again.
BuildDone(p) ==
    /\ p \in building
    /\ entry' = Mine(p)
    /\ building' = building \ {p} /\ waiting' = {}
    /\ Advance(p)
    /\ UNCHANGED <<row, built, runner, loop, bounds>>

\* Reconciliation resets the row of a runner it cannot build; everyone else
\* returns the error.
GiveUp(ps) ==
    job' = [q \in Procs |->
               IF q \notin ps THEN job[q]
               ELSE IF q = Main THEN [Idle EXCEPT !.todo = <<"setIdle">>] ELSE Idle]

\* Mutant: a failed build does not close its signal.
FailSilently(p) ==
    /\ BuildsFail /\ p \in building
    /\ building' = building \ {p}
    /\ GiveUp({p})
    /\ UNCHANGED <<row, entry, waiting, built, runner, loop, bounds>>

\* The build failed: the builder and the waiters return its error.
BuildFailed(p) ==
    /\ BuildsFail /\ p \in building
    /\ building' = building \ {p} /\ waiting' = {}
    /\ GiveUp({p} \cup waiting)
    /\ UNCHANGED <<row, entry, built, runner, loop, bounds>>

\* Entry.Cancel of runner r.
Cancel(r) ==
    loop' = [g \in Loops |->
                IF r # 0 /\ runner[r].cancel = g THEN [loop[g] EXCEPT !.ctx = "canceled"]
                ELSE loop[g]]

\* Registry.Stop is Get, Entry.Cancel, Delete, each on its own.  CancelTurn only
\* ends the turn in flight sooner, whose outcome is a free choice here.
StopGet(p) ==
    /\ At(p, "stopGet")
    /\ IF entry = 0 THEN Then(p, SubSeq(job[p].todo, 4, Len(job[p].todo)))
                    ELSE Take(p, entry, Tail(job[p].todo))
    /\ UNCHANGED <<row, registry, built, runner, loop, bounds>>

StopCancel(p) ==
    /\ At(p, "stopCancel")
    /\ Cancel(Mine(p))
    /\ Advance(p)
    /\ UNCHANGED <<row, registry, built, runner, bounds>>

StopDelete(p) ==
    /\ At(p, "stopDelete")
    /\ entry' = 0
    /\ Advance(p)
    /\ UNCHANGED <<row, building, waiting, built, runner, loop, bounds>>

\* StopAll cancels and empties under the lock.
StopAll(p) ==
    /\ At(p, "stopAll")
    /\ Cancel(entry)
    /\ entry' = 0
    /\ Advance(p)
    /\ UNCHANGED <<row, building, waiting, built, runner, bounds>>

\* SetCancel, a no-op on a thread without an entry, and go RunAutonomous.
Spawn(p) ==
    /\ At(p, "spawn")
    /\ \E g \in Loops :
          /\ \A h \in Loops : loop[h].pc = "unused" <=> h >= g
          /\ loop' = [loop EXCEPT ![g].pc = "init", ![g].on = Mine(p)]
          /\ runner' = [r \in Runners |->
                           IF r = entry THEN [runner[r] EXCEPT !.cancel = g] ELSE runner[r]]
    /\ Advance(p)
    /\ UNCHANGED <<row, registry, built, bounds>>

RegistryStep(p) ==
    \/ GetOrBuild(p) \/ BuildDone(p) \/ BuildFailed(p)
    \/ StopGet(p) \/ StopCancel(p) \/ StopDelete(p) \/ StopAll(p) \/ Spawn(p)
-----------------------------------------------------------------------------
(* Pause, resume and chat turns.  Each takes r.mu, so it waits for a turn. *)

Free(r) == runner[r].mu = Nobody

\* AutonomousState.Pause and Resume of runner r's current state.
Gates(r, from, to, dgen) ==
    LET a == runner[r].auto
    IN IF a # 0 /\ loop[a].paused = from
       THEN [g \in Loops |->
                [loop[g] EXCEPT !.paused = IF g = a THEN to ELSE @,
                                !.gen    = IF g = a THEN @ + dgen ELSE @,
                                !.since  = IF loop[g].on = r THEN 0 ELSE @]]
       ELSE loop

Pause(r)  == Gates(r, "no", "yes", 0)
Resume(r) == Gates(r, "yes", "no", 1)

PauseGet(p) ==
    /\ At(p, "pauseGet")
    /\ IF entry = 0 THEN Then(p, Tail(Tail(job[p].todo)))
                    ELSE Take(p, entry, Tail(job[p].todo))
    /\ UNCHANGED <<row, registry, built, runner, loop, bounds>>

PauseGate(p) ==
    /\ At(p, "pauseGate") /\ Free(Mine(p))
    /\ loop' = Pause(Mine(p))
    /\ Advance(p)
    /\ UNCHANGED <<row, registry, built, runner, bounds>>

\* ResumeAgent restarts a loop that has budget left.
Restart(p) ==
    IF job[p].budget = "yes" THEN <<"getOrBuild", "spawn", "setRunning">>
                             ELSE <<"setRunning">>

ResumeGet(p) ==
    /\ At(p, "resumeGet")
    /\ IF entry = 0 THEN Then(p, Restart(p)) ELSE Take(p, entry, <<"isActive">>)
    /\ UNCHANGED <<row, registry, built, runner, loop, bounds>>

\* IsAutonomousActive: autoState is never set back to nil.
IsActive(p) ==
    /\ At(p, "isActive") /\ Free(Mine(p))
    /\ Then(p, IF runner[Mine(p)].auto # 0 THEN <<"resumeGate", "setRunning">> ELSE Restart(p))
    /\ UNCHANGED <<row, registry, built, runner, loop, bounds>>

ResumeGate(p) ==
    /\ At(p, "resumeGate") /\ Free(Mine(p))
    /\ loop' = Resume(Mine(p))
    /\ Advance(p)
    /\ UNCHANGED <<row, registry, built, runner, bounds>>

Lock(r, p) == Free(r) /\ runner' = [runner EXCEPT ![r].mu = p]
Unlock(r)  == runner' = [runner EXCEPT ![r].mu = Nobody]

ChatLock(p) ==
    /\ At(p, "lock") /\ Lock(Mine(p), p)
    /\ Advance(p)
    /\ UNCHANGED <<row, registry, built, loop, bounds>>

ChatTurn(p) ==
    /\ At(p, "turn") /\ Unlock(Mine(p))
    /\ Advance(p)
    /\ UNCHANGED <<row, registry, built, loop, bounds>>

\* ListActiveAgentStates: the rows a boot looks at.
ActiveRow == row.st \in {"running", "paused"}

\* reconcileRow at boot: resume a running autonomous row that has budget left,
\* reset any other row that is not idle.
Reconcile(p) ==
    /\ At(p, "reconcile")
    /\ \/ /\ ~ActiveRow
          /\ Then(p, << >>) /\ UNCHANGED row
       \/ /\ row.st = "running" /\ "yes" \in HasBudget
          /\ Then(p, <<"getOrBuild", "spawn">>) /\ UNCHANGED row
       \/ /\ ActiveRow
          /\ row' = Narrow("idle", "normal")
          /\ Then(p, << >>)
    /\ UNCHANGED <<registry, built, runner, loop, bounds>>

Listen ==
    /\ booted = "no" /\ job[Main].todo = << >>
    /\ booted' = "yes"
    /\ UNCHANGED <<row, registry, built, runner, loop, job, sent, crashes>>

GateStep(p) ==
    \/ PauseGet(p) \/ PauseGate(p) \/ ResumeGet(p) \/ IsActive(p) \/ ResumeGate(p)
    \/ ChatLock(p) \/ ChatTurn(p) \/ Reconcile(p)

ProcStep(p) == RowStep(p) \/ RegistryStep(p) \/ GateStep(p)
-----------------------------------------------------------------------------
(* RunAutonomous: init, kickoff turn, seed, then gate, select and tick     *)
(* turns until the context or the timer ends it.                           *)

Goto(g, l) == loop' = [loop EXCEPT ![g].pc = l]

\* r.autoState = newAutonomousState(), under r.mu.
LoopInit(g) ==
    /\ loop[g].pc = "init" /\ Free(loop[g].on)
    /\ runner' = [runner EXCEPT ![loop[g].on].auto = g]
    /\ loop' = [h \in Loops |->
                   [loop[h] EXCEPT !.pc    = IF h = g THEN "kick" ELSE @,
                                   !.since = IF loop[h].on = loop[g].on THEN 0 ELSE @]]
    /\ UNCHANGED <<row, registry, built, job, bounds>>

\* SendMessage takes r.mu.
TurnStart(g) ==
    /\ loop[g].pc \in {"kick", "tick"} /\ Lock(loop[g].on, g)
    /\ LET held == loop[runner[loop[g].on].auto].paused = "yes"
       IN loop' = [loop EXCEPT ![g].since = IF held THEN @ + 1 ELSE @,
                               ![g].pc = IF @ = "kick" THEN "kickTurn" ELSE "tickTurn"]
    /\ UNCHANGED <<row, registry, built, job, bounds>>

\* The turn's EnterPlan and ExitPlan tools: toolAgent.SetMode.
TurnSetsMode(r, mode) ==
    /\ runner[r].mu # Nobody
    /\ row' = Narrow("running", mode)
    /\ UNCHANGED <<registry, built, runner, loop, job, bounds>>

\* Where the loop goes when SendMessage ends; "none" is ErrNoResponse.  The
\* kickoff treats it as an error, a tick as a round like any other.
AfterKick(o) == CASE o = "ok" -> "seed" [] o = "none" -> "kickNone" [] o = "err" -> "kickFail"
AfterTick(o) == IF o = "err" THEN "tickFail" ELSE "bump"

TurnEnd(g, o) ==
    /\ loop[g].pc \in {"kickTurn", "tickTurn"} /\ Unlock(loop[g].on)
    /\ Goto(g, IF loop[g].pc = "kickTurn" THEN AfterKick(o) ELSE AfterTick(o))
    /\ UNCHANGED <<row, registry, built, job, bounds>>

\* OnAutonomousError: PauseAutonomous, then the row.
FailPause(g) ==
    /\ loop[g].pc \in {"kickNone", "kickFail", "tickFail"} /\ Free(loop[g].on)
    /\ loop' = [Pause(loop[g].on) EXCEPT
                   ![g].pc = IF @ = "tickFail" THEN "tickRow" ELSE "kickRow"]
    /\ UNCHANGED <<row, registry, built, runner, job, bounds>>

FailRow(g) ==
    /\ loop[g].pc \in {"kickRow", "tickRow"}
    /\ row' = Narrow("paused", row.mode)
    /\ Goto(g, IF loop[g].pc = "kickRow" THEN "seed" ELSE "gate")
    /\ UNCHANGED <<registry, built, runner, job, bounds>>

\* Mutant: every entry into RunAutonomous counts from 0.
SeedZero(g) ==
    /\ loop[g].pc = "seed"
    /\ loop' = [loop EXCEPT ![g].round = 0, ![g].pc = "gate"]
    /\ UNCHANGED <<row, registry, built, runner, job, bounds>>

\* The round counter continues from the row.
Seed(g) ==
    /\ loop[g].pc = "seed"
    /\ loop' = [loop EXCEPT ![g].round = row.round, ![g].pc = "gate"]
    /\ UNCHANGED <<row, registry, built, runner, job, bounds>>

\* round++ and onRound's SetAgentRoundCount.
Bump(g) ==
    /\ loop[g].pc = "bump"
    /\ loop' = [loop EXCEPT ![g].round = @ + 1, ![g].pc = "gate"]
    /\ row' = IF row.st = "none" THEN row ELSE [row EXCEPT !.round = loop[g].round + 1]
    /\ UNCHANGED <<registry, built, runner, job, bounds>>

\* Mutant: the loop does not wait at the gate.
GateOpen(g) ==
    /\ loop[g].pc = "gate" /\ Goto(g, "select")
    /\ UNCHANGED <<row, registry, built, runner, job, bounds>>

\* waitIfPaused on the runner's current autoState: it blocks on the resume
\* channel it reads there.
Gate(g) ==
    /\ loop[g].pc = "gate"
    /\ LET a == runner[loop[g].on].auto
       IN IF loop[a].paused = "no" THEN Goto(g, "select")
          ELSE loop' = [loop EXCEPT ![g].pc = "blocked", ![g].wait = <<a, loop[a].gen>>]
    /\ UNCHANGED <<row, registry, built, runner, job, bounds>>

Wake(g) ==
    /\ loop[g].pc = "blocked" /\ loop[loop[g].wait[1]].gen > loop[g].wait[2]
    /\ loop' = [loop EXCEPT ![g].pc = "select", ![g].wait = NoState]
    /\ UNCHANGED <<row, registry, built, runner, job, bounds>>

\* Mutant: the goroutine only stops its runner.
ExitAndStop(g) ==
    /\ loop' = [loop EXCEPT ![g].pc = "done", ![g].on = 0, ![g].round = 0,
                            ![g].wait = NoState, ![g].since = 0]
    /\ Then(g, stopRunner)
    /\ UNCHANGED <<row, registry, built, runner, bounds>>

\* The loop returns, its locals are gone and the goroutine's deferred calls run.
Exit(g) ==
    /\ loop' = [loop EXCEPT ![g].pc = "done", ![g].on = 0, ![g].round = 0,
                            ![g].wait = NoState, ![g].since = 0]
    /\ Then(g, Deferred)
    /\ UNCHANGED <<row, registry, built, runner, bounds>>

CtxDone(g) == loop[g].pc \in {"blocked", "select"} /\ loop[g].ctx = "canceled" /\ Exit(g)

\* The timer may fire at any round; only the select looks at it.
TimerDone(g) == loop[g].pc = "select" /\ Exit(g)

Tick(g) ==
    /\ loop[g].pc = "select" /\ loop[g].ctx = "live" /\ loop[g].round < MaxRounds
    /\ Goto(g, "tick")
    /\ UNCHANGED <<row, registry, built, runner, job, bounds>>

LoopStep(g) ==
    \/ LoopInit(g) \/ TurnStart(g) \/ (\E o \in {"ok", "none", "err"} : TurnEnd(g, o))
    \/ FailPause(g) \/ FailRow(g) \/ Seed(g) \/ Bump(g)
    \/ Gate(g) \/ Wake(g) \/ CtxDone(g) \/ TimerDone(g) \/ Tick(g)
-----------------------------------------------------------------------------
\* The process dies; agent_state survives and the next process boots.
Crash ==
    /\ crashes < MaxCrashes
    /\ crashes' = crashes + 1 /\ booted' = "no"
    /\ entry' = 0 /\ building' = {} /\ waiting' = {}
    /\ runner' = [r \in Runners |-> [runner[r] EXCEPT !.mu = Nobody, !.cancel = 0]]
    /\ loop' = [g \in Loops |-> [loop[g] EXCEPT
                   !.pc = IF @ = "unused" THEN @ ELSE "done", !.on = 0, !.round = 0,
                   !.wait = NoState, !.since = 0]]
    /\ job' = Boot
    /\ UNCHANGED <<row, built, sent>>

Next ==
    \/ \E c \in Clients, op \in Ops : Request(c, op)
    \/ \E p \in Procs : ProcStep(p)
    \/ \E g \in Loops : LoopStep(g)
    \/ \E r \in Runners, m \in ToolModes : TurnSetsMode(r, m)
    \/ Listen \/ Crash

Spec == Init /\ [][Next]_vars

\* The Go scheduler runs every goroutine that can step, r.mu goes to whoever
\* waited long enough, turns end and the timer fires.
FairSpec ==
    /\ Spec
    /\ \A p \in Procs : WF_vars(ProcStep(p))
    /\ \A g \in Loops : WF_vars(LoopStep(g))
    /\ WF_vars(Listen)
-----------------------------------------------------------------------------
(* Properties.                                                             *)

Live(g) == loop[g].pc \notin {"unused", "done"}
Quiet   == (\A p \in Procs : job[p].todo = << >>) /\ (\A g \in Loops : ~Live(g))

\* The registered runner of a thread is never replaced by another one: it is
\* deleted first.  This is the orphan-runner race GetOrBuild's single flight
\* closes: the loser of two concurrent builds would overwrite the winner.
OneRegistered == [][entry # 0 /\ entry' # 0 => entry' = entry]_vars

\* Once PauseAutonomous has returned, a loop begins at most the one turn it
\* was already on its way to (waitIfPaused is only called between turns),
\* however pauses, resumes, errors and chat turns interleave.
PauseHolds == \A g \in Loops : loop[g].since <= 1

\* Nobody sent a resume, with or without a correction, which writes Running although
\* nothing may run and may start a second loop for the same run.
NoResume == \A op \in {"resume", "correct"} \cap Ops : sent[op] = 0

\* When nothing runs any more, the row does not say that something does: the
\* Running of a run is followed by the Idle of its deferred call or of the
\* reconciliation after a crash, unless a resume wrote it.
NoPhantomRun == Quiet /\ NoResume => row.st # "running"

\* Within one run (one started_at) round_count never goes back, across pauses
\* and restarts of the process, unless a resume started a second loop.
RoundsMonotone ==
    [][NoResume /\ row'.run = row.run => row'.round >= row.round]_vars

\* A loop whose context is cancelled exits, paused or not, and its deferred
\* calls are done.
CancelEnds ==
    \A g \in Loops : loop[g].ctx = "canceled" ~> (loop[g].pc = "done" /\ job[g] = Idle)

\* Every mutation returns: no process waits for ever for a build's signal or
\* for r.mu.
RequestsEnd == \A c \in Clients : job[c] # Idle ~> job[c] = Idle

\* Whatever two mutations interleave, both return, and a loop one of them
\* cancelled is gone.
EverythingEnds == CancelEnds /\ RequestsEnd
=============================================================================
