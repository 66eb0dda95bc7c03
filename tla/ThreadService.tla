---------------------------- MODULE ThreadService ----------------------------
(***************************************************************************)
(* The thread mutations of the API: the rows they write, the runners they  *)
(* invalidate and the events they publish (service/graph,                  *)
(* service/storage/threads.go, service/runtime, service/attachments).      *)
(*                                                                         *)
(* A runner keeps what it was built from: the engine and the completer of  *)
(* the installed substrate, the settings of the thread's row (sandbox and  *)
(* working directories) and the mode of the agent.  Nothing re-reads them; *)
(* a mutation that changes one of them stops the runner instead.  The      *)
(* agent's own EnterPlanMode tool changes the mode and stops nothing.      *)
(*                                                                         *)
(* A request runs one mutation, one statement or one lock at a time, with  *)
(* the statements of the others in between.  One that publishes does       *)
(* nothing else until its last send.                                       *)
(***************************************************************************)
EXTENDS PubSub, FiniteSetsExt

CONSTANTS
    Root, Spare,        \* the thread of the model, and ids for new ones
    Requests,
    Settings, Initial,  \* settings of a row; those of a new thread
    None,
    FileNames, Sizes, Limit,    \* uploads: names, bytes, and the ceiling
    MaxName, Reserved,          \* bytes of a name, and the names of devices
    Scripts,            \* what may happen at once: records [ops, tabs, reloads, retries,
                        \* plans], a mutation per request, subscriptions, settings
                        \* changes, retried model calls and agents entering plan mode
    MaxPositions        \* positions a runner of the model mints

Threads == {Root} \cup Spare
Modes == {"normal", "plan"}
Operations == {"none", "create", "update", "delete", "archive", "plan", "approve", "send",
               "deny", "resume", "edit", "upload"}

\* Rows of the table, and what a build has read.
Rows == [alive : BOOLEAN, settings : Settings \cup {None}, mode : Modes, archived : BOOLEAN,
         parent : Threads \cup {None}, point : Nat, snapped : BOOLEAN]
Builds ==
    [by : Requests] \cup [by : Requests, engine : Nat] \cup [by : Requests, engine : Nat, main : Nat]
    \cup [by : Requests, engine : Nat, main : Nat, settings : Settings \cup {None}]
    \cup [by : Requests, engine : Nat, main : Nat, settings : Settings \cup {None}, mode : Modes]

\* Nothing stands for the absence of a thing; names are sequences of bytes.
ASSUME ThreadAssumption ==
    /\ Initial \in Settings /\ Root \notin Spare
    /\ None \notin Threads /\ None \notin Requests /\ None \notin Settings
    /\ None \notin Rows /\ None \notin Builds
    /\ Limit \in Nat /\ Sizes \subseteq Nat /\ MaxPositions \in Nat
    /\ \A f \in FileNames : f.name \in Seq(STRING) /\ f.size \in Sizes /\ f.declared \in Sizes
    /\ \A s \in Scripts : \A r \in Requests : s.ops[r] \in Operations

ASSUME NameAssumption ==
    /\ MaxName \in Nat \ {0}
    /\ <<"a">> \notin Reserved /\ \A n \in Reserved : n # <<>> /\ Head(n) # "_"

VARIABLES
    rows,       \* table threads; the mode is the agent_state row's
    msgs,       \* table messages
    seq,        \* msgSeq of the runner a request built: the last position it minted
    turn,       \* currentTurnID of that runner
    registry,   \* runner of each thread
    building,   \* build in flight for each thread
    substrate,  \* [gen, stopping]: the installed one; a reload that has yet to stop runners
    req,
    files,      \* attachments on disk
    ps,         \* subscribers and what they received
    bounds,     \* what is left of the script
    raced,      \* threads whose settings changed under a build or another update
    planned     \* threads whose agent entered plan mode by itself

vars == <<rows, msgs, seq, turn, registry, building, substrate, req, files, ps, raced, planned, bounds>>
counters == <<seq, turn>>
tables == <<rows, msgs, counters>>
overlaps == <<raced, planned>>
runners == <<registry, building, substrate, overlaps, bounds>>

\* A deleted row keeps its id: the code never gives an id twice.
Exists(t) == rows[t] # None /\ rows[t].alive

Row(settings, parent, point, snapped) ==
    [alive |-> TRUE, settings |-> settings, mode |-> "normal", archived |-> FALSE,
     parent |-> parent, point |-> point, snapped |-> snapped]

Done == [op |-> "none", pc |-> "done"]

\* Continue request r at pc.
Goto(r, pc) == req' = [req EXCEPT ![r].pc = pc]
Return(r) == req' = [req EXCEPT ![r] = Done]
At(r, op, pc) == req[r].op = op /\ req[r].pc = pc /\ ~Publishing(ps, r)
Starts(r, op) == At(r, op, "ready")

Init ==
    /\ rows = [t \in Threads |-> IF t = Root THEN Row(Initial, None, 0, FALSE) ELSE None]
    /\ msgs = {}
    /\ seq = [r \in Requests |-> 0]
    /\ turn = [r \in Requests |-> None]
    /\ registry = [t \in Threads |-> None]
    /\ building = [t \in Threads |-> None]
    /\ substrate = [gen |-> 0, stopping |-> FALSE]
    /\ \E s \in Scripts :
        /\ req = [r \in Requests |-> [op |-> s.ops[r], pc |-> "ready"]]
        /\ bounds = [tabs |-> s.tabs, reloads |-> s.reloads, retries |-> s.retries, plans |-> s.plans]
    /\ files = {}
    /\ ps = NewPubSub
    /\ raced = {} /\ planned = {}

-----------------------------------------------------------------------------
(* The registry of runners. *)

\* A build that has already read what is written now.
Overtakes(t, field) == IF building[t] # None /\ field \in DOMAIN building[t] THEN {t} ELSE {}

\* The turn of a runner: it runs one at a time.  The turn of a runner that was
\* stopped may still run beside the first one of the next.
InTurn(x) == {r \in Requests : req[r].op = "send" /\ req[r].pc \in {"turn", "called"} /\ req[r].via = x}

\* A thread is settled once nothing built from an older state is left.
Settled(t, among) == IF building[t] = None THEN among \ {t} ELSE among

\* Request r goes on with runner x.
Use(r, x) == req' = [req EXCEPT ![r].pc = "run", ![r].via = x]

\* GetOrBuild: the registered runner, or a build of its own; a request that finds
\* a build in flight waits for it.  A runner has the name of the request that built it.
GetOrBuild(r) ==
    LET t == req[r].t
    IN  /\ req[r].pc = "runner"
        /\ registry[t] # None \/ building[t] = None
        /\ IF registry[t] # None
           THEN Use(r, registry[t].by) /\ UNCHANGED building
           ELSE /\ building' = [building EXCEPT ![t] = [by |-> r]]
                /\ Goto(r, "build")
        /\ UNCHANGED <<tables, registry, substrate, overlaps, bounds, files, ps>>

\* runtimeDeps loads the substrate once for the engine and once for the completer.
Has(t, part) == building[t] # None /\ part \in DOMAIN building[t]
Fill(t, part, value) ==
    building' = [building EXCEPT ![t] = [f \in DOMAIN @ \cup {part} |-> IF f = part THEN value ELSE @[f]]]

runtimeDeps(t) ==
    \/ ~Has(t, "engine") /\ Fill(t, "engine", substrate.gen)
    \/ Has(t, "engine") /\ ~Has(t, "main") /\ Fill(t, "main", substrate.gen)

\* Build then reads the row, which fails for a deleted thread, and the mode.
BuildReads(r) ==
    LET t == req[r].t
        row == Has(t, "main") /\ ~Has(t, "settings")
    IN  /\ req[r].pc = "build"
        /\ \/ runtimeDeps(t) /\ UNCHANGED req
           \/ row /\ Exists(t) /\ Fill(t, "settings", rows[t].settings) /\ UNCHANGED req
           \/ row /\ ~Exists(t) /\ building' = [building EXCEPT ![t] = None] /\ Return(r)
           \/ /\ Has(t, "settings") /\ ~Has(t, "mode") /\ UNCHANGED req
              /\ Fill(t, "mode", IF Exists(t) THEN rows[t].mode ELSE "normal")
        /\ UNCHANGED <<tables, registry, substrate, overlaps, bounds, files, ps>>

\* The finished build is registered, whatever was stopped since it began.
BuildEnds(r) ==
    LET t == req[r].t
        b == building[t]
    IN  /\ req[r].pc = "build" /\ "mode" \in DOMAIN b
        /\ registry' = [registry EXCEPT ![t] =
                [by |-> r, engine |-> b.engine, main |-> b.main, settings |-> b.settings, mode |-> b.mode]]
        /\ building' = [building EXCEPT ![t] = None]
        /\ Use(r, r)
        /\ UNCHANGED <<tables, substrate, overlaps, bounds, files, ps>>

\* A settings change builds and installs a new substrate, then stops all runners.
Reload ==
    /\ substrate.gen < bounds.reloads /\ ~substrate.stopping
    /\ substrate' = [gen |-> substrate.gen + 1, stopping |-> TRUE]
    /\ raced' = raced \cup UNION {Overtakes(t, "engine") : t \in Threads}
    /\ UNCHANGED <<tables, registry, building, planned, bounds, req, files, ps>>

StopAll ==
    /\ substrate.stopping
    /\ substrate' = [substrate EXCEPT !.stopping = FALSE]
    /\ registry' = [t \in Threads |-> None]
    /\ raced' = {t \in raced : building[t] # None}
    /\ planned' = {t \in planned : building[t] # None}
    /\ UNCHANGED <<tables, building, bounds, req, files, ps>>

-----------------------------------------------------------------------------
(* createThread, updateThread, deleteThread, archiveThread. *)

\* CreateThread inserts the row first; the parent it names must exist.
CreateRow(r, id, row, pc) ==
    IF row.parent # None /\ ~Exists(row.parent)
    THEN Return(r) /\ UNCHANGED rows
    ELSE /\ rows' = [rows EXCEPT ![id] = row]
         /\ req' = [req EXCEPT ![r].pc = pc, ![r].new = id]

CreateThread(r, id, settings) ==
    /\ Starts(r, "create") /\ rows[id] = None
    /\ rows' = [rows EXCEPT ![id] = Row(None, None, 0, FALSE)]
    /\ req' = [req EXCEPT ![r] = [op |-> "create", pc |-> "dirs", t |-> id, settings |-> settings]]
    /\ UNCHANGED <<msgs, counters, runners, files, ps>>

\* The working directories follow in statements of their own.  A repeated one, or
\* a thread deleted since, is an error, and what was inserted stays.
CreateDirs(r, ok) ==
    LET w == req[r]
    IN  /\ At(r, "create", "dirs")
        /\ IF ok /\ Exists(w.t)
           THEN /\ rows' = [rows EXCEPT ![w.t].settings = w.settings]
                /\ raced' = IF registry[w.t] # None THEN raced \cup {w.t}
                            ELSE raced \cup Overtakes(w.t, "settings")
                /\ Goto(r, "publish")
           ELSE Return(r) /\ UNCHANGED <<rows, raced>>
        /\ UNCHANGED <<msgs, counters, registry, building, substrate, planned, bounds, files, ps>>

\* The last statement of create, delete and archive.
PublishThreadState(r) ==
    /\ \E op \in {"create", "delete", "archive"} : At(r, op, "publish")
    /\ ps' = Publish(ps, r, "threads")
    /\ Return(r)
    /\ UNCHANGED <<tables, runners, files>>

\* Mutant: the comparison is made after the fields were assigned.
UpdateGetAfterAssign(r, t, settings) ==
    /\ Starts(r, "update") /\ Exists(t)
    /\ req' = [req EXCEPT ![r] =
            [op |-> "update", pc |-> "write", t |-> t, read |-> rows[t].settings,
             settings |-> IF settings = None THEN rows[t].settings ELSE settings,
             stale |-> FALSE]]
    /\ UNCHANGED <<tables, runners, files, ps>>

\* UpdateThread reads the row and decides on what it read whether the runner is
\* stale.  Settings None: only the name changes.
UpdateGet(r, t, settings) ==
    /\ Starts(r, "update") /\ Exists(t)
    /\ req' = [req EXCEPT ![r] =
            [op |-> "update", pc |-> "write", t |-> t, read |-> rows[t].settings,
             settings |-> IF settings = None THEN rows[t].settings ELSE settings,
             stale |-> settings # None /\ settings # rows[t].settings]]
    /\ UNCHANGED <<tables, runners, files, ps>>

\* One transaction writes every field, the ones the caller left out as they were
\* read.  For a deleted thread the directories violate their foreign key.
UpdateWrite(r) ==
    LET w == req[r]
        lost == IF rows[w.t].settings # w.read THEN {w.t} ELSE {}
    IN  /\ At(r, "update", "write")
        /\ IF ~Exists(w.t) THEN Return(r) /\ UNCHANGED <<rows, raced>>
           ELSE /\ rows' = [rows EXCEPT ![w.t].settings = w.settings]
                /\ raced' = IF w.settings = rows[w.t].settings THEN raced
                            ELSE raced \cup lost \cup Overtakes(w.t, "settings")
                /\ IF w.stale THEN Goto(r, "stop") ELSE Return(r)
        /\ UNCHANGED <<msgs, counters, registry, building, substrate, planned, bounds, files, ps>>

\* stopRunner cancels the turn in flight of the registered runner and removes the
\* entry.
StopRunner(r) ==
    LET w == req[r]
        cancelled == IF registry[w.t] = None THEN {} ELSE InTurn(registry[w.t].by)
    IN  /\ req[r].pc = "stop"
        /\ registry' = [registry EXCEPT ![w.t] = None]
        /\ raced' = Settled(w.t, raced) /\ planned' = Settled(w.t, planned)
        /\ req' = [u \in Requests |->
                IF u = r THEN (IF w.op = "plan" THEN [w EXCEPT !.pc = "runner"] ELSE Done)
                ELSE IF u \in cancelled THEN [req[u] EXCEPT !.cancelled = TRUE] ELSE req[u]]
        /\ UNCHANGED <<tables, building, substrate, bounds, files, ps>>

\* DeleteThread: refused while a branch refers to the thread, else the row goes
\* with everything that refers to it.  The runner is not told.
DeleteThread(r, t) ==
    /\ Starts(r, "delete")
    /\ IF \E b \in Threads : Exists(b) /\ rows[b].parent = t
       THEN Return(r) /\ UNCHANGED <<rows, msgs>>
       ELSE /\ rows' = IF rows[t] = None THEN rows ELSE [rows EXCEPT ![t].alive = FALSE]
            /\ msgs' = {m \in msgs : m.thread # t}
            /\ req' = [req EXCEPT ![r] = [op |-> "delete", pc |-> "publish", t |-> t]]
    /\ UNCHANGED <<counters, runners, files, ps>>

\* ArchiveThread and UnarchiveThread; no row is no error.
ArchiveThread(r, t, archived) ==
    /\ Starts(r, "archive")
    /\ rows' = IF Exists(t) THEN [rows EXCEPT ![t].archived = archived] ELSE rows
    /\ req' = [req EXCEPT ![r] = [op |-> "archive", pc |-> "publish", t |-> t]]
    /\ UNCHANGED <<msgs, counters, runners, files, ps>>

-----------------------------------------------------------------------------
(* Plan mode. *)

\* EnterPlanMode and RejectPlan write the mode, stop the runner and build the one
\* of the new mode.
EnterPlanMode(r, t) ==
    /\ Starts(r, "plan")
    /\ IF Exists(t)
       THEN /\ rows' = [rows EXCEPT ![t].mode = "plan"]
            /\ raced' = raced \cup (IF rows[t].mode = "plan" THEN {} ELSE Overtakes(t, "mode"))
            /\ req' = [req EXCEPT ![r] = [op |-> "plan", pc |-> "stop", t |-> t, via |-> None]]
       ELSE Return(r) /\ UNCHANGED <<rows, raced>>
    /\ UNCHANGED <<msgs, counters, registry, building, substrate, planned, bounds, files, ps>>

\* ApprovePlan in manual mode: the mode goes back, the runner stays.
ApprovePlan(r, t) ==
    /\ Starts(r, "approve")
    /\ IF Exists(t)
       THEN /\ rows' = [rows EXCEPT ![t].mode = "normal"]
            /\ req' = [req EXCEPT ![r] = [op |-> "approve", pc |-> "publish", t |-> t]]
       ELSE Return(r) /\ UNCHANGED rows
    /\ UNCHANGED <<msgs, counters, runners, files, ps>>

\* The last statement of both: the new state of the agent.
PublishAgentState(r) ==
    /\ At(r, "plan", "run") \/ At(r, "approve", "publish")
    /\ ps' = Publish(ps, r, req[r].t)
    /\ Return(r)
    /\ UNCHANGED <<tables, runners, files>>

-----------------------------------------------------------------------------
(* Turns and branches. *)

SendMessage(r, t) ==
    /\ Starts(r, "send")
    /\ req' = [req EXCEPT ![r] = [op |-> "send", pc |-> "runner", t |-> t, via |-> None,
                                  call |-> 0, cancelled |-> FALSE]]
    /\ UNCHANGED <<tables, runners, files, ps>>

Stored(t) == {m \in msgs : m.thread = t}
Message(t, pos, u, kind) == [thread |-> t, pos |-> pos, turn |-> u, kind |-> kind]

\* syncMsgSeq: the runner's counter, raised to the highest position stored.
syncMsgSeq(x, t) == Max({seq[x]} \cup {m.pos : m \in Stored(t)})

\* An insert at the next position, which the foreign key refuses without the
\* thread's row.
Insert(t, x, u, kind) ==
    LET pos == syncMsgSeq(x, t) + 1
    IN  /\ pos <= MaxPositions
        /\ msgs' = IF Exists(t) THEN msgs \cup {Message(t, pos, u, kind)} ELSE msgs
        /\ seq' = [seq EXCEPT ![x] = pos]
        /\ UNCHANGED rows

\* A turn begins with the user's message; one without contents stores none.
TurnBegins(r) ==
    LET t == req[r].t
        x == req[r].via
    IN  /\ At(r, "send", "run") /\ InTurn(x) = {}
        /\ turn' = [turn EXCEPT ![x] = r]
        /\ \/ Insert(t, x, r, "user") /\ (IF Exists(t) THEN Goto(r, "turn") ELSE Return(r))
           \/ seq' = [seq EXCEPT ![x] = syncMsgSeq(x, t)] /\ Goto(r, "turn") /\ UNCHANGED <<rows, msgs>>
        /\ UNCHANGED <<runners, files, ps>>

\* A tool call takes its position when it streams and is kept until its result.
ToolCall(r) ==
    LET x == req[r].via
    IN  /\ At(r, "send", "turn") /\ ~req[r].cancelled /\ seq[x] + 1 < MaxPositions
        /\ req' = [req EXCEPT ![r].pc = "called", ![r].call = seq[x] + 1]
        /\ seq' = [seq EXCEPT ![x] = @ + 1]
        /\ ps' = Publish(ps, r, req[r].t)
        /\ UNCHANGED <<rows, msgs, turn, runners, files>>

\* The call may be the EnterPlanMode tool: SetMode writes the mode, unless the
\* thread is gone, and publishes it.  The runner and its prompt stay what they are.
SetMode(r) ==
    LET t == req[r].t
    IN  /\ At(r, "send", "called") /\ bounds.plans > 0 /\ Exists(t)
        /\ bounds' = [bounds EXCEPT !.plans = @ - 1]
        /\ rows' = [rows EXCEPT ![t].mode = "plan"]
        /\ planned' = IF rows[t].mode = "plan" THEN planned ELSE planned \cup {t}
        /\ ps' = Publish(ps, r, t)
        /\ UNCHANGED <<msgs, counters, registry, building, substrate, raced, req, files>>

\* Call and result are stored in one transaction, a cancelled turn's with the
\* result the cleanup makes up.
ToolResult(r) ==
    LET t == req[r].t
        x == req[r].via
    IN  /\ At(r, "send", "called")
        /\ msgs' = IF Exists(t)
                   THEN msgs \cup {Message(t, req[r].call, r, "call"), Message(t, seq[x] + 1, r, "result")}
                   ELSE msgs
        /\ seq' = [seq EXCEPT ![x] = @ + 1]
        /\ Goto(r, "turn")
        /\ UNCHANGED <<rows, turn, runners, files, ps>>

\* A retried model call publishes the agent's state with what is wrong.
PublishRetryStatus(r) ==
    /\ At(r, "send", "turn") /\ bounds.retries > 0
    /\ bounds' = [bounds EXCEPT !.retries = @ - 1]
    /\ ps' = Publish(ps, r, req[r].t)
    /\ UNCHANGED <<tables, registry, building, substrate, overlaps, req, files>>

TurnEnds(r) ==
    /\ At(r, "send", "turn")
    /\ Return(r)
    /\ UNCHANGED <<tables, runners, files, ps>>

\* What other requests store, with the position of a runner they get or build: the
\* reason of a denial joins the runner's last turn, the correction of a resume is a
\* turn of its own.
Note(r, op, t) ==
    /\ Starts(r, op) /\ op \in {"deny", "resume"}
    /\ req' = [req EXCEPT ![r] = [op |-> op, pc |-> "runner", t |-> t, via |-> None]]
    /\ UNCHANGED <<tables, runners, files, ps>>

Denial(r) ==
    LET w == req[r]
    IN  /\ At(r, "deny", "run")
        /\ Insert(w.t, w.via, IF turn[w.via] = None THEN r ELSE turn[w.via], "note")
        /\ Return(r)
        /\ UNCHANGED <<turn, runners, files, ps>>

Correction(r) ==
    /\ At(r, "resume", "run")
    /\ Insert(req[r].t, req[r].via, r, "user")
    /\ Return(r)
    /\ UNCHANGED <<turn, runners, files, ps>>

\* Mutant: the branch starts at the message itself.
TurnStartUnsnapped(t, p) == p

\* TurnStartPosition: the first position of the turn at p, p itself when no message
\* is stored there.
TurnStartPosition(t, p) ==
    LET at == {m.turn : m \in {n \in Stored(t) : n.pos = p}}
    IN  IF at = {} THEN p
        ELSE Min({m.pos : m \in {n \in Stored(t) : n.turn = CHOOSE u \in at : TRUE}})

\* EditMessage reads the parent's row and the branch point, inserts the branch and
\* its first message.
EditMessage(r, t, p) ==
    /\ Starts(r, "edit") /\ Exists(t)
    /\ req' = [req EXCEPT ![r] =
            [op |-> "edit", pc |-> "point", t |-> t, settings |-> rows[t].settings,
             at |-> p, snapped |-> FALSE, new |-> None]]
    /\ UNCHANGED <<tables, runners, files, ps>>

EditPoint(r) ==
    LET w == req[r]
    IN  /\ At(r, "edit", "point")
        /\ req' = [req EXCEPT ![r].pc = "row",
                              ![r].at = TurnStartPosition(w.t, w.at),
                              ![r].snapped = \E m \in Stored(w.t) : m.pos = w.at]
        /\ UNCHANGED <<tables, runners, files, ps>>

EditRow(r, id) ==
    LET w == req[r]
    IN  /\ At(r, "edit", "row") /\ rows[id] = None
        /\ CreateRow(r, id, Row(w.settings, w.t, w.at, w.snapped), "insert")
        /\ UNCHANGED <<msgs, counters, runners, files, ps>>

EditInsert(r) ==
    LET w == req[r]
    IN  /\ At(r, "edit", "insert")
        /\ msgs' = IF Exists(w.new)
                   THEN msgs \cup {[thread |-> w.new, pos |-> w.at, turn |-> r, kind |-> "user"]}
                   ELSE msgs
        /\ Return(r)
        /\ UNCHANGED <<rows, counters, runners, files, ps>>

\* ThreadCorpus: the parent's messages before the branch point, then the own ones.
ThreadCorpus(t) ==
    LET own == rows[t]
    IN  Stored(t) \cup (IF own.parent = None THEN {}
                        ELSE {m \in Stored(own.parent) : m.pos < own.point})

-----------------------------------------------------------------------------
(* Attachments. *)

\* A name is a sequence of bytes, of which separators, dots, blanks and the two
\* halves of a longer character are told apart (backslashes and zeros are dropped
\* first and left out here).  The last path component without outer blanks, then
\* without leading dots, then marked if it names a device, and cut last.
Trimmed(s) ==
    LET solid == {i \in DOMAIN s : s[i] # " "}
    IN  IF solid = {} THEN <<>> ELSE SubSeq(s, Min(solid), Max(solid))

Undotted(s) ==
    LET solid == {i \in DOMAIN s : s[i] # "."}
    IN  IF solid = {} THEN <<>> ELSE SubSeq(s, Min(solid), Len(s))

Dots(s) == {i \in DOMAIN s : s[i] = "."}
Stem(s) == IF Dots(s) = {} THEN s ELSE SubSeq(s, 1, Min(Dots(s)) - 1)
Ext(s)  == IF Dots(s) = {} THEN <<>> ELSE SubSeq(s, Max(Dots(s)), Len(s))

Marked(s) == IF Stem(s) \in Reserved THEN <<"_">> \o s ELSE s

\* The extension is kept, and a byte before it.
Shortened(s) ==
    IF Len(s) > MaxName THEN SubSeq(s, 1, Max({1, MaxName - Len(Ext(s))})) \o Ext(s) ELSE s

sanitizeFilename(name) ==
    LET solid == {i \in DOMAIN name : name[i] # "/"}
        end   == IF solid = {} THEN 0 ELSE Max(solid)
        seps  == {i \in 1..end : name[i] = "/"}
        base  == SubSeq(name, IF seps = {} THEN 1 ELSE Max(seps) + 1, end)
        clean == Undotted(Trimmed(base))
    IN  IF clean = <<>> THEN <<>> ELSE Shortened(Marked(clean))

Upload(r, t, sent) ==
    /\ Starts(r, "upload")
    /\ req' = [req EXCEPT ![r] = [op |-> "upload", pc |-> "save", t |-> t, left |-> sent, out |-> {}]]
    /\ UNCHANGED <<tables, runners, files, ps>>

\* Mutant: the declared size is trusted.
SaveHeaderTrusting(r, copied) ==
    LET w    == req[r]
        f    == Head(w.left)
        kept == [thread |-> w.t, id |-> <<r, Len(w.left)>>, name |-> sanitizeFilename(f.name), size |-> f.size]
    IN  /\ At(r, "upload", "save") /\ w.left # <<>>
        /\ IF f.declared > Limit \/ ~copied \/ kept.name = <<>> \/ Len(kept.name) > MaxName
           THEN Return(r) /\ UNCHANGED files
           ELSE /\ files' = files \cup {kept}
                /\ req' = [req EXCEPT ![r].left = Tail(@), ![r].out = @ \cup {kept}]
        /\ UNCHANGED <<tables, runners, ps>>

\* One file of the request: refused by its declared size; or copied, where an error
\* or a body longer than declared removes the copy (an extension may leave the name
\* longer than the file system takes); or kept under an id of its own.
\* A refused file ends the request with an error, and the ones before it stay.
SaveHeader(r, copied) ==
    LET w    == req[r]
        f    == Head(w.left)
        name == IF sanitizeFilename(f.name) = <<>> THEN <<"a">> ELSE sanitizeFilename(f.name)
        kept == [thread |-> w.t, id |-> <<r, Len(w.left)>>, name |-> name, size |-> f.size]
    IN  /\ At(r, "upload", "save") /\ w.left # <<>>
        /\ IF f.declared > Limit \/ ~copied \/ f.size > Limit \/ Len(name) > MaxName
           THEN Return(r) /\ UNCHANGED files
           ELSE /\ files' = files \cup {kept}
                /\ req' = [req EXCEPT ![r].left = Tail(@), ![r].out = @ \cup {kept}]
        /\ UNCHANGED <<tables, runners, ps>>

\* The answer: what was kept, by its id and its name.
Uploaded(r) ==
    /\ At(r, "upload", "save") /\ req[r].left = <<>>
    /\ req' = [req EXCEPT ![r] = [op |-> "uploaded", pc |-> "done", out |-> req[r].out]]
    /\ UNCHANGED <<tables, runners, files, ps>>

\* Text of whole characters: of anything else the JSON answer reports another name.
Whole(name) == \A i \in DOMAIN name : name[i] = "lead" => i < Len(name) /\ name[i + 1] = "tail"

\* The client asks for the name that was reported, and HandleDownload serves one that
\* sanitizing leaves as it is.
Served(t, id, name) ==
    /\ name # <<>> /\ Whole(name) /\ sanitizeFilename(name) = name
    /\ \E f \in files : f.thread = t /\ f.id = id /\ f.name = name

-----------------------------------------------------------------------------
(* The tabs. *)

TabSubscribes(topic) ==
    /\ Len(ps.chans) < bounds.tabs /\ ~Locked(ps, topic)
    /\ ps' = Subscribe(ps, topic)
    /\ UNCHANGED <<tables, runners, req, files>>

TabReceives(c) ==
    /\ ps.chans[c].buf # <<>>
    /\ ps' = Receive(ps, c)
    /\ UNCHANGED <<tables, runners, req, files>>

\* The next send of a publication under way.
SendEvent ==
    /\ \E u \in ps.pubs : \E c \in First(u) : ps' = SendNext(ps, u, c)
    /\ UNCHANGED <<tables, runners, req, files>>

\* The subscription's context ended.
TabCloses(c) ==
    /\ ps.chans[c].open /\ ~Locked(ps, ps.chans[c].topic)
    /\ ps' = Unsubscribe(ps, c)
    /\ UNCHANGED <<tables, runners, req, files>>

Next ==
    \/ \E r \in Requests :
        \/ GetOrBuild(r) \/ BuildReads(r) \/ BuildEnds(r) \/ StopRunner(r)
        \/ \E ok \in BOOLEAN : CreateDirs(r, ok) \/ SaveHeader(r, ok)
        \/ PublishThreadState(r) \/ UpdateWrite(r) \/ PublishAgentState(r)
        \/ TurnBegins(r) \/ ToolCall(r) \/ ToolResult(r) \/ TurnEnds(r)
        \/ PublishRetryStatus(r) \/ SetMode(r)
        \/ Denial(r) \/ Correction(r) \/ EditPoint(r) \/ EditInsert(r) \/ Uploaded(r)
        \/ \E id \in Spare : EditRow(r, id) \/ \E s \in Settings : CreateThread(r, id, s)
        \/ \E t \in Threads :
            \/ \E s \in Settings \cup {None} : UpdateGet(r, t, s)
            \/ DeleteThread(r, t) \/ EnterPlanMode(r, t) \/ ApprovePlan(r, t)
            \/ \E on \in BOOLEAN : ArchiveThread(r, t, on)
            \/ SendMessage(r, t) \/ \E op \in {"deny", "resume"} : Note(r, op, t)
            \/ \E p \in 0..MaxPositions : EditMessage(r, t, p)
            \/ \E sent \in {<<f>> : f \in FileNames} \cup {<<f, g>> : f, g \in FileNames} : Upload(r, t, sent)
    \/ Reload \/ StopAll \/ SendEvent
    \/ \E topic \in {"threads"} \cup Threads : TabSubscribes(topic)
    \/ \E c \in DOMAIN ps.chans : TabReceives(c) \/ TabCloses(c)

Spec == Init /\ [][Next]_vars

-----------------------------------------------------------------------------
\* A change of the sandbox, the directories, the plan mode or the providers reaches
\* the live agent (schema.threads.resolvers.go): a registered runner was built from
\* what is in force, or is about to be stopped.  The exceptions are the two overlaps
\* the code does not close: a build that had read before the change and registers
\* after the stop, and two updates of one row; and the mode, where the agent itself
\* entered plan mode and nothing has stopped its runner since.
RunnerCurrent ==
    \A t \in Threads :
        registry[t] # None /\ Exists(t) =>
            LET run == registry[t]
            IN  \/ t \in raced
                \/ substrate.stopping
                \/ \E r \in Requests : req[r].pc = "stop" /\ req[r].t = t
                \/ /\ run.engine = substrate.gen /\ run.main = substrate.gen
                   /\ run.settings = rows[t].settings
                   /\ rows[t].mode = "plan" => run.mode = "plan" \/ t \in planned

\* A branch never includes a tool call and excludes its result
\* (storage/messages.go, TurnStartPosition), however late the pair is stored, unless
\* the branch point is a message of another turn stored between the two, or was no
\* stored message at all, or the turn has no user's message, so that nothing of it
\* was stored before the call.
BranchWhole ==
    \A b \in Threads :
        Exists(b) /\ rows[b].parent # None /\ rows[b].snapped =>
            \A c, e \in Stored(rows[b].parent) :
                /\ c.kind = "call" /\ e.kind = "result" /\ c.turn = e.turn
                /\ c \in ThreadCorpus(b) /\ e \notin ThreadCorpus(b)
                => \/ \E m \in Stored(rows[b].parent) : m.pos = rows[b].point /\ m.turn # c.turn
                   \/ \A m \in Stored(rows[b].parent) : m.turn = c.turn => m.kind # "user"

\* No publisher meets a closed channel, and every tab gets the events of its topic,
\* each publisher's in order, losing one only behind a full buffer (pubsub.go).
Fanout == ~ps.panicked /\ \A c \in DOMAIN ps.chans : Delivered(ps, c)

\* An upload that succeeded kept every file it reports, whole and within the
\* ceiling, and the client that echoes the reported name can download it, unless
\* the name begins with a blank its leading dots were hiding, the cut left a blank at
\* its end or the name of a device, or it has half a character.
AttachmentsKept ==
    \A r \in Requests : req[r].op = "uploaded" =>
        \A f \in req[r].out :
            /\ f \in files /\ f.size <= Limit
            /\ \/ Served(f.thread, f.id, f.name)
               \/ Head(f.name) = " "
               \/ Len(f.name) = MaxName /\ (Last(f.name) = " " \/ Stem(f.name) \in Reserved)
               \/ ~Whole(f.name)
=============================================================================
