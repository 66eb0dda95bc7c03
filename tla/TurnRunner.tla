------------------------------ MODULE TurnRunner ------------------------------
(***************************************************************************)
(* One thread's agent runner (service/agent/runner.go) together with the   *)
(* message table it writes and the resolvers that write beside it.         *)
(*                                                                         *)
(* A turn is one SendMessage call, which holds r.mu throughout: seed the   *)
(* position counter from the table, store the user's message, then drain   *)
(* the ADK event stream (processEvents).  A tool call is buffered and is   *)
(* stored only together with its result; when the stream ends every call   *)
(* that is still buffered is stored with an error result.  CancelTurn, a   *)
(* failing insert and a crash of the process may happen at any point.      *)
(*                                                                         *)
(* r.mu does not exclude the resolvers that call NextPosition (a denial,   *)
(* a correction): the position counter msgSeq is a bare atomic, and each   *)
(* of its Add, Load and Store operations is a step of its own here.        *)
(*                                                                         *)
(* The ADK stream and the provider behind it are external: EvCall ...      *)
(* StreamEnd let them emit any event the code has a branch for.  A part    *)
(* that ADK emits again and a context.Canceled error leave the runner      *)
(* unchanged and are stuttering steps.                                     *)
(***************************************************************************)
EXTENDS Integers, Sequences, FiniteSets

CONSTANTS
    Runner,         \* the runner's own goroutine
    Writers,        \* resolver goroutines that call NextPosition
    Calls,          \* tool-call ids
    Recycled,       \* ids a provider may issue for more than one call
    NoCall,         \* the call field of a row that has none
    ZeroTextBlocks, \* may a provider sign a thinking block it sent no text for?
    ReadsFail,      \* may the MaxPosition query fail?
    MaxTurns,       \* bound: SendMessage calls
    MaxSeq,         \* bound: no new event once msgSeq has reached it
    MaxBlocks,      \* bound: thinking blocks in a behaviour
    MaxNotes,       \* bound: rows written by resolvers
    MaxCrashes      \* bound: process crashes

ASSUME ConstantsAssumption ==
    /\ Runner \notin Writers
    /\ NoCall \notin Calls
    /\ Recycled \subseteq Calls
    /\ IsFiniteSet(Calls)
    /\ ZeroTextBlocks \in BOOLEAN /\ ReadsFail \in BOOLEAN
    /\ MaxTurns \in Nat /\ MaxSeq \in Nat /\ MaxBlocks \in Nat
    /\ MaxNotes \in Nat /\ MaxCrashes \in Nat

VARIABLES
    \* durable
    log,            \* rows of the messages table, in rowid order
    \* the position authority
    msgSeq,         \* Runner.msgSeq
    pc, high,       \* per goroutine: control point, value MaxPosition returned
    \* the runner
    turn,           \* currentTurnID, 0 before the first SendMessage
    ctx,            \* the turn's context: "live" or "canceled"
    todo,           \* messages still to be built by the current event
    pos,            \* the Position the message being built was given
    seenCalls, seenResults,
    pending,        \* pendingCalls: buffered calls ...
    callPos,        \* ... and the Position each was given
    order,          \* pendingOrder, consumed by the turn-end flush
    thinkBuf, thinkSig, textBuf,
    lastErr, flushErr,
    outcome,        \* what the last SendMessage returned
    \* resolvers
    noteTurn,       \* turn id a resolver's row will carry
    \* the outside world
    shown,          \* calls the UI shows as running (OnToolCall, no OnToolResult)
    issued,         \* how often the model issued each call id this turn
    block,          \* the provider's current thinking block
    sealed,         \* the blocks it has signed
    turnSeq, notes, crashes

ctl      == <<turn, ctx>>
build    == <<todo, pos>>
calls    == <<seenCalls, seenResults, pending, callPos, order>>
bufs     == <<thinkBuf, thinkSig, textBuf>>
errs     == <<lastErr, flushErr>>
volatile == <<ctl, build, calls, bufs, errs>>
ui       == <<shown, issued>>
stream   == <<block, sealed>>
bounds   == <<turnSeq, notes, crashes>>
world    == <<ui, stream, bounds>>
vars     == <<log, msgSeq, pc, high, volatile, outcome, noteTurn, world>>

Procs  == Writers \cup {Runner}
Kinds  == {"user", "thinking", "call", "result", "final", "note"}
Blocks == 1 .. MaxBlocks

\* A row of the messages table.  text is the set of thinking blocks whose
\* text the row carries and sig the block its signature was issued for.
Row == [kind : Kinds, call : Calls \cup {NoCall}, turn : Nat, pos : Nat,
        err : {"ok", "IsError"}, text : SUBSET Blocks, sig : Nat]

MkRow(kind, c, t, p, err, text, sig) ==
    [kind |-> kind, call |-> c, turn |-> t, pos |-> p,
     err |-> err, text |-> text, sig |-> sig]

PlainRow(kind, text, sig) == MkRow(kind, NoCall, turn, pos, "ok", text, sig)

\* The call row as it was buffered, and the result row built now.
PairRows(c, err) == <<MkRow("call", c, turn, callPos[c], "ok", {}, 0),
                      MkRow("result", c, turn, pos, err, {}, 0)>>

\* A message to be built: the site that builds it and the call it is about.
Item == [site : {"user", "thinking", "final"}, call : {NoCall}]
        \cup [site : {"call", "result", "flush"}, call : Calls]

Site(s, c) == [site |-> s, call |-> c]
Goto(p, l) == pc' = [pc EXCEPT ![p] = l]

Init ==
    /\ log = << >>
    /\ msgSeq = 0
    /\ pc = [p \in Procs |-> "idle"]
    /\ high = [p \in Procs |-> 0]
    /\ turn = 0 /\ ctx = "live" /\ todo = << >> /\ pos = 0
    /\ seenCalls = {} /\ seenResults = {} /\ pending = {}
    /\ callPos = [c \in Calls |-> 0] /\ order = << >>
    /\ thinkBuf = {} /\ thinkSig = 0 /\ textBuf = "empty"
    /\ lastErr = "nil" /\ flushErr = "nil"
    /\ outcome = "none"
    /\ noteTurn = [w \in Writers |-> 0]
    /\ shown = {} /\ issued = [c \in Calls |-> 0] /\ block = 1 /\ sealed = {}
    /\ turnSeq = 0 /\ notes = 0 /\ crashes = 0
-----------------------------------------------------------------------------
(* syncMsgSeq, run by SendMessage and by NextPosition.                     *)

\* Mutant: the counter seeded from COUNT(*), as it once was.
CountPositions == {Len(log)}

\* MaxPosition: the highest stored position, -1 for an empty thread.
MaxPositions ==
    LET ps == {-1} \cup {log[i].pos : i \in DOMAIN log}
    IN {h \in ps : \A p \in ps : p <= h}

\* The query's error is dropped: a failed read is taken for an empty thread.
SyncRead(p) ==
    /\ pc[p] = "sync"
    /\ \E h \in MaxPositions \cup (IF ReadsFail THEN {-1} ELSE {}) :
            high' = [high EXCEPT ![p] = h]
    /\ Goto(p, "compare")
    /\ UNCHANGED <<log, msgSeq, volatile, outcome, noteTurn, world>>

\* p > r.msgSeq.Load()
SyncCompare(p) ==
    /\ pc[p] = "compare"
    /\ Goto(p, IF high[p] > msgSeq THEN "store" ELSE "seeded")
    /\ UNCHANGED <<log, msgSeq, high, volatile, outcome, noteTurn, world>>

\* r.msgSeq.Store(p): not a compare-and-swap
SyncStore(p) ==
    /\ pc[p] = "store"
    /\ msgSeq' = high[p]
    /\ Goto(p, "seeded")
    /\ UNCHANGED <<log, high, volatile, outcome, noteTurn, world>>
-----------------------------------------------------------------------------
(* SendMessage, up to the event loop.                                      *)

\* Take r.mu, publish the cancel function, reset the per-call state.
Begin ==
    /\ pc[Runner] = "idle" /\ turnSeq < MaxTurns
    /\ Goto(Runner, "sync")
    /\ ctx' = "live" /\ outcome' = "none"
    /\ shown' = {} /\ issued' = [c \in Calls |-> 0]
    /\ UNCHANGED <<log, msgSeq, high, turn, build, calls, bufs, errs,
                   noteTurn, stream, bounds>>

\* Mint the turn id; a user message is stored only if it has content.
MintTurn ==
    /\ pc[Runner] = "seeded"
    /\ turnSeq' = turnSeq + 1 /\ turn' = turnSeq + 1
    /\ \/ /\ todo' = <<Site("user", NoCall)>>
          /\ Goto(Runner, "add")
       \/ /\ todo' = << >>
          /\ Goto(Runner, "events")
    /\ UNCHANGED <<log, msgSeq, high, ctx, pos, calls, bufs, errs,
                   outcome, noteTurn, ui, stream, notes, crashes>>
-----------------------------------------------------------------------------
(* One message site: nextMsgID (Add), Position: r.msgSeq.Load(), store.    *)

MintID ==
    /\ pc[Runner] = "add"
    /\ msgSeq' = msgSeq + 1
    /\ Goto(Runner, "load")
    /\ UNCHANGED <<log, high, volatile, outcome, noteTurn, world>>

LoadPosition ==
    /\ pc[Runner] = "load"
    /\ pos' = msgSeq
    /\ Goto(Runner, "write")
    /\ UNCHANGED <<log, msgSeq, high, ctl, todo, calls, bufs, errs, outcome,
                   noteTurn, world>>

AtSite(s) == pc[Runner] = "write" /\ todo # << >> /\ Head(todo).site = s

\* SendMessage returns o: its local variables are gone.
Return(o) ==
    /\ Goto(Runner, "idle")
    /\ outcome' = o
    /\ todo' = << >> /\ pos' = 0
    /\ seenCalls' = {} /\ seenResults' = {} /\ pending' = {}
    /\ callPos' = [c \in Calls |-> 0] /\ order' = << >>
    /\ thinkBuf' = {} /\ thinkSig' = 0 /\ textBuf' = "empty"
    /\ lastErr' = "nil" /\ flushErr' = "nil"
    /\ UNCHANGED ctl

StoreUser(ok) ==
    /\ AtSite("user")
    /\ IF ok
       THEN /\ log' = Append(log, PlainRow("user", {}, 0))
            /\ todo' = << >>
            /\ Goto(Runner, "events")
            /\ UNCHANGED <<ctl, pos, calls, bufs, errs, outcome>>
       ELSE Return("error") /\ UNCHANGED log
    /\ UNCHANGED <<msgSeq, high, noteTurn, world>>

\* storeThinking: a failed insert is only logged; the buffer is reset anyway.
StoreThinking(ok) ==
    /\ AtSite("thinking")
    /\ log' = IF ok THEN Append(log, PlainRow("thinking", thinkBuf, thinkSig))
                    ELSE log
    /\ thinkBuf' = {} /\ thinkSig' = 0
    /\ todo' = Tail(todo)
    /\ Goto(Runner, IF Tail(todo) = << >> THEN "events" ELSE "add")
    /\ UNCHANGED <<msgSeq, high, ctl, pos, calls, textBuf, errs, outcome,
                   noteTurn, world>>

\* Mutant: the call row is inserted as soon as the call is emitted.
InsertCallAtOnce ==
    /\ AtSite("call")
    /\ LET c == Head(todo).call IN
         /\ log' = Append(log, MkRow("call", c, turn, pos, "ok", {}, 0))
         /\ pending' = pending \cup {c}
         /\ callPos' = [callPos EXCEPT ![c] = pos]
         /\ order' = Append(order, c)
         /\ shown' = shown \cup {c}
    /\ todo' = Tail(todo)
    /\ Goto(Runner, "events")
    /\ UNCHANGED <<msgSeq, high, ctl, pos, seenCalls, seenResults, bufs,
                   errs, outcome, noteTurn, issued, stream, bounds>>

\* A call is buffered with its position and announced to the UI.
BufferCall ==
    /\ AtSite("call")
    /\ LET c == Head(todo).call IN
         /\ pending' = pending \cup {c}
         /\ callPos' = [callPos EXCEPT ![c] = pos]
         /\ order' = Append(order, c)
         /\ shown' = shown \cup {c}
    /\ todo' = Tail(todo)
    /\ Goto(Runner, "events")
    /\ UNCHANGED <<log, msgSeq, high, ctl, pos, seenCalls, seenResults, bufs,
                   errs, outcome, noteTurn, issued, stream, bounds>>

\* Mutant: OnToolResult fires although the pair could not be stored.
ShowUnstoredResult(ok) ==
    /\ AtSite("result")
    /\ LET c == Head(todo).call IN
         IF c \in pending
         THEN /\ log' = IF ok THEN log \o PairRows(c, "ok") ELSE log
              /\ pending' = IF ok THEN pending \ {c} ELSE pending
              /\ seenResults' = seenResults \cup {c}
              /\ shown' = shown \ {c}
         ELSE UNCHANGED <<log, pending, seenResults, shown>>
    /\ todo' = Tail(todo)
    /\ Goto(Runner, "events")
    /\ UNCHANGED <<msgSeq, high, ctl, pos, seenCalls, callPos, order, bufs,
                   errs, outcome, noteTurn, issued, stream, bounds>>

\* Mutant: the paired call is not deleted from pendingCalls.
KeepPairedCall(ok) ==
    /\ AtSite("result")
    /\ LET c == Head(todo).call IN
         IF c \in pending /\ ok
         THEN /\ log' = log \o PairRows(c, "ok")
              /\ seenResults' = seenResults \cup {c}
              /\ shown' = shown \ {c}
         ELSE UNCHANGED <<log, seenResults, shown>>
    /\ todo' = Tail(todo)
    /\ Goto(Runner, "events")
    /\ UNCHANGED <<msgSeq, high, ctl, pos, seenCalls, pending, callPos, order,
                   bufs, errs, outcome, noteTurn, issued, stream, bounds>>

\* indexPair at result time; an orphan is dropped, a failed pair stays buffered.
StoreResult(ok) ==
    /\ AtSite("result")
    /\ LET c == Head(todo).call IN
         IF c \in pending /\ ok
         THEN /\ log' = log \o PairRows(c, "ok")
              /\ pending' = pending \ {c}
              /\ seenResults' = seenResults \cup {c}
              /\ shown' = shown \ {c}
         ELSE UNCHANGED <<log, pending, seenResults, shown>>
    /\ todo' = Tail(todo)
    /\ Goto(Runner, "events")
    /\ UNCHANGED <<msgSeq, high, ctl, pos, seenCalls, callPos, order, bufs,
                   errs, outcome, noteTurn, issued, stream, bounds>>

\* indexPair in the turn-end flush, with an IsError result.
StoreFlush(ok) ==
    /\ AtSite("flush")
    /\ LET c == Head(todo).call IN
         IF ok
         THEN /\ log' = log \o PairRows(c, "IsError")
              /\ pending' = pending \ {c}
              /\ shown' = shown \ {c}
              /\ UNCHANGED flushErr
         ELSE flushErr' = "err" /\ UNCHANGED <<log, pending, shown>>
    /\ todo' = Tail(todo)
    /\ Goto(Runner, "flush")
    /\ UNCHANGED <<msgSeq, high, ctl, pos, seenCalls, seenResults, callPos,
                   order, bufs, lastErr, outcome, noteTurn, issued, stream,
                   bounds>>

StoreFinal(ok) ==
    /\ AtSite("final")
    /\ log' = IF ok THEN Append(log, PlainRow("final", thinkBuf, thinkSig)) ELSE log
    /\ Return(IF ok THEN "reply" ELSE "error")
    /\ UNCHANGED <<msgSeq, high, noteTurn, world>>

Store ==
    \/ BufferCall
    \/ \E ok \in BOOLEAN :
          \/ StoreUser(ok) \/ StoreThinking(ok) \/ StoreResult(ok)
          \/ StoreFlush(ok) \/ StoreFinal(ok)
-----------------------------------------------------------------------------
(* processEvents: the parts of an event.                                   *)

AtEvent == pc[Runner] = "events" /\ msgSeq < MaxSeq

InLog(c) == \E i \in DOMAIN log : log[i].call = c

\* A block of which text has arrived is over.
NextBlock == IF block \in thinkBuf THEN block + 1 ELSE block

\* The model issues call c.  An id already seen this turn is taken for ADK
\* emitting the same part again and skipped; otherwise pending thinking is
\* flushed first, then the call is built.
EvCall(c) ==
    /\ AtEvent
    /\ c \in Recycled \/ (issued[c] = 0 /\ ~InLog(c))
    /\ issued[c] < 2
    /\ issued' = [issued EXCEPT ![c] = @ + 1]
    /\ IF c \in seenCalls
       THEN UNCHANGED <<pc, todo, seenCalls, block>>
       ELSE /\ seenCalls' = seenCalls \cup {c}
            /\ todo' = IF thinkBuf = {}
                       THEN <<Site("call", c)>>
                       ELSE <<Site("thinking", NoCall), Site("call", c)>>
            /\ block' = NextBlock
            /\ Goto(Runner, "add")
    /\ UNCHANGED <<log, msgSeq, high, ctl, pos, seenResults, pending, callPos,
                   order, bufs, errs, outcome, noteTurn, shown, sealed, bounds>>

\* A call with an empty id ends the turn at once: no flush.
EvEmptyID ==
    /\ AtEvent
    /\ Return("error")
    /\ block' = NextBlock
    /\ UNCHANGED <<log, msgSeq, high, noteTurn, ui, sealed, bounds>>

\* A tool's response.  Skipped once the turn is cancelled or when stored.
EvResult(c) ==
    /\ AtEvent
    /\ ctx = "live" /\ c \notin seenResults
    /\ todo' = <<Site("result", c)>>
    /\ Goto(Runner, "add")
    /\ UNCHANGED <<log, msgSeq, high, ctl, pos, calls, bufs, errs, outcome,
                   noteTurn, world>>

\* Mutant: a signature does not flush the buffer.
SignLate(hasText, signed) ==
    /\ AtEvent /\ block <= MaxBlocks
    /\ hasText \/ signed
    /\ hasText \/ ZeroTextBlocks \/ block \in thinkBuf
    /\ thinkBuf' = IF hasText THEN thinkBuf \cup {block} ELSE thinkBuf
    /\ IF signed
       THEN thinkSig' = block /\ block' = block + 1 /\ sealed' = sealed \cup {block}
       ELSE UNCHANGED <<thinkSig, stream>>
    /\ UNCHANGED <<log, msgSeq, pc, high, ctl, build, calls, textBuf, errs,
                   outcome, noteTurn, ui, bounds>>

\* A thought part: text, a signature, or both.  A signature flushes the
\* buffer, unless the buffer is empty; the buffer may hold the text of blocks
\* that ended without one.
EvThinking(hasText, signed) ==
    /\ AtEvent /\ block <= MaxBlocks
    /\ hasText \/ signed
    /\ hasText \/ ZeroTextBlocks \/ block \in thinkBuf
    /\ thinkBuf' = IF hasText THEN thinkBuf \cup {block} ELSE thinkBuf
    /\ IF signed
       THEN /\ thinkSig' = block
            /\ block' = block + 1 /\ sealed' = sealed \cup {block}
            /\ IF thinkBuf' = {}
               THEN UNCHANGED <<pc, todo>>
               ELSE todo' = <<Site("thinking", NoCall)>> /\ Goto(Runner, "add")
       ELSE UNCHANGED <<thinkSig, stream, pc, todo>>
    /\ UNCHANGED <<log, msgSeq, high, ctl, pos, calls, textBuf, errs, outcome,
                   noteTurn, ui, bounds>>

\* A block ends unsigned and another may follow: the runner is not told.
EvBlockEnds ==
    /\ AtEvent /\ block \in thinkBuf
    /\ block' = NextBlock
    /\ UNCHANGED <<log, msgSeq, pc, high, volatile, outcome, noteTurn, ui,
                   sealed, bounds>>

EvText ==
    /\ AtEvent
    /\ textBuf' = "text"
    /\ UNCHANGED <<log, msgSeq, pc, high, ctl, build, calls, thinkBuf,
                   thinkSig, errs, outcome, noteTurn, world>>

EvError ==
    /\ AtEvent
    /\ lastErr' = "err"
    /\ UNCHANGED <<log, msgSeq, pc, high, ctl, build, calls, bufs, flushErr,
                   outcome, noteTurn, world>>

StreamEnd ==
    /\ pc[Runner] = "events"
    /\ Goto(Runner, "flush")
    /\ block' = NextBlock
    /\ UNCHANGED <<log, msgSeq, high, volatile, outcome, noteTurn, ui, sealed,
                   bounds>>
-----------------------------------------------------------------------------
(* processEvents: after the stream.                                        *)

\* Mutant: a stopped turn is not flushed.
NoFlushOnStop ==
    /\ pc[Runner] = "flush" /\ order # << >>
    /\ order' = IF ctx = "canceled" THEN << >> ELSE Tail(order)
    /\ IF Head(order) \in pending /\ ctx # "canceled"
       THEN todo' = <<Site("flush", Head(order))>> /\ Goto(Runner, "add")
       ELSE UNCHANGED <<todo, pc>>
    /\ UNCHANGED <<log, msgSeq, high, ctl, pos, seenCalls, seenResults,
                   pending, callPos, bufs, errs, outcome, noteTurn, world>>

\* Mutant: the walk waits at a call that is already paired.
FlushWaits ==
    /\ pc[Runner] = "flush" /\ order # << >>
    /\ Head(order) \in pending
    /\ order' = Tail(order)
    /\ todo' = <<Site("flush", Head(order))>> /\ Goto(Runner, "add")
    /\ UNCHANGED <<log, msgSeq, high, ctl, pos, seenCalls, seenResults,
                   pending, callPos, bufs, errs, outcome, noteTurn, world>>

\* The turn-end flush walks pendingOrder and skips calls already paired.
FlushNext ==
    /\ pc[Runner] = "flush" /\ order # << >>
    /\ order' = Tail(order)
    /\ IF Head(order) \in pending
       THEN todo' = <<Site("flush", Head(order))>> /\ Goto(Runner, "add")
       ELSE UNCHANGED <<todo, pc>>
    /\ UNCHANGED <<log, msgSeq, high, ctl, pos, seenCalls, seenResults,
                   pending, callPos, bufs, errs, outcome, noteTurn, world>>

\* A flush error wins; then a reply, if there is anything to say; then the
\* reason there is none.
Conclude ==
    /\ pc[Runner] = "flush" /\ order = << >>
    /\ IF flushErr = "nil" /\ (thinkBuf # {} \/ textBuf # "empty")
       THEN /\ todo' = <<Site("final", NoCall)>>
            /\ Goto(Runner, "add")
            /\ UNCHANGED <<ctl, pos, calls, bufs, errs, outcome>>
       ELSE Return(IF flushErr = "err" THEN "error"
                   ELSE IF ctx = "canceled" THEN "stopped"
                   ELSE IF lastErr = "err" THEN "error" ELSE "noresponse")
    /\ UNCHANGED <<log, msgSeq, high, noteTurn, world>>

\* CancelTurn: fires whatever cancel function is published.
CancelTurn ==
    /\ pc[Runner] # "idle" /\ ctx = "live"
    /\ ctx' = "canceled"
    /\ UNCHANGED <<log, msgSeq, pc, high, turn, build, calls, bufs, errs,
                   outcome, noteTurn, world>>
-----------------------------------------------------------------------------
(* Resolvers: DenyToolCall joins the running turn, ResumeAgent's correction *)
(* is a turn of its own (0); both take NextPosition and store one row.      *)

NoteBegin(w) ==
    /\ pc[w] = "idle" /\ notes < MaxNotes
    /\ notes' = notes + 1
    /\ \E t \in {turn, 0} : noteTurn' = [noteTurn EXCEPT ![w] = t]
    /\ Goto(w, "sync")
    /\ UNCHANGED <<log, msgSeq, high, volatile, outcome, ui, stream, turnSeq,
                   crashes>>

\* return r.msgSeq.Add(1)
NoteAdd(w) ==
    /\ pc[w] = "seeded"
    /\ msgSeq' = msgSeq + 1
    /\ high' = [high EXCEPT ![w] = msgSeq + 1]
    /\ Goto(w, "insert")
    /\ UNCHANGED <<log, volatile, outcome, noteTurn, world>>

NoteInsert(w, ok) ==
    /\ pc[w] = "insert"
    /\ log' = IF ok
              THEN Append(log, MkRow("note", NoCall, noteTurn[w], high[w],
                                     "ok", {}, 0))
              ELSE log
    /\ Goto(w, "idle")
    /\ UNCHANGED <<msgSeq, high, volatile, outcome, noteTurn, world>>

Note(w) == NoteBegin(w) \/ NoteAdd(w) \/ \E ok \in BOOLEAN : NoteInsert(w, ok)
-----------------------------------------------------------------------------
\* The process dies and starts again; only the table survives.
Crash ==
    /\ crashes < MaxCrashes
    /\ crashes' = crashes + 1
    /\ msgSeq' = 0
    /\ pc' = [p \in Procs |-> "idle"]
    /\ high' = [p \in Procs |-> 0]
    /\ turn' = 0 /\ ctx' = "live" /\ todo' = << >> /\ pos' = 0
    /\ seenCalls' = {} /\ seenResults' = {} /\ pending' = {}
    /\ callPos' = [c \in Calls |-> 0] /\ order' = << >>
    /\ thinkBuf' = {} /\ thinkSig' = 0 /\ textBuf' = "empty"
    /\ lastErr' = "nil" /\ flushErr' = "nil"
    /\ outcome' = "none"
    /\ noteTurn' = [w \in Writers |-> 0]
    /\ shown' = {} /\ issued' = [c \in Calls |-> 0]
    /\ block' = NextBlock
    /\ UNCHANGED <<log, sealed, turnSeq, notes>>

Sync(p) == SyncRead(p) \/ SyncCompare(p) \/ SyncStore(p)

Event ==
    \/ \E c \in Calls : EvCall(c) \/ EvResult(c)
    \/ EvEmptyID \/ EvText \/ EvError \/ EvBlockEnds
    \/ \E t, s \in BOOLEAN : EvThinking(t, s)

\* The steps the runner takes by itself once a turn has begun.
RunnerStep ==
    Sync(Runner) \/ MintTurn \/ MintID \/ LoadPosition \/ Store \/ StreamEnd
    \/ FlushNext \/ Conclude

Next ==
    \/ Begin \/ RunnerStep \/ Event \/ CancelTurn \/ Crash
    \/ \E w \in Writers : Sync(w) \/ Note(w)

Spec == Init /\ [][Next]_vars

\* The runner's goroutine keeps running, and a stream ends (the provider
\* finishes, or the cancelled context ends ADK's iterator).
FairSpec == Spec /\ WF_vars(RunnerStep)
-----------------------------------------------------------------------------
(* Properties.                                                             *)

\* Well-typed states; in particular no goroutine ever stores a negative value
\* (MaxPosition's -1 for an empty thread) into the position counter.
TypeLog  == log \in Seq(Row)
TypeSync ==
    /\ msgSeq \in Nat
    /\ pc \in [Procs -> {"idle", "sync", "compare", "store", "seeded", "add",
                         "load", "write", "events", "flush", "insert"}]
    /\ high \in [Procs -> Int]
    /\ \A p \in Procs : pc[p] \in {"store", "insert"} => high[p] \in Nat
TypeTurn ==
    /\ turn \in Nat
    /\ ctx \in {"live", "canceled"}
    /\ outcome \in {"none", "reply", "stopped", "noresponse", "error"}
TypeBuild == todo \in Seq(Item) /\ pos \in Nat
TypeCalls ==
    /\ seenCalls \subseteq Calls /\ seenResults \subseteq Calls
    /\ pending \subseteq Calls /\ callPos \in [Calls -> Nat]
    /\ order \in Seq(Calls)
TypeBufs ==
    /\ thinkBuf \subseteq Blocks /\ thinkSig \in Nat /\ textBuf \in {"empty", "text"}
    /\ lastErr \in {"nil", "err"} /\ flushErr \in {"nil", "err"}
TypeWorld ==
    /\ noteTurn \in [Writers -> Nat]
    /\ shown \subseteq Calls /\ issued \in [Calls -> Nat] /\ block \in Nat \ {0}
    /\ sealed \subseteq Blocks
    /\ turnSeq \in Nat /\ notes \in Nat /\ crashes \in Nat

TypeOK ==
    /\ TypeLog /\ TypeSync /\ TypeTurn /\ TypeBuild
    /\ TypeCalls /\ TypeBufs /\ TypeWorld

Table == INSTANCE ThreadLog WITH rows <- log

\* Protocol closure (what CloseGroup needs of every row it meets): at every
\* moment, whatever was cancelled, failed or crashed, each stored call has a
\* result, each stored result a call, and no turn stores one call id twice.
ProtocolClosed ==
    /\ \A i \in DOMAIN log : log[i].kind = "call" =>
            \E j \in DOMAIN log : Table!Pair(log[i], log[j])
    /\ \A j \in DOMAIN log : log[j].kind = "result" =>
            \E i \in DOMAIN log : Table!Pair(log[i], log[j])
    /\ \A i, j \in DOMAIN log :
            /\ log[i].kind \in {"call", "result"} /\ log[i].kind = log[j].kind
            /\ log[i].call = log[j].call /\ log[i].turn = log[j].turn
            => i = j

\* The table only changes as ThreadLog allows.
ImplementsThreadLog == Table!Spec

CallRows(c, t) ==
    {i \in DOMAIN log : log[i].kind = "call" /\ log[i].call = c /\ log[i].turn = t}

\* A turn that returns without an error has settled every tool call the model
\* issued: it is stored exactly once, and the UI no longer shows it running.
TurnSettled ==
    outcome \in {"reply", "stopped", "noresponse"} =>
        /\ shown = {}
        /\ \A c \in Calls : Cardinality(CallRows(c, turn)) = issued[c]

\* The UI is told of a result (OnToolResult) only after the pair is stored.
ShownResultDurable ==
    [][pc[Runner] # "idle" /\ crashes' = crashes
       => \A c \in shown \ shown' : \E j \in DOMAIN log' :
             log'[j].kind = "result" /\ log'[j].call = c /\ log'[j].turn = turn]_vars

\* NextPosition and the runner never hand out one position twice, so the
\* thread's order is total.
UniquePositions ==
    \A i, j \in DOMAIN log : i # j => log[i].pos # log[j].pos

\* Positions put every call before its result, also across crashes.
CallBeforeResult ==
    \A i, j \in DOMAIN log : Table!Pair(log[i], log[j]) => log[i].pos < log[j].pos

\* A stored signature stands with the text it was issued for and nothing later,
\* and signed text is never stored without its signature or under another's.  Text
\* of earlier blocks that ended unsigned may be stored with it.
Signed(text, sig) ==
    /\ sig # 0 => sig \in text /\ \A b \in text : b <= sig
    /\ \A b \in text : b \in sealed => b = sig

SignatureBinds == \A i \in DOMAIN log : Signed(log[i].text, log[i].sig)

\* The thread reads back in the order it was written, each call before its
\* result, each signature with its own text, after any stop, failed insert or
\* crash (and while no resolver writes beside the turn).
RowsSound == UniquePositions /\ CallBeforeResult /\ SignatureBinds

\* A cancelled turn returns, so that r.mu is released for the next one.
StopReturns == ctx = "canceled" /\ pc[Runner] # "idle" ~> pc[Runner] = "idle"
=============================================================================
