-------------------------- MODULE TurnRunner_proofs --------------------------
(***************************************************************************)
(* Theorems about TurnRunner, for any sets of calls and writers, any       *)
(* provider and any bounds:                                                *)
(*   - every reachable state is well typed (TypeCorrect);                  *)
(*   - the stored rows are closed under the tool protocol at every moment  *)
(*     (ProtocolClosure), although inserts fail, turns are cancelled and   *)
(*     the process crashes;                                                *)
(*   - the table changes only as ThreadLog allows (Refinement);            *)
(*   - rows read back in order, each call before its result, each          *)
(*     signature with its own text (RowsSoundHolds);                       *)
(*   - a turn that returned has settled every call (TurnSettledHolds).     *)
(* All but the first rest on the inductive invariant Inv below, the last   *)
(* two on Reading, Telling and Settling beside it.  Theorems about calls   *)
(* that a turn makes to the model (ModelCall) come last: WireClosedHolds   *)
(* and CallSoundHolds.                                                     *)
(***************************************************************************)
EXTENDS TurnRunner, ModelCall, SequenceTheorems, FiniteSetTheorems, WellFoundedInduction, TLAPS

-----------------------------------------------------------------------------
(* Types                                                                   *)

LEMMA RowType ==
    ASSUME NEW k \in Kinds, NEW c \in Calls \cup {NoCall}, NEW t \in Nat,
           NEW p \in Nat, NEW e \in {"ok", "IsError"}, NEW x \in SUBSET Blocks,
           NEW s \in Nat
    PROVE  MkRow(k, c, t, p, e, x, s) \in Row
  BY DEF MkRow, Row

LEMMA PlainRowType ==
    ASSUME TypeTurn, TypeBuild, TypeBufs, NEW k \in Kinds
    PROVE  /\ PlainRow(k, {}, 0) \in Row
           /\ PlainRow(k, thinkBuf, thinkSig) \in Row
  BY RowType DEF PlainRow, TypeTurn, TypeBuild, TypeBufs

LEMMA PairRowsType ==
    ASSUME TypeTurn, TypeBuild, TypeCalls, NEW c \in Calls, NEW e \in {"ok", "IsError"}
    PROVE  PairRows(c, e) \in Seq(Row)
<1>1. MkRow("call", c, turn, callPos[c], "ok", {}, 0) \in Row
  BY RowType DEF TypeTurn, TypeCalls, Kinds
<1>2. MkRow("result", c, turn, pos, e, {}, 0) \in Row
  BY RowType DEF TypeTurn, TypeBuild, Kinds
<1> QED
  BY <1>1, <1>2 DEF PairRows

\* Rows added at the end leave the table a sequence of rows.
LEMMA ConcatType ==
    ASSUME NEW s \in Seq(Row), NEW t \in Seq(Row)
    PROVE  s \o t \in Seq(Row)
  OBVIOUS

LEMMA SiteType ==
    /\ \A s \in {"user", "thinking", "final"} : Site(s, NoCall) \in Item
    /\ \A s \in {"call", "result", "flush"} : \A c \in Calls : Site(s, c) \in Item
  BY DEF Site, Item

LEMMA SingleType ==
    /\ \A s \in {"user", "thinking", "final"} : <<Site(s, NoCall)>> \in Seq(Item)
    /\ \A s \in {"call", "result", "flush"}, c \in Calls :
          /\ <<Site(s, c)>> \in Seq(Item)
          /\ <<Site("thinking", NoCall), Site(s, c)>> \in Seq(Item)
  BY SiteType

\* What the head of the work list is about.
LEMMA HeadType ==
    ASSUME TypeBuild, NEW s, AtSite(s)
    PROVE  /\ Head(todo) \in Item /\ Tail(todo) \in Seq(Item)
           /\ s \in {"call", "result", "flush"} => Head(todo).call \in Calls
<1>1. Head(todo) \in Item /\ Tail(todo) \in Seq(Item)
  BY DEF TypeBuild, AtSite
<1> QED
  BY <1>1, ConstantsAssumption DEF AtSite, Item

\* The parts of TypeOK that an action leaves alone stay true.
LEMMA Frame ==
    /\ TypeLog /\ UNCHANGED log => TypeLog'
    /\ TypeSync /\ UNCHANGED <<msgSeq, pc, high>> => TypeSync'
    /\ TypeTurn /\ UNCHANGED <<ctl, outcome>> => TypeTurn'
    /\ TypeBuild /\ UNCHANGED build => TypeBuild'
    /\ TypeCalls /\ UNCHANGED calls => TypeCalls'
    /\ TypeBufs /\ UNCHANGED <<bufs, errs>> => TypeBufs'
    /\ TypeWorld /\ UNCHANGED <<noteTurn, world>> => TypeWorld'
<1>1. TypeLog /\ UNCHANGED log => TypeLog'
  BY DEF TypeLog
<1>2. TypeSync /\ UNCHANGED <<msgSeq, pc, high>> => TypeSync'
  BY DEF TypeSync
<1>3. TypeTurn /\ UNCHANGED <<ctl, outcome>> => TypeTurn'
  BY DEF TypeTurn, ctl
<1>4. TypeBuild /\ UNCHANGED build => TypeBuild'
  BY DEF TypeBuild, build
<1>5. TypeCalls /\ UNCHANGED calls => TypeCalls'
  BY DEF TypeCalls, calls
<1>6. TypeBufs /\ UNCHANGED <<bufs, errs>> => TypeBufs'
  BY DEF TypeBufs, bufs, errs
<1>7. TypeWorld /\ UNCHANGED <<noteTurn, world>> => TypeWorld'
  BY DEF TypeWorld, world, ui, stream, bounds
<1> QED
  BY <1>1, <1>2, <1>3, <1>4, <1>5, <1>6, <1>7

LEMMA GotoType ==
    ASSUME TypeSync, NEW p \in Procs,
           NEW l \in {"idle", "sync", "compare", "store", "seeded", "add",
                      "load", "write", "events", "flush", "insert"},
           Goto(p, l), msgSeq' \in Nat, high' \in [Procs -> Int],
           \A q \in Procs \ {p} : high'[q] = high[q],
           l \in {"store", "insert"} => high'[p] \in Nat
    PROVE  TypeSync'
  BY DEF TypeSync, Goto

LEMMA InitTypeOK == Init => TypeOK
<1> SUFFICES ASSUME Init PROVE TypeOK
  OBVIOUS
<1>1. TypeLog /\ TypeBuild
  BY DEF Init, TypeLog, TypeBuild
<1>2. TypeSync /\ TypeTurn
  BY DEF Init, TypeSync, TypeTurn
<1>3. TypeCalls /\ TypeBufs
  BY DEF Init, TypeCalls, TypeBufs
<1>4. TypeWorld
  BY DEF Init, TypeWorld
<1> QED
  BY <1>1, <1>2, <1>3, <1>4 DEF TypeOK

LEMMA ReturnTypeOK ==
    ASSUME TypeOK, NEW o \in {"reply", "stopped", "noresponse", "error"}, Return(o),
           UNCHANGED <<msgSeq, high>>, TypeLog', TypeWorld'
    PROVE  TypeOK'
<1>1. TypeSync'
  BY GotoType DEF Return, TypeOK, TypeSync, Procs
<1>2. TypeTurn' /\ TypeBuild'
  BY DEF Return, TypeOK, TypeTurn, TypeBuild, ctl
<1>3. TypeCalls' /\ TypeBufs'
  BY DEF Return, TypeCalls, TypeBufs
<1> QED
  BY <1>1, <1>2, <1>3 DEF TypeOK

LEMMA NextTypeOK == TypeOK /\ [Next]_vars => TypeOK'
<1> SUFFICES ASSUME TypeOK, [Next]_vars PROVE TypeOK'
  OBVIOUS
<1> USE Frame DEF TypeOK
<1>r. Runner \in Procs /\ Writers \subseteq Procs
  BY DEF Procs
<1>b. NextBlock \in Nat \ {0}
  BY DEF NextBlock, TypeWorld
<1>1. ASSUME NEW p \in Procs, Sync(p) PROVE TypeOK'
  <2>1. CASE SyncRead(p)
    <3>1. MaxPositions \subseteq Int
      <4>1. ASSUME NEW i \in DOMAIN log PROVE log[i].pos \in Int
        <5>1. log[i] \in Row
          BY DEF TypeLog
        <5> QED
          BY <5>1 DEF Row
      <4> QED
        BY <4>1 DEF MaxPositions
    <3>2. TypeSync'
      BY <2>1, <3>1, GotoType DEF SyncRead, TypeSync
    <3> QED
      BY <2>1, <3>2 DEF SyncRead, volatile
  <2>2. CASE SyncCompare(p)
    <3>1. TypeSync'
      BY <2>2, GotoType DEF SyncCompare, TypeSync
    <3> QED
      BY <2>2, <3>1 DEF SyncCompare, volatile
  <2>3. CASE SyncStore(p)
    <3>1. TypeSync'
      BY <2>3, GotoType DEF SyncStore, TypeSync
    <3> QED
      BY <2>3, <3>1 DEF SyncStore, volatile
  <2> QED
    BY <1>1, <2>1, <2>2, <2>3 DEF Sync
<1>2. CASE Begin
  <2>1. TypeSync'
    BY <1>2, <1>r, GotoType DEF Begin, TypeSync
  <2>2. TypeTurn' /\ TypeWorld'
    BY <1>2 DEF Begin, TypeTurn, TypeWorld, stream, bounds
  <2> QED
    BY <1>2, <2>1, <2>2 DEF Begin
<1>3. CASE MintTurn
  <2>1. TypeSync'
    BY <1>3, <1>r, GotoType DEF MintTurn, TypeSync
  <2>2. TypeTurn' /\ TypeWorld'
    BY <1>3 DEF MintTurn, TypeTurn, TypeWorld, ui, stream
  <2>3. TypeBuild'
    <3>1. todo' = <<Site("user", NoCall)>> \/ todo' = << >>
      BY <1>3 DEF MintTurn
    <3>2. pos' \in Nat
      BY <1>3 DEF MintTurn, TypeBuild
    <3>3. <<Site("user", NoCall)>> \in Seq(Item) /\ << >> \in Seq(Item)
      BY SingleType
    <3>4. todo' \in Seq(Item)
      BY <3>1, <3>3, Zenon
    <3> QED
      BY <3>2, <3>4 DEF TypeBuild
  <2> QED
    BY <1>3, <2>1, <2>2, <2>3 DEF MintTurn
<1>4. CASE MintID
  <2>1. TypeSync'
    BY <1>4, <1>r, GotoType DEF MintID, TypeSync
  <2> QED
    BY <1>4, <2>1 DEF MintID, volatile
<1>5. CASE LoadPosition
  <2>1. TypeSync' /\ TypeBuild'
    BY <1>5, <1>r, GotoType DEF LoadPosition, TypeSync, TypeBuild
  <2> QED
    BY <1>5, <2>1 DEF LoadPosition
<1>6. CASE Store
  <2>1. CASE BufferCall
    <3>1. Head(todo).call \in Calls /\ Tail(todo) \in Seq(Item)
      BY <2>1, HeadType DEF BufferCall
    <3>2. TypeSync' /\ TypeBuild'
      BY <2>1, <3>1, <1>r, GotoType DEF BufferCall, TypeSync, TypeBuild
    <3>3. TypeCalls' /\ TypeWorld'
      BY <2>1, <3>1 DEF BufferCall, TypeBuild, TypeCalls, TypeWorld, stream, bounds
    <3> QED
      BY <2>1, <3>2, <3>3 DEF BufferCall
  <2>2. ASSUME NEW ok \in BOOLEAN, StoreUser(ok) PROVE TypeOK'
    <3>1. CASE ok
      <4>1. TypeLog'
        BY <2>2, <3>1, PlainRowType DEF StoreUser, TypeLog, Kinds
      <4>2. TypeSync' /\ TypeBuild'
        BY <2>2, <3>1, <1>r, GotoType DEF StoreUser, TypeSync, TypeBuild
      <4> QED
        BY <2>2, <3>1, <4>1, <4>2 DEF StoreUser
    <3>2. CASE ~ok
      BY <2>2, <3>2, ReturnTypeOK DEF StoreUser
    <3> QED
      BY <3>1, <3>2
  <2>3. ASSUME NEW ok \in BOOLEAN, StoreThinking(ok) PROVE TypeOK'
    <3>1. TypeLog'
      BY <2>3, PlainRowType DEF StoreThinking, TypeLog, Kinds
    <3>2. TypeSync' /\ TypeBuild' /\ TypeBufs'
      BY <2>3, <1>r, HeadType, GotoType
      DEF StoreThinking, TypeSync, TypeBuild, TypeBufs, errs
    <3> QED
      BY <2>3, <3>1, <3>2 DEF StoreThinking
  <2>4. ASSUME NEW ok \in BOOLEAN, StoreResult(ok) PROVE TypeOK'
    <3>1. Head(todo).call \in Calls /\ Tail(todo) \in Seq(Item)
      BY <2>4, HeadType DEF StoreResult
    <3>2. TypeLog'
      <4>1. PairRows(Head(todo).call, "ok") \in Seq(Row)
        BY <3>1, PairRowsType
      <4>2. log \o PairRows(Head(todo).call, "ok") \in Seq(Row)
        BY <4>1, ConcatType DEF TypeLog
      <4>3. log' = log \/ log' = log \o PairRows(Head(todo).call, "ok")
        BY <2>4 DEF StoreResult
      <4> QED
        BY <4>2, <4>3 DEF TypeLog
    <3>3. TypeSync' /\ TypeBuild'
      BY <2>4, <3>1, <1>r, GotoType DEF StoreResult, TypeSync, TypeBuild
    <3>4. TypeCalls' /\ TypeWorld'
      BY <2>4, <3>1 DEF StoreResult, TypeCalls, TypeWorld, stream, bounds
    <3> QED
      BY <2>4, <3>2, <3>3, <3>4 DEF StoreResult
  <2>5. ASSUME NEW ok \in BOOLEAN, StoreFlush(ok) PROVE TypeOK'
    <3>1. Head(todo).call \in Calls /\ Tail(todo) \in Seq(Item)
      BY <2>5, HeadType DEF StoreFlush
    <3>2. TypeLog'
      <4>1. PairRows(Head(todo).call, "IsError") \in Seq(Row)
        BY <3>1, PairRowsType
      <4>2. log \o PairRows(Head(todo).call, "IsError") \in Seq(Row)
        BY <4>1, ConcatType DEF TypeLog
      <4>3. log' = log \/ log' = log \o PairRows(Head(todo).call, "IsError")
        BY <2>5 DEF StoreFlush
      <4> QED
        BY <4>2, <4>3 DEF TypeLog
    <3>3. TypeSync' /\ TypeBuild'
      BY <2>5, <3>1, <1>r, GotoType DEF StoreFlush, TypeSync, TypeBuild
    <3>4. TypeCalls' /\ TypeBufs' /\ TypeWorld'
      BY <2>5, <3>1 DEF StoreFlush, TypeCalls, TypeBufs, TypeWorld, bufs, stream, bounds
    <3> QED
      BY <2>5, <3>2, <3>3, <3>4 DEF StoreFlush
  <2>6. ASSUME NEW ok \in BOOLEAN, StoreFinal(ok) PROVE TypeOK'
    <3>1. TypeLog'
      BY <2>6, PlainRowType DEF StoreFinal, TypeLog, Kinds
    <3> QED
      BY <2>6, <3>1, ReturnTypeOK DEF StoreFinal
  <2> QED
    BY <1>6, <2>1, <2>2, <2>3, <2>4, <2>5, <2>6 DEF Store
<1>7. CASE Event
  <2>1. ASSUME NEW c \in Calls, EvCall(c) PROVE TypeOK'
    <3>1. TypeSync'
      BY <2>1, <1>r, GotoType DEF EvCall, TypeSync
    <3>3. TypeBuild'
      BY <2>1, SingleType DEF EvCall, TypeBuild
    <3>2. TypeCalls' /\ TypeWorld'
      BY <2>1, <1>b DEF EvCall, TypeCalls, TypeWorld, bounds
    <3> QED
      BY <2>1, <3>1, <3>2, <3>3 DEF EvCall
  <2>2. ASSUME NEW c \in Calls, EvResult(c) PROVE TypeOK'
    <3>1. TypeSync' /\ TypeBuild'
      BY <2>2, <1>r, GotoType, SingleType DEF EvResult, TypeSync, TypeBuild
    <3> QED
      BY <2>2, <3>1 DEF EvResult
  <2>3. CASE EvEmptyID
    <3>1. TypeWorld'
      BY <2>3, <1>b DEF EvEmptyID, TypeWorld, ui, bounds
    <3> QED
      BY <2>3, <3>1, ReturnTypeOK DEF EvEmptyID
  <2>4. CASE EvText
    <3>1. TypeBufs'
      BY <2>4 DEF EvText, TypeBufs, errs
    <3> QED
      BY <2>4, <3>1 DEF EvText
  <2>5. CASE EvError
    <3>1. TypeBufs'
      BY <2>5 DEF EvError, TypeBufs, bufs
    <3> QED
      BY <2>5, <3>1 DEF EvError
  <2>6. ASSUME NEW t \in BOOLEAN, NEW s \in BOOLEAN, EvThinking(t, s) PROVE TypeOK'
    <3>1. block \in Blocks /\ block + 1 \in Nat \ {0}
      BY <2>6, ConstantsAssumption DEF EvThinking, TypeWorld, Blocks
    <3>2. TypeBufs' /\ TypeWorld'
      BY <2>6, <3>1 DEF EvThinking, TypeBufs, TypeWorld, errs, ui, stream, bounds
    <3>3. TypeSync'
      BY <2>6, <1>r, GotoType DEF EvThinking, TypeSync
    <3>4. TypeBuild'
      BY <2>6, SingleType DEF EvThinking, TypeBuild
    <3> QED
      BY <2>6, <3>2, <3>3, <3>4 DEF EvThinking
  <2>7. CASE EvBlockEnds
    <3>1. TypeWorld'
      BY <2>7, <1>b DEF EvBlockEnds, TypeWorld, ui, bounds
    <3> QED
      BY <2>7, <3>1 DEF EvBlockEnds, volatile
  <2> QED
    BY <1>7, <2>1, <2>2, <2>3, <2>4, <2>5, <2>6, <2>7 DEF Event
<1>8. CASE StreamEnd
  <2>1. TypeSync'
    BY <1>8, <1>r, GotoType DEF StreamEnd, TypeSync
  <2>2. TypeWorld'
    BY <1>8, <1>b DEF StreamEnd, TypeWorld, ui, bounds
  <2> QED
    BY <1>8, <2>1, <2>2 DEF StreamEnd, volatile
<1>9. CASE FlushNext
  <2>1. Head(order) \in Calls /\ Tail(order) \in Seq(Calls)
    BY <1>9 DEF FlushNext, TypeCalls
  <2>2. TypeSync'
    BY <1>9, <1>r, GotoType DEF FlushNext, TypeSync
  <2>4. TypeBuild'
    BY <1>9, <2>1, SingleType DEF FlushNext, TypeBuild
  <2>3. TypeCalls'
    BY <1>9, <2>1 DEF FlushNext, TypeCalls
  <2> QED
    BY <1>9, <2>2, <2>3, <2>4 DEF FlushNext
<1>10. CASE Conclude
  <2>1. CASE flushErr = "nil" /\ (thinkBuf # {} \/ textBuf # "empty")
    <3>1. TypeSync'
      BY <1>10, <2>1, <1>r, GotoType DEF Conclude, TypeSync
    <3>2. TypeBuild'
      BY <1>10, <2>1, SingleType DEF Conclude, TypeBuild
    <3> QED
      BY <1>10, <2>1, <3>1, <3>2 DEF Conclude
  <2>2. CASE ~(flushErr = "nil" /\ (thinkBuf # {} \/ textBuf # "empty"))
    BY <1>10, <2>2, ReturnTypeOK DEF Conclude
  <2> QED
    BY <2>1, <2>2
<1>11. CASE CancelTurn
  <2>1. TypeTurn'
    BY <1>11 DEF CancelTurn, TypeTurn
  <2> QED
    BY <1>11, <2>1 DEF CancelTurn
<1>12. ASSUME NEW w \in Writers, Note(w) PROVE TypeOK'
  <2>1. CASE NoteBegin(w)
    <3>1. TypeSync' /\ TypeWorld'
      BY <2>1, <1>r, GotoType DEF NoteBegin, TypeSync, TypeTurn, TypeWorld, ui, stream
    <3> QED
      BY <2>1, <3>1 DEF NoteBegin, volatile
  <2>2. CASE NoteAdd(w)
    <3>1. TypeSync'
      BY <2>2, <1>r, GotoType DEF NoteAdd, TypeSync
    <3> QED
      BY <2>2, <3>1 DEF NoteAdd, volatile
  <2>3. ASSUME NEW ok \in BOOLEAN, NoteInsert(w, ok) PROVE TypeOK'
    <3>1. MkRow("note", NoCall, noteTurn[w], high[w], "ok", {}, 0) \in Row
      BY <2>3, <1>r, RowType DEF NoteInsert, Kinds, TypeSync, TypeWorld
    <3>2. TypeLog' /\ TypeSync'
      BY <2>3, <3>1, <1>r, GotoType DEF NoteInsert, TypeLog, TypeSync
    <3> QED
      BY <2>3, <3>2 DEF NoteInsert, volatile
  <2> QED
    BY <1>12, <2>1, <2>2, <2>3 DEF Note
<1>13. CASE Crash
  <2>1. TypeSync' /\ TypeTurn' /\ TypeBuild'
    BY <1>13 DEF Crash, TypeSync, TypeTurn, TypeBuild
  <2>2. TypeCalls' /\ TypeBufs'
    BY <1>13 DEF Crash, TypeCalls, TypeBufs
  <2>3. TypeWorld'
    BY <1>13, <1>b DEF Crash, TypeWorld
  <2> QED
    BY <1>13, <2>1, <2>2, <2>3 DEF Crash
<1>14. CASE UNCHANGED vars
  BY <1>14 DEF vars, volatile
<1> QED
  BY <1>1, <1>2, <1>3, <1>4, <1>5, <1>6, <1>7, <1>8, <1>9, <1>10, <1>11, <1>12,
     <1>13, <1>14, <1>r DEF Next, RunnerStep

\* Every reachable state is well typed.
THEOREM TypeCorrect == Spec => []TypeOK
  BY InitTypeOK, NextTypeOK, PTL DEF Spec
-----------------------------------------------------------------------------
(* Protocol closure                                                        *)

\* No row stores call c of the current turn.
NotStored(c) ==
    \A i \in DOMAIN log :
        ~(log[i].kind = "call" /\ log[i].call = c /\ log[i].turn = turn)

InTurn == pc[Runner] \in {"add", "load", "write", "events", "flush"}

\* Turn ids grow, so a new turn meets no row of its own.
TurnKeys ==
    /\ turn <= turnSeq
    /\ \A i \in DOMAIN log : log[i].kind = "call" => log[i].turn <= turnSeq

\* A call that is buffered or about to be buffered has no row yet.
Unstored ==
    /\ \A c \in pending : NotStored(c)
    /\ \A k \in DOMAIN todo : todo[k].site = "call" => NotStored(todo[k].call)

\* seenCallIDs covers every call of the turn, wherever it is.
Seen ==
    /\ pending \subseteq seenCalls
    /\ \A k \in DOMAIN todo : todo[k].site = "call" => todo[k].call \in seenCalls
    /\ InTurn => \A i \in DOMAIN log :
            log[i].kind = "call" /\ log[i].turn = turn => log[i].call \in seenCalls

\* An event builds one message, or thinking and then a call; the turn-end
\* flush only builds results of buffered calls.
Queue ==
    /\ \/ Len(todo) <= 1
       \/ Len(todo) = 2 /\ todo[1].site = "thinking" /\ todo[2].site = "call"
    /\ \A k \in DOMAIN todo : todo[k].site = "flush" => todo[k].call \in pending

Inv == Table!Closed /\ TurnKeys /\ Unstored /\ Seen /\ Queue

\* The only call rows a step adds are calls of S in the current turn.
GrowsBy(S) ==
    \A i \in DOMAIN log' : log'[i].kind = "call" =>
        \/ i \in DOMAIN log /\ log'[i] = log[i]
        \/ log'[i].call \in S /\ log'[i].turn = turn

\* ThreadLog keeps its promise: a step of it preserves Closed.
LEMMA ClosedStep ==
    ASSUME TypeLog, TypeLog', Table!Closed, [Table!Next]_log
    PROVE  Table!Closed'
<1>1. CASE UNCHANGED log
  BY <1>1 DEF Table!Closed, Table!Pair
<1>d. DOMAIN log = 1 .. Len(log) /\ DOMAIN log' = 1 .. Len(log') /\ Len(log) \in Nat
  BY DEF TypeLog
<1>2. CASE Table!AppendRow
  <2>1. /\ Len(log') = Len(log) + 1
        /\ \A i \in DOMAIN log : log'[i] = log[i]
        /\ log'[Len(log) + 1].kind \notin {"call", "result"}
    BY <1>2 DEF Table!AppendRow, Table!Extends, Table!Plain
  <2> QED
    BY <2>1, <1>d DEF Table!Closed, Table!Pair
<1>3. CASE Table!AppendPair
  <2> DEFINE n == Len(log) + 1
  <2>1. /\ Len(log') = n + 1
        /\ \A i \in DOMAIN log : log'[i] = log[i]
        /\ Table!Pair(log'[n], log'[n + 1])
        /\ Table!Fresh(log'[n])
    BY <1>3, <1>d DEF Table!AppendPair, Table!Extends
  <2>2. log'[n].kind = "call" /\ log'[n + 1].kind = "result"
    BY <2>1 DEF Table!Pair
  <2>3. \A i \in DOMAIN log' : i \in DOMAIN log \/ i = n \/ i = n + 1
    BY <2>1, <1>d
  <2>n. n \in Nat /\ n \in DOMAIN log' /\ n + 1 \in DOMAIN log'
        /\ \A i \in DOMAIN log : i \in DOMAIN log' /\ i + 1 # n + 1 /\ i # n + 1 /\ i # n
    BY <2>1, <1>d
  <2>4. ASSUME NEW i \in DOMAIN log', log'[i].kind = "call"
        PROVE  i + 1 \in DOMAIN log' /\ Table!Pair(log'[i], log'[i + 1])
    <3>1. CASE i \in DOMAIN log
      BY <3>1, <2>1, <2>4, <2>n DEF Table!Closed
    <3> QED
      BY <3>1, <2>1, <2>2, <2>3, <2>4, <2>n
  <2>5. ASSUME NEW j \in DOMAIN log', log'[j].kind = "result"
        PROVE  j - 1 \in DOMAIN log' /\ Table!Pair(log'[j - 1], log'[j])
    <3>1. CASE j \in DOMAIN log
      BY <3>1, <2>1, <2>5, <2>n DEF Table!Closed
    <3>2. CASE j = n + 1
      <4>1. j - 1 = n
        BY <3>2, <2>n
      <4> QED
        BY <3>2, <4>1, <2>1, <2>n
    <3> QED
      BY <3>1, <3>2, <2>2, <2>3, <2>5
  <2>6. ASSUME NEW i \in DOMAIN log', NEW j \in DOMAIN log',
               log'[i].kind = "call", log'[j].kind = "call",
               log'[i].call = log'[j].call, log'[i].turn = log'[j].turn
        PROVE  i = j
    <3>1. i # n + 1 /\ j # n + 1
      BY <2>2, <2>6
    <3>2. CASE i \in DOMAIN log /\ j \in DOMAIN log
      BY <3>2, <2>1, <2>6 DEF Table!Closed
    <3>3. CASE i \in DOMAIN log /\ j = n
      BY <3>3, <2>1, <2>6 DEF Table!Fresh
    <3>4. CASE i = n /\ j \in DOMAIN log
      BY <3>4, <2>1, <2>6 DEF Table!Fresh
    <3> QED
      BY <3>1, <3>2, <3>3, <3>4, <2>3
  <2> HIDE DEF n
  <2> QED
    BY <2>4, <2>5, <2>6 DEF Table!Closed
<1> QED
  BY <1>1, <1>2, <1>3 DEF Table!Next

\* What a single insert does to the table.
LEMMA AppendPlain ==
    ASSUME TypeLog, NEW r \in Row, r.kind \notin {"call", "result"},
           log' = Append(log, r)
    PROVE  Table!AppendRow /\ GrowsBy({})
<1>1. /\ Len(log') = Len(log) + 1
      /\ DOMAIN log = 1 .. Len(log) /\ DOMAIN log' = 1 .. Len(log') /\ Len(log) \in Nat
      /\ \A i \in DOMAIN log : log'[i] = log[i]
      /\ log'[Len(log) + 1] = r
  BY DEF TypeLog
<1>2. Table!AppendRow
  BY <1>1 DEF Table!AppendRow, Table!Extends, Table!Plain
<1>3. GrowsBy({})
  BY <1>1 DEF GrowsBy
<1> QED
  BY <1>2, <1>3

\* What indexPair does to the table.
LEMMA AppendPairRows ==
    ASSUME TypeOK, NEW c \in Calls, NEW e \in {"ok", "IsError"}, NotStored(c),
           log' = log \o PairRows(c, e)
    PROVE  Table!AppendPair /\ GrowsBy({c})
<1> DEFINE call   == MkRow("call", c, turn, callPos[c], "ok", {}, 0)
           result == MkRow("result", c, turn, pos, e, {}, 0)
<1>1. call \in Row /\ result \in Row
  BY RowType DEF TypeOK, TypeTurn, TypeBuild, TypeCalls, Kinds
<1>2. /\ call.kind = "call" /\ call.call = c /\ call.turn = turn
      /\ result.kind = "result" /\ result.call = c /\ result.turn = turn
  BY DEF MkRow
<1>3. log' = log \o <<call, result>>
  BY DEF PairRows
<1> HIDE DEF call, result
<1>4. /\ Len(log') = Len(log) + 2
      /\ DOMAIN log = 1 .. Len(log) /\ DOMAIN log' = 1 .. Len(log') /\ Len(log) \in Nat
      /\ \A i \in DOMAIN log : log'[i] = log[i]
      /\ log'[Len(log) + 1] = call /\ log'[Len(log) + 2] = result
  BY <1>1, <1>3 DEF TypeOK, TypeLog
<1>5. Table!AppendPair
  BY <1>2, <1>4 DEF Table!AppendPair, Table!Extends, Table!Pair, Table!Fresh, NotStored
<1>6. ASSUME NEW i \in DOMAIN log', log'[i].kind = "call", i \notin DOMAIN log
      PROVE  log'[i].call = c /\ log'[i].turn = turn
  <2>1. i = Len(log) + 1 \/ i = Len(log) + 2
    BY <1>4, <1>6
  <2> QED
    BY <2>1, <1>2, <1>4, <1>6
<1>7. GrowsBy({c})
  BY <1>4, <1>6 DEF GrowsBy
<1> QED
  BY <1>5, <1>7

\* A step that stores no call keeps what is known about stored calls.
LEMMA NoNewCall ==
    ASSUME Inv, GrowsBy({}), UNCHANGED <<turn, turnSeq>>
    PROVE  /\ TurnKeys'
           /\ \A c : NotStored(c) => NotStored(c)'
           /\ InTurn => \A i \in DOMAIN log' :
                log'[i].kind = "call" /\ log'[i].turn = turn => log'[i].call \in seenCalls
  BY DEF Inv, GrowsBy, TurnKeys, NotStored, Seen

\* A step outside the tool bookkeeping.
LEMMA Quiet ==
    ASSUME Inv, GrowsBy({}), UNCHANGED <<turn, turnSeq, pending, todo, seenCalls>>,
           InTurn' => InTurn
    PROVE  TurnKeys' /\ Unstored' /\ Seen' /\ Queue'
<1>1. Unstored'
  BY NoNewCall DEF Inv, Unstored
<1>2. Seen'
  BY NoNewCall DEF Inv, Seen
<1>3. Queue'
  BY DEF Inv, Queue
<1> QED
  BY NoNewCall, <1>1, <1>2, <1>3

\* A step that discards the turn's state: SendMessage returns, or a crash.
LEMMA Reset ==
    ASSUME TypeOK, Inv, GrowsBy({}), UNCHANGED turnSeq, turn' \in {turn, 0},
           pending' = {}, todo' = << >>, pc'[Runner] = "idle"
    PROVE  TurnKeys' /\ Unstored' /\ Seen' /\ Queue'
<1>1. TurnKeys'
  BY DEF TypeOK, TypeWorld, Inv, GrowsBy, TurnKeys
<1>2. Unstored' /\ Seen' /\ Queue'
  BY DEF Unstored, Seen, Queue, InTurn
<1> QED
  BY <1>1, <1>2

\* A step that starts to build one message which is not a call.
LEMMA Building ==
    ASSUME Inv, InTurn, UNCHANGED <<log, turn, turnSeq, pending, seenCalls>>,
           NEW s, NEW c, todo' = <<Site(s, c)>>, s # "call",
           s = "flush" => c \in pending
    PROVE  TurnKeys' /\ Unstored' /\ Seen' /\ Queue'
<1>1. Len(todo') = 1 /\ DOMAIN todo' = {1} /\ todo'[1].site = s /\ todo'[1].call = c
  BY DEF Site
<1>2. GrowsBy({})
  BY DEF GrowsBy
<1>3. TurnKeys' /\ Unstored'
  BY <1>1, <1>2, NoNewCall DEF Inv, Unstored
<1>4. Seen' /\ Queue'
  BY <1>1, <1>2, NoNewCall DEF Inv, Seen, Queue
<1> QED
  BY <1>3, <1>4

\* The message at the head of the list is done and nothing is left to build.
LEMMA LastItem ==
    ASSUME TypeOK, Inv, todo # << >>, Head(todo).site # "thinking"
    PROVE  Len(todo) = 1 /\ Tail(todo) = << >>
<1>1. todo \in Seq(Item) /\ todo # << >> /\ todo[1].site # "thinking"
  BY DEF TypeOK, TypeBuild
<1>2. Len(todo) \in Nat /\ Len(todo) # 0
  BY <1>1
<1>3. Len(todo) <= 1
  BY <1>1, Zenon DEF Inv, Queue
<1>4. Len(todo) = 1
  BY <1>2, <1>3
<1>5. Tail(todo) \in Seq(Item) /\ Len(Tail(todo)) = 0
  BY <1>1, <1>4
<1>6. Tail(todo) = << >>
  BY <1>5, EmptySeq
<1> QED
  BY <1>4, <1>6

\* A buffered call is stored together with its result.
LEMMA StoringCall ==
    ASSUME TypeOK, Inv, InTurn, NEW c \in pending, GrowsBy({c}),
           UNCHANGED <<turn, turnSeq, seenCalls>>,
           pending' = pending \ {c}, todo' = << >>
    PROVE  TurnKeys' /\ Unstored' /\ Seen' /\ Queue'
<1>1. TurnKeys'
  BY DEF Inv, GrowsBy, TurnKeys
<1>2. Unstored'
  BY DEF Inv, Unstored, GrowsBy, NotStored
<1>3. Seen'
  BY DEF Inv, Seen, GrowsBy
<1>4. Queue'
  BY DEF Queue
<1> QED
  BY <1>1, <1>2, <1>3, <1>4

LEMMA InitInv == Init => Inv
  BY DEF Init, Inv, Table!Closed, TurnKeys, Unstored, Seen, Queue, InTurn

\* Every step adds to the table what ThreadLog allows and keeps Inv's other parts.
LEMMA StepInv ==
    ASSUME TypeOK, Inv, [Next]_vars
    PROVE  [Table!Next]_log /\ TurnKeys' /\ Unstored' /\ Seen' /\ Queue'
<1> DEFINE Goal == [Table!Next]_log /\ TurnKeys' /\ Unstored' /\ Seen' /\ Queue'
<1>s. UNCHANGED log => [Table!Next]_log /\ GrowsBy({})
  BY DEF GrowsBy
<1>r. Runner \in Procs /\ Runner \notin Writers /\ Writers \subseteq Procs
  BY ConstantsAssumption DEF Procs
<1>p. DOMAIN pc = Procs
  BY DEF TypeOK, TypeSync
<1>e. \A s : AtSite(s) => InTurn
  BY DEF AtSite, InTurn
<1>q. ASSUME NEW o, Return(o), GrowsBy({}), UNCHANGED turnSeq
      PROVE  TurnKeys' /\ Unstored' /\ Seen' /\ Queue'
  <2>1. pc'[Runner] = "idle" /\ pending' = {} /\ todo' = << >> /\ turn' = turn
    BY <1>q, <1>r, <1>p DEF Return, Goto, ctl
  <2> QED
    BY <1>q, <2>1, Reset
<1>1. ASSUME NEW p \in Procs, Sync(p) PROVE Goal
  <2>1. UNCHANGED <<log, turn, turnSeq, pending, todo, seenCalls>>
    BY <1>1 DEF Sync, SyncRead, SyncCompare, SyncStore, volatile, world, ctl, build,
                calls, bounds
  <2>2. InTurn' => InTurn
    BY <1>1, <1>p, <1>r DEF Sync, SyncRead, SyncCompare, SyncStore, Goto, InTurn
  <2> QED
    BY <2>1, <2>2, <1>s, Quiet
<1>2. CASE Begin
  <2>1. UNCHANGED <<log, turn, turnSeq, pending, todo, seenCalls>>
    BY <1>2 DEF Begin, build, calls, bounds
  <2>2. InTurn' => InTurn
    BY <1>2, <1>p, <1>r DEF Begin, Goto, InTurn
  <2> QED
    BY <2>1, <2>2, <1>s, Quiet
<1>3. CASE MintTurn
  <2>1. /\ UNCHANGED <<log, pending, seenCalls>>
        /\ turn' = turnSeq + 1 /\ turnSeq' = turnSeq + 1
        /\ todo' = <<Site("user", NoCall)>> \/ todo' = << >>
    BY <1>3 DEF MintTurn, calls
  <2>2. \A i \in DOMAIN log : log[i].kind = "call" => log[i].turn <= turnSeq /\ log[i].turn \in Nat
    <3>1. \A i \in DOMAIN log : log[i] \in Row
      BY DEF TypeOK, TypeLog
    <3>2. \A i \in DOMAIN log : log[i].turn \in Nat
      BY <3>1 DEF Row
    <3> QED
      BY <3>2 DEF Inv, TurnKeys
  <2>3. \A c : NotStored(c)'
    BY <2>1, <2>2 DEF NotStored, TypeOK, TypeWorld
  <2>4. TurnKeys'
    BY <2>1, <2>2 DEF TurnKeys, TypeOK, TypeWorld
  <2>5. Unstored'
    BY <2>3 DEF Unstored
  <2>6. Len(todo') <= 1 /\ \A k \in DOMAIN todo' : todo'[k].site = "user"
    <3>1. CASE todo' = <<Site("user", NoCall)>>
      <4>1. Len(todo') = 1 /\ DOMAIN todo' = {1} /\ todo'[1].site = "user"
        BY <3>1 DEF Site
      <4> QED
        BY <4>1
    <3>2. CASE todo' = << >>
      <4>1. Len(todo') = 0 /\ DOMAIN todo' = {}
        BY <3>2
      <4> QED
        BY <4>1
    <3> QED
      BY <2>1, <3>1, <3>2
  <2>8. Seen' /\ Queue'
    BY <2>1, <2>3, <2>6 DEF Inv, Seen, Queue, NotStored
  <2> QED
    BY <2>1, <2>4, <2>5, <2>8, <1>s
<1>4. CASE MintID
  <2>1. UNCHANGED <<log, turn, turnSeq, pending, todo, seenCalls>>
    BY <1>4 DEF MintID, volatile, world, ctl, build, calls, bounds
  <2>2. InTurn
    BY <1>4 DEF MintID, InTurn
  <2> QED
    BY <2>1, <2>2, <1>s, Quiet
<1>5. CASE LoadPosition
  <2>1. UNCHANGED <<log, turn, turnSeq, pending, todo, seenCalls>>
    BY <1>5 DEF LoadPosition, world, ctl, calls, bounds
  <2>2. InTurn
    BY <1>5 DEF LoadPosition, InTurn
  <2> QED
    BY <2>1, <2>2, <1>s, Quiet
<1>6. CASE Store
  <2>1. CASE BufferCall
    <3> DEFINE c == Head(todo).call
    <3>1. /\ UNCHANGED <<log, turn, turnSeq, seenCalls>>
          /\ pending' = pending \cup {c} /\ todo' = << >> /\ InTurn
      BY <2>1, <1>e, LastItem DEF BufferCall, AtSite, ctl, bounds
    <3>2. 1 \in DOMAIN todo /\ todo[1].site = "call" /\ c = todo[1].call
      BY <2>1, LastItem DEF BufferCall, AtSite, TypeOK, TypeBuild
    <3>3. NotStored(c) /\ c \in seenCalls
      BY <3>2 DEF Inv, Unstored, Seen
    <3> HIDE DEF c
    <3>4. TurnKeys' /\ Unstored'
      BY <3>1, <3>3, <1>s, NoNewCall DEF Inv, Unstored
    <3>5. Seen' /\ Queue'
      BY <3>1, <3>3, <1>s, NoNewCall DEF Inv, Seen, Queue
    <3> QED
      BY <3>1, <3>4, <3>5, <1>s
  <2>2. ASSUME NEW ok \in BOOLEAN, StoreUser(ok) PROVE Goal
    <3>1. CASE ok
      <4>1. Table!AppendRow /\ GrowsBy({})
        BY <2>2, <3>1, AppendPlain, PlainRowType DEF StoreUser, TypeOK, Kinds, PlainRow, MkRow
      <4>2. /\ UNCHANGED <<turn, turnSeq, pending, seenCalls>> /\ todo' = << >> /\ InTurn
        BY <2>2, <3>1, <1>e DEF StoreUser, ctl, calls, world, bounds
      <4>3. TurnKeys' /\ Unstored'
        BY <4>1, <4>2, NoNewCall DEF Inv, Unstored
      <4>4. Seen' /\ Queue'
        BY <4>1, <4>2, NoNewCall DEF Inv, Seen, Queue
      <4> QED
        BY <4>1, <4>3, <4>4 DEF Table!Next
    <3>2. CASE ~ok
      BY <2>2, <3>2, <1>q, <1>s DEF StoreUser, world, bounds
    <3> QED
      BY <3>1, <3>2
  <2>3. ASSUME NEW ok \in BOOLEAN, StoreThinking(ok) PROVE Goal
    <3>1. [Table!Next]_log /\ GrowsBy({})
      <4>1. CASE ok
        BY <2>3, <4>1, AppendPlain, PlainRowType
        DEF StoreThinking, TypeOK, Kinds, PlainRow, MkRow, Table!Next
      <4>2. CASE ~ok
        BY <2>3, <4>2, <1>s DEF StoreThinking
      <4> QED
        BY <4>1, <4>2
    <3>2. /\ UNCHANGED <<turn, turnSeq, pending, seenCalls>>
          /\ todo' = Tail(todo) /\ InTurn /\ todo \in Seq(Item) /\ todo # << >>
      BY <2>3, <1>e DEF StoreThinking, ctl, calls, world, bounds, AtSite, TypeOK, TypeBuild
    <3>3. /\ Len(todo') <= 1
          /\ \A k \in DOMAIN todo' : k + 1 \in DOMAIN todo /\ todo'[k] = todo[k + 1]
      <4>1. Len(todo) \in Nat /\ Len(todo) # 0
        BY <3>2
      <4>2. Len(todo) <= 1 \/ Len(todo) = 2
        BY Zenon DEF Inv, Queue
      <4>3. Len(todo) \in 1 .. 2
        BY <4>1, <4>2
      <4> QED
        BY <3>2, <4>3
    <3>4. TurnKeys' /\ Unstored'
      BY <3>1, <3>2, <3>3, NoNewCall DEF Inv, Unstored
    <3>5. Seen' /\ Queue'
      BY <3>1, <3>2, <3>3, NoNewCall DEF Inv, Seen, Queue
    <3> QED
      BY <3>1, <3>4, <3>5
  <2>4. ASSUME NEW ok \in BOOLEAN, StoreResult(ok) PROVE Goal
    <3> DEFINE c == Head(todo).call
    <3>1. /\ UNCHANGED <<turn, turnSeq, seenCalls>> /\ todo' = << >> /\ InTurn
          /\ c \in Calls
      BY <2>4, <1>e, LastItem, HeadType DEF StoreResult, AtSite, ctl, bounds, TypeOK
    <3>2. CASE c \in pending /\ ok
      <4>1. log' = log \o PairRows(c, "ok") /\ pending' = pending \ {c}
        BY <2>4, <3>2 DEF StoreResult
      <4>2. NotStored(c)
        BY <3>2 DEF Inv, Unstored
      <4> HIDE DEF c
      <4>3. Table!AppendPair /\ GrowsBy({c})
        BY <3>1, <4>1, <4>2, AppendPairRows
      <4> QED
        BY <3>1, <3>2, <4>1, <4>3, StoringCall DEF Table!Next
    <3>3. CASE ~(c \in pending /\ ok)
      <4>1. UNCHANGED <<log, pending>>
        BY <2>4, <3>3 DEF StoreResult
      <4>2. TurnKeys' /\ Unstored'
        BY <3>1, <4>1, <1>s, NoNewCall DEF Inv, Unstored
      <4>3. Seen' /\ Queue'
        BY <3>1, <4>1, <1>s, NoNewCall DEF Inv, Seen, Queue
      <4> QED
        BY <4>1, <4>2, <4>3, <1>s
    <3> QED
      BY <3>2, <3>3
  <2>5. ASSUME NEW ok \in BOOLEAN, StoreFlush(ok) PROVE Goal
    <3> DEFINE c == Head(todo).call
    <3>1. /\ UNCHANGED <<turn, turnSeq, seenCalls>> /\ todo' = << >> /\ InTurn
          /\ c \in Calls
      BY <2>5, <1>e, LastItem, HeadType DEF StoreFlush, AtSite, ctl, bounds, TypeOK
    <3>2. c \in pending
      <4>1. 1 \in DOMAIN todo /\ todo[1].site = "flush" /\ c = todo[1].call
        BY <2>5, LastItem DEF StoreFlush, AtSite, TypeOK, TypeBuild
      <4> QED
        BY <4>1 DEF Inv, Queue
    <3>3. CASE ok
      <4>1. log' = log \o PairRows(c, "IsError") /\ pending' = pending \ {c}
        BY <2>5, <3>3 DEF StoreFlush
      <4>2. NotStored(c)
        BY <3>2 DEF Inv, Unstored
      <4> HIDE DEF c
      <4>3. Table!AppendPair /\ GrowsBy({c})
        BY <3>1, <4>1, <4>2, AppendPairRows
      <4> QED
        BY <3>1, <3>2, <4>1, <4>3, StoringCall DEF Table!Next
    <3>4. CASE ~ok
      <4>1. UNCHANGED <<log, pending>>
        BY <2>5, <3>4 DEF StoreFlush
      <4>2. TurnKeys' /\ Unstored'
        BY <3>1, <4>1, <1>s, NoNewCall DEF Inv, Unstored
      <4>3. Seen' /\ Queue'
        BY <3>1, <4>1, <1>s, NoNewCall DEF Inv, Seen, Queue
      <4> QED
        BY <4>1, <4>2, <4>3, <1>s
    <3> QED
      BY <3>3, <3>4
  <2>6. ASSUME NEW ok \in BOOLEAN, StoreFinal(ok) PROVE Goal
    <3>1. [Table!Next]_log /\ GrowsBy({})
      <4>1. CASE ok
        BY <2>6, <4>1, AppendPlain, PlainRowType
        DEF StoreFinal, TypeOK, Kinds, PlainRow, MkRow, Table!Next
      <4>2. CASE ~ok
        BY <2>6, <4>2, <1>s DEF StoreFinal
      <4> QED
        BY <4>1, <4>2
    <3> QED
      BY <2>6, <3>1, <1>q DEF StoreFinal, world, bounds
  <2> QED
    BY <1>6, <2>1, <2>2, <2>3, <2>4, <2>5, <2>6 DEF Store
<1>7. CASE Event
  <2>e. AtEvent => InTurn
    BY DEF AtEvent, InTurn
  <2>1. ASSUME NEW c \in Calls, EvCall(c) PROVE Goal
    <3>1. UNCHANGED <<log, turn, turnSeq, pending>> /\ InTurn
      BY <2>1, <2>e DEF EvCall, ctl, bounds
    <3>2. CASE c \in seenCalls
      BY <2>1, <3>1, <3>2, <1>s, Quiet DEF EvCall
    <3>3. CASE c \notin seenCalls
      <4>1. /\ seenCalls' = seenCalls \cup {c}
            /\ \/ todo' = <<Site("call", c)>>
               \/ todo' = <<Site("thinking", NoCall), Site("call", c)>>
        BY <2>1, <3>3 DEF EvCall
      <4>2. NotStored(c)
        BY <3>1, <3>3 DEF Inv, Seen, NotStored
      <4>3. /\ \A k \in DOMAIN todo' : todo'[k].site \in {"call", "thinking"}
            /\ \A k \in DOMAIN todo' : todo'[k].site = "call" => todo'[k].call = c
            /\ \/ Len(todo') = 1
               \/ Len(todo') = 2 /\ todo'[1].site = "thinking" /\ todo'[2].site = "call"
        BY <4>1 DEF Site
      <4>4. TurnKeys' /\ Unstored'
        BY <3>1, <4>1, <4>2, <4>3, <1>s, NoNewCall DEF Inv, Unstored
      <4>5. Seen'
        BY <3>1, <4>1, <4>3, <1>s, NoNewCall DEF Inv, Seen
      <4>6. Queue'
        BY <4>3 DEF Queue
      <4> QED
        BY <3>1, <4>4, <4>5, <4>6, <1>s
    <3> QED
      BY <3>2, <3>3
  <2>2. ASSUME NEW c \in Calls, EvResult(c) PROVE Goal
    <3>1. /\ UNCHANGED <<log, turn, turnSeq, pending, seenCalls>> /\ InTurn
          /\ todo' = <<Site("result", c)>>
      BY <2>2, <2>e DEF EvResult, ctl, calls, world, bounds
    <3> QED
      BY <3>1, <1>s, Building
  <2>3. CASE EvEmptyID
    BY <2>3, <1>q, <1>s DEF EvEmptyID, bounds
  <2>4. CASE EvText \/ EvError \/ EvBlockEnds
    <3>1. UNCHANGED <<log, turn, turnSeq, pending, todo, seenCalls>> /\ InTurn
      BY <2>4, <2>e DEF EvText, EvError, EvBlockEnds, volatile, ctl, build, calls, world, bounds
    <3> QED
      BY <3>1, <1>s, Quiet
  <2>5. ASSUME NEW t \in BOOLEAN, NEW s \in BOOLEAN, EvThinking(t, s) PROVE Goal
    <3>1. UNCHANGED <<log, turn, turnSeq, pending, seenCalls>> /\ InTurn
      BY <2>5, <2>e DEF EvThinking, ctl, calls, bounds
    <3>2. UNCHANGED todo \/ todo' = <<Site("thinking", NoCall)>>
      BY <2>5 DEF EvThinking
    <3> QED
      BY <3>1, <3>2, <1>s, Quiet, Building
  <2> QED
    BY <1>7, <2>1, <2>2, <2>3, <2>4, <2>5 DEF Event
<1>8. CASE StreamEnd
  <2>1. UNCHANGED <<log, turn, turnSeq, pending, todo, seenCalls>> /\ InTurn
    BY <1>8 DEF StreamEnd, volatile, world, ctl, build, calls, bounds, InTurn
  <2> QED
    BY <2>1, <1>s, Quiet
<1>9. CASE FlushNext
  <2>1. UNCHANGED <<log, turn, turnSeq, pending, seenCalls>> /\ InTurn
    BY <1>9 DEF FlushNext, world, ctl, bounds, InTurn
  <2>2. \/ UNCHANGED todo
        \/ todo' = <<Site("flush", Head(order))>> /\ Head(order) \in pending
    BY <1>9 DEF FlushNext
  <2> QED
    BY <2>1, <2>2, <1>s, Quiet, Building
<1>10. CASE Conclude
  <2>1. UNCHANGED <<log, turnSeq>> /\ InTurn
    BY <1>10 DEF Conclude, world, bounds, InTurn
  <2>2. CASE flushErr = "nil" /\ (thinkBuf # {} \/ textBuf # "empty")
    <3>1. UNCHANGED <<turn, pending, seenCalls>> /\ todo' = <<Site("final", NoCall)>>
      BY <1>10, <2>2 DEF Conclude, ctl, calls
    <3> QED
      BY <2>1, <3>1, <1>s, Building
  <2>3. CASE ~(flushErr = "nil" /\ (thinkBuf # {} \/ textBuf # "empty"))
    BY <1>10, <2>1, <2>3, <1>q, <1>s DEF Conclude
  <2> QED
    BY <2>2, <2>3
<1>11. CASE CancelTurn
  <2>1. UNCHANGED <<log, turn, turnSeq, pending, todo, seenCalls, pc>>
    BY <1>11 DEF CancelTurn, build, calls, world, bounds
  <2> QED
    BY <2>1, <1>s, Quiet DEF InTurn
<1>12. ASSUME NEW w \in Writers, Note(w) PROVE Goal
  <2>1. UNCHANGED <<turn, turnSeq, pending, todo, seenCalls>>
    BY <1>12 DEF Note, NoteBegin, NoteAdd, NoteInsert, volatile, world, ctl, build, calls, bounds
  <2>2. pc'[Runner] = pc[Runner]
    BY <1>12, <1>r, <1>p DEF Note, NoteBegin, NoteAdd, NoteInsert, Goto
  <2>3. [Table!Next]_log /\ GrowsBy({})
    <3>1. CASE NoteBegin(w) \/ NoteAdd(w) \/ NoteInsert(w, FALSE)
      BY <3>1, <1>s DEF NoteBegin, NoteAdd, NoteInsert
    <3>2. CASE NoteInsert(w, TRUE)
      <4> DEFINE r == MkRow("note", NoCall, noteTurn[w], high[w], "ok", {}, 0)
      <4>1. r \in Row
        BY <3>2, <1>r, RowType DEF NoteInsert, Kinds, TypeOK, TypeSync, TypeWorld
      <4>2. r.kind = "note" /\ log' = Append(log, r)
        BY <3>2 DEF NoteInsert, MkRow
      <4> HIDE DEF r
      <4> QED
        BY <4>1, <4>2, AppendPlain DEF TypeOK, Table!Next
    <3> QED
      BY <1>12, <3>1, <3>2 DEF Note
  <2> QED
    BY <2>1, <2>2, <2>3, Quiet DEF InTurn
<1>13. CASE Crash
  <2>1. /\ UNCHANGED <<log, turnSeq>> /\ turn' = 0 /\ pending' = {} /\ todo' = << >>
        /\ pc'[Runner] = "idle"
    BY <1>13, <1>r DEF Crash
  <2> QED
    BY <2>1, <1>s, Reset
<1>14. CASE UNCHANGED vars
  <2>1. UNCHANGED <<log, turn, turnSeq, pending, todo, seenCalls, pc>>
    BY <1>14 DEF vars, volatile, world, ctl, build, calls, bounds
  <2> QED
    BY <2>1, <1>s, Quiet DEF InTurn
<1> QED
  BY <1>1, <1>2, <1>3, <1>4, <1>5, <1>6, <1>7, <1>8, <1>9, <1>10, <1>11, <1>12,
     <1>13, <1>14, <1>r DEF Next, RunnerStep

LEMMA InvImpliesClosed ==
    ASSUME TypeLog, Inv
    PROVE  ProtocolClosed
<1>1. \A i \in DOMAIN log : i \in Int
  BY DEF TypeLog
<1>2. Table!Closed
  BY DEF Inv
<1>3. \A i \in DOMAIN log : log[i].kind = "call" =>
        \E j \in DOMAIN log : Table!Pair(log[i], log[j])
  BY <1>2 DEF Table!Closed
<1>4. \A j \in DOMAIN log : log[j].kind = "result" =>
        \E i \in DOMAIN log : Table!Pair(log[i], log[j])
  BY <1>2 DEF Table!Closed
<1>5. ASSUME NEW i \in DOMAIN log, NEW j \in DOMAIN log,
             log[i].kind \in {"call", "result"}, log[i].kind = log[j].kind,
             log[i].call = log[j].call, log[i].turn = log[j].turn
      PROVE  i = j
  <2>1. CASE log[i].kind = "call"
    BY <1>2, <1>5, <2>1 DEF Table!Closed
  <2>2. CASE log[i].kind = "result"
    <3>1. i - 1 \in DOMAIN log /\ j - 1 \in DOMAIN log
      BY <1>2, <1>5, <2>2 DEF Table!Closed
    <3>2. Table!Pair(log[i - 1], log[i]) /\ Table!Pair(log[j - 1], log[j])
      BY <1>2, <1>5, <2>2 DEF Table!Closed
    <3>3. i - 1 = j - 1
      BY <1>2, <1>5, <3>1, <3>2 DEF Table!Closed, Table!Pair
    <3> QED
      BY <1>1, <3>3
  <2> QED
    BY <1>5, <2>1, <2>2
<1> QED
  BY <1>3, <1>4, <1>5 DEF ProtocolClosed

LEMMA Invariance == Spec => [](TypeOK /\ Inv)
<1>1. Init => TypeOK /\ Inv
  BY InitTypeOK, InitInv
<1>2. TypeOK /\ Inv /\ [Next]_vars => TypeOK' /\ Inv'
  <2> SUFFICES ASSUME TypeOK, Inv, [Next]_vars PROVE TypeOK' /\ Inv'
    OBVIOUS
  <2>1. TypeOK'
    BY NextTypeOK
  <2>2. Table!Closed'
    BY <2>1, StepInv, ClosedStep DEF TypeOK, Inv
  <2> QED
    BY <2>1, <2>2, StepInv DEF Inv
<1> QED
  BY <1>1, <1>2, PTL DEF Spec

\* At every moment of every behaviour each stored call has a result, each
\* stored result a call, and no turn stores one call id twice.
THEOREM ProtocolClosure == Spec => []ProtocolClosed
<1>1. TypeOK /\ Inv => ProtocolClosed
  BY InvImpliesClosed DEF TypeOK
<1> QED
  BY <1>1, Invariance, PTL

\* The table is only ever changed by whole rows and whole call-result pairs.
THEOREM Refinement == Spec => ImplementsThreadLog
<1>1. Init => Table!Init
  BY DEF Init, Table!Init
<1>2. TypeOK /\ Inv /\ [Next]_vars => [Table!Next]_log
  BY StepInv
<1> QED
  BY <1>1, <1>2, Invariance, PTL DEF Spec, ImplementsThreadLog, Table!Spec
-----------------------------------------------------------------------------
(* What the thread reads back: positions and signatures.                   *)

\* Every stored position, and every buffered one, is at most h.
Top(h)   == \A i \in DOMAIN log : log[i].pos <= h
Below(h) == Top(h) /\ \A c \in pending : callPos[c] <= h

\* With no resolver beside the runner the counter is ahead of the thread from
\* the seeding on, and an Add hands out a position nobody has.
Counter ==
    /\ pc[Runner] \in {"compare", "store"} => Top(high[Runner])
    /\ pc[Runner] \in {"seeded", "add", "events", "flush"} => Below(msgSeq)
    /\ pc[Runner] \in {"load", "write"} => Below(msgSeq - 1)
    /\ pc[Runner] = "write" => pos = msgSeq
    /\ ~InTurn => pending = {}

\* Buffered calls wait with positions of their own.
Apart ==
    /\ \A c \in pending : \A i \in DOMAIN log : callPos[c] # log[i].pos
    /\ \A c, d \in pending : callPos[c] = callPos[d] => c = d

\* Nothing is being built between two messages.
Resting == pc[Runner] \notin {"add", "load", "write"} => todo = << >>

\* A call is stored below the result that follows it.
Ascending == \A i \in DOMAIN log : log[i].kind = "call" => log[i].pos < log[i + 1].pos

Stored == UniquePositions /\ Ascending
Reading == Counter /\ Apart /\ Resting /\ Stored

\* A row above all others that is no call.
LEMMA StoredPlain ==
    ASSUME TypeLog, Table!Closed, Stored, NEW h \in Nat, Top(h - 1), NEW r \in Row,
           r.kind # "call", r.pos = h,
           log' = Append(log, r)
    PROVE  /\ Stored' /\ \A i \in DOMAIN log' : log'[i].pos <= h
           /\ \A i \in DOMAIN log' : log'[i].pos = h \/ (i \in DOMAIN log /\ log'[i] = log[i])
<1>1. /\ DOMAIN log = 1 .. Len(log) /\ Len(log) \in Nat /\ DOMAIN log' = 1 .. Len(log) + 1
      /\ \A i \in DOMAIN log : log'[i] = log[i] /\ log[i] \in Row
      /\ log'[Len(log) + 1] = r
  BY DEF TypeLog
<1>2. \A i \in DOMAIN log : log[i].pos \in Nat /\ log[i].pos < h
  <2>1. \A i \in DOMAIN log : log[i].pos \in Nat  BY <1>1 DEF Row
  <2> QED BY <2>1 DEF Top
<1>3. \A i \in DOMAIN log' : i \in DOMAIN log \/ i = Len(log) + 1
  BY <1>1
<1>4. /\ \A i \in DOMAIN log' : log'[i].pos <= h
      /\ \A i \in DOMAIN log' : log'[i].pos = h \/ (i \in DOMAIN log /\ log'[i] = log[i])
  BY <1>1, <1>2, <1>3 DEF Top
<1>5. UniquePositions'
  BY <1>1, <1>2, <1>3 DEF UniquePositions, Stored
<1>6. Ascending'
  <2> SUFFICES ASSUME NEW i \in DOMAIN log', log'[i].kind = "call"
               PROVE  log'[i].pos < log'[i + 1].pos
    BY DEF Ascending
  <2>1. i \in DOMAIN log  BY <1>1, <1>3
  <2>2. i + 1 \in DOMAIN log  BY <1>1, <2>1 DEF Table!Closed
  <2>3. log[i].pos < log[i + 1].pos  BY <1>1, <2>1 DEF Stored, Ascending
  <2> QED BY <1>1, <2>1, <2>2, <2>3
<1> QED BY <1>4, <1>5, <1>6 DEF Stored

\* A buffered call and its result.
LEMMA StoredPair ==
    ASSUME TypeOK, Table!Closed, Stored, Apart, Below(msgSeq - 1), pos = msgSeq,
           NEW c \in pending, NEW e \in {"ok", "IsError"}, log' = log \o PairRows(c, e)
    PROVE  /\ Stored' /\ \A i \in DOMAIN log' : log'[i].pos <= msgSeq
           /\ \A i \in DOMAIN log' :
                 log'[i].pos \in {callPos[c], msgSeq} \/ (i \in DOMAIN log /\ log'[i] = log[i])
<1> DEFINE call   == MkRow("call", c, turn, callPos[c], "ok", {}, 0)
           result == MkRow("result", c, turn, pos, e, {}, 0)
<1>c. c \in Calls /\ callPos[c] \in Nat /\ msgSeq \in Nat /\ callPos[c] < msgSeq
  <2>1. c \in Calls /\ callPos[c] \in Nat /\ msgSeq \in Nat  BY DEF TypeOK, TypeCalls, TypeSync
  <2>2. callPos[c] <= msgSeq - 1  BY DEF Below
  <2> QED BY <2>1, <2>2
<1>1. call \in Row /\ result \in Row
  BY <1>c, RowType DEF TypeOK, TypeTurn, TypeBuild, Kinds
<1>2. /\ call.kind = "call" /\ call.pos = callPos[c]
      /\ result.kind = "result" /\ result.pos = msgSeq
  BY DEF MkRow
<1>3. log' = log \o <<call, result>>
  BY DEF PairRows
<1> HIDE DEF call, result
<1>4. /\ DOMAIN log = 1 .. Len(log) /\ DOMAIN log' = 1 .. Len(log) + 2 /\ Len(log) \in Nat
      /\ \A i \in DOMAIN log : log'[i] = log[i] /\ log[i] \in Row
      /\ log'[Len(log) + 1] = call /\ log'[Len(log) + 2] = result
  BY <1>1, <1>3 DEF TypeOK, TypeLog
<1>5. \A i \in DOMAIN log : log[i].pos \in Nat /\ log[i].pos < msgSeq /\ log[i].pos # callPos[c]
  <2>1. \A i \in DOMAIN log : log[i].pos \in Nat  BY <1>4 DEF Row
  <2> QED BY <1>c, <2>1 DEF Below, Top, Apart
<1>6. \A i \in DOMAIN log' : i \in DOMAIN log \/ i = Len(log) + 1 \/ i = Len(log) + 2
  BY <1>4
<1>n. log'[Len(log) + 1].pos = callPos[c] /\ log'[Len(log) + 2].pos = msgSeq
  BY <1>2, <1>4
<1>7. \A i \in DOMAIN log' :
         log'[i].pos \in {callPos[c], msgSeq} \/ (i \in DOMAIN log /\ log'[i] = log[i])
  BY <1>2, <1>4, <1>6
<1>8. ASSUME NEW i \in DOMAIN log' PROVE log'[i].pos <= msgSeq
  <2>1. CASE i \in DOMAIN log  BY <1>4, <1>5, <1>c, <2>1
  <2>2. CASE i \notin DOMAIN log
    <3>1. log'[i].pos = callPos[c] \/ log'[i].pos = msgSeq  BY <1>7, <2>2
    <3>2. \A p : p = callPos[c] \/ p = msgSeq => p <= msgSeq  BY <1>c
    <3> QED BY <3>1, <3>2, Zenon
  <2> QED BY <2>1, <2>2
<1>9. UniquePositions'
  <2> SUFFICES ASSUME NEW i \in DOMAIN log', NEW j \in DOMAIN log', i # j
               PROVE  log'[i].pos # log'[j].pos
    BY DEF UniquePositions
  <2>1. CASE i \in DOMAIN log /\ j \in DOMAIN log
    BY <1>4, <2>1 DEF UniquePositions, Stored
  <2>2. CASE i \notin DOMAIN log /\ j \notin DOMAIN log
    <3>1. (i = Len(log) + 1 /\ j = Len(log) + 2) \/ (j = Len(log) + 1 /\ i = Len(log) + 2)
      BY <1>6, <2>2
    <3>2. callPos[c] # msgSeq  BY <1>c
    <3>3. CASE i = Len(log) + 1 /\ j = Len(log) + 2  BY <1>n, <3>2, <3>3
    <3>4. CASE j = Len(log) + 1 /\ i = Len(log) + 2  BY <1>n, <3>2, <3>4
    <3> QED BY <3>1, <3>3, <3>4
  <2>3. CASE i \in DOMAIN log /\ j \notin DOMAIN log
    <3>1. log'[j].pos \in {callPos[c], msgSeq}  BY <1>7, <2>3
    <3> QED BY <1>4, <1>5, <2>3, <3>1
  <2>4. CASE i \notin DOMAIN log /\ j \in DOMAIN log
    <3>1. log'[i].pos \in {callPos[c], msgSeq}  BY <1>7, <2>4
    <3> QED BY <1>4, <1>5, <2>4, <3>1
  <2> QED BY <2>1, <2>2, <2>3, <2>4
<1>10. Ascending'
  <2> SUFFICES ASSUME NEW i \in DOMAIN log', log'[i].kind = "call"
               PROVE  log'[i].pos < log'[i + 1].pos
    BY DEF Ascending
  <2>1. CASE i \in DOMAIN log
    <3>1. i + 1 \in DOMAIN log  BY <1>4, <2>1 DEF Table!Closed
    <3>2. log[i].pos < log[i + 1].pos  BY <1>4, <2>1 DEF Stored, Ascending
    <3> QED BY <1>4, <2>1, <3>1, <3>2
  <2>2. CASE i = Len(log) + 1
    <3>1. i + 1 = Len(log) + 2  BY <1>4, <2>2
    <3> QED BY <1>2, <1>4, <1>c, <2>2, <3>1
  <2> QED BY <1>2, <1>4, <1>6, <2>1, <2>2
<1> QED BY <1>7, <1>8, <1>9, <1>10 DEF Stored

\* The rows and the buffered positions stay.
LEMMA SameRows ==
    ASSUME Reading, UNCHANGED <<log, pending, callPos>>
    PROVE  /\ Apart' /\ Stored'
           /\ \A h : Below(h) => (\A i \in DOMAIN log' : log'[i].pos <= h) /\ \A c \in pending' : callPos'[c] <= h
  BY DEF Reading, Apart, Stored, UniquePositions, Ascending, Below, Top

\* SendMessage returns: nothing is buffered and nothing is being built.
LEMMA ReadReturn ==
    ASSUME TypeOK, NEW o, Return(o), Stored'
    PROVE  Reading'
<1>1. pc'[Runner] = "idle" /\ pending' = {} /\ todo' = << >> 
  BY DEF Return, Goto, TypeOK, TypeSync, Procs
<1>2. Counter' /\ Apart'  BY <1>1 DEF Counter, Apart
<1>3. Resting'  BY <1>1 DEF Resting
<1> QED BY <1>2, <1>3 DEF Reading

\* What the counter was, at each place of the runner.
LEMMA CounterAt ==
    ASSUME TypeOK, Reading
    PROVE  /\ msgSeq \in Nat /\ msgSeq - 1 \in Int /\ (msgSeq + 1) - 1 = msgSeq
           /\ \A h, k \in Int : Top(h) /\ h <= k => Top(k)
           /\ ~InTurn => \A h : Below(h) <=> Top(h)
           /\ pc[Runner] = "seeded" => Below(msgSeq) /\ pending = {}
<1>1. msgSeq \in Nat /\ msgSeq - 1 \in Int /\ (msgSeq + 1) - 1 = msgSeq
  BY DEF TypeOK, TypeSync
<1>2. \A h, k \in Int : Top(h) /\ h <= k => Top(k)
  <2>1. \A i \in DOMAIN log : log[i] \in Row  BY DEF TypeOK, TypeLog
  <2>2. \A i \in DOMAIN log : log[i].pos \in Nat  BY <2>1 DEF Row
  <2> QED BY <2>2 DEF Top
<1>3. ~InTurn => \A h : Below(h) <=> Top(h)
  BY DEF Reading, Counter, Below
<1>4. pc[Runner] = "seeded" => Below(msgSeq) /\ pending = {}
  BY DEF Reading, Counter, InTurn
<1> QED BY <1>1, <1>2, <1>3, <1>4

\* syncMsgSeq leaves the counter at or above every stored position.
LEMMA ReadSync ==
    ASSUME TypeOK, Reading, Writers = {}, ~ReadsFail, Sync(Runner)
    PROVE  Reading'
<1> USE DEF Procs
<1>1. UNCHANGED <<log, pending, callPos, todo>>
  BY DEF Sync, SyncRead, SyncCompare, SyncStore, volatile, world, build, calls, bufs
<1>2. Apart' /\ Stored'  BY <1>1, SameRows
<1>3. pc[Runner] \in {"sync", "compare", "store"} /\ pc'[Runner] \in {"compare", "store", "seeded"}
  BY DEF Sync, SyncRead, SyncCompare, SyncStore, Goto, TypeOK, TypeSync
<1>4. pending = {} /\ todo = << >>
  BY <1>3 DEF Reading, Counter, Resting, InTurn
<1>5. Resting'
  BY <1>1, <1>4 DEF Reading, Resting
<1>6. Counter'
  <2> SUFFICES /\ pc'[Runner] \in {"compare", "store"} => Top(high[Runner])'
               /\ pc'[Runner] = "seeded" => Top(msgSeq)'
    BY <1>1, <1>3, <1>4 DEF Counter, Below, InTurn
  <2>1. CASE SyncRead(Runner)
    <3>1. PICK h \in MaxPositions : high' = [high EXCEPT ![Runner] = h]
      BY <2>1 DEF SyncRead
    <3>2. \A i \in DOMAIN log : log[i].pos <= h
      BY <3>1 DEF MaxPositions
    <3>3. high'[Runner] = h /\ pc'[Runner] = "compare"
      BY <2>1, <3>1 DEF SyncRead, Goto, TypeOK, TypeSync
    <3> QED BY <1>1, <3>2, <3>3 DEF Top
  <2>2. CASE SyncCompare(Runner)
    <3>1. /\ high' = high /\ msgSeq' = msgSeq /\ Top(high[Runner])
          /\ pc'[Runner] = IF high[Runner] > msgSeq THEN "store" ELSE "seeded"
      BY <2>2 DEF SyncCompare, Goto, TypeOK, TypeSync, Reading, Counter
    <3>2. high[Runner] \in Int /\ msgSeq \in Int  BY DEF TypeOK, TypeSync
    <3>3. high[Runner] <= msgSeq => Top(msgSeq)  BY <3>1, <3>2, CounterAt
    <3> QED BY <1>1, <3>1, <3>2, <3>3 DEF Top
  <2>3. CASE SyncStore(Runner)
    <3>1. msgSeq' = high[Runner] /\ Top(high[Runner]) /\ pc'[Runner] = "seeded"
      BY <2>3 DEF SyncStore, Goto, TypeOK, TypeSync, Reading, Counter
    <3> QED BY <1>1, <3>1 DEF Top
  <2> QED BY <2>1, <2>2, <2>3 DEF Sync
<1> QED BY <1>2, <1>5, <1>6 DEF Reading

\* A store at the turn's message sites.
LEMMA ReadStore ==
    ASSUME TypeOK, Inv, Reading, Store
    PROVE  Reading'
<1>p. DOMAIN pc = Procs /\ Runner \in Procs  BY DEF TypeOK, TypeSync, Procs
<1>i. msgSeq \in Nat  BY DEF TypeOK, TypeSync
<1>s. ASSUME NEW s, AtSite(s)
      PROVE  /\ InTurn /\ Below(msgSeq - 1) /\ pos = msgSeq
             /\ s # "thinking" => Tail(todo) = << >>
  <2>1. InTurn /\ Below(msgSeq - 1) /\ pos = msgSeq
    BY <1>s DEF AtSite, InTurn, Reading, Counter
  <2>2. s # "thinking" => Tail(todo) = << >>  BY <1>s, LastItem DEF AtSite
  <2> QED BY <2>1, <2>2
<1>g. Below(msgSeq - 1) => Below(msgSeq)
  <2>1. \A c \in pending : callPos[c] \in Nat  BY DEF TypeOK, TypeCalls
  <2> QED BY <1>i, <2>1, CounterAt DEF Below
<1>1. CASE BufferCall
  <2> DEFINE c == Head(todo).call
  <2>1. c \in Calls /\ AtSite("call")  BY <1>1, HeadType DEF BufferCall, TypeOK
  <2>2. /\ pending' = pending \cup {c} /\ callPos' = [callPos EXCEPT ![c] = pos]
        /\ log' = log /\ msgSeq' = msgSeq /\ todo' = Tail(todo) /\ pc'[Runner] = "events"
    BY <1>1, <1>p DEF BufferCall, Goto, bufs
  <2> HIDE DEF c
  <2>3. \A d \in Calls : callPos'[d] = IF d = c THEN msgSeq ELSE callPos[d]
    BY <2>1, <2>2, <1>s DEF TypeOK, TypeCalls
  <2>4. /\ pending \subseteq Calls
        /\ \A d \in pending : callPos[d] \in Nat /\ callPos[d] < msgSeq
        /\ \A i \in DOMAIN log : log[i].pos # msgSeq
    <3>1. \A i \in DOMAIN log : log[i] \in Row  BY DEF TypeOK, TypeLog
    <3>2. \A i \in DOMAIN log : log[i].pos \in Nat  BY <3>1 DEF Row
    <3> QED BY <1>i, <1>s, <2>1, <3>2 DEF Below, Top, TypeOK, TypeCalls
  <2>5. Counter'
    <3>1. Top(msgSeq)' BY <1>g, <1>s, <2>1, <2>2 DEF Below, Top
    <3>2. \A d \in pending' : callPos'[d] <= msgSeq'  BY <1>i, <2>1, <2>2, <2>3, <2>4
    <3> QED BY <2>2, <3>1, <3>2 DEF Counter, Below, InTurn
  <2>6. Apart'
    <3>1. \A d \in pending' : callPos'[d] = IF d = c THEN msgSeq ELSE callPos[d]
      BY <2>1, <2>2, <2>3, <2>4
    <3> QED BY <2>2, <2>4, <3>1 DEF Apart, Reading
  <2>7. Stored'  BY <2>2 DEF Reading, Stored, UniquePositions, Ascending
  <2>8. Resting'  BY <1>s, <2>1, <2>2 DEF Resting
  <2> QED BY <2>5, <2>6, <2>7, <2>8 DEF Reading
<1>2. ASSUME NEW ok \in BOOLEAN, NEW r \in Row, NEW s, AtSite(s), r.kind \notin {"call", "result"},
             r.pos = msgSeq,
             log' = IF ok THEN Append(log, r) ELSE log
      PROVE  /\ Stored' /\ \A i \in DOMAIN log' : log'[i].pos <= msgSeq
             /\ UNCHANGED <<pending, callPos>> => Apart'
  <2>1. CASE ok
    <3>1. Top(msgSeq - 1) /\ log' = Append(log, r)  BY <1>s, <1>2, <2>1 DEF Below
    <3>2. /\ Stored' /\ \A i \in DOMAIN log' : log'[i].pos <= msgSeq
          /\ \A i \in DOMAIN log' : log'[i].pos = msgSeq \/ (i \in DOMAIN log /\ log'[i] = log[i])
      BY <1>2, <1>i, <3>1, StoredPlain DEF TypeOK, Inv, Reading
    <3>3. \A c \in pending : callPos[c] # msgSeq
      <4>1. \A c \in pending : callPos[c] <= msgSeq - 1 /\ callPos[c] \in Nat
        BY <1>s, <1>2 DEF Below, TypeOK, TypeCalls
      <4> QED BY <1>i, <4>1
    <3>4. UNCHANGED <<pending, callPos>> => Apart'
      BY <3>2, <3>3 DEF Reading, Apart
    <3> QED BY <3>2, <3>4
  <2>2. CASE ~ok
    <3>1. log' = log /\ Top(msgSeq)  BY <1>2, <1>s, <1>g, <2>2 DEF Below
    <3> QED BY <3>1 DEF Reading, Stored, UniquePositions, Ascending, Apart, Top
  <2> QED BY <2>1, <2>2
<1>r. ASSUME NEW k \in {"user", "thinking", "final"}, NEW s, AtSite(s)
      PROVE  /\ PlainRow(k, {}, 0) \in Row /\ PlainRow(k, thinkBuf, thinkSig) \in Row
             /\ PlainRow(k, {}, 0).kind = k /\ PlainRow(k, thinkBuf, thinkSig).kind = k
             /\ PlainRow(k, {}, 0).pos = msgSeq /\ PlainRow(k, thinkBuf, thinkSig).pos = msgSeq
  <2>1. PlainRow(k, {}, 0) \in Row /\ PlainRow(k, thinkBuf, thinkSig) \in Row
    BY <1>r, PlainRowType DEF TypeOK, Kinds
  <2>2. pos = msgSeq  BY <1>r, <1>s
  <2> QED BY <2>1, <2>2 DEF PlainRow, MkRow
<1>3. ASSUME NEW ok \in BOOLEAN, StoreUser(ok) PROVE Reading'
  <2>1. AtSite("user") /\ log' = IF ok THEN Append(log, PlainRow("user", {}, 0)) ELSE log
    BY <1>3 DEF StoreUser
  <2> DEFINE r == PlainRow("user", {}, 0)
  <2>2. r \in Row /\ r.kind \notin {"call", "result"} /\ r.pos = msgSeq
    BY <1>r, <2>1
  <2> HIDE DEF r
  <2>3. /\ Stored' /\ \A i \in DOMAIN log' : log'[i].pos <= msgSeq
        /\ UNCHANGED <<pending, callPos>> => Apart'
    BY <1>2, <2>1, <2>2 DEF r
  <2>4. CASE ok
    <3>1. /\ UNCHANGED <<pending, callPos, msgSeq>>
          /\ todo' = << >> /\ pc'[Runner] = "events"
      BY <1>3, <1>p, <2>4 DEF StoreUser, Goto, calls, bufs, world
    <3>2. \A c \in pending : callPos[c] <= msgSeq  BY <1>g, <1>s, <2>1 DEF Below
    <3>3. Counter'  BY <2>3, <3>1, <3>2 DEF Counter, Below, Top, InTurn
    <3>4. Resting'  BY <1>s, <2>1, <3>1 DEF Resting
    <3> QED BY <2>3, <3>1, <3>3, <3>4 DEF Reading
  <2>5. CASE ~ok
    BY <1>3, <2>3, <2>5, ReadReturn DEF StoreUser
  <2> QED BY <2>4, <2>5
<1>4. ASSUME NEW ok \in BOOLEAN, StoreThinking(ok) PROVE Reading'
  <2> DEFINE r == PlainRow("thinking", thinkBuf, thinkSig)
  <2>1. AtSite("thinking") /\ log' = IF ok THEN Append(log, r) ELSE log
    BY <1>4 DEF StoreThinking
  <2>2. r \in Row /\ r.kind \notin {"call", "result"} /\ r.pos = msgSeq
    BY <1>r, <2>1
  <2> HIDE DEF r
  <2>3. /\ Stored' /\ \A i \in DOMAIN log' : log'[i].pos <= msgSeq
        /\ UNCHANGED <<pending, callPos>> => Apart'
    BY <1>2, <2>1, <2>2
  <2>4. /\ UNCHANGED <<pending, callPos, msgSeq>> /\ todo' = Tail(todo)
        /\ pc'[Runner] = IF Tail(todo) = << >> THEN "events" ELSE "add"
    BY <1>4, <1>p DEF StoreThinking, Goto, calls, world
  <2>5. \A c \in pending : callPos[c] <= msgSeq  BY <1>g, <1>s, <2>1 DEF Below
  <2>6. Counter'  BY <2>3, <2>4, <2>5 DEF Counter, Below, Top, InTurn
  <2>7. Resting'  BY <2>4 DEF Resting
  <2> QED BY <2>3, <2>4, <2>6, <2>7 DEF Reading
<1>5. ASSUME NEW ok \in BOOLEAN, StoreFinal(ok) PROVE Reading'
  <2> DEFINE r == PlainRow("final", thinkBuf, thinkSig)
  <2>1. AtSite("final") /\ log' = IF ok THEN Append(log, r) ELSE log
    BY <1>5 DEF StoreFinal
  <2>2. r \in Row /\ r.kind \notin {"call", "result"} /\ r.pos = msgSeq
    BY <1>r, <2>1
  <2> HIDE DEF r
  <2>3. Stored'  BY <1>2, <2>1, <2>2
  <2> QED BY <1>5, <2>3, ReadReturn DEF StoreFinal
<1>6. ASSUME NEW e \in {"ok", "IsError"}, NEW c \in pending, NEW s, AtSite(s), s # "thinking",
             log' = log \o PairRows(c, e), pending' = pending \ {c},
             UNCHANGED <<msgSeq, callPos>>,
             todo' = Tail(todo), pc'[Runner] \in {"events", "flush"}
      PROVE  Reading'
  <2>1. /\ Stored' /\ \A i \in DOMAIN log' : log'[i].pos <= msgSeq
        /\ \A i \in DOMAIN log' :
              log'[i].pos \in {callPos[c], msgSeq} \/ (i \in DOMAIN log /\ log'[i] = log[i])
    BY <1>6, <1>s, StoredPair DEF Reading, Inv
  <2>2. \A d \in pending : callPos[d] <= msgSeq /\ callPos[d] # msgSeq
    <3>1. \A d \in pending : callPos[d] \in Nat /\ callPos[d] <= msgSeq - 1
      BY <1>s, <1>6 DEF Below, TypeOK, TypeCalls
    <3> QED BY <1>i, <3>1
  <2>3. Counter'  BY <1>6, <2>1, <2>2 DEF Counter, Below, Top, InTurn
  <2>4. Apart'  BY <1>6, <2>1, <2>2 DEF Reading, Apart
  <2>5. Resting'  BY <1>s, <1>6 DEF Resting
  <2> QED BY <2>1, <2>3, <2>4, <2>5 DEF Reading
<1>7. ASSUME NEW s, AtSite(s), s # "thinking",
             UNCHANGED <<log, pending, msgSeq, callPos>>,
             todo' = Tail(todo), pc'[Runner] \in {"events", "flush"}
      PROVE  Reading'
  <2>1. Apart' /\ Stored'  BY <1>7, SameRows
  <2>2. Counter'  BY <1>7, <1>g, <1>s DEF Counter, Below, Top, InTurn
  <2>3. Resting'  BY <1>s, <1>7 DEF Resting
  <2> QED BY <2>1, <2>2, <2>3 DEF Reading
<1>8. ASSUME NEW ok \in BOOLEAN, StoreResult(ok) PROVE Reading'
  <2>1. /\ AtSite("result") /\ todo' = Tail(todo) /\ pc'[Runner] = "events"
        /\ UNCHANGED <<msgSeq, callPos>>
    BY <1>8, <1>p DEF StoreResult, Goto, bufs
  <2>2. CASE Head(todo).call \in pending /\ ok
    BY <1>8, <1>6, <2>1, <2>2 DEF StoreResult
  <2>3. CASE ~(Head(todo).call \in pending /\ ok)
    BY <1>8, <1>7, <2>1, <2>3 DEF StoreResult
  <2> QED BY <2>2, <2>3
<1>9. ASSUME NEW ok \in BOOLEAN, StoreFlush(ok) PROVE Reading'
  <2>1. /\ AtSite("flush") /\ todo' = Tail(todo) /\ pc'[Runner] = "flush"
        /\ UNCHANGED <<msgSeq, callPos>>
    BY <1>9, <1>p DEF StoreFlush, Goto, bufs
  <2>2. Head(todo).call \in pending
    <3>1. 1 \in DOMAIN todo /\ todo[1].site = "flush" /\ Head(todo).call = todo[1].call
      BY <2>1, LastItem DEF AtSite, TypeOK, TypeBuild
    <3> QED BY <3>1 DEF Inv, Queue
  <2>3. CASE ok  BY <1>9, <1>6, <2>1, <2>2, <2>3 DEF StoreFlush
  <2>4. CASE ~ok  BY <1>9, <1>7, <2>1, <2>4 DEF StoreFlush
  <2> QED BY <2>3, <2>4
<1> QED BY <1>1, <1>3, <1>4, <1>5, <1>8, <1>9 DEF Store

\* Every other step of the runner leaves rows and buffered positions alone, or
\* forgets the turn.
LEMMA ReadStep ==
    ASSUME TypeOK, Inv, Reading, [Next]_vars, Writers = {}, ~ReadsFail
    PROVE  Reading'
<1>p. DOMAIN pc = Procs /\ Procs = {Runner}  BY DEF TypeOK, TypeSync, Procs
<1>i. msgSeq \in Nat  BY DEF TypeOK, TypeSync
<1>t. pc[Runner] \in {"idle", "sync", "seeded", "events", "flush"} => todo = << >>
  BY DEF Reading, Resting
<1>1. CASE Begin
  <2>1. UNCHANGED <<log, pending, callPos, todo>>
    BY <1>1 DEF Begin, build, calls, bufs
  <2>2. pc[Runner] = "idle" /\ pc'[Runner] = "sync"  BY <1>1, <1>p DEF Begin, Goto
  <2>3. pending = {}  BY <2>2 DEF Reading, Counter, InTurn
  <2>4. Counter'  BY <2>1, <2>2, <2>3 DEF Counter
  <2>5. Resting'  BY <1>t, <2>1, <2>2 DEF Resting, Reading
  <2> QED BY <2>1, <2>4, <2>5, SameRows DEF Reading
<1>2. CASE MintTurn
  <2>1. /\ UNCHANGED <<log, pending, callPos, msgSeq>>
        /\ pc[Runner] = "seeded"
        /\ \/ pc'[Runner] = "add"
           \/ pc'[Runner] = "events" /\ todo' = << >>
    BY <1>2, <1>p DEF MintTurn, calls, bufs, Goto
  <2>2. Below(msgSeq)  BY <2>1, CounterAt
  <2>3. Counter'  BY <2>1, <2>2 DEF Counter, Below, Top, InTurn
  <2>4. Resting'  BY <1>t, <2>1 DEF Resting
  <2> QED BY <2>1, <2>3, <2>4, SameRows DEF Reading
<1>3. CASE MintID
  <2>1. /\ UNCHANGED <<log, pending, callPos, todo>>
        /\ msgSeq' = msgSeq + 1 /\ pc[Runner] = "add" /\ pc'[Runner] = "load"
    BY <1>3, <1>p DEF MintID, volatile, world, build, calls, bufs, Goto
  <2>2. Below(msgSeq) /\ msgSeq' - 1 = msgSeq  BY <2>1, <1>i DEF Reading, Counter
  <2>3. Below(msgSeq - 1)'  BY <2>1, <2>2 DEF Below, Top
  <2>4. Counter'  BY <2>1, <2>3 DEF Counter, InTurn
  <2>5. Resting'  BY <2>1 DEF Resting, Reading
  <2> QED BY <2>1, <2>4, <2>5, SameRows DEF Reading
<1>4. CASE LoadPosition
  <2>1. /\ UNCHANGED <<log, pending, callPos, todo, msgSeq>>
        /\ pos' = msgSeq /\ pc[Runner] = "load" /\ pc'[Runner] = "write"
    BY <1>4, <1>p DEF LoadPosition, world, calls, bufs, Goto
  <2>2. Below(msgSeq - 1)  BY <2>1 DEF Reading, Counter
  <2>3. Counter'  BY <2>1, <2>2 DEF Counter, Below, Top, InTurn
  <2>4. Resting'  BY <2>1 DEF Resting, Reading
  <2> QED BY <2>1, <2>3, <2>4, SameRows DEF Reading
<1>5. ASSUME pc[Runner] \in {"events", "flush"}, pc'[Runner] \in {"add", "events", "flush"},
             UNCHANGED <<log, pending, callPos, msgSeq>>,
             pc'[Runner] # "add" => todo' = << >>
      PROVE  Reading'
  <2>1. Below(msgSeq)  BY <1>5 DEF Reading, Counter
  <2>2. Counter'  BY <1>5, <2>1 DEF Counter, Below, Top, InTurn
  <2>3. Resting'  BY <1>5 DEF Resting
  <2> QED BY <1>5, <2>2, <2>3, SameRows DEF Reading
<1>6. CASE Event
  <2>e. AtEvent => pc[Runner] = "events" /\ todo = << >>
    BY <1>t DEF AtEvent
  <2>1. ASSUME NEW c \in Calls, EvCall(c) \/ EvResult(c) PROVE Reading'
    <3>1. /\ AtEvent /\ UNCHANGED <<log, pending, callPos, msgSeq>>
          /\ UNCHANGED <<pc, todo>> \/ pc'[Runner] = "add"
      BY <2>1, <1>p DEF EvCall, EvResult, calls, Goto
    <3> QED BY <3>1, <2>e, <1>5
  <2>2. CASE EvEmptyID
    <3>1. Return("error") /\ log' = log  BY <2>2 DEF EvEmptyID
    <3>2. Stored'  BY <3>1 DEF Reading, Stored, UniquePositions, Ascending
    <3> QED BY <3>1, <3>2, ReadReturn
  <2>3. CASE EvText \/ EvError \/ EvBlockEnds
    <3>1. AtEvent /\ UNCHANGED <<log, pending, callPos, msgSeq, todo, pc>>
      BY <2>3 DEF EvText, EvError, EvBlockEnds, volatile, build, calls
    <3> QED BY <3>1, <2>e, <1>5
  <2>4. ASSUME NEW t \in BOOLEAN, NEW s \in BOOLEAN, EvThinking(t, s) PROVE Reading'
    <3>1. /\ AtEvent /\ UNCHANGED <<log, pending, callPos, msgSeq>>
          /\ UNCHANGED <<pc, todo>> \/ pc'[Runner] = "add"
      BY <2>4, <1>p DEF EvThinking, calls, Goto
    <3> QED BY <3>1, <2>e, <1>5
  <2> QED BY <1>6, <2>1, <2>2, <2>3, <2>4 DEF Event
<1>7. CASE StreamEnd \/ FlushNext
  <2>1. /\ pc[Runner] \in {"events", "flush"} /\ UNCHANGED <<log, pending, callPos, msgSeq>>
        /\ pc'[Runner] = "add" \/ (pc'[Runner] = "flush" /\ todo' = todo)
    BY <1>7, <1>p DEF StreamEnd, FlushNext, volatile, build, calls, bufs, world, Goto
  <2> QED BY <1>t, <2>1, <1>5
<1>8. CASE Conclude
  <2>1. CASE flushErr = "nil" /\ (thinkBuf # {} \/ textBuf # "empty")
    <3>1. /\ pc[Runner] = "flush" /\ UNCHANGED <<log, pending, callPos, msgSeq>>
          /\ pc'[Runner] = "add"
      BY <1>8, <2>1, <1>p DEF Conclude, calls, bufs, world, Goto
    <3> QED BY <3>1, <1>5
  <2>2. CASE ~(flushErr = "nil" /\ (thinkBuf # {} \/ textBuf # "empty"))
    <3>1. log' = log /\ \E o : Return(o)  BY <1>8, <2>2 DEF Conclude
    <3>2. Stored'  BY <3>1 DEF Reading, Stored, UniquePositions, Ascending
    <3> QED BY <3>1, <3>2, ReadReturn
  <2> QED BY <2>1, <2>2
<1>9. CASE CancelTurn \/ UNCHANGED vars
  <2>1. UNCHANGED <<log, pending, callPos, msgSeq, high, pos, pc, todo>>
    BY <1>9 DEF CancelTurn, vars, volatile, build, calls, bufs, world
  <2>2. Counter'  BY <2>1 DEF Reading, Counter, Below, Top, InTurn
  <2>3. Resting'  BY <2>1 DEF Reading, Resting
  <2> QED BY <2>1, <2>2, <2>3, SameRows DEF Reading
<1>10. CASE Crash
  <2>1. /\ log' = log /\ pending' = {} /\ todo' = << >> /\ pc'[Runner] = "idle"
    BY <1>10, <1>p DEF Crash
  <2>2. Counter' /\ Apart'  BY <2>1 DEF Counter, Apart
  <2>3. Resting'  BY <2>1 DEF Resting
  <2>4. Stored'  BY <2>1 DEF Reading, Stored, UniquePositions, Ascending
  <2> QED BY <2>2, <2>3, <2>4 DEF Reading
<1> QED
  BY <1>1, <1>2, <1>3, <1>4, <1>6, <1>7, <1>8, <1>9, <1>10, ReadSync, ReadStore
  DEF Next, RunnerStep

LEMMA ReadInit == Init => Reading
<1> SUFFICES ASSUME Init PROVE Reading  OBVIOUS
<1>1. DOMAIN log = {} /\ pending = {} /\ pc[Runner] = "idle"  BY DEF Init, Procs
<1>2. Counter /\ Apart  BY <1>1 DEF Counter, Apart
<1>3. Resting  BY <1>1 DEF Init, Resting
<1>4. Stored  BY <1>1 DEF Stored, UniquePositions, Ascending
<1> QED BY <1>2, <1>3, <1>4 DEF Reading

-----------------------------------------------------------------------------
(* Which text a stored signature stands with.                              *)

\* The places from which the buffer may be stored before more text can come.
Over ==
    \/ pc[Runner] = "flush"
    \/ todo # << >> /\ Head(todo).site \in {"thinking", "flush", "final"}

\* A signature flushes the buffer at once, so at any other moment the buffer is
\* unsigned; what is stored from it is text of blocks that are over.
Buffer ==
    /\ Signed(thinkBuf, thinkSig)
    /\ \A b \in thinkBuf : b <= block
    /\ thinkSig # 0 => todo # << >> /\ Head(todo).site = "thinking"
    /\ Over => \A b \in thinkBuf : b < block

\* Stored text is of blocks that are over, so no later signature is for it.
Past ==
    /\ \A i \in DOMAIN log : \A b \in log[i].text : b < block
    /\ \A b \in sealed : b < block

Telling == SignatureBinds /\ Past /\ Buffer

\* Every row the step adds could have been stored earlier.
RowsTold ==
    \A i \in DOMAIN log' :
        \/ i \in DOMAIN log /\ log'[i] = log[i]
        \/ Signed(log'[i].text, log'[i].sig) /\ \A b \in log'[i].text : b < block

LEMMA BlockNumbers ==
    ASSUME TypeOK
    PROVE  /\ block \in Nat /\ NextBlock \in Nat /\ block <= NextBlock
           /\ thinkBuf \subseteq Nat /\ sealed \subseteq Nat
           /\ \A i \in DOMAIN log : log[i].text \subseteq Nat
<1>1. Blocks \subseteq Nat  BY ConstantsAssumption DEF Blocks
<1>2. block \in Nat /\ thinkBuf \subseteq Nat /\ sealed \subseteq Nat
  BY <1>1 DEF TypeOK, TypeWorld, TypeBufs
<1>3. \A i \in DOMAIN log : log[i] \in Row  BY DEF TypeOK, TypeLog
<1>4. \A i \in DOMAIN log : log[i].text \subseteq Nat  BY <1>1, <1>3 DEF Row
<1>5. NextBlock \in Nat /\ block <= NextBlock  BY <1>2 DEF NextBlock
<1> QED BY <1>2, <1>4, <1>5

\* Once the provider's block is over, the whole buffer is of blocks that are.
LEMMA BlockOver ==
    ASSUME TypeOK, Telling
    PROVE  \A b \in thinkBuf : b < NextBlock
  BY BlockNumbers DEF Telling, Buffer, NextBlock

\* The stored part of Telling, over a step that signs nothing.
LEMMA TellRows ==
    ASSUME TypeOK, TypeOK', Telling, RowsTold, sealed' = sealed, block' \in {block, NextBlock}
    PROVE  SignatureBinds' /\ Past'
<1>1. block' \in Nat /\ \A b \in Nat : b < block => b < block'
  BY BlockNumbers
<1>2. \A i \in DOMAIN log' : log'[i].text \subseteq Nat
  <2>1. Blocks \subseteq Nat  BY ConstantsAssumption DEF Blocks
  <2>2. \A i \in DOMAIN log' : log'[i] \in Row  BY DEF TypeOK, TypeLog
  <2> QED BY <2>1, <2>2 DEF Row
<1>3. ASSUME NEW i \in DOMAIN log'
      PROVE  Signed(log[i].text, log[i].sig)' /\ \A b \in log'[i].text : b < block'
  <2>1. Signed(log'[i].text, log'[i].sig) /\ \A b \in log'[i].text : b < block
    BY <1>3 DEF RowsTold, Telling, SignatureBinds, Past
  <2>2. Signed(log[i].text, log[i].sig)'  BY <2>1 DEF Signed
  <2> QED BY <1>1, <1>2, <1>3, <2>1, <2>2
<1>4. \A b \in sealed' : b < block'  BY <1>1, BlockNumbers DEF Telling, Past
<1> QED BY <1>3, <1>4 DEF SignatureBinds, Past

\* A step outside the stream.
LEMMA TellQuiet ==
    ASSUME TypeOK, TypeOK', Telling, RowsTold, UNCHANGED <<thinkBuf, thinkSig, stream>>,
           Over' => Over, thinkSig # 0 => todo' = todo
    PROVE  Telling'
<1>1. UNCHANGED <<block, sealed>>  BY DEF stream
<1>2. Buffer'  BY <1>1 DEF Telling, Buffer, Signed
<1> QED BY <1>1, <1>2, TellRows DEF Telling

\* A step that empties the buffer.
LEMMA TellEmpty ==
    ASSUME TypeOK, TypeOK', Telling, RowsTold, sealed' = sealed, block' \in {block, NextBlock},
           thinkBuf' = {}, thinkSig' = 0
    PROVE  Telling'
<1>1. Buffer'  BY DEF Buffer, Signed
<1> QED BY <1>1, TellRows DEF Telling

\* The provider's block ends without a signature.
LEMMA TellOver ==
    ASSUME TypeOK, TypeOK', Telling, UNCHANGED <<log, thinkBuf, thinkSig, sealed>>,
           block' = NextBlock, thinkSig # 0 => todo' = todo
    PROVE  Telling'
<1>1. RowsTold  BY DEF RowsTold
<1>2. /\ thinkSig # 0 => todo # << >> /\ Head(todo).site = "thinking"
      /\ Signed(thinkBuf, thinkSig)
  BY DEF Telling, Buffer
<1>3. \A b \in thinkBuf' : b < block'  BY BlockOver
<1>4. \A b \in thinkBuf' : b <= block'  BY <1>3, BlockNumbers
<1>5. Signed(thinkBuf, thinkSig)'  BY <1>2 DEF Signed
<1>6. Buffer'  BY <1>2, <1>3, <1>4, <1>5 DEF Buffer
<1> QED BY <1>1, <1>6, TellRows DEF Telling

\* A row that is added at the end.
LEMMA TellAppend ==
    ASSUME TypeOK, NEW r \in Row, log' = log \/ log' = Append(log, r),
           Signed(r.text, r.sig), \A b \in r.text : b < block
    PROVE  RowsTold
<1>1. CASE log' = log  BY <1>1 DEF RowsTold
<1>2. CASE log' = Append(log, r)
  <2>1. \A i \in DOMAIN log' : (i \in DOMAIN log /\ log'[i] = log[i]) \/ log'[i] = r
    BY <1>2 DEF TypeOK, TypeLog
  <2> QED BY <2>1 DEF RowsTold
<1> QED BY <1>1, <1>2

\* A call and its result carry no thinking.
LEMMA TellPair ==
    ASSUME TypeOK, NEW c \in Calls, NEW e \in {"ok", "IsError"}, log' = log \o PairRows(c, e)
    PROVE  RowsTold
<1> DEFINE call   == MkRow("call", c, turn, callPos[c], "ok", {}, 0)
           result == MkRow("result", c, turn, pos, e, {}, 0)
<1>1. call \in Row /\ result \in Row
  BY RowType DEF TypeOK, TypeTurn, TypeBuild, TypeCalls, Kinds
<1>2. call.text = {} /\ call.sig = 0 /\ result.text = {} /\ result.sig = 0
  BY DEF MkRow
<1>3. log' = log \o <<call, result>>  BY DEF PairRows
<1> HIDE DEF call, result
<1>4. \A i \in DOMAIN log' : (i \in DOMAIN log /\ log'[i] = log[i]) \/ log'[i] = call \/ log'[i] = result
  <2>1. /\ DOMAIN log = 1 .. Len(log) /\ DOMAIN log' = 1 .. Len(log) + 2 /\ Len(log) \in Nat
        /\ \A i \in DOMAIN log : log'[i] = log[i]
        /\ log'[Len(log) + 1] = call /\ log'[Len(log) + 2] = result
    BY <1>1, <1>3 DEF TypeOK, TypeLog
  <2>2. \A i \in DOMAIN log' : i \in DOMAIN log \/ i = Len(log) + 1 \/ i = Len(log) + 2
    BY <2>1
  <2> QED BY <2>1, <2>2
<1> QED BY <1>2, <1>4 DEF RowsTold, Signed

LEMMA TellStore ==
    ASSUME TypeOK, TypeOK', Inv, Telling, Store
    PROVE  Telling'
<1>p. DOMAIN pc = Procs /\ Runner \in Procs  BY DEF TypeOK, TypeSync, Procs
<1>n. UNCHANGED log => RowsTold  BY DEF RowsTold
<1>u. \A s : AtSite(s) /\ s # "thinking" => thinkSig = 0 /\ Tail(todo) = << >>
  <2> SUFFICES ASSUME NEW s, AtSite(s), s # "thinking" PROVE thinkSig = 0 /\ Tail(todo) = << >>
    OBVIOUS
  <2>1. Tail(todo) = << >>  BY LastItem DEF AtSite
  <2>2. thinkSig = 0  BY DEF AtSite, Telling, Buffer
  <2> QED BY <2>1, <2>2
<1>v. ASSUME NEW s, AtSite(s), s \in {"thinking", "final"}
      PROVE  Signed(thinkBuf, thinkSig) /\ \A b \in thinkBuf : b < block
  BY <1>v DEF AtSite, Telling, Buffer, Over
<1>1. CASE BufferCall
  <2>1. AtSite("call") /\ UNCHANGED <<log, thinkBuf, thinkSig, stream>> /\ pc'[Runner] = "events" /\ todo' = Tail(todo)
    BY <1>1, <1>p DEF BufferCall, bufs, Goto
  <2>2. ~Over' /\ thinkSig = 0  BY <1>u, <2>1 DEF Over
  <2> QED BY <1>n, <2>1, <2>2, TellQuiet
<1>2. ASSUME NEW ok \in BOOLEAN, StoreUser(ok) PROVE Telling'
  <2> DEFINE r == PlainRow("user", {}, 0)
  <2>1. r \in Row /\ r.text = {} /\ r.sig = 0
    BY PlainRowType DEF TypeOK, Kinds, PlainRow, MkRow
  <2>2. AtSite("user") /\ (log' = log \/ log' = Append(log, r))
    BY <1>2 DEF StoreUser
  <2> HIDE DEF r
  <2>3. RowsTold  BY <2>1, <2>2, TellAppend DEF Signed
  <2>4. CASE ok
    <3>1. UNCHANGED <<thinkBuf, thinkSig, stream>> /\ pc'[Runner] = "events" /\ todo' = << >>
      BY <1>2, <1>p, <2>4 DEF StoreUser, bufs, Goto, world
    <3>2. ~Over' /\ thinkSig = 0  BY <1>u, <2>2, <3>1 DEF Over
    <3> QED BY <2>3, <3>1, <3>2, TellQuiet
  <2>5. CASE ~ok
    <3>1. thinkBuf' = {} /\ thinkSig' = 0 /\ UNCHANGED <<block, sealed>>
      BY <1>2, <2>5 DEF StoreUser, Return, world, stream
    <3> QED BY <2>3, <3>1, TellEmpty
  <2> QED BY <2>4, <2>5
<1>3. ASSUME NEW k \in {"thinking", "final"}, AtSite(k),
             log' = log \/ log' = Append(log, PlainRow(k, thinkBuf, thinkSig)),
             thinkBuf' = {}, thinkSig' = 0, UNCHANGED stream
      PROVE  Telling'
  <2> DEFINE r == PlainRow(k, thinkBuf, thinkSig)
  <2>1. r \in Row /\ r.text = thinkBuf /\ r.sig = thinkSig
    BY PlainRowType DEF TypeOK, Kinds, PlainRow, MkRow
  <2>2. log' = log \/ log' = Append(log, r)  BY <1>3
  <2> HIDE DEF r
  <2>3. RowsTold  BY <1>3, <1>v, <2>1, <2>2, TellAppend
  <2> QED BY <1>3, <2>3, TellEmpty DEF stream
<1>4. ASSUME NEW ok \in BOOLEAN, StoreThinking(ok) PROVE Telling'
  BY <1>3, <1>4 DEF StoreThinking, world
<1>5. ASSUME NEW ok \in BOOLEAN, StoreFinal(ok) PROVE Telling'
  BY <1>3, <1>5 DEF StoreFinal, Return, world
<1>6. ASSUME NEW ok \in BOOLEAN, StoreResult(ok) PROVE Telling'
  <2>1. /\ AtSite("result") /\ todo' = Tail(todo) /\ pc'[Runner] = "events"
        /\ UNCHANGED <<thinkBuf, thinkSig, stream>>
        /\ log' = log \/ log' = log \o PairRows(Head(todo).call, "ok")
    BY <1>6, <1>p DEF StoreResult, bufs, Goto
  <2>2. Head(todo).call \in Calls  BY <2>1, HeadType DEF TypeOK
  <2>3. RowsTold  BY <1>n, <2>1, <2>2, TellPair
  <2>4. ~Over' /\ thinkSig = 0  BY <1>u, <2>1 DEF Over
  <2> QED BY <2>1, <2>3, <2>4, TellQuiet
<1>7. ASSUME NEW ok \in BOOLEAN, StoreFlush(ok) PROVE Telling'
  <2>1. /\ AtSite("flush") /\ todo' = Tail(todo)
        /\ UNCHANGED <<thinkBuf, thinkSig, stream>>
        /\ log' = log \/ log' = log \o PairRows(Head(todo).call, "IsError")
    BY <1>7 DEF StoreFlush, bufs
  <2>2. Head(todo).call \in Calls  BY <2>1, HeadType DEF TypeOK
  <2>3. RowsTold  BY <1>n, <2>1, <2>2, TellPair
  <2>4. Over /\ thinkSig = 0  BY <1>u, <2>1 DEF Over, AtSite
  <2> QED BY <2>1, <2>3, <2>4, TellQuiet
<1> QED BY <1>1, <1>2, <1>4, <1>5, <1>6, <1>7 DEF Store

LEMMA TellEvent ==
    ASSUME TypeOK, TypeOK', Resting, Telling, Event, ~ZeroTextBlocks
    PROVE  Telling'
<1>p. DOMAIN pc = Procs /\ Runner \in Procs  BY DEF TypeOK, TypeSync, Procs
<1>n. UNCHANGED log => RowsTold  BY DEF RowsTold
<1>e. AtEvent => pc[Runner] = "events" /\ todo = << >> /\ thinkSig = 0
  BY DEF AtEvent, Resting, Telling, Buffer
<1>1. ASSUME NEW c \in Calls, EvCall(c) PROVE Telling'
  <2>1. /\ AtEvent /\ UNCHANGED <<log, thinkBuf, thinkSig, sealed>>
        /\ UNCHANGED <<pc, todo, block>> \/ block' = NextBlock
    BY <1>1 DEF EvCall, bufs
  <2>2. CASE UNCHANGED <<pc, todo, block>>
    BY <1>n, <2>1, <2>2, TellQuiet DEF Over, stream
  <2>3. CASE block' = NextBlock
    BY <1>e, <2>1, <2>3, TellOver
  <2> QED BY <2>1, <2>2, <2>3
<1>2. ASSUME NEW c \in Calls, EvResult(c) PROVE Telling'
  <2>1. /\ AtEvent /\ UNCHANGED <<log, thinkBuf, thinkSig, stream>> /\ pc'[Runner] = "add"
        /\ todo' = <<Site("result", c)>>
    BY <1>2, <1>p DEF EvResult, bufs, world, Goto
  <2>2. ~Over'  BY <2>1 DEF Over, Site
  <2> QED BY <1>e, <1>n, <2>1, <2>2, TellQuiet
<1>3. CASE EvEmptyID
  <2>1. UNCHANGED <<log, sealed>> /\ block' = NextBlock /\ thinkBuf' = {} /\ thinkSig' = 0
    BY <1>3 DEF EvEmptyID, Return
  <2> QED BY <1>n, <2>1, TellEmpty
<1>4. CASE EvText \/ EvError
  <2>1. UNCHANGED <<log, thinkBuf, thinkSig, stream, pc, todo>>
    BY <1>4 DEF EvText, EvError, build, bufs, world
  <2> QED BY <1>n, <2>1, TellQuiet DEF Over
<1>5. CASE EvBlockEnds
  <2>1. UNCHANGED <<log, thinkBuf, thinkSig, sealed, todo>> /\ block' = NextBlock
    BY <1>5 DEF EvBlockEnds, volatile, build, bufs
  <2> QED BY <2>1, TellOver
<1>6. ASSUME NEW t \in BOOLEAN, NEW s \in BOOLEAN, EvThinking(t, s) PROVE Telling'
  <2>1. /\ AtEvent /\ UNCHANGED log
        /\ thinkBuf' = IF t THEN thinkBuf \cup {block} ELSE thinkBuf
        /\ t \/ block \in thinkBuf
    BY <1>6 DEF EvThinking
  <2>2. thinkBuf' = thinkBuf \cup {block}  BY <2>1
  <2>3. /\ block \in Nat /\ thinkBuf \subseteq Nat /\ sealed \subseteq Nat /\ block # 0
        /\ \A i \in DOMAIN log : log[i].text \subseteq Nat
    BY BlockNumbers DEF TypeOK, TypeWorld
  <2>4. /\ \A b \in thinkBuf : b <= block /\ b \notin sealed
        /\ \A b \in sealed : b < block
    <3>1. \A b \in thinkBuf : b \in sealed => b = thinkSig  BY DEF Telling, Buffer, Signed
    <3>2. 0 \notin thinkBuf
      BY ConstantsAssumption DEF TypeOK, TypeBufs, Blocks
    <3> QED BY <1>e, <2>1, <3>1, <3>2 DEF Telling, Buffer, Past
  <2>5. CASE s
    <3>1. /\ thinkSig' = block /\ block' = block + 1 /\ sealed' = sealed \cup {block}
          /\ todo' = <<Site("thinking", NoCall)>>
      BY <1>6, <2>2, <2>5 DEF EvThinking
    <3>2. \A b \in Nat : b <= block => b < block + 1  BY <2>3
    <3>3. Signed(thinkBuf, thinkSig)'  BY <2>2, <2>3, <2>4, <3>1 DEF Signed
    <3>4. \A b \in thinkBuf' : b < block'  BY <2>2, <2>3, <2>4, <3>1, <3>2
    <3>5. \A b \in thinkBuf' : b <= block'
      BY <2>2, <2>3, <2>4, <3>1
    <3>6. todo' # << >> /\ Head(todo').site = "thinking"  BY <3>1 DEF Site
    <3>7. Buffer'  BY <3>3, <3>4, <3>5, <3>6 DEF Buffer
    <3>8. Past'
      <4>1. \A i \in DOMAIN log' : \A b \in log'[i].text : b < block'
        BY <2>1, <2>3, <3>1, <3>2 DEF Telling, Past
      <4>2. \A b \in sealed' : b < block'  BY <2>3, <2>4, <3>1, <3>2
      <4> QED BY <4>1, <4>2 DEF Past
    <3>9. SignatureBinds'
      <4> SUFFICES ASSUME NEW i \in DOMAIN log PROVE Signed(log[i].text, log[i].sig)'
        BY <2>1 DEF SignatureBinds
      <4>1. Signed(log[i].text, log[i].sig)  BY DEF Telling, SignatureBinds
      <4>2. \A b \in log[i].text : b < block /\ b \in Nat  BY <2>3 DEF Telling, Past
      <4>3. block \notin log[i].text  BY <2>3, <4>2
      <4> QED BY <2>1, <3>1, <4>1, <4>3 DEF Signed
    <3> QED BY <3>7, <3>8, <3>9 DEF Telling
  <2>6. CASE ~s
    <3>1. UNCHANGED <<thinkSig, block, sealed, pc, todo>>
      BY <1>6, <2>6 DEF EvThinking, stream
    <3>2. ~Over' /\ thinkSig' = 0  BY <1>e, <2>1, <3>1 DEF Over
    <3>3. Signed(thinkBuf, thinkSig)'
      <4>1. \A b \in thinkBuf' : b \notin sealed'  BY <2>2, <2>3, <2>4, <3>1
      <4> QED BY <3>2, <4>1 DEF Signed
    <3>4. \A b \in thinkBuf' : b <= block'  BY <2>2, <2>3, <2>4, <3>1
    <3>5. Buffer'  BY <3>2, <3>3, <3>4 DEF Buffer
    <3> QED BY <1>n, <2>1, <3>1, <3>5, TellRows DEF Telling
  <2> QED BY <2>5, <2>6
<1> QED BY <1>1, <1>2, <1>3, <1>4, <1>5, <1>6 DEF Event

LEMMA TellStep ==
    ASSUME TypeOK, TypeOK', Inv, Resting, Telling, [Next]_vars, ~ZeroTextBlocks
    PROVE  Telling'
<1>p. DOMAIN pc = Procs /\ Runner \in Procs /\ Runner \notin Writers /\ Writers \subseteq Procs
  BY ConstantsAssumption DEF TypeOK, TypeSync, Procs
<1>n. UNCHANGED log => RowsTold  BY DEF RowsTold
<1>t. pc[Runner] \in {"idle", "sync", "seeded", "events", "flush"} => todo = << >> /\ thinkSig = 0
  BY DEF Resting, Telling, Buffer
<1>1. ASSUME NEW p \in Procs, Sync(p) PROVE Telling'
  <2>1. UNCHANGED <<log, thinkBuf, thinkSig, stream, todo>>
    BY <1>1 DEF Sync, SyncRead, SyncCompare, SyncStore, volatile, build, bufs, world
  <2>2. pc'[Runner] = "flush" => pc[Runner] = "flush"
    BY <1>1, <1>p DEF Sync, SyncRead, SyncCompare, SyncStore, Goto
  <2> QED BY <1>n, <2>1, <2>2, TellQuiet DEF Over
<1>2. CASE Begin \/ MintID \/ LoadPosition
  <2>1. UNCHANGED <<log, thinkBuf, thinkSig, stream, todo>>
    BY <1>2 DEF Begin, MintID, LoadPosition, volatile, build, bufs, world
  <2>2. pc'[Runner] # "flush"
    BY <1>2, <1>p DEF Begin, MintID, LoadPosition, Goto
  <2> QED BY <1>n, <2>1, <2>2, TellQuiet DEF Over
<1>3. CASE MintTurn
  <2>1. /\ pc[Runner] = "seeded" /\ UNCHANGED <<log, thinkBuf, thinkSig, stream>>
        /\ pc'[Runner] # "flush"
        /\ todo' = <<Site("user", NoCall)>> \/ todo' = << >>
    BY <1>3, <1>p DEF MintTurn, bufs, Goto
  <2>2. ~Over'  BY <2>1 DEF Over, Site
  <2> QED BY <1>n, <1>t, <2>1, <2>2, TellQuiet
<1>4. CASE StreamEnd
  <2>1. UNCHANGED <<log, thinkBuf, thinkSig, sealed, todo>> /\ block' = NextBlock
    BY <1>4 DEF StreamEnd, volatile, build, bufs
  <2> QED BY <2>1, TellOver
<1>5. CASE FlushNext
  <2>1. pc[Runner] = "flush" /\ UNCHANGED <<log, thinkBuf, thinkSig, stream>>
    BY <1>5 DEF FlushNext, bufs, world
  <2> QED BY <1>n, <1>t, <2>1, TellQuiet DEF Over
<1>6. CASE Conclude
  <2>1. pc[Runner] = "flush" /\ UNCHANGED <<log, stream>>
    BY <1>6 DEF Conclude, world
  <2>2. CASE UNCHANGED <<thinkBuf, thinkSig>>
    BY <1>n, <1>t, <2>1, <2>2, TellQuiet DEF Over
  <2>3. CASE thinkBuf' = {} /\ thinkSig' = 0
    BY <1>n, <2>1, <2>3, TellEmpty DEF stream
  <2> QED BY <1>6, <2>2, <2>3 DEF Conclude, Return, bufs
<1>7. CASE CancelTurn \/ UNCHANGED vars
  <2>1. UNCHANGED <<log, thinkBuf, thinkSig, stream, pc, todo>>
    BY <1>7 DEF CancelTurn, vars, volatile, build, bufs, world
  <2> QED BY <1>n, <2>1, TellQuiet DEF Over
<1>8. ASSUME NEW w \in Writers, Note(w) PROVE Telling'
  <2>1. UNCHANGED <<thinkBuf, thinkSig, stream, todo>> /\ pc'[Runner] = pc[Runner]
    BY <1>8, <1>p DEF Note, NoteBegin, NoteAdd, NoteInsert, volatile, build, bufs, world, Goto
  <2>2. CASE NoteBegin(w) \/ NoteAdd(w)
    <3>1. RowsTold  BY <1>n, <2>2 DEF NoteBegin, NoteAdd
    <3> QED BY <2>1, <3>1, TellQuiet DEF Over
  <2>3. CASE \E ok \in BOOLEAN : NoteInsert(w, ok)
    <3> DEFINE r == MkRow("note", NoCall, noteTurn[w], high[w], "ok", {}, 0)
    <3>1. r \in Row
      BY <2>3, <1>p, RowType DEF NoteInsert, Kinds, TypeOK, TypeSync, TypeWorld
    <3>2. r.text = {} /\ r.sig = 0 /\ (log' = log \/ log' = Append(log, r))
      BY <2>3 DEF NoteInsert, MkRow
    <3> HIDE DEF r
    <3>3. RowsTold  BY <3>1, <3>2, TellAppend DEF Signed
    <3> QED BY <2>1, <3>3, TellQuiet DEF Over
  <2> QED BY <1>8, <2>2, <2>3 DEF Note
<1>9. CASE Crash
  <2>1. UNCHANGED <<log, sealed>> /\ block' = NextBlock /\ thinkBuf' = {} /\ thinkSig' = 0
    BY <1>9 DEF Crash
  <2> QED BY <1>n, <2>1, TellEmpty
<1> QED
  BY <1>1, <1>2, <1>3, <1>4, <1>5, <1>6, <1>7, <1>8, <1>9, <1>p, TellStore, TellEvent
  DEF Next, RunnerStep

LEMMA TellInit == Init => Telling
  BY DEF Init, Telling, SignatureBinds, Past, Buffer, Signed, Over

\* The rows of a thread read back in order, each call before its result and each
\* signature with the text it was issued for (nextMsgID, storeThinking, indexPair):
\* no text that came later and no text that another signature covers, although a
\* block may end unsigned and be stored with a later one.  Assumed: no resolver takes
\* a position beside the turn, the counter can read the table and no block is signed
\* without text.
THEOREM RowsSoundHolds ==
    ASSUME Writers = {}, ~ReadsFail, ~ZeroTextBlocks
    PROVE  Spec => []RowsSound
<1>1. TypeOK /\ Inv /\ Reading /\ Telling => RowsSound
  <2> SUFFICES ASSUME TypeOK, Inv, Reading PROVE CallBeforeResult
    BY DEF RowsSound, Reading, Stored, Telling
  <2> SUFFICES ASSUME NEW i \in DOMAIN log, NEW j \in DOMAIN log, Table!Pair(log[i], log[j])
               PROVE  log[i].pos < log[j].pos
    BY DEF CallBeforeResult
  <2>1. log[i].kind = "call" /\ log[j].kind = "result" /\ log[i].call = log[j].call /\ log[i].turn = log[j].turn
    BY DEF Table!Pair
  <2>2. j - 1 \in DOMAIN log /\ Table!Pair(log[j - 1], log[j])
    BY <2>1 DEF Inv, Table!Closed
  <2>3. i = j - 1  BY <2>1, <2>2 DEF Inv, Table!Closed, Table!Pair
  <2>4. i \in Int /\ j \in Int  BY DEF TypeOK, TypeLog
  <2>5. j = i + 1  BY <2>3, <2>4
  <2> QED BY <2>1, <2>5 DEF Reading, Stored, Ascending
<1>2. TypeOK /\ Inv /\ Reading /\ [Next]_vars => Reading'
  BY ReadStep
<1>3. TypeOK /\ Inv /\ Reading /\ Telling /\ [Next]_vars => Telling'
  BY NextTypeOK, TellStep DEF Reading
<1> QED BY <1>1, <1>2, <1>3, ReadInit, TellInit, Invariance, PTL DEF Spec
-----------------------------------------------------------------------------
(* What a turn that returned has settled.                                  *)

Coming(c)   == \E k \in DOMAIN todo : todo[k].site = "call" /\ todo[k].call = c
Flushing(c) == \E k \in DOMAIN todo : todo[k].site = "flush" /\ todo[k].call = c
Listed(c)   == \E n \in DOMAIN order : order[n] = c

\* A turn that is not under way has left nothing behind.
Cleared ==
    ~InTurn => todo = << >> /\ seenCalls = {} /\ pending = {} /\ order = << >> /\ flushErr = "nil"

\* Every call the model issued is about to be buffered, buffered and shown, or
\* stored; what is buffered is still to be flushed, unless a flush failed; and a
\* reply is only made when nothing is.
Underway ==
    InTurn =>
        /\ shown = pending
        /\ \A c \in Calls : issued[c] = IF c \in seenCalls THEN 1 ELSE 0
        /\ \A c \in seenCalls : Coming(c) \/ c \in pending \/ ~NotStored(c)
        /\ flushErr = "err" \/ \A c \in pending : Flushing(c) \/ Listed(c)
        /\ todo # << >> /\ Head(todo).site = "final" => pending = {}

Settling ==
    /\ outcome # "none" => pc[Runner] = "idle"
    /\ Cleared /\ Underway /\ Resting /\ TurnSettled
    /\ pc[Runner] \in {"sync", "compare", "store", "seeded"} =>
          shown = {} /\ \A c \in Calls : issued[c] = 0

\* The rows so far stay what they are.
Kept == \A i \in DOMAIN log : i \in DOMAIN log' /\ log'[i] = log[i]

LEMMA StepKeeps == ASSUME TypeLog, TypeLog', [Table!Next]_log PROVE Kept
<1>1. /\ DOMAIN log = 1 .. Len(log) /\ Len(log) \in Nat
      /\ DOMAIN log' = 1 .. Len(log') /\ Len(log') \in Nat
  BY DEF TypeLog
<1>2. CASE UNCHANGED log  BY <1>2 DEF Kept
<1>3. CASE Table!Next
  <2>1. /\ Len(log') = Len(log) + 1 \/ Len(log') = Len(log) + 2
        /\ \A i \in DOMAIN log : log'[i] = log[i]
    BY <1>3 DEF Table!Next, Table!AppendRow, Table!AppendPair, Table!Extends
  <2>2. PICK n, m : n = Len(log) /\ m = Len(log')  OBVIOUS
  <2>3. n \in Nat /\ m \in Nat /\ (m = n + 1 \/ m = n + 2)  BY <1>1, <2>1, <2>2
  <2>4. 1 .. n \subseteq 1 .. m  BY <2>3
  <2>5. DOMAIN log = 1 .. n /\ DOMAIN log' = 1 .. m  BY <1>1, <2>2
  <2> QED BY <2>1, <2>4, <2>5 DEF Kept
<1> QED BY <1>2, <1>3

\* No call is stored: the calls of the turn are as they were.
LEMMA SameCalls ==
    ASSUME Kept, GrowsBy({}), turn' = turn
    PROVE  /\ \A c : NotStored(c)' <=> NotStored(c)
           /\ \A c : CallRows(c, turn)' = CallRows(c, turn)
<1>1. \A i : /\ i \in DOMAIN log' /\ log'[i].kind = "call" => i \in DOMAIN log /\ log'[i] = log[i]
             /\ i \in DOMAIN log => i \in DOMAIN log' /\ log'[i] = log[i]
  BY DEF Kept, GrowsBy
<1>2. \A c : NotStored(c)' <=> NotStored(c)  BY <1>1 DEF NotStored
<1>3. ASSUME NEW c PROVE CallRows(c, turn)' = CallRows(c, turn)
  <2>1. \A i : i \in CallRows(c, turn)' <=> i \in CallRows(c, turn)  BY <1>1 DEF CallRows
  <2>2. CallRows(c, turn)' \subseteq DOMAIN log' /\ CallRows(c, turn) \subseteq DOMAIN log
        BY DEF CallRows
  <2> QED BY <2>1, <2>2
<1> QED BY <1>2, <1>3

\* A key names one call, so a call of the turn has one row or none.
LEMMA OneRow ==
    ASSUME TypeOK, Inv, NEW c
    PROVE  Cardinality(CallRows(c, turn)) = IF NotStored(c) THEN 0 ELSE 1
<1>1. CASE NotStored(c)
  <2>1. CallRows(c, turn) = {}  BY <1>1 DEF NotStored, CallRows
  <2> QED BY <1>1, <2>1, FS_EmptySet
<1>2. CASE ~NotStored(c)
  <2>1. PICK i \in DOMAIN log : log[i].kind = "call" /\ log[i].call = c /\ log[i].turn = turn
    BY <1>2 DEF NotStored
  <2>2. \A j \in DOMAIN log : log[j].kind = "call" /\ log[j].call = c /\ log[j].turn = turn => j = i
    BY <2>1 DEF Inv, Table!Closed
  <2>3. CallRows(c, turn) = {i}  BY <2>1, <2>2 DEF CallRows
  <2> QED BY <1>2, <2>3, FS_Singleton
<1> QED BY <1>1, <1>2

\* SendMessage returns: with an error it promises nothing, and otherwise the list of
\* calls was walked to its end without a failure.
LEMMA SettleReturn ==
    ASSUME TypeOK, Inv, Settling, InTurn, NEW o, Return(o), Kept, GrowsBy({}),
           UNCHANGED <<shown, issued>>,
           o \notin {"none", "error"} => pending = {} /\ \A c \in seenCalls : ~Coming(c)
    PROVE  Settling'
<1>1. /\ pc'[Runner] = "idle" /\ outcome' = o /\ turn' = turn /\ todo' = << >> /\ seenCalls' = {}
      /\ pending' = {} /\ order' = << >> /\ flushErr' = "nil"
  BY DEF Return, Goto, TypeOK, TypeSync, Procs, ctl
<1>2. Cleared' /\ Underway' /\ Resting'  BY <1>1 DEF Cleared, Underway, Resting, InTurn
<1>3. TurnSettled'
  <2> SUFFICES ASSUME o \in {"reply", "stopped", "noresponse"}
               PROVE  shown = {} /\ \A c \in Calls : Cardinality(CallRows(c, turn)) = issued[c]
    BY <1>1, SameCalls DEF TurnSettled
  <2>1. pending = {} /\ shown = {} /\ \A c \in seenCalls : ~NotStored(c)
    BY DEF Settling, Underway
  <2>2. ASSUME NEW c \in Calls PROVE Cardinality(CallRows(c, turn)) = issued[c]
    <3>1. CASE c \in seenCalls  BY <2>1, <3>1, OneRow DEF Settling, Underway
    <3>2. CASE c \notin seenCalls
      <4>1. NotStored(c)  BY <3>2 DEF Inv, Seen, NotStored
      <4> QED BY <3>2, <4>1, OneRow DEF Settling, Underway
    <3> QED BY <3>1, <3>2
  <2> QED BY <2>1, <2>2
<1> QED BY <1>1, <1>2, <1>3 DEF Settling

\* A step of the turn that changes nothing this is about.
LEMMA SettleQuiet ==
    ASSUME Settling, Kept, GrowsBy({}),
           UNCHANGED <<turn, todo, seenCalls, pending, order, flushErr, shown, issued, outcome>>,
           InTurn' <=> InTurn, Resting',
           pc'[Runner] \in {"sync", "compare", "store", "seeded"} =>
               pc[Runner] \in {"sync", "compare", "store", "seeded"},
           outcome # "none" => pc'[Runner] = "idle"
    PROVE  Settling'
<1>1. /\ \A c : NotStored(c)' <=> NotStored(c)
      /\ \A c : CallRows(c, turn)' = CallRows(c, turn)
  BY SameCalls
<1>2. Cleared'  BY DEF Settling, Cleared
<1>3. Underway'  BY <1>1 DEF Settling, Underway, Coming, Flushing, Listed
<1>4. TurnSettled'  BY <1>1 DEF Settling, TurnSettled
<1> QED BY <1>2, <1>3, <1>4 DEF Settling

\* A call is stored with its result and taken from the buffered ones.
LEMMA SettlePair ==
    ASSUME TypeOK, Inv, Settling, InTurn, Kept, NEW c \in pending,
           NEW i \in DOMAIN log', log'[i].kind = "call", log'[i].call = c, log'[i].turn = turn,
           UNCHANGED <<turn, seenCalls, order, flushErr, issued, outcome>>,
           todo' = << >>, pending' = pending \ {c}, shown' = shown \ {c},
           ~(\E d \in pending : d # c /\ Flushing(d)), \A d \in seenCalls : ~Coming(d),
           pc'[Runner] \in {"events", "flush"}
    PROVE  Settling'
<1>1. InTurn'  BY DEF InTurn
<1>2. \A d : ~NotStored(d) => ~NotStored(d)'
  BY DEF NotStored, Kept
<1>3. ~NotStored(c)'  BY DEF NotStored
<1>4. Underway'
  <2>1. \A d \in seenCalls' : d \in pending' \/ ~NotStored(d)'
    BY <1>2, <1>3 DEF Settling, Underway
  <2>2. flushErr' = "err" \/ \A d \in pending' : Listed(d)'
    BY DEF Settling, Underway, Listed
  <2> QED BY <2>1, <2>2 DEF Settling, Underway
<1>5. outcome' = "none"
  BY DEF Settling, InTurn
<1>6. Cleared' /\ Resting' /\ TurnSettled'
  BY <1>1, <1>5 DEF Cleared, Resting, TurnSettled
<1> QED BY <1>1, <1>4, <1>5, <1>6 DEF Settling

\* A step of the turn that stores no call, with what it does to the list.
LEMMA SettleTurn ==
    ASSUME Settling, InTurn, InTurn', Kept, GrowsBy({}),
           UNCHANGED <<turn, shown, issued, outcome, pending, seenCalls>>,
           \A c \in seenCalls : Coming(c) => Coming(c)',
           flushErr' = "err" \/ \A c \in pending : (Flushing(c) \/ Listed(c)) /\ flushErr # "err" => Flushing(c)' \/ Listed(c)',
           flushErr = "err" => flushErr' = "err",
           todo' # << >> /\ Head(todo').site = "final" => pending = {},
           Resting'
    PROVE  Settling'
<1>1. \A c : NotStored(c)' <=> NotStored(c)
  BY SameCalls
<1>2. Underway'  BY <1>1 DEF Settling, Underway
<1>3. outcome' = "none"  BY DEF Settling, InTurn
<1>4. pc'[Runner] \notin {"sync", "compare", "store", "seeded"}  BY DEF InTurn
<1>5. Cleared' /\ TurnSettled'  BY <1>3 DEF Cleared, TurnSettled
<1> QED BY <1>2, <1>3, <1>4, <1>5 DEF Settling

\* The only item of the list, if it is not thinking.
LEMMA OnlyItem ==
    ASSUME TypeOK, Inv, NEW s, AtSite(s), s # "thinking"
    PROVE  /\ InTurn /\ Tail(todo) = << >>
           /\ \A c : Coming(c) => s = "call" /\ c = Head(todo).call
           /\ \A c : Flushing(c) => s = "flush" /\ c = Head(todo).call
           /\ 1 \in DOMAIN todo /\ todo[1] = Head(todo)
<1>1. Len(todo) = 1 /\ Tail(todo) = << >> /\ InTurn  BY LastItem DEF AtSite, InTurn
<1>2. todo \in Seq(Item)  BY DEF TypeOK, TypeBuild
<1>3. DOMAIN todo = {1} /\ todo[1] = Head(todo)  BY <1>1, <1>2
<1>4. Head(todo).site = s  BY DEF AtSite
<1> QED BY <1>1, <1>3, <1>4 DEF Coming, Flushing

\* A new list of one item.
LEMMA NewItem ==
    ASSUME NEW s, NEW c, todo' = <<Site(s, c)>>
    PROVE  /\ todo' # << >> /\ Head(todo').site = s
           /\ s = "flush" => Flushing(c)'
<1>1. 1 \in DOMAIN todo' /\ todo'[1] = Head(todo') /\ todo'[1].site = s /\ todo'[1].call = c
  BY DEF Site
<1> QED BY <1>1 DEF Flushing

\* A message of the turn is stored or fails to be.
LEMMA SettleStore ==
    ASSUME TypeOK, Inv, Settling, Store, Kept
    PROVE  Settling'
<1>p. DOMAIN pc = Procs /\ Runner \in Procs  BY DEF TypeOK, TypeSync, Procs
<1>g. UNCHANGED log => GrowsBy({})  BY DEF GrowsBy
<1>t. ASSUME NEW s, AtSite(s), s # "thinking", todo' = << >>, GrowsBy({}),
             UNCHANGED <<turn, shown, issued, outcome, pending, seenCalls, order>>,
             s # "call", s = "flush" => flushErr' = "err", s # "flush" => UNCHANGED flushErr,
             pc'[Runner] \in {"events", "flush"}
      PROVE  Settling'
  <2>1. InTurn /\ InTurn' /\ Resting'  BY <1>t, OnlyItem DEF InTurn, Resting
  <2>2. \A c \in seenCalls : ~Coming(c)  BY <1>t, OnlyItem
  <2>3. \A c \in pending : Listed(c) => Listed(c)'  BY <1>t DEF Listed
  <2>4. s # "flush" => \A c \in pending : ~Flushing(c)  BY <1>t, OnlyItem
  <2>5. flushErr = "err" => flushErr' = "err"  BY <1>t
  <2>6. flushErr' = "err" \/ \A c \in pending : (Flushing(c) \/ Listed(c)) /\ flushErr # "err" => Flushing(c)' \/ Listed(c)'
    BY <1>t, <2>3, <2>4
  <2> QED BY <1>t, <2>1, <2>2, <2>5, <2>6, SettleTurn
<1>1. CASE BufferCall
  <2> DEFINE c == Head(todo).call
  <2>1. /\ AtSite("call") /\ c \in Calls /\ InTurn /\ 1 \in DOMAIN todo /\ todo[1].site = "call" /\ todo[1].call = c
        /\ \A d : Coming(d) => d = c
        /\ \A d : ~Flushing(d)
    BY <1>1, HeadType, OnlyItem DEF BufferCall, TypeOK, AtSite
  <2>2. /\ pending' = pending \cup {c} /\ order' = Append(order, c) /\ shown' = shown \cup {c}
        /\ todo' = << >> /\ pc'[Runner] = "events"
        /\ UNCHANGED <<log, turn, seenCalls, flushErr, issued, outcome>>
    BY <1>1, <1>p, <2>1, OnlyItem DEF BufferCall, Goto, ctl, errs
  <2>3. c \in seenCalls  BY <2>1 DEF Inv, Seen
  <2> HIDE DEF c
  <2>4. \A d : Listed(d) \/ d = c => Listed(d)'
    <3>1. order \in Seq(Calls)  BY DEF TypeOK, TypeCalls
    <3>2. /\ Len(order) \in Nat /\ DOMAIN order = 1 .. Len(order) /\ DOMAIN order' = 1 .. Len(order) + 1
          /\ order'[Len(order) + 1] = c /\ \A n \in DOMAIN order : order'[n] = order[n]
      BY <2>1, <2>2, <3>1
    <3>3. Len(order) + 1 \in DOMAIN order' /\ DOMAIN order \subseteq DOMAIN order'  BY <3>2
    <3> QED BY <3>2, <3>3 DEF Listed
  <2>5. InTurn' /\ Resting'  BY <2>2 DEF InTurn, Resting
  <2>6. \A d : NotStored(d)' <=> NotStored(d)  BY <2>2 DEF NotStored
  <2>7. Underway'
    <3>1. \A d \in seenCalls' : d \in pending' \/ ~NotStored(d)'
      BY <2>1, <2>2, <2>6 DEF Settling, Underway
    <3>2. flushErr' = "err" \/ \A d \in pending' : Listed(d)'
      BY <2>1, <2>2, <2>4 DEF Settling, Underway
    <3> QED BY <2>1, <2>2, <3>1, <3>2 DEF Settling, Underway
  <2>8. outcome' = "none"  BY <2>1, <2>2 DEF Settling, InTurn
  <2>9. Cleared' /\ TurnSettled'  BY <2>5, <2>8 DEF Cleared, TurnSettled
  <2> QED BY <2>2, <2>5, <2>7, <2>8, <2>9 DEF Settling
<1>2. ASSUME NEW ok \in BOOLEAN, StoreUser(ok) PROVE Settling'
  <2>1. AtSite("user")  BY <1>2 DEF StoreUser
  <2>2. CASE ok
    <3>1. GrowsBy({})
      BY <1>2, <2>2, AppendPlain, PlainRowType DEF StoreUser, TypeOK, Kinds, PlainRow, MkRow
    <3>2. /\ UNCHANGED <<turn, shown, issued, outcome, pending, seenCalls, order, flushErr>>
          /\ todo' = << >> /\ pc'[Runner] = "events"
      BY <1>2, <1>p, <2>2 DEF StoreUser, ctl, calls, errs, world, ui, Goto
    <3> QED BY <1>t, <2>1, <3>1, <3>2
  <2>3. CASE ~ok
    BY <1>2, <1>g, <2>1, <2>3, OnlyItem, SettleReturn DEF StoreUser, world, ui
  <2> QED BY <2>2, <2>3
<1>3. ASSUME NEW ok \in BOOLEAN, StoreThinking(ok) PROVE Settling'
  <2>1. GrowsBy({})
    <3>1. CASE ok
      BY <1>3, <3>1, AppendPlain, PlainRowType DEF StoreThinking, TypeOK, Kinds, PlainRow, MkRow
    <3>2. CASE ~ok  BY <1>3, <3>2, <1>g DEF StoreThinking
    <3> QED BY <3>1, <3>2
  <2>2. /\ AtSite("thinking") /\ todo' = Tail(todo)
        /\ UNCHANGED <<turn, shown, issued, outcome, pending, seenCalls, order, flushErr>>
        /\ pc'[Runner] = IF Tail(todo) = << >> THEN "events" ELSE "add"
    BY <1>3, <1>p DEF StoreThinking, ctl, calls, errs, world, ui, Goto
  <2>3. InTurn /\ InTurn' /\ Resting'  BY <2>2 DEF AtSite, InTurn, Resting
  <2>4. todo \in Seq(Item) /\ todo # << >> /\ todo[1].site = "thinking"
    BY <2>2 DEF AtSite, TypeOK, TypeBuild
  <2>5. Len(todo) \in 1 .. 2 /\ (Len(todo) = 2 => todo[2].site = "call")
    <3>1. Len(todo) \in Nat /\ Len(todo) # 0  BY <2>4
    <3>2. Len(todo) <= 1 \/ (Len(todo) = 2 /\ todo[2].site = "call")  BY Zenon DEF Inv, Queue
    <3>3. PICK n : n = Len(todo)  OBVIOUS
    <3>4. n \in 1 .. 2  BY <3>1, <3>2, <3>3
    <3> QED BY <3>2, <3>3, <3>4
  <2>6. \A k \in DOMAIN todo : k = 1 \/ (k = 2 /\ Len(todo) = 2)  BY <2>4, <2>5
  <2>7. Len(todo) = 2 => 1 \in DOMAIN todo' /\ todo'[1] = todo[2]  BY <2>2, <2>4
  <2>8. \A c : Coming(c) => Coming(c)'  BY <2>4, <2>6, <2>7 DEF Coming
  <2>9. \A c : ~Flushing(c)  BY <2>4, <2>5, <2>6 DEF Flushing
  <2>10. \A c \in pending : Listed(c) => Listed(c)'  BY <2>2 DEF Listed
  <2>11. todo' # << >> => Head(todo').site = "call"
    <3>1. Len(todo) = 1 => todo' = << >>
      <4>1. Tail(todo) \in Seq(Item) /\ (Len(todo) = 1 => Len(Tail(todo)) = 0)  BY <2>4
      <4> QED BY <2>2, <4>1, EmptySeq
    <3>2. Len(todo) = 2 => Head(todo').site = "call"  BY <2>2, <2>4, <2>5, <2>7
    <3> QED BY <2>5, <3>1, <3>2
  <2> QED BY <2>1, <2>2, <2>3, <2>8, <2>9, <2>10, <2>11, SettleTurn
<1>4. ASSUME NEW ok \in BOOLEAN, StoreFinal(ok) PROVE Settling'
  <2>1. GrowsBy({})
    <3>1. CASE ok
      BY <1>4, <3>1, AppendPlain, PlainRowType DEF StoreFinal, TypeOK, Kinds, PlainRow, MkRow
    <3>2. CASE ~ok  BY <1>4, <3>2, <1>g DEF StoreFinal
    <3> QED BY <3>1, <3>2
  <2>2. /\ AtSite("final") /\ Return(IF ok THEN "reply" ELSE "error") /\ UNCHANGED <<shown, issued>>
    BY <1>4 DEF StoreFinal, world, ui
  <2>3. InTurn /\ (\A c : ~Coming(c)) /\ pending = {}
    BY <2>2, OnlyItem DEF AtSite, Settling, Underway
  <2> QED BY <2>1, <2>2, <2>3, SettleReturn
<1>5. ASSUME NEW s, AtSite(s), s \in {"result", "flush"}, NEW c \in pending, c = Head(todo).call,
             NEW e \in {"ok", "IsError"}, log' = log \o PairRows(c, e), pending' = pending \ {c},
             shown' = shown \ {c}, UNCHANGED <<turn, seenCalls, order, flushErr, issued, outcome>>,
             todo' = << >>, pc'[Runner] \in {"events", "flush"}
      PROVE  Settling'
  <2>1. InTurn /\ (\A d : ~Coming(d)) /\ ~\E d \in pending : d # c /\ Flushing(d)
    BY <1>5, OnlyItem
  <2> DEFINE row    == MkRow("call", c, turn, callPos[c], "ok", {}, 0)
             result == MkRow("result", c, turn, pos, e, {}, 0)
  <2>2. row \in Row /\ result \in Row
    BY <1>5, RowType DEF TypeOK, TypeTurn, TypeBuild, TypeCalls, Kinds
  <2>3. row.kind = "call" /\ row.call = c /\ row.turn = turn  BY DEF MkRow
  <2>4. log' = log \o <<row, result>>  BY <1>5 DEF PairRows
  <2> HIDE DEF row, result
  <2>5. Len(log) + 1 \in DOMAIN log' /\ log'[Len(log) + 1] = row
    BY <2>2, <2>4 DEF TypeOK, TypeLog
  <2> QED BY <1>5, <2>1, <2>3, <2>5, SettlePair
<1>6. ASSUME NEW ok \in BOOLEAN, StoreResult(ok) PROVE Settling'
  <2>1. /\ AtSite("result") /\ todo' = << >> /\ pc'[Runner] = "events"
        /\ UNCHANGED <<turn, seenCalls, order, flushErr, issued, outcome>>
    BY <1>6, <1>p, OnlyItem DEF StoreResult, ctl, errs, Goto
  <2>2. CASE Head(todo).call \in pending /\ ok
    BY <1>6, <1>5, <2>1, <2>2 DEF StoreResult
  <2>3. CASE ~(Head(todo).call \in pending /\ ok)
    BY <1>6, <1>t, <1>g, <2>1, <2>3 DEF StoreResult
  <2> QED BY <2>2, <2>3
<1>7. ASSUME NEW ok \in BOOLEAN, StoreFlush(ok) PROVE Settling'
  <2>1. /\ AtSite("flush") /\ todo' = << >> /\ pc'[Runner] = "flush"
        /\ UNCHANGED <<turn, seenCalls, order, issued, outcome>>
        /\ 1 \in DOMAIN todo /\ todo[1] = Head(todo)
    BY <1>7, <1>p, OnlyItem DEF StoreFlush, ctl, Goto
  <2>2. Head(todo).call \in pending
    BY <2>1 DEF Inv, Queue, AtSite
  <2>3. CASE ok  BY <1>7, <1>5, <2>1, <2>2, <2>3 DEF StoreFlush
  <2>4. CASE ~ok
    BY <1>7, <1>t, <1>g, <2>1, <2>4 DEF StoreFlush
  <2> QED BY <2>3, <2>4
<1> QED BY <1>1, <1>2, <1>3, <1>4, <1>6, <1>7 DEF Store

\* The parts of an event, with call ids the provider issues once.
LEMMA SettleEvent ==
    ASSUME TypeOK, Inv, Settling, Event, Kept, Recycled = {}
    PROVE  Settling'
<1>p. DOMAIN pc = Procs /\ Runner \in Procs  BY DEF TypeOK, TypeSync, Procs
<1>g. UNCHANGED log => GrowsBy({})  BY DEF GrowsBy
<1>e. AtEvent => InTurn /\ todo = << >> /\ (\A c : ~Coming(c) /\ ~Flushing(c)) /\ pc[Runner] = "events"
  <2>1. AtEvent => InTurn /\ todo = << >> /\ pc[Runner] = "events"
        BY DEF AtEvent, InTurn, Settling, Resting
  <2>2. todo = << >> => \A c : ~Coming(c) /\ ~Flushing(c)
    <3>1. todo = << >> => DOMAIN todo = {}  OBVIOUS
    <3> QED BY <3>1 DEF Coming, Flushing
  <2> QED BY <2>1, <2>2
<1>t. ASSUME AtEvent,
             (\E s \in {"call", "result", "thinking"} : \E c : todo' = <<Site(s, c)>> /\ pc'[Runner] = "add")
                      \/ UNCHANGED <<todo, pc>>,
             UNCHANGED <<log, turn, shown, issued, outcome, pending, seenCalls, order, flushErr>>
      PROVE  Settling'
  <2>1. InTurn /\ InTurn' /\ Resting'  BY <1>t, <1>e DEF InTurn, Resting
  <2>2. \A d \in pending : Listed(d) => Listed(d)'  BY <1>t DEF Listed
  <2>3. todo' # << >> => Head(todo').site # "final"  BY <1>t, <1>e, NewItem
  <2> QED BY <1>t, <1>e, <1>g, <2>1, <2>2, <2>3, SettleTurn
<1>1. ASSUME NEW c \in Calls, EvCall(c) PROVE Settling'
  <2>1. /\ AtEvent /\ issued[c] = 0 /\ issued' = [issued EXCEPT ![c] = @ + 1]
        /\ UNCHANGED <<log, turn, pending, order, shown, flushErr, outcome>>
    BY <1>1 DEF EvCall, ctl, errs
  <2>2. c \notin seenCalls  BY <2>1, <1>e DEF Settling, Underway
  <2>3. /\ seenCalls' = seenCalls \cup {c} /\ pc'[Runner] = "add"
        /\ \/ todo' = <<Site("call", c)>>
           \/ todo' = <<Site("thinking", NoCall), Site("call", c)>>
    BY <1>1, <1>p, <2>2 DEF EvCall, Goto
  <2>4. Coming(c)' /\ todo' # << >> /\ Head(todo').site # "final"
    <3>1. CASE todo' = <<Site("call", c)>>
      <4>1. 1 \in DOMAIN todo' /\ todo'[1].site = "call" /\ todo'[1].call = c  BY <3>1 DEF Site
      <4> QED BY <3>1, <4>1 DEF Coming, Site
    <3>2. CASE todo' = <<Site("thinking", NoCall), Site("call", c)>>
      <4>1. 2 \in DOMAIN todo' /\ todo'[2].site = "call" /\ todo'[2].call = c  BY <3>2 DEF Site
      <4> QED BY <3>2, <4>1 DEF Coming, Site
    <3> QED BY <2>3, <3>1, <3>2
  <2>5. \A d \in Calls : issued'[d] = IF d = c THEN 1 ELSE issued[d]
    <3>1. issued \in [Calls -> Nat]  BY DEF TypeOK, TypeWorld
    <3> QED BY <2>1, <3>1
  <2>6. \A d : NotStored(d)' <=> NotStored(d)  BY <2>1 DEF NotStored
  <2>7. InTurn' /\ Resting'  BY <2>3 DEF InTurn, Resting
  <2>8. Underway'
    <3>1. \A d \in Calls : issued'[d] = IF d \in seenCalls' THEN 1 ELSE 0
      BY <1>e, <2>1, <2>3, <2>5 DEF Settling, Underway
    <3>2. \A d \in seenCalls' : Coming(d)' \/ d \in pending' \/ ~NotStored(d)'
      BY <1>e, <2>1, <2>3, <2>4, <2>6 DEF Settling, Underway
    <3>3. flushErr' = "err" \/ \A d \in pending' : Listed(d)'
      BY <1>e, <2>1 DEF Settling, Underway, Listed
    <3> QED BY <1>e, <2>1, <2>4, <3>1, <3>2, <3>3 DEF Settling, Underway
  <2>9. outcome' = "none"  BY <1>e, <2>1 DEF Settling, InTurn
  <2>10. Cleared' /\ TurnSettled'  BY <2>7, <2>9 DEF Cleared, TurnSettled
  <2> QED BY <2>3, <2>7, <2>8, <2>9, <2>10 DEF Settling
<1>2. ASSUME NEW c \in Calls, EvResult(c) PROVE Settling'
  <2>1. /\ AtEvent /\ todo' = <<Site("result", c)>> /\ pc'[Runner] = "add"
        /\ UNCHANGED <<log, turn, shown, issued, outcome, pending, seenCalls, order, flushErr>>
    BY <1>2, <1>p DEF EvResult, ctl, calls, errs, world, ui, Goto
  <2> QED BY <2>1, <1>t
<1>3. CASE EvEmptyID
  <2>1. AtEvent /\ Return("error") /\ UNCHANGED <<log, shown, issued>>
    BY <1>3 DEF EvEmptyID, ui
  <2> QED BY <2>1, <1>e, <1>g, SettleReturn
<1>4. CASE EvText \/ EvError \/ EvBlockEnds
  <2>1. /\ AtEvent /\ UNCHANGED <<todo, pc>>
        /\ UNCHANGED <<log, turn, shown, issued, outcome, pending, seenCalls, order, flushErr>>
    BY <1>4 DEF EvText, EvError, EvBlockEnds, volatile, ctl, build, calls, errs, world, ui
  <2> QED BY <2>1, <1>t
<1>5. ASSUME NEW t \in BOOLEAN, NEW s \in BOOLEAN, EvThinking(t, s) PROVE Settling'
  <2>1. /\ AtEvent
        /\ UNCHANGED <<log, turn, shown, issued, outcome, pending, seenCalls, order, flushErr>>
        /\ (todo' = <<Site("thinking", NoCall)>> /\ pc'[Runner] = "add") \/ UNCHANGED <<todo, pc>>
    BY <1>5, <1>p DEF EvThinking, ctl, calls, errs, ui, Goto
  <2>2. CASE todo' = <<Site("thinking", NoCall)>> /\ pc'[Runner] = "add"
    BY <2>1, <2>2, <1>t
  <2>3. CASE UNCHANGED <<todo, pc>>  BY <2>1, <2>3, <1>t
  <2> QED BY <2>1, <2>2, <2>3
<1> QED BY <1>1, <1>2, <1>3, <1>4, <1>5 DEF Event

\* The end of the stream, the flush and the return.
LEMMA SettleEnd ==
    ASSUME TypeOK, Inv, Settling, StreamEnd \/ FlushNext \/ Conclude, Kept
    PROVE  Settling'
<1>p. DOMAIN pc = Procs /\ Runner \in Procs  BY DEF TypeOK, TypeSync, Procs
<1>g. UNCHANGED log => GrowsBy({})  BY DEF GrowsBy
<1>e. InTurn /\ todo = << >> /\ \A c : ~Coming(c) /\ ~Flushing(c)
  <2>1. InTurn /\ todo = << >>
    BY DEF StreamEnd, FlushNext, Conclude, InTurn, Settling, Resting
  <2>2. DOMAIN todo = {}  BY <2>1
  <2> QED BY <2>1, <2>2 DEF Coming, Flushing
<1>1. CASE StreamEnd
  <2>1. /\ UNCHANGED <<log, turn, todo, seenCalls, pending, order, flushErr, shown, issued, outcome>>
        /\ pc'[Runner] = "flush"
    BY <1>1, <1>p DEF StreamEnd, volatile, world, ctl, build, calls, errs, ui, Goto
  <2>2. InTurn' /\ Resting'  BY <1>e, <2>1 DEF InTurn, Resting
  <2>3. outcome = "none"  BY <1>e DEF Settling, InTurn
  <2> QED BY <1>e, <1>g, <2>1, <2>2, <2>3, SettleQuiet
<1>2. CASE FlushNext
  <2> PICK h : h = Head(order)  OBVIOUS
  <2>1. /\ UNCHANGED <<log, turn, seenCalls, pending, flushErr, shown, issued, outcome>>
        /\ order # << >> /\ order' = Tail(order)
        /\ IF h \in pending
           THEN todo' = <<Site("flush", h)>> /\ pc'[Runner] = "add"
           ELSE UNCHANGED <<todo, pc>>
    BY <1>2, <1>p DEF FlushNext, world, ctl, errs, ui, Goto
  <2>2. InTurn' /\ Resting'  BY <1>e, <2>1 DEF InTurn, Resting, Settling
  <2>3. \A d : Listed(d) => d = h \/ Listed(d)'
    <3>1. order \in Seq(Calls)  BY DEF TypeOK, TypeCalls
    <3>2. PICK n : n = Len(order)  OBVIOUS
    <3>3. /\ n \in Nat \ {0} /\ DOMAIN order = 1 .. n /\ DOMAIN Tail(order) = 1 .. n - 1
          /\ h = order[1] /\ \A k \in 1 .. n - 1 : Tail(order)[k] = order[k + 1]
      BY <2>1, <3>1, <3>2
    <3>4. \A k \in 1 .. n : k = 1 \/ (k - 1 \in 1 .. n - 1 /\ (k - 1) + 1 = k)  BY <3>3
    <3>5. ASSUME NEW k \in 1 .. n, k # 1 PROVE k - 1 \in DOMAIN order' /\ order'[k - 1] = order[k]
      BY <2>1, <3>3, <3>4, <3>5
    <3> SUFFICES ASSUME NEW d, NEW k \in DOMAIN order, order[k] = d, d # h
                 PROVE  \E m \in DOMAIN order' : order'[m] = d
      BY DEF Listed
    <3>6. k \in 1 .. n /\ k # 1  BY <3>3
    <3> QED BY <3>5, <3>6
  <2>4. h \in pending => Flushing(h)'
    BY <2>1, NewItem
  <2>5. \A d \in pending : Flushing(d) \/ Listed(d) => Flushing(d)' \/ Listed(d)'
    BY <1>e, <2>3, <2>4
  <2>6. todo' # << >> => Head(todo').site # "final"  BY <2>1, <1>e DEF Site
  <2> QED BY <1>e, <1>g, <2>1, <2>2, <2>5, <2>6, SettleTurn
<1>3. CASE Conclude
  <2>1. /\ UNCHANGED <<log, shown, issued>> /\ order = << >>
    BY <1>3 DEF Conclude, world, ui
  <2>2. flushErr # "err" => pending = {}
    <3>1. DOMAIN order = {}  BY <2>1
    <3> QED BY <1>e, <3>1 DEF Settling, Underway, Listed
  <2>3. CASE flushErr = "nil" /\ (thinkBuf # {} \/ textBuf # "empty")
    <3>1. /\ UNCHANGED <<turn, outcome, pending, seenCalls, order, flushErr>>
          /\ todo' = <<Site("final", NoCall)>> /\ pc'[Runner] = "add"
      BY <1>3, <1>p, <2>3 DEF Conclude, ctl, calls, errs, Goto
    <3>2. InTurn' /\ Resting'  BY <3>1 DEF InTurn, Resting
    <3>3. \A c \in pending : FALSE  BY <2>2, <2>3
    <3>4. pending = {}  BY <3>3
    <3> QED BY <1>e, <1>g, <2>1, <3>1, <3>2, <3>3, <3>4, SettleTurn
  <2>4. CASE ~(flushErr = "nil" /\ (thinkBuf # {} \/ textBuf # "empty"))
    <3>1. CASE flushErr = "err"
      <4>1. Return("error")  BY <1>3, <2>4, <3>1 DEF Conclude
      <4> QED BY <1>e, <1>g, <2>1, <4>1, SettleReturn
    <3>2. CASE flushErr # "err"
      <4>1. \E o : Return(o)  BY <1>3, <2>4 DEF Conclude
      <4> QED BY <1>e, <1>g, <2>1, <2>2, <3>2, <4>1, SettleReturn
    <3> QED BY <3>1, <3>2
  <2> QED BY <2>3, <2>4
<1> QED BY <1>1, <1>2, <1>3

\* Every step keeps what is settled.
LEMMA SettleStep ==
    ASSUME TypeOK, TypeOK', Inv, Settling, [Next]_vars, Recycled = {}
    PROVE  Settling'
<1>p. DOMAIN pc = Procs /\ Runner \in Procs /\ Runner \notin Writers /\ Writers \subseteq Procs
  BY ConstantsAssumption DEF TypeOK, TypeSync, Procs
<1>k. Kept  BY StepInv, StepKeeps DEF TypeOK
<1>g. UNCHANGED log => GrowsBy({})  BY DEF GrowsBy
<1>1. ASSUME NEW p \in Procs, Sync(p) PROVE Settling'
  <2>1. UNCHANGED <<log, turn, todo, seenCalls, pending, order, flushErr, shown, issued, outcome>>
    BY <1>1 DEF Sync, SyncRead, SyncCompare, SyncStore, volatile, world, ctl, build, calls, errs, ui
  <2>2. /\ p # Runner => pc'[Runner] = pc[Runner]
        /\ p = Runner => /\ pc[Runner] \in {"sync", "compare", "store"}
                         /\ pc'[Runner] \in {"compare", "store", "seeded"}
    BY <1>1, <1>p DEF Sync, SyncRead, SyncCompare, SyncStore, Goto
  <2>3. (InTurn' <=> InTurn) /\ Resting'  BY <2>1, <2>2 DEF InTurn, Resting, Settling
  <2>4. outcome # "none" => pc'[Runner] = "idle"  BY <2>2 DEF Settling
  <2> QED BY <1>k, <1>g, <2>1, <2>2, <2>3, <2>4, SettleQuiet
<1>2. CASE Begin
  <2>1. /\ pc[Runner] = "idle" /\ pc'[Runner] = "sync" /\ outcome' = "none"
        /\ shown' = {} /\ \A c \in Calls : issued'[c] = 0
        /\ UNCHANGED <<todo, seenCalls, pending, order, flushErr>>
    BY <1>2, <1>p DEF Begin, build, calls, errs, Goto
  <2>2. Cleared' /\ Underway' /\ Resting' /\ TurnSettled'
    BY <2>1 DEF Settling, Cleared, Underway, Resting, TurnSettled, InTurn
  <2> QED BY <2>1, <2>2 DEF Settling
<1>3. CASE MintTurn
  <2>1. /\ pc[Runner] = "seeded" /\ UNCHANGED <<seenCalls, pending, order, flushErr, shown, issued, outcome>>
        /\ \/ todo' = <<Site("user", NoCall)>> /\ pc'[Runner] = "add"
           \/ todo' = << >> /\ pc'[Runner] = "events"
    BY <1>3, <1>p DEF MintTurn, calls, errs, ui, Goto
  <2>2. /\ seenCalls = {} /\ pending = {} /\ shown = {} /\ (\A c \in Calls : issued[c] = 0)
        /\ outcome = "none"
    BY <2>1 DEF Settling, Cleared, InTurn
  <2>3. Cleared' /\ Underway' /\ Resting' /\ TurnSettled'
    BY <2>1, <2>2 DEF Cleared, Underway, Resting, TurnSettled, InTurn
  <2> QED BY <2>1, <2>2, <2>3 DEF Settling
<1>4. CASE MintID \/ LoadPosition
  <2>1. /\ UNCHANGED <<log, turn, todo, seenCalls, pending, order, flushErr, shown, issued, outcome>>
        /\ pc[Runner] \in {"add", "load"} /\ pc'[Runner] \in {"load", "write"}
    BY <1>4, <1>p DEF MintID, LoadPosition, volatile, world, ctl, build, calls, errs, ui, Goto
  <2>2. InTurn /\ InTurn' /\ Resting' /\ outcome = "none"  BY <2>1 DEF InTurn, Resting, Settling
  <2> QED BY <1>k, <1>g, <2>1, <2>2, SettleQuiet
<1>5. CASE CancelTurn \/ UNCHANGED vars
  <2>1. UNCHANGED <<log, turn, todo, seenCalls, pending, order, flushErr, shown, issued, outcome, pc>>
    BY <1>5 DEF CancelTurn, vars, volatile, world, ctl, build, calls, errs, ui
  <2>2. (InTurn' <=> InTurn) /\ Resting' /\ (outcome # "none" => pc'[Runner] = "idle")
    BY <2>1 DEF InTurn, Resting, Settling
  <2> QED BY <1>k, <1>g, <2>1, <2>2, SettleQuiet
<1>6. ASSUME NEW w \in Writers, Note(w) PROVE Settling'
  <2>1. /\ UNCHANGED <<turn, todo, seenCalls, pending, order, flushErr, shown, issued, outcome>>
        /\ pc'[Runner] = pc[Runner]
    BY <1>6, <1>p DEF Note, NoteBegin, NoteAdd, NoteInsert,
       volatile, world, ctl, build, calls, errs, ui, Goto
  <2>2. GrowsBy({})
    <3>1. CASE NoteBegin(w) \/ NoteAdd(w) \/ NoteInsert(w, FALSE)
      BY <3>1, <1>g DEF NoteBegin, NoteAdd, NoteInsert
    <3>2. CASE NoteInsert(w, TRUE)
      <4> DEFINE r == MkRow("note", NoCall, noteTurn[w], high[w], "ok", {}, 0)
      <4>1. r \in Row
        BY <3>2, <1>p, RowType DEF NoteInsert, Kinds, TypeOK, TypeSync, TypeWorld
      <4>2. r.kind = "note" /\ log' = Append(log, r)
        BY <3>2 DEF NoteInsert, MkRow
      <4> HIDE DEF r
      <4> QED BY <4>1, <4>2, AppendPlain DEF TypeOK
    <3> QED BY <1>6, <3>1, <3>2 DEF Note
  <2>3. (InTurn' <=> InTurn) /\ Resting' /\ (outcome # "none" => pc'[Runner] = "idle")
    BY <2>1 DEF InTurn, Resting, Settling
  <2> QED BY <1>k, <2>1, <2>2, <2>3, SettleQuiet
<1>7. CASE Crash
  <2>1. /\ todo' = << >> /\ seenCalls' = {} /\ pending' = {} /\ order' = << >> /\ flushErr' = "nil"
        /\ outcome' = "none" /\ pc'[Runner] = "idle"
    BY <1>7, <1>p DEF Crash
  <2> QED BY <2>1 DEF Settling, Cleared, Underway, Resting, TurnSettled, InTurn
<1> QED
  BY <1>1, <1>2, <1>3, <1>4, <1>5, <1>6, <1>7, <1>k, <1>p, SettleStore, SettleEvent, SettleEnd
  DEF Next, RunnerStep

LEMMA SettleInit == Init => Settling
  BY DEF Init, Settling, Cleared, Underway, Resting, TurnSettled, InTurn, Procs

\* A turn that returns without an error has stored every tool call the model issued
\* exactly once and shows none as running, whatever failed and was cancelled on the
\* way, as long as the provider issues an id once (processEvents, the turn-end flush).
THEOREM TurnSettledHolds ==
    ASSUME Recycled = {}
    PROVE  Spec => []TurnSettled
<1>1. Settling => TurnSettled  BY DEF Settling
<1>2. TypeOK /\ Inv /\ Settling /\ [Next]_vars => Settling'
  BY SettleStep, NextTypeOK
<1> QED BY <1>1, <1>2, SettleInit, Invariance, PTL DEF Spec
-----------------------------------------------------------------------------
(* The model call of a turn: for every stored thread, budget, selection and *)
(* sequence of overflows, the requests of a call are closed under the tool  *)
(* protocol, fit the budget, keep their focus and their densest groups, and *)
(* the call is recorded once.                                               *)

\* What is left of the window was closed without an error since it was loaded.
LocalIntact == stage \in {"select", "shed"} => ~Broken(local)

\* The thread is a stored one, and sets of messages hold messages.
CallShape ==
    /\ StoredThread(corpus)
    /\ local \subseteq Messages /\ DOMAIN picked \subseteq Messages
    /\ stage = "send" => wire \subseteq Messages

ClosedInv == CallShape /\ LocalIntact /\ WireClosed

\* A counterpart in a stored thread is a message of it whose counterpart is the
\* message itself.
LEMMA Counterpart ==
    ASSUME StoredThread(corpus), NEW m \in Messages
    PROVE  /\ m \in Nat \ {0}
           /\ corpus.partner[m] \in Int /\ corpus.partner[m] >= -1
           /\ corpus.partner[m] > 0 =>
                /\ corpus.partner[m] \in Messages
                /\ corpus.partner[corpus.partner[m]] = m
<1> DEFINE n == Cardinality(DOMAIN corpus.turn)
<1>1. corpus \in Thread(n)
  BY DEF StoredThread
<1>2. corpus.partner \in [1 .. n -> -1 .. n] /\ DOMAIN corpus.turn = 1 .. n
  BY <1>1 DEF Thread
<1>3. corpus.partner[m] \in -1 .. n
  BY <1>2 DEF Messages
<1>4. corpus.partner[m] > 0 => corpus.partner[corpus.partner[m]] = m
  BY DEF StoredThread, Messages
<1>5. corpus.partner[m] \in Int /\ corpus.partner[m] >= -1
  BY <1>3, SMT
<1>6. n \in Nat
  BY DEF StoredThread
<1>7. ASSUME corpus.partner[m] > 0 PROVE corpus.partner[m] \in Messages
  BY <1>2, <1>3, <1>6, <1>7 DEF Messages
<1>8. m \in 1 .. n
  BY <1>2 DEF Messages
<1> QED BY <1>4, <1>5, <1>6, <1>7, <1>8

\* The peers of messages are stored: a counterpart among them is not missing.
LEMMA Peers ==
    ASSUME StoredThread(corpus), NEW S \in SUBSET Messages
    PROVE  Missing \notin TurnPeers(S)
<1>1. TurnPeers(S) \subseteq Messages
  BY DEF TurnPeers, TurnMessages
<1>2. Missing \notin Messages
  BY Counterpart DEF Missing
<1> QED BY <1>1, <1>2

\* Whether a set is broken depends on the stored thread alone.
LEMMA BrokenSame ==
    ASSUME UNCHANGED <<corpus, local>>
    PROVE  Broken(local)' <=> Broken(local)
BY DEF Broken, TurnPeers, TurnMessages, Messages

\* The closure of messages with stored counterparts is closed, and complete.
LEMMA CloseClosed ==
    ASSUME StoredThread(corpus), NEW S \in SUBSET Messages, ~Broken(S)
    PROVE  /\ Close(S) \subseteq Messages
           /\ \A m \in Close(S) :
                /\ corpus.partner[m] # Missing
                /\ corpus.partner[m] > 0 => corpus.partner[m] \in Close(S)
<1>1. ASSUME NEW m \in Close(S)
      PROVE  /\ m \in Messages /\ corpus.partner[m] # Missing
             /\ corpus.partner[m] > 0 => corpus.partner[m] \in Close(S)
  <2>1. PICK r \in S : m \in CloseGroup(r)
    BY DEF Close
  <2>2. CASE m = r
    <3>1. corpus.partner[m] # Missing
      BY <2>2, Peers DEF Broken, Missing
    <3> QED BY <2>2, <3>1 DEF Close, CloseGroup
  <2>3. CASE m # r
    <3>1. m = corpus.partner[r] /\ m # 0 /\ m # Missing
      BY <2>1, <2>3 DEF CloseGroup
    <3>2. m > 0
      BY <3>1, Counterpart DEF Missing
    <3>3. m \in Messages /\ corpus.partner[m] = r
      BY <3>1, <3>2, Counterpart
    <3>4. r \in Close(S)
      BY DEF Close, CloseGroup
    <3>5. r \in Int /\ r # Missing
      BY Counterpart DEF Missing
    <3> QED BY <3>3, <3>4, <3>5
  <2> QED BY <2>2, <2>3
<1> QED BY <1>1

\* The delivery is closed when the window and the roots of the groups are intact.
LEMMA DeliveryClosed ==
    ASSUME CallShape, ~Broken(local), ~Broken(Roots(dropped))
    PROVE  /\ Delivery \subseteq Messages
           /\ \A m \in Delivery :
                /\ corpus.partner[m] # Missing
                /\ corpus.partner[m] > 0 => corpus.partner[m] \in Delivery
<1>1. Roots(dropped) \subseteq Messages
  BY DEF Roots, CallShape
<1>2. Delivery = Close(Roots(dropped)) \cup Close(local)
  BY Zenon DEF Delivery, Groups, LocalIDs, Close
<1>3. StoredThread(corpus) /\ local \subseteq Messages
  BY DEF CallShape
<1> QED BY <1>1, <1>2, <1>3, CloseClosed

\* ClosedInv holds initially.
LEMMA InitClosed == CallInit => ClosedInv
BY ModelCallAssumption DEF CallInit, ClosedInv, CallShape, LocalIntact, WireClosed, Empty

\* Window is a set of messages.
LEMMA WindowType == Window \subseteq Messages
BY DEF Window, mergeByPosition, PrecedingTurn, TurnMessages, RecentMessages

\* Every step preserves ClosedInv.
LEMMA StepClosed == ClosedInv /\ [CallNext]_callVars => ClosedInv'
<1> SUFFICES ASSUME ClosedInv, [CallNext]_callVars PROVE ClosedInv'
  OBVIOUS
<1> USE DEF ClosedInv, thread
<1>1. CASE UNCHANGED callVars
  BY <1>1, BrokenSame DEF callVars, CallShape, LocalIntact, WireClosed, Messages
<1>2. CASE Fail
  BY <1>2 DEF Fail, CallShape, LocalIntact, WireClosed, Messages
<1>3. CASE Forward
  BY <1>3 DEF Forward, CallShape, LocalIntact, WireClosed, Messages
<1>4. CASE LoadWindow
  BY <1>4, WindowType DEF LoadWindow, CallShape, LocalIntact, WireClosed, Messages
<1>5. CASE ShedLocal
  BY <1>5 DEF ShedLocal, CallShape, LocalIntact, WireClosed, Messages
<1>6. CASE LocalFits
  BY <1>6, BrokenSame DEF LocalFits, CallShape, LocalIntact, WireClosed, Messages
<1>7. CASE Select
  BY <1>7, BrokenSame DEF Select, CallShape, LocalIntact, WireClosed, Messages
<1>8. CASE ShedGroup
  BY <1>8, BrokenSame DEF ShedGroup, CallShape, LocalIntact, WireClosed, Messages
<1>9. CASE Assembled
  <2>1. /\ Delivery \subseteq Messages
        /\ \A m \in Delivery :
              /\ corpus.partner[m] # Missing
              /\ corpus.partner[m] > 0 => corpus.partner[m] \in Delivery
    BY <1>9, DeliveryClosed DEF Assembled, LocalIntact
  <2> QED BY <1>9, <2>1 DEF Assembled, CallShape, LocalIntact, WireClosed, Messages
<1>10. CASE Respond
  BY <1>10 DEF Respond, CallShape, LocalIntact, WireClosed, Messages
<1>11. CASE Overflow
  BY <1>11, WindowType DEF Overflow, Retry, CallShape, LocalIntact, WireClosed, Messages
<1>12. CallNext =>
          \/ Fail \/ Forward \/ LoadWindow \/ ShedLocal \/ LocalFits \/ Select
          \/ ShedGroup \/ Assembled \/ Respond \/ Overflow
  BY DEF CallNext, LoadFails, StoreFails, LocalFails, ShedFails, SendFails,
         OverflowFails
<1> QED BY <1>1, <1>2, <1>3, <1>4, <1>5, <1>6, <1>7, <1>8, <1>9, <1>10, <1>11, <1>12

\* Every request holds the counterpart of each tool call and result in it.
THEOREM WireClosedHolds == CallSpec => []WireClosed
<1>1. ClosedInv => WireClosed
  BY DEF ClosedInv
<1> QED BY InitClosed, StepClosed, <1>1, PTL DEF CallSpec
-----------------------------------------------------------------------------
(* The request as a whole: what of it a shed, a retry or a failure may     *)
(* not take away.                                                          *)

\* The budget is full of groups no shed group is denser than; after the window
\* was loaded, and again after an overflow, nothing has been shed yet.
Densest ==
    /\ stage \in {"load", "local", "select"} => dropped \subseteq excluded
    /\ stage \in {"shed", "send"} =>
          \A m \in dropped \ excluded, g \in Groups : ~Thinner(g, CloseGroup(m))

\* From the load to the answer the window holds what is pinned.
CallWorking == {"local", "select", "shed", "send"}
Focus   == stage \in CallWorking => Anchored /\ Pinned \subseteq local

\* What the request carries.
CallSent == stage = "send" => Fits(wire) /\ Pinned \subseteq wire /\ published = 1

\* Provenance comes last.
CallRecorded == published \in {0, 1} /\ (credited # {} => stage \in {"done", "cut"} /\ published = 1)

CallInv == Densest /\ Focus /\ CallSent /\ CallRecorded

\* The least and the greatest of some messages.
LEMMA LeastMessage ==
    ASSUME StoredThread(corpus), NEW S \in SUBSET Messages, S # {}
    PROVE  Min(S) \in S
<1>0. S \in SUBSET Nat
  BY Counterpart
<1>1. PICK x \in S : \A y \in S : ~(<<y, x>> \in OpToRel(<, Nat))
  BY <1>0, NatLessThanWellFounded, WFMin
<1>2. ASSUME NEW y \in S PROVE x <= y
  <2>1. x \in Nat /\ y \in Nat
    BY <1>0
  <2>2. ~(<<y, x>> \in OpToRel(<, Nat))
    BY <1>1
  <2>3. ~(y < x)
    BY <2>1, <2>2 DEF OpToRel
  <2> QED BY <2>1, <2>3
<1> QED BY <1>2 DEF Min

LEMMA GreatestMessage ==
    ASSUME StoredThread(corpus), NEW S \in SUBSET Messages, S # {}
    PROVE  Max(S) \in S
<1> DEFINE n == Cardinality(DOMAIN corpus.turn)
           D == {n - y : y \in S}
<1>1. n \in Nat /\ Messages = 1 .. n
  BY DEF StoredThread, Thread, Messages
<1>2. \A y \in S : y \in Nat /\ n - y \in Nat
  BY <1>1
<1> HIDE DEF n
<1>3. D \in SUBSET Nat /\ D # {}
  BY <1>2
<1>4. PICK d \in D : \A e \in D : ~(<<e, d>> \in OpToRel(<, Nat))
  BY <1>3, NatLessThanWellFounded, WFMin
<1>5. PICK x \in S : d = n - x
  BY <1>4
<1>6. ASSUME NEW y \in S PROVE x >= y
  <2>1. n - y \in D /\ d \in Nat /\ n - y \in Nat
    BY <1>2, <1>3, <1>4
  <2>2. ~(<<n - y, d>> \in OpToRel(<, Nat))
    BY <1>4, <2>1
  <2>3. ~(n - y < d)
    BY <2>1, <2>2 DEF OpToRel
  <2> QED BY <1>1, <1>2, <1>5, <2>1, <2>3
<1> QED BY <1>6 DEF Max

\* What is pinned is part of the window, and the anchor queries the scorer.
LEMMA PinnedWindow ==
    ASSUME StoredThread(corpus), Anchored
    PROVE  /\ Anchor \in Window /\ hasSemanticBlock(Anchor) /\ OfCurrentTurn(Anchor)
           /\ Pinned \subseteq Window
<1>1. TurnRecord \subseteq Window
  BY DEF TurnRecord, BuildLocalContext
<1>2. Semantic(TurnRecord) \in SUBSET Messages /\ Semantic(TurnRecord) # {} /\ OfCurrentTurn(Anchor)
  BY <1>1, WindowType DEF Anchored, Semantic
<1>3. Anchor \in Semantic(TurnRecord)
  BY <1>2, GreatestMessage DEF Anchor
<1>4. ASSUME NEW k PROVE Latest(Of(Window, k)) \subseteq Window
  <2>1. Of(Window, k) \in SUBSET Messages
    BY WindowType DEF Of
  <2>2. Of(Window, k) # {} => Max(Of(Window, k)) \in Of(Window, k)
    BY <2>1, GreatestMessage
  <2> QED BY <2>2 DEF Latest, Of
<1> QED BY <1>1, <1>2, <1>3, <1>4 DEF Pinned, Semantic

\* The window, its anchor and what is pinned belong to the stored thread.
LEMMA CallThread ==
    ASSUME UNCHANGED thread
    PROVE  Window' = Window /\ Pinned' = Pinned /\ (Anchored' <=> Anchored)
<1>1. corpus' = corpus /\ cur' = cur /\ Messages' = Messages /\ Identified' = Identified
  BY DEF thread, Messages, Identified
<1>2. Window' = Window
  BY <1>1 DEF Window, mergeByPosition, PrecedingTurn, TurnMessages, RecentMessages
<1>3. TurnRecord' = TurnRecord
  BY <1>1, <1>2 DEF TurnRecord, BuildLocalContext, TurnMessages
<1>4. Semantic(TurnRecord)' = Semantic(TurnRecord)
  BY <1>1, <1>3 DEF Semantic, hasSemanticBlock
<1>5. Anchor' = Anchor
  BY <1>4 DEF Anchor
<1>6. Anchored' <=> Anchored
  BY <1>1, <1>4, <1>5 DEF Anchored, OfCurrentTurn
<1>7. Pinned' = Pinned
  BY <1>1, <1>2, <1>5 DEF Pinned, Latest, Of
<1> QED BY <1>2, <1>6, <1>7

\* While the selection, the window and the exclusions stay, so does the order of
\* the groups, and dropping roots leaves fewer groups.
LEMMA SameGroups ==
    ASSUME UNCHANGED <<corpus, local, picked, excluded>>
    PROVE  /\ \A g, h : Thinner(g, h)' <=> Thinner(g, h)
           /\ \A m : CloseGroup(m)' = CloseGroup(m)
           /\ dropped \subseteq dropped' => Groups' \subseteq Groups
<1>1. \A m : CloseGroup(m)' = CloseGroup(m)
  BY DEF CloseGroup
<1>2. LocalIDs' = LocalIDs
  BY <1>1 DEF LocalIDs, Close
<1>3. \A g : groupOverlaps(g)' <=> groupOverlaps(g)
  BY <1>2 DEF groupOverlaps
<1>4. Roots(excluded)' = Roots(excluded)
  BY <1>1, <1>2, <1>3 DEF Roots, groupOverlaps
<1>5. \A g : RootIDs(g)' = RootIDs(g)
  BY <1>1, <1>4 DEF RootIDs
<1>6. \A g : Strength(g)' = Strength(g)
  BY <1>5 DEF Strength
<1>7. \A g, h : Thinner(g, h)' <=> Thinner(g, h)
  BY <1>6 DEF Thinner, Excess, CostOf
<1>8. ASSUME dropped \subseteq dropped' PROVE Groups' \subseteq Groups
  <2>1. Roots(dropped)' \subseteq Roots(dropped)
    BY <1>1, <1>2, <1>8 DEF Roots, groupOverlaps
  <2> QED BY <1>1, <2>1 DEF Groups
<1> QED BY <1>1, <1>7, <1>8

\* Dropping the roots of a group nothing is thinner than keeps the order.
LEMMA DensestShed ==
    ASSUME Densest, ShedGroup
    PROVE  Densest'
<1>1. PICK g \in Groups : (\A h \in Groups : ~Thinner(h, g)) /\ dropped' = dropped \cup RootIDs(g)
  BY DEF ShedGroup
<1>2. stage = "shed" /\ stage' = "shed" /\ UNCHANGED <<corpus, local, picked, excluded>>
  BY DEF ShedGroup, thread
<1>3. ASSUME NEW m \in dropped' \ excluded', NEW h \in Groups'
      PROVE  ~Thinner(h, CloseGroup(m))'
  <2>1. h \in Groups /\ CloseGroup(m)' = CloseGroup(m)
    BY <1>1, <1>2, SameGroups
  <2>2. m \in dropped \ excluded \/ CloseGroup(m) = g
    BY <1>1, <1>2, <1>3 DEF RootIDs
  <2>3. ~Thinner(h, CloseGroup(m))
    BY <1>1, <1>2, <2>1, <2>2 DEF Densest
  <2>4. PICK c : c = CloseGroup(m)
    OBVIOUS
  <2>5. ~Thinner(h, c)'
    BY <1>2, <2>3, <2>4, SameGroups
  <2>6. c = CloseGroup(m)'
    BY <2>1, <2>4
  <2> QED BY <2>5, <2>6 DEF Thinner, Strength, RootIDs, Excess, CostOf
<1> QED BY <1>2, <1>3 DEF Densest

\* A step that sheds and selects nothing leaves the order alone.
LEMMA DensestSame ==
    ASSUME Densest, UNCHANGED <<corpus, local, picked, excluded, dropped>>,
           stage' \in {"shed", "send"} => stage \in CallWorking,
           stage' \in {"load", "local", "select"} => stage \in {"load", "local", "select"}
    PROVE  Densest'
<1>1. ASSUME stage' \in {"shed", "send"}, NEW m \in dropped' \ excluded', NEW h \in Groups'
      PROVE  ~Thinner(h, CloseGroup(m))'
  <2>1. h \in Groups /\ CloseGroup(m)' = CloseGroup(m)
    BY <1>1, SameGroups
  <2>2. ~Thinner(h, CloseGroup(m))
    BY <1>1, <2>1 DEF Densest, CallWorking
  <2>3. PICK c : c = CloseGroup(m)
    OBVIOUS
  <2>4. ~Thinner(h, c)'
    BY <2>2, <2>3, SameGroups
  <2>5. c = CloseGroup(m)'
    BY <2>1, <2>3
  <2> QED BY <2>4, <2>5 DEF Thinner, Strength, RootIDs, Excess, CostOf
<1> QED BY <1>1 DEF Densest

\* While the window holds what is pinned, there is a query.
LEMMA AnchorQueries ==
    ASSUME CallShape, Focus, stage \in CallWorking
    PROVE  Query # {}
<1>1. StoredThread(corpus) /\ Anchored /\ Pinned \subseteq local
  BY DEF CallShape, Focus
<1>2. Anchor \in local /\ hasSemanticBlock(Anchor) /\ OfCurrentTurn(Anchor)
  BY <1>1, PinnedWindow DEF Pinned
<1> QED BY <1>2 DEF Query, Semantic

\* A step that leaves the pinned messages in the window keeps the focus.
LEMMA FocusStep ==
    ASSUME UNCHANGED thread, Anchored, Pinned \subseteq local'
    PROVE  Focus'
BY CallThread DEF Focus

\* CallInv holds initially.
LEMMA InitCall == CallInit => CallInv
<1> SUFFICES ASSUME CallInit PROVE CallInv
  OBVIOUS
<1>1. stage = "load" /\ dropped = {} /\ excluded = {} /\ published = 0 /\ credited = {}
  BY DEF CallInit
<1> QED BY <1>1 DEF CallInv, Densest, Focus, CallSent, CallRecorded, CallWorking

\* Every step preserves CallInv.
LEMMA StepCall == ClosedInv /\ CallInv /\ [CallNext]_callVars => CallInv'
<1> SUFFICES ASSUME ClosedInv, CallInv, [CallNext]_callVars PROVE CallInv'
  OBVIOUS
<1>i. CallShape /\ Densest /\ Focus /\ CallSent /\ CallRecorded
  BY DEF ClosedInv, CallInv
<1>k. ASSUME UNCHANGED <<thread, local>>, stage' \in CallWorking => stage \in CallWorking
      PROVE  Focus'
  <2>1. CASE stage \in CallWorking
    BY <1>i, <1>k, <2>1, FocusStep DEF Focus
  <2> QED BY <1>k, <2>1 DEF Focus
<1>1. CASE UNCHANGED callVars
  <2>1. Densest' /\ Focus'
    BY <1>1, <1>i, <1>k, DensestSame DEF callVars, thread, CallWorking
  <2>2. CallSent'
    BY <1>1, <1>i, CallThread DEF callVars, thread, CallSent, Fits, wireTokens
  <2> QED BY <1>1, <1>i, <2>1, <2>2 DEF callVars, CallInv, CallRecorded
<1>2. CASE Fail /\ stage \in {"load"} \cup CallWorking
  BY <1>2, <1>i DEF Fail, CallInv, Densest, Focus, CallSent, CallRecorded, CallWorking
<1>3. CASE Forward
  BY <1>3, <1>i DEF Forward, CallInv, Densest, Focus, CallSent, CallRecorded, CallWorking
<1>4. CASE LoadWindow
  <2>1. stage = "load" /\ stage' = "local" /\ Anchored /\ local' = Window
        /\ UNCHANGED <<thread, dropped, excluded, published, credited>>
    BY <1>4 DEF LoadWindow
  <2>2. Focus'
    BY <1>i, <2>1, FocusStep, PinnedWindow DEF CallShape
  <2> QED BY <1>i, <2>1, <2>2 DEF CallInv, Densest, CallSent, CallRecorded
<1>5. CASE ShedLocal
  <2>1. stage = "local" /\ stage' = "local" /\ local \ Pinned # {}
        /\ local' = local \ {Min(local \ Pinned)}
        /\ UNCHANGED <<thread, dropped, excluded, published, credited>>
    BY <1>5 DEF ShedLocal, oldestUnpinned
  <2>2. Min(local \ Pinned) \in local \ Pinned
    BY <1>i, <2>1, LeastMessage DEF CallShape
  <2>3. Anchored /\ Pinned \subseteq local
    BY <1>i, <2>1 DEF Focus, CallWorking
  <2>4. Focus'
    BY <2>1, <2>2, <2>3, FocusStep
  <2> QED BY <1>i, <2>1, <2>4 DEF CallInv, Densest, CallSent, CallRecorded
<1>6. CASE LocalFits
  <2>1. stage = "local" /\ stage' \in {"select", "shed"}
        /\ UNCHANGED <<thread, local, picked, dropped, excluded, published, credited>>
    BY <1>6 DEF LocalFits
  <2>2. Densest' /\ Focus'
    BY <1>i, <1>k, <2>1, DensestSame DEF thread, CallWorking
  <2> QED BY <1>i, <2>1, <2>2 DEF CallInv, CallSent, CallRecorded
<1>7. CASE Select
  <2>1. stage = "select" /\ stage' = "shed"
        /\ UNCHANGED <<thread, local, dropped, excluded, published, credited>>
    BY <1>7 DEF Select
  <2>2. Focus'
    BY <1>k, <2>1 DEF CallWorking
  <2> QED BY <1>i, <2>1, <2>2 DEF CallInv, Densest, CallSent, CallRecorded
<1>8. CASE ShedGroup
  <2>1. stage = "shed" /\ stage' = "shed" /\ UNCHANGED <<thread, local, published, credited>>
    BY <1>8 DEF ShedGroup
  <2>2. Focus'
    BY <1>k, <2>1 DEF CallWorking
  <2> QED BY <1>8, <1>i, <2>1, <2>2, DensestShed DEF CallInv, CallSent, CallRecorded
<1>9. CASE Assembled
  <2>1. stage = "shed" /\ stage' = "send" /\ Fits(Delivery) /\ wire' = Delivery
        /\ published' = (IF published = 0 /\ Query # {} THEN 1 ELSE published)
        /\ UNCHANGED <<thread, local, picked, dropped, excluded, credited>>
    BY <1>9 DEF Assembled
  <2>2. Densest' /\ Focus'
    BY <1>i, <1>k, <2>1, DensestSame DEF thread, CallWorking
  <2>3. published' = 1 /\ credited' = {}
    BY <1>i, <2>1, AnchorQueries DEF CallRecorded, CallWorking
  <2>4. Fits(wire)'
    BY <2>1 DEF Fits, wireTokens, thread
  <2>5. Pinned' \subseteq wire'
    <3>1. local \subseteq Delivery
      BY DEF Delivery, LocalIDs, Close, CloseGroup
    <3>2. Pinned \subseteq local
      BY <1>i, <2>1 DEF Focus, CallWorking
    <3> QED BY <2>1, <3>1, <3>2, CallThread
  <2> QED BY <2>2, <2>3, <2>4, <2>5 DEF CallInv, CallSent, CallRecorded
<1>10. CASE Respond
  <2>1. stage = "send" /\ stage' \in {"done", "cut"} /\ UNCHANGED published
    BY <1>10 DEF Respond
  <2> QED BY <1>i, <2>1 DEF CallInv, Densest, Focus, CallSent, CallRecorded, CallWorking
<1>11. CASE Overflow
  <2>1. stage = "send" /\ stage' = "local" /\ dropped' = excluded' /\ local' = Window
        /\ UNCHANGED <<thread, published, credited>>
    BY <1>11 DEF Overflow, Retry
  <2>2. Anchored
    BY <1>i, <2>1 DEF Focus, CallWorking
  <2>3. Focus'
    BY <1>i, <2>1, <2>2, FocusStep, PinnedWindow DEF CallShape
  <2> QED BY <1>i, <2>1, <2>3 DEF CallInv, Densest, CallSent, CallRecorded
<1>12. CallNext =>
          \/ (Fail /\ stage \in {"load"} \cup CallWorking)
          \/ Forward \/ LoadWindow \/ ShedLocal \/ LocalFits \/ Select
          \/ ShedGroup \/ Assembled \/ Respond \/ Overflow
  BY DEF CallNext, LoadFails, StoreFails, LocalFails, ShedFails, SendFails,
         OverflowFails, CallWorking
<1> QED BY <1>1, <1>2, <1>3, <1>4, <1>5, <1>6, <1>7, <1>8, <1>9, <1>10, <1>11, <1>12

\* Every request fits the budget, keeps what the question is about, and gave up
\* its least dense groups for it, and the call is recorded once, whatever is
\* selected and however often the provider overflows.
THEOREM CallSoundHolds == CallSpec => []CallSound
<1>1. ClosedInv /\ CallInv => CallSound
  <2> SUFFICES ASSUME ClosedInv, CallInv PROVE CallSound
    OBVIOUS
  <2>1. CallShape /\ Densest /\ Focus /\ CallSent /\ CallRecorded
    BY DEF ClosedInv, CallInv
  <2>2. WireFits /\ RecordsOnce /\ DenseKept
    BY <2>1 DEF WireFits, RecordsOnce, DenseKept, CallSent, CallRecorded, Densest
  <2>3. FocusKept
    BY <2>1, AnchorQueries DEF FocusKept, CallSent, CallWorking
  <2> QED BY <2>2, <2>3 DEF CallSound
<1> QED BY InitClosed, StepClosed, InitCall, StepCall, <1>1, PTL DEF CallSpec
=============================================================================
