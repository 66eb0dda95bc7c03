------------------------------ MODULE ModelCall ------------------------------
(***************************************************************************)
(* One outbound model call: RRCLLM.GenerateContent (adkbridge/rrcllm.go)   *)
(* loads the Local Context window, Engine.Assemble (rrc/assembly.go)       *)
(* closes it under the tool-call protocol (rrc/protocol.go), selects       *)
(* prerequisites and sheds to the budget, and the provider answers, breaks *)
(* the stream off or reports a context overflow, which retries with one    *)
(* more message excluded.                                                  *)
(*                                                                         *)
(* A message is its position in the thread.  What the scorer selects, and  *)
(* how strongly, is a free choice; a strength is in bits, and Certain is   *)
(* the confidence 1, whose bits are infinite.                              *)
(***************************************************************************)
EXTENDS Integers, FiniteSets, FiniteSetsExt

CONSTANTS
    Corpora,        \* stored threads: turn, kind, partner and cost of each position
    LocalSize,      \* cfg.LocalContextSize
    Budget,         \* effective budget in tokens; 0: none
    Fixed,          \* tokens of the system prompt and the tool schemas
    Strengths,      \* bits of a selected message
    Certain,        \* the largest strength
    Stance          \* stanceBits(cfg.LossRatio)

\* A stored thread: partner is the counterpart of a tool call or result, 0 for
\* a message without one, and Missing when it is not in the store.
Missing == -1
Thread(n) == [turn: [1 .. n -> Nat \ {0}], kind: [1 .. n -> {"user", "assistant", "tool"}],
              partner: [1 .. n -> -1 .. n], cost: [1 .. n -> Nat]]

\* A counterpart is of the same turn, and its counterpart is the message itself.
StoredThread(c) ==
    /\ Cardinality(DOMAIN c.turn) \in Nat
    /\ c \in Thread(Cardinality(DOMAIN c.turn))
    /\ \A m \in DOMAIN c.turn :
          c.partner[m] > 0 => /\ c.partner[c.partner[m]] = m
                              /\ c.turn[c.partner[m]] = c.turn[m]

ASSUME ModelCallAssumption ==
    /\ LocalSize \in Nat \ {0} /\ Budget \in Nat /\ Fixed \in Nat /\ Stance \in Nat
    /\ Strengths \subseteq Nat /\ Certain \in Strengths
    /\ \A c \in Corpora : StoredThread(c)

VARIABLES
    corpus, cur,    \* the stored thread; CurrentTurnID, 0 if none
    stage,          \* "load", "local", "select", "shed", "send", "done", "cut", "failed"
    local,          \* Local Context messages not shed
    picked,         \* SelectionResult.Selected: strength of each selected message
    selected,       \* "yes" once there is a selection to reuse
    dropped,        \* Assemble's dropped
    excluded,       \* excludeIDs
    wire,           \* the messages of the request
    published,      \* selection events published
    credited        \* contributors recorded as provenance

thread   == <<corpus, cur>>
callVars == <<thread, stage, local, picked, selected, dropped, excluded, wire, published, credited>>

Messages == DOMAIN corpus.turn
Empty    == [m \in {} |-> 0]

CallInit ==
    /\ corpus \in Corpora
    /\ cur \in {corpus.turn[m] : m \in Messages} \cup {0}
    /\ stage = "load" /\ local = {} /\ picked = Empty /\ selected = "no"
    /\ dropped = {} /\ excluded = {} /\ wire = {} /\ published = 0 /\ credited = {}
-----------------------------------------------------------------------------
(* The window: the current and the preceding turn, or the latest messages. *)

TurnMessages(t) == {m \in Messages : corpus.turn[m] = t}
RecentMessages  == {m \in Messages : Cardinality({n \in Messages : n > m}) < LocalSize}

\* BuildLocalContext: the last LocalSize messages of a window.
BuildLocalContext(W) == {m \in W : Cardinality({n \in W : n > m}) < LocalSize}

\* The latest turn other than t, whole.
PrecedingTurn(t) ==
    LET others == Messages \ TurnMessages(t)
    IN IF others = {} THEN {} ELSE TurnMessages(corpus.turn[Max(others)])

Identified == cur # 0

\* Both turns by id, in the order of positions, which are the messages.
mergeByPosition(S, T) == S \cup T
Window == IF Identified THEN mergeByPosition(PrecedingTurn(cur), TurnMessages(cur)) ELSE RecentMessages

\* BuildActiveDiscourse: the suffix of the window that begins with the turn.
TurnRecord == IF Identified THEN {m \in Window : m >= Min(TurnMessages(cur))}
              ELSE BuildLocalContext(Window)

\* Text or thinking; a call, a result, an image or an attachment is "tool".
hasSemanticBlock(m) == corpus.kind[m] # "tool"
Semantic(S) == {m \in S : hasSemanticBlock(m)}
Of(S, k)    == {m \in S : corpus.kind[m] = k}
Latest(S)   == IF S = {} THEN {} ELSE {Max(S)}

Anchor == Max(Semantic(TurnRecord))
Pinned == {Anchor} \cup Latest(Of(Window, "user")) \cup Latest(Of(Window, "assistant"))

\* There is an anchor, and Assemble's check that it is of the current turn: a
\* message of another turn stored during it fails the call.
OfCurrentTurn(m) == Identified => corpus.turn[m] = cur
Anchored == IF Semantic(TurnRecord) = {} THEN FALSE ELSE OfCurrentTurn(Anchor)

\* SerializeLocalContext: the messages whose chunks query the scorer, those of
\* the current turn among what is left of the window; there is a serialization
\* when there is one.
Query == {m \in Semantic(local) : OfCurrentTurn(m)}

Fail ==
    /\ stage' = "failed"
    /\ UNCHANGED <<thread, local, picked, selected, dropped, excluded, wire, published, credited>>

\* An empty thread is forwarded as it is, without assembly or retry.
Forward ==
    /\ stage = "load" /\ Messages = {}
    /\ stage' \in {"done", "cut", "failed"}
    /\ UNCHANGED <<thread, local, picked, selected, dropped, excluded, wire, published, credited>>

LoadWindow ==
    /\ stage = "load" /\ Messages # {}
    /\ Anchored
    /\ local' = Window
    /\ stage' = "local"
    /\ UNCHANGED <<thread, picked, selected, dropped, excluded, wire, published, credited>>

LoadFails ==
    /\ stage = "load" /\ Messages # {}
    /\ ~Anchored
    /\ Fail

\* A read of the store, the scorer or the oracle fails: none is retried.
StoreFails == stage \in {"load", "local", "select"} /\ Fail
-----------------------------------------------------------------------------
(* Protocol closure.                                                       *)

\* Mutant: a root is delivered without its counterpart.
RootAlone(m) == {m}

\* CloseGroup: a message and the counterpart the provider requires with it.
CloseGroup(m) == {m} \cup ({corpus.partner[m]} \ {0, Missing})

\* protocolScope looks for counterparts in the turns of the roots.
TurnPeers(S) == UNION {TurnMessages(corpus.turn[m]) : m \in S}

Close(S)  == UNION {CloseGroup(m) : m \in S}
Broken(S) == \E m \in S : corpus.partner[m] # 0 /\ corpus.partner[m] \notin TurnPeers(S)

TokensOf(c, S) == MapThenSumSet(LAMBDA m : c.cost[m], S)
wireTokens(S)  == Fixed + TokensOf(corpus, S)
Fits(S)       == Budget = 0 \/ wireTokens(S) <= Budget
-----------------------------------------------------------------------------
(* Local Context has priority; it sheds its oldest unpinned message.       *)

oldestUnpinned == {Min(local \ Pinned)}

ShedLocal ==
    /\ stage = "local" /\ ~Broken(local) /\ ~Fits(Close(local))
    /\ local \ Pinned # {}
    /\ local' = local \ oldestUnpinned
    /\ UNCHANGED <<thread, stage, picked, selected, dropped, excluded, wire, published, credited>>

LocalFails ==
    /\ stage = "local"
    /\ Broken(local) \/ (~Fits(Close(local)) /\ local \subseteq Pinned)
    /\ Fail

\* A retry goes on with the selection of the first attempt.
LocalFits ==
    /\ stage = "local" /\ ~Broken(local) /\ Fits(Close(local))
    /\ stage' = IF selected = "yes" THEN "shed" ELSE "select"
    /\ UNCHANGED <<thread, local, picked, selected, dropped, excluded, wire, published, credited>>
-----------------------------------------------------------------------------
(* Selection and shed-to-fit.                                              *)

\* SelectPrerequisites, Select and ApplyMMR, unless there is no query: edges
\* recorded for the anchor by earlier calls may lead back into the window.
Select ==
    /\ stage = "select"
    /\ \E S \in IF Query = {} THEN {{}} ELSE SUBSET (Messages \ {Anchor}) : picked' \in [S -> Strengths]
    /\ selected' = "yes" /\ stage' = "shed"
    /\ UNCHANGED <<thread, local, dropped, excluded, wire, published, credited>>

LocalIDs == Close(local)
groupOverlaps(g) == g \cap LocalIDs # {}
Roots(D) == {m \in DOMAIN picked \ (D \cup LocalIDs) : ~groupOverlaps(CloseGroup(m))}
Groups   == {CloseGroup(m) : m \in Roots(dropped)}

\* mergeDeliveryGroups: the roots of a group, and the strength of its best.
RootIDs(g)  == {m \in Roots(excluded) : CloseGroup(m) = g}
Strength(g) == Max({picked[m] : m \in RootIDs(g)})

\* lowestDensityGroup's order: strength over the stance per token, where a
\* certain group is above every other.
CostOf(g) == IF TokensOf(corpus, g) < 1 THEN 1 ELSE TokensOf(corpus, g)
Excess(g) == Strength(g) - Stance
Thinner(g, h) ==
    /\ Strength(g) # Certain
    /\ Strength(h) = Certain \/ Excess(g) * CostOf(h) < Excess(h) * CostOf(g)

Delivery == (UNION Groups) \cup LocalIDs
Certains == {g \in Groups : Strength(g) = Certain}

\* Mutant: sheds the weakest group, whatever it costs.
ShedWeakest ==
    /\ stage = "shed" /\ ~Broken(Roots(dropped)) /\ ~Fits(Delivery)
    /\ \E g \in Groups \ Certains :
          /\ \A h \in Groups : Strength(g) <= Strength(h)
          /\ dropped' = dropped \cup RootIDs(g)
    /\ UNCHANGED <<thread, stage, local, picked, selected, excluded, wire, published, credited>>

\* The group of the lowest density goes, all its roots with it.
ShedGroup ==
    /\ stage = "shed" /\ ~Broken(Roots(dropped)) /\ ~Fits(Delivery)
    /\ \E g \in Groups \ Certains :
          /\ \A h \in Groups : ~Thinner(h, g)
          /\ dropped' = dropped \cup RootIDs(g)
    /\ UNCHANGED <<thread, stage, local, picked, selected, excluded, wire, published, credited>>

\* No group of finite density is left to shed.
ShedFails ==
    /\ stage = "shed"
    /\ Broken(Roots(dropped)) \/ (~Fits(Delivery) /\ Groups = Certains)
    /\ Fail

\* The wire fits; edges and, if there was a query, the selection are published
\* once per call.
Assembled ==
    /\ stage = "shed" /\ ~Broken(Roots(dropped)) /\ Fits(Delivery)
    /\ wire' = Delivery
    /\ published' = IF published = 0 /\ Query # {} THEN 1 ELSE published
    /\ stage' = "send"
    /\ UNCHANGED <<thread, local, picked, selected, dropped, excluded, credited>>
-----------------------------------------------------------------------------
(* The provider.                                                           *)

\* recordProvenance: into the anchor go edges from the turn record and from what
\* was selected on positive raw evidence, which is independent of the strength.
Credit == \E S \in SUBSET DOMAIN picked : credited' = (TurnRecord \cup S) \ {Anchor}

\* The response is complete, or breaks off after its first chunk, which
\* tryStream reports to the consumer and returns as no error.
Respond ==
    /\ stage = "send"
    /\ Credit
    /\ stage' \in {"done", "cut"}
    /\ UNCHANGED <<thread, local, picked, selected, dropped, excluded, wire, published>>

SendFails == stage = "send" /\ Fail

\* lowestSurvivingScore: the weakest selected message not yet excluded.
Lowest(S) == {m \in S : \A n \in S : picked[m] <= picked[n]}

Retry(candidates) ==
    /\ stage = "send" /\ candidates # {}
    /\ \E m \in Lowest(candidates) : excluded' = excluded \cup {m}
    /\ dropped' = excluded' /\ local' = Window /\ stage' = "local"
    /\ UNCHANGED <<thread, picked, selected, wire, published, credited>>

\* Mutant: a message that is already excluded is excluded again.
OverflowAgain == Retry(DOMAIN picked)

Overflow == Retry(DOMAIN picked \ excluded)

OverflowFails == stage = "send" /\ DOMAIN picked \subseteq excluded /\ Fail

CallNext ==
    \/ Forward \/ LoadWindow \/ LoadFails
    \/ ShedLocal \/ LocalFails \/ LocalFits
    \/ Select \/ StoreFails
    \/ ShedGroup \/ ShedFails \/ Assembled
    \/ Respond \/ SendFails \/ Overflow \/ OverflowFails

CallSpec == CallInit /\ [][CallNext]_callVars

\* The goroutine of the call runs; the provider answers every request.
CallFairSpec == CallSpec /\ WF_callVars(CallNext)
-----------------------------------------------------------------------------
(* Properties.                                                             *)

\* Every request holds the result of each tool call in it and the call of each
\* result, whatever was shed from the window, selected, merged or excluded.
WireClosed ==
    stage = "send" => \A m \in wire : corpus.partner[m] # Missing
                                   /\ (corpus.partner[m] > 0 => corpus.partner[m] \in wire)

\* No request exceeds the budget, however often an overflow reassembled it.
WireFits == stage = "send" => Fits(wire)

\* The anchor and the latest user and assistant messages of the window are in
\* every request, and shedding never emptied the query: no request goes out
\* without a selection.
FocusKept == stage = "send" => Pinned \subseteq wire /\ Query # {} /\ published = 1

\* What the budget refused is nowhere denser than what it let through: the
\* groups shed (not those excluded after an overflow) are the worst.
DenseKept ==
    stage = "send" =>
       \A m \in dropped \ excluded, g \in Groups : ~Thinner(g, CloseGroup(m))

\* One call publishes its selection event at most once over all its retries,
\* and provenance is recorded only for a call whose selection was published and
\* whose request the provider took: a failed or overflowed send records
\* nothing.  (The record also holds what the budget shed.)
RecordsOnce == published <= 1 /\ (credited # {} => stage \in {"done", "cut"} /\ published = 1)

\* Every request fits, keeps what the question is about, and gave up its least
\* dense groups for it, and the call is recorded once, also after overflows and
\* reassemblies.
CallSound == WireFits /\ FocusKept /\ DenseKept /\ RecordsOnce

\* A call ends, although every request may overflow: each retry excludes one
\* more message.
CallEnds == <>(stage \in {"done", "cut", "failed"})
=============================================================================
