----------------------------- MODULE WireCodec -----------------------------
(***************************************************************************)
(* What each chat adapter puts on the wire for an assembled request, and   *)
(* what its counting projection charges for it.  A message is a role and a *)
(* sequence of content blocks; texts and arguments are left out, so a      *)
(* block is known by its place <<message, block>> in the request.          *)
(***************************************************************************)
EXTENDS Integers, Sequences, FiniteSets, SequencesExt

CONSTANT CallIds                \* ids of tool calls

NoId       == "no id"
BlockKinds == {"text", "empty", "thinking", "signed", "call", "result"}
Block      == [kind : BlockKinds, id : CallIds \cup {NoId}]
Message    == [role : {"user", "assistant", "system"}, content : Seq(Block)]

\* The places of the blocks of the given kinds in message i.
Places(msgs, i, kinds) ==
    {<<i, j>> : j \in {k \in DOMAIN msgs[i].content : msgs[i].content[k].kind \in kinds}}
AllPlaces(msgs, kinds) == UNION {Places(msgs, i, kinds) : i \in DOMAIN msgs}
BlockAt(msgs, p)       == msgs[p[1]].content[p[2]]
-----------------------------------------------------------------------------
(* chatwire.Canonicalize.                                                  *)

RoleString(role) == IF role \in {"assistant", "system"} THEN role ELSE "user"

\* Phase 1: the atoms of one message, in the order text and thinking, calls,
\* results.  Empty text parts make an atom without text.
AtomsOf(msgs, i) ==
    LET content == msgs[i].content
        one(kind) == [j \in DOMAIN content |->
            IF content[j].kind # kind THEN << >>
            ELSE << [kind |-> kind, role |-> "assistant", text |-> {}, thinking |-> {},
                     id |-> content[j].id, at |-> <<i, j>>] >>]
        spoken == IF Places(msgs, i, {"text", "empty", "thinking", "signed"}) = {} THEN << >>
                  ELSE << [kind |-> "text", role |-> RoleString(msgs[i].role),
                           text |-> Places(msgs, i, {"text"}),
                           thinking |-> Places(msgs, i, {"thinking", "signed"}),
                           id |-> NoId, at |-> <<i, 0>>] >>
    IN  spoken \o FlattenSeq(one("call")) \o FlattenSeq(one("result"))

Atoms(msgs) == FlattenSeq([i \in DOMAIN msgs |-> AtomsOf(msgs, i)])

ResultIds(as) == {as[i].id : i \in {k \in DOMAIN as : as[k].kind = "result"}}

\* Adjacent calls form a group, of which those with a result are kept.
GroupStart(as, i) == as[i].kind = "call" /\ (i = 1 \/ as[i - 1].kind # "call")
InGroup(as, i, j) == i <= j /\ \A k \in i .. j : as[k].kind = "call"

\* Mutant: the orphan filter is missing.
GroupUnfiltered(as, i) == {j \in DOMAIN as : InGroup(as, i, j)}

Group(as, i)    == {j \in DOMAIN as : InGroup(as, i, j) /\ as[j].id \in ResultIds(as)}
GroupIds(as, i) == {as[j].id : j \in Group(as, i)}

\* A result goes to the first group before it that has its call.
Claims(as, i, k) ==
    /\ as[k].kind = "result" /\ i < k /\ as[k].id \in GroupIds(as, i)
    /\ ~\E h \in 1 .. i - 1 : GroupStart(as, h) /\ as[k].id \in GroupIds(as, h)

\* Thinking waits for the next text or group, and is lost with an orphaned group.
Flushes(as, i)  == GroupStart(as, i) \/ (as[i].kind = "text" /\ as[i].text # {})
Buffered(as, i) ==
    UNION {as[t].thinking : t \in {k \in 1 .. i - 1 :
        /\ as[k].kind = "text" /\ as[k].text = {}
        /\ \A h \in k + 1 .. i - 1 : ~Flushes(as, h)}}

ToolMessage(a) ==
    [role |-> "tool", text |-> {a.at}, thinking |-> {}, calls |-> {}, ids |-> {}, answers |-> a.id]

\* Phase 2: what atom i contributes to the canonical messages.
Emitted(as, i) ==
    CASE as[i].kind = "text" /\ as[i].text # {} ->
            << [role |-> as[i].role, text |-> as[i].text,
                thinking |-> Buffered(as, i) \cup as[i].thinking,
                calls |-> {}, ids |-> {}, answers |-> NoId] >>
      [] GroupStart(as, i) /\ Group(as, i) # {} ->
            << [role |-> "assistant", text |-> {}, thinking |-> Buffered(as, i),
                calls |-> {as[j].at : j \in Group(as, i)}, ids |-> GroupIds(as, i),
                answers |-> NoId] >>
            \o FlattenSeq([k \in DOMAIN as |-> IF Claims(as, i, k) THEN <<ToolMessage(as[k])>> ELSE << >>])
      [] OTHER -> << >>

Canonicalize(msgs) ==
    LET as == Atoms(msgs) IN FlattenSeq([i \in DOMAIN as |-> Emitted(as, i)])
-----------------------------------------------------------------------------
(* The adapters' request codecs: the places of the blocks they send.       *)

System(msgs) == {i \in DOMAIN msgs : msgs[i].role = "system"}

\* A codec with one system field keeps the last system message.
Hoisted(msgs) == {i \in DOMAIN msgs : i \in System(msgs) => \A j \in System(msgs) : j <= i}

\* anthropic.toAPIContent: thinking is replayed only with its signature.
toAPIContent(msgs, i) == Places(msgs, i, {"text", "signed", "call", "result"})

\* The system field takes text only.
toAPIRequest(msgs) ==
    UNION {IF i \in System(msgs) THEN Places(msgs, i, {"text"}) ELSE toAPIContent(msgs, i) :
             i \in Hoisted(msgs)}

\* openai.fromCanonicalMessage drops thinking.
toChatRequest(msgs) ==
    UNION {m.text \cup m.calls : m \in ToSet(Canonicalize(msgs))}

\* ollama.toLlamaMsgs keeps it.
toLlamaMsgs(msgs) ==
    UNION {m.text \cup m.calls \cup m.thinking : m \in ToSet(Canonicalize(msgs))}

\* genaicodec.ProtoToContent converts every block.
ProtoToContent(msgs, i) == Places(msgs, i, BlockKinds \ {"empty"})

\* genaikit.encode hoists the system message.
encode(msgs) == UNION {ProtoToContent(msgs, i) : i \in Hoisted(msgs)}

Sent(adapter, msgs) ==
    CASE adapter = "anthropic" -> toAPIRequest(msgs)
      [] adapter = "openai"    -> toChatRequest(msgs)
      [] adapter = "ollama"    -> toLlamaMsgs(msgs)
      [] adapter = "genai"     -> encode(msgs)

(* The adapters' counting projections: the kinds of blocks they charge.    *)
CountAnthropic == {"text", "signed", "call", "result"}
CountOpenAI    == {"text", "call", "result"}
CountOllama    == {"text", "thinking", "signed", "call", "result"}
CountGenai     == {"text", "thinking", "signed", "call", "result"}

Counted(adapter, msgs) ==
    AllPlaces(msgs, CASE adapter = "anthropic" -> CountAnthropic
                      [] adapter = "openai"    -> CountOpenAI
                      [] adapter = "ollama"    -> CountOllama
                      [] adapter = "genai"     -> CountGenai)

\* toAPIToolChoice, toChatToolChoice, toToolConfig: a named choice without a
\* name and an unknown mode are refused; ollama has no tool choice.
ToolChoices == {"unset", "auto", "none", "required", "named", "nameless", "unknown"}
AnthropicRefuses(choice) == choice \in {"nameless", "unknown"}
OpenAIRefuses(choice)    == choice \in {"nameless", "unknown"}
GenaiRefuses(choice)     == choice \in {"nameless", "unknown"}
Refuses(adapter, choice) ==
    CASE adapter = "anthropic" -> AnthropicRefuses(choice)
      [] adapter = "openai"    -> OpenAIRefuses(choice)
      [] adapter = "genai"     -> GenaiRefuses(choice)
      [] adapter = "ollama"    -> FALSE
-----------------------------------------------------------------------------
(* What a request owes the provider.                                       *)

\* The ids of a request are unique and no result precedes its call, as the
\* stored thread guarantees within a turn.
WellNumbered(msgs) ==
    \A k \in {"call", "result"} : \A p, q \in AllPlaces(msgs, {k}) :
        BlockAt(msgs, p).id = BlockAt(msgs, q).id => p = q

CallsFirst(msgs) ==
    \A p \in AllPlaces(msgs, {"call"}), q \in AllPlaces(msgs, {"result"}) :
        BlockAt(msgs, p).id = BlockAt(msgs, q).id => p[1] <= q[1]

Paired(msgs) ==
    {BlockAt(msgs, p).id : p \in AllPlaces(msgs, {"call"})}
        = {BlockAt(msgs, p).id : p \in AllPlaces(msgs, {"result"})}

\* In a canonical chat an assistant message speaks or calls, the results of its
\* calls follow it at once, and no other tool message occurs.
Answers(chat, i) == {j \in DOMAIN chat : j > i /\ \A k \in i + 1 .. j : chat[k].role = "tool"}
Valid(chat) ==
    \A i \in DOMAIN chat :
        /\ chat[i].role # "tool" => chat[i].text # {} \/ chat[i].ids # {}
        /\ {chat[j].answers : j \in Answers(chat, i)} = chat[i].ids \/ chat[i].role = "tool"
        /\ chat[i].role = "tool" => \E j \in 1 .. i - 1 : i \in Answers(chat, j) /\ chat[j].role # "tool"
=============================================================================
