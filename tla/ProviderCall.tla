---------------------------- MODULE ProviderCall ----------------------------
(***************************************************************************)
(* One request to a provider: the adapter encodes it, retry.Do repeats it, *)
(* the adapter decodes the provider's stream into chunks, the retry        *)
(* decorator passes them on, RRCLLM.tryStream turns them into ADK          *)
(* responses, and the usage the provider reports enters the token scale.   *)
(* Scoring requests take the same road without a stream.                   *)
(***************************************************************************)
EXTENDS WireCodec, Naturals

CONSTANTS
    Adapters,       \* subset of the four chat adapters
    Services,       \* subset of the services that score or embed a list of texts
    Requests,       \* bound: what each call in turn may ask: adapter, mode, messages, tool choice
    MaxAttempts,    \* Policy.MaxAttempts
    MaxFragments,   \* bound: fragments of one call's arguments
    MaxEvents,      \* bound: wire events of one stream
    Candidates,     \* number of texts to score or embed
    BatchSize,      \* rerankBatchSize, rankBatchSize
    Prompts,        \* prompt tokens a provider may report
    Predicted,      \* counter units assembly may have predicted
    Budget,         \* counter units the assembly ran under
    Window,         \* tokenscale's window
    MaxCrashes      \* bound: process crashes

\* Scorers that split their candidates and place hits by index, and services
\* whose answer is taken by position; the last two ask for one text at a time.
Batched    == {"tei", "gcpranking"}
OneByOne   == {"ollama embed", "genai embed"}
Unretried  == {"openai embed"} \cup OneByOne
Positional == {"zerank", "tei embed"} \cup Unretried

ASSUME ProviderAssumption ==
    /\ Adapters \subseteq {"anthropic", "openai", "ollama", "genai"}
    /\ Services \subseteq Batched \cup Positional
    /\ MaxAttempts \in Nat \ {0} /\ BatchSize \in Nat \ {0} /\ Window \in Nat \ {0}
    /\ MaxFragments \in Nat /\ MaxEvents \in Nat /\ MaxCrashes \in Nat
    /\ Candidates \in Nat /\ Prompts \subseteq Nat /\ Predicted \subseteq Nat /\ Budget \in Nat
    /\ IsFiniteSet(CallIds)
    /\ Len(Requests) \in Nat /\ DOMAIN Requests = 1 .. Len(Requests)
    /\ \A i \in DOMAIN Requests : \A r \in Requests[i] :
          /\ DOMAIN r = {"adapter", "mode", "msgs", "choice"} /\ r.mode \in {"stream", "complete", "bulk"}
          /\ r.msgs \in Seq(Message)

VARIABLES
    req,        \* the request: adapter, mode, messages, tool choice
    pc,         \* where the call is
    attempt,    \* retry.Do's attempt
    ctx,        \* the turn's context
    err,        \* the error the operation returned last
    note,       \* the retry event published last
    src,        \* provider: fragments sent per call, calls completed, events sent
    dec,        \* the adapter's stream state: calls under construction, usage held
    queue,      \* chunks the adapter has still to yield for the current event
    over,       \* the adapter's iterator has ended
    turn,       \* bridge: pending calls, and what ADK was given
    scores,     \* a scorer's result and the offset of its current batch
    ring,       \* tokenscale: admitted ratios in memory,
    file,       \*   on disk,
    tmp,        \*   and in the file about to be renamed
    calls, crashes

scale == <<ring, file, tmp>>
vars  == <<req, pc, attempt, ctx, err, note, src, dec, queue, over, turn, scores,
           scale, calls, crashes>>

None   == "none"
NoUsage  == -1
Absent   == [state |-> "absent", ring |-> << >>]
Torn     == [state |-> "torn", ring |-> << >>]
Saved(r) == [state |-> "whole", ring |-> r]
-----------------------------------------------------------------------------
(* Errors: what errors.Is and errors.As see of them, and which of the      *)
(* patterns of IsRetryable their text contains.                            *)

Err(status, sentinel, words) ==
    [status |-> status, sentinel |-> sentinel, words |-> words, ctx |-> FALSE]

Plain    == Err(0, None, {})                            \* decoding, refused tool choice
CtxErr   == [Plain EXCEPT !.ctx = TRUE]

\* StatusError.Unwrap
Sentinel(status) == CASE status \in {401, 403} -> "auth"
                      [] status = 429 -> "rate"
                      [] OTHER -> "unavailable"
StatusError(status) == Err(status, Sentinel(status), {})

\* Client.Do wraps a transport error by its text, so a cancelled context is no
\* longer one to errors.Is; DoJSON does the same with a failed read.
Transport == {Err(0, "unavailable", w) : w \in {{}, {"network"}}}

Codes == {400, 401, 408, 429, 503}

\* A whole-response operation puts code and body into the text; 401, 403 and 429
\* never get that far.  The body may contain any digits.
BodyError == {Err(0, "unavailable", w) : w \in {{}, {"4xx"}, {"4xx", "5xx"}, {"5xx"}}}

statusRetryable(code) == code \in {408, 429} \/ code \in 500 .. 599

IsRetryable(e) ==
    CASE e.ctx                       -> FALSE
      [] ~e.ctx /\ e.status # 0      -> statusRetryable(e.status)
      [] ~e.ctx /\ e.status = 0      ->
            \/ e.sentinel = "rate"
            \/ /\ e.sentinel = "unavailable"
               /\ "4xx" \in e.words => e.words \cap {"5xx", "network"} # {}
-----------------------------------------------------------------------------
(* Chunks and decoder state.                                               *)

Text     == [kind |-> "text"]
Thinking == [kind |-> "thinking"]
Call(b)  == [kind |-> "call", id |-> b.id, args |-> b.args]
Done(u)  == [kind |-> "done", error |-> FALSE, usage |-> u]
Broken   == [kind |-> "done", error |-> TRUE, usage |-> NoUsage]
Fail(e)  == [kind |-> "fail", err |-> e]

Build(c)  == [id |-> c, args |-> << >>]
Whole(c)  == [id |-> c, args |-> [k \in 1 .. src.frags[c] |-> <<c, k>>]]

NoStream  == [frags |-> [c \in CallIds |-> 0], closed |-> {}, begun |-> << >>, events |-> 0]
NoDecoder == [order |-> << >>, byIdx |-> [i \in 1 .. Cardinality(CallIds) |-> 0], held |-> NoUsage, signed |-> FALSE]
NoTurn    == [pending |-> << >>, given |-> {}, final |-> << >>, finals |-> 0, error |-> FALSE,
              from |-> {}, left |-> FALSE, usage |-> NoUsage]
NoScores  == [at |-> 0, end |-> FALSE, out |-> [i \in 1 .. Candidates |-> 0]]
NoRequest == [adapter |-> None, mode |-> None, msgs |-> << >>, choice |-> "unset"]

Init ==
    /\ req = NoRequest /\ pc = "idle" /\ attempt = 0 /\ ctx = "live" /\ err = Plain
    /\ note = None /\ src = NoStream /\ dec = NoDecoder /\ queue = << >> /\ over = FALSE
    /\ turn = NoTurn /\ scores = NoScores
    /\ ring = << >> /\ file = Absent /\ tmp = Absent /\ calls = 0 /\ crashes = 0
-----------------------------------------------------------------------------
(* retry.Do around one operation.                                          *)

stream == <<src, dec, queue, over>>

\* GenerateContent and the selection engine make their requests.
Begin ==
    /\ pc = "idle" /\ calls < Len(Requests)
    /\ req' \in Requests[calls + 1]
    /\ pc' = "attempt" /\ calls' = calls + 1
    /\ UNCHANGED <<attempt, ctx, err, note, stream, turn, scores, scale, crashes>>

\* Mutant: the context is looked at between attempts only.
GiveUpAtTop ==
    /\ pc = "attempt" /\ ctx = "canceled"
    /\ pc' = "failed" /\ err' = CtxErr
    /\ UNCHANGED <<req, attempt, ctx, note, stream, turn, scores, scale, calls, crashes>>

\* A cancelled context ends the loop before the next attempt, without an event.
GiveUp ==
    /\ pc \in {"attempt", "backoff"} /\ ctx = "canceled"
    /\ pc' = "failed" /\ err' = CtxErr
    /\ UNCHANGED <<req, attempt, ctx, note, stream, turn, scores, scale, calls, crashes>>

\* The adapter encodes the request, or refuses its tool choice.  Every attempt
\* encodes the same request, which is forgotten once it is on its way.
StartAttempt ==
    /\ pc = "attempt" /\ ctx = "live"
    /\ attempt' = attempt + 1
    /\ IF req.mode # "bulk" /\ Refuses(req.adapter, req.choice)
       THEN pc' = "classify" /\ err' = Plain
       ELSE pc' = "request" /\ UNCHANGED err
    /\ req' = [req EXCEPT !.msgs = << >>, !.choice = "unset"]
    /\ src' = NoStream /\ dec' = NoDecoder /\ queue' = << >> /\ over' = FALSE
    /\ UNCHANGED <<ctx, note, turn, scores, scale, calls, crashes>>

\* A failed operation is reported; a transient failure is repeated.
Classify ==
    /\ pc = "classify"
    /\ IF IsRetryable(err) /\ attempt < MaxAttempts /\ req.adapter \notin Unretried
       THEN pc' = "backoff" /\ note' = "retrying"
       ELSE pc' = "failed" /\ note' = IF req.adapter \in Unretried THEN note ELSE "final"
    /\ UNCHANGED <<req, attempt, ctx, err, stream, turn, scores, scale, calls, crashes>>

TimerFires ==
    /\ pc = "backoff" /\ pc' = "attempt"
    /\ UNCHANGED <<req, attempt, ctx, err, note, stream, turn, scores, scale, calls, crashes>>

Cancel ==
    /\ pc \notin {"idle", "returned", "failed"} /\ ctx' = "canceled"
    /\ UNCHANGED <<req, pc, attempt, err, note, stream, turn, scores, scale, calls, crashes>>

\* The operation returns an error to retry.Do.
OpFails(e) ==
    /\ pc' = "classify" /\ err' = e
    /\ UNCHANGED <<req, attempt, ctx, note, stream, turn, scores, scale, calls, crashes>>
-----------------------------------------------------------------------------
(* The HTTP exchange.                                                      *)

\* Client.Do, before any header; an SDK error carries neither status nor sentinel.
TransportFails ==
    /\ pc = "request"
    /\ \E e \in IF req.adapter = "genai" THEN {Plain, CtxErr} ELSE Transport : OpFails(e)

\* Client.Do and, for the other codes, NewStatusError of the streaming adapters.
Refused ==
    /\ pc = "request" /\ req.mode = "stream" /\ req.adapter # "genai"
    /\ \E code \in Codes : OpFails(StatusError(code))

\* Complete, Score and Embed: 401, 403 and 429 from Client.Do, any other code as text,
\* a body that does not decode, an answer without choices.
RefusedWhole ==
    /\ pc = "request" /\ req.mode \in {"complete", "bulk"} /\ req.adapter # "genai"
    /\ \E e \in {StatusError(401), StatusError(429), Plain} \cup BodyError : OpFails(e)

Accepted ==
    /\ pc = "request" /\ req.mode = "stream" /\ pc' = "body"
    /\ UNCHANGED <<req, attempt, ctx, err, note, stream, turn, scores, scale, calls, crashes>>

\* tryComplete: the whole answer is the only response.
tryComplete(a, usages) ==
    /\ pc = "request" /\ req.mode = "complete" /\ req.adapter = a
    /\ \E u \in usages, cs \in SUBSET CallIds :
          turn' = [turn EXCEPT !.finals = 1, !.given = {Build(c) : c \in cs},
                               !.from = {attempt}, !.usage = u]
    /\ src' = [src EXCEPT !.closed = CallIds]
    /\ pc' = "returned" /\ note' = "final"
    /\ UNCHANGED <<req, attempt, ctx, err, dec, queue, over, scores, scale, calls, crashes>>

\* Three adapters always report usage; genai reports what the SDK gives.
AnthropicCompletes == tryComplete("anthropic", Prompts)
OpenAICompletes    == tryComplete("openai", Prompts)
OllamaCompletes    == tryComplete("ollama", Prompts)
GenaiCompletes     == tryComplete("genai", Prompts \cup {NoUsage})

Completed == AnthropicCompletes \/ OpenAICompletes \/ OllamaCompletes \/ GenaiCompletes
-----------------------------------------------------------------------------
(* The provider's stream and the adapters' decoders.                       *)

Reading(a) == pc = "body" /\ req.adapter = a /\ queue = << >> /\ ~over
Live(a)    == Reading(a) /\ ctx = "live" /\ src.events < MaxEvents
Tick(s)    == [s EXCEPT !.events = @ + 1]

Yields(cs, last) == queue' = cs /\ over' = last
Rest == UNCHANGED <<req, pc, attempt, ctx, err, note, turn, scores, scale, calls, crashes>>

Begun(s, c)    == [Tick(s) EXCEPT !.begun = Append(@, c)]
Fragment(s, c) == [Tick(s) EXCEPT !.frags[c] = @ + 1]
Open           == {c \in ToSet(src.begun) : c \notin src.closed}
IndexOf(c)     == CHOOSE i \in DOMAIN src.begun : src.begun[i] = c
Arg(c)         == <<c, src.frags[c] + 1>>

\* Text and thinking deltas are passed on as they come.
Speaks(a) ==
    /\ Live(a) /\ \E k \in {Text, Thinking} : Yields(<<k>>, FALSE)
    /\ src' = Tick(src) /\ UNCHANGED dec /\ Rest

\* anthropic: content_block_start of a tool_use block,
BlockStart(c) ==
    /\ Live("anthropic") /\ c \notin ToSet(src.begun)
    /\ src' = Begun(src, c)
    /\ dec' = [dec EXCEPT !.order = Append(@, Build(c)), !.byIdx[Len(src.begun) + 1] = Len(dec.order) + 1]
    /\ Yields(<< >>, FALSE) /\ Rest

\* ... input_json_delta, found by the event's index,
BlockDelta(c) ==
    /\ Live("anthropic") /\ c \in Open /\ src.frags[c] < MaxFragments
    /\ src' = Fragment(src, c)
    /\ dec' = [dec EXCEPT !.order[dec.byIdx[IndexOf(c)]].args = Append(@, Arg(c))]
    /\ Yields(<< >>, FALSE) /\ Rest

\* ... content_block_stop: the block leaves the map and the call is complete.
BlockStop(c) ==
    /\ Live("anthropic") /\ c \in Open
    /\ src' = [Tick(src) EXCEPT !.closed = @ \cup {c}]
    /\ dec' = [dec EXCEPT !.byIdx[IndexOf(c)] = 0]
    /\ Yields(<<Call(dec.order[dec.byIdx[IndexOf(c)]])>>, FALSE) /\ Rest

\* ... signature_delta and the stop of a thinking block, which passes on a
\* signature and nothing else.
SignatureDelta ==
    /\ Live("anthropic") /\ dec' = [dec EXCEPT !.signed = TRUE]
    /\ src' = Tick(src) /\ Yields(<< >>, FALSE) /\ Rest

ThinkingStop ==
    /\ Live("anthropic") /\ dec' = [dec EXCEPT !.signed = FALSE]
    /\ src' = Tick(src) /\ Yields(IF dec.signed THEN <<Thinking>> ELSE << >>, FALSE) /\ Rest

\* message_start holds the prompt tokens, message_delta ends the stream with the
\* larger of the two reports.
MessageStart ==
    /\ Live("anthropic") /\ dec.held = NoUsage
    /\ \E u \in Prompts : dec' = [dec EXCEPT !.held = u]
    /\ src' = Tick(src) /\ Yields(<< >>, FALSE) /\ Rest

MessageDelta ==
    /\ Live("anthropic") /\ Open = {}
    /\ \E u \in Prompts :
          LET start == IF dec.held = NoUsage THEN 0 ELSE dec.held
          IN  Yields(<<Done(IF u > start THEN u ELSE start)>>, TRUE)
    /\ src' = Tick(src) /\ UNCHANGED dec /\ Rest

\* Mutant: a fragment always continues the newest call.
AddNewest(d, c, indexed, first) ==
    LET at == Len(d.order) + (IF first THEN 1 ELSE 0) IN
    [d EXCEPT !.order = IF first THEN Append(@, [id |-> c, args |-> <<Arg(c)>>])
                        ELSE [@ EXCEPT ![at].args = Append(@, Arg(c))],
              !.byIdx = IF first /\ indexed THEN [@ EXCEPT ![Len(src.begun) + 1] = at] ELSE @]

\* openai toolCallAccumulator.add: by index, or the newest call.
Add(d, c, indexed, first) ==
    LET slot == IF indexed THEN d.byIdx[IF first THEN Len(src.begun) + 1 ELSE IndexOf(c)]
                ELSE IF first THEN 0 ELSE Len(d.order)
        grown == IF slot = 0 THEN Append(d.order, Build(None)) ELSE d.order
        at    == IF slot = 0 THEN Len(grown) ELSE slot
    IN  [d EXCEPT !.order = [grown EXCEPT ![at] =
                      [id |-> IF first THEN c ELSE @.id, args |-> Append(@.args, Arg(c))]],
                  !.byIdx = IF slot = 0 /\ indexed THEN [@ EXCEPT ![Len(src.begun) + 1] = at] ELSE @]

\* A delta with the next fragment of call c: its id comes with the first one.
\* Endpoints without indices do not interleave their calls.
CallDelta(c, indexed) ==
    LET first == c \notin ToSet(src.begun) IN
    /\ Live("openai") /\ src.frags[c] < MaxFragments
    /\ ~indexed => \A i \in DOMAIN src.begun : src.begun[i] = c => i = Len(src.begun)
    /\ src.begun # << >> => (indexed <=> dec.byIdx[1] # 0)
    /\ src' = Fragment(IF first THEN [src EXCEPT !.begun = Append(@, c)] ELSE src, c)
    /\ dec' = Add(dec, c, indexed, first)
    /\ Yields(<< >>, FALSE) /\ Rest

\* A fragment that names no call is a malformed stream.
StrayDelta ==
    /\ Live("openai") /\ dec.order = << >>
    /\ src' = Tick(src) /\ UNCHANGED dec /\ Yields(<<Broken>>, TRUE) /\ Rest

\* The usage frame is held until [DONE].
UsageFrame ==
    /\ Live("openai") /\ \E u \in Prompts : dec' = [dec EXCEPT !.held = u]
    /\ src' = Tick(src) /\ Yields(<< >>, FALSE) /\ Rest

\* [DONE]: every fragment has arrived, the calls are emitted in first-seen order.
StreamDone ==
    /\ Live("openai")
    /\ src' = [Tick(src) EXCEPT !.closed = ToSet(src.begun)]
    /\ Yields([i \in DOMAIN dec.order |-> Call(dec.order[i])] \o <<Done(dec.held)>>, TRUE)
    /\ UNCHANGED dec /\ Rest

\* ollama: one JSON object, with text, whole calls and perhaps the end.
ObjectRead ==
    /\ Live("ollama")
    /\ \E say \in {<< >>, <<Thinking>>, <<Text>>, <<Thinking, Text>>},
          c \in (CallIds \ ToSet(src.begun)) \cup {None}, u \in Prompts \cup {NoUsage} :
          LET new == IF c = None THEN << >> ELSE <<Call(Build(c))>>
              end == IF u = NoUsage THEN << >> ELSE <<Done(u)>>
          IN  /\ Yields(say \o new \o end, u # NoUsage)
              /\ src' = IF c = None THEN Tick(src)
                        ELSE [Begun(src, c) EXCEPT !.closed = @ \cup {c}]
    /\ UNCHANGED dec /\ Rest

\* genai: a response with one part and perhaps usage,
PartRead ==
    /\ Live("genai")
    /\ \E c \in CallIds \ ToSet(src.begun), u \in Prompts \cup {NoUsage} :
          /\ Yields(<<Call(Build(c))>>, FALSE)
          /\ src' = [Begun(src, c) EXCEPT !.closed = @ \cup {c}]
          /\ dec' = [dec EXCEPT !.held = IF u = NoUsage THEN @ ELSE u]
    /\ Rest

\* ... an error of the SDK, passed on as an error,
PartFails ==
    /\ Reading("genai") /\ \E e \in {Plain, CtxErr} : Yields(<<Fail(e)>>, TRUE)
    /\ UNCHANGED <<src, dec>> /\ Rest

\* ... and the end of the iteration, which always makes a terminal chunk.
PartsEnd ==
    /\ Live("genai") /\ Yields(<<Done(dec.held)>>, TRUE)
    /\ UNCHANGED <<src, dec>> /\ Rest

\* A response the SDK yields without candidates carries nothing, its usage included.
EmptyResponse ==
    /\ Live("genai") /\ Yields(<< >>, FALSE) /\ src' = Tick(src) /\ UNCHANGED dec /\ Rest

\* The other adapters report a broken connection, an undecodable line or an error
\* event as an error chunk ...
ReadFails(a) ==
    /\ Reading(a) /\ a # "genai" /\ Yields(<<Broken>>, TRUE)
    /\ UNCHANGED <<src, dec>> /\ Rest

\* ... and simply stop where the body ends without its terminal event.
BodyEnds(a) ==
    /\ Reading(a) /\ a # "genai" /\ Yields(<< >>, TRUE)
    /\ UNCHANGED <<src, dec>> /\ Rest
-----------------------------------------------------------------------------
(* RRCLLM.tryStream under the retry decorator's Stream.                    *)

Given == turn.from # {}

\* The bridge takes a chunk: it is shown as a partial response, a terminal
\* chunk makes the final response out of the calls collected so far.
Shown(c) ==
    LET t == [turn EXCEPT !.from = @ \cup {attempt}] IN
    CASE c.kind \in {"text", "thinking"} -> t
      [] c.kind = "call" ->
            [t EXCEPT !.given = @ \cup {[id |-> c.id, args |-> c.args]},
                      !.pending = Append(@, [id |-> c.id, args |-> c.args])]
      [] c.kind = "done" ->
            [t EXCEPT !.finals = @ + 1, !.final = t.pending, !.error = c.error,
                      !.usage = IF c.error THEN NoUsage ELSE c.usage]

\* Mutant: a failure in the middle of the stream goes to the retry loop too.
TakeChunkReplaying ==
    /\ pc = "body" /\ queue # << >> /\ Head(queue).kind # "fail"
    /\ turn' = Shown(Head(queue)) /\ queue' = Tail(queue)
    /\ IF Head(queue).kind = "done" /\ Head(queue).error
       THEN pc' = "classify" /\ err' = StatusError(503) /\ UNCHANGED note
       ELSE /\ IF Head(queue).kind = "done" THEN pc' = "returned" /\ note' = "final"
               ELSE UNCHANGED <<pc, note>>
            /\ UNCHANGED err
    /\ UNCHANGED <<req, attempt, ctx, src, dec, over, scores, scale, calls, crashes>>

TakeChunk ==
    /\ pc = "body" /\ queue # << >> /\ Head(queue).kind # "fail"
    /\ turn' = Shown(Head(queue)) /\ queue' = Tail(queue)
    /\ IF Head(queue).kind = "done" THEN pc' = "returned" /\ note' = "final"
       ELSE UNCHANGED <<pc, note>>
    /\ UNCHANGED <<req, attempt, ctx, err, src, dec, over, scores, scale, calls, crashes>>

\* The consumer stops reading after a partial response: no usage, no error.
Leave ==
    /\ pc = "body" /\ queue # << >> /\ Head(queue).kind \in {"text", "thinking", "call"}
    /\ turn' = [Shown(Head(queue)) EXCEPT !.left = TRUE]
    /\ pc' = "returned" /\ note' = "final"
    /\ UNCHANGED <<req, attempt, ctx, err, stream, scores, scale, calls, crashes>>

\* An error before any chunk is the operation's; one after is the last response.
TakeFailure ==
    /\ pc = "body" /\ queue # << >> /\ Head(queue).kind = "fail"
    /\ IF ~Given THEN OpFails(Head(queue).err)
       ELSE /\ turn' = [turn EXCEPT !.finals = @ + 1, !.error = TRUE]
            /\ pc' = "returned" /\ note' = "final"
            /\ UNCHANGED <<req, attempt, ctx, err, stream, scores, scale, calls, crashes>>

\* finishEmpty: the iteration ended without a terminal chunk.
finishEmpty ==
    /\ pc = "body" /\ queue = << >> /\ over
    /\ turn' = [turn EXCEPT !.finals = @ + 1]
    /\ pc' = "returned" /\ note' = "final"
    /\ UNCHANGED <<req, attempt, ctx, err, stream, scores, scale, calls, crashes>>
-----------------------------------------------------------------------------
(* Scores and embeddings: the texts of one request and where they land.    *)

Texts == 1 .. Candidates
Asked(a)  == pc = "request" /\ req.mode = "bulk" /\ req.adapter = a
Slice(n)  == {i \in Texts : scores.at < i /\ i <= scores.at + n}

\* An answer of the wrong length, found after retry.Do has returned.
Rejected ==
    /\ pc' = "failed" /\ err' = Err(0, "unavailable", {}) /\ note' = "final"
    /\ UNCHANGED <<req, attempt, ctx, stream, turn, scores, scale, calls, crashes>>

\* A slice is answered: the next one gets a retry budget of its own.
Lands(slice, out) ==
    LET at == scores.at + Cardinality(slice) IN
    /\ scores' = [at |-> at, end |-> at >= Candidates, out |-> out]
    /\ pc' = IF at >= Candidates THEN "returned" ELSE "attempt"
    /\ attempt' = IF at >= Candidates THEN attempt ELSE 0
    /\ note' = IF req.adapter \in Unretried THEN note ELSE "final"
    /\ UNCHANGED <<req, ctx, err, stream, turn, scale, calls, crashes>>

\* Mutant: the position in the batch is taken for the position in the list.
scoreOnceLocal(out, at, hits) == [i \in Texts |-> IF i \in hits THEN i + at ELSE out[i]]

\* tei: hits name a position in the slice; a position out of range is ignored.
scoreOnce(out, at, hits) == [i \in Texts |-> IF i - at \in hits THEN i ELSE out[i]]

\* gcpranking: records carry their index in the whole list.
alignScores(out, ids) == [i \in Texts |-> IF i \in ids THEN i ELSE out[i]]

teiScore ==
    /\ Asked("tei")
    /\ \E hits \in SUBSET {i - scores.at : i \in Slice(BatchSize)} :
          Lands(Slice(BatchSize), scoreOnce(scores.out, scores.at, hits))

rankBatch ==
    /\ Asked("gcpranking")
    /\ \E ids \in SUBSET Slice(BatchSize) : Lands(Slice(BatchSize), alignScores(scores.out, ids))

\* The others take the answers by position and need one for every text.
ByPosition(slice, answers, e) ==
    IF answers = slice
    THEN Lands(slice, [i \in Texts |-> IF i \in slice THEN i ELSE scores.out[i]])
    ELSE OpFails(e)

Short == Err(0, "unavailable", {})

\* Missing logits are found after the retries.
zerankScore ==
    /\ Asked("zerank") /\ \E got \in SUBSET Slice(Candidates) :
          \/ got = Slice(Candidates) /\ ByPosition(Slice(Candidates), got, Short)
          \/ got # Slice(Candidates) /\ Rejected

teiEmbed ==
    /\ Asked("tei embed") /\ \E got \in SUBSET Slice(Candidates) :
          \/ got = Slice(Candidates) /\ ByPosition(Slice(Candidates), got, Short)
          \/ got # Slice(Candidates) /\ Rejected

openaiEmbed ==
    /\ Asked("openai embed")
    /\ \E got \in SUBSET Slice(Candidates) : ByPosition(Slice(Candidates), got, Short)

\* One request per text; the first failure ends the call.
ollamaEmbed ==
    /\ Asked("ollama embed") /\ \E got \in SUBSET Slice(1) : ByPosition(Slice(1), got, Short)

genaiEmbed ==
    /\ Asked("genai embed") /\ \E got \in SUBSET Slice(1) : ByPosition(Slice(1), got, Plain)

Answered == teiScore \/ rankBatch \/ zerankScore \/ teiEmbed \/ openaiEmbed \/ ollamaEmbed \/ genaiEmbed
-----------------------------------------------------------------------------
(* The token scale.                                                        *)

InBand(r) == 2 * r.observed >= r.predicted /\ r.observed <= 3 * r.predicted
Admitted(p, o) == o > 0 /\ p > 0 /\ Budget > 0 /\ 4 * p >= Budget

Push(r) == LET all == Append(ring, r) IN
           IF Len(all) > Window THEN SubSeq(all, Len(all) - Window + 1, Len(all)) ELSE all

\* A clean answer that reported no prompt is no observation either.
ObservedUsage == turn.usage # NoUsage /\ turn.usage > 0

\* What a call held on its stack is gone once it has returned.
Forget ==
    /\ req' = NoRequest /\ attempt' = 0 /\ ctx' = "live" /\ err' = Plain /\ note' = None
    /\ src' = NoStream /\ dec' = NoDecoder /\ queue' = << >> /\ over' = FALSE
    /\ turn' = NoTurn /\ scores' = NoScores

\* observeUsage, Bound.Observe: an admitted ratio enters the ring and is saved.
Observe ==
    /\ pc = "returned"
    /\ \E p \in Predicted :
          LET r == [observed |-> turn.usage, predicted |-> p] IN
          IF ObservedUsage /\ Admitted(p, turn.usage) /\ InBand(r)
          THEN ring' = Push(r) /\ pc' = "write"
          ELSE pc' = "idle" /\ UNCHANGED ring
    /\ Forget /\ UNCHANGED <<file, tmp, calls, crashes>>

\* saveLocked: a sibling file, then a rename; either may fail and is only logged.
WriteTmp ==
    /\ pc = "write" /\ tmp' = Torn /\ pc' = "flush"
    /\ UNCHANGED <<req, attempt, ctx, err, note, stream, turn, scores, ring, file, calls, crashes>>

FlushTmp ==
    /\ pc = "flush" /\ tmp' = Saved(ring) /\ pc' = "rename"
    /\ UNCHANGED <<req, attempt, ctx, err, note, stream, turn, scores, ring, file, calls, crashes>>

\* Mutant: the ring is written over the artifact itself.
RenameEarly ==
    /\ pc \in {"flush", "rename"} /\ file' = tmp /\ tmp' = Absent /\ pc' = "idle"
    /\ UNCHANGED <<req, attempt, ctx, err, note, stream, turn, scores, ring, calls, crashes>>

Rename ==
    /\ pc = "rename" /\ file' = tmp /\ tmp' = Absent /\ pc' = "idle"
    /\ UNCHANGED <<req, attempt, ctx, err, note, stream, turn, scores, ring, calls, crashes>>

SaveFails ==
    /\ pc \in {"write", "flush", "rename"} /\ pc' = "idle"
    /\ UNCHANGED <<req, attempt, ctx, err, note, stream, turn, scores, scale, calls, crashes>>

EndFailed ==
    /\ pc = "failed" /\ pc' = "idle"
    /\ Forget /\ UNCHANGED <<scale, calls, crashes>>

\* Open: an absent, corrupt or degenerate artifact is an empty store.
Opened(f) ==
    IF f \in {Absent, Torn} \/ Len(f.ring) > Window \/ \E i \in DOMAIN f.ring : ~InBand(f.ring[i])
    THEN << >> ELSE f.ring

Crash ==
    /\ crashes < MaxCrashes /\ crashes' = crashes + 1
    /\ ring' = Opened(file) /\ pc' = "idle"
    /\ Forget /\ UNCHANGED <<file, tmp, calls>>
-----------------------------------------------------------------------------
Idle == pc = "idle" /\ calls = Len(Requests) /\ UNCHANGED vars

Decode ==
    \/ \E a \in Adapters : Speaks(a) \/ ReadFails(a) \/ BodyEnds(a)
    \/ \E c \in CallIds : BlockStart(c) \/ BlockDelta(c) \/ BlockStop(c)
    \/ SignatureDelta \/ ThinkingStop \/ MessageStart \/ MessageDelta
    \/ \E c \in CallIds, indexed \in BOOLEAN : CallDelta(c, indexed)
    \/ StrayDelta \/ UsageFrame \/ StreamDone
    \/ ObjectRead \/ PartRead \/ EmptyResponse \/ PartFails \/ PartsEnd

Take == TakeChunk \/ Leave \/ TakeFailure \/ finishEmpty

Next ==
    \/ Begin \/ GiveUp \/ StartAttempt \/ Classify \/ TimerFires \/ Cancel
    \/ TransportFails \/ Refused \/ RefusedWhole \/ Accepted \/ Completed
    \/ Decode \/ Take \/ Answered
    \/ Observe \/ WriteTmp \/ FlushTmp \/ Rename \/ SaveFails \/ EndFailed \/ Crash \/ Idle

\* The program takes its own steps; a request on a cancelled context fails, and so
\* does the read of its body.  The provider owes nothing.
Fairness ==
    /\ WF_vars(GiveUp \/ StartAttempt \/ Classify \/ Take)
    /\ WF_vars(ctx = "canceled" /\ TransportFails)
    /\ WF_vars(ctx = "canceled" /\ (PartFails \/ \E a \in Adapters : ReadFails(a)))

Spec     == Init /\ [][Next]_vars
FairSpec == Spec /\ Fairness
-----------------------------------------------------------------------------
(* What the road to the provider owes its callers.                         *)

\* In the canonical chat of a request whose ids are unique and whose results
\* follow their calls, every call is answered at once, every tool message answers
\* a call before it, and no message is empty (chatwire.Canonicalize) ...
WireValid == WellNumbered(req.msgs) /\ CallsFirst(req.msgs) => Valid(Canonicalize(req.msgs))

\* ... and whatever a codec sends, its counting projection has charged for, so
\* that the budget is never spent twice (CountText of each adapter).
ProjectionSound ==
    req.adapter \in Adapters => Sent(req.adapter, req.msgs) \subseteq Counted(req.adapter, req.msgs)

RequestSound == WireValid /\ ProjectionSound

\* A tool call the bridge hands over was completed by the provider and has all
\* its argument fragments in order, however the fragments of several calls were
\* interleaved; the final response of a clean stream repeats all of them.
WholeCalls ==
    /\ \A b \in turn.given : b.id \in src.closed /\ b = Whole(b.id)
    /\ req.mode = "stream" /\ turn.usage # NoUsage =>
          ToSet(turn.final) = {Whole(c) : c \in src.closed} /\ IsInjective(turn.final)

\* A request is repeated only while its caller has seen nothing of it, the caller
\* sees chunks of one attempt, and gets one final response unless it left; usage
\* is reported for a clean answer only (retry.Completer.Stream, tryStream).
NoReplay ==
    /\ pc \in {"attempt", "request", "classify", "backoff", "failed"} => turn = NoTurn
    /\ Cardinality(turn.from) <= 1 /\ turn.finals <= 1
    /\ pc = "returned" /\ req.mode # "bulk" => (turn.finals = 1 <=> ~turn.left)
    /\ turn.usage # NoUsage => turn.finals = 1 /\ ~turn.error
    /\ pc \in {"returned", "failed"} /\ note = "retrying" => ctx = "canceled"

\* Each score or vector belongs to the text at its position, over every split into
\* batches, partial answer and retry; where an answer is taken by position none
\* is missing (core.Scorer's order contract).
Aligned ==
    /\ \A i \in Texts : scores.out[i] \in {0, i}
    /\ scores.end /\ req.adapter \in Positional => \A i \in Texts : scores.out[i] = i

\* At whatever step of a save the process dies, the artifact is one that Open
\* accepts in full, and what was learned is in the plausible band.
ScaleDurable ==
    /\ Opened(file) = file.ring /\ file.state # "torn"
    /\ \A i \in DOMAIN ring : InBand(ring[i]) /\ 4 * ring[i].predicted >= Budget

\* A cancelled turn gets its call back, at whatever step it is: in a backoff, in a
\* request, in the middle of a stream.
CancelReturns == ctx = "canceled" ~> pc \notin {"attempt", "request", "body", "classify", "backoff"}
=============================================================================
