------------------------- MODULE ProviderCall_proofs -------------------------
(***************************************************************************)
(* Any adapters, requests, streams and numbers of attempts, texts and      *)
(* crashes: a request is repeated only while its caller has seen nothing,  *)
(* scores stay with their texts, the token scale on disk is whole, and     *)
(* tool calls are handed over whole.                                       *)
(***************************************************************************)
EXTENDS ProviderCall, FiniteSetTheorems, SequenceTheorems, WellFoundedInduction, TLAPS

Usages  == Nat \cup {NoUsage}
Resting == {"idle", "write", "flush", "rename"}
Trying  == {"attempt", "request", "classify", "backoff", "failed"}
TurnFields == {"pending", "given", "final", "finals", "error", "from", "left", "usage"}

\* What the caller has seen at each point of a call.  Until the body is read it
\* has seen nothing; chunks come from the attempt under way; and a retry is
\* announced only for an adapter that retries.
Flow ==
    /\ pc \in Resting \cup Trying \cup {"body", "returned"} /\ calls \in Nat
    /\ DOMAIN req = {"adapter", "mode", "msgs", "choice"}
    /\ DOMAIN turn = TurnFields /\ turn.usage \in Usages
    /\ pc \in Resting \cup Trying => turn = NoTurn
    /\ pc = "body" =>
          /\ req.mode = "stream" /\ turn.finals = 0 /\ turn.left = FALSE
          /\ turn.usage = NoUsage /\ turn.error = FALSE
          /\ turn.from \subseteq {attempt} /\ (turn.from = {} => turn = NoTurn)
    /\ pc = "returned" =>
          /\ turn.from \subseteq {attempt}
          /\ turn.finals \in {0, 1} /\ (req.mode # "bulk" => (turn.finals = 1 <=> ~turn.left))
          /\ turn.usage # NoUsage => turn.finals = 1 /\ ~turn.error
    /\ note = "retrying" =>
          /\ pc \in Trying \cup {"body"} /\ req.adapter \notin Unretried
          /\ pc = "failed" => ctx = "canceled"

\* The texts answered so far are the first ones; a service taken by position
\* has an answer for each of them.
Landed ==
    /\ scores \in [at: 0 .. Candidates, end: BOOLEAN, out: [Texts -> Nat]]
    /\ \A i \in Texts : scores.out[i] \in {0, i}
    /\ scores.end => scores.at = Candidates
    /\ req.adapter \in Positional => \A i \in Texts : i <= scores.at => scores.out[i] = i
    /\ pc \in Resting => scores = NoScores

Ratio == [observed: Nat, predicted: Nat]
Good(r) ==
    /\ r \in Seq(Ratio) /\ Len(r) <= Window
    /\ \A i \in DOMAIN r : InBand(r[i]) /\ 4 * r[i].predicted >= Budget

\* The ring is good, and so is every copy of it on its way to the artifact.
Durable ==
    /\ Good(ring)
    /\ file = Absent \/ (file = Saved(file.ring) /\ Good(file.ring))
    /\ pc = "rename" => tmp = Saved(ring)

Built    == [id: CallIds, args: Seq(CallIds \X Nat)]
Sources  == [frags: [CallIds -> Nat], closed: SUBSET CallIds, begun: Seq(CallIds), events: Nat]
Decoders == [order: Seq(Built), byIdx: [1 .. Cardinality(CallIds) -> Nat],
             held: Usages, signed: BOOLEAN]

\* The decoder mirrors the provider: one builder for every call begun, in the
\* order they began, with every fragment sent so far; the map of open blocks, or
\* of indexed calls, points each at its own builder.
Mirror ==
    /\ src \in Sources /\ dec \in Decoders
    /\ \A i, j \in DOMAIN src.begun : src.begun[i] = src.begun[j] => i = j
    /\ \A c \in src.closed : \E i \in DOMAIN src.begun : src.begun[i] = c
    /\ \A c \in CallIds : src.frags[c] # 0 => \E i \in DOMAIN src.begun : src.begun[i] = c
    /\ req.adapter \in {"anthropic", "openai"} =>
          /\ Len(dec.order) = Len(src.begun)
          /\ \A i \in DOMAIN src.begun : dec.order[i] = Whole(src.begun[i])
          /\ \A i \in DOMAIN dec.byIdx : i > Len(src.begun) => dec.byIdx[i] = 0
    /\ req.adapter = "anthropic" =>
          \A i \in DOMAIN src.begun : src.begun[i] \notin src.closed => dec.byIdx[i] = i
    /\ req.adapter = "openai" =>
          /\ ~over => src.closed = {}
          /\ \A i \in DOMAIN src.begun :
                dec.byIdx[i] = IF dec.byIdx[1] # 0 THEN i ELSE 0
    /\ req.adapter \in {"ollama", "genai"} => \A c \in CallIds : src.frags[c] = 0

CallChunks == [kind: {"call"}, id: CallIds, args: Seq(CallIds \X Nat)]
DoneChunks == [kind: {"done"}, error: BOOLEAN, usage: Usages]
Chunks     == {Text, Thinking} \cup CallChunks \cup DoneChunks \cup {Fail(Plain), Fail(CtxErr)}

\* What the bridge has taken over: each call once, whole and completed.
Taken ==
    /\ turn.given = ToSet(turn.pending) /\ turn.pending \in Seq(Built)
    /\ \A i \in DOMAIN turn.pending :
          turn.pending[i].id \in src.closed /\ turn.pending[i] = Whole(turn.pending[i].id)
    /\ \A i, j \in DOMAIN turn.pending : turn.pending[i].id = turn.pending[j].id => i = j

\* What it has still to take: every other completed call, once and whole; the
\* terminal chunk is the last one.
Waiting ==
    /\ queue \in Seq(Chunks)
    /\ \A j \in DOMAIN queue : queue[j].kind = "call" =>
          queue[j].id \in src.closed /\ queue[j].args = Whole(queue[j].id).args
    /\ \A c \in src.closed :
          \/ \E i \in DOMAIN turn.pending : turn.pending[i].id = c
          \/ \E j \in DOMAIN queue : queue[j].kind = "call" /\ queue[j].id = c
    /\ \A i, j \in DOMAIN queue :
          queue[i].kind = "call" /\ queue[j].kind = "call" /\ queue[i].id = queue[j].id => i = j
    /\ \A i \in DOMAIN turn.pending, j \in DOMAIN queue :
          queue[j].kind = "call" => queue[j].id # turn.pending[i].id
    /\ \A j \in DOMAIN queue : queue[j].kind = "done" => j = Len(queue)

Bridge ==
    /\ pc = "request" => src = NoStream /\ dec = NoDecoder /\ queue = << >> /\ over = FALSE
    /\ pc = "body" => Mirror /\ Taken /\ Waiting
    /\ pc = "returned" => WholeCalls
-----------------------------------------------------------------------------
(* The steps of a decoder leave everything but the stream alone.           *)

\* Whatever an adapter reads, it touches its own stream only, and it reads when
\* the bridge has taken every chunk of the last event.
LEMMA DecodeRest == Decode => pc = "body" /\ queue = << >> /\ ~over /\ Rest
  <1> SUFFICES ASSUME Decode PROVE pc = "body" /\ queue = << >> /\ ~over /\ Rest  OBVIOUS
  <1>1. CASE \E a \in Adapters : Speaks(a) \/ ReadFails(a) \/ BodyEnds(a)
    BY <1>1 DEF Speaks, ReadFails, BodyEnds, Live, Reading
  <1>2. CASE \E c \in CallIds : BlockStart(c) \/ BlockDelta(c) \/ BlockStop(c)
    BY <1>2 DEF BlockStart, BlockDelta, BlockStop, Live, Reading
  <1>3. CASE SignatureDelta \/ ThinkingStop \/ MessageStart \/ MessageDelta
    BY <1>3 DEF SignatureDelta, ThinkingStop, MessageStart, MessageDelta, Live, Reading
  <1>4. CASE \E c \in CallIds, indexed \in BOOLEAN : CallDelta(c, indexed)
    BY <1>4 DEF CallDelta, Live, Reading
  <1>5. CASE StrayDelta \/ UsageFrame \/ StreamDone
    BY <1>5 DEF StrayDelta, UsageFrame, StreamDone, Live, Reading
  <1>6. CASE ObjectRead \/ PartRead \/ EmptyResponse \/ PartFails \/ PartsEnd
    BY <1>6 DEF ObjectRead, PartRead, EmptyResponse, PartFails, PartsEnd, Live, Reading
  <1> QED BY <1>1, <1>2, <1>3, <1>4, <1>5, <1>6 DEF Decode
-----------------------------------------------------------------------------
(* A request is repeated only while its caller has seen nothing of it.     *)

\* What a call leaves behind is what a call finds.
LEMMA ForgottenFlow ==
    ASSUME Forget, pc' \in Resting, UNCHANGED calls, Flow
    PROVE  Flow'
  BY DEF Forget, Flow, Resting, Trying, NoRequest, NoTurn, TurnFields, None, Usages

\* The turn after an error of the operation is the turn before it.
LEMMA FailedFlow ==
    ASSUME Flow, NEW e, OpFails(e), pc = "request" \/ (pc = "body" /\ turn.from = {})
    PROVE  Flow'
  BY DEF OpFails, Flow, Resting, Trying

\* Nothing but partial responses so far, all of this attempt.
Quiet ==
    /\ DOMAIN turn = TurnFields /\ turn.from \subseteq {attempt} /\ turn.finals = 0
    /\ turn.usage = NoUsage /\ turn.error = FALSE /\ turn.left = FALSE

\* What the bridge makes of a chunk: it comes from this attempt, and only a
\* terminal one finishes the response.
LEMMA ShownTurn ==
    Quiet => \A c : c.kind \in {"text", "thinking", "call", "done"} =>
           /\ DOMAIN Shown(c) = TurnFields
           /\ Shown(c).from = {attempt} /\ Shown(c).left = FALSE
           /\ c.kind # "done" =>
                 Shown(c).finals = 0 /\ Shown(c).usage = NoUsage /\ Shown(c).error = FALSE
           /\ c.kind = "done" =>
                 /\ Shown(c).finals = 1 /\ Shown(c).error = c.error
                 /\ Shown(c).usage = IF c.error THEN NoUsage ELSE c.usage
  <1> HAVE Quiet
  <1> TAKE c
  <1> HAVE c.kind \in {"text", "thinking", "call", "done"}
  <1> DEFINE t == [turn EXCEPT !.from = @ \cup {attempt}]
  <1>1. /\ DOMAIN t = TurnFields /\ t.from = {attempt} /\ t.left = FALSE /\ t.finals = 0
        /\ t.usage = NoUsage /\ t.error = FALSE
    BY DEF TurnFields, Quiet
  <1>2. CASE c.kind \in {"text", "thinking"}
    <2>1. Shown(c) = t  BY <1>2 DEF Shown
    <2> QED BY <1>1, <1>2, <2>1
  <1>3. CASE c.kind = "call"
    <2>1. Shown(c) = [t EXCEPT !.given = @ \cup {[id |-> c.id, args |-> c.args]},
                      !.pending = Append(@, [id |-> c.id, args |-> c.args])]
      BY <1>3 DEF Shown
    <2> QED BY <1>1, <1>3, <2>1 DEF TurnFields
  <1>4. CASE c.kind = "done"
    <2>1. Shown(c) = [t EXCEPT !.finals = @ + 1, !.final = t.pending, !.error = c.error,
                      !.usage = IF c.error THEN NoUsage ELSE c.usage]
      BY <1>4 DEF Shown
    <2> QED BY <1>1, <1>4, <2>1 DEF TurnFields
  <1> QED BY <1>2, <1>3, <1>4

\* The turn of an answer that came as a whole.
LEMMA CompletedTurn ==
    ASSUME turn = NoTurn, NEW a, NEW usages, tryComplete(a, usages)
    PROVE  /\ DOMAIN turn' = TurnFields /\ turn'.from = {attempt} /\ turn'.finals = 1
           /\ turn'.left = FALSE /\ turn'.error = FALSE /\ turn'.usage \in usages
           /\ \A b \in turn'.given : \E c \in CallIds : b = Build(c)
  <1>1. PICK u \in usages, cs \in SUBSET CallIds :
          turn' = [turn EXCEPT !.finals = 1, !.given = {Build(c) : c \in cs},
                               !.from = {attempt}, !.usage = u]
    BY DEF tryComplete
  <1>2. \A b \in {Build(c) : c \in cs} : \E c \in CallIds : b = Build(c)
    BY <1>1
  <1>3. DOMAIN turn = TurnFields /\ turn.left = FALSE /\ turn.error = FALSE
    BY DEF NoTurn, TurnFields
  <1> HIDE DEF Build
  <1> QED BY <1>1, <1>2, <1>3 DEF TurnFields

LEMMA CompletedShape ==
    ASSUME Completed
    PROVE  \E a : \E usages \in SUBSET Usages : tryComplete(a, usages)
  <1>1. Prompts \in SUBSET Usages /\ Prompts \cup {NoUsage} \in SUBSET Usages
    BY ProviderAssumption DEF Usages
  <1> QED
    BY <1>1 DEF Completed, AnthropicCompletes, OpenAICompletes, OllamaCompletes, GenaiCompletes

\* An answered slice, an answer refused or a text that failed.
LEMMA AnsweredShape ==
    ASSUME Answered
    PROVE  /\ pc = "request" /\ req.mode = "bulk"
           /\ \/ \E slice, out : Lands(slice, out)
              \/ Rejected /\ req.adapter \notin Unretried
              \/ \E e : OpFails(e)
  <1>1. CASE teiScore \/ rankBatch
    BY <1>1 DEF teiScore, rankBatch, Asked
  <1>2. CASE zerankScore \/ teiEmbed
    BY <1>2 DEF zerankScore, teiEmbed, Asked, ByPosition, Unretried, OneByOne
  <1>3. CASE openaiEmbed \/ ollamaEmbed \/ genaiEmbed
    BY <1>3 DEF openaiEmbed, ollamaEmbed, genaiEmbed, Asked, ByPosition
  <1> QED BY <1>1, <1>2, <1>3 DEF Answered

\* The bridge takes chunks from the head of a queue of chunks.
LEMMA HeadChunk ==
    ASSUME queue \in Seq(Chunks), queue # << >>
    PROVE  /\ Len(queue) \in Nat \ {0} /\ DOMAIN queue = 1 .. Len(queue) /\ 1 \in DOMAIN queue
           /\ Head(queue) = queue[1] /\ Head(queue) \in Chunks
           /\ Head(queue).kind \in {"text", "thinking", "call", "done", "fail"}
           /\ Head(queue).kind = "done" => Head(queue).usage \in Usages
           /\ Tail(queue) \in Seq(Chunks) /\ DOMAIN Tail(queue) = 1 .. Len(queue) - 1
           /\ Len(Tail(queue)) = Len(queue) - 1
           /\ \A i \in DOMAIN Tail(queue) : i + 1 \in DOMAIN queue /\ Tail(queue)[i] = queue[i + 1]
  <1>1. \A c \in Chunks : /\ c.kind \in {"text", "thinking", "call", "done", "fail"}
                          /\ c.kind = "done" => c.usage \in Usages
    <2> TAKE c \in Chunks
    <2>1. CASE c \in CallChunks  BY <2>1 DEF CallChunks
    <2>2. CASE c \in DoneChunks  BY <2>2 DEF DoneChunks
    <2>3. CASE c \in {Text, Thinking, Fail(Plain), Fail(CtxErr)}
      BY <2>3 DEF Text, Thinking, Fail
    <2> QED BY <2>1, <2>2, <2>3 DEF Chunks
  <1> HIDE DEF Chunks
  <1>2. Head(queue) \in Chunks /\ Head(queue) = queue[1]  OBVIOUS
  <1> QED BY <1>1, <1>2

LEMMA FlowStep ==
    ASSUME Flow, pc = "body" => queue \in Seq(Chunks), [Next]_vars
    PROVE  Flow'
  <1>1. CASE Begin
    <2>1. calls + 1 \in DOMAIN Requests
      BY <1>1, ProviderAssumption DEF Begin, Flow
    <2>2. DOMAIN req' = {"adapter", "mode", "msgs", "choice"}
      BY <1>1, <2>1, ProviderAssumption DEF Begin
    <2>3. pc = "idle" /\ pc' = "attempt" /\ calls' = calls + 1 /\ UNCHANGED <<turn, note>>
      BY <1>1 DEF Begin
    <2> QED BY <2>2, <2>3 DEF Flow, Resting, Trying
  <1>2. CASE GiveUp
    BY <1>2 DEF GiveUp, Flow, Resting, Trying
  <1>3. CASE StartAttempt
    <2>1. pc' \in {"classify", "request"} /\ DOMAIN req' = DOMAIN req /\ req'.adapter = req.adapter
      BY <1>3 DEF StartAttempt, Flow
    <2>2. UNCHANGED <<turn, note, ctx, calls>> /\ pc = "attempt"  BY <1>3 DEF StartAttempt
    <2> QED BY <2>1, <2>2 DEF Flow, Resting, Trying
  <1>4. CASE Classify
    BY <1>4 DEF Classify, Flow, Resting, Trying
  <1>5. CASE TimerFires
    BY <1>5 DEF TimerFires, Flow, Resting, Trying
  <1>6. CASE Cancel
    BY <1>6 DEF Cancel, Flow, Resting, Trying
  <1>7. CASE TransportFails \/ Refused \/ RefusedWhole
    <2>1. pc = "request" /\ \E e : OpFails(e)
      BY <1>7 DEF TransportFails, Refused, RefusedWhole
    <2> QED BY <2>1, FailedFlow
  <1>8. CASE Accepted
    <2>1. pc = "request" /\ req.mode = "stream" /\ pc' = "body" /\ UNCHANGED <<req, turn, note, ctx, attempt, calls>>
      BY <1>8 DEF Accepted
    <2>2. turn = NoTurn  BY <2>1 DEF Flow, Trying
    <2> QED BY <2>1, <2>2 DEF Flow, Resting, Trying, NoTurn
  <1>9. CASE Completed
    <2>1. PICK a : \E usages \in SUBSET Usages : tryComplete(a, usages)  BY <1>9, CompletedShape
    <2> PICK usages \in SUBSET Usages : tryComplete(a, usages)  BY <2>1
    <2>2. pc = "request" /\ pc' = "returned" /\ note' = "final" /\ UNCHANGED <<req, attempt, ctx, calls>>
      BY <2>1 DEF tryComplete
    <2>3. turn = NoTurn  BY <2>2 DEF Flow, Trying
    <2> QED BY <2>1, <2>2, <2>3, CompletedTurn DEF Flow, Resting, Trying
  <1>10. CASE Decode
    <2>1. UNCHANGED <<req, pc, attempt, ctx, note, turn, calls>>  BY <1>10, DecodeRest DEF Rest
    <2> QED BY <2>1 DEF Flow
  <1>11. CASE TakeChunk
    <2> PICK c : c = Head(queue)  OBVIOUS
    <2>1. /\ pc = "body" /\ turn' = Shown(c) /\ UNCHANGED <<req, attempt, ctx, calls>>
          /\ c.kind \in {"text", "thinking", "call", "done"}
          /\ IF c.kind = "done" THEN pc' = "returned" /\ note' = "final" ELSE UNCHANGED <<pc, note>>
      BY <1>11, HeadChunk DEF TakeChunk
    <2>2. c.kind = "done" => c.usage \in Usages
      BY <1>11, HeadChunk DEF TakeChunk
    <2>3. Quiet /\ NoUsage \in Usages
      BY <2>1 DEF Flow, Quiet, Usages
    <2>4. /\ DOMAIN turn' = TurnFields /\ turn'.from = {attempt} /\ turn'.left = FALSE
          /\ c.kind # "done" => turn'.finals = 0 /\ turn'.usage = NoUsage /\ turn'.error = FALSE
          /\ c.kind = "done" => /\ turn'.finals = 1 /\ turn'.error = c.error
                                 /\ turn'.usage = IF c.error THEN NoUsage ELSE c.usage
      BY <2>1, <2>3, ShownTurn
    <2>5. turn'.usage \in Usages /\ (turn'.usage # NoUsage => turn'.finals = 1 /\ ~turn'.error)
      BY <2>1, <2>2, <2>3, <2>4
    <2> QED BY <2>1, <2>4, <2>5 DEF Flow, Resting, Trying
  <1>12. CASE Leave
    <2> PICK c : c = Head(queue)  OBVIOUS
    <2>1. /\ pc = "body" /\ turn' = [Shown(c) EXCEPT !.left = TRUE]
          /\ UNCHANGED <<req, attempt, ctx, calls>> /\ c.kind \in {"text", "thinking", "call"}
          /\ pc' = "returned" /\ note' = "final"
      BY <1>12 DEF Leave
    <2>2. /\ DOMAIN Shown(c) = TurnFields /\ Shown(c).from = {attempt}
          /\ Shown(c).finals = 0 /\ Shown(c).usage = NoUsage
      <3>1. Quiet  BY <2>1 DEF Flow, Quiet
      <3> QED BY <2>1, <3>1, ShownTurn
    <2>3. /\ DOMAIN turn' = TurnFields /\ turn'.from = {attempt} /\ turn'.left = TRUE
          /\ turn'.finals = 0 /\ turn'.usage = NoUsage
      BY <2>1, <2>2 DEF TurnFields
    <2> QED BY <2>1, <2>3 DEF Flow, Resting, Trying
  <1>13. CASE TakeFailure
    <2>1. CASE ~Given
      BY <1>13, <2>1, FailedFlow DEF TakeFailure, Given
    <2>2. CASE Given
      <3>1. /\ pc = "body" /\ turn' = [turn EXCEPT !.finals = @ + 1, !.error = TRUE]
            /\ pc' = "returned" /\ note' = "final" /\ UNCHANGED <<req, attempt, ctx, calls>>
        BY <1>13, <2>2 DEF TakeFailure
      <3>2. /\ turn'.finals = 1 /\ turn'.from = turn.from /\ turn'.left = FALSE
            /\ turn'.usage = NoUsage /\ DOMAIN turn' = TurnFields
        BY <3>1 DEF Flow, TurnFields
      <3> QED BY <3>1, <3>2 DEF Flow, Resting, Trying
    <2> QED BY <2>1, <2>2
  <1>14. CASE finishEmpty
    <2>1. /\ pc = "body" /\ turn' = [turn EXCEPT !.finals = @ + 1] /\ pc' = "returned"
          /\ note' = "final" /\ UNCHANGED <<req, attempt, ctx, calls>>
      BY <1>14 DEF finishEmpty
    <2>2. /\ turn'.finals = 1 /\ turn'.from = turn.from /\ turn'.left = FALSE
          /\ turn'.usage = NoUsage /\ DOMAIN turn' = TurnFields
      BY <2>1 DEF Flow, TurnFields
    <2> QED BY <2>1, <2>2 DEF Flow, Resting, Trying
  <1>15. CASE Answered
    <2>1. CASE \E slice, out : Lands(slice, out)
      <3>1. /\ pc' \in {"returned", "attempt"} /\ (pc' = "returned" => attempt' = attempt)
            /\ note' = IF req.adapter \in Unretried THEN note ELSE "final"
            /\ UNCHANGED <<req, ctx, turn, calls>>
        BY <2>1 DEF Lands
      <3>2. pc = "request" /\ req.mode = "bulk"  BY <1>15, AnsweredShape
      <3>3. turn = NoTurn  BY <3>2 DEF Flow, Trying
      <3> QED BY <3>1, <3>2, <3>3 DEF Flow, Resting, Trying, NoTurn
    <2>2. CASE Rejected
      <3>1. pc = "request"  BY <1>15, AnsweredShape
      <3> QED BY <2>2, <3>1 DEF Rejected, Flow, Resting, Trying
    <2>3. CASE \E e : OpFails(e)
      BY <2>3, <1>15, AnsweredShape, FailedFlow
    <2> QED BY <1>15, <2>1, <2>2, <2>3, AnsweredShape
  <1>16. CASE Observe
    BY <1>16, ForgottenFlow DEF Observe, Resting
  <1>17. CASE WriteTmp \/ FlushTmp \/ Rename \/ SaveFails
    BY <1>17 DEF WriteTmp, FlushTmp, Rename, SaveFails, Flow, Resting, Trying
  <1>18. CASE EndFailed
    BY <1>18, ForgottenFlow DEF EndFailed, Resting
  <1>19. CASE Crash
    BY <1>19, ForgottenFlow DEF Crash, Resting
  <1>20. CASE Idle \/ UNCHANGED vars
    BY <1>20 DEF Idle, vars, Flow
  <1> QED
    BY <1>1, <1>2, <1>3, <1>4, <1>5, <1>6, <1>7, <1>8, <1>9, <1>10, <1>11, <1>12, <1>13, <1>14,
       <1>15, <1>16, <1>17, <1>18, <1>19, <1>20 DEF Next, Take
-----------------------------------------------------------------------------
(* Scores stay with their texts.                                           *)

\* The steps between the start of a call and its outcome.
Talk ==
    \/ GiveUp \/ StartAttempt \/ Classify \/ TimerFires \/ Cancel
    \/ TransportFails \/ Refused \/ RefusedWhole \/ Accepted \/ Completed \/ Decode \/ Take

\* They touch neither the scores nor the scale, and do not end the call.
LEMMA TalkSteady ==
    ASSUME Flow, Talk
    PROVE  UNCHANGED <<scores, scale>> /\ req'.adapter = req.adapter /\ (pc' \in Resting => pc' = pc)
  <1>1. CASE GiveUp \/ Classify \/ TimerFires \/ Accepted
    BY <1>1 DEF GiveUp, Classify, TimerFires, Accepted, Resting
  <1>2. CASE StartAttempt
    BY <1>2 DEF StartAttempt, Resting, Flow
  <1>3. CASE Cancel
    BY <1>3 DEF Cancel, Resting, Flow
  <1>4. CASE TransportFails \/ Refused \/ RefusedWhole
    BY <1>4 DEF TransportFails, Refused, RefusedWhole, OpFails, Resting
  <1>5. CASE Completed
    BY <1>5, CompletedShape DEF tryComplete, Resting
  <1>6. CASE Decode
    BY <1>6, DecodeRest DEF Rest, Resting
  <1>7. CASE TakeChunk \/ Leave \/ finishEmpty
    BY <1>7 DEF TakeChunk, Leave, finishEmpty, Resting
  <1>8. CASE TakeFailure
    BY <1>8 DEF TakeFailure, OpFails, Resting
  <1> QED BY <1>1, <1>2, <1>3, <1>4, <1>5, <1>6, <1>7, <1>8 DEF Talk, Take

LEMMA NoneLanded == scores' = NoScores => Landed'
  <1>1. Candidates \in Nat  BY ProviderAssumption
  <1> QED BY <1>1 DEF Landed, NoScores, Texts

\* A slice is the next n texts, or as many as there are.
LEMMA SliceSize ==
    ASSUME NEW n \in Nat, scores.at \in 0 .. Candidates
    PROVE  LET at == scores.at + Cardinality(Slice(n)) IN
           /\ at \in scores.at .. Candidates
           /\ at = Candidates \/ at = scores.at + n
           /\ \A i \in Texts : i <= at => i <= scores.at \/ i \in Slice(n)
  <1>0. Candidates \in Nat  BY ProviderAssumption
  <1>1. CASE scores.at + n <= Candidates
    <2>1. Slice(n) = scores.at + 1 .. scores.at + n
      BY <1>0, <1>1 DEF Slice, Texts
    <2>2. PICK a \in Int, z \in Int : a = scores.at + 1 /\ z = scores.at + n  BY <1>0
    <2>3. Cardinality(a .. z) = n
      <3>1. Cardinality(a .. z) = IF a > z THEN 0 ELSE z - a + 1  BY FS_Interval
      <3>2. z - a + 1 = n /\ (a > z => n = 0)  BY <1>0, <2>2
      <3> QED BY <3>1, <3>2
    <2> QED BY <1>0, <1>1, <2>1, <2>2, <2>3 DEF Texts
  <1>2. CASE scores.at + n > Candidates
    <2>1. Slice(n) = scores.at + 1 .. Candidates
      BY <1>0, <1>2 DEF Slice, Texts
    <2>2. Cardinality(Slice(n)) = Candidates - scores.at
      BY <2>1, <1>0, FS_Interval, SMT
    <2> QED BY <1>0, <1>2, <2>1, <2>2 DEF Texts
  <1> QED BY <1>0, <1>1, <1>2

\* An answered slice keeps every score with its text.
LEMMA LandsLanded ==
    ASSUME Landed, pc = "request", NEW n \in Nat, NEW out \in [Texts -> Nat], Lands(Slice(n), out),
           \A i \in Texts : out[i] \in {scores.out[i], i},
           req.adapter \in Positional => \A i \in Slice(n) : out[i] = i
    PROVE  Landed'
  <1> DEFINE at == scores.at + Cardinality(Slice(n))
  <1>0. Candidates \in Nat  BY ProviderAssumption
  <1>1. /\ scores' = [at |-> at, end |-> at >= Candidates, out |-> out] /\ UNCHANGED req
        /\ pc' \notin Resting
    BY DEF Lands, Resting
  <1>2. scores.at \in 0 .. Candidates  BY DEF Landed
  <1>3. /\ at \in scores.at .. Candidates
        /\ \A i \in Texts : i <= at => i <= scores.at \/ i \in Slice(n)
    BY <1>2, SliceSize
  <1> HIDE DEF at
  <1>4. /\ scores'.at = at /\ scores'.end = (at >= Candidates) /\ scores'.out = out
        /\ at \in 0 .. Candidates
    BY <1>0, <1>1, <1>2, <1>3
  <1>5. scores' \in [at: 0 .. Candidates, end: BOOLEAN, out: [Texts -> Nat]]
    BY <1>1, <1>4
  <1>6. \A i \in Texts : out[i] \in {0, i}  BY DEF Landed
  <1>7. req.adapter \in Positional => \A i \in Texts : i <= at => out[i] = i
    <2> SUFFICES ASSUME req.adapter \in Positional, NEW i \in Texts, i <= at PROVE out[i] = i
      OBVIOUS
    <2>1. i \in Slice(n) \/ (i <= scores.at /\ scores.out[i] = i)
      BY <1>3 DEF Landed
    <2> QED BY <2>1
  <1>8. scores'.end => scores'.at = Candidates
    <2>1. scores'.end => at >= Candidates  BY <1>4, Zenon
    <2> QED BY <1>0, <1>4, <2>1
  <1> QED BY <1>1, <1>4, <1>5, <1>6, <1>7, <1>8 DEF Landed

\* A whole answer by position gives every text of the slice its own.
LEMMA PositionLanded ==
    ASSUME Landed, pc = "request", NEW n \in Nat, NEW answers, NEW e,
           ByPosition(Slice(n), answers, e)
    PROVE  Landed'
  <1>1. CASE answers = Slice(n)
    <2> DEFINE out == [i \in Texts |-> IF i \in Slice(n) THEN i ELSE scores.out[i]]
    <2>1. Lands(Slice(n), out)  BY <1>1 DEF ByPosition
    <2>2. scores.out \in [Texts -> Nat] /\ Slice(n) \subseteq Texts /\ Texts \subseteq Nat
      BY ProviderAssumption DEF Landed, Slice, Texts
    <2>3. /\ out \in [Texts -> Nat] /\ \A i \in Texts : out[i] \in {scores.out[i], i}
          /\ \A i \in Slice(n) : out[i] = i
      BY <2>2
    <2> HIDE DEF out
    <2> QED BY <2>1, <2>3, LandsLanded
  <1>2. CASE answers # Slice(n)
    BY <1>2 DEF ByPosition, OpFails, Landed, Resting
  <1> QED BY <1>1, <1>2

LEMMA LandedStep ==
    ASSUME Flow, Landed, [Next]_vars
    PROVE  Landed'
  <1> USE ProviderAssumption
  <1>1. CASE Begin
    BY <1>1, NoneLanded DEF Begin, Landed, Resting
  <1>2. CASE Talk
    BY <1>2, TalkSteady DEF Landed
  <1>3. CASE teiScore
    <2>1. PICK hits \in SUBSET {i - scores.at : i \in Slice(BatchSize)} :
            Lands(Slice(BatchSize), scoreOnce(scores.out, scores.at, hits))
      BY <1>3 DEF teiScore
    <2> DEFINE out == scoreOnce(scores.out, scores.at, hits)
    <2>2. scores.out \in [Texts -> Nat] /\ Texts \subseteq Nat  BY DEF Landed, Texts
    <2>3. out \in [Texts -> Nat] /\ \A i \in Texts : out[i] \in {scores.out[i], i}
      BY <2>2 DEF scoreOnce
    <2>4. pc = "request" /\ req.adapter \notin Positional
      BY <1>3 DEF teiScore, Asked, Positional, Unretried, OneByOne
    <2>5. BatchSize \in Nat /\ Lands(Slice(BatchSize), out)  BY <2>1
    <2> HIDE DEF out
    <2> QED BY <2>3, <2>4, <2>5, LandsLanded
  <1>4. CASE rankBatch
    <2>1. PICK ids \in SUBSET Slice(BatchSize) :
            Lands(Slice(BatchSize), alignScores(scores.out, ids))
      BY <1>4 DEF rankBatch
    <2> DEFINE out == alignScores(scores.out, ids)
    <2>2. scores.out \in [Texts -> Nat] /\ Texts \subseteq Nat  BY DEF Landed, Texts
    <2>3. out \in [Texts -> Nat] /\ \A i \in Texts : out[i] \in {scores.out[i], i}
      BY <2>2 DEF alignScores
    <2>4. pc = "request" /\ req.adapter \notin Positional
      BY <1>4 DEF rankBatch, Asked, Positional, Unretried, OneByOne
    <2>5. BatchSize \in Nat /\ Lands(Slice(BatchSize), out)  BY <2>1
    <2> HIDE DEF out
    <2> QED BY <2>3, <2>4, <2>5, LandsLanded
  <1>5. CASE zerankScore \/ teiEmbed
    <2>1. /\ pc = "request"
          /\ Rejected \/ \E got : ByPosition(Slice(Candidates), got, Short)
      BY <1>5 DEF zerankScore, teiEmbed, Asked
    <2>2. CASE Rejected  BY <2>2 DEF Rejected, Landed, Resting
    <2> QED BY <2>1, <2>2, PositionLanded
  <1>6. CASE openaiEmbed
    BY <1>6, PositionLanded DEF openaiEmbed, Asked
  <1>7. CASE ollamaEmbed \/ genaiEmbed
    <2>1. 1 \in Nat  OBVIOUS
    <2> QED BY <1>7, <2>1, PositionLanded DEF ollamaEmbed, genaiEmbed, Asked
  <1>8. CASE Observe \/ EndFailed \/ Crash
    BY <1>8, NoneLanded DEF Observe, EndFailed, Crash, Forget
  <1>9. CASE WriteTmp \/ FlushTmp \/ Rename \/ SaveFails
    BY <1>9 DEF WriteTmp, FlushTmp, Rename, SaveFails, Landed, Resting
  <1>10. CASE Idle \/ UNCHANGED vars
    BY <1>10 DEF Idle, vars, Landed
  <1> QED
    BY <1>1, <1>2, <1>3, <1>4, <1>5, <1>6, <1>7, <1>8, <1>9, <1>10 DEF Next, Talk, Answered
-----------------------------------------------------------------------------
(* The token scale, in memory and on disk.                                 *)

\* A ring that takes an admitted ratio keeps its bound and its band.
LEMMA PushGood ==
    ASSUME Good(ring), NEW r \in Ratio, InBand(r), 4 * r.predicted >= Budget
    PROVE  Good(Push(r))
  <1> DEFINE all == Append(ring, r)
  <1>0. Window \in Nat \ {0}  BY ProviderAssumption
  <1>1. ring \in Seq(Ratio) /\ Len(ring) \in Nat /\ Len(ring) <= Window
    BY DEF Good
  <1>2. all \in Seq(Ratio) /\ Len(all) = Len(ring) + 1 /\ DOMAIN all = 1 .. Len(ring) + 1
    BY <1>1
  <1>3. \A i \in DOMAIN all : all[i] = r \/ \E j \in DOMAIN ring : all[i] = ring[j]
    BY <1>1
  <1>4. \A i \in DOMAIN all : InBand(all[i]) /\ 4 * all[i].predicted >= Budget
    BY <1>3 DEF Good
  <1>5. CASE Len(all) > Window
    <2> DEFINE sub == SubSeq(all, Len(all) - Window + 1, Len(all))
    <2>1. Len(all) - Window + 1 \in 1 .. Len(all)  BY <1>0, <1>1, <1>2, <1>5
    <2> HIDE DEF all
    <2>2. /\ sub \in Seq(Ratio) /\ Len(sub) = Window /\ DOMAIN sub = 1 .. Window
          /\ \A i \in DOMAIN sub : \E j \in DOMAIN all : sub[i] = all[j]
      <3>1. sub \in Seq(Ratio)  BY <1>2, <2>1
      <3>2. Len(sub) = Window /\ DOMAIN sub = 1 .. Window  BY <1>0, <1>2, <2>1, <3>1
      <3>3. \A i \in 1 .. Window : sub[i] = all[Len(all) - Window + i]
        BY <1>0, <1>1, <1>2, <2>1
      <3>4. \A i \in 1 .. Window : Len(all) - Window + i \in DOMAIN all
        BY <1>0, <1>1, <1>2, <2>1
      <3> QED BY <3>1, <3>2, <3>3, <3>4
    <2>3. Push(r) = sub  BY <1>5 DEF Push, all
    <2> HIDE DEF sub
    <2> QED BY <1>0, <1>4, <2>2, <2>3 DEF Good
  <1>6. CASE ~(Len(all) > Window)
    <2>1. Push(r) = all  BY <1>6 DEF Push
    <2>2. Len(all) <= Window  BY <1>0, <1>1, <1>2, <1>6
    <2> HIDE DEF all
    <2> QED BY <1>2, <1>4, <2>1, <2>2 DEF Good
  <1> QED BY <1>5, <1>6

LEMMA EmptyGood == Good(<< >>)
  BY ProviderAssumption DEF Good

\* Open takes such an artifact as it is.
LEMMA OpenedGood ==
    ASSUME Durable
    PROVE  Opened(file) = file.ring /\ Good(file.ring) /\ file.state # "torn"
  <1>1. CASE file = Absent
    BY <1>1, EmptyGood DEF Opened, Absent
  <1>2. CASE file = Saved(file.ring) /\ Good(file.ring)
    <2>1. file.state = "whole"  BY <1>2 DEF Saved
    <2>2. file \notin {Absent, Torn}  BY <2>1 DEF Absent, Torn
    <2>3. Len(file.ring) \in Nat /\ Len(file.ring) <= Window /\ Window \in Nat
      BY <1>2, ProviderAssumption DEF Good
    <2>4. ~(Len(file.ring) > Window)  BY <2>3
    <2>5. \A i \in DOMAIN file.ring : InBand(file.ring[i])  BY <1>2 DEF Good
    <2> QED BY <1>2, <2>1, <2>2, <2>4, <2>5 DEF Opened
  <1> QED BY <1>1, <1>2 DEF Durable

\* Nothing moves in the scale.
LEMMA SteadyScale ==
    ASSUME Durable, UNCHANGED scale, pc' = "rename" => pc = "rename"
    PROVE  Durable'
  BY DEF Durable, scale

LEMMA DurableStep ==
    ASSUME Flow, Durable, [Next]_vars
    PROVE  Durable'
  <1>1. CASE Begin \/ Idle \/ UNCHANGED vars \/ EndFailed \/ SaveFails
    BY <1>1, SteadyScale DEF Begin, Idle, vars, scale, EndFailed, SaveFails
  <1>2. CASE Talk
    BY <1>2, TalkSteady, SteadyScale DEF Resting
  <1>3. CASE Answered
    <2>1. UNCHANGED scale /\ pc' # "rename"
      BY <1>3, AnsweredShape DEF Lands, Rejected, OpFails
    <2> QED BY <2>1, SteadyScale
  <1>4. CASE Observe
    <2>1. UNCHANGED file /\ pc' # "rename"  BY <1>4 DEF Observe
    <2>2. PICK p \in Predicted :
            LET r == [observed |-> turn.usage, predicted |-> p] IN
            \/ UNCHANGED ring
            \/ ObservedUsage /\ Admitted(p, turn.usage) /\ InBand(r) /\ ring' = Push(r)
      BY <1>4 DEF Observe
    <2> DEFINE r == [observed |-> turn.usage, predicted |-> p]
    <2>3. CASE UNCHANGED ring
      BY <2>1, <2>3 DEF Durable
    <2>4. CASE ObservedUsage /\ Admitted(p, turn.usage) /\ InBand(r) /\ ring' = Push(r)
      <3>1. p \in Nat /\ turn.usage \in Nat
        BY <2>4, ProviderAssumption DEF Flow, Usages, ObservedUsage
      <3>2. r \in Ratio /\ InBand(r) /\ 4 * r.predicted >= Budget
        BY <2>4, <3>1 DEF Ratio, Admitted
      <3> HIDE DEF r
      <3>3. Good(Push(r)) /\ ring' = Push(r)  BY <2>4, <3>2, PushGood DEF Durable
      <3>4. Good(ring')  BY <3>3
      <3> QED BY <2>1, <3>4 DEF Durable, Good
    <2> QED BY <2>2, <2>3, <2>4
  <1>5. CASE WriteTmp
    BY <1>5 DEF WriteTmp, Durable
  <1>6. CASE FlushTmp
    BY <1>6 DEF FlushTmp, Durable
  <1>7. CASE Rename
    <2>1. file' = Saved(ring) /\ pc' = "idle" /\ UNCHANGED ring  BY <1>7 DEF Rename, Durable
    <2>2. file'.ring = ring  BY <2>1 DEF Saved
    <2> QED BY <2>1, <2>2 DEF Durable, Good
  <1>8. CASE Crash
    <2>1. ring' = file.ring /\ pc' = "idle" /\ UNCHANGED file  BY <1>8, OpenedGood DEF Crash
    <2>2. Good(ring')  BY <2>1, OpenedGood
    <2> QED BY <2>1, <2>2 DEF Durable, Good
  <1> QED
    BY <1>1, <1>2, <1>3, <1>4, <1>5, <1>6, <1>7, <1>8 DEF Next, Talk
-----------------------------------------------------------------------------
(* Tool calls are handed over whole.                                       *)

\* The first n fragments of call c.
Args(c, n) == [k \in 1 .. n |-> <<c, k>>]
Part(c, n) == [id |-> c, args |-> Args(c, n)]

LEMMA ArgsGrow ==
    ASSUME NEW c, NEW n \in Nat
    PROVE  Append(Args(c, n), <<c, n + 1>>) = Args(c, n + 1)
  BY DEF Args

LEMMA ArgsNone == \A c : Args(c, 0) = << >>
  BY DEF Args

LEMMA ArgsType ==
    ASSUME NEW c \in CallIds, NEW n \in Nat
    PROVE  Args(c, n) \in Seq(CallIds \X Nat)
  BY DEF Args

LEMMA WholeDef == \A c : Whole(c) = Part(c, src.frags[c])
  BY DEF Whole, Args, Part

LEMMA WholeDefNext == \A c : Whole(c)' = Part(c, src'.frags[c])
  BY DEF Whole, Args, Part

\* A call without fragments is its builder as it was made.
LEMMA WholeNone == \A c : src.frags[c] = 0 => Whole(c) = Build(c)
  BY WholeDef, ArgsNone DEF Build, Part

LEMMA WholeType ==
    ASSUME NEW c \in CallIds, src.frags[c] \in Nat
    PROVE  Whole(c) \in Built
  <1> DEFINE a == Args(c, src.frags[c])
  <1>1. a \in Seq(CallIds \X Nat)  BY ArgsType
  <1>2. Whole(c) = [id |-> c, args |-> a]  BY WholeDef DEF Part
  <1> HIDE DEF a
  <1> QED BY <1>1, <1>2 DEF Built

\* A function on 1 .. n is a sequence.
LEMMA IsSequence ==
    ASSUME NEW S, NEW n \in Nat, NEW f \in [1 .. n -> S]
    PROVE  f \in Seq(S) /\ Len(f) = n
  OBVIOUS

\* There is room in the index for every call not yet begun.
LEMMA Room ==
    ASSUME NEW s \in Seq(CallIds), \A i, j \in DOMAIN s : s[i] = s[j] => i = j,
           NEW c \in CallIds, \A i \in DOMAIN s : s[i] # c
    PROVE  Cardinality(CallIds) \in Nat /\ Len(s) + 1 \in 1 .. Cardinality(CallIds)
  <1> DEFINE T == {s[i] : i \in DOMAIN s}
  <1>0. IsFiniteSet(CallIds)  BY ProviderAssumption
  <1>1. Len(s) \in Nat /\ DOMAIN s = 1 .. Len(s) /\ s \in [1 .. Len(s) -> CallIds]  OBVIOUS
  <1>2. s \in Bijection(1 .. Len(s), T)
    BY <1>1 DEF Bijection, Injection, Surjection, IsInjective
  <1>3. ExistsBijection(1 .. Len(s), T)  BY <1>2 DEF ExistsBijection
  <1>4. Cardinality(T) = Len(s)  BY <1>1, <1>3, FS_CountingElements
  <1>5. T \subseteq CallIds /\ T # CallIds /\ c \notin T  BY <1>1
  <1>6. Cardinality(CallIds) \in Nat /\ Cardinality(T) < Cardinality(CallIds)
    BY <1>0, <1>5, FS_CardinalityType, FS_Subset
  <1> HIDE DEF T
  <1>7. Len(s) < Cardinality(CallIds)  BY <1>4, <1>6
  <1> QED BY <1>1, <1>6, <1>7

\* The calls taken over stay whole while the provider completes more.
LEMMA TakenKept ==
    ASSUME Taken, turn'.pending = turn.pending, turn'.given = turn.given,
           src.closed \subseteq src'.closed, \A c \in src.closed : src'.frags[c] = src.frags[c]
    PROVE  Taken'
  <1>1. (\A i \in DOMAIN turn.pending :
          turn.pending[i].id \in src.closed /\ turn.pending[i] = Whole(turn.pending[i].id))'
    <2> SUFFICES ASSUME NEW i \in DOMAIN turn'.pending
                 PROVE  turn'.pending[i].id \in src'.closed
                        /\ (turn.pending[i] = Whole(turn.pending[i].id))'
      OBVIOUS
    <2>1. turn.pending[i].id \in src.closed
          /\ turn.pending[i] = Part(turn.pending[i].id, src.frags[turn.pending[i].id])
      BY WholeDef DEF Taken
    <2>2. turn'.pending[i].id \in src'.closed
          /\ turn'.pending[i] = Part(turn'.pending[i].id, src'.frags[turn'.pending[i].id])
      BY <2>1
    <2> QED BY <2>2 DEF Whole, Part, Args
  <1> QED BY <1>1 DEF Taken

\* An event that completes no call leaves none waiting.
LEMMA WaitingNone ==
    ASSUME Waiting, queue = << >>, UNCHANGED turn, src'.closed = src.closed, queue' \in Seq(Chunks),
           \A j \in DOMAIN queue' : queue'[j].kind # "call",
           \A j \in DOMAIN queue' : queue'[j].kind = "done" => j = Len(queue')
    PROVE  Waiting'
  <1>1. \A c \in src.closed : \E i \in DOMAIN turn.pending : turn.pending[i].id = c
    BY DEF Waiting
  <1> QED BY <1>1 DEF Waiting

\* An event that completes one call leaves that one waiting.
LEMMA WaitingOne ==
    ASSUME Taken, Waiting, queue = << >>, UNCHANGED turn, queue' \in Seq(Chunks),
           NEW c, c \notin src.closed, src'.closed = src.closed \cup {c},
           NEW at \in DOMAIN queue', queue'[at].kind = "call", queue'[at].id = c,
           queue'[at].args = Args(c, src'.frags[c]),
           \A j \in DOMAIN queue' : queue'[j].kind = "call" => j = at,
           \A j \in DOMAIN queue' : queue'[j].kind = "done" => j = Len(queue')
    PROVE  Waiting'
  <1>1. \A d \in src.closed : \E i \in DOMAIN turn.pending : turn.pending[i].id = d
    BY DEF Waiting
  <1>2. \A i \in DOMAIN turn.pending : turn.pending[i].id # c
    BY DEF Taken
  <1>3. (queue[at].args = Whole(queue[at].id).args)'
    BY DEF Whole, Args
  <1>4. (\A j \in DOMAIN queue : queue[j].kind = "call" =>
          queue[j].id \in src.closed /\ queue[j].args = Whole(queue[j].id).args)'
    BY <1>3
  <1>5. \A d \in src'.closed :
          \/ \E i \in DOMAIN turn.pending : turn.pending[i].id = d
          \/ \E j \in DOMAIN queue' : queue'[j].kind = "call" /\ queue'[j].id = d
    BY <1>1
  <1>6. \A i, j \in DOMAIN queue' :
          queue'[i].kind = "call" /\ queue'[j].kind = "call" /\ queue'[i].id = queue'[j].id => i = j
    OBVIOUS
  <1>7. \A i \in DOMAIN turn.pending, j \in DOMAIN queue' :
          queue'[j].kind = "call" => queue'[j].id # turn.pending[i].id
    BY <1>2
  <1> QED BY <1>4, <1>5, <1>6, <1>7 DEF Waiting

\* An event that says nothing about a call leaves the builders alone.
LEMMA MirrorKept ==
    ASSUME Mirror, ~over, UNCHANGED req, src' \in Sources, dec' \in Decoders,
           src'.frags = src.frags, src'.closed = src.closed, src'.begun = src.begun,
           dec'.order = dec.order, dec'.byIdx = dec.byIdx
    PROVE  Mirror'
  <1>1. \A c : Whole(c)' = Whole(c)  BY WholeDef, WholeDefNext
  <1>2. src'.closed = {} \/ req.adapter # "openai"  BY DEF Mirror
  <1> QED BY <1>1, <1>2 DEF Mirror

LEMMA Ticked ==
    ASSUME src \in Sources
    PROVE  /\ Tick(src) \in Sources /\ Tick(src).frags = src.frags
           /\ Tick(src).closed = src.closed /\ Tick(src).begun = src.begun
  <1> DEFINE F == [CallIds -> Nat]  G == SUBSET CallIds  H == Seq(CallIds)
  <1>1. Sources = [frags: F, closed: G, begun: H, events: Nat]  BY DEF Sources
  <1> HIDE DEF F, G, H
  <1> QED BY <1>1 DEF Tick

LEMMA DecoderFields ==
    ASSUME dec \in Decoders
    PROVE  /\ \A u \in Usages : LET d == [dec EXCEPT !.held = u] IN
                 d \in Decoders /\ d.order = dec.order /\ d.byIdx = dec.byIdx
           /\ \A u \in BOOLEAN : LET d == [dec EXCEPT !.signed = u] IN
                 d \in Decoders /\ d.order = dec.order /\ d.byIdx = dec.byIdx
  <1> DEFINE F == Seq(Built)  G == [1 .. Cardinality(CallIds) -> Nat]
  <1>1. Decoders = [order: F, byIdx: G, held: Usages, signed: BOOLEAN]  BY DEF Decoders
  <1> HIDE DEF F, G
  <1> QED BY <1>1

\* The kinds of the chunks that are not calls.
LEMMA PlainChunks ==
    /\ Text \in Chunks /\ Thinking \in Chunks /\ Broken \in Chunks
    /\ Fail(Plain) \in Chunks /\ Fail(CtxErr) \in Chunks
    /\ \A u \in Usages : Done(u) \in Chunks /\ Done(u).kind = "done"
    /\ Text.kind = "text" /\ Thinking.kind = "thinking" /\ Broken.kind = "done"
    /\ \A e : Fail(e).kind = "fail"
  <1>1. \A u \in Usages : Done(u) \in DoneChunks  BY DEF Done, DoneChunks
  <1>2. Broken \in DoneChunks  BY DEF Broken, DoneChunks, Usages
  <1>3. Text.kind = "text" /\ Thinking.kind = "thinking" /\ Broken.kind = "done"
    BY DEF Text, Thinking, Broken
  <1>4. \A e : Fail(e).kind = "fail"  BY DEF Fail
  <1>5. \A u : Done(u).kind = "done"  BY DEF Done
  <1> QED BY <1>1, <1>2, <1>3, <1>4, <1>5 DEF Chunks

\* An event that yields at most one chunk, and that no call, is passed on.
LEMMA QuietEvent ==
    ASSUME Mirror, Taken, Waiting, queue = << >>, ~over, UNCHANGED <<req, turn>>,
           src' = src \/ src' = Tick(src), dec' \in Decoders,
           dec'.order = dec.order, dec'.byIdx = dec.byIdx,
           queue' = << >> \/ \E k \in Chunks : queue' = <<k>> /\ k.kind # "call"
    PROVE  Mirror' /\ Taken' /\ Waiting'
  <1>1. /\ src' \in Sources /\ src'.frags = src.frags /\ src'.closed = src.closed
        /\ src'.begun = src.begun
    BY Ticked DEF Mirror
  <1>2. Mirror'  BY <1>1, MirrorKept
  <1>3. Taken'  BY <1>1, TakenKept
  <1>4. /\ queue' \in Seq(Chunks) /\ \A j \in DOMAIN queue' : queue'[j].kind # "call"
        /\ \A j \in DOMAIN queue' : queue'[j].kind = "done" => j = Len(queue')
    <2>1. CASE queue' = << >>  BY <2>1
    <2>2. CASE \E k \in Chunks : queue' = <<k>> /\ k.kind # "call"  BY <2>2
    <2> QED BY <2>1, <2>2
  <1>5. Waiting'  BY <1>1, <1>4, WaitingNone
  <1> QED BY <1>2, <1>3, <1>5

\* A usage the provider reports is one.
LEMMA ReportedUsage == Prompts \subseteq Usages /\ NoUsage \in Usages
  BY ProviderAssumption DEF Usages

Loud ==
    \/ \E c \in CallIds : BlockStart(c) \/ BlockDelta(c) \/ BlockStop(c)
    \/ \E c \in CallIds, indexed \in BOOLEAN : CallDelta(c, indexed)
    \/ StreamDone \/ ObjectRead \/ PartRead

LEMMA QuietDecode ==
    ASSUME Mirror, Taken, Waiting, Decode, ~Loud
    PROVE  Mirror' /\ Taken' /\ Waiting'
  <1>1. queue = << >> /\ ~over /\ UNCHANGED <<req, turn>>  BY DecodeRest DEF Rest
  <1>2. dec \in Decoders /\ dec.held \in Usages  BY DEF Mirror, Decoders
  <1>3. SUFFICES /\ src' = src \/ src' = Tick(src)
                 /\ dec' \in Decoders /\ dec'.order = dec.order /\ dec'.byIdx = dec.byIdx
                 /\ queue' = << >> \/ \E k \in Chunks : queue' = <<k>> /\ k.kind # "call"
    BY <1>1, QuietEvent
  <1>4. CASE \E a \in Adapters : Speaks(a) \/ ReadFails(a) \/ BodyEnds(a)
    BY <1>2, <1>4, PlainChunks DEF Speaks, ReadFails, BodyEnds, Yields
  <1>5. CASE SignatureDelta
    BY <1>2, <1>5, DecoderFields DEF SignatureDelta, Yields
  <1>6. CASE ThinkingStop
    BY <1>2, <1>6, DecoderFields, PlainChunks DEF ThinkingStop, Yields
  <1>7. CASE MessageStart \/ UsageFrame
    BY <1>2, <1>7, DecoderFields, ReportedUsage DEF MessageStart, UsageFrame, Yields
  <1>8. CASE MessageDelta
    <2>1. PICK u \in Prompts : LET start == IF dec.held = NoUsage THEN 0 ELSE dec.held
                               IN  queue' = <<Done(IF u > start THEN u ELSE start)>>
      BY <1>8 DEF MessageDelta, Yields
    <2>2. 0 \in Usages /\ u \in Usages  BY ReportedUsage DEF Usages
    <2>3. \E v \in Usages : queue' = <<Done(v)>>  BY <1>2, <2>1, <2>2
    <2>4. src' = Tick(src) /\ UNCHANGED dec  BY <1>8 DEF MessageDelta
    <2> QED BY <1>2, <2>3, <2>4, PlainChunks
  <1>9. CASE StrayDelta \/ EmptyResponse
    BY <1>2, <1>9, PlainChunks DEF StrayDelta, EmptyResponse, Yields
  <1>10. CASE PartFails
    BY <1>2, <1>10, PlainChunks DEF PartFails, Yields
  <1>11. CASE PartsEnd
    BY <1>2, <1>11, PlainChunks DEF PartsEnd, Yields
  <1> QED
    BY <1>4, <1>5, <1>6, <1>7, <1>8, <1>9, <1>10, <1>11 DEF Decode, Loud

\* What the provider has begun, and what it has not.
LEMMA BegunCalls ==
    ASSUME Mirror, NEW c \in CallIds
    PROVE  /\ src \in Sources /\ src.begun \in Seq(CallIds) /\ Len(src.begun) \in Nat
           /\ DOMAIN src.begun = 1 .. Len(src.begun) /\ src.frags \in [CallIds -> Nat]
           /\ c \notin ToSet(src.begun) =>
                 /\ \A i \in DOMAIN src.begun : src.begun[i] # c
                 /\ src.frags[c] = 0 /\ c \notin src.closed
                 /\ Len(src.begun) + 1 \in 1 .. Cardinality(CallIds)
           /\ Cardinality(CallIds) \in Nat
           /\ c \in ToSet(src.begun) => IndexOf(c) \in DOMAIN src.begun /\ src.begun[IndexOf(c)] = c
  <1>1. /\ src \in Sources /\ src.begun \in Seq(CallIds) /\ src.frags \in [CallIds -> Nat]
    BY DEF Mirror, Sources
  <1>2. Len(src.begun) \in Nat /\ DOMAIN src.begun = 1 .. Len(src.begun)  BY <1>1
  <1>3. ASSUME c \notin ToSet(src.begun)
        PROVE  /\ \A i \in DOMAIN src.begun : src.begun[i] # c
               /\ src.frags[c] = 0 /\ c \notin src.closed
               /\ Len(src.begun) + 1 \in 1 .. Cardinality(CallIds)
    <2>1. \A i \in DOMAIN src.begun : src.begun[i] # c  BY <1>3 DEF ToSet
    <2>2. src.frags[c] = 0 /\ c \notin src.closed  BY <2>1 DEF Mirror
    <2>3. \A i, j \in DOMAIN src.begun : src.begun[i] = src.begun[j] => i = j  BY DEF Mirror
    <2> QED BY <1>1, <2>1, <2>2, <2>3, Room
  <1>4. c \in ToSet(src.begun) => IndexOf(c) \in DOMAIN src.begun /\ src.begun[IndexOf(c)] = c
    BY DEF ToSet, IndexOf
  <1>5. Cardinality(CallIds) \in Nat  BY ProviderAssumption, FS_CardinalityType
  <1> QED BY <1>1, <1>2, <1>3, <1>4, <1>5

\* The builders after a step, in terms of the fragments sent.
BuiltNext ==
    \A i \in DOMAIN src'.begun :
       dec'.order[i] = Part(src'.begun[i], src'.frags[src'.begun[i]])

LEMMA WholeNext ==
    ASSUME BuiltNext
    PROVE  (\A i \in DOMAIN src.begun : dec.order[i] = Whole(src.begun[i]))'
  BY DEF BuiltNext, Whole, Args, Part

LEMMA BegunFields ==
    ASSUME src \in Sources, NEW c \in CallIds
    PROVE  /\ Begun(src, c) \in Sources /\ Begun(src, c).frags = src.frags
           /\ Begun(src, c).closed = src.closed /\ Begun(src, c).begun = Append(src.begun, c)
  <1> DEFINE F == [CallIds -> Nat]  G == SUBSET CallIds  H == Seq(CallIds)
  <1>1. Sources = [frags: F, closed: G, begun: H, events: Nat]  BY DEF Sources
  <1>2. Append(src.begun, c) \in H  BY DEF Sources
  <1>3. PICK t \in Sources : /\ t = Tick(src) /\ t.frags = src.frags
                             /\ t.closed = src.closed /\ t.begun = src.begun
    BY Ticked
  <1> HIDE DEF F, G, H
  <1> QED BY <1>1, <1>2, <1>3 DEF Begun

\* A call begins: its builder is the newest, and the index may point at it.
LEMMA NewCall ==
    ASSUME Mirror, ~over, UNCHANGED req, req.adapter \in {"anthropic", "openai"},
           NEW c \in CallIds, c \notin ToSet(src.begun), src' \in Sources,
           \A d \in CallIds : d # c => src'.frags[d] = src.frags[d],
           src'.closed = src.closed, src'.begun = Append(src.begun, c),
           dec' \in Decoders, dec'.order = Append(dec.order, Part(c, src'.frags[c])),
           Part(c, src'.frags[c]) \in Built,
           \A i \in DOMAIN dec.byIdx : i # Len(src.begun) + 1 => dec'.byIdx[i] = dec.byIdx[i],
           NEW v \in {0, Len(src.begun) + 1}, dec'.byIdx[Len(src.begun) + 1] = v,
           req.adapter = "anthropic" => v # 0,
           req.adapter = "openai" /\ src.begun # << >> => (v # 0 <=> dec.byIdx[1] # 0)
    PROVE  Mirror'
  <1> DEFINE n == Len(src.begun)
  <1>1. /\ src.begun \in Seq(CallIds) /\ n \in Nat /\ DOMAIN src.begun = 1 .. n
        /\ \A i \in DOMAIN src.begun : src.begun[i] # c
        /\ n + 1 \in 1 .. Cardinality(CallIds) /\ Cardinality(CallIds) \in Nat
    BY BegunCalls
  <1>2. /\ dec.order \in Seq(Built) /\ Len(dec.order) = n
        /\ DOMAIN dec.byIdx = 1 .. Cardinality(CallIds)
        /\ DOMAIN dec'.byIdx = 1 .. Cardinality(CallIds)
    BY DEF Mirror, Decoders
  <1>3. /\ DOMAIN src'.begun = 1 .. n + 1 /\ Len(src'.begun) = n + 1 /\ src'.begun[n + 1] = c
        /\ \A i \in 1 .. n : src'.begun[i] = src.begun[i]
    BY <1>1
  <1>4. /\ Len(dec'.order) = n + 1 /\ dec'.order[n + 1] = Part(c, src'.frags[c])
        /\ \A i \in 1 .. n : dec'.order[i] = dec.order[i]
    BY <1>1, <1>2
  <1>5. \A i \in 1 .. n + 1 : i = n + 1 \/ i \in 1 .. n  BY <1>1
  <1>6. \A i \in 1 .. n : i \in DOMAIN dec.byIdx /\ i # n + 1 /\ dec'.byIdx[i] = dec.byIdx[i]
    <2> TAKE i \in 1 .. n
    <2>1. i \in DOMAIN dec.byIdx /\ i # n + 1  BY <1>1, <1>2
    <2> QED BY <2>1
  <1>7. \A i, j \in DOMAIN src'.begun : src'.begun[i] = src'.begun[j] => i = j
    <2>1. \A i, j \in DOMAIN src.begun : src.begun[i] = src.begun[j] => i = j  BY DEF Mirror
    <2> HIDE DEF n
    <2> QED BY <1>1, <1>3, <2>1
  <1>8. /\ \A d \in src'.closed : \E i \in DOMAIN src'.begun : src'.begun[i] = d
        /\ \A d \in CallIds : src'.frags[d] # 0 => \E i \in DOMAIN src'.begun : src'.begun[i] = d
    <2>1. /\ \A d \in src.closed : \E i \in DOMAIN src.begun : src.begun[i] = d
          /\ \A d \in CallIds : src.frags[d] # 0 => \E i \in DOMAIN src.begun : src.begun[i] = d
      BY DEF Mirror
    <2>2. n + 1 \in DOMAIN src'.begun /\ \A i \in 1 .. n : i \in DOMAIN src'.begun  BY <1>1, <1>3
    <2> HIDE DEF n
    <2> QED BY SMTT(20), <1>1, <1>3, <2>1, <2>2
  <1>9. BuiltNext
    <2>1. \A i \in 1 .. n : /\ dec.order[i] = Part(src.begun[i], src.frags[src.begun[i]])
                            /\ src.begun[i] \in CallIds
      BY <1>1, WholeDef DEF Mirror
    <2> HIDE DEF n
    <2> QED BY SMTT(20), <1>1, <1>3, <1>4, <1>5, <2>1 DEF BuiltNext
  <1>10. \A i \in DOMAIN dec'.byIdx : i > n + 1 => dec'.byIdx[i] = 0
    <2>1. \A i \in DOMAIN dec.byIdx : i > n => dec.byIdx[i] = 0  BY DEF Mirror
    <2> HIDE DEF n
    <2> QED BY <1>1, <1>2, <2>1 DEF n
  <1>11. req.adapter = "anthropic" =>
           \A i \in DOMAIN src'.begun : src'.begun[i] \notin src'.closed => dec'.byIdx[i] = i
    <2>1. req.adapter = "anthropic" =>
            \A i \in DOMAIN src.begun : src.begun[i] \notin src.closed => dec.byIdx[i] = i
      BY DEF Mirror
    <2>2. dec'.byIdx[n + 1] = v /\ v \in {0, n + 1}  OBVIOUS
    <2> HIDE DEF n
    <2> QED BY <1>1, <1>3, <1>5, <1>6, <2>1, <2>2
  <1>12. req.adapter = "openai" =>
           /\ src'.closed = {}
           /\ \A i \in DOMAIN src'.begun : dec'.byIdx[i] = IF dec'.byIdx[1] # 0 THEN i ELSE 0
    <2> SUFFICES ASSUME req.adapter = "openai"
                 PROVE  /\ src'.closed = {}
                        /\ \A i \in DOMAIN src'.begun :
                              dec'.byIdx[i] = IF dec'.byIdx[1] # 0 THEN i ELSE 0
      OBVIOUS
    <2>1. /\ src.closed = {}
          /\ \A i \in DOMAIN src.begun : dec.byIdx[i] = IF dec.byIdx[1] # 0 THEN i ELSE 0
      BY DEF Mirror
    <2>2. dec'.byIdx[n + 1] = v /\ v \in {0, n + 1}  OBVIOUS
    <2>3. CASE n = 0
      <3>1. \A i \in DOMAIN src'.begun : i = 1  BY <1>3, <2>3
      <3> HIDE DEF n
      <3> QED BY <2>1, <2>2, <2>3, <3>1
    <2>4. CASE n # 0
      <3>1. src.begun # << >> /\ 1 \in 1 .. n  BY <1>1, <2>4
      <3>2. v # 0 <=> dec.byIdx[1] # 0  BY <3>1
      <3> HIDE DEF n
      <3>3. dec'.byIdx[1] = dec.byIdx[1]  BY <1>6, <3>1
      <3> QED BY <1>1, <1>3, <1>5, <1>6, <2>1, <2>2, <3>2, <3>3
    <2> QED BY <2>3, <2>4
  <1>13. (\A i \in DOMAIN src.begun : dec.order[i] = Whole(src.begun[i]))'  BY <1>9, WholeNext
  <1> QED
    BY <1>3, <1>4, <1>7, <1>8, <1>10, <1>11, <1>12, <1>13 DEF Mirror

\* anthropic: a tool_use block starts.
LEMMA BlockStartKeeps ==
    ASSUME Mirror, Taken, Waiting, queue = << >>, ~over, UNCHANGED <<req, turn>>,
           NEW c \in CallIds, BlockStart(c)
    PROVE  Mirror' /\ Taken' /\ Waiting'
  <1> DEFINE n == Len(src.begun)
  <1>1. /\ req.adapter = "anthropic" /\ c \notin ToSet(src.begun)
        /\ src' = Begun(src, c) /\ queue' = << >> /\ over' = FALSE
        /\ dec' = [dec EXCEPT !.order = Append(@, Build(c)), !.byIdx[n + 1] = Len(dec.order) + 1]
    BY DEF BlockStart, Live, Reading, Yields
  <1>2. /\ src \in Sources /\ n \in Nat /\ src.frags[c] = 0
        /\ n + 1 \in 1 .. Cardinality(CallIds) /\ Cardinality(CallIds) \in Nat
    BY <1>1, BegunCalls
  <1>3. /\ dec \in Decoders /\ dec.order \in Seq(Built) /\ Len(dec.order) = n
        /\ dec.byIdx \in [1 .. Cardinality(CallIds) -> Nat]
    BY <1>1 DEF Mirror, Decoders
  <1>4. /\ src' \in Sources /\ src'.frags = src.frags /\ src'.closed = src.closed
        /\ src'.begun = Append(src.begun, c)
    BY <1>1, <1>2, BegunFields
  <1>5. Build(c) \in Built /\ Build(c) = Part(c, src'.frags[c])
    BY <1>2, <1>4, WholeNone, WholeType, WholeDef
  <1>6. /\ dec' \in Decoders /\ dec'.order = Append(dec.order, Build(c))
        /\ dec'.byIdx = [dec.byIdx EXCEPT ![n + 1] = n + 1]
    <2> DEFINE F == Seq(Built)  G == [1 .. Cardinality(CallIds) -> Nat]
    <2>1. Decoders = [order: F, byIdx: G, held: Usages, signed: BOOLEAN]  BY DEF Decoders
    <2>2. Append(dec.order, Build(c)) \in F  BY <1>3, <1>5
    <2>3. [dec.byIdx EXCEPT ![n + 1] = n + 1] \in G  BY <1>2, <1>3
    <2> HIDE DEF F, G, n
    <2> QED BY <1>1, <1>3, <2>1, <2>2, <2>3
  <1>7. /\ dec'.byIdx[n + 1] = n + 1 /\ n + 1 # 0
        /\ \A i \in DOMAIN dec.byIdx : i # n + 1 => dec'.byIdx[i] = dec.byIdx[i]
    BY <1>2, <1>3, <1>6
  <1>8. Mirror'  BY <1>1, <1>4, <1>5, <1>6, <1>7, NewCall
  <1>9. Taken'  BY <1>4, TakenKept
  <1>10. Waiting'  BY <1>1, <1>4, WaitingNone
  <1> QED BY <1>8, <1>9, <1>10

\* One more fragment of c is sent.
LEMMA FragmentFields ==
    ASSUME NEW s \in Sources, NEW c \in CallIds
    PROVE  /\ Fragment(s, c) \in Sources /\ Fragment(s, c).closed = s.closed
           /\ Fragment(s, c).begun = s.begun
           /\ Fragment(s, c).frags = [s.frags EXCEPT ![c] = s.frags[c] + 1]
  <1> DEFINE F == [CallIds -> Nat]  G == SUBSET CallIds  H == Seq(CallIds)
  <1>1. Sources = [frags: F, closed: G, begun: H, events: Nat]  BY DEF Sources
  <1>2. [s.frags EXCEPT ![c] = s.frags[c] + 1] \in F  BY DEF Sources
  <1> HIDE DEF F, G, H
  <1> DEFINE t == Tick(s)
  <1>3. t \in Sources /\ t.frags = s.frags /\ t.closed = s.closed /\ t.begun = s.begun
    BY <1>1 DEF Tick
  <1>4. Fragment(s, c) = [t EXCEPT !.frags = [s.frags EXCEPT ![c] = s.frags[c] + 1]]
    BY <1>3 DEF Fragment
  <1> HIDE DEF t
  <1> QED BY <1>1, <1>2, <1>3, <1>4

\* The builder in slot k takes fragment n + 1 of call c.
Grown(order, k, c, n) == [order EXCEPT ![k].args = Append(@, <<c, n + 1>>)]

\* The builder of an open call grows by the fragment sent.
LEMMA GrownBuilder ==
    ASSUME NEW order \in Seq(Built), NEW k \in 1 .. Len(order), NEW c \in CallIds, NEW n \in Nat,
           order[k] = Part(c, n)
    PROVE  LET grown == Grown(order, k, c, n)
           IN  /\ grown = [order EXCEPT ![k] = Part(c, n + 1)]
               /\ grown \in Seq(Built) /\ Len(grown) = Len(order)
               /\ grown[k] = Part(c, n + 1)
               /\ \A i \in 1 .. Len(order) : i # k => grown[i] = order[i]
  <1> DEFINE w == Part(c, n + 1)
  <1>1. Args(c, n + 1) \in Seq(CallIds \X Nat)  BY ArgsType
  <1>2. w \in Built  BY <1>1 DEF Built, Part
  <1> DEFINE a == Args(c, n)  b == Args(c, n + 1)
  <1>3. Append(a, <<c, n + 1>>) = b  BY ArgsGrow
  <1>4. [order[k] EXCEPT !.args = Append(@, <<c, n + 1>>)] = w
    <2>1. order[k] = [id |-> c, args |-> a] /\ w = [id |-> c, args |-> b]  BY DEF Part
    <2>2. order[k].args = a  BY <2>1
    <2> HIDE DEF a, b, w
    <2>3. Append(order[k].args, <<c, n + 1>>) = b  BY <1>3, <2>2
    <2>4. [[id |-> c, args |-> a] EXCEPT !.args = b] = [id |-> c, args |-> b]  OBVIOUS
    <2>5. [order[k] EXCEPT !.args = b] = w  BY <2>1, <2>4
    <2> QED BY <2>3, <2>5
  <1>5. [order EXCEPT ![k].args = Append(@, <<c, n + 1>>)] = [order EXCEPT ![k] = w]
    BY <1>4
  <1> HIDE DEF w
  <1>6. /\ [order EXCEPT ![k] = w] \in Seq(Built) /\ Len([order EXCEPT ![k] = w]) = Len(order)
        /\ [order EXCEPT ![k] = w][k] = w
        /\ \A i \in 1 .. Len(order) : i # k => [order EXCEPT ![k] = w][i] = order[i]
    BY <1>2
  <1>7. Grown(order, k, c, n) = [order EXCEPT ![k] = w]  BY <1>5 DEF Grown
  <1> QED BY <1>6, <1>7 DEF w

\* A fragment reaches the builder of its call, and no other.
LEMMA GrownMirror ==
    ASSUME Mirror, UNCHANGED req, req.adapter \in {"anthropic", "openai"},
           NEW c \in CallIds, c \notin src.closed, NEW k \in DOMAIN src.begun, src.begun[k] = c,
           src' = Fragment(src, c), over' = FALSE, dec' \in Decoders,
           dec'.order = Grown(dec.order, k, c, src.frags[c]),
           dec'.byIdx = dec.byIdx, ~over
    PROVE  Mirror'
  <1> DEFINE n == Len(src.begun)  m == src.frags[c]
  <1>1. /\ src \in Sources /\ n \in Nat /\ DOMAIN src.begun = 1 .. n /\ m \in Nat
        /\ src.frags \in [CallIds -> Nat]
    BY BegunCalls
  <1>2. /\ src' \in Sources /\ src'.closed = src.closed /\ src'.begun = src.begun
        /\ src'.frags = [src.frags EXCEPT ![c] = m + 1]
    BY <1>1, FragmentFields
  <1>3. /\ dec.order \in Seq(Built) /\ Len(dec.order) = n
        /\ \A i \in DOMAIN src.begun : dec.order[i] = Whole(src.begun[i])
    BY DEF Mirror, Decoders
  <1>4. dec.order[k] = Part(c, m)  BY <1>3, WholeDef
  <1>5. /\ Len(dec'.order) = n /\ dec'.order[k] = Part(c, m + 1)
        /\ \A i \in 1 .. n : i # k => dec'.order[i] = dec.order[i]
    <2>1. k \in 1 .. Len(dec.order)  BY <1>1, <1>3
    <2> HIDE DEF m
    <2>2. LET grown == Grown(dec.order, k, c, m)
          IN  /\ Len(grown) = Len(dec.order) /\ grown[k] = Part(c, m + 1)
              /\ \A i \in 1 .. Len(dec.order) : i # k => grown[i] = dec.order[i]
      BY <1>1, <1>3, <1>4, <2>1, GrownBuilder
    <2> QED BY <1>3, <2>2 DEF m
  <1>6. \A d : d # c => src'.frags[d] = src.frags[d]
    BY <1>1, <1>2
  <1>7. src'.frags[c] = m + 1  BY <1>1, <1>2
  <1>8. BuiltNext
    <2> SUFFICES ASSUME NEW i \in DOMAIN src.begun
                 PROVE  dec'.order[i] = Part(src.begun[i], src'.frags[src.begun[i]])
      BY <1>2 DEF BuiltNext
    <2>1. CASE i = k  BY <1>5, <1>7, <2>1
    <2>2. CASE i # k
      <3>1. src.begun[i] # c  BY <2>2 DEF Mirror
      <3>2. dec.order[i] = Part(src.begun[i], src.frags[src.begun[i]])
        BY <1>3, WholeDef
      <3>3. src'.frags[src.begun[i]] = src.frags[src.begun[i]]  BY <1>6, <3>1
      <3> QED BY <1>1, <1>5, <2>2, <3>2, <3>3
    <2> QED BY <2>1, <2>2
  <1>9. (\A i \in DOMAIN src.begun : dec.order[i] = Whole(src.begun[i]))'  BY <1>8, WholeNext
  <1>10. \A d \in CallIds : src'.frags[d] # 0 => \E i \in DOMAIN src'.begun : src'.begun[i] = d
    BY <1>2, <1>6 DEF Mirror
  <1>11. /\ \A i, j \in DOMAIN src.begun : src.begun[i] = src.begun[j] => i = j
         /\ \A d \in src.closed : \E i \in DOMAIN src.begun : src.begun[i] = d
         /\ \A i \in DOMAIN dec.byIdx : i > n => dec.byIdx[i] = 0
         /\ req.adapter = "anthropic" =>
              \A i \in DOMAIN src.begun : src.begun[i] \notin src.closed => dec.byIdx[i] = i
         /\ req.adapter = "openai" =>
              /\ src.closed = {}
              /\ \A i \in DOMAIN src.begun : dec.byIdx[i] = IF dec.byIdx[1] # 0 THEN i ELSE 0
    BY DEF Mirror
  <1>12. /\ \A i, j \in DOMAIN src'.begun : src'.begun[i] = src'.begun[j] => i = j
         /\ \A d \in src'.closed : \E i \in DOMAIN src'.begun : src'.begun[i] = d
         /\ Len(dec'.order) = Len(src'.begun)
         /\ \A i \in DOMAIN dec'.byIdx : i > Len(src'.begun) => dec'.byIdx[i] = 0
         /\ req'.adapter = "anthropic" =>
              \A i \in DOMAIN src'.begun : src'.begun[i] \notin src'.closed => dec'.byIdx[i] = i
         /\ req'.adapter = "openai" =>
              /\ src'.closed = {}
              /\ \A i \in DOMAIN src'.begun : dec'.byIdx[i] = IF dec'.byIdx[1] # 0 THEN i ELSE 0
         /\ req'.adapter \notin {"ollama", "genai"}
    BY <1>2, <1>5, <1>11
  <1> QED BY <1>2, <1>9, <1>10, <1>12 DEF Mirror

\* anthropic: the delta of an open block.
LEMMA BlockDeltaKeeps ==
    ASSUME Mirror, Taken, Waiting, queue = << >>, ~over, UNCHANGED <<req, turn>>,
           NEW c \in CallIds, BlockDelta(c)
    PROVE  Mirror' /\ Taken' /\ Waiting'
  <1> DEFINE k == IndexOf(c)
  <1>1. /\ req.adapter = "anthropic" /\ c \in ToSet(src.begun) /\ c \notin src.closed
        /\ src' = Fragment(src, c) /\ queue' = << >> /\ over' = FALSE
        /\ dec' = [dec EXCEPT !.order[dec.byIdx[k]].args = Append(@, Arg(c))]
    BY DEF BlockDelta, Live, Reading, Yields, Open
  <1>2. /\ src \in Sources /\ k \in DOMAIN src.begun /\ src.begun[k] = c
        /\ DOMAIN src.begun = 1 .. Len(src.begun) /\ src.frags[c] \in Nat
    BY <1>1, BegunCalls
  <1>3. dec.byIdx[k] = k  BY <1>1, <1>2 DEF Mirror
  <1>4. /\ dec \in Decoders /\ dec.order \in Seq(Built) /\ k \in 1 .. Len(dec.order)
        /\ dec.order[k] = Part(c, src.frags[c])
    BY <1>1, <1>2, WholeDef DEF Mirror, Decoders
  <1> DEFINE grown == Grown(dec.order, k, c, src.frags[c])
  <1>5. grown \in Seq(Built)  BY <1>2, <1>4, GrownBuilder
  <1>6. dec' = [dec EXCEPT !.order = grown]  BY <1>1, <1>3, <1>4 DEF Grown, Arg
  <1>7. dec' \in Decoders /\ dec'.order = grown /\ dec'.byIdx = dec.byIdx
    <2> DEFINE F == Seq(Built)  G == [1 .. Cardinality(CallIds) -> Nat]
    <2>1. Decoders = [order: F, byIdx: G, held: Usages, signed: BOOLEAN]  BY DEF Decoders
    <2> HIDE DEF F, G, grown
    <2>2. grown \in F  BY <1>5 DEF F
    <2> QED BY <1>4, <1>6, <2>1, <2>2
  <1>8. Mirror'  BY <1>1, <1>2, <1>7, GrownMirror
  <1>9. /\ src'.closed = src.closed /\ \A d \in src.closed : src'.frags[d] = src.frags[d]
    <2>1. src'.frags = [src.frags EXCEPT ![c] = src.frags[c] + 1] /\ src'.closed = src.closed
      BY <1>1, <1>2, FragmentFields
    <2> QED BY <1>1, <1>2, <2>1 DEF Sources
  <1>10. Taken'  BY <1>9, TakenKept
  <1>11. Waiting'  BY <1>1, <1>9, WaitingNone
  <1> QED BY <1>8, <1>10, <1>11

\* anthropic: the stop of an open block.
LEMMA BlockStopKeeps ==
    ASSUME Mirror, Taken, Waiting, queue = << >>, ~over, UNCHANGED <<req, turn>>,
           NEW c \in CallIds, BlockStop(c)
    PROVE  Mirror' /\ Taken' /\ Waiting'
  <1> DEFINE k == IndexOf(c)  q == Call(dec.order[k])
  <1>1. /\ req.adapter = "anthropic" /\ c \in ToSet(src.begun) /\ c \notin src.closed
        /\ src' = [Tick(src) EXCEPT !.closed = @ \cup {c}] /\ over' = FALSE
        /\ dec' = [dec EXCEPT !.byIdx[k] = 0]
        /\ queue' = <<Call(dec.order[dec.byIdx[k]])>>
    BY DEF BlockStop, Live, Reading, Yields, Open
  <1>2. /\ src \in Sources /\ k \in DOMAIN src.begun /\ src.begun[k] = c
        /\ DOMAIN src.begun = 1 .. Len(src.begun) /\ src.frags[c] \in Nat
    BY <1>1, BegunCalls
  <1>3. queue' = <<q>>  BY <1>1, <1>2 DEF Mirror
  <1>4. dec \in Decoders /\ dec.order[k] = Part(c, src.frags[c])
    BY <1>1, <1>2, WholeDef DEF Mirror
  <1>5. /\ src' \in Sources /\ src'.frags = src.frags /\ src'.begun = src.begun
        /\ src'.closed = src.closed \cup {c}
    <2> DEFINE F == [CallIds -> Nat]  G == SUBSET CallIds  H == Seq(CallIds)  t == Tick(src)
    <2>1. Sources = [frags: F, closed: G, begun: H, events: Nat]  BY DEF Sources
    <2>2. /\ t \in Sources /\ t.frags = src.frags /\ t.closed = src.closed /\ t.begun = src.begun
      BY <1>2, Ticked
    <2>3. src.closed \cup {c} \in G  BY <1>2 DEF Sources
    <2>4. src' = [t EXCEPT !.closed = @ \cup {c}]  BY <1>1
    <2> HIDE DEF F, G, H, t
    <2> QED BY <2>1, <2>2, <2>3, <2>4
  <1>6. /\ dec' \in Decoders /\ dec'.order = dec.order /\ dec'.byIdx = [dec.byIdx EXCEPT ![k] = 0]
    <2> DEFINE F == Seq(Built)  G == [1 .. Cardinality(CallIds) -> Nat]
    <2>1. Decoders = [order: F, byIdx: G, held: Usages, signed: BOOLEAN]  BY DEF Decoders
    <2>2. [dec.byIdx EXCEPT ![k] = 0] \in G  BY <1>4 DEF Decoders
    <2> HIDE DEF F, G, k
    <2> QED BY <1>1, <1>4, <2>1, <2>2
  <1>7. \A d : Whole(d)' = Whole(d)  BY <1>5, WholeDef, WholeDefNext
  <1>8. Mirror'
    <2>1. /\ \A i, j \in DOMAIN src.begun : src.begun[i] = src.begun[j] => i = j
          /\ \A d \in src'.closed : \E i \in DOMAIN src.begun : src.begun[i] = d
          /\ \A d \in CallIds : src.frags[d] # 0 => \E i \in DOMAIN src.begun : src.begun[i] = d
      BY <1>2, <1>5 DEF Mirror
    <2>2. BuiltNext
      BY <1>1, <1>5, <1>6, WholeDef DEF BuiltNext, Mirror
    <2>3. DOMAIN dec'.byIdx = DOMAIN dec.byIdx /\ Len(dec.order) = Len(src.begun)
      BY <1>1, <1>6 DEF Mirror
    <2>4. \A i \in DOMAIN dec.byIdx : i > Len(src.begun) => dec'.byIdx[i] = 0
      BY <1>1, <1>6 DEF Mirror
    <2>5. \A i \in DOMAIN src.begun : src.begun[i] \notin src'.closed => dec'.byIdx[i] = i
      <3> SUFFICES ASSUME NEW i \in DOMAIN src.begun, src.begun[i] \notin src'.closed
                   PROVE  dec'.byIdx[i] = i
        OBVIOUS
      <3>1. i # k /\ dec.byIdx[i] = i  BY <1>1, <1>2, <1>5 DEF Mirror
      <3> QED BY <1>6, <3>1
    <2> QED BY SMTT(20), <1>1, <1>5, <1>6, <2>1, <2>2, <2>3, <2>4, <2>5, WholeNext DEF Mirror
  <1>9. Taken'  BY <1>5, TakenKept
  <1>10. q.kind = "call" /\ q.id = c /\ q.args = Args(c, src'.frags[c]) /\ q \in Chunks
    <2> DEFINE a == Args(c, src.frags[c])  T == Seq(CallIds \X Nat)
    <2>1. a \in T  BY <1>2, ArgsType
    <2>2. q = [kind |-> "call", id |-> c, args |-> a]  BY <1>4 DEF Call, Part
    <2>3. CallChunks = [kind: {"call"}, id: CallIds, args: T]  BY DEF CallChunks
    <2> HIDE DEF a, T, q
    <2>4. q \in CallChunks /\ q.kind = "call" /\ q.id = c /\ q.args = a  BY <2>1, <2>2, <2>3
    <2> QED BY <1>5, <2>4 DEF Chunks, a
  <1>11. Waiting'
    <2> HIDE DEF q
    <2>1. queue' \in Seq(Chunks) /\ DOMAIN queue' = {1} /\ queue'[1] = q  BY <1>3, <1>10
    <2>2. 1 \in DOMAIN queue' /\ queue'[1].kind = "call" /\ queue'[1].id = c /\ queue'[1].args = Args(c, src'.frags[c])
      BY <1>10, <2>1
    <2>3. Len(queue') = 1 /\ \A j \in DOMAIN queue' : j = 1  BY <2>1
    <2>4. c \notin src.closed /\ src'.closed = src.closed \cup {c} /\ UNCHANGED turn  BY <1>1, <1>5
    <2>5. queue' \in Seq(Chunks) /\ \A j \in DOMAIN queue' : queue'[j].kind = "done" => j = Len(queue')  BY <2>1, <2>3
    <2>6. \A j \in DOMAIN queue' : queue'[j].kind = "call" => j = 1  BY <2>3
    <2> QED BY <2>2, <2>4, <2>5, <2>6, WaitingOne
  <1> QED BY <1>8, <1>9, <1>11

\* The slot made for a new call is filled at once.
Filled(o, x, k, y) == [Append(o, x) EXCEPT ![k] = y]

LEMMA FilledSlot ==
    ASSUME NEW o \in Seq(Built), NEW x, NEW y \in Built, NEW k, k = Len(o) + 1
    PROVE  Filled(o, x, k, y) = Append(o, y)
  <1> DEFINE S == Built \cup {x}  t == Append(o, x)  f == [t EXCEPT ![k] = y]  g == Append(o, y)
  <1>1. /\ o \in Seq(S) /\ x \in S /\ y \in S  BY SeqMonotonic
  <1> HIDE DEF S
  <1>2. /\ Len(o) \in Nat /\ t \in Seq(S) /\ Len(t) = k /\ k \in 1 .. Len(t)
        /\ \A i \in 1 .. Len(o) : t[i] = o[i]
    BY <1>1
  <1>3. /\ g \in Seq(S) /\ Len(g) = k /\ g[k] = y /\ \A i \in 1 .. Len(o) : g[i] = o[i]
    BY <1>1
  <1> HIDE DEF t, g
  <1>4. /\ f \in Seq(S) /\ Len(f) = k /\ \A i \in 1 .. k : f[i] = IF i = k THEN y ELSE t[i]
    BY <1>1, <1>2, ExceptSeq
  <1>5. \A i \in 1 .. k : i = k \/ i \in 1 .. Len(o)  BY <1>2
  <1>6. \A i \in 1 .. k : f[i] = g[i]  BY <1>2, <1>3, <1>4, <1>5
  <1> HIDE DEF f
  <1>7. f = g  BY <1>3, <1>4, <1>6, SeqEqual
  <1> QED BY <1>7 DEF Filled, f, g, t

LEMMA OneFragment == \A c : Append(<< >>, <<c, 1>>) = Args(c, 1)
  <1> TAKE c
  <1>1. 0 \in Nat /\ 0 + 1 = 1  OBVIOUS
  <1> QED BY <1>1, ArgsGrow, ArgsNone

\* toolCallAccumulator.add for the first fragment of a call ...
LEMMA AddFirst ==
    ASSUME Mirror, req.adapter = "openai", NEW c \in CallIds, NEW indexed \in BOOLEAN,
           c \notin ToSet(src.begun)
    PROVE  LET d == Add(dec, c, indexed, TRUE)
               n == Len(src.begun)
           IN  /\ d \in Decoders /\ d.order = Append(dec.order, Part(c, 1)) /\ Part(c, 1) \in Built
               /\ d.byIdx[n + 1] = IF indexed THEN n + 1 ELSE 0
               /\ \A i \in DOMAIN dec.byIdx : i # n + 1 => d.byIdx[i] = dec.byIdx[i]
  <1> DEFINE n == Len(src.begun)  p == Part(c, 1)  x == Build(None)
             b == IF indexed THEN [dec.byIdx EXCEPT ![n + 1] = n + 1] ELSE dec.byIdx
  <1>1. /\ n \in Nat /\ src.frags[c] = 0 /\ Cardinality(CallIds) \in Nat
        /\ n + 1 \in 1 .. Cardinality(CallIds)
    BY BegunCalls
  <1>2. /\ dec \in Decoders /\ dec.order \in Seq(Built) /\ Len(dec.order) = n
        /\ dec.byIdx \in [1 .. Cardinality(CallIds) -> Nat] /\ dec.byIdx[n + 1] = 0
    <2>1. \A i \in DOMAIN dec.byIdx : i > n => dec.byIdx[i] = 0  BY DEF Mirror
    <2>2. dec.byIdx \in [1 .. Cardinality(CallIds) -> Nat]  BY DEF Mirror, Decoders
    <2>3. n + 1 \in DOMAIN dec.byIdx /\ n + 1 > n  BY <1>1, <2>2
    <2> QED BY <2>1, <2>2, <2>3 DEF Mirror, Decoders
  <1>3. p \in Built
    <2>1. Args(c, 1) \in Seq(CallIds \X Nat)  BY ArgsType
    <2> QED BY <2>1 DEF Part, Built
  <1>4. [id |-> c, args |-> Append(x.args, Arg(c))] = p
    <2>1. x.args = << >> /\ Arg(c) = <<c, 1>>  BY <1>1 DEF Build, Arg
    <2> QED BY <2>1, OneFragment DEF Part
  <1>5. Len(Append(dec.order, x)) = n + 1 /\ Append(dec.order, x)[n + 1] = x
    BY <1>1, <1>2
  <1>6. Add(dec, c, indexed, TRUE) =
          [dec EXCEPT !.order = [Append(dec.order, x) EXCEPT ![n + 1] =
                          [id |-> c, args |-> Append(@.args, Arg(c))]],
                      !.byIdx = b]
    BY <1>1, <1>2, <1>5 DEF Add
  <1>7. [Append(dec.order, x) EXCEPT ![n + 1] = [id |-> c, args |-> Append(@.args, Arg(c))]]
          = [Append(dec.order, x) EXCEPT ![n + 1] = p]
    BY <1>4, <1>5
  <1>8. [Append(dec.order, x) EXCEPT ![n + 1] = p] = Append(dec.order, p)
    <2>1. Filled(dec.order, x, n + 1, p) = Append(dec.order, p)
      <3> HIDE DEF n, p, x
      <3> QED BY <1>2, <1>3, FilledSlot
    <2> QED BY <2>1 DEF Filled
  <1>9. Add(dec, c, indexed, TRUE) = [dec EXCEPT !.order = Append(dec.order, p), !.byIdx = b]
    BY <1>6, <1>7, <1>8
  <1>10. /\ b \in [1 .. Cardinality(CallIds) -> Nat] /\ b[n + 1] = IF indexed THEN n + 1 ELSE 0
         /\ \A i \in DOMAIN dec.byIdx : i # n + 1 => b[i] = dec.byIdx[i]
    BY <1>1, <1>2
  <1>11. /\ Add(dec, c, indexed, TRUE) \in Decoders
         /\ Add(dec, c, indexed, TRUE).order = Append(dec.order, p)
         /\ Add(dec, c, indexed, TRUE).byIdx = b
    <2> DEFINE F == Seq(Built)  G == [1 .. Cardinality(CallIds) -> Nat]  o == Append(dec.order, p)
    <2>1. Decoders = [order: F, byIdx: G, held: Usages, signed: BOOLEAN]  BY DEF Decoders
    <2>2. o \in F /\ b \in G  BY <1>2, <1>3, <1>10
    <2>3. Add(dec, c, indexed, TRUE) = [dec EXCEPT !.order = o, !.byIdx = b]  BY <1>9
    <2> HIDE DEF F, G, b, o
    <2>4. /\ Add(dec, c, indexed, TRUE) \in Decoders
          /\ Add(dec, c, indexed, TRUE).order = o /\ Add(dec, c, indexed, TRUE).byIdx = b
      BY <1>2, <2>1, <2>2, <2>3
    <2> QED BY <2>4 DEF o
  <1> QED BY <1>3, <1>10, <1>11

\* ... and for a later one.
LEMMA AddNext ==
    ASSUME Mirror, req.adapter = "openai", NEW c \in CallIds, NEW indexed \in BOOLEAN,
           c \in ToSet(src.begun), indexed <=> dec.byIdx[1] # 0,
           ~indexed => IndexOf(c) = Len(src.begun)
    PROVE  LET d == Add(dec, c, indexed, FALSE)
           IN  /\ d \in Decoders /\ d.byIdx = dec.byIdx
               /\ d.order = Grown(dec.order, IndexOf(c), c, src.frags[c])
  <1> DEFINE k == IndexOf(c)  m == src.frags[c]  grown == Grown(dec.order, k, c, m)
  <1>1. /\ k \in DOMAIN src.begun /\ src.begun[k] = c /\ DOMAIN src.begun = 1 .. Len(src.begun)
        /\ m \in Nat /\ Len(src.begun) \in Nat
    BY BegunCalls
  <1>2. /\ dec \in Decoders /\ dec.order \in Seq(Built) /\ Len(dec.order) = Len(src.begun)
        /\ k \in 1 .. Len(dec.order) /\ dec.order[k] = Part(c, m)
    BY <1>1, WholeDef DEF Mirror, Decoders
  <1>3. k # 0 /\ (indexed => dec.byIdx[k] = k) /\ (~indexed => Len(dec.order) = k)
    BY <1>1, <1>2 DEF Mirror
  <1>4. Add(dec, c, indexed, FALSE) =
          [dec EXCEPT !.order = [dec.order EXCEPT ![k] =
                         [id |-> @.id, args |-> Append(@.args, Arg(c))]],
                      !.byIdx = dec.byIdx]
    <2> HIDE DEF k
    <2>1. CASE indexed
      BY <1>3, <2>1 DEF Add, k
    <2>2. CASE ~indexed
      BY <1>3, <2>2 DEF Add
    <2> QED BY <2>1, <2>2
  <1>5. [id |-> dec.order[k].id, args |-> Append(dec.order[k].args, Arg(c))] = Part(c, m + 1)
    <2>1. dec.order[k].id = c /\ dec.order[k].args = Args(c, m)  BY <1>2 DEF Part
    <2>2. Append(Args(c, m), Arg(c)) = Args(c, m + 1)  BY <1>1, ArgsGrow DEF Arg
    <2> QED BY <2>1, <2>2 DEF Part
  <1>6. grown = [dec.order EXCEPT ![k] = Part(c, m + 1)] /\ grown \in Seq(Built)
    <2> HIDE DEF k, m
    <2> QED BY <1>1, <1>2, GrownBuilder
  <1>7. Add(dec, c, indexed, FALSE) = [dec EXCEPT !.order = grown, !.byIdx = dec.byIdx]
    <2> HIDE DEF k, m, grown
    <2>1. [dec.order EXCEPT ![k] = [id |-> @.id, args |-> Append(@.args, Arg(c))]] = grown
      BY <1>5, <1>6
    <2> QED BY <1>4, <2>1
  <1>8. LET d == Add(dec, c, indexed, FALSE)
        IN  d \in Decoders /\ d.byIdx = dec.byIdx /\ d.order = grown
    <2> DEFINE F == Seq(Built)  G == [1 .. Cardinality(CallIds) -> Nat]
    <2>1. Decoders = [order: F, byIdx: G, held: Usages, signed: BOOLEAN]  BY DEF Decoders
    <2>2. grown \in F  BY <1>6
    <2> HIDE DEF F, G, grown
    <2> QED BY <1>2, <1>7, <2>1, <2>2
  <1> QED BY <1>8

\* openai: a delta with a fragment of a call, the first or a later one.
LEMMA CallDeltaKeeps ==
    ASSUME Mirror, Taken, Waiting, queue = << >>, ~over, UNCHANGED <<req, turn>>,
           NEW c \in CallIds, NEW indexed \in BOOLEAN, CallDelta(c, indexed)
    PROVE  Mirror' /\ Taken' /\ Waiting'
  <1>1. /\ req.adapter = "openai" /\ queue' = << >> /\ over' = FALSE
        /\ ~indexed => \A i \in DOMAIN src.begun : src.begun[i] = c => i = Len(src.begun)
        /\ src.begun # << >> => (indexed <=> dec.byIdx[1] # 0)
    BY DEF CallDelta, Live, Reading, Yields
  <1>2. /\ src \in Sources /\ src.begun \in Seq(CallIds) /\ src.frags \in [CallIds -> Nat]
        /\ src.frags[c] \in Nat /\ Len(src.begun) \in Nat
    BY BegunCalls
  <1>3. src.closed = {} /\ c \notin src.closed  BY <1>1 DEF Mirror
  <1>4. CASE c \notin ToSet(src.begun)
    <2> DEFINE s == [src EXCEPT !.begun = Append(@, c)]  n == Len(src.begun)
               v == IF indexed THEN n + 1 ELSE 0
    <2>1. src' = Fragment(s, c) /\ dec' = Add(dec, c, indexed, TRUE)
      BY <1>4 DEF CallDelta
    <2>2. /\ s \in Sources /\ s.frags = src.frags /\ s.closed = src.closed
          /\ s.begun = Append(src.begun, c)
      <3> DEFINE F == [CallIds -> Nat]  G == SUBSET CallIds  H == Seq(CallIds)
      <3>1. Sources = [frags: F, closed: G, begun: H, events: Nat]  BY DEF Sources
      <3>2. Append(src.begun, c) \in H  BY <1>2
      <3> HIDE DEF F, G, H
      <3> QED BY <1>2, <3>1, <3>2
    <2>3. /\ src' \in Sources /\ src'.closed = src.closed /\ src'.begun = Append(src.begun, c)
          /\ src'.frags = [src.frags EXCEPT ![c] = src.frags[c] + 1]
      <3> HIDE DEF s
      <3> QED BY ZenonT(60), <2>1, <2>2, FragmentFields
    <2>4. src.frags[c] = 0  BY <1>4, BegunCalls
    <2>5. src'.frags[c] = 1 /\ \A d \in CallIds : d # c => src'.frags[d] = src.frags[d]
      BY <1>2, <2>3, <2>4
    <2>6. /\ dec' \in Decoders /\ dec'.order = Append(dec.order, Part(c, 1)) /\ Part(c, 1) \in Built
          /\ dec'.byIdx[n + 1] = v
          /\ \A i \in DOMAIN dec.byIdx : i # n + 1 => dec'.byIdx[i] = dec.byIdx[i]
      BY <1>1, <1>4, <2>1, AddFirst
    <2>7. v \in {0, n + 1} /\ (v # 0 <=> indexed)  BY <1>2
    <2> HIDE DEF v
    <2>8. Mirror'  BY <1>1, <1>4, <2>3, <2>5, <2>6, <2>7, NewCall
    <2>9. Taken'  BY <1>3, <2>3, TakenKept
    <2>10. Waiting'  BY <1>1, <2>3, WaitingNone
    <2> QED BY <2>8, <2>9, <2>10
  <1>5. CASE c \in ToSet(src.begun)
    <2>1. src' = Fragment(src, c) /\ dec' = Add(dec, c, indexed, FALSE)
      BY <1>5 DEF CallDelta
    <2>2. IndexOf(c) \in DOMAIN src.begun /\ src.begun[IndexOf(c)] = c /\ src.begun # << >>
      BY <1>2, <1>5, BegunCalls
    <2>3. ~indexed => IndexOf(c) = Len(src.begun)  BY <1>1, <2>2
    <2>4. /\ dec' \in Decoders /\ dec'.byIdx = dec.byIdx
          /\ dec'.order = Grown(dec.order, IndexOf(c), c, src.frags[c])
      BY <1>1, <1>5, <2>1, <2>2, <2>3, AddNext
    <2>5. src'.closed = src.closed  BY <1>2, <2>1, FragmentFields
    <2>6. Mirror'  BY <1>1, <1>3, <2>1, <2>2, <2>4, GrownMirror
    <2>7. Taken'  BY <1>3, <2>5, TakenKept
    <2>8. Waiting'  BY <1>1, <2>5, WaitingNone
    <2> QED BY <2>6, <2>7, <2>8
  <1> QED BY <1>4, <1>5

\* A call chunk of n fragments.
LEMMA CallChunk ==
    ASSUME NEW c \in CallIds, NEW n \in Nat, NEW b, b = Part(c, n)
    PROVE  /\ Call(b) \in Chunks /\ Call(b).kind = "call" /\ Call(b).id = c
           /\ Call(b).args = Args(c, n)
  <1> DEFINE a == Args(c, n)  T == Seq(CallIds \X Nat)
  <1>1. a \in T  BY ArgsType
  <1>2. Call(b) = [kind |-> "call", id |-> c, args |-> a]  BY DEF Call, Part
  <1>3. CallChunks = [kind: {"call"}, id: CallIds, args: T]  BY DEF CallChunks
  <1> HIDE DEF a, T
  <1>4. Call(b) \in CallChunks /\ Call(b).kind = "call" /\ Call(b).id = c /\ Call(b).args = a
    BY <1>1, <1>2, <1>3
  <1> QED BY <1>4 DEF Chunks, a

\* openai: the end of the stream emits every call, in the order they began.
LEMMA StreamDoneKeeps ==
    ASSUME Mirror, Taken, Waiting, queue = << >>, ~over, UNCHANGED <<req, turn>>, StreamDone
    PROVE  Mirror' /\ Taken' /\ Waiting'
  <1> DEFINE n == Len(src.begun)  cs == [i \in DOMAIN dec.order |-> Call(dec.order[i])]
             last == Done(dec.held)
  <1>1. /\ req.adapter = "openai" /\ over' = TRUE /\ UNCHANGED dec
        /\ src' = [Tick(src) EXCEPT !.closed = ToSet(src.begun)] /\ queue' = cs \o <<last>>
    BY DEF StreamDone, Live, Reading, Yields
  <1>2. /\ src \in Sources /\ src.begun \in Seq(CallIds) /\ src.frags \in [CallIds -> Nat]
        /\ n \in Nat /\ DOMAIN src.begun = 1 .. n
    BY DEF Mirror, Sources
  <1>3. /\ dec \in Decoders /\ dec.held \in Usages /\ dec.order \in Seq(Built) /\ Len(dec.order) = n
        /\ DOMAIN dec.order = 1 .. n
        /\ \A i \in 1 .. n : dec.order[i] = Part(src.begun[i], src.frags[src.begun[i]])
    BY <1>1, <1>2, WholeDef DEF Mirror, Decoders
  <1>4. /\ src' \in Sources /\ src'.frags = src.frags /\ src'.begun = src.begun
        /\ src'.closed = ToSet(src.begun)
    <2> DEFINE F == [CallIds -> Nat]  G == SUBSET CallIds  H == Seq(CallIds)  t == Tick(src)
               z == ToSet(src.begun)
    <2>1. Sources = [frags: F, closed: G, begun: H, events: Nat]  BY DEF Sources
    <2>2. /\ t \in Sources /\ t.frags = src.frags /\ t.closed = src.closed /\ t.begun = src.begun
      BY <1>2, Ticked
    <2>3. z \in G  BY <1>2 DEF ToSet
    <2>4. src' = [t EXCEPT !.closed = z]  BY <1>1
    <2> HIDE DEF F, G, H, t, z
    <2>5. src' \in Sources /\ src'.frags = src.frags /\ src'.begun = src.begun /\ src'.closed = z
      BY <2>1, <2>2, <2>3, <2>4
    <2> QED BY <2>5 DEF z
  <1>5. src.closed = {}  BY <1>1 DEF Mirror
  <1>6. Mirror'
    <2>1. /\ \A i, j \in DOMAIN src.begun : src.begun[i] = src.begun[j] => i = j
          /\ \A d \in CallIds : src.frags[d] # 0 => \E i \in DOMAIN src.begun : src.begun[i] = d
          /\ \A i \in DOMAIN dec.byIdx : i > Len(src.begun) => dec.byIdx[i] = 0
          /\ \A i \in DOMAIN src.begun : dec.byIdx[i] = IF dec.byIdx[1] # 0 THEN i ELSE 0
      BY <1>1 DEF Mirror
    <2>2. \A d \in src'.closed : \E i \in DOMAIN src.begun : src.begun[i] = d
      BY <1>4 DEF ToSet
    <2>3. BuiltNext  BY <1>1, <1>2, <1>3, <1>4 DEF BuiltNext
    <2> QED BY <1>1, <1>3, <1>4, <2>1, <2>2, <2>3, WholeNext DEF Mirror
  <1>7. Taken'  BY <1>4, <1>5, TakenKept
  <1>8. \A i \in DOMAIN turn.pending : FALSE  BY <1>5 DEF Taken
  <1>9. /\ cs \in Seq(Chunks) /\ Len(cs) = n
        /\ \A i \in 1 .. n : /\ cs[i].kind = "call" /\ cs[i].id = src.begun[i]
                             /\ cs[i].args = Args(src.begun[i], src.frags[src.begun[i]])
    <2>1. \A i \in 1 .. n :
             /\ Call(dec.order[i]) \in Chunks /\ Call(dec.order[i]).kind = "call"
             /\ Call(dec.order[i]).id = src.begun[i]
             /\ Call(dec.order[i]).args = Args(src.begun[i], src.frags[src.begun[i]])
      <3> TAKE i \in 1 .. n
      <3>1. PICK c \in CallIds, f \in Nat : c = src.begun[i] /\ f = src.frags[c]
        BY <1>2
      <3>2. dec.order[i] = Part(c, f)  BY <1>3, <3>1
      <3> QED BY <3>1, <3>2, CallChunk
    <2>2. cs \in [1 .. n -> Chunks] /\ \A i \in 1 .. n : cs[i] = Call(dec.order[i])
      BY <1>3, <2>1
    <2> HIDE DEF cs, n
    <2>3. cs \in Seq(Chunks) /\ Len(cs) = n  BY <1>2, <2>2, IsSequence
    <2> QED BY <2>1, <2>2, <2>3
  <1>10. last \in Chunks /\ last.kind = "done"  BY <1>3, PlainChunks
  <1>11. /\ queue' \in Seq(Chunks) /\ Len(queue') = n + 1 /\ DOMAIN queue' = 1 .. n + 1
         /\ queue'[n + 1] = last /\ \A i \in 1 .. n : queue'[i] = cs[i]
    <2> HIDE DEF cs, last, n
    <2> QED BY <1>1, <1>2, <1>9, <1>10
  <1>12. \A i \in 1 .. n + 1 : i = n + 1 \/ i \in 1 .. n  BY <1>2
  <1>13. Waiting'
    <2> HIDE DEF cs, last, n
    <2>1. (\A j \in DOMAIN queue : queue[j].kind = "call" =>
              queue[j].id \in src.closed /\ queue[j].args = Whole(queue[j].id).args)'
      <3> SUFFICES ASSUME NEW j \in DOMAIN queue', queue'[j].kind = "call"
                   PROVE  queue'[j].id \in src'.closed /\ (queue[j].args = Whole(queue[j].id).args)'
        OBVIOUS
      <3>1. j \in 1 .. n /\ queue'[j] = cs[j]  BY <1>10, <1>11, <1>12
      <3>2. queue'[j].id \in src'.closed  BY <1>2, <1>4, <1>9, <3>1 DEF ToSet
      <3>3. queue'[j].args = Args(queue'[j].id, src'.frags[queue'[j].id])
        BY <1>4, <1>9, <3>1
      <3> QED BY <3>2, <3>3 DEF Whole, Args
    <2>2. \A c \in src'.closed : \E j \in DOMAIN queue' : queue'[j].kind = "call" /\ queue'[j].id = c
      <3> TAKE c \in src'.closed
      <3>1. PICK j \in 1 .. n : src.begun[j] = c  BY <1>2, <1>4 DEF ToSet
      <3>2. j \in DOMAIN queue'  BY <1>2, <1>11
      <3> QED BY <1>9, <1>11, <3>1, <3>2
    <2>3. \A i, j \in DOMAIN queue' :
            queue'[i].kind = "call" /\ queue'[j].kind = "call" /\ queue'[i].id = queue'[j].id => i = j
      <3>1. \A i, j \in 1 .. n : src.begun[i] = src.begun[j] => i = j  BY <1>2 DEF Mirror
      <3> QED BY <1>9, <1>10, <1>11, <1>12, <3>1
    <2>4. \A j \in DOMAIN queue' : queue'[j].kind = "done" => j = Len(queue')
      BY <1>9, <1>11, <1>12
    <2> QED BY <1>8, <1>11, <2>1, <2>2, <2>3, <2>4 DEF Waiting
  <1> QED BY <1>6, <1>7, <1>13

\* ollama, genai: a call that comes whole is begun and complete at once.
LEMMA ClosedAtOnce ==
    ASSUME Mirror, UNCHANGED req, req.adapter \in {"ollama", "genai"},
           NEW c \in CallIds, c \notin ToSet(src.begun), dec' \in Decoders,
           src' = [Begun(src, c) EXCEPT !.closed = @ \cup {c}]
    PROVE  /\ Mirror' /\ c \notin src.closed /\ src'.closed = src.closed \cup {c}
           /\ src'.frags = src.frags /\ src.frags[c] = 0
  <1> DEFINE n == Len(src.begun)
  <1>1. /\ src \in Sources /\ src.begun \in Seq(CallIds) /\ n \in Nat /\ DOMAIN src.begun = 1 .. n
        /\ \A i \in DOMAIN src.begun : src.begun[i] # c
        /\ src.frags[c] = 0 /\ c \notin src.closed
    BY BegunCalls
  <1>2. /\ src' \in Sources /\ src'.frags = src.frags /\ src'.begun = Append(src.begun, c)
        /\ src'.closed = src.closed \cup {c}
    <2> DEFINE F == [CallIds -> Nat]  G == SUBSET CallIds  H == Seq(CallIds)  t == Begun(src, c)
    <2>1. Sources = [frags: F, closed: G, begun: H, events: Nat]  BY DEF Sources
    <2>2. /\ t \in Sources /\ t.frags = src.frags /\ t.closed = src.closed
          /\ t.begun = Append(src.begun, c)
      BY <1>1, BegunFields
    <2>3. src.closed \cup {c} \in G  BY <1>1 DEF Sources
    <2>4. src' = [t EXCEPT !.closed = @ \cup {c}]  OBVIOUS
    <2> HIDE DEF F, G, H, t
    <2> QED BY <2>1, <2>2, <2>3, <2>4
  <1>3. /\ DOMAIN src'.begun = 1 .. n + 1 /\ src'.begun[n + 1] = c
        /\ \A i \in 1 .. n : src'.begun[i] = src.begun[i] /\ i \in 1 .. n + 1
        /\ n + 1 \in 1 .. n + 1 /\ \A i \in 1 .. n + 1 : i = n + 1 \/ i \in 1 .. n
    BY <1>1, <1>2
  <1> HIDE DEF n
  <1>4. \A i, j \in DOMAIN src'.begun : src'.begun[i] = src'.begun[j] => i = j
    <2>1. \A i, j \in DOMAIN src.begun : src.begun[i] = src.begun[j] => i = j  BY DEF Mirror
    <2> SUFFICES ASSUME NEW i \in 1 .. n + 1, NEW j \in 1 .. n + 1, src'.begun[i] = src'.begun[j]
                 PROVE  i = j
      BY <1>3
    <2>2. CASE i \in 1 .. n /\ j \in 1 .. n  BY <1>1, <1>3, <2>1, <2>2
    <2>3. CASE i = n + 1 /\ j \in 1 .. n  BY <1>1, <1>3, <2>3
    <2>4. CASE i \in 1 .. n /\ j = n + 1  BY <1>1, <1>3, <2>4
    <2> QED BY <1>3, <2>2, <2>3, <2>4
  <1>5. \A d \in src'.closed : \E i \in DOMAIN src'.begun : src'.begun[i] = d
    <2>1. \A d \in src.closed : \E i \in DOMAIN src.begun : src.begun[i] = d  BY DEF Mirror
    <2> QED BY ZenonT(60), <1>1, <1>2, <1>3, <2>1
  <1>6. \A d \in CallIds : src'.frags[d] = 0  BY <1>2 DEF Mirror
  <1> QED BY <1>1, <1>2, <1>4, <1>5, <1>6 DEF Mirror

\* One object: what is said, perhaps a call, perhaps the end, in this order.
LEMMA Pieces ==
    ASSUME NEW say \in Seq(Chunks), \A j \in DOMAIN say : say[j].kind \notin {"call", "done"},
           NEW new \in Seq(Chunks), Len(new) \in {0, 1}, \A j \in DOMAIN new : new[j].kind = "call",
           NEW end \in Seq(Chunks), Len(end) \in {0, 1}, \A j \in DOMAIN end : end[j].kind = "done"
    PROVE  LET q == say \o new \o end IN
           /\ q \in Seq(Chunks)
           /\ \A j \in DOMAIN q : q[j].kind = "done" => j = Len(q)
           /\ Len(new) = 0 => \A j \in DOMAIN q : q[j].kind # "call"
           /\ Len(new) = 1 => \E at \in DOMAIN q :
                 q[at] = new[1] /\ \A j \in DOMAIN q : q[j].kind = "call" => j = at
  <1> DEFINE h == say \o new  q == h \o end  n == Len(say)  m == Len(h)
  <1>1. n \in Nat /\ DOMAIN say = 1 .. n /\ DOMAIN new = 1 .. Len(new) /\ DOMAIN end = 1 .. Len(end)
    OBVIOUS
  <1>2. /\ h \in Seq(Chunks) /\ m = n + Len(new)
        /\ \A j \in 1 .. m : h[j] = IF j <= n THEN say[j] ELSE new[j - n]
    BY <1>1, ConcatProperties
  <1> HIDE DEF h
  <1>3. /\ q \in Seq(Chunks) /\ Len(q) = m + Len(end)
        /\ \A j \in 1 .. Len(q) : q[j] = IF j <= m THEN h[j] ELSE end[j - m]
        /\ DOMAIN q = 1 .. Len(q)
    <2>1. /\ q \in Seq(Chunks) /\ Len(q) = Len(h) + Len(end)
          /\ \A j \in 1 .. Len(h) + Len(end) : q[j] = IF j <= Len(h) THEN h[j] ELSE end[j - Len(h)]
      <3>1. h \in Seq(Chunks)  BY <1>2
      <3> QED BY <3>1, ConcatProperties
    <2> HIDE DEF q
    <2> QED BY <2>1
  <1> HIDE DEF q, m, n
  <1>4. m \in Nat  BY <1>1, <1>2
  <1>5. \A j \in 1 .. m : h[j].kind # "done" /\ (j <= n => h[j].kind # "call")
    <2> TAKE j \in 1 .. m
    <2>1. CASE j <= n
      <3>1. j \in DOMAIN say /\ h[j] = say[j]  BY <1>1, <1>2, <1>4, <2>1
      <3> QED BY <3>1
    <2>2. CASE ~(j <= n)
      <3>1. j - n \in DOMAIN new /\ h[j] = new[j - n]  BY <1>1, <1>2, <1>4, <2>2
      <3> QED BY <2>2, <3>1
    <2> QED BY <2>1, <2>2
  <1>6. \A j \in DOMAIN q : ~(j <= m) => j = Len(q) /\ q[j].kind = "done"
    <2> SUFFICES ASSUME NEW j \in 1 .. Len(q), ~(j <= m)
                 PROVE  j = Len(q) /\ q[j].kind = "done"
      BY <1>3
    <2>1. j = Len(q) /\ j - m \in DOMAIN end
      <3>1. Len(q) = m + Len(end)  BY <1>3
      <3>2. PICK e \in {0, 1} : e = Len(end)  OBVIOUS
      <3>3. j = m + 1 /\ e = 1  BY <1>4, <3>1, <3>2
      <3> QED BY <1>1, <1>4, <3>1, <3>2, <3>3
    <2>2. q[j] = end[j - m]  BY <1>3
    <2> QED BY <2>1, <2>2
  <1>7. \A j \in DOMAIN q : j <= m => j \in 1 .. m /\ q[j] = h[j]
    BY <1>3, <1>4
  <1>8. \A j \in DOMAIN q : q[j].kind = "done" => j = Len(q)
    BY <1>5, <1>6, <1>7
  <1>9. \A j \in DOMAIN q : q[j].kind = "call" => j \in 1 .. m /\ ~(j <= n)
    BY <1>5, <1>6, <1>7
  <1>10. Len(new) = 0 => \A j \in DOMAIN q : q[j].kind # "call"
    BY <1>1, <1>2, <1>9
  <1>11. ASSUME Len(new) = 1
         PROVE  \E at \in DOMAIN q :
                   q[at] = new[1] /\ \A j \in DOMAIN q : q[j].kind = "call" => j = at
    <2>1. m = n + 1 /\ m \in 1 .. m /\ h[m] = new[1]  BY <1>1, <1>2, <1>11
    <2>2. m \in DOMAIN q  BY <1>1, <1>3, <2>1
    <2>3. q[m] = new[1]  BY <1>7, <2>1, <2>2
    <2>4. \A j \in DOMAIN q : q[j].kind = "call" => j = m  BY <1>1, <1>9, <2>1
    <2> QED BY <2>2, <2>3, <2>4
  <1> QED BY <1>3, <1>8, <1>10, <1>11 DEF q, h

\* ollama: one object of the stream.
LEMMA ObjectReadKeeps ==
    ASSUME Mirror, Taken, Waiting, queue = << >>, ~over, UNCHANGED <<req, turn>>, ObjectRead
    PROVE  Mirror' /\ Taken' /\ Waiting'
  <1>1. PICK say \in {<< >>, <<Thinking>>, <<Text>>, <<Thinking, Text>>},
             c \in (CallIds \ ToSet(src.begun)) \cup {None}, u \in Prompts \cup {NoUsage} :
          LET new == IF c = None THEN << >> ELSE <<Call(Build(c))>>
              end == IF u = NoUsage THEN << >> ELSE <<Done(u)>>
          IN  /\ queue' = say \o new \o end
              /\ src' = IF c = None THEN Tick(src) ELSE [Begun(src, c) EXCEPT !.closed = @ \cup {c}]
    BY DEF ObjectRead, Yields
  <1>2. req.adapter = "ollama" /\ UNCHANGED dec  BY DEF ObjectRead, Live, Reading
  <1>3. say \in Seq(Chunks) /\ \A j \in DOMAIN say : say[j].kind \notin {"call", "done"}
    <2>1. CASE say = << >>  BY <2>1
    <2>2. CASE say = <<Thinking>>  BY <2>2, PlainChunks
    <2>3. CASE say = <<Text>>  BY <2>3, PlainChunks
    <2>4. CASE say = <<Thinking, Text>>  BY <2>4, PlainChunks
    <2> QED BY <1>1, <2>1, <2>2, <2>3, <2>4
  <1>4. u \in Usages /\ Done(u) \in Chunks /\ Done(u).kind = "done"
    BY <1>1, ReportedUsage, PlainChunks
  <1> DEFINE end == IF u = NoUsage THEN << >> ELSE <<Done(u)>>
  <1>5. end \in Seq(Chunks) /\ Len(end) \in {0, 1} /\ \A j \in DOMAIN end : end[j].kind = "done"
    BY <1>4
  <1>6. dec' \in Decoders  BY <1>2 DEF Mirror
  <1> HIDE DEF end
  <1>7. CASE c = None
    <2>1. queue' = say \o << >> \o end /\ src' = Tick(src)  BY <1>1, <1>7 DEF end
    <2>2. /\ src' \in Sources /\ src'.frags = src.frags /\ src'.closed = src.closed
          /\ src'.begun = src.begun
      BY <2>1, Ticked DEF Mirror
    <2> DEFINE new == << >>
    <2>3. new \in Seq(Chunks) /\ Len(new) = 0 /\ \A j \in DOMAIN new : new[j].kind = "call"
      OBVIOUS
    <2>4. /\ queue' \in Seq(Chunks) /\ \A j \in DOMAIN queue' : queue'[j].kind # "call"
          /\ \A j \in DOMAIN queue' : queue'[j].kind = "done" => j = Len(queue')
      <3>1. queue' = say \o new \o end  BY <2>1
      <3> HIDE DEF new
      <3> QED BY SMTT(20), <1>3, <1>5, <2>3, <3>1, Pieces
    <2>5. Mirror'  BY <1>2, <1>6, <2>2, MirrorKept
    <2>6. Taken'  BY <2>2, TakenKept
    <2>7. Waiting'  BY <2>2, <2>4, WaitingNone
    <2> QED BY <2>5, <2>6, <2>7
  <1>8. CASE c # None
    <2> DEFINE k == Call(Build(c))
    <2>1. /\ queue' = say \o <<k>> \o end /\ src' = [Begun(src, c) EXCEPT !.closed = @ \cup {c}]
          /\ c \in CallIds /\ c \notin ToSet(src.begun)
      BY <1>1, <1>8 DEF end
    <2>2. /\ Mirror' /\ c \notin src.closed /\ src'.closed = src.closed \cup {c}
          /\ src'.frags = src.frags /\ src.frags[c] = 0
      BY <1>2, <1>6, <2>1, ClosedAtOnce
    <2>3. Taken'  BY <2>2, TakenKept
    <2>4. k \in Chunks /\ k.kind = "call" /\ k.id = c /\ k.args = Args(c, src'.frags[c])
      <3>1. Build(c) = Part(c, 0) /\ 0 \in Nat  BY ArgsNone DEF Build, Part
      <3> QED BY <2>1, <2>2, <3>1, CallChunk
    <2> HIDE DEF k
    <2>5. /\ queue' \in Seq(Chunks) /\ \A j \in DOMAIN queue' : queue'[j].kind = "done" => j = Len(queue')
          /\ \E at \in DOMAIN queue' :
                queue'[at] = k /\ \A j \in DOMAIN queue' : queue'[j].kind = "call" => j = at
      <3> DEFINE new == <<k>>
      <3>1. /\ new \in Seq(Chunks) /\ Len(new) = 1 /\ new[1] = k
            /\ \A j \in DOMAIN new : new[j].kind = "call"
        BY <2>4
      <3>2. queue' = say \o new \o end  BY <2>1
      <3> HIDE DEF new
      <3> DEFINE q == say \o new \o end
      <3>3. Len(new) \in {0, 1}  BY <3>1
      <3>4. /\ q \in Seq(Chunks) /\ \A j \in DOMAIN q : q[j].kind = "done" => j = Len(q)
            /\ Len(new) = 1 => \E at \in DOMAIN q :
                 q[at] = new[1] /\ \A j \in DOMAIN q : q[j].kind = "call" => j = at
        BY <1>3, <1>5, <3>1, <3>3, Pieces
      <3>5. queue' = q  BY <3>2
      <3> HIDE DEF q
      <3> QED BY <3>1, <3>4, <3>5
    <2>6. Waiting'
      <3>1. PICK at \in DOMAIN queue' :
              queue'[at] = k /\ \A j \in DOMAIN queue' : queue'[j].kind = "call" => j = at
        BY <2>5
      <3>2. queue'[at].kind = "call" /\ queue'[at].id = c /\ queue'[at].args = Args(c, src'.frags[c])  BY <2>4, <3>1
      <3>3. c \notin src.closed /\ src'.closed = src.closed \cup {c}  BY <2>2
      <3> QED BY <2>5, <3>1, <3>2, <3>3, WaitingOne
    <2> QED BY <2>2, <2>3, <2>6
  <1> QED BY <1>7, <1>8

\* genai: one response with one call.
LEMMA PartReadKeeps ==
    ASSUME Mirror, Taken, Waiting, queue = << >>, ~over, UNCHANGED <<req, turn>>, PartRead
    PROVE  Mirror' /\ Taken' /\ Waiting'
  <1>1. PICK c \in CallIds \ ToSet(src.begun), u \in Prompts \cup {NoUsage} :
          /\ queue' = <<Call(Build(c))>>
          /\ src' = [Begun(src, c) EXCEPT !.closed = @ \cup {c}]
          /\ dec' = [dec EXCEPT !.held = IF u = NoUsage THEN @ ELSE u]
    BY DEF PartRead, Yields
  <1>2. req.adapter = "genai"  BY DEF PartRead, Live, Reading
  <1>3. dec' \in Decoders
    <2>1. dec \in Decoders /\ dec.held \in Usages /\ u \in Usages
      BY <1>1, ReportedUsage DEF Mirror, Decoders
    <2>2. PICK v \in Usages : v = IF u = NoUsage THEN dec.held ELSE u  BY <2>1
    <2>3. dec' = [dec EXCEPT !.held = v]  BY <1>1, <2>2
    <2> QED BY <2>1, <2>2, <2>3, DecoderFields
  <1>4. /\ Mirror' /\ c \notin src.closed /\ src'.closed = src.closed \cup {c}
        /\ src'.frags = src.frags /\ src.frags[c] = 0
    BY <1>1, <1>2, <1>3, ClosedAtOnce
  <1>5. Taken'  BY <1>4, TakenKept
  <1> DEFINE k == Call(Build(c))
  <1>6. k \in Chunks /\ k.kind = "call" /\ k.id = c /\ k.args = Args(c, src'.frags[c])
    <2>1. Build(c) = Part(c, 0) /\ 0 \in Nat  BY ArgsNone DEF Build, Part
    <2> QED BY <1>4, <2>1, CallChunk
  <1>7. queue' = <<k>>  BY <1>1
  <1> HIDE DEF k
  <1>8. queue' \in Seq(Chunks) /\ DOMAIN queue' = {1} /\ queue'[1] = k  BY <1>6, <1>7
  <1>9. Waiting'  BY <1>4, <1>6, <1>8, WaitingOne
  <1> QED BY <1>4, <1>5, <1>9

\* Whatever an adapter reads, its builders mirror the provider, and every
\* completed call is taken over or waiting.
LEMMA DecodeKeeps ==
    ASSUME Mirror, Taken, Waiting, Decode
    PROVE  Mirror' /\ Taken' /\ Waiting'
  <1>1. queue = << >> /\ ~over /\ UNCHANGED <<req, turn>>  BY DecodeRest DEF Rest
  <1>2. CASE Loud
    BY <1>1, <1>2, BlockStartKeeps, BlockDeltaKeeps, BlockStopKeeps, CallDeltaKeeps,
       StreamDoneKeeps, ObjectReadKeeps, PartReadKeeps DEF Loud
  <1>3. CASE ~Loud
    BY <1>3, QuietDecode
  <1> QED BY <1>2, <1>3

\* What a chunk adds to the calls the bridge has taken over.
LEMMA ShownCalls ==
    Quiet => \A c :
      /\ c.kind \in {"text", "thinking"} =>
            Shown(c).pending = turn.pending /\ Shown(c).given = turn.given
      /\ c.kind = "call" =>
            /\ Shown(c).pending = Append(turn.pending, [id |-> c.id, args |-> c.args])
            /\ Shown(c).given = turn.given \cup {[id |-> c.id, args |-> c.args]}
      /\ c.kind = "done" => Shown(c).final = turn.pending /\ Shown(c).given = turn.given
  <1> HAVE Quiet
  <1> TAKE c
  <1> DEFINE t == [turn EXCEPT !.from = @ \cup {attempt}]  b == [id |-> c.id, args |-> c.args]
  <1>1. DOMAIN t = TurnFields /\ t.pending = turn.pending /\ t.given = turn.given
    BY DEF TurnFields, Quiet
  <1>2. ASSUME c.kind \in {"text", "thinking"} PROVE Shown(c) = t  BY <1>2 DEF Shown
  <1>3. ASSUME c.kind = "call"
        PROVE  Shown(c) = [t EXCEPT !.given = @ \cup {b}, !.pending = Append(@, b)]
    BY <1>3 DEF Shown
  <1>4. ASSUME c.kind = "done"
        PROVE  Shown(c) = [t EXCEPT !.finals = @ + 1, !.final = t.pending, !.error = c.error,
                                    !.usage = IF c.error THEN NoUsage ELSE c.usage]
    BY <1>4 DEF Shown
  <1> HIDE DEF t, b
  <1>5. c.kind = "call" => Shown(c).pending = Append(turn.pending, b) /\ Shown(c).given = turn.given \cup {b}
    BY ZenonT(60), <1>1, <1>3 DEF TurnFields
  <1>6. c.kind = "done" => Shown(c).final = turn.pending /\ Shown(c).given = turn.given
    BY <1>1, <1>4 DEF TurnFields
  <1>7. c.kind \in {"text", "thinking"} =>
            Shown(c).pending = turn.pending /\ Shown(c).given = turn.given
    BY <1>1, <1>2
  <1> QED BY <1>5, <1>6, <1>7 DEF b

GivenWhole(g) == \A b \in g : b.id \in src.closed /\ b = Whole(b.id)

LEMMA TakenGiven == Taken => GivenWhole(turn.given)
  BY DEF Taken, GivenWhole, ToSet

\* The call at the head of the queue, as the bridge takes it.
LEMMA HeadCall ==
    ASSUME Waiting, Mirror, queue # << >>, Head(queue).kind = "call"
    PROVE  LET b == [id |-> Head(queue).id, args |-> Head(queue).args]
           IN  b \in Built /\ b.id \in src.closed /\ b = Whole(b.id) /\ b.id = queue[1].id
  <1> DEFINE b == [id |-> Head(queue).id, args |-> Head(queue).args]  c == queue[1].id
  <1>0. queue \in Seq(Chunks)  BY DEF Waiting
  <1>1. 1 \in DOMAIN queue /\ Head(queue) = queue[1]  BY <1>0, HeadChunk
  <1>2. c \in src.closed /\ queue[1].args = Whole(c).args  BY <1>1 DEF Waiting
  <1>3. src.closed \subseteq CallIds /\ src.frags \in [CallIds -> Nat]  BY DEF Mirror, Sources
  <1>4. Whole(c) \in Built  BY <1>2, <1>3, WholeType
  <1>5. Whole(c) = [id |-> c, args |-> Whole(c).args]  BY DEF Whole
  <1>6. b = [id |-> c, args |-> queue[1].args]  BY <1>1
  <1>7. b = Whole(c) /\ b.id = c  BY <1>2, <1>5, <1>6
  <1> QED BY <1>2, <1>4, <1>7

LEMMA ShownGiven ==
    ASSUME Mirror, Taken, Waiting, Quiet, queue # << >>, Head(queue).kind # "fail"
    PROVE  GivenWhole(Shown(Head(queue)).given)
  <1>1. PICK c : c = Head(queue)  OBVIOUS
  <1>2. c.kind \in {"text", "thinking", "call", "done"}  BY <1>1, HeadChunk DEF Waiting
  <1>3. GivenWhole(turn.given)  BY TakenGiven
  <1>4. CASE c.kind = "call"
    <2> DEFINE b == [id |-> c.id, args |-> c.args]
    <2>1. b.id \in src.closed /\ b = Whole(b.id)  BY <1>1, <1>4, HeadCall
    <2>2. Shown(c).given = turn.given \cup {b}  BY <1>4, ShownCalls
    <2> HIDE DEF b
    <2> QED BY <1>1, <1>3, <2>1, <2>2 DEF GivenWhole
  <1>5. CASE c.kind # "call"
    <2>1. Shown(c).given = turn.given  BY <1>2, <1>5, ShownCalls
    <2> QED BY <1>1, <1>3, <2>1
  <1> QED BY <1>4, <1>5

LEMMA OneMore ==
    ASSUME NEW S, NEW s \in Seq(S), NEW e \in S
    PROVE  /\ Append(s, e) \in Seq(S) /\ Len(Append(s, e)) = Len(s) + 1
           /\ \A i \in 1 .. Len(s) : Append(s, e)[i] = s[i]
           /\ Append(s, e)[Len(s) + 1] = e
  OBVIOUS

\* A partial response moves one chunk from the queue to the bridge.
LEMMA TakeKeeps ==
    ASSUME Mirror, Taken, Waiting, Quiet, queue # << >>,
           Head(queue).kind \in {"text", "thinking", "call"},
           turn' = Shown(Head(queue)), queue' = Tail(queue), UNCHANGED <<req, src, dec, over>>
    PROVE  Mirror' /\ Taken' /\ Waiting'
  <1> DEFINE c == queue[1]  b == [id |-> c.id, args |-> c.args]  p == turn.pending
  <1>0. queue \in Seq(Chunks)  BY DEF Waiting
  <1>1. /\ Len(queue) \in Nat \ {0} /\ DOMAIN queue = 1 .. Len(queue) /\ 1 \in DOMAIN queue
        /\ Head(queue) = c /\ queue' \in Seq(Chunks) /\ DOMAIN queue' = 1 .. Len(queue) - 1
        /\ Len(queue') = Len(queue) - 1
        /\ \A i \in DOMAIN queue' : i + 1 \in DOMAIN queue /\ queue'[i] = queue[i + 1]
    BY <1>0, HeadChunk
  <1>2. Mirror'
    BY SMTT(20) DEF Mirror, Whole
  <1>3. \A j \in DOMAIN queue : j = 1 \/ (j - 1 \in DOMAIN queue' /\ queue'[j - 1] = queue[j])
    BY <1>1
  <1>4. \A d : Whole(d)' = Whole(d)  BY WholeDef, WholeDefNext
  <1>5. (\A j \in DOMAIN queue : queue[j].kind = "call" =>
             queue[j].id \in src.closed /\ queue[j].args = Whole(queue[j].id).args)'
    <2> SUFFICES ASSUME NEW j \in DOMAIN queue', queue'[j].kind = "call"
                 PROVE  queue'[j].id \in src'.closed /\ (queue[j].args = Whole(queue[j].id).args)'
      OBVIOUS
    <2>1. queue'[j].id \in src.closed /\ queue'[j].args = Args(queue'[j].id, src.frags[queue'[j].id])
      BY <1>1 DEF Waiting, Whole, Args
    <2> QED BY <2>1 DEF Whole, Args
  <1>6. \A i, j \in DOMAIN queue' :
          queue'[i].kind = "call" /\ queue'[j].kind = "call" /\ queue'[i].id = queue'[j].id => i = j
    <2> SUFFICES ASSUME NEW i \in DOMAIN queue', NEW j \in DOMAIN queue', queue'[i].kind = "call",
                        queue'[j].kind = "call", queue'[i].id = queue'[j].id
                 PROVE  i = j
      OBVIOUS
    <2>1. i + 1 = j + 1  BY <1>1 DEF Waiting
    <2> QED BY <1>1, <2>1
  <1>7. \A j \in DOMAIN queue' : queue'[j].kind = "done" => j = Len(queue')
    <2> SUFFICES ASSUME NEW j \in DOMAIN queue', queue'[j].kind = "done" PROVE j = Len(queue')
      OBVIOUS
    <2>1. j + 1 = Len(queue)  BY <1>1 DEF Waiting
    <2> QED BY <1>1, <2>1
  <1>8. CASE c.kind \in {"text", "thinking"}
    <2>1. turn'.pending = p /\ turn'.given = turn.given  BY <1>1, <1>8, ShownCalls
    <2>2. Taken'  BY <2>1, TakenKept
    <2>3. \A d \in src'.closed :
            \/ \E i \in DOMAIN p : p[i].id = d
            \/ \E j \in DOMAIN queue' : queue'[j].kind = "call" /\ queue'[j].id = d
      <3> TAKE d \in src'.closed
      <3>1. CASE \E i \in DOMAIN p : p[i].id = d  BY <3>1
      <3>2. CASE \E j \in DOMAIN queue : queue[j].kind = "call" /\ queue[j].id = d
        <4>1. PICK j \in DOMAIN queue : queue[j].kind = "call" /\ queue[j].id = d  BY <3>2
        <4>2. j # 1  BY <1>8, <4>1
        <4> QED BY <1>3, <4>1, <4>2
      <3> QED BY <3>1, <3>2 DEF Waiting
    <2>4. \A i \in DOMAIN p, j \in DOMAIN queue' :
            queue'[j].kind = "call" => queue'[j].id # p[i].id
      BY <1>1 DEF Waiting
    <2>5. Waiting'  BY <1>1, <1>5, <1>6, <1>7, <2>1, <2>3, <2>4 DEF Waiting
    <2> QED BY <1>2, <2>2, <2>5
  <1>9. CASE c.kind = "call"
    <2>1. turn'.pending = Append(p, b) /\ turn'.given = turn.given \cup {b}
      BY <1>1, <1>9, ShownCalls
    <2>2. b \in Built /\ b.id \in src.closed /\ b = Whole(b.id) /\ b.id = c.id
      BY <1>1, <1>9, HeadCall
    <2>3. p \in Seq(Built) /\ turn.given = ToSet(p) /\ Len(p) \in Nat /\ DOMAIN p = 1 .. Len(p)
      BY DEF Taken
    <2>4. \A i \in DOMAIN p : p[i].id # b.id
      BY <1>1, <1>9, <2>2 DEF Waiting
    <2> HIDE DEF b
    <2>5. /\ turn'.pending \in Seq(Built) /\ DOMAIN turn'.pending = 1 .. Len(p) + 1
          /\ turn'.pending[Len(p) + 1] = b /\ \A i \in DOMAIN p : turn'.pending[i] = p[i]
          /\ \A i \in DOMAIN turn'.pending : i \in DOMAIN p \/ i = Len(p) + 1
          /\ Len(p) + 1 \in DOMAIN turn'.pending /\ \A i \in DOMAIN p : i \in DOMAIN turn'.pending
      <3> HIDE DEF p
      <3>1. /\ turn'.pending \in Seq(Built) /\ Len(turn'.pending) = Len(p) + 1
            /\ \A i \in 1 .. Len(p) : turn'.pending[i] = p[i]
            /\ turn'.pending[Len(p) + 1] = b
        <4>1. b \in Built /\ p \in Seq(Built)  BY <2>2, <2>3
        <4>2. /\ Append(p, b) \in Seq(Built) /\ Len(Append(p, b)) = Len(p) + 1
              /\ \A i \in 1 .. Len(p) : Append(p, b)[i] = p[i]
              /\ Append(p, b)[Len(p) + 1] = b
          BY <4>1, OneMore
        <4> QED BY <2>1, <4>2
      <3>2. DOMAIN turn'.pending = 1 .. Len(p) + 1  BY <3>1
      <3> QED BY <2>3, <3>1, <3>2
    <2>6. turn'.given = ToSet(turn'.pending)
      BY <2>1, <2>3, <2>5 DEF ToSet
    <2>7. (\A i \in DOMAIN turn.pending :
             turn.pending[i].id \in src.closed /\ turn.pending[i] = Whole(turn.pending[i].id))'
      <3> SUFFICES ASSUME NEW i \in DOMAIN turn'.pending
                   PROVE  turn'.pending[i].id \in src'.closed
                          /\ (turn.pending[i] = Whole(turn.pending[i].id))'
        OBVIOUS
      <3>1. turn'.pending[i].id \in src.closed
            /\ turn'.pending[i] = Part(turn'.pending[i].id, src.frags[turn'.pending[i].id])
        <4>1. CASE i \in DOMAIN p
          BY <2>5, <4>1, WholeDef DEF Taken
        <4>2. CASE i = Len(p) + 1
          BY <2>2, <2>5, <4>2, WholeDef
        <4> QED BY <2>5, <4>1, <4>2
      <3> QED BY <3>1 DEF Whole, Part, Args
    <2>8. \A i, j \in DOMAIN turn'.pending : turn'.pending[i].id = turn'.pending[j].id => i = j
      <3>1. \A i, j \in DOMAIN p : p[i].id = p[j].id => i = j  BY DEF Taken
      <3> HIDE DEF p
      <3> QED BY <2>4, <2>5, <3>1
    <2>9. Taken'  BY <2>5, <2>6, <2>7, <2>8 DEF Taken
    <2>10. \A d \in src'.closed :
             \/ \E i \in DOMAIN turn'.pending : turn'.pending[i].id = d
             \/ \E j \in DOMAIN queue' : queue'[j].kind = "call" /\ queue'[j].id = d
      <3> TAKE d \in src'.closed
      <3>1. CASE \E i \in DOMAIN p : p[i].id = d  BY <2>5, <3>1
      <3>2. CASE \E j \in DOMAIN queue : queue[j].kind = "call" /\ queue[j].id = d
        <4>1. PICK j \in DOMAIN queue : queue[j].kind = "call" /\ queue[j].id = d  BY <3>2
        <4>2. CASE j = 1  BY <2>2, <2>5, <4>1, <4>2
        <4>3. CASE j # 1  BY <1>3, <4>1, <4>3
        <4> QED BY <4>2, <4>3
      <3> QED BY <3>1, <3>2 DEF Waiting
    <2>11. \A i \in DOMAIN turn'.pending, j \in DOMAIN queue' :
             queue'[j].kind = "call" => queue'[j].id # turn'.pending[i].id
      <3> SUFFICES ASSUME NEW i \in DOMAIN turn'.pending, NEW j \in DOMAIN queue',
                          queue'[j].kind = "call"
                   PROVE  queue'[j].id # turn'.pending[i].id
        OBVIOUS
      <3>1. j + 1 \in DOMAIN queue /\ queue'[j] = queue[j + 1] /\ j + 1 # 1  BY <1>1
      <3>2. CASE i \in DOMAIN p  BY <2>5, <3>1, <3>2 DEF Waiting
      <3>3. CASE i = Len(p) + 1
        <4>1. queue[j + 1].id # queue[1].id  BY <1>1, <1>9, <3>1 DEF Waiting
        <4> QED BY <2>2, <2>5, <3>1, <3>3, <4>1
      <3> QED BY <2>5, <3>2, <3>3
    <2>12. Waiting'  BY <1>1, <1>5, <1>6, <1>7, <2>10, <2>11 DEF Waiting
    <2> QED BY <1>2, <2>9, <2>12
  <1> QED BY <1>1, <1>8, <1>9

\* What the caller was given stays whole while the provider is silent.
LEMMA GivenNext ==
    ASSUME GivenWhole(turn'.given), UNCHANGED src
    PROVE  (\A b \in turn.given : b.id \in src.closed /\ b = Whole(b.id))'
  <1> SUFFICES ASSUME NEW b \in turn'.given
               PROVE  b.id \in src'.closed /\ (b = Whole(b.id))'
    OBVIOUS
  <1>1. b.id \in src.closed /\ b = Part(b.id, src.frags[b.id])
    BY WholeDef DEF GivenWhole
  <1> QED BY <1>1 DEF Whole, Part, Args

\* Without usage a response promises nothing about its final calls.
LEMMA GivenOnly ==
    ASSUME GivenWhole(turn'.given), UNCHANGED src, turn'.usage = NoUsage
    PROVE  WholeCalls'
  BY GivenNext DEF WholeCalls

\* The terminal chunk is taken when no other is waiting, so that the final
\* response repeats every call the provider completed.
LEMMA FinalKeeps ==
    ASSUME Mirror, Taken, Waiting, Quiet, queue # << >>, Head(queue).kind = "done",
           turn' = Shown(Head(queue)), UNCHANGED src
    PROVE  WholeCalls'
  <1> DEFINE p == turn.pending
  <1>0. queue \in Seq(Chunks)  BY DEF Waiting
  <1>1. Len(queue) \in Nat /\ DOMAIN queue = 1 .. Len(queue) /\ 1 \in DOMAIN queue
        /\ Head(queue) = queue[1]
    BY <1>0, HeadChunk
  <1>2. Len(queue) = 1  BY <1>1 DEF Waiting
  <1>3. \A j \in DOMAIN queue : queue[j].kind # "call"  BY <1>1, <1>2
  <1>4. \A c \in src.closed : \E i \in DOMAIN p : p[i].id = c  BY <1>3 DEF Waiting
  <1>5. turn'.final = p /\ turn'.given = turn.given  BY ShownCalls
  <1>6. \A i \in DOMAIN p : p[i].id \in src.closed /\ p[i] = Whole(p[i].id)  BY DEF Taken
  <1>7. IsInjective(p)
    <2>1. \A i, j \in DOMAIN p : p[i].id = p[j].id => i = j  BY DEF Taken
    <2> HIDE DEF p
    <2> QED BY <2>1 DEF IsInjective
  <1> HIDE DEF p
  <1>8. ToSet(p) = {Whole(c) : c \in src.closed}
    <2>1. \A i \in DOMAIN p : p[i] \in {Whole(c) : c \in src.closed}  BY <1>6
    <2>2. \A c \in src.closed : \E i \in DOMAIN p : p[i] = Whole(c)  BY <1>4, <1>6
    <2> QED BY <2>1, <2>2 DEF ToSet
  <1>9. (ToSet(turn.final) = {Whole(c) : c \in src.closed})'
    BY <1>5, <1>8 DEF Whole
  <1>10. GivenWhole(turn'.given)  BY <1>5, TakenGiven
  <1> QED BY <1>5, <1>7, <1>9, <1>10, GivenNext DEF WholeCalls

\* An answer that comes as a whole has whole calls.
LEMMA CompletedKeeps ==
    ASSUME turn = NoTurn, src = NoStream, NEW a, NEW usages, tryComplete(a, usages)
    PROVE  WholeCalls'
  <1>1. \A b \in turn'.given : \E c \in CallIds : b = Build(c)  BY CompletedTurn
  <1>2. src'.closed = CallIds /\ src'.frags = [c \in CallIds |-> 0]
    BY DEF tryComplete, NoStream
  <1>3. req'.mode # "stream"  BY DEF tryComplete
  <1>4. (\A b \in turn.given : b.id \in src.closed /\ b = Whole(b.id))'
    <2> SUFFICES ASSUME NEW b \in turn'.given
                 PROVE  b.id \in src'.closed /\ (b = Whole(b.id))'
      OBVIOUS
    <2>1. PICK c \in CallIds : b = Build(c)  BY <1>1
    <2>2. b.id = c /\ b.id \in src'.closed /\ src'.frags[b.id] = 0  BY <1>2, <2>1 DEF Build
    <2>3. b = Part(b.id, src'.frags[b.id])  BY <2>1, <2>2, ArgsNone DEF Build, Part
    <2> QED BY <2>2, <2>3 DEF Whole, Part, Args
  <1> QED BY <1>3, <1>4 DEF WholeCalls

\* The body of a response is read by a fresh decoder for a bridge that has
\* taken over nothing.
LEMMA AcceptedKeeps ==
    ASSUME turn = NoTurn, src = NoStream, dec = NoDecoder, queue = << >>, over = FALSE,
           UNCHANGED <<req, turn, src, dec, queue, over>>
    PROVE  Mirror' /\ Taken' /\ Waiting'
  <1>0. Cardinality(CallIds) \in Nat  BY ProviderAssumption, FS_CardinalityType
  <1>1. src \in Sources
    <2> DEFINE F == [CallIds -> Nat]  H == Seq(CallIds)
    <2>1. [c \in CallIds |-> 0] \in F /\ << >> \in H  OBVIOUS
    <2> HIDE DEF F, H
    <2> QED BY <2>1 DEF NoStream, Sources, F, H
  <1>2. dec \in Decoders
    <2> DEFINE F == Seq(Built)  G == [1 .. Cardinality(CallIds) -> Nat]
               z == [i \in 1 .. Cardinality(CallIds) |-> 0]
    <2>1. << >> \in F /\ z \in G /\ NoUsage \in Usages  BY DEF Usages
    <2>2. dec = [order |-> << >>, byIdx |-> z, held |-> NoUsage, signed |-> FALSE]
      BY DEF NoDecoder
    <2>3. Decoders = [order: F, byIdx: G, held: Usages, signed: BOOLEAN]  BY DEF Decoders
    <2> HIDE DEF F, G, z
    <2> QED BY <2>1, <2>2, <2>3
  <1>3. src.begun = << >> /\ src.closed = {} /\ src.frags = [c \in CallIds |-> 0]
    BY DEF NoStream
  <1>4. dec.order = << >> /\ dec.byIdx = [i \in 1 .. Cardinality(CallIds) |-> 0]
    BY DEF NoDecoder
  <1>5. DOMAIN src.begun = {} /\ Len(src.begun) = 0 /\ Len(dec.order) = 0
    BY <1>3, <1>4
  <1>6. Mirror  BY <1>1, <1>2, <1>3, <1>4, <1>5 DEF Mirror
  <1>7. turn.pending = << >> /\ turn.given = {} /\ DOMAIN turn.pending = {} /\ DOMAIN queue = {}
    BY DEF NoTurn
  <1>8. turn.pending \in Seq(Built) /\ queue \in Seq(Chunks)  BY <1>7
  <1>9. Taken  BY <1>7, <1>8 DEF Taken, ToSet
  <1>10. Waiting  BY <1>3, <1>7, <1>8 DEF Waiting
  <1>11. UNCHANGED <<Mirror, Taken, Waiting>>
    BY DEF Mirror, Taken, Waiting, Whole
  <1> QED BY <1>6, <1>9, <1>10, <1>11

\* The stream, the request and the turn decide what the bridge owes.
LEMMA BridgeSteady ==
    ASSUME Bridge, pc' = pc, UNCHANGED <<req, src, dec, queue, over, turn>>
    PROVE  Bridge'
  <1>1. UNCHANGED <<Mirror, Taken, Waiting>>
    BY DEF Mirror, Taken, Waiting, Whole
  <1>2. UNCHANGED WholeCalls
    BY DEF WholeCalls, Whole
  <1> QED BY <1>1, <1>2 DEF Bridge

LEMMA BridgeElsewhere == pc' \notin {"request", "body", "returned"} => Bridge'
  BY DEF Bridge

\* A turn that was given nothing was given nothing in part.
LEMMA NothingGiven ==
    ASSUME turn = NoTurn
    PROVE  WholeCalls
  <1>1. turn.given = {} /\ turn.usage = NoUsage  BY DEF NoTurn
  <1> QED BY <1>1 DEF WholeCalls

LEMMA BridgeTakes ==
    ASSUME Flow, Bridge, Take
    PROVE  Bridge'
  <1>1. pc = "body" /\ Mirror /\ Taken /\ Waiting /\ Quiet
    <2>1. pc = "body"  BY DEF Take, TakeChunk, Leave, TakeFailure, finishEmpty
    <2> QED BY <2>1 DEF Bridge, Flow, Quiet
  <1>2. queue \in Seq(Chunks)  BY <1>1 DEF Waiting
  <1>3. DOMAIN turn = TurnFields /\ turn.usage = NoUsage  BY <1>1 DEF Quiet
  <1>4. CASE TakeChunk
    <2>1. /\ queue # << >> /\ Head(queue).kind # "fail" /\ turn' = Shown(Head(queue))
          /\ queue' = Tail(queue) /\ UNCHANGED <<req, src, dec, over>>
      BY <1>4 DEF TakeChunk
    <2>2. CASE Head(queue).kind = "done"
      <3>1. pc' = "returned"  BY <1>4, <2>2 DEF TakeChunk
      <3>2. WholeCalls'  BY <1>1, <2>1, <2>2, FinalKeeps
      <3> QED BY <3>1, <3>2 DEF Bridge
    <2>3. CASE Head(queue).kind # "done"
      <3>1. pc' = "body"  BY <1>1, <1>4, <2>3 DEF TakeChunk
      <3>2. Head(queue).kind \in {"text", "thinking", "call"}  BY <1>2, <2>1, <2>3, HeadChunk
      <3>3. Mirror' /\ Taken' /\ Waiting'  BY <1>1, <2>1, <3>2, TakeKeeps
      <3> QED BY <3>1, <3>3 DEF Bridge
    <2> QED BY <2>2, <2>3
  <1>5. CASE Leave
    <2> PICK c : c = Head(queue)  OBVIOUS
    <2>1. /\ queue # << >> /\ c.kind \in {"text", "thinking", "call"} /\ pc' = "returned"
          /\ turn' = [Shown(c) EXCEPT !.left = TRUE] /\ UNCHANGED src
      BY <1>5 DEF Leave, stream
    <2>2. DOMAIN Shown(c) = TurnFields /\ Shown(c).usage = NoUsage  BY <1>1, <2>1, ShownTurn
    <2>3. turn'.given = Shown(c).given /\ turn'.usage = NoUsage
      BY <2>1, <2>2 DEF TurnFields
    <2>4. GivenWhole(Shown(c).given)  BY <1>1, <2>1, ShownGiven
    <2>5. WholeCalls'  BY <2>1, <2>3, <2>4, GivenOnly
    <2> QED BY <2>1, <2>5 DEF Bridge
  <1>6. CASE TakeFailure /\ ~Given
    <2>1. pc' = "classify"  BY <1>6 DEF TakeFailure, OpFails
    <2> QED BY <2>1, BridgeElsewhere
  <1>7. CASE (TakeFailure /\ Given) \/ finishEmpty
    <2>1. /\ pc' = "returned" /\ UNCHANGED src
          /\ \/ turn' = [turn EXCEPT !.finals = @ + 1, !.error = TRUE]
             \/ turn' = [turn EXCEPT !.finals = @ + 1]
      BY <1>7 DEF TakeFailure, finishEmpty, stream
    <2>2. turn'.given = turn.given /\ turn'.usage = NoUsage  BY <1>3, <2>1 DEF TurnFields
    <2>3. GivenWhole(turn.given)  BY <1>1, TakenGiven
    <2>4. WholeCalls'  BY <2>1, <2>2, <2>3, GivenOnly
    <2> QED BY <2>1, <2>4 DEF Bridge
  <1> QED BY <1>4, <1>5, <1>6, <1>7 DEF Take

LEMMA BridgeStep ==
    ASSUME Flow, Bridge, [Next]_vars
    PROVE  Bridge'
  <1>1. CASE Begin \/ GiveUp \/ Classify \/ TimerFires
    <2>1. pc' \in {"attempt", "failed", "backoff"}
      BY <1>1 DEF Begin, GiveUp, Classify, TimerFires
    <2> QED BY <2>1, BridgeElsewhere
  <1>2. CASE StartAttempt
    BY <1>2 DEF StartAttempt, Bridge
  <1>3. CASE Cancel \/ Idle \/ UNCHANGED vars
    BY <1>3, BridgeSteady DEF Cancel, Idle, vars, stream
  <1>4. CASE TransportFails \/ Refused \/ RefusedWhole
    <2>1. pc' = "classify"
      BY <1>4 DEF TransportFails, Refused, RefusedWhole, OpFails
    <2> QED BY <2>1, BridgeElsewhere
  <1>5. CASE Accepted
    <2>1. pc = "request" /\ pc' = "body" /\ UNCHANGED <<req, turn, src, dec, queue, over>>
      BY <1>5 DEF Accepted, stream
    <2>2. turn = NoTurn  BY <2>1 DEF Flow, Trying
    <2>3. src = NoStream /\ dec = NoDecoder /\ queue = << >> /\ over = FALSE
      BY <2>1 DEF Bridge
    <2>4. Mirror' /\ Taken' /\ Waiting'  BY <2>1, <2>2, <2>3, AcceptedKeeps
    <2> QED BY <2>1, <2>4 DEF Bridge
  <1>6. CASE Completed
    <2>1. PICK a : \E usages \in SUBSET Usages : tryComplete(a, usages)  BY <1>6, CompletedShape
    <2> PICK usages \in SUBSET Usages : tryComplete(a, usages)  BY <2>1
    <2>2. pc = "request" /\ pc' = "returned"  BY <2>1 DEF tryComplete
    <2>3. turn = NoTurn /\ src = NoStream  BY <2>2 DEF Flow, Trying, Bridge
    <2>4. WholeCalls'  BY <2>1, <2>3, CompletedKeeps
    <2> QED BY <2>2, <2>4 DEF Bridge
  <1>7. CASE Decode
    <2>1. pc = "body" /\ pc' = "body"  BY <1>7, DecodeRest DEF Rest
    <2>2. Mirror /\ Taken /\ Waiting  BY <2>1 DEF Bridge
    <2>3. Mirror' /\ Taken' /\ Waiting'  BY <1>7, <2>2, DecodeKeeps
    <2> QED BY <2>1, <2>3 DEF Bridge
  <1>8. CASE Take
    BY <1>8, BridgeTakes
  <1>9. CASE Answered
    <2>1. CASE \E slice, out : Lands(slice, out)
      <3>1. pc' \in {"returned", "attempt"} /\ UNCHANGED turn  BY <2>1 DEF Lands
      <3>2. turn = NoTurn  BY <1>9, AnsweredShape DEF Flow, Trying
      <3>3. WholeCalls'
        <4>1. turn'.given = {} /\ turn'.usage = NoUsage  BY <3>1, <3>2 DEF NoTurn
        <4> QED BY <4>1 DEF WholeCalls
      <3> QED BY <3>1, <3>3 DEF Bridge
    <2>2. CASE Rejected \/ \E e : OpFails(e)
      <3>1. pc' \in {"failed", "classify"}  BY <2>2 DEF Rejected, OpFails
      <3> QED BY <3>1, BridgeElsewhere
    <2> QED BY <1>9, <2>1, <2>2, AnsweredShape
  <1>10. CASE Observe \/ WriteTmp \/ FlushTmp \/ Rename \/ SaveFails \/ EndFailed \/ Crash
    <2>1. pc' \in Resting
      BY <1>10 DEF Observe, WriteTmp, FlushTmp, Rename, SaveFails, EndFailed, Crash, Resting
    <2> QED BY <2>1, BridgeElsewhere DEF Resting
  <1> QED
    BY <1>1, <1>2, <1>3, <1>4, <1>5, <1>6, <1>7, <1>8, <1>9, <1>10 DEF Next
-----------------------------------------------------------------------------
(* Flattened sequences: where each of them comes to stand.                 *)

\* Induction on the naturals, for a set of them.
LEMMA NatSet ==
    ASSUME NEW W, 0 \in W, \A n \in Nat : n \in W => n + 1 \in W
    PROVE  Nat \subseteq W
  <1> SUFFICES ASSUME Nat \ W # {} PROVE FALSE
    OBVIOUS
  <1>1. PICK x \in Nat \ W : \A y \in Nat \ W : ~(<<y, x>> \in OpToRel(<, Nat))
    BY NatLessThanWellFounded, WFMin
  <1>2. x # 0 /\ x - 1 \in Nat
    OBVIOUS
  <1>3. x - 1 \in Nat \ W
    BY <1>2
  <1>4. ~(<<x - 1, x>> \in OpToRel(<, Nat))
    BY <1>1, <1>3
  <1> QED BY <1>2, <1>4 DEF OpToRel

\* What the first i sequences add up to.
Adds(cat, seqs, n) ==
    /\ DOMAIN cat = 0 .. n /\ cat[0] = << >>
    /\ \A i \in 1 .. n : cat[i] = cat[i - 1] \o seqs[i]

LEMMA Added ==
    ASSUME NEW T, NEW seqs \in Seq(Seq(T))
    PROVE  \E cat \in [0 .. Len(seqs) -> Seq(T)] : Adds(cat, seqs, Len(seqs))
  <1> DEFINE N == Len(seqs)
             K == {n \in Nat : n <= N => \E cat \in [0 .. n -> Seq(T)] : Adds(cat, seqs, n)}
  <1>0. N \in Nat /\ \A i \in 1 .. N : seqs[i] \in Seq(T)
    OBVIOUS
  <1> HIDE DEF N
  <1>1. 0 \in K
    <2> DEFINE c == [i \in 0 .. 0 |-> << >>]
    <2>1. c \in [0 .. 0 -> Seq(T)]
      OBVIOUS
    <2>2. Adds(c, seqs, 0)
      BY DEF Adds
    <2> HIDE DEF c
    <2> QED BY <2>1, <2>2
  <1>2. ASSUME NEW n \in Nat, n \in K PROVE n + 1 \in K
    <2> SUFFICES ASSUME n + 1 <= N PROVE \E cat \in [0 .. n + 1 -> Seq(T)] : Adds(cat, seqs, n + 1)
      OBVIOUS
    <2>1. PICK c \in [0 .. n -> Seq(T)] : Adds(c, seqs, n)
      BY <1>0, <1>2
    <2> DEFINE d == [i \in 0 .. n + 1 |-> IF i <= n THEN c[i] ELSE c[n] \o seqs[n + 1]]
    <2>2. c[n] \o seqs[n + 1] \in Seq(T)
      <3>1. c[n] \in Seq(T) /\ seqs[n + 1] \in Seq(T)
        BY <1>0
      <3> QED BY <3>1
    <2>3. d \in [0 .. n + 1 -> Seq(T)]
      BY <2>2
    <2>4. Adds(d, seqs, n + 1)
      <3>1. DOMAIN d = 0 .. n + 1 /\ d[0] = << >>
        BY <2>1 DEF Adds
      <3>2. ASSUME NEW i \in 1 .. n + 1 PROVE d[i] = d[i - 1] \o seqs[i]
        <4>1. CASE i <= n
          <5>1. d[i] = c[i] /\ d[i - 1] = c[i - 1] /\ i \in 1 .. n
            BY <4>1
          <5> QED BY <2>1, <5>1 DEF Adds
        <4>2. CASE i = n + 1
          <5>1. d[i] = c[n] \o seqs[i] /\ d[i - 1] = c[n]
            BY <4>2
          <5> QED BY <5>1
        <4>3. i <= n \/ i = n + 1
          OBVIOUS
        <4> QED BY <4>1, <4>2, <4>3
      <3> QED BY <3>1, <3>2 DEF Adds
    <2> HIDE DEF d
    <2> QED BY <2>3, <2>4
  <1> HIDE DEF K
  <1>3. Nat \subseteq K
    BY <1>1, <1>2, NatSet
  <1>4. N \in K
    BY <1>0, <1>3
  <1> QED BY <1>4 DEF K, N

\* FlattenSeq is the sum of them all.
LEMMA Flattened ==
    ASSUME NEW T, NEW seqs \in Seq(Seq(T))
    PROVE  \E cat \in [0 .. Len(seqs) -> Seq(T)] :
              Adds(cat, seqs, Len(seqs)) /\ FlattenSeq(seqs) = cat[Len(seqs)]
  <1> DEFINE N == Len(seqs)
             P(f) == f = [i \in 1 .. N |-> IF i = 1 THEN seqs[i] ELSE f[i - 1] \o seqs[i]]
  <1>0. N \in Nat /\ \A i \in 1 .. N : seqs[i] \in Seq(T)
    OBVIOUS
  <1>1. N = 0 => FlattenSeq(seqs) = seqs
    BY DEF FlattenSeq
  <1>2. N # 0 => FlattenSeq(seqs) = (CHOOSE f : P(f))[N]
    BY Zenon DEF FlattenSeq
  <1>3. PICK cat \in [0 .. N -> Seq(T)] : Adds(cat, seqs, N)
    BY Added
  <1>4. CASE N = 0
    BY <1>1, <1>3, <1>4 DEF Adds
  <1>5. CASE N # 0
    <2> HIDE DEF N
    <2> DEFINE h == [i \in 1 .. N |-> cat[i]]
    <2>1. P(h)
      <3>1. ASSUME NEW i \in 1 .. N PROVE h[i] = IF i = 1 THEN seqs[i] ELSE h[i - 1] \o seqs[i]
        <4>1. h[i] = cat[i - 1] \o seqs[i]
          BY <1>3 DEF Adds
        <4>2. CASE i = 1
          <5>1. cat[0] = << >> /\ i - 1 = 0 /\ seqs[i] \in Seq(T)
            BY <1>0, <1>3, <4>2 DEF Adds
          <5>2. h[i] = << >> \o seqs[i]
            BY <4>1, <5>1
          <5>3. h[i] = seqs[i]
            BY <5>1, <5>2, ConcatEmptySeq
          <5> QED BY <4>2, <5>3
        <4>3. CASE i # 1
          <5>1. h[i - 1] = cat[i - 1]
            BY <1>0, <4>3
          <5> QED BY <4>1, <4>3, <5>1
        <4> QED BY <4>2, <4>3
      <3> HIDE DEF h
      <3>2. h = [i \in 1 .. N |-> h[i]]
        BY DEF h
      <3> QED BY <3>1, <3>2
    <2>2. PICK g : g = CHOOSE f : P(f)
      OBVIOUS
    <2> HIDE DEF P, h
    <2>3. P(g)
      BY <2>1, <2>2
    <2> DEFINE K == {n \in Nat : n \in 1 .. N => g[n] = cat[n]}
    <2>4. 0 \in K
      OBVIOUS
    <2>5. ASSUME NEW n \in Nat, n \in K PROVE n + 1 \in K
      <3> SUFFICES ASSUME n + 1 \in 1 .. N PROVE g[n + 1] = cat[n + 1]
        OBVIOUS
      <3>0. PICK m \in 1 .. N : m = n + 1 /\ m - 1 = n /\ (n # 0 => n \in 1 .. N)
        BY <1>0
      <3>1. g[m] = IF m = 1 THEN seqs[m] ELSE g[m - 1] \o seqs[m]
        <4>1. g = [i \in 1 .. N |-> IF i = 1 THEN seqs[i] ELSE g[i - 1] \o seqs[i]]
          BY <2>3 DEF P
        <4> QED BY <4>1
      <3>2. cat[m] = cat[m - 1] \o seqs[m]
        BY <1>3 DEF Adds
      <3>3. CASE n = 0
        <4>1. cat[0] = << >> /\ seqs[m] \in Seq(T)
          BY <1>0, <1>3 DEF Adds
        <4>2. cat[m] = << >> \o seqs[m]
          BY <3>0, <3>2, <3>3, <4>1
        <4>3. cat[m] = seqs[m]
          BY <4>1, <4>2, ConcatEmptySeq
        <4>4. g[m] = seqs[m]
          BY <3>0, <3>1, <3>3
        <4> QED BY <3>0, <4>3, <4>4
      <3>4. CASE n # 0
        <4>1. g[m - 1] = cat[m - 1]
          BY <2>5, <3>0, <3>4
        <4>2. m # 1
          BY <3>0, <3>4
        <4> QED BY <3>0, <3>1, <3>2, <4>1, <4>2
      <3> QED BY <3>3, <3>4
    <2> HIDE DEF K
    <2>6. Nat \subseteq K
      BY <2>4, <2>5, NatSet
    <2>7. g[N] = cat[N]
      BY <1>0, <1>5, <2>6 DEF K
    <2> QED BY <1>2, <1>3, <1>5, <2>2, <2>7 DEF P, N
  <1> QED BY <1>4, <1>5

\* Where each sequence lies in the flat one: seqs[i] follows the first off[i] places.
Laid(seqs, flat, off) ==
    /\ off \in [1 .. Len(seqs) + 1 -> Nat] /\ Len(flat) = off[Len(seqs) + 1]
    /\ \A i \in 1 .. Len(seqs) : off[i + 1] = off[i] + Len(seqs[i])
    /\ \A i, j \in 1 .. Len(seqs) + 1 : i <= j => off[i] <= off[j]
    /\ \A i \in 1 .. Len(seqs) : \A j \in 1 .. Len(seqs[i]) : flat[off[i] + j] = seqs[i][j]
    /\ \A k \in 1 .. Len(flat) : \E i \in 1 .. Len(seqs) : k - off[i] \in 1 .. Len(seqs[i])

LEMMA FlatLaid ==
    ASSUME NEW T, NEW seqs \in Seq(Seq(T))
    PROVE  FlattenSeq(seqs) \in Seq(T) /\ \E off : Laid(seqs, FlattenSeq(seqs), off)
  <1> DEFINE N == Len(seqs)
  <1>1. PICK cat \in [0 .. N -> Seq(T)] : Adds(cat, seqs, N) /\ FlattenSeq(seqs) = cat[N]
    BY Flattened
  <1>2. N \in Nat /\ \A i \in 1 .. N : seqs[i] \in Seq(T) /\ Len(seqs[i]) \in Nat
    OBVIOUS
  <1> HIDE DEF N
  <1> DEFINE off == [i \in 1 .. N + 1 |-> Len(cat[i - 1])]
  <1>3. /\ off \in [1 .. N + 1 -> Nat] /\ off[1] = 0
        /\ \A i \in 0 .. N : off[i + 1] = Len(cat[i]) /\ Len(cat[i]) \in Nat
    <2>1. \A i \in 0 .. N : Len(cat[i]) \in Nat
      BY <1>1
    <2>2. \A i \in 1 .. N + 1 : i - 1 \in 0 .. N
      BY <1>2
    <2>3. \A i \in 0 .. N : i + 1 \in 1 .. N + 1 /\ i + 1 - 1 = i
      BY <1>2
    <2>4. \A i \in 0 .. N : off[i + 1] = Len(cat[i])
      BY <2>3
    <2>5. off[1] = 0
      <3>1. cat[0] = << >> /\ 0 \in 0 .. N
        BY <1>1, <1>2 DEF Adds
      <3> QED BY <2>4, <3>1
    <2> QED BY <2>1, <2>2, <2>4, <2>5
  <1>4. ASSUME NEW n \in Nat, n + 1 \in 1 .. N
        PROVE  /\ cat[n + 1] = cat[n] \o seqs[n + 1] /\ Len(cat[n + 1]) = Len(cat[n]) + Len(seqs[n + 1])
               /\ \A k \in 1 .. Len(cat[n]) : cat[n + 1][k] = cat[n][k]
               /\ \A j \in 1 .. Len(seqs[n + 1]) : cat[n + 1][Len(cat[n]) + j] = seqs[n + 1][j]
    <2>1. PICK m \in 1 .. N : m = n + 1 /\ m - 1 = n
      BY <1>4
    <2>2. cat[m] = cat[m - 1] \o seqs[m]
      BY <1>1 DEF Adds
    <2>3. PICK a \in Seq(T), b \in Seq(T) : a = cat[n] /\ b = seqs[m]
      BY <1>1, <1>2, <2>1
    <2>4. cat[m] = a \o b
      BY <2>1, <2>2, <2>3
    <2>5. Len(a \o b) = Len(a) + Len(b) /\ (\A k \in 1 .. Len(a) : (a \o b)[k] = a[k])
          /\ \A j \in 1 .. Len(b) : (a \o b)[Len(a) + j] = b[j]
      OBVIOUS
    <2> QED BY <2>1, <2>3, <2>4, <2>5
  <1> HIDE DEF off
  <1> DEFINE S(n) ==
         /\ \A i \in 1 .. n : \A j \in 1 .. Len(seqs[i]) :
               off[i] + j \in 1 .. Len(cat[n]) /\ cat[n][off[i] + j] = seqs[i][j]
         /\ \A k \in 1 .. Len(cat[n]) : \E i \in 1 .. n : k - off[i] \in 1 .. Len(seqs[i])
         /\ \A i \in 1 .. n + 1 : off[i] <= off[n + 1]
             K == {n \in Nat : n \in 0 .. N => S(n)}
  <1>5. 0 \in K
    <2>1. Len(cat[0]) = 0
      BY <1>1 DEF Adds
    <2> QED BY <1>3, <2>1
  <1>6. ASSUME NEW n \in Nat, n \in K PROVE n + 1 \in K
    <2> SUFFICES ASSUME n + 1 \in 0 .. N PROVE S(n + 1)
      OBVIOUS
    <2>1. S(n) /\ n \in 0 .. N /\ n + 1 \in 1 .. N
      BY <1>6, <1>2
    <2> HIDE DEF K
    <2>2. PICK m \in 1 .. N : m = n + 1
      BY <2>1
    <2>a. n \in 0 .. N /\ m \in 0 .. N /\ m - 1 = n
      BY <2>1, <2>2, <1>2
    <2>b. PICK o \in Nat, l \in Nat : o = off[m] /\ l = Len(seqs[m]) /\ Len(cat[n]) = o
      BY <1>2, <1>3, <2>a, <2>2
    <2>c. PICK c \in Seq(T), d \in Seq(T) : c = cat[n] /\ d = cat[m] /\ Len(c) = o
      BY <1>1, <2>a, <2>b
    <2>3. Len(d) = o + l /\ off[m + 1] = o + l
      <3>1. Len(cat[m]) = Len(cat[n]) + Len(seqs[m])
        BY <1>4, <2>1, <2>2
      <3>2. off[m + 1] = Len(cat[m])
        BY <1>3, <2>a
      <3> QED BY <3>1, <3>2, <2>b, <2>c
    <2>4. /\ \A k \in 1 .. o : d[k] = c[k]
          /\ \A j \in 1 .. l : d[o + j] = seqs[m][j]
      <3>1. /\ \A k \in 1 .. Len(cat[n]) : cat[m][k] = cat[n][k]
            /\ \A j \in 1 .. Len(seqs[m]) : cat[m][Len(cat[n]) + j] = seqs[m][j]
        BY <1>4, <2>1, <2>2
      <3> QED BY <3>1, <2>b, <2>c
    <2>5. \A i \in 1 .. m : i \in 1 .. n \/ i = m
      BY <2>2
    <2>s. /\ \A i \in 1 .. n : \A j \in 1 .. Len(seqs[i]) : off[i] + j \in 1 .. o /\ c[off[i] + j] = seqs[i][j]
          /\ \A k \in 1 .. o : \E i \in 1 .. n : k - off[i] \in 1 .. Len(seqs[i])
          /\ \A i \in 1 .. m : off[i] <= o
      BY <2>1, <2>2, <2>b, <2>c
    <2>6. ASSUME NEW i \in 1 .. m, NEW j \in 1 .. Len(seqs[i])
          PROVE  off[i] + j \in 1 .. Len(d) /\ d[off[i] + j] = seqs[i][j]
      <3>1. CASE i = m
        <4>1. j \in 1 .. l /\ off[i] = o
          BY <2>b, <3>1
        <4>2. o + j \in 1 .. o + l
          BY <4>1
        <4> QED BY <2>3, <2>4, <3>1, <4>1, <4>2
      <3>2. CASE i \in 1 .. n
        <4>1. PICK x \in 1 .. o : x = off[i] + j /\ c[x] = seqs[i][j]
          BY <2>s, <2>6, <3>2
        <4>2. \A z \in 1 .. o : z \in 1 .. o + l
          OBVIOUS
        <4>3. x \in 1 .. o + l
          BY <4>2
        <4> QED BY <2>3, <2>4, <4>1, <4>3
      <3> QED BY <2>5, <3>1, <3>2
    <2>7. ASSUME NEW k \in 1 .. Len(d) PROVE \E i \in 1 .. m : k - off[i] \in 1 .. Len(seqs[i])
      <3>0. k \in 1 .. o + l
        BY <2>3
      <3>1. CASE k <= o
        <4>1. k \in 1 .. o
          BY <3>0, <3>1
        <4> QED BY <2>s, <2>2, <4>1
      <3>2. CASE ~(k <= o)
        <4>1. k - o \in 1 .. l
          BY <3>0, <3>2
        <4> QED BY <2>b, <2>2, <4>1
      <3> QED BY <3>1, <3>2
    <2>8. ASSUME NEW i \in 1 .. m + 1 PROVE off[i] <= off[m + 1]
      <3>1. CASE i = m + 1
        BY <2>3, <3>1
      <3>2. CASE i # m + 1
        <4>1. i \in 1 .. m /\ i \in 1 .. N + 1
          BY <1>2, <2>8, <3>2
        <4>2. PICK x \in Nat : x = off[i] /\ x <= o
          BY <1>3, <2>s, <4>1
        <4>3. x <= o + l
          BY <4>2
        <4> QED BY <2>3, <4>2, <4>3
      <3> QED BY <3>1, <3>2
    <2>9. cat[m] = d
      BY <2>c
    <2> QED BY <2>2, <2>6, <2>7, <2>8, <2>9
  <1> HIDE DEF K, S
  <1>7. Nat \subseteq K
    BY <1>5, <1>6, NatSet
  <1>8. \A n \in 0 .. N : S(n)
    BY <1>7 DEF K
  <1>9. Laid(seqs, cat[N], off)
    <2>1. off \in [1 .. N + 1 -> Nat] /\ Len(cat[N]) = off[N + 1]
      BY <1>2, <1>3
    <2>2. ASSUME NEW i \in 1 .. N PROVE off[i + 1] = off[i] + Len(seqs[i])
      <3>1. PICK n \in Nat : n + 1 = i /\ n \in 0 .. N
        BY <1>2
      <3>2. off[i] = Len(cat[n]) /\ off[i + 1] = Len(cat[i])
        <4>1. i \in 0 .. N
          BY <1>2
        <4>2. off[n + 1] = Len(cat[n])
          BY <1>3, <3>1
        <4>3. off[i + 1] = Len(cat[i])
          BY <1>3, <4>1
        <4> QED BY <3>1, <4>2, <4>3
      <3>3. Len(cat[n + 1]) = Len(cat[n]) + Len(seqs[n + 1])
        BY <1>4, <3>1
      <3> QED BY <3>1, <3>2, <3>3
    <2>3. ASSUME NEW i \in 1 .. N + 1, NEW j \in 1 .. N + 1, i <= j PROVE off[i] <= off[j]
      <3>1. PICK n \in 0 .. N : n + 1 = j
        BY <1>2
      <3>2. i \in 1 .. n + 1
        BY <2>3, <3>1
      <3> QED BY <1>8, <3>1, <3>2 DEF S
    <2>4. S(N)
      BY <1>2, <1>8
    <2> QED BY <2>1, <2>2, <2>3, <2>4 DEF Laid, S, N
  <1>10. cat[N] \in Seq(T)
    BY <1>1, <1>2
  <1> QED BY <1>1, <1>9, <1>10

-----------------------------------------------------------------------------
(* Units, one after another, are a valid chat.                             *)

\* A message that speaks or calls, and the results of its calls.
Unit(b) ==
    b # << >> =>
       /\ b[1].role # "tool" /\ (b[1].text # {} \/ b[1].ids # {})
       /\ \A j \in 2 .. Len(b) : b[j].role = "tool"
       /\ {b[j].answers : j \in 2 .. Len(b)} = b[1].ids

Units(blocks) == \A i \in 1 .. Len(blocks) : Unit(blocks[i])

\* After its first message a unit goes on to its end, and no further.
LEMMA UnitAnswers ==
    ASSUME NEW T, NEW blocks \in Seq(Seq(T)), Units(blocks),
           NEW chat \in Seq(T), NEW off, Laid(blocks, chat, off),
           NEW i \in 1 .. Len(blocks), blocks[i] # << >>
    PROVE  Answers(chat, off[i] + 1) = off[i] + 2 .. off[i] + Len(blocks[i])
  <1> DEFINE N == Len(blocks)
  <1>1. N \in Nat /\ \A x \in 1 .. N : blocks[x] \in Seq(T) /\ Len(blocks[x]) \in Nat /\ (blocks[x] # << >> => Len(blocks[x]) >= 1)
    OBVIOUS
  <1>2. DOMAIN chat = 1 .. Len(chat) /\ Len(chat) \in Nat
    OBVIOUS
  <1>3. /\ off \in [1 .. N + 1 -> Nat] /\ Len(chat) = off[N + 1]
        /\ \A x \in 1 .. N : off[x + 1] = off[x] + Len(blocks[x])
        /\ \A x, y \in 1 .. N + 1 : x <= y => off[x] <= off[y]
        /\ \A x \in 1 .. N : \A j \in 1 .. Len(blocks[x]) : chat[off[x] + j] = blocks[x][j]
        /\ \A k \in 1 .. Len(chat) : \E x \in 1 .. N : k - off[x] \in 1 .. Len(blocks[x])
    BY DEF Laid
  <1>i. i \in 1 .. N /\ i \in 1 .. N + 1 /\ i + 1 \in 1 .. N + 1
    BY <1>1
  <1> HIDE DEF N
  <1>4. PICK o \in Nat, l \in Nat : o = off[i] /\ l = Len(blocks[i]) /\ l >= 1 /\ off[i + 1] = o + l
    BY <1>1, <1>3, <1>i
  <1>5. o + l <= Len(chat)
    <2>1. off[i + 1] <= off[N + 1]
      BY <1>1, <1>3, <1>i
    <2> QED BY <1>3, <1>4, <2>1
  <1>6. \A y \in o + 2 .. o + l : y \in DOMAIN chat /\ chat[y].role = "tool"
    <2> TAKE y \in o + 2 .. o + l
    <2>1. PICK j \in 2 .. l : y = o + j
      <3>1. y - o \in 2 .. l /\ y = o + (y - o)
        OBVIOUS
      <3> QED BY <3>1
    <2>2. j \in 1 .. l
      OBVIOUS
    <2>3. chat[o + j] = blocks[i][j]
      BY <1>3, <1>4, <1>i, <2>2
    <2>4. blocks[i][j].role = "tool"
      BY <1>4, <1>i DEF Unit, Units, N
    <2> QED BY <1>2, <1>5, <2>1, <2>3, <2>4
  <1>7. ASSUME NEW x \in DOMAIN chat, x > o + 1, \A y \in o + 2 .. x : chat[y].role = "tool" PROVE x \in o + 2 .. o + l
    <2> SUFFICES ASSUME x > o + l PROVE FALSE
      BY <1>2, <1>7
    <2>1. PICK y \in Nat : y = o + l + 1 /\ y \in 1 .. Len(chat)
      BY <1>2
    <2>2. y \in o + 2 .. x
      <3>1. x \in Int /\ l >= 1 /\ y = o + l + 1
        BY <1>2, <1>4, <2>1
      <3> QED BY <3>1
    <2>3. PICK z \in 1 .. N : y - off[z] \in 1 .. Len(blocks[z])
      <3>1. y \in 1 .. Len(chat)
        BY <2>1
      <3>2. \A k \in 1 .. Len(chat) : \E z \in 1 .. N : k - off[z] \in 1 .. Len(blocks[z])
        BY <1>3
      <3> QED BY <3>1, <3>2
    <2>4. PICK p \in Nat, q \in Nat : p = off[z] /\ q = Len(blocks[z]) /\ off[z + 1] = p + q /\ y - p \in 1 .. q
      <3>1. z \in 1 .. N + 1
        BY <1>1
      <3> QED BY <1>1, <1>3, <2>3, <3>1
    <2>r. p + 1 <= y /\ y <= p + q
      <3>1. y - p \in 1 .. q
        BY <2>4
      <3> QED BY <3>1
    <2>5. z > i
      <3> SUFFICES ASSUME z <= i PROVE FALSE
        BY <1>1, <1>i
      <3>1. off[z + 1] <= off[i + 1]
        <4>1. z + 1 \in 1 .. N + 1 /\ z + 1 <= i + 1
          BY <1>1, <1>i
        <4> QED BY <1>3, <1>i, <4>1
      <3>2. p + q <= o + l
        BY <1>4, <2>4, <3>1
      <3> QED BY <2>1, <2>r, <3>2
    <2>6. off[i + 1] <= off[z]
      <3>1. z \in 1 .. N + 1 /\ i + 1 <= z
        BY <1>1, <1>i, <2>5
      <3> QED BY <1>3, <1>i, <3>1
    <2>7. y - p = 1
      <3>1. o + l <= p
        BY <1>4, <2>4, <2>6
      <3>2. y = o + l + 1
        BY <2>1
      <3> QED BY <2>r, <3>1, <3>2
    <2>8. 1 \in 1 .. Len(blocks[z]) /\ y = off[z] + 1
      <3>1. y = p + 1 /\ 1 \in 1 .. q
        BY <2>r, <2>7
      <3> QED BY <2>4, <3>1
    <2>9. chat[y] = blocks[z][1]
      <3>1. \A j \in 1 .. Len(blocks[z]) : chat[off[z] + j] = blocks[z][j]
        BY <1>3
      <3> QED BY <2>8, <3>1
    <2>10. blocks[z] # << >>
      BY <2>8
    <2>11. blocks[z][1].role # "tool"
      BY <2>10 DEF Unit, Units, N
    <2> QED BY <1>7, <2>2, <2>9, <2>11
  <1>8. PICK h \in Nat : h = o + 1
    OBVIOUS
  <1>9. ASSUME NEW x PROVE x \in Answers(chat, h) <=> x \in o + 2 .. o + l
    <2>1. x \in Answers(chat, h) <=> x \in DOMAIN chat /\ x > h /\ \A k \in h + 1 .. x : chat[k].role = "tool"
      BY DEF Answers
    <2>2. h + 1 = o + 2
      BY <1>8
    <2>3. ASSUME x \in o + 2 .. o + l PROVE x \in Answers(chat, h)
      <3>1. x \in DOMAIN chat /\ x > h
        BY <1>6, <1>8, <2>3
      <3>2. \A k \in o + 2 .. x : k \in o + 2 .. o + l
        BY <2>3
      <3> QED BY <1>6, <2>1, <2>2, <3>1, <3>2
    <2>4. ASSUME x \in Answers(chat, h) PROVE x \in o + 2 .. o + l
      BY <1>7, <1>8, <2>1, <2>2, <2>4
    <2> QED BY <2>3, <2>4
  <1> QED BY <1>4, <1>8, <1>9

\* Units one after another are a valid chat.
LEMMA UnitsValid ==
    ASSUME NEW T, NEW blocks \in Seq(Seq(T)), Units(blocks)
    PROVE  Valid(FlattenSeq(blocks))
  <1>1. PICK chat \in Seq(T) : chat = FlattenSeq(blocks) /\ \E off : Laid(blocks, chat, off)
    BY FlatLaid
  <1>2. PICK off : Laid(blocks, chat, off)
    BY <1>1
  <1> DEFINE N == Len(blocks)
  <1>3. N \in Nat /\ \A x \in 1 .. N : blocks[x] \in Seq(T) /\ Len(blocks[x]) \in Nat
    OBVIOUS
  <1>4. DOMAIN chat = 1 .. Len(chat) /\ Len(chat) \in Nat
    OBVIOUS
  <1> HIDE DEF N
  <1>5. ASSUME NEW k \in DOMAIN chat
        PROVE  /\ chat[k].role # "tool" => chat[k].text # {} \/ chat[k].ids # {}
               /\ {chat[j].answers : j \in Answers(chat, k)} = chat[k].ids \/ chat[k].role = "tool"
               /\ chat[k].role = "tool" => \E j \in 1 .. k - 1 : k \in Answers(chat, j) /\ chat[j].role # "tool"
    <2>1. PICK i \in 1 .. N : k - off[i] \in 1 .. Len(blocks[i])
      BY <1>2, <1>4 DEF Laid, N
    <2>2. PICK o \in Nat, l \in Nat : o = off[i] /\ l = Len(blocks[i])
      <3>1. i \in 1 .. N + 1
        BY <1>3
      <3> QED BY <1>2, <1>3, <3>1 DEF Laid, N
    <2>3. \A j \in 1 .. l : chat[o + j] = blocks[i][j]
      BY <1>2, <2>2 DEF Laid, N
    <2>4. PICK j \in 1 .. l : k = o + j
      <3>1. k - o \in 1 .. l /\ k \in Int
        BY <1>4, <2>1, <2>2
      <3>2. k = o + (k - o)
        BY <3>1
      <3> QED BY <3>1, <3>2
    <2>5. blocks[i] # << >> /\ 1 \in 1 .. l
      BY <2>2, <2>4
    <2>6. /\ blocks[i][1].role # "tool" /\ (blocks[i][1].text # {} \/ blocks[i][1].ids # {})
          /\ \A x \in 2 .. l : blocks[i][x].role = "tool"
          /\ {blocks[i][x].answers : x \in 2 .. l} = blocks[i][1].ids
      BY <2>2, <2>5 DEF Unit, Units, N
    <2>7. Answers(chat, o + 1) = o + 2 .. o + l
      <3>1. i \in 1 .. Len(blocks) /\ Units(blocks)
        BY DEF N, Units
      <3>2. Answers(chat, off[i] + 1) = off[i] + 2 .. off[i] + Len(blocks[i])
        BY <1>2, <2>5, <3>1, UnitAnswers
      <3> QED BY <2>2, <3>2
    <2>8. chat[o + 1] = blocks[i][1] /\ chat[k] = blocks[i][j]
      BY <2>3, <2>4, <2>5
    <2>9. CASE j = 1
      <3>1. {chat[x].answers : x \in o + 2 .. o + l} = {blocks[i][x].answers : x \in 2 .. l}
        <4>1. ASSUME NEW x \in o + 2 .. o + l PROVE \E y \in 2 .. l : chat[x] = blocks[i][y]
          <5>1. x - o \in 2 .. l /\ x - o \in 1 .. l /\ o + (x - o) = x
            OBVIOUS
          <5> QED BY <2>3, <5>1
        <4>2. ASSUME NEW y \in 2 .. l PROVE \E x \in o + 2 .. o + l : chat[x] = blocks[i][y]
          <5>1. o + y \in o + 2 .. o + l /\ y \in 1 .. l
            OBVIOUS
          <5> QED BY <2>3, <5>1
        <4> DEFINE L == {chat[x].answers : x \in o + 2 .. o + l}
                   R == {blocks[i][x].answers : x \in 2 .. l}
        <4>3. L \subseteq R
          BY <4>1
        <4>4. R \subseteq L
          BY <4>2
        <4> QED BY <4>3, <4>4
      <3> QED BY <2>4, <2>6, <2>7, <2>8, <2>9, <3>1
    <2>10. CASE j # 1
      <3>1. j \in 2 .. l
        BY <2>10
      <3>2. chat[k].role = "tool"
        BY <2>6, <2>8, <3>1
      <3>3. k \in Answers(chat, o + 1) /\ o + 1 \in 1 .. k - 1
        BY <2>4, <2>7, <3>1
      <3> QED BY <2>6, <2>8, <3>2, <3>3
    <2> QED BY <2>9, <2>10
  <1>6. Valid(chat)
    BY <1>5 DEF Valid
  <1> QED BY <1>1, <1>6

-----------------------------------------------------------------------------
(* The atoms of a request.                                                 *)

\* The chosen members of a list, one by one: pos tells where each comes to stand.
Singles(f, P) == [k \in DOMAIN f |-> IF k \in P THEN <<f[k]>> ELSE << >>]
Kept(flat, f, P, pos) ==
    /\ pos \in [P -> DOMAIN flat] /\ \A i \in P : flat[pos[i]] = f[i]
    /\ \A k \in DOMAIN flat : \E i \in P : k = pos[i]

LEMMA SinglesKept ==
    ASSUME NEW T, NEW f \in Seq(T), NEW P \in SUBSET DOMAIN f
    PROVE  /\ FlattenSeq(Singles(f, P)) \in Seq(T)
           /\ \E pos : Kept(FlattenSeq(Singles(f, P)), f, P, pos)
  <1>1. PICK N \in Nat : N = Len(f) /\ DOMAIN f = 1 .. N
    OBVIOUS
  <1>2. PICK s \in Seq(Seq(T)) : s = Singles(f, P) /\ Len(s) = N
    <2>1. \A k \in 1 .. N : (IF k \in P THEN <<f[k]>> ELSE << >>) \in Seq(T)
      BY <1>1
    <2>2. Singles(f, P) \in [1 .. N -> Seq(T)]
      BY <1>1, <2>1 DEF Singles
    <2>3. Singles(f, P) \in Seq(Seq(T)) /\ Len(Singles(f, P)) = N
      BY <1>1, <2>2, LenProperties
    <2> QED BY <2>3
  <1>3. PICK flat \in Seq(T) : flat = FlattenSeq(s) /\ \E off : Laid(s, flat, off)
    BY FlatLaid
  <1>4. PICK off : Laid(s, flat, off)
    BY <1>3
  <1>5. /\ off \in [1 .. N + 1 -> Nat] /\ Len(flat) = off[N + 1]
        /\ \A i \in 1 .. N : off[i + 1] = off[i] + Len(s[i])
        /\ \A i, j \in 1 .. N + 1 : i <= j => off[i] <= off[j]
        /\ \A i \in 1 .. N : \A j \in 1 .. Len(s[i]) : flat[off[i] + j] = s[i][j]
        /\ \A k \in 1 .. Len(flat) : \E i \in 1 .. N : k - off[i] \in 1 .. Len(s[i])
    BY <1>2, <1>4 DEF Laid
  <1>6. \A i \in 1 .. N : /\ i \in P => s[i] = <<f[i]>> /\ Len(s[i]) = 1 /\ s[i][1] = f[i]
                          /\ i \notin P => Len(s[i]) = 0
    BY <1>1, <1>2 DEF Singles
  <1>7. \A i \in P : i \in 1 .. N /\ i \in 1 .. N + 1 /\ i + 1 \in 1 .. N + 1 /\ i + 1 <= N + 1
    BY <1>1
  <1>d. DOMAIN flat = 1 .. Len(flat) /\ Len(flat) \in Nat
    OBVIOUS
  <1> DEFINE pos == [i \in P |-> off[i] + 1]
  <1>8. ASSUME NEW i \in P PROVE off[i] + 1 \in DOMAIN flat /\ flat[off[i] + 1] = f[i]
    <2>1. PICK o \in Nat : o = off[i] /\ off[i + 1] = o + 1
      <3>1. off[i] \in Nat /\ off[i + 1] = off[i] + Len(s[i])
        BY <1>5, <1>7
      <3>2. Len(s[i]) = 1
        BY <1>6, <1>7
      <3> QED BY <3>1, <3>2
    <2>2. N + 1 \in 1 .. N + 1
      BY <1>1
    <2>3. off[i + 1] <= off[N + 1]
      BY <1>5, <1>7, <2>2
    <2>4. o + 1 <= Len(flat)
      BY <1>5, <2>1, <2>3
    <2>5. 1 \in 1 .. Len(s[i])
      BY <1>6, <1>7
    <2>6. flat[off[i] + 1] = s[i][1]
      BY <1>5, <1>7, <2>5
    <2> QED BY <1>6, <1>7, <1>d, <2>1, <2>4, <2>6
  <1>9. ASSUME NEW k \in DOMAIN flat PROVE \E i \in P : k = off[i] + 1
    <2>1. PICK i \in 1 .. N : k - off[i] \in 1 .. Len(s[i])
      BY <1>5, <1>d
    <2>2. i \in P
      <3>1. i \notin P => 1 .. Len(s[i]) = {}
        BY <1>6
      <3> QED BY <2>1, <3>1
    <2>3. k - off[i] = 1
      <3>1. Len(s[i]) = 1
        BY <1>6, <2>2
      <3>2. k - off[i] \in 1 .. 1
        BY <2>1, <3>1
      <3> QED BY <3>2
    <2>4. PICK o \in Nat : o = off[i]
      BY <1>5, <1>7, <2>2
    <2>5. k = o + 1
      BY <1>d, <2>3, <2>4
    <2> QED BY <2>2, <2>4, <2>5
  <1>10. Kept(flat, f, P, pos)
    BY <1>8, <1>9 DEF Kept
  <1> QED BY <1>2, <1>3, <1>10

Spots == Nat \X Nat
Ids   == CallIds \cup {NoId}
Atom  == [kind : {"text", "call", "result"}, role : {"user", "assistant", "system"},
          text : SUBSET Spots, thinking : SUBSET Spots, id : Ids, at : Spots]

\* The three parts of the atoms of one message.
Spoken(msgs, i) ==
    IF Places(msgs, i, {"text", "empty", "thinking", "signed"}) = {} THEN << >>
    ELSE << [kind |-> "text", role |-> RoleString(msgs[i].role),
             text |-> Places(msgs, i, {"text"}), thinking |-> Places(msgs, i, {"thinking", "signed"}),
             id |-> NoId, at |-> <<i, 0>>] >>
BlockAtom(msgs, i, kind, j) ==
    [kind |-> kind, role |-> "assistant", text |-> {}, thinking |-> {},
     id |-> msgs[i].content[j].id, at |-> <<i, j>>]
BlockAtoms(msgs, i, kind) == [j \in DOMAIN msgs[i].content |-> BlockAtom(msgs, i, kind, j)]
OfKind(msgs, i, kind)     == {j \in DOMAIN msgs[i].content : msgs[i].content[j].kind = kind}
PartOf(msgs, i, kind)     == FlattenSeq(Singles(BlockAtoms(msgs, i, kind), OfKind(msgs, i, kind)))

LEMMA AtomsOfParts ==
    ASSUME NEW msgs, NEW i
    PROVE  AtomsOf(msgs, i) = Spoken(msgs, i) \o PartOf(msgs, i, "call") \o PartOf(msgs, i, "result")
  <1> DEFINE One(kind) == [j \in DOMAIN msgs[i].content |->
                IF msgs[i].content[j].kind # kind THEN << >>
                ELSE << [kind |-> kind, role |-> "assistant", text |-> {}, thinking |-> {},
                         id |-> msgs[i].content[j].id, at |-> <<i, j>>] >>]
  <1>1. \A kind : Singles(BlockAtoms(msgs, i, kind), OfKind(msgs, i, kind)) = One(kind)
    BY DEF Singles, BlockAtoms, OfKind, BlockAtom
  <1>2. AtomsOf(msgs, i) = Spoken(msgs, i) \o FlattenSeq(One("call")) \o FlattenSeq(One("result"))
    BY Zenon DEF AtomsOf, Spoken
  <1> HIDE DEF One
  <1>3. PartOf(msgs, i, "call") = FlattenSeq(One("call"))
    <2>1. Singles(BlockAtoms(msgs, i, "call"), OfKind(msgs, i, "call")) = One("call")
      BY <1>1
    <2> QED BY <2>1 DEF PartOf
  <1>4. PartOf(msgs, i, "result") = FlattenSeq(One("result"))
    <2>1. Singles(BlockAtoms(msgs, i, "result"), OfKind(msgs, i, "result")) = One("result")
      BY <1>1
    <2> QED BY <2>1 DEF PartOf
  <1> QED BY <1>2, <1>3, <1>4

LEMMA MessageShape ==
    ASSUME NEW msgs \in Seq(Message), NEW i \in DOMAIN msgs
    PROVE  /\ i \in Nat /\ msgs[i].role \in {"user", "assistant", "system"}
           /\ msgs[i].content \in Seq(Block) /\ DOMAIN msgs[i].content \subseteq Nat
           /\ \A j \in DOMAIN msgs[i].content : msgs[i].content[j].id \in Ids
  <1>1. msgs[i] \in Message /\ i \in Nat
    OBVIOUS
  <1>2. msgs[i].role \in {"user", "assistant", "system"} /\ msgs[i].content \in Seq(Block)
    BY <1>1 DEF Message
  <1>3. \A j \in DOMAIN msgs[i].content : msgs[i].content[j] \in Block /\ j \in Nat
    BY <1>2
  <1> QED BY <1>1, <1>2, <1>3 DEF Block, Ids

LEMMA SpokenAtom ==
    ASSUME NEW msgs \in Seq(Message), NEW i \in DOMAIN msgs
    PROVE  /\ Spoken(msgs, i) \in Seq(Atom)
           /\ \A k \in DOMAIN Spoken(msgs, i) :
                 /\ Spoken(msgs, i)[k].kind = "text"
                 /\ Spoken(msgs, i)[k].text = Places(msgs, i, {"text"})
                 /\ Spoken(msgs, i)[k].thinking = Places(msgs, i, {"thinking", "signed"})
  <1>1. \A kinds : Places(msgs, i, kinds) \in SUBSET Spots
    BY MessageShape DEF Places, Spots
  <1>2. RoleString(msgs[i].role) \in {"user", "assistant", "system"}
    BY DEF RoleString
  <1>3. <<i, 0>> \in Spots /\ NoId \in Ids
    BY MessageShape DEF Spots, Ids
  <1>4. PICK a : a = [kind |-> "text", role |-> RoleString(msgs[i].role),
               text |-> Places(msgs, i, {"text"}), thinking |-> Places(msgs, i, {"thinking", "signed"}),
               id |-> NoId, at |-> <<i, 0>>]
    OBVIOUS
  <1>5. a \in Atom
    BY <1>1, <1>2, <1>3, <1>4 DEF Atom
  <1>6. Spoken(msgs, i) \in {<< >>, <<a>>}
    BY <1>4 DEF Spoken
  <1>7. CASE Spoken(msgs, i) = << >>
    BY <1>7
  <1>8. CASE Spoken(msgs, i) = <<a>>
    BY <1>4, <1>5, <1>8
  <1> QED BY <1>6, <1>7, <1>8

LEMMA PartAtoms ==
    ASSUME NEW msgs \in Seq(Message), NEW i \in DOMAIN msgs, NEW kind \in {"call", "result"}
    PROVE  /\ PartOf(msgs, i, kind) \in Seq(Atom)
           /\ \A k \in DOMAIN PartOf(msgs, i, kind) :
                 /\ PartOf(msgs, i, kind)[k].kind = kind
                 /\ PartOf(msgs, i, kind)[k].at \in Places(msgs, i, {kind})
                 /\ PartOf(msgs, i, kind)[k].id = BlockAt(msgs, PartOf(msgs, i, kind)[k].at).id
           /\ \A k, h \in DOMAIN PartOf(msgs, i, kind) :
                 PartOf(msgs, i, kind)[k].at = PartOf(msgs, i, kind)[h].at => k = h
  <1>1. PICK f : f = BlockAtoms(msgs, i, kind)
    OBVIOUS
  <1>2. PICK P : P = OfKind(msgs, i, kind)
    OBVIOUS
  <1>3. PICK c \in Seq(Block) : c = msgs[i].content
    BY MessageShape
  <1>4. \A j \in DOMAIN c : f[j] = BlockAtom(msgs, i, kind, j) /\ f[j] \in Atom
    <2>1. \A j \in DOMAIN c : BlockAtom(msgs, i, kind, j) \in Atom
      BY <1>3, MessageShape DEF BlockAtom, Atom, Spots
    <2> QED BY <1>1, <1>3, <2>1 DEF BlockAtoms
  <1>5. f \in Seq(Atom)
    <2>0. DOMAIN c = 1 .. Len(c) /\ Len(c) \in Nat
      OBVIOUS
    <2>1. f = [j \in 1 .. Len(c) |-> BlockAtom(msgs, i, kind, j)]
      BY <1>1, <1>3, <2>0 DEF BlockAtoms
    <2>2. \A j \in 1 .. Len(c) : BlockAtom(msgs, i, kind, j) \in Atom
      BY <1>4, <2>0
    <2>3. f \in [1 .. Len(c) -> Atom]
      BY <2>1, <2>2
    <2> QED BY <2>0, <2>3
  <1>6. P \subseteq DOMAIN f /\ DOMAIN f = DOMAIN c
    BY <1>1, <1>2, <1>3 DEF BlockAtoms, OfKind
  <1>7. PICK flat \in Seq(Atom) : flat = PartOf(msgs, i, kind) /\ \E pos : Kept(flat, f, P, pos)
    BY <1>1, <1>2, <1>5, <1>6, SinglesKept DEF PartOf
  <1>8. PICK pos : Kept(flat, f, P, pos)
    BY <1>7
  <1>9. \A k \in DOMAIN flat : \E j \in P : k = pos[j] /\ flat[k] = BlockAtom(msgs, i, kind, j)
    BY <1>4, <1>6, <1>8 DEF Kept
  <1>10. \A j \in P : /\ <<i, j>> \in Places(msgs, i, {kind})
                      /\ BlockAtom(msgs, i, kind, j).kind = kind
                      /\ BlockAtom(msgs, i, kind, j).at = <<i, j>>
                      /\ BlockAtom(msgs, i, kind, j).id = BlockAt(msgs, <<i, j>>).id
    BY <1>2 DEF BlockAtom, BlockAt, Places, OfKind
  <1>11. \A k, h \in DOMAIN flat : flat[k].at = flat[h].at => k = h
    <2> TAKE k, h \in DOMAIN flat
    <2>1. PICK j \in P : k = pos[j] /\ flat[k] = BlockAtom(msgs, i, kind, j)
      BY <1>9
    <2>2. PICK l \in P : h = pos[l] /\ flat[h] = BlockAtom(msgs, i, kind, l)
      BY <1>9
    <2>3. flat[k].at = <<i, j>> /\ flat[h].at = <<i, l>>
      BY <1>10, <2>1, <2>2
    <2> QED BY <2>1, <2>2, <2>3
  <1>12. \A k \in DOMAIN flat : /\ flat[k].kind = kind /\ flat[k].at \in Places(msgs, i, {kind})
                                /\ flat[k].id = BlockAt(msgs, flat[k].at).id
    <2> TAKE k \in DOMAIN flat
    <2>1. PICK j \in P : flat[k] = BlockAtom(msgs, i, kind, j)
      BY <1>9
    <2>2. flat[k].kind = kind /\ flat[k].at = <<i, j>> /\ flat[k].id = BlockAt(msgs, <<i, j>>).id
      BY <1>10, <2>1
    <2>3. <<i, j>> \in Places(msgs, i, {kind})
      BY <1>10
    <2> QED BY <2>2, <2>3
  <1> QED BY <1>7, <1>11, <1>12

\* A member of three sequences in a row is a member of one of them.
LiesIn(s, a, b, c, k) ==
    \/ k \in DOMAIN a /\ k <= Len(a) /\ s[k] = a[k]
    \/ \E x \in DOMAIN b : k = Len(a) + x /\ k <= Len(a) + Len(b) /\ s[k] = b[x]
    \/ \E x \in DOMAIN c : k = Len(a) + Len(b) + x /\ k > Len(a) + Len(b) /\ s[k] = c[x]

LEMMA InThree ==
    ASSUME NEW T, NEW a \in Seq(T), NEW b \in Seq(T), NEW c \in Seq(T),
           NEW s, s = a \o b \o c, NEW k \in DOMAIN s
    PROVE  LiesIn(s, a, b, c, k)
  <1>1. PICK la \in Nat, lb \in Nat, lc \in Nat :
           /\ la = Len(a) /\ lb = Len(b) /\ lc = Len(c)
           /\ DOMAIN a = 1 .. la /\ DOMAIN b = 1 .. lb /\ DOMAIN c = 1 .. lc
    OBVIOUS
  <1>2. PICK d \in Seq(T) : d = a \o b /\ Len(d) = la + lb
    <2>1. a \o b \in Seq(T) /\ Len(a \o b) = Len(a) + Len(b)
      OBVIOUS
    <2> QED BY <1>1, <2>1
  <1>3. \A x \in 1 .. la + lb : d[x] = IF x <= la THEN a[x] ELSE b[x - la]
    BY <1>1, <1>2
  <1>4. PICK e \in Seq(T) : e = d \o c /\ Len(e) = la + lb + lc
    <2>1. d \o c \in Seq(T) /\ Len(d \o c) = Len(d) + Len(c)
      OBVIOUS
    <2> QED BY <1>1, <1>2, <2>1
  <1>5. \A x \in 1 .. la + lb + lc : e[x] = IF x <= la + lb THEN d[x] ELSE c[x - (la + lb)]
    BY <1>1, <1>2, <1>4
  <1>e. s = e
    BY <1>2, <1>4
  <1>6. k \in 1 .. la + lb + lc
    BY <1>4, <1>e
  <1>7. CASE k <= la
    <2>1. k \in 1 .. la /\ e[k] = a[k]
      <3>1. k \in 1 .. la + lb /\ k \in 1 .. la
        BY <1>6, <1>7
      <3>2. e[k] = d[k]
        BY <1>5, <1>6, <3>1
      <3>3. d[k] = a[k]
        BY <1>3, <3>1
      <3> QED BY <3>1, <3>2, <3>3
    <2> QED BY <1>1, <1>7, <1>e, <2>1 DEF LiesIn
  <1>8. CASE k > la /\ k <= la + lb
    <2>1. PICK x \in 1 .. lb : x = k - la
      <3>1. k - la \in 1 .. lb
        BY <1>6, <1>8
      <3> QED BY <3>1
    <2>2. e[k] = b[x]
      <3>1. k \in 1 .. la + lb /\ ~(k <= la)
        BY <1>6, <1>8
      <3>2. e[k] = d[k]
        BY <1>5, <1>6, <1>8
      <3>3. d[k] = b[k - la]
        BY <1>3, <3>1
      <3> QED BY <2>1, <3>2, <3>3
    <2>3. k = la + x
      BY <1>6, <2>1
    <2> QED BY <1>1, <1>8, <1>e, <2>2, <2>3 DEF LiesIn
  <1>9. CASE k > la + lb
    <2>1. PICK x \in 1 .. lc : x = k - (la + lb)
      <3>1. k - (la + lb) \in 1 .. lc
        BY <1>6, <1>9
      <3> QED BY <3>1
    <2>2. e[k] = c[x]
      <3>1. ~(k <= la + lb)
        BY <1>6, <1>9
      <3>2. e[k] = c[k - (la + lb)]
        BY <1>5, <1>6, <3>1
      <3> QED BY <2>1, <3>2
    <2>3. k = la + lb + x
      BY <1>6, <2>1
    <2> QED BY <1>1, <1>9, <1>e, <2>2, <2>3 DEF LiesIn
  <1>10. k <= la \/ (k > la /\ k <= la + lb) \/ k > la + lb
    BY <1>6
  <1> QED BY <1>7, <1>8, <1>9, <1>10

\* An atom stands for blocks of its message.
OwnAtom(msgs, i, a) ==
    \/ /\ a.kind = "text" /\ a.text = Places(msgs, i, {"text"})
       /\ a.thinking = Places(msgs, i, {"thinking", "signed"})
    \/ /\ a.kind \in {"call", "result"} /\ a.at \in Places(msgs, i, {a.kind})
       /\ a.id = BlockAt(msgs, a.at).id

LEMMA MessageAtoms ==
    ASSUME NEW msgs \in Seq(Message), NEW i \in DOMAIN msgs
    PROVE  /\ AtomsOf(msgs, i) \in Seq(Atom)
           /\ \A k \in DOMAIN AtomsOf(msgs, i) : OwnAtom(msgs, i, AtomsOf(msgs, i)[k])
           /\ \A k, h \in DOMAIN AtomsOf(msgs, i) : AtomsOf(msgs, i)[k].kind = "call" =>
                 /\ AtomsOf(msgs, i)[h].kind = "result" => k < h
                 /\ AtomsOf(msgs, i)[h].kind = "call" /\ AtomsOf(msgs, i)[k].at = AtomsOf(msgs, i)[h].at => k = h
  <1>1. PICK a \in Seq(Atom) : a = Spoken(msgs, i)
    BY SpokenAtom
  <1>2. PICK b \in Seq(Atom) : b = PartOf(msgs, i, "call")
    BY PartAtoms
  <1>3. PICK c \in Seq(Atom) : c = PartOf(msgs, i, "result")
    BY PartAtoms
  <1>4. PICK s \in Seq(Atom) : s = a \o b \o c /\ s = AtomsOf(msgs, i)
    <2>1. a \o b \in Seq(Atom)
      OBVIOUS
    <2>2. (a \o b) \o c \in Seq(Atom)
      BY <2>1
    <2> QED BY <1>1, <1>2, <1>3, <2>2, AtomsOfParts
  <1>5. \A k \in DOMAIN a : a[k].kind = "text" /\ OwnAtom(msgs, i, a[k])
    BY <1>1, SpokenAtom DEF OwnAtom
  <1>6. \A k \in DOMAIN b : b[k].kind = "call" /\ OwnAtom(msgs, i, b[k])
    <2>1. \A k \in DOMAIN b : b[k].kind = "call" /\ b[k].at \in Places(msgs, i, {"call"})
                             /\ b[k].id = BlockAt(msgs, b[k].at).id
      BY <1>2, PartAtoms
    <2> QED BY <2>1 DEF OwnAtom
  <1>7. \A k \in DOMAIN c : c[k].kind = "result" /\ OwnAtom(msgs, i, c[k])
    <2>1. \A k \in DOMAIN c : c[k].kind = "result" /\ c[k].at \in Places(msgs, i, {"result"})
                             /\ c[k].id = BlockAt(msgs, c[k].at).id
      BY <1>3, PartAtoms
    <2> QED BY <2>1 DEF OwnAtom
  <1>8. \A x, y \in DOMAIN b : b[x].at = b[y].at => x = y
    BY <1>2, PartAtoms
  <1>9. PICK la \in Nat, lb \in Nat : la = Len(a) /\ lb = Len(b)
    OBVIOUS
  <1> DEFINE InA(k) == k \in DOMAIN a /\ s[k] = a[k]
             InB(k) == \E x \in DOMAIN b : k = la + x /\ k <= la + lb /\ s[k] = b[x]
             InC(k) == \E x \in DOMAIN c : k > la + lb /\ s[k] = c[x]
  <1>10. \A k \in DOMAIN s : InA(k) \/ InB(k) \/ InC(k)
    <2> TAKE k \in DOMAIN s
    <2>1. LiesIn(s, a, b, c, k)
      BY <1>4, InThree
    <2> QED BY <1>9, <2>1 DEF LiesIn
  <1>11. \A k \in DOMAIN s : OwnAtom(msgs, i, s[k])
    BY <1>5, <1>6, <1>7, <1>10
  <1>12. \A k \in DOMAIN s : (s[k].kind = "call" => InB(k)) /\ (s[k].kind = "result" => InC(k))
    BY <1>5, <1>6, <1>7, <1>10
  <1>13. ASSUME NEW k \in DOMAIN s, NEW h \in DOMAIN s, s[k].kind = "call", s[h].kind = "result" PROVE k < h
    <2>1. k \in Int /\ h \in Int /\ k <= la + lb /\ h > la + lb
      BY <1>12, <1>13
    <2> QED BY <2>1
  <1>14. ASSUME NEW k \in DOMAIN s, NEW h \in DOMAIN s, s[k].kind = "call", s[h].kind = "call", s[k].at = s[h].at PROVE k = h
    <2>1. PICK x \in DOMAIN b : k = la + x /\ s[k] = b[x]
      BY <1>12, <1>14
    <2>2. PICK y \in DOMAIN b : h = la + y /\ s[h] = b[y]
      BY <1>12, <1>14
    <2>3. x = y
      BY <1>8, <1>14, <2>1, <2>2
    <2> QED BY <2>1, <2>2, <2>3
  <1> QED BY <1>4, <1>11, <1>13, <1>14

\* The atoms of a request: each call has one atom, which no result precedes.
Sorted(as) ==
    /\ \A j, k \in DOMAIN as :
          as[j].kind = "call" /\ as[k].kind = "call" /\ as[j].id = as[k].id => j = k
    /\ \A j, k \in DOMAIN as :
          as[j].kind = "call" /\ as[k].kind = "result" /\ as[j].id = as[k].id => j < k

Stands(msgs, a) == \E i \in DOMAIN msgs : OwnAtom(msgs, i, a)

LEMMA RequestAtoms ==
    ASSUME NEW msgs \in Seq(Message)
    PROVE  /\ Atoms(msgs) \in Seq(Atom)
           /\ \A k \in DOMAIN Atoms(msgs) : Stands(msgs, Atoms(msgs)[k])
           /\ WellNumbered(msgs) /\ CallsFirst(msgs) => Sorted(Atoms(msgs))
  <1>1. PICK N \in Nat : N = Len(msgs) /\ DOMAIN msgs = 1 .. N
    OBVIOUS
  <1>2. PICK s \in Seq(Seq(Atom)) : s = [i \in DOMAIN msgs |-> AtomsOf(msgs, i)] /\ Len(s) = N
    <2>1. PICK s : s = [i \in 1 .. N |-> AtomsOf(msgs, i)]
      OBVIOUS
    <2>2. s \in [1 .. N -> Seq(Atom)]
      BY <1>1, <2>1, MessageAtoms
    <2>3. s \in Seq(Seq(Atom)) /\ Len(s) = N
      BY <2>2, LenProperties
    <2> QED BY <1>1, <2>1, <2>3
  <1>3. \A i \in 1 .. N : s[i] = AtomsOf(msgs, i) /\ s[i] \in Seq(Atom) /\ DOMAIN s[i] = 1 .. Len(s[i]) /\ Len(s[i]) \in Nat
    BY <1>1, <1>2
  <1>4. PICK as \in Seq(Atom) : as = Atoms(msgs) /\ \E off : Laid(s, as, off)
    BY <1>2, FlatLaid DEF Atoms
  <1>5. PICK off : Laid(s, as, off)
    BY <1>4
  <1>6. /\ off \in [1 .. N + 1 -> Nat]
        /\ \A i \in 1 .. N : off[i + 1] = off[i] + Len(s[i])
        /\ \A i, j \in 1 .. N + 1 : i <= j => off[i] <= off[j]
        /\ \A i \in 1 .. N : \A j \in 1 .. Len(s[i]) : as[off[i] + j] = s[i][j]
        /\ \A k \in 1 .. Len(as) : \E i \in 1 .. N : k - off[i] \in 1 .. Len(s[i])
    BY <1>2, <1>5 DEF Laid
  <1>d. DOMAIN as = 1 .. Len(as) /\ Len(as) \in Nat
    BY LenProperties
  <1>a. ASSUME NEW i \in 1 .. N, NEW x \in DOMAIN s[i], NEW y \in DOMAIN s[i], s[i][x].kind = "call"
        PROVE  /\ s[i][y].kind = "result" => x < y
               /\ s[i][y].kind = "call" /\ s[i][x].at = s[i][y].at => x = y
    <2>1. s[i] = AtomsOf(msgs, i) /\ i \in DOMAIN msgs
      BY <1>1, <1>3
    <2>2. \A k, h \in DOMAIN AtomsOf(msgs, i) : AtomsOf(msgs, i)[k].kind = "call" =>
             /\ AtomsOf(msgs, i)[h].kind = "result" => k < h
             /\ AtomsOf(msgs, i)[h].kind = "call" /\ AtomsOf(msgs, i)[k].at = AtomsOf(msgs, i)[h].at => k = h
      BY <2>1, MessageAtoms
    <2> QED BY <1>a, <2>1, <2>2
  <1>7. ASSUME NEW k \in DOMAIN as
        PROVE  \E i \in 1 .. N, o \in Nat, x \in Nat :
                  x \in DOMAIN s[i] /\ o = off[i] /\ k = o + x /\ x <= Len(s[i]) /\ as[k] = s[i][x] /\ OwnAtom(msgs, i, as[k])
    <2>1. PICK i \in 1 .. N : k - off[i] \in 1 .. Len(s[i])
      <3>1. \A h \in 1 .. Len(as) : \E i \in 1 .. N : h - off[i] \in 1 .. Len(s[i])
        BY <1>6
      <3> QED BY <1>d, <3>1
    <2>2. PICK o \in Nat, l \in Nat : o = off[i] /\ l = Len(s[i])
      <3>1. i \in 1 .. N + 1
        BY <1>1
      <3> QED BY <1>3, <1>6, <3>1
    <2>3. PICK x \in 1 .. l : k = o + x
      <3>1. k - o \in 1 .. l /\ k \in Int
        BY <1>d, <2>1, <2>2
      <3>2. k = o + (k - o)
        BY <3>1
      <3> QED BY <3>1, <3>2
    <2>4. as[k] = s[i][x]
      BY <1>6, <2>2, <2>3
    <2>5. x \in DOMAIN s[i] /\ x <= Len(s[i])
      BY <1>3, <2>2
    <2>6. OwnAtom(msgs, i, s[i][x])
      BY <1>1, <1>3, <2>5, MessageAtoms
    <2> QED BY <2>2, <2>3, <2>4, <2>5, <2>6
  <1>8. \A k \in DOMAIN as : Stands(msgs, as[k])
    BY <1>1, <1>7 DEF Stands
  <1>9. ASSUME WellNumbered(msgs), CallsFirst(msgs) PROVE Sorted(as)
    <2>1. ASSUME NEW i \in 1 .. N, NEW a, NEW kind \in {"call", "result"}, OwnAtom(msgs, i, a), a.kind = kind
          PROVE  a.at \in AllPlaces(msgs, {kind}) /\ a.at[1] = i /\ a.id = BlockAt(msgs, a.at).id
      <3>1. i \in DOMAIN msgs
        BY <1>1
      <3> QED BY <2>1, <3>1 DEF OwnAtom, AllPlaces, Places
    <2>2. ASSUME NEW j \in DOMAIN as, NEW k \in DOMAIN as, as[j].kind = "call", as[k].kind = "call", as[j].id = as[k].id
          PROVE  j = k
      <3>1. PICK i \in 1 .. N, o \in Nat, x \in Nat :
               x \in DOMAIN s[i] /\ o = off[i] /\ j = o + x /\ as[j] = s[i][x] /\ OwnAtom(msgs, i, as[j])
        BY <1>7
      <3>2. PICK h \in 1 .. N, p \in Nat, y \in Nat :
               y \in DOMAIN s[h] /\ p = off[h] /\ k = p + y /\ as[k] = s[h][y] /\ OwnAtom(msgs, h, as[k])
        BY <1>7
      <3>3. as[j].at \in AllPlaces(msgs, {"call"}) /\ as[j].at[1] = i /\ as[j].id = BlockAt(msgs, as[j].at).id
        BY <2>1, <2>2, <3>1
      <3>4. as[k].at \in AllPlaces(msgs, {"call"}) /\ as[k].at[1] = h /\ as[k].id = BlockAt(msgs, as[k].at).id
        BY <2>1, <2>2, <3>2
      <3>5. as[j].at = as[k].at
        BY <1>9, <2>2, <3>3, <3>4 DEF WellNumbered
      <3>6. i = h /\ o = p
        BY <3>1, <3>2, <3>3, <3>4, <3>5
      <3>7. x = y
        BY <1>a, <2>2, <3>1, <3>2, <3>5, <3>6
      <3> QED BY <3>1, <3>2, <3>6, <3>7
    <2>3. ASSUME NEW j \in DOMAIN as, NEW k \in DOMAIN as, as[j].kind = "call", as[k].kind = "result", as[j].id = as[k].id
          PROVE  j < k
      <3>1. PICK i \in 1 .. N, o \in Nat, x \in Nat :
               x \in DOMAIN s[i] /\ o = off[i] /\ j = o + x /\ x <= Len(s[i]) /\ as[j] = s[i][x] /\ OwnAtom(msgs, i, as[j])
        BY <1>7
      <3>2. PICK h \in 1 .. N, p \in Nat, y \in Nat :
               y \in DOMAIN s[h] /\ p = off[h] /\ k = p + y /\ as[k] = s[h][y] /\ OwnAtom(msgs, h, as[k])
        BY <1>7
      <3>3. as[j].at \in AllPlaces(msgs, {"call"}) /\ as[j].at[1] = i /\ as[j].id = BlockAt(msgs, as[j].at).id
        BY <2>1, <2>3, <3>1
      <3>4. as[k].at \in AllPlaces(msgs, {"result"}) /\ as[k].at[1] = h /\ as[k].id = BlockAt(msgs, as[k].at).id
        BY <2>1, <2>3, <3>2
      <3>5. i <= h
        BY <1>9, <2>3, <3>3, <3>4 DEF CallsFirst
      <3>x. x \in Nat /\ y \in Nat /\ y >= 1
        <4>1. y \in 1 .. Len(s[h]) /\ Len(s[h]) \in Nat
          BY <1>3, <3>2
        <4> QED BY <4>1
      <3>6. CASE i = h
        <4>1. x < y
          BY <1>a, <2>3, <3>1, <3>2, <3>6
        <4> QED BY <3>1, <3>2, <3>6, <3>x, <4>1
      <3>7. CASE i < h
        <4>1. PICK l \in Nat : l = Len(s[i]) /\ x <= l
          BY <1>3, <3>1
        <4>2. off[i + 1] = o + l
          BY <1>6, <3>1, <4>1
        <4>3. off[i + 1] <= off[h]
          <5>1. i + 1 \in 1 .. N + 1 /\ h \in 1 .. N + 1 /\ i + 1 <= h
            BY <1>1, <3>7
          <5> QED BY <1>6, <5>1
        <4>4. o + l <= p
          BY <3>2, <4>2, <4>3
        <4>5. o + x < p + y
          BY <3>x, <4>1, <4>4
        <4> QED BY <3>1, <3>2, <4>5
      <3> QED BY <3>5, <3>6, <3>7
    <2> QED BY <2>2, <2>3 DEF Sorted
  <1> QED BY <1>4, <1>8, <1>9

-----------------------------------------------------------------------------
(* The canonical chat, and what the codecs send of it.                     *)

Canonical == [role : {"user", "assistant", "system", "tool"}, text : SUBSET Spots, thinking : SUBSET Spots,
              calls : SUBSET Spots, ids : SUBSET Ids, answers : Ids]

\* What a canonical message is made of.
Made(msgs, m) ==
    /\ m.text \cup m.calls \subseteq AllPlaces(msgs, {"text", "call", "result"})
    /\ m.thinking \subseteq AllPlaces(msgs, {"thinking", "signed"})

LEMMA AtomPlaces ==
    ASSUME NEW msgs \in Seq(Message), NEW a, Stands(msgs, a)
    PROVE  /\ a.kind = "text" =>
                 /\ a.text \subseteq AllPlaces(msgs, {"text", "call", "result"})
                 /\ a.thinking \subseteq AllPlaces(msgs, {"thinking", "signed"})
           /\ a.kind \in {"call", "result"} => a.at \in AllPlaces(msgs, {"text", "call", "result"})
  <1>1. PICK i \in DOMAIN msgs : OwnAtom(msgs, i, a)
    BY DEF Stands
  <1>2. /\ Places(msgs, i, {"text"}) \subseteq AllPlaces(msgs, {"text", "call", "result"})
        /\ Places(msgs, i, {"call"}) \subseteq AllPlaces(msgs, {"text", "call", "result"})
        /\ Places(msgs, i, {"result"}) \subseteq AllPlaces(msgs, {"text", "call", "result"})
        /\ Places(msgs, i, {"thinking", "signed"}) \subseteq AllPlaces(msgs, {"thinking", "signed"})
    BY DEF Places, AllPlaces
  <1> QED BY <1>1, <1>2 DEF OwnAtom

\* The results that a group of calls claims, as tool messages.
Claimed(as, i)     == {k \in DOMAIN as : Claims(as, i, k)}
ToolMessages(as)   == [k \in DOMAIN as |-> ToolMessage(as[k])]
ClaimedBy(as, i)   == FlattenSeq(Singles(ToolMessages(as), Claimed(as, i)))
TextMessage(as, i) ==
    [role |-> as[i].role, text |-> as[i].text, thinking |-> Buffered(as, i) \cup as[i].thinking,
     calls |-> {}, ids |-> {}, answers |-> NoId]
CallMessage(as, i) ==
    [role |-> "assistant", text |-> {}, thinking |-> Buffered(as, i),
     calls |-> {as[j].at : j \in Group(as, i)}, ids |-> GroupIds(as, i), answers |-> NoId]

LEMMA EmittedKinds ==
    ASSUME NEW as, NEW i
    PROVE  \/ as[i].kind = "text" /\ as[i].text # {} /\ Emitted(as, i) = <<TextMessage(as, i)>>
           \/ /\ GroupStart(as, i) /\ Group(as, i) # {}
              /\ Emitted(as, i) = <<CallMessage(as, i)>> \o ClaimedBy(as, i)
           \/ Emitted(as, i) = << >>
  <1> DEFINE Flat == FlattenSeq([k \in DOMAIN as |-> IF Claims(as, i, k) THEN <<ToolMessage(as[k])>> ELSE << >>])
             Speech == as[i].kind = "text" /\ as[i].text # {}
             Calls  == GroupStart(as, i) /\ Group(as, i) # {}
  <1>1. Singles(ToolMessages(as), Claimed(as, i))
           = [k \in DOMAIN as |-> IF Claims(as, i, k) THEN <<ToolMessage(as[k])>> ELSE << >>]
    BY DEF Singles, ToolMessages, Claimed
  <1>2. ClaimedBy(as, i) = Flat
    BY <1>1 DEF ClaimedBy
  <1>3. ~(Speech /\ Calls)
    BY DEF GroupStart
  <1>4. Speech => Emitted(as, i) = <<TextMessage(as, i)>>
    BY <1>3, Zenon DEF Emitted, TextMessage
  <1>5. Calls => Emitted(as, i) = <<CallMessage(as, i)>> \o Flat
    BY <1>3, Zenon DEF Emitted, CallMessage
  <1>6. ~Speech /\ ~Calls => Emitted(as, i) = << >>
    BY Zenon DEF Emitted
  <1> QED BY <1>2, <1>4, <1>5, <1>6

LEMMA AtomShape ==
    ASSUME NEW as \in Seq(Atom), NEW k \in DOMAIN as
    PROVE  /\ as[k].kind \in {"text", "call", "result"} /\ as[k].role \in {"user", "assistant", "system"}
           /\ as[k].text \in SUBSET Spots /\ as[k].thinking \in SUBSET Spots
           /\ as[k].id \in Ids /\ as[k].at \in Spots
  <1>1. as[k] \in Atom
    BY LenProperties, ElementOfSeq
  <1> QED BY <1>1 DEF Atom

Reply(as, i, c) ==
    /\ \A k \in DOMAIN c : \E h \in Claimed(as, i) : c[k] = ToolMessage(as[h])
    /\ \A h \in Claimed(as, i) : \E k \in DOMAIN c : c[k] = ToolMessage(as[h])

LEMMA ClaimedMessages ==
    ASSUME NEW as \in Seq(Atom), NEW i
    PROVE  ClaimedBy(as, i) \in Seq(Canonical) /\ Reply(as, i, ClaimedBy(as, i))
  <1>1. PICK f : f = ToolMessages(as)
    OBVIOUS
  <1>2. PICK P : P = Claimed(as, i) /\ P \subseteq DOMAIN as
    BY DEF Claimed
  <1>3. \A k \in DOMAIN as : ToolMessage(as[k]) \in Canonical
    BY AtomShape DEF ToolMessage, Canonical
  <1>4. PICK n \in Nat : DOMAIN as = 1 .. n
    BY LenProperties
  <1>5. f \in [1 .. n -> Canonical] /\ \A k \in DOMAIN as : f[k] = ToolMessage(as[k])
    BY <1>1, <1>3, <1>4 DEF ToolMessages
  <1>6. f \in Seq(Canonical) /\ P \in SUBSET DOMAIN f
    <2>1. f \in Seq(Canonical)
      BY <1>4, <1>5
    <2>2. DOMAIN f = DOMAIN as
      BY <1>4, <1>5
    <2> QED BY <1>2, <2>1, <2>2
  <1>7. PICK flat \in Seq(Canonical) : flat = ClaimedBy(as, i) /\ \E pos : Kept(flat, f, P, pos)
    BY <1>1, <1>2, <1>6, SinglesKept DEF ClaimedBy
  <1>8. PICK pos : Kept(flat, f, P, pos)
    BY <1>7
  <1>p. /\ \A h \in P : pos[h] \in DOMAIN flat /\ flat[pos[h]] = f[h]
        /\ \A k \in DOMAIN flat : \E h \in P : k = pos[h]
    BY <1>8 DEF Kept
  <1>q. \A h \in P : f[h] = ToolMessage(as[h])
    BY <1>2, <1>5
  <1>9. \A k \in DOMAIN flat : \E h \in P : flat[k] = ToolMessage(as[h])
    <2> TAKE k \in DOMAIN flat
    <2>1. PICK h \in P : k = pos[h]
      BY <1>p
    <2>2. flat[k] = ToolMessage(as[h])
      BY <1>p, <1>q, <2>1
    <2> QED BY <2>2
  <1>10. \A h \in P : \E k \in DOMAIN flat : flat[k] = ToolMessage(as[h])
    <2> TAKE h \in P
    <2>1. pos[h] \in DOMAIN flat /\ flat[pos[h]] = ToolMessage(as[h])
      BY <1>p, <1>q
    <2> QED BY <2>1
  <1>11. Reply(as, i, flat)
    BY <1>2, <1>9, <1>10 DEF Reply
  <1> QED BY <1>7, <1>11

LEMMA EmittedTyped ==
    ASSUME NEW as \in Seq(Atom), NEW i \in DOMAIN as
    PROVE  Emitted(as, i) \in Seq(Canonical)
  <1>1. Buffered(as, i) \in SUBSET Spots
    <2>1. PICK n \in Nat : DOMAIN as = 1 .. n
      BY LenProperties
    <2>2. \A t \in 1 .. i - 1 : t \in DOMAIN as
      BY <2>1
    <2> QED BY <2>2, AtomShape DEF Buffered
  <1>2. TextMessage(as, i) \in Canonical
    BY <1>1, AtomShape DEF TextMessage, Canonical, Ids
  <1>3. CallMessage(as, i) \in Canonical
    <2>1. Group(as, i) \subseteq DOMAIN as
      BY DEF Group
    <2>2. GroupIds(as, i) \in SUBSET Ids /\ {as[j].at : j \in Group(as, i)} \in SUBSET Spots
      BY <2>1, AtomShape DEF GroupIds
    <2> QED BY <1>1, <2>2 DEF CallMessage, Canonical, Ids
  <1>4. <<TextMessage(as, i)>> \in Seq(Canonical)
    <2>1. PICK m \in Canonical : m = TextMessage(as, i)
      BY <1>2
    <2>2. <<m>> \in Seq(Canonical)
      OBVIOUS
    <2> QED BY <2>1, <2>2
  <1>5. <<CallMessage(as, i)>> \o ClaimedBy(as, i) \in Seq(Canonical)
    <2>1. PICK a \in Seq(Canonical), b \in Seq(Canonical) : a = <<CallMessage(as, i)>> /\ b = ClaimedBy(as, i)
      <3>1. PICK m \in Canonical : m = CallMessage(as, i)
        BY <1>3
      <3>2. <<m>> \in Seq(Canonical)
        OBVIOUS
      <3>3. ClaimedBy(as, i) \in Seq(Canonical)
        BY ClaimedMessages
      <3> QED BY <3>1, <3>2, <3>3
    <2>2. a \o b \in Seq(Canonical)
      OBVIOUS
    <2> QED BY <2>1, <2>2
  <1>6. << >> \in Seq(Canonical)
    OBVIOUS
  <1> QED BY <1>4, <1>5, <1>6, EmittedKinds

\* A group claims a result for each of its calls, and nothing else.
LEMMA ClaimsAll ==
    ASSUME NEW as \in Seq(Atom), Sorted(as), NEW i \in DOMAIN as, GroupStart(as, i)
    PROVE  {as[k].id : k \in Claimed(as, i)} = GroupIds(as, i)
  <1>d. PICK n \in Nat : DOMAIN as = 1 .. n
    BY LenProperties
  <1>1. \A k \in Claimed(as, i) : as[k].id \in GroupIds(as, i)
    BY DEF Claimed, Claims
  <1>2. ASSUME NEW c \in GroupIds(as, i) PROVE \E k \in Claimed(as, i) : as[k].id = c
    <2>1. PICK j \in Group(as, i) : c = as[j].id
      BY DEF GroupIds
    <2>2. j \in DOMAIN as /\ i <= j /\ (\A x \in i .. j : as[x].kind = "call") /\ c \in ResultIds(as)
      BY <2>1 DEF Group, InGroup
    <2>3. PICK k \in DOMAIN as : as[k].kind = "result" /\ as[k].id = c
      BY <2>2 DEF ResultIds
    <2>4. as[j].kind = "call"
      <3>1. j \in i .. j
        BY <1>d, <2>2
      <3> QED BY <2>2, <3>1
    <2>5. i < k
      <3>1. j < k
        BY <2>1, <2>2, <2>3, <2>4 DEF Sorted
      <3> QED BY <1>d, <2>2, <3>1
    <2>6. ASSUME NEW h \in 1 .. i - 1, GroupStart(as, h), c \in GroupIds(as, h) PROVE FALSE
      <3>1. PICK g \in Group(as, h) : c = as[g].id
        BY <2>6 DEF GroupIds
      <3>2. g \in DOMAIN as /\ h <= g /\ \A x \in h .. g : as[x].kind = "call"
        BY <3>1 DEF Group, InGroup
      <3>3. as[g].kind = "call"
        <4>1. g \in h .. g
          BY <1>d, <3>2
        <4> QED BY <3>2, <4>1
      <3>4. g = j
        BY <2>1, <2>2, <2>4, <3>1, <3>2, <3>3 DEF Sorted
      <3>5. i - 1 \in h .. g
        BY <1>d, <2>2, <3>4
      <3>6. i # 1
        BY <1>d
      <3> QED BY <3>2, <3>5, <3>6 DEF GroupStart
    <2>7. Claims(as, i, k)
      BY <2>3, <2>5, <2>6 DEF Claims
    <2> QED BY <2>3, <2>7 DEF Claimed
  <1> DEFINE L == {as[k].id : k \in Claimed(as, i)}
  <1>3. L \subseteq GroupIds(as, i)
    BY <1>1
  <1>4. GroupIds(as, i) \subseteq L
    BY <1>2
  <1> QED BY <1>3, <1>4

\* A message and the tool messages that follow it.
LEMMA ClaimedUnit ==
    ASSUME NEW as \in Seq(Atom), Sorted(as), NEW i \in DOMAIN as, GroupStart(as, i), Group(as, i) # {}
    PROVE  Unit(<<CallMessage(as, i)>> \o ClaimedBy(as, i))
  <1>1. PICK m : m = CallMessage(as, i)
    OBVIOUS
  <1>2. m.role = "assistant" /\ m.ids = GroupIds(as, i)
    BY <1>1 DEF CallMessage
  <1>3. GroupIds(as, i) # {}
    BY DEF GroupIds
  <1>4. PICK c \in Seq(Canonical) : c = ClaimedBy(as, i)
    BY ClaimedMessages
  <1>5. PICK n \in Nat : n = Len(c) /\ DOMAIN c = 1 .. n
    BY LenProperties
  <1>6. PICK b : b = <<m>> \o c
    OBVIOUS
  <1>7. Len(b) = n + 1 /\ b[1] = m /\ \A k \in 1 .. n : b[k + 1] = c[k]
    BY <1>5, <1>6
  <1>8. /\ \A k \in 1 .. n : \E h \in Claimed(as, i) : c[k] = ToolMessage(as[h])
        /\ \A h \in Claimed(as, i) : \E k \in 1 .. n : c[k] = ToolMessage(as[h])
    <2>1. /\ \A k \in DOMAIN c : \E h \in Claimed(as, i) : c[k] = ToolMessage(as[h])
          /\ \A h \in Claimed(as, i) : \E k \in DOMAIN c : c[k] = ToolMessage(as[h])
      <3>1. Reply(as, i, c)
        BY <1>4, ClaimedMessages
      <3> QED BY <3>1 DEF Reply
    <2> QED BY <1>5, <2>1
  <1>9. \A h : ToolMessage(as[h]).role = "tool" /\ ToolMessage(as[h]).answers = as[h].id
    BY DEF ToolMessage
  <1>10. ASSUME NEW j \in 2 .. n + 1
         PROVE  b[j].role = "tool" /\ \E h \in Claimed(as, i) : b[j].answers = as[h].id
    <2>1. PICK k \in 1 .. n : j = k + 1
      <3>1. j - 1 \in 1 .. n /\ j = (j - 1) + 1
        OBVIOUS
      <3> QED BY <3>1
    <2>2. PICK h \in Claimed(as, i) : c[k] = ToolMessage(as[h])
      BY <1>8
    <2>3. b[j] = ToolMessage(as[h])
      BY <1>7, <2>1, <2>2
    <2> QED BY <1>9, <2>3
  <1>11. ASSUME NEW h \in Claimed(as, i) PROVE \E j \in 2 .. n + 1 : b[j].answers = as[h].id
    <2>1. PICK k \in 1 .. n : c[k] = ToolMessage(as[h])
      BY <1>8
    <2>2. PICK j \in 2 .. n + 1 : j = k + 1
      <3>1. k + 1 \in 2 .. n + 1
        OBVIOUS
      <3> QED BY <3>1
    <2>3. b[j] = ToolMessage(as[h])
      BY <1>7, <2>1, <2>2
    <2> QED BY <1>9, <2>3
  <1>12. {b[j].answers : j \in 2 .. n + 1} = {as[h].id : h \in Claimed(as, i)}
    <2> DEFINE L == {b[j].answers : j \in 2 .. n + 1}
               R == {as[h].id : h \in Claimed(as, i)}
    <2>1. L \subseteq R
      BY <1>10
    <2>2. R \subseteq L
      BY <1>11
    <2> QED BY <2>1, <2>2
  <1>13. {b[j].answers : j \in 2 .. n + 1} = m.ids
    BY <1>2, <1>12, ClaimsAll
  <1>14. /\ b[1].role # "tool" /\ (b[1].text # {} \/ b[1].ids # {})
         /\ \A j \in 2 .. Len(b) : b[j].role = "tool"
         /\ {b[j].answers : j \in 2 .. Len(b)} = b[1].ids
    BY <1>2, <1>3, <1>7, <1>10, <1>13
  <1>15. Unit(b)
    BY <1>14 DEF Unit
  <1> QED BY <1>1, <1>4, <1>6, <1>15

LEMMA EmittedUnit ==
    ASSUME NEW as \in Seq(Atom), Sorted(as), NEW i \in DOMAIN as
    PROVE  Unit(Emitted(as, i))
  <1>1. CASE as[i].kind = "text" /\ as[i].text # {} /\ Emitted(as, i) = <<TextMessage(as, i)>>
    <2>1. PICK b : b = <<TextMessage(as, i)>>
      OBVIOUS
    <2>2. Len(b) = 1 /\ b[1] = TextMessage(as, i)
      BY <2>1
    <2>3. /\ b[1].role = as[i].role /\ b[1].text = as[i].text /\ b[1].ids = {}
      BY <2>2 DEF TextMessage
    <2>4. as[i].role # "tool"
      BY AtomShape
    <2>5. 2 .. Len(b) = {}
      BY <2>2
    <2>6. Unit(b)
      BY <1>1, <2>3, <2>4, <2>5 DEF Unit
    <2> QED BY <1>1, <2>1, <2>6
  <1>2. CASE GroupStart(as, i) /\ Group(as, i) # {} /\ Emitted(as, i) = <<CallMessage(as, i)>> \o ClaimedBy(as, i)
    BY <1>2, ClaimedUnit
  <1>3. CASE Emitted(as, i) = << >>
    BY <1>3 DEF Unit
  <1> QED BY <1>1, <1>2, <1>3, EmittedKinds

\* Every canonical message is made of blocks of the request.
LEMMA EmittedMade ==
    ASSUME NEW msgs \in Seq(Message), NEW as \in Seq(Atom), \A k \in DOMAIN as : Stands(msgs, as[k]),
           NEW i \in DOMAIN as, NEW x \in DOMAIN Emitted(as, i)
    PROVE  Made(msgs, Emitted(as, i)[x])
  <1>d. PICK n \in Nat : DOMAIN as = 1 .. n
    BY LenProperties
  <1>1. ASSUME NEW k \in DOMAIN as
        PROVE  /\ as[k].kind = "text" =>
                     /\ as[k].text \subseteq AllPlaces(msgs, {"text", "call", "result"})
                     /\ as[k].thinking \subseteq AllPlaces(msgs, {"thinking", "signed"})
               /\ as[k].kind \in {"call", "result"} => as[k].at \in AllPlaces(msgs, {"text", "call", "result"})
    <2>1. Stands(msgs, as[k])
      OBVIOUS
    <2> QED BY <2>1, AtomPlaces
  <1>2. Buffered(as, i) \subseteq AllPlaces(msgs, {"thinking", "signed"})
    <2>1. \A t \in 1 .. i - 1 : t \in DOMAIN as
      BY <1>d
    <2> QED BY <1>1, <2>1 DEF Buffered
  <1>3. CASE as[i].kind = "text" /\ as[i].text # {} /\ Emitted(as, i) = <<TextMessage(as, i)>>
    <2>1. Emitted(as, i)[x] = TextMessage(as, i)
      <3>1. PICK m : m = TextMessage(as, i)
        OBVIOUS
      <3>2. Emitted(as, i) = <<m>> /\ x \in DOMAIN <<m>>
        BY <1>3, <3>1
      <3>3. <<m>>[x] = m
        BY <3>2
      <3> QED BY <3>1, <3>2, <3>3
    <2>2. Made(msgs, TextMessage(as, i))
      BY <1>1, <1>2, <1>3 DEF Made, TextMessage
    <2> QED BY <2>1, <2>2
  <1>4. CASE GroupStart(as, i) /\ Group(as, i) # {} /\ Emitted(as, i) = <<CallMessage(as, i)>> \o ClaimedBy(as, i)
    <2>1. PICK m : m = CallMessage(as, i)
      OBVIOUS
    <2>2. PICK c \in Seq(Canonical) : c = ClaimedBy(as, i)
      BY ClaimedMessages
    <2>3. PICK l \in Nat : l = Len(c) /\ DOMAIN c = 1 .. l
      BY LenProperties
    <2>4. PICK b : b = <<m>> \o c
      OBVIOUS
    <2>5. Len(b) = l + 1 /\ DOMAIN b = 1 .. l + 1 /\ b[1] = m /\ \A k \in 1 .. l : b[k + 1] = c[k]
      BY <2>3, <2>4
    <2>6. Emitted(as, i) = b
      BY <1>4, <2>1, <2>2, <2>4
    <2>7. Made(msgs, m)
      <3>1. \A j \in Group(as, i) : j \in DOMAIN as /\ as[j].kind = "call"
        <4> TAKE j \in Group(as, i)
        <4>1. j \in DOMAIN as /\ i <= j /\ \A k \in i .. j : as[k].kind = "call"
          BY DEF Group, InGroup
        <4>2. j \in i .. j
          BY <1>d, <4>1
        <4> QED BY <4>1, <4>2
      <3>2. {as[j].at : j \in Group(as, i)} \subseteq AllPlaces(msgs, {"text", "call", "result"})
        BY <1>1, <3>1
      <3> QED BY <1>2, <2>1, <3>2 DEF Made, CallMessage
    <2>8. ASSUME NEW k \in 1 .. l PROVE Made(msgs, c[k])
      <3>1. PICK h \in Claimed(as, i) : c[k] = ToolMessage(as[h])
        <4>1. \A z \in DOMAIN c : \E h \in Claimed(as, i) : c[z] = ToolMessage(as[h])
          <5>1. Reply(as, i, c)
            BY <2>2, ClaimedMessages
          <5> QED BY <5>1 DEF Reply
        <4> QED BY <2>3, <4>1
      <3>2. h \in DOMAIN as /\ as[h].kind = "result"
        BY DEF Claimed, Claims
      <3>3. as[h].at \in AllPlaces(msgs, {"text", "call", "result"})
        BY <1>1, <3>2
      <3>4. Made(msgs, ToolMessage(as[h]))
        <4>1. /\ ToolMessage(as[h]).text = {as[h].at} /\ ToolMessage(as[h]).calls = {}
              /\ ToolMessage(as[h]).thinking = {}
          BY DEF ToolMessage
        <4> QED BY <3>3, <4>1 DEF Made
      <3> QED BY <3>1, <3>4
    <2>9. x \in 1 .. l + 1
      BY <2>5, <2>6
    <2>10. CASE x = 1
      BY <2>5, <2>6, <2>7, <2>10
    <2>11. CASE x # 1
      <3>1. PICK k \in 1 .. l : x = k + 1
        <4>1. x - 1 \in 1 .. l /\ x = (x - 1) + 1
          BY <2>9, <2>11
        <4> QED BY <4>1
      <3> QED BY <2>5, <2>6, <2>8, <3>1
    <2> QED BY <2>10, <2>11
  <1>5. CASE Emitted(as, i) = << >>
    BY <1>5
  <1> QED BY <1>3, <1>4, <1>5, EmittedKinds

LEMMA CanonicalChat ==
    ASSUME NEW msgs \in Seq(Message)
    PROVE  /\ \A m \in ToSet(Canonicalize(msgs)) : Made(msgs, m)
           /\ WellNumbered(msgs) /\ CallsFirst(msgs) => Valid(Canonicalize(msgs))
  <1>1. PICK as \in Seq(Atom) : as = Atoms(msgs)
    BY RequestAtoms
  <1>2. \A k \in DOMAIN as : Stands(msgs, as[k])
    BY <1>1, RequestAtoms
  <1>3. PICK n \in Nat : DOMAIN as = 1 .. n
    BY LenProperties
  <1>4. PICK bs : bs = [i \in DOMAIN as |-> Emitted(as, i)]
    OBVIOUS
  <1>5. bs \in Seq(Seq(Canonical)) /\ Len(bs) = n
    <2>1. bs \in [1 .. n -> Seq(Canonical)]
      BY <1>3, <1>4, EmittedTyped
    <2> QED BY <2>1
  <1>6. Canonicalize(msgs) = FlattenSeq(bs)
    BY <1>1, <1>4 DEF Canonicalize
  <1>7. \A i \in 1 .. n : i \in DOMAIN as /\ bs[i] = Emitted(as, i)
    BY <1>3, <1>4
  <1>8. ASSUME WellNumbered(msgs), CallsFirst(msgs) PROVE Valid(FlattenSeq(bs))
    <2>1. Sorted(as)
      BY <1>1, <1>8, RequestAtoms
    <2>2. Units(bs)
      BY <1>5, <1>7, <2>1, EmittedUnit DEF Units
    <2> QED BY <1>5, <2>2, UnitsValid
  <1>9. ASSUME NEW m \in ToSet(FlattenSeq(bs)) PROVE Made(msgs, m)
    <2>1. PICK chat \in Seq(Canonical) : chat = FlattenSeq(bs) /\ \E off : Laid(bs, chat, off)
      BY <1>5, FlatLaid
    <2>2. PICK off : Laid(bs, chat, off)
      BY <2>1
    <2>3. PICK k \in DOMAIN chat : chat[k] = m
      BY <2>1 DEF ToSet
    <2>4. k \in 1 .. Len(chat)
      BY LenProperties
    <2>5. PICK i \in 1 .. n : k - off[i] \in 1 .. Len(bs[i])
      <3>1. \A h \in 1 .. Len(chat) : \E i \in 1 .. Len(bs) : h - off[i] \in 1 .. Len(bs[i])
        BY <2>2 DEF Laid
      <3> QED BY <1>5, <2>4, <3>1
    <2>6. off[i] \in Nat /\ \A j \in 1 .. Len(bs[i]) : chat[off[i] + j] = bs[i][j]
      <3>1. off \in [1 .. n + 1 -> Nat] /\ \A h \in 1 .. n : \A j \in 1 .. Len(bs[h]) : chat[off[h] + j] = bs[h][j]
        BY <1>5, <2>2 DEF Laid
      <3>2. i \in 1 .. n + 1
        OBVIOUS
      <3> QED BY <3>1, <3>2
    <2>7. PICK j \in 1 .. Len(bs[i]) : k = off[i] + j
      <3>1. PICK o \in Nat : o = off[i]
        BY <2>6
      <3>2. k \in Int
        BY <2>4
      <3>3. k = o + (k - o)
        BY <3>2
      <3> QED BY <2>5, <3>1, <3>3
    <2>8. m = bs[i][j]
      BY <2>3, <2>6, <2>7
    <2>9. j \in DOMAIN Emitted(as, i) /\ i \in DOMAIN as
      <3>1. Emitted(as, i) \in Seq(Canonical) /\ bs[i] = Emitted(as, i) /\ i \in DOMAIN as
        BY <1>7, EmittedTyped
      <3>2. DOMAIN Emitted(as, i) = 1 .. Len(Emitted(as, i))
        BY <3>1, LenProperties
      <3> QED BY <3>1, <3>2
    <2>10. Made(msgs, Emitted(as, i)[j])
      BY <1>2, <2>9, EmittedMade
    <2> QED BY <1>7, <2>8, <2>10
  <1> QED BY <1>6, <1>8, <1>9

\* Every codec sends blocks its counting projection charges for.
LEMMA SentCounted ==
    ASSUME NEW msgs \in Seq(Message), NEW a \in {"anthropic", "openai", "ollama", "genai"}
    PROVE  Sent(a, msgs) \subseteq Counted(a, msgs)
  <1>0. \A kinds, more : kinds \subseteq more => AllPlaces(msgs, kinds) \subseteq AllPlaces(msgs, more)
    BY DEF AllPlaces, Places
  <1>1. \A kinds, more, i : i \in DOMAIN msgs /\ kinds \subseteq more => Places(msgs, i, kinds) \subseteq AllPlaces(msgs, more)
    BY DEF AllPlaces, Places
  <1>2. Hoisted(msgs) \subseteq DOMAIN msgs
    BY DEF Hoisted
  <1>3. toAPIRequest(msgs) \subseteq AllPlaces(msgs, CountAnthropic)
    <2>1. \A i \in DOMAIN msgs : Places(msgs, i, {"text"}) \subseteq AllPlaces(msgs, CountAnthropic)
      BY <1>1 DEF CountAnthropic
    <2>2. \A i \in DOMAIN msgs : toAPIContent(msgs, i) \subseteq AllPlaces(msgs, CountAnthropic)
      BY <1>1 DEF CountAnthropic, toAPIContent
    <2> QED BY <1>2, <2>1, <2>2 DEF toAPIRequest
  <1>4. toChatRequest(msgs) \subseteq AllPlaces(msgs, CountOpenAI)
    <2>1. CountOpenAI = {"text", "call", "result"}
      BY DEF CountOpenAI
    <2>2. \A m \in ToSet(Canonicalize(msgs)) : m.text \cup m.calls \subseteq AllPlaces(msgs, CountOpenAI)
      BY <2>1, CanonicalChat DEF Made
    <2> QED BY <2>2 DEF toChatRequest
  <1>5. toLlamaMsgs(msgs) \subseteq AllPlaces(msgs, CountOllama)
    <2>1. /\ AllPlaces(msgs, {"text", "call", "result"}) \subseteq AllPlaces(msgs, CountOllama)
          /\ AllPlaces(msgs, {"thinking", "signed"}) \subseteq AllPlaces(msgs, CountOllama)
      BY <1>0 DEF CountOllama
    <2>2. \A m \in ToSet(Canonicalize(msgs)) : m.text \cup m.calls \cup m.thinking \subseteq AllPlaces(msgs, CountOllama)
      BY <2>1, CanonicalChat DEF Made
    <2> QED BY <2>2 DEF toLlamaMsgs
  <1>6. encode(msgs) \subseteq AllPlaces(msgs, CountGenai)
    <2>1. BlockKinds \ {"empty"} \subseteq CountGenai
      BY DEF BlockKinds, CountGenai
    <2>2. \A i \in DOMAIN msgs : ProtoToContent(msgs, i) \subseteq AllPlaces(msgs, CountGenai)
      BY <1>1, <2>1 DEF ProtoToContent
    <2> QED BY <1>2, <2>2 DEF encode
  <1>7. CASE a = "anthropic"
    BY <1>3, <1>7 DEF Sent, Counted
  <1>8. CASE a = "openai"
    BY <1>4, <1>8 DEF Sent, Counted
  <1>9. CASE a = "ollama"
    BY <1>5, <1>9 DEF Sent, Counted
  <1>10. CASE a = "genai"
    BY <1>6, <1>10 DEF Sent, Counted
  <1> QED BY <1>7, <1>8, <1>9, <1>10

\* The request under way is one of those the calls may make; what an attempt has
\* sent is forgotten.
Asking == req.msgs \in Seq(Message)

LEMMA AskingStep ==
    ASSUME Flow, Asking, [Next]_vars
    PROVE  Asking'
  <1>0. << >> \in Seq(Message)  OBVIOUS
  <1>1. CASE Begin
    <2>1. calls + 1 \in DOMAIN Requests  BY <1>1, ProviderAssumption DEF Begin, Flow
    <2>2. \A r \in Requests[calls + 1] : r.msgs \in Seq(Message)  BY <2>1, ProviderAssumption
    <2> QED BY <1>1, <2>2 DEF Begin, Asking
  <1>2. CASE StartAttempt
    BY <1>0, <1>2 DEF StartAttempt, Asking, Flow
  <1>3. CASE Talk /\ ~StartAttempt
    <2>1. CASE GiveUp \/ Classify \/ TimerFires \/ Accepted \/ Cancel
      BY <2>1 DEF GiveUp, Classify, TimerFires, Accepted, Cancel, Asking
    <2>2. CASE TransportFails \/ Refused \/ RefusedWhole
      BY <2>2 DEF TransportFails, Refused, RefusedWhole, OpFails, Asking
    <2>3. CASE Completed
      BY <2>3, CompletedShape DEF tryComplete, Asking
    <2>4. CASE Decode
      BY <2>4, DecodeRest DEF Rest, Asking
    <2>5. CASE TakeChunk \/ Leave \/ finishEmpty
      BY <2>5 DEF TakeChunk, Leave, finishEmpty, Asking
    <2>6. CASE TakeFailure
      BY <2>6 DEF TakeFailure, OpFails, Asking
    <2> QED BY <1>3, <2>1, <2>2, <2>3, <2>4, <2>5, <2>6 DEF Talk, Take
  <1>4. CASE Answered
    BY <1>4, AnsweredShape DEF Lands, Rejected, OpFails, Asking
  <1>5. CASE Observe \/ EndFailed \/ Crash
    <2>1. req' = NoRequest  BY <1>5 DEF Observe, EndFailed, Crash, Forget
    <2> QED BY <1>0, <2>1 DEF Asking, NoRequest
  <1>6. CASE WriteTmp \/ FlushTmp \/ Rename \/ SaveFails \/ Idle \/ UNCHANGED vars
    BY <1>6 DEF WriteTmp, FlushTmp, Rename, SaveFails, Idle, vars, Asking
  <1> QED BY <1>1, <1>2, <1>3, <1>4, <1>5, <1>6 DEF Next, Talk
-----------------------------------------------------------------------------
(* The inductive invariant.                                                *)

Inv == Flow /\ Bridge /\ Landed /\ Durable /\ Asking

LEMMA InvInit == Init => Inv
  <1> SUFFICES ASSUME Init PROVE Inv  OBVIOUS
  <1>1. Flow
    BY DEF Init, Flow, Resting, Trying, NoRequest, NoTurn, TurnFields, None, Usages
  <1>2. Bridge  BY DEF Init, Bridge
  <1>3. Landed
    <2>1. Candidates \in Nat /\ scores = NoScores  BY ProviderAssumption DEF Init
    <2> QED BY <2>1 DEF Landed, NoScores, Texts
  <1>4. Durable  BY EmptyGood DEF Init, Durable
  <1>5. Asking  BY DEF Init, Asking, NoRequest
  <1> QED BY <1>1, <1>2, <1>3, <1>4, <1>5 DEF Inv

LEMMA InvStep == Inv /\ [Next]_vars => Inv'
  <1> SUFFICES ASSUME Inv, [Next]_vars PROVE Inv'  OBVIOUS
  <1>0. Flow /\ Bridge /\ Landed /\ Durable /\ Asking  BY DEF Inv
  <1>1. pc = "body" => queue \in Seq(Chunks)  BY <1>0 DEF Bridge, Waiting
  <1>2. Flow'  BY <1>0, <1>1, FlowStep
  <1>3. Bridge'  BY <1>0, BridgeStep
  <1>4. Landed'  BY <1>0, LandedStep
  <1>5. Durable'  BY <1>0, DurableStep
  <1>6. Asking'  BY <1>0, AskingStep
  <1> QED BY <1>2, <1>3, <1>4, <1>5, <1>6 DEF Inv

LEMMA InvHolds == Spec => []Inv
  BY InvInit, InvStep, PTL DEF Spec
-----------------------------------------------------------------------------
(* What follows from it.                                                   *)

\* A request is repeated only while its caller has seen nothing of it, the caller
\* sees chunks of one attempt and one final response unless it left, and usage is
\* reported for a clean answer only, for any adapters, requests and attempts
\* (retry.Completer.Stream, RRCLLM.tryStream).
THEOREM NoReplayHolds == Spec => []NoReplay
  <1>1. Flow => NoReplay
    <2> SUFFICES ASSUME Flow PROVE NoReplay  OBVIOUS
    <2>1. turn.from = {} \/ turn.from = {attempt}
      <3>1. CASE turn = NoTurn  BY <3>1 DEF NoTurn
      <3>2. CASE turn.from \subseteq {attempt}  BY <3>2
      <3> QED BY <3>1, <3>2 DEF Flow, Resting, Trying
    <2>2. Cardinality({}) = 0 /\ Cardinality({attempt}) = 1
      BY FS_EmptySet, FS_Singleton
    <2>3. Cardinality(turn.from) <= 1
      BY <2>1, <2>2
    <2>4. turn.finals <= 1 /\ (turn.usage # NoUsage => turn.finals = 1 /\ ~turn.error)
      BY DEF Flow, NoTurn
    <2>5. /\ pc \in {"attempt", "request", "classify", "backoff", "failed"} => turn = NoTurn
          /\ pc = "returned" /\ req.mode # "bulk" => (turn.finals = 1 <=> ~turn.left)
          /\ pc \in {"returned", "failed"} /\ note = "retrying" => ctx = "canceled"
      BY DEF Flow, Resting, Trying
    <2> QED BY <2>3, <2>4, <2>5 DEF NoReplay
  <1>2. Inv => NoReplay  BY <1>1 DEF Inv
  <1> QED BY <1>2, InvHolds, PTL

\* Every tool call the bridge hands over was completed by the provider and has all
\* its fragments in order, and the final response of a clean stream repeats each
\* completed call exactly once, for any number of calls and fragments and any way
\* a provider interleaves them (anthropic's blocks, toolCallAccumulator.add,
\* RRCLLM.tryStream).
THEOREM WholeCallsHolds == Spec => []WholeCalls
  <1>1. Flow /\ Bridge => WholeCalls
    <2> SUFFICES ASSUME Flow, Bridge PROVE WholeCalls  OBVIOUS
    <2>1. CASE pc = "body"
      <3>1. GivenWhole(turn.given)  BY <2>1, TakenGiven DEF Bridge
      <3>2. turn.usage = NoUsage  BY <2>1 DEF Flow
      <3> QED BY <3>1, <3>2 DEF WholeCalls, GivenWhole
    <2>2. CASE pc = "returned"  BY <2>2 DEF Bridge
    <2>3. CASE pc \in Resting \cup Trying
      BY <2>3, NothingGiven DEF Flow
    <2> QED BY <2>1, <2>2, <2>3 DEF Flow
  <1>2. Inv => WholeCalls  BY <1>1 DEF Inv
  <1> QED BY <1>2, InvHolds, PTL

\* Whatever is asked, each call in the canonical chat is answered at once and each
\* tool message answers a call before it, when ids are unique and results follow
\* their calls; and no codec sends a block that its counting projection has not
\* charged for (chatwire.Canonicalize, the codecs and CountText of each adapter).
THEOREM RequestSoundHolds == Spec => []RequestSound
  <1>1. Asking => RequestSound
    <2> SUFFICES ASSUME Asking PROVE RequestSound  OBVIOUS
    <2>1. req.msgs \in Seq(Message)  BY DEF Asking
    <2>2. WireValid  BY <2>1, CanonicalChat DEF WireValid
    <2>3. ProjectionSound
      <3>1. Adapters \subseteq {"anthropic", "openai", "ollama", "genai"}  BY ProviderAssumption
      <3> QED BY <2>1, <3>1, SentCounted DEF ProjectionSound
    <2> QED BY <2>2, <2>3 DEF RequestSound
  <1>2. Inv => RequestSound  BY <1>1 DEF Inv
  <1> QED BY <1>2, InvHolds, PTL

\* Each score and each vector belongs to the text at its position, and none is
\* missing where answers are taken by position, for any number of texts and any
\* batch size (the Score and Embed methods behind core.Scorer).
THEOREM AlignedHolds == Spec => []Aligned
  <1>1. Landed => Aligned
    <2> SUFFICES ASSUME Landed PROVE Aligned  OBVIOUS
    <2>1. Candidates \in Nat  BY ProviderAssumption
    <2> QED BY <2>1 DEF Landed, Aligned, Texts
  <1>2. Inv => Aligned  BY <1>1 DEF Inv
  <1> QED BY <1>2, InvHolds, PTL

\* At whatever step of a save the process dies, the artifact on disk is one that
\* Open accepts in full, for any window, budget and number of observations and
\* crashes (tokenscale saveLocked and Open).
THEOREM ScaleDurableHolds == Spec => []ScaleDurable
  <1>1. Durable => ScaleDurable
    <2> SUFFICES ASSUME Durable PROVE ScaleDurable  OBVIOUS
    <2>1. Opened(file) = file.ring /\ file.state # "torn"
      BY OpenedGood DEF Durable, Saved, Absent, Opened
    <2> QED BY <2>1 DEF Durable, Good, ScaleDurable
  <1>2. Inv => ScaleDurable  BY <1>1 DEF Inv
  <1> QED BY <1>2, InvHolds, PTL
=============================================================================
