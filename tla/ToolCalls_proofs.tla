--------------------------- MODULE ToolCalls_proofs ---------------------------
(***************************************************************************)
(* Any scripts, threads, workspaces, hooks, users and calls: tools go      *)
(* through their gates before they touch a file, an edit keeps what others *)
(* wrote while it waited for its approval, results match what was asked,   *)
(* and the approvals the tools wait for are those of Approvals.            *)
(***************************************************************************)
EXTENDS ToolCalls, FiniteSetTheorems, SequenceTheorems, TLAPS

-----------------------------------------------------------------------------
(* Approvals: a call waiting under an id of its own stays registered, no   *)
(* channel outlives its wait, and the first verdict, given for this call,  *)
(* decides.                                                                *)

\* Until a call's wait ends, its channel holds its first verdict or nothing.
Holding ==
    \A c \in Calls : wait[c] \in {"new", "pending", "waiting"} =>
       /\ out[c] = "none"
       /\ \/ chan[c] = << >> /\ first[c] = "none"
          \/ chan[c] = <<first[c]>> /\ first[c] \in Verdicts

\* A verdict in a call's channel, or on its way there, was given for a call
\* with the same id.
Sourced ==
    /\ \A c \in Calls : first[c] # "none" =>
          id[c] \in Ids /\ \E d \in Calls : id[d] = id[c] /\ first[c] \in meant[d]
    /\ \A u \in Users : user[u].pc # "idle" =>
          user[u].v \in meant[user[u].c] /\ id[user[u].c] \in Ids
    /\ \A u \in Users : user[u].pc = "send" =>
          user[u].to \in Calls /\ id[user[u].to] = id[user[u].c]

\* What the steps need to know of the shape of the state.
Shape ==
    /\ wait \in [Calls -> {"new", "pending", "waiting", "leaving", "done"}]
    /\ id \in [Calls -> Ids \cup {NoId}]
    /\ \A c \in Calls : wait[c] = "new" => id[c] = NoId
    /\ \A c \in Calls : wait[c] # "new" => id[c] \in Ids
    /\ reg \in [Ids -> Calls \cup {NoCall}]
    /\ DOMAIN out = Calls /\ DOMAIN chan = Calls /\ DOMAIN first = Calls /\ DOMAIN meant = Calls
    /\ \A u \in Users : user[u].pc # "idle" => user[u].c \in Calls /\ user[u].v \in Verdicts
    /\ user \in [Users -> [pc: {"idle", "note", "lookup", "send"}, c: Calls \cup {NoCall},
                           v: Verdicts \cup {"none"}, to: Calls \cup {NoCall}]]

\* The first part of FirstVerdict; Sourced gives the second.
Decided == \A c \in Calls : out[c] \in Verdicts => out[c] = first[c]

Inv == Shape /\ Registered /\ Holding /\ Sourced /\ Decided

\* Inv holds initially.
LEMMA InitInv == Init => Inv
<1> SUFFICES ASSUME Init PROVE Inv
  OBVIOUS
<1>1. Shape
  BY DEF Init, Shape, NoUser
<1>2. Registered /\ Holding /\ Sourced
  BY DEF Init, Registered, Holding, Sourced, NoUser
<1>3. Decided
  BY ApprovalsAssumption DEF Init, Decided
<1> QED BY <1>1, <1>2, <1>3 DEF Inv

\* A step that leaves channels, verdicts and mutations alone, and gives only a
\* new call an id, preserves Sourced.
LEMMA SourcedKept ==
    ASSUME Shape, Sourced, UNCHANGED <<given, user>>,
           \A c \in Calls : id[c] \in Ids => id'[c] = id[c]
    PROVE  Sourced'
<1>1. UNCHANGED <<first, meant, user>>
  BY DEF given
<1>2. ASSUME NEW c \in Calls, first'[c] # "none"
      PROVE  id'[c] \in Ids /\ \E d \in Calls : id'[d] = id'[c] /\ first'[c] \in meant'[d]
  <2>1. id[c] \in Ids
    BY <1>1, <1>2 DEF Sourced
  <2>2. PICK d \in Calls : id[d] = id[c] /\ first[c] \in meant[d]
    BY <1>1, <1>2 DEF Sourced
  <2> QED BY <1>1, <2>1, <2>2
<1>3. ASSUME NEW u \in Users, user'[u].pc # "idle"
      PROVE  user'[u].v \in meant'[user'[u].c] /\ id'[user'[u].c] \in Ids
  BY <1>1, <1>3 DEF Sourced, Shape
<1>4. ASSUME NEW u \in Users, user'[u].pc = "send"
      PROVE  user'[u].to \in Calls /\ id'[user'[u].to] = id'[user'[u].c]
  <2>1. /\ user[u].to \in Calls /\ user[u].c \in Calls
        /\ id[user[u].to] = id[user[u].c] /\ id[user[u].c] \in Ids
    BY <1>1, <1>4 DEF Sourced, Shape
  <2> QED BY <1>1, <2>1
<1> QED BY <1>2, <1>3, <1>4 DEF Sourced

\* The announcement of a wait preserves Inv.
LEMMA PublishInv ==
    ASSUME Inv, NEW c \in Calls, NEW i \in Ids, Publish(c, i) PROVE Inv'
<1> USE DEF Inv
<1>1. Shape'
  BY ApprovalsAssumption DEF Publish, given, Shape
<1>2. Registered'
  BY ApprovalsAssumption DEF Publish, Shape, Registered, Unshared
<1>3. Holding' /\ Decided'
  BY DEF Publish, given, Shape, Holding, Decided
<1>4. Sourced'
  BY SourcedKept, ApprovalsAssumption DEF Publish, Shape
<1> QED BY <1>1, <1>2, <1>3, <1>4

\* A step of a waiting call preserves Inv.
LEMMA WaiterInv ==
    ASSUME Inv, NEW c \in Calls, Waiter(c) \/ CancelTurn(c) PROVE Inv'
<1> USE DEF Inv
<1>0. Sourced'
  BY SourcedKept DEF Waiter, Select, RegisterApproval, Receive, CtxDone, TimerDone, End,
                     Unregister, CancelTurn
<1>1. CASE RegisterApproval(c)
  <2>1. id[c] \in Ids
    BY <1>1 DEF RegisterApproval, Shape
  <2>2. Shape'
    BY <1>1, <2>1 DEF RegisterApproval, given, Shape
  <2>3. Registered'
    BY <1>1, <2>1 DEF RegisterApproval, given, Shape, Registered, Unshared
  <2> QED BY <1>0, <1>1, <2>2, <2>3 DEF RegisterApproval, given, Shape, Holding, Decided
<1>2. CASE Receive(c)
  <2>1. wait[c] = "waiting" /\ chan[c] # << >>
    BY <1>2 DEF Receive, End
  <2>2. Head(chan[c]) = first[c]
    <3>1. chan[c] = <<first[c]>>
      BY <2>1 DEF Holding
    <3> QED BY <3>1
  <2>3. Shape' /\ Registered'
    BY <1>2 DEF Receive, End, given, Shape, Registered, Unshared
  <2>4. Holding'
    BY <1>2 DEF Receive, End, given, Shape, Holding
  <2>5. Decided'
    BY <1>2, <2>2 DEF Receive, End, given, Shape, Decided
  <2> QED BY <1>0, <2>3, <2>4, <2>5
<1>3. CASE CtxDone(c)
  BY <1>0, <1>3, ApprovalsAssumption DEF CtxDone, End, given, Shape, Registered, Unshared, Holding, Decided
<1>4. CASE TimerDone(c)
  BY <1>0, <1>4, ApprovalsAssumption DEF TimerDone, End, given, Shape, Registered, Unshared, Holding, Decided
<1>5. CASE Unregister(c)
  <2>1. id[c] \in Ids
    BY <1>5 DEF Unregister, Shape
  <2>2. Shape'
    BY <1>5, <2>1 DEF Unregister, given, Shape
  <2>3. Registered'
    BY <1>5, <2>1 DEF Unregister, given, Shape, Registered, Unshared
  <2> QED BY <1>0, <1>5, <2>2, <2>3 DEF Unregister, given, Shape, Holding, Decided
<1>6. CASE CancelTurn(c)
  BY <1>0, <1>6 DEF CancelTurn, given, Shape, Registered, Unshared, Holding, Decided
<1> QED BY <1>1, <1>2, <1>3, <1>4, <1>5, <1>6 DEF Waiter, Select

\* The beginning of a mutation preserves Inv.
LEMMA AnswerInv ==
    ASSUME Inv, NEW u \in Users, NEW c \in Calls, NEW v \in Verdicts, NEW reason,
           Answer(u, c, v, reason)
    PROVE  Inv'
<1>1. UNCHANGED <<wait, out, id, reg, chan, first>>
  BY DEF Answer, waiter
<1>2. id[c] \in Ids
  BY DEF Answer, Inv, Shape
<1>3. meant' = [meant EXCEPT ![c] = @ \cup {v}]
  BY DEF Answer
<1>4. PICK pc \in {"note", "lookup"} :
        user' = [user EXCEPT ![u] = [pc |-> pc, c |-> c, v |-> v, to |-> NoCall]]
  BY DEF Answer
<1>5. Shape'
  BY <1>1, <1>3, <1>4 DEF Inv, Shape
<1>6. Sourced'
  <2>1. \A d \in Calls : meant[d] \subseteq meant'[d]
    BY <1>3 DEF Inv, Shape
  <2>2. ASSUME NEW d \in Calls, first'[d] # "none"
        PROVE  id'[d] \in Ids /\ \E e \in Calls : id'[e] = id'[d] /\ first'[d] \in meant'[e]
    BY <1>1, <2>1, <2>2 DEF Inv, Sourced
  <2>3. ASSUME NEW w \in Users, user'[w].pc # "idle"
        PROVE  /\ user'[w].v \in meant'[user'[w].c] /\ id'[user'[w].c] \in Ids
               /\ user'[w].pc = "send" => user'[w].to \in Calls /\ id'[user'[w].to] = id'[user'[w].c]
    <3>1. CASE w = u
      BY <1>1, <1>2, <1>3, <1>4, <3>1 DEF Inv, Shape
    <3>2. CASE w # u
      <4>1. user'[w] = user[w]
        BY <1>4, <3>2 DEF Inv, Shape
      <4> QED BY <1>1, <2>1, <2>3, <4>1 DEF Inv, Shape, Sourced
    <3> QED BY <3>1, <3>2
  <2> QED BY <2>2, <2>3 DEF Sourced
<1> QED BY <1>1, <1>5, <1>6 DEF Inv, Registered, Unshared, Holding, Decided

\* A step of a mutation preserves Inv.
LEMMA MutationInv ==
    ASSUME Inv, NEW u \in Users, Mutation(u) PROVE Inv'
<1>1. CASE StoreNote(u)
  <2>1. UNCHANGED <<wait, out, id, reg, chan, first, meant>>
    BY <1>1 DEF StoreNote, waiter, given
  <2>2. Shape' /\ Sourced'
    BY SMTT(20), <1>1, <2>1 DEF StoreNote, Goto, At, NoUser, Inv, Shape, Sourced
  <2> QED BY <2>1, <2>2 DEF Inv, Registered, Unshared, Holding, Decided
<1>2. CASE Lookup(u)
  <2> DEFINE d == reg[id[user[u].c]]
  <2>1. UNCHANGED <<wait, out, id, reg, chan, first, meant>>
    BY <1>2 DEF Lookup, waiter, given
  <2>2. user[u].pc = "lookup" /\ user[u].c \in Calls /\ id[user[u].c] \in Ids
    BY <1>2 DEF Lookup, At, Inv, Shape, Sourced
  <2>3. d \in Calls \cup {NoCall} /\ (d # NoCall => id[d] = id[user[u].c])
    BY <2>2 DEF Inv, Shape, Registered
  <2>4. user' = [user EXCEPT ![u] = IF d = NoCall THEN NoUser ELSE [pc |-> "send", c |-> @.c, v |-> @.v, to |-> d]]
    BY <1>2 DEF Lookup
  <2>5. Shape'
    <3>1. CASE d = NoCall
      BY <2>1, <2>4, <3>1 DEF NoUser, Inv, Shape
    <3>2. CASE d # NoCall
      BY <2>1, <2>2, <2>3, <2>4, <3>2 DEF Inv, Shape
    <3> QED BY <3>1, <3>2
  <2>6. Sourced'
    BY <2>1, <2>2, <2>3, <2>4 DEF NoUser, Inv, Shape, Sourced
  <2> QED BY <2>1, <2>5, <2>6 DEF Inv, Registered, Unshared, Holding, Decided
<1>3. CASE Send(u)
  <2> DEFINE c == user[u].to
  <2>1. /\ c \in Calls /\ user[u].c \in Calls /\ user[u].v \in Verdicts /\ chan[c] = << >>
        /\ id[c] = id[user[u].c] /\ id[c] \in Ids /\ user[u].v \in meant[user[u].c]
    BY <1>3 DEF Send, At, Inv, Shape, Sourced
  <2>2. /\ UNCHANGED <<wait, out, id, reg, meant>>
        /\ chan' = [chan EXCEPT ![c] = <<user[u].v>>]
        /\ first' = [first EXCEPT ![c] = IF @ = "none" THEN user[u].v ELSE @]
        /\ user' = [user EXCEPT ![u] = NoUser]
    BY <1>3 DEF Send, waiter
  <2>3. Shape'
    BY <2>1, <2>2 DEF Inv, Shape, NoUser
  <2>4. Holding'
    <3> SUFFICES ASSUME NEW d \in Calls, wait[d] \in {"new", "pending", "waiting"}
                 PROVE  /\ out[d] = "none"
                        /\ \/ chan'[d] = << >> /\ first'[d] = "none"
                           \/ chan'[d] = <<first'[d]>> /\ first'[d] \in Verdicts
      BY <2>2 DEF Holding
    <3>1. CASE d = c
      BY <3>1, <2>1, <2>2 DEF Inv, Shape, Holding
    <3>2. CASE d # c
      BY <3>2, <2>1, <2>2 DEF Inv, Shape, Holding
    <3> QED BY <3>1, <3>2
  <2>5. Decided'
    <3> SUFFICES ASSUME NEW d \in Calls, out[d] \in Verdicts PROVE out[d] = first'[d]
      BY <2>2 DEF Decided
    <3>1. out[d] = first[d] /\ first[d] # "none"
      BY ApprovalsAssumption DEF Inv, Decided
    <3> QED BY <3>1, <2>1, <2>2 DEF Inv, Shape
  <2>6. Registered'
    BY <2>2 DEF Inv, Registered, Unshared
  <2>7. Sourced'
    <3>1. ASSUME NEW d \in Calls, first'[d] # "none"
          PROVE  id'[d] \in Ids /\ \E e \in Calls : id'[e] = id'[d] /\ first'[d] \in meant'[e]
      <4>1. CASE d = c /\ first[c] = "none"
        BY <4>1, <2>1, <2>2 DEF Inv, Shape
      <4>2. CASE ~(d = c /\ first[c] = "none")
        <5>1. first'[d] = first[d]
          BY <4>2, <2>1, <2>2 DEF Inv, Shape
        <5> QED BY <5>1, <3>1, <2>2 DEF Inv, Sourced
      <4> QED BY <4>1, <4>2
    <3>2. ASSUME NEW w \in Users, user'[w].pc # "idle" PROVE user'[w] = user[w]
      BY <2>2, <3>2 DEF Inv, Shape, NoUser
    <3> QED BY <3>1, <3>2, <2>2 DEF Inv, Sourced
  <2> QED BY <2>3, <2>4, <2>5, <2>6, <2>7 DEF Inv
<1> QED BY <1>1, <1>2, <1>3 DEF Mutation

\* Inv is inductive.
LEMMA StepInv == Inv /\ [Next]_vars => Inv'
<1> SUFFICES ASSUME Inv, [Next]_vars PROVE Inv'
  OBVIOUS
<1>1. CASE UNCHANGED vars
  BY <1>1 DEF vars, waiter, given, Inv, Shape, Registered, Unshared, Holding, Sourced, Decided
<1>2. CASE Next
  BY <1>2, PublishInv, WaiterInv, AnswerInv, MutationInv DEF Next
<1> QED BY <1>1, <1>2

\* Inv holds in every reachable state.
LEMMA Invariant == Spec => []Inv
BY InitInv, StepInv, PTL DEF Spec

\* The outcome of a wait is the verdict its channel took first, and a verdict
\* given for this call while its id is its own.
THEOREM FirstVerdictHolds == Spec => []FirstVerdict
<1>1. Inv => FirstVerdict
  <2> SUFFICES ASSUME Inv, NEW c \in Calls, out[c] \in Verdicts
               PROVE  out[c] = first[c] /\ (Unshared(c) => out[c] \in meant[c])
    BY DEF FirstVerdict
  <2>1. out[c] = first[c] /\ first[c] # "none"
    BY ApprovalsAssumption DEF Inv, Decided
  <2>2. PICK d \in Calls : id[d] = id[c] /\ first[c] \in meant[d]
    BY <2>1 DEF Inv, Sourced
  <2> QED BY <2>1, <2>2 DEF Unshared
<1> QED BY <1>1, Invariant, PTL

\* A call waiting under an id of its own is registered, and no channel outlives
\* its wait.
THEOREM RegisteredHolds == Spec => []Registered
BY Invariant, PTL DEF Inv
-----------------------------------------------------------------------------
(* The tools, and the approvals they wait for.                             *)

\* A call has done the stage s of its tool.
Past(c, s) == \E i \in 1 .. stage[c] : Stages(job[c].tool)[i] = s

GateFields == {"hook", "guard", "mode", "at", "wrote"}

\* Where each call is in the stages of its tool.
Progress ==
    /\ script \in Scripts
    /\ stage \in [Calls -> Nat] /\ res \in [Calls -> {"none", "running", "ok", "error"}]
    /\ \A c \in Calls :
          /\ res[c] = "none" => stage[c] = 0
          /\ res[c] # "none" => job[c].tool \in Tools
          /\ res[c] \in {"running", "error"} => stage[c] < Len(Stages(job[c].tool))
          /\ res[c] = "ok" => stage[c] = Len(Stages(job[c].tool))

\* The shape of what the calls work on.
Frame ==
    /\ DOMAIN file = Calls /\ DOMAIN buf = Calls /\ DOMAIN ret = Calls /\ DOMAIN kept = Calls
    /\ DOMAIN gates = Calls /\ \A c \in Calls : DOMAIN gates[c] = GateFields
    /\ mode \in [Threads -> {"normal", "plan"}] /\ switches \in [Threads -> Nat]
    /\ callSeq \in [Threads -> Nat] /\ taskSeq \in [Threads -> Nat]

Calling == Progress /\ Frame

\* An approval is numbered once for every call that was announced.
Numbered == \A t \in Threads : callSeq[t] <= Cardinality({d \in Calls : wait[d] # "new"})

Within(c, f) == job[c].thread \in Sandboxed => IsPrefix(Workspace[job[c].thread], f)
Permitted(c) ==
    \/ Permission(c) = "allow"
    \/ Permission(c) = "ask" /\ wait[c] = "done" /\ out[c] = "approved"

\* What a call that did a stage has passed there.
Gating(c) ==
    /\ Past(c, "resolve") => file[c] # Nothing
    /\ file[c] # Nothing => Within(c, file[c])
    /\ Past(c, "hook") => gates[c].hook
    /\ wait[c] # "new" => Asks(c) \/ Permission(c) = "ask"
    /\ Past(c, "gate") => Permitted(c)
    /\ gates[c].wrote # Nothing =>
          (Past(c, "truncate") \/ Past(c, "exec")) /\ Within(c, gates[c].wrote)

InPlan(c) == file[c] # Nothing /\ InPlanDir(file[c])

\* As long as the mode has not changed since a call's guard read it, the call is
\* outside plan mode or writes to the plan directory.
Guarding(c) ==
    /\ gates[c].guard \in Nat /\ gates[c].guard <= switches[job[c].thread]
    /\ /\ Past(c, "guard") /\ gates[c].mode # "unread"
       /\ gates[c].guard = switches[job[c].thread] /\ mode[job[c].thread] = "plan"
       => InPlan(c)
    /\ gates[c].wrote # Nothing /\ gates[c].mode = "plan" /\ gates[c].at = gates[c].guard
       => InPlan(c)

\* An edit has read its file since its gate, or is about to.
Fresh(c) ==
    /\ Doing(c, "read") => kept[c] \subseteq Content(file[c])
    /\ Doing(c, "truncate") \/ Doing(c, "fill") => kept[c] \subseteq buf[c]

\* A question's answers are the user's, and a task's number is not yet given.
Answered(c) ==
    /\ wait[c] = "done" /\ DOMAIN ret[c] = Asked(c)
    /\ out[c] # "timeout" /\ Payload[out[c]].kind = "map" =>
          \A q \in Asked(c) \cap DOMAIN Payload[out[c]].map : ret[c][q] = Payload[out[c]].map[q]
Creates(c) == job[c].tool = "TaskCreate"
Results ==
    /\ \A c \in Calls : Asks(c) /\ res[c] = "ok" => Answered(c)
    /\ \A c \in Calls : Creates(c) /\ ret[c] # Nothing => ret[c] \in 1 .. taskSeq[job[c].thread]
    /\ \A c, d \in Calls : Creates(c) /\ Creates(d) /\ ret[c] # Nothing /\ ret[d] # Nothing
          /\ c # d /\ job[c].thread = job[d].thread => ret[c] # ret[d]

ToolInv ==
    /\ Inv /\ Calling /\ Numbered /\ Results
    /\ \A c \in Calls : Gating(c) /\ Guarding(c) /\ (Edits(c) => Fresh(c))
-----------------------------------------------------------------------------
(* The stages of the tools.                                                *)

\* The order of a tool's stages: a path is resolved first, the mode is read and
\* the approval waited for before a file is written, and an edit reads its file
\* between its approval and its write.
Ordered(tool) ==
    /\ Len(Stages(tool)) \in Nat \ {0}
    /\ \A i \in 1 .. Len(Stages(tool)) :
          /\ Stages(tool)[i] = "resolve" => i = 1
          /\ Stages(tool)[i] = "guard" =>
                \A j \in 1 .. i : Stages(tool)[j] \notin {"truncate", "exec"}
          /\ Stages(tool)[i] \in {"truncate", "exec"} =>
                \E j \in 1 .. i - 1 : Stages(tool)[j] = "guard"
          /\ Stages(tool)[i] \in {"read", "truncate"} =>
                \E j \in 1 .. i - 1 : Stages(tool)[j] = "resolve"
          /\ Stages(tool)[i] \in {"hook", "guard"} =>
                \A j \in 1 .. i - 1 : Stages(tool)[j] # Stages(tool)[i]
          /\ Stages(tool)[i] = "ask" => tool = "AskUserQuestion" /\ i = Len(Stages(tool))
          /\ Stages(tool)[i] = "number" => tool = "TaskCreate"
          /\ Stages(tool)[i] = "exec" => tool = "Bash"
          /\ Stages(tool)[i] = "gate" => tool \in Gated
    /\ tool \in {"FileEdit", "NotebookEdit"} =>
          \A i \in 1 .. Len(Stages(tool)) :
             /\ Stages(tool)[i] = "read" => i - 1 \in Nat \ {0} /\ Stages(tool)[i - 1] = "gate"
             /\ Stages(tool)[i] = "truncate" => i - 1 \in Nat \ {0} /\ Stages(tool)[i - 1] = "read"
             /\ Stages(tool)[i] = "fill" => i - 1 \in Nat \ {0} /\ Stages(tool)[i - 1] = "truncate"
    /\ tool \in {"FileEdit", "FileWrite", "NotebookEdit", "Bash"} =>
          /\ \A i \in 1 .. Len(Stages(tool)) :
                Stages(tool)[i] \in {"fill", "post"} => i = Len(Stages(tool))
          /\ \E j \in 1 .. Len(Stages(tool)) - 1 : Stages(tool)[j] = "gate"
          /\ tool # "NotebookEdit" =>
                \E j \in 1 .. Len(Stages(tool)) - 1 : Stages(tool)[j] = "hook"

LEMMA Table == \A tool \in Tools : Ordered(tool)
  <1>1. Ordered("FileEdit")  BY DEF Ordered, Stages, FileEdit, Gated
  <1>2. Ordered("FileWrite")  BY DEF Ordered, Stages, FileWrite, Gated
  <1>3. Ordered("NotebookEdit")  BY DEF Ordered, Stages, NotebookEdit, Gated
  <1>4. Ordered("Bash")  BY DEF Ordered, Stages, Bash, Gated
  <1>5. Ordered("FileRead")  BY DEF Ordered, Stages, FileRead
  <1>6. Ordered("EnterPlanMode")  BY DEF Ordered, Stages, EnterPlanMode, Gated
  <1>7. Ordered("ExitPlanMode")  BY DEF Ordered, Stages, ExitPlanMode, Gated
  <1>8. Ordered("Skill")  BY DEF Ordered, Stages, Skill, Gated
  <1>9. Ordered("AskUserQuestion")  BY DEF Ordered, Stages, AskUserQuestion
  <1>10. Ordered("TaskCreate")  BY DEF Ordered, Stages, TaskCreate
  <1>11. Ordered("TaskUpdate")  BY DEF Ordered, Stages, TaskUpdate
  <1>12. Ordered("TaskStop")  BY DEF Ordered, Stages, TaskStop
  <1> QED
    BY <1>1, <1>2, <1>3, <1>4, <1>5, <1>6, <1>7, <1>8, <1>9, <1>10, <1>11, <1>12 DEF Tools, Gated
-----------------------------------------------------------------------------
(* A step of a call moves that call.                                       *)

\* The call goes through stage s, or fails in it.
Moved(c, s) == Doing(c, s) /\ (Advance(c) \/ Fail(c)) /\ UNCHANGED script

\* A call in a stage is the call of a tool, and the stage one of the tool's.
LEMMA InStage ==
    ASSUME Calling, NEW c \in Calls, NEW s, Doing(c, s)
    PROVE  /\ job[c].tool \in Tools /\ Ordered(job[c].tool) /\ stage[c] \in Nat
           /\ res[c] = "running" /\ stage[c] + 1 \in 1 .. Len(Stages(job[c].tool))
           /\ Stages(job[c].tool)[stage[c] + 1] = s
  <1>1. job[c].tool \in Tools /\ stage[c] \in Nat /\ res[c] = "running"
    BY DEF Calling, Progress, Doing
  <1>2. Ordered(job[c].tool) /\ Len(Stages(job[c].tool)) \in Nat
    BY <1>1, Table DEF Ordered
  <1> QED BY <1>1, <1>2 DEF Doing

\* What a moved call, and every other call, has passed after the step.
LEMMA PastNext ==
    ASSUME Calling, NEW c \in Calls, NEW s, Moved(c, s)
    PROVE  /\ \A z : \A d \in Calls : (Past(d, z) => Past(d, z)')
           /\ \A z : \A d \in Calls : (Past(d, z)' => Past(d, z) \/ (d = c /\ z = s /\ Advance(c)))
           /\ \A d \in Calls : d # c => stage'[d] = stage[d] /\ res'[d] = res[d]
  <1>1. stage \in [Calls -> Nat] /\ res \in [Calls -> {"none", "running", "ok", "error"}]
    BY DEF Calling, Progress
  <1>2. UNCHANGED script  BY DEF Moved
  <1>3. Stages(job[c].tool)[stage[c] + 1] = s  BY InStage DEF Moved
  <1>4. CASE Fail(c)
    BY <1>1, <1>2, <1>4 DEF Fail, Past, job
  <1>5. CASE Advance(c)
    <2>1. stage' = [stage EXCEPT ![c] = stage[c] + 1]  BY <1>5 DEF Advance
    <2>2. \A d \in Calls : d # c => stage'[d] = stage[d] /\ res'[d] = res[d]
      BY <1>1, <1>5 DEF Advance
    <2>3. \A d \in Calls : \A i \in 1 .. stage'[d] :
             i \in 1 .. stage[d] \/ (d = c /\ i = stage[c] + 1)
      BY <1>1, <2>1
    <2>4. \A d \in Calls : \A i \in 1 .. stage[d] : i \in 1 .. stage'[d]
      BY <1>1, <2>1
    <2>5. \A z : \A d \in Calls : Past(d, z) => Past(d, z)'
      BY <1>2, <2>4 DEF Past, job
    <2>6. \A z : \A d \in Calls : (Past(d, z)' => Past(d, z) \/ (d = c /\ z = s))
      BY <1>2, <1>3, <2>3 DEF Past, job
    <2> QED BY <1>5, <2>2, <2>5, <2>6
  <1> QED BY <1>4, <1>5 DEF Moved
-----------------------------------------------------------------------------
(* The approvals of the tools are those of Approvals.                      *)

\* What a job says of its call.
LEMMA JobType ==
    ASSUME Calling, NEW c \in Calls
    PROVE  /\ job[c].tool \in Tools \cup {"none"} /\ job[c].thread \in Threads
           /\ job[c].perm \in {"default", "allow", "ask", "deny"}
           /\ Workspace[job[c].thread] \in Seq(STRING)
  BY ToolAssumption DEF Calling, Progress, job

\* Calls that were announced, before and after another one.
Announced == {d \in Calls : wait[d] # "new"}

LEMMA AnnouncedSize ==
    /\ IsFiniteSet(Announced) /\ Cardinality(Announced) \in Nat
    /\ Cardinality(Calls) \in Nat
    /\ \A c \in Calls : c \notin Announced =>
          /\ Cardinality(Announced \cup {c}) = Cardinality(Announced) + 1
          /\ Cardinality(Announced) + 1 <= Cardinality(Calls)
  <1>1. IsFiniteSet(Calls) /\ Announced \subseteq Calls  BY ToolAssumption DEF Announced
  <1>2. IsFiniteSet(Announced)  BY <1>1, FS_Subset
  <1>3. Cardinality(Announced) \in Nat /\ Cardinality(Calls) \in Nat
    BY <1>1, <1>2, FS_CardinalityType
  <1>4. ASSUME NEW c \in Calls, c \notin Announced
        PROVE  /\ Cardinality(Announced \cup {c}) = Cardinality(Announced) + 1
               /\ Cardinality(Announced) + 1 <= Cardinality(Calls)
    <2>1. IsFiniteSet(Announced \cup {c}) /\ Cardinality(Announced \cup {c}) = Cardinality(Announced) + 1
      BY <1>2, <1>4, FS_AddElement
    <2>2. Announced \cup {c} \subseteq Calls  BY <1>1, <1>4
    <2>3. Cardinality(Announced \cup {c}) <= Cardinality(Calls)  BY <1>1, <2>2, FS_Subset
    <2> QED BY <2>1, <2>3
  <1> QED BY <1>2, <1>3, <1>4

\* An approval is numbered below the number of calls.
LEMMA AskId ==
    ASSUME Calling, Numbered, NEW c \in Calls, AskApproval(c)
    PROVE  /\ \E i \in Ids : Publish(c, i)
           /\ callSeq' = [callSeq EXCEPT ![job[c].thread] = @ + 1]
  <1> DEFINE t == job[c].thread  n == callSeq[t] + 1
  <1>1. t \in Threads /\ callSeq \in [Threads -> Nat]  BY JobType DEF Calling, Frame
  <1>2. wait[c] = "new" /\ callSeq' = [callSeq EXCEPT ![t] = @ + 1]
        /\ Publish(c, <<job[c].tool, callSeq'[t]>>)
    BY DEF AskApproval, Publish
  <1>3. callSeq'[t] = n  BY <1>1, <1>2
  <1>4. n \in 1 .. Cardinality(Calls)
    <2>1. callSeq[t] <= Cardinality(Announced)  BY <1>1 DEF Numbered, Announced
    <2>2. c \notin Announced  BY <1>2 DEF Announced
    <2>3. /\ Cardinality(Announced) \in Nat /\ Cardinality(Calls) \in Nat
          /\ Cardinality(Announced) + 1 <= Cardinality(Calls)
      BY <2>2, AnnouncedSize
    <2>4. callSeq[t] \in Nat  BY <1>1
    <2> QED BY <2>1, <2>3, <2>4
  <1>5. job[c].tool \in Gated  BY InStage DEF AskApproval, Ordered
  <1>6. <<job[c].tool, n>> \in Ids  BY <1>4, <1>5, ToolAssumption
  <1> QED BY <1>2, <1>3, <1>6

\* Every step of the tools and their users is a step of Approvals, or none.
LEMMA ToolProtocol ==
    ASSUME Calling, Numbered, [ToolNext]_allVars
    PROVE  [Next]_vars
  <1>1. CASE UNCHANGED allVars
    BY <1>1 DEF allVars
  <1>2. ASSUME NEW c \in Calls, CallStep(c) PROVE [Next]_vars
    <2>1. CASE AskApproval(c)
      <3>1. \E i \in Ids : Publish(c, i)  BY <2>1, AskId
      <3> QED BY <3>1 DEF Next
    <2>2. CASE AskUser(c)
      <3>1. Publish(c, <<"ask", c>>) /\ <<"ask", c>> \in Ids
        BY <2>2, ToolAssumption DEF AskUser
      <3> QED BY <3>1 DEF Next
    <2>3. CASE Waits(c)
      BY <2>3 DEF Waits, Next
    <2>4. CASE Start(c) \/ Resolve(c) \/ planGuard(c) \/ FireHook(c) \/ PostHook(c)
      BY <2>4 DEF Start, Resolve, planGuard, FireHook, PostHook
    <2>5. CASE CheckPermission(c) \/ Resolved(c) \/ ValidateAsk(c) \/ Replied(c) \/ Read(c)
      BY <2>5 DEF CheckPermission, Resolved, ValidateAsk, Replied, Read
    <2>6. CASE Truncate(c) \/ Fill(c) \/ Exec(c) \/ EnterPlan(c) \/ Look(c)
      BY <2>6 DEF Truncate, Fill, Exec, EnterPlan, Look
    <2>7. CASE NumberTask(c) \/ CreateTask(c) \/ UpdateTask(c)
      BY <2>7 DEF NumberTask, CreateTask, UpdateTask
    <2> QED BY <1>2, <2>1, <2>2, <2>3, <2>4, <2>5, <2>6, <2>7 DEF CallStep
  <1>3. ASSUME NEW c \in script.cancels, CancelTurn(c) PROVE [Next]_vars
    <2>1. c \in Calls  BY <1>3, ToolAssumption DEF Calling, Progress
    <2> QED BY <1>3, <2>1 DEF Next
  <1>4. ASSUME NEW u \in Users, NEW c \in Calls, NEW v \in Verdicts, NEW reason \in {FALSE, Reasons},
               Reply(u, c, v, reason)
        PROVE  [Next]_vars
    <2>1. Answer(u, c, v, reason)  BY <1>4 DEF Reply
    <2> QED BY <2>1 DEF Next
  <1>5. ASSUME NEW u \in Users, Mutation(u) PROVE [Next]_vars
    BY <1>5 DEF Next
  <1>6. ASSUME NEW t, NEW m, ModeMutation(t, m) PROVE [Next]_vars
    BY <1>6 DEF ModeMutation
  <1> QED BY <1>1, <1>2, <1>3, <1>4, <1>5, <1>6 DEF ToolNext

\* How a wait ended stays, and a wait that was announced is never new again.
LEMMA WaitEnds ==
    ASSUME Shape, [Next]_vars, NEW c \in Calls
    PROVE  /\ wait[c] = "done" => wait'[c] = "done" /\ out'[c] = out[c]
           /\ wait[c] # "new" => wait'[c] # "new"
  <1> USE DEF Shape
  <1> DEFINE Goal == /\ wait[c] = "done" => wait'[c] = "done" /\ out'[c] = out[c]
                     /\ wait[c] # "new" => wait'[c] # "new"
  <1>1. ASSUME NEW d \in Calls, NEW i \in Ids, Publish(d, i) PROVE Goal
    BY <1>1 DEF Publish
  <1>2. ASSUME NEW d \in Calls, Waiter(d) PROVE Goal
    BY <1>2 DEF Waiter, RegisterApproval, Select, Receive, CtxDone, TimerDone, End, Unregister
  <1>3. CASE UNCHANGED <<wait, out>>  BY <1>3
  <1>4. ASSUME NEW d \in Calls, CancelTurn(d) PROVE UNCHANGED <<wait, out>>
    BY <1>4 DEF CancelTurn
  <1>5. ASSUME NEW u, NEW d, NEW v, NEW reason, Answer(u, d, v, reason) PROVE UNCHANGED <<wait, out>>
    BY <1>5 DEF Answer, waiter
  <1>6. ASSUME NEW u \in Users, Mutation(u) PROVE UNCHANGED <<wait, out>>
    BY <1>6 DEF Mutation, StoreNote, Lookup, Send, waiter
  <1>7. UNCHANGED vars => UNCHANGED <<wait, out>>  BY DEF vars, waiter
  <1> HIDE DEF Shape
  <1> QED BY <1>1, <1>2, <1>3, <1>4, <1>5, <1>6, <1>7 DEF Next

\* Who moves in a step, and through which stage.
LEMMA Movers ==
    ASSUME NEW c \in Calls, CallStep(c)
    PROVE  \/ \E s : Moved(c, s)
           \/ Start(c)
           \/ AskApproval(c) \/ AskUser(c) \/ Waits(c)
  <1>1. CASE Resolve(c) \/ planGuard(c) \/ FireHook(c) \/ PostHook(c) \/ CheckPermission(c)
    BY <1>1 DEF Resolve, planGuard, FireHook, PostHook, CheckPermission, Passed, Moved
  <1>2. CASE Resolved(c) \/ ValidateAsk(c) \/ Replied(c) \/ Read(c) \/ Truncate(c) \/ Fill(c)
    BY <1>2 DEF Resolved, ValidateAsk, Replied, Read, Truncate, Fill, Passed, Moved
  <1>3. CASE Exec(c) \/ EnterPlan(c) \/ Look(c) \/ NumberTask(c) \/ CreateTask(c) \/ UpdateTask(c)
    BY <1>3 DEF Exec, EnterPlan, Look, NumberTask, CreateTask, UpdateTask, Moved
  <1> QED BY <1>1, <1>2, <1>3 DEF CallStep

\* Steps that are not a call's leave the calls and their files alone.
Outside ==
    \/ \E c \in script.cancels : res[c] = "running" /\ CancelTurn(c) /\ UNCHANGED <<jobs, state, hist>>
    \/ \E u \in Users, c \in Calls, v \in Verdicts, reason \in {FALSE, Reasons} : Reply(u, c, v, reason)
    \/ \E u \in Users : Mutation(u) /\ UNCHANGED <<jobs, state, hist>>
    \/ \E t \in {job[c].thread : c \in Calls}, m \in {"normal", "plan"} : ModeMutation(t, m)
    \/ UNCHANGED allVars
    \/ \E c \in Calls : AskUser(c) \/ Waits(c)

LEMMA OutsideSteady ==
    ASSUME Outside
    PROVE  /\ UNCHANGED <<script, stage, res, file, buf, ret, disk, callSeq, tasks, taskSeq, gates, kept>>
           /\ \/ UNCHANGED <<mode, switches>>
              \/ \E c \in Calls, m \in {"normal", "plan"} : SetMode(job[c].thread, m)
  BY DEF Outside, Reply, ModeMutation, AskUser, Waits, jobs, state, hist, allVars

LEMMA Steps ==
    ASSUME [ToolNext]_allVars
    PROVE  Outside \/ \E c \in Calls :
              \/ Start(c) \/ Resolve(c) \/ planGuard(c) \/ FireHook(c) \/ PostHook(c)
              \/ CheckPermission(c) \/ AskApproval(c) \/ Resolved(c) \/ ValidateAsk(c) \/ Replied(c)
              \/ Read(c) \/ Truncate(c) \/ Fill(c) \/ Exec(c) \/ EnterPlan(c) \/ Look(c)
              \/ NumberTask(c) \/ CreateTask(c) \/ UpdateTask(c)
  BY DEF ToolNext, CallStep, Outside

LEMMA NumberedStep ==
    ASSUME Shape, Calling, Numbered, [ToolNext]_allVars
    PROVE  Numbered'
  <1>0. [Next]_vars  BY ToolProtocol
  <1>1. Announced \subseteq Announced'
    BY <1>0, WaitEnds DEF Announced
  <1>2. Announced' \subseteq Calls /\ IsFiniteSet(Announced')
    <2>1. Announced' \subseteq Calls  BY DEF Announced
    <2> QED BY <2>1, ToolAssumption, FS_Subset
  <1>3. Cardinality(Announced) <= Cardinality(Announced') /\ Cardinality(Announced) \in Nat
        /\ Cardinality(Announced') \in Nat
    BY <1>1, <1>2, AnnouncedSize, FS_Subset, FS_CardinalityType
  <1>4. callSeq \in [Threads -> Nat] /\ \A t \in Threads : callSeq[t] <= Cardinality(Announced)
    BY DEF Calling, Frame, Numbered, Announced
  <1>5. CASE UNCHANGED callSeq
    BY <1>3, <1>4, <1>5 DEF Numbered, Announced
  <1>6. ASSUME NEW c \in Calls, AskApproval(c) PROVE Numbered'
    <2>1. callSeq' = [callSeq EXCEPT ![job[c].thread] = @ + 1]  BY <1>6, AskId
    <2>2. c \notin Announced /\ c \in Announced'
      BY <1>6 DEF AskApproval, Publish, Announced, Shape
    <2>3. Cardinality(Announced) + 1 <= Cardinality(Announced')
      <3>1. Cardinality(Announced \cup {c}) = Cardinality(Announced) + 1  BY <2>2, AnnouncedSize
      <3>2. Announced \cup {c} \subseteq Announced'  BY <1>1, <2>2
      <3> QED BY <1>2, <3>1, <3>2, FS_Subset
    <2>4. \A t \in Threads : callSeq'[t] <= Cardinality(Announced')
      BY <1>3, <1>4, <2>1, <2>3
    <2> QED BY <2>4 DEF Numbered, Announced
  <1>7. CASE Outside  BY <1>5, <1>7, OutsideSteady
  <1>8. ASSUME NEW c \in Calls, CallStep(c), ~AskApproval(c) PROVE UNCHANGED callSeq
    BY <1>8 DEF CallStep, Start, Resolve, planGuard, FireHook, PostHook, CheckPermission, Resolved,
       ValidateAsk, AskUser, Replied, Read, Truncate, Fill, Exec, EnterPlan, Look, NumberTask,
       CreateTask, UpdateTask, Waits, state
  <1> QED BY <1>5, <1>6, <1>7, <1>8 DEF ToolNext, Outside
-----------------------------------------------------------------------------
(* Calls go through the stages of their tools.                             *)

LEMMA MovedProgress ==
    ASSUME Calling, NEW c \in Calls, NEW s, Moved(c, s)
    PROVE  Progress'
  <1>1. /\ script \in Scripts /\ stage \in [Calls -> Nat]
        /\ res \in [Calls -> {"none", "running", "ok", "error"}]
    BY DEF Calling, Progress
  <1>2. UNCHANGED script /\ job' = job  BY DEF Moved, job
  <1>3. job[c].tool \in Tools /\ res[c] = "running" /\ stage[c] + 1 <= Len(Stages(job[c].tool))
        /\ Len(Stages(job[c].tool)) \in Nat
    BY InStage DEF Moved, Ordered
  <1>4. \A d \in Calls : d # c => stage'[d] = stage[d] /\ res'[d] = res[d]  BY PastNext
  <1>5. CASE Fail(c)
    <2>1. stage' = stage /\ res'[c] = "error" /\ res' \in [Calls -> {"none", "running", "ok", "error"}]
      BY <1>1, <1>5 DEF Fail
    <2>2. stage[c] < Len(Stages(job[c].tool))  BY <1>1, <1>3
    <2> QED BY <1>1, <1>2, <1>3, <1>4, <2>1, <2>2 DEF Calling, Progress
  <1>6. CASE Advance(c)
    <2>1. /\ stage'[c] = stage[c] + 1 /\ stage' \in [Calls -> Nat]
          /\ res'[c] = IF stage[c] + 1 = Len(Stages(job[c].tool)) THEN "ok" ELSE "running"
          /\ res' \in [Calls -> {"none", "running", "ok", "error"}]
      BY <1>1, <1>3, <1>6 DEF Advance
    <2>2. res'[c] = "running" => stage'[c] < Len(Stages(job[c].tool))  BY <1>1, <1>3, <2>1
    <2> QED BY <1>1, <1>2, <1>3, <1>4, <2>1, <2>2 DEF Calling, Progress
  <1> QED BY <1>5, <1>6 DEF Moved

LEMMA ProgressStep ==
    ASSUME Calling, [ToolNext]_allVars
    PROVE  Progress'
  <1>1. CASE UNCHANGED <<script, stage, res>>
    BY <1>1 DEF Calling, Progress, job
  <1>2. ASSUME NEW c \in Calls, Start(c) PROVE Progress'
    <2>1. /\ res[c] = "none" /\ job[c].tool # "none" /\ res' = [res EXCEPT ![c] = "running"]
          /\ UNCHANGED <<script, stage>> /\ job' = job
      BY <1>2 DEF Start, job
    <2>2. job[c].tool \in Tools  BY <2>1, JobType
    <2>3. stage[c] = 0 /\ Len(Stages(job[c].tool)) \in Nat \ {0}
      BY <2>1, <2>2, Table DEF Calling, Progress, Ordered
    <2>4. stage[c] < Len(Stages(job[c].tool))  BY <2>3
    <2> QED BY <2>1, <2>2, <2>4 DEF Calling, Progress
  <1>3. ASSUME NEW c \in Calls, CallStep(c) PROVE Progress'
    BY <1>1, <1>2, <1>3, Movers, MovedProgress DEF AskApproval, AskUser, Waits, jobs
  <1>4. CASE Outside  BY <1>1, <1>4, OutsideSteady
  <1> QED BY <1>3, <1>4 DEF ToolNext, Outside

\* The mode of a thread changes with the number of its changes.
LEMMA ModeSteady ==
    ASSUME Calling, NEW c \in Calls, NEW m \in {"normal", "plan"}, SetMode(job[c].thread, m)
    PROVE  /\ mode' \in [Threads -> {"normal", "plan"}] /\ switches' \in [Threads -> Nat]
           /\ \A t \in Threads :
                 /\ switches'[t] >= switches[t]
                 /\ switches'[t] = switches[t] => mode'[t] = mode[t]
  <1>1. job[c].thread \in Threads  BY JobType
  <1>2. mode \in [Threads -> {"normal", "plan"}] /\ switches \in [Threads -> Nat]
    BY DEF Calling, Frame
  <1> QED BY <1>1, <1>2 DEF SetMode

LEMMA FrameStep ==
    ASSUME Calling, [ToolNext]_allVars
    PROVE  Frame'
  <1>0. Frame  BY DEF Calling
  <1>1. CASE Outside
    <2>1. UNCHANGED <<file, buf, ret, callSeq, taskSeq, gates, kept>>  BY <1>1, OutsideSteady
    <2>2. mode' \in [Threads -> {"normal", "plan"}] /\ switches' \in [Threads -> Nat]
      BY <1>0, <1>1, OutsideSteady, ModeSteady DEF Frame
    <2> QED BY <1>0, <2>1, <2>2 DEF Frame
  <1>2. ASSUME NEW c \in Calls,
               Start(c) \/ PostHook(c) \/ ValidateAsk(c) \/ Look(c) \/ CreateTask(c) \/ UpdateTask(c)
        PROVE  Frame'
    <2>1. UNCHANGED <<file, buf, ret, mode, switches, callSeq, taskSeq, gates, kept>>
      BY <1>2 DEF Start, PostHook, ValidateAsk, Look, CreateTask, UpdateTask, state, hist
    <2> QED BY <1>0, <2>1 DEF Frame
  <1>3. ASSUME NEW c \in Calls, Resolve(c) \/ Read(c) \/ Replied(c) PROVE Frame'
    <2>1. /\ UNCHANGED <<mode, switches, callSeq, taskSeq, gates, kept>>
          /\ DOMAIN file' = Calls /\ DOMAIN buf' = Calls /\ DOMAIN ret' = Calls
      BY <1>0, <1>3 DEF Resolve, Read, Replied, state, hist, Frame
    <2> QED BY <1>0, <2>1 DEF Frame
  <1>4. ASSUME NEW c \in Calls, CheckPermission(c) \/ Resolved(c) PROVE Frame'
    <2>1. /\ UNCHANGED <<file, buf, ret, mode, switches, callSeq, taskSeq, gates>>
          /\ DOMAIN kept' = Calls
      BY <1>0, <1>4 DEF CheckPermission, Resolved, Passed, state, Frame
    <2> QED BY <1>0, <2>1 DEF Frame
  <1>5. ASSUME NEW c \in Calls, planGuard(c) \/ FireHook(c) PROVE Frame'
    <2>1. /\ UNCHANGED <<file, buf, ret, mode, switches, callSeq, taskSeq, kept>>
          /\ DOMAIN gates' = Calls /\ \A d \in Calls : DOMAIN gates'[d] = GateFields
      BY <1>0, <1>5 DEF planGuard, FireHook, state, Frame
    <2> QED BY <1>0, <2>1 DEF Frame
  <1>6. ASSUME NEW c \in Calls, Truncate(c) \/ Fill(c) \/ Exec(c) PROVE Frame'
    <2>1. /\ UNCHANGED <<file, buf, ret, mode, switches, callSeq, taskSeq>>
          /\ DOMAIN kept' = Calls
          /\ UNCHANGED gates \/ \E f : Effect(c, f)
      BY <1>0, <1>6 DEF Truncate, Fill, Exec, Put, hist, Frame
    <2>2. DOMAIN gates' = Calls /\ \A d \in Calls : DOMAIN gates'[d] = GateFields
      BY <1>0, <2>1 DEF Effect, Frame
    <2> QED BY <1>0, <2>1, <2>2 DEF Frame
  <1>7. ASSUME NEW c \in Calls, AskApproval(c) PROVE Frame'
    <2>1. job[c].thread \in Threads  BY JobType
    <2>2. /\ callSeq' = [callSeq EXCEPT ![job[c].thread] = @ + 1]
          /\ UNCHANGED <<file, buf, ret, mode, switches, taskSeq, gates, kept>>
      BY <1>7 DEF AskApproval, jobs, hist
    <2> QED BY <1>0, <2>1, <2>2 DEF Frame
  <1>8. ASSUME NEW c \in Calls, NumberTask(c) PROVE Frame'
    <2>1. job[c].thread \in Threads  BY JobType
    <2>2. /\ taskSeq' = [taskSeq EXCEPT ![job[c].thread] = @ + 1] /\ DOMAIN ret' = Calls
          /\ UNCHANGED <<file, buf, mode, switches, callSeq, gates, kept>>
      BY <1>0, <1>8 DEF NumberTask, hist, Frame
    <2> QED BY <1>0, <2>1, <2>2 DEF Frame
  <1>9. ASSUME NEW c \in Calls, EnterPlan(c) PROVE Frame'
    <2>1. UNCHANGED <<file, buf, ret, callSeq, taskSeq, gates, kept>>
      BY <1>9 DEF EnterPlan, hist
    <2>2. mode' \in [Threads -> {"normal", "plan"}] /\ switches' \in [Threads -> Nat]
      BY <1>0, <1>9, ModeSteady DEF EnterPlan, Frame
    <2> QED BY <1>0, <2>1, <2>2 DEF Frame
  <1> QED BY <1>1, <1>2, <1>3, <1>4, <1>5, <1>6, <1>7, <1>8, <1>9, Steps
-----------------------------------------------------------------------------
(* No call writes before its gates.                                        *)

\* A call that passes none of its gates in a step, and whose gates others leave
\* alone, has passed what it has passed.
LEMMA GatingKept ==
    ASSUME NEW c \in Calls, Gating(c), UNCHANGED script,
           \A s : Past(c, s) => Past(c, s)',
           \A s \in {"resolve", "hook", "gate"} : Past(c, s)' => Past(c, s),
           file'[c] = file[c], gates'[c].hook = gates[c].hook, gates'[c].wrote = gates[c].wrote,
           wait[c] = "done" => wait'[c] = "done" /\ out'[c] = out[c],
           wait[c] = "new" => wait'[c] = "new"
    PROVE  Gating(c)'
  <1>1. UNCHANGED <<job, Permission(c), Asks(c)>>  BY DEF job, Permission, Asks
  <1>2. Permitted(c) => Permitted(c)'  BY <1>1 DEF Permitted
  <1>3. \A f : Within(c, f)' = Within(c, f)  BY <1>1 DEF Within
  <1>4. (Past(c, "resolve") => file[c] # Nothing)'  BY DEF Gating
  <1>5. (file[c] # Nothing => Within(c, file[c]))'
    <2>1. file'[c] # Nothing => Within(c, file[c])  BY DEF Gating
    <2> QED BY <1>1, <2>1 DEF Within
  <1>6. /\ (Past(c, "hook") => gates[c].hook)' /\ (Past(c, "gate") => Permitted(c))'
        /\ (wait[c] # "new" => Asks(c) \/ Permission(c) = "ask")'
    BY <1>1, <1>2 DEF Gating
  <1>7. (gates[c].wrote # Nothing =>
          (Past(c, "truncate") \/ Past(c, "exec")) /\ Within(c, gates[c].wrote))'
    <2>1. gates'[c].wrote # Nothing =>
            (Past(c, "truncate") \/ Past(c, "exec")) /\ Within(c, gates[c].wrote)
      BY DEF Gating
    <2> QED BY <1>1, <2>1 DEF Within
  <1> QED BY <1>4, <1>5, <1>6, <1>7 DEF Gating

\* The other calls keep their files, what they read, their results and gates.
LEMMA OthersSteady ==
    ASSUME Calling, NEW c \in Calls, CallStep(c), NEW d \in Calls, d # c
    PROVE  /\ UNCHANGED script /\ stage'[d] = stage[d] /\ res'[d] = res[d]
           /\ file'[d] = file[d] /\ buf'[d] = buf[d] /\ ret'[d] = ret[d] /\ gates'[d] = gates[d]
  <1>0. /\ stage \in [Calls -> Nat] /\ DOMAIN res = Calls /\ DOMAIN file = Calls
        /\ DOMAIN buf = Calls /\ DOMAIN ret = Calls /\ DOMAIN gates = Calls
    BY DEF Calling, Progress, Frame
  <1>1. UNCHANGED script /\ stage'[d] = stage[d] /\ res'[d] = res[d]
    <2>1. CASE \E s : Moved(c, s)  BY <2>1, PastNext DEF Moved
    <2>2. CASE Start(c)  BY <1>0, <2>2 DEF Start
    <2>3. CASE AskApproval(c) \/ AskUser(c) \/ Waits(c)
      BY <2>3 DEF AskApproval, AskUser, Waits, jobs
    <2> QED BY <2>1, <2>2, <2>3, Movers
  <1>2. CASE Start(c) \/ PostHook(c) \/ ValidateAsk(c) \/ Look(c) \/ CreateTask(c) \/ UpdateTask(c)
    BY <1>1, <1>2 DEF Start, PostHook, ValidateAsk, Look, CreateTask, UpdateTask, hist
  <1>3. CASE Resolve(c) \/ Read(c) \/ Replied(c) \/ NumberTask(c) \/ EnterPlan(c)
    BY <1>0, <1>1, <1>3 DEF Resolve, Read, Replied, NumberTask, EnterPlan, hist
  <1>4. CASE CheckPermission(c) \/ Resolved(c) \/ planGuard(c) \/ FireHook(c)
    BY <1>0, <1>1, <1>4 DEF CheckPermission, Resolved, planGuard, FireHook
  <1>5. CASE Truncate(c) \/ Fill(c) \/ Exec(c)
    BY <1>0, <1>1, <1>5 DEF Truncate, Fill, Exec, Effect, hist
  <1>6. CASE AskApproval(c) \/ AskUser(c) \/ Waits(c)
    BY <1>1, <1>6 DEF AskApproval, AskUser, Waits, jobs, hist
  <1> QED BY <1>2, <1>3, <1>4, <1>5, <1>6 DEF CallStep

LEMMA GatingOthers ==
    ASSUME Shape, Calling, Numbered, [ToolNext]_allVars, NEW c \in Calls, CallStep(c),
           NEW d \in Calls, d # c, Gating(d)
    PROVE  Gating(d)'
  <1>1. /\ UNCHANGED script /\ stage'[d] = stage[d] /\ file'[d] = file[d] /\ gates'[d] = gates[d]
    BY OthersSteady
  <1>2. \A s : Past(d, s)' = Past(d, s)  BY <1>1 DEF Past, job
  <1>3. wait[d] = "done" => wait'[d] = "done" /\ out'[d] = out[d]  BY ToolProtocol, WaitEnds
  <1>4. wait[d] = "new" => wait'[d] = "new"
    <2>1. CASE AskApproval(c) \/ AskUser(c)
      BY <2>1 DEF AskApproval, AskUser, Publish, Shape
    <2>2. CASE Waits(c)
      BY <2>2 DEF Waits, Waiter, RegisterApproval, Select, Receive, CtxDone, TimerDone, End, Unregister, Shape
    <2>3. CASE UNCHANGED vars  BY <2>3 DEF vars, waiter
    <2> QED
      BY <2>1, <2>2, <2>3 DEF CallStep, Start, Resolve, planGuard, FireHook, PostHook, CheckPermission,
         Resolved, ValidateAsk, Replied, Read, Truncate, Fill, Exec, EnterPlan, Look, NumberTask,
         CreateTask, UpdateTask
  <1> QED BY <1>1, <1>2, <1>3, <1>4, GatingKept

\* A stage that is no gate leaves the gates as they are.
LEMMA GatingMoved ==
    ASSUME Calling, NEW c \in Calls, NEW s, Moved(c, s), Gating(c), UNCHANGED vars,
           s \notin {"resolve", "hook", "gate"} \/ Fail(c),
           file'[c] = file[c], gates'[c].hook = gates[c].hook, gates'[c].wrote = gates[c].wrote
    PROVE  Gating(c)'
  <1>1. UNCHANGED <<script, wait, out>>  BY DEF Moved, vars, waiter
  <1>2. \A z : Past(c, z) => Past(c, z)'  BY PastNext
  <1>3. \A z \in {"resolve", "hook", "gate"} : Past(c, z)' => Past(c, z)
    <2>1. CASE s \notin {"resolve", "hook", "gate"}  BY <2>1, PastNext
    <2>2. CASE Fail(c)
      <3>1. stage' = stage  BY <2>2 DEF Fail
      <3> QED BY <1>1, <3>1 DEF Past, job
    <2> QED BY <2>1, <2>2
  <1> QED BY <1>1, <1>2, <1>3, GatingKept

\* At its first stage a call has passed nothing and written nothing.
LEMMA AtFirst ==
    ASSUME Calling, NEW c \in Calls, Gating(c), Doing(c, "resolve")
    PROVE  stage[c] = 0 /\ (\A s : ~Past(c, s)) /\ gates[c].wrote = Nothing
  <1>1. stage[c] = 0
    <2>1. stage[c] + 1 = 1 /\ stage[c] \in Nat  BY InStage DEF Ordered
    <2> QED BY <2>1
  <1>2. \A s : ~Past(c, s)  BY <1>1 DEF Past
  <1> QED BY <1>1, <1>2 DEF Gating

LEMMA ResolveGating ==
    ASSUME Calling, NEW c \in Calls, Gating(c), Resolve(c)
    PROVE  Gating(c)'
  <1> DEFINE f == resolvePath(job[c].thread, job[c].path)
  <1>0. Doing(c, "resolve") /\ Moved(c, "resolve") /\ UNCHANGED <<vars, gates>>
    BY DEF Resolve, Moved, hist
  <1>1. CASE f = Nothing
    <2>1. Fail(c) /\ file' = file  BY <1>1 DEF Resolve
    <2> QED BY <1>0, <2>1, GatingMoved
  <1>2. CASE f # Nothing
    <2>1. Advance(c) /\ file' = [file EXCEPT ![c] = f]  BY <1>2 DEF Resolve
    <2>2. file'[c] = f  BY <2>1 DEF Calling, Frame
    <2>3. job' = job /\ UNCHANGED <<wait, out, gates>> /\ UNCHANGED <<Permission(c), Asks(c)>>
      BY <1>0 DEF Moved, job, vars, waiter, Permission, Asks
    <2>4. Within(c, f)
      BY <1>2 DEF Within, resolvePath, ResolveWorkspacePath
    <2> HIDE DEF f
    <2>5. (file[c] # Nothing => Within(c, file[c]))'  BY <2>2, <2>3, <2>4 DEF Within
    <2>6. \A z : Past(c, z)' => z = "resolve"  BY <1>0, AtFirst, PastNext
    <2>7. gates'[c].wrote = Nothing  BY <1>0, <2>3, AtFirst
    <2> QED BY <1>2, <2>2, <2>3, <2>5, <2>6, <2>7 DEF Gating
  <1> QED BY <1>1, <1>2

LEMMA HookGating ==
    ASSUME Calling, NEW c \in Calls, Gating(c), FireHook(c)
    PROVE  Gating(c)'
  <1>0. Doing(c, "hook") /\ Moved(c, "hook") /\ UNCHANGED <<vars, file>>
    BY DEF FireHook, Moved
  <1>1. gates[c].wrote = gates'[c].wrote
    BY DEF FireHook, Calling, Frame, GateFields
  <1>2. ~Past(c, "hook")
    <2>1. /\ \A j \in 1 .. stage[c] + 1 - 1 : Stages(job[c].tool)[j] # "hook"
          /\ stage[c] \in Nat
      BY <1>0, InStage DEF Ordered
    <2>2. stage[c] + 1 - 1 = stage[c]  BY <2>1
    <2> QED BY <2>1, <2>2 DEF Past
  <1>3. Past(c, "hook")' => gates'[c].hook
    <2> SUFFICES ASSUME Past(c, "hook")' PROVE gates'[c].hook  OBVIOUS
    <2>1. Advance(c)  BY <1>0, <1>2, PastNext
    <2>2. stage'[c] # stage[c]
      BY <2>1 DEF Advance, Calling, Progress
    <2>3. ~Fail(c)  BY <2>2 DEF Fail
    <2>4. PICK outcome : /\ ~Fire("PreToolUse", job[c].tool, outcome)
                         /\ gates' = [gates EXCEPT ![c].hook =
                               \A i \in Matching("PreToolUse", job[c].tool) : outcome[i] = "ok"]
      BY <2>3 DEF FireHook
    <2>5. \A i \in Matching("PreToolUse", job[c].tool) : outcome[i] = "ok"
      BY <2>4 DEF Fire
    <2> QED BY <2>4, <2>5 DEF Calling, Frame, GateFields
  <1>4. job' = job /\ UNCHANGED <<wait, out>> /\ UNCHANGED <<Permission(c), Asks(c), Permitted(c)>>
    BY <1>0 DEF Moved, job, vars, waiter, Permission, Asks, Permitted
  <1>5. \A z : z # "hook" => (Past(c, z)' <=> Past(c, z))  BY <1>0, PastNext
  <1>6. (file[c] # Nothing => Within(c, file[c]))'
    <2>1. file[c] # Nothing => Within(c, file[c])  BY DEF Gating
    <2> QED BY <1>0, <1>4, <2>1 DEF Within
  <1>7. (gates[c].wrote # Nothing => Within(c, gates[c].wrote))'
    <2>1. gates[c].wrote # Nothing => Within(c, gates[c].wrote)  BY DEF Gating
    <2> QED BY <1>1, <1>4, <2>1 DEF Within
  <1> QED BY <1>0, <1>1, <1>3, <1>4, <1>5, <1>6, <1>7 DEF Gating

\* The gate: by permission, or by the verdict of a wait that was asked for.
LEMMA GateGating ==
    ASSUME Calling, NEW c \in Calls, Gating(c), CheckPermission(c) \/ Resolved(c)
    PROVE  Gating(c)'
  <1>0. Doing(c, "gate") /\ Moved(c, "gate") /\ UNCHANGED <<vars, file, gates>>
    BY DEF CheckPermission, Resolved, Moved, Passed
  <1>1. CASE Fail(c)
    BY <1>0, <1>1, GatingMoved
  <1>2. CASE ~Fail(c)
    <2>1. ~Asks(c)
      <3>1. job[c].tool \in Gated  BY <1>0, InStage DEF Ordered
      <3> QED BY <3>1 DEF Gated, Asks
    <2>2. Permission(c) = "allow" \/ (wait[c] = "done" /\ out[c] = "approved")
      BY <1>2 DEF CheckPermission, Resolved
    <2>3. Permitted(c)  BY <2>1, <2>2 DEF Permitted, Gating
    <2>4. job' = job /\ UNCHANGED <<wait, out>> /\ UNCHANGED <<Permission(c), Asks(c), Permitted(c)>>
      BY <1>0 DEF Moved, job, vars, waiter, Permission, Asks, Permitted
    <2>5. \A z : z # "gate" => (Past(c, z)' <=> Past(c, z))  BY <1>0, PastNext
    <2>6. (file[c] # Nothing => Within(c, file[c]))'
      <3>1. file[c] # Nothing => Within(c, file[c])  BY DEF Gating
      <3> QED BY <1>0, <2>4, <3>1 DEF Within
    <2>7. (gates[c].wrote # Nothing => Within(c, gates[c].wrote))'
      <3>1. gates[c].wrote # Nothing => Within(c, gates[c].wrote)  BY DEF Gating
      <3> QED BY <1>0, <2>4, <3>1 DEF Within
    <2> QED BY <1>0, <2>3, <2>4, <2>5, <2>6, <2>7 DEF Gating
  <1> QED BY <1>1, <1>2

LEMMA PrefixOfConcat ==
    ASSUME NEW s \in Seq(STRING), NEW t \in Seq(STRING)
    PROVE  IsPrefix(s, s \o t)
  <1>1. /\ s \o t \in Seq(STRING) /\ Len(s \o t) = Len(s) + Len(t) /\ Len(s) \in Nat /\ Len(t) \in Nat
        /\ \A i \in 1 .. Len(s) : (s \o t)[i] = s[i]
    BY ConcatProperties
  <1>2. SubSeq(s, 1, Len(s)) = SubSeq(s \o t, 1, Len(s))
    <2> DEFINE u == s \o t
    <2>1. SubSeq(s, 1, Len(s)) = [i \in 1 .. Len(s) |-> s[i]]  BY <1>1
    <2> HIDE DEF u
    <2>2. SubSeq(u, 1, Len(s)) = [i \in 1 .. Len(s) |-> u[i]]  BY <1>1 DEF u
    <2> QED BY <1>1, <2>1, <2>2 DEF u
  <1> QED BY <1>1, <1>2 DEF IsPrefix

\* A command in a container writes below the workspace.
LEMMA TargetWithin ==
    ASSUME Calling, NEW c \in Calls, job[c].tool = "Bash", Target(c) # Nothing
    PROVE  Within(c, Target(c))
  <1> SUFFICES ASSUME job[c].thread \in Sandboxed
               PROVE  IsPrefix(Workspace[job[c].thread], Target(c))
    BY DEF Within
  <1> DEFINE p == job[c].path  q == Clean(IF p.abs THEN << >> ELSE <<"workspace">>, p.parts)
  <1>1. q \in Seq(STRING)
    <2>1. \A dir \in {<< >>, <<"workspace">>} : Clean(dir, p.parts) \in Seq(STRING)
      BY ToolAssumption DEF Calling, Progress, job
    <2>2. CASE p.abs  BY <2>1, <2>2
    <2>3. CASE ~p.abs  BY <2>1, <2>3
    <2> QED BY <2>2, <2>3
  <1>2. Target(c) = IF q # << >> /\ Head(q) = "workspace" THEN Workspace[job[c].thread] \o Tail(q) ELSE Nothing
    BY DEF Target, Mounted
  <1> HIDE DEF q
  <1>3. q # << >> /\ Target(c) = Workspace[job[c].thread] \o Tail(q)  BY <1>2
  <1>4. Tail(q) \in Seq(STRING)  BY <1>1, <1>3
  <1>5. Workspace[job[c].thread] \in Seq(STRING)  BY JobType
  <1> QED BY <1>3, <1>4, <1>5, PrefixOfConcat

\* A file is written, or a command run, behind every gate.
LEMMA EffectGating ==
    ASSUME Calling, NEW c \in Calls, Gating(c), Truncate(c) \/ Exec(c)
    PROVE  Gating(c)'
  <1>0. PICK s \in {"truncate", "exec"} : Moved(c, s)
    BY DEF Truncate, Exec, Moved
  <1>1. UNCHANGED <<vars, file>>  BY DEF Truncate, Exec
  <1>2. CASE UNCHANGED gates
    BY <1>0, <1>1, <1>2, GatingMoved
  <1>3. ASSUME NEW f, Effect(c, f), f # Nothing => Within(c, f), Past(c, s)' PROVE Gating(c)'
    <2>1. gates'[c].wrote = f /\ gates'[c].hook = gates[c].hook
      BY <1>3 DEF Effect, Calling, Frame, GateFields
    <2>2. job' = job /\ UNCHANGED <<wait, out>> /\ UNCHANGED <<Permission(c), Asks(c), Permitted(c)>>
      BY <1>0, <1>1 DEF Moved, job, vars, waiter, Permission, Asks, Permitted
    <2>3. \A z \in {"resolve", "hook", "gate"} : Past(c, z)' <=> Past(c, z)
      BY <1>0, PastNext
    <2>4. (file[c] # Nothing => Within(c, file[c]))'
      <3>1. file[c] # Nothing => Within(c, file[c])  BY DEF Gating
      <3> QED BY <1>1, <2>2, <3>1 DEF Within
    <2>5. (gates[c].wrote # Nothing => Within(c, gates[c].wrote))'
      BY <1>3, <2>1, <2>2 DEF Within
    <2> QED BY <1>0, <1>1, <1>3, <2>1, <2>2, <2>3, <2>4, <2>5 DEF Gating
  <1>4. Advance(c) => Past(c, s)'
    <2>1. stage[c] \in Nat /\ Stages(job[c].tool)[stage[c] + 1] = s  BY <1>0, InStage DEF Moved
    <2>2. Advance(c) => stage'[c] = stage[c] + 1  BY DEF Advance, Calling, Progress
    <2>3. job' = job  BY <1>0 DEF Moved, job
    <2> QED BY <2>1, <2>2, <2>3 DEF Past
  <1>5. CASE Truncate(c)
    <2>1. Past(c, "resolve")
      <3>1. \E j \in 1 .. stage[c] + 1 - 1 : Stages(job[c].tool)[j] = "resolve"
        BY <1>5, InStage DEF Truncate, Ordered
      <3>2. stage[c] + 1 - 1 = stage[c]  BY DEF Calling, Progress
      <3> QED BY <3>1, <3>2 DEF Past
    <2>2. file[c] # Nothing /\ Within(c, file[c])  BY <2>1 DEF Gating
    <2>3. UNCHANGED gates \/ (Advance(c) /\ Effect(c, file[c]))  BY <1>5 DEF Truncate, hist
    <2> QED BY <1>2, <1>3, <1>4, <2>2, <2>3
  <1>6. CASE Exec(c)
    <2>1. job[c].tool = "Bash"  BY <1>6, InStage DEF Exec, Ordered
    <2>2. UNCHANGED gates \/ (Advance(c) /\ Target(c) # Nothing /\ Effect(c, Target(c)))
      BY <1>6 DEF Exec, hist
    <2> QED BY <1>2, <1>3, <1>4, <2>1, <2>2, TargetWithin
  <1> QED BY <1>5, <1>6

LEMMA GatingStep ==
    ASSUME Shape, Calling, Numbered, \A c \in Calls : Gating(c), [ToolNext]_allVars
    PROVE  \A c \in Calls : Gating(c)'
  <1>0. [Next]_vars  BY ToolProtocol
  <1>1. CASE Outside
    <2> TAKE d \in Calls
    <2>1. UNCHANGED <<script, stage, file, gates>>  BY <1>1, OutsideSteady
    <2>2. \A s : Past(d, s)' = Past(d, s)  BY <2>1 DEF Past, job
    <2>3. wait[d] = "done" => wait'[d] = "done" /\ out'[d] = out[d]  BY <1>0, WaitEnds
    <2>4. CASE wait[d] = "new" => wait'[d] = "new"
      BY <2>1, <2>2, <2>3, <2>4, GatingKept
    <2>5. CASE wait[d] = "new" /\ wait'[d] # "new"
      <3>1. AskUser(d)
        BY <1>1, <2>5 DEF Outside, Reply, ModeMutation, AskUser, Waits, Publish, Shape, Waiter,
           RegisterApproval, Select, Receive, CtxDone, TimerDone, End, Unregister, CancelTurn, Answer,
           Mutation, StoreNote, Lookup, Send, waiter, vars, allVars
      <3>2. Asks(d)  BY <3>1, InStage DEF AskUser, Ordered, Asks
      <3>3. job' = job  BY <2>1 DEF job
      <3>4. Asks(d)' /\ UNCHANGED <<Permission(d)>>  BY <3>2, <3>3 DEF Asks, Permission
      <3>5. ~Past(d, "gate")
        <4>1. \A i \in 1 .. Len(Stages(job[d].tool)) : Stages(job[d].tool)[i] # "gate"
          <5>1. Ordered(job[d].tool)  BY <3>1, InStage DEF AskUser
          <5>2. job[d].tool \notin Gated  BY <3>2 DEF Asks, Gated
          <5> QED BY <5>1, <5>2 DEF Ordered
        <4>2. stage[d] \in Nat /\ stage[d] <= Len(Stages(job[d].tool))
              /\ Len(Stages(job[d].tool)) \in Nat
          BY <3>1, InStage DEF AskUser, Ordered
        <4> QED BY <4>1, <4>2 DEF Past
      <3>6. (file[d] # Nothing => Within(d, file[d]))'
            /\ (gates[d].wrote # Nothing => Within(d, gates[d].wrote))'
        <4>1. (file[d] # Nothing => Within(d, file[d]))
              /\ (gates[d].wrote # Nothing => Within(d, gates[d].wrote))
          BY DEF Gating
        <4> QED BY <2>1, <3>3, <4>1 DEF Within
      <3> QED BY <2>1, <2>2, <3>4, <3>5, <3>6 DEF Gating
    <2> QED BY <2>4, <2>5
  <1>2. ASSUME NEW c \in Calls, CallStep(c), NEW d \in Calls, d # c PROVE Gating(d)'
    BY <1>2, GatingOthers
  <1>3. ASSUME NEW c \in Calls,
               Start(c) \/ AskApproval(c)
        PROVE  Gating(c)'
    <2>1. UNCHANGED <<script, stage, file, gates>>
      BY <1>3 DEF Start, AskApproval, jobs, hist
    <2>2. \A s : Past(c, s)' = Past(c, s)  BY <2>1 DEF Past, job
    <2>3. wait[c] = "done" => wait'[c] = "done" /\ out'[c] = out[c]  BY <1>0, WaitEnds
    <2>4. CASE Start(c)
      <3>1. UNCHANGED wait  BY <2>4 DEF Start, vars, waiter
      <3> QED BY <2>1, <2>2, <2>3, <3>1, GatingKept
    <2>5. CASE AskApproval(c)
      <3>1. Permission(c) = "ask" /\ wait[c] = "new"  BY <2>5 DEF AskApproval, Publish
      <3>2. job' = job /\ Permission(c)' = "ask"  BY <2>1, <3>1 DEF job, Permission
      <3>3. ~Past(c, "gate")  BY <3>1 DEF Gating, Permitted
      <3>4. (file[c] # Nothing => Within(c, file[c]))'
            /\ (gates[c].wrote # Nothing => Within(c, gates[c].wrote))'
        <4>1. (file[c] # Nothing => Within(c, file[c]))
              /\ (gates[c].wrote # Nothing => Within(c, gates[c].wrote))
          BY DEF Gating
        <4> QED BY <2>1, <3>2, <4>1 DEF Within
      <3> QED BY <2>1, <2>2, <3>2, <3>3, <3>4 DEF Gating
    <2> QED BY <1>3, <2>4, <2>5
  <1>4. ASSUME NEW c \in Calls,
               planGuard(c) \/ PostHook(c) \/ ValidateAsk(c) \/ Replied(c) \/ Read(c) \/ Fill(c)
                 \/ EnterPlan(c) \/ Look(c) \/ NumberTask(c) \/ CreateTask(c) \/ UpdateTask(c)
        PROVE  Gating(c)'
    <2>1. UNCHANGED <<vars, file>>
      BY <1>4 DEF planGuard, PostHook, ValidateAsk, Replied, Read, Fill, EnterPlan, Look,
         NumberTask, CreateTask, UpdateTask
    <2>2. PICK s \in {"guard", "post", "validate", "ask", "read", "fill", "plan", "surface", "look",
                     "number", "create", "update"} : Moved(c, s)
      <3>1. CASE planGuard(c) \/ PostHook(c) \/ ValidateAsk(c) \/ Replied(c)
        BY <3>1 DEF planGuard, PostHook, ValidateAsk, Replied, Moved
      <3>2. CASE Read(c) \/ Fill(c) \/ EnterPlan(c) \/ Look(c)
        BY <3>2 DEF Read, Fill, EnterPlan, Look, Moved
      <3>3. CASE NumberTask(c) \/ CreateTask(c) \/ UpdateTask(c)
        BY <3>3 DEF NumberTask, CreateTask, UpdateTask, Moved
      <3> QED BY <1>4, <3>1, <3>2, <3>3
    <2>3. gates'[c].hook = gates[c].hook /\ gates'[c].wrote = gates[c].wrote
      <3>1. CASE planGuard(c)  BY <3>1 DEF planGuard, Calling, Frame, GateFields
      <3>2. CASE ~planGuard(c)
        <4>1. UNCHANGED gates
          BY <1>4, <3>2 DEF PostHook, ValidateAsk, Replied, Read, Fill, EnterPlan, Look, NumberTask,
             CreateTask, UpdateTask, hist
        <4> QED BY <4>1
      <3> QED BY <3>1, <3>2
    <2>4. s \notin {"resolve", "hook", "gate"}  BY <2>2
    <2> QED BY <2>1, <2>2, <2>3, <2>4, GatingMoved
  <1>5. ASSUME NEW c \in Calls, CallStep(c), ~Outside PROVE Gating(c)'
    BY <1>3, <1>4, <1>5, ResolveGating, HookGating, GateGating, EffectGating DEF CallStep, Outside
  <1> QED BY <1>1, <1>2, <1>5 DEF ToolNext, Outside
-----------------------------------------------------------------------------
(* In plan mode only the plan directory is written.                        *)

\* The mode of a thread is what it was as long as it was not switched.
LEMMA SwitchStep ==
    ASSUME Calling, [ToolNext]_allVars, NEW t \in Threads
    PROVE  /\ switches[t] \in Nat /\ switches'[t] \in Nat /\ switches'[t] >= switches[t]
           /\ switches'[t] = switches[t] => mode'[t] = mode[t]
  <1>0. Frame /\ Frame'  BY FrameStep DEF Calling
  <1>1. switches[t] \in Nat /\ switches'[t] \in Nat  BY <1>0 DEF Frame
  <1>2. CASE UNCHANGED <<mode, switches>>  BY <1>1, <1>2
  <1>3. CASE Outside  BY <1>1, <1>2, <1>3, OutsideSteady, ModeSteady
  <1>4. ASSUME NEW c \in Calls, EnterPlan(c)
        PROVE  switches'[t] >= switches[t] /\ (switches'[t] = switches[t] => mode'[t] = mode[t])
    BY <1>1, <1>2, <1>4, ModeSteady DEF EnterPlan
  <1>5. ASSUME NEW c \in Calls,
               Start(c) \/ Resolve(c) \/ planGuard(c) \/ FireHook(c) \/ PostHook(c)
                 \/ CheckPermission(c) \/ AskApproval(c) \/ Resolved(c) \/ ValidateAsk(c) \/ Replied(c)
                 \/ Read(c) \/ Truncate(c) \/ Fill(c) \/ Exec(c) \/ Look(c)
                 \/ NumberTask(c) \/ CreateTask(c) \/ UpdateTask(c)
        PROVE  UNCHANGED <<mode, switches>>
    BY <1>5 DEF Start, Resolve, planGuard, FireHook, PostHook, CheckPermission, AskApproval, Resolved,
       ValidateAsk, Replied, Read, Truncate, Fill, Exec, Look, NumberTask, CreateTask, UpdateTask, state
  <1> QED BY <1>1, <1>2, <1>3, <1>4, <1>5, Steps

\* What the guard of a call says later on, while the call leaves it alone.
LEMMA GuardingKept ==
    ASSUME Calling, [ToolNext]_allVars, NEW c \in Calls, Guarding(c), UNCHANGED script,
           Past(c, "guard")' => Past(c, "guard"), file'[c] = file[c],
           gates'[c].guard = gates[c].guard, gates'[c].mode = gates[c].mode,
           gates'[c].at = gates[c].at, gates'[c].wrote = gates[c].wrote
    PROVE  Guarding(c)'
  <1>1. job' = job /\ job[c].thread \in Threads  BY JobType DEF job
  <1>2. InPlan(c)' = InPlan(c)  BY DEF InPlan
  <1> DEFINE t == job[c].thread
  <1>3. /\ switches[t] \in Nat /\ switches'[t] \in Nat /\ switches'[t] >= switches[t]
        /\ switches'[t] = switches[t] => mode'[t] = mode[t]
    BY <1>1, SwitchStep
  <1>4. gates[c].guard \in Nat /\ gates[c].guard <= switches[t]  BY DEF Guarding
  <1>5. gates'[c].guard <= switches'[t]  BY <1>3, <1>4
  <1>6. gates[c].guard = switches'[t] => switches[t] = switches'[t]  BY <1>3, <1>4
  <1> QED BY <1>1, <1>2, <1>3, <1>4, <1>5, <1>6 DEF Guarding

\* A call that passes its guard is outside plan mode, or in the plan directory.
LEMMA GuardGuarding ==
    ASSUME Calling, NEW c \in Calls, Gating(c), planGuard(c)
    PROVE  Guarding(c)'
  <1> DEFINE t == job[c].thread
  <1>0. Doing(c, "guard") /\ Moved(c, "guard") /\ UNCHANGED <<vars, file, mode, switches, script>>
    BY DEF planGuard, Moved, state
  <1>1. job' = job /\ t \in Threads /\ switches[t] \in Nat
    BY <1>0, JobType DEF job, Calling, Frame
  <1>2. PICK read \in BOOLEAN :
          /\ IF read /\ mode[t] = "plan" /\ ~Exempt(c) THEN Fail(c) ELSE Advance(c)
          /\ gates' = [gates EXCEPT ![c].guard = switches[t],
                                    ![c].mode = IF read THEN mode[t] ELSE "unread"]
    BY DEF planGuard
  <1>3. /\ gates'[c].guard = switches[t] /\ gates'[c].mode = (IF read THEN mode[t] ELSE "unread")
        /\ gates'[c].wrote = gates[c].wrote
    BY <1>2 DEF Calling, Frame, GateFields
  <1>4. ~Past(c, "guard") /\ ~Past(c, "truncate") /\ ~Past(c, "exec")
    <2>1. /\ \A j \in 1 .. stage[c] + 1 - 1 : Stages(job[c].tool)[j] # "guard"
          /\ \A j \in 1 .. stage[c] + 1 : Stages(job[c].tool)[j] \notin {"truncate", "exec"}
          /\ stage[c] \in Nat
      BY <1>0, InStage DEF Ordered
    <2>2. stage[c] + 1 - 1 = stage[c] /\ \A j \in 1 .. stage[c] : j \in 1 .. stage[c] + 1  BY <2>1
    <2> QED BY <2>1, <2>2 DEF Past
  <1>5. gates'[c].wrote = Nothing  BY <1>3, <1>4 DEF Gating
  <1>6. ASSUME Past(c, "guard")', gates'[c].mode # "unread", mode[t] = "plan" PROVE InPlan(c)'
    <2>1. Advance(c)  BY <1>0, <1>4, <1>6, PastNext
    <2>2. stage'[c] # stage[c]  BY <2>1 DEF Advance, Calling, Progress
    <2>3. ~Fail(c)  BY <2>2 DEF Fail
    <2>4. Exempt(c)  BY <1>2, <1>3, <1>6, <2>3
    <2> QED BY <1>0, <2>4 DEF Exempt, InPlan
  <1> QED BY <1>0, <1>1, <1>3, <1>5, <1>6 DEF Guarding

\* A call that takes effect in the mode its guard read, in plan mode, writes to
\* the plan directory.
LEMMA EffectGuarding ==
    ASSUME Calling, [ToolNext]_allVars, NEW c \in Calls, Guarding(c), Gating(c),
           Truncate(c) \/ Exec(c)
    PROVE  Guarding(c)'
  <1> DEFINE t == job[c].thread
  <1>0. PICK s \in {"truncate", "exec"} : Moved(c, s)
    BY DEF Truncate, Exec, Moved
  <1>1. UNCHANGED <<script, file, mode, switches>>  BY DEF Truncate, Exec
  <1>2. Past(c, "guard")' <=> Past(c, "guard")  BY <1>0, PastNext
  <1>3. CASE UNCHANGED gates
    BY <1>1, <1>2, <1>3, GuardingKept
  <1>4. ASSUME NEW f, Effect(c, f) PROVE Guarding(c)'
    <2>1. /\ gates'[c].mode = (IF gates[c].mode = "unread" THEN "unread" ELSE mode[t])
          /\ gates'[c].at = switches[t] /\ gates'[c].guard = gates[c].guard
      BY <1>4 DEF Effect, Calling, Frame, GateFields
    <2>2. job' = job /\ InPlan(c)' = InPlan(c)  BY <1>1 DEF job, InPlan
    <2>3. Past(c, "guard")
      <3>0. PICK k : k = stage[c] + 1  OBVIOUS
      <3>1. \E j \in 1 .. k - 1 : Stages(job[c].tool)[j] = "guard"
        <4>1. /\ Ordered(job[c].tool) /\ k \in 1 .. Len(Stages(job[c].tool))
              /\ Stages(job[c].tool)[k] = s
          BY <1>0, <3>0, InStage DEF Moved
        <4> QED BY <1>0, <4>1 DEF Ordered
      <3>2. k - 1 = stage[c]  BY <3>0 DEF Calling, Progress
      <3> QED BY <3>1, <3>2 DEF Past
    <2> QED BY <1>1, <1>2, <2>1, <2>2, <2>3 DEF Guarding
  <1>5. UNCHANGED gates \/ \E f : Effect(c, f)  BY DEF Truncate, Exec, hist
  <1> QED BY <1>3, <1>4, <1>5

LEMMA GuardingStep ==
    ASSUME Calling, \A c \in Calls : Gating(c) /\ Guarding(c), [ToolNext]_allVars
    PROVE  \A c \in Calls : Guarding(c)'
  <1>1. CASE Outside
    <2> TAKE d \in Calls
    <2>1. UNCHANGED <<script, stage, file, gates>>  BY <1>1, OutsideSteady
    <2>2. Past(d, "guard")' = Past(d, "guard")  BY <2>1 DEF Past, job
    <2> QED BY <2>1, <2>2, GuardingKept
  <1>2. ASSUME NEW c \in Calls, CallStep(c), NEW d \in Calls, d # c PROVE Guarding(d)'
    <2>1. UNCHANGED script /\ stage'[d] = stage[d] /\ file'[d] = file[d] /\ gates'[d] = gates[d]
      BY <1>2, OthersSteady
    <2>2. Past(d, "guard")' = Past(d, "guard")  BY <2>1 DEF Past, job
    <2> QED BY <2>1, <2>2, GuardingKept
  <1>3. ASSUME NEW c \in Calls, Start(c) \/ AskApproval(c) PROVE Guarding(c)'
    <2>1. UNCHANGED <<script, stage, file, gates>>
      BY <1>3 DEF Start, AskApproval, jobs, hist
    <2>2. Past(c, "guard")' = Past(c, "guard")  BY <2>1 DEF Past, job
    <2> QED BY <2>1, <2>2, GuardingKept
  <1>4. ASSUME NEW c \in Calls, NEW s, s # "guard", Moved(c, s), file'[c] = file[c],
               UNCHANGED gates \/ FireHook(c)
        PROVE  Guarding(c)'
    <2>1. Past(c, "guard")' => Past(c, "guard")  BY <1>4, PastNext
    <2>2. /\ UNCHANGED script /\ gates'[c].guard = gates[c].guard /\ gates'[c].mode = gates[c].mode
          /\ gates'[c].at = gates[c].at /\ gates'[c].wrote = gates[c].wrote
      BY <1>4 DEF Moved, FireHook, Calling, Frame, GateFields
    <2> QED BY <1>4, <2>1, <2>2, GuardingKept
  <1>5. ASSUME NEW c \in Calls,
               FireHook(c) \/ PostHook(c) \/ CheckPermission(c) \/ Resolved(c) \/ ValidateAsk(c)
                 \/ Replied(c) \/ Read(c) \/ Fill(c) \/ EnterPlan(c) \/ Look(c)
                 \/ NumberTask(c) \/ CreateTask(c) \/ UpdateTask(c)
        PROVE  Guarding(c)'
    <2>1. PICK s \in {"hook", "post", "gate", "validate", "ask", "read", "fill", "plan", "surface",
                     "look", "number", "create", "update"} : Moved(c, s)
      <3>1. CASE FireHook(c) \/ PostHook(c) \/ CheckPermission(c) \/ Resolved(c)
        BY <3>1 DEF FireHook, PostHook, CheckPermission, Resolved, Passed, Moved
      <3>2. CASE ValidateAsk(c) \/ Replied(c) \/ Read(c) \/ Fill(c) \/ EnterPlan(c)
        BY <3>2 DEF ValidateAsk, Replied, Read, Fill, EnterPlan, Moved
      <3>3. CASE Look(c) \/ NumberTask(c) \/ CreateTask(c) \/ UpdateTask(c)
        BY <3>3 DEF Look, NumberTask, CreateTask, UpdateTask, Moved
      <3> QED BY <1>5, <3>1, <3>2, <3>3
    <2>2. UNCHANGED file /\ (UNCHANGED gates \/ FireHook(c))
      BY <1>5 DEF FireHook, PostHook, CheckPermission, Resolved, ValidateAsk, Replied, Read, Fill,
         EnterPlan, Look, NumberTask, CreateTask, UpdateTask, hist
    <2> QED BY <1>4, <2>1, <2>2
  <1>6. ASSUME NEW c \in Calls, Resolve(c) PROVE Guarding(c)'
    <2>1. Doing(c, "resolve") /\ Moved(c, "resolve") /\ UNCHANGED <<script, gates, mode, switches>>
      BY <1>6 DEF Resolve, Moved, state, hist
    <2>2. job' = job  BY <2>1 DEF job
    <2>3. ~Past(c, "guard")' /\ gates'[c].wrote = Nothing  BY <2>1, AtFirst, PastNext
    <2> QED BY <2>1, <2>2, <2>3 DEF Guarding
  <1>7. ASSUME NEW c \in Calls, CallStep(c), ~Outside PROVE Guarding(c)'
    BY <1>3, <1>5, <1>6, <1>7, GuardGuarding, EffectGuarding DEF CallStep, Outside
  <1> QED BY <1>1, <1>2, <1>7 DEF ToolNext, Outside
-----------------------------------------------------------------------------
(* An edit works on what is in its file after the approval.                *)

\* The stage before an edit's read, truncation and write.
LEMMA Sequel ==
    ASSUME Calling, NEW c \in Calls, NEW s, Moved(c, s), Edits(c)
    PROVE  /\ Doing(c, "read")' => s = "gate" /\ Advance(c)
           /\ Doing(c, "truncate")' => s = "read" /\ Advance(c)
           /\ Doing(c, "fill")' => s = "truncate" /\ Advance(c)
  <1> DEFINE st == Stages(job[c].tool)  k == stage[c] + 1
  <1>0. /\ Doing(c, s) /\ job' = job /\ UNCHANGED script
        /\ stage \in [Calls -> Nat] /\ DOMAIN res = Calls
    BY DEF Moved, job, Calling, Progress
  <1>1. /\ Ordered(job[c].tool) /\ stage[c] \in Nat /\ st[k] = s
        /\ job[c].tool \in {"FileEdit", "NotebookEdit"}
    BY <1>0, InStage DEF Edits
  <1>2. \A i \in 1 .. Len(st) :
           /\ st[i] = "read" => st[i - 1] = "gate"
           /\ st[i] = "truncate" => st[i - 1] = "read"
           /\ st[i] = "fill" => st[i - 1] = "truncate"
    BY <1>1 DEF Ordered
  <1>3. Len(st) \in Nat  BY <1>1 DEF Ordered
  <1>4. CASE Fail(c)
    <2>1. res'[c] = "error"  BY <1>0, <1>4 DEF Fail
    <2> QED BY <2>1 DEF Doing
  <1>5. CASE Advance(c)
    <2>1. stage'[c] = k  BY <1>0, <1>5 DEF Advance
    <2>2. ASSUME NEW z, Doing(c, z)' PROVE k + 1 \in 1 .. Len(st) /\ st[k + 1] = z
      <3>1. stage'[c] < Len(st) /\ st[stage'[c] + 1] = z  BY <1>0, <2>2 DEF Doing
      <3> QED BY <1>1, <1>3, <2>1, <3>1
    <2>3. k + 1 - 1 = k  BY <1>1
    <2> QED BY <1>1, <1>2, <1>5, <2>2, <2>3
  <1> QED BY <1>0, <1>4, <1>5 DEF Moved

LEMMA FreshKept ==
    ASSUME NEW c \in Calls, Fresh(c), UNCHANGED script, stage'[c] = stage[c], res'[c] = res[c],
           buf'[c] = buf[c], file'[c] = file[c], kept'[c] \subseteq kept[c],
           kept[c] \subseteq Content(file[c]) => (kept[c] \subseteq Content(file[c]))'
    PROVE  Fresh(c)'
  <1>1. job' = job  BY DEF job
  <1>2. \A s : Doing(c, s)' <=> Doing(c, s)  BY <1>1 DEF Doing
  <1> QED BY <1>2 DEF Fresh

\* A write by another call leaves of a call's texts what it leaves in its file.
LEMMA PutKept ==
    ASSUME NEW c \in Calls, NEW d \in Calls, d # c, NEW f, NEW content, Put(c, f, content),
           file'[d] = file[d]
    PROVE  /\ kept'[d] \subseteq kept[d]
           /\ kept[d] \subseteq Content(file[d]) => (kept[d] \subseteq Content(file[d]))'
  <1>1. kept'[d] = IF file[d] = f THEN kept[d] \cap content ELSE kept[d]  BY DEF Put
  <1>2. CASE file[d] = f
    <2>1. (Content(file[d]))' = content  BY <1>2 DEF Content, Put
    <2> QED BY <1>1, <1>2, <2>1
  <1>3. CASE file[d] # f
    <2>1. (Content(file[d]))' = Content(file[d])  BY <1>3 DEF Content, Put
    <2> QED BY <1>1, <1>3, <2>1
  <1> QED BY <1>2, <1>3

\* What a call's step does to the files and to what others keep of theirs.
LEMMA Writings ==
    ASSUME Calling, NEW c \in Calls, CallStep(c)
    PROVE  \/ UNCHANGED disk /\ \A d \in Calls : d # c => kept'[d] = kept[d]
           \/ \E f, content : Put(c, f, content)
  <1>1. CASE Truncate(c) \/ Fill(c) \/ Exec(c)
    BY <1>1 DEF Truncate, Fill, Exec, hist
  <1>2. CASE CheckPermission(c) \/ Resolved(c)
    BY <1>2 DEF CheckPermission, Resolved, Passed, state, Calling, Frame
  <1>3. CASE Start(c) \/ Resolve(c) \/ planGuard(c) \/ FireHook(c) \/ PostHook(c) \/ AskApproval(c)
    BY <1>3 DEF Start, Resolve, planGuard, FireHook, PostHook, AskApproval, state, hist
  <1>4. CASE ValidateAsk(c) \/ AskUser(c) \/ Replied(c) \/ Read(c) \/ EnterPlan(c) \/ Look(c)
    BY <1>4 DEF ValidateAsk, AskUser, Replied, Read, EnterPlan, Look, state, hist
  <1>5. CASE NumberTask(c) \/ CreateTask(c) \/ UpdateTask(c) \/ Waits(c)
    BY <1>5 DEF NumberTask, CreateTask, UpdateTask, Waits, state, hist
  <1> QED BY <1>1, <1>2, <1>3, <1>4, <1>5 DEF CallStep

LEMMA FreshOthers ==
    ASSUME Calling, NEW c \in Calls, CallStep(c), NEW d \in Calls, d # c, Fresh(d)
    PROVE  Fresh(d)'
  <1>1. /\ UNCHANGED script /\ stage'[d] = stage[d] /\ res'[d] = res[d]
        /\ file'[d] = file[d] /\ buf'[d] = buf[d]
    BY OthersSteady
  <1>2. /\ kept'[d] \subseteq kept[d]
        /\ kept[d] \subseteq Content(file[d]) => (kept[d] \subseteq Content(file[d]))'
    <2>1. CASE UNCHANGED disk /\ kept'[d] = kept[d]  BY <1>1, <2>1 DEF Content
    <2>2. CASE \E f, content : Put(c, f, content)  BY <1>1, <2>2, PutKept
    <2> QED BY <2>1, <2>2, Writings
  <1> QED BY <1>1, <1>2, FreshKept

\* An approved edit has what is in its file now; the read takes it over.
LEMMA FreshOwn ==
    ASSUME Calling, NEW c \in Calls, Edits(c), Fresh(c),
           CheckPermission(c) \/ Resolved(c) \/ Read(c) \/ Truncate(c)
    PROVE  Fresh(c)'
  <1>0. /\ DOMAIN buf = Calls /\ DOMAIN kept = Calls /\ DOMAIN file = Calls
    BY DEF Calling, Frame
  <1>1. CASE CheckPermission(c) \/ Resolved(c)
    <2>1. Moved(c, "gate") /\ UNCHANGED <<file, disk>> /\ (Fail(c) \/ Passed(c))
      BY <1>1 DEF CheckPermission, Resolved, Passed, Moved, state
    <2>2. /\ ~(Doing(c, "truncate")') /\ ~(Doing(c, "fill")')
          /\ Doing(c, "read")' => Advance(c)
      BY <2>1, Sequel
    <2>3. Fail(c) => ~(Doing(c, "read")')
      BY DEF Fail, Doing, Calling, Progress
    <2>4. Doing(c, "read")' => kept'[c] \subseteq Content(file[c])
      BY <1>0, <2>1, <2>2, <2>3 DEF Passed
    <2>5. (Content(file[c]))' = Content(file[c])  BY <2>1 DEF Content
    <2> QED BY <2>2, <2>4, <2>5 DEF Fresh
  <1>2. CASE Read(c)
    <2>1. /\ Moved(c, "read") /\ Doing(c, "read") /\ UNCHANGED kept
          /\ buf' = [buf EXCEPT ![c] = Content(file[c])]
      BY <1>2 DEF Read, Moved, hist
    <2>2. ~(Doing(c, "read")') /\ ~(Doing(c, "fill")')  BY <2>1, Sequel
    <2>3. kept'[c] \subseteq buf'[c]  BY <1>0, <2>1 DEF Fresh
    <2> QED BY <2>2, <2>3 DEF Fresh
  <1>3. CASE Truncate(c)
    <2>1. Moved(c, "truncate") /\ Doing(c, "truncate") /\ UNCHANGED buf /\ kept'[c] = kept[c]
      BY <1>3 DEF Truncate, Put, Moved, hist
    <2>2. ~(Doing(c, "read")') /\ ~(Doing(c, "truncate")')  BY <2>1, Sequel
    <2>3. kept'[c] \subseteq buf'[c]  BY <2>1 DEF Fresh
    <2> QED BY <2>2, <2>3 DEF Fresh
  <1> QED BY <1>1, <1>2, <1>3

LEMMA ScriptSteady ==
    ASSUME [ToolNext]_allVars
    PROVE  UNCHANGED script
  <1>1. CASE Outside  BY <1>1, OutsideSteady
  <1>2. ASSUME NEW c \in Calls, CallStep(c) PROVE UNCHANGED script
    BY <1>2, Movers DEF Moved, Start, AskApproval, AskUser, Waits, jobs
  <1> QED BY <1>1, <1>2 DEF ToolNext, Outside

LEMMA FreshStep ==
    ASSUME Calling, \A c \in Calls : Edits(c) => Fresh(c), [ToolNext]_allVars
    PROVE  \A c \in Calls : (Edits(c) => Fresh(c))'
  <1>0. UNCHANGED script /\ \A c \in Calls : Edits(c)' = Edits(c)
    BY ScriptSteady DEF Edits, job
  <1> SUFFICES ASSUME NEW d \in Calls, Edits(d) PROVE Fresh(d)'
    BY <1>0
  <1>1. ASSUME UNCHANGED <<script, stage, res, file, buf, disk, kept>> PROVE Fresh(d)'
    BY <1>1, FreshKept DEF Content
  <1>2. CASE Outside  BY <1>1, <1>2, OutsideSteady
  <1>3. ASSUME NEW c \in Calls, CallStep(c), d # c PROVE Fresh(d)'
    BY <1>3, FreshOthers
  <1>4. CASE AskApproval(d)
    BY <1>1, <1>4 DEF AskApproval, jobs, hist
  <1>5. CASE Start(d)
    <2>1. res[d] = "none" /\ UNCHANGED <<script, stage>>  BY <1>5 DEF Start
    <2>2. stage[d] = 0  BY <2>1 DEF Calling, Progress
    <2>3. Ordered(job[d].tool) /\ job'[d].tool = job[d].tool /\ job[d].tool \in {"FileEdit", "NotebookEdit"}
      BY <2>1, Table DEF Edits, Tools, Gated, job
    <2>4. Stages(job[d].tool)[1] \notin {"read", "truncate", "fill"}
      BY <2>3 DEF Ordered
    <2> QED BY <2>1, <2>2, <2>3, <2>4 DEF Fresh, Doing
  <1>6. ASSUME Resolve(d) \/ planGuard(d) \/ FireHook(d) \/ PostHook(d) \/ ValidateAsk(d) \/ Replied(d)
               \/ Fill(d) \/ Exec(d) \/ EnterPlan(d) \/ Look(d)
               \/ NumberTask(d) \/ CreateTask(d) \/ UpdateTask(d)
        PROVE  Fresh(d)'
    <2>1. PICK s \in {"resolve", "guard", "hook", "post", "validate", "ask", "fill", "exec", "plan",
                     "surface", "look", "number", "create", "update"} : Moved(d, s)
      <3>1. CASE Resolve(d) \/ planGuard(d) \/ FireHook(d) \/ PostHook(d) \/ ValidateAsk(d) \/ Replied(d)
        BY <3>1 DEF Resolve, planGuard, FireHook, PostHook, ValidateAsk, Replied, Moved
      <3>2. CASE Fill(d) \/ Exec(d) \/ EnterPlan(d)
        BY <3>2 DEF Fill, Exec, EnterPlan, Moved
      <3>3. CASE Look(d) \/ NumberTask(d) \/ CreateTask(d) \/ UpdateTask(d)
        BY <3>3 DEF Look, NumberTask, CreateTask, UpdateTask, Moved
      <3> QED BY <1>6, <3>1, <3>2, <3>3
    <2>2. ~(Doing(d, "read")') /\ ~(Doing(d, "truncate")') /\ ~(Doing(d, "fill")')
      BY <2>1, Sequel
    <2> QED BY <2>2 DEF Fresh
  <1>7. ASSUME NEW c \in Calls, CallStep(c) PROVE Fresh(d)'
    <2>1. CASE c = d
      BY <1>2, <1>4, <1>5, <1>6, <1>7, <2>1, FreshOwn DEF CallStep, Outside
    <2> QED BY <1>3, <1>7, <2>1
  <1> QED BY <1>2, <1>7 DEF ToolNext, Outside
-----------------------------------------------------------------------------
(* Results.                                                                *)

\* Only the reply ends a question with a result.
LEMMA EndsWithAsk ==
    ASSUME Calling, NEW c \in Calls, NEW s, Moved(c, s), Asks(c), res'[c] = "ok"
    PROVE  s = "ask" /\ Advance(c)
  <1>1. /\ job[c].tool = "AskUserQuestion" /\ stage[c] \in Nat /\ DOMAIN res = Calls
        /\ Stages(job[c].tool)[stage[c] + 1] = s /\ res[c] = "running"
    BY InStage DEF Asks, Moved, Calling, Progress
  <1>2. Len(Stages(job[c].tool)) = 2 /\ Stages(job[c].tool)[2] = "ask"
    BY <1>1 DEF Stages, AskUserQuestion
  <1>3. Advance(c)
    BY <1>1 DEF Moved, Fail
  <1>4. stage[c] + 1 = Len(Stages(job[c].tool))
    BY <1>1, <1>3 DEF Advance
  <1> QED BY <1>1, <1>2, <1>3, <1>4

LEMMA AnsweredKept ==
    ASSUME NEW c \in Calls, Answered(c), UNCHANGED script, ret'[c] = ret[c],
           wait'[c] = "done", out'[c] = out[c]
    PROVE  Answered(c)'
  BY DEF Answered, Asked, job

LEMMA ReplyAnswers ==
    ASSUME Calling, NEW c \in Calls, Replied(c), Advance(c)
    PROVE  Answered(c)'
  <1>1. /\ wait[c] = "done" /\ UNCHANGED <<wait, out, script>> /\ DOMAIN ret = Calls
        /\ stage \in [Calls -> Nat]
    BY DEF Replied, vars, waiter, Calling, Frame, Progress
  <1>2. ~Fail(c)
    BY <1>1 DEF Fail, Advance
  <1>3. ret' = [ret EXCEPT ![c] = IF out[c] = "timeout" THEN [q \in Asked(c) |-> ""]
                                  ELSE parseAnswerPayload(c, Payload[out[c]])]
    BY <1>2 DEF Replied
  <1>4. Asked(c)' = Asked(c)  BY <1>1 DEF Asked, job
  <1>5. ret'[c] = IF out[c] = "timeout" THEN [q \in Asked(c) |-> ""]
                  ELSE parseAnswerPayload(c, Payload[out[c]])
    BY <1>1, <1>3
  <1>6. CASE out[c] = "timeout"
    BY <1>1, <1>4, <1>5, <1>6 DEF Answered
  <1>7. CASE out[c] # "timeout"
    <2> DEFINE raw == Payload[out[c]]
    <2>1. ret'[c] = parseAnswerPayload(c, raw)  BY <1>5, <1>7
    <2> HIDE DEF raw
    <2>2. /\ DOMAIN ret'[c] = Asked(c)
          /\ raw.kind = "map" => \A q \in Asked(c) \cap DOMAIN raw.map : ret'[c][q] = raw.map[q]
      BY <2>1 DEF parseAnswerPayload
    <2>3. raw = (Payload[out[c]])'  BY <1>1 DEF raw
    <2> QED BY <1>1, <1>4, <2>2, <2>3 DEF Answered
  <1> QED BY <1>6, <1>7

\* A step leaves the results of a call alone, or it is its reply or its number.
LEMMA ReturnsSteady ==
    ASSUME Calling, [ToolNext]_allVars
    PROVE  \/ UNCHANGED <<ret, taskSeq>>
           \/ \E c \in Calls : Replied(c) /\ UNCHANGED taskSeq
           \/ \E c \in Calls : NumberTask(c)
  <1>1. CASE Outside  BY <1>1, OutsideSteady
  <1>2. ASSUME NEW c \in Calls,
               \/ Start(c) \/ Resolve(c) \/ planGuard(c) \/ FireHook(c) \/ PostHook(c)
               \/ CheckPermission(c) \/ AskApproval(c) \/ Resolved(c) \/ ValidateAsk(c)
        PROVE  UNCHANGED <<ret, taskSeq>>
    BY <1>2 DEF Start, Resolve, planGuard, FireHook, PostHook, CheckPermission, AskApproval,
       Resolved, ValidateAsk, state, jobs
  <1>3. ASSUME NEW c \in Calls,
               \/ Read(c) \/ Truncate(c) \/ Fill(c) \/ Exec(c) \/ EnterPlan(c) \/ Look(c)
               \/ CreateTask(c) \/ UpdateTask(c)
        PROVE  UNCHANGED <<ret, taskSeq>>
    BY <1>3 DEF Read, Truncate, Fill, Exec, EnterPlan, Look, CreateTask, UpdateTask, state
  <1>4. ASSUME NEW c \in Calls, Replied(c) PROVE UNCHANGED taskSeq
    BY <1>4 DEF Replied, state
  <1> QED BY <1>1, <1>2, <1>3, <1>4, Steps

LEMMA QuestionsStep ==
    ASSUME Shape, Calling, Numbered, Results, [ToolNext]_allVars, NEW d \in Calls,
           Asks(d), res'[d] = "ok"
    PROVE  Answered(d)'
  <1>0. [Next]_vars /\ UNCHANGED script  BY ToolProtocol, ScriptSteady
  <1>1. ASSUME res[d] = "ok", ret'[d] = ret[d] PROVE Answered(d)'
    <2>1. Answered(d)  BY <1>1 DEF Results
    <2>2. wait'[d] = "done" /\ out'[d] = out[d]  BY <1>0, <2>1, WaitEnds DEF Answered
    <2> QED BY <1>0, <1>1, <2>1, <2>2, AnsweredKept
  <1>2. CASE Outside
    BY <1>1, <1>2, OutsideSteady
  <1>3. ASSUME NEW c \in Calls, CallStep(c), c # d PROVE Answered(d)'
    BY <1>1, <1>3, OthersSteady
  <1>4. CASE Replied(d)
    <2>1. Moved(d, "ask")  BY <1>4 DEF Replied, Moved
    <2> QED BY <1>4, <2>1, EndsWithAsk, ReplyAnswers
  <1>5. CASE Start(d) \/ AskApproval(d)
    <2>1. res[d] = "ok"
      <3>1. CASE Start(d)  BY <3>1 DEF Start, Calling, Progress
      <3>2. CASE AskApproval(d)  BY <3>2 DEF AskApproval, jobs
      <3> QED BY <1>5, <3>1, <3>2
    <2>2. ret' = ret  BY <1>5 DEF Start, AskApproval, jobs
    <2> QED BY <1>1, <2>1, <2>2
  <1>6. CASE \/ Resolve(d) \/ planGuard(d) \/ FireHook(d) \/ PostHook(d) \/ CheckPermission(d)
             \/ Resolved(d) \/ ValidateAsk(d) \/ Read(d) \/ Truncate(d) \/ Fill(d) \/ Exec(d)
             \/ EnterPlan(d) \/ Look(d) \/ NumberTask(d) \/ CreateTask(d) \/ UpdateTask(d)
    <2>1. PICK s \in {"resolve", "guard", "hook", "post", "gate", "validate", "read", "truncate",
                     "fill", "exec", "plan", "surface", "look", "number", "create", "update"} : Moved(d, s)
      <3>1. CASE Resolve(d) \/ planGuard(d) \/ FireHook(d) \/ PostHook(d) \/ CheckPermission(d) \/ Resolved(d)
        BY <3>1 DEF Resolve, planGuard, FireHook, PostHook, CheckPermission, Resolved, Passed, Moved
      <3>2. CASE ValidateAsk(d) \/ Read(d) \/ Truncate(d) \/ Fill(d) \/ Exec(d) \/ EnterPlan(d)
        BY <3>2 DEF ValidateAsk, Read, Truncate, Fill, Exec, EnterPlan, Moved
      <3>3. CASE Look(d) \/ NumberTask(d) \/ CreateTask(d) \/ UpdateTask(d)
        BY <3>3 DEF Look, NumberTask, CreateTask, UpdateTask, Moved
      <3> QED BY <1>6, <3>1, <3>2, <3>3
    <2> QED BY <2>1, EndsWithAsk
  <1>7. ASSUME NEW c \in Calls, CallStep(c) PROVE Answered(d)'
    <2>1. CASE c = d
      BY <1>2, <1>4, <1>5, <1>6, <1>7, <2>1 DEF CallStep, Outside
    <2> QED BY <1>3, <1>7, <2>1
  <1> QED BY <1>2, <1>7 DEF ToolNext, Outside

\* A number is one more than every number its store has given.
LEMMA ResultsStep ==
    ASSUME Shape, Calling, Numbered, Results, [ToolNext]_allVars
    PROVE  Results'
  <1>0. /\ UNCHANGED script /\ job' = job
        /\ \A c \in Calls : (Creates(c)' <=> Creates(c)) /\ (Asks(c)' <=> Asks(c))
    BY ScriptSteady DEF job, Creates, Asks
  <1>1. \A c \in Calls : (Asks(c) /\ res[c] = "ok" => Answered(c))'
    BY <1>0, QuestionsStep
  <1> DEFINE Given(c) == ret[c] # Nothing => ret[c] \in 1 .. taskSeq[job[c].thread]
             Apart(c, d) == ret[c] # Nothing /\ ret[d] # Nothing /\ c # d
                            /\ job[c].thread = job[d].thread => ret[c] # ret[d]
  <1>2. /\ \A c \in Calls : Creates(c) => Given(c)
        /\ \A c, d \in Calls : Creates(c) /\ Creates(d) => Apart(c, d)
    BY DEF Results
  <1>3. /\ DOMAIN ret = Calls /\ taskSeq \in [Threads -> Nat]
        /\ \A c \in Calls : job[c].thread \in Threads
    BY JobType DEF Calling, Frame
  <1>4. /\ \A c \in Calls : Creates(c) => (Given(c))'
        /\ \A c, d \in Calls : Creates(c) /\ Creates(d) => (Apart(c, d))'
    <2>1. CASE UNCHANGED <<ret, taskSeq>>
      BY <1>0, <1>2, <2>1
    <2>2. ASSUME NEW e \in Calls, Replied(e), UNCHANGED taskSeq
          PROVE  \A c \in Calls : Creates(c) => ret'[c] = ret[c]
      <3>1. ~Creates(e)
        <4>1. Doing(e, "ask")  BY <2>2 DEF Replied
        <4>2. job[e].tool = "AskUserQuestion"  BY <4>1, InStage DEF Ordered
        <4> QED BY <4>2 DEF Creates
      <3> QED BY <1>3, <2>2, <3>1 DEF Replied
    <2>3. CASE \E e \in Calls : Replied(e) /\ UNCHANGED taskSeq
      BY <1>0, <1>2, <2>2, <2>3
    <2>4. ASSUME NEW e \in Calls, NumberTask(e)
          PROVE  /\ \A c \in Calls : Creates(c) => (Given(c))'
                 /\ \A c, d \in Calls : Creates(c) /\ Creates(d) => (Apart(c, d))'
      <3> DEFINE t == job[e].thread  n == taskSeq[t] + 1
      <3>1. taskSeq' = [taskSeq EXCEPT ![t] = n] /\ ret' = [ret EXCEPT ![e] = n]
        BY <1>3, <2>4 DEF NumberTask
      <3>2. n \in Nat /\ n >= 1 /\ n > taskSeq[t]  BY <1>3
      <3>3. /\ ret'[e] = n /\ taskSeq'[t] = n
            /\ \A c \in Calls : c # e => ret'[c] = ret[c]
            /\ \A u \in Threads : taskSeq'[u] >= taskSeq[u] /\ taskSeq'[u] \in Nat
        BY <1>3, <3>1
      <3>4. ASSUME NEW c \in Calls, Creates(c) PROVE (Given(c))'
        BY <1>0, <1>2, <1>3, <3>2, <3>3, <3>4
      <3>5. ASSUME NEW c \in Calls, Creates(c), c # e, job[c].thread = t PROVE ret[c] # n
             \/ ret[c] = Nothing
        BY <1>2, <1>3, <3>2, <3>5
      <3>6. ASSUME NEW c \in Calls, NEW d \in Calls, Creates(c), Creates(d) PROVE (Apart(c, d))'
        BY <1>0, <1>2, <3>3, <3>5, <3>6
      <3> QED BY <3>4, <3>6
    <2> QED BY <2>1, <2>3, <2>4, ReturnsSteady
  <1> QED BY <1>0, <1>1, <1>4 DEF Results
-----------------------------------------------------------------------------
(* The invariant and what it says.                                         *)

LEMMA ToolInitInv == ToolInit => ToolInv
  <1> SUFFICES ASSUME ToolInit PROVE ToolInv
    OBVIOUS
  <1>1. Init /\ Inv  BY InitInv DEF ToolInit
  <1>2. Progress  BY DEF ToolInit, Progress
  <1>3. Frame  BY DEF ToolInit, Frame, GateFields
  <1>4. \A t \in Threads : callSeq[t] = 0  BY DEF ToolInit
  <1>5. Numbered
    <2>1. 0 <= Cardinality(Announced)  BY AnnouncedSize
    <2> QED BY <1>4, <2>1 DEF Numbered, Announced
  <1>6. Results  BY DEF ToolInit, Results
  <1>7. ASSUME NEW c \in Calls PROVE Gating(c) /\ Guarding(c) /\ Fresh(c)
    <2>1. stage[c] = 0 /\ file[c] = Nothing /\ res[c] = "none" /\ gates[c].wrote = Nothing
          /\ gates[c].guard = 0
      BY DEF ToolInit
    <2>2. wait[c] = "new"  BY <1>1 DEF Init
    <2>3. \A s : ~Past(c, s) /\ ~Doing(c, s)  BY <2>1 DEF Past, Doing
    <2>4. job[c].thread \in Threads  BY <1>2, <1>3, JobType DEF Calling
    <2>5. switches[job[c].thread] = 0  BY <2>4 DEF ToolInit
    <2> QED BY <2>1, <2>2, <2>3, <2>5 DEF Gating, Guarding, Fresh
  <1> QED BY <1>1, <1>2, <1>3, <1>5, <1>6, <1>7 DEF ToolInv, Calling

LEMMA ToolStepInv == ToolInv /\ [ToolNext]_allVars => ToolInv'
  <1> SUFFICES ASSUME ToolInv, [ToolNext]_allVars PROVE ToolInv'
    OBVIOUS
  <1>1. /\ Inv /\ Shape /\ Calling /\ Numbered /\ Results /\ (\A c \in Calls : Gating(c))
        /\ (\A c \in Calls : Gating(c) /\ Guarding(c)) /\ (\A c \in Calls : Edits(c) => Fresh(c))
    BY DEF ToolInv, Inv
  <1>2. Inv'  BY <1>1, ToolProtocol, StepInv
  <1>3. Calling'  BY <1>1, ProgressStep, FrameStep DEF Calling
  <1>4. Numbered' /\ Results'  BY <1>1, NumberedStep, ResultsStep
  <1>5. \A c \in Calls : Gating(c)'  BY <1>1, GatingStep
  <1>6. \A c \in Calls : Guarding(c)'  BY <1>1, GuardingStep
  <1>7. \A c \in Calls : (Edits(c) => Fresh(c))'  BY <1>1, FreshStep
  <1> QED BY <1>2, <1>3, <1>4, <1>5, <1>6, <1>7 DEF ToolInv

LEMMA ToolInvariant == ToolSpec => []ToolInv
  BY ToolInitInv, ToolStepInv, PTL DEF ToolSpec

\* Every run of the tools is a run of the approvals alone: what is proved of
\* Approvals holds of the tools that wait for them.
THEOREM ApprovalsImplemented == ToolSpec => Spec
  <1>1. ToolInit => Init  BY DEF ToolInit
  <1>2. ToolInv /\ [ToolNext]_allVars => [Next]_vars  BY ToolProtocol DEF ToolInv
  <1> QED BY <1>1, <1>2, ToolInvariant, PTL DEF ToolSpec, Spec

\* A call that writes, has written or is about to return has done its gates.
LEMMA EffectedPast ==
    ASSUME Calling, NEW c \in Calls, Effected(c)
    PROVE  Past(c, "gate") /\ (job[c].tool # "NotebookEdit" => Past(c, "hook"))
  <1> DEFINE st == Stages(job[c].tool)
  <1>1. /\ job[c].tool \in {"FileEdit", "FileWrite", "NotebookEdit", "Bash"}
        /\ job[c].tool \in Tools /\ stage[c] \in Nat
    BY DEF Effected, Writes, Tools, Gated, Calling, Progress
  <1>2. /\ Len(st) \in Nat
        /\ \A i \in 1 .. Len(st) : st[i] \in {"fill", "post"} => i = Len(st)
        /\ \E j \in 1 .. Len(st) - 1 : st[j] = "gate"
        /\ job[c].tool # "NotebookEdit" => \E j \in 1 .. Len(st) - 1 : st[j] = "hook"
    BY <1>1, Table DEF Ordered
  <1>3. stage[c] >= Len(st) - 1
    <2>1. CASE res[c] = "ok"  BY <1>1, <1>2, <2>1 DEF Calling, Progress
    <2>2. ASSUME NEW s \in {"fill", "post"}, Doing(c, s) PROVE stage[c] >= Len(st) - 1
      <3>1. stage[c] + 1 \in 1 .. Len(st) /\ st[stage[c] + 1] = s  BY <2>2, InStage
      <3>2. stage[c] + 1 = Len(st)  BY <1>2, <3>1
      <3> QED BY <1>1, <1>2, <3>2
    <2> QED BY <2>1, <2>2 DEF Effected
  <1>4. \A j \in 1 .. Len(st) - 1 : j \in 1 .. stage[c]  BY <1>1, <1>2, <1>3
  <1> QED BY <1>2, <1>4 DEF Past

\* A tool changes files only behind its hooks and its permission, inside a
\* sandboxed thread's workspace, and in plan mode only in the plan directory
\* unless the mode changed after planGuard had read it (tools/file.go,
\* tools/bash.go, requireApproval and planGuard of tools/build.go).
THEOREM GatedEffectsHolds == ToolSpec => []GatedEffects
  <1>1. ToolInv => GatedEffects
    <2> SUFFICES ASSUME ToolInv, NEW c \in Calls, Effected(c)
                 PROVE  /\ job[c].tool # "NotebookEdit" => gates[c].hook
                        /\ Permission(c) = "allow" \/ (Permission(c) = "ask" /\ out[c] = "approved")
                        /\ job[c].thread \in Sandboxed /\ gates[c].wrote # Nothing =>
                              IsPrefix(Workspace[job[c].thread], gates[c].wrote)
                        /\ gates[c].mode = "plan" /\ gates[c].at = gates[c].guard
                           /\ gates[c].wrote # Nothing => file[c] # Nothing /\ InPlanDir(file[c])
      BY DEF GatedEffects
    <2>1. Calling /\ Gating(c) /\ Guarding(c)  BY DEF ToolInv
    <2>2. Past(c, "gate") /\ (job[c].tool # "NotebookEdit" => Past(c, "hook"))  BY <2>1, EffectedPast
    <2> QED BY <2>1, <2>2 DEF Gating, Guarding, Permitted, Within, InPlan
  <1> QED BY <1>1, ToolInvariant, PTL

\* However long an edit waited for its approval, it overwrites nothing that was
\* in the file when the approval came and stayed there (tools/file.go: the file
\* is read after the approval).
THEOREM NoClobberHolds == ToolSpec => NoClobber
  <1>1. ToolInv /\ [ToolNext]_allVars =>
           [\A c \in Calls : Edits(c) /\ Doing(c, "fill") /\ res'[c] = "ok" =>
               kept[c] \ {job[c].old} \subseteq disk'[file[c]]]_allVars
    <2> SUFFICES ASSUME ToolInv, [ToolNext]_allVars, NEW d \in Calls, Edits(d), Doing(d, "fill"),
                        res'[d] = "ok"
                 PROVE  kept[d] \ {job[d].old} \subseteq disk'[file[d]]
      OBVIOUS
    <2>1. Calling /\ Fresh(d)  BY DEF ToolInv
    <2>0. res'[d] # res[d]  BY DEF Doing
    <2>2. ~Outside  BY <2>0, OutsideSteady
    <2>3. PICK c \in Calls : CallStep(c)  BY <2>2 DEF ToolNext, Outside
    <2>4. c = d  BY <2>0, <2>1, <2>3, OthersSteady
    <2>5. Fill(d)
      <3>1. CASE Resolve(d) \/ planGuard(d) \/ FireHook(d) \/ PostHook(d) \/ CheckPermission(d) \/ Resolved(d)
        BY <3>1 DEF Resolve, planGuard, FireHook, PostHook, CheckPermission, Resolved, Doing
      <3>2. CASE ValidateAsk(d) \/ Replied(d) \/ Read(d) \/ Truncate(d) \/ Exec(d) \/ EnterPlan(d)
        BY <3>2 DEF ValidateAsk, Replied, Read, Truncate, Exec, EnterPlan, Doing
      <3>3. CASE Look(d) \/ NumberTask(d) \/ CreateTask(d) \/ UpdateTask(d)
        BY <3>3 DEF Look, NumberTask, CreateTask, UpdateTask, Doing
      <3>4. CASE Start(d) \/ AskApproval(d) \/ AskUser(d) \/ Waits(d)
        BY <2>0, <3>4 DEF Start, AskApproval, AskUser, Waits, jobs, Doing
      <3> QED BY <2>3, <2>4, <3>1, <3>2, <3>3, <3>4 DEF CallStep
    <2>6. ~Fail(d)  BY <2>1 DEF Fail, Calling, Progress
    <2>7. disk'[file[d]] = NewContent(d)  BY <2>5, <2>6 DEF Fill, Put
    <2>8. kept[d] \subseteq buf[d]  BY <2>1 DEF Fresh
    <2> QED BY <2>7, <2>8 DEF NewContent
  <1> QED BY <1>1, ToolInvariant, PTL DEF ToolSpec, NoClobber

\* A question returns an answer for each question, as the user gave it or blank,
\* and no two tasks of a store share an id (parseAnswerPayload of
\* runtime/toolagent.go, tools/taskstore.go).
THEOREM ResultsMatchHolds == ToolSpec => []ResultsMatch
  <1>1. ToolInv => ResultsMatch
    <2> SUFFICES ASSUME Results PROVE ResultsMatch
      BY DEF ToolInv
    <2>1. ASSUME NEW c \in Calls, Asks(c), res[c] = "ok"
          PROVE  /\ DOMAIN ret[c] = Asked(c)
                 /\ out[c] # "timeout" /\ Payload[out[c]].kind = "map" =>
                       \A q \in Asked(c) \cap DOMAIN Payload[out[c]].map : ret[c][q] = Payload[out[c]].map[q]
      BY <2>1 DEF Results, Answered
    <2>2. ASSUME NEW c \in Calls, NEW d \in Calls, job[c].tool = "TaskCreate", ret[c] # Nothing,
                 job[d].tool = "TaskCreate", ret[d] # Nothing, c # d, job[c].thread = job[d].thread
          PROVE  ret[c] # ret[d]
      BY <2>2 DEF Results, Creates
    <2> QED BY <2>1, <2>2 DEF ResultsMatch
  <1> QED BY <1>1, ToolInvariant, PTL
=============================================================================
