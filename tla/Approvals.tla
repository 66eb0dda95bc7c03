------------------------------ MODULE Approvals ------------------------------
(***************************************************************************)
(* Tool approvals: the tool call that waits in toolAgent.RequireApproval   *)
(* (service/runtime/toolagent.go), the channels of approvals.Registry      *)
(* (service/approvals/registry.go), and the approveToolCall and            *)
(* denyToolCall mutations (service/graph/schema.tools.resolvers.go).       *)
(* AskUser and answerQuestion are the same protocol on the registry's      *)
(* second map, with an answer for a verdict.  The registry is keyed by a   *)
(* call id; a wait has a channel of its own, and two waits may carry one   *)
(* id: the ids of approvals count from 1 in every runner (tools/build.go). *)
(***************************************************************************)
EXTENDS Integers, Sequences, FiniteSets

CONSTANTS
    Calls,          \* tool calls that need approval
    NoCall,         \* no call
    Ids, NoId,      \* call ids
    Users,          \* goroutines that serve the mutations
    Verdicts,       \* "approved", "denied", or the answers to a question
    MaxVerdicts,    \* bound: mutations sent
    Reasons         \* may a denial carry a reason?

ASSUME ApprovalsAssumption ==
    /\ NoCall \notin Calls /\ NoId \notin Ids
    /\ Verdicts \cap {"none", "cancelled", "timeout"} = {}
    /\ MaxVerdicts \in Nat /\ Reasons \in BOOLEAN

VARIABLES
    wait,           \* the waiter of a call: "new", "pending", "waiting", "leaving", "done"
    out,            \* how its wait ended
    cancelled,      \* calls whose turn was cancelled
    id,             \* the call id a wait was announced under
    reg,            \* Registry.approvals: the wait whose channel an id names
    chan,           \* the channel of a call, capacity 1
    first,          \* history: the verdict a call's channel took first
    meant,          \* history: the verdicts users gave for this very call
    user,           \* a mutation's pc, the call its user looks at, verdict, channel found
    verdicts        \* mutations sent

waiter == <<wait, out, cancelled, id>>
given  == <<first, meant>>
vars   == <<waiter, reg, chan, given, user, verdicts>>

NoUser == [pc |-> "idle", c |-> NoCall, v |-> "none", to |-> NoCall]

Init ==
    /\ wait = [c \in Calls |-> "new"] /\ out = [c \in Calls |-> "none"] /\ cancelled = {}
    /\ id = [c \in Calls |-> NoId] /\ reg = [i \in Ids |-> NoCall]
    /\ chan = [c \in Calls |-> << >>]
    /\ first = [c \in Calls |-> "none"] /\ meant = [c \in Calls |-> {}]
    /\ user = [u \in Users |-> NoUser] /\ verdicts = 0
-----------------------------------------------------------------------------
(* The waiting tool call.                                                  *)

\* The pending event, with the call's id, goes out first ...
Publish(c, i) ==
    /\ wait[c] = "new"
    /\ wait' = [wait EXCEPT ![c] = "pending"]
    /\ id' = [id EXCEPT ![c] = i]
    /\ UNCHANGED <<out, cancelled, reg, chan, given, user, verdicts>>

\* ... then a new channel is registered, over another wait's with this id.
RegisterApproval(c) ==
    /\ wait[c] = "pending"
    /\ reg' = [reg EXCEPT ![id[c]] = c]
    /\ wait' = [wait EXCEPT ![c] = "waiting"]
    /\ UNCHANGED <<out, cancelled, id, chan, given, user, verdicts>>

End(c, o) ==
    /\ wait[c] = "waiting"
    /\ out' = [out EXCEPT ![c] = o]
    /\ wait' = [wait EXCEPT ![c] = "leaving"]
    /\ UNCHANGED <<cancelled, id, reg, given, user, verdicts>>

\* The select of RequireApproval: the turn's context, the 5 minute timer, or
\* the verdict.
Receive(c)   == chan[c] # << >> /\ chan' = [chan EXCEPT ![c] = << >>] /\ End(c, Head(chan[c]))
CtxDone(c)   == c \in cancelled /\ End(c, "cancelled") /\ UNCHANGED chan
TimerDone(c) == End(c, "timeout") /\ UNCHANGED chan

\* Mutant: a timed-out or cancelled wait leaves its channel registered.
UnregisterAnswered(c) ==
    /\ wait[c] = "leaving"
    /\ reg' = [reg EXCEPT ![id[c]] = IF out[c] \in Verdicts THEN NoCall ELSE @]
    /\ wait' = [wait EXCEPT ![c] = "done"]
    /\ UNCHANGED <<out, cancelled, id, chan, given, user, verdicts>>

\* The deferred unregister deletes the id, whichever wait it names by now.
Unregister(c) ==
    /\ wait[c] = "leaving"
    /\ reg' = [reg EXCEPT ![id[c]] = NoCall]
    /\ wait' = [wait EXCEPT ![c] = "done"]
    /\ UNCHANGED <<out, cancelled, id, chan, given, user, verdicts>>

CancelTurn(c) ==
    /\ c \notin cancelled /\ wait[c] # "done"
    /\ cancelled' = cancelled \cup {c}
    /\ UNCHANGED <<wait, out, id, reg, chan, given, user, verdicts>>

\* Mutant: the wait has no timer.
SelectUntimed(c) == Receive(c) \/ CtxDone(c)

Select(c) == Receive(c) \/ CtxDone(c) \/ TimerDone(c)
\* The wait itself, from the registration to the return.
Waiter(c) == RegisterApproval(c) \/ Select(c) \/ Unregister(c)
-----------------------------------------------------------------------------
(* The mutations.                                                          *)

At(u, pc) == user[u].pc = pc
Goto(u, pc) == user' = [user EXCEPT ![u].pc = pc]

\* A user answers a call it has seen pending; a denial with a reason looks up
\* the thread of the wait its id names and stores a message there before it
\* sends the verdict.
Answer(u, c, v, reason) ==
    /\ At(u, "idle") /\ verdicts < MaxVerdicts /\ wait[c] # "new"
    /\ verdicts' = verdicts + 1
    /\ meant' = [meant EXCEPT ![c] = @ \cup {v}]
    /\ LET pc == IF v = "denied" /\ reason /\ reg[id[c]] # NoCall THEN "note" ELSE "lookup"
       IN user' = [user EXCEPT ![u] = [pc |-> pc, c |-> c, v |-> v, to |-> NoCall]]
    /\ UNCHANGED <<waiter, reg, chan, first>>

\* getOrCreateRunner may fail, which ends the mutation without a verdict; an
\* insert error is ignored.  (TurnRunner's Note models the row.)
StoreNote(u) ==
    /\ At(u, "note")
    /\ Goto(u, "lookup") \/ user' = [user EXCEPT ![u] = NoUser]
    /\ UNCHANGED <<waiter, reg, chan, given, verdicts>>

\* SendApproval looks the channel up under the lock.
Lookup(u) ==
    /\ At(u, "lookup")
    /\ LET d == reg[id[user[u].c]]
       IN user' = [user EXCEPT ![u] = IF d = NoCall THEN NoUser
                                      ELSE [pc |-> "send", c |-> @.c, v |-> @.v, to |-> d]]
    /\ UNCHANGED <<waiter, reg, chan, given, verdicts>>

\* Mutant: a later verdict replaces the one in the channel.
SendOver(u) ==
    /\ At(u, "send")
    /\ LET c == user[u].to
       IN /\ chan' = [chan EXCEPT ![c] = <<user[u].v>>]
          /\ first' = [first EXCEPT ![c] = IF @ = "none" THEN user[u].v ELSE @]
    /\ user' = [user EXCEPT ![u] = NoUser]
    /\ UNCHANGED <<waiter, reg, meant, verdicts>>

\* ... and sends outside it; a channel of capacity 1 that is full blocks.
Send(u) ==
    /\ At(u, "send") /\ chan[user[u].to] = << >>
    /\ LET c == user[u].to
       IN /\ chan' = [chan EXCEPT ![c] = <<user[u].v>>]
          /\ first' = [first EXCEPT ![c] = IF @ = "none" THEN user[u].v ELSE @]
    /\ user' = [user EXCEPT ![u] = NoUser]
    /\ UNCHANGED <<waiter, reg, meant, verdicts>>

Mutation(u) == StoreNote(u) \/ Lookup(u) \/ Send(u)

Next ==
    \/ \E c \in Calls, i \in Ids : Publish(c, i)
    \/ \E c \in Calls : Waiter(c) \/ CancelTurn(c)
    \/ \E u \in Users, c \in Calls, v \in Verdicts, reason \in {FALSE, Reasons} : Answer(u, c, v, reason)
    \/ \E u \in Users : Mutation(u)

Spec == Init /\ [][Next]_vars
-----------------------------------------------------------------------------
(* Properties.                                                             *)

\* No other call was announced under the id of c.
Unshared(c) == \A d \in Calls \ {c} : id[d] # id[c]

\* A tool runs on an approval, and is refused on a denial, only when that is
\* the verdict its channel took first, whatever other tabs answer later, and,
\* while its id is its own, only when a user gave that verdict for this call.
FirstVerdict ==
    \A c \in Calls : out[c] \in Verdicts =>
       /\ out[c] = first[c]
       /\ Unshared(c) => out[c] \in meant[c]

\* A call that waits under an id of its own can be answered, however the waits
\* of several calls overlap, and the registry holds the channels of waiting
\* calls only: every way out of the select unregisters.
Registered ==
    /\ \A c \in Calls : wait[c] = "waiting" /\ Unshared(c) => reg[id[c]] = c
    /\ \A i \in Ids : reg[i] # NoCall =>
          id[reg[i]] = i /\ wait[reg[i]] \in {"waiting", "leaving"}

\* An approval is used by the call the user approved.
ApprovedAsShown == \A c \in Calls : out[c] = "approved" => "approved" \in meant[c]
=============================================================================
