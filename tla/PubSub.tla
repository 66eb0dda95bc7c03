------------------------------- MODULE PubSub -------------------------------
(***************************************************************************)
(* The fan-out of events to the browser tabs (service/pubsub): channels    *)
(* with a buffer, sends that never block, and an unsubscription that       *)
(* closes the channel.                                                     *)
(*                                                                         *)
(* Subscribe and Unsubscribe hold the lock for writing.  A publisher holds *)
(* it for reading only: it goes through the list of subscribers one send   *)
(* at a time, with the sends of other publishers of the topic in between,  *)
(* so two tabs may get two publishers' events in different orders.  It     *)
(* gives the lock back with its last send.                                 *)
(*                                                                         *)
(* An event is its number in the log of publications, in the order they    *)
(* took the lock.  What a channel was refused is kept too, with how many   *)
(* events it had been given by then: the code forgets it.                  *)
(***************************************************************************)
EXTENDS Naturals, Sequences, FiniteSets, SequencesExt

CONSTANT BufferSize     \* 16 in the code

ASSUME BufferAssumption == BufferSize \in Nat \ {0}

\* Channels not yet made are absent from the domain of chans; a publication under
\* way is [ev, left], left the channels it has yet to send to.
NewPubSub == [log |-> <<>>, chans |-> <<>>, pubs |-> {}, panicked |-> FALSE]

NewChannel(topic, from) ==
    [topic |-> topic, from |-> from, listed |-> TRUE, open |-> TRUE,
     buf |-> <<>>, seen |-> <<>>, lost |-> {}]

\* Somebody reads the list of the topic; p has a publication under way.
Locked(ps, topic) == \E u \in ps.pubs : ps.log[u.ev].topic = topic
Publishing(ps, p) == \E u \in ps.pubs : ps.log[u.ev].by = p

\* For when the topic is not locked.
Subscribe(ps, topic) == [ps EXCEPT !.chans = Append(@, NewChannel(topic, Len(ps.log)))]

\* Mutant: the channel is closed and stays in the list of subscribers.
UnsubscribeCloses(ps, c) ==
    IF ps.chans[c].listed THEN [ps EXCEPT !.chans[c].open = FALSE] ELSE ps

\* Removed from the list and closed, for when the topic is not locked; a channel
\* that is not listed is left alone.
Unsubscribe(ps, c) ==
    IF ps.chans[c].listed
    THEN [ps EXCEPT !.chans[c].listed = FALSE, !.chans[c].open = FALSE]
    ELSE ps

\* Publisher p takes the lock and goes through the list of subscribers.
Publish(ps, p, topic) ==
    LET subs == {c \in DOMAIN ps.chans : ps.chans[c].listed /\ ps.chans[c].topic = topic}
    IN  [ps EXCEPT !.log = Append(@, [topic |-> topic, by |-> p]),
                   !.pubs = IF subs = {} THEN @ ELSE @ \cup {[ev |-> Len(ps.log) + 1, left |-> subs]}]

\* A send to a full buffer is dropped.
Send(ch, ev) ==
    IF Len(ch.buf) < BufferSize THEN [ch EXCEPT !.buf = Append(@, ev)]
    ELSE [ch EXCEPT !.lost = @ \cup {[ev |-> ev, after |-> Len(ch.seen) + Len(ch.buf)]}]

\* The next send of publication u, in the order of the list; one to a closed channel
\* would panic.
First(u) == {c \in u.left : \A d \in u.left : c <= d}
SendNext(ps, u, c) ==
    [ps EXCEPT !.chans[c] = Send(@, u.ev),
               !.pubs = (@ \ {u}) \cup (IF u.left = {c} THEN {} ELSE {[u EXCEPT !.left = @ \ {c}]}),
               !.panicked = @ \/ ~ps.chans[c].open]

\* The transport takes the oldest event; a closed channel is drained first.
Receive(ps, c) ==
    [ps EXCEPT !.chans[c].seen = Append(@, Head(ps.chans[c].buf)), !.chans[c].buf = Tail(@)]

\* What one subscriber gets: the events of its topic since it subscribed, each at most
\* once and each publisher's in the order it published them.  One is missing only when
\* it met a full buffer, and is then missing at its place among its publisher's events.
Delivered(ps, c) ==
    LET ch    == ps.chans[c]
        kept  == ch.seen \o ch.buf
        due   == {i \in (ch.from + 1)..Len(ps.log) : ps.log[i].topic = ch.topic}
        lost  == {l.ev : l \in ch.lost}
        owed  == {u.ev : u \in {v \in ps.pubs : c \in v.left}}
        by(i) == ps.log[i].by
    IN  /\ \A i, j \in DOMAIN kept : i < j =>
              kept[i] # kept[j] /\ (by(kept[i]) = by(kept[j]) => kept[i] < kept[j])
        /\ Range(kept) \cup lost \subseteq due
        /\ Range(kept) \cap lost = {}
        /\ ch.listed => due = Range(kept) \cup lost \cup owed
        /\ \A l \in ch.lost :
              /\ l.after >= BufferSize
              /\ \A k \in DOMAIN kept : by(kept[k]) = by(l.ev) => (k <= l.after <=> kept[k] < l.ev)
=============================================================================
