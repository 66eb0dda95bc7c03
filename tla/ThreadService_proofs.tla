------------------------ MODULE ThreadService_proofs ------------------------
(***************************************************************************)
(* Any threads, settings, requests and numbers of tabs: the fan-out loses  *)
(* events only behind a full buffer, a live runner is current or about to  *)
(* be stopped, branches keep whole turns, and a reported upload was kept.  *)
(***************************************************************************)
EXTENDS ThreadService, FiniteSetTheorems, SequenceTheorems, WellFoundedInduction, TLAPS
-----------------------------------------------------------------------------
(* The fan-out.                                                            *)

\* A channel: its fields, and whether it is open while it is listed.
ChannelFields == {"topic", "from", "listed", "open", "buf", "seen", "lost"}
Misses(n) == [ev : 1 .. n, after : Nat]
Channel(ch, n) ==
    /\ DOMAIN ch = ChannelFields
    /\ ch.from \in 0 .. n /\ ch.buf \in Seq(1 .. n) /\ ch.seen \in Seq(1 .. n)
    /\ ch.lost \subseteq Misses(n) /\ ch.listed \in BOOLEAN /\ ch.open \in BOOLEAN
    /\ ch.listed => ch.open

\* What a channel was sent, seen from the log, and what it is still owed.
Kept(ch) == ch.seen \o ch.buf
Lost(ch) == {l.ev : l \in ch.lost}
Due(ch, log) == {i \in (ch.from + 1) .. Len(log) : log[i].topic = ch.topic}
Owed(c, pubs) == {u.ev : u \in {v \in pubs : c \in v.left}}

\* Each publisher's events in order, and the missing ones at their places.
Ordered(s, log) ==
    \A i, j \in DOMAIN s : i < j => s[i] # s[j] /\ (log[s[i]].by = log[s[j]].by => s[i] < s[j])
Placed(l, s, log) ==
    /\ l.after >= BufferSize /\ l.after <= Len(s)
    /\ \A k \in DOMAIN s : log[s[k]].by = log[l.ev].by => (k <= l.after <=> s[k] < l.ev)
Exact(ch, log, owed) ==
    /\ Ordered(Kept(ch), log) /\ Range(Kept(ch)) \cup Lost(ch) \subseteq Due(ch, log)
    /\ Range(Kept(ch)) \cap Lost(ch) = {} /\ owed \cap (Range(Kept(ch)) \cup Lost(ch)) = {}
    /\ ch.listed => Due(ch, log) = Range(Kept(ch)) \cup Lost(ch) \cup owed
    /\ \A l \in ch.lost : Placed(l, Kept(ch), log)

\* A publication under way: the last of its publisher, on its way to listed channels.
Topics == {"threads"} \cup Threads
Entries == [topic : Topics, by : Requests]
Latest(u, log) == \A i \in 1 .. Len(log) : log[i].by = log[u.ev].by => i <= u.ev
UnderWay(u, q) ==
    /\ DOMAIN u = {"ev", "left"} /\ u.ev \in 1 .. Len(q.log) /\ u.left \subseteq DOMAIN q.chans
    /\ \A c \in u.left : q.chans[c].listed /\ q.chans[c].topic = q.log[u.ev].topic
    /\ Latest(u, q.log)
    /\ \A v \in q.pubs : v.ev = u.ev => v = u

Fields == {"log", "chans", "pubs", "panicked"}
Sound(q) ==
    /\ DOMAIN q = Fields /\ ~q.panicked
    /\ q.log \in Seq(Entries) /\ DOMAIN q.chans = 1 .. Len(q.chans) /\ Len(q.chans) \in Nat
    /\ \A c \in DOMAIN q.chans :
          Channel(q.chans[c], Len(q.log)) /\ Exact(q.chans[c], q.log, Owed(c, q.pubs))
    /\ \A u \in q.pubs : UnderWay(u, q)

\* One more element.
LEMMA OneMore ==
    ASSUME NEW S, NEW s \in Seq(S), NEW e \in S
    PROVE  /\ Append(s, e) \in Seq(S) /\ Len(Append(s, e)) = Len(s) + 1 /\ Len(s) \in Nat
           /\ DOMAIN s = 1 .. Len(s) /\ DOMAIN Append(s, e) = 1 .. Len(s) + 1
           /\ Append(s, e)[Len(s) + 1] = e
           /\ \A i \in 1 .. Len(s) : Append(s, e)[i] = s[i]
           /\ Range(Append(s, e)) = Range(s) \cup {e}
  <1>1. /\ Append(s, e) \in Seq(S) /\ Len(Append(s, e)) = Len(s) + 1 /\ Len(s) \in Nat
        /\ DOMAIN s = 1 .. Len(s) /\ DOMAIN Append(s, e) = 1 .. Len(s) + 1
        /\ Append(s, e)[Len(s) + 1] = e
        /\ \A i \in 1 .. Len(s) : Append(s, e)[i] = s[i]
    OBVIOUS
  <1>2. \A i \in 1 .. Len(s) + 1 : i \in 1 .. Len(s) \/ i = Len(s) + 1
    BY <1>1
  <1>3. Len(s) + 1 \in 1 .. Len(s) + 1 /\ \A i \in 1 .. Len(s) : i \in 1 .. Len(s) + 1
    BY <1>1
  <1> DEFINE t == Append(s, e)
  <1> HIDE DEF t
  <1>4. Range(t) = Range(s) \cup {e}
    BY <1>1, <1>2, <1>3 DEF Range, t
  <1> QED BY <1>1, <1>4 DEF t

\* Appending to the second of two sequences appends to both.
LEMMA AppendAfter ==
    ASSUME NEW S, NEW s \in Seq(S), NEW t \in Seq(S), NEW e \in S
    PROVE  s \o Append(t, e) = Append(s \o t, e)
  <1>1. s \o t \in Seq(S)  BY ConcatProperties
  <1>2. Append(t, e) = t \o <<e>> /\ Append(s \o t, e) = (s \o t) \o <<e>>
    BY <1>1, AppendIsConcat
  <1>3. <<e>> \in Seq(S)  OBVIOUS
  <1> QED BY <1>2, <1>3, ConcatAssociative

\* What is in a sequence over the numbers to n is one of them.
LEMMA InSeq ==
    ASSUME NEW n \in Nat, NEW s \in Seq(1 .. n)
    PROVE  Len(s) \in Nat /\ DOMAIN s = 1 .. Len(s) /\ (\A k \in 1 .. Len(s) : s[k] \in 1 .. n) /\ Range(s) \subseteq 1 .. n
  <1>1. Len(s) \in Nat /\ DOMAIN s = 1 .. Len(s) /\ \A k \in 1 .. Len(s) : s[k] \in 1 .. n
    BY LenProperties
  <1> QED BY <1>1 DEF Range

\* What a channel was given is of the log.
LEMMA KeptIn ==
    ASSUME NEW n \in Nat, NEW ch, Channel(ch, n)
    PROVE  /\ Kept(ch) \in Seq(1 .. n) /\ Len(Kept(ch)) = Len(ch.seen) + Len(ch.buf)
           /\ Len(ch.seen) \in Nat /\ Len(ch.buf) \in Nat
           /\ Lost(ch) \subseteq 1 .. n /\ \A l \in ch.lost : l.ev \in 1 .. n /\ l.after \in Nat
  <1>1. /\ Kept(ch) \in Seq(1 .. n) /\ Len(Kept(ch)) = Len(ch.seen) + Len(ch.buf)
        /\ Len(ch.seen) \in Nat /\ Len(ch.buf) \in Nat
    BY ConcatProperties, LenProperties DEF Channel, Kept
  <1>2. \A l \in ch.lost : l.ev \in 1 .. n /\ l.after \in Nat  BY DEF Channel, Misses
  <1>3. Lost(ch) \subseteq 1 .. n  BY <1>2 DEF Lost
  <1> QED BY <1>1, <1>2, <1>3

\* One more publication changes nothing of what is said about the ones before.
LEMMA LongerLog ==
    ASSUME NEW log \in Seq(Entries), NEW e \in Entries, NEW ch, NEW owed,
           Channel(ch, Len(log)), Exact(ch, log, owed)
    PROVE  /\ Channel(ch, Len(log) + 1)
           /\ Due(ch, Append(log, e)) = IF e.topic = ch.topic THEN Due(ch, log) \cup {Len(log) + 1} ELSE Due(ch, log)
           /\ Ordered(Kept(ch), Append(log, e))
           /\ \A l \in ch.lost : Placed(l, Kept(ch), Append(log, e))
  <1> DEFINE n == Len(log)  new == Append(log, e)  s == Kept(ch)
  <1>1. /\ n \in Nat /\ Len(new) = n + 1 /\ new[n + 1] = e
        /\ \A i \in 1 .. n : new[i] = log[i]
    BY OneMore
  <1>2. 1 .. n \subseteq 1 .. n + 1 /\ 0 .. n \subseteq 0 .. n + 1  BY <1>1
  <1>3. Channel(ch, n + 1)
    <2>1. Misses(n) \subseteq Misses(n + 1)  BY <1>2 DEF Misses
    <2>2. ch.buf \in Seq(1 .. n + 1) /\ ch.seen \in Seq(1 .. n + 1)  BY <1>2, SeqMonotonic DEF Channel
    <2> QED BY <1>2, <2>1, <2>2 DEF Channel
  <1>4. ch.from \in 0 .. n  BY DEF Channel
  <1>5. (ch.from + 1) .. n + 1 = ((ch.from + 1) .. n) \cup {n + 1}  BY <1>1, <1>4
  <1>6. \A i \in (ch.from + 1) .. n : i \in 1 .. n  BY <1>1, <1>4
  <1>7. /\ s \in Seq(1 .. n) /\ DOMAIN s = 1 .. Len(s) /\ \A k \in 1 .. Len(s) : s[k] \in 1 .. n
    BY <1>1, KeptIn, InSeq
  <1>8. \A l \in ch.lost : l.ev \in 1 .. n  BY <1>1, KeptIn
  <1> HIDE DEF new, s
  <1>9. Due(ch, new) = IF e.topic = ch.topic THEN Due(ch, log) \cup {n + 1} ELSE Due(ch, log)
    BY <1>1, <1>5, <1>6 DEF Due
  <1>10. \A k \in DOMAIN s : new[s[k]] = log[s[k]]  BY <1>1, <1>7
  <1>11. Ordered(s, log) /\ \A l \in ch.lost : Placed(l, s, log)  BY DEF Exact, s
  <1>12. Ordered(s, new)  BY <1>10, <1>11 DEF Ordered
  <1>13. ASSUME NEW l \in ch.lost  PROVE Placed(l, s, new)
    <2>1. new[l.ev] = log[l.ev]  BY <1>1, <1>8
    <2>2. Placed(l, s, log)  BY <1>11
    <2> QED BY <1>10, <2>1, <2>2 DEF Placed
  <1> QED BY <1>3, <1>9, <1>12, <1>13 DEF new, s

\* A publication begins.
LEMMA PublishSound ==
    ASSUME NEW q, Sound(q), NEW topic \in Topics, NEW p \in Requests, ~Publishing(q, p)
    PROVE  Sound(Publish(q, p, topic))
  <1> DEFINE n == Len(q.log)  e == [topic |-> topic, by |-> p]  log == Append(q.log, e)
             subs == {c \in DOMAIN q.chans : q.chans[c].listed /\ q.chans[c].topic = topic}
             u0 == [ev |-> n + 1, left |-> subs]
             pubs == IF subs = {} THEN q.pubs ELSE q.pubs \cup {u0}
             d == Publish(q, p, topic)
  <1>1. /\ DOMAIN q = Fields /\ ~q.panicked /\ q.log \in Seq(Entries)
        /\ DOMAIN q.chans = 1 .. Len(q.chans) /\ Len(q.chans) \in Nat
    BY DEF Sound
  <1>2. /\ DOMAIN d = Fields /\ d.log = log /\ d.chans = q.chans /\ d.panicked = q.panicked
        /\ d.pubs = pubs
    BY <1>1 DEF Publish, Fields
  <1>3. e \in Entries /\ e.topic = topic /\ e.by = p  BY DEF Entries
  <1>4. /\ n \in Nat /\ log \in Seq(Entries) /\ Len(log) = n + 1 /\ log[n + 1] = e
        /\ \A i \in 1 .. n : log[i] = q.log[i]
    BY <1>1, <1>3, OneMore
  <1>5. u0.ev = n + 1 /\ u0.left = subs /\ DOMAIN u0 = {"ev", "left"}  OBVIOUS
  <1>6. \A v \in q.pubs : v.ev \in 1 .. n /\ v.ev # n + 1  BY <1>4 DEF Sound, UnderWay
  <1> HIDE DEF d, log, u0, e
  <1>7. ASSUME NEW c \in DOMAIN q.chans
        PROVE  Channel(q.chans[c], n + 1) /\ Exact(q.chans[c], log, Owed(c, pubs))
    <2> DEFINE ch == q.chans[c]
    <2>1. Channel(ch, n) /\ Exact(ch, q.log, Owed(c, q.pubs))  BY DEF Sound
    <2>2. Owed(c, pubs) = IF c \in subs THEN Owed(c, q.pubs) \cup {n + 1} ELSE Owed(c, q.pubs)
      BY <1>5 DEF Owed
    <2>3. c \in subs <=> ch.listed /\ ch.topic = topic  OBVIOUS
    <2> HIDE DEF subs, pubs, ch
    <2>4. /\ Channel(ch, n + 1) /\ Ordered(Kept(ch), log)
          /\ Due(ch, log) = IF topic = ch.topic THEN Due(ch, q.log) \cup {n + 1} ELSE Due(ch, q.log)
          /\ \A l \in ch.lost : Placed(l, Kept(ch), log)
      BY <1>1, <1>3, <2>1, LongerLog DEF log
    <2>5. n + 1 \notin Range(Kept(ch)) \cup Lost(ch)
      <3>1. Range(Kept(ch)) \cup Lost(ch) \subseteq 1 .. n  BY <1>4, <2>1, KeptIn, InSeq
      <3> QED BY <1>4, <3>1
    <2>6. Exact(ch, log, Owed(c, pubs))  BY <2>1, <2>2, <2>3, <2>4, <2>5 DEF Exact
    <2> QED BY <2>4, <2>6 DEF ch
  <1>8. ASSUME NEW u \in pubs
        PROVE  UnderWay(u, d)
    <2>1. CASE u \in q.pubs
      <3>1. UnderWay(u, q)  BY <2>1 DEF Sound
      <3>2. u.ev \in 1 .. n /\ u.ev \in 1 .. Len(log)  BY <1>4, <3>1 DEF UnderWay
      <3>3. log[u.ev] = q.log[u.ev] /\ log[u.ev].by # p  BY <1>4, <3>2, <2>1 DEF Publishing
      <3>4. \A i \in 1 .. n + 1 : i \in 1 .. n \/ i = n + 1  BY <1>4
      <3>5. Latest(u, log)  BY <1>3, <1>4, <3>1, <3>3, <3>4 DEF Latest, UnderWay
      <3>6. \A v \in pubs : v.ev = u.ev => v = u  BY <3>1, <3>2, <1>5, <1>6, <2>1 DEF UnderWay
      <3> QED BY <1>2, <3>1, <3>2, <3>3, <3>5, <3>6 DEF UnderWay
    <2>2. CASE u = u0
      <3>1. n + 1 \in 1 .. Len(log) /\ Latest(u, log)  BY <1>4, <1>5, <2>2 DEF Latest
      <3>2. \A v \in pubs : v.ev = u.ev => v = u  BY <1>5, <1>6, <2>2
      <3> QED BY <1>2, <1>3, <1>4, <1>5, <2>2, <3>1, <3>2 DEF UnderWay
    <2> QED BY <2>1, <2>2
  <1>9. Sound(d)
    <2> HIDE DEF subs, pubs
    <2> QED BY <1>1, <1>2, <1>4, <1>7, <1>8 DEF Sound
  <1> QED BY <1>9 DEF d

\* An event that is owed to a channel is kept.
LEMMA KeepExact ==
    ASSUME NEW log \in Seq(Entries), NEW ch, NEW owed, NEW u, u.ev \in owed, u.ev \in 1 .. Len(log), Latest(u, log),
           Channel(ch, Len(log)), Exact(ch, log, owed), ch.listed
    PROVE  LET d == [ch EXCEPT !.buf = Append(@, u.ev)]
           IN  Channel(d, Len(log)) /\ Exact(d, log, owed \ {u.ev})
  <1> DEFINE n == Len(log)  d == [ch EXCEPT !.buf = Append(@, u.ev)]  s == Kept(ch)
  <1>1. /\ DOMAIN d = ChannelFields /\ d.buf = Append(ch.buf, u.ev) /\ d.seen = ch.seen /\ d.lost = ch.lost
        /\ d.from = ch.from /\ d.topic = ch.topic /\ d.listed = ch.listed /\ d.open = ch.open
    BY DEF Channel, ChannelFields
  <1> HIDE DEF d
  <1>2. n \in Nat  BY LenProperties
  <1>3. ch.buf \in Seq(1 .. n) /\ ch.seen \in Seq(1 .. n) /\ d.buf \in Seq(1 .. n)
    BY <1>1, OneMore DEF Channel
  <1>4. Channel(d, n)  BY <1>1, <1>3 DEF Channel
  <1>5. Kept(d) = Append(s, u.ev)
    <2> DEFINE a == ch.seen  b == ch.buf  S == 1 .. n  e == u.ev
    <2>0. a \in Seq(S) /\ b \in Seq(S) /\ e \in S  BY <1>3
    <2>1. d.buf = Append(b, e) /\ d.seen = a  BY <1>1
    <2> HIDE DEF S, a, b, e
    <2>2. a \o Append(b, e) = Append(a \o b, e)  BY <2>0, AppendAfter
    <2> QED BY <2>1, <2>2 DEF Kept, a, b, e
  <1>6. /\ s \in Seq(1 .. n) /\ Len(s) \in Nat /\ DOMAIN s = 1 .. Len(s)
        /\ \A k \in 1 .. Len(s) : s[k] \in 1 .. n
    BY <1>2, KeptIn, InSeq
  <1>7. /\ Len(Kept(d)) = Len(s) + 1 /\ DOMAIN Kept(d) = 1 .. Len(s) + 1
        /\ Kept(d)[Len(s) + 1] = u.ev /\ \A i \in 1 .. Len(s) : Kept(d)[i] = s[i]
        /\ Range(Kept(d)) = Range(s) \cup {u.ev}
    BY <1>5, <1>6, OneMore
  <1>8. Due(d, log) = Due(ch, log) /\ Lost(d) = Lost(ch)  BY <1>1 DEF Due, Lost
  <1>9. u.ev \notin Range(s) /\ u.ev \notin Lost(ch)  BY DEF Exact
  <1>10. \A k \in 1 .. Len(s) : s[k] # u.ev /\ (log[s[k]].by = log[u.ev].by => s[k] < u.ev)
    <2> SUFFICES ASSUME NEW k \in 1 .. Len(s)
                 PROVE  s[k] # u.ev /\ (log[s[k]].by = log[u.ev].by => s[k] < u.ev)
      OBVIOUS
    <2>1. s[k] \in Range(s)  BY <1>6 DEF Range
    <2>2. s[k] # u.ev  BY <2>1, <1>9
    <2>3. PICK x \in 1 .. n : x = s[k]  BY <1>6
    <2>4. PICK y \in 1 .. n : y = u.ev  OBVIOUS
    <2>5. log[x].by = log[y].by => x <= y  BY <2>3, <2>4 DEF Latest
    <2> QED BY <1>2, <2>2, <2>3, <2>4, <2>5
  <1>11. \A i \in 1 .. Len(s) + 1 : i \in 1 .. Len(s) \/ i = Len(s) + 1  BY <1>6
  <1> HIDE DEF s
  <1>12. Ordered(Kept(d), log)
    <2> SUFFICES ASSUME NEW i \in 1 .. Len(s) + 1, NEW j \in 1 .. Len(s) + 1, i < j
                 PROVE  Kept(d)[i] # Kept(d)[j] /\ (log[Kept(d)[i]].by = log[Kept(d)[j]].by => Kept(d)[i] < Kept(d)[j])
      BY <1>7 DEF Ordered
    <2>1. i \in 1 .. Len(s)  BY <1>6
    <2>2. CASE j \in 1 .. Len(s)
      <3>1. Kept(d)[i] = s[i] /\ Kept(d)[j] = s[j]  BY <2>1, <2>2, <1>7
      <3>2. Ordered(s, log)  BY DEF Exact, s
      <3>3. s[i] # s[j] /\ (log[s[i]].by = log[s[j]].by => s[i] < s[j])  BY <3>2, <2>1, <2>2, <1>6 DEF Ordered
      <3> QED BY <3>1, <3>3
    <2>3. CASE j = Len(s) + 1
      <3>1. Kept(d)[i] = s[i] /\ Kept(d)[j] = u.ev  BY <2>1, <2>3, <1>7
      <3>2. s[i] # u.ev /\ (log[s[i]].by = log[u.ev].by => s[i] < u.ev)  BY <2>1, <1>10
      <3> QED BY <3>1, <3>2
    <2> QED BY <2>2, <2>3, <1>11
  <1>13. ASSUME NEW l \in ch.lost  PROVE Placed(l, Kept(d), log)
    <2>1. Placed(l, s, log)  BY DEF Exact, s
    <2>2. l.ev \in 1 .. n /\ l.after \in Nat /\ l.ev \in Lost(ch)  BY <1>2, KeptIn DEF Lost
    <2>3. log[l.ev].by = log[u.ev].by => l.ev < u.ev
      <3>1. PICK x \in 1 .. n : x = l.ev  BY <2>2
      <3>2. PICK y \in 1 .. n : y = u.ev  OBVIOUS
      <3>3. x # y  BY <3>1, <3>2, <2>2, <1>9
      <3>4. log[x].by = log[y].by => x <= y  BY <3>1, <3>2 DEF Latest
      <3> QED BY <1>2, <3>1, <3>2, <3>3, <3>4
    <2>4. l.after <= Len(s) /\ l.after >= BufferSize  BY <2>1 DEF Placed
    <2>5. ASSUME NEW k \in 1 .. Len(s) + 1, log[Kept(d)[k]].by = log[l.ev].by
          PROVE  k <= l.after <=> Kept(d)[k] < l.ev
      <3>1. CASE k \in 1 .. Len(s)
        <4>1. Kept(d)[k] = s[k]  BY <3>1, <1>7
        <4> QED BY <4>1, <3>1, <2>1, <2>5, <1>6 DEF Placed
      <3>2. CASE k = Len(s) + 1
        <4>1. Kept(d)[k] = u.ev  BY <3>2, <1>7
        <4>2. ~(k <= l.after)  BY <3>2, <2>2, <2>4, <1>6
        <4>3. l.ev < u.ev  BY <4>1, <2>5, <2>3
        <4>4. l.ev \in Nat /\ u.ev \in Nat  BY <1>2, <2>2
        <4>5. ~(u.ev < l.ev)  BY <4>3, <4>4
        <4> QED BY <4>1, <4>2, <4>5
      <3> QED BY <3>1, <3>2, <1>11
    <2>6. l.after <= Len(s) + 1  BY <2>2, <2>4, <1>6
    <2> QED BY <1>7, <2>4, <2>5, <2>6 DEF Placed
  <1>14. Exact(d, log, owed \ {u.ev})
    <2>1. /\ Range(s) \cup Lost(ch) \subseteq Due(ch, log) /\ Range(s) \cap Lost(ch) = {}
          /\ owed \cap (Range(s) \cup Lost(ch)) = {} /\ Due(ch, log) = Range(s) \cup Lost(ch) \cup owed
      BY DEF Exact, s
    <2> QED BY <1>1, <1>7, <1>8, <1>9, <1>12, <1>13, <2>1 DEF Exact
  <1> QED BY <1>4, <1>14 DEF d

\* An event that is owed to a channel meets a full buffer.
LEMMA LoseExact ==
    ASSUME NEW log \in Seq(Entries), NEW ch, NEW owed, NEW u, u.ev \in owed, u.ev \in 1 .. Len(log), Latest(u, log),
           Channel(ch, Len(log)), Exact(ch, log, owed), ch.listed, ~(Len(ch.buf) < BufferSize)
    PROVE  LET d == [ch EXCEPT !.lost = @ \cup {[ev |-> u.ev, after |-> Len(ch.seen) + Len(ch.buf)]}]
           IN  Channel(d, Len(log)) /\ Exact(d, log, owed \ {u.ev})
  <1> DEFINE n == Len(log)  m == [ev |-> u.ev, after |-> Len(ch.seen) + Len(ch.buf)]
             d == [ch EXCEPT !.lost = @ \cup {m}]  s == Kept(ch)
  <1>1. /\ DOMAIN d = ChannelFields /\ d.buf = ch.buf /\ d.seen = ch.seen /\ d.lost = ch.lost \cup {m}
        /\ d.from = ch.from /\ d.topic = ch.topic /\ d.listed = ch.listed /\ d.open = ch.open
    BY DEF Channel, ChannelFields
  <1>2. n \in Nat  BY LenProperties
  <1>3. /\ s \in Seq(1 .. n) /\ Len(s) \in Nat /\ DOMAIN s = 1 .. Len(s) /\ Len(s) = Len(ch.seen) + Len(ch.buf)
        /\ Len(ch.seen) \in Nat /\ Len(ch.buf) \in Nat /\ \A k \in 1 .. Len(s) : s[k] \in 1 .. n
    BY <1>2, KeptIn, InSeq
  <1>4. m.ev = u.ev /\ m.after = Len(s) /\ m \in Misses(n)  BY <1>3 DEF Misses
  <1> HIDE DEF d, m
  <1>5. Channel(d, n)  BY <1>1, <1>4 DEF Channel
  <1>6. Kept(d) = s /\ Due(d, log) = Due(ch, log)  BY <1>1 DEF Due, Kept
  <1>7. Lost(d) = Lost(ch) \cup {u.ev}  BY <1>1, <1>4 DEF Lost
  <1>8. u.ev \notin Range(s) /\ u.ev \notin Lost(ch)  BY DEF Exact
  <1> HIDE DEF s
  <1>9. Placed(m, s, log)
    <2>1. Len(s) >= BufferSize
      <3>1. \A a, b, c \in Nat : ~(b < c) => a + b >= c  OBVIOUS
      <3>2. BufferSize \in Nat  BY BufferAssumption
      <3> QED BY <1>3, <3>1, <3>2
    <2>2. ASSUME NEW k \in 1 .. Len(s), log[s[k]].by = log[u.ev].by  PROVE k <= Len(s) /\ s[k] < u.ev
      <3>1. s[k] \in Range(s)  BY <1>3 DEF Range
      <3>2. s[k] # u.ev  BY <3>1, <1>8
      <3>3. PICK x \in 1 .. n : x = s[k]  BY <1>3
      <3>4. PICK y \in 1 .. n : y = u.ev  OBVIOUS
      <3>5. x <= y  BY <3>3, <3>4, <2>2 DEF Latest
      <3>6. x # y  BY <3>2, <3>3, <3>4
      <3>7. x < y  BY <1>2, <3>5, <3>6
      <3>8. k <= Len(s)
        <4>1. PICK z \in Nat : z = Len(s)  BY <1>3
        <4>2. k \in 1 .. z  BY <4>1
        <4>3. k <= z  BY <4>2
        <4> QED BY <4>1, <4>3
      <3> QED BY <3>3, <3>4, <3>7, <3>8
    <2>3. Len(s) <= Len(s)  BY <1>3
    <2> QED BY <1>3, <1>4, <2>1, <2>2, <2>3 DEF Placed
  <1>10. Exact(d, log, owed \ {u.ev})
    <2>1. /\ Range(s) \cup Lost(ch) \subseteq Due(ch, log) /\ Range(s) \cap Lost(ch) = {} /\ Ordered(s, log)
          /\ owed \cap (Range(s) \cup Lost(ch)) = {} /\ Due(ch, log) = Range(s) \cup Lost(ch) \cup owed
          /\ \A l \in ch.lost : Placed(l, s, log)
      BY DEF Exact, s
    <2> QED BY <1>1, <1>6, <1>7, <1>8, <1>9, <2>1 DEF Exact
  <1> QED BY <1>5, <1>10 DEF d, m

\* A send, to a full buffer or not.
LEMMA SendExact ==
    ASSUME NEW log \in Seq(Entries), NEW ch, NEW owed, NEW u, u.ev \in owed, u.ev \in 1 .. Len(log), Latest(u, log),
           Channel(ch, Len(log)), Exact(ch, log, owed), ch.listed
    PROVE  /\ Channel(Send(ch, u.ev), Len(log)) /\ Exact(Send(ch, u.ev), log, owed \ {u.ev})
           /\ Send(ch, u.ev).listed = ch.listed /\ Send(ch, u.ev).topic = ch.topic
  <1>1. DOMAIN ch = ChannelFields  BY DEF Channel
  <1>2. Send(ch, u.ev).listed = ch.listed /\ Send(ch, u.ev).topic = ch.topic  BY <1>1 DEF Send, ChannelFields
  <1>3. CASE Len(ch.buf) < BufferSize  BY <1>2, <1>3, KeepExact DEF Send
  <1>4. CASE ~(Len(ch.buf) < BufferSize)  BY <1>2, <1>4, LoseExact DEF Send
  <1> QED BY <1>3, <1>4

\* What a channel kept and lost decides what it was sent.
LEMMA SameExact ==
    ASSUME NEW log, NEW ch, NEW d, NEW owed, Exact(ch, log, owed), Kept(d) = Kept(ch), d.lost = ch.lost,
           d.from = ch.from, d.topic = ch.topic, d.listed => ch.listed
    PROVE  Exact(d, log, owed)
  <1>1. Due(d, log) = Due(ch, log) /\ Lost(d) = Lost(ch)  BY DEF Due, Lost
  <1> QED BY <1>1 DEF Exact

\* A channel changed alone, and taken off the list only when nothing is on its way to it.
LEMMA OneChannel ==
    ASSUME NEW q, Sound(q), NEW c \in DOMAIN q.chans, NEW d,
           Channel(d, Len(q.log)), Exact(d, q.log, Owed(c, q.pubs)), d.topic = q.chans[c].topic,
           d.listed = q.chans[c].listed \/ \A u \in q.pubs : c \notin u.left
    PROVE  Sound([q EXCEPT !.chans = [q.chans EXCEPT ![c] = d]])
  <1> DEFINE r == [q EXCEPT !.chans = [q.chans EXCEPT ![c] = d]]
  <1>1. DOMAIN q = Fields  BY DEF Sound
  <1>2. /\ DOMAIN r = Fields /\ r.log = q.log /\ r.pubs = q.pubs
        /\ r.panicked = q.panicked /\ r.chans = [q.chans EXCEPT ![c] = d]
    BY <1>1 DEF Fields
  <1> HIDE DEF r
  <1>3. DOMAIN r.chans = DOMAIN q.chans /\ r.chans[c] = d
        /\ \A e \in DOMAIN q.chans : e # c => r.chans[e] = q.chans[e]
    BY <1>2
  <1>4. Len(r.chans) = Len(q.chans)  BY <1>3 DEF Sound
  <1>5. ASSUME NEW u \in r.pubs  PROVE UnderWay(u, r)
    <2>1. UnderWay(u, q)  BY <1>2 DEF Sound
    <2>2. ASSUME NEW e \in u.left  PROVE r.chans[e].listed /\ r.chans[e].topic = r.log[u.ev].topic
      <3>1. q.chans[e].listed /\ q.chans[e].topic = q.log[u.ev].topic /\ e \in DOMAIN q.chans  BY <2>1 DEF UnderWay
      <3>2. CASE e = c  BY <1>2, <1>3, <3>1, <3>2
      <3>3. CASE e # c  BY <1>2, <1>3, <3>1, <3>3
      <3> QED BY <3>2, <3>3
    <2> QED BY <1>2, <1>3, <2>1, <2>2 DEF UnderWay
  <1>6. \A e \in DOMAIN r.chans : Channel(r.chans[e], Len(r.log)) /\ Exact(r.chans[e], r.log, Owed(e, r.pubs))
    BY <1>2, <1>3 DEF Sound
  <1>7. Sound(r)  BY <1>2, <1>3, <1>4, <1>5, <1>6 DEF Sound
  <1> QED BY <1>7 DEF r

\* Unsubscribing closes the channel it takes off the list.
LEMMA UnsubscribeSound ==
    ASSUME NEW q, Sound(q), NEW c \in DOMAIN q.chans, ~Locked(q, q.chans[c].topic)
    PROVE  Sound(Unsubscribe(q, c))
  <1> DEFINE ch == q.chans[c]  d == [ch EXCEPT !.listed = FALSE, !.open = FALSE]
  <1>0. CASE ~q.chans[c].listed  BY <1>0 DEF Unsubscribe
  <1>1. CASE q.chans[c].listed
    <2>0. \A u \in q.pubs : c \notin u.left  BY DEF Locked, Sound, UnderWay
    <2>1. Unsubscribe(q, c) = [q EXCEPT !.chans = [q.chans EXCEPT ![c] = d]]
      BY <1>1 DEF Unsubscribe, Sound, Fields
    <2>2. Channel(ch, Len(q.log)) /\ Exact(ch, q.log, Owed(c, q.pubs))  BY DEF Sound
    <2> HIDE DEF ch
    <2>3. /\ DOMAIN d = ChannelFields /\ d.buf = ch.buf /\ d.seen = ch.seen /\ d.lost = ch.lost
          /\ d.from = ch.from /\ d.topic = ch.topic /\ d.listed = FALSE /\ d.open = FALSE
      BY <2>2 DEF Channel, ChannelFields
    <2> HIDE DEF d
    <2>4. Channel(d, Len(q.log))  BY <2>2, <2>3 DEF Channel
    <2>6. Kept(d) = Kept(ch)  BY <2>3 DEF Kept
    <2>5. Exact(d, q.log, Owed(c, q.pubs))  BY <2>2, <2>3, <2>6, SameExact
    <2>7. d.topic = q.chans[c].topic  BY <2>3 DEF ch
    <2> QED BY <2>0, <2>1, <2>4, <2>5, <2>7, OneChannel
  <1> QED BY <1>0, <1>1

\* The head of the second sequence moves to the end of the first.
LEMMA MoveFirst ==
    ASSUME NEW S, NEW s \in Seq(S), NEW t \in Seq(S), t # << >>
    PROVE  /\ Append(s, Head(t)) \o Tail(t) = s \o t
           /\ Append(s, Head(t)) \in Seq(S) /\ Tail(t) \in Seq(S)
  <1>1. Head(t) \in S /\ Tail(t) \in Seq(S) /\ t = <<Head(t)>> \o Tail(t)
    OBVIOUS
  <1>2. Append(s, Head(t)) = s \o <<Head(t)>> /\ <<Head(t)>> \in Seq(S)  BY <1>1, AppendIsConcat
  <1>3. (s \o <<Head(t)>>) \o Tail(t) = s \o (<<Head(t)>> \o Tail(t))
    BY <1>1, <1>2, ConcatAssociative
  <1>4. Append(s, Head(t)) \in Seq(S)  BY <1>1
  <1> QED BY <1>1, <1>2, <1>3, <1>4

\* Receiving moves an event from the buffer to what was seen.
LEMMA ReceiveSound ==
    ASSUME NEW q, Sound(q), NEW c \in DOMAIN q.chans, q.chans[c].buf # << >>
    PROVE  Sound(Receive(q, c))
  <1> DEFINE ch == q.chans[c]  owed == Owed(c, q.pubs)
             d == [ch EXCEPT !.seen = Append(@, Head(ch.buf)), !.buf = Tail(@)]
  <1>1. Receive(q, c) = [q EXCEPT !.chans = [q.chans EXCEPT ![c] = d]]
    BY DEF Receive, Sound, Fields
  <1>2. Channel(ch, Len(q.log)) /\ Exact(ch, q.log, owed) /\ ch.buf # << >>  BY DEF Sound
  <1>a. ch = q.chans[c] /\ owed = Owed(c, q.pubs)  OBVIOUS
  <1> HIDE DEF ch, owed
  <1>3. /\ DOMAIN d = ChannelFields /\ d.buf = Tail(ch.buf) /\ d.seen = Append(ch.seen, Head(ch.buf))
        /\ d.lost = ch.lost /\ d.from = ch.from /\ d.topic = ch.topic
        /\ d.listed = ch.listed /\ d.open = ch.open
    BY <1>2 DEF Channel, ChannelFields
  <1> HIDE DEF d
  <1>4. Kept(d) = Kept(ch) /\ d.seen \in Seq(1 .. Len(q.log)) /\ d.buf \in Seq(1 .. Len(q.log))
    <2> DEFINE a == ch.seen  b == ch.buf  S == 1 .. Len(q.log)
    <2>1. a \in Seq(S) /\ b \in Seq(S) /\ b # << >>  BY <1>2 DEF Channel
    <2> HIDE DEF a, b, S
    <2>2. /\ Append(a, Head(b)) \o Tail(b) = a \o b
          /\ Append(a, Head(b)) \in Seq(S) /\ Tail(b) \in Seq(S)
      BY <2>1, MoveFirst
    <2> QED BY <1>3, <2>2 DEF Kept, a, b, S
  <1>5. Channel(d, Len(q.log))  BY <1>2, <1>3, <1>4 DEF Channel
  <1>6. Exact(d, q.log, owed)  BY <1>2, <1>3, <1>4, SameExact
  <1>7. Sound([q EXCEPT !.chans = [q.chans EXCEPT ![c] = d]])  BY <1>3, <1>5, <1>6, <1>a, OneChannel
  <1> QED BY <1>1, <1>7

\* A publication's next send.
LEMMA SendSound ==
    ASSUME NEW q, Sound(q), NEW u \in q.pubs, NEW c \in u.left
    PROVE  Sound(SendNext(q, u, c))
  <1> DEFINE d == Send(q.chans[c], u.ev)  n == Len(q.log)  more == [u EXCEPT !.left = @ \ {c}]
             pubs == (q.pubs \ {u}) \cup (IF u.left = {c} THEN {} ELSE {more})
             r == SendNext(q, u, c)
  <1>1. DOMAIN q = Fields /\ UnderWay(u, q)  BY DEF Sound
  <1>2. /\ DOMAIN r = Fields /\ r.log = q.log /\ r.pubs = pubs
        /\ r.panicked = (q.panicked \/ ~q.chans[c].open) /\ r.chans = [q.chans EXCEPT ![c] = d]
    BY <1>1 DEF Fields, SendNext
  <1>3. c \in DOMAIN q.chans /\ q.chans[c].listed  BY <1>1 DEF UnderWay
  <1>4. Channel(q.chans[c], n) /\ Exact(q.chans[c], q.log, Owed(c, q.pubs)) /\ q.log \in Seq(Entries)  BY <1>3 DEF Sound
  <1>5. u.ev \in Owed(c, q.pubs) /\ u.ev \in 1 .. n /\ Latest(u, q.log)  BY <1>1 DEF Owed, UnderWay
  <1>6. /\ Channel(d, n) /\ Exact(d, q.log, Owed(c, q.pubs) \ {u.ev})
        /\ d.listed = q.chans[c].listed /\ d.topic = q.chans[c].topic
    <2> DEFINE ch == q.chans[c]  owed == Owed(c, q.pubs)  log == q.log
    <2>1. /\ log \in Seq(Entries) /\ u.ev \in owed /\ u.ev \in 1 .. Len(log) /\ Latest(u, log)
          /\ Channel(ch, Len(log)) /\ Exact(ch, log, owed) /\ ch.listed
      BY <1>3, <1>4, <1>5
    <2> HIDE DEF ch, owed, log
    <2>2. /\ Channel(Send(ch, u.ev), Len(log)) /\ Exact(Send(ch, u.ev), log, owed \ {u.ev})
          /\ Send(ch, u.ev).listed = ch.listed /\ Send(ch, u.ev).topic = ch.topic
      BY <2>1, SendExact, ZenonT(30)
    <2> QED BY <2>2 DEF ch, owed, log
  <1> HIDE DEF d, r
  <1>7. ~r.panicked  BY <1>2, <1>3, <1>4 DEF Sound, Channel
  <1>8. DOMAIN r.chans = DOMAIN q.chans /\ r.chans[c] = d
        /\ \A e \in DOMAIN q.chans : e # c => r.chans[e] = q.chans[e]
    BY <1>2, <1>3
  <1>9. Len(r.chans) = Len(q.chans)  BY <1>8 DEF Sound
  <1>10. more.ev = u.ev /\ more.left = u.left \ {c} /\ DOMAIN more = {"ev", "left"}  BY <1>1 DEF UnderWay
  <1>11. \A v \in q.pubs : v.ev = u.ev => v = u  BY <1>1 DEF UnderWay
  <1> HIDE DEF more
  <1>12. Owed(c, pubs) = Owed(c, q.pubs) \ {u.ev}
    <2>1. ASSUME NEW e \in Owed(c, pubs)  PROVE e \in Owed(c, q.pubs) \ {u.ev}
      <3>1. PICK v \in pubs : c \in v.left /\ v.ev = e  BY DEF Owed
      <3>2. v \in q.pubs /\ v # u  BY <3>1, <1>10
      <3> QED BY <3>1, <3>2, <1>11 DEF Owed
    <2>2. ASSUME NEW e \in Owed(c, q.pubs) \ {u.ev}  PROVE e \in Owed(c, pubs)
      <3>1. PICK v \in q.pubs : c \in v.left /\ v.ev = e  BY DEF Owed
      <3>2. v \in pubs  BY <3>1
      <3> QED BY <3>1, <3>2 DEF Owed
    <2> HIDE DEF pubs
    <2> QED BY <2>1, <2>2
  <1>13. ASSUME NEW e, e # c  PROVE Owed(e, pubs) = Owed(e, q.pubs)
    <2>1. ASSUME NEW i \in Owed(e, pubs)  PROVE i \in Owed(e, q.pubs)
      <3>1. PICK v \in pubs : e \in v.left /\ v.ev = i  BY DEF Owed
      <3>2. CASE v \in q.pubs  BY <3>1, <3>2 DEF Owed
      <3>3. CASE v = more
        <4>1. e \in u.left /\ u.ev = i  BY <3>1, <3>3, <1>10
        <4> QED BY <4>1 DEF Owed
      <3> QED BY <3>2, <3>3
    <2>2. ASSUME NEW i \in Owed(e, q.pubs)  PROVE i \in Owed(e, pubs)
      <3>1. PICK v \in q.pubs : e \in v.left /\ v.ev = i  BY DEF Owed
      <3>2. CASE v # u
        <4>1. v \in pubs  BY <3>2
        <4> QED BY <3>1, <4>1 DEF Owed
      <3>3. CASE v = u
        <4>1. u.left # {c} /\ e \in more.left /\ more.ev = i  BY <3>1, <3>3, <1>10, <1>13
        <4>2. more \in pubs  BY <4>1
        <4> QED BY <4>1, <4>2 DEF Owed
      <3> QED BY <3>2, <3>3
    <2> HIDE DEF pubs
    <2> QED BY <2>1, <2>2
  <1>14. ASSUME NEW v \in pubs  PROVE UnderWay(v, r)
    <2>1. PICK w \in q.pubs : v.ev = w.ev /\ v.left \subseteq w.left /\ DOMAIN v = {"ev", "left"}
                              /\ (v = w \/ (v = more /\ w = u))
      <3>1. CASE v \in q.pubs
        <4>1. UnderWay(v, q)  BY <3>1 DEF Sound
        <4> QED BY <3>1, <4>1 DEF UnderWay
      <3>2. CASE v = more  BY <3>2, <1>10
      <3> QED BY <3>1, <3>2
    <2>2. UnderWay(w, q)  BY DEF Sound
    <2>3. ASSUME NEW e \in v.left  PROVE r.chans[e].listed /\ r.chans[e].topic = r.log[v.ev].topic /\ e \in DOMAIN r.chans
      <3>1. q.chans[e].listed /\ q.chans[e].topic = q.log[w.ev].topic /\ e \in DOMAIN q.chans  BY <2>1, <2>2 DEF UnderWay
      <3>2. CASE e = c  BY <1>2, <1>6, <1>8, <2>1, <3>1, <3>2
      <3>3. CASE e # c  BY <1>2, <1>8, <2>1, <3>1, <3>3
      <3> QED BY <3>2, <3>3
    <2>4. ASSUME NEW x \in pubs, x.ev = v.ev  PROVE x = v
      <3>1. x \in q.pubs \ {u} \/ (x = more /\ u.left # {c})  OBVIOUS
      <3>2. v \in q.pubs \ {u} \/ (v = more /\ u.left # {c})  OBVIOUS
      <3>3. CASE x \in q.pubs \ {u} /\ v \in q.pubs \ {u}  BY <3>3, <2>4 DEF Sound, UnderWay
      <3>4. CASE x \in q.pubs \ {u} /\ v = more  BY <3>4, <2>4, <1>10, <1>11
      <3>5. CASE x = more /\ v \in q.pubs \ {u}  BY <3>5, <2>4, <1>10, <1>11
      <3>6. CASE x = more /\ v = more  BY <3>6
      <3> QED BY <3>1, <3>2, <3>3, <3>4, <3>5, <3>6
    <2>5. v.ev \in 1 .. Len(r.log) /\ Latest(v, r.log)  BY <1>2, <2>1, <2>2 DEF UnderWay, Latest
    <2>6. \A x \in r.pubs : x.ev = v.ev => x = v  BY <1>2, <2>4
    <2>7. v.left \subseteq DOMAIN r.chans  BY <2>3
    <2> QED BY <2>1, <2>3, <2>5, <2>6, <2>7 DEF UnderWay
  <1>15. ASSUME NEW e \in DOMAIN r.chans
         PROVE  Channel(r.chans[e], Len(r.log)) /\ Exact(r.chans[e], r.log, Owed(e, r.pubs))
    <2> HIDE DEF pubs
    <2>1. CASE e = c  BY <2>1, <1>2, <1>6, <1>8, <1>12
    <2>2. CASE e # c  BY <2>2, <1>2, <1>8, <1>13 DEF Sound
    <2> QED BY <2>1, <2>2
  <1>16. Sound(r)
    <2> HIDE DEF pubs
    <2> QED BY <1>2, <1>7, <1>8, <1>9, <1>14, <1>15 DEF Sound
  <1> QED BY <1>16 DEF r

\* A new channel has been sent nothing, is owed nothing and misses nothing.
LEMMA SubscribeSound ==
    ASSUME NEW q, Sound(q), NEW topic \in Topics
    PROVE  Sound(Subscribe(q, topic))
  <1> DEFINE n == Len(q.log)  k == Len(q.chans)  ch == NewChannel(topic, n)
             r == Subscribe(q, topic)
  <1>1. /\ DOMAIN q = Fields /\ q.log \in Seq(Entries) /\ n \in Nat
        /\ DOMAIN q.chans = 1 .. k /\ k \in Nat
    BY LenProperties DEF Sound
  <1>2. /\ DOMAIN r = Fields /\ r.log = q.log /\ r.pubs = q.pubs
        /\ r.panicked = q.panicked /\ r.chans = Append(q.chans, ch)
    BY <1>1 DEF Subscribe, Fields
  <1>3. /\ DOMAIN ch = ChannelFields /\ ch.from = n /\ ch.topic = topic /\ ch.listed = TRUE
        /\ ch.open = TRUE /\ ch.buf = << >> /\ ch.seen = << >> /\ ch.lost = {}
    BY DEF NewChannel, ChannelFields
  <1> HIDE DEF ch, r
  <1>4. Channel(ch, n)
    <2>1. << >> \in Seq(1 .. n)  BY EmptySeq
    <2>2. n \in 0 .. n  BY <1>1
    <2> QED BY <1>3, <2>1, <2>2 DEF Channel
  <1>5. Owed(k + 1, q.pubs) = {}
    <2>1. \A u \in q.pubs : k + 1 \notin u.left  BY <1>1 DEF Sound, UnderWay
    <2> QED BY <2>1 DEF Owed
  <1>6. Exact(ch, q.log, Owed(k + 1, q.pubs))
    <2>1. Kept(ch) = << >>  BY <1>3 DEF Kept
    <2>2. Range(Kept(ch)) = {} /\ Ordered(Kept(ch), q.log)  BY <2>1 DEF Range, Ordered
    <2>3. (n + 1) .. n = {}  BY <1>1
    <2>4. Due(ch, q.log) = {} /\ Lost(ch) = {}  BY <1>3, <2>3 DEF Due, Lost
    <2> QED BY <1>3, <1>5, <2>2, <2>4 DEF Exact
  <1>7. /\ DOMAIN r.chans = 1 .. k + 1 /\ Len(r.chans) = k + 1 /\ r.chans[k + 1] = ch
        /\ \A i \in 1 .. k : r.chans[i] = q.chans[i]
    BY <1>1, <1>2
  <1>8. \A i \in 1 .. k + 1 : i \in 1 .. k \/ i = k + 1  BY <1>1
  <1>9. \A i \in 1 .. k : i \in 1 .. k + 1  BY <1>1
  <1>10. ASSUME NEW u \in q.pubs  PROVE UnderWay(u, r)
    <2>1. UnderWay(u, q)  BY DEF Sound
    <2> QED BY <1>1, <1>2, <1>7, <1>9, <2>1 DEF UnderWay
  <1>11. Sound(r)  BY <1>1, <1>2, <1>4, <1>6, <1>7, <1>8, <1>10 DEF Sound
  <1> QED BY <1>11 DEF r

\* No channels yet.
LEMMA NewSound == Sound(NewPubSub)
  <1>1. << >> \in Seq(Entries)  BY EmptySeq
  <1> QED BY <1>1 DEF Sound, NewPubSub, Fields

\* A sound fan-out delivers.
LEMMA SoundFanout ==
    ASSUME Sound(ps)
    PROVE  Fanout
  <1>1. ASSUME NEW c \in DOMAIN ps.chans  PROVE Delivered(ps, c)
    <2> DEFINE ch == ps.chans[c]
    <2>1. Exact(ch, ps.log, Owed(c, ps.pubs))  BY DEF Sound
    <2> QED BY <2>1 DEF Exact, Ordered, Placed, Kept, Lost, Due, Owed, Delivered
  <1> QED BY <1>1 DEF Sound, Fanout
-----------------------------------------------------------------------------
(* Requests.                                                               *)

\* What a request carries, by what it does and how far it is.
Form(w) ==
    \/ w.op \in Operations /\ w.pc \in {"ready", "done"} /\ DOMAIN w = {"op", "pc"}
    \/ /\ w.op = "create" /\ w.pc \in {"dirs", "publish"} /\ DOMAIN w = {"op", "pc", "t", "settings"}
       /\ w.t \in Spare /\ w.settings \in Settings
    \/ /\ w.op = "update" /\ w.pc \in {"write", "stop"} /\ w.t \in Threads
       /\ DOMAIN w = {"op", "pc", "t", "read", "settings", "stale"}
       /\ w.settings \in Settings \cup {None}
       /\ w.stale \in BOOLEAN /\ (~w.stale => w.settings = w.read)
    \/ /\ w.op \in {"delete", "archive", "approve"} /\ w.pc = "publish" /\ w.t \in Threads
       /\ DOMAIN w = {"op", "pc", "t"}
    \/ /\ w.op \in {"plan", "deny", "resume"} /\ DOMAIN w = {"op", "pc", "t", "via"}
       /\ w.pc \in {"stop", "runner", "build", "run"} /\ w.t \in Threads
       /\ w.pc = "run" => w.via \in Requests
       /\ w.pc = "stop" => w.op = "plan"
    \/ /\ w.op = "send" /\ w.pc \in {"runner", "build", "run", "turn", "called"} /\ w.t \in Threads
       /\ DOMAIN w = {"op", "pc", "t", "via", "call", "cancelled"} /\ w.call \in Nat
       /\ w.pc \in {"run", "turn", "called"} => w.via \in Requests
    \/ /\ w.op = "edit" /\ w.pc \in {"point", "row", "insert"} /\ w.t \in Threads
       /\ DOMAIN w = {"op", "pc", "t", "settings", "at", "snapped", "new"}
       /\ w.at \in Nat /\ w.snapped \in BOOLEAN /\ w.settings \in Settings \cup {None}
       /\ w.pc = "insert" => w.new \in Spare
    \/ /\ w.op = "upload" /\ w.pc = "save" /\ DOMAIN w = {"op", "pc", "t", "left", "out"}
       /\ w.left \in Seq(FileNames)
    \/ w.op = "uploaded" /\ w.pc = "done" /\ DOMAIN w = {"op", "pc", "out"}

\* The shape of the state.
Shape ==
    /\ DOMAIN req = Requests /\ \A r \in Requests : Form(req[r])
    /\ rows \in [Threads -> Rows \cup {None}]
    /\ seq \in [Requests -> Nat] /\ turn \in [Requests -> Requests \cup {None}]
    /\ DOMAIN registry = Threads /\ \A t \in Threads : registry[t] # None => registry[t].by \in Requests
    /\ building \in [Threads -> Builds \cup {None}]
    /\ substrate \in [gen : Nat, stopping : BOOLEAN]
-----------------------------------------------------------------------------
(* Runners.                                                                *)

\* A part of a build, not marked as overtaken, is what is in force.
Reading(t) ==
    building[t] # None /\ t \notin raced =>
       /\ "engine" \in DOMAIN building[t] => building[t].engine = substrate.gen
       /\ "main" \in DOMAIN building[t] => building[t].main = substrate.gen
       /\ "settings" \in DOMAIN building[t] /\ Exists(t) => building[t].settings = rows[t].settings
       /\ "mode" \in DOMAIN building[t] /\ Exists(t) /\ rows[t].mode = "plan" =>
             building[t].mode = "plan" \/ t \in planned

\* A registered runner is that too, or about to be stopped.
Running(t) ==
    registry[t] # None /\ Exists(t) /\ t \notin raced /\ ~substrate.stopping
    /\ (\A r \in Requests : req[r].pc = "stop" => req[r].t # t) =>
       /\ registry[t].engine = substrate.gen /\ registry[t].main = substrate.gen
       /\ registry[t].settings = rows[t].settings
       /\ rows[t].mode = "plan" => registry[t].mode = "plan" \/ t \in planned

\* No row: nothing was built from one.
Unborn(t) ==
    rows[t] = None => registry[t] = None /\ (building[t] # None => "settings" \notin DOMAIN building[t])

\* A build belongs to the request that began it.
Builder == \A r \in Requests : req[r].pc = "build" => building[req[r].t] # None /\ building[req[r].t].by = r

\* Nothing that is excused is forgotten.
Grows == raced \subseteq raced' /\ planned \subseteq planned'

RunnerInv == Builder /\ \A t \in Threads : Reading(t) /\ Running(t) /\ Unborn(t)
-----------------------------------------------------------------------------
(* Messages and branches.                                                  *)

\* Messages of a turn that has begun, at positions minted for it.
Begun(u) == req[u].pc = "done" \/ (req[u].op = "send" /\ req[u].pc \in {"turn", "called"})
MessageShape ==
    /\ \A m \in msgs : /\ DOMAIN m = {"thread", "pos", "turn", "kind"}
                       /\ m.thread \in Threads /\ m.pos \in Nat /\ m.turn \in Requests /\ Begun(m.turn)
    /\ \E n \in Nat : \A m \in msgs : m.pos <= n

\* A turn's first message is the user's, if it has one.
Lead(f, m) == f.kind = "user" /\ m.turn = f.turn => f.pos <= m.pos
Counting ==
    /\ \A x \in Requests : turn[x] # None => Begun(turn[x]) /\ \A f \in msgs : f.kind = "user" /\ f.turn = turn[x] => f.pos <= seq[x]
    /\ \A r \in Requests : req[r].op = "send" /\ req[r].pc \in {"turn", "called"} => turn[req[r].via] = r
    /\ \A r \in Requests : req[r].op = "send" /\ req[r].pc = "called" =>
          \A f \in msgs : f.kind = "user" /\ f.turn = r => f.pos <= req[r].call
Leading == \A f, m \in msgs : Lead(f, m)

\* The first stored message of a turn is at p; for good, if it is the user's.
Triggered(t, u) == \E f \in Stored(t) : f.kind = "user" /\ f.turn = u
Anchor(t, p) ==
    \E m \in Stored(t) : m.pos = p /\ (Triggered(t, m.turn) => \A n \in Stored(t) : n.turn = m.turn => n.pos >= p)
Branches ==
    /\ \A b \in Threads : Exists(b) /\ rows[b].parent # None =>
          Exists(rows[b].parent) /\ (rows[b].snapped => Anchor(rows[b].parent, rows[b].point))
    /\ \A r \in Requests : req[r].op = "edit" /\ req[r].pc = "row" /\ req[r].snapped /\ Exists(req[r].t) =>
          Anchor(req[r].t, req[r].at)
    /\ \A r \in Requests : req[r].op = "edit" /\ req[r].pc \in {"point", "row"} => rows[req[r].t] # None

BranchInv == MessageShape /\ Counting /\ Leading /\ Branches
-----------------------------------------------------------------------------
(* Uploads.                                                                *)

\* A name that sanitizing leaves alone.
Plain(name) == name # << >> /\ sanitizeFilename(name) = name
Odd(name) == Head(name) = " " \/ (Len(name) = MaxName /\ (Last(name) = " " \/ Stem(name) \in Reserved))
UploadInv ==
    \A r \in Requests : req[r].op \in {"upload", "uploaded"} /\ req[r].pc # "ready" =>
       \A f \in req[r].out : f \in files /\ f.size <= Limit /\ (Plain(f.name) \/ Odd(f.name))
-----------------------------------------------------------------------------
(* The shape is kept.                                                      *)

\* The steps, by what they are about.
RunnerStep(r) == GetOrBuild(r) \/ BuildReads(r) \/ BuildEnds(r) \/ StopRunner(r)
RowStep(r) ==
    \/ \E ok \in BOOLEAN : CreateDirs(r, ok)
    \/ \E id \in Spare, s \in Settings : CreateThread(r, id, s)
    \/ UpdateWrite(r) \/ PublishThreadState(r) \/ PublishAgentState(r) \/ SetMode(r)
    \/ \E t \in Threads :
          \/ \E s \in Settings \cup {None} : UpdateGet(r, t, s)
          \/ DeleteThread(r, t) \/ EnterPlanMode(r, t) \/ ApprovePlan(r, t)
          \/ \E on \in BOOLEAN : ArchiveThread(r, t, on)
TurnStep(r) ==
    \/ \E t \in Threads : SendMessage(r, t) \/ \E op \in {"deny", "resume"} : Note(r, op, t)
    \/ TurnBegins(r) \/ ToolCall(r) \/ ToolResult(r) \/ TurnEnds(r) \/ PublishRetryStatus(r)
    \/ Denial(r) \/ Correction(r)
EditStep(r) ==
    \/ \E t \in Threads : \E p \in 0 .. MaxPositions : EditMessage(r, t, p)
    \/ EditPoint(r) \/ (\E id \in Spare : EditRow(r, id)) \/ EditInsert(r)
Sent == {<<f>> : f \in FileNames} \cup {<<f, g>> : f, g \in FileNames}
UploadStep(r) ==
    \/ \E t \in Threads : \E sent \in Sent : Upload(r, t, sent)
    \/ (\E ok \in BOOLEAN : SaveHeader(r, ok)) \/ Uploaded(r)
TabStep ==
    \/ \E topic \in Topics : TabSubscribes(topic)
    \/ \E c \in DOMAIN ps.chans : TabReceives(c) \/ TabCloses(c)
    \/ SendEvent

\* Every step is one of these.
LEMMA Steps ==
    ASSUME [Next]_vars
    PROVE  \/ \E r \in Requests : RunnerStep(r) \/ RowStep(r) \/ TurnStep(r) \/ EditStep(r) \/ UploadStep(r)
           \/ Reload \/ StopAll \/ TabStep \/ UNCHANGED vars
  BY DEF Next, RunnerStep, RowStep, TurnStep, EditStep, UploadStep, Sent, TabStep, Topics

Forms == DOMAIN req = Requests /\ \A r \in Requests : Form(req[r])

\* One request goes on.
LEMMA Goes ==
    ASSUME Forms, NEW r \in Requests, NEW w, Form(w), req' = [req EXCEPT ![r] = w]
    PROVE  Forms'
  BY DEF Forms

\* A request that returned.
LEMMA Returns ==
    ASSUME Forms, NEW r \in Requests, Return(r)
    PROVE  Forms'
  <1>1. Form(Done)  BY DEF Form, Done, Operations
  <1> QED BY <1>1, Goes DEF Return

\* A request goes on in its own form.
LEMMA FormGoto ==
    ASSUME NEW w, Form(w), NEW pc, w.pc \notin {"ready", "done"},
           w.op \in {"create", "update", "plan", "deny", "resume", "send"},
           w.op = "create" => w.pc = "dirs" /\ pc = "publish",
           w.op = "update" => w.pc = "write" /\ pc = "stop",
           w.op \in {"plan", "deny", "resume"} => w.pc \in {"stop", "runner"} /\ pc \in {"runner", "build"},
           w.op = "send" => \/ w.pc = "runner" /\ pc = "build"
                            \/ w.pc \in {"run", "called"} /\ pc = "turn"
    PROVE  Form([w EXCEPT !.pc = pc])
  BY DEF Form, Operations

\* Going on with a runner keeps the form.
LEMMA FormUse ==
    ASSUME NEW w, Form(w), NEW x \in Requests, w.pc \in {"runner", "build"}
    PROVE  Form([w EXCEPT !.pc = "run", !.via = x])
  BY DEF Form, Operations

\* Goto and its effect on one request.
LEMMA GoesOn ==
    ASSUME Forms, NEW r \in Requests, NEW pc, Goto(r, pc), Form([req[r] EXCEPT !.pc = pc])
    PROVE  Forms'
  <1>1. req' = [req EXCEPT ![r] = [req[r] EXCEPT !.pc = pc]]  BY DEF Goto
  <1> QED BY <1>1, Goes

\* Use and its effect on one request.
LEMMA Uses ==
    ASSUME Forms, NEW r \in Requests, NEW x \in Requests, Use(r, x), req[r].pc \in {"runner", "build"}
    PROVE  Forms'
  <1>1. req' = [req EXCEPT ![r] = [req[r] EXCEPT !.pc = "run", !.via = x]]  BY DEF Use, Forms
  <1>2. Form([req[r] EXCEPT !.pc = "run", !.via = x])  BY FormUse DEF Forms
  <1> QED BY <1>1, <1>2, Goes

Waiting(r) == req[r].op \in {"plan", "deny", "resume", "send"}

\* The steps of the registry keep the forms.
LEMMA FormRunner ==
    ASSUME Shape, NEW r \in Requests, RunnerStep(r)
    PROVE  Forms'
  <1>0. Forms /\ Form(req[r])  BY DEF Shape, Forms
  <1>1. req[r].pc \in {"runner", "build"} => Waiting(r) /\ req[r].t \in Threads  BY <1>0 DEF Form, Operations, Waiting
  <1>2. ASSUME GetOrBuild(r)  PROVE Forms'
    <2>1. req[r].pc = "runner"  BY <1>2 DEF GetOrBuild
    <2>2. CASE registry[req[r].t] # None
      <3>1. registry[req[r].t].by \in Requests  BY <2>1, <2>2, <1>1 DEF Shape
      <3>2. Use(r, registry[req[r].t].by)  BY <1>2, <2>2 DEF GetOrBuild
      <3> QED BY <3>1, <3>2, <2>1, <1>0, Uses
    <2>3. CASE registry[req[r].t] = None
      <3>1. Goto(r, "build")  BY <1>2, <2>3 DEF GetOrBuild
      <3>2. Form([req[r] EXCEPT !.pc = "build"])  BY <2>1, <1>0, <1>1, FormGoto DEF Waiting
      <3> QED BY <3>1, <3>2, <1>0, GoesOn
    <2> QED BY <2>2, <2>3
  <1>3. ASSUME BuildReads(r)  PROVE Forms'
    <2>1. UNCHANGED req \/ Return(r)  BY <1>3 DEF BuildReads
    <2> QED BY <2>1, <1>0, Returns DEF Forms
  <1>4. ASSUME BuildEnds(r)  PROVE Forms'
    BY <1>4, <1>0, Uses DEF BuildEnds
  <1>5. ASSUME StopRunner(r)  PROVE Forms'
    <2>1. req[r].pc = "stop" /\ DOMAIN req' = Requests  BY <1>5 DEF StopRunner
    <2>2. Form(Done)  BY DEF Form, Done, Operations
    <2>3. req[r].op = "plan" => Form([req[r] EXCEPT !.pc = "runner"])  BY <2>1, <1>0, FormGoto
    <2>4. Form(req'[r])  BY <1>5, <2>2, <2>3 DEF StopRunner
    <2>5. ASSUME NEW u \in Requests, u # r  PROVE Form(req'[u])
      <3>1. Form(req[u])  BY <1>0 DEF Forms
      <3>2. u \in InTurn(registry[req[r].t].by) => Form([req[u] EXCEPT !.cancelled = TRUE])
        BY <3>1 DEF InTurn, Form, Operations
      <3>3. req'[u] = req[u] \/ (u \in InTurn(registry[req[r].t].by) /\ req'[u] = [req[u] EXCEPT !.cancelled = TRUE])
        BY <1>5, <2>5 DEF StopRunner
      <3> QED BY <3>1, <3>2, <3>3
    <2> QED BY <2>1, <2>4, <2>5 DEF Forms
  <1> QED BY <1>2, <1>3, <1>4, <1>5 DEF RunnerStep

\* The steps on rows keep the forms.
LEMMA FormRow ==
    ASSUME Shape, NEW r \in Requests, RowStep(r)
    PROVE  Forms'
  <1>0. Forms /\ Form(req[r])  BY DEF Shape, Forms
  <1>1. ASSUME NEW ok \in BOOLEAN, CreateDirs(r, ok)  PROVE Forms'
    <2>1. Return(r) \/ Goto(r, "publish")  BY <1>1 DEF CreateDirs
    <2>2. Form([req[r] EXCEPT !.pc = "publish"])  BY <1>1, <1>0, FormGoto DEF CreateDirs, At
    <2> QED BY <2>1, <2>2, <1>0, Returns, GoesOn
  <1>2. ASSUME NEW id \in Spare, NEW s \in Settings, CreateThread(r, id, s)  PROVE Forms'
    <2>1. Form([op |-> "create", pc |-> "dirs", t |-> id, settings |-> s])  BY DEF Form
    <2> QED BY <2>1, <1>0, <1>2, Goes DEF CreateThread
  <1>3. ASSUME UpdateWrite(r)  PROVE Forms'
    <2>1. Return(r) \/ Goto(r, "stop")  BY <1>3 DEF UpdateWrite
    <2>2. Form([req[r] EXCEPT !.pc = "stop"])  BY <1>3, <1>0, FormGoto DEF UpdateWrite, At
    <2> QED BY <2>1, <2>2, <1>0, Returns, GoesOn
  <1>4. ASSUME PublishThreadState(r) \/ PublishAgentState(r) \/ SetMode(r)  PROVE Forms'
    BY <1>4, <1>0, Returns DEF PublishThreadState, PublishAgentState, SetMode, Forms
  <1>5. ASSUME NEW t \in Threads, NEW s \in Settings \cup {None}, UpdateGet(r, t, s)  PROVE Forms'
    <2>1. rows[t].settings \in Settings \cup {None}  BY <1>5 DEF UpdateGet, Exists, Shape, Rows
    <2>2. PICK e : e = rows[t].settings  OBVIOUS
    <2>3. PICK g : g = IF s = None THEN e ELSE s  OBVIOUS
    <2>4. PICK z \in BOOLEAN : z = (s # None /\ s # e)  OBVIOUS
    <2>5. Form([op |-> "update", pc |-> "write", t |-> t, read |-> e, settings |-> g, stale |-> z])
      BY <2>1, <2>2, <2>3, <2>4 DEF Form
    <2>6. req' = [req EXCEPT ![r] = [op |-> "update", pc |-> "write", t |-> t, read |-> e, settings |-> g, stale |-> z]]
      BY <1>5, <2>2, <2>3, <2>4 DEF UpdateGet
    <2> QED BY <2>5, <2>6, <1>0, Goes
  <1>6. ASSUME NEW t \in Threads, DeleteThread(r, t)  PROVE Forms'
    <2>1. Form([op |-> "delete", pc |-> "publish", t |-> t])  BY DEF Form
    <2>2. Return(r) \/ req' = [req EXCEPT ![r] = [op |-> "delete", pc |-> "publish", t |-> t]]  BY <1>6 DEF DeleteThread
    <2> QED BY <2>1, <2>2, <1>0, Returns, Goes
  <1>7. ASSUME NEW t \in Threads, EnterPlanMode(r, t)  PROVE Forms'
    <2>1. Form([op |-> "plan", pc |-> "stop", t |-> t, via |-> None])  BY DEF Form
    <2>2. Return(r) \/ req' = [req EXCEPT ![r] = [op |-> "plan", pc |-> "stop", t |-> t, via |-> None]]
      BY <1>7 DEF EnterPlanMode
    <2> QED BY <2>1, <2>2, <1>0, Returns, Goes
  <1>8. ASSUME NEW t \in Threads, ApprovePlan(r, t)  PROVE Forms'
    <2>1. Form([op |-> "approve", pc |-> "publish", t |-> t])  BY DEF Form
    <2>2. Return(r) \/ req' = [req EXCEPT ![r] = [op |-> "approve", pc |-> "publish", t |-> t]]  BY <1>8 DEF ApprovePlan
    <2> QED BY <2>1, <2>2, <1>0, Returns, Goes
  <1>9. ASSUME NEW t \in Threads, NEW on \in BOOLEAN, ArchiveThread(r, t, on)  PROVE Forms'
    <2>1. Form([op |-> "archive", pc |-> "publish", t |-> t])  BY DEF Form
    <2> QED BY <2>1, <1>9, <1>0, Goes DEF ArchiveThread
  <1> QED BY <1>1, <1>2, <1>3, <1>4, <1>5, <1>6, <1>7, <1>8, <1>9 DEF RowStep

\* The steps of turns keep the forms.
LEMMA FormTurn ==
    ASSUME Shape, NEW r \in Requests, TurnStep(r)
    PROVE  Forms'
  <1>0. Forms /\ Form(req[r])  BY DEF Shape, Forms
  <1>1. ASSUME NEW t \in Threads, SendMessage(r, t)  PROVE Forms'
    <2>1. Form([op |-> "send", pc |-> "runner", t |-> t, via |-> None, call |-> 0, cancelled |-> FALSE])  BY DEF Form
    <2> QED BY <2>1, <1>1, <1>0, Goes DEF SendMessage
  <1>2. ASSUME NEW t \in Threads, NEW op \in {"deny", "resume"}, Note(r, op, t)  PROVE Forms'
    <2>1. Form([op |-> op, pc |-> "runner", t |-> t, via |-> None])  BY DEF Form
    <2> QED BY <2>1, <1>2, <1>0, Goes DEF Note
  <1>3. ASSUME TurnBegins(r)  PROVE Forms'
    <2>1. Return(r) \/ Goto(r, "turn")  BY <1>3 DEF TurnBegins
    <2>2. Form([req[r] EXCEPT !.pc = "turn"])  BY <1>3, <1>0, FormGoto DEF TurnBegins, At
    <2> QED BY <2>1, <2>2, <1>0, Returns, GoesOn
  <1>4. ASSUME ToolCall(r)  PROVE Forms'
    <2>0. req[r].op = "send" /\ req[r].pc = "turn" /\ DOMAIN req = Requests  BY <1>4, <1>0 DEF ToolCall, At, Forms
    <2>1. req[r].via \in Requests  BY <2>0, <1>0 DEF Form, Operations
    <2>2. PICK n \in Nat : n = seq[req[r].via] + 1  BY <2>1 DEF Shape
    <2>3. Form([req[r] EXCEPT !.pc = "called", !.call = n])  BY <2>0, <2>2, <1>0 DEF Form, Operations
    <2>4. req' = [req EXCEPT ![r].pc = "called", ![r].call = n]  BY <1>4, <2>2 DEF ToolCall
    <2>5. req' = [req EXCEPT ![r] = [req[r] EXCEPT !.pc = "called", !.call = n]]  BY <2>0, <2>4
    <2> QED BY <2>3, <2>5, <1>0, Goes
  <1>5. ASSUME ToolResult(r)  PROVE Forms'
    <2>1. Form([req[r] EXCEPT !.pc = "turn"])  BY <1>5, <1>0, FormGoto DEF ToolResult, At
    <2> QED BY <2>1, <1>0, <1>5, GoesOn DEF ToolResult
  <1>6. ASSUME TurnEnds(r) \/ Denial(r) \/ Correction(r)  PROVE Forms'
    BY <1>6, <1>0, Returns DEF TurnEnds, Denial, Correction
  <1>7. ASSUME PublishRetryStatus(r)  PROVE Forms'
    BY <1>7, <1>0 DEF PublishRetryStatus, Forms
  <1> QED BY <1>1, <1>2, <1>3, <1>4, <1>5, <1>6, <1>7 DEF TurnStep

-----------------------------------------------------------------------------
(* Least and greatest positions.                                           *)

\* The least of some numbers.
LEMMA LeastNat ==
    ASSUME NEW S \in SUBSET Nat, S # {}
    PROVE  Min(S) \in S /\ \A y \in S : Min(S) <= y
  <1>1. PICK x \in S : \A y \in S : ~(<<y, x>> \in OpToRel(<, Nat))
    BY NatLessThanWellFounded, WFMin
  <1>2. \A y \in S : x <= y
    <2> SUFFICES ASSUME NEW y \in S  PROVE x <= y  OBVIOUS
    <2>1. x \in Nat /\ y \in Nat  OBVIOUS
    <2>2. ~(<<y, x>> \in OpToRel(<, Nat))  BY <1>1
    <2>3. ~(y < x)  BY <2>1, <2>2 DEF OpToRel
    <2> QED BY <2>1, <2>3
  <1> QED BY <1>2 DEF Min

\* The greatest of some numbers with a bound.
LEMMA GreatestNat ==
    ASSUME NEW S \in SUBSET Nat, S # {}, NEW n \in Nat, \A y \in S : y <= n
    PROVE  Max(S) \in S /\ \A y \in S : y <= Max(S)
  <1> DEFINE D == {n - y : y \in S}
  <1>0. \A y \in S : n - y \in Nat  OBVIOUS
  <1>1. D \in SUBSET Nat /\ D # {}  BY <1>0
  <1> HIDE DEF D
  <1>2. Min(D) \in D /\ \A d \in D : Min(D) <= d  BY <1>1, LeastNat
  <1>3. PICK x \in S : Min(D) = n - x  BY <1>2 DEF D
  <1>4. \A y \in S : n - y \in D  BY DEF D
  <1>5. \A y \in S : n - x <= n - y  BY <1>2, <1>3, <1>4
  <1>6. \A y \in S : y <= x  BY <1>5
  <1> QED BY <1>6 DEF Max

\* A branch point is a position; where a message is stored, the first of its turn.
LEMMA TurnStart ==
    ASSUME MessageShape, NEW t, NEW p \in Nat
    PROVE  /\ TurnStartPosition(t, p) \in Nat
           /\ (\E m \in Stored(t) : m.pos = p) =>
                \E m \in Stored(t) : /\ m.pos = TurnStartPosition(t, p)
                                     /\ \A n \in Stored(t) : n.turn = m.turn => n.pos >= m.pos
  <1> DEFINE at == {m.turn : m \in {n \in Stored(t) : n.pos = p}}
             u == CHOOSE w \in at : TRUE
             P == {m.pos : m \in {n \in Stored(t) : n.turn = u}}
  <1>1. TurnStartPosition(t, p) = IF at = {} THEN p ELSE Min(P)  BY DEF TurnStartPosition
  <1>2. \A m \in Stored(t) : m.pos \in Nat  BY DEF Stored, MessageShape
  <1>3. ASSUME at # {}
        PROVE  /\ Min(P) \in Nat
               /\ \E m \in Stored(t) : m.pos = Min(P) /\ \A n \in Stored(t) : n.turn = m.turn => n.pos >= m.pos
    <2>1. u \in at  BY <1>3
    <2>2. PICK n \in Stored(t) : n.turn = u  BY <2>1
    <2> HIDE DEF u
    <2>3. P \in SUBSET Nat /\ P # {}  BY <1>2, <2>2
    <2>4. \A n2 \in Stored(t) : n2.turn = u => n2.pos \in P  OBVIOUS
    <2> HIDE DEF P
    <2>5. Min(P) \in P /\ \A y \in P : Min(P) <= y  BY <2>3, LeastNat
    <2>6. PICK m \in Stored(t) : m.turn = u /\ m.pos = Min(P)  BY <2>5 DEF P
    <2>7. \A n2 \in Stored(t) : n2.turn = u => Min(P) <= n2.pos  BY <2>4, <2>5
    <2>8. \A n2 \in Stored(t) : n2.turn = m.turn => n2.pos >= m.pos  BY <2>6, <2>7, <1>2
    <2> QED BY <2>3, <2>5, <2>6, <2>8
  <1>4. (\E m \in Stored(t) : m.pos = p) => at # {}  OBVIOUS
  <1> HIDE DEF at, P
  <1> QED BY <1>1, <1>3, <1>4

\* The steps of an edit keep the forms.
LEMMA FormEdit ==
    ASSUME Shape, MessageShape, NEW r \in Requests, EditStep(r)
    PROVE  Forms'
  <1>0. Forms /\ Form(req[r]) /\ DOMAIN req = Requests  BY DEF Shape, Forms
  <1>1. ASSUME NEW t \in Threads, NEW p \in 0 .. MaxPositions, EditMessage(r, t, p)  PROVE Forms'
    <2>1. PICK e \in Settings \cup {None} : e = rows[t].settings  BY <1>1 DEF EditMessage, Exists, Shape, Rows
    <2>2. p \in Nat  BY ThreadAssumption
    <2>3. Form([op |-> "edit", pc |-> "point", t |-> t, settings |-> e, at |-> p, snapped |-> FALSE, new |-> None])
      BY <2>1, <2>2 DEF Form
    <2>4. req' = [req EXCEPT ![r] = [op |-> "edit", pc |-> "point", t |-> t, settings |-> e,
                                     at |-> p, snapped |-> FALSE, new |-> None]]
      BY <1>1, <2>1 DEF EditMessage
    <2> QED BY <2>3, <2>4, <1>0, Goes
  <1>2. ASSUME EditPoint(r)  PROVE Forms'
    <2>1. req[r].op = "edit" /\ req[r].pc = "point"  BY <1>2 DEF EditPoint, At
    <2>2. req[r].at \in Nat  BY <2>1, <1>0 DEF Form, Operations
    <2>3. PICK p \in Nat : p = TurnStartPosition(req[r].t, req[r].at)  BY <2>2, TurnStart
    <2>4. PICK z \in BOOLEAN : z = (\E m \in Stored(req[r].t) : m.pos = req[r].at)  OBVIOUS
    <2>5. Form([req[r] EXCEPT !.pc = "row", !.at = p, !.snapped = z])
      BY <2>1, <2>3, <2>4, <1>0 DEF Form, Operations
    <2>6. req' = [req EXCEPT ![r].pc = "row", ![r].at = p, ![r].snapped = z]  BY <1>2, <2>3, <2>4 DEF EditPoint
    <2>7. req' = [req EXCEPT ![r] = [req[r] EXCEPT !.pc = "row", !.at = p, !.snapped = z]]  BY <2>6, <1>0
    <2> QED BY <2>5, <2>7, <1>0, Goes
  <1>3. ASSUME NEW id \in Spare, EditRow(r, id)  PROVE Forms'
    <2>1. req[r].op = "edit" /\ req[r].pc = "row"  BY <1>3 DEF EditRow, At
    <2>2. Return(r) \/ req' = [req EXCEPT ![r].pc = "insert", ![r].new = id]  BY <1>3 DEF EditRow, CreateRow
    <2>3. Form([req[r] EXCEPT !.pc = "insert", !.new = id])  BY <2>1, <1>0 DEF Form, Operations
    <2>4. Return(r) \/ req' = [req EXCEPT ![r] = [req[r] EXCEPT !.pc = "insert", !.new = id]]  BY <2>2, <1>0
    <2> QED BY <2>3, <2>4, <1>0, Returns, Goes
  <1>4. ASSUME EditInsert(r)  PROVE Forms'
    BY <1>4, <1>0, Returns DEF EditInsert
  <1> QED BY <1>1, <1>2, <1>3, <1>4 DEF EditStep

\* The steps of an upload keep the forms.
LEMMA FormUpload ==
    ASSUME Shape, NEW r \in Requests, UploadStep(r)
    PROVE  Forms'
  <1>0. Forms /\ Form(req[r]) /\ DOMAIN req = Requests  BY DEF Shape, Forms
  <1>1. ASSUME NEW t \in Threads, NEW sent \in Sent, Upload(r, t, sent)  PROVE Forms'
    <2>1. ASSUME NEW f \in FileNames, NEW g \in FileNames  PROVE <<f>> \in Seq(FileNames) /\ <<f, g>> \in Seq(FileNames)
      OBVIOUS
    <2>4. ASSUME sent \in {<<f>> : f \in FileNames}  PROVE sent \in Seq(FileNames)
      <3>1. PICK f \in FileNames : sent = <<f>>  BY <2>4
      <3> QED BY <3>1, <2>1
    <2>5. ASSUME sent \in {<<f, g>> : f, g \in FileNames}  PROVE sent \in Seq(FileNames)
      <3>1. PICK f, g \in FileNames : sent = <<f, g>>  BY <2>5
      <3> QED BY <3>1, <2>1
    <2>6. sent \in {<<f>> : f \in FileNames} \/ sent \in {<<f, g>> : f, g \in FileNames}  BY DEF Sent
    <2>3. sent \in Seq(FileNames)  BY <2>4, <2>5, <2>6
    <2>2. Form([op |-> "upload", pc |-> "save", t |-> t, left |-> sent, out |-> {}])  BY <2>3 DEF Form
    <2> QED BY <2>2, <1>1, <1>0, Goes DEF Upload
  <1>2. ASSUME NEW ok \in BOOLEAN, SaveHeader(r, ok)  PROVE Forms'
    <2>1. req[r].op = "upload" /\ req[r].pc = "save" /\ req[r].left # << >>  BY <1>2 DEF SaveHeader, At
    <2>2. req[r].left \in Seq(FileNames) /\ DOMAIN req[r] = {"op", "pc", "t", "left", "out"}  BY <2>1, <1>0 DEF Form, Operations
    <2>3. CASE Return(r)  BY <2>3, <1>0, Returns
    <2>4. CASE ~Return(r)
      <3>1. PICK kept : req' = [req EXCEPT ![r].left = Tail(@), ![r].out = @ \cup {kept}]  BY <1>2, <2>4 DEF SaveHeader
      <3>6. \A q \in Seq(FileNames) : q # << >> => Tail(q) \in Seq(FileNames)  BY HeadTailProperties
      <3>2. PICK left \in Seq(FileNames) : left = Tail(req[r].left)  BY <3>6, <2>1, <2>2
      <3>3. PICK out : out = req[r].out \cup {kept}  OBVIOUS
      <3>4. req' = [req EXCEPT ![r] = [req[r] EXCEPT !.left = left, !.out = out]]  BY <3>1, <3>2, <3>3, <2>2, <1>0
      <3>5. Form([req[r] EXCEPT !.left = left, !.out = out])  BY <2>1, <2>2, <3>2 DEF Form
      <3> QED BY <3>4, <3>5, <1>0, Goes
    <2> QED BY <2>3, <2>4
  <1>3. ASSUME Uploaded(r)  PROVE Forms'
    <2>1. Form([op |-> "uploaded", pc |-> "done", out |-> req[r].out])  BY DEF Form
    <2> QED BY <2>1, <1>3, <1>0, Goes DEF Uploaded
  <1> QED BY <1>1, <1>2, <1>3 DEF UploadStep
-----------------------------------------------------------------------------
(* Fanout.                                                                 *)

\* Every step keeps the fan-out sound.
LEMMA FanoutStep ==
    ASSUME Shape, Sound(ps), [Next]_vars
    PROVE  Sound(ps')
  <1>1. ASSUME NEW r \in Requests, RunnerStep(r) \/ EditStep(r) \/ UploadStep(r)
        PROVE  ps' = ps
    BY <1>1 DEF RunnerStep, EditStep, UploadStep, GetOrBuild, BuildReads, BuildEnds, StopRunner, EditMessage, EditPoint,
         EditRow, EditInsert, Upload, SaveHeader, Uploaded
  <1>2. ASSUME NEW r \in Requests, RowStep(r) \/ TurnStep(r)
        PROVE  ps' = ps \/ (~Publishing(ps, r) /\ \E topic \in Topics : ps' = Publish(ps, r, topic))
    <2>1. Form(req[r]) /\ {"threads"} \cup Threads = Topics  BY DEF Shape, Topics
    <2>2. CASE RowStep(r)
      <3>1. ASSUME PublishAgentState(r) \/ SetMode(r)
            PROVE  ~Publishing(ps, r) /\ req[r].t \in Topics /\ ps' = Publish(ps, r, req[r].t)
        BY <2>1, <3>1 DEF PublishAgentState, SetMode, At, Form, Operations
      <3>2. ASSUME PublishThreadState(r)
            PROVE  ~Publishing(ps, r) /\ "threads" \in Topics /\ ps' = Publish(ps, r, "threads")
        BY <2>1, <3>2 DEF PublishThreadState, At
      <3>3. ps' = ps \/ PublishAgentState(r) \/ SetMode(r) \/ PublishThreadState(r)
        BY <2>2 DEF RowStep, CreateDirs, CreateThread, UpdateWrite, UpdateGet, DeleteThread, EnterPlanMode, ArchiveThread,
             ApprovePlan
      <3> QED BY <3>1, <3>2, <3>3
    <2>3. CASE TurnStep(r)
      <3>1. \/ ps' = ps
            \/ At(r, "send", "turn") /\ ps' = Publish(ps, r, req[r].t)
        BY <2>3 DEF TurnStep, SendMessage, Note, TurnBegins, ToolCall, ToolResult, TurnEnds, PublishRetryStatus,
             Denial, Correction
      <3>2. At(r, "send", "turn") => req[r].t \in Topics /\ ~Publishing(ps, r)  BY <2>1 DEF At, Form, Operations
      <3> QED BY <3>1, <3>2
    <2> QED BY <1>2, <2>2, <2>3
  <1>3. ASSUME Reload \/ StopAll \/ UNCHANGED vars  PROVE ps' = ps
    BY <1>3 DEF Reload, StopAll, vars
  <1>4. ASSUME TabStep  PROVE Sound(ps')
    <2>1. ASSUME NEW topic \in Topics, TabSubscribes(topic)  PROVE Sound(ps')
      BY <2>1, SubscribeSound DEF TabSubscribes
    <2>2. ASSUME NEW c \in DOMAIN ps.chans, TabReceives(c)  PROVE Sound(ps')
      BY <2>2, ReceiveSound DEF TabReceives
    <2>3. ASSUME NEW c \in DOMAIN ps.chans, TabCloses(c)  PROVE Sound(ps')
      BY <2>3, UnsubscribeSound DEF TabCloses
    <2>4. ASSUME SendEvent  PROVE Sound(ps')
      <3>1. PICK u \in ps.pubs : \E c \in First(u) : ps' = SendNext(ps, u, c)  BY <2>4 DEF SendEvent
      <3>2. PICK c \in u.left : ps' = SendNext(ps, u, c)  BY <3>1 DEF First
      <3> QED BY <3>2, SendSound
    <2> QED BY <1>4, <2>1, <2>2, <2>3, <2>4 DEF TabStep
  <1>5. ASSUME NEW r \in Requests, RowStep(r) \/ TurnStep(r)  PROVE Sound(ps')
    BY <1>2, <1>5, PublishSound
  <1> QED BY <1>1, <1>3, <1>4, <1>5, Steps

-----------------------------------------------------------------------------
(* The shape of the rest.                                                  *)

\* The counter a runner synchronizes to is at or above every stored position.
LEMMA SyncSeq ==
    ASSUME Shape, MessageShape, NEW x \in Requests, NEW t
    PROVE  /\ syncMsgSeq(x, t) \in Nat /\ seq[x] <= syncMsgSeq(x, t)
           /\ \A m \in Stored(t) : m.pos <= syncMsgSeq(x, t)
  <1> DEFINE S == {seq[x]} \cup {m.pos : m \in Stored(t)}
  <1>1. seq[x] \in Nat  BY DEF Shape
  <1>2. PICK n \in Nat : \A m \in msgs : m.pos <= n  BY DEF MessageShape
  <1>3. PICK k \in Nat : k >= n /\ k >= seq[x]
    <2>1. n + seq[x] \in Nat /\ n + seq[x] >= n /\ n + seq[x] >= seq[x]  BY <1>1
    <2> QED BY <2>1
  <1>4. \A m \in Stored(t) : m.pos \in Nat /\ m.pos <= k  BY <1>2, <1>3 DEF Stored, MessageShape
  <1>5. S \in SUBSET Nat /\ S # {} /\ \A y \in S : y <= k  BY <1>1, <1>3, <1>4
  <1>6. \A m \in Stored(t) : m.pos \in S  OBVIOUS
  <1>7. seq[x] \in S  OBVIOUS
  <1>8. syncMsgSeq(x, t) = Max(S)  BY DEF syncMsgSeq
  <1> HIDE DEF S
  <1>9. Max(S) \in S /\ \A y \in S : y <= Max(S)  BY <1>5, GreatestNat
  <1> QED BY <1>5, <1>6, <1>7, <1>8, <1>9

\* What a step does to the counters.
LEMMA SeqStep ==
    ASSUME Shape, MessageShape, [Next]_vars
    PROVE  seq' \in [Requests -> Nat] /\ turn' \in [Requests -> Requests \cup {None}]
  <1>1. ASSUME NEW r \in Requests, RunnerStep(r) \/ EditStep(r) \/ UploadStep(r) \/ RowStep(r)
        PROVE  UNCHANGED <<seq, turn>>
    <2>1. CASE RunnerStep(r) \/ EditStep(r) \/ UploadStep(r)
      BY <2>1 DEF RunnerStep, EditStep, UploadStep, GetOrBuild, BuildReads, BuildEnds, StopRunner, EditMessage, EditPoint,
         EditRow, EditInsert, Upload, SaveHeader, Uploaded, tables, counters
    <2>2. CASE RowStep(r)
      BY <2>2 DEF RowStep, CreateDirs, CreateThread, UpdateWrite, UpdateGet, DeleteThread, EnterPlanMode, ArchiveThread,
         PublishThreadState, PublishAgentState, SetMode, ApprovePlan, tables, counters
    <2> QED BY <1>1, <2>1, <2>2
  <1>2. ASSUME NEW r \in Requests, TurnStep(r)
        PROVE  \/ UNCHANGED <<seq, turn>>
               \/ \E x \in Requests, n \in Nat : /\ seq' = [seq EXCEPT ![x] = n]
                                                 /\ turn' = turn \/ turn' = [turn EXCEPT ![x] = r]
    <2>0. Form(req[r])  BY DEF Shape
    <2>1. req[r].op \in {"deny", "resume", "send"} /\ req[r].pc \in {"run", "turn", "called"} => req[r].via \in Requests
      BY <2>0 DEF Form, Operations
    <2>2. CASE \/ \E t \in Threads : SendMessage(r, t) \/ \E op \in {"deny", "resume"} : Note(r, op, t)
               \/ TurnEnds(r) \/ PublishRetryStatus(r)
      BY <2>2 DEF SendMessage, Note, TurnEnds, PublishRetryStatus, tables, counters
    <2>3. CASE TurnBegins(r) \/ Denial(r) \/ Correction(r)
      <3>1. req[r].via \in Requests  BY <2>3, <2>1 DEF TurnBegins, Denial, Correction, At
      <3>2. PICK n \in Nat : n = syncMsgSeq(req[r].via, req[r].t)  BY <3>1, SyncSeq
      <3>3. n + 1 \in Nat  OBVIOUS
      <3>4. seq' = [seq EXCEPT ![req[r].via] = n] \/ seq' = [seq EXCEPT ![req[r].via] = n + 1]
        BY <2>3, <3>2 DEF TurnBegins, Denial, Correction, Insert
      <3>5. turn' = turn \/ turn' = [turn EXCEPT ![req[r].via] = r]
        BY <2>3 DEF TurnBegins, Denial, Correction
      <3> QED BY <3>1, <3>3, <3>4, <3>5
    <2>4. CASE ToolCall(r) \/ ToolResult(r)
      <3>1. req[r].via \in Requests  BY <2>4, <2>1 DEF ToolCall, ToolResult, At
      <3>2. PICK n \in Nat : n = seq[req[r].via] + 1  BY <3>1 DEF Shape
      <3>3. seq' = [seq EXCEPT ![req[r].via] = n] /\ turn' = turn  BY <2>4, <3>2 DEF ToolCall, ToolResult
      <3> QED BY <3>1, <3>3
    <2> QED BY <1>2, <2>2, <2>3, <2>4 DEF TurnStep
  <1>3. ASSUME Reload \/ StopAll \/ TabStep \/ UNCHANGED vars  PROVE UNCHANGED <<seq, turn>>
    BY <1>3 DEF Reload, StopAll, TabStep, TabSubscribes, TabReceives, TabCloses, SendEvent, vars, tables, counters
  <1>4. \/ UNCHANGED <<seq, turn>>
        \/ \E r, x \in Requests, n \in Nat : /\ seq' = [seq EXCEPT ![x] = n]
                                             /\ turn' = turn \/ turn' = [turn EXCEPT ![x] = r]
    BY <1>1, <1>2, <1>3, Steps
  <1> QED BY <1>4 DEF Shape

\* The fields of a row.
LEMMA RowFields ==
    ASSUME NEW w \in Rows
    PROVE  /\ \A s \in Settings \cup {None} : [w EXCEPT !.settings = s] \in Rows
           /\ \A m \in Modes : [w EXCEPT !.mode = m] \in Rows
           /\ \A b \in BOOLEAN : [w EXCEPT !.archived = b] \in Rows /\ [w EXCEPT !.alive = b] \in Rows
  BY DEF Rows

\* A new row is one.
LEMMA NewRow ==
    ASSUME NEW s \in Settings \cup {None}, NEW p \in Threads \cup {None}, NEW n \in Nat, NEW z \in BOOLEAN
    PROVE  Row(s, p, n, z) \in Rows
  BY DEF Row, Rows, Modes

Written == rows' = rows \/ \E t \in Threads, w \in Rows : rows' = [rows EXCEPT ![t] = w]

\* The steps on rows write at most one row.
LEMMA RowStepRows ==
    ASSUME Shape, NEW r \in Requests, RowStep(r)
    PROVE  Written
  <1>0. Form(req[r]) /\ Spare \subseteq Threads /\ rows \in [Threads -> Rows \cup {None}]  BY DEF Shape, Threads
  <1>1. \A t \in Threads : Exists(t) => rows[t] \in Rows  BY <1>0 DEF Exists
  <1>2. ASSUME NEW ok \in BOOLEAN, CreateDirs(r, ok)  PROVE Written
    <2>1. req[r].t \in Threads /\ req[r].settings \in Settings  BY <1>2, <1>0 DEF CreateDirs, At, Form, Operations
    <2>2. CASE ok /\ Exists(req[r].t)
      <3>1. rows' = [rows EXCEPT ![req[r].t] = [rows[req[r].t] EXCEPT !.settings = req[r].settings]]
        BY <1>2, <2>2 DEF CreateDirs
      <3>2. [rows[req[r].t] EXCEPT !.settings = req[r].settings] \in Rows  BY <2>1, <2>2, <1>1, RowFields
      <3> QED BY <3>1, <3>2, <2>1 DEF Written
    <2>3. CASE ~(ok /\ Exists(req[r].t))  BY <2>3, <1>2 DEF CreateDirs, Written
    <2> QED BY <2>2, <2>3
  <1>3. ASSUME NEW id \in Spare, NEW s \in Settings, CreateThread(r, id, s)  PROVE Written
    <2>1. Row(None, None, 0, FALSE) \in Rows  BY NewRow
    <2> QED BY <2>1, <1>3, <1>0 DEF CreateThread, Written
  <1>4. ASSUME UpdateWrite(r)  PROVE Written
    <2>1. req[r].t \in Threads /\ req[r].settings \in Settings \cup {None}  BY <1>4, <1>0 DEF UpdateWrite, At, Form, Operations
    <2>2. CASE Exists(req[r].t)
      <3>1. rows' = [rows EXCEPT ![req[r].t] = [rows[req[r].t] EXCEPT !.settings = req[r].settings]]
        BY <1>4, <2>2 DEF UpdateWrite
      <3>2. [rows[req[r].t] EXCEPT !.settings = req[r].settings] \in Rows  BY <2>1, <2>2, <1>1, RowFields
      <3> QED BY <3>1, <3>2, <2>1 DEF Written
    <2>3. CASE ~Exists(req[r].t)  BY <2>3, <1>4 DEF UpdateWrite, Written
    <2> QED BY <2>2, <2>3
  <1>5. ASSUME NEW t \in Threads, DeleteThread(r, t)  PROVE Written
    <2>1. rows' = rows \/ (rows[t] # None /\ rows' = [rows EXCEPT ![t] = [rows[t] EXCEPT !.alive = FALSE]])
      BY <1>5 DEF DeleteThread
    <2>2. rows[t] # None => [rows[t] EXCEPT !.alive = FALSE] \in Rows  BY <1>0, RowFields
    <2> QED BY <2>1, <2>2 DEF Written
  <1>6. ASSUME NEW t \in Threads, NEW on \in BOOLEAN, ArchiveThread(r, t, on)  PROVE Written
    <2>1. rows' = rows \/ (Exists(t) /\ rows' = [rows EXCEPT ![t] = [rows[t] EXCEPT !.archived = on]])
      BY <1>6 DEF ArchiveThread
    <2>2. Exists(t) => [rows[t] EXCEPT !.archived = on] \in Rows  BY <1>1, RowFields
    <2> QED BY <2>1, <2>2 DEF Written
  <1>7. ASSUME NEW t \in Threads, EnterPlanMode(r, t) \/ ApprovePlan(r, t)  PROVE Written
    <2>1. \/ rows' = rows
          \/ \E m \in Modes : Exists(t) /\ rows' = [rows EXCEPT ![t] = [rows[t] EXCEPT !.mode = m]]
      BY <1>7 DEF EnterPlanMode, ApprovePlan, Modes
    <2>2. \A m \in Modes : Exists(t) => [rows[t] EXCEPT !.mode = m] \in Rows  BY <1>1, RowFields
    <2> QED BY <2>1, <2>2 DEF Written
  <1>8. ASSUME \/ PublishThreadState(r) \/ PublishAgentState(r)
               \/ \E t \in Threads : \E s \in Settings \cup {None} : UpdateGet(r, t, s)
        PROVE  Written
    BY <1>8 DEF PublishThreadState, PublishAgentState, UpdateGet, tables, Written
  <1>9. ASSUME SetMode(r)  PROVE Written
    <2>1. req[r].t \in Threads /\ Exists(req[r].t)  BY <1>9, <1>0 DEF SetMode, At, Form, Operations
    <2>2. rows' = [rows EXCEPT ![req[r].t] = [rows[req[r].t] EXCEPT !.mode = "plan"]]  BY <1>9 DEF SetMode
    <2>3. [rows[req[r].t] EXCEPT !.mode = "plan"] \in Rows  BY <2>1, <1>1, RowFields DEF Modes
    <2> QED BY <2>1, <2>2, <2>3 DEF Written
  <1> QED BY <1>2, <1>3, <1>4, <1>5, <1>6, <1>7, <1>8, <1>9 DEF RowStep

\* Every step keeps the table of rows one.
LEMMA RowsStep ==
    ASSUME Shape, [Next]_vars
    PROVE  rows' \in [Threads -> Rows \cup {None}]
  <1>1. ASSUME NEW r \in Requests, RunnerStep(r) \/ UploadStep(r)
        PROVE  rows' = rows
    BY <1>1 DEF RunnerStep, UploadStep, GetOrBuild, BuildReads, BuildEnds, StopRunner, Upload, SaveHeader, Uploaded, tables
  <1>2. ASSUME NEW r \in Requests, TurnStep(r)
        PROVE  rows' = rows
    BY <1>2 DEF TurnStep, SendMessage, Note, TurnBegins, ToolCall, ToolResult, TurnEnds, PublishRetryStatus,
             Denial, Correction, Insert, tables
  <1>3. ASSUME NEW r \in Requests, EditStep(r)  PROVE Written
    <2>1. CASE \E id \in Spare : EditRow(r, id)
      <3>1. PICK id \in Spare : EditRow(r, id)  BY <2>1
      <3>2. Form(req[r]) /\ id \in Threads  BY DEF Shape, Threads
      <3>3. /\ req[r].at \in Nat /\ req[r].snapped \in BOOLEAN /\ req[r].settings \in Settings \cup {None}
            /\ req[r].t \in Threads
        BY <3>1, <3>2 DEF EditRow, At, Form, Operations
      <3>4. Row(req[r].settings, req[r].t, req[r].at, req[r].snapped) \in Rows  BY <3>3, NewRow
      <3>5. rows' = rows \/ rows' = [rows EXCEPT ![id] = Row(req[r].settings, req[r].t, req[r].at, req[r].snapped)]
        BY <3>1 DEF EditRow, CreateRow
      <3> QED BY <3>2, <3>4, <3>5 DEF Written
    <2>2. CASE ~\E id \in Spare : EditRow(r, id)
      BY <1>3, <2>2 DEF EditStep, EditMessage, EditPoint, EditInsert, tables, Written
    <2> QED BY <2>1, <2>2
  <1>4. ASSUME Reload \/ StopAll \/ TabStep \/ UNCHANGED vars  PROVE rows' = rows
    BY <1>4 DEF Reload, StopAll, TabStep, TabSubscribes, TabReceives, TabCloses, SendEvent, vars, tables
  <1>5. Written  BY <1>1, <1>2, <1>3, <1>4, RowStepRows, Steps DEF Written
  <1> QED BY <1>5 DEF Written, Shape

\* A build with one more part.
With(b, part, value) == [f \in DOMAIN b \cup {part} |-> IF f = part THEN value ELSE b[f]]

\* A build with its next part is one.
LEMMA WithBuilds ==
    ASSUME NEW b \in Builds, NEW n \in Nat, NEW s \in Settings \cup {None}, NEW m \in Modes
    PROVE  /\ "engine" \notin DOMAIN b => With(b, "engine", n) \in Builds
           /\ "engine" \in DOMAIN b /\ "main" \notin DOMAIN b => With(b, "main", n) \in Builds
           /\ "main" \in DOMAIN b /\ "settings" \notin DOMAIN b => With(b, "settings", s) \in Builds
           /\ "settings" \in DOMAIN b /\ "mode" \notin DOMAIN b => With(b, "mode", m) \in Builds
  <1>1. ASSUME "engine" \notin DOMAIN b  PROVE With(b, "engine", n) \in Builds
    <2>1. b \in [by : Requests]  BY <1>1 DEF Builds
    <2>2. With(b, "engine", n) \in [by : Requests, engine : Nat]  BY <2>1 DEF With
    <2> QED BY <2>2 DEF Builds
  <1>2. ASSUME "engine" \in DOMAIN b, "main" \notin DOMAIN b  PROVE With(b, "main", n) \in Builds
    <2>1. b \in [by : Requests, engine : Nat]  BY <1>2 DEF Builds
    <2>2. With(b, "main", n) \in [by : Requests, engine : Nat, main : Nat]  BY <2>1 DEF With
    <2> QED BY <2>2 DEF Builds
  <1>3. ASSUME "main" \in DOMAIN b, "settings" \notin DOMAIN b  PROVE With(b, "settings", s) \in Builds
    <2>1. b \in [by : Requests, engine : Nat, main : Nat]  BY <1>3 DEF Builds
    <2>2. With(b, "settings", s) \in [by : Requests, engine : Nat, main : Nat, settings : Settings \cup {None}]
      BY <2>1 DEF With
    <2> QED BY <2>2 DEF Builds
  <1>4. ASSUME "settings" \in DOMAIN b, "mode" \notin DOMAIN b  PROVE With(b, "mode", m) \in Builds
    <2>1. b \in [by : Requests, engine : Nat, main : Nat, settings : Settings \cup {None}]  BY <1>4 DEF Builds
    <2>2. With(b, "mode", m) \in [by : Requests, engine : Nat, main : Nat, settings : Settings \cup {None}, mode : Modes]
      BY <2>1 DEF With
    <2> QED BY <2>2 DEF Builds
  <1> QED BY <1>1, <1>2, <1>3, <1>4

\* A step of BuildReads: the next part of the build, read from what is in force, or
\* its end for a thread without a row.
Part(t) ==
    \/ "engine" \notin DOMAIN building[t] /\ building' = [building EXCEPT ![t] = With(building[t], "engine", substrate.gen)]
    \/ /\ "engine" \in DOMAIN building[t] /\ "main" \notin DOMAIN building[t]
       /\ building' = [building EXCEPT ![t] = With(building[t], "main", substrate.gen)]
    \/ /\ "main" \in DOMAIN building[t] /\ "settings" \notin DOMAIN building[t] /\ Exists(t)
       /\ building' = [building EXCEPT ![t] = With(building[t], "settings", rows[t].settings)]
    \/ /\ "settings" \in DOMAIN building[t] /\ "mode" \notin DOMAIN building[t]
       /\ building' = [building EXCEPT ![t] = With(building[t], "mode", IF Exists(t) THEN rows[t].mode ELSE "normal")]

\* A build reads its parts in order.
LEMMA Reads ==
    ASSUME Shape, Builder, NEW r \in Requests, BuildReads(r)
    PROVE  /\ req[r].pc = "build" /\ req[r].t \in Threads
           /\ building[req[r].t] # None /\ building[req[r].t] \in Builds /\ building[req[r].t].by = r
           /\ \/ UNCHANGED req /\ Part(req[r].t)
              \/ Return(r) /\ building' = [building EXCEPT ![req[r].t] = None]
  <1>1. req[r].pc = "build"  BY DEF BuildReads
  <1>2. Form(req[r])  BY DEF Shape
  <1>3. req[r].t \in Threads  BY <1>1, <1>2 DEF Form, Operations
  <1>4. building[req[r].t] # None /\ building[req[r].t].by = r  BY <1>1 DEF Builder
  <1>5. building[req[r].t] \in Builds  BY <1>3, <1>4 DEF Shape
  <1>6. CASE runtimeDeps(req[r].t) /\ UNCHANGED req
    BY <1>1, <1>3, <1>4, <1>5, <1>6 DEF runtimeDeps, Fill, Has, Part, With
  <1>7. CASE ~(runtimeDeps(req[r].t) /\ UNCHANGED req)
    BY <1>1, <1>3, <1>4, <1>5, <1>7 DEF BuildReads, Fill, Has, Part, With
  <1> QED BY <1>6, <1>7

\* The other requests leave the runners alone.
LEMMA NoRunner ==
    ASSUME NEW r \in Requests, RowStep(r) \/ TurnStep(r) \/ EditStep(r) \/ UploadStep(r)
    PROVE  UNCHANGED <<registry, building, substrate>>
  <1>1. CASE RowStep(r)
    BY <1>1 DEF RowStep, CreateDirs, CreateThread, UpdateWrite, UpdateGet, DeleteThread, EnterPlanMode, ArchiveThread,
       PublishThreadState, PublishAgentState, SetMode, ApprovePlan, runners
  <1>2. CASE TurnStep(r)
    BY <1>2 DEF TurnStep, SendMessage, Note, TurnBegins, ToolCall, ToolResult, TurnEnds, PublishRetryStatus,
           Denial, Correction, runners
  <1>3. CASE EditStep(r) \/ UploadStep(r)
    BY <1>3 DEF EditStep, UploadStep, EditMessage, EditPoint, EditRow, EditInsert, Upload, SaveHeader, Uploaded, runners
  <1> QED BY <1>1, <1>2, <1>3

\* Every step keeps registry, builds and substrate what they are.
LEMMA RegistryStep ==
    ASSUME Shape, Builder, [Next]_vars
    PROVE  /\ DOMAIN registry' = Threads /\ \A t \in Threads : registry'[t] # None => registry'[t].by \in Requests
           /\ building' \in [Threads -> Builds \cup {None}]
           /\ substrate' \in [gen : Nat, stopping : BOOLEAN]
  <1> USE DEF Shape
  <1>1. ASSUME NEW r \in Requests, GetOrBuild(r)
        PROVE  UNCHANGED <<registry, substrate>> /\ building' \in [Threads -> Builds \cup {None}]
    <2>1. [by |-> r] \in Builds  BY DEF Builds
    <2>2. building' = building \/ building' = [building EXCEPT ![req[r].t] = [by |-> r]]  BY <1>1 DEF GetOrBuild
    <2>3. UNCHANGED <<registry, substrate>>  BY <1>1 DEF GetOrBuild
    <2> HIDE DEF Shape
    <2>4. building \in [Threads -> Builds \cup {None}]  BY DEF Shape
    <2> QED BY <2>1, <2>2, <2>3, <2>4
  <1>2. ASSUME NEW r \in Requests, BuildReads(r)
        PROVE  UNCHANGED <<registry, substrate>> /\ building' \in [Threads -> Builds \cup {None}]
    <2>1. UNCHANGED <<registry, substrate>>  BY <1>2 DEF BuildReads
    <2>2. PICK t \in Threads : /\ t = req[r].t /\ building[t] # None /\ building[t] \in Builds
                               /\ Part(t) \/ building' = [building EXCEPT ![t] = None]
      BY <1>2, Reads
    <2>3. substrate.gen \in Nat  OBVIOUS
    <2>4. Exists(t) => rows[t].settings \in Settings \cup {None} /\ rows[t].mode \in Modes  BY <2>2 DEF Exists, Rows
    <2>5. (IF Exists(t) THEN rows[t].mode ELSE "normal") \in Modes  BY <2>4 DEF Modes
    <2>6. building \in [Threads -> Builds \cup {None}]  OBVIOUS
    <2> HIDE DEF Shape
    <2>7. Part(t) => \E b \in Builds : building' = [building EXCEPT ![t] = b]
      BY <2>2, <2>3, <2>4, <2>5, WithBuilds DEF Part, Modes
    <2> QED BY <2>1, <2>2, <2>6, <2>7
  <1>3. ASSUME NEW r \in Requests, BuildEnds(r)
        PROVE  /\ UNCHANGED substrate /\ building' = [building EXCEPT ![req[r].t] = None]
               /\ \E w : w.by = r /\ registry' = [registry EXCEPT ![req[r].t] = w]
    BY <1>3 DEF BuildEnds
  <1>4. ASSUME NEW r \in Requests, StopRunner(r)
        PROVE  UNCHANGED <<building, substrate>> /\ registry' = [registry EXCEPT ![req[r].t] = None]
    BY <1>4 DEF StopRunner
  <1>5. ASSUME NEW r \in Requests, RowStep(r) \/ TurnStep(r) \/ EditStep(r) \/ UploadStep(r)
        PROVE  UNCHANGED <<registry, building, substrate>>
    BY <1>5, NoRunner
  <1>6. ASSUME Reload \/ StopAll \/ TabStep \/ UNCHANGED vars
        PROVE  /\ UNCHANGED building /\ substrate' \in [gen : Nat, stopping : BOOLEAN]
               /\ UNCHANGED registry \/ registry' = [t \in Threads |-> None]
    <2>1. substrate \in [gen : Nat, stopping : BOOLEAN]  OBVIOUS
    <2> HIDE DEF Shape
    <2>2. CASE Reload
      <3>1. substrate' = [gen |-> substrate.gen + 1, stopping |-> TRUE]  BY <2>2 DEF Reload
      <3>2. substrate.gen + 1 \in Nat  BY <2>1
      <3> QED BY <2>2, <3>1, <3>2 DEF Reload
    <2>3. CASE StopAll
      <3>1. substrate' \in [gen : Nat, stopping : BOOLEAN]  BY <2>1, <2>3 DEF StopAll
      <3> QED BY <2>3, <3>1 DEF StopAll
    <2>4. CASE TabStep \/ UNCHANGED vars
      BY <2>1, <2>4 DEF TabStep, TabSubscribes, TabReceives, TabCloses, SendEvent, vars, runners
    <2> QED BY <1>6, <2>2, <2>3, <2>4
  <1>7. CASE \E r \in Requests : GetOrBuild(r) \/ BuildReads(r)  BY <1>1, <1>2, <1>7
  <1>8. CASE \E r \in Requests : BuildEnds(r)
    <2>1. PICK r \in Requests : BuildEnds(r)  BY <1>8
    <2> QED BY <2>1, <1>3
  <1>9. CASE \E r \in Requests : StopRunner(r)
    <2>1. PICK r \in Requests : StopRunner(r)  BY <1>9
    <2> QED BY <2>1, <1>4
  <1>10. CASE \E r \in Requests : RowStep(r) \/ TurnStep(r) \/ EditStep(r) \/ UploadStep(r)  BY <1>5, <1>10
  <1>11. CASE Reload \/ StopAll \/ TabStep \/ UNCHANGED vars  BY <1>6, <1>11
  <1> QED BY <1>7, <1>8, <1>9, <1>10, <1>11, Steps DEF RunnerStep

\* Every step keeps the shape.
LEMMA ShapeStep ==
    ASSUME Shape, MessageShape, Builder, [Next]_vars
    PROVE  Shape'
  <1>1. ASSUME Reload \/ StopAll \/ TabStep \/ UNCHANGED vars  PROVE req' = req
    BY <1>1 DEF Reload, StopAll, TabStep, TabSubscribes, TabReceives, TabCloses, SendEvent, vars
  <1>2. Forms'  BY <1>1, FormRunner, FormRow, FormTurn, FormEdit, FormUpload, Steps DEF Forms, Shape
  <1> QED BY <1>2, RowsStep, SeqStep, RegistryStep DEF Forms, Shape
-----------------------------------------------------------------------------
(* RunnerCurrent.                                                          *)

\* A request that is not about runners takes no other one along.
Alone(r) ==
    /\ \A u \in Requests : u # r => req'[u] = req[u]
    /\ req[r].pc \notin {"stop", "build"} /\ req'[r].pc # "build"

\* A request that returns or goes on disturbs no other.
LEMMA AloneReturn ==
    ASSUME Shape, NEW r \in Requests, Return(r) \/ (\E pc : pc # "build" /\ Goto(r, pc)) \/ UNCHANGED req,
           req[r].pc \notin {"stop", "build"}
    PROVE  Alone(r)
  <1>1. DOMAIN req = Requests  BY DEF Shape
  <1>2. Form(req[r])  BY DEF Shape
  <1>3. "pc" \in DOMAIN req[r]  BY <1>2 DEF Form
  <1> QED BY <1>1, <1>3 DEF Alone, Return, Goto, Done

\* The steps of one request that disturb no other.
LEMMA AloneStep ==
    ASSUME Shape, NEW r \in Requests, RowStep(r) \/ TurnStep(r) \/ EditStep(r) \/ UploadStep(r)
    PROVE  Alone(r)
  <1>1. DOMAIN req = Requests /\ Form(req[r])  BY DEF Shape
  <1>2. "pc" \in DOMAIN req[r]  BY <1>1 DEF Form
  <1>3. CASE RowStep(r)
    <2>1. CASE \/ \E ok \in BOOLEAN : CreateDirs(r, ok)
               \/ UpdateWrite(r) \/ PublishThreadState(r) \/ PublishAgentState(r) \/ SetMode(r)
      <3>1. req[r].pc \notin {"stop", "build"}
        BY <2>1 DEF CreateDirs, UpdateWrite, PublishThreadState, PublishAgentState, SetMode, At, Starts
      <3>2. Return(r) \/ (\E pc : pc # "build" /\ Goto(r, pc)) \/ UNCHANGED req
        BY <2>1 DEF CreateDirs, UpdateWrite, PublishThreadState, PublishAgentState, SetMode
      <3> QED BY <3>1, <3>2, AloneReturn
    <2>2. CASE \/ \E id \in Spare, s \in Settings : CreateThread(r, id, s)
               \/ \E t \in Threads :
                     \/ \E s \in Settings \cup {None} : UpdateGet(r, t, s)
                     \/ DeleteThread(r, t) \/ EnterPlanMode(r, t) \/ ApprovePlan(r, t)
                     \/ \E on \in BOOLEAN : ArchiveThread(r, t, on)
      <3>1. req[r].pc \notin {"stop", "build"}
        BY <2>2 DEF CreateThread, UpdateGet, DeleteThread, EnterPlanMode, ApprovePlan, ArchiveThread, Starts, At
      <3>2. \E w : w.pc # "build" /\ req' = [req EXCEPT ![r] = w]
        <4>1. CASE \E id \in Spare, s \in Settings : CreateThread(r, id, s)  BY <4>1 DEF CreateThread
        <4>2. CASE \E t \in Threads : \E s \in Settings \cup {None} : UpdateGet(r, t, s)  BY <4>2 DEF UpdateGet
        <4>3. CASE \E t \in Threads : DeleteThread(r, t)  BY <4>3 DEF DeleteThread, Return, Done
        <4>4. CASE \E t \in Threads : EnterPlanMode(r, t)  BY <4>4 DEF EnterPlanMode, Return, Done
        <4>5. CASE \E t \in Threads : \E on \in BOOLEAN : ArchiveThread(r, t, on)  BY <4>5 DEF ArchiveThread
        <4>6. CASE \E t \in Threads : ApprovePlan(r, t)  BY <4>6 DEF ApprovePlan, Return, Done
        <4> QED BY <2>2, <4>1, <4>2, <4>3, <4>4, <4>5, <4>6
      <3> QED BY <3>1, <3>2, <1>1 DEF Alone
    <2> QED BY <1>3, <2>1, <2>2 DEF RowStep
  <1>4. CASE TurnStep(r)
    <2>1. CASE \/ TurnBegins(r) \/ ToolResult(r) \/ TurnEnds(r) \/ PublishRetryStatus(r)
               \/ Denial(r) \/ Correction(r)
      <3>1. req[r].pc \notin {"stop", "build"}
        BY <2>1 DEF TurnBegins, ToolResult, TurnEnds, PublishRetryStatus, Denial, Correction, At
      <3>2. Return(r) \/ (\E pc : pc # "build" /\ Goto(r, pc)) \/ UNCHANGED req
        BY <2>1 DEF TurnBegins, ToolResult, TurnEnds, PublishRetryStatus, Denial, Correction
      <3> QED BY <3>1, <3>2, AloneReturn
    <2>2. CASE \/ ToolCall(r)
               \/ \E t \in Threads : SendMessage(r, t) \/ \E op \in {"deny", "resume"} : Note(r, op, t)
      BY <2>2, <1>1, <1>2 DEF ToolCall, SendMessage, Note, Alone, Starts, At
    <2> QED BY <1>4, <2>1, <2>2 DEF TurnStep
  <1>5. CASE EditStep(r)
    <2>1. CASE \/ \E t \in Threads : \E p \in 0 .. MaxPositions : EditMessage(r, t, p)
               \/ \E id \in Spare : EditRow(r, id)
      BY <2>1, <1>1, <1>2 DEF EditMessage, EditRow, CreateRow, Alone, Starts, At, Return, Done
    <2>2. CASE EditPoint(r)
      BY <2>2, <1>1, <1>2 DEF EditPoint, Alone, At
    <2>3. CASE EditInsert(r)
      BY <2>3, AloneReturn DEF EditInsert, At
    <2> QED BY <1>5, <2>1, <2>2, <2>3 DEF EditStep
  <1>6. CASE UploadStep(r)
    <2>1. ASSUME NEW ok, SaveHeader(r, ok)  PROVE Alone(r)
      <3>1. CASE Return(r)  BY <2>1, <3>1, AloneReturn DEF SaveHeader, At
      <3>2. CASE ~Return(r)
        <4>1. PICK l, o : req' = [req EXCEPT ![r].left = l, ![r].out = o]  BY <2>1, <3>2 DEF SaveHeader
        <4>2. req[r].pc = "save"  BY <2>1 DEF SaveHeader, At
        <4> QED BY <1>1, <1>2, <4>1, <4>2 DEF Alone
      <3> QED BY <3>1, <3>2
    <2>2. ASSUME NEW w, req' = [req EXCEPT ![r] = w], w.pc # "build", req[r].pc \notin {"stop", "build"}  PROVE Alone(r)
      BY <1>1, <2>2 DEF Alone
    <2>3. CASE Uploaded(r)
      <3>1. PICK w : w = [op |-> "uploaded", pc |-> "done", out |-> req[r].out]  OBVIOUS
      <3>2. req' = [req EXCEPT ![r] = w] /\ w.pc # "build" /\ req[r].pc \notin {"stop", "build"}
        BY <2>3, <3>1 DEF Uploaded, At
      <3> QED BY <2>2, <3>2
    <2>4. ASSUME NEW t, NEW sent, Upload(r, t, sent)  PROVE Alone(r)
      <3>1. PICK w : w = [op |-> "upload", pc |-> "save", t |-> t, left |-> sent, out |-> {}]  OBVIOUS
      <3>2. req' = [req EXCEPT ![r] = w] /\ w.pc # "build" /\ req[r].pc \notin {"stop", "build"}
        BY <2>4, <3>1 DEF Upload, Starts, At
      <3> QED BY <2>2, <3>2
    <2> QED BY <1>6, <2>1, <2>3, <2>4 DEF UploadStep
  <1> QED BY <1>3, <1>4, <1>5, <1>6

Current(t) == Reading(t) /\ Running(t) /\ Unborn(t)

\* A thread that a step does not touch.
LEMMA SameThread ==
    ASSUME NEW t \in Threads, Current(t), rows'[t] = rows[t], registry'[t] = registry[t], building'[t] = building[t],
           substrate' = substrate, t \in raced => t \in raced', t \in planned => t \in planned',
           \A u \in Requests : req[u].pc = "stop" /\ req[u].t = t => req'[u].pc = "stop" /\ req'[u].t = t
    PROVE  Current(t)'
  BY DEF Current, Reading, Running, Unborn, Exists

\* A build is None or has its parts in order.
LEMMA Parts ==
    ASSUME NEW b \in Builds
    PROVE  /\ b # None /\ b.by \in Requests
           /\ "mode" \in DOMAIN b => "settings" \in DOMAIN b
           /\ "settings" \in DOMAIN b => "main" \in DOMAIN b
           /\ "main" \in DOMAIN b => "engine" \in DOMAIN b
  <1>1. b # None  BY ThreadAssumption
  <1>2. b.by \in Requests  BY DEF Builds
  <1>3. /\ "mode" \in DOMAIN b => "settings" \in DOMAIN b
        /\ "settings" \in DOMAIN b => "main" \in DOMAIN b
        /\ "main" \in DOMAIN b => "engine" \in DOMAIN b
    BY DEF Builds
  <1> QED BY <1>1, <1>2, <1>3

\* GetOrBuild: a build that has read nothing.
LEMMA GetOrBuildRuns ==
    ASSUME Shape, RunnerInv, NEW r \in Requests, GetOrBuild(r)
    PROVE  RunnerInv'
  <1>0. Form(req[r]) /\ DOMAIN req = Requests /\ req[r].pc = "runner"  BY DEF Shape, GetOrBuild
  <1>1. req[r].t \in Threads /\ {"pc", "t", "via"} \subseteq DOMAIN req[r]  BY <1>0 DEF Form, Operations
  <1>2. UNCHANGED <<rows, registry, substrate, raced, planned>>  BY DEF GetOrBuild, tables, overlaps
  <1>3. \A u \in Requests : u # r => req'[u] = req[u]  BY <1>0 DEF GetOrBuild, Use, Goto
  <1>4. req'[r].t = req[r].t /\ req'[r].pc \in {"run", "build"}  BY <1>0, <1>1 DEF GetOrBuild, Use, Goto
  <1>5. CASE registry[req[r].t] # None
    <2>1. building' = building  BY <1>5 DEF GetOrBuild
    <2>2. req'[r].pc = "run"  BY <1>0, <1>1, <1>5 DEF GetOrBuild, Use
    <2>3. Builder'  BY <1>3, <2>1, <2>2 DEF RunnerInv, Builder
    <2>4. \A t \in Threads : Current(t)'  BY <1>2, <1>3, <1>0, <2>1, SameThread DEF RunnerInv, Current
    <2> QED BY <2>3, <2>4 DEF RunnerInv, Current
  <1>6. CASE registry[req[r].t] = None
    <2>1. building[req[r].t] = None /\ building' = [building EXCEPT ![req[r].t] = [by |-> r]]  BY <1>6 DEF GetOrBuild
    <2>2. [by |-> r] \in Builds  BY DEF Builds
    <2>3. building'[req[r].t] = [by |-> r] /\ [by |-> r] # None  BY <2>1, <2>2, <1>1, Parts DEF Shape
    <2>4. \A t \in Threads : t # req[r].t => building'[t] = building[t]  BY <2>1 DEF Shape
    <2>5. ASSUME NEW u \in Requests, req'[u].pc = "build"  PROVE building'[req'[u].t] # None /\ building'[req'[u].t].by = u
      <3>1. CASE u = r  BY <3>1, <2>3, <1>4
      <3>2. CASE u # r
        <4>1. req[u].pc = "build" /\ req'[u].t = req[u].t  BY <3>2, <2>5, <1>3
        <4>2. building[req[u].t] # None /\ building[req[u].t].by = u  BY <4>1 DEF RunnerInv, Builder
        <4>3. Form(req[u])  BY DEF Shape
        <4>4. req[u].t \in Threads  BY <4>1, <4>3 DEF Form, Operations
        <4> QED BY <4>1, <4>2, <4>4, <2>1, <2>4
      <3> QED BY <3>1, <3>2
    <2>6. ASSUME NEW t \in Threads, t # req[r].t  PROVE Current(t)'
      BY <2>4, <2>6, <1>2, <1>3, <1>0, SameThread DEF RunnerInv, Current
    <2>7. ASSUME NEW t \in Threads, t = req[r].t  PROVE Current(t)'
      <3>1. \A f \in {"engine", "main", "settings", "mode"} : f \notin DOMAIN building'[t]  BY <2>3, <2>7
      <3>2. Current(t)  BY <2>7 DEF RunnerInv, Current
      <3> QED BY <3>1, <3>2, <2>7, <1>2, <1>6 DEF Current, Reading, Running, Unborn, Exists
    <2> QED BY <2>5, <2>6, <2>7 DEF RunnerInv, Builder, Current
  <1> QED BY <1>5, <1>6

\* A request that builds has a thread, and is alone with its build.
LEMMA BuildThread ==
    ASSUME Shape, RunnerInv, NEW r \in Requests, req[r].pc = "build"
    PROVE  /\ req[r].t \in Threads /\ building[req[r].t] \in Builds /\ building[req[r].t].by = r
           /\ building[req[r].t] # None
           /\ \A u \in Requests : u # r /\ req[u].pc = "build" => req[u].t # req[r].t /\ req[u].t \in Threads
  <1>1. \A u \in Requests : Form(req[u])  BY DEF Shape
  <1>2. \A u \in Requests : req[u].pc = "build" => req[u].t \in Threads  BY <1>1 DEF Form, Operations
  <1>3. building[req[r].t] # None /\ building[req[r].t].by = r  BY DEF RunnerInv, Builder
  <1>4. building[req[r].t] \in Builds  BY <1>2, <1>3 DEF Shape
  <1> QED BY <1>2, <1>3, <1>4 DEF RunnerInv, Builder

\* A build reads what is in force.
LEMMA BuildReadsRuns ==
    ASSUME Shape, RunnerInv, NEW r \in Requests, BuildReads(r)
    PROVE  RunnerInv'
  <1>0. req[r].pc = "build" /\ DOMAIN req = Requests  BY DEF BuildReads, Shape
  <1>1. PICK t0 \in Threads : /\ t0 = req[r].t /\ building[t0] \in Builds /\ building[t0].by = r
                              /\ \A u \in Requests : u # r /\ req[u].pc = "build" => req[u].t # t0 /\ req[u].t \in Threads
    BY <1>0, BuildThread
  <1>2. UNCHANGED <<rows, registry, substrate, raced, planned>>  BY DEF BuildReads, tables, overlaps
  <1>3. \/ UNCHANGED req /\ Part(t0)
        \/ Return(r) /\ building' = [building EXCEPT ![t0] = None]
    BY <1>1, Reads DEF RunnerInv
  <1>4. DOMAIN building = Threads  BY DEF Shape
  <1>5. \A u \in Requests : u # r => req'[u] = req[u]  BY <1>0, <1>3 DEF Return
  <1>6. req'[r] = req[r] \/ req'[r].pc = "done"  BY <1>0, <1>3 DEF Return, Done
  <1>7. \A t \in Threads : t # t0 => building'[t] = building[t]  BY <1>3, <1>4 DEF Part
  <1>8. ASSUME NEW t \in Threads, t # t0  PROVE Current(t)'
    BY <1>0, <1>2, <1>5, <1>6, <1>7, <1>8, SameThread DEF RunnerInv, Current
  <1>9. Current(t0)  BY DEF RunnerInv, Current
  <1>10. CASE UNCHANGED req /\ Part(t0)
    <2>1. building'[t0].by = r /\ building'[t0] # None
      <3>1. substrate.gen \in Nat  BY DEF Shape
      <3>2. Exists(t0) => rows[t0].settings \in Settings \cup {None} /\ rows[t0].mode \in Modes  BY DEF Exists, Rows, Shape
      <3>3. (IF Exists(t0) THEN rows[t0].mode ELSE "normal") \in Modes  BY <3>2 DEF Modes
      <3>4. "by" \in DOMAIN building[t0]  BY <1>1 DEF Builds
      <3>5. building'[t0] \in Builds  BY <1>1, <1>4, <1>10, <3>1, <3>2, <3>3, WithBuilds DEF Part, Modes
      <3>6. building'[t0].by = r  BY <1>1, <1>4, <1>10, <3>4 DEF Part, With
      <3> QED BY <3>5, <3>6, Parts
    <2>2. Builder'  BY <1>10, <2>1, <1>1, <1>7 DEF RunnerInv, Builder
    <2>3. Reading(t0)'
      <3> DEFINE b == building[t0]  c == building'[t0]
      <3>1. \/ /\ c = With(b, "engine", substrate.gen) /\ "engine" \notin DOMAIN b
            \/ /\ c = With(b, "main", substrate.gen) /\ "main" \notin DOMAIN b
            \/ /\ c = With(b, "settings", rows[t0].settings) /\ "settings" \notin DOMAIN b
            \/ /\ c = With(b, "mode", IF Exists(t0) THEN rows[t0].mode ELSE "normal") /\ "mode" \notin DOMAIN b
        BY <1>10, <1>4 DEF Part
      <3>2. b # None  BY <1>1, Parts
      <3>3. Reading(t0)  BY <1>9 DEF Current
      <3> HIDE DEF b, c
      <3>4. t0 \notin raced =>
              /\ "engine" \in DOMAIN b => b.engine = substrate.gen
              /\ "main" \in DOMAIN b => b.main = substrate.gen
              /\ "settings" \in DOMAIN b /\ Exists(t0) => b.settings = rows[t0].settings
              /\ "mode" \in DOMAIN b /\ Exists(t0) /\ rows[t0].mode = "plan" => b.mode = "plan" \/ t0 \in planned
        BY <3>2, <3>3 DEF Reading, b
      <3>5. t0 \notin raced =>
              /\ "engine" \in DOMAIN c => c.engine = substrate.gen
              /\ "main" \in DOMAIN c => c.main = substrate.gen
              /\ "settings" \in DOMAIN c /\ Exists(t0) => c.settings = rows[t0].settings
              /\ "mode" \in DOMAIN c /\ Exists(t0) /\ rows[t0].mode = "plan" => c.mode = "plan" \/ t0 \in planned
        BY <3>1, <3>4 DEF With
      <3>6. Exists(t0)' <=> Exists(t0)  BY <1>2 DEF Exists
      <3> QED BY <3>5, <3>6, <1>2 DEF Reading, c
    <2>4. Running(t0)'  BY <1>9, <1>10, <1>2 DEF Current, Running, Exists
    <2>5. Unborn(t0)'
      <3>1. rows[t0] = None => ~Exists(t0)  BY DEF Exists
      <3>2. rows[t0] = None => "settings" \notin DOMAIN building[t0]  BY <1>9, <1>1, Parts DEF Current, Unborn
      <3>3. rows[t0] = None => "settings" \notin DOMAIN building'[t0]  BY <3>1, <3>2, <1>10, <1>4 DEF Part, With
      <3> QED BY <3>3, <1>2, <1>9 DEF Current, Unborn
    <2> QED BY <2>2, <2>3, <2>4, <2>5, <1>8 DEF RunnerInv, Current
  <1>11. CASE Return(r) /\ building' = [building EXCEPT ![t0] = None]
    <2>1. building'[t0] = None /\ req'[r].pc = "done"  BY <1>11, <1>4, <1>0 DEF Return, Done
    <2>2. Builder'  BY <1>1, <1>5, <1>7, <2>1 DEF RunnerInv, Builder
    <2>3. Reading(t0)' /\ Unborn(t0)'  BY <2>1, <1>2, <1>9 DEF Reading, Unborn, Current
    <2>4. Running(t0)'  BY <1>9, <1>0, <1>2, <1>5, <2>1 DEF Current, Running, Exists
    <2> QED BY <2>2, <2>3, <2>4, <1>8 DEF RunnerInv, Current
  <1> QED BY <1>3, <1>10, <1>11

\* What was read in force, or marked, is registered.
LEMMA BuildEndsRuns ==
    ASSUME Shape, RunnerInv, NEW r \in Requests, BuildEnds(r)
    PROVE  RunnerInv'
  <1>0. req[r].pc = "build" /\ DOMAIN req = Requests /\ DOMAIN building = Threads /\ DOMAIN registry = Threads
    BY DEF BuildEnds, Shape
  <1>1. PICK t0 \in Threads : /\ t0 = req[r].t /\ building[t0] \in Builds /\ building[t0].by = r
                              /\ \A u \in Requests : u # r /\ req[u].pc = "build" => req[u].t # t0 /\ req[u].t \in Threads
    BY <1>0, BuildThread
  <1>2. UNCHANGED <<rows, substrate, raced, planned>> /\ "mode" \in DOMAIN building[t0]
    BY <1>1 DEF BuildEnds, tables, overlaps
  <1>3. PICK run : /\ run.engine = building[t0].engine /\ run.main = building[t0].main
                   /\ run.settings = building[t0].settings /\ run.mode = building[t0].mode
                   /\ registry' = [registry EXCEPT ![t0] = run]
    BY <1>1 DEF BuildEnds
  <1>4. building' = [building EXCEPT ![t0] = None]  BY <1>1 DEF BuildEnds
  <1>5. \A u \in Requests : u # r => req'[u] = req[u]  BY <1>0 DEF BuildEnds, Use
  <1>6. Form(req[r])  BY DEF Shape
  <1>7. {"pc", "via"} \subseteq DOMAIN req[r]  BY <1>0, <1>6 DEF Form, Operations
  <1>8. req'[r].pc = "run"  BY <1>0, <1>7 DEF BuildEnds, Use
  <1>9. ASSUME NEW t \in Threads, t # t0  PROVE Current(t)'
    BY <1>0, <1>2, <1>3, <1>4, <1>5, <1>9, SameThread DEF RunnerInv, Current
  <1>10. Current(t0)  BY DEF RunnerInv, Current
  <1>11. Builder'  BY <1>0, <1>1, <1>4, <1>5, <1>8 DEF RunnerInv, Builder
  <1>12. building'[t0] = None /\ registry'[t0] = run  BY <1>0, <1>3, <1>4
  <1>13. \A f \in {"engine", "main", "settings", "mode"} : f \in DOMAIN building[t0]  BY <1>1, <1>2, Parts
  <1>14. building[t0] # None  BY <1>1, Parts
  <1>15. Reading(t0)'  BY <1>12 DEF Reading
  <1>16. Unborn(t0)'  BY <1>2, <1>10, <1>13, <1>14 DEF Current, Unborn
  <1>17. Running(t0)'
    <2>1. t0 \notin raced /\ Exists(t0) =>
            /\ run.engine = substrate.gen /\ run.main = substrate.gen /\ run.settings = rows[t0].settings
            /\ rows[t0].mode = "plan" => run.mode = "plan" \/ t0 \in planned
      BY <1>3, <1>10, <1>13, <1>14 DEF Current, Reading
    <2>2. Exists(t0)' <=> Exists(t0)  BY <1>2 DEF Exists
    <2> QED BY <2>1, <2>2, <1>2, <1>12 DEF Running
  <1> QED BY <1>9, <1>11, <1>15, <1>16, <1>17 DEF RunnerInv, Current

\* A stop leaves no runner, and settles the thread unless a build is in flight.
LEMMA StopRunnerRuns ==
    ASSUME Shape, RunnerInv, NEW r \in Requests, StopRunner(r)
    PROVE  RunnerInv'
  <1>0. req[r].pc = "stop" /\ DOMAIN req = Requests /\ DOMAIN registry = Threads /\ Form(req[r])  BY DEF StopRunner, Shape
  <1>1. PICK t0 \in Threads : t0 = req[r].t  BY <1>0 DEF Form, Operations
  <1>2. UNCHANGED <<rows, building, substrate>> /\ raced' = Settled(t0, raced) /\ planned' = Settled(t0, planned)
    BY <1>1 DEF StopRunner, tables
  <1>3. registry' = [registry EXCEPT ![t0] = None]  BY <1>1 DEF StopRunner
  <1>4. ASSUME NEW u \in Requests, u # r  PROVE req'[u].pc = req[u].pc /\ req'[u].t = req[u].t
    <2>1. \/ req'[u] = req[u]
          \/ u \in InTurn(registry[req[r].t].by) /\ req'[u] = [req[u] EXCEPT !.cancelled = TRUE]
      BY <1>4 DEF StopRunner
    <2>2. Form(req[u])  BY DEF Shape
    <2>3. u \in InTurn(registry[req[r].t].by) => {"pc", "t"} \subseteq DOMAIN req[u]  BY <2>2 DEF InTurn, Form, Operations
    <2> QED BY <2>1, <2>3
  <1>5. req'[r].pc \in {"runner", "done"}
    <2>1. "pc" \in DOMAIN req[r]  BY <1>0 DEF Form
    <2> QED BY <2>1 DEF StopRunner, Done
  <1>6. Builder'  BY <1>2, <1>4, <1>5 DEF RunnerInv, Builder
  <1>7. ASSUME NEW t \in Threads, t # t0  PROVE Current(t)'
    <2>1. registry'[t] = registry[t] /\ (t \in raced => t \in raced') /\ (t \in planned => t \in planned')
      BY <1>7, <1>2, <1>3, <1>0 DEF Settled
    <2>2. \A u \in Requests : req[u].pc = "stop" /\ req[u].t = t => req'[u].pc = "stop" /\ req'[u].t = t
      BY <1>1, <1>4, <1>7
    <2> QED BY <1>2, <2>1, <2>2, SameThread DEF RunnerInv, Current
  <1>8. Current(t0)  BY DEF RunnerInv, Current
  <1>9. registry'[t0] = None  BY <1>0, <1>3
  <1>10. building[t0] # None => raced' = raced /\ planned' = planned  BY <1>2 DEF Settled
  <1>11. Reading(t0)'  BY <1>2, <1>8, <1>10 DEF Reading, Current, Exists
  <1>12. Running(t0)' /\ Unborn(t0)'  BY <1>2, <1>8, <1>9 DEF Running, Unborn, Current
  <1> QED BY <1>6, <1>7, <1>11, <1>12 DEF RunnerInv, Current

\* A reload marks the builds it overtakes and then stops every runner.
LEMMA ReloadRuns ==
    ASSUME Shape, RunnerInv, Reload \/ StopAll
    PROVE  RunnerInv'
  <1>1. UNCHANGED <<rows, building, req>>  BY DEF Reload, StopAll, tables
  <1>2. Builder'  BY <1>1 DEF RunnerInv, Builder
  <1>3. ASSUME NEW t \in Threads  PROVE Current(t)'
    <2>0. Current(t)  BY DEF RunnerInv, Current
    <2>1. building[t] # None => building[t] \in Builds  BY DEF Shape
    <2>2. CASE Reload
      <3>1. substrate'.stopping /\ registry' = registry  BY <2>2 DEF Reload
      <3>2. Running(t)' /\ Unborn(t)'  BY <3>1, <1>1, <2>0 DEF Running, Unborn, Current
      <3>3. building[t] # None /\ "engine" \in DOMAIN building[t] => t \in raced'  BY <2>2 DEF Reload, Overtakes
      <3>4. t \in raced => t \in raced'  BY <2>2 DEF Reload
      <3>5. building[t] # None /\ t \notin raced' =>
              \A f \in {"engine", "main", "settings", "mode"} : f \notin DOMAIN building[t]
        BY <2>1, <3>3, Parts
      <3>6. Reading(t)'  BY <1>1, <3>5 DEF Reading
      <3> QED BY <3>2, <3>6 DEF Current
    <2>3. CASE StopAll
      <3>1. registry'[t] = None /\ substrate'.gen = substrate.gen  BY <2>3 DEF StopAll, Shape
      <3>2. building[t] # None => (t \in raced => t \in raced') /\ (t \in planned => t \in planned')  BY <2>3 DEF StopAll
      <3> QED BY <3>1, <3>2, <1>1, <2>0 DEF Current, Reading, Running, Unborn, Exists
    <2> QED BY <2>2, <2>3
  <1> QED BY <1>2, <1>3 DEF RunnerInv, Current

\* A step that changes no runner, at most the row of t0.
LEMMA OneRow ==
    ASSUME RunnerInv, NEW r \in Requests, Alone(r), UNCHANGED <<registry, building, substrate>>, Grows,
           NEW t0, \A t \in Threads : t # t0 => rows'[t] = rows[t], t0 \in Threads => Current(t0)'
    PROVE  RunnerInv'
  <1>1. Builder'  BY DEF RunnerInv, Builder, Alone
  <1>2. ASSUME NEW t \in Threads, t # t0  PROVE Current(t)'
    <2>1. \A u \in Requests : req[u].pc = "stop" /\ req[u].t = t => req'[u].pc = "stop" /\ req'[u].t = t  BY DEF Alone
    <2> QED BY <1>2, <2>1, SameThread DEF RunnerInv, Current, Grows
  <1> QED BY <1>1, <1>2 DEF RunnerInv, Current

\* A step that leaves rows, runners and stops alone.
LEMMA NoRow ==
    ASSUME RunnerInv, NEW r \in Requests, Alone(r), UNCHANGED <<registry, building, substrate>>, Grows,
           rows' = rows
    PROVE  RunnerInv'
  <1>1. ASSUME NEW t \in Threads  PROVE Current(t)'
    <2>1. \A u \in Requests : req[u].pc = "stop" /\ req[u].t = t => req'[u].pc = "stop" /\ req'[u].t = t  BY DEF Alone
    <2> QED BY <2>1, SameThread DEF RunnerInv, Current, Grows
  <1>2. Builder'  BY DEF RunnerInv, Builder, Alone
  <1> QED BY <1>1, <1>2 DEF RunnerInv, Current

\* Nothing was built from the row of a new thread.
LEMMA NewThread ==
    ASSUME Shape, RunnerInv, NEW t \in Threads, rows[t] = None, NEW w \in Rows, rows' = [rows EXCEPT ![t] = w],
           UNCHANGED <<registry, building, substrate>>, Grows
    PROVE  Current(t)'
  <1>1. rows'[t] = w /\ w # None  BY ThreadAssumption DEF Shape
  <1>2. registry[t] = None /\ (building[t] # None => "settings" \notin DOMAIN building[t])  BY DEF RunnerInv, Unborn
  <1>3. building[t] # None => "mode" \notin DOMAIN building[t]  BY <1>2, Parts DEF Shape
  <1>4. Reading(t)  BY DEF RunnerInv
  <1> QED BY <1>1, <1>2, <1>3, <1>4 DEF Current, Reading, Running, Unborn, Grows

\* A row that changes: what was read of it is marked as overtaken, a runner built
\* from it too unless a request is about to stop it.
LEMMA ChangedThread ==
    ASSUME Shape, RunnerInv, NEW r \in Requests, Alone(r), NEW t \in Threads, NEW w \in Rows,
           rows' = [rows EXCEPT ![t] = w], Exists(t),
           UNCHANGED <<registry, building, substrate>>, Grows,
           w.settings = rows[t].settings \/ Overtakes(t, "settings") \subseteq raced',
           w.mode = "normal" \/ w.mode = rows[t].mode \/ t \in planned' \/ Overtakes(t, "mode") \subseteq raced',
           \/ w.settings = rows[t].settings /\ (w.mode = "normal" \/ w.mode = rows[t].mode \/ t \in planned')
           \/ registry[t] = None \/ t \in raced' \/ (req'[r].pc = "stop" /\ req'[r].t = t)
    PROVE  Current(t)'
  <1>1. rows'[t] = w /\ w # None  BY ThreadAssumption DEF Shape
  <1>2. Current(t)  BY DEF RunnerInv, Current
  <1>3. ASSUME Exists(t)', building[t] # None, t \notin raced'
        PROVE  /\ "engine" \in DOMAIN building[t] => building[t].engine = substrate.gen
               /\ "main" \in DOMAIN building[t] => building[t].main = substrate.gen
               /\ "settings" \in DOMAIN building[t] => building[t].settings = w.settings
               /\ "mode" \in DOMAIN building[t] /\ w.mode = "plan" => building[t].mode = "plan" \/ t \in planned'
    BY <1>2, <1>3 DEF Current, Reading, Overtakes, Grows
  <1>4. Reading(t)'
    <2>1. building[t] # None /\ t \notin raced' => /\ "engine" \in DOMAIN building[t] => building[t].engine = substrate.gen
                                                   /\ "main" \in DOMAIN building[t] => building[t].main = substrate.gen
      BY <1>2 DEF Current, Reading, Grows
    <2> QED BY <1>1, <1>3, <2>1 DEF Reading
  <1>5. Unborn(t)'  BY <1>1 DEF Unborn
  <1>6. \A u \in Requests : req[u].pc = "stop" /\ req[u].t = t => req'[u].pc = "stop" /\ req'[u].t = t  BY DEF Alone
  <1>7. Running(t)'
    <2>1. CASE registry[t] = None \/ t \in raced' \/ (req'[r].pc = "stop" /\ req'[r].t = t)  BY <2>1 DEF Running
    <2>2. CASE w.settings = rows[t].settings /\ (w.mode = "normal" \/ w.mode = rows[t].mode \/ t \in planned')
      BY <1>1, <1>2, <1>6, <2>2 DEF Current, Running, Grows
    <2> QED BY <2>1, <2>2
  <1> QED BY <1>4, <1>5, <1>7 DEF Current

\* A thread without its row has nothing to be current with.
LEMMA DeadThread ==
    ASSUME Shape, RunnerInv, NEW t \in Threads, NEW w \in Rows, ~w.alive, rows' = [rows EXCEPT ![t] = w],
           UNCHANGED <<registry, building, substrate>>, Grows
    PROVE  Current(t)'
  <1>1. rows'[t] = w /\ w # None /\ ~Exists(t)'  BY ThreadAssumption DEF Shape, Exists
  <1>2. Reading(t)  BY DEF RunnerInv
  <1> QED BY <1>1, <1>2 DEF Current, Reading, Running, Unborn, Grows

\* The steps on rows: what they change is marked or about to be stopped.
LEMMA RowRuns ==
    ASSUME Shape, RunnerInv, NEW r \in Requests, RowStep(r)
    PROVE  RunnerInv'
  <1>0. /\ Form(req[r]) /\ DOMAIN req = Requests /\ Spare \subseteq Threads /\ DOMAIN rows = Threads
        /\ \A t \in Threads : rows[t] # None => rows[t] \in Rows
    BY DEF Shape, Threads
  <1>1. Alone(r) /\ UNCHANGED <<registry, building, substrate>>  BY AloneStep, NoRunner
  <1>2. \A t \in Threads : Exists(t) => rows[t] \in Rows  BY <1>0 DEF Exists
  <1>3. ASSUME NEW ok \in BOOLEAN, CreateDirs(r, ok)  PROVE RunnerInv'
    <2>1. CASE ~(ok /\ Exists(req[r].t))
      <3>1. rows' = rows /\ Grows  BY <1>3, <2>1 DEF CreateDirs, Grows
      <3> QED BY <3>1, <1>1, NoRow
    <2>2. CASE ok /\ Exists(req[r].t)
      <3>1. PICK t \in Threads : t = req[r].t /\ req[r].settings \in Settings  BY <1>3, <1>0 DEF CreateDirs, At, Form, Operations
      <3>2. PICK w \in Rows : w = [rows[t] EXCEPT !.settings = req[r].settings]  BY <3>1, <2>2, <1>2, RowFields
      <3>3. rows' = [rows EXCEPT ![t] = w]  BY <1>3, <2>2, <3>1, <3>2 DEF CreateDirs
      <3>4. w.mode = rows[t].mode  BY <3>1, <3>2, <2>2, <1>2 DEF Rows
      <3>5. /\ Grows /\ (registry[t] # None => t \in raced')
            /\ Overtakes(t, "settings") \subseteq raced'
        BY <1>3, <2>2, <3>1 DEF CreateDirs, Overtakes, Grows
      <3>6. Current(t)'  BY <3>1, <3>3, <3>4, <3>5, <2>2, <1>1, ChangedThread
      <3>7. \A t2 \in Threads : t2 # t => rows'[t2] = rows[t2]  BY <3>3, <1>0
      <3> QED BY <3>5, <3>6, <3>7, <1>1, OneRow
    <2> QED BY <2>1, <2>2
  <1>4. ASSUME NEW id \in Spare, NEW s \in Settings, CreateThread(r, id, s)  PROVE RunnerInv'
    <2>1. PICK w \in Rows : w = Row(None, None, 0, FALSE)  BY NewRow
    <2>2. rows[id] = None /\ rows' = [rows EXCEPT ![id] = w] /\ Grows
      BY <2>1, <1>4 DEF CreateThread, runners, overlaps, Grows
    <2>3. id \in Threads /\ \A t \in Threads : t # id => rows'[t] = rows[t]  BY <2>2, <1>0
    <2>4. Current(id)'  BY <2>2, <2>3, <1>1, NewThread
    <2> QED BY <2>2, <2>3, <2>4, <1>1, OneRow
  <1>5. ASSUME UpdateWrite(r)  PROVE RunnerInv'
    <2>0. req[r].op = "update" /\ req[r].pc = "write"  BY <1>5 DEF UpdateWrite, At
    <2>1. /\ req[r].t \in Threads /\ req[r].settings \in Settings \cup {None}
          /\ ~req[r].stale => req[r].settings = req[r].read
          /\ {"pc", "t"} \subseteq DOMAIN req[r]
      BY <2>0, <1>0 DEF Form, Operations
    <2>2. CASE ~Exists(req[r].t)
      <3>1. rows' = rows /\ Grows  BY <1>5, <2>2 DEF UpdateWrite, Grows
      <3> QED BY <3>1, <1>1, NoRow
    <2>3. CASE Exists(req[r].t)
      <3>1. PICK t \in Threads : t = req[r].t  BY <2>1
      <3>2. PICK w \in Rows : w = [rows[t] EXCEPT !.settings = req[r].settings]  BY <3>1, <2>1, <2>3, <1>2, RowFields
      <3>3. rows' = [rows EXCEPT ![t] = w]  BY <1>5, <2>3, <3>1, <3>2 DEF UpdateWrite
      <3>4. w.mode = rows[t].mode /\ w.settings = req[r].settings  BY <3>1, <3>2, <2>3, <1>2 DEF Rows
      <3>5. /\ Grows
            /\ w.settings = rows[t].settings \/ Overtakes(t, "settings") \subseteq raced'
            /\ w.settings # rows[t].settings /\ rows[t].settings # req[r].read => t \in raced'
        BY <1>5, <2>3, <3>1, <3>4 DEF UpdateWrite, Overtakes, Grows
      <3>6. req[r].stale => req'[r].pc = "stop" /\ req'[r].t = t
        BY <1>5, <2>1, <2>3, <3>1, <1>0 DEF UpdateWrite, Goto
      <3>7. w.settings = rows[t].settings \/ t \in raced' \/ (req'[r].pc = "stop" /\ req'[r].t = t)
        BY <2>1, <3>4, <3>5, <3>6
      <3>8. Current(t)'  BY <3>1, <3>3, <3>4, <3>5, <3>7, <2>3, <1>1, ChangedThread
      <3>9. \A t2 \in Threads : t2 # t => rows'[t2] = rows[t2]  BY <3>3, <1>0
      <3> QED BY <3>5, <3>8, <3>9, <1>1, OneRow
    <2> QED BY <2>2, <2>3
  <1>6. ASSUME NEW t \in Threads, DeleteThread(r, t)  PROVE RunnerInv'
    <2>1. Grows  BY <1>6 DEF DeleteThread, runners, overlaps, Grows
    <2>2. CASE rows' = rows  BY <2>1, <2>2, <1>1, NoRow
    <2>3. CASE rows' # rows
      <3>1. rows[t] # None /\ rows' = [rows EXCEPT ![t] = [rows[t] EXCEPT !.alive = FALSE]]  BY <1>6, <2>3 DEF DeleteThread
      <3>2. PICK w \in Rows : w = [rows[t] EXCEPT !.alive = FALSE]  BY <3>1, <1>0, RowFields
      <3>3. ~w.alive  BY <3>1, <3>2, <1>0 DEF Rows
      <3>4. Current(t)'  BY <3>1, <3>2, <3>3, <2>1, <1>1, DeadThread
      <3>5. \A t2 \in Threads : t2 # t => rows'[t2] = rows[t2]  BY <3>1, <1>0
      <3> QED BY <3>4, <3>5, <2>1, <1>1, OneRow
    <2> QED BY <2>2, <2>3
  <1>7. ASSUME NEW t \in Threads, NEW on \in BOOLEAN, ArchiveThread(r, t, on)  PROVE RunnerInv'
    <2>1. Grows  BY <1>7 DEF ArchiveThread, runners, overlaps, Grows
    <2>2. CASE rows' = rows  BY <2>1, <2>2, <1>1, NoRow
    <2>3. CASE rows' # rows
      <3>1. Exists(t) /\ rows' = [rows EXCEPT ![t] = [rows[t] EXCEPT !.archived = on]]  BY <1>7, <2>3 DEF ArchiveThread
      <3>2. PICK w \in Rows : w = [rows[t] EXCEPT !.archived = on]  BY <3>1, <1>2, RowFields
      <3>3. w.settings = rows[t].settings /\ w.mode = rows[t].mode  BY <3>1, <3>2, <1>2 DEF Rows
      <3>4. Current(t)'  BY <3>1, <3>2, <3>3, <2>1, <1>1, ChangedThread
      <3>5. \A t2 \in Threads : t2 # t => rows'[t2] = rows[t2]  BY <3>1, <1>0
      <3> QED BY <3>4, <3>5, <2>1, <1>1, OneRow
    <2> QED BY <2>2, <2>3
  <1>8. ASSUME NEW t \in Threads, EnterPlanMode(r, t)  PROVE RunnerInv'
    <2>1. CASE ~Exists(t)
      <3>1. rows' = rows /\ Grows  BY <1>8, <2>1 DEF EnterPlanMode, Grows
      <3> QED BY <3>1, <1>1, NoRow
    <2>2. CASE Exists(t)
      <3>1. PICK w \in Rows : w = [rows[t] EXCEPT !.mode = "plan"]  BY <2>2, <1>2, RowFields DEF Modes
      <3>2. rows' = [rows EXCEPT ![t] = w]  BY <1>8, <2>2, <3>1 DEF EnterPlanMode
      <3>3. w.settings = rows[t].settings /\ w.mode = "plan"  BY <2>2, <3>1, <1>2 DEF Rows
      <3>4. Grows /\ (rows[t].mode = "plan" \/ Overtakes(t, "mode") \subseteq raced')
        BY <1>8, <2>2 DEF EnterPlanMode, Grows
      <3>5. req'[r].pc = "stop" /\ req'[r].t = t  BY <1>8, <2>2, <1>0 DEF EnterPlanMode
      <3>6. Current(t)'  BY <2>2, <3>2, <3>3, <3>4, <3>5, <1>1, ChangedThread
      <3>7. \A t2 \in Threads : t2 # t => rows'[t2] = rows[t2]  BY <3>2, <1>0
      <3> QED BY <3>4, <3>6, <3>7, <1>1, OneRow
    <2> QED BY <2>1, <2>2
  <1>9. ASSUME NEW t \in Threads, ApprovePlan(r, t)  PROVE RunnerInv'
    <2>0. Grows  BY <1>9 DEF ApprovePlan, runners, overlaps, Grows
    <2>1. CASE ~Exists(t)
      <3>1. UNCHANGED rows  BY <1>9, <2>1 DEF ApprovePlan
      <3> QED BY <3>1, <2>0, <1>1, NoRow
    <2>2. CASE Exists(t)
      <3>1. PICK w \in Rows : w = [rows[t] EXCEPT !.mode = "normal"]  BY <2>2, <1>2, RowFields DEF Modes
      <3>2. rows' = [rows EXCEPT ![t] = w]  BY <1>9, <2>2, <3>1 DEF ApprovePlan
      <3>3. w.settings = rows[t].settings /\ w.mode = "normal"  BY <2>2, <3>1, <1>2 DEF Rows
      <3>4. Current(t)'  BY <2>0, <2>2, <3>2, <3>3, <1>1, ChangedThread
      <3>5. \A t2 \in Threads : t2 # t => rows'[t2] = rows[t2]  BY <3>2, <1>0
      <3> QED BY <2>0, <3>4, <3>5, <1>1, OneRow
    <2> QED BY <2>1, <2>2
  <1>10. ASSUME \/ PublishThreadState(r) \/ PublishAgentState(r)
                \/ \E t \in Threads : \E s \in Settings \cup {None} : UpdateGet(r, t, s)
         PROVE  RunnerInv'
    <2>1. rows' = rows /\ Grows
      BY <1>10 DEF PublishThreadState, PublishAgentState, UpdateGet, tables, runners, overlaps, Grows
    <2> QED BY <2>1, <1>1, NoRow
  <1>11. ASSUME SetMode(r)  PROVE RunnerInv'
    <2>1. req[r].op = "send" /\ req[r].pc = "called" /\ Exists(req[r].t)  BY <1>11 DEF SetMode, At
    <2>2. PICK t \in Threads : t = req[r].t  BY <2>1, <1>0 DEF Form, Operations
    <2>3. PICK w \in Rows : w = [rows[t] EXCEPT !.mode = "plan"]  BY <2>1, <2>2, <1>2, RowFields DEF Modes
    <2>4. rows' = [rows EXCEPT ![t] = w]  BY <1>11, <2>2, <2>3 DEF SetMode
    <2>5. w.settings = rows[t].settings /\ w.mode = "plan"  BY <2>1, <2>2, <2>3, <1>2 DEF Rows
    <2>6. Grows /\ (rows[t].mode = "plan" \/ t \in planned')  BY <1>11, <2>2 DEF SetMode, Grows
    <2>7. Current(t)'  BY <2>1, <2>2, <2>4, <2>5, <2>6, <1>1, ChangedThread
    <2>8. \A t2 \in Threads : t2 # t => rows'[t2] = rows[t2]  BY <2>4, <1>0
    <2> QED BY <2>6, <2>7, <2>8, <1>1, OneRow
  <1> QED BY <1>3, <1>4, <1>5, <1>6, <1>7, <1>8, <1>9, <1>10, <1>11 DEF RowStep

\* Every step keeps runners current.
LEMMA RunnerInvStep ==
    ASSUME Shape, RunnerInv, [Next]_vars
    PROVE  RunnerInv'
  <1>1. ASSUME NEW r \in Requests, RunnerStep(r)  PROVE RunnerInv'
    BY <1>1, GetOrBuildRuns, BuildReadsRuns, BuildEndsRuns, StopRunnerRuns DEF RunnerStep
  <1>2. ASSUME NEW r \in Requests, TurnStep(r) \/ UploadStep(r)  PROVE RunnerInv'
    <2>1. rows' = rows /\ Grows
      <3>1. CASE TurnStep(r)
        BY <3>1 DEF TurnStep, SendMessage, Note, TurnBegins, ToolCall, ToolResult, TurnEnds, PublishRetryStatus,
             Denial, Correction, Insert, tables, runners, overlaps, Grows
      <3>2. CASE UploadStep(r)
        BY <3>2 DEF UploadStep, Upload, SaveHeader, Uploaded, tables, runners, overlaps, Grows
      <3> QED BY <1>2, <3>1, <3>2
    <2> QED BY <1>2, <2>1, AloneStep, NoRunner, NoRow
  <1>3. ASSUME NEW r \in Requests, EditStep(r)  PROVE RunnerInv'
    <2>1. Grows  BY <1>3 DEF EditStep, EditMessage, EditPoint, EditRow, EditInsert, runners, overlaps, Grows
    <2>2. Alone(r) /\ UNCHANGED <<registry, building, substrate>>  BY <1>3, AloneStep, NoRunner
    <2>3. CASE rows' = rows  BY <2>1, <2>2, <2>3, NoRow
    <2>4. CASE rows' # rows
      <3>1. PICK id \in Spare : EditRow(r, id)  BY <1>3, <2>4 DEF EditStep, EditMessage, EditPoint, EditInsert, tables
      <3>2. Form(req[r]) /\ id \in Threads /\ DOMAIN rows = Threads  BY DEF Shape, Threads
      <3>3. /\ req[r].at \in Nat /\ req[r].snapped \in BOOLEAN /\ req[r].settings \in Settings \cup {None}
            /\ req[r].t \in Threads
        BY <3>1, <3>2 DEF EditRow, At, Form, Operations
      <3>4. PICK w \in Rows : w = Row(req[r].settings, req[r].t, req[r].at, req[r].snapped)  BY <3>3, NewRow
      <3>5. rows[id] = None /\ rows' = [rows EXCEPT ![id] = w]  BY <3>1, <3>4, <2>4 DEF EditRow, CreateRow
      <3>6. Current(id)'  BY <3>2, <3>5, <2>1, <2>2, NewThread
      <3>7. \A t \in Threads : t # id => rows'[t] = rows[t]  BY <3>2, <3>5
      <3> QED BY <3>6, <3>7, <2>1, <2>2, OneRow
    <2> QED BY <2>3, <2>4
  <1>4. ASSUME TabStep \/ UNCHANGED vars  PROVE RunnerInv'
    <2>1. UNCHANGED <<rows, registry, building, substrate, req, raced, planned>>
      BY <1>4 DEF TabStep, TabSubscribes, TabReceives, TabCloses, SendEvent, vars, tables, runners, overlaps
    <2>2. \A t \in Threads : Current(t)'  BY <2>1, SameThread DEF RunnerInv, Current
    <2> QED BY <2>1, <2>2 DEF RunnerInv, Builder, Current
  <1> QED BY <1>1, <1>2, <1>3, <1>4, RowRuns, ReloadRuns, Steps
-----------------------------------------------------------------------------
(* BranchWhole: what a step leaves as it is.                               *)

In(u) == req[u].op = "send" /\ req[u].pc \in {"turn", "called"}
Editing(u) == req[u].op = "edit" /\ req[u].pc \in {"point", "row"}

\* A request that is where it was, cancelled or not.
Same(u) ==
    /\ req'[u].op = req[u].op /\ req'[u].pc = req[u].pc /\ req'[u].t = req[u].t
    /\ In(u) => req'[u].via = req[u].via /\ req'[u].call = req[u].call
    /\ ~In(u) => req'[u] = req[u]

\* What a request leaves of the others.
LEMMA OthersSame ==
    ASSUME Shape, NEW r \in Requests,
           RunnerStep(r) \/ RowStep(r) \/ TurnStep(r) \/ EditStep(r) \/ UploadStep(r), NEW u \in Requests, u # r
    PROVE  Same(u)
  <1>0. Form(req[u]) /\ DOMAIN req = Requests  BY DEF Shape
  <1>1. CASE RowStep(r) \/ TurnStep(r) \/ EditStep(r) \/ UploadStep(r)
    BY <1>1, AloneStep DEF Alone, Same
  <1>2. CASE GetOrBuild(r) \/ BuildReads(r) \/ BuildEnds(r)
    <2>1. req'[u] = req[u]  BY <1>2, <1>0 DEF GetOrBuild, BuildReads, BuildEnds, Use, Goto, Return
    <2> QED BY <2>1 DEF Same
  <1>3. CASE StopRunner(r)
    <2>1. \/ req'[u] = req[u]
          \/ u \in InTurn(registry[req[r].t].by) /\ req'[u] = [req[u] EXCEPT !.cancelled = TRUE]
      BY <1>3 DEF StopRunner
    <2>2. u \in InTurn(registry[req[r].t].by) => In(u) /\ {"op", "pc", "t", "via", "call"} \subseteq DOMAIN req[u]
      BY <1>0 DEF InTurn, In, Form, Operations
    <2> QED BY <2>1, <2>2 DEF Same
  <1> QED BY <1>1, <1>2, <1>3 DEF RunnerStep

\* A request takes up no turn and no edit, and gives up no turn begun.
Quiet(u) ==
    /\ Begun(u) => Begun(u)'
    /\ In(u)' => /\ In(u) /\ req'[u].via = req[u].via
                 /\ req'[u].pc = "called" => req[u].pc = "called" /\ req'[u].call = req[u].call
    /\ Editing(u)' => req'[u] = req[u]

Turning(u) ==
    /\ Begun(u) => Begun(u)'
    /\ In(u)' => /\ In(u) /\ req'[u].via = req[u].via
                 /\ req'[u].pc = "called" => req[u].pc = "called" /\ req'[u].call = req[u].call

\* A request left alone is quiet.
LEMMA SameQuiet ==
    ASSUME NEW u, Same(u)
    PROVE  Quiet(u)
  BY DEF Same, Quiet, Begun, In, Editing

\* A request that was not in a turn, and ends or does something else.
LEMMA Offstage ==
    ASSUME NEW u, ~In(u), req[u].pc # "done", req'[u].op \notin {"send", "edit"} \/ req'[u].pc \notin {"turn", "called", "point", "row"}
    PROVE  Quiet(u)
  BY DEF Quiet, Begun, In, Editing

\* The registry begins no turn and no edit.
LEMMA RunnerQuiet ==
    ASSUME Shape, NEW r \in Requests, RunnerStep(r)
    PROVE  Quiet(r)
  <1>0. Form(req[r]) /\ DOMAIN req = Requests  BY DEF Shape
  <1>1. CASE BuildReads(r) /\ UNCHANGED req  BY <1>1 DEF Quiet, Begun, In, Editing
  <1>2. CASE ~(BuildReads(r) /\ UNCHANGED req)
    <2>1. req[r].pc \in {"runner", "build", "stop"}  BY DEF RunnerStep, GetOrBuild, BuildReads, BuildEnds, StopRunner
    <2>2. "pc" \in DOMAIN req[r]  BY <1>0 DEF Form
    <2>3. req'[r].pc \in {"build", "run", "runner", "done"}
      <3>1. CASE GetOrBuild(r) \/ BuildEnds(r)
        <4>1. "via" \in DOMAIN req[r]  BY <3>1, <1>0 DEF Form, Operations, GetOrBuild, BuildEnds
        <4> QED BY <3>1, <4>1, <1>0, <2>2 DEF GetOrBuild, BuildEnds, Use, Goto
      <3>2. CASE BuildReads(r)  BY <3>2, <1>2, <1>0 DEF BuildReads, Return, Done
      <3>3. CASE StopRunner(r)  BY <3>3, <2>2 DEF StopRunner, Done
      <3> QED BY <3>1, <3>2, <3>3 DEF RunnerStep
    <2> QED BY <2>1, <2>3, Offstage DEF In
  <1> QED BY <1>1, <1>2

\* A step on rows begins no turn and no edit.
LEMMA RowQuiet ==
    ASSUME Shape, NEW r \in Requests, RowStep(r)
    PROVE  Quiet(r)
  <1>0. Form(req[r]) /\ DOMAIN req = Requests  BY DEF Shape
  <1>1. CASE SetMode(r)  BY <1>1 DEF SetMode, Quiet, Begun, In, Editing
  <1>2. CASE ~SetMode(r)
    <2>1. req[r].pc \notin {"turn", "called", "done"}
      BY <1>2 DEF RowStep, CreateDirs, CreateThread, UpdateWrite, UpdateGet, DeleteThread, EnterPlanMode, ArchiveThread,
             PublishThreadState, PublishAgentState, ApprovePlan, At, Starts
    <2>2. "pc" \in DOMAIN req[r]  BY <1>0 DEF Form
    <2>3. req'[r].pc \in {"dirs", "publish", "write", "stop", "done"}
      <3>1. CASE \/ \E ok \in BOOLEAN : CreateDirs(r, ok)
                 \/ UpdateWrite(r) \/ PublishThreadState(r) \/ PublishAgentState(r)
        <4>1. Return(r) \/ \E pc \in {"publish", "stop"} : Goto(r, pc)
          BY <3>1 DEF CreateDirs, UpdateWrite, PublishThreadState, PublishAgentState
        <4> QED BY <4>1, <1>0, <2>2 DEF Return, Goto, Done
      <3>2. CASE \E id \in Spare, s \in Settings : CreateThread(r, id, s)  BY <3>2, <1>0 DEF CreateThread
      <3>3. CASE \E t \in Threads : \E s \in Settings \cup {None} : UpdateGet(r, t, s)  BY <3>3, <1>0 DEF UpdateGet
      <3>4. CASE \E t \in Threads : DeleteThread(r, t)  BY <3>4, <1>0 DEF DeleteThread, Return, Done
      <3>5. CASE \E t \in Threads : EnterPlanMode(r, t)  BY <3>5, <1>0 DEF EnterPlanMode, Return, Done
      <3>6. CASE \E t \in Threads : \E on \in BOOLEAN : ArchiveThread(r, t, on)  BY <3>6, <1>0 DEF ArchiveThread
      <3>7. CASE \E t \in Threads : ApprovePlan(r, t)  BY <3>7, <1>0 DEF ApprovePlan, Return, Done
      <3> QED BY <1>2, <3>1, <3>2, <3>3, <3>4, <3>5, <3>6, <3>7 DEF RowStep
    <2> QED BY <2>1, <2>3, Offstage DEF In
  <1> QED BY <1>1, <1>2

\* An upload begins no turn and no edit.
LEMMA UploadQuiet ==
    ASSUME Shape, NEW r \in Requests, UploadStep(r)
    PROVE  Quiet(r)
  <1>0. Form(req[r]) /\ DOMAIN req = Requests  BY DEF Shape
  <1>1. req[r].pc \in {"ready", "save"}  BY DEF UploadStep, Upload, SaveHeader, Uploaded, At, Starts
  <1>2. req[r].pc = "save" => "pc" \in DOMAIN req[r]  BY <1>0 DEF Form
  <1>3. req'[r].pc \in {"save", "done"}
    BY <1>0, <1>2 DEF UploadStep, Upload, SaveHeader, Uploaded, At, Starts, Return, Done
  <1> QED BY <1>1, <1>3, Offstage DEF In
-----------------------------------------------------------------------------
(* BranchWhole: messages that are stored.                                  *)

\* The messages of a step: those there were, and new ones of a turn that has begun by then.
LEMMA MessagesAdded ==
    ASSUME MessageShape, \A u \in Requests : Begun(u) => Begun(u)',
           NEW N, msgs' \subseteq msgs \cup N, NEW k \in Nat,
           \A m \in N : /\ DOMAIN m = {"thread", "pos", "turn", "kind"} /\ m.thread \in Threads
                        /\ m.pos \in Nat /\ m.pos <= k /\ m.turn \in Requests /\ Begun(m.turn)'
    PROVE  MessageShape'
  <1>1. PICK n \in Nat : \A m \in msgs : m.pos <= n  BY DEF MessageShape
  <1>2. n + k \in Nat  OBVIOUS
  <1>3. \A a \in Nat : (a <= n => a <= n + k) /\ (a <= k => a <= n + k)  OBVIOUS
  <1>4. \A m \in msgs' : m.pos <= n + k  BY <1>1, <1>3 DEF MessageShape
  <1>5. \A m \in msgs' : /\ DOMAIN m = {"thread", "pos", "turn", "kind"}
                         /\ m.thread \in Threads /\ m.pos \in Nat /\ m.turn \in Requests
    BY DEF MessageShape
  <1>6. ASSUME NEW m \in msgs'  PROVE Begun(m.turn)'
    <2>1. CASE m \in N  BY <2>1
    <2>2. CASE m \in msgs  BY <2>2 DEF MessageShape
    <2> QED BY <2>1, <2>2
  <1> QED BY <1>2, <1>4, <1>5, <1>6 DEF MessageShape

\* Nothing new about the turns.
LEMMA CountingKept ==
    ASSUME Counting, \A u \in Requests : Turning(u), turn' = turn, \A x \in Requests : seq'[x] >= seq[x],
           seq \in [Requests -> Nat], seq' \in [Requests -> Nat], MessageShape, MessageShape',
           turn \in [Requests -> Requests \cup {None}],
           \A f \in msgs' : f.kind = "user" /\ f \notin msgs => ~Begun(f.turn)
    PROVE  Counting'
  <1>1. ASSUME NEW x \in Requests, turn[x] # None
        PROVE  Begun(turn[x])' /\ \A f \in msgs' : f.kind = "user" /\ f.turn = turn[x] => f.pos <= seq'[x]
    <2>1. Begun(turn[x]) /\ turn[x] \in Requests /\ \A f \in msgs : f.kind = "user" /\ f.turn = turn[x] => f.pos <= seq[x]
      BY <1>1 DEF Counting
    <2>2. PICK u \in Requests : u = turn[x]  BY <2>1
    <2>3. Begun(u)'  BY <2>1, <2>2 DEF Turning
    <2>4. \A a, b, c \in Nat : a <= b /\ c >= b => a <= c  OBVIOUS
    <2>5. ASSUME NEW f \in msgs', f.kind = "user", f.turn = u  PROVE f.pos <= seq'[x]
      <3>1. f \in msgs  BY <2>1, <2>2, <2>5
      <3>2. f.pos <= seq[x]  BY <2>1, <2>2, <2>5, <3>1
      <3>3. f.pos \in Nat /\ seq[x] \in Nat /\ seq'[x] \in Nat /\ seq'[x] >= seq[x]  BY <3>1 DEF MessageShape
      <3> QED BY <2>4, <3>2, <3>3
    <2>6. turn'[x] = u  BY <2>2
    <2> QED BY <2>2, <2>3, <2>5, <2>6
  <1>2. ASSUME NEW r \in Requests, In(r)'  PROVE turn'[req'[r].via] = r
    BY <1>2 DEF Turning, Counting, In
  <1>3. ASSUME NEW r \in Requests, In(r)', req'[r].pc = "called", NEW f \in msgs', f.kind = "user", f.turn = r
        PROVE  f.pos <= req'[r].call
    <2>1. In(r) /\ req[r].pc = "called" /\ req'[r].call = req[r].call  BY <1>3 DEF Turning
    <2>2. f \in msgs  BY <1>3, <2>1 DEF Begun, In
    <2> QED BY <1>3, <2>1, <2>2 DEF Counting, In
  <1>4. \A x \in Requests : turn'[x] # None => (Begun(turn[x]))' /\ \A f \in msgs' : f.kind = "user" /\ f.turn = turn'[x] => f.pos <= seq'[x]
    BY <1>1
  <1> QED BY <1>2, <1>3, <1>4 DEF Counting, In

\* Fewer messages, or none of an old turn.
LEMMA LeadingAdded ==
    ASSUME Leading, MessageShape, NEW N, msgs' \subseteq msgs \cup N,
           \A m \in N : \A f \in msgs \cup N : Lead(f, m) /\ Lead(m, f)
    PROVE  Leading'
  <1>1. ASSUME NEW f \in msgs', NEW m \in msgs'  PROVE Lead(f, m)  BY DEF Leading
  <1> QED BY <1>1 DEF Leading, Lead

\* An anchor holds when messages are added that do not come before it in its turn.
LEMMA AnchorKept ==
    ASSUME MessageShape, MessageShape', Leading', NEW t, NEW p \in Nat, Anchor(t, p), Stored(t) \subseteq Stored(t)',
           \A f \in msgs' : f.kind = "user" /\ f \notin msgs => ~Begun(f.turn)
    PROVE  Anchor(t, p)'
  <1>1. PICK m \in Stored(t) : m.pos = p /\ (Triggered(t, m.turn) => \A n \in Stored(t) : n.turn = m.turn => n.pos >= p)
    BY DEF Anchor
  <1>2. Begun(m.turn)  BY DEF MessageShape, Stored
  <1>3. ASSUME NEW f \in Stored(t)', f.kind = "user", f.turn = m.turn, NEW n \in Stored(t)', n.turn = m.turn
        PROVE  n.pos >= p
    <2>1. f \in msgs' /\ n \in msgs' /\ f.thread = t  BY DEF Stored
    <2>2. f \in msgs  BY <1>2, <1>3, <2>1
    <2>3. f \in Stored(t)  BY <2>1, <2>2 DEF Stored
    <2>4. f.pos >= p  BY <1>1, <1>3, <2>3 DEF Triggered
    <2>5. f.pos <= n.pos  BY <1>3, <2>1 DEF Leading, Lead
    <2>6. f.pos \in Nat /\ n.pos \in Nat  BY <2>1 DEF MessageShape
    <2> QED BY <2>4, <2>5, <2>6
  <1>4. m \in Stored(t)'  OBVIOUS
  <1> QED BY <1>1, <1>3, <1>4 DEF Anchor, Triggered

\* A row that was there keeps its place in the tree.
Linked ==
    \A b \in Threads :
       /\ rows[b] # None => /\ rows'[b] # None /\ (Exists(b)' <=> Exists(b)) /\ rows'[b].parent = rows[b].parent
                            /\ rows'[b].point = rows[b].point /\ rows'[b].snapped = rows[b].snapped
       /\ rows[b] = None /\ rows'[b] # None => rows'[b].parent = None

\* Branches keep their anchors.
LEMMA BranchesKept ==
    ASSUME Shape, Shape', Branches, MessageShape, MessageShape', Leading', msgs \subseteq msgs', Linked,
           \A f \in msgs' : f.kind = "user" /\ f \notin msgs => ~Begun(f.turn),
           \A u \in Requests : Editing(u)' => req'[u] = req[u]
    PROVE  Branches'
  <1>1. ASSUME NEW t, NEW p \in Nat, Anchor(t, p)  PROVE Anchor(t, p)'
    <2>1. Stored(t) \subseteq Stored(t)'  BY DEF Stored
    <2> QED BY <1>1, <2>1, AnchorKept
  <1>2. ASSUME NEW b \in Threads, Exists(b)', rows'[b].parent # None
        PROVE  Exists(rows[b].parent)' /\ (rows'[b].snapped => Anchor(rows[b].parent, rows[b].point)')
    <2>1. rows[b] # None  BY <1>2 DEF Linked, Exists
    <2>2. Exists(b) /\ rows[b].parent # None /\ rows'[b].parent = rows[b].parent /\ rows'[b].snapped = rows[b].snapped
          /\ rows'[b].point = rows[b].point
      BY <1>2, <2>1 DEF Linked
    <2>3. PICK t \in Threads : t = rows[b].parent /\ rows[b].point \in Nat  BY <2>1, <2>2 DEF Shape, Rows
    <2>4. PICK p \in Nat : p = rows[b].point  BY <2>3
    <2>5. Exists(t) /\ (rows[b].snapped => Anchor(t, p))  BY <2>2, <2>3, <2>4 DEF Branches
    <2>6. Exists(t)'  BY <2>5 DEF Linked, Exists
    <2>7. rows'[b].snapped => Anchor(t, p)'  BY <2>2, <2>5, <1>1
    <2> QED BY <2>2, <2>3, <2>4, <2>6, <2>7
  <1>3. ASSUME NEW r \in Requests, Editing(r)'
        PROVE  /\ rows'[req'[r].t] # None
               /\ req'[r].pc = "row" /\ req'[r].snapped /\ (Exists(req[r].t))' => (Anchor(req[r].t, req[r].at))'
    <2>1. req'[r] = req[r] /\ Editing(r)  BY <1>3 DEF Editing
    <2>2. Form(req[r])  BY DEF Shape
    <2>3. PICK t \in Threads : t = req[r].t /\ req[r].at \in Nat  BY <2>1, <2>2 DEF Editing, Form, Operations
    <2>4. PICK p \in Nat : p = req[r].at  BY <2>3
    <2>5. rows[t] # None  BY <2>1, <2>3 DEF Branches, Editing
    <2>6. rows'[t] # None /\ (Exists(t)' <=> Exists(t))  BY <2>5 DEF Linked
    <2>7. req[r].pc = "row" /\ req[r].snapped /\ Exists(t) => Anchor(t, p)  BY <2>1, <2>3, <2>4 DEF Branches, Editing
    <2>8. req[r].pc = "row" /\ req[r].snapped /\ Exists(t)' => Anchor(t, p)'  BY <2>6, <2>7, <1>1
    <2>9. req'[r].t = t /\ req'[r].at = p  BY <2>1, <2>3, <2>4
    <2> QED BY <2>1, <2>6, <2>8, <2>9
  <1> QED BY <1>2, <1>3 DEF Branches, Editing

\* A step that stores nothing, of a turn or beside it.
LEMMA NoMessageTurns ==
    ASSUME Shape, Shape', BranchInv, UNCHANGED <<msgs, seq, turn>>, \A u \in Requests : Turning(u)
    PROVE  MessageShape' /\ Counting' /\ Leading'
  <1>1. MessageShape /\ Counting /\ Leading  BY DEF BranchInv
  <1>2. \A u \in Requests : Begun(u) => Begun(u)'  BY DEF Turning
  <1>3. MessageShape'
    <2>1. PICK e : e = {}  OBVIOUS
    <2>2. msgs' \subseteq msgs \cup e /\ 0 \in Nat  OBVIOUS
    <2>3. \A m \in e : FALSE  BY <2>1
    <2> QED BY <1>1, <1>2, <2>2, <2>3, MessagesAdded
  <1>4. Counting'
    <2>1. /\ seq \in [Requests -> Nat] /\ seq' \in [Requests -> Nat]
          /\ turn \in [Requests -> Requests \cup {None}]
      BY DEF Shape
    <2>2. \A x \in Requests : seq'[x] >= seq[x]  BY <2>1
    <2> QED BY <1>1, <1>3, <2>1, <2>2, CountingKept
  <1>5. Leading'  BY <1>1 DEF Leading, Lead
  <1> QED BY <1>3, <1>4, <1>5

\* A step that stores nothing and begins no turn.
LEMMA NoMessage ==
    ASSUME Shape, Shape', BranchInv, UNCHANGED <<msgs, seq, turn>>, Linked, \A u \in Requests : Quiet(u)
    PROVE  BranchInv'
  <1>1. MessageShape' /\ Counting' /\ Leading'  BY NoMessageTurns DEF Quiet, Turning
  <1>2. Branches'  BY <1>1, BranchesKept DEF Quiet, BranchInv
  <1> QED BY <1>1, <1>2 DEF BranchInv

\* The rows of the tree: a row that keeps its links.
LEMMA RowLinked ==
    ASSUME Shape, NEW t \in Threads, NEW w \in Rows, rows' = [rows EXCEPT ![t] = w],
           \/ /\ rows[t] # None /\ w.alive = rows[t].alive /\ w.parent = rows[t].parent /\ w.point = rows[t].point
              /\ w.snapped = rows[t].snapped
           \/ rows[t] = None /\ w.parent = None
    PROVE  Linked
  <1>1. rows'[t] = w /\ w # None  BY ThreadAssumption DEF Shape
  <1>2. \A b \in Threads : b # t => rows'[b] = rows[b]  BY DEF Shape
  <1>3. ASSUME NEW b \in Threads, b # t, rows[b] # None  PROVE Exists(b)' <=> Exists(b)  BY <1>2, <1>3 DEF Exists
  <1>4. rows[t] # None => (Exists(t)' <=> Exists(t))  BY <1>1 DEF Exists
  <1> QED BY <1>1, <1>2, <1>3, <1>4 DEF Linked

\* The same rows.
LEMMA SameLinked ==
    ASSUME rows' = rows
    PROVE  Linked
  BY DEF Linked, Exists

\* Another field of a row.
LEMMA FieldLinked ==
    ASSUME NEW w \in Rows
    PROVE  /\ \A s : /\ [w EXCEPT !.settings = s].alive = w.alive /\ [w EXCEPT !.settings = s].parent = w.parent
                     /\ [w EXCEPT !.settings = s].point = w.point /\ [w EXCEPT !.settings = s].snapped = w.snapped
           /\ \A s : /\ [w EXCEPT !.mode = s].alive = w.alive /\ [w EXCEPT !.mode = s].parent = w.parent
                     /\ [w EXCEPT !.mode = s].point = w.point /\ [w EXCEPT !.mode = s].snapped = w.snapped
           /\ \A s : /\ [w EXCEPT !.archived = s].alive = w.alive /\ [w EXCEPT !.archived = s].parent = w.parent
                     /\ [w EXCEPT !.archived = s].point = w.point /\ [w EXCEPT !.archived = s].snapped = w.snapped
  BY DEF Rows

\* Apart from a deletion and a new branch, the steps on rows change no parent and no point.
LEMMA LinkedStep ==
    ASSUME Shape, NEW r \in Requests, RowStep(r), \A t \in Threads : ~DeleteThread(r, t)
    PROVE  Linked
  <1>0. Form(req[r]) /\ Spare \subseteq Threads /\ rows \in [Threads -> Rows \cup {None}]  BY DEF Shape, Threads
  <1>1. \A t \in Threads : Exists(t) => rows[t] \in Rows /\ rows[t] # None  BY <1>0 DEF Exists
  <1>2. CASE rows' = rows  BY <1>2, SameLinked
  <1>3. CASE rows' # rows
    <2>1. ASSUME NEW t \in Threads, NEW s \in Settings \cup {None}, Exists(t), rows' = [rows EXCEPT ![t].settings = s]  PROVE Linked
      <3>1. PICK w \in Rows : w = [rows[t] EXCEPT !.settings = s]  BY <2>1, <1>1, RowFields
      <3>2. /\ w.alive = rows[t].alive /\ w.parent = rows[t].parent /\ w.point = rows[t].point
            /\ w.snapped = rows[t].snapped
        BY <3>1, <2>1, <1>1, FieldLinked
      <3>3. rows' = [rows EXCEPT ![t] = w]  BY <2>1, <3>1
      <3> QED BY <3>2, <3>3, <2>1, <1>1, RowLinked
    <2>2. ASSUME NEW t \in Threads, NEW m \in Modes, Exists(t), rows' = [rows EXCEPT ![t].mode = m]  PROVE Linked
      <3>1. PICK w \in Rows : w = [rows[t] EXCEPT !.mode = m]  BY <2>2, <1>1, RowFields
      <3>2. /\ w.alive = rows[t].alive /\ w.parent = rows[t].parent /\ w.point = rows[t].point
            /\ w.snapped = rows[t].snapped
        BY <3>1, <2>2, <1>1, FieldLinked
      <3>3. rows' = [rows EXCEPT ![t] = w]  BY <2>2, <3>1
      <3> QED BY <3>2, <3>3, <2>2, <1>1, RowLinked
    <2>3. ASSUME NEW t \in Threads, NEW on \in BOOLEAN, Exists(t), rows' = [rows EXCEPT ![t].archived = on]  PROVE Linked
      <3>1. PICK w \in Rows : w = [rows[t] EXCEPT !.archived = on]  BY <2>3, <1>1, RowFields
      <3>2. /\ w.alive = rows[t].alive /\ w.parent = rows[t].parent /\ w.point = rows[t].point
            /\ w.snapped = rows[t].snapped
        BY <3>1, <2>3, <1>1, FieldLinked
      <3>3. rows' = [rows EXCEPT ![t] = w]  BY <2>3, <3>1
      <3> QED BY <3>2, <3>3, <2>3, <1>1, RowLinked
    <2>4. ASSUME NEW id \in Spare, NEW s \in Settings, CreateThread(r, id, s)  PROVE Linked
      <3>1. PICK w \in Rows : w = Row(None, None, 0, FALSE)  BY NewRow
      <3>2. rows[id] = None /\ rows' = [rows EXCEPT ![id] = w] /\ w.parent = None  BY <2>4, <3>1 DEF CreateThread, Row
      <3> QED BY <3>2, <1>0, RowLinked
    <2>5. ASSUME NEW ok \in BOOLEAN, CreateDirs(r, ok)  PROVE Linked
      <3>1. req[r].t \in Threads /\ req[r].settings \in Settings  BY <2>5, <1>0 DEF CreateDirs, At, Form, Operations
      <3>2. Exists(req[r].t) /\ rows' = [rows EXCEPT ![req[r].t].settings = req[r].settings]  BY <2>5, <1>3 DEF CreateDirs
      <3> QED BY <3>1, <3>2, <2>1
    <2>6. ASSUME UpdateWrite(r)  PROVE Linked
      <3>1. req[r].t \in Threads /\ req[r].settings \in Settings \cup {None}
        BY <2>6, <1>0 DEF UpdateWrite, At, Form, Operations
      <3>2. Exists(req[r].t) /\ rows' = [rows EXCEPT ![req[r].t].settings = req[r].settings]  BY <2>6, <1>3 DEF UpdateWrite
      <3> QED BY <3>1, <3>2, <2>1
    <2>7. ASSUME NEW t \in Threads, EnterPlanMode(r, t) \/ ApprovePlan(r, t)  PROVE Linked
      <3>1. Exists(t) /\ \E m \in Modes : rows' = [rows EXCEPT ![t].mode = m]  BY <2>7, <1>3 DEF EnterPlanMode, ApprovePlan, Modes
      <3> QED BY <3>1, <2>2
    <2>8. ASSUME NEW t \in Threads, NEW on \in BOOLEAN, ArchiveThread(r, t, on)  PROVE Linked
      <3>1. Exists(t) /\ rows' = [rows EXCEPT ![t].archived = on]  BY <2>8, <1>3 DEF ArchiveThread
      <3> QED BY <3>1, <2>3
    <2>9. ~PublishThreadState(r) /\ ~PublishAgentState(r) /\ \A t \in Threads : \A s \in Settings \cup {None} : ~UpdateGet(r, t, s)
      BY <1>3 DEF PublishThreadState, PublishAgentState, UpdateGet, tables
    <2>10. ASSUME SetMode(r)  PROVE Linked
      <3>1. req[r].t \in Threads  BY <2>10, <1>0 DEF SetMode, At, Form, Operations
      <3>2. Exists(req[r].t) /\ rows' = [rows EXCEPT ![req[r].t].mode = "plan"]  BY <2>10 DEF SetMode
      <3> QED BY <3>1, <3>2, <2>2 DEF Modes
    <2> QED BY <2>4, <2>5, <2>6, <2>7, <2>8, <2>9, <2>10 DEF RowStep
  <1> QED BY <1>2, <1>3

\* A thread with a branch is not deleted, so no branch loses its parent.
LEMMA DeleteBranches ==
    ASSUME Shape, Shape', BranchInv, NEW r \in Requests, NEW t \in Threads, DeleteThread(r, t)
    PROVE  BranchInv'
  <1>0. MessageShape /\ Counting /\ Leading /\ Branches  BY DEF BranchInv
  <1>1. RowStep(r)  BY DEF RowStep
  <1>2. \A u \in Requests : Quiet(u)  BY <1>1, RowQuiet, OthersSame, SameQuiet
  <1>3. UNCHANGED <<seq, turn>>  BY DEF DeleteThread, counters
  <1>4. CASE UNCHANGED <<rows, msgs>>  BY <1>2, <1>3, <1>4, SameLinked, NoMessage
  <1>5. CASE ~UNCHANGED <<rows, msgs>>
    <2>1. /\ \A b \in Threads : Exists(b) => rows[b].parent # t
          /\ rows' = IF rows[t] = None THEN rows ELSE [rows EXCEPT ![t].alive = FALSE]
          /\ msgs' = {m \in msgs : m.thread # t}
      BY <1>5 DEF DeleteThread
    <2>2. MessageShape'
      <3>1. PICK e : e = {}  OBVIOUS
      <3>2. msgs' \subseteq msgs \cup e /\ 0 \in Nat  BY <2>1
      <3>3. \A m \in e : FALSE  BY <3>1
      <3>4. \A u \in Requests : Begun(u) => Begun(u)'  BY <1>2 DEF Quiet
      <3> QED BY <1>0, <3>2, <3>3, <3>4, MessagesAdded
    <2>3. Leading'  BY <1>0, <2>1 DEF Leading, Lead
    <2>4. Counting'
      <3>1. /\ seq \in [Requests -> Nat] /\ seq' \in [Requests -> Nat]
            /\ turn \in [Requests -> Requests \cup {None}]
        BY DEF Shape
      <3>2. \A x \in Requests : seq'[x] >= seq[x]  BY <3>1, <1>3
      <3> QED BY <1>0, <1>2, <1>3, <2>1, <2>2, <3>1, <3>2, CountingKept DEF Quiet, Turning
    <2>5. ~Exists(t)' /\ (rows[t] # None => rows'[t] # None)
      <3>1. CASE rows[t] = None  BY <3>1, <2>1 DEF Exists
      <3>2. CASE rows[t] # None
        <4>1. rows[t] \in Rows /\ rows'[t] = [rows[t] EXCEPT !.alive = FALSE]  BY <3>2, <2>1 DEF Shape
        <4>2. rows'[t] \in Rows  BY <4>1, RowFields
        <4>3. ~rows'[t].alive  BY <4>1 DEF Rows
        <4> QED BY <4>2, <4>3, ThreadAssumption DEF Exists
      <3> QED BY <3>1, <3>2
    <2>6. \A b \in Threads : b # t => rows'[b] = rows[b] /\ (Exists(b)' <=> Exists(b))  BY <2>1 DEF Shape, Exists
    <2>7. ASSUME NEW b \in Threads, b # t, NEW p \in Nat, Anchor(b, p)  PROVE Anchor(b, p)'
      <3>1. Stored(b) \subseteq Stored(b)'  BY <2>1, <2>7 DEF Stored
      <3> QED BY <3>1, <1>0, <2>1, <2>2, <2>3, <2>7, AnchorKept
    <2>8. ASSUME NEW b \in Threads, Exists(b)', rows'[b].parent # None
          PROVE  Exists(rows[b].parent)' /\ (rows'[b].snapped => Anchor(rows[b].parent, rows[b].point)')
      <3>1. b # t /\ rows'[b] = rows[b] /\ Exists(b) /\ rows[b] # None  BY <2>5, <2>6, <2>8 DEF Exists
      <3>2. PICK a \in Threads : a = rows[b].parent /\ rows[b].point \in Nat  BY <3>1, <2>8 DEF Shape, Rows
      <3>3. PICK p \in Nat : p = rows[b].point  BY <3>2
      <3>4. a # t /\ Exists(a) /\ (rows[b].snapped => Anchor(a, p))  BY <2>1, <2>8, <3>1, <3>2, <3>3, <1>0 DEF Branches
      <3>5. Exists(a)' /\ (rows[b].snapped => Anchor(a, p)')  BY <3>4, <2>6, <2>7
      <3> QED BY <3>1, <3>2, <3>3, <3>5
    <2>9. ASSUME NEW u \in Requests, Editing(u)'
          PROVE  /\ rows'[req'[u].t] # None
                 /\ req'[u].pc = "row" /\ req'[u].snapped /\ (Exists(req[u].t))' => (Anchor(req[u].t, req[u].at))'
      <3>1. req'[u] = req[u] /\ Editing(u)  BY <1>2, <2>9 DEF Quiet, Editing
      <3>2. Form(req[u])  BY DEF Shape
      <3>3. PICK a \in Threads : a = req[u].t /\ req[u].at \in Nat  BY <3>1, <3>2 DEF Editing, Form, Operations
      <3>4. PICK p \in Nat : p = req[u].at  BY <3>3
      <3>5. rows[a] # None /\ (req[u].pc = "row" /\ req[u].snapped /\ Exists(a) => Anchor(a, p))
        BY <1>0, <3>1, <3>3, <3>4 DEF Branches, Editing
      <3>6. rows'[a] # None  BY <3>5, <2>5, <2>6
      <3>7. req[u].pc = "row" /\ req[u].snapped /\ Exists(a)' => Anchor(a, p)'  BY <3>5, <2>5, <2>6, <2>7
      <3>8. req'[u].t = a /\ req'[u].at = p  BY <3>1, <3>3, <3>4
      <3> QED BY <3>1, <3>6, <3>7, <3>8
    <2>10. Branches'  BY <2>8, <2>9 DEF Branches, Editing
    <2> QED BY <2>2, <2>3, <2>4, <2>10 DEF BranchInv
  <1> QED BY <1>4, <1>5

\* Messages of one step: of a turn that has begun by then, after the user's message.
LEMMA Adds ==
    ASSUME Shape, Shape', BranchInv, rows' = rows, NEW N, msgs \subseteq msgs', msgs' \subseteq msgs \cup N, NEW k \in Nat,
           \A u \in Requests : (Begun(u) => Begun(u)') /\ (Editing(u)' => req'[u] = req[u]),
           \A m \in N : /\ DOMAIN m = {"thread", "pos", "turn", "kind"} /\ m.thread \in Threads
                        /\ m.pos \in Nat /\ m.pos <= k /\ m.turn \in Requests /\ Begun(m.turn)'
                        /\ m.kind = "user" => ~Begun(m.turn),
           \A m \in N : \A f \in msgs \cup N : Lead(f, m) /\ Lead(m, f)
    PROVE  MessageShape' /\ Leading' /\ Branches' /\ \A f \in msgs' : f.kind = "user" /\ f \notin msgs => ~Begun(f.turn)
  <1>1. MessageShape /\ Leading /\ Branches  BY DEF BranchInv
  <1>2. MessageShape'  BY <1>1, MessagesAdded
  <1>3. Leading'  BY <1>1, LeadingAdded
  <1>4. \A f \in msgs' : f.kind = "user" /\ f \notin msgs => ~Begun(f.turn)  OBVIOUS
  <1>5. Branches'  BY <1>1, <1>2, <1>3, <1>4, SameLinked, BranchesKept
  <1> QED BY <1>2, <1>3, <1>4, <1>5

\* The same, in a step that begins no turn.
LEMMA AddsQuietly ==
    ASSUME Shape, Shape', BranchInv, rows' = rows, turn' = turn, NEW N, msgs \subseteq msgs', msgs' \subseteq msgs \cup N,
           NEW k \in Nat, \A u \in Requests : Quiet(u), \A x \in Requests : seq'[x] >= seq[x],
           \A m \in N : /\ DOMAIN m = {"thread", "pos", "turn", "kind"} /\ m.thread \in Threads
                        /\ m.pos \in Nat /\ m.pos <= k /\ m.turn \in Requests /\ Begun(m.turn)'
                        /\ m.kind = "user" => ~Begun(m.turn),
           \A m \in N : \A f \in msgs \cup N : Lead(f, m) /\ Lead(m, f)
    PROVE  BranchInv'
  <1>0. \A u \in Requests : (Begun(u) => Begun(u)') /\ (Editing(u)' => req'[u] = req[u])  BY DEF Quiet
  <1>1. MessageShape' /\ Leading' /\ Branches' /\ \A f \in msgs' : f.kind = "user" /\ f \notin msgs => ~Begun(f.turn)
    BY <1>0, Adds
  <1>2. /\ seq \in [Requests -> Nat] /\ seq' \in [Requests -> Nat] /\ turn \in [Requests -> Requests \cup {None}]
    BY DEF Shape
  <1>3. \A u \in Requests : Turning(u)  BY DEF Quiet, Turning
  <1>4. Counting'  BY <1>1, <1>2, <1>3, CountingKept DEF BranchInv
  <1> QED BY <1>1, <1>4 DEF BranchInv

\* What Insert adds: one message at a position above every stored one of its thread.
LEMMA Inserted ==
    ASSUME Shape, MessageShape, NEW x \in Requests, NEW t, NEW u, NEW kind, Insert(t, x, u, kind)
    PROVE  /\ rows' = rows
           /\ \E pos \in Nat : /\ pos > seq[x] /\ seq' = [seq EXCEPT ![x] = pos]
                               /\ msgs' = IF Exists(t) THEN msgs \cup {Message(t, pos, u, kind)} ELSE msgs
  <1>1. PICK n \in Nat : n = syncMsgSeq(x, t) /\ seq[x] <= n  BY SyncSeq
  <1>2. seq[x] \in Nat  BY DEF Shape
  <1>3. PICK pos \in Nat : pos = n + 1  OBVIOUS
  <1>4. pos > seq[x]  BY <1>1, <1>2, <1>3
  <1>5. /\ seq' = [seq EXCEPT ![x] = pos] /\ rows' = rows
        /\ msgs' = IF Exists(t) THEN msgs \cup {Message(t, pos, u, kind)} ELSE msgs
    BY <1>1, <1>3 DEF Insert
  <1> QED BY <1>4, <1>5

\* One message by a request that is not in a turn.
LEMMA AddsOne ==
    ASSUME Shape, Shape', BranchInv, rows' = rows, turn' = turn, NEW t \in Threads, NEW pos \in Nat, NEW u \in Requests,
           NEW kind, msgs' = msgs \/ msgs' = msgs \cup {Message(t, pos, u, kind)},
           \A v \in Requests : Quiet(v), \A x \in Requests : seq'[x] >= seq[x], Begun(u)',
           kind = "user" => ~Begun(u),
           Begun(u) => \A f \in msgs : f.kind = "user" /\ f.turn = u => f.pos <= pos
    PROVE  BranchInv'
  <1>1. PICK m : m = Message(t, pos, u, kind)  OBVIOUS
  <1>2. /\ DOMAIN m = {"thread", "pos", "turn", "kind"} /\ m.thread = t /\ m.pos = pos /\ m.turn = u /\ m.kind = kind
    BY <1>1 DEF Message
  <1>3. MessageShape  BY DEF BranchInv
  <1>4. ASSUME NEW f \in msgs  PROVE Lead(f, m) /\ Lead(m, f)
    <2>1. Begun(f.turn) /\ f.turn \in Requests  BY <1>3 DEF MessageShape
    <2> QED BY <2>1, <1>2 DEF Lead
  <1>5. Lead(m, m)  BY <1>2 DEF Lead
  <1>6. PICK N : N = {m}  OBVIOUS
  <1>7. msgs \subseteq msgs' /\ msgs' \subseteq msgs \cup N  BY <1>1, <1>6
  <1>8. \A n \in N : /\ DOMAIN n = {"thread", "pos", "turn", "kind"} /\ n.thread \in Threads
                     /\ n.pos \in Nat /\ n.pos <= pos /\ n.turn \in Requests /\ Begun(n.turn)'
                     /\ n.kind = "user" => ~Begun(n.turn)
    BY <1>2, <1>6
  <1>9. \A n \in N : \A f \in msgs \cup N : Lead(f, n) /\ Lead(n, f)  BY <1>4, <1>5, <1>6
  <1> QED BY <1>7, <1>8, <1>9, AddsQuietly
-----------------------------------------------------------------------------
(* BranchWhole: the steps of a turn and of an edit.                        *)

\* A denial or a correction comes after every message of its turn.
LEMMA NoteBranches ==
    ASSUME Shape, Shape', BranchInv, NEW r \in Requests, Denial(r) \/ Correction(r)
    PROVE  BranchInv'
  <1>0. Form(req[r]) /\ DOMAIN req = Requests /\ MessageShape /\ Counting  BY DEF Shape, BranchInv
  <1>1. req[r].op \in {"deny", "resume"} /\ req[r].pc = "run"  BY DEF Denial, Correction, At
  <1>2. PICK x \in Requests, t \in Threads : x = req[r].via /\ t = req[r].t  BY <1>0, <1>1 DEF Form, Operations
  <1>3. Return(r) /\ turn' = turn  BY DEF Denial, Correction
  <1>4. req'[r].pc = "done" /\ ~Begun(r) /\ Begun(r)'  BY <1>0, <1>1, <1>3 DEF Return, Done, Begun
  <1>5. TurnStep(r)  BY DEF TurnStep
  <1>6. \A v \in Requests : Quiet(v)
    <2>1. Quiet(r)  BY <1>1, <1>4, Offstage DEF In
    <2> QED BY <2>1, <1>5, OthersSame, SameQuiet
  <1>7. PICK u \in Requests, kind \in {"user", "note"} : Insert(t, x, u, kind) /\ (kind = "user" => u = r) /\ (u = r \/ u = turn[x])
    <2>1. CASE Correction(r)  BY <2>1, <1>2 DEF Correction
    <2>2. CASE Denial(r)
      <3>1. PICK u : u = IF turn[x] = None THEN r ELSE turn[x]  OBVIOUS
      <3>2. u \in Requests  BY <3>1 DEF Shape
      <3>3. Insert(t, x, u, "note")  BY <2>2, <3>1, <1>2 DEF Denial
      <3> QED BY <3>1, <3>2, <3>3
    <2> QED BY <2>1, <2>2
  <1>8. PICK pos \in Nat : /\ pos > seq[x] /\ seq' = [seq EXCEPT ![x] = pos] /\ rows' = rows
                           /\ msgs' = msgs \/ msgs' = msgs \cup {Message(t, pos, u, kind)}
    BY <1>0, <1>7, Inserted
  <1>9. seq \in [Requests -> Nat]  BY DEF Shape
  <1>10. \A y \in Requests : seq'[y] >= seq[y]  BY <1>8, <1>9
  <1>11. u # r => turn[x] # None  BY <1>7, ThreadAssumption
  <1>12. Begun(u)'  BY <1>0, <1>4, <1>6, <1>7, <1>11 DEF Counting, Quiet
  <1>13. ASSUME Begun(u), NEW f \in msgs, f.kind = "user", f.turn = u  PROVE f.pos <= pos
    <2>1. u = turn[x] /\ turn[x] # None  BY <1>13, <1>4, <1>7, <1>11
    <2>2. f.pos <= seq[x]  BY <2>1, <1>13, <1>0 DEF Counting
    <2>3. f.pos \in Nat /\ seq[x] \in Nat  BY <1>0, <1>9 DEF MessageShape
    <2> QED BY <2>2, <2>3, <1>8
  <1> QED BY <1>3, <1>4, <1>6, <1>7, <1>8, <1>10, <1>12, <1>13, AddsOne

\* The first message of a branch is the only one of its turn.
LEMMA EditInsertBranches ==
    ASSUME Shape, Shape', BranchInv, NEW r \in Requests, EditInsert(r)
    PROVE  BranchInv'
  <1>0. Form(req[r]) /\ DOMAIN req = Requests /\ Spare \subseteq Threads  BY DEF Shape, Threads
  <1>1. req[r].op = "edit" /\ req[r].pc = "insert"  BY DEF EditInsert, At
  <1>2. PICK t \in Threads, pos \in Nat : t = req[r].new /\ pos = req[r].at  BY <1>0, <1>1 DEF Form, Operations
  <1>3. Return(r) /\ rows' = rows /\ seq' = seq /\ turn' = turn  BY DEF EditInsert, counters
  <1>4. req'[r].pc = "done" /\ ~Begun(r) /\ Begun(r)'  BY <1>0, <1>1, <1>3 DEF Return, Done, Begun
  <1>5. EditStep(r)  BY DEF EditStep
  <1>6. \A v \in Requests : Quiet(v)
    <2>1. Quiet(r)  BY <1>1, <1>4, Offstage DEF In
    <2> QED BY <2>1, <1>5, OthersSame, SameQuiet
  <1>7. msgs' = msgs \/ msgs' = msgs \cup {Message(t, pos, r, "user")}  BY <1>2 DEF EditInsert, Message
  <1>8. seq \in [Requests -> Nat]  BY DEF Shape
  <1>9. \A x \in Requests : seq'[x] >= seq[x]  BY <1>3, <1>8
  <1> QED BY <1>3, <1>4, <1>6, <1>7, <1>9, AddsOne

\* A stored pair comes after the user's message of its turn.
LEMMA ToolResultBranches ==
    ASSUME Shape, Shape', BranchInv, NEW r \in Requests, ToolResult(r)
    PROVE  BranchInv'
  <1>0. Form(req[r]) /\ DOMAIN req = Requests /\ MessageShape /\ Counting  BY DEF Shape, BranchInv
  <1>1. req[r].op = "send" /\ req[r].pc = "called"  BY DEF ToolResult, At
  <1>2. /\ req[r].via \in Requests /\ req[r].t \in Threads /\ req[r].call \in Nat
        /\ {"op", "pc", "t", "via", "call"} \subseteq DOMAIN req[r]
    BY <1>0, <1>1 DEF Form, Operations
  <1>3. PICK x \in Requests, t \in Threads, call \in Nat : x = req[r].via /\ t = req[r].t /\ call = req[r].call  BY <1>2
  <1>4. seq \in [Requests -> Nat]  BY DEF Shape
  <1>5. PICK pos \in Nat : pos = seq[x] + 1  BY <1>4
  <1>6. rows' = rows /\ turn' = turn /\ Goto(r, "turn") /\ seq' = [seq EXCEPT ![x] = pos]
    BY <1>3, <1>5 DEF ToolResult
  <1>7. /\ req'[r].op = "send" /\ req'[r].pc = "turn" /\ req'[r].via = x  BY <1>0, <1>1, <1>2, <1>3, <1>6 DEF Goto
  <1>8. TurnStep(r)  BY DEF TurnStep
  <1>9. \A v \in Requests : Quiet(v)
    <2>1. Quiet(r)  BY <1>1, <1>3, <1>7 DEF Quiet, Begun, In, Editing
    <2> QED BY <2>1, <1>8, OthersSame, SameQuiet
  <1>10. \A y \in Requests : seq'[y] >= seq[y]  BY <1>4, <1>5, <1>6
  <1>11. PICK c, e : c = Message(t, call, r, "call") /\ e = Message(t, pos, r, "result")  OBVIOUS
  <1>12. PICK N : N = {c, e}  OBVIOUS
  <1>13. msgs \subseteq msgs' /\ msgs' \subseteq msgs \cup N  BY <1>3, <1>5, <1>11, <1>12 DEF ToolResult
  <1>14. /\ DOMAIN c = {"thread", "pos", "turn", "kind"} /\ c.thread = t /\ c.pos = call /\ c.turn = r /\ c.kind = "call"
         /\ DOMAIN e = {"thread", "pos", "turn", "kind"} /\ e.thread = t /\ e.pos = pos /\ e.turn = r /\ e.kind = "result"
    BY <1>11 DEF Message
  <1>15. PICK k \in Nat : call <= k /\ pos <= k
    <2>1. call + pos \in Nat /\ call <= call + pos /\ pos <= call + pos  OBVIOUS
    <2> QED BY <2>1
  <1>16. Begun(r)'  BY <1>7 DEF Begun
  <1>17. \A m \in N : /\ DOMAIN m = {"thread", "pos", "turn", "kind"} /\ m.thread \in Threads
                      /\ m.pos \in Nat /\ m.pos <= k /\ m.turn \in Requests /\ Begun(m.turn)'
                      /\ m.kind = "user" => ~Begun(m.turn)
    BY <1>12, <1>14, <1>15, <1>16
  <1>18. ASSUME NEW f \in msgs, f.kind = "user", f.turn = r  PROVE f.pos <= call /\ f.pos <= pos
    <2>1. f.pos <= call  BY <1>0, <1>1, <1>3, <1>18 DEF Counting
    <2>2. turn[x] = r  BY <1>0, <1>1, <1>3 DEF Counting
    <2>3. turn[x] # None  BY <2>2, ThreadAssumption
    <2>4. f.pos <= seq[x]  BY <1>0, <1>18, <2>2, <2>3 DEF Counting
    <2>5. f.pos \in Nat /\ seq[x] \in Nat  BY <1>0, <1>4 DEF MessageShape
    <2> QED BY <2>1, <2>4, <2>5, <1>5
  <1>19. \A m \in N : \A f \in msgs \cup N : Lead(f, m) /\ Lead(m, f)  BY <1>12, <1>14, <1>18 DEF Lead
  <1> QED BY <1>6, <1>9, <1>10, <1>13, <1>17, <1>19, AddsQuietly

\* A call takes a position after the user's message of its turn.
LEMMA ToolCallBranches ==
    ASSUME Shape, Shape', BranchInv, NEW r \in Requests, ToolCall(r)
    PROVE  BranchInv'
  <1>0. Form(req[r]) /\ DOMAIN req = Requests /\ MessageShape /\ Counting /\ Leading /\ Branches  BY DEF Shape, BranchInv
  <1>1. req[r].op = "send" /\ req[r].pc = "turn"  BY DEF ToolCall, At
  <1>2. /\ req[r].via \in Requests /\ {"op", "pc", "via", "call"} \subseteq DOMAIN req[r]
    BY <1>0, <1>1 DEF Form, Operations
  <1>3. PICK x \in Requests : x = req[r].via  BY <1>2
  <1>4. seq \in [Requests -> Nat] /\ turn \in [Requests -> Requests \cup {None}]  BY DEF Shape
  <1>5. PICK n \in Nat : n = seq[x] + 1  BY <1>4
  <1>6. UNCHANGED <<rows, msgs, turn>> /\ seq' = [seq EXCEPT ![x] = n]  BY <1>3, <1>5 DEF ToolCall
  <1>7. req'[r].op = "send" /\ req'[r].pc = "called" /\ req'[r].via = x /\ req'[r].call = n
    <2>1. req' = [req EXCEPT ![r].pc = "called", ![r].call = n]  BY <1>3, <1>5 DEF ToolCall
    <2> QED BY <2>1, <1>0, <1>1, <1>2, <1>3
  <1>8. TurnStep(r)  BY DEF TurnStep
  <1>9. \A u \in Requests : u # r => Quiet(u)  BY <1>8, OthersSame, SameQuiet
  <1>10. \A u \in Requests : (Begun(u) => Begun(u)') /\ (Editing(u)' => req'[u] = req[u])
    <2>1. Begun(r)' /\ ~Editing(r)'  BY <1>7 DEF Begun, Editing
    <2> QED BY <2>1, <1>9 DEF Quiet
  <1>11. MessageShape' /\ Leading' /\ Branches'
    <2>1. PICK e : e = {}  OBVIOUS
    <2>2. msgs \subseteq msgs' /\ msgs' \subseteq msgs \cup e /\ 0 \in Nat  BY <1>6
    <2>3. \A m \in e : FALSE  BY <2>1
    <2> QED BY <2>2, <2>3, <1>6, <1>10, Adds
  <1>12. turn[x] = r /\ turn[x] # None  BY <1>0, <1>1, <1>3, ThreadAssumption DEF Counting
  <1>13. ASSUME NEW f \in msgs, f.kind = "user", f.turn = r  PROVE f.pos <= n
    <2>1. f.pos <= seq[x]  BY <1>0, <1>12, <1>13 DEF Counting
    <2>2. f.pos \in Nat /\ seq[x] \in Nat  BY <1>0, <1>4 DEF MessageShape
    <2> QED BY <2>1, <2>2, <1>5
  <1>14. Counting'
    <2>1. ASSUME NEW y \in Requests, turn[y] # None
          PROVE  Begun(turn[y])' /\ \A f \in msgs' : f.kind = "user" /\ f.turn = turn[y] => f.pos <= seq'[y]
      <3>1. PICK u \in Requests : u = turn[y] /\ turn'[y] = u  BY <2>1, <1>4, <1>6
      <3>2. Begun(u) /\ \A f \in msgs : f.kind = "user" /\ f.turn = u => f.pos <= seq[y]  BY <1>0, <2>1, <3>1 DEF Counting
      <3>3. Begun(u)'  BY <3>2, <1>10
      <3>4. \A f \in msgs : f.pos \in Nat  BY <1>0 DEF MessageShape
      <3>5. seq[y] \in Nat /\ seq'[y] \in Nat /\ seq[y] <= seq'[y]  BY <1>4, <1>5, <1>6
      <3>6. \A f \in msgs : f.kind = "user" /\ f.turn = u => f.pos <= seq'[y]  BY <3>2, <3>4, <3>5
      <3> QED BY <3>1, <3>3, <3>6, <1>6
    <2>2. ASSUME NEW u \in Requests, In(u)'  PROVE turn'[req'[u].via] = u
      <3>1. CASE u = r  BY <3>1, <1>6, <1>7, <1>12
      <3>2. CASE u # r  BY <3>2, <2>2, <1>0, <1>6, <1>9 DEF Quiet, Counting, In
      <3> QED BY <3>1, <3>2
    <2>3. ASSUME NEW u \in Requests, In(u)', req'[u].pc = "called", NEW f \in msgs', f.kind = "user", f.turn = u
          PROVE  f.pos <= req'[u].call
      <3>1. CASE u = r  BY <3>1, <2>3, <1>6, <1>7, <1>13
      <3>2. CASE u # r  BY <3>2, <2>3, <1>0, <1>6, <1>9 DEF Quiet, Counting, In
      <3> QED BY <3>1, <3>2
    <2>4. \A y \in Requests : turn'[y] # None => (Begun(turn[y]))' /\ \A f \in msgs' : f.kind = "user" /\ f.turn = turn'[y] => f.pos <= seq'[y]
      BY <2>1, <1>6
    <2> QED BY <2>2, <2>3, <2>4 DEF Counting, In
  <1> QED BY <1>11, <1>14 DEF BranchInv

\* A turn begins with the message that leads it.
LEMMA TurnBeginsBranches ==
    ASSUME Shape, Shape', BranchInv, NEW r \in Requests, TurnBegins(r)
    PROVE  BranchInv'
  <1>0. Form(req[r]) /\ DOMAIN req = Requests /\ MessageShape /\ Counting /\ Leading /\ Branches  BY DEF Shape, BranchInv
  <1>1. req[r].op = "send" /\ req[r].pc = "run"  BY DEF TurnBegins, At
  <1>2. req[r].via \in Requests /\ req[r].t \in Threads /\ {"op", "pc", "via"} \subseteq DOMAIN req[r]
    BY <1>0, <1>1 DEF Form, Operations
  <1>3. PICK x \in Requests, t \in Threads : x = req[r].via /\ t = req[r].t  BY <1>2
  <1>4. seq \in [Requests -> Nat] /\ turn \in [Requests -> Requests \cup {None}]  BY DEF Shape
  <1>5. turn' = [turn EXCEPT ![x] = r] /\ InTurn(x) = {}  BY <1>3 DEF TurnBegins
  <1>6. Return(r) \/ Goto(r, "turn")  BY DEF TurnBegins
  <1>7. /\ req'[r].pc = "done" \/ (req'[r].op = "send" /\ req'[r].pc = "turn" /\ req'[r].via = x)
    BY <1>0, <1>1, <1>2, <1>3, <1>6 DEF Return, Goto, Done
  <1>8. ~Begun(r) /\ Begun(r)'  BY <1>1, <1>7 DEF Begun
  <1>9. TurnStep(r)  BY DEF TurnStep
  <1>10. \A u \in Requests : u # r => Quiet(u)  BY <1>9, OthersSame, SameQuiet
  <1>11. \A u \in Requests : (Begun(u) => Begun(u)') /\ (Editing(u)' => req'[u] = req[u])
    <2>1. ~Editing(r)'  BY <1>7 DEF Editing
    <2> QED BY <2>1, <1>8, <1>10 DEF Quiet
  <1>12. PICK pos \in Nat : /\ pos >= seq[x] /\ seq' = [seq EXCEPT ![x] = pos] /\ rows' = rows
                            /\ msgs' = msgs \/ msgs' = msgs \cup {Message(t, pos, r, "user")}
    <2>1. CASE Insert(t, x, r, "user")
      <3>1. PICK pos \in Nat : /\ pos > seq[x] /\ seq' = [seq EXCEPT ![x] = pos] /\ rows' = rows
                               /\ msgs' = msgs \/ msgs' = msgs \cup {Message(t, pos, r, "user")}
        BY <1>0, <2>1, Inserted
      <3>2. pos >= seq[x]  BY <3>1, <1>4
      <3> QED BY <3>1, <3>2
    <2>2. CASE ~Insert(t, x, r, "user")
      <3>1. PICK n \in Nat : n = syncMsgSeq(x, t) /\ seq[x] <= n  BY <1>0, SyncSeq
      <3>2. seq' = [seq EXCEPT ![x] = n] /\ UNCHANGED <<rows, msgs>>  BY <2>2, <3>1, <1>3 DEF TurnBegins
      <3>3. n >= seq[x]  BY <3>1, <1>4
      <3> QED BY <3>2, <3>3
    <2> QED BY <2>1, <2>2
  <1>13. PICK m : m = Message(t, pos, r, "user")  OBVIOUS
  <1>14. /\ DOMAIN m = {"thread", "pos", "turn", "kind"} /\ m.thread = t /\ m.pos = pos /\ m.turn = r /\ m.kind = "user"
    BY <1>13 DEF Message
  <1>15. \A f \in msgs : f.turn # r  BY <1>0, <1>8 DEF MessageShape
  <1>16. MessageShape' /\ Leading' /\ Branches'
    <2>1. PICK N : N = {m}  OBVIOUS
    <2>2. msgs \subseteq msgs' /\ msgs' \subseteq msgs \cup N  BY <2>1, <1>12, <1>13
    <2>3. \A n \in N : /\ DOMAIN n = {"thread", "pos", "turn", "kind"} /\ n.thread \in Threads
                       /\ n.pos \in Nat /\ n.pos <= pos /\ n.turn \in Requests /\ Begun(n.turn)'
                       /\ n.kind = "user" => ~Begun(n.turn)
      BY <2>1, <1>8, <1>14
    <2>4. \A n \in N : \A f \in msgs \cup N : Lead(f, n) /\ Lead(n, f)  BY <2>1, <1>14, <1>15 DEF Lead
    <2> QED BY <2>2, <2>3, <2>4, <1>11, <1>12, Adds
  <1>17. Counting'
    <2>1. ASSUME NEW y \in Requests, turn'[y] # None
          PROVE  (Begun(turn[y]))' /\ \A f \in msgs' : f.kind = "user" /\ f.turn = turn'[y] => f.pos <= seq'[y]
      <3>1. CASE y = x
        <4>1. turn'[y] = r /\ seq'[y] = pos  BY <3>1, <1>4, <1>5, <1>12
        <4>2. \A f \in msgs' : f.turn = r => f.pos <= pos  BY <1>12, <1>13, <1>14, <1>15
        <4> QED BY <4>1, <4>2, <1>8
      <3>2. CASE y # x
        <4>1. PICK u \in Requests : u = turn[y] /\ turn'[y] = u  BY <3>2, <2>1, <1>4, <1>5
        <4>2. turn[y] # None  BY <4>1, ThreadAssumption
        <4>3. Begun(u) /\ \A f \in msgs : f.kind = "user" /\ f.turn = u => f.pos <= seq[y]  BY <1>0, <4>1, <4>2 DEF Counting
        <4>4. u # r  BY <4>3, <1>8
        <4>5. Begun(u)' /\ seq'[y] = seq[y]  BY <4>3, <1>11, <1>12, <1>4, <3>2
        <4>6. \A f \in msgs' : f.turn = u => f \in msgs  BY <4>4, <1>12, <1>13, <1>14
        <4> QED BY <4>1, <4>3, <4>5, <4>6
      <3> QED BY <3>1, <3>2
    <2>2. ASSUME NEW u \in Requests, In(u)'  PROVE turn'[req'[u].via] = u
      <3>1. CASE u = r  BY <3>1, <2>2, <1>4, <1>5, <1>7 DEF In
      <3>2. CASE u # r
        <4>1. In(u) /\ req'[u].via = req[u].via  BY <3>2, <2>2, <1>10 DEF Quiet
        <4>2. req[u].via # x  BY <4>1, <1>5 DEF In, InTurn
        <4>3. turn[req[u].via] = u  BY <4>1, <1>0 DEF Counting, In
        <4>4. Form(req[u])  BY DEF Shape
        <4>5. req[u].via \in Requests  BY <4>1, <4>4 DEF In, Form, Operations
        <4> QED BY <4>1, <4>2, <4>3, <4>5, <1>4, <1>5
      <3> QED BY <3>1, <3>2
    <2>3. ASSUME NEW u \in Requests, In(u)', req'[u].pc = "called", NEW f \in msgs', f.kind = "user", f.turn = u
          PROVE  f.pos <= req'[u].call
      <3>1. u # r  BY <2>3, <1>7
      <3>2. f \in msgs  BY <3>1, <2>3, <1>12, <1>13, <1>14
      <3> QED BY <3>1, <3>2, <2>3, <1>0, <1>10 DEF Quiet, Counting, In
    <2> QED BY <2>1, <2>2, <2>3 DEF Counting, In
  <1> QED BY <1>16, <1>17 DEF BranchInv

\* A request reads the branch point.
LEMMA EditBegins ==
    ASSUME Shape, Shape', BranchInv, NEW r \in Requests, EditPoint(r) \/ \E t \in Threads : \E p \in 0 .. MaxPositions : EditMessage(r, t, p)
    PROVE  BranchInv'
  <1>0. Form(req[r]) /\ DOMAIN req = Requests /\ MessageShape /\ Branches  BY DEF Shape, BranchInv
  <1>1. UNCHANGED <<rows, msgs, seq, turn>>  BY DEF EditPoint, EditMessage, tables, counters
  <1>2. EditStep(r)  BY DEF EditStep
  <1>3. \A u \in Requests : u # r => Quiet(u)  BY <1>2, OthersSame, SameQuiet
  <1>4. req[r].pc \in {"ready", "point"}  BY DEF EditPoint, EditMessage, Starts, At
  <1>5. /\ req'[r].op = "edit" /\ req'[r].pc \in {"point", "row"} /\ rows[req'[r].t] # None
        /\ req'[r].pc = "row" /\ req'[r].snapped => Anchor(req'[r].t, req'[r].at)
    <2>1. CASE EditPoint(r)
      <3>1. req[r].op = "edit" /\ req[r].pc = "point"  BY <2>1 DEF EditPoint, At
      <3>2. req[r].at \in Nat /\ {"op", "pc", "t", "at", "snapped"} \subseteq DOMAIN req[r]  BY <3>1, <1>0 DEF Form, Operations
      <3>3. PICK t, p : t = req[r].t /\ p = TurnStartPosition(t, req[r].at)  OBVIOUS
      <3>4. PICK z \in BOOLEAN : z <=> \E m \in Stored(t) : m.pos = req[r].at  OBVIOUS
      <3>5. req' = [req EXCEPT ![r].pc = "row", ![r].at = p, ![r].snapped = z]  BY <2>1, <3>3, <3>4 DEF EditPoint
      <3>6. req'[r].op = "edit" /\ req'[r].pc = "row" /\ req'[r].t = t /\ req'[r].at = p /\ req'[r].snapped = z
        BY <3>1, <3>2, <3>3, <3>5, <1>0
      <3>7. rows[t] # None  BY <3>1, <3>3, <1>0 DEF Branches
      <3>8. z => Anchor(t, p)  BY <3>2, <3>3, <3>4, <1>0, TurnStart DEF Anchor
      <3> QED BY <3>6, <3>7, <3>8
    <2>2. CASE \E t \in Threads : \E p \in 0 .. MaxPositions : EditMessage(r, t, p)
      <3>1. PICK t \in Threads, p \in 0 .. MaxPositions : EditMessage(r, t, p)  BY <2>2
      <3>2. req'[r].op = "edit" /\ req'[r].pc = "point" /\ req'[r].t = t  BY <3>1, <1>0 DEF EditMessage
      <3>3. rows[t] # None  BY <3>1 DEF EditMessage, Exists
      <3> QED BY <3>2, <3>3
    <2> QED BY <2>1, <2>2
  <1>6. \A u \in Requests : Turning(u)
    <2>1. Turning(r)  BY <1>4, <1>5 DEF Turning, Begun, In
    <2> QED BY <2>1, <1>3 DEF Turning, Quiet
  <1>7. MessageShape' /\ Counting' /\ Leading'  BY <1>1, <1>6, NoMessageTurns
  <1>8. \A t, p : Anchor(t, p)' <=> Anchor(t, p)  BY <1>1 DEF Anchor, Triggered, Stored
  <1>9. \A t : Exists(t)' <=> Exists(t)  BY <1>1 DEF Exists
  <1>10. ASSUME NEW b \in Threads, Exists(b)', rows'[b].parent # None
         PROVE  (Exists(rows[b].parent))' /\ (rows'[b].snapped => (Anchor(rows[b].parent, rows[b].point))')
    BY <1>0, <1>1, <1>8, <1>9, <1>10 DEF Branches
  <1>11. ASSUME NEW u \in Requests, Editing(u)'
         PROVE  /\ rows'[req'[u].t] # None
                /\ req'[u].pc = "row" /\ req'[u].snapped /\ (Exists(req[u].t))' => (Anchor(req[u].t, req[u].at))'
    <2>1. CASE u = r  BY <2>1, <1>1, <1>5, <1>8
    <2>2. CASE u # r
      <3>1. req'[u] = req[u] /\ Editing(u)  BY <2>2, <1>3, <1>11 DEF Quiet, Editing
      <3> QED BY <3>1, <1>0, <1>1, <1>8, <1>9 DEF Branches, Editing
    <2> QED BY <2>1, <2>2
  <1>12. Branches'  BY <1>10, <1>11 DEF Branches, Editing
  <1> QED BY <1>7, <1>12 DEF BranchInv

\* A new branch starts at the anchor its request found.
LEMMA EditRowBranches ==
    ASSUME Shape, Shape', BranchInv, NEW r \in Requests, NEW id \in Spare, EditRow(r, id)
    PROVE  BranchInv'
  <1>0. Form(req[r]) /\ DOMAIN req = Requests /\ MessageShape /\ Branches /\ id \in Threads  BY DEF Shape, BranchInv, Threads
  <1>1. UNCHANGED <<msgs, seq, turn>> /\ rows[id] = None  BY DEF EditRow, counters
  <1>2. EditStep(r)  BY DEF EditStep
  <1>3. req[r].op = "edit" /\ req[r].pc = "row"  BY DEF EditRow, At
  <1>4. /\ req[r].at \in Nat /\ req[r].t \in Threads /\ req[r].settings \in Settings \cup {None}
        /\ req[r].snapped \in BOOLEAN /\ {"pc", "new"} \subseteq DOMAIN req[r]
    BY <1>0, <1>3 DEF Form, Operations
  <1>5. PICK w \in Rows : w = Row(req[r].settings, req[r].t, req[r].at, req[r].snapped)  BY <1>4, NewRow
  <1>6. w.parent = req[r].t /\ w.point = req[r].at /\ w.snapped = req[r].snapped  BY <1>5 DEF Row
  <1>7. CreateRow(r, id, w, "insert")  BY <1>5 DEF EditRow
  <1>8. \A u \in Requests : Quiet(u)
    <2>1. req'[r].pc \in {"done", "insert"}  BY <1>0, <1>4, <1>7 DEF CreateRow, Return, Done
    <2>2. Quiet(r)  BY <2>1, <1>3, Offstage DEF In
    <2> QED BY <2>2, <1>2, OthersSame, SameQuiet
  <1>9. CASE rows' = rows  BY <1>1, <1>8, <1>9, SameLinked, NoMessage
  <1>10. CASE rows' # rows
    <2>1. rows' = [rows EXCEPT ![id] = w] /\ Exists(req[r].t)
      <3>1. w.parent # None  BY <1>4, <1>6, ThreadAssumption
      <3> QED BY <3>1, <1>6, <1>7, <1>10 DEF CreateRow
    <2>2. rows'[id] = w /\ \A b \in Threads : b # id => rows'[b] = rows[b]  BY <2>1, <1>0 DEF Shape
    <2>3. \A b \in Threads : b # id => (Exists(b)' <=> Exists(b))  BY <2>2 DEF Exists
    <2>4. \A t, p : Anchor(t, p)' <=> Anchor(t, p)  BY <1>1 DEF Anchor, Triggered, Stored
    <2>5. MessageShape' /\ Counting' /\ Leading'
      <3>1. \A u \in Requests : Turning(u)  BY <1>8 DEF Quiet, Turning
      <3> QED BY <3>1, <1>1, NoMessageTurns
    <2>6. ASSUME NEW b \in Threads, Exists(b)', rows'[b].parent # None
          PROVE  (Exists(rows[b].parent))' /\ (rows'[b].snapped => (Anchor(rows[b].parent, rows[b].point))')
      <3>1. CASE b = id
        <4>1. PICK t \in Threads, p \in {req[r].at} : t = req[r].t /\ p = req[r].at  BY <1>4
        <4>2. Exists(t) /\ t # id  BY <2>1, <4>1, <1>1 DEF Exists
        <4>3. Exists(t)' /\ rows'[b].parent = t /\ rows'[b].point = p  BY <4>1, <4>2, <3>1, <2>2, <2>3, <1>6
        <4>4. rows'[b].snapped => Anchor(t, p)  BY <1>0, <1>3, <1>6, <2>2, <3>1, <4>1, <4>2 DEF Branches
        <4> QED BY <4>3, <4>4, <2>4
      <3>2. CASE b # id
        <4>1. rows'[b] = rows[b] /\ Exists(b) /\ rows[b] # None  BY <3>2, <2>2, <2>3, <2>6 DEF Exists
        <4>2. PICK t \in Threads, p \in {rows[b].point} : t = rows[b].parent /\ p = rows[b].point  BY <4>1, <2>6 DEF Shape, Rows
        <4>3. Exists(t) /\ (rows[b].snapped => Anchor(t, p))  BY <4>1, <4>2, <2>6, <1>0 DEF Branches
        <4>4. t # id  BY <4>3, <1>1 DEF Exists
        <4>5. Exists(t)'  BY <4>3, <4>4, <2>3
        <4> QED BY <4>1, <4>2, <4>3, <4>5, <2>4
      <3> QED BY <3>1, <3>2
    <2>7. ASSUME NEW u \in Requests, Editing(u)'
          PROVE  /\ rows'[req'[u].t] # None
                 /\ req'[u].pc = "row" /\ req'[u].snapped /\ (Exists(req[u].t))' => (Anchor(req[u].t, req[u].at))'
      <3>1. req'[u] = req[u] /\ Editing(u)  BY <1>8, <2>7 DEF Quiet, Editing
      <3>2. Form(req[u])  BY DEF Shape
      <3>3. PICK t \in Threads, p \in {req[u].at} : t = req[u].t /\ p = req[u].at  BY <3>1, <3>2 DEF Editing, Form, Operations
      <3>4. rows[t] # None /\ (req[u].pc = "row" /\ req[u].snapped /\ Exists(t) => Anchor(t, p))
        BY <1>0, <3>1, <3>3 DEF Branches, Editing
      <3>5. t # id  BY <3>4, <1>1
      <3> QED BY <3>1, <3>3, <3>4, <3>5, <2>2, <2>3, <2>4
    <2>8. Branches'  BY <2>6, <2>7 DEF Branches, Editing
    <2> QED BY <2>5, <2>8 DEF BranchInv
  <1> QED BY <1>9, <1>10

\* Every step keeps turns led and branches anchored.
LEMMA BranchInvStep ==
    ASSUME Shape, Shape', BranchInv, [Next]_vars
    PROVE  BranchInv'
  <1>1. ASSUME NEW r \in Requests, RunnerStep(r) \/ UploadStep(r)  PROVE BranchInv'
    <2>1. UNCHANGED <<rows, msgs, seq, turn>>
      BY <1>1 DEF RunnerStep, UploadStep, GetOrBuild, BuildReads, BuildEnds, StopRunner, Upload, SaveHeader, Uploaded,
         tables, counters
    <2>2. \A u \in Requests : Quiet(u)  BY <1>1, RunnerQuiet, UploadQuiet, OthersSame, SameQuiet
    <2> QED BY <2>1, <2>2, SameLinked, NoMessage
  <1>2. ASSUME NEW r \in Requests, RowStep(r)  PROVE BranchInv'
    <2>1. CASE \E t \in Threads : DeleteThread(r, t)  BY <2>1, DeleteBranches
    <2>2. CASE \A t \in Threads : ~DeleteThread(r, t)
      <3>1. Linked  BY <1>2, <2>2, LinkedStep
      <3>2. \A u \in Requests : Quiet(u)  BY <1>2, RowQuiet, OthersSame, SameQuiet
      <3>3. UNCHANGED <<msgs, seq, turn>>
        BY <1>2, <2>2 DEF RowStep, CreateDirs, CreateThread, UpdateWrite, UpdateGet, EnterPlanMode, ArchiveThread,
           PublishThreadState, PublishAgentState, SetMode, ApprovePlan, tables, counters
      <3> QED BY <3>1, <3>2, <3>3, NoMessage
    <2> QED BY <2>1, <2>2
  <1>3. ASSUME NEW r \in Requests, TurnStep(r)  PROVE BranchInv'
    <2>0. Form(req[r]) /\ DOMAIN req = Requests  BY DEF Shape
    <2>1. CASE \/ \E t \in Threads : SendMessage(r, t) \/ \E op \in {"deny", "resume"} : Note(r, op, t)
               \/ TurnEnds(r) \/ PublishRetryStatus(r)
      <3>1. UNCHANGED <<rows, msgs, seq, turn>>
        BY <2>1 DEF SendMessage, Note, TurnEnds, PublishRetryStatus, tables, counters
      <3>2. Quiet(r)
        <4>1. CASE \E t \in Threads : SendMessage(r, t) \/ \E op \in {"deny", "resume"} : Note(r, op, t)
          <5>1. req[r].pc = "ready" /\ req'[r].pc = "runner"  BY <4>1, <2>0 DEF SendMessage, Note, Starts, At
          <5> QED BY <5>1, Offstage DEF In
        <4>2. CASE TurnEnds(r)
          <5>1. req'[r].pc = "done" /\ req[r].op = "send"  BY <4>2, <2>0 DEF TurnEnds, Return, Done, At
          <5> QED BY <5>1 DEF Quiet, Begun, In, Editing
        <4>3. CASE PublishRetryStatus(r)  BY <4>3 DEF PublishRetryStatus, Quiet, Begun, In, Editing
        <4> QED BY <2>1, <4>1, <4>2, <4>3
      <3>3. \A u \in Requests : Quiet(u)  BY <1>3, <3>2, OthersSame, SameQuiet
      <3> QED BY <3>1, <3>3, SameLinked, NoMessage
    <2> QED BY <1>3, <2>1, TurnBeginsBranches, ToolCallBranches, ToolResultBranches, NoteBranches DEF TurnStep
  <1>4. ASSUME NEW r \in Requests, EditStep(r)  PROVE BranchInv'
    BY <1>4, EditBegins, EditRowBranches, EditInsertBranches DEF EditStep
  <1>5. ASSUME Reload \/ StopAll \/ TabStep \/ UNCHANGED vars  PROVE BranchInv'
    <2>1. UNCHANGED <<rows, msgs, seq, turn, req>>
      BY <1>5 DEF Reload, StopAll, TabStep, TabSubscribes, TabReceives, TabCloses, SendEvent, vars, tables, counters
    <2>2. \A u \in Requests : Quiet(u)  BY <2>1 DEF Quiet, Begun, In, Editing
    <2> QED BY <2>1, <2>2, SameLinked, NoMessage
  <1> QED BY <1>1, <1>2, <1>3, <1>4, <1>5, Steps

\* A call before an anchor has its result before it too: the anchor is the first message of its turn.
LEMMA BranchInvWhole ==
    ASSUME Shape, BranchInv
    PROVE  BranchWhole
  <1> SUFFICES ASSUME NEW b \in Threads, Exists(b), rows[b].parent # None, rows[b].snapped,
                      NEW c \in Stored(rows[b].parent), NEW e \in Stored(rows[b].parent),
                      c.turn = e.turn, c \in ThreadCorpus(b), e \notin ThreadCorpus(b)
               PROVE  \/ \E m \in Stored(rows[b].parent) : m.pos = rows[b].point /\ m.turn # c.turn
                      \/ \A m \in Stored(rows[b].parent) : m.turn = c.turn => m.kind # "user"
    BY DEF BranchWhole
  <1>1. PICK t, p : t = rows[b].parent /\ p = rows[b].point  OBVIOUS
  <1>2. rows[b].point \in Nat  BY DEF Shape, Exists, Rows
  <1>3. Anchor(t, p)  BY <1>1 DEF BranchInv, Branches
  <1>4. PICK m \in Stored(t) : m.pos = p /\ (Triggered(t, m.turn) => \A n \in Stored(t) : n.turn = m.turn => n.pos >= p)
    BY <1>3 DEF Anchor
  <1>5. c.pos < p
    <2>1. c \in Stored(b) \/ c.pos < p  BY <1>1 DEF ThreadCorpus
    <2>2. c \notin Stored(b)
      <3>1. SUFFICES ASSUME c \in Stored(b)  PROVE FALSE  OBVIOUS
      <3>2. e \in Stored(b)  BY <3>1 DEF Stored
      <3> QED BY <3>2 DEF ThreadCorpus
    <2> QED BY <2>1, <2>2
  <1>6. c.pos \in Nat  BY DEF BranchInv, MessageShape, Stored
  <1>7. ~(c.pos >= p)  BY <1>1, <1>2, <1>5, <1>6
  <1>8. m.turn = c.turn => ~Triggered(t, c.turn)  BY <1>1, <1>4, <1>7
  <1> QED BY <1>1, <1>4, <1>8 DEF Triggered
-----------------------------------------------------------------------------
(* AttachmentsKept.                                                        *)

\* The first and the last of some indices.
LEMMA Ends ==
    ASSUME NEW k \in Nat, NEW S \in SUBSET (1 .. k), S # {}
    PROVE  /\ Min(S) \in S /\ \A y \in S : Min(S) <= y
           /\ Max(S) \in S /\ \A y \in S : y <= Max(S)
           /\ Min(S) \in 1 .. k /\ Max(S) \in 1 .. k /\ Min(S) <= Max(S)
  <1>1. S \in SUBSET Nat /\ \A y \in S : y <= k  OBVIOUS
  <1>2. Min(S) \in S /\ \A y \in S : Min(S) <= y  BY <1>1, LeastNat
  <1>3. Max(S) \in S /\ \A y \in S : y <= Max(S)  BY <1>1, GreatestNat
  <1> QED BY <1>2, <1>3

\* A part of a sequence.
LEMMA Slice ==
    ASSUME NEW C, NEW s \in Seq(C), NEW a \in Nat, a >= 1, NEW b \in Nat, b <= Len(s), a <= b + 1
    PROVE  /\ SubSeq(s, a, b) \in Seq(C) /\ Len(SubSeq(s, a, b)) = b - a + 1
           /\ \A i \in 1 .. b - a + 1 : SubSeq(s, a, b)[i] = s[a + i - 1]
  <1>1. Len(s) \in Nat /\ DOMAIN s = 1 .. Len(s)  OBVIOUS
  <1>2. a \in 1 .. Len(s) + 1 /\ b \in a - 1 .. Len(s)  BY <1>1
  <1> QED BY <1>1, <1>2, SubSeqProperties

\* The whole is a part.
LEMMA WholePart ==
    ASSUME NEW C, NEW s \in Seq(C)
    PROVE  SubSeq(s, 1, Len(s)) = s
  OBVIOUS

\* The characters of a name, and one that was sanitized.
Is(s, i, c) == s[i] = c
Name(s) == \E C : s \in Seq(C)
Bare(s) == Name(s) /\ \A i \in 1 .. Len(s) : ~Is(s, i, "/")
Closed(s) == Len(s) # 0 => ~Is(s, Len(s), " ")
Clean(s) == Bare(s) /\ Closed(s) /\ Len(s) # 0 /\ ~Is(s, 1, ".")

\* A name has a length.
LEMMA NameLen ==
    ASSUME NEW s, Name(s)
    PROVE  Len(s) \in Nat /\ DOMAIN s = 1 .. Len(s) /\ (s = << >> <=> Len(s) = 0)
  <1>1. PICK C : s \in Seq(C)  BY DEF Name
  <1> QED BY <1>1

\* A part of a name, character by character.
LEMMA NameSlice ==
    ASSUME NEW s, Name(s), NEW a \in Nat, a >= 1, NEW b \in Nat, b <= Len(s), a <= b + 1, NEW q, q = SubSeq(s, a, b)
    PROVE  /\ Name(q) /\ Len(q) = b - a + 1
           /\ \A c : \A i \in 1 .. b - a + 1 : Is(q, i, c) <=> Is(s, a + i - 1, c)
  <1>1. PICK C : s \in Seq(C)  BY DEF Name
  <1>2. /\ q \in Seq(C) /\ Len(q) = b - a + 1 /\ \A i \in 1 .. b - a + 1 : q[i] = s[a + i - 1]  BY <1>1, Slice
  <1> QED BY <1>2 DEF Name, Is

\* A name is the whole of itself.
LEMMA NameWhole ==
    ASSUME NEW s, Name(s)
    PROVE  SubSeq(s, 1, Len(s)) = s
  <1>1. PICK C : s \in Seq(C)  BY DEF Name
  <1> QED BY <1>1, WholePart

\* A part of a name without separators has none.
LEMMA BareSlice ==
    ASSUME NEW s, Bare(s), NEW a \in Nat, a >= 1, NEW b \in Nat, b <= Len(s), a <= b + 1
    PROVE  Bare(SubSeq(s, a, b))
  <1>1. PICK q : q = SubSeq(s, a, b)  OBVIOUS
  <1>2. Name(s)  BY DEF Bare
  <1>3. /\ Name(q) /\ Len(q) = b - a + 1 /\ \A c : \A i \in 1 .. b - a + 1 : Is(q, i, c) <=> Is(s, a + i - 1, c)
    BY <1>1, <1>2, NameSlice
  <1>4. Len(s) \in Nat  BY <1>2, NameLen
  <1>5. \A i \in 1 .. b - a + 1 : a + i - 1 \in 1 .. Len(s)  BY <1>4
  <1>6. \A i \in 1 .. Len(s) : ~Is(s, i, "/")  BY DEF Bare
  <1>7. \A i \in 1 .. Len(q) : ~Is(q, i, "/")  BY <1>3, <1>5, <1>6
  <1> QED BY <1>1, <1>3, <1>7 DEF Bare

\* Trimming adds no separator and leaves no blank at the end.
LEMMA TrimmedBare ==
    ASSUME NEW s, Bare(s)
    PROVE  /\ Bare(Trimmed(s)) /\ Closed(Trimmed(s))
           /\ Len(s) # 0 /\ ~Is(s, 1, " ") /\ Closed(s) => Trimmed(s) = s
  <1> DEFINE S == {i \in DOMAIN s : s[i] # " "}
  <1>1. Name(s)  BY DEF Bare
  <1>2. PICK k \in Nat : k = Len(s) /\ DOMAIN s = 1 .. k  BY <1>1, NameLen
  <1>3. S \in SUBSET (1 .. k)  BY <1>2
  <1>4. Trimmed(s) = IF S = {} THEN << >> ELSE SubSeq(s, Min(S), Max(S))  BY DEF Trimmed
  <1>5. \A i \in 1 .. k : i \in S <=> ~Is(s, i, " ")  BY <1>2 DEF Is
  <1> HIDE DEF S
  <1>6. CASE S = {}
    <2>1. PICK e : e = << >> /\ Trimmed(s) = e  BY <1>4, <1>6
    <2>2. e \in Seq({}) /\ Name(e)  BY <2>1 DEF Name
    <2>3. Len(e) = 0  BY <2>1, <2>2, NameLen
    <2>4. 1 .. 0 = {}  OBVIOUS
    <2>5. Bare(e) /\ Closed(e)  BY <2>2, <2>3, <2>4 DEF Bare, Closed
    <2>6. k # 0 => 1 \in 1 .. k  OBVIOUS
    <2>7. k # 0 => Is(s, 1, " ")  BY <2>6, <1>5, <1>6
    <2> QED BY <2>1, <2>5, <2>7, <1>2
  <1>7. CASE S # {}
    <2>1. PICK a \in 1 .. k, b \in 1 .. k : /\ a = Min(S) /\ b = Max(S) /\ a \in S /\ b \in S /\ a <= b
                                            /\ \A y \in S : a <= y /\ y <= b
      BY <1>3, <1>7, Ends
    <2>2. a \in Nat /\ b \in Nat /\ a >= 1 /\ b <= k /\ a <= b + 1  BY <2>1
    <2>3. PICK q : q = SubSeq(s, a, b)  OBVIOUS
    <2>4. Trimmed(s) = q  BY <1>4, <1>7, <2>1, <2>3
    <2>5. Bare(q)  BY <2>2, <2>3, <1>2, BareSlice
    <2>6. Len(q) = b - a + 1 /\ \A c : \A i \in 1 .. b - a + 1 : Is(q, i, c) <=> Is(s, a + i - 1, c)
      BY ZenonT(60), <2>2, <2>3, <1>1, <1>2, NameSlice
    <2>7. b - a + 1 \in 1 .. b - a + 1 /\ a + (b - a + 1) - 1 = b  BY <2>1, <2>2
    <2>8. ~Is(s, b, " ")  BY <1>5, <2>1
    <2>9. Closed(q)  BY <2>6, <2>7, <2>8 DEF Closed
    <2>10. ASSUME Len(s) # 0, ~Is(s, 1, " "), Closed(s)  PROVE q = s
      <3>0. \A n \in Nat : n # 0 => 1 \in 1 .. n /\ n \in 1 .. n  OBVIOUS
      <3>1. 1 \in 1 .. k /\ k \in 1 .. k  BY <1>2, <2>10, <3>0
      <3>2. 1 \in S /\ k \in S  BY <1>2, <1>5, <2>10, <3>1 DEF Closed
      <3>3. a <= 1 /\ k <= b  BY <2>1, <3>2
      <3>4. a = 1 /\ b = k  BY <2>1, <3>3
      <3> QED BY <1>1, <1>2, <2>3, <3>4, NameWhole
    <2> QED BY <2>4, <2>5, <2>9, <2>10
  <1> QED BY <1>6, <1>7

\* Without its leading dots, a trimmed name is clean.
LEMMA UndottedClean ==
    ASSUME NEW s, Bare(s), Closed(s)
    PROVE  /\ Len(Undotted(s)) = 0 \/ Clean(Undotted(s))
           /\ Name(Undotted(s)) /\ (Clean(s) => Undotted(s) = s)
  <1> DEFINE S == {i \in DOMAIN s : s[i] # "."}
  <1>1. Name(s)  BY DEF Bare
  <1>2. PICK k \in Nat : k = Len(s) /\ DOMAIN s = 1 .. k  BY <1>1, NameLen
  <1>3. S \in SUBSET (1 .. k)  BY <1>2
  <1>4. Undotted(s) = IF S = {} THEN << >> ELSE SubSeq(s, Min(S), Len(s))  BY DEF Undotted
  <1>5. \A i \in 1 .. k : i \in S <=> ~Is(s, i, ".")  BY <1>2 DEF Is
  <1> HIDE DEF S
  <1>6. CASE S = {}
    <2>1. PICK e : e = << >> /\ Undotted(s) = e  BY <1>4, <1>6
    <2>2. e \in Seq({}) /\ Name(e)  BY <2>1 DEF Name
    <2>3. Len(e) = 0  BY <2>1, <2>2, NameLen
    <2>4. k # 0 => 1 \in 1 .. k  OBVIOUS
    <2>5. k # 0 => Is(s, 1, ".")  BY <2>4, <1>5, <1>6
    <2> QED BY <2>1, <2>2, <2>3, <2>5, <1>2 DEF Clean
  <1>7. CASE S # {}
    <2>1. PICK a \in 1 .. k : a = Min(S) /\ a \in S /\ \A y \in S : a <= y  BY <1>3, <1>7, Ends
    <2>0. PICK b \in Nat : b = k /\ b <= Len(s)  BY <1>2
    <2>2. a \in Nat /\ a >= 1 /\ a <= b + 1  BY <2>0, <2>1
    <2>3. PICK q : q = SubSeq(s, a, b)  OBVIOUS
    <2>4. Undotted(s) = q  BY <1>2, <1>4, <1>7, <2>0, <2>1, <2>3
    <2>5. Bare(q)  BY <2>0, <2>2, <2>3, BareSlice
    <2>11. Len(q) = b - a + 1 /\ \A c : \A i \in 1 .. b - a + 1 : Is(q, i, c) <=> Is(s, a + i - 1, c)
      BY <2>0, <2>2, <2>3, <1>1, NameSlice
    <2>6. Len(q) = k - a + 1 /\ \A c : \A i \in 1 .. k - a + 1 : Is(q, i, c) <=> Is(s, a + i - 1, c)
      BY <2>0, <2>11
    <2>7. /\ k - a + 1 \in 1 .. k - a + 1 /\ a + (k - a + 1) - 1 = k /\ 1 \in 1 .. k - a + 1 /\ a + 1 - 1 = a
          /\ k - a + 1 # 0 /\ k # 0
      BY <2>1, <2>2
    <2>8. ~Is(s, k, " ") /\ ~Is(s, a, ".")  BY <1>2, <1>5, <2>1, <2>7 DEF Closed
    <2>9. Clean(q)  BY <2>5, <2>6, <2>7, <2>8 DEF Clean, Closed
    <2>10. ASSUME Clean(s)  PROVE q = s
      <3>1. 1 \in 1 .. k  BY <2>1, <2>7
      <3>2. 1 \in S  BY <1>5, <2>10, <3>1 DEF Clean
      <3>3. a = 1  BY <2>1, <3>2
      <3> QED BY <1>1, <1>2, <2>0, <2>3, <3>3, NameWhole
    <2> QED BY <2>4, <2>5, <2>9, <2>10 DEF Bare
  <1> QED BY <1>6, <1>7

\* Before it is marked and cut, a name is made clean; a clean name is left alone
\* unless it begins with a blank.
Cut(c) == IF c = << >> THEN << >> ELSE Shortened(Marked(c))
Cleaned(s, c) ==
    /\ sanitizeFilename(s) = Cut(c) /\ Name(c) /\ (Len(c) = 0 \/ Clean(c))
    /\ Clean(s) /\ ~Is(s, 1, " ") => c = s
LEMMA Sanitized ==
    ASSUME NEW s, Name(s)
    PROVE  \E c : Cleaned(s, c)
  <1> DEFINE S == {i \in DOMAIN s : s[i] # "/"}
             end == IF S = {} THEN 0 ELSE Max(S)
             P == {i \in 1 .. end : s[i] = "/"}
             base == SubSeq(s, IF P = {} THEN 1 ELSE Max(P) + 1, end)
  <1>1. sanitizeFilename(s) = Cut(Undotted(Trimmed(base)))  BY DEF sanitizeFilename, Cut
  <1>2. PICK k \in Nat : k = Len(s) /\ DOMAIN s = 1 .. k  BY NameLen
  <1>3. S \in SUBSET (1 .. k)  BY <1>2
  <1>4. \A i \in 1 .. k : i \in S <=> ~Is(s, i, "/")  BY <1>2 DEF Is
  <1> HIDE DEF S
  <1>5. PICK b \in Nat : b = end /\ b <= k /\ (S = {} => b = 0) /\ (S # {} => b = Max(S))
    <2>1. S # {} => Max(S) \in 1 .. k  BY <1>3, Ends
    <2> QED BY <2>1
  <1>6. P \in SUBSET (1 .. b) /\ \A i \in 1 .. b : i \in P <=> Is(s, i, "/")  BY <1>5 DEF Is
  <1> HIDE DEF P, end
  <1>7. PICK a \in Nat : /\ a = (IF P = {} THEN 1 ELSE Max(P) + 1) /\ a >= 1 /\ a <= b + 1
                         /\ P = {} => a = 1
                         /\ \A i \in P : i < a
    <2>1. CASE P = {}  BY <2>1
    <2>2. CASE P # {}
      <3>1. Max(P) \in 1 .. b /\ \A y \in P : y <= Max(P)  BY <1>6, <2>2, Ends
      <3>2. PICK a \in Nat : a = Max(P) + 1  BY <3>1
      <3>3. a >= 1 /\ a <= b + 1 /\ \A i \in P : i < a  BY <3>1, <3>2, <1>6
      <3> QED BY <2>2, <3>2, <3>3
    <2> QED BY <2>1, <2>2
  <1>8. PICK q : q = SubSeq(s, a, b)  OBVIOUS
  <1>9. base = q  BY <1>5, <1>7, <1>8
  <1> HIDE DEF base
  <1>10. /\ Name(q) /\ Len(q) = b - a + 1 /\ \A c : \A i \in 1 .. b - a + 1 : Is(q, i, c) <=> Is(s, a + i - 1, c)
    <2>1. b <= Len(s)  BY <1>2, <1>5
    <2>2. a >= 1 /\ a <= b + 1  BY <1>7
    <2> QED BY <2>1, <2>2, <1>8, NameSlice
  <1>11. \A i \in 1 .. b - a + 1 : a + i - 1 \in 1 .. b /\ ~(a + i - 1 < a)  BY <1>7
  <1>12. Bare(q)  BY <1>6, <1>7, <1>10, <1>11 DEF Bare
  <1>13. Bare(Trimmed(q)) /\ Closed(Trimmed(q))  BY <1>12, TrimmedBare
  <1>14. Name(Undotted(Trimmed(q))) /\ (Len(Undotted(Trimmed(q))) = 0 \/ Clean(Undotted(Trimmed(q))))
    BY <1>13, UndottedClean
  <1>15. ASSUME Clean(s), ~Is(s, 1, " ")  PROVE Undotted(Trimmed(q)) = s
    <2>1. Bare(s) /\ Closed(s) /\ k # 0  BY <1>2, <1>15 DEF Clean
    <2>2. \A i \in 1 .. k : i \in S  BY <1>2, <1>4, <2>1 DEF Bare
    <2>3. \A n \in Nat : n # 0 => 1 \in 1 .. n /\ n \in 1 .. n  OBVIOUS
    <2>4. k \in S  BY <2>1, <2>2, <2>3
    <2>5. k <= Max(S)  BY <1>3, <2>4, Ends
    <2>6. b = k  BY <1>5, <2>4, <2>5
    <2>7. P = {}  BY <1>2, <1>6, <2>1, <2>6 DEF Bare
    <2>8. q = s  BY <1>2, <1>7, <1>8, <2>6, <2>7, NameWhole
    <2>9. Trimmed(s) = s  BY <1>2, <1>15, <2>1, TrimmedBare
    <2>10. Undotted(s) = s  BY <1>15, <2>1, UndottedClean
    <2> QED BY <2>8, <2>9, <2>10
  <1>16. PICK c : c = Undotted(Trimmed(q))  OBVIOUS
  <1>17. sanitizeFilename(s) = Cut(c)  BY <1>1, <1>9, <1>16
  <1>18. Cleaned(s, c)  BY <1>14, <1>15, <1>16, <1>17 DEF Cleaned
  <1> QED BY <1>18

\* A name that is a prefix of a name, and one name behind another.
Mark == "_"
Prefix(q, s, k) == Name(q) /\ Len(q) = k /\ \A c : \A i \in 1 .. k : Is(q, i, c) <=> Is(s, i, c)
Join(q, s, u) ==
    /\ Name(q) /\ Len(q) = Len(s) + Len(u)
    /\ \A c : \A i \in 1 .. Len(s) : Is(q, i, c) <=> Is(s, i, c)
    /\ \A c : \A i \in 1 .. Len(u) : Is(q, Len(s) + i, c) <=> Is(u, i, c)
    /\ \A i \in 1 .. Len(q) : i \in 1 .. Len(s) \/ \E j \in 1 .. Len(u) : i = Len(s) + j

\* The first characters of a name.
LEMMA Prefixed ==
    ASSUME NEW s, Name(s), NEW k \in Nat, k <= Len(s), NEW q, q = SubSeq(s, 1, k)
    PROVE  Prefix(q, s, k)
  <1>1. 1 \in Nat /\ 1 >= 1 /\ 1 <= k + 1 /\ k - 1 + 1 = k /\ \A i \in 1 .. k : 1 + i - 1 = i  OBVIOUS
  <1>2. /\ Name(q) /\ Len(q) = k - 1 + 1
        /\ \A c : \A i \in 1 .. k - 1 + 1 : Is(q, i, c) <=> Is(s, 1 + i - 1, c)
    BY ZenonT(60), <1>1, NameSlice
  <1> QED BY <1>1, <1>2 DEF Prefix

\* Joining two names.
LEMMA Joined ==
    ASSUME NEW s, Name(s), NEW u, Name(u), NEW q, q = s \o u
    PROVE  Join(q, s, u)
  <1>1. PICK C : s \in Seq(C)  BY DEF Name
  <1>2. PICK D : u \in Seq(D)  BY DEF Name
  <1>3. s \in Seq(C \cup D) /\ u \in Seq(C \cup D)
    <2>1. C \subseteq C \cup D /\ D \subseteq C \cup D  OBVIOUS
    <2> QED BY <1>1, <1>2, <2>1, SeqMonotonic
  <1>4. PICK k \in Nat : k = Len(s)  BY <1>1
  <1>5. PICK l \in Nat : l = Len(u)  BY <1>2
  <1>6. /\ q \in Seq(C \cup D) /\ Len(q) = k + l
        /\ \A i \in 1 .. k + l : q[i] = IF i <= k THEN s[i] ELSE u[i - k]
    BY <1>3, <1>4, <1>5, ConcatProperties
  <1>7. \A i \in 1 .. k : i \in 1 .. k + l /\ i <= k  OBVIOUS
  <1>8. \A i \in 1 .. l : k + i \in 1 .. k + l /\ ~(k + i <= k) /\ k + i - k = i  OBVIOUS
  <1>9. \A i \in 1 .. k + l : i \in 1 .. k \/ (i - k \in 1 .. l /\ i = k + (i - k))  OBVIOUS
  <1>10. \A i \in 1 .. k : q[i] = s[i]  BY <1>6, <1>7
  <1>11. ASSUME NEW i \in 1 .. l  PROVE q[k + i] = u[i]
    <2>1. PICK d \in Nat : d = k + i  BY <1>5
    <2>2. d \in 1 .. k + l /\ ~(d <= k) /\ d - k = i  BY <1>8, <2>1
    <2>3. q[d] = u[d - k]  BY <1>6, <2>2
    <2> QED BY <2>1, <2>2, <2>3
  <1> QED BY <1>4, <1>5, <1>6, <1>9, <1>10, <1>11 DEF Join, Name, Is

\* Parts without separators make a name without separators.
LEMMA BareJoined ==
    ASSUME NEW s, Bare(s), NEW u, Bare(u)
    PROVE  Bare(s \o u)
  <1>1. PICK q : q = s \o u  OBVIOUS
  <1>2. Name(s) /\ Name(u)  BY DEF Bare
  <1>3. Join(q, s, u)  BY <1>1, <1>2, Joined
  <1>4. \A i \in 1 .. Len(q) : ~Is(q, i, "/")  BY <1>3 DEF Bare, Join
  <1> QED BY <1>1, <1>3, <1>4 DEF Bare, Join

\* The extension is a part without separators, as long as the name at most.
LEMMA Extension ==
    ASSUME NEW s, Bare(s)
    PROVE  Bare(Ext(s))
  <1>1. Name(s)  BY DEF Bare
  <1>2. PICK k \in Nat : k = Len(s) /\ DOMAIN s = 1 .. k  BY <1>1, NameLen
  <1>3. Dots(s) \in SUBSET (1 .. k)  BY <1>2 DEF Dots
  <1>4. CASE Dots(s) = {}
    <2>1. PICK e : e = << >> /\ Ext(s) = e  BY <1>4 DEF Ext
    <2>2. e \in Seq({}) /\ Name(e)  BY <2>1 DEF Name
    <2>3. Len(e) = 0  BY <2>1, <2>2, NameLen
    <2>4. 1 .. 0 = {}  OBVIOUS
    <2> QED BY <2>1, <2>2, <2>3, <2>4 DEF Bare
  <1>5. CASE Dots(s) # {}
    <2>1. PICK a \in 1 .. k : a = Max(Dots(s))  BY <1>3, <1>5, Ends
    <2>2. a \in Nat /\ a >= 1 /\ k <= Len(s) /\ a <= k + 1  BY <1>2, <2>1
    <2>3. Bare(SubSeq(s, a, k))  BY <2>2, BareSlice
    <2> QED BY <1>2, <1>5, <2>1, <2>3 DEF Ext
  <1> QED BY <1>4, <1>5

\* A name that begins with the mark is no device's.
LEMMA StemMarked ==
    ASSUME NEW s, Name(s), Len(s) # 0, Is(s, 1, Mark)
    PROVE  Stem(s) \notin Reserved
  <1>1. PICK k \in Nat : k = Len(s) /\ DOMAIN s = 1 .. k /\ k # 0 /\ 1 \in 1 .. k
    <2>1. PICK k \in Nat : k = Len(s) /\ DOMAIN s = 1 .. k  BY NameLen
    <2>2. \A l \in Nat : l # 0 => 1 \in 1 .. l  OBVIOUS
    <2> QED BY <2>1, <2>2
  <1>2. Dots(s) \in SUBSET (1 .. k)  BY <1>1 DEF Dots
  <1>3. 1 \notin Dots(s)
    <2>1. "_" # "."  OBVIOUS
    <2> QED BY <2>1 DEF Dots, Is, Mark
  <1>4. ASSUME NEW q, Name(q), Len(q) # 0, Is(q, 1, Mark)  PROVE q \notin Reserved
    <2>1. PICK C : q \in Seq(C)  BY <1>4 DEF Name
    <2>2. q # << >>  BY <1>4, NameLen
    <2>3. \A D : \A v \in Seq(D) : v # << >> => Head(v) = v[1]  OBVIOUS
    <2>4. Head(q) = q[1]  BY <2>1, <2>2, <2>3
    <2> QED BY <1>4, <2>2, <2>4, NameAssumption DEF Is, Mark
  <1>5. CASE Dots(s) = {}  BY <1>4, <1>5 DEF Stem
  <1>6. CASE Dots(s) # {}
    <2>1. PICK a \in 1 .. k : a = Min(Dots(s)) /\ a \in Dots(s)  BY <1>2, <1>6, Ends
    <2>2. a # 1  BY <1>3, <2>1
    <2>7. \A x \in 1 .. k : x # 1 => x - 1 \in Nat /\ x - 1 # 0 /\ x - 1 <= k /\ 1 \in 1 .. x - 1  BY <1>1
    <2>3. PICK b \in Nat : b = a - 1 /\ b # 0 /\ b <= k /\ 1 \in 1 .. b  BY <2>1, <2>2, <2>7
    <2>4. PICK q : q = SubSeq(s, 1, b)  OBVIOUS
    <2>5. Prefix(q, s, b)  BY <1>1, <2>3, <2>4, Prefixed
    <2>6. q \notin Reserved  BY <1>4, <2>3, <2>5 DEF Prefix
    <2> QED BY <1>6, <2>1, <2>3, <2>4, <2>6 DEF Stem
  <1> QED BY <1>5, <1>6

\* A marked name is clean and no device's.
LEMMA MarkedClean ==
    ASSUME NEW s, Clean(s)
    PROVE  Clean(Marked(s)) /\ Stem(Marked(s)) \notin Reserved
  <1>1. CASE Stem(s) \notin Reserved  BY <1>1 DEF Marked
  <1>2. CASE Stem(s) \in Reserved
    <2>1. PICK p : p = <<"_">>  OBVIOUS
    <2>0. \A c : <<c>> \in Seq({c}) /\ Len(<<c>>) = 1 /\ <<c>>[1] = c  OBVIOUS
    <2>2. p \in Seq({Mark}) /\ Len(p) = 1 /\ p[1] = Mark  BY <2>0, <2>1 DEF Mark
    <2>16. Mark # "." /\ Mark # "/"  BY DEF Mark
    <2>3. Name(p) /\ Is(p, 1, Mark) /\ ~Is(p, 1, ".") /\ ~Is(p, 1, "/")  BY <2>2, <2>16 DEF Name, Is
    <2>4. \A l : l = 1 => \A i \in 1 .. l : i = 1  OBVIOUS
    <2>5. Bare(p)  BY <2>2, <2>3, <2>4 DEF Bare
    <2>6. Bare(s) /\ Name(s) /\ Len(s) # 0 /\ ~Is(s, Len(s), " ")  BY DEF Clean, Bare, Closed
    <2>7. PICK q : q = p \o s  OBVIOUS
    <2>8. PICK k \in Nat : k = Len(s) /\ k # 0  BY <2>6, NameLen
    <2>17. Join(q, p, s)  BY <2>3, <2>6, <2>7, Joined
    <2>9. /\ Name(q) /\ Len(q) = 1 + k
          /\ \A c : \A i \in 1 .. 1 : Is(q, i, c) <=> Is(p, i, c)
          /\ \A c : \A i \in 1 .. k : Is(q, 1 + i, c) <=> Is(s, i, c)
      BY <2>2, <2>8, <2>17 DEF Join
    <2>10. 1 \in 1 .. 1 /\ k \in 1 .. k /\ 1 + k # 0  BY <2>8
    <2>11. Is(q, 1, Mark) /\ ~Is(q, 1, ".")  BY <2>3, <2>9, <2>10
    <2>12. ~Is(q, 1 + k, " ")  BY <2>6, <2>8, <2>9, <2>10
    <2>13. Bare(q)  BY <2>5, <2>6, <2>7, BareJoined
    <2>14. Clean(q)  BY <2>9, <2>10, <2>11, <2>12, <2>13 DEF Clean, Closed
    <2>15. Stem(q) \notin Reserved  BY <2>9, <2>10, <2>11, StemMarked
    <2> QED BY <1>2, <2>1, <2>7, <2>14, <2>15 DEF Marked
  <1> QED BY <1>1, <1>2

\* A name cut to the file system's length: exactly that long, as it began.
LEMMA CutShort ==
    ASSUME NEW s, Clean(s), NEW n, n = Shortened(s), Len(s) > MaxName, ~(Len(n) > MaxName)
    PROVE  Bare(n) /\ Len(n) = MaxName /\ ~Is(n, 1, ".")
  <1>1. Bare(s) /\ Name(s) /\ Len(s) # 0 /\ ~Is(s, 1, ".")  BY DEF Clean, Bare
  <1>2. PICK k \in Nat : k = Len(s)  BY <1>1, NameLen
  <1>3. PICK M \in Nat : M = MaxName /\ M # 0  BY NameAssumption
  <1>4. PICK e : e = Ext(s)  OBVIOUS
  <1>5. Bare(e) /\ Name(e)  BY <1>1, <1>4, Extension DEF Bare
  <1>6. PICK l \in Nat : l = Len(e)  BY <1>5, NameLen
  <1>7. k > M  BY <1>2, <1>3
  <1>8. PICK h \in Nat : h = Max({1, M - l}) /\ h >= 1 /\ h <= k /\ (M - l >= 1 => h = M - l) /\ (M - l < 1 => h = 1)
    <2>1. CASE M - l >= 1
      <3>1. {1, M - l} \in SUBSET Nat /\ {1, M - l} # {} /\ \A y \in {1, M - l} : y <= M - l  BY <2>1
      <3>2. Max({1, M - l}) \in {1, M - l} /\ \A y \in {1, M - l} : y <= Max({1, M - l})  BY <3>1, <1>3, GreatestNat
      <3>3. Max({1, M - l}) = M - l  BY <3>2, <2>1
      <3> QED BY <3>3, <2>1, <1>7
    <2>2. CASE M - l < 1
      <3>1. Max({1, M - l}) = CHOOSE x \in {1, M - l} : \A y \in {1, M - l} : x >= y  BY DEF Max
      <3>2. 1 \in {1, M - l} /\ \A y \in {1, M - l} : 1 >= y  BY <2>2
      <3>3. PICK x \in {1, M - l} : x = Max({1, M - l}) /\ \A y \in {1, M - l} : x >= y  BY <3>1, <3>2
      <3>4. x = 1  BY <3>3, <2>2
      <3> QED BY <3>3, <3>4, <2>2, <1>7
    <2>3. M - l \in Int  BY <1>3, <1>6
    <2>4. \A i \in Int : i >= 1 \/ i < 1  OBVIOUS
    <2> QED BY <2>1, <2>2, <2>3, <2>4
  <1>9. PICK q : q = SubSeq(s, 1, h)  OBVIOUS
  <1>10. n = q \o e  BY <1>2, <1>3, <1>4, <1>6, <1>7, <1>8, <1>9 DEF Shortened
  <1>18. Prefix(q, s, h)  BY <1>1, <1>2, <1>8, <1>9, Prefixed
  <1>11. Name(q) /\ Len(q) = h /\ \A c : \A i \in 1 .. h : Is(q, i, c) <=> Is(s, i, c)
    BY <1>18 DEF Prefix
  <1>12. Bare(q)
    <2>1. 1 \in Nat /\ 1 >= 1 /\ h <= Len(s) /\ 1 <= h + 1  BY <1>2, <1>8
    <2> QED BY <2>1, <1>1, <1>9, BareSlice
  <1>19. Join(n, q, e)  BY <1>5, <1>10, <1>11, Joined
  <1>13. /\ Len(n) = h + l
         /\ \A c : \A i \in 1 .. h : Is(n, i, c) <=> Is(q, i, c)
    BY <1>6, <1>11, <1>19 DEF Join
  <1>14. Bare(n)  BY <1>5, <1>10, <1>12, BareJoined
  <1>15. ~(h + l > M)  BY <1>3, <1>13
  <1>16. h + l = M  BY <1>8, <1>15
  <1>17. 1 \in 1 .. h  BY <1>8
  <1> QED BY <1>1, <1>3, <1>11, <1>13, <1>14, <1>16, <1>17

\* A clean name that is no device's and short enough is left alone, unless it begins
\* with a blank.
LEMMA LeftAlone ==
    ASSUME NEW m, Clean(m), Stem(m) \notin Reserved, Len(m) <= MaxName
    PROVE  Plain(m) \/ Head(m) = " "
  <1>1. Name(m) /\ Len(m) # 0  BY DEF Clean, Bare
  <1>2. m # << >> /\ Len(m) \in Nat  BY <1>1, NameLen
  <1>3. CASE Is(m, 1, " ")
    <2>1. m[1] = " "  BY <1>3 DEF Is
    <2>2. PICK C : m \in Seq(C)  BY <1>1 DEF Name
    <2>3. Head(m) = m[1]  BY <1>2, <2>2
    <2> QED BY <2>1, <2>3
  <1>4. CASE ~Is(m, 1, " ")
    <2>1. PICK c : Cleaned(m, c)  BY <1>1, Sanitized
    <2>2. sanitizeFilename(m) = Cut(m)  BY <1>4, <2>1 DEF Cleaned
    <2>3. PICK M \in Nat : M = MaxName  BY NameAssumption
    <2>4. PICK k \in Nat : k = Len(m) /\ k <= M  BY <1>2, <2>3
    <2>5. ~(k > M)  BY <2>4
    <2>6. Shortened(Marked(m)) = m  BY <2>3, <2>4, <2>5 DEF Marked, Shortened
    <2> QED BY <1>2, <2>2, <2>6 DEF Plain, Cut
  <1> QED BY <1>3, <1>4

\* What an upload stores under: a name that sanitizing leaves alone, or one of the
\* exceptions.
LEMMA StoredName ==
    ASSUME NEW s, Name(s), NEW n, n = IF sanitizeFilename(s) = << >> THEN <<"a">> ELSE sanitizeFilename(s),
           ~(Len(n) > MaxName)
    PROVE  Plain(n) \/ Odd(n)
  <1>1. PICK c : Cleaned(s, c)  BY Sanitized
  <1>2. Name(c) /\ (Len(c) = 0 \/ Clean(c)) /\ sanitizeFilename(s) = Cut(c)  BY <1>1 DEF Cleaned
  <1>3. c = << >> <=> Len(c) = 0  BY <1>2, NameLen
  <1>4. CASE Cut(c) = << >>
    <2>1. n = <<"a">>  BY <1>2, <1>4
    <2>0. \A d : <<d>> \in Seq({d}) /\ Len(<<d>>) = 1 /\ <<d>>[1] = d  OBVIOUS
    <2>2. n \in Seq({"a"}) /\ Len(n) = 1 /\ n[1] = "a"  BY <2>0, <2>1
    <2>3. Name(n) /\ ~Is(n, 1, ".") /\ ~Is(n, 1, "/")  BY <2>2 DEF Name, Is
    <2>4. ~Is(n, 1, " ")
      <3>1. "a" # " "  OBVIOUS
      <3> QED BY <2>2, <3>1 DEF Is
    <2>5. \A l : l = 1 => \A i \in 1 .. l : i = 1  OBVIOUS
    <2>6. \A i \in 1 .. Len(n) : i = 1  BY <2>2, <2>5
    <2>7. Bare(n) /\ Closed(n)  BY <2>2, <2>3, <2>4, <2>6 DEF Bare, Closed
    <2>8. Len(n) # 0  BY <2>2
    <2>9. Clean(n)  BY <2>3, <2>7, <2>8 DEF Clean
    <2>10. Dots(n) = {}
      <3>1. DOMAIN n = 1 .. Len(n)  BY <2>3, NameLen
      <3> QED BY <2>3, <2>6, <3>1 DEF Dots, Is
    <2>11. Stem(n) \notin Reserved  BY <2>1, <2>10, NameAssumption DEF Stem
    <2>12. PICK M \in Nat : M = MaxName /\ M # 0  BY NameAssumption
    <2>13. 1 <= M  BY <2>12
    <2>14. Len(n) <= MaxName  BY <2>2, <2>12, <2>13
    <2> QED BY <2>9, <2>11, <2>14, LeftAlone DEF Odd
  <1>5. CASE Cut(c) # << >>
    <2>1. PICK m : m = Marked(c)  OBVIOUS
    <2>2. c # << >> /\ n = Shortened(m)  BY <1>2, <1>5, <2>1 DEF Cut
    <2>3. Clean(m) /\ Stem(m) \notin Reserved  BY <1>2, <1>3, <2>1, <2>2, MarkedClean
    <2>4. PICK k \in Nat : k = Len(m)
      <3>1. Name(m)  BY <2>3 DEF Clean, Bare
      <3> QED BY <3>1, NameLen
    <2>5. PICK M \in Nat : M = MaxName /\ M # 0  BY NameAssumption
    <2>6. CASE k <= M
      <3>1. ~(k > M)  BY <2>6
      <3>2. n = m  BY <2>2, <2>4, <2>5, <3>1 DEF Shortened
      <3> QED BY <2>3, <2>4, <2>5, <2>6, <3>2, LeftAlone DEF Odd
    <2>7. CASE k > M
      <3>1. Bare(n) /\ Len(n) = MaxName /\ ~Is(n, 1, ".")  BY <2>2, <2>3, <2>4, <2>5, <2>7, CutShort
      <3>2. Name(n) /\ Len(n) # 0 /\ n # << >>
        <4>1. Name(n) /\ Len(n) # 0  BY <3>1, <2>5 DEF Bare
        <4> QED BY <4>1, NameLen
      <3>3. Last(n) = n[Len(n)]  BY DEF Last
      <3>4. CASE Is(n, Len(n), " ") \/ Stem(n) \in Reserved  BY <3>1, <3>3, <3>4 DEF Is, Odd
      <3>5. CASE ~Is(n, Len(n), " ") /\ Stem(n) \notin Reserved
        <4>1. Clean(n)  BY <3>1, <3>2, <3>5 DEF Clean, Closed
        <4>2. Len(n) <= MaxName
          <5>1. M <= M  BY <2>5
          <5> QED BY <3>1, <2>5, <5>1
        <4> QED BY <4>1, <4>2, <3>5, LeftAlone DEF Odd
      <3> QED BY <3>4, <3>5
    <2> QED BY <2>4, <2>6, <2>7
  <1> QED BY <1>4, <1>5

\* The other requests report no files.
NoFiles(r) == req[r].op \notin {"upload", "uploaded"} /\ req'[r].op \in {"none", req[r].op}

\* A request that returns reports no file.
LEMMA NoFilesReturn ==
    ASSUME Shape, NEW r \in Requests, req[r].op \notin {"upload", "uploaded"},
           Return(r) \/ (\E pc : Goto(r, pc)) \/ UNCHANGED req
    PROVE  NoFiles(r)
  <1>1. DOMAIN req = Requests /\ Form(req[r])  BY DEF Shape
  <1>2. "op" \in DOMAIN req[r]  BY <1>1 DEF Form
  <1> QED BY <1>1, <1>2 DEF NoFiles, Return, Goto, Done

\* No other step reports files.
LEMMA NoFilesStep ==
    ASSUME Shape, NEW r \in Requests, RunnerStep(r) \/ RowStep(r) \/ TurnStep(r) \/ EditStep(r)
    PROVE  NoFiles(r)
  <1>1. DOMAIN req = Requests /\ Form(req[r])  BY DEF Shape
  <1>2. "op" \in DOMAIN req[r]  BY <1>1 DEF Form
  <1>3. CASE RunnerStep(r)
    <2>1. req[r].pc \in {"runner", "build", "stop"}  BY <1>3 DEF RunnerStep, GetOrBuild, BuildReads, BuildEnds, StopRunner
    <2>2. req[r].op \notin {"upload", "uploaded"}  BY <2>1, <1>1 DEF Form
    <2>3. CASE GetOrBuild(r) \/ BuildEnds(r)
      <3>1. "via" \in DOMAIN req[r]  BY <2>3, <1>1 DEF Form, Operations, GetOrBuild, BuildEnds
      <3> QED BY <2>2, <2>3, <3>1, <1>1, <1>2 DEF GetOrBuild, BuildEnds, Use, Goto, NoFiles
    <2>4. CASE BuildReads(r)  BY <2>2, <2>4, NoFilesReturn DEF BuildReads
    <2>5. CASE StopRunner(r)  BY <2>2, <2>5, <1>2 DEF StopRunner, Done, NoFiles
    <2> QED BY <1>3, <2>3, <2>4, <2>5 DEF RunnerStep
  <1>4. CASE RowStep(r)
    <2>1. CASE \/ \E ok \in BOOLEAN : CreateDirs(r, ok)
               \/ UpdateWrite(r) \/ PublishThreadState(r) \/ PublishAgentState(r) \/ SetMode(r)
      <3>1. req[r].op \notin {"upload", "uploaded"}
        BY <2>1 DEF CreateDirs, UpdateWrite, PublishThreadState, PublishAgentState, SetMode, At
      <3>2. Return(r) \/ (\E pc : Goto(r, pc)) \/ UNCHANGED req
        BY <2>1 DEF CreateDirs, UpdateWrite, PublishThreadState, PublishAgentState, SetMode
      <3> QED BY <3>1, <3>2, NoFilesReturn
    <2>2. CASE \E id \in Spare, s \in Settings : CreateThread(r, id, s)
      BY <2>2, <1>1 DEF CreateThread, Starts, At, NoFiles
    <2>3. CASE \E t \in Threads : \E s \in Settings \cup {None} : UpdateGet(r, t, s)
      BY <2>3, <1>1 DEF UpdateGet, Starts, At, NoFiles
    <2>4. CASE \E t \in Threads : DeleteThread(r, t)  BY <2>4, <1>1 DEF DeleteThread, Starts, At, Return, Done, NoFiles
    <2>5. CASE \E t \in Threads : EnterPlanMode(r, t)  BY <2>5, <1>1 DEF EnterPlanMode, Starts, At, Return, Done, NoFiles
    <2>6. CASE \E t \in Threads : \E on \in BOOLEAN : ArchiveThread(r, t, on)
      BY <2>6, <1>1 DEF ArchiveThread, Starts, At, NoFiles
    <2>7. CASE \E t \in Threads : ApprovePlan(r, t)  BY <2>7, <1>1 DEF ApprovePlan, Starts, At, Return, Done, NoFiles
    <2> QED BY <1>4, <2>1, <2>2, <2>3, <2>4, <2>5, <2>6, <2>7 DEF RowStep
  <1>5. CASE TurnStep(r)
    <2>1. CASE \/ TurnBegins(r) \/ ToolResult(r) \/ TurnEnds(r) \/ PublishRetryStatus(r)
               \/ Denial(r) \/ Correction(r)
      <3>1. req[r].op \notin {"upload", "uploaded"}
        BY <2>1 DEF TurnBegins, ToolResult, TurnEnds, PublishRetryStatus, Denial, Correction, At
      <3>2. Return(r) \/ (\E pc : Goto(r, pc)) \/ UNCHANGED req
        BY <2>1 DEF TurnBegins, ToolResult, TurnEnds, PublishRetryStatus, Denial, Correction
      <3> QED BY <3>1, <3>2, NoFilesReturn
    <2>2. CASE \/ ToolCall(r)
               \/ \E t \in Threads : SendMessage(r, t) \/ \E op \in {"deny", "resume"} : Note(r, op, t)
      BY <2>2, <1>1, <1>2 DEF ToolCall, SendMessage, Note, NoFiles, Starts, At
    <2> QED BY <1>5, <2>1, <2>2 DEF TurnStep
  <1>6. CASE EditStep(r)
    <2>1. CASE \/ \E t \in Threads : \E p \in 0 .. MaxPositions : EditMessage(r, t, p)
               \/ \E id \in Spare : EditRow(r, id)
      BY <2>1, <1>1, <1>2 DEF EditMessage, EditRow, CreateRow, NoFiles, Starts, At, Return, Done
    <2>2. CASE EditPoint(r)  BY <2>2, <1>1, <1>2 DEF EditPoint, NoFiles, At
    <2>3. CASE EditInsert(r)  BY <2>3, NoFilesReturn DEF EditInsert, At
    <2> QED BY <1>6, <2>1, <2>2, <2>3 DEF EditStep
  <1> QED BY <1>3, <1>4, <1>5, <1>6

\* Every step keeps what was reported.
LEMMA UploadInvStep ==
    ASSUME Shape, UploadInv, [Next]_vars
    PROVE  UploadInv'
  <1> DEFINE Kept2(f) == f \in files /\ f.size <= Limit /\ (Plain(f.name) \/ Odd(f.name))
             Reports(u) == req[u].op \in {"upload", "uploaded"} /\ req[u].pc # "ready"
  <1>0. \A u \in Requests : Reports(u) => \A f \in req[u].out : Kept2(f)  BY DEF UploadInv
  <1>1. ASSUME files \subseteq files', NEW r,
               \A u \in Requests : u # r => Same(u),
               r \in Requests /\ Reports(r)' => \A f \in req'[r].out : Kept2(f)'
        PROVE  UploadInv'
    <2>1. ASSUME NEW u \in Requests, u # r, Reports(u)'  PROVE \A f \in req'[u].out : Kept2(f)'
      <3>1. Same(u)  BY <1>1, <2>1
      <3>2. ~In(u)  BY <3>1, <2>1 DEF Same, In
      <3>3. req'[u] = req[u]  BY <3>1, <3>2 DEF Same
      <3> QED BY <1>0, <1>1, <2>1, <3>3
    <2> QED BY <1>1, <2>1 DEF UploadInv
  <1>2. ASSUME NEW r \in Requests, RunnerStep(r) \/ RowStep(r) \/ TurnStep(r) \/ EditStep(r)  PROVE UploadInv'
    <2>1. files' = files
      <3>1. CASE RunnerStep(r) \/ EditStep(r)
        BY <3>1 DEF RunnerStep, EditStep, GetOrBuild, BuildReads, BuildEnds, StopRunner, EditMessage, EditPoint,
             EditRow, EditInsert
      <3>2. CASE RowStep(r)
        BY <3>2 DEF RowStep, CreateDirs, CreateThread, UpdateWrite, UpdateGet, DeleteThread, EnterPlanMode, ArchiveThread,
           PublishThreadState, PublishAgentState, SetMode, ApprovePlan
      <3>3. CASE TurnStep(r)
        BY <3>3 DEF TurnStep, SendMessage, Note, TurnBegins, ToolCall, ToolResult, TurnEnds, PublishRetryStatus,
             Denial, Correction
      <3> QED BY <1>2, <3>1, <3>2, <3>3
    <2>3. ~Reports(r)'  BY <1>2, NoFilesStep DEF NoFiles
    <2> QED BY <1>1, <1>2, <2>1, <2>3, OthersSame
  <1>3. ASSUME NEW r \in Requests, UploadStep(r)  PROVE UploadInv'
    <2>0. Form(req[r]) /\ DOMAIN req = Requests  BY DEF Shape
    <2>1. \A u \in Requests : u # r => Same(u)  BY <1>3, OthersSame
    <2>2. CASE \E t \in Threads : \E sent \in Sent : Upload(r, t, sent)
      <3>1. files' = files /\ req'[r].out = {}  BY <2>0, <2>2 DEF Upload
      <3> QED BY <1>1, <2>1, <3>1
    <2>3. CASE Uploaded(r)
      <3>1. files' = files /\ req'[r].out = req[r].out /\ Reports(r)  BY <2>0, <2>3 DEF Uploaded, At
      <3>2. \A f \in req'[r].out : Kept2(f)'  BY <1>0, <3>1
      <3> QED BY <1>1, <2>1, <3>1, <3>2
    <2>4. ASSUME NEW ok \in BOOLEAN, SaveHeader(r, ok)  PROVE UploadInv'
      <3>0. req[r].op = "upload" /\ req[r].pc = "save" /\ req[r].left # << >> /\ Reports(r)  BY <2>4 DEF SaveHeader, At
      <3>1. req[r].left \in Seq(FileNames) /\ {"op", "pc", "left", "out"} \subseteq DOMAIN req[r]  BY <3>0, <2>0 DEF Form, Operations
      <3>2. PICK f \in FileNames : f = Head(req[r].left)  BY <3>0, <3>1, HeadTailProperties
      <3>3. Name(f.name) /\ f.size \in Nat /\ Limit \in Nat  BY ThreadAssumption DEF Name
      <3>4. CASE Return(r) /\ UNCHANGED files
        <4>1. ~Reports(r)'  BY <3>4, <2>0 DEF Return, Done
        <4> QED BY <4>1, <3>4, <2>1, <1>1
      <3>5. CASE ~(Return(r) /\ UNCHANGED files)
        <4>1. PICK name : name = IF sanitizeFilename(f.name) = << >> THEN <<"a">> ELSE sanitizeFilename(f.name)  OBVIOUS
        <4>2. PICK kept : kept = [thread |-> req[r].t, id |-> <<r, Len(req[r].left)>>, name |-> name, size |-> f.size]  OBVIOUS
        <4>3. /\ ~(f.size > Limit) /\ ~(Len(name) > MaxName) /\ files' = files \cup {kept}
              /\ req' = [req EXCEPT ![r].left = Tail(@), ![r].out = @ \cup {kept}]
          BY <2>4, <3>2, <3>5, <4>1, <4>2 DEF SaveHeader
        <4>4. req'[r].out = req[r].out \cup {kept}  BY <4>3, <3>1, <2>0
        <4>5. kept.size <= Limit /\ kept.name = name  BY <3>3, <4>2, <4>3
        <4>6. Plain(name) \/ Odd(name)  BY <3>3, <4>1, <4>3, StoredName
        <4>7. Kept2(kept)'  BY <4>3, <4>5, <4>6
        <4>8. \A g \in req[r].out : Kept2(g)'  BY <1>0, <3>0, <4>3
        <4> QED BY <1>1, <2>1, <4>3, <4>4, <4>7, <4>8
      <3> QED BY <3>4, <3>5
    <2> QED BY <1>3, <2>2, <2>3, <2>4 DEF UploadStep
  <1>4. ASSUME Reload \/ StopAll \/ TabStep \/ UNCHANGED vars  PROVE UploadInv'
    <2>1. UNCHANGED <<req, files>>
      BY <1>4 DEF Reload, StopAll, TabStep, TabSubscribes, TabReceives, TabCloses, SendEvent, vars
    <2> QED BY <2>1 DEF UploadInv, Plain, Odd
  <1> QED BY <1>2, <1>3, <1>4, Steps
-----------------------------------------------------------------------------
(* The theorems.                                                           *)

\* The inductive invariant: the shape of the state, and what each of the four
\* properties needs of it.
ThreadInv == Shape /\ Sound(ps) /\ RunnerInv /\ BranchInv /\ UploadInv

\* A new server has one thread, no runner, no message and no subscriber, whatever
\* the requests that are about to arrive.
LEMMA ThreadInvInit ==
    ASSUME Init
    PROVE  ThreadInv
  <1>1. \A r \in Requests : Form(req[r]) /\ req[r].pc = "ready"
    <2>1. PICK s \in Scripts : req = [r \in Requests |-> [op |-> s.ops[r], pc |-> "ready"]]  BY DEF Init
    <2>2. \A r \in Requests : s.ops[r] \in Operations  BY ThreadAssumption
    <2>3. \A o \in Operations : Form([op |-> o, pc |-> "ready"])  BY DEF Form
    <2> QED BY <2>1, <2>2, <2>3
  <1>2. DOMAIN req = Requests  BY DEF Init
  <1>3. rows \in [Threads -> Rows \cup {None}]
    <2>1. PICK row : row = Row(Initial, None, 0, FALSE)  OBVIOUS
    <2>2. row \in Rows  BY <2>1, NewRow, ThreadAssumption
    <2>3. rows = [t \in Threads |-> IF t = Root THEN row ELSE None]  BY <2>1 DEF Init
    <2> QED BY <2>2, <2>3
  <1>4. \A t \in Threads : Exists(t) => rows[t].parent = None
    <2>1. \A t \in Threads : rows[t] # None => rows[t].parent = None  BY DEF Init, Row
    <2> QED BY <2>1 DEF Exists
  <1>5. Shape  BY <1>1, <1>2, <1>3 DEF Init, Shape
  <1>6. Sound(ps)  BY NewSound DEF Init
  <1>7. RunnerInv
    <2>1. \A t \in Threads : registry[t] = None /\ building[t] = None  BY DEF Init
    <2> QED BY <1>1, <2>1 DEF RunnerInv, Builder, Reading, Running, Unborn
  <1>8. BranchInv
    <2>1. msgs = {} /\ \A x \in Requests : turn[x] = None  BY DEF Init
    <2>2. MessageShape  BY <2>1 DEF MessageShape
    <2>3. Counting /\ Leading  BY <1>1, <2>1 DEF Counting, Leading
    <2>4. Branches  BY <1>1, <1>4 DEF Branches
    <2> QED BY <2>2, <2>3, <2>4 DEF BranchInv
  <1>9. UploadInv  BY <1>1 DEF UploadInv
  <1> QED BY <1>5, <1>6, <1>7, <1>8, <1>9 DEF ThreadInv

\* Every step keeps the inductive invariant.
LEMMA ThreadInvStep ==
    ASSUME ThreadInv, [Next]_vars
    PROVE  ThreadInv'
  <1>1. Shape /\ Sound(ps) /\ RunnerInv /\ BranchInv /\ UploadInv  BY DEF ThreadInv
  <1>2. Sound(ps)'  BY <1>1, FanoutStep
  <1>3. Shape'  BY <1>1, ShapeStep DEF RunnerInv, BranchInv
  <1>4. RunnerInv'  BY <1>1, RunnerInvStep
  <1>5. BranchInv'  BY <1>1, <1>3, BranchInvStep
  <1>6. UploadInv'  BY <1>1, UploadInvStep
  <1> QED BY <1>2, <1>3, <1>4, <1>5, <1>6 DEF ThreadInv

\* The inductive invariant holds.
LEMMA ThreadInvHolds == Spec => []ThreadInv
  <1>1. Init => ThreadInv  BY ThreadInvInit
  <1>2. ThreadInv /\ [Next]_vars => ThreadInv'  BY ThreadInvStep
  <1> QED BY <1>1, <1>2, PTL DEF Spec

\* A runner nobody is about to stop is current.
LEMMA RunnerInvCurrent ==
    ASSUME RunnerInv
    PROVE  RunnerCurrent
  BY DEF RunnerInv, Running, RunnerCurrent

\* What an upload reports is on disk under the name it reports.
LEMMA UploadInvKept ==
    ASSUME Shape, UploadInv
    PROVE  AttachmentsKept
  <1> SUFFICES ASSUME NEW r \in Requests, req[r].op = "uploaded", NEW f \in req[r].out
               PROVE  /\ f \in files /\ f.size <= Limit
                      /\ Served(f.thread, f.id, f.name) \/ Odd(f.name) \/ ~Whole(f.name)
    BY DEF AttachmentsKept, Odd
  <1>1. req[r].pc # "ready"  BY DEF Shape, Form, Operations
  <1>2. f \in files /\ f.size <= Limit /\ (Plain(f.name) \/ Odd(f.name))  BY <1>1 DEF UploadInv
  <1> QED BY <1>2 DEF Served, Plain

\* Publishing, subscribing, receiving and unsubscribing from any number of tabs, in
\* any order with the mutations, the sends of several publishers of one topic in
\* between each other: no send on a closed channel, and every tab gets the events of
\* its topic, those of each publisher in order, short only of those that met a full
\* buffer (pubsub.go).
THEOREM FanoutHolds == Spec => []Fanout
  <1>1. ThreadInv => Fanout  BY SoundFanout DEF ThreadInv
  <1> QED BY <1>1, ThreadInvHolds, PTL

\* A registered runner was built from the substrate, the settings and the mode in
\* force, or a stop is on its way, or its thread is one of the two overlaps, or its
\* agent entered plan mode by itself and only the mode is behind: for any threads,
\* settings and requests, however GetOrBuild, the reload, the mutations and the
\* agent's own tool interleave (schema.threads.resolvers.go, registry.go,
\* toolagent.go).
THEOREM RunnerCurrentHolds == Spec => []RunnerCurrent
  <1>1. ThreadInv => RunnerCurrent  BY RunnerInvCurrent DEF ThreadInv
  <1> QED BY <1>1, ThreadInvHolds, PTL

\* A branch never splits a tool call from its result, whenever the pair is stored and
\* whatever is deleted, with the two exceptions BranchWhole names
\* (storage/messages.go TurnStartPosition).
THEOREM BranchWholeHolds == Spec => []BranchWhole
  <1>1. ThreadInv => BranchWhole  BY BranchInvWhole DEF ThreadInv
  <1> QED BY <1>1, ThreadInvHolds, PTL

\* A reported upload is on disk, within the ceiling, under a name the download route
\* accepts: sanitizeFilename leaves its own results alone, marked and cut ones too,
\* for any names, file system limit and device names, but for a leading blank and
\* what the cut leaves at the end or before the first dot (attachments/handler.go).
THEOREM AttachmentsKeptHolds == Spec => []AttachmentsKept
  <1>1. ThreadInv => AttachmentsKept  BY UploadInvKept DEF ThreadInv
  <1> QED BY <1>1, ThreadInvHolds, PTL
=============================================================================
