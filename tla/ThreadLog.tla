------------------------------ MODULE ThreadLog ------------------------------
(***************************************************************************)
(* What the message table promises about one thread: rows are only ever    *)
(* added, a plain row by itself, a tool_call row together with the         *)
(* tool_result row that answers it, and never two calls with one key.      *)
(* TurnRunner is shown to implement this, whatever is cancelled, fails or  *)
(* crashes on the way.                                                     *)
(***************************************************************************)
EXTENDS Integers, Sequences

VARIABLE rows       \* the thread's messages in insertion (rowid) order

\* A row that is neither half of a tool exchange.
Plain(r) == r.kind \notin {"call", "result"}

\* c is a call and r the result that answers it.
Pair(c, r) ==
    /\ c.kind = "call" /\ r.kind = "result"
    /\ c.call = r.call /\ c.turn = r.turn

\* No call row of the table has the key (turn and call id) of row c.
Fresh(c) ==
    \A i \in DOMAIN rows :
        ~(rows[i].kind = "call" /\ rows[i].call = c.call /\ rows[i].turn = c.turn)

\* The rows stored so far stay what they are and n more follow them.
Extends(n) ==
    /\ Len(rows') = Len(rows) + n
    /\ \A i \in DOMAIN rows : rows'[i] = rows[i]

Init == rows = << >>

AppendRow == Extends(1) /\ Plain(rows'[Len(rows) + 1])

AppendPair ==
    /\ Extends(2)
    /\ Pair(rows'[Len(rows) + 1], rows'[Len(rows) + 2])
    /\ Fresh(rows'[Len(rows) + 1])

Next == AppendRow \/ AppendPair

Spec == Init /\ [][Next]_rows

\* What follows for readers of the table: a call is followed at once by its
\* result, a result preceded by its call, and a key identifies one call.
Closed ==
    /\ \A i \in DOMAIN rows : rows[i].kind = "call" =>
            i + 1 \in DOMAIN rows /\ Pair(rows[i], rows[i + 1])
    /\ \A j \in DOMAIN rows : rows[j].kind = "result" =>
            j - 1 \in DOMAIN rows /\ Pair(rows[j - 1], rows[j])
    /\ \A i, j \in DOMAIN rows :
            /\ rows[i].kind = "call" /\ rows[j].kind = "call"
            /\ rows[i].call = rows[j].call /\ rows[i].turn = rows[j].turn
            => i = j
=============================================================================
