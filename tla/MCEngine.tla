------------------------------ MODULE MCEngine ------------------------------
(* Small instances of Engine for TLC.                                       *)
EXTENDS Engine, TLC

CONSTANTS t1, t2

\* Two histories alike, one that repeats the question.
MCSimilar ==
    [m \in Messages |-> [n \in Messages |->
        IF m = n THEN Unit ELSE IF {m, n} \in {{1, 2}, {1, 5}} THEN 3 ELSE IF {m, n} \in {{2, 3}, {4, 5}} THEN 1 ELSE 0]]
MCFloors == {NoFloor, 0, 1}

link(s, m, n, score, raw) == [from |-> m, to |-> n, src |-> s, score |-> score, raw |-> raw]

\* The graphs with an edge, of the weights given, or none for each pair.
Graphs(s, W) ==
    LET pairs == DOMAIN W
        ways  == Pick(pairs, LAMBDA p : W[p] \cup {0})
    IN {{link(s, p[1], p[2], IF s = "prov" THEN f[p] ELSE Loss, IF s = "prov" THEN 0 ELSE f[p])
            : p \in {q \in pairs : f[q] # 0}} : f \in ways}

\* Messages 1 to 3 are history, 4 the preceding and 5 the current turn of t1;
\* n selections are left to the run.
Pairs == {<<1, 2>>, <<1, 3>>, <<2, 3>>, <<1, 4>>, <<2, 4>>, <<3, 4>>}
Wide(W)   == [p \in Pairs |-> W]
Narrow(W) == [p \in Pairs \ {<<1, 2>>, <<1, 4>>} |-> IF p[2] = 4 THEN W ELSE {3}]
Knot(W)   == (<<1, 2>> :> {4}) @@ (<<2, 1>> :> W) @@ (<<2, 3>> :> {3}) @@ (<<3, 2>> :> {2}) @@ (<<3, 4>> :> W)

Deep(n, g) ==
    [scorer |-> TRUE, owner |-> (1 :> t1) @@ (2 :> t2) @@ (3 :> t1) @@ (4 :> t1) @@ (5 :> t1), tools |-> {3},
     turn |-> (t1 :> {5}) @@ (t2 :> {2}), prev |-> (t1 :> {4}) @@ (t2 :> {}), disk |-> g,
     selections |-> MaxSelections - n, restarts |-> MaxRestarts, deletes |-> MaxDeletes]

\* A turn of one thread over two calls; two threads with a call each in flight.
Quiet == [scorer |-> FALSE, owner |-> (1 :> t1) @@ (2 :> t1) @@ (3 :> t1), tools |-> {2}, turn |-> (t1 :> {3}),
          prev |-> (t1 :> {}), disk |-> {}, selections |-> 0, restarts |-> 0, deletes |-> MaxDeletes]
Busy  == [scorer |-> FALSE, owner |-> (1 :> t1) @@ (2 :> t2) @@ (3 :> t1) @@ (4 :> t2), tools |-> {},
          turn |-> (t1 :> {3}) @@ (t2 :> {4}), prev |-> (t1 :> {1}) @@ (t2 :> {2}),
          disk |-> {}, selections |-> 0, restarts |-> MaxRestarts, deletes |-> 0]

MCHistories ==
    {Deep(0, g) : g \in Graphs("prov", Wide({2, 4})) \cup Graphs("prov", Knot({2, 3, 4}))}
    \cup {Deep(1, g) : g \in Graphs("prov", Narrow({2, 4})) \cup Graphs("ce", Wide({3})) \cup Graphs("ce", Narrow({2, 4}))}
    \cup {Quiet, Busy}
=============================================================================
