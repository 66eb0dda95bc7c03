------------------------- MODULE PrerequisiteGraph -------------------------
(***************************************************************************)
(* The prerequisite graph of the selection engine (rrc/dag.go) and its two *)
(* walks: provenanceMassWalk (rrc/provenance.go), which ranks the ancestry *)
(* of the delivered window by banked mass, and extractSubgraph             *)
(* (rrc/selection.go), which follows scored edges from the anchor; each    *)
(* beside a reference definition of what it is to compute.                 *)
(*                                                                         *)
(* The graph is a bag of edges, as AddEdge appends without looking.  A     *)
(* score is a whole number of 1/Unit; the value of a path, a product of    *)
(* scores, is a multiple of 1/One, so that products are exact.  Threads    *)
(* enter as the set S of messages the scope admits.                        *)
(***************************************************************************)
EXTENDS Integers, FiniteSets, FiniteSetsExt, Bags, Sequences

CONSTANTS
    Messages,       \* message ids, in the order of ties
    Unit,           \* the score 1
    Loss,           \* cfg.LossRatio
    Beat,           \* confidence of a score above the whole reference sample
    Cap             \* provenanceReachCap

ASSUME GraphAssumption ==
    /\ Messages \subseteq Nat /\ IsFiniteSet(Messages)
    /\ Unit \in Nat /\ Loss \in 1 .. Unit /\ Beat \in Loss .. Unit /\ Cap \in Nat \ {0}

Edge == [from: Messages, to: Messages, src: {"ce", "prov"}, score: 0 .. Unit, raw: 0 .. Unit]

NoFloor == -1       \* an event without a reference sample: ungated

\* Apply Op n times.
Iterate(Op(_), v, n) == LET u[i \in 0 .. n] == IF i = 0 THEN v ELSE Op(u[i - 1]) IN u[n]

\* One: the value of the empty path, a power of Unit; no path is longer than Hops.
Hops  == Cardinality(Messages)
One   == Iterate(LAMBDA p : p * Unit, 1, Hops)
Times(value, score) == (value * score) \div Unit

Strongest(f, S) == {m \in S : \A n \in S : f[m] >= f[n]}

\* Both ends are in the scope.
scopeAllows(e, S) == {e.from, e.to} \subseteq S

\* dag.Prerequisites: the edges into m, of one source and within the scope.
Prerequisites(g, m, src, S) ==
    {e \in BagToSet(g) : e.to = m /\ e.src = src /\ scopeAllows(e, S)}
-----------------------------------------------------------------------------
(* provenanceMassWalk.                                                     *)

\* Phase 1.  The best value of a path into the anchor set A, best first.
Push(best, g, m, value, S) ==
    [n \in DOMAIN best |->
        Max({best[n]} \cup {Times(value, e.score) : e \in {x \in Prerequisites(g, m, "prov", S) : x.from = n}})]

Seeded(g, A, S) ==
    FoldSet(LAMBDA a, best : Push(best, g, a, One, S), [n \in Messages \ A |-> 0], A)

\* Mutant: a settled message lends its whole weight to what contributed to it.
SettleNearest(g, S, w) ==
    LET open == {m \in DOMAIN w.best \ w.reach : w.best[m] > 0}
        top  == Min(Strongest(w.best, open))
    IN IF open = {} THEN w
       ELSE [reach |-> w.reach \cup {top}, best |-> Push(w.best, g, top, One, S)]

\* One settled message: the strongest open one, the lower id on a tie.
Settle(g, S, w) ==
    LET open == {m \in DOMAIN w.best \ w.reach : w.best[m] > 0}
        top  == Min(Strongest(w.best, open))
    IN IF open = {} THEN w
       ELSE [reach |-> w.reach \cup {top}, best |-> Push(w.best, g, top, w.best[top], S)]

Reach(g, A, S) ==
    Iterate(LAMBDA w : Settle(g, S, w), [reach |-> {}, best |-> Seeded(g, A, S)], Cap).reach

\* Phase 2.  What m contributes to over A and R, and the sum of weight by
\* contribution, an edge as often as the graph holds it.
Out(g, m, T, S) ==
    {e \in BagToSet(g) : e.from = m /\ e.to \in T /\ e.src = "prov" /\ scopeAllows(e, S)}

Sum(g, m, A, R, S, mass) ==
    MapThenSumSet(LAMBDA e : g[e] * Times(IF e.to \in A THEN One ELSE mass[e.to], e.score),
                  Out(g, m, A \cup R, S))

\* A message is ready when every message it contributed to has its final mass.
Ready(g, R, S, mass) ==
    {m \in R \ DOMAIN mass : \A e \in Out(g, m, R, S) : e.to \in DOMAIN mass}

\* A dependent without a mass yet counts zero.
Finalize(g, m, A, R, S, mass) ==
    LET known == [n \in R |-> IF n \in DOMAIN mass THEN mass[n] ELSE 0]
        value == Sum(g, m, A, R, S, known)
    IN [n \in DOMAIN mass \cup {m} |-> IF n = m THEN value ELSE mass[n]]

\* The queue finalizes what is ready; what a cycle left over follows in id order.
Drain(g, A, R, S) ==
    Iterate(LAMBDA mass : IF Ready(g, R, S, mass) = {} THEN mass
                          ELSE Finalize(g, Min(Ready(g, R, S, mass)), A, R, S, mass),
            [n \in {} |-> 0], Cardinality(R))
Leftover(g, A, R, S, mass) ==
    IF R = DOMAIN mass THEN mass
    ELSE Finalize(g, Min(R \ DOMAIN mass), A, R, S, mass)

Mass(g, A, S) ==
    LET R == Reach(g, A, S)
    IN Iterate(LAMBDA mass : Leftover(g, A, R, S, mass), Drain(g, A, R, S), Cardinality(R))
-----------------------------------------------------------------------------
(* extractSubgraph.                                                        *)

\* relationalEdgeScore: a recorded observation read at this event's floor.
Relational(e, floor) ==
    IF floor = NoFloor THEN e.raw ELSE IF e.raw > floor THEN Beat ELSE 0

\* accept, at price zero.
Accept(score) == score >= Loss

\* A heap entry: a path's value, and the paths of that value, any of which the
\* heap may pop; ViaEdges begins with the edge into the anchor.
Nothing == [value |-> 0, vias |-> {}]
Better(a, b) ==
    IF a.value = b.value THEN [value |-> a.value, vias |-> a.vias \cup b.vias]
    ELSE IF a.value > b.value THEN a ELSE b

\* Push what an entry leads to; at gives each of its edges the score it is read at.
Offer(q, entry, at) ==
    [n \in DOMAIN q |->
        FoldSet(LAMBDA e, x : Better([value |-> Times(entry.value, at[e]),
                                      vias  |-> {Append(v, e) : v \in entry.vias}], x),
                q[n], {e \in DOMAIN at : e.from = n /\ Accept(at[e])})]

\* Entries that are not empty; a stance keeps every pushed value above zero.
Waiting(w) == {m \in DOMAIN w.queue \ w.visited : w.queue[m].value > 0}
Clears(v)  == v * Unit >= Loss * One

\* Mutant: every hop is read at the verdict some past event stored.
PopVerdict(g, S, floor, w) ==
    LET top   == CHOOSE m \in Waiting(w) : \A n \in Waiting(w) : w.queue[m].value >= w.queue[n].value
        fresh == {e \in Prerequisites(g, top, "ce", S) : e.from \notin w.visited \cup {top}}
    IN IF Waiting(w) = {} THEN w
       ELSE IF ~Clears(w.queue[top].value) THEN [w EXCEPT !.visited = @ \cup {top}]
       ELSE [queue    |-> Offer(w.queue, w.queue[top], [e \in fresh |-> e.score]),
             visited  |-> w.visited \cup {top},
             selected |-> w.selected \cup {top}]

\* Pop the strongest entry; a message below the stance is not expanded.
Pop(g, S, floor, w) ==
    LET top   == CHOOSE m \in Waiting(w) : \A n \in Waiting(w) : w.queue[m].value >= w.queue[n].value
        fresh == {e \in Prerequisites(g, top, "ce", S) : e.from \notin w.visited \cup {top}}
    IN IF Waiting(w) = {} THEN w
       ELSE IF ~Clears(w.queue[top].value) THEN [w EXCEPT !.visited = @ \cup {top}]
       ELSE [queue    |-> Offer(w.queue, w.queue[top], [e \in fresh |-> Relational(e, floor)]),
             visited  |-> w.visited \cup {top},
             selected |-> w.selected \cup {top}]

\* The selected messages and their entries; a seed carries its stored verdict.
Extract(g, anchor, S, floor) ==
    LET seeds == Offer([n \in Messages |-> Nothing], [value |-> One, vias |-> {<< >>}],
                       [e \in Prerequisites(g, anchor, "ce", S) |-> e.score])
        end   == Iterate(LAMBDA w : Pop(g, S, floor, w),
                         [queue |-> seeds, visited |-> {anchor}, selected |-> {}], Hops)
    IN [m \in end.selected |-> end.queue[m]]

\* ProvenanceWeight: the product of the raw evidence along the path.
Weight(via) == FoldFunction(LAMBDA e, r : Times(r, e.raw), One, via)

\* transitiveReduction, as the positions of the edges it keeps: an edge goes when
\* another edge of the same path starts at a message whose own path, or one it
\* leads to, holds the start of the first.
transitiveReduction(via) ==
    LET direct(m)    == {via[m][i].from : i \in DOMAIN via[m]} \cap DOMAIN via
        reachable(m) == Iterate(LAMBDA X : X \cup UNION {direct(x) : x \in X}, direct(m), Hops)
        redundant(m, e) == \E i \in DOMAIN via[m] :
            via[m][i].from # e.from /\ e.from \in reachable(via[m][i].from)
    IN [m \in DOMAIN via |-> {i \in DOMAIN via[m] : ~redundant(m, via[m][i])}]
-----------------------------------------------------------------------------
(* References.  Paths are extended one edge at a time, in every direction. *)

\* The best value of any path into A through messages outside it.
BestInto(g, A, S) ==
    Iterate(LAMBDA b : [m \in Messages \ A |->
                Max({0, b[m]} \cup {Times(IF e.to \in A THEN One ELSE b[e.to], e.score)
                                    : e \in Out(g, m, Messages, S)})],
            [m \in Messages \ A |-> 0], Hops)

\* The sum, over every path from m into A inside R, of its value.
PathSum(g, A, R, S) ==
    Iterate(LAMBDA p : [last |-> [m \in R |-> Sum(g, m, {}, R, S, p.last)],
                        sum  |-> [m \in R |-> p.sum[m] + Sum(g, m, {}, R, S, p.last)]],
            LET direct == [m \in R |-> Sum(g, m, A, {}, S, [n \in {} |-> 0])]
            IN [last |-> direct, sum |-> direct],
            Cardinality(R)).sum

\* What m reaches inside R.
Descendants(g, m, R, S) ==
    Iterate(LAMBDA X : X \cup {e.to : e \in UNION {Out(g, x, R, S) : x \in X}},
            {e.to : e \in Out(g, m, R, S)}, Cardinality(R))
Acyclic(g, R, S) == \A m \in R : m \notin Descendants(g, m, R, S)

\* The walk keeps Cap of the reachable messages, none weaker than one it leaves
\* out, and on a graph without a cycle gives each its path sum.
MassIsExact(g, A, S) ==
    LET mass  == Mass(g, A, S)
        best  == BestInto(g, A, S)
        found == {m \in Messages \ A : best[m] > 0}
        R     == DOMAIN mass
    IN /\ R \subseteq found
       /\ Cardinality(R) = Min({Cap, Cardinality(found)})
       /\ \A m \in R, n \in found \ R : best[m] >= best[n]
       /\ Acyclic(g, R, S) => mass = PathSum(g, A, R, S)

\* The best value of a path from m to the anchor, its last edge at its verdict
\* and every other at this event's reading, each of them accepted.
BestFrom(g, anchor, S, floor) ==
    LET at(e) == IF e.to = anchor THEN e.score ELSE Relational(e, floor)
        fits(e, m) == e.from = m /\ e.src = "ce" /\ scopeAllows(e, S) /\ Accept(at(e))
    IN Iterate(LAMBDA b : [m \in Messages |->
                  IF m = anchor THEN One
                  ELSE Max({b[m]} \cup {Times(b[e.to], at(e)) : e \in {x \in BagToSet(g) : fits(x, m)}})],
               [m \in Messages |-> IF m = anchor THEN One ELSE 0], Hops)

\* Choose for each member of a set one of the values allowed for it.
Pick(D, Allowed(_)) ==
    {f \in [D -> UNION {Allowed(m) : m \in D}] : \A m \in D : f[m] \in Allowed(m)}

\* Selected are exactly the messages a path of at least the stance leads to, at
\* the value of the best such path, and the reduction leaves each the edge it was
\* selected over.
SelectionIsExact(g, anchor, S, floor) ==
    LET best == BestFrom(g, anchor, S, floor)
        got  == Extract(g, anchor, S, floor)
    IN /\ DOMAIN got = {m \in Messages \ {anchor} : Clears(best[m])}
       /\ \A m \in DOMAIN got : got[m].value = best[m]
       /\ \A via \in Pick(DOMAIN got, LAMBDA m : got[m].vias) :
             \A m \in DOMAIN got : Len(via[m]) \in transitiveReduction(via)[m]
=============================================================================
