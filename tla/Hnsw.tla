-------------------------------- MODULE Hnsw --------------------------------
(***************************************************************************)
(* The navigable small-world graph of service/annindex/hnsw.go, as         *)
(* operators on graph values.  A code is the set of dimensions whose sign  *)
(* bit is set.  A node keeps the id of its vector, its code, and on every  *)
(* layer up to its own the list of its neighbours.  Equal distances, which *)
(* the heaps and the unstable sorts order as they come, are ordered by     *)
(* node id.  The layer of a node is drawn by the caller.                   *)
(***************************************************************************)
EXTENDS Integers, Sequences, FiniteSets, FiniteSetsExt, SequencesExt

CONSTANTS
    M,          \* neighbours a node aims at on each layer
    EfConstr    \* beam width while a node is inserted

ASSUME HnswAssumption == M \in Nat \ {0} /\ EfConstr \in Nat \ {0}

EmptyGraph == [nodes |-> <<>>, entry |-> 0, top |-> 0]

Hamming(a, b) == Cardinality((a \ b) \cup (b \ a))

\* How far every node is from a code, and the order of the heaps by it.
Distances(g, code) == [i \in DOMAIN g.nodes |-> Hamming(code, g.nodes[i].code)]

Closer(d, i, j) == d[i] < d[j] \/ (d[i] = d[j] /\ i <= j)

Nearest(d, S) == CHOOSE i \in S : \A j \in S : Closer(d, i, j)

\* A set of nodes by distance: the nearest of the rest, again and again.
NearestFirst(d, S) ==
    FoldLeft(LAMBDA out, x : IF S \subseteq Range(out) THEN out ELSE Append(out, Nearest(d, S \ Range(out))),
             <<>>, d)

\* The limit of a node's links: twice as many on the base layer.
MaxLinks(l) == IF l = 0 THEN 2 * M ELSE M

\* The layers from one down to another.
Down(from, to) == [i \in 1..(from - to + 1) |-> from + 1 - i]

\* The nearest of the neighbours that are nearer; the node itself without any.
Hop(g, d, l, ep) ==
    LET closer == {nb \in Range(g.nodes[ep].conns[l]) : d[nb] < d[ep]}
    IN  IF closer = {} THEN ep ELSE Nearest(d, closer)

\* Hops until none is nearer, at most one for every node.
greedyClosest(g, d, ep, l) == FoldLeft(LAMBDA at, x : Hop(g, d, l, at), ep, g.nodes)

\* The beam without its worst node when it holds too many.
Trimmed(d, ef, S) ==
    IF Cardinality(S) > ef THEN {i \in S : \E j \in S : ~Closer(d, j, i)} ELSE S

\* One neighbour: when it was not seen it is kept, and expanded later, if the
\* beam has room or it is nearer than the worst of the beam.
Consider(d, ef, b, nb) ==
    IF nb \in b.seen THEN b
    ELSE IF Cardinality(b.res) < ef \/ \E i \in b.res : d[nb] < d[i]
    THEN [cand |-> b.cand \cup {nb}, res |-> Trimmed(d, ef, b.res \cup {nb}), seen |-> b.seen \cup {nb}]
    ELSE [b EXCEPT !.seen = @ \cup {nb}]

\* The nearest candidate gives way to its neighbours.
Expand(g, d, ef, l, b, c) ==
    FoldLeft(LAMBDA a, nb : Consider(d, ef, a, nb), [b EXCEPT !.cand = @ \ {c}], g.nodes[c].conns[l])

\* Candidates are expanded until none is left, or the beam is full and they are
\* all farther than all of it.
Exhausted(d, ef, b) ==
    b.cand = {} \/ (Cardinality(b.res) >= ef /\ \A c \in b.cand, i \in b.res : d[c] > d[i])

\* A node is a candidate once.
Beam(g, d, ef, l, start) ==
    FoldLeft(LAMBDA b, x : IF Exhausted(d, ef, b) THEN b ELSE Expand(g, d, ef, l, b, Nearest(d, b.cand)),
             start, g.nodes).res

\* The nodes kept, nearest first.
searchLayer(g, d, ep, ef, l) ==
    NearestFirst(d, Beam(g, d, ef, l, [cand |-> {ep}, res |-> {ep}, seen |-> {ep}]))

\* Candidates that are nearer to the base than to any neighbour chosen before
\* them; when these are fewer than the limit, the nearest of the rest.
Chosen(g, d, limit, arr) ==
    LET Spread(out, c) ==
            IF /\ Len(out) < limit
               /\ \A s \in Range(out) : Hamming(g.nodes[c].code, g.nodes[s].code) >= d[c]
            THEN Append(out, c) ELSE out
        TopUp(out, c) ==
            IF Len(out) < limit /\ c \notin Range(out) THEN Append(out, c) ELSE out
    IN  FoldLeft(TopUp, FoldLeft(Spread, <<>>, arr), arr)

selectNeighbors(g, d, cands, limit) == Chosen(g, d, limit, NearestFirst(d, cands))

\* The links of a node, pruned when there are too many.
Pruned(g, nb, conns, limit) ==
    IF Len(conns) <= limit THEN conns
    ELSE selectNeighbors(g, Distances(g, g.nodes[nb].code), Range(conns), limit)

\* A neighbour's link back to the new node.
LinkBack(g, nb, id, l) ==
    [g EXCEPT !.nodes[nb].conns[l] = Pruned(g, nb, Append(@, id), MaxLinks(l))]

\* The walk through the layers above the last.
Descend(g, d, last) ==
    FoldLeft(LAMBDA ep, l : greedyClosest(g, d, ep, l), g.entry, Down(g.top, last + 1))

Join(g, id, l, neighbours) ==
    FoldLeft(LAMBDA h, nb : LinkBack(h, nb, id, l),
             [g EXCEPT !.nodes[id].conns[l] = neighbours], neighbours)

\* The links of the new node on one layer, and where the next is entered.
LinkLayer(g, d, id, l, found) ==
    [graph |-> Join(g, id, l, selectNeighbors(g, d, Range(found), MaxLinks(l))), ep |-> Head(found)]

\* Links of the new node from layer low down to the base.
Link(g, d, id, ep, low) ==
    FoldLeft(LAMBDA at, l : LinkLayer(at.graph, d, id, l, searchLayer(at.graph, d, at.ep, EfConstr, l)),
             [graph |-> g, ep |-> ep], Down(low, 0)).graph

\* The first node, and every node above the top layer, becomes the entry.
insert(g, vid, code, layer) ==
    LET id    == Len(g.nodes) + 1
        Added == [g EXCEPT !.nodes = Append(@, [vid |-> vid, code |-> code,
                                                conns |-> [l \in 0..layer |-> <<>>]])]
        Linked(h, d) == IF g.entry = 0 THEN h
                        ELSE Link(h, d, id, Descend(h, d, layer), Min({layer, g.top}))
    IN  [Linked(Added, Append(Distances(g, code), 0)) EXCEPT
            !.entry = IF g.entry = 0 \/ layer > g.top THEN id ELSE @,
            !.top   = Max({layer, @})]

\* Up to k vectors, nearest first; the beam is never narrower than k.
Reached(g, d, k, ef) == searchLayer(g, d, Descend(g, d, 0), Max({ef, k}), 0)

search(g, code, k, ef) ==
    IF g.entry = 0 THEN <<>>
    ELSE LET Firsts(res) == [i \in 1..Min({Len(res), k}) |-> g.nodes[res[i]].vid]
         IN  Firsts(Reached(g, Distances(g, code), k, ef))

\* What the lookups of a layer rely on: the entry has every layer, a link joins
\* two nodes that both have its layer, and no node has more links than its limit.
Navigable(g) ==
    /\ (g.entry = 0) <=> (g.nodes = <<>>)
    /\ \A i \in DOMAIN g.nodes : \A l \in DOMAIN g.nodes[i].conns :
        /\ l <= g.top
        /\ Len(g.nodes[i].conns[l]) <= MaxLinks(l)
        /\ \A nb \in Range(g.nodes[i].conns[l]) : nb # i /\ l \in DOMAIN g.nodes[nb].conns
    /\ g.entry # 0 => g.top \in DOMAIN g.nodes[g.entry].conns
=============================================================================
