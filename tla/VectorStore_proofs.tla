-------------------------- MODULE VectorStore_proofs --------------------------
(***************************************************************************)
(* For any messages, texts, codes, widths, draws of layers, embedders and  *)
(* bounds, whatever the table of vectors holds at the start:               *)
(*   - the cutting of a text comes to its end (SplitType);                 *)
(*   - a graph of the index stays whole when a node is inserted: its links *)
(*     are on their layers, within their limits (InsertWhole);             *)
(*   - every index has every chunk where it belongs (IndexSoundHolds);     *)
(*   - no stored vector is lost to retrieval without a race                *)
(*     (IndexCurrentHolds);                                                *)
(*   - a retrieval ends and returns what it may, whatever the graphs of    *)
(*     its index look like (RetrievalScopedHolds).                         *)
(* The last three rest on the inductive invariant VectorInv: what an       *)
(* index, a task, a build and the table may be, and how they hang together.*)
(***************************************************************************)
EXTENDS VectorStore, FiniteSetTheorems, SequenceTheorems, WellFoundedInduction, TLAPS

-----------------------------------------------------------------------------
(* Folds of sequences.                                                      *)

\* Induction on the naturals, for a set of them.
LEMMA NatSet ==
    ASSUME NEW W, 0 \in W, \A n \in Nat : n \in W => n + 1 \in W
    PROVE  Nat \subseteq W
<1> SUFFICES ASSUME Nat \ W # {} PROVE FALSE
  OBVIOUS
<1>1. PICK x \in Nat \ W : \A y \in Nat \ W : ~(<<y, x>> \in OpToRel(<, Nat))
  BY NatLessThanWellFounded, WFMin
<1>2. x # 0 /\ x - 1 \in Nat
  OBVIOUS
<1>3. x - 1 \in Nat \ W
  BY <1>2
<1>4. ~(<<x - 1, x>> \in OpToRel(<, Nat))
  BY <1>1, <1>3
<1> QED BY <1>2, <1>4 DEF OpToRel

\* The last position of one more.
LEMMA LastOne ==
    ASSUME NEW n \in Nat, NEW i \in 1 .. (n + 1)
    PROVE  i = n + 1 \/ i \in 1 .. n
OBVIOUS

\* A set of naturals has a least element.
LEMMA LeastNat ==
    ASSUME NEW S \in SUBSET Nat, S # {}
    PROVE  \E n \in S : \A m \in S : n <= m
<1>1. PICK x \in S : \A y \in S : ~(<<y, x>> \in OpToRel(<, Nat))
  BY NatLessThanWellFounded, WFMin
<1>2. ASSUME NEW y \in S PROVE x <= y
  <2>1. ~(<<y, x>> \in OpToRel(<, Nat)) /\ x \in Nat /\ y \in Nat
    BY <1>1
  <2> QED BY <2>1 DEF OpToRel
<1> QED BY <1>2

\* Positions have a last one, and without it are positions of a shorter prefix.
LEMMA LastPosition ==
    ASSUME NEW n \in Nat, NEW s \in SUBSET (1 .. n), s # {}
    PROVE  /\ Max(s) \in s
           /\ s \ {Max(s)} \in SUBSET (1 .. (Max(s) - 1))
<1> DEFINE U == {k \in Nat : \A i \in s : i <= k}
<1>1. n \in U
  OBVIOUS
<1>2. PICK k \in U : \A m \in U : k <= m
  BY <1>1, LeastNat
<1>3. k \in s
  <2> SUFFICES ASSUME k \notin s PROVE FALSE
    OBVIOUS
  <2>1. PICK i \in s : TRUE
    OBVIOUS
  <2>2. k - 1 \in Nat /\ \A j \in s : j <= k - 1
    BY <2>1
  <2> QED BY <1>2, <2>2
<1>4. \E x \in s : \A y \in s : x >= y
  BY <1>2, <1>3
<1>5. PICK m \in s : m = Max(s) /\ \A y \in s : m >= y
  BY <1>4 DEF Max
<1>6. ASSUME NEW y \in s \ {m} PROVE y \in 1 .. (m - 1)
  <2>1. m \in 1 .. n /\ y \in 1 .. n /\ m >= y /\ y # m
    BY <1>5
  <2> QED BY <2>1
<1> QED BY <1>5, <1>6

\* Induction on the sets of positions of a sequence, taking the last away.
LEMMA PositionSets ==
    ASSUME NEW n \in Nat, NEW W, {} \in W,
           \A s \in SUBSET (1 .. n) : s # {} /\ s \ {Max(s)} \in W => s \in W
    PROVE  SUBSET (1 .. n) \subseteq W
<1> DEFINE K == {k \in Nat : k <= n => SUBSET (1 .. k) \subseteq W}
<1>1. 0 \in K
  <2>1. 1 .. 0 = {} /\ SUBSET {} = {{}}
    OBVIOUS
  <2>2. SUBSET (1 .. 0) \subseteq W
    BY <2>1, Zenon
  <2> QED BY <2>2
<1>2. ASSUME NEW k \in Nat, k \in K PROVE k + 1 \in K
  <2> SUFFICES ASSUME k + 1 <= n, NEW s \in SUBSET (1 .. (k + 1)) PROVE s \in W
    OBVIOUS
  <2>1. CASE s = {}
    BY <2>1
  <2>2. CASE s # {}
    <3>1. s \in SUBSET (1 .. n)
      OBVIOUS
    <3>2. PICK m \in s : m = Max(s) /\ s \ {m} \in SUBSET (1 .. (m - 1))
      BY <2>2, <3>1, LastPosition
    <3>3. s \ {m} \in SUBSET (1 .. k)
      BY <3>2
    <3>4. s \ {m} \in W
      BY <1>2, <3>3
    <3> QED BY <2>2, <3>1, <3>2, <3>4
  <2> QED BY <2>1, <2>2
<1> HIDE DEF K
<1>3. Nat \subseteq K
  BY <1>1, <1>2, NatSet
<1> QED BY <1>3 DEF K

\* f folds a step over the sets of positions of a sequence of length n.
Folding(f, base, step, n) ==
    f = [s \in SUBSET (1 .. n) |-> IF s = {} THEN base ELSE step[<<Max(s), f[s \ {Max(s)}]>>]]

\* What a fold over the first positions is in: T grows with the position, and
\* the step at a position leads from the base, and from what is before it, to
\* what is at it.
Carries(T, base, step, n) ==
    /\ base \in T[0]
    /\ \A j, k \in 1 .. n : j <= k => T[j] \subseteq T[k]
    /\ \A k \in 1 .. n : \A x \in T[0] \cup T[k - 1] : step[<<k, x>>] \in T[k]

LastOf(s) == IF s = {} THEN 0 ELSE Max(s)

\* There is such a fold, and each of its values is where it belongs.
LEMMA FoldingExists ==
    ASSUME NEW n \in Nat, NEW T, NEW base, NEW step, Carries(T, base, step, n)
    PROVE  \E f : Folding(f, base, step, n) /\ \A s \in SUBSET (1 .. n) : f[s] \in T[LastOf(s)]
<1> DEFINE Good(k, f) == Folding(f, base, step, k) /\ \A s \in SUBSET (1 .. k) : f[s] \in T[LastOf(s)]
           K == {k \in Nat : k <= n => \E f : Good(k, f)}
<1>1. 0 \in K
  <2> DEFINE f == [s \in SUBSET (1 .. 0) |-> base]
  <2>1. \A s \in SUBSET (1 .. 0) : s = {}
    OBVIOUS
  <2>2. f = [s \in SUBSET (1 .. 0) |-> IF s = {} THEN base ELSE step[<<Max(s), f[s \ {Max(s)}]>>]]
    BY <2>1
  <2>3. \A s \in SUBSET (1 .. 0) : f[s] \in T[LastOf(s)]
    BY <2>1 DEF Carries, LastOf
  <2> HIDE DEF f
  <2>4. Good(0, f)
    BY <2>2, <2>3 DEF Folding
  <2> QED BY <2>4
<1>2. ASSUME NEW k \in Nat, k \in K PROVE k + 1 \in K
  <2> SUFFICES ASSUME k + 1 <= n PROVE \E f : Good(k + 1, f)
    OBVIOUS
  <2>1. PICK f : Good(k, f)
    BY <1>2
  <2>m. PICK m \in 1 .. n : m = k + 1 /\ m \in Nat
    OBVIOUS
  <2> DEFINE h == [s \in SUBSET (1 .. m) |-> IF m \in s THEN step[<<m, f[s \ {m}]>>] ELSE f[s]]
  <2>a. ASSUME NEW s \in SUBSET (1 .. m) PROVE s \ {m} \in SUBSET (1 .. k) /\ (m \notin s => s \in SUBSET (1 .. k))
    BY <2>m
  <2>b. ASSUME NEW s \in SUBSET (1 .. m), m \in s PROVE Max(s) = m
    <3>0. m \in Nat /\ s \in SUBSET (1 .. m) /\ s # {}
      BY <2>m, <2>b
    <3>1. PICK x \in s : x = Max(s) /\ s \ {x} \in SUBSET (1 .. (x - 1))
      BY <3>0, LastPosition
    <3>2. CASE x # m
      <4>1. m \in 1 .. (x - 1) /\ x <= m
        BY <2>b, <3>1, <3>2
      <4> QED BY <4>1
    <3> QED BY <3>1, <3>2
  <2>c. ASSUME NEW s \in SUBSET (1 .. m), s # {}
        PROVE  Max(s) \in s /\ s \ {Max(s)} \in SUBSET (1 .. k) /\ h[s \ {Max(s)}] = f[s \ {Max(s)}]
    <3>0. m \in Nat /\ s \in SUBSET (1 .. m) /\ s # {}
      BY <2>m, <2>c
    <3>1. PICK x \in s : x = Max(s) /\ s \ {x} \in SUBSET (1 .. (x - 1))
      BY <3>0, LastPosition
    <3>2. s \ {x} \in SUBSET (1 .. k) /\ m \notin s \ {x}
      BY <2>m, <3>1
    <3>3. s \ {x} \in SUBSET (1 .. m)
      OBVIOUS
    <3>4. h[s \ {x}] = f[s \ {x}]
      BY <3>2, <3>3
    <3> HIDE DEF h
    <3> QED BY <3>1, <3>2, <3>4
  <2>f. /\ \A s \in SUBSET (1 .. k) : f[s] = IF s = {} THEN base ELSE step[<<Max(s), f[s \ {Max(s)}]>>]
        /\ \A s \in SUBSET (1 .. k) : f[s] \in T[LastOf(s)]
    BY <2>1 DEF Folding
  <2>2. ASSUME NEW s \in SUBSET (1 .. m)
        PROVE  h[s] = IF s = {} THEN base ELSE step[<<Max(s), h[s \ {Max(s)}]>>]
    <3>1. CASE s = {}
      <4>1. h[s] = f[s] /\ s \in SUBSET (1 .. k)
        BY <3>1
      <4> QED BY <2>f, <3>1, <4>1
    <3>2. CASE s # {} /\ m \in s
      <4>1. h[s] = step[<<m, f[s \ {m}]>>]
        BY <3>2
      <4> QED BY <2>b, <2>c, <3>2, <4>1
    <3>3. CASE s # {} /\ m \notin s
      <4>1. h[s] = f[s] /\ s \in SUBSET (1 .. k)
        BY <2>a, <3>3
      <4> QED BY <2>c, <2>f, <3>3, <4>1
    <3> QED BY <3>1, <3>2, <3>3
  <2>3. ASSUME NEW s \in SUBSET (1 .. m) PROVE h[s] \in T[LastOf(s)]
    <3>1. CASE m \notin s
      BY <2>a, <2>f, <3>1
    <3>2. CASE m \in s
      <4>1. f[s \ {m}] \in T[LastOf(s \ {m})]
        BY <2>a, <2>f
      <4>2. LastOf(s \ {m}) \in 0 .. k
        <5>1. CASE s \ {m} = {}
          BY <5>1 DEF LastOf
        <5>2. CASE s \ {m} # {}
          <6>1. s \ {m} \in SUBSET (1 .. k)
            BY <2>a
          <6>2. PICK x \in 1 .. k : x = Max(s \ {m})
            BY <5>2, <6>1, LastPosition
          <6>3. Max(s \ {m}) \in 0 .. k
            BY <6>2
          <6> QED BY <5>2, <6>3, Zenon DEF LastOf
        <5> QED BY <5>1, <5>2
      <4>3. f[s \ {m}] \in T[0] \cup T[m - 1]
        <5>1. PICK j \in 0 .. k : j = LastOf(s \ {m})
          BY <4>2
        <5>2. m - 1 = k
          BY <2>m
        <5>3. CASE j = 0
          BY <4>1, <5>1, <5>3
        <5>4. CASE j # 0
          <6>1. j \in 1 .. n /\ k \in 1 .. n /\ j <= k
            BY <5>4
          <6> QED BY <4>1, <5>1, <5>2, <6>1 DEF Carries
        <5> QED BY <5>3, <5>4
      <4>4. step[<<m, f[s \ {m}]>>] \in T[m]
        BY <4>3 DEF Carries
      <4>5. LastOf(s) = m
        BY <2>b, <3>2 DEF LastOf
      <4> QED BY <3>2, <4>4, <4>5
    <3> QED BY <3>1, <3>2
  <2>4. h = [s \in SUBSET (1 .. m) |-> h[s]]
    OBVIOUS
  <2> HIDE DEF h
  <2>5. h = [s \in SUBSET (1 .. m) |-> IF s = {} THEN base ELSE step[<<Max(s), h[s \ {Max(s)}]>>]]
    BY <2>2, <2>4
  <2>6. Good(m, h)
    BY <2>3, <2>5 DEF Folding
  <2> HIDE DEF Good
  <2> QED BY <2>m, <2>6
<1> HIDE DEF K
<1>3. n \in K
  BY <1>1, <1>2, NatSet
<1> QED BY <1>3 DEF K

\* Every value of such a fold is where it belongs.
LEMMA FoldingCarries ==
    ASSUME NEW n \in Nat, NEW T, NEW base, NEW step, Carries(T, base, step, n),
           NEW h, (\E f : Folding(f, base, step, n) /\ \A s \in SUBSET (1 .. n) : f[s] \in T[LastOf(s)])
                    => Folding(h, base, step, n)
    PROVE  h[1 .. n] \in T[n]
<1>1. PICK f : Folding(f, base, step, n) /\ \A s \in SUBSET (1 .. n) : f[s] \in T[LastOf(s)]
  BY FoldingExists
<1>2. Folding(h, base, step, n)
  BY <1>1
<1> DEFINE W == {s \in SUBSET (1 .. n) : h[s] = f[s]}
<1>f. \A s \in SUBSET (1 .. n) : f[s] = IF s = {} THEN base ELSE step[<<Max(s), f[s \ {Max(s)}]>>]
  BY <1>1 DEF Folding
<1>h. \A s \in SUBSET (1 .. n) : h[s] = IF s = {} THEN base ELSE step[<<Max(s), h[s \ {Max(s)}]>>]
  BY <1>2 DEF Folding
<1>3. {} \in W
  BY <1>f, <1>h
<1>4. ASSUME NEW s \in SUBSET (1 .. n), s # {}, s \ {Max(s)} \in W PROVE s \in W
  <2>1. h[s \ {Max(s)}] = f[s \ {Max(s)}]
    BY <1>4
  <2>2. h[s] = f[s]
    BY <1>f, <1>h, <1>4, <2>1
  <2> QED BY <2>2
<1> HIDE DEF W
<1>5. SUBSET (1 .. n) \subseteq W
  BY <1>3, <1>4, PositionSets
<1>6. h[1 .. n] = f[1 .. n] /\ f[1 .. n] \in T[LastOf(1 .. n)]
  BY <1>1, <1>5 DEF W
<1>7. LastOf(1 .. n) = n
  <2>1. CASE n = 0
    <3>1. 1 .. n = {}
      BY <2>1
    <3> QED BY <2>1, <3>1 DEF LastOf
  <2>2. CASE n # 0
    <3>1. 1 .. n # {} /\ n \in 1 .. n /\ 1 .. n \in SUBSET (1 .. n)
      BY <2>2
    <3>2. PICK x \in 1 .. n : x = Max(1 .. n) /\ (1 .. n) \ {x} \in SUBSET (1 .. (x - 1))
      BY <3>1, LastPosition
    <3>3. x = n
      <4>1. n \in (1 .. n) \ {x} => n \in 1 .. (x - 1)
        BY <3>2
      <4> QED BY <3>1, <4>1
    <3> QED BY <3>1, <3>2, <3>3 DEF LastOf
  <2> QED BY <2>1, <2>2
<1> QED BY <1>6, <1>7

\* A fold that stays in one set.
LEMMA CarriesOne ==
    ASSUME NEW n \in Nat, NEW T, NEW base \in T, NEW step,
           \A k \in 1 .. n : \A x \in T : step[<<k, x>>] \in T
    PROVE  Carries([k \in 0 .. n |-> T], base, step, n)
<1> DEFINE F == [k \in 0 .. n |-> T]
<1>1. \A k \in 0 .. n : F[k] = T
  OBVIOUS
<1>2. 0 \in 0 .. n /\ \A k \in 1 .. n : k \in 0 .. n /\ k - 1 \in 0 .. n
  OBVIOUS
<1> HIDE DEF F
<1>3. Carries(F, base, step, n)
  BY <1>1, <1>2 DEF Carries
<1> QED BY <1>3 DEF F
-----------------------------------------------------------------------------
(* The graph.                                                               *)

\* Hops that stay in a set end in it.
LEMMA GreedyStays ==
    ASSUME NEW g, NEW d, NEW l, NEW L, NEW ep \in L, NEW n \in Nat, DOMAIN g.nodes = 1 .. n,
           \A i \in L : Hop(g, d, l, i) \in L
    PROVE  greedyClosest(g, d, ep, l) \in L
<1> DEFINE P(u) == u = [s \in SUBSET DOMAIN g.nodes |->
                          IF s = {} THEN ep ELSE Hop(g, d, l, u[s \ {Max(s)}])]
           h    == CHOOSE u : P(u)
           X    == L \cup {h[s] : s \in SUBSET (1 .. n)}
           step == [p \in (1 .. n) \X X |-> Hop(g, d, l, p[2])]
           T    == [k \in 0 .. n |-> L]
<1>1. greedyClosest(g, d, ep, l) = h[DOMAIN g.nodes]
  BY Zenon DEF greedyClosest, FoldLeft, MapThenFoldSet
<1>2. \A k \in 1 .. n : \A x \in X : step[<<k, x>>] = Hop(g, d, l, x)
  OBVIOUS
<1>3. L \subseteq X /\ \A s \in SUBSET (1 .. n) : h[s] \in X
  OBVIOUS
<1>4. \A s \in SUBSET (1 .. n) : s # {} => Max(s) \in 1 .. n /\ s \ {Max(s)} \in SUBSET (1 .. n)
  BY LastPosition
<1>5. \A k \in 0 .. n : T[k] = L
  OBVIOUS
<1> HIDE DEF h, X, step, T
<1>6. Carries(T, ep, step, n)
  BY <1>2, <1>3, CarriesOne DEF T
<1>7. ASSUME NEW f, Folding(f, ep, step, n), \A s \in SUBSET (1 .. n) : f[s] \in L
      PROVE  Folding(h, ep, step, n)
  <2>f. \A s \in SUBSET (1 .. n) : s # {} => step[<<Max(s), f[s \ {Max(s)}]>>] = Hop(g, d, l, f[s \ {Max(s)}])
    BY <1>2, <1>3, <1>4, <1>7
  <2>1. P(f)
    BY <1>7, <2>f DEF Folding
  <2>2. P(h)
    BY <2>1 DEF h
  <2> QED BY <1>2, <1>3, <1>4, <2>2 DEF Folding
<1>8. \A s \in SUBSET (1 .. n) : LastOf(s) \in 0 .. n
  BY <1>4 DEF LastOf
<1>9. h[1 .. n] \in T[n]
  BY <1>5, <1>6, <1>7, <1>8, FoldingCarries
<1> QED BY <1>1, <1>5, <1>9

\* Of some positions one is nearest.
LEMMA ClosestIn ==
    ASSUME NEW n \in Nat, NEW d \in [1 .. n -> Int], NEW S \in SUBSET (1 .. n), S # {}
    PROVE  Nearest(d, S) \in S /\ \A j \in S : Closer(d, Nearest(d, S), j)
<1> DEFINE W == {s \in SUBSET (1 .. n) : s = {} \/ \E i \in s : \A j \in s : Closer(d, i, j)}
<1>1. {} \in W
  OBVIOUS
<1>2. ASSUME NEW s \in SUBSET (1 .. n), s # {}, s \ {Max(s)} \in W PROVE s \in W
  <2>1. PICK m \in s : m = Max(s)
    BY <1>2, LastPosition
  <2>2. m \in 1 .. n /\ Closer(d, m, m)
    BY DEF Closer
  <2>3. CASE s \ {m} = {}
    <3>1. \A j \in s : Closer(d, m, j)
      BY <2>2, <2>3
    <3> QED BY <3>1
  <2>4. CASE s \ {m} # {}
    <3>1. PICK i \in s \ {m} : \A j \in s \ {m} : Closer(d, i, j)
      BY <1>2, <2>1, <2>4
    <3>2. i \in 1 .. n /\ d[i] \in Int /\ d[m] \in Int /\ i \in Int /\ m \in Int
      BY <2>2
    <3>3. CASE Closer(d, i, m)
      <4>1. \A j \in s : Closer(d, i, j)
        BY <3>1, <3>3
      <4> QED BY <4>1
    <3>4. CASE ~Closer(d, i, m)
      <4>1. ASSUME NEW j \in s PROVE Closer(d, m, j)
        <5>1. CASE j = m
          BY <2>2, <5>1
        <5>2. CASE j # m
          <6>1. Closer(d, i, j) /\ d[j] \in Int /\ j \in Int
            BY <3>1, <5>2
          <6> QED BY <3>2, <3>4, <6>1 DEF Closer
        <5> QED BY <5>1, <5>2
      <4> QED BY <4>1
    <3> QED BY <3>3, <3>4
  <2> QED BY <2>3, <2>4
<1> HIDE DEF W
<1>3. S \in W
  BY <1>1, <1>2, PositionSets
<1>4. \E i \in S : \A j \in S : Closer(d, i, j)
  BY <1>3 DEF W
<1>5. PICK x : x = CHOOSE i \in S : \A j \in S : Closer(d, i, j)
  OBVIOUS
<1>6. x \in S /\ \A j \in S : Closer(d, x, j)
  BY <1>4, <1>5
<1> QED BY <1>5, <1>6 DEF Nearest

\* Of some nodes one is nearest.
LEMMA NearestIn ==
    ASSUME NEW n \in Nat, NEW d \in [1 .. n -> Nat], NEW S \in SUBSET (1 .. n), S # {}
    PROVE  Nearest(d, S) \in S
<1>1. d \in [1 .. n -> Int]
  OBVIOUS
<1> QED BY <1>1, ClosestIn

\* Nodes by distance are the nodes.
LEMMA NearestFirstOf ==
    ASSUME NEW n \in Nat, NEW d \in [1 .. n -> Nat], NEW S \in SUBSET (1 .. n)
    PROVE  NearestFirst(d, S) \in Seq(S) /\ (S # {} => NearestFirst(d, S) # <<>>)
<1> DEFINE Op(q) == IF S \subseteq Range(q) THEN q ELSE Append(q, Nearest(d, S \ Range(q)))
           Q    == {q \in Seq(S) : S # {} => q # <<>>}
           P(u) == u = [s \in SUBSET DOMAIN d |-> IF s = {} THEN <<>> ELSE Op(u[s \ {Max(s)}])]
           h    == CHOOSE u : P(u)
           X    == Seq(S) \cup {h[s] : s \in SUBSET (1 .. n)}
           step == [p \in (1 .. n) \X X |-> Op(p[2])]
           T    == [k \in 0 .. n |-> IF k = 0 THEN Seq(S) ELSE Q]
<1>1. NearestFirst(d, S) = h[DOMAIN d]
  BY Zenon DEF NearestFirst, FoldLeft, MapThenFoldSet
<1>2. \A q \in Seq(S) : Op(q) \in Q
  <2> SUFFICES ASSUME NEW q \in Seq(S) PROVE Op(q) \in Q
    OBVIOUS
  <2>1. CASE S \subseteq Range(q)
    <3>1. q = <<>> => Range(q) = {}
      BY DEF Range
    <3>2. Op(q) = q
      BY <2>1
    <3> QED BY <2>1, <3>1, <3>2
  <2>2. CASE ~(S \subseteq Range(q))
    <3>1. S \ Range(q) \in SUBSET (1 .. n) /\ S \ Range(q) # {}
      BY <2>2
    <3>2. PICK x \in S : x = Nearest(d, S \ Range(q))
      BY <3>1, NearestIn
    <3>3. Op(q) = Append(q, x)
      BY <2>2, <3>2
    <3>4. Append(q, x) \in Seq(S) /\ Append(q, x) # <<>>
      BY AppendProperties
    <3> QED BY <3>3, <3>4
  <2> QED BY <2>1, <2>2
<1>3. Seq(S) \subseteq X /\ Q \subseteq Seq(S) /\ \A s \in SUBSET (1 .. n) : h[s] \in X
  OBVIOUS
<1>4. \A k \in 1 .. n : \A x \in X : step[<<k, x>>] = Op(x)
  OBVIOUS
<1>5. T[0] = Seq(S) /\ \A k \in 1 .. n : T[k] = Q
  OBVIOUS
<1>6. n # 0 => n \in 1 .. n
  OBVIOUS
<1>7. \A s \in SUBSET (1 .. n) : s # {} => Max(s) \in 1 .. n /\ s \ {Max(s)} \in SUBSET (1 .. n)
  BY LastPosition
<1>8. <<>> \in Seq(S) /\ DOMAIN d = 1 .. n
  OBVIOUS
<1> HIDE DEF h, X, step, T, Q, Op
<1>9. Carries(T, <<>>, step, n)
  <2>1. \A k \in 1 .. n : \A x \in T[0] \cup T[k - 1] : x \in Seq(S)
    <3> TAKE k \in 1 .. n
    <3>1. k - 1 = 0 \/ k - 1 \in 1 .. n
      OBVIOUS
    <3> QED BY <1>3, <1>5, <3>1
  <2> QED BY <1>2, <1>3, <1>4, <1>5, <1>8, <2>1 DEF Carries
<1>10. ASSUME NEW f, Folding(f, <<>>, step, n), \A s \in SUBSET (1 .. n) : f[s] \in T[LastOf(s)]
       PROVE  Folding(h, <<>>, step, n)
  <2>1. \A s \in SUBSET (1 .. n) : f[s] \in X
    BY <1>3, <1>5, <1>7, <1>10 DEF LastOf
  <2>f. \A s \in SUBSET (1 .. n) : s # {} => step[<<Max(s), f[s \ {Max(s)}]>>] = Op(f[s \ {Max(s)}])
    BY <1>4, <1>7, <2>1
  <2>2. P(f)
    BY <1>8, <1>10, <2>f DEF Folding
  <2>3. P(h)
    BY <2>2 DEF h
  <2> QED BY <1>3, <1>4, <1>7, <1>8, <2>3 DEF Folding
<1>11. h[1 .. n] \in T[n]
  BY <1>9, <1>10, FoldingCarries
<1>12. CASE n = 0
  <2>1. S = {}
    BY <1>12
  <2> QED BY <1>1, <1>5, <1>8, <1>11, <1>12, <2>1
<1>13. CASE n # 0
  <2>1. h[1 .. n] \in Q
    BY <1>5, <1>6, <1>11, <1>13
  <2> QED BY <1>1, <1>8, <2>1 DEF Q
<1> QED BY <1>12, <1>13

\* One node of a set is nearer than another.
LEMMA TrimmedSome ==
    ASSUME NEW n \in Nat, NEW d \in [1 .. n -> Nat], NEW S \in SUBSET (1 .. n), S # {}, NEW ef \in Nat \ {0}
    PROVE  Trimmed(d, ef, S) \in SUBSET S /\ Trimmed(d, ef, S) # {}
<1>1. IsFiniteSet(S) /\ Cardinality(S) \in Nat
  <2>1. IsFiniteSet(1 .. n)
    BY FS_Interval
  <2> QED BY <2>1, FS_Subset, FS_CardinalityType
<1>2. CASE Cardinality(S) > ef
  <2>1. PICK i \in S : TRUE
    OBVIOUS
  <2>2. PICK j \in S : j # i
    <3>1. ASSUME S = {i} PROVE FALSE
      <4>1. Cardinality(S) = 1
        BY <3>1, FS_Singleton
      <4> QED BY <1>1, <1>2, <4>1
    <3> QED BY <3>1
  <2>3. ~Closer(d, i, j) \/ ~Closer(d, j, i)
    <3>1. d[i] \in Nat /\ d[j] \in Nat /\ i \in Nat /\ j \in Nat
      OBVIOUS
    <3> QED BY <2>2, <3>1 DEF Closer
  <2>4. Trimmed(d, ef, S) = {x \in S : \E y \in S : ~Closer(d, y, x)}
    BY <1>2 DEF Trimmed
  <2> QED BY <2>3, <2>4
<1>3. CASE ~(Cardinality(S) > ef)
  BY <1>3 DEF Trimmed
<1> QED BY <1>2, <1>3

\* The beam on a layer: nodes of L, at least one of them kept.
Beams(L) == [cand : SUBSET L, res : (SUBSET L) \ {{}}, seen : SUBSET L]

LEMMA ConsiderIn ==
    ASSUME NEW n \in Nat, NEW d \in [1 .. n -> Nat], NEW ef \in Nat \ {0}, NEW L \in SUBSET (1 .. n),
           NEW b \in Beams(L), NEW nb \in L
    PROVE  Consider(d, ef, b, nb) \in Beams(L)
<1> DEFINE R == b.res \cup {nb}
<1>1. b.cand \in SUBSET L /\ b.res \in (SUBSET L) \ {{}} /\ b.seen \in SUBSET L
  BY DEF Beams
<1>2. R \in SUBSET (1 .. n) /\ R # {} /\ R \in SUBSET L
  BY <1>1
<1> HIDE DEF R
<1>3. Trimmed(d, ef, R) \in (SUBSET L) \ {{}}
  <2>1. Trimmed(d, ef, R) \in SUBSET R /\ Trimmed(d, ef, R) # {}
    BY <1>2, TrimmedSome
  <2> QED BY <1>2, <2>1
<1>4. [cand |-> b.cand \cup {nb}, res |-> Trimmed(d, ef, R), seen |-> b.seen \cup {nb}] \in Beams(L)
  BY <1>1, <1>3 DEF Beams
<1>5. [b EXCEPT !.seen = @ \cup {nb}] \in Beams(L)
  BY <1>1 DEF Beams
<1> QED BY <1>4, <1>5 DEF Consider, R

LEMMA ExpandIn ==
    ASSUME NEW n \in Nat, NEW d \in [1 .. n -> Nat], NEW ef \in Nat \ {0}, NEW L \in SUBSET (1 .. n),
           NEW g, NEW l, NEW c, g.nodes[c].conns[l] \in Seq(L), NEW b \in Beams(L)
    PROVE  Expand(g, d, ef, l, b, c) \in Beams(L)
<1> DEFINE v    == [b EXCEPT !.cand = @ \ {c}]
           q    == g.nodes[c].conns[l]
           k    == Len(q)
           P(u) == u = [s \in SUBSET DOMAIN q |-> IF s = {} THEN v ELSE Consider(d, ef, u[s \ {Max(s)}], q[Max(s)])]
           h    == CHOOSE u : P(u)
           X    == Beams(L) \cup {h[s] : s \in SUBSET (1 .. k)}
           step == [p \in (1 .. k) \X X |-> Consider(d, ef, p[2], q[p[1]])]
           T    == [j \in 0 .. k |-> Beams(L)]
<1>1. Expand(g, d, ef, l, b, c) = h[DOMAIN q]
  BY Zenon DEF Expand, FoldLeft, MapThenFoldSet
<1>2. \A j \in 1 .. k : \A x \in X : step[<<j, x>>] = Consider(d, ef, x, q[j])
  OBVIOUS
<1>3. Beams(L) \subseteq X /\ \A s \in SUBSET (1 .. k) : h[s] \in X
  OBVIOUS
<1>4. k \in Nat /\ DOMAIN q = 1 .. k /\ \A j \in 1 .. k : q[j] \in L
  <2> HIDE DEF h, X, step, T, v, P
  <2> QED BY LenProperties, ElementOfSeq
<1>5. \A s \in SUBSET (1 .. k) : s # {} => Max(s) \in 1 .. k /\ s \ {Max(s)} \in SUBSET (1 .. k)
  BY <1>4, LastPosition
<1>6. \A j \in 0 .. k : T[j] = Beams(L)
  OBVIOUS
<1>7. v \in Beams(L)
  BY DEF Beams
<1> HIDE DEF h, X, step, T, v, q, k
<1>8. Carries(T, v, step, k)
  <2>1. ASSUME NEW j \in 1 .. k, NEW x \in Beams(L) PROVE step[<<j, x>>] \in Beams(L)
    <3>1. q[j] \in L /\ x \in X
      BY <1>3, <1>4
    <3>2. Consider(d, ef, x, q[j]) \in Beams(L)
      BY <3>1, ConsiderIn
    <3> QED BY <1>2, <3>1, <3>2
  <2> QED BY <1>4, <1>7, <2>1, CarriesOne DEF T
<1>9. \A s \in SUBSET (1 .. k) : LastOf(s) \in 0 .. k
  BY <1>4, <1>5 DEF LastOf
<1>10. ASSUME NEW f, Folding(f, v, step, k), \A s \in SUBSET (1 .. k) : f[s] \in T[LastOf(s)]
      PROVE  Folding(h, v, step, k)
  <2>f. \A s \in SUBSET (1 .. k) : s # {} =>
            step[<<Max(s), f[s \ {Max(s)}]>>] = Consider(d, ef, f[s \ {Max(s)}], q[Max(s)])
    BY <1>2, <1>3, <1>5, <1>6, <1>9, <1>10
  <2>1. P(f)
    BY <1>4, <1>10, <2>f DEF Folding
  <2>2. P(h)
    BY <2>1 DEF h
  <2>3. \A s \in SUBSET (1 .. k) : s # {} =>
            step[<<Max(s), h[s \ {Max(s)}]>>] = Consider(d, ef, h[s \ {Max(s)}], q[Max(s)])
    BY <1>2, <1>3, <1>5
  <2> QED BY <1>4, <2>2, <2>3 DEF Folding
<1>11. h[1 .. k] \in T[k]
  BY <1>4, <1>8, <1>10, FoldingCarries
<1> QED BY <1>1, <1>4, <1>6, <1>11

\* Some nodes of L by distance.
Arranged(d, L, q) == \E R \in SUBSET L : q = NearestFirst(d, R)

\* A search on a layer stays among the nodes that links of the layer lead to,
\* and finds one.
LEMMA SearchStays ==
    ASSUME NEW n \in Nat, NEW d \in [1 .. n -> Nat], NEW ef \in Nat \ {0}, NEW L \in SUBSET (1 .. n),
           NEW g, NEW l, DOMAIN g.nodes = 1 .. n, \A i \in L : g.nodes[i].conns[l] \in Seq(L), NEW ep \in L
    PROVE  /\ searchLayer(g, d, ep, ef, l) \in Seq(L) /\ searchLayer(g, d, ep, ef, l) # <<>>
           /\ Arranged(d, L, searchLayer(g, d, ep, ef, l))
<1> DEFINE v    == [cand |-> {ep}, res |-> {ep}, seen |-> {ep}]
           Op(b) == IF Exhausted(d, ef, b) THEN b ELSE Expand(g, d, ef, l, b, Nearest(d, b.cand))
           P(u) == u = [s \in SUBSET DOMAIN g.nodes |-> IF s = {} THEN v ELSE Op(u[s \ {Max(s)}])]
           h    == CHOOSE u : P(u)
           X    == Beams(L) \cup {h[s] : s \in SUBSET (1 .. n)}
           step == [p \in (1 .. n) \X X |-> Op(p[2])]
           T    == [j \in 0 .. n |-> Beams(L)]
<1>1. searchLayer(g, d, ep, ef, l) = NearestFirst(d, h[DOMAIN g.nodes].res)
  BY Zenon DEF searchLayer, Beam, FoldLeft, MapThenFoldSet
<1>2. \A j \in 1 .. n : \A x \in X : step[<<j, x>>] = Op(x)
  OBVIOUS
<1>3. Beams(L) \subseteq X /\ \A s \in SUBSET (1 .. n) : h[s] \in X
  OBVIOUS
<1>4. ASSUME NEW b \in Beams(L) PROVE Op(b) \in Beams(L)
  <2>1. CASE Exhausted(d, ef, b)
    BY <2>1
  <2>2. CASE ~Exhausted(d, ef, b)
    <3>1. b.cand \in SUBSET L /\ b.cand # {}
      BY <2>2 DEF Exhausted, Beams
    <3>2. b.cand \in SUBSET (1 .. n)
      BY <3>1
    <3>3. PICK c \in L : c = Nearest(d, b.cand)
      BY <3>1, <3>2, NearestIn
    <3>4. Expand(g, d, ef, l, b, c) \in Beams(L)
      BY ExpandIn
    <3> QED BY <2>2, <3>3, <3>4
  <2> QED BY <2>1, <2>2
<1>5. \A s \in SUBSET (1 .. n) : s # {} => Max(s) \in 1 .. n /\ s \ {Max(s)} \in SUBSET (1 .. n)
  BY LastPosition
<1>6. \A j \in 0 .. n : T[j] = Beams(L)
  OBVIOUS
<1>7. v \in Beams(L)
  <2> HIDE DEF h, X, step, T, P, Op
  <2>1. {ep} \in SUBSET L /\ {ep} # {}
    OBVIOUS
  <2> QED BY <2>1 DEF Beams
<1> HIDE DEF h, X, step, T, v, Op
<1>8. Carries(T, v, step, n)
  <2>1. \A j \in 1 .. n : \A x \in Beams(L) : step[<<j, x>>] \in Beams(L)
    BY <1>2, <1>3, <1>4
  <2> QED BY <1>7, <2>1, CarriesOne DEF T
<1>9. \A s \in SUBSET (1 .. n) : LastOf(s) \in 0 .. n
  BY <1>5 DEF LastOf
<1>10. ASSUME NEW f, Folding(f, v, step, n), \A s \in SUBSET (1 .. n) : f[s] \in T[LastOf(s)]
      PROVE  Folding(h, v, step, n)
  <2>f. \A s \in SUBSET (1 .. n) : s # {} => step[<<Max(s), f[s \ {Max(s)}]>>] = Op(f[s \ {Max(s)}])
    BY <1>2, <1>3, <1>5, <1>6, <1>9, <1>10
  <2>1. P(f)
    BY <1>10, <2>f DEF Folding
  <2>2. P(h)
    BY <2>1 DEF h
  <2>3. \A s \in SUBSET (1 .. n) : s # {} => step[<<Max(s), h[s \ {Max(s)}]>>] = Op(h[s \ {Max(s)}])
    BY <1>2, <1>3, <1>5
  <2> QED BY <2>2, <2>3 DEF Folding
<1>11. h[1 .. n] \in T[n]
  BY <1>8, <1>10, FoldingCarries
<1>12. PICK R \in SUBSET L : R = h[1 .. n].res /\ R # {}
  <2>1. PICK b \in Beams(L) : b = h[1 .. n]
    BY <1>6, <1>11
  <2>2. b.res \in SUBSET L /\ b.res # {}
    BY DEF Beams
  <2> QED BY <2>1, <2>2
<1> HIDE DEF P
<1>13. R \in SUBSET (1 .. n)
  OBVIOUS
<1>14. NearestFirst(d, R) \in Seq(R) /\ NearestFirst(d, R) # <<>>
  BY <1>12, <1>13, NearestFirstOf
<1>15. Seq(R) \subseteq Seq(L)
  BY SeqMonotonic
<1>16. Arranged(d, L, NearestFirst(d, R))
  BY DEF Arranged
<1> QED BY <1>1, <1>12, <1>14, <1>15, <1>16

\* Graphs of nodes with codes of C, and the nodes of a graph that have a layer.
Conns       == UNION {[0 .. k -> Seq(Nat)] : k \in Nat}
NodeSet(C)  == [vid : Nat, code : C, conns : Conns]
GraphSet(C) == [nodes : Seq(NodeSet(C)), entry : Nat, top : Nat]
Finite(C)   == \A c \in C : IsFiniteSet(c)
On(g, l)    == {i \in DOMAIN g.nodes : l \in DOMAIN g.nodes[i].conns}

\* Links join two nodes that have their layer, and no node has too many.
Linked(g) ==
    \A i \in DOMAIN g.nodes : \A l \in DOMAIN g.nodes[i].conns :
        /\ Len(g.nodes[i].conns[l]) <= MaxLinks(l)
        /\ \A nb \in Range(g.nodes[i].conns[l]) : nb # i /\ nb \in On(g, l)

\* Two graphs that differ in links only, and on one layer.
Like(g, h) ==
    /\ h.entry = g.entry /\ h.top = g.top /\ DOMAIN h.nodes = DOMAIN g.nodes
    /\ \A i \in DOMAIN g.nodes : /\ h.nodes[i].vid = g.nodes[i].vid
                                 /\ h.nodes[i].code = g.nodes[i].code
                                 /\ DOMAIN h.nodes[i].conns = DOMAIN g.nodes[i].conns
SameBut(l, g, h) ==
    \A i \in DOMAIN g.nodes : \A k \in DOMAIN g.nodes[i].conns \ {l} :
        h.nodes[i].conns[k] = g.nodes[i].conns[k]

LEMMA GraphType ==
    ASSUME NEW C, NEW g \in GraphSet(C)
    PROVE  /\ Len(g.nodes) \in Nat /\ DOMAIN g.nodes = 1 .. Len(g.nodes)
           /\ g.entry \in Nat /\ g.top \in Nat
           /\ \A i \in DOMAIN g.nodes :
                /\ g.nodes[i] \in NodeSet(C)
                /\ g.nodes[i].vid \in Nat /\ g.nodes[i].code \in C
                /\ \E k \in Nat : g.nodes[i].conns \in [0 .. k -> Seq(Nat)]
<1>1. g.nodes \in Seq(NodeSet(C)) /\ g.entry \in Nat /\ g.top \in Nat
  BY DEF GraphSet
<1>2. PICK N : N = NodeSet(C)
  OBVIOUS
<1>3. Len(g.nodes) \in Nat /\ DOMAIN g.nodes = 1 .. Len(g.nodes) /\ \A i \in DOMAIN g.nodes : g.nodes[i] \in N
  BY <1>1, <1>2, LenProperties, ElementOfSeq
<1>4. ASSUME NEW x \in NodeSet(C)
      PROVE  x.vid \in Nat /\ x.code \in C /\ \E k \in Nat : x.conns \in [0 .. k -> Seq(Nat)]
  BY DEF NodeSet, Conns
<1> QED BY <1>1, <1>2, <1>3, <1>4

LEMMA HammingType ==
    ASSUME NEW a, NEW b, IsFiniteSet(a), IsFiniteSet(b)
    PROVE  Hamming(a, b) \in Nat
<1>1. IsFiniteSet((a \ b) \cup (b \ a))
  BY FS_Union, FS_Difference
<1> QED BY <1>1, FS_CardinalityType DEF Hamming

LEMMA DistancesType ==
    ASSUME NEW C, Finite(C), NEW g \in GraphSet(C), NEW code \in C
    PROVE  Distances(g, code) \in [1 .. Len(g.nodes) -> Nat]
<1>1. \A i \in 1 .. Len(g.nodes) : g.nodes[i].code \in C
  BY GraphType
<1>2. \A i \in 1 .. Len(g.nodes) : Hamming(code, g.nodes[i].code) \in Nat
  BY <1>1, HammingType DEF Finite
<1>3. DOMAIN g.nodes = 1 .. Len(g.nodes)
  BY GraphType
<1> QED BY <1>2, <1>3 DEF Distances

\* Neighbours are chosen among the candidates, and not too many.
LEMMA ChosenOf ==
    ASSUME NEW S, NEW arr \in Seq(S), NEW limit \in Nat, NEW g, NEW d
    PROVE  Chosen(g, d, limit, arr) \in Seq(S) /\ Len(Chosen(g, d, limit, arr)) <= limit
<1> DEFINE Q  == {q \in Seq(S) : Len(q) <= limit}
           n  == Len(arr)
           Op(out, c) == IF /\ Len(out) < limit
                            /\ \A s \in Range(out) : Hamming(g.nodes[c].code, g.nodes[s].code) >= d[c]
                         THEN Append(out, c) ELSE out
           Up(out, c) == IF Len(out) < limit /\ c \notin Range(out) THEN Append(out, c) ELSE out
           P(u) == u = [s \in SUBSET DOMAIN arr |-> IF s = {} THEN <<>> ELSE Op(u[s \ {Max(s)}], arr[Max(s)])]
           h    == CHOOSE u : P(u)
           PP(u) == u = [s \in SUBSET DOMAIN arr |-> IF s = {} THEN h[DOMAIN arr] ELSE Up(u[s \ {Max(s)}], arr[Max(s)])]
           hh   == CHOOSE u : PP(u)
<1>1. Chosen(g, d, limit, arr) = hh[DOMAIN arr]
  BY Zenon DEF Chosen, FoldLeft, MapThenFoldSet
<1>2. n \in Nat /\ DOMAIN arr = 1 .. n /\ \A j \in 1 .. n : arr[j] \in S
  <2> HIDE DEF hh, h, P, PP, Op, Up
  <2> QED BY LenProperties, ElementOfSeq
<1>3. ASSUME NEW q \in Q, NEW c \in S PROVE Op(q, c) \in Q /\ Up(q, c) \in Q
  <2>1. q \in Seq(S) /\ Len(q) \in Nat /\ Len(q) <= limit
    BY LenProperties
  <2>2. Append(q, c) \in Seq(S) /\ Len(Append(q, c)) = Len(q) + 1
    BY <2>1, AppendProperties
  <2>3. Len(q) < limit => Append(q, c) \in Q
    BY <2>1, <2>2
  <2> HIDE DEF Q
  <2> QED BY <2>3
<1>4. <<>> \in Q
  <2>1. <<>> \in Seq(S) /\ Len(<<>>) = 0
    OBVIOUS
  <2> QED BY <2>1
<1>5. \A s \in SUBSET (1 .. n) : s # {} => Max(s) \in 1 .. n /\ s \ {Max(s)} \in SUBSET (1 .. n)
  BY <1>2, LastPosition
<1>6. \A s \in SUBSET (1 .. n) : LastOf(s) \in 0 .. n
  BY <1>2, <1>5 DEF LastOf
<1> DEFINE T == [j \in 0 .. n |-> Q]
<1>7. \A j \in 0 .. n : T[j] = Q
  OBVIOUS
<1> HIDE DEF h, hh, T, Op, Up, Q, n
<1>8. h[1 .. n] \in Q
  <2> DEFINE X    == Q \cup {h[s] : s \in SUBSET (1 .. n)}
             step == [p \in (1 .. n) \X X |-> Op(p[2], arr[p[1]])]
  <2>2. \A j \in 1 .. n : \A x \in X : step[<<j, x>>] = Op(x, arr[j])
    OBVIOUS
  <2>3. Q \subseteq X /\ \A s \in SUBSET (1 .. n) : h[s] \in X
    OBVIOUS
  <2> HIDE DEF X, step
  <2>8. Carries(T, <<>>, step, n)
    <3>1. \A j \in 1 .. n : \A x \in Q : step[<<j, x>>] \in Q
      BY <1>2, <1>3, <2>2, <2>3
    <3> QED BY <1>2, <1>4, <3>1, CarriesOne DEF T
  <2>10. ASSUME NEW f, Folding(f, <<>>, step, n), \A s \in SUBSET (1 .. n) : f[s] \in T[LastOf(s)]
         PROVE  Folding(h, <<>>, step, n)
    <3>f. \A s \in SUBSET (1 .. n) : s # {} => step[<<Max(s), f[s \ {Max(s)}]>>] = Op(f[s \ {Max(s)}], arr[Max(s)])
      BY <1>5, <1>6, <1>7, <2>2, <2>3, <2>10
    <3>1. P(f)
      BY <1>2, <2>10, <3>f DEF Folding
    <3>2. P(h)
      BY <3>1 DEF h
    <3>3. \A s \in SUBSET (1 .. n) : s # {} => step[<<Max(s), h[s \ {Max(s)}]>>] = Op(h[s \ {Max(s)}], arr[Max(s)])
      BY <1>5, <2>2, <2>3
    <3> QED BY <1>2, <3>2, <3>3 DEF Folding
  <2>11. h[1 .. n] \in T[n]
    BY <1>2, <2>8, <2>10, FoldingCarries
  <2> QED BY <1>2, <1>7, <2>11
<1>9. hh[1 .. n] \in Q
  <2>1. PICK v \in Q : v = h[DOMAIN arr]
    BY <1>2, <1>8
  <2> DEFINE X    == Q \cup {hh[s] : s \in SUBSET (1 .. n)}
             step == [p \in (1 .. n) \X X |-> Up(p[2], arr[p[1]])]
  <2>2. \A j \in 1 .. n : \A x \in X : step[<<j, x>>] = Up(x, arr[j])
    OBVIOUS
  <2>3. Q \subseteq X /\ \A s \in SUBSET (1 .. n) : hh[s] \in X
    OBVIOUS
  <2> HIDE DEF X, step
  <2>8. Carries(T, v, step, n)
    <3>1. \A j \in 1 .. n : \A x \in Q : step[<<j, x>>] \in Q
      BY <1>2, <1>3, <2>2, <2>3
    <3> QED BY <1>2, <3>1, CarriesOne DEF T
  <2>10. ASSUME NEW f, Folding(f, v, step, n), \A s \in SUBSET (1 .. n) : f[s] \in T[LastOf(s)]
         PROVE  Folding(hh, v, step, n)
    <3>f. \A s \in SUBSET (1 .. n) : s # {} => step[<<Max(s), f[s \ {Max(s)}]>>] = Up(f[s \ {Max(s)}], arr[Max(s)])
      BY <1>5, <1>6, <1>7, <2>2, <2>3, <2>10
    <3>1. PP(f)
      BY <1>2, <2>1, <2>10, <3>f DEF Folding
    <3>2. PP(hh)
      BY <3>1 DEF hh
    <3>3. \A s \in SUBSET (1 .. n) : s # {} => step[<<Max(s), hh[s \ {Max(s)}]>>] = Up(hh[s \ {Max(s)}], arr[Max(s)])
      BY <1>5, <2>2, <2>3
    <3> QED BY <1>2, <2>1, <3>2, <3>3 DEF Folding
  <2>11. hh[1 .. n] \in T[n]
    BY <1>2, <2>8, <2>10, FoldingCarries
  <2> QED BY <1>2, <1>7, <2>11
<1> QED BY <1>1, <1>2, <1>9 DEF Q

\* Links after the pruning.
LEMMA PrunedOf ==
    ASSUME NEW C, Finite(C), NEW g \in GraphSet(C), NEW nb \in DOMAIN g.nodes,
           NEW S \in SUBSET DOMAIN g.nodes, NEW conns \in Seq(S), NEW limit \in Nat
    PROVE  Pruned(g, nb, conns, limit) \in Seq(S) /\ Len(Pruned(g, nb, conns, limit)) <= limit
<1>1. PICK d \in [1 .. Len(g.nodes) -> Nat] : d = Distances(g, g.nodes[nb].code)
  BY GraphType, DistancesType
<1>2. Range(conns) \subseteq S
  BY ElementOfSeq, LenProperties DEF Range
<1>3. PICK R \in SUBSET (1 .. Len(g.nodes)) : R = Range(conns) /\ R \subseteq S
  BY <1>2, GraphType
<1>4. NearestFirst(d, R) \in Seq(R)
  BY <1>1, <1>3, GraphType, NearestFirstOf
<1>5. PICK arr \in Seq(S) : arr = NearestFirst(d, R)
  BY <1>3, <1>4, SeqMonotonic
<1>6. Chosen(g, d, limit, arr) \in Seq(S) /\ Len(Chosen(g, d, limit, arr)) <= limit
  BY ChosenOf
<1>7. CASE Len(conns) <= limit
  BY <1>7 DEF Pruned
<1>8. CASE ~(Len(conns) <= limit)
  <2>1. Pruned(g, nb, conns, limit) = selectNeighbors(g, d, R, limit)
    BY <1>1, <1>3, <1>8 DEF Pruned
  <2> QED BY <1>5, <1>6, <2>1 DEF selectNeighbors
<1> QED BY <1>7, <1>8

\* A graph with the links of one node replaced on one layer.
LEMMA SetConns ==
    ASSUME NEW C, NEW g \in GraphSet(C), Linked(g), NEW nb \in DOMAIN g.nodes,
           NEW l \in DOMAIN g.nodes[nb].conns, NEW q \in Seq(On(g, l) \ {nb}), Len(q) <= MaxLinks(l),
           NEW h, h = [g EXCEPT !.nodes[nb].conns[l] = q]
    PROVE  /\ h \in GraphSet(C) /\ Like(g, h) /\ SameBut(l, g, h) /\ Linked(h)
           /\ h.nodes[nb].conns[l] = q
<1>1. PICK n \in Nat : DOMAIN g.nodes = 1 .. n /\ n = Len(g.nodes)
  BY GraphType
<1>2. On(g, l) \ {nb} \subseteq Nat
  BY <1>1 DEF On
<1>3. q \in Seq(Nat)
  BY <1>2, SeqMonotonic
<1>n. PICK N : N = NodeSet(C)
  OBVIOUS
<1>4. g.nodes \in Seq(N) /\ g.entry \in Nat /\ g.top \in Nat
  BY <1>n DEF GraphSet
<1>x. PICK x : x = [g.nodes[nb] EXCEPT !.conns[l] = q]
  OBVIOUS
<1>5. /\ g.nodes[nb].vid \in Nat /\ g.nodes[nb].code \in C
      /\ g.nodes[nb] = [vid |-> g.nodes[nb].vid, code |-> g.nodes[nb].code, conns |-> g.nodes[nb].conns]
  <2>1. g.nodes[nb] \in NodeSet(C)
    BY GraphType
  <2> QED BY <2>1 DEF NodeSet
<1>c. PICK k \in Nat : g.nodes[nb].conns \in [0 .. k -> Seq(Nat)]
  BY GraphType
<1>y. PICK y \in [0 .. k -> Seq(Nat)] : y = [g.nodes[nb].conns EXCEPT ![l] = q]
  BY <1>3, <1>c
<1>6. /\ x.vid = g.nodes[nb].vid /\ x.code = g.nodes[nb].code /\ x.conns = y
      /\ x = [vid |-> g.nodes[nb].vid, code |-> g.nodes[nb].code, conns |-> y]
  BY <1>5, <1>x, <1>y
<1>7. x \in N
  BY <1>5, <1>6, <1>n DEF NodeSet, Conns
<1>8. PICK s \in Seq(N) : s = [g.nodes EXCEPT ![nb] = x]
  <2>1. PICK t \in Seq(N) : t = g.nodes /\ nb \in 1 .. Len(t)
    BY <1>1, <1>4
  <2>2. [t EXCEPT ![nb] = x] \in Seq(N)
    BY <1>7, <2>1, ExceptSeq
  <2> QED BY <2>1, <2>2
<1>9. /\ h.nodes = s /\ h.entry = g.entry /\ h.top = g.top
      /\ h = [nodes |-> s, entry |-> g.entry, top |-> g.top]
  <2>1. g = [nodes |-> g.nodes, entry |-> g.entry, top |-> g.top]
    BY DEF GraphSet
  <2>2. h = [g EXCEPT !.nodes = [g.nodes EXCEPT ![nb] = [g.nodes[nb] EXCEPT !.conns[l] = q]]]
    OBVIOUS
  <2>3. h = [g EXCEPT !.nodes = s]
    BY <1>8, <1>x, <2>2
  <2> QED BY <2>1, <2>3
<1>10. h \in GraphSet(C)
  BY <1>4, <1>9, <1>n DEF GraphSet
<1>11. /\ DOMAIN s = DOMAIN g.nodes /\ s[nb] = x
       /\ \A i \in DOMAIN g.nodes \ {nb} : s[i] = g.nodes[i]
  BY <1>8
<1>12. DOMAIN y = DOMAIN g.nodes[nb].conns /\ y[l] = q /\ \A j \in DOMAIN g.nodes[nb].conns \ {l} : y[j] = g.nodes[nb].conns[j]
  BY <1>c, <1>y
<1>13. Like(g, h)
  <2> SUFFICES ASSUME NEW i \in DOMAIN g.nodes
               PROVE  /\ h.nodes[i].vid = g.nodes[i].vid /\ h.nodes[i].code = g.nodes[i].code
                      /\ DOMAIN h.nodes[i].conns = DOMAIN g.nodes[i].conns
    BY <1>9, <1>11 DEF Like
  <2> QED BY <1>6, <1>9, <1>11, <1>12
<1>14. SameBut(l, g, h)
  <2> SUFFICES ASSUME NEW i \in DOMAIN g.nodes, NEW j \in DOMAIN g.nodes[i].conns \ {l}
               PROVE  h.nodes[i].conns[j] = g.nodes[i].conns[j]
    BY DEF SameBut
  <2> QED BY <1>6, <1>9, <1>11, <1>12
<1>15. h.nodes[nb].conns[l] = q
  BY <1>6, <1>9, <1>11, <1>12
<1>16. \A j : On(h, j) = On(g, j)
  BY <1>13 DEF On, Like
<1>17. Linked(h)
  <2> SUFFICES ASSUME NEW i \in DOMAIN g.nodes, NEW j \in DOMAIN g.nodes[i].conns
               PROVE  /\ Len(h.nodes[i].conns[j]) <= MaxLinks(j)
                      /\ \A m \in Range(h.nodes[i].conns[j]) : m # i /\ m \in On(g, j)
    <3>1. DOMAIN h.nodes = DOMAIN g.nodes /\ \A i \in DOMAIN g.nodes : DOMAIN h.nodes[i].conns = DOMAIN g.nodes[i].conns
      BY <1>13 DEF Like
    <3> QED BY <1>16, <3>1 DEF Linked
  <2>1. CASE i = nb /\ j = l
    <3>1. \A m \in Range(q) : m \in On(g, l) \ {nb}
      BY ElementOfSeq, LenProperties DEF Range
    <3> QED BY <1>15, <2>1, <3>1
  <2>2. CASE ~(i = nb /\ j = l)
    <3>1. h.nodes[i].conns[j] = g.nodes[i].conns[j]
      BY <1>6, <1>9, <1>11, <1>12, <2>2
    <3> QED BY <3>1 DEF Linked
  <2> QED BY <2>1, <2>2
<1> QED BY <1>10, <1>13, <1>14, <1>15, <1>17

\* A graph that is g but for its links on a layer.
Variant(C, l, g, h) == h \in GraphSet(C) /\ Like(g, h) /\ SameBut(l, g, h) /\ Linked(h)

LEMMA VariantOn ==
    ASSUME NEW C, NEW l, NEW g, NEW h, Variant(C, l, g, h)
    PROVE  \A j : On(h, j) = On(g, j)
BY DEF Variant, Like, On

LEMMA VariantTrans ==
    ASSUME NEW C, NEW l, NEW g, NEW h, NEW k, Variant(C, l, g, h), Variant(C, l, h, k)
    PROVE  Variant(C, l, g, k)
<1>1. Like(g, k)
  BY DEF Variant, Like
<1>2. SameBut(l, g, k)
  BY DEF Variant, Like, SameBut
<1> QED BY <1>1, <1>2 DEF Variant

LEMMA MaxLinksType ==
    ASSUME NEW l \in Nat
    PROVE  MaxLinks(l) \in Nat
BY HnswAssumption DEF MaxLinks

\* A link back changes one layer.
LEMMA LinkBackKeeps ==
    ASSUME NEW C, Finite(C), NEW g \in GraphSet(C), Linked(g), NEW l \in Nat,
           NEW nb \in On(g, l), NEW id \in On(g, l), nb # id
    PROVE  Variant(C, l, g, LinkBack(g, nb, id, l))
<1>1. nb \in DOMAIN g.nodes /\ l \in DOMAIN g.nodes[nb].conns
  BY DEF On
<1> DEFINE S == On(g, l) \ {nb}
           c == g.nodes[nb].conns[l]
           q == Pruned(g, nb, Append(c, id), MaxLinks(l))
           h == [g EXCEPT !.nodes[nb].conns[l] = q]
<1>2. LinkBack(g, nb, id, l) = h
  BY Zenon DEF LinkBack
<1>3. c \in Seq(S)
  <2>1. PICK k \in Nat : g.nodes[nb].conns \in [0 .. k -> Seq(Nat)]
    BY <1>1, GraphType
  <2>2. c \in Seq(Nat)
    BY <1>1, <2>1
  <2>3. \A m \in Range(c) : m \in S
    BY <1>1 DEF Linked
  <2> HIDE DEF c, q, h
  <2>4. Len(c) \in Nat /\ DOMAIN c = 1 .. Len(c)
    BY <2>2, LenProperties
  <2>5. \A j \in 1 .. Len(c) : c[j] \in S
    BY <2>3, <2>4 DEF Range
  <2>6. c = [j \in 1 .. Len(c) |-> c[j]]
    BY <2>2, <2>4
  <2> QED BY <2>4, <2>5, <2>6, IsASeq
<1>4. Append(c, id) \in Seq(S)
  BY <1>3, AppendProperties
<1>5. MaxLinks(l) \in Nat
  BY MaxLinksType
<1>6. S \in SUBSET DOMAIN g.nodes
  BY DEF On
<1>7. q \in Seq(S) /\ Len(q) <= MaxLinks(l)
  BY <1>1, <1>4, <1>5, <1>6, PrunedOf
<1>8. h \in GraphSet(C) /\ Like(g, h) /\ SameBut(l, g, h) /\ Linked(h)
  <2>1. PICK y : y = h
    OBVIOUS
  <2> HIDE DEF c
  <2>2. PICK r \in Seq(S) : r = q
    BY <1>7
  <2>3. y = [g EXCEPT !.nodes[nb].conns[l] = r] /\ Len(r) <= MaxLinks(l)
    BY <1>7, <2>1, <2>2
  <2> HIDE DEF h, q, S
  <2>4. r \in Seq(On(g, l) \ {nb})
    BY DEF S
  <2> QED BY <1>1, <2>1, <2>3, <2>4, SetConns
<1> QED BY <1>2, <1>8 DEF Variant

\* The links of a new node on a layer, with those back, change that layer.
LEMMA JoinKeeps ==
    ASSUME NEW C, Finite(C), NEW g \in GraphSet(C), Linked(g), NEW l \in Nat, NEW id \in On(g, l),
           NEW q \in Seq(On(g, l) \ {id}), Len(q) <= MaxLinks(l)
    PROVE  Variant(C, l, g, Join(g, id, l, q))
<1> DEFINE v    == [g EXCEPT !.nodes[id].conns[l] = q]
           Op(x, nb) == LinkBack(x, nb, id, l)
           n    == Len(q)
           V    == {h \in GraphSet(C) : Variant(C, l, g, h)}
           P(u) == u = [s \in SUBSET DOMAIN q |-> IF s = {} THEN v ELSE Op(u[s \ {Max(s)}], q[Max(s)])]
           h    == CHOOSE u : P(u)
           X    == V \cup {h[s] : s \in SUBSET (1 .. n)}
           step == [p \in (1 .. n) \X X |-> Op(p[2], q[p[1]])]
           T    == [j \in 0 .. n |-> V]
<1>1. Join(g, id, l, q) = h[DOMAIN q]
  BY Zenon DEF Join, FoldLeft, MapThenFoldSet
<1>2. \A j \in 1 .. n : \A x \in X : step[<<j, x>>] = Op(x, q[j])
  OBVIOUS
<1>3. V \subseteq X /\ \A s \in SUBSET (1 .. n) : h[s] \in X
  OBVIOUS
<1>4. n \in Nat /\ DOMAIN q = 1 .. n /\ \A j \in 1 .. n : q[j] \in On(g, l) \ {id}
  <2> HIDE DEF h, X, step, T, v, P, Op, V
  <2>1. PICK S : S = On(g, l) \ {id}
    OBVIOUS
  <2>2. q \in Seq(S)
    BY <2>1
  <2>3. n \in Nat /\ DOMAIN q = 1 .. n /\ \A j \in 1 .. n : q[j] \in S
    BY <2>2, LenProperties, ElementOfSeq
  <2> QED BY <2>1, <2>3
<1>5. v \in V
  <2> HIDE DEF h, X, step, T, P, Op
  <2>1. id \in DOMAIN g.nodes /\ l \in DOMAIN g.nodes[id].conns
    BY DEF On
  <2>2. PICK y : y = v
    OBVIOUS
  <2>3. Variant(C, l, g, y)
    BY <2>1, <2>2, SetConns DEF Variant
  <2> QED BY <2>2, <2>3 DEF Variant
<1>6. ASSUME NEW x \in V, NEW nb \in On(g, l) \ {id} PROVE Op(x, nb) \in V
  <2> HIDE DEF h, X, step, T, P, v
  <2>1. Variant(C, l, g, x) /\ x \in GraphSet(C) /\ Linked(x)
    BY DEF Variant
  <2>2. nb \in On(x, l) /\ id \in On(x, l) /\ nb # id
    BY <2>1, VariantOn
  <2>3. PICK y : y = Op(x, nb)
    OBVIOUS
  <2>4. Variant(C, l, x, y)
    BY <2>1, <2>2, <2>3, LinkBackKeeps
  <2>5. Variant(C, l, g, y)
    BY <2>1, <2>4, VariantTrans
  <2> QED BY <2>3, <2>5 DEF Variant
<1>7. \A s \in SUBSET (1 .. n) : s # {} => Max(s) \in 1 .. n /\ s \ {Max(s)} \in SUBSET (1 .. n)
  BY <1>4, LastPosition
<1>8. \A j \in 0 .. n : T[j] = V
  OBVIOUS
<1> HIDE DEF h, X, step, T, v, n, Op, V
<1>9. Carries(T, v, step, n)
  <2>1. \A j \in 1 .. n : \A x \in V : step[<<j, x>>] \in V
    BY <1>2, <1>3, <1>4, <1>6
  <2> QED BY <1>4, <1>5, <2>1, CarriesOne DEF T
<1>10. \A s \in SUBSET (1 .. n) : LastOf(s) \in 0 .. n
  BY <1>4, <1>7 DEF LastOf
<1>11. ASSUME NEW f, Folding(f, v, step, n), \A s \in SUBSET (1 .. n) : f[s] \in T[LastOf(s)]
      PROVE  Folding(h, v, step, n)
  <2>f. \A s \in SUBSET (1 .. n) : s # {} => step[<<Max(s), f[s \ {Max(s)}]>>] = Op(f[s \ {Max(s)}], q[Max(s)])
    BY <1>2, <1>3, <1>7, <1>8, <1>10, <1>11
  <2>1. P(f)
    BY <1>4, <1>11, <2>f DEF Folding
  <2>2. P(h)
    BY <2>1 DEF h
  <2>3. \A s \in SUBSET (1 .. n) : s # {} => step[<<Max(s), h[s \ {Max(s)}]>>] = Op(h[s \ {Max(s)}], q[Max(s)])
    BY <1>2, <1>3, <1>7
  <2> QED BY <1>4, <2>2, <2>3 DEF Folding
<1>12. h[1 .. n] \in T[n]
  BY <1>4, <1>9, <1>11, FoldingCarries
<1>13. h[1 .. n] \in V
  BY <1>4, <1>8, <1>12
<1> QED BY <1>1, <1>4, <1>13 DEF V

\* On a layer, the nodes other than a new one, none of which is linked to it.
Before(g, id, l) == On(g, l) \ {id}
Apart(g, id, l)  == \A i \in Before(g, id, l) : \A nb \in Range(g.nodes[i].conns[l]) : nb # id

\* The links of such nodes.
LEMMA ApartLinks ==
    ASSUME NEW C, NEW g \in GraphSet(C), Linked(g), NEW id, NEW l, Apart(g, id, l)
    PROVE  \A i \in Before(g, id, l) : g.nodes[i].conns[l] \in Seq(Before(g, id, l))
<1> SUFFICES ASSUME NEW i \in Before(g, id, l) PROVE g.nodes[i].conns[l] \in Seq(Before(g, id, l))
  OBVIOUS
<1>1. i \in DOMAIN g.nodes /\ l \in DOMAIN g.nodes[i].conns
  BY DEF Before, On
<1>2. PICK k \in Nat : g.nodes[i].conns \in [0 .. k -> Seq(Nat)]
  BY <1>1, GraphType
<1>3. PICK c \in Seq(Nat) : c = g.nodes[i].conns[l]
  BY <1>1, <1>2
<1>4. \A m \in Range(c) : m \in Before(g, id, l)
  BY <1>1, <1>3 DEF Linked, Apart, Before
<1>5. Len(c) \in Nat /\ DOMAIN c = 1 .. Len(c) /\ c = [j \in 1 .. Len(c) |-> c[j]]
  BY LenProperties
<1>6. \A j \in 1 .. Len(c) : c[j] \in Before(g, id, l)
  BY <1>4, <1>5 DEF Range
<1> QED BY <1>3, <1>5, <1>6, IsASeq

\* A node on a layer is on every layer below.
LEMMA OnBelow ==
    ASSUME NEW C, NEW g \in GraphSet(C), NEW l \in Nat, NEW k \in 0 .. l
    PROVE  On(g, l) \subseteq On(g, k)
<1> SUFFICES ASSUME NEW i \in On(g, l) PROVE i \in On(g, k)
  OBVIOUS
<1>1. i \in DOMAIN g.nodes /\ l \in DOMAIN g.nodes[i].conns
  BY DEF On
<1>2. PICK m \in Nat : DOMAIN g.nodes[i].conns = 0 .. m
  BY <1>1, GraphType
<1>3. k \in 0 .. m
  BY <1>1, <1>2
<1> QED BY <1>1, <1>2, <1>3 DEF On

\* A node to start from on the layers up to k, apart from a new one.
Ready(g, id, k, ep) == \A l \in 0 .. k : Apart(g, id, l) /\ ep \in Before(g, id, l)

\* Where the linking of a new node is before it comes to layer k.
Arrived(C, g, id, k, at) ==
    /\ at \in [graph : GraphSet(C), ep : Nat] /\ Like(g, at.graph) /\ Linked(at.graph)
    /\ \A l \in 0 .. k : Apart(at.graph, id, l) /\ at.ep \in Before(at.graph, id, l)

\* Linking one layer leads to the next.
LEMMA LinkLayerKeeps ==
    ASSUME NEW C, Finite(C), NEW g \in GraphSet(C), NEW n \in Nat, n = Len(g.nodes),
           NEW d \in [1 .. n -> Nat], NEW id, NEW l \in Nat, id \in On(g, l),
           NEW at, Arrived(C, g, id, l, at)
    PROVE  Arrived(C, g, id, l - 1, LinkLayer(at.graph, d, id, l, searchLayer(at.graph, d, at.ep, EfConstr, l)))
<1>1. PICK h \in GraphSet(C), ep \in Nat : h = at.graph /\ ep = at.ep
  BY DEF Arrived
<1>2. Like(g, h) /\ Linked(h) /\ \A k \in 0 .. l : Apart(h, id, k) /\ ep \in Before(h, id, k)
  BY <1>1 DEF Arrived
<1>3. DOMAIN h.nodes = 1 .. n /\ id \in On(h, l) /\ l \in 0 .. l
  <2>1. DOMAIN h.nodes = DOMAIN g.nodes /\ DOMAIN g.nodes = 1 .. n
    BY <1>2, GraphType DEF Like
  <2>2. On(h, l) = On(g, l)
    BY <1>2 DEF Like, On
  <2> QED BY <2>1, <2>2
<1>4. PICK L \in SUBSET (1 .. n) : L = Before(h, id, l)
  BY <1>3 DEF Before, On
<1>5. ep \in L /\ \A i \in L : h.nodes[i].conns[l] \in Seq(L)
  BY <1>2, <1>3, <1>4, ApartLinks
<1>6. EfConstr \in Nat \ {0}
  BY HnswAssumption
<1>7. PICK found \in Seq(L) : found = searchLayer(h, d, ep, EfConstr, l) /\ found # <<>>
  BY <1>3, <1>5, <1>6, SearchStays
<1>8. Range(found) \in SUBSET L
  BY LenProperties, ElementOfSeq DEF Range
<1>9. PICK R \in SUBSET (1 .. n) : R = Range(found) /\ R \subseteq L
  BY <1>8
<1>10. PICK arr \in Seq(L) : arr = NearestFirst(d, R)
  BY <1>9, NearestFirstOf, SeqMonotonic
<1>11. MaxLinks(l) \in Nat
  BY MaxLinksType
<1>12. PICK q \in Seq(L) : q = Chosen(h, d, MaxLinks(l), arr) /\ Len(q) <= MaxLinks(l)
  BY <1>11, ChosenOf
<1>13. q \in Seq(On(h, l) \ {id})
  BY <1>4 DEF Before
<1>14. PICK y : y = Join(h, id, l, q)
  OBVIOUS
<1>15. Variant(C, l, h, y)
  BY <1>2, <1>3, <1>12, <1>13, <1>14, JoinKeeps
<1>16. PICK e \in L : e = Head(found)
  BY <1>7, HeadTailProperties
<1>17. LinkLayer(h, d, id, l, found) = [graph |-> y, ep |-> e]
  BY <1>9, <1>10, <1>12, <1>14, <1>16 DEF LinkLayer, selectNeighbors
<1>18. \A k : On(y, k) = On(h, k) /\ Before(y, id, k) = Before(h, id, k)
  BY <1>15, VariantOn DEF Before
<1>19. y \in GraphSet(C) /\ Linked(y) /\ Like(g, y)
  BY <1>2, <1>15 DEF Variant, Like
<1>20. ASSUME NEW k \in 0 .. (l - 1) PROVE Apart(y, id, k) /\ e \in Before(y, id, k)
  <2>1. k \in 0 .. l /\ k # l
    OBVIOUS
  <2>2. On(h, l) \subseteq On(h, k)
    BY <2>1, OnBelow
  <2>3. e \in Before(h, id, k)
    BY <1>4, <2>2 DEF Before
  <2>4. ASSUME NEW i \in Before(h, id, k) PROVE y.nodes[i].conns[k] = h.nodes[i].conns[k]
    <3>1. i \in DOMAIN h.nodes /\ k \in DOMAIN h.nodes[i].conns \ {l}
      BY <2>1 DEF Before, On
    <3>2. SameBut(l, h, y)
      BY <1>15 DEF Variant
    <3> QED BY <3>1, <3>2 DEF SameBut
  <2>5. Apart(h, id, k)
    BY <1>2, <2>1
  <2>6. Apart(y, id, k)
    BY <1>18, <2>4, <2>5 DEF Apart
  <2> QED BY <1>18, <2>3, <2>6
<1>21. PICK z : z = [graph |-> y, ep |-> e]
  OBVIOUS
<1>22. z \in [graph : GraphSet(C), ep : Nat] /\ z.graph = y /\ z.ep = e
  BY <1>19, <1>21
<1>23. Arrived(C, g, id, l - 1, z)
  BY <1>19, <1>20, <1>22 DEF Arrived
<1> QED BY <1>1, <1>7, <1>17, <1>21, <1>23

\* What is ready for a layer is ready for the layers below.
LEMMA ArrivedBelow ==
    ASSUME NEW C, NEW g, NEW id, NEW k \in Int, NEW m \in Int, m <= k, NEW at, Arrived(C, g, id, k, at)
    PROVE  Arrived(C, g, id, m, at)
<1>1. 0 .. m \subseteq 0 .. k
  OBVIOUS
<1> QED BY <1>1 DEF Arrived

\* A new node is linked on its layers.
LEMMA LinkKeeps ==
    ASSUME NEW C, Finite(C), NEW g \in GraphSet(C), Linked(g), NEW n \in Nat, n = Len(g.nodes),
           NEW d \in [1 .. n -> Nat], NEW low \in Nat, NEW id \in On(g, low), NEW ep \in Nat,
           Ready(g, id, low, ep)
    PROVE  /\ Link(g, d, id, ep, low) \in GraphSet(C)
           /\ Like(g, Link(g, d, id, ep, low)) /\ Linked(Link(g, d, id, ep, low))
<1> DEFINE v        == [graph |-> g, ep |-> ep]
           Op(x, l) == LinkLayer(x.graph, d, id, l, searchLayer(x.graph, d, x.ep, EfConstr, l))
           q        == Down(low, 0)
           S        == [graph : GraphSet(C), ep : Nat]
           P(u)     == u = [s \in SUBSET DOMAIN q |-> IF s = {} THEN v ELSE Op(u[s \ {Max(s)}], q[Max(s)])]
           h        == CHOOSE u : P(u)
           k        == low + 1
           X        == S \cup {h[s] : s \in SUBSET (1 .. k)}
           step     == [p \in (1 .. k) \X X |-> Op(p[2], q[p[1]])]
           T        == [j \in 0 .. k |-> {x \in S : Arrived(C, g, id, low - j, x)}]
<1>1. Link(g, d, id, ep, low) = h[DOMAIN q].graph
  BY Zenon DEF Link, FoldLeft, MapThenFoldSet
<1>2. \A j \in 1 .. k : \A x \in X : step[<<j, x>>] = Op(x, q[j])
  OBVIOUS
<1>3. S \subseteq X /\ \A s \in SUBSET (1 .. k) : h[s] \in X
  OBVIOUS
<1>4. k \in Nat /\ DOMAIN q = 1 .. k /\ \A j \in 1 .. k : q[j] = low + 1 - j /\ q[j] \in 0 .. low
  <2> HIDE DEF h, X, step, T, v, P, Op, S
  <2> QED BY DEF Down
<1>5. v \in S /\ Arrived(C, g, id, low, v)
  <2> HIDE DEF h, X, step, T, P, Op
  <2>1. v \in S /\ v.graph = g /\ v.ep = ep
    OBVIOUS
  <2>2. Like(g, g)
    BY DEF Like
  <2> HIDE DEF v
  <2> QED BY <2>1, <2>2 DEF Arrived, Ready
<1>6. \A j \in 0 .. k : T[j] = {x \in S : Arrived(C, g, id, low - j, x)}
  OBVIOUS
<1>7. \A s \in SUBSET (1 .. k) : s # {} => Max(s) \in 1 .. k /\ s \ {Max(s)} \in SUBSET (1 .. k)
  BY <1>4, LastPosition
<1> HIDE DEF h, X, step, T, v, Op, q, P
<1>8. ASSUME NEW j \in 1 .. k, NEW x \in S, Arrived(C, g, id, low - (j - 1), x)
      PROVE  Op(x, q[j]) \in S /\ Arrived(C, g, id, low - j, Op(x, q[j]))
  <2>1. PICK l \in 0 .. low : l = q[j] /\ l = low - (j - 1) /\ l - 1 = low - j
    BY <1>4
  <2>2. id \in On(g, l) /\ l \in Nat /\ Arrived(C, g, id, l, x)
    BY <1>8, <2>1, OnBelow
  <2>3. Arrived(C, g, id, l - 1, LinkLayer(x.graph, d, id, l, searchLayer(x.graph, d, x.ep, EfConstr, l)))
    BY <2>2, LinkLayerKeeps
  <2>4. Arrived(C, g, id, low - j, Op(x, q[j]))
    BY <2>1, <2>3 DEF Op
  <2> QED BY <2>4 DEF Arrived
<1> HIDE DEF k
<1>9. Carries(T, v, step, k)
  <2>1. v \in T[0]
    <3>1. low - 0 = low /\ 0 \in 0 .. k
      BY <1>4
    <3> QED BY <1>5, <1>6, <3>1
  <2>2. ASSUME NEW i \in 1 .. k, NEW j \in 1 .. k, i <= j PROVE T[i] \subseteq T[j]
    <3>1. low - i \in Int /\ low - j \in Int /\ low - j <= low - i /\ i \in 0 .. k /\ j \in 0 .. k
      BY <1>4, <2>2
    <3>2. \A x : Arrived(C, g, id, low - i, x) => Arrived(C, g, id, low - j, x)
      BY <3>1, ArrivedBelow
    <3> QED BY <1>6, <3>1, <3>2
  <2>3. ASSUME NEW j \in 1 .. k, NEW x \in T[0] \cup T[j - 1] PROVE step[<<j, x>>] \in T[j]
    <3>1. j \in 0 .. k /\ j - 1 \in 0 .. k /\ 0 \in 0 .. k /\ low - 0 \in Int /\ low - (j - 1) \in Int /\ low - (j - 1) <= low - 0
      BY <1>4
    <3>2. x \in S /\ Arrived(C, g, id, low - (j - 1), x)
      <4>1. CASE x \in T[j - 1]
        BY <1>6, <3>1, <4>1
      <4>2. CASE x \in T[0]
        <5>1. x \in S /\ Arrived(C, g, id, low - 0, x)
          BY <1>6, <3>1, <4>2
        <5> QED BY <3>1, <5>1, ArrivedBelow
      <4> QED BY <4>1, <4>2
    <3>3. Op(x, q[j]) \in S /\ Arrived(C, g, id, low - j, Op(x, q[j]))
      BY <1>8, <3>2
    <3>4. step[<<j, x>>] = Op(x, q[j])
      BY <1>2, <1>3, <3>2
    <3> QED BY <1>6, <3>1, <3>3, <3>4
  <2> QED BY <2>1, <2>2, <2>3 DEF Carries
<1>10. \A s \in SUBSET (1 .. k) : LastOf(s) \in 0 .. k
  <2>1. 0 \in 0 .. k /\ 1 .. k \subseteq 0 .. k
    BY <1>4
  <2> QED BY <1>7, <2>1 DEF LastOf
<1>11. ASSUME NEW f, Folding(f, v, step, k), \A s \in SUBSET (1 .. k) : f[s] \in T[LastOf(s)]
      PROVE  Folding(h, v, step, k)
  <2>f. \A s \in SUBSET (1 .. k) : s # {} => step[<<Max(s), f[s \ {Max(s)}]>>] = Op(f[s \ {Max(s)}], q[Max(s)])
    <3>1. \A s \in SUBSET (1 .. k) : f[s] \in X
      BY <1>3, <1>6, <1>10, <1>11
    <3> QED BY <1>2, <1>7, <3>1
  <2>1. P(f)
    BY <1>4, <1>11, <2>f DEF Folding, P
  <2>2. P(h)
    BY <2>1 DEF h
  <2>3. \A s \in SUBSET (1 .. k) : s # {} => step[<<Max(s), h[s \ {Max(s)}]>>] = Op(h[s \ {Max(s)}], q[Max(s)])
    BY <1>2, <1>3, <1>7
  <2> QED BY <1>4, <2>2, <2>3 DEF Folding, P
<1>12. h[1 .. k] \in T[k]
  BY <1>4, <1>9, <1>11, FoldingCarries
<1>13. PICK x \in S : x = h[1 .. k] /\ Like(g, x.graph) /\ Linked(x.graph)
  <2>1. k \in 0 .. k
    BY <1>4
  <2> QED BY <1>6, <1>12, <2>1 DEF Arrived
<1> QED BY <1>1, <1>4, <1>13

\* Hops on a layer stay on it.
LEMMA HopStays ==
    ASSUME NEW n \in Nat, NEW d \in [1 .. n -> Nat], NEW L \in SUBSET (1 .. n), NEW g, NEW l,
           \A i \in L : g.nodes[i].conns[l] \in Seq(L), NEW i \in L
    PROVE  Hop(g, d, l, i) \in L
<1> DEFINE S == {nb \in Range(g.nodes[i].conns[l]) : d[nb] < d[i]}
<1>1. S \in SUBSET L
  <2>1. PICK c \in Seq(L) : c = g.nodes[i].conns[l]
    OBVIOUS
  <2>2. Range(c) \subseteq L
    BY LenProperties, ElementOfSeq DEF Range
  <2> QED BY <2>1, <2>2
<1>2. S # {} => Nearest(d, S) \in L
  <2>1. S \in SUBSET (1 .. n)
    BY <1>1
  <2> HIDE DEF S
  <2> QED BY <1>1, <2>1, NearestIn
<1>3. Hop(g, d, l, i) = IF S = {} THEN i ELSE Nearest(d, S)
  BY DEF Hop
<1> HIDE DEF S
<1> QED BY <1>2, <1>3

\* The walk down ends at a node that the layers below hold too.
LEMMA DescendStays ==
    ASSUME NEW C, NEW g \in GraphSet(C), Linked(g), NEW n \in Nat, n = Len(g.nodes),
           NEW d \in [1 .. n -> Nat], NEW id, NEW last \in Nat,
           \A l \in 0 .. g.top : Apart(g, id, l) /\ g.entry \in Before(g, id, l)
    PROVE  /\ Descend(g, d, last) \in Nat
           /\ \A l \in 0 .. last : l <= g.top => Descend(g, d, last) \in Before(g, id, l)
<1>0. g.top \in Nat /\ g.entry \in Nat /\ DOMAIN g.nodes = 1 .. n
  BY GraphType
<1>t. PICK top \in Nat : top = g.top
  BY <1>0
<1> DEFINE v        == g.entry
           Op(x, l) == greedyClosest(g, d, x, l)
           q        == Down(g.top, last + 1)
           k        == IF last < top THEN top - last ELSE 0
           lim(j)   == IF j = 0 THEN top ELSE top + 1 - j
           P(u)     == u = [s \in SUBSET DOMAIN q |-> IF s = {} THEN v ELSE Op(u[s \ {Max(s)}], q[Max(s)])]
           h        == CHOOSE u : P(u)
           X        == Nat \cup {h[s] : s \in SUBSET (1 .. k)}
           step     == [p \in (1 .. k) \X X |-> Op(p[2], q[p[1]])]
           T        == [j \in 0 .. k |-> {x \in Nat : \A l \in 0 .. lim(j) : x \in Before(g, id, l)}]
<1>1. Descend(g, d, last) = h[DOMAIN q]
  BY Zenon DEF Descend, FoldLeft, MapThenFoldSet
<1>2. \A j \in 1 .. k : \A x \in X : step[<<j, x>>] = Op(x, q[j])
  OBVIOUS
<1>3. Nat \subseteq X /\ \A s \in SUBSET (1 .. k) : h[s] \in X
  OBVIOUS
<1>4. k \in Nat /\ DOMAIN q = 1 .. k /\ \A j \in 1 .. k : q[j] = top + 1 - j /\ q[j] \in 0 .. top /\ q[j] > last
  <2> HIDE DEF h, X, step, T, v, P, Op
  <2>1. k \in Nat
    OBVIOUS
  <2>2. q = [j \in 1 .. (top - (last + 1) + 1) |-> top + 1 - j]
    BY <1>t DEF Down
  <2>3. 1 .. (top - (last + 1) + 1) = 1 .. k
    OBVIOUS
  <2> HIDE DEF q
  <2> QED BY <2>1, <2>2, <2>3
<1>5. \A j \in 0 .. k : T[j] = {x \in Nat : \A l \in 0 .. lim(j) : x \in Before(g, id, l)}
  OBVIOUS
<1>6. \A s \in SUBSET (1 .. k) : s # {} => Max(s) \in 1 .. k /\ s \ {Max(s)} \in SUBSET (1 .. k)
  BY <1>4, LastPosition
<1>7. k = IF last < top THEN top - last ELSE 0
  OBVIOUS
<1> HIDE DEF h, X, step, T, Op, q, P, k
<1>8. ASSUME NEW l \in 0 .. top, NEW x \in Before(g, id, l) PROVE Op(x, l) \in Before(g, id, l)
  <2>1. PICK L \in SUBSET (1 .. n) : L = Before(g, id, l)
    BY <1>0 DEF Before, On
  <2>2. \A i \in L : g.nodes[i].conns[l] \in Seq(L)
    BY <1>t, <2>1, ApartLinks
  <2>3. \A i \in L : Hop(g, d, l, i) \in L
    BY <2>2, HopStays
  <2>4. greedyClosest(g, d, x, l) \in L
    BY <1>0, <2>1, <2>3, GreedyStays
  <2> QED BY <2>1, <2>4 DEF Op
<1>9. ASSUME NEW l \in 0 .. top, NEW x \in Before(g, id, l)
      PROVE  x \in Nat /\ \A m \in 0 .. l : x \in Before(g, id, m)
  <2>1. x \in Nat
    BY <1>0 DEF Before, On
  <2>2. ASSUME NEW m \in 0 .. l PROVE x \in Before(g, id, m)
    <3>1. On(g, l) \subseteq On(g, m)
      BY OnBelow
    <3> QED BY <3>1 DEF Before
  <2> QED BY <2>1, <2>2
<1>10. Carries(T, v, step, k)
  <2>1. v \in T[0]
    <3>1. lim(0) = top /\ 0 \in 0 .. k
      BY <1>4
    <3> HIDE DEF lim
    <3> QED BY <1>0, <1>5, <1>t, <3>1
  <2>2. ASSUME NEW i \in 1 .. k, NEW j \in 1 .. k, i <= j PROVE T[i] \subseteq T[j]
    <3>1. lim(i) \in Int /\ lim(j) \in Int /\ lim(j) <= lim(i) /\ i \in 0 .. k /\ j \in 0 .. k
      BY <1>4, <2>2
    <3>2. 0 .. lim(j) \subseteq 0 .. lim(i)
      BY <3>1
    <3> HIDE DEF lim
    <3> QED BY <1>5, <3>1, <3>2
  <2>3. ASSUME NEW j \in 1 .. k, NEW x \in T[0] \cup T[j - 1] PROVE step[<<j, x>>] \in T[j]
    <3>1. PICK l \in 0 .. top : l = q[j] /\ lim(j) = l
      <4>1. q[j] \in 0 .. top /\ q[j] = top + 1 - j
        BY <1>4
      <4>2. j # 0
        BY <1>4
      <4>3. lim(j) = top + 1 - j
        BY <4>2
      <4> HIDE DEF lim
      <4> QED BY <4>1, <4>3
    <3>2. l \in 0 .. lim(0) /\ l \in 0 .. lim(j - 1) /\ 0 \in 0 .. k /\ j - 1 \in 0 .. k /\ j \in 0 .. k
      BY <1>4, <3>1
    <3> HIDE DEF lim
    <3>3. x \in Before(g, id, l) /\ x \in Nat
      BY <1>5, <3>2
    <3>4. PICK y \in Before(g, id, l) : y = Op(x, l)
      BY <1>8, <3>3
    <3>5. y \in T[j]
      BY <1>5, <1>9, <3>1, <3>2
    <3> QED BY <1>2, <1>3, <3>1, <3>3, <3>4, <3>5
  <2> QED BY <2>1, <2>2, <2>3 DEF Carries
<1>11. \A s \in SUBSET (1 .. k) : LastOf(s) \in 0 .. k
  <2>1. 0 \in 0 .. k /\ 1 .. k \subseteq 0 .. k
    BY <1>4
  <2> QED BY <1>6, <2>1 DEF LastOf
<1>12. ASSUME NEW f, Folding(f, v, step, k), \A s \in SUBSET (1 .. k) : f[s] \in T[LastOf(s)]
      PROVE  Folding(h, v, step, k)
  <2>f. \A s \in SUBSET (1 .. k) : s # {} => step[<<Max(s), f[s \ {Max(s)}]>>] = Op(f[s \ {Max(s)}], q[Max(s)])
    <3>1. \A s \in SUBSET (1 .. k) : f[s] \in X
      BY <1>3, <1>5, <1>11, <1>12
    <3> QED BY <1>2, <1>6, <3>1
  <2>1. P(f)
    BY <1>4, <1>12, <2>f DEF Folding, P
  <2>2. P(h)
    BY <2>1 DEF h
  <2>3. \A s \in SUBSET (1 .. k) : s # {} => step[<<Max(s), h[s \ {Max(s)}]>>] = Op(h[s \ {Max(s)}], q[Max(s)])
    BY <1>2, <1>3, <1>6
  <2> QED BY <1>4, <2>2, <2>3 DEF Folding, P
<1>13. h[1 .. k] \in T[k]
  BY <1>4, <1>10, <1>12, FoldingCarries
<1>14. k \in 0 .. k /\ \A l \in 0 .. last : l <= top => l \in 0 .. lim(k)
  BY <1>4, <1>7
<1> HIDE DEF lim
<1> QED BY <1>1, <1>4, <1>5, <1>13, <1>14, <1>t

\* The larger and the smaller of two numbers.
LEMMA OfTwo ==
    ASSUME NEW a \in Nat, NEW b \in Nat
    PROVE  /\ Max({a, b}) = IF a < b THEN b ELSE a
           /\ Min({a, b}) = IF a < b THEN a ELSE b
<1>1. PICK m \in {a, b} : m = (IF a < b THEN b ELSE a) /\ \A y \in {a, b} : m >= y
  OBVIOUS
<1>2. Max({a, b}) = m
  <2>1. \A x \in {a, b} : (\A y \in {a, b} : x >= y) => x = m
    BY <1>1
  <2>2. Max({a, b}) \in {a, b} /\ \A y \in {a, b} : Max({a, b}) >= y
    BY <1>1 DEF Max
  <2> QED BY <2>1, <2>2
<1>3. PICK w \in {a, b} : w = (IF a < b THEN a ELSE b) /\ \A y \in {a, b} : w <= y
  OBVIOUS
<1>4. Min({a, b}) = w
  <2>1. \A x \in {a, b} : (\A y \in {a, b} : x <= y) => x = w
    BY <1>3
  <2>2. Min({a, b}) \in {a, b} /\ \A y \in {a, b} : Min({a, b}) <= y
    BY <1>3 DEF Min
  <2> QED BY <2>1, <2>2
<1> QED BY <1>1, <1>2, <1>3, <1>4

\* A graph that can be searched and added to.
Whole(g) ==
    /\ Linked(g)
    /\ \A i \in DOMAIN g.nodes : \A l \in DOMAIN g.nodes[i].conns : l <= g.top
    /\ (g.entry = 0) <=> (g.nodes = <<>>)
    /\ g.entry = 0 => g.top = 0
    /\ g.entry # 0 => g.entry \in On(g, g.top)

LEMMA WholeNavigable ==
    ASSUME NEW g, Whole(g)
    PROVE  Navigable(g)
BY DEF Whole, Linked, On, Navigable

LEMMA EmptyWhole ==
    ASSUME NEW C
    PROVE  EmptyGraph \in GraphSet(C) /\ Whole(EmptyGraph) /\ DOMAIN EmptyGraph.nodes = {}
<1>0. PICK N : N = NodeSet(C)
  OBVIOUS
<1>1. PICK e \in Seq(N) : e = <<>> /\ Len(e) = 0 /\ DOMAIN e = {}
  <2>1. <<>> \in Seq(N) /\ Len(<<>>) = 0 /\ DOMAIN <<>> = {}
    BY EmptySeq
  <2> QED BY <2>1
<1>2. EmptyGraph = [nodes |-> e, entry |-> 0, top |-> 0]
  BY <1>1 DEF EmptyGraph
<1>3. EmptyGraph \in GraphSet(C) /\ EmptyGraph.nodes = e /\ EmptyGraph.entry = 0 /\ EmptyGraph.top = 0
  BY <1>0, <1>2 DEF GraphSet
<1> QED BY <1>1, <1>3 DEF Whole, Linked

\* A graph with a new node of which nothing is linked.
Unlinked(g, vid, code, layer) ==
    [g EXCEPT !.nodes = Append(@, [vid |-> vid, code |-> code, conns |-> [l \in 0..layer |-> <<>>]])]

\* What it is: g with one node more, apart from the others.
Extended(C, g, vid, layer, n, id, a) ==
    /\ a \in GraphSet(C) /\ Linked(a) /\ Len(a.nodes) = id /\ DOMAIN a.nodes = 1 .. id
    /\ a.entry = g.entry /\ a.top = g.top
    /\ \A i \in 1 .. n : a.nodes[i] = g.nodes[i]
    /\ a.nodes[id].vid = vid /\ DOMAIN a.nodes[id].conns = 0 .. layer
    /\ \A l : Apart(a, id, l) /\ Before(a, id, l) = On(g, l)

LEMMA UnlinkedOf ==
    ASSUME NEW C, NEW g \in GraphSet(C), Linked(g), NEW vid \in Nat, NEW code \in C, NEW layer \in Nat,
           NEW n \in Nat, n = Len(g.nodes), NEW id \in Nat, id = n + 1,
           NEW a, a = Unlinked(g, vid, code, layer)
    PROVE  Extended(C, g, vid, layer, n, id, a)
<1>1. PICK empty \in Seq(Nat) : empty = <<>> /\ Len(empty) = 0 /\ DOMAIN empty = {}
  <2>1. <<>> \in Seq(Nat) /\ Len(<<>>) = 0 /\ DOMAIN <<>> = {}
    BY EmptySeq
  <2> QED BY <2>1
<1>2. PICK cs \in [0 .. layer -> Seq(Nat)] : cs = [l \in 0 .. layer |-> <<>>] /\ \A l \in 0 .. layer : cs[l] = empty
  <2>1. [l \in 0 .. layer |-> empty] \in [0 .. layer -> Seq(Nat)]
    OBVIOUS
  <2> QED BY <1>1, <2>1
<1>3. cs \in Conns
  BY <1>2 DEF Conns
<1>4. PICK N : N = NodeSet(C)
  OBVIOUS
<1>x. PICK x : x = [vid |-> vid, code |-> code, conns |-> cs]
  OBVIOUS
<1>5. x \in N /\ x.vid = vid /\ x.code = code /\ x.conns = cs
  BY <1>3, <1>4, <1>x DEF NodeSet
<1>6. PICK s \in Seq(N) : s = g.nodes /\ Len(s) = n /\ DOMAIN s = 1 .. n
  BY <1>4, GraphType DEF GraphSet
<1>7. PICK t \in Seq(N) : t = Append(s, x)
  BY <1>5, AppendProperties
<1>8. Len(t) = id /\ DOMAIN t = 1 .. id /\ t[id] = x /\ \A i \in 1 .. n : t[i] = s[i]
  BY <1>5, <1>6, <1>7, AppendProperties, LenProperties
<1>9. g.entry \in Nat /\ g.top \in Nat /\ g = [nodes |-> g.nodes, entry |-> g.entry, top |-> g.top]
  BY DEF GraphSet
<1>10. a = [g EXCEPT !.nodes = t]
  BY <1>2, <1>x, <1>6, <1>7 DEF Unlinked
<1>11. a = [nodes |-> t, entry |-> g.entry, top |-> g.top] /\ a.nodes = t /\ a.entry = g.entry /\ a.top = g.top
  BY <1>9, <1>10
<1>12. a \in GraphSet(C)
  BY <1>4, <1>9, <1>11 DEF GraphSet
<1>13. \A l : On(g, l) \subseteq 1 .. n /\ Before(a, id, l) = On(g, l)
  BY <1>6, <1>8, <1>11 DEF On, Before
<1>14. \A i \in 1 .. n : \A l \in DOMAIN g.nodes[i].conns :
          \A nb \in Range(g.nodes[i].conns[l]) : nb # i /\ nb \in On(g, l) /\ nb # id /\ nb \in On(a, l)
  BY <1>6, <1>13 DEF Linked, Before
<1>15. \A l : Apart(a, id, l)
  <2> SUFFICES ASSUME NEW l, NEW i \in Before(a, id, l), NEW nb \in Range(a.nodes[i].conns[l])
               PROVE  nb # id
    BY DEF Apart
  <2>1. i \in On(g, l) /\ i \in 1 .. n /\ l \in DOMAIN g.nodes[i].conns
    BY <1>13 DEF On
  <2>2. a.nodes[i].conns[l] = g.nodes[i].conns[l]
    BY <1>6, <1>8, <1>11, <2>1
  <2> QED BY <1>14, <2>1, <2>2
<1>16. \A l \in 0 .. layer : MaxLinks(l) >= 0
  BY MaxLinksType
<1>17. Linked(a)
  <2> SUFFICES ASSUME NEW i \in 1 .. id, NEW l \in DOMAIN a.nodes[i].conns
               PROVE  /\ Len(a.nodes[i].conns[l]) <= MaxLinks(l)
                      /\ \A nb \in Range(a.nodes[i].conns[l]) : nb # i /\ nb \in On(a, l)
    BY <1>8, <1>11 DEF Linked
  <2>1. CASE i = id
    <3>1. a.nodes[i].conns[l] = empty /\ l \in 0 .. layer
      <4>1. a.nodes[i] = x
        BY <1>8, <1>11, <2>1
      <4>2. a.nodes[i].conns = cs
        BY <1>5, <4>1
      <4> QED BY <1>2, <4>2
    <3> QED BY <1>1, <1>16, <3>1 DEF Range
  <2>2. CASE i \in 1 .. n
    <3>1. a.nodes[i].conns = g.nodes[i].conns
      BY <1>6, <1>8, <1>11, <2>2
    <3>2. Len(g.nodes[i].conns[l]) <= MaxLinks(l)
      BY <1>6, <2>2, <3>1 DEF Linked
    <3> QED BY <1>14, <2>2, <3>1, <3>2
  <2>3. i = id \/ i \in 1 .. n
    BY LastOne
  <2> QED BY <2>1, <2>2, <2>3
<1> QED BY <1>2, <1>5, <1>6, <1>8, <1>11, <1>12, <1>13, <1>15, <1>17 DEF Extended

\* A graph that is another but for its links.
Relinked(C, a, b) == b \in GraphSet(C) /\ Like(a, b) /\ Linked(b)

\* The links of a new node, when there is a graph to link it to.
LEMMA LinkedIn ==
    ASSUME NEW C, Finite(C), NEW g \in GraphSet(C), Whole(g), NEW vid \in Nat, NEW code \in C,
           NEW layer \in Nat, NEW n \in Nat, n = Len(g.nodes), NEW id \in Nat, id = n + 1, g.entry # 0,
           NEW a, a = Unlinked(g, vid, code, layer), NEW d \in [1 .. id -> Nat],
           NEW first, first = Descend(a, d, layer), NEW lowest, lowest = Min({layer, g.top})
    PROVE  Relinked(C, a, Link(a, d, id, first, lowest))
<1>0. Linked(g)
  BY DEF Whole
<1>1. PICK top \in Nat : top = g.top
  BY GraphType
<1>2. /\ a \in GraphSet(C) /\ Linked(a) /\ Len(a.nodes) = id /\ DOMAIN a.nodes = 1 .. id
      /\ a.entry = g.entry /\ a.top = top /\ DOMAIN a.nodes[id].conns = 0 .. layer
      /\ \A l : Apart(a, id, l) /\ Before(a, id, l) = On(g, l)
  <2>1. Extended(C, g, vid, layer, n, id, a)
    BY <1>0, UnlinkedOf
  <2> QED BY <1>1, <2>1 DEF Extended
<1>3. \A l \in 0 .. top : Apart(a, id, l) /\ a.entry \in Before(a, id, l)
  <2>1. g.entry \in On(g, top)
    BY <1>1 DEF Whole
  <2> QED BY <1>2, <2>1, OnBelow
<1>4. PICK ep \in Nat : ep = Descend(a, d, layer) /\ \A l \in 0 .. layer : l <= top => ep \in Before(a, id, l)
  <2> HIDE DEF Whole
  <2> QED BY <1>2, <1>3, DescendStays
<1>5. PICK low \in Nat : low = Min({layer, top}) /\ low <= layer /\ low <= top
  <2>1. Min({layer, top}) = IF layer < top THEN layer ELSE top
    BY OfTwo
  <2>2. PICK m : m = Min({layer, top})
    OBVIOUS
  <2> QED BY <2>1, <2>2
<1>6. Ready(a, id, low, ep)
  BY <1>2, <1>4, <1>5 DEF Ready
<1>7. id \in On(a, low)
  <2>1. low \in 0 .. layer /\ id \in 1 .. id
    BY <1>5
  <2> QED BY <1>2, <2>1 DEF On
<1> HIDE DEF Whole
<1>8. first = ep /\ lowest = low
  BY <1>1, <1>4, <1>5
<1>9. a \in GraphSet(C) /\ Linked(a) /\ id = Len(a.nodes)
  BY <1>2
<1> QED BY <1>6, <1>7, <1>8, <1>9, LinkKeeps DEF Relinked

\* A whole graph of one node more than another: the nodes keep their places and
\* what they stand for, and the new one is the last.
Grew(C, g, h, vid, n, id) ==
    /\ h \in GraphSet(C) /\ Whole(h) /\ DOMAIN h.nodes = 1 .. id
    /\ \A i \in 1 .. n : h.nodes[i].vid = g.nodes[i].vid
    /\ h.nodes[id].vid = vid

\* A node is inserted.
LEMMA InsertWhole ==
    ASSUME NEW C, Finite(C), NEW g \in GraphSet(C), Whole(g), NEW vid \in Nat, NEW code \in C,
           NEW layer \in Nat, NEW n \in Nat, n = Len(g.nodes), NEW id \in Nat, id = n + 1
    PROVE  Grew(C, g, insert(g, vid, code, layer), vid, n, id)
<1>1. PICK top \in Nat, entry \in Nat : top = g.top /\ entry = g.entry /\ DOMAIN g.nodes = 1 .. n
  BY GraphType
<1>0. Linked(g)
  BY DEF Whole
<1>2. PICK a : a = Unlinked(g, vid, code, layer)
  OBVIOUS
<1>3. /\ a \in GraphSet(C) /\ Linked(a) /\ Len(a.nodes) = id /\ DOMAIN a.nodes = 1 .. id
      /\ a.entry = entry /\ a.top = top
      /\ \A i \in 1 .. n : a.nodes[i] = g.nodes[i]
      /\ a.nodes[id].vid = vid /\ DOMAIN a.nodes[id].conns = 0 .. layer
  <2>1. Extended(C, g, vid, layer, n, id, a)
    BY <1>0, <1>2, UnlinkedOf
  <2> QED BY <1>1, <2>1 DEF Extended
<1>4. PICK d \in [1 .. id -> Nat] : d = Append(Distances(g, code), 0)
  <2>1. PICK e \in [1 .. n -> Nat] : e = Distances(g, code)
    BY DistancesType
  <2>2. e \in Seq(Nat) /\ Len(e) = n
    OBVIOUS
  <2>3. PICK f \in Seq(Nat) : f = Append(e, 0) /\ Len(f) = id
    <3>1. 0 \in Nat
      OBVIOUS
    <3>2. Append(e, 0) \in Seq(Nat) /\ Len(Append(e, 0)) = Len(e) + 1
      BY <2>2, <3>1, AppendProperties
    <3> QED BY <2>2, <3>2
  <2>4. f \in [1 .. id -> Nat]
    BY <2>3, LenProperties, ElementOfSeq
  <2> QED BY <2>1, <2>3, <2>4
<1>5. PICK b : b = IF entry = 0 THEN a ELSE Link(a, d, id, Descend(a, d, layer), Min({layer, g.top}))
  OBVIOUS
<1>6. b \in GraphSet(C) /\ Like(a, b) /\ Linked(b)
  <2>1. Like(a, a)
    BY DEF Like
  <2>2. CASE entry = 0
    BY <1>3, <1>5, <2>1, <2>2
  <2>3. CASE entry # 0
    <3>1. PICK first, lowest : first = Descend(a, d, layer) /\ lowest = Min({layer, g.top})
      OBVIOUS
    <3>2. g.entry # 0 /\ b = Link(a, d, id, first, lowest)
      BY <1>1, <1>5, <2>3, <3>1
    <3>3. Relinked(C, a, Link(a, d, id, first, lowest))
      BY <1>2, <3>1, <3>2, LinkedIn
    <3> QED BY <3>2, <3>3 DEF Relinked
  <2> QED BY <2>2, <2>3
<1>7. PICK t \in Nat : t = IF layer < top THEN top ELSE layer
  OBVIOUS
<1>8. PICK e \in Nat : e = IF entry = 0 \/ layer > top THEN id ELSE entry
  OBVIOUS
<1>9. PICK s \in Seq(NodeSet(C)) : s = b.nodes
  BY <1>6 DEF GraphSet
<1>10. b.entry = entry /\ b.top = top /\ b = [nodes |-> s, entry |-> entry, top |-> top]
  BY <1>3, <1>6, <1>9 DEF GraphSet, Like
<1>11. PICK f : f = [nodes |-> s, entry |-> e, top |-> t]
  OBVIOUS
<1>12. insert(g, vid, code, layer) = f
  <2>1. insert(g, vid, code, layer) =
            [b EXCEPT !.entry = IF g.entry = 0 \/ layer > g.top THEN id ELSE @, !.top = Max({layer, @})]
    BY <1>1, <1>2, <1>4, <1>5 DEF insert, Unlinked
  <2>2. Max({layer, b.top}) = t
    BY <1>7, <1>10, OfTwo
  <2>m. PICK m : m = Max({layer, b.top})
    OBVIOUS
  <2>3. [b EXCEPT !.entry = IF g.entry = 0 \/ layer > g.top THEN id ELSE @, !.top = Max({layer, @})]
            = [nodes |-> s, entry |-> e, top |-> t]
    <3>1. [b EXCEPT !.entry = IF g.entry = 0 \/ layer > g.top THEN id ELSE @, !.top = Max({layer, @})]
            = [b EXCEPT !.entry = e, !.top = m]
      BY <1>1, <1>8, <1>10, <2>m
    <3>2. m = t
      BY <2>2, <2>m
    <3>3. PICK r : r = [b EXCEPT !.entry = e, !.top = m]
      OBVIOUS
    <3>4. r = [nodes |-> s, entry |-> e, top |-> t]
      <4>1. r = [[nodes |-> s, entry |-> entry, top |-> top] EXCEPT !.entry = e, !.top = t]
        BY <1>10, <3>2, <3>3
      <4> QED BY <4>1
    <3> QED BY <3>1, <3>3, <3>4
  <2> QED BY <1>11, <2>1, <2>3
<1>13. f \in GraphSet(C) /\ f.nodes = b.nodes /\ f.entry = e /\ f.top = t
  BY <1>9, <1>11 DEF GraphSet
<1>14. /\ DOMAIN f.nodes = 1 .. id
       /\ \A i \in 1 .. id : f.nodes[i].vid = a.nodes[i].vid /\ DOMAIN f.nodes[i].conns = DOMAIN a.nodes[i].conns
  BY <1>3, <1>6, <1>13 DEF Like
<1>15. \A l : On(f, l) = On(b, l) /\ On(f, l) = On(a, l)
  BY <1>6, <1>13 DEF On, Like
<1>16. Linked(f)
  BY <1>6, <1>13, <1>15 DEF Linked
<1>17. \A i \in DOMAIN f.nodes : \A l \in DOMAIN f.nodes[i].conns : l <= f.top
  <2> SUFFICES ASSUME NEW i \in 1 .. id, NEW l \in DOMAIN a.nodes[i].conns PROVE l <= t
    BY <1>13, <1>14
  <2>1. CASE i = id
    BY <1>3, <1>7, <2>1
  <2>2. CASE i \in 1 .. n
    <3>1. l \in DOMAIN g.nodes[i].conns
      BY <1>3, <2>2
    <3>2. l <= top
      BY <1>1, <2>2, <3>1 DEF Whole
    <3>3. l \in Nat
      <4>1. PICK k \in Nat : DOMAIN g.nodes[i].conns = 0 .. k
        BY <1>1, <2>2, GraphType
      <4> QED BY <3>1, <4>1
    <3> QED BY <1>7, <3>2, <3>3
  <2>3. i = id \/ i \in 1 .. n
    OBVIOUS
  <2> QED BY <2>1, <2>2, <2>3
<1>18. f.entry # 0 /\ f.nodes # <<>>
  <2>1. e # 0
    BY <1>8
  <2>2. 1 \in DOMAIN f.nodes
    BY <1>14
  <2> QED BY <1>13, <2>1, <2>2
<1>19. f.entry \in On(f, f.top)
  <2>1. CASE entry = 0 \/ layer > top
    <3>1. e = id /\ t = layer
      <4>1. entry = 0 => top = 0
        BY <1>1 DEF Whole
      <4> QED BY <1>7, <1>8, <2>1, <4>1
    <3>2. id \in On(a, layer)
      BY <1>3 DEF On
    <3> QED BY <1>13, <1>15, <3>1, <3>2
  <2>2. CASE ~(entry = 0 \/ layer > top)
    <3>1. e = entry /\ t = top
      BY <1>7, <1>8, <2>2
    <3>2. entry \in On(g, top)
      BY <1>1, <2>2 DEF Whole
    <3>3. entry \in On(a, top)
      <4>1. entry \in 1 .. n /\ top \in DOMAIN g.nodes[entry].conns
        BY <1>1, <3>2 DEF On
      <4>2. entry \in 1 .. id /\ a.nodes[entry] = g.nodes[entry]
        BY <1>3, <4>1
      <4> QED BY <1>3, <4>1, <4>2 DEF On
    <3> QED BY <1>13, <1>15, <3>1, <3>3
  <2> QED BY <2>1, <2>2
<1>20. Whole(f)
  BY <1>16, <1>17, <1>18, <1>19 DEF Whole
<1>21. (\A i \in 1 .. n : f.nodes[i].vid = g.nodes[i].vid) /\ f.nodes[id].vid = vid
  <2>1. \A i \in 1 .. n : i \in 1 .. id
    OBVIOUS
  <2>2. id \in 1 .. id
    OBVIOUS
  <2> QED BY <1>3, <1>14, <2>1, <2>2
<1> QED BY <1>12, <1>13, <1>14, <1>20, <1>21 DEF Grew

-----------------------------------------------------------------------------
(* Chunking.                                                                *)

\* A function of the offsets that goes on at a later one until it stops.
Onward(f, here, next, last) ==
    f = [i \in Nat |-> IF last[i] THEN here[i] ELSE here[i] \o f[next[i]]]

\* From an offset on there is nothing to go on to.
Bounded(next, last, n) == \A i \in Nat : (i >= n => last[i]) /\ (last[i] \/ next[i] > i)

LEMMA OnwardExists ==
    ASSUME NEW n \in Nat, NEW here, NEW next \in [Nat -> Nat], NEW last, Bounded(next, last, n)
    PROVE  \E f : Onward(f, here, next, last)
<1> DEFINE Val(f, i)  == IF last[i] THEN here[i] ELSE here[i] \o f[next[i]]
           Good(k, f) == f = [i \in Nat |-> f[i]] /\ \A i \in Nat : i + k >= n => f[i] = Val(f, i)
           W == {k \in Nat : \E f : Good(k, f)}
<1>1. 0 \in W
  <2>1. PICK f : f = [i \in Nat |-> here[i]]
    OBVIOUS
  <2>2. \A i \in Nat : i + 0 >= n => f[i] = Val(f, i)
    BY <2>1 DEF Bounded
  <2>3. Good(0, f)
    BY <2>1, <2>2
  <2> QED BY <2>3
<1>2. ASSUME NEW k \in Nat, k \in W PROVE k + 1 \in W
  <2>1. PICK f : Good(k, f)
    BY <1>2
  <2>2. PICK j \in Int : j = n - (k + 1)
    OBVIOUS
  <2>3. PICK g : g = [i \in Nat |-> IF i = j THEN Val(f, i) ELSE f[i]]
    OBVIOUS
  <2>4. ASSUME NEW i \in Nat, i + (k + 1) >= n PROVE g[i] = Val(g, i)
    <3>1. CASE last[i]
      <4>1. i # j => i + k >= n
        BY <2>2, <2>4
      <4>2. g[i] = Val(f, i)
        BY <2>1, <2>3, <4>1
      <4> QED BY <3>1, <4>2
    <3>2. CASE ~last[i]
      <4>1. PICK q \in Nat : q = next[i] /\ q > i
        BY <3>2 DEF Bounded
      <4>2. q # j
        BY <2>2, <2>4, <4>1
      <4> HIDE DEF Val
      <4>3. g[q] = f[q]
        BY <2>3, <4>2
      <4>4. Val(g, i) = Val(f, i)
        BY <4>1, <4>3 DEF Val
      <4>5. i # j => i + k >= n
        BY <2>2, <2>4
      <4>6. g[i] = Val(f, i)
        BY <2>1, <2>3, <4>5
      <4> QED BY <4>4, <4>6
    <3> QED BY <3>1, <3>2
  <2>5. g = [i \in Nat |-> g[i]]
    BY <2>3
  <2> HIDE DEF Val
  <2>6. Good(k + 1, g)
    BY <2>4, <2>5
  <2> QED BY <2>6
<1>3. n \in W
  <2> HIDE DEF W
  <2>1. Nat \subseteq W
    BY <1>1, <1>2, NatSet
  <2> QED BY <2>1
<1> HIDE DEF Val
<1>4. PICK f : f = [i \in Nat |-> f[i]] /\ \A i \in Nat : i + n >= n => f[i] = Val(f, i)
  BY <1>3
<1>5. \A i \in Nat : f[i] = Val(f, i)
  <2>1. \A i \in Nat : i + n >= n
    OBVIOUS
  <2> QED BY <1>4, <2>1
<1>6. f = [i \in Nat |-> Val(f, i)]
  BY <1>4, <1>5
<1> QED BY <1>6 DEF Onward, Val

LEMMA OnwardType ==
    ASSUME NEW n \in Nat, NEW R, NEW here \in [Nat -> Seq(R)], NEW next \in [Nat -> Nat], NEW last,
           Bounded(next, last, n), NEW f, Onward(f, here, next, last)
    PROVE  f[0] \in Seq(R)
<1> DEFINE W == {k \in Nat : \A i \in Nat : i + k >= n => f[i] \in Seq(R)}
<1>1. \A i \in Nat : f[i] = IF last[i] THEN here[i] ELSE here[i] \o f[next[i]]
  BY DEF Onward
<1>2. 0 \in W
  <2>1. \A i \in Nat : i + 0 >= n => f[i] \in Seq(R)
    <3> TAKE i \in Nat
    <3>1. i + 0 >= n => last[i]
      BY DEF Bounded
    <3> QED BY <1>1, <3>1
  <2> QED BY <2>1
<1>3. ASSUME NEW k \in Nat, k \in W PROVE k + 1 \in W
  <2> SUFFICES ASSUME NEW i \in Nat, i + (k + 1) >= n PROVE f[i] \in Seq(R)
    OBVIOUS
  <2>1. CASE last[i]
    BY <1>1, <2>1
  <2>2. CASE ~last[i]
    <3>1. next[i] \in Nat /\ next[i] > i
      BY <2>2 DEF Bounded
    <3>2. next[i] + k >= n
      BY <3>1
    <3>3. f[next[i]] \in Seq(R)
      BY <1>3, <3>1, <3>2
    <3>4. here[i] \o f[next[i]] \in Seq(R)
      BY <3>3, ConcatProperties
    <3> QED BY <1>1, <2>2, <3>4
  <2> QED BY <2>1, <2>2
<1>4. n \in W
  <2> HIDE DEF W
  <2>1. Nat \subseteq W
    BY <1>2, <1>3, NatSet
  <2> QED BY <2>1
<1> QED BY <1>4

\* The greater of two.
LEMMA Greater ==
    ASSUME NEW a \in Int, NEW b \in Int
    PROVE  Max({a, b}) \in Int /\ Max({a, b}) >= a /\ Max({a, b}) >= b /\ Max({a, b}) \in {a, b}
<1>1. \E x \in {a, b} : \A y \in {a, b} : x >= y
  <2>1. CASE a >= b
    BY <2>1
  <2>2. CASE b >= a
    BY <2>2
  <2> QED BY <2>1, <2>2
<1>2. PICK x : x = Max({a, b})
  OBVIOUS
<1>3. x \in {a, b} /\ \A y \in {a, b} : x >= y
  BY <1>1, <1>2 DEF Max
<1> QED BY <1>2, <1>3

LEMMA FirstPosition ==
    ASSUME NEW n \in Nat, NEW s \in SUBSET (1 .. n), s # {}
    PROVE  Min(s) \in s
<1>1. s \in SUBSET Nat
  OBVIOUS
<1>2. PICK x \in s : \A y \in s : x <= y
  BY <1>1, LeastNat
<1> QED BY <1>2 DEF Min

\* A window ends at an offset.
LEMMA BoundaryType ==
    ASSUME NEW text, NEW start \in Nat, NEW maxEnd \in Nat, NEW window \in Nat
    PROVE  findBoundary(text, start, maxEnd, window) \in Nat
<1> DEFINE minEnd    == Max({maxEnd - window, start})
           ends(p)   == {e \in minEnd + Len(p) .. maxEnd : SubSeq(text, e - Len(p) + 1, e) = p}
           breaks    == <<ends(<<"\n", "\n">>), ends(<<"\n">>), ends(<<".", " ">>), ends(<<" ">>)>>
           I         == {i \in 1 .. Len(breaks) : breaks[i] # {}}
           strongest == IF I # {} THEN Min(I) ELSE 0
<1>1. findBoundary(text, start, maxEnd, window) = IF strongest = 0 THEN maxEnd ELSE Max(breaks[strongest])
  BY Zenon DEF findBoundary, SelectInSeq
<1>2. minEnd \in Nat
  <2>1. maxEnd - window \in Int /\ start \in Int
    OBVIOUS
  <2> QED BY <2>1, Greater
<1> HIDE DEF minEnd
<1>3. ASSUME NEW p, Len(p) \in {1, 2} PROVE ends(p) \in SUBSET (1 .. maxEnd)
  <2>1. PICK k \in {1, 2} : k = Len(p)
    BY <1>3
  <2>2. minEnd + k .. maxEnd \subseteq 1 .. maxEnd
    BY <1>2
  <2> QED BY <2>1, <2>2
<1>4. \A x, y : Len(<<x>>) \in {1, 2} /\ Len(<<x, y>>) \in {1, 2}
  OBVIOUS
<1>5. PICK p1, p2, p3, p4 :
        /\ p1 = <<"\n", "\n">> /\ p2 = <<"\n">> /\ p3 = <<".", " ">> /\ p4 = <<" ">>
        /\ Len(p1) \in {1, 2} /\ Len(p2) \in {1, 2} /\ Len(p3) \in {1, 2} /\ Len(p4) \in {1, 2}
  BY <1>4, Zenon
<1>6. /\ Len(breaks) = 4 /\ DOMAIN breaks = 1 .. 4
      /\ \A i \in 1 .. 4 : breaks[i] \in SUBSET (1 .. maxEnd)
  <2> HIDE DEF ends
  <2>1. breaks = <<ends(p1), ends(p2), ends(p3), ends(p4)>>
    BY <1>5, Zenon
  <2>2. PICK b1 \in SUBSET (1 .. maxEnd), b2 \in SUBSET (1 .. maxEnd),
             b3 \in SUBSET (1 .. maxEnd), b4 \in SUBSET (1 .. maxEnd) :
               b1 = ends(p1) /\ b2 = ends(p2) /\ b3 = ends(p3) /\ b4 = ends(p4)
    <3>1. /\ ends(p1) \in SUBSET (1 .. maxEnd) /\ ends(p2) \in SUBSET (1 .. maxEnd)
          /\ ends(p3) \in SUBSET (1 .. maxEnd) /\ ends(p4) \in SUBSET (1 .. maxEnd)
      <4>1. Len(p1) \in {1, 2} /\ Len(p2) \in {1, 2} /\ Len(p3) \in {1, 2} /\ Len(p4) \in {1, 2}
        BY <1>5, Zenon
      <4> QED BY <1>3, <4>1
    <3> QED BY <3>1, Zenon
  <2> HIDE DEF breaks
  <2>3. breaks = <<b1, b2, b3, b4>>
    BY <2>1, <2>2
  <2>4. /\ Len(breaks) = 4 /\ DOMAIN breaks = 1 .. 4
        /\ breaks[1] = b1 /\ breaks[2] = b2 /\ breaks[3] = b3 /\ breaks[4] = b4
    BY <2>3
  <2>5. \A i \in 1 .. 4 : i = 1 \/ i = 2 \/ i = 3 \/ i = 4
    OBVIOUS
  <2> QED BY <2>4, <2>5
<1> HIDE DEF breaks
<1>7. strongest # 0 => strongest \in 1 .. 4 /\ breaks[strongest] # {}
  <2>1. I \in SUBSET (1 .. 4)
    BY <1>6
  <2>2. I # {} => Min(I) \in I
    <3> HIDE DEF I
    <3> QED BY <2>1, FirstPosition
  <2> QED BY <2>1, <2>2
<1> HIDE DEF strongest
<1>8. strongest # 0 => Max(breaks[strongest]) \in 1 .. maxEnd
  BY <1>6, <1>7, LastPosition
<1> QED BY <1>1, <1>8

LEMMA TrimType ==
    ASSUME NEW S, NEW text \in Seq(S)
    PROVE  TrimSpace(text) \in Seq(S)
<1> DEFINE solid == {i \in DOMAIN text : text[i] \notin {" ", "\n"}}
<1>1. PICK n \in Nat : n = Len(text) /\ DOMAIN text = 1 .. n
  BY LenProperties
<1>2. TrimSpace(text) = IF solid = {} THEN <<>> ELSE SubSeq(text, Min(solid), Max(solid))
  BY DEF TrimSpace
<1>3. solid \in SUBSET (1 .. n)
  BY <1>1
<1> HIDE DEF solid
<1>4. CASE solid = {}
  BY <1>2, <1>4, EmptySeq
<1>5. CASE solid # {}
  <2>1. PICK a \in 1 .. n, b \in 1 .. n : a = Min(solid) /\ b = Max(solid)
    BY <1>3, <1>5, FirstPosition, LastPosition
  <2>2. \A i \in a .. b : text[i] \in S
    BY <1>1, ElementOfSeq
  <2>3. SubSeq(text, a, b) \in Seq(S)
    BY <2>2, SubSeqProperties
  <2> QED BY <1>2, <1>5, <2>1, <2>3
<1> QED BY <1>4, <1>5

Pieces == [start : Nat, end : Nat]

\* The cutting of a text comes to its end: each chunk begins after the one before.
LEMMA FromType ==
    ASSUME NEW S, NEW text \in Seq(S), NEW max \in Nat, NEW overlap \in Nat
    PROVE  From(text, max, overlap) \in Seq(Pieces)
<1> DEFINE End(i)  == IF i + max >= Len(text) THEN Len(text) ELSE findBoundary(text, i, i + max, max \div 2)
           Here(i) == IF Blank(SubSeq(text, i + 1, End(i))) THEN <<>> ELSE <<[start |-> i, end |-> End(i)]>>
           After(i) == Max({End(i) - overlap, i + 1})
           P(f) == f = [i \in Nat |-> IF End(i) >= Len(text) THEN Here(i) ELSE Here(i) \o f[After(i)]]
           h    == CHOOSE f : P(f)
           here == [i \in Nat |-> Here(i)]
           next == [i \in Nat |-> After(i)]
           last == [i \in Nat |-> End(i) >= Len(text)]
<1>1. From(text, max, overlap) = h[0]
  BY Zenon DEF From
<1>2. PICK n \in Nat : n = Len(text)
  BY LenProperties
<1>3. \A i \in Nat : End(i) \in Nat
  <2>1. \A i \in Nat : i + max \in Nat /\ max \div 2 \in Nat
    OBVIOUS
  <2> QED BY <1>2, <2>1, BoundaryType
<1>4. \A i \in Nat : i >= n => End(i) >= n
  BY <1>2
<1> HIDE DEF End
<1>5. \A i \in Nat : Here(i) \in Seq(Pieces)
  <2> TAKE i \in Nat
  <2>1. PICK c \in Pieces : c = [start |-> i, end |-> End(i)]
    BY <1>3 DEF Pieces
  <2>2. <<c>> \in Seq(Pieces) /\ <<>> \in Seq(Pieces)
    BY EmptySeq
  <2> QED BY <2>1, <2>2
<1>6. \A i \in Nat : After(i) \in Nat /\ After(i) > i
  <2> TAKE i \in Nat
  <2>1. PICK a \in Int, b \in Int : a = End(i) - overlap /\ b = i + 1
    BY <1>3
  <2>2. Max({a, b}) \in Int /\ Max({a, b}) >= b
    BY <2>1, Greater
  <2> QED BY <2>1, <2>2
<1> HIDE DEF Here, After
<1>7. /\ here \in [Nat -> Seq(Pieces)] /\ next \in [Nat -> Nat] /\ Bounded(next, last, n)
      /\ \A i \in Nat : here[i] = Here(i) /\ next[i] = After(i) /\ last[i] = (End(i) >= Len(text))
  BY <1>2, <1>3, <1>4, <1>5, <1>6 DEF Bounded
<1> HIDE DEF here, next, last
<1>8. \A f : P(f) <=> Onward(f, here, next, last)
  BY <1>7 DEF Onward
<1>9. PICK f : P(f)
  <2>1. PICK f : Onward(f, here, next, last)
    BY <1>7, OnwardExists
  <2> QED BY <1>8, <2>1
<1> HIDE DEF P
<1>10. P(h)
  BY <1>9
<1>11. Onward(h, here, next, last)
  BY <1>8, <1>10
<1> HIDE DEF h
<1>12. h[0] \in Seq(Pieces)
  BY <1>7, <1>11, OnwardType
<1> QED BY <1>1, <1>12

LEMMA SplitType ==
    ASSUME NEW S, NEW raw \in Seq(S), NEW max \in Nat, NEW overlap \in Nat
    PROVE  Split(raw, max, overlap) \in Seq(Pieces)
<1>1. PICK text \in Seq(S) : text = TrimSpace(raw)
  BY TrimType
<1>2. PICK n \in Nat : n = Len(text)
  BY LenProperties
<1>3. PICK o \in Nat : o = IF overlap >= max THEN max \div 4 ELSE overlap
  OBVIOUS
<1>4. From(text, max, o) \in Seq(Pieces)
  BY FromType
<1>5. <<[start |-> 0, end |-> n]>> \in Seq(Pieces)
  <2>1. PICK c \in Pieces : c = [start |-> 0, end |-> n]
    BY DEF Pieces
  <2> QED BY <2>1
<1>6. <<>> \in Seq(Pieces)
  BY EmptySeq
<1> QED BY <1>1, <1>2, <1>3, <1>4, <1>5, <1>6 DEF Split

\* The chunks of a message are counted.
LEMMA ChunksCounted == \A m \in Messages : Chunks[m] \in Nat
<1> SUFFICES ASSUME NEW m \in Messages PROVE Chunks[m] \in Nat
  OBVIOUS
<1>1. Text[m] \in Seq(SampleBytes) /\ MaxChars \in Nat /\ OverlapChars \in Nat
  BY VectorAssumption
<1>2. Split(Text[m], MaxChars, OverlapChars) \in Seq(Pieces)
  BY <1>1, SplitType
<1>3. Len(Split(Text[m], MaxChars, OverlapChars)) \in Nat
  BY <1>2, LenProperties
<1> QED BY <1>3 DEF Chunks
-----------------------------------------------------------------------------
(* The vector store.                                                        *)

Codes      == {Code[key] : key \in Keys}
Routes     == Threads \cup {Global}
ThreadMaps == UNION {[D -> Threads] : D \in SUBSET Messages}
Homes      == [Messages -> Threads \cup {None}]
IndexSet   == [emb : Embedders, dim : Nat, threadByMsg : ThreadMaps, keys : Seq(Keys),
               graphs : [Routes -> GraphSet(Codes)], loose : SUBSET Messages, panicked : BOOLEAN]
BuildSet   == [pc : {"idle", "probed", "snapped", "scanned", "observed"},
               emb : Embedders \cup {None}, threads : ThreadMaps]
TaskSet    == [pc : {"none", "queued", "lookup", "commit", "notify", "add"}, emb : Embedders \cup {None},
               got : Int, next : Int, thread : Threads \cup {None} \cup (Int \X Threads)]

\* Threads a map gives to messages are those they were stored in.
Placed(hm, threads) == \A m \in DOMAIN threads : threads[m] = hm[m]

\* What a graph holds of a list of keys.
Held(keys, g) == {keys[g.nodes[i].vid] : i \in DOMAIN g.nodes}

\* A graph that can be searched, all of whose nodes are of the list.
GraphOf(keys, g) == Whole(g) /\ \A i \in DOMAIN g.nodes : g.nodes[i].vid \in DOMAIN keys

\* The keys of an index are where they belong; those of messages of L may have no partition.
Filed(ix, hm, L) ==
    /\ Held(ix.keys, ix.graphs[Global]) = Range(ix.keys)
    /\ \A t \in Threads : \A key \in Held(ix.keys, ix.graphs[t]) : hm[key[1]] = t
    /\ \A key \in Range(ix.keys) :
        \/ key[1] \in L
        \/ key[1] \in DOMAIN ix.threadByMsg /\ key \in Held(ix.keys, ix.graphs[hm[key[1]]])

Fits(ix, hm, L) ==
    /\ ix \in IndexSet /\ ~ix.panicked /\ ix.dim \in {0, ix.emb.dim}
    /\ \A r \in Routes : GraphOf(ix.keys, ix.graphs[r])
    /\ Placed(hm, ix.threadByMsg)
    /\ Filed(ix, hm, L)

\* A task, of a stored message, that has come to its next chunk; what the
\* observer is called with belongs to an index of the task's model.
TaskFits(m, w, hm, ixs) ==
    /\ w.pc # "none" => hm[m] \in Threads /\ w.emb \in Embedders
    /\ w.pc \in {"lookup", "commit", "notify", "add"} => 1 <= w.next /\ w.next <= w.got /\ w.got <= Chunks[m]
    /\ w.pc \in {"commit", "notify"} => w.thread = hm[m]
    /\ w.pc = "add" =>
        \E i \in DOMAIN ixs : /\ w.thread = <<i, hm[m]>>
                              /\ ixs[i].emb.model = w.emb.model
                              /\ m \in DOMAIN ixs[i].threadByMsg

\* An index has the vectors of its model, but those on their way and those missed.
Current(i, ixs, vs, tasks, missing) ==
    \A v \in vs : v.model = ixs[i].emb.model =>
        LET w == tasks[v.key[1]]
        IN  \/ v.key \in Range(ixs[i].keys)
            \/ <<i, v.key>> \in missing
            \/ /\ w.next = v.key[2] /\ w.emb.model = v.model
               /\ w.pc = "notify" \/ (w.pc = "add" /\ w.thread[1] = i)

RowFits(v, dim) ==
    v.key \in Keys /\ v.dim = dim /\ \E e \in Embedders : e.model = v.model /\ e.dim = v.dim

StoreFits ==
    /\ home \in Homes /\ stored \subseteq {m \in Messages : home[m] # None}
    /\ IsFiniteSet(vectors) /\ \A v \in vectors : RowFits(v, tableDim)

IndexesFit ==
    /\ indexes \in Seq(IndexSet) /\ observer \in {0} \cup DOMAIN indexes /\ live \in {0} \cup DOMAIN indexes
    /\ \A i \in DOMAIN indexes : Fits(indexes[i], home, indexes[i].loose)

BuildFits ==
    /\ build \in BuildSet
    /\ build.pc # "idle" => build.emb \in Embedders
    /\ Placed(home, build.threads)
    /\ build.pc \in {"scanned", "observed"} => indexes # <<>>

TasksFit == task \in [Messages -> TaskSet] /\ \A m \in Messages : TaskFits(m, task[m], home, indexes)

AllCurrent ==
    /\ observer # 0 => Current(observer, indexes, vectors, task, missed)
    /\ build.pc = "scanned" => Current(Len(indexes), indexes, vectors, task, missed)

VectorInv == StoreFits /\ IndexesFit /\ BuildFits /\ TasksFit /\ AllCurrent

LEMMA CodesFinite == Finite(Codes)
BY VectorAssumption DEF Codes, Finite

LEMMA KeyParts ==
    ASSUME NEW key \in Keys
    PROVE  key[1] \in Messages /\ key[2] \in 1 .. Chunks[key[1]] /\ key = <<key[1], key[2]>>
BY DEF Keys

LEMMA KeyOf ==
    ASSUME NEW m \in Messages, NEW n \in 1 .. Chunks[m]
    PROVE  <<m, n>> \in Keys
BY DEF Keys

\* A graph has a layer for every node it grows by.
LEMMA LayerType ==
    ASSUME NEW r \in Routes, NEW n \in Nat
    PROVE  Layer(r, n) \in Nat
<1>1. PICK q \in Seq(Nat) : q = Draws[r] /\ q # <<>>
  BY VectorAssumption DEF Routes
<1>2. PICK k \in Nat \ {0} : k = Len(q)
  BY <1>1, EmptySeq
<1>3. n % k \in 0 .. (k - 1)
  OBVIOUS
<1>4. (n % k) + 1 \in 1 .. Len(q)
  BY <1>2, <1>3
<1>5. q[(n % k) + 1] \in Nat
  BY <1>4, ElementOfSeq
<1> QED BY <1>1, <1>2, <1>5 DEF Layer

\* A list that is longer by one key.
LEMMA Appended ==
    ASSUME NEW S, NEW keys \in Seq(S), NEW key \in S,
           NEW n \in Nat, n = Len(keys), NEW id \in Nat, id = n + 1
    PROVE  /\ Append(keys, key) \in Seq(S) /\ Len(Append(keys, key)) = id
           /\ DOMAIN keys = 1 .. n /\ DOMAIN Append(keys, key) = 1 .. id
           /\ Append(keys, key)[id] = key
           /\ \A i \in DOMAIN keys : i \in 1 .. id /\ Append(keys, key)[i] = keys[i]
           /\ Range(Append(keys, key)) = Range(keys) \cup {key}
<1>0. PICK more : more = Append(keys, key)
  OBVIOUS
<1>1. /\ more \in Seq(S) /\ Len(more) = id /\ more[id] = key
      /\ \A i \in 1 .. n : more[i] = keys[i]
  BY <1>0, AppendProperties
<1>2. DOMAIN keys = 1 .. n /\ DOMAIN more = 1 .. id
  BY <1>1, LenProperties
<1>3. 1 .. id = (1 .. n) \cup {id}
  OBVIOUS
<1>4. \A i \in DOMAIN keys : i \in 1 .. id
  BY <1>2, <1>3
<1>5. Range(more) = Range(keys) \cup {key}
  BY <1>1, <1>2, <1>3 DEF Range
<1> QED BY <1>0, <1>1, <1>2, <1>4, <1>5

\* A graph that does not grow holds what it held.
LEMMA HeldKept ==
    ASSUME NEW S, NEW keys \in Seq(S), NEW key \in S, NEW g, GraphOf(keys, g)
    PROVE  GraphOf(Append(keys, key), g) /\ Held(Append(keys, key), g) = Held(keys, g)
<1>0. PICK more : more = Append(keys, key)
  OBVIOUS
<1>1. PICK n \in Nat, id \in Nat : n = Len(keys) /\ id = n + 1
  BY LenProperties
<1>2. DOMAIN more = 1 .. id /\ \A i \in DOMAIN keys : i \in 1 .. id /\ more[i] = keys[i]
  BY <1>0, <1>1, Appended
<1>3. \A i \in DOMAIN g.nodes : g.nodes[i].vid \in DOMAIN keys
  BY DEF GraphOf
<1> QED BY <1>0, <1>2, <1>3 DEF GraphOf, Held

\* A graph that grows by a key holds that key too.
LEMMA GrownKeeps ==
    ASSUME NEW keys \in Seq(Keys), NEW key \in Keys, NEW id, id = Len(keys) + 1,
           NEW g \in GraphSet(Codes), GraphOf(keys, g), NEW r \in Routes
    PROVE  /\ Grown(g, r, id, key) \in GraphSet(Codes)
           /\ GraphOf(Append(keys, key), Grown(g, r, id, key))
           /\ Held(Append(keys, key), Grown(g, r, id, key)) = Held(keys, g) \cup {key}
<1>0. PICK more : more = Append(keys, key)
  OBVIOUS
<1>1. PICK k \in Nat, last \in Nat : k = Len(g.nodes) /\ last = k + 1 /\ DOMAIN g.nodes = 1 .. k
  BY GraphType
<1>2. PICK code \in Codes : code = Code[key]
  BY DEF Codes
<1>3. PICK layer \in Nat : layer = Layer(r, k)
  BY LayerType
<1>4. PICK n \in Nat : n = Len(keys) /\ id \in Nat /\ id = n + 1
  BY LenProperties
<1>5. PICK h : h = Grown(g, r, id, key)
  OBVIOUS
<1>6. h = insert(g, id, code, layer)
  BY <1>1, <1>2, <1>3, <1>5 DEF Grown
<1>7. Whole(g) /\ \A i \in DOMAIN g.nodes : g.nodes[i].vid \in DOMAIN keys
  BY DEF GraphOf
<1>8. /\ h \in GraphSet(Codes) /\ Whole(h) /\ DOMAIN h.nodes = 1 .. last
      /\ \A i \in 1 .. k : h.nodes[i].vid = g.nodes[i].vid
      /\ h.nodes[last].vid = id
  <2>1. Grew(Codes, g, insert(g, id, code, layer), id, k, last)
    BY <1>1, <1>4, <1>7, CodesFinite, InsertWhole
  <2> QED BY <1>6, <2>1 DEF Grew
<1>9. /\ DOMAIN more = 1 .. id /\ more[id] = key
      /\ \A i \in DOMAIN keys : i \in 1 .. id /\ more[i] = keys[i]
  BY <1>0, <1>4, Appended
<1>10. 1 .. last = (1 .. k) \cup {last} /\ id \in 1 .. id
  BY <1>1, <1>4
<1>11. \A i \in 1 .. k : h.nodes[i].vid \in 1 .. id /\ more[h.nodes[i].vid] = keys[g.nodes[i].vid]
  BY <1>1, <1>7, <1>8, <1>9
<1>12. GraphOf(more, h)
  BY <1>8, <1>9, <1>10, <1>11 DEF GraphOf
<1>13. Held(more, h) = Held(keys, g) \cup {key}
  <2>1. \A i \in 1 .. k : more[h.nodes[i].vid] = keys[g.nodes[i].vid]
    BY <1>11
  <2>2. more[h.nodes[last].vid] = key
    BY <1>8, <1>9
  <2>3. Held(more, h) = {more[h.nodes[i].vid] : i \in 1 .. k} \cup {more[h.nodes[last].vid]}
    <3>1. Held(more, h) = {more[h.nodes[i].vid] : i \in (1 .. k) \cup {last}}
      BY <1>8, <1>10 DEF Held
    <3>2. PICK D : D = 1 .. k
      OBVIOUS
    <3>3. {more[h.nodes[i].vid] : i \in D \cup {last}}
            = {more[h.nodes[i].vid] : i \in D} \cup {more[h.nodes[last].vid]}
      OBVIOUS
    <3> QED BY <3>1, <3>2, <3>3
  <2>4. Held(keys, g) = {keys[g.nodes[i].vid] : i \in 1 .. k}
    BY <1>1 DEF Held
  <2>5. {more[h.nodes[i].vid] : i \in 1 .. k} = {keys[g.nodes[i].vid] : i \in 1 .. k}
    BY <2>1
  <2> QED BY <2>2, <2>3, <2>4, <2>5
<1> QED BY <1>0, <1>5, <1>8, <1>12, <1>13

\* What adding a key to an index changes.
WithKey(ix, key, y) ==
    /\ y.emb = ix.emb /\ y.threadByMsg = ix.threadByMsg /\ y.loose = ix.loose
    /\ Range(y.keys) = Range(ix.keys) \cup {key}

\* A vector of the index's width, whose thread is known or need not be.
Fitting(ix, hm, L, key, t) ==
    \/ t \in Threads /\ t = hm[key[1]] /\ key[1] \in DOMAIN ix.threadByMsg
    \/ t = None /\ key[1] \in L

LEMMA IndexFields ==
    ASSUME NEW ix \in IndexSet
    PROVE  /\ ix.emb \in Embedders /\ ix.dim \in Nat /\ ix.threadByMsg \in ThreadMaps
           /\ ix.keys \in Seq(Keys) /\ ix.graphs \in [Routes -> GraphSet(Codes)]
           /\ ix.loose \in SUBSET Messages /\ ix.panicked \in BOOLEAN
           /\ ix = [emb |-> ix.emb, dim |-> ix.dim, threadByMsg |-> ix.threadByMsg, keys |-> ix.keys,
                    graphs |-> ix.graphs, loose |-> ix.loose, panicked |-> ix.panicked]
BY DEF IndexSet

LEMMA AddFits ==
    ASSUME NEW hm, NEW L, NEW ix, Fits(ix, hm, L), NEW key \in Keys, NEW t, Fitting(ix, hm, L, key, t)
    PROVE  Fits(Add(ix, key, t, ix.emb.dim), hm, L) /\ WithKey(ix, key, Add(ix, key, t, ix.emb.dim))
<1> DEFINE y == Add(ix, key, t, ix.emb.dim)
<1>1. /\ ix \in IndexSet /\ ~ix.panicked /\ ix.dim \in {0, ix.emb.dim}
      /\ \A r \in Routes : GraphOf(ix.keys, ix.graphs[r])
      /\ Placed(hm, ix.threadByMsg) /\ Filed(ix, hm, L)
  BY DEF Fits
<1>2. CASE key \in Range(ix.keys)
  <2>1. y = ix
    BY <1>2 DEF Add
  <2> HIDE DEF y
  <2>2. WithKey(ix, key, ix)
    BY <1>2 DEF WithKey
  <2> QED BY <2>1, <2>2 DEF y
<1>3. CASE key \notin Range(ix.keys)
  <2> HIDE DEF y
  <2>1. PICK e \in Embedders, tm \in ThreadMaps, ks \in Seq(Keys), gs \in [Routes -> GraphSet(Codes)],
             lo \in SUBSET Messages :
             /\ e = ix.emb /\ tm = ix.threadByMsg /\ ks = ix.keys /\ gs = ix.graphs /\ lo = ix.loose
             /\ ix.panicked = FALSE
    BY <1>1, IndexFields
  <2>2. PICK dim \in Nat : dim = e.dim /\ ix.dim \in {0, dim}
    BY <1>1, <2>1, VectorAssumption
  <2>3. PICK more \in Seq(Keys) : more = Append(ks, key)
    BY AppendProperties
  <2>4. PICK n \in Nat, id \in Nat : n = Len(ks) /\ id = n + 1
    BY LenProperties
  <2>5. PICK new : new = [r \in Routes |-> IF r \in {Global, t} THEN Grown(gs[r], r, id, key) ELSE gs[r]]
    OBVIOUS
  <2>6. \A r \in Routes : gs[r] \in GraphSet(Codes) /\ GraphOf(ks, gs[r])
    BY <1>1, <2>1
  <2>7. ASSUME NEW r \in Routes
        PROVE  /\ new[r] \in GraphSet(Codes) /\ GraphOf(more, new[r])
               /\ Held(more, new[r]) = Held(ks, gs[r]) \cup (IF r \in {Global, t} THEN {key} ELSE {})
    <3>1. CASE r \in {Global, t}
      <4>1. new[r] = Grown(gs[r], r, id, key)
        BY <2>5, <3>1
      <4>2. gs[r] \in GraphSet(Codes) /\ GraphOf(ks, gs[r]) /\ id = Len(ks) + 1
        BY <2>4, <2>6
      <4>3. PICK g \in GraphSet(Codes) : g = gs[r] /\ GraphOf(ks, g)
        BY <4>2
      <4>4. PICK h : h = Grown(g, r, id, key)
        OBVIOUS
      <4>5. h \in GraphSet(Codes) /\ GraphOf(Append(ks, key), h) /\ Held(Append(ks, key), h) = Held(ks, g) \cup {key}
        BY <4>2, <4>3, <4>4, GrownKeeps
      <4> QED BY <2>3, <3>1, <4>1, <4>3, <4>4, <4>5
    <3>2. CASE r \notin {Global, t}
      <4>1. new[r] = gs[r]
        BY <2>5, <3>2
      <4>2. GraphOf(more, gs[r]) /\ Held(more, gs[r]) = Held(ks, gs[r])
        BY <2>3, <2>6, HeldKept
      <4> QED BY <2>6, <3>2, <4>1, <4>2
    <3> QED BY <3>1, <3>2
  <2>8. new \in [Routes -> GraphSet(Codes)]
    BY <2>5, <2>7
  <2>9. PICK z : z = [ix EXCEPT !.dim = dim, !.keys = more, !.graphs = new]
    OBVIOUS
  <2>10. y = z
    <3>1. y = [ix EXCEPT !.dim = dim, !.keys = Append(@, key),
                         !.graphs = [r \in DOMAIN @ |-> IF r \in {Global, t} THEN Grown(@[r], r, Len(ix.keys) + 1, key)
                                                       ELSE @[r]]]
      BY <1>3, <2>1, <2>2 DEF y, Add
    <3>2. [r \in DOMAIN ix.graphs |-> IF r \in {Global, t} THEN Grown(ix.graphs[r], r, Len(ix.keys) + 1, key)
                                                       ELSE ix.graphs[r]] = new
      BY <2>1, <2>4, <2>5
    <3> QED BY <2>1, <2>3, <2>9, <3>1, <3>2
  <2>11. /\ z \in IndexSet /\ z.emb = e /\ z.dim = dim /\ z.threadByMsg = tm /\ z.keys = more
         /\ z.graphs = new /\ z.loose = lo /\ z.panicked = FALSE
    <3>1. /\ z \in IndexSet /\ z.emb = ix.emb /\ z.dim = dim /\ z.threadByMsg = ix.threadByMsg
          /\ z.keys = more /\ z.graphs = new /\ z.loose = ix.loose /\ z.panicked = ix.panicked
      BY <1>1, <2>8, <2>9 DEF IndexSet
    <3> QED BY <2>1, <3>1
  <2>12. Range(more) = Range(ks) \cup {key}
    BY <2>3, <2>4, Appended
  <2>13. Global \in Routes /\ Threads \subseteq Routes /\ Global \notin Threads /\ None \notin Routes
    BY VectorAssumption DEF Routes
  <2>14. /\ Held(ks, gs[Global]) = Range(ks)
         /\ \A s \in Threads : \A k \in Held(ks, gs[s]) : hm[k[1]] = s
         /\ \A k \in Range(ks) : k[1] \in L \/ (k[1] \in DOMAIN tm /\ k \in Held(ks, gs[hm[k[1]]]))
    BY <1>1, <2>1 DEF Filed
  <2>15. Held(more, new[Global]) = Range(more)
    BY <2>7, <2>12, <2>13, <2>14
  <2>16. \A s \in Threads : \A k \in Held(more, new[s]) : hm[k[1]] = s
    <3> SUFFICES ASSUME NEW s \in Threads, NEW k \in Held(more, new[s]) PROVE hm[k[1]] = s
      OBVIOUS
    <3>1. k \in Held(ks, gs[s]) \/ (s = t /\ k = key)
      BY <2>7, <2>13
    <3> QED BY <2>1, <2>13, <2>14, <3>1 DEF Fitting, Routes
  <2>17. \A k \in Range(more) : k[1] \in L \/ (k[1] \in DOMAIN tm /\ k \in Held(more, new[hm[k[1]]]))
    <3> SUFFICES ASSUME NEW k \in Range(more), k[1] \notin L
                 PROVE  k[1] \in DOMAIN tm /\ k \in Held(more, new[hm[k[1]]])
      OBVIOUS
    <3>1. CASE k \in Range(ks)
      <4>1. k[1] \in DOMAIN tm /\ k \in Held(ks, gs[hm[k[1]]])
        BY <2>14, <3>1
      <4>2. hm[k[1]] \in Routes
        <5>1. PICK D \in SUBSET Messages : tm \in [D -> Threads]
          BY DEF ThreadMaps
        <5>2. hm[k[1]] = tm[k[1]]
          BY <1>1, <2>1, <4>1 DEF Placed
        <5> QED BY <2>13, <4>1, <5>1, <5>2
      <4> QED BY <2>7, <4>1, <4>2
    <3>2. CASE k = key
      <4>1. t \in Threads /\ t = hm[key[1]] /\ key[1] \in DOMAIN tm
        BY <2>1, <3>2 DEF Fitting
      <4>2. key \in Held(more, new[t])
        BY <2>7, <2>13, <4>1
      <4> QED BY <3>2, <4>1, <4>2
    <3> QED BY <2>12, <3>1, <3>2
  <2>18. Filed(z, hm, L)
    BY <2>11, <2>15, <2>16, <2>17 DEF Filed
  <2>19. Fits(z, hm, L)
    BY <1>1, <2>1, <2>2, <2>7, <2>11, <2>18 DEF Fits
  <2>20. WithKey(ix, key, z)
    BY <2>1, <2>11, <2>12 DEF WithKey
  <2> QED BY <2>10, <2>19, <2>20 DEF y
<1> QED BY <1>2, <1>3 DEF y

\* What a graph holds of a list of keys is of the list.
LEMMA HeldOf ==
    ASSUME NEW keys \in Seq(Keys), NEW g, GraphOf(keys, g)
    PROVE  Held(keys, g) \subseteq Keys
<1>1. \A i \in DOMAIN g.nodes : g.nodes[i].vid \in DOMAIN keys
  BY DEF GraphOf
<1>2. \A j \in DOMAIN keys : keys[j] \in Keys
  BY LenProperties, ElementOfSeq
<1> QED BY <1>1, <1>2 DEF Held

LEMMA RangeOf ==
    ASSUME NEW keys \in Seq(Keys)
    PROVE  Range(keys) \subseteq Keys
BY LenProperties, ElementOfSeq DEF Range

\* A message stored since changes nothing about an index.
LEMMA FitsHomes ==
    ASSUME NEW ix, NEW hm, NEW L, Fits(ix, hm, L), NEW hn, \A m \in Messages : hm[m] \in Threads => hn[m] = hm[m]
    PROVE  Fits(ix, hn, L)
<1>1. /\ ix \in IndexSet /\ ~ix.panicked /\ ix.dim \in {0, ix.emb.dim}
      /\ \A r \in Routes : GraphOf(ix.keys, ix.graphs[r])
      /\ Placed(hm, ix.threadByMsg) /\ Filed(ix, hm, L)
  BY DEF Fits
<1>2. PICK D \in SUBSET Messages : ix.threadByMsg \in [D -> Threads]
  BY <1>1, IndexFields DEF ThreadMaps
<1>3. \A m \in D : ix.threadByMsg[m] = hm[m] /\ hm[m] \in Threads /\ hn[m] = hm[m]
  BY <1>1, <1>2 DEF Placed
<1>4. Placed(hn, ix.threadByMsg)
  BY <1>2, <1>3 DEF Placed
<1>5. ASSUME NEW t \in Threads, NEW key \in Held(ix.keys, ix.graphs[t]) PROVE hn[key[1]] = t
  <2>1. hm[key[1]] = t
    BY <1>1 DEF Filed
  <2>2. ix.keys \in Seq(Keys) /\ GraphOf(ix.keys, ix.graphs[t])
    BY <1>1, IndexFields DEF Routes
  <2>3. key \in Keys
    BY <2>2, HeldOf
  <2> QED BY <2>1, <2>3, KeyParts
<1>6. ASSUME NEW key \in Range(ix.keys), key[1] \notin L
      PROVE  key[1] \in DOMAIN ix.threadByMsg /\ key \in Held(ix.keys, ix.graphs[hn[key[1]]])
  <2>1. key[1] \in DOMAIN ix.threadByMsg /\ key \in Held(ix.keys, ix.graphs[hm[key[1]]])
    BY <1>1, <1>6 DEF Filed
  <2>2. hn[key[1]] = hm[key[1]]
    BY <1>2, <1>3, <2>1
  <2> QED BY <2>1, <2>2
<1>7. Filed(ix, hn, L)
  BY <1>1, <1>5, <1>6 DEF Filed
<1> QED BY <1>1, <1>4, <1>7 DEF Fits

\* An index that an observer's call has told the thread of a message.
Knows(hm, ix, m, y) ==
    /\ Fits(y, hm, y.loose) /\ y.emb = ix.emb /\ y.keys = ix.keys
    /\ DOMAIN y.threadByMsg = DOMAIN ix.threadByMsg \cup {m}

LEMMA FitsNotified ==
    ASSUME NEW ix, NEW hm, Fits(ix, hm, ix.loose), NEW m \in Messages, NEW t \in Threads, t = hm[m]
    PROVE  Knows(hm, ix, m, Recorded(ix, m, t))
<1> DEFINE L == ix.loose
<1>0. PICK y : y = Recorded(ix, m, t)
  OBVIOUS
<1>1. /\ ix \in IndexSet /\ ~ix.panicked /\ ix.dim \in {0, ix.emb.dim}
      /\ \A r \in Routes : GraphOf(ix.keys, ix.graphs[r])
      /\ Placed(hm, ix.threadByMsg) /\ Filed(ix, hm, L)
  BY DEF Fits
<1>2. PICK D \in SUBSET Messages : ix.threadByMsg \in [D -> Threads]
  BY <1>1, IndexFields DEF ThreadMaps
<1>3. PICK tm : tm = [k \in DOMAIN ix.threadByMsg \cup {m} |-> IF k = m THEN t ELSE ix.threadByMsg[k]]
  OBVIOUS
<1>4. /\ tm \in [D \cup {m} -> Threads] /\ tm[m] = t
      /\ \A k \in D \ {m} : tm[k] = ix.threadByMsg[k]
  BY <1>2, <1>3
<1>5. tm \in ThreadMaps /\ DOMAIN tm = D \cup {m}
  <2>1. D \cup {m} \in SUBSET Messages
    OBVIOUS
  <2> QED BY <1>4, <2>1 DEF ThreadMaps
<1>6. /\ y \in IndexSet /\ y.emb = ix.emb /\ y.dim = ix.dim /\ y.keys = ix.keys /\ y.graphs = ix.graphs
      /\ y.loose = ix.loose /\ y.panicked = ix.panicked /\ y.threadByMsg = tm
  <2>1. y = [ix EXCEPT !.threadByMsg = tm]
    BY <1>0, <1>3 DEF Recorded
  <2> QED BY <1>1, <1>5, <2>1 DEF IndexSet
<1>7. Placed(hm, tm)
  BY <1>1, <1>2, <1>4, <1>5 DEF Placed
<1>8. Filed(y, hm, L)
  BY <1>1, <1>2, <1>5, <1>6 DEF Filed
<1>9. Fits(y, hm, L)
  BY <1>1, <1>6, <1>7, <1>8 DEF Fits
<1> QED BY <1>0, <1>2, <1>5, <1>6, <1>9 DEF Knows

\* An index before its scan.
LEMMA NewIndexFits ==
    ASSUME NEW hm, NEW L, NEW e \in Embedders, NEW threads \in ThreadMaps, Placed(hm, threads)
    PROVE  /\ Fits(NewIndex(e, threads), hm, L) /\ NewIndex(e, threads).emb = e
           /\ NewIndex(e, threads).threadByMsg = threads /\ NewIndex(e, threads).loose = {}
<1>1. PICK g \in GraphSet(Codes) : g = EmptyGraph /\ Whole(g) /\ DOMAIN g.nodes = {}
  BY EmptyWhole
<1>2. PICK gs \in [Routes -> GraphSet(Codes)] : gs = [r \in Routes |-> EmptyGraph]
  BY <1>1
<1>3. PICK ks \in Seq(Keys) : ks = <<>> /\ DOMAIN ks = {}
  <2>1. <<>> \in Seq(Keys) /\ DOMAIN <<>> = {}
    BY EmptySeq
  <2> QED BY <2>1
<1>4. PICK x : x = NewIndex(e, threads)
  OBVIOUS
<1>5. /\ x \in IndexSet /\ x.emb = e /\ x.dim = 0 /\ x.threadByMsg = threads /\ x.keys = ks
      /\ x.graphs = gs /\ x.loose = {} /\ x.panicked = FALSE
  BY <1>2, <1>3, <1>4 DEF NewIndex, IndexSet, Routes
<1>6. \A r \in Routes : gs[r] = g
  BY <1>1, <1>2
<1>7. GraphOf(ks, g) /\ Held(ks, g) = {} /\ Range(ks) = {}
  BY <1>1, <1>3 DEF GraphOf, Held, Range
<1>8. Filed(x, hm, L)
  BY <1>5, <1>6, <1>7 DEF Filed, Routes
<1>9. Fits(x, hm, L)
  BY <1>5, <1>6, <1>7, <1>8 DEF Fits
<1> QED BY <1>4, <1>5, <1>9

\* What the fold over the rows keeps.
Filling(hm, L, e, threads) ==
    {x \in IndexSet : Fits(x, hm, L) /\ x.emb = e /\ x.threadByMsg = threads /\ x.loose = {}}

FillsTo(hm, L, e, threads, x, key, y) ==
    y \in Filling(hm, L, e, threads) /\ Range(y.keys) = Range(x.keys) \cup {key}

LEMMA FillStep ==
    ASSUME NEW hm, NEW L, NEW e, NEW threads, NEW x \in Filling(hm, L, e, threads), NEW key \in Keys,
           NEW t, key[1] \in DOMAIN threads => t = threads[key[1]], key[1] \notin DOMAIN threads => t = None,
           threads \in ThreadMaps, Placed(hm, threads), key[1] \in DOMAIN threads \/ key[1] \in L
    PROVE  FillsTo(hm, L, e, threads, x, key, Add(x, key, t, e.dim))
<1>1. Fits(x, hm, L) /\ x.emb = e /\ x.threadByMsg = threads /\ x.loose = {}
  BY DEF Filling
<1>2. Fitting(x, hm, L, key, t)
  <2>1. PICK D \in SUBSET Messages : threads \in [D -> Threads]
    BY DEF ThreadMaps
  <2> QED BY <1>1, <2>1 DEF Fitting, Placed
<1>3. PICK y : y = Add(x, key, t, e.dim)
  OBVIOUS
<1>4. Fits(y, hm, L) /\ WithKey(x, key, y)
  BY <1>1, <1>2, <1>3, AddFits
<1>5. y \in IndexSet
  BY <1>4 DEF Fits
<1>6. y \in Filling(hm, L, e, threads) /\ Range(y.keys) = Range(x.keys) \cup {key}
  BY <1>1, <1>4, <1>5 DEF Filling, WithKey
<1> QED BY <1>3, <1>6 DEF FillsTo

\* A scan leaves an index with every row it read.
LEMMA FillFits ==
    ASSUME NEW hm, NEW L, NEW e \in Embedders, NEW threads \in ThreadMaps, Placed(hm, threads),
           NEW n \in Nat, NEW order \in [1 .. n -> Keys],
           \A i \in 1 .. n : order[i][1] \in DOMAIN threads \/ order[i][1] \in L,
           NEW dim, n # 0 => dim = e.dim
    PROVE  /\ Filled(NewIndex(e, threads), order, dim) \in Filling(hm, L, e, threads)
           /\ \A i \in 1 .. n : order[i] \in Range(Filled(NewIndex(e, threads), order, dim).keys)
<1> DEFINE v       == NewIndex(e, threads)
           Op(x, key) == Add(x, key, ThreadIn(v, key[1]), dim)
           S       == Filling(hm, L, e, threads)
           P(u)    == u = [s \in SUBSET DOMAIN order |-> IF s = {} THEN v ELSE Op(u[s \ {Max(s)}], order[Max(s)])]
           h       == CHOOSE u : P(u)
           X       == S \cup {h[s] : s \in SUBSET (1 .. n)}
           step    == [p \in (1 .. n) \X X |-> Op(p[2], order[p[1]])]
           T       == [j \in 0 .. n |-> S]
<1>1. Filled(NewIndex(e, threads), order, dim) = h[DOMAIN order]
  BY Zenon DEF Filled, FoldLeft, MapThenFoldSet
<1>2. \A j \in 1 .. n : \A x \in X : step[<<j, x>>] = Op(x, order[j])
  OBVIOUS
<1>3. S \subseteq X /\ \A s \in SUBSET (1 .. n) : h[s] \in X
  OBVIOUS
<1>4. v \in S /\ v.threadByMsg = threads
  <2> HIDE DEF v, h, X, step, T, P, Op
  <2>1. Fits(v, hm, L) /\ v.emb = e /\ v.threadByMsg = threads /\ v.loose = {}
    BY NewIndexFits DEF v
  <2>2. v \in IndexSet
    BY <2>1 DEF Fits
  <2> QED BY <2>1, <2>2 DEF Filling
<1>5. \A j \in 0 .. n : T[j] = S
  OBVIOUS
<1>6. \A s \in SUBSET (1 .. n) : s # {} => Max(s) \in 1 .. n /\ s \ {Max(s)} \in SUBSET (1 .. n)
  BY LastPosition
<1> HIDE DEF h, X, step, T, v, P, S
<1>7. ASSUME NEW j \in 1 .. n, NEW x \in S
      PROVE  Op(x, order[j]) \in S /\ Range(Op(x, order[j]).keys) = Range(x.keys) \cup {order[j]}
  <2>1. PICK key \in Keys : key = order[j] /\ (key[1] \in DOMAIN threads \/ key[1] \in L)
    OBVIOUS
  <2>2. PICK t : t = IF key[1] \in DOMAIN threads THEN threads[key[1]] ELSE None
    OBVIOUS
  <2>3. Op(x, key) = Add(x, key, t, e.dim)
    <3>1. ThreadIn(v, key[1]) = t
      BY <1>4, <2>2 DEF ThreadIn
    <3>2. dim = e.dim
      OBVIOUS
    <3> QED BY <3>1, <3>2
  <2>4. FillsTo(hm, L, e, threads, x, key, Add(x, key, t, e.dim))
    <3>1. x \in Filling(hm, L, e, threads)
      BY DEF S
    <3> QED BY <2>1, <2>2, <3>1, FillStep
  <2> HIDE DEF Op
  <2> QED BY <2>1, <2>3, <2>4 DEF S, FillsTo
<1> HIDE DEF Op
<1>8. Carries([k \in 0 .. n |-> S], v, step, n)
  <2>1. \A k \in 1 .. n : \A x \in S : step[<<k, x>>] \in S
    BY <1>2, <1>3, <1>7
  <2> QED BY <1>4, <2>1, CarriesOne
<1>9. PICK f : Folding(f, v, step, n) /\ \A s \in SUBSET (1 .. n) : f[s] \in S
  <2>1. PICK f : Folding(f, v, step, n) /\ \A s \in SUBSET (1 .. n) : f[s] \in [k \in 0 .. n |-> S][LastOf(s)]
    BY <1>8, FoldingExists
  <2>2. \A s \in SUBSET (1 .. n) : LastOf(s) \in 0 .. n
    BY <1>6 DEF LastOf
  <2> QED BY <2>1, <2>2
<1>10. Folding(h, v, step, n)
  <2>f. \A s \in SUBSET (1 .. n) : s # {} => step[<<Max(s), f[s \ {Max(s)}]>>] = Op(f[s \ {Max(s)}], order[Max(s)])
    BY <1>2, <1>3, <1>6, <1>9
  <2>1. P(f)
    BY <1>9, <2>f DEF Folding, P
  <2>2. P(h)
    BY <2>1 DEF h
  <2>3. \A s \in SUBSET (1 .. n) : s # {} => step[<<Max(s), h[s \ {Max(s)}]>>] = Op(h[s \ {Max(s)}], order[Max(s)])
    BY <1>2, <1>3, <1>6
  <2> QED BY <2>2, <2>3 DEF Folding, P
<1>11. /\ h[{}] = v
       /\ \A s \in SUBSET (1 .. n) : s # {} => h[s] = Op(h[s \ {Max(s)}], order[Max(s)])
  <2>1. \A s \in SUBSET (1 .. n) : s # {} => step[<<Max(s), h[s \ {Max(s)}]>>] = Op(h[s \ {Max(s)}], order[Max(s)])
    BY <1>2, <1>3, <1>6
  <2>2. \A s \in SUBSET (1 .. n) : h[s] = IF s = {} THEN v ELSE step[<<Max(s), h[s \ {Max(s)}]>>]
    BY <1>10 DEF Folding
  <2> QED BY <2>1, <2>2
<1> DEFINE W == {s \in SUBSET (1 .. n) : h[s] \in S /\ \A i \in s : order[i] \in Range(h[s].keys)}
<1>12. {} \in W
  BY <1>4, <1>11
<1>13. ASSUME NEW s \in SUBSET (1 .. n), s # {}, s \ {Max(s)} \in W PROVE s \in W
  <2>1. PICK j \in 1 .. n, r \in SUBSET (1 .. n) : j = Max(s) /\ r = s \ {j}
    BY <1>6, <1>13
  <2>2. h[r] \in S /\ \A i \in r : order[i] \in Range(h[r].keys)
    BY <1>13, <2>1
  <2>3. h[s] = Op(h[r], order[j])
    BY <1>11, <1>13, <2>1
  <2>4. h[s] \in S /\ Range(h[s].keys) = Range(h[r].keys) \cup {order[j]}
    BY <1>7, <2>2, <2>3
  <2>5. \A i \in s : i \in r \/ i = j
    BY <2>1
  <2> QED BY <2>2, <2>4, <2>5
<1>14. 1 .. n \in W
  <2> HIDE DEF W
  <2>1. SUBSET (1 .. n) \subseteq W
    BY <1>12, <1>13, PositionSets
  <2> QED BY <2>1
<1>15. DOMAIN order = 1 .. n
  OBVIOUS
<1> QED BY <1>1, <1>14, <1>15 DEF S

\* The chunks with a stored vector of a model are finitely many.
LEMMA RowsFinite ==
    ASSUME StoreFits, NEW model
    PROVE  /\ IsFiniteSet(EachChunkEmbeddingForModel(model))
           /\ EachChunkEmbeddingForModel(model) \subseteq Keys
<1> DEFINE S == {u \in vectors : u.model = model}
           R == EachChunkEmbeddingForModel(model)
           f == [v \in S |-> v.key]
<1>1. R = {v.key : v \in S}
  BY DEF EachChunkEmbeddingForModel
<1>2. IsFiniteSet(S)
  BY FS_Subset DEF StoreFits
<1>3. \A v \in S : v.key \in Keys
  BY DEF StoreFits, RowFits
<1> HIDE DEF R
<1>4. f \in [S -> R] /\ \A k \in R : \E v \in S : f[v] = k
  BY <1>1
<1>5. f \in Surjection(S, R)
  BY <1>4 DEF Surjection
<1> HIDE DEF S, f
<1>6. IsFiniteSet(R)
  BY <1>2, <1>5, FS_Surjection
<1> QED BY <1>1, <1>3, <1>6 DEF R

\* An order of a finite set has all of it.
LEMMA OrderOf ==
    ASSUME NEW S, IsFiniteSet(S), NEW order \in SetToSeqs(S)
    PROVE  /\ Cardinality(S) \in Nat /\ order \in [1 .. Cardinality(S) -> S]
           /\ \A x \in S : \E i \in 1 .. Cardinality(S) : order[i] = x
<1>1. PICK n \in Nat : n = Cardinality(S)
  BY FS_CardinalityType
<1>2. order \in [1 .. n -> S] /\ \A i, j \in 1 .. n : i # j => order[i] # order[j]
  BY <1>1 DEF SetToSeqs
<1>3. PICK D : D = 1 .. n
  OBVIOUS
<1>4. IsFiniteSet(D) /\ Cardinality(D) = n
  <2>1. 1 \in Int /\ n \in Int
    OBVIOUS
  <2>2. IsFiniteSet(1 .. n) /\ Cardinality(1 .. n) = IF 1 > n THEN 0 ELSE n - 1 + 1
    BY <2>1, FS_Interval
  <2> QED BY <1>3, <2>2
<1>5. order \in Injection(D, S)
  BY <1>2, <1>3 DEF Injection, IsInjective
<1>6. order \in Surjection(D, S)
  BY <1>1, <1>4, <1>5, FS_Injection
<1>7. \A x \in S : \E i \in D : order[i] = x
  BY <1>6 DEF Surjection
<1> QED BY <1>1, <1>2, <1>3, <1>7

Elsewhere(m, tasks, tn) == \A k \in Messages : k # m => tn[k] = tasks[k]
KeysOf(vs) == \A v \in vs : v.key \in Keys

\* Whatever does not touch a vector on its way leaves an index current.
LEMMA CurrentKept ==
    ASSUME NEW i, NEW ixs, NEW ixn, NEW vs, NEW vn, NEW tasks, NEW tn, NEW missing, NEW mn, NEW m,
           Current(i, ixs, vs, tasks, missing), vn \subseteq vs, missing \subseteq mn,
           ixn[i].emb = ixs[i].emb, Range(ixs[i].keys) \subseteq Range(ixn[i].keys),
           KeysOf(vn), tasks[m].pc \notin {"notify", "add"}, Elsewhere(m, tasks, tn)
    PROVE  Current(i, ixn, vn, tn, mn)
<1> SUFFICES ASSUME NEW v \in vn, v.model = ixn[i].emb.model
             PROVE  LET w == tn[v.key[1]]
                    IN  \/ v.key \in Range(ixn[i].keys)
                        \/ <<i, v.key>> \in mn
                        \/ /\ w.next = v.key[2] /\ w.emb.model = v.model
                           /\ w.pc = "notify" \/ (w.pc = "add" /\ w.thread[1] = i)
  BY DEF Current
<1>1. v.key[1] \in Messages
  BY KeyParts DEF KeysOf
<1>2. LET w == tasks[v.key[1]]
      IN  \/ v.key \in Range(ixs[i].keys)
          \/ <<i, v.key>> \in missing
          \/ /\ w.next = v.key[2] /\ w.emb.model = v.model
             /\ w.pc = "notify" \/ (w.pc = "add" /\ w.thread[1] = i)
  BY DEF Current
<1> QED BY <1>1, <1>2 DEF Elsewhere

\* A task fits indexes that keep what it relies on.
LEMMA TaskKept ==
    ASSUME NEW m, NEW w, NEW hm, NEW ixs, NEW ixn, TaskFits(m, w, hm, ixs),
           \A i \in DOMAIN ixs : /\ i \in DOMAIN ixn /\ ixn[i].emb = ixs[i].emb
                                 /\ DOMAIN ixs[i].threadByMsg \subseteq DOMAIN ixn[i].threadByMsg
    PROVE  TaskFits(m, w, hm, ixn)
BY DEF TaskFits

\* A task of another message is not disturbed by a message that is stored.
LEMMA TaskHomes ==
    ASSUME NEW m, NEW w, NEW hm, NEW hn, NEW ixs, TaskFits(m, w, hm, ixs), hm[m] \in Threads => hn[m] = hm[m]
    PROVE  TaskFits(m, w, hn, ixs)
BY DEF TaskFits

LEMMA TaskFields ==
    ASSUME NEW w \in TaskSet
    PROVE  /\ w.pc \in {"none", "queued", "lookup", "commit", "notify", "add"}
           /\ w.emb \in Embedders \cup {None} /\ w.got \in Int /\ w.next \in Int
           /\ w.thread \in Threads \cup {None} \cup (Int \X Threads)
BY DEF TaskSet

LEMMA NoTaskFits ==
    ASSUME NEW m, NEW hm, NEW ixs
    PROVE  NoTask \in TaskSet /\ NoTask.pc = "none" /\ TaskFits(m, NoTask, hm, ixs)
BY DEF NoTask, TaskSet, TaskFits

\* Only a message that was stored has a task.
LEMMA TaskOf ==
    ASSUME StoreFits, TasksFit, NEW m \in Messages
    PROVE  /\ task[m] \in TaskSet /\ TaskFits(m, task[m], home, indexes)
           /\ task[m].pc # "none" => home[m] \in Threads
BY DEF TasksFit, TaskFits

\* The task after one chunk.
LEMMA AdvancedFits ==
    ASSUME NEW m, NEW w \in TaskSet, NEW hm, NEW ixs, TaskFits(m, w, hm, ixs), w.pc \in {"notify", "add"},
           NEW ixn, NEW t \in Threads \cup {None}, NEW u, u = [w EXCEPT !.thread = t]
    PROVE  /\ Advanced(w) \in TaskSet /\ TaskFits(m, Advanced(w), hm, ixn)
           /\ Advanced(w).pc \notin {"notify", "add"}
           /\ Advanced(u) \in TaskSet /\ TaskFits(m, Advanced(u), hm, ixn)
           /\ Advanced(u).pc \notin {"notify", "add"}
<1>1. ASSUME NEW x \in TaskSet, x.emb = w.emb, x.got = w.got, x.next = w.next
      PROVE  /\ Advanced(x) \in TaskSet /\ TaskFits(m, Advanced(x), hm, ixn)
             /\ Advanced(x).pc \notin {"notify", "add"}
  <2>1. CASE x.next < x.got
    <3>1. PICK y : y = [x EXCEPT !.pc = "lookup", !.next = x.next + 1]
      OBVIOUS
    <3>2. x.next \in Int /\ x.got \in Int /\ x.next + 1 \in Int /\ x.next >= 1 /\ x.got <= Chunks[m]
      BY <1>1, TaskFields DEF TaskFits
    <3>3. y \in TaskSet /\ y.pc = "lookup" /\ y.next = x.next + 1 /\ y.got = x.got /\ y.emb = x.emb
      BY <3>1, <3>2 DEF TaskSet
    <3>4. hm[m] \in Threads /\ y.emb \in Embedders
      BY <1>1, <3>3 DEF TaskFits
    <3>5. 1 <= y.next /\ y.next <= y.got /\ y.got <= Chunks[m]
      BY <2>1, <3>2, <3>3
    <3>6. TaskFits(m, y, hm, ixn)
      BY <3>3, <3>4, <3>5 DEF TaskFits
    <3>7. Advanced(x) = y
      BY <2>1, <3>1 DEF Advanced
    <3> QED BY <3>3, <3>6, <3>7
  <2>2. CASE ~(x.next < x.got)
    BY <2>2, NoTaskFits DEF Advanced
  <2> QED BY <2>1, <2>2
<1>2. u \in TaskSet /\ u.emb = w.emb /\ u.got = w.got /\ u.next = w.next
  BY DEF TaskSet
<1> QED BY <1>1, <1>2

\* What the lemmas on the actions begin with.
LEMMA IndexAt ==
    ASSUME IndexesFit, NEW i \in DOMAIN indexes
    PROVE  /\ indexes[i] \in IndexSet /\ Fits(indexes[i], home, indexes[i].loose)
           /\ indexes[i].emb \in Embedders
           /\ Len(indexes) \in Nat /\ DOMAIN indexes = 1 .. Len(indexes)
BY LenProperties, ElementOfSeq, IndexFields DEF IndexesFit

\* A step that changes one task, and no index, that was not on its way.
LEMMA TasksStep ==
    ASSUME VectorInv, NEW m \in Messages, NEW x \in TaskSet, TaskFits(m, x, home, indexes),
           task[m].pc \notin {"notify", "add"}, task' = [task EXCEPT ![m] = x],
           UNCHANGED <<storeVars, indexes, observer, live, build, missed, crashes>>
    PROVE  VectorInv'
<1>1. StoreFits' /\ IndexesFit' /\ BuildFits'
  BY DEF VectorInv, StoreFits, IndexesFit, BuildFits, storeVars
<1>2. task \in [Messages -> TaskSet]
  BY DEF VectorInv, TasksFit
<1>3. task' \in [Messages -> TaskSet] /\ task'[m] = x /\ \A k \in Messages : k # m => task'[k] = task[k]
  BY <1>2
<1>4. TasksFit'
  BY <1>3 DEF VectorInv, TasksFit, storeVars
<1>5. KeysOf(vectors) /\ Elsewhere(m, task, task')
  BY <1>3 DEF VectorInv, StoreFits, RowFits, KeysOf, Elsewhere
<1>6. ASSUME NEW i, Current(i, indexes, vectors, task, missed)
      PROVE  Current(i, indexes, vectors, task', missed)
  BY <1>5, <1>6, CurrentKept
<1>7. AllCurrent'
  BY <1>6 DEF VectorInv, AllCurrent, storeVars
<1> QED BY <1>1, <1>4, <1>7 DEF VectorInv

LEMMA EmbedKeeps ==
    ASSUME VectorInv, NEW m \in Messages, NEW n \in 0 .. Chunks[m], Embed(m, n)
    PROVE  VectorInv'
<1>1. StoreFits /\ TasksFit
  BY DEF VectorInv
<1>2. PICK w \in TaskSet : w = task[m] /\ TaskFits(m, w, home, indexes) /\ w.pc = "queued"
  BY <1>1, TaskOf DEF Embed
<1>3. n \in Int /\ n <= Chunks[m]
  BY ChunksCounted
<1>4. PICK y : y = [w EXCEPT !.pc = "lookup", !.got = n, !.next = 1]
  OBVIOUS
<1>5. y \in TaskSet /\ y.pc = "lookup" /\ y.got = n /\ y.next = 1 /\ y.emb = w.emb
  <2>1. PICK k \in Int, one \in Int : k = n /\ one = 1
    BY <1>3
  <2>2. y = [w EXCEPT !.pc = "lookup", !.got = k, !.next = one]
    BY <1>4, <2>1
  <2>3. y \in TaskSet
    BY <2>2 DEF TaskSet
  <2>4. y.pc = "lookup" /\ y.got = k /\ y.next = one /\ y.emb = w.emb
    BY <2>2 DEF TaskSet
  <2> QED BY <2>1, <2>3, <2>4
<1>6. n > 0 => TaskFits(m, y, home, indexes)
  BY <1>2, <1>3, <1>5 DEF TaskFits
<1>7. PICK x : x = IF m \in stored /\ n > 0 THEN y ELSE NoTask
  OBVIOUS
<1>8. x \in TaskSet /\ TaskFits(m, x, home, indexes)
  BY <1>5, <1>6, <1>7, NoTaskFits
<1>9. task' = [task EXCEPT ![m] = x]
  BY <1>2, <1>4, <1>7 DEF Embed
<1> QED BY <1>2, <1>8, <1>9, TasksStep DEF Embed

LEMMA LookupKeeps ==
    ASSUME VectorInv, NEW m \in Messages, Lookup(m)
    PROVE  VectorInv'
<1>1. StoreFits /\ TasksFit
  BY DEF VectorInv
<1>2. PICK w \in TaskSet : w = task[m] /\ TaskFits(m, w, home, indexes) /\ w.pc = "lookup"
  BY <1>1, TaskOf DEF Lookup
<1>3. PICK t \in Threads : t = home[m]
  BY <1>2 DEF TaskFits
<1>4. PICK y : y = [w EXCEPT !.pc = "commit", !.thread = t]
  OBVIOUS
<1>5. y \in TaskSet /\ y.pc = "commit" /\ y.got = w.got /\ y.next = w.next /\ y.emb = w.emb /\ y.thread = home[m]
  <2>1. t \in Threads \cup {None} \cup (Int \X Threads)
    OBVIOUS
  <2>2. y \in TaskSet
    BY <1>4, <2>1 DEF TaskSet
  <2>3. y.pc = "commit" /\ y.got = w.got /\ y.next = w.next /\ y.emb = w.emb /\ y.thread = t
    BY <1>4 DEF TaskSet
  <2> QED BY <1>3, <2>2, <2>3
<1>6. TaskFits(m, y, home, indexes)
  BY <1>2, <1>5 DEF TaskFits
<1>7. PICK x : x = IF m \in stored THEN y ELSE NoTask
  OBVIOUS
<1>8. x \in TaskSet /\ TaskFits(m, x, home, indexes)
  BY <1>5, <1>6, <1>7, NoTaskFits
<1>9. task' = [task EXCEPT ![m] = x]
  BY <1>2, <1>3, <1>4, <1>7 DEF Lookup
<1> QED BY <1>2, <1>8, <1>9, TasksStep DEF Lookup

LEMMA StoreKeeps ==
    ASSUME VectorInv, NEW m \in Messages, NEW t \in Threads, Store(m, t)
    PROVE  VectorInv'
<1>1. StoreFits /\ IndexesFit /\ BuildFits /\ TasksFit /\ AllCurrent
  BY DEF VectorInv
<1>2. /\ live # 0 /\ home[m] = None /\ home' = [home EXCEPT ![m] = t] /\ stored' = stored \cup {m}
      /\ task' = [task EXCEPT ![m] = [NoTask EXCEPT !.pc = "queued", !.emb = indexes[live].emb]]
      /\ UNCHANGED <<vectors, tableDim, indexes, observer, live, build, missed, gone, crashes>>
  BY DEF Store
<1>3. None \notin Threads
  BY VectorAssumption
<1>4. /\ home' \in Homes /\ home'[m] = t
      /\ \A k \in Messages : home[k] \in Threads => k # m /\ home'[k] = home[k]
      /\ \A k \in Messages : k # m => home'[k] = home[k]
  BY <1>1, <1>2, <1>3 DEF StoreFits, Homes
<1>5. StoreFits'
  BY <1>1, <1>2, <1>3, <1>4 DEF StoreFits
<1>6. IndexesFit'
  BY <1>1, <1>2, <1>4, FitsHomes DEF IndexesFit
<1>7. BuildFits'
  <2>1. PICK D \in SUBSET Messages : build.threads \in [D -> Threads]
    BY <1>1 DEF BuildFits, BuildSet, ThreadMaps
  <2>2. Placed(home', build.threads)
    BY <1>1, <1>4, <2>1 DEF BuildFits, Placed
  <2> QED BY <1>1, <1>2, <2>2 DEF BuildFits
<1>8. PICK x : x = [NoTask EXCEPT !.pc = "queued", !.emb = indexes[live].emb]
  OBVIOUS
<1>9. x \in TaskSet /\ x.pc = "queued" /\ x.emb \in Embedders
  <2>1. PICK e \in Embedders : e = indexes[live].emb
    BY <1>1, <1>2, IndexAt DEF IndexesFit
  <2>2. PICK y \in TaskSet : y = NoTask
    BY NoTaskFits
  <2>3. x = [y EXCEPT !.pc = "queued", !.emb = e]
    BY <1>8, <2>1, <2>2
  <2> QED BY <2>3 DEF TaskSet
<1>10. task \in [Messages -> TaskSet]
  BY <1>1 DEF TasksFit
<1>11. task' \in [Messages -> TaskSet] /\ task'[m] = x /\ \A k \in Messages : k # m => task'[k] = task[k]
  BY <1>2, <1>8, <1>9, <1>10
<1>12. TasksFit'
  <2>1. TaskFits(m, x, home', indexes)
    BY <1>4, <1>9 DEF TaskFits
  <2>2. ASSUME NEW k \in Messages, k # m PROVE TaskFits(k, task[k], home', indexes)
    BY <1>1, <1>4, <2>2, TaskHomes DEF TasksFit
  <2> QED BY <1>2, <1>11, <2>1, <2>2 DEF TasksFit
<1>13. task[m].pc \notin {"notify", "add"}
  BY <1>1, <1>2, <1>3, TaskOf
<1>14. KeysOf(vectors) /\ Elsewhere(m, task, task')
  BY <1>1, <1>11 DEF StoreFits, RowFits, KeysOf, Elsewhere
<1>15. ASSUME NEW i, Current(i, indexes, vectors, task, missed)
       PROVE  Current(i, indexes, vectors, task', missed)
  BY <1>13, <1>14, <1>15, CurrentKept
<1>16. AllCurrent'
  BY <1>1, <1>2, <1>15 DEF AllCurrent
<1> QED BY <1>5, <1>6, <1>7, <1>12, <1>16 DEF VectorInv

\* The key of the chunk a task has come to.
LEMMA KeyAt ==
    ASSUME NEW m \in Messages, NEW w \in TaskSet, NEW hm, NEW ixs, TaskFits(m, w, hm, ixs),
           w.pc \in {"lookup", "commit", "notify", "add"}
    PROVE  <<m, w.next>> \in Keys
<1>1. PICK n \in Int, got \in Int, c \in Nat : n = w.next /\ got = w.got /\ c = Chunks[m]
  BY TaskFields, ChunksCounted
<1>2. 1 <= n /\ n <= got /\ got <= c
  BY <1>1 DEF TaskFits
<1>3. n \in 1 .. Chunks[m]
  BY <1>1, <1>2
<1> QED BY <1>1, <1>3, KeyOf

LEMMA CommitKeeps ==
    ASSUME VectorInv, NEW m \in Messages, Commit(m)
    PROVE  VectorInv'
<1>1. StoreFits /\ IndexesFit /\ BuildFits /\ TasksFit /\ AllCurrent
  BY DEF VectorInv
<1>2. PICK w \in TaskSet : w = task[m] /\ TaskFits(m, w, home, indexes) /\ w.pc = "commit"
  BY <1>1, TaskOf DEF Commit
<1>3. CASE w.emb.dim # tableDim
  <2>1. task' = [task EXCEPT ![m] = NoTask] /\ UNCHANGED <<storeVars, indexes, observer, live, build, missed, crashes>>
    BY <1>2, <1>3 DEF Commit, storeVars
  <2>2. NoTask \in TaskSet /\ TaskFits(m, NoTask, home, indexes)
    BY NoTaskFits
  <2> QED BY <1>2, <2>1, <2>2, TasksStep
<1>4. CASE w.emb.dim = tableDim
  <2>1. PICK key \in Keys : key = <<m, w.next>>
    BY <1>2, KeyAt
  <2>2. PICK e \in Embedders : e = w.emb
    BY <1>2 DEF TaskFits
  <2>r. PICK new : new = [key |-> key, model |-> w.emb.model, dim |-> w.emb.dim]
    OBVIOUS
  <2>3. /\ new = [key |-> key, model |-> w.emb.model, dim |-> w.emb.dim]
        /\ new.key = key /\ new.model = e.model /\ new.dim = e.dim
    BY <2>2, <2>r
  <2>4. PICK old \in SUBSET vectors : old = {v \in vectors : v.key # key \/ v.model # w.emb.model}
    OBVIOUS
  <2>5. PICK x : x = [w EXCEPT !.pc = "notify"]
    OBVIOUS
  <2>6. task \in [Messages -> TaskSet]
    BY <1>1 DEF TasksFit
  <2>7. vectors' = old \cup {new} /\ task' = [task EXCEPT ![m] = x]
    <3>1. vectors' = {v \in vectors : v.key # key \/ v.model # w.emb.model}
                        \cup {[key |-> key, model |-> w.emb.model, dim |-> w.emb.dim]}
      BY <1>2, <1>4, <2>1 DEF Commit
    <3>2. task' = [task EXCEPT ![m].pc = "notify"]
      BY <1>2, <1>4 DEF Commit
    <3> QED BY <1>2, <2>3, <2>4, <2>5, <3>1, <3>2
  <2>8. UNCHANGED <<home, stored, tableDim, indexes, observer, live, build, missed, gone, crashes>>
    BY DEF Commit
  <2>9. /\ x \in TaskSet /\ x.pc = "notify" /\ x.emb = w.emb /\ x.next = w.next /\ x.got = w.got
        /\ x.thread = w.thread
    BY <2>5 DEF TaskSet
  <2>10. task' \in [Messages -> TaskSet] /\ task'[m] = x /\ \A k \in Messages : k # m => task'[k] = task[k]
    BY <2>6, <2>7, <2>9
  <2>11. IsFiniteSet(vectors')
    BY <1>1, <2>7, FS_Subset, FS_AddElement DEF StoreFits
  <2>12. \A v \in vectors' : RowFits(v, tableDim)
    <3>1. RowFits(new, tableDim)
      BY <1>4, <2>2, <2>3 DEF RowFits
    <3> QED BY <1>1, <2>4, <2>7, <3>1 DEF StoreFits
  <2>13. StoreFits'
    BY <1>1, <2>8, <2>11, <2>12 DEF StoreFits
  <2>14. IndexesFit' /\ BuildFits'
    BY <1>1, <2>8 DEF IndexesFit, BuildFits
  <2>15. TaskFits(m, x, home, indexes)
    BY <1>2, <2>9 DEF TaskFits
  <2>16. TasksFit'
    BY <1>1, <2>8, <2>10, <2>15 DEF TasksFit
  <2>17. KeysOf(old) /\ Elsewhere(m, task, task')
    BY <1>1, <2>10 DEF StoreFits, RowFits, KeysOf, Elsewhere
  <2>18. ASSUME NEW i, Current(i, indexes, vectors, task, missed)
         PROVE  Current(i, indexes, vectors', task', missed)
    <3>1. Current(i, indexes, old, task', missed)
      BY <1>2, <2>17, <2>18, CurrentKept
    <3>2. new.key[1] = m /\ x.next = new.key[2] /\ x.emb.model = new.model
      BY <2>1, <2>2, <2>3, <2>9
    <3> QED BY <2>7, <2>9, <2>10, <3>1, <3>2 DEF Current
  <2>19. AllCurrent'
    BY <1>1, <2>8, <2>18 DEF AllCurrent
  <2> QED BY <2>13, <2>14, <2>16, <2>19 DEF VectorInv
<1> QED BY <1>3, <1>4

\* An index in place of another.
Replaced(ixs, i, y) == [ixs EXCEPT ![i] = y]

Instead(i, y, ixn) ==
    /\ ixn \in Seq(IndexSet) /\ DOMAIN ixn = DOMAIN indexes /\ Len(ixn) = Len(indexes)
    /\ ixn[i] = y /\ \A j \in DOMAIN indexes : j # i => ixn[j] = indexes[j]
    /\ \A j \in DOMAIN ixn : Fits(ixn[j], home, ixn[j].loose)
    /\ \A k \in Messages : TaskFits(k, task[k], home, ixn)

LEMMA IndexesReplaced ==
    ASSUME IndexesFit, TasksFit, NEW i \in DOMAIN indexes, NEW y,
           Fits(y, home, y.loose), y.emb = indexes[i].emb,
           DOMAIN indexes[i].threadByMsg \subseteq DOMAIN y.threadByMsg
    PROVE  Instead(i, y, Replaced(indexes, i, y))
<1>0. PICK ixn : ixn = [indexes EXCEPT ![i] = y]
  OBVIOUS
<1>1. PICK n \in Nat : n = Len(indexes) /\ DOMAIN indexes = 1 .. n
  BY IndexAt
<1>2. y \in IndexSet
  BY DEF Fits
<1>3. ixn \in Seq(IndexSet) /\ Len(ixn) = n /\ DOMAIN ixn = 1 .. n
  BY <1>0, <1>1, <1>2, ExceptSeq DEF IndexesFit
<1>4. ixn[i] = y /\ \A j \in DOMAIN indexes : j # i => ixn[j] = indexes[j]
  BY <1>0
<1>5. \A j \in DOMAIN ixn : Fits(ixn[j], home, ixn[j].loose)
  BY <1>1, <1>3, <1>4, IndexAt
<1>6. \A j \in DOMAIN indexes : /\ j \in DOMAIN ixn /\ ixn[j].emb = indexes[j].emb
                                /\ DOMAIN indexes[j].threadByMsg \subseteq DOMAIN ixn[j].threadByMsg
  BY <1>1, <1>3, <1>4
<1>7. \A k \in Messages : TaskFits(k, task[k], home, ixn)
  BY <1>6, TaskKept DEF TasksFit
<1> QED BY <1>0, <1>1, <1>3, <1>4, <1>5, <1>7 DEF Instead, Replaced

LEMMA NotifyKeeps ==
    ASSUME VectorInv, NEW m \in Messages, Notify(m)
    PROVE  VectorInv'
<1>1. StoreFits /\ IndexesFit /\ BuildFits /\ TasksFit /\ AllCurrent
  BY DEF VectorInv
<1>2. PICK w \in TaskSet : w = task[m] /\ TaskFits(m, w, home, indexes) /\ w.pc = "notify"
  BY <1>1, TaskOf DEF Notify
<1>3. PICK t \in Threads : t = home[m] /\ w.thread = t
  BY <1>2 DEF TaskFits
<1>4. PICK key \in Keys : key = <<m, w.next>> /\ key[1] = m /\ key[2] = w.next
  BY <1>2, KeyAt
<1>5. PICK n \in Nat : n = Len(indexes) /\ DOMAIN indexes = 1 .. n
  BY <1>1, LenProperties DEF IndexesFit
<1>6. missed' = IF build.pc = "scanned" THEN missed \cup {<<n, key>>} ELSE missed
  BY <1>2, <1>4, <1>5 DEF Notify
<1>7. UNCHANGED <<home, stored, vectors, tableDim, gone, observer, live, build, crashes>>
  BY DEF Notify, storeVars
<1>8. task \in [Messages -> TaskSet]
  BY <1>1 DEF TasksFit
<1>9. \A v \in vectors : v.key \in Keys /\ v.key[1] \in Messages /\ v.key = <<v.key[1], v.key[2]>>
  BY <1>1, KeyParts DEF StoreFits, RowFits
<1>10. StoreFits'
  BY <1>1, <1>7 DEF StoreFits
<1>11. CASE observer = 0 \/ indexes[observer].emb.model # w.emb.model
  <2>1. PICK x \in TaskSet : x = Advanced(w) /\ TaskFits(m, x, home, indexes) /\ x.pc \notin {"notify", "add"}
    <3>1. None \in Threads \cup {None}
      OBVIOUS
    <3> QED BY <1>2, <3>1, AdvancedFits
  <2>2. task' = [task EXCEPT ![m] = x] /\ indexes' = indexes
    BY <1>2, <1>11, <2>1 DEF Notify
  <2>3. task' \in [Messages -> TaskSet] /\ task'[m] = x /\ \A k \in Messages : k # m => task'[k] = task[k]
    BY <1>8, <2>2
  <2>4. IndexesFit' /\ BuildFits'
    BY <1>1, <1>7, <2>2 DEF IndexesFit, BuildFits
  <2>5. TasksFit'
    BY <1>1, <1>7, <2>1, <2>2, <2>3 DEF TasksFit
  <2>6. observer # 0 => Current(observer, indexes, vectors, task', missed')
    <3> SUFFICES ASSUME observer # 0, NEW v \in vectors, v.model = indexes[observer].emb.model
                 PROVE  LET u == task'[v.key[1]]
                        IN  \/ v.key \in Range(indexes[observer].keys)
                            \/ <<observer, v.key>> \in missed'
                            \/ /\ u.next = v.key[2] /\ u.emb.model = v.model
                               /\ u.pc = "notify" \/ (u.pc = "add" /\ u.thread[1] = observer)
      BY DEF Current
    <3>1. LET u == task[v.key[1]]
          IN  \/ v.key \in Range(indexes[observer].keys)
              \/ <<observer, v.key>> \in missed
              \/ /\ u.next = v.key[2] /\ u.emb.model = v.model
                 /\ u.pc = "notify" \/ (u.pc = "add" /\ u.thread[1] = observer)
      BY <1>1 DEF AllCurrent, Current
    <3>2. w.emb.model # v.model
      BY <1>11
    <3> QED BY <1>2, <1>6, <1>9, <2>3, <3>1, <3>2
  <2>7. build.pc = "scanned" => Current(n, indexes, vectors, task', missed')
    <3> SUFFICES ASSUME build.pc = "scanned", NEW v \in vectors, v.model = indexes[n].emb.model
                 PROVE  LET u == task'[v.key[1]]
                        IN  \/ v.key \in Range(indexes[n].keys)
                            \/ <<n, v.key>> \in missed'
                            \/ /\ u.next = v.key[2] /\ u.emb.model = v.model
                               /\ u.pc = "notify" \/ (u.pc = "add" /\ u.thread[1] = n)
      BY DEF Current
    <3>1. LET u == task[v.key[1]]
          IN  \/ v.key \in Range(indexes[n].keys)
              \/ <<n, v.key>> \in missed
              \/ /\ u.next = v.key[2] /\ u.emb.model = v.model
                 /\ u.pc = "notify" \/ (u.pc = "add" /\ u.thread[1] = n)
      BY <1>1, <1>5 DEF AllCurrent, Current
    <3>2. v.key[1] = m /\ v.key[2] = w.next => v.key = key
      BY <1>4, <1>9
    <3> QED BY <1>2, <1>6, <1>9, <2>3, <3>1, <3>2
  <2>8. AllCurrent'
    BY <1>5, <1>7, <2>2, <2>6, <2>7 DEF AllCurrent
  <2> QED BY <1>10, <2>4, <2>5, <2>8 DEF VectorInv
<1>12. CASE ~(observer = 0 \/ indexes[observer].emb.model # w.emb.model)
  <2>1. PICK o \in DOMAIN indexes : o = observer /\ indexes[o].emb.model = w.emb.model
    BY <1>1, <1>12 DEF IndexesFit
  <2>2. PICK y : y = Recorded(indexes[o], m, t)
    OBVIOUS
  <2>3. /\ Fits(y, home, y.loose) /\ y.emb = indexes[o].emb /\ y.keys = indexes[o].keys
        /\ DOMAIN y.threadByMsg = DOMAIN indexes[o].threadByMsg \cup {m}
    <3>1. Fits(indexes[o], home, indexes[o].loose)
      BY <1>1, IndexAt
    <3>2. Knows(home, indexes[o], m, y)
      BY <1>3, <2>2, <3>1, FitsNotified
    <3> QED BY <3>2 DEF Knows
  <2>4. PICK ixn : ixn = Replaced(indexes, o, y)
    OBVIOUS
  <2>5. PICK p : p = <<o, t>>
    OBVIOUS
  <2>6. PICK x : x = [w EXCEPT !.pc = "add", !.thread = p]
    OBVIOUS
  <2>7. indexes' = ixn /\ task' = [task EXCEPT ![m] = x]
    <3>1. indexes' = [indexes EXCEPT ![o] = Recorded(@, m, t)]
      <4>1. ~(observer = 0 \/ indexes[observer].emb.model # task[m].emb.model) /\ task[m].thread = t
        BY <1>2, <1>3, <1>12
      <4>2. indexes' = [indexes EXCEPT ![observer] = Recorded(@, m, task[m].thread)]
        BY <4>1 DEF Notify
      <4> QED BY <2>1, <4>1, <4>2
    <3>2. task' = [task EXCEPT ![m] = [@ EXCEPT !.pc = "add", !.thread = p]]
      BY <1>2, <1>3, <1>12, <2>1, <2>5 DEF Notify
    <3> QED BY <1>2, <2>2, <2>4, <2>6, <3>1, <3>2 DEF Replaced
  <2>8. p \in Threads \cup {None} \cup (Int \X Threads) /\ p[1] = o
    <3>1. o \in Int
      BY <1>5
    <3> QED BY <2>5, <3>1
  <2>9. x \in TaskSet
    BY <2>6, <2>8 DEF TaskSet
  <2>10. x.pc = "add" /\ x.emb = w.emb /\ x.next = w.next /\ x.got = w.got /\ x.thread = p
    BY <2>6 DEF TaskSet
  <2>11. task' \in [Messages -> TaskSet] /\ task'[m] = x /\ \A k \in Messages : k # m => task'[k] = task[k]
    BY <1>8, <2>7, <2>9
  <2>12. /\ ixn \in Seq(IndexSet) /\ DOMAIN ixn = DOMAIN indexes /\ Len(ixn) = Len(indexes)
         /\ ixn[o] = y /\ \A j \in DOMAIN indexes : j # o => ixn[j] = indexes[j]
         /\ \A j \in DOMAIN ixn : Fits(ixn[j], home, ixn[j].loose)
         /\ \A k \in Messages : TaskFits(k, task[k], home, ixn)
    <3>1. DOMAIN indexes[o].threadByMsg \subseteq DOMAIN y.threadByMsg
      BY <2>3
    <3>2. Instead(o, y, ixn)
      BY <1>1, <2>3, <2>4, <3>1, IndexesReplaced
    <3> QED BY <3>2 DEF Instead
  <2>13. IndexesFit'
    BY <1>1, <1>7, <2>7, <2>12 DEF IndexesFit
  <2>14. BuildFits'
    <3>1. indexes' # <<>>
      <4>1. o \in DOMAIN ixn
        BY <2>12
      <4> QED BY <2>7, <4>1
    <3> QED BY <1>1, <1>7, <3>1 DEF BuildFits
  <2>15. TaskFits(m, x, home, ixn)
    BY <1>2, <1>3, <2>1, <2>3, <2>5, <2>10, <2>12 DEF TaskFits
  <2>16. TasksFit'
    BY <1>7, <2>7, <2>11, <2>12, <2>15 DEF TasksFit
  <2>17. \A j \in DOMAIN indexes : ixn[j].emb = indexes[j].emb /\ ixn[j].keys = indexes[j].keys
    BY <2>3, <2>12
  <2>18. Current(o, ixn, vectors, task', missed')
    <3> SUFFICES ASSUME NEW v \in vectors, v.model = ixn[o].emb.model
                 PROVE  LET u == task'[v.key[1]]
                        IN  \/ v.key \in Range(ixn[o].keys)
                            \/ <<o, v.key>> \in missed'
                            \/ /\ u.next = v.key[2] /\ u.emb.model = v.model
                               /\ u.pc = "notify" \/ (u.pc = "add" /\ u.thread[1] = o)
      BY DEF Current
    <3>1. LET u == task[v.key[1]]
          IN  \/ v.key \in Range(indexes[o].keys)
              \/ <<o, v.key>> \in missed
              \/ /\ u.next = v.key[2] /\ u.emb.model = v.model
                 /\ u.pc = "notify" \/ (u.pc = "add" /\ u.thread[1] = o)
      BY <1>1, <1>12, <2>1, <2>17 DEF AllCurrent, Current
    <3>2. CASE v.key[1] = m
      BY <1>2, <1>6, <2>8, <2>10, <2>11, <2>17, <3>1, <3>2
    <3>3. CASE v.key[1] # m
      BY <1>6, <1>9, <2>11, <2>17, <3>1, <3>3
    <3> QED BY <3>2, <3>3
  <2>19. build.pc = "scanned" => Current(n, ixn, vectors, task', missed')
    <3> SUFFICES ASSUME build.pc = "scanned", NEW v \in vectors, v.model = ixn[n].emb.model
                 PROVE  LET u == task'[v.key[1]]
                        IN  \/ v.key \in Range(ixn[n].keys)
                            \/ <<n, v.key>> \in missed'
                            \/ /\ u.next = v.key[2] /\ u.emb.model = v.model
                               /\ u.pc = "notify" \/ (u.pc = "add" /\ u.thread[1] = n)
      BY DEF Current
    <3>0. n \in DOMAIN indexes
      BY <1>5, <2>1
    <3>1. LET u == task[v.key[1]]
          IN  \/ v.key \in Range(indexes[n].keys)
              \/ <<n, v.key>> \in missed
              \/ /\ u.next = v.key[2] /\ u.emb.model = v.model
                 /\ u.pc = "notify" \/ (u.pc = "add" /\ u.thread[1] = n)
      BY <1>1, <1>5, <2>17, <3>0 DEF AllCurrent, Current
    <3>2. v.key[1] = m /\ v.key[2] = w.next => v.key = key
      BY <1>4, <1>9
    <3>3. CASE v.key[1] = m
      BY <1>2, <1>6, <2>17, <3>0, <3>1, <3>2, <3>3
    <3>4. CASE v.key[1] # m
      BY <1>6, <1>9, <2>11, <2>17, <3>0, <3>1, <3>4
    <3> QED BY <3>3, <3>4
  <2>20. AllCurrent'
    BY <1>5, <1>7, <2>1, <2>7, <2>12, <2>18, <2>19 DEF AllCurrent
  <2> QED BY <1>10, <2>13, <2>14, <2>16, <2>20 DEF VectorInv
<1> QED BY <1>11, <1>12

LEMMA AddVectorKeeps ==
    ASSUME VectorInv, NEW m \in Messages, AddVector(m)
    PROVE  VectorInv'
<1>1. StoreFits /\ IndexesFit /\ BuildFits /\ TasksFit /\ AllCurrent
  BY DEF VectorInv
<1>2. PICK w \in TaskSet : w = task[m] /\ TaskFits(m, w, home, indexes) /\ w.pc = "add"
  BY <1>1, TaskOf DEF AddVector
<1>3. PICK o \in DOMAIN indexes : /\ w.thread = <<o, home[m]>> /\ indexes[o].emb.model = w.emb.model
                                  /\ m \in DOMAIN indexes[o].threadByMsg
  BY <1>2 DEF TaskFits
<1>4. PICK t \in Threads, e \in Embedders : t = home[m] /\ e = w.emb
  BY <1>2 DEF TaskFits
<1>5. PICK key \in Keys : key = <<m, w.next>> /\ key[1] = m /\ key[2] = w.next
  BY <1>2, KeyAt
<1>6. PICK ix \in IndexSet : ix = indexes[o] /\ Fits(ix, home, ix.loose) /\ ix.emb \in Embedders
  BY <1>1, IndexAt
<1>7. e.dim = ix.emb.dim
  BY <1>3, <1>4, <1>6, VectorAssumption
<1>8. PICK y : y = Add(ix, key, t, ix.emb.dim)
  OBVIOUS
<1>9. Fits(y, home, ix.loose) /\ WithKey(ix, key, y)
  <2>1. Fitting(ix, home, ix.loose, key, t)
    BY <1>3, <1>4, <1>5, <1>6 DEF Fitting
  <2> QED BY <1>6, <1>8, <2>1, AddFits
<1>10. /\ Fits(y, home, y.loose) /\ y.emb = indexes[o].emb
       /\ DOMAIN indexes[o].threadByMsg \subseteq DOMAIN y.threadByMsg
       /\ Range(y.keys) = Range(indexes[o].keys) \cup {key}
  BY <1>6, <1>9 DEF WithKey
<1>11. PICK ixn : ixn = Replaced(indexes, o, y)
  OBVIOUS
<1>12. Instead(o, y, ixn)
  BY <1>1, <1>10, <1>11, IndexesReplaced
<1>13. /\ ixn \in Seq(IndexSet) /\ DOMAIN ixn = DOMAIN indexes /\ Len(ixn) = Len(indexes)
       /\ ixn[o] = y /\ \A j \in DOMAIN indexes : j # o => ixn[j] = indexes[j]
       /\ \A j \in DOMAIN ixn : Fits(ixn[j], home, ixn[j].loose)
       /\ \A k \in Messages : TaskFits(k, task[k], home, ixn)
  BY <1>12 DEF Instead
<1>14. PICK x : x = Advanced([w EXCEPT !.thread = None])
  OBVIOUS
<1>15. x \in TaskSet /\ TaskFits(m, x, home, ixn) /\ x.pc \notin {"notify", "add"}
  <2>1. None \in Threads \cup {None}
    OBVIOUS
  <2> QED BY <1>2, <1>14, <2>1, AdvancedFits
<1>16. UNCHANGED <<home, stored, vectors, tableDim, gone, observer, live, build, missed, crashes>>
  BY DEF AddVector, storeVars
<1>17. indexes' = ixn /\ task' = [task EXCEPT ![m] = x]
  <2>1. w.thread[1] = o /\ w.thread[2] = t
    BY <1>3, <1>4
  <2>2. indexes' = [indexes EXCEPT ![w.thread[1]] = Add(@, <<m, w.next>>, w.thread[2], w.emb.dim)]
    BY <1>2 DEF AddVector
  <2>3. indexes' = [indexes EXCEPT ![o] = Add(ix, key, t, ix.emb.dim)]
    BY <1>4, <1>5, <1>6, <1>7, <2>1, <2>2
  <2>4. task' = [task EXCEPT ![m] = Advanced([w EXCEPT !.thread = None])]
    BY <1>2 DEF AddVector
  <2> QED BY <1>8, <1>11, <1>14, <2>3, <2>4 DEF Replaced
<1>18. task' \in [Messages -> TaskSet] /\ task'[m] = x /\ \A k \in Messages : k # m => task'[k] = task[k]
  BY <1>1, <1>15, <1>17 DEF TasksFit
<1>19. StoreFits'
  BY <1>1, <1>16 DEF StoreFits
<1>20. IndexesFit'
  BY <1>1, <1>13, <1>16, <1>17 DEF IndexesFit
<1>21. BuildFits'
  <2>1. o \in DOMAIN ixn
    BY <1>13
  <2>2. ixn # <<>>
    BY <2>1
  <2> QED BY <1>1, <1>16, <1>17, <2>2 DEF BuildFits
<1>22. TasksFit'
  BY <1>13, <1>15, <1>16, <1>17, <1>18 DEF TasksFit
<1>23. \A v \in vectors : v.key \in Keys /\ v.key[1] \in Messages /\ v.key = <<v.key[1], v.key[2]>>
  BY <1>1, KeyParts DEF StoreFits, RowFits
<1>24. ASSUME NEW i \in DOMAIN indexes, Current(i, indexes, vectors, task, missed)
       PROVE  Current(i, ixn, vectors, task', missed)
  <2> SUFFICES ASSUME NEW v \in vectors, v.model = ixn[i].emb.model
               PROVE  LET u == task'[v.key[1]]
                      IN  \/ v.key \in Range(ixn[i].keys)
                          \/ <<i, v.key>> \in missed
                          \/ /\ u.next = v.key[2] /\ u.emb.model = v.model
                             /\ u.pc = "notify" \/ (u.pc = "add" /\ u.thread[1] = i)
    BY DEF Current
  <2>1. ixn[i].emb = indexes[i].emb /\ Range(indexes[i].keys) \subseteq Range(ixn[i].keys)
    BY <1>10, <1>13
  <2>2. LET u == task[v.key[1]]
        IN  \/ v.key \in Range(indexes[i].keys)
            \/ <<i, v.key>> \in missed
            \/ /\ u.next = v.key[2] /\ u.emb.model = v.model
               /\ u.pc = "notify" \/ (u.pc = "add" /\ u.thread[1] = i)
    BY <1>24, <2>1 DEF Current
  <2>3. CASE v.key[1] # m
    BY <1>18, <1>23, <2>1, <2>2, <2>3
  <2>4. CASE v.key[1] = m /\ i = o
    <3>1. key \in Range(ixn[i].keys)
      BY <1>10, <1>13, <2>4
    <3>2. v.key[2] = w.next => v.key = key
      BY <1>5, <1>23, <2>4
    <3> QED BY <1>2, <2>1, <2>2, <2>4, <3>1, <3>2
  <2>5. CASE v.key[1] = m /\ i # o
    <3>1. w.thread[1] = o
      BY <1>3
    <3> QED BY <1>2, <2>1, <2>2, <2>5, <3>1
  <2> QED BY <2>3, <2>4, <2>5
<1>25. AllCurrent'
  <2>1. observer # 0 => observer \in DOMAIN indexes
    BY <1>1 DEF IndexesFit
  <2>2. Len(indexes) \in DOMAIN indexes /\ Len(ixn) = Len(indexes)
    BY <1>1, <1>13, IndexAt
  <2> QED BY <1>1, <1>16, <1>17, <1>24, <2>1, <2>2 DEF AllCurrent
<1> QED BY <1>19, <1>20, <1>21, <1>22, <1>25 DEF VectorInv

\* A step of the build that leaves the table and the indexes alone.
LEMMA BuildStep ==
    ASSUME VectorInv, BuildFits', build'.pc # "scanned", UNCHANGED <<storeVars, indexes, observer, task, missed>>,
           live' \in {0} \cup DOMAIN indexes
    PROVE  VectorInv'
<1>1. StoreFits'
  BY DEF VectorInv, StoreFits, storeVars
<1>2. IndexesFit'
  BY DEF VectorInv, IndexesFit, storeVars
<1>3. TasksFit'
  BY DEF VectorInv, TasksFit, storeVars
<1>4. AllCurrent'
  BY DEF VectorInv, AllCurrent, storeVars
<1> QED BY <1>1, <1>2, <1>3, <1>4 DEF VectorInv

LEMMA EmptyMap == <<>> \in ThreadMaps /\ DOMAIN <<>> = {}
<1>1. DOMAIN <<>> = {}
  BY EmptySeq
<1>2. PICK f \in [1 .. 0 -> Threads] : f = [m \in 1 .. 0 |-> m]
  <2>1. 1 .. 0 = {}
    OBVIOUS
  <2> QED BY <2>1
<1>3. f = <<>>
  <2>1. f \in Seq(Threads) /\ Len(f) = 0
    <3>1. 0 \in Nat
      OBVIOUS
    <3>2. f \in Seq(Threads)
      BY <1>2, <3>1, SeqDef
    <3>3. DOMAIN f = 1 .. 0
      BY <1>2
    <3> QED BY <3>2, <3>3, LenProperties
  <2> QED BY <2>1, EmptySeq
<1>4. 1 .. 0 = {}
  OBVIOUS
<1>5. <<>> \in [{} -> Threads]
  BY <1>2, <1>3, <1>4
<1> QED BY <1>1, <1>5 DEF ThreadMaps

\* No build is in progress.
LEMMA IdleFits ==
    ASSUME NEW hm, NEW e \in Embedders \cup {None}, NEW p \in {"idle", "probed"}
    PROVE  /\ [Idle EXCEPT !.pc = p, !.emb = e] \in BuildSet
           /\ [Idle EXCEPT !.pc = p, !.emb = e].pc = p /\ [Idle EXCEPT !.pc = p, !.emb = e].emb = e
           /\ Placed(hm, [Idle EXCEPT !.pc = p, !.emb = e].threads)
           /\ Idle \in BuildSet /\ Idle.pc = "idle" /\ Placed(hm, Idle.threads)
<1>1. PICK tm \in ThreadMaps : tm = <<>> /\ DOMAIN tm = {}
  BY EmptyMap
<1>2. Idle = [pc |-> "idle", emb |-> None, threads |-> tm]
  BY <1>1 DEF Idle
<1>3. Idle \in BuildSet /\ Idle.pc = "idle" /\ Idle.threads = tm
  BY <1>2 DEF BuildSet
<1>4. PICK b : b = [Idle EXCEPT !.pc = p, !.emb = e]
  OBVIOUS
<1>5. b \in BuildSet /\ b.pc = p /\ b.emb = e /\ b.threads = tm
  BY <1>3, <1>4 DEF BuildSet
<1>6. Placed(hm, tm)
  BY <1>1 DEF Placed
<1> QED BY <1>3, <1>4, <1>5, <1>6

LEMMA BuildFailsKeeps ==
    ASSUME VectorInv, BuildFails
    PROVE  VectorInv'
<1>1. /\ build' = Idle /\ UNCHANGED <<storeVars, indexes, observer, live, task, missed, crashes>>
  BY DEF BuildFails
<1>2. Idle \in BuildSet /\ Idle.pc = "idle" /\ Placed(home, Idle.threads)
  BY IdleFits
<1>3. BuildFits' /\ build'.pc # "scanned"
  BY <1>1, <1>2 DEF BuildFits, storeVars
<1>4. live' \in {0} \cup DOMAIN indexes
  BY <1>1 DEF VectorInv, IndexesFit
<1> QED BY <1>1, <1>3, <1>4, BuildStep

LEMMA InstallKeeps ==
    ASSUME VectorInv, Install
    PROVE  VectorInv'
<1>1. /\ build' = Idle /\ live' = observer /\ UNCHANGED <<storeVars, indexes, observer, task, missed, crashes>>
  BY DEF Install
<1>2. Idle \in BuildSet /\ Idle.pc = "idle" /\ Placed(home, Idle.threads)
  BY IdleFits
<1>3. BuildFits' /\ build'.pc # "scanned"
  BY <1>1, <1>2 DEF BuildFits, storeVars
<1>4. live' \in {0} \cup DOMAIN indexes
  BY <1>1 DEF VectorInv, IndexesFit
<1> QED BY <1>1, <1>3, <1>4, BuildStep

LEMMA MessageThreadsKeeps ==
    ASSUME VectorInv, MessageThreads
    PROVE  VectorInv'
<1>1. /\ build' = [build EXCEPT !.pc = "snapped", !.threads = [m \in stored |-> home[m]]]
      /\ UNCHANGED <<storeVars, indexes, observer, live, task, missed, crashes>> /\ build.pc = "probed"
  BY DEF MessageThreads
<1>2. StoreFits /\ BuildFits
  BY DEF VectorInv
<1>3. PICK tm : tm = [m \in stored |-> home[m]]
  OBVIOUS
<1>4. tm \in ThreadMaps /\ Placed(home, tm)
  <2>1. tm \in [stored -> Threads] /\ stored \in SUBSET Messages
    BY <1>2, <1>3 DEF StoreFits, Homes
  <2> QED BY <1>3, <2>1 DEF ThreadMaps, Placed
<1>5. build' \in BuildSet /\ build'.pc = "snapped" /\ build'.emb = build.emb /\ build'.threads = tm
  BY <1>1, <1>2, <1>3, <1>4 DEF BuildFits, BuildSet
<1>6. BuildFits'
  BY <1>1, <1>2, <1>4, <1>5 DEF BuildFits, storeVars
<1>7. live' \in {0} \cup DOMAIN indexes
  BY <1>1 DEF VectorInv, IndexesFit
<1> QED BY <1>1, <1>5, <1>6, <1>7, BuildStep

\* Fewer vectors, or fewer of the stored messages, leave the rest sound.
LEMMA CurrentFewer ==
    ASSUME NEW i, NEW ixs, NEW vs, NEW vn, NEW tasks, NEW missing, Current(i, ixs, vs, tasks, missing), vn \subseteq vs
    PROVE  Current(i, ixs, vn, tasks, missing)
BY DEF Current

LEMMA ProbeKeeps ==
    ASSUME VectorInv, NEW e \in Embedders, NEW answers \in BOOLEAN, Probe(e, answers)
    PROVE  VectorInv'
<1>1. StoreFits /\ IndexesFit /\ BuildFits /\ TasksFit /\ AllCurrent
  BY DEF VectorInv
<1>2. /\ build' = [Idle EXCEPT !.pc = "probed", !.emb = e]
      /\ UNCHANGED <<home, stored, indexes, observer, live, task, missed, gone, crashes>>
      /\ IF answers /\ e.dim # tableDim THEN tableDim' = e.dim /\ vectors' = {}
                                        ELSE UNCHANGED <<tableDim, vectors>>
  BY DEF Probe
<1>3. /\ build' \in BuildSet /\ build'.pc = "probed" /\ build'.emb = e /\ Placed(home, build'.threads)
  BY <1>2, IdleFits
<1>4. BuildFits'
  BY <1>2, <1>3 DEF BuildFits
<1>5. vectors' \subseteq vectors
  BY <1>2
<1>6. StoreFits'
  <2>1. IsFiniteSet(vectors')
    BY <1>1, <1>5, FS_Subset DEF StoreFits
  <2> QED BY <1>1, <1>2, <2>1 DEF StoreFits
<1>7. IndexesFit' /\ TasksFit'
  BY <1>1, <1>2 DEF IndexesFit, TasksFit
<1>8. AllCurrent'
  BY <1>1, <1>2, <1>3, <1>5, CurrentFewer DEF AllCurrent
<1> QED BY <1>4, <1>6, <1>7, <1>8 DEF VectorInv

LEMMA SetEmbeddingObserverKeeps ==
    ASSUME VectorInv, SetEmbeddingObserver
    PROVE  VectorInv'
<1>1. StoreFits /\ IndexesFit /\ BuildFits /\ TasksFit /\ AllCurrent
  BY DEF VectorInv
<1>2. /\ build.pc = "scanned" /\ observer' = Len(indexes) /\ build' = [build EXCEPT !.pc = "observed"]
      /\ UNCHANGED <<storeVars, indexes, live, task, missed, crashes>>
  BY DEF SetEmbeddingObserver
<1>3. build' \in BuildSet /\ build'.pc = "observed" /\ build'.emb = build.emb /\ build'.threads = build.threads
  BY <1>1, <1>2 DEF BuildFits, BuildSet
<1>4. indexes # <<>>
  BY <1>1, <1>2 DEF BuildFits
<1>5. BuildFits'
  BY <1>1, <1>2, <1>3, <1>4 DEF BuildFits, storeVars
<1>6. observer' \in {0} \cup DOMAIN indexes
  <2>1. PICK n \in Nat : n = Len(indexes) /\ DOMAIN indexes = 1 .. n
    BY <1>1, LenProperties DEF IndexesFit
  <2> QED BY <1>2, <2>1
<1>7. IndexesFit'
  BY <1>1, <1>2, <1>6 DEF IndexesFit, storeVars
<1>8. StoreFits' /\ TasksFit'
  BY <1>1, <1>2 DEF StoreFits, TasksFit, storeVars
<1>9. AllCurrent'
  BY <1>1, <1>2, <1>3 DEF AllCurrent, storeVars
<1> QED BY <1>5, <1>7, <1>8, <1>9 DEF VectorInv

LEMMA DeleteThreadKeeps ==
    ASSUME VectorInv, NEW t \in Threads, DeleteThread(t)
    PROVE  VectorInv'
<1>1. StoreFits /\ IndexesFit /\ BuildFits /\ TasksFit /\ AllCurrent
  BY DEF VectorInv
<1>2. /\ stored' \subseteq stored /\ vectors' \subseteq vectors
      /\ UNCHANGED <<home, tableDim, indexes, observer, live, build, task, missed, crashes>>
  BY DEF DeleteThread
<1>3. StoreFits'
  <2>1. IsFiniteSet(vectors')
    BY <1>1, <1>2, FS_Subset DEF StoreFits
  <2> QED BY <1>1, <1>2, <2>1 DEF StoreFits
<1>4. IndexesFit' /\ BuildFits' /\ TasksFit'
  BY <1>1, <1>2 DEF IndexesFit, BuildFits, TasksFit
<1>5. AllCurrent'
  BY <1>1, <1>2, CurrentFewer DEF AllCurrent
<1> QED BY <1>3, <1>4, <1>5 DEF VectorInv

\* Nothing is in memory.
LEMMA NothingFits ==
    /\ <<>> \in Seq(IndexSet) /\ DOMAIN <<>> = {}
    /\ [m \in Messages |-> NoTask] \in [Messages -> TaskSet]
    /\ \A m \in Messages : [k \in Messages |-> NoTask][m] = NoTask
<1>1. <<>> \in Seq(IndexSet) /\ DOMAIN <<>> = {}
  BY EmptySeq, EmptyMap
<1>2. NoTask \in TaskSet
  BY NoTaskFits
<1> QED BY <1>1, <1>2

LEMMA CrashKeeps ==
    ASSUME VectorInv, Crash
    PROVE  VectorInv'
<1>1. StoreFits
  BY DEF VectorInv
<1>2. /\ indexes' = <<>> /\ observer' = 0 /\ live' = 0 /\ build' = Idle
      /\ task' = [m \in Messages |-> NoTask] /\ UNCHANGED storeVars
  BY DEF Crash
<1>3. StoreFits'
  BY <1>1, <1>2 DEF StoreFits, storeVars
<1>4. IndexesFit'
  BY <1>2, NothingFits DEF IndexesFit
<1>5. Idle \in BuildSet /\ Idle.pc = "idle" /\ Placed(home', Idle.threads)
  BY IdleFits
<1>6. BuildFits'
  BY <1>2, <1>5 DEF BuildFits
<1>7. TasksFit'
  BY <1>2, NothingFits, NoTaskFits DEF TasksFit
<1>8. AllCurrent'
  BY <1>2, <1>5 DEF AllCurrent
<1> QED BY <1>3, <1>4, <1>6, <1>7, <1>8 DEF VectorInv

LEMMA InitFits ==
    ASSUME Init
    PROVE  VectorInv
<1>1. PICK s \in Stores : home = s.home /\ stored = s.stored /\ vectors = s.vectors /\ tableDim = s.dim
  BY DEF Init
<1>2. indexes = <<>> /\ observer = 0 /\ live = 0 /\ build = Idle /\ task = [m \in Messages |-> NoTask]
  BY DEF Init
<1>3. /\ s.home \in [Messages -> Threads \cup {None}] /\ s.stored \subseteq {m \in Messages : s.home[m] # None}
      /\ IsFiniteSet(s.vectors)
      /\ \A v \in s.vectors : /\ v.key \in Keys /\ v.dim = s.dim
                               /\ \E e \in Embedders : e.model = v.model /\ e.dim = v.dim
  BY VectorAssumption
<1>4. StoreFits
  BY <1>1, <1>3 DEF StoreFits, Homes, RowFits
<1>5. IndexesFit
  BY <1>2, NothingFits DEF IndexesFit
<1>6. Idle \in BuildSet /\ Idle.pc = "idle" /\ Placed(home, Idle.threads)
  BY IdleFits
<1>7. BuildFits
  BY <1>2, <1>6 DEF BuildFits
<1>8. TasksFit
  BY <1>2, NothingFits, NoTaskFits DEF TasksFit
<1>9. AllCurrent
  BY <1>2, <1>6 DEF AllCurrent
<1> QED BY <1>4, <1>5, <1>7, <1>8, <1>9 DEF VectorInv

\* The index a scan leaves.
Scanned(hm, L, e, threads, S, z) ==
    /\ Fits(z, hm, L) /\ z.emb = e /\ z.threadByMsg = threads /\ z.loose = L
    /\ S \subseteq Range(z.keys)

LEMMA ScanFits ==
    ASSUME NEW hm, NEW e \in Embedders, NEW threads \in ThreadMaps, Placed(hm, threads),
           NEW S, IsFiniteSet(S), S \subseteq Keys, NEW L \in SUBSET Messages,
           \A key \in S : key[1] \in DOMAIN threads \/ key[1] \in L,
           NEW dim, S # {} => dim = e.dim, NEW order \in SetToSeqs(S)
    PROVE  Scanned(hm, L, e, threads, S, [Filled(NewIndex(e, threads), order, dim) EXCEPT !.loose = L])
<1>1. PICK n \in Nat : /\ n = Cardinality(S) /\ order \in [1 .. n -> S]
                       /\ \A x \in S : \E i \in 1 .. n : order[i] = x
  BY OrderOf
<1>2. order \in [1 .. n -> Keys] /\ \A i \in 1 .. n : order[i] \in S
  BY <1>1
<1>3. n # 0 => dim = e.dim
  <2>1. n # 0 => 1 \in 1 .. n
    OBVIOUS
  <2>2. n # 0 => S # {}
    BY <1>2, <2>1
  <2> QED BY <2>2
<1>4. PICK y : y = Filled(NewIndex(e, threads), order, dim)
  OBVIOUS
<1>5. \A i \in 1 .. n : order[i][1] \in DOMAIN threads \/ order[i][1] \in L
  BY <1>2
<1>6. y \in Filling(hm, L, e, threads) /\ \A i \in 1 .. n : order[i] \in Range(y.keys)
  BY <1>2, <1>3, <1>4, <1>5, FillFits
<1>7. y \in IndexSet /\ Fits(y, hm, L) /\ y.emb = e /\ y.threadByMsg = threads
  BY <1>6 DEF Filling
<1>8. PICK z : z = [y EXCEPT !.loose = L]
  OBVIOUS
<1>9. /\ z \in IndexSet /\ z.emb = y.emb /\ z.dim = y.dim /\ z.threadByMsg = y.threadByMsg /\ z.keys = y.keys
      /\ z.graphs = y.graphs /\ z.loose = L /\ z.panicked = y.panicked
  BY <1>7, <1>8 DEF IndexSet
<1>10. Filed(z, hm, L)
  BY <1>7, <1>9 DEF Fits, Filed
<1>11. Fits(z, hm, L)
  BY <1>7, <1>9, <1>10 DEF Fits
<1>12. S \subseteq Range(z.keys)
  BY <1>1, <1>6, <1>9
<1> QED BY <1>4, <1>7, <1>8, <1>9, <1>11, <1>12 DEF Scanned

LEMMA ScanKeeps ==
    ASSUME VectorInv, Scan
    PROVE  VectorInv'
<1>1. StoreFits /\ IndexesFit /\ BuildFits /\ TasksFit /\ AllCurrent
  BY DEF VectorInv
<1>2. PICK e \in Embedders, threads \in ThreadMaps : e = build.emb /\ threads = build.threads /\ Placed(home, threads)
  BY <1>1 DEF BuildFits, BuildSet, Scan
<1>3. PICK S \in SUBSET Keys : S = EachChunkEmbeddingForModel(e.model) /\ IsFiniteSet(S)
  BY <1>1, RowsFinite
<1>4. PICK L \in SUBSET Messages : L = {key[1] : key \in S} \ DOMAIN threads
  <2>1. \A key \in S : key[1] \in Messages
    BY KeyParts
  <2> QED BY <2>1
<1>5. /\ build.pc = "snapped" /\ build' = [build EXCEPT !.pc = "scanned"]
      /\ UNCHANGED <<home, stored, vectors, tableDim, gone, observer, live, task, missed, crashes>>
  BY DEF Scan, storeVars
<1>6. PICK order \in SetToSeqs(S) :
        indexes' = Append(indexes, [Filled(NewIndex(e, threads), order, tableDim) EXCEPT !.loose = L])
  BY <1>2, <1>3, <1>4 DEF Scan
<1>7. PICK z : z = [Filled(NewIndex(e, threads), order, tableDim) EXCEPT !.loose = L]
  OBVIOUS
<1>8. /\ Fits(z, home, L) /\ z.emb = e /\ z.threadByMsg = threads /\ z.loose = L
      /\ S \subseteq Range(z.keys)
  <2>1. S # {} => tableDim = e.dim
    <3> SUFFICES ASSUME NEW key \in S PROVE tableDim = e.dim
      OBVIOUS
    <3>1. PICK v \in vectors : v.model = e.model
      BY <1>3 DEF EachChunkEmbeddingForModel
    <3>2. PICK f \in Embedders : f.model = v.model /\ f.dim = v.dim /\ v.dim = tableDim
      BY <1>1 DEF StoreFits, RowFits
    <3> QED BY <3>1, <3>2, VectorAssumption
  <2>2. \A key \in S : key[1] \in DOMAIN threads \/ key[1] \in L
    BY <1>4
  <2>3. Scanned(home, L, e, threads, S, z)
    BY <1>2, <1>3, <1>7, <2>1, <2>2, ScanFits
  <2> QED BY <2>3 DEF Scanned
<1>9. z \in IndexSet
  BY <1>8 DEF Fits
<1>10. PICK n \in Nat, id \in Nat : n = Len(indexes) /\ id = n + 1 /\ DOMAIN indexes = 1 .. n
  BY <1>1, LenProperties DEF IndexesFit
<1>11. /\ indexes' \in Seq(IndexSet) /\ Len(indexes') = id /\ DOMAIN indexes' = 1 .. id /\ indexes'[id] = z
       /\ \A i \in DOMAIN indexes : i \in 1 .. id /\ indexes'[i] = indexes[i]
  <2>1. indexes \in Seq(IndexSet)
    BY <1>1 DEF IndexesFit
  <2> QED BY <1>6, <1>7, <1>9, <1>10, <2>1, Appended
<1>12. StoreFits'
  BY <1>1, <1>5 DEF StoreFits
<1>13. IndexesFit'
  <2>1. \A i \in 1 .. id : i = id \/ i \in 1 .. n
    BY <1>10
  <2>2. \A i \in DOMAIN indexes' : Fits(indexes'[i], home, indexes'[i].loose)
    BY <1>1, <1>8, <1>10, <1>11, <2>1 DEF IndexesFit
  <2> QED BY <1>1, <1>5, <1>10, <1>11, <2>2 DEF IndexesFit
<1>14. id \in DOMAIN indexes' /\ indexes' # <<>>
  <2>1. id \in DOMAIN indexes'
    BY <1>10, <1>11
  <2> QED BY <2>1, EmptyMap
<1>15. build' \in BuildSet /\ build'.pc = "scanned" /\ build'.emb = build.emb /\ build'.threads = build.threads
  BY <1>1, <1>5 DEF BuildFits, BuildSet
<1>16. BuildFits'
  BY <1>1, <1>2, <1>5, <1>14, <1>15 DEF BuildFits
<1>17. TasksFit'
  <2>1. \A i \in DOMAIN indexes : /\ i \in DOMAIN indexes' /\ indexes'[i].emb = indexes[i].emb
                                  /\ DOMAIN indexes[i].threadByMsg \subseteq DOMAIN indexes'[i].threadByMsg
    BY <1>10, <1>11
  <2>2. \A m \in Messages : TaskFits(m, task[m], home, indexes')
    BY <1>1, <2>1, TaskKept DEF TasksFit
  <2> QED BY <1>1, <1>5, <2>2 DEF TasksFit
<1>18. Current(id, indexes', vectors, task, missed)
  <2>1. \A v \in vectors : v.model = e.model => v.key \in S
    BY <1>3 DEF EachChunkEmbeddingForModel
  <2> QED BY <1>8, <1>11, <2>1 DEF Current
<1>19. observer # 0 => Current(observer, indexes', vectors, task, missed)
  <2>1. observer # 0 => indexes'[observer] = indexes[observer]
    BY <1>1, <1>11 DEF IndexesFit
  <2> QED BY <1>1, <2>1 DEF AllCurrent, Current
<1>20. AllCurrent'
  BY <1>5, <1>11, <1>18, <1>19 DEF AllCurrent
<1> QED BY <1>12, <1>13, <1>16, <1>17, <1>20 DEF VectorInv

LEMMA StepKeeps ==
    ASSUME VectorInv, [Next]_vars
    PROVE  VectorInv'
<1>1. CASE UNCHANGED vars
  BY <1>1 DEF vars, VectorInv, StoreFits, IndexesFit, BuildFits, TasksFit, AllCurrent
<1>2. CASE \E m \in Messages, t \in Threads : Store(m, t)
  BY <1>2, StoreKeeps
<1>3. CASE \E m \in Messages : \E n \in 0 .. Chunks[m] : Embed(m, n)
  BY <1>3, EmbedKeeps
<1>4. CASE \E m \in Messages : Lookup(m)
  BY <1>4, LookupKeeps
<1>5. CASE \E m \in Messages : Commit(m)
  BY <1>5, CommitKeeps
<1>6. CASE \E m \in Messages : Notify(m)
  BY <1>6, NotifyKeeps
<1>7. CASE \E m \in Messages : AddVector(m)
  BY <1>7, AddVectorKeeps
<1>8. CASE \E e \in Embedders, answers \in BOOLEAN : Probe(e, answers)
  BY <1>8, ProbeKeeps
<1>9. CASE BuildFails
  BY <1>9, BuildFailsKeeps
<1>10. CASE MessageThreads
  BY <1>10, MessageThreadsKeeps
<1>11. CASE Scan
  BY <1>11, ScanKeeps
<1>12. CASE SetEmbeddingObserver
  BY <1>12, SetEmbeddingObserverKeeps
<1>13. CASE Install
  BY <1>13, InstallKeeps
<1>14. CASE \E t \in Threads : DeleteThread(t)
  BY <1>14, DeleteThreadKeeps
<1>15. CASE Crash
  BY <1>15, CrashKeeps
<1> QED
  BY <1>1, <1>2, <1>3, <1>4, <1>5, <1>6, <1>7, <1>8, <1>9, <1>10, <1>11, <1>12, <1>13, <1>14, <1>15 DEF Next

\* What the indexes, the table, the tasks and the build are of, and how they
\* hang together: the invariant that every step of the workers, of a build and
\* of a deletion keeps.
THEOREM VectorInvHolds == Spec => []VectorInv
<1>1. Init => VectorInv
  BY InitFits
<1>2. VectorInv /\ [Next]_vars => VectorInv'
  BY StepKeeps
<1> QED BY <1>1, <1>2, PTL DEF Spec

\* Every index of every run can be searched without a fault and has every chunk
\* in its place (service/annindex: graphs of any shape the draws make, any order of the
\* rows, any interleaving of workers, builds and deletions).
THEOREM IndexSoundHolds == Spec => []IndexSound
<1>1. ASSUME VectorInv PROVE IndexSound
  <2>1. ASSUME NEW i \in DOMAIN indexes
        PROVE  /\ ~indexes[i].panicked
               /\ indexes[i].dim \in {0, indexes[i].emb.dim}
               /\ \A r \in DOMAIN indexes[i].graphs : Navigable(indexes[i].graphs[r])
               /\ \A m \in DOMAIN indexes[i].threadByMsg : indexes[i].threadByMsg[m] = home[m]
               /\ Members(indexes[i], indexes[i].graphs[Global]) = Range(indexes[i].keys)
               /\ \A t \in Threads : \A key \in Members(indexes[i], indexes[i].graphs[t]) : home[key[1]] = t
               /\ \A key \in Range(indexes[i].keys) :
                   \/ key[1] \in indexes[i].loose
                   \/ /\ key[1] \in DOMAIN indexes[i].threadByMsg
                      /\ key \in Members(indexes[i], indexes[i].graphs[home[key[1]]])
    <3>1. PICK ix \in IndexSet : ix = indexes[i] /\ Fits(ix, home, ix.loose)
      BY <1>1, IndexAt DEF VectorInv
    <3>2. /\ ~ix.panicked /\ ix.dim \in {0, ix.emb.dim} /\ Placed(home, ix.threadByMsg)
          /\ Filed(ix, home, ix.loose)
      BY <3>1 DEF Fits
    <3>3. \A r \in DOMAIN ix.graphs : Navigable(ix.graphs[r])
      <4>1. DOMAIN ix.graphs = Routes /\ \A r \in Routes : ix.graphs[r] \in GraphSet(Codes)
        BY IndexFields
      <4>2. \A r \in Routes : Whole(ix.graphs[r])
        BY <3>1 DEF Fits, GraphOf
      <4> QED BY <4>1, <4>2, WholeNavigable
    <3>4. \A g : Members(ix, g) = Held(ix.keys, g)
      BY DEF Members, Held
    <3> QED BY <3>1, <3>2, <3>3, <3>4 DEF Placed, Filed
  <2> QED BY <2>1 DEF IndexSound
<1> QED BY <1>1, VectorInvHolds, PTL

\* No stored vector is lost to retrieval without a race: at every moment a vector
\* of the notified index's model is in that index, on its way to it, or was
\* notified to the one before it after its build had read the table.
THEOREM IndexCurrentHolds == Spec => []IndexCurrent
<1>1. ASSUME VectorInv PROVE IndexCurrent
  BY <1>1 DEF VectorInv, AllCurrent, Current, IndexCurrent
<1> QED BY <1>1, VectorInvHolds, PTL
-----------------------------------------------------------------------------
(* The retrievals.                                                          *)

\* Some positions of S by distance, none of the others nearer: at most k.
Ordered(d, S, k) ==
    {q \in Seq(S) : /\ Len(q) <= k
                    /\ \A i, j \in 1 .. Len(q) : i < j => d[q[i]] <= d[q[j]]
                    /\ \A i \in 1 .. Len(q) : \A x \in S \ Range(q) : d[q[i]] <= d[x]}

\* The nearest of the others comes next.
LEMMA OrderedNext ==
    ASSUME NEW n \in Nat, NEW d \in [1 .. n -> Int], NEW S \in SUBSET (1 .. n), NEW k \in Nat,
           NEW q \in Ordered(d, S, k), ~(S \subseteq Range(q))
    PROVE  Append(q, Nearest(d, S \ Range(q))) \in Ordered(d, S, k + 1)
<1>1. q \in Seq(S) /\ Len(q) \in Nat /\ Len(q) <= k
  BY LenProperties DEF Ordered
<1>2. PICK rest \in SUBSET (1 .. n) : rest = S \ Range(q) /\ rest # {}
  OBVIOUS
<1>3. PICK x \in rest : x = Nearest(d, rest) /\ \A j \in rest : Closer(d, x, j)
  BY <1>2, ClosestIn
<1>4. PICK m \in Nat, id \in Nat : m = Len(q) /\ id = m + 1
  BY <1>1
<1>5. PICK more : more = Append(q, x)
  OBVIOUS
<1>6. /\ more \in Seq(S) /\ Len(more) = id /\ more[id] = x
      /\ \A i \in 1 .. m : more[i] = q[i]
      /\ Range(more) = Range(q) \cup {x}
      /\ \A i \in 1 .. m : q[i] \in S
  <2>1. x \in S
    BY <1>2
  <2>2. DOMAIN q = 1 .. m
    BY <1>1, <1>4, LenProperties
  <2>3. \A i \in 1 .. m : q[i] \in S
    BY <1>1, <1>4, ElementOfSeq
  <2>4. /\ Append(q, x) \in Seq(S) /\ Len(Append(q, x)) = id /\ DOMAIN q = 1 .. m
        /\ Append(q, x)[id] = x
        /\ \A i \in DOMAIN q : i \in 1 .. id /\ Append(q, x)[i] = q[i]
        /\ Range(Append(q, x)) = Range(q) \cup {x}
    BY <1>1, <1>4, <2>1, Appended
  <2> QED BY <1>5, <2>3, <2>4
<1>7. \A j \in S : d[j] \in Int
  OBVIOUS
<1>8. \A j \in rest : d[x] <= d[j]
  BY <1>3, <1>7 DEF Closer
<1>9. /\ \A i, j \in 1 .. m : i < j => d[q[i]] <= d[q[j]]
      /\ \A i \in 1 .. m : \A y \in rest : d[q[i]] <= d[y]
  BY <1>2, <1>4 DEF Ordered
<1>10. ASSUME NEW i \in 1 .. id, NEW j \in 1 .. id, i < j PROVE d[more[i]] <= d[more[j]]
  <2>1. i \in 1 .. m
    BY <1>4, <1>10
  <2>2. CASE j = id
    BY <1>6, <1>9, <2>1, <2>2
  <2>3. CASE j # id
    <3>1. j \in 1 .. m
      BY <1>4, <2>3
    <3> QED BY <1>6, <1>9, <1>10, <2>1, <3>1
  <2> QED BY <2>2, <2>3
<1>11. ASSUME NEW i \in 1 .. id, NEW y \in S \ Range(more) PROVE d[more[i]] <= d[y]
  <2>1. y \in rest
    BY <1>2, <1>6
  <2>2. CASE i = id
    BY <1>6, <1>8, <2>1, <2>2
  <2>3. CASE i # id
    <3>1. i \in 1 .. m
      BY <1>4, <2>3
    <3> QED BY <1>6, <1>9, <2>1, <3>1
  <2> QED BY <2>2, <2>3
<1>12. Len(more) <= k + 1
  BY <1>1, <1>4, <1>6
<1> QED BY <1>2, <1>3, <1>5, <1>6, <1>10, <1>11, <1>12 DEF Ordered

\* Positions by distance are of the set, in their order.
LEMMA NearestFirstOrdered ==
    ASSUME NEW n \in Nat, NEW d \in [1 .. n -> Int], NEW S \in SUBSET (1 .. n)
    PROVE  NearestFirst(d, S) \in Ordered(d, S, n)
<1> DEFINE Op(q) == IF S \subseteq Range(q) THEN q ELSE Append(q, Nearest(d, S \ Range(q)))
           P(u) == u = [s \in SUBSET DOMAIN d |-> IF s = {} THEN <<>> ELSE Op(u[s \ {Max(s)}])]
           h    == CHOOSE u : P(u)
           X    == Ordered(d, S, n) \cup {h[s] : s \in SUBSET (1 .. n)}
           step == [p \in (1 .. n) \X X |-> Op(p[2])]
           T    == [k \in 0 .. n |-> Ordered(d, S, k)]
<1>1. NearestFirst(d, S) = h[DOMAIN d]
  BY Zenon DEF NearestFirst, FoldLeft, MapThenFoldSet
<1>2. ASSUME NEW k \in Nat, NEW q \in Ordered(d, S, k) PROVE Op(q) \in Ordered(d, S, k + 1)
  <2>1. CASE S \subseteq Range(q)
    <3>1. Len(q) <= k + 1
      BY LenProperties DEF Ordered
    <3> QED BY <2>1, <3>1 DEF Ordered
  <2>2. CASE ~(S \subseteq Range(q))
    BY <2>2, OrderedNext
  <2> QED BY <2>1, <2>2
<1>3. Ordered(d, S, n) \subseteq X /\ \A s \in SUBSET (1 .. n) : h[s] \in X
  OBVIOUS
<1>4. \A k \in 1 .. n : \A x \in X : step[<<k, x>>] = Op(x)
  OBVIOUS
<1>5. \A k \in 0 .. n : T[k] = Ordered(d, S, k)
  OBVIOUS
<1>6. ASSUME NEW j \in 0 .. n, NEW k \in 0 .. n, j <= k PROVE Ordered(d, S, j) \subseteq Ordered(d, S, k)
  <2> SUFFICES ASSUME NEW q \in Ordered(d, S, j) PROVE Len(q) <= k
    BY DEF Ordered
  <2>1. Len(q) \in Nat /\ Len(q) <= j
    BY LenProperties DEF Ordered
  <2> QED BY <1>6, <2>1
<1>7. \A s \in SUBSET (1 .. n) : s # {} => Max(s) \in 1 .. n /\ s \ {Max(s)} \in SUBSET (1 .. n)
  BY LastPosition
<1>8. DOMAIN d = 1 .. n
  OBVIOUS
<1>9. <<>> \in Ordered(d, S, 0)
  <2>1. <<>> \in Seq(S) /\ Len(<<>>) = 0 /\ 1 .. 0 = {}
    BY EmptySeq
  <2> QED BY <2>1 DEF Ordered
<1> HIDE DEF h, X, step, T, Op
<1>10. Carries(T, <<>>, step, n)
  <2>1. <<>> \in T[0]
    BY <1>5, <1>9
  <2>2. \A j, k \in 1 .. n : j <= k => T[j] \subseteq T[k]
    BY <1>5, <1>6
  <2>3. ASSUME NEW k \in 1 .. n, NEW x \in T[0] \cup T[k - 1] PROVE step[<<k, x>>] \in T[k]
    <3>1. k - 1 \in 0 .. n /\ 0 \in 0 .. n /\ k - 1 \in Nat /\ k \in 0 .. n
      OBVIOUS
    <3>2. Ordered(d, S, 0) \subseteq Ordered(d, S, k - 1)
      BY <1>6, <3>1
    <3>3. x \in Ordered(d, S, k - 1)
      BY <1>5, <3>1, <3>2
    <3>4. n \in 0 .. n
      OBVIOUS
    <3>5. Ordered(d, S, k - 1) \subseteq Ordered(d, S, n)
      BY <1>6, <3>1, <3>4
    <3>6. step[<<k, x>>] = Op(x)
      BY <1>3, <1>4, <3>3, <3>5
    <3>7. (k - 1) + 1 = k
      OBVIOUS
    <3> QED BY <1>2, <1>5, <3>1, <3>3, <3>6, <3>7
  <2> QED BY <2>1, <2>2, <2>3 DEF Carries
<1>11. ASSUME NEW f, Folding(f, <<>>, step, n), \A s \in SUBSET (1 .. n) : f[s] \in T[LastOf(s)]
       PROVE  Folding(h, <<>>, step, n)
  <2>1. \A s \in SUBSET (1 .. n) : f[s] \in X
    <3> SUFFICES ASSUME NEW s \in SUBSET (1 .. n) PROVE f[s] \in X
      OBVIOUS
    <3>1. LastOf(s) \in 0 .. n
      BY <1>7 DEF LastOf
    <3>2. n \in 0 .. n /\ LastOf(s) <= n
      BY <3>1
    <3>3. Ordered(d, S, LastOf(s)) \subseteq Ordered(d, S, n)
      BY <1>6, <3>1, <3>2
    <3>4. f[s] \in Ordered(d, S, LastOf(s))
      BY <1>5, <1>11, <3>1
    <3> QED BY <1>3, <3>3, <3>4
  <2>f. \A s \in SUBSET (1 .. n) : s # {} => step[<<Max(s), f[s \ {Max(s)}]>>] = Op(f[s \ {Max(s)}])
    BY <1>4, <1>7, <2>1
  <2>2. P(f)
    BY <1>8, <1>11, <2>f DEF Folding
  <2>3. P(h)
    BY <2>2 DEF h
  <2> QED BY <1>3, <1>4, <1>7, <1>8, <2>3 DEF Folding
<1>12. h[1 .. n] \in T[n]
  BY <1>10, <1>11, FoldingCarries
<1> QED BY <1>1, <1>5, <1>8, <1>12

\* A function of the naturals that doubles its argument until it stops.
Doubled(f, val, stop) == f = [m \in Nat |-> IF stop[m] THEN val[m] ELSE f[2 * m]]

\* There is one that stops at every number from n on.
LEMMA DoubledExists ==
    ASSUME NEW n \in Nat, NEW val, NEW stop, \A i \in Nat : i >= n => stop[i]
    PROVE  \E f : Doubled(f, val, stop)
<1> DEFINE Val(f, i)  == IF stop[i] THEN val[i] ELSE f[2 * i]
           Good(k, f) == f = [i \in Nat |-> f[i]] /\ \A i \in Nat : i + k >= n => f[i] = Val(f, i)
           W == {k \in Nat : \E f : Good(k, f)}
<1>1. 0 \in W
  <2>1. PICK f : f = [i \in Nat |-> val[i]]
    OBVIOUS
  <2>2. \A i \in Nat : i + 0 >= n => f[i] = Val(f, i)
    BY <2>1
  <2>3. Good(0, f)
    BY <2>1, <2>2
  <2> QED BY <2>3
<1>2. ASSUME NEW k \in Nat, k \in W PROVE k + 1 \in W
  <2>1. PICK f : Good(k, f)
    BY <1>2
  <2>2. PICK j \in Int : j = n - (k + 1)
    OBVIOUS
  <2>3. PICK g : g = [i \in Nat |-> IF i = j THEN Val(f, i) ELSE f[i]]
    OBVIOUS
  <2>4. ASSUME NEW i \in Nat, i + (k + 1) >= n PROVE g[i] = Val(g, i)
    <3>1. CASE stop[i]
      <4>1. i # j => i + k >= n
        BY <2>2, <2>4
      <4>2. g[i] = Val(f, i)
        BY <2>1, <2>3, <4>1
      <4> QED BY <3>1, <4>2
    <3>2. CASE ~stop[i] /\ i # 0
      <4>1. PICK q \in Nat : q = 2 * i /\ q > i
        BY <3>2
      <4>2. q # j
        BY <2>2, <2>4, <4>1
      <4> HIDE DEF Val
      <4>3. g[q] = f[q]
        BY <2>3, <4>2
      <4>4. Val(g, i) = Val(f, i)
        BY <4>1, <4>3 DEF Val
      <4>5. i # j => i + k >= n
        BY <2>2, <2>4
      <4>6. g[i] = Val(f, i)
        BY <2>1, <2>3, <4>5
      <4> QED BY <4>4, <4>6
    <3>3. CASE ~stop[i] /\ i = 0
      <4>1. 2 * i = i
        BY <3>3
      <4> QED BY <3>3, <4>1
    <3> QED BY <3>1, <3>2, <3>3
  <2>5. g = [i \in Nat |-> g[i]]
    BY <2>3
  <2> HIDE DEF Val
  <2>6. Good(k + 1, g)
    BY <2>4, <2>5
  <2> QED BY <2>6
<1>3. n \in W
  <2> HIDE DEF W
  <2>1. Nat \subseteq W
    BY <1>1, <1>2, NatSet
  <2> QED BY <2>1
<1> HIDE DEF Val
<1>4. PICK f : f = [i \in Nat |-> f[i]] /\ \A i \in Nat : i + n >= n => f[i] = Val(f, i)
  BY <1>3
<1>5. \A i \in Nat : f[i] = Val(f, i)
  <2>1. \A i \in Nat : i + n >= n
    OBVIOUS
  <2> QED BY <1>4, <2>1
<1>6. f = [i \in Nat |-> Val(f, i)]
  BY <1>4, <1>5
<1> QED BY <1>6 DEF Doubled, Val

\* From one on it stops at a value.
LEMMA DoubledStops ==
    ASSUME NEW n \in Nat, NEW R, NEW val \in [Nat -> R], NEW stop, \A i \in Nat : i >= n => stop[i],
           NEW f, Doubled(f, val, stop), NEW m \in Nat \ {0}
    PROVE  f[m] \in R
<1> DEFINE W == {k \in Nat : \A i \in Nat \ {0} : i + k >= n => f[i] \in R}
<1>1. \A i \in Nat : f[i] = IF stop[i] THEN val[i] ELSE f[2 * i]
  BY DEF Doubled
<1>2. 0 \in W
  <2>1. \A i \in Nat \ {0} : i + 0 >= n => f[i] \in R
    <3> TAKE i \in Nat \ {0}
    <3>1. i + 0 >= n => stop[i]
      OBVIOUS
    <3> QED BY <1>1, <3>1
  <2> QED BY <2>1
<1>3. ASSUME NEW k \in Nat, k \in W PROVE k + 1 \in W
  <2> SUFFICES ASSUME NEW i \in Nat \ {0}, i + (k + 1) >= n PROVE f[i] \in R
    OBVIOUS
  <2>1. CASE stop[i]
    BY <1>1, <2>1
  <2>2. CASE ~stop[i]
    <3>1. PICK q \in Nat \ {0} : q = 2 * i /\ q + k >= n
      OBVIOUS
    <3>2. f[q] \in R
      BY <1>3, <3>1
    <3> QED BY <1>1, <2>2, <3>1, <3>2
  <2> QED BY <2>1, <2>2
<1>4. n \in W
  <2> HIDE DEF W
  <2>1. Nat \subseteq W
    BY <1>2, <1>3, NatSet
  <2> QED BY <2>1
<1> QED BY <1>4

\* Descending by score.
Descending(s) == \A i, j \in 1 .. Len(s) : i < j => Score[s[i]] >= Score[s[j]]

\* Chunks by score are the chunks, in descending order.
LEMMA ByScoreSorted ==
    ASSUME NEW S \in SUBSET Keys, NEW keys \in Seq(S)
    PROVE  ByScore(keys) \in Seq(S) /\ Descending(ByScore(keys)) /\ Len(ByScore(keys)) <= Len(keys)
<1>1. PICK n \in Nat : n = Len(keys) /\ DOMAIN keys = 1 .. n
  BY LenProperties
<1>2. \A i \in 1 .. n : keys[i] \in S /\ Score[keys[i]] \in Int
  BY <1>1, ElementOfSeq, VectorAssumption
<1>3. PICK d : d = [i \in DOMAIN keys |-> -Score[keys[i]]]
  OBVIOUS
<1>4. d \in [1 .. n -> Int] /\ \A i \in 1 .. n : d[i] = -Score[keys[i]]
  <2>1. \A i \in 1 .. n : -Score[keys[i]] \in Int
    BY <1>2
  <2> QED BY <1>1, <1>3, <2>1
<1>5. PICK q : q = NearestFirst(d, DOMAIN keys)
  OBVIOUS
<1>6. q \in Ordered(d, 1 .. n, n)
  BY <1>1, <1>4, <1>5, NearestFirstOrdered
<1>7. PICK m \in Nat : m = Len(q) /\ m <= n /\ DOMAIN q = 1 .. m /\ \A i \in 1 .. m : q[i] \in 1 .. n
  <2>1. q \in Seq(1 .. n) /\ Len(q) <= n
    BY <1>6 DEF Ordered
  <2>2. Len(q) \in Nat /\ DOMAIN q = 1 .. Len(q) /\ \A i \in 1 .. Len(q) : q[i] \in 1 .. n
    BY <2>1, LenProperties, ElementOfSeq
  <2> QED BY <2>1, <2>2
<1>8. PICK r : r = [i \in 1 .. m |-> keys[q[i]]]
  OBVIOUS
<1>9. r = ByScore(keys)
  BY <1>1, <1>3, <1>5, <1>7, <1>8 DEF ByScore
<1>10. \A i \in 1 .. m : r[i] \in S /\ r[i] = keys[q[i]]
  BY <1>2, <1>7, <1>8
<1>11. r \in Seq(S) /\ Len(r) = m
  <2>1. r \in Seq(S)
    BY <1>8, <1>10, IsASeq
  <2>2. DOMAIN r = 1 .. m
    BY <1>8
  <2> QED BY <2>1, <2>2, LenProperties
<1>12. ASSUME NEW i \in 1 .. m, NEW j \in 1 .. m, i < j PROVE Score[r[i]] >= Score[r[j]]
  <2>1. d[q[i]] <= d[q[j]]
    BY <1>6, <1>7, <1>12 DEF Ordered
  <2>2. q[i] \in 1 .. n /\ q[j] \in 1 .. n
    BY <1>7
  <2>3. Score[keys[q[i]]] \in Int /\ Score[keys[q[j]]] \in Int
    BY <1>2, <2>2
  <2>4. -Score[keys[q[i]]] <= -Score[keys[q[j]]]
    BY <1>4, <2>1, <2>2
  <2> QED BY <1>10, <2>3, <2>4
<1> QED BY <1>1, <1>7, <1>9, <1>11, <1>12 DEF Descending

\* Vectors found in a graph are of its nodes, at most all of them.
LEMMA SearchFinds ==
    ASSUME NEW C, Finite(C), NEW g \in GraphSet(C), Whole(g), NEW n \in Nat, n = Len(g.nodes),
           NEW code, IsFiniteSet(code), NEW k \in Nat, NEW ef \in Nat \ {0}
    PROVE  search(g, code, k, ef) \in Seq({g.nodes[i].vid : i \in 1 .. n}) /\ Len(search(g, code, k, ef)) <= n
<1> DEFINE V == {g.nodes[i].vid : i \in 1 .. n}
<1>1. PICK top \in Nat, entry \in Nat : top = g.top /\ entry = g.entry /\ DOMAIN g.nodes = 1 .. n
  BY GraphType
<1>2. CASE entry = 0
  <2>1. search(g, code, k, ef) = <<>>
    BY <1>1, <1>2 DEF search
  <2>2. <<>> \in Seq(V) /\ Len(<<>>) = 0
    BY EmptySeq
  <2> HIDE DEF V
  <2> QED BY <2>1, <2>2 DEF V
<1>3. CASE entry # 0
  <2>1. PICK d \in [1 .. n -> Nat] : d = Distances(g, code)
    <3>1. \A i \in 1 .. n : Hamming(code, g.nodes[i].code) \in Nat
      BY <1>1, GraphType, HammingType DEF Finite
    <3> QED BY <1>1, <3>1 DEF Distances
  <2>2. PICK id \in Nat : id = n + 1
    OBVIOUS
  <2>3. \A l : Before(g, id, l) = On(g, l)
    BY <1>1, <2>2 DEF Before, On
  <2>4. \A l : Apart(g, id, l)
    <3> SUFFICES ASSUME NEW l, NEW i \in Before(g, id, l), NEW nb \in Range(g.nodes[i].conns[l]) PROVE nb # id
      BY DEF Apart
    <3>1. i \in DOMAIN g.nodes /\ l \in DOMAIN g.nodes[i].conns
      BY <2>3 DEF On
    <3>2. nb \in On(g, l)
      BY <3>1 DEF Whole, Linked
    <3> QED BY <1>1, <2>2, <3>2 DEF On
  <2>5. Linked(g) /\ g.entry \in On(g, g.top)
    BY <1>1, <1>3 DEF Whole
  <2>6. \A l \in 0 .. g.top : Apart(g, id, l) /\ g.entry \in Before(g, id, l)
    <3> SUFFICES ASSUME NEW l \in 0 .. g.top PROVE g.entry \in On(g, l)
      BY <2>3, <2>4
    <3>1. On(g, g.top) \subseteq On(g, l)
      BY <1>1, OnBelow
    <3> QED BY <2>5, <3>1
  <2>7. PICK ep : ep = Descend(g, d, 0)
    OBVIOUS
  <2>8. ep \in On(g, 0)
    <3>1. 0 \in Nat /\ 0 \in 0 .. 0 /\ 0 <= g.top
      BY <1>1
    <3>2. \A l \in 0 .. 0 : l <= g.top => Descend(g, d, 0) \in Before(g, id, l)
      BY <2>5, <2>6, <3>1, DescendStays
    <3> QED BY <2>3, <2>7, <3>1, <3>2
  <2>9. PICK L \in SUBSET (1 .. n) : L = On(g, 0)
    BY <1>1 DEF On
  <2>10. \A i \in L : g.nodes[i].conns[0] \in Seq(L)
    BY <2>3, <2>4, <2>5, <2>9, ApartLinks
  <2>11. PICK wide \in Nat \ {0} : wide = Max({ef, k})
    <3>1. Max({ef, k}) = IF ef < k THEN k ELSE ef
      BY OfTwo
    <3> QED BY <3>1
  <2>12. PICK res : res = searchLayer(g, d, ep, wide, 0)
    OBVIOUS
  <2>13. res \in Seq(L) /\ Arranged(d, L, res)
    BY <1>1, <2>8, <2>9, <2>10, <2>12, SearchStays
  <2>14. PICK m \in Nat : m = Len(res) /\ m <= n /\ \A i \in 1 .. m : res[i] \in 1 .. n
    <3>1. PICK R \in SUBSET L : res = NearestFirst(d, R)
      BY <2>13 DEF Arranged
    <3>2. d \in [1 .. n -> Int] /\ R \in SUBSET (1 .. n)
      OBVIOUS
    <3>3. Len(res) <= n
      BY <3>1, <3>2, NearestFirstOrdered DEF Ordered
    <3>4. Len(res) \in Nat /\ \A i \in 1 .. Len(res) : res[i] \in L
      BY <2>13, LenProperties, ElementOfSeq
    <3> QED BY <3>3, <3>4
  <2>15. PICK f \in Nat : f = Min({Len(res), k}) /\ f <= m
    <3>1. Min({m, k}) = IF m < k THEN m ELSE k
      BY OfTwo
    <3> QED BY <2>14, <3>1
  <2>16. PICK r : r = [i \in 1 .. f |-> g.nodes[res[i]].vid]
    OBVIOUS
  <2>17. search(g, code, k, ef) = r
    BY <1>1, <1>3, <2>1, <2>7, <2>11, <2>12, <2>15, <2>16 DEF search, Reached
  <2>18. \A i \in 1 .. f : g.nodes[res[i]].vid \in V
    <3> SUFFICES ASSUME NEW i \in 1 .. f PROVE g.nodes[res[i]].vid \in V
      OBVIOUS
    <3>1. i \in 1 .. m
      BY <2>15
    <3> QED BY <2>14, <3>1
  <2> HIDE DEF V
  <2>19. r \in Seq(V)
    BY <2>16, <2>18, IsASeq
  <2>20. Len(r) = f
    BY <2>16, <2>19, LenProperties
  <2> QED BY <2>14, <2>15, <2>17, <2>19, <2>20 DEF V
<1> QED BY <1>1, <1>2, <1>3

\* An index that can be searched on every route.
Searchable(ix) == ix \in IndexSet /\ \A r \in Routes : GraphOf(ix.keys, ix.graphs[r])

\* What a search of a route returns is of the route, by descending score, at
\* most one chunk for every node.
LEMMA IndexSearchSorted ==
    ASSUME NEW ix, Searchable(ix), NEW r \in Routes, NEW n \in Nat
    PROVE  /\ IndexSearch(ix, n, r) \in Seq(Held(ix.keys, ix.graphs[r]))
           /\ Descending(IndexSearch(ix, n, r))
           /\ Len(IndexSearch(ix, n, r)) <= Len(ix.graphs[r].nodes)
<1>1. PICK ks \in Seq(Keys), g \in GraphSet(Codes) : ks = ix.keys /\ g = ix.graphs[r]
  BY IndexFields DEF Searchable
<1>2. GraphOf(ks, g)
  BY <1>1 DEF Searchable
<1>3. PICK k \in Nat : k = Len(g.nodes) /\ DOMAIN g.nodes = 1 .. k
  BY GraphType
<1>4. PICK S \in SUBSET Keys : S = Held(ks, g)
  BY <1>2, HeldOf
<1>5. PICK V : V = {g.nodes[i].vid : i \in 1 .. k}
  OBVIOUS
<1>6. \A v \in V : ks[v] \in S
  BY <1>3, <1>4, <1>5 DEF Held
<1>7. PICK res : res = search(g, QueryCode, n, Ef)
  OBVIOUS
<1>8. res \in Seq(V) /\ Len(res) <= k
  <2>1. IsFiniteSet(QueryCode) /\ Ef \in Nat \ {0} /\ Finite(Codes) /\ Whole(g)
    BY <1>2, VectorAssumption, CodesFinite DEF GraphOf
  <2> QED BY <1>3, <1>5, <1>7, <2>1, SearchFinds
<1>9. PICK m \in Nat : m = Len(res) /\ DOMAIN res = 1 .. m /\ m <= k /\ \A i \in 1 .. m : res[i] \in V
  BY <1>8, LenProperties, ElementOfSeq
<1>10. PICK q : q = [i \in 1 .. m |-> ks[res[i]]]
  OBVIOUS
<1>11. \A i \in 1 .. m : ks[res[i]] \in S
  BY <1>6, <1>9
<1>12. q \in Seq(S)
  BY <1>10, <1>11, IsASeq
<1>13. Len(q) = m
  BY <1>10, <1>12, LenProperties
<1>14. IndexSearch(ix, n, r) = ByScore(q)
  BY <1>1, <1>7, <1>9, <1>10 DEF IndexSearch
<1>15. ByScore(q) \in Seq(S) /\ Descending(ByScore(q)) /\ Len(ByScore(q)) <= m
  BY <1>12, <1>13, ByScoreSorted
<1>16. Len(ByScore(q)) \in Nat
  BY <1>15, LenProperties
<1> QED BY <1>1, <1>3, <1>4, <1>9, <1>14, <1>15, <1>16

\* Chunks of a message each, that pass, by descending score, none below the
\* chunks from position k on.
Firsts(cands, pass, k) ==
    {q \in Seq(pass) : /\ Distinct(q) /\ Descending(q)
                       /\ \A i \in 1 .. Len(q) : \A p \in (k + 1) .. Len(cands) : Score[q[i]] >= Score[cands[p]]}

\* The next chunk of a descending list: passed over, or the first of its message.
LEMMA FirstsNext ==
    ASSUME NEW S \in SUBSET Keys, NEW cands \in Seq(S), Descending(cands), NEW pass \in SUBSET S,
           NEW k \in Nat, k + 1 \in 1 .. Len(cands), NEW q \in Firsts(cands, pass, k),
           NEW key, key = cands[k + 1]
    PROVE  (IF key \in pass /\ \A i \in DOMAIN q : q[i][1] # key[1] THEN Append(q, key) ELSE q)
              \in Firsts(cands, pass, k + 1)
<1>1. PICK m \in Nat, id \in Nat : m = Len(q) /\ id = m + 1 /\ q \in Seq(pass) /\ DOMAIN q = 1 .. m
  BY LenProperties DEF Firsts
<1>2. PICK n \in Nat, k1 \in Nat : n = Len(cands) /\ k1 = k + 1 /\ k1 \in 1 .. n
  BY LenProperties
<1>3. \A p \in 1 .. n : cands[p] \in S /\ Score[cands[p]] \in Int
  BY <1>2, ElementOfSeq, VectorAssumption
<1>4. \A i \in 1 .. m : q[i] \in pass /\ Score[q[i]] \in Int
  BY <1>1, ElementOfSeq, VectorAssumption
<1>5. /\ \A i, j \in 1 .. m : i # j => q[i][1] # q[j][1]
      /\ \A i, j \in 1 .. m : i < j => Score[q[i]] >= Score[q[j]]
      /\ \A i \in 1 .. m : \A p \in k1 .. n : Score[q[i]] >= Score[cands[p]]
  BY <1>1, <1>2 DEF Firsts, Distinct, Descending
<1>6. \A p \in (k1 + 1) .. n : p \in k1 .. n /\ p \in 1 .. n /\ k1 < p
  BY <1>2
<1>7. CASE key \in pass /\ \A i \in DOMAIN q : q[i][1] # key[1]
  <2>1. PICK more : more = Append(q, key)
    OBVIOUS
  <2>2. /\ more \in Seq(pass) /\ Len(more) = id /\ more[id] = key
        /\ \A i \in 1 .. m : more[i] = q[i]
    BY <1>1, <1>7, <2>1, AppendProperties
  <2>3. DOMAIN more = 1 .. id
    BY <2>2, LenProperties
  <2>4. \A i \in 1 .. id : i = id \/ i \in 1 .. m
    BY <1>1
  <2>5. Distinct(more)
    <3> SUFFICES ASSUME NEW i \in 1 .. id, NEW j \in 1 .. id, i # j PROVE more[i][1] # more[j][1]
      BY <2>3 DEF Distinct
    <3> QED BY <1>1, <1>5, <1>7, <2>2, <2>4
  <2>6. Descending(more)
    <3> SUFFICES ASSUME NEW i \in 1 .. id, NEW j \in 1 .. id, i < j PROVE Score[more[i]] >= Score[more[j]]
      BY <2>2 DEF Descending
    <3>1. i \in 1 .. m
      BY <1>1
    <3>2. CASE j = id
      <4>1. k1 \in k1 .. n
        BY <1>2
      <4>2. Score[q[i]] >= Score[cands[k1]]
        BY <1>5, <3>1, <4>1
      <4> QED BY <1>2, <2>2, <3>1, <3>2, <4>2
    <3>3. CASE j \in 1 .. m
      BY <1>5, <2>2, <3>1, <3>3
    <3> QED BY <2>4, <3>2, <3>3
  <2>7. ASSUME NEW i \in 1 .. id, NEW p \in (k1 + 1) .. n PROVE Score[more[i]] >= Score[cands[p]]
    <3>1. CASE i = id
      <4>1. \A a, b \in 1 .. n : a < b => Score[cands[a]] >= Score[cands[b]]
        BY <1>2 DEF Descending
      <4> QED BY <1>2, <1>6, <2>2, <3>1, <4>1
    <3>2. CASE i \in 1 .. m
      BY <1>5, <1>6, <2>2, <3>2
    <3> QED BY <2>4, <3>1, <3>2
  <2>8. more \in Firsts(cands, pass, k + 1)
    BY <1>2, <2>2, <2>5, <2>6, <2>7 DEF Firsts
  <2> QED BY <1>7, <2>1, <2>8
<1>8. CASE ~(key \in pass /\ \A i \in DOMAIN q : q[i][1] # key[1])
  <2>1. Distinct(q) /\ Descending(q)
    BY DEF Firsts
  <2>2. \A i \in 1 .. m : \A p \in (k1 + 1) .. n : Score[q[i]] >= Score[cands[p]]
    BY <1>5, <1>6
  <2>3. q \in Firsts(cands, pass, k + 1)
    BY <1>1, <1>2, <2>1, <2>2 DEF Firsts
  <2> QED BY <1>8, <2>3
<1> QED BY <1>7, <1>8

\* The first chunks of messages: each passes, a message once, in order.
LEMMA FirstChunksOf ==
    ASSUME NEW S \in SUBSET Keys, NEW cands \in Seq(S), Descending(cands), NEW pass \in SUBSET S
    PROVE  /\ FirstChunks(cands, pass) \in Seq(pass)
           /\ Distinct(FirstChunks(cands, pass)) /\ Descending(FirstChunks(cands, pass))
<1>0. PICK n \in Nat : n = Len(cands) /\ DOMAIN cands = 1 .. n
  BY LenProperties
<1> DEFINE Op(q, key) == IF key \in pass /\ \A i \in DOMAIN q : q[i][1] # key[1] THEN Append(q, key) ELSE q
           P(u) == u = [s \in SUBSET DOMAIN cands |-> IF s = {} THEN <<>> ELSE Op(u[s \ {Max(s)}], cands[Max(s)])]
           h    == CHOOSE u : P(u)
           X    == Firsts(cands, pass, n) \cup {h[s] : s \in SUBSET (1 .. n)}
           step == [p \in (1 .. n) \X X |-> Op(p[2], cands[p[1]])]
           T    == [k \in 0 .. n |-> Firsts(cands, pass, k)]
<1>1. FirstChunks(cands, pass) = h[DOMAIN cands]
  BY Zenon DEF FirstChunks, FoldLeft, MapThenFoldSet
<1>2. ASSUME NEW k \in Nat, k + 1 \in 1 .. n, NEW q \in Firsts(cands, pass, k)
      PROVE  Op(q, cands[k + 1]) \in Firsts(cands, pass, k + 1)
  <2> HIDE DEF h, X, step, T, P
  <2> QED BY <1>0, <1>2, FirstsNext
<1>3. Firsts(cands, pass, n) \subseteq X /\ \A s \in SUBSET (1 .. n) : h[s] \in X
  OBVIOUS
<1>4. \A k \in 1 .. n : \A x \in X : step[<<k, x>>] = Op(x, cands[k])
  OBVIOUS
<1>5. \A k \in 0 .. n : T[k] = Firsts(cands, pass, k)
  OBVIOUS
<1>6. ASSUME NEW j \in 0 .. n, NEW k \in 0 .. n, j <= k PROVE Firsts(cands, pass, j) \subseteq Firsts(cands, pass, k)
  <2>1. \A p \in (k + 1) .. Len(cands) : p \in (j + 1) .. Len(cands)
    BY <1>0, <1>6
  <2> QED BY <2>1 DEF Firsts
<1>7. \A s \in SUBSET (1 .. n) : s # {} => Max(s) \in 1 .. n /\ s \ {Max(s)} \in SUBSET (1 .. n)
  BY LastPosition
<1>8. <<>> \in Firsts(cands, pass, 0)
  <2>1. <<>> \in Seq(pass) /\ Len(<<>>) = 0 /\ 1 .. 0 = {} /\ DOMAIN <<>> = {}
    BY EmptySeq
  <2> QED BY <2>1 DEF Firsts, Distinct, Descending
<1> HIDE DEF h, X, step, T, Op
<1>9. Carries(T, <<>>, step, n)
  <2>1. <<>> \in T[0]
    BY <1>5, <1>8
  <2>2. \A j, k \in 1 .. n : j <= k => T[j] \subseteq T[k]
    BY <1>5, <1>6
  <2>3. ASSUME NEW k \in 1 .. n, NEW x \in T[0] \cup T[k - 1] PROVE step[<<k, x>>] \in T[k]
    <3>1. k - 1 \in 0 .. n /\ 0 \in 0 .. n /\ n \in 0 .. n /\ k - 1 \in Nat /\ k \in 0 .. n /\ (k - 1) + 1 = k
      OBVIOUS
    <3>2. Firsts(cands, pass, 0) \subseteq Firsts(cands, pass, k - 1)
      BY <1>6, <3>1
    <3>3. x \in Firsts(cands, pass, k - 1)
      BY <1>5, <3>1, <3>2
    <3>4. Firsts(cands, pass, k - 1) \subseteq Firsts(cands, pass, n)
      BY <1>6, <3>1
    <3>5. step[<<k, x>>] = Op(x, cands[k])
      BY <1>3, <1>4, <3>3, <3>4
    <3>6. Op(x, cands[k]) \in Firsts(cands, pass, k)
      BY <1>2, <3>1, <3>3
    <3> QED BY <1>5, <3>1, <3>5, <3>6
  <2> QED BY <2>1, <2>2, <2>3 DEF Carries
<1>10. ASSUME NEW f, Folding(f, <<>>, step, n), \A s \in SUBSET (1 .. n) : f[s] \in T[LastOf(s)]
       PROVE  Folding(h, <<>>, step, n)
  <2>1. \A s \in SUBSET (1 .. n) : f[s] \in X
    <3> SUFFICES ASSUME NEW s \in SUBSET (1 .. n) PROVE f[s] \in X
      OBVIOUS
    <3>1. LastOf(s) \in 0 .. n /\ n \in 0 .. n /\ LastOf(s) <= n
      BY <1>7 DEF LastOf
    <3>2. Firsts(cands, pass, LastOf(s)) \subseteq Firsts(cands, pass, n)
      BY <1>6, <3>1
    <3>3. f[s] \in Firsts(cands, pass, LastOf(s))
      BY <1>5, <1>10, <3>1
    <3> QED BY <1>3, <3>2, <3>3
  <2>f. \A s \in SUBSET (1 .. n) : s # {} => step[<<Max(s), f[s \ {Max(s)}]>>] = Op(f[s \ {Max(s)}], cands[Max(s)])
    BY <1>4, <1>7, <2>1
  <2>2. P(f)
    BY <1>0, <1>10, <2>f DEF Folding
  <2>3. P(h)
    BY <2>2 DEF h
  <2>4. \A s \in SUBSET (1 .. n) : s # {} => step[<<Max(s), h[s \ {Max(s)}]>>] = Op(h[s \ {Max(s)}], cands[Max(s)])
    BY <1>3, <1>4, <1>7
  <2> QED BY <1>0, <2>3, <2>4 DEF Folding
<1>11. h[1 .. n] \in T[n]
  BY <1>9, <1>10, FoldingCarries
<1>12. h[1 .. n] \in Firsts(cands, pass, n)
  <2>1. n \in 0 .. n
    OBVIOUS
  <2> QED BY <1>5, <1>11, <2>1
<1> QED BY <1>0, <1>1, <1>12 DEF Firsts

\* The chunks of a route that pass a selection's predicate.
Passing(ix, scope, excluded) ==
    {key \in Held(ix.keys, ix.graphs[scope]) : EvalPredicate(key[1], ThreadIn(ix, key[1]), scope, excluded)}

\* Lists of chunks that pass, a message once.
Selections(ix, scope, excluded) == {q \in Seq(Passing(ix, scope, excluded)) : Distinct(q)}

\* What is picked from a search of a route.
LEMMA PickedOf ==
    ASSUME NEW ix, Searchable(ix), NEW scope \in Routes, NEW excluded, NEW n \in Nat
    PROVE  Picked(ix, IndexSearch(ix, n, scope), scope, excluded) \in Selections(ix, scope, excluded)
<1>1. PICK S \in SUBSET Keys : S = Held(ix.keys, ix.graphs[scope])
  <2>1. ix.keys \in Seq(Keys) /\ GraphOf(ix.keys, ix.graphs[scope])
    BY IndexFields DEF Searchable
  <2> QED BY <2>1, HeldOf
<1>2. PICK cands : cands = IndexSearch(ix, n, scope)
  OBVIOUS
<1>3. cands \in Seq(S) /\ Descending(cands)
  BY <1>1, <1>2, IndexSearchSorted
<1>4. PICK pass : pass = {key \in Range(cands) : EvalPredicate(key[1], ThreadIn(ix, key[1]), scope, excluded)}
  OBVIOUS
<1>5. Range(cands) \subseteq S
  BY <1>3, LenProperties, ElementOfSeq DEF Range
<1>6. pass \in SUBSET S /\ pass \subseteq Passing(ix, scope, excluded)
  BY <1>1, <1>4, <1>5 DEF Passing
<1>7. FirstChunks(cands, pass) \in Seq(pass) /\ Distinct(FirstChunks(cands, pass))
  BY <1>3, <1>6, FirstChunksOf
<1>8. Seq(pass) \subseteq Seq(Passing(ix, scope, excluded))
  BY <1>6, SeqMonotonic
<1> QED BY <1>2, <1>4, <1>7, <1>8 DEF Picked, Selections

\* The doubling of the shortlist ends with what it picked last.
LEMMA WidenOf ==
    ASSUME NEW ix, Searchable(ix), NEW scope \in Routes, NEW excluded, NEW k \in Nat, NEW fetch \in Nat \ {0}
    PROVE  Widen(ix, k, fetch, scope, excluded) \in Selections(ix, scope, excluded)
<1>1. PICK n \in Nat : n = Len(ix.graphs[scope].nodes)
  <2>1. ix.graphs[scope] \in GraphSet(Codes)
    BY IndexFields DEF Searchable
  <2> QED BY <2>1, GraphType
<1>2. PICK R : R = Selections(ix, scope, excluded)
  OBVIOUS
<1>3. PICK cands : cands = [m \in Nat |-> IndexSearch(ix, m, scope)]
  OBVIOUS
<1>4. PICK val : val = [m \in Nat |-> Picked(ix, cands[m], scope, excluded)]
  OBVIOUS
<1>5. PICK stop : stop = [m \in Nat |-> Len(val[m]) >= k \/ Len(cands[m]) < m]
  OBVIOUS
<1>6. val \in [Nat -> R]
  BY <1>2, <1>3, <1>4, PickedOf
<1>7. PICK top \in Nat : top = n + 1
  OBVIOUS
<1>8. ASSUME NEW m \in Nat, m >= top PROVE stop[m]
  <2>1. Len(cands[m]) <= n
    BY <1>1, <1>3, IndexSearchSorted
  <2>2. Len(cands[m]) \in Nat
    <3>1. cands[m] \in Seq(Held(ix.keys, ix.graphs[scope]))
      BY <1>3, IndexSearchSorted
    <3> QED BY <3>1, LenProperties
  <2>3. Len(cands[m]) < m
    BY <1>7, <1>8, <2>1, <2>2
  <2> QED BY <1>5, <2>3
<1> DEFINE P(u) == u = [m \in Nat |->
                LET cs == IndexSearch(ix, m, ThreadScopeOf(scope))
                    picked == Picked(ix, cs, scope, excluded)
                IN  IF Len(picked) >= k \/ Len(cs) < m THEN picked ELSE u[2 * m]]
           h == CHOOSE u : P(u)
<1>9. Widen(ix, k, fetch, scope, excluded) = h[fetch]
  BY Zenon DEF Widen
<1>10. ASSUME NEW u PROVE P(u) <=> Doubled(u, val, stop)
  <2>1. \A m \in Nat : /\ IndexSearch(ix, m, ThreadScopeOf(scope)) = cands[m]
                       /\ Picked(ix, cands[m], scope, excluded) = val[m]
                       /\ stop[m] <=> (Len(val[m]) >= k \/ Len(cands[m]) < m)
    BY <1>3, <1>4, <1>5 DEF ThreadScopeOf
  <2> DEFINE A(m) == LET cs == IndexSearch(ix, m, ThreadScopeOf(scope))
                         picked == Picked(ix, cs, scope, excluded)
                     IN  IF Len(picked) >= k \/ Len(cs) < m THEN picked ELSE u[2 * m]
             B(m) == IF stop[m] THEN val[m] ELSE u[2 * m]
  <2>2. \A m \in Nat : A(m) = B(m)
    BY <2>1
  <2>3. P(u) <=> u = [m \in Nat |-> A(m)]
    BY Zenon
  <2>4. Doubled(u, val, stop) <=> u = [m \in Nat |-> B(m)]
    BY Zenon DEF Doubled
  <2> HIDE DEF A, B, P
  <2>5. [m \in Nat |-> A(m)] = [m \in Nat |-> B(m)]
    BY <2>2
  <2> QED BY <2>3, <2>4, <2>5
<1> HIDE DEF P
<1>11. Doubled(h, val, stop)
  <2>1. PICK f : Doubled(f, val, stop)
    BY <1>8, DoubledExists
  <2>2. P(f)
    BY <1>10, <2>1
  <2>3. P(h)
    BY <2>2
  <2> QED BY <1>10, <2>3
<1> HIDE DEF h
<1>12. h[fetch] \in R
  BY <1>6, <1>8, <1>11, DoubledStops
<1> QED BY <1>2, <1>9, <1>12

\* The first of a list.
LEMMA UpToOf ==
    ASSUME NEW R, NEW s \in Seq(R), NEW n \in Nat
    PROVE  /\ UpTo(s, n) \in Seq(R) /\ Len(UpTo(s, n)) <= n /\ Len(UpTo(s, n)) <= Len(s)
           /\ \A i \in 1 .. Len(UpTo(s, n)) : UpTo(s, n)[i] = s[i]
<1>1. PICK k \in Nat : k = Len(s) /\ \A i \in 1 .. k : s[i] \in R
  BY LenProperties, ElementOfSeq
<1>2. PICK m \in Nat : m = Min({n, Len(s)}) /\ m <= n /\ m <= k
  <2>1. Min({n, k}) = IF n < k THEN n ELSE k
    BY OfTwo
  <2> QED BY <1>1, <2>1
<1>3. PICK t : t = SubSeq(s, 1, m)
  OBVIOUS
<1>4. /\ t \in Seq(R) /\ Len(t) = IF 1 <= m THEN m - 1 + 1 ELSE 0
      /\ \A i \in 1 .. m - 1 + 1 : t[i] = s[1 + i - 1]
  <2>1. \A i \in 1 .. m : s[i] \in R
    BY <1>1, <1>2
  <2> QED BY <1>3, <2>1, SubSeqProperties
<1>5. Len(t) = m /\ \A i \in 1 .. m : t[i] = s[i]
  <2>1. m - 1 + 1 = m /\ (~(1 <= m) => m = 0)
    OBVIOUS
  <2>2. \A i \in 1 .. m : 1 + i - 1 = i
    OBVIOUS
  <2>3. Len(t) = m
    BY <1>4, <2>1
  <2> QED BY <1>4, <2>1, <2>2, <2>3
<1>6. UpTo(s, n) = t
  BY <1>2, <1>3 DEF UpTo
<1> QED BY <1>1, <1>2, <1>4, <1>5, <1>6

\* The first of a list in which a message comes once.
LEMMA UpToDistinct ==
    ASSUME NEW R, NEW s \in Seq(R), NEW n \in Nat, Distinct(s)
    PROVE  Distinct(UpTo(s, n))
<1>1. PICK t \in Seq(R) : t = UpTo(s, n) /\ Len(t) <= Len(s) /\ \A i \in 1 .. Len(t) : t[i] = s[i]
  BY UpToOf
<1>2. DOMAIN t = 1 .. Len(t) /\ DOMAIN s = 1 .. Len(s) /\ Len(t) \in Nat /\ Len(s) \in Nat
  BY LenProperties
<1>3. \A i \in DOMAIN t : i \in DOMAIN s
  BY <1>1, <1>2
<1> QED BY <1>1, <1>2, <1>3 DEF Distinct

\* A product of numbers from one on is one.
LEMMA ProductType ==
    ASSUME NEW a \in Nat \ {0}, NEW b \in Nat \ {0}
    PROVE  a * b \in Nat \ {0}
<1> DEFINE W == {n \in Nat : (n + 1) * b \in Nat \ {0}}
<1>1. 0 \in W
  OBVIOUS
<1>2. ASSUME NEW n \in Nat, n \in W PROVE n + 1 \in W
  <2>1. PICK p \in Nat \ {0} : p = (n + 1) * b
    BY <1>2
  <2>2. ((n + 1) + 1) * b = p + b
    BY <2>1
  <2> QED BY <2>2
<1> HIDE DEF W
<1>3. a - 1 \in W
  <2>1. Nat \subseteq W
    BY <1>1, <1>2, NatSet
  <2> QED BY <2>1
<1>4. (a - 1) + 1 = a
  OBVIOUS
<1> QED BY <1>3, <1>4 DEF W

\* What a selection is: of chunks of its route that pass.
LEMMA NearestOf ==
    ASSUME NEW ix, Searchable(ix), NEW scope \in Routes, NEW excluded, NEW k \in Nat \ {0}
    PROVE  /\ NearestChunks(ix, k, scope, excluded) \in Selections(ix, scope, excluded)
           /\ Len(NearestChunks(ix, k, scope, excluded)) <= k
<1>1. PICK fetch \in Nat \ {0} : fetch = k * Overfetch
  <2>1. PICK o \in Nat \ {0} : o = Overfetch
    BY VectorAssumption
  <2>2. k * o \in Nat \ {0}
    BY ProductType
  <2> QED BY <2>1, <2>2
<1>2. PICK s : s = Widen(ix, k, fetch, scope, excluded)
  OBVIOUS
<1>3. s \in Selections(ix, scope, excluded)
  BY <1>2, WidenOf
<1>4. s \in Seq(Passing(ix, scope, excluded)) /\ Distinct(s)
  BY <1>3 DEF Selections
<1>5. UpTo(s, k) \in Seq(Passing(ix, scope, excluded)) /\ Len(UpTo(s, k)) <= k /\ Distinct(UpTo(s, k))
  BY <1>4, UpToOf, UpToDistinct
<1> QED BY <1>1, <1>2, <1>5 DEF NearestChunks, Selections

\* The installed index answers a search of a user and a selection of any route as
\* it must.
Answers(ix) ==
    \A k \in Nat \ {0} :
        /\ RankingScoped(k, Search(ix, k))
        /\ \A scope \in DOMAIN ix.graphs, excluded \in SUBSET Messages :
            /\ RouteScoped(ix, scope, excluded)
            /\ SelectionScoped(ix, k, NearestChunks(ix, k, scope, excluded), Eligible(ix, scope, scope, excluded))

RetrievalScoped == live # 0 => Answers(indexes[live])

\* The search of a user.
LEMMA SearchScoped ==
    ASSUME NEW ix, Searchable(ix), NEW limit \in Nat
    PROVE  RankingScoped(limit, Search(ix, limit))
<1>1. Global \in Routes
  BY DEF Routes
<1>2. PICK S \in SUBSET Keys : S = Held(ix.keys, ix.graphs[Global])
  <2>1. ix.keys \in Seq(Keys) /\ GraphOf(ix.keys, ix.graphs[Global])
    BY <1>1, IndexFields DEF Searchable
  <2> QED BY <2>1, HeldOf
<1>3. PICK n \in Nat : n = Max({limit * SearchOverfetch, MinShortlist})
  <2>1. PICK o \in Nat, least \in Nat : o = SearchOverfetch /\ least = MinShortlist
    BY VectorAssumption
  <2>2. PICK p \in Nat : p = limit * o
    <3>1. limit * o \in Nat
      <4>1. CASE limit = 0 \/ o = 0
        BY <4>1
      <4>2. CASE limit # 0 /\ o # 0
        BY <4>2, ProductType
      <4> QED BY <4>1, <4>2
    <3> QED BY <3>1
  <2>3. Max({p, least}) = IF p < least THEN least ELSE p
    BY OfTwo
  <2> QED BY <2>1, <2>2, <2>3
<1>4. PICK cands : cands = IndexSearch(ix, n, Global)
  OBVIOUS
<1>5. cands \in Seq(S) /\ Descending(cands)
  BY <1>1, <1>2, <1>4, IndexSearchSorted
<1>6. PICK pass \in SUBSET S : pass = Range(cands)
  <2>1. Range(cands) \subseteq S
    BY <1>5, LenProperties, ElementOfSeq DEF Range
  <2> QED BY <2>1
<1>7. PICK s \in Seq(pass) : s = FirstChunks(cands, pass) /\ Distinct(s) /\ Descending(s)
  BY <1>5, FirstChunksOf
<1>8. PICK t \in Seq(pass) : /\ t = UpTo(s, limit) /\ Len(t) <= limit /\ Len(t) <= Len(s)
                             /\ \A i \in 1 .. Len(t) : t[i] = s[i]
  BY UpToOf
<1>9. Distinct(t)
  BY <1>7, <1>8, UpToDistinct
<1>10. DOMAIN t = 1 .. Len(t) /\ Len(t) \in Nat /\ Len(s) \in Nat
  BY LenProperties
<1>11. \A i \in 1 .. Len(t) : i \in 1 .. Len(s)
  BY <1>8, <1>10
<1>12. \A i, j \in 1 .. Len(t) : i < j => Score[t[i]] >= Score[t[j]]
  BY <1>7, <1>8, <1>11 DEF Descending
<1>13. Search(ix, limit) = t
  BY <1>3, <1>4, <1>6, <1>7, <1>8 DEF Search
<1> QED BY <1>8, <1>9, <1>10, <1>12, <1>13 DEF RankingScoped

\* The vectors a graph holds are of the index.
LEMMA HeldIn ==
    ASSUME NEW keys, NEW g, GraphOf(keys, g)
    PROVE  Held(keys, g) \subseteq Range(keys)
BY DEF Held, GraphOf, Range

\* A selection of a route.
LEMMA SelectionOf ==
    ASSUME NEW ix, Searchable(ix), NEW scope \in Routes, NEW excluded, NEW k \in Nat \ {0}
    PROVE  SelectionScoped(ix, k, NearestChunks(ix, k, scope, excluded), Eligible(ix, scope, scope, excluded))
<1>1. PICK S \in SUBSET Keys : S = Held(ix.keys, ix.graphs[scope]) /\ S \subseteq Range(ix.keys)
  <2>1. ix.keys \in Seq(Keys) /\ GraphOf(ix.keys, ix.graphs[scope])
    BY IndexFields DEF Searchable
  <2> QED BY <2>1, HeldOf, HeldIn
<1>2. PICK res : res = NearestChunks(ix, k, scope, excluded)
  OBVIOUS
<1>3. res \in Seq(Passing(ix, scope, excluded)) /\ Distinct(res) /\ Len(res) <= k
  BY <1>2, NearestOf DEF Selections
<1>4. ASSUME NEW i \in DOMAIN res
      PROVE  /\ res[i][1] \in Eligible(ix, scope, scope, excluded)
             /\ res[i][1] \in stored =>
                  HasText(res[i]) /\ res[i] \in RepresentativeVectors(ix, {res[i][1]})[res[i][1]]
  <2>1. PICK key \in Passing(ix, scope, excluded) : key = res[i]
    BY <1>3, LenProperties, ElementOfSeq
  <2>2. key \in S /\ key \in Keys /\ key \in Range(ix.keys) /\ EvalPredicate(key[1], ThreadIn(ix, key[1]), scope, excluded)
    BY <1>1 DEF Passing
  <2>3. Members(ix, ix.graphs[scope]) = S
    BY <1>1 DEF Members, Held
  <2>4. PICK m : m = key[1]
    OBVIOUS
  <2>5. m \in Eligible(ix, scope, scope, excluded)
    BY <2>2, <2>3, <2>4 DEF Eligible
  <2>6. ASSUME m \in stored
        PROVE  HasText(key) /\ key \in RepresentativeVectors(ix, {m})[m]
    <3>1. key \in GetChunksForMessages({m})
      BY <2>2, <2>4, <2>6 DEF GetChunksForMessages
    <3>2. HasText(key)
      BY <2>4, <3>1 DEF HasText
    <3>3. PICK pooled : pooled = GetChunksForMessages({m}) \cap Range(ix.keys)
      OBVIOUS
    <3>4. key \in pooled
      BY <2>2, <3>1, <3>3
    <3>5. RepresentativeVectors(ix, {m})
            = [w \in {x[1] : x \in pooled} |-> {x \in pooled : x[1] = w}]
      BY <3>3 DEF RepresentativeVectors
    <3>6. m \in {x[1] : x \in pooled}
      BY <2>4, <3>4
    <3> QED BY <2>4, <3>2, <3>4, <3>5, <3>6
  <2> QED BY <2>1, <2>4, <2>5, <2>6
<1> QED BY <1>2, <1>3, <1>4 DEF SelectionScoped

\* A thread's partition and the whole index have the same eligible messages,
\* apart from those the build raced with.
LEMMA RouteOf ==
    ASSUME NEW ix, NEW hm, Fits(ix, hm, ix.loose), NEW scope \in Routes, NEW excluded
    PROVE  RouteScoped(ix, scope, excluded)
<1>1. /\ ix \in IndexSet /\ Placed(hm, ix.threadByMsg) /\ Filed(ix, hm, ix.loose)
      /\ \A r \in Routes : GraphOf(ix.keys, ix.graphs[r])
  BY DEF Fits
<1>2. \A g : Members(ix, g) = Held(ix.keys, g)
  BY DEF Members, Held
<1>3. CASE scope = Global
  BY <1>3 DEF RouteScoped
<1>4. CASE scope # Global
  <2>1. scope \in Threads /\ scope # None
    BY <1>4, VectorAssumption DEF Routes
  <2>2. Held(ix.keys, ix.graphs[scope]) \subseteq Held(ix.keys, ix.graphs[Global])
    <3>1. Held(ix.keys, ix.graphs[scope]) \subseteq Range(ix.keys)
      BY <1>1, HeldIn
    <3> QED BY <1>1, <3>1 DEF Filed
  <2>3. ASSUME NEW key \in Held(ix.keys, ix.graphs[Global]), key[1] \notin ix.loose,
               EvalPredicate(key[1], ThreadIn(ix, key[1]), scope, excluded)
        PROVE  key \in Held(ix.keys, ix.graphs[scope])
    <3>1. key \in Range(ix.keys)
      BY <1>1 DEF Filed
    <3>2. key[1] \in DOMAIN ix.threadByMsg /\ key \in Held(ix.keys, ix.graphs[hm[key[1]]])
      BY <1>1, <2>3, <3>1 DEF Filed
    <3>3. ThreadIn(ix, key[1]) = hm[key[1]]
      BY <1>1, <3>2 DEF ThreadIn, Placed
    <3>4. ThreadIn(ix, key[1]) = scope
      BY <1>4, <2>3 DEF EvalPredicate
    <3> QED BY <3>2, <3>3, <3>4
  <2>4. PICK A, B : A = Eligible(ix, scope, scope, excluded) /\ B = Eligible(ix, scope, Global, excluded)
    OBVIOUS
  <2>5. \A m : m \in A <=> /\ \E key \in Held(ix.keys, ix.graphs[scope]) : m = key[1]
                           /\ EvalPredicate(m, ThreadIn(ix, m), scope, excluded)
    BY <1>2, <2>4 DEF Eligible
  <2>6. \A m : m \in B <=> /\ \E key \in Held(ix.keys, ix.graphs[Global]) : m = key[1]
                           /\ EvalPredicate(m, ThreadIn(ix, m), scope, excluded)
    BY <1>2, <2>4 DEF Eligible
  <2>7. ASSUME NEW m, m \notin ix.loose PROVE m \in A <=> m \in B
    BY <2>2, <2>3, <2>5, <2>6, <2>7
  <2>8. A \ ix.loose = B \ ix.loose
    BY <2>7
  <2> QED BY <2>4, <2>8 DEF RouteScoped
<1> QED BY <1>3, <1>4

\* The retrievals of the installed index, whatever graphs were drawn and grown,
\* whatever was excluded and however many chunks of excluded or repeated messages
\* fill a shortlist (search/embeddings.go and oracle.go): a selection ends, with at most k
\* chunks, each of another message that is in scope and not excluded, with its text
\* and a vector to compare it by while the message is there; a thread's partition
\* answers as the whole index would, apart from messages stored while it was built;
\* and a user's search is ranked and has a message once.
THEOREM RetrievalScopedHolds == Spec => []RetrievalScoped
<1>1. ASSUME VectorInv PROVE RetrievalScoped
  <2> SUFFICES ASSUME live # 0 PROVE Answers(indexes[live])
    BY DEF RetrievalScoped
  <2>1. live \in DOMAIN indexes /\ Fits(indexes[live], home, indexes[live].loose)
    BY <1>1 DEF VectorInv, IndexesFit
  <2>2. PICK ix : ix = indexes[live]
    OBVIOUS
  <2>3. Searchable(ix) /\ Fits(ix, home, ix.loose)
    BY <2>1, <2>2 DEF Fits, Searchable
  <2>4. DOMAIN ix.graphs = Routes
    BY <2>3, IndexFields DEF Searchable
  <2>5. ASSUME NEW k \in Nat \ {0} PROVE RankingScoped(k, Search(ix, k))
    BY <2>3, SearchScoped
  <2>6. ASSUME NEW k \in Nat \ {0}, NEW scope \in Routes, NEW excluded \in SUBSET Messages
        PROVE  /\ RouteScoped(ix, scope, excluded)
               /\ SelectionScoped(ix, k, NearestChunks(ix, k, scope, excluded), Eligible(ix, scope, scope, excluded))
    BY <2>3, RouteOf, SelectionOf
  <2> QED BY <2>2, <2>4, <2>5, <2>6 DEF Answers
<1> QED BY <1>1, VectorInvHolds, PTL
=============================================================================
