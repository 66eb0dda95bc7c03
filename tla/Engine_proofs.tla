--------------------------- MODULE Engine_proofs ---------------------------
(***************************************************************************)
(* What the engine selects is exact in every graph it reaches, the banked  *)
(* masses are the sums over the recorded paths, and provenance is          *)
(* generation-ordered there.                                               *)
(*                                                                         *)
(* The walks are folds and iterations, each a CHOOSE among recursive       *)
(* functions: the first parts show that a fold over a finite set, and a    *)
(* run of n steps, is one that exists, and that what each of its steps     *)
(* keeps the whole keeps.  Then extractSubgraph, pop by pop: queue and     *)
(* reference stay within a step of each other (Exact), nothing waits after *)
(* Hops pops, and what was selected lies in layers no path leads back      *)
(* through (Layered); ApplyMMR, placing by placing (Ranked).               *)
(*                                                                         *)
(* Then provenanceMassWalk.  The weight of a path is One times its scores  *)
(* over Unit, and One is a power of Unit as long as a path may be, so no   *)
(* rounding ever loses anything (PowerDivides); the mass of a message is   *)
(* therefore linear in those of the messages it contributed to, and so is  *)
(* the sum over its paths (PathSumFixed): in a graph with a rank, drained  *)
(* in any topological order, both are the same (DrainExact).  What is      *)
(* reached is the best of what a path leads to (Reached, Settled).         *)
(*                                                                         *)
(* An edge is banked long after the event that chose its ends, so the      *)
(* invariant follows it from the selection (Pending) to the graph and the  *)
(* rows (Banked), and leans on Corpus: a turn holds the newest messages of *)
(* its thread, so whatever else the thread has is older than the anchor.   *)
(***************************************************************************)
EXTENDS Engine, FiniteSetTheorems, WellFoundedInduction, TLAPS
-----------------------------------------------------------------------------
(* Folds over a finite set.                                                *)

\* Induction on the naturals, for a set of them.
LEMMA NatSet ==
    ASSUME NEW W, 0 \in W, \A n \in Nat : n \in W => n + 1 \in W
    PROVE  Nat \subseteq W
<1> SUFFICES ASSUME Nat \ W # {} PROVE FALSE
  OBVIOUS
<1>1. PICK x \in Nat \ W : \A y \in Nat \ W : ~(<<y, x>> \in OpToRel(<, Nat))
  BY NatLessThanWellFounded, WFMin
<1>2. x # 0 /\ x - 1 \in Nat
  OBVIOUS
<1>3. x - 1 \in Nat \ W
  BY <1>2
<1>4. ~(<<x - 1, x>> \in OpToRel(<, Nat))
  BY <1>1, <1>3
<1> QED BY <1>2, <1>4 DEF OpToRel

\* The element a fold takes next.
Taken(s) == CHOOSE x \in s : TRUE

\* Induction on the subsets of a finite set, for a set of them.
LEMMA SubsetSet ==
    ASSUME NEW D, IsFiniteSet(D), NEW W, {} \in W,
           \A s \in SUBSET D : s # {} /\ s \ {Taken(s)} \in W => s \in W
    PROVE  SUBSET D \subseteq W
<1> DEFINE K == {n \in Nat : \A s \in SUBSET D : Cardinality(s) = n => s \in W}
<1>1. \A s \in SUBSET D : IsFiniteSet(s) /\ Cardinality(s) \in Nat
  BY FS_Subset, FS_CardinalityType
<1>2. 0 \in K
  BY <1>1, FS_EmptySet
<1>3. ASSUME NEW n \in Nat, n \in K PROVE n + 1 \in K
  <2> SUFFICES ASSUME NEW s \in SUBSET D, Cardinality(s) = n + 1 PROVE s \in W
    OBVIOUS
  <2>1. s # {}
    BY FS_EmptySet
  <2>2. Taken(s) \in s
    BY <2>1 DEF Taken
  <2>3. Cardinality(s \ {Taken(s)}) = n
    BY <1>1, <2>2, FS_RemoveElement
  <2>4. s \ {Taken(s)} \in W
    BY <1>3, <2>3
  <2> QED BY <2>1, <2>4
<1> HIDE DEF K
<1>4. Nat \subseteq K
  BY <1>2, <1>3, NatSet
<1>5. ASSUME NEW s \in SUBSET D PROVE s \in W
  BY <1>1, <1>4 DEF K
<1> QED BY <1>5

\* A step stays in T, and f folds it over the subsets of D.
Keeps(step, D, T)        == \A x \in D, y \in T : step[<<x, y>>] \in T
FoldsOver(f, D, base, step) ==
    \A s \in SUBSET D : f[s] = IF s = {} THEN base ELSE step[<<Taken(s), f[s \ {Taken(s)}]>>]

\* A fold over the subsets of a finite set with a step that stays in T exists.
LEMMA FoldExists ==
    ASSUME NEW D, IsFiniteSet(D), NEW T, NEW base \in T, NEW step, Keeps(step, D, T)
    PROVE  \E f \in [SUBSET D -> T] : FoldsOver(f, D, base, step)
<1> USE DEF Keeps
<1> DEFINE Eq(f, s) == f[s] = IF s = {} THEN base ELSE step[<<Taken(s), f[s \ {Taken(s)}]>>]
           K == {n \in Nat : \E f \in [SUBSET D -> T] : \A s \in SUBSET D :
                                Cardinality(s) <= n => Eq(f, s)}
<1>1. \A s \in SUBSET D : IsFiniteSet(s) /\ Cardinality(s) \in Nat
  BY FS_Subset, FS_CardinalityType
<1>2. ASSUME NEW s \in SUBSET D, s # {}
      PROVE  /\ Taken(s) \in s /\ s \ {Taken(s)} \in SUBSET D
             /\ Cardinality(s) # 0 /\ Cardinality(s \ {Taken(s)}) = Cardinality(s) - 1
  <2>1. Taken(s) \in s
    BY <1>2 DEF Taken
  <2> QED BY <1>1, <1>2, <2>1, FS_RemoveElement, FS_EmptySet
<1>3. 0 \in K
  <2> DEFINE f == [s \in SUBSET D |-> base]
  <2>1. f \in [SUBSET D -> T]
    OBVIOUS
  <2>2. ASSUME NEW s \in SUBSET D, Cardinality(s) <= 0 PROVE Eq(f, s)
    <3>1. Cardinality(s) = 0
      BY <1>1, <2>2
    <3>2. s = {}
      BY <1>2, <3>1
    <3> QED BY <3>2
  <2> QED BY <2>1, <2>2
<1>4. ASSUME NEW n \in Nat, n \in K PROVE n + 1 \in K
  <2>1. PICK f \in [SUBSET D -> T] : \A s \in SUBSET D : Cardinality(s) <= n => Eq(f, s)
    BY <1>4
  <2> DEFINE h == [s \in SUBSET D |-> IF Cardinality(s) <= n THEN f[s]
                                      ELSE IF s = {} THEN base ELSE step[<<Taken(s), f[s \ {Taken(s)}]>>]]
  <2>2. h \in [SUBSET D -> T]
    <3> SUFFICES ASSUME NEW s \in SUBSET D PROVE h[s] \in T
      OBVIOUS
    <3>1. CASE s = {}  BY <3>1
    <3>2. CASE s # {}
      <4>1. Taken(s) \in D /\ f[s \ {Taken(s)}] \in T
        BY <1>2, <3>2
      <4> QED BY <3>2, <4>1
    <3> QED BY <3>1, <3>2
  <2>3. ASSUME NEW s \in SUBSET D, Cardinality(s) <= n + 1 PROVE Eq(h, s)
    <3>1. CASE s = {}
      <4>1. Cardinality(s) <= n
        BY <3>1, FS_EmptySet
      <4> QED BY <2>1, <3>1, <4>1
    <3>2. CASE s # {}
      <4>1. s \ {Taken(s)} \in SUBSET D /\ Cardinality(s \ {Taken(s)}) <= n
        BY <1>1, <1>2, <2>3, <3>2
      <4>2. h[s \ {Taken(s)}] = f[s \ {Taken(s)}]
        BY <4>1
      <4>3. h[s] = step[<<Taken(s), f[s \ {Taken(s)}]>>]
        BY <2>1, <3>2
      <4> QED BY <3>2, <4>2, <4>3
    <3> QED BY <3>1, <3>2
  <2> HIDE DEF h, Eq
  <2>4. \E g \in [SUBSET D -> T] : \A s \in SUBSET D : Cardinality(s) <= n + 1 => Eq(g, s)
    BY <2>2, <2>3
  <2> QED BY <2>4
<1> HIDE DEF K
<1>5. Nat \subseteq K
  BY <1>3, <1>4, NatSet
<1>6. Cardinality(D) \in K
  BY <1>1, <1>5
<1>7. PICK f \in [SUBSET D -> T] : \A s \in SUBSET D : Cardinality(s) <= Cardinality(D) => Eq(f, s)
  BY <1>6 DEF K
<1>8. \A s \in SUBSET D : Cardinality(s) <= Cardinality(D)
  BY FS_Subset
<1> QED BY <1>7, <1>8 DEF FoldsOver

\* Induction up to a bound, for a set of numbers.
LEMMA UpTo ==
    ASSUME NEW n \in Nat, NEW W, 0 \in W, \A i \in 0 .. n - 1 : i \in W => i + 1 \in W
    PROVE  0 .. n \subseteq W
<1> DEFINE V == {i \in Nat : i <= n => i \in W}
<1>1. 0 \in V
  OBVIOUS
<1>2. ASSUME NEW i \in Nat, i \in V PROVE i + 1 \in V
  <2> SUFFICES ASSUME i + 1 <= n PROVE i + 1 \in W
    OBVIOUS
  <2>1. i \in 0 .. n - 1 /\ i \in W
    BY <1>2
  <2> QED BY <2>1
<1> HIDE DEF V
<1>3. Nat \subseteq V
  BY <1>1, <1>2, NatSet
<1> QED BY <1>3 DEF V

-----------------------------------------------------------------------------
(* Iteration: a run of n steps.                                            *)

\* f is n steps of next from v, in T.
Stepping(f, T, v, next, n) ==
    f \in [0 .. n -> T] /\ \A i \in 0 .. n : f[i] = IF i = 0 THEN v ELSE next[f[i - 1]]

\* There is such a function.
LEMMA RunExists ==
    ASSUME NEW T, NEW v \in T, NEW next \in [T -> T], NEW n \in Nat
    PROVE  \E f : Stepping(f, T, v, next, n)
<1> DEFINE Fits(f, k) == \A i \in 0 .. k : f[i] = IF i = 0 THEN v ELSE next[f[i - 1]]
           K == {k \in Nat : \E f \in [0 .. k -> T] : Fits(f, k)}
<1>1. 0 \in K
  <2> DEFINE f == [i \in 0 .. 0 |-> v]
  <2>1. f \in [0 .. 0 -> T] /\ Fits(f, 0)
    OBVIOUS
  <2> QED BY <2>1
<1>2. ASSUME NEW k \in Nat, k \in K PROVE k + 1 \in K
  <2>1. PICK f \in [0 .. k -> T] : Fits(f, k)
    BY <1>2
  <2> DEFINE h == [i \in 0 .. k + 1 |-> IF i = k + 1 THEN next[f[k]] ELSE f[i]]
  <2>2. h \in [0 .. k + 1 -> T]
    <3>1. next[f[k]] \in T
      BY <2>1
    <3> QED BY <2>1, <3>1
  <2>3. ASSUME NEW i \in 0 .. k + 1 PROVE h[i] = IF i = 0 THEN v ELSE next[h[i - 1]]
    <3>1. CASE i = k + 1
      <4>1. h[i] = next[f[k]] /\ i - 1 \in 0 .. k + 1 /\ i - 1 = k /\ i - 1 # k + 1
        BY <3>1
      <4>2. h[i - 1] = f[k]
        BY <4>1
      <4> QED BY <3>1, <4>1, <4>2
    <3>2. CASE i # k + 1 /\ i # 0
      <4>1. i \in 0 .. k /\ i - 1 \in 0 .. k + 1 /\ i - 1 # k + 1
        BY <3>2
      <4>2. h[i] = f[i] /\ h[i - 1] = f[i - 1]
        BY <3>2, <4>1
      <4> QED BY <2>1, <3>2, <4>1, <4>2
    <3>3. CASE i = 0
      BY <2>1, <3>3
    <3> QED BY <3>1, <3>2, <3>3
  <2>4. Fits(h, k + 1)
    <3> HIDE DEF h
    <3> QED BY <2>3
  <2> HIDE DEF h, Fits
  <2>5. \E x \in [0 .. k + 1 -> T] : Fits(x, k + 1)
    BY <2>2, <2>4
  <2> QED BY <2>5
<1> HIDE DEF K
<1>3. Nat \subseteq K
  BY <1>1, <1>2, NatSet
<1>4. \E f \in [0 .. n -> T] : Fits(f, n)
  BY <1>3 DEF K
<1> QED BY <1>4 DEF Stepping

\* h is a run from v in T, of n steps as next gives them.
Run(h, T, v, next, n) ==
    /\ h[0] = v /\ \A i \in 0 .. n : h[i] \in T
    /\ \A i \in 0 .. n - 1 : h[i + 1] = next[h[i]]

\* A function that fits an iteration is a run of it.
LEMMA RunFits ==
    ASSUME NEW T, NEW v \in T, NEW next \in [T -> T], NEW n \in Nat, NEW h, h[0] = v,
           \A i \in 0 .. n - 1 : h[i] \in T => h[i + 1] = next[h[i]]
    PROVE  Run(h, T, v, next, n)
<1> DEFINE W == {i \in 0 .. n : h[i] \in T}
<1>1. 0 \in W
  OBVIOUS
<1>2. ASSUME NEW i \in 0 .. n - 1, i \in W PROVE i + 1 \in W
  <2>1. h[i] \in T /\ i + 1 \in 0 .. n
    BY <1>2
  <2>2. h[i + 1] = next[h[i]] /\ next[h[i]] \in T
    BY <2>1
  <2> QED BY <2>1, <2>2
<1> HIDE DEF W
<1>3. 0 .. n \subseteq W
  BY <1>1, <1>2, UpTo
<1>4. \A i \in 0 .. n : h[i] \in T
  BY <1>3 DEF W
<1> QED BY <1>4 DEF Run

-----------------------------------------------------------------------------
(* Values of paths.                                                        *)

\* A quotient and its bounds.
LEMMA Quotient ==
    ASSUME NEW x \in Nat, NEW u \in Nat \ {0}
    PROVE  x \div u \in Nat /\ u * (x \div u) <= x /\ x < u * (x \div u) + u
OBVIOUS

\* A greater product has no smaller quotient.
LEMMA QuotientGrows ==
    ASSUME NEW x \in Nat, NEW y \in Nat, x <= y, NEW u \in Nat \ {0}
    PROVE  x \div u <= y \div u
<1>1. PICK a \in Nat : a = x \div u /\ u * a <= x
  BY Quotient
<1>2. PICK b \in Nat : b = y \div u /\ y < u * b + u
  BY Quotient
<1>3. ASSUME a > b PROVE FALSE
  <2>1. PICK d \in Nat : a = b + 1 + d
    <3>1. a - b - 1 \in Nat /\ a = b + 1 + (a - b - 1)
      BY <1>3
    <3> QED BY <3>1
  <2>2. u * a = u * b + u + u * d /\ u * d \in Nat
    BY <2>1
  <2> QED BY <1>1, <1>2, <2>2
<1> QED BY <1>1, <1>2, <1>3

\* An edge never raises the value of a path, and keeps the order of two.
LEMMA TimesGrows ==
    ASSUME NEW a \in Nat, NEW b \in Nat, a <= b, NEW s \in 0 .. Unit
    PROVE  Times(a, s) \in Nat /\ Times(a, s) <= a /\ Times(a, s) <= Times(b, s)
<1>1. Unit \in Nat \ {0} /\ s \in Nat
  BY GraphAssumption
<1>2. a * s \in Nat /\ b * s \in Nat /\ a * Unit \in Nat
  BY <1>1
<1>3. a * s <= b * s
  <2>1. PICK d \in Nat : b = a + d
    <3>1. b - a \in Nat /\ b = a + (b - a)
      OBVIOUS
    <3> QED BY <3>1
  <2>2. b * s = a * s + d * s /\ d * s \in Nat
    BY <1>1, <2>1
  <2> QED BY <1>2, <2>2
<1>4. a * s <= Unit * a
  <2>1. PICK d \in Nat : Unit = s + d
    <3>1. Unit - s \in Nat /\ Unit = s + (Unit - s)
      BY <1>1
    <3> QED BY <3>1
  <2>2. Unit * a = a * s + d * a /\ d * a \in Nat
    BY <1>1, <2>1
  <2> QED BY <1>2, <2>2
<1>5. (a * s) \div Unit <= (b * s) \div Unit /\ (a * s) \div Unit \in Nat
  BY <1>1, <1>2, <1>3, QuotientGrows, Quotient
<1>6. (a * s) \div Unit <= a
  <2>1. PICK q \in Nat : q = (a * s) \div Unit /\ Unit * q <= a * s
    BY <1>1, <1>2, Quotient
  <2>2. ASSUME q > a PROVE FALSE
    <3>1. PICK d \in Nat : q = a + 1 + d
      <4>1. q - a - 1 \in Nat /\ q = a + 1 + (q - a - 1)
        BY <2>2
      <4> QED BY <4>1
    <3>2. Unit * q = Unit * a + Unit + Unit * d /\ Unit * d \in Nat
      BY <1>1, <3>1
    <3>3. Unit * q > Unit * a
      BY <1>1, <1>2, <3>2
    <3> QED BY <1>1, <1>2, <1>4, <2>1, <3>3
  <2> QED BY <2>1, <2>2
<1> QED BY <1>5, <1>6 DEF Times

\* There are so many messages.
LEMMA HopsType == Hops \in Nat
BY GraphAssumption, FS_CardinalityType DEF Hops

\* u[i] is Unit to the power of i.
Power(u) == u \in [0 .. Hops -> Nat \ {0}] /\ u[0] = 1 /\ \A i \in 0 .. Hops - 1 : u[i + 1] = u[i] * Unit

\* One is such a power.
LEMMA Powers == \E u : Power(u) /\ One = u[Hops]
<1> DEFINE T == Nat \ {0}
           P(u) == u = [i \in 0 .. Hops |-> IF i = 0 THEN 1 ELSE u[i - 1] * Unit]
           next == [x \in T |-> x * Unit]
<1>1. One = (CHOOSE u : P(u))[Hops]
  BY Zenon DEF One, Iterate
<1>2. Hops \in Nat /\ 1 \in T /\ next \in [T -> T] /\ \A x \in T : next[x] = x * Unit
  BY HopsType, GraphAssumption
<1> HIDE DEF T, next
<1>v. PICK v \in T : v = 1
  BY <1>2
<1>s. PICK f : Stepping(f, T, v, next, Hops)
  BY <1>2, RunExists
<1>3. f \in [0 .. Hops -> T] /\ \A i \in 0 .. Hops : f[i] = IF i = 0 THEN v ELSE next[f[i - 1]]
  BY <1>s DEF Stepping
<1>4. P(f)
  <2>1. ASSUME NEW i \in 0 .. Hops PROVE f[i] = IF i = 0 THEN 1 ELSE f[i - 1] * Unit
    <3>1. i # 0 => i - 1 \in 0 .. Hops
      BY <1>2
    <3> QED BY <1>2, <1>v, <1>3, <3>1
  <2> QED BY <1>3, <2>1
<1>5. PICK h : h = CHOOSE u : P(u)
  OBVIOUS
<1> HIDE DEF P
<1>6. P(h)
  BY <1>4, <1>5
<1> USE DEF P
<1>7. h[0] = 1 /\ \A i \in 0 .. Hops - 1 : h[i + 1] = h[i] * Unit
  BY <1>2, <1>6
<1>8. Run(h, T, v, next, Hops)
  BY <1>2, <1>v, <1>7, RunFits
<1>9. \A i \in 0 .. Hops : h[i] \in Nat \ {0}
  BY <1>8 DEF Run, T
<1>10. h \in [0 .. Hops -> Nat \ {0}]
  <2>1. DOMAIN h = 0 .. Hops /\ h = [i \in 0 .. Hops |-> h[i]]
    BY <1>6
  <2> HIDE DEF P
  <2> QED BY <1>9, <2>1
<1>11. Power(h)
  BY <1>7, <1>10 DEF Power
<1> QED BY <1>1, <1>5, <1>11

\* One is a positive number.
LEMMA OneType == One \in Nat \ {0}
BY Powers, HopsType DEF Power
-----------------------------------------------------------------------------
(* The heap of extractSubgraph.                                            *)

\* A heap entry: its value, and paths over edges of E.
Entry(E) == [value : 0 .. One, vias : SUBSET Seq(E)]

\* Edges of E, finitely many, each read at a score.
Reading(at, E) == DOMAIN at \subseteq E /\ IsFiniteSet(DOMAIN at) /\ \A e \in DOMAIN at : at[e] \in 0 .. Unit

\* Entry x of message n gives way to y when it is offered an entry over the edges D:
\* the greater value wins, and paths of y are paths of x or go on from the entry.
Offered(x, entry, at, D, y) ==
    /\ x.value <= y.value
    /\ \A e \in D : Times(entry.value, at[e]) <= y.value
    /\ y.value = x.value \/ \E e \in D : y.value = Times(entry.value, at[e])
    /\ \A v \in y.vias : v \in x.vias \/ \E e \in D, u \in entry.vias : v = Append(u, e)

\* The edges an entry is offered to n over.
Taking(at, n) == {e \in DOMAIN at : e.from = n /\ Accept(at[e])}

\* The value of a path with one more edge.
LEMMA TimesType ==
    ASSUME NEW a \in 0 .. One, NEW s \in 0 .. Unit
    PROVE  Times(a, s) \in 0 .. One
<1>1. a \in Nat /\ One \in Nat
  BY OneType
<1>2. Times(a, s) \in Nat /\ Times(a, s) <= a
  BY <1>1, TimesGrows
<1> QED BY <1>1, <1>2

\* The better of two entries.
LEMMA BetterType ==
    ASSUME NEW E, NEW a \in Entry(E), NEW b \in Entry(E)
    PROVE  /\ Better(a, b) \in Entry(E)
           /\ a.value <= Better(a, b).value /\ b.value <= Better(a, b).value
           /\ Better(a, b).value \in {a.value, b.value}
           /\ Better(a, b).vias \subseteq a.vias \cup b.vias
<1>1. a.vias \cup b.vias \subseteq Seq(E) /\ a.value \in 0 .. One /\ b.value \in 0 .. One
  BY DEF Entry
<1>2. CASE a.value = b.value
  <2>1. Better(a, b) = [value |-> a.value, vias |-> a.vias \cup b.vias]
    BY <1>2, Zenon DEF Better
  <2> QED BY <1>1, <1>2, <2>1, OneType DEF Entry
<1>3. CASE a.value > b.value
  <2>1. Better(a, b) = a
    BY <1>1, <1>3, OneType DEF Better
  <2> QED BY <1>1, <1>3, <2>1, OneType
<1>4. CASE b.value > a.value
  <2>1. Better(a, b) = b
    BY <1>1, <1>4, OneType DEF Better
  <2> QED BY <1>1, <1>4, <2>1, OneType
<1> QED BY <1>1, <1>2, <1>3, <1>4, OneType

\* Offer offers the entry to every message.
LEMMA OfferType ==
    ASSUME NEW E, NEW q \in [Messages -> Entry(E)], NEW entry \in Entry(E), NEW at, Reading(at, E)
    PROVE  /\ Offer(q, entry, at) \in [Messages -> Entry(E)]
           /\ \A n \in Messages : Offered(q[n], entry, at, Taking(at, n), Offer(q, entry, at)[n])
<1> DEFINE New(e) == [value |-> Times(entry.value, at[e]), vias |-> {Append(v, e) : v \in entry.vias}]
<1>1. ASSUME NEW e \in DOMAIN at PROVE New(e) \in Entry(E)
  <2>1. Times(entry.value, at[e]) \in 0 .. One
    BY TimesType DEF Entry, Reading
  <2>2. {Append(v, e) : v \in entry.vias} \in SUBSET Seq(E)
    <3>1. entry.vias \subseteq Seq(E) /\ e \in E
      BY DEF Entry, Reading
    <3>2. \A v \in Seq(E) : Append(v, e) \in Seq(E)
      BY <3>1
    <3> QED BY <3>1, <3>2, Zenon
  <2> QED BY <2>1, <2>2 DEF Entry
<1>3. ASSUME NEW n \in Messages
      PROVE  /\ Offer(q, entry, at)[n] \in Entry(E)
             /\ Offered(q[n], entry, at, Taking(at, n), Offer(q, entry, at)[n])
  <2> DEFINE D == {e \in DOMAIN at : e.from = n /\ Accept(at[e])}
             P(f) == f = [s \in SUBSET D |-> IF s = {} THEN q[n]
                             ELSE Better(New(CHOOSE x \in s : TRUE), f[s \ {CHOOSE x \in s : TRUE}])]
             step == [p \in D \X Entry(E) |-> Better(New(p[1]), p[2])]
  <2>1. Offer(q, entry, at)[n] = (CHOOSE f : P(f))[D]
    BY Zenon DEF Offer, FoldSet, MapThenFoldSet
  <2>2. IsFiniteSet(D) /\ q[n] \in Entry(E) /\ D \subseteq DOMAIN at /\ D = Taking(at, n)
    BY FS_Subset DEF Reading, Taking
  <2>3. \A x \in D, y \in Entry(E) : step[<<x, y>>] \in Entry(E) /\ step[<<x, y>>] = Better(New(x), y)
    <3>1. \A x \in D : New(x) \in Entry(E)
      BY <1>1, <2>2
    <3> HIDE DEF New
    <3>2. \A x \in D, y \in Entry(E) : Better(New(x), y) \in Entry(E)
      BY <3>1, BetterType
    <3> QED BY <3>2
  <2> HIDE DEF D, step, New
  <2>t. Keeps(step, D, Entry(E))
    BY <2>3 DEF Keeps
  <2>4. PICK f \in [SUBSET D -> Entry(E)] : FoldsOver(f, D, q[n], step)
    BY <2>2, <2>t, FoldExists
  <2>5. \A s \in SUBSET D : s # {} => Taken(s) \in s /\ Taken(s) \in D /\ s \ {Taken(s)} \in SUBSET D
    BY DEF Taken
  <2>6. P(f)
    <3>1. ASSUME NEW s \in SUBSET D
          PROVE  f[s] = IF s = {} THEN q[n] ELSE Better(New(Taken(s)), f[s \ {Taken(s)}])
      BY <2>3, <2>4, <2>5 DEF FoldsOver
    <3> QED BY <3>1 DEF Taken
  <2>7. PICK g : g = CHOOSE h : P(h)
    OBVIOUS
  <2> HIDE DEF P
  <2>8. P(g)
    BY <2>6, <2>7
  <2> USE DEF P
  <2>9. \A s \in SUBSET D : g[s] = IF s = {} THEN q[n] ELSE Better(New(Taken(s)), g[s \ {Taken(s)}])
    BY <2>8 DEF Taken
  <2>v. \A z \in Entry(E) : z.value \in Int
    BY OneType DEF Entry
  <2> DEFINE W == {s \in SUBSET D : g[s] \in Entry(E) /\ Offered(q[n], entry, at, s, g[s])}
  <2>10. {} \in W
    <3>1. g[{}] = q[n] /\ q[n].value \in Int
      BY <2>2, <2>9, <2>v
    <3> QED BY <2>2, <3>1 DEF Offered
  <2>11. ASSUME NEW s \in SUBSET D, s # {}, s \ {Taken(s)} \in W PROVE s \in W
    <3>1. PICK x \in D : x = Taken(s) /\ x \in s
      BY <2>5, <2>11
    <3>2. PICK old \in Entry(E) : old = g[s \ {x}] /\ Offered(q[n], entry, at, s \ {x}, old)
      BY <2>11, <3>1
    <3>3. PICK made \in Entry(E) : made = New(x)
      BY <1>1, <2>2 DEF New
    <3>4. made.value = Times(entry.value, at[x]) /\ made.vias = {Append(v, x) : v \in entry.vias}
      BY <3>3 DEF New
    <3>5. PICK y \in Entry(E) : y = Better(made, old) /\ y = g[s]
                 /\ made.value <= y.value /\ old.value <= y.value /\ y.value \in {made.value, old.value}
                 /\ y.vias \subseteq made.vias \cup old.vias
      <4>1. g[s] = Better(made, old)
        BY <2>9, <2>11, <3>1, <3>2, <3>3
      <4> QED BY <4>1, BetterType
    <3>7. q[n].value <= y.value
      <4>1. q[n].value <= old.value /\ old.value <= y.value
        BY <3>2, <3>5 DEF Offered
      <4> QED BY <2>2, <2>v, <4>1
    <3>8. ASSUME NEW e \in s PROVE Times(entry.value, at[e]) <= y.value
      <4>1. CASE e = x
        BY <3>4, <3>5, <4>1
      <4>2. CASE e # x
        <5>1. Times(entry.value, at[e]) <= old.value
          BY <3>2, <4>2 DEF Offered
        <5>2. Times(entry.value, at[e]) \in Int
          <6>1. New(e) \in Entry(E)
            BY <1>1, <2>2 DEF New
          <6> QED BY <6>1, <2>v DEF New
        <5> QED BY <3>5, <2>v, <5>1, <5>2
      <4> QED BY <4>1, <4>2
    <3>9. y.value = q[n].value \/ \E e \in s : y.value = Times(entry.value, at[e])
      BY <3>1, <3>2, <3>4, <3>5 DEF Offered
    <3>10. ASSUME NEW v \in y.vias PROVE v \in q[n].vias \/ \E e \in s, u \in entry.vias : v = Append(u, e)
      <4>1. CASE v \in made.vias
        BY <3>1, <3>4, <4>1
      <4>2. CASE v \in old.vias
        BY <3>2, <4>2 DEF Offered
      <4> QED BY <3>5, <4>1, <4>2
    <3> QED BY <3>5, <3>7, <3>8, <3>9, <3>10 DEF Offered
  <2> HIDE DEF W
  <2>12. SUBSET D \subseteq W
    BY <2>2, <2>10, <2>11, SubsetSet
  <2>13. g[D] \in Entry(E) /\ Offered(q[n], entry, at, D, g[D])
    BY <2>12 DEF W
  <2> QED BY <2>1, <2>2, <2>7, <2>13
<1>4. DOMAIN Offer(q, entry, at) = Messages /\ Offer(q, entry, at) = [n \in Messages |-> Offer(q, entry, at)[n]]
  BY DEF Offer
<1> QED BY <1>3, <1>4

-----------------------------------------------------------------------------
(* The walk of extractSubgraph.                                            *)

\* One of finitely many numbers is the greatest.
LEMMA Greatest ==
    ASSUME NEW X, IsFiniteSet(X), X # {}, NEW val \in [X -> Int]
    PROVE  \E m \in X : \A n \in X : val[m] >= val[n]
<1> DEFINE Top(s) == \E m \in s : \A n \in s : val[m] >= val[n]
           W == {s \in SUBSET X : s = {} \/ Top(s)}
<1>1. {} \in W
  OBVIOUS
<1>2. ASSUME NEW s \in SUBSET X, s # {}, s \ {Taken(s)} \in W PROVE s \in W
  <2>1. Taken(s) \in s
    BY <1>2 DEF Taken
  <2> DEFINE x == Taken(s)
  <2> HIDE DEF x
  <2>2. x \in s /\ (s \ {x} = {} \/ Top(s \ {x}))
    BY <1>2, <2>1 DEF x
  <2>3. CASE s \ {x} = {}
    BY <2>2, <2>3
  <2>4. CASE Top(s \ {x})
    <3>1. PICK m \in s \ {x} : \A n \in s \ {x} : val[m] >= val[n]
      BY <2>4
    <3>2. CASE val[m] >= val[x]
      BY <3>1, <3>2
    <3>3. CASE ~(val[m] >= val[x])
      <4>1. \A n \in s : val[x] >= val[n]
        BY <2>2, <3>1, <3>3
      <4> QED BY <2>2, <4>1
    <3> QED BY <3>2, <3>3
  <2> QED BY <2>2, <2>3, <2>4
<1> HIDE DEF W
<1>3. SUBSET X \subseteq W
  BY <1>1, <1>2, SubsetSet
<1> QED BY <1>3 DEF W

\* A graph of edges.
Typed(g) == IsFiniteSet(BagToSet(g)) /\ BagToSet(g) \subseteq Edge

\* What an event is read at.
Levels == NoFloor .. Unit

\* A walk in scope S: nothing waits outside S.
Walk(g, S) ==
    {w \in [queue    : [Messages -> Entry(BagToSet(g))],
            visited  : SUBSET Messages,
            selected : SUBSET (S \cap Messages)] :
        \A n \in Messages \ S : w.queue[n].value = 0}

\* The edges into a message, read at an event's floor.
Fresh(g, m, S, floor, seen) ==
    [e \in {x \in Prerequisites(g, m, "ce", S) : x.from \notin seen} |-> Relational(e, floor)]

\* A pop of top: the strongest entry that waits, expanded if it clears the stance.
Pops(g, S, floor, w, top, w2) ==
    /\ top \in Waiting(w) /\ \A n \in Waiting(w) : w.queue[top].value >= w.queue[n].value
    /\ w2.visited = w.visited \cup {top}
    /\ ~Clears(w.queue[top].value) => w2.queue = w.queue /\ w2.selected = w.selected
    /\ Clears(w.queue[top].value) =>
          /\ w2.selected = w.selected \cup {top}
          /\ \A n \in Messages :
                Offered(w.queue[n], w.queue[top], Fresh(g, top, S, floor, w.visited \cup {top}),
                        Taking(Fresh(g, top, S, floor, w.visited \cup {top}), n), w2.queue[n])

\* A recorded observation is read at a score.
LEMMA ReadType ==
    ASSUME NEW e \in Edge, NEW floor \in Levels
    PROVE  e.score \in 0 .. Unit /\ Relational(e, floor) \in 0 .. Unit
<1>1. e.score \in 0 .. Unit /\ e.raw \in 0 .. Unit
  BY DEF Edge
<1>2. Beat \in 0 .. Unit /\ 0 \in 0 .. Unit
  BY GraphAssumption
<1> QED BY <1>1, <1>2 DEF Relational

\* The prerequisites of a message, each with a score to read it at, may be offered.
LEMMA FollowType ==
    ASSUME NEW g, Typed(g), NEW m, NEW S, NEW X, X \subseteq Prerequisites(g, m, "ce", S),
           NEW at, DOMAIN at = X, \A e \in X : at[e] \in 0 .. Unit
    PROVE  /\ Reading(at, BagToSet(g))
           /\ \A n \in Messages \ S : Taking(at, n) = {}
<1>1. X \subseteq BagToSet(g)
  BY DEF Prerequisites
<1>2. IsFiniteSet(X)
  BY <1>1, FS_Subset DEF Typed
<1>3. \A e \in X : e.from \in S
  BY DEF Prerequisites, scopeAllows
<1> QED BY <1>1, <1>2, <1>3 DEF Reading, Taking

\* A step of the walk is a pop, if anything waits.
LEMMA PopStep ==
    ASSUME NEW g, Typed(g), NEW S, NEW floor \in Levels, NEW w \in Walk(g, S)
    PROVE  /\ Pop(g, S, floor, w) \in Walk(g, S)
           /\ Waiting(w) = {} => Pop(g, S, floor, w) = w
           /\ Waiting(w) # {} => \E top \in S \cap Messages : Pops(g, S, floor, w, top, Pop(g, S, floor, w))
<1> DEFINE top   == CHOOSE m \in Waiting(w) : \A n \in Waiting(w) : w.queue[m].value >= w.queue[n].value
           fresh == {e \in Prerequisites(g, top, "ce", S) : e.from \notin w.visited \cup {top}}
           at    == [e \in fresh |-> Relational(e, floor)]
           next  == Offer(w.queue, w.queue[top], at)
<1>w. /\ w.queue \in [Messages -> Entry(BagToSet(g))] /\ w.visited \in SUBSET Messages
      /\ w.selected \in SUBSET (S \cap Messages) /\ \A n \in Messages \ S : w.queue[n].value = 0
      /\ w = [queue |-> w.queue, visited |-> w.visited, selected |-> w.selected]
  BY DEF Walk
<1>v. \A z \in Entry(BagToSet(g)) : z.value \in Int
  BY OneType DEF Entry
<1>1. CASE Waiting(w) = {}
  BY <1>1 DEF Pop
<1>2. CASE Waiting(w) # {}
  <2>1. Waiting(w) \subseteq Messages /\ Waiting(w) \subseteq S
    <3>1. \A m \in Waiting(w) : m \in Messages /\ w.queue[m].value > 0
      BY <1>w DEF Waiting
    <3>2. \A m \in Waiting(w) : m \in S
      BY <1>w, <3>1
    <3> QED BY <3>1, <3>2
  <2>2. top \in Waiting(w) /\ \A n \in Waiting(w) : w.queue[top].value >= w.queue[n].value
    <3> DEFINE val == [m \in Waiting(w) |-> w.queue[m].value]
    <3>1. IsFiniteSet(Waiting(w))
      BY <2>1, GraphAssumption, FS_Subset
    <3>2. val \in [Waiting(w) -> Int]
      BY <1>w, <1>v, <2>1
    <3>3. \E m \in Waiting(w) : \A n \in Waiting(w) : val[m] >= val[n]
      <4> HIDE DEF val
      <4> QED BY <1>2, <3>1, <3>2, Greatest
    <3>4. \E m \in Waiting(w) : \A n \in Waiting(w) : w.queue[m].value >= w.queue[n].value
      BY <3>3
    <3> QED BY <3>4
  <2>f. fresh = {x \in Prerequisites(g, top, "ce", S) : x.from \notin w.visited \cup {top}} /\ at = Fresh(g, top, S, floor, w.visited \cup {top})
    BY DEF Fresh
  <2> HIDE DEF top
  <2>3. DOMAIN at = fresh /\ fresh \subseteq Prerequisites(g, top, "ce", S)
    OBVIOUS
  <2>4. \A e \in fresh : at[e] \in 0 .. Unit
    <3>1. \A e \in fresh : e \in Edge
      BY DEF Prerequisites, Typed
    <3> QED BY <3>1, ReadType
  <2> HIDE DEF fresh, at
  <2>r. Reading(at, BagToSet(g)) /\ \A n \in Messages \ S : Taking(at, n) = {}
    BY <2>3, <2>4, FollowType
  <2>5. w.queue[top] \in Entry(BagToSet(g))
    BY <1>w, <2>1, <2>2
  <2>q. w.queue \in [Messages -> Entry(BagToSet(g))]
    BY <1>w
  <2>6. next \in [Messages -> Entry(BagToSet(g))]
        /\ \A n \in Messages : Offered(w.queue[n], w.queue[top], at, Taking(at, n), next[n])
    BY <2>q, <2>r, <2>5, OfferType
  <2> HIDE DEF next
  <2>7. \A n \in Messages \ S : next[n].value = 0
    BY <1>w, <2>r, <2>6 DEF Offered
  <2>8. CASE ~Clears(w.queue[top].value)
    <3>1. Pop(g, S, floor, w) = [w EXCEPT !.visited = @ \cup {top}]
      BY <1>2, <2>8, Zenon DEF Pop, top
    <3>2. PICK w2 : w2 = Pop(g, S, floor, w)
      OBVIOUS
    <3>3. w2.queue = w.queue /\ w2.visited = w.visited \cup {top} /\ w2.selected = w.selected
          /\ w2 \in Walk(g, S)
      BY <1>w, <2>1, <2>2, <3>1, <3>2 DEF Walk
    <3>4. Pops(g, S, floor, w, top, w2)
      BY <2>2, <2>8, <3>3 DEF Pops
    <3> QED BY <1>2, <2>1, <2>2, <3>2, <3>3, <3>4
  <2>9. CASE Clears(w.queue[top].value)
    <3>1. Pop(g, S, floor, w) = [queue |-> next, visited |-> w.visited \cup {top},
                                 selected |-> w.selected \cup {top}]
      BY <1>2, <2>9, Zenon DEF Pop, top, fresh, at, next
    <3>2. PICK w2 : w2 = Pop(g, S, floor, w)
      OBVIOUS
    <3>3. w2.queue = next /\ w2.visited = w.visited \cup {top} /\ w2.selected = w.selected \cup {top}
          /\ w2 \in Walk(g, S)
      BY <1>w, <2>1, <2>2, <2>6, <2>7, <3>1, <3>2 DEF Walk
    <3>4. Pops(g, S, floor, w, top, w2)
      BY <2>2, <2>9, <3>3, <2>6, <2>f DEF Pops
    <3> QED BY <1>2, <2>1, <2>2, <3>2, <3>3, <3>4
  <2> QED BY <2>8, <2>9
<1> QED BY <1>1, <1>2

\* Where a walk begins.
Seeds(g, anchor, S) ==
    Offer([n \in Messages |-> Nothing], [value |-> One, vias |-> {<< >>}],
          [e \in Prerequisites(g, anchor, "ce", S) |-> e.score])
Start(g, anchor, S) == [queue |-> Seeds(g, anchor, S), visited |-> {anchor}, selected |-> {}]

\* The edges into the anchor, at their verdicts.
Verdict(g, anchor, S) == [e \in Prerequisites(g, anchor, "ce", S) |-> e.score]

\* The seeds are offered over the edges into the anchor.
LEMMA SeedsType ==
    ASSUME NEW g, Typed(g), NEW anchor \in Messages, NEW S
    PROVE  /\ Start(g, anchor, S) \in Walk(g, S)
           /\ \A n \in Messages :
                 Offered(Nothing, [value |-> One, vias |-> {<< >>}], Verdict(g, anchor, S),
                         Taking(Verdict(g, anchor, S), n), Seeds(g, anchor, S)[n])
<1> DEFINE E     == BagToSet(g)
           q     == [n \in Messages |-> Nothing]
           entry == [value |-> One, vias |-> {<< >>}]
           X     == Prerequisites(g, anchor, "ce", S)
           at    == [e \in X |-> e.score]
<1>1. \A e \in X : e.score \in 0 .. Unit
  BY DEF Prerequisites, Typed, Edge
<1>2. Nothing \in Entry(E) /\ Nothing.value = 0
  BY OneType DEF Nothing, Entry
<1>3. q \in [Messages -> Entry(E)] /\ \A n \in Messages : q[n] = Nothing
  BY <1>2
<1>4. entry \in Entry(E)
  <2>1. << >> \in Seq(E)
    OBVIOUS
  <2> HIDE DEF E
  <2> QED BY <2>1, OneType DEF Entry
<1>8. Seeds(g, anchor, S) = Offer(q, entry, at) /\ at = Verdict(g, anchor, S)
  BY DEF Seeds, Verdict
<1> HIDE DEF E, entry
<1>5. DOMAIN at = X /\ \A e \in X : at[e] \in 0 .. Unit
  BY <1>1
<1> HIDE DEF at
<1>6. Reading(at, E) /\ \A n \in Messages \ S : Taking(at, n) = {}
  BY <1>5, FollowType DEF E
<1> HIDE DEF q, X
<1>7. /\ Offer(q, entry, at) \in [Messages -> Entry(E)]
      /\ \A n \in Messages : Offered(q[n], entry, at, Taking(at, n), Offer(q, entry, at)[n])
  BY <1>3, <1>4, <1>6, OfferType
<1>9. PICK r \in [Messages -> Entry(E)] :
        /\ r = Seeds(g, anchor, S)
        /\ \A n \in Messages : Offered(Nothing, entry, at, Taking(at, n), r[n])
  BY <1>3, <1>7, <1>8
<1>10. \A n \in Messages \ S : r[n].value = 0
  BY <1>2, <1>6, <1>9 DEF Offered
<1>11. [queue |-> r, visited |-> {anchor}, selected |-> {}] \in Walk(g, S)
  BY <1>10 DEF Walk, E
<1> QED BY <1>8, <1>9, <1>11 DEF Start, entry

\* The walk is a run of pops from the seeds, and its result is where it ends.
LEMMA ExtractRun ==
    ASSUME NEW g, Typed(g), NEW anchor \in Messages, NEW S, NEW floor \in Levels
    PROVE  \E w : /\ Run(w, Walk(g, S), Start(g, anchor, S), [y \in Walk(g, S) |-> Pop(g, S, floor, y)], Hops)
                  /\ Extract(g, anchor, S, floor) = [m \in w[Hops].selected |-> w[Hops].queue[m]]
<1> DEFINE T == Walk(g, S)
           v == Start(g, anchor, S)
           next == [y \in T |-> Pop(g, S, floor, y)]
           P(u) == u = [i \in 0 .. Hops |-> IF i = 0 THEN v ELSE Pop(g, S, floor, u[i - 1])]
<1>1. Extract(g, anchor, S, floor)
        = [m \in ((CHOOSE u : P(u))[Hops]).selected |-> ((CHOOSE u : P(u))[Hops]).queue[m]]
  BY Zenon DEF Extract, Start, Seeds, Iterate
<1>2. v \in T /\ \A y \in T : Pop(g, S, floor, y) \in T
  BY SeedsType, PopStep
<1>3. Hops \in Nat /\ next \in [T -> T] /\ \A y \in T : next[y] = Pop(g, S, floor, y)
  BY <1>2, HopsType
<1> HIDE DEF T, next, v
<1>s. PICK f : Stepping(f, T, v, next, Hops)
  BY <1>2, <1>3, RunExists
<1>4. f \in [0 .. Hops -> T] /\ \A i \in 0 .. Hops : f[i] = IF i = 0 THEN v ELSE next[f[i - 1]]
  BY <1>s DEF Stepping
<1>5. P(f)
  <2>1. ASSUME NEW i \in 0 .. Hops PROVE f[i] = IF i = 0 THEN v ELSE Pop(g, S, floor, f[i - 1])
    <3>1. i # 0 => i - 1 \in 0 .. Hops
      BY <1>3
    <3> QED BY <1>3, <1>4, <3>1
  <2> QED BY <1>4, <2>1
<1>6. PICK h : h = CHOOSE u : P(u)
  OBVIOUS
<1> HIDE DEF P
<1>7. P(h)
  BY <1>5, <1>6
<1> USE DEF P
<1>8. h[0] = v /\ \A i \in 0 .. Hops - 1 : h[i + 1] = Pop(g, S, floor, h[i])
  BY <1>3, <1>7
<1>9. Run(h, T, v, next, Hops)
  BY <1>2, <1>3, <1>8, RunFits
<1>10. Extract(g, anchor, S, floor) = [m \in h[Hops].selected |-> h[Hops].queue[m]]
  BY <1>1, <1>6
<1> QED BY <1>9, <1>10 DEF T, v, next

\* What a walk selects is in its scope.
LEMMA ExtractScope ==
    ASSUME NEW g, Typed(g), NEW anchor \in Messages, NEW S, NEW floor \in Levels
    PROVE  DOMAIN Extract(g, anchor, S, floor) \subseteq S
<1>1. PICK w : /\ Run(w, Walk(g, S), Start(g, anchor, S), [y \in Walk(g, S) |-> Pop(g, S, floor, y)], Hops)
               /\ Extract(g, anchor, S, floor) = [m \in w[Hops].selected |-> w[Hops].queue[m]]
  BY ExtractRun
<1>2. w[Hops] \in Walk(g, S)
  BY <1>1, HopsType DEF Run
<1> QED BY <1>1, <1>2 DEF Walk
-----------------------------------------------------------------------------
(* The reference: paths extended one edge at a time.                       *)

\* The greatest of finitely many ids.
LEMMA MaxType ==
    ASSUME NEW X, X \subseteq Nat, IsFiniteSet(X), X # {}
    PROVE  Max(X) \in X /\ \A y \in X : y <= Max(X)
<1> DEFINE val == [x \in X |-> x]
<1>1. val \in [X -> Int]
  OBVIOUS
<1>2. \E m \in X : \A n \in X : val[m] >= val[n]
  <2> HIDE DEF val
  <2> QED BY <1>1, Greatest
<1>3. \E m \in X : \A n \in X : m >= n
  BY <1>2
<1> QED BY <1>3 DEF Max

\* The least of finitely many numbers.
LEMMA MinType ==
    ASSUME NEW X, X \subseteq Nat, IsFiniteSet(X), X # {}
    PROVE  Min(X) \in X /\ \A y \in X : Min(X) <= y
<1> DEFINE val == [x \in X |-> -x]
<1>1. val \in [X -> Int]
  OBVIOUS
<1>2. \E m \in X : \A n \in X : val[m] >= val[n]
  <2> HIDE DEF val
  <2> QED BY <1>1, Greatest
<1>3. \E m \in X : \A n \in X : m <= n
  BY <1>2
<1> QED BY <1>3 DEF Min

\* The values of a function on a finite set are finitely many.
LEMMA ImageFinite ==
    ASSUME NEW X, IsFiniteSet(X), NEW f, DOMAIN f = X
    PROVE  IsFiniteSet({f[x] : x \in X})
<1>1. [x \in X |-> f[x]] \in Surjection(X, {f[x] : x \in X})
  BY DEF Surjection
<1> QED BY <1>1, FS_Surjection

\* How the reference reads an edge, and the edges of its paths from a message.
Read(e, anchor, floor) == IF e.to = anchor THEN e.score ELSE Relational(e, floor)
Links(g, n, anchor, S, floor) ==
    {e \in BagToSet(g) : e.from = n /\ e.src = "ce" /\ scopeAllows(e, S) /\ Accept(Read(e, anchor, floor))}

\* The values of the paths from n one edge longer than those of b.
Longer(b, g, n, anchor, S, floor) ==
    {Times(b[e.to], Read(e, anchor, floor)) : e \in Links(g, n, anchor, S, floor)}

\* A step of BestFrom, and its beginning.
Relaxed(b, g, anchor, S, floor) ==
    [n \in Messages |-> IF n = anchor THEN One ELSE Max({b[n]} \cup Longer(b, g, n, anchor, S, floor))]
Nowhere(anchor) == [n \in Messages |-> IF n = anchor THEN One ELSE 0]

\* Values of paths to the anchor, by message.
Values(anchor) == {b \in [Messages -> Nat] : b[anchor] = One}

\* A link joins two messages, and is read at a score.
LEMMA LinkType ==
    ASSUME NEW g, Typed(g), NEW anchor, NEW S, NEW floor \in Levels, NEW n, NEW e \in Links(g, n, anchor, S, floor)
    PROVE  e \in Edge /\ e.to \in Messages /\ e.from \in Messages /\ Read(e, anchor, floor) \in 0 .. Unit
<1>1. e \in Edge
  BY DEF Links, Typed
<1>2. e.to \in Messages /\ e.from \in Messages
  BY <1>1 DEF Edge
<1>3. e.score \in 0 .. Unit /\ Relational(e, floor) \in 0 .. Unit
  BY <1>1, ReadType
<1> QED BY <1>1, <1>2, <1>3 DEF Read

\* A step of the reference takes the greatest of what there is.
LEMMA RelaxedType ==
    ASSUME NEW g, Typed(g), NEW anchor \in Messages, NEW S, NEW floor \in Levels, NEW b \in Values(anchor)
    PROVE  /\ Relaxed(b, g, anchor, S, floor) \in Values(anchor)
           /\ \A n \in Messages : b[n] <= Relaxed(b, g, anchor, S, floor)[n]
           /\ \A n \in Messages \ {anchor} : \A e \in Links(g, n, anchor, S, floor) :
                 Times(b[e.to], Read(e, anchor, floor)) <= Relaxed(b, g, anchor, S, floor)[n]
           /\ \A n \in Messages \ {anchor} :
                 \/ Relaxed(b, g, anchor, S, floor)[n] = b[n]
                 \/ \E e \in Links(g, n, anchor, S, floor) :
                       Relaxed(b, g, anchor, S, floor)[n] = Times(b[e.to], Read(e, anchor, floor))
<1>1. PICK r : r = Relaxed(b, g, anchor, S, floor)
  OBVIOUS
<1>2. /\ DOMAIN r = Messages /\ r[anchor] = One
      /\ \A n \in Messages \ {anchor} : r[n] = Max({b[n]} \cup Longer(b, g, n, anchor, S, floor))
      /\ r = [n \in Messages |-> r[n]]
  BY <1>1 DEF Relaxed
<1>3. b \in [Messages -> Nat] /\ b[anchor] = One /\ One \in Nat
  BY OneType DEF Values
<1>4. ASSUME NEW n \in Messages \ {anchor}
      PROVE  /\ r[n] \in Nat /\ b[n] <= r[n]
             /\ \A e \in Links(g, n, anchor, S, floor) : Times(b[e.to], Read(e, anchor, floor)) <= r[n]
             /\ r[n] = b[n] \/ \E e \in Links(g, n, anchor, S, floor) : r[n] = Times(b[e.to], Read(e, anchor, floor))
  <2> DEFINE L == Links(g, n, anchor, S, floor)
             f == [e \in L |-> Times(b[e.to], Read(e, anchor, floor))]
             X == {b[n]} \cup Longer(b, g, n, anchor, S, floor)
  <2>1. IsFiniteSet(L)
    <3>1. L \subseteq BagToSet(g)
      BY DEF Links
    <3> HIDE DEF L
    <3> QED BY <3>1, FS_Subset DEF Typed
  <2>2. \A e \in L : Times(b[e.to], Read(e, anchor, floor)) \in Nat
    <3>1. \A e \in L : e.to \in Messages /\ Read(e, anchor, floor) \in 0 .. Unit
      BY LinkType
    <3> HIDE DEF L
    <3> QED BY <1>3, <3>1, TimesGrows
  <2>3. Longer(b, g, n, anchor, S, floor) = {f[e] : e \in L}
    BY DEF Longer
  <2> HIDE DEF L
  <2>4. DOMAIN f = L /\ \A e \in L : f[e] = Times(b[e.to], Read(e, anchor, floor))
    OBVIOUS
  <2> HIDE DEF f
  <2>5. IsFiniteSet({f[e] : e \in L})
    BY <2>1, <2>4, ImageFinite
  <2>6. X \subseteq Nat /\ X # {} /\ X = {b[n]} \cup {f[e] : e \in L}
    BY <1>3, <2>2, <2>3, <2>4
  <2>7. IsFiniteSet(X)
    BY <2>5, <2>6, FS_Singleton, FS_Union
  <2> HIDE DEF X
  <2>8. Max(X) \in X /\ \A y \in X : y <= Max(X)
    BY <2>6, <2>7, MaxType
  <2>9. r[n] = Max(X)
    BY <1>2 DEF X
  <2> QED BY <2>2, <2>4, <2>6, <2>8, <2>9 DEF L
<1>5. r \in [Messages -> Nat]
  BY <1>2, <1>3, <1>4
<1>6. \A n \in Messages : b[n] <= r[n]
  BY <1>2, <1>3, <1>4
<1> QED BY <1>1, <1>2, <1>4, <1>5, <1>6 DEF Values

\* BestFrom is a run of such steps.
LEMMA BestFromRun ==
    ASSUME NEW g, Typed(g), NEW anchor \in Messages, NEW S, NEW floor \in Levels
    PROVE  \E b : /\ Run(b, Values(anchor), Nowhere(anchor),
                         [y \in Values(anchor) |-> Relaxed(y, g, anchor, S, floor)], Hops)
                  /\ BestFrom(g, anchor, S, floor) = b[Hops]
<1> DEFINE T == Values(anchor)
           v == Nowhere(anchor)
           Op(y) == [m \in Messages |-> IF m = anchor THEN One
                       ELSE Max({y[m]} \cup {Times(y[e.to], IF e.to = anchor THEN e.score ELSE Relational(e, floor)) :
                           e \in {x \in BagToSet(g) : x.from = m /\ x.src = "ce" /\ scopeAllows(x, S)
                                     /\ Accept(IF x.to = anchor THEN x.score ELSE Relational(x, floor))}})]
           next == [y \in T |-> Op(y)]
           P(u) == u = [i \in 0 .. Hops |-> IF i = 0 THEN v ELSE Op(u[i - 1])]
<1>1. BestFrom(g, anchor, S, floor) = (CHOOSE u : P(u))[Hops]
  BY Zenon DEF BestFrom, Nowhere, Iterate
<1>o. \A y : Op(y) = Relaxed(y, g, anchor, S, floor)
  BY Zenon DEF Relaxed, Longer, Links, Read
<1> HIDE DEF Op
<1>2. v \in T /\ \A y \in T : Op(y) \in T
  <2>1. v \in T
    BY OneType DEF Nowhere, Values
  <2> QED BY <1>o, <2>1, RelaxedType
<1>3. Hops \in Nat /\ next \in [T -> T] /\ \A y \in T : next[y] = Op(y)
  BY <1>2, HopsType
<1>n. next = [y \in T |-> Relaxed(y, g, anchor, S, floor)]
  BY <1>o
<1> HIDE DEF T, next, v
<1>s. PICK f : Stepping(f, T, v, next, Hops)
  BY <1>2, <1>3, RunExists
<1>4. f \in [0 .. Hops -> T] /\ \A i \in 0 .. Hops : f[i] = IF i = 0 THEN v ELSE next[f[i - 1]]
  BY <1>s DEF Stepping
<1>5. P(f)
  <2>1. ASSUME NEW i \in 0 .. Hops PROVE f[i] = IF i = 0 THEN v ELSE Op(f[i - 1])
    <3>1. i # 0 => i - 1 \in 0 .. Hops
      BY <1>3
    <3> QED BY <1>3, <1>4, <3>1
  <2> QED BY <1>4, <2>1
<1>6. PICK h : h = CHOOSE u : P(u)
  OBVIOUS
<1> HIDE DEF P
<1>7. P(h)
  BY <1>5, <1>6
<1> USE DEF P
<1>8. h[0] = v /\ \A i \in 0 .. Hops - 1 : h[i + 1] = Op(h[i])
  BY <1>3, <1>7
<1>9. Run(h, T, v, next, Hops)
  BY <1>2, <1>3, <1>8, RunFits
<1>10. BestFrom(g, anchor, S, floor) = h[Hops]
  BY <1>1, <1>6
<1> QED BY <1>9, <1>10, <1>n DEF T, v
-----------------------------------------------------------------------------
(* The walk finds the best paths.                                          *)

\* Queue and reference, after as many steps of each: no message is worth more than
\* the reference knows, one that was visited no more than it knew a step before;
\* those visited are worth no less than the others; and a message has the value of
\* every edge into the anchor or a message selected.
Exact(w, b, g, anchor, S, floor) ==
    /\ anchor \in w.visited /\ anchor \notin w.selected
    /\ \A n \in Messages \ {anchor} :
          w.queue[n].value <= IF n \in w.visited THEN b[n] ELSE Relaxed(b, g, anchor, S, floor)[n]
    /\ \A m \in Messages \ {anchor} : m \in w.selected <=> m \in w.visited /\ Clears(w.queue[m].value)
    /\ \A m \in w.visited \ {anchor}, n \in Messages \ w.visited : w.queue[n].value <= w.queue[m].value
    /\ \A n \in Messages \ {anchor} : \A e \in Links(g, n, anchor, S, floor) :
          /\ e.to = anchor => Times(One, Read(e, anchor, floor)) <= w.queue[n].value
          /\ e.to \in w.selected => Times(w.queue[e.to].value, Read(e, anchor, floor)) <= w.queue[n].value

\* What clears the stance is worth something, and so does what is worth more.
LEMMA ClearsGrows ==
    ASSUME NEW x \in Nat, NEW y \in Nat, x <= y, Clears(x)
    PROVE  Clears(y) /\ x > 0
<1>1. Unit \in Nat \ {0} /\ Loss \in Nat \ {0} /\ One \in Nat \ {0}
  BY GraphAssumption, OneType
<1>2. PICK d \in Nat : y = x + d
  <2>1. y - x \in Nat /\ y = x + (y - x)
    OBVIOUS
  <2> QED BY <2>1
<1>3. y * Unit = x * Unit + d * Unit /\ d * Unit \in Nat /\ x * Unit \in Nat /\ y * Unit \in Nat
  BY <1>1, <1>2
<1>4. Loss * One \in Nat \ {0}
  BY <1>1
<1>5. x * Unit >= Loss * One
  BY DEF Clears
<1>6. x # 0
  <2>1. x = 0 => x * Unit = 0
    BY <1>1
  <2> QED BY <1>3, <1>4, <1>5, <2>1
<1>7. y * Unit >= Loss * One
  BY <1>3, <1>4, <1>5
<1> QED BY <1>6, <1>7 DEF Clears

\* The values of a walk are numbers.
LEMMA WalkValues ==
    ASSUME NEW g, NEW S, NEW w \in Walk(g, S)
    PROVE  /\ \A n \in Messages : w.queue[n].value \in 0 .. One /\ w.queue[n].value \in Nat
           /\ DOMAIN w.queue = Messages
<1>1. \A z \in Entry(BagToSet(g)) : z.value \in 0 .. One
  BY DEF Entry
<1>2. w.queue \in [Messages -> Entry(BagToSet(g))]
  BY DEF Walk
<1> QED BY <1>1, <1>2, OneType

\* The edges a popped message is followed over are the links to it.
LEMMA FreshLinks ==
    ASSUME NEW g, Typed(g), NEW anchor, NEW S, NEW floor, NEW m, m # anchor, NEW seen, NEW n
    PROVE  LET at == Fresh(g, m, S, floor, seen)
           IN  /\ \A e \in Taking(at, n) :
                     /\ e \in Links(g, n, anchor, S, floor) /\ e.to = m /\ n \notin seen
                     /\ at[e] = Read(e, anchor, floor)
               /\ \A e \in Links(g, n, anchor, S, floor) : e.to = m /\ n \notin seen =>
                     e \in Taking(at, n) /\ at[e] = Read(e, anchor, floor)
BY DEF Fresh, Taking, Links, Prerequisites, Read

\* A pop moves the queue and the reference on together.
LEMMA PopExact ==
    ASSUME NEW g, Typed(g), NEW anchor \in Messages, NEW S, NEW floor \in Levels,
           NEW w \in Walk(g, S), NEW w2 \in Walk(g, S), NEW top \in Messages, Pops(g, S, floor, w, top, w2),
           NEW b \in Values(anchor), Exact(w, b, g, anchor, S, floor)
    PROVE  Exact(w2, Relaxed(b, g, anchor, S, floor), g, anchor, S, floor)
<1> DEFINE r     == Relaxed(b, g, anchor, S, floor)
           rr    == Relaxed(r, g, anchor, S, floor)
           L(n)  == Links(g, n, anchor, S, floor)
           rd(e) == Read(e, anchor, floor)
           at    == Fresh(g, top, S, floor, w.visited \cup {top})
<1>b. b \in Values(anchor) /\ r \in Values(anchor) /\ rr \in Values(anchor)
  BY RelaxedType
<1>v. \A n \in Messages : b[n] \in Nat /\ r[n] \in Nat /\ rr[n] \in Nat /\ b[n] <= r[n] /\ r[n] <= rr[n]
  <2>1. \A n \in Messages : b[n] <= r[n] /\ r[n] <= rr[n]
    BY <1>b, RelaxedType
  <2> QED BY <1>b, <2>1 DEF Values
<1>r. \A n \in Messages \ {anchor} : \A e \in L(n) : Times(r[e.to], rd(e)) <= rr[n]
  BY <1>b, RelaxedType
<1>l. \A n : \A e \in L(n) : e.to \in Messages /\ rd(e) \in 0 .. Unit
  BY LinkType
<1>q. /\ \A n \in Messages : w.queue[n].value \in Nat /\ w2.queue[n].value \in Nat
      /\ w.visited \subseteq Messages
  BY WalkValues DEF Walk
<1>t. top \notin w.visited /\ top # anchor /\ w.queue[top].value > 0
  BY <1>q DEF Pops, Waiting, Exact
<1>n. \A n \in Messages \ w.visited : w.queue[n].value <= w.queue[top].value
  <2>1. \A n \in Messages \ w.visited : n \in Waiting(w) \/ w.queue[n].value = 0
    <3>1. DOMAIN w.queue = Messages
      BY WalkValues
    <3> QED BY <1>q, <3>1 DEF Waiting
  <2> QED BY <1>q, <1>t, <2>1 DEF Pops
<1>p. w2.visited = w.visited \cup {top}
  BY DEF Pops
<1>s. w2.selected = IF Clears(w.queue[top].value) THEN w.selected \cup {top} ELSE w.selected
  BY DEF Pops
<1>f. \A n : /\ \A e \in Taking(at, n) : e \in L(n) /\ e.to = top /\ n \notin w.visited \cup {top} /\ at[e] = rd(e)
             /\ \A e \in L(n) : e.to = top /\ n \notin w.visited \cup {top} => e \in Taking(at, n) /\ at[e] = rd(e)
  BY <1>t, FreshLinks
<1>o. Clears(w.queue[top].value) =>
         \A n \in Messages : Offered(w.queue[n], w.queue[top], at, Taking(at, n), w2.queue[n])
  BY DEF Pops
<1>c. ~Clears(w.queue[top].value) => w2.queue = w.queue
  BY DEF Pops
<1> HIDE DEF r, rr, L, rd, at
<1>1. ASSUME NEW n \in Messages
      PROVE  /\ w.queue[n].value <= w2.queue[n].value
             /\ \/ w2.queue[n].value = w.queue[n].value
                \/ /\ n \notin w.visited
                   /\ \E e \in L(n) : e.to = top /\ w2.queue[n].value = Times(w.queue[top].value, rd(e))
  <2>1. CASE ~Clears(w.queue[top].value)
    BY <1>c, <1>q, <2>1
  <2>2. CASE Clears(w.queue[top].value)
    <3>1. Offered(w.queue[n], w.queue[top], at, Taking(at, n), w2.queue[n])
      BY <1>o, <2>2
    <3>2. /\ w.queue[n].value <= w2.queue[n].value
          /\ \/ w2.queue[n].value = w.queue[n].value
             \/ \E e \in Taking(at, n) : w2.queue[n].value = Times(w.queue[top].value, at[e])
      BY <3>1 DEF Offered
    <3> QED BY <1>f, <3>2
  <2> QED BY <2>1, <2>2
<1>2. \A n \in Messages : \A e \in L(n) : e.to = top => Times(w.queue[top].value, rd(e)) \in Nat
                                                    /\ Times(w.queue[top].value, rd(e)) <= w.queue[top].value
  BY <1>l, <1>q, TimesGrows
<1>3. \A n \in w.visited \cup {top} : w2.queue[n].value = w.queue[n].value
  <2>1. \A n \in w.visited : w2.queue[n].value = w.queue[n].value
    BY <1>1, <1>q
  <2>2. w2.queue[top].value = w.queue[top].value
    BY <1>1, <1>2, <1>q
  <2> QED BY <2>1, <2>2
<1>4. \A n \in Messages : w2.queue[n].value <= w.queue[n].value \/ w2.queue[n].value <= w.queue[top].value
  BY <1>1, <1>2, <1>q
<1>e. /\ anchor \in w.visited /\ anchor \notin w.selected
      /\ \A n \in Messages \ {anchor} : w.queue[n].value <= IF n \in w.visited THEN b[n] ELSE r[n]
      /\ \A m \in Messages \ {anchor} : m \in w.selected <=> m \in w.visited /\ Clears(w.queue[m].value)
      /\ \A m \in w.visited \ {anchor}, n \in Messages \ w.visited : w.queue[n].value <= w.queue[m].value
      /\ \A n \in Messages \ {anchor} : \A e \in L(n) :
            /\ e.to = anchor => Times(One, rd(e)) <= w.queue[n].value
            /\ e.to \in w.selected => Times(w.queue[e.to].value, rd(e)) <= w.queue[n].value
  BY DEF Exact, r, L, rd
<1>5. ASSUME NEW n \in Messages \ {anchor}
      PROVE  w2.queue[n].value <= IF n \in w2.visited THEN r[n] ELSE rr[n]
  <2>1. CASE n \in w2.visited
    BY <1>3, <1>e, <1>p, <1>q, <1>v, <2>1
  <2>2. CASE n \notin w2.visited
    <3>1. w.queue[n].value <= rr[n]
      BY <1>e, <1>p, <1>q, <1>v, <2>2
    <3>2. ASSUME NEW e \in L(n), e.to = top PROVE Times(w.queue[top].value, rd(e)) <= rr[n]
      <4>1. w.queue[top].value <= r[top] /\ rd(e) \in 0 .. Unit
        BY <1>e, <1>l, <1>t
      <4>2. Times(w.queue[top].value, rd(e)) <= Times(r[top], rd(e)) /\ Times(r[top], rd(e)) \in Nat
        BY <1>q, <1>v, <4>1, TimesGrows
      <4>3. Times(r[top], rd(e)) <= rr[n]
        BY <1>r, <3>2
      <4> QED BY <1>2, <1>v, <3>2, <4>2, <4>3
    <3> QED BY <1>1, <2>2, <3>1, <3>2
  <2> QED BY <2>1, <2>2
<1>6. ASSUME NEW m \in Messages \ {anchor} PROVE m \in w2.selected <=> m \in w2.visited /\ Clears(w2.queue[m].value)
  BY <1>3, <1>e, <1>p, <1>s, <1>t
<1>7. ASSUME NEW m \in w2.visited \ {anchor}, NEW n \in Messages \ w2.visited
      PROVE  w2.queue[n].value <= w2.queue[m].value
  <2>1. w2.queue[m].value = w.queue[m].value /\ m \in Messages
    BY <1>3, <1>p, <1>q
  <2>2. w.queue[n].value <= w.queue[m].value /\ w.queue[top].value <= w.queue[m].value
    BY <1>e, <1>n, <1>p, <1>q, <1>t
  <2> QED BY <1>4, <1>q, <2>1, <2>2
<1>8. ASSUME NEW n \in Messages \ {anchor}, NEW e \in L(n)
      PROVE  /\ e.to = anchor => Times(One, rd(e)) <= w2.queue[n].value
             /\ e.to \in w2.selected => Times(w2.queue[e.to].value, rd(e)) <= w2.queue[n].value
  <2>0. w.queue[n].value <= w2.queue[n].value
    BY <1>1
  <2>1. ASSUME e.to = anchor PROVE Times(One, rd(e)) <= w2.queue[n].value
    <3>1. Times(One, rd(e)) <= w.queue[n].value /\ Times(One, rd(e)) \in Nat
      BY <1>e, <1>l, <2>1, OneType, TimesGrows
    <3> QED BY <1>q, <2>0, <3>1
  <2>2. ASSUME e.to \in w.selected PROVE Times(w2.queue[e.to].value, rd(e)) <= w2.queue[n].value
    <3>1. e.to \in w.visited
      BY <1>e, <1>l, <2>2
    <3>2. w2.queue[e.to].value = w.queue[e.to].value
      BY <1>3, <3>1
    <3>3. Times(w.queue[e.to].value, rd(e)) <= w.queue[n].value /\ Times(w.queue[e.to].value, rd(e)) \in Nat
      BY <1>e, <1>l, <1>q, <2>2, TimesGrows
    <3> QED BY <1>q, <2>0, <3>2, <3>3
  <2>3. ASSUME e.to = top, Clears(w.queue[top].value) PROVE Times(w2.queue[e.to].value, rd(e)) <= w2.queue[n].value
    <3>1. w2.queue[e.to].value = w.queue[top].value
      BY <1>3, <2>3
    <3>2. CASE n \notin w.visited \cup {top}
      <4>1. e \in Taking(at, n) /\ at[e] = rd(e)
        BY <1>f, <2>3, <3>2
      <4>2. Times(w.queue[top].value, at[e]) <= w2.queue[n].value
        BY <1>o, <2>3, <4>1 DEF Offered
      <4> QED BY <3>1, <4>1, <4>2
    <3>3. CASE n \in w.visited
      <4>1. w.queue[top].value <= w.queue[n].value
        BY <1>e, <1>t, <3>3
      <4> QED BY <1>2, <1>q, <2>0, <2>3, <3>1, <4>1
    <3>4. CASE n = top
      BY <1>2, <1>q, <2>0, <2>3, <3>1, <3>4
    <3> QED BY <3>2, <3>3, <3>4
  <2> QED BY <1>s, <2>1, <2>2, <2>3
<1>9. anchor \in w2.visited /\ anchor \notin w2.selected
  BY <1>e, <1>p, <1>s, <1>t
<1>10. PICK r1 : r1 = r
  OBVIOUS
<1>11. Exact(w2, r1, g, anchor, S, floor)
  BY <1>5, <1>6, <1>7, <1>8, <1>9, <1>10 DEF Exact, rr, L, rd
<1> QED BY <1>10, <1>11 DEF r

\* It holds where both begin.
LEMMA StartExact ==
    ASSUME NEW g, Typed(g), NEW anchor \in Messages, NEW S, NEW floor \in Levels
    PROVE  Exact(Start(g, anchor, S), Nowhere(anchor), g, anchor, S, floor)
<1> DEFINE b  == Nowhere(anchor)
           r  == Relaxed(b, g, anchor, S, floor)
           at == Verdict(g, anchor, S)
           w  == Start(g, anchor, S)
<1>1. w \in Walk(g, S) /\ w.queue = Seeds(g, anchor, S) /\ w.visited = {anchor} /\ w.selected = {}
  BY SeedsType DEF Start
<1>2. b \in Values(anchor) /\ \A n \in Messages \ {anchor} : b[n] = 0
  BY OneType DEF Nowhere, Values
<1>3. r \in [Messages -> Nat]
      /\ \A n \in Messages \ {anchor} : \A e \in Links(g, n, anchor, S, floor) : Times(b[e.to], Read(e, anchor, floor)) <= r[n]
  BY <1>2, RelaxedType DEF Values
<1>4. b[anchor] = One
  BY <1>2 DEF Values
<1>5. \A n : /\ \A e \in Taking(at, n) : e \in Links(g, n, anchor, S, floor) /\ e.to = anchor
                                         /\ at[e] = Read(e, anchor, floor)
             /\ \A e \in Links(g, n, anchor, S, floor) : e.to = anchor =>
                   e \in Taking(at, n) /\ at[e] = Read(e, anchor, floor)
  BY DEF Verdict, Taking, Links, Prerequisites, Read
<1>6. PICK one : one = [value |-> One, vias |-> {<< >>}]
  OBVIOUS
<1>7. \A n \in Messages : Offered(Nothing, one, at, Taking(at, n), w.queue[n])
  BY <1>1, <1>6, SeedsType
<1>8. one.value = One /\ Nothing.value = 0
  BY <1>6 DEF Nothing
<1> HIDE DEF b, r, at, w
<1>9. ASSUME NEW n \in Messages \ {anchor}
      PROVE  /\ w.queue[n].value <= r[n]
             /\ \A e \in Links(g, n, anchor, S, floor) :
                   e.to = anchor => Times(One, Read(e, anchor, floor)) <= w.queue[n].value
  <2>1. /\ \A e \in Taking(at, n) : Times(One, at[e]) <= w.queue[n].value
        /\ w.queue[n].value = 0 \/ \E e \in Taking(at, n) : w.queue[n].value = Times(One, at[e])
    BY <1>7, <1>8 DEF Offered
  <2>2. w.queue[n].value <= r[n]
    BY <1>3, <1>4, <1>5, <2>1
  <2> QED BY <1>5, <2>1, <2>2
<1>10. Exact(w, b, g, anchor, S, floor)
  BY <1>1, <1>9 DEF Exact, r
<1> QED BY <1>10 DEF w, b

\* Where nothing waits a further step of the reference changes nothing.
LEMMA RestExact ==
    ASSUME NEW g, Typed(g), NEW anchor \in Messages, NEW S, NEW floor \in Levels,
           NEW w \in Walk(g, S), NEW b \in Values(anchor), Exact(w, b, g, anchor, S, floor)
    PROVE  Exact(w, Relaxed(b, g, anchor, S, floor), g, anchor, S, floor)
<1>1. PICK r : r = Relaxed(b, g, anchor, S, floor)
  OBVIOUS
<1>2. r \in Values(anchor) /\ \A n \in Messages : b[n] <= r[n]
  BY <1>1, RelaxedType
<1>3. PICK rr : rr = Relaxed(r, g, anchor, S, floor)
  OBVIOUS
<1>4. rr \in Values(anchor) /\ \A n \in Messages : r[n] <= rr[n]
  BY <1>2, <1>3, RelaxedType
<1>5. \A n \in Messages : b[n] \in Nat /\ r[n] \in Nat /\ rr[n] \in Nat /\ w.queue[n].value \in Nat
  BY <1>2, <1>4, WalkValues DEF Values
<1>6. \A n \in Messages \ {anchor} : w.queue[n].value <= IF n \in w.visited THEN b[n] ELSE r[n]
  BY <1>1 DEF Exact
<1>7. \A n \in Messages \ {anchor} : w.queue[n].value <= IF n \in w.visited THEN r[n] ELSE rr[n]
  BY <1>2, <1>4, <1>5, <1>6
<1>8. Exact(w, r, g, anchor, S, floor)
  BY <1>3, <1>7 DEF Exact
<1> QED BY <1>1, <1>8

\* At the end nothing waits, and queue and reference agree on what clears.
LEMMA WalkExact ==
    ASSUME NEW g, Typed(g), NEW anchor \in Messages, NEW S, NEW floor \in Levels,
           NEW w, Run(w, Walk(g, S), Start(g, anchor, S), [y \in Walk(g, S) |-> Pop(g, S, floor, y)], Hops),
           NEW b, Run(b, Values(anchor), Nowhere(anchor),
                      [y \in Values(anchor) |-> Relaxed(y, g, anchor, S, floor)], Hops)
    PROVE  /\ w[Hops].selected = {m \in Messages \ {anchor} : Clears(b[Hops][m])}
           /\ \A m \in w[Hops].selected : w[Hops].queue[m].value = b[Hops][m]
<1>1. /\ w[0] = Start(g, anchor, S) /\ \A i \in 0 .. Hops : w[i] \in Walk(g, S)
      /\ \A i \in 0 .. Hops - 1 : w[i + 1] = Pop(g, S, floor, w[i])
  <2>1. \A i \in 0 .. Hops - 1 : w[i] \in Walk(g, S)
    BY HopsType DEF Run
  <2> QED BY <2>1 DEF Run
<1>2. /\ b[0] = Nowhere(anchor) /\ \A i \in 0 .. Hops : b[i] \in Values(anchor)
      /\ \A i \in 0 .. Hops - 1 : b[i + 1] = Relaxed(b[i], g, anchor, S, floor)
  <2>1. \A i \in 0 .. Hops - 1 : b[i] \in Values(anchor)
    BY HopsType DEF Run
  <2> QED BY <2>1 DEF Run
<1>3. Hops \in Nat /\ Hops \in 0 .. Hops /\ 0 \in 0 .. Hops /\ \A i \in 0 .. Hops - 1 : i \in 0 .. Hops /\ i + 1 \in 0 .. Hops
  BY HopsType
<1>4. \A i \in 0 .. Hops : Exact(w[i], b[i], g, anchor, S, floor)
  <2> DEFINE W == {i \in 0 .. Hops : Exact(w[i], b[i], g, anchor, S, floor)}
  <2>1. 0 \in W
    BY <1>1, <1>2, <1>3, StartExact
  <2>2. ASSUME NEW i \in 0 .. Hops - 1, i \in W PROVE i + 1 \in W
    <3>1. /\ Exact(w[i], b[i], g, anchor, S, floor) /\ w[i] \in Walk(g, S) /\ b[i] \in Values(anchor)
          /\ w[i + 1] \in Walk(g, S) /\ w[i + 1] = Pop(g, S, floor, w[i])
          /\ b[i + 1] = Relaxed(b[i], g, anchor, S, floor)
      BY <1>1, <1>2, <1>3, <2>2
    <3>2. Exact(w[i + 1], b[i + 1], g, anchor, S, floor)
      <4>1. CASE Waiting(w[i]) = {}
        <5>1. w[i + 1] = w[i]
          BY <3>1, <4>1, PopStep
        <5> QED BY <3>1, <5>1, RestExact
      <4>2. CASE Waiting(w[i]) # {}
        <5>1. PICK top \in S \cap Messages : Pops(g, S, floor, w[i], top, w[i + 1])
          BY <3>1, <4>2, PopStep
        <5> QED BY <3>1, <5>1, PopExact
      <4> QED BY <4>1, <4>2
    <3> QED BY <1>3, <3>2
  <2> HIDE DEF W
  <2>3. 0 .. Hops \subseteq W
    BY <1>3, <2>1, <2>2, UpTo
  <2> QED BY <2>3 DEF W
<1>5. Waiting(w[Hops]) = {}
  <2> DEFINE W == {i \in 0 .. Hops : Waiting(w[i]) = {} \/ Cardinality(w[i].visited) >= i + 1}
  <2>c. \A i \in 0 .. Hops : IsFiniteSet(w[i].visited) /\ Cardinality(w[i].visited) \in Nat
                             /\ Cardinality(w[i].visited) <= Hops
    <3>1. \A i \in 0 .. Hops : w[i].visited \in SUBSET Messages
      BY <1>1 DEF Walk
    <3> QED BY <3>1, GraphAssumption, FS_Subset, FS_CardinalityType DEF Hops
  <2>1. 0 \in W
    <3>1. w[0].visited = {anchor}
      BY <1>1 DEF Start
    <3>2. Cardinality(w[0].visited) = 1
      BY <3>1, FS_Singleton
    <3>3. Cardinality(w[0].visited) >= 0 + 1
      BY <3>2
    <3> QED BY <1>3, <3>3
  <2>2. ASSUME NEW i \in 0 .. Hops - 1, i \in W PROVE i + 1 \in W
    <3>0. w[i] \in Walk(g, S) /\ w[i + 1] = Pop(g, S, floor, w[i]) /\ i \in 0 .. Hops
      BY <1>1, <1>3
    <3>1. CASE Waiting(w[i]) = {}
      <4>1. w[i + 1] = w[i]
        BY <3>0, <3>1, PopStep
      <4> QED BY <1>3, <3>1, <4>1
    <3>2. CASE Waiting(w[i]) # {}
      <4>1. PICK top \in S \cap Messages : Pops(g, S, floor, w[i], top, w[i + 1])
        BY <3>0, <3>2, PopStep
      <4>2. top \notin w[i].visited /\ w[i + 1].visited = w[i].visited \cup {top}
        BY <4>1 DEF Pops, Waiting
      <4>3. Cardinality(w[i + 1].visited) = Cardinality(w[i].visited) + 1
        BY <2>c, <3>0, <4>2, FS_AddElement
      <4>4. Cardinality(w[i].visited) >= i + 1
        BY <2>2, <3>2
      <4>5. Cardinality(w[i + 1].visited) >= (i + 1) + 1
        BY <2>c, <3>0, <4>3, <4>4
      <4> QED BY <1>3, <4>5
    <3> QED BY <3>1, <3>2
  <2> HIDE DEF W
  <2>3. 0 .. Hops \subseteq W
    BY <1>3, <2>1, <2>2, UpTo
  <2>4. Waiting(w[Hops]) = {} \/ Cardinality(w[Hops].visited) >= Hops + 1
    BY <1>3, <2>3 DEF W
  <2> QED BY <1>3, <2>c, <2>4
<1> DEFINE q == w[Hops].queue
           X == w[Hops].selected
<1>6. /\ Exact(w[Hops], b[Hops], g, anchor, S, floor) /\ w[Hops] \in Walk(g, S) /\ b[Hops] \in Values(anchor)
      /\ \A n \in Messages : q[n].value \in Nat /\ b[Hops][n] \in Nat
      /\ DOMAIN q = Messages /\ X \subseteq Messages
  <2>1. w[Hops] \in Walk(g, S) /\ b[Hops] \in Values(anchor)
    BY <1>1, <1>2, <1>3
  <2> QED BY <1>3, <1>4, <2>1, WalkValues DEF Values, Walk
<1>7. ASSUME NEW m \in Messages \ {anchor}, Clears(q[m].value) PROVE m \in X
  <2>1. q[m].value > 0
    BY <1>6, <1>7, ClearsGrows
  <2>2. m \in w[Hops].visited
    BY <1>5, <1>6, <2>1 DEF Waiting
  <2> QED BY <1>6, <1>7, <2>2 DEF Exact
<1>8. \A i \in 0 .. Hops : \A m \in Messages \ {anchor} : Clears(b[i][m]) => b[i][m] <= q[m].value
  <2> DEFINE W == {i \in 0 .. Hops : \A m \in Messages \ {anchor} : Clears(b[i][m]) => b[i][m] <= q[m].value}
  <2>1. 0 \in W
    <3>1. \A m \in Messages \ {anchor} : b[0][m] = 0
      BY <1>2 DEF Nowhere
    <3>2. ~Clears(0)
      BY ClearsGrows
    <3> QED BY <1>3, <3>1, <3>2
  <2>2. ASSUME NEW i \in 0 .. Hops - 1, i \in W PROVE i + 1 \in W
    <3>0. b[i] \in Values(anchor) /\ b[i + 1] = Relaxed(b[i], g, anchor, S, floor) /\ i + 1 \in 0 .. Hops
      BY <1>2, <1>3
    <3>n. \A n \in Messages : b[i][n] \in Nat /\ b[i][anchor] = One
      BY <3>0 DEF Values
    <3>i. \A n \in Messages \ {anchor} : Clears(b[i][n]) => b[i][n] <= q[n].value
      BY <2>2
    <3>x. /\ anchor \notin X
          /\ \A n \in Messages \ {anchor} : \A e \in Links(g, n, anchor, S, floor) :
                /\ e.to = anchor => Times(One, Read(e, anchor, floor)) <= q[n].value
                /\ e.to \in X => Times(q[e.to].value, Read(e, anchor, floor)) <= q[n].value
      BY <1>6 DEF Exact
    <3> HIDE DEF W, q, X
    <3>1. ASSUME NEW m \in Messages \ {anchor}, Clears(b[i + 1][m]) PROVE b[i + 1][m] <= q[m].value
      <4>1. CASE b[i + 1][m] = b[i][m]
        BY <3>1, <3>i, <4>1
      <4>2. ASSUME NEW e \in Links(g, m, anchor, S, floor), b[i + 1][m] = Times(b[i][e.to], Read(e, anchor, floor))
            PROVE  b[i + 1][m] <= q[m].value
        <5>1. e.to \in Messages /\ Read(e, anchor, floor) \in 0 .. Unit
          BY LinkType
        <5>2. b[i + 1][m] <= b[i][e.to] /\ b[i + 1][m] \in Nat
          BY <3>n, <4>2, <5>1, TimesGrows
        <5>3. Clears(b[i][e.to])
          BY <3>1, <3>n, <5>1, <5>2, ClearsGrows
        <5>4. CASE e.to = anchor
          BY <3>n, <3>x, <4>2, <5>4
        <5>5. CASE e.to # anchor
          <6>1. b[i][e.to] <= q[e.to].value
            BY <3>i, <5>1, <5>3, <5>5
          <6>2. e.to \in X
            <7>1. Clears(q[e.to].value)
              BY <1>6, <3>n, <5>1, <5>3, <6>1, ClearsGrows DEF q
            <7> QED BY <1>7, <5>1, <5>5, <7>1 DEF q, X
          <6>3. Times(b[i][e.to], Read(e, anchor, floor)) <= Times(q[e.to].value, Read(e, anchor, floor))
                /\ Times(q[e.to].value, Read(e, anchor, floor)) \in Nat
            BY <1>6, <3>n, <5>1, <6>1, TimesGrows DEF q
          <6>4. Times(q[e.to].value, Read(e, anchor, floor)) <= q[m].value
            BY <3>x, <6>2
          <6>5. q[m].value \in Nat
            BY <1>6 DEF q
          <6> QED BY <4>2, <5>2, <6>3, <6>4, <6>5
        <5> QED BY <5>4, <5>5
      <4>3. b[i + 1][m] = b[i][m] \/ \E e \in Links(g, m, anchor, S, floor) :
                                        b[i + 1][m] = Times(b[i][e.to], Read(e, anchor, floor))
        BY <3>0, RelaxedType
      <4> QED BY <4>1, <4>2, <4>3
    <3> QED BY <3>0, <3>1 DEF W
  <2> HIDE DEF W, q
  <2>3. 0 .. Hops \subseteq W
    BY <1>3, <2>1, <2>2, UpTo
  <2> QED BY <2>3 DEF W
<1>9. ASSUME NEW m \in X
      PROVE  m \in Messages \ {anchor} /\ Clears(q[m].value) /\ q[m].value <= b[Hops][m] /\ Clears(b[Hops][m])
  <2>1. m \in Messages \ {anchor} /\ Clears(q[m].value) /\ q[m].value <= b[Hops][m]
    BY <1>6 DEF Exact
  <2> QED BY <1>6, <2>1, ClearsGrows
<1>10. ASSUME NEW m \in Messages \ {anchor}, Clears(b[Hops][m])
       PROVE  b[Hops][m] <= q[m].value /\ m \in X
  <2>1. b[Hops][m] <= q[m].value
    BY <1>3, <1>8, <1>10
  <2> QED BY <1>6, <1>7, <1>10, <2>1, ClearsGrows
<1> HIDE DEF q, X
<1>11. \A m \in X : q[m].value = b[Hops][m]
  BY <1>6, <1>9, <1>10 DEF q
<1> QED BY <1>9, <1>10, <1>11 DEF q, X

-----------------------------------------------------------------------------
(* The reduction keeps the edge a message was selected over.               *)

\* The starts of the edges of a message's path, and what they lead to.
Direct(via, m)    == {via[m][i].from : i \in DOMAIN via[m]} \cap DOMAIN via
Reachable(via, m) == Iterate(LAMBDA X : X \cup UNION {Direct(via, x) : x \in X}, Direct(via, m), Hops)

\* A set of messages whose paths stay in it.
Closed(D, via) == \A y \in D : Direct(via, y) \subseteq D

\* What a member of such a set leads to is in it.
LEMMA ReachableClosed ==
    ASSUME NEW via, NEW D, Closed(D, via), NEW x \in D
    PROVE  Reachable(via, x) \subseteq D
<1> DEFINE T     == SUBSET D
           v     == Direct(via, x)
           Op(X) == X \cup UNION {Direct(via, y) : y \in X}
           next  == [X \in T |-> Op(X)]
           P(u)  == u = [i \in 0 .. Hops |-> IF i = 0 THEN v ELSE Op(u[i - 1])]
<1>1. Reachable(via, x) = (CHOOSE u : P(u))[Hops]
  BY Zenon DEF Reachable, Iterate
<1>2. v \in T
  BY DEF Closed
<1>o. \A X \in T : Op(X) \in T
  BY DEF Closed
<1> HIDE DEF Op, v, T
<1>3. Hops \in Nat /\ next \in [T -> T] /\ \A y \in T : next[y] = Op(y)
  BY <1>o, HopsType
<1> HIDE DEF next
<1>s. PICK f : Stepping(f, T, v, next, Hops)
  BY <1>2, <1>3, RunExists
<1>4. f \in [0 .. Hops -> T] /\ \A i \in 0 .. Hops : f[i] = IF i = 0 THEN v ELSE next[f[i - 1]]
  BY <1>s DEF Stepping
<1>5. P(f)
  <2>1. ASSUME NEW i \in 0 .. Hops PROVE f[i] = IF i = 0 THEN v ELSE Op(f[i - 1])
    <3>1. i # 0 => i - 1 \in 0 .. Hops
      BY <1>3
    <3> QED BY <1>3, <1>4, <3>1
  <2> QED BY <1>4, <2>1
<1>6. PICK h : h = CHOOSE u : P(u)
  OBVIOUS
<1> HIDE DEF P
<1>7. P(h)
  BY <1>5, <1>6
<1> USE DEF P
<1>8. h[0] = v /\ \A i \in 0 .. Hops - 1 : h[i + 1] = Op(h[i])
  BY <1>3, <1>7
<1>9. Run(h, T, v, next, Hops)
  BY <1>2, <1>3, <1>8, RunFits
<1>10. h[Hops] \in T
  BY <1>3, <1>9 DEF Run
<1> QED BY <1>1, <1>6, <1>10 DEF T

\* An edge of a path stays if nothing else on the path leads back to its start.
LEMMA ReductionKeeps ==
    ASSUME NEW via, NEW m \in DOMAIN via, NEW n \in DOMAIN via[m], via[m][n].from = m,
           \A k \in DOMAIN via[m] : via[m][k].from # m =>
              \E D : via[m][k].from \in D /\ m \notin D /\ Closed(D, via)
    PROVE  n \in transitiveReduction(via)[m]
<1>1. transitiveReduction(via)[m] =
        {i \in DOMAIN via[m] : ~ \E k \in DOMAIN via[m] :
            via[m][k].from # via[m][i].from /\ via[m][i].from \in Reachable(via, via[m][k].from)}
  BY Zenon DEF transitiveReduction, Reachable, Direct
<1>2. ASSUME NEW k \in DOMAIN via[m], via[m][k].from # m, m \in Reachable(via, via[m][k].from)
      PROVE  FALSE
  <2>1. PICK D : via[m][k].from \in D /\ m \notin D /\ Closed(D, via)
    BY <1>2
  <2>2. Reachable(via, via[m][k].from) \subseteq D
    BY <2>1, ReachableClosed
  <2> QED BY <1>2, <2>1, <2>2
<1> QED BY <1>1, <1>2

\* Paths of a message end in an edge from it, over messages selected before it.
Rooted(w) ==
    \A n \in Messages : \A v \in w.queue[n].vias :
        /\ Len(v) \in DOMAIN v /\ v[Len(v)].from = n
        /\ \A k \in DOMAIN v : v[k].from = n \/ v[k].from \in w.selected

\* From w to w2 what was visited stays, and its paths are not added to.
Frozen(w, w2) ==
    /\ w.visited \subseteq w2.visited /\ w.selected \subseteq w2.selected
    /\ w2.selected \subseteq w2.visited \cup w.selected
    /\ \A n \in w2.visited : w2.queue[n].vias \subseteq w.queue[n].vias

\* A path with one more edge.
LEMMA AppendPath ==
    ASSUME NEW E, NEW u \in Seq(E), NEW e \in E
    PROVE  /\ Len(Append(u, e)) \in DOMAIN Append(u, e) /\ Append(u, e)[Len(Append(u, e))] = e
           /\ \A k \in DOMAIN Append(u, e) : (k \in DOMAIN u /\ Append(u, e)[k] = u[k]) \/ Append(u, e)[k] = e
<1>1. Len(Append(u, e)) = Len(u) + 1 /\ Len(u) \in Nat /\ DOMAIN Append(u, e) = 1 .. Len(u) + 1 /\ DOMAIN u = 1 .. Len(u)
  OBVIOUS
<1>2. Append(u, e)[Len(u) + 1] = e /\ \A k \in 1 .. Len(u) : Append(u, e)[k] = u[k]
  OBVIOUS
<1>3. \A k \in 1 .. Len(u) + 1 : k \in 1 .. Len(u) \/ k = Len(u) + 1
  BY <1>1
<1> QED BY <1>1, <1>2, <1>3

\* A pop adds paths that go on from the message popped, to messages not visited.
LEMMA PopRooted ==
    ASSUME NEW g, Typed(g), NEW S, NEW floor \in Levels,
           NEW w \in Walk(g, S), NEW w2 \in Walk(g, S), NEW top \in Messages, Pops(g, S, floor, w, top, w2),
           Rooted(w)
    PROVE  Rooted(w2) /\ Frozen(w, w2)
<1> DEFINE at == Fresh(g, top, S, floor, w.visited \cup {top})
<1>1. w2.visited = w.visited \cup {top}
      /\ w2.selected = IF Clears(w.queue[top].value) THEN w.selected \cup {top} ELSE w.selected
  BY DEF Pops
<1>2. CASE ~Clears(w.queue[top].value)
  <2>1. w2.queue = w.queue
    BY <1>2 DEF Pops
  <2> QED BY <1>1, <1>2, <2>1 DEF Rooted, Frozen
<1>3. CASE Clears(w.queue[top].value)
  <2>1. \A n \in Messages : Offered(w.queue[n], w.queue[top], at, Taking(at, n), w2.queue[n])
    BY <1>3 DEF Pops
  <2>2. \A n \in Messages : \A e \in Taking(at, n) : e \in BagToSet(g) /\ e.from = n /\ n \notin w.visited \cup {top}
    BY DEF Taking, Fresh, Prerequisites
  <2>3. w.queue[top].vias \subseteq Seq(BagToSet(g)) /\ w2.visited \subseteq Messages
    <3>1. w.queue[top] \in Entry(BagToSet(g)) /\ w2.visited \subseteq Messages
      BY DEF Walk
    <3> QED BY <3>1 DEF Entry
  <2> HIDE DEF at
  <2>4. \A n \in Messages : \A v \in w2.queue[n].vias :
            v \in w.queue[n].vias \/ \E e \in Taking(at, n), u \in w.queue[top].vias : v = Append(u, e)
    BY <2>1 DEF Offered
  <2>5. ASSUME NEW n \in w2.visited PROVE w2.queue[n].vias \subseteq w.queue[n].vias
    BY <1>1, <2>2, <2>3, <2>4
  <2>6. Frozen(w, w2)
    BY <1>1, <1>3, <2>5 DEF Frozen
  <2>7. ASSUME NEW n \in Messages, NEW v \in w2.queue[n].vias
        PROVE  /\ Len(v) \in DOMAIN v /\ v[Len(v)].from = n
               /\ \A k \in DOMAIN v : v[k].from = n \/ v[k].from \in w2.selected
    <3>1. CASE v \in w.queue[n].vias
      BY <1>1, <3>1 DEF Rooted
    <3>2. ASSUME NEW e \in Taking(at, n), NEW u \in w.queue[top].vias, v = Append(u, e)
          PROVE  /\ Len(v) \in DOMAIN v /\ v[Len(v)].from = n
                 /\ \A k \in DOMAIN v : v[k].from = n \/ v[k].from \in w2.selected
      <4>1. e \in BagToSet(g) /\ e.from = n /\ u \in Seq(BagToSet(g))
        BY <2>2, <2>3
      <4>2. /\ Len(v) \in DOMAIN v /\ v[Len(v)] = e
            /\ \A k \in DOMAIN v : (k \in DOMAIN u /\ v[k] = u[k]) \/ v[k] = e
        BY <3>2, <4>1, AppendPath
      <4>3. \A k \in DOMAIN u : u[k].from = top \/ u[k].from \in w.selected
        BY DEF Rooted
      <4> QED BY <1>1, <1>3, <4>1, <4>2, <4>3
    <3> QED BY <2>4, <3>1, <3>2
  <2>8. Rooted(w2)
    BY <2>7 DEF Rooted
  <2> QED BY <2>6, <2>8
<1> QED BY <1>2, <1>3

\* The seeds are edges into the anchor.
LEMMA StartRooted ==
    ASSUME NEW g, Typed(g), NEW anchor \in Messages, NEW S
    PROVE  Rooted(Start(g, anchor, S))
<1> DEFINE at == Verdict(g, anchor, S)
<1>1. PICK w : w = Start(g, anchor, S)
  OBVIOUS
<1>2. PICK one : one = [value |-> One, vias |-> {<< >>}]
  OBVIOUS
<1>3. \A n \in Messages : Offered(Nothing, one, at, Taking(at, n), w.queue[n])
  BY <1>1, <1>2, SeedsType DEF Start
<1>4. one.vias = {<< >>} /\ Nothing.vias = {}
  BY <1>2 DEF Nothing
<1>5. \A n : \A e \in Taking(at, n) : e \in BagToSet(g) /\ e.from = n
  BY DEF Taking, Verdict, Prerequisites
<1> HIDE DEF at
<1>6. ASSUME NEW n \in Messages, NEW v \in w.queue[n].vias
      PROVE  /\ Len(v) \in DOMAIN v /\ v[Len(v)].from = n
             /\ \A k \in DOMAIN v : v[k].from = n \/ v[k].from \in w.selected
  <2>1. PICK e \in Taking(at, n) : v = Append(<< >>, e)
    BY <1>3, <1>4 DEF Offered
  <2>2. e \in BagToSet(g) /\ e.from = n /\ << >> \in Seq(BagToSet(g))
    BY <1>5
  <2>e. DOMAIN << >> = {}
    OBVIOUS
  <2>3. PICK u \in Seq(BagToSet(g)) : u = << >> /\ DOMAIN u = {}
    BY <2>2, <2>e
  <2>4. /\ Len(v) \in DOMAIN v /\ v[Len(v)] = e
        /\ \A k \in DOMAIN v : (k \in DOMAIN u /\ v[k] = u[k]) \/ v[k] = e
    BY <2>1, <2>2, <2>3, AppendPath
  <2> QED BY <2>2, <2>3, <2>4
<1>7. Rooted(w)
  BY <1>6 DEF Rooted
<1> QED BY <1>1, <1>7

\* Every path of a message starts its edges in D.
Within(w, m, D) == \A v \in w.queue[m].vias : \A k \in DOMAIN v : v[k].from \in D

\* Selected messages lead to messages selected before them and nowhere else.
Layered(w) ==
    /\ Rooted(w) /\ w.selected \subseteq w.visited
    /\ \A m \in w.selected : \E D \in SUBSET w.selected :
          /\ m \notin D /\ Within(w, m, D \cup {m})
          /\ \A y \in D : Within(w, y, D)

\* A pop puts a message on top of those selected.
LEMMA PopLayered ==
    ASSUME NEW g, Typed(g), NEW S, NEW floor \in Levels,
           NEW w \in Walk(g, S), NEW w2 \in Walk(g, S), NEW top \in Messages, Pops(g, S, floor, w, top, w2),
           Layered(w)
    PROVE  Layered(w2)
<1>1. Rooted(w2) /\ Frozen(w, w2)
  BY PopRooted DEF Layered
<1>2. /\ w2.visited = w.visited \cup {top} /\ top \notin w.visited
      /\ w2.selected = w.selected \/ w2.selected = w.selected \cup {top}
      /\ w.selected \subseteq w.visited
  BY DEF Pops, Layered, Waiting
<1>3. \A n \in w2.visited : w2.queue[n].vias \subseteq w.queue[n].vias
  BY <1>1 DEF Frozen
<1>4. \A n \in w2.visited : \A D : Within(w, n, D) => Within(w2, n, D)
  BY <1>3 DEF Within
<1>5. ASSUME NEW m \in w.selected
      PROVE  \E D \in SUBSET w2.selected :
                m \notin D /\ Within(w2, m, D \cup {m}) /\ \A y \in D : Within(w2, y, D)
  <2>1. PICK D \in SUBSET w.selected :
            m \notin D /\ Within(w, m, D \cup {m}) /\ \A y \in D : Within(w, y, D)
    BY <1>5 DEF Layered
  <2>2. D \in SUBSET w2.selected /\ D \subseteq w2.visited /\ m \in w2.visited
    BY <1>2, <2>1
  <2> QED BY <1>4, <2>1, <2>2
<1>6. ASSUME top \in w2.selected
      PROVE  \E D \in SUBSET w2.selected :
                top \notin D /\ Within(w2, top, D \cup {top}) /\ \A y \in D : Within(w2, y, D)
  <2>1. Within(w, top, w.selected \cup {top})
    BY DEF Layered, Rooted, Within
  <2>2. ASSUME NEW y \in w.selected PROVE Within(w, y, w.selected)
    <3>1. PICK D \in SUBSET w.selected : Within(w, y, D \cup {y})
      BY DEF Layered
    <3>2. D \cup {y} \subseteq w.selected
      BY <2>2, <3>1
    <3> QED BY <3>1, <3>2 DEF Within
  <2>3. w.selected \in SUBSET w2.selected /\ w.selected \subseteq w2.visited /\ top \in w2.visited
        /\ top \notin w.selected
    BY <1>2
  <2> QED BY <1>4, <2>1, <2>2, <2>3
<1>7. \A m \in w2.selected : m \in w.selected \/ m = top
  BY <1>2
<1>8. w2.selected \subseteq w2.visited
  BY <1>2
<1> QED BY <1>1, <1>5, <1>6, <1>7, <1>8 DEF Layered

\* The selected of a walk are in layers.
LEMMA WalkLayered ==
    ASSUME NEW g, Typed(g), NEW anchor \in Messages, NEW S, NEW floor \in Levels,
           NEW w, Run(w, Walk(g, S), Start(g, anchor, S), [y \in Walk(g, S) |-> Pop(g, S, floor, y)], Hops)
    PROVE  Layered(w[Hops])
<1>1. /\ w[0] = Start(g, anchor, S) /\ \A i \in 0 .. Hops : w[i] \in Walk(g, S)
      /\ \A i \in 0 .. Hops - 1 : w[i + 1] = Pop(g, S, floor, w[i])
  <2>1. \A i \in 0 .. Hops - 1 : w[i] \in Walk(g, S)
    BY HopsType DEF Run
  <2> QED BY <2>1 DEF Run
<1>2. Hops \in Nat /\ Hops \in 0 .. Hops /\ 0 \in 0 .. Hops /\ \A i \in 0 .. Hops - 1 : i \in 0 .. Hops /\ i + 1 \in 0 .. Hops
  BY HopsType
<1> DEFINE W == {i \in 0 .. Hops : Layered(w[i])}
<1>3. 0 \in W
  <2>1. Rooted(w[0]) /\ w[0].selected = {}
    BY <1>1, StartRooted DEF Start
  <2> QED BY <1>2, <2>1 DEF Layered
<1>4. ASSUME NEW i \in 0 .. Hops - 1, i \in W PROVE i + 1 \in W
  <2>1. w[i] \in Walk(g, S) /\ w[i + 1] \in Walk(g, S) /\ w[i + 1] = Pop(g, S, floor, w[i]) /\ Layered(w[i])
    BY <1>1, <1>2, <1>4
  <2>2. CASE Waiting(w[i]) = {}
    <3>1. w[i + 1] = w[i]
      BY <2>1, <2>2, PopStep
    <3> QED BY <1>2, <2>1, <3>1
  <2>3. CASE Waiting(w[i]) # {}
    <3>1. PICK top \in S \cap Messages : Pops(g, S, floor, w[i], top, w[i + 1])
      BY <2>1, <2>3, PopStep
    <3>2. Layered(w[i + 1])
      BY <2>1, <3>1, PopLayered
    <3> QED BY <1>2, <3>2
  <2> QED BY <2>2, <2>3
<1> HIDE DEF W
<1>5. 0 .. Hops \subseteq W
  BY <1>2, <1>3, <1>4, UpTo
<1> QED BY <1>2, <1>5 DEF W

\* Whatever path each selected message has, the reduction keeps its own edge.
LEMMA LayeredReduction ==
    ASSUME NEW w, Layered(w), NEW via, DOMAIN via = w.selected, w.selected \subseteq Messages,
           \A m \in w.selected : via[m] \in w.queue[m].vias, NEW m \in w.selected
    PROVE  Len(via[m]) \in transitiveReduction(via)[m]
<1>1. PICK n : n = Len(via[m])
  OBVIOUS
<1>2. n \in DOMAIN via[m] /\ via[m][n].from = m
  BY <1>1 DEF Layered, Rooted
<1>3. PICK D \in SUBSET w.selected :
        m \notin D /\ Within(w, m, D \cup {m}) /\ \A y \in D : Within(w, y, D)
  BY DEF Layered
<1>4. Closed(D, via)
  <2>1. ASSUME NEW y \in D, NEW k \in DOMAIN via[y] PROVE via[y][k].from \in D
    <3>1. via[y] \in w.queue[y].vias /\ Within(w, y, D)
      BY <1>3
    <3> QED BY <3>1 DEF Within
  <2> QED BY <2>1 DEF Closed, Direct
<1>5. ASSUME NEW k \in DOMAIN via[m], via[m][k].from # m PROVE via[m][k].from \in D
  BY <1>3, <1>5 DEF Within
<1>6. n \in transitiveReduction(via)[m]
  BY <1>2, <1>3, <1>4, <1>5, ReductionKeeps
<1> QED BY <1>1, <1>6

\* What an event selects is what its paths clear, over edges that survive.
LEMMA ExtractExact ==
    ASSUME NEW g, Typed(g), NEW anchor \in Messages, NEW S, NEW floor \in Levels
    PROVE  SelectionIsExact(g, anchor, S, floor)
<1>1. PICK w : /\ Run(w, Walk(g, S), Start(g, anchor, S), [y \in Walk(g, S) |-> Pop(g, S, floor, y)], Hops)
               /\ Extract(g, anchor, S, floor) = [m \in w[Hops].selected |-> w[Hops].queue[m]]
  BY ExtractRun
<1>2. PICK b : /\ Run(b, Values(anchor), Nowhere(anchor),
                      [y \in Values(anchor) |-> Relaxed(y, g, anchor, S, floor)], Hops)
               /\ BestFrom(g, anchor, S, floor) = b[Hops]
  BY BestFromRun
<1> DEFINE X    == w[Hops].selected
           q    == w[Hops].queue
           best == BestFrom(g, anchor, S, floor)
           got  == Extract(g, anchor, S, floor)
<1>3. X = {m \in Messages \ {anchor} : Clears(b[Hops][m])} /\ \A m \in X : q[m].value = b[Hops][m]
  BY <1>1, <1>2, WalkExact
<1>4. Layered(w[Hops])
  BY <1>1, WalkLayered
<1>5. got = [m \in X |-> q[m]] /\ best = b[Hops]
  BY <1>1, <1>2
<1> HIDE DEF best, got
<1>6. DOMAIN got = X /\ \A m \in X : got[m] = q[m]
  BY <1>5
<1>7. DOMAIN got = {m \in Messages \ {anchor} : Clears(best[m])} /\ \A m \in DOMAIN got : got[m].value = best[m]
  BY <1>3, <1>5, <1>6
<1>8. ASSUME NEW via \in Pick(DOMAIN got, LAMBDA m : got[m].vias), NEW m \in DOMAIN got
      PROVE  Len(via[m]) \in transitiveReduction(via)[m]
  <2>1. DOMAIN via = DOMAIN got /\ \A n \in DOMAIN got : via[n] \in got[n].vias
    BY DEF Pick
  <2>2. DOMAIN via = X /\ X \subseteq Messages /\ \A n \in X : via[n] \in q[n].vias
    BY <1>3, <1>6, <2>1
  <2> QED BY <1>4, <1>6, <2>2, LayeredReduction
<1> QED BY <1>7, <1>8 DEF SelectionIsExact, best, got
-----------------------------------------------------------------------------
(* ApplyMMR.                                                               *)

\* What a message repeats of those kept.
Said(m, kept, V) == {0} \cup {Similar[m][k] : k \in IF m \in V THEN kept \cap V ELSE {}}

\* It is at most everything, and no less of more messages.
LEMMA SaidType ==
    ASSUME NEW m \in Messages, NEW kept \in SUBSET Messages, NEW V
    PROVE  /\ Max(Said(m, kept, V)) \in 0 .. Unit /\ Max(Said(m, kept, V)) \in Said(m, kept, V)
           /\ \A x \in Said(m, kept, V) : x <= Max(Said(m, kept, V))
<1> DEFINE D == IF m \in V THEN kept \cap V ELSE {}
           f == [k \in D |-> Similar[m][k]]
<1>1. D \subseteq Messages /\ IsFiniteSet(D)
  <2>1. D \subseteq Messages
    OBVIOUS
  <2> HIDE DEF D
  <2> QED BY <2>1, GraphAssumption, FS_Subset
<1>2. \A k \in Messages : Similar[m][k] \in 0 .. Unit
  BY EngineAssumption
<1>3. Said(m, kept, V) = {0} \cup {f[k] : k \in D}
  BY DEF Said
<1>4. DOMAIN f = D /\ \A k \in D : f[k] \in 0 .. Unit
  BY <1>1, <1>2
<1> HIDE DEF D, f
<1>5. IsFiniteSet({f[k] : k \in D})
  BY <1>1, <1>4, ImageFinite
<1>6. IsFiniteSet({0})
  BY FS_Singleton
<1>7. IsFiniteSet(Said(m, kept, V))
  <2> DEFINE Y == {f[k] : k \in D}
  <2>1. Said(m, kept, V) = {0} \cup Y /\ IsFiniteSet(Y)
    BY <1>3, <1>5
  <2> HIDE DEF Y
  <2> QED BY <1>6, <2>1, FS_Union
<1>8. Said(m, kept, V) \subseteq 0 .. Unit /\ Said(m, kept, V) # {} /\ Unit \in Nat
  BY <1>3, <1>4, GraphAssumption
<1>9. PICK X : X = Said(m, kept, V)
  OBVIOUS
<1>10. X \subseteq Nat /\ X \subseteq 0 .. Unit /\ X # {} /\ IsFiniteSet(X)
  BY <1>7, <1>8, <1>9
<1>11. Max(X) \in X /\ \A y \in X : y <= Max(X)
  BY <1>10, MaxType
<1> QED BY <1>9, <1>10, <1>11

\* A product with a smaller part of Unit is no greater.
LEMMA PartGrows ==
    ASSUME NEW s \in Nat, NEW a \in 0 .. Unit, NEW b \in 0 .. Unit, a <= b
    PROVE  s * (Unit - b) \in Nat /\ s * (Unit - b) <= s * (Unit - a) /\ s * (Unit - a) <= s * Unit
<1>1. Unit \in Nat
  BY GraphAssumption
<1>2. PICK x \in Nat : x = Unit - b
  BY <1>1
<1>3. PICK d \in Nat : Unit - a = x + d
  <2>1. b - a \in Nat /\ Unit - a = x + (b - a)
    BY <1>1, <1>2
  <2> QED BY <2>1
<1>4. PICK c \in Nat : Unit = (x + d) + c
  <2>1. a \in Nat /\ Unit = (x + d) + a
    BY <1>1, <1>3
  <2> QED BY <2>1
<1>5. s * x \in Nat /\ s * d \in Nat /\ s * c \in Nat /\ s * (x + d) = s * x + s * d
      /\ s * ((x + d) + c) = s * x + s * d + s * c
  OBVIOUS
<1> QED BY <1>2, <1>3, <1>4, <1>5

\* What a message adds is less the more is kept, and nothing of what it repeats.
LEMMA NovelType ==
    ASSUME NEW X \in SUBSET Messages, NEW score \in [X -> Nat], NEW m \in X, NEW V,
           NEW less \in SUBSET Messages, NEW kept \in SUBSET Messages, less \subseteq kept
    PROVE  /\ Novel(score, m, kept, V) \in Nat
           /\ Novel(score, m, kept, V) <= Novel(score, m, less, V)
           /\ Novel(score, m, kept, V) <= score[m] * Unit
           /\ m \in V /\ (\E q \in kept \cap V : Similar[m][q] = Unit) => Novel(score, m, kept, V) = 0
<1>1. PICK a \in 0 .. Unit : a = Max(Said(m, less, V)) /\ \A x \in Said(m, less, V) : x <= a
  BY SaidType
<1>2. PICK b \in 0 .. Unit : b = Max(Said(m, kept, V)) /\ \A x \in Said(m, kept, V) : x <= b
  BY SaidType
<1>3. a \in Said(m, less, V) /\ Said(m, less, V) \subseteq Said(m, kept, V)
  <2>1. Said(m, less, V) \subseteq Said(m, kept, V)
    BY DEF Said
  <2>2. a \in Said(m, less, V)
    BY <1>1, SaidType
  <2> QED BY <2>1, <2>2
<1>4. a <= b
  BY <1>2, <1>3
<1>5. PICK s \in Nat : s = score[m]
  OBVIOUS
<1>6. Novel(score, m, less, V) = s * (Unit - a) /\ Novel(score, m, kept, V) = s * (Unit - b)
  BY <1>1, <1>2, <1>5, Zenon DEF Novel, Said
<1>7. s * (Unit - b) \in Nat /\ s * (Unit - b) <= s * (Unit - a) /\ s * (Unit - a) <= s * Unit
  BY <1>4, PartGrows
<1>8. s * (Unit - b) <= s * Unit
  <2>1. s * (Unit - b) <= s * (Unit - b) /\ s * (Unit - b) <= s * Unit
    BY PartGrows, GraphAssumption
  <2> QED BY <2>1
<1>9. ASSUME m \in V, NEW q \in kept \cap V, Similar[m][q] = Unit PROVE s * (Unit - b) = 0
  <2>1. Unit \in Said(m, kept, V)
    BY <1>9 DEF Said
  <2>2. Unit <= b /\ Unit \in Nat
    BY <1>2, <2>1, GraphAssumption
  <2>3. Unit - b = 0
    BY <2>2
  <2> QED BY <2>3
<1> QED BY <1>5, <1>6, <1>7, <1>8, <1>9

\* What a reranking has placed, what is left, and what comes next, K being known
\* from the start.
Placed(out)             == {out[i].id : i \in DOMAIN out}
Worth(score, K, V, out, m) == Novel(score, m, K \cup Placed(out), V)
NextOf(score, K, V, out) ==
    CHOOSE m \in DOMAIN score \ Placed(out) : \A n \in DOMAIN score \ Placed(out) :
        \/ Worth(score, K, V, out, m) > Worth(score, K, V, out, n)
        \/ Worth(score, K, V, out, m) = Worth(score, K, V, out, n) /\ score[m] >= score[n]
Placing(score, K, V, out) ==
    Append(out, [id |-> NextOf(score, K, V, out), value |-> Worth(score, K, V, out, NextOf(score, K, V, out))])

\* What is known or placed before position i.
Before(out, K, i) == K \cup {out[k].id : k \in 1 .. i - 1}

\* A reranking so far: no message twice, each worth what it adds, the most there was.
Ranked(out, score, K, V) ==
    /\ out \in Seq([id : DOMAIN score, value : Nat])
    /\ IsFiniteSet(Placed(out)) /\ Cardinality(Placed(out)) = Len(out)
    /\ \A i \in 1 .. Len(out) :
          /\ \A k \in 1 .. i - 1 : out[k].id # out[i].id
          /\ out[i].value = Novel(score, out[i].id, Before(out, K, i), V)
          /\ \A m \in DOMAIN score : (\A k \in 1 .. i - 1 : out[k].id # m) =>
                out[i].value >= Novel(score, m, Before(out, K, i), V)

\* The next is a message left that adds the most.
LEMMA NextType ==
    ASSUME NEW X \in SUBSET Messages, NEW score \in [X -> Nat], NEW K \in SUBSET Messages, NEW V,
           NEW out, Placed(out) \subseteq X, X \ Placed(out) # {}
    PROVE  /\ NextOf(score, K, V, out) \in X \ Placed(out)
           /\ \A n \in X \ Placed(out) : Worth(score, K, V, out, NextOf(score, K, V, out)) >= Worth(score, K, V, out, n)
           /\ Worth(score, K, V, out, NextOf(score, K, V, out)) \in Nat
<1> DEFINE L == DOMAIN score \ Placed(out)
           W(m) == Worth(score, K, V, out, m)
           val == [m \in L |-> W(m)]
<1>1. \A m \in L : W(m) \in Nat
  <2>1. K \cup Placed(out) \in SUBSET Messages
    OBVIOUS
  <2>2. \A m \in X : Novel(score, m, K \cup Placed(out), V) \in Nat
    BY <2>1, NovelType
  <2> QED BY <2>2 DEF Worth
<1>2. IsFiniteSet(L) /\ L # {} /\ L \subseteq X
  BY GraphAssumption, FS_Subset
<1>3. L = X \ Placed(out)
  OBVIOUS
<1> HIDE DEF L, W
<1>4. PICK m \in L : \A n \in L : W(m) >= W(n)
  <2>1. val \in [L -> Int]
    BY <1>1
  <2>2. \E m \in L : \A n \in L : val[m] >= val[n]
    <3> HIDE DEF val
    <3> QED BY <1>2, <2>1, Greatest
  <2> QED BY <2>2
<1> DEFINE Y == {x \in L : W(x) = W(m)}
           tie == [x \in Y |-> score[x]]
<1>5. PICK y \in Y : \A n \in Y : score[y] >= score[n]
  <2>1. tie \in [Y -> Int]
    BY <1>2
  <2>2. IsFiniteSet(Y) /\ Y # {}
    <3>1. Y \subseteq L /\ m \in Y
      OBVIOUS
    <3> HIDE DEF Y
    <3> QED BY <1>2, <3>1, FS_Subset
  <2>3. \E x \in Y : \A n \in Y : tie[x] >= tie[n]
    <3> HIDE DEF Y, tie
    <3> QED BY <2>1, <2>2, Greatest
  <2> QED BY <2>3
<1>6. \A n \in L : W(y) > W(n) \/ (W(y) = W(n) /\ score[y] >= score[n])
  <2>1. ASSUME NEW n \in L PROVE W(y) > W(n) \/ (W(y) = W(n) /\ score[y] >= score[n])
    <3>1. y \in L /\ W(y) = W(m) /\ W(m) >= W(n) /\ W(m) \in Nat /\ W(n) \in Nat
      BY <1>1, <1>4
    <3>2. CASE n \in Y
      BY <1>5, <3>1, <3>2
    <3>3. CASE n \notin Y
      <4>1. W(n) # W(m)
        BY <3>3
      <4> QED BY <3>1, <4>1
    <3> QED BY <3>2, <3>3
  <2> QED BY <2>1
<1>7. \E x \in L : \A n \in L : W(x) > W(n) \/ (W(x) = W(n) /\ score[x] >= score[n])
  BY <1>6
<1>8. PICK top : top = NextOf(score, K, V, out)
  OBVIOUS
<1>9. top = CHOOSE x \in L : \A n \in L : W(x) > W(n) \/ (W(x) = W(n) /\ score[x] >= score[n])
  BY <1>8, Zenon DEF NextOf, W, L
<1>10. top \in L /\ \A n \in L : W(top) > W(n) \/ (W(top) = W(n) /\ score[top] >= score[n])
  BY <1>7, <1>9
<1>11. \A n \in L : W(top) >= W(n)
  BY <1>1, <1>10
<1> QED BY <1>1, <1>3, <1>8, <1>10, <1>11 DEF W

\* One more message keeps the reranking sound.
LEMMA PlacingStep ==
    ASSUME NEW X \in SUBSET Messages, NEW score \in [X -> Nat], NEW K \in SUBSET Messages, NEW V,
           NEW out, Ranked(out, score, K, V), Len(out) < Cardinality(X)
    PROVE  Ranked(Placing(score, K, V, out), score, K, V) /\ Len(Placing(score, K, V, out)) = Len(out) + 1
<1>1. PICK rec : rec = [id |-> NextOf(score, K, V, out), value |-> Worth(score, K, V, out, NextOf(score, K, V, out))]
  OBVIOUS
<1>2. PICK n : n = Len(out)
  OBVIOUS
<1>3. PICK o : o = Placing(score, K, V, out)
  OBVIOUS
<1>4. PICK Rec : Rec = [id : X, value : Nat]
  OBVIOUS
<1>5. /\ out \in Seq(Rec) /\ n \in Nat /\ DOMAIN out = 1 .. n
      /\ \A i \in 1 .. n : out[i] \in Rec
      /\ DOMAIN score = X
  <2>1. out \in Seq(Rec) /\ DOMAIN score = X
    BY <1>4 DEF Ranked
  <2>2. Len(out) \in Nat /\ DOMAIN out = 1 .. Len(out) /\ \A i \in 1 .. Len(out) : out[i] \in Rec
    BY <2>1
  <2> QED BY <1>2, <2>1, <2>2
<1>6. Placed(out) \subseteq X /\ IsFiniteSet(Placed(out)) /\ Cardinality(Placed(out)) = n
  BY <1>2, <1>4, <1>5 DEF Ranked, Placed
<1>7. X \ Placed(out) # {}
  BY <1>2, <1>6
<1>8. /\ rec.id \in X \ Placed(out) /\ rec.value = Worth(score, K, V, out, rec.id) /\ rec \in Rec
      /\ \A m \in X \ Placed(out) : rec.value >= Worth(score, K, V, out, m)
  BY <1>1, <1>4, <1>6, <1>7, NextType
<1>9. /\ o = Append(out, rec) /\ o \in Seq(Rec) /\ Len(o) = n + 1 /\ DOMAIN o = 1 .. n + 1
      /\ o[n + 1] = rec /\ \A i \in 1 .. n : o[i] = out[i]
  BY <1>1, <1>2, <1>3, <1>5, <1>8 DEF Placing
<1>10. Placed(o) = Placed(out) \cup {rec.id}
  <2>1. 1 .. n + 1 = 1 .. n \cup {n + 1}
    BY <1>5
  <2> QED BY <1>5, <1>9, <2>1 DEF Placed
<1>11. IsFiniteSet(Placed(o)) /\ Cardinality(Placed(o)) = n + 1
  BY <1>6, <1>8, <1>10, FS_AddElement
<1>12. \A i \in 1 .. n + 1 : \A k \in 1 .. i - 1 : k \in 1 .. n /\ o[k] = out[k]
  BY <1>5, <1>9
<1>13. \A i \in 1 .. n + 1 : Before(o, K, i) = Before(out, K, i)
  BY <1>12 DEF Before
<1>14. Before(out, K, n + 1) = K \cup Placed(out)
  <2>1. (n + 1) - 1 = n
    BY <1>5
  <2> QED BY <1>5, <2>1 DEF Before, Placed
<1>15. \A k \in 1 .. n : out[k].id \in Placed(out)
  BY <1>5 DEF Placed
<1>16. ASSUME NEW i \in 1 .. n + 1
       PROVE  /\ \A k \in 1 .. i - 1 : o[k].id # o[i].id
              /\ o[i].value = Novel(score, o[i].id, Before(o, K, i), V)
              /\ \A m \in X : (\A k \in 1 .. i - 1 : o[k].id # m) => o[i].value >= Novel(score, m, Before(o, K, i), V)
  <2>1. CASE i \in 1 .. n
    <3>1. /\ \A k \in 1 .. i - 1 : out[k].id # out[i].id
          /\ out[i].value = Novel(score, out[i].id, Before(out, K, i), V)
          /\ \A m \in X : (\A k \in 1 .. i - 1 : out[k].id # m) => out[i].value >= Novel(score, m, Before(out, K, i), V)
      BY <1>2, <1>5, <2>1 DEF Ranked
    <3> QED BY <1>9, <1>12, <1>13, <2>1, <3>1
  <2>2. CASE i = n + 1
    <3>1. Before(o, K, i) = K \cup Placed(out) /\ o[i] = rec /\ i - 1 = n
      BY <1>5, <1>9, <1>13, <1>14, <2>2
    <3>2. \A k \in 1 .. i - 1 : o[k] = out[k] /\ k \in 1 .. n
      BY <1>12
    <3>3. \A k \in 1 .. i - 1 : o[k].id # rec.id
      BY <1>8, <1>15, <3>2
    <3>4. ASSUME NEW m \in X, \A k \in 1 .. i - 1 : o[k].id # m PROVE m \in X \ Placed(out)
      BY <1>5, <1>9, <3>1, <3>4 DEF Placed
    <3> QED BY <1>8, <3>1, <3>3, <3>4 DEF Worth
  <2> QED BY <1>5, <2>1, <2>2
<1>17. Ranked(o, score, K, V)
  <2>1. o \in Seq([id : DOMAIN score, value : Nat])
    BY <1>4, <1>5, <1>9
  <2> QED BY <1>5, <1>9, <1>11, <1>16, <2>1 DEF Ranked
<1> QED BY <1>2, <1>3, <1>9, <1>17

\* ApplyMMR places every message of a selection in turn.
LEMMA RankedAll ==
    ASSUME NEW X \in SUBSET Messages, NEW score \in [X -> Nat], NEW query \in SUBSET Messages, NEW V
    PROVE  /\ Ranked(ApplyMMR(score, query, V), score, IF Cardinality(X) <= 1 THEN {} ELSE query, V)
           /\ Len(ApplyMMR(score, query, V)) = Cardinality(X)
<1> DEFINE K       == IF Cardinality(DOMAIN score) <= 1 THEN {} ELSE query
           N       == Cardinality(DOMAIN score)
           Op(out) == Placing(score, K, V, out)
           T       == Seq([id : X, value : Nat])
           next    == [o \in T |-> IF Ranked(o, score, K, V) /\ Len(o) < N THEN Op(o) ELSE o]
           P(u)    == u = [i \in 0 .. N |-> IF i = 0 THEN << >> ELSE Op(u[i - 1])]
           Good(o, i) == Ranked(o, score, K, V) /\ Len(o) = i
<1>1. ApplyMMR(score, query, V) = (CHOOSE u : P(u))[N]
  BY Zenon DEF ApplyMMR, Iterate, Placing, NextOf, Worth, Placed
<1>2. DOMAIN score = X /\ N \in Nat /\ K \in SUBSET Messages
  BY GraphAssumption, FS_Subset, FS_CardinalityType
<1>3. \A o : \A i \in 0 .. N - 1 : Good(o, i) => Good(Op(o), i + 1)
  <2> HIDE DEF K
  <2>1. \A o : Ranked(o, score, K, V) /\ Len(o) < Cardinality(X) =>
            Ranked(Placing(score, K, V, o), score, K, V) /\ Len(Placing(score, K, V, o)) = Len(o) + 1
    BY <1>2, PlacingStep
  <2> QED BY <1>2, <2>1
<1>4. Good(<< >>, 0)
  <2>1. << >> \in Seq([id : DOMAIN score, value : Nat]) /\ Len(<< >>) = 0
    OBVIOUS
  <2>2. Placed(<< >>) = {}
    <3>1. DOMAIN << >> = {}
      OBVIOUS
    <3> QED BY <3>1 DEF Placed
  <2>3. IsFiniteSet(Placed(<< >>)) /\ Cardinality(Placed(<< >>)) = 0
    BY <2>2, FS_EmptySet
  <2> HIDE DEF K
  <2> QED BY <2>1, <2>3 DEF Ranked
<1>t. \A o : Ranked(o, score, K, V) => o \in T
  <2> HIDE DEF K
  <2> QED BY <1>2 DEF Ranked
<1> HIDE DEF Op, K, N, T
<1>5. /\ next \in [T -> T] /\ << >> \in T
      /\ \A o \in T : \A i \in 0 .. N - 1 : Good(o, i) => next[o] = Op(o) /\ Good(next[o], i + 1)
  <2>1. \A o \in T : Ranked(o, score, K, V) /\ Len(o) < N => Op(o) \in T
    <3>1. ASSUME NEW o \in T, Ranked(o, score, K, V), Len(o) < N PROVE Op(o) \in T
      <4>1. Len(o) \in 0 .. N - 1
        BY <1>2, <3>1 DEF T
      <4>2. Good(Op(o), Len(o) + 1)
        BY <1>3, <3>1, <4>1
      <4> QED BY <1>t, <4>2
    <3> QED BY <3>1
  <2> QED BY <1>2, <1>3, <1>4, <1>t, <2>1
<1> HIDE DEF next, Good
<1>v. PICK v \in T : v = << >>
  BY <1>5
<1>s. PICK f : Stepping(f, T, v, next, N)
  BY <1>2, <1>5, RunExists
<1>6. f \in [0 .. N -> T] /\ \A i \in 0 .. N : f[i] = IF i = 0 THEN << >> ELSE next[f[i - 1]]
  BY <1>s, <1>v DEF Stepping
<1>7. \A i \in 0 .. N - 1 : i \in 0 .. N /\ i + 1 \in 0 .. N /\ (i + 1) - 1 = i /\ i + 1 # 0
  BY <1>2
<1>8. \A i \in 0 .. N : Good(f[i], i)
  <2> DEFINE W == {i \in 0 .. N : Good(f[i], i)}
  <2>1. 0 \in W
    BY <1>2, <1>4, <1>6
  <2>2. ASSUME NEW i \in 0 .. N - 1, i \in W PROVE i + 1 \in W
    <3>1. f[i + 1] = next[f[i]] /\ f[i] \in T
      BY <1>6, <1>7
    <3> QED BY <1>5, <1>7, <2>2, <3>1
  <2> HIDE DEF W
  <2>3. 0 .. N \subseteq W
    BY <1>2, <2>1, <2>2, UpTo
  <2> QED BY <2>3 DEF W
<1>9. P(f)
  <2>1. ASSUME NEW i \in 0 .. N PROVE f[i] = IF i = 0 THEN << >> ELSE Op(f[i - 1])
    <3>1. CASE i = 0
      BY <1>6, <3>1
    <3>2. CASE i # 0
      <4>1. i - 1 \in 0 .. N - 1 /\ i - 1 \in 0 .. N
        BY <1>2, <3>2
      <4>2. Good(f[i - 1], i - 1) /\ f[i - 1] \in T
        BY <1>6, <1>8, <4>1
      <4>3. next[f[i - 1]] = Op(f[i - 1])
        BY <1>5, <4>1, <4>2
      <4> QED BY <1>6, <3>2, <4>3
    <3> QED BY <3>1, <3>2
  <2> QED BY <1>6, <2>1
<1>10. PICK h : h = CHOOSE u : P(u)
  OBVIOUS
<1> HIDE DEF P
<1>11. P(h)
  BY <1>9, <1>10
<1> USE DEF P
<1>12. h[0] = << >> /\ \A i \in 0 .. N - 1 : h[i + 1] = Op(h[i])
  BY <1>2, <1>7, <1>11
<1>13. \A i \in 0 .. N : Good(h[i], i)
  <2> DEFINE W == {i \in 0 .. N : Good(h[i], i)}
  <2>1. 0 \in W
    BY <1>2, <1>4, <1>12
  <2>2. ASSUME NEW i \in 0 .. N - 1, i \in W PROVE i + 1 \in W
    <3>1. h[i + 1] = Op(h[i])
      BY <1>12
    <3>2. Good(h[i], i)
      BY <2>2
    <3>3. Good(Op(h[i]), i + 1)
      BY <1>3, <3>2 DEF Good
    <3> QED BY <1>7, <3>1, <3>3
  <2> HIDE DEF W
  <2>3. 0 .. N \subseteq W
    BY <1>2, <2>1, <2>2, UpTo
  <2> QED BY <2>3 DEF W
<1>14. Good(h[N], N)
  BY <1>2, <1>13
<1>15. ApplyMMR(score, query, V) = h[N]
  BY <1>1, <1>10
<1> QED BY <1>2, <1>14, <1>15 DEF Good, K, N

\* RerankSound, of a result and what is known from the start.
SoundResult(out, score, K, V) ==
    LET ids       == [i \in DOMAIN out |-> out[i].id]
        before(i) == K \cup {ids[k] : k \in 1 .. i - 1}
    IN /\ Range(ids) = DOMAIN score /\ Len(ids) = Cardinality(DOMAIN score)
       /\ \A i, j \in DOMAIN out : i <= j =>
             /\ out[i].value >= Novel(score, ids[j], before(i), V)
             /\ out[i].value >= out[j].value
       /\ \A i \in DOMAIN out :
             /\ out[i].value <= score[ids[i]] * Unit
             /\ ids[i] \in V /\ (\E q \in K \cap V : Similar[ids[i]][q] = Unit) => out[i].value = 0

\* The reranking of any scores is sound.
LEMMA RerankHolds ==
    ASSUME NEW X \in SUBSET Messages, NEW score \in [X -> Nat], NEW query \in SUBSET Messages, NEW V
    PROVE  RerankSound(score, query, V)
<1> DEFINE K == IF Cardinality(X) <= 1 THEN {} ELSE query
<1>1. PICK out : out = ApplyMMR(score, query, V)
  OBVIOUS
<1>2. PICK n : n = Len(out)
  OBVIOUS
<1>3. Ranked(out, score, K, V) /\ n = Cardinality(X) /\ K \in SUBSET Messages /\ DOMAIN score = X
  BY <1>1, <1>2, RankedAll
<1>k. K = IF n <= 1 THEN {} ELSE query
  BY <1>3
<1> HIDE DEF K
<1>4. n \in Nat /\ DOMAIN out = 1 .. n /\ \A i \in 1 .. n : out[i] \in [id : X, value : Nat]
  <2>1. PICK Rec : Rec = [id : X, value : Nat]
    OBVIOUS
  <2>2. out \in Seq(Rec)
    BY <1>3, <2>1 DEF Ranked
  <2>3. Len(out) \in Nat /\ DOMAIN out = 1 .. Len(out) /\ \A i \in 1 .. Len(out) : out[i] \in Rec
    BY <2>2
  <2> QED BY <1>2, <2>1, <2>3
<1> DEFINE ids == [i \in DOMAIN out |-> out[i].id]
           B(i) == K \cup {ids[k] : k \in 1 .. i - 1}
<1>5. DOMAIN ids = 1 .. n /\ \A i \in 1 .. n : ids[i] = out[i].id /\ ids[i] \in X
  BY <1>4
<1>6. ids \in Seq(X) /\ Len(ids) = n
  <2>1. ids = [i \in 1 .. n |-> out[i].id] /\ \A i \in 1 .. n : out[i].id \in X
    BY <1>4
  <2> HIDE DEF ids
  <2> QED BY <1>4, <2>1
<1>7. {ids[i] : i \in 1 .. n} = X
  <2>1. Placed(out) = {ids[i] : i \in 1 .. n}
    BY <1>4, <1>5 DEF Placed
  <2>2. Placed(out) \subseteq X
    BY <1>5, <2>1
  <2>3. IsFiniteSet(X)
    BY GraphAssumption, FS_Subset
  <2>4. Cardinality(Placed(out)) = Cardinality(X)
    BY <1>2, <1>3 DEF Ranked
  <2> QED BY <2>1, <2>2, <2>3, <2>4, FS_Subset
<1>8. \A i \in 1 .. n : \A k \in 1 .. i - 1 : k \in 1 .. n /\ ids[k] = out[k].id
  BY <1>4, <1>5
<1>9. \A i \in 1 .. n : B(i) = Before(out, K, i) /\ B(i) \subseteq Messages
  <2>1. \A i \in 1 .. n : {ids[k] : k \in 1 .. i - 1} = {out[k].id : k \in 1 .. i - 1}
    BY <1>8
  <2>2. \A i \in 1 .. n : {ids[k] : k \in 1 .. i - 1} \subseteq X
    BY <1>5, <1>8
  <2> QED BY <1>3, <2>1, <2>2 DEF Before
<1>10. \A i, j \in 1 .. n : i <= j => B(i) \subseteq B(j)
  <2>1. \A i, j \in 1 .. n : i <= j => \A k \in 1 .. i - 1 : k \in 1 .. j - 1
    BY <1>4
  <2> QED BY <2>1
<1> HIDE DEF ids, B
<1>11. \A i \in 1 .. n :
         /\ \A k \in 1 .. i - 1 : ids[k] # ids[i]
         /\ out[i].value = Novel(score, ids[i], B(i), V)
         /\ \A m \in X : (\A k \in 1 .. i - 1 : ids[k] # m) => out[i].value >= Novel(score, m, B(i), V)
  <2>1. \A i \in 1 .. n :
          /\ \A k \in 1 .. i - 1 : out[k].id # out[i].id
          /\ out[i].value = Novel(score, out[i].id, Before(out, K, i), V)
          /\ \A m \in X : (\A k \in 1 .. i - 1 : out[k].id # m) => out[i].value >= Novel(score, m, Before(out, K, i), V)
    BY <1>2, <1>3 DEF Ranked
  <2> QED BY <1>5, <1>8, <1>9, <2>1
<1>12. ASSUME NEW i \in 1 .. n, NEW j \in 1 .. n, i <= j
       PROVE  out[i].value >= Novel(score, ids[j], B(i), V) /\ out[i].value >= out[j].value
  <2>1. \A k \in 1 .. i - 1 : k \in 1 .. j - 1
    BY <1>4, <1>12
  <2>2. out[i].value >= Novel(score, ids[j], B(i), V)
    BY <1>5, <1>11, <2>1
  <2>3. PICK a \in Nat : a = out[i].value
    BY <1>4
  <2>4. B(i) \subseteq B(j) /\ B(i) \in SUBSET Messages /\ B(j) \in SUBSET Messages /\ ids[j] \in X
    BY <1>5, <1>9, <1>10, <1>12
  <2>5. Novel(score, ids[j], B(j), V) <= Novel(score, ids[j], B(i), V) /\ Novel(score, ids[j], B(j), V) \in Nat
    BY <2>4, NovelType
  <2>6. Novel(score, ids[j], B(i), V) \in Nat
    BY <2>4, NovelType
  <2>7. out[j].value = Novel(score, ids[j], B(j), V)
    BY <1>11
  <2> QED BY <2>2, <2>3, <2>5, <2>6, <2>7
<1>13. ASSUME NEW i \in 1 .. n
       PROVE  /\ out[i].value <= score[ids[i]] * Unit
              /\ ids[i] \in V /\ (\E q \in K \cap V : Similar[ids[i]][q] = Unit) => out[i].value = 0
  <2>1. B(i) \in SUBSET Messages /\ ids[i] \in X /\ K \subseteq B(i) /\ out[i].value = Novel(score, ids[i], B(i), V)
    BY <1>5, <1>9, <1>11 DEF B
  <2>2. /\ Novel(score, ids[i], B(i), V) <= score[ids[i]] * Unit
        /\ ids[i] \in V /\ (\E q \in B(i) \cap V : Similar[ids[i]][q] = Unit) => Novel(score, ids[i], B(i), V) = 0
    BY <2>1, NovelType
  <2> QED BY <2>1, <2>2
<1>14. Range(ids) = X
  BY <1>5, <1>7, Zenon DEF Range
<1>15. /\ Range(ids) = DOMAIN score /\ Len(ids) = Cardinality(DOMAIN score)
       /\ \A i, j \in DOMAIN out : i <= j => out[i].value >= Novel(score, ids[j], B(i), V) /\ out[i].value >= out[j].value
       /\ \A i \in DOMAIN out :
             /\ out[i].value <= score[ids[i]] * Unit
             /\ ids[i] \in V /\ (\E q \in K \cap V : Similar[ids[i]][q] = Unit) => out[i].value = 0
  BY <1>3, <1>4, <1>6, <1>12, <1>13, <1>14
<1>16. SoundResult(out, score, K, V)
  BY <1>15 DEF SoundResult, ids, B
<1>17. K = IF Len(out) <= 1 THEN {} ELSE query
  BY <1>2, <1>k
<1>18. RerankSound(score, query, V)
         = SoundResult(ApplyMMR(score, query, V), score,
                       IF Len(ApplyMMR(score, query, V)) <= 1 THEN {} ELSE query, V)
  BY Zenon DEF RerankSound, SoundResult
<1> QED BY <1>1, <1>16, <1>17, <1>18
-----------------------------------------------------------------------------
(* What a selected message is recorded at.                                 *)

\* The raw evidence of a path is a value.
LEMMA WeightType ==
    ASSUME NEW E, E \subseteq Edge, NEW via \in Seq(E)
    PROVE  Weight(via) \in 0 .. One
<1> DEFINE D    == DOMAIN via
           T    == 0 .. One
           P(f) == f = [s \in SUBSET D |-> IF s = {} THEN One
                          ELSE Times(f[s \ {CHOOSE x \in s : TRUE}], via[CHOOSE x \in s : TRUE].raw)]
           step == [p \in D \X T |-> Times(p[2], via[p[1]].raw)]
<1>1. Weight(via) = (CHOOSE f : P(f))[D]
  BY Zenon DEF Weight, FoldFunction, FoldFunctionOnSet, MapThenFoldSet
<1>2. Len(via) \in Nat /\ D = 1 .. Len(via) /\ \A i \in D : via[i] \in E
  OBVIOUS
<1>3. IsFiniteSet(D)
  BY <1>2, FS_Interval
<1>4. \A i \in D : via[i].raw \in 0 .. Unit
  BY <1>2 DEF Edge
<1>5. One \in T
  BY OneType
<1> HIDE DEF D
<1>6. \A x \in D, y \in T : step[<<x, y>>] \in T /\ step[<<x, y>>] = Times(y, via[x].raw)
  <2>1. \A x \in D, y \in T : Times(y, via[x].raw) \in T
    BY <1>4, TimesType
  <2> HIDE DEF T
  <2> QED BY <2>1
<1> HIDE DEF T, step
<1>7. Keeps(step, D, T)
  BY <1>6 DEF Keeps
<1>8. PICK f \in [SUBSET D -> T] : FoldsOver(f, D, One, step)
  BY <1>3, <1>5, <1>7, FoldExists
<1>9. \A s \in SUBSET D : s # {} => Taken(s) \in s /\ Taken(s) \in D /\ s \ {Taken(s)} \in SUBSET D
  BY DEF Taken
<1>10. P(f)
  <2>1. ASSUME NEW s \in SUBSET D
        PROVE  f[s] = IF s = {} THEN One ELSE Times(f[s \ {Taken(s)}], via[Taken(s)].raw)
    BY <1>6, <1>8, <1>9 DEF FoldsOver
  <2> QED BY <2>1 DEF Taken
<1>11. PICK g : g = CHOOSE h : P(h)
  OBVIOUS
<1> HIDE DEF P
<1>12. P(g)
  BY <1>10, <1>11
<1> USE DEF P
<1>13. \A s \in SUBSET D : g[s] = IF s = {} THEN One ELSE Times(g[s \ {Taken(s)}], via[Taken(s)].raw)
  BY <1>12 DEF Taken
<1> DEFINE W == {s \in SUBSET D : g[s] \in T}
<1>14. {} \in W
  BY <1>5, <1>13
<1>15. ASSUME NEW s \in SUBSET D, s # {}, s \ {Taken(s)} \in W PROVE s \in W
  <2>1. PICK x \in D : x = Taken(s) /\ x \in s
    BY <1>9, <1>15
  <2>2. PICK y \in T : y = g[s \ {x}]
    BY <1>15, <2>1
  <2>3. g[s] = Times(y, via[x].raw)
    BY <1>13, <1>15, <2>1, <2>2
  <2>4. g[s] \in T
    BY <1>6, <2>3
  <2> QED BY <2>4
<1> HIDE DEF W
<1>16. SUBSET D \subseteq W
  BY <1>3, <1>14, <1>15, SubsetSet
<1>17. g[D] \in T
  BY <1>16 DEF W
<1> QED BY <1>1, <1>11, <1>17 DEF T

\* Rounded up it is a score.
LEMMA RoundedType ==
    ASSUME NEW w \in 0 .. One
    PROVE  (w * Unit + One - 1) \div One \in 0 .. Unit
<1>1. One \in Nat \ {0} /\ Unit \in Nat /\ w \in Nat
  BY OneType, GraphAssumption
<1>2. PICK d \in Nat : One = w + d
  <2>1. One - w \in Nat /\ One = w + (One - w)
    BY <1>1
  <2> QED BY <2>1
<1>3. One * Unit = w * Unit + d * Unit /\ w * Unit \in Nat /\ d * Unit \in Nat /\ One * Unit \in Nat
  BY <1>1, <1>2
<1>4. PICK x \in Nat : x = w * Unit + One - 1 /\ x <= One * Unit + One - 1
  BY <1>1, <1>3
<1>5. PICK q \in Nat : q = x \div One /\ One * q <= x
  BY <1>1, Quotient
<1>6. ASSUME q > Unit PROVE FALSE
  <2>1. PICK e \in Nat : q = Unit + 1 + e
    <3>1. q - Unit - 1 \in Nat /\ q = Unit + 1 + (q - Unit - 1)
      BY <1>1, <1>6
    <3> QED BY <3>1
  <2>2. One * q = One * Unit + One + One * e /\ One * e \in Nat
    BY <1>1, <2>1
  <2>3. One * q > One * Unit + One - 1
    BY <1>1, <1>3, <2>2
  <2>4. One * q \in Nat
    BY <1>1, <1>3, <2>2
  <2> QED BY <1>1, <1>3, <1>4, <1>5, <2>3, <2>4
<1> QED BY <1>1, <1>4, <1>5, <1>6

\* A selection is of messages in scope, each at a score.
LEMMA SelectedType ==
    ASSUME NEW g, Typed(g), NEW anchor \in Messages, NEW S, NEW floor \in Levels,
           NEW picked \in Selected(g, anchor, S, floor)
    PROVE  DOMAIN picked \subseteq S \cap Messages /\ \A m \in DOMAIN picked : picked[m] \in 0 .. Unit
<1>1. PICK w : /\ Run(w, Walk(g, S), Start(g, anchor, S), [y \in Walk(g, S) |-> Pop(g, S, floor, y)], Hops)
               /\ Extract(g, anchor, S, floor) = [m \in w[Hops].selected |-> w[Hops].queue[m]]
  BY ExtractRun
<1>2. w[Hops] \in Walk(g, S)
  BY <1>1, HopsType DEF Run
<1> DEFINE got == Extract(g, anchor, S, floor)
<1>5. picked \in Pick(DOMAIN got, LAMBDA m : {(Weight(v) * Unit + One - 1) \div One : v \in got[m].vias})
  BY Zenon DEF Selected
<1>3. got = [m \in w[Hops].selected |-> w[Hops].queue[m]]
  BY <1>1
<1> HIDE DEF got
<1>4. DOMAIN got \subseteq S \cap Messages /\ \A m \in DOMAIN got : got[m].vias \subseteq Seq(BagToSet(g))
  <2>1. w[Hops].selected \subseteq S \cap Messages
    BY <1>2 DEF Walk
  <2>2. \A m \in Messages : w[Hops].queue[m].vias \subseteq Seq(BagToSet(g))
    <3>1. w[Hops].queue \in [Messages -> Entry(BagToSet(g))]
      BY <1>2 DEF Walk
    <3>2. \A x \in Entry(BagToSet(g)) : x.vias \subseteq Seq(BagToSet(g))
      BY DEF Entry
    <3> QED BY <3>1, <3>2
  <2> QED BY <1>3, <2>1, <2>2
<1>6. DOMAIN picked = DOMAIN got
      /\ \A m \in DOMAIN got : picked[m] \in {(Weight(v) * Unit + One - 1) \div One : v \in got[m].vias}
  BY <1>5, Zenon DEF Pick
<1>7. ASSUME NEW m \in DOMAIN got PROVE picked[m] \in 0 .. Unit
  <2>1. PICK v \in got[m].vias : picked[m] = (Weight(v) * Unit + One - 1) \div One
    BY <1>6
  <2>2. Weight(v) \in 0 .. One
    BY <1>4, <2>1, WeightType DEF Typed
  <2> QED BY <2>1, <2>2, RoundedType
<1> QED BY <1>4, <1>6, <1>7 DEF got

\* The values of a walk's result.
LEMMA ExtractType ==
    ASSUME NEW g, Typed(g), NEW anchor \in Messages, NEW S, NEW floor \in Levels
    PROVE  LET got == Extract(g, anchor, S, floor)
           IN DOMAIN got \in SUBSET Messages /\ [m \in DOMAIN got |-> got[m].value] \in [DOMAIN got -> Nat]
<1>1. PICK w : /\ Run(w, Walk(g, S), Start(g, anchor, S), [y \in Walk(g, S) |-> Pop(g, S, floor, y)], Hops)
               /\ Extract(g, anchor, S, floor) = [m \in w[Hops].selected |-> w[Hops].queue[m]]
  BY ExtractRun
<1>2. w[Hops] \in Walk(g, S)
  BY <1>1, HopsType DEF Run
<1>3. \A n \in Messages : w[Hops].queue[n].value \in Nat
  BY <1>2, WalkValues
<1>4. w[Hops].selected \subseteq Messages
  BY <1>2 DEF Walk
<1>5. PICK got : got = Extract(g, anchor, S, floor)
  OBVIOUS
<1>6. DOMAIN got \subseteq Messages /\ \A m \in DOMAIN got : got[m].value \in Nat
  BY <1>1, <1>3, <1>4, <1>5
<1> QED BY <1>5, <1>6
-----------------------------------------------------------------------------
(* Sums over finite sets.                                                  *)

\* The sum of the values of a function over a set.
Total(f, D) == MapThenSumSet(LAMBDA x : f[x], D)

\* h has the sums over the subsets of D.
Totals(h, D, f) ==
    h \in [SUBSET D -> Nat] /\ \A s \in SUBSET D : h[s] = IF s = {} THEN 0 ELSE f[Taken(s)] + h[s \ {Taken(s)}]

\* There are such sums.
LEMMA TotalsExist ==
    ASSUME NEW D, IsFiniteSet(D), NEW f, \A x \in D : f[x] \in Nat
    PROVE  \E h : Totals(h, D, f)
<1> DEFINE step == [p \in D \X Nat |-> f[p[1]] + p[2]]
<1>1. \A x \in D, y \in Nat : step[<<x, y>>] \in Nat /\ step[<<x, y>>] = f[x] + y
  OBVIOUS
<1> HIDE DEF step
<1>2. Keeps(step, D, Nat)
  BY <1>1 DEF Keeps
<1>3. PICK h \in [SUBSET D -> Nat] : FoldsOver(h, D, 0, step)
  BY <1>2, FoldExists
<1>4. ASSUME NEW s \in SUBSET D PROVE h[s] = IF s = {} THEN 0 ELSE f[Taken(s)] + h[s \ {Taken(s)}]
  <2>1. CASE s = {}
    BY <1>3, <2>1 DEF FoldsOver
  <2>2. CASE s # {}
    <3>1. Taken(s) \in s
      BY <2>2 DEF Taken
    <3>2. PICK x \in D : x = Taken(s)
      BY <3>1
    <3>3. h[s] = step[<<x, h[s \ {x}]>>] /\ h[s \ {x}] \in Nat
      BY <1>3, <2>2, <3>2 DEF FoldsOver
    <3>4. h[s] = f[x] + h[s \ {x}]
      BY <1>1, <3>3
    <3> QED BY <2>2, <3>2, <3>4
  <2> QED BY <2>1, <2>2
<1> QED BY <1>3, <1>4 DEF Totals

\* The sums over the same sets of functions that agree there are the same.
LEMMA TotalsSame ==
    ASSUME NEW D, IsFiniteSet(D), NEW E, IsFiniteSet(E), D \subseteq E, NEW f, NEW k, \A x \in D : f[x] = k[x],
           NEW h, Totals(h, D, f), NEW j, Totals(j, E, k)
    PROVE  \A s \in SUBSET D : h[s] = j[s]
<1> DEFINE W == {s \in SUBSET D : h[s] = j[s]}
<1>1. {} \in W
  BY DEF Totals
<1>2. ASSUME NEW s \in SUBSET D, s # {}, s \ {Taken(s)} \in W PROVE s \in W
  <2>1. Taken(s) \in s
    BY <1>2 DEF Taken
  <2>2. h[s] = f[Taken(s)] + h[s \ {Taken(s)}] /\ j[s] = k[Taken(s)] + j[s \ {Taken(s)}]
    BY <1>2 DEF Totals
  <2> QED BY <1>2, <2>1, <2>2
<1> HIDE DEF W
<1>3. SUBSET D \subseteq W
  BY <1>1, <1>2, SubsetSet
<1> QED BY <1>3 DEF W

\* A sum is one of them.
LEMMA TotalIs ==
    ASSUME NEW D, IsFiniteSet(D), NEW f, \A x \in D : f[x] \in Nat
    PROVE  \E h : Totals(h, D, f) /\ Total(f, D) = h[D]
<1> DEFINE P(u) == u = [s \in SUBSET D |-> IF s = {} THEN 0
                          ELSE f[CHOOSE x \in s : TRUE] + u[s \ {CHOOSE x \in s : TRUE}]]
<1>1. Total(f, D) = (CHOOSE u : P(u))[D]
  BY Zenon DEF Total, MapThenSumSet, MapThenFoldSet
<1>2. PICK t : Totals(t, D, f)
  BY TotalsExist
<1>3. P(t)
  BY <1>2 DEF Totals, Taken
<1>4. PICK h : h = CHOOSE u : P(u)
  OBVIOUS
<1> HIDE DEF P
<1>5. P(h)
  BY <1>3, <1>4
<1> USE DEF P
<1>6. \A s \in SUBSET D : h[s] = IF s = {} THEN 0 ELSE f[Taken(s)] + h[s \ {Taken(s)}]
  BY <1>5 DEF Taken
<1> DEFINE W == {s \in SUBSET D : h[s] \in Nat}
<1>7. h[{}] = 0 /\ {} \in SUBSET D
  BY <1>6
<1> HIDE DEF P
<1>e. {} \in W
  BY <1>7
<1>8. ASSUME NEW s \in SUBSET D, s # {}, s \ {Taken(s)} \in W PROVE s \in W
  <2>1. Taken(s) \in s
    BY <1>8 DEF Taken
  <2>2. h[s] = f[Taken(s)] + h[s \ {Taken(s)}]
    BY <1>6, <1>8
  <2> QED BY <1>8, <2>1, <2>2
<1>9. \A s \in SUBSET D : h[s] \in Nat
  <2> HIDE DEF W
  <2>1. SUBSET D \subseteq W
    BY <1>e, <1>8, SubsetSet
  <2> QED BY <2>1 DEF W
<1>10. DOMAIN h = SUBSET D /\ h = [s \in SUBSET D |-> h[s]]
  BY <1>5 DEF P
<1>11. h \in [SUBSET D -> Nat]
  BY <1>9, <1>10
<1>12. Totals(h, D, f)
  BY <1>6, <1>11 DEF Totals
<1> QED BY <1>1, <1>4, <1>12

\* A sum over a set is the sum over any larger set that has it, at the set.
LEMMA TotalAt ==
    ASSUME NEW D, IsFiniteSet(D), NEW f, NEW h, Totals(h, D, f), \A x \in D : f[x] \in Nat, NEW s \in SUBSET D
    PROVE  Total(f, s) = h[s] /\ Total(f, s) \in Nat
<1>1. IsFiniteSet(s) /\ \A x \in s : f[x] \in Nat
  BY FS_Subset
<1>2. PICK j : Totals(j, s, f) /\ Total(f, s) = j[s]
  BY <1>1, TotalIs
<1>3. j[s] = h[s]
  BY <1>1, <1>2, TotalsSame
<1>4. h[s] \in Nat
  BY DEF Totals
<1> QED BY <1>2, <1>3, <1>4

\* Any one of the elements may be taken first.
LEMMA TotalWithout ==
    ASSUME NEW D, IsFiniteSet(D), NEW f, \A x \in D : f[x] \in Nat, NEW s \in SUBSET D, NEW x \in s
    PROVE  Total(f, s) = f[x] + Total(f, s \ {x})
<1>1. PICK h : Totals(h, D, f)
  BY TotalsExist
<1> DEFINE K == {n \in Nat : \A t \in SUBSET D : Cardinality(t) = n => \A y \in t : h[t] = f[y] + h[t \ {y}]}
<1>2. \A t \in SUBSET D : IsFiniteSet(t) /\ Cardinality(t) \in Nat
  BY FS_Subset, FS_CardinalityType
<1>3. 0 \in K
  BY <1>2, FS_EmptySet
<1>4. ASSUME NEW n \in Nat, n \in K PROVE n + 1 \in K
  <2> SUFFICES ASSUME NEW t \in SUBSET D, Cardinality(t) = n + 1, NEW y \in t PROVE h[t] = f[y] + h[t \ {y}]
    OBVIOUS
  <2>1. PICK z \in t : z = Taken(t)
    BY DEF Taken
  <2>2. h[t] = f[z] + h[t \ {z}]
    BY <1>1, <2>1 DEF Totals
  <2>3. CASE z = y
    BY <2>2, <2>3
  <2>4. CASE z # y
    <3>0. IsFiniteSet(t)
      BY <1>2
    <3>1. Cardinality(t \ {z}) = n /\ Cardinality(t \ {y}) = n
      <4>1. Cardinality(t \ {z}) = Cardinality(t) - 1 /\ Cardinality(t \ {y}) = Cardinality(t) - 1
        <5> HIDE DEF K
        <5> QED BY <3>0, FS_RemoveElement
      <4> QED BY <4>1
    <3>2. h[t \ {z}] = f[y] + h[(t \ {z}) \ {y}]
      BY <1>4, <2>4, <3>1
    <3>3. h[t \ {y}] = f[z] + h[(t \ {y}) \ {z}]
      BY <1>4, <2>4, <3>1
    <3>4. (t \ {z}) \ {y} = (t \ {y}) \ {z}
      OBVIOUS
    <3>5. PICK r \in SUBSET D : r = (t \ {y}) \ {z}
      OBVIOUS
    <3>6. h[t \ {z}] = f[y] + h[r] /\ h[t \ {y}] = f[z] + h[r] /\ h[r] \in Nat /\ f[y] \in Nat /\ f[z] \in Nat
      BY <1>1, <3>2, <3>3, <3>4, <3>5 DEF Totals
    <3>7. h[t] = f[z] + (f[y] + h[r])
      BY <2>2, <3>6
    <3> QED BY <3>6, <3>7
  <2> QED BY <2>3, <2>4
<1> HIDE DEF K
<1>5. Nat \subseteq K
  BY <1>3, <1>4, NatSet
<1>6. h[s] = f[x] + h[s \ {x}]
  BY <1>2, <1>5 DEF K
<1>7. Total(f, s) = h[s] /\ Total(f, s \ {x}) = h[s \ {x}]
  BY <1>1, TotalAt
<1> QED BY <1>6, <1>7

\* The sum over the empty set, and over the same set of functions that agree there.
LEMMA TotalSame ==
    ASSUME NEW D, IsFiniteSet(D), NEW f, \A x \in D : f[x] \in Nat, NEW k, \A x \in D : f[x] = k[x]
    PROVE  Total(f, D) = Total(k, D) /\ Total(f, D) \in Nat /\ Total(f, {}) = 0
<1>1. PICK h : Totals(h, D, f)
  BY TotalsExist
<1>2. \A x \in D : k[x] \in Nat
  OBVIOUS
<1>3. PICK j : Totals(j, D, k)
  BY <1>2, TotalsExist
<1>4. h[D] = j[D]
  BY <1>1, <1>3, TotalsSame
<1>5. Total(f, D) = h[D] /\ Total(f, D) \in Nat
  BY <1>1, TotalAt
<1>6. Total(k, D) = j[D]
  BY <1>2, <1>3, TotalAt
<1>7. {} \in SUBSET D
  OBVIOUS
<1>8. Total(f, {}) = h[{}]
  BY <1>1, <1>7, TotalAt
<1>9. h[{}] = 0
  BY <1>1, <1>7 DEF Totals
<1> QED BY <1>4, <1>5, <1>6, <1>8, <1>9

\* The sum of two functions.
LEMMA TotalAdds ==
    ASSUME NEW D, IsFiniteSet(D), NEW f, NEW k, \A x \in D : f[x] \in Nat /\ k[x] \in Nat,
           NEW r, \A x \in D : r[x] = f[x] + k[x]
    PROVE  Total(r, D) = Total(f, D) + Total(k, D)
<1>1. \A x \in D : r[x] \in Nat
  OBVIOUS
<1>2. PICK h : Totals(h, D, f)
  BY TotalsExist
<1>3. PICK j : Totals(j, D, k)
  BY TotalsExist
<1>4. PICK i : Totals(i, D, r)
  BY <1>1, TotalsExist
<1> DEFINE W == {s \in SUBSET D : i[s] = h[s] + j[s]}
<1>5. {} \in W
  <2>1. {} \in SUBSET D
    OBVIOUS
  <2>2. i[{}] = 0 /\ h[{}] = 0 /\ j[{}] = 0
    BY <1>2, <1>3, <1>4, <2>1 DEF Totals
  <2> QED BY <2>1, <2>2
<1>6. ASSUME NEW s \in SUBSET D, s # {}, s \ {Taken(s)} \in W PROVE s \in W
  <2>1. PICK x \in D : x = Taken(s)
    BY <1>6 DEF Taken
  <2>2. PICK y \in SUBSET D : y = s \ {x}
    OBVIOUS
  <2>3. i[s] = r[x] + i[y] /\ h[s] = f[x] + h[y] /\ j[s] = k[x] + j[y]
    BY <1>2, <1>3, <1>4, <1>6, <2>1, <2>2 DEF Totals
  <2>4. h[y] \in Nat /\ j[y] \in Nat /\ i[y] = h[y] + j[y]
    BY <1>2, <1>3, <1>6, <2>1, <2>2 DEF Totals
  <2>5. r[x] = f[x] + k[x] /\ f[x] \in Nat /\ k[x] \in Nat
    OBVIOUS
  <2>6. i[s] = h[s] + j[s]
    BY <2>3, <2>4, <2>5
  <2> QED BY <2>6
<1> HIDE DEF W
<1>7. SUBSET D \subseteq W
  BY <1>5, <1>6, SubsetSet
<1>8. i[D] = h[D] + j[D]
  BY <1>7 DEF W
<1>9. Total(f, D) = h[D] /\ Total(k, D) = j[D]
  BY <1>2, <1>3, TotalAt
<1>10. Total(r, D) = i[D]
  BY <1>1, <1>4, TotalAt
<1> QED BY <1>8, <1>9, <1>10

\* x is a multiple of v; only 0 is one of 0.
Divides(v, x) == \E q \in Nat : x = v * q

\* A sum of multiples, or of zeros.
LEMMA TotalMultiple ==
    ASSUME NEW D, IsFiniteSet(D), NEW f, NEW u \in Nat, \A x \in D : Divides(u, f[x])
    PROVE  Divides(u, Total(f, D))
<1>1. \A x \in D : f[x] \in Nat
  BY DEF Divides
<1>2. PICK h : Totals(h, D, f)
  BY <1>1, TotalsExist
<1> DEFINE W == {s \in SUBSET D : \E q \in Nat : h[s] = u * q}
<1>3. {} \in W
  <2>1. {} \in SUBSET D /\ 0 = u * 0
    OBVIOUS
  <2>2. h[{}] = 0
    BY <1>2, <2>1 DEF Totals
  <2> QED BY <2>1, <2>2
<1>4. ASSUME NEW s \in SUBSET D, s # {}, s \ {Taken(s)} \in W PROVE s \in W
  <2>1. PICK x \in D : x = Taken(s)
    BY <1>4 DEF Taken
  <2>2. h[s] = f[x] + h[s \ {x}]
    BY <1>2, <1>4, <2>1 DEF Totals
  <2>3. PICK p \in Nat : h[s \ {x}] = u * p
    BY <1>4, <2>1
  <2>4. PICK q \in Nat : f[x] = u * q
    BY DEF Divides
  <2>5. u * q + u * p = u * (q + p) /\ q + p \in Nat
    OBVIOUS
  <2>6. h[s] = u * (q + p)
    BY <2>2, <2>3, <2>4, <2>5
  <2> QED BY <2>5, <2>6
<1> HIDE DEF W
<1>5. SUBSET D \subseteq W
  BY <1>3, <1>4, SubsetSet
<1>6. Total(f, D) = h[D]
  BY <1>1, <1>2, TotalAt
<1> QED BY <1>5, <1>6 DEF W, Divides

\* The sum over two sets that share nothing.
LEMMA TotalUnion ==
    ASSUME NEW X, IsFiniteSet(X), NEW Y, IsFiniteSet(Y), X \cap Y = {}, NEW f, \A x \in X \cup Y : f[x] \in Nat
    PROVE  Total(f, X \cup Y) = Total(f, X) + Total(f, Y)
<1> DEFINE D == X \cup Y
           W == {s \in SUBSET X : Total(f, s \cup Y) = Total(f, s) + Total(f, Y)}
<1>1. IsFiniteSet(D)
  BY FS_Union
<1>2. \A s \in SUBSET D : Total(f, s) \in Nat
  <2>1. PICK h : Totals(h, D, f)
    BY <1>1, TotalsExist
  <2> QED BY <1>1, <2>1, TotalAt
<1>3. {} \in W
  <2>1. Total(f, {}) = 0
    BY <1>1, TotalSame
  <2>2. {} \cup Y = Y /\ Total(f, Y) \in Nat
    BY <1>2
  <2>3. Total(f, {} \cup Y) = Total(f, {}) + Total(f, Y)
    BY <2>1, <2>2
  <2> QED BY <2>3
<1>4. ASSUME NEW s \in SUBSET X, s # {}, s \ {Taken(s)} \in W PROVE s \in W
  <2>1. PICK x \in s : x = Taken(s)
    BY <1>4 DEF Taken
  <2>2. s \in SUBSET D /\ s \cup Y \in SUBSET D /\ x \in s \cup Y
    OBVIOUS
  <2>3. Total(f, s) = f[x] + Total(f, s \ {x})
    BY <1>1, <2>2, TotalWithout
  <2>4. Total(f, s \cup Y) = f[x] + Total(f, (s \cup Y) \ {x})
    BY <1>1, <2>2, TotalWithout
  <2>5. (s \cup Y) \ {x} = (s \ {x}) \cup Y
    OBVIOUS
  <2>6. Total(f, (s \ {x}) \cup Y) = Total(f, s \ {x}) + Total(f, Y)
    BY <1>4, <2>1
  <2>7. f[x] \in Nat /\ Total(f, s \ {x}) \in Nat /\ Total(f, Y) \in Nat
    <3>1. s \ {x} \in SUBSET D /\ Y \in SUBSET D /\ x \in X
      OBVIOUS
    <3> QED BY <1>2, <3>1
  <2>8. Total(f, s \cup Y) = Total(f, s) + Total(f, Y)
    <3>1. PICK a \in Nat : a = Total(f, s \ {x})
      BY <2>7
    <3>2. PICK b \in Nat : b = Total(f, Y)
      BY <2>7
    <3>3. Total(f, (s \cup Y) \ {x}) = a + b
      BY <2>5, <2>6, <3>1, <3>2
    <3>4. Total(f, s \cup Y) = f[x] + (a + b) /\ Total(f, s) = f[x] + a
      BY <2>3, <2>4, <3>1, <3>3
    <3> QED BY <2>7, <3>2, <3>4
  <2> QED BY <2>8
<1> HIDE DEF W
<1>5. SUBSET X \subseteq W
  BY <1>3, <1>4, SubsetSet
<1> QED BY <1>5 DEF W
-----------------------------------------------------------------------------
(* The weight a message has by what it contributed to.                     *)

\* A graph of edges that are counted.
Counted(g) == Typed(g) /\ \A e \in BagToSet(g) : g[e] \in Nat

\* The part of each edge in the sum.
Parts(g, m, A, T, S, k) ==
    [e \in Out(g, m, T, S) |-> g[e] * Times(IF e.to \in A THEN One ELSE k[e.to], e.score)]

\* What m contributed to, finitely often.
LEMMA OutType ==
    ASSUME NEW g, Typed(g), NEW m, NEW T, NEW S
    PROVE  /\ IsFiniteSet(Out(g, m, T, S)) /\ Out(g, m, T, S) \subseteq BagToSet(g)
           /\ \A e \in Out(g, m, T, S) :
                 /\ e \in Edge /\ e.from = m /\ e.to \in T /\ e.src = "prov" /\ scopeAllows(e, S)
                 /\ e.from \in Messages /\ e.to \in Messages /\ e.score \in 0 .. Unit
<1>1. Out(g, m, T, S) \subseteq BagToSet(g)
  BY DEF Out
<1>2. IsFiniteSet(Out(g, m, T, S))
  BY <1>1, FS_Subset DEF Typed
<1>3. ASSUME NEW e \in Out(g, m, T, S)
      PROVE  /\ e \in Edge /\ e.from = m /\ e.to \in T /\ e.src = "prov" /\ scopeAllows(e, S)
             /\ e.from \in Messages /\ e.to \in Messages /\ e.score \in 0 .. Unit
  <2>1. e \in Edge
    BY <1>1, <1>3 DEF Typed
  <2>2. e.from \in Messages /\ e.to \in Messages /\ e.score \in 0 .. Unit
    BY <2>1 DEF Edge
  <2> QED BY <1>3, <2>1, <2>2 DEF Out
<1> QED BY <1>1, <1>2, <1>3

\* A part is a number.
LEMMA PartsType ==
    ASSUME NEW g, Counted(g), NEW m, NEW A, NEW R, NEW S, NEW k, \A n \in R : k[n] \in Nat
    PROVE  \A e \in Out(g, m, A \cup R, S) :
              /\ Parts(g, m, A, A \cup R, S, k)[e] = g[e] * Times(IF e.to \in A THEN One ELSE k[e.to], e.score)
              /\ Times(IF e.to \in A THEN One ELSE k[e.to], e.score) \in Nat
              /\ g[e] \in Nat /\ Parts(g, m, A, A \cup R, S, k)[e] \in Nat
<1> SUFFICES ASSUME NEW e \in Out(g, m, A \cup R, S)
    PROVE  /\ Parts(g, m, A, A \cup R, S, k)[e] = g[e] * Times(IF e.to \in A THEN One ELSE k[e.to], e.score)
           /\ Times(IF e.to \in A THEN One ELSE k[e.to], e.score) \in Nat
           /\ g[e] \in Nat /\ Parts(g, m, A, A \cup R, S, k)[e] \in Nat
  OBVIOUS
<1>1. Parts(g, m, A, A \cup R, S, k)[e] = g[e] * Times(IF e.to \in A THEN One ELSE k[e.to], e.score)
  BY DEF Parts
<1>2. e.to \in A \cup R /\ e.score \in 0 .. Unit /\ e \in BagToSet(g)
  BY OutType DEF Counted
<1>3. PICK v \in Nat : v = IF e.to \in A THEN One ELSE k[e.to]
  BY <1>2, OneType
<1>4. Times(v, e.score) \in Nat
  BY <1>2, TimesGrows
<1>5. g[e] \in Nat
  BY <1>2 DEF Counted
<1>6. PICK x \in Nat : x = Times(v, e.score)
  BY <1>4
<1>7. g[e] * x \in Nat
  BY <1>5
<1> QED BY <1>1, <1>3, <1>5, <1>6, <1>7

\* Sum is a sum.
LEMMA SumIs ==
    ASSUME NEW g, Counted(g), NEW m, NEW A, NEW R, NEW S, NEW k, \A n \in R : k[n] \in Nat
    PROVE  /\ Sum(g, m, A, R, S, k) = Total(Parts(g, m, A, A \cup R, S, k), Out(g, m, A \cup R, S))
           /\ Sum(g, m, A, R, S, k) \in Nat
<1>0. \A e \in Out(g, m, A \cup R, S) :
              /\ Parts(g, m, A, A \cup R, S, k)[e] = g[e] * Times(IF e.to \in A THEN One ELSE k[e.to], e.score)
              /\ Times(IF e.to \in A THEN One ELSE k[e.to], e.score) \in Nat
              /\ g[e] \in Nat /\ Parts(g, m, A, A \cup R, S, k)[e] \in Nat
  BY PartsType
<1> DEFINE D == Out(g, m, A \cup R, S)
           f == Parts(g, m, A, A \cup R, S, k)
           Part(e) == g[e] * Times(IF e.to \in A THEN One ELSE k[e.to], e.score)
           P(u) == u = [s \in SUBSET D |-> IF s = {} THEN 0
                          ELSE Part(CHOOSE x \in s : TRUE) + u[s \ {CHOOSE x \in s : TRUE}]]
<1>1. Sum(g, m, A, R, S, k) = (CHOOSE u : P(u))[D]
  BY Zenon DEF Sum, MapThenSumSet, MapThenFoldSet
<1>2. IsFiniteSet(D) /\ \A e \in D : f[e] = Part(e) /\ f[e] \in Nat
  <2>1. IsFiniteSet(D)
    BY OutType DEF Counted
  <2>2. \A e \in D : f[e] = Part(e) /\ f[e] \in Nat
    BY <1>0, Zenon
  <2> QED BY <2>1, <2>2
<1> HIDE DEF D, f, Part
<1>3. PICK t : Totals(t, D, f)
  BY <1>2, TotalsExist
<1>4. \A s \in SUBSET D : s # {} => (CHOOSE x \in s : TRUE) \in D
  OBVIOUS
<1>5. P(t)
  <2>1. t \in [SUBSET D -> Nat] /\ \A s \in SUBSET D : t[s] = IF s = {} THEN 0 ELSE f[Taken(s)] + t[s \ {Taken(s)}]
    BY <1>3 DEF Totals
  <2>2. ASSUME NEW s \in SUBSET D
        PROVE  t[s] = IF s = {} THEN 0 ELSE Part(CHOOSE x \in s : TRUE) + t[s \ {CHOOSE x \in s : TRUE}]
    <3>1. s # {} => f[Taken(s)] = Part(Taken(s))
      BY <1>2, <1>4 DEF Taken
    <3>2. t[s] = IF s = {} THEN 0 ELSE Part(Taken(s)) + t[s \ {Taken(s)}]
      BY <2>1, <3>1
    <3> QED BY <3>2 DEF Taken
  <2> QED BY <2>1, <2>2
<1>6. PICK h : h = CHOOSE u : P(u)
  OBVIOUS
<1> HIDE DEF P
<1>7. P(h)
  BY <1>5, <1>6
<1>8. /\ DOMAIN h = SUBSET D /\ h = [s \in SUBSET D |-> h[s]]
      /\ \A s \in SUBSET D : h[s] = IF s = {} THEN 0 ELSE Part(Taken(s)) + h[s \ {Taken(s)}]
  BY <1>7 DEF P, Taken
<1>9. \A s \in SUBSET D : s # {} => f[Taken(s)] = Part(Taken(s)) /\ f[Taken(s)] \in Nat
  BY <1>2, <1>4 DEF Taken
<1> DEFINE W == {s \in SUBSET D : h[s] \in Nat}
<1>10. {} \in W
  <2>1. {} \in SUBSET D
    OBVIOUS
  <2>2. h[{}] = 0
    BY <1>8, <2>1
  <2> QED BY <2>1, <2>2
<1>11. ASSUME NEW s \in SUBSET D, s # {}, s \ {Taken(s)} \in W PROVE s \in W
  <2>1. h[s] = f[Taken(s)] + h[s \ {Taken(s)}] /\ f[Taken(s)] \in Nat
    BY <1>8, <1>9, <1>11
  <2>2. h[s \ {Taken(s)}] \in Nat
    BY <1>11
  <2> QED BY <2>1, <2>2
<1>12. \A s \in SUBSET D : h[s] \in Nat
  <2> HIDE DEF W
  <2>1. SUBSET D \subseteq W
    BY <1>2, <1>10, <1>11, SubsetSet
  <2> QED BY <2>1 DEF W
<1>13. h \in [SUBSET D -> Nat]
  BY <1>8, <1>12
<1>14. Totals(h, D, f)
  BY <1>8, <1>9, <1>13 DEF Totals
<1>15. D \in SUBSET D
  OBVIOUS
<1>16. Total(f, D) = h[D] /\ h[D] \in Nat
  BY <1>2, <1>12, <1>14, <1>15, TotalAt
<1> QED BY <1>1, <1>6, <1>16 DEF D, f

\* What m contributed to over A and over R.
LEMMA SumSplits ==
    ASSUME NEW g, Counted(g), NEW m, NEW A, NEW R, A \cap R = {}, NEW S, NEW k, \A n \in R : k[n] \in Nat, NEW j
    PROVE  Sum(g, m, A, R, S, k) = Sum(g, m, A, {}, S, j) + Sum(g, m, {}, R, S, k)
<1> DEFINE X == Out(g, m, A, S)
           Y == Out(g, m, R, S)
           f == Parts(g, m, A, A \cup R, S, k)
<1>1. A \cup {} = A /\ {} \cup R = R
  OBVIOUS
<1>2. Sum(g, m, A, R, S, k) = Total(f, Out(g, m, A \cup R, S))
  BY SumIs
<1>3. Sum(g, m, A, {}, S, j) = Total(Parts(g, m, A, A, S, j), X)
  <2>1. \A n \in {} : j[n] \in Nat
    OBVIOUS
  <2>2. Sum(g, m, A, {}, S, j) = Total(Parts(g, m, A, A \cup {}, S, j), Out(g, m, A \cup {}, S))
    BY <2>1, SumIs
  <2> QED BY <1>1, <2>2
<1>4. Sum(g, m, {}, R, S, k) = Total(Parts(g, m, {}, R, S, k), Y)
  <2>1. Sum(g, m, {}, R, S, k) = Total(Parts(g, m, {}, {} \cup R, S, k), Out(g, m, {} \cup R, S))
    BY SumIs
  <2> QED BY <1>1, <2>1
<1>5. Out(g, m, A \cup R, S) = X \cup Y /\ X \cap Y = {}
  BY DEF Out
<1>6. IsFiniteSet(X) /\ IsFiniteSet(Y)
  BY OutType DEF Counted
<1>7. \A e \in X \cup Y : f[e] \in Nat
  BY <1>5, PartsType
<1>8. \A e \in X : f[e] = Parts(g, m, A, A, S, j)[e]
  BY DEF Parts, Out
<1>9. \A e \in Y : f[e] = Parts(g, m, {}, R, S, k)[e]
  BY DEF Parts, Out
<1> HIDE DEF X, Y, f
<1>10. Total(f, X \cup Y) = Total(f, X) + Total(f, Y)
  BY <1>5, <1>6, <1>7, TotalUnion
<1>11. Total(f, X) = Total(Parts(g, m, A, A, S, j), X)
  BY <1>6, <1>7, <1>8, TotalSame
<1>12. Total(f, Y) = Total(Parts(g, m, {}, R, S, k), Y)
  BY <1>6, <1>7, <1>9, TotalSame
<1> QED BY <1>2, <1>3, <1>4, <1>5, <1>10, <1>11, <1>12

\* Only what m contributed to counts.
LEMMA SumSame ==
    ASSUME NEW g, Counted(g), NEW m, NEW R, NEW S, NEW k, NEW j, \A n \in R : k[n] \in Nat /\ j[n] \in Nat,
           \A e \in Out(g, m, R, S) : k[e.to] = j[e.to]
    PROVE  Sum(g, m, {}, R, S, k) = Sum(g, m, {}, R, S, j)
<1>1. {} \cup R = R
  OBVIOUS
<1>2. Sum(g, m, {}, R, S, k) = Total(Parts(g, m, {}, R, S, k), Out(g, m, R, S))
  <2>1. Sum(g, m, {}, R, S, k) = Total(Parts(g, m, {}, {} \cup R, S, k), Out(g, m, {} \cup R, S))
    BY SumIs
  <2> QED BY <1>1, <2>1
<1>3. Sum(g, m, {}, R, S, j) = Total(Parts(g, m, {}, R, S, j), Out(g, m, R, S))
  <2>1. Sum(g, m, {}, R, S, j) = Total(Parts(g, m, {}, {} \cup R, S, j), Out(g, m, {} \cup R, S))
    BY SumIs
  <2> QED BY <1>1, <2>1
<1>4. \A e \in Out(g, m, R, S) : Parts(g, m, {}, R, S, k)[e] \in Nat
  <2>1. \A e \in Out(g, m, {} \cup R, S) : Parts(g, m, {}, {} \cup R, S, k)[e] \in Nat
    BY PartsType
  <2> QED BY <1>1, <2>1
<1>5. \A e \in Out(g, m, R, S) : Parts(g, m, {}, R, S, k)[e] = Parts(g, m, {}, R, S, j)[e]
  BY DEF Parts
<1>6. IsFiniteSet(Out(g, m, R, S))
  BY OutType DEF Counted
<1>7. Total(Parts(g, m, {}, R, S, k), Out(g, m, R, S)) = Total(Parts(g, m, {}, R, S, j), Out(g, m, R, S))
  <2> DEFINE D == Out(g, m, R, S)
             p == Parts(g, m, {}, R, S, k)
             q == Parts(g, m, {}, R, S, j)
  <2> HIDE DEF D, p, q
  <2>1. IsFiniteSet(D) /\ \A e \in D : p[e] \in Nat /\ p[e] = q[e]
    BY <1>4, <1>5, <1>6 DEF D, p, q
  <2>2. Total(p, D) = Total(q, D)
    BY <2>1, TotalSame
  <2> QED BY <2>2 DEF D, p, q
<1> QED BY <1>2, <1>3, <1>7

\* A product divides.
LEMMA QuotientExact ==
    ASSUME NEW u \in Nat \ {0}, NEW y \in Nat
    PROVE  (u * y) \div u = y
<1>1. u * y \in Nat
  OBVIOUS
<1>2. PICK q \in Nat : q = (u * y) \div u /\ u * q <= u * y /\ u * y < u * q + u
  BY <1>1, Quotient
<1>3. ASSUME q < y PROVE FALSE
  <2>1. PICK d \in Nat : y = q + 1 + d
    <3>1. y - q - 1 \in Nat /\ y = q + 1 + (y - q - 1)
      BY <1>3
    <3> QED BY <3>1
  <2>2. u * y = u * q + u + u * d /\ u * d \in Nat /\ u * q \in Nat
    BY <2>1
  <2> QED BY <1>2, <2>2
<1>4. ASSUME y < q PROVE FALSE
  <2>1. PICK d \in Nat : q = y + 1 + d
    <3>1. q - y - 1 \in Nat /\ q = y + 1 + (q - y - 1)
      BY <1>4
    <3> QED BY <3>1
  <2>2. u * q = u * y + u + u * d /\ u * d \in Nat /\ u * y \in Nat
    BY <2>1
  <2> QED BY <1>2, <2>2
<1> QED BY <1>2, <1>3, <1>4

\* An edge takes its share of a whole number exactly.
LEMMA TimesExact ==
    ASSUME NEW q \in Nat, NEW s \in 0 .. Unit
    PROVE  Times(Unit * q, s) = q * s
<1>1. Unit \in Nat \ {0} /\ s \in Nat
  BY GraphAssumption
<1>2. (Unit * q) * s = Unit * (q * s) /\ q * s \in Nat
  BY <1>1
<1>3. PICK y \in Nat : y = q * s
  BY <1>2
<1>4. (Unit * y) \div Unit = y
  BY <1>1, QuotientExact
<1>5. Times(Unit * q, s) = (Unit * y) \div Unit
  BY <1>2, <1>3 DEF Times
<1> QED BY <1>3, <1>4, <1>5

\* Weights that divide add up.
LEMMA SumAdds ==
    ASSUME NEW g, Counted(g), NEW m, NEW R, NEW S, NEW k, NEW j, NEW r,
           \A n \in R : Divides(Unit, k[n]) /\ Divides(Unit, j[n]) /\ r[n] = k[n] + j[n]
    PROVE  Sum(g, m, {}, R, S, r) = Sum(g, m, {}, R, S, k) + Sum(g, m, {}, R, S, j)
<1> DEFINE D == Out(g, m, R, S)
           f == Parts(g, m, {}, R, S, k)
           h == Parts(g, m, {}, R, S, j)
           i == Parts(g, m, {}, R, S, r)
<1>1. Unit \in Nat \ {0}
  BY GraphAssumption
<1>2. \A n \in R : k[n] \in Nat /\ j[n] \in Nat /\ r[n] \in Nat
  BY <1>1 DEF Divides
<1>3. {} \cup R = R
  OBVIOUS
<1>4. /\ Sum(g, m, {}, R, S, k) = Total(f, D) /\ Sum(g, m, {}, R, S, j) = Total(h, D)
      /\ Sum(g, m, {}, R, S, r) = Total(i, D)
  <2>1. Sum(g, m, {}, R, S, k) = Total(Parts(g, m, {}, {} \cup R, S, k), Out(g, m, {} \cup R, S))
    BY <1>2, SumIs
  <2>2. Sum(g, m, {}, R, S, j) = Total(Parts(g, m, {}, {} \cup R, S, j), Out(g, m, {} \cup R, S))
    BY <1>2, SumIs
  <2>3. Sum(g, m, {}, R, S, r) = Total(Parts(g, m, {}, {} \cup R, S, r), Out(g, m, {} \cup R, S))
    BY <1>2, SumIs
  <2> QED BY <1>3, <2>1, <2>2, <2>3
<1>5. IsFiniteSet(D)
  BY OutType DEF Counted
<1>6. ASSUME NEW e \in D PROVE f[e] \in Nat /\ h[e] \in Nat /\ i[e] = f[e] + h[e]
  <2>1. e.to \in R /\ e.score \in 0 .. Unit /\ g[e] \in Nat
    BY OutType DEF Counted
  <2>2. PICK p \in Nat, q \in Nat : k[e.to] = Unit * p /\ j[e.to] = Unit * q /\ r[e.to] = k[e.to] + j[e.to]
    BY <2>1 DEF Divides
  <2>3. PICK s \in Nat : s = e.score /\ s \in 0 .. Unit
    BY <2>1
  <2>4. r[e.to] = Unit * (p + q) /\ p + q \in Nat
    BY <1>1, <2>2
  <2>5. Times(k[e.to], s) = p * s /\ Times(j[e.to], s) = q * s
    BY <2>2, <2>3, TimesExact
  <2>6. Times(r[e.to], s) = (p + q) * s
    BY <2>3, <2>4, TimesExact
  <2>7. f[e] = g[e] * Times(k[e.to], s) /\ h[e] = g[e] * Times(j[e.to], s) /\ i[e] = g[e] * Times(r[e.to], s)
    BY <2>3 DEF Parts
  <2>8. PICK c \in Nat : c = g[e]
    BY <2>1
  <2>9. f[e] = c * (p * s) /\ h[e] = c * (q * s) /\ i[e] = c * ((p + q) * s)
    BY <2>5, <2>6, <2>7, <2>8
  <2>10. c * ((p + q) * s) = c * (p * s) + c * (q * s) /\ c * (p * s) \in Nat /\ c * (q * s) \in Nat
    OBVIOUS
  <2> QED BY <2>9, <2>10
<1> HIDE DEF D, f, h, i
<1>7. Total(i, D) = Total(f, D) + Total(h, D)
  BY <1>5, <1>6, TotalAdds
<1> QED BY <1>4, <1>7

\* Weights that divide by v, once an edge took its share, have a sum that does.
LEMMA SumMultiple ==
    ASSUME NEW g, Counted(g), NEW m, NEW A, NEW R, NEW S, NEW k, \A n \in R : k[n] \in Nat, NEW v \in Nat,
           \A e \in Out(g, m, A \cup R, S) : Divides(Unit * v, IF e.to \in A THEN One ELSE k[e.to])
    PROVE  Divides(v, Sum(g, m, A, R, S, k))
<1> DEFINE D == Out(g, m, A \cup R, S)
           f == Parts(g, m, A, A \cup R, S, k)
<1>1. Sum(g, m, A, R, S, k) = Total(f, D)
  BY SumIs
<1>2. IsFiniteSet(D)
  BY OutType DEF Counted
<1>3. ASSUME NEW e \in D PROVE Divides(v, f[e])
  <2>1. e.score \in 0 .. Unit /\ g[e] \in Nat
    BY OutType DEF Counted
  <2>2. PICK s \in Nat : s = e.score /\ s \in 0 .. Unit
    BY <2>1
  <2>3. PICK w : w = IF e.to \in A THEN One ELSE k[e.to]
    OBVIOUS
  <2>4. PICK q \in Nat : w = Unit * (v * q)
    <3>1. PICK q \in Nat : w = (Unit * v) * q
      BY <2>3 DEF Divides
    <3>2. (Unit * v) * q = Unit * (v * q)
      BY GraphAssumption
    <3> QED BY <3>1, <3>2
  <2>5. f[e] = g[e] * Times(w, s)
    BY <2>2, <2>3 DEF Parts
  <2>6. PICK y \in Nat : y = v * q
    OBVIOUS
  <2>7. Times(w, s) = y * s
    BY <2>2, <2>4, <2>6, TimesExact
  <2>8. PICK c \in Nat : c = g[e]
    BY <2>1
  <2>9. f[e] = c * ((v * q) * s)
    BY <2>5, <2>6, <2>7, <2>8
  <2>10. c * ((v * q) * s) = v * (c * (q * s)) /\ c * (q * s) \in Nat
    OBVIOUS
  <2> QED BY <2>9, <2>10 DEF Divides
<1> HIDE DEF D, f
<1>4. Divides(v, Total(f, D))
  BY <1>2, <1>3, TotalMultiple
<1> QED BY <1>1, <1>4
-----------------------------------------------------------------------------
(* The reference sums of paths.                                            *)

\* A path from a message into A by its first edge, and one step of PathSum.
Into(g, A, R, S) == [m \in R |-> Sum(g, m, A, {}, S, [n \in {} |-> 0])]
PathStep(g, R, S, p) ==
    [last |-> [m \in R |-> Sum(g, m, {}, R, S, p.last)],
     sum  |-> [m \in R |-> p.sum[m] + Sum(g, m, {}, R, S, p.last)]]
PathState(R) == [last : [R -> Nat], sum : [R -> Nat]]

\* A step of the reference.
LEMMA PathStepType ==
    ASSUME NEW g, Counted(g), NEW R, NEW S, NEW p \in PathState(R)
    PROVE  /\ PathStep(g, R, S, p) \in PathState(R)
           /\ \A m \in R : /\ PathStep(g, R, S, p).last[m] = Sum(g, m, {}, R, S, p.last)
                           /\ PathStep(g, R, S, p).sum[m] = p.sum[m] + PathStep(g, R, S, p).last[m]
<1>1. p.last \in [R -> Nat] /\ p.sum \in [R -> Nat]
  BY DEF PathState
<1>2. \A m \in R : Sum(g, m, {}, R, S, p.last) \in Nat
  BY <1>1, SumIs
<1>3. PICK q : q = PathStep(g, R, S, p)
  OBVIOUS
<1>4. q = [last |-> [m \in R |-> Sum(g, m, {}, R, S, p.last)],
           sum  |-> [m \in R |-> p.sum[m] + Sum(g, m, {}, R, S, p.last)]]
  BY <1>3 DEF PathStep
<1>5. /\ [m \in R |-> Sum(g, m, {}, R, S, p.last)] \in [R -> Nat]
      /\ [m \in R |-> p.sum[m] + Sum(g, m, {}, R, S, p.last)] \in [R -> Nat]
  BY <1>1, <1>2
<1>6. q \in PathState(R)
  BY <1>4, <1>5 DEF PathState
<1>7. \A m \in R : q.last[m] = Sum(g, m, {}, R, S, p.last) /\ q.sum[m] = p.sum[m] + q.last[m]
  BY <1>4
<1> QED BY <1>3, <1>6, <1>7

\* The beginning of the reference.
LEMMA IntoType ==
    ASSUME NEW g, Counted(g), NEW A, NEW R, NEW S
    PROVE  /\ Into(g, A, R, S) \in [R -> Nat]
           /\ \A m \in R : Into(g, A, R, S)[m] = Sum(g, m, A, {}, S, [n \in {} |-> 0])
<1>1. \A n \in {} : [x \in {} |-> 0][n] \in Nat
  OBVIOUS
<1>2. \A m \in R : Sum(g, m, A, {}, S, [n \in {} |-> 0]) \in Nat
  BY <1>1, SumIs
<1> QED BY <1>2 DEF Into

\* PathSum is a run of such steps.
LEMMA PathSumRun ==
    ASSUME NEW g, Counted(g), NEW A, NEW R, IsFiniteSet(R), NEW S
    PROVE  \E p : /\ Run(p, PathState(R), [last |-> Into(g, A, R, S), sum |-> Into(g, A, R, S)],
                         [y \in PathState(R) |-> PathStep(g, R, S, y)], Cardinality(R))
                  /\ PathSum(g, A, R, S) = p[Cardinality(R)].sum
<1> DEFINE T == PathState(R)
           N == Cardinality(R)
           v == [last |-> Into(g, A, R, S), sum |-> Into(g, A, R, S)]
           Op(y) == PathStep(g, R, S, y)
           next == [y \in T |-> Op(y)]
           P(u) == u = [i \in 0 .. N |-> IF i = 0 THEN v ELSE Op(u[i - 1])]
<1>1. PathSum(g, A, R, S) = (CHOOSE u : P(u))[N].sum
  BY Zenon DEF PathSum, Iterate, Into, PathStep
<1>2. v \in T /\ \A y \in T : Op(y) \in T
  <2>1. v \in T
    BY IntoType DEF PathState
  <2> QED BY <2>1, PathStepType
<1> HIDE DEF Op
<1>3. N \in Nat /\ next \in [T -> T] /\ \A y \in T : next[y] = Op(y)
  BY <1>2, FS_CardinalityType
<1>n. next = [y \in T |-> PathStep(g, R, S, y)]
  BY DEF Op
<1> HIDE DEF T, next, v, N
<1>s. PICK f : Stepping(f, T, v, next, N)
  BY <1>2, <1>3, RunExists
<1>4. f \in [0 .. N -> T] /\ \A i \in 0 .. N : f[i] = IF i = 0 THEN v ELSE next[f[i - 1]]
  BY <1>s DEF Stepping
<1>5. P(f)
  <2>1. ASSUME NEW i \in 0 .. N PROVE f[i] = IF i = 0 THEN v ELSE Op(f[i - 1])
    <3>1. i # 0 => i - 1 \in 0 .. N
      BY <1>3
    <3> QED BY <1>3, <1>4, <3>1
  <2> QED BY <1>4, <2>1
<1>6. PICK h : h = CHOOSE u : P(u)
  OBVIOUS
<1> HIDE DEF P
<1>7. P(h)
  BY <1>5, <1>6
<1> USE DEF P
<1>8. h[0] = v /\ \A i \in 0 .. N - 1 : h[i + 1] = Op(h[i])
  BY <1>3, <1>7
<1>9. Run(h, T, v, next, N)
  BY <1>2, <1>3, <1>8, RunFits
<1>10. PathSum(g, A, R, S) = h[N].sum
  BY <1>1, <1>6
<1> QED BY <1>9, <1>10, <1>n DEF T, v, N

\* A rank of the messages of R that every edge among them lowers.
Descending(rank, g, R, S) ==
    /\ rank \in [R -> Nat]
    /\ \A m \in R : rank[m] < Cardinality(R) /\ \A e \in Out(g, m, R, S) : rank[e.to] < rank[m]

\* After i steps: the paths of i + 1 edges still divide by the scores to come, none
\* begins at a message of a rank below i, and the sum lacks only the next ones.
PathsSoFar(p, i, rank, u, g, A, R, S) ==
    \A m \in R :
        /\ Divides(u[Hops - 1 - i], p.last[m])
        /\ Divides(Unit, p.last[m]) /\ Divides(Unit, p.sum[m])
        /\ rank[m] < i => p.last[m] = 0
        /\ p.sum[m] + Sum(g, m, {}, R, S, p.last) = Into(g, A, R, S)[m] + Sum(g, m, {}, R, S, p.sum)

\* A power below is a factor.
LEMMA PowerDivides ==
    ASSUME NEW u, Power(u), NEW i \in 1 .. Hops
    PROVE  /\ i - 1 \in 0 .. Hops - 1 /\ u[i - 1] \in Nat /\ u[i] \in Nat /\ Divides(u[i], u[i])
           /\ u[i] = Unit * u[i - 1]
           /\ \A x : Divides(u[i], x) => Divides(Unit, x)
<1>1. Hops \in Nat /\ Unit \in Nat
  BY HopsType, GraphAssumption
<1>2. i - 1 \in 0 .. Hops - 1 /\ i - 1 \in 0 .. Hops /\ i \in 0 .. Hops /\ (i - 1) + 1 = i
  BY <1>1
<1>3. u[i] = u[i - 1] * Unit /\ u[i - 1] \in Nat /\ u[i] \in Nat
  BY <1>2 DEF Power
<1>4. PICK a \in Nat : a = u[i - 1]
  BY <1>3
<1>5. u[i] = Unit * a /\ u[i] = u[i] * 1
  BY <1>1, <1>3, <1>4
<1>6. ASSUME NEW x, Divides(u[i], x) PROVE Divides(Unit, x)
  <2>1. PICK q \in Nat : x = (Unit * a) * q
    BY <1>5, <1>6 DEF Divides
  <2>2. x = Unit * (a * q) /\ a * q \in Nat
    BY <1>1, <2>1
  <2> QED BY <2>2 DEF Divides
<1>7. Divides(u[i], u[i])
  BY <1>5 DEF Divides
<1> QED BY <1>2, <1>3, <1>4, <1>5, <1>6, <1>7

\* A multiple of Unit is a number, 0 is one, and so is a sum.
LEMMA DividesType ==
    ASSUME NEW v \in Nat
    PROVE  /\ Divides(v, 0) /\ \A x : Divides(v, x) => x \in Nat
           /\ \A x, y : Divides(v, x) /\ Divides(v, y) => Divides(v, x + y)
<1>1. Divides(v, 0)
  <2>1. 0 = v * 0
    OBVIOUS
  <2> QED BY <2>1 DEF Divides
<1>2. \A x : Divides(v, x) => x \in Nat
  BY DEF Divides
<1>3. ASSUME NEW x, NEW y, Divides(v, x), Divides(v, y) PROVE Divides(v, x + y)
  <2>1. PICK p \in Nat : x = v * p
    BY <1>3 DEF Divides
  <2>2. PICK q \in Nat : y = v * q
    BY <1>3 DEF Divides
  <2>3. x + y = v * (p + q) /\ p + q \in Nat
    BY <2>1, <2>2
  <2> QED BY <2>3 DEF Divides
<1> QED BY <1>1, <1>2, <1>3

\* Weights that divide, or are 0, have a sum that does; over R alone.
LEMMA LedMultiple ==
    ASSUME NEW g, Counted(g), NEW m, NEW R, NEW S, NEW k, \A n \in R : k[n] \in Nat, NEW v \in Nat,
           \A e \in Out(g, m, R, S) : Divides(Unit * v, k[e.to])
    PROVE  Divides(v, Sum(g, m, {}, R, S, k))
<1>1. {} \cup R = R
  OBVIOUS
<1>2. ASSUME NEW e \in Out(g, m, {} \cup R, S) PROVE Divides(Unit * v, IF e.to \in {} THEN One ELSE k[e.to])
  BY <1>1, <1>2
<1> QED BY <1>2, SumMultiple

\* It holds at the beginning.
LEMMA PathsStart ==
    ASSUME NEW u, Power(u), One = u[Hops], NEW g, Counted(g), NEW A, NEW R, NEW S, NEW rank,
           Descending(rank, g, R, S), NEW p, p.last = Into(g, A, R, S), p.sum = Into(g, A, R, S), Hops >= 2
    PROVE  PathsSoFar(p, 0, rank, u, g, A, R, S)
<1>1. Hops \in Nat /\ Hops \in 1 .. Hops /\ Hops - 1 \in 1 .. Hops
  BY HopsType
<1>2. One = Unit * u[Hops - 1] /\ u[Hops - 1] \in Nat /\ Divides(One, One)
  BY <1>1, PowerDivides
<1>3. ASSUME NEW m \in R PROVE Divides(u[Hops - 1], Into(g, A, R, S)[m])
  <2>1. \A n \in {} : [x \in {} |-> 0][n] \in Nat
    OBVIOUS
  <2>2. ASSUME NEW e \in Out(g, m, A \cup {}, S)
        PROVE Divides(Unit * u[Hops - 1], IF e.to \in A THEN One ELSE [x \in {} |-> 0][e.to])
    <3>1. e.to \in A
      BY DEF Out
    <3> QED BY <1>2, <3>1
  <2>3. Divides(u[Hops - 1], Sum(g, m, A, {}, S, [x \in {} |-> 0]))
    BY <1>2, <2>1, <2>2, SumMultiple
  <2> QED BY <2>3, IntoType
<1>4. \A m \in R : Divides(Unit, Into(g, A, R, S)[m])
  BY <1>1, <1>3, PowerDivides
<1>5. \A m \in R : rank[m] \in Nat
  BY DEF Descending
<1>6. Hops - 1 - 0 = Hops - 1
  BY <1>1
<1> QED BY <1>3, <1>4, <1>5, <1>6 DEF PathsSoFar

\* A step keeps it.
LEMMA PathsStep ==
    ASSUME NEW u, Power(u), NEW g, Counted(g), NEW A, NEW R, IsFiniteSet(R), Cardinality(R) < Hops, NEW S, NEW rank,
           Descending(rank, g, R, S), NEW p \in PathState(R), NEW q, q = PathStep(g, R, S, p),
           NEW i \in 0 .. Cardinality(R) - 1, PathsSoFar(p, i, rank, u, g, A, R, S)
    PROVE  PathsSoFar(q, i + 1, rank, u, g, A, R, S)
<1>1. /\ Hops \in Nat /\ Cardinality(R) \in Nat /\ Hops - 1 - i \in 1 .. Hops /\ (Hops - 1 - i) - 1 = Hops - 1 - (i + 1)
      /\ Unit \in Nat /\ 0 \in Nat
  BY HopsType, FS_CardinalityType, GraphAssumption
<1>2. p.last \in [R -> Nat] /\ p.sum \in [R -> Nat]
  BY DEF PathState
<1>3. q.last \in [R -> Nat] /\ q.sum \in [R -> Nat]
  <2>1. q \in PathState(R)
    BY PathStepType
  <2> QED BY <2>1 DEF PathState
<1>4. \A m \in R : q.last[m] = Sum(g, m, {}, R, S, p.last) /\ q.sum[m] = p.sum[m] + q.last[m]
  BY PathStepType
<1> DEFINE w == u[Hops - 1 - (i + 1)]
<1>5. w \in Nat /\ u[Hops - 1 - i] = Unit * w
  BY <1>1, PowerDivides
<1> HIDE DEF w
<1>6. ASSUME NEW m \in R PROVE Divides(w, q.last[m])
  <2>1. \A e \in Out(g, m, R, S) : e.to \in R
    BY OutType DEF Counted
  <2>2. \A e \in Out(g, m, R, S) : Divides(Unit * w, p.last[e.to])
    BY <1>5, <2>1 DEF PathsSoFar
  <2>3. Divides(w, Sum(g, m, {}, R, S, p.last))
    BY <1>2, <1>5, <2>2, LedMultiple
  <2> QED BY <1>4, <2>3
<1>7. ASSUME NEW m \in R, rank[m] < i + 1 PROVE q.last[m] = 0
  <2>1. \A e \in Out(g, m, R, S) : e.to \in R
    BY OutType DEF Counted
  <2>2. ASSUME NEW e \in Out(g, m, R, S) PROVE Divides(Unit * 0, p.last[e.to])
    <3>1. rank[e.to] < rank[m] /\ rank[e.to] \in Nat /\ rank[m] \in Nat /\ i \in Nat
      BY <2>1 DEF Descending
    <3>2. rank[e.to] < i
      BY <1>7, <3>1
    <3>3. p.last[e.to] = 0
      BY <2>1, <3>2 DEF PathsSoFar
    <3>4. Unit * 0 \in Nat
      BY <1>1
    <3> QED BY <3>3, <3>4, DividesType
  <2>3. Divides(0, Sum(g, m, {}, R, S, p.last))
    BY <1>1, <1>2, <2>2, LedMultiple
  <2>4. Sum(g, m, {}, R, S, p.last) = 0
    BY <2>3 DEF Divides
  <2> QED BY <1>4, <2>4
<1>8. ASSUME NEW m \in R PROVE Divides(Unit, q.last[m])
  <2>1. CASE i + 1 = Cardinality(R)
    <3>1. rank[m] < i + 1
      BY <2>1 DEF Descending
    <3> QED BY <1>1, <1>7, <3>1, DividesType
  <2>2. CASE i + 1 # Cardinality(R)
    <3>1. Hops - 1 - (i + 1) \in 1 .. Hops
      BY <1>1, <2>2
    <3> QED BY <1>6, <3>1, PowerDivides DEF w
  <2> QED BY <2>1, <2>2
<1>9. ASSUME NEW m \in R PROVE Divides(Unit, q.sum[m])
  <2>1. Divides(Unit, p.sum[m])
    BY DEF PathsSoFar
  <2> QED BY <1>1, <1>4, <1>8, <2>1, DividesType
<1>10. ASSUME NEW m \in R
       PROVE  q.sum[m] + Sum(g, m, {}, R, S, q.last) = Into(g, A, R, S)[m] + Sum(g, m, {}, R, S, q.sum)
  <2>1. \A n \in R : Divides(Unit, p.sum[n]) /\ Divides(Unit, q.last[n]) /\ q.sum[n] = p.sum[n] + q.last[n]
    BY <1>4, <1>8 DEF PathsSoFar
  <2>2. Sum(g, m, {}, R, S, q.sum) = Sum(g, m, {}, R, S, p.sum) + Sum(g, m, {}, R, S, q.last)
    BY <2>1, SumAdds
  <2>3. p.sum[m] + q.last[m] = Into(g, A, R, S)[m] + Sum(g, m, {}, R, S, p.sum)
    BY <1>4 DEF PathsSoFar
  <2>4. PICK a \in Nat : a = Sum(g, m, {}, R, S, p.sum)
    BY <1>2, SumIs
  <2>5. PICK b \in Nat : b = Sum(g, m, {}, R, S, q.last)
    BY <1>3, SumIs
  <2>6. PICK d \in Nat : d = Into(g, A, R, S)[m]
    BY IntoType
  <2>7. q.sum[m] = p.sum[m] + q.last[m]
    BY <1>4
  <2>8. q.sum[m] + b = d + (a + b)
    BY <2>3, <2>4, <2>6, <2>7
  <2> QED BY <2>2, <2>4, <2>5, <2>6, <2>8
<1> QED BY <1>6, <1>7, <1>8, <1>9, <1>10 DEF PathsSoFar, w

\* Without a cycle, what a message has of its paths is what its edges into A and
\* what they lead to give it.
LEMMA PathSumFixed ==
    ASSUME NEW g, Counted(g), NEW A, NEW R, IsFiniteSet(R), Cardinality(R) < Hops, NEW S, A \cap R = {}, NEW rank,
           Descending(rank, g, R, S)
    PROVE  /\ PathSum(g, A, R, S) \in [R -> Nat]
           /\ \A m \in R : PathSum(g, A, R, S)[m] = Sum(g, m, A, R, S, PathSum(g, A, R, S))
<1> DEFINE N == Cardinality(R)
           T == PathState(R)
           d == Into(g, A, R, S)
<1>1. N \in Nat /\ Hops \in Nat /\ Unit \in Nat
  BY FS_CardinalityType, HopsType, GraphAssumption
<1>2. PICK p : /\ Run(p, T, [last |-> d, sum |-> d], [y \in T |-> PathStep(g, R, S, y)], N)
               /\ PathSum(g, A, R, S) = p[N].sum
  BY PathSumRun
<1>3. p[0] = [last |-> d, sum |-> d] /\ \A i \in 0 .. N : p[i] \in T
  BY <1>2 DEF Run
<1>4. \A i \in 0 .. N - 1 : p[i + 1] = PathStep(g, R, S, p[i])
  <2>1. \A i \in 0 .. N - 1 : i \in 0 .. N
    BY <1>1
  <2> QED BY <1>2, <1>3, <2>1 DEF Run
<1>5. p[N].sum \in [R -> Nat] /\ p[N].last \in [R -> Nat]
  <2>1. N \in 0 .. N
    BY <1>1
  <2> QED BY <1>3, <2>1 DEF PathState
<1>6. ASSUME NEW m \in R PROVE p[N].sum[m] = Sum(g, m, A, R, S, p[N].sum)
  <2>1. N >= 1 /\ Hops >= 2
    <3>1. N # 0
      BY FS_EmptySet
    <3> QED BY <1>1, <3>1
  <2>2. PICK u : Power(u) /\ One = u[Hops]
    BY Powers
  <2> DEFINE W == {i \in 0 .. N : PathsSoFar(p[i], i, rank, u, g, A, R, S)}
  <2>3. 0 \in W
    <3>1. p[0].last = d /\ p[0].sum = d
      BY <1>3
    <3>2. PathsSoFar(p[0], 0, rank, u, g, A, R, S)
      BY <2>1, <2>2, <3>1, PathsStart
    <3> QED BY <1>1, <3>2
  <2>4. ASSUME NEW i \in 0 .. N - 1, i \in W PROVE i + 1 \in W
    <3>1. p[i] \in PathState(R) /\ p[i + 1] = PathStep(g, R, S, p[i]) /\ PathsSoFar(p[i], i, rank, u, g, A, R, S)
      BY <1>3, <1>4, <2>4
    <3>2. PathsSoFar(p[i + 1], i + 1, rank, u, g, A, R, S)
      BY <2>2, <3>1, PathsStep
    <3> QED BY <1>1, <3>2
  <2> HIDE DEF W
  <2>5. 0 .. N \subseteq W
    BY <1>1, <2>3, <2>4, UpTo
  <2>6. PathsSoFar(p[N], N, rank, u, g, A, R, S)
    BY <1>1, <2>5 DEF W
  <2>7. \A n \in R : p[N].last[n] = 0
    BY <2>6 DEF PathsSoFar, Descending
  <2>8. Sum(g, m, {}, R, S, p[N].last) = 0
    <3>1. \A e \in Out(g, m, R, S) : e.to \in R
      BY OutType DEF Counted
    <3>2. Unit * 0 \in Nat /\ 0 \in Nat
      BY <1>1
    <3>3. \A e \in Out(g, m, R, S) : Divides(Unit * 0, p[N].last[e.to])
      BY <2>7, <3>1, <3>2, DividesType
    <3>4. Divides(0, Sum(g, m, {}, R, S, p[N].last))
      BY <1>5, <3>2, <3>3, LedMultiple
    <3> QED BY <3>4 DEF Divides
  <2>9. p[N].sum[m] = d[m] + Sum(g, m, {}, R, S, p[N].sum)
    <3>1. p[N].sum[m] + Sum(g, m, {}, R, S, p[N].last) = d[m] + Sum(g, m, {}, R, S, p[N].sum)
      BY <2>6 DEF PathsSoFar
    <3>2. p[N].sum[m] \in Nat
      BY <1>5
    <3> QED BY <2>8, <3>1, <3>2
  <2>10. Sum(g, m, A, R, S, p[N].sum) = Sum(g, m, A, {}, S, [n \in {} |-> 0]) + Sum(g, m, {}, R, S, p[N].sum)
    <3>1. PICK z : z = [n \in {} |-> 0]
      OBVIOUS
    <3>2. PICK k : k = p[N].sum
      OBVIOUS
    <3>3. \A n \in R : k[n] \in Nat
      BY <1>5, <3>2
    <3>4. Sum(g, m, A, R, S, k) = Sum(g, m, A, {}, S, z) + Sum(g, m, {}, R, S, k)
      BY <3>3, SumSplits
    <3> QED BY <3>1, <3>2, <3>4
  <2>11. d[m] = Sum(g, m, A, {}, S, [n \in {} |-> 0])
    BY IntoType
  <2> QED BY <2>9, <2>10, <2>11
<1> QED BY <1>2, <1>5, <1>6
-----------------------------------------------------------------------------
(* A graph without a cycle has a rank.                                     *)

\* What m contributed to in R, and what the members of X did.
Ends(g, m, R, S)    == {e.to : e \in Out(g, m, R, S)}
AllEnds(g, X, R, S) == {e.to : e \in UNION {Out(g, x, R, S) : x \in X}}
KeepsEnds(Y, g, R, S) == \A y \in Y : Ends(g, y, R, S) \subseteq Y

\* They are messages of R.
LEMMA AllEndsType ==
    ASSUME NEW g, NEW X, NEW R, NEW S
    PROVE  /\ AllEnds(g, X, R, S) \subseteq R
           /\ \A x \in X : Ends(g, x, R, S) \subseteq AllEnds(g, X, R, S)
           /\ \A y \in AllEnds(g, X, R, S) : \E x \in X : y \in Ends(g, x, R, S)
<1>1. \A x \in X : \A e \in Out(g, x, R, S) : e.to \in R
  BY DEF Out
<1>2. AllEnds(g, X, R, S) \subseteq R
  BY <1>1 DEF AllEnds
<1>3. \A x \in X : Ends(g, x, R, S) \subseteq AllEnds(g, X, R, S)
  BY DEF Ends, AllEnds
<1>4. \A y \in AllEnds(g, X, R, S) : \E x \in X : y \in Ends(g, x, R, S)
  BY DEF Ends, AllEnds
<1> QED BY <1>2, <1>3, <1>4

\* Descendants is a run that adds what its members contributed to.
LEMMA DescendantsRun ==
    ASSUME NEW g, NEW R, IsFiniteSet(R), NEW S, NEW m
    PROVE  \E h : /\ h[0] = Ends(g, m, R, S) /\ \A i \in 0 .. Cardinality(R) : h[i] \subseteq R
                  /\ \A i \in 0 .. Cardinality(R) - 1 : h[i + 1] = h[i] \cup AllEnds(g, h[i], R, S)
                  /\ Descendants(g, m, R, S) = h[Cardinality(R)]
<1> DEFINE T     == SUBSET R
           N     == Cardinality(R)
           v     == Ends(g, m, R, S)
           Op(X) == X \cup AllEnds(g, X, R, S)
           next  == [X \in T |-> Op(X)]
           P(u)  == u = [i \in 0 .. N |-> IF i = 0 THEN v ELSE Op(u[i - 1])]
<1>1. Descendants(g, m, R, S) = (CHOOSE u : P(u))[N]
  BY Zenon DEF Descendants, Iterate, Ends, AllEnds
<1>2. v \in T
  BY DEF Ends, Out
<1>o. \A X \in T : Op(X) \in T
  BY AllEndsType
<1> HIDE DEF Op, v, T
<1>3. N \in Nat /\ next \in [T -> T] /\ \A y \in T : next[y] = Op(y)
  BY <1>o, FS_CardinalityType
<1> HIDE DEF next, N
<1>s. PICK f : Stepping(f, T, v, next, N)
  BY <1>2, <1>3, RunExists
<1>4. f \in [0 .. N -> T] /\ \A i \in 0 .. N : f[i] = IF i = 0 THEN v ELSE next[f[i - 1]]
  BY <1>s DEF Stepping
<1>5. P(f)
  <2>1. ASSUME NEW i \in 0 .. N PROVE f[i] = IF i = 0 THEN v ELSE Op(f[i - 1])
    <3>1. i # 0 => i - 1 \in 0 .. N
      BY <1>3
    <3> QED BY <1>3, <1>4, <3>1
  <2> QED BY <1>4, <2>1
<1>6. PICK h : h = CHOOSE u : P(u)
  OBVIOUS
<1> HIDE DEF P
<1>7. P(h)
  BY <1>5, <1>6
<1> USE DEF P
<1>8. h[0] = v /\ \A i \in 0 .. N - 1 : h[i + 1] = Op(h[i])
  BY <1>3, <1>7
<1>9. Run(h, T, v, next, N)
  BY <1>2, <1>3, <1>8, RunFits
<1>10. \A i \in 0 .. N : h[i] \in T
  BY <1>3, <1>9 DEF Run
<1> QED BY <1>1, <1>6, <1>8, <1>10 DEF T, v, N, Op

\* They are the least set that holds what m contributed to and keeps it.
LEMMA DescendantsLeast ==
    ASSUME NEW g, NEW R, IsFiniteSet(R), NEW S, NEW m
    PROVE  /\ Descendants(g, m, R, S) \subseteq R /\ Ends(g, m, R, S) \subseteq Descendants(g, m, R, S)
           /\ KeepsEnds(Descendants(g, m, R, S), g, R, S)
           /\ \A Y : Ends(g, m, R, S) \subseteq Y /\ KeepsEnds(Y, g, R, S) => Descendants(g, m, R, S) \subseteq Y
<1>0. PICK D : D = Descendants(g, m, R, S)
  OBVIOUS
<1> DEFINE N == Cardinality(R)
<1>1. N \in Nat
  BY FS_CardinalityType
<1>2. PICK h : /\ h[0] = Ends(g, m, R, S) /\ \A i \in 0 .. N : h[i] \subseteq R
               /\ \A i \in 0 .. N - 1 : h[i + 1] = h[i] \cup AllEnds(g, h[i], R, S)
               /\ D = h[N]
  BY <1>0, DescendantsRun
<1>3. Ends(g, m, R, S) \subseteq h[N]
  <2> DEFINE W == {i \in 0 .. N : Ends(g, m, R, S) \subseteq h[i]}
  <2>1. 0 \in W
    BY <1>1, <1>2
  <2>2. ASSUME NEW i \in 0 .. N - 1, i \in W PROVE i + 1 \in W
    <3>1. i + 1 \in 0 .. N
      BY <1>1
    <3> QED BY <1>2, <2>2, <3>1
  <2> HIDE DEF W
  <2>3. 0 .. N \subseteq W
    BY <1>1, <2>1, <2>2, UpTo
  <2> QED BY <1>1, <2>3 DEF W
<1>4. ASSUME NEW Y, Ends(g, m, R, S) \subseteq Y, KeepsEnds(Y, g, R, S) PROVE h[N] \subseteq Y
  <2> DEFINE W == {i \in 0 .. N : h[i] \subseteq Y}
  <2>1. 0 \in W
    BY <1>1, <1>2, <1>4
  <2>2. ASSUME NEW i \in 0 .. N - 1, i \in W PROVE i + 1 \in W
    <3>1. i + 1 \in 0 .. N
      BY <1>1
    <3>2. AllEnds(g, h[i], R, S) \subseteq Y
      <4>1. ASSUME NEW y \in AllEnds(g, h[i], R, S) PROVE y \in Y
        <5>1. PICK x \in h[i] : y \in Ends(g, x, R, S)
          BY <4>1, AllEndsType
        <5> QED BY <1>4, <2>2, <5>1 DEF KeepsEnds
      <4> QED BY <4>1
    <3> QED BY <1>2, <2>2, <3>1, <3>2
  <2> HIDE DEF W
  <2>3. 0 .. N \subseteq W
    BY <1>1, <2>1, <2>2, UpTo
  <2> QED BY <1>1, <2>3 DEF W
<1>5. KeepsEnds(h[N], g, R, S)
  <2> DEFINE W == {i \in 0 .. N : KeepsEnds(h[i], g, R, S) \/ Cardinality(h[i]) >= i}
  <2>0. \A i \in 0 .. N : IsFiniteSet(h[i]) /\ Cardinality(h[i]) \in Nat
    BY <1>2, FS_Subset, FS_CardinalityType
  <2>1. 0 \in W
    BY <1>1, <2>0
  <2>2. ASSUME NEW i \in 0 .. N - 1, i \in W PROVE i + 1 \in W
    <3>1. i \in 0 .. N /\ i + 1 \in 0 .. N /\ h[i + 1] = h[i] \cup AllEnds(g, h[i], R, S)
      BY <1>1, <1>2
    <3>2. CASE KeepsEnds(h[i], g, R, S)
      <4>1. AllEnds(g, h[i], R, S) \subseteq h[i]
        <5>1. ASSUME NEW y \in AllEnds(g, h[i], R, S) PROVE y \in h[i]
          <6>1. PICK x \in h[i] : y \in Ends(g, x, R, S)
            BY <5>1, AllEndsType
          <6> QED BY <3>2, <6>1 DEF KeepsEnds
        <5> QED BY <5>1
      <4>2. h[i + 1] = h[i]
        BY <3>1, <4>1
      <4> QED BY <3>1, <3>2, <4>2
    <3>3. CASE ~KeepsEnds(h[i], g, R, S)
      <4>0. PICK x \in h[i] : ~(Ends(g, x, R, S) \subseteq h[i])
        BY <3>3 DEF KeepsEnds
      <4>1. PICK y \in Ends(g, x, R, S) : y \notin h[i]
        BY <4>0
      <4>2. y \in h[i + 1]
        BY <3>1, <4>1, AllEndsType
      <4>3. Cardinality(h[i] \cup {y}) = Cardinality(h[i]) + 1
        BY <2>0, <3>1, <4>1, FS_AddElement
      <4>4. Cardinality(h[i] \cup {y}) <= Cardinality(h[i + 1])
        BY <2>0, <3>1, <4>2, FS_Subset
      <4>5. Cardinality(h[i]) >= i
        BY <2>2, <3>3
      <4>6. Cardinality(h[i + 1]) >= i + 1
        <5>1. PICK a \in Nat : a = Cardinality(h[i])
          BY <2>0, <3>1
        <5>2. PICK b \in Nat : b = Cardinality(h[i + 1])
          BY <2>0, <3>1
        <5>3. a + 1 <= b /\ a >= i
          BY <4>3, <4>4, <4>5, <5>1, <5>2
        <5>4. b >= i + 1
          BY <5>3
        <5> QED BY <5>2, <5>4
      <4> QED BY <3>1, <4>6
    <3> QED BY <3>2, <3>3
  <2> HIDE DEF W
  <2>3. 0 .. N \subseteq W
    BY <1>1, <2>1, <2>2, UpTo
  <2>4. KeepsEnds(h[N], g, R, S) \/ Cardinality(h[N]) >= N
    BY <1>1, <2>3 DEF W
  <2>5. ASSUME Cardinality(h[N]) >= N PROVE KeepsEnds(h[N], g, R, S)
    <3>1. h[N] \subseteq R
      BY <1>1, <1>2
    <3>2. h[N] = R
      <4>1. Cardinality(h[N]) <= N /\ Cardinality(h[N]) \in Nat
        BY <1>1, <2>0, <3>1, FS_Subset
      <4>2. Cardinality(h[N]) = N
        BY <1>1, <2>5, <4>1
      <4> QED BY <3>1, <4>2, FS_Subset
    <3> QED BY <3>2 DEF KeepsEnds, Ends, Out
  <2> QED BY <2>4, <2>5
<1>6. h[N] \subseteq R
  BY <1>1, <1>2
<1> QED BY <1>0, <1>2, <1>3, <1>4, <1>5, <1>6

\* How many descendants a message has is such a rank.
LEMMA AcyclicRank ==
    ASSUME NEW g, NEW R, IsFiniteSet(R), NEW S, Acyclic(g, R, S)
    PROVE  \E rank : Descending(rank, g, R, S)
<1> DEFINE rank == [m \in R |-> Cardinality(Descendants(g, m, R, S))]
<1>1. ASSUME NEW m \in R
      PROVE  /\ Descendants(g, m, R, S) \subseteq R /\ m \notin Descendants(g, m, R, S)
             /\ Ends(g, m, R, S) \subseteq Descendants(g, m, R, S) /\ KeepsEnds(Descendants(g, m, R, S), g, R, S)
             /\ \A Y : Ends(g, m, R, S) \subseteq Y /\ KeepsEnds(Y, g, R, S) => Descendants(g, m, R, S) \subseteq Y
  BY DescendantsLeast DEF Acyclic
<1>2. ASSUME NEW m \in R
      PROVE  /\ IsFiniteSet(Descendants(g, m, R, S)) /\ Cardinality(Descendants(g, m, R, S)) \in Nat
             /\ Cardinality(Descendants(g, m, R, S)) < Cardinality(R)
  <2>1. IsFiniteSet(Descendants(g, m, R, S))
    BY <1>1, FS_Subset
  <2>2. Descendants(g, m, R, S) # R
    BY <1>1
  <2>3. Cardinality(Descendants(g, m, R, S)) <= Cardinality(R) /\ Cardinality(Descendants(g, m, R, S)) # Cardinality(R)
    BY <1>1, <2>2, FS_Subset
  <2>4. Cardinality(Descendants(g, m, R, S)) \in Nat /\ Cardinality(R) \in Nat
    BY <2>1, FS_CardinalityType
  <2> QED BY <2>1, <2>3, <2>4
<1>3. ASSUME NEW m \in R, NEW e \in Out(g, m, R, S) PROVE rank[e.to] < rank[m]
  <2>1. PICK x : x = e.to
    OBVIOUS
  <2>2. x \in R /\ x \in Ends(g, m, R, S)
    BY <2>1 DEF Out, Ends
  <2>3. x \in Descendants(g, m, R, S)
    BY <1>1, <2>2
  <2>4. Ends(g, x, R, S) \subseteq Descendants(g, m, R, S)
    BY <1>1, <2>3 DEF KeepsEnds
  <2>5. Descendants(g, x, R, S) \subseteq Descendants(g, m, R, S)
    BY <1>1, <2>2, <2>4
  <2>6. Descendants(g, x, R, S) # Descendants(g, m, R, S)
    BY <1>1, <2>2, <2>3
  <2>7. /\ Cardinality(Descendants(g, x, R, S)) <= Cardinality(Descendants(g, m, R, S))
        /\ Cardinality(Descendants(g, x, R, S)) # Cardinality(Descendants(g, m, R, S))
    BY <1>2, <2>5, <2>6, FS_Subset
  <2>8. rank[x] = Cardinality(Descendants(g, x, R, S)) /\ rank[m] = Cardinality(Descendants(g, m, R, S))
    BY <2>2
  <2>9. Cardinality(Descendants(g, x, R, S)) \in Nat /\ Cardinality(Descendants(g, m, R, S)) \in Nat
    BY <1>2, <2>2
  <2> QED BY <2>1, <2>7, <2>8, <2>9
<1>4. rank \in [R -> Nat] /\ \A m \in R : rank[m] < Cardinality(R)
  BY <1>2
<1> HIDE DEF rank
<1>5. Descending(rank, g, R, S)
  BY <1>3, <1>4 DEF Descending
<1> QED BY <1>5
-----------------------------------------------------------------------------
(* The masses of the walk.                                                 *)

\* Masses of some of the messages of R.
Masses(R) == UNION {[X -> Nat] : X \in SUBSET R}

\* The mass of x joins those there are, at the sum of what they give it.
Finalized(mass, x, g, A, R, S, mass2) ==
    /\ DOMAIN mass2 = DOMAIN mass \cup {x} /\ \A n \in DOMAIN mass : mass2[n] = mass[n]
    /\ mass2[x] = Sum(g, x, A, R, S, [n \in R |-> IF n \in DOMAIN mass THEN mass[n] ELSE 0])

\* A message more has its mass.
LEMMA MassesType ==
    ASSUME NEW R, NEW f
    PROVE  f \in Masses(R) <=> f = [n \in DOMAIN f |-> f[n]] /\ DOMAIN f \subseteq R /\ \A n \in DOMAIN f : f[n] \in Nat
<1>1. ASSUME f \in Masses(R)
      PROVE  f = [n \in DOMAIN f |-> f[n]] /\ DOMAIN f \subseteq R /\ \A n \in DOMAIN f : f[n] \in Nat
  <2>1. PICK X \in SUBSET R : f \in [X -> Nat]
    BY <1>1 DEF Masses
  <2> QED BY <2>1
<1>2. ASSUME f = [n \in DOMAIN f |-> f[n]], DOMAIN f \subseteq R, \A n \in DOMAIN f : f[n] \in Nat
      PROVE  f \in Masses(R)
  <2>1. f \in [DOMAIN f -> Nat]
    BY <1>2
  <2> QED BY <1>2, <2>1 DEF Masses
<1> QED BY <1>1, <1>2

\* A message whose successors are final is final.
LEMMA FinalizeType ==
    ASSUME NEW g, Counted(g), NEW A, NEW R, R \subseteq Messages, NEW S, NEW mass \in Masses(R), NEW x \in R \ DOMAIN mass
    PROVE  /\ Finalize(g, x, A, R, S, mass) \in Masses(R)
           /\ Finalized(mass, x, g, A, R, S, Finalize(g, x, A, R, S, mass))
<1>1. DOMAIN mass \subseteq R /\ \A n \in DOMAIN mass : mass[n] \in Nat
  BY MassesType
<1>2. PICK known : known = [n \in R |-> IF n \in DOMAIN mass THEN mass[n] ELSE 0]
  OBVIOUS
<1>3. \A n \in R : known[n] \in Nat
  BY <1>1, <1>2
<1>4. PICK value \in Nat : value = Sum(g, x, A, R, S, known)
  BY <1>3, SumIs
<1>5. PICK f : f = Finalize(g, x, A, R, S, mass)
  OBVIOUS
<1>6. f = [n \in DOMAIN mass \cup {x} |-> IF n = x THEN value ELSE mass[n]]
  BY <1>2, <1>4, <1>5, Zenon DEF Finalize
<1>7. DOMAIN f = DOMAIN mass \cup {x} /\ f[x] = value /\ \A n \in DOMAIN mass : f[n] = mass[n]
  BY <1>6
<1>8. f = [n \in DOMAIN f |-> f[n]] /\ DOMAIN f \subseteq R /\ \A n \in DOMAIN f : f[n] \in Nat
  BY <1>1, <1>6, <1>7
<1>9. f \in Masses(R)
  BY <1>8, MassesType
<1>10. Finalized(mass, x, g, A, R, S, f)
  BY <1>2, <1>4, <1>7 DEF Finalized
<1> QED BY <1>5, <1>9, <1>10

\* A step of the queue, and of what it left over.
DrainStep(g, A, R, S, mass) ==
    IF Ready(g, R, S, mass) = {} THEN mass ELSE Finalize(g, Min(Ready(g, R, S, mass)), A, R, S, mass)

\* So is one the drain takes.
LEMMA DrainType ==
    ASSUME NEW g, Counted(g), NEW A, NEW R, R \subseteq Messages, NEW S, NEW mass \in Masses(R)
    PROVE  /\ DrainStep(g, A, R, S, mass) \in Masses(R)
           /\ Ready(g, R, S, mass) # {} =>
                \E x \in Ready(g, R, S, mass) : Finalized(mass, x, g, A, R, S, DrainStep(g, A, R, S, mass))
           /\ Ready(g, R, S, mass) = {} => DrainStep(g, A, R, S, mass) = mass
<1>1. CASE Ready(g, R, S, mass) = {}
  BY <1>1 DEF DrainStep
<1>2. CASE Ready(g, R, S, mass) # {}
  <2>1. Ready(g, R, S, mass) \subseteq R
    BY DEF Ready
  <2>2. Ready(g, R, S, mass) \subseteq Nat /\ IsFiniteSet(Ready(g, R, S, mass))
    <3>1. Ready(g, R, S, mass) \subseteq Messages
      BY <2>1
    <3> QED BY <3>1, GraphAssumption, FS_Subset
  <2>3. PICK x : x = Min(Ready(g, R, S, mass))
    OBVIOUS
  <2>4. x \in Ready(g, R, S, mass)
    BY <1>2, <2>2, <2>3, MinType
  <2>5. x \in R \ DOMAIN mass
    BY <2>4 DEF Ready
  <2>6. DrainStep(g, A, R, S, mass) = Finalize(g, x, A, R, S, mass)
    BY <1>2, <2>3 DEF DrainStep
  <2> QED BY <1>2, <2>4, <2>5, <2>6, FinalizeType
<1> QED BY <1>1, <1>2

\* And one it left over.
LEMMA LeftoverType ==
    ASSUME NEW g, Counted(g), NEW A, NEW R, R \subseteq Messages, NEW S, NEW mass \in Masses(R)
    PROVE  /\ Leftover(g, A, R, S, mass) \in Masses(R)
           /\ R # DOMAIN mass =>
                \E x \in R \ DOMAIN mass : Finalized(mass, x, g, A, R, S, Leftover(g, A, R, S, mass))
           /\ R = DOMAIN mass => Leftover(g, A, R, S, mass) = mass
<1>1. CASE R = DOMAIN mass
  BY <1>1 DEF Leftover
<1>2. CASE R # DOMAIN mass
  <2>1. R \ DOMAIN mass # {}
    BY <1>2, MassesType
  <2>2. R \ DOMAIN mass \subseteq Nat /\ IsFiniteSet(R \ DOMAIN mass)
    <3>1. R \ DOMAIN mass \subseteq Messages
      OBVIOUS
    <3> QED BY <3>1, GraphAssumption, FS_Subset
  <2>3. PICK x : x = Min(R \ DOMAIN mass)
    OBVIOUS
  <2>4. x \in R \ DOMAIN mass
    BY <2>1, <2>2, <2>3, MinType
  <2>5. Leftover(g, A, R, S, mass) = Finalize(g, x, A, R, S, mass)
    BY <1>2, <2>3 DEF Leftover
  <2> QED BY <1>2, <2>4, <2>5, FinalizeType
<1> QED BY <1>1, <1>2

\* The queue is a run of such steps from no masses.
Drains(h, g, A, R, S) ==
    /\ DOMAIN h[0] = {} /\ \A i \in 0 .. Cardinality(R) : h[i] \in Masses(R)
    /\ \A i \in 0 .. Cardinality(R) - 1 : h[i + 1] = DrainStep(g, A, R, S, h[i])
    /\ Drain(g, A, R, S) = h[Cardinality(R)]

\* The drain is a run of its steps.
LEMMA DrainRun ==
    ASSUME NEW g, Counted(g), NEW A, NEW R, R \subseteq Messages, NEW S
    PROVE  \E h : Drains(h, g, A, R, S)
<1> DEFINE T == Masses(R)
           N == Cardinality(R)
           v == [n \in {} |-> 0]
           Op(y) == DrainStep(g, A, R, S, y)
           next == [y \in T |-> Op(y)]
           P(u) == u = [i \in 0 .. N |-> IF i = 0 THEN v ELSE Op(u[i - 1])]
<1>0. IsFiniteSet(R)
  BY GraphAssumption, FS_Subset
<1>1. Drain(g, A, R, S) = (CHOOSE u : P(u))[N]
  BY Zenon DEF Drain, Iterate, DrainStep
<1>2. v \in T /\ DOMAIN v = {}
  BY MassesType
<1>o. \A y \in T : Op(y) \in T
  BY DrainType
<1> HIDE DEF Op, v, T
<1>3. N \in Nat /\ next \in [T -> T] /\ \A y \in T : next[y] = Op(y)
  BY <1>0, <1>o, FS_CardinalityType
<1> HIDE DEF next, N
<1>s. PICK f : Stepping(f, T, v, next, N)
  BY <1>2, <1>3, RunExists
<1>4. f \in [0 .. N -> T] /\ \A i \in 0 .. N : f[i] = IF i = 0 THEN v ELSE next[f[i - 1]]
  BY <1>s DEF Stepping
<1>5. P(f)
  <2>1. ASSUME NEW i \in 0 .. N PROVE f[i] = IF i = 0 THEN v ELSE Op(f[i - 1])
    <3>1. i # 0 => i - 1 \in 0 .. N
      BY <1>3
    <3> QED BY <1>3, <1>4, <3>1
  <2> QED BY <1>4, <2>1
<1>6. PICK h : h = CHOOSE u : P(u)
  OBVIOUS
<1> HIDE DEF P
<1>7. P(h)
  BY <1>5, <1>6
<1> USE DEF P
<1>8. h[0] = v /\ \A i \in 0 .. N - 1 : h[i + 1] = Op(h[i])
  BY <1>3, <1>7
<1>9. Run(h, T, v, next, N)
  BY <1>2, <1>3, <1>8, RunFits
<1>10. \A i \in 0 .. N : h[i] \in T
  BY <1>3, <1>9 DEF Run
<1>11. Drains(h, g, A, R, S)
  BY <1>1, <1>2, <1>6, <1>8, <1>10 DEF T, N, Op, Drains
<1> QED BY <1>11

\* The masses are a run of what is left over, from what the queue gave.
LEMMA LeftoverRun ==
    ASSUME NEW g, Counted(g), NEW A, NEW S, NEW R, R = Reach(g, A, S), R \subseteq Messages,
           Drain(g, A, R, S) \in Masses(R)
    PROVE  \E h : /\ h[0] = Drain(g, A, R, S) /\ \A i \in 0 .. Cardinality(R) : h[i] \in Masses(R)
                  /\ \A i \in 0 .. Cardinality(R) - 1 : h[i + 1] = Leftover(g, A, R, S, h[i])
                  /\ Mass(g, A, S) = h[Cardinality(R)]
<1> DEFINE T == Masses(R)
           N == Cardinality(R)
           v == Drain(g, A, R, S)
           Op(y) == Leftover(g, A, R, S, y)
           next == [y \in T |-> Op(y)]
           P(u) == u = [i \in 0 .. N |-> IF i = 0 THEN v ELSE Op(u[i - 1])]
<1>0. IsFiniteSet(R)
  BY GraphAssumption, FS_Subset
<1>1. Mass(g, A, S) = (CHOOSE u : P(u))[N]
  BY Zenon DEF Mass, Iterate
<1>2. v \in T
  OBVIOUS
<1>o. \A y \in T : Op(y) \in T
  BY LeftoverType
<1> HIDE DEF Op, v, T
<1>3. N \in Nat /\ next \in [T -> T] /\ \A y \in T : next[y] = Op(y)
  BY <1>0, <1>o, FS_CardinalityType
<1> HIDE DEF next, N
<1>s. PICK f : Stepping(f, T, v, next, N)
  BY <1>2, <1>3, RunExists
<1>4. f \in [0 .. N -> T] /\ \A i \in 0 .. N : f[i] = IF i = 0 THEN v ELSE next[f[i - 1]]
  BY <1>s DEF Stepping
<1>5. P(f)
  <2>1. ASSUME NEW i \in 0 .. N PROVE f[i] = IF i = 0 THEN v ELSE Op(f[i - 1])
    <3>1. i # 0 => i - 1 \in 0 .. N
      BY <1>3
    <3> QED BY <1>3, <1>4, <3>1
  <2> QED BY <1>4, <2>1
<1>6. PICK h : h = CHOOSE u : P(u)
  OBVIOUS
<1> HIDE DEF P
<1>7. P(h)
  BY <1>5, <1>6
<1> USE DEF P
<1>8. h[0] = v /\ \A i \in 0 .. N - 1 : h[i + 1] = Op(h[i])
  BY <1>3, <1>7
<1>9. Run(h, T, v, next, N)
  BY <1>2, <1>3, <1>8, RunFits
<1>10. \A i \in 0 .. N : h[i] \in T
  BY <1>3, <1>9 DEF Run
<1> QED BY <1>1, <1>6, <1>8, <1>10 DEF T, N, Op, v

\* Sets that gain a member of R until they have all have them after |R| steps.
LEMMA FillsUp ==
    ASSUME NEW R, IsFiniteSet(R), NEW X, \A i \in 0 .. Cardinality(R) : X[i] \subseteq R,
           \A i \in 0 .. Cardinality(R) - 1 :
              IF X[i] = R THEN X[i + 1] = R ELSE \E x \in R \ X[i] : X[i + 1] = X[i] \cup {x}
    PROVE  X[Cardinality(R)] = R
<1>0. PICK N : N = Cardinality(R)
  OBVIOUS
<1>1. N \in Nat
  BY <1>0, FS_CardinalityType
<1> DEFINE W == {i \in 0 .. N : Cardinality(X[i]) >= i}
<1>2. \A i \in 0 .. N : IsFiniteSet(X[i]) /\ Cardinality(X[i]) \in Nat
  BY <1>0, FS_Subset, FS_CardinalityType
<1>3. 0 \in W
  BY <1>1, <1>2
<1>4. ASSUME NEW i \in 0 .. N - 1, i \in W PROVE i + 1 \in W
  <2>1. i \in 0 .. N /\ i + 1 \in 0 .. N
    BY <1>1
  <2>2. CASE X[i] = R
    <3>1. X[i + 1] = R
      BY <1>0, <2>2
    <3> QED BY <1>0, <2>1, <3>1
  <2>3. CASE X[i] # R
    <3>1. PICK x \in R \ X[i] : X[i + 1] = X[i] \cup {x}
      BY <1>0, <2>3
    <3>2. Cardinality(X[i + 1]) = Cardinality(X[i]) + 1
      BY <1>2, <2>1, <3>1, FS_AddElement
    <3>3. Cardinality(X[i]) >= i /\ Cardinality(X[i]) \in Nat
      BY <1>2, <1>4, <2>1
    <3>4. Cardinality(X[i + 1]) >= i + 1
      BY <3>2, <3>3
    <3> QED BY <2>1, <3>4
  <2> QED BY <2>2, <2>3
<1> HIDE DEF W
<1>5. 0 .. N \subseteq W
  BY <1>1, <1>3, <1>4, UpTo
<1>6. Cardinality(X[N]) >= N
  BY <1>1, <1>5 DEF W
<1>7. X[N] \subseteq R
  BY <1>0, <1>1
<1>8. Cardinality(X[N]) <= N /\ Cardinality(X[N]) \in Nat
  BY <1>0, <1>1, <1>2, <1>7, FS_Subset
<1>9. Cardinality(X[N]) = Cardinality(R)
  BY <1>0, <1>1, <1>6, <1>8
<1> QED BY <1>0, <1>7, <1>9, FS_Subset

\* Every message the walk reached gets a mass; what the queue gave stays if it
\* gave all of them theirs.
LEMMA MassDomain ==
    ASSUME NEW g, Counted(g), NEW A, NEW S, NEW R, R = Reach(g, A, S), R \subseteq Messages,
           Drain(g, A, R, S) \in Masses(R)
    PROVE  /\ Mass(g, A, S) \in Masses(R) /\ DOMAIN Mass(g, A, S) = R
           /\ DOMAIN Drain(g, A, R, S) = R => Mass(g, A, S) = Drain(g, A, R, S)
<1> DEFINE N == Cardinality(R)
<1>0. PICK M : M = Mass(g, A, S)
  OBVIOUS
<1>1. IsFiniteSet(R) /\ N \in Nat
  BY GraphAssumption, FS_Subset, FS_CardinalityType
<1>2. PICK h : /\ h[0] = Drain(g, A, R, S) /\ \A i \in 0 .. N : h[i] \in Masses(R)
               /\ \A i \in 0 .. N - 1 : h[i + 1] = Leftover(g, A, R, S, h[i])
               /\ M = h[N]
  BY <1>0, LeftoverRun
<1>3. \A i \in 0 .. N : DOMAIN h[i] \subseteq R
  BY <1>2, MassesType
<1>4. ASSUME NEW i \in 0 .. N - 1
      PROVE  IF DOMAIN h[i] = R THEN h[i + 1] = h[i]
             ELSE \E x \in R \ DOMAIN h[i] : DOMAIN h[i + 1] = DOMAIN h[i] \cup {x}
  <2>1. h[i] \in Masses(R) /\ h[i + 1] = Leftover(g, A, R, S, h[i])
    BY <1>1, <1>2
  <2>2. CASE DOMAIN h[i] = R
    BY <2>1, <2>2, LeftoverType
  <2>3. CASE DOMAIN h[i] # R
    <3>1. PICK x \in R \ DOMAIN h[i] : Finalized(h[i], x, g, A, R, S, h[i + 1])
      BY <2>1, <2>3, LeftoverType
    <3>2. DOMAIN h[i + 1] = DOMAIN h[i] \cup {x}
      BY <3>1 DEF Finalized
    <3> QED BY <2>3, <3>2
  <2> QED BY <2>2, <2>3
<1>5. DOMAIN h[N] = R
  <2> DEFINE X == [i \in 0 .. N |-> DOMAIN h[i]]
  <2>1. \A i \in 0 .. N : X[i] \subseteq R
    BY <1>3
  <2>2. ASSUME NEW i \in 0 .. N - 1
        PROVE IF X[i] = R THEN X[i + 1] = R ELSE \E x \in R \ X[i] : X[i + 1] = X[i] \cup {x}
    <3>1. i \in 0 .. N /\ i + 1 \in 0 .. N
      BY <1>1
    <3>2. X[i] = DOMAIN h[i] /\ X[i + 1] = DOMAIN h[i + 1]
      BY <3>1
    <3> QED BY <1>4, <3>2
  <2>3. X[N] = DOMAIN h[N]
    BY <1>1
  <2> HIDE DEF X
  <2>4. X[N] = R
    BY <1>1, <2>1, <2>2, FillsUp
  <2> QED BY <2>3, <2>4
<1>6. ASSUME DOMAIN h[0] = R PROVE h[N] = h[0]
  <2> DEFINE W == {i \in 0 .. N : h[i] = h[0]}
  <2>1. 0 \in W
    BY <1>1
  <2>2. ASSUME NEW i \in 0 .. N - 1, i \in W PROVE i + 1 \in W
    <3>1. h[i + 1] = h[i]
      BY <1>4, <1>6, <2>2
    <3> QED BY <1>1, <2>2, <3>1
  <2> HIDE DEF W
  <2>3. 0 .. N \subseteq W
    BY <1>1, <2>1, <2>2, UpTo
  <2> QED BY <1>1, <2>3 DEF W
<1>7. h[N] \in Masses(R)
  BY <1>1, <1>2
<1> QED BY <1>0, <1>2, <1>5, <1>6, <1>7

\* What the queue gives is masses of messages reached.
LEMMA DrainMasses ==
    ASSUME NEW g, Counted(g), NEW A, NEW R, R \subseteq Messages, NEW S
    PROVE  Drain(g, A, R, S) \in Masses(R)
<1> DEFINE N == Cardinality(R)
<1>1. IsFiniteSet(R)
  BY GraphAssumption, FS_Subset
<1>2. N \in Nat
  BY <1>1, FS_CardinalityType
<1>3. PICK h : /\ DOMAIN h[0] = {} /\ \A i \in 0 .. N : h[i] \in Masses(R)
               /\ \A i \in 0 .. N - 1 : h[i + 1] = DrainStep(g, A, R, S, h[i])
               /\ Drain(g, A, R, S) = h[N]
  <2>1. PICK h : Drains(h, g, A, R, S)
    BY DrainRun
  <2> QED BY <2>1 DEF Drains
<1>4. N \in 0 .. N
  BY <1>2
<1> QED BY <1>3, <1>4

\* Without a cycle the queue never runs dry: every message gets the mass that the
\* equations of the path sums give it.
LEMMA DrainExact ==
    ASSUME NEW g, Counted(g), NEW A, NEW R, R \subseteq Messages, NEW S, A \cap R = {}, NEW rank,
           Descending(rank, g, R, S), NEW P \in [R -> Nat], \A m \in R : P[m] = Sum(g, m, A, R, S, P)
    PROVE  Drain(g, A, R, S) = P
<1> DEFINE N == Cardinality(R)
<1>1. IsFiniteSet(R)
  BY GraphAssumption, FS_Subset
<1>2. N \in Nat
  BY <1>1, FS_CardinalityType
<1>3. PICK h : /\ DOMAIN h[0] = {} /\ \A i \in 0 .. N : h[i] \in Masses(R)
               /\ \A i \in 0 .. N - 1 : h[i + 1] = DrainStep(g, A, R, S, h[i])
               /\ Drain(g, A, R, S) = h[N]
  <2>1. PICK h : Drains(h, g, A, R, S)
    BY DrainRun
  <2> QED BY <2>1 DEF Drains
<1>4. ASSUME NEW mass \in Masses(R), DOMAIN mass # R PROVE Ready(g, R, S, mass) # {}
  <2>1. DOMAIN mass \subseteq R
    BY MassesType
  <2> DEFINE X == R \ DOMAIN mass
             val == [m \in X |-> -rank[m]]
  <2>0. \A m \in X : rank[m] \in Nat /\ -rank[m] \in Int
    BY DEF Descending
  <2>2. IsFiniteSet(X) /\ X # {} /\ val \in [X -> Int]
    <3>1. X \subseteq R /\ X # {}
      BY <1>4, <2>1
    <3>2. IsFiniteSet(X)
      BY <1>1, <3>1, FS_Subset
    <3> HIDE DEF X
    <3> QED BY <2>0, <3>1, <3>2
  <2>3. \A m \in X : val[m] = -rank[m] /\ rank[m] \in Nat
    BY DEF Descending
  <2> HIDE DEF val
  <2>4. PICK m \in X : \A n \in X : val[m] >= val[n]
    BY <2>2, Greatest
  <2>5. ASSUME NEW e \in Out(g, m, R, S) PROVE e.to \in DOMAIN mass
    <3>1. e.to \in R /\ rank[e.to] < rank[m] /\ rank[e.to] \in Nat /\ rank[m] \in Nat
      BY OutType DEF Descending, Counted
    <3>2. ASSUME e.to \in X PROVE FALSE
      <4>1. val[m] >= val[e.to]
        BY <2>4, <3>2
      <4>2. val[m] = -rank[m] /\ val[e.to] = -rank[e.to]
        BY <2>3, <3>2
      <4> QED BY <3>1, <4>1, <4>2
    <3> QED BY <3>1, <3>2
  <2>6. m \in Ready(g, R, S, mass)
    BY <2>5 DEF Ready
  <2> QED BY <2>6
<1>5. ASSUME NEW mass \in Masses(R), \A n \in DOMAIN mass : mass[n] = P[n], NEW x \in Ready(g, R, S, mass),
             NEW mass2, Finalized(mass, x, g, A, R, S, mass2)
      PROVE  \A n \in DOMAIN mass2 : mass2[n] = P[n]
  <2>1. x \in R \ DOMAIN mass /\ \A e \in Out(g, x, R, S) : e.to \in DOMAIN mass
    BY DEF Ready
  <2>2. DOMAIN mass \subseteq R
    BY MassesType
  <2>3. PICK known : known = [n \in R |-> IF n \in DOMAIN mass THEN mass[n] ELSE 0]
    OBVIOUS
  <2>4. \A n \in R : known[n] \in Nat /\ P[n] \in Nat
    BY <1>5, <2>3
  <2>5. \A e \in Out(g, x, R, S) : known[e.to] = P[e.to]
    BY <1>5, <2>1, <2>2, <2>3
  <2>6. Sum(g, x, {}, R, S, known) = Sum(g, x, {}, R, S, P)
    BY <2>4, <2>5, SumSame
  <2>7. PICK z : z = Sum(g, x, A, {}, S, P)
    OBVIOUS
  <2>8. Sum(g, x, A, R, S, known) = z + Sum(g, x, {}, R, S, known)
    BY <2>4, <2>7, SumSplits
  <2>9. Sum(g, x, A, R, S, P) = z + Sum(g, x, {}, R, S, P)
    BY <2>4, <2>7, SumSplits
  <2>10. mass2[x] = P[x]
    BY <1>5, <2>1, <2>3, <2>6, <2>8, <2>9 DEF Finalized
  <2> QED BY <1>5, <2>10 DEF Finalized
<1>6. ASSUME NEW i \in 0 .. N - 1
      PROVE  IF DOMAIN h[i] = R THEN h[i + 1] = h[i]
             ELSE \E x \in Ready(g, R, S, h[i]) : Finalized(h[i], x, g, A, R, S, h[i + 1])
  <2>1. h[i] \in Masses(R) /\ h[i + 1] = DrainStep(g, A, R, S, h[i])
    BY <1>2, <1>3
  <2>2. CASE DOMAIN h[i] = R
    <3>1. Ready(g, R, S, h[i]) = {}
      BY <2>2 DEF Ready
    <3> QED BY <2>1, <2>2, <3>1, DrainType
  <2>3. CASE DOMAIN h[i] # R
    <3>1. Ready(g, R, S, h[i]) # {}
      BY <1>4, <2>1, <2>3
    <3> QED BY <2>1, <2>3, <3>1, DrainType
  <2> QED BY <2>2, <2>3
<1>7. \A i \in 0 .. N : \A n \in DOMAIN h[i] : h[i][n] = P[n]
  <2> DEFINE W == {i \in 0 .. N : \A n \in DOMAIN h[i] : h[i][n] = P[n]}
  <2>1. 0 \in W
    BY <1>2, <1>3
  <2>2. ASSUME NEW i \in 0 .. N - 1, i \in W PROVE i + 1 \in W
    <3>1. i + 1 \in 0 .. N /\ h[i] \in Masses(R)
      BY <1>2, <1>3
    <3>2. \A n \in DOMAIN h[i] : h[i][n] = P[n]
      BY <2>2
    <3>3. CASE DOMAIN h[i] = R
      <4>1. h[i + 1] = h[i]
        BY <1>6, <3>3
      <4> QED BY <3>1, <3>2, <4>1
    <3>4. CASE DOMAIN h[i] # R
      <4>1. PICK x \in Ready(g, R, S, h[i]) : Finalized(h[i], x, g, A, R, S, h[i + 1])
        BY <1>6, <3>4
      <4>2. \A n \in DOMAIN h[i + 1] : h[i + 1][n] = P[n]
        BY <1>5, <3>1, <3>2, <4>1
      <4> QED BY <3>1, <4>2
    <3> QED BY <3>3, <3>4
  <2> HIDE DEF W
  <2>3. 0 .. N \subseteq W
    BY <1>2, <2>1, <2>2, UpTo
  <2> QED BY <2>3 DEF W
<1>8. DOMAIN h[N] = R
  <2> DEFINE X == [i \in 0 .. N |-> DOMAIN h[i]]
  <2>1. \A i \in 0 .. N : X[i] \subseteq R
    BY <1>3, MassesType
  <2>2. ASSUME NEW i \in 0 .. N - 1
        PROVE IF X[i] = R THEN X[i + 1] = R ELSE \E x \in R \ X[i] : X[i + 1] = X[i] \cup {x}
    <3>1. i \in 0 .. N /\ i + 1 \in 0 .. N
      BY <1>2
    <3>2. X[i] = DOMAIN h[i] /\ X[i + 1] = DOMAIN h[i + 1]
      BY <3>1
    <3>3. CASE DOMAIN h[i] = R
      BY <1>6, <3>2, <3>3
    <3>4. CASE DOMAIN h[i] # R
      <4>1. PICK x \in Ready(g, R, S, h[i]) : Finalized(h[i], x, g, A, R, S, h[i + 1])
        BY <1>6, <3>4
      <4>2. DOMAIN h[i + 1] = DOMAIN h[i] \cup {x} /\ x \in R \ DOMAIN h[i]
        BY <4>1 DEF Finalized, Ready
      <4> QED BY <3>2, <3>4, <4>2
    <3> QED BY <3>3, <3>4
  <2>3. X[N] = DOMAIN h[N]
    BY <1>2
  <2> HIDE DEF X
  <2>4. X[N] = R
    BY <1>1, <1>2, <2>1, <2>2, FillsUp
  <2> QED BY <2>3, <2>4
<1>9. N \in 0 .. N
  BY <1>2
<1>10. h[N] = [n \in DOMAIN h[N] |-> h[N][n]] /\ \A n \in DOMAIN h[N] : h[N][n] = P[n]
  BY <1>3, <1>7, <1>9, MassesType
<1>11. h[N] = P
  BY <1>8, <1>10
<1> QED BY <1>3, <1>11

\* On a graph without a cycle the masses are the path sums.
LEMMA MassOfPaths ==
    ASSUME NEW g, Counted(g), NEW A, NEW S, NEW R, R = Reach(g, A, S), R \subseteq Messages, A \cap R = {},
           Cardinality(R) < Hops, Acyclic(g, R, S)
    PROVE  Mass(g, A, S) = PathSum(g, A, R, S)
<1>1. IsFiniteSet(R)
  BY GraphAssumption, FS_Subset
<1>2. PICK rank : Descending(rank, g, R, S)
  BY <1>1, AcyclicRank
<1>3. PICK P : P = PathSum(g, A, R, S)
  OBVIOUS
<1>4. P \in [R -> Nat] /\ \A m \in R : P[m] = Sum(g, m, A, R, S, P)
  BY <1>1, <1>2, <1>3, PathSumFixed
<1>5. Drain(g, A, R, S) = P
  BY <1>2, <1>4, DrainExact
<1>6. Drain(g, A, R, S) \in Masses(R)
  BY DrainMasses
<1>7. DOMAIN Drain(g, A, R, S) = R
  BY <1>4, <1>5
<1>8. Mass(g, A, S) = Drain(g, A, R, S)
  BY <1>6, <1>7, MassDomain
<1> QED BY <1>3, <1>5, <1>8
-----------------------------------------------------------------------------
(* The first phase of the walk: what it pushes.                            *)

\* y is the greatest of a number and of finitely many others.
Tops(y, a, L, f) == y \in Nat /\ a <= y /\ (\A e \in L : f[e] <= y) /\ (y = a \/ \E e \in L : y = f[e])

\* The maximum a push takes is such a one.
LEMMA MaxWith ==
    ASSUME NEW a \in Nat, NEW L, IsFiniteSet(L), NEW f, DOMAIN f = L, \A e \in L : f[e] \in Nat,
           NEW y, y = Max({a} \cup {f[e] : e \in L})
    PROVE  Tops(y, a, L, f)
<1> DEFINE X == {a} \cup {f[e] : e \in L}
<1>1. X \subseteq Nat /\ X # {} /\ a \in X /\ \A e \in L : f[e] \in X
  OBVIOUS
<1>2. IsFiniteSet(X)
  <2>1. IsFiniteSet({f[e] : e \in L})
    BY ImageFinite
  <2> QED BY <2>1, FS_Singleton, FS_Union
<1>3. \A z \in X : z = a \/ \E e \in L : z = f[e]
  OBVIOUS
<1>4. y = Max(X)
  OBVIOUS
<1> HIDE DEF X
<1>5. y \in X /\ \A z \in X : z <= y
  BY <1>1, <1>2, <1>4, MaxType
<1> QED BY <1>1, <1>3, <1>5 DEF Tops

\* The messages outside A; best2 is best raised by what edges into m are worth at value.
Outside(A) == Messages \ A
Pushed(best, g, m, value, S, X, best2) ==
    /\ best2 \in [X -> Nat]
    /\ \A n \in X :
          /\ best[n] <= best2[n]
          /\ \A e \in Out(g, n, {m}, S) : Times(value, e.score) <= best2[n]
          /\ best2[n] = best[n] \/ \E e \in Out(g, n, {m}, S) : best2[n] = Times(value, e.score)

\* What is settled pushes its edges so.
LEMMA PushType ==
    ASSUME NEW g, Typed(g), NEW X, NEW best \in [X -> Nat], NEW m, NEW value \in Nat, NEW S
    PROVE  Pushed(best, g, m, value, S, X, Push(best, g, m, value, S))
<1>1. PICK b : b = Push(best, g, m, value, S)
  OBVIOUS
<1>2. b = [n \in X |-> Max({best[n]} \cup {Times(value, e.score) : e \in {x \in Prerequisites(g, m, "prov", S) : x.from = n}})]
  BY <1>1 DEF Push
<1>3. ASSUME NEW n \in X
      PROVE  /\ b[n] \in Nat /\ best[n] <= b[n]
             /\ \A e \in Out(g, n, {m}, S) : Times(value, e.score) <= b[n]
             /\ b[n] = best[n] \/ \E e \in Out(g, n, {m}, S) : b[n] = Times(value, e.score)
  <2>1. PICK L : L = Out(g, n, {m}, S)
    OBVIOUS
  <2>2. {x \in Prerequisites(g, m, "prov", S) : x.from = n} = L
    BY <2>1 DEF Out, Prerequisites
  <2>3. IsFiniteSet(L) /\ \A e \in L : e.score \in 0 .. Unit
    BY <2>1, OutType
  <2> DEFINE f == [e \in L |-> Times(value, e.score)]
  <2>4. \A e \in L : f[e] \in Nat /\ f[e] = Times(value, e.score)
    BY <2>3, TimesGrows
  <2>5. b[n] = Max({best[n]} \cup {Times(value, e.score) : e \in L})
    BY <1>2, <2>2
  <2>6. {Times(value, e.score) : e \in L} = {f[e] : e \in L} /\ DOMAIN f = L
    BY <2>4
  <2>7. b[n] = Max({best[n]} \cup {f[e] : e \in L})
    BY <2>5, <2>6
  <2> HIDE DEF f
  <2>8. best[n] \in Nat
    OBVIOUS
  <2>9. Tops(b[n], best[n], L, f)
    BY <2>3, <2>4, <2>6, <2>7, <2>8, MaxWith
  <2> QED BY <2>1, <2>4, <2>9 DEF Tops
<1>4. b \in [X -> Nat]
  BY <1>2, <1>3
<1> QED BY <1>1, <1>3, <1>4 DEF Pushed

\* What the anchors push: of every edge into one, and nothing else.
Begun(g, A, S, X, best) ==
    /\ best \in [X -> Nat]
    /\ \A n \in X :
          /\ \A e \in Out(g, n, A, S) : Times(One, e.score) <= best[n]
          /\ best[n] = 0 \/ \E e \in Out(g, n, A, S) : best[n] = Times(One, e.score)

\* The anchors push theirs, in whatever order they are taken.
LEMMA SeededType ==
    ASSUME NEW g, Typed(g), NEW A, IsFiniteSet(A), NEW S
    PROVE  Begun(g, A, S, Outside(A), Seeded(g, A, S))
<1> DEFINE X == Outside(A)
           T == [X -> Nat]
           z == [n \in X |-> 0]
           Op(a, y) == Push(y, g, a, One, S)
           P(f) == f = [s \in SUBSET A |-> IF s = {} THEN z
                          ELSE Op(CHOOSE x \in s : TRUE, f[s \ {CHOOSE x \in s : TRUE}])]
           step == [p \in A \X T |-> Op(p[1], p[2])]
<1>1. Seeded(g, A, S) = (CHOOSE f : P(f))[A]
  BY Zenon DEF Seeded, FoldSet, MapThenFoldSet, Outside
<1>2. z \in T
  OBVIOUS
<1>3. \A a \in A, y \in T : Op(a, y) \in T /\ Pushed(y, g, a, One, S, X, Op(a, y))
  <2>1. ASSUME NEW a \in A, NEW y \in [X -> Nat] PROVE Pushed(y, g, a, One, S, X, Push(y, g, a, One, S))
    <3> HIDE DEF X
    <3> QED BY PushType, OneType
  <2> QED BY <2>1 DEF Pushed
<1>4. \A a \in A, y \in T : step[<<a, y>>] \in T /\ step[<<a, y>>] = Op(a, y)
  <2> HIDE DEF T, Op
  <2> QED BY <1>3
<1> HIDE DEF step, Op, T
<1>t. Keeps(step, A, T)
  BY <1>4 DEF Keeps
<1> HIDE DEF z
<1>5. PICK f \in [SUBSET A -> T] : FoldsOver(f, A, z, step)
  BY <1>2, <1>t, FoldExists
<1>6. \A s \in SUBSET A : s # {} => Taken(s) \in s /\ Taken(s) \in A /\ s \ {Taken(s)} \in SUBSET A
  BY DEF Taken
<1>7. P(f)
  <2>1. ASSUME NEW s \in SUBSET A PROVE f[s] = IF s = {} THEN z ELSE Op(Taken(s), f[s \ {Taken(s)}])
    BY <1>4, <1>5, <1>6 DEF FoldsOver
  <2> QED BY <2>1 DEF Taken
<1>8. PICK h : h = CHOOSE u : P(u)
  OBVIOUS
<1> HIDE DEF P
<1>9. P(h)
  BY <1>7, <1>8
<1>10. \A s \in SUBSET A : h[s] = IF s = {} THEN z ELSE Op(Taken(s), h[s \ {Taken(s)}])
  BY <1>9 DEF P, Taken
<1> DEFINE W == {s \in SUBSET A : Begun(g, s, S, X, h[s])}
<1>11. {} \in W
  <2>1. {} \in SUBSET A
    OBVIOUS
  <2>2. h[{}] = z
    BY <1>10, <2>1
  <2>3. \A n \in X : Out(g, n, {}, S) = {}
    BY DEF Out
  <2>4. z \in [X -> Nat] /\ \A n \in X : z[n] = 0
    BY <1>2 DEF z, T
  <2>5. Begun(g, {}, S, X, z)
    <3> HIDE DEF X
    <3> QED BY <2>3, <2>4 DEF Begun
  <2> QED BY <2>1, <2>2, <2>5
<1>12. ASSUME NEW s \in SUBSET A, s # {}, s \ {Taken(s)} \in W PROVE s \in W
  <2>1. PICK a \in A : a = Taken(s) /\ a \in s
    BY <1>6, <1>12
  <2>2. PICK old : old = h[s \ {a}] /\ Begun(g, s \ {a}, S, X, old)
    BY <1>12, <2>1
  <2>3. old \in [X -> Nat] /\ old \in T
    BY <2>2 DEF Begun, T
  <2>4. PICK y : y = h[s]
    OBVIOUS
  <2>5. y = Op(a, old)
    BY <1>10, <1>12, <2>1, <2>2, <2>4
  <2>6. Pushed(old, g, a, One, S, X, y)
    BY <1>3, <2>3, <2>5
  <2>7. y \in [X -> Nat]
    BY <2>6 DEF Pushed
  <2>8. ASSUME NEW n \in X
        PROVE  /\ \A e \in Out(g, n, s, S) : Times(One, e.score) <= y[n]
               /\ y[n] = 0 \/ \E e \in Out(g, n, s, S) : y[n] = Times(One, e.score)
    <3>1. Out(g, n, s, S) = Out(g, n, s \ {a}, S) \cup Out(g, n, {a}, S)
      BY <2>1 DEF Out
    <3>2. old[n] \in Nat /\ y[n] \in Nat /\ old[n] <= y[n]
      BY <2>3, <2>6, <2>7 DEF Pushed
    <3>3. ASSUME NEW e \in Out(g, n, s \ {a}, S) PROVE Times(One, e.score) <= y[n]
      <4>1. Times(One, e.score) <= old[n]
        BY <2>2 DEF Begun
      <4>2. Times(One, e.score) \in Nat
        BY OutType, OneType, TimesGrows
      <4> QED BY <3>2, <4>1, <4>2
    <3>4. \A e \in Out(g, n, {a}, S) : Times(One, e.score) <= y[n]
      BY <2>6 DEF Pushed
    <3>5. y[n] = old[n] \/ \E e \in Out(g, n, {a}, S) : y[n] = Times(One, e.score)
      BY <2>6 DEF Pushed
    <3>6. old[n] = 0 \/ \E e \in Out(g, n, s \ {a}, S) : old[n] = Times(One, e.score)
      BY <2>2 DEF Begun
    <3> QED BY <3>1, <3>3, <3>4, <3>5, <3>6
  <2>9. Begun(g, s, S, X, y)
    <3> HIDE DEF X
    <3> QED BY <2>7, <2>8 DEF Begun
  <2> QED BY <2>4, <2>9
<1> HIDE DEF W, X
<1>13. SUBSET A \subseteq W
  BY <1>11, <1>12, SubsetSet
<1>14. Begun(g, A, S, X, h[A])
  BY <1>13 DEF W
<1> QED BY <1>1, <1>8, <1>14 DEF X

\* Messages that wait to be settled; w2 settles the best of them.
Opens(w) == {m \in DOMAIN w.best \ w.reach : w.best[m] > 0}
SettleState(A) == [reach : SUBSET Outside(A), best : [Outside(A) -> Nat]]
SettlesTop(w, top, g, A, S, w2) ==
    /\ top \in Opens(w) /\ \A n \in Opens(w) : w.best[n] <= w.best[top]
    /\ w2.reach = w.reach \cup {top}
    /\ Pushed(w.best, g, top, w.best[top], S, Outside(A), w2.best)
Settles(w, g, A, S, w2) ==
    IF Opens(w) = {} THEN w2 = w ELSE \E top \in Opens(w) : SettlesTop(w, top, g, A, S, w2)

\* A step of the walk is such a step.
LEMMA SettleType ==
    ASSUME NEW g, Typed(g), NEW A, NEW S, NEW w \in SettleState(A)
    PROVE  Settle(g, S, w) \in SettleState(A) /\ Settles(w, g, A, S, Settle(g, S, w))
<1>1. w.reach \subseteq Outside(A) /\ w.best \in [Outside(A) -> Nat]
  BY DEF SettleState
<1>2. PICK O : O = Opens(w)
  OBVIOUS
<1>3. O \subseteq Outside(A) /\ O \subseteq Messages
  BY <1>1, <1>2 DEF Opens, Outside
<1>4. CASE O = {}
  <2>1. Settle(g, S, w) = w
    BY <1>2, <1>4 DEF Settle, Opens
  <2> QED BY <1>2, <1>4, <2>1 DEF Settles
<1>5. CASE O # {}
  <2>1. IsFiniteSet(O)
    BY <1>3, GraphAssumption, FS_Subset
  <2>2. \E m \in O : \A n \in O : w.best[m] >= w.best[n]
    <3> DEFINE val == [m \in O |-> w.best[m]]
    <3>1. val \in [O -> Int] /\ \A m \in O : val[m] = w.best[m]
      BY <1>1, <1>3
    <3> HIDE DEF val
    <3>2. \E m \in O : \A n \in O : val[m] >= val[n]
      BY <1>5, <2>1, <3>1, Greatest
    <3> QED BY <3>1, <3>2
  <2>3. PICK B : B = Strongest(w.best, O)
    OBVIOUS
  <2>4. B # {} /\ B \subseteq O
    BY <2>2, <2>3 DEF Strongest
  <2>5. IsFiniteSet(B) /\ B \subseteq Nat
    BY <1>3, <2>1, <2>4, GraphAssumption, FS_Subset
  <2>6. PICK top : top = Min(B)
    OBVIOUS
  <2>7. top \in B
    BY <2>4, <2>5, <2>6, MinType
  <2>8. top \in O /\ \A n \in O : w.best[n] <= w.best[top]
    <3>1. top \in O /\ \A n \in O : w.best[top] >= w.best[n]
      BY <2>3, <2>7 DEF Strongest
    <3>2. \A n \in O : w.best[n] \in Nat
      BY <1>1, <1>3
    <3> QED BY <3>1, <3>2
  <2>9. PICK b : b = Push(w.best, g, top, w.best[top], S)
    OBVIOUS
  <2>10. Settle(g, S, w) = [reach |-> w.reach \cup {top}, best |-> b]
    BY <1>2, <1>5, <2>3, <2>6, <2>9, Zenon DEF Settle, Opens
  <2>11. w.best[top] \in Nat
    BY <1>1, <1>3, <2>8
  <2>12. Pushed(w.best, g, top, w.best[top], S, Outside(A), b)
    BY <1>1, <2>9, <2>11, PushType
  <2>13. b \in [Outside(A) -> Nat] /\ w.reach \cup {top} \subseteq Outside(A)
    BY <1>1, <1>3, <2>8, <2>12 DEF Pushed
  <2>14. PICK w2 : w2 = Settle(g, S, w)
    OBVIOUS
  <2>15. w2.reach = w.reach \cup {top} /\ w2.best = b /\ w2 \in SettleState(A)
    BY <2>10, <2>13, <2>14 DEF SettleState
  <2>16. SettlesTop(w, top, g, A, S, w2)
    BY <1>2, <2>8, <2>12, <2>15 DEF SettlesTop
  <2> QED BY <1>2, <1>5, <2>8, <2>14, <2>15, <2>16 DEF Settles
<1> QED BY <1>4, <1>5

\* The walk is a run of such steps from what the anchors push.
Reaching(h, g, A, S) ==
    /\ h[0] = [reach |-> {}, best |-> Seeded(g, A, S)] /\ \A i \in 0 .. Cap : h[i] \in SettleState(A)
    /\ \A i \in 0 .. Cap - 1 : Settles(h[i], g, A, S, h[i + 1])
    /\ Reach(g, A, S) = h[Cap].reach

\* The steps exist.
LEMMA ReachRun ==
    ASSUME NEW g, Typed(g), NEW A, IsFiniteSet(A), NEW S
    PROVE  \E h : Reaching(h, g, A, S)
<1> DEFINE T == SettleState(A)
           v == [reach |-> {}, best |-> Seeded(g, A, S)]
           Op(y) == Settle(g, S, y)
           next == [y \in T |-> Op(y)]
           P(u) == u = [i \in 0 .. Cap |-> IF i = 0 THEN v ELSE Op(u[i - 1])]
<1>1. Reach(g, A, S) = (CHOOSE u : P(u))[Cap].reach
  BY Zenon DEF Reach, Iterate
<1>2. v \in T
  <2>1. Seeded(g, A, S) \in [Outside(A) -> Nat]
    BY SeededType DEF Begun
  <2> QED BY <2>1 DEF SettleState
<1>o. \A y \in T : Op(y) \in T /\ Settles(y, g, A, S, Op(y))
  BY SettleType
<1> HIDE DEF Op, v, T
<1>3. Cap \in Nat /\ next \in [T -> T] /\ \A y \in T : next[y] = Op(y)
  BY <1>o, GraphAssumption
<1> HIDE DEF next
<1>s. PICK f : Stepping(f, T, v, next, Cap)
  BY <1>2, <1>3, RunExists
<1>4. f \in [0 .. Cap -> T] /\ \A i \in 0 .. Cap : f[i] = IF i = 0 THEN v ELSE next[f[i - 1]]
  BY <1>s DEF Stepping
<1>5. P(f)
  <2>1. ASSUME NEW i \in 0 .. Cap PROVE f[i] = IF i = 0 THEN v ELSE Op(f[i - 1])
    <3>1. i # 0 => i - 1 \in 0 .. Cap
      BY <1>3
    <3> QED BY <1>3, <1>4, <3>1
  <2> QED BY <1>4, <2>1
<1>6. PICK h : h = CHOOSE u : P(u)
  OBVIOUS
<1> HIDE DEF P
<1>7. P(h)
  BY <1>5, <1>6
<1> USE DEF P
<1>8. h[0] = v /\ \A i \in 0 .. Cap - 1 : h[i + 1] = Op(h[i])
  BY <1>3, <1>7
<1>9. Run(h, T, v, next, Cap)
  BY <1>2, <1>3, <1>8, RunFits
<1>10. \A i \in 0 .. Cap : h[i] \in T
  BY <1>3, <1>9 DEF Run
<1>11. \A i \in 0 .. Cap - 1 : Settles(h[i], g, A, S, h[i + 1])
  <2>1. \A i \in 0 .. Cap - 1 : i \in 0 .. Cap
    BY <1>3
  <2> QED BY <1>o, <1>8, <1>10, <2>1
<1>12. Reaching(h, g, A, S)
  BY <1>1, <1>6, <1>8, <1>10, <1>11 DEF T, v, Reaching
<1> QED BY <1>12

\* The value an edge goes on from; b2 is b raised by every edge there is.
Source(b, e, A) == IF e.to \in A THEN One ELSE b[e.to]
Grows(b, g, A, S, b2) ==
    /\ b2 \in [Outside(A) -> Nat]
    /\ \A n \in Outside(A) :
          /\ b[n] <= b2[n]
          /\ \A e \in Out(g, n, Messages, S) : Times(Source(b, e, A), e.score) <= b2[n]
          /\ b2[n] = b[n] \/ \E e \in Out(g, n, Messages, S) : b2[n] = Times(Source(b, e, A), e.score)

\* A step of BestInto.
GrowStep(b, g, A, S) ==
    [m \in Outside(A) |-> Max({0, b[m]} \cup {Times(Source(b, e, A), e.score) : e \in Out(g, m, Messages, S)})]

\* It is such a raise.
LEMMA GrowType ==
    ASSUME NEW g, Typed(g), NEW A, NEW S, NEW b \in [Outside(A) -> Nat]
    PROVE  GrowStep(b, g, A, S) \in [Outside(A) -> Nat] /\ Grows(b, g, A, S, GrowStep(b, g, A, S))
<1>1. PICK b2 : b2 = GrowStep(b, g, A, S)
  OBVIOUS
<1>2. b2 = [m \in Outside(A) |-> Max({0, b[m]} \cup {Times(Source(b, e, A), e.score) : e \in Out(g, m, Messages, S)})]
  BY <1>1 DEF GrowStep
<1>3. ASSUME NEW n \in Outside(A)
      PROVE  /\ b2[n] \in Nat /\ b[n] <= b2[n]
             /\ \A e \in Out(g, n, Messages, S) : Times(Source(b, e, A), e.score) <= b2[n]
             /\ b2[n] = b[n] \/ \E e \in Out(g, n, Messages, S) : b2[n] = Times(Source(b, e, A), e.score)
  <2>1. PICK L : L = Out(g, n, Messages, S)
    OBVIOUS
  <2>2. IsFiniteSet(L) /\ \A e \in L : e.score \in 0 .. Unit /\ e.to \in Messages
    BY <2>1, OutType
  <2> DEFINE f == [e \in L |-> Times(Source(b, e, A), e.score)]
             Y == {f[e] : e \in L}
             X == {0, b[n]} \cup Y
  <2>3. \A e \in L : f[e] \in Nat /\ f[e] = Times(Source(b, e, A), e.score)
    <3>1. \A e \in L : Source(b, e, A) \in Nat
      BY <2>2, OneType DEF Source, Outside
    <3> QED BY <2>2, <3>1, TimesGrows
  <2>4. DOMAIN f = L /\ Y = {Times(Source(b, e, A), e.score) : e \in L}
    BY <2>3
  <2> HIDE DEF f
  <2>5. IsFiniteSet(Y)
    BY <2>2, <2>4, ImageFinite
  <2>6. X \subseteq Nat /\ X # {} /\ b[n] \in X /\ \A e \in L : f[e] \in X
    BY <2>3
  <2>7. \A z \in X : z = 0 \/ z = b[n] \/ \E e \in L : z = f[e]
    OBVIOUS
  <2>8. IsFiniteSet(X)
    <3>1. IsFiniteSet({0, b[n]})
      <4>1. PICK U, V : U = {0} /\ V = {b[n]}
        OBVIOUS
      <4>2. IsFiniteSet(U) /\ IsFiniteSet(V)
        BY <4>1, FS_Singleton
      <4>3. IsFiniteSet(U \cup V)
        BY <4>2, FS_Union
      <4>4. U \cup V = {0, b[n]}
        BY <4>1
      <4> QED BY <4>3, <4>4
    <3> QED BY <2>5, <3>1, FS_Union
  <2>9. b2[n] = Max(X)
    BY <1>2, <2>1, <2>4
  <2> HIDE DEF X, Y
  <2>10. b2[n] \in X /\ \A z \in X : z <= b2[n]
    BY <2>6, <2>8, <2>9, MaxType
  <2>11. b2[n] \in Nat /\ b[n] <= b2[n] /\ \A e \in L : f[e] <= b2[n]
    BY <2>6, <2>10
  <2>12. b2[n] = b[n] \/ \E e \in L : b2[n] = f[e]
    <3>1. b2[n] = 0 => b2[n] = b[n]
      BY <2>11
    <3> QED BY <2>7, <2>10, <3>1
  <2> QED BY <2>1, <2>3, <2>11, <2>12
<1>4. b2 \in [Outside(A) -> Nat]
  BY <1>2, <1>3
<1> QED BY <1>1, <1>3, <1>4 DEF Grows

\* BestInto is a run of such steps.
Growing(h, g, A, S) ==
    /\ (\A n \in Outside(A) : h[0][n] = 0) /\ \A i \in 0 .. Hops : h[i] \in [Outside(A) -> Nat]
    /\ \A i \in 0 .. Hops - 1 : Grows(h[i], g, A, S, h[i + 1])
    /\ BestInto(g, A, S) = h[Hops]

\* The steps exist.
LEMMA BestIntoRun ==
    ASSUME NEW g, Typed(g), NEW A, NEW S
    PROVE  \E h : Growing(h, g, A, S)
<1> DEFINE T == [Outside(A) -> Nat]
           v == [m \in Outside(A) |-> 0]
           Op(y) == GrowStep(y, g, A, S)
           next == [y \in T |-> Op(y)]
           P(u) == u = [i \in 0 .. Hops |-> IF i = 0 THEN v ELSE Op(u[i - 1])]
<1>1. BestInto(g, A, S) = (CHOOSE u : P(u))[Hops]
  BY Zenon DEF BestInto, Iterate, GrowStep, Source, Outside
<1>2. v \in T /\ \A n \in Outside(A) : v[n] = 0
  OBVIOUS
<1>o. \A y \in T : Op(y) \in T /\ Grows(y, g, A, S, Op(y))
  BY GrowType
<1> HIDE DEF Op, v, T
<1>3. Hops \in Nat /\ next \in [T -> T] /\ \A y \in T : next[y] = Op(y)
  BY <1>o, HopsType
<1> HIDE DEF next
<1>s. PICK f : Stepping(f, T, v, next, Hops)
  BY <1>2, <1>3, RunExists
<1>4. f \in [0 .. Hops -> T] /\ \A i \in 0 .. Hops : f[i] = IF i = 0 THEN v ELSE next[f[i - 1]]
  BY <1>s DEF Stepping
<1>5. P(f)
  <2>1. ASSUME NEW i \in 0 .. Hops PROVE f[i] = IF i = 0 THEN v ELSE Op(f[i - 1])
    <3>1. i # 0 => i - 1 \in 0 .. Hops
      BY <1>3
    <3> QED BY <1>3, <1>4, <3>1
  <2> QED BY <1>4, <2>1
<1>6. PICK h : h = CHOOSE u : P(u)
  OBVIOUS
<1> HIDE DEF P
<1>7. P(h)
  BY <1>5, <1>6
<1> USE DEF P
<1>8. h[0] = v /\ \A i \in 0 .. Hops - 1 : h[i + 1] = Op(h[i])
  BY <1>3, <1>7
<1>9. Run(h, T, v, next, Hops)
  BY <1>2, <1>3, <1>8, RunFits
<1>10. \A i \in 0 .. Hops : h[i] \in T
  BY <1>3, <1>9 DEF Run
<1>11. \A i \in 0 .. Hops - 1 : Grows(h[i], g, A, S, h[i + 1])
  <2>1. \A i \in 0 .. Hops - 1 : i \in 0 .. Hops
    BY <1>3
  <2> QED BY <1>o, <1>8, <1>10, <2>1
<1>12. Growing(h, g, A, S)
  BY <1>1, <1>2, <1>6, <1>8, <1>10, <1>11 DEF T, Growing
<1> QED BY <1>12
-----------------------------------------------------------------------------
(* The walk reaches what paths into A lead to, the best first.             *)

\* Walk and reference, when the walk has settled its messages in at most i steps:
\* nothing is worth less than an edge into A or a settled message gives it, nor more
\* than the paths of so many edges; what is settled is worth no less than the rest.
Reached(w, i, b, g, A, S) ==
    /\ \A n \in Outside(A) :
          /\ \A e \in Out(g, n, A, S) : Times(One, e.score) <= w.best[n]
          /\ \A e \in Out(g, n, w.reach, S) : Times(w.best[e.to], e.score) <= w.best[n]
          /\ w.best[n] <= b[Cardinality(w.reach) + 1][n]
    /\ \A m \in w.reach : w.best[m] > 0 /\ \A n \in Outside(A) \ w.reach : w.best[n] <= w.best[m]
    /\ Cardinality(w.reach) <= i /\ (Cardinality(w.reach) = i \/ Opens(w) = {})

\* Fewer messages lie outside A than a path may have edges.
LEMMA OutsideSmall ==
    ASSUME NEW A, A \cap Messages # {}
    PROVE  /\ IsFiniteSet(Outside(A)) /\ Outside(A) \subseteq Messages
           /\ \A R \in SUBSET Outside(A) :
                 IsFiniteSet(R) /\ Cardinality(R) \in Nat /\ Cardinality(R) < Hops /\ Cardinality(R) + 1 \in 1 .. Hops
<1>1. IsFiniteSet(Messages) /\ Outside(A) \subseteq Messages
  BY GraphAssumption DEF Outside
<1>2. IsFiniteSet(Outside(A))
  BY <1>1, FS_Subset
<1>3. ASSUME NEW R \in SUBSET Outside(A)
      PROVE IsFiniteSet(R) /\ Cardinality(R) \in Nat /\ Cardinality(R) < Hops /\ Cardinality(R) + 1 \in 1 .. Hops
  <2>1. R \subseteq Messages /\ R # Messages
    BY <1>1 DEF Outside
  <2>2. IsFiniteSet(R) /\ Cardinality(R) \in Nat
    BY <1>2, FS_Subset, FS_CardinalityType
  <2>3. Cardinality(R) <= Cardinality(Messages) /\ Cardinality(R) # Cardinality(Messages)
    BY <1>1, <2>1, FS_Subset
  <2>4. Hops \in Nat /\ Hops = Cardinality(Messages)
    BY HopsType DEF Hops
  <2> QED BY <2>2, <2>3, <2>4
<1> QED BY <1>1, <1>2, <1>3

\* It holds at the beginning.
LEMMA ReachedStart ==
    ASSUME NEW g, Typed(g), NEW A, IsFiniteSet(A), A \cap Messages # {}, NEW S, NEW b, Growing(b, g, A, S),
           NEW w, w = [reach |-> {}, best |-> Seeded(g, A, S)]
    PROVE  Reached(w, 0, b, g, A, S)
<1>1. w.reach = {} /\ Begun(g, A, S, Outside(A), w.best)
  BY SeededType
<1>2. Cardinality(w.reach) = 0
  BY <1>1, FS_EmptySet
<1>3. Hops >= 1 /\ Hops \in Nat
  <2>1. {} \in SUBSET Outside(A)
    OBVIOUS
  <2>2. Cardinality({}) < Hops /\ Cardinality({}) = 0
    BY <2>1, OutsideSmall, FS_EmptySet
  <2> QED BY <2>2, HopsType
<1>4. Grows(b[0], g, A, S, b[1]) /\ \A n \in Outside(A) : b[0][n] = 0
  <2>1. 0 \in 0 .. Hops - 1 /\ 0 + 1 = 1
    BY <1>3
  <2> QED BY <2>1 DEF Growing
<1>5. ASSUME NEW n \in Outside(A)
      PROVE  /\ \A e \in Out(g, n, A, S) : Times(One, e.score) <= w.best[n]
             /\ \A e \in Out(g, n, w.reach, S) : Times(w.best[e.to], e.score) <= w.best[n]
             /\ w.best[n] <= b[0 + 1][n]
  <2>1. \A e \in Out(g, n, A, S) : Times(One, e.score) <= w.best[n]
    BY <1>1 DEF Begun
  <2>2. Out(g, n, w.reach, S) = {}
    BY <1>1 DEF Out
  <2>3. w.best[n] <= b[1][n]
    <3>1. CASE w.best[n] = 0
      <4>1. b[0][n] <= b[1][n] /\ b[0][n] = 0
        BY <1>4 DEF Grows
      <4> QED BY <3>1, <4>1
    <3>2. CASE w.best[n] # 0
      <4>1. PICK e \in Out(g, n, A, S) : w.best[n] = Times(One, e.score)
        BY <1>1, <3>2 DEF Begun
      <4>5. e.to \in A /\ e.to \in Messages
        BY <4>1, OutType
      <4>2. e \in Out(g, n, Messages, S) /\ e.to \in A
        BY <4>1, <4>5 DEF Out
      <4>3. Times(Source(b[0], e, A), e.score) <= b[1][n]
        BY <1>4, <4>2 DEF Grows
      <4> QED BY <4>1, <4>2, <4>3 DEF Source
    <3> QED BY <3>1, <3>2
  <2> QED BY <2>1, <2>2, <2>3
<1> QED BY <1>1, <1>2, <1>5 DEF Reached

\* A settled message keeps it.
LEMMA ReachedStep ==
    ASSUME NEW g, Typed(g), NEW A, A \cap Messages # {}, NEW S, NEW b, Growing(b, g, A, S),
           NEW w \in SettleState(A), NEW w2 \in SettleState(A), NEW i \in Nat, Settles(w, g, A, S, w2),
           Reached(w, i, b, g, A, S)
    PROVE  Reached(w2, i + 1, b, g, A, S)
<1> DEFINE X == Outside(A)
           k == Cardinality(w.reach)
<1>1. w.reach \subseteq X /\ w.best \in [X -> Nat] /\ w2.reach \subseteq X /\ w2.best \in [X -> Nat]
  BY DEF SettleState
<1>2. CASE Opens(w) = {}
  <2>1. w2 = w
    BY <1>2 DEF Settles
  <2>2. k \in Nat
    BY <1>1, OutsideSmall
  <2>3. k <= i /\ k <= i + 1
    BY <2>2 DEF Reached
  <2> QED BY <1>2, <2>1, <2>3 DEF Reached
<1>3. CASE Opens(w) # {}
  <2>1. PICK top \in Opens(w) : SettlesTop(w, top, g, A, S, w2)
    BY <1>3 DEF Settles
  <2>2. /\ top \in X \ w.reach /\ w.best[top] \in Nat /\ w.best[top] > 0
        /\ \A n \in Opens(w) : w.best[n] <= w.best[top]
        /\ w2.reach = w.reach \cup {top} /\ Pushed(w.best, g, top, w.best[top], S, X, w2.best)
    BY <1>1, <2>1 DEF SettlesTop, Opens
  <2>3. k = i /\ k \in Nat /\ Cardinality(w2.reach) = k + 1 /\ k + 1 \in 1 .. Hops - 1 /\ k + 2 \in 1 .. Hops
    <3>1. IsFiniteSet(w.reach) /\ k \in Nat
      BY <1>1, OutsideSmall
    <3>2. Cardinality(w2.reach) = k + 1
      BY <2>2, <3>1, FS_AddElement
    <3>3. Cardinality(w2.reach) < Hops /\ Hops \in Nat
      BY <1>1, OutsideSmall, HopsType
    <3>4. k = i
      BY <1>3 DEF Reached
    <3> QED BY <3>1, <3>2, <3>3, <3>4
  <2>4. \A n \in X : w.best[n] \in Nat /\ w2.best[n] \in Nat /\ w.best[n] <= w2.best[n]
    BY <1>1, <2>2 DEF Pushed
  <2>5. ASSUME NEW n \in X, NEW e \in Out(g, n, {top}, S)
        PROVE  /\ e.score \in 0 .. Unit /\ e.to = top /\ e \in Out(g, n, Messages, S)
               /\ Times(w.best[top], e.score) \in Nat /\ Times(w.best[top], e.score) <= w.best[top]
    <3>1. e.score \in 0 .. Unit /\ e.to = top /\ e.to \in Messages
      BY OutType
    <3>2. e \in Out(g, n, Messages, S)
      BY <3>1 DEF Out
    <3>3. Times(w.best[top], e.score) \in Nat /\ Times(w.best[top], e.score) <= w.best[top]
      BY <2>2, <3>1, TimesGrows
    <3> QED BY <3>1, <3>2, <3>3
  <2>6. \A n \in X \ w.reach : w.best[n] <= w.best[top]
    <3> SUFFICES ASSUME NEW n \in X \ w.reach PROVE w.best[n] <= w.best[top]
      OBVIOUS
    <3>1. CASE w.best[n] > 0
      <4>1. n \in Opens(w)
        BY <1>1, <3>1 DEF Opens
      <4> QED BY <2>2, <4>1
    <3>2. CASE ~(w.best[n] > 0)
      BY <2>2, <2>4, <3>2
    <3> QED BY <3>1, <3>2
  <2>7. \A n \in w2.reach : w2.best[n] = w.best[n]
    <3> SUFFICES ASSUME NEW n \in w2.reach PROVE w2.best[n] = w.best[n]
      OBVIOUS
    <3>1. n \in X /\ w.best[top] <= w.best[n]
      BY <1>1, <2>2, <2>4 DEF Reached
    <3>2. w2.best[n] = w.best[n] \/ \E e \in Out(g, n, {top}, S) : w2.best[n] = Times(w.best[top], e.score)
      BY <2>2, <3>1 DEF Pushed
    <3>3. ASSUME NEW e \in Out(g, n, {top}, S), w2.best[n] = Times(w.best[top], e.score) PROVE w2.best[n] = w.best[n]
      <4>1. w2.best[n] <= w.best[top]
        BY <2>5, <3>1, <3>3
      <4> QED BY <2>2, <2>4, <3>1, <4>1
    <3> QED BY <3>2, <3>3
  <2>8. ASSUME NEW n \in X
        PROVE  /\ \A e \in Out(g, n, A, S) : Times(One, e.score) <= w2.best[n]
               /\ \A e \in Out(g, n, w2.reach, S) : Times(w2.best[e.to], e.score) <= w2.best[n]
    <3>1. ASSUME NEW e \in Out(g, n, A, S) PROVE Times(One, e.score) <= w2.best[n]
      <4>1. Times(One, e.score) <= w.best[n]
        BY DEF Reached
      <4>2. Times(One, e.score) \in Nat
        BY OutType, OneType, TimesGrows
      <4> QED BY <2>4, <4>1, <4>2
    <3>2. ASSUME NEW e \in Out(g, n, w2.reach, S) PROVE Times(w2.best[e.to], e.score) <= w2.best[n]
      <4>1. e.to \in w2.reach /\ e.score \in 0 .. Unit
        BY OutType
      <4>2. w2.best[e.to] = w.best[e.to] /\ w.best[e.to] \in Nat
        BY <1>1, <2>4, <2>7, <4>1
      <4>3. CASE e.to = top
        <5>1. e \in Out(g, n, {top}, S)
          BY <4>3 DEF Out
        <5>2. Times(w.best[top], e.score) <= w2.best[n]
          BY <2>2, <5>1 DEF Pushed
        <5> QED BY <4>2, <4>3, <5>2
      <4>4. CASE e.to # top
        <5>1. e \in Out(g, n, w.reach, S)
          BY <2>2, <4>1, <4>4 DEF Out
        <5>2. Times(w.best[e.to], e.score) <= w.best[n]
          BY <5>1 DEF Reached
        <5>3. Times(w.best[e.to], e.score) \in Nat
          BY <4>1, <4>2, TimesGrows
        <5> QED BY <2>4, <4>2, <5>2, <5>3
      <4> QED BY <4>3, <4>4
    <3> QED BY <3>1, <3>2
  <2>9. ASSUME NEW n \in X PROVE w2.best[n] <= b[k + 2][n]
    <3>1. /\ Grows(b[k + 1], g, A, S, b[k + 2]) /\ b[k + 1] \in [X -> Nat] /\ b[k + 2] \in [X -> Nat]
      <4>1. k + 1 \in 0 .. Hops - 1 /\ k + 1 \in 0 .. Hops /\ k + 2 \in 0 .. Hops /\ (k + 1) + 1 = k + 2
        BY <2>3, HopsType
      <4> QED BY <4>1 DEF Growing
    <3>2. b[k + 1][n] \in Nat /\ b[k + 2][n] \in Nat /\ b[k + 1][n] <= b[k + 2][n] /\ w.best[n] <= b[k + 1][n]
      BY <3>1 DEF Grows, Reached
    <3>3. CASE w2.best[n] = w.best[n]
      BY <2>4, <3>2, <3>3
    <3>4. ASSUME NEW e \in Out(g, n, {top}, S), w2.best[n] = Times(w.best[top], e.score) PROVE w2.best[n] <= b[k + 2][n]
      <4>1. e.score \in 0 .. Unit /\ e.to = top /\ e \in Out(g, n, Messages, S)
        BY <2>5
      <4>2. b[k + 1][top] \in Nat /\ w.best[top] <= b[k + 1][top]
        BY <2>2, <3>1 DEF Reached
      <4>3. Times(w.best[top], e.score) <= Times(b[k + 1][top], e.score) /\ Times(b[k + 1][top], e.score) \in Nat
        BY <2>2, <4>1, <4>2, TimesGrows
      <4>4. Source(b[k + 1], e, A) = b[k + 1][top]
        BY <2>2, <4>1 DEF Source, Outside
      <4>5. Times(b[k + 1][top], e.score) <= b[k + 2][n]
        BY <3>1, <4>1, <4>4 DEF Grows
      <4> QED BY <2>4, <3>2, <3>4, <4>3, <4>5
    <3>5. w2.best[n] = w.best[n] \/ \E e \in Out(g, n, {top}, S) : w2.best[n] = Times(w.best[top], e.score)
      BY <2>2 DEF Pushed
    <3> QED BY <3>3, <3>4, <3>5
  <2>10. ASSUME NEW m \in w2.reach, NEW n \in X \ w2.reach PROVE w2.best[m] > 0 /\ w2.best[n] <= w2.best[m]
    <3>1. w2.best[m] = w.best[m] /\ m \in X /\ w.best[m] \in Nat /\ w.best[m] >= w.best[top] /\ w.best[m] > 0
      BY <1>1, <2>2, <2>4, <2>7 DEF Reached
    <3>2. w.best[n] <= w.best[top]
      BY <2>2, <2>6
    <3>3. w2.best[n] = w.best[n] \/ \E e \in Out(g, n, {top}, S) : w2.best[n] = Times(w.best[top], e.score)
      BY <2>2 DEF Pushed
    <3>4. w2.best[n] <= w.best[top]
      BY <2>5, <3>2, <3>3
    <3> QED BY <2>2, <2>4, <3>1, <3>4
  <2>11. \A m \in w2.reach : w2.best[m] > 0
    BY <1>1, <2>2, <2>4, <2>7 DEF Reached
  <2>12. Cardinality(w2.reach) + 1 = k + 2 /\ Cardinality(w2.reach) = i + 1 /\ i + 1 <= i + 1
    BY <2>3
  <2> QED BY <2>8, <2>9, <2>10, <2>11, <2>12 DEF Reached
<1> QED BY <1>2, <1>3
-----------------------------------------------------------------------------
(* What is settled at the end is the best there is.                        *)

\* More edges make no path worth less.
LEMMA GrowsOn ==
    ASSUME NEW g, NEW A, NEW S, NEW b, Growing(b, g, A, S), NEW k \in 0 .. Hops, NEW n \in Outside(A)
    PROVE  b[k][n] \in Nat /\ b[k][n] <= b[Hops][n]
<1> DEFINE W == {d \in Nat : d <= Hops - k => b[k][n] <= b[k + d][n]}
<1>1. Hops \in Nat /\ k \in Nat /\ Hops - k \in Nat
  BY HopsType
<1>2. \A i \in 0 .. Hops : b[i][n] \in Nat
  BY DEF Growing
<1>3. 0 \in W
  BY <1>1, <1>2
<1>4. ASSUME NEW d \in 0 .. (Hops - k) - 1, d \in W PROVE d + 1 \in W
  <2>1. k + d \in 0 .. Hops - 1 /\ k + d \in 0 .. Hops /\ (k + d) + 1 \in 0 .. Hops /\ (k + d) + 1 = k + (d + 1)
    BY <1>1
  <2>2. b[k + d][n] <= b[(k + d) + 1][n]
    BY <2>1 DEF Growing, Grows
  <2>3. b[k][n] <= b[k + d][n]
    BY <1>1, <1>4
  <2>4. b[k][n] <= b[k + (d + 1)][n]
    BY <1>2, <2>1, <2>2, <2>3
  <2> QED BY <2>4
<1> HIDE DEF W
<1>5. 0 .. (Hops - k) \subseteq W
  BY <1>1, <1>3, <1>4, UpTo
<1>6. Hops - k \in W /\ k + (Hops - k) = Hops
  BY <1>1, <1>5
<1> QED BY <1>2, <1>6 DEF W

\* The walk has settled its messages after its last step.
LEMMA ReachedRun ==
    ASSUME NEW g, Typed(g), NEW A, IsFiniteSet(A), A \cap Messages # {}, NEW S, NEW b, Growing(b, g, A, S),
           NEW h, Reaching(h, g, A, S)
    PROVE  Reached(h[Cap], Cap, b, g, A, S)
<1> DEFINE W == {i \in 0 .. Cap : Reached(h[i], i, b, g, A, S)}
<1>1. Cap \in Nat
  BY GraphAssumption
<1>2. 0 \in W
  <2>1. Reached(h[0], 0, b, g, A, S)
    BY ReachedStart DEF Reaching
  <2> QED BY <1>1, <2>1
<1>3. ASSUME NEW i \in 0 .. Cap - 1, i \in W PROVE i + 1 \in W
  <2>1. i \in Nat /\ i \in 0 .. Cap /\ i + 1 \in 0 .. Cap
    BY <1>1
  <2>2. h[i] \in SettleState(A) /\ h[i + 1] \in SettleState(A) /\ Settles(h[i], g, A, S, h[i + 1])
    BY <2>1 DEF Reaching
  <2>3. Reached(h[i], i, b, g, A, S)
    BY <1>3
  <2>4. Reached(h[i + 1], i + 1, b, g, A, S)
    BY <2>1, <2>2, <2>3, ReachedStep
  <2> QED BY <2>1, <2>4
<1> HIDE DEF W
<1>4. 0 .. Cap \subseteq W
  BY <1>1, <1>2, <1>3, UpTo
<1>5. Cap \in W
  BY <1>1, <1>4
<1> QED BY <1>5 DEF W

\* B is the most that a message still waiting is worth.
Waits(B, w, A) ==
    /\ B \in Nat /\ (Opens(w) = {} => B = 0)
    /\ \A n \in Outside(A) \ w.reach : w.best[n] <= B
    /\ \A m \in w.reach : B <= w.best[m]

\* There is such a bound.
LEMMA WaitsSome ==
    ASSUME NEW g, NEW A, A \cap Messages # {}, NEW S, NEW b, NEW i, NEW w \in SettleState(A), Reached(w, i, b, g, A, S)
    PROVE  \E B : Waits(B, w, A)
<1>1. w.reach \subseteq Outside(A) /\ w.best \in [Outside(A) -> Nat]
  BY DEF SettleState
<1>2. \A n \in Outside(A) \ w.reach : w.best[n] \in Nat /\ (n \in Opens(w) \/ w.best[n] = 0)
  BY <1>1 DEF Opens
<1>3. \A m \in w.reach : w.best[m] \in Nat
  BY <1>1
<1>4. CASE Opens(w) = {}
  <2>1. \A n \in Outside(A) \ w.reach : w.best[n] <= 0
    BY <1>2, <1>4
  <2>2. \A m \in w.reach : 0 <= w.best[m]
    BY <1>3
  <2>3. Waits(0, w, A)
    BY <2>1, <2>2 DEF Waits
  <2> QED BY <2>3
<1>5. CASE Opens(w) # {}
  <2>1. PICK O : O = Opens(w)
    OBVIOUS
  <2>2. O \subseteq Outside(A) \ w.reach
    BY <1>1, <2>1 DEF Opens
  <2>3. IsFiniteSet(O)
    BY <2>2, OutsideSmall, FS_Subset
  <2>4. \E m \in O : \A n \in O : w.best[m] >= w.best[n]
    <3> DEFINE val == [m \in O |-> w.best[m]]
    <3>1. val \in [O -> Int] /\ \A m \in O : val[m] = w.best[m]
      BY <1>2, <2>2
    <3> HIDE DEF val
    <3>2. \E m \in O : \A n \in O : val[m] >= val[n]
      BY <1>5, <2>1, <2>3, <3>1, Greatest
    <3> QED BY <3>1, <3>2
  <2>5. PICK top \in O : \A n \in O : w.best[top] >= w.best[n]
    BY <2>4
  <2>6. PICK B : B = w.best[top]
    OBVIOUS
  <2>7. B \in Nat
    BY <1>2, <2>2, <2>6
  <2>8. \A n \in Outside(A) \ w.reach : w.best[n] <= B
    BY <1>2, <2>1, <2>5, <2>6, <2>7
  <2>9. \A m \in w.reach : B <= w.best[m]
    BY <2>2, <2>6 DEF Reached
  <2>10. Waits(B, w, A)
    BY <1>5, <2>7, <2>8, <2>9 DEF Waits
  <2> QED BY <2>10
<1> QED BY <1>4, <1>5

\* No path is worth more than its message was settled at, or than what still waits.
LEMMA Settled ==
    ASSUME NEW g, Typed(g), NEW A, NEW S, NEW b, Growing(b, g, A, S), NEW i, NEW w \in SettleState(A),
           Reached(w, i, b, g, A, S), NEW B, Waits(B, w, A)
    PROVE  \A n \in Outside(A) : b[Hops][n] <= w.best[n] \/ b[Hops][n] <= B
<1> DEFINE X == Outside(A)
           W == {j \in 0 .. Hops : \A n \in X : b[j][n] <= w.best[n] \/ b[j][n] <= B}
<1>1. Hops \in Nat /\ B \in Nat
  BY HopsType DEF Waits
<1>2. /\ w.reach \subseteq X /\ \A n \in X : w.best[n] \in Nat
      /\ \A j \in 0 .. Hops, n \in X : b[j][n] \in Nat
  BY DEF SettleState, Growing
<1>3. 0 \in W
  <2>1. \A n \in X : b[0][n] = 0
    BY DEF Growing
  <2> QED BY <1>1, <2>1
<1>4. ASSUME NEW j \in 0 .. Hops - 1, j \in W PROVE j + 1 \in W
  <2>1. j \in 0 .. Hops /\ j + 1 \in 0 .. Hops
    BY <1>1
  <2>2. Grows(b[j], g, A, S, b[j + 1])
    BY DEF Growing
  <2>3. ASSUME NEW n \in X PROVE b[j + 1][n] <= w.best[n] \/ b[j + 1][n] <= B
    <3>1. CASE b[j + 1][n] = b[j][n]
      BY <1>4, <3>1
    <3>2. ASSUME NEW e \in Out(g, n, Messages, S), b[j + 1][n] = Times(Source(b[j], e, A), e.score)
          PROVE  b[j + 1][n] <= w.best[n] \/ b[j + 1][n] <= B
      <4>1. e.to \in Messages /\ e.score \in 0 .. Unit
        BY OutType DEF Edge
      <4>2. CASE e.to \in A
        <5>1. e \in Out(g, n, A, S)
          BY <4>2 DEF Out
        <5>2. Times(One, e.score) <= w.best[n]
          BY <5>1 DEF Reached
        <5> QED BY <3>2, <4>2, <5>2 DEF Source
      <4>3. CASE e.to \in w.reach
        <5>1. e.to \in X /\ e.to \notin A
          BY <1>2, <4>3 DEF Outside
        <5>2. e \in Out(g, n, w.reach, S)
          BY <4>3 DEF Out
        <5>3. Times(w.best[e.to], e.score) <= w.best[n]
          BY <5>2 DEF Reached
        <5>4. PICK p, q : p = b[j][e.to] /\ q = w.best[e.to]
          OBVIOUS
        <5>5. p \in Nat /\ q \in Nat /\ B <= q
          BY <1>2, <2>1, <4>3, <5>1, <5>4 DEF Waits
        <5>6. p <= q \/ p <= B
          BY <1>4, <5>1, <5>4
        <5>7. p <= q
          BY <1>1, <5>5, <5>6
        <5>8. Times(p, e.score) <= Times(q, e.score) /\ Times(p, e.score) \in Nat /\ Times(q, e.score) \in Nat
          BY <4>1, <5>5, <5>7, TimesGrows
        <5>9. b[j + 1][n] = Times(p, e.score)
          BY <3>2, <5>1, <5>4 DEF Source
        <5> QED BY <1>2, <5>3, <5>4, <5>8, <5>9
      <4>4. CASE e.to \notin A /\ e.to \notin w.reach
        <5>1. e.to \in X /\ e.to \in X \ w.reach
          BY <4>1, <4>4 DEF Outside
        <5>2. PICK p : p = b[j][e.to]
          OBVIOUS
        <5>3. w.best[e.to] <= B /\ w.best[e.to] \in Nat /\ p \in Nat
          BY <1>2, <2>1, <5>1, <5>2 DEF Waits
        <5>4. p <= w.best[e.to] \/ p <= B
          BY <1>4, <5>1, <5>2
        <5>5. p <= B
          BY <1>1, <5>3, <5>4
        <5>6. Times(p, e.score) <= p /\ Times(p, e.score) \in Nat
          BY <4>1, <5>3, TimesGrows
        <5>7. b[j + 1][n] = Times(p, e.score)
          BY <3>2, <4>4, <5>2 DEF Source
        <5> QED BY <1>1, <5>3, <5>5, <5>6, <5>7
      <4> QED BY <4>2, <4>3, <4>4
    <3>3. b[j + 1][n] = b[j][n] \/ \E e \in Out(g, n, Messages, S) : b[j + 1][n] = Times(Source(b[j], e, A), e.score)
      BY <2>2 DEF Grows
    <3> QED BY <3>1, <3>2, <3>3
  <2> QED BY <2>1, <2>3
<1> HIDE DEF W
<1>5. 0 .. Hops \subseteq W
  BY <1>1, <1>3, <1>4, UpTo
<1>6. Hops \in W
  BY <1>1, <1>5
<1> QED BY <1>6 DEF W

\* R holds the messages found, the best of them when there are more than Cap.
Foremost(R, best, A) ==
    LET found == {m \in Messages \ A : best[m] > 0}
    IN /\ R \subseteq found
       /\ Cardinality(R) = Min({Cap, Cardinality(found)})
       /\ \A m \in R, n \in found \ R : best[m] >= best[n]

\* The least of two numbers is one of them.
LEMMA MinOfTwo ==
    ASSUME NEW p \in Nat, NEW q \in Nat, p <= q
    PROVE  Min({p, q}) = p
<1>1. IsFiniteSet({p, q})
  <2>1. PICK U, V : U = {p} /\ V = {q}
    OBVIOUS
  <2>2. IsFiniteSet(U) /\ IsFiniteSet(V)
    BY <2>1, FS_Singleton
  <2>3. IsFiniteSet(U \cup V)
    BY <2>2, FS_Union
  <2>4. U \cup V = {p, q}
    BY <2>1
  <2> QED BY <2>3, <2>4
<1>2. PICK X : X = {p, q}
  OBVIOUS
<1>3. X \subseteq Nat /\ X # {} /\ p \in X /\ \A x \in X : x = p \/ x = q
  BY <1>2
<1>4. Min(X) \in X /\ \A y \in X : Min(X) <= y
  BY <1>1, <1>2, <1>3, MinType
<1> QED BY <1>2, <1>3, <1>4

\* The walk keeps the best of what is found.
LEMMA ReachExact ==
    ASSUME NEW g, Typed(g), NEW A, IsFiniteSet(A), A \cap Messages # {}, NEW S
    PROVE  Reach(g, A, S) \subseteq Outside(A) /\ Foremost(Reach(g, A, S), BestInto(g, A, S), A)
<1>1. PICK b : Growing(b, g, A, S)
  BY BestIntoRun
<1>2. PICK h : Reaching(h, g, A, S)
  BY ReachRun
<1>3. PICK w : w = h[Cap]
  OBVIOUS
<1>4. Cap \in Nat /\ Hops \in Nat
  BY GraphAssumption, HopsType
<1>5. w \in SettleState(A) /\ Reach(g, A, S) = w.reach /\ BestInto(g, A, S) = b[Hops]
  <2>1. Cap \in 0 .. Cap
    BY <1>4
  <2> QED BY <1>1, <1>2, <1>3, <2>1 DEF Reaching, Growing
<1>6. Reached(w, Cap, b, g, A, S)
  BY <1>1, <1>2, <1>3, ReachedRun
<1>7. PICK B : Waits(B, w, A)
  BY <1>5, <1>6, WaitsSome
<1>8. PICK R, best : R = w.reach /\ best = b[Hops]
  OBVIOUS
<1>9. \A n \in Outside(A) : best[n] <= w.best[n] \/ best[n] <= B
  BY <1>1, <1>5, <1>6, <1>7, <1>8, Settled
<1>10. R \subseteq Outside(A) /\ \A n \in Outside(A) : w.best[n] \in Nat /\ best[n] \in Nat
  <2>1. Hops \in 0 .. Hops
    BY <1>4
  <2> QED BY <1>1, <1>5, <1>8, <2>1 DEF SettleState, Growing
<1>11. IsFiniteSet(R) /\ Cardinality(R) \in Nat /\ Cardinality(R) + 1 \in 1 .. Hops
  BY <1>10, OutsideSmall
<1>12. \A n \in Outside(A) : w.best[n] <= best[n]
  <2> SUFFICES ASSUME NEW n \in Outside(A) PROVE w.best[n] <= best[n]
    OBVIOUS
  <2>1. PICK k : k = Cardinality(R) + 1
    OBVIOUS
  <2>2. k \in 0 .. Hops
    BY <1>4, <1>11, <2>1
  <2>3. b[k][n] \in Nat /\ b[k][n] <= b[Hops][n]
    BY <1>1, <2>2, GrowsOn
  <2>4. w.best[n] <= b[k][n]
    BY <1>6, <1>8, <2>1 DEF Reached
  <2> QED BY <1>8, <1>10, <2>3, <2>4
<1> DEFINE found == {m \in Messages \ A : best[m] > 0}
<1>13. found \subseteq Outside(A) /\ \A m \in found : best[m] > 0
  BY DEF Outside
<1>14. ASSUME NEW m \in R PROVE best[m] > 0 /\ best[m] >= B /\ m \in found
  <2>1. m \in Outside(A) /\ w.best[m] > 0 /\ B <= w.best[m] /\ w.best[m] \in Nat /\ best[m] \in Nat /\ w.best[m] <= best[m]
    BY <1>6, <1>7, <1>8, <1>10, <1>12 DEF Reached, Waits
  <2>2. B \in Nat
    BY <1>7 DEF Waits
  <2>3. best[m] > 0 /\ best[m] >= B
    BY <2>1, <2>2
  <2> QED BY <2>1, <2>3 DEF Outside
<1>15. ASSUME NEW n \in found \ R PROVE best[n] <= B
  <2>1. n \in Outside(A) \ w.reach
    BY <1>8, <1>13
  <2>2. w.best[n] <= B /\ B \in Nat
    BY <1>7, <2>1 DEF Waits
  <2> QED BY <1>9, <1>10, <2>1, <2>2
<1>16. IsFiniteSet(found) /\ Cardinality(found) \in Nat
  BY <1>13, OutsideSmall
<1>17. Cardinality(R) <= Cardinality(found)
  <2>1. R \subseteq found
    BY <1>14
  <2> QED BY <1>16, <2>1, FS_Subset
<1>18. \A m \in R, n \in found \ R : best[m] >= best[n]
  <2> SUFFICES ASSUME NEW m \in R, NEW n \in found \ R PROVE best[m] >= best[n]
    OBVIOUS
  <2>1. best[m] >= B /\ best[n] <= B
    BY <1>14, <1>15
  <2>2. best[m] \in Nat /\ best[n] \in Nat /\ B \in Nat
    BY <1>7, <1>10, <1>13 DEF Waits
  <2> QED BY <2>1, <2>2
<1>19. Cardinality(R) = Min({Cap, Cardinality(found)})
  <2>1. CASE Cardinality(R) = Cap
    <3>1. Cap <= Cardinality(found)
      BY <1>17, <2>1
    <3>2. Min({Cap, Cardinality(found)}) = Cap
      BY <1>4, <1>16, <3>1, MinOfTwo
    <3> QED BY <2>1, <3>2
  <2>2. CASE Cardinality(R) # Cap
    <3>1. Opens(w) = {} /\ Cardinality(R) <= Cap
      BY <1>6, <1>8, <2>2 DEF Reached
    <3>2. B = 0
      BY <1>7, <3>1 DEF Waits
    <3>3. found \ R = {}
      <4> SUFFICES ASSUME NEW n \in found \ R PROVE FALSE
        OBVIOUS
      <4>1. best[n] <= 0 /\ best[n] > 0 /\ best[n] \in Nat
        BY <1>10, <1>13, <1>15, <3>2
      <4> QED BY <4>1
    <3>4. R = found
      BY <1>14, <3>3
    <3>5. Min({Cardinality(found), Cap}) = Cardinality(found)
      BY <1>4, <1>16, <3>1, <3>4, MinOfTwo
    <3>6. {Cardinality(found), Cap} = {Cap, Cardinality(found)}
      OBVIOUS
    <3> QED BY <3>4, <3>5, <3>6
  <2> QED BY <2>1, <2>2
<1>20. R \subseteq found
  BY <1>14
<1>21. Foremost(R, best, A)
  BY <1>18, <1>19, <1>20 DEF Foremost
<1> QED BY <1>5, <1>8, <1>10, <1>21

\* What each message comes to is what its paths come to.
LEMMA MassOfWalk ==
    ASSUME NEW g, Counted(g), NEW A, IsFiniteSet(A), A \cap Messages # {}, NEW S
    PROVE  MassIsExact(g, A, S)
<1>1. Typed(g)
  BY DEF Counted
<1>2. PICK R : R = Reach(g, A, S)
  OBVIOUS
<1>3. R \subseteq Outside(A) /\ Foremost(R, BestInto(g, A, S), A)
  BY <1>1, <1>2, ReachExact
<1>4. R \subseteq Messages /\ A \cap R = {} /\ Cardinality(R) < Hops
  BY <1>3, OutsideSmall DEF Outside
<1>5. Drain(g, A, R, S) \in Masses(R)
  BY <1>4, DrainMasses
<1>6. DOMAIN Mass(g, A, S) = R
  BY <1>2, <1>4, <1>5, MassDomain
<1>7. Acyclic(g, R, S) => Mass(g, A, S) = PathSum(g, A, R, S)
  BY <1>2, <1>4, MassOfPaths
<1> QED BY <1>3, <1>6, <1>7 DEF MassIsExact, Foremost
-----------------------------------------------------------------------------
(* The inductive invariant.                                                *)

\* Ids in the order of insertion; a turn holds its thread's newest messages.
Ids(own, trn) ==
    /\ DOMAIN own \subseteq Messages
    /\ \A m \in DOMAIN own, n \in Messages \ DOMAIN own : m < n
    /\ \A t \in DOMAIN trn :
          /\ trn[t] \subseteq {m \in DOMAIN own : own[m] = t}
          /\ \A m \in DOMAIN own \ trn[t], n \in trn[t] : own[m] = t => m < n

\* Edges between messages inserted, provenance forward.
Edges(rows, own, sem) ==
    /\ IsFiniteSet(rows) /\ rows \subseteq Edge
    /\ \A e \in rows : e.from \in DOMAIN own /\ e.to \in DOMAIN own /\ Forward(e, own, sem)

\* What a call would record as contributing to its anchor is older than it, or a
\* tool step, or of another thread.
Pending(c, own, sem) ==
    /\ c.anchor \in DOMAIN own /\ c.record \subseteq DOMAIN own /\ DOMAIN c.picked \subseteq DOMAIN own
    /\ \A m \in (c.record \cup DOMAIN c.picked) \ {c.anchor} :
          own[m] = own[c.anchor] => m < c.anchor \/ m \notin sem
    /\ \A m \in DOMAIN c.picked : c.picked[m] \in 0 .. Unit
    /\ Edges(c.edges, own, sem)

Corpus == Ids(owner, turn) /\ stored \subseteq DOMAIN owner /\ indexed \subseteq DOMAIN owner
Banked == Edges(BagToSet(dag), owner, semantic) /\ Edges(disk, owner, semantic)
Calls  == /\ pc \in [Threads -> {"idle", "selected", "sent"}]
          /\ DOMAIN call = Threads
          /\ \A t \in Threads : pc[t] # "idle" => Pending(call[t], owner, semantic)

\* The turn of a call that is assembled is as it was selected for, or deleted.
Focused == \A t \in Threads : pc[t] = "selected" => turn[t] = {} \/ turn[t] \cap semantic # {}

EngineInv == Corpus /\ Banked /\ Calls /\ Focused

\* AddEdge, as a set of edges.
LEMMA AddedEdges ==
    ASSUME NEW a, NEW b PROVE BagToSet(a (+) SetToBag(b)) = BagToSet(a) \cup b
<1>1. BagToSet(SetToBag(b)) = b
  BY DEF BagToSet, SetToBag
<1>2. BagToSet(a (+) SetToBag(b)) = BagToSet(a) \cup BagToSet(SetToBag(b))
  BY Zenon DEF BagToSet, (+)
<1> QED BY <1>1, <1>2, Zenon

\* The load of the rows.
LEMMA LoadedEdges ==
    ASSUME NEW b PROVE BagToSet(SetToBag(b)) = b
BY DEF BagToSet, SetToBag

\* Edges banked join those there are.
LEMMA EdgesUnion ==
    ASSUME NEW own, NEW sem, NEW X, NEW Y, Edges(X, own, sem), Edges(Y, own, sem)
    PROVE  Edges(X \cup Y, own, sem) /\ Edges(InsertEdges(X, Y), own, sem)
<1>1. IsFiniteSet(X \cup Y)
  BY FS_Union DEF Edges
<1>2. Edges(X \cup Y, own, sem)
  BY <1>1 DEF Edges
<1>3. InsertEdges(X, Y) \subseteq X \cup Y
  BY DEF InsertEdges
<1>4. IsFiniteSet(InsertEdges(X, Y))
  BY <1>1, <1>3, FS_Subset
<1> QED BY <1>2, <1>3, <1>4 DEF Edges

\* Rows may go.
LEMMA EdgesSubset ==
    ASSUME NEW own, NEW sem, NEW X, Edges(X, own, sem), NEW Y, Y \subseteq X
    PROVE  Edges(Y, own, sem)
<1>1. IsFiniteSet(Y)
  BY FS_Subset DEF Edges
<1> QED BY <1>1 DEF Edges

\* A message inserted changes nothing of those before it.
Extends(own, sem, own2, sem2) ==
    /\ DOMAIN own \subseteq DOMAIN own2
    /\ \A x \in DOMAIN own : own2[x] = own[x] /\ (x \in sem2 <=> x \in sem)

\* Edges banked stay as they are.
LEMMA EdgesExtend ==
    ASSUME NEW own, NEW sem, NEW own2, NEW sem2, Extends(own, sem, own2, sem2),
           NEW X, Edges(X, own, sem)
    PROVE  Edges(X, own2, sem2)
BY DEF Edges, Extends, Forward

\* So does what a call would record.
LEMMA PendingExtend ==
    ASSUME NEW own, NEW sem, NEW own2, NEW sem2, Extends(own, sem, own2, sem2),
           NEW c, Pending(c, own, sem)
    PROVE  Pending(c, own2, sem2)
<1>1. Edges(c.edges, own2, sem2)
  BY EdgesExtend DEF Pending
<1> QED BY <1>1 DEF Pending, Extends

\* What a call records runs forward.
LEMMA ProvenanceForward ==
    ASSUME NEW own, NEW sem, DOMAIN own \subseteq Messages, NEW c, Pending(c, own, sem)
    PROVE  Edges(ProvenanceEdges(c), own, sem)
<1> DEFINE X    == (c.record \cup {x \in DOMAIN c.picked : c.picked[x] > 0}) \ {c.anchor}
           E(m) == [from |-> m, to |-> c.anchor, src |-> "prov", raw |-> 0,
                    score |-> IF m \in c.record THEN Unit ELSE c.picked[m]]
<1>1. X \subseteq Messages /\ IsFiniteSet(X)
  BY GraphAssumption, FS_Subset DEF Pending
<1>2. ProvenanceEdges(c) = {E(m) : m \in X}
  BY DEF ProvenanceEdges
<1>3. IsFiniteSet({E(m) : m \in X})
  <2> DEFINE f == [m \in X |-> E(m)]
  <2>1. f \in Surjection(X, {E(m) : m \in X})
    <3> HIDE DEF X, E
    <3> QED BY DEF Surjection
  <2> HIDE DEF X, E, f
  <2> QED BY <1>1, <2>1, FS_Surjection
<1>4. ASSUME NEW m \in X
      PROVE  /\ E(m) \in Edge /\ Forward(E(m), own, sem)
             /\ E(m).from \in DOMAIN own /\ E(m).to \in DOMAIN own
  <2>1. m \in c.record \/ c.picked[m] \in 0 .. Unit
    BY DEF Pending
  <2>2. E(m).score \in 0 .. Unit /\ 0 \in 0 .. Unit
    BY <2>1, GraphAssumption
  <2>3. m \in Messages /\ c.anchor \in Messages
    BY <1>1 DEF Pending
  <2>4. E(m) \in Edge
    BY <2>2, <2>3 DEF Edge
  <2> QED BY <2>4 DEF Pending, Forward
<1> QED BY <1>2, <1>3, <1>4 DEF Edges

\* It holds of the store the program starts with.
THEOREM EngineInit == Init => EngineInv
<1> SUFFICES ASSUME NEW h \in Histories,
                    scorer = h.scorer, owner = h.owner, semantic = DOMAIN h.owner \ h.tools,
                    stored = DOMAIN h.owner, turn = h.turn, live = DOMAIN h.turn, indexed = stored,
                    disk = h.disk, dag = SetToBag(h.disk),
                    pc = [t \in live |-> "idle"], call = [t \in live |-> NoCall]
             PROVE  EngineInv
  BY DEF Init
<1>1. ValidStore(owner, semantic, turn, h.prev, disk) /\ disk \subseteq Edge
  BY HistoryAssumption
<1>2. Corpus
  BY <1>1 DEF Corpus, Ids, ValidStore
<1>4. Edges(disk, owner, semantic)
  BY <1>1 DEF Edges, ValidStore
<1>5. BagToSet(dag) = disk
  BY LoadedEdges
<1>6. Banked
  BY <1>4, <1>5 DEF Banked
<1>7. Calls /\ Focused
  BY DEF Calls, Focused, Threads
<1> QED BY <1>2, <1>6, <1>7 DEF EngineInv

\* The insertion of a message.
LEMMA StoreStep ==
    ASSUME Corpus, NEW t \in Threads, NEW kind, NEW newTurn \in BOOLEAN, Store(t, kind, newTurn)
    PROVE  /\ Corpus' /\ Extends(owner, semantic, owner', semantic') /\ Threads' = Threads
           /\ semantic \subseteq semantic' /\ \A u \in Threads \ {t} : turn'[u] = turn[u]
<1>1. PICK m : m = Min(Unused)
  OBVIOUS
<1>2. /\ owner' = [x \in DOMAIN owner \cup {m} |-> IF x = m THEN t ELSE owner[x]]
      /\ semantic' = IF kind = "semantic" THEN semantic \cup {m} ELSE semantic
      /\ stored' = stored \cup {m} /\ indexed' = indexed \cup {m}
      /\ turn' = [turn EXCEPT ![t] = IF newTurn THEN {m} ELSE @ \cup {m}]
  BY <1>1 DEF Store
<1>3. Unused # {} /\ Unused \subseteq Nat /\ IsFiniteSet(Unused)
  BY GraphAssumption, FS_Subset DEF Store, Unused
<1>4. m \in Unused /\ \A y \in Unused : m <= y
  BY <1>1, <1>3, MinType
<1>5. m \in Messages \ DOMAIN owner /\ m \in Nat
  BY <1>3, <1>4 DEF Unused
<1>6. /\ DOMAIN owner' = DOMAIN owner \cup {m}
      /\ \A x \in DOMAIN owner : owner'[x] = owner[x]
      /\ owner'[m] = t
  BY <1>2, <1>5
<1>7. /\ DOMAIN turn' = DOMAIN turn
      /\ \A u \in DOMAIN turn : turn'[u] = IF u = t THEN (IF newTurn THEN {m} ELSE turn[t] \cup {m}) ELSE turn[u]
  BY <1>2 DEF Threads
<1>8. Extends(owner, semantic, owner', semantic')
  BY <1>2, <1>5, <1>6 DEF Extends
<1>9. Ids(owner', turn')
  <2>1. DOMAIN owner' \subseteq Messages
    BY <1>5, <1>6 DEF Corpus, Ids
  <2>2. ASSUME NEW x \in DOMAIN owner', NEW y \in Messages \ DOMAIN owner' PROVE x < y
    <3>1. y \in Unused /\ y # m /\ y \in Nat
      BY <1>3, <1>6 DEF Unused
    <3>2. CASE x \in DOMAIN owner
      BY <3>1, <3>2 DEF Corpus, Ids, Unused
    <3>3. CASE x = m
      BY <1>4, <1>5, <3>1, <3>3
    <3> QED BY <1>6, <3>2, <3>3
  <2>3. ASSUME NEW u \in DOMAIN turn'
        PROVE  /\ turn'[u] \subseteq {x \in DOMAIN owner' : owner'[x] = u}
               /\ \A x \in DOMAIN owner' \ turn'[u], y \in turn'[u] : owner'[x] = u => x < y
    <3>1. /\ turn[u] \subseteq {x \in DOMAIN owner : owner[x] = u}
          /\ \A x \in DOMAIN owner \ turn[u], y \in turn[u] : owner[x] = u => x < y
      BY <1>7, <2>3 DEF Corpus, Ids
    <3>2. \A x \in DOMAIN owner : x < m
      BY <1>5 DEF Corpus, Ids
    <3>3. CASE u # t
      BY <1>5, <1>6, <1>7, <2>3, <3>1, <3>3
    <3>4. CASE u = t
      <4>1. turn'[u] = {m} \/ turn'[u] = turn[u] \cup {m}
        BY <1>7, <2>3, <3>4
      <4> QED BY <1>6, <3>1, <3>2, <3>4, <4>1
    <3> QED BY <3>3, <3>4
  <2> QED BY <2>1, <2>2, <2>3 DEF Ids
<1>10. stored' \subseteq DOMAIN owner' /\ indexed' \subseteq DOMAIN owner'
  BY <1>2, <1>6 DEF Corpus
<1> QED BY <1>2, <1>7, <1>8, <1>9, <1>10 DEF Corpus, Threads

\* Two confidences joined are a confidence.
LEMMA JointType ==
    ASSUME NEW p \in 0 .. Unit, NEW q \in 0 .. Unit
    PROVE  Joint(p, q) \in 0 .. Unit
<1> DEFINE a == Unit - p
           b == Unit - q
           d == (a * b) \div Unit
<1>1. Unit \in Nat \ {0}
  BY GraphAssumption
<1>2. a \in Nat /\ b \in 0 .. Unit /\ a <= Unit
  BY <1>1
<1>3. d \in Nat /\ d <= a
  <2> HIDE DEF a, b
  <2>1. a \in Nat /\ a <= a /\ b \in 0 .. Unit
    BY <1>2
  <2>2. Times(a, b) \in Nat /\ Times(a, b) <= a
    BY <2>1, TimesGrows, Zenon
  <2>3. d = Times(a, b)
    BY Zenon DEF Times
  <2> QED BY <2>2, <2>3
<1>4. Unit - d \in 0 .. Unit
  <2> HIDE DEF a, d
  <2> QED BY <1>1, <1>2, <1>3
<1> QED BY <1>4 DEF Joint

\* A verdict is given to candidates, and is a number.
LEMMA AcceptedType ==
    ASSUME NEW t, NEW raw, NEW X, raw \in [X -> Raws], NEW floor, NEW mass,
           NEW verdict \in Accepted(t, raw, floor, mass)
    PROVE  DOMAIN verdict \subseteq X /\ \A m \in DOMAIN verdict : verdict[m] \in 0 .. Unit /\ raw[m] \in 0 .. Unit
<1> DEFINE binding == price[t] = "binding"
<1>1. PICK K \in SUBSET DOMAIN raw : verdict \in Pick(K, LAMBDA m : Verdicts(m, raw, floor, mass, binding))
  <2> DEFINE able == {m \in DOMAIN raw : ~Flat(raw) /\ Verdicts(m, raw, floor, mass, binding) # {}}
             kept == IF floor # NoFloor /\ binding THEN SUBSET able ELSE {able}
  <2>1. verdict \in UNION {Pick(K, LAMBDA m : Verdicts(m, raw, floor, mass, binding)) : K \in kept}
    BY Zenon DEF Accepted
  <2>2. PICK K \in kept : verdict \in Pick(K, LAMBDA m : Verdicts(m, raw, floor, mass, binding))
    <3> HIDE DEF kept
    <3> QED BY <2>1, Zenon
  <2>3. kept \subseteq SUBSET DOMAIN raw
    OBVIOUS
  <2> QED BY <2>2, <2>3, Zenon
<1>2. DOMAIN verdict = K /\ \A m \in K : verdict[m] \in Verdicts(m, raw, floor, mass, binding)
  BY <1>1, Zenon DEF Pick
<1>3. \A m \in X : raw[m] \in 0 .. Unit
  BY EngineAssumption
<1>4. Loss \in 0 .. Unit /\ Beat \in 0 .. Unit
  BY GraphAssumption
<1>5. ASSUME NEW m \in K PROVE verdict[m] \in 0 .. Unit
  <2>1. \A p, q \in {Loss, Beat} : Joint(p, q) \in 0 .. Unit
    BY <1>4, JointType
  <2> DEFINE jointly(P, Q) == {Joint(p, q) : p \in P, q \in Q}
  <2>2. \A P, Q \in SUBSET {Loss, Beat} : jointly(P, Q) \subseteq 0 .. Unit
    BY <2>1
  <2>3. PICK P, Q \in SUBSET {Loss, Beat} :
           Verdicts(m, raw, floor, mass, binding) \subseteq {raw[m]} \cup P \cup Q \cup jointly(P, Q)
    <3> DEFINE P == IF BeatsAll(raw[m], floor) THEN {Beat} ELSE {}
               Q == IF MassDetected(m, mass) THEN {Loss, Beat} ELSE {}
    <3>1. P \in SUBSET {Loss, Beat} /\ Q \in SUBSET {Loss, Beat}
      OBVIOUS
    <3>2. Verdicts(m, raw, floor, mass, binding) \subseteq {raw[m]} \cup P \cup Q \cup jointly(P, Q)
      BY DEF Verdicts
    <3> HIDE DEF P, Q, jointly
    <3> QED BY <3>1, <3>2
  <2> HIDE DEF jointly
  <2>4. P \subseteq 0 .. Unit /\ Q \subseteq 0 .. Unit
    BY <1>4
  <2> QED BY <1>2, <1>3, <2>2, <2>3, <2>4
<1> QED BY <1>2, <1>3, <1>5

\* The edges an event forms.
LEMMA FormedType ==
    ASSUME NEW X, X \subseteq DOMAIN owner, DOMAIN owner \subseteq Messages, NEW raw, NEW verdict,
           DOMAIN verdict \subseteq X, \A m \in DOMAIN verdict : verdict[m] \in 0 .. Unit /\ raw[m] \in 0 .. Unit,
           NEW a \in DOMAIN owner
    PROVE  Edges(FormedEdges(a, raw, verdict), owner, semantic)
<1> DEFINE D    == DOMAIN verdict
           E(m) == [from |-> m, to |-> a, src |-> "ce", score |-> verdict[m], raw |-> raw[m]]
           f    == [m \in D |-> E(m)]
<1>1. IsFiniteSet(D)
  BY GraphAssumption, FS_Subset
<1>2. FormedEdges(a, raw, verdict) = {E(m) : m \in D}
  BY DEF FormedEdges
<1>3. f \in Surjection(D, {E(m) : m \in D})
  <2> HIDE DEF D, E
  <2> QED BY DEF Surjection
<1>4. IsFiniteSet({E(m) : m \in D})
  <2> HIDE DEF D, E, f
  <2> QED BY <1>1, <1>3, FS_Surjection
<1>5. ASSUME NEW m \in D
      PROVE  /\ E(m).from \in DOMAIN owner /\ E(m).to \in DOMAIN owner
             /\ E(m).src = "ce" /\ E(m) \in Edge
  BY DEF Edge
<1> QED BY <1>2, <1>4, <1>5 DEF Edges, Forward

\* The choices of an event: what it banks and what it selects.
Event(t, scope, verdict, raw, floor, picked) ==
    LET S     == InScope(t, scope)
        grown == dag (+) SetToBag(FormedEdges(Anchor(t), raw, verdict))
    IN /\ dag' = grown
       /\ picked \in Selected(grown, Anchor(t), S, floor)
       /\ call' = [call EXCEPT ![t] = [anchor |-> Anchor(t), record |-> turn[t], window |-> Window(t),
                                       picked |-> picked, edges |-> FormedEdges(Anchor(t), raw, verdict)]]

\* An event makes such choices.
LEMMA SelectEvent ==
    ASSUME Corpus, NEW t \in Threads, NEW scope, Select(t, scope)
    PROVE  \E raw, verdict, floor, picked :
              /\ DOMAIN verdict \subseteq DOMAIN owner
              /\ \A m \in DOMAIN verdict : verdict[m] \in 0 .. Unit /\ raw[m] \in 0 .. Unit
              /\ floor \in Levels
              /\ Event(t, scope, verdict, raw, floor, picked)
<1>1. PICK mass : mass = Mass(dag, Window(t), InScope(t, scope))
  OBVIOUS
<1>2. PICK found \in Retrieved(t, scope) : \E raw \in ScoreReached(found, mass) :
          \E floor \in ReferenceFloors(raw) : \E verdict \in Accepted(t, raw, floor, mass) :
             \E picked : Event(t, scope, verdict, raw, floor, picked)
  BY <1>1, Zenon DEF Select, Event
<1>3. PICK raw \in ScoreReached(found, mass) :
          \E floor \in ReferenceFloors(raw) : \E verdict \in Accepted(t, raw, floor, mass) :
             \E picked : Event(t, scope, verdict, raw, floor, picked)
  BY <1>2, Zenon
<1>4. PICK floor \in ReferenceFloors(raw) : \E verdict \in Accepted(t, raw, floor, mass) :
             \E picked : Event(t, scope, verdict, raw, floor, picked)
  BY <1>3, Zenon
<1>5. PICK verdict \in Accepted(t, raw, floor, mass) : \E picked : Event(t, scope, verdict, raw, floor, picked)
  BY <1>4, Zenon
<1>6. floor \in Levels
  BY EngineAssumption DEF ReferenceFloors, Levels
<1>7. Candidates(found, mass) \subseteq DOMAIN owner
  BY DEF Candidates, ChunksForMessages, Retrieved, Eligible, Corpus
<1>8. raw \in [Candidates(found, mass) -> Raws]
  BY DEF ScoreReached
<1>9. PICK X : X = Candidates(found, mass)
  OBVIOUS
<1>10. raw \in [X -> Raws] /\ X \subseteq DOMAIN owner
  BY <1>7, <1>8, <1>9
<1>11. DOMAIN verdict \subseteq X /\ \A m \in DOMAIN verdict : verdict[m] \in 0 .. Unit /\ raw[m] \in 0 .. Unit
  BY <1>10, AcceptedType
<1> QED BY <1>5, <1>6, <1>10, <1>11

\* The anchor is the latest discourse of the turn.
LEMMA AnchorType ==
    ASSUME Corpus, NEW t \in Threads, turn[t] \cap semantic # {}
    PROVE  Anchor(t) \in turn[t] /\ \A m \in turn[t] \cap semantic : m <= Anchor(t)
<1>1. turn[t] \subseteq Messages
  BY DEF Corpus, Ids, Threads
<1>2. turn[t] \cap semantic \subseteq Nat /\ IsFiniteSet(turn[t] \cap semantic)
  BY <1>1, GraphAssumption, FS_Subset
<1> QED BY <1>2, MaxType DEF Anchor

\* A selection event keeps the invariant.
LEMMA SelectStep ==
    ASSUME EngineInv, NEW t \in Threads, NEW scope \in Scopes, Select(t, scope)
    PROVE  EngineInv'
<1>1. PICK raw, verdict, floor, picked :
              /\ DOMAIN verdict \subseteq DOMAIN owner
              /\ \A m \in DOMAIN verdict : verdict[m] \in 0 .. Unit /\ raw[m] \in 0 .. Unit
              /\ floor \in Levels
              /\ Event(t, scope, verdict, raw, floor, picked)
  BY SelectEvent DEF EngineInv
<1>2. PICK a : a = Anchor(t)
  OBVIOUS
<1>3. a \in turn[t] /\ \A m \in turn[t] \cap semantic : m <= a
  BY <1>2, AnchorType DEF EngineInv, Select
<1>4. /\ turn[t] \subseteq {m \in DOMAIN owner : owner[m] = t} /\ DOMAIN owner \subseteq Messages
      /\ \A m \in DOMAIN owner \ turn[t], n \in turn[t] : owner[m] = t => m < n
  BY DEF EngineInv, Corpus, Ids, Threads
<1>5. PICK new : new = FormedEdges(a, raw, verdict)
  OBVIOUS
<1>6. Edges(new, owner, semantic)
  BY <1>1, <1>3, <1>4, <1>5, FormedType
<1>7. Edges(BagToSet(dag), owner, semantic) /\ Edges(disk, owner, semantic)
  BY DEF EngineInv, Banked
<1>8. /\ dag' = dag (+) SetToBag(new)
      /\ picked \in Selected(dag (+) SetToBag(new), a, InScope(t, scope), floor)
      /\ call' = [call EXCEPT ![t] = [anchor |-> a, record |-> turn[t], window |-> Window(t),
                                      picked |-> picked, edges |-> new]]
  BY <1>1, <1>2, <1>5, Zenon DEF Event
<1>9. BagToSet(dag') = BagToSet(dag) \cup new
  BY <1>8, AddedEdges
<1>10. Edges(BagToSet(dag'), owner, semantic)
  BY <1>6, <1>7, <1>9, EdgesUnion
<1>11. PICK g : g = dag (+) SetToBag(new)
  OBVIOUS
<1>12. Typed(g) /\ a \in Messages
  BY <1>3, <1>4, <1>8, <1>10, <1>11 DEF Typed, Edges
<1>13. DOMAIN picked \subseteq InScope(t, scope) /\ \A m \in DOMAIN picked : picked[m] \in 0 .. Unit
  <2>1. picked \in Selected(g, a, InScope(t, scope), floor)
    BY <1>8, <1>11
  <2> QED BY <1>1, <1>12, <2>1, SelectedType
<1>14. PICK c : c = [anchor |-> a, record |-> turn[t], window |-> Window(t), picked |-> picked, edges |-> new]
  OBVIOUS
<1>15. DOMAIN picked \subseteq DOMAIN owner
  BY <1>13 DEF InScope
<1>16. ASSUME NEW m \in DOMAIN owner, m # a, owner[m] = owner[a], m \in semantic PROVE m < a
  <2>1. owner[a] = t /\ m \in Nat /\ a \in Nat
    BY <1>3, <1>4, GraphAssumption
  <2>2. CASE m \in turn[t]
    BY <1>3, <1>16, <2>1, <2>2
  <2>3. CASE m \notin turn[t]
    BY <1>3, <1>4, <1>16, <2>1, <2>3
  <2> QED BY <2>2, <2>3
<1>17. Pending(c, owner, semantic)
  BY <1>3, <1>4, <1>6, <1>13, <1>14, <1>15, <1>16 DEF Pending
<1>18. /\ pc' = [pc EXCEPT ![t] = "selected"] /\ call' = [call EXCEPT ![t] = c]
       /\ UNCHANGED <<owner, semantic, stored, indexed, turn, disk>>
  BY <1>8, <1>14 DEF Select, corpus
<1>19. Calls'
  <2>1. Threads' = Threads
    BY <1>18 DEF Threads
  <2>2. ASSUME NEW u \in Threads, pc'[u] # "idle" PROVE Pending(call'[u], owner, semantic)
    BY <1>17, <1>18, <2>2 DEF EngineInv, Calls
  <2> QED BY <1>18, <2>1, <2>2 DEF EngineInv, Calls
<1>20. Corpus' /\ Banked'
  BY <1>7, <1>10, <1>18 DEF EngineInv, Corpus, Banked
<1>21. Focused'
  <2>1. turn[t] \cap semantic # {} /\ Threads' = Threads /\ DOMAIN pc = Threads
    BY <1>18 DEF Select, Threads, EngineInv, Calls
  <2> QED BY <1>18, <2>1 DEF EngineInv, Focused
<1> QED BY <1>19, <1>20, <1>21 DEF EngineInv

\* What a call that ends, or is under way, leaves of the calls.
LEMMA ReturnStep ==
    ASSUME NEW own, NEW sem, Threads' = Threads, NEW t \in Threads, Return(t), Calls,
           Extends(owner, semantic, own, sem), own = owner', sem = semantic'
    PROVE  Calls'
<1>1. ASSUME NEW u \in Threads, pc'[u] # "idle" PROVE Pending(call'[u], own, sem)
  <2>1. u # t /\ pc[u] # "idle" /\ call'[u] = call[u]
    BY <1>1 DEF Return, Calls
  <2> QED BY <2>1, PendingExtend DEF Calls
<1>2. pc' \in [Threads -> {"idle", "selected", "sent"}] /\ DOMAIN call' = Threads
  BY DEF Return, Calls
<1> QED BY <1>1, <1>2 DEF Calls

\* The provenance of a call joins the graph and the rows.
LEMMA RecordedStep ==
    ASSUME EngineInv, NEW t \in Threads, pc[t] = "sent", Recorded(t)
    PROVE  Edges(BagToSet(dag'), owner, semantic) /\ Edges(disk', owner, semantic)
<1>1. PICK new : new = ProvenanceEdges(call[t])
  OBVIOUS
<1>2. Pending(call[t], owner, semantic) /\ DOMAIN owner \subseteq Messages
  BY DEF EngineInv, Calls, Corpus, Ids
<1>3. Edges(new, owner, semantic)
  BY <1>1, <1>2, ProvenanceForward
<1>4. dag' = dag (+) SetToBag(new) /\ disk' = InsertEdges(disk, new)
  BY <1>1 DEF Recorded
<1>5. BagToSet(dag') = BagToSet(dag) \cup new
  BY <1>4, AddedEdges
<1>6. Edges(BagToSet(dag), owner, semantic) /\ Edges(disk, owner, semantic)
  BY DEF EngineInv, Banked
<1>7. Edges(BagToSet(dag) \cup new, owner, semantic)
  BY <1>3, <1>6, EdgesUnion
<1>8. Edges(InsertEdges(disk, new), owner, semantic)
  BY <1>3, <1>6, EdgesUnion
<1> QED BY <1>4, <1>5, <1>7, <1>8

\* Every operation keeps it.
THEOREM EngineStep == EngineInv /\ [Next]_vars => EngineInv'
<1> SUFFICES ASSUME EngineInv, [Next]_vars PROVE EngineInv'
  OBVIOUS
<1>i. Corpus /\ Banked /\ Calls /\ Focused /\ DOMAIN pc = Threads
  BY DEF EngineInv, Calls
<1>1. CASE Restart
  <2>1. BagToSet(dag') = disk
    BY <1>1, LoadedEdges DEF Restart
  <2>2. Threads' = Threads
    BY <1>1 DEF Restart, Threads
  <2>3. Calls' /\ Focused'
    BY <1>1, <2>2 DEF Restart, Calls, Focused
  <2> QED BY <1>i, <1>1, <2>1, <2>3 DEF Restart, EngineInv, Corpus, Banked
<1>2. ASSUME NEW t \in Threads, Post(t) PROVE EngineInv'
  <2>1. Store(t, "semantic", TRUE) /\ UNCHANGED <<pc, call, dag, disk>>
    BY <1>2 DEF Post
  <2>2. /\ Corpus' /\ Extends(owner, semantic, owner', semantic') /\ Threads' = Threads
        /\ semantic \subseteq semantic' /\ \A u \in Threads \ {t} : turn'[u] = turn[u]
    BY <1>i, <2>1, StoreStep
  <2>3. Banked'
    BY <1>i, <2>1, <2>2, EdgesExtend DEF Banked
  <2>4. Calls'
    BY <1>i, <2>1, <2>2, PendingExtend DEF Calls
  <2>5. Focused'
    <3>1. pc[t] = "idle"
      BY <1>2 DEF Post
    <3> QED BY <1>i, <2>1, <2>2, <3>1 DEF Focused
  <2> QED BY <2>2, <2>3, <2>4, <2>5 DEF EngineInv
<1>3. ASSUME NEW t \in Threads, Shed(t) PROVE EngineInv'
  <2>1. /\ pc[t] = "selected" /\ disk' = InsertEdges(disk, call[t].edges) /\ pc' = [pc EXCEPT ![t] = "sent"]
        /\ UNCHANGED <<owner, semantic, stored, indexed, turn, call, dag>> /\ Threads' = Threads
    BY <1>3 DEF Shed, corpus, Threads
  <2>2. Edges(call[t].edges, owner, semantic)
    BY <1>i, <2>1 DEF Calls, Pending
  <2>3. Edges(disk', owner, semantic)
    BY <1>i, <2>1, <2>2, EdgesUnion DEF Banked
  <2>4. Calls' /\ Focused'
    BY <1>i, <2>1 DEF Calls, Focused
  <2>5. Corpus' /\ Banked'
    BY <1>i, <2>1, <2>3 DEF Corpus, Banked
  <2> QED BY <2>4, <2>5 DEF EngineInv
<1>4. ASSUME NEW t \in Threads, CallFails(t) PROVE EngineInv'
  <2>1. Return(t) /\ UNCHANGED <<owner, semantic, stored, indexed, turn, dag, disk>> /\ Threads' = Threads
    BY <1>4 DEF CallFails, corpus, Threads
  <2>2. Extends(owner, semantic, owner', semantic')
    BY <2>1 DEF Extends
  <2>3. Calls'
    BY <1>i, <2>1, <2>2, ReturnStep
  <2>4. Corpus' /\ Banked'
    BY <1>i, <2>1 DEF Corpus, Banked
  <2>5. Focused'
    BY <1>i, <2>1 DEF Return, Focused
  <2> QED BY <2>3, <2>4, <2>5 DEF EngineInv
<1>5. ASSUME NEW t \in Threads, GenerateDeleted(t) PROVE EngineInv'
  <2>1. /\ pc[t] = "sent" /\ Recorded(t) /\ Return(t)
        /\ UNCHANGED <<owner, semantic, stored, indexed, turn>> /\ Threads' = Threads
    BY <1>5 DEF GenerateDeleted, corpus, Threads
  <2>2. Extends(owner, semantic, owner', semantic')
    BY <2>1 DEF Extends
  <2>3. Calls'
    BY <1>i, <2>1, <2>2, ReturnStep
  <2>4. Edges(BagToSet(dag'), owner, semantic) /\ Edges(disk', owner, semantic)
    BY <2>1, RecordedStep
  <2>5. Corpus' /\ Banked'
    BY <1>i, <2>1, <2>4 DEF Corpus, Banked
  <2>6. Focused'
    BY <1>i, <2>1 DEF Return, Focused
  <2> QED BY <2>3, <2>5, <2>6 DEF EngineInv
<1>6. ASSUME NEW t \in Threads, Delete(t) PROVE EngineInv'
  <2>1. /\ stored' \subseteq stored /\ turn' = [turn EXCEPT ![t] = {}] /\ disk' \subseteq disk
        /\ UNCHANGED <<owner, semantic, indexed, pc, call, dag>> /\ Threads' = Threads
    BY <1>6 DEF Delete, Threads
  <2>2. Ids(owner', turn')
    BY <1>i, <2>1 DEF Corpus, Ids
  <2>3. Edges(disk', owner, semantic)
    BY <1>i, <2>1, EdgesSubset DEF Banked
  <2>4. Corpus' /\ Banked'
    BY <1>i, <2>1, <2>2, <2>3 DEF Corpus, Banked
  <2>5. Calls' /\ Focused'
    BY <1>i, <2>1 DEF Calls, Focused, Threads
  <2> QED BY <2>4, <2>5 DEF EngineInv
<1>7. ASSUME NEW t \in Threads, NEW scope \in Scopes, Select(t, scope) PROVE EngineInv'
  BY <1>7, SelectStep
<1>8. ASSUME NEW t \in Threads, NEW kind \in {"semantic", "tool"}, Generate(t, kind) PROVE EngineInv'
  <2>1. pc[t] = "sent" /\ Recorded(t) /\ Return(t) /\ Store(t, kind, FALSE)
    BY <1>8 DEF Generate
  <2>2. /\ Corpus' /\ Extends(owner, semantic, owner', semantic') /\ Threads' = Threads
        /\ semantic \subseteq semantic' /\ \A u \in Threads \ {t} : turn'[u] = turn[u]
    BY <1>i, <2>1, StoreStep
  <2>3. Calls'
    BY <1>i, <2>1, <2>2, ReturnStep
  <2>4. Edges(BagToSet(dag'), owner, semantic) /\ Edges(disk', owner, semantic)
    BY <2>1, RecordedStep
  <2>5. Banked'
    BY <2>2, <2>4, EdgesExtend DEF Banked
  <2>6. Focused'
    <3>1. pc' = [pc EXCEPT ![t] = "idle"]
      BY <2>1 DEF Return
    <3> QED BY <1>i, <2>2, <3>1 DEF Focused
  <2> QED BY <2>2, <2>3, <2>5, <2>6 DEF EngineInv
<1>9. CASE UNCHANGED vars
  BY <1>i, <1>9 DEF vars, corpus, EngineInv, Corpus, Banked, Calls, Focused, Threads
<1> QED BY <1>1, <1>2, <1>3, <1>4, <1>5, <1>6, <1>7, <1>8, <1>9 DEF Next

\* It holds of every reachable state.
THEOREM EngineInvariant == Spec => []EngineInv
BY EngineInit, EngineStep, PTL DEF Spec

\* GenerationOrdered, of every reachable graph ("Provenance is generation-ordered",
\* provenanceMassWalk).
THEOREM GenerationOrderedHolds == Spec => []GenerationOrdered
<1>1. EngineInv => GenerationOrdered
  BY DEF EngineInv, Banked, Edges, GenerationOrdered
<1> QED BY <1>1, EngineInvariant, PTL

\* SelectionExact, of every graph a selection is made over (extractSubgraph, and
\* ApplyMMR over what it selects).
THEOREM SelectionExactHolds == Spec => []SelectionExact
<1>1. ASSUME EngineInv, NEW t \in Threads, NEW scope \in Scopes, NEW floor \in Floors,
             pc[t] = "selected", turn[t] # {}
      PROVE  LET got == Extract(dag, Anchor(t), InScope(t, scope), floor)
             IN /\ SelectionIsExact(dag, Anchor(t), InScope(t, scope), floor)
                /\ RerankSound([m \in DOMAIN got |-> got[m].value], turn[t] \cap semantic, indexed \cap stored)
  <2>1. PICK a : a = Anchor(t)
    OBVIOUS
  <2>2. PICK S : S = InScope(t, scope)
    OBVIOUS
  <2>3. turn[t] \subseteq Messages
    BY <1>1 DEF EngineInv, Corpus, Ids, Threads
  <2>4. a \in Messages
    <3>1. turn[t] \cap semantic # {}
      BY <1>1 DEF EngineInv, Focused
    <3> QED BY <1>1, <2>1, <2>3, <3>1, AnchorType DEF EngineInv
  <2>5. Typed(dag)
    BY <1>1 DEF EngineInv, Banked, Edges, Typed
  <2>6. floor \in Levels
    BY EngineAssumption DEF Levels
  <2>7. SelectionIsExact(dag, a, S, floor)
    BY <2>4, <2>5, <2>6, ExtractExact
  <2>8. PICK got : got = Extract(dag, a, S, floor)
    OBVIOUS
  <2>9. DOMAIN got \in SUBSET Messages /\ [m \in DOMAIN got |-> got[m].value] \in [DOMAIN got -> Nat]
    BY <2>4, <2>5, <2>6, <2>8, ExtractType
  <2>10. RerankSound([m \in DOMAIN got |-> got[m].value], turn[t] \cap semantic, indexed \cap stored)
    <3>1. PICK score : score = [m \in DOMAIN got |-> got[m].value]
      OBVIOUS
    <3>2. PICK query : query = turn[t] \cap semantic
      OBVIOUS
    <3>3. RerankSound(score, query, indexed \cap stored)
      BY <2>3, <2>9, <3>1, <3>2, RerankHolds
    <3> QED BY <3>1, <3>2, <3>3
  <2> QED BY <2>1, <2>2, <2>7, <2>8, <2>10
<1>2. EngineInv => SelectionExact
  BY <1>1 DEF SelectionExact
<1> QED BY <1>2, EngineInvariant, PTL
-----------------------------------------------------------------------------
(* The windows the walk starts from, and the graph it sums over.           *)

\* A turn and the one before it hold messages of their thread.
Windows == DOMAIN prev = Threads /\ \A t \in Threads : prev[t] \subseteq {m \in DOMAIN owner : owner[m] = t}

\* An edge is in the graph a number of times.
Counts == \A e \in BagToSet(dag) : dag[e] \in Nat

WindowInv == EngineInv /\ Windows /\ Counts

\* Adding edges keeps it a number.
LEMMA AddedCounts ==
    ASSUME NEW a, \A e \in BagToSet(a) : a[e] \in Nat, NEW b
    PROVE  \A e \in BagToSet(a (+) SetToBag(b)) : (a (+) SetToBag(b))[e] \in Nat
<1>1. PICK c : c = SetToBag(b)
  OBVIOUS
<1>2. DOMAIN c = b /\ \A e \in b : c[e] = 1
  BY <1>1 DEF SetToBag
<1>3. PICK d : d = a (+) c
  OBVIOUS
<1>4. DOMAIN d = DOMAIN a \cup DOMAIN c
  BY <1>3, Zenon DEF (+)
<1>5. \A e \in DOMAIN d : d[e] = (IF e \in DOMAIN a THEN a[e] ELSE 0) + (IF e \in DOMAIN c THEN c[e] ELSE 0)
  BY <1>3, Zenon DEF (+)
<1>6. \A e \in DOMAIN a : a[e] \in Nat
  BY DEF BagToSet
<1>7. \A e \in DOMAIN d : d[e] \in Nat
  BY <1>2, <1>4, <1>5, <1>6
<1> QED BY <1>1, <1>3, <1>7 DEF BagToSet

\* Rows are loaded once each.
LEMMA LoadedCounts ==
    ASSUME NEW b PROVE \A e \in BagToSet(SetToBag(b)) : SetToBag(b)[e] \in Nat
BY DEF BagToSet, SetToBag

\* A message stored opens a turn or joins it.
LEMMA StoreWindows ==
    ASSUME Corpus, Windows, NEW t \in Threads, NEW kind, NEW newTurn \in BOOLEAN, Store(t, kind, newTurn)
    PROVE  Windows'
<1>1. Extends(owner, semantic, owner', semantic') /\ Threads' = Threads
  BY StoreStep
<1>2. prev' = IF newTurn THEN [prev EXCEPT ![t] = turn[t]] ELSE prev
  BY DEF Store
<1>3. DOMAIN prev' = Threads
  BY <1>2 DEF Windows
<1>4. ASSUME NEW u \in Threads PROVE prev'[u] = prev[u] \/ prev'[u] = turn[u]
  BY <1>2 DEF Windows
<1>5. \A u \in Threads : turn[u] \subseteq {m \in DOMAIN owner : owner[m] = u}
  BY DEF Corpus, Ids, Threads
<1>6. ASSUME NEW u \in Threads PROVE prev'[u] \subseteq {m \in DOMAIN owner' : owner'[m] = u}
  <2>1. prev'[u] \subseteq {m \in DOMAIN owner : owner[m] = u}
    BY <1>4, <1>5 DEF Windows
  <2> QED BY <1>1, <2>1 DEF Extends
<1> QED BY <1>1, <1>3, <1>6 DEF Windows

\* They hold of the store the program starts with.
LEMMA WindowInit == Init => WindowInv
<1> SUFFICES ASSUME Init PROVE WindowInv
  OBVIOUS
<1>1. EngineInv
  BY EngineInit
<1>2. PICK h \in Histories : owner = h.owner /\ turn = h.turn /\ prev = h.prev /\ dag = SetToBag(h.disk)
  BY DEF Init
<1>3. ValidStore(owner, DOMAIN h.owner \ h.tools, turn, prev, h.disk)
  BY <1>2, HistoryAssumption
<1>4. Windows
  BY <1>3 DEF ValidStore, Windows, Threads
<1>5. Counts
  BY <1>2, LoadedCounts DEF Counts
<1> QED BY <1>1, <1>4, <1>5 DEF WindowInv

\* Every operation keeps them.
LEMMA WindowStep == WindowInv /\ [Next]_vars => WindowInv'
<1> SUFFICES ASSUME WindowInv, [Next]_vars PROVE WindowInv'
  OBVIOUS
<1>i. EngineInv /\ EngineInv' /\ Corpus /\ Windows /\ Counts
  BY EngineStep DEF WindowInv, EngineInv
<1>1. ASSUME UNCHANGED <<owner, turn, prev>> PROVE Windows'
  BY <1>i, <1>1 DEF Windows, Threads
<1>2. CASE Restart
  <2>1. UNCHANGED <<owner, turn, prev>> /\ dag' = SetToBag(disk)
    BY <1>2 DEF Restart
  <2>2. Counts'
    BY <2>1, LoadedCounts DEF Counts
  <2> QED BY <1>i, <1>1, <2>1, <2>2 DEF WindowInv
<1>3. ASSUME NEW t \in Threads, Post(t) PROVE WindowInv'
  <2>1. Store(t, "semantic", TRUE) /\ dag' = dag
    BY <1>3 DEF Post
  <2>2. Windows'
    BY <1>i, <2>1, StoreWindows
  <2> QED BY <1>i, <2>1, <2>2 DEF WindowInv, Counts
<1>4. ASSUME NEW t \in Threads, Shed(t) \/ CallFails(t) PROVE WindowInv'
  <2>1. UNCHANGED <<owner, turn, prev, dag>>
    BY <1>4 DEF Shed, CallFails, corpus
  <2> QED BY <1>i, <1>1, <2>1 DEF WindowInv, Counts
<1>5. ASSUME NEW t \in Threads, Recorded(t) PROVE Counts'
  BY <1>i, <1>5, AddedCounts DEF Counts, Recorded
<1>6. ASSUME NEW t \in Threads, GenerateDeleted(t) PROVE WindowInv'
  <2>1. UNCHANGED <<owner, turn, prev>> /\ Recorded(t)
    BY <1>6 DEF GenerateDeleted, corpus
  <2> QED BY <1>i, <1>1, <1>5, <2>1 DEF WindowInv
<1>7. ASSUME NEW t \in Threads, Delete(t) PROVE WindowInv'
  <2>1. /\ prev' = [prev EXCEPT ![t] = {}] /\ turn' = [turn EXCEPT ![t] = {}]
        /\ UNCHANGED <<owner, dag>>
    BY <1>7 DEF Delete
  <2>2. Threads' = Threads /\ DOMAIN prev' = Threads
    BY <1>i, <2>1 DEF Windows, Threads
  <2>3. \A u \in Threads : prev'[u] = prev[u] \/ prev'[u] = {}
    BY <1>i, <2>1 DEF Windows
  <2>4. Windows'
    BY <1>i, <2>1, <2>2, <2>3 DEF Windows
  <2> QED BY <1>i, <2>1, <2>4 DEF WindowInv, Counts
<1>8. ASSUME NEW t \in Threads, NEW scope \in Scopes, Select(t, scope) PROVE WindowInv'
  <2>1. UNCHANGED <<owner, turn, prev>>
    BY <1>8 DEF Select, corpus
  <2>2. \E new : dag' = dag (+) SetToBag(new)
    BY <1>8 DEF Select
  <2>3. Counts'
    BY <1>i, <2>2, AddedCounts DEF Counts
  <2> QED BY <1>i, <1>1, <2>1, <2>3 DEF WindowInv
<1>9. ASSUME NEW t \in Threads, NEW kind \in {"semantic", "tool"}, Generate(t, kind) PROVE WindowInv'
  <2>1. Recorded(t) /\ Store(t, kind, FALSE)
    BY <1>9 DEF Generate
  <2>2. Windows'
    BY <1>i, <2>1, StoreWindows
  <2> QED BY <1>i, <1>5, <2>1, <2>2 DEF WindowInv
<1>10. CASE UNCHANGED vars
  <2>1. UNCHANGED <<owner, turn, prev, dag>>
    BY <1>10 DEF vars, corpus
  <2> QED BY <1>i, <1>1, <2>1 DEF WindowInv, Counts
<1> QED BY <1>2, <1>3, <1>4, <1>6, <1>7, <1>8, <1>9, <1>10 DEF Next

\* They hold of every reachable state.
THEOREM WindowInvariant == Spec => []WindowInv
BY WindowInit, WindowStep, PTL DEF Spec

\* MassExact, of every reachable graph and every window of the program, of any
\* size: the masses of provenanceMassWalk are the sums over the recorded paths,
\* and its cap cuts the weakest.
THEOREM MassExactHolds == Spec => []MassExact
<1>1. ASSUME WindowInv, NEW t \in Threads, NEW scope \in Scopes, turn[t] # {}
      PROVE  MassIsExact(dag, Window(t), InScope(t, scope))
  <2>1. PICK A, S : A = Window(t) /\ S = InScope(t, scope)
    OBVIOUS
  <2>2. turn[t] \subseteq Messages /\ prev[t] \subseteq Messages
    BY <1>1 DEF WindowInv, EngineInv, Corpus, Ids, Windows, Threads
  <2>3. A \subseteq Messages /\ A \cap Messages # {}
    BY <1>1, <2>1, <2>2 DEF Window
  <2>4. IsFiniteSet(A)
    BY <2>3, GraphAssumption, FS_Subset
  <2>5. Counted(dag)
    BY <1>1 DEF WindowInv, Counts, EngineInv, Banked, Edges, Typed, Counted
  <2>6. MassIsExact(dag, A, S)
    BY <2>3, <2>4, <2>5, MassOfWalk
  <2> QED BY <2>1, <2>6
<1>2. WindowInv => MassExact
  BY <1>1 DEF MassExact
<1> QED BY <1>2, WindowInvariant, PTL

\* What the program leaves in its store at any time is a store it may be started
\* on again: the assumption on Histories describes what it writes itself.
THEOREM StoreStaysValid == Spec => [](ValidStore(owner, semantic, turn, prev, disk) /\ disk \subseteq Edge)
<1>1. WindowInv => ValidStore(owner, semantic, turn, prev, disk) /\ disk \subseteq Edge
  BY DEF WindowInv, EngineInv, Corpus, Ids, Banked, Edges, Windows, ValidStore, Threads
<1> QED BY <1>1, WindowInvariant, PTL
=============================================================================
