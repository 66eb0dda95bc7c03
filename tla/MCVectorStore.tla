---------------------------- MODULE MCVectorStore ----------------------------
(***************************************************************************)
(* A message of two chunks and two of one, in two threads.  A chunk of the *)
(* first message is nearest by sign bits and a later one by score, so a    *)
(* shortlist of one or two chunks must be widened.                         *)
(***************************************************************************)
EXTENDS VectorStore

CONSTANTS t1, t2

\* The first text is cut after its sentence.
MCText == <<<<"a", ".", " ", "a", "a">>, <<"a", " ", "a">>, <<"a">>>>
MCSampleBytes == {"a", ".", " ", "\n"}
MCCode == (<<1, 1>> :> {1}) @@ (<<1, 2>> :> {1, 2}) @@ (<<2, 1>> :> {2}) @@ (<<3, 1>> :> {1})
MCScore == (<<1, 1>> :> 3) @@ (<<1, 2>> :> 4) @@ (<<2, 1>> :> 2) @@ (<<3, 1>> :> 1)
MCDraws == (Global :> <<0, 1, 0, 1>>) @@ (t1 :> <<1, 0, 1, 0>>) @@ (t2 :> <<0, 0, 1, 1>>)
MCEmbedders == {[model |-> "a", dim |-> 1], [model |-> "b", dim |-> 2]}

Rows(keys) == {[key |-> key, model |-> "a", dim |-> 1] : key \in keys}

\* Two messages whose vectors were lost with a table of another width, the same
\* with their vectors, and one message with two to come.
MCStores ==
    {[home |-> <<t1, t2, None>>, stored |-> {1, 2}, vectors |-> {}, dim |-> 2],
     [home |-> <<t1, t1, None>>, stored |-> {1, 2},
      vectors |-> Rows({<<1, 1>>, <<2, 1>>}), dim |-> 1],
     [home |-> <<None, t1, t2>>, stored |-> {2, 3}, vectors |-> Rows({<<3, 1>>}), dim |-> 1]}
=============================================================================
