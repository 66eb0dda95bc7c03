------------------------------ MODULE Chunking ------------------------------
(***************************************************************************)
(* How the text of a message is cut into chunks (rrc/chunk/split.go), as   *)
(* operators on sequences of bytes.  A byte is a letter, a full stop, a    *)
(* blank or a line feed; "." stands for the three terminators, " " for     *)
(* blank and tab.  Offsets count from 0: text[i:end] is bytes i+1 to end.  *)
(***************************************************************************)
EXTENDS Integers, Sequences, FiniteSets, FiniteSetsExt, SequencesExt

CONSTANTS
    MaxChars, OverlapChars,     \* chunk.Config
    SampleBytes, SampleLength   \* the texts, and the sizes, Split is checked on

Blank(text) == \A i \in DOMAIN text : text[i] \in {" ", "\n"}

TrimSpace(text) ==
    LET solid == {i \in DOMAIN text : text[i] \notin {" ", "\n"}}
    IN IF solid = {} THEN << >> ELSE SubSeq(text, Min(solid), Max(solid))

\* The end of the last occurrence, within the last bytes of the window, of the
\* strongest break there is; the window's end without any.
findBoundary(text, start, maxEnd, window) ==
    LET minEnd    == Max({maxEnd - window, start})
        ends(p)   == {e \in minEnd + Len(p) .. maxEnd : SubSeq(text, e - Len(p) + 1, e) = p}
        breaks    == <<ends(<<"\n", "\n">>), ends(<<"\n">>), ends(<<".", " ">>), ends(<<" ">>)>>
        strongest == SelectInSeq(breaks, LAMBDA b : b # {})
    IN IF strongest = 0 THEN maxEnd ELSE Max(breaks[strongest])

\* The chunks from offset i on: a window that ends at a boundary, the next one
\* beginning overlap bytes before its end but after its beginning.
From(text, max, overlap) ==
    LET from[i \in Nat] ==
            LET end  == IF i + max >= Len(text) THEN Len(text) ELSE findBoundary(text, i, i + max, max \div 2)
                here == IF Blank(SubSeq(text, i + 1, end)) THEN << >> ELSE <<[start |-> i, end |-> end]>>
            IN IF end >= Len(text) THEN here ELSE here \o from[Max({end - overlap, i + 1})]
    IN from[0]

\* An overlap that is no overlap is a quarter of the size.
Split(raw, max, overlap) ==
    LET text == TrimSpace(raw)
    IN IF text = << >> THEN << >>
       ELSE IF Len(text) <= max THEN <<[start |-> 0, end |-> Len(text)]>>
       ELSE From(text, max, IF overlap >= max THEN max \div 4 ELSE overlap)
-----------------------------------------------------------------------------
\* The chunks of a text are the text: each at most the maximum, in order, every
\* byte that is not blank in one of them, none blank, each beginning after the one
\* before.  With an overlap of at most half the size none lies inside the one
\* before it.
SplitSound(raw, max, overlap) ==
    LET text   == TrimSpace(raw)
        chunks == Split(raw, max, overlap)
        solid(c) == {i \in c.start + 1 .. c.end : text[i] \notin {" ", "\n"}}
    IN /\ \A i \in DOMAIN text : text[i] \in {" ", "\n"} \/ \E k \in DOMAIN chunks : i \in solid(chunks[k])
       /\ \A k \in DOMAIN chunks : solid(chunks[k]) # {} /\ chunks[k].end - chunks[k].start <= max
       /\ \A k \in DOMAIN chunks \ {1} :
             /\ chunks[k - 1].start < chunks[k].start
             /\ 2 * overlap <= max => chunks[k - 1].end < chunks[k].end

\* A text that ends in blanks is trimmed to a shorter one; a size of the whole
\* text cuts nothing, and an overlap above the size is one of its size.
ASSUME SplitIsSound ==
    \A raw \in [1 .. SampleLength -> SampleBytes], max \in 1 .. SampleLength - 1 :
        \A overlap \in 0 .. max : SplitSound(raw, max, overlap)
=============================================================================
