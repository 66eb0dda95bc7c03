---------------------------- MODULE MCModelCall ----------------------------
(* Threads for ModelCall: tool pairs in and before the window, a pair cut  *)
(* by the recency window, a correction stored during a turn, a window over *)
(* the budget that can and one that cannot be shed, a result that is       *)
(* missing, a turn without discourse, and the empty thread.                *)
EXTENDS ModelCall

Stored(turn, kind, partner, cost) == [turn |-> turn, kind |-> kind, partner |-> partner, cost |-> cost]

Pairs ==
    Stored(<<1, 1, 1, 2, 3, 3>>, <<"assistant", "tool", "tool", "user", "user", "tool">>,
        <<0, 3, 2, 0, 0, 0>>, <<2, 1, 2, 1, 1, 1>>)
Deep ==
    Stored(<<1, 1, 2, 2, 3>>, <<"tool", "tool", "assistant", "user", "user">>,
        <<2, 1, 0, 0, 0>>, <<1, 2, 3, 1, 1>>)
Corrected ==
    Stored(<<1, 2, 3>>, <<"user", "user", "user">>, <<0, 0, 0>>, <<1, 1, 1>>)
Inside ==
    Stored(<<1, 1, 2, 1>>, <<"user", "tool", "user", "tool">>, <<0, 4, 0, 2>>, <<1, 1, 1, 1>>)
Long ==
    Stored(<<1, 1, 1, 1, 2>>, <<"user", "tool", "tool", "assistant", "user">>,
        <<0, 3, 2, 0, 0>>, <<2, 2, 2, 2, 1>>)
Heavy ==
    Stored(<<1, 2>>, <<"assistant", "user">>, <<0, 0>>, <<3, 4>>)
Orphan ==
    Stored(<<1, 2, 2>>, <<"tool", "user", "assistant">>, <<-1, 0, 0>>, <<1, 1, 1>>)
ToolOnly == Stored(<<1, 1>>, <<"tool", "tool">>, <<2, 1>>, <<1, 1>>)
Nothing == Stored(<< >>, << >>, << >>, << >>)

AllCorpora == {Pairs, Deep, Corrected, Inside, Long, Heavy, Orphan, ToolOnly, Nothing}
=============================================================================
