-------------------------- MODULE MCSubstrateHolder --------------------------
(* Instances of SubstrateHolder for TLC: the requests of a behaviour.      *)
EXTENDS SubstrateHolder, TLC

\* Three adapters; "none" is registered by nobody.
Adapters == ("ollama" :> {"main", "embedder"}) @@ ("zerank" :> {"scorer"}) @@ ("tei" :> {"scorer", "embedder"})

Provider(a, m) == [adapter |-> a, model |-> m]
Role(r, p) == [q \in Roles |-> IF q = r THEN p ELSE Absent]
Embedder == Role("embedder", Provider("tei", "m"))
Unnamed  == Role("embedder", Provider("tei", ""))
Wrong    == Role("main", Provider("tei", "m"))
Unknown  == Role("scorer", Provider("none", "m"))

Stanced(n) == [DefaultConfig EXCEPT !["loss_ratio"] = n]
Retired    == [k \in Required \cup {"diversity_lambda"} |-> 7]
Partial    == [k \in Required \ {"rerank_top_k"} |-> 7]
Misspelt   == [k \in Required \cup {"top_k"} |-> 7]
Zero       == [DefaultConfig EXCEPT !["local_context_size"] = 0]

Set(b, v) == b :> v
Mutate(s) == [kind |-> "mutate", set |-> s]
Tune(n)   == [kind |-> "engine", set |-> Set("engine", Stanced(n))]
Reload    == [kind |-> "providers", set |-> << >>]
Search    == Mutate(Set("providers", Embedder))

Plan(rs, fails, messages, n) ==
    [asks |-> rs, fails |-> fails, messages |-> messages, crashes |-> n,
     found |-> IF fails THEN {"embedder"} ELSE {}]

\* Messages over reloads of every kind.
Feeding ==
    {Plan(<<Search, r>>, FALSE, 2, 0) : r \in {Reload, Tune(30), Mutate(Set("providers", Unnamed))}}
    \cup {Plan(<<Reload>>, TRUE, 2, 1)}

\* Overlapping updates of blocks, of the stance, refused and unbuildable ones,
\* and a crash.
Mixed ==
    {Mutate(Set("hooks", 1)), Mutate(Set("hooks", 2) @@ Set("engine", Stanced(30))),
     Mutate(Set("engine", Stanced(0))), Mutate(Set("providers", Wrong))}
Refused ==
    {Mutate(Set("hooks", 3) @@ Set("engine", Partial)), Mutate(Set("engine", Misspelt)),
     Mutate(Set("engine", Zero)), Mutate(Set("permissions", Malformed) @@ Set("hooks", 4))}
Updates ==
    Mixed \cup Refused \cup
    {Mutate(Set("engine", Retired)), Tune(40), Mutate(Set("providers", Unknown)), Search}
Changing ==
    {Plan(<<i, j>>, TRUE, 0, 1) : i, j \in Updates}
    \cup {Plan(<<i, j, k>>, FALSE, 0, 1) : i, j, k \in Mixed}

AllPlans == Feeding \cup Changing
=============================================================================
