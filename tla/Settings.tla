------------------------------ MODULE Settings ------------------------------
(***************************************************************************)
(* The service's settings (service/config/settings.go), what the           *)
(* updateSettings mutation accepts and does to them                        *)
(* (service/graph/schema.settings.resolvers.go), and what a substrate is   *)
(* built from (service/substrate/substrate.go).  A setting is a function   *)
(* from blocks to values; ratios are percentages.                          *)
(***************************************************************************)
EXTENDS Integers, FiniteSets

CONSTANTS
    Malformed,      \* a block that is not JSON of its shape
    Absent,         \* no config.json, or a provider that is not configured
    Torn,           \* a config.json that was truncated and not written
    Capabilities    \* registered adapters: the roles an adapter's provider serves

Blocks == {"providers", "permissions", "mcp", "hooks", "preferences", "engine"}
Roles  == {"main", "scorer", "embedder"}

Required == {"min_batch_stddev", "local_context_size", "rerank_top_k",
             "context_budget_tokens", "budget_headroom_pct", "per_msg_delimiter_tokens"}

\* rrc.DefaultConfig and, without a stance, defaultSettings' engine block.
DefaultConfig ==
    [k \in Required \cup {"loss_ratio"} |->
       CASE k = "loss_ratio" -> 50            [] k = "min_batch_stddev" -> 5
         [] k = "local_context_size" -> 10    [] k = "rerank_top_k" -> 64
         [] k = "context_budget_tokens" -> 150000
         [] k = "budget_headroom_pct" -> 90   [] k = "per_msg_delimiter_tokens" -> 5]

\* What probeProviders enters for a local service that answers.
Probed ==
    [r \in Roles |->
       CASE r = "main" -> [adapter |-> "ollama", model |-> ""]
         [] r = "scorer" -> [adapter |-> "zerank", model |-> "zerank-1-small"]
         [] r = "embedder" -> [adapter |-> "tei", model |-> "Qwen3-Embedding-0.6B"]]

\* A first run, on which the services of found answer the probes.
defaultSettings(found) ==
    [b \in Blocks |->
       CASE b = "engine" -> [DefaultConfig EXCEPT !["loss_ratio"] = 0]
         [] b = "providers" -> [r \in Roles |-> IF r \in found THEN Probed[r] ELSE Absent]
         [] OTHER -> 0]
-----------------------------------------------------------------------------
(* Decoding.                                                               *)

Validate(e) ==
    /\ e["local_context_size"] > 0 /\ e["rerank_top_k"] > 0
    /\ \A k \in Required : e[k] >= 0
    /\ e["budget_headroom_pct"] <= 100
    /\ e["loss_ratio"] \in 0 .. 100

\* UnmarshalJSON: the retired key is dropped, any other unknown key refused, and
\* every knob but the stance required.
Keys(e) == DOMAIN e \ {"diversity_lambda"}
Engine(e) == [k \in Required \cup {"loss_ratio"} |-> IF k \in DOMAIN e THEN e[k] ELSE 0]
UnmarshalEngine(e) ==
    /\ Required \subseteq Keys(e) /\ Keys(e) \subseteq Required \cup {"loss_ratio"}
    /\ Validate(Engine(e))

\* Everything is decoded before anything is applied.
Decodes(input) ==
    \A b \in DOMAIN input :
       input[b] # Malformed /\ (b = "engine" => UnmarshalEngine(input[b]))

\* 0 on the wire keeps the stance the settings have.
KeepStance(s, e) ==
    [Engine(e) EXCEPT !["loss_ratio"] = IF @ = 0 THEN s["engine"]["loss_ratio"] ELSE @]

\* The mutation replaces the blocks of its input, and no others.
Apply(s, input) ==
    [b \in Blocks |-> IF b \notin DOMAIN input THEN s[b]
                      ELSE IF b = "engine" THEN KeepStance(s, input[b]) ELSE input[b]]
-----------------------------------------------------------------------------
(* The file.                                                               *)

\* Save writes every key of the settings; Load decodes them again.
Loads(s) == UnmarshalEngine(s["engine"])
-----------------------------------------------------------------------------
(* Build.                                                                  *)

\* A role without an adapter is left nil; an unknown adapter, one that does not
\* serve the role, or a model it refuses is an error.
Configured(s, r) == s["providers"][r] # Absent
Usable(s, r) ==
    /\ s["providers"][r].adapter \in DOMAIN Capabilities
    /\ r \in Capabilities[s["providers"][r].adapter]
Buildable(s) == \A r \in Roles : Configured(s, r) => Usable(s, r)

\* Searcher and chunk oracle need an embedder with a model name.
Searches(s) == Configured(s, "embedder") /\ s["providers"]["embedder"].model # ""

\* ApplyTo: the stance of the engine that is built; 0 keeps the default's.
Stance(s) ==
    IF s["engine"]["loss_ratio"] > 0 THEN s["engine"]["loss_ratio"] ELSE DefaultConfig["loss_ratio"]
=============================================================================
