-------------------------- MODULE MCAgentLifecycle --------------------------
(* Instances of AgentLifecycle for TLC: how often each mutation is sent.   *)
EXTENDS AgentLifecycle, TLC

Mutations == [op \in MutationNames |-> 1]
Pauses    == ("start" :> 1) @@ ("pause" :> 1) @@ ("resume" :> 1)

\* The clients differ only in name; used by the run without liveness.
ClientSymmetry == Permutations(Clients)
=============================================================================
