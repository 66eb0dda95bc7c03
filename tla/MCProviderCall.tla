--------------------------- MODULE MCProviderCall ---------------------------
(* Small instances of ProviderCall for TLC.                                 *)
EXTENDS ProviderCall

CONSTANTS c1, c2

b(kind)     == [kind |-> kind, id |-> NoId]
call(c)     == [kind |-> "call", id |-> c]
result(c)   == [kind |-> "result", id |-> c]
says(r, bs) == [role |-> r, content |-> bs]

\* Shapes of stored messages: what the runner writes, and what a shed or a
\* correction can leave beside it.
Shapes ==
    { says("user", <<b("text")>>), says("assistant", <<b("text"), b("empty")>>),
      says("assistant", <<b("thinking")>>), says("assistant", <<b("signed"), call(c1)>>),
      says("assistant", <<call(c1), call(c2)>>), says("assistant", <<call(c2)>>),
      says("user", <<result(c1)>>), says("user", <<result(c2)>>), says("user", <<result(c2), result(c1)>>) }
Opening == says("system", <<b("text")>>)

Chats == {<<Opening, x, y, z>> : x, y, z \in Shapes} \cup {<<w, x, y, z>> : w, x, y, z \in Shapes}

Ask(a, m, msgs, t) == [adapter |-> a, mode |-> m, msgs |-> msgs, choice |-> t]

\* The first call is any chat, tool choice or list of texts to any adapter; the
\* second is a plain one, for what the first left behind.
MCRequests ==
    << {Ask(a, "stream", m, "unset") : a \in Adapters, m \in Chats}
       \cup {Ask(a, "complete", << >>, t) : a \in Adapters, t \in ToolChoices}
       \cup {Ask(a, "bulk", << >>, "unset") : a \in Services},
       {Ask("anthropic", "complete", << >>, "unset")} >>
=============================================================================
