-------------------------- MODULE MCThreadService --------------------------
(***************************************************************************)
(* Three requests around one thread and the threads branched from it.      *)
(***************************************************************************)
EXTENDS ThreadService

\* Hidden and outer blanks and dots; a device; cuts that leave a blank, a device, half
\* a character, or a name that is still too long.
MCFiles ==
    {[name |-> n, declared |-> 1, size |-> 1] :
        n \in {<<"a">>, <<".", "a">>, <<".", " ", "a">>, <<"a", "/", " ", "a", "/">>, <<".", ".">>,
               <<"c">>, <<"a", "a", "a", " ", "a">>, <<"c", "a", ".", "a", "a">>,
               <<"a", "a", "a", "lead", "tail">>, <<"a", "a", ".", "a", "a", "a">>}}
    \cup {[name |-> <<"a">>, declared |-> 3, size |-> 1], [name |-> <<"a">>, declared |-> 1, size |-> 3]}

MCReserved == {<<"c">>}

Script(a, b, c, tabs, reloads, plans) ==
    [ops |-> <<a, b, c>>, tabs |-> tabs, reloads |-> reloads, retries |-> tabs, plans |-> plans]

MCScripts ==
    { Script("send", "update", "update", 0, 0, 0),
      Script("send", "update", "none", 0, 1, 1),
      Script("send", "plan", "plan", 0, 0, 0),
      Script("send", "plan", "approve", 0, 0, 0),
      Script("send", "plan", "none", 1, 0, 1),
      Script("send", "send", "update", 0, 0, 0),
      Script("send", "delete", "update", 0, 0, 0),
      Script("send", "edit", "resume", 0, 0, 0),
      Script("send", "edit", "deny", 0, 0, 0),
      Script("send", "edit", "delete", 0, 0, 0),
      Script("edit", "send", "delete", 0, 0, 0),
      Script("create", "send", "delete", 0, 0, 0),
      Script("create", "delete", "archive", 0, 0, 0),
      Script("create", "archive", "none", 2, 0, 0),
      Script("archive", "approve", "plan", 2, 0, 0),
      Script("upload", "none", "none", 0, 0, 0) }
=============================================================================
