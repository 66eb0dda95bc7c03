----------------------------- MODULE MCToolCalls -----------------------------
(* Instances of ToolCalls for TLC: what the calls of two or three threads  *)
(* are asked to do.                                                        *)
EXTENDS ToolCalls, TLC

\* Directories: the data directory is /d, a project is /p.
Spaces  == ("s" :> <<"d", "ws">>) @@ ("t" :> <<"d", "wt">>) @@ ("v" :> <<"d", "wv">>)
Project == <<"p">>
Plans   == <<"d", "plans">>
Source  == Project \o <<"f">>
OnDisk  == (Source :> {"x", "y"}) @@ (<<"d", "ws", "f">> :> {"x", "y"})
HookList == << [event |-> "PreToolUse", match |-> {"FileEdit", "FileWrite"}],
               [event |-> "PostToolUse", match |-> {"Bash"}] >>

Abs(parts) == [abs |-> TRUE, parts |-> parts]
Rel(parts) == [abs |-> FALSE, parts |-> parts]

Do(tool, thread, path, old) ==
    [tool |-> tool, thread |-> thread, path |-> path, old |-> old,
     perm |-> "default", destructive |-> FALSE]
With(j, p) == [j EXCEPT !.perm = p]
None == Do("none", "t", Rel(<< >>), "x")

\* Who answers, and what else happens.
Script(i, j, k, us, n, cs, m) ==
    [jobs |-> ("a" :> i) @@ ("b" :> j) @@ ("c" :> k),
     users |-> us, verdicts |-> n, notes |-> us = Users, cancels |-> cs, switches |-> m]
OneUser == {CHOOSE u \in Users : TRUE}

\* Edits of one file from two threads, and a command that replaces it.
Editing ==
    LET edit == Do("FileEdit", "t", Rel(<<"f">>), "x")
    IN {Script(edit, Do("NotebookEdit", "v", Abs(Source), "y"), None, OneUser, 2, {}, 0)} \cup
       {Script(edit, With(j, "allow"), None, OneUser, 1, {}, 0) :
          j \in {Do("FileEdit", "v", Abs(Source), "y"),
                 Do("FileWrite", "v", Rel(<<"g", "..", "f">>), "x"),
                 Do("Bash", "v", Rel(<<"f">>), "x")}}

\* Paths a sandboxed thread is asked for, in the workspace and out of it.
Paths ==
    {Rel(<<"f">>), Rel(<<"g", "f">>), Rel(<<"..", "ws", "f">>), Rel(<<"..", "f">>), Rel(<< >>),
     Abs(<<"workspace", "f">>), Abs(<<"workspace", "..", "f">>), Abs(<<"d", "ws", "f">>),
     Abs(<<"d", "ws", "..", "f">>), Abs(<<"d", "plans", "n">>), Abs(<<"p", "f">>)}
Confining ==
    {Script(With(Do(tool, "s", p, "x"), "allow"), None, None, {}, 0, {"a"}, 1) :
       tool \in {"FileWrite", "FileEdit", "FileRead", "Bash"}, p \in Paths}

\* Writes in plan mode, in the plan directory, beside it and elsewhere.
Planning ==
    {Script(With(Do("EnterPlanMode", "t", Rel(<< >>), "x"), "allow"), Do(tool, "t", p, "x"), None,
            OneUser, 1, {}, 1) :
       tool \in {"FileWrite", "Bash"},
       p \in {Abs(<<"d", "plans", "n">>), Abs(<<"d", "plans-old", "n">>), Rel(<<"f">>)}}

\* Commands of one thread, and of a host and a sandboxed thread.
Shells ==
    LET shell(t, d) == [Do("Bash", t, Rel(<<"f">>), "x") EXCEPT !.destructive = d]
    IN {Script(shell("t", FALSE), With(shell("t", FALSE), "allow"), None, OneUser, 1, {"a"}, 0),
        Script(shell("t", TRUE), With(shell("s", TRUE), "allow"), None, OneUser, 1, {"b"}, 0)}

\* Two users answer while a call of each of two threads, or two of one thread,
\* wait.
Waiting ==
    LET skill(t) == Do("Skill", t, Rel(<< >>), "x")
    IN {Script(skill("t"), skill("t"), None, Users, 2, {}, 0),
        Script(skill("t"), skill("v"), None, OneUser, 2, {"a"}, 0)}

Others ==
    {Script(Do(tool, "t", Rel(<< >>), "x"), With(Do("Bash", "s", Rel(<<"f">>), "x"), "deny"), None,
            OneUser, 1, {"a"}, 0) : tool \in {"Skill", "ExitPlanMode", "EnterPlanMode"}}

Question(q, labels) == [text |-> q, header |-> "h", labels |-> labels]
Two == <<"l", "m">>
Asking ==
    {Script([tool |-> "AskUserQuestion", thread |-> "t", perm |-> "default", questions |-> qs], None, None,
            OneUser, 2, {"a"}, 0) :
       qs \in {<<Question("q", Two)>>, <<Question("q", Two), Question("r", Two)>>,
               <<Question("q", Two), Question("q", Two)>>, <<Question("q", <<"l">>)>>, << >>}}

Task(tool, task, status) ==
    [tool |-> tool, thread |-> "t", perm |-> "default", task |-> task, status |-> status]
Tasking ==
    {Script(Task("TaskCreate", 0, ""), Task("TaskCreate", 0, ""), j, {}, 0, {}, 0) :
       j \in {Task("TaskUpdate", 1, "deleted"), Task("TaskStop", 1, "completed")}}

AllScripts == Editing \cup Confining \cup Planning \cup Shells \cup Waiting \cup Others \cup Asking \cup Tasking

Answers == {"full", "partial", "plain"}
Payloads ==
    [a \in Answers |->
       CASE a = "full" -> [kind |-> "map", map |-> ("q" :> "1") @@ ("r" :> "2")]
         [] a = "partial" -> [kind |-> "map", map |-> ("r" :> "2") @@ ("z" :> "3")]
         [] a = "plain" -> [kind |-> "text", text |-> "1"]]
AllVerdicts == {"approved", "denied"} \cup Answers

AllIds == (Gated \X (1 .. Cardinality(Calls))) \cup ({"ask"} \X Calls)

\* Two threads that each ask for their first command.
TwoShells == {Script(Do("Bash", "t", Rel(<<"f">>), "x"), Do("Bash", "v", Rel(<<"f">>), "x"), None, OneUser, 1, {}, 0)}
=============================================================================
