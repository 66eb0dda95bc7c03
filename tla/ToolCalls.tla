------------------------------ MODULE ToolCalls ------------------------------
(***************************************************************************)
(* The agent's tools (service/agent/tools), the runner-side operations     *)
(* they call (service/runtime/toolagent.go), hooks (service/hooks) and     *)
(* path resolution (sandbox/workspace.go), around the approvals of         *)
(* Approvals.  Calls of several threads, and of one response of a model,   *)
(* overlap: the agent kit decides how it runs the calls of a response.     *)
(*                                                                         *)
(* A tool is the sequence of stages its function goes through; an error    *)
(* at any of them ends the call.  A file is the set of texts in it: an     *)
(* edit replaces one text by its own.                                      *)
(***************************************************************************)
EXTENDS Approvals, SequencesExt

CONSTANTS
    Scripts,        \* what the model may ask for, a job for every call, and who
                    \* answers, with notes or not, and what cancellations and mode
                    \* changes come
    Sandboxed,      \* threads with Thread.Sandboxed
    Workspace,      \* the workspace directory of a thread
    Cwd, PlanDir,   \* the process's directory, {DataDir}/plans
    Hooks,          \* configured hooks: event and matched tools
    Files,          \* files on disk at the start, each a set of texts
    Payload,        \* the contents of an answer to a question
    Nothing         \* no value

VARIABLES
    script,         \* the script of this behaviour
    stage,          \* stages done
    res,            \* "none", "running", "ok", "error"
    file,           \* the path a call resolved
    buf,            \* what it read
    disk,           \* contents of the files there are
    mode,           \* agent_state.mode of a thread
    switches,       \* mode changes of a thread
    callSeq,        \* approvals asked by a thread's runner
    tasks, taskSeq, \* a runner's TaskStore
    ret,            \* answers of a question, id of a task
    gates,          \* history: what a call passed, and when
    kept            \* history: texts in a call's file ever since its gate

jobs  == <<script, stage, res, file, buf, ret>>
state == <<disk, mode, switches, callSeq, tasks, taskSeq>>
hist  == <<gates, kept>>
allVars == <<vars, jobs, state, hist>>

job     == script.jobs         \* the job of a call: thread, tool and arguments
Threads == DOMAIN Workspace
-----------------------------------------------------------------------------
(* Paths: whether it is absolute, and its components.                      *)

\* filepath.Clean of path components below a directory.
Clean(dir, parts) ==
    FoldLeft(LAMBDA acc, p : IF p # ".." THEN Append(acc, p)
                             ELSE IF acc = << >> THEN acc ELSE Front(acc), dir, parts)

\* A host path inside the workspace, or Nothing: relative paths and those of
\* the container's /workspace are joined to it, host paths must lie in it.
ResolveWorkspacePath(ws, p) ==
    LET q == IF p.abs /\ p.parts # << >> /\ Head(p.parts) = "workspace" THEN Clean(ws, Tail(p.parts))
             ELSE Clean(IF p.abs THEN << >> ELSE ws, p.parts)
    IN IF IsPrefix(ws, q) THEN q ELSE Nothing

\* resolvePath: a thread that is not sandboxed opens the path as it is.
resolvePath(t, p) ==
    IF t \in Sandboxed THEN ResolveWorkspacePath(Workspace[t], p)
    ELSE Clean(IF p.abs THEN << >> ELSE Cwd, p.parts)

\* strings.HasPrefix on cleaned paths: a sibling of the plan directory whose
\* name begins with its name has the prefix too.
BeginsWith(name, prefix) == name = prefix \/ <<name, prefix>> = <<"plans-old", "plans">>
InPlanDir(f) ==
    LET n == Len(PlanDir)
    IN /\ Len(f) >= n /\ SubSeq(f, 1, n - 1) = Front(PlanDir)
       /\ BeginsWith(f[n], PlanDir[n])
-----------------------------------------------------------------------------
(* The tools.                                                              *)

\* Mutant: the file is read before the approval.
FileEditReadsFirst == <<"resolve", "guard", "hook", "read", "gate", "truncate", "fill">>

FileRead     == <<"resolve", "read">>
FileEdit     == <<"resolve", "guard", "hook", "gate", "read", "truncate", "fill">>
FileWrite    == <<"resolve", "guard", "hook", "gate", "truncate", "fill">>
NotebookEdit == <<"resolve", "guard", "gate", "read", "truncate", "fill">>
Bash         == <<"guard", "hook", "gate", "exec", "post">>
EnterPlanMode == <<"gate", "plan">>
ExitPlanMode == <<"gate", "surface">>
Skill        == <<"gate", "look">>
AskUserQuestion == <<"validate", "ask">>
TaskCreate   == <<"number", "create">>
TaskUpdate   == <<"update">>
TaskStop     == <<"update">>

Stages(tool) ==
    CASE tool = "FileRead" -> FileRead       [] tool = "FileEdit" -> FileEdit
      [] tool = "FileWrite" -> FileWrite     [] tool = "NotebookEdit" -> NotebookEdit
      [] tool = "Bash" -> Bash               [] tool = "Skill" -> Skill
      [] tool = "EnterPlanMode" -> EnterPlanMode
      [] tool = "ExitPlanMode" -> ExitPlanMode
      [] tool = "AskUserQuestion" -> AskUserQuestion
      [] tool = "TaskCreate" -> TaskCreate
      [] tool = "TaskUpdate" -> TaskUpdate   [] tool = "TaskStop" -> TaskStop

\* The tools that ask for an approval, and all of them.
Gated == {"FileEdit", "FileWrite", "NotebookEdit", "Bash", "EnterPlanMode", "ExitPlanMode", "Skill"}
Tools == Gated \cup {"FileRead", "AskUserQuestion", "TaskCreate", "TaskUpdate", "TaskStop"}

\* A script has a job for every call, in a thread with a workspace, and the
\* paths it names have clean forms; there is an id for every call of a thread.
ASSUME ToolAssumption ==
    /\ IsFiniteSet(Calls)
    /\ Gated \X (1 .. Cardinality(Calls)) \subseteq Ids /\ {"ask"} \X Calls \subseteq Ids
    /\ \A t \in Threads : Workspace[t] \in Seq(STRING)
    /\ \A s \in Scripts :
          /\ s.cancels \subseteq Calls
          /\ \A c \in Calls :
                LET j == s.jobs[c]
                IN /\ j.tool \in Tools \cup {"none"} /\ j.thread \in Threads
                   /\ j.perm \in {"default", "allow", "ask", "deny"}
                   /\ j.tool = "Bash" =>
                         \A dir \in {<< >>, <<"workspace">>} : Clean(dir, j.path.parts) \in Seq(STRING)

Edits(c)  == job[c].tool \in {"FileEdit", "NotebookEdit"}
Writes(c) == job[c].tool \in {"FileEdit", "FileWrite", "NotebookEdit", "Bash"}

\* requireApproval's permission: the configured one, else the default.
DefaultPermission(tool) ==
    IF tool \in {"FileRead", "Glob", "Grep", "WebSearch", "WebFetch", "AskUserQuestion",
                "TaskGet", "TaskList", "TaskOutput"} THEN "allow" ELSE "ask"
Permission(c) == IF job[c].perm = "default" THEN DefaultPermission(job[c].tool) ELSE job[c].perm

\* At(u, pc) is a mutation's; Doing a call's.
Doing(c, s) ==
    res[c] = "running" /\ stage[c] < Len(Stages(job[c].tool)) /\ Stages(job[c].tool)[stage[c] + 1] = s

\* The stage succeeds; the last one returns the result.
Advance(c) ==
    /\ stage' = [stage EXCEPT ![c] = @ + 1]
    /\ res' = [res EXCEPT ![c] = IF stage[c] + 1 = Len(Stages(job[c].tool)) THEN "ok" ELSE @]

\* The stage returns an error.
Fail(c) == res' = [res EXCEPT ![c] = "error"] /\ UNCHANGED stage

ToolInit ==
    /\ Init
    /\ script \in Scripts
    /\ stage = [c \in Calls |-> 0] /\ res = [c \in Calls |-> "none"]
    /\ file = [c \in Calls |-> Nothing] /\ buf = [c \in Calls |-> {}] /\ ret = [c \in Calls |-> Nothing]
    /\ disk = Files
    /\ mode = [t \in Threads |-> "normal"] /\ switches = [t \in Threads |-> 0]
    /\ callSeq = [t \in Threads |-> 0]
    /\ tasks = [t \in Threads |-> << >>] /\ taskSeq = [t \in Threads |-> 0]
    /\ gates = [c \in Calls |-> [hook |-> FALSE, guard |-> 0, mode |-> "none", at |-> 0, wrote |-> Nothing]]
    /\ kept = [c \in Calls |-> {}]

\* The model's response asks for the call.
Start(c) ==
    /\ res[c] = "none" /\ job[c].tool # "none"
    /\ res' = [res EXCEPT ![c] = "running"]
    /\ UNCHANGED <<vars, script, stage, file, buf, ret, state, hist>>

Resolve(c) ==
    /\ Doing(c, "resolve")
    /\ LET f == resolvePath(job[c].thread, job[c].path)
       IN IF f = Nothing THEN Fail(c) /\ UNCHANGED file
          ELSE Advance(c) /\ file' = [file EXCEPT ![c] = f]
    /\ UNCHANGED <<vars, script, buf, ret, state, hist>>

\* The path of the plan directory is absolute: a relative path on the host does
\* not begin with it.  Bash passes no path.
Exempt(c) ==
    /\ file[c] # Nothing /\ InPlanDir(file[c])
    /\ job[c].path.abs \/ job[c].thread \in Sandboxed

\* planGuard reads the mode from the database; a failed read is not plan mode.
planGuard(c) ==
    /\ Doing(c, "guard")
    /\ \E read \in BOOLEAN :
          LET t == job[c].thread
              plan == read /\ mode[t] = "plan"
          IN /\ IF plan /\ ~Exempt(c) THEN Fail(c) ELSE Advance(c)
             /\ gates' = [gates EXCEPT ![c].guard = switches[t],
                                       ![c].mode = IF read THEN mode[t] ELSE "unread"]
    /\ UNCHANGED <<vars, script, file, buf, ret, state, kept>>

\* Hooks for the event whose pattern matches the tool.
Matching(event, tool) == {i \in DOMAIN Hooks : Hooks[i].event = event /\ tool \in Hooks[i].match}

\* Mutant: a hook that cannot be run does not block.
FireOpen(event, tool, outcome) == \E i \in Matching(event, tool) : outcome[i] = "deny"

\* Dispatcher.Fire: a hook that fails, times out or prints DENY blocks.
Fire(event, tool, outcome) == \E i \in Matching(event, tool) : outcome[i] # "ok"

FireHook(c) ==
    /\ Doing(c, "hook")
    /\ \E outcome \in [DOMAIN Hooks -> {"ok", "deny", "error"}] :
          /\ c \in cancelled => \A i \in DOMAIN Hooks : outcome[i] = "error"
          /\ IF Fire("PreToolUse", job[c].tool, outcome) THEN Fail(c) ELSE Advance(c)
          /\ gates' = [gates EXCEPT ![c].hook =
                          \A i \in Matching("PreToolUse", job[c].tool) : outcome[i] = "ok"]
    /\ UNCHANGED <<vars, script, file, buf, ret, state, kept>>

\* The result of a PostToolUse hook is dropped.
PostHook(c) ==
    /\ Doing(c, "post") /\ Advance(c)
    /\ UNCHANGED <<vars, script, file, buf, ret, state, hist>>
-----------------------------------------------------------------------------
(* The gate and the question.                                              *)

Content(f) == IF f \in DOMAIN disk THEN disk[f] ELSE {}

\* The gate is passed: what is in the call's file from now on.
Passed(c) ==
    /\ Advance(c)
    /\ kept' = [kept EXCEPT ![c] = IF file[c] = Nothing THEN {} ELSE Content(file[c])]

\* A permission that is not "ask" decides at once.
CheckPermission(c) ==
    /\ Doing(c, "gate")
    /\ \/ Permission(c) = "deny" /\ Fail(c) /\ UNCHANGED kept
       \/ Permission(c) = "allow" /\ Passed(c)
    /\ UNCHANGED <<vars, script, file, buf, ret, state, gates>>

\* requireApproval numbers the call within its runner and waits.
AskApproval(c) ==
    /\ Doing(c, "gate") /\ Permission(c) = "ask"
    /\ LET t == job[c].thread
       IN /\ callSeq' = [callSeq EXCEPT ![t] = @ + 1]
          /\ Publish(c, <<job[c].tool, callSeq'[t]>>)
    /\ UNCHANGED <<jobs, disk, mode, switches, tasks, taskSeq, hist>>

\* RequireApproval has returned: only an approval goes on.
Resolved(c) ==
    /\ Doing(c, "gate") /\ wait[c] = "done"
    /\ IF out[c] = "approved" THEN Passed(c) ELSE Fail(c) /\ UNCHANGED kept
    /\ UNCHANGED <<vars, script, file, buf, ret, state, gates>>

\* validateAskUserArgs: one to four different questions with a header and two
\* to four different labels.
Validate(c) ==
    LET qs == job[c].questions
    IN /\ Len(qs) \in 1 .. 4
       /\ \A i, j \in DOMAIN qs : qs[i].text = qs[j].text => i = j
       /\ \A i \in DOMAIN qs :
             /\ qs[i].text # "" /\ qs[i].header # ""
             /\ Len(qs[i].labels) \in 2 .. 4
             /\ \A j, k \in DOMAIN qs[i].labels : qs[i].labels[j] = qs[i].labels[k] => j = k
             /\ \A j \in DOMAIN qs[i].labels : qs[i].labels[j] # ""

ValidateAsk(c) ==
    /\ Doing(c, "validate")
    /\ IF Validate(c) THEN Advance(c) ELSE Fail(c)
    /\ UNCHANGED <<vars, script, file, buf, ret, state, hist>>

\* AskUser numbers its calls by the clock.
AskUser(c) ==
    /\ Doing(c, "ask") /\ Publish(c, <<"ask", c>>)
    /\ UNCHANGED <<jobs, state, hist>>

Asked(c) == {job[c].questions[i].text : i \in DOMAIN job[c].questions}

\* Mutant: the answers are the client's map.
parseAnswerMap(c, raw) ==
    IF raw.kind = "map" THEN raw.map
    ELSE [q \in Asked(c) |-> IF q = job[c].questions[1].text THEN raw.text ELSE ""]

\* A JSON map answers by question; any other text answers the first one.
parseAnswerPayload(c, raw) ==
    [q \in Asked(c) |->
       IF raw.kind = "map" THEN IF q \in DOMAIN raw.map THEN raw.map[q] ELSE ""
       ELSE IF q = job[c].questions[1].text THEN raw.text ELSE ""]

\* AskUser has returned: a timeout leaves every answer blank.
Replied(c) ==
    /\ Doing(c, "ask") /\ wait[c] = "done"
    /\ IF out[c] = "cancelled" THEN Fail(c) /\ UNCHANGED ret
       ELSE /\ Advance(c)
            /\ ret' = [ret EXCEPT ![c] = IF out[c] = "timeout" THEN [q \in Asked(c) |-> ""]
                                         ELSE parseAnswerPayload(c, Payload[out[c]])]
    /\ UNCHANGED <<vars, script, file, buf, state, hist>>
-----------------------------------------------------------------------------
(* The effects.                                                            *)

\* A missing file, an old_string that is not in it, a notebook that does not
\* parse or has no such cell: an error.
Read(c) ==
    /\ Doing(c, "read")
    /\ LET data == Content(file[c])
       IN /\ buf' = [buf EXCEPT ![c] = data]
          /\ IF data = {} \/ (Edits(c) /\ job[c].old \notin data) THEN Fail(c) ELSE Advance(c)
    /\ UNCHANGED <<vars, script, file, ret, state, hist>>

NewContent(c) == IF Edits(c) THEN (buf[c] \ {job[c].old}) \cup {c} ELSE {c}

\* The mode, the number of mode changes and the file when a call takes effect.
Effect(c, f) ==
    gates' = [gates EXCEPT ![c].mode = IF @ = "unread" THEN @ ELSE mode[job[c].thread],
                           ![c].at = switches[job[c].thread], ![c].wrote = f]

\* What stays in the files of the other calls.
Put(c, f, content) ==
    /\ disk' = [g \in DOMAIN disk \cup {f} |-> IF g = f THEN content ELSE disk[g]]
    /\ kept' = [d \in Calls |-> IF d # c /\ file[d] = f THEN kept[d] \cap content ELSE kept[d]]

\* os.WriteFile truncates the file (MkdirAll before it for FileWrite) ...
Truncate(c) ==
    /\ Doing(c, "truncate")
    /\ \/ Fail(c) /\ UNCHANGED <<disk, hist>>
       \/ Advance(c) /\ Put(c, file[c], {}) /\ Effect(c, file[c])
    /\ UNCHANGED <<vars, script, file, buf, ret, mode, switches, callSeq, tasks, taskSeq>>

\* ... and writes it, or a part of it before the error.
Fill(c) ==
    /\ Doing(c, "fill")
    /\ \/ Advance(c) /\ Put(c, file[c], NewContent(c))
       \/ Fail(c) /\ \E part \in SUBSET NewContent(c) : Put(c, file[c], part)
    /\ UNCHANGED <<vars, script, file, buf, ret, mode, switches, callSeq, tasks, taskSeq, gates>>

\* DetectDestructive: rm, git push, git reset --hard, git checkout --.
DetectDestructive(c) == job[c].destructive

\* runArgs: the container has the workspace at /workspace, where the command
\* begins, and nothing else of the host: another path is lost with the container.
Mounted(t, p) ==
    LET q == Clean(IF p.abs THEN << >> ELSE <<"workspace">>, p.parts)
    IN IF q # << >> /\ Head(q) = "workspace" THEN Workspace[t] \o Tail(q) ELSE Nothing

\* The file a shell command writes, seen from the host.
Target(c) ==
    LET t == job[c].thread
        p == job[c].path
    IN IF t \in Sandboxed THEN Mounted(t, p) ELSE Clean(IF p.abs THEN << >> ELSE Cwd, p.parts)

\* CheckReady: no daemon, no image.
CheckReady == {"ready", "no daemon", "no image"}

\* Sandbox.Exec and the host's sh: whether a command runs, and to its end.
Runs(c, docker) == job[c].thread \in Sandboxed => docker = "ready"

\* Bash: a host thread refuses a destructive command even when approved; a
\* cancelled command is killed, perhaps after it wrote.  A command that fails, or
\* cannot be run, is a result with an exit code.
Exec(c) ==
    /\ Doing(c, "exec")
    /\ \/ /\ job[c].thread \notin Sandboxed /\ DetectDestructive(c)
          /\ Fail(c) /\ UNCHANGED <<disk, hist>>
       \/ /\ job[c].thread \in Sandboxed \/ ~DetectDestructive(c)
          /\ Advance(c)
          /\ \E docker \in CheckReady :
                \/ ~Runs(c, docker) /\ UNCHANGED <<disk, hist>>
                \/ (c \in cancelled \/ Target(c) = Nothing) /\ UNCHANGED <<disk, hist>>
                \/ Runs(c, docker) /\ Target(c) # Nothing /\ Put(c, Target(c), {c}) /\ Effect(c, Target(c))
    /\ UNCHANGED <<vars, script, file, buf, ret, mode, switches, callSeq, tasks, taskSeq>>

SetMode(t, m) ==
    /\ mode' = [mode EXCEPT ![t] = m]
    /\ switches' = [switches EXCEPT ![t] = @ + 1]

\* EnterPlanMode: SetAgentStatusAndMode may fail.
EnterPlan(c) ==
    /\ Doing(c, "plan")
    /\ \/ Fail(c) /\ UNCHANGED <<mode, switches>>
       \/ Advance(c) /\ SetMode(job[c].thread, "plan")
    /\ UNCHANGED <<vars, script, file, buf, ret, disk, callSeq, tasks, taskSeq, hist>>

\* ExitPlanMode shows the compiled plan and leaves the mode alone; Skill looks
\* its name up.
Look(c) ==
    /\ Doing(c, "surface") \/ Doing(c, "look")
    /\ Advance(c) \/ (Doing(c, "look") /\ Fail(c))
    /\ UNCHANGED <<vars, script, file, buf, ret, state, hist>>

\* enterPlanMode, approvePlan and the other agent mutations (AgentLifecycle).
ModeMutation(t, m) ==
    /\ switches[t] < script.switches /\ mode[t] # m /\ SetMode(t, m)
    /\ UNCHANGED <<vars, jobs, disk, callSeq, tasks, taskSeq, hist>>
-----------------------------------------------------------------------------
(* TaskStore.                                                              *)

\* Create takes the next number ...
NumberTask(c) ==
    /\ Doing(c, "number") /\ Advance(c)
    /\ LET t == job[c].thread
       IN /\ taskSeq' = [taskSeq EXCEPT ![t] = @ + 1]
          /\ ret' = [ret EXCEPT ![c] = taskSeq'[t]]
    /\ UNCHANGED <<vars, script, file, buf, disk, mode, switches, callSeq, tasks, hist>>

\* ... and adds the task under the lock.
CreateTask(c) ==
    /\ Doing(c, "create") /\ Advance(c)
    /\ tasks' = [tasks EXCEPT ![job[c].thread] =
                    [i \in DOMAIN @ \cup {ret[c]} |-> IF i = ret[c] THEN "pending" ELSE @[i]]]
    /\ UNCHANGED <<vars, script, file, buf, ret, disk, mode, switches, callSeq, taskSeq, hist>>

\* TaskUpdate and TaskStop: "deleted" removes the task, there or not; another
\* status needs it there.
UpdateTask(c) ==
    /\ Doing(c, "update")
    /\ LET t == job[c].thread
           ts == tasks[t]
       IN IF job[c].status = "deleted"
          THEN Advance(c) /\ tasks' = [tasks EXCEPT ![t] = [i \in DOMAIN ts \ {job[c].task} |-> ts[i]]]
          ELSE IF job[c].task \in DOMAIN ts
          THEN Advance(c) /\ tasks' = [tasks EXCEPT ![t][job[c].task] = job[c].status]
          ELSE Fail(c) /\ UNCHANGED tasks
    /\ UNCHANGED <<vars, script, file, buf, ret, disk, mode, switches, callSeq, taskSeq, hist>>
-----------------------------------------------------------------------------
\* The wait of Approvals, with verdicts for approvals and answers for questions.
Waits(c) == Waiter(c) /\ UNCHANGED <<jobs, state, hist>>
Asks(c)  == job[c].tool = "AskUserQuestion"

CallStep(c) ==
    \/ Start(c) \/ Resolve(c) \/ planGuard(c) \/ FireHook(c) \/ PostHook(c)
    \/ CheckPermission(c) \/ AskApproval(c) \/ Resolved(c)
    \/ ValidateAsk(c) \/ AskUser(c) \/ Replied(c)
    \/ Read(c) \/ Truncate(c) \/ Fill(c) \/ Exec(c) \/ EnterPlan(c) \/ Look(c)
    \/ NumberTask(c) \/ CreateTask(c) \/ UpdateTask(c)
    \/ Waits(c)

\* A user answers what a tab shows: a verdict for a call, answers for a question.
Reply(u, c, v, reason) ==
    /\ u \in script.users /\ verdicts < script.verdicts /\ (reason => script.notes)
    /\ Asks(c) <=> v \notin {"approved", "denied"}
    /\ Answer(u, c, v, reason)
    /\ UNCHANGED <<jobs, state, hist>>

ToolNext ==
    \/ \E c \in Calls : CallStep(c)
    \/ \E c \in script.cancels : res[c] = "running" /\ CancelTurn(c) /\ UNCHANGED <<jobs, state, hist>>
    \/ \E u \in Users, c \in Calls, v \in Verdicts, reason \in {FALSE, Reasons} : Reply(u, c, v, reason)
    \/ \E u \in Users : Mutation(u) /\ UNCHANGED <<jobs, state, hist>>
    \/ \E t \in {job[c].thread : c \in Calls}, m \in {"normal", "plan"} : ModeMutation(t, m)

ToolSpec == ToolInit /\ [][ToolNext]_allVars

\* Tools, hooks and timers run on; nobody has to answer.  (A shell command is
\* assumed to end.)
FairToolSpec ==
    /\ ToolSpec
    /\ \A c \in Calls : WF_allVars(CallStep(c))
    /\ \A u \in Users : WF_allVars(Mutation(u) /\ UNCHANGED <<jobs, state, hist>>)
-----------------------------------------------------------------------------
(* Properties.                                                             *)

Effected(c) == Writes(c) /\ (Doing(c, "fill") \/ Doing(c, "post") \/ res[c] = "ok")

\* A tool changes files only when its hooks passed, when its permission allows
\* it or a user approved it, inside the workspace if its thread is sandboxed,
\* and in plan mode only in the plan directory: or the mode changed after the
\* guard had read it, or the guard's read failed, which counts as no plan mode.
GatedEffects ==
    \A c \in Calls : Effected(c) =>
       /\ job[c].tool # "NotebookEdit" => gates[c].hook
       /\ Permission(c) = "allow" \/ (Permission(c) = "ask" /\ out[c] = "approved")
       /\ job[c].thread \in Sandboxed /\ gates[c].wrote # Nothing =>
             IsPrefix(Workspace[job[c].thread], gates[c].wrote)
       /\ gates[c].mode = "plan" /\ gates[c].at = gates[c].guard /\ gates[c].wrote # Nothing =>
             file[c] # Nothing /\ InPlanDir(file[c])

\* An edit replaces its own text and nothing else: what stayed in the file from
\* the moment its approval came in is there when it reports success, however
\* long the wait was.  (A write that overlaps the edit's own read and write is
\* lost, and a write that fails leaves what it wrote of the file.)
NoClobber ==
    [][\A c \in Calls : Edits(c) /\ Doing(c, "fill") /\ res'[c] = "ok" =>
          kept[c] \ {job[c].old} \subseteq disk'[file[c]]]_allVars

\* A question's result has one answer for each question asked, the one the user
\* gave to it or a blank; a task's id is given to no other task of its store,
\* also after deletions.
ResultsMatch ==
    /\ \A c \in Calls : Asks(c) /\ res[c] = "ok" =>
          /\ DOMAIN ret[c] = Asked(c)
          /\ out[c] # "timeout" /\ Payload[out[c]].kind = "map" =>
                LET said == Payload[out[c]].map
                IN \A q \in Asked(c) \cap DOMAIN said : ret[c][q] = said[q]
    /\ \A c, d \in {e \in Calls : job[e].tool = "TaskCreate" /\ ret[e] # Nothing} :
          c # d /\ job[c].thread = job[d].thread => ret[c] # ret[d]

\* Every call that begins returns, answered or not: a moment comes when no
\* call is running.
CallsReturn == (\E c \in Calls : res[c] = "running") ~> (\A c \in Calls : res[c] # "running")
=============================================================================
