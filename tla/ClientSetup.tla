---------------------------- MODULE ClientSetup ----------------------------
(***************************************************************************)
(* Registering archex with coding clients (client_setup.py, `archex        *)
(* install-client`, `archex setup`): entries are merged into configuration *)
(* files that belong to the user, one file after the other, and taken out  *)
(* again.  The user edits the same files between two writes.               *)
(*                                                                         *)
(* A file is NoFile, BROKEN (its JSON does not parse) or a record of the   *)
(* servers it registers and, by event, its groups of hook handlers.  A     *)
(* group of codex and cursor holds one handler.  One write of a file reads *)
(* it first; both are one step here.  codex's TOML is text, never Broken.   *)
(***************************************************************************)
EXTENDS Integers, Sequences, FiniteSets, SequencesExt, FiniteSetsExt

CONSTANTS
    Clients,        \* in the order of discovery
    Homes,          \* disks to start from: files and agent files
    MaxEdits,       \* bound on changes by the user
    MaxJobs         \* bound on commands

ASSUME ClientAssumption ==
    ToSet(Clients) \subseteq {"omp", "codex", "claude-code", "cursor", "opencode", "pi"}

VARIABLES
    files,      \* [Targets -> file]
    agents,     \* [agent file -> its parts, "user" or "archex"]
    python,     \* sys.executable: moves with the virtual environment
    edits,      \* changes by the user so far
    job         \* the command that runs, or the last one

setupVars == <<files, agents, python, edits, job>>

UserOnly == {"pi", "omp"}
Scopes(client) == IF client \in UserOnly THEN <<"user">> ELSE <<"user", "project">>

NoFile == [state |-> "absent"]
Broken == [state |-> "broken"]
EmptyFile ==
    [state |-> "json", servers |-> {},
     groups |-> [PreToolUse |-> <<>>, SessionStart |-> <<>>, beforeSubmitPrompt |-> <<>>, module |-> <<>>]]
Events == DOMAIN EmptyFile.groups
Content(file) == IF file = NoFile THEN EmptyFile ELSE file

McpTarget(client, scope) ==
    <<client, IF client = "codex" THEN "config" ELSE "mcp", IF client \in UserOnly THEN "user" ELSE scope>>

\* _hook_settings_path, _ts_hook_module_path, _cursor_hook_settings_path
HookTarget(client, scope) ==
    <<client, CASE client = "claude-code" -> "settings" [] client = "codex" -> "config"
                [] client = "cursor" -> "hooks" [] OTHER -> "module", scope>>

\* Claude Code is taken to be there if its desktop configuration is.
Candidates(client, scope) ==
    {McpTarget(client, scope)} \cup
        (IF client = "claude-code" /\ scope = "user" THEN {<<client, "desktop", "user">>} ELSE {})

Targets ==
    UNION {Candidates(c, s) \cup {HookTarget(c, s)} : c \in ToSet(Clients), s \in {"user", "project"}}

Ours(handler) == handler.by = "archex"

---------------------------------------------------------------------------
(* Merging into one file.                                                  *)

\* write_client_install_plan: another entry of ours is refused, not replaced.
RegisterFails(file, args) ==
    \/ file = Broken
    \/ \E s \in Content(file).servers : s.by = "archex" /\ s.args # args

Register(file, args) ==
    [Content(file) EXCEPT !.servers = @ \cup {[by |-> "archex", args |-> args]}]

\* Mutant of StripArchex: a group goes with our handler.
StripGroups(groups) == SelectSeq(groups, LAMBDA g : ~ \E i \in DOMAIN g.handlers : Ours(g.handlers[i]))

\* Mutant of StripArchex: an install adds to what is there.
StripNothing(groups) == groups

\* _strip_archex_hook_entries: a group left without handlers goes.
StripArchex(groups) ==
    LET rest(g) == SelectSeq(g.handlers, LAMBDA h : ~ Ours(h))
    IN  FoldLeft(LAMBDA s, g : IF rest(g) = <<>> THEN s ELSE Append(s, [g EXCEPT !.handlers = rest(g)]),
                 <<>>, groups)

\* _merge_hook_entry
MergeHandler(groups, handler, matcher) ==
    LET at == {i \in DOMAIN groups : groups[i].matcher = matcher}
    IN  IF at = {} THEN Append(groups, [matcher |-> matcher, handlers |-> <<handler>>])
        ELSE [groups EXCEPT ![Min(at)].handlers = Append(@, handler)]

\* _strip_codex_hook_block: the first block between our markers.
StripBlock(groups) ==
    LET ours == {i \in DOMAIN groups : \E n \in DOMAIN groups[i].handlers : Ours(groups[i].handlers[n])}
    IN  IF ours = {} THEN groups ELSE RemoveAt(groups, Min(ours))

HookEvent(plan) ==
    CASE plan.kind = "primer"     -> "SessionStart"
      [] plan.client = "cursor"   -> "beforeSubmitPrompt"
      [] plan.client \in {"claude-code", "codex"} -> "PreToolUse"
      [] OTHER                    -> "module"

\* Our handler goes where a group has our matcher; in codex and cursor it is
\* one more entry.
ApplyHook(groups, plan, exe) ==
    LET handler  == [by |-> "archex", exe |-> exe]
        stripped == IF plan.client = "codex" THEN StripBlock(groups) ELSE StripArchex(groups)
    IN  IF plan.action = "remove" THEN stripped
        ELSE IF plan.client = "claude-code" THEN MergeHandler(stripped, handler, "ours")
        ELSE Append(stripped, [matcher |-> "none", handlers |-> <<handler>>])

\* The TypeScript module is a file of ours.
WriteModule(plan, exe) ==
    IF plan.action = "remove" THEN NoFile
    ELSE [EmptyFile EXCEPT !.groups["module"] = ApplyHook(<<>>, plan, exe)]

PlanTarget(plan) ==
    IF plan.kind = "mcp" THEN McpTarget(plan.client, plan.scope) ELSE HookTarget(plan.client, plan.scope)

PlanFails(plan, file) ==
    IF plan.kind = "mcp" THEN RegisterFails(file, plan.args)
    ELSE file = Broken /\ HookEvent(plan) # "module"

\* Nothing is written where nothing changes.
WritePlan(plan, file, exe) ==
    LET event   == HookEvent(plan)
        updated == [Content(file) EXCEPT !.groups[event] = ApplyHook(@, plan, exe)]
    IN  IF plan.kind = "mcp" THEN Register(file, plan.args)
        ELSE IF event = "module" THEN WriteModule(plan, exe)
        ELSE IF updated = Content(file) THEN file ELSE updated

---------------------------------------------------------------------------
(* Commands: a sequence of plans, and agent files after those of mcp.      *)

Plan(kind, client, scope, action, args) ==
    [kind |-> kind, client |-> client, scope |-> scope, action |-> action, args |-> args]

Installed(client, scope) == \E t \in Candidates(client, scope) : files[t] # NoFile

\* discover_clients, in order: every client, whether it is installed or not.
Discovered ==
    FoldLeft(LAMBDA s, c : s \o [i \in DOMAIN Scopes(c) |-> <<c, Scopes(c)[i]>>], <<>>, Clients)

\* build_discovered_install_plans: the ones that are; each at its usual path.
InstalledPlans(args) ==
    LET there == SelectSeq(Discovered, LAMBDA d : Installed(d[1], d[2]))
    IN  [i \in DOMAIN there |-> Plan("mcp", there[i][1], there[i][2], "install", args)]

\* setup asks the preflight for the clients, which names all of them.
HookPlans(scope) ==
    [i \in DOMAIN Discovered |-> Plan("hook", Discovered[i][1], scope, "install", "")]

NoJob == [step |-> "idle", todo |-> <<>>, stops |-> TRUE, guided |-> {}, written |-> {}, n |-> 0, edits |-> 0]

MayStart == job.step # "running" /\ job.n < MaxJobs

\* stops: a plan that fails ends the command, else it is reported and passed over.
StartJob(todo, stops, guided) ==
    /\ job' = [step |-> "running", todo |-> todo, stops |-> stops, guided |-> guided,
               written |-> {}, n |-> job.n + 1, edits |-> edits]
    /\ UNCHANGED <<files, agents, python, edits>>

InstallClient(client, scope, kind, action, args) ==
    MayStart /\ StartJob(<<Plan(kind, client, scope, action, args)>>, TRUE, {})

InstallAllDetected(args, agentFiles) == MayStart /\ StartJob(InstalledPlans(args), TRUE, agentFiles)

\* setup: clients and guidance on demand and with an mcp runtime, then hooks.
Setup(clients, hooks, args) ==
    /\ MayStart
    /\ StartJob((IF clients THEN InstalledPlans(args) ELSE <<>>) \o (IF hooks THEN HookPlans("project") ELSE <<>>),
             FALSE, IF clients THEN {f \in DOMAIN agents : agents[f] # <<>>} ELSE {})

\* The next file.  setup catches what goes wrong with a registration, not with a hook.
WriteNext ==
    /\ job.step = "running" /\ job.todo # <<>>
    /\ LET plan   == Head(job.todo)
           target == PlanTarget(plan)
           rest   == [job EXCEPT !.todo = Tail(@)]
       IN  IF PlanFails(plan, files[target])
           THEN /\ job' = IF job.stops \/ plan.kind # "mcp" THEN [job EXCEPT !.step = "failed"] ELSE rest
                /\ UNCHANGED files
           ELSE /\ files' = [files EXCEPT ![target] = WritePlan(plan, @, python)]
                /\ job' = [rest EXCEPT !.written = @ \cup {plan}]
    /\ UNCHANGED <<agents, python, edits>>

\* append_agent_guidance, once per file.
AppendGuidance(f) ==
    /\ job.step = "running" /\ job.todo = <<>> /\ f \in job.guided
    /\ agents' = [agents EXCEPT ![f] = IF "archex" \in ToSet(@) THEN @ ELSE Append(@, "archex")]
    /\ job' = [job EXCEPT !.guided = @ \ {f}]
    /\ UNCHANGED <<files, python, edits>>

EndJob ==
    /\ job.step = "running" /\ job.todo = <<>> /\ job.guided = {}
    /\ job' = [job EXCEPT !.step = "done"]
    /\ UNCHANGED <<files, agents, python, edits>>

---------------------------------------------------------------------------
(* The user.                                                               *)

UserMove(fs, ag, exe) ==
    /\ edits < MaxEdits /\ edits' = edits + 1
    /\ files' = fs /\ agents' = ag /\ python' = exe /\ UNCHANGED job

\* A handler of the user's own: with ours if one matcher serves both, else apart.
UserAddsHandler(t, event, matcher) ==
    LET own == [by |-> "user", exe |-> "own"]
    IN  /\ files[t] # Broken
        /\ UserMove([files EXCEPT ![t] = [Content(@) EXCEPT !.groups[event] =
                        IF matcher = "ours" THEN MergeHandler(@, own, matcher)
                        ELSE Append(@, [matcher |-> matcher, handlers |-> <<own>>])]], agents, python)

UserRegisters(t, args) ==
    /\ files[t] # Broken
    /\ UserMove([files EXCEPT ![t] = [Content(@) EXCEPT !.servers = @ \cup {[by |-> "user", args |-> args]}]],
                agents, python)

MoveVenv == UserMove(files, agents, IF python = "old" THEN "new" ELSE "old")

SetupInit ==
    /\ \E home \in Homes : files = home.files /\ agents = home.agents
    /\ python = "old" /\ edits = 0 /\ job = NoJob

\* Another command runs.
SetupIdle ==
    files = [t \in Targets |-> NoFile] /\ agents = <<>> /\ python = "old" /\ edits = 0 /\ job = NoJob

Command ==
    \E args \in {"all", "core"} :
        \/ \E c \in ToSet(Clients), s \in {"user", "project"}, action \in {"install", "remove"} :
            \/ InstallClient(c, s, "hook", action, "")
            \/ c = "claude-code" /\ InstallClient(c, s, "primer", action, "")
            \/ InstallClient(c, IF c \in UserOnly THEN "user" ELSE s, "mcp", "install", args)
        \/ InstallAllDetected(args, DOMAIN agents)
        \/ \E clients, hooks \in BOOLEAN : Setup(clients, hooks, args)

UserNext ==
    \/ UserAddsHandler(<<"claude-code", "settings", "project">>, "PreToolUse", "ours")
    \/ UserAddsHandler(<<"codex", "config", "project">>, "PreToolUse", "none")
    \/ UserRegisters(<<"claude-code", "mcp", "project">>, "all")
    \/ MoveVenv

SetupNext ==
    \/ Command
    \/ WriteNext
    \/ \E f \in job.guided : AppendGuidance(f)
    \/ EndJob
    \/ UserNext

---------------------------------------------------------------------------
(* Properties.                                                             *)

\* What the user put in a file: registrations, and handlers with event and matcher.
OthersIn(file) ==
    IF file.state # "json" THEN IF file = Broken THEN {<<"broken">>} ELSE {}
    ELSE {<<"server", s.args>> : s \in {x \in file.servers : x.by = "user"}} \cup
         {<<e, file.groups[e][i].matcher, file.groups[e][i].handlers[n].exe>> :
            <<e, i, n>> \in {x \in Events \X (1..4) \X (1..4) :
                /\ x[2] \in DOMAIN file.groups[x[1]] /\ x[3] \in DOMAIN file.groups[x[1]][x[2]].handlers
                /\ ~ Ours(file.groups[x[1]][x[2]].handlers[x[3]])}}

\* No command, whole or cut short by a file it cannot read, takes away or moves
\* an entry that is not ours, or breaks or deletes a file with one
\* (client_setup.py render_multiple_install_preview, _strip_archex_hook_entries).
OthersKept ==
    [][/\ \A t \in Targets : OthersIn(files[t]) \subseteq OthersIn(files'[t])
       /\ \A f \in DOMAIN agents : "user" \in ToSet(agents[f]) => "user" \in ToSet(agents'[f])]_setupVars

OursIn(file, event) ==
    {<<i, n>> \in (1..4) \X (1..4) :
        /\ file.state = "json" /\ i \in DOMAIN file.groups[event]
        /\ n \in DOMAIN file.groups[event][i].handlers /\ Ours(file.groups[event][i].handlers[n])}

\* Whatever was there, also after the environment moved, a file that was written
\* has our handler once and as it is now, or not at all after a removal; and the
\* same command again would change nothing (client_setup.py _apply_hook_action).
SetupConverges ==
    job.step \in {"done", "failed"} /\ job.edits = edits =>
        \A plan \in job.written :
            LET file == files[PlanTarget(plan)]
                ours == OursIn(file, HookEvent(plan))
            IN  /\ ~ PlanFails(plan, file) /\ WritePlan(plan, file, python) = file
                /\ plan.kind # "mcp" =>
                    /\ Cardinality(ours) = IF plan.action = "install" THEN 1 ELSE 0
                    /\ \A o \in ours : file.groups[HookEvent(plan)][o[1]].handlers[o[2]].exe = python

=============================================================================
