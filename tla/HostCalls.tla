----------------------------- MODULE HostCalls -----------------------------
(***************************************************************************)
(* The interactive agent on its host: one thread that lists the tools of   *)
(* an MCP server when it starts (cli/agent.rs, cli/mcp.rs), then takes     *)
(* prompts, and for each asks a model and makes the calls the model asks   *)
(* for, one at a time, with Ctrl-C at any moment.  The history, the        *)
(* budget and the loop detection of a turn are AgentTurn's; here is what   *)
(* the calls of a turn do outside the process: to a provider, to child     *)
(* processes, to an MCP server and to the files of the workspace.          *)
(***************************************************************************)
EXTENDS ModelCall, HostCommand, McpCall, HostPolicy

CONSTANTS
    Policies,       \* the permission rules of the run
    Commands,       \* the command lines a model asks for
    FileCalls,      \* the file calls a model asks for: [tool, request, edit]
    Earlier,        \* the calls of the steps of the turns before the run
    MaxDecisions    \* bound on the decisions of the run

ASSUME CallsAssumption ==
    /\ MaxDecisions \in Nat
    /\ Policies \subseteq Seq(Rules)
    /\ Commands \subseteq Seq(Words)
    /\ \A call \in FileCalls :
          /\ call.tool \in FileTools
          /\ call.request \in Paths
          /\ call.edit.text \in Seq(WholePieces)
          /\ call.edit.new \in WholePieces

VARIABLES
    phase,          \* what the turn does next
    pending,        \* calls of this step still to make
    sizes,          \* the calls of each step of the turn so far
    decisions,      \* decisions asked for (bound)
    policy          \* the merged rules

callVars == <<phase, pending, sizes, decisions, policy>>
calls == <<model, command, mcp, fileVars>>
vars == <<turnVars, callVars, calls>>

TypeOK ==
    /\ HostTurnTypeOK
    /\ ModelTypeOK
    /\ CommandTypeOK
    /\ McpTypeOK
    /\ FileTypeOK
    /\ phase \in {"start", "step", "call", "over"}
    /\ pending \in 0..MaxCalls
    /\ sizes \in BoundedSeq(1..MaxCalls, MaxDecisions)
    /\ decisions \in 0..MaxDecisions
    /\ policy \in Policies

Init ==
    /\ HostTurnInit
    /\ FileInit
    /\ model = IdleModel
    /\ command = IdleCommand
    /\ mcp = IdleMcp
    /\ phase = "start"
    /\ pending = 0
    /\ sizes = <<>>
    /\ decisions = 0
    /\ policy \in Policies

\* No call is in progress.
Quiet ==
    /\ model = IdleModel
    /\ command = IdleCommand
    /\ mcp = IdleMcp
    /\ file = IdleFile

(***************************************************************************)
(* The start and the turns                                                 *)
(***************************************************************************)
\* The host asks a configured server for its tools before the first prompt; a
\* list it cannot use leaves it without them.
StartListing ==
    /\ host = "prompt" /\ phase = "start"
    /\ ListTools
    /\ UNCHANGED <<turnVars, callVars, model, command, fileVars>>

EndListing ==
    /\ host = "prompt" /\ phase = "start"
    /\ McpEnded
    /\ mcp' = IdleMcp
    /\ phase' = "over"
    /\ UNCHANGED <<turnVars, pending, sizes, decisions, policy, model, command, fileVars>>

\* A prompt, and the guard of its turn.
NextPrompt ==
    /\ phase = "over"
    /\ TakePrompt
    /\ phase' = "step"
    /\ sizes' = <<>>
    /\ UNCHANGED <<pending, decisions, policy, calls>>

BeginGuard == (ClearCancel \/ MarkActive) /\ UNCHANGED <<callVars, calls>>

\* A turn as a history: its prompt, and for each step the calls and then the
\* results.
Exchange(step, size) ==
    [i \in 1..(2 * size) |->
        IF i <= size
        THEN [role |-> "assistant", call |-> <<step, i>>, result |-> Absent, plain |-> TRUE]
        ELSE [role |-> "tool", call |-> Absent, result |-> <<step, i - size>>, plain |-> TRUE]]

Said(role) == <<[role |-> role, call |-> Absent, result |-> Absent, plain |-> TRUE]>>

HistoryOf(steps, first) ==
    Said("user") \o FlattenSeq([s \in DOMAIN steps |-> Exchange(first + s, steps[s])])

\* The messages of the request the turn asks the model with.
TurnMessages ==
    RequestMessages(TRUE, HistoryOf(Earlier, 0) \o Said("assistant"),
                    IF sizes = <<>> THEN <<>> ELSE HistoryOf(sizes, Len(Earlier)), FALSE)

\* The top of a step: a cancelled turn is over, another one asks the model.
StopTurn ==
    /\ host = "turn" /\ phase = "step" /\ Quiet
    /\ cancel \/ decisions = MaxDecisions
    /\ phase' = "over"
    /\ UNCHANGED <<turnVars, pending, sizes, decisions, policy, calls>>

Decide ==
    /\ host = "turn" /\ phase = "step" /\ Quiet
    /\ ~cancel
    /\ decisions < MaxDecisions
    /\ AskModel
    /\ decisions' = decisions + 1
    /\ UNCHANGED <<turnVars, phase, pending, sizes, policy, command, mcp, fileVars>>

\* Calls are made; an answer or an error ends the turn.
Decided ==
    /\ host = "turn"
    /\ ModelEnded
    /\ model' = IdleModel
    /\ IF model.result.kind = "calls"
       THEN /\ phase' = "call"
            /\ pending' = Len(model.result.calls)
            /\ sizes' = Append(sizes, Len(model.result.calls))
       ELSE /\ phase' = "over"
            /\ UNCHANGED <<pending, sizes>>
    /\ UNCHANGED <<turnVars, decisions, policy, command, mcp, fileVars>>

\* The guard is dropped with the answer.
FinishTurn ==
    /\ phase = "over"
    /\ EndTurn
    /\ UNCHANGED <<callVars, calls>>

(***************************************************************************)
(* The calls of a step                                                     *)
(***************************************************************************)
Calling == host = "turn" /\ phase = "call" /\ Quiet

\* How a call may go on: without a question, or with one.
Licences(call) == {Licence(policy, call)} \ {"deny"}

\* A tool of the MCP server, which always asks.
CallMcp ==
    /\ Calling
    /\ CallTool
    /\ UNCHANGED <<turnVars, callVars, model, command, fileVars>>

\* A command that is not refused.
RunCommand ==
    /\ Calling
    /\ \E words \in Commands :
        /\ ~IsDangerous(words)
        /\ \E licence \in Licences([tool |-> "run_command", path |-> NoValue, words |-> words]) :
              StartCommand(words, licence = "run")
    /\ UNCHANGED <<turnVars, callVars, model, mcp, fileVars>>

\* A file tool: the reading ones run at once, a write or an edit by the rules.
UseFile ==
    /\ Calling
    /\ \E call \in FileCalls :
        IF call.tool \in {"write_file", "edit_file"}
        THEN \E licence \in Licences([tool |-> call.tool, path |-> call.request, words |-> <<>>]) :
                Propose(call.tool, call.request, call.edit, licence = "run")
        ELSE Look(call.tool, call.request, call.edit)
    /\ UNCHANGED <<turnVars, callVars, model, command, mcp>>

\* A call has its result: the next call, or the next step.
Answered ==
    /\ pending' = pending - 1
    /\ phase' = IF pending = 1 THEN "step" ELSE "call"

\* A rule or the user refuses the call.
Refuse ==
    /\ Calling
    /\ Answered
    /\ UNCHANGED <<turnVars, sizes, decisions, policy, calls>>

Called ==
    /\ host = "turn" /\ phase = "call"
    /\ CommandEnded \/ McpEnded \/ FileEnded
    /\ Answered
    /\ command' = IdleCommand
    /\ mcp' = IdleMcp
    /\ file' = IdleFile
    /\ UNCHANGED <<turnVars, sizes, decisions, policy, model, tree, meddles>>

(***************************************************************************)
(* The whole                                                               *)
(***************************************************************************)
TurnStep == BeginGuard \/ StopTurn \/ Decide \/ Decided \/ FinishTurn \/ Called
            \/ StartListing \/ EndListing
Choice == CallMcp \/ RunCommand \/ UseFile \/ Refuse

\* A signal at any moment.  A process that exits leaves its files; what its
\* children do then is not followed.
CtrlC ==
    /\ Interrupt
    /\ IF host' = "exited"
       THEN /\ model' = IdleModel /\ command' = IdleCommand /\ mcp' = IdleMcp
            /\ file' = IdleFile
            /\ phase' = "over" /\ pending' = 0 /\ sizes' = <<>>
            /\ UNCHANGED <<decisions, policy, tree, meddles>>
       ELSE UNCHANGED <<callVars, calls>>

OnModel(A)   == host # "exited" /\ A /\ UNCHANGED <<turnVars, callVars, command, mcp, fileVars>>
OnCommand(A) == host # "exited" /\ A /\ UNCHANGED <<turnVars, callVars, model, mcp, fileVars>>
OnMcp(A)     == host # "exited" /\ A /\ UNCHANGED <<turnVars, callVars, model, command, fileVars>>
OnFile(A)    == host # "exited" /\ A /\ UNCHANGED <<turnVars, callVars, model, command, mcp>>

\* The host has one thread, which goes on whenever it can; deadlines come;
\* children, servers, users and signals do as they like.
HostThread ==
    \/ TurnStep \/ Choice
    \/ OnModel(ModelStep) \/ OnCommand(CommandStep) \/ OnMcp(McpStep) \/ OnFile(FileStep)
Clock == OnModel(Deadline) \/ OnCommand(CommandLate) \/ OnMcp(McpLate)

Next ==
    \/ HostThread \/ Clock \/ NextPrompt \/ CtrlC
    \/ OnModel(ModelEnvironment) \/ OnCommand(CommandEnvironment) \/ OnMcp(McpEnvironment)
    \/ OnFile(AnswerFile) \/ OnFile(Meddle)

Fairness == WF_vars(HostThread) /\ WF_vars(Clock)

Spec == Init /\ [][Next]_vars /\ Fairness

(***************************************************************************)
(* Properties                                                              *)
(***************************************************************************)
\* cli/interrupt.rs tells the user "cancelling; press Ctrl-C again to quit": a
\* turn's calls see the flag set if and only if its user was told so, never
\* because of an earlier turn, and never lost to the order in which
\* TurnGuard::begin clears the flag and marks the turn.
ToldIsCancelled == host \in {"marking", "turn"} => (told <=> cancel)

\* However a call ends, by itself, by an error, by its deadline or by a cancel,
\* no child it started runs afterwards: not the model's process, not the shell
\* nor its group, not the server nor its group (command_env.rs, workspace.rs,
\* mcp.rs and agent/process_model.rs each have a guard for it).
NothingLeftRunning ==
    /\ ModelEnded => model.child # "running"
    /\ CommandsEndWhole
    /\ ServersEndWhole

\* What ran without a question was licensed.  A write or an edit: by an allow
\* rule with no restrictive relative rule before it that covers the file, as
\* the workspace spells it (the root of the host is no file).  A command: by an allow rule, or because every
\* existing place its words name is inside the workspace, links followed
\* (permissions.rs, read_only_commands.rs).
Spelled(request) ==
    LET names == Candidate(request)
    IN  IF IsPrefix(Root, names) THEN SubSeq(names, Len(Root) + 1, Len(names)) ELSE names

Covers(rule, tool, request) ==
    /\ rule.tool \in {"*", tool} \/ (rule.tool = "write_file" /\ tool = "edit_file")
    /\ \/ rule.all
       \/ /\ ~rule.path.absolute
          /\ Candidate(request) # <<>>
          /\ IsPrefix(PathComponents(rule.path), Spelled(request))

UseIsLicensed(tool, request) ==
    \E i \in DOMAIN policy :
       /\ policy[i].effect = "allow"
       /\ \A j \in 1..(i - 1) : policy[j].effect # "allow" => ~Covers(policy[j], tool, request)

CommandIsLicensed(words) ==
    \/ \E i \in DOMAIN policy : policy[i].effect = "allow" /\ policy[i].tool \in {"*", "run_command"}
    \/ \A i \in 2..Len(words) :
          LET place == Canonical(Candidate(words[i].value))
          IN  place.exists => IsPrefix(Root, place.path)

UnaskedIsLicensed ==
    /\ file # IdleFile /\ file.unasked /\ file.tool \in {"write_file", "edit_file"} =>
          UseIsLicensed(file.tool, file.request)
    /\ command # IdleCommand /\ command.unasked => CommandIsLicensed(command.words)

\* A wait the code does not bound: for the user, for a local service that goes
\* on sending or closed its connection among the headers, for the error output of
\* a failed model process, and for the outputs of a command, which a process that
\* left the command's group may hold open.
HeldUp ==
    \/ model # IdleModel /\ LocalPending
    \/ model # IdleModel /\ model.pc = "explain" /\ model.held
    \/ command # IdleCommand /\ command.pc = "join" /\ command.escaped
    \/ file # IdleFile /\ file.pc = "asked"

\* Every turn ends, or the process does, or one of these waits holds it up:
\* each other wait of a call has a deadline or watches the flag.
TurnsEnd == host = "turn" ~> host # "turn" \/ HeldUp

\* A provider takes a request only if the calls of an assistant message are
\* answered by the messages right after it, and by nothing else: whatever steps
\* a turn has had, its request is of that form (openrouter.rs,
\* build_request_body and conversation_message).
ResultsFollowCalls ==
    ModelAsked =>
        LET messages == TurnMessages
            answers(i) == {j \in DOMAIN messages :
                              j > i /\ \A k \in (i + 1)..j : messages[k].role = "tool"}
        IN  \A i \in DOMAIN messages :
               /\ messages[i].calls # <<>> =>
                     {messages[j].of : j \in answers(i)} = Range(messages[i].calls)
               /\ messages[i].role = "tool" =>
                     \E k \in 1..(i - 1) : i \in answers(k) /\ messages[k].calls # <<>>
=============================================================================
