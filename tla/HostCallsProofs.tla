-------------------------- MODULE HostCallsProofs --------------------------
(***************************************************************************)
(* What holds of the host for every set of tools, models, files, answers   *)
(* and limits.                                                             *)
(*                                                                         *)
(* The turn: whoever is told that it is being cancelled has it cancelled,  *)
(* and nobody else.  Of all that the host does only five steps and the     *)
(* signal touch its variables; FlagInv says what they leave behind.        *)
(*                                                                         *)
(* The calls: no child outlives its call, and an answer is that of one     *)
(* attempt and of this request (CallsInv, one part for each kind of call). *)
(*                                                                         *)
(* The files: tools stay inside, nothing is left half written, and an edit *)
(* is made on a text that was there (FilesInv).                            *)
(***************************************************************************)
EXTENDS HostCalls, WellFoundedInduction, TLAPS

\* The steps of a turn that a signal can tell apart.
TurnMove == TakePrompt \/ ClearCancel \/ MarkActive \/ EndTurn \/ Interrupt

\* Before the guard is in place a signal can only end the process, so the
\* cleared flag stays clear and nobody is told; then flag and word go together.
FlagInv ==
    /\ host \in {"prompt", "clearing", "marking"} => ~active
    /\ host = "clearing" => ~told
    /\ host = "marking" => ~told /\ ~cancel
    /\ host = "turn" => active /\ (told <=> cancel)

HostInv == HostTurnTypeOK /\ FlagInv

\* Every step of the host leaves the turn alone or is one of its moves.
LEMMA TurnMoves == [Next]_vars => TurnMove \/ UNCHANGED turnVars
<1> SUFFICES ASSUME [Next]_vars PROVE TurnMove \/ UNCHANGED turnVars  OBVIOUS
<1>1. CASE TurnStep
  BY <1>1 DEF TurnStep, BeginGuard, StopTurn, Decide, Decided, FinishTurn, Called,
              StartListing, EndListing, TurnMove
<1>2. CASE Choice
  BY <1>2 DEF Choice, CallMcp, RunCommand, UseFile, Refuse
<1>3. CASE OnModel(ModelStep) \/ OnModel(Deadline) \/ OnModel(ModelEnvironment)
  BY <1>3 DEF OnModel
<1>4. CASE OnCommand(CommandStep) \/ OnCommand(CommandLate) \/ OnCommand(CommandEnvironment)
  BY <1>4 DEF OnCommand
<1>5. CASE OnMcp(McpStep) \/ OnMcp(McpLate) \/ OnMcp(McpEnvironment)
  BY <1>5 DEF OnMcp
<1>6. CASE OnFile(FileStep) \/ OnFile(AnswerFile) \/ OnFile(Meddle)
  BY <1>6 DEF OnFile
<1>7. CASE NextPrompt  BY <1>7 DEF NextPrompt, TurnMove
<1>8. CASE CtrlC  BY <1>8 DEF CtrlC, TurnMove
<1>9. CASE UNCHANGED vars  BY <1>9 DEF vars
<1> QED
  BY <1>1, <1>2, <1>3, <1>4, <1>5, <1>6, <1>7, <1>8, <1>9 DEF Next, HostThread, Clock

LEMMA TurnInit == Init => HostInv
<1> SUFFICES ASSUME HostTurnInit PROVE HostInv  BY Zenon DEF Init
<1>1. turns \in 0..MaxTurns  BY TurnsAssumption DEF HostTurnInit
<1>2. FlagInv  BY Zenon DEF HostTurnInit, FlagInv
<1> QED  BY <1>1, <1>2, Zenon DEF HostTurnInit, HostInv, HostTurnTypeOK, HostStates

LEMMA TurnStays == HostInv /\ [Next]_vars => HostInv'
<1> SUFFICES ASSUME HostInv, TurnMove \/ UNCHANGED turnVars PROVE HostInv'
  BY TurnMoves
<1> USE TurnsAssumption DEF HostInv, HostTurnTypeOK, HostStates, FlagInv
<1>1. CASE TakePrompt
  <2>1. turns' \in 0..MaxTurns  BY <1>1 DEF TakePrompt
  <2>2. FlagInv'  BY <1>1, Zenon DEF TakePrompt
  <2> QED  BY <1>1, <2>1, <2>2, Zenon DEF TakePrompt
<1>2. CASE ClearCancel  BY <1>2 DEF ClearCancel
<1>3. CASE MarkActive  BY <1>3 DEF MarkActive
<1>4. CASE EndTurn  BY <1>4 DEF EndTurn
<1>5. CASE Interrupt
  <2>1. CASE active /\ ~cancel  BY <1>5, <2>1 DEF Interrupt, Handled
  <2>2. CASE ~(active /\ ~cancel)  BY <1>5, <2>2 DEF Interrupt, Handled
  <2> QED  BY <2>1, <2>2
<1>6. CASE UNCHANGED turnVars  BY <1>6 DEF turnVars
<1> QED  BY <1>1, <1>2, <1>3, <1>4, <1>5, <1>6 DEF TurnMove

\* The calls of a turn see the cancel flag if and only if the user of this turn
\* was told that it is being cancelled (cli/interrupt.rs, TurnGuard::begin and
\* on_interrupt).
THEOREM CancelIsTold == Spec => []ToldIsCancelled
<1>1. HostInv => ToldIsCancelled
  BY DEF HostInv, FlagInv, HostTurnTypeOK, ToldIsCancelled
<1> QED  BY TurnInit, TurnStays, <1>1, PTL DEF Spec

(***************************************************************************)
(* What a step does to a call                                              *)
(***************************************************************************)
\* Every step of the host leaves the call of the model alone, is a step of it,
\* or forgets it; so for the command and for the request to the MCP server.
ModelMove ==
    AskModel \/ ModelStep \/ ModelEnvironment \/ Deadline \/ model' = IdleModel

Line(words) == [tool |-> "run_command", path |-> NoValue, words |-> words]

CommandMove ==
    \/ \E words \in Commands, unasked \in BOOLEAN :
          /\ unasked => Licence(policy, Line(words)) = "run"
          /\ StartCommand(words, unasked)
    \/ CommandStep \/ CommandEnvironment \/ CommandLate
    \/ command' = IdleCommand

McpMove ==
    CallTool \/ ListTools \/ McpStep \/ McpEnvironment \/ McpLate \/ mcp' = IdleMcp

LEMMA ModelMoves == [Next]_vars => ModelMove \/ UNCHANGED model
<1> SUFFICES ASSUME [Next]_vars PROVE ModelMove \/ UNCHANGED model  OBVIOUS
<1>1. CASE TurnStep
  BY <1>1 DEF TurnStep, BeginGuard, StopTurn, Decide, Decided, FinishTurn, Called,
              StartListing, EndListing, ModelMove, calls
<1>2. CASE Choice
  BY <1>2 DEF Choice, CallMcp, RunCommand, UseFile, Refuse, calls
<1>3. CASE OnModel(ModelStep) \/ OnModel(Deadline) \/ OnModel(ModelEnvironment)
  BY <1>3 DEF OnModel, ModelMove
<1>4. CASE OnCommand(CommandStep) \/ OnCommand(CommandLate) \/ OnCommand(CommandEnvironment)
  BY <1>4 DEF OnCommand
<1>5. CASE OnMcp(McpStep) \/ OnMcp(McpLate) \/ OnMcp(McpEnvironment)
  BY <1>5 DEF OnMcp
<1>6. CASE OnFile(FileStep) \/ OnFile(AnswerFile) \/ OnFile(Meddle)
  BY <1>6 DEF OnFile
<1>7. CASE NextPrompt  BY <1>7 DEF NextPrompt, calls
<1>8. CASE CtrlC  BY <1>8 DEF CtrlC, ModelMove, calls
<1>9. CASE UNCHANGED vars  BY <1>9 DEF vars, calls
<1> QED
  BY <1>1, <1>2, <1>3, <1>4, <1>5, <1>6, <1>7, <1>8, <1>9 DEF Next, HostThread, Clock

LEMMA CommandMoves == [Next]_vars => CommandMove \/ UNCHANGED command
<1> SUFFICES ASSUME [Next]_vars PROVE CommandMove \/ UNCHANGED command  OBVIOUS
<1>1. CASE TurnStep
  BY <1>1 DEF TurnStep, BeginGuard, StopTurn, Decide, Decided, FinishTurn, Called,
              StartListing, EndListing, CommandMove, calls
<1>2. CASE Choice
  <2>1. CASE RunCommand
    <3>1. PICK words \in Commands :
            \E licence \in Licences(Line(words)) : StartCommand(words, licence = "run")
      BY <2>1 DEF RunCommand, Line
    <3>2. PICK licence \in {Licence(policy, Line(words))} \ {"deny"} :
            StartCommand(words, licence = "run")
      BY <3>1 DEF Licences
    <3>3. /\ (licence = "run") \in BOOLEAN
          /\ licence = "run" => Licence(policy, Line(words)) = "run"
      OBVIOUS
    <3>4. \E unasked \in BOOLEAN :
             /\ unasked => Licence(policy, Line(words)) = "run"
             /\ StartCommand(words, unasked)
      BY <3>2, <3>3
    <3> QED  BY <3>4 DEF CommandMove
  <2>2. CASE CallMcp \/ UseFile \/ Refuse  BY <2>2 DEF CallMcp, UseFile, Refuse, calls
  <2> QED  BY <1>2, <2>1, <2>2 DEF Choice
<1>3. CASE OnModel(ModelStep) \/ OnModel(Deadline) \/ OnModel(ModelEnvironment)
  BY <1>3 DEF OnModel
<1>4. CASE OnCommand(CommandStep) \/ OnCommand(CommandLate) \/ OnCommand(CommandEnvironment)
  BY <1>4 DEF OnCommand, CommandMove
<1>5. CASE OnMcp(McpStep) \/ OnMcp(McpLate) \/ OnMcp(McpEnvironment)
  BY <1>5 DEF OnMcp
<1>6. CASE OnFile(FileStep) \/ OnFile(AnswerFile) \/ OnFile(Meddle)
  BY <1>6 DEF OnFile
<1>7. CASE NextPrompt  BY <1>7 DEF NextPrompt, calls
<1>8. CASE CtrlC  BY <1>8 DEF CtrlC, CommandMove, calls
<1>9. CASE UNCHANGED vars  BY <1>9 DEF vars, calls
<1> QED
  BY <1>1, <1>2, <1>3, <1>4, <1>5, <1>6, <1>7, <1>8, <1>9 DEF Next, HostThread, Clock

LEMMA McpMoves == [Next]_vars => McpMove \/ UNCHANGED mcp
<1> SUFFICES ASSUME [Next]_vars PROVE McpMove \/ UNCHANGED mcp  OBVIOUS
<1>1. CASE TurnStep
  BY <1>1 DEF TurnStep, BeginGuard, StopTurn, Decide, Decided, FinishTurn, Called,
              StartListing, EndListing, McpMove, calls
<1>2. CASE Choice
  BY <1>2 DEF Choice, CallMcp, RunCommand, UseFile, Refuse, McpMove, calls
<1>3. CASE OnModel(ModelStep) \/ OnModel(Deadline) \/ OnModel(ModelEnvironment)
  BY <1>3 DEF OnModel
<1>4. CASE OnCommand(CommandStep) \/ OnCommand(CommandLate) \/ OnCommand(CommandEnvironment)
  BY <1>4 DEF OnCommand
<1>5. CASE OnMcp(McpStep) \/ OnMcp(McpLate) \/ OnMcp(McpEnvironment)
  BY <1>5 DEF OnMcp, McpMove
<1>6. CASE OnFile(FileStep) \/ OnFile(AnswerFile) \/ OnFile(Meddle)
  BY <1>6 DEF OnFile
<1>7. CASE NextPrompt  BY <1>7 DEF NextPrompt, calls
<1>8. CASE CtrlC  BY <1>8 DEF CtrlC, McpMove, calls
<1>9. CASE UNCHANGED vars  BY <1>9 DEF vars, calls
<1> QED
  BY <1>1, <1>2, <1>3, <1>4, <1>5, <1>6, <1>7, <1>8, <1>9 DEF Next, HostThread, Clock
(***************************************************************************)
(* The processes of the calls                                              *)
(***************************************************************************)
\* What is left of a command at each of its steps: the group has been killed by
\* the time its leader is waited for, and a leader that exited was waited for
\* before.
CommandFields ==
    {"pc", "words", "unasked", "leader", "group", "escaped", "late", "result"}

CommandInv ==
    \/ command = IdleCommand
    \/ /\ DOMAIN command = CommandFields
       /\ command.pc \in CommandSteps
       /\ command.leader \in Leaders
       /\ command.group \in BOOLEAN
       /\ command.pc = "start" => command.leader = "none" /\ ~command.group
       /\ command.pc = "kill" /\ command.result = "exited" => command.leader = "reaped"
       /\ command.pc = "reap" => command.leader \in {"zombie", "reaped"} /\ ~command.group
       /\ command.pc = "join" => command.leader = "reaped"
       /\ command.pc = "poll" => command.leader \in {"running", "zombie"}
       /\ command.pc = "kill" => command.leader # "none"
       /\ command.pc = "ended" => command.leader \in {"none", "reaped"} /\ ~command.group

LEMMA CommandStays == CommandInv /\ [Next]_vars => CommandInv'
<1> SUFFICES ASSUME CommandInv, CommandMove \/ UNCHANGED command PROVE CommandInv'
  BY CommandMoves
<1> USE DEF CommandSteps, Leaders, CommandFields
<1>1. CASE command' = IdleCommand  BY <1>1 DEF CommandInv
<1>2. CASE \E words \in Commands, unasked \in BOOLEAN : StartCommand(words, unasked)
  BY <1>2 DEF StartCommand, CommandInv
<1>3. CASE command # IdleCommand /\ (CommandStep \/ CommandEnvironment \/ CommandLate)
  <2> USE <1>3 DEF CommandInv
  <2>1. CASE SpawnShell  BY <2>1 DEF SpawnShell
  <2>2. CASE PollShell  BY <2>2 DEF PollShell
  <2>3. CASE KillGroup  BY <2>3 DEF KillGroup
  <2>4. CASE ReapShell  BY <2>4 DEF ReapShell
  <2>5. CASE JoinReaders  BY <2>5 DEF JoinReaders
  <2>6. CASE ShellForks  BY <2>6 DEF ShellForks, Stepping
  <2>7. CASE ShellExits  BY <2>7 DEF ShellExits, Stepping
  <2>8. CASE CommandLate  BY <2>8 DEF CommandLate, Stepping
  <2> QED
    BY <2>1, <2>2, <2>3, <2>4, <2>5, <2>6, <2>7, <2>8 DEF CommandStep, CommandEnvironment
<1>4. CASE command = IdleCommand /\ (CommandStep \/ CommandEnvironment \/ CommandLate)
  BY <1>4 DEF IdleCommand, CommandStep, SpawnShell, PollShell, KillGroup, ReapShell, JoinReaders,
              CommandEnvironment, ShellForks, ShellExits, CommandLate, Stepping
<1>5. CASE UNCHANGED command  BY <1>5 DEF CommandInv
<1> QED  BY <1>1, <1>2, <1>3, <1>4, <1>5, Zenon DEF CommandMove

\* A request to the MCP server.  Outside a round trip there is no process.  What
\* a server has said are answers to the two requests, a content only after the
\* call was carried out, and messages of its own; the reply the client takes is
\* an answer to its request.
McpFields ==
    {"pc", "method", "page", "tools", "skipped", "child", "group", "inbox", "received",
     "performed", "said", "late", "reply", "result"}

Utterances ==
    AnswersTo(InitializeId) \cup AnswersTo(RequestId)
        \cup {ServerRequest(RequestId), Notification, BadLine}

Sayable == {message \in Utterances : message.body = "content" => mcp.performed = 1}

Proper ==
    {body \in {answer.body : answer \in AnswersTo(RequestId)} :
        body = "content" => mcp.performed = 1}

McpInProgress ==
    /\ DOMAIN mcp = McpFields
    /\ mcp.pc \in McpSteps
    /\ mcp.child \in BOOLEAN /\ mcp.group \in BOOLEAN
    /\ mcp.pc \in {"spawn", "done", "ended"} => ~mcp.child /\ ~mcp.group
    /\ mcp.received \subseteq {1, 2}
    /\ mcp.inbox \in Seq(Sayable)
    /\ \/ mcp.pc = "grace"
       \/ mcp.pc \in {"drop", "done"} /\ mcp.result \in {"none", "answered"}
       => mcp.reply \in Proper

McpInv == mcp = IdleMcp \/ McpInProgress

\* A step that leaves the method and undoes no call keeps what was said and
\* what is proper.
LEMMA SayableStays ==
    ASSUME mcp'.method = mcp.method, mcp.performed = 1 => mcp'.performed = 1
    PROVE  /\ \A inbox : inbox \in Seq(Sayable) => inbox \in Seq(Sayable')
           /\ Proper \subseteq Proper'
<1>1. \A id : AnswersTo(id)' = AnswersTo(id)  BY DEF AnswersTo
<1>2. Utterances' = Utterances
  BY <1>1, Zenon DEF Utterances, ServerRequest, Notification, BadLine, RequestId, InitializeId
<1>5. Sayable \subseteq Sayable'  BY <1>2 DEF Sayable
<1>3. Proper \subseteq Proper'  BY <1>1 DEF Proper
<1>4. ASSUME NEW inbox \in Seq(Sayable) PROVE inbox \in Seq(Sayable')  BY <1>5
<1> QED  BY <1>3, <1>4

\* What a server says under the id of the request answers it.
LEMMA ResponseIsProper ==
    ASSUME NEW message \in Sayable, IsResponse(message, RequestId)
    PROVE  message.body \in Proper
<1>1. message \notin {ServerRequest(RequestId), Notification, BadLine}
  BY DEF IsResponse, ServerRequest, Notification, BadLine, RequestId
<1>2. message \notin AnswersTo(InitializeId)
  BY DEF IsResponse, AnswersTo, Answer, InitializeId, RequestId
<1>3. message \in AnswersTo(RequestId)  BY <1>1, <1>2, Zenon DEF Sayable, Utterances
<1>4. message.body = "content" => mcp.performed = 1  BY Zenon DEF Sayable
<1> QED  BY <1>3, <1>4 DEF Proper

\* The client takes the next line for its answer only if it is.
LEMMA AwaitStays ==
    ASSUME McpInProgress,
           NEW id, NEW next, Await(id, next),
           mcp.pc \in {"greeted", "answer"},
           \/ id = InitializeId /\ next = "request"
           \/ id = RequestId /\ next = "grace"
    PROVE  McpInProgress'
<1> USE DEF McpInProgress, McpSteps, McpFields
<1> DEFINE message == Head(mcp.inbox)
           read    == [mcp EXCEPT !.inbox = Tail(@)]
<1>1. \/ mcp' = Left(mcp, "timed out")
      \/ /\ mcp.inbox # <<>>
         /\ \/ \E why \in {"bad line", "refused", "no answer"} : mcp' = Left(read, why)
            \/ IsResponse(message, id) /\ mcp' = [read EXCEPT !.pc = next, !.reply = message.body]
            \/ mcp' = [read EXCEPT !.skipped = @ + 1]
  BY DEF Await
<1>2. mcp.inbox # <<>> => Tail(mcp.inbox) \in Seq(Sayable) /\ message \in Sayable  OBVIOUS
<1>3. mcp'.method = mcp.method /\ mcp'.performed = mcp.performed  BY <1>1 DEF Left
<1>4. mcp'.inbox \in Seq(Sayable)
  <2> HIDE DEF message
  <2> QED  BY <1>1, <1>2 DEF Left
<1>5. mcp'.inbox \in Seq(Sayable') /\ Proper \subseteq Proper'  BY <1>3, <1>4, SayableStays
<1>6. id = RequestId /\ mcp.inbox # <<>> /\ IsResponse(message, id) => message.body \in Proper
  BY <1>2, ResponseIsProper
<1> HIDE DEF message
<1>7. CASE mcp' = Left(mcp, "timed out")  BY <1>5, <1>7 DEF Left
<1>8. ASSUME NEW why \in {"bad line", "refused", "no answer"}, mcp' = Left(read, why)
      PROVE  McpInProgress'
  BY <1>5, <1>8 DEF Left
<1>9. CASE /\ mcp.inbox # <<>> /\ IsResponse(message, id)
           /\ mcp' = [read EXCEPT !.pc = next, !.reply = message.body]
  BY <1>5, <1>6, <1>9
<1>10. CASE mcp' = [read EXCEPT !.skipped = @ + 1]  BY <1>5, <1>10
<1> QED  BY <1>1, <1>7, <1>8, <1>9, <1>10

LEMMA McpStays == McpInv /\ [Next]_vars => McpInv'
<1> SUFFICES ASSUME McpInv, McpMove \/ UNCHANGED mcp PROVE McpInv'
  BY McpMoves
<1> USE DEF McpSteps, McpFields
<1>1. CASE mcp' = IdleMcp  BY <1>1 DEF McpInv
<1>2. CASE CallTool \/ ListTools
  <2>1. <<>> \in Seq(Sayable')  OBVIOUS
  <2> HIDE DEF Sayable, Proper
  <2>2. PICK method : mcp' = NewRequest(method)  BY <1>2 DEF CallTool, ListTools
  <2>3. DOMAIN mcp' = McpFields  BY <2>2 DEF NewRequest
  <2>4. /\ mcp'.pc = "spawn" /\ mcp'.child = FALSE /\ mcp'.group = FALSE /\ mcp'.inbox = <<>>
        /\ mcp'.received = {}
    BY <2>2 DEF NewRequest
  <2> QED  BY <2>1, <2>3, <2>4 DEF McpInv, McpInProgress
<1>3. CASE UNCHANGED mcp
  <2>1. \A inbox : inbox \in Seq(Sayable) => inbox \in Seq(Sayable')  BY <1>3, SayableStays
  <2>2. Proper \subseteq Proper'  BY <1>3, SayableStays
  <2> QED  BY <1>3, <2>1, <2>2 DEF McpInv, McpInProgress
<1>4. CASE mcp = IdleMcp /\ (McpStep \/ McpEnvironment \/ McpLate)
  BY <1>4 DEF IdleMcp, McpStep, SpawnServer, Greet, AwaitGreeting, SendRequest, AwaitAnswer, Grace,
              DropServer, Conclude, McpEnvironment, ServerPerforms, ServerSays, ServerForks,
              ServerExits, McpLate, Serving
<1>5. CASE mcp # IdleMcp /\ (McpStep \/ McpEnvironment \/ McpLate)
  <2> USE DEF McpInProgress
  <2>0. McpInProgress  BY <1>5 DEF McpInv
  <2> SUFFICES McpInProgress'  BY DEF McpInv
  <2>1. CASE SpawnServer
    <3>1. mcp'.method = mcp.method /\ mcp'.performed = mcp.performed  BY <2>0, <2>1 DEF SpawnServer
    <3>2. mcp.inbox \in Seq(Sayable')
      BY <2>0, <3>1, SayableStays
    <3>3. CASE mcp' = [mcp EXCEPT !.pc = "ended", !.result = "not started"]
      BY <2>0, <2>1, <3>2, <3>3 DEF SpawnServer
    <3>4. CASE mcp' = [mcp EXCEPT !.pc = "greet", !.child = TRUE, !.inbox = <<>>,
                                  !.received = {}, !.late = FALSE, !.skipped = 0]
      BY <2>0, <2>1, <3>2, <3>4 DEF SpawnServer
    <3> QED  BY <2>1, <3>3, <3>4 DEF SpawnServer
  <2>2. CASE Greet
    <3>1. mcp'.method = mcp.method /\ mcp'.performed = mcp.performed /\ mcp'.inbox = mcp.inbox
      BY <2>0, <2>2 DEF Greet, Write, Left
    <3>2. mcp.inbox \in Seq(Sayable')
      BY <2>0, <3>1, SayableStays
    <3>3. /\ DOMAIN mcp' = McpFields
          /\ mcp'.child = mcp.child /\ mcp'.group = mcp.group
          /\ \/ mcp'.pc = "greeted"
             \/ mcp'.pc = "drop" /\ mcp'.result = "not sent"
      BY <2>0, <2>2 DEF Greet, Write, Left
    <3>4. mcp'.received = mcp.received \/ mcp'.received = mcp.received \cup {1}
      BY <2>0, <2>2 DEF Greet, Write, Left, InitializeId
    <3> QED  BY <2>0, <3>1, <3>2, <3>3, <3>4
  <2>4. CASE SendRequest
    <3>1. mcp'.method = mcp.method /\ mcp'.performed = mcp.performed /\ mcp'.inbox = mcp.inbox
      BY <2>0, <2>4 DEF SendRequest, Write, Left
    <3>2. mcp.inbox \in Seq(Sayable')
      BY <2>0, <3>1, SayableStays
    <3>3. /\ DOMAIN mcp' = McpFields
          /\ mcp'.child = mcp.child /\ mcp'.group = mcp.group
          /\ \/ mcp'.pc = "answer"
             \/ mcp'.pc = "drop" /\ mcp'.result \in {"not sent", "timed out"}
      BY <2>0, <2>4 DEF SendRequest, Write, Left
    <3>4. mcp'.received = mcp.received \/ mcp'.received = mcp.received \cup {2}
      BY <2>0, <2>4 DEF SendRequest, Write, Left, RequestId
    <3> QED  BY <2>0, <3>1, <3>2, <3>3, <3>4
  <2>3. CASE AwaitGreeting
    <3>1. Await(InitializeId, "request") /\ mcp.pc = "greeted"  BY <2>3 DEF AwaitGreeting
    <3> QED  BY <2>0, <3>1, AwaitStays
  <2>5. CASE AwaitAnswer
    <3>1. Await(RequestId, "grace") /\ mcp.pc = "answer"  BY <2>5 DEF AwaitAnswer
    <3> QED  BY <2>0, <3>1, AwaitStays
  <2>6. CASE Grace \/ DropServer
    <3>1. mcp'.method = mcp.method /\ mcp'.performed = mcp.performed /\ mcp'.inbox = mcp.inbox
          /\ mcp'.reply = mcp.reply
      BY <2>0, <2>6 DEF Grace, DropServer
    <3>2. mcp.inbox \in Seq(Sayable')
      BY <2>0, <3>1, SayableStays
    <3>3. Proper \subseteq Proper'  BY <3>1, SayableStays
    <3> QED  BY <2>0, <2>6, <3>1, <3>2, <3>3 DEF Grace, DropServer
  <2>7. CASE Conclude
    <3>1. mcp'.method = mcp.method /\ mcp'.performed = mcp.performed /\ mcp'.inbox = mcp.inbox
      BY <2>0, <2>7 DEF Conclude
    <3>2. mcp.inbox \in Seq(Sayable')
      BY <2>0, <3>1, SayableStays
    <3>3. /\ DOMAIN mcp' = McpFields
          /\ mcp'.child = mcp.child /\ mcp'.group = mcp.group /\ mcp'.received = mcp.received
          /\ mcp'.pc \in {"spawn", "ended"}
      BY <2>0, <2>7 DEF Conclude
    <3> QED  BY <2>0, <2>7, <3>1, <3>2, <3>3 DEF Conclude
  <2>8. CASE ServerPerforms
    <3>1. mcp'.method = mcp.method /\ mcp'.performed = 1 /\ mcp'.inbox = mcp.inbox
          /\ mcp'.reply = mcp.reply
      BY <2>0, <2>8 DEF ServerPerforms
    <3>2. mcp.inbox \in Seq(Sayable')
      BY <2>0, <3>1, SayableStays
    <3>3. Proper \subseteq Proper'  BY <3>1, SayableStays
    <3> QED  BY <2>0, <2>8, <3>1, <3>2, <3>3 DEF ServerPerforms
  <2>9. CASE ServerSays
    <3>1. PICK message \in (UNION {AnswersTo(id) : id \in mcp.received})
                              \cup {ServerRequest(RequestId), Notification, BadLine} :
            /\ message.body = "content" => mcp.performed = 1
            /\ mcp' = [mcp EXCEPT !.inbox = Append(@, message), !.said = @ + 1]
      BY <2>9 DEF ServerSays
    <3>2. message \in Sayable
      <4>1. \A id \in mcp.received : id \in {InitializeId, RequestId}
        BY <2>0 DEF InitializeId, RequestId
      <4>2. ASSUME message \in (UNION {AnswersTo(id) : id \in mcp.received})
            PROVE  message \in AnswersTo(InitializeId) \cup AnswersTo(RequestId)
        <5>1. PICK id \in mcp.received : message \in AnswersTo(id)  BY <4>2
        <5> QED  BY <4>1, <5>1
      <4>3. message \in Utterances
        <5>1. CASE message \in {ServerRequest(RequestId), Notification, BadLine}
          BY <5>1, Zenon DEF Utterances
        <5>2. CASE message \in (UNION {AnswersTo(id) : id \in mcp.received})
          BY <4>2, <5>2, Zenon DEF Utterances
        <5> HIDE DEF Utterances
        <5> QED  BY <3>1, <5>1, <5>2, Zenon
      <4> QED  BY <3>1, <4>3 DEF Sayable
    <3>3. Append(mcp.inbox, message) \in Seq(Sayable)  BY <2>0, <3>2
    <3>4. mcp'.method = mcp.method /\ mcp'.performed = mcp.performed /\ mcp'.reply = mcp.reply
          /\ mcp'.inbox = Append(mcp.inbox, message)
      BY <2>0, <3>1
    <3>5. mcp'.inbox \in Seq(Sayable')  BY <3>3, <3>4, SayableStays
    <3>6. Proper \subseteq Proper'  BY <3>4, SayableStays
    <3> QED  BY <2>0, <3>1, <3>4, <3>5, <3>6
  <2>10. CASE ServerForks \/ McpLate
    <3>1. mcp'.method = mcp.method /\ mcp'.performed = mcp.performed /\ mcp'.inbox = mcp.inbox
          /\ mcp'.reply = mcp.reply
      BY <2>0, <2>10 DEF ServerForks, McpLate
    <3>2. mcp.inbox \in Seq(Sayable')
      BY <2>0, <3>1, SayableStays
    <3>3. Proper \subseteq Proper'  BY <3>1, SayableStays
    <3> QED  BY <2>0, <2>10, <3>1, <3>2, <3>3 DEF ServerForks, McpLate, Serving
  <2>11. CASE ServerExits
    <3>1. PICK over \in {TRUE, ~mcp.group} :
            mcp' = [mcp EXCEPT !.child = FALSE,
                               !.inbox = IF over THEN Append(@, BadLine) ELSE @]
      BY <2>11 DEF ServerExits
    <3>2. BadLine \in Sayable  BY DEF Sayable, Utterances, BadLine
    <3>3. mcp'.inbox \in Seq(Sayable)  BY <2>0, <3>1, <3>2
    <3>4. mcp'.method = mcp.method /\ mcp'.performed = mcp.performed /\ mcp'.reply = mcp.reply
      BY <2>0, <3>1
    <3>5. mcp'.inbox \in Seq(Sayable')  BY <3>3, <3>4, SayableStays
    <3>6. Proper \subseteq Proper'  BY <3>4, SayableStays
    <3> QED  BY <2>0, <3>1, <3>4, <3>5, <3>6
  <2> QED
    BY <1>5, <2>1, <2>2, <2>3, <2>4, <2>5, <2>6, <2>7, <2>8, <2>9, <2>10, <2>11
    DEF McpStep, McpEnvironment
<1> QED  BY <1>1, <1>2, <1>3, <1>4, <1>5, Zenon DEF McpMove

(***************************************************************************)
(* Least and greatest numbers, and trimmed texts                           *)
(***************************************************************************)
LEMMA LeastExists ==
    ASSUME NEW T, T \subseteq Nat, T # {}
    PROVE  \E x \in T : \A y \in T : x <= y
<1>1. PICK x \in T : \A y \in T : ~(<<y, x>> \in OpToRel(<, Nat))
  BY NatLessThanWellFounded, WFMin
<1>2. \A y \in T : ~(y < x)  BY <1>1 DEF OpToRel
<1> QED  BY <1>2

LEMMA GreatestExists ==
    ASSUME NEW n \in Nat, NEW T, T \subseteq 1..n, T # {}
    PROVE  \E x \in T : \A y \in T : y <= x
<1> DEFINE U == {n - x : x \in T}
<1>1. U \subseteq Nat /\ U # {}  OBVIOUS
<1>2. PICK u \in U : \A v \in U : u <= v  BY <1>1, LeastExists, Zenon
<1>3. PICK x \in T : u = n - x  OBVIOUS
<1>4. \A y \in T : n - y \in U  OBVIOUS
<1> HIDE DEF U
<1>5. \A y \in T : u <= n - y  BY <1>2, <1>4
<1> QED  BY <1>3, <1>5

\* A text that was trimmed has nothing to trim.
LEMMA TrimmedTwice ==
    ASSUME NEW S, NEW text \in Seq(S)
    PROVE  Trimmed(text) \in Seq(S) /\ Trimmed(Trimmed(text)) = Trimmed(text)
<1> DEFINE solid(s) == {i \in DOMAIN s : s[i] # Blank}
           least(s) == CHOOSE i \in solid(s) : \A j \in solid(s) : i <= j
           greatest(s) == CHOOSE i \in solid(s) : \A j \in solid(s) : j <= i
<1>1. \A s : Trimmed(s) = IF solid(s) = {} THEN <<>> ELSE SubSeq(s, least(s), greatest(s))
  BY DEF Trimmed
<1>2. CASE solid(text) = {}
  <2>1. solid(<<>>) = {}  OBVIOUS
  <2>2. Trimmed(text) = <<>>  BY <1>1, <1>2
  <2>3. Trimmed(<<>>) = <<>>  BY <1>1, <2>1
  <2> QED  BY <2>2, <2>3
<1>3. CASE solid(text) # {}
  <2> DEFINE a == least(text)
             b == greatest(text)
             t == SubSeq(text, a, b)
  <2>1. solid(text) \subseteq 1..Len(text)  OBVIOUS
  <2>2. a \in solid(text) /\ \A j \in solid(text) : a <= j
    <3>1. \E x \in solid(text) : \A y \in solid(text) : x <= y
      <4> DEFINE T == solid(text)
      <4>1. T \subseteq Nat /\ T # {}  BY <1>3, <2>1
      <4> HIDE DEF T
      <4>2. \E x \in T : \A y \in T : x <= y  BY <4>1, LeastExists
      <4> QED  BY <4>2 DEF T
    <3> QED  BY <3>1
  <2>3. b \in solid(text) /\ \A j \in solid(text) : j <= b
    <3>1. \E x \in solid(text) : \A y \in solid(text) : y <= x
      <4> DEFINE T == solid(text)
                 n == Len(text)
      <4>1. T \subseteq 1..n /\ T # {} /\ n \in Nat  BY <1>3, <2>1
      <4> HIDE DEF T, n
      <4>2. \E x \in T : \A y \in T : y <= x  BY <4>1, GreatestExists
      <4> QED  BY <4>2 DEF T
    <3> QED  BY <3>1
  <2>4. a \in 1..Len(text) /\ b \in 1..Len(text) /\ a <= b  BY <2>1, <2>2, <2>3
  <2>5. text[a] # Blank /\ text[b] # Blank  BY <2>2, <2>3
  <2>6. Trimmed(text) = t  BY <1>1, <1>3
  <2> HIDE DEF a, b, solid
  <2>7. t \in Seq(S) /\ Len(t) = b - a + 1 /\ \A i \in 1..Len(t) : t[i] = text[a + i - 1]
    BY <2>4
  <2>8. 1 \in solid(t) /\ Len(t) \in solid(t)
    BY <2>4, <2>5, <2>7 DEF solid
  <2>9. solid(t) \subseteq 1..Len(t)  BY <2>7 DEF solid
  <2> HIDE DEF t
  <2>10. \A i \in solid(t) : (\A j \in solid(t) : i <= j) => i = 1  BY <2>7, <2>8, <2>9
  <2>11. \A i \in solid(t) : (\A j \in solid(t) : j <= i) => i = Len(t)  BY <2>7, <2>8, <2>9
  <2>12. least(t) = 1  BY <2>8, <2>9, <2>10
  <2>13. greatest(t) = Len(t)  BY <2>8, <2>9, <2>11, <2>7
  <2>14. SubSeq(t, 1, Len(t)) = t  BY <2>7
  <2>15. Trimmed(t) = SubSeq(t, least(t), greatest(t))  BY <1>1, <2>8
  <2> QED  BY <2>6, <2>7, <2>12, <2>13, <2>14, <2>15
<1> QED  BY <1>2, <1>3

(***************************************************************************)
(* The call of a model                                                     *)
(***************************************************************************)
\* Before a route has sent anything to the user nothing was shown; what was
\* shown came from one attempt of one route; and while a stream or a process is
\* read, or has ended in a text, that is the text.  The child of a process model
\* runs only while the call waits for it.
ModelFields ==
    {"pc", "router", "request", "routes", "stream", "name", "attempt", "sends", "left", "got",
     "emitted", "shown", "child", "held", "late", "result"}

\* The pieces of a text; the provers do not know of a literal that it is a string.
Pieces == STRING \cup {"raw"}

Silent == {"route", "send", "sleep", "body", "local", "headers", "payload", "spin", "spawn"}
Telling == {"check", "read", "last", "poll", "recv", "reap", "explain"}
Waiting == {"poll", "recv", "reap"}

ShownText(m) == [i \in DOMAIN m.shown |-> m.shown[i][3]]

\* What holds of a call at every step.
Consistent(m) ==
    /\ DOMAIN m = ModelFields
    /\ m.router \in {ask.router : ask \in Asks}
    /\ m.emitted \in BOOLEAN /\ m.stream \in BOOLEAN
    /\ m.shown \in Seq({m.name} \X {m.sends} \X Pieces)
    /\ ~m.emitted => m.shown = <<>>
    /\ DOMAIN m.got = {"text", "calls", "usage", "size"} /\ m.got.text \in Seq(Pieces)

\* And at each of them.
Sound(m) ==
    /\ Consistent(m)
    /\ m.pc \in ModelSteps
    /\ m.child = "running" => m.pc \in Waiting
    /\ m.pc \in Silent => ~m.emitted
    /\ m.pc \in Silent \ {"route"} => m.got.text = <<>>
    /\ m.pc = "body" => ~m.stream
    /\ m.pc # "ended" => m.result.kind = "error"
    /\ m.pc \in Telling /\ m.stream => ShownText(m) = m.got.text
    /\ m.pc = "ended" /\ m.stream /\ m.result.kind = "text" =>
          Trimmed(m.result.text) = Trimmed(ShownText(m))

ModelInv == model = IdleModel \/ Sound(model)

LEMMA RouteFailedIsSound ==
    ASSUME NEW m, Consistent(m), m.child # "running", NEW why
    PROVE  Sound(RouteFailed(m, why))
<1> USE DEF Consistent, Sound, RouteFailed, Ended, Failed, ModelFields, ModelSteps, Silent, Telling,
            Waiting
<1>1. CASE m.emitted  BY <1>1
<1>2. CASE ~m.emitted  BY <1>2
<1> QED  BY <1>1, <1>2

LEMMA RouteDoneIsSound ==
    ASSUME NEW m, Consistent(m), m.child # "running", NEW answer,
           m.stream /\ answer.kind = "text" => Trimmed(answer.text) = Trimmed(ShownText(m))
    PROVE  Sound(RouteDone(m, answer))
<1>1. CASE answer.kind = "error"  BY <1>1, RouteFailedIsSound DEF RouteDone
<1>2. CASE answer.kind # "error"
  <2> DEFINE n == Ended(m, answer)
  <2>1. Consistent(n)  BY DEF Consistent, Ended, ModelFields
  <2>2. n.pc = "ended" /\ n.child = m.child /\ n.result = answer /\ n.stream = m.stream
        /\ n.shown = m.shown
    BY DEF Consistent, Ended, ModelFields
  <2>3. ShownText(n) = ShownText(m)  BY <2>2 DEF ShownText
  <2> HIDE DEF n
  <2>4. Sound(n)
    BY <2>1, <2>2, <2>3 DEF Sound, ModelSteps, Silent, Telling, Waiting
  <2> QED  BY <1>2, <2>4, Zenon DEF RouteDone, n
<1> QED  BY <1>1, <1>2

\* What is shown is added to what was, and nothing else changes.
LEMMA ShownIsConsistent ==
    ASSUME NEW m, Consistent(m), NEW pieces \in Seq(Pieces)
    PROVE  LET n == Shown(m, pieces)
           IN  /\ Consistent(n)
               /\ \A f \in ModelFields \ {"emitted", "shown"} : n[f] = m[f]
               /\ m.stream => ShownText(n) = ShownText(m) \o pieces
<1> DEFINE n == Shown(m, pieces)
           new == [i \in DOMAIN pieces |-> <<m.name, m.sends, pieces[i]>>]
           S == {m.name} \X {m.sends} \X Pieces
<1>1. m.shown \in Seq(S)  BY DEF Consistent
<1>2. ShownText(m) \in Seq(Pieces) /\ Len(ShownText(m)) = Len(m.shown)
  <2>1. \A i \in DOMAIN m.shown : m.shown[i][3] \in Pieces  BY <1>1
  <2>2. DOMAIN m.shown = 1..Len(m.shown) /\ Len(m.shown) \in Nat  BY <1>1
  <2> QED  BY <2>1, <2>2 DEF ShownText
<1>3. CASE pieces = <<>> \/ ~m.stream
  <2>1. n = m  BY <1>3 DEF Shown
  <2>2. m.stream => ShownText(m) = ShownText(m) \o pieces  BY <1>2, <1>3
  <2> QED  BY <2>1, <2>2
<1>4. CASE pieces # <<>> /\ m.stream
  <2>1. n = [m EXCEPT !.emitted = TRUE, !.shown = @ \o new]  BY <1>4 DEF Shown
  <2>2. new \in Seq(S) /\ Len(new) = Len(pieces)  OBVIOUS
  <2> HIDE DEF S, n
  <2>3. m.shown \o new \in Seq(S)  BY <1>1, <2>2
  <2>4. n.shown = m.shown \o new /\ n.emitted = TRUE /\ DOMAIN n = ModelFields
        /\ \A f \in ModelFields \ {"emitted", "shown"} : n[f] = m[f]
    BY <2>1 DEF Consistent, ModelFields
  <2>5. n.name = m.name /\ n.sends = m.sends /\ n.got = m.got /\ n.stream = m.stream
        /\ n.router = m.router
    BY <2>4 DEF ModelFields
  <2>6. Consistent(n)  BY <2>3, <2>4, <2>5 DEF Consistent, S
  <2>7. ShownText(n) = ShownText(m) \o pieces
    <3> DEFINE all == m.shown \o new
    <3>3. \A i \in 1..Len(pieces) : new[i][3] = pieces[i]  OBVIOUS
    <3> HIDE DEF new
    <3>1. Len(all) = Len(m.shown) + Len(pieces)  BY <1>1, <2>2
    <3>2. \A i \in 1..Len(all) : all[i] = IF i <= Len(m.shown) THEN m.shown[i] ELSE new[i - Len(m.shown)]
      BY <1>1, <2>2
    <3>4. DOMAIN all = 1..Len(all)  BY <1>1, <2>2
    <3> HIDE DEF all
    <3>5. ShownText(n) = [i \in 1..Len(all) |-> all[i][3]]  BY <2>4, <3>4 DEF ShownText, all
    <3>6. DOMAIN (ShownText(m) \o pieces) = 1..Len(all)  BY <1>2, <3>1
    <3>7. \A i \in 1..Len(all) : (ShownText(m) \o pieces)[i] =
             IF i <= Len(m.shown) THEN ShownText(m)[i] ELSE pieces[i - Len(m.shown)]
      BY <1>2, <3>1
    <3>8. \A i \in 1..Len(m.shown) : ShownText(m)[i] = m.shown[i][3]  BY <1>1 DEF ShownText
    <3>9. ASSUME NEW i \in 1..Len(all) PROVE (ShownText(m) \o pieces)[i] = all[i][3]
      <4>1. Len(m.shown) \in Nat /\ Len(pieces) \in Nat  BY <1>1
      <4>2. CASE i <= Len(m.shown)
        <5>1. i \in 1..Len(m.shown)  BY <4>1, <4>2
        <5> QED  BY <3>2, <3>7, <3>8, <4>2, <5>1
      <4>3. CASE ~(i <= Len(m.shown))
        <5>1. i - Len(m.shown) \in 1..Len(pieces)  BY <3>1, <4>1, <4>3
        <5> QED  BY <3>2, <3>3, <3>7, <4>3, <5>1
      <4> QED  BY <4>2, <4>3
    <3>10. ShownText(m) \o pieces \in Seq(Pieces)  BY <1>2
    <3> DEFINE both == ShownText(m) \o pieces
    <3>11. both = [i \in 1..Len(all) |-> both[i]]
      <4>1. both \in Seq(Pieces) /\ DOMAIN both = 1..Len(all)  BY <3>6, <3>10
      <4> HIDE DEF both
      <4> QED  BY <4>1
    <3> QED  BY <3>5, <3>9, <3>11
  <2> QED  BY <2>4, <2>6, <2>7 DEF n
<1> QED  BY <1>3, <1>4

\* A step that leaves what was shown alone keeps a call consistent; so does one
\* that counts a request while nothing was shown.
LEMMA ConsistentStays ==
    ASSUME NEW m, Consistent(m), NEW n, DOMAIN n = ModelFields,
           n.router = m.router, n.emitted = m.emitted, n.stream = m.stream, n.shown = m.shown,
           (n.name = m.name /\ n.sends = m.sends) \/ ~m.emitted,
           DOMAIN n.got = {"text", "calls", "usage", "size"}, n.got.text \in Seq(Pieces)
    PROVE  Consistent(n) /\ ShownText(n) = ShownText(m)
<1>1. n.shown \in Seq({n.name} \X {n.sends} \X Pieces)
  <2>1. CASE ~m.emitted  BY <2>1 DEF Consistent
  <2>2. CASE n.name = m.name /\ n.sends = m.sends  BY <2>2, Zenon DEF Consistent
  <2> QED  BY <2>1, <2>2
<1> QED  BY <1>1 DEF Consistent, ShownText

LEMMA RouterIsSound ==
    ASSUME Sound(model), TryRoute
    PROVE  Sound(model')
<1> USE DEF ModelSteps, Silent, Telling, Waiting
<1>1. CASE model.routes = <<>>
  <2>1. model' = Ended(model, model.result) /\ model.pc = "route"  BY <1>1 DEF TryRoute
  <2>2. /\ DOMAIN model' = ModelFields /\ model'.pc = "ended" /\ model'.result = model.result
        /\ model'.emitted = model.emitted /\ model'.stream = model.stream
        /\ model'.shown = model.shown /\ model'.name = model.name /\ model'.sends = model.sends
        /\ model'.got = model.got /\ model'.child = model.child /\ model'.router = model.router
    BY <2>1 DEF Sound, Consistent, Ended, ModelFields
  <2>3. Consistent(model')  BY <2>2, ConsistentStays DEF Sound, Consistent
  <2> QED  BY <2>1, <2>2, <2>3 DEF Sound
<1>2. CASE model.routes # <<>>
  <2> DEFINE name == Head(model.routes)
             next == [model EXCEPT !.routes = Tail(@)]
             kind == FirstStep[model.router.models[name].kind]
  <2> HIDE DEF name, kind
  <2>1. \/ model' = next
        \/ /\ name \in DOMAIN model.router.models
           /\ model' = [next EXCEPT !.pc = kind, !.name = name, !.attempt = 0, !.left = MaxLines,
                                    !.got = NewStream, !.child = "none", !.held = FALSE,
                                    !.late = FALSE]
    BY <1>2 DEF TryRoute, Serves, name, kind
  <2>2. model.pc = "route"  BY DEF TryRoute
  <2>3. name \in DOMAIN model.router.models => kind \in {"send", "spawn", "local"}
    <3>1. PICK ask \in Asks : model.router = ask.router  BY DEF Sound, Consistent
    <3> QED  BY <3>1, ModelAssumption DEF FirstStep, kind
  <2>4. CASE model' = next
    <3>1. /\ DOMAIN model' = ModelFields /\ model'.pc = "route" /\ model'.result = model.result
          /\ model'.emitted = model.emitted /\ model'.stream = model.stream
          /\ model'.shown = model.shown /\ model'.name = model.name /\ model'.sends = model.sends
          /\ model'.got = model.got /\ model'.child = model.child /\ model'.router = model.router
      BY <2>2, <2>4 DEF Sound, Consistent, ModelFields
    <3>2. Consistent(model')  BY <3>1, ConsistentStays DEF Sound, Consistent
    <3> QED  BY <2>2, <3>1, <3>2 DEF Sound
  <2>5. CASE /\ name \in DOMAIN model.router.models
             /\ model' = [next EXCEPT !.pc = kind, !.name = name, !.attempt = 0, !.left = MaxLines,
                                      !.got = NewStream, !.child = "none", !.held = FALSE,
                                      !.late = FALSE]
    <3>1. /\ DOMAIN model' = ModelFields /\ model'.pc = kind /\ model'.result = model.result
          /\ model'.emitted = model.emitted /\ model'.stream = model.stream
          /\ model'.shown = model.shown /\ model'.got = NewStream /\ model'.child = "none"
          /\ model'.router = model.router
      BY <2>5 DEF Sound, Consistent, ModelFields
    <3>2. ~model.emitted /\ model.result.kind = "error"  BY <2>2 DEF Sound
    <3>3. model'.got.text = <<>> /\ DOMAIN model'.got = {"text", "calls", "usage", "size"}
      BY <3>1 DEF NewStream
    <3>5. Consistent(model) /\ model'.got.text \in Seq(Pieces)  BY <3>3 DEF Sound
    <3>4. Consistent(model')  BY <3>1, <3>2, <3>3, <3>5, ConsistentStays
    <3> QED  BY <2>3, <2>5, <3>1, <3>2, <3>3, <3>4 DEF Sound
  <2> QED  BY <2>1, <2>4, <2>5
<1> QED  BY <1>1, <1>2

\* A step to another place of the call that changes none of what the user was
\* told.
Kept(m, n) ==
    /\ DOMAIN n = ModelFields
    /\ n.router = m.router /\ n.emitted = m.emitted /\ n.stream = m.stream
    /\ n.shown = m.shown /\ n.got = m.got /\ n.result = m.result
    /\ n.name = m.name
    /\ n.sends = m.sends \/ ~m.emitted

LEMMA MovedIsSound ==
    ASSUME NEW m, Consistent(m), NEW n, Kept(m, n),
           n.pc \in ModelSteps \ {"ended"},
           m.result.kind = "error",
           n.child = "running" => n.pc \in Waiting,
           n.pc \in Silent => ~m.emitted,
           n.pc \in Silent \ {"route"} => m.got.text = <<>>,
           n.pc = "body" => ~m.stream,
           n.pc \in Telling /\ m.stream => ShownText(m) = m.got.text
    PROVE  Sound(n)
<1>1. /\ n.emitted = m.emitted /\ n.stream = m.stream /\ n.got = m.got /\ n.result = m.result
  BY DEF Kept
<1>2. DOMAIN m.got = {"text", "calls", "usage", "size"} /\ m.got.text \in Seq(Pieces)
  BY DEF Consistent
<1>3. Consistent(n) /\ ShownText(n) = ShownText(m)  BY <1>2, ConsistentStays, Zenon DEF Kept
<1> QED  BY <1>1, <1>3 DEF Sound

LEMMA KeptIsConsistent ==
    ASSUME NEW m, Consistent(m), NEW n, Kept(m, n)
    PROVE  Consistent(n) /\ ShownText(n) = ShownText(m)
<1>2. DOMAIN m.got = {"text", "calls", "usage", "size"} /\ m.got.text \in Seq(Pieces)
  BY DEF Consistent
<1> QED  BY <1>2, ConsistentStays, Zenon DEF Kept

\* While nothing was shown its text is empty.
LEMMA SilentText ==
    ASSUME NEW m, Consistent(m), ~m.emitted
    PROVE  ShownText(m) = <<>>
BY DEF Consistent, ShownText

LEMMA RetriedIsSound ==
    ASSUME NEW m, Consistent(m), ~m.emitted, m.child # "running", m.got.text = <<>>,
           m.result.kind = "error", NEW why
    PROVE  Sound(Retried(m, why))
<1>1. CASE m.attempt < MaxRetries
  <2> DEFINE n == [m EXCEPT !.pc = "sleep"]
  <2>1. Kept(m, n) /\ n.pc = "sleep" /\ n.child = m.child
    BY DEF Kept, Consistent, ModelFields
  <2> HIDE DEF n
  <2>2. Sound(n)
    BY <2>1, MovedIsSound DEF ModelSteps, Silent, Telling, Waiting
  <2> QED  BY <1>1, <2>2 DEF Retried, n
<1>2. CASE ~(m.attempt < MaxRetries)
  BY <1>2, RouteFailedIsSound DEF Retried
<1> QED  BY <1>1, <1>2

LEMMA SendIsSound ==
    ASSUME Sound(model), Send
    PROVE  Sound(model')
<1> DEFINE sent == [model EXCEPT !.sends = @ + 1]
<1>1. model.pc = "send" /\ ~model.emitted /\ model.got.text = <<>> /\ model.child # "running"
      /\ model.result.kind = "error" /\ Consistent(model)
  BY DEF Send, Sound, Silent, Waiting
<1>2. Kept(model, sent) /\ sent.child = model.child  BY <1>1 DEF Kept, Consistent, ModelFields
<1>3. \/ \E why : model' = Retried(sent, why)
      \/ \E why : model' = RouteFailed(sent, why)
      \/ model' = [sent EXCEPT !.pc = IF sent.stream THEN "check" ELSE "body"]
  BY DEF Send
<1> HIDE DEF sent
<1>4. Consistent(sent) /\ sent.emitted = model.emitted /\ sent.got = model.got
      /\ sent.result = model.result /\ sent.stream = model.stream
  BY <1>1, <1>2, KeptIsConsistent DEF Kept
<1>5. ASSUME NEW why, model' = Retried(sent, why) PROVE Sound(model')
  BY <1>1, <1>2, <1>4, <1>5, RetriedIsSound
<1>6. ASSUME NEW why, model' = RouteFailed(sent, why) PROVE Sound(model')
  BY <1>1, <1>2, <1>4, <1>6, RouteFailedIsSound
<1>7. CASE model' = [sent EXCEPT !.pc = IF sent.stream THEN "check" ELSE "body"]
  <2>1. Kept(sent, model') /\ model'.child = sent.child
        /\ model'.pc = IF sent.stream THEN "check" ELSE "body"
    BY <1>4, <1>7 DEF Kept, Consistent, ModelFields
  <2>2. ShownText(sent) = <<>>  BY <1>1, <1>4, SilentText
  <2>3. sent.stream \in BOOLEAN  BY <1>4 DEF Consistent
  <2> QED
    BY <1>1, <1>2, <1>4, <2>1, <2>2, <2>3, MovedIsSound DEF ModelSteps, Silent, Telling, Waiting
<1> QED  BY <1>3, <1>5, <1>6, <1>7

\* The steps that only move on, or fail, while no child is left running.
LEMMA SimpleStepIsSound ==
    ASSUME Sound(model),
           Sleep \/ CheckStream \/ StreamFails \/ EndOfStream \/ AskLocal \/ ReadHeaders \/ Explain
    PROVE  Sound(model')
<1> USE DEF ModelSteps, Silent, Telling, Waiting
<1>1. Consistent(model)  BY DEF Sound
<1>2. ASSUME NEW why, model.child # "running", model' = RouteFailed(model, why)
      PROVE  Sound(model')
  BY <1>1, <1>2, RouteFailedIsSound
<1>3. CASE Sleep
  <2>1. Kept(model, model') /\ model'.pc = "send" /\ model'.child = model.child /\ model.pc = "sleep"
    BY <1>1, <1>3 DEF Sleep, Kept, Consistent, ModelFields
  <2> QED  BY <1>1, <2>1, MovedIsSound DEF Sound
<1>4. CASE CheckStream
  <2>1. CASE cancel  BY <1>2, <1>4, <2>1 DEF CheckStream, Sound
  <2>2. CASE ~cancel
    <3>1. Kept(model, model') /\ model'.pc = "read" /\ model'.child = model.child /\ model.pc = "check"
      BY <1>1, <1>4, <2>2 DEF CheckStream, Kept, Consistent, ModelFields
    <3> QED  BY <1>1, <3>1, MovedIsSound DEF Sound
  <2> QED  BY <2>1, <2>2
<1>5. CASE StreamFails  BY <1>2, <1>5 DEF StreamFails, Sound
<1>6. CASE EndOfStream
  <2>1. Kept(model, model') /\ model'.pc = "last" /\ model'.child = model.child /\ model.pc = "read"
    BY <1>1, <1>6 DEF EndOfStream, Kept, Consistent, ModelFields
  <2> QED  BY <1>1, <2>1, MovedIsSound DEF Sound
<1>7. CASE AskLocal
  <2>1. CASE model' = RouteFailed(model, "not sent")  BY <1>2, <1>7, <2>1 DEF AskLocal, Sound
  <2>2. CASE model' = [model EXCEPT !.pc = "headers", !.sends = @ + 1]
    <3>0. model.pc = "local" /\ ~model.emitted  BY <1>7 DEF AskLocal, Sound
    <3>1. Kept(model, model') /\ model'.pc = "headers" /\ model'.child = model.child
      BY <1>1, <2>2, <3>0 DEF Kept, Consistent, ModelFields
    <3> QED  BY <1>1, <3>0, <3>1, MovedIsSound DEF Sound
  <2> QED  BY <1>7, <2>1, <2>2 DEF AskLocal
<1>8. CASE ReadHeaders
  <2>0. model.pc = "headers"  BY <1>8 DEF ReadHeaders
  <2>1. CASE model' = RouteFailed(model, "local service")
    BY <1>2, <2>0, <2>1 DEF Sound
  <2>2. ASSUME NEW pc \in {"payload", "spin"}, model' = [model EXCEPT !.pc = pc]
        PROVE  Sound(model')
    <3>1. Kept(model, model') /\ model'.pc = pc /\ model'.child = model.child
      BY <1>1, <2>2 DEF Kept, Consistent, ModelFields
    <3> QED  BY <1>1, <2>0, <3>1, MovedIsSound DEF Sound
  <2> QED  BY <1>8, <2>1, <2>2 DEF ReadHeaders
<1>9. CASE Explain  BY <1>2, <1>9 DEF Explain, Sound
<1> QED  BY <1>3, <1>4, <1>5, <1>6, <1>7, <1>8, <1>9

\* What an answer may be.
LEMMA CallsAreNoText == ASSUME NEW found PROVE ToolCallsResponse(found).kind # "text"
BY DEF ToolCallsResponse, Failed, CallsAnswer

LEMMA LocalTextIsText ==
    ASSUME NEW body \in Bodies, ParseModelText(body).kind = "text"
    PROVE  ParseModelText(body).text \in Seq(Pieces)
<1>1. body.text \in Seq(Pieces)
  <2>1. body.text \in Seq(STRING)  BY ModelAssumption
  <2> QED  BY <2>1 DEF Pieces
<1>2. Trimmed(body.text) \in Seq(Pieces)  BY <1>1, TrimmedTwice
<1> USE DEF ParseModelText, TextResponse, TextAnswer, CallsAnswer, Failed
<1>3. CASE body.kind = "junk"  BY <1>3
<1>4. CASE body.kind = "text"  BY <1>2, <1>4
<1>5. CASE body.kind = "object"  BY <1>1, <1>5
<1>6. CASE body.kind = "calls" /\ Len(body.calls) = 1 /\ body.calls[1].id # Absent  BY <1>6
<1>7. CASE body.kind \notin {"junk", "text", "object"}
           /\ ~(body.kind = "calls" /\ Len(body.calls) = 1 /\ body.calls[1].id # Absent)
  <2>2. "raw" \in Pieces  BY DEF Pieces
  <2>1. <<"raw">> \in Seq(Pieces)  BY <2>2
  <2> QED  BY <1>7, <2>1
<1> QED  BY <1>3, <1>4, <1>5, <1>6, <1>7

\* The steps that take an answer in one piece.
LEMMA ReadBodyIsSound ==
    ASSUME Sound(model), ReadBody
    PROVE  Sound(model')
<1>1. Consistent(model) /\ model.pc = "body" /\ ~model.stream /\ model.child # "running"
  BY DEF Sound, ReadBody, Waiting
<1>2. ASSUME NEW body, model' = RouteDone(model, ParseChat(body)) PROVE Sound(model')
  BY <1>1, <1>2, RouteDoneIsSound
<1>3. CASE model' = RouteFailed(model, "unreadable reply")  BY <1>1, <1>3, RouteFailedIsSound
<1> QED  BY <1>2, <1>3 DEF ReadBody

LEMMA ReadPayloadIsSound ==
    ASSUME Sound(model), ReadPayload
    PROVE  Sound(model')
<1>1. Consistent(model) /\ ~model.emitted /\ model.child # "running"
  BY DEF Sound, ReadPayload, Waiting, Silent
<1>2. ShownText(model) = <<>>  BY <1>1, SilentText
<1>3. CASE model' = RouteFailed(model, "local service")  BY <1>1, <1>3, RouteFailedIsSound
<1>4. ASSUME NEW body \in Bodies,
             model' = RouteDone(IF ParseModelText(body).kind = "text"
                                THEN Shown(model, ParseModelText(body).text) ELSE model,
                                ParseModelText(body))
      PROVE  Sound(model')
  <2> DEFINE answer == ParseModelText(body)
             n == Shown(model, answer.text)
  <2>1. CASE answer.kind = "text"
    <3>1. answer.text \in Seq(Pieces)  BY <2>1, LocalTextIsText
    <3>2. model' = RouteDone(n, answer)  BY <1>4, <2>1
    <3> HIDE DEF answer
    <3>3. /\ Consistent(n)
          /\ \A f \in ModelFields \ {"emitted", "shown"} : n[f] = model[f]
          /\ model.stream => ShownText(n) = ShownText(model) \o answer.text
      BY <1>1, <3>1, ShownIsConsistent
    <3>4. n.child = model.child /\ n.stream = model.stream  BY <3>3 DEF ModelFields
    <3>5. model.stream => ShownText(n) = answer.text  BY <1>2, <3>1, <3>3
    <3> HIDE DEF n
    <3> QED  BY <1>1, <3>2, <3>3, <3>4, <3>5, RouteDoneIsSound
  <2>2. CASE answer.kind # "text"
    <3> HIDE DEF answer
    <3>1. model' = RouteDone(model, answer)  BY <1>4, <2>2 DEF answer
    <3> QED  BY <1>1, <2>2, <3>1, RouteDoneIsSound
  <2> QED  BY <2>1, <2>2
<1> QED  BY <1>3, <1>4, Zenon DEF ReadPayload

\* A line adds its text to what came.
LEMMA AfterText ==
    ASSUME NEW got, DOMAIN got = {"text", "calls", "usage", "size"}, got.text \in Seq(Pieces),
           NEW line, line.text \in Seq(Pieces), line.kind # "chunk" => line.text = <<>>
    PROVE  /\ DOMAIN After(got, line) = {"text", "calls", "usage", "size"}
           /\ After(got, line).text = got.text \o line.text
           /\ After(got, line).text \in Seq(Pieces)
<1>1. got.text \o line.text \in Seq(Pieces)  OBVIOUS
<1>2. got.text \o <<>> = got.text  OBVIOUS
<1>3. CASE line.kind # "chunk"
  <2>1. After(got, line).text = got.text /\ DOMAIN After(got, line) = DOMAIN got
    BY <1>3 DEF After
  <2> QED  BY <1>2, <1>3, <2>1
<1>4. CASE line.kind = "chunk"
  BY <1>1, <1>4 DEF After
<1> QED  BY <1>3, <1>4

LEMMA AfterEventText ==
    ASSUME NEW got, DOMAIN got = {"text", "calls", "usage", "size"}, got.text \in Seq(Pieces),
           NEW line, line.text \in Seq(Pieces), line.kind # "text" => line.text = <<>>
    PROVE  /\ DOMAIN AfterEvent(got, line) = {"text", "calls", "usage", "size"}
           /\ AfterEvent(got, line).text = got.text \o line.text
           /\ AfterEvent(got, line).text \in Seq(Pieces)
<1>1. got.text \o line.text \in Seq(Pieces)  OBVIOUS
<1>2. got.text \o <<>> = got.text  OBVIOUS
<1>3. CASE line.kind # "text"
  <2>1. AfterEvent(got, line).text = got.text /\ DOMAIN AfterEvent(got, line) = DOMAIN got
    BY <1>3 DEF AfterEvent
  <2> QED  BY <1>2, <1>3, <2>1
<1>4. CASE line.kind = "text"
  BY <1>1, <1>4 DEF AfterEvent
<1> QED  BY <1>3, <1>4

\* A piece of a stream or of a process is added to what came and to what was
\* shown.
LEMMA TellingIsSound ==
    ASSUME NEW m, Consistent(m), m.result.kind = "error", m.stream => ShownText(m) = m.got.text,
           NEW pieces \in Seq(Pieces),
           NEW n, DOMAIN n = ModelFields, n.pc \in Telling,
           n.child = "running" => n.pc \in Waiting,
           n.router = m.router, n.emitted = m.emitted, n.stream = m.stream, n.shown = m.shown,
           n.name = m.name, n.sends = m.sends, n.result = m.result,
           DOMAIN n.got = {"text", "calls", "usage", "size"},
           n.got.text = m.got.text \o pieces, n.got.text \in Seq(Pieces)
    PROVE  Sound(Shown(n, pieces))
<1>1. Consistent(n) /\ ShownText(n) = ShownText(m)  BY ConsistentStays, Zenon
<1> DEFINE o == Shown(n, pieces)
<1>2. /\ Consistent(o)
      /\ \A f \in ModelFields \ {"emitted", "shown"} : o[f] = n[f]
      /\ n.stream => ShownText(o) = ShownText(n) \o pieces
  BY <1>1, ShownIsConsistent
<1> HIDE DEF o
<1>3. o.pc = n.pc /\ o.child = n.child /\ o.got = n.got /\ o.stream = n.stream /\ o.result = n.result
  BY <1>2 DEF ModelFields
<1>4. o.stream => ShownText(o) = o.got.text  BY <1>1, <1>2, <1>3
<1> QED  BY <1>2, <1>3, <1>4 DEF Sound, ModelSteps, Silent, Telling, Waiting, o

LEMMA ReadLineIsSound ==
    ASSUME Sound(model), ReadLine
    PROVE  Sound(model')
<1> DEFINE read == [model EXCEPT !.left = @ - 1]
<1>1. /\ Consistent(model) /\ model.pc = "read" /\ model.child # "running"
      /\ model.result.kind = "error" /\ (model.stream => ShownText(model) = model.got.text)
  BY DEF ReadLine, Sound, Telling, Waiting
<1>2. PICK line \in Lines :
        model' = IF LineError(model.got, line) = Absent
                 THEN Shown([read EXCEPT !.pc = IF line.kind = "done" THEN "last" ELSE "check",
                                         !.got = After(@, line)], line.text)
                 ELSE IF LineError(model.got, line) = "arguments too large"
                 THEN RouteFailed(Shown(read, line.text), LineError(model.got, line))
                 ELSE RouteFailed(read, LineError(model.got, line))
  BY Zenon DEF ReadLine
<1>3. line.text \in Seq(Pieces) /\ (line.kind # "chunk" => line.text = <<>>)
  <2>1. line.text \in Seq(STRING) /\ (line.kind # "chunk" => line.text = <<>>)  BY ModelAssumption
  <2> QED  BY <2>1 DEF Pieces
<1>4. Kept(model, read) /\ read.child = model.child  BY <1>1 DEF Kept, Consistent, ModelFields
<1>5. CASE LineError(model.got, line) = Absent
  <2> DEFINE pc == IF line.kind = "done" THEN "last" ELSE "check"
             n == [read EXCEPT !.pc = pc, !.got = After(@, line)]
  <2>1. model' = Shown(n, line.text)  BY <1>2, <1>5
  <2>2. pc \in {"last", "check"}  OBVIOUS
  <2> HIDE DEF pc
  <2>3. /\ DOMAIN n = ModelFields /\ n.pc = pc /\ n.child = model.child /\ n.router = model.router
        /\ n.emitted = model.emitted /\ n.stream = model.stream /\ n.shown = model.shown
        /\ n.name = model.name /\ n.sends = model.sends /\ n.result = model.result
        /\ n.got = After(model.got, line)
    BY <1>1 DEF Consistent, ModelFields
  <2> HIDE DEF n
  <2>4. DOMAIN model.got = {"text", "calls", "usage", "size"} /\ model.got.text \in Seq(Pieces)
    BY <1>1 DEF Consistent
  <2>5. /\ DOMAIN n.got = {"text", "calls", "usage", "size"}
        /\ n.got.text = model.got.text \o line.text /\ n.got.text \in Seq(Pieces)
    <3>1. /\ DOMAIN After(model.got, line) = {"text", "calls", "usage", "size"}
          /\ After(model.got, line).text = model.got.text \o line.text
          /\ After(model.got, line).text \in Seq(Pieces)
      BY <1>3, <2>4, AfterText, Zenon
    <3> QED  BY <2>3, <3>1
  <2>6. n.pc \in Telling  BY <2>2, <2>3 DEF Telling
  <2>7. n.child # "running"  BY <1>1, <2>3
  <2>8. Sound(Shown(n, line.text))  BY <1>1, <1>3, <2>3, <2>5, <2>6, <2>7, TellingIsSound
  <2> QED  BY <2>1, <2>8
<1>6. CASE LineError(model.got, line) # Absent
  <2> HIDE DEF read
  <2>1. Consistent(read)  BY <1>1, <1>4, KeptIsConsistent
  <2> DEFINE n == Shown(read, line.text)
  <2>2. Consistent(n) /\ n.child = read.child
    <3>1. Consistent(n) /\ \A f \in ModelFields \ {"emitted", "shown"} : n[f] = read[f]
      BY <1>3, <2>1, ShownIsConsistent
    <3> HIDE DEF n
    <3> QED  BY <3>1 DEF ModelFields
  <2> HIDE DEF n
  <2>3. \A why : Sound(RouteFailed(n, why))  BY <1>1, <1>4, <2>2, RouteFailedIsSound
  <2>4. \A why : Sound(RouteFailed(read, why))  BY <1>1, <1>4, <2>1, RouteFailedIsSound
  <2>5. \/ model' = RouteFailed(n, LineError(model.got, line))
        \/ model' = RouteFailed(read, LineError(model.got, line))
    BY <1>2, <1>6, Zenon DEF n
  <2> QED  BY <2>3, <2>4, <2>5
<1> QED  BY <1>5, <1>6

LEMMA FinishStreamIsSound ==
    ASSUME Sound(model), FinishStream
    PROVE  Sound(model')
<1> DEFINE n == [model EXCEPT !.emitted = @ \/ model.got.usage]
           answer == StreamAnswer(model.got)
<1>1. /\ Consistent(model) /\ model.pc = "last" /\ model.child # "running"
      /\ (model.stream => ShownText(model) = model.got.text)
  BY DEF FinishStream, Sound, Telling, Waiting
<1>2. model' = RouteDone(n, answer)  BY DEF FinishStream
<1>3. /\ DOMAIN n = ModelFields /\ n.emitted = (model.emitted \/ model.got.usage)
      /\ n.stream = model.stream /\ n.shown = model.shown /\ n.child = model.child
      /\ n.router = model.router /\ n.name = model.name /\ n.sends = model.sends
      /\ n.got = model.got
  BY <1>1 DEF Consistent, ModelFields
<1> HIDE DEF n
<1>4. Consistent(n) /\ ShownText(n) = ShownText(model)
  BY <1>1, <1>3 DEF Consistent, ShownText
<1>5. model.stream /\ answer.kind = "text" => Trimmed(answer.text) = Trimmed(ShownText(model))
  <2>1. CASE DOMAIN model.got.calls # {}
    <3>1. answer.kind # "text"  BY <2>1, CallsAreNoText DEF StreamAnswer
    <3> QED  BY <3>1
  <2>2. CASE DOMAIN model.got.calls = {}
    <3>1. answer = TextResponse(model.got.text)  BY <2>2 DEF StreamAnswer
    <3> HIDE DEF answer
    <3>2. answer.kind = "text" => answer.text = Trimmed(model.got.text)
      BY <3>1 DEF TextResponse, TextAnswer, Failed
    <3>3. model.got.text \in Seq(Pieces)  BY <1>1 DEF Consistent
    <3>4. Trimmed(Trimmed(model.got.text)) = Trimmed(model.got.text)  BY <3>3, TrimmedTwice
    <3> QED  BY <1>1, <3>2, <3>4
  <2> QED  BY <2>1, <2>2
<1> HIDE DEF answer
<1> QED  BY <1>1, <1>2, <1>3, <1>4, <1>5, RouteDoneIsSound

\* The steps of a model process.
LEMMA DroppedIsKept ==
    ASSUME NEW m, Consistent(m)
    PROVE  Kept(m, Dropped(m)) /\ Dropped(m).child # "running" /\ Consistent(Dropped(m))
<1> DEFINE n == Dropped(m)
<1>1. Kept(m, n) /\ n.child # "running"  BY DEF Kept, Consistent, ModelFields, Dropped
<1> HIDE DEF n
<1> QED  BY <1>1, KeptIsConsistent DEF n

LEMMA ProcessFails ==
    ASSUME NEW m, Consistent(m), NEW why
    PROVE  Sound(RouteFailed(Dropped(m), why))
BY DroppedIsKept, RouteFailedIsSound

LEMMA ReceiveIsSound ==
    ASSUME Sound(model), Receive
    PROVE  Sound(model')
<1> DEFINE read == [model EXCEPT !.left = @ - 1]
<1>1. /\ Consistent(model) /\ model.pc = "recv"
      /\ model.result.kind = "error" /\ (model.stream => ShownText(model) = model.got.text)
  BY DEF Receive, Sound, Telling
<1>2. PICK line \in Events :
        model' = IF EventError(model.got, line) # Absent
                 THEN RouteFailed(Dropped(read), EventError(model.got, line))
                 ELSE Shown([read EXCEPT !.pc = IF line.kind = "done" THEN "reap" ELSE "poll",
                                         !.got = AfterEvent(@, line)], line.text)
  BY Zenon DEF Receive
<1>3. line.text \in Seq(Pieces) /\ (line.kind # "text" => line.text = <<>>)
  <2>1. line.text \in Seq(STRING) /\ (line.kind # "text" => line.text = <<>>)  BY ModelAssumption
  <2> QED  BY <2>1 DEF Pieces
<1>4. Kept(model, read)  BY <1>1 DEF Kept, Consistent, ModelFields
<1>5. CASE EventError(model.got, line) = Absent
  <2> DEFINE pc == IF line.kind = "done" THEN "reap" ELSE "poll"
             n == [read EXCEPT !.pc = pc, !.got = AfterEvent(@, line)]
  <2>1. model' = Shown(n, line.text)  BY <1>2, <1>5
  <2>2. pc \in {"reap", "poll"}  OBVIOUS
  <2> HIDE DEF pc
  <2>3. /\ DOMAIN n = ModelFields /\ n.pc = pc /\ n.child = model.child /\ n.router = model.router
        /\ n.emitted = model.emitted /\ n.stream = model.stream /\ n.shown = model.shown
        /\ n.name = model.name /\ n.sends = model.sends /\ n.result = model.result
        /\ n.got = AfterEvent(model.got, line)
    BY <1>1 DEF Consistent, ModelFields
  <2> HIDE DEF n
  <2>4. DOMAIN model.got = {"text", "calls", "usage", "size"} /\ model.got.text \in Seq(Pieces)
    BY <1>1 DEF Consistent
  <2>5. /\ DOMAIN n.got = {"text", "calls", "usage", "size"}
        /\ n.got.text = model.got.text \o line.text /\ n.got.text \in Seq(Pieces)
    <3>1. /\ DOMAIN AfterEvent(model.got, line) = {"text", "calls", "usage", "size"}
          /\ AfterEvent(model.got, line).text = model.got.text \o line.text
          /\ AfterEvent(model.got, line).text \in Seq(Pieces)
      BY <1>3, <2>4, AfterEventText, Zenon
    <3> QED  BY <2>3, <3>1
  <2>6. n.pc \in Telling /\ n.pc \in Waiting  BY <2>2, <2>3 DEF Telling, Waiting
  <2>8. Sound(Shown(n, line.text))  BY <1>1, <1>3, <2>3, <2>5, <2>6, TellingIsSound
  <2> QED  BY <2>1, <2>8
<1>6. CASE EventError(model.got, line) # Absent
  <2> HIDE DEF read
  <2>1. Consistent(read)  BY <1>1, <1>4, KeptIsConsistent
  <2>2. model' = RouteFailed(Dropped(read), EventError(model.got, line))  BY <1>2, <1>6
  <2> QED  BY <2>1, <2>2, ProcessFails
<1> QED  BY <1>5, <1>6

LEMMA ProcessStepIsSound ==
    ASSUME Sound(model), Spawn \/ Poll \/ Nothing \/ OutputEnds \/ Reap
                         \/ ChildExits \/ HolderExits \/ Deadline
    PROVE  Sound(model')
<1> USE DEF ModelSteps, Silent, Telling, Waiting
<1>1. Consistent(model)  BY DEF Sound
<1>2. ASSUME NEW why, model' = RouteFailed(Dropped(model), why) PROVE Sound(model')
  BY <1>1, <1>2, ProcessFails
<1>3. CASE Spawn
  <2>0. model.pc = "spawn" /\ ~model.emitted /\ model.child # "running" /\ model.got.text = <<>>
    BY <1>3 DEF Spawn, Sound
  <2>1. CASE model' = RouteFailed(model, "not started")
    BY <1>1, <2>0, <2>1, RouteFailedIsSound
  <2>2. CASE model' = [model EXCEPT !.pc = "poll", !.child = "running", !.sends = @ + 1]
    <3>1. Kept(model, model') /\ model'.pc = "poll"
      BY <1>1, <2>0, <2>2 DEF Kept, Consistent, ModelFields
    <3>2. ShownText(model) = <<>>  BY <1>1, <2>0, SilentText
    <3> QED  BY <1>1, <2>0, <3>1, <3>2, MovedIsSound DEF Sound
  <2> QED  BY <1>3, <2>1, <2>2 DEF Spawn
<1>4. CASE Poll
  <2>1. CASE model.late \/ cancel  BY <1>2, <1>4, <2>1 DEF Poll
  <2>2. CASE ~(model.late \/ cancel)
    <3>1. Kept(model, model') /\ model'.pc = "recv" /\ model.pc = "poll"
      BY <1>1, <1>4, <2>2 DEF Poll, Kept, Consistent, ModelFields
    <3> QED  BY <1>1, <3>1, MovedIsSound DEF Sound
  <2> QED  BY <2>1, <2>2
<1>5. CASE Nothing \/ OutputEnds
  <2>1. Kept(model, model') /\ model'.pc \in {"poll", "reap"} /\ model.pc = "recv"
    BY <1>1, <1>5 DEF Nothing, OutputEnds, Kept, Consistent, ModelFields
  <2> QED  BY <1>1, <2>1, MovedIsSound DEF Sound
<1>6. CASE Reap
  <2>0. model.pc = "reap"  BY <1>6 DEF Reap
  <2>1. CASE model.child = "well" /\ model' = RouteDone(model, ProcessAnswer(model.got))
    <3> DEFINE answer == ProcessAnswer(model.got)
    <3>1. answer.kind = "text" => answer.text = model.got.text
      BY DEF ProcessAnswer, CallsAnswer, TextAnswer, Failed
    <3> HIDE DEF answer
    <3>2. model.stream /\ answer.kind = "text" => Trimmed(answer.text) = Trimmed(ShownText(model))
      BY <2>0, <3>1 DEF Sound
    <3>3. model.child # "running" /\ model' = RouteDone(model, answer)  BY <2>1 DEF answer
    <3> QED  BY <1>1, <3>2, <3>3, RouteDoneIsSound
  <2>2. CASE model.child = "badly" /\ model' = [model EXCEPT !.pc = "explain"]
    <3>1. Kept(model, model') /\ model'.pc = "explain" /\ model'.child = "badly"
      BY <1>1, <2>2 DEF Kept, Consistent, ModelFields
    <3> QED  BY <1>1, <2>0, <3>1, MovedIsSound DEF Sound
  <2>3. CASE model' = RouteFailed(Dropped(model), "timed out")  BY <1>2, <2>3
  <2> QED  BY <1>6, <2>1, <2>2, <2>3 DEF Reap
<1>7. CASE ChildExits
  <2>1. Kept(model, model') /\ model'.pc = model.pc /\ model.pc \in Waiting
    BY <1>1, <1>7 DEF ChildExits, Kept, Consistent, ModelFields
  <2> QED  BY <1>1, <2>1, MovedIsSound DEF Sound
<1>8. CASE HolderExits
  <2>1. Kept(model, model') /\ model'.pc = "explain" /\ model.pc = "explain"
        /\ model'.child = model.child
    BY <1>1, <1>8 DEF HolderExits, Kept, Consistent, ModelFields
  <2> QED  BY <1>1, <2>1, MovedIsSound DEF Sound
<1>9. CASE Deadline
  <2>1. Kept(model, model') /\ model'.pc = model.pc /\ model.pc \in Waiting
    BY <1>1, <1>9 DEF Deadline, Kept, Consistent, ModelFields
  <2> QED  BY <1>1, <2>1, MovedIsSound DEF Sound
<1> QED  BY <1>3, <1>4, <1>5, <1>6, <1>7, <1>8, <1>9

LEMMA ModelStays == ModelInv /\ [Next]_vars => ModelInv'
<1> SUFFICES ASSUME ModelInv, ModelMove \/ UNCHANGED model PROVE ModelInv'
  BY ModelMoves
<1>1. CASE model' = IdleModel  BY <1>1 DEF ModelInv
<1>2. CASE UNCHANGED model
  BY <1>2 DEF ModelInv, Sound, Consistent, ShownText
<1>3. CASE AskModel
  <2>1. PICK ask \in Asks :
          model' = [pc |-> "route", router |-> ask.router, request |-> ask.request,
                    routes |-> CandidateNames(ask.router, ask.request), stream |-> ask.stream,
                    name |-> NoModel, attempt |-> 0, sends |-> 0, left |-> MaxLines,
                    got |-> NewStream, emitted |-> FALSE, shown |-> <<>>,
                    child |-> "none", held |-> FALSE, late |-> FALSE,
                    result |-> Failed("no route")]
    BY <1>3 DEF AskModel
  <2>2. /\ DOMAIN model' = ModelFields /\ model'.pc = "route" /\ model'.router = ask.router
        /\ model'.stream = ask.stream /\ model'.emitted = FALSE /\ model'.shown = <<>>
        /\ model'.child = "none"
    BY <2>1 DEF ModelFields
  <2>3. /\ model'.got = NewStream
        /\ model'.result.kind = "error"
    BY <2>1 DEF Failed
  <2>4. DOMAIN model'.got = {"text", "calls", "usage", "size"} /\ model'.got.text = <<>>
    BY <2>3 DEF NewStream
  <2>5. ask.stream \in BOOLEAN  BY ModelAssumption
  <2>6. Consistent(model')
    <3>1. model'.router \in {a.router : a \in Asks}  BY <2>2
    <3>2. model'.shown \in Seq({model'.name} \X {model'.sends} \X Pieces)  BY <2>2
    <3>3. model'.got.text \in Seq(Pieces)  BY <2>4
    <3> QED  BY <2>2, <2>4, <2>5, <3>1, <3>2, <3>3 DEF Consistent
  <2>7. Sound(model')
    BY <2>2, <2>3, <2>6 DEF Sound, ModelSteps, Silent, Telling, Waiting
  <2> QED  BY <2>7 DEF ModelInv
<1>4. CASE model = IdleModel /\ (ModelStep \/ ModelEnvironment \/ Deadline)
  BY <1>4 DEF IdleModel, ModelStep, ModelEnvironment, Deadline, TryRoute, Send, Sleep, ReadBody,
              CheckStream, StreamFails, FinishStream, AskLocal, Spawn, Poll, Nothing, Reap, Explain,
              ReadLine, EndOfStream, Receive, OutputEnds, ChildExits, HolderExits, ReadHeaders,
              ReadPayload
<1>5. CASE Sound(model) /\ (ModelStep \/ ModelEnvironment \/ Deadline)
  <2>1. Sound(model')
    BY <1>5, RouterIsSound, SendIsSound, SimpleStepIsSound, ReadBodyIsSound, ReadPayloadIsSound,
       ReadLineIsSound, FinishStreamIsSound, ReceiveIsSound, ProcessStepIsSound, Zenon
    DEF ModelStep, ModelEnvironment
  <2> QED  BY <2>1 DEF ModelInv
<1> QED  BY <1>1, <1>2, <1>3, <1>4, <1>5, Zenon DEF ModelMove, ModelInv

(***************************************************************************)
(* The calls of the host                                                   *)
(***************************************************************************)
LEMMA FirstTwo ==
    ASSUME NEW a, NEW b, NEW c
    PROVE  SubSeq(<<a, b, c>>, 1, 2) = <<a, b>>
<1> DEFINE S == {a, b, c}
           t == <<a, b, c>>
           u == SubSeq(t, 1, 2)
           v == <<a, b>>
<1>1. t \in Seq(S) /\ Len(t) = 3 /\ t[1] = a /\ t[2] = b  OBVIOUS
<1>2. v \in Seq(S) /\ Len(v) = 2 /\ v[1] = a /\ v[2] = b  OBVIOUS
<1> HIDE DEF t, v, S
<1>3. u \in Seq(S) /\ Len(u) = 2 /\ u[1] = t[1] /\ u[2] = t[2]
  <2>1. u \in Seq(S) /\ Len(u) = 2  BY <1>1
  <2>2. \A i \in 1..2 : u[i] = t[1 + i - 1]  BY <1>1
  <2> QED  BY <2>1, <2>2
<1> HIDE DEF u
<1>4. u = v  BY <1>1, <1>2, <1>3
<1> QED  BY <1>4 DEF t, u, v

CallsInv == ModelInv /\ CommandInv /\ McpInv

LEMMA CallsInit == Init => CallsInv
BY DEF Init, CallsInv, ModelInv, CommandInv, McpInv

LEMMA CallsStay == CallsInv /\ [Next]_vars => CallsInv'
BY ModelStays, CommandStays, McpStays DEF CallsInv

\* However a call ends, no child it started runs afterwards: not the model's
\* process, not the shell nor its group, not the server nor its group
\* (command_env.rs, workspace.rs, mcp.rs and agent/process_model.rs).
THEOREM ChildrenEnd == Spec => []NothingLeftRunning
<1>1. CallsInv => NothingLeftRunning
  <2> SUFFICES ASSUME ModelInv, CommandInv, McpInv PROVE NothingLeftRunning  BY DEF CallsInv
  <2>1. ModelEnded => model.child # "running"
    BY DEF ModelInv, ModelEnded, IdleModel, Sound, Waiting
  <2>2. CommandsEndWhole  BY DEF CommandInv, CommandsEndWhole, CommandEnded
  <2>3. ServersEndWhole  BY DEF McpInv, McpInProgress, ServersEndWhole, McpEnded
  <2> QED  BY <2>1, <2>2, <2>3 DEF NothingLeftRunning
<1> QED  BY CallsInit, CallsStay, <1>1, PTL DEF Spec

\* The client takes for the answer to its request only what the server said in
\* answer to it, and a content only after the call was carried out (mcp.rs).
THEOREM AnswersAreTheServers == Spec => []AnswersMatch
<1>1. CallsInv => AnswersMatch
  <2> SUFFICES ASSUME McpInProgress, mcp.pc \in {"grace", "drop", "done"},
                      mcp.result \in {"none", "answered"}
               PROVE  /\ \E answer \in AnswersTo(RequestId) : answer.body = mcp.reply
                      /\ mcp.reply = "content" => mcp.performed = 1
    BY DEF CallsInv, McpInv, AnswersMatch
  <2>1. mcp.reply \in Proper  BY DEF McpInProgress
  <2> QED  BY <2>1 DEF Proper
<1> QED  BY CallsInit, CallsStay, <1>1, PTL DEF Spec

\* What the user saw of one decision comes from one attempt of one route, and a
\* text answer is what was shown (agent/router.rs, openrouter.rs,
\* agent/process_model.rs and persistent_model.rs).
THEOREM AnswersAreOne == Spec => []OneAnswer
<1>1. CallsInv => OneAnswer
  <2> SUFFICES ASSUME Sound(model)
               PROVE  /\ \A i, j \in DOMAIN model.shown :
                            SubSeq(model.shown[i], 1, 2) = SubSeq(model.shown[j], 1, 2)
                      /\ ModelEnded /\ model.stream /\ model.result.kind = "text" =>
                            Trimmed(model.result.text) =
                               Trimmed([i \in DOMAIN model.shown |-> model.shown[i][3]])
    BY DEF CallsInv, ModelInv, OneAnswer
  <2>1. ASSUME NEW i \in DOMAIN model.shown, NEW j \in DOMAIN model.shown
        PROVE  SubSeq(model.shown[i], 1, 2) = SubSeq(model.shown[j], 1, 2)
    <3>1. model.shown \in Seq({model.name} \X {model.sends} \X Pieces)  BY DEF Sound, Consistent
    <3>2. \A k \in DOMAIN model.shown : model.shown[k] \in {model.name} \X {model.sends} \X Pieces
      BY <3>1
    <3>3. \A k \in DOMAIN model.shown : \E piece \in Pieces :
             model.shown[k] = <<model.name, model.sends, piece>>
      BY <3>2
    <3>4. \A piece : SubSeq(<<model.name, model.sends, piece>>, 1, 2) = <<model.name, model.sends>>
      BY FirstTwo
    <3> QED  BY <3>3, <3>4
  <2>2. ModelEnded /\ model.stream /\ model.result.kind = "text" =>
           Trimmed(model.result.text) = Trimmed([i \in DOMAIN model.shown |-> model.shown[i][3]])
    BY DEF Sound, ModelEnded, ShownText
  <2> QED  BY <2>1, <2>2
<1> QED  BY CallsInit, CallsStay, <1>1, PTL DEF Spec

(***************************************************************************)
(* Paths                                                                   *)
(***************************************************************************)
\* What is at the places, whatever is in the texts.
Linked == \A p \in Places : tree[p].to \in Seq(STRING)

LEMMA AtLinks == ASSUME Linked, NEW path PROVE At(path).to \in Seq(STRING)
<1>1. CASE path \in Places  BY <1>1 DEF Linked, At
<1>2. CASE path \notin Places
  <2>1. At(path).to = <<>>  BY <1>2 DEF At, Nothing_
  <2> QED  BY <2>1
<1> QED  BY <1>1, <1>2

LEMMA FollowedIsPath ==
    ASSUME Linked, NEW path \in Seq(STRING)
    PROVE  Followed(path) \in Seq(STRING)
<1> DEFINE links == {n \in DOMAIN path : At(SubSeq(path, 1, n)).kind = "link"}
           first == CHOOSE n \in links : \A m \in links : n <= m
<1>1. links \subseteq Nat /\ links \subseteq 1..Len(path)  OBVIOUS
<1>2. Followed(path) = IF links = {} THEN path
                       ELSE At(SubSeq(path, 1, first)).to \o SubSeq(path, first + 1, Len(path))
  BY DEF Followed
<1> HIDE DEF links
<1>3. links # {} => first \in links
  <2>1. links # {} => \E n \in links : \A m \in links : n <= m  BY <1>1, LeastExists
  <2> QED  BY <2>1
<1> HIDE DEF first
<1>4. CASE links = {}  BY <1>2, <1>4
<1>5. CASE links # {}
  <2>1. first \in 1..Len(path)  BY <1>1, <1>3, <1>5
  <2>2. At(SubSeq(path, 1, first)).to \in Seq(STRING)  BY AtLinks
  <2>3. SubSeq(path, first + 1, Len(path)) \in Seq(STRING)  BY <2>1
  <2>4. At(SubSeq(path, 1, first)).to \o SubSeq(path, first + 1, Len(path)) \in Seq(STRING)
    BY <2>2, <2>3
  <2> QED  BY <1>2, <1>5, <2>4
<1> QED  BY <1>4, <1>5

LEMMA CanonicalIsPath ==
    ASSUME Linked, NEW path \in Seq(STRING)
    PROVE  Canonical(path).path \in Seq(STRING)
BY FollowedIsPath DEF Canonical

\* A request names a path.
LEMMA CandidateIsPath == ASSUME NEW request \in Paths PROVE Candidate(request) \in Seq(STRING)
<1>1. PathComponents(request) \in Seq(STRING)  BY DEF Paths
<1>2. Root \in Seq(STRING)  BY FilesAssumption
<1> DEFINE names == PathComponents(request)
<1>3. Candidate(request) = IF request.absolute THEN names ELSE Root \o names  BY DEF Candidate
<1> HIDE DEF names
<1>4. Root \o names \in Seq(STRING)  BY <1>1, <1>2 DEF names
<1>5. names \in Seq(STRING)  BY <1>1 DEF names
<1> QED  BY <1>3, <1>4, <1>5
LEMMA FrontIsPath ==
    ASSUME NEW S, NEW path \in Seq(S)
    PROVE  Front(path) \in Seq(S) /\ (path # <<>> => Last(path) \in S)
BY DEF Front, Last

\* A path that was resolved is inside; one to write is in no .git of its base.
Inside(p) == \E base \in {Root} \cup Additional : IsPrefix(base, p)

Writable(p) ==
    \E base \in {Root} \cup Additional :
        IsPrefix(base, p) /\ ".git" \notin Range(SubSeq(p, Len(base) + 1, Len(p)))

LEMMA ResolvedIsInside ==
    ASSUME Linked, NEW request, Candidate(request) \in Seq(STRING), NEW missing
    PROVE  LET path == Resolve(request, missing)
           IN  path = NoPath \/ (path \in Seq(STRING) /\ Inside(path))
<1> DEFINE candidate == Candidate(request)
           end       == Canonical(candidate)
           parent    == Canonical(Front(candidate))
           found     == IF end.exists THEN end.path
                        ELSE IF missing /\ candidate # <<>> /\ ~Present(candidate)
                                /\ parent.exists
                        THEN Append(parent.path, Last(candidate))
                        ELSE NoPath
<1>1. Resolve(request, missing) =
        IF ".." \in Range(request.names) \/ ~WithinWorkspace(found) THEN NoPath ELSE found
  BY DEF Resolve
<1>2. candidate \in Seq(STRING)  OBVIOUS
<1> HIDE DEF candidate
<1>3. end.path \in Seq(STRING)  BY <1>2, CanonicalIsPath
<1>4. Front(candidate) \in Seq(STRING)  BY <1>2, FrontIsPath
<1>5. parent.path \in Seq(STRING)  BY <1>4, CanonicalIsPath
<1>6. candidate # <<>> => Last(candidate) \in STRING  BY <1>2, FrontIsPath
<1> HIDE DEF end, parent
<1>7. found = NoPath \/ found \in Seq(STRING)
  <2>1. candidate # <<>> => Append(parent.path, Last(candidate)) \in Seq(STRING)  BY <1>5, <1>6
  <2> QED  BY <1>3, <2>1, Zenon
<1> HIDE DEF found
<1> QED  BY <1>1, <1>7 DEF WithinWorkspace, Inside

LEMMA WritableIsInside ==
    ASSUME Linked, NEW request, Candidate(request) \in Seq(STRING), NEW missing
    PROVE  LET path == ResolveForWrite(request, missing)
           IN  path = NoPath \/ (path \in Seq(STRING) /\ Writable(path))
<1> DEFINE path == Resolve(request, missing)
           base == CHOOSE b \in {Root} \cup Additional : IsPrefix(b, path)
<1>1. path = NoPath \/ (path \in Seq(STRING) /\ Inside(path))  BY ResolvedIsInside
<1>2. ResolveForWrite(request, missing) =
        IF path = NoPath \/ ".git" \in Range(SubSeq(path, Len(base) + 1, Len(path)))
        THEN NoPath ELSE path
  BY DEF ResolveForWrite
<1> HIDE DEF path
<1>3. Inside(path) => base \in {Root} \cup Additional /\ IsPrefix(base, path)  BY DEF Inside
<1> HIDE DEF base
<1> QED  BY <1>1, <1>2, <1>3 DEF Writable

LEMMA PrefixTransitive ==
    ASSUME NEW S, NEW s \in Seq(S), NEW t \in Seq(S), NEW u \in Seq(S),
           IsPrefix(s, t), IsPrefix(t, u)
    PROVE  IsPrefix(s, u)
<1>1. Len(s) <= Len(t) /\ SubSeq(s, 1, Len(s)) = SubSeq(t, 1, Len(s))  BY DEF IsPrefix
<1>2. Len(t) <= Len(u) /\ SubSeq(t, 1, Len(t)) = SubSeq(u, 1, Len(t))  BY DEF IsPrefix
<1>3. Len(s) \in Nat /\ Len(t) \in Nat /\ Len(u) \in Nat  OBVIOUS
<1>4. \A i \in 1..Len(t) : t[i] = u[i]
  <2> TAKE i \in 1..Len(t)
  <2>1. SubSeq(t, 1, Len(t))[i] = t[1 + i - 1]  BY <1>3
  <2>2. SubSeq(u, 1, Len(t))[i] = u[1 + i - 1]  BY <1>2, <1>3
  <2>3. 1 + i - 1 = i  BY <1>3
  <2> QED  BY <1>2, <2>1, <2>2, <2>3
<1>5. SubSeq(t, 1, Len(s)) = SubSeq(u, 1, Len(s))
  <2> DEFINE a == SubSeq(t, 1, Len(s))
             b == SubSeq(u, 1, Len(s))
  <2>1. a \in Seq(S) /\ Len(a) = Len(s)  BY <1>1, <1>3
  <2>2. b \in Seq(S) /\ Len(b) = Len(s)  BY <1>1, <1>2, <1>3
  <2>3. \A i \in 1..Len(s) : a[i] = t[1 + i - 1] /\ b[i] = u[1 + i - 1]  BY <1>1, <1>2, <1>3
  <2>4. \A i \in 1..Len(s) : i \in 1..Len(t) /\ 1 + i - 1 = i  BY <1>1, <1>3
  <2> HIDE DEF a, b
  <2>5. \A i \in 1..Len(s) : a[i] = b[i]  BY <1>4, <2>3, <2>4
  <2>6. a = b  BY <2>1, <2>2, <2>5
  <2> QED  BY <2>6 DEF a, b
<1> QED  BY <1>1, <1>2, <1>3, <1>5 DEF IsPrefix

\* What is looked at below a place inside is inside.
LEMMA LookedAtIsInside ==
    ASSUME NEW path \in Seq(STRING), Inside(path),
           NEW tool \in FileTools \ {"write_file", "edit_file"}, NEW sought,
           NEW q \in LookedAt(tool, path, sought)
    PROVE  Inside(q)
<1>1. PICK base \in {Root} \cup Additional : IsPrefix(base, path)  BY DEF Inside
<1>2. base \in Seq(STRING)  BY FilesAssumption
<1>3. q = path \/ (At(path).kind = "dir" /\ q \in Places /\ IsPrefix(path, q))
  <2>1. CASE tool = "read_file"
    <3>1. LookedAt(tool, path, sought) = IF BoundedText(path) = Unreadable THEN {} ELSE {path}
      BY <2>1 DEF LookedAt
    <3> QED  BY <3>1
  <2>2. CASE tool = "list_files"
    <3>1. LookedAt(tool, path, sought) = IF At(path).kind = "dir" THEN Listed(path) ELSE {}
      BY <2>2 DEF LookedAt
    <3> QED  BY <3>1 DEF Listed
  <2>3. CASE tool = "search_files"
    <3>1. LookedAt(tool, path, sought) = IF At(path).kind = "dir" THEN Searched(path, sought.old) ELSE {}
      BY <2>3 DEF LookedAt
    <3>2. Searched(path, sought.old) \subseteq Walked(path)  BY DEF Searched
    <3> QED  BY <3>1, <3>2 DEF Walked, IsStrictPrefix
  <2>4. CASE tool = "find_files"
    <3>1. LookedAt(tool, path, sought) = IF At(path).kind = "dir" THEN Found(path, sought.pattern) ELSE {}
      BY <2>4 DEF LookedAt
    <3>2. Found(path, sought.pattern) \subseteq Walked(path)  BY DEF Found
    <3> QED  BY <3>1, <3>2 DEF Walked, IsStrictPrefix
  <2> QED  BY <2>1, <2>2, <2>3, <2>4 DEF FileTools
<1>4. CASE q = path  BY <1>4
<1>5. CASE q \in Places /\ IsPrefix(path, q)
  <2>1. q \in Seq(STRING)  BY <1>5, FilesAssumption
  <2>2. IsPrefix(base, q)  BY <1>1, <1>2, <1>5, <2>1, PrefixTransitive
  <2> QED  BY <2>2 DEF Inside
<1> QED  BY <1>3, <1>4, <1>5

(***************************************************************************)
(* One call at a time                                                      *)
(***************************************************************************)
\* The steps on the files.
Proposed ==
    \E call \in FileCalls, unasked \in BOOLEAN :
        /\ call.tool \in {"write_file", "edit_file"}
        /\ unasked => Licence(policy, [tool |-> call.tool, path |-> call.request, words |-> <<>>]) = "run"
        /\ Propose(call.tool, call.request, call.edit, unasked)

Looked ==
    \E call \in FileCalls :
        call.tool \notin {"write_file", "edit_file"} /\ Look(call.tool, call.request, call.edit)

\* A file tool is used in a turn, with no other call in progress.
OneCall ==
    file # IdleFile =>
        /\ model = IdleModel /\ command = IdleCommand /\ mcp = IdleMcp
        /\ host = "turn" /\ phase = "call"

\* While no file tool is used the tree stays as it is, until a tool is; a
\* process that has exited does nothing more.
IdleMove ==
    \/ UNCHANGED <<tree, file>> /\ (host = "exited" => host' = "exited")
    \/ Calling /\ UNCHANGED <<host, phase, model, command, mcp>> /\ (Proposed \/ Looked)

\* While one is used, it goes on, or ends, or the process does.
FileMove ==
    \/ UNCHANGED <<tree, file>> /\ UNCHANGED <<host, phase, model, command, mcp>>
    \/ UNCHANGED <<host, phase, model, command, mcp>> /\ (FileStep \/ AnswerFile \/ Meddle)
    \/ file' = IdleFile /\ UNCHANGED tree /\ (FileEnded \/ host' = "exited")

LEMMA IdleCallsWait ==
    /\ model = IdleModel => ~(ModelStep \/ ModelEnvironment \/ Deadline \/ ModelEnded)
    /\ command = IdleCommand => ~(CommandStep \/ CommandEnvironment \/ CommandLate \/ CommandEnded)
    /\ mcp = IdleMcp => ~(McpStep \/ McpEnvironment \/ McpLate \/ McpEnded)
    /\ file = IdleFile => ~(FileStep \/ AnswerFile \/ Meddle \/ FileEnded)
<1>1. model = IdleModel => ~(ModelStep \/ ModelEnvironment \/ Deadline \/ ModelEnded)
  BY DEF IdleModel, ModelStep, ModelEnvironment, Deadline, TryRoute, Send, Sleep, ReadBody,
         CheckStream, StreamFails, FinishStream, AskLocal, Spawn, Poll, Nothing, Reap, Explain,
         ReadLine, EndOfStream, Receive, OutputEnds, ChildExits, HolderExits, ReadHeaders,
         ReadPayload, ModelEnded
<1>2. command = IdleCommand => ~(CommandStep \/ CommandEnvironment \/ CommandLate \/ CommandEnded)
  BY DEF IdleCommand, CommandStep, SpawnShell, PollShell, KillGroup, ReapShell, JoinReaders,
         CommandEnvironment, ShellForks, ShellExits, CommandLate, Stepping, CommandEnded
<1>3. mcp = IdleMcp => ~(McpStep \/ McpEnvironment \/ McpLate \/ McpEnded)
  BY DEF IdleMcp, McpStep, SpawnServer, Greet, AwaitGreeting, SendRequest, AwaitAnswer, Grace,
         DropServer, Conclude, McpEnvironment, ServerPerforms, ServerSays, ServerForks,
         ServerExits, McpLate, Serving, McpEnded
<1>4. file = IdleFile => ~(FileStep \/ AnswerFile \/ Meddle \/ FileEnded)
  BY DEF IdleFile, FileStep, ResolveFile, ReadForEdit, Stage, Fill, Rename, AnswerFile, Meddle,
         FileEnded
<1> QED  BY <1>1, <1>2, <1>3, <1>4

LEMMA ExitedStays == [Next]_vars => (host = "exited" => host' = "exited")
BY TurnMoves DEF TurnMove, TakePrompt, ClearCancel, MarkActive, EndTurn, Interrupt, Handled, turnVars

LEMMA IdleMoves == file = IdleFile /\ [Next]_vars => IdleMove
<1> SUFFICES ASSUME file = IdleFile, [Next]_vars PROVE IdleMove  OBVIOUS
<1>0. host = "exited" => host' = "exited"  BY ExitedStays
<1>1. CASE TurnStep
  BY <1>0, <1>1 DEF TurnStep, BeginGuard, StopTurn, Decide, Decided, FinishTurn, Called,
              StartListing, EndListing, IdleMove, calls, fileVars
<1>2. CASE UseFile
  <2>1. Calling /\ UNCHANGED <<host, phase, model, command, mcp>>
    BY <1>2 DEF UseFile, turnVars, callVars
  <2>2. PICK call \in FileCalls :
          IF call.tool \in {"write_file", "edit_file"}
          THEN \E licence \in Licences([tool |-> call.tool, path |-> call.request, words |-> <<>>]) :
                  Propose(call.tool, call.request, call.edit, licence = "run")
          ELSE Look(call.tool, call.request, call.edit)
    BY <1>2 DEF UseFile
  <2>3. CASE call.tool \in {"write_file", "edit_file"}
    <3> DEFINE verdict == Licence(policy, [tool |-> call.tool, path |-> call.request, words |-> <<>>])
    <3>1. PICK licence \in {verdict} \ {"deny"} :
            Propose(call.tool, call.request, call.edit, licence = "run")
      BY <2>2, <2>3 DEF Licences
    <3>2. (licence = "run") \in BOOLEAN /\ (licence = "run" => verdict = "run")  OBVIOUS
    <3> HIDE DEF verdict
    <3>3. \E unasked \in BOOLEAN :
             /\ unasked => verdict = "run"
             /\ Propose(call.tool, call.request, call.edit, unasked)
      BY <3>1, <3>2
    <3>4. Proposed  BY <2>3, <3>3 DEF Proposed, verdict
    <3> QED  BY <2>1, <3>4 DEF IdleMove
  <2>4. CASE call.tool \notin {"write_file", "edit_file"}
    <3>1. Looked  BY <2>2, <2>4 DEF Looked
    <3> QED  BY <2>1, <3>1 DEF IdleMove
  <2> QED  BY <2>3, <2>4
<1>3. CASE CallMcp \/ RunCommand \/ Refuse
  BY <1>0, <1>3 DEF CallMcp, RunCommand, Refuse, calls, fileVars, IdleMove
<1>4. CASE \/ OnModel(ModelStep) \/ OnModel(Deadline) \/ OnModel(ModelEnvironment)
           \/ OnCommand(CommandStep) \/ OnCommand(CommandLate) \/ OnCommand(CommandEnvironment)
           \/ OnMcp(McpStep) \/ OnMcp(McpLate) \/ OnMcp(McpEnvironment)
  BY <1>0, <1>4 DEF OnModel, OnCommand, OnMcp, fileVars, IdleMove
<1>5. CASE OnFile(FileStep) \/ OnFile(AnswerFile) \/ OnFile(Meddle)
  BY <1>5, IdleCallsWait DEF OnFile
<1>6. CASE NextPrompt  BY <1>0, <1>6 DEF NextPrompt, calls, fileVars, IdleMove
<1>7. CASE CtrlC  BY <1>0, <1>7 DEF CtrlC, calls, fileVars, IdleMove
<1>8. CASE UNCHANGED vars  BY <1>0, <1>8 DEF vars, calls, fileVars, IdleMove
<1> QED
  BY <1>1, <1>2, <1>3, <1>4, <1>5, <1>6, <1>7, <1>8 DEF Next, HostThread, Clock, Choice

LEMMA FileMoves == OneCall /\ file # IdleFile /\ [Next]_vars => FileMove
<1> SUFFICES ASSUME OneCall, file # IdleFile, [Next]_vars PROVE FileMove  OBVIOUS
<1>0. /\ model = IdleModel /\ command = IdleCommand /\ mcp = IdleMcp
      /\ host = "turn" /\ phase = "call"
  BY DEF OneCall
<1>1. CASE TurnStep
  <2>1. CASE Called
    <3>1. FileEnded  BY <1>0, <2>1, IdleCallsWait DEF Called
    <3> QED  BY <2>1, <3>1 DEF Called, FileMove
  <2>2. CASE Decided  BY <1>0, <2>2, IdleCallsWait DEF Decided
  <2>3. CASE BeginGuard  BY <1>0, <2>3 DEF BeginGuard, ClearCancel, MarkActive
  <2>4. CASE StopTurn \/ Decide \/ FinishTurn \/ StartListing \/ EndListing
    BY <1>0, <2>4 DEF StopTurn, Decide, FinishTurn, StartListing, EndListing
  <2> QED  BY <1>1, <2>1, <2>2, <2>3, <2>4 DEF TurnStep
<1>2. CASE Choice
  BY <1>2 DEF Choice, CallMcp, RunCommand, UseFile, Refuse, Calling, Quiet
<1>3. CASE \/ OnModel(ModelStep) \/ OnModel(Deadline) \/ OnModel(ModelEnvironment)
           \/ OnCommand(CommandStep) \/ OnCommand(CommandLate) \/ OnCommand(CommandEnvironment)
           \/ OnMcp(McpStep) \/ OnMcp(McpLate) \/ OnMcp(McpEnvironment)
  BY <1>0, <1>3, IdleCallsWait DEF OnModel, OnCommand, OnMcp
<1>4. CASE OnFile(FileStep) \/ OnFile(AnswerFile) \/ OnFile(Meddle)
  BY <1>4 DEF OnFile, FileMove, turnVars, callVars
<1>5. CASE NextPrompt  BY <1>0, <1>5 DEF NextPrompt
<1>6. CASE CtrlC
  <2>1. CASE host' = "exited"  BY <1>6, <2>1 DEF CtrlC, FileMove
  <2>2. CASE host' # "exited"
    <3>1. UNCHANGED <<callVars, calls>>  BY <1>6, <2>2 DEF CtrlC
    <3>2. UNCHANGED host  BY <1>6, <2>2 DEF CtrlC, Interrupt, Handled
    <3> QED  BY <3>1, <3>2 DEF callVars, calls, fileVars, FileMove
  <2> QED  BY <2>1, <2>2
<1>7. CASE UNCHANGED vars  BY <1>7 DEF vars, turnVars, callVars, calls, fileVars, FileMove
<1> QED
  BY <1>1, <1>2, <1>3, <1>4, <1>5, <1>6, <1>7 DEF Next, HostThread, Clock

LEMMA OneCallStays == OneCall /\ [Next]_vars => OneCall'
<1> SUFFICES ASSUME OneCall, [Next]_vars PROVE OneCall'  OBVIOUS
<1>1. CASE file = IdleFile
  <2>1. IdleMove  BY <1>1, IdleMoves
  <2> QED  BY <1>1, <2>1 DEF IdleMove, OneCall, Calling, Quiet
<1>2. CASE file # IdleFile
  <2>1. FileMove  BY <1>2, FileMoves
  <2> QED  BY <1>2, <2>1 DEF FileMove, OneCall
<1> QED  BY <1>1, <1>2

(***************************************************************************)
(* The files                                                               *)
(***************************************************************************)
\* A place holds a whole text, or the half-written one; that only in a
\* temporary file.
Leaves ==
    [kind : {"nothing", "dir", "file", "link"}, text : Seq(WholePieces) \cup {Torn},
     to : Seq(STRING)]

TreeInv ==
    /\ tree \in [Places -> Leaves]
    /\ \A p \in Places : Last(p) # "tmp" => tree[p].text # Torn

\* A tool in progress.  From its resolving on, a place to write is one that may
\* be written; from its reading on, the text of an edit is made of one that was
\* in the file since.
FileFields ==
    {"pc", "tool", "request", "edit", "unasked", "path", "text", "seen", "touched"}

Edited(f) == \E text \in f.seen : f.text = Replaced(text, f.edit.old, f.edit.new)

Touched(f) ==
    \A p \in f.touched :
        Inside(p) /\ (f.tool \in {"write_file", "edit_file"} => Writable(p))

Use(f) ==
    /\ DOMAIN f = FileFields
    /\ f.pc \in FileSteps
    /\ f.tool \in FileTools
    /\ f.pc # "ended" =>
          /\ f.tool \in {"write_file", "edit_file"}
          /\ Candidate(f.request) \in Seq(STRING)
          /\ f.edit.text \in Seq(WholePieces)
          /\ f.edit.new \in WholePieces
    /\ f.pc \in {"read", "stage", "fill", "rename"} => f.path \in Seq(STRING) /\ Writable(f.path)
    /\ f.pc \in {"stage", "fill", "rename"} =>
          /\ f.text \in Seq(WholePieces)
          /\ f.tool = "edit_file" => Edited(f)
    /\ Touched(f)

FileInv ==
    \/ file = IdleFile
    \/ Use(file) /\ (file.pc = "read" => At(file.path).text \in file.seen)

FilesInv == OneCall /\ TreeInv /\ FileInv

LEMMA TreeLinks == TreeInv => Linked
BY DEF TreeInv, Leaves, Linked

\* What is written is whole.
LEMMA FileIsLeaf ==
    /\ \A text \in Seq(WholePieces) \cup {Torn} : File(text) \in Leaves /\ File(text).text = text
    /\ Nothing_ \in Leaves /\ Nothing_.text # Torn
BY DEF Leaves, File, Nothing_, Torn

LEMMA WholeIsNotTorn == Torn \notin Seq(WholePieces)
<1> SUFFICES ASSUME Torn \in Seq(WholePieces) PROVE FALSE  OBVIOUS
<1>1. Len(Torn) = 1 /\ Torn[1] = "torn"  BY DEF Torn
<1>2. Torn[1] \in WholePieces  BY <1>1
<1> QED  BY <1>1, <1>2 DEF WholePieces

\* One place of the tree written.
LEMMA PlaceWritten ==
    ASSUME TreeInv, NEW p, NEW leaf \in Leaves, Last(p) # "tmp" => leaf.text # Torn,
           NEW other, other = [tree EXCEPT ![p] = leaf]
    PROVE  /\ other \in [Places -> Leaves]
           /\ \A q \in Places : Last(q) # "tmp" => other[q].text # Torn
BY DEF TreeInv

LEMMA TemporaryIsTemporary == ASSUME NEW path \in Seq(STRING) PROVE Last(Temporary(path)) = "tmp"
<1> DEFINE S == STRING \cup {"tmp"}
<1>1. path \in Seq(S)  OBVIOUS
<1>2. Front(path) \in Seq(S)  BY <1>1, FrontIsPath, Zenon
<1>3. "tmp" \in S  OBVIOUS
<1> HIDE DEF S
<1>4. DEFINE t == Append(Front(path), "tmp")
<1>5. t \in Seq(S) /\ Len(t) = Len(Front(path)) + 1 /\ t[Len(t)] = "tmp"  BY <1>2, <1>3
<1> QED  BY <1>5 DEF Temporary, Last

LEMMA TreeTyped ==
    ASSUME TreeInv, NEW path
    PROVE  At(path) \in Leaves /\ (At(path) = Nothing_ \/ At(path) = tree[path])
<1>1. CASE path \in Places  BY <1>1 DEF At, TreeInv
<1>2. CASE path \notin Places  BY <1>2, FileIsLeaf DEF At
<1> QED  BY <1>1, <1>2

\* An edit leaves a whole text, even of the half-written one.
LEMMA EditIsWhole ==
    ASSUME NEW text \in Seq(WholePieces) \cup {Torn}, NEW edit, edit.new \in WholePieces,
           Editable(text, edit)
    PROVE  Replaced(text, edit.old, edit.new) \in Seq(WholePieces)
<1>1. CASE text = Torn
  <2>1. Occurrences(Torn, edit.old) # {}  BY <1>1 DEF Editable
  <2>2. DOMAIN Torn = 1..1 /\ Torn[1] = "torn"  BY DEF Torn
  <2>3. edit.old = "torn"  BY <2>1, <2>2 DEF Occurrences
  <2>4. Replaced(Torn, edit.old, edit.new) = [i \in 1..1 |-> edit.new]
    BY <2>2, <2>3 DEF Replaced
  <2>5. [i \in 1..1 |-> edit.new] \in Seq(WholePieces)  OBVIOUS
  <2> QED  BY <1>1, <2>4, <2>5
<1>2. CASE text \in Seq(WholePieces)
  <2>1. DOMAIN text = 1..Len(text) /\ Len(text) \in Nat  BY <1>2
  <2>2. \A i \in 1..Len(text) : (IF text[i] = edit.old THEN edit.new ELSE text[i]) \in WholePieces
    BY <1>2
  <2>3. [i \in 1..Len(text) |-> IF text[i] = edit.old THEN edit.new ELSE text[i]] \in Seq(WholePieces)
    BY <2>1, <2>2
  <2> QED  BY <2>1, <2>3 DEF Replaced
<1> QED  BY <1>1, <1>2

\* A tool begins.
LEMMA LookStays ==
    ASSUME TreeInv, Looked
    PROVE  TreeInv' /\ FileInv'
<1>1. PICK call \in FileCalls :
        call.tool \notin {"write_file", "edit_file"} /\ Look(call.tool, call.request, call.edit)
  BY DEF Looked
<1> DEFINE path == Resolve(call.request, FALSE)
<1>2. /\ call.tool \in FileTools \ {"write_file", "edit_file"}
      /\ Candidate(call.request) \in Seq(STRING)
  BY <1>1, CallsAssumption, CandidateIsPath
<1>3. path = NoPath \/ (path \in Seq(STRING) /\ Inside(path))
  BY <1>2, TreeLinks, ResolvedIsInside, Zenon
<1>4. /\ file' = [pc |-> "ended", tool |-> call.tool, request |-> call.request, edit |-> <<>>,
                  unasked |-> TRUE, path |-> path, text |-> <<>>, seen |-> {},
                  touched |-> IF path = NoPath THEN {} ELSE LookedAt(call.tool, path, call.edit)]
      /\ UNCHANGED tree
  BY <1>1 DEF Look
<1> HIDE DEF path
<1>5. \A q \in IF path = NoPath THEN {} ELSE LookedAt(call.tool, path, call.edit) : Inside(q)
  BY <1>2, <1>3, LookedAtIsInside
<1>6. DOMAIN file' = FileFields /\ file'.pc = "ended" /\ file'.tool = call.tool
      /\ file'.touched = IF path = NoPath THEN {} ELSE LookedAt(call.tool, path, call.edit)
  BY <1>4 DEF FileFields
<1>7. Touched(file')  BY <1>2, <1>5, <1>6 DEF Touched
<1>8. Use(file')  BY <1>2, <1>6, <1>7 DEF Use, FileSteps
<1>9. FileInv'  BY <1>6, <1>8 DEF FileInv
<1> QED  BY <1>4, <1>9 DEF TreeInv

LEMMA ProposeStays ==
    ASSUME TreeInv, Proposed
    PROVE  TreeInv' /\ FileInv'
<1>1. PICK call \in FileCalls, unasked \in BOOLEAN :
        /\ call.tool \in {"write_file", "edit_file"}
        /\ Propose(call.tool, call.request, call.edit, unasked)
  BY DEF Proposed
<1>2. /\ Candidate(call.request) \in Seq(STRING)
      /\ call.edit.text \in Seq(WholePieces) /\ call.edit.new \in WholePieces
  BY CallsAssumption, CandidateIsPath
<1>3. /\ DOMAIN file' = FileFields /\ file'.pc \in {"resolve", "asked"} /\ file'.tool = call.tool
      /\ file'.request = call.request /\ file'.edit = call.edit /\ file'.touched = {}
  BY <1>1 DEF Propose, FileFields
<1>4. UNCHANGED tree  BY <1>1 DEF Propose
<1>5. Use(file')
  BY <1>1, <1>2, <1>3 DEF Use, FileSteps, FileTools, Touched
<1>6. FileInv'  BY <1>3, <1>5 DEF FileInv
<1> QED  BY <1>4, <1>6 DEF TreeInv

\* A tool that ends has touched nothing it had not.
ToolEnds(f, g) ==
    /\ DOMAIN g = FileFields /\ g.pc = "ended"
    /\ g.tool = f.tool /\ g.touched = f.touched

LEMMA ToolEndsIsUse == ASSUME NEW f, Use(f), NEW g, ToolEnds(f, g) PROVE Use(g) /\ g.pc # "read"
BY DEF Use, ToolEnds, FileSteps, Touched

\* One that goes on keeps what it was asked.
AsAsked(f, g) ==
    /\ DOMAIN g = FileFields
    /\ g.tool = f.tool /\ g.request = f.request /\ g.edit = f.edit /\ g.touched = f.touched

LEMMA AnswerStays ==
    ASSUME TreeInv, Use(file), AnswerFile
    PROVE  TreeInv' /\ FileInv'
<1>1. /\ DOMAIN file' = FileFields /\ file'.pc \in {"resolve", "ended"}
      /\ AsAsked(file, file') /\ UNCHANGED tree /\ file.pc = "asked"
  BY DEF AnswerFile, Use, FileFields, AsAsked
<1>2. Use(file')  BY <1>1 DEF Use, AsAsked, FileSteps, Touched
<1> QED  BY <1>1, <1>2 DEF TreeInv, FileInv

LEMMA ResolveStays ==
    ASSUME TreeInv, Use(file), ResolveFile
    PROVE  TreeInv' /\ FileInv'
<1> DEFINE path == ResolveForWrite(file.request, file.tool = "write_file")
<1>1. /\ file.tool \in {"write_file", "edit_file"} /\ Candidate(file.request) \in Seq(STRING)
      /\ file.edit.text \in Seq(WholePieces) /\ file.edit.new \in WholePieces
      /\ DOMAIN file = FileFields
  BY DEF ResolveFile, Use
<1>2. path = NoPath \/ (path \in Seq(STRING) /\ Writable(path))
  BY <1>1, TreeLinks, WritableIsInside, Zenon
<1>3. file' = [file EXCEPT
                 !.path = path,
                 !.seen = IF path = NoPath THEN {} ELSE {At(path).text},
                 !.pc = IF path = NoPath \/ At(path).kind = "dir" THEN "ended"
                        ELSE IF file.tool = "edit_file" THEN "read" ELSE "stage",
                 !.text = IF file.tool = "edit_file" THEN @ ELSE file.edit.text]
  BY DEF ResolveFile
<1>4. UNCHANGED tree  BY DEF ResolveFile
<1> HIDE DEF path
<1>5. /\ AsAsked(file, file') /\ file'.path = path
      /\ file'.seen = IF path = NoPath THEN {} ELSE {At(path).text}
  BY <1>1, <1>3 DEF AsAsked, FileFields
<1>6. /\ file'.pc = IF path = NoPath \/ At(path).kind = "dir" THEN "ended"
                    ELSE IF file.tool = "edit_file" THEN "read" ELSE "stage"
      /\ file'.text = IF file.tool = "edit_file" THEN file.text ELSE file.edit.text
  BY <1>1, <1>3 DEF FileFields
<1>7. Touched(file')  BY <1>5 DEF Use, Touched, AsAsked
<1>8. Use(file')  BY <1>1, <1>2, <1>5, <1>6, <1>7 DEF Use, AsAsked, FileSteps, FileTools
<1>9. At(file.path)' = At(path)  BY <1>4, <1>5 DEF At
<1>10. file'.pc = "read" => At(path).text \in file'.seen  BY <1>5, <1>6
<1> QED  BY <1>4, <1>5, <1>8, <1>9, <1>10 DEF TreeInv, FileInv

LEMMA ReadStays ==
    ASSUME TreeInv, Use(file), file.pc = "read" => At(file.path).text \in file.seen, ReadForEdit
    PROVE  TreeInv' /\ FileInv'
<1>1. UNCHANGED tree /\ file.pc = "read" /\ DOMAIN file = FileFields  BY DEF ReadForEdit, Use
<1>2. TreeInv'  BY <1>1 DEF TreeInv
<1>3. CASE ~Editable(BoundedText(file.path), file.edit)
  <2>1. file' = [file EXCEPT !.pc = "ended"]  BY <1>3 DEF ReadForEdit
  <2>2. ToolEnds(file, file')  BY <1>1, <2>1 DEF ToolEnds, FileFields
  <2>3. Use(file') /\ file'.pc # "read"  BY <2>2, ToolEndsIsUse
  <2> QED  BY <1>2, <2>3 DEF FileInv
<1>4. CASE Editable(BoundedText(file.path), file.edit)
  <2> DEFINE text == At(file.path).text
  <2>1. BoundedText(file.path) = text  BY <1>4 DEF Editable, BoundedText
  <2>2. file' = [file EXCEPT !.pc = "stage",
                             !.text = Replaced(text, file.edit.old, file.edit.new)]
    BY <1>4, <2>1 DEF ReadForEdit
  <2>3. text \in Seq(WholePieces) \cup {Torn}  BY TreeTyped DEF Leaves
  <2>4. text \in file.seen  BY <1>1
  <2>5. file.edit.new \in WholePieces  BY <1>1 DEF Use
  <2>6. Editable(text, file.edit)  BY <1>4, <2>1
  <2> HIDE DEF text
  <2>7. Replaced(text, file.edit.old, file.edit.new) \in Seq(WholePieces)
    BY <2>3, <2>5, <2>6, EditIsWhole
  <2>8. /\ AsAsked(file, file') /\ file'.path = file.path /\ file'.seen = file.seen
        /\ file'.pc = "stage" /\ file'.text = Replaced(text, file.edit.old, file.edit.new)
    BY <1>1, <2>2 DEF AsAsked, FileFields
  <2>9. Edited(file')  BY <2>4, <2>8 DEF Edited, AsAsked
  <2>10. Use(file')
    BY <1>1, <2>7, <2>8, <2>9 DEF Use, AsAsked, FileSteps, Touched
  <2> QED  BY <1>2, <2>8, <2>10 DEF FileInv
<1> QED  BY <1>3, <1>4

\* The steps through the temporary file keep the text of the edit.
Onward(f, g) ==
    /\ AsAsked(f, g)
    /\ g.path = f.path /\ g.text = f.text /\ g.seen = f.seen
    /\ f.pc \in {"stage", "fill"} /\ g.pc \in {"fill", "rename"}

LEMMA OnwardIsUse == ASSUME NEW f, Use(f), NEW g, Onward(f, g) PROVE Use(g) /\ g.pc # "read"
<1>1. Edited(f) => Edited(g)  BY DEF Edited, Onward, AsAsked
<1> QED  BY <1>1 DEF Use, Onward, AsAsked, FileSteps, Touched

\* A step on the temporary file, after which the tool goes on or has ended.
LEMMA TemporaryStays ==
    ASSUME TreeInv, Use(file), file.pc \in {"stage", "fill", "rename"},
           NEW leaf \in Leaves, tree' = [tree EXCEPT ![Temporary(file.path)] = leaf],
           Onward(file, file') \/ ToolEnds(file, file')
    PROVE  TreeInv' /\ FileInv'
<1>1. file.path \in Seq(STRING)  BY DEF Use
<1>2. Last(Temporary(file.path)) = "tmp"  BY <1>1, TemporaryIsTemporary
<1>3. TreeInv'  BY <1>2, PlaceWritten DEF TreeInv
<1>4. Use(file') /\ file'.pc # "read"  BY OnwardIsUse, ToolEndsIsUse
<1> QED  BY <1>3, <1>4 DEF FileInv

LEMMA StageStays == ASSUME TreeInv, Use(file), Stage PROVE TreeInv' /\ FileInv'
<1>1. file.pc = "stage" /\ DOMAIN file = FileFields  BY DEF Stage, Use
<1>2. CASE /\ file' = [file EXCEPT !.pc = "fill"]
           /\ tree' = [tree EXCEPT ![Temporary(file.path)] = File(Torn)]
  <2>1. Onward(file, file')  BY <1>1, <1>2 DEF Onward, AsAsked, FileFields
  <2>2. File(Torn) \in Leaves  BY FileIsLeaf
  <2> QED  BY <1>1, <1>2, <2>1, <2>2, TemporaryStays
<1>3. CASE /\ file' = [file EXCEPT !.pc = "ended"]
           /\ tree' = [tree EXCEPT ![Temporary(file.path)] = Nothing_]
  <2>1. ToolEnds(file, file')  BY <1>1, <1>3 DEF ToolEnds, FileFields
  <2> QED  BY <1>1, <1>3, <2>1, FileIsLeaf, TemporaryStays
<1> QED  BY <1>2, <1>3 DEF Stage

LEMMA FillStays == ASSUME TreeInv, Use(file), Fill PROVE TreeInv' /\ FileInv'
<1>1. file.pc = "fill" /\ DOMAIN file = FileFields  BY DEF Fill, Use
<1>2. CASE /\ file' = [file EXCEPT !.pc = "rename"]
           /\ tree' = [tree EXCEPT ![Temporary(file.path)] = File(file.text)]
  <2>1. Onward(file, file')  BY <1>1, <1>2 DEF Onward, AsAsked, FileFields
  <2>2. file.text \in Seq(WholePieces)  BY <1>1 DEF Use
  <2>3. File(file.text) \in Leaves  BY <2>2, FileIsLeaf
  <2> QED  BY <1>1, <1>2, <2>1, <2>3, TemporaryStays
<1>3. CASE /\ file' = [file EXCEPT !.pc = "ended"]
           /\ tree' = [tree EXCEPT ![Temporary(file.path)] = Nothing_]
  <2>1. ToolEnds(file, file')  BY <1>1, <1>3 DEF ToolEnds, FileFields
  <2> QED  BY <1>1, <1>3, <2>1, FileIsLeaf, TemporaryStays
<1> QED  BY <1>2, <1>3 DEF Fill

LEMMA RenameStays == ASSUME TreeInv, Use(file), Rename PROVE TreeInv' /\ FileInv'
<1>1. file.pc = "rename" /\ DOMAIN file = FileFields  BY DEF Rename, Use
<1>2. CASE /\ file' = [file EXCEPT !.pc = "ended", !.touched = @ \cup {file.path}]
           /\ tree' = [tree EXCEPT ![file.path] = File(file.text),
                                   ![Temporary(file.path)] = Nothing_]
  <2> DEFINE replaced == [tree EXCEPT ![file.path] = File(file.text)]
  <2>1. tree' = [replaced EXCEPT ![Temporary(file.path)] = Nothing_]  BY <1>2
  <2>2. file.text \in Seq(WholePieces) /\ file.path \in Seq(STRING) /\ Writable(file.path)
    BY <1>1 DEF Use
  <2>3. File(file.text) \in Leaves /\ File(file.text).text # Torn
    BY <2>2, FileIsLeaf, WholeIsNotTorn
  <2>4. /\ replaced \in [Places -> Leaves]
        /\ \A q \in Places : Last(q) # "tmp" => replaced[q].text # Torn
    BY <2>3, PlaceWritten
  <2> HIDE DEF replaced
  <2>5. TreeInv'  BY <2>1, <2>4, FileIsLeaf DEF TreeInv
  <2>6. /\ DOMAIN file' = FileFields /\ file'.pc = "ended" /\ file'.tool = file.tool
        /\ file'.touched = file.touched \cup {file.path}
    BY <1>1, <1>2 DEF FileFields
  <2>7. Inside(file.path)  BY <2>2 DEF Inside, Writable
  <2>8. Touched(file')  BY <2>2, <2>6, <2>7 DEF Touched, Use
  <2>9. Use(file')  BY <2>6, <2>8 DEF Use, FileSteps
  <2> QED  BY <2>5, <2>6, <2>9 DEF FileInv
<1>3. CASE /\ file' = [file EXCEPT !.pc = "ended"]
           /\ tree' = [tree EXCEPT ![Temporary(file.path)] = Nothing_]
  <2>1. ToolEnds(file, file')  BY <1>1, <1>3 DEF ToolEnds, FileFields
  <2> QED  BY <1>1, <1>3, <2>1, FileIsLeaf, TemporaryStays
<1> QED  BY <1>2, <1>3 DEF Rename

\* Another program's text is seen if it is the file's.
LEMMA MeddleStays ==
    ASSUME TreeInv, Use(file), file.pc = "read" => At(file.path).text \in file.seen, Meddle
    PROVE  TreeInv' /\ FileInv'
<1>1. PICK p \in Places, content \in {Nothing_} \cup {File(t) : t \in Texts} :
        /\ tree' = [tree EXCEPT ![p] = content]
        /\ file' = IF file.path = p THEN [file EXCEPT !.seen = @ \cup {content.text}] ELSE file
  BY DEF Meddle
<1>2. content \in Leaves /\ content.text # Torn
  <2>1. CASE content = Nothing_  BY <2>1, FileIsLeaf
  <2>2. CASE content # Nothing_
    <3>1. PICK t \in Texts : content = File(t)  BY <2>2
    <3>2. t \in Seq(WholePieces)  BY FilesAssumption
    <3> QED  BY <3>1, <3>2, FileIsLeaf, WholeIsNotTorn
  <2> QED  BY <2>1, <2>2
<1>3. TreeInv'  BY <1>1, <1>2, PlaceWritten DEF TreeInv
<1>4. CASE file.path # p
  <2>1. file' = file  BY <1>1, <1>4
  <2>2. At(file.path)' = At(file.path)  BY <1>1, <1>4, <2>1 DEF At, TreeInv
  <2> QED  BY <1>3, <2>1, <2>2 DEF FileInv
<1>5. CASE file.path = p
  <2>1. DOMAIN file = FileFields  BY DEF Use
  <2>2. /\ AsAsked(file, file') /\ file'.pc = file.pc /\ file'.path = file.path
        /\ file'.text = file.text /\ file'.seen = file.seen \cup {content.text}
    BY <1>1, <1>5, <2>1 DEF AsAsked, FileFields
  <2>3. Edited(file) => Edited(file')  BY <2>2 DEF Edited, AsAsked
  <2>4. Use(file')  BY <2>2, <2>3 DEF Use, AsAsked, Touched
  <2>5. At(file.path)' = content  BY <1>1, <1>5, <2>2 DEF At, TreeInv
  <2> QED  BY <1>3, <2>2, <2>4, <2>5 DEF FileInv
<1> QED  BY <1>4, <1>5

LEMMA FilesInit == Init => FilesInv
<1> SUFFICES ASSUME Init PROVE FilesInv  OBVIOUS
<1>1. tree \in FirstTrees /\ file = IdleFile  BY DEF Init, FileInit
<1>2. tree \in [Places -> Contents]  BY <1>1, FilesAssumption
<1>3. \A content \in Contents : content \in Leaves /\ content.text # Torn
  BY WholeIsNotTorn DEF Contents, Leaves
<1>4. TreeInv  BY <1>2, <1>3 DEF TreeInv
<1> QED  BY <1>1, <1>4 DEF FilesInv, FileInv, OneCall

LEMMA FilesStay == FilesInv /\ [Next]_vars => FilesInv'
<1> SUFFICES ASSUME FilesInv, [Next]_vars PROVE FilesInv'  OBVIOUS
<1>0. OneCall /\ TreeInv /\ FileInv  BY DEF FilesInv
<1>1. OneCall'  BY <1>0, OneCallStays
<1>2. CASE UNCHANGED <<tree, file>>
  <2>1. At(file.path)' = At(file.path)  BY <1>2 DEF At
  <2>2. FileInv'  BY <1>0, <1>2, <2>1 DEF FileInv
  <2> QED  BY <1>0, <1>1, <1>2, <2>2 DEF FilesInv, TreeInv
<1>3. CASE file = IdleFile
  <2>1. IdleMove  BY <1>3, IdleMoves
  <2>2. UNCHANGED <<tree, file>> \/ Proposed \/ Looked  BY <2>1 DEF IdleMove
  <2> QED  BY <1>0, <1>1, <1>2, <2>2, LookStays, ProposeStays DEF FilesInv
<1>4. CASE file # IdleFile
  <2>1. FileMove  BY <1>0, <1>4, FileMoves
  <2>2. Use(file) /\ (file.pc = "read" => At(file.path).text \in file.seen)
    BY <1>0, <1>4 DEF FileInv
  <2>3. CASE FileStep \/ AnswerFile \/ Meddle
    BY <1>0, <1>1, <2>2, <2>3, AnswerStays, ResolveStays, ReadStays, StageStays, FillStays,
       RenameStays, MeddleStays DEF FileStep, FilesInv
  <2>4. CASE file' = IdleFile /\ UNCHANGED tree
    BY <1>0, <1>1, <2>4 DEF FilesInv, TreeInv, FileInv
  <2> QED  BY <1>2, <2>1, <2>3, <2>4 DEF FileMove
<1> QED  BY <1>3, <1>4

\* Whatever links lead where, and whatever other programs write, no file
\* outside the workspace and its additional directories is looked at or
\* changed, and none in a .git of theirs is changed (workspace.rs).
THEOREM ToolsStayInside == Spec => []StaysInside
<1>1. FilesInv => StaysInside
  BY DEF FilesInv, FileInv, Use, Touched, Inside, Writable, StaysInside
<1> QED  BY FilesInit, FilesStay, <1>1, PTL DEF Spec

\* However the steps of a write or an edit, the changes of other programs and a
\* crash follow each other, no file is left half written, and an edit is made on
\* a text the file had since its path was resolved.
THEOREM EditsAreOnWhatIs == Spec => []EditsAreCurrent
<1>1. FilesInv => EditsAreCurrent
  <2> SUFFICES ASSUME FilesInv PROVE EditsAreCurrent  OBVIOUS
  <2>1. \A p \in Places : Last(p) # "tmp" => tree[p].text # Torn  BY DEF FilesInv, TreeInv
  <2>2. file # IdleFile /\ file.tool = "edit_file" /\ file.pc \in {"stage", "fill", "rename"} =>
          Edited(file)
    BY DEF FilesInv, FileInv, Use
  <2> QED  BY <2>1, <2>2 DEF EditsAreCurrent, Edited
<1> QED  BY FilesInit, FilesStay, <1>1, PTL DEF Spec

(***************************************************************************)
(* The tree as a tree                                                      *)
(***************************************************************************)
\* A place is written below a directory.
FileShape ==
    file # IdleFile =>
        /\ file.pc \in {"read", "stage", "fill", "rename"} => At(file.path).kind # "dir"
        /\ file.pc \in {"fill", "rename"} => IsDirectory(Front(file.path))

ShapeInv == FilesInv /\ IsTree(tree) /\ FileShape

\* A place may be in a tree if all above it are directories.
Above(places, p) ==
    \A n \in 1..(Len(p) - 1) : SubSeq(p, 1, n) \in Places /\ places[SubSeq(p, 1, n)].kind = "dir"

\* A place that is no directory is emptied or, below directories, made a file.
Put(places, p, leaf) == [places EXCEPT ![p] = leaf]

MayPut(places, p, leaf) ==
    /\ DOMAIN places = Places
    /\ leaf.kind \in {"nothing", "file"}
    /\ p \in Places => places[p].kind # "dir"
    /\ leaf.kind = "file" => Above(places, p)

LEMMA PlaceShaped ==
    ASSUME NEW places, NEW p, NEW leaf, IsTree(places), MayPut(places, p, leaf)
    PROVE  IsTree(Put(places, p, leaf))
<1> DEFINE other == Put(places, p, leaf)
<1>1. \A q \in Places : other[q] = IF q = p THEN leaf ELSE places[q]  BY DEF MayPut, Put
<1> HIDE DEF other
<1>0. /\ leaf.kind \in {"nothing", "file"}
      /\ p \in Places => places[p].kind # "dir"
      /\ leaf.kind = "file" => Above(places, p)
  BY DEF MayPut
<1>2. ASSUME NEW q \in Places, other[q].kind # "nothing" PROVE Above(other, q)
  <2>1. Above(places, q)
    <3>1. CASE q = p  BY <1>0, <1>1, <1>2, <3>1
    <3>2. CASE q # p  BY <1>1, <1>2, <3>2 DEF IsTree, Above
    <3> QED  BY <3>1, <3>2
  <2> SUFFICES ASSUME NEW n \in 1..(Len(q) - 1)
               PROVE  SubSeq(q, 1, n) \in Places /\ other[SubSeq(q, 1, n)].kind = "dir"
    BY DEF Above
  <2> DEFINE r == SubSeq(q, 1, n)
  <2>2. r \in Places /\ places[r].kind = "dir"  BY <2>1 DEF Above
  <2> HIDE DEF r
  <2>3. r # p  BY <1>0, <2>2
  <2>4. other[r] = places[r]  BY <1>1, <2>2, <2>3
  <2>5. r \in Places /\ other[r].kind = "dir"  BY <2>2, <2>4
  <2> QED  BY <2>5 DEF r
<1>3. ASSUME NEW q \in Places, Last(q) = "tmp" PROVE other[q].kind # "dir"
  <2>1. CASE q = p  BY <1>0, <1>1, <2>1
  <2>2. CASE q # p  BY <1>1, <1>3, <2>2 DEF IsTree
  <2> QED  BY <2>1, <2>2
<1>4. IsTree(other)  BY <1>2, <1>3 DEF IsTree, Above
<1> QED  BY <1>4 DEF other

\* What is in a directory of a tree is below directories only.
LEMMA InDirectory ==
    ASSUME IsTree(tree), NEW S, NEW path \in Seq(S), IsDirectory(Front(path))
    PROVE  Above(tree, path)
<1> SUFFICES ASSUME NEW n \in 1..(Len(path) - 1)
             PROVE  SubSeq(path, 1, n) \in Places /\ tree[SubSeq(path, 1, n)].kind = "dir"
  BY DEF Above
<1> DEFINE front == Front(path)
<1>0. Len(path) \in Nat /\ n \in Nat /\ n >= 1 /\ n <= Len(path) - 1  OBVIOUS
<1>1. /\ front \in Seq(S) /\ Len(front) = Len(path) - 1
      /\ \A i \in 1..Len(front) : front[i] = path[i]
  BY DEF Front
<1>2. front # <<>>  BY <1>1
<1>3. SubSeq(path, 1, n) = SubSeq(front, 1, n)
  <2> DEFINE a == SubSeq(path, 1, n)
             b == SubSeq(front, 1, n)
  <2>1. a \in Seq(S) /\ Len(a) = n /\ \A i \in 1..n : a[i] = path[i]  OBVIOUS
  <2> HIDE DEF front
  <2>2. b \in Seq(S) /\ Len(b) = n /\ \A i \in 1..n : b[i] = front[i]  BY <1>0, <1>1
  <2> HIDE DEF a, b
  <2>3. \A i \in 1..n : a[i] = b[i]
    <3> TAKE i \in 1..n
    <3>1. i \in 1..Len(front)  BY <1>0, <1>1
    <3> QED  BY <1>1, <2>1, <2>2, <3>1
  <2>4. a = b  BY <2>1, <2>2, <2>3
  <2> QED  BY <2>4 DEF a, b
<1> HIDE DEF front
<1>4. front \in Places /\ tree[front].kind = "dir"
  <2>1. At(front).kind = "dir"  BY <1>2 DEF IsDirectory, front
  <2> QED  BY <2>1 DEF At, Nothing_
<1>5. CASE n = Len(front)
  <2>1. SubSeq(front, 1, n) = front  BY <1>1, <1>5
  <2> QED  BY <1>3, <1>4, <2>1
<1>6. CASE n # Len(front)
  <2>1. n \in 1..(Len(front) - 1)  BY <1>1, <1>6
  <2>2. SubSeq(front, 1, n) \in Places /\ tree[SubSeq(front, 1, n)].kind = "dir"
    BY <1>4, <2>1 DEF IsTree
  <2> QED  BY <1>3, <2>2
<1> QED  BY <1>5, <1>6

\* A temporary file is beside its file.
LEMMA TemporaryBeside ==
    ASSUME NEW path \in Seq(STRING)
    PROVE  /\ Temporary(path) \in Seq(STRING \cup {"tmp"})
           /\ Front(Temporary(path)) = Front(path)
           /\ Front(path) # Temporary(path)
<1> DEFINE S == STRING \cup {"tmp"}
           front == Front(path)
           name == "tmp"
<1>1. path \in Seq(S) /\ name \in S  OBVIOUS
<1> HIDE DEF S, name
<1>2. front \in Seq(S)  BY <1>1, FrontIsPath, Zenon
<1> HIDE DEF front
<1> DEFINE longer == Append(front, name)
<1>3. longer \in Seq(S) /\ Len(longer) = Len(front) + 1  BY <1>1, <1>2
<1>4. SubSeq(longer, 1, Len(front)) = front  BY <1>1, <1>2
<1> HIDE DEF longer
<1>5. Front(longer) = front
  <2>1. Front(longer) = SubSeq(longer, 1, Len(longer) - 1)  BY DEF Front
  <2>2. Len(longer) - 1 = Len(front)  BY <1>2, <1>3
  <2> QED  BY <1>4, <2>1, <2>2
<1>6. front # longer
  <2>1. Len(front) # Len(longer)  BY <1>2, <1>3
  <2> QED  BY <2>1
<1> QED  BY <1>3, <1>5, <1>6 DEF front, longer, name, S, Temporary

\* The steps of a tool keep the tree one.
LEMMA LookupsShape ==
    ASSUME TreeInv, Use(file), IsTree(tree), file # IdleFile, FileShape,
           ResolveFile \/ ReadForEdit \/ AnswerFile
    PROVE  IsTree(tree') /\ FileShape'
<1>1. DOMAIN file = FileFields  BY DEF Use
<1>2. UNCHANGED tree  BY DEF ResolveFile, ReadForEdit, AnswerFile
<1>3. \A path : At(path)' = At(path)  BY <1>2 DEF At
<1>4. CASE ResolveFile
  <2>1. PICK path : file' = [file EXCEPT
                   !.path = path,
                   !.seen = IF path = NoPath THEN {} ELSE {At(path).text},
                   !.pc = IF path = NoPath \/ At(path).kind = "dir" THEN "ended"
                          ELSE IF file.tool = "edit_file" THEN "read" ELSE "stage",
                   !.text = IF file.tool = "edit_file" THEN @ ELSE file.edit.text]
    BY <1>4 DEF ResolveFile
  <2>2. file'.path = path
    /\ file'.pc = IF path = NoPath \/ At(path).kind = "dir" THEN "ended"
                  ELSE IF file.tool = "edit_file" THEN "read" ELSE "stage"
    BY <1>1, <2>1 DEF FileFields
  <2>3. At(file.path)' = At(path)  BY <1>2, <2>2 DEF At
  <2> QED  BY <1>2, <2>2, <2>3 DEF FileShape
<1>5. CASE ReadForEdit
  <2>1. file'.path = file.path /\ file'.pc \in {"stage", "ended"} /\ file.pc = "read"
    BY <1>1, <1>5 DEF ReadForEdit, FileFields
  <2>2. At(file.path)' = At(file.path)  BY <1>2, <2>1 DEF At
  <2> QED  BY <1>2, <2>1, <2>2 DEF FileShape
<1>6. CASE AnswerFile
  <2>1. file'.pc \in {"resolve", "ended"}  BY <1>1, <1>6 DEF AnswerFile, FileFields
  <2> QED  BY <1>2, <2>1 DEF FileShape
<1> QED  BY <1>4, <1>5, <1>6

\* A step on the temporary file: it is made in a directory, or emptied.
OnTemporary(leaf) ==
    /\ file.pc \in {"stage", "fill", "rename"}
    /\ leaf.kind \in {"nothing", "file"}
    /\ leaf.kind = "file" => IsDirectory(Front(file.path))
    /\ tree' = Put(tree, Temporary(file.path), leaf)

LEMMA TemporaryShape ==
    ASSUME TreeInv, Use(file), IsTree(tree), NEW leaf, OnTemporary(leaf)
    PROVE  /\ IsTree(tree')
           /\ At(file.path).kind # "dir" /\ file'.path = file.path => At(file.path)'.kind # "dir"
           /\ IsDirectory(Front(file.path)) /\ file'.path = file.path =>
                 IsDirectory(Front(file.path))'
<1> DEFINE q == Temporary(file.path)
<1>0. /\ leaf.kind \in {"nothing", "file"}
      /\ leaf.kind = "file" => IsDirectory(Front(file.path))
      /\ tree' = Put(tree, q, leaf)
  BY DEF OnTemporary
<1>1. file.path \in Seq(STRING) /\ DOMAIN tree = Places  BY DEF Use, TreeInv, OnTemporary
<1>2. Last(q) = "tmp"  BY <1>1, TemporaryIsTemporary
<1>3. q \in Places => tree[q].kind # "dir"  BY <1>2 DEF IsTree
<1>4. leaf.kind = "file" => Above(tree, q)
  <2>1. q \in Seq(STRING \cup {"tmp"}) /\ Front(q) = Front(file.path)  BY <1>1, TemporaryBeside
  <2> HIDE DEF q
  <2>2. ASSUME IsDirectory(Front(file.path)) PROVE Above(tree, q)
    <3>1. IsDirectory(Front(q))  BY <2>1, <2>2
    <3> DEFINE S == STRING \cup {"tmp"}
    <3>2. q \in Seq(S)  BY <2>1
    <3> HIDE DEF S
    <3> QED  BY <3>1, <3>2, InDirectory
  <2> QED  BY <1>0, <2>2
<1>5. Front(file.path) # q  BY <1>1, TemporaryBeside
<1> HIDE DEF q
<1>6. MayPut(tree, q, leaf)  BY <1>0, <1>1, <1>3, <1>4 DEF MayPut
<1>7. IsTree(tree')  BY <1>0, <1>6, PlaceShaped
<1>8. \A p \in Places : tree'[p] = IF p = q THEN leaf ELSE tree[p]  BY <1>0, <1>1 DEF Put
<1>10. \A p : At(p).kind # "dir" => (IF p \in Places THEN tree'[p] ELSE Nothing_).kind # "dir"
  BY <1>0, <1>8 DEF At, Nothing_
<1>11. IsDirectory(Front(file.path)) /\ file'.path = file.path => IsDirectory(Front(file.path))'
  BY <1>5, <1>8 DEF IsDirectory, At
<1>12. At(file.path).kind # "dir" /\ file'.path = file.path => At(file.path)'.kind # "dir"
  BY <1>10 DEF At
<1> QED  BY <1>7, <1>11, <1>12

LEMMA StagesShape ==
    ASSUME TreeInv, Use(file), IsTree(tree), file # IdleFile, FileShape, Stage \/ Fill
    PROVE  IsTree(tree') /\ FileShape'
<1>1. DOMAIN file = FileFields /\ file.pc \in {"stage", "fill"}  BY DEF Use, Stage, Fill
<1>2. \A text : File(text).kind = "file"  BY DEF File
<1>3. Nothing_.kind = "nothing"  BY DEF Nothing_
<1>4. PICK leaf :
        /\ OnTemporary(leaf)
        /\ \/ file' = [file EXCEPT !.pc = "ended"]
           \/ /\ IsDirectory(Front(file.path))
              /\ \/ file' = [file EXCEPT !.pc = "fill"]
                 \/ file' = [file EXCEPT !.pc = "rename"]
  <2> USE <1>1 DEF OnTemporary, Put
  <2>1. CASE Stage
    <3>1. CASE file' = [file EXCEPT !.pc = "ended"] /\ tree' = [tree EXCEPT ![Temporary(file.path)] = Nothing_]
      BY <1>3, <3>1
    <3>2. CASE /\ IsDirectory(Front(file.path))
               /\ file' = [file EXCEPT !.pc = "fill"]
               /\ tree' = [tree EXCEPT ![Temporary(file.path)] = File(Torn)]
      BY <1>2, <3>2
    <3> QED  BY <2>1, <3>1, <3>2 DEF Stage
  <2>2. CASE Fill
    <3>0. IsDirectory(Front(file.path))  BY <2>2 DEF Fill, FileShape
    <3>1. CASE file' = [file EXCEPT !.pc = "ended"] /\ tree' = [tree EXCEPT ![Temporary(file.path)] = Nothing_]
      BY <1>3, <3>1
    <3>2. CASE /\ file' = [file EXCEPT !.pc = "rename"]
               /\ tree' = [tree EXCEPT ![Temporary(file.path)] = File(file.text)]
      BY <1>2, <3>0, <3>2
    <3> QED  BY <2>2, <3>1, <3>2 DEF Fill
  <2> QED  BY <2>1, <2>2
<1>5. /\ IsTree(tree')
      /\ At(file.path).kind # "dir" /\ file'.path = file.path => At(file.path)'.kind # "dir"
      /\ IsDirectory(Front(file.path)) /\ file'.path = file.path => IsDirectory(Front(file.path))'
  BY <1>4, TemporaryShape
<1>6. file'.path = file.path /\ (file'.pc = "ended" \/ (IsDirectory(Front(file.path)) /\ file'.pc \in {"fill", "rename"}))
  BY <1>1, <1>4 DEF FileFields
<1>7. At(file.path).kind # "dir"  BY <1>1 DEF FileShape
<1> QED  BY <1>5, <1>6, <1>7 DEF FileShape

LEMMA RenameShape ==
    ASSUME TreeInv, Use(file), IsTree(tree), file # IdleFile, FileShape, Rename
    PROVE  IsTree(tree') /\ FileShape'
<1>1. DOMAIN file = FileFields /\ file.pc = "rename" /\ DOMAIN tree = Places /\ file.path \in Seq(STRING)
  BY DEF Use, Rename, TreeInv
<1>2. file'.pc = "ended"  BY <1>1 DEF Rename, FileFields
<1>3. FileShape'  BY <1>2 DEF FileShape
<1>4. Nothing_.kind = "nothing" /\ File(file.text).kind = "file"  BY DEF Nothing_, File
<1>5. CASE tree' = [tree EXCEPT ![Temporary(file.path)] = Nothing_]
  <2>1. OnTemporary(Nothing_)  BY <1>1, <1>4, <1>5 DEF OnTemporary, Put
  <2> QED  BY <1>3, <2>1, TemporaryShape
<1>6. CASE tree' = [tree EXCEPT ![file.path] = File(file.text), ![Temporary(file.path)] = Nothing_]
  <2> DEFINE leaf == File(file.text)
             q == Temporary(file.path)
             replaced == Put(tree, file.path, leaf)
  <2>1. tree' = Put(replaced, q, Nothing_)  BY <1>6 DEF Put
  <2>2. Above(tree, file.path)  BY <1>1, InDirectory DEF FileShape
  <2>3. file.path \in Places => tree[file.path].kind # "dir"  BY <1>1 DEF FileShape, At
  <2>4. IsTree(replaced)
    <3>1. MayPut(tree, file.path, leaf)  BY <1>1, <1>4, <2>2, <2>3 DEF MayPut
    <3> HIDE DEF leaf
    <3> QED  BY <3>1, PlaceShaped
  <2>5. DOMAIN replaced = Places  BY <1>1 DEF Put
  <2>6. Last(q) = "tmp"  BY <1>1, TemporaryIsTemporary
  <2> HIDE DEF replaced, q
  <2>7. q \in Places => replaced[q].kind # "dir"  BY <2>4, <2>6 DEF IsTree
  <2>8. MayPut(replaced, q, Nothing_)  BY <1>4, <2>5, <2>7 DEF MayPut
  <2>9. IsTree(Put(replaced, q, Nothing_))  BY <2>4, <2>8, PlaceShaped
  <2> QED  BY <1>3, <2>1, <2>9
<1> QED  BY <1>3, <1>5, <1>6 DEF Rename

LEMMA MeddleShape ==
    ASSUME TreeInv, Use(file), IsTree(tree), file # IdleFile, FileShape, Meddle
    PROVE  IsTree(tree') /\ FileShape'
<1>1. PICK p \in Places, content \in {Nothing_} \cup {File(t) : t \in Texts} :
        /\ tree[p].kind = "file"
        /\ tree' = [tree EXCEPT ![p] = content]
        /\ file' = IF file.path = p THEN [file EXCEPT !.seen = @ \cup {content.text}] ELSE file
  BY DEF Meddle
<1>2. content.kind \in {"nothing", "file"}  BY DEF Nothing_, File
<1>3. DOMAIN file = FileFields /\ DOMAIN tree = Places  BY DEF Use, TreeInv
<1>4. Above(tree, p)  BY <1>1 DEF IsTree, Above
<1>5. IsTree(tree')
  <2>1. MayPut(tree, p, content)  BY <1>1, <1>2, <1>3, <1>4 DEF MayPut
  <2>2. tree' = Put(tree, p, content)  BY <1>1 DEF Put
  <2> QED  BY <2>1, <2>2, PlaceShaped
<1>6. file'.pc = file.pc /\ file'.path = file.path  BY <1>1, <1>3 DEF FileFields
<1>7. At(file.path).kind # "dir" => At(file.path)'.kind # "dir"
  BY <1>1, <1>2, <1>3, <1>6 DEF At
<1>8. IsDirectory(Front(file.path)) => IsDirectory(Front(file.path))'
  BY <1>1, <1>3, <1>6 DEF At, IsDirectory
<1> QED  BY <1>1, <1>5, <1>6, <1>7, <1>8 DEF FileShape

LEMMA ShapeInit == Init => ShapeInv
<1> SUFFICES ASSUME Init PROVE ShapeInv  OBVIOUS
<1>1. tree \in FirstTrees /\ file = IdleFile  BY DEF Init, FileInit
<1> QED  BY <1>1, FilesInit, FilesAssumption DEF ShapeInv, FileShape

LEMMA ShapeStays == ShapeInv /\ [Next]_vars => ShapeInv'
<1> SUFFICES ASSUME ShapeInv, [Next]_vars PROVE ShapeInv'  OBVIOUS
<1>0. FilesInv /\ OneCall /\ TreeInv /\ FileInv /\ IsTree(tree) /\ FileShape
  BY DEF ShapeInv, FilesInv
<1>1. FilesInv'  BY <1>0, FilesStay
<1>2. CASE UNCHANGED <<tree, file>>
  <2>1. \A p : At(p)' = At(p)  BY <1>2 DEF At
  <2>2. At(file.path)' = At(file.path)  BY <1>2 DEF At
  <2>3. FileShape'  BY <1>0, <1>2, <2>2 DEF FileShape, IsDirectory, At
  <2> QED  BY <1>0, <1>1, <1>2, <2>3 DEF ShapeInv
<1>3. CASE file = IdleFile
  <2>1. IdleMove  BY <1>3, IdleMoves
  <2>2. UNCHANGED <<tree, file>> \/ Proposed \/ Looked  BY <2>1 DEF IdleMove
  <2>3. CASE Proposed \/ Looked
    <3>1. UNCHANGED tree /\ file'.pc \in {"resolve", "asked", "ended"}
      <4>1. CASE Proposed  BY <4>1 DEF Proposed, Propose
      <4>2. CASE Looked
        <5>1. PICK call \in FileCalls : Look(call.tool, call.request, call.edit)  BY <4>2 DEF Looked
        <5> QED  BY <5>1 DEF Look
      <4> QED  BY <2>3, <4>1, <4>2
    <3>2. FileShape'  BY <3>1 DEF FileShape
    <3> QED  BY <1>0, <1>1, <3>1, <3>2 DEF ShapeInv
  <2> QED  BY <1>2, <2>2, <2>3
<1>4. CASE file # IdleFile
  <2>1. FileMove  BY <1>0, <1>4, FileMoves
  <2>2. Use(file)  BY <1>0, <1>4 DEF FileInv
  <2>3. CASE FileStep \/ AnswerFile \/ Meddle
    <3>1. IsTree(tree') /\ FileShape'
      BY <1>0, <1>4, <2>2, <2>3, LookupsShape, StagesShape, RenameShape, MeddleShape DEF FileStep
    <3> QED  BY <1>1, <3>1 DEF ShapeInv
  <2>4. CASE file' = IdleFile /\ UNCHANGED tree
    BY <1>0, <1>1, <2>4 DEF ShapeInv, FileShape
  <2> QED  BY <1>2, <2>1, <2>3, <2>4 DEF FileMove
<1> QED  BY <1>3, <1>4

(***************************************************************************)
(* What a path leads to, and what is there                                 *)
(***************************************************************************)
LEMMA BelowTop ==
    ASSUME NEW n \in Nat, NEW f \in 1..n, f # n
    PROVE  f \in Nat /\ 1 <= f /\ f <= n /\ f < n /\ f \in 1..(n - 1) /\ n - f \in Nat /\ n - f >= 1
OBVIOUS

LEMMA FrontOf ==
    ASSUME NEW S, NEW path \in Seq(S), path # <<>>
    PROVE  /\ Front(path) \in Seq(S) /\ Len(Front(path)) = Len(path) - 1
           /\ \A i \in 1..(Len(path) - 1) : Front(path)[i] = path[i]
           /\ Append(Front(path), Last(path)) = path
           /\ \A n \in 1..(Len(path) - 1) : SubSeq(Front(path), 1, n) = SubSeq(path, 1, n)
<1> DEFINE front == Front(path)
<1>0. Len(path) \in Nat /\ Len(path) >= 1  OBVIOUS
<1>1. /\ front \in Seq(S) /\ Len(front) = Len(path) - 1
      /\ \A i \in 1..(Len(path) - 1) : front[i] = path[i]
  <2> DEFINE n == Len(path) - 1
  <2>1. n \in Nat /\ n <= Len(path)  BY <1>0
  <2>2. front = SubSeq(path, 1, n)  BY DEF Front
  <2> HIDE DEF n, front
  <2>3. SubSeq(path, 1, n) \in Seq(S) /\ Len(SubSeq(path, 1, n)) = n  BY <1>0, <2>1
  <2>4. \A i \in 1..n : SubSeq(path, 1, n)[i] = path[i]  BY <1>0, <2>1
  <2> QED  BY <2>2, <2>3, <2>4 DEF n
<1>2. Last(path) = path[Len(path)] /\ Last(path) \in S  BY <1>0 DEF Last
<1> HIDE DEF front
<1>3. Append(front, Last(path)) = path
  <2> DEFINE whole == Append(front, Last(path))
             last == Last(path)
  <2>1. last \in S  BY <1>2
  <2> HIDE DEF last
  <2>2. /\ Append(front, last) \in Seq(S) /\ Len(Append(front, last)) = Len(path)
        /\ \A i \in 1..Len(front) : Append(front, last)[i] = front[i]
        /\ Append(front, last)[Len(front) + 1] = last
    BY <1>0, <1>1, <2>1
  <2>3. \A i \in 1..Len(path) : Append(front, last)[i] = path[i]
    <3> TAKE i \in 1..Len(path)
    <3>1. CASE i = Len(path)  BY <1>0, <1>1, <1>2, <2>2, <3>1 DEF last
    <3>2. CASE i # Len(path)
      <4>1. i \in 1..(Len(path) - 1) /\ i \in 1..Len(front)  BY <1>0, <1>1, <3>2
      <4> QED  BY <1>1, <2>2, <4>1
    <3> QED  BY <3>1, <3>2
  <2>4. Append(front, last) = path
    <3> DEFINE w == Append(front, last)
    <3>1. w \in Seq(S) /\ Len(w) = Len(path) /\ \A i \in 1..Len(path) : w[i] = path[i]
      BY <2>2, <2>3
    <3> HIDE DEF w
    <3>2. w = path  BY <3>1
    <3> QED  BY <3>2 DEF w
  <2> QED  BY <2>4 DEF last
<1>4. ASSUME NEW n \in 1..(Len(path) - 1) PROVE SubSeq(front, 1, n) = SubSeq(path, 1, n)
  <2> DEFINE a == SubSeq(path, 1, n)
             b == SubSeq(front, 1, n)
  <2>0. n \in Nat /\ n >= 1 /\ n <= Len(path) - 1  BY <1>0
  <2>1. a \in Seq(S) /\ Len(a) = n /\ \A i \in 1..n : a[i] = path[i]  BY <2>0
  <2>2. b \in Seq(S) /\ Len(b) = n /\ \A i \in 1..n : b[i] = front[i]  BY <1>1, <2>0
  <2> HIDE DEF a, b
  <2>3. \A i \in 1..n : a[i] = b[i]
    <3> TAKE i \in 1..n
    <3>1. i \in 1..(Len(path) - 1)  BY <1>0, <2>0
    <3> QED  BY <1>1, <2>1, <2>2, <3>1
  <2>4. a = b  BY <2>1, <2>2, <2>3
  <2> QED  BY <2>4 DEF a, b
<1> QED  BY <1>1, <1>3, <1>4 DEF front

\* Following a path replaces what is before its first link.
LinkAt(path, n) == At(SubSeq(path, 1, n)).kind = "link"

LEMMA FollowedFirst ==
    ASSUME NEW path, NEW first \in DOMAIN path, DOMAIN path \subseteq Nat, LinkAt(path, first),
           \A m \in DOMAIN path : LinkAt(path, m) => first <= m
    PROVE  Followed(path) =
             At(SubSeq(path, 1, first)).to \o SubSeq(path, first + 1, Len(path))
<1> DEFINE links == {n \in DOMAIN path : At(SubSeq(path, 1, n)).kind = "link"}
           least == CHOOSE n \in links : \A m \in links : n <= m
<1>1. Followed(path) = IF links = {} THEN path
                       ELSE At(SubSeq(path, 1, least)).to \o SubSeq(path, least + 1, Len(path))
  BY DEF Followed
<1>2. first \in links /\ \A m \in links : first <= m  BY DEF LinkAt
<1>3. links \subseteq Nat  OBVIOUS
<1> HIDE DEF links
<1>4. least \in links /\ \A m \in links : least <= m  BY <1>2
<1> HIDE DEF least
<1>5. least = first  BY <1>2, <1>3, <1>4
<1> QED  BY <1>1, <1>2, <1>5

LEMMA FollowedNowhere ==
    ASSUME NEW path, \A m \in DOMAIN path : ~LinkAt(path, m)
    PROVE  Followed(path) = path
BY DEF Followed, LinkAt

\* The front of a path is followed as the path is, unless it is the path itself
\* that is a link.
Alike(path) ==
    /\ Followed(path) # <<>>
    /\ Followed(Front(path)) = Front(Followed(path))
    /\ Last(Followed(path)) = Last(path)

Ends(path) == At(path).kind = "link" /\ Followed(Front(path)) = Front(path)

LEMMA JoinedFront ==
    ASSUME NEW S, NEW s \in Seq(S), NEW t \in Seq(S), t # <<>>
    PROVE  /\ s \o t \in Seq(S) /\ s \o t # <<>>
           /\ Front(s \o t) = s \o Front(t)
           /\ Last(s \o t) = Last(t)
<1> DEFINE u == s \o t
           v == s \o Front(t)
<1>0. Len(s) \in Nat /\ Len(t) \in Nat /\ Len(t) >= 1  OBVIOUS
<1>1. /\ u \in Seq(S) /\ Len(u) = Len(s) + Len(t)
      /\ \A i \in 1..Len(u) : u[i] = IF i <= Len(s) THEN s[i] ELSE t[i - Len(s)]
  BY <1>0
<1>2. /\ Front(t) \in Seq(S) /\ Len(Front(t)) = Len(t) - 1
      /\ \A i \in 1..(Len(t) - 1) : Front(t)[i] = t[i]
  BY FrontOf
<1>3. /\ v \in Seq(S) /\ Len(v) = Len(s) + (Len(t) - 1)
      /\ \A i \in 1..Len(v) : v[i] = IF i <= Len(s) THEN s[i] ELSE Front(t)[i - Len(s)]
  <2> DEFINE f == Front(t)
  <2>1. f \in Seq(S) /\ Len(f) = Len(t) - 1  BY <1>2
  <2> HIDE DEF f
  <2>2. /\ s \o f \in Seq(S) /\ Len(s \o f) = Len(s) + Len(f)
        /\ \A i \in 1..Len(s \o f) : (s \o f)[i] = IF i <= Len(s) THEN s[i] ELSE f[i - Len(s)]
    BY <2>1
  <2> QED  BY <2>1, <2>2 DEF f
<1> HIDE DEF u, v
<1>4. u # <<>>  BY <1>0, <1>1
<1>5. /\ Front(u) \in Seq(S) /\ Len(Front(u)) = Len(u) - 1
      /\ \A i \in 1..(Len(u) - 1) : Front(u)[i] = u[i]
  BY <1>1, <1>4, FrontOf
<1>6. \A i \in 1..Len(v) : v[i] = Front(u)[i]
  <2> TAKE i \in 1..Len(v)
  <2>1. i \in 1..(Len(u) - 1) /\ i \in 1..Len(u)  BY <1>0, <1>1, <1>3
  <2>2. i > Len(s) => i - Len(s) \in 1..(Len(t) - 1)  BY <1>0, <1>3
  <2>3. CASE i <= Len(s)  BY <1>1, <1>3, <1>5, <2>1, <2>3
  <2>4. CASE ~(i <= Len(s))
    <3>1. v[i] = Front(t)[i - Len(s)] /\ u[i] = t[i - Len(s)]  BY <1>1, <1>3, <2>1, <2>4
    <3>2. Front(t)[i - Len(s)] = t[i - Len(s)]  BY <1>0, <1>2, <2>2, <2>4
    <3> QED  BY <1>5, <2>1, <3>1, <3>2
  <2> QED  BY <2>3, <2>4
<1>7. Len(Front(u)) = Len(v)  BY <1>0, <1>1, <1>3, <1>5
<1>8. Front(u) = v
  <2> DEFINE w == Front(u)
  <2>1. w \in Seq(S) /\ Len(w) = Len(v) /\ \A i \in 1..Len(v) : w[i] = v[i]  BY <1>5, <1>6, <1>7
  <2> HIDE DEF w
  <2>2. w = v  BY <1>3, <2>1
  <2> QED  BY <2>2 DEF w
<1>9. Last(u) = Last(t)
  <2>1. Last(u) = u[Len(u)] /\ Last(t) = t[Len(t)]  BY DEF Last
  <2>2. u[Len(u)] = t[Len(u) - Len(s)] /\ Len(u) - Len(s) = Len(t)  BY <1>0, <1>1
  <2> QED  BY <2>1, <2>2
<1> QED  BY <1>1, <1>4, <1>8, <1>9 DEF u, v

LEMMA FollowedFront ==
    ASSUME Linked, NEW path \in Seq(STRING), path # <<>>
    PROVE  Alike(path) \/ Ends(path)
<1> DEFINE q == Front(path)
           links == {n \in 1..Len(path) : LinkAt(path, n)}
<1>0. Len(path) \in Nat /\ Len(path) >= 1 /\ DOMAIN path = 1..Len(path)  OBVIOUS
<1>1. /\ q \in Seq(STRING) /\ Len(q) = Len(path) - 1
      /\ \A n \in 1..(Len(path) - 1) : SubSeq(q, 1, n) = SubSeq(path, 1, n)
  BY FrontOf
<1> HIDE DEF q
<1>2. DOMAIN q = 1..(Len(path) - 1) /\ DOMAIN q \subseteq Nat  BY <1>0, <1>1
<1>3. \A n \in DOMAIN q : n \in DOMAIN path /\ (LinkAt(q, n) <=> LinkAt(path, n))
  <2> TAKE n \in DOMAIN q
  <2>1. n \in 1..(Len(path) - 1) /\ n \in DOMAIN path  BY <1>0, <1>2
  <2>2. SubSeq(q, 1, n) = SubSeq(path, 1, n)  BY <1>1, <2>1
  <2> QED  BY <2>1, <2>2 DEF LinkAt
<1>4. CASE links = {}
  <2>1. \A n \in DOMAIN path : ~LinkAt(path, n)  BY <1>0, <1>4
  <2>2. Followed(path) = path  BY <2>1, FollowedNowhere
  <2>3. Followed(q) = q  BY <1>3, <2>1, FollowedNowhere
  <2> QED  BY <2>2, <2>3 DEF Alike, q
<1>5. CASE links # {}
  <2>1. links \subseteq Nat  BY <1>0
  <2> HIDE DEF links
  <2>2. PICK first \in links : \A m \in links : first <= m  BY <1>5, <2>1, LeastExists
  <2> USE DEF links
  <2>3. /\ first \in 1..Len(path) /\ LinkAt(path, first)
        /\ \A m \in 1..Len(path) : LinkAt(path, m) => first <= m
    BY <2>2
  <2> HIDE DEF links
  <2>4. CASE first = Len(path)
    <3>1. SubSeq(path, 1, Len(path)) = path  OBVIOUS
    <3>2. At(path).kind = "link"  BY <2>3, <2>4, <3>1 DEF LinkAt
    <3>3. \A n \in DOMAIN q : ~LinkAt(q, n)
      <4> TAKE n \in DOMAIN q
      <4>1. n \in 1..Len(path) /\ ~(first <= n)  BY <1>0, <1>2, <2>4
      <4> QED  BY <1>3, <2>3, <4>1
    <3>4. Followed(q) = q  BY <3>3, FollowedNowhere
    <3> QED  BY <3>2, <3>4 DEF Ends, q
  <2>5. CASE first # Len(path)
    <3> DEFINE to == At(SubSeq(path, 1, first)).to
               rest == SubSeq(path, first + 1, Len(path))
    <3> HIDE DEF to, rest
    <3>0. /\ first \in 1..Len(path) /\ first \in Nat /\ 1 <= first /\ first <= Len(path)
          /\ Len(path) - first \in Nat /\ Len(path) - first >= 1
          /\ first < Len(path) /\ first \in 1..(Len(path) - 1)
      BY <1>0, <2>3, <2>5, BelowTop
    <3>1. first \in DOMAIN q /\ first < Len(path)  BY <1>2, <3>0
    <3> USE DEF to, rest
    <3>2. Followed(path) = to \o rest
      <4> HIDE DEF to, rest
      <4>1. first \in DOMAIN path /\ DOMAIN path \subseteq Nat  BY <1>0, <3>0
      <4>2. LinkAt(path, first) /\ \A m \in DOMAIN path : LinkAt(path, m) => first <= m
        BY <1>0, <2>3
      <4> QED  BY <4>1, <4>2, FollowedFirst DEF to, rest
    <3>3. \A m \in DOMAIN q : LinkAt(q, m) => first <= m  BY <1>0, <1>3, <2>3
    <3>4. LinkAt(q, first)  BY <1>3, <2>3, <3>1
    <3>5. Followed(q) = At(SubSeq(q, 1, first)).to \o SubSeq(q, first + 1, Len(q))
      BY <1>2, <3>1, <3>3, <3>4, FollowedFirst
    <3>6. SubSeq(q, 1, first) = SubSeq(path, 1, first)  BY <1>1, <1>2, <3>1
    <3>7. rest \in Seq(STRING) /\ Len(rest) = Len(path) - first
          /\ \A i \in 1..Len(rest) : rest[i] = path[first + i]
      BY <1>0, <3>0
    <3>8. rest # <<>> /\ first \in Nat
      <4> HIDE DEF rest
      <4>1. Len(rest) >= 1  BY <3>0, <3>7
      <4> QED  BY <3>0, <4>1
    <3>9. /\ Front(rest) \in Seq(STRING) /\ Len(Front(rest)) = Len(rest) - 1
          /\ \A i \in 1..(Len(rest) - 1) : Front(rest)[i] = rest[i]
      BY <3>7, <3>8, FrontOf
    <3> DEFINE a == SubSeq(q, first + 1, Len(q))
    <3>10. a \in Seq(STRING) /\ Len(a) = Len(q) - first /\ \A i \in 1..Len(a) : a[i] = q[first + i]
      BY <1>0, <1>1, <2>3, <3>1
    <3>11. \A i \in 1..(Len(path) - 1) : q[i] = path[i]  BY FrontOf DEF q
    <3>12. to \in Seq(STRING)  BY AtLinks
    <3> HIDE DEF a, rest, to
    <3>13. Front(rest) = a
      <4> DEFINE b == Front(rest)
      <4>1. b \in Seq(STRING) /\ Len(b) = Len(a)  BY <1>0, <1>1, <3>7, <3>8, <3>9, <3>10
      <4>2. \A i \in 1..Len(a) : b[i] = a[i]
        <5> TAKE i \in 1..Len(a)
        <5>1. /\ i \in 1..(Len(rest) - 1) /\ i \in 1..Len(rest)
              /\ first + i \in 1..(Len(path) - 1)
          BY <1>0, <1>1, <3>7, <3>8, <3>10
        <5> QED  BY <3>7, <3>9, <3>10, <3>11, <5>1
      <4> HIDE DEF b
      <4>3. b = a  BY <3>10, <4>1, <4>2
      <4> QED  BY <4>3 DEF b
    <3>14. /\ to \o rest # <<>> /\ Front(to \o rest) = to \o Front(rest)
           /\ Last(to \o rest) = Last(rest)
      BY <3>7, <3>8, <3>12, JoinedFront
    <3>15. Followed(q) = to \o a  BY <3>5, <3>6 DEF to, a
    <3>16. Last(rest) = Last(path)
      <4>1. Last(rest) = rest[Len(rest)] /\ Last(path) = path[Len(path)]  BY DEF Last
      <4>2. Len(rest) \in 1..Len(rest) /\ first + Len(rest) = Len(path)  BY <1>0, <3>1, <3>7, <3>8
      <4>3. rest[Len(rest)] = path[first + Len(rest)]  BY <3>7, <4>2
      <4> QED  BY <4>1, <4>2, <4>3
    <3> QED  BY <3>2, <3>13, <3>14, <3>15, <3>16 DEF Alike, q
  <2> QED  BY <2>4, <2>5
<1> QED  BY <1>4, <1>5

\* What leads somewhere is there.
Standing(path) == \A n \in DOMAIN path : At(SubSeq(path, 1, n)).kind \notin {"nothing", "link"}

LEMMA StandingFront ==
    ASSUME NEW path \in Seq(STRING), path # <<>>, Standing(path)
    PROVE  Standing(Front(path)) /\ At(Append(Front(path), Last(path))).kind # "nothing"
<1>1. /\ Front(path) \in Seq(STRING) /\ Len(Front(path)) = Len(path) - 1
      /\ Append(Front(path), Last(path)) = path
      /\ \A n \in 1..(Len(path) - 1) : SubSeq(Front(path), 1, n) = SubSeq(path, 1, n)
  BY FrontOf
<1>2. Len(path) \in Nat /\ Len(path) >= 1 /\ SubSeq(path, 1, Len(path)) = path  OBVIOUS
<1>3. \A n \in 1..Len(path) : At(SubSeq(path, 1, n)).kind \notin {"nothing", "link"}
  BY DEF Standing
<1> DEFINE front == Front(path)
<1> HIDE DEF front
<1>4. ASSUME NEW n \in DOMAIN front PROVE At(SubSeq(front, 1, n)).kind \notin {"nothing", "link"}
  <2>1. n \in 1..(Len(path) - 1) /\ n \in 1..Len(path)  BY <1>1, <1>2 DEF front
  <2>2. SubSeq(front, 1, n) = SubSeq(path, 1, n)  BY <1>1, <2>1 DEF front
  <2> QED  BY <1>3, <2>1, <2>2
<1>5. At(path).kind # "nothing"
  <2>1. Len(path) \in 1..Len(path)  BY <1>2
  <2>2. At(SubSeq(path, 1, Len(path))).kind # "nothing"  BY <1>3, <2>1
  <2> QED  BY <1>2, <2>2
<1> QED  BY <1>1, <1>4, <1>5 DEF Standing, front

LEMMA LinkStands ==
    ASSUME IsTree(tree), NEW path \in Seq(STRING), path # <<>>, At(path).kind = "link"
    PROVE  Standing(Front(path)) /\ At(Append(Front(path), Last(path))).kind # "nothing"
<1>1. /\ Front(path) \in Seq(STRING) /\ Len(Front(path)) = Len(path) - 1
      /\ Append(Front(path), Last(path)) = path
      /\ \A n \in 1..(Len(path) - 1) : SubSeq(Front(path), 1, n) = SubSeq(path, 1, n)
  BY FrontOf
<1>2. path \in Places /\ tree[path].kind = "link"  BY DEF At, Nothing_
<1>3. Above(tree, path)  BY <1>2 DEF IsTree, Above
<1> DEFINE front == Front(path)
<1> HIDE DEF front
<1>4. ASSUME NEW n \in DOMAIN front PROVE At(SubSeq(front, 1, n)).kind \notin {"nothing", "link"}
  <2>1. n \in 1..(Len(path) - 1)  BY <1>1 DEF front
  <2>2. SubSeq(front, 1, n) = SubSeq(path, 1, n)  BY <1>1, <2>1 DEF front
  <2>3. At(SubSeq(path, 1, n)).kind = "dir"  BY <1>3, <2>1 DEF Above, At
  <2> QED  BY <2>2, <2>3
<1> QED  BY <1>1, <1>2, <1>4 DEF Standing, front, At

LEMMA RealIsPresent ==
    ASSUME Linked, IsTree(tree), NEW path \in Seq(STRING), path # <<>>, Canonical(path).exists
    PROVE  Present(path)
<1> DEFINE parent == Followed(Followed(Front(path)))
<1>1. Present(path) <=>
         Standing(parent) /\ At(Append(parent, Last(path))).kind # "nothing"
  BY DEF Present, Canonical, Standing
<1>2. Standing(Followed(Followed(path)))  BY DEF Canonical, Standing
<1>3. CASE Ends(path)
  <2>1. Followed(Front(path)) = Front(path) /\ At(path).kind = "link"  BY <1>3 DEF Ends
  <2>2. parent = Front(path)  BY <2>1
  <2> QED  BY <1>1, <2>1, <2>2, LinkStands
<1>4. CASE Alike(path)
  <2> DEFINE first == Followed(path)
  <2>1. first \in Seq(STRING)  BY FollowedIsPath
  <2>2. first # <<>> /\ Followed(Front(path)) = Front(first) /\ Last(first) = Last(path)
    BY <1>4 DEF Alike
  <2> HIDE DEF first
  <2>3. parent = Followed(Front(first))  BY <2>2
  <2>4. CASE Ends(first)
    <3>1. Followed(Front(first)) = Front(first) /\ At(first).kind = "link"  BY <2>4 DEF Ends
    <3>2. Standing(Front(first)) /\ At(Append(Front(first), Last(first))).kind # "nothing"
      BY <2>1, <2>2, <3>1, LinkStands
    <3> QED  BY <1>1, <2>2, <2>3, <3>1, <3>2
  <2>5. CASE Alike(first)
    <3> DEFINE second == Followed(first)
    <3>1. second \in Seq(STRING)  BY <2>1, FollowedIsPath
    <3>2. second # <<>> /\ Followed(Front(first)) = Front(second) /\ Last(second) = Last(first)
      BY <2>5 DEF Alike
    <3>3. Standing(second)  BY <1>2 DEF first
    <3> HIDE DEF second
    <3>4. Standing(Front(second)) /\ At(Append(Front(second), Last(second))).kind # "nothing"
      BY <3>1, <3>2, <3>3, StandingFront
    <3> QED  BY <1>1, <2>2, <2>3, <3>2, <3>4
  <2> QED  BY <2>1, <2>2, <2>4, <2>5, FollowedFront
<1> QED  BY <1>3, <1>4, FollowedFront

\* A word of a command that only reads leads inside, if it leads anywhere.
LEMMA ArgumentIsInside ==
    ASSUME Linked, IsTree(tree), NEW word, Candidate(word.value) \in Seq(STRING),
           ArgumentStaysInside(word), Canonical(Candidate(word.value)).exists
    PROVE  IsPrefix(Root, Canonical(Candidate(word.value)).path)
<1> DEFINE path == Candidate(word.value)
           there == {n \in 0..Len(path) : n = 0 \/ Present(SubSeq(path, 1, n))}
           deepest == CHOOSE n \in there : \A m \in there : m <= n
<1>1. IsPrefix(Root, Canonical(SubSeq(path, 1, deepest)).path)
  BY DEF ArgumentStaysInside
<1>2. path \in Seq(STRING) /\ Canonical(path).exists  OBVIOUS
<1> HIDE DEF path
<1>3. Len(path) \in Nat /\ SubSeq(path, 1, Len(path)) = path  BY <1>2
<1>4. Len(path) \in there
  <2>1. CASE path = <<>>  BY <1>3, <2>1
  <2>2. CASE path # <<>>
    <3>1. Present(path)  BY <1>2, <2>2, RealIsPresent
    <3>2. Len(path) \in 0..Len(path)  BY <1>3
    <3> QED  BY <1>3, <3>1, <3>2
  <2> QED  BY <2>1, <2>2
<1>5. there \subseteq 0..Len(path)  OBVIOUS
<1> HIDE DEF there
<1>6. \A m \in there : m <= Len(path)  BY <1>3, <1>5
<1>7. deepest \in there /\ \A m \in there : m <= deepest  BY <1>4, <1>6
<1> HIDE DEF deepest
<1>8. deepest = Len(path)
  <2>1. deepest \in Nat /\ deepest <= Len(path)  BY <1>3, <1>5, <1>7
  <2>2. Len(path) <= deepest  BY <1>4, <1>7
  <2>3. \A a, b \in Nat : a <= b /\ b <= a => a = b  OBVIOUS
  <2> QED  BY <1>3, <2>1, <2>2, <2>3, Zenon
<1> QED  BY <1>1, <1>3, <1>8 DEF path

(***************************************************************************)
(* Licences                                                                *)
(***************************************************************************)
\* The effect of the rules is that of the first that matches.
LEMMA FirstMatch ==
    ASSUME NEW rules \in Seq(Rules), NEW call, MatchingEffect(rules, call) # "none"
    PROVE  \E i \in DOMAIN rules :
              /\ rules[i].effect = MatchingEffect(rules, call)
              /\ RuleMatches(rules[i], call)
              /\ \A j \in 1..(i - 1) : ~RuleMatches(rules[j], call)
<1> DEFINE matching == {i \in DOMAIN rules : RuleMatches(rules[i], call)}
           first == CHOOSE i \in matching : \A j \in matching : i <= j
<1>1. MatchingEffect(rules, call) = IF matching = {} THEN "none" ELSE rules[first].effect
  BY DEF MatchingEffect
<1>2. DOMAIN rules = 1..Len(rules) /\ Len(rules) \in Nat  OBVIOUS
<1>3. matching \subseteq Nat  BY <1>2
<1>4. \A i \in DOMAIN rules : i \in matching <=> RuleMatches(rules[i], call)  OBVIOUS
<1>5. matching \subseteq DOMAIN rules  OBVIOUS
<1> HIDE DEF matching
<1>6. matching # {}  BY <1>1
<1>7. \E i \in matching : \A j \in matching : i <= j  BY <1>3, <1>6, LeastExists
<1>8. first \in matching /\ \A j \in matching : first <= j  BY <1>7
<1> HIDE DEF first
<1>9. ASSUME NEW j \in 1..(first - 1) PROVE ~RuleMatches(rules[j], call)
  <2>1. first \in 1..Len(rules)  BY <1>2, <1>5, <1>8
  <2>2. j \in DOMAIN rules /\ ~(first <= j)  BY <1>2, <2>1
  <2> QED  BY <1>4, <1>8, <2>2
<1> QED  BY <1>1, <1>4, <1>5, <1>6, <1>8, <1>9

LEMMA PrefixBegins ==
    ASSUME NEW S, NEW names \in Seq(S), NEW prefix \in Seq(S), IsPrefix(prefix, names)
    PROVE  BeginsWith(names, prefix)
<1>1. CASE prefix = <<>>  BY <1>1 DEF BeginsWith
<1>2. CASE prefix # <<>>
  <2>0. Len(prefix) \in Nat /\ Len(prefix) >= 1 /\ Len(names) \in Nat  BY <1>2
  <2>1. Len(prefix) <= Len(names) /\ SubSeq(prefix, 1, Len(prefix)) = SubSeq(names, 1, Len(prefix))
    BY DEF IsPrefix
  <2>2. SubSeq(prefix, 1, Len(prefix)) = prefix  OBVIOUS
  <2>3. prefix = SubSeq(names, 1, Len(prefix))  BY <2>1, <2>2
  <2>4. \A i \in 1..Len(prefix) : prefix[i] = names[i]
    <3> DEFINE n == Len(prefix)
    <3>1. n \in Nat /\ n <= Len(names)  BY <2>0, <2>1
    <3>2. prefix = SubSeq(names, 1, n)  BY <2>3
    <3> HIDE DEF n
    <3>3. \A i \in 1..n : SubSeq(names, 1, n)[i] = names[i]  BY <3>1
    <3>4. \A i \in 1..n : prefix[i] = names[i]  BY <3>2, <3>3
    <3> QED  BY <3>4 DEF n
  <2>5. Last(prefix) = names[Len(prefix)]
    <3>1. Len(prefix) \in 1..Len(prefix)  BY <2>0
    <3>2. Last(prefix) = prefix[Len(prefix)]  BY DEF Last
    <3> QED  BY <2>4, <3>1, <3>2
  <2>6. Front(prefix) = SubSeq(names, 1, Len(prefix) - 1)
    <3> DEFINE a == Front(prefix)
               n == Len(prefix) - 1
               b == SubSeq(names, 1, n)
    <3>0. n \in Nat /\ n <= Len(names)  BY <2>0, <2>1
    <3>1. a \in Seq(S) /\ Len(a) = n /\ \A i \in 1..n : a[i] = prefix[i]  BY <1>2, FrontOf
    <3> HIDE DEF n, a
    <3>2. b \in Seq(S) /\ Len(b) = n /\ \A i \in 1..n : b[i] = names[i]  BY <3>0
    <3> HIDE DEF b
    <3>3. \A i \in 1..n : i \in 1..Len(prefix)  BY <2>0 DEF n
    <3>4. a = b  BY <2>4, <3>1, <3>2, <3>3
    <3> QED  BY <3>4 DEF a, b, n
  <2> QED  BY <2>1, <2>5, <2>6 DEF BeginsWith
<1> QED  BY <1>1, <1>2

\* A restrictive rule that covers a file, as the workspace spells it, matches
\* however the call spells it.
LEMMA TailOf ==
    ASSUME NEW S, NEW s \in Seq(S), NEW t \in Seq(S)
    PROVE  IsPrefix(s, s \o t) /\ SubSeq(s \o t, Len(s) + 1, Len(s \o t)) = t
<1> DEFINE u == s \o t
           v == SubSeq(u, Len(s) + 1, Len(u))
<1>0. Len(s) \in Nat /\ Len(t) \in Nat  OBVIOUS
<1>1. /\ u \in Seq(S) /\ Len(u) = Len(s) + Len(t)
      /\ \A i \in 1..Len(u) : u[i] = IF i <= Len(s) THEN s[i] ELSE t[i - Len(s)]
  BY <1>0
<1> HIDE DEF u
<1>2. /\ v \in Seq(S) /\ Len(v) = Len(t)
      /\ \A i \in 1..Len(t) : v[i] = u[Len(s) + i]
  BY <1>0, <1>1
<1> HIDE DEF v
<1>3. \A i \in 1..Len(t) : v[i] = t[i]
  <2> TAKE i \in 1..Len(t)
  <2>1. Len(s) + i \in 1..Len(u) /\ ~(Len(s) + i <= Len(s)) /\ (Len(s) + i) - Len(s) = i
    BY <1>0, <1>1
  <2> QED  BY <1>1, <1>2, <2>1
<1>4. v = t  BY <1>2, <1>3
<1>5. SubSeq(s, 1, Len(s)) = SubSeq(u, 1, Len(s))
  <2> DEFINE a == SubSeq(s, 1, Len(s))
             b == SubSeq(u, 1, Len(s))
  <2>1. a = s  OBVIOUS
  <2>2. b \in Seq(S) /\ Len(b) = Len(s) /\ \A i \in 1..Len(s) : b[i] = u[i]  BY <1>0, <1>1
  <2> HIDE DEF a, b
  <2>3. \A i \in 1..Len(s) : b[i] = s[i]  BY <1>0, <1>1, <2>2
  <2>4. b = s  BY <2>2, <2>3
  <2> QED  BY <2>1, <2>4 DEF a, b
<1>6. Len(s) <= Len(u)  BY <1>0, <1>1
<1> QED  BY <1>4, <1>5, <1>6 DEF IsPrefix, u, v

LEMMA CoveredMatches ==
    ASSUME NEW rule \in Rules, NEW request \in Paths, NEW tool \in {"write_file", "edit_file"},
           rule.effect # "allow", Covers(rule, tool, request)
    PROVE  RuleMatches(rule, [tool |-> tool, path |-> request, words |-> <<>>])
<1> DEFINE call == [tool |-> tool, path |-> request, words |-> <<>>]
           p == PathComponents(rule.path)
           t == PathComponents(request)
<1>1. RuleCoversTool(rule, tool)  BY DEF Covers, RuleCoversTool
<1>2. RuleMatches(rule, call) <=> rule.all \/ PathMatches(rule.path, request, TRUE)
  BY <1>1 DEF RuleMatches
<1>3. p \in Seq(STRING) /\ t \in Seq(STRING)  BY DEF Rules, Paths
<1>4. PathMatches(rule.path, request, TRUE) =
        IF rule.path.absolute = request.absolute THEN BeginsWith(t, p)
        ELSE /\ ~rule.path.absolute
             /\ \E start \in 1..Len(t) : BeginsWith(SubSeq(t, start, Len(t)), p)
  BY DEF PathMatches
<1>5. Candidate(request) = IF request.absolute THEN t ELSE Root \o t  BY DEF Candidate
<1>6. Root \in Seq(STRING)  BY FilesAssumption
<1>7. rule.path.absolute \in BOOLEAN /\ request.absolute \in BOOLEAN  BY DEF Rules, Paths
<1> HIDE DEF p, t
<1>8. CASE rule.all  BY <1>2, <1>8
<1>9. CASE ~rule.all
  <2> DEFINE names == Candidate(request)
  <2>1. ~rule.path.absolute /\ names # <<>> /\ IsPrefix(p, Spelled(request))
    BY <1>9 DEF Covers, p
  <2>2. CASE ~request.absolute
    <3>1. names = Root \o t  BY <1>5, <2>2
    <3>2. IsPrefix(Root, names) /\ SubSeq(names, Len(Root) + 1, Len(names)) = t
      BY <1>3, <1>6, <3>1, TailOf
    <3>3. Spelled(request) = t  BY <3>2 DEF Spelled
    <3>4. BeginsWith(t, p)  BY <1>3, <2>1, <3>3, PrefixBegins
    <3> QED  BY <1>2, <1>4, <1>7, <2>1, <2>2, <3>4
  <2>3. CASE request.absolute
    <3>1. names = t  BY <1>5, <2>3
    <3>2. t # <<>> /\ Len(t) \in Nat /\ Len(t) >= 1  BY <1>3, <2>1, <3>1
    <3>3. \E start \in 1..Len(t) : BeginsWith(SubSeq(t, start, Len(t)), p)
      <4>1. CASE p = <<>>
        <5>1. \A rest : BeginsWith(rest, p)  BY <4>1 DEF BeginsWith
        <5> QED  BY <3>2, <5>1
      <4>2. CASE p # <<>> /\ ~IsPrefix(Root, t)
        <5>1. Spelled(request) = t  BY <3>1, <4>2 DEF Spelled
        <5>2. BeginsWith(t, p)  BY <1>3, <2>1, <5>1, PrefixBegins
        <5>3. SubSeq(t, 1, Len(t)) = t  BY <1>3
        <5>4. 1 \in 1..Len(t)  BY <3>2
        <5>5. BeginsWith(SubSeq(t, 1, Len(t)), p)  BY <5>2, <5>3, Zenon
        <5> QED  BY <5>4, <5>5
      <4>3. CASE p # <<>> /\ IsPrefix(Root, t)
        <5> DEFINE start == Len(Root) + 1
                   rest == SubSeq(t, start, Len(t))
        <5>1. Spelled(request) = rest  BY <3>1, <4>3 DEF Spelled
        <5>2. Len(Root) \in Nat /\ Len(Root) <= Len(t)  BY <1>6, <4>3 DEF IsPrefix
        <5>3. rest \in Seq(STRING) /\ Len(rest) = Len(t) - Len(Root)  BY <1>3, <3>2, <5>2
        <5>4. BeginsWith(rest, p)  BY <1>3, <2>1, <5>1, <5>3, PrefixBegins
        <5>5. Len(p) <= Len(rest) /\ Len(p) \in Nat /\ Len(p) >= 1
          BY <1>3, <2>1, <4>3, <5>1 DEF IsPrefix
        <5> HIDE DEF rest
        <5>6. start \in 1..Len(t)  BY <3>2, <5>2, <5>3, <5>5
        <5> QED  BY <5>4, <5>6 DEF rest
      <4> QED  BY <4>1, <4>2, <4>3
    <3> QED  BY <1>2, <1>4, <1>7, <2>1, <2>3, <3>3
  <2> QED  BY <1>7, <2>2, <2>3
<1> QED  BY <1>8, <1>9

\* A write or an edit that the rules let run is licensed.
LEMMA RunIsLicensed ==
    ASSUME policy \in Seq(Rules), NEW request \in Paths, NEW tool \in {"write_file", "edit_file"},
           Licence(policy, [tool |-> tool, path |-> request, words |-> <<>>]) = "run"
    PROVE  UseIsLicensed(tool, request)
<1> DEFINE call == [tool |-> tool, path |-> request, words |-> <<>>]
           effect == MatchingEffect(policy, call)
<1>1. effect = "allow"  BY DEF Licence
<1>2. PICK i \in DOMAIN policy :
         /\ policy[i].effect = "allow"
         /\ \A j \in 1..(i - 1) : ~RuleMatches(policy[j], call)
  <2>1. MatchingEffect(policy, call) # "none" /\ MatchingEffect(policy, call) = "allow"  BY <1>1
  <2> HIDE DEF call
  <2> QED  BY <2>1, FirstMatch
<1> SUFFICES ASSUME NEW j \in 1..(i - 1), policy[j].effect # "allow", Covers(policy[j], tool, request)
             PROVE  FALSE
  BY <1>2 DEF UseIsLicensed
<1>3. policy[j] \in Rules
  <2>1. i \in 1..Len(policy) /\ Len(policy) \in Nat  OBVIOUS
  <2>2. j \in 1..Len(policy)  BY <2>1
  <2> QED  BY <2>2
<1>4. RuleMatches(policy[j], call)  BY <1>3, CoveredMatches
<1> QED  BY <1>2, <1>4

\* So is a command.
LEMMA CommandRunsLicensed ==
    ASSUME Linked, IsTree(tree), policy \in Seq(Rules), NEW words \in Seq(Words),
           Licence(policy, Line(words)) = "run"
    PROVE  CommandIsLicensed(words)
<1> DEFINE effect == MatchingEffect(policy, Line(words))
<1>1. effect = "allow" \/ IsReadOnlyCommand(words)  BY DEF Licence, Line
<1>2. CASE effect = "allow"
  <2>1. MatchingEffect(policy, Line(words)) # "none"  BY <1>2
  <2>2. PICK i \in DOMAIN policy :
           policy[i].effect = "allow" /\ RuleMatches(policy[i], Line(words))
    BY <1>2, <2>1, FirstMatch
  <2>3. policy[i].tool \in {"*", "run_command"}
    BY <2>2 DEF RuleMatches, RuleCoversTool, Line
  <2> QED  BY <2>2, <2>3 DEF CommandIsLicensed
<1>3. CASE IsReadOnlyCommand(words)
  <2>1. \A i \in DOMAIN Tail(words) : ArgumentStaysInside(Tail(words)[i])
    BY <1>3 DEF IsReadOnlyCommand
  <2>2. words # <<>>  BY <1>3 DEF IsReadOnlyCommand
  <2> SUFFICES ASSUME NEW i \in 2..Len(words), Canonical(Candidate(words[i].value)).exists
               PROVE  IsPrefix(Root, Canonical(Candidate(words[i].value)).path)
    BY DEF CommandIsLicensed
  <2>3. /\ Len(words) \in Nat /\ i \in Nat /\ i - 1 \in DOMAIN Tail(words)
        /\ Tail(words)[i - 1] = words[i] /\ words[i] \in Words
    BY <2>2
  <2>4. ArgumentStaysInside(words[i])  BY <2>1, <2>3
  <2>5. Candidate(words[i].value) \in Seq(STRING)  BY <2>3, CandidateIsPath DEF Words
  <2> QED  BY <2>4, <2>5, ArgumentIsInside
<1> QED  BY <1>1, <1>2, <1>3

\* The rules stay as they were merged, and what a call was asked for as it was.
LEMMA PolicyStays == [Next]_vars => UNCHANGED policy
<1> SUFFICES ASSUME [Next]_vars PROVE UNCHANGED policy  OBVIOUS
<1>1. CASE TurnStep
  BY <1>1 DEF TurnStep, BeginGuard, StopTurn, Decide, Decided, FinishTurn, Called,
              StartListing, EndListing, callVars
<1>2. CASE Choice
  BY <1>2 DEF Choice, CallMcp, RunCommand, UseFile, Refuse, callVars
<1>3. CASE \/ OnModel(ModelStep) \/ OnModel(Deadline) \/ OnModel(ModelEnvironment)
           \/ OnCommand(CommandStep) \/ OnCommand(CommandLate) \/ OnCommand(CommandEnvironment)
           \/ OnMcp(McpStep) \/ OnMcp(McpLate) \/ OnMcp(McpEnvironment)
           \/ OnFile(FileStep) \/ OnFile(AnswerFile) \/ OnFile(Meddle)
  BY <1>3 DEF OnModel, OnCommand, OnMcp, OnFile, callVars
<1>4. CASE NextPrompt  BY <1>4 DEF NextPrompt
<1>5. CASE CtrlC  BY <1>5 DEF CtrlC, callVars
<1>6. CASE UNCHANGED vars  BY <1>6 DEF vars, callVars
<1> QED  BY <1>1, <1>2, <1>3, <1>4, <1>5, <1>6 DEF Next, HostThread, Clock

LEMMA UseKept ==
    ASSUME DOMAIN file = FileFields, FileStep \/ AnswerFile \/ Meddle
    PROVE  file'.tool = file.tool /\ file'.request = file.request /\ file'.unasked = file.unasked
<1> USE DEF FileFields
<1>1. CASE ResolveFile  BY <1>1 DEF ResolveFile
<1>2. CASE ReadForEdit  BY <1>2 DEF ReadForEdit
<1>3. CASE Stage  BY <1>3 DEF Stage
<1>4. CASE Fill  BY <1>4 DEF Fill
<1>5. CASE Rename  BY <1>5 DEF Rename
<1>6. CASE AnswerFile  BY <1>6 DEF AnswerFile
<1>7. CASE Meddle  BY <1>7 DEF Meddle
<1> QED  BY <1>1, <1>2, <1>3, <1>4, <1>5, <1>6, <1>7 DEF FileStep

LEMMA LineKept ==
    ASSUME command # IdleCommand, CommandInv,
           CommandStep \/ CommandEnvironment \/ CommandLate
    PROVE  command'.words = command.words /\ command'.unasked = command.unasked
<1> USE DEF CommandFields, CommandInv
<1>1. CASE SpawnShell  BY <1>1 DEF SpawnShell
<1>2. CASE PollShell  BY <1>2 DEF PollShell
<1>3. CASE KillGroup  BY <1>3 DEF KillGroup
<1>4. CASE ReapShell  BY <1>4 DEF ReapShell
<1>5. CASE JoinReaders  BY <1>5 DEF JoinReaders
<1>6. CASE ShellForks  BY <1>6 DEF ShellForks
<1>7. CASE ShellExits  BY <1>7 DEF ShellExits
<1>8. CASE CommandLate  BY <1>8 DEF CommandLate
<1> QED
  BY <1>1, <1>2, <1>3, <1>4, <1>5, <1>6, <1>7, <1>8 DEF CommandStep, CommandEnvironment

\* While a command is under way no tool changes the tree.
LEMMA CommandHoldsTree ==
    ASSUME OneCall, [Next]_vars
    PROVE  command' = IdleCommand \/ UNCHANGED tree
<1>1. CASE file = IdleFile
  <2>1. IdleMove  BY <1>1, IdleMoves
  <2>2. CASE UNCHANGED <<tree, file>>  BY <2>2
  <2>3. CASE Calling /\ UNCHANGED <<host, phase, model, command, mcp>>
    BY <2>3 DEF Calling, Quiet
  <2> QED  BY <2>1, <2>2, <2>3 DEF IdleMove
<1>2. CASE file # IdleFile
  <2>1. FileMove  BY <1>2, FileMoves
  <2> QED  BY <1>2, <2>1 DEF FileMove, OneCall
<1> QED  BY <1>1, <1>2

\* What a path leads to depends on the tree alone.
FollowedIn(places, path) ==
    LET at(p) == IF p \in Places THEN places[p] ELSE Nothing_
        links == {n \in DOMAIN path : at(SubSeq(path, 1, n)).kind = "link"}
        first == CHOOSE n \in links : \A m \in links : n <= m
    IN  IF links = {} THEN path
        ELSE at(SubSeq(path, 1, first)).to \o SubSeq(path, first + 1, Len(path))

CanonicalIn(places, path) ==
    LET at(p) == IF p \in Places THEN places[p] ELSE Nothing_
        end == FollowedIn(places, FollowedIn(places, path))
    IN  [path |-> end,
         exists |-> \A n \in DOMAIN end : at(SubSeq(end, 1, n)).kind \notin {"nothing", "link"}]

LEMMA TreeLeads ==
    \A path : Canonical(path) = CanonicalIn(tree, path) /\ Canonical(path)' = CanonicalIn(tree', path)
<1>1. \A path : Followed(path) = FollowedIn(tree, path)  BY DEF Followed, FollowedIn, At
<1>2. \A path : Followed(path)' = FollowedIn(tree', path)  BY DEF Followed, FollowedIn, At
<1>3. \A path : Canonical(path) = CanonicalIn(tree, path)
  BY <1>1 DEF Canonical, CanonicalIn, At
<1>4. \A path : Canonical(path)' = CanonicalIn(tree', path)
  BY <1>2 DEF Canonical, CanonicalIn, At
<1> QED  BY <1>3, <1>4

LicenceInv == policy \in Policies /\ UnaskedIsLicensed

LEMMA LicenceInit == Init => LicenceInv
BY DEF Init, FileInit, LicenceInv, UnaskedIsLicensed

LEMMA FilesLicensed ==
    ASSUME ShapeInv, LicenceInv, [Next]_vars,
           file' # IdleFile, file'.unasked, file'.tool \in {"write_file", "edit_file"}
    PROVE  UseIsLicensed(file'.tool, file'.request)
<1>0. FilesInv /\ OneCall /\ FileInv  BY DEF ShapeInv, FilesInv
<1>1. /\ policy \in Seq(Rules)
      /\ file # IdleFile /\ file.unasked /\ file.tool \in {"write_file", "edit_file"} =>
            UseIsLicensed(file.tool, file.request)
  BY CallsAssumption DEF LicenceInv, UnaskedIsLicensed
<1>2. CASE UNCHANGED file  BY <1>1, <1>2
<1>3. CASE file = IdleFile
  <2>1. IdleMove  BY <1>3, IdleMoves
  <2>2. CASE Proposed
    <3>1. PICK call \in FileCalls, unasked \in BOOLEAN :
            /\ call.tool \in {"write_file", "edit_file"}
            /\ unasked => Licence(policy, [tool |-> call.tool, path |-> call.request, words |-> <<>>]) = "run"
            /\ Propose(call.tool, call.request, call.edit, unasked)
      BY <2>2 DEF Proposed
    <3>2. file'.tool = call.tool /\ file'.request = call.request /\ file'.unasked = unasked
      BY <3>1 DEF Propose
    <3>3. call.request \in Paths  BY CallsAssumption
    <3>4. UseIsLicensed(call.tool, call.request)  BY <1>1, <3>1, <3>2, <3>3, RunIsLicensed
    <3> QED  BY <3>2, <3>4
  <2>3. CASE Looked
    <3>1. PICK call \in FileCalls :
            call.tool \notin {"write_file", "edit_file"} /\ Look(call.tool, call.request, call.edit)
      BY <2>3 DEF Looked
    <3>2. file'.tool = call.tool  BY <3>1 DEF Look
    <3> QED  BY <3>1, <3>2
  <2> QED  BY <1>2, <2>1, <2>2, <2>3 DEF IdleMove
<1>4. CASE file # IdleFile
  <2>1. FileMove  BY <1>0, <1>4, FileMoves
  <2>2. DOMAIN file = FileFields  BY <1>0, <1>4 DEF FileInv, Use
  <2>3. CASE FileStep \/ AnswerFile \/ Meddle
    <3>1. file'.tool = file.tool /\ file'.request = file.request /\ file'.unasked = file.unasked
      BY <2>2, <2>3, UseKept
    <3> QED  BY <1>1, <1>4, <3>1
  <2> QED  BY <1>2, <2>1, <2>3 DEF FileMove
<1> QED  BY <1>3, <1>4

LEMMA CommandsLicensed ==
    ASSUME ShapeInv, CommandInv, LicenceInv, [Next]_vars,
           command' # IdleCommand, command'.unasked
    PROVE  CommandIsLicensed(command'.words)
<1>0. OneCall /\ TreeInv /\ IsTree(tree) /\ Linked  BY TreeLinks DEF ShapeInv, FilesInv
<1>1. /\ policy \in Seq(Rules)
      /\ command # IdleCommand /\ command.unasked => CommandIsLicensed(command.words)
  BY CallsAssumption DEF LicenceInv, UnaskedIsLicensed
<1>2. CASE UNCHANGED command  BY <1>1, <1>2
<1>3. CASE \E words \in Commands, unasked \in BOOLEAN :
              /\ unasked => Licence(policy, Line(words)) = "run"
              /\ StartCommand(words, unasked)
  <2>1. PICK words \in Commands, unasked \in BOOLEAN :
          /\ unasked => Licence(policy, Line(words)) = "run"
          /\ StartCommand(words, unasked)
    BY <1>3
  <2>2. command'.words = words /\ command'.unasked = unasked  BY <2>1 DEF StartCommand
  <2>3. words \in Seq(Words)  BY CallsAssumption
  <2>4. CommandIsLicensed(words)  BY <1>0, <1>1, <2>1, <2>2, <2>3, CommandRunsLicensed
  <2> QED  BY <2>2, <2>4
<1>4. CASE CommandStep \/ CommandEnvironment \/ CommandLate
  <2>1. command # IdleCommand  BY <1>4, IdleCallsWait
  <2>2. command'.words = command.words /\ command'.unasked = command.unasked
    BY <1>4, <2>1, LineKept
  <2> QED  BY <1>1, <2>1, <2>2
<1> QED  BY <1>2, <1>3, <1>4, CommandMoves DEF CommandMove

LEMMA LicenceStays == ShapeInv /\ CommandInv /\ LicenceInv /\ [Next]_vars => LicenceInv'
<1> SUFFICES ASSUME ShapeInv, CommandInv, LicenceInv, [Next]_vars PROVE LicenceInv'  OBVIOUS
<1>1. policy' = policy  BY PolicyStays
<1>2. ASSUME file' # IdleFile, file'.unasked, file'.tool \in {"write_file", "edit_file"}
      PROVE  UseIsLicensed(file.tool, file.request)'
  <2>1. UseIsLicensed(file'.tool, file'.request)  BY <1>2, FilesLicensed
  <2> QED  BY <1>1, <2>1 DEF UseIsLicensed
<1>3. ASSUME command' # IdleCommand, command'.unasked
      PROVE  CommandIsLicensed(command.words)'
  <2>1. CommandIsLicensed(command'.words)  BY <1>3, CommandsLicensed
  <2>2. tree' = tree  BY <1>3, CommandHoldsTree DEF ShapeInv, FilesInv
  <2>3. \A path : Canonical(path)' = Canonical(path)  BY <2>2, TreeLeads
  <2> QED  BY <1>1, <2>1, <2>3 DEF CommandIsLicensed
<1> QED  BY <1>1, <1>2, <1>3 DEF LicenceInv, UnaskedIsLicensed

\* Whatever the rules, the calls, the links of the workspace and the changes of
\* other programs: what runs without a question was licensed by a rule before
\* which none spoke against it under another spelling, or is a command whose
\* words lead nowhere outside (permissions.rs, read_only_commands.rs).
THEOREM RunsAreLicensed == Spec => []UnaskedIsLicensed
<1> DEFINE Inv == ShapeInv /\ CommandInv /\ LicenceInv
<1>1. Init => Inv  BY ShapeInit, CallsInit, LicenceInit DEF CallsInv
<1>2. Inv /\ [Next]_vars => Inv'  BY ShapeStays, CommandStays, LicenceStays
<1>3. Inv => UnaskedIsLicensed  BY DEF LicenceInv
<1> HIDE DEF Inv
<1> QED  BY <1>1, <1>2, <1>3, PTL DEF Spec
=============================================================================
