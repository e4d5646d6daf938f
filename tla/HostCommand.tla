---------------------------- MODULE HostCommand ----------------------------
(***************************************************************************)
(* A shell command of the agent (workspace.rs, RunCommandTool and          *)
(* shell_command_with_timeout; command_env.rs): the shell leads a process  *)
(* group of its own, two threads read its outputs to their end, and the    *)
(* host polls the cancel flag, the exit and the deadline.  What the shell  *)
(* and its descendants do is the environment.                              *)
(***************************************************************************)
EXTENDS HostTurn, Sequences

VARIABLES command   \* the command in progress, and what is left of it

IdleCommand == [pc |-> "idle"]

CommandSteps == {"start", "poll", "kill", "reap", "join", "ended"}
Leaders == {"none", "running", "zombie", "reaped"}

CommandTypeOK ==
    \/ command = IdleCommand
    \/ /\ command.pc \in CommandSteps
       /\ command.leader \in Leaders
       /\ {command.group, command.escaped, command.late} \subseteq BOOLEAN

\* The command is about to run, because the user was asked or needed not be.
StartCommand(words, unasked) ==
    /\ command = IdleCommand
    /\ command' = [pc |-> "start", words |-> words, unasked |-> unasked, leader |-> "none",
                   group |-> FALSE, escaped |-> FALSE, late |-> FALSE, result |-> "none"]

\* The shell starts in a new group, or does not.
SpawnShell ==
    /\ command.pc = "start"
    /\ \/ command' = [command EXCEPT !.pc = "ended", !.result = "not started"]
       \/ command' = [command EXCEPT !.pc = "poll", !.leader = "running"]

\* One look at the cancel flag, the shell and the clock, in this order.
PollShell ==
    /\ command.pc = "poll"
    /\ command' =
         IF cancel THEN [command EXCEPT !.pc = "kill", !.result = "cancelled"]
         ELSE IF command.leader = "zombie"
         THEN [command EXCEPT !.pc = "kill", !.leader = "reaped", !.result = "exited"]
         ELSE IF command.late THEN [command EXCEPT !.pc = "kill", !.result = "too long"]
         ELSE command

\* The group is killed in every case: a command that exited may have left
\* background children in it.
KillGroup ==
    /\ command.pc = "kill"
    /\ command' = [command EXCEPT !.pc = IF command.result = "exited" THEN "join" ELSE "reap",
                                  !.group = FALSE,
                                  !.leader = IF @ = "running" THEN "zombie" ELSE @]

\* A shell that was stopped is waited for.
ReapShell ==
    /\ command.pc = "reap"
    /\ command.leader \in {"zombie", "reaped"}
    /\ command' = [command EXCEPT !.pc = "ended", !.leader = "reaped"]

\* Both readers see the end of their pipes once no process holds them; a
\* descendant in a group of its own may, for as long as it runs.
JoinReaders ==
    /\ command.pc = "join"
    /\ ~command.group
    /\ ~command.escaped
    /\ command' = [command EXCEPT !.pc = "ended"]

(***************************************************************************)
(* The environment                                                         *)
(***************************************************************************)
Stepping == command # IdleCommand /\ command.pc \in {"poll", "kill", "reap", "join"}

\* The shell starts a process in its group, or one that leaves it (setsid).
ShellForks ==
    /\ Stepping
    /\ command.leader = "running"
    /\ \/ ~command.group /\ command' = [command EXCEPT !.group = TRUE]
       \/ ~command.escaped /\ command' = [command EXCEPT !.escaped = TRUE]

\* A process of the command exits.
ShellExits ==
    /\ Stepping
    /\ \/ command.leader = "running" /\ command' = [command EXCEPT !.leader = "zombie"]
       \/ command.group /\ command' = [command EXCEPT !.group = FALSE]
       \/ command.escaped /\ command' = [command EXCEPT !.escaped = FALSE]

CommandLate ==
    /\ Stepping
    /\ ~command.late
    /\ command' = [command EXCEPT !.late = TRUE]

CommandStep == SpawnShell \/ PollShell \/ KillGroup \/ ReapShell \/ JoinReaders
CommandEnvironment == ShellForks \/ ShellExits

CommandEnded == command # IdleCommand /\ command.pc = "ended"

(***************************************************************************)
(* Properties                                                              *)
(***************************************************************************)
\* The README: a cancelled command "and its children are stopped"; workspace.rs
\* says the same of a command that ends.  When the tool returns, neither the
\* shell nor a process of its group runs.
CommandsEndWhole ==
    CommandEnded => command.leader \notin {"running", "zombie"} /\ ~command.group

=============================================================================
