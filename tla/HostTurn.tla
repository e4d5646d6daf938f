------------------------------ MODULE HostTurn ------------------------------
(***************************************************************************)
(* The turn of the interactive agent as Ctrl-C sees it                     *)
(* (cli/interrupt.rs, cli/agent.rs): a flag that says a turn runs, the     *)
(* cancel flag every call of the turn watches, and a handler that sets the *)
(* one or ends the process.  The calls of a turn are in ModelCall,         *)
(* HostCommand, McpCall and HostFiles; HostCalls composes them.            *)
(*                                                                         *)
(* The handler is one step: a signal interrupts the host's thread, which   *)
(* runs nothing else meanwhile.                                            *)
(***************************************************************************)
EXTENDS Naturals

CONSTANTS
    MaxTurns        \* bound on the turns of the run

ASSUME TurnsAssumption == MaxTurns \in Nat

VARIABLES
    host,           \* where the host's thread is
    active,         \* TURN_ACTIVE
    cancel,         \* the cancel flag of the agent
    told,           \* this turn's user was told that it is being cancelled
    turns           \* turns begun (bound)

turnVars == <<host, active, cancel, told, turns>>

HostStates == {"prompt", "clearing", "marking", "turn", "exited"}

HostTurnTypeOK ==
    /\ host \in HostStates
    /\ active \in BOOLEAN
    /\ cancel \in BOOLEAN
    /\ told \in BOOLEAN
    /\ turns \in 0..MaxTurns

HostTurnInit ==
    /\ host = "prompt"
    /\ active = FALSE
    /\ cancel = FALSE
    /\ told = FALSE
    /\ turns = 0

\* Mutant: the turn is marked before the flag is cleared.
TakePrompt_Marks ==
    /\ host = "prompt"
    /\ turns < MaxTurns
    /\ host' = "clearing"
    /\ active' = TRUE
    /\ told' = FALSE
    /\ turns' = turns + 1
    /\ UNCHANGED cancel

\* The user enters a prompt.
TakePrompt ==
    /\ host = "prompt"
    /\ turns < MaxTurns
    /\ host' = "clearing"
    /\ told' = FALSE
    /\ turns' = turns + 1
    /\ UNCHANGED <<active, cancel>>

\* TurnGuard::begin drops a cancel left over from an earlier turn.
ClearCancel ==
    /\ host = "clearing"
    /\ host' = "marking"
    /\ cancel' = FALSE
    /\ UNCHANGED <<active, told, turns>>

\* Then it marks the turn.
MarkActive ==
    /\ host = "marking"
    /\ host' = "turn"
    /\ active' = TRUE
    /\ UNCHANGED <<cancel, told, turns>>

\* The guard is dropped at the end of the turn; the cancel flag stays.
EndTurn ==
    /\ host = "turn"
    /\ host' = "prompt"
    /\ active' = FALSE
    /\ UNCHANGED <<cancel, told, turns>>

\* What the handler does: the first signal of a turn cancels it and says so,
\* any other ends the process.
Handled ==
    IF active /\ ~cancel
    THEN /\ cancel' = TRUE
         /\ told' = TRUE
         /\ UNCHANGED <<host, active, turns>>
    ELSE /\ host' = "exited"
         /\ UNCHANGED <<active, cancel, told, turns>>

\* Ctrl-C.
Interrupt == host # "exited" /\ Handled
=============================================================================
