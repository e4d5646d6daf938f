--------------------------- MODULE GuestProcesses ---------------------------
(***************************************************************************)
(* The processes of one guest VM (src/src/runtime.rs): VmInstance's        *)
(* process table and round-robin queue, spawn, tick, run_until_idle and    *)
(* the exit syscall.                                                       *)
(*                                                                         *)
(* What the program of a process computes is GuestProgram's matter: here   *)
(* an instruction may have any of its three outcomes.  Every method takes  *)
(* the VM by exclusive reference, so a call is one action, except that     *)
(* run_until_idle is one action per pass of its loop, with nothing in      *)
(* between.  For the same reason nobody sees a process that is Running,    *)
(* and an exited process is not told apart by its code.                    *)
(***************************************************************************)
EXTENDS Integers, Sequences, FiniteSets

CONSTANTS
    MaxPid,        \* u32::MAX, never issued itself
    MaxProcesses,  \* ResourceLimits.max_processes
    MaxSteps,      \* ResourceLimits.max_steps
    MaxTicks       \* bound of the model: the most ticks asked of run_until_idle

ASSUME ProcessesAssumption ==
    /\ MaxPid \in Nat \ {0}
    /\ MaxProcesses \in Nat
    /\ MaxSteps \in Nat
    /\ MaxTicks \in Nat

VARIABLES
    state,     \* the process table
    runnable,  \* the queue, which may hold processes that have exited since
    nextPid,
    ticks,     \* instructions executed by the VM so far
    left,      \* ticks run_until_idle may still make, NoRun outside of it
    verdict    \* the answer of the last run_until_idle

vars == <<state, runnable, nextPid, ticks, left, verdict>>

NoRun == -1
Pids == DOMAIN state
Ready(p) == state[p] = "Ready"

TypeOK ==
    /\ nextPid \in 1..MaxPid
    /\ Pids = 1..(nextPid - 1)
    /\ state \in [Pids -> {"Ready", "Exited", "Failed"}]
    /\ Cardinality(Pids) <= MaxProcesses
    /\ runnable \in Seq(Pids)
    /\ ticks \in 0..MaxSteps
    /\ left \in NoRun..MaxTicks
    /\ verdict \in {"none", "idle", "limit"}

Init ==
    /\ state = [p \in {} |-> "Ready"]
    /\ runnable = <<>>
    /\ nextPid = 1
    /\ ticks = 0
    /\ left = NoRun
    /\ verdict = "none"

----------------------------------------------------------------------------
\* spawn, with or without a parent: processes that have ended still count.
Spawn ==
    /\ left = NoRun
    /\ nextPid - 1 < MaxProcesses
    /\ nextPid < MaxPid
    /\ state' = [p \in Pids \cup {nextPid} |-> IF p = nextPid THEN "Ready" ELSE state[p]]
    /\ runnable' = Append(runnable, nextPid)
    /\ nextPid' = nextPid + 1
    /\ UNCHANGED <<ticks, left, verdict>>

\* Syscall::Exit, also of a process that has ended; the queue is left alone.
Exit(pid) ==
    /\ left = NoRun
    /\ state' = [state EXCEPT ![pid] = "Exited"]
    /\ UNCHANGED <<runnable, nextPid, ticks, left, verdict>>

----------------------------------------------------------------------------
\* tick throws away the queue's head until it finds a process that is ready.
FirstReady(k) ==
    /\ k \in 1..Len(runnable)
    /\ Ready(runnable[k])
    /\ \A j \in 1..(k - 1) : ~Ready(runnable[j])

\* Mutant: the process that runs is not taken out of the queue.
Behind_Kept(k) == SubSeq(runnable, k, Len(runnable))

Behind(k) == SubSeq(runnable, k + 1, Len(runnable))

\* Mutant: the process that ran goes to the front again.
Requeue_Front(k) == <<runnable[k]>> \o Behind(k)

Requeue(k) == Append(Behind(k), runnable[k])

\* The first ready process executes one instruction...
Run ==
    \E k \in 1..Len(runnable) :
        /\ FirstReady(k)
        /\ ticks' = ticks + 1
        /\ \/ /\ runnable' = Requeue(k)
              /\ state' = [state EXCEPT ![runnable[k]] = "Ready"]
           \/ /\ runnable' = Behind(k)
              /\ state' = [state EXCEPT ![runnable[k]] = "Exited"]
           \/ /\ runnable' = Behind(k)
              /\ state' = [state EXCEPT ![runnable[k]] = "Failed"]

\* ... or there is none, and the queue has been emptied looking for it.
NobodyReady == \A k \in 1..Len(runnable) : ~Ready(runnable[k])

Drain ==
    /\ NobodyReady
    /\ runnable' = <<>>
    /\ UNCHANGED <<state, ticks>>

\* A tick of its own; one over the limit does nothing.
Tick ==
    /\ left = NoRun
    /\ ticks < MaxSteps
    /\ Run \/ Drain
    /\ UNCHANGED <<nextPid, left, verdict>>

----------------------------------------------------------------------------
StartRun(n) ==
    /\ left = NoRun
    /\ left' = n
    /\ verdict' = "none"
    /\ UNCHANGED <<state, runnable, nextPid, ticks>>

Return(answer) ==
    /\ left' = NoRun
    /\ verdict' = answer

\* The last pass is behind: an answer is found by the length of the queue, so
\* processes that exited in it still count.
RunOut ==
    /\ left = 0
    /\ Return(IF runnable = <<>> THEN "idle" ELSE "limit")
    /\ UNCHANGED <<state, runnable, nextPid, ticks>>

\* One pass of the loop.
QueueEmpty ==
    /\ left > 0 /\ runnable = <<>>
    /\ Return("idle")
    /\ UNCHANGED <<state, runnable, nextPid, ticks>>

StepsSpent ==
    /\ left > 0 /\ runnable # <<>> /\ ticks >= MaxSteps
    /\ Return("limit")
    /\ UNCHANGED <<state, runnable, nextPid, ticks>>

Pass ==
    /\ left > 0 /\ runnable # <<>> /\ ticks < MaxSteps
    /\ Run
    /\ left' = left - 1
    /\ UNCHANGED <<nextPid, verdict>>

DrainedPass ==
    /\ left > 0 /\ runnable # <<>> /\ ticks < MaxSteps
    /\ Drain
    /\ Return("idle")
    /\ UNCHANGED nextPid

RunStep == RunOut \/ QueueEmpty \/ StepsSpent \/ Pass \/ DrainedPass

Next ==
    \/ Spawn
    \/ \E pid \in Pids : Exit(pid)
    \/ Tick
    \/ \E n \in 0..MaxTicks : StartRun(n)
    \/ RunStep

Spec == Init /\ [][Next]_vars

----------------------------------------------------------------------------
Occurrences(p) == {k \in 1..Len(runnable) : runnable[k] = p}

\* A ready process is in the queue exactly once, a failed one never, and an
\* exited one at most once, however spawn, tick and the exit syscall are mixed:
\* nobody is forgotten and nobody runs twice as often (spawn, tick, syscall).
QueueExact ==
    \A p \in Pids :
        /\ Ready(p) => Occurrences(p) # {}
        /\ \A j, k \in Occurrences(p) : j = k
        /\ state[p] = "Failed" => Occurrences(p) = {}

\* A process that waits its turn never loses a place, and every instruction
\* the VM executes for another brings it forward: its wait is bounded by the
\* number of processes ahead, whatever is spawned meanwhile (tick, spawn).
WaitShrinks ==
    [][\A j \in 1..Len(runnable) :
         LET p == runnable[j]
         IN  Ready(p) /\ state'[p] = "Ready" /\ (ticks' = ticks \/ ~FirstReady(j)) =>
               \E k \in 1..Len(runnable') :
                  /\ runnable'[k] = p
                  /\ IF ticks' = ticks THEN k <= j ELSE k < j]_vars

\* A process that has ended never runs again, although the queue may still
\* hold it (tick, syscall).
EndIsFinal ==
    [][\A p \in Pids : p \in DOMAIN state' /\ (~Ready(p) => state'[p] # "Ready")]_vars

\* run_until_idle answers Ok only when no process is ready, and its limit only
\* with something left in the queue; it executes no more than it was asked to.
VerdictIsTrue ==
    [][left # NoRun =>
         /\ left' = NoRun /\ verdict' = "idle" => \A p \in Pids : state'[p] # "Ready"
         /\ left' = NoRun /\ verdict' = "limit" => runnable' # <<>>
         /\ left' # NoRun => left - left' = ticks' - ticks]_vars
=============================================================================
