------------------------------ MODULE AuditLog ------------------------------
(***************************************************************************)
(* What a control plane promises of its audit: one log for each workspace, *)
(* entries numbered from one clock, appended and never changed, and a      *)
(* durable copy to which a crash returns all of it at once.  A number may  *)
(* be wasted on a call that fails; it never stands for two entries.        *)
(***************************************************************************)
EXTENDS Integers, Sequences

CONSTANT Keys

VARIABLES
    log,    \* the numbers of each workspace's entries, oldest first
    clock,  \* the last number given out
    saved   \* the durable copy of both

vars == <<log, clock, saved>>

Copy == [log |-> log, clock |-> clock]

Init ==
    /\ log = [k \in Keys |-> <<>>]
    /\ clock = 0
    /\ saved = Copy

Enter(k) ==
    /\ clock' = clock + 1
    /\ log' = [log EXCEPT ![k] = Append(@, clock + 1)]
    /\ UNCHANGED saved

Waste ==
    /\ clock' = clock + 1
    /\ UNCHANGED <<log, saved>>

Save ==
    /\ saved' = Copy
    /\ UNCHANGED <<log, clock>>

Crash ==
    /\ log' = saved.log
    /\ clock' = saved.clock
    /\ UNCHANGED saved

Next == (\E k \in Keys : Enter(k)) \/ Waste \/ Save \/ Crash

Spec == Init /\ [][Next]_vars

----------------------------------------------------------------------------
TypeOK ==
    /\ clock \in Nat
    /\ log \in [Keys -> Seq(Nat)]
    /\ saved \in [log : [Keys -> Seq(Nat)], clock : Nat]

\* The numbers of a log grow, stay within the clock, and no two logs share one.
Numbered(l, c) ==
    \A k \in Keys : \A i \in 1..Len(l[k]) :
        /\ l[k][i] <= c
        /\ \A h \in Keys : \A j \in 1..Len(l[h]) :
              l[k][i] = l[h][j] => k = h /\ i = j
        /\ \A j \in 1..(i - 1) : l[k][j] < l[k][i]

\* Every entry has a number of its own and stands after the older ones, in memory and on disk.
NumbersAreUnique == Numbered(log, clock) /\ Numbered(saved.log, saved.clock)
==============================================================================
