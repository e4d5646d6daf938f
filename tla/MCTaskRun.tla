------------------------------ MODULE MCTaskRun ------------------------------
(***************************************************************************)
(* What TLC finds on disk: nothing, a session without a task, and every    *)
(* short record this program or an older one could have written, with the  *)
(* session its checkpoint names or another.                                *)
(***************************************************************************)
EXTENDS TaskRun

CONSTANTS MaxStored, r1, r2

Alphabet ==
    {Event(k) : k \in {"Started", "Resumed", "Paused", "PlanUpdated", "Completed", "Failed", "Cancelled"}}
      \cup {Approval(k, r) : k \in {"ApprovalRequested", "ApprovalResolved"}, r \in {r1, r2}}
      \cup {Checkpoint(0, NoDigest), Checkpoint(1, NoDigest), Checkpoint(1, <<"task">>)}

\* Records of a schema, by the length of their history.
Records[n \in 0..MaxStored] ==
    [schema \in {1, 2, 3} |->
       IF n = 0 THEN {Fresh(schema)}
       ELSE UNION {{After(r, e) : e \in {x \in Alphabet : Accepts(r, x)}} : r \in Records[n - 1][schema]}]

Readable == UNION {{r \in Records[n][schema] : Restorable(r)} : n \in 0..MaxStored, schema \in {1, 2, 3}}

State(t, s) ==
    [task |-> t, session |-> s, edited |-> t # NoTask /\ t.checkpoint.is /\ s # t.checkpoint.digest]

OnDisk ==
    {State(NoTask, s) : s \in {NoSession, <<"chat">>}}
      \cup {State(t, s) : t \in Readable, s \in {NoSession, <<"task">>}}

Tampered == {NoSession, <<"chat">>}
==============================================================================
