----------------------------- MODULE TaskRecord -----------------------------
(***************************************************************************)
(* The record of a long-running task (src/src/task.rs): a history of       *)
(* events and the state that replaying it gives.  The plan, the texts and  *)
(* the ids of an event are left out but for whether they are acceptable;   *)
(* its sequence number is its place in the history.                        *)
(***************************************************************************)
EXTENDS Integers, Sequences, SequencesExt

CONSTANTS
    NoDigest,    \* in a checkpoint of an older program
    NoRequest,
    Requests,    \* ids of approval requests, and NoRequest
    MaxEvents    \* MAX_EVENTS

ASSUME RecordAssumption == MaxEvents \in Nat /\ NoRequest \in Requests

Schema == 3  \* TASK_SCHEMA_VERSION

\* What an event does to the status of the record that accepts it.
StatusAfter ==
    [Started |-> "Running", Resumed |-> "Running", Paused |-> "Paused",
     PlanUpdated |-> "Running", Checkpointed |-> "Running",
     ApprovalRequested |-> "WaitingApproval", ApprovalResolved |-> "Running",
     Completed |-> "Completed", Failed |-> "Failed", Cancelled |-> "Cancelled"]

Ended == {"Completed", "Failed", "Cancelled"}

\* valid: ids, texts and size pass the checks of the record.
Event(kind) == [kind |-> kind, valid |-> TRUE, turns |-> 0, digest |-> NoDigest, request |-> NoRequest]
Unfit(event) == [event EXCEPT !.valid = FALSE]
Checkpoint(n, d) == [Event("Checkpointed") EXCEPT !.turns = n, !.digest = d]
Approval(kind, r) == [Event(kind) EXCEPT !.request = r]

NoCheckpoint == [turns |-> 0, digest |-> NoDigest, is |-> FALSE]

Fresh(schema) ==
    [schema |-> schema, status |-> "Pending", checkpoint |-> NoCheckpoint,
     pending |-> NoRequest, events |-> <<>>]

----------------------------------------------------------------------------
Sealed(r) == r.checkpoint.digest # NoDigest

\* The checkpoint has just been taken.
Checkpointed(r) == r.checkpoint.is /\ Last(r.events).kind = "Checkpointed"

\* A checkpoint never goes back; since schema 3 it has to move on.
Later(r, n) ==
    IF r.schema >= 3 THEN n > 0 /\ (r.checkpoint.is => n > r.checkpoint.turns)
                     ELSE r.checkpoint.is => n >= r.checkpoint.turns

\* The transition table.
Allows(r, e) ==
    \/ e.kind = "Started" /\ r.status = "Pending"
    \/ e.kind = "Resumed" /\ r.status = "Paused" /\ (r.schema >= 3 => Sealed(r))
    \/ /\ e.kind = "Paused" /\ r.status = "Running" /\ Checkpointed(r)
       /\ r.schema >= 3 => Sealed(r)
    \/ e.kind \in {"PlanUpdated", "ApprovalRequested", "Completed"} /\ r.status = "Running"
    \/ e.kind = "Checkpointed" /\ r.status = "Running" /\ Later(r, e.turns)
    \/ e.kind = "ApprovalResolved" /\ r.status = "WaitingApproval" /\ e.request = r.pending
    \/ e.kind = "Failed" /\ r.status \in {"Running", "WaitingApproval"}
    \/ e.kind = "Cancelled" /\ r.status \in {"Pending", "Running", "WaitingApproval"}

\* append accepts e; otherwise it changes nothing.
Accepts(r, e) == Len(r.events) < MaxEvents /\ Allows(r, e) /\ e.valid

After(r, e) ==
    [r EXCEPT
       !.status = StatusAfter[e.kind],
       !.checkpoint = IF e.kind = "Checkpointed"
                        THEN [turns |-> e.turns, digest |-> e.digest, is |-> TRUE] ELSE @,
       !.pending = IF e.kind = "ApprovalRequested" THEN e.request
                   ELSE IF r.status = "WaitingApproval" THEN NoRequest ELSE @,
       !.events = Append(@, e)]

----------------------------------------------------------------------------
\* Replay under a schema; a history that is refused somewhere has no status.
Replay(schema, events) ==
    FoldLeft(LAMBDA r, e : IF Accepts(r, e) THEN After(r, e) ELSE [r EXCEPT !.status = "Refused"],
             Fresh(schema), events)

\* restore accepts the stored record...
Restorable(r) ==
    /\ r.schema \in 1..Schema
    /\ r.schema = 1 => \A k \in 1..Len(r.events) : r.events[k].kind \notin {"Paused", "Resumed"}
    /\ Replay(r.schema, r.events) = r

\* ... and returns it under the schema of today.
Restored(r) == [r EXCEPT !.schema = Schema]
=============================================================================
