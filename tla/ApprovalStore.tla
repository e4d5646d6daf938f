--------------------------- MODULE ApprovalStore ---------------------------
(***************************************************************************)
(* The approval store of one browser session (src/src/server.rs) with      *)
(* everything that touches it: the turn that asks (handle_agent), the      *)
(* POST /api/approval handlers that decide, and the POST /api/agent/cancel *)
(* handlers that cancel.                                                   *)
(*                                                                         *)
(* Each handler runs on its own connection thread.  ApprovalStore.states   *)
(* is guarded by a mutex that every method holds from its first access to  *)
(* its return, except while Condvar::wait_timeout has released it, so a    *)
(* method is one atomic action and a wait is cut at wait_timeout.  The     *)
(* atomics agent_active and agent_cancel are read and written outside the  *)
(* mutex, so every access to them is an action of its own.  Turns of one   *)
(* session never overlap (SessionData.state_lock, module BrowserSessions), *)
(* hence one agent thread here.                                            *)
(***************************************************************************)
EXTENDS Integers, FiniteSets

CONSTANTS
    Ids,          \* ids a permission request can carry; a model may reuse them
    Cancellers,   \* connections that may post /api/agent/cancel
    MaxTracked,   \* MAX_TRACKED_APPROVALS
    MaxTurns,     \* bound of the model: turns started
    MaxRequests,  \* bound of the model: permission requests announced
    MaxPosts      \* bound of the model: decisions posted by the browser

ASSUME ApprovalAssumption ==
    /\ MaxTracked \in Nat \ {0}
    /\ MaxTurns \in Nat
    /\ MaxRequests \in Nat
    /\ MaxPosts \in Nat

Reply == {"allow", "deny", "cancelled"}
\* ApprovalState, "absent" standing for an id without an entry.
ApprovalState == {"absent", "pending", "closed"} \cup Reply

VARIABLES
    states,   \* ApprovalStore.states
    active,   \* SessionData.agent_active
    cancel,   \* SessionData.agent_cancel
    pc,       \* where the agent thread is
    asking,   \* the id the agent is asking about, or the last one it asked
    askedIn,  \* the turn of that request
    cpc,      \* where each cancelling connection is
    mail,     \* decisions posted by the browser and not yet handled
    turn,     \* number of the current or last turn
    request,  \* number of permission requests announced so far
    posted,   \* number of decisions posted so far
    origin,   \* per id, the request its stored decision answered, and how
    outcome   \* how the last finished request ended

approvalVars == <<states, active, cancel, pc, asking, askedIn, cpc, mail, turn, request,
          posted, origin, outcome>>

(***************************************************************************)
(* A decision names an id only: nothing in the protocol says which request *)
(* the user was looking at.  The fields req and turn record it here; 0 is  *)
(* a decision nobody asked for.                                            *)
(***************************************************************************)
Decision == [id: Ids, reply: {"allow", "deny"},
             req: 0..MaxRequests, turn: 0..MaxTurns]

\* stored: the decision found no entry and was parked for a later request.
Origin == [req: 0..MaxRequests, turn: 0..MaxTurns, stored: BOOLEAN]
NoOrigin == [req |-> 0, turn |-> 0, stored |-> FALSE]

Outcome == [req: 0..MaxRequests, result: Reply \cup {"none", "timeout"},
            by: Origin]

AgentPc == {"idle", "claimed", "reset", "working", "asked",
            "blocked", "notified", "expired"}

ApprovalTypes ==
    /\ states \in [Ids -> ApprovalState]
    /\ active \in BOOLEAN
    /\ cancel \in BOOLEAN
    /\ pc \in AgentPc
    /\ asking \in Ids
    /\ askedIn \in 0..MaxTurns
    /\ cpc \in [Cancellers -> {"idle", "seen", "stored"}]
    /\ mail \subseteq Decision
    /\ turn \in 0..MaxTurns
    /\ request \in 0..MaxRequests
    /\ posted \in 0..MaxPosts
    /\ origin \in [Ids -> Origin]
    /\ outcome \in Outcome

ApprovalInit ==
    /\ states = [i \in Ids |-> "absent"]
    /\ active = FALSE
    /\ cancel = FALSE
    /\ pc = "idle"
    /\ asking \in Ids
    /\ askedIn = 0
    /\ cpc = [c \in Cancellers |-> "idle"]
    /\ mail = {}
    /\ turn = 0
    /\ request = 0
    /\ posted = 0
    /\ origin = [i \in Ids |-> NoOrigin]
    /\ outcome = [req |-> 0, result |-> "none", by |-> NoOrigin]

Tracked == {i \in Ids : states[i] # "absent"}

\* Condvar::notify_all: the waiting agent leaves the wait set.
Notify == pc' = IF pc = "blocked" THEN "notified" ELSE pc

----------------------------------------------------------------------------
(* The agent thread: handle_agent around one turn.                          *)

\* agent_active is claimed under its own lock ...
ClaimTurn ==
    /\ pc = "idle"
    /\ turn < MaxTurns
    /\ ~active
    /\ active' = TRUE
    /\ turn' = turn + 1
    /\ pc' = "claimed"
    /\ UNCHANGED <<states, cancel, asking, askedIn, cpc, mail, request, posted, origin, outcome>>

\* ... and agent_cancel is cleared after that lock has been released.
ResetCancel ==
    /\ pc = "claimed"
    /\ cancel' = FALSE
    /\ pc' = "reset"
    /\ UNCHANGED <<states, active, asking, askedIn, cpc, mail, turn, request, posted, origin, outcome>>

\* Too many concurrent agents, no model, or a registry error.
AbandonTurn ==
    /\ pc = "reset"
    /\ active' = FALSE
    /\ pc' = "idle"
    /\ UNCHANGED <<states, cancel, asking, askedIn, cpc, mail, turn, request, posted, origin, outcome>>

\* ApprovalStore::begin_turn forgets every entry.
BeginTurn ==
    /\ pc = "reset"
    /\ states' = [i \in Ids |-> "absent"]
    /\ origin' = [i \in Ids |-> NoOrigin]
    /\ pc' = "working"
    /\ UNCHANGED <<active, cancel, asking, askedIn, cpc, mail, turn, request, posted, outcome>>

\* The turn emits PermissionRequested; the browser can answer from here on.
Announce(i) ==
    /\ pc = "working"
    /\ request < MaxRequests
    /\ request' = request + 1
    /\ asking' = i
    /\ askedIn' = turn
    /\ pc' = "asked"
    /\ UNCHANGED <<states, active, cancel, cpc, mail, turn, posted, origin, outcome>>

\* A stream write fails: the agent thread cancels its own turn.
LoseClient ==
    /\ pc \in {"working", "asked"}
    /\ cancel' = TRUE
    /\ UNCHANGED <<states, active, pc, asking, askedIn, cpc, mail, turn, request, posted, origin, outcome>>

\* Mutant: the entry is removed instead of closed.
Answer_Removed(result, by) ==
    /\ states' = [states EXCEPT ![asking] = "absent"]
    /\ origin' = [origin EXCEPT ![asking] = NoOrigin]
    /\ outcome' = [req |-> request, result |-> result, by |-> by]
    /\ pc' = "working"

\* The request is answered: its entry is closed and the agent goes on.
Answer(result, by) ==
    /\ states' = [states EXCEPT ![asking] = "closed"]
    /\ origin' = [origin EXCEPT ![asking] = NoOrigin]
    /\ outcome' = [req |-> request, result |-> result, by |-> by]
    /\ pc' = "working"

\* Mutant: the entry is looked at before the cancel flag.
Settle_StateFirst(s) ==
    \/ /\ s = "pending" /\ ~cancel
       /\ states' = [states EXCEPT ![asking] = "pending"]
       /\ pc' = "blocked"
       /\ UNCHANGED <<origin, outcome>>
    \/ s = "pending" /\ cancel /\ Answer("cancelled", NoOrigin)
    \/ s # "pending" /\ Answer(IF s \in Reply THEN s ELSE "deny", origin[asking])

\* One round of the loop of wait_with_cancel, for an entry in state s.
Settle(s) ==
    \/ /\ cancel
       /\ Answer("cancelled", NoOrigin)
    \/ /\ ~cancel
       /\ s = "pending"
       /\ states' = [states EXCEPT ![asking] = "pending"]
       /\ pc' = "blocked"
       /\ UNCHANGED <<origin, outcome>>
    \/ /\ ~cancel
       /\ s # "pending"    \* an entry that vanished or closed denies
       /\ Answer(IF s \in Reply THEN s ELSE "deny", origin[asking])

\* wait_with_cancel opens the request unless a decision is already parked.
Register ==
    /\ pc = "asked"
    /\ Settle(IF states[asking] \in Reply THEN states[asking] ELSE "pending")
    /\ UNCHANGED <<active, cancel, asking, askedIn, cpc, mail, turn, request, posted>>

\* The notified thread has the mutex again.
Resume ==
    /\ pc = "notified"
    /\ Settle(states[asking])
    /\ UNCHANGED <<active, cancel, asking, askedIn, cpc, mail, turn, request, posted>>

\* Condition variables may wake without a notification.
WakeSpuriously ==
    /\ pc = "blocked"
    /\ pc' = "notified"
    /\ UNCHANGED <<states, active, cancel, asking, askedIn, cpc, mail, turn, request, posted, origin, outcome>>

\* 120 seconds passed: the thread left the wait set but has no mutex yet.
ExpireWait ==
    /\ pc = "blocked"
    /\ pc' = "expired"
    /\ UNCHANGED <<states, active, cancel, asking, askedIn, cpc, mail, turn, request, posted, origin, outcome>>

\* wait_timeout returned timed_out: closed and denied, whatever was stored.
TimeOut ==
    /\ pc = "expired"
    /\ Answer("timeout", NoOrigin)
    /\ UNCHANGED <<active, cancel, asking, askedIn, cpc, mail, turn, request, posted>>

\* handle_agent returns and AgentActivityGuard is dropped.
EndTurn ==
    /\ pc = "working"
    /\ active' = FALSE
    /\ pc' = "idle"
    /\ UNCHANGED <<states, cancel, asking, askedIn, cpc, mail, turn, request, posted, origin, outcome>>

----------------------------------------------------------------------------
(* The browser and the handlers of its other connections.                   *)

\* The user answers the request shown, or a script posts an id on its own.
Post(d) ==
    /\ posted < MaxPosts
    /\ \/ /\ request > 0
          /\ d.id = asking /\ d.req = request /\ d.turn = askedIn
       \/ d.req = 0 /\ d.turn = 0
    /\ posted' = posted + 1
    /\ mail' = mail \cup {d}
    /\ UNCHANGED <<states, active, cancel, pc, asking, askedIn, cpc, turn, request, origin, outcome>>

\* Whether resolve accepts a decision for id i.
Accepts(i) ==
    \/ states[i] = "pending"
    \/ states[i] = "absent" /\ Cardinality(Tracked) < MaxTracked

\* ApprovalStore::resolve, called by handle_approval.
ResolveApproval(d) ==
    /\ d \in mail
    /\ mail' = mail \ {d}
    /\ \/ /\ Accepts(d.id)
          /\ states' = [states EXCEPT ![d.id] = d.reply]
          /\ origin' = [origin EXCEPT ![d.id] =
                [req |-> d.req, turn |-> d.turn, stored |-> states[d.id] = "absent"]]
          /\ Notify
       \/ /\ ~Accepts(d.id)
          /\ UNCHANGED <<states, origin, pc>>
    /\ UNCHANGED <<active, cancel, asking, askedIn, cpc, turn, request, posted, outcome>>

\* handle_agent_cancel: the check of agent_active (409 changes nothing) ...
SeeActive(c) ==
    /\ cpc[c] = "idle"
    /\ active
    /\ cpc' = [cpc EXCEPT ![c] = "seen"]
    /\ UNCHANGED <<states, active, cancel, pc, asking, askedIn, mail, turn, request, posted, origin, outcome>>

\* ... the store to agent_cancel ...
StoreCancel(c) ==
    /\ cpc[c] = "seen"
    /\ cancel' = TRUE
    /\ cpc' = [cpc EXCEPT ![c] = "stored"]
    /\ UNCHANGED <<states, active, pc, asking, askedIn, mail, turn, request, posted, origin, outcome>>

\* Mutant: cancel_pending forgets to notify.
CancelPending_Silent(c) ==
    /\ cpc[c] = "stored"
    /\ states' = [i \in Ids |-> IF states[i] = "pending" THEN "cancelled" ELSE states[i]]
    /\ cpc' = [cpc EXCEPT ![c] = "idle"]
    /\ UNCHANGED <<active, cancel, pc, asking, askedIn, mail, turn, request, posted, origin, outcome>>

\* ... and ApprovalStore::cancel_pending, which notifies.
CancelPending(c) ==
    /\ cpc[c] = "stored"
    /\ states' = [i \in Ids |-> IF states[i] = "pending" THEN "cancelled" ELSE states[i]]
    /\ Notify
    /\ cpc' = [cpc EXCEPT ![c] = "idle"]
    /\ UNCHANGED <<active, cancel, asking, askedIn, mail, turn, request, posted, origin, outcome>>

----------------------------------------------------------------------------
Agent ==
    \/ ClaimTurn \/ ResetCancel \/ AbandonTurn \/ BeginTurn
    \/ \E i \in Ids : Announce(i)
    \/ LoseClient \/ Register \/ Resume \/ WakeSpuriously
    \/ ExpireWait \/ TimeOut \/ EndTurn

Browser ==
    \/ \E d \in Decision : Post(d)
    \/ \E d \in Decision : ResolveApproval(d)

Canceller(c) == SeeActive(c) \/ StoreCancel(c) \/ CancelPending(c)

ApprovalNext == Agent \/ Browser \/ \E c \in Cancellers : Canceller(c)

ApprovalSpec == ApprovalInit /\ [][ApprovalNext]_approvalVars

(***************************************************************************)
(* A thread that can run does run: the handlers are ordinary threads that  *)
(* neither block nor loop between these steps.  Nothing is assumed of the  *)
(* timer: a request must be released long before its 120 seconds.          *)
(***************************************************************************)
Fairness ==
    /\ WF_approvalVars(Register \/ Resume \/ TimeOut)
    /\ \A c \in Cancellers : WF_approvalVars(StoreCancel(c) \/ CancelPending(c))

FairApprovalSpec == ApprovalSpec /\ Fairness

----------------------------------------------------------------------------
Decided(i) == states[i] \in Reply
\* No wakeup is lost: while the agent sleeps, its request is still undecided,
\* and if the turn has been cancelled, the canceller that will wake it has
\* not yet reached cancel_pending (server.rs, wait_with_cancel against
\* resolve, handle_agent_cancel and begin_turn).
NoLostWakeup ==
    pc = "blocked" =>
        /\ states[asking] = "pending"
        /\ cancel => \E c \in Cancellers : cpc[c] = "stored"

\* A decision that was parked is used by the request it answered and by no
\* later request of the same turn that reuses the id: a closed entry refuses
\* late decisions until the turn ends (ApprovalState::Closed).
NoReplayWithinTurn ==
    outcome.by.stored /\ outcome.by.turn = turn /\ turn > 0
        => outcome.by.req = outcome.req

\* The request announced last and not registered yet is r, under id i.
Fresh(i, r) == pc = "asked" /\ asking = i /\ request = r

\* Why: a parked decision of the current turn answers the one request that
\* is announced and not yet registered, and a decision still in the mail
\* answers that one or finds the entry of its id taken.  (With
\* NoReplayWithinTurn it is inductive.)
ParkedIsFresh ==
    /\ askedIn <= turn
    /\ pc \in {"claimed", "reset"} => askedIn < turn
    /\ pc \in {"asked", "blocked", "notified", "expired"} => askedIn = turn
    /\ askedIn = turn /\ turn > 0 /\ pc # "asked" => states[asking] # "absent"
    /\ \A d \in mail :
         /\ d.turn <= askedIn
         /\ d.req = 0 => d.turn = 0
         /\ d.turn = turn /\ turn > 0 =>
              Fresh(d.id, d.req) \/ states[d.id] # "absent"
    /\ \A i \in Ids :
         /\ origin[i].turn <= askedIn
         /\ origin[i].stored => Decided(i)
         /\ origin[i].stored /\ origin[i].turn = turn /\ turn > 0 =>
              Fresh(i, origin[i].req)
    /\ outcome.by.turn <= askedIn

\* A turn cancelled while it runs is never granted anything any more: once the
\* flag is set after its reset, every later answer of that turn is a denial.
CancelledTurnIsDenied ==
    [][cancel /\ pc \in {"asked", "notified", "expired"} /\ pc' = "working"
         => outcome'.result # "allow"]_approvalVars

\* A cancellation releases a waiting agent, without help from its timeout:
\* cancel_pending runs after the store to agent_cancel and wakes whoever
\* registered before the store (handle_agent_cancel, wait_with_cancel).
CancelReleasesAgent ==
    (pc \in {"blocked", "notified"} /\ cancel) ~> (pc \notin {"blocked", "notified"})

=============================================================================
