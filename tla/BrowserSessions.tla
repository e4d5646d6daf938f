-------------------------- MODULE BrowserSessions --------------------------
(***************************************************************************)
(* The session table of the browser host (src/src/server.rs): AnonStore    *)
(* with the connection threads that use its sessions, the snapshot         *)
(* directory behind it, and restarts of the host.                          *)
(*                                                                         *)
(* A session is an Arc<SessionData>.  The table maps a session id to one   *)
(* such object, each connection thread keeps a reference to the object it  *)
(* resolved, and an object lives as long as either refers to it: objects   *)
(* are numbered here so that two of them can carry the same session id.    *)
(* AnonStore::resolve holds the table's mutex from beginning to end, so it *)
(* is one action, except that the snapshot file may change between the     *)
(* load that finds it stale and its removal: persist does not take that    *)
(* mutex.  Guest state (VM and jobs) is the set of requests whose effects  *)
(* it contains.                                                            *)
(***************************************************************************)
EXTENDS Integers, FiniteSets

CONSTANTS
    Conns,        \* connection threads
    Owners,       \* authenticated identities
    Sids,         \* session ids generate_sid can return
    NoSid,        \* a cookie with a session id this host never issued
    MaxSessions,  \* MAX_GLOBAL_SESSIONS
    MaxAgents,    \* MAX_GLOBAL_CONCURRENT_AGENTS
    TTL,          \* SESSION_TTL, in ticks
    MinIdle,      \* MIN_EVICTABLE_IDLE, in ticks
    Durable,      \* whether A_RVM_SESSION_STATE_DIR is set
    MaxTime,      \* bound of the model: ticks
    MaxTickets,   \* bound of the model: state-changing requests
    MaxRestarts   \* bound of the model: restarts of the host

ASSUME SessionsAssumption ==
    /\ IsFiniteSet(Conns)
    /\ IsFiniteSet(Sids) /\ NoSid \notin Sids
    /\ MaxSessions \in Nat \ {0}
    /\ MaxAgents \in Nat \ {0}
    /\ TTL \in Nat /\ MinIdle \in Nat /\ MinIdle <= TTL
    /\ Durable \in BOOLEAN
    /\ MaxTime \in Nat /\ MaxTickets \in Nat /\ MaxRestarts \in Nat

VARIABLES
    map,      \* AnonStore.sessions: session id to object, 0 for no entry
    objs,     \* the SessionData objects
    disk,     \* the snapshot files, by owner and session id
    global,   \* ServerState.global_agents
    conn,     \* the connection threads
    used,     \* session ids issued so far
    now,      \* the clock, behind Instant and SystemTime alike
    tickets,  \* state-changing requests accepted so far
    saved,    \* per session id, the requests whose effects were persisted
    starts    \* restarts of the host so far

vars == <<map, objs, disk, global, conn, used, now, tickets, saved, starts>>

\* One object per table entry and one per connection can be alive.
Objs == 1..(MaxSessions + Cardinality(Conns))
Kinds == {"read", "write", "agent"}

Free == [sid |-> NoSid, owner |-> NoSid, data |-> {}, seen |-> 0, active |-> FALSE]
Object == [sid: Sids, owner: Owners, data: SUBSET (1..MaxTickets),
           seen: 0..MaxTime, active: BOOLEAN] \cup {Free}

NoFile == [data |-> {}, seen |-> -1]
File == [data: SUBSET (1..MaxTickets), seen: 0..MaxTime] \cup {NoFile}

\* ticket identifies the request: the effect it may have on the guest state.
Idle == [pc |-> "idle", obj |-> 0, kind |-> "read", owner |-> NoSid,
         sid |-> NoSid, ticket |-> 0]
ConnPc == {"idle", "discarding", "resolved", "waiting", "locked", "claimed",
           "running", "released", "handled"}
Conn == [pc: ConnPc, obj: {0} \cup Objs, kind: Kinds, owner: Owners \cup {NoSid},
         sid: Sids \cup {NoSid}, ticket: 0..MaxTickets]

TypeOK ==
    /\ map \in [Sids -> {0} \cup Objs]
    /\ objs \in [Objs -> Object]
    /\ disk \in [Owners \X Sids -> File]
    /\ global \in 0..Cardinality(Conns)
    /\ conn \in [Conns -> Conn]
    /\ used \subseteq Sids
    /\ now \in 0..MaxTime
    /\ tickets \in 0..MaxTickets
    /\ saved \in [Sids -> SUBSET (1..MaxTickets)]
    /\ starts \in 0..MaxRestarts

Init ==
    /\ map = [s \in Sids |-> 0]
    /\ objs = [o \in Objs |-> Free]
    /\ disk = [k \in Owners \X Sids |-> NoFile]
    /\ global = 0
    /\ conn = [c \in Conns |-> Idle]
    /\ used = {}
    /\ now = 0
    /\ tickets = 0
    /\ saved = [s \in Sids |-> {}]
    /\ starts = 0

----------------------------------------------------------------------------
Entries(m) == {s \in Sids : m[s] # 0}

\* An object nothing refers to any more is dropped.
Alive(m, cs) == {m[s] : s \in Sids} \cup {cs[c].obj : c \in Conns}
Collect(os, m, cs) == [o \in Objs |-> IF o \in Alive(m, cs) THEN os[o] ELSE Free]
NewObj(m) == CHOOSE o \in Objs : o \notin Alive(m, conn)

TableLocked == \E c \in Conns : conn[c].pc = "discarding"

\* resolve first drops every session idle for more than SESSION_TTL.
Swept == [s \in Sids |->
            IF map[s] # 0 /\ now - objs[map[s]].seen > TTL THEN 0 ELSE map[s]]

\* Mutant: a running agent does not protect its session.
Evictable_Active(m) == {s \in Entries(m) : now - objs[m[s]].seen >= MinIdle}

Evictable(m) == {s \in Entries(m) :
    /\ now - objs[m[s]].seen >= MinIdle
    /\ ~objs[m[s]].active}

LeastSeen(m, S) == {s \in S : \A t \in S : objs[m[s]].seen <= objs[m[t]].seen}

\* The tables make_room_for_session may leave: none when it fails.
MakeRoom(m) ==
    IF Cardinality(Entries(m)) < MaxSessions
      THEN {m}
      ELSE {[m EXCEPT ![s] = 0] : s \in LeastSeen(m, Evictable(m))}

\* SessionSnapshotStore: load finds the file of this owner and session, or none,
\* unless it fails; save puts the new file in place of the old one or leaves the old one,
\* by a rename; remove is content with a file that is gone.
Loads(r) == Durable /\ r.sid # NoSid
Loaded(r) == IF Loads(r) THEN disk[<<r.owner, r.sid>>] ELSE NoFile

Save(owner, sid, data) ==
    /\ disk' = [disk EXCEPT ![<<owner, sid>>] = [data |-> data, seen |-> now]]
    /\ saved' = [saved EXCEPT ![sid] = @ \cup data]

Remove(owner, sid) ==
    /\ disk' = [disk EXCEPT ![<<owner, sid>>] = NoFile]
    /\ saved' = [saved EXCEPT ![sid] = {}]

\* The request goes on with object o, its cookie and identity used up, or the
\* connection is closed (o = 0).
Proceed(c, r, o, m, os) ==
    LET cs == [conn EXCEPT ![c] =
                 IF o = 0 THEN Idle
                 ELSE [Idle EXCEPT !.pc = "resolved", !.obj = o, !.kind = r.kind,
                                   !.ticket = r.ticket]]
    IN  /\ conn' = cs
        /\ map' = m
        /\ objs' = Collect(os, m, cs)

Refuse(c, m) == Proceed(c, Idle, 0, m, objs)

\* Mutant: the restored guest state is dropped.
Enter_Empty(c, r, m, sid, owner, data) ==
    LET o == NewObj(m)
    IN  Proceed(c, r, o, [m EXCEPT ![sid] = o],
                [objs EXCEPT ![o] = [sid |-> sid, owner |-> owner, data |-> {},
                                     seen |-> now, active |-> FALSE]])

\* Room is made, then a session enters the table under sid.
Enter(c, r, m, sid, owner, data) ==
    LET o == NewObj(m)
    IN  Proceed(c, r, o, [m EXCEPT ![sid] = o],
                [objs EXCEPT ![o] = [sid |-> sid, owner |-> owner, data |-> data,
                                     seen |-> now, active |-> FALSE]])

\* generate_sid: 32 random bytes.  Which unused id it returns is immaterial.
FreshSid == CHOOSE sid \in Sids : sid \notin used

\* The last part of resolve: a new session under a new id.
Create(c, r, m) ==
    \/ /\ MakeRoom(m) = {}
       /\ Refuse(c, m)
       /\ UNCHANGED used
    \/ \E room \in MakeRoom(m) : Refuse(c, room) /\ UNCHANGED used   \* generate_sid fails
    \/ \E room \in MakeRoom(m) :
         /\ used # Sids    \* bound of the model: an id is left to issue
         /\ Enter(c, r, room, FreshSid, r.owner, {})
         /\ used' = used \cup {FreshSid}

Request(owner, sid, kind) ==
    [pc |-> "idle", obj |-> 0, kind |-> kind, owner |-> owner, sid |-> sid,
     ticket |-> IF kind = "read" THEN 0 ELSE tickets + 1]

\* The cookie names a live session of this owner.
Cached(r) ==
    /\ r.sid # NoSid
    /\ Swept[r.sid] # 0
    /\ objs[Swept[r.sid]].owner = r.owner

\* A snapshot young enough is restored, once there is room for its session; it
\* may turn out to be no session, and then the room stays.
Restore(c, r, file) ==
    \/ MakeRoom(Swept) = {} /\ Refuse(c, Swept)
    \/ \E room \in MakeRoom(Swept) : Enter(c, r, room, r.sid, r.owner, file.data)
    \/ \E room \in MakeRoom(Swept) : Refuse(c, room)

\* One that is too old is removed first, in a step of its own.
Expire(c, r) ==
    /\ used # Sids    \* bound of the model: an id is left to issue
    /\ map' = Swept
    /\ conn' = [conn EXCEPT ![c] = [r EXCEPT !.pc = "discarding"]]
    /\ objs' = Collect(objs, Swept, conn)

\* handle_connection reaches AnonStore::resolve with the request r.
Resolve(c, r) ==
    /\ conn[c].pc = "idle"
    /\ ~TableLocked
    /\ r.ticket <= MaxTickets
    /\ tickets' = IF r.ticket = 0 THEN tickets ELSE r.ticket
    /\ \/ /\ Cached(r)
          /\ Proceed(c, r, Swept[r.sid], Swept, [objs EXCEPT ![Swept[r.sid]].seen = now])
          /\ UNCHANGED used
       \/ /\ ~Cached(r)
          /\ LET file == Loaded(r)
             IN  \/ Loads(r) /\ Refuse(c, Swept) /\ UNCHANGED used
                 \/ file # NoFile /\ now - file.seen <= TTL /\ Restore(c, r, file) /\ UNCHANGED used
                 \/ file # NoFile /\ now - file.seen > TTL /\ Expire(c, r) /\ UNCHANGED used
                 \/ file = NoFile /\ Create(c, r, Swept)
    /\ UNCHANGED <<disk, global, now, saved, starts>>

\* The stale file is removed, and resolve goes on to a new session; where it
\* cannot be removed, the request is refused.
Discard(c) ==
    LET r == conn[c]
    IN  /\ r.pc = "discarding"
        /\ \/ Remove(r.owner, r.sid) /\ Create(c, r, map)
           \/ Refuse(c, map) /\ UNCHANGED <<disk, saved, used>>
        /\ UNCHANGED <<global, now, tickets, starts>>

Goto(c, pc) == conn' = [conn EXCEPT ![c].pc = pc]

Finish(c) ==
    LET cs == [conn EXCEPT ![c] = Idle]
    IN  conn' = cs /\ objs' = Collect(objs, map, cs)

----------------------------------------------------------------------------
(* handle_connection after resolve.  The rate window is not modelled: a     *)
(* request may always turn out to be the one over the limit.                *)

RateLimit(c) ==
    /\ conn[c].pc = "resolved"
    /\ Finish(c)
    /\ UNCHANGED <<map, disk, global, used, now, tickets, saved, starts>>

\* last_seen is refreshed before the wait for state_lock, not after it.
Admit(c) ==
    /\ conn[c].pc = "resolved"
    /\ objs' = [objs EXCEPT ![conn[c].obj].seen = now]
    /\ Goto(c, IF conn[c].kind = "read" THEN "handled" ELSE "waiting")
    /\ UNCHANGED <<map, disk, global, used, now, tickets, saved, starts>>

\* Mutant: a thread that waits for state_lock already excludes the others.
Holding_Waiting(c) == conn[c].pc \in {"waiting", "locked", "claimed", "running", "released", "handled"}
                        /\ conn[c].kind # "read"

Holding(c) == conn[c].pc \in {"locked", "claimed", "running", "released", "handled"}
                /\ conn[c].kind # "read"

Lock(c) ==
    /\ conn[c].pc = "waiting"
    /\ \A d \in Conns : Holding(d) => conn[d].obj # conn[c].obj
    /\ Goto(c, "locked")
    /\ UNCHANGED <<map, objs, disk, global, used, now, tickets, saved, starts>>

Touch(c) == objs' = [objs EXCEPT ![conn[c].obj].data = @ \cup {conn[c].ticket}]

\* An upload, application, tabulation or PDF handler, or one that refuses.
Handle(c) ==
    /\ conn[c].pc = "locked"
    /\ conn[c].kind = "write"
    /\ Touch(c) \/ UNCHANGED objs
    /\ Goto(c, "handled")
    /\ UNCHANGED <<map, disk, global, used, now, tickets, saved, starts>>

\* handle_agent claims agent_active.  Its answer 429 to a session that is
\* already active never happens: AgentAccounting shows that whoever holds
\* state_lock finds the flag clear.
ClaimAgent(c) ==
    /\ conn[c].pc = "locked"
    /\ conn[c].kind = "agent"
    /\ ~objs[conn[c].obj].active
    /\ objs' = [objs EXCEPT ![conn[c].obj].active = TRUE]
    /\ Goto(c, "claimed")
    /\ UNCHANGED <<map, disk, global, used, now, tickets, saved, starts>>

\* Mutant: the session stays marked active when the limit refuses it.
CountAgent_Leak(c) ==
    /\ conn[c].pc = "claimed"
    /\ \/ /\ global >= MaxAgents
          /\ Goto(c, "handled")
          /\ UNCHANGED global
       \/ /\ global < MaxAgents
          /\ global' = global + 1
          /\ Goto(c, "running")
    /\ UNCHANGED <<map, objs, disk, used, now, tickets, saved, starts>>

\* The global limit, under its own lock; the claim is undone at the limit.
CountAgent(c) ==
    /\ conn[c].pc = "claimed"
    /\ \/ /\ global >= MaxAgents
          /\ objs' = [objs EXCEPT ![conn[c].obj].active = FALSE]
          /\ Goto(c, "handled")
          /\ UNCHANGED global
       \/ /\ global < MaxAgents
          /\ global' = global + 1
          /\ Goto(c, "running")
          /\ UNCHANGED objs
    /\ UNCHANGED <<map, disk, used, now, tickets, saved, starts>>

\* A tool of the running turn changes the guest.
RunTool(c) ==
    /\ conn[c].pc = "running"
    /\ conn[c].ticket \notin objs[conn[c].obj].data
    /\ Touch(c)
    /\ UNCHANGED <<map, disk, global, conn, used, now, tickets, saved, starts>>

\* AgentActivityGuard::drop: agent_active first, the counter afterwards.
ReleaseActive(c) ==
    /\ conn[c].pc = "running"
    /\ objs' = [objs EXCEPT ![conn[c].obj].active = FALSE]
    /\ Goto(c, "released")
    /\ UNCHANGED <<map, disk, global, used, now, tickets, saved, starts>>

ReleaseGlobal(c) ==
    /\ conn[c].pc = "released"
    /\ global' = IF global = 0 THEN 0 ELSE global - 1
    /\ Goto(c, "handled")
    /\ UNCHANGED <<map, objs, disk, used, now, tickets, saved, starts>>

\* AnonStore::persist after the handler, still under state_lock; a failure
\* is only logged.  The file is replaced by a rename.
Persist(c) ==
    LET o == objs[conn[c].obj]
    IN  /\ conn[c].pc = "handled"
        /\ \/ UNCHANGED <<disk, saved>>
           \/ Durable /\ conn[c].kind # "read" /\ Save(o.owner, o.sid, o.data)
        /\ Finish(c)
        /\ UNCHANGED <<map, global, used, now, tickets, starts>>

Tick ==
    /\ now < MaxTime
    /\ now' = now + 1
    /\ UNCHANGED <<map, objs, disk, global, conn, used, tickets, saved, starts>>

\* The process dies and starts again: only the snapshot files remain.
Restart ==
    /\ starts < MaxRestarts
    /\ map' = [s \in Sids |-> 0]
    /\ objs' = [o \in Objs |-> Free]
    /\ conn' = [c \in Conns |-> Idle]
    /\ global' = 0
    /\ starts' = starts + 1
    /\ UNCHANGED <<disk, used, now, tickets, saved>>

----------------------------------------------------------------------------
Step(c) ==
    \/ Discard(c) \/ RateLimit(c) \/ Admit(c) \/ Lock(c) \/ Handle(c)
    \/ ClaimAgent(c) \/ CountAgent(c) \/ RunTool(c) \/ ReleaseActive(c)
    \/ ReleaseGlobal(c) \/ Persist(c)

\* The accept loop hands a request to one of its threads, if one is free.
Arrive(c) ==
    \E owner \in Owners, sid \in used \cup {NoSid}, kind \in Kinds :
        Resolve(c, Request(owner, sid, kind))

Next == (\E c \in Conns : Arrive(c) \/ Step(c)) \/ Tick \/ Restart

Spec == Init /\ [][Next]_vars

\* Connection threads run; a turn runs out of tools (step cap, turn deadline)
\* and ends.
FairSpec == Spec /\ \A c \in Conns : WF_vars(Step(c))

----------------------------------------------------------------------------
\* A session is marked active exactly while a request of it runs the agent,
\* and the global counter is exact at every moment between the two locks, so
\* no early return leaks a slot; a request that has state_lock never finds its
\* session already active (handle_agent, AgentActivityGuard).
AgentAccounting ==
    /\ \A o \in Objs : objs[o].active <=>
         \E c \in Conns : conn[c].obj = o /\ conn[c].pc \in {"claimed", "running"}
    /\ global = Cardinality({c \in Conns : conn[c].pc \in {"running", "released"}})
    /\ global <= MaxAgents
    /\ \A c \in Conns : conn[c].pc = "locked" => ~objs[conn[c].obj].active

\* A session leaves a running host's table only when it has expired, or when
\* it was idle for MIN_EVICTABLE_IDLE with no agent running (resolve,
\* make_room_for_session): a flood of newcomers cannot push out the others.
OnlyIdleSessionsLeave ==
    [][\A s \in Sids :
         map[s] # 0 /\ map'[s] # map[s] /\ starts' = starts =>
           LET o == objs[map[s]]
           IN  now - o.seen > TTL \/ (now - o.seen >= MinIdle /\ ~o.active)]_vars

\* While sessions are not old enough to be dropped, what was persisted is
\* never lost again: the file and every live copy contain it, across
\* restarts (persist under state_lock, restore in resolve).
PersistedSurvives ==
    now < MinIdle => \A s \in Sids :
        /\ \A o \in Owners : disk[<<o, s>>] # NoFile => saved[s] \subseteq disk[<<o, s>>].data
        /\ map[s] # 0 => saved[s] \subseteq objs[map[s]].data

\* Every accepted request is answered: nobody waits for state_lock forever.
EveryRequestEnds ==
    \A c \in Conns : (conn[c].pc # "idle") ~> (conn[c].pc = "idle")
=============================================================================
