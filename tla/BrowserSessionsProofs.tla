----------------------- MODULE BrowserSessionsProofs -----------------------
(***************************************************************************)
(* What holds of the session table for any number of connections, owners,  *)
(* session ids, places and agents, and any times: agent slots are exact,   *)
(* only idle or expired sessions leave, and what was persisted survives.   *)
(*                                                                         *)
(* The argument: an object the table or a connection refers to is never    *)
(* the one NewObj picks, of which one is always left; a session id has one *)
(* owner, in every object and file that carries it; and at most one        *)
(* connection holds the state_lock of an object.                           *)
(***************************************************************************)
EXTENDS BrowserSessions, ApprovalStore, FiniteSetTheorems, TLAPS

Agents == {c \in Conns : conn[c].pc \in {"running", "released"}}

\* A connection with an object, or none.
InUse == {"resolved", "waiting", "locked", "claimed", "running", "released", "handled"}

ConnInv(c) ==
    /\ conn[c].pc \in InUse <=> conn[c].obj # 0
    /\ conn[c].pc = "discarding" => conn[c].owner \in Owners /\ conn[c].sid \in used
    /\ conn[c].kind # "read" => conn[c].ticket # 0
    /\ conn[c].pc \in {"waiting", "locked", "claimed", "running", "released"} =>
          conn[c].kind # "read"

\* Whoever is in the table or in use is a session.
TableInv ==
    /\ Cardinality(Entries(map)) <= MaxSessions
    /\ \A s \in Sids : map[s] # 0 => objs[map[s]].sid = s
    /\ \A c \in Conns : conn[c].obj # 0 => objs[conn[c].obj] # Free

\* A session id belongs to its first owner.
OwnerInv ==
    /\ \A o \in Objs : objs[o] # Free => objs[o].sid \in used
    /\ \A w \in Owners, s \in Sids : disk[<<w, s>>] # NoFile => s \in used
    /\ \A s \in Sids : s \notin used => saved[s] = {}
    /\ \A o, p \in Objs :
          objs[o] # Free /\ objs[p] # Free /\ objs[o].sid = objs[p].sid =>
             objs[o].owner = objs[p].owner
    /\ \A o \in Objs, w \in Owners :
          objs[o] # Free /\ disk[<<w, objs[o].sid>>] # NoFile => objs[o].owner = w
    /\ \A v, w \in Owners, s \in Sids : disk[<<v, s>>] # NoFile /\ disk[<<w, s>>] # NoFile => v = w

\* One thread at a time holds the state_lock of a session.
LockInv ==
    \A c, d \in Conns : Holding(c) /\ Holding(d) /\ conn[c].obj = conn[d].obj => c = d

\* Before any session can be dropped, what is in use is in the table.
HereInv ==
    now < MinIdle => \A c \in Conns : conn[c].obj # 0 => map[objs[conn[c].obj].sid] = conn[c].obj

SessionInv ==
    /\ TypeOK
    /\ \A c \in Conns : ConnInv(c)
    /\ TableInv
    /\ OwnerInv
    /\ LockInv
    /\ AgentAccounting
    /\ HereInv
    /\ PersistedSurvives

(***************************************************************************)
(* Rooms and new objects                                                   *)
(***************************************************************************)
\* What the table may become before a session enters: only expired or idle
\* sessions are gone.
Left(m) ==
    /\ m \in [Sids -> {0} \cup Objs]
    /\ \A s \in Sids : m[s] # map[s] =>
          /\ m[s] = 0
          /\ \/ now - objs[map[s]].seen > TTL
             \/ now - objs[map[s]].seen >= MinIdle /\ ~objs[map[s]].active

LEMMA ObjsAreNumbers ==
    /\ Objs \subseteq Nat /\ 0 \notin Objs
    /\ IsFiniteSet(Objs) /\ Cardinality(Objs) = MaxSessions + Cardinality(Conns)
<1>1. Cardinality(Conns) \in Nat /\ MaxSessions \in Nat
  BY SessionsAssumption, FS_CardinalityType
<1>2. MaxSessions + Cardinality(Conns) \in Nat /\ MaxSessions + Cardinality(Conns) >= 1
  BY <1>1, SessionsAssumption
<1> DEFINE n == MaxSessions + Cardinality(Conns)
<1>3. Objs = 1..n  BY DEF Objs
<1>4. n \in Nat /\ n >= 1  BY <1>2
<1> HIDE DEF n
<1>5. IsFiniteSet(1..n) /\ Cardinality(1..n) = n  BY <1>4, FS_Interval
<1>6. Objs \subseteq Nat /\ 0 \notin Objs  BY <1>3, <1>4
<1> QED  BY <1>3, <1>5, <1>6 DEF n

LEMMA ObjTyped ==
    ASSUME TypeOK, NEW o \in Objs
    PROVE  /\ objs[o] \in Object
           /\ objs[o].seen \in 0..MaxTime /\ objs[o].active \in BOOLEAN
           /\ objs[o].data \in SUBSET (1..MaxTickets)
           /\ objs[o] # Free => objs[o].sid \in Sids /\ objs[o].owner \in Owners
<1>1. objs[o] \in Object  BY DEF TypeOK
<1>2. CASE objs[o] = Free  BY <1>1, <1>2, SessionsAssumption DEF Free
<1>3. CASE objs[o] # Free
  BY <1>1, <1>3 DEF Object
<1> QED  BY <1>1, <1>2, <1>3

LEMMA ConnTyped ==
    ASSUME TypeOK, NEW c \in Conns
    PROVE  /\ conn[c] \in Conn
           /\ conn[c].pc \in ConnPc /\ conn[c].obj \in {0} \cup Objs /\ conn[c].kind \in Kinds
           /\ conn[c].owner \in Owners \cup {NoSid} /\ conn[c].sid \in Sids \cup {NoSid}
           /\ conn[c].ticket \in 0..MaxTickets
BY DEF TypeOK, Conn

LEMMA MapLeft == TypeOK => Left(map)
BY DEF TypeOK, Left

LEMMA SweptLeft == TypeOK => Left(Swept)
BY DEF TypeOK, Left, Swept

LEMMA RoomLeft ==
    ASSUME TypeOK, TableInv, NEW m, Left(m), NEW room \in MakeRoom(m)
    PROVE  Left(room) /\ Cardinality(Entries(room)) < MaxSessions
<1>1. IsFiniteSet(Entries(map)) /\ Cardinality(Entries(map)) \in Nat
  BY SessionsAssumption, FS_Subset, FS_CardinalityType DEF Entries
<1>2. Entries(m) \subseteq Entries(map)  BY DEF Left, Entries
<1>3. /\ IsFiniteSet(Entries(m)) /\ Cardinality(Entries(m)) \in Nat
      /\ Cardinality(Entries(m)) <= MaxSessions
  <2>1. Cardinality(Entries(m)) <= Cardinality(Entries(map)) /\ IsFiniteSet(Entries(m))
    BY <1>1, <1>2, FS_Subset
  <2>2. Cardinality(Entries(m)) \in Nat  BY <2>1, FS_CardinalityType
  <2> QED  BY <1>1, <2>1, <2>2, SessionsAssumption DEF TableInv
<1>4. CASE Cardinality(Entries(m)) < MaxSessions  BY <1>4 DEF MakeRoom
<1>5. CASE ~(Cardinality(Entries(m)) < MaxSessions)
  <2>1. PICK s \in LeastSeen(m, Evictable(m)) : room = [m EXCEPT ![s] = 0]
    BY <1>5 DEF MakeRoom
  <2>2. s \in Evictable(m) /\ s \in Sids /\ m[s] # 0
    BY <2>1 DEF LeastSeen, Evictable, Entries
  <2>3. m[s] = map[s]  BY <2>2 DEF Left
  <2>4. Left(room)  BY <2>1, <2>2, <2>3 DEF Left, Evictable
  <2>5. Entries(room) = Entries(m) \ {s}  BY <2>1, <2>2 DEF Entries, Left
  <2>6. s \in Entries(m)  BY <2>2 DEF Entries
  <2>7. Cardinality(Entries(room)) = Cardinality(Entries(m)) - 1
    BY <1>3, <2>5, <2>6, FS_RemoveElement
  <2> QED  BY <1>3, <2>4, <2>7, SessionsAssumption
<1> QED  BY <1>4, <1>5

\* With a place left, and the connection c still without an object, there is an
\* object for a new session.
LEMMA NewObject ==
    ASSUME TypeOK, NEW m \in [Sids -> {0} \cup Objs], Cardinality(Entries(m)) < MaxSessions,
           NEW c \in Conns, conn[c].obj = 0
    PROVE  NewObj(m) \in Objs /\ NewObj(m) \notin Alive(m, conn)
<1> DEFINE listed == [s \in Entries(m) |-> m[s]]
           L == {m[s] : s \in Entries(m)}
           held == [d \in Conns \ {c} |-> conn[d].obj]
           H == {conn[d].obj : d \in Conns \ {c}}
<1>1. /\ IsFiniteSet(L) /\ Cardinality(L) <= Cardinality(Entries(m))
      /\ Cardinality(L) \in Nat /\ Cardinality(Entries(m)) \in Nat
  <2>1. IsFiniteSet(Entries(m))  BY SessionsAssumption, FS_Subset DEF Entries
  <2>2. listed \in Surjection(Entries(m), L)  BY DEF Surjection
  <2> HIDE DEF L, listed
  <2> QED  BY <2>1, <2>2, FS_Surjection, FS_CardinalityType
<1>2. /\ IsFiniteSet(H) /\ Cardinality(H) <= Cardinality(Conns) - 1
      /\ Cardinality(H) \in Nat /\ Cardinality(Conns) \in Nat
  <2>1. /\ IsFiniteSet(Conns \ {c}) /\ Cardinality(Conns \ {c}) = Cardinality(Conns) - 1
        /\ Cardinality(Conns) \in Nat
    BY SessionsAssumption, FS_RemoveElement, FS_CardinalityType
  <2>2. held \in Surjection(Conns \ {c}, H)  BY DEF Surjection
  <2> HIDE DEF H, held
  <2> QED  BY <2>1, <2>2, FS_Surjection, FS_CardinalityType
<1> HIDE DEF L, H
<1>3. \E o \in Objs : o \notin L \cup H
  <2>1. SUFFICES ASSUME Objs \subseteq L \cup H PROVE FALSE  OBVIOUS
  <2>2. /\ IsFiniteSet(L \cup H) /\ Cardinality(L \cap H) \in Nat
        /\ Cardinality(L \cup H) = Cardinality(L) + Cardinality(H) - Cardinality(L \cap H)
    BY <1>1, <1>2, FS_Union, FS_Intersection, FS_CardinalityType
  <2>3. Cardinality(Objs) <= Cardinality(L \cup H)  BY <2>1, <2>2, FS_Subset
  <2> QED  BY <1>1, <1>2, <2>2, <2>3, ObjsAreNumbers, SessionsAssumption
<1>4. Alive(m, conn) \subseteq L \cup H \cup {0}  BY DEF Alive, L, H, Entries
<1>5. \E o \in Objs : o \notin Alive(m, conn)  BY <1>3, <1>4, ObjsAreNumbers
<1> QED  BY <1>5 DEF NewObj

(***************************************************************************)
(* What a step does to the table                                           *)
(***************************************************************************)
LEMMA Collected ==
    ASSUME NEW os, NEW m, NEW cs
    PROVE  /\ DOMAIN Collect(os, m, cs) = Objs
           /\ \A o \in Objs : /\ Collect(os, m, cs)[o] \in {os[o], Free}
                              /\ o \in Alive(m, cs) => Collect(os, m, cs)[o] = os[o]
BY DEF Collect

\* A request ends without a session, or its connection gives its object back.
Leaves(c) ==
    /\ conn[c].pc \in {"idle", "discarding", "resolved", "handled"}
    /\ Left(map')
    /\ conn' = [conn EXCEPT ![c] = Idle]
    /\ objs' = Collect(objs, map', conn')
    /\ used' = used

\* A request that has reached resolve.
Asking(r) ==
    /\ r.owner \in Owners /\ r.kind \in Kinds /\ r.ticket \in 0..MaxTickets
    /\ r.kind # "read" => r.ticket # 0

\* A connection with object o.
Using(r, o) ==
    /\ r \in Conn
    /\ r.pc = "resolved" /\ r.obj = o
    /\ r.kind # "read" => r.ticket # 0

\* A request finds its session.
Hits(c) ==
    /\ conn[c].pc = "idle"
    /\ map' = Swept /\ used' = used
    /\ \E s \in Sids, r \in Conn :
          /\ Swept[s] # 0
          /\ Using(r, Swept[s])
          /\ conn' = [conn EXCEPT ![c] = r]
          /\ objs' = Collect([objs EXCEPT ![Swept[s]].seen = now], map', conn')

\* A session enters, a new one or one restored from its file.
EntersAs(c, m, sid, owner, data, o, r) ==
    /\ Left(m) /\ m[sid] = 0 /\ Cardinality(Entries(m)) < MaxSessions
    /\ o \notin Alive(m, conn)
    /\ Using(r, o)
    /\ map' = [m EXCEPT ![sid] = o]
    /\ conn' = [conn EXCEPT ![c] = r]
    /\ objs' = Collect([objs EXCEPT ![o] = [sid |-> sid, owner |-> owner, data |-> data,
                                            seen |-> now, active |-> FALSE]], map', conn')
    /\ \/ sid \notin used /\ used' = used \cup {sid} /\ data = {}
       \/ /\ sid \in used /\ used' = used /\ disk[<<owner, sid>>] # NoFile
          /\ data = disk[<<owner, sid>>].data
          /\ UNCHANGED <<disk, saved>>

Enters(c) ==
    /\ conn[c].pc \in {"idle", "discarding"}
    /\ \E m, r : \E sid \in Sids, owner \in Owners, o \in Objs, data \in SUBSET (1..MaxTickets) :
          EntersAs(c, m, sid, owner, data, o, r)

\* A file is found too old.
Expires(c) ==
    /\ conn[c].pc = "idle"
    /\ map' = Swept /\ used' = used
    /\ objs' = Collect(objs, map', conn)
    /\ \E r \in Conn :
          /\ r.pc = "discarding" /\ r.obj = 0 /\ r.sid \in used /\ Asking(r)
          /\ conn' = [conn EXCEPT ![c] = r]

Removes == \E w \in Owners, s \in used : Remove(w, s)

Saves(c) ==
    /\ conn[c].pc = "handled"
    /\ Save(objs[conn[c].obj].owner, objs[conn[c].obj].sid, objs[conn[c].obj].data)

\* What the table, the files and the clock have of a step of resolve or persist.
TableMove(c) ==
    /\ UNCHANGED <<global, now, starts>>
    /\ tickets' \in 0..MaxTickets
    /\ \/ UNCHANGED <<disk, saved>> /\ (Leaves(c) \/ Hits(c) \/ Enters(c) \/ Expires(c))
       \/ Removes /\ (Leaves(c) \/ Enters(c))
       \/ Saves(c) /\ Leaves(c)

LEMMA RequestIsConn ==
    ASSUME NEW r, Asking(r), NEW o \in Objs
    PROVE  LET n == [Idle EXCEPT !.pc = "resolved", !.obj = o, !.kind = r.kind,
                                 !.ticket = r.ticket]
           IN  Using(n, o)
<1> DEFINE n == [Idle EXCEPT !.pc = "resolved", !.obj = o, !.kind = r.kind, !.ticket = r.ticket]
<1>1. r.kind \in Kinds /\ r.ticket \in 0..MaxTickets  BY DEF Asking
<1>2. n \in Conn  BY <1>1 DEF Idle, Conn, ConnPc
<1>3. n.pc = "resolved" /\ n.obj = o /\ n.kind = r.kind /\ n.ticket = r.ticket  BY DEF Idle
<1> QED  BY <1>2, <1>3 DEF Using, Asking

LEMMA RefuseLeaves ==
    ASSUME NEW c, conn[c].pc \in {"idle", "discarding"}, NEW m, Left(m), Refuse(c, m), used' = used
    PROVE  Leaves(c)
BY DEF Refuse, Proceed, Leaves

LEMMA EnterEnters ==
    ASSUME TypeOK, NEW c \in Conns, conn[c].pc \in {"idle", "discarding"}, conn[c].obj = 0,
           NEW r, Asking(r), NEW m, Left(m), Cardinality(Entries(m)) < MaxSessions,
           NEW sid \in Sids, m[sid] = 0, NEW owner \in Owners,
           NEW data \in SUBSET (1..MaxTickets), Enter(c, r, m, sid, owner, data),
           \/ sid \notin used /\ used' = used \cup {sid} /\ data = {}
           \/ /\ sid \in used /\ used' = used /\ disk[<<owner, sid>>] # NoFile
              /\ data = disk[<<owner, sid>>].data
              /\ UNCHANGED <<disk, saved>>
    PROVE  Enters(c)
<1> DEFINE o == NewObj(m)
           n == [Idle EXCEPT !.pc = "resolved", !.obj = o, !.kind = r.kind, !.ticket = r.ticket]
           os == [objs EXCEPT ![o] = [sid |-> sid, owner |-> owner, data |-> data,
                                      seen |-> now, active |-> FALSE]]
<1>1. o \in Objs /\ o \notin Alive(m, conn)  BY NewObject DEF Left
<1>2. o # 0  BY <1>1, ObjsAreNumbers
<1>3. Proceed(c, r, o, [m EXCEPT ![sid] = o], os)  BY DEF Enter
<1> HIDE DEF o, os
<1>4. /\ map' = [m EXCEPT ![sid] = o] /\ conn' = [conn EXCEPT ![c] = n]
      /\ objs' = Collect(os, map', conn')
  BY <1>2, <1>3 DEF Proceed
<1>5. Using(n, o)  BY <1>1, RequestIsConn
<1> HIDE DEF n
<1>6. EntersAs(c, m, sid, owner, data, o, n)  BY <1>1, <1>4, <1>5 DEF EntersAs, os
<1> QED  BY <1>1, <1>6 DEF Enters

\* The last part of resolve.
LEMMA CreateMoves ==
    ASSUME TypeOK, TableInv, OwnerInv, NEW c \in Conns, conn[c].pc \in {"idle", "discarding"},
           conn[c].obj = 0, NEW r, Asking(r), NEW m, Left(m), Create(c, r, m)
    PROVE  Leaves(c) \/ Enters(c)
<1>1. CASE Refuse(c, m) /\ UNCHANGED used  BY <1>1, RefuseLeaves
<1>2. CASE \E room \in MakeRoom(m) : Refuse(c, room) /\ UNCHANGED used
  BY <1>2, RoomLeft, RefuseLeaves
<1>3. ASSUME NEW room \in MakeRoom(m), used # Sids, Enter(c, r, room, FreshSid, r.owner, {}),
             used' = used \cup {FreshSid}
      PROVE  Enters(c)
  <2>1. FreshSid \in Sids /\ FreshSid \notin used  BY <1>3 DEF FreshSid, TypeOK
  <2>2. Left(room) /\ Cardinality(Entries(room)) < MaxSessions  BY RoomLeft
  <2>3. map[FreshSid] = 0
    <3>1. SUFFICES ASSUME map[FreshSid] # 0 PROVE FALSE  OBVIOUS
    <3>2. map[FreshSid] \in Objs /\ objs[map[FreshSid]].sid = FreshSid
      BY <2>1, <3>1 DEF TypeOK, TableInv
    <3>3. objs[map[FreshSid]] # Free  BY <2>1, <3>2, SessionsAssumption DEF Free
    <3> QED  BY <2>1, <3>2, <3>3 DEF OwnerInv
  <2>4. room[FreshSid] = 0  BY <2>1, <2>2, <2>3 DEF Left
  <2>5. r.owner \in Owners /\ {} \in SUBSET (1..MaxTickets)  BY DEF Asking
  <2> QED  BY <1>3, <2>1, <2>2, <2>4, <2>5, EnterEnters, Zenon
<1> QED  BY <1>1, <1>2, <1>3 DEF Create

LEMMA RequestAsks ==
    ASSUME TypeOK, NEW owner \in Owners, NEW sid \in used \cup {NoSid}, NEW kind \in Kinds,
           Request(owner, sid, kind).ticket <= MaxTickets
    PROVE  LET r == Request(owner, sid, kind)
           IN  Asking(r) /\ r \in Conn /\ r.sid = sid /\ r.owner = owner /\ r.obj = 0
<1> DEFINE t == IF kind = "read" THEN 0 ELSE tickets + 1
           r == Request(owner, sid, kind)
<1>1. r = [pc |-> "idle", obj |-> 0, kind |-> kind, owner |-> owner, sid |-> sid, ticket |-> t]
  BY DEF Request
<1>2. tickets \in Nat /\ MaxTickets \in Nat /\ used \subseteq Sids
  BY SessionsAssumption DEF TypeOK
<1>3. t \in Nat /\ (kind # "read" => t # 0)  BY <1>2
<1> HIDE DEF t, r
<1>4. t <= MaxTickets  BY <1>1 DEF r
<1>5. t \in 0..MaxTickets  BY <1>2, <1>3, <1>4
<1>6. r \in Conn  BY <1>1, <1>2, <1>5 DEF Conn, ConnPc
<1> QED  BY <1>1, <1>3, <1>5, <1>6 DEF Asking, r

\* A stale file is marked for removal.
LEMMA ExpireExpires ==
    ASSUME NEW c, conn[c].pc = "idle", NEW r \in Conn, Asking(r), r.obj = 0, r.sid \in used,
           Expire(c, r), used' = used
    PROVE  Expires(c)
<1> DEFINE n == [r EXCEPT !.pc = "discarding"]
<1>1. n \in Conn  BY DEF Conn, ConnPc
<1>2. n.pc = "discarding" /\ n.obj = 0 /\ n.sid \in used /\ Asking(n)  BY DEF Conn, Asking
<1>3. conn' = [conn EXCEPT ![c] = n] /\ map' = Swept /\ objs' = Collect(objs, map', conn)
  BY DEF Expire
<1> HIDE DEF n
<1> QED  BY <1>1, <1>2, <1>3 DEF Expires

LEMMA ResolveMoves ==
    ASSUME TypeOK, \A d \in Conns : ConnInv(d), TableInv, OwnerInv, NEW c \in Conns, Arrive(c)
    PROVE  TableMove(c)
<1>1. PICK owner \in Owners, sid \in used \cup {NoSid}, kind \in Kinds :
        Resolve(c, Request(owner, sid, kind))
  BY DEF Arrive
<1> DEFINE r == Request(owner, sid, kind)
<1>2. Asking(r) /\ r \in Conn /\ r.sid = sid /\ r.owner = owner /\ r.obj = 0
  BY <1>1, RequestAsks DEF Resolve
<1>3. Resolve(c, r)  BY <1>1
<1> HIDE DEF r
<1>4. conn[c].pc = "idle" /\ conn[c].obj = 0
  BY <1>3 DEF Resolve, ConnInv, InUse
<1>5. UNCHANGED <<disk, global, now, saved, starts>> /\ tickets' \in 0..MaxTickets
  BY <1>2, <1>3 DEF Resolve, Asking, TypeOK
<1>6. Left(Swept)  BY SweptLeft
<1>7. used \subseteq Sids  BY DEF TypeOK
<1>8. CASE /\ Cached(r) /\ UNCHANGED used
           /\ Proceed(c, r, Swept[r.sid], Swept, [objs EXCEPT ![Swept[r.sid]].seen = now])
  <2> DEFINE o == Swept[r.sid]
             n == [Idle EXCEPT !.pc = "resolved", !.obj = o, !.kind = r.kind,
                               !.ticket = r.ticket]
  <2>1. r.sid \in Sids /\ o \in Objs /\ o # 0  BY <1>2, <1>6, <1>7, <1>8 DEF Cached, Left
  <2>2. Using(n, o)  BY <1>2, <2>1, RequestIsConn
  <2>3. /\ map' = Swept /\ conn' = [conn EXCEPT ![c] = n]
        /\ objs' = Collect([objs EXCEPT ![o].seen = now], map', conn')
    BY <1>8, <2>1 DEF Proceed
  <2> HIDE DEF n
  <2>4. Hits(c)  BY <1>4, <1>8, <2>1, <2>2, <2>3 DEF Hits, Using
  <2> QED  BY <1>5, <2>4 DEF TableMove
<1>9. CASE Refuse(c, Swept) /\ UNCHANGED used
  BY <1>4, <1>5, <1>6, <1>9, RefuseLeaves DEF TableMove
<1>10. CASE /\ ~Cached(r) /\ Loaded(r) # NoFile /\ UNCHANGED used
            /\ Restore(c, r, Loaded(r))
  <2>1. Loads(r) /\ Loaded(r) = disk[<<owner, sid>>]  BY <1>2, <1>10 DEF Loaded
  <2>2. sid \in used /\ sid \in Sids  BY <1>2, <1>7, <2>1 DEF Loads
  <2>3. /\ disk[<<owner, sid>>] # NoFile
        /\ disk[<<owner, sid>>].data \in SUBSET (1..MaxTickets)
    <3>1. disk[<<owner, sid>>] \in File  BY <2>2 DEF TypeOK
    <3> QED  BY <1>10, <2>1, <3>1 DEF File
  <2>4. Swept[sid] = 0
    <3>1. SUFFICES ASSUME Swept[sid] # 0 PROVE FALSE  OBVIOUS
    <3>2. map[sid] \in Objs /\ Swept[sid] = map[sid] /\ map[sid] # 0
      BY <1>6, <2>2, <3>1 DEF Left
    <3>3. objs[map[sid]].sid = sid /\ objs[map[sid]].owner # owner
      BY <1>2, <1>10, <2>1, <2>2, <3>2 DEF TableInv, Cached, Loads
    <3>4. objs[map[sid]] # Free  BY <2>2, <3>3, SessionsAssumption DEF Free
    <3>5. disk[<<owner, objs[map[sid]].sid>>] # NoFile  BY <2>3, <3>3
    <3>6. objs[map[sid]].owner = owner  BY <3>2, <3>4, <3>5, Zenon DEF OwnerInv
    <3> QED  BY <3>3, <3>6
  <2>5. CASE \E room \in {Swept} \cup MakeRoom(Swept) : Refuse(c, room)
    BY <1>4, <1>5, <1>6, <1>10, <2>5, RoomLeft, RefuseLeaves DEF TableMove
  <2>6. CASE \E room \in MakeRoom(Swept) : Enter(c, r, room, r.sid, r.owner, Loaded(r).data)
    <3>1. PICK room \in MakeRoom(Swept) :
            Enter(c, r, room, sid, owner, disk[<<owner, sid>>].data)
      BY <1>2, <2>1, <2>6
    <3>2. Left(room) /\ Cardinality(Entries(room)) < MaxSessions  BY <1>6, RoomLeft
    <3>3. room[sid] = 0
      BY <1>6, <2>2, <2>4, <3>1 DEF MakeRoom, LeastSeen, Evictable, Entries, Left
    <3>4. UNCHANGED <<disk, saved>> /\ used' = used  BY <1>5, <1>10
    <3>5. Enters(c)
      BY <1>2, <1>4, <2>2, <2>3, <3>1, <3>2, <3>3, <3>4, EnterEnters, Zenon
    <3> QED  BY <1>5, <3>5 DEF TableMove
  <2> QED  BY <1>10, <2>5, <2>6 DEF Restore
<1>11. CASE Loaded(r) # NoFile /\ Expire(c, r) /\ UNCHANGED used
  <2>1. r.sid \in used  BY <1>2, <1>11 DEF Loaded, Loads
  <2>2. Expires(c)  BY <1>2, <1>4, <1>11, <2>1, ExpireExpires
  <2> QED  BY <1>5, <2>2 DEF TableMove
<1>12. CASE Create(c, r, Swept)
  <2>1. Leaves(c) \/ Enters(c)  BY <1>2, <1>4, <1>6, <1>12, CreateMoves
  <2> QED  BY <1>5, <2>1 DEF TableMove
<1> QED  BY <1>3, <1>8, <1>9, <1>10, <1>11, <1>12 DEF Resolve

LEMMA DiscardMoves ==
    ASSUME TypeOK, \A d \in Conns : ConnInv(d), TableInv, OwnerInv, NEW c \in Conns, Discard(c)
    PROVE  TableMove(c)
<1>1. conn[c].pc = "discarding" /\ conn[c].obj = 0 /\ UNCHANGED <<global, now, tickets, starts>>
  BY DEF Discard, ConnInv, InUse
<1>2. conn[c].owner \in Owners /\ conn[c].sid \in used /\ Asking(conn[c])
  BY <1>1, ConnTyped DEF ConnInv, Asking
<1>3. tickets' \in 0..MaxTickets  BY <1>1 DEF TypeOK
<1>4. CASE Remove(conn[c].owner, conn[c].sid) /\ Create(c, conn[c], map)
  <2>1. Leaves(c) \/ Enters(c)  BY <1>1, <1>2, <1>4, MapLeft, CreateMoves
  <2>2. Removes  BY <1>2, <1>4 DEF Removes
  <2> QED  BY <1>1, <1>3, <2>1, <2>2 DEF TableMove
<1>5. CASE Refuse(c, map) /\ UNCHANGED <<disk, saved, used>>
  BY <1>1, <1>3, <1>5, MapLeft, RefuseLeaves DEF TableMove
<1> QED  BY <1>4, <1>5 DEF Discard

LEMMA FinishMoves ==
    ASSUME TypeOK, NEW c \in Conns, RateLimit(c) \/ Persist(c)
    PROVE  TableMove(c)
<1>1. /\ conn[c].pc \in {"resolved", "handled"}
      /\ UNCHANGED <<map, global, used, now, tickets, starts>>
      /\ conn' = [conn EXCEPT ![c] = Idle] /\ objs' = Collect(objs, map', conn')
  BY DEF RateLimit, Persist, Finish
<1>2. Left(map')  BY <1>1, MapLeft DEF Left
<1>3. Leaves(c)  BY <1>1, <1>2 DEF Leaves
<1>4. UNCHANGED <<disk, saved>> \/ Saves(c)  BY DEF RateLimit, Persist, Saves
<1> QED  BY <1>1, <1>3, <1>4 DEF TableMove, TypeOK

\* What a step of a handler does to the session it uses.
Changes(o, x) ==
    /\ x.sid = objs[o].sid /\ x.owner = objs[o].owner
    /\ objs[o].data \subseteq x.data
    /\ x \in Object \ {Free}

\* A step of a handler, which keeps its session.
Works(c) ==
    /\ conn[c].pc \in InUse
    /\ UNCHANGED <<map, disk, used, now, tickets, saved, starts>>
    /\ \E place \in InUse :
          /\ conn' = [conn EXCEPT ![c].pc = place]
          /\ place \in {"waiting", "locked", "claimed", "running", "released"} => conn[c].kind # "read"
    /\ \E x : Changes(conn[c].obj, x) /\ objs' = [objs EXCEPT ![conn[c].obj] = x]

WorkStep(c) ==
    \/ Admit(c) \/ Lock(c) \/ Handle(c) \/ ClaimAgent(c) \/ CountAgent(c) \/ RunTool(c)
    \/ ReleaseActive(c) \/ ReleaseGlobal(c)

LEMMA WorkMoves ==
    ASSUME TypeOK, \A d \in Conns : ConnInv(d), TableInv, NEW c \in Conns, WorkStep(c)
    PROVE  Works(c)
<1> DEFINE o == conn[c].obj
<1>1. conn[c].pc \in InUse
  BY DEF WorkStep, Admit, Lock, Handle, ClaimAgent, CountAgent, RunTool, ReleaseActive,
         ReleaseGlobal, InUse
<1>2. o \in Objs /\ objs[o] # Free /\ objs[o] \in Object
  BY <1>1, ConnTyped, ObjTyped DEF ConnInv, TableInv
<1>3. /\ objs[o].sid \in Sids /\ objs[o].owner \in Owners /\ objs[o].seen \in 0..MaxTime
      /\ objs[o].active \in BOOLEAN /\ objs[o].data \in SUBSET (1..MaxTickets)
  BY <1>2, ObjTyped
<1>4. UNCHANGED <<map, disk, used, now, tickets, saved, starts>>
  BY DEF WorkStep, Admit, Lock, Handle, ClaimAgent, CountAgent, RunTool, ReleaseActive,
         ReleaseGlobal
<1>5. \E place \in InUse :
        /\ conn' = [conn EXCEPT ![c].pc = place]
        /\ place \in {"waiting", "locked", "claimed", "running", "released"} => conn[c].kind # "read"
  <2>1. CASE Admit(c)  BY <2>1 DEF Admit, Goto, InUse
  <2>2. CASE Lock(c)  BY <2>2 DEF Lock, Goto, InUse, ConnInv
  <2>3. CASE Handle(c)  BY <2>3 DEF Handle, Goto, InUse
  <2>4. CASE ClaimAgent(c)  BY <2>4 DEF ClaimAgent, Goto, InUse
  <2>5. CASE CountAgent(c)  BY <2>5 DEF CountAgent, Goto, InUse, ConnInv
  <2>6. CASE RunTool(c)
    <3>1. conn[c].pc = "running" /\ conn' = conn /\ conn[c].kind # "read"
      BY <2>6 DEF RunTool, ConnInv
    <3>2. conn = [conn EXCEPT ![c].pc = "running"]  BY <3>1 DEF TypeOK, Conn
    <3> QED  BY <3>1, <3>2 DEF InUse
  <2>7. CASE ReleaseActive(c)  BY <2>7 DEF ReleaseActive, Goto, InUse, ConnInv
  <2>8. CASE ReleaseGlobal(c)  BY <2>8 DEF ReleaseGlobal, Goto, InUse
  <2> QED  BY <2>1, <2>2, <2>3, <2>4, <2>5, <2>6, <2>7, <2>8 DEF WorkStep
<1>6. \E x : Changes(o, x) /\ objs' = [objs EXCEPT ![o] = x]
  <2>1. CASE objs' = objs
    <3>1. Changes(o, objs[o]) /\ objs = [objs EXCEPT ![o] = objs[o]]
      BY <1>2 DEF Changes, TypeOK
    <3> QED  BY <2>1, <3>1
  <2>2. CASE objs' = [objs EXCEPT ![o].seen = now]
    <3> DEFINE x == [objs[o] EXCEPT !.seen = now]
    <3>1. now \in 0..MaxTime  BY DEF TypeOK
    <3>2. x \in Object \ {Free} /\ x.sid = objs[o].sid /\ x.owner = objs[o].owner
          /\ x.data = objs[o].data
      BY <1>2, <1>3, <3>1, SessionsAssumption DEF Object, Free
    <3>3. objs' = [objs EXCEPT ![o] = x]  BY <2>2
    <3> HIDE DEF x
    <3> QED  BY <3>2, <3>3 DEF Changes
  <2>3. CASE \E b \in BOOLEAN : objs' = [objs EXCEPT ![o].active = b]
    <3> PICK b \in BOOLEAN : objs' = [objs EXCEPT ![o].active = b]  BY <2>3
    <3> DEFINE x == [objs[o] EXCEPT !.active = b]
    <3>2. x \in Object \ {Free} /\ x.sid = objs[o].sid /\ x.owner = objs[o].owner
          /\ x.data = objs[o].data
      BY <1>2, <1>3, SessionsAssumption DEF Object, Free
    <3>3. objs' = [objs EXCEPT ![o] = x]  OBVIOUS
    <3> HIDE DEF x
    <3> QED  BY <3>2, <3>3 DEF Changes
  <2>4. CASE Touch(c) /\ conn[c].kind # "read"
    <3> DEFINE x == [objs[o] EXCEPT !.data = @ \cup {conn[c].ticket}]
    <3>1. conn[c].ticket \in 1..MaxTickets
      BY <2>4, ConnTyped, SessionsAssumption DEF ConnInv
    <3>2. objs[o].data \cup {conn[c].ticket} \in SUBSET (1..MaxTickets)  BY <1>3, <3>1
    <3>3. x \in Object \ {Free} /\ x.sid = objs[o].sid /\ x.owner = objs[o].owner
          /\ objs[o].data \subseteq x.data
      BY <1>2, <1>3, <3>2, SessionsAssumption DEF Object, Free
    <3>4. objs' = [objs EXCEPT ![o] = x]  BY <2>4 DEF Touch
    <3> HIDE DEF x
    <3> QED  BY <3>3, <3>4 DEF Changes
  <2>5. CASE Admit(c)  BY <2>2, <2>5 DEF Admit
  <2>6. CASE Lock(c) \/ ReleaseGlobal(c)  BY <2>1, <2>6 DEF Lock, ReleaseGlobal
  <2>7. CASE Handle(c)  BY <2>1, <2>4, <2>7 DEF Handle
  <2>8. CASE ClaimAgent(c) \/ CountAgent(c) \/ ReleaseActive(c)
    BY <2>1, <2>3, <2>8 DEF ClaimAgent, CountAgent, ReleaseActive
  <2>9. CASE RunTool(c)  BY <2>4, <2>9 DEF RunTool, ConnInv
  <2> QED  BY <2>5, <2>6, <2>7, <2>8, <2>9 DEF WorkStep
<1> QED  BY <1>1, <1>4, <1>5, <1>6 DEF Works

\* Every step of the host is one of these.
LEMMA Moves ==
    ASSUME TypeOK, \A d \in Conns : ConnInv(d), TableInv, OwnerInv, [Next]_vars
    PROVE  \/ \E c \in Conns : TableMove(c) \/ (Works(c) /\ WorkStep(c))
           \/ Tick \/ Restart \/ UNCHANGED vars
<1>1. ASSUME NEW c \in Conns, Arrive(c) PROVE TableMove(c)  BY <1>1, ResolveMoves
<1>2. ASSUME NEW c \in Conns, Step(c) PROVE TableMove(c) \/ (Works(c) /\ WorkStep(c))
  BY <1>2, DiscardMoves, FinishMoves, WorkMoves DEF Step, WorkStep
<1> QED  BY <1>1, <1>2 DEF Next

(***************************************************************************)
(* The invariant, part by part                                             *)
(***************************************************************************)
Types ==
    /\ map \in [Sids -> {0} \cup Objs]
    /\ objs \in [Objs -> Object]
    /\ disk \in [Owners \X Sids -> File]
    /\ conn \in [Conns -> Conn]
    /\ used \subseteq Sids
    /\ now \in 0..MaxTime
    /\ tickets \in 0..MaxTickets
    /\ saved \in [Sids -> SUBSET (1..MaxTickets)]
    /\ starts \in 0..MaxRestarts

\* The session a connection uses.
LEMMA UsedSession ==
    ASSUME TypeOK, \A d \in Conns : ConnInv(d), TableInv, NEW c \in Conns, conn[c].pc \in InUse
    PROVE  /\ conn[c].obj \in Objs /\ objs[conn[c].obj] # Free
           /\ objs[conn[c].obj].sid \in Sids /\ objs[conn[c].obj].owner \in Owners
           /\ objs[conn[c].obj].data \in SUBSET (1..MaxTickets)
           /\ objs[conn[c].obj] \in Object
<1>1. conn[c].obj \in Objs /\ objs[conn[c].obj] # Free
  BY ConnTyped DEF ConnInv, TableInv
<1> QED  BY <1>1, ObjTyped

LEMMA FreeIsObject == Free \in Object /\ Idle \in Conn
BY SessionsAssumption DEF Object, Idle, Conn, ConnPc, Kinds

LEMMA CollectTyped ==
    ASSUME NEW os \in [Objs -> Object], NEW m, NEW cs
    PROVE  Collect(os, m, cs) \in [Objs -> Object]
BY FreeIsObject DEF Collect

LEMMA HitTyped ==
    ASSUME TypeOK, NEW o \in Objs, objs[o] # Free
    PROVE  /\ [objs EXCEPT ![o].seen = now] \in [Objs -> Object]
           /\ [objs EXCEPT ![o].seen = now][o] # Free
<1> DEFINE x == [objs[o] EXCEPT !.seen = now]
<1>1. now \in 0..MaxTime /\ objs[o] \in Object  BY DEF TypeOK
<1>2. x \in Object /\ x.sid \in Sids  BY <1>1, ObjTyped DEF Object
<1>3. [objs EXCEPT ![o].seen = now] = [objs EXCEPT ![o] = x]  OBVIOUS
<1> HIDE DEF x
<1>4. x # Free  BY <1>2, SessionsAssumption DEF Free
<1> QED  BY <1>2, <1>3, <1>4 DEF TypeOK

LEMMA SavedTyped ==
    ASSUME TypeOK, NEW w \in Owners, NEW s \in Sids, NEW data \in SUBSET (1..MaxTickets),
           \/ UNCHANGED <<disk, saved>> \/ Remove(w, s) \/ Save(w, s, data)
    PROVE  /\ disk' \in [Owners \X Sids -> File]
           /\ saved' \in [Sids -> SUBSET (1..MaxTickets)]
<1>1. NoFile \in File  BY DEF File
<1>2. [data |-> data, seen |-> now] \in File  BY DEF File, TypeOK
<1>3. saved[s] \cup data \in SUBSET (1..MaxTickets)  BY DEF TypeOK
<1>4. CASE UNCHANGED <<disk, saved>>  BY <1>4 DEF TypeOK
<1>5. CASE Remove(w, s)  BY <1>1, <1>5 DEF TypeOK, Remove
<1>6. CASE Save(w, s, data)
  <2>1. disk' \in [Owners \X Sids -> File]  BY <1>2, <1>6 DEF TypeOK, Save
  <2>2. saved' \in [Sids -> SUBSET (1..MaxTickets)]  BY <1>3, <1>6 DEF TypeOK, Save
  <2> QED  BY <2>1, <2>2
<1> QED  BY <1>4, <1>5, <1>6

LEMMA TableMoveTypes ==
    ASSUME TypeOK, \A d \in Conns : ConnInv(d), TableInv, NEW c \in Conns, TableMove(c)
    PROVE  Types'
<1>1. now' \in 0..MaxTime /\ tickets' \in 0..MaxTickets /\ starts' \in 0..MaxRestarts
  BY DEF TableMove, TypeOK
<1>2. Left(Swept)  BY SweptLeft
<1>3. disk' \in [Owners \X Sids -> File] /\ saved' \in [Sids -> SUBSET (1..MaxTickets)]
  <2>1. CASE UNCHANGED <<disk, saved>>  BY <2>1 DEF TypeOK
  <2>2. CASE Removes
    <3>1. used \subseteq Sids /\ {} \in SUBSET (1..MaxTickets)  BY DEF TypeOK
    <3> QED  BY <2>2, <3>1, SavedTyped DEF Removes
  <2>3. CASE Saves(c)
    <3>1. conn[c].pc \in InUse  BY <2>3 DEF Saves, InUse
    <3> QED  BY <2>3, <3>1, UsedSession, SavedTyped DEF Saves
  <2> QED  BY <2>1, <2>2, <2>3 DEF TableMove
<1>4. /\ map' \in [Sids -> {0} \cup Objs] /\ objs' \in [Objs -> Object]
      /\ conn' \in [Conns -> Conn] /\ used' \subseteq Sids
  <2>1. CASE Leaves(c)
    <3>1. objs' \in [Objs -> Object]  BY <2>1, CollectTyped DEF Leaves, TypeOK
    <3> QED  BY <2>1, <3>1, FreeIsObject DEF Leaves, Left, TypeOK
  <2>2. CASE Hits(c)
    <3>1. PICK s \in Sids, r \in Conn :
            /\ Swept[s] # 0
            /\ conn' = [conn EXCEPT ![c] = r]
            /\ objs' = Collect([objs EXCEPT ![Swept[s]].seen = now], map', conn')
      BY <2>2 DEF Hits
    <3>2. Swept[s] \in Objs /\ Swept[s] = map[s]  BY <1>2, <3>1 DEF Left
    <3>3. objs[Swept[s]] # Free
      BY <3>1, <3>2, SessionsAssumption DEF TableInv, Free
    <3>4. objs' \in [Objs -> Object]  BY <3>1, <3>2, <3>3, HitTyped, CollectTyped
    <3> QED  BY <1>2, <2>2, <3>1, <3>4 DEF Hits, Left, TypeOK
  <2>3. CASE Enters(c)
    <3>1. PICK m, r : \E sid \in Sids, owner \in Owners, o \in Objs, data \in SUBSET (1..MaxTickets) :
            EntersAs(c, m, sid, owner, data, o, r)
      BY <2>3 DEF Enters
    <3>2. PICK sid \in Sids, owner \in Owners, o \in Objs, data \in SUBSET (1..MaxTickets) :
            EntersAs(c, m, sid, owner, data, o, r)
      BY <3>1
    <3> DEFINE x == [sid |-> sid, owner |-> owner, data |-> data, seen |-> now, active |-> FALSE]
    <3>3. x \in Object  BY DEF Object, TypeOK
    <3> HIDE DEF x
    <3>4. [objs EXCEPT ![o] = x] \in [Objs -> Object]  BY <3>3 DEF TypeOK
    <3>5. objs' \in [Objs -> Object]  BY <3>2, <3>4, CollectTyped DEF EntersAs, x
    <3>6. map' \in [Sids -> {0} \cup Objs]  BY <3>2 DEF EntersAs, Left
    <3>7. conn' \in [Conns -> Conn]  BY <3>2 DEF EntersAs, Using, TypeOK
    <3>8. used' \subseteq Sids  BY <3>2 DEF EntersAs, TypeOK
    <3> QED  BY <3>5, <3>6, <3>7, <3>8
  <2>4. CASE Expires(c)
    <3>1. objs' \in [Objs -> Object]  BY <2>4, CollectTyped DEF Expires, TypeOK
    <3> QED  BY <1>2, <2>4, <3>1 DEF Expires, Left, TypeOK
  <2> QED  BY <2>1, <2>2, <2>3, <2>4 DEF TableMove
<1> QED  BY <1>1, <1>3, <1>4 DEF Types

LEMMA TypesStay ==
    ASSUME TypeOK, \A d \in Conns : ConnInv(d), TableInv, OwnerInv, [Next]_vars
    PROVE  Types'
<1>1. ASSUME NEW c \in Conns, Works(c) PROVE Types'
  <2>1. PICK place \in InUse : conn' = [conn EXCEPT ![c].pc = place]  BY <1>1 DEF Works
  <2>2. PICK x : Changes(conn[c].obj, x) /\ objs' = [objs EXCEPT ![conn[c].obj] = x]
    BY <1>1 DEF Works
  <2>3. conn' \in [Conns -> Conn]
    BY <2>1 DEF TypeOK, Conn, InUse, ConnPc
  <2>4. objs' \in [Objs -> Object]  BY <2>2 DEF TypeOK, Changes
  <2> QED  BY <1>1, <2>3, <2>4 DEF Works, Types, TypeOK
<1>2. CASE Tick
  <2>1. now' \in 0..MaxTime  BY <1>2, SessionsAssumption DEF Tick, TypeOK
  <2> QED  BY <1>2, <2>1 DEF Tick, Types, TypeOK
<1>3. CASE Restart
  <2>1. starts' \in 0..MaxRestarts  BY <1>3, SessionsAssumption DEF Restart, TypeOK
  <2> QED  BY <1>3, <2>1, FreeIsObject DEF Restart, Types, TypeOK
<1>4. CASE UNCHANGED vars  BY <1>4 DEF vars, Types, TypeOK
<1> QED  BY <1>1, <1>2, <1>3, <1>4, Moves, TableMoveTypes

\* What becomes of an object where no session enters: it is dropped, which it is
\* not while it is referred to, or it stays the session it was.
Same(o) ==
    /\ objs'[o].sid = objs[o].sid /\ objs'[o].owner = objs[o].owner
    /\ objs'[o].active = objs[o].active /\ objs'[o].data = objs[o].data
    /\ objs'[o] = Free <=> objs[o] = Free

LEMMA SameObject == ASSUME NEW o, objs'[o] = objs[o] PROVE Same(o)
BY DEF Same

LEMMA Remains ==
    ASSUME TypeOK, TableInv, NEW c \in Conns, Leaves(c) \/ Hits(c) \/ Expires(c), NEW o \in Objs
    PROVE  /\ objs'[o] = Free \/ Same(o)
           /\ o \in Alive(map', conn') => Same(o)
<1>1. CASE Leaves(c)
  <2>1. objs' = Collect(objs, map', conn')  BY <1>1 DEF Leaves
  <2>2. objs'[o] \in {objs[o], Free} /\ (o \in Alive(map', conn') => objs'[o] = objs[o])
    BY <2>1, Collected
  <2> QED  BY <2>2, SameObject
<1>2. CASE Expires(c)
  <2>1. objs' = Collect(objs, map', conn)  BY <1>2 DEF Expires
  <2>2. objs'[o] \in {objs[o], Free} /\ (o \in Alive(map', conn) => objs'[o] = objs[o])
    BY <2>1, Collected
  <2>3. o \in Alive(map', conn') => o \in Alive(map', conn)
    BY <1>2, ObjsAreNumbers DEF Expires, Alive, TypeOK
  <2> QED  BY <2>2, <2>3, SameObject
<1>3. CASE Hits(c)
  <2>1. PICK s \in Sids, r \in Conn :
          /\ Swept[s] # 0
          /\ objs' = Collect([objs EXCEPT ![Swept[s]].seen = now], map', conn')
    BY <1>3 DEF Hits
  <2>2. Swept[s] \in Objs /\ Swept[s] = map[s]  BY <2>1, SweptLeft DEF Left
  <2>3. objs[Swept[s]] # Free
    BY <2>1, <2>2, SessionsAssumption DEF TableInv, Free
  <2> DEFINE os == [objs EXCEPT ![Swept[s]].seen = now]
  <2>4. os[Swept[s]] # Free  BY <2>2, <2>3, HitTyped
  <2>5. /\ os[o].sid = objs[o].sid /\ os[o].owner = objs[o].owner
        /\ os[o].active = objs[o].active /\ os[o].data = objs[o].data
        /\ os[o] = Free <=> objs[o] = Free
    <3>1. CASE o = Swept[s]
      <4>1. objs[o] \in Object  BY DEF TypeOK
      <4>2. os[o] = [objs[o] EXCEPT !.seen = now]  BY <3>1 DEF TypeOK
      <4> HIDE DEF os
      <4> QED  BY <2>3, <2>4, <3>1, <4>1, <4>2 DEF Object
    <3>2. CASE o # Swept[s]  BY <3>2 DEF TypeOK
    <3> QED  BY <3>1, <3>2
  <2>6. objs' = Collect(os, map', conn')  BY <2>1
  <2> HIDE DEF os
  <2>7. objs'[o] \in {os[o], Free} /\ (o \in Alive(map', conn') => objs'[o] = os[o])
    BY <2>6, Collected
  <2> QED  BY <2>5, <2>7 DEF Same
<1> QED  BY <1>1, <1>2, <1>3

\* Where one enters, its object is new, and the others are as before.
JoinsAs(c, sid, owner, data, o, r) ==
    /\ objs'[o] = [sid |-> sid, owner |-> owner, data |-> data, seen |-> now, active |-> FALSE]
    /\ \A p \in Objs \ {o} :
          /\ objs'[p] = Free \/ Same(p)
          /\ p \in Alive(map', conn') => Same(p)
    /\ map'[sid] = o
    /\ \A s \in Sids : map'[s] # 0 /\ s # sid => map'[s] = map[s] /\ map'[s] # o
    /\ \A d \in Conns : d # c => conn'[d] = conn[d] /\ conn[d].obj # o
    /\ conn'[c] = r /\ r.pc = "resolved" /\ r.obj = o

LEMMA Joined ==
    ASSUME TypeOK, NEW c \in Conns, NEW m, NEW sid \in Sids, NEW owner, NEW data, NEW o \in Objs,
           NEW r, EntersAs(c, m, sid, owner, data, o, r)
    PROVE  JoinsAs(c, sid, owner, data, o, r)
<1> DEFINE x == [sid |-> sid, owner |-> owner, data |-> data, seen |-> now, active |-> FALSE]
           os == [objs EXCEPT ![o] = x]
<1>1. /\ Left(m) /\ m[sid] = 0 /\ o \notin Alive(m, conn)
      /\ map' = [m EXCEPT ![sid] = o] /\ conn' = [conn EXCEPT ![c] = r]
      /\ objs' = Collect(os, map', conn') /\ r.pc = "resolved" /\ r.obj = o
  BY DEF EntersAs, Using
<1>2. os[o] = x /\ \A p \in Objs \ {o} : os[p] = objs[p]  BY DEF TypeOK
<1> HIDE DEF os, x
<1>3. map'[sid] = o /\ \A s \in Sids : s # sid => map'[s] = m[s]  BY <1>1 DEF Left
<1>4. o \in Alive(map', conn')  BY <1>3 DEF Alive
<1>5. \A p \in Objs : /\ objs'[p] \in {os[p], Free}
                      /\ p \in Alive(map', conn') => objs'[p] = os[p]
  BY <1>1, Collected
<1>6. \A s \in Sids : m[s] \in Alive(m, conn) /\ (m[s] # 0 => m[s] = map[s])
  BY <1>1 DEF Alive, Left
<1>7. \A d \in Conns : d # c => conn'[d] = conn[d] /\ conn[d].obj # o
  BY <1>1 DEF Alive, TypeOK
<1>8. conn'[c] = r  BY <1>1 DEF TypeOK
<1>9. \A p \in Objs \ {o} : objs'[p] = objs[p] => Same(p)  BY SameObject
<1>10. \A p \in Objs \ {o} :
         /\ objs'[p] = Free \/ Same(p)
         /\ p \in Alive(map', conn') => Same(p)
  BY <1>2, <1>5, <1>9
<1>11. \A s \in Sids : map'[s] # 0 /\ s # sid => map'[s] = map[s] /\ map'[s] # o
  BY <1>1, <1>3, <1>6
<1>12. objs'[o] = x  BY <1>2, <1>4, <1>5
<1>13. objs'[o] = [sid |-> sid, owner |-> owner, data |-> data, seen |-> now, active |-> FALSE]
  BY <1>12 DEF x
<1>14. r.pc = "resolved" /\ r.obj = o  BY <1>1
<1>15. map'[sid] = o  BY <1>3
<1> QED  BY <1>7, <1>8, <1>10, <1>11, <1>13, <1>14, <1>15, Zenon DEF JoinsAs

LEMMA ConnStays ==
    ASSUME TypeOK, \A d \in Conns : ConnInv(d), TableInv, OwnerInv, [Next]_vars, NEW d \in Conns
    PROVE  ConnInv(d)'
<1>0. ConnInv(d) /\ conn[d] \in Conn /\ used \subseteq Sids  BY DEF TypeOK
<1>1. ASSUME NEW c \in Conns, TableMove(c) PROVE ConnInv(d)'
  <2>1. CASE Leaves(c)
    BY <1>0, <2>1 DEF Leaves, ConnInv, TypeOK, Idle, InUse
  <2>2. CASE Hits(c)
    <3>1. PICK s \in Sids, r \in Conn :
            Swept[s] # 0 /\ Using(r, Swept[s]) /\ conn' = [conn EXCEPT ![c] = r]
      BY <2>2 DEF Hits
    <3> QED  BY <1>0, <2>2, <3>1 DEF Hits, Using, ConnInv, TypeOK, InUse
  <2>3. CASE Enters(c)
    <3>1. PICK m, r : \E sid \in Sids, owner \in Owners, o \in Objs, data \in SUBSET (1..MaxTickets) :
            EntersAs(c, m, sid, owner, data, o, r)
      BY <2>3 DEF Enters
    <3>2. PICK sid \in Sids, owner \in Owners, o \in Objs, data \in SUBSET (1..MaxTickets) :
            EntersAs(c, m, sid, owner, data, o, r)
      BY <3>1
    <3>3. conn' = [conn EXCEPT ![c] = r] /\ Using(r, o) /\ used \subseteq used'
      BY <3>2 DEF EntersAs
    <3> QED  BY <1>0, <3>3, ObjsAreNumbers DEF Using, ConnInv, TypeOK, InUse
  <2>4. CASE Expires(c)
    BY <1>0, <2>4 DEF Expires, Asking, ConnInv, TypeOK, InUse
  <2> QED  BY <1>1, <2>1, <2>2, <2>3, <2>4 DEF TableMove
<1>2. ASSUME NEW c \in Conns, Works(c) PROVE ConnInv(d)'
  <2>1. PICK place \in InUse :
          /\ conn' = [conn EXCEPT ![c].pc = place]
          /\ place \in {"waiting", "locked", "claimed", "running", "released"} => conn[c].kind # "read"
    BY <1>2 DEF Works
  <2>2. UNCHANGED used /\ conn[c].pc \in InUse  BY <1>2 DEF Works
  <2> QED  BY <1>0, <2>1, <2>2 DEF ConnInv, TypeOK, Conn, InUse
<1>3. CASE Tick \/ UNCHANGED vars  BY <1>0, <1>3 DEF Tick, vars, ConnInv
<1>4. CASE Restart  BY <1>4 DEF Restart, ConnInv, Idle, InUse
<1> QED  BY <1>1, <1>2, <1>3, <1>4, Moves

LEMMA TableStays ==
    ASSUME TypeOK, \A d \in Conns : ConnInv(d), TableInv, OwnerInv, [Next]_vars, Types'
    PROVE  TableInv'
<1>1. ASSUME NEW c \in Conns, Leaves(c) \/ Hits(c) \/ Expires(c) PROVE TableInv'
  <2>1. Left(map')  BY <1>1, SweptLeft DEF Leaves, Hits, Expires
  <2>2. Cardinality(Entries(map))' <= MaxSessions
    <3>1. Entries(map)' \subseteq Entries(map)  BY <2>1 DEF Left, Entries
    <3>2. IsFiniteSet(Entries(map))  BY SessionsAssumption, FS_Subset DEF Entries
    <3>3. /\ Cardinality(Entries(map)') <= Cardinality(Entries(map))
          /\ Cardinality(Entries(map)) \in Nat /\ Cardinality(Entries(map)') \in Nat
      BY <3>1, <3>2, FS_Subset, FS_CardinalityType
    <3> QED  BY <3>3, SessionsAssumption DEF TableInv
  <2>3. ASSUME NEW s \in Sids, map'[s] # 0 PROVE objs'[map'[s]].sid = s
    <3>1. map'[s] = map[s] /\ map'[s] \in Objs /\ map'[s] \in Alive(map', conn')
      BY <2>1, <2>3 DEF Left, Alive
    <3>2. Same(map'[s])  BY <1>1, <3>1, Remains
    <3> QED  BY <2>3, <3>1, <3>2 DEF Same, TableInv
  <2>4. ASSUME NEW d \in Conns, conn'[d].obj # 0 PROVE objs'[conn'[d].obj] # Free
    <3>1. conn'[d].obj \in Objs /\ conn'[d].obj \in Alive(map', conn')
      BY <2>4 DEF Types, Conn, Alive
    <3>2. Same(conn'[d].obj)  BY <1>1, <3>1, Remains
    <3>3. objs[conn'[d].obj] # Free
      <4>1. CASE conn'[d] = conn[d]  BY <2>4, <4>1 DEF TableInv
      <4>2. CASE conn'[d] # conn[d]
        <5>0. ~Leaves(c) /\ ~Expires(c)
          BY <2>4, <4>2 DEF Leaves, Expires, TypeOK, Idle
        <5>1. PICK s \in Sids, r \in Conn :
                Swept[s] # 0 /\ Using(r, Swept[s]) /\ conn' = [conn EXCEPT ![c] = r]
          BY <1>1, <5>0 DEF Hits
        <5>2. conn'[d].obj = Swept[s]  BY <4>2, <5>1 DEF Using, TypeOK
        <5>3. Swept[s] \in Objs /\ Swept[s] = map[s]  BY <5>1, SweptLeft DEF Left
        <5>4. objs[Swept[s]].sid = s  BY <5>1, <5>3 DEF TableInv
        <5> QED  BY <5>2, <5>4, SessionsAssumption DEF Free
      <4> QED  BY <4>1, <4>2
    <3> QED  BY <3>2, <3>3 DEF Same
  <2> QED  BY <2>2, <2>3, <2>4 DEF TableInv
<1>2. ASSUME NEW c \in Conns, Enters(c) PROVE TableInv'
  <2>1. PICK m, r : \E sid \in Sids, owner \in Owners, o \in Objs, data \in SUBSET (1..MaxTickets) :
          EntersAs(c, m, sid, owner, data, o, r)
    BY <1>2 DEF Enters
  <2>2. PICK sid \in Sids, owner \in Owners, o \in Objs, data \in SUBSET (1..MaxTickets) :
          EntersAs(c, m, sid, owner, data, o, r)
    BY <2>1
  <2>3. JoinsAs(c, sid, owner, data, o, r)  BY <2>2, Joined
  <2>4. Cardinality(Entries(map))' <= MaxSessions
    <3>1. Left(m) /\ Cardinality(Entries(m)) < MaxSessions /\ map' = [m EXCEPT ![sid] = o]
      BY <2>2 DEF EntersAs
    <3>2. Entries(map)' \subseteq Entries(m) \cup {sid}  BY <3>1 DEF Left, Entries
    <3>3. IsFiniteSet(Entries(m))  BY SessionsAssumption, FS_Subset DEF Entries
    <3> DEFINE n == Cardinality(Entries(m))
    <3>4. n \in Nat  BY <3>3, FS_CardinalityType
    <3>5. /\ IsFiniteSet(Entries(m) \cup {sid})
          /\ Cardinality(Entries(m) \cup {sid}) = IF sid \in Entries(m) THEN n ELSE n + 1
      BY <3>3, FS_AddElement
    <3> HIDE DEF n
    <3>6. /\ Cardinality(Entries(m) \cup {sid}) <= n + 1
          /\ Cardinality(Entries(m) \cup {sid}) \in Nat
      BY <3>4, <3>5
    <3>7. /\ IsFiniteSet(Entries(m) \cup {sid})
          /\ Cardinality(Entries(m) \cup {sid}) <= Cardinality(Entries(m)) + 1
          /\ Cardinality(Entries(m)) \in Nat
          /\ Cardinality(Entries(m) \cup {sid}) \in Nat
      BY <3>4, <3>5, <3>6 DEF n
    <3>8. /\ Cardinality(Entries(map)') <= Cardinality(Entries(m) \cup {sid})
          /\ Cardinality(Entries(map)') \in Nat
      BY <3>2, <3>7, FS_Subset, FS_CardinalityType
    <3> QED  BY <3>1, <3>7, <3>8, SessionsAssumption
  <2>5. objs'[o].sid = sid /\ objs'[o] # Free  BY <2>3, SessionsAssumption DEF Free, JoinsAs
  <2>6. ASSUME NEW s \in Sids, map'[s] # 0 PROVE objs'[map'[s]].sid = s
    <3>1. CASE s = sid  BY <2>3, <2>5, <3>1 DEF JoinsAs
    <3>2. CASE s # sid
      <4>1. map'[s] = map[s] /\ map'[s] # o  BY <2>3, <2>6, <3>2 DEF JoinsAs
      <4>2. map'[s] \in Objs \ {o} /\ map'[s] \in Alive(map', conn')
        BY <2>6, <4>1 DEF Types, Alive
      <4>3. Same(map'[s])  BY <2>3, <4>2 DEF JoinsAs
      <4> QED  BY <2>6, <4>1, <4>3 DEF Same, TableInv
    <3> QED  BY <3>1, <3>2
  <2>7. ASSUME NEW d \in Conns, conn'[d].obj # 0 PROVE objs'[conn'[d].obj] # Free
    <3>1. CASE d = c  BY <2>3, <2>5, <3>1 DEF JoinsAs
    <3>2. CASE d # c
      <4>1. conn'[d] = conn[d] /\ conn[d].obj # o  BY <2>3, <3>2 DEF JoinsAs
      <4>2. conn[d].obj \in Objs \ {o} /\ conn[d].obj \in Alive(map', conn')
        BY <2>7, <4>1 DEF TypeOK, Conn, Alive
      <4>3. Same(conn[d].obj)  BY <2>3, <4>2 DEF JoinsAs
      <4> QED  BY <2>7, <4>1, <4>3 DEF Same, TableInv
    <3> QED  BY <3>1, <3>2
  <2> QED  BY <2>4, <2>6, <2>7 DEF TableInv
<1>3. ASSUME NEW c \in Conns, Works(c) PROVE TableInv'
  <2>1. PICK x : Changes(conn[c].obj, x) /\ objs' = [objs EXCEPT ![conn[c].obj] = x]
    BY <1>3 DEF Works
  <2>2. \A d \in Conns : conn'[d].obj = conn[d].obj  BY <1>3 DEF Works, TypeOK, Conn
  <2>3. UNCHANGED map  BY <1>3 DEF Works
  <2>4. \A p \in Objs : objs'[p].sid = objs[p].sid /\ (objs[p] # Free => objs'[p] # Free)
    BY <2>1 DEF Changes, TypeOK
  <2>5. \A s \in Sids : map'[s] # 0 => objs'[map'[s]].sid = s
    BY <2>3, <2>4 DEF TableInv, TypeOK
  <2>6. \A d \in Conns : conn'[d].obj # 0 => objs'[conn'[d].obj] # Free
    BY <2>2, <2>4, ConnTyped DEF TableInv
  <2> QED  BY <2>3, <2>5, <2>6 DEF TableInv, Entries
<1>4. CASE Tick \/ UNCHANGED vars  BY <1>4 DEF Tick, vars, TableInv, Entries
<1>5. CASE Restart
  <2>1. Entries(map)' = {}  BY <1>5 DEF Restart, Entries
  <2>2. Cardinality(Entries(map)') = 0  BY <2>1, FS_EmptySet
  <2>3. MaxSessions \in Nat  BY SessionsAssumption
  <2>4. Cardinality(Entries(map))' <= MaxSessions  BY <2>2, <2>3
  <2> QED  BY <1>5, <2>4 DEF Restart, TableInv, Idle
<1> QED  BY <1>1, <1>2, <1>3, <1>4, <1>5, Moves DEF TableMove

\* Where no session enters and no file is new, its owners stay.
LEMMA OwnersKept ==
    ASSUME OwnerInv, TypeOK, Types', used \subseteq used',
           \A o \in Objs : \/ objs'[o] = Free
                           \/ /\ objs[o] # Free /\ objs'[o].sid = objs[o].sid
                              /\ objs'[o].owner = objs[o].owner,
           \A w \in Owners, s \in Sids : disk'[<<w, s>>] # NoFile => disk[<<w, s>>] # NoFile,
           \A s \in Sids : s \notin used => saved'[s] = {}
    PROVE  OwnerInv'
<1>1. \A o \in Objs : objs'[o] # Free => objs'[o].sid \in used'  BY DEF OwnerInv
<1>2. \A w \in Owners, s \in Sids : disk'[<<w, s>>] # NoFile => s \in used'  BY DEF OwnerInv
<1>3. \A s \in Sids : s \notin used' => saved'[s] = {}  OBVIOUS
<1>4. \A o, p \in Objs :
        objs'[o] # Free /\ objs'[p] # Free /\ objs'[o].sid = objs'[p].sid =>
           objs'[o].owner = objs'[p].owner
  BY DEF OwnerInv
<1>5. ASSUME NEW o \in Objs, NEW w \in Owners, objs'[o] # Free, disk'[<<w, objs'[o].sid>>] # NoFile
      PROVE  objs'[o].owner = w
  <2>1. objs[o] # Free /\ objs'[o].sid = objs[o].sid /\ objs'[o].owner = objs[o].owner  BY <1>5
  <2>2. objs[o].sid \in Sids  BY <2>1, ObjTyped
  <2>3. disk[<<w, objs[o].sid>>] # NoFile  BY <1>5, <2>1, <2>2
  <2> QED  BY <2>1, <2>3 DEF OwnerInv
<1>6. \A v, w \in Owners, s \in Sids :
        disk'[<<v, s>>] # NoFile /\ disk'[<<w, s>>] # NoFile => v = w
  BY DEF OwnerInv
<1> QED  BY <1>1, <1>2, <1>3, <1>4, <1>5, <1>6 DEF OwnerInv

\* A file that is saved has the owner of its session.
LEMMA OwnersSaved ==
    ASSUME OwnerInv, TypeOK, Types', used' = used,
           \A o \in Objs : \/ objs'[o] = Free
                           \/ /\ objs[o] # Free /\ objs'[o].sid = objs[o].sid
                              /\ objs'[o].owner = objs[o].owner,
           NEW p \in Objs, objs[p] # Free, Save(objs[p].owner, objs[p].sid, objs[p].data)
    PROVE  OwnerInv'
<1> DEFINE t == objs[p].sid
           u == objs[p].owner
<1>1. t \in Sids /\ u \in Owners /\ t \in used  BY ObjTyped DEF OwnerInv
<1>2. \A w \in Owners, s \in Sids :
        disk'[<<w, s>>] # NoFile => disk[<<w, s>>] # NoFile \/ (w = u /\ s = t)
  BY DEF Save, TypeOK
<1>3. \A s \in Sids : s \notin used => saved'[s] = {}  BY <1>1 DEF Save, TypeOK, OwnerInv
<1>4. \A w \in Owners : disk[<<w, t>>] # NoFile => w = u  BY DEF OwnerInv
<1>5. \A o \in Objs : objs[o] # Free /\ objs[o].sid = t => objs[o].owner = u  BY DEF OwnerInv
<1> HIDE DEF t, u
<1>6. \A o \in Objs : objs'[o] # Free => objs'[o].sid \in used'  BY DEF OwnerInv
<1>7. \A w \in Owners, s \in Sids : disk'[<<w, s>>] # NoFile => s \in used'
  BY <1>1, <1>2 DEF OwnerInv
<1>8. \A o, q \in Objs :
        objs'[o] # Free /\ objs'[q] # Free /\ objs'[o].sid = objs'[q].sid =>
           objs'[o].owner = objs'[q].owner
  BY DEF OwnerInv
<1>9. ASSUME NEW o \in Objs, NEW w \in Owners, objs'[o] # Free, disk'[<<w, objs'[o].sid>>] # NoFile
      PROVE  objs'[o].owner = w
  <2>1. objs[o] # Free /\ objs'[o].sid = objs[o].sid /\ objs'[o].owner = objs[o].owner  BY <1>9
  <2>2. objs[o].sid \in Sids  BY <2>1, ObjTyped
  <2>3. disk[<<w, objs[o].sid>>] # NoFile \/ (w = u /\ objs[o].sid = t)
    BY <1>2, <1>9, <2>1, <2>2
  <2>4. CASE disk[<<w, objs[o].sid>>] # NoFile  BY <2>1, <2>4 DEF OwnerInv
  <2>5. CASE w = u /\ objs[o].sid = t  BY <1>5, <2>1, <2>5
  <2> QED  BY <2>3, <2>4, <2>5
<1>10. ASSUME NEW v \in Owners, NEW w \in Owners, NEW s \in Sids,
              disk'[<<v, s>>] # NoFile, disk'[<<w, s>>] # NoFile
       PROVE  v = w
  <2>1. disk[<<v, s>>] # NoFile \/ (v = u /\ s = t)  BY <1>2, <1>10
  <2>2. disk[<<w, s>>] # NoFile \/ (w = u /\ s = t)  BY <1>2, <1>10
  <2>3. CASE s = t  BY <1>4, <2>1, <2>2, <2>3
  <2>4. CASE s # t  BY <2>1, <2>2, <2>4 DEF OwnerInv
  <2> QED  BY <2>3, <2>4
<1>11. \A s \in Sids : s \notin used' => saved'[s] = {}  BY <1>3
<1> QED  BY <1>6, <1>7, <1>8, <1>9, <1>10, <1>11 DEF OwnerInv

\* A session that enters has an id nobody had, or the owner of its file.
LEMMA OwnersJoined ==
    ASSUME OwnerInv, TypeOK, Types', NEW c \in Conns, NEW m, NEW sid \in Sids, NEW owner \in Owners,
           NEW data, NEW o \in Objs, NEW r, EntersAs(c, m, sid, owner, data, o, r),
           \A w \in Owners, s \in Sids : disk'[<<w, s>>] # NoFile => disk[<<w, s>>] # NoFile,
           \A s \in Sids : s \notin used => saved'[s] = {}
    PROVE  OwnerInv'
<1>1. JoinsAs(c, sid, owner, data, o, r)  BY Joined
<1>2. objs'[o].sid = sid /\ objs'[o].owner = owner  BY <1>1 DEF JoinsAs
<1>3. \A p \in Objs \ {o} : objs'[p] # Free =>
        objs[p] # Free /\ objs'[p].sid = objs[p].sid /\ objs'[p].owner = objs[p].owner
  BY <1>1 DEF JoinsAs, Same
<1>4. used \subseteq used' /\ sid \in used'  BY DEF EntersAs
<1>5. \A p \in Objs : objs[p] # Free /\ objs[p].sid = sid => objs[p].owner = owner
  <2>1. CASE sid \notin used  BY <2>1 DEF OwnerInv
  <2>2. CASE disk[<<owner, sid>>] # NoFile  BY <2>2 DEF OwnerInv
  <2> QED  BY <2>1, <2>2 DEF EntersAs
<1>6. \A w \in Owners : disk[<<w, sid>>] # NoFile => w = owner
  <2>1. CASE sid \notin used  BY <2>1 DEF OwnerInv
  <2>2. CASE disk[<<owner, sid>>] # NoFile  BY <2>2 DEF OwnerInv
  <2> QED  BY <2>1, <2>2 DEF EntersAs
<1>7. \A p \in Objs : objs'[p] # Free => objs'[p].sid \in used'
  BY <1>2, <1>3, <1>4 DEF OwnerInv
<1>8. \A w \in Owners, s \in Sids : disk'[<<w, s>>] # NoFile => s \in used'
  BY <1>4 DEF OwnerInv
<1>9. ASSUME NEW p \in Objs, NEW q \in Objs, objs'[p] # Free, objs'[q] # Free,
             objs'[p].sid = objs'[q].sid
      PROVE  objs'[p].owner = objs'[q].owner
  <2>1. CASE p = o  BY <1>2, <1>3, <1>5, <1>9, <2>1
  <2>2. CASE q = o  BY <1>2, <1>3, <1>5, <1>9, <2>2
  <2>3. CASE p # o /\ q # o  BY <1>3, <1>9, <2>3 DEF OwnerInv
  <2> QED  BY <2>1, <2>2, <2>3
<1>10. ASSUME NEW p \in Objs, NEW w \in Owners, objs'[p] # Free, disk'[<<w, objs'[p].sid>>] # NoFile
       PROVE  objs'[p].owner = w
  <2>1. CASE p = o  BY <1>2, <1>6, <1>10, <2>1
  <2>2. CASE p # o
    <3>1. objs[p] # Free /\ objs'[p].sid = objs[p].sid /\ objs'[p].owner = objs[p].owner
      BY <1>3, <1>10, <2>2
    <3>2. objs[p].sid \in Sids  BY <3>1, ObjTyped
    <3>3. disk[<<w, objs[p].sid>>] # NoFile  BY <1>10, <3>1, <3>2
    <3> QED  BY <3>1, <3>3 DEF OwnerInv
  <2> QED  BY <2>1, <2>2
<1>11. \A v, w \in Owners, s \in Sids :
         disk'[<<v, s>>] # NoFile /\ disk'[<<w, s>>] # NoFile => v = w
  BY DEF OwnerInv
<1>12. \A s \in Sids : s \notin used' => saved'[s] = {}  BY <1>4
<1> QED  BY <1>7, <1>8, <1>9, <1>10, <1>11, <1>12 DEF OwnerInv

LEMMA OwnersStay ==
    ASSUME TypeOK, \A d \in Conns : ConnInv(d), TableInv, OwnerInv, [Next]_vars, Types'
    PROVE  OwnerInv'
<1>1. ASSUME NEW c \in Conns, Leaves(c) \/ Hits(c) \/ Expires(c)
      PROVE  /\ used' = used
             /\ \A o \in Objs : \/ objs'[o] = Free
                                \/ /\ objs[o] # Free /\ objs'[o].sid = objs[o].sid
                                   /\ objs'[o].owner = objs[o].owner
  <2>1. \A o \in Objs : objs'[o] = Free \/ Same(o)  BY <1>1, Remains
  <2> QED  BY <1>1, <2>1 DEF Leaves, Hits, Expires, Same
<1>2. ASSUME UNCHANGED <<disk, saved>> \/ Removes
      PROVE  /\ \A w \in Owners, s \in Sids : disk'[<<w, s>>] # NoFile => disk[<<w, s>>] # NoFile
             /\ \A s \in Sids : s \notin used => saved'[s] = {}
  <2>1. CASE UNCHANGED <<disk, saved>>  BY <2>1 DEF OwnerInv
  <2>2. CASE Removes
    <3>1. PICK w \in Owners, s \in used : Remove(w, s)  BY <2>2 DEF Removes
    <3> QED  BY <3>1 DEF Remove, TypeOK, OwnerInv
  <2> QED  BY <1>2, <2>1, <2>2
<1>3. ASSUME NEW c \in Conns, TableMove(c) PROVE OwnerInv'
  <2>1. CASE Enters(c) /\ (UNCHANGED <<disk, saved>> \/ Removes)
    <3>1. PICK m, r : \E sid \in Sids, owner \in Owners, o \in Objs, data \in SUBSET (1..MaxTickets) :
            EntersAs(c, m, sid, owner, data, o, r)
      BY <2>1 DEF Enters
    <3>2. PICK sid \in Sids, owner \in Owners, o \in Objs, data \in SUBSET (1..MaxTickets) :
            EntersAs(c, m, sid, owner, data, o, r)
      BY <3>1
    <3> QED  BY <1>2, <2>1, <3>2, OwnersJoined
  <2>2. CASE (Leaves(c) \/ Hits(c) \/ Expires(c)) /\ (UNCHANGED <<disk, saved>> \/ Removes)
    BY <1>1, <1>2, <2>2, OwnersKept
  <2>3. CASE Leaves(c) /\ Saves(c)
    <3>1. conn[c].obj \in Objs /\ objs[conn[c].obj] # Free
      BY <2>3, UsedSession DEF Saves, InUse
    <3> QED  BY <1>1, <2>3, <3>1, OwnersSaved DEF Saves
  <2> QED  BY <1>3, <2>1, <2>2, <2>3 DEF TableMove
<1>4. ASSUME NEW c \in Conns, Works(c) PROVE OwnerInv'
  <2>1. PICK x : Changes(conn[c].obj, x) /\ objs' = [objs EXCEPT ![conn[c].obj] = x]
    BY <1>4 DEF Works
  <2>2. conn[c].obj \in Objs /\ objs[conn[c].obj] # Free  BY <1>4, UsedSession DEF Works
  <2>3. \A o \in Objs : \/ objs'[o] = Free
                        \/ /\ objs[o] # Free /\ objs'[o].sid = objs[o].sid
                           /\ objs'[o].owner = objs[o].owner
    BY <2>1, <2>2 DEF Changes, TypeOK
  <2>4. UNCHANGED <<disk, saved, used>>  BY <1>4 DEF Works
  <2> QED  BY <2>3, <2>4, OwnersKept DEF OwnerInv
<1>5. CASE Tick \/ UNCHANGED vars
  <2>1. UNCHANGED <<disk, saved, used, objs>>  BY <1>5 DEF Tick, vars
  <2> QED  BY <2>1 DEF OwnerInv
<1>6. CASE Restart
  <2>1. UNCHANGED <<disk, saved, used>> /\ \A o \in Objs : objs'[o] = Free
    BY <1>6 DEF Restart
  <2> QED  BY <2>1, OwnersKept DEF OwnerInv
<1> QED  BY <1>3, <1>4, <1>5, <1>6, Moves

\* A step of resolve or persist, and the connections.
LEMMA TableConns ==
    ASSUME TypeOK, NEW c \in Conns, TableMove(c)
    PROVE  /\ \A d \in Conns : d # c => conn'[d] = conn[d]
           /\ conn[c].pc \in {"idle", "discarding", "resolved", "handled"}
           /\ conn'[c].pc \in {"idle", "discarding", "resolved"}
<1>1. CASE Leaves(c)  BY <1>1 DEF Leaves, TypeOK, Idle
<1>2. CASE Hits(c)  BY <1>2 DEF Hits, Using, TypeOK
<1>3. CASE Enters(c)  BY <1>3 DEF Enters, EntersAs, Using, TypeOK
<1>4. CASE Expires(c)  BY <1>4 DEF Expires, TypeOK
<1> QED  BY <1>1, <1>2, <1>3, <1>4 DEF TableMove

LEMMA LocksStay ==
    ASSUME TypeOK, \A d \in Conns : ConnInv(d), TableInv, OwnerInv, LockInv, [Next]_vars
    PROVE  LockInv'
<1>1. ASSUME NEW c \in Conns, TableMove(c) PROVE LockInv'
  <2>1. \A d \in Conns : Holding(d)' => Holding(d) /\ conn'[d] = conn[d]
    BY <1>1, TableConns DEF Holding
  <2> QED  BY <2>1 DEF LockInv
<1>2. ASSUME NEW c \in Conns, WorkStep(c) PROVE LockInv'
  <2>1. CASE Lock(c)
    <3>1. \A d \in Conns : d # c => (Holding(d)' <=> Holding(d)) /\ conn'[d].obj = conn[d].obj
      BY <2>1 DEF Lock, Goto, Holding, TypeOK
    <3>2. \A d \in Conns : d # c /\ Holding(d)' => conn'[d].obj # conn'[c].obj
      BY <2>1, <3>1 DEF Lock, Goto, TypeOK, Conn
    <3> QED  BY <3>1, <3>2 DEF LockInv
  <2>2. CASE ~Lock(c)
    <3>1. \A d \in Conns : conn'[d].obj = conn[d].obj /\ (Holding(d)' => Holding(d))
      <4>1. ASSUME NEW d \in Conns PROVE conn'[d].obj = conn[d].obj /\ (Holding(d)' => Holding(d))
        <5>1. conn[d] \in Conn  BY DEF TypeOK
        <5>2. CASE Admit(c)  BY <5>1, <5>2 DEF Admit, Goto, Holding, TypeOK, Conn
        <5>3. CASE Handle(c) \/ ClaimAgent(c) \/ CountAgent(c) \/ ReleaseActive(c)
                   \/ ReleaseGlobal(c)
          BY <5>1, <5>3 DEF Handle, ClaimAgent, CountAgent, ReleaseActive, ReleaseGlobal, Goto,
                            Holding, TypeOK, Conn
        <5>4. CASE RunTool(c)  BY <5>4 DEF RunTool, Holding
        <5> QED  BY <1>2, <2>2, <5>2, <5>3, <5>4 DEF WorkStep
      <4> QED  BY <4>1
    <3> QED  BY <3>1 DEF LockInv
  <2> QED  BY <2>1, <2>2
<1>3. CASE Tick \/ UNCHANGED vars  BY <1>3 DEF Tick, vars, LockInv, Holding
<1>4. CASE Restart  BY <1>4 DEF Restart, LockInv, Holding, Idle
<1> QED  BY <1>1, <1>2, <1>3, <1>4, Moves

\* The sessions with an agent at work.
AtWork == {o \in Objs : \E c \in Conns : conn[c].obj = o /\ conn[c].pc \in {"claimed", "running"}}

LEMMA TableMoveAgents ==
    ASSUME TypeOK, \A d \in Conns : ConnInv(d), TableInv, Types', NEW c \in Conns, TableMove(c),
           AgentAccounting
    PROVE  AgentAccounting'
<1>1. /\ \A d \in Conns : d # c => conn'[d] = conn[d]
      /\ conn[c].pc \in {"idle", "discarding", "resolved", "handled"}
      /\ conn'[c].pc \in {"idle", "discarding", "resolved"}
      /\ global' = global
  BY TableConns DEF TableMove
<1>2. {d \in Conns : conn[d].pc \in {"running", "released"}}'
        = {d \in Conns : conn[d].pc \in {"running", "released"}}
  BY <1>1
<1>3. \A o \in Objs : o \in AtWork' <=> o \in AtWork  BY <1>1 DEF AtWork
<1>4. \A o \in Objs : o \in AtWork => o \in Alive(map', conn')
  BY <1>1 DEF AtWork, Alive
<1>5. \A o \in Objs : objs[o].active <=> o \in AtWork  BY DEF AgentAccounting, AtWork
<1>6. ASSUME NEW o \in Objs, objs'[o] = Free \/ Same(o), o \in Alive(map', conn') => Same(o)
      PROVE  objs'[o].active <=> o \in AtWork
  BY <1>4, <1>5, <1>6 DEF Same, Free
<1>7. ASSUME NEW o \in Objs PROVE objs'[o].active <=> o \in AtWork
  <2>1. CASE Leaves(c) \/ Hits(c) \/ Expires(c)  BY <1>6, <2>1, Remains
  <2>2. CASE Enters(c)
    <3>1. PICK m, r : \E sid \in Sids, owner \in Owners, p \in Objs, data \in SUBSET (1..MaxTickets) :
            EntersAs(c, m, sid, owner, data, p, r)
      BY <2>2 DEF Enters
    <3>2. PICK sid \in Sids, owner \in Owners, p \in Objs, data \in SUBSET (1..MaxTickets) :
            EntersAs(c, m, sid, owner, data, p, r)
      BY <3>1
    <3>3. JoinsAs(c, sid, owner, data, p, r)  BY <3>2, Joined
    <3>4. CASE o = p
      <4>1. ~objs'[o].active  BY <3>3, <3>4 DEF JoinsAs
      <4>2. o \notin AtWork  BY <1>1, <3>3, <3>4 DEF JoinsAs, AtWork
      <4> QED  BY <4>1, <4>2
    <3>5. CASE o # p  BY <1>6, <3>3, <3>5 DEF JoinsAs
    <3> QED  BY <3>4, <3>5
  <2> QED  BY <2>1, <2>2 DEF TableMove
<1>8. \A d \in Conns : conn'[d].pc = "locked" => ~objs'[conn'[d].obj].active
  <2> SUFFICES ASSUME NEW d \in Conns, conn'[d].pc = "locked"
               PROVE  ~objs'[conn'[d].obj].active
    OBVIOUS
  <2>1. conn'[d] = conn[d] /\ conn[d].pc = "locked"  BY <1>1
  <2>2. ~objs[conn[d].obj].active  BY <2>1 DEF AgentAccounting
  <2>3. conn[d].obj \in Objs  BY <2>1, ConnTyped DEF ConnInv, InUse
  <2> QED  BY <1>5, <1>7, <2>1, <2>2, <2>3
<1> QED  BY <1>1, <1>2, <1>3, <1>7, <1>8 DEF AgentAccounting, AtWork

\* A step of a handler, and who is at work.
LEMMA WorkStepAgents ==
    ASSUME TypeOK, \A d \in Conns : ConnInv(d), TableInv, LockInv, AgentAccounting, Types',
           NEW c \in Conns, WorkStep(c), Works(c)
    PROVE  AgentAccounting'
<1> DEFINE o == conn[c].obj
<1>1. o \in Objs /\ conn[c] \in Conn  BY UsedSession DEF Works, TypeOK
<1>2. \A d \in Conns : conn'[d].obj = conn[d].obj /\ (d # c => conn'[d] = conn[d])
  BY DEF Works, TypeOK, Conn
<1>3. \A p \in Objs : p # o => objs'[p] = objs[p]  BY DEF Works, TypeOK
<1>4. \A p \in Objs : objs[p].active <=> p \in AtWork  BY DEF AgentAccounting, AtWork
<1>5. IsFiniteSet(Agents)  BY SessionsAssumption, FS_Subset DEF Agents
<1>6. global = Cardinality(Agents) /\ global \in Nat
  <2>1. global = Cardinality(Agents)  BY DEF AgentAccounting, Agents
  <2> QED  BY <1>5, <2>1, FS_CardinalityType
\* Whoever has the lock is alone with it.
<1>7. Holding(c) => \A d \in Conns : d # c /\ conn[d].obj = o => ~Holding(d)  BY DEF LockInv
<1>8. \A d \in Conns : conn[d].pc \in {"locked", "claimed", "running", "released"} => Holding(d)
  BY DEF ConnInv, Holding
\* The parts of the accounting that a step disturbs.
<1>9. ASSUME NEW place, conn'[c].pc = place,
             objs'[o].active <=>
                (place \in {"claimed", "running"} \/ \E d \in Conns : d # c /\ conn[d].obj = o
                                                     /\ conn[d].pc \in {"claimed", "running"}),
             global' = Cardinality(Agents'), global' <= MaxAgents,
             place = "locked" => ~objs'[o].active,
             \A d \in Conns : d # c /\ conn[d].obj = o /\ conn[d].pc = "locked" => ~objs'[o].active
      PROVE  AgentAccounting'
  <2>1. \A p \in Objs : objs'[p].active <=> p \in AtWork'
    <3>1. ASSUME NEW p \in Objs, p # o PROVE objs'[p].active <=> p \in AtWork'
      <4>1. p \in AtWork' <=> p \in AtWork  BY <1>2, <3>1 DEF AtWork
      <4> QED  BY <1>3, <1>4, <3>1, <4>1
    <3>2. objs'[o].active <=> o \in AtWork'
      <4>1. o \in AtWork' <=>
              \E d \in Conns : conn'[d].obj = o /\ conn'[d].pc \in {"claimed", "running"}
        BY <1>1 DEF AtWork
      <4>2. conn'[c].obj = o /\ conn'[c].pc = place  BY <1>2, <1>9
      <4>3. (\E d \in Conns : conn'[d].obj = o /\ conn'[d].pc \in {"claimed", "running"})
              <=> \/ place \in {"claimed", "running"}
                  \/ \E d \in Conns : d # c /\ conn[d].obj = o
                                       /\ conn[d].pc \in {"claimed", "running"}
        <5> HIDE DEF o
        <5> QED  BY <1>2, <4>2
      <4> QED  BY <1>9, <4>1, <4>3
    <3> QED  BY <3>1, <3>2
  <2>2. \A d \in Conns : conn'[d].pc = "locked" => ~objs'[conn'[d].obj].active
    <3> SUFFICES ASSUME NEW d \in Conns, conn'[d].pc = "locked"
                 PROVE  ~objs'[conn'[d].obj].active
      OBVIOUS
    <3>1. CASE d = c  BY <1>2, <1>9, <3>1
    <3>2. CASE d # c
      <4>1. conn'[d] = conn[d] /\ conn[d].pc = "locked"  BY <1>2, <3>2
      <4>2. conn[d].obj \in Objs  BY <4>1, ConnTyped DEF ConnInv, InUse
      <4>3. ~objs[conn[d].obj].active  BY <4>1 DEF AgentAccounting
      <4>4. CASE conn[d].obj = o  BY <1>9, <3>2, <4>1, <4>4
      <4>5. CASE conn[d].obj # o  BY <1>3, <4>1, <4>2, <4>3, <4>5
      <4> QED  BY <4>4, <4>5
    <3> QED  BY <3>1, <3>2
  <2> QED  BY <1>9, <2>1, <2>2 DEF AgentAccounting, AtWork, Agents
<1>10. objs[o].active <=>
         (conn[c].pc \in {"claimed", "running"} \/ \E d \in Conns : d # c /\ conn[d].obj = o
                                                     /\ conn[d].pc \in {"claimed", "running"})
  BY <1>1, <1>4 DEF AtWork
<1>11. Holding(c) => \A d \in Conns : d # c /\ conn[d].obj = o =>
         conn[d].pc \notin {"locked", "claimed", "running"}
  BY <1>7, <1>8
<1>12. ASSUME conn'[c].pc \in {"running", "released"} <=> conn[c].pc \in {"running", "released"},
              global' = global
       PROVE  global' = Cardinality(Agents') /\ global' <= MaxAgents
  <2>1. Agents' = Agents  BY <1>2, <1>12 DEF Agents
  <2> QED  BY <1>6, <1>12, <2>1 DEF AgentAccounting
<1>13. CASE Admit(c)
  <2>1. /\ conn[c].pc = "resolved" /\ conn'[c].pc \in {"waiting", "handled"}
        /\ objs'[o].active = objs[o].active /\ global' = global
    BY <1>1, <1>13 DEF Admit, Goto, TypeOK, Conn, Object, Free
  <2>2. \A d \in Conns : conn[d].obj = o /\ conn[d].pc = "locked" => ~objs[o].active
    BY DEF AgentAccounting
  <2> QED  BY <1>9, <1>10, <1>12, <2>1, <2>2
<1>14. CASE Lock(c)
  <2>1. /\ conn[c].pc = "waiting" /\ conn'[c].pc = "locked" /\ objs' = objs /\ global' = global
        /\ \A d \in Conns : Holding(d) => conn[d].obj # o
    BY <1>1, <1>14 DEF Lock, Goto, TypeOK, Conn
  <2>2. \A d \in Conns : d # c /\ conn[d].obj = o => conn[d].pc \notin {"locked", "claimed", "running"}
    BY <1>8, <2>1
  <2> QED  BY <1>9, <1>10, <1>12, <2>1, <2>2
<1>15. CASE Handle(c)
  <2>1. /\ conn[c].pc = "locked" /\ conn'[c].pc = "handled" /\ objs'[o].active = objs[o].active
        /\ global' = global /\ Holding(c)
    BY <1>1, <1>8, <1>15 DEF Handle, Goto, Touch, TypeOK, Conn, Object, Free
  <2> QED  BY <1>9, <1>10, <1>11, <1>12, <2>1
<1>16. CASE ClaimAgent(c)
  <2>1. /\ conn[c].pc = "locked" /\ conn'[c].pc = "claimed" /\ objs'[o].active = TRUE
        /\ global' = global /\ Holding(c)
    BY <1>1, <1>8, <1>16 DEF ClaimAgent, Goto, TypeOK, Conn, Object, Free
  <2> QED  BY <1>9, <1>11, <1>12, <2>1
<1>17. CASE CountAgent(c)
  <2>1. conn[c].pc = "claimed" /\ Holding(c)  BY <1>8, <1>17 DEF CountAgent
  <2>2. CASE /\ conn' = [conn EXCEPT ![c].pc = "handled"] /\ global' = global
             /\ objs' = [objs EXCEPT ![o].active = FALSE]
    <3>1. conn'[c].pc = "handled" /\ objs'[o].active = FALSE
      BY <1>1, <2>2 DEF TypeOK, Conn, Object, Free
    <3> QED  BY <1>9, <1>11, <1>12, <2>1, <2>2, <3>1
  <2>3. CASE /\ conn' = [conn EXCEPT ![c].pc = "running"] /\ global' = global + 1
             /\ global < MaxAgents /\ objs' = objs
    <3>1. conn'[c].pc = "running"  BY <1>1, <2>3 DEF TypeOK, Conn
    <3>2. Agents' = Agents \cup {c} /\ c \notin Agents  BY <1>2, <2>1, <3>1 DEF Agents
    <3>3. Cardinality(Agents') = Cardinality(Agents) + 1  BY <1>5, <3>2, FS_AddElement
    <3>4. global' = Cardinality(Agents') /\ global' <= MaxAgents
      BY <1>6, <2>3, <3>3, SessionsAssumption
    <3> QED  BY <1>9, <1>10, <1>11, <2>1, <2>3, <3>1, <3>4
  <2> QED  BY <1>17, <2>2, <2>3 DEF CountAgent, Goto
<1>18. CASE RunTool(c)
  <2>1. /\ conn[c].pc = "running" /\ conn' = conn /\ objs'[o].active = objs[o].active
        /\ global' = global /\ Holding(c)
    BY <1>1, <1>8, <1>18 DEF RunTool, Touch, TypeOK, Object, Free
  <2> QED  BY <1>9, <1>10, <1>11, <1>12, <2>1
<1>19. CASE ReleaseActive(c)
  <2>1. /\ conn[c].pc = "running" /\ conn'[c].pc = "released" /\ objs'[o].active = FALSE
        /\ global' = global /\ Holding(c)
    BY <1>1, <1>8, <1>19 DEF ReleaseActive, Goto, TypeOK, Conn, Object, Free
  <2> QED  BY <1>9, <1>11, <1>12, <2>1
<1>20. CASE ReleaseGlobal(c)
  <2>1. /\ conn[c].pc = "released" /\ conn'[c].pc = "handled" /\ objs' = objs /\ Holding(c)
        /\ global' = IF global = 0 THEN 0 ELSE global - 1
    BY <1>1, <1>8, <1>20 DEF ReleaseGlobal, Goto, TypeOK, Conn
  <2>2. Agents' = Agents \ {c} /\ c \in Agents  BY <1>2, <2>1 DEF Agents
  <2>3. Cardinality(Agents') = Cardinality(Agents) - 1  BY <1>5, <2>2, FS_RemoveElement
  <2>4. Agents # {}  BY <2>2
  <2>5. global # 0  BY <1>5, <1>6, <2>4, FS_EmptySet
  <2>6. global <= MaxAgents  BY DEF AgentAccounting
  <2>7. global' = Cardinality(Agents') /\ global' <= MaxAgents
    BY <1>6, <2>1, <2>3, <2>5, <2>6, SessionsAssumption
  <2> QED  BY <1>9, <1>10, <1>11, <2>1, <2>7
<1> QED
  BY <1>13, <1>14, <1>15, <1>16, <1>17, <1>18, <1>19, <1>20 DEF WorkStep

LEMMA AgentsStay ==
    ASSUME TypeOK, \A d \in Conns : ConnInv(d), TableInv, OwnerInv, LockInv, AgentAccounting,
           Types', [Next]_vars
    PROVE  AgentAccounting'
<1>1. CASE Tick \/ UNCHANGED vars
  <2>1. UNCHANGED <<conn, objs, global>>  BY <1>1 DEF Tick, vars
  <2> QED  BY <2>1 DEF AgentAccounting
<1>2. CASE Restart
  <2>1. /\ \A o \in Objs : ~objs'[o].active
        /\ \A d \in Conns : conn'[d].pc = "idle"
        /\ global' = 0
    BY <1>2 DEF Restart, Free, Idle
  <2>2. {d \in Conns : conn[d].pc \in {"running", "released"}}' = {}  BY <2>1
  <2>3. Cardinality({d \in Conns : conn[d].pc \in {"running", "released"}}') = 0
    BY <2>2, FS_EmptySet
  <2>4. global' <= MaxAgents  BY <2>1, SessionsAssumption
  <2> QED  BY <2>1, <2>3, <2>4 DEF AgentAccounting
<1> QED  BY <1>1, <1>2, Moves, TableMoveAgents, WorkStepAgents

\* As long as no session is old enough, none leaves the table.
LEMMA NothingLeaves ==
    ASSUME TypeOK, now < MinIdle, NEW m, Left(m)
    PROVE  m = map
<1>1. \A s \in Sids : map[s] \in Objs => objs[map[s]].seen \in Nat  BY ObjTyped
<1>2. now \in Nat /\ TTL \in Nat /\ MinIdle \in Nat /\ MinIdle <= TTL
  BY SessionsAssumption DEF TypeOK
<1>3. \A s \in Sids : map[s] \in Objs => ~(now - objs[map[s]].seen > TTL)
                                        /\ ~(now - objs[map[s]].seen >= MinIdle)
  BY <1>1, <1>2
<1>4. \A s \in Sids : m[s] = map[s]  BY <1>3 DEF Left, TypeOK
<1> QED  BY <1>4 DEF Left, TypeOK

LEMMA HereStays ==
    ASSUME TypeOK, \A d \in Conns : ConnInv(d), TableInv, OwnerInv, HereInv, Types', [Next]_vars
    PROVE  HereInv'
<1> SUFFICES ASSUME now' < MinIdle, NEW d \in Conns, conn'[d].obj # 0
             PROVE  map'[objs'[conn'[d].obj].sid] = conn'[d].obj
  BY DEF HereInv
<1>0. conn'[d].obj \in Objs /\ conn'[d].obj \in Alive(map', conn')  BY DEF Types, Conn, Alive
<1>1. ASSUME NEW c \in Conns, TableMove(c) PROVE map'[objs'[conn'[d].obj].sid] = conn'[d].obj
  <2>0. now < MinIdle /\ UNCHANGED now  BY <1>1 DEF TableMove
  <2>1. CASE Leaves(c) \/ Hits(c) \/ Expires(c)
    <3>1. map' = map
      BY <2>0, <2>1, SweptLeft, NothingLeaves DEF Leaves, Hits, Expires
    <3>2. Same(conn'[d].obj)  BY <1>0, <2>1, Remains
    <3>3. CASE conn'[d] = conn[d]
      BY <2>0, <3>1, <3>2, <3>3 DEF Same, HereInv
    <3>4. CASE conn'[d] # conn[d]
      <4>1. ~Leaves(c) /\ ~Expires(c)  BY <3>4 DEF Leaves, Expires, TypeOK, Idle
      <4>2. PICK s \in Sids, r \in Conn :
              Swept[s] # 0 /\ Using(r, Swept[s]) /\ conn' = [conn EXCEPT ![c] = r]
        BY <2>1, <4>1 DEF Hits
      <4>3. conn'[d].obj = Swept[s]  BY <3>4, <4>2 DEF Using, TypeOK
      <4>4. Swept = map  BY <2>0, SweptLeft, NothingLeaves
      <4>5. objs[map[s]].sid = s  BY <4>2, <4>4 DEF TableInv
      <4> QED  BY <3>1, <3>2, <4>3, <4>4, <4>5 DEF Same
    <3> QED  BY <3>3, <3>4
  <2>2. CASE Enters(c)
    <3>1. PICK m, r : \E sid \in Sids, owner \in Owners, o \in Objs, data \in SUBSET (1..MaxTickets) :
            EntersAs(c, m, sid, owner, data, o, r)
      BY <2>2 DEF Enters
    <3>2. PICK sid \in Sids, owner \in Owners, o \in Objs, data \in SUBSET (1..MaxTickets) :
            EntersAs(c, m, sid, owner, data, o, r)
      BY <3>1
    <3>3. JoinsAs(c, sid, owner, data, o, r)  BY <3>2, Joined
    <3>4. m = map /\ m[sid] = 0 /\ map' = [m EXCEPT ![sid] = o]
      BY <2>0, <3>2, NothingLeaves DEF EntersAs
    <3>5. CASE d = c  BY <3>3, <3>5 DEF JoinsAs
    <3>6. CASE d # c
      <4>1. conn'[d] = conn[d] /\ conn[d].obj # o  BY <3>3, <3>6 DEF JoinsAs
      <4>2. Same(conn[d].obj)  BY <1>0, <3>3, <4>1 DEF JoinsAs
      <4>3. map[objs[conn[d].obj].sid] = conn[d].obj  BY <2>0, <4>1 DEF HereInv
      <4>4. objs[conn[d].obj].sid \in Sids
        BY <1>0, <4>1, ObjTyped DEF TableInv
      <4>5. objs[conn[d].obj].sid # sid  BY <3>4, <4>1, <4>3
      <4> QED  BY <3>4, <4>1, <4>2, <4>3, <4>4, <4>5 DEF Same, TypeOK
    <3> QED  BY <3>5, <3>6
  <2> QED  BY <1>1, <2>1, <2>2 DEF TableMove
<1>2. ASSUME NEW c \in Conns, Works(c) PROVE map'[objs'[conn'[d].obj].sid] = conn'[d].obj
  <2>1. PICK x : Changes(conn[c].obj, x) /\ objs' = [objs EXCEPT ![conn[c].obj] = x]
    BY <1>2 DEF Works
  <2>2. conn'[d].obj = conn[d].obj /\ UNCHANGED <<map, now>>  BY <1>2 DEF Works, TypeOK, Conn
  <2>3. objs'[conn[d].obj].sid = objs[conn[d].obj].sid
    BY <1>0, <2>1, <2>2 DEF Changes, TypeOK
  <2> QED  BY <2>2, <2>3 DEF HereInv
<1>3. CASE Tick
  <2>1. now < MinIdle  BY <1>3, SessionsAssumption DEF Tick, TypeOK
  <2> QED  BY <1>3, <2>1 DEF Tick, HereInv
<1>4. CASE UNCHANGED vars  BY <1>4 DEF vars, HereInv
<1>5. CASE Restart  BY <1>5 DEF Restart, Idle
<1> QED  BY <1>1, <1>2, <1>3, <1>4, <1>5, Moves

\* What is persisted stays in the file and in the session.
LEMMA PersistedStays ==
    ASSUME TypeOK, \A d \in Conns : ConnInv(d), TableInv, OwnerInv, HereInv, PersistedSurvives,
           Types', [Next]_vars
    PROVE  PersistedSurvives'
<1> SUFFICES ASSUME now' < MinIdle, NEW s \in Sids
             PROVE  /\ \A w \in Owners :
                         disk'[<<w, s>>] # NoFile => saved'[s] \subseteq disk'[<<w, s>>].data
                    /\ map'[s] # 0 => saved'[s] \subseteq objs'[map'[s]].data
  BY DEF PersistedSurvives
<1> DEFINE Files == \A w \in Owners :
                       disk'[<<w, s>>] # NoFile => saved'[s] \subseteq disk'[<<w, s>>].data
           Table == map'[s] # 0 => saved'[s] \subseteq objs'[map'[s]].data
<1>1. now < MinIdle => /\ \A w \in Owners :
                            disk[<<w, s>>] # NoFile => saved[s] \subseteq disk[<<w, s>>].data
                       /\ map[s] # 0 => saved[s] \subseteq objs[map[s]].data
  BY DEF PersistedSurvives
<1>2. ASSUME NEW c \in Conns, TableMove(c) PROVE Files /\ Table
  <2>0. now < MinIdle  BY <1>2 DEF TableMove
  <2>1. ASSUME UNCHANGED <<disk, saved>> \/ Removes
        PROVE  Files /\ saved'[s] \subseteq saved[s]
    <3>1. CASE UNCHANGED <<disk, saved>>  BY <1>1, <2>0, <3>1
    <3>2. CASE Removes
      <4>1. PICK w \in Owners, t \in used : Remove(w, t)  BY <3>2 DEF Removes
      <4>2. t \in Sids  BY DEF TypeOK
      <4>3. saved'[s] = IF s = t THEN {} ELSE saved[s]  BY <4>1, <4>2 DEF Remove, TypeOK
      <4>4. s # t => \A v \in Owners : disk'[<<v, s>>] = disk[<<v, s>>]
        BY <4>1, <4>2 DEF Remove, TypeOK
      <4> QED  BY <1>1, <2>0, <4>3, <4>4
    <3> QED  BY <2>1, <3>1, <3>2
  <2>2. CASE (Leaves(c) \/ Hits(c) \/ Expires(c)) /\ (UNCHANGED <<disk, saved>> \/ Removes)
    <3>1. map' = map
      BY <2>0, <2>2, SweptLeft, NothingLeaves DEF Leaves, Hits, Expires
    <3>2. ASSUME map'[s] # 0 PROVE objs'[map'[s]].data = objs[map[s]].data
      <4>1. map'[s] \in Objs /\ map'[s] \in Alive(map', conn')  BY <3>2 DEF Types, Alive
      <4> QED  BY <2>2, <3>1, <4>1, Remains DEF Same
    <3> QED  BY <1>1, <2>0, <2>1, <2>2, <3>1, <3>2
  <2>3. CASE Enters(c) /\ (UNCHANGED <<disk, saved>> \/ Removes)
    <3>1. PICK m, r : \E sid \in Sids, owner \in Owners, o \in Objs, data \in SUBSET (1..MaxTickets) :
            EntersAs(c, m, sid, owner, data, o, r)
      BY <2>3 DEF Enters
    <3>2. PICK sid \in Sids, owner \in Owners, o \in Objs, data \in SUBSET (1..MaxTickets) :
            EntersAs(c, m, sid, owner, data, o, r)
      BY <3>1
    <3>3. JoinsAs(c, sid, owner, data, o, r)  BY <3>2, Joined
    <3>4. CASE s = sid
      <4>1. map'[s] = o /\ objs'[o].data = data  BY <3>3, <3>4 DEF JoinsAs
      <4>2. CASE sid \notin used
        <5>1. saved[s] = {}  BY <3>4, <4>2 DEF OwnerInv
        <5> QED  BY <2>1, <2>3, <5>1
      <4>3. CASE /\ disk[<<owner, sid>>] # NoFile /\ data = disk[<<owner, sid>>].data
                 /\ UNCHANGED <<disk, saved>>
        BY <1>1, <2>0, <2>1, <3>4, <4>1, <4>3
      <4> QED  BY <3>2, <4>2, <4>3 DEF EntersAs
    <3>5. CASE s # sid
      <4>1. ASSUME map'[s] # 0 PROVE map'[s] = map[s] /\ objs'[map'[s]].data = objs[map[s]].data
        <5>1. map'[s] = map[s] /\ map'[s] # o  BY <3>3, <3>5, <4>1 DEF JoinsAs
        <5>2. map'[s] \in Objs \ {o} /\ map'[s] \in Alive(map', conn')
          BY <4>1, <5>1 DEF Types, Alive
        <5> QED  BY <3>3, <5>1, <5>2 DEF JoinsAs, Same
      <4> QED  BY <1>1, <2>0, <2>1, <2>3, <4>1
    <3> QED  BY <3>4, <3>5
  <2>4. CASE Leaves(c) /\ Saves(c)
    <3> DEFINE o == conn[c].obj
               t == objs[o].sid
               u == objs[o].owner
    <3>1. o \in Objs /\ objs[o] # Free /\ t \in Sids /\ u \in Owners
      BY <2>4, UsedSession DEF Saves, InUse
    <3>2. Save(u, t, objs[o].data)  BY <2>4 DEF Saves
    <3>3. map' = map  BY <2>0, <2>4, NothingLeaves DEF Leaves
    <3>4. map[t] = o /\ o # 0  BY <2>0, <3>1, ObjsAreNumbers DEF HereInv
    <3>5. ASSUME map'[s] # 0 PROVE objs'[map'[s]].data = objs[map[s]].data
      <4>1. map'[s] \in Objs /\ map'[s] \in Alive(map', conn')  BY <3>5 DEF Types, Alive
      <4> QED  BY <2>4, <3>3, <4>1, Remains DEF Same
    <3>6. \A w \in Owners : disk[<<w, t>>] # NoFile => w = u  BY <3>1 DEF OwnerInv
    <3> HIDE DEF t, u, o
    <3>7. CASE s = t
      <4>1. saved[s] \subseteq objs[o].data  BY <1>1, <2>0, <3>4, <3>7
      <4>2. saved'[s] = objs[o].data  BY <3>1, <3>2, <3>7, <4>1 DEF Save, TypeOK
      <4>3. disk'[<<u, s>>].data = objs[o].data  BY <3>1, <3>2, <3>7 DEF Save, TypeOK
      <4>4. \A w \in Owners : w # u => disk'[<<w, s>>] = NoFile
        BY <3>1, <3>2, <3>6, <3>7 DEF Save, TypeOK
      <4>5. Files  BY <4>2, <4>3, <4>4
      <4>6. Table  BY <3>3, <3>4, <3>5, <3>7, <4>2
      <4> QED  BY <4>5, <4>6
    <3>8. CASE s # t
      <4>1. saved'[s] = saved[s] /\ \A w \in Owners : disk'[<<w, s>>] = disk[<<w, s>>]
        BY <3>1, <3>2, <3>8 DEF Save, TypeOK
      <4> QED  BY <1>1, <2>0, <3>3, <3>5, <4>1
    <3> QED  BY <3>7, <3>8
  <2> QED  BY <1>2, <2>2, <2>3, <2>4 DEF TableMove
<1>3. ASSUME NEW c \in Conns, Works(c) PROVE Files /\ Table
  <2>1. PICK x : Changes(conn[c].obj, x) /\ objs' = [objs EXCEPT ![conn[c].obj] = x]
    BY <1>3 DEF Works
  <2>2. UNCHANGED <<map, disk, saved, now>>  BY <1>3 DEF Works
  <2>3. map[s] # 0 => objs[map[s]].data \subseteq objs'[map[s]].data
    BY <2>1 DEF Changes, TypeOK
  <2> QED  BY <1>1, <2>2, <2>3
<1>4. CASE Tick
  <2>1. now < MinIdle  BY <1>4, SessionsAssumption DEF Tick, TypeOK
  <2> QED  BY <1>1, <1>4, <2>1 DEF Tick
<1>5. CASE UNCHANGED vars  BY <1>1, <1>5 DEF vars
<1>6. CASE Restart  BY <1>1, <1>6 DEF Restart
<1> QED  BY <1>2, <1>3, <1>4, <1>5, <1>6, Moves

(***************************************************************************)
(* The whole                                                               *)
(***************************************************************************)
LEMMA SessionInit == Init => SessionInv
<1> SUFFICES ASSUME Init PROVE SessionInv  OBVIOUS
<1>1. Cardinality(Conns) \in Nat  BY SessionsAssumption, FS_CardinalityType
<1>2. TypeOK
  <2>1. NoFile \in File /\ Free \in Object /\ Idle \in Conn  BY FreeIsObject DEF File
  <2> QED  BY <1>1, <2>1, SessionsAssumption DEF Init, TypeOK
<1>3. \A c \in Conns : ConnInv(c)  BY DEF Init, ConnInv, Idle, InUse
<1>4. TableInv
  <2>1. Entries(map) = {}  BY DEF Init, Entries
  <2>2. Cardinality(Entries(map)) = 0  BY <2>1, FS_EmptySet
  <2> QED  BY <2>2, SessionsAssumption DEF Init, TableInv, Idle
<1>5. OwnerInv  BY DEF Init, OwnerInv
<1>6. LockInv  BY DEF Init, LockInv, Holding, Idle
<1>7. AgentAccounting
  <2>1. {c \in Conns : conn[c].pc \in {"running", "released"}} = {}  BY DEF Init, Idle
  <2>2. Cardinality({c \in Conns : conn[c].pc \in {"running", "released"}}) = 0
    BY <2>1, FS_EmptySet
  <2> QED  BY <2>2, SessionsAssumption DEF Init, AgentAccounting, Free, Idle
<1>8. HereInv  BY DEF Init, HereInv, Idle
<1>9. PersistedSurvives  BY DEF Init, PersistedSurvives
<1> QED  BY <1>2, <1>3, <1>4, <1>5, <1>6, <1>7, <1>8, <1>9 DEF SessionInv

LEMMA SessionStays == SessionInv /\ [Next]_vars => SessionInv'
<1> SUFFICES ASSUME SessionInv, [Next]_vars PROVE SessionInv'  OBVIOUS
<1>1. /\ TypeOK /\ TableInv /\ OwnerInv /\ LockInv /\ AgentAccounting /\ HereInv
      /\ PersistedSurvives /\ \A c \in Conns : ConnInv(c)
  BY DEF SessionInv
<1>2. Types'  BY <1>1, TypesStay
<1>3. \A c \in Conns : ConnInv(c)'  BY <1>1, ConnStays
<1>4. TableInv'  BY <1>1, <1>2, TableStays
<1>5. OwnerInv'  BY <1>1, <1>2, OwnersStay
<1>6. LockInv'  BY <1>1, LocksStay
<1>7. AgentAccounting'  BY <1>1, <1>2, AgentsStay
<1>8. HereInv'  BY <1>1, <1>2, HereStays
<1>9. PersistedSurvives'  BY <1>1, <1>2, PersistedStays
<1>10. TypeOK'
  <2>1. Agents' \subseteq Conns  BY DEF Agents
  <2>2. Cardinality(Agents') \in Nat /\ Cardinality(Agents') <= Cardinality(Conns)
        /\ Cardinality(Conns) \in Nat
    BY <2>1, SessionsAssumption, FS_Subset, FS_CardinalityType
  <2>3. global' = Cardinality(Agents')  BY <1>7 DEF AgentAccounting, Agents
  <2>4. global' \in 0..Cardinality(Conns)  BY <2>2, <2>3
  <2> QED  BY <1>2, <2>4 DEF Types, TypeOK
<1> QED
  BY <1>3, <1>4, <1>5, <1>6, <1>7, <1>8, <1>9, <1>10 DEF SessionInv

\* The table, its objects, the connections and the snapshot files keep their
\* types: in particular an id is in the table with a session of its own, and
\* there is always an object left for a new one.
THEOREM SessionTypes == Spec => []TypeOK
<1>1. SessionInv => TypeOK  BY DEF SessionInv
<1> QED  BY SessionInit, SessionStays, <1>1, PTL DEF Spec

\* Agent slots are exact in every interleaving of connections with restarts,
\* for any limits (handle_agent, AgentActivityGuard).
THEOREM AgentsAreAccounted == Spec => []AgentAccounting
<1>1. SessionInv => AgentAccounting  BY DEF SessionInv
<1> QED  BY SessionInit, SessionStays, <1>1, PTL DEF Spec

\* What was persisted is in every file and every session of its id, for as long
\* as none is old enough to be dropped, across restarts (persist, resolve).
THEOREM PersistedIsKept == Spec => []PersistedSurvives
<1>1. SessionInv => PersistedSurvives  BY DEF SessionInv
<1> QED  BY SessionInit, SessionStays, <1>1, PTL DEF Spec

\* However connections come and go, only a session that has expired, or was
\* idle long enough with no agent at work, leaves the table of a running host:
\* in particular no request replaces another owner's session under its id.
THEOREM OnlyIdleLeave == Spec => OnlyIdleSessionsLeave
<1> DEFINE Idles ==
      \A s \in Sids :
         map[s] # 0 /\ map'[s] # map[s] /\ starts' = starts =>
           LET o == objs[map[s]]
           IN  now - o.seen > TTL \/ (now - o.seen >= MinIdle /\ ~o.active)
<1>1. SessionInv /\ [Next]_vars => [Idles]_vars
  <2> SUFFICES ASSUME SessionInv, [Next]_vars PROVE Idles  OBVIOUS
  <2>1. /\ TypeOK /\ TableInv /\ OwnerInv /\ \A c \in Conns : ConnInv(c)  BY DEF SessionInv
  <2>2. ASSUME NEW c \in Conns, TableMove(c) PROVE Idles
    <3>1. CASE Leaves(c) \/ Hits(c) \/ Expires(c)
      <4>1. Left(map')  BY <2>1, <3>1, SweptLeft DEF Leaves, Hits, Expires
      <4> QED  BY <4>1 DEF Left
    <3>2. CASE Enters(c)
      <4>1. PICK m, r : \E sid \in Sids, owner \in Owners, o \in Objs, data \in SUBSET (1..MaxTickets) :
              EntersAs(c, m, sid, owner, data, o, r)
        BY <3>2 DEF Enters
      <4>2. PICK sid \in Sids, owner \in Owners, o \in Objs, data \in SUBSET (1..MaxTickets) :
              EntersAs(c, m, sid, owner, data, o, r)
        BY <4>1
      <4>3. Left(m) /\ m[sid] = 0 /\ map' = [m EXCEPT ![sid] = o]  BY <4>2 DEF EntersAs
      <4>4. \A s \in Sids : map'[s] # map[s] /\ map[s] # 0 => m[s] # map[s]
        BY <4>3 DEF Left
      <4> QED  BY <4>3, <4>4 DEF Left
    <3> QED  BY <2>2, <3>1, <3>2 DEF TableMove
  <2>3. ASSUME NEW c \in Conns, Works(c) PROVE Idles  BY <2>3 DEF Works
  <2>4. CASE Tick \/ UNCHANGED vars  BY <2>4 DEF Tick, vars
  <2>5. CASE Restart
    <3>1. starts' # starts  BY <2>1, <2>5 DEF Restart, TypeOK
    <3> QED  BY <3>1
  <2> QED  BY <2>1, <2>2, <2>3, <2>4, <2>5, Moves
<1> QED  BY SessionInit, SessionStays, <1>1, PTL DEF Spec, OnlyIdleSessionsLeave

----------------------------------------------------------------------------
(***************************************************************************)
(* The approvals of one session, for every set of ids and cancelling       *)
(* connections and every bound: its module shares no variable and no       *)
(* definition with the table, in which every session has approvals.        *)
(***************************************************************************)

\* Type correctness: every variable keeps its type (ApprovalStore and the
\* handlers of its session).
THEOREM ApprovalTypesKept == ApprovalSpec => []ApprovalTypes
<1>1. ApprovalInit => ApprovalTypes
  <2> SUFFICES ASSUME ApprovalInit PROVE ApprovalTypes
    OBVIOUS
  <2>1. NoOrigin \in Origin /\ 0 \in 0..MaxTurns /\ 0 \in 0..MaxRequests /\ 0 \in 0..MaxPosts
    BY ApprovalAssumption DEF ApprovalAssumption, NoOrigin, Origin
  <2>2. outcome \in Outcome
    BY <2>1 DEF ApprovalInit, Outcome
  <2> QED BY <2>1, <2>2 DEF ApprovalInit, ApprovalTypes, ApprovalState, AgentPc
<1>2. ApprovalTypes /\ [ApprovalNext]_approvalVars => ApprovalTypes'
  <2> SUFFICES ASSUME ApprovalTypes, [ApprovalNext]_approvalVars PROVE ApprovalTypes'
    OBVIOUS
  <2> USE ApprovalAssumption DEF ApprovalAssumption
  <2>0. NoOrigin \in Origin
    BY DEF NoOrigin, Origin
  <2>1. ASSUME NEW result \in Reply \cup {"timeout"}, NEW by \in Origin,
               Answer(result, by)
        PROVE  /\ states' \in [Ids -> ApprovalState]
               /\ origin' \in [Ids -> Origin]
               /\ outcome' \in Outcome
               /\ pc' \in AgentPc
    BY <2>0, <2>1 DEF ApprovalTypes, Answer, ApprovalState, Outcome, AgentPc
  <2>2. ASSUME NEW s \in ApprovalState, Settle(s)
        PROVE  /\ states' \in [Ids -> ApprovalState]
               /\ origin' \in [Ids -> Origin]
               /\ outcome' \in Outcome
               /\ pc' \in AgentPc
    <3>1. CASE cancel /\ Answer("cancelled", NoOrigin)
      BY <2>0, <2>1, <3>1 DEF Reply
    <3>2. CASE s # "pending" /\ Answer(IF s \in Reply THEN s ELSE "deny", origin[asking])
      <4>1. origin[asking] \in Origin
        BY DEF ApprovalTypes
      <4>2. (IF s \in Reply THEN s ELSE "deny") \in Reply \cup {"timeout"}
        BY DEF Reply
      <4> QED BY <2>1, <3>2, <4>1, <4>2
    <3>3. CASE /\ s = "pending"
               /\ states' = [states EXCEPT ![asking] = "pending"]
               /\ pc' = "blocked"
               /\ UNCHANGED <<origin, outcome>>
      BY <3>3 DEF ApprovalTypes, ApprovalState, AgentPc
    <3> QED BY <2>2, <3>1, <3>2, <3>3 DEF Settle
  <2>3. CASE Agent
    <3>1. CASE ClaimTurn
      BY <3>1 DEF ClaimTurn, ApprovalTypes, AgentPc
    <3>2. CASE ResetCancel
      BY <3>2 DEF ResetCancel, ApprovalTypes, AgentPc
    <3>3. CASE AbandonTurn
      BY <3>3 DEF AbandonTurn, ApprovalTypes, AgentPc
    <3>4. CASE BeginTurn
      BY <2>0, <3>4 DEF BeginTurn, ApprovalTypes, AgentPc, ApprovalState
    <3>5. ASSUME NEW i \in Ids, Announce(i) PROVE ApprovalTypes'
      BY <3>5 DEF Announce, ApprovalTypes, AgentPc
    <3>6. CASE LoseClient
      BY <3>6 DEF LoseClient, ApprovalTypes
    <3>7. CASE Register
      <4>1. (IF states[asking] \in Reply THEN states[asking] ELSE "pending") \in ApprovalState
        BY DEF ApprovalTypes, ApprovalState
      <4> QED BY <2>2, <3>7, <4>1 DEF Register, ApprovalTypes
    <3>8. CASE Resume
      <4>1. states[asking] \in ApprovalState
        BY DEF ApprovalTypes
      <4> QED BY <2>2, <3>8, <4>1 DEF Resume, ApprovalTypes
    <3>9. CASE WakeSpuriously
      BY <3>9 DEF WakeSpuriously, ApprovalTypes, AgentPc
    <3>10. CASE ExpireWait
      BY <3>10 DEF ExpireWait, ApprovalTypes, AgentPc
    <3>11. CASE TimeOut
      BY <2>0, <2>1, <3>11 DEF TimeOut, ApprovalTypes
    <3>12. CASE EndTurn
      BY <3>12 DEF EndTurn, ApprovalTypes, AgentPc
    <3> QED BY <2>3, <3>1, <3>2, <3>3, <3>4, <3>5, <3>6, <3>7, <3>8, <3>9,
               <3>10, <3>11, <3>12 DEF Agent
  <2>4. ASSUME NEW d \in Decision, Post(d) PROVE ApprovalTypes'
    BY <2>4 DEF Post, ApprovalTypes
  <2>5. ASSUME NEW d \in Decision, ResolveApproval(d) PROVE ApprovalTypes'
    <3>1. d.id \in Ids /\ d.reply \in ApprovalState
      BY DEF Decision, ApprovalState, Reply
    <3>2. [req |-> d.req, turn |-> d.turn, stored |-> states[d.id] = "absent"] \in Origin
      BY DEF Decision, Origin
    <3> QED BY <2>5, <3>1, <3>2 DEF ResolveApproval, Notify, ApprovalTypes, AgentPc
  <2>6. ASSUME NEW c \in Cancellers, Canceller(c) PROVE ApprovalTypes'
    BY <2>6 DEF Canceller, SeeActive, StoreCancel, CancelPending, Notify, ApprovalTypes,
                ApprovalState, Reply, AgentPc
  <2>7. CASE UNCHANGED approvalVars
    BY <2>7 DEF approvalVars, ApprovalTypes
  <2> QED BY <2>3, <2>4, <2>5, <2>6, <2>7 DEF ApprovalNext, Browser
<1> QED BY <1>1, <1>2, PTL DEF ApprovalSpec

\* No wakeup is lost, whatever the ids, the cancelling connections and the
\* order of their steps (NoLostWakeup is inductive over ApprovalTypes).
THEOREM NoWakeupIsLost == ApprovalSpec => []NoLostWakeup
<1>1. ApprovalInit => NoLostWakeup
  BY DEF ApprovalInit, NoLostWakeup
<1>2. ApprovalTypes /\ NoLostWakeup /\ [ApprovalNext]_approvalVars => NoLostWakeup'
  <2> SUFFICES ASSUME ApprovalTypes, NoLostWakeup, [ApprovalNext]_approvalVars, pc' = "blocked"
               PROVE  /\ states'[asking'] = "pending"
                      /\ cancel' => \E c \in Cancellers : cpc'[c] = "stored"
    BY DEF NoLostWakeup
  <2>1. ASSUME NEW s, Settle(s), UNCHANGED <<cancel, asking, cpc>>
        PROVE  /\ states'[asking'] = "pending"
               /\ ~cancel'
    BY <2>1 DEF Settle, Answer, ApprovalTypes
  <2>2. CASE Agent
    <3>1. CASE Register \/ Resume
      BY <2>1, <3>1 DEF Register, Resume
    <3>2. CASE TimeOut
      BY <3>2 DEF TimeOut, Answer
    <3>3. CASE \/ ClaimTurn \/ ResetCancel \/ AbandonTurn \/ BeginTurn \/ LoseClient
               \/ WakeSpuriously \/ ExpireWait \/ EndTurn \/ \E i \in Ids : Announce(i)
      BY <3>3 DEF ClaimTurn, ResetCancel, AbandonTurn, BeginTurn, LoseClient,
                  WakeSpuriously, ExpireWait, EndTurn, Announce
    <3> QED BY <2>2, <3>1, <3>2, <3>3 DEF Agent
  <2>3. ASSUME NEW d \in Decision, Post(d) \/ ResolveApproval(d) PROVE pc = "blocked" /\ UNCHANGED <<states, asking, cancel, cpc>>
    BY <2>3 DEF Post, ResolveApproval, Notify
  <2>4. ASSUME NEW c \in Cancellers, SeeActive(c) \/ StoreCancel(c)
        PROVE  /\ states'[asking'] = "pending"
               /\ cancel' => \E e \in Cancellers : cpc'[e] = "stored"
    BY <2>4 DEF SeeActive, StoreCancel, NoLostWakeup, ApprovalTypes
  <2>5. ASSUME NEW c \in Cancellers, CancelPending(c) PROVE FALSE
    BY <2>5 DEF CancelPending, Notify
  <2>6. CASE UNCHANGED approvalVars
    BY <2>6 DEF approvalVars, NoLostWakeup
  <2> QED BY <2>2, <2>3, <2>4, <2>5, <2>6 DEF ApprovalNext, Browser, Canceller, NoLostWakeup
<1> QED BY <1>1, <1>2, ApprovalTypesKept, PTL DEF ApprovalSpec

\* The conjuncts of ParkedIsFresh about the agent, the mail and the entries.
PhaseInv ==
    /\ askedIn <= turn
    /\ pc \in {"claimed", "reset"} => askedIn < turn
    /\ pc \in {"asked", "blocked", "notified", "expired"} => askedIn = turn
    /\ askedIn = turn /\ turn > 0 /\ pc # "asked" => states[asking] # "absent"

MailInv(d) ==
    /\ d.turn <= askedIn
    /\ d.req = 0 => d.turn = 0
    /\ d.turn = turn /\ turn > 0 => Fresh(d.id, d.req) \/ states[d.id] # "absent"

EntryInv(i) ==
    /\ origin[i].turn <= askedIn
    /\ origin[i].stored => Decided(i)
    /\ origin[i].stored /\ origin[i].turn = turn /\ turn > 0 => Fresh(i, origin[i].req)

ReplayInv ==
    /\ ApprovalTypes
    /\ PhaseInv
    /\ \A d \in mail : MailInv(d)
    /\ \A i \in Ids : EntryInv(i)
    /\ outcome.by.turn <= askedIn
    /\ NoReplayWithinTurn

LEMMA ReplayInvFolds ==
    ReplayInv <=> ApprovalTypes /\ ParkedIsFresh /\ NoReplayWithinTurn
  BY DEF ReplayInv, PhaseInv, MailInv, EntryInv, ParkedIsFresh

\* What answering a request does to the invariant: the entry is closed and
\* whoever the answer is attributed to is not a stale parked decision.
LEMMA AnswerKeepsReplayInv ==
    ASSUME ReplayInv, ApprovalTypes', pc \in {"asked", "notified", "expired"},
           NEW result, NEW by, Answer(result, by),
           by = NoOrigin \/ by = origin[asking],
           UNCHANGED <<asking, askedIn, mail, turn, request>>
    PROVE  ReplayInv'
<1> USE ApprovalAssumption DEF ApprovalAssumption
<1>1. PhaseInv'
  BY DEF ReplayInv, PhaseInv, Answer, ApprovalTypes
<1>2. ASSUME NEW d \in mail' PROVE MailInv(d)'
  <2>1. d \in mail /\ MailInv(d) /\ d.id \in Ids
    BY <1>2 DEF ReplayInv, ApprovalTypes, Decision
  <2> QED BY <2>1 DEF Answer, MailInv, Fresh, ApprovalTypes, ReplayInv
<1>3. ASSUME NEW i \in Ids PROVE EntryInv(i)'
  <2>1. EntryInv(i) /\ askedIn \in Nat
    BY DEF ReplayInv, ApprovalTypes
  <2>2. CASE i = asking
    BY <2>1, <2>2 DEF Answer, EntryInv, NoOrigin, ApprovalTypes, ReplayInv
  <2>3. CASE i # asking
    BY <2>1, <2>3 DEF Answer, EntryInv, Fresh, Decided, ApprovalTypes, ReplayInv
  <2> QED BY <2>2, <2>3
<1>4. outcome'.by.turn <= askedIn' /\ NoReplayWithinTurn'
  <2>1. asking \in Ids /\ EntryInv(asking) /\ askedIn \in Nat
    BY DEF ReplayInv, ApprovalTypes
  <2>2. outcome'.by = by /\ outcome'.req = request
    BY DEF Answer
  <2>3. CASE by = NoOrigin
    BY <2>1, <2>2, <2>3 DEF NoOrigin, NoReplayWithinTurn
  <2>4. CASE by = origin[asking]
    BY <2>1, <2>2, <2>4 DEF EntryInv, Fresh, NoReplayWithinTurn
  <2> QED BY <2>3, <2>4
<1> QED BY <1>1, <1>2, <1>3, <1>4 DEF ReplayInv

LEMMA SettleKeepsReplayInv ==
    ASSUME ReplayInv, ApprovalTypes', pc \in {"asked", "notified"},
           NEW s, Settle(s),
           s = "pending" => states[asking] \notin Reply,
           UNCHANGED <<asking, askedIn, mail, turn, request>>
    PROVE  ReplayInv'
<1> USE ApprovalAssumption DEF ApprovalAssumption
<1>1. CASE cancel /\ Answer("cancelled", NoOrigin)
  BY <1>1, AnswerKeepsReplayInv
<1>2. CASE s # "pending" /\ Answer(IF s \in Reply THEN s ELSE "deny", origin[asking])
  BY <1>2, AnswerKeepsReplayInv
<1>3. CASE /\ s = "pending"
           /\ states' = [states EXCEPT ![asking] = "pending"]
           /\ pc' = "blocked"
           /\ UNCHANGED <<origin, outcome>>
  <2>1. PhaseInv'
    BY <1>3 DEF ReplayInv, PhaseInv, ApprovalTypes
  <2>2. ASSUME NEW d \in mail' PROVE MailInv(d)'
    <3>1. d \in mail /\ MailInv(d) /\ d.id \in Ids
      BY <2>2 DEF ReplayInv, ApprovalTypes, Decision
    <3> QED BY <1>3, <3>1 DEF MailInv, Fresh, ApprovalTypes, ReplayInv
  <2>3. ASSUME NEW i \in Ids PROVE EntryInv(i)'
    <3>1. EntryInv(i) /\ asking \in Ids
      BY DEF ReplayInv, ApprovalTypes
    <3>2. CASE i = asking
      BY <1>3, <3>1, <3>2 DEF EntryInv, Decided
    <3>3. CASE i # asking
      BY <1>3, <3>1, <3>3 DEF EntryInv, Fresh, Decided, ApprovalTypes, ReplayInv
    <3> QED BY <3>2, <3>3
  <2> QED BY <1>3, <2>1, <2>2, <2>3 DEF ReplayInv, NoReplayWithinTurn
<1> QED BY <1>1, <1>2, <1>3 DEF Settle

\* No decision that was parked is ever used for a later request of its turn
\* (wait_with_cancel, resolve and begin_turn in every order).
THEOREM NoParkedDecisionIsReplayed == ApprovalSpec => []NoReplayWithinTurn
<1> USE ApprovalAssumption DEF ApprovalAssumption
<1>1. ApprovalInit /\ ApprovalTypes => ReplayInv
  BY DEF ApprovalInit, ReplayInv, PhaseInv, MailInv, EntryInv, NoOrigin, NoReplayWithinTurn
<1>2. ReplayInv /\ ApprovalTypes' /\ [ApprovalNext]_approvalVars => ReplayInv'
  <2> SUFFICES ASSUME ReplayInv, ApprovalTypes', [ApprovalNext]_approvalVars PROVE ReplayInv'
    OBVIOUS
  <2> USE DEF ReplayInv
  <2>0. turn \in Nat /\ askedIn \in Nat /\ request \in Nat
    BY DEF ApprovalTypes
  <2>1. CASE ClaimTurn
    BY <2>0, <2>1 DEF ClaimTurn, PhaseInv, MailInv, EntryInv, Fresh, Decided,
                      NoReplayWithinTurn, ApprovalTypes, Decision, Origin, Outcome
  <2>2. CASE ResetCancel \/ AbandonTurn \/ LoseClient \/ EndTurn \/ WakeSpuriously \/ ExpireWait
    BY <2>0, <2>2 DEF ResetCancel, AbandonTurn, LoseClient, EndTurn, WakeSpuriously, ExpireWait,
                      PhaseInv, MailInv, EntryInv, Fresh, Decided, NoReplayWithinTurn
  <2>3. CASE BeginTurn
    BY <2>0, <2>3 DEF BeginTurn, PhaseInv, MailInv, EntryInv, NoOrigin, Fresh, Decided,
                      NoReplayWithinTurn
  <2>4. ASSUME NEW i \in Ids, Announce(i) PROVE ReplayInv'
    BY <2>0, <2>4 DEF Announce, PhaseInv, MailInv, EntryInv, Fresh, Decided,
                      NoReplayWithinTurn, ApprovalTypes, Decision, Origin, Outcome
  <2>5. CASE Register
    <3>1. (IF states[asking] \in Reply THEN states[asking] ELSE "pending") = "pending"
             => states[asking] \notin Reply
      BY DEF Reply
    <3> QED BY <2>5, <3>1, SettleKeepsReplayInv DEF Register
  <2>6. CASE Resume
    BY <2>6, SettleKeepsReplayInv DEF Resume, Reply
  <2>7. CASE TimeOut
    BY <2>7, AnswerKeepsReplayInv DEF TimeOut
  <2>8. ASSUME NEW d \in Decision, Post(d) PROVE ReplayInv'
    <3>1. PhaseInv' /\ (\A i \in Ids : EntryInv(i)') /\ NoReplayWithinTurn'
            /\ outcome'.by.turn <= askedIn'
      BY <2>8 DEF Post, PhaseInv, EntryInv, Fresh, Decided, NoReplayWithinTurn
    <3>2. ASSUME NEW e \in mail' PROVE MailInv(e)'
      <4>1. CASE e \in mail
        BY <2>8, <4>1 DEF Post, MailInv, Fresh
      <4>2. CASE e = d
        BY <2>0, <2>8, <4>2 DEF Post, MailInv, Fresh, PhaseInv
      <4> QED BY <2>8, <4>1, <4>2 DEF Post
    <3> QED BY <3>1, <3>2
  <2>9. ASSUME NEW d \in Decision, ResolveApproval(d) PROVE ReplayInv'
    <3>1. d \in mail /\ MailInv(d) /\ d.id \in Ids /\ d.reply \in Reply
      BY <2>9 DEF ResolveApproval, Decision, Reply
    <3>2. pc' = pc \/ (pc = "blocked" /\ pc' = "notified")
      BY <2>9 DEF ResolveApproval, Notify
    <3>3. \A i, r : Fresh(i, r)' <=> Fresh(i, r)
      BY <2>9, <3>2 DEF ResolveApproval, Fresh
    <3>4. \A i \in Ids : states[i] # "absent" => states'[i] # "absent"
      BY <2>9, <3>1 DEF ResolveApproval, ApprovalTypes, Reply
    <3>5. PhaseInv'
      BY <2>9, <3>2, <3>4 DEF ResolveApproval, PhaseInv, ApprovalTypes
    <3>6. ASSUME NEW e \in mail' PROVE MailInv(e)'
      <4>1. e \in mail /\ MailInv(e) /\ e.id \in Ids
        BY <2>9, <3>6 DEF ResolveApproval, ApprovalTypes, Decision
      <4> QED BY <2>9, <3>3, <3>4, <4>1 DEF ResolveApproval, MailInv
    <3>7. ASSUME NEW i \in Ids PROVE EntryInv(i)'
      <4>1. EntryInv(i)
        OBVIOUS
      <4>2. CASE Accepts(d.id) /\ i = d.id
        <5>1. /\ states' = [states EXCEPT ![i] = d.reply]
              /\ origin' = [origin EXCEPT ![i] =
                   [req |-> d.req, turn |-> d.turn, stored |-> states[i] = "absent"]]
              /\ askedIn' = askedIn /\ turn' = turn
          BY <2>9, <4>2 DEF ResolveApproval
        <5>2. /\ origin'[i].req = d.req /\ origin'[i].turn = d.turn
              /\ origin'[i].stored <=> states[i] = "absent"
          BY <5>1 DEF ApprovalTypes
        <5>3. Decided(i)'
          BY <3>1, <5>1 DEF Decided, ApprovalTypes
        <5>4. Fresh(i, origin[i].req)' <=> Fresh(i, d.req)
          BY <2>9, <3>2, <5>2 DEF ResolveApproval, Fresh
        <5> QED BY <3>1, <4>2, <5>1, <5>2, <5>3, <5>4 DEF MailInv, EntryInv
      <4>3. CASE ~Accepts(d.id) \/ i # d.id
        <5>1. states'[i] = states[i] /\ origin'[i] = origin[i]
          BY <2>9, <3>1, <4>3 DEF ResolveApproval, ApprovalTypes
        <5> QED BY <2>9, <3>3, <4>1, <5>1 DEF ResolveApproval, EntryInv, Decided
      <4> QED BY <4>2, <4>3
    <3>8. NoReplayWithinTurn' /\ outcome'.by.turn <= askedIn'
      BY <2>9 DEF ResolveApproval, NoReplayWithinTurn
    <3> QED BY <3>5, <3>6, <3>7, <3>8
  <2>10. ASSUME NEW c \in Cancellers, Canceller(c) PROVE ReplayInv'
    <3>1. CASE SeeActive(c) \/ StoreCancel(c)
      BY <3>1 DEF SeeActive, StoreCancel, PhaseInv, MailInv, EntryInv, Fresh, Decided,
                  NoReplayWithinTurn
    <3>2. CASE CancelPending(c)
      <4>1. pc' = pc \/ (pc = "blocked" /\ pc' = "notified")
        BY <3>2 DEF CancelPending, Notify
      <4>2. \A i, r : Fresh(i, r)' <=> Fresh(i, r)
        BY <3>2, <4>1 DEF CancelPending, Fresh
      <4>3. \A i \in Ids : states[i] # "absent" => states'[i] # "absent"
        BY <3>2 DEF CancelPending, ApprovalTypes
      <4>4. PhaseInv'
        BY <3>2, <4>1, <4>3 DEF CancelPending, PhaseInv, ApprovalTypes
      <4>5. \A d \in mail' : MailInv(d)'
        BY <3>2, <4>2, <4>3 DEF CancelPending, MailInv, ApprovalTypes, Decision
      <4>6. ASSUME NEW i \in Ids PROVE EntryInv(i)'
        <5>1. EntryInv(i) /\ origin' = origin /\ askedIn' = askedIn /\ turn' = turn
          BY <3>2 DEF CancelPending
        <5>2. Decided(i) => Decided(i)'
          BY <3>2 DEF CancelPending, Decided, Reply, ApprovalTypes
        <5>3. Fresh(i, origin[i].req)' <=> Fresh(i, origin[i].req)
          BY <4>1, <5>1, <3>2 DEF Fresh, CancelPending
        <5> QED BY <5>1, <5>2, <5>3 DEF EntryInv
      <4> QED BY <3>2, <4>4, <4>5, <4>6 DEF CancelPending, NoReplayWithinTurn
    <3> QED BY <2>10, <3>1, <3>2 DEF Canceller
  <2>11. CASE UNCHANGED approvalVars
    BY <2>11 DEF approvalVars, PhaseInv, MailInv, EntryInv, Fresh, Decided, NoReplayWithinTurn
  <2> QED BY <2>1, <2>2, <2>3, <2>4, <2>5, <2>6, <2>7, <2>8, <2>9, <2>10, <2>11
          DEF ApprovalNext, Agent, Browser
<1>3. ReplayInv => NoReplayWithinTurn
  BY DEF ReplayInv
<1> QED BY <1>1, <1>2, <1>3, ApprovalTypesKept, PTL DEF ApprovalSpec

\* From the moment the flag of a turn is set, no answer of that turn grants
\* anything, however the wait for it ends (wait_with_cancel reads the flag
\* before the entry, and the timer denies).
THEOREM CancelDenies == ApprovalSpec => CancelledTurnIsDenied
<1> DEFINE Denied ==
      cancel /\ pc \in {"asked", "notified", "expired"} /\ pc' = "working"
         => outcome'.result # "allow"
<1>1. [ApprovalNext]_approvalVars => [Denied]_approvalVars
  <2> SUFFICES ASSUME ApprovalNext, cancel, pc \in {"asked", "notified", "expired"}, pc' = "working"
               PROVE  outcome'.result # "allow"
    OBVIOUS
  <2>1. ASSUME NEW s, Settle(s) PROVE outcome'.result = "cancelled"
    BY <2>1 DEF Settle, Answer
  <2>2. CASE Register \/ Resume  BY <2>1, <2>2 DEF Register, Resume
  <2>3. CASE TimeOut  BY <2>3 DEF TimeOut, Answer
  <2>4. CASE Browser \/ \E c \in Cancellers : Canceller(c)
    <3>1. pc' = pc \/ pc' = "notified"
      BY <2>4 DEF Browser, Post, ResolveApproval, Notify, Canceller, SeeActive, StoreCancel, CancelPending
    <3> QED  BY <3>1
  <2>5. CASE \/ ClaimTurn \/ ResetCancel \/ AbandonTurn \/ BeginTurn \/ LoseClient
             \/ WakeSpuriously \/ ExpireWait \/ EndTurn \/ \E i \in Ids : Announce(i)
    BY <2>5 DEF ClaimTurn, ResetCancel, AbandonTurn, BeginTurn, LoseClient,
                WakeSpuriously, ExpireWait, EndTurn, Announce
  <2> QED  BY <2>2, <2>3, <2>4, <2>5 DEF ApprovalNext, Agent
<1> QED  BY <1>1, PTL DEF ApprovalSpec, CancelledTurnIsDenied
=============================================================================
