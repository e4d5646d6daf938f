--------------------------- MODULE TaskRunProofs ---------------------------
(***************************************************************************)
(* Tasks, and the turns of one agent that they are made of.                *)
(*                                                                         *)
(* Four properties of tasks that must survive any death of any process: a  *)
(* turn runs alone and on its own record, a turn that was lost is never    *)
(* taken again, what is on disk can be read, and a paused task resumed.    *)
(* They hold for every number of processes and every edit of the session,  *)
(* the first two for every stored record, the others for those which this  *)
(* program or an older one left behind.                                    *)
(*                                                                         *)
(* The first two follow from TaskInv.  The lease makes a process that is   *)
(* not idle the only one (LeaseInv); what it read is then what is on disk  *)
(* when it writes (LoadedInv, TurnInv); and a lost turn leaves a record    *)
(* behind that says Running, which nobody loads (LostInv).  The others     *)
(* follow from what is known of a record that is about to be written: it   *)
(* was read back (ReadInv), and goes with the session there is (MatchInv). *)
(*                                                                         *)
(* Of a turn: what an agent keeps for its next turn can be sent, and what  *)
(* runs was permitted, for all limits and histories (AgentInv, TalkInv).   *)
(***************************************************************************)
EXTENDS TaskRun, AgentTurn, FiniteSetTheorems, SequenceTheorems, WellFoundedInduction, TLAPS

\* Who is at work holds the lease.
LeaseInv == \A p \in Procs : run[p].pc # "idle" => lease = p

\* These places are on the path of a task only.
OnTask(r) == r.pc \in {"loaded", "cleared", "saved", "closing", "refused"} => r.kind = "task"

\* What was loaded may still be begun: the record on disk does not say Running.
LoadedInv(t, r) ==
    r.pc \in {"loaded", "cleared"} =>
      /\ t = NoTask \/ t.status = "Paused"
      /\ r.rec.status = "Running"
      /\ r.rec.checkpoint.is =>
           r.rec.checkpoint.digest = r.sess /\ r.rec.checkpoint.turns = Turns(r.sess)

AtTurn(r) == r.kind = "task" /\ r.pc \in {"turn", "turned", "saved", "closing"}

\* The record on disk during a turn, and the session in memory.
TurnInv(t, r) ==
    AtTurn(r) =>
      /\ t # NoTask /\ t.status = "Running"
      /\ IsPrefix(t.events, r.rec.events)
      /\ t.checkpoint.is =>
           /\ IsPrefix(t.checkpoint.digest, r.sess)
           /\ t.checkpoint.digest \in Seq(Entry)
           /\ Turns(r.sess) <= t.checkpoint.turns + (IF r.pc = "turn" THEN 0 ELSE 1)

LostInv(t, l, r) == l => t # NoTask /\ t.status = "Running" /\ ~AtTurn(r)

Sound(t, l, r) == OnTask(r) /\ LoadedInv(t, r) /\ TurnInv(t, r) /\ LostInv(t, l, r)

TaskInv == TypeOK /\ LeaseInv /\ \A p \in Procs : Sound(task, lost, run[p])

----------------------------------------------------------------------------
(* Records and sessions. *)

LEMMA EventTyped ==
    ASSUME NEW kind \in DOMAIN StatusAfter
    PROVE  Event(kind) \in Events /\ Event(kind).kind = kind
BY RecordAssumption DEF Event, Events, Digests

LEMMA AfterTyped ==
    ASSUME NEW r \in Record, NEW e \in Events
    PROVE  /\ After(r, e) \in Record
           /\ After(r, e).status = StatusAfter[e.kind]
           /\ After(r, e).events = Append(r.events, e)
           /\ e.kind # "Checkpointed" => After(r, e).checkpoint = r.checkpoint
<1>1. StatusAfter[e.kind] \in {"Pending"} \cup {StatusAfter[k] : k \in DOMAIN StatusAfter}
  BY DEF Events
<1>2. /\ r.schema \in Nat /\ r.pending \in Requests /\ r.events \in Seq(Events)
      /\ r.checkpoint \in [turns: Nat, digest: Digests, is: BOOLEAN]
  BY DEF Record
<1>3. e.turns \in Nat /\ e.digest \in Digests /\ e.request \in Requests  BY DEF Events
<1> DEFINE mark == IF e.kind = "Checkpointed"
                     THEN [turns |-> e.turns, digest |-> e.digest, is |-> TRUE]
                     ELSE r.checkpoint
           asked == IF e.kind = "ApprovalRequested" THEN e.request
                    ELSE IF r.status = "WaitingApproval" THEN NoRequest ELSE r.pending
<1>4. mark \in [turns: Nat, digest: Digests, is: BOOLEAN] /\ asked \in Requests
  BY <1>2, <1>3, RecordAssumption
<1>5. Append(r.events, e) \in Seq(Events)  BY <1>2
<1>6. e.kind # "Checkpointed" => mark = r.checkpoint  OBVIOUS
<1>7. After(r, e) = [r EXCEPT !.status = StatusAfter[e.kind], !.checkpoint = mark,
                              !.pending = asked, !.events = Append(r.events, e)]
  BY Zenon DEF After
<1> HIDE DEF mark, asked
<1>8. After(r, e) \in Record  BY <1>1, <1>4, <1>5, <1>7 DEF Record
<1>9. After(r, e).status = StatusAfter[e.kind]  BY <1>7 DEF Record
<1>10. After(r, e).checkpoint = mark  BY <1>7 DEF Record
<1>11. After(r, e).events = Append(r.events, e)  BY <1>7 DEF Record
<1> QED  BY <1>6, <1>8, <1>9, <1>10, <1>11

LEMMA RestoredTyped ==
    ASSUME NEW r \in Record
    PROVE  /\ Restored(r) \in Record
           /\ Restored(r).status = r.status /\ Restored(r).events = r.events
           /\ Restored(r).checkpoint = r.checkpoint
BY DEF Restored, Record, Schema

LEMMA FreshTyped == Fresh(Schema) \in Record /\ ~Fresh(Schema).checkpoint.is
BY RecordAssumption DEF Fresh, Record, Schema, NoCheckpoint, Digests

LEMMA TurnsTyped ==
    ASSUME NEW s \in Seq(Entry)
    PROVE  Turns(s) \in Nat
<1>1. IsFiniteSet(1..Len(s))  BY FS_Interval
<1>2. IsFiniteSet({k \in DOMAIN s : s[k] # "note"})  BY <1>1, FS_Subset
<1> QED  BY <1>2, FS_CardinalityType DEF Turns

LEMMA TurnsOfAppend ==
    ASSUME NEW s \in Seq(Entry), NEW e \in Entry
    PROVE  Turns(Append(s, e)) <= Turns(s) + 1
<1> DEFINE old == {k \in DOMAIN s : s[k] # "note"}
           new == {k \in DOMAIN Append(s, e) : Append(s, e)[k] # "note"}
<1>1. IsFiniteSet(old)
  <2>1. IsFiniteSet(1..Len(s))  BY FS_Interval
  <2> QED  BY <2>1, FS_Subset
<1>2. new = old \/ new = old \cup {Len(s) + 1}  OBVIOUS
<1>3. Cardinality(old \cup {Len(s) + 1}) = Cardinality(old) + 1
  <2>1. old \subseteq 1..Len(s) /\ Len(s) \in Nat  OBVIOUS
  <2>2. Len(s) + 1 \notin 1..Len(s)  BY <2>1
  <2> HIDE DEF old
  <2> QED  BY <1>1, <2>1, <2>2, FS_AddElement
<1>4. Cardinality(old) \in Nat  BY <1>1, FS_CardinalityType
<1>5. Turns(s) = Cardinality(old) /\ Turns(Append(s, e)) = Cardinality(new)  BY Zenon DEF Turns
<1> HIDE DEF old, new
<1>6. Cardinality(new) <= Cardinality(old) + 1
  <2>1. CASE new = old  BY <1>4, <2>1
  <2>2. CASE new = old \cup {Len(s) + 1}  BY <1>3, <1>4, <2>2
  <2> QED  BY <1>2, <2>1, <2>2
<1> QED  BY <1>5, <1>6

LEMMA PrefixOfAppend ==
    ASSUME NEW S, NEW s \in Seq(S), NEW e \in S
    PROVE  IsPrefix(s, Append(s, e)) /\ IsPrefix(s, s)
BY DEF IsPrefix

LEMMA PrefixThenAppend ==
    ASSUME NEW S, NEW s \in Seq(S), NEW t \in Seq(S), NEW e \in S, IsPrefix(s, t)
    PROVE  IsPrefix(s, Append(t, e))
<1>1. Len(s) <= Len(t) /\ SubSeq(s, 1, Len(s)) = SubSeq(t, 1, Len(s))  BY DEF IsPrefix
<1>2. SubSeq(Append(t, e), 1, Len(s)) = SubSeq(t, 1, Len(s))  BY <1>1
<1> QED  BY <1>1, <1>2 DEF IsPrefix

----------------------------------------------------------------------------
(* Steps. *)

LEMMA IdleTyped == Idle \in Process /\ Idle.pc = "idle"
<1>1. Fresh(Schema) \in Record  BY FreshTyped
<1>2. Event("Completed") \in Events  BY EventTyped DEF StatusAfter
<1> QED  BY <1>1, <1>2 DEF Idle, Process, Places, Kinds, Entry

\* An idle process is sound if anybody is.
LEMMA IdleSound ==
    ASSUME NEW t, NEW l, NEW r, r.pc = "idle", l => t # NoTask /\ t.status = "Running"
    PROVE  Sound(t, l, r)
BY DEF Sound, OnTask, LoadedInv, TurnInv, LostInv, AtTurn

\* A step of one process, the only one at work, is judged by where it goes.
LEMMA OneStep ==
    ASSUME TaskInv, NEW p \in Procs, NEW r \in Process,
           lease \in {p, NoOne}, lease' \in {p, NoOne}, r.pc # "idle" => lease' = p,
           run' = [run EXCEPT ![p] = r],
           task' \in Record \cup {NoTask}, session' \in Seq(Entry) \cup {NoSession},
           edited' \in BOOLEAN, lost' \in BOOLEAN,
           Sound(task', lost', r)
    PROVE  TaskInv'
<1>1. NoOne \notin Procs  BY TaskAssumption
<1>2. run \in [Procs -> Process] /\ LeaseInv  BY DEF TaskInv, TypeOK
<1>3. run' \in [Procs -> Process] /\ run'[p] = r /\ \A q \in Procs \ {p} : run'[q] = run[q]
  BY <1>2
<1>4. \A q \in Procs \ {p} : run[q].pc = "idle"  BY <1>1, <1>2 DEF LeaseInv
<1>5. TypeOK'  BY <1>3 DEF TypeOK
<1>6. LeaseInv'  BY <1>3, <1>4 DEF LeaseInv
<1>7. lost' => task' # NoTask /\ task'.status = "Running"  BY DEF Sound, LostInv
<1>8. ASSUME NEW q \in Procs PROVE Sound(task', lost', run'[q])
  <2>1. CASE q = p  BY <1>3, <2>1
  <2>2. CASE q # p
    <3>1. run'[q].pc = "idle"  BY <1>3, <1>4, <2>2
    <3> QED  BY <3>1, <1>7, IdleSound
  <2> QED  BY <2>1, <2>2
<1> QED  BY <1>5, <1>6, <1>8 DEF TaskInv

\* A step that ends the process.
LEMMA ExitStep ==
    ASSUME TaskInv, NEW p \in Procs, lease \in {p, NoOne}, Exits(p),
           task' \in Record \cup {NoTask}, session' \in Seq(Entry) \cup {NoSession},
           edited' \in BOOLEAN, lost' \in BOOLEAN,
           lost' => task' # NoTask /\ task'.status = "Running"
    PROVE  TaskInv'
<1>1. Sound(task', lost', Idle)  BY IdleTyped, IdleSound
<1>2. run' = [run EXCEPT ![p] = Idle] /\ lease' = NoOne  BY DEF Exits, Goes
<1> QED  BY <1>1, <1>2, IdleTyped, OneStep

\* What is known of a process at work.
LEMMA AtWork ==
    ASSUME TaskInv, NEW p \in Procs
    PROVE  /\ run[p] \in Process
           /\ run[p].pc # "idle" => lease = p
           /\ Sound(task, lost, run[p])
           /\ task \in Record \cup {NoTask} /\ session \in Seq(Entry) \cup {NoSession}
           /\ edited \in BOOLEAN /\ lost \in BOOLEAN
BY DEF TaskInv, TypeOK, LeaseInv

LEMMA LeaseStep ==
    ASSUME TaskInv, NEW p \in Procs, NEW kind \in Kinds, Lease(p, kind)
    PROVE  TaskInv'
<1> DEFINE r == [run[p] EXCEPT !.pc = "leased", !.kind = kind]
<1>1. run[p] \in Process /\ Sound(task, lost, run[p])  BY AtWork
<1>2. r \in Process /\ r.pc = "leased"  BY <1>1 DEF Process, Places
<1>3. Sound(task, lost, r)
  BY <1>1, <1>2 DEF Sound, OnTask, LoadedInv, TurnInv, LostInv, AtTurn
<1>4. /\ run' = [run EXCEPT ![p] = r] /\ lease = NoOne /\ lease' = p
      /\ UNCHANGED <<task, session, edited, lost>>
  BY DEF Lease, Free, Goes
<1> HIDE DEF r
<1> QED  BY <1>2, <1>3, <1>4, AtWork, OneStep

\* The record a task begins with is the one on disk, and not a running one.
LEMMA BeginStep ==
    ASSUME TaskInv, NEW p \in Procs, LoadTask(p) \/ NewTask(p)
    PROVE  TaskInv'
<1> USE DEF LoadTask, NewTask
<1>1. run[p] \in Process /\ Sound(task, lost, run[p]) /\ lease = p /\ run[p].kind = "task"
  BY AtWork
<1>2. PICK rec, sess : Goes(p, [run[p] EXCEPT !.pc = "loaded", !.rec = rec, !.sess = sess])
                       /\ rec \in Record /\ sess \in Seq(Entry)
                       /\ rec.status = "Running" /\ (task = NoTask \/ task.status = "Paused")
                       /\ (rec.checkpoint.is =>
                             rec.checkpoint.digest = sess /\ rec.checkpoint.turns = Turns(sess))
  <2>1. CASE LoadTask(p)
    <3> DEFINE old == Restored(task)
               new == After(old, Event("Resumed"))
    <3>1. task \in Record /\ session \in Seq(Entry)
      BY <2>1, AtWork DEF Matches
    <3>2. old \in Record /\ task.status = old.status /\ old.status = "Paused"
      BY <2>1, <3>1, RestoredTyped
    <3>3. Event("Resumed") \in Events /\ Event("Resumed").kind = "Resumed"
      BY EventTyped DEF StatusAfter
    <3>4. old.checkpoint.turns = Turns(session) /\ old.checkpoint.digest = session
      BY <2>1 DEF Matches
    <3>5. Goes(p, [run[p] EXCEPT !.pc = "loaded", !.rec = new, !.sess = session])
      BY <2>1
    <3> HIDE DEF old
    <3>6. new \in Record /\ new.status = "Running" /\ new.checkpoint = old.checkpoint
      BY <3>2, <3>3, AfterTyped DEF StatusAfter
    <3> HIDE DEF new
    <3> QED  BY <3>1, <3>2, <3>4, <3>5, <3>6
  <2>2. CASE NewTask(p)
    <3> DEFINE old == Fresh(Schema)
               new == After(old, Event("Started"))
    <3>1. old \in Record /\ ~old.checkpoint.is  BY FreshTyped
    <3>2. Event("Started") \in Events /\ Event("Started").kind = "Started"
      BY EventTyped DEF StatusAfter
    <3>3. Goes(p, [run[p] EXCEPT !.pc = "loaded", !.rec = new, !.sess = <<>>]) /\ task = NoTask
      BY <2>2
    <3> HIDE DEF old
    <3>4. new \in Record /\ new.status = "Running" /\ new.checkpoint = old.checkpoint
      BY <3>1, <3>2, AfterTyped DEF StatusAfter
    <3> HIDE DEF new
    <3>5. <<>> \in Seq(Entry)  OBVIOUS
    <3> QED  BY <3>1, <3>3, <3>4, <3>5
  <2> QED  BY <2>1, <2>2
<1> DEFINE r == [run[p] EXCEPT !.pc = "loaded", !.rec = rec, !.sess = sess]
<1>3. /\ r \in Process /\ r.pc = "loaded" /\ r.kind = "task"
      /\ r.rec = rec /\ r.sess = sess
  BY <1>1, <1>2 DEF Process, Places
<1>4. run' = [run EXCEPT ![p] = r] /\ UNCHANGED <<task, session, lease, edited, lost>>
  BY <1>2 DEF Goes
<1> HIDE DEF r
<1>5. ~lost  BY <1>1, <1>2 DEF Sound, LostInv
<1>6. Sound(task, lost, r)
  BY <1>2, <1>3, <1>5 DEF Sound, OnTask, LoadedInv, TurnInv, LostInv, AtTurn
<1> QED  BY <1>1, <1>3, <1>4, <1>6, AtWork, OneStep

LEMMA CheckStartStep ==
    ASSUME TaskInv, NEW p \in Procs, CheckStart(p)
    PROVE  TaskInv'
<1> DEFINE r == [run[p] EXCEPT !.pc = "cleared"]
<1>1. /\ run[p] \in Process /\ Sound(task, lost, run[p]) /\ lease = p
      /\ run[p].pc = "loaded"
  BY AtWork DEF CheckStart
<1>2. /\ r \in Process /\ r.pc = "cleared" /\ r.kind = run[p].kind
      /\ r.rec = run[p].rec /\ r.sess = run[p].sess
  BY <1>1 DEF Process, Places
<1>3. run' = [run EXCEPT ![p] = r] /\ UNCHANGED <<task, session, lease, edited, lost>>
  BY DEF CheckStart, Goes
<1> HIDE DEF r
<1>4. Sound(task, lost, r)
  BY <1>1, <1>2 DEF Sound, OnTask, LoadedInv, TurnInv, LostInv, AtTurn
<1> QED  BY <1>1, <1>2, <1>3, <1>4, AtWork, OneStep

\* From here on the record on disk says Running.
LEMMA WriteStartStep ==
    ASSUME TaskInv, NEW p \in Procs, WriteStart(p)
    PROVE  TaskInv'
<1> DEFINE r == [run[p] EXCEPT !.pc = "turn"]
<1>1. /\ run[p] \in Process /\ Sound(task, lost, run[p]) /\ lease = p
      /\ run[p].pc = "cleared"
  BY AtWork DEF WriteStart
<1>2. /\ r \in Process /\ r.pc = "turn" /\ r.kind = run[p].kind
      /\ r.rec = run[p].rec /\ r.sess = run[p].sess
  BY <1>1 DEF Process, Places
<1>3. /\ run' = [run EXCEPT ![p] = r] /\ task' = run[p].rec
      /\ UNCHANGED <<session, lease, edited, lost>>
  BY DEF WriteStart, Goes
<1> HIDE DEF r
<1>4. run[p].rec \in Record /\ run[p].sess \in Seq(Entry)  BY <1>1 DEF Process
<1>5. run[p].kind = "task" /\ run[p].rec.status = "Running" /\ ~lost
  BY <1>1 DEF Sound, OnTask, LoadedInv, LostInv
<1>6. IsPrefix(run[p].rec.events, run[p].rec.events) /\ IsPrefix(run[p].sess, run[p].sess)
  <2>1. run[p].rec.events \in Seq(Events)  BY <1>4 DEF Record
  <2> QED  BY <1>4, <2>1 DEF IsPrefix
<1>7. Turns(run[p].sess) \in Nat  BY <1>4, TurnsTyped
<1>8. TurnInv(task', r)
  BY <1>1, <1>2, <1>3, <1>4, <1>5, <1>6, <1>7, TaskAssumption DEF TurnInv, Sound, LoadedInv
<1>9. Sound(task', lost', r)
  BY <1>2, <1>3, <1>5, <1>8 DEF Sound, OnTask, LoadedInv, LostInv
<1> QED  BY <1>1, <1>2, <1>3, <1>4, <1>9, AtWork, OneStep

LEMMA ChatStep ==
    ASSUME TaskInv, NEW p \in Procs, Chat(p)
    PROVE  TaskInv'
<1> DEFINE r == [run[p] EXCEPT !.pc = "turn", !.sess = Content]
<1>1. /\ run[p] \in Process /\ Sound(task, lost, run[p]) /\ lease = p
      /\ run[p].kind = "chat"
  BY AtWork DEF Chat
<1>2. Content \in Seq(Entry)  BY AtWork DEF Content
<1>3. r \in Process /\ r.pc = "turn" /\ r.kind = "chat"
  BY <1>1, <1>2 DEF Process, Places
<1>4. run' = [run EXCEPT ![p] = r] /\ UNCHANGED <<task, session, lease, edited, lost>>
  BY DEF Chat, Goes
<1> HIDE DEF r
<1>5. Sound(task, lost, r)
  BY <1>1, <1>3 DEF Sound, OnTask, LoadedInv, TurnInv, LostInv, AtTurn
<1> QED  BY <1>1, <1>3, <1>4, <1>5, AtWork, OneStep

LEMMA NoteStep ==
    ASSUME TaskInv, NEW p \in Procs, Note(p)
    PROVE  TaskInv'
<1>1. Sound(task, lost, run[p]) /\ lease = p  BY AtWork DEF Note
<1>2. session' \in Seq(Entry)
  <2>1. Content \in Seq(Entry)  BY AtWork DEF Content
  <2> QED  BY <2>1 DEF Note, Entry
<1> QED  BY <1>1, <1>2, AtWork, ExitStep DEF Note, Sound, LostInv

\* A turn adds one entry to the session, in memory.
LEMMA ProcessStep ==
    ASSUME TaskInv, NEW p \in Procs, NEW out \in Outcomes, Turn(p, out)
    PROVE  TaskInv'
<1> DEFINE sess == Append(run[p].sess, run[p].kind)
           r == [run[p] EXCEPT !.pc = "turned", !.sess = sess, !.out = out]
<1>1. /\ run[p] \in Process /\ Sound(task, lost, run[p]) /\ lease = p
      /\ run[p].pc = "turn"
  BY AtWork DEF Turn
<1>2. run[p].sess \in Seq(Entry) /\ run[p].kind \in Entry  BY <1>1 DEF Process, Kinds, Entry
<1>3. sess \in Seq(Entry)  BY <1>2
<1>4. out \in Events
  <2>1. /\ Event("Completed") \in Events /\ Event("Paused") \in Events
        /\ Event("Failed") \in Events /\ Event("Cancelled") \in Events
    BY EventTyped DEF StatusAfter
  <2>2. Unfit(Event("Failed")) \in Events  BY <2>1 DEF Unfit, Events
  <2> QED  BY <2>1, <2>2 DEF Outcomes
<1>5. Turns(sess) <= Turns(run[p].sess) + 1 /\ Turns(sess) \in Nat /\ Turns(run[p].sess) \in Nat
  BY <1>2, <1>3, TurnsOfAppend, TurnsTyped
<1>6. run' = [run EXCEPT ![p] = r] /\ UNCHANGED <<task, session, lease, edited, lost>>
  BY DEF Turn, Goes
<1>7. ASSUME NEW d \in Seq(Entry), IsPrefix(d, run[p].sess) PROVE IsPrefix(d, sess)
  BY <1>2, <1>7, PrefixThenAppend
<1> HIDE DEF sess
<1>8. /\ r \in Process /\ r.pc = "turned" /\ r.kind = run[p].kind
      /\ r.rec = run[p].rec /\ r.sess = sess
  BY <1>1, <1>3, <1>4 DEF Process, Places
<1> HIDE DEF r
<1>9. TurnInv(task, r)
  <2> SUFFICES ASSUME r.kind = "task" PROVE TurnInv(task, r)  BY DEF TurnInv, AtTurn
  <2>1. /\ task # NoTask /\ task.status = "Running" /\ IsPrefix(task.events, r.rec.events)
        /\ task.checkpoint.is =>
              /\ IsPrefix(task.checkpoint.digest, run[p].sess)
              /\ task.checkpoint.digest \in Seq(Entry)
              /\ Turns(run[p].sess) <= task.checkpoint.turns
    <3>1. task.checkpoint.is => task.checkpoint.turns \in Nat \/ task = NoTask
      BY AtWork DEF Record
    <3> QED  BY <1>1, <1>5, <1>8, <3>1 DEF Sound, TurnInv, AtTurn
  <2>2. task.checkpoint.turns \in Nat  BY <2>1, AtWork DEF Record
  <2> QED  BY <1>5, <1>7, <1>8, <2>1, <2>2 DEF TurnInv
<1>10. Sound(task, lost, r)
  BY <1>1, <1>8, <1>9 DEF Sound, OnTask, LoadedInv, LostInv, AtTurn
<1> QED  BY <1>1, <1>6, <1>8, <1>10, AtWork, OneStep

\* Whether the session could be saved or not, the record still says Running.
LEMMA SaveStep ==
    ASSUME TaskInv, NEW p \in Procs, SaveSession(p) \/ LoseSession(p)
    PROVE  TaskInv'
<1>1. /\ run[p] \in Process /\ Sound(task, lost, run[p]) /\ lease = p
      /\ run[p].pc = "turned" /\ run[p].sess \in Seq(Entry)
  BY AtWork DEF SaveSession, LoseSession, Process
<1>2. session' \in Seq(Entry) \cup {NoSession} /\ UNCHANGED <<task, edited, lost>>
  BY <1>1, AtWork DEF SaveSession, LoseSession
<1>3. ASSUME NEW r \in Process, run' = [run EXCEPT ![p] = r], lease' = lease,
             r.rec = run[p].rec, r.sess = run[p].sess, r.kind = run[p].kind,
             (r.pc = "saved" /\ r.kind = "task") \/ (r.pc = "turn" /\ r.kind = "chat")
      PROVE  TaskInv'
  <2>1. Sound(task, lost, r)
    BY <1>1, <1>3 DEF Sound, OnTask, LoadedInv, TurnInv, LostInv, AtTurn
  <2> QED  BY <1>1, <1>2, <1>3, <2>1, AtWork, OneStep
<1>4. CASE SaveSession(p) /\ run[p].kind = "task"
  <2> DEFINE r == [run[p] EXCEPT !.pc = "saved", !.kept = TRUE]
  <2>1. /\ r \in Process /\ r.pc = "saved" /\ r.kind = run[p].kind
        /\ r.rec = run[p].rec /\ r.sess = run[p].sess
    BY <1>1 DEF Process, Places
  <2>2. run' = [run EXCEPT ![p] = r] /\ lease' = lease  BY <1>4 DEF SaveSession, Goes
  <2> HIDE DEF r
  <2>3. r.kind = "task"  BY <1>4, <2>1
  <2> QED  BY <1>3, <2>1, <2>2, <2>3, Zenon
<1>5. CASE LoseSession(p) /\ run[p].kind = "task"
  <2> DEFINE r == [run[p] EXCEPT !.pc = "saved", !.kept = FALSE, !.out = Event("Failed")]
  <2>1. Event("Failed") \in Events  BY EventTyped DEF StatusAfter
  <2>2. /\ r \in Process /\ r.pc = "saved" /\ r.kind = run[p].kind
        /\ r.rec = run[p].rec /\ r.sess = run[p].sess
    BY <1>1, <2>1 DEF Process, Places
  <2>3. run' = [run EXCEPT ![p] = r] /\ lease' = lease  BY <1>5 DEF LoseSession, Goes
  <2> HIDE DEF r
  <2>4. r.kind = "task"  BY <1>5, <2>2
  <2> QED  BY <1>3, <2>2, <2>3, <2>4, Zenon
<1>6. CASE run[p].kind = "chat" /\ ~Exits(p)
  <2> DEFINE r == [run[p] EXCEPT !.pc = "turn"]
  <2>1. /\ r \in Process /\ r.pc = "turn" /\ r.kind = run[p].kind
        /\ r.rec = run[p].rec /\ r.sess = run[p].sess
    BY <1>1 DEF Process, Places
  <2>2. run' = [run EXCEPT ![p] = r] /\ lease' = lease
    BY <1>6 DEF SaveSession, LoseSession, Goes
  <2> HIDE DEF r
  <2> QED  BY <1>3, <1>6, <2>1, <2>2
<1>7. CASE Exits(p)
  BY <1>1, <1>2, <1>7, AtWork, ExitStep DEF Sound, LostInv
<1> QED  BY <1>4, <1>5, <1>6, <1>7 DEF SaveSession, LoseSession

\* The outcome extends the record on disk, or the turn is lost.
LEMMA CheckOutcomeStep ==
    ASSUME TaskInv, NEW p \in Procs, CheckOutcome(p)
    PROVE  TaskInv'
<1>1. /\ run[p] \in Process /\ Sound(task, lost, run[p]) /\ lease = p
      /\ run[p].pc = "saved" /\ UNCHANGED <<task, session, lease, edited>>
  BY AtWork DEF CheckOutcome
<1>2. run[p].kind = "task" /\ AtTurn(run[p])  BY <1>1 DEF Sound, OnTask, AtTurn
<1>3. task # NoTask /\ task.status = "Running" /\ ~lost
  BY <1>1, <1>2 DEF Sound, TurnInv, LostInv
<1>4. CASE Closable(p)
  <2> DEFINE rec == Closed(p)
             r == [run[p] EXCEPT !.pc = "closing", !.rec = rec]
  <2>1. rec \in Record
    <3>1. /\ run[p].rec \in Record /\ run[p].sess \in Seq(Entry) /\ run[p].out \in Events
      BY <1>1 DEF Process
    <3> DEFINE mark == Checkpoint(Turns(run[p].sess), run[p].sess)
    <3>2. mark \in Events
      <4>1. Event("Checkpointed") \in Events  BY EventTyped DEF StatusAfter
      <4>2. Turns(run[p].sess) \in Nat /\ run[p].sess \in Digests
        BY <3>1, TurnsTyped DEF Digests
      <4> QED  BY <4>1, <4>2 DEF Checkpoint, Events
    <3>3. Marked(p) = run[p].rec \/ Marked(p) = After(run[p].rec, mark)  BY DEF Marked
    <3> HIDE DEF mark
    <3>4. Marked(p) \in Record  BY <3>1, <3>2, <3>3, AfterTyped
    <3> QED  BY <3>1, <3>4, AfterTyped DEF Closed
  <2>2. IsPrefix(task.events, rec.events)  BY <1>3, <1>4 DEF Closable, Savable
  <2>3. run' = [run EXCEPT ![p] = r] /\ lost' = lost  BY <1>4 DEF CheckOutcome, Goes
  <2> HIDE DEF rec
  <2>4. /\ r \in Process /\ r.pc = "closing" /\ r.kind = run[p].kind
        /\ r.rec = rec /\ r.sess = run[p].sess
    BY <1>1, <2>1 DEF Process, Places
  <2> HIDE DEF r
  <2>5. Sound(task, lost, r)
    BY <1>1, <1>2, <1>3, <2>2, <2>4 DEF Sound, OnTask, LoadedInv, TurnInv, LostInv, AtTurn
  <2> QED  BY <1>1, <2>3, <2>4, <2>5, AtWork, OneStep
<1>5. CASE ~Closable(p)
  <2> DEFINE r == [run[p] EXCEPT !.pc = "refused"]
  <2>1. r \in Process /\ r.pc = "refused" /\ r.kind = run[p].kind
    BY <1>1 DEF Process, Places
  <2>2. run' = [run EXCEPT ![p] = r] /\ lost' = TRUE  BY <1>5 DEF CheckOutcome, Goes
  <2> HIDE DEF r
  <2>3. Sound(task, TRUE, r)
    BY <1>2, <1>3, <2>1 DEF Sound, OnTask, LoadedInv, TurnInv, LostInv, AtTurn
  <2> QED  BY <1>1, <2>1, <2>2, <2>3, AtWork, OneStep
<1> QED  BY <1>4, <1>5

LEMMA WriteOutcomeStep ==
    ASSUME TaskInv, NEW p \in Procs, WriteOutcome(p)
    PROVE  TaskInv'
<1>1. /\ run[p] \in Process /\ Sound(task, lost, run[p]) /\ lease = p
      /\ run[p].pc = "closing"
  BY AtWork DEF WriteOutcome
<1>2. ~lost  BY <1>1 DEF Sound, OnTask, LostInv, AtTurn
<1>3. run[p].rec \in Record  BY <1>1 DEF Process
<1> QED  BY <1>1, <1>2, <1>3, AtWork, ExitStep DEF WriteOutcome

\* A process that leaves, and takes a turn with it when it was in one.
LEMMA LeaveStep ==
    ASSUME TaskInv, NEW p \in Procs, Refuse(p) \/ GiveUp(p) \/ Die(p)
    PROVE  TaskInv'
<1>1. run[p] \in Process /\ Sound(task, lost, run[p]) /\ lease = p /\ Exits(p)
  BY AtWork DEF Refuse, GiveUp, Die
<1>2. UNCHANGED <<task, session, edited>> /\ (lost' = lost \/ lost' = (lost \/ AtTurn(run[p])))
  BY DEF Refuse, GiveUp, Die, InTurn, AtTurn
<1>3. lost' \in BOOLEAN  BY <1>2, AtWork
<1>4. lost' => task # NoTask /\ task.status = "Running"
  BY <1>1, <1>2 DEF Sound, TurnInv, LostInv
<1> QED  BY <1>1, <1>2, <1>3, <1>4, AtWork, ExitStep

LEMMA TaskInit == Init => TaskInv
<1> SUFFICES ASSUME Init PROVE TaskInv  OBVIOUS
<1>1. run \in [Procs -> Process] /\ \A p \in Procs : run[p] = Idle
  BY IdleTyped DEF Init
<1>2. TypeOK  BY <1>1, TaskAssumption DEF Init, TypeOK
<1>3. LeaseInv  BY <1>1, IdleTyped DEF LeaseInv
<1>4. \A p \in Procs : Sound(task, lost, run[p])
  BY <1>1, IdleTyped, IdleSound DEF Init
<1> QED  BY <1>2, <1>3, <1>4 DEF TaskInv

LEMMA TaskStays == TaskInv /\ [Next]_vars => TaskInv'
<1> SUFFICES ASSUME TaskInv, [Next]_vars PROVE TaskInv'  OBVIOUS
<1>1. ASSUME NEW p \in Procs, NEW kind \in Kinds, Lease(p, kind) PROVE TaskInv'
  BY <1>1, LeaseStep
<1>2. ASSUME NEW p \in Procs, Refuse(p) \/ GiveUp(p) \/ Die(p) PROVE TaskInv'
  BY <1>2, LeaveStep
<1>3. ASSUME NEW p \in Procs, LoadTask(p) \/ NewTask(p) PROVE TaskInv'
  BY <1>3, BeginStep
<1>4. ASSUME NEW p \in Procs, CheckStart(p) PROVE TaskInv'  BY <1>4, CheckStartStep
<1>5. ASSUME NEW p \in Procs, WriteStart(p) PROVE TaskInv'  BY <1>5, WriteStartStep
<1>6. ASSUME NEW p \in Procs, Chat(p) PROVE TaskInv'  BY <1>6, ChatStep
<1>7. ASSUME NEW p \in Procs, Note(p) PROVE TaskInv'  BY <1>7, NoteStep
<1>8. ASSUME NEW p \in Procs, NEW out \in Outcomes, Turn(p, out) PROVE TaskInv'
  BY <1>8, ProcessStep
<1>9. ASSUME NEW p \in Procs, SaveSession(p) \/ LoseSession(p) PROVE TaskInv'
  BY <1>9, SaveStep
<1>10. ASSUME NEW p \in Procs, CheckOutcome(p) PROVE TaskInv'  BY <1>10, CheckOutcomeStep
<1>11. ASSUME NEW p \in Procs, WriteOutcome(p) PROVE TaskInv'  BY <1>11, WriteOutcomeStep
<1>12. CASE Edit
  BY <1>12, TaskAssumption DEF Edit, TaskInv, TypeOK, LeaseInv
<1>13. CASE UNCHANGED vars
  BY <1>13 DEF vars, TaskInv, TypeOK, LeaseInv
<1> QED
  BY <1>1, <1>2, <1>3, <1>4, <1>5, <1>6, <1>7, <1>8, <1>9, <1>10, <1>11, <1>12, <1>13 DEF Next

\* A turn of a task runs alone, on a record that says so on disk, and from the
\* session its checkpoint names (prepare_one_shot_task, TaskStore::lease),
\* however many processes there are and wherever they die.
THEOREM TurnsOwnTheirTask == Spec => []TurnOwnsItsTask
<1>1. TaskInv => TurnOwnsItsTask
  <2> SUFFICES ASSUME TaskInv, NEW p \in Procs, InTurn(p)
               PROVE  /\ \A q \in Procs : run[q].pc = "idle" \/ q = p
                      /\ task # NoTask /\ task.status = "Running"
                      /\ IsPrefix(task.events, run[p].rec.events)
                      /\ task.checkpoint.is =>
                           /\ IsPrefix(task.checkpoint.digest, run[p].sess)
                           /\ Turns(run[p].sess) <= task.checkpoint.turns + 1
    BY DEF TurnOwnsItsTask
  <2>1. AtTurn(run[p]) /\ run[p].pc # "idle"  BY DEF InTurn, AtTurn
  <2>2. \A q \in Procs : run[q].pc = "idle" \/ q = p  BY <2>1 DEF TaskInv, LeaseInv
  <2>3. TurnInv(task, run[p]) /\ run[p].sess \in Seq(Entry) /\ task \in Record \cup {NoTask}
    BY AtWork DEF Sound, Process
  <2>4. Turns(run[p].sess) \in Nat /\ (task # NoTask => task.checkpoint.turns \in Nat)
    BY <2>3, TurnsTyped DEF Record
  <2> QED  BY <2>1, <2>2, <2>3, <2>4 DEF TurnInv
<1> QED  BY TaskInit, TaskStays, <1>1, PTL DEF Spec

\* A turn whose outcome was not recorded is never followed by another one of
\* its task (README.md of the repository: a task left running by an interrupted
\* turn cannot be resumed).
THEOREM LostStaysLost == Spec => []LostIsNeverResumed
<1>1. TaskInv => LostIsNeverResumed
  BY DEF TaskInv, Sound, LostInv, LostIsNeverResumed, InTurn, AtTurn
<1> QED  BY TaskInit, TaskStays, <1>1, PTL DEF Spec

----------------------------------------------------------------------------
(* What is on disk. *)

\* What is about to be written was read back.
ReadBack(r) == r.pc \in {"cleared", "closing"} => Restorable(r.rec)

ReadInv == StoredRestores /\ \A p \in Procs : ReadBack(run[p])

\* A paused record goes with this session.
GoesWith(t, s) ==
    t # NoTask /\ t.status = "Paused" /\ t.schema = Schema =>
      /\ s # NoSession /\ t.checkpoint.is /\ Sealed(t)
      /\ t.checkpoint.turns = Turns(s) /\ t.checkpoint.digest = s

\* What a process is about to write goes with the session there will be.
WillMatch(t, s, e, r) ==
    /\ r.kind = "chat" /\ r.pc \in {"turn", "turned"} => t = NoTask
    /\ r.pc = "saved" /\ r.kept => e \/ s = r.sess
    /\ r.pc = "saved" /\ ~r.kept => r.out.kind = "Failed"
    /\ r.pc = "closing" /\ ~e => GoesWith(r.rec, s)

MatchInv ==
    /\ ~edited => GoesWith(task, session)
    /\ \A p \in Procs : WillMatch(task, session, edited, run[p])

LEMMA MatchesIs ==
    ASSUME NEW r
    PROVE  Matches(r) <=> /\ session # NoSession /\ r.checkpoint.is /\ Sealed(r)
                          /\ r.checkpoint.turns = Turns(session) /\ r.checkpoint.digest = session
BY DEF Matches

\* Who moves is the only one at work.
LEMMA Alone ==
    ASSUME TaskInv, NEW p \in Procs, run[p].pc # "idle" \/ lease = NoOne
    PROVE  \A q \in Procs \ {p} : run[q].pc = "idle"
BY TaskAssumption DEF TaskInv, LeaseInv

\* A step of one process, judged by where it goes.
LEMMA OneGoes ==
    ASSUME TaskInv, NEW p \in Procs, NEW r, run[p].pc # "idle" \/ lease = NoOne,
           run' = [run EXCEPT ![p] = r],
           task' # NoTask => Restorable(task'), ReadBack(r),
           ~edited' => GoesWith(task', session'), WillMatch(task', session', edited', r)
    PROVE  ReadInv' /\ MatchInv'
<1>1. run'[p] = r /\ \A q \in Procs \ {p} : run'[q] = run[q] /\ run[q].pc = "idle"
  BY Alone DEF TaskInv, TypeOK
<1>2. ASSUME NEW q \in Procs
      PROVE  ReadBack(run'[q]) /\ WillMatch(task', session', edited', run'[q])
  <2>1. CASE q = p  BY <1>1, <2>1
  <2>2. CASE q # p
    <3>1. run'[q].pc = "idle"  BY <1>1, <2>2
    <3> QED  BY <3>1 DEF ReadBack, WillMatch
  <2> QED  BY <2>1, <2>2
<1> QED  BY <1>2 DEF ReadInv, MatchInv, StoredRestores

\* A process that has nothing to write.
LEMMA AtRest ==
    ASSUME NEW t, NEW s, NEW e, NEW r, r.pc \in {"idle", "leased", "loaded", "refused"}
    PROVE  ReadBack(r) /\ WillMatch(t, s, e, r)
BY DEF ReadBack, WillMatch

LEMMA OnDisk ==
    ASSUME ReadInv, MatchInv
    PROVE  /\ task # NoTask => Restorable(task)
           /\ ~edited => GoesWith(task, session)
           /\ \A p \in Procs : ReadBack(run[p]) /\ WillMatch(task, session, edited, run[p])
BY DEF ReadInv, MatchInv, StoredRestores

\* What a mark makes of a record.
LEMMA MarkedIs ==
    ASSUME NEW r \in Record, NEW n \in Nat, NEW d \in Digests
    PROVE  LET c == Checkpoint(n, d)
           IN  /\ c \in Events /\ After(r, c) \in Record
               /\ After(r, c).checkpoint = [turns |-> n, digest |-> d, is |-> TRUE]
<1> DEFINE c == Checkpoint(n, d)
<1>1. c \in Events /\ c.kind = "Checkpointed" /\ c.turns = n /\ c.digest = d
  <2>1. Event("Checkpointed") \in Events /\ Event("Checkpointed").kind = "Checkpointed"
    BY EventTyped DEF StatusAfter
  <2> QED  BY <2>1 DEF Checkpoint, Events
<1> HIDE DEF c
<1> DEFINE mark == [turns |-> c.turns, digest |-> c.digest, is |-> TRUE]
           asked == IF c.kind = "ApprovalRequested" THEN c.request
                    ELSE IF r.status = "WaitingApproval" THEN NoRequest ELSE r.pending
<1>2. After(r, c) = [r EXCEPT !.status = StatusAfter[c.kind], !.checkpoint = mark,
                              !.pending = asked, !.events = Append(r.events, c)]
  BY <1>1 DEF After
<1>3. mark = [turns |-> n, digest |-> d, is |-> TRUE]  BY <1>1
<1> HIDE DEF mark, asked
<1>4. After(r, c).checkpoint = mark  BY <1>2 DEF Record
<1> QED  BY <1>1, <1>3, <1>4, AfterTyped DEF c

\* The record that a paused turn closes with names the session it saved.
LEMMA ClosedGoes ==
    ASSUME TaskInv, MatchInv, NEW p \in Procs, run[p].pc = "saved", Closable(p), ~edited
    PROVE  GoesWith(Closed(p), session)
<1> DEFINE rec == run[p].rec
           sess == run[p].sess
           out == run[p].out
<1>1. run[p] \in Process  BY AtWork
<1>2. rec \in Record /\ sess \in Seq(Entry) /\ out \in Events  BY <1>1 DEF Process
<1>3. WillMatch(task, session, edited, run[p])  BY DEF MatchInv
<1> DEFINE c == Checkpoint(Turns(sess), sess)
<1>4. /\ c \in Events /\ After(rec, c) \in Record
      /\ After(rec, c).checkpoint = [turns |-> Turns(sess), digest |-> sess, is |-> TRUE]
  <2>1. Turns(sess) \in Nat /\ sess \in Digests  BY <1>2, TurnsTyped DEF Digests
  <2> HIDE DEF rec, sess, out
  <2> QED  BY <1>2, <2>1, MarkedIs
<1>5. Marked(p) = rec \/ Marked(p) = After(rec, c)  BY DEF Marked
<1>6. Marked(p) \in Record  BY <1>2, <1>4, <1>5
<1>7. /\ Closed(p).status = StatusAfter[out.kind] /\ Closed(p) \in Record
      /\ out.kind # "Checkpointed" => Closed(p).checkpoint = Marked(p).checkpoint
  BY <1>2, <1>6, AfterTyped DEF Closed
<1>8. Closed(p).schema = Marked(p).schema
  <2>1. Marked(p).schema = Marked(p).schema  OBVIOUS
  <2> QED  BY <1>6 DEF Closed, After, Record
<1>9. SUFFICES ASSUME Closed(p).status = "Paused", Closed(p).schema = Schema
               PROVE  /\ session # NoSession /\ Closed(p).checkpoint.is /\ Sealed(Closed(p))
                      /\ Closed(p).checkpoint.turns = Turns(session)
                      /\ Closed(p).checkpoint.digest = session
  BY DEF GoesWith
<1>10. out.kind = "Paused"  BY <1>2, <1>7, <1>9 DEF Events, StatusAfter
<1>11. run[p].kept /\ session = sess
  BY <1>3, <1>10 DEF WillMatch
<1>12. Marked(p) = After(rec, c)  BY <1>5, <1>11 DEF Closable
<1>13. /\ Closed(p).checkpoint.turns = Turns(sess) /\ Closed(p).checkpoint.digest = sess
       /\ Closed(p).checkpoint.is
  BY <1>4, <1>7, <1>10, <1>12
<1>14. Sealed(Closed(p))
  <2>1. Allows(Marked(p), out) /\ Marked(p).schema >= 3
    BY <1>8, <1>9 DEF Closable, Accepts, Schema
  <2>2. Sealed(Marked(p))  BY <1>10, <2>1 DEF Allows
  <2> QED  BY <1>7, <1>10, <2>2 DEF Sealed
<1> QED  BY <1>2, <1>11, <1>13, <1>14, TaskAssumption

\* A process that ends, or goes to a place with nothing to write.
LEMMA RestStep ==
    ASSUME TaskInv, ReadInv, MatchInv, NEW p \in Procs, NEW r,
           run[p].pc # "idle" \/ lease = NoOne,
           run' = [run EXCEPT ![p] = r], r.pc \in {"idle", "leased", "loaded", "refused"},
           task' # NoTask => Restorable(task'), ~edited' => GoesWith(task', session')
    PROVE  ReadInv' /\ MatchInv'
<1>1. ReadBack(r) /\ WillMatch(task', session', edited', r)  BY AtRest
<1> QED  BY <1>1, OneGoes

LEMMA EarlySteps ==
    ASSUME TaskInv, ReadInv, MatchInv, NEW p \in Procs,
           \/ \E kind \in Kinds : Lease(p, kind)
           \/ LoadTask(p) \/ NewTask(p) \/ Refuse(p) \/ GiveUp(p) \/ Die(p)
    PROVE  ReadInv' /\ MatchInv'
<1>1. run[p] \in Process  BY AtWork
<1>2. UNCHANGED <<task, session, edited>> /\ (run[p].pc # "idle" \/ lease = NoOne)
  BY DEF Lease, Free, LoadTask, NewTask, Refuse, GiveUp, Die
<1>3. PICK r : run' = [run EXCEPT ![p] = r] /\ r.pc \in {"idle", "leased", "loaded", "refused"}
  <2>1. ASSUME NEW kind \in Kinds, Lease(p, kind)
        PROVE  \E r : run' = [run EXCEPT ![p] = r] /\ r.pc \in {"idle", "leased", "loaded", "refused"}
    <3> DEFINE r == [run[p] EXCEPT !.pc = "leased", !.kind = kind]
    <3>1. r.pc = "leased"  BY <1>1 DEF Process
    <3>2. run' = [run EXCEPT ![p] = r]  BY <2>1 DEF Lease, Goes
    <3> HIDE DEF r
    <3> QED  BY <3>1, <3>2
  <2>2. CASE LoadTask(p)
    <3> DEFINE r == [run[p] EXCEPT !.pc = "loaded", !.rec = After(Restored(task), Event("Resumed")),
                                   !.sess = session]
    <3>1. r.pc = "loaded"  BY <1>1 DEF Process
    <3>2. run' = [run EXCEPT ![p] = r]  BY <2>2 DEF LoadTask, Goes
    <3> HIDE DEF r
    <3> QED  BY <3>1, <3>2
  <2>3. CASE NewTask(p)
    <3> DEFINE r == [run[p] EXCEPT !.pc = "loaded", !.rec = After(Fresh(Schema), Event("Started")),
                                   !.sess = <<>>]
    <3>1. r.pc = "loaded"  BY <1>1 DEF Process
    <3>2. run' = [run EXCEPT ![p] = r]  BY <2>3 DEF NewTask, Goes
    <3> HIDE DEF r
    <3> QED  BY <3>1, <3>2
  <2>4. CASE Refuse(p) \/ GiveUp(p) \/ Die(p)
    BY <2>4, IdleTyped DEF Refuse, GiveUp, Die, Exits, Goes
  <2> QED  BY <2>1, <2>2, <2>3, <2>4
<1> QED  BY <1>2, <1>3, OnDisk, RestStep

\* The record is written that was read back, and says Running.
LEMMA StartSteps ==
    ASSUME TaskInv, ReadInv, MatchInv, NEW p \in Procs, CheckStart(p) \/ WriteStart(p)
    PROVE  ReadInv' /\ MatchInv'
<1>1. run[p] \in Process /\ Sound(task, lost, run[p]) /\ run[p].pc # "idle"
  BY AtWork DEF CheckStart, WriteStart
<1>2. CASE CheckStart(p)
  <2> DEFINE r == [run[p] EXCEPT !.pc = "cleared"]
  <2>1. r.pc = "cleared" /\ r.rec = run[p].rec  BY <1>1 DEF Process
  <2>2. run' = [run EXCEPT ![p] = r] /\ UNCHANGED <<task, session, edited>> /\ Restorable(run[p].rec)
    BY <1>2 DEF CheckStart, Goes, Savable
  <2> HIDE DEF r
  <2>3. ReadBack(r) /\ WillMatch(task', session', edited', r)
    BY <2>1, <2>2 DEF ReadBack, WillMatch
  <2> QED  BY <1>1, <2>2, <2>3, OnDisk, OneGoes
<1>3. CASE WriteStart(p)
  <2> DEFINE r == [run[p] EXCEPT !.pc = "turn"]
  <2>1. r.pc = "turn" /\ r.kind = run[p].kind  BY <1>1 DEF Process
  <2>2. /\ run' = [run EXCEPT ![p] = r] /\ task' = run[p].rec /\ UNCHANGED <<session, edited>>
        /\ run[p].pc = "cleared"
    BY <1>3 DEF WriteStart, Goes
  <2> HIDE DEF r
  <2>3. run[p].kind = "task" /\ run[p].rec.status = "Running"
    BY <1>1, <2>2 DEF Sound, OnTask, LoadedInv
  <2>4. Restorable(task')  BY <2>2, OnDisk DEF ReadBack
  <2>5. GoesWith(task', session')  BY <2>2, <2>3 DEF GoesWith
  <2>6. ReadBack(r) /\ WillMatch(task', session', edited', r)
    BY <2>1, <2>3 DEF ReadBack, WillMatch
  <2> QED  BY <1>1, <2>2, <2>4, <2>5, <2>6, OneGoes
<1> QED  BY <1>2, <1>3

\* Whoever is not a task finds no record, and leaves the session of none.
LEMMA ChatSteps ==
    ASSUME TaskInv, ReadInv, MatchInv, NEW p \in Procs, Chat(p) \/ Note(p)
    PROVE  ReadInv' /\ MatchInv'
<1>1. run[p] \in Process /\ run[p].pc # "idle"  BY AtWork DEF Chat, Note
<1>2. task = NoTask /\ task' = task /\ edited' = edited  BY DEF Chat, Note, Unclaimed
<1>3. GoesWith(task', session')  BY <1>2 DEF GoesWith
<1>4. CASE Chat(p)
  <2> DEFINE r == [run[p] EXCEPT !.pc = "turn", !.sess = Content]
  <2>1. r.pc = "turn"  BY <1>1 DEF Process
  <2>2. run' = [run EXCEPT ![p] = r]  BY <1>4 DEF Chat, Goes
  <2> HIDE DEF r
  <2>3. ReadBack(r) /\ WillMatch(task', session', edited', r)
    BY <1>2, <2>1 DEF ReadBack, WillMatch
  <2> QED  BY <1>1, <1>2, <1>3, <2>2, <2>3, OneGoes
<1>5. CASE Note(p)
  <2>1. run' = [run EXCEPT ![p] = Idle]  BY <1>5 DEF Note, Exits, Goes
  <2> QED  BY <1>1, <1>2, <1>3, <2>1, IdleTyped, RestStep
<1> QED  BY <1>4, <1>5

LEMMA TurnMatches ==
    ASSUME TaskInv, ReadInv, MatchInv, NEW p \in Procs, NEW out \in Outcomes, Turn(p, out)
    PROVE  ReadInv' /\ MatchInv'
<1> DEFINE r == [run[p] EXCEPT !.pc = "turned", !.sess = Append(@, run[p].kind), !.out = out]
<1>1. run[p] \in Process /\ run[p].pc = "turn"  BY AtWork DEF Turn
<1>2. r.pc = "turned" /\ r.kind = run[p].kind  BY <1>1 DEF Process
<1>3. run' = [run EXCEPT ![p] = r] /\ UNCHANGED <<task, session, edited>>  BY DEF Turn, Goes
<1> HIDE DEF r
<1>4. ReadBack(r) /\ WillMatch(task', session', edited', r)
  BY <1>1, <1>2, <1>3, OnDisk DEF ReadBack, WillMatch
<1> QED  BY <1>1, <1>3, <1>4, OnDisk, OneGoes

\* A session is saved while no paused record is on disk.
LEMMA SaveMatches ==
    ASSUME TaskInv, ReadInv, MatchInv, NEW p \in Procs, SaveSession(p) \/ LoseSession(p)
    PROVE  ReadInv' /\ MatchInv'
<1>1. run[p] \in Process /\ Sound(task, lost, run[p]) /\ run[p].pc = "turned"
  BY AtWork DEF SaveSession, LoseSession
<1>2. UNCHANGED <<task, edited>>  BY DEF SaveSession, LoseSession
<1>3. run[p].kind = "task" => task # NoTask /\ task.status = "Running"
  BY <1>1 DEF Sound, TurnInv, AtTurn
<1>4. run[p].kind = "chat" => task = NoTask  BY <1>1, OnDisk DEF WillMatch
<1>5. run[p].kind \in {"task", "chat"}  BY DEF SaveSession, LoseSession
<1>6. GoesWith(task', session')  BY <1>2, <1>3, <1>4, <1>5 DEF GoesWith
<1>7. task' # NoTask => Restorable(task')  BY <1>2, OnDisk
<1>8. CASE SaveSession(p) /\ run[p].kind = "task"
  <2> DEFINE r == [run[p] EXCEPT !.pc = "saved", !.kept = TRUE]
  <2>1. r.pc = "saved" /\ r.kept = TRUE /\ r.sess = run[p].sess  BY <1>1 DEF Process
  <2>2. run' = [run EXCEPT ![p] = r] /\ session' = run[p].sess  BY <1>8 DEF SaveSession, Goes
  <2> HIDE DEF r
  <2>3. ReadBack(r) /\ WillMatch(task', session', edited', r)
    BY <2>1, <2>2 DEF ReadBack, WillMatch
  <2> QED  BY <1>1, <1>6, <1>7, <2>2, <2>3, OneGoes
<1>9. CASE LoseSession(p) /\ run[p].kind = "task"
  <2> DEFINE r == [run[p] EXCEPT !.pc = "saved", !.kept = FALSE, !.out = Event("Failed")]
  <2>1. r.pc = "saved" /\ r.kept = FALSE /\ r.out = Event("Failed")  BY <1>1 DEF Process
  <2>2. run' = [run EXCEPT ![p] = r]  BY <1>9 DEF LoseSession, Goes
  <2>3. Event("Failed").kind = "Failed"  BY EventTyped DEF StatusAfter
  <2> HIDE DEF r
  <2>4. ReadBack(r) /\ WillMatch(task', session', edited', r)
    BY <2>1, <2>3 DEF ReadBack, WillMatch
  <2> QED  BY <1>1, <1>6, <1>7, <2>2, <2>4, OneGoes
<1>10. CASE run[p].kind = "chat" /\ ~Exits(p)
  <2> DEFINE r == [run[p] EXCEPT !.pc = "turn"]
  <2>1. r.pc = "turn"  BY <1>1 DEF Process
  <2>2. run' = [run EXCEPT ![p] = r]  BY <1>10 DEF SaveSession, LoseSession, Goes
  <2> HIDE DEF r
  <2>3. ReadBack(r) /\ WillMatch(task', session', edited', r)
    BY <1>2, <1>4, <1>10, <2>1 DEF ReadBack, WillMatch
  <2> QED  BY <1>1, <1>6, <1>7, <2>2, <2>3, OneGoes
<1>11. CASE Exits(p)
  <2>1. run' = [run EXCEPT ![p] = Idle]  BY <1>11 DEF Exits, Goes
  <2> QED  BY <1>1, <1>6, <1>7, <2>1, IdleTyped, RestStep
<1> QED  BY <1>5, <1>8, <1>9, <1>10, <1>11

\* The outcome is read back, and a pause names the session as it was saved.
LEMMA OutcomeSteps ==
    ASSUME TaskInv, ReadInv, MatchInv, NEW p \in Procs, CheckOutcome(p) \/ WriteOutcome(p)
    PROVE  ReadInv' /\ MatchInv'
<1>1. run[p] \in Process /\ run[p].pc \in {"saved", "closing"} /\ UNCHANGED <<session, edited>>
  BY AtWork DEF CheckOutcome, WriteOutcome
<1>2. CASE CheckOutcome(p) /\ Closable(p)
  <2> DEFINE rec == Closed(p)
             r == [run[p] EXCEPT !.pc = "closing", !.rec = rec]
  <2>1. r.pc = "closing" /\ r.rec = rec  BY <1>1 DEF Process
  <2>2. run' = [run EXCEPT ![p] = r] /\ task' = task /\ run[p].pc = "saved"
    BY <1>2 DEF CheckOutcome, Goes
  <2>3. Restorable(rec)  BY <1>2 DEF Closable, Savable
  <2>4. ~edited => GoesWith(rec, session)  BY <1>2, <2>2, ClosedGoes
  <2> HIDE DEF rec, r
  <2>5. ReadBack(r) /\ WillMatch(task', session', edited', r)
    BY <1>1, <2>1, <2>3, <2>4 DEF ReadBack, WillMatch
  <2> QED  BY <1>1, <2>2, <2>5, OnDisk, OneGoes
<1>3. CASE CheckOutcome(p) /\ ~Closable(p)
  <2> DEFINE r == [run[p] EXCEPT !.pc = "refused"]
  <2>1. r.pc = "refused"  BY <1>1 DEF Process
  <2>2. run' = [run EXCEPT ![p] = r] /\ task' = task  BY <1>3 DEF CheckOutcome, Goes
  <2> HIDE DEF r
  <2> QED  BY <1>1, <2>1, <2>2, OnDisk, RestStep
<1>4. CASE WriteOutcome(p)
  <2>1. run' = [run EXCEPT ![p] = Idle] /\ task' = run[p].rec /\ run[p].pc = "closing"
    BY <1>4 DEF WriteOutcome, Exits, Goes
  <2>2. Restorable(task') /\ (~edited' => GoesWith(task', session'))
    BY <1>1, <2>1, OnDisk DEF ReadBack, WillMatch
  <2> QED  BY <1>1, <2>1, <2>2, IdleTyped, RestStep
<1> QED  BY <1>2, <1>3, <1>4

LEMMA DiskStays == TaskInv /\ ReadInv /\ MatchInv /\ [Next]_vars => ReadInv' /\ MatchInv'
<1> SUFFICES ASSUME TaskInv, ReadInv, MatchInv, [Next]_vars PROVE ReadInv' /\ MatchInv'  OBVIOUS
<1>1. ASSUME NEW p \in Procs, NEW out \in Outcomes, Turn(p, out) PROVE ReadInv' /\ MatchInv'
  BY <1>1, TurnMatches
<1>2. ASSUME NEW p \in Procs,
             \/ \E kind \in Kinds : Lease(p, kind)
             \/ LoadTask(p) \/ NewTask(p) \/ Refuse(p) \/ GiveUp(p) \/ Die(p)
      PROVE  ReadInv' /\ MatchInv'
  BY <1>2, EarlySteps
<1>3. ASSUME NEW p \in Procs, CheckStart(p) \/ WriteStart(p) PROVE ReadInv' /\ MatchInv'
  BY <1>3, StartSteps
<1>4. ASSUME NEW p \in Procs, Chat(p) \/ Note(p) PROVE ReadInv' /\ MatchInv'
  BY <1>4, ChatSteps
<1>5. ASSUME NEW p \in Procs, SaveSession(p) \/ LoseSession(p) PROVE ReadInv' /\ MatchInv'
  BY <1>5, SaveMatches
<1>6. ASSUME NEW p \in Procs, CheckOutcome(p) \/ WriteOutcome(p) PROVE ReadInv' /\ MatchInv'
  BY <1>6, OutcomeSteps
<1>7. CASE Edit
  BY <1>7 DEF Edit, ReadInv, MatchInv, StoredRestores, WillMatch
<1>8. CASE UNCHANGED vars
  BY <1>8 DEF vars, ReadInv, MatchInv, StoredRestores
<1> QED  BY <1>1, <1>2, <1>3, <1>4, <1>5, <1>6, <1>7, <1>8 DEF Next

\* What was stored before is what this program or an older one left behind: it
\* can be read, and unless it was edited a paused record goes with its session.
LeftBehind(s) ==
    /\ s.task # NoTask => Restorable(s.task)
    /\ ~s.edited => GoesWith(s.task, s.session)

LEMMA DiskInit ==
    ASSUME \A s \in Stored : LeftBehind(s), Init
    PROVE  ReadInv /\ MatchInv
<1>1. PICK s \in Stored : task = s.task /\ session = s.session /\ edited = s.edited  BY DEF Init
<1>2. StoredRestores /\ (~edited => GoesWith(task, session))
  BY <1>1 DEF LeftBehind, StoredRestores
<1>3. \A p \in Procs : run[p].pc = "idle"  BY DEF Init, Idle
<1>4. \A p \in Procs : ReadBack(run[p]) /\ WillMatch(task, session, edited, run[p])
  BY <1>3 DEF ReadBack, WillMatch
<1> QED  BY <1>2, <1>4 DEF ReadInv, MatchInv

LEMMA DiskAlways ==
    ASSUME \A s \in Stored : LeftBehind(s)
    PROVE  Spec => [](ReadInv /\ MatchInv)
<1>1. Init => TaskInv /\ ReadInv /\ MatchInv  BY TaskInit, DiskInit
<1>2. TaskInv /\ ReadInv /\ MatchInv /\ [Next]_vars => (TaskInv /\ ReadInv /\ MatchInv)'
  BY TaskStays, DiskStays
<1> QED  BY <1>1, <1>2, PTL DEF Spec

\* The variables keep their types, whatever was stored and whoever edits
\* (task.rs: TaskRecord; task_store.rs: TaskStore).
THEOREM TaskTypes == Spec => []TypeOK
<1>1. TaskInv => TypeOK  BY DEF TaskInv
<1> QED  BY TaskInit, TaskStays, <1>1, PTL DEF Spec

\* What is on disk can always be read back: TaskStore::save replays every record
\* before it writes it, also one of an older schema, and no path writes a record
\* that was not read back.
THEOREM StoredIsReadable ==
    ASSUME \A s \in Stored : LeftBehind(s)
    PROVE  Spec => []StoredRestores
<1>1. ReadInv => StoredRestores  BY DEF ReadInv
<1> QED  BY DiskAlways, <1>1, PTL

\* Unless somebody edited the session, a paused task can be resumed: the session
\* is saved before the record that names it, a turn whose session was not saved
\* ends as failed, and neither a chat nor a note touches the session of a task
\* (run_one_shot_agent, ensure_unclaimed_session, SessionStore::save).
THEOREM PausedCanResume ==
    ASSUME \A s \in Stored : LeftBehind(s)
    PROVE  Spec => []PausedMatches
<1>1. MatchInv => PausedMatches
  BY MatchesIs DEF MatchInv, GoesWith, PausedMatches
<1> QED  BY DiskAlways, <1>1, PTL
----------------------------------------------------------------------------
(***************************************************************************)
(* The turns of one agent.  AgentInv says what a turn has at each place of *)
(* the loop and that what ran was licensed; TalkInv that what is said can  *)
(* be sent to a provider at any time, with every call numbered once.  What *)
(* is hard is the cut: Paired is kept by dropping everything before a user *)
(* message (TailOfHistory), by joining turns (JoinedHistory), by a last    *)
(* word (OneMoreWord) and by a batch of calls and results (SaidHistory).   *)
(***************************************************************************)

\* An answered call of the response, numbered over the turn.
Answer == [id: 1..MaxToolCalls, call: Calls, done: BOOLEAN, size: Sizes \cup {1}]

\* What the turn has at each place of the loop.
PlaceInv ==
    /\ pc = "idle" => context = <<>> /\ ran = <<>> /\ executed = <<>> /\ batch = <<>> /\ steps = 0
    /\ pc # "idle" => turn > 0 /\ Len(context) + 2 * Len(ran) = 1 + 2 * Len(executed)
    /\ pc \in {"top", "model"} => ran = <<>>
    /\ pc = "model" => steps < MaxSteps
    /\ pc = "asking" =>
          /\ batch # <<>> /\ Len(executed) < MaxToolCalls
          /\ Head(batch) \in Guarded /\ ~Refused(Head(batch))

LicenseInv == approvals \subseteq granted /\ RunsAreLicensed

AgentInv == TurnTypeOK /\ ran \in Seq(Answer) /\ PlaceInv /\ LicenseInv

LEMMA PolicyTyped == ASSUME NEW p \in Policies, NEW c \in Guarded PROVE p[Target[c]] \in Effects /\ Target[c] \in Targets
BY DEF Policies, Targets

LEMMA SaysTyped ==
    ASSUME NEW role \in {"user", "assistant"}, NEW n \in 0..MaxTurns
    PROVE  Says(role, n) \in Message
BY TurnAssumption DEF Says, Message

\* The messages of the answers to a batch, in their places.
CallOf(a, n) == [role |-> "call", turn |-> n, id |-> a.id, size |-> 1]
ToolOf(a, n) == [role |-> "tool", turn |-> n, id |-> a.id, size |-> a.size]

LEMMA SaidIs ==
    ASSUME context \in Seq(Message), NEW answers \in Seq(Answer), turn \in 0..MaxTurns
    PROVE  /\ Said(answers) \in Seq(Message)
           /\ Len(Said(answers)) = Len(context) + 2 * Len(answers)
           /\ \A k \in 1..Len(context) : Said(answers)[k] = context[k]
           /\ \A k \in 1..Len(answers) :
                 /\ Said(answers)[Len(context) + k] = CallOf(answers[k], turn)
                 /\ Said(answers)[Len(context) + Len(answers) + k] = ToolOf(answers[k], turn)
<1> DEFINE cs == [k \in 1..Len(answers) |-> CallOf(answers[k], turn)]
           ts == [k \in 1..Len(answers) |-> ToolOf(answers[k], turn)]
<1>1. Said(answers) = context \o cs \o ts  BY DEF Said, CallOf, ToolOf
<1>2. \A k \in 1..Len(answers) : CallOf(answers[k], turn) \in Message /\ ToolOf(answers[k], turn) \in Message
  <2> SUFFICES ASSUME NEW k \in 1..Len(answers)
               PROVE  CallOf(answers[k], turn) \in Message /\ ToolOf(answers[k], turn) \in Message
    OBVIOUS
  <2>1. answers[k] \in Answer  OBVIOUS
  <2>2. answers[k].id \in 0..MaxToolCalls /\ answers[k].size \in Sizes \cup {1}
    BY <2>1, TurnAssumption DEF Answer
  <2> QED  BY <2>2 DEF CallOf, ToolOf, Message
<1>3. cs \in Seq(Message) /\ ts \in Seq(Message) /\ Len(cs) = Len(answers) /\ Len(ts) = Len(answers)
  BY <1>2
<1>4. \A k \in 1..Len(answers) : cs[k] = CallOf(answers[k], turn) /\ ts[k] = ToolOf(answers[k], turn)
  OBVIOUS
<1> HIDE DEF cs, ts
<1>5. context \o cs \in Seq(Message) /\ Len(context \o cs) = Len(context) + Len(answers)  BY <1>3
<1>6. \A k \in 1..Len(context) : (context \o cs \o ts)[k] = context[k]  BY <1>3, <1>5
<1>7. \A k \in 1..Len(answers) :
        /\ (context \o cs \o ts)[Len(context) + k] = cs[k]
        /\ (context \o cs \o ts)[Len(context) + Len(answers) + k] = ts[k]
  <2> DEFINE s == context \o cs
  <2>1. s \in Seq(Message) /\ Len(s) = Len(context) + Len(answers)  BY <1>5
  <2>2. \A k \in 1..Len(answers) : s[Len(context) + k] = cs[k]  BY <1>3
  <2> HIDE DEF s
  <2>3. \A k \in 1..Len(s) : (s \o ts)[k] = s[k]  BY <1>3, <2>1
  <2>4. \A k \in 1..Len(ts) : (s \o ts)[Len(s) + k] = ts[k]  BY <1>3, <2>1
  <2>5. Len(context) \in Nat /\ Len(answers) \in Nat  OBVIOUS
  <2>6. \A k \in 1..Len(answers) : Len(context) + k \in 1..Len(s) BY <2>1, <2>5
  <2>7. \A k \in 1..Len(answers) :
          /\ (s \o ts)[Len(context) + k] = cs[k]
          /\ (s \o ts)[Len(context) + Len(answers) + k] = ts[k]
    BY <1>3, <2>1, <2>2, <2>3, <2>4, <2>6
  <2> QED  BY <2>7 DEF s
<1>8. (context \o cs \o ts) \in Seq(Message) /\ Len(context \o cs \o ts) = Len(context) + 2 * Len(answers)
  <2> DEFINE s == context \o cs
  <2>1. s \in Seq(Message) /\ Len(s) = Len(context) + Len(answers)  BY <1>5
  <2> HIDE DEF s
  <2>2. s \o ts \in Seq(Message) /\ Len(s \o ts) = Len(s) + Len(ts)  BY <1>3, <2>1, ConcatProperties
  <2>3. Len(context) \in Nat /\ Len(answers) \in Nat  OBVIOUS
  <2> QED  BY <1>3, <2>1, <2>2, <2>3 DEF s
<1> QED  BY <1>1, <1>4, <1>6, <1>7, <1>8

----------------------------------------------------------------------------
(* Who may run. *)

LEMMA AgentInit == TurnInit => AgentInv
<1> SUFFICES ASSUME TurnInit PROVE AgentInv  OBVIOUS
<1>1. MaxSteps \in Nat /\ MaxToolCalls \in Nat /\ MaxTurns \in Nat  BY TurnAssumption
<1>2. TurnTypeOK
  <2>1. <<>> \in Seq(Message) /\ <<>> \in Seq(Calls) /\ Len(<<>>) = 0  OBVIOUS
  <2>2. /\ conversation \in Seq(Message) /\ context \in Seq(Message) /\ policy \in Policies
        /\ approvals \subseteq Targets /\ granted \subseteq Targets
        /\ cancel \in BOOLEAN /\ pc \in {"idle", "top", "model", "batch", "asking"}
    BY <2>1 DEF TurnInit
  <2>3. /\ turn \in 0..MaxTurns /\ steps \in 0..MaxSteps
        /\ batch \in Seq(Calls) /\ executed \in Seq(Calls)
        /\ Len(executed) <= MaxToolCalls /\ Len(ran) <= Len(executed)
        /\ Len(context) <= 1 + 2 * MaxToolCalls
    BY <1>1, <2>1 DEF TurnInit
  <2> QED  BY <2>2, <2>3 DEF TurnTypeOK
<1>3. ran \in Seq(Answer) /\ PlaceInv /\ LicenseInv
  BY DEF TurnInit, PlaceInv, LicenseInv, RunsAreLicensed
<1> QED  BY <1>2, <1>3 DEF AgentInv

\* An answer that may be there under rules p and what was granted.
Licensed(a, p, g) ==
    a.done /\ a.call \in Guarded =>
      /\ p[Target[a.call]] # "deny"
      /\ \/ p[Target[a.call]] = "allow" \/ Target[a.call] \in g
         \/ p[Target[a.call]] = "none" /\ a.call \in Preapproved

LEMMA PermittedIsLicensed ==
    ASSUME approvals \subseteq granted, NEW call \in Calls, Permitted(call), call \in Guarded
    PROVE  /\ policy[Target[call]] # "deny"
           /\ \/ policy[Target[call]] = "allow" \/ Target[call] \in granted
              \/ policy[Target[call]] = "none" /\ call \in Preapproved
BY DEF Permitted, Refused, Rule

\* A turn that ends leaves its places empty.
LEMMA ConcludeKeeps ==
    ASSUME AgentInv, pc # "idle", NEW reason, NEW said \in Seq(Message),
           Conclude(reason, said), approvals' \subseteq Targets, granted' \subseteq Targets,
           approvals' \subseteq granted', conversation' \in Seq(Message)
    PROVE  AgentInv'
<1>1. /\ pc' = "idle" /\ context' = <<>> /\ steps' = 0 /\ batch' = <<>> /\ ran' = <<>> /\ executed' = <<>>
      /\ UNCHANGED <<policy, cancel, turn>>
  BY DEF Conclude
<1>2. TurnTypeOK'
  <2>1. {MaxSteps, MaxToolCalls} \subseteq Nat  BY TurnAssumption
  <2> QED  BY <1>1, <2>1 DEF AgentInv, TurnTypeOK
<1>3. PlaceInv' /\ LicenseInv' /\ ran' \in Seq(Answer)
  BY <1>1 DEF PlaceInv, LicenseInv, RunsAreLicensed
<1> QED  BY <1>2, <1>3 DEF AgentInv

----------------------------------------------------------------------------
(* Histories. *)

InCall(m) == m.role \in {"call", "tool"}

SameCall(m, n) == m.turn = n.turn /\ m.id = n.id

\* Every call has its result behind it, every result its call before it, with
\* nothing but calls and results between them, and neither is there twice.
Paired(c) ==
    /\ \A k \in 1..Len(c) : c[k].role = "call" =>
          \E j \in 1..Len(c) : /\ j > k /\ c[j].role = "tool" /\ SameCall(c[j], c[k])
                               /\ \A i \in k..j : InCall(c[i])
    /\ \A k \in 1..Len(c) : c[k].role = "tool" =>
          \E j \in 1..Len(c) : /\ j < k /\ c[j].role = "call" /\ SameCall(c[j], c[k])
                               /\ \A i \in j..k : InCall(c[i])
    /\ \A j, k \in 1..Len(c) :
          InCall(c[k]) /\ c[j].role = c[k].role /\ SameCall(c[j], c[k]) => j = k

History(c) == c \in Seq(Message) /\ Paired(c) /\ (c # <<>> => c[1].role = "user")

LEMMA LeastOf ==
    ASSUME NEW T, T \subseteq Nat, T # {}
    PROVE  \E x \in T : \A y \in T : x <= y
<1>1. PICK x \in T : \A y \in T : ~(<<y, x>> \in OpToRel(<, Nat))
  BY NatLessThanWellFounded, WFMin
<1>2. \A y \in T : ~(y < x)  BY <1>1 DEF OpToRel
<1> QED  BY <1>2

\* What is kept of a history, from a user message on.
LEMMA TailOfHistory ==
    ASSUME NEW c \in Seq(Message), Paired(c), NEW k \in 1..Len(c), c[k].role = "user"
    PROVE  /\ History(SubSeq(c, k, Len(c)))
           /\ \A i \in 1..Len(SubSeq(c, k, Len(c))) :
                 \E j \in 1..Len(c) : SubSeq(c, k, Len(c))[i] = c[j]
<1> DEFINE s == SubSeq(c, k, Len(c))
           n == Len(c) - k + 1
<1>1. s \in Seq(Message) /\ Len(s) = n /\ \A i \in 1..n : s[i] = c[i + k - 1]  OBVIOUS
<1>2. n \in Nat /\ n >= 1 /\ Len(c) \in Nat /\ k \in Nat  OBVIOUS
<1> HIDE DEF s
<1>3. s[1].role = "user"  BY <1>1, <1>2
<1>4. ~InCall(c[k])  BY DEF InCall
<1>5. \A i \in 1..n : i + k - 1 \in 1..Len(c)  OBVIOUS
<1>6. \A i \in k..Len(c) : i - k + 1 \in 1..n /\ s[i - k + 1] = c[i]
  <2> SUFFICES ASSUME NEW i \in k..Len(c) PROVE i - k + 1 \in 1..n /\ s[i - k + 1] = c[i]  OBVIOUS
  <2>1. i - k + 1 \in 1..n /\ (i - k + 1) + k - 1 = i  OBVIOUS
  <2> QED  BY <1>1, <2>1
<1> HIDE DEF n
<1>7. ASSUME NEW a \in 1..n, s[a].role = "call"
      PROVE  \E j \in 1..n : /\ j > a /\ s[j].role = "tool" /\ SameCall(s[j], s[a])
                             /\ \A i \in a..j : InCall(s[i])
  <2> DEFINE p == a + k - 1
  <2>0. p \in 1..Len(c) /\ c[p] = s[a]  BY <1>1, <1>5
  <2> HIDE DEF p
  <2>1. PICK j \in 1..Len(c) : /\ j > p /\ c[j].role = "tool" /\ SameCall(c[j], c[p])
                               /\ \A i \in p..j : InCall(c[i])
    BY <1>7, <2>0 DEF Paired
  <2>2. j - k + 1 \in 1..n /\ s[j - k + 1] = c[j] /\ j - k + 1 > a  BY <1>2, <1>6, <2>1 DEF p
  <2>3. ASSUME NEW i \in a..(j - k + 1) PROVE InCall(s[i])
    <3>1. i \in 1..n /\ i + k - 1 \in p..j  BY <1>2, <2>2 DEF p
    <3> QED  BY <1>1, <2>1, <3>1
  <2> QED  BY <2>0, <2>1, <2>2, <2>3
<1>8. ASSUME NEW a \in 1..n, s[a].role = "tool"
      PROVE  \E j \in 1..n : /\ j < a /\ s[j].role = "call" /\ SameCall(s[j], s[a])
                             /\ \A i \in j..a : InCall(s[i])
  <2> DEFINE p == a + k - 1
  <2>0. p \in 1..Len(c) /\ c[p] = s[a]  BY <1>1, <1>5
  <2> HIDE DEF p
  <2>1. PICK j \in 1..Len(c) : /\ j < p /\ c[j].role = "call" /\ SameCall(c[j], c[p])
                               /\ \A i \in j..p : InCall(c[i])
    BY <1>8, <2>0 DEF Paired
  <2>2. j >= k
    <3> SUFFICES ASSUME j < k PROVE FALSE  OBVIOUS
    <3>1. k \in j..p  BY <1>2 DEF p
    <3> QED  BY <1>4, <2>1, <3>1
  <2>3. j - k + 1 \in 1..n /\ s[j - k + 1] = c[j] /\ j - k + 1 < a
    BY <1>2, <1>6, <2>1, <2>2 DEF p
  <2>4. ASSUME NEW i \in (j - k + 1)..a PROVE InCall(s[i])
    <3>1. i \in 1..n /\ i + k - 1 \in j..p  BY <1>2, <2>3 DEF p
    <3> QED  BY <1>1, <2>1, <3>1
  <2> QED  BY <2>0, <2>1, <2>3, <2>4
<1>9. ASSUME NEW a \in 1..n, NEW b \in 1..n, InCall(s[b]), s[a].role = s[b].role, SameCall(s[a], s[b])
      PROVE  a = b
  <2> DEFINE p == a + k - 1
             q == b + k - 1
  <2>0. p \in 1..Len(c) /\ c[p] = s[a] /\ q \in 1..Len(c) /\ c[q] = s[b]  BY <1>1, <1>5
  <2> HIDE DEF p, q
  <2>1. p = q  BY <1>9, <2>0 DEF Paired
  <2> QED  BY <1>2, <2>1 DEF p, q
<1>10. Paired(s)  BY <1>1, <1>7, <1>8, <1>9 DEF Paired
<1>11. \A i \in 1..Len(s) : \E j \in 1..Len(c) : s[i] = c[j]  BY <1>1, <1>5
<1> QED  BY <1>1, <1>3, <1>10, <1>11 DEF s, History

\* Two histories of different turns, one after the other.
LEMMA JoinedHistory ==
    ASSUME NEW a, History(a), NEW b, History(b),
           \A j \in 1..Len(a), k \in 1..Len(b) : a[j].turn # b[k].turn
    PROVE  /\ History(a \o b)
           /\ \A i \in 1..Len(a \o b) : \/ \E j \in 1..Len(a) : (a \o b)[i] = a[j]
                                        \/ \E j \in 1..Len(b) : (a \o b)[i] = b[j]
<1> DEFINE c == a \o b
           m == Len(a)
           n == Len(b)
<1>0. a \in Seq(Message) /\ b \in Seq(Message) /\ Paired(a) /\ Paired(b)  BY DEF History
<1>1. /\ c \in Seq(Message) /\ Len(c) = m + n
      /\ (\A i \in 1..m : c[i] = a[i]) /\ (\A i \in 1..n : c[m + i] = b[i])
  BY <1>0, ConcatProperties
<1>2. m \in Nat /\ n \in Nat  BY <1>0
<1>3. \A i \in (m + 1)..(m + n) : i - m \in 1..n /\ c[i] = b[i - m]
  <2> SUFFICES ASSUME NEW i \in (m + 1)..(m + n) PROVE i - m \in 1..n /\ c[i] = b[i - m]  OBVIOUS
  <2>1. i - m \in 1..n /\ m + (i - m) = i  BY <1>2
  <2> QED  BY <1>1, <2>1
<1>4. c # <<>> => c[1].role = "user"
  <2>1. CASE a # <<>>
    <3>1. 1 \in 1..m  BY <1>0, <2>1
    <3> QED  BY <1>1, <2>1, <3>1 DEF History
  <2>2. CASE a = <<>>
    <3>1. c = b  BY <1>0, <2>2
    <3> QED  BY <3>1 DEF History
  <2> QED  BY <2>1, <2>2
<1> HIDE DEF c
<1>5. \A i \in 1..Len(c) : i \in 1..m \/ i \in (m + 1)..(m + n)  BY <1>1, <1>2
<1>6. m = Len(a) /\ n = Len(b)  OBVIOUS
<1> HIDE DEF m, n
<1>7. ASSUME NEW k \in 1..Len(c), c[k].role = "call"
      PROVE  \E j \in 1..Len(c) : /\ j > k /\ c[j].role = "tool" /\ SameCall(c[j], c[k])
                                  /\ \A i \in k..j : InCall(c[i])
  <2>1. CASE k \in 1..m
    <3>0. a[k].role = "call" /\ c[k] = a[k]  BY <1>1, <1>7, <2>1
    <3>1. PICK j \in 1..m : /\ j > k /\ a[j].role = "tool" /\ SameCall(a[j], a[k])
                            /\ \A i \in k..j : InCall(a[i])
      BY <1>0, <1>6, <2>1, <3>0 DEF Paired
    <3>2. j \in 1..Len(c) /\ \A i \in k..j : i \in 1..m  BY <1>1, <1>2, <2>1
    <3> QED  BY <1>1, <2>1, <3>1, <3>2
  <2>2. CASE k \in (m + 1)..(m + n)
    <3> DEFINE p == k - m
    <3>0. p \in 1..n /\ c[k] = b[p]  BY <1>3, <2>2
    <3> HIDE DEF p
    <3>1. PICK j \in 1..n : /\ j > p /\ b[j].role = "tool" /\ SameCall(b[j], b[p])
                            /\ \A i \in p..j : InCall(b[i])
      BY <1>0, <1>6, <1>7, <3>0 DEF Paired
    <3>2. m + j \in 1..Len(c) /\ m + j > k /\ c[m + j] = b[j]  BY <1>1, <1>2, <3>1 DEF p
    <3>3. ASSUME NEW i \in k..(m + j) PROVE InCall(c[i])
      <4>1. i - m \in p..j /\ i \in (m + 1)..(m + n)  BY <1>2, <2>2 DEF p
      <4> QED  BY <1>3, <3>1, <4>1
    <3> QED  BY <3>0, <3>1, <3>2, <3>3
  <2> QED  BY <1>5, <2>1, <2>2
<1>8. ASSUME NEW k \in 1..Len(c), c[k].role = "tool"
      PROVE  \E j \in 1..Len(c) : /\ j < k /\ c[j].role = "call" /\ SameCall(c[j], c[k])
                                  /\ \A i \in j..k : InCall(c[i])
  <2>1. CASE k \in 1..m
    <3>0. a[k].role = "tool" /\ c[k] = a[k]  BY <1>1, <1>8, <2>1
    <3>1. PICK j \in 1..m : /\ j < k /\ a[j].role = "call" /\ SameCall(a[j], a[k])
                            /\ \A i \in j..k : InCall(a[i])
      BY <1>0, <1>6, <2>1, <3>0 DEF Paired
    <3>2. j \in 1..Len(c) /\ \A i \in j..k : i \in 1..m  BY <1>1, <1>2, <2>1
    <3> QED  BY <1>1, <2>1, <3>1, <3>2
  <2>2. CASE k \in (m + 1)..(m + n)
    <3> DEFINE p == k - m
    <3>0. p \in 1..n /\ c[k] = b[p]  BY <1>3, <2>2
    <3> HIDE DEF p
    <3>1. PICK j \in 1..n : /\ j < p /\ b[j].role = "call" /\ SameCall(b[j], b[p])
                            /\ \A i \in j..p : InCall(b[i])
      BY <1>0, <1>6, <1>8, <3>0 DEF Paired
    <3>2. m + j \in 1..Len(c) /\ m + j < k /\ c[m + j] = b[j]  BY <1>1, <1>2, <3>1 DEF p
    <3>3. ASSUME NEW i \in (m + j)..k PROVE InCall(c[i])
      <4>1. i - m \in j..p /\ i \in (m + 1)..(m + n)  BY <1>2, <2>2 DEF p
      <4> QED  BY <1>3, <3>1, <4>1
    <3> QED  BY <3>0, <3>1, <3>2, <3>3
  <2> QED  BY <1>5, <2>1, <2>2
<1>9. ASSUME NEW j \in 1..Len(c), NEW k \in 1..Len(c),
             InCall(c[k]), c[j].role = c[k].role, SameCall(c[j], c[k])
      PROVE  j = k
  <2>1. CASE j \in 1..m /\ k \in 1..m  BY <1>0, <1>1, <1>6, <1>9, <2>1 DEF Paired
  <2>2. CASE j \in (m + 1)..(m + n) /\ k \in (m + 1)..(m + n)
    <3> DEFINE p == j - m
               q == k - m
    <3>0. p \in 1..n /\ c[j] = b[p] /\ q \in 1..n /\ c[k] = b[q]  BY <1>3, <2>2
    <3> HIDE DEF p, q
    <3>1. p = q  BY <1>0, <1>6, <1>9, <3>0 DEF Paired
    <3> QED  BY <1>2, <2>2, <3>1 DEF p, q
  <2>3. CASE j \in 1..m /\ k \in (m + 1)..(m + n)
    BY <1>1, <1>3, <1>6, <1>9, <2>3 DEF SameCall
  <2>4. CASE j \in (m + 1)..(m + n) /\ k \in 1..m
    BY <1>1, <1>3, <1>6, <1>9, <2>4 DEF SameCall
  <2> QED  BY <1>5, <2>1, <2>2, <2>3, <2>4
<1>10. Paired(c)  BY <1>7, <1>8, <1>9 DEF Paired
<1>11. \A i \in 1..Len(c) : (\E j \in 1..m : c[i] = a[j]) \/ (\E j \in 1..n : c[i] = b[j])
  BY <1>1, <1>3, <1>5
<1> QED  BY <1>1, <1>4, <1>6, <1>10, <1>11 DEF c, History

\* A turn's last word leaves its calls as they are.
LEMMA OneMoreWord ==
    ASSUME NEW c, History(c), c # <<>>, NEW m \in Message, ~InCall(m)
    PROVE  History(Append(c, m))
<1>0. c \in Seq(Message) /\ Paired(c) /\ c[1].role = "user" /\ Len(c) \in Nat  BY DEF History
<1> DEFINE d == Append(c, m)
           n == Len(c)
<1>1. d \in Seq(Message) /\ Len(d) = n + 1 /\ d[n + 1] = m /\ \A i \in 1..n : d[i] = c[i]
  BY <1>0
<1> HIDE DEF d
<1>2. \A i \in 1..Len(d) : InCall(d[i]) => i \in 1..n
  <2> SUFFICES ASSUME NEW i \in 1..Len(d), i \notin 1..n PROVE ~InCall(d[i])  OBVIOUS
  <2>1. i = n + 1  BY <1>0, <1>1
  <2> QED  BY <1>1, <2>1
<1>3. \A i \in 1..n : i \in 1..Len(d)  BY <1>0, <1>1
<1>4. ASSUME NEW k \in 1..Len(d), d[k].role = "call"
      PROVE  \E j \in 1..Len(d) : /\ j > k /\ d[j].role = "tool" /\ SameCall(d[j], d[k])
                                  /\ \A i \in k..j : InCall(d[i])
  <2>1. k \in 1..n  BY <1>2, <1>4 DEF InCall
  <2>2. PICK j \in 1..n : /\ j > k /\ c[j].role = "tool" /\ SameCall(c[j], c[k])
                          /\ \A i \in k..j : InCall(c[i])
    BY <1>0, <1>1, <1>4, <2>1 DEF Paired
  <2>3. \A i \in k..j : i \in 1..n  BY <1>0, <2>1
  <2> QED  BY <1>1, <1>3, <2>1, <2>2, <2>3
<1>5. ASSUME NEW k \in 1..Len(d), d[k].role = "tool"
      PROVE  \E j \in 1..Len(d) : /\ j < k /\ d[j].role = "call" /\ SameCall(d[j], d[k])
                                  /\ \A i \in j..k : InCall(d[i])
  <2>1. k \in 1..n  BY <1>2, <1>5 DEF InCall
  <2>2. PICK j \in 1..n : /\ j < k /\ c[j].role = "call" /\ SameCall(c[j], c[k])
                          /\ \A i \in j..k : InCall(c[i])
    BY <1>0, <1>1, <1>5, <2>1 DEF Paired
  <2>3. \A i \in j..k : i \in 1..n  BY <1>0, <2>1
  <2> QED  BY <1>1, <1>3, <2>1, <2>2, <2>3
<1>6. ASSUME NEW j \in 1..Len(d), NEW k \in 1..Len(d),
             InCall(d[k]), d[j].role = d[k].role, SameCall(d[j], d[k])
      PROVE  j = k
  <2>1. j \in 1..n /\ k \in 1..n  BY <1>2, <1>6 DEF InCall
  <2> QED  BY <1>0, <1>1, <1>6, <2>1 DEF Paired
<1>7. d[1].role = "user"
  <2>1. 1 \in 1..n  BY <1>0
  <2> QED  BY <1>0, <1>1, <2>1
<1> QED  BY <1>1, <1>4, <1>5, <1>6, <1>7 DEF d, History, Paired

\* A turn so far: its messages, and the numbers of its calls.
OfTurn(c, n, base) ==
    /\ History(c) /\ c # <<>>
    /\ \A k \in 1..Len(c) : c[k].turn = n /\ (InCall(c[k]) => c[k].id <= base)

\* The calls of a response and then their results make the turn longer.
LEMMA SaidHistory ==
    ASSUME turn \in 0..MaxTurns, NEW base \in Nat, OfTurn(context, turn, base),
           NEW answers \in Seq(Answer), \A k \in 1..Len(answers) : answers[k].id = base + k
    PROVE  OfTurn(Said(answers), turn, base + Len(answers))
<1> DEFINE d == Said(answers)
           m == Len(context)
           n == Len(answers)
<1>0. /\ context \in Seq(Message) /\ Paired(context) /\ context[1].role = "user" /\ context # <<>>
      /\ \A k \in 1..m : context[k].turn = turn /\ (InCall(context[k]) => context[k].id <= base)
  BY DEF OfTurn, History
<1>1. m \in Nat /\ n \in Nat /\ m >= 1
  <2>1. m # 0  BY <1>0
  <2> QED  BY <1>0, <2>1
<1>2. /\ d \in Seq(Message) /\ Len(d) = m + 2 * n
      /\ (\A k \in 1..m : d[k] = context[k])
      /\ (\A k \in 1..n : d[m + k] = CallOf(answers[k], turn) /\ d[m + n + k] = ToolOf(answers[k], turn))
  BY <1>0, SaidIs
<1>3. m = Len(context) /\ n = Len(answers)  OBVIOUS
<1> HIDE DEF d, m, n
<1> DEFINE Calling(i, k) == k \in 1..n /\ i = m + k
           Telling(i, k) == k \in 1..n /\ i = m + n + k
<1>4. \A i \in 1..Len(d) : i \in 1..m \/ (\E k \in 1..n : Calling(i, k)) \/ (\E k \in 1..n : Telling(i, k))
  <2> SUFFICES ASSUME NEW i \in 1..Len(d), i \notin 1..m
               PROVE  (\E k \in 1..n : Calling(i, k)) \/ (\E k \in 1..n : Telling(i, k))
    OBVIOUS
  <2>1. CASE i <= m + n
    <3>1. i - m \in 1..n /\ i = m + (i - m)  BY <1>1, <2>1
    <3> QED  BY <3>1
  <2>2. CASE i > m + n
    <3>1. i - m - n \in 1..n /\ i = m + n + (i - m - n)  BY <1>1, <1>2, <2>2
    <3> QED  BY <3>1
  <2> QED  BY <1>1, <2>1, <2>2
<1>5. \A i, k : Calling(i, k) =>
        /\ i \in 1..Len(d) /\ d[i].role = "call" /\ d[i].turn = turn /\ d[i].id = base + k
        /\ InCall(d[i]) /\ k \in 1..n /\ i = m + k
  <2> SUFFICES ASSUME NEW i, NEW k \in 1..n, i = m + k
               PROVE  /\ i \in 1..Len(d) /\ d[i].role = "call" /\ d[i].turn = turn
                      /\ d[i].id = base + k /\ InCall(d[i])
    OBVIOUS
  <2>1. i \in 1..Len(d)  BY <1>1, <1>2
  <2>2. d[i] = CallOf(answers[k], turn) /\ answers[k].id = base + k  BY <1>2, <1>3
  <2> QED  BY <2>1, <2>2 DEF CallOf, InCall
<1>6. \A i, k : Telling(i, k) =>
        /\ i \in 1..Len(d) /\ d[i].role = "tool" /\ d[i].turn = turn /\ d[i].id = base + k
        /\ InCall(d[i]) /\ k \in 1..n /\ i = m + n + k
  <2> SUFFICES ASSUME NEW i, NEW k \in 1..n, i = m + n + k
               PROVE  /\ i \in 1..Len(d) /\ d[i].role = "tool" /\ d[i].turn = turn
                      /\ d[i].id = base + k /\ InCall(d[i])
    OBVIOUS
  <2>1. i \in 1..Len(d)  BY <1>1, <1>2
  <2>2. d[i] = ToolOf(answers[k], turn) /\ answers[k].id = base + k  BY <1>2, <1>3
  <2> QED  BY <2>1, <2>2 DEF ToolOf, InCall
<1>7. \A k \in 1..n : Calling(m + k, k) /\ Telling(m + n + k, k)  OBVIOUS
<1> HIDE DEF Calling, Telling
<1>8. \A i \in 1..Len(d) : i > m => InCall(d[i])
  <2> SUFFICES ASSUME NEW i \in 1..Len(d), i > m PROVE InCall(d[i])  OBVIOUS
  <2>1. i \notin 1..m  BY <1>1
  <2> QED  BY <1>4, <1>5, <1>6, <2>1
<1>9. ASSUME NEW k \in 1..Len(d), d[k].role = "call"
      PROVE  \E j \in 1..Len(d) : /\ j > k /\ d[j].role = "tool" /\ SameCall(d[j], d[k])
                                  /\ \A i \in k..j : InCall(d[i])
  <2>1. CASE k \in 1..m
    <3>0. context[k].role = "call" /\ d[k] = context[k]  BY <1>2, <1>9, <2>1
    <3>1. PICK j \in 1..m : /\ j > k /\ context[j].role = "tool" /\ SameCall(context[j], context[k])
                            /\ \A i \in k..j : InCall(context[i])
      BY <1>0, <1>3, <2>1, <3>0 DEF Paired
    <3>2. j \in 1..Len(d) /\ \A i \in k..j : i \in 1..m  BY <1>1, <1>2, <2>1
    <3> QED  BY <1>2, <3>0, <3>1, <3>2
  <2>2. ASSUME NEW a, Calling(k, a)
        PROVE  \E j \in 1..Len(d) : /\ j > k /\ d[j].role = "tool" /\ SameCall(d[j], d[k])
                                    /\ \A i \in k..j : InCall(d[i])
    <3>1. a \in 1..n /\ k = m + a /\ d[k].turn = turn /\ d[k].id = base + a  BY <1>5, <2>2
    <3>2. Telling(m + n + a, a)  BY <1>7, <3>1
    <3>3. m + n + a > k  BY <1>1, <3>1
    <3>4. \A i \in k..(m + n + a) : i > m /\ i \in 1..Len(d)  BY <1>1, <1>2, <3>1
    <3> QED  BY <1>6, <1>8, <3>1, <3>2, <3>3, <3>4 DEF SameCall
  <2>3. ASSUME NEW a, Telling(k, a) PROVE FALSE  BY <1>6, <1>9, <2>3
  <2> QED  BY <1>4, <2>1, <2>2, <2>3
<1>10. ASSUME NEW k \in 1..Len(d), d[k].role = "tool"
       PROVE  \E j \in 1..Len(d) : /\ j < k /\ d[j].role = "call" /\ SameCall(d[j], d[k])
                                   /\ \A i \in j..k : InCall(d[i])
  <2>1. CASE k \in 1..m
    <3>0. context[k].role = "tool" /\ d[k] = context[k]  BY <1>2, <1>10, <2>1
    <3>1. PICK j \in 1..m : /\ j < k /\ context[j].role = "call" /\ SameCall(context[j], context[k])
                            /\ \A i \in j..k : InCall(context[i])
      BY <1>0, <1>3, <2>1, <3>0 DEF Paired
    <3>2. j \in 1..Len(d) /\ \A i \in j..k : i \in 1..m  BY <1>1, <1>2, <2>1
    <3> QED  BY <1>2, <3>0, <3>1, <3>2
  <2>2. ASSUME NEW a, Telling(k, a)
        PROVE  \E j \in 1..Len(d) : /\ j < k /\ d[j].role = "call" /\ SameCall(d[j], d[k])
                                    /\ \A i \in j..k : InCall(d[i])
    <3>1. a \in 1..n /\ k = m + n + a /\ d[k].turn = turn /\ d[k].id = base + a  BY <1>6, <2>2
    <3>2. Calling(m + a, a)  BY <1>7, <3>1
    <3>3. m + a < k  BY <1>1, <3>1
    <3>4. \A i \in (m + a)..k : i > m /\ i \in 1..Len(d)  BY <1>1, <1>2, <3>1
    <3> QED  BY <1>5, <1>8, <3>1, <3>2, <3>3, <3>4 DEF SameCall
  <2>3. ASSUME NEW a, Calling(k, a) PROVE FALSE  BY <1>5, <1>10, <2>3
  <2> QED  BY <1>4, <2>1, <2>2, <2>3
<1>11. ASSUME NEW j \in 1..Len(d), NEW k \in 1..Len(d),
              InCall(d[k]), d[j].role = d[k].role, SameCall(d[j], d[k])
       PROVE  j = k
  <2>0. InCall(d[j])  BY <1>11 DEF InCall
  <2>1. CASE j \in 1..m /\ k \in 1..m
    <3>1. InCall(context[k]) /\ context[j].role = context[k].role /\ SameCall(context[j], context[k])
      BY <1>2, <1>11, <2>1
    <3> QED  BY <1>0, <1>3, <2>1, <3>1 DEF Paired
  <2>2. ASSUME NEW i \in 1..m, InCall(d[i]) PROVE d[i].id \in Nat /\ d[i].id <= base
    <3>1. d[i] = context[i] /\ context[i] \in Message  BY <1>0, <1>2, <1>3
    <3>2. context[i].id \in Nat  BY <3>1, TurnAssumption DEF Message
    <3>3. InCall(context[i]) => context[i].id <= base  BY <1>0
    <3> QED  BY <2>2, <3>1, <3>2, <3>3
  <2>3. ASSUME NEW i \in 1..Len(d), i \notin 1..m
        PROVE  /\ d[i].id > base
               /\ d[i].role = "call" => i = m + (d[i].id - base)
               /\ d[i].role = "tool" => i = m + n + (d[i].id - base)
    <3>1. ASSUME NEW a, Calling(i, a)
          PROVE  d[i].id > base /\ d[i].role = "call" /\ i = m + (d[i].id - base)
      BY <1>1, <1>5, <3>1
    <3>2. ASSUME NEW a, Telling(i, a)
          PROVE  d[i].id > base /\ d[i].role = "tool" /\ i = m + n + (d[i].id - base)
      BY <1>1, <1>6, <3>2
    <3> QED  BY <1>4, <2>3, <3>1, <3>2
  <2>4. d[j].id = d[k].id  BY <1>11 DEF SameCall
  <2>5. CASE j \notin 1..m /\ k \notin 1..m  BY <1>11, <2>3, <2>4, <2>5 DEF InCall
  <2>6. ~(j \in 1..m /\ k \notin 1..m) /\ ~(j \notin 1..m /\ k \in 1..m)
    <3>1. ASSUME NEW x \in Nat, x <= base, x > base PROVE FALSE  BY <3>1
    <3> QED  BY <1>11, <2>0, <2>2, <2>3, <2>4, <3>1
  <2> QED  BY <2>1, <2>5, <2>6
<1>12. d # <<>> /\ d[1].role = "user"
  <2>1. 1 \in 1..m /\ Len(d) > 0  BY <1>1, <1>2
  <2> QED  BY <1>0, <1>2, <2>1
<1>13. ASSUME NEW i \in 1..Len(d)
       PROVE  d[i].turn = turn /\ (InCall(d[i]) => d[i].id <= base + n)
  <2>1. CASE i \in 1..m
    <3>1. d[i] = context[i] /\ context[i].turn = turn /\ context[i] \in Message
      BY <1>0, <1>2, <1>3, <2>1
    <3>2. context[i].id \in Nat  BY <3>1, TurnAssumption DEF Message
    <3>3. InCall(context[i]) => context[i].id <= base  BY <1>0, <2>1
    <3> QED  BY <1>1, <3>1, <3>2, <3>3
  <2>2. ASSUME NEW a, Calling(i, a) \/ Telling(i, a) PROVE d[i].turn = turn /\ d[i].id <= base + n
    <3>1. a \in 1..n /\ d[i].turn = turn /\ d[i].id = base + a  BY <1>5, <1>6, <2>2
    <3> QED  BY <1>1, <3>1
  <2> QED  BY <1>4, <2>1, <2>2
<1>14. Paired(d)  BY <1>9, <1>10, <1>11 DEF Paired
<1> QED  BY <1>2, <1>3, <1>12, <1>13, <1>14 DEF d, OfTurn, History

\* A history of turns no later than n.
UpTo(c, n) == History(c) /\ \A i \in 1..Len(c) : c[i].turn <= n

TalkInv ==
    /\ UpTo(conversation, IF pc = "idle" THEN turn ELSE turn - 1)
    /\ pc # "idle" => OfTurn(context, turn, Len(executed) - Len(ran))
    /\ \A k \in 1..Len(ran) : ran[k].id = Len(executed) - Len(ran) + k

\* However a history is cut, what is left is a history.
LEMMA NewestIsHistory ==
    ASSUME NEW c, NEW n, UpTo(c, n), NEW messages, NEW chars
    PROVE  UpTo(NewestWithin(c, messages, chars), n)
<1> DEFINE from == {k \in 1..Len(c) : Opens(c[k]) /\ Fits(SubSeq(c, k, Len(c)), messages, chars)}
           first == CHOOSE k \in from : \A j \in from : k <= j
<1>0. c \in Seq(Message) /\ Paired(c)  BY DEF UpTo, History
<1>1. NewestWithin(c, messages, chars) = IF from = {} THEN <<>> ELSE SubSeq(c, first, Len(c))
  BY DEF NewestWithin
<1>2. from \subseteq 1..Len(c) /\ \A k \in from : c[k].role = "user"  BY DEF Opens
<1>3. ASSUME from # {} PROVE first \in from
  <2>1. from \subseteq Nat  BY <1>0, <1>2
  <2> HIDE DEF from
  <2>2. \E k \in from : \A j \in from : k <= j  BY <1>3, <2>1, LeastOf
  <2> QED  BY <2>2
<1> HIDE DEF from, first
<1>4. CASE from = {}
  <2>1. <<>> \in Seq(Message) /\ Len(<<>>) = 0  OBVIOUS
  <2>2. UpTo(<<>>, n)  BY <2>1 DEF UpTo, History, Paired
  <2> QED  BY <1>1, <1>4, <2>2
<1>5. CASE from # {}
  <2>1. first \in 1..Len(c) /\ c[first].role = "user"  BY <1>2, <1>3, <1>5
  <2>2. /\ History(SubSeq(c, first, Len(c)))
        /\ \A i \in 1..Len(SubSeq(c, first, Len(c))) :
              \E j \in 1..Len(c) : SubSeq(c, first, Len(c))[i] = c[j]
    BY <1>0, <2>1, TailOfHistory
  <2> DEFINE s == SubSeq(c, first, Len(c))
  <2>3. UpTo(s, n)
    <3> HIDE DEF s
    <3>1. History(s) /\ \A i \in 1..Len(s) : \E j \in 1..Len(c) : s[i] = c[j]  BY <2>2 DEF s
    <3> QED  BY <3>1 DEF UpTo
  <2> QED  BY <1>1, <1>5, <2>3
<1> QED  BY <1>4, <1>5

\* What a turn has said joins what was said before it.
LEMMA CommittedIsHistory ==
    ASSUME turn \in 1..MaxTurns, UpTo(conversation, turn - 1), NEW base, NEW said, OfTurn(said, turn, base)
    PROVE  UpTo(Committed(said), turn)
<1> DEFINE c == conversation \o said
<1>0. turn \in Nat  BY TurnAssumption
<1>1. /\ History(conversation) /\ History(said)
      /\ \A i \in 1..Len(conversation) : conversation[i].turn <= turn - 1
      /\ \A i \in 1..Len(said) : said[i].turn = turn
  BY DEF UpTo, OfTurn
<1>2. \A j \in 1..Len(conversation), k \in 1..Len(said) : conversation[j].turn # said[k].turn
  BY <1>0, <1>1
<1>3. /\ History(c)
      /\ \A i \in 1..Len(c) : \/ \E j \in 1..Len(conversation) : c[i] = conversation[j]
                              \/ \E j \in 1..Len(said) : c[i] = said[j]
  BY <1>1, <1>2, JoinedHistory
<1>4. \A i \in 1..Len(conversation) : conversation[i].turn <= turn
  <2> SUFFICES ASSUME NEW i \in 1..Len(conversation) PROVE conversation[i].turn <= turn  OBVIOUS
  <2>1. conversation[i] \in Message  BY <1>1 DEF History
  <2>2. conversation[i].turn \in Nat  BY <2>1, TurnAssumption DEF Message
  <2> QED  BY <1>0, <1>1, <2>2
<1>5. Committed(said) = c \/ Committed(said) = Trimmed(c)  BY DEF Committed
<1> HIDE DEF c
<1>6. \A i \in 1..Len(c) : c[i].turn <= turn  BY <1>0, <1>1, <1>3, <1>4
<1>7. UpTo(c, turn)  BY <1>3, <1>6 DEF UpTo
<1>8. UpTo(Trimmed(c), turn)  BY <1>7, NewestIsHistory DEF Trimmed
<1> QED  BY <1>5, <1>7, <1>8

LEMMA SaidOneMore ==
    ASSUME turn \in 1..MaxTurns, NEW base, NEW said, OfTurn(said, turn, base)
    PROVE  OfTurn(Append(said, Says("assistant", turn)), turn, base)
<1> DEFINE m == Says("assistant", turn)
           d == Append(said, m)
<1>1. m \in Message /\ ~InCall(m) /\ m.turn = turn
  <2>1. turn \in 0..MaxTurns  BY TurnAssumption
  <2> QED  BY <2>1, SaysTyped DEF Says, InCall
<1> HIDE DEF m
<1>2. /\ History(said) /\ said # <<>> /\ said \in Seq(Message)
      /\ \A k \in 1..Len(said) : said[k].turn = turn /\ (InCall(said[k]) => said[k].id <= base)
  BY DEF OfTurn, History
<1>3. History(d)  BY <1>1, <1>2, OneMoreWord
<1>4. d # <<>> /\ Len(d) = Len(said) + 1 /\ d[Len(said) + 1] = m
      /\ \A k \in 1..Len(said) : d[k] = said[k]
  BY <1>1, <1>2
<1>5. \A k \in 1..Len(d) : k \in 1..Len(said) \/ k = Len(said) + 1  BY <1>2, <1>4
<1> HIDE DEF d
<1>6. \A k \in 1..Len(d) : d[k].turn = turn /\ (InCall(d[k]) => d[k].id <= base)
  BY <1>1, <1>2, <1>4, <1>5
<1> QED  BY <1>3, <1>4, <1>6 DEF OfTurn, d, m

\* A turn that ends leaves a history of the turns so far.
LEMMA ConcludeTalks ==
    ASSUME AgentInv, TalkInv, pc # "idle", NEW reason, NEW base, NEW said, OfTurn(said, turn, base),
           Conclude(reason, said)
    PROVE  TalkInv' /\ conversation' \in Seq(Message)
<1>1. turn \in 1..MaxTurns  BY TurnAssumption DEF AgentInv, TurnTypeOK, PlaceInv
<1>2. UpTo(conversation, turn - 1)  BY DEF TalkInv
<1>3. pc' = "idle" /\ ran' = <<>> /\ turn' = turn  BY DEF Conclude
<1>4. UpTo(conversation, turn)
  <2>1. \A i \in 1..Len(conversation) : conversation[i].turn <= turn - 1 /\ conversation[i] \in Message
    BY <1>2 DEF UpTo, History
  <2>2. \A i \in 1..Len(conversation) : conversation[i].turn \in Nat  BY <2>1, TurnAssumption DEF Message
  <2>3. \A i \in 1..Len(conversation) : conversation[i].turn <= turn  BY <1>1, <2>1, <2>2, TurnAssumption
  <2> QED  BY <1>2, <2>3 DEF UpTo
<1>5. newest' = <<>> \/ OfTurn(newest', turn, base)
  <2>1. newest' = <<>> \/ newest' = said \/ newest' = Append(said, Says("assistant", turn))
    BY DEF Conclude
  <2>2. OfTurn(Append(said, Says("assistant", turn)), turn, base)  BY <1>1, SaidOneMore
  <2> QED  BY <2>1, <2>2
<1>6. UpTo(conversation', turn)
  <2>1. conversation' = conversation \/ (conversation' = Committed(newest') /\ newest' # <<>>)
    BY DEF Conclude
  <2>2. OfTurn(newest', turn, base) => UpTo(Committed(newest'), turn)  BY <1>1, <1>2, CommittedIsHistory
  <2> QED  BY <1>4, <1>5, <2>1, <2>2
<1> QED  BY <1>3, <1>6 DEF TalkInv, UpTo, History

InvKept == AgentInv' /\ TalkInv'

LEMMA TurnEnds ==
    ASSUME AgentInv, TalkInv, pc # "idle", NEW reason, NEW base, NEW said, OfTurn(said, turn, base),
           Conclude(reason, said), approvals' \subseteq Targets, granted' \subseteq Targets,
           approvals' \subseteq granted'
    PROVE  InvKept
<1>1. said \in Seq(Message)  BY DEF OfTurn, History
<1>2. TalkInv' /\ conversation' \in Seq(Message)  BY ConcludeTalks
<1>3. AgentInv'  BY <1>1, <1>2, ConcludeKeeps
<1> QED  BY <1>2, <1>3 DEF InvKept

\* A turn that ends with its batch as far as it got.
LEMMA BatchEnds ==
    ASSUME AgentInv, TalkInv, pc # "idle", NEW reason, UNCHANGED <<approvals, granted>>,
           \/ Conclude(reason, context)
           \/ Conclude(reason, Said(ran))
           \/ Conclude(reason, Append(context, Says("assistant", turn)))
    PROVE  InvKept
<1> DEFINE base == Len(executed) - Len(ran)
<1>1. /\ turn \in 0..MaxTurns /\ turn \in 1..MaxTurns /\ base \in Nat /\ ran \in Seq(Answer)
      /\ approvals \subseteq granted /\ granted \subseteq Targets
  BY TurnAssumption DEF AgentInv, TurnTypeOK, PlaceInv, LicenseInv
<1>2. approvals' \subseteq Targets /\ granted' \subseteq Targets /\ approvals' \subseteq granted'  BY <1>1
<1>3. OfTurn(context, turn, base) /\ \A k \in 1..Len(ran) : ran[k].id = base + k  BY DEF TalkInv
<1> HIDE DEF base
<1>4. OfTurn(Said(ran), turn, base + Len(ran))  BY <1>1, <1>3, SaidHistory
<1>5. OfTurn(Append(context, Says("assistant", turn)), turn, base)  BY <1>1, <1>3, SaidOneMore
<1>6. CASE Conclude(reason, context)  BY <1>2, <1>3, <1>6, TurnEnds
<1>7. CASE Conclude(reason, Said(ran))  BY <1>2, <1>4, <1>7, TurnEnds
<1>8. CASE Conclude(reason, Append(context, Says("assistant", turn)))  BY <1>2, <1>5, <1>8, TurnEnds
<1> QED  BY <1>6, <1>7, <1>8

\* A call has its answer.
LEMMA AnsweredKeeps ==
    ASSUME AgentInv, TalkInv, pc \in {"batch", "asking"}, batch # <<>>, Len(executed) < MaxToolCalls,
           NEW done \in BOOLEAN, NEW size \in Sizes \cup {1}, Answered(done, size),
           granted \subseteq granted', granted' \subseteq Targets,
           approvals' \subseteq granted',
           done /\ Head(batch) \in Guarded =>
              /\ policy[Target[Head(batch)]] # "deny"
              /\ \/ policy[Target[Head(batch)]] = "allow" \/ Target[Head(batch)] \in granted'
                 \/ policy[Target[Head(batch)]] = "none" /\ Head(batch) \in Preapproved
    PROVE  InvKept
<1> DEFINE call == Head(batch)
           new == [id |-> Len(executed) + 1, call |-> call, done |-> done, size |-> size]
           answers == Append(ran, new)
           all == Append(executed, call)
           base == Len(executed) - Len(ran)
<1>0. approvals' \subseteq Targets  OBVIOUS
<1>1. /\ ran \in Seq(Answer) /\ executed \in Seq(Calls) /\ batch \in Seq(Calls)
      /\ Len(ran) <= Len(executed) /\ context \in Seq(Message) /\ turn \in 0..MaxTurns
      /\ turn > 0 /\ Len(context) + 2 * Len(ran) = 1 + 2 * Len(executed)
      /\ TurnTypeOK /\ pc # "idle"
  BY DEF AgentInv, TurnTypeOK, PlaceInv
<1>2. MaxToolCalls \in Nat /\ MaxSteps \in Nat  BY TurnAssumption
<1>3. call \in Calls /\ Tail(batch) \in Seq(Calls)  BY <1>1
<1>4. new \in Answer
  <2>1. Len(executed) + 1 \in 1..MaxToolCalls  BY <1>1, <1>2
  <2> QED  BY <1>3, <2>1 DEF Answer
<1>5. new.id = Len(executed) + 1 /\ new.call = call /\ new.done = done  OBVIOUS
<1>6. (Loops(all) /\ Conclude("pattern", Said(answers)))
      \/ (/\ ran' = answers /\ executed' = all /\ batch' = Tail(batch) /\ pc' = "batch"
          /\ UNCHANGED <<conversation, policy, cancel, turn, context, steps, newest>>)
  BY DEF Answered
<1> HIDE DEF new, call
<1>7. /\ answers \in Seq(Answer) /\ Len(answers) = Len(ran) + 1
      /\ answers[Len(ran) + 1] = new /\ \A k \in 1..Len(ran) : answers[k] = ran[k]
      /\ all \in Seq(Calls) /\ Len(all) = Len(executed) + 1
      /\ \A k \in 1..Len(answers) : k \in 1..Len(ran) \/ k = Len(ran) + 1
  BY <1>1, <1>3, <1>4
<1>8. Len(ran) \in Nat /\ Len(executed) \in Nat /\ Len(context) \in Nat  BY <1>1
<1>9. base \in Nat /\ OfTurn(context, turn, base) /\ \A k \in 1..Len(ran) : ran[k].id = base + k
  BY <1>1, <1>8 DEF TalkInv
<1>10. Len(all) - Len(answers) = base  BY <1>7, <1>8
<1> HIDE DEF answers, all
<1>11. \A k \in 1..Len(answers) : answers[k].id = base + k
  <2>1. \A k \in 1..Len(ran) : answers[k].id = base + k  BY <1>7, <1>9
  <2>2. new.id = base + (Len(ran) + 1)  BY <1>5, <1>8
  <2> QED  BY <1>7, <2>1, <2>2
<1>12. CASE Conclude("pattern", Said(answers))
  <2> HIDE DEF base
  <2>1. OfTurn(Said(answers), turn, base + Len(answers))  BY <1>1, <1>7, <1>9, <1>11, SaidHistory
  <2> QED  BY <1>0, <1>1, <1>12, <2>1, TurnEnds
<1>13. CASE /\ ran' = answers /\ executed' = all /\ batch' = Tail(batch) /\ pc' = "batch"
            /\ UNCHANGED <<conversation, policy, cancel, turn, context, steps, newest>>
  <2>1. TurnTypeOK'
    <3>1. /\ (conversation \in Seq(Message) /\ context \in Seq(Message) /\ policy \in Policies
              /\ cancel \in BOOLEAN /\ pc \in {"idle", "top", "model", "batch", "asking"}
              /\ turn \in 0..MaxTurns /\ steps \in 0..MaxSteps)'
      BY <1>1, <1>13 DEF TurnTypeOK
    <3>2. (/\ batch \in Seq(Calls) /\ executed \in Seq(Calls)
           /\ Len(executed) <= MaxToolCalls /\ Len(ran) <= Len(executed)
           /\ Len(context) <= 1 + 2 * MaxToolCalls)'
      BY <1>1, <1>2, <1>3, <1>7, <1>8, <1>13
    <3> QED  BY <1>0, <3>1, <3>2 DEF TurnTypeOK
  <2>2. PlaceInv'
    <3>0. Len(answers) = Len(ran) + 1 /\ Len(all) = Len(executed) + 1  BY <1>7
    <3>1. Len(context) + 2 * Len(ran) = 1 + 2 * Len(executed)  BY <1>1
    <3>2. Len(context) + 2 * Len(answers) = 1 + 2 * Len(all)  BY <1>8, <3>0, <3>1
    <3> QED  BY <1>1, <1>13, <3>2 DEF PlaceInv
  <2>3. LicenseInv'
    <3>1. \A k \in 1..Len(ran) : Licensed(ran[k], policy, granted')
      BY DEF AgentInv, LicenseInv, RunsAreLicensed, Licensed
    <3>2. Licensed(new, policy, granted')  BY <1>5 DEF Licensed, call
    <3>3. \A k \in 1..Len(answers) : Licensed(answers[k], policy, granted')  BY <1>7, <3>1, <3>2
    <3>4. \A k \in 1..Len(ran') : Licensed(ran'[k], policy', granted')  BY <1>13, <3>3
    <3>5. RunsAreLicensed'  BY <3>4 DEF RunsAreLicensed, Licensed
    <3> QED  BY <3>5 DEF LicenseInv
  <2>4. TalkInv'
    <3>1. UpTo(conversation, turn - 1) /\ Len(executed') - Len(ran') = base
      BY <1>1, <1>10, <1>13 DEF TalkInv
    <3>2. UpTo(conversation', turn' - 1)
      BY <1>13, <3>1 DEF UpTo
    <3>3. OfTurn(context', turn', Len(executed') - Len(ran'))  BY <1>9, <1>13, <3>1
    <3>4. \A k \in 1..Len(ran') : ran'[k].id = Len(executed') - Len(ran') + k  BY <1>11, <1>13, <3>1
    <3> QED  BY <1>13, <3>2, <3>3, <3>4 DEF TalkInv
  <2> QED  BY <1>7, <1>13, <2>1, <2>2, <2>3, <2>4 DEF InvKept, AgentInv
<1> QED  BY <1>6, <1>12, <1>13

----------------------------------------------------------------------------
(* Every step. *)

LEMMA BeginKeeps == ASSUME AgentInv, TalkInv, Begin PROVE InvKept
<1>1. /\ turn \in Nat /\ turn + 1 \in 0..MaxTurns /\ MaxToolCalls \in Nat /\ MaxSteps \in Nat
      /\ TurnTypeOK /\ pc = "idle" /\ executed = <<>> /\ ran = <<>> /\ batch = <<>> /\ steps = 0
      /\ LicenseInv
  BY TurnAssumption DEF AgentInv, TurnTypeOK, PlaceInv, Begin
<1> DEFINE first == Says("user", turn + 1)
<1>2. first \in Message /\ first.role = "user" /\ first.turn = turn + 1 /\ ~InCall(first)
  BY <1>1, SaysTyped DEF Says, InCall
<1>3. /\ turn' = turn + 1 /\ context' = <<first>> /\ pc' = "top"
      /\ UNCHANGED <<conversation, policy, approvals, cancel, steps, batch, ran, executed, granted, newest>>
  BY DEF Begin
<1> HIDE DEF first
<1>4. <<first>> \in Seq(Message) /\ Len(<<first>>) = 1 /\ <<first>>[1] = first /\ <<first>> # <<>>
      /\ 1..1 = {1}
  BY <1>2
<1>5. TurnTypeOK'
  <2>1. Len(context') <= 1 + 2 * MaxToolCalls  BY <1>1, <1>3, <1>4
  <2>2. (/\ conversation \in Seq(Message) /\ context \in Seq(Message) /\ policy \in Policies
         /\ approvals \subseteq Targets /\ granted \subseteq Targets /\ cancel \in BOOLEAN
         /\ pc \in {"idle", "top", "model", "batch", "asking"}
         /\ turn \in 0..MaxTurns /\ steps \in 0..MaxSteps /\ batch \in Seq(Calls) /\ executed \in Seq(Calls)
         /\ Len(executed) <= MaxToolCalls /\ Len(ran) <= Len(executed))'
    BY <1>1, <1>3, <1>4 DEF TurnTypeOK
  <2> QED  BY <2>1, <2>2 DEF TurnTypeOK
<1>6. PlaceInv'
  BY <1>1, <1>3, <1>4 DEF PlaceInv
<1>7. LicenseInv'  BY <1>1, <1>3 DEF LicenseInv, RunsAreLicensed
<1>8. History(<<first>>)
  BY <1>2, <1>4 DEF History, Paired, InCall
<1>9. OfTurn(<<first>>, turn + 1, 0)  BY <1>2, <1>4, <1>8 DEF OfTurn
<1>10. TalkInv'
  <2>1. UpTo(conversation', turn' - 1)
    <3>1. UpTo(conversation, turn) /\ turn' - 1 = turn  BY <1>1, <1>3 DEF TalkInv
    <3> QED  BY <1>3, <3>1
  <2>2. OfTurn(context', turn', Len(executed') - Len(ran'))
    <3>1. Len(executed') - Len(ran') = 0  BY <1>1, <1>3
    <3> QED  BY <1>3, <1>9, <3>1
  <2> QED  BY <1>1, <1>3, <2>1, <2>2 DEF TalkInv
<1> QED  BY <1>1, <1>3, <1>5, <1>6, <1>7, <1>10 DEF AgentInv, InvKept

LEMMA TopKeeps == ASSUME AgentInv, TalkInv, Top PROVE InvKept
<1>1. CASE \E reason : Conclude(reason, context)
  BY <1>1, BatchEnds DEF Top
<1>2. CASE steps # MaxSteps /\ pc' = "model" /\ UNCHANGED <<conversation, policy, cancel, turnVars>>
  <2>1. /\ UNCHANGED <<conversation, policy, approvals, granted, cancel, turn, context, steps, batch, ran, executed, newest>>
        /\ pc = "top" /\ steps < MaxSteps
    <3>1. steps \in 0..MaxSteps /\ MaxSteps \in Nat  BY TurnAssumption DEF AgentInv, TurnTypeOK
    <3> QED  BY <1>2, <3>1 DEF Top, turnVars
  <2>2. TurnTypeOK' /\ ran' \in Seq(Answer)  BY <1>2, <2>1 DEF AgentInv, TurnTypeOK
  <2>3. PlaceInv' /\ LicenseInv'
    BY <1>2, <2>1 DEF AgentInv, PlaceInv, LicenseInv, RunsAreLicensed
  <2>4. TalkInv'  BY <1>2, <2>1 DEF TalkInv
  <2> QED  BY <2>2, <2>3, <2>4 DEF AgentInv, InvKept
<1> QED  BY <1>1, <1>2 DEF Top

LEMMA ModelKeeps ==
    ASSUME AgentInv, TalkInv,
           ModelFails \/ ModelAnswers \/ (\E calls \in Responses : ModelCalls(calls))
    PROVE  InvKept
<1>1. CASE ModelFails \/ ModelAnswers
  BY <1>1, BatchEnds DEF ModelFails, ModelAnswers
<1>2. ASSUME NEW calls \in Responses, ModelCalls(calls) PROVE InvKept
  <2>1. CASE calls = <<>>  BY <1>2, <2>1, BatchEnds DEF ModelCalls
  <2>2. CASE calls # <<>>
    <3>1. /\ pc = "model" /\ pc' = "batch" /\ batch' = calls /\ steps' = steps + 1
          /\ UNCHANGED <<conversation, policy, approvals, granted, cancel, turn, context, ran, executed, newest>>
      BY <1>2, <2>2 DEF ModelCalls
    <3>2. calls \in Seq(Calls)  BY <1>2, TurnAssumption DEF Responses
    <3>3. steps + 1 \in 0..MaxSteps
      <4>1. MaxSteps \in Nat /\ steps \in 0..MaxSteps /\ steps < MaxSteps
        BY <3>1, TurnAssumption DEF AgentInv, TurnTypeOK, PlaceInv
      <4> QED  BY <4>1
    <3>4. TurnTypeOK' /\ ran' \in Seq(Answer)  BY <3>1, <3>2, <3>3 DEF AgentInv, TurnTypeOK
    <3>5. PlaceInv' /\ LicenseInv'
      BY <3>1 DEF AgentInv, PlaceInv, LicenseInv, RunsAreLicensed
    <3>6. TalkInv'  BY <3>1 DEF TalkInv
    <3> QED  BY <3>4, <3>5, <3>6 DEF AgentInv, InvKept
  <2> QED  BY <2>1, <2>2
<1> QED  BY <1>1, <1>2

LEMMA GuardKeeps == ASSUME AgentInv, TalkInv, Guard PROVE InvKept
BY BatchEnds DEF Guard

LEMMA BatchKeeps ==
    ASSUME AgentInv, TalkInv, Execute \/ RuleRefuses \/ Allow \/ Deny PROVE InvKept
<1>1. /\ approvals \subseteq granted /\ granted \subseteq Targets /\ batch \in Seq(Calls)
  BY DEF AgentInv, TurnTypeOK, LicenseInv
<1>2. pc \in {"batch", "asking"} /\ batch # <<>> /\ Len(executed) < MaxToolCalls
  <2>1. CASE Execute \/ RuleRefuses
    <3>1. executed \in Seq(Calls) /\ MaxToolCalls \in Nat  BY TurnAssumption DEF AgentInv, TurnTypeOK
    <3> QED  BY <2>1, <3>1 DEF Execute, RuleRefuses, Proceeds
  <2>2. CASE Allow \/ Deny  BY <2>2 DEF Allow, Deny, AgentInv, PlaceInv
  <2> QED  BY <2>1, <2>2
<1> DEFINE call == Head(batch)
<1>3. call \in Calls  BY <1>1, <1>2
<1>4. CASE Execute
  <2>1. Permitted(call) /\ UNCHANGED <<approvals, granted>>  BY <1>4 DEF Execute
  <2>2. PICK size \in Sizes : Answered(TRUE, size)  BY <1>4 DEF Execute
  <2>3. call \in Guarded =>
          /\ policy[Target[call]] # "deny"
          /\ \/ policy[Target[call]] = "allow" \/ Target[call] \in granted'
             \/ policy[Target[call]] = "none" /\ call \in Preapproved
    BY <1>1, <1>3, <2>1, PermittedIsLicensed
  <2>4. approvals' \subseteq granted' /\ granted' \subseteq Targets /\ granted \subseteq granted'  BY <1>1, <2>1
  <2> QED  BY <1>2, <2>2, <2>3, <2>4, AnsweredKeeps
<1>5. CASE RuleRefuses \/ Deny
  <2>1. Answered(FALSE, 1) /\ UNCHANGED <<approvals, granted>>  BY <1>5 DEF RuleRefuses, Deny
  <2>2. approvals' \subseteq granted' /\ granted' \subseteq Targets /\ granted \subseteq granted'  BY <1>1, <2>1
  <2> QED  BY <1>2, <2>1, <2>2, AnsweredKeeps
<1>6. CASE Allow
  <2>1. /\ approvals' = approvals \cup {Target[call]} /\ granted' = granted \cup {Target[call]}
    BY <1>6 DEF Allow
  <2>2. PICK size \in Sizes : Answered(TRUE, size)  BY <1>6 DEF Allow
  <2>3. call \in Guarded /\ ~Refused(call)  BY <1>6 DEF Allow, AgentInv, PlaceInv
  <2>4. policy[Target[call]] # "deny" /\ Target[call] \in granted' /\ Target[call] \in Targets
    BY <2>1, <2>3 DEF Refused, Rule, Targets
  <2>5. approvals' \subseteq granted' /\ granted' \subseteq Targets /\ granted \subseteq granted'
    BY <1>1, <2>1, <2>4
  <2> QED  BY <1>2, <2>2, <2>4, <2>5, AnsweredKeeps
<1> QED  BY <1>4, <1>5, <1>6

LEMMA AskKeeps == ASSUME AgentInv, TalkInv, Ask PROVE InvKept
<1>1. /\ UNCHANGED <<conversation, policy, approvals, granted, cancel, turn, context, steps, batch, ran, executed, newest>>
      /\ pc = "batch" /\ pc' = "asking" /\ batch # <<>> /\ Len(executed) < MaxToolCalls
      /\ ~Refused(Head(batch)) /\ Head(batch) \in Guarded
  BY DEF Ask, turnVars, Proceeds, Permitted, Rule
<1>2. TurnTypeOK' /\ ran' \in Seq(Answer)  BY <1>1 DEF AgentInv, TurnTypeOK
<1>3. PlaceInv' /\ LicenseInv'
  BY <1>1 DEF AgentInv, PlaceInv, LicenseInv, RunsAreLicensed, Refused, Rule
<1>4. TalkInv'  BY <1>1 DEF TalkInv
<1> QED  BY <1>2, <1>3, <1>4 DEF AgentInv, InvKept

LEMMA EndBatchKeeps == ASSUME AgentInv, TalkInv, EndBatch PROVE InvKept
<1>1. /\ TurnTypeOK /\ ran \in Seq(Answer) /\ context \in Seq(Message) /\ turn \in 0..MaxTurns /\ turn > 0
      /\ executed \in Seq(Calls) /\ Len(executed) <= MaxToolCalls /\ Len(ran) <= Len(executed)
      /\ Len(context) + 2 * Len(ran) = 1 + 2 * Len(executed) /\ MaxToolCalls \in Nat /\ LicenseInv
  BY TurnAssumption DEF EndBatch, AgentInv, TurnTypeOK, PlaceInv
<1> DEFINE base == Len(executed) - Len(ran)
<1>2. base \in Nat  BY <1>1
<1>3. OfTurn(context, turn, base) /\ \A k \in 1..Len(ran) : ran[k].id = base + k
  BY DEF EndBatch, TalkInv
<1>4. Said(ran) \in Seq(Message) /\ Len(Said(ran)) = Len(context) + 2 * Len(ran)  BY <1>1, SaidIs
<1>5. OfTurn(Said(ran), turn, base + Len(ran))  BY <1>1, <1>2, <1>3, SaidHistory
<1>6. base + Len(ran) = Len(executed)  BY <1>1
<1>7. /\ context' = Said(ran) /\ ran' = <<>> /\ pc' = "top" /\ pc = "batch"
      /\ UNCHANGED <<conversation, policy, approvals, cancel, turn, steps, batch, executed, granted, newest>>
  BY DEF EndBatch
<1> HIDE DEF base
<1>8. Len(ran') = 0 /\ Len(context') = 1 + 2 * Len(executed)  BY <1>1, <1>4, <1>7
<1>9. TurnTypeOK'
  <2>1. Len(context') <= 1 + 2 * MaxToolCalls /\ Len(ran') <= Len(executed')  BY <1>1, <1>7, <1>8
  <2> QED  BY <1>1, <1>4, <1>7, <2>1 DEF TurnTypeOK
<1>10. PlaceInv' /\ LicenseInv' /\ ran' \in Seq(Answer)
  BY <1>1, <1>7, <1>8 DEF PlaceInv, LicenseInv, RunsAreLicensed
<1>11. TalkInv'
  <2>1. UpTo(conversation', turn' - 1)  BY <1>7 DEF TalkInv
  <2>2. OfTurn(context', turn', Len(executed') - Len(ran'))
    <3>1. Len(executed') - Len(ran') = base + Len(ran)  BY <1>1, <1>6, <1>7, <1>8
    <3> QED  BY <1>5, <1>7, <3>1
  <2> QED  BY <1>7, <1>8, <2>1, <2>2 DEF TalkInv
<1> QED  BY <1>9, <1>10, <1>11 DEF AgentInv, InvKept

\* The person at the side: the rules and the cancel token.
LEMMA PersonKeeps ==
    ASSUME AgentInv, TalkInv, Cancel \/ ClearCancel \/ (\E p \in Policies : SetPolicy(p))
    PROVE  InvKept
<1>1. /\ UNCHANGED <<conversation, pc, turn, context, steps, batch, ran, executed, newest>>
      /\ policy' \in Policies /\ cancel' \in BOOLEAN
      /\ approvals' \subseteq granted' /\ granted' \subseteq Targets
      /\ pc = "idle" \/ UNCHANGED <<policy, approvals, granted>>
  BY DEF AgentInv, TurnTypeOK, LicenseInv, Cancel, ClearCancel, SetPolicy, turnVars
<1>2. TurnTypeOK' /\ ran' \in Seq(Answer)  BY <1>1 DEF AgentInv, TurnTypeOK
<1>3. PlaceInv' /\ LicenseInv'
  BY <1>1 DEF AgentInv, PlaceInv, LicenseInv, RunsAreLicensed, Refused, Rule
<1>4. TalkInv'  BY <1>1 DEF TalkInv
<1> QED  BY <1>2, <1>3, <1>4 DEF AgentInv, InvKept

LEMMA TalkInit == TurnInit => TalkInv
<1> SUFFICES ASSUME TurnInit PROVE TalkInv  OBVIOUS
<1>1. conversation = <<>> /\ ran = <<>> /\ pc = "idle"  BY DEF TurnInit
<1>2. <<>> \in Seq(Message) /\ Len(<<>>) = 0  OBVIOUS
<1>3. UpTo(<<>>, turn)  BY <1>2 DEF UpTo, History, Paired
<1> QED  BY <1>1, <1>2, <1>3 DEF TalkInv

LEMMA AgentInvariant == TurnSpec => [](AgentInv /\ TalkInv)
<1>1. TurnInit => AgentInv /\ TalkInv  BY AgentInit, TalkInit
<1>2. AgentInv /\ TalkInv /\ [TurnNext]_agentVars => (AgentInv /\ TalkInv)'
  <2> SUFFICES ASSUME AgentInv, TalkInv, [TurnNext]_agentVars PROVE (AgentInv /\ TalkInv)'  OBVIOUS
  <2>1. CASE TurnNext
    <3>1. InvKept
      BY <2>1, BeginKeeps, TopKeeps, ModelKeeps, GuardKeeps, BatchKeeps, AskKeeps, EndBatchKeeps, PersonKeeps
      DEF TurnNext, TurnStep
    <3> QED  BY <3>1 DEF InvKept
  <2>2. CASE UNCHANGED agentVars
    <3>1. AgentInv'
      BY <2>2 DEF agentVars, AgentInv, TurnTypeOK, PlaceInv, LicenseInv, RunsAreLicensed, Refused, Rule
    <3> QED  BY <2>2, <3>1 DEF agentVars, TalkInv
  <2> QED  BY <2>1, <2>2
<1> QED  BY <1>1, <1>2, PTL DEF TurnSpec

\* Every variable of an agent keeps its type, and no turn says or calls more
\* than its limits.
THEOREM TurnTypes == TurnSpec => []TurnTypeOK
<1>1. AgentInv => TurnTypeOK  BY DEF AgentInv
<1> QED  BY <1>1, AgentInvariant, PTL

\* No guarded call runs that no rule, no person and no preapproval permits.
THEOREM RunsLicensed == TurnSpec => []RunsAreLicensed
<1>1. AgentInv => RunsAreLicensed  BY DEF AgentInv, LicenseInv
<1> QED  BY <1>1, AgentInvariant, PTL

LEMMA HistoryIsWellFormed == ASSUME History(conversation) PROVE CallsHaveResults
<1> DEFINE c == conversation
           About(role, m) == {k \in 1..Len(c) : c[k].role = role /\ c[k].turn = m.turn /\ c[k].id = m.id}
<1>1. Paired(c) /\ (c # <<>> => c[1].role = "user")  BY DEF History
<1>2. ASSUME NEW k \in 1..Len(c)
      PROVE  /\ c[k].role = "call" => \E j \in About("tool", c[k]) :
                    j > k /\ \A i \in k..j : c[i].role \in {"call", "tool"}
             /\ c[k].role = "tool" => \E j \in About("call", c[k]) : j < k
             /\ c[k].role \in {"call", "tool"} => Cardinality(About(c[k].role, c[k])) = 1
  <2>1. ASSUME c[k].role = "call"
        PROVE  \E j \in About("tool", c[k]) : j > k /\ \A i \in k..j : c[i].role \in {"call", "tool"}
    BY <1>1, <2>1 DEF Paired, InCall, SameCall
  <2>2. ASSUME c[k].role = "tool" PROVE \E j \in About("call", c[k]) : j < k
    BY <1>1, <2>2 DEF Paired, SameCall
  <2>3. ASSUME c[k].role \in {"call", "tool"} PROVE Cardinality(About(c[k].role, c[k])) = 1
    <3>1. \A j \in About(c[k].role, c[k]) : j = k  BY <1>1, <2>3 DEF Paired, InCall, SameCall
    <3>2. k \in About(c[k].role, c[k])  OBVIOUS
    <3>3. About(c[k].role, c[k]) = {k}  BY <3>1, <3>2
    <3> QED  BY <3>3, FS_Singleton
  <2> QED  BY <2>1, <2>2, <2>3
<1>3. conversation # <<>> => conversation[1].role = "user"  BY <1>1
<1>4. CallsHaveResults <=>
        /\ c # <<>> => c[1].role = "user"
        /\ \A k \in 1..Len(c) :
             /\ c[k].role = "call" => \E j \in About("tool", c[k]) :
                    j > k /\ \A i \in k..j : c[i].role \in {"call", "tool"}
             /\ c[k].role = "tool" => \E j \in About("call", c[k]) : j < k
             /\ c[k].role \in {"call", "tool"} => Cardinality(About(c[k].role, c[k])) = 1
  BY DEF CallsHaveResults
<1> HIDE DEF About
<1> QED  BY <1>2, <1>3, <1>4

\* However long the turns and however tight the budget, every call an agent
\* keeps has its result and every result its call.
THEOREM CallsAnswered == TurnSpec => []CallsHaveResults
<1>1. TalkInv => CallsHaveResults  BY HistoryIsWellFormed DEF TalkInv, UpTo
<1> QED  BY <1>1, AgentInvariant, PTL
=============================================================================
