------------------------------- MODULE TaskRun -------------------------------
(***************************************************************************)
(* Runs of the command line on one id: `ask --task`, `ask --session` and   *)
(* `agent --session`, `session save` (src/src/cli/agent.rs,                *)
(* src/src/cli/session.rs), with the stores they share: the task record    *)
(* and its lease (src/src/task_store.rs) and the session file              *)
(* (src/src/session.rs).                                                   *)
(*                                                                         *)
(* Each file is replaced atomically; what lies between two replacements    *)
(* can be cut short by the death of the process (a kill, a second Ctrl-C,  *)
(* a panic), which also ends its lease.  A session is the sequence of what *)
(* was added to it, and its digest is that sequence.                       *)
(***************************************************************************)
EXTENDS TaskRecord, FiniteSets

CONSTANTS
    Procs,
    NoOne, NoTask, NoSession,
    Stored,      \* task records and sessions found when the model begins
    Edits,       \* what somebody may make of the session file
    MaxLength    \* bound of the model: entries of a session

VARIABLES
    task,     \* the record on disk
    session,  \* the session file on disk
    lease,    \* who holds the lock file
    run,      \* the processes
    edited,   \* the session file is not what the program left there
    lost      \* a task turn began and its outcome was not recorded

vars == <<task, session, lease, run, edited, lost>>

Kinds == {"task", "chat", "note"}
Entry == {"task", "chat", "note"}
Idle == [pc |-> "idle", kind |-> "note", rec |-> Fresh(Schema), sess |-> <<>>,
         kept |-> FALSE, out |-> Event("Completed")]

Turns(s) == Cardinality({k \in DOMAIN s : s[k] # "note"})

Digests == Seq(Entry) \cup {NoDigest}
Events == [kind: DOMAIN StatusAfter, valid: BOOLEAN, turns: Nat, digest: Digests, request: Requests]
Record == [schema: Nat, status: {"Pending"} \cup {StatusAfter[k] : k \in DOMAIN StatusAfter},
           checkpoint: [turns: Nat, digest: Digests, is: BOOLEAN], pending: Requests,
           events: Seq(Events)]
Places == {"idle", "leased", "loaded", "cleared", "turn", "turned", "saved", "closing", "refused"}
Process == [pc: Places, kind: Kinds, rec: Record, sess: Seq(Entry), kept: BOOLEAN, out: Events]

ASSUME TaskAssumption ==
    /\ NoOne \notin Procs /\ NoTask \notin Record /\ NoSession \notin Seq(Entry)
    /\ \A s \in Stored : s.task \in Record \cup {NoTask} /\ s.session \in Seq(Entry) \cup {NoSession}
                        /\ s.edited \in BOOLEAN
    /\ Edits \subseteq Seq(Entry) \cup {NoSession}
    /\ MaxLength \in Nat

TypeOK ==
    /\ task \in Record \cup {NoTask}
    /\ session \in Seq(Entry) \cup {NoSession}
    /\ lease \in Procs \cup {NoOne}
    /\ run \in [Procs -> Process]
    /\ edited \in BOOLEAN /\ lost \in BOOLEAN

Init ==
    /\ \E s \in Stored : task = s.task /\ session = s.session /\ edited = s.edited
    /\ lease = NoOne
    /\ run = [p \in Procs |-> Idle]
    /\ lost = FALSE

Content == IF session = NoSession THEN <<>> ELSE session

\* The process goes on at pc, with some of its fields changed.
Goes(p, r) == run' = [run EXCEPT ![p] = r]
Exits(p) == Goes(p, Idle) /\ lease' = NoOne

----------------------------------------------------------------------------
\* try_lock
Free == lease = NoOne

Lease(p, kind) ==
    /\ run[p].pc = "idle" /\ Free
    /\ lease' = p
    /\ Goes(p, [run[p] EXCEPT !.pc = "leased", !.kind = kind])
    /\ UNCHANGED <<task, session, edited, lost>>

\* Nothing was written yet: another workspace or budget, a record or a session
\* that cannot be used, a disk that fails.
Refuse(p) ==
    /\ run[p].pc \in {"leased", "loaded", "cleared"}
    /\ Exits(p)
    /\ UNCHANGED <<task, session, edited, lost>>

\* Mutant: the number of turns is match enough.
Matches_TurnsOnly(r) ==
    session # NoSession /\ r.checkpoint.is /\ Sealed(r) /\ r.checkpoint.turns = Turns(session)

\* The session is the one the checkpoint names.
Matches(r) ==
    /\ session # NoSession /\ r.checkpoint.is /\ Sealed(r)
    /\ r.checkpoint.turns = Turns(session) /\ r.checkpoint.digest = session

\* prepare_one_shot_task on a stored record, up to its save...
LoadTask(p) ==
    /\ run[p].pc = "leased" /\ run[p].kind = "task"
    /\ task # NoTask /\ Restorable(task)
    /\ LET r == Restored(task) IN
         /\ r.status = "Paused" /\ Matches(r) /\ Accepts(r, Event("Resumed"))
         /\ Goes(p, [run[p] EXCEPT !.pc = "loaded", !.rec = After(r, Event("Resumed")), !.sess = session])
    /\ UNCHANGED <<task, session, lease, edited, lost>>

\* ... and without one.
NewTask(p) ==
    /\ run[p].pc = "leased" /\ run[p].kind = "task"
    /\ task = NoTask /\ session = NoSession
    /\ LET r == Fresh(Schema) IN
         /\ Accepts(r, Event("Started"))
         /\ Goes(p, [run[p] EXCEPT !.pc = "loaded", !.rec = After(r, Event("Started")), !.sess = <<>>])
    /\ UNCHANGED <<task, session, lease, edited, lost>>

\* Mutant: what is written is not read back first.
Savable_Unread(r) == task # NoTask => IsPrefix(task.events, r.events)

\* TaskStore::save accepts r over what is on disk.
Savable(r) ==
    /\ Restorable(r)
    /\ task # NoTask => Restorable(task) /\ IsPrefix(task.events, r.events)

CheckStart(p) ==
    /\ run[p].pc = "loaded" /\ Savable(run[p].rec)
    /\ Goes(p, [run[p] EXCEPT !.pc = "cleared"])
    /\ UNCHANGED <<task, session, lease, edited, lost>>

\* Mutant: only a new task is recorded before its turn.
WriteStart_NewOnly(p) ==
    /\ run[p].pc = "cleared"
    /\ task' = IF task = NoTask THEN run[p].rec ELSE task
    /\ Goes(p, [run[p] EXCEPT !.pc = "turn"])
    /\ UNCHANGED <<session, lease, edited, lost>>

WriteStart(p) ==
    /\ run[p].pc = "cleared"
    /\ task' = run[p].rec
    /\ Goes(p, [run[p] EXCEPT !.pc = "turn"])
    /\ UNCHANGED <<session, lease, edited, lost>>

\* Mutant: whose session it is is not asked.
Unclaimed_Unasked == TRUE

\* ensure_unclaimed_session
Unclaimed == task = NoTask

Chat(p) ==
    /\ run[p].pc = "leased" /\ run[p].kind = "chat" /\ Unclaimed
    /\ Goes(p, [run[p] EXCEPT !.pc = "turn", !.sess = Content])
    /\ UNCHANGED <<task, session, lease, edited, lost>>

Note(p) ==
    /\ run[p].pc = "leased" /\ run[p].kind = "note" /\ Unclaimed
    /\ Len(Content) < MaxLength
    /\ session' = Append(Content, "note")
    /\ Exits(p)
    /\ UNCHANGED <<task, edited, lost>>

----------------------------------------------------------------------------
\* What a turn leads to: an answer, an error, whose text may be too long for
\* an event, a repeated call or a cancel.
Outcomes == {Event("Completed"), Event("Paused"), Event("Failed"), Unfit(Event("Failed")), Event("Cancelled")}

Turn(p, out) ==
    /\ run[p].pc = "turn" /\ Len(run[p].sess) < MaxLength
    /\ Goes(p, [run[p] EXCEPT !.pc = "turned", !.sess = Append(@, run[p].kind), !.out = out])
    /\ UNCHANGED <<task, session, lease, edited, lost>>

\* The turn is saved; a chat ends or takes another turn.
SaveSession(p) ==
    /\ run[p].pc = "turned"
    /\ session' = run[p].sess
    /\ \/ run[p].kind = "task" /\ Goes(p, [run[p] EXCEPT !.pc = "saved", !.kept = TRUE]) /\ UNCHANGED lease
       \/ run[p].kind = "chat" /\ Goes(p, [run[p] EXCEPT !.pc = "turn"]) /\ UNCHANGED lease
       \/ run[p].kind = "chat" /\ Exits(p)
    /\ UNCHANGED <<task, edited, lost>>

\* The disk fails: the turn stays in memory, and the task has failed.
LoseSession(p) ==
    /\ run[p].pc = "turned"
    /\ \/ run[p].kind = "task" /\ UNCHANGED lease
          /\ Goes(p, [run[p] EXCEPT !.pc = "saved", !.kept = FALSE, !.out = Event("Failed")])
       \/ run[p].kind = "chat" /\ Goes(p, [run[p] EXCEPT !.pc = "turn"]) /\ UNCHANGED lease
       \/ run[p].kind = "chat" /\ Exits(p)
    /\ UNCHANGED <<task, session, edited, lost>>

\* The record with the checkpoint of this turn, if its session was saved.
Marked(p) ==
    LET c == Checkpoint(Turns(run[p].sess), run[p].sess) IN
      IF run[p].kept /\ Accepts(run[p].rec, c) THEN After(run[p].rec, c) ELSE run[p].rec

Closed(p) == After(Marked(p), run[p].out)

Closable(p) ==
    /\ run[p].kept => Marked(p) # run[p].rec
    /\ Accepts(Marked(p), run[p].out)
    /\ Savable(Closed(p))

CheckOutcome(p) ==
    /\ run[p].pc = "saved"
    /\ IF Closable(p)
         THEN Goes(p, [run[p] EXCEPT !.pc = "closing", !.rec = Closed(p)]) /\ UNCHANGED <<lease, lost>>
         ELSE Goes(p, [run[p] EXCEPT !.pc = "refused"]) /\ lost' = TRUE /\ UNCHANGED lease
    /\ UNCHANGED <<task, session, edited>>

WriteOutcome(p) ==
    /\ run[p].pc = "closing"
    /\ task' = run[p].rec
    /\ Exits(p)
    /\ UNCHANGED <<session, edited, lost>>

GiveUp(p) ==
    /\ run[p].pc = "refused"
    /\ Exits(p)
    /\ UNCHANGED <<task, session, edited, lost>>

InTurn(p) == run[p].kind = "task" /\ run[p].pc \in {"turn", "turned", "saved", "closing"}

\* The process dies, or gives up on a disk that fails.
Die(p) ==
    /\ run[p].pc # "idle"
    /\ Exits(p)
    /\ lost' = (lost \/ InTurn(p))
    /\ UNCHANGED <<task, session, edited>>

\* Somebody edits the file, or puts an old one back.
Edit ==
    /\ ~edited
    /\ edited' = TRUE
    /\ session' \in Edits
    /\ UNCHANGED <<task, lease, run, lost>>

Next ==
    \/ \E p \in Procs :
          \/ \E kind \in Kinds : Lease(p, kind)
          \/ Refuse(p) \/ LoadTask(p) \/ NewTask(p) \/ CheckStart(p) \/ WriteStart(p)
          \/ Chat(p) \/ Note(p)
          \/ \E out \in Outcomes : Turn(p, out)
          \/ SaveSession(p) \/ LoseSession(p) \/ CheckOutcome(p) \/ WriteOutcome(p)
          \/ GiveUp(p) \/ Die(p)
    \/ Edit

Spec == Init /\ [][Next]_vars

----------------------------------------------------------------------------
\* A task turn runs alone, on a record that already says so on disk and, when
\* it was resumed, from the very session its checkpoint names
\* (prepare_one_shot_task, TaskStore::lease).
TurnOwnsItsTask ==
    \A p \in Procs : InTurn(p) =>
      /\ \A q \in Procs : run[q].pc = "idle" \/ q = p
      /\ task # NoTask /\ task.status = "Running" /\ IsPrefix(task.events, run[p].rec.events)
      /\ task.checkpoint.is =>
           /\ IsPrefix(task.checkpoint.digest, run[p].sess)
           /\ Turns(run[p].sess) <= task.checkpoint.turns + 1

\* Once a turn was lost, its effects with it, the task takes no other turn: not
\* by a restart, not by another process (README.md: a task left running by an
\* interrupted turn cannot be resumed).
LostIsNeverResumed == lost => \A p \in Procs : ~InTurn(p)

\* What is on disk can be read back, also after a record of an older schema
\* was brought up to date (TaskStore::save, TaskRecord::restore).
StoredRestores == task # NoTask => Restorable(task)

\* Unless somebody edited the session, a paused task can be resumed: no chat,
\* note or crash ever leaves its session different from its checkpoint.
PausedMatches ==
    task # NoTask /\ ~edited =>
      (task.status = "Paused" /\ task.schema = Schema => Matches(task))

==============================================================================
