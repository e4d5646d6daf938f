---------------------------- MODULE ControlPlane ----------------------------
(***************************************************************************)
(* The control plane (src/src/control_plane.rs) with the VMs it owns       *)
(* (VmManager of runtime.rs), the artifacts of its workspaces              *)
(* (ArtifactStore) and its file (control_plane_store.rs).                  *)
(*                                                                         *)
(* Every method takes the plane by exclusive reference, so a call is one   *)
(* action.  A call that is refused because of what it is given (an empty   *)
(* name) changes nothing; one that is refused because of what the plane    *)
(* holds has taken a sequence number.  An audit event's text is reduced to *)
(* what it is about.                                                       *)
(***************************************************************************)
EXTENDS Integers, Sequences, FiniteSets, SequencesExt

CONSTANTS
    Keys,          \* owner and workspace id
    CapIds,
    Grants,        \* capabilities: a resource and the actions allowed on it
    Attempts,      \* what may be observed: a resource and an action
    ArtIds,
    VerIds,
    Inputs,        \* the lists of inputs a version is asked for with
    Nil,
    MaxVersion,    \* u64::MAX for a store's versions
    MaxInstances,  \* max_workspaces, handed to VmManager
    MaxSequence    \* bound of the model: calls that take a number

ASSUME PlaneAssumption ==
    /\ MaxInstances \in Nat
    /\ MaxSequence \in Nat
    /\ MaxVersion \in Nat
    /\ Nil \notin Grants
    /\ Inputs \subseteq Seq(VerIds)
    /\ Nil \notin [current : VerIds \cup {Nil}, versions : Seq(VerIds)]
    /\ Nil \notin [artifact : ArtIds, parent : VerIds \cup {Nil}, inputs : Seq(VerIds),
                   sequence : Nat]

VARIABLES
    workspaces,  \* the keys of the records
    work,        \* the record of each key
    runtimes,    \* the keys of VmManager's instances
    next,        \* next_sequence: the last number taken
    disk         \* the file, which when missing is read as a new plane

vars == <<workspaces, work, runtimes, next, disk>>

Store == INSTANCE ArtifactStore

Event(sequence, kind, what, detail) ==
    [sequence |-> sequence, kind |-> kind, what |-> what, detail |-> detail]

Fresh ==
    [active       |-> TRUE,
     capabilities |-> [c \in CapIds |-> Nil],
     artifacts    |-> Store!Empty,
     observations |-> <<>>,
     audit        |-> <<>>]

Snapshot == [next |-> next, workspaces |-> workspaces, work |-> work]

Init ==
    /\ workspaces = {}
    /\ work = [k \in Keys |-> Fresh]
    /\ runtimes = {}
    /\ next = 0
    /\ disk = Snapshot

----------------------------------------------------------------------------
\* Mutant: the event is numbered before a number is taken for it.
NextSequence_Late == next

\* next_sequence: what the event of this call is numbered with.
NextSequence == next + 1

\* The call takes a number, whether or not it succeeds.
Take ==
    /\ next < MaxSequence
    /\ next' = next + 1

\* A record after a call that changed it to w, with the call's event.
Audited(w, kind, what, detail) ==
    [w EXCEPT !.audit = Append(@, Event(NextSequence, kind, what, detail))]

Record(k, w) ==
    /\ work' = [work EXCEPT ![k] = w]
    /\ UNCHANGED <<workspaces, runtimes, disk>>

\* VmManager::create: within the limit, and only once for a key.
CanCreateRuntime(k) ==
    /\ Cardinality(runtimes) < MaxInstances
    /\ k \notin runtimes

CreateWorkspace(k) ==
    /\ k \notin workspaces
    /\ CanCreateRuntime(k)
    /\ Take
    /\ runtimes' = runtimes \cup {k}
    /\ workspaces' = workspaces \cup {k}
    /\ work' = [work EXCEPT ![k] = Audited(Fresh, "WorkspaceCreated", Nil, Nil)]
    /\ UNCHANGED disk

----------------------------------------------------------------------------
Active(k) == k \in workspaces /\ work[k].active

CreateArtifact(k, a) ==
    /\ Active(k)
    /\ Store!CanCreateArtifact(work[k].artifacts, a)
    /\ Take
    /\ Record(k, Audited([work[k] EXCEPT !.artifacts = Store!WithArtifact(@, a)],
                         "ArtifactCreated", a, Nil))

AppendArtifactVersion(k, r) ==
    /\ Active(k)
    /\ Store!CanCreateVersion(work[k].artifacts, r)
    /\ Take
    /\ Record(k, Audited([work[k] EXCEPT !.artifacts = Store!WithVersion(@, r)],
                         "ArtifactVersionCreated", r.id, r.artifact))

\* Granting and revoking do not ask whether the workspace is suspended.
GrantCapability(k, c, g) ==
    /\ k \in workspaces
    /\ work[k].capabilities[c] = Nil
    /\ Take
    /\ Record(k, Audited([work[k] EXCEPT !.capabilities[c] = g], "CapabilityGranted", c, g))

\* Mutant: the revocation is written down and not carried out.
Revoked_Kept(w, c) == w

Revoked(w, c) == [w EXCEPT !.capabilities[c] = Nil]

RevokeCapability(k, c) ==
    /\ k \in workspaces
    /\ work[k].capabilities[c] # Nil
    /\ Take
    /\ Record(k, Audited(Revoked(work[k], c), "CapabilityRevoked", c, Nil))

----------------------------------------------------------------------------
\* Mutant: the action is compared, the resource is not.
Allows_AnyResource(g, t) == t.action \in g.actions

Allows(g, t) == g.resource = t.resource /\ t.action \in g.actions

Permitted(k, c, t) ==
    /\ work[k].capabilities[c] # Nil
    /\ Allows(work[k].capabilities[c], t)

Observe(k, c, t) ==
    /\ Active(k)
    /\ Permitted(k, c, t)
    /\ Take
    /\ Record(k, Audited([work[k] EXCEPT !.observations =
                            Append(@, [sequence |-> NextSequence, capability |-> c, of |-> t])],
                         "ResourceObserved", c, t))

\* A denial is written down too, unless the workspace is unknown or suspended.
Deny(k, c, t) ==
    /\ Active(k)
    /\ ~Permitted(k, c, t)
    /\ Take
    /\ Record(k, Audited(work[k], "AccessDenied", c, t))

\* Some call is refused in every state: no capability is both there and missing.
Refuse ==
    /\ Take
    /\ UNCHANGED <<workspaces, work, runtimes, disk>>

----------------------------------------------------------------------------
\* ControlPlaneStore::save replaces the file at once.
Save ==
    /\ disk' = Snapshot
    /\ UNCHANGED <<workspaces, work, runtimes, next>>

\* ControlPlane::restore gives every record of a snapshot a VM.
Restore(snapshot) ==
    /\ Cardinality(snapshot.workspaces) <= MaxInstances
    /\ workspaces' = snapshot.workspaces
    /\ runtimes' = snapshot.workspaces
    /\ work' = snapshot.work
    /\ next' = snapshot.next

\* A crash, or an error after which the plane is loaded again.  Nothing in the
\* program suspends a workspace: one that is was suspended in the file.
Load(suspended) ==
    /\ Restore([disk EXCEPT !.work =
                   [k \in Keys |-> [disk.work[k] EXCEPT !.active = @ /\ k \notin suspended]]])
    /\ UNCHANGED disk

Next ==
    \/ \E k \in Keys :
         \/ CreateWorkspace(k)
         \/ \E a \in ArtIds : CreateArtifact(k, a)
         \/ \E r \in Store!Requests(VerIds \cup {Nil}, Inputs) : AppendArtifactVersion(k, r)
         \/ \E c \in CapIds :
              \/ \E g \in Grants : GrantCapability(k, c, g)
              \/ RevokeCapability(k, c)
              \/ \E t \in Attempts : Observe(k, c, t) \/ Deny(k, c, t)
    \/ Refuse
    \/ Save
    \/ \E suspended \in SUBSET disk.workspaces : Load(suspended)

Spec == Init /\ [][Next]_vars
----------------------------------------------------------------------------
Events ==
    [sequence : 1..MaxSequence,
     kind     : {"WorkspaceCreated", "ArtifactCreated", "ArtifactVersionCreated",
                 "CapabilityGranted", "CapabilityRevoked", "ResourceObserved", "AccessDenied"},
     what     : CapIds \cup ArtIds \cup VerIds \cup {Nil},
     detail   : Grants \cup Attempts \cup ArtIds \cup {Nil}]

Records ==
    [active       : BOOLEAN,
     capabilities : [CapIds -> Grants \cup {Nil}],
     artifacts    : Store!Stores,
     observations : Seq([sequence : 1..MaxSequence, capability : CapIds, of : Attempts]),
     audit        : Seq(Events)]

TypeOK ==
    /\ workspaces \subseteq Keys
    /\ work \in [Keys -> Records]
    /\ runtimes \subseteq Keys
    /\ next \in 0..MaxSequence
    /\ disk \in [next : 0..MaxSequence, workspaces : SUBSET Keys, work : [Keys -> Records]]

----------------------------------------------------------------------------
(* The audit of a record, read back. *)

\* The entries of one kind, and those of one kind about one thing.
Entries(w, kind) == {n \in 1..Len(w.audit) : w.audit[n].kind = kind}
About(w, kind, what) == {n \in Entries(w, kind) : w.audit[n].what = what}

\* Whether c was granted as g when entry n was made.
GrantedAt(w, n, c, g) ==
    \E m \in About(w, "CapabilityGranted", c) :
        /\ m < n
        /\ w.audit[m].detail = g
        /\ \A i \in About(w, "CapabilityRevoked", c) : ~(m < i /\ i < n)

\* Whether, by the audit, the access of entry n was allowed when it was made.
AllowedAt(w, n) ==
    LET e == w.audit[n]
    IN  \E g \in Grants : /\ GrantedAt(w, n, e.what, g)
                          /\ e.detail.resource = g.resource
                          /\ e.detail.action \in g.actions

Vindicated(w) ==
    /\ \A n \in Entries(w, "ResourceObserved") : AllowedAt(w, n)
    /\ \A n \in Entries(w, "AccessDenied") : ~AllowedAt(w, n)

\* What the audit says was observed was allowed by a capability that, by the same
\* audit, had been granted and not been revoked; what it says was denied was not
\* (control_plane.rs 331-392), whatever was granted, revoked, saved and lost.
AuditVindicatesAccess == \A k \in workspaces : Vindicated(work[k])

\* It begins with the creation of the workspace, and there is no other.
Begun(w) == Entries(w, "WorkspaceCreated") = {1}

\* Its open grants are the capabilities.
GrantsKept(w) ==
    \A c \in CapIds, g \in Grants :
        w.capabilities[c] = g <=> GrantedAt(w, Len(w.audit) + 1, c, g)

\* Its observations are the ones kept, in their order.
ObservationsKept(w) ==
    LET o == w.observations
    IN  /\ {o[i] : i \in 1..Len(o)} =
              {[sequence |-> w.audit[n].sequence, capability |-> w.audit[n].what,
                of |-> w.audit[n].detail] : n \in Entries(w, "ResourceObserved")}
        /\ \A i, j \in 1..Len(o) : i < j => o[i].sequence < o[j].sequence

\* The entries about a version of artifact a.
VersionsOf(w, a) == {n \in Entries(w, "ArtifactVersionCreated") : w.audit[n].detail = a}

\* They are its versions, each made once and in this order.
HistoryKept(w, a) ==
    LET h == Store!History(w.artifacts, a)
    IN  /\ {h[i] : i \in 1..Len(h)} = {w.audit[n].what : n \in VersionsOf(w, a)}
        /\ \A i, j \in 1..Len(h) : \A m, n \in VersionsOf(w, a) :
             w.audit[m].what = h[i] /\ w.audit[n].what = h[j] => (i < j <=> m < n)

\* Its artifacts are the ones there are, with their versions.
ArtifactsKept(w) ==
    \A a \in ArtIds :
        /\ w.artifacts.artifacts[a] # Nil <=> About(w, "ArtifactCreated", a) # {}
        /\ w.artifacts.artifacts[a] # Nil => HistoryKept(w, a)

\* The audit and the state tell the same story: every workspace has its VM, and its
\* audit explains its capabilities, observations and artifacts (control_plane.rs
\* 173-392).  A call that failed half way would leave one without the other.  The
\* lineage of the artifacts is what ArtifactStore promises (artifacts.rs 8, "without
\* changing version semantics"), also after a restore.
AuditExplainsState ==
    /\ runtimes = workspaces
    /\ \A k \in workspaces :
          /\ Begun(work[k])
          /\ GrantsKept(work[k])
          /\ ObservationsKept(work[k])
          /\ ArtifactsKept(work[k])
          /\ Store!LineageSound(work[k].artifacts)

Numbers(w) == [k \in Keys |-> [i \in DOMAIN w[k].audit |-> w[k].audit[i].sequence]]

Log == INSTANCE AuditLog WITH
    log   <- Numbers(work),
    clock <- next,
    saved <- [log |-> Numbers(disk.work), clock |-> disk.next]

\* The plane with its file is an append-only log of events that have numbers of
\* their own, and a crash takes it back to the copy saved last.
ImplementsAuditLog == Log!Spec
==============================================================================
