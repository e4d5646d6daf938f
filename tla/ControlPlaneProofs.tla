------------------------- MODULE ControlPlaneProofs -------------------------
(***************************************************************************)
(* Proofs about ControlPlane, for every set of workspaces, capabilities    *)
(* and artifacts and every limit: its types; that it implements AuditLog,  *)
(* and what follows for the numbers of its audit; that its audit           *)
(* vindicates every access and explains the state, artifacts included.     *)
(***************************************************************************)
EXTENDS ControlPlane, SequenceTheorems, TLAPS

USE PlaneAssumption DEF PlaneAssumption

Kinds == {"WorkspaceCreated", "ArtifactCreated", "ArtifactVersionCreated",
          "CapabilityGranted", "CapabilityRevoked", "ResourceObserved", "AccessDenied"}

\* A call that audits workspace k: it takes a number, puts a record with one more
\* event in its place, and leaves the file alone.
Calls(k) ==
    /\ next < MaxSequence
    /\ next' = next + 1
    /\ disk' = disk
    /\ workspaces' \subseteq Keys
    /\ runtimes' \subseteq Keys
    /\ \E w \in Records, e \in Events :
         /\ w.audit = work[k].audit
         /\ e.sequence = next + 1
         /\ work' = [work EXCEPT ![k] = [w EXCEPT !.audit = Append(@, e)]]

\* With the types: who has no workspace yet has the record of a new one.
PlaneInv ==
    /\ TypeOK
    /\ \A k \in Keys \ workspaces : work[k] = Fresh
    /\ \A k \in Keys \ disk.workspaces : disk.work[k] = Fresh

----------------------------------------------------------------------------
\* The stores of a workspace keep their types.
LEMMA EmptyStoreType == Store!Empty \in Store!Stores
BY DEF Store!Empty, Store!Stores

LEMMA FreshType == Fresh \in Records /\ Fresh.audit = <<>>
BY EmptyStoreType DEF Fresh, Records

LEMMA ArtifactType ==
    ASSUME NEW s \in Store!Stores, NEW a \in ArtIds
    PROVE  Store!WithArtifact(s, a) \in Store!Stores
<1> DEFINE Artifact == [current : VerIds \cup {Nil}, versions : Seq(VerIds)]
           b == [s.artifacts EXCEPT ![a] = Store!NewArtifact]
<1>1. Store!NewArtifact \in Artifact
    BY DEF Store!NewArtifact
<1>2. b \in [ArtIds -> Artifact \cup {Nil}]
    BY <1>1 DEF Store!Stores
<1>3. Store!WithArtifact(s, a) = [s EXCEPT !.artifacts = b]
    BY DEF Store!WithArtifact, Store!Stores
<1> HIDE DEF b
<1> QED
    BY <1>2, <1>3 DEF Store!Stores

LEMMA VersionType ==
    ASSUME NEW s \in Store!Stores, NEW r \in Store!Requests(VerIds \cup {Nil}, Inputs),
           Store!CanCreateVersion(s, r)
    PROVE  Store!WithVersion(s, r) \in Store!Stores
<1> DEFINE made == [artifact |-> r.artifact, parent |-> r.parent,
                    inputs |-> r.inputs, sequence |-> s.next + 1]
           old == s.artifacts[r.artifact]
           new == [current |-> r.id, versions |-> Append(old.versions, r.id)]
<1>1. r.id \in VerIds /\ r.artifact \in ArtIds /\ r.parent \in VerIds \cup {Nil}
      /\ r.inputs \in Seq(VerIds)
    BY DEF Store!Requests
<1>2. s.next + 1 \in 0..MaxVersion /\ s.next + 1 \in 1..MaxVersion
    BY DEF Store!CanCreateVersion, Store!Stores
<1>3. old \in [current : VerIds \cup {Nil}, versions : Seq(VerIds)]
    BY <1>1 DEF Store!CanCreateVersion, Store!Stores
<1>4. new \in [current : VerIds \cup {Nil}, versions : Seq(VerIds)]
    BY <1>1, <1>3
<1>5. made \in [artifact : ArtIds, parent : VerIds \cup {Nil}, inputs : Seq(VerIds),
                sequence : 1..MaxVersion]
    BY <1>1, <1>2
<1> DEFINE artifacts == [s.artifacts EXCEPT ![r.artifact] = new]
           versions == [s.versions EXCEPT ![r.id] = made]
<1>6. artifacts \in [ArtIds -> [current : VerIds \cup {Nil}, versions : Seq(VerIds)] \cup {Nil}]
    BY <1>1, <1>4 DEF Store!Stores
<1>7. versions \in [VerIds -> [artifact : ArtIds, parent : VerIds \cup {Nil},
                               inputs : Seq(VerIds), sequence : 1..MaxVersion] \cup {Nil}]
    BY <1>1, <1>5 DEF Store!Stores
<1>8. Store!WithVersion(s, r) =
        [s EXCEPT !.next = s.next + 1, !.versions = versions, !.artifacts = artifacts]
    BY DEF Store!WithVersion, Store!Stores
<1> HIDE DEF artifacts, versions
<1> QED
    BY <1>2, <1>6, <1>7, <1>8 DEF Store!Stores
----------------------------------------------------------------------------
\* The event of a call that may still take a number.
LEMMA EventType ==
    ASSUME next \in 0..MaxSequence, next < MaxSequence, NEW kind \in Kinds,
           NEW what \in CapIds \cup ArtIds \cup VerIds \cup {Nil},
           NEW detail \in Grants \cup Attempts \cup ArtIds \cup {Nil}
    PROVE  /\ Event(NextSequence, kind, what, detail) \in Events
           /\ Event(NextSequence, kind, what, detail).sequence = next + 1
BY DEF Event, NextSequence, Events, Kinds

\* Every numbered call that is not refused is one of Calls, whatever it does.
LEMMA CallsAre ==
    ASSUME TypeOK, NEW k \in Keys,
           \/ CreateWorkspace(k)
           \/ \E a \in ArtIds : CreateArtifact(k, a)
           \/ \E r \in Store!Requests(VerIds \cup {Nil}, Inputs) : AppendArtifactVersion(k, r)
           \/ \E c \in CapIds :
                \/ \E g \in Grants : GrantCapability(k, c, g)
                \/ RevokeCapability(k, c)
                \/ \E t \in Attempts : Observe(k, c, t) \/ Deny(k, c, t),
           k \in workspaces \/ work[k] = Fresh
    PROVE  Calls(k)
<1>0. next \in 0..MaxSequence /\ work \in [Keys -> Records] /\ work[k] \in Records
      /\ workspaces \subseteq Keys /\ runtimes \subseteq Keys
    BY DEF TypeOK
<1>1. ASSUME NEW w \in Records, NEW kind \in Kinds,
             NEW what \in CapIds \cup ArtIds \cup VerIds \cup {Nil},
             NEW detail \in Grants \cup Attempts \cup ArtIds \cup {Nil},
             w.audit = work[k].audit, Take, Record(k, Audited(w, kind, what, detail))
      PROVE  Calls(k)
    <2> DEFINE e == Event(NextSequence, kind, what, detail)
    <2>1. e \in Events /\ e.sequence = next + 1
        BY <1>0, <1>1, EventType DEF Take
    <2>2. Audited(w, kind, what, detail) = [w EXCEPT !.audit = Append(@, e)]
        BY DEF Audited
    <2> HIDE DEF e
    <2> QED
        BY <1>0, <1>1, <2>1, <2>2 DEF Calls, Take, Record
<1>2. CASE CreateWorkspace(k)
    <2>1. work[k] = Fresh
        BY <1>2 DEF CreateWorkspace
    <2>2. "WorkspaceCreated" \in Kinds
        BY DEF Kinds
    <2> DEFINE e == Event(NextSequence, "WorkspaceCreated", Nil, Nil)
    <2>3. e \in Events /\ e.sequence = next + 1
        BY <1>0, <1>2, <2>2, EventType DEF CreateWorkspace, Take
    <2>4. work' = [work EXCEPT ![k] = [Fresh EXCEPT !.audit = Append(@, e)]]
        BY <1>2 DEF CreateWorkspace, Audited
    <2>5. /\ next < MaxSequence /\ next' = next + 1 /\ disk' = disk
          /\ workspaces' \subseteq Keys /\ runtimes' \subseteq Keys
        BY <1>0, <1>2 DEF CreateWorkspace, Take
    <2> HIDE DEF e
    <2> QED
        BY <2>1, <2>3, <2>4, <2>5, FreshType DEF Calls
<1>3. ASSUME NEW a \in ArtIds, CreateArtifact(k, a) PROVE Calls(k)
    <2> DEFINE w == [work[k] EXCEPT !.artifacts = Store!WithArtifact(work[k].artifacts, a)]
    <2>1. w \in Records /\ w.audit = work[k].audit
        BY <1>0, ArtifactType DEF Records
    <2>2. "ArtifactCreated" \in Kinds
        BY DEF Kinds
    <2>3. Take /\ Record(k, Audited(w, "ArtifactCreated", a, Nil))
        BY <1>3 DEF CreateArtifact
    <2> HIDE DEF w
    <2> QED
        BY <1>1, <2>1, <2>2, <2>3
<1>4. ASSUME NEW r \in Store!Requests(VerIds \cup {Nil}, Inputs), AppendArtifactVersion(k, r)
      PROVE  Calls(k)
    <2> DEFINE w == [work[k] EXCEPT !.artifacts = Store!WithVersion(work[k].artifacts, r)]
    <2>1. Store!CanCreateVersion(work[k].artifacts, r)
        BY <1>4 DEF AppendArtifactVersion
    <2>2. work[k].artifacts \in Store!Stores
        BY <1>0 DEF Records
    <2>3. Store!WithVersion(work[k].artifacts, r) \in Store!Stores
        BY <2>1, <2>2, VersionType
    <2>4. w \in Records /\ w.audit = work[k].audit
        BY <1>0, <2>3 DEF Records
    <2>5. "ArtifactVersionCreated" \in Kinds
        BY DEF Kinds
    <2>6. Take /\ Record(k, Audited(w, "ArtifactVersionCreated", r.id, r.artifact))
        BY <1>4 DEF AppendArtifactVersion
    <2>7. r.id \in VerIds /\ r.artifact \in ArtIds
        BY DEF Store!Requests
    <2> HIDE DEF w
    <2> QED
        BY <1>1, <2>4, <2>5, <2>6, <2>7
<1>5. ASSUME NEW c \in CapIds, NEW g \in Grants, GrantCapability(k, c, g) PROVE Calls(k)
    <2> DEFINE w == [work[k] EXCEPT !.capabilities[c] = g]
    <2>1. w \in Records /\ w.audit = work[k].audit
        BY <1>0 DEF Records
    <2>2. "CapabilityGranted" \in Kinds
        BY DEF Kinds
    <2>3. Take /\ Record(k, Audited(w, "CapabilityGranted", c, g))
        BY <1>5 DEF GrantCapability
    <2> HIDE DEF w
    <2> QED
        BY <1>1, <2>1, <2>2, <2>3
<1>6. ASSUME NEW c \in CapIds, RevokeCapability(k, c) PROVE Calls(k)
    <2>1. Revoked(work[k], c) \in Records /\ Revoked(work[k], c).audit = work[k].audit
        BY <1>0 DEF Records, Revoked
    <2>2. "CapabilityRevoked" \in Kinds
        BY DEF Kinds
    <2>3. Take /\ Record(k, Audited(Revoked(work[k], c), "CapabilityRevoked", c, Nil))
        BY <1>6 DEF RevokeCapability
    <2> QED
        BY <1>1, <2>1, <2>2, <2>3
<1>7. ASSUME NEW c \in CapIds, NEW t \in Attempts, Observe(k, c, t) PROVE Calls(k)
    <2> DEFINE Made == [sequence : 1..MaxSequence, capability : CapIds, of : Attempts]
               o == [sequence |-> NextSequence, capability |-> c, of |-> t]
               w == [work[k] EXCEPT !.observations = Append(@, o)]
    <2>1. Take /\ Record(k, Audited(w, "ResourceObserved", c, t))
        BY <1>7 DEF Observe
    <2>2. o \in Made
        BY <1>0, <1>7 DEF Observe, Take, NextSequence
    <2>3. work[k].observations \in Seq(Made)
        BY <1>0 DEF Records
    <2>4. Append(work[k].observations, o) \in Seq(Made)
        <3> HIDE DEF Made, o
        <3> QED
            BY <2>2, <2>3
    <2>5. w \in Records /\ w.audit = work[k].audit
        BY <1>0, <2>4 DEF Records
    <2>6. "ResourceObserved" \in Kinds
        BY DEF Kinds
    <2> HIDE DEF w
    <2> QED
        BY <1>1, <2>1, <2>5, <2>6
<1>8. ASSUME NEW c \in CapIds, NEW t \in Attempts, Deny(k, c, t) PROVE Calls(k)
    <2>1. "AccessDenied" \in Kinds
        BY DEF Kinds
    <2>2. Take /\ Record(k, Audited(work[k], "AccessDenied", c, t))
        BY <1>8 DEF Deny
    <2> QED
        BY <1>0, <1>1, <2>1, <2>2
<1> QED
    BY <1>2, <1>3, <1>4, <1>5, <1>6, <1>7, <1>8

----------------------------------------------------------------------------
\* What Calls makes of the types and of the log.
LEMMA CallsEnter ==
    ASSUME TypeOK, NEW k \in Keys, Calls(k)
    PROVE  TypeOK' /\ Log!Enter(k)
<1>1. PICK w \in Records, e \in Events :
        /\ w.audit = work[k].audit
        /\ e.sequence = next + 1
        /\ work' = [work EXCEPT ![k] = [w EXCEPT !.audit = Append(@, e)]]
    BY DEF Calls
<1> DEFINE a == work[k].audit
           v == [w EXCEPT !.audit = Append(a, e)]
<1>2. a \in Seq(Events) /\ work \in [Keys -> Records]
    BY DEF TypeOK, Records
<1>3. Append(a, e) \in Seq(Events)
    BY <1>2
<1>4. v \in Records /\ v.audit = Append(a, e)
    BY <1>3 DEF Records
<1>5. work' = [work EXCEPT ![k] = v]
    BY <1>1
<1>6. work' \in [Keys -> Records] /\ work'[k].audit = Append(a, e)
      /\ \A h \in Keys \ {k} : work'[h] = work[h]
    BY <1>2, <1>4, <1>5
<1>7. TypeOK'
    BY <1>6 DEF TypeOK, Calls
<1> DEFINE num(s) == [i \in DOMAIN s |-> s[i].sequence]
<1>8. num(Append(a, e)) = Append(num(a), next + 1)
    <2> DEFINE S == 1..MaxSequence
               b == Append(a, e)
    <2>1. e.sequence \in S /\ \A f \in Events : f.sequence \in S
        BY DEF Events
    <2>2. /\ DOMAIN a = 1..Len(a) /\ Len(a) \in Nat
          /\ \A i \in 1..Len(a) : a[i] \in Events
        BY <1>2
    <2>3. /\ DOMAIN b = 1..(Len(a) + 1)
          /\ \A i \in 1..(Len(a) + 1) : b[i] = IF i = Len(a) + 1 THEN e ELSE a[i]
        BY <1>2
    <2>4. num(a) = [i \in 1..Len(a) |-> a[i].sequence]
        BY <2>2
    <2>5. num(a) \in Seq(S) /\ Len(num(a)) = Len(a)
        BY <2>1, <2>2, <2>4
    <2>6. num(b) = [i \in 1..(Len(a) + 1) |-> b[i].sequence]
        BY <2>3
    <2>7. num(b) \in Seq(S) /\ Len(num(b)) = Len(a) + 1
        BY <2>1, <2>2, <2>3, <2>6
    <2>8. \A i \in 1..(Len(a) + 1) : num(b)[i] = IF i = Len(a) + 1 THEN next + 1 ELSE num(a)[i]
        BY <1>1, <2>2, <2>3, <2>4, <2>6
    <2>9. next + 1 \in S
        BY <1>1, <2>1
    <2> HIDE DEF num, S, b
    <2>10. /\ Append(num(a), next + 1) \in Seq(S)
           /\ Len(Append(num(a), next + 1)) = Len(a) + 1
           /\ \A i \in 1..(Len(a) + 1) :
                 Append(num(a), next + 1)[i] = IF i = Len(a) + 1 THEN next + 1 ELSE num(a)[i]
        BY <2>2, <2>5, <2>9
    <2>11. num(b) = Append(num(a), next + 1)
        <3> DEFINE x == num(b)
                   y == Append(num(a), next + 1)
        <3>1. x \in Seq(S) /\ y \in Seq(S) /\ Len(x) = Len(y) /\ Len(x) = Len(a) + 1
            BY <2>7, <2>10
        <3>2. \A i \in 1..Len(x) : x[i] = y[i]
            BY <2>7, <2>8, <2>10
        <3> HIDE DEF x, y
        <3>3. x = y
            BY <3>1, <3>2, SeqEqual, ZenonT(30)
        <3> QED
            BY <3>3 DEF x, y
    <2> QED
        BY <2>11 DEF b
<1>9. /\ \A h \in Keys : Numbers(work)[h] = num(work[h].audit)
      /\ \A h \in Keys : Numbers(work')[h] = num(work'[h].audit)
    BY DEF Numbers
<1> HIDE DEF num
<1>10. Numbers(work') = [Numbers(work) EXCEPT ![k] = Append(@, next + 1)]
    <2>1. Numbers(work')[k] = Append(Numbers(work)[k], next + 1)
        BY <1>6, <1>8, <1>9
    <2>2. \A h \in Keys \ {k} : Numbers(work')[h] = Numbers(work)[h]
        BY <1>6, <1>9
    <2>3. DOMAIN Numbers(work') = Keys /\ DOMAIN Numbers(work) = Keys
        BY DEF Numbers
    <2>4. Numbers(work') = [h \in Keys |-> Numbers(work')[h]]
        BY DEF Numbers
    <2>5. [Numbers(work) EXCEPT ![k] = Append(@, next + 1)]
            = [h \in Keys |-> IF h = k THEN Append(Numbers(work)[k], next + 1) ELSE Numbers(work)[h]]
        BY <2>3
    <2> QED
        BY <2>1, <2>2, <2>4, <2>5
<1> QED
    BY <1>7, <1>10 DEF Calls, Log!Enter

\* Before the first call everything is as AuditLog begins.
LEMMA PlaneStarts == Init => PlaneInv /\ Log!Init
<1> SUFFICES ASSUME Init PROVE PlaneInv /\ Log!Init
    OBVIOUS
<1>1. PlaneInv
    BY FreshType DEF Init, Snapshot, PlaneInv, TypeOK
<1>2. Numbers(work) = [k \in Keys |-> <<>>]
    BY FreshType DEF Init, Numbers
<1> QED
    BY <1>1, <1>2 DEF Init, Snapshot, Log!Init, Log!Copy

\* Every step keeps the invariant, and is a step of AuditLog or changes nothing of it.
LEMMA PlaneSteps == PlaneInv /\ [Next]_vars => PlaneInv' /\ [Log!Next]_(Log!vars)
<1> SUFFICES ASSUME PlaneInv, [Next]_vars PROVE PlaneInv' /\ [Log!Next]_(Log!vars)
    OBVIOUS
<1>0. TypeOK
    BY DEF PlaneInv
<1> DEFINE CallOn(k) ==
        \/ CreateWorkspace(k)
        \/ \E a \in ArtIds : CreateArtifact(k, a)
        \/ \E r \in Store!Requests(VerIds \cup {Nil}, Inputs) : AppendArtifactVersion(k, r)
        \/ \E c \in CapIds :
             \/ \E g \in Grants : GrantCapability(k, c, g)
             \/ RevokeCapability(k, c)
             \/ \E t \in Attempts : Observe(k, c, t) \/ Deny(k, c, t)
<1>1. ASSUME NEW k \in Keys, CallOn(k) PROVE PlaneInv' /\ Log!Enter(k)
    <2>1. Calls(k)
        BY <1>0, <1>1, CallsAre DEF PlaneInv
    <2>2. TypeOK' /\ Log!Enter(k)
        BY <1>0, <2>1, CallsEnter
    <2>3. k \in workspaces' /\ workspaces \subseteq workspaces'
        BY <1>1 DEF CreateWorkspace, CreateArtifact, AppendArtifactVersion, GrantCapability,
                    RevokeCapability, Observe, Deny, Record, Active
    <2>4. \A h \in Keys \ {k} : work'[h] = work[h]
        BY <1>0, <2>1 DEF Calls, TypeOK
    <2> QED
        BY <2>1, <2>2, <2>3, <2>4 DEF PlaneInv, Calls
<1>2. CASE Refuse
    BY <1>0, <1>2 DEF Refuse, Take, PlaneInv, TypeOK, Log!Next, Log!Waste
<1>3. CASE Save
    BY <1>0, <1>3 DEF Save, Snapshot, PlaneInv, TypeOK, Log!Next, Log!Save, Log!Copy
<1>4. ASSUME NEW suspended \in SUBSET disk.workspaces, Load(suspended)
      PROVE  PlaneInv' /\ Log!Crash
    <2> DEFINE awake == [k \in Keys |-> [disk.work[k] EXCEPT !.active = @ /\ k \notin suspended]]
    <2>1. \A k \in Keys : disk.work[k] \in Records
        BY <1>0 DEF TypeOK
    <2>2. \A k \in Keys : awake[k] \in Records /\ awake[k].audit = disk.work[k].audit
                           /\ (k \notin suspended => awake[k] = disk.work[k])
        BY <2>1 DEF Records
    <2>3. awake \in [Keys -> Records]
        BY <2>2
    <2>4. /\ workspaces' = disk.workspaces /\ runtimes' = disk.workspaces
          /\ work' = awake /\ next' = disk.next /\ disk' = disk
        <3>1. disk = [next |-> disk.next, workspaces |-> disk.workspaces, work |-> disk.work]
            BY <1>0 DEF TypeOK
        <3>2. [disk EXCEPT !.work = awake].work = awake
            BY <3>1
        <3>3. Restore([disk EXCEPT !.work = awake]) /\ disk' = disk
            BY <1>0, <1>4 DEF Load, TypeOK
        <3> HIDE DEF awake
        <3> QED
            BY <3>1, <3>2, <3>3 DEF Restore
    <2>5. Numbers(awake) = Numbers(disk.work)
        BY <2>2 DEF Numbers
    <2> HIDE DEF awake
    <2>6. TypeOK'
        BY <1>0, <2>3, <2>4 DEF TypeOK
    <2>7. PlaneInv'
        BY <2>2, <2>4, <2>6 DEF PlaneInv
    <2>8. Log!Crash
        BY <2>4, <2>5 DEF Log!Crash
    <2> QED
        BY <2>7, <2>8
<1>5. CASE UNCHANGED vars
    <2>1. workspaces' = workspaces /\ work' = work /\ runtimes' = runtimes
          /\ next' = next /\ disk' = disk
        BY <1>5 DEF vars
    <2>2. PlaneInv'
        BY <1>0, <2>1 DEF PlaneInv, TypeOK
    <2> QED
        BY <2>1, <2>2 DEF Log!vars
<1>6. CASE Next
    <2>1. \/ \E k \in Keys : CallOn(k)
          \/ Refuse \/ Save \/ \E suspended \in SUBSET disk.workspaces : Load(suspended)
        BY <1>6 DEF Next
    <2> HIDE DEF CallOn
    <2> QED
        BY <1>1, <1>2, <1>3, <1>4, <2>1 DEF Log!Next
<1> QED
    BY <1>5, <1>6

\* The plane, its records and its file keep their types, for every limit.
THEOREM PlaneTypes == Spec => []TypeOK
<1>1. PlaneInv => TypeOK
    BY DEF PlaneInv
<1> QED
    BY PlaneStarts, PlaneSteps, <1>1, PTL DEF Spec

\* The control plane with its file implements the append-only log of AuditLog, whose
\* numbers never stand for two entries: whatever is granted, refused, saved and lost.
THEOREM PlaneImplementsLog == Spec => ImplementsAuditLog
BY PlaneStarts, PlaneSteps, PTL DEF Spec, ImplementsAuditLog, Log!Spec
----------------------------------------------------------------------------
(* What one more entry does to the audit of a record.  These lemmas are    *)
(* about any two records of which one has one entry more.                  *)

\* The artifacts of a record agree with its audit, also those that are not there, and no
\* version is numbered beyond the store's counter.
ArtifactsSound(w) ==
    /\ ArtifactsKept(w)
    /\ Store!LineageSound(w.artifacts)
    /\ \A a \in ArtIds : w.artifacts.artifacts[a] = Nil => VersionsOf(w, a) = {}
    /\ \A v \in VerIds : v \in Store!Made(w.artifacts) <=> About(w, "ArtifactVersionCreated", v) # {}
    /\ \A v \in Store!Made(w.artifacts) : w.artifacts.versions[v].sequence <= w.artifacts.next

\* What is known of a record besides Begun, which a new record does not have yet:
\* clock is the last number taken.
Kept(w, clock) ==
    /\ Vindicated(w)
    /\ GrantsKept(w)
    /\ ObservationsKept(w)
    /\ ArtifactsSound(w)
    /\ \A i \in 1..Len(w.observations) : w.observations[i].sequence <= clock

\* The entries of an audit with one more.
LEMMA AuditGrows ==
    ASSUME NEW w \in Records, NEW v \in Records, NEW e \in Events, v.audit = Append(w.audit, e)
    PROVE  /\ Len(w.audit) \in Nat /\ Len(v.audit) = Len(w.audit) + 1
           /\ v.audit[Len(w.audit) + 1] = e
           /\ \A n \in 1..Len(w.audit) : v.audit[n] = w.audit[n] /\ w.audit[n] \in Events
<1>1. w.audit \in Seq(Events)
    BY DEF Records
<1> DEFINE a == w.audit
<1> HIDE DEF a
<1>2. a \in Seq(Events) /\ v.audit = Append(a, e)
    BY <1>1 DEF a
<1>3. /\ Len(a) \in Nat /\ Len(v.audit) = Len(a) + 1
      /\ v.audit[Len(a) + 1] = e
      /\ \A n \in 1..Len(a) : v.audit[n] = a[n] /\ a[n] \in Events
    BY <1>2
<1> QED
    BY <1>3 DEF a

LEMMA EntriesGrow ==
    ASSUME NEW w \in Records, NEW v \in Records, NEW e \in Events, v.audit = Append(w.audit, e),
           NEW kind
    PROVE  /\ Entries(w, kind) \subseteq 1..Len(w.audit)
           /\ Entries(v, kind) = IF e.kind = kind THEN Entries(w, kind) \cup {Len(w.audit) + 1}
                                                  ELSE Entries(w, kind)
<1>1. /\ Len(w.audit) \in Nat /\ Len(v.audit) = Len(w.audit) + 1
      /\ v.audit[Len(w.audit) + 1] = e
      /\ \A n \in 1..Len(w.audit) : v.audit[n] = w.audit[n]
    BY AuditGrows
<1>2. 1..Len(v.audit) = 1..Len(w.audit) \cup {Len(w.audit) + 1}
    BY <1>1
<1>3. Len(w.audit) + 1 \notin 1..Len(w.audit)
    BY <1>1
<1> QED
    BY <1>1, <1>2, <1>3 DEF Entries

LEMMA AboutGrows ==
    ASSUME NEW w \in Records, NEW v \in Records, NEW e \in Events, v.audit = Append(w.audit, e),
           NEW kind, NEW what
    PROVE  /\ About(w, kind, what) \subseteq 1..Len(w.audit)
           /\ About(v, kind, what) = IF e.kind = kind /\ e.what = what
                                       THEN About(w, kind, what) \cup {Len(w.audit) + 1}
                                       ELSE About(w, kind, what)
<1>1. /\ Len(w.audit) \in Nat
      /\ v.audit[Len(w.audit) + 1] = e
      /\ \A n \in 1..Len(w.audit) : v.audit[n] = w.audit[n]
    BY AuditGrows
<1>2. /\ Entries(w, kind) \subseteq 1..Len(w.audit)
      /\ Entries(v, kind) = IF e.kind = kind THEN Entries(w, kind) \cup {Len(w.audit) + 1}
                                             ELSE Entries(w, kind)
    BY EntriesGrow
<1> QED
    BY <1>1, <1>2 DEF About

\* The new entry grants or revokes, and leaves the grants of older moments alone.
LEMMA GrantsGrow ==
    ASSUME NEW w \in Records, NEW v \in Records, NEW e \in Events, v.audit = Append(w.audit, e),
           NEW c, NEW g
    PROVE  /\ \A n \in 1..(Len(w.audit) + 1) : GrantedAt(v, n, c, g) <=> GrantedAt(w, n, c, g)
           /\ GrantedAt(v, Len(v.audit) + 1, c, g) <=>
                \/ e.kind = "CapabilityGranted" /\ e.what = c /\ e.detail = g
                \/ /\ GrantedAt(w, Len(w.audit) + 1, c, g)
                   /\ ~(e.kind = "CapabilityRevoked" /\ e.what = c)
<1> DEFINE L == Len(w.audit)
           G == About(w, "CapabilityGranted", c)
           R == About(w, "CapabilityRevoked", c)
           H == About(v, "CapabilityGranted", c)
           S == About(v, "CapabilityRevoked", c)
<1>1. /\ L \in Nat /\ Len(v.audit) = L + 1 /\ v.audit[L + 1] = e
      /\ \A n \in 1..L : v.audit[n] = w.audit[n]
    BY AuditGrows
<1>2. /\ G \subseteq 1..L /\ R \subseteq 1..L
      /\ H = IF e.kind = "CapabilityGranted" /\ e.what = c THEN G \cup {L + 1} ELSE G
      /\ S = IF e.kind = "CapabilityRevoked" /\ e.what = c THEN R \cup {L + 1} ELSE R
    BY AboutGrows
<1>3. \A n : GrantedAt(w, n, c, g) <=>
        \E m \in G : m < n /\ w.audit[m].detail = g /\ \A i \in R : ~(m < i /\ i < n)
    BY DEF GrantedAt
<1>4. \A n : GrantedAt(v, n, c, g) <=>
        \E m \in H : m < n /\ v.audit[m].detail = g /\ \A i \in S : ~(m < i /\ i < n)
    BY DEF GrantedAt
<1> HIDE DEF L, G, R, H, S
<1>5. ASSUME NEW n \in 1..(L + 1) PROVE GrantedAt(v, n, c, g) <=> GrantedAt(w, n, c, g)
    BY <1>1, <1>2, <1>3, <1>4
<1>w. GrantedAt(w, L + 1, c, g) <=> \E m \in G : w.audit[m].detail = g /\ \A i \in R : ~(m < i)
    <2>1. \A m \in 1..L : m \in Int /\ m < L + 1
        BY <1>1
    <2> QED
        BY <1>2, <1>3, <2>1, Zenon
<1>v. GrantedAt(v, L + 2, c, g) <=> \E m \in H : v.audit[m].detail = g /\ \A i \in S : ~(m < i)
    <2>1. \A m \in 1..L : m < L + 2
        BY <1>1
    <2>2. L + 1 < L + 2
        BY <1>1
    <2>3. \A m \in H \cup S : m < L + 2
        BY <1>2, <2>1, <2>2, Zenon
    <2> QED
        BY <1>4, <2>3, Zenon
<1>6. GrantedAt(v, L + 2, c, g) <=>
        \/ e.kind = "CapabilityGranted" /\ e.what = c /\ e.detail = g
        \/ GrantedAt(w, L + 1, c, g) /\ ~(e.kind = "CapabilityRevoked" /\ e.what = c)
    <2>0. /\ \A m \in 1..L : m < L + 1 /\ ~(L + 1 < m) /\ m # L + 1
          /\ ~(L + 1 < L + 1)
        BY <1>1
    <2>1. CASE e.kind = "CapabilityGranted" /\ e.what = c
        <3>1. S = R /\ H = G \cup {L + 1}
            BY <1>2, <2>1
        <3>2. ASSUME e.detail = g PROVE GrantedAt(v, L + 2, c, g)
            BY <1>1, <1>2, <1>v, <2>0, <3>1, <3>2, Zenon
        <3>3. ASSUME e.detail # g PROVE GrantedAt(v, L + 2, c, g) <=> GrantedAt(w, L + 1, c, g)
            BY <1>1, <1>2, <1>v, <1>w, <3>1, <3>3
        <3> QED
            BY <2>1, <3>2, <3>3
    <2>2. CASE e.kind = "CapabilityRevoked" /\ e.what = c
        <3>1. S = R \cup {L + 1} /\ H = G
            BY <1>2, <2>2
        <3>2. ~GrantedAt(v, L + 2, c, g)
            BY <1>2, <1>v, <2>0, <3>1
        <3> QED
            BY <2>2, <3>2
    <2>3. CASE ~(e.kind = "CapabilityGranted" /\ e.what = c) /\ ~(e.kind = "CapabilityRevoked" /\ e.what = c)
        <3>1. S = R /\ H = G
            BY <1>2, <2>3
        <3>2. GrantedAt(v, L + 2, c, g) <=> GrantedAt(w, L + 1, c, g)
            BY <1>1, <1>2, <1>v, <1>w, <3>1
        <3> QED
            BY <2>3, <3>2
    <2> QED
        BY <2>1, <2>2, <2>3
<1>7. Len(v.audit) + 1 = L + 2
    BY <1>1
<1> QED
    BY <1>5, <1>6, <1>7 DEF L

\* The new entry is judged by the grants before it, and the older entries as before.
LEMMA VindicatedGrows ==
    ASSUME NEW w \in Records, NEW v \in Records, NEW e \in Events, v.audit = Append(w.audit, e),
           Vindicated(w), GrantsKept(w),
           e.kind \in {"ResourceObserved", "AccessDenied"} => e.what \in CapIds,
           e.kind = "ResourceObserved" =>
             w.capabilities[e.what] # Nil /\ Allows(w.capabilities[e.what], e.detail),
           e.kind = "AccessDenied" =>
             ~(w.capabilities[e.what] # Nil /\ Allows(w.capabilities[e.what], e.detail))
    PROVE  Vindicated(v)
<1> DEFINE L == Len(w.audit)
<1>1. /\ L \in Nat /\ v.audit[L + 1] = e
      /\ \A n \in 1..L : v.audit[n] = w.audit[n]
    BY AuditGrows
<1>2. \A c, g : \A n \in 1..(L + 1) : GrantedAt(v, n, c, g) <=> GrantedAt(w, n, c, g)
    BY GrantsGrow
<1>3. \A n \in 1..L : AllowedAt(v, n) <=> AllowedAt(w, n)
    BY <1>1, <1>2 DEF AllowedAt
<1>4. \A kind : /\ Entries(w, kind) \subseteq 1..L
                /\ Entries(v, kind) = IF e.kind = kind THEN Entries(w, kind) \cup {L + 1}
                                                      ELSE Entries(w, kind)
    BY EntriesGrow
<1>5. AllowedAt(v, L + 1) <=>
        \E g \in Grants : /\ GrantedAt(w, L + 1, e.what, g)
                          /\ e.detail.resource = g.resource
                          /\ e.detail.action \in g.actions
    <2>1. L + 1 \in 1..(L + 1)
        BY <1>1
    <2> QED
        BY <1>1, <1>2, <2>1 DEF AllowedAt
<1>6. w.capabilities \in [CapIds -> Grants \cup {Nil}]
    BY DEF Records
<1>7. e.kind \in {"ResourceObserved", "AccessDenied"} =>
        (AllowedAt(v, L + 1) <=>
            w.capabilities[e.what] # Nil /\ Allows(w.capabilities[e.what], e.detail))
    <2> SUFFICES ASSUME e.kind \in {"ResourceObserved", "AccessDenied"}
                 PROVE  AllowedAt(v, L + 1) <=>
                    w.capabilities[e.what] # Nil /\ Allows(w.capabilities[e.what], e.detail)
        OBVIOUS
    <2>1. \A g \in Grants : w.capabilities[e.what] = g <=> GrantedAt(w, L + 1, e.what, g)
        BY DEF GrantsKept
    <2>2. w.capabilities[e.what] \in Grants \cup {Nil} /\ Nil \notin Grants
        BY <1>6
    <2> QED
        BY <1>5, <2>1, <2>2 DEF Allows
<1> HIDE DEF L
<1>8. \A n \in Entries(v, "ResourceObserved") : AllowedAt(v, n)
    BY <1>3, <1>4, <1>7 DEF Vindicated
<1>9. \A n \in Entries(v, "AccessDenied") : ~AllowedAt(v, n)
    BY <1>3, <1>4, <1>7 DEF Vindicated
<1> QED
    BY <1>8, <1>9 DEF Vindicated

\* Grants and revocations change the open grants as they change the capabilities.
LEMMA GrantsFollow ==
    ASSUME NEW w \in Records, NEW v \in Records, NEW e \in Events, v.audit = Append(w.audit, e),
           GrantsKept(w),
           \A c \in CapIds :
             v.capabilities[c] = IF e.kind = "CapabilityGranted" /\ e.what = c THEN e.detail
                                 ELSE IF e.kind = "CapabilityRevoked" /\ e.what = c THEN Nil
                                 ELSE w.capabilities[c],
           e.kind = "CapabilityGranted" => w.capabilities[e.what] = Nil
    PROVE  GrantsKept(v)
<1> SUFFICES ASSUME NEW c \in CapIds, NEW g \in Grants
             PROVE  v.capabilities[c] = g <=> GrantedAt(v, Len(v.audit) + 1, c, g)
    BY DEF GrantsKept
<1>1. GrantedAt(v, Len(v.audit) + 1, c, g) <=>
        \/ e.kind = "CapabilityGranted" /\ e.what = c /\ e.detail = g
        \/ /\ GrantedAt(w, Len(w.audit) + 1, c, g)
           /\ ~(e.kind = "CapabilityRevoked" /\ e.what = c)
    BY GrantsGrow
<1>2. w.capabilities[c] = g <=> GrantedAt(w, Len(w.audit) + 1, c, g)
    BY DEF GrantsKept
<1>3. g # Nil
    OBVIOUS
<1> QED
    BY <1>1, <1>2, <1>3, Zenon

LEMMA ObservationsFollow ==
    ASSUME NEW w \in Records, NEW v \in Records, NEW e \in Events, v.audit = Append(w.audit, e),
           ObservationsKept(w),
           \A i \in 1..Len(w.observations) : w.observations[i].sequence < e.sequence,
           v.observations =
             IF e.kind = "ResourceObserved"
               THEN Append(w.observations, [sequence |-> e.sequence, capability |-> e.what,
                                            of |-> e.detail])
               ELSE w.observations
    PROVE  /\ ObservationsKept(v)
           /\ \A i \in 1..Len(v.observations) : v.observations[i].sequence <= e.sequence
<1> DEFINE L == Len(w.audit)
           o == w.observations
           p == v.observations
           x == [sequence |-> e.sequence, capability |-> e.what, of |-> e.detail]
           Made == [sequence : 1..MaxSequence, capability : CapIds, of : Attempts]
           Of(r, n) == [sequence |-> r.audit[n].sequence, capability |-> r.audit[n].what,
                        of |-> r.audit[n].detail]
           E == Entries(w, "ResourceObserved")
           F == Entries(v, "ResourceObserved")
<1>1. /\ L \in Nat /\ v.audit[L + 1] = e
      /\ \A n \in 1..L : v.audit[n] = w.audit[n]
    BY AuditGrows
<1>2. /\ E \subseteq 1..L
      /\ F = IF e.kind = "ResourceObserved" THEN E \cup {L + 1} ELSE E
    BY EntriesGrow
<1>3. \A n \in E : Of(v, n) = Of(w, n)
    BY <1>1, <1>2
<1>4. o \in Seq(Made) /\ e.sequence \in Nat /\ x.sequence = e.sequence
    BY DEF Records, Events
<1>5. \A i \in 1..Len(o) : o[i].sequence \in Nat
    <2>1. \A m \in Made : m.sequence \in Nat
        OBVIOUS
    <2> HIDE DEF Made, o
    <2>2. \A i \in 1..Len(o) : o[i] \in Made
        BY <1>4
    <2> QED
        BY <2>1, <2>2
<1>6. /\ {o[i] : i \in 1..Len(o)} = {Of(w, n) : n \in E}
      /\ \A i, j \in 1..Len(o) : i < j => o[i].sequence < o[j].sequence
      /\ \A i \in 1..Len(o) : o[i].sequence < e.sequence
    BY DEF ObservationsKept
<1>7. Of(v, L + 1) = x
    BY <1>1
<1>8. p = IF e.kind = "ResourceObserved" THEN Append(o, x) ELSE o
    OBVIOUS
<1>9. ObservationsKept(v) <=>
        /\ {p[i] : i \in 1..Len(p)} = {Of(v, n) : n \in F}
        /\ \A i, j \in 1..Len(p) : i < j => p[i].sequence < p[j].sequence
    BY DEF ObservationsKept
<1>10. Len(o) \in Nat
    BY <1>4
<1> HIDE DEF L, o, p, x, Made, Of, E, F
<1>11. CASE e.kind = "ResourceObserved"
    <2>1. p = Append(o, x) /\ F = E \cup {L + 1}
        BY <1>2, <1>8, <1>11
    <2>2. /\ Len(p) = Len(o) + 1 /\ p[Len(o) + 1] = x
          /\ \A i \in 1..Len(o) : p[i] = o[i]
        BY <1>4, <2>1
    <2>3. 1..Len(p) = 1..Len(o) \cup {Len(o) + 1}
        BY <1>10, <2>2
    <2>4. {p[i] : i \in 1..Len(p)} = {o[i] : i \in 1..Len(o)} \cup {x}
        BY <2>2, <2>3
    <2>5. {Of(v, n) : n \in F} = {Of(w, n) : n \in E} \cup {x}
        BY <1>3, <1>7, <2>1
    <2>6. ASSUME NEW i \in 1..Len(p), NEW j \in 1..Len(p), i < j
          PROVE  p[i].sequence < p[j].sequence
        <3>1. i \in 1..Len(o) /\ p[i] = o[i]
            BY <1>10, <2>2, <2>6
        <3>2. CASE j \in 1..Len(o)
            BY <1>6, <2>2, <2>6, <3>1, <3>2
        <3>3. CASE j = Len(o) + 1
            BY <1>4, <1>6, <2>2, <3>1, <3>3
        <3> QED
            BY <2>3, <3>2, <3>3
    <2>7. \A i \in 1..Len(p) : p[i].sequence <= e.sequence
        BY <1>4, <1>5, <1>6, <2>2, <2>3
    <2>8. {p[i] : i \in 1..Len(p)} = {Of(v, n) : n \in F}
        BY <1>6, <2>4, <2>5
    <2> QED
        BY <1>9, <2>6, <2>7, <2>8 DEF p
<1>12. CASE e.kind # "ResourceObserved"
    <2>1. p = o /\ F = E
        BY <1>2, <1>8, <1>12
    <2>2. {Of(v, n) : n \in F} = {Of(w, n) : n \in E}
        BY <1>3, <2>1
    <2>3. \A i \in 1..Len(p) : p[i].sequence <= e.sequence
        BY <1>4, <1>5, <1>6, <2>1
    <2> QED
        BY <1>6, <1>9, <2>1, <2>2, <2>3 DEF p
<1> QED
    BY <1>11, <1>12

----------------------------------------------------------------------------
(* The artifacts of a record and what its audit says of them. *)

LEMMA VersionsGrow ==
    ASSUME NEW w \in Records, NEW v \in Records, NEW e \in Events, v.audit = Append(w.audit, e),
           NEW a
    PROVE  /\ VersionsOf(w, a) \subseteq 1..Len(w.audit)
           /\ VersionsOf(v, a) = IF e.kind = "ArtifactVersionCreated" /\ e.detail = a
                                   THEN VersionsOf(w, a) \cup {Len(w.audit) + 1}
                                   ELSE VersionsOf(w, a)
<1>1. /\ Len(w.audit) \in Nat
      /\ v.audit[Len(w.audit) + 1] = e
      /\ \A n \in 1..Len(w.audit) : v.audit[n] = w.audit[n]
    BY AuditGrows
<1>2. \A kind : /\ Entries(w, kind) \subseteq 1..Len(w.audit)
                /\ Entries(v, kind) = IF e.kind = kind THEN Entries(w, kind) \cup {Len(w.audit) + 1}
                                                       ELSE Entries(w, kind)
    BY EntriesGrow
<1> QED
    BY <1>1, <1>2 DEF VersionsOf

\* Entries about something else do not touch the history of an artifact.
LEMMA HistoryStays ==
    ASSUME NEW w, NEW v, NEW a, HistoryKept(w, a),
           Store!History(v.artifacts, a) = Store!History(w.artifacts, a),
           VersionsOf(v, a) = VersionsOf(w, a), VersionsOf(w, a) \subseteq 1..Len(w.audit),
           \A n \in 1..Len(w.audit) : v.audit[n] = w.audit[n]
    PROVE  HistoryKept(v, a)
<1>1. \A n \in VersionsOf(w, a) : v.audit[n] = w.audit[n]
    OBVIOUS
<1>2. {v.audit[n].what : n \in VersionsOf(v, a)} = {w.audit[n].what : n \in VersionsOf(w, a)}
    BY <1>1
<1> QED
    BY <1>1, <1>2 DEF HistoryKept

\* An entry about anything else.
LEMMA ArtifactsStay ==
    ASSUME NEW w \in Records, NEW v \in Records, NEW e \in Events, v.audit = Append(w.audit, e),
           ArtifactsSound(w), v.artifacts = w.artifacts,
           e.kind \notin {"ArtifactCreated", "ArtifactVersionCreated"}
    PROVE  ArtifactsSound(v)
<1>1. \A a : VersionsOf(v, a) = VersionsOf(w, a) /\ VersionsOf(w, a) \subseteq 1..Len(w.audit)
    BY VersionsGrow
<1>2. \A kind, what : kind \in {"ArtifactCreated", "ArtifactVersionCreated"} =>
        About(v, kind, what) = About(w, kind, what)
    BY AboutGrows
<1>3. \A n \in 1..Len(w.audit) : v.audit[n] = w.audit[n]
    BY AuditGrows
<1>4. ASSUME NEW a \in ArtIds, HistoryKept(w, a) PROVE HistoryKept(v, a)
    BY <1>1, <1>3, <1>4, HistoryStays
<1>5. ArtifactsKept(v)
    BY <1>2, <1>4 DEF ArtifactsSound, ArtifactsKept
<1> QED
    BY <1>1, <1>2, <1>5 DEF ArtifactsSound

\* A new artifact has no versions, in the store and in the audit.
LEMMA ArtifactFollows ==
    ASSUME NEW w \in Records, NEW v \in Records, NEW e \in Events, v.audit = Append(w.audit, e),
           ArtifactsSound(w), NEW a \in ArtIds,
           Store!CanCreateArtifact(w.artifacts, a),
           v.artifacts = Store!WithArtifact(w.artifacts, a),
           e.kind = "ArtifactCreated", e.what = a
    PROVE  ArtifactsSound(v)
<1> DEFINE s == w.artifacts
           t == v.artifacts
           Artifact == [current : VerIds \cup {Nil}, versions : Seq(VerIds)]
<1>0. s \in Store!Stores
    BY DEF Records
<1>1. /\ s.artifacts \in [ArtIds -> Artifact \cup {Nil}]
      /\ s.artifacts[a] = Nil
      /\ t.versions = s.versions /\ t.next = s.next
      /\ t.artifacts = [s.artifacts EXCEPT ![a] = Store!NewArtifact]
    BY <1>0 DEF Store!Stores, Store!CanCreateArtifact, Store!WithArtifact
<1>2. /\ t.artifacts[a] = Store!NewArtifact
      /\ \A b \in ArtIds \ {a} : t.artifacts[b] = s.artifacts[b]
    BY <1>1
<1>3. /\ Store!NewArtifact # Nil /\ Store!NewArtifact.current = Nil
      /\ Store!History(t, a) = <<>>
    <2>1. Store!NewArtifact \in Artifact
        BY DEF Store!NewArtifact
    <2>2. Nil \notin Artifact
        OBVIOUS
    <2>3. Store!NewArtifact # Nil
        BY <2>1, <2>2, Zenon
    <2> QED
        BY <1>2, <2>3 DEF Store!NewArtifact, Store!History
<1>4. \A b \in ArtIds \ {a} : Store!History(t, b) = Store!History(s, b)
    BY <1>2 DEF Store!History
<1>5. Store!Made(t) = Store!Made(s)
    BY <1>1 DEF Store!Made
<1>6. /\ \A b : VersionsOf(v, b) = VersionsOf(w, b) /\ VersionsOf(w, b) \subseteq 1..Len(w.audit)
      /\ \A x : About(v, "ArtifactVersionCreated", x) = About(w, "ArtifactVersionCreated", x)
    BY VersionsGrow, AboutGrows
<1>7. /\ \A b \in ArtIds \ {a} : About(v, "ArtifactCreated", b) = About(w, "ArtifactCreated", b)
      /\ About(v, "ArtifactCreated", a) # {}
    BY AboutGrows
<1>8. \A n \in 1..Len(w.audit) : v.audit[n] = w.audit[n]
    BY AuditGrows
<1>9. /\ Store!LineageSound(s) /\ ArtifactsKept(w)
      /\ \A b \in ArtIds : s.artifacts[b] = Nil => VersionsOf(w, b) = {}
      /\ \A x \in VerIds : x \in Store!Made(s) <=> About(w, "ArtifactVersionCreated", x) # {}
      /\ \A x \in Store!Made(s) : s.versions[x].sequence <= s.next
    BY DEF ArtifactsSound
<1>10. \A b \in ArtIds :
         /\ s.artifacts[b] # Nil <=> About(w, "ArtifactCreated", b) # {}
         /\ s.artifacts[b] # Nil => HistoryKept(w, b)
    BY <1>9 DEF ArtifactsKept
<1> HIDE DEF s, t
<1>11. Store!LineageSound(t)
    <2>1. ASSUME NEW b \in ArtIds, t.artifacts[b] # Nil PROVE Store!HistorySound(t, b)
        <3>1. CASE b = a
            BY <1>2, <1>3, <3>1 DEF Store!HistorySound
        <3>2. CASE b # a
            BY <1>1, <1>2, <1>4, <1>5, <1>9, <2>1, <3>2 DEF Store!LineageSound, Store!HistorySound
        <3> QED
            BY <3>1, <3>2
    <2>2. ASSUME NEW x \in Store!Made(t) PROVE Store!OriginSound(t, x)
        <3>1. x \in Store!Made(s) /\ Store!OriginSound(s, x)
            BY <1>5, <1>9, <2>2 DEF Store!LineageSound
        <3>2. s.artifacts[s.versions[x].artifact] # Nil
            BY <3>1 DEF Store!OriginSound
        <3>3. s.versions[x].artifact \in ArtIds \ {a}
            BY <1>0, <1>1, <3>1, <3>2 DEF Store!Made, Store!Stores
        <3> QED
            BY <1>1, <1>2, <1>4, <1>5, <3>1, <3>3 DEF Store!OriginSound
    <2> QED
        BY <2>1, <2>2 DEF Store!LineageSound
<1>12. ASSUME NEW b \in ArtIds
       PROVE  /\ t.artifacts[b] # Nil <=> About(v, "ArtifactCreated", b) # {}
              /\ t.artifacts[b] # Nil => HistoryKept(v, b)
              /\ t.artifacts[b] = Nil => VersionsOf(v, b) = {}
    <2>1. CASE b = a
        <3>1. VersionsOf(v, b) = {}
            BY <1>1, <1>6, <1>9, <2>1
        <3>2. HistoryKept(v, b)
            BY <1>3, <2>1, <3>1 DEF HistoryKept, t
        <3> QED
            BY <1>2, <1>3, <1>7, <2>1, <3>1, <3>2
    <2>2. CASE b # a
        <3>1. Store!History(w.artifacts, b) = Store!History(v.artifacts, b)
            BY <1>4, <2>2 DEF s, t
        <3>2. HistoryKept(w, b) => HistoryKept(v, b)
            BY <1>6, <1>8, <3>1, HistoryStays
        <3> QED
            BY <1>2, <1>6, <1>7, <1>9, <1>10, <2>2, <3>2
    <2> QED
        BY <2>1, <2>2
<1>13. ArtifactsKept(v)
    BY <1>12 DEF ArtifactsKept, t
<1> QED
    BY <1>1, <1>5, <1>6, <1>9, <1>11, <1>12, <1>13 DEF ArtifactsSound, t

\* A new version is the newest of its artifact, in the store and in the audit.
LEMMA VersionFollows ==
    ASSUME NEW w \in Records, NEW v \in Records, NEW e \in Events, v.audit = Append(w.audit, e),
           ArtifactsSound(w), NEW r \in Store!Requests(VerIds \cup {Nil}, Inputs),
           Store!CanCreateVersion(w.artifacts, r),
           v.artifacts = Store!WithVersion(w.artifacts, r),
           e.kind = "ArtifactVersionCreated", e.what = r.id, e.detail = r.artifact
    PROVE  ArtifactsSound(v)
<1> DEFINE s == w.artifacts
           t == v.artifacts
           a == r.artifact
           L == Len(w.audit)
           Artifact == [current : VerIds \cup {Nil}, versions : Seq(VerIds)]
           Version == [artifact : ArtIds, parent : VerIds \cup {Nil}, inputs : Seq(VerIds),
                       sequence : 1..MaxVersion]
           made == [artifact |-> a, parent |-> r.parent, inputs |-> r.inputs,
                    sequence |-> s.next + 1]
           artifact == [current |-> r.id, versions |-> Append(s.artifacts[a].versions, r.id)]
<1>0. s \in Store!Stores
    BY DEF Records
<1>1. /\ r.id \in VerIds /\ a \in ArtIds /\ r.parent \in VerIds \cup {Nil}
      /\ r.inputs \in Seq(VerIds)
    BY DEF Store!Requests
<1>2. /\ s.artifacts \in [ArtIds -> Artifact \cup {Nil}]
      /\ s.versions \in [VerIds -> Version \cup {Nil}]
      /\ s.next \in Nat /\ s.next + 1 \in 1..MaxVersion
    BY <1>0 DEF Store!Stores, Store!CanCreateVersion
<1>3. /\ s.versions[r.id] = Nil /\ s.artifacts[a] # Nil
      /\ Store!ParentFits(s, r) /\ Store!InputsFit(s, r)
    BY DEF Store!CanCreateVersion
<1>4. /\ t.next = s.next + 1
      /\ t.versions = [s.versions EXCEPT ![r.id] = made]
      /\ t.artifacts = [s.artifacts EXCEPT ![a] = artifact]
    BY <1>0 DEF Store!Stores, Store!WithVersion
<1>5. /\ s.artifacts[a] \in Artifact /\ s.artifacts[a].versions \in Seq(VerIds)
    BY <1>1, <1>2, <1>3
<1>6. made \in Version /\ made # Nil
    <2>1. made \in Version
        BY <1>1, <1>2
    <2>2. made \in [artifact : ArtIds, parent : VerIds \cup {Nil}, inputs : Seq(VerIds),
                    sequence : Nat]
        BY <1>1, <1>2
    <2>3. made # Nil
        BY <2>2, Zenon
    <2> QED
        BY <2>1, <2>3
<1>7. artifact \in Artifact /\ artifact # Nil
    <2>1. artifact \in Artifact
        BY <1>1, <1>5
    <2>2. Nil \notin Artifact
        OBVIOUS
    <2>3. artifact # Nil
        BY <2>1, <2>2, Zenon
    <2> QED
        BY <2>1, <2>3
<1> DEFINE H == Store!History(s, a)
           K == Len(H)
<1>8. /\ t.versions[r.id] = made /\ made.artifact = a /\ made.parent = r.parent
      /\ made.inputs = r.inputs /\ made.sequence = s.next + 1
      /\ \A x \in VerIds \ {r.id} : t.versions[x] = s.versions[x]
    BY <1>1, <1>2, <1>4
<1>9. /\ t.artifacts[a] = artifact /\ artifact.current = r.id
      /\ artifact.versions = Append(H, r.id) /\ H \in Seq(VerIds)
      /\ \A b \in ArtIds \ {a} : t.artifacts[b] = s.artifacts[b]
    BY <1>1, <1>2, <1>4, <1>5 DEF Store!History
<1>10. /\ Store!History(t, a) = Append(H, r.id)
       /\ \A b \in ArtIds \ {a} : Store!History(t, b) = Store!History(s, b)
    BY <1>9 DEF Store!History
<1>11. /\ Store!Made(t) = Store!Made(s) \cup {r.id} /\ r.id \notin Store!Made(s)
       /\ Store!Made(s) \subseteq VerIds
    <2> HIDE DEF made, s, t
    <2>1. \A x \in VerIds : x \in Store!Made(t) <=> x \in Store!Made(s) \/ x = r.id
        BY <1>3, <1>6, <1>8 DEF Store!Made
    <2> QED
        BY <1>1, <1>3, <2>1 DEF Store!Made
<1>12. /\ \A b : VersionsOf(w, b) \subseteq 1..L
       /\ \A b : VersionsOf(v, b) = IF b = a THEN VersionsOf(w, b) \cup {L + 1}
                                             ELSE VersionsOf(w, b)
    BY VersionsGrow
<1>13. /\ \A x : About(v, "ArtifactVersionCreated", x) =
                   IF x = r.id THEN About(w, "ArtifactVersionCreated", x) \cup {L + 1}
                               ELSE About(w, "ArtifactVersionCreated", x)
       /\ \A x : About(v, "ArtifactCreated", x) = About(w, "ArtifactCreated", x)
    BY AboutGrows
<1>14. /\ L \in Nat /\ v.audit[L + 1] = e
       /\ \A n \in 1..L : v.audit[n] = w.audit[n]
    BY AuditGrows
<1>15. /\ Store!LineageSound(s) /\ ArtifactsKept(w)
       /\ \A b \in ArtIds : s.artifacts[b] = Nil => VersionsOf(w, b) = {}
       /\ \A x \in VerIds : x \in Store!Made(s) <=> About(w, "ArtifactVersionCreated", x) # {}
       /\ \A x \in Store!Made(s) : s.versions[x].sequence <= s.next
    BY DEF ArtifactsSound
<1>16. \A b \in ArtIds :
         /\ s.artifacts[b] # Nil <=> About(w, "ArtifactCreated", b) # {}
         /\ s.artifacts[b] # Nil => HistoryKept(w, b) /\ Store!HistorySound(s, b)
    BY <1>15 DEF ArtifactsKept, Store!LineageSound
<1>17. \A b : \A n \in VersionsOf(w, b) : w.audit[n].what # r.id
    <2>1. About(w, "ArtifactVersionCreated", r.id) = {}
        BY <1>1, <1>11, <1>15
    <2> QED
        BY <2>1 DEF About, VersionsOf
<1>18. /\ HistoryKept(w, a) /\ Store!HistorySound(s, a)
       /\ \A i \in 1..K : H[i] \in Store!Made(s)
    BY <1>1, <1>3, <1>16 DEF Store!HistorySound
<1>19. /\ K \in Nat /\ Len(Append(H, r.id)) = K + 1
       /\ Append(H, r.id)[K + 1] = r.id
       /\ \A i \in 1..K : Append(H, r.id)[i] = H[i]
    <2> DEFINE x == r.id
    <2>1. H \in Seq(VerIds) /\ x \in VerIds
        BY <1>1, <1>9
    <2> HIDE DEF H, x
    <2>2. /\ Len(H) \in Nat /\ Len(Append(H, x)) = Len(H) + 1
          /\ Append(H, x)[Len(H) + 1] = x
          /\ \A i \in 1..Len(H) : Append(H, x)[i] = H[i]
        BY <2>1
    <2> QED
        BY <2>2 DEF x
<1>20. \A x \in Store!Made(s) : /\ t.versions[x] = s.versions[x]
                                /\ s.versions[x] \in Version
                                /\ s.versions[x].sequence \in Nat
    BY <1>2, <1>8, <1>11 DEF Store!Made
<1> DEFINE G == Append(H, r.id)
<1> HIDE DEF s, t, L, made, artifact, H, K, G
<1>21. HistoryKept(v, a)
    <2>1. 1..(K + 1) = 1..K \cup {K + 1}
        BY <1>19
    <2>2. {G[i] : i \in 1..(K + 1)} = {H[i] : i \in 1..K} \cup {r.id}
        BY <1>19, <2>1 DEF G
    <2>3. \A n \in VersionsOf(w, a) : v.audit[n] = w.audit[n]
        BY <1>12, <1>14
    <2>4. {v.audit[n].what : n \in VersionsOf(v, a)} =
            {w.audit[n].what : n \in VersionsOf(w, a)} \cup {r.id}
        <3>1. VersionsOf(v, a) = VersionsOf(w, a) \cup {L + 1}
            BY <1>12
        <3>2. v.audit[L + 1].what = r.id
            BY <1>14
        <3> DEFINE A == VersionsOf(w, a)
                   B == VersionsOf(v, a)
                   New(n) == v.audit[n].what
                   Old(n) == w.audit[n].what
        <3>3. B = A \cup {L + 1} /\ New(L + 1) = r.id /\ \A n \in A : New(n) = Old(n)
            BY <2>3, <3>1, <3>2
        <3> HIDE DEF A, B, New, Old
        <3>4. {New(n) : n \in B} = {Old(n) : n \in A} \cup {r.id}
            BY <3>3
        <3> QED
            BY <3>4 DEF A, B, New, Old
    <2>5. {H[i] : i \in 1..K} = {w.audit[n].what : n \in VersionsOf(w, a)}
        BY <1>18 DEF HistoryKept, H, K, s
    <2>6. \A i, j \in 1..K : \A m, n \in VersionsOf(w, a) :
            w.audit[m].what = H[i] /\ w.audit[n].what = H[j] => (i < j <=> m < n)
        BY <1>18 DEF HistoryKept, H, K, s
    <2>7. ASSUME NEW i \in 1..(K + 1), NEW m \in VersionsOf(v, a), v.audit[m].what = G[i]
          PROVE  \/ i = K + 1 /\ m = L + 1
                 \/ /\ i \in 1..K /\ m \in VersionsOf(w, a) /\ m \in 1..L
                    /\ w.audit[m].what = H[i]
        <3>1. CASE m = L + 1
            <4>1. G[i] = r.id
                BY <1>14, <2>7, <3>1
            <4>2. i \notin 1..K
                BY <1>11, <1>18, <1>19, <4>1 DEF G
            <4> QED
                BY <2>1, <3>1, <4>2
        <3>2. CASE m \in VersionsOf(w, a)
            <4>1. w.audit[m].what = G[i] /\ G[i] # r.id
                BY <1>17, <2>3, <2>7, <3>2
            <4>2. i \in 1..K
                BY <1>19, <2>1, <4>1 DEF G
            <4> QED
                BY <1>12, <1>19, <3>2, <4>1, <4>2 DEF G
        <3> QED
            BY <1>12, <3>1, <3>2
    <2>8. ASSUME NEW i \in 1..(K + 1), NEW j \in 1..(K + 1),
                 NEW m \in VersionsOf(v, a), NEW n \in VersionsOf(v, a),
                 v.audit[m].what = G[i], v.audit[n].what = G[j]
          PROVE  i < j <=> m < n
        <3>1. \/ i = K + 1 /\ m = L + 1
              \/ /\ i \in 1..K /\ m \in VersionsOf(w, a) /\ m \in 1..L
                 /\ w.audit[m].what = H[i]
            BY <2>7, <2>8
        <3>2. \/ j = K + 1 /\ n = L + 1
              \/ /\ j \in 1..K /\ n \in VersionsOf(w, a) /\ n \in 1..L
                 /\ w.audit[n].what = H[j]
            BY <2>7, <2>8
        <3>3. CASE i \in 1..K /\ j \in 1..K
            <4>1. m \in VersionsOf(w, a) /\ n \in VersionsOf(w, a)
                  /\ w.audit[m].what = H[i] /\ w.audit[n].what = H[j]
                BY <1>19, <3>1, <3>2, <3>3
            <4> QED
                BY <2>6, <3>3, <4>1, Zenon
        <3>4. CASE ~(i \in 1..K /\ j \in 1..K)
            BY <1>14, <1>19, <3>1, <3>2, <3>4
        <3> QED
            BY <3>3, <3>4
    <2>9. Store!History(v.artifacts, a) = G /\ Len(G) = K + 1
        BY <1>10, <1>19 DEF G, t
    <2> HIDE DEF a
    <2> QED
        BY <2>2, <2>4, <2>5, <2>8, <2>9 DEF HistoryKept
<1>22. Store!LineageSound(t)
    <2>1. Store!HistorySound(t, a)
        <3>1. \A i \in 1..K :
                /\ H[i] \in Store!Made(s)
                /\ s.versions[H[i]].artifact = a
                /\ i > 1 => s.versions[H[i - 1]].sequence < s.versions[H[i]].sequence
            BY <1>18 DEF Store!HistorySound, H, K
        <3>2. ASSUME NEW i \in 1..K
              PROVE  /\ G[i] \in Store!Made(t)
                     /\ t.versions[G[i]].artifact = a
                     /\ i > 1 => t.versions[G[i - 1]].sequence < t.versions[G[i]].sequence
            <4>1. i > 1 => i - 1 \in 1..K
                BY <1>19
            <4>2. G[i] = H[i] /\ (i > 1 => G[i - 1] = H[i - 1])
                BY <1>19, <4>1 DEF G
            <4>3. /\ t.versions[H[i]] = s.versions[H[i]]
                  /\ i > 1 => t.versions[H[i - 1]] = s.versions[H[i - 1]]
                BY <1>20, <3>1, <4>1
            <4> QED
                BY <1>11, <3>1, <4>2, <4>3
        <3>3. /\ G[K + 1] \in Store!Made(t)
              /\ t.versions[G[K + 1]].artifact = a
              /\ K + 1 > 1 => t.versions[G[K]].sequence < t.versions[G[K + 1]].sequence
            <4>1. G[K + 1] = r.id /\ t.versions[r.id].sequence = s.next + 1
                BY <1>8, <1>19 DEF G
            <4>2. ASSUME K + 1 > 1 PROVE t.versions[G[K]].sequence < s.next + 1
                <5>1. K \in 1..K
                    BY <1>19, <4>2
                <5>2. G[K] = H[K] /\ H[K] \in Store!Made(s)
                    BY <1>19, <3>1, <5>1 DEF G
                <5>3. /\ t.versions[H[K]].sequence \in Nat
                      /\ t.versions[H[K]].sequence <= s.next
                    BY <1>15, <1>20, <5>2
                <5> QED
                    BY <1>2, <5>2, <5>3
            <4> QED
                BY <1>8, <1>11, <4>1, <4>2
        <3>4. \A i \in 1..(K + 1) : i \in 1..K \/ i = K + 1
            BY <1>19
        <3>5. (K + 1) - 1 = K
            BY <1>19
        <3>6. t.artifacts[a].current = IF G = <<>> THEN Nil ELSE G[K + 1]
            <4>1. G # <<>>
                BY <1>19 DEF G
            <4> QED
                BY <1>9, <1>19, <4>1 DEF G
        <3>7. Store!History(t, a) = G /\ Len(G) = K + 1
            BY <1>10, <1>19 DEF G
        <3>8. ASSUME NEW i \in 1..(K + 1)
              PROVE  /\ G[i] \in Store!Made(t)
                     /\ t.versions[G[i]].artifact = a
                     /\ i > 1 => t.versions[G[i - 1]].sequence < t.versions[G[i]].sequence
            <4>1. CASE i \in 1..K
                BY <3>2, <4>1
            <4>2. CASE i = K + 1
                BY <3>3, <3>5, <4>2
            <4> QED
                BY <3>4, <4>1, <4>2
        <3> QED
            BY <3>6, <3>7, <3>8 DEF Store!HistorySound
    <2>2. ASSUME NEW b \in ArtIds \ {a}, t.artifacts[b] # Nil PROVE Store!HistorySound(t, b)
        <3>1. Store!HistorySound(s, b) /\ Store!History(t, b) = Store!History(s, b)
              /\ t.artifacts[b] = s.artifacts[b]
            BY <1>9, <1>10, <1>16, <2>2
        <3> DEFINE h == Store!History(s, b)
        <3>2. /\ \A i \in 1..Len(h) :
                   /\ h[i] \in Store!Made(s)
                   /\ s.versions[h[i]].artifact = b
                   /\ i > 1 => s.versions[h[i - 1]].sequence < s.versions[h[i]].sequence
              /\ s.artifacts[b].current = IF h = <<>> THEN Nil ELSE h[Len(h)]
            BY <3>1 DEF Store!HistorySound
        <3>4. s.artifacts[b] \in Artifact
            BY <1>2, <2>2, <3>1
        <3>5. h \in Seq(VerIds)
            BY <3>4 DEF Store!History
        <3> HIDE DEF h
        <3>6. Len(h) \in Nat
            BY <3>5
        <3>3. ASSUME NEW i \in 1..Len(h)
              PROVE  /\ h[i] \in Store!Made(t)
                     /\ t.versions[h[i]].artifact = b
                     /\ i > 1 => t.versions[h[i - 1]].sequence < t.versions[h[i]].sequence
            <4>1. i > 1 => i - 1 \in 1..Len(h)
                BY <3>6
            <4> QED
                BY <1>11, <1>20, <3>2, <4>1
        <3> QED
            BY <3>1, <3>2, <3>3 DEF Store!HistorySound, h
    <2>3. ASSUME NEW x \in Store!Made(s) PROVE Store!OriginSound(t, x)
        <3> DEFINE b == s.versions[x].artifact
                   h == Store!History(s, b)
        <3>1. Store!OriginSound(s, x)
            BY <1>15 DEF Store!LineageSound
        <3>2. b \in ArtIds /\ t.versions[x] = s.versions[x]
            BY <1>20
        <3>3. t.artifacts[b] # Nil
            BY <1>7, <1>9, <3>1, <3>2 DEF Store!OriginSound
        <3>4. \E i \in 1..Len(h) : h[i] = x
            BY <3>1 DEF Store!OriginSound
        <3>5. \E i \in 1..Len(Store!History(t, b)) : Store!History(t, b)[i] = x
            <4>1. CASE b = a
                <5>1. PICK i \in 1..K : H[i] = x
                    BY <3>4, <4>1 DEF H, K
                <5>2. i \in 1..(K + 1) /\ G[i] = x
                    BY <1>19, <5>1 DEF G
                <5>3. Store!History(t, b) = G /\ Len(G) = K + 1
                    BY <1>10, <1>19, <4>1 DEF G
                <5> QED
                    BY <5>2, <5>3
            <4>2. CASE b # a
                BY <1>10, <3>2, <3>4, <4>2
            <4> QED
                BY <4>1, <4>2
        <3>6. /\ s.versions[x].parent # Nil =>
                   /\ s.versions[x].parent \in Store!Made(s)
                   /\ s.versions[s.versions[x].parent].artifact = b
                   /\ s.versions[s.versions[x].parent].sequence < s.versions[x].sequence
              /\ \A i \in DOMAIN s.versions[x].inputs :
                   /\ s.versions[x].inputs[i] \in Store!Made(s)
                   /\ s.versions[s.versions[x].inputs[i]].sequence < s.versions[x].sequence
            BY <3>1 DEF Store!OriginSound
        <3>7. t.versions[x].parent # Nil =>
                /\ t.versions[x].parent \in Store!Made(t)
                /\ t.versions[t.versions[x].parent].artifact = b
                /\ t.versions[t.versions[x].parent].sequence < t.versions[x].sequence
            BY <1>11, <1>20, <3>2, <3>6
        <3>8. \A i \in DOMAIN t.versions[x].inputs :
                /\ t.versions[x].inputs[i] \in Store!Made(t)
                /\ t.versions[t.versions[x].inputs[i]].sequence < t.versions[x].sequence
            BY <1>11, <1>20, <3>2, <3>6
        <3>9. t.versions[x].artifact = b
            BY <3>2
        <3> HIDE DEF b, h
        <3> QED
            BY <3>3, <3>5, <3>7, <3>8, <3>9 DEF Store!OriginSound
    <2>4. Store!OriginSound(t, r.id)
        <3>1. t.artifacts[a] # Nil
            BY <1>7, <1>9
        <3>2. \E i \in 1..Len(Store!History(t, a)) : Store!History(t, a)[i] = r.id
            <4>1. K + 1 \in 1..(K + 1)
                BY <1>19
            <4> QED
                BY <1>10, <1>19, <4>1
        <3>3. ASSUME NEW x \in VerIds, s.versions[x] # Nil
              PROVE  x \in Store!Made(t) /\ t.versions[x] = s.versions[x]
                     /\ t.versions[x].sequence < s.next + 1
            <4>1. x \in Store!Made(s)
                BY <3>3 DEF Store!Made
            <4>2. t.versions[x].sequence \in Nat /\ t.versions[x].sequence <= s.next
                BY <1>15, <1>20, <4>1
            <4> QED
                BY <1>2, <1>11, <1>20, <4>1, <4>2
        <3>4. r.parent # Nil =>
                /\ r.parent \in Store!Made(t)
                /\ t.versions[r.parent].artifact = a
                /\ t.versions[r.parent].sequence < s.next + 1
            <4>1. r.parent # Nil =>
                    /\ s.versions[r.parent] # Nil
                    /\ s.versions[r.parent].artifact = a
                BY <1>3 DEF Store!ParentFits
            <4> QED
                BY <1>1, <3>3, <4>1
        <3>5. \A i \in DOMAIN r.inputs :
                /\ r.inputs[i] \in Store!Made(t)
                /\ t.versions[r.inputs[i]].sequence < s.next + 1
            <4>1. \A i \in DOMAIN r.inputs : s.versions[r.inputs[i]] # Nil
                BY <1>3 DEF Store!InputsFit
            <4>2. \A i \in DOMAIN r.inputs : r.inputs[i] \in VerIds
                BY <1>1
            <4> QED
                BY <3>3, <4>1, <4>2
        <3>6. t.versions[r.id] = made
            BY <1>8
        <3>7. t.versions[r.id].artifact = a /\ t.versions[r.id].parent = r.parent
              /\ t.versions[r.id].inputs = r.inputs /\ t.versions[r.id].sequence = s.next + 1
            BY <1>8
        <3> HIDE DEF a
        <3> QED
            BY <3>1, <3>2, <3>4, <3>5, <3>7 DEF Store!OriginSound
    <2> HIDE DEF a
    <2> QED
        BY <1>11, <2>1, <2>2, <2>3, <2>4 DEF Store!LineageSound
<1>23. ASSUME NEW b \in ArtIds
       PROVE  /\ t.artifacts[b] # Nil <=> About(v, "ArtifactCreated", b) # {}
              /\ t.artifacts[b] # Nil => HistoryKept(v, b)
              /\ t.artifacts[b] = Nil => VersionsOf(v, b) = {}
    <2>1. CASE b = a
        <3>1. t.artifacts[b] # Nil
            BY <1>7, <1>9, <2>1
        <3>2. About(v, "ArtifactCreated", b) # {}
            BY <1>3, <1>13, <1>16, <2>1
        <3> QED
            BY <1>21, <2>1, <3>1, <3>2
    <2>2. CASE b # a
        <3>1. Store!History(w.artifacts, b) = Store!History(v.artifacts, b)
            BY <1>10, <2>2 DEF s, t
        <3>2. VersionsOf(v, b) = VersionsOf(w, b) /\ VersionsOf(w, b) \subseteq 1..Len(w.audit)
            BY <1>12, <2>2 DEF L
        <3>3. HistoryKept(w, b) => HistoryKept(v, b)
            BY <1>14, <3>1, <3>2, HistoryStays DEF L
        <3> QED
            BY <1>9, <1>13, <1>15, <1>16, <2>2, <3>2, <3>3
    <2> QED
        BY <2>1, <2>2
<1>24. ArtifactsKept(v)
    BY <1>23 DEF ArtifactsKept, t
<1>25. \A x \in VerIds : x \in Store!Made(t) <=> About(v, "ArtifactVersionCreated", x) # {}
    BY <1>11, <1>13, <1>15
<1>26. \A x \in Store!Made(t) : t.versions[x].sequence <= t.next
    <2>1. \A x \in Store!Made(s) : t.versions[x].sequence <= t.next
        <3>1. \A x \in Store!Made(s) : /\ t.versions[x].sequence \in Nat
                                       /\ t.versions[x].sequence <= s.next
            BY <1>15, <1>20
        <3>2. t.next = s.next + 1
            BY <1>4
        <3> QED
            BY <1>2, <3>1, <3>2
    <2>2. t.versions[r.id].sequence <= t.next
        BY <1>2, <1>4, <1>8
    <2> QED
        BY <1>11, <2>1, <2>2
<1> QED
    BY <1>22, <1>23, <1>24, <1>25, <1>26 DEF ArtifactsSound, t

----------------------------------------------------------------------------
(* The audit explains the state: the calls, the file and the plane. *)

LEMMA FreshIsKept == Kept(Fresh, 0) /\ \A kind : Entries(Fresh, kind) = {}
<1>1. /\ Fresh.audit = <<>> /\ Fresh.observations = <<>>
      /\ Fresh.artifacts = Store!Empty /\ \A c \in CapIds : Fresh.capabilities[c] = Nil
    BY DEF Fresh
<1>2. \A kind : Entries(Fresh, kind) = {}
    BY <1>1 DEF Entries
<1>3. \A kind, what : About(Fresh, kind, what) = {}
    BY <1>2 DEF About
<1>4. Vindicated(Fresh)
    BY <1>2 DEF Vindicated
<1>5. GrantsKept(Fresh)
    BY <1>1, <1>3 DEF GrantsKept, GrantedAt
<1>6. ObservationsKept(Fresh)
    BY <1>1, <1>2 DEF ObservationsKept
<1>7. ArtifactsSound(Fresh)
    <2>1. /\ \A a \in ArtIds : Fresh.artifacts.artifacts[a] = Nil
          /\ Store!Made(Fresh.artifacts) = {}
        BY <1>1 DEF Store!Empty, Store!Made
    <2>2. \A a : VersionsOf(Fresh, a) = {}
        BY <1>2 DEF VersionsOf
    <2> QED
        BY <1>3, <2>1, <2>2 DEF ArtifactsSound, ArtifactsKept, Store!LineageSound
<1> QED
    BY <1>1, <1>2, <1>4, <1>5, <1>6, <1>7 DEF Kept

\* A number that is wasted takes nothing away.
LEMMA KeptLonger ==
    ASSUME NEW w \in Records, NEW c \in Nat, Kept(w, c)
    PROVE  Kept(w, c + 1)
<1> DEFINE Made == [sequence : 1..MaxSequence, capability : CapIds, of : Attempts]
           o == w.observations
<1>1. o \in Seq(Made) /\ \A m \in Made : m.sequence \in Nat
    BY DEF Records
<1>2. \A i \in 1..Len(o) : o[i].sequence \in Nat
    <2> HIDE DEF o, Made
    <2>1. \A i \in 1..Len(o) : o[i] \in Made
        BY <1>1
    <2> QED
        BY <1>1, <2>1
<1>3. \A i \in 1..Len(o) : o[i].sequence <= c + 1
    BY <1>2 DEF Kept
<1> QED
    BY <1>3 DEF Kept

\* Whether a workspace is suspended says nothing of its audit.
LEMMA KeptAsleep ==
    ASSUME NEW w, NEW v, NEW c,
           v.audit = w.audit, v.capabilities = w.capabilities,
           v.observations = w.observations, v.artifacts = w.artifacts
    PROVE  /\ Kept(w, c) => Kept(v, c)
           /\ Begun(w) => Begun(v)
<1>1. \A kind : Entries(v, kind) = Entries(w, kind)
    BY DEF Entries
<1>2. \A kind, what : About(v, kind, what) = About(w, kind, what)
    BY <1>1 DEF About
<1>3. \A n, d, g : GrantedAt(v, n, d, g) <=> GrantedAt(w, n, d, g)
    BY <1>2 DEF GrantedAt
<1>4. \A n : AllowedAt(v, n) <=> AllowedAt(w, n)
    BY <1>3 DEF AllowedAt
<1>5. Vindicated(w) => Vindicated(v)
    BY <1>1, <1>4 DEF Vindicated
<1>6. GrantsKept(w) => GrantsKept(v)
    BY <1>3 DEF GrantsKept
<1>7. ObservationsKept(w) => ObservationsKept(v)
    BY <1>1 DEF ObservationsKept
<1>8. \A a : VersionsOf(v, a) = VersionsOf(w, a)
    BY <1>1 DEF VersionsOf
<1>9. \A a : HistoryKept(w, a) => HistoryKept(v, a)
    BY <1>8 DEF HistoryKept
<1>10. ArtifactsSound(w) => ArtifactsSound(v)
    BY <1>2, <1>8, <1>9 DEF ArtifactsSound, ArtifactsKept
<1> QED
    BY <1>1, <1>5, <1>6, <1>7, <1>10 DEF Kept, Begun

\* One more entry, with what it is about done.
LEMMA OneMore ==
    ASSUME NEW w \in Records, NEW v \in Records, NEW e \in Events, v.audit = Append(w.audit, e),
           NEW c \in Nat, e.sequence = c + 1, Kept(w, c),
           e.kind \in {"ResourceObserved", "AccessDenied"} => e.what \in CapIds,
           e.kind = "ResourceObserved" =>
             w.capabilities[e.what] # Nil /\ Allows(w.capabilities[e.what], e.detail),
           e.kind = "AccessDenied" =>
             ~(w.capabilities[e.what] # Nil /\ Allows(w.capabilities[e.what], e.detail)),
           e.kind = "CapabilityGranted" => w.capabilities[e.what] = Nil,
           \A d \in CapIds :
             v.capabilities[d] = IF e.kind = "CapabilityGranted" /\ e.what = d THEN e.detail
                                 ELSE IF e.kind = "CapabilityRevoked" /\ e.what = d THEN Nil
                                 ELSE w.capabilities[d],
           v.observations =
             IF e.kind = "ResourceObserved"
               THEN Append(w.observations, [sequence |-> e.sequence, capability |-> e.what,
                                            of |-> e.detail])
               ELSE w.observations,
           ArtifactsSound(v)
    PROVE  Kept(v, c + 1)
<1>1. /\ Vindicated(w) /\ GrantsKept(w) /\ ObservationsKept(w)
      /\ \A i \in 1..Len(w.observations) : w.observations[i].sequence <= c
    BY DEF Kept
<1>2. Vindicated(v)
    BY <1>1, VindicatedGrows
<1>3. GrantsKept(v)
    BY <1>1, GrantsFollow
<1>4. \A i \in 1..Len(w.observations) : w.observations[i].sequence < e.sequence
    <2> DEFINE Made == [sequence : 1..MaxSequence, capability : CapIds, of : Attempts]
               o == w.observations
    <2>1. o \in Seq(Made) /\ \A m \in Made : m.sequence \in Nat
        BY DEF Records
    <2> HIDE DEF o, Made
    <2>2. \A i \in 1..Len(o) : o[i] \in Made
        BY <2>1
    <2> QED
        BY <1>1, <2>1, <2>2 DEF o
<1>5. /\ ObservationsKept(v)
      /\ \A i \in 1..Len(v.observations) : v.observations[i].sequence <= e.sequence
    BY <1>1, <1>4, ObservationsFollow, Zenon
<1> QED
    BY <1>2, <1>3, <1>5 DEF Kept

\* A record with the event of a call: nothing else of it is new.
LEMMA AuditedIs ==
    ASSUME next \in 0..MaxSequence, next < MaxSequence, NEW w \in Records, NEW kind \in Kinds,
           NEW what \in CapIds \cup ArtIds \cup VerIds \cup {Nil},
           NEW detail \in Grants \cup Attempts \cup ArtIds \cup {Nil}
    PROVE  LET v == Audited(w, kind, what, detail)
               e == Event(NextSequence, kind, what, detail)
           IN  /\ v \in Records /\ e \in Events
               /\ v.audit = Append(w.audit, e)
               /\ v.capabilities = w.capabilities /\ v.artifacts = w.artifacts
               /\ v.observations = w.observations
               /\ e.sequence = next + 1 /\ e.kind = kind /\ e.what = what /\ e.detail = detail
<1> DEFINE v == Audited(w, kind, what, detail)
           e == Event(NextSequence, kind, what, detail)
<1>1. e \in Events /\ e.sequence = next + 1
    BY EventType
<1>2. e.kind = kind /\ e.what = what /\ e.detail = detail
    BY DEF Event
<1>3. v = [w EXCEPT !.audit = Append(@, e)]
    BY DEF Audited
<1>4. w.audit \in Seq(Events)
    BY DEF Records
<1> HIDE DEF e
<1>5. Append(w.audit, e) \in Seq(Events)
    BY <1>1, <1>4
<1>6. /\ v \in Records /\ v.audit = Append(w.audit, e)
      /\ v.capabilities = w.capabilities /\ v.artifacts = w.artifacts
      /\ v.observations = w.observations
    BY <1>3, <1>5 DEF Records
<1> QED
    BY <1>1, <1>2, <1>6 DEF e

LEMMA BegunGrows ==
    ASSUME NEW w \in Records, NEW v \in Records, NEW e \in Events, v.audit = Append(w.audit, e),
           Begun(w), e.kind # "WorkspaceCreated"
    PROVE  Begun(v)
BY EntriesGrow DEF Begun

\* What a call for k leaves of its record.
KeepsRecord(k) ==
    \E v \in Records : /\ work' = [work EXCEPT ![k] = v]
                       /\ Kept(v, next + 1)
                       /\ Begun(v)

LEMMA CreationKeeps ==
    ASSUME TypeOK, NEW k \in Keys, CreateWorkspace(k), Kept(Fresh, next)
    PROVE  KeepsRecord(k)
<1> DEFINE v == Audited(Fresh, "WorkspaceCreated", Nil, Nil)
           e == Event(NextSequence, "WorkspaceCreated", Nil, Nil)
<1>1. /\ next \in 0..MaxSequence /\ next < MaxSequence /\ next \in Nat
      /\ work' = [work EXCEPT ![k] = v]
    BY DEF TypeOK, CreateWorkspace, Take
<1>2. Fresh \in Records /\ "WorkspaceCreated" \in Kinds /\ Fresh.audit = <<>>
    BY FreshType DEF Kinds
<1>3. /\ v \in Records /\ e \in Events /\ v.audit = Append(Fresh.audit, e)
      /\ v.capabilities = Fresh.capabilities /\ v.artifacts = Fresh.artifacts
      /\ v.observations = Fresh.observations
      /\ e.sequence = next + 1 /\ e.kind = "WorkspaceCreated"
    BY <1>1, <1>2, AuditedIs
<1> HIDE DEF v, e
<1>4. ArtifactsSound(v)
    BY <1>2, <1>3, ArtifactsStay DEF Kept
<1>5. Kept(v, next + 1)
    BY <1>1, <1>2, <1>3, <1>4, OneMore
<1>6. Entries(Fresh, "WorkspaceCreated") = {} /\ Len(Fresh.audit) = 0
    BY <1>2, FreshIsKept
<1>7. Begun(v)
    <2>1. Entries(v, "WorkspaceCreated") = Entries(Fresh, "WorkspaceCreated") \cup {Len(Fresh.audit) + 1}
        <3>1. Entries(v, "WorkspaceCreated") =
                IF e.kind = "WorkspaceCreated"
                  THEN Entries(Fresh, "WorkspaceCreated") \cup {Len(Fresh.audit) + 1}
                  ELSE Entries(Fresh, "WorkspaceCreated")
            <4>1. \A kind : Entries(v, kind) =
                    IF e.kind = kind THEN Entries(Fresh, kind) \cup {Len(Fresh.audit) + 1}
                                     ELSE Entries(Fresh, kind)
                <5>1. Fresh \in Records
                    BY <1>2
                <5> QED
                    BY <1>3, <5>1, EntriesGrow
            <4> QED
                BY <4>1
        <3> QED
            BY <1>3, <3>1, Zenon
    <2>2. Entries(v, "WorkspaceCreated") = {1}
        BY <1>6, <2>1
    <2> QED
        BY <2>2 DEF Begun
<1> QED
    BY <1>1, <1>3, <1>5, <1>7 DEF KeepsRecord

\* An entry that a call may make of a record that is u.
EntryFits(u, kind, what, detail) ==
    /\ kind \in {"ResourceObserved", "AccessDenied"} => what \in CapIds
    /\ kind = "ResourceObserved" =>
         u.capabilities[what] # Nil /\ Allows(u.capabilities[what], detail)
    /\ kind = "AccessDenied" =>
         ~(u.capabilities[what] # Nil /\ Allows(u.capabilities[what], detail))
    /\ kind = "CapabilityGranted" => u.capabilities[what] = Nil

\* That call makes w of u, and then adds the entry.
EntryDone(u, w, kind, what, detail) ==
    /\ w.audit = u.audit
    /\ \A d \in CapIds :
         w.capabilities[d] = IF kind = "CapabilityGranted" /\ what = d THEN detail
                             ELSE IF kind = "CapabilityRevoked" /\ what = d THEN Nil
                             ELSE u.capabilities[d]
    /\ w.observations =
         IF kind = "ResourceObserved"
           THEN Append(u.observations, [sequence |-> next + 1, capability |-> what, of |-> detail])
           ELSE u.observations
    /\ \/ w.artifacts = u.artifacts /\ kind \notin {"ArtifactCreated", "ArtifactVersionCreated"}
       \/ /\ kind = "ArtifactCreated" /\ what \in ArtIds
          /\ Store!CanCreateArtifact(u.artifacts, what)
          /\ w.artifacts = Store!WithArtifact(u.artifacts, what)
       \/ \E r \in Store!Requests(VerIds \cup {Nil}, Inputs) :
            /\ kind = "ArtifactVersionCreated" /\ what = r.id /\ detail = r.artifact
            /\ Store!CanCreateVersion(u.artifacts, r)
            /\ w.artifacts = Store!WithVersion(u.artifacts, r)

\* Any other call: w is the record with what the call changes and without its event.
LEMMA CallKeeps ==
    ASSUME TypeOK, NEW k \in Keys, Kept(work[k], next), Begun(work[k]),
           NEW w \in Records, NEW kind \in Kinds \ {"WorkspaceCreated"},
           NEW what \in CapIds \cup ArtIds \cup VerIds \cup {Nil},
           NEW detail \in Grants \cup Attempts \cup ArtIds \cup {Nil},
           Take, Record(k, Audited(w, kind, what, detail)),
           EntryFits(work[k], kind, what, detail), EntryDone(work[k], w, kind, what, detail)
    PROVE  KeepsRecord(k)
<1> DEFINE v == Audited(w, kind, what, detail)
           e == Event(NextSequence, kind, what, detail)
<1>1. /\ next \in 0..MaxSequence /\ next < MaxSequence /\ next \in Nat
      /\ work' = [work EXCEPT ![k] = v] /\ work[k] \in Records
    BY DEF TypeOK, Take, Record
<1>2. /\ v \in Records /\ e \in Events /\ v.audit = Append(w.audit, e)
      /\ v.capabilities = w.capabilities /\ v.artifacts = w.artifacts
      /\ v.observations = w.observations
      /\ e.sequence = next + 1 /\ e.kind = kind /\ e.what = what /\ e.detail = detail
    BY <1>1, AuditedIs
<1> HIDE DEF v, e
<1>a. v.audit = Append(work[k].audit, e)
    BY <1>2 DEF EntryDone
<1>3. ArtifactsSound(work[k])
    BY DEF Kept
<1>4. ArtifactsSound(v)
    <2>1. CASE w.artifacts = work[k].artifacts /\ kind \notin {"ArtifactCreated", "ArtifactVersionCreated"}
        BY <1>1, <1>2, <1>a, <1>3, <2>1, ArtifactsStay
    <2>2. CASE /\ kind = "ArtifactCreated" /\ what \in ArtIds
               /\ Store!CanCreateArtifact(work[k].artifacts, what)
               /\ w.artifacts = Store!WithArtifact(work[k].artifacts, what)
        BY <1>1, <1>2, <1>a, <1>3, <2>2, ArtifactFollows
    <2>3. ASSUME NEW r \in Store!Requests(VerIds \cup {Nil}, Inputs),
                 kind = "ArtifactVersionCreated", what = r.id, detail = r.artifact,
                 Store!CanCreateVersion(work[k].artifacts, r),
                 w.artifacts = Store!WithVersion(work[k].artifacts, r)
          PROVE  ArtifactsSound(v)
        <3>1. /\ e.kind = "ArtifactVersionCreated" /\ e.what = r.id /\ e.detail = r.artifact
              /\ v.artifacts = Store!WithVersion(work[k].artifacts, r)
            BY <1>2, <2>3
        <3> QED
            BY <1>1, <1>2, <1>a, <1>3, <2>3, <3>1, VersionFollows, Zenon
    <2> QED
        BY <2>1, <2>2, <2>3 DEF EntryDone
<1>5. Kept(v, next + 1)
    <2> DEFINE u == work[k]
    <2>1. u \in Records /\ Kept(u, next) /\ v.audit = Append(u.audit, e)
        BY <1>1, <1>a
    <2>2. /\ e.kind \in {"ResourceObserved", "AccessDenied"} => e.what \in CapIds
          /\ e.kind = "ResourceObserved" =>
               u.capabilities[e.what] # Nil /\ Allows(u.capabilities[e.what], e.detail)
          /\ e.kind = "AccessDenied" =>
               ~(u.capabilities[e.what] # Nil /\ Allows(u.capabilities[e.what], e.detail))
          /\ e.kind = "CapabilityGranted" => u.capabilities[e.what] = Nil
        BY <1>2 DEF EntryFits
    <2>3. \A d \in CapIds :
            v.capabilities[d] = IF e.kind = "CapabilityGranted" /\ e.what = d THEN e.detail
                                ELSE IF e.kind = "CapabilityRevoked" /\ e.what = d THEN Nil
                                ELSE u.capabilities[d]
        BY <1>2 DEF EntryDone
    <2>4. v.observations =
            IF e.kind = "ResourceObserved"
              THEN Append(u.observations, [sequence |-> e.sequence, capability |-> e.what,
                                           of |-> e.detail])
              ELSE u.observations
        BY <1>2 DEF EntryDone
    <2> HIDE DEF u
    <2> QED
        BY <1>1, <1>2, <1>4, <2>1, <2>2, <2>3, <2>4, OneMore, Zenon
<1>6. Begun(v)
    BY <1>1, <1>2, <1>a, BegunGrows
<1> QED
    BY <1>1, <1>2, <1>5, <1>6 DEF KeepsRecord

\* Every call about a workspace that is there keeps the story of its record.
LEMMA CallsKeep ==
    ASSUME TypeOK, NEW k \in Keys, Kept(work[k], next), k \in workspaces => Begun(work[k]),
           \/ \E a \in ArtIds : CreateArtifact(k, a)
           \/ \E r \in Store!Requests(VerIds \cup {Nil}, Inputs) : AppendArtifactVersion(k, r)
           \/ \E c \in CapIds :
                \/ \E g \in Grants : GrantCapability(k, c, g)
                \/ RevokeCapability(k, c)
                \/ \E t \in Attempts : Observe(k, c, t) \/ Deny(k, c, t)
    PROVE  KeepsRecord(k)
<1>0. work[k] \in Records /\ k \in workspaces /\ Begun(work[k])
    BY DEF TypeOK, CreateArtifact, AppendArtifactVersion, GrantCapability, RevokeCapability,
           Observe, Deny, Active
<1> DEFINE u == work[k]
           Other == Kinds \ {"WorkspaceCreated"}
<1>1. /\ "ArtifactCreated" \in Other /\ "ArtifactVersionCreated" \in Other
      /\ "CapabilityGranted" \in Other /\ "CapabilityRevoked" \in Other
      /\ "ResourceObserved" \in Other /\ "AccessDenied" \in Other
    BY DEF Kinds
<1>2. ASSUME NEW a \in ArtIds, CreateArtifact(k, a) PROVE KeepsRecord(k)
    <2> DEFINE w == [work[k] EXCEPT !.artifacts = Store!WithArtifact(work[k].artifacts, a)]
    <2>1. /\ w \in Records /\ w.audit = u.audit /\ w.capabilities = u.capabilities
          /\ w.observations = u.observations
          /\ w.artifacts = Store!WithArtifact(u.artifacts, a)
        BY <1>0, ArtifactType DEF Records
    <2>2. /\ Take /\ Record(k, Audited(w, "ArtifactCreated", a, Nil))
          /\ Store!CanCreateArtifact(u.artifacts, a)
        BY <1>2 DEF CreateArtifact
    <2> HIDE DEF w, Other
    <2>8. EntryFits(u, "ArtifactCreated", a, Nil)
        BY <1>0, <2>1, <2>2 DEF EntryFits
    <2>9. EntryDone(u, w, "ArtifactCreated", a, Nil)
        BY <1>0, <2>1, <2>2 DEF EntryDone
    <2> QED
        BY <1>0, <1>1, <2>1, <2>2, <2>8, <2>9, CallKeeps DEF Other
<1>3. ASSUME NEW r \in Store!Requests(VerIds \cup {Nil}, Inputs), AppendArtifactVersion(k, r)
      PROVE  KeepsRecord(k)
    <2> DEFINE w == [work[k] EXCEPT !.artifacts = Store!WithVersion(work[k].artifacts, r)]
    <2>1. /\ Take /\ Record(k, Audited(w, "ArtifactVersionCreated", r.id, r.artifact))
          /\ Store!CanCreateVersion(u.artifacts, r)
        BY <1>3 DEF AppendArtifactVersion
    <2>2. u.artifacts \in Store!Stores
        BY <1>0 DEF Records
    <2>3. Store!WithVersion(u.artifacts, r) \in Store!Stores
        BY <2>1, <2>2, VersionType
    <2>4. /\ w \in Records /\ w.audit = u.audit /\ w.capabilities = u.capabilities
          /\ w.observations = u.observations
          /\ w.artifacts = Store!WithVersion(u.artifacts, r)
        BY <1>0, <2>3 DEF Records
    <2>5. r.id \in VerIds /\ r.artifact \in ArtIds
        BY DEF Store!Requests
    <2> HIDE DEF w, Other
    <2>8. EntryFits(u, "ArtifactVersionCreated", r.id, r.artifact)
        BY <1>0, <2>1, <2>4, <2>5 DEF EntryFits
    <2>9. EntryDone(u, w, "ArtifactVersionCreated", r.id, r.artifact)
        BY <1>0, <2>1, <2>4, <2>5 DEF EntryDone
    <2> QED
        BY <1>0, <1>1, <2>1, <2>4, <2>5, <2>8, <2>9, CallKeeps DEF Other
<1>4. ASSUME NEW c \in CapIds, NEW g \in Grants, GrantCapability(k, c, g) PROVE KeepsRecord(k)
    <2> DEFINE w == [work[k] EXCEPT !.capabilities[c] = g]
    <2>1. /\ w \in Records /\ w.audit = u.audit /\ w.artifacts = u.artifacts
          /\ w.observations = u.observations
          /\ \A d \in CapIds : w.capabilities[d] = IF c = d THEN g ELSE u.capabilities[d]
        BY <1>0 DEF Records
    <2>2. /\ Take /\ Record(k, Audited(w, "CapabilityGranted", c, g))
          /\ u.capabilities[c] = Nil
        BY <1>4 DEF GrantCapability
    <2> HIDE DEF w, Other
    <2>8. EntryFits(u, "CapabilityGranted", c, g)
        BY <1>0, <2>1, <2>2 DEF EntryFits
    <2>9. EntryDone(u, w, "CapabilityGranted", c, g)
        BY <1>0, <2>1, <2>2 DEF EntryDone
    <2> QED
        BY <1>0, <1>1, <2>1, <2>2, <2>8, <2>9, CallKeeps DEF Other
<1>5. ASSUME NEW c \in CapIds, RevokeCapability(k, c) PROVE KeepsRecord(k)
    <2> DEFINE w == Revoked(work[k], c)
    <2>1. /\ w \in Records /\ w.audit = u.audit /\ w.artifacts = u.artifacts
          /\ w.observations = u.observations
          /\ \A d \in CapIds : w.capabilities[d] = IF c = d THEN Nil ELSE u.capabilities[d]
        BY <1>0 DEF Records, Revoked
    <2>2. /\ Take /\ Record(k, Audited(w, "CapabilityRevoked", c, Nil))
        BY <1>5 DEF RevokeCapability
    <2> HIDE DEF w, Other
    <2>8. EntryFits(u, "CapabilityRevoked", c, Nil)
        BY <1>0, <2>1, <2>2 DEF EntryFits
    <2>9. EntryDone(u, w, "CapabilityRevoked", c, Nil)
        BY <1>0, <2>1, <2>2 DEF EntryDone
    <2> QED
        BY <1>0, <1>1, <2>1, <2>2, <2>8, <2>9, CallKeeps DEF Other
<1>6. ASSUME NEW c \in CapIds, NEW t \in Attempts, Observe(k, c, t) PROVE KeepsRecord(k)
    <2> DEFINE Made == [sequence : 1..MaxSequence, capability : CapIds, of : Attempts]
               o == [sequence |-> NextSequence, capability |-> c, of |-> t]
               w == [work[k] EXCEPT !.observations = Append(@, o)]
    <2>1. /\ Take /\ Record(k, Audited(w, "ResourceObserved", c, t))
          /\ u.capabilities[c] # Nil /\ Allows(u.capabilities[c], t)
        BY <1>6 DEF Observe, Permitted
    <2>2. o \in Made /\ o = [sequence |-> next + 1, capability |-> c, of |-> t]
        BY <2>1 DEF Take, NextSequence, TypeOK
    <2>3. u.observations \in Seq(Made)
        BY <1>0 DEF Records
    <2>4. Append(u.observations, o) \in Seq(Made)
        <3> HIDE DEF Made, o
        <3> QED
            BY <2>2, <2>3
    <2>5. /\ w \in Records /\ w.audit = u.audit /\ w.artifacts = u.artifacts
          /\ w.capabilities = u.capabilities
          /\ w.observations = Append(u.observations, [sequence |-> next + 1, capability |-> c,
                                                      of |-> t])
        BY <1>0, <2>2, <2>4 DEF Records
    <2> HIDE DEF w, Other
    <2>8. EntryFits(u, "ResourceObserved", c, t)
        BY <1>0, <2>1, <2>5 DEF EntryFits
    <2>9. EntryDone(u, w, "ResourceObserved", c, t)
        BY <1>0, <2>1, <2>5 DEF EntryDone
    <2> QED
        BY <1>0, <1>1, <2>1, <2>5, <2>8, <2>9, CallKeeps DEF Other
<1>7. ASSUME NEW c \in CapIds, NEW t \in Attempts, Deny(k, c, t) PROVE KeepsRecord(k)
    <2>1. /\ Take /\ Record(k, Audited(u, "AccessDenied", c, t))
          /\ ~(u.capabilities[c] # Nil /\ Allows(u.capabilities[c], t))
        BY <1>7 DEF Deny, Permitted
    <2> HIDE DEF Other
    <2>8. EntryFits(u, "AccessDenied", c, t)
        BY <1>0, <2>1 DEF EntryFits
    <2>9. EntryDone(u, u, "AccessDenied", c, t)
        BY <1>0, <2>1 DEF EntryDone
    <2> QED
        BY <1>0, <1>1, <2>1, <2>8, <2>9, CallKeeps DEF Other
<1> QED
    BY <1>2, <1>3, <1>4, <1>5, <1>6, <1>7

\* The audit of every workspace, in memory and on disk, explains its record.
StoryInv ==
    /\ PlaneInv
    /\ runtimes = workspaces
    /\ \A k \in Keys : Kept(work[k], next) /\ Kept(disk.work[k], disk.next)
    /\ \A k \in workspaces : Begun(work[k])
    /\ \A k \in disk.workspaces : Begun(disk.work[k])

LEMMA StoryStarts == Init => StoryInv
<1> SUFFICES ASSUME Init PROVE StoryInv
    OBVIOUS
<1>1. PlaneInv
    BY PlaneStarts
<1> QED
    BY <1>1, FreshIsKept DEF Init, Snapshot, StoryInv

LEMMA StorySteps == StoryInv /\ [Next]_vars => StoryInv'
<1> SUFFICES ASSUME StoryInv, [Next]_vars PROVE StoryInv'
    OBVIOUS
<1>0. /\ PlaneInv /\ PlaneInv' /\ TypeOK /\ next \in Nat /\ disk.next \in Nat
      /\ workspaces \subseteq Keys /\ disk.workspaces \subseteq Keys
      /\ \A k \in Keys : work[k] \in Records /\ disk.work[k] \in Records
      /\ work \in [Keys -> Records]
    BY PlaneSteps DEF StoryInv, PlaneInv, TypeOK
<1> DEFINE CallOn(k) ==
        \/ \E a \in ArtIds : CreateArtifact(k, a)
        \/ \E r \in Store!Requests(VerIds \cup {Nil}, Inputs) : AppendArtifactVersion(k, r)
        \/ \E c \in CapIds :
             \/ \E g \in Grants : GrantCapability(k, c, g)
             \/ RevokeCapability(k, c)
             \/ \E t \in Attempts : Observe(k, c, t) \/ Deny(k, c, t)
<1>1. ASSUME NEW k \in Keys, KeepsRecord(k), Take, disk' = disk,
             runtimes' = workspaces', workspaces' \subseteq workspaces \cup {k}
      PROVE  StoryInv'
    <2>1. PICK v \in Records : work' = [work EXCEPT ![k] = v] /\ Kept(v, next + 1) /\ Begun(v)
        BY <1>1 DEF KeepsRecord
    <2>2. work'[k] = v /\ \A h \in Keys \ {k} : work'[h] = work[h]
        BY <1>0, <2>1
    <2>3. \A h \in Keys : Kept(work'[h], next')
        BY <1>0, <1>1, <2>1, <2>2, KeptLonger DEF StoryInv, Take
    <2>4. \A h \in workspaces' : Begun(work'[h])
        BY <1>0, <1>1, <2>1, <2>2 DEF StoryInv
    <2> QED
        BY <1>0, <1>1, <2>3, <2>4 DEF StoryInv
<1>2. ASSUME NEW k \in Keys, CreateWorkspace(k) PROVE StoryInv'
    <2>1. work[k] = Fresh
        BY <1>2 DEF StoryInv, PlaneInv, CreateWorkspace
    <2>2. Kept(Fresh, next)
        BY <2>1 DEF StoryInv
    <2>3. KeepsRecord(k)
        BY <1>0, <1>2, <2>2, CreationKeeps
    <2> QED
        BY <1>1, <1>2, <2>3 DEF CreateWorkspace, StoryInv
<1>3. ASSUME NEW k \in Keys, CallOn(k) PROVE StoryInv'
    <2>1. Kept(work[k], next) /\ (k \in workspaces => Begun(work[k]))
        BY DEF StoryInv
    <2>2. KeepsRecord(k)
        BY <1>0, <1>3, <2>1, CallsKeep
    <2>3. Take /\ disk' = disk /\ runtimes' = runtimes /\ workspaces' = workspaces
        BY <1>3 DEF CreateArtifact, AppendArtifactVersion, GrantCapability,
                    RevokeCapability, Observe, Deny, Record
    <2> QED
        BY <1>1, <2>2, <2>3 DEF StoryInv
<1>4. CASE Refuse
    BY <1>0, <1>4, KeptLonger DEF Refuse, Take, StoryInv
<1>5. CASE Save
    BY <1>0, <1>5 DEF Save, Snapshot, StoryInv
<1>6. ASSUME NEW suspended \in SUBSET disk.workspaces, Load(suspended) PROVE StoryInv'
    <2> DEFINE awake == [k \in Keys |-> [disk.work[k] EXCEPT !.active = @ /\ k \notin suspended]]
    <2>1. \A k \in Keys :
            /\ awake[k].audit = disk.work[k].audit
            /\ awake[k].capabilities = disk.work[k].capabilities
            /\ awake[k].observations = disk.work[k].observations
            /\ awake[k].artifacts = disk.work[k].artifacts
        BY <1>0 DEF Records
    <2>2. /\ workspaces' = disk.workspaces /\ runtimes' = disk.workspaces
          /\ work' = awake /\ next' = disk.next /\ disk' = disk
        <3>1. disk = [next |-> disk.next, workspaces |-> disk.workspaces, work |-> disk.work]
            BY <1>0 DEF TypeOK
        <3>2. [disk EXCEPT !.work = awake].work = awake
            BY <3>1
        <3>3. Restore([disk EXCEPT !.work = awake]) /\ disk' = disk
            BY <1>0, <1>6 DEF Load, TypeOK
        <3> HIDE DEF awake
        <3> QED
            BY <3>1, <3>2, <3>3 DEF Restore
    <2> HIDE DEF awake
    <2>3. \A k \in Keys : Kept(awake[k], disk.next)
        BY <2>1, KeptAsleep DEF StoryInv
    <2>4. \A k \in disk.workspaces : Begun(awake[k])
        BY <1>0, <2>1, KeptAsleep DEF StoryInv
    <2> QED
        BY <1>0, <2>2, <2>3, <2>4 DEF StoryInv
<1>7. CASE UNCHANGED vars
    BY <1>0, <1>7 DEF vars, StoryInv
<1>8. CASE Next
    <2>1. \/ \E k \in Keys : CreateWorkspace(k) \/ CallOn(k)
          \/ Refuse \/ Save \/ \E suspended \in SUBSET disk.workspaces : Load(suspended)
        BY <1>8 DEF Next
    <2> HIDE DEF CallOn
    <2> QED
        BY <1>2, <1>3, <1>4, <1>5, <1>6, <2>1
<1> QED
    BY <1>7, <1>8

\* What the audit says was observed was allowed by grants that stood at that moment, and
\* what it says was denied was not, for every capability, resource and number of calls
\* (ControlPlane::authorize_and_observe), also after the plane was lost and loaded again.
THEOREM AccessIsVindicated == Spec => []AuditVindicatesAccess
<1>1. StoryInv => AuditVindicatesAccess
    BY DEF StoryInv, PlaneInv, TypeOK, Kept, AuditVindicatesAccess
<1> QED
    BY StoryStarts, StorySteps, <1>1, PTL DEF Spec

\* The audit and the state of every workspace tell the same story, and every workspace
\* has its VM: its open grants, its observations and its artifacts with their lineage are
\* the ones the audit records (the calls of control_plane.rs and artifacts.rs).
THEOREM StateIsExplained == Spec => []AuditExplainsState
<1>1. StoryInv => AuditExplainsState
    BY DEF StoryInv, PlaneInv, TypeOK, Kept, ArtifactsSound, AuditExplainsState
<1> QED
    BY StoryStarts, StorySteps, <1>1, PTL DEF Spec

----------------------------------------------------------------------------
(* The numbers of AuditLog. *)

\* Entering one more entry keeps what Numbered says.
LEMMA EnteringKeepsNumbers ==
    ASSUME NEW l \in [Keys -> Seq(Nat)], NEW c \in Nat, NEW k \in Keys, Log!Numbered(l, c)
    PROVE  Log!Numbered([l EXCEPT ![k] = Append(@, c + 1)], c + 1)
<1> DEFINE m == [l EXCEPT ![k] = Append(@, c + 1)]
<1>1. /\ m[k] = Append(l[k], c + 1) /\ l[k] \in Seq(Nat)
      /\ \A h \in Keys \ {k} : m[h] = l[h]
    OBVIOUS
<1>2. /\ Len(l[k]) \in Nat /\ Len(m[k]) = Len(l[k]) + 1
      /\ m[k][Len(l[k]) + 1] = c + 1
      /\ \A i \in 1..Len(l[k]) : m[k][i] = l[k][i]
    BY <1>1
<1>3. \A h \in Keys : /\ Len(l[h]) \in Nat
                      /\ \A i \in 1..Len(l[h]) : l[h][i] \in Nat /\ l[h][i] <= c
    BY DEF Log!Numbered
<1>4. /\ \A g \in Keys : \A i \in 1..Len(l[g]) : \A h \in Keys : \A j \in 1..Len(l[h]) :
            l[g][i] = l[h][j] => g = h /\ i = j
      /\ \A g \in Keys : \A i \in 1..Len(l[g]) : \A j \in 1..(i - 1) : l[g][j] < l[g][i]
    BY DEF Log!Numbered
<1> HIDE DEF m
<1>5. ASSUME NEW g \in Keys, NEW i \in 1..Len(m[g])
      PROVE  \/ g = k /\ i = Len(l[k]) + 1 /\ m[g][i] = c + 1
             \/ i \in 1..Len(l[g]) /\ m[g][i] = l[g][i]
    BY <1>1, <1>2
<1>6. ASSUME NEW g \in Keys, NEW i \in 1..Len(m[g]) PROVE m[g][i] <= c + 1
    <2>1. \/ m[g][i] = c + 1
          \/ i \in 1..Len(l[g]) /\ m[g][i] = l[g][i]
        BY <1>5, Zenon
    <2>2. CASE i \in 1..Len(l[g]) /\ m[g][i] = l[g][i]
        <3>1. l[g][i] \in Nat /\ l[g][i] <= c
            BY <1>3, <2>2, Zenon
        <3> QED
            BY <2>2, <3>1
    <2> QED
        BY <2>1, <2>2
<1>7. ASSUME NEW g \in Keys, NEW i \in 1..Len(m[g]),
             NEW h \in Keys, NEW j \in 1..Len(m[h]), m[g][i] = m[h][j]
      PROVE  g = h /\ i = j
    <2>1. \/ g = k /\ i = Len(l[k]) + 1 /\ m[g][i] = c + 1
          \/ i \in 1..Len(l[g]) /\ m[g][i] = l[g][i]
        BY <1>5
    <2>2. \/ h = k /\ j = Len(l[k]) + 1 /\ m[h][j] = c + 1
          \/ j \in 1..Len(l[h]) /\ m[h][j] = l[h][j]
        BY <1>5
    <2>3. \A f \in Keys : \A n \in 1..Len(l[f]) : l[f][n] # c + 1
        BY <1>3
    <2>4. CASE i \in 1..Len(l[g]) /\ m[g][i] = l[g][i] /\ j \in 1..Len(l[h]) /\ m[h][j] = l[h][j]
        <3>1. l[g][i] = l[h][j]
            BY <1>7, <2>4
        <3> QED
            BY <1>4, <2>4, <3>1, Zenon
    <2> QED
        BY <1>7, <2>1, <2>2, <2>3, <2>4, Zenon
<1>8. ASSUME NEW g \in Keys, NEW i \in 1..Len(m[g]), NEW j \in 1..(i - 1)
      PROVE  m[g][j] < m[g][i]
    <2>1. j \in 1..Len(m[g]) /\ j \in 1..Len(l[g]) /\ m[g][j] = l[g][j]
        <3>1. j \in 1..Len(m[g]) /\ i \in 1..Len(m[g]) /\ j \in Int /\ i \in Int /\ j < i
            <4>1. Len(m[g]) \in Nat
                BY <1>1, <1>2, <1>3
            <4> QED
                BY <4>1
        <3>2. i \in 1..Len(l[g]) \/ (g = k /\ i = Len(l[k]) + 1)
            BY <1>5, Zenon
        <3>3. j \in 1..Len(l[g])
            BY <1>3, <3>1, <3>2
        <3>4. m[g][j] = l[g][j]
            BY <1>1, <1>2, <3>3
        <3> QED
            BY <3>1, <3>3, <3>4
    <2>2. CASE g = k /\ i = Len(l[k]) + 1 /\ m[g][i] = c + 1
        BY <1>3, <2>1, <2>2
    <2>3. CASE i \in 1..Len(l[g]) /\ m[g][i] = l[g][i]
        BY <1>4, <2>1, <2>3
    <2> QED
        BY <1>5, <2>2, <2>3
<1> QED
    BY <1>6, <1>7, <1>8 DEF Log!Numbered, m

LEMMA NumbersStart == Log!Init => Log!TypeOK /\ Log!NumbersAreUnique
<1> SUFFICES ASSUME Log!Init PROVE Log!TypeOK /\ Log!NumbersAreUnique
    OBVIOUS
<1> DEFINE l == Numbers(work)
           m == Numbers(disk.work)
<1>1. l = [k \in Keys |-> <<>>] /\ next = 0 /\ m = l /\ disk.next = 0
    BY DEF Log!Init, Log!Copy
<1> HIDE DEF l, m
<1>2. Log!Numbered(l, 0) /\ l \in [Keys -> Seq(Nat)]
    BY <1>1 DEF Log!Numbered
<1> QED
    BY <1>1, <1>2 DEF Log!TypeOK, Log!NumbersAreUnique, l, m

LEMMA NumbersStay == Log!TypeOK /\ Log!NumbersAreUnique /\ [Log!Next]_(Log!vars)
                       => Log!TypeOK' /\ Log!NumbersAreUnique'
<1> DEFINE l == Numbers(work)
           m == Numbers(disk.work)
           c == next
           d == disk.next
<1> SUFFICES ASSUME Log!TypeOK, Log!NumbersAreUnique, [Log!Next]_(Log!vars)
             PROVE  Log!TypeOK' /\ Log!NumbersAreUnique'
    OBVIOUS
<1>1. /\ l \in [Keys -> Seq(Nat)] /\ c \in Nat /\ m \in [Keys -> Seq(Nat)] /\ d \in Nat
      /\ Log!Numbered(l, c) /\ Log!Numbered(m, d)
    BY DEF Log!TypeOK, Log!NumbersAreUnique
<1>2. ASSUME l' \in [Keys -> Seq(Nat)], c' \in Nat, m' \in [Keys -> Seq(Nat)], d' \in Nat,
             Log!Numbered(l', c'), Log!Numbered(m', d')
      PROVE  Log!TypeOK' /\ Log!NumbersAreUnique'
    BY <1>2 DEF Log!TypeOK, Log!NumbersAreUnique
<1>3. \/ \E k \in Keys : Log!Enter(k)
      \/ Log!Waste \/ Log!Save \/ Log!Crash \/ UNCHANGED Log!vars
    BY DEF Log!Next
<1>4. ASSUME NEW k \in Keys, l' = [l EXCEPT ![k] = Append(@, c + 1)], c' = c + 1, m' = m, d' = d
      PROVE  Log!TypeOK' /\ Log!NumbersAreUnique'
    <2>1. [l EXCEPT ![k] = Append(@, c + 1)] \in [Keys -> Seq(Nat)]
        <3>1. l[k] \in Seq(Nat) /\ c + 1 \in Nat
            BY <1>1
        <3> HIDE DEF l, c
        <3>2. Append(l[k], c + 1) \in Seq(Nat)
            BY <3>1
        <3> QED
            BY <1>1, <3>2
    <2>2. Log!Numbered([l EXCEPT ![k] = Append(@, c + 1)], c + 1)
        BY <1>1, EnteringKeepsNumbers
    <2> HIDE DEF l, m, c, d
    <2> QED
        BY <1>1, <1>2, <1>4, <2>1, <2>2
<1>5. ASSUME l' = l, c' = c + 1, m' = m, d' = d PROVE Log!TypeOK' /\ Log!NumbersAreUnique'
    <2>1. \A k \in Keys : \A i \in 1..Len(l[k]) : l[k][i] \in Nat
        BY <1>1
    <2> HIDE DEF l, m, c, d
    <2>2. Log!Numbered(l, c + 1)
        <3>1. \A k \in Keys : \A i \in 1..Len(l[k]) : l[k][i] <= c
            BY <1>1 DEF Log!Numbered
        <3>2. \A k \in Keys : \A i \in 1..Len(l[k]) : l[k][i] <= c + 1
            BY <1>1, <2>1, <3>1
        <3> QED
            BY <1>1, <3>2, Zenon DEF Log!Numbered
    <2> QED
        BY <1>1, <1>2, <1>5, <2>2
<1>6. CASE Log!Save
    <2>1. l' = l /\ c' = c /\ m' = l /\ d' = c
        BY <1>6 DEF Log!Save, Log!Copy
    <2> HIDE DEF l, m, c, d
    <2> QED
        BY <1>1, <1>2, <2>1
<1>7. CASE Log!Crash
    <2>1. l' = m /\ c' = d /\ m' = m /\ d' = d
        BY <1>7 DEF Log!Crash
    <2> HIDE DEF l, m, c, d
    <2> QED
        BY <1>1, <1>2, <2>1
<1>8. CASE UNCHANGED Log!vars
    <2>1. l' = l /\ c' = c /\ m' = m /\ d' = d
        BY <1>8 DEF Log!vars
    <2> HIDE DEF l, m, c, d
    <2> QED
        BY <1>1, <1>2, <2>1
<1>9. ASSUME NEW k \in Keys, Log!Enter(k)
      PROVE  l' = [l EXCEPT ![k] = Append(@, c + 1)] /\ c' = c + 1 /\ m' = m /\ d' = d
    BY <1>9 DEF Log!Enter
<1>10. Log!Waste => l' = l /\ c' = c + 1 /\ m' = m /\ d' = d
    BY DEF Log!Waste
<1> HIDE DEF l, m, c, d
<1> QED
    BY <1>3, <1>4, <1>5, <1>6, <1>7, <1>8, <1>9, <1>10

\* No number stands for two entries, in memory or in the file, and a log's numbers grow:
\* for every log that AuditLog allows, and so for the audit of the control plane
\* (ControlPlane::next_sequence), also after it was loaded again.
THEOREM NumbersNeverRepeat ==
    /\ Log!Spec => []Log!NumbersAreUnique
    /\ Spec => []Log!NumbersAreUnique
<1>1. Log!Spec => []Log!NumbersAreUnique
    <2>1. Log!Spec => [](Log!TypeOK /\ Log!NumbersAreUnique)
        BY NumbersStart, NumbersStay, PTL DEF Log!Spec
    <2> QED
        BY <2>1, PTL
<1>2. Spec => []Log!NumbersAreUnique
    BY <1>1, PlaneImplementsLog, PTL DEF ImplementsAuditLog
<1> QED
    BY <1>1, <1>2
=============================================================================
