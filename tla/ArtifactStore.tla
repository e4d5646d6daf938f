---------------------------- MODULE ArtifactStore ----------------------------
(***************************************************************************)
(* The artifacts of one workspace (src/src/artifacts.rs).  A store is a    *)
(* record: for each artifact the versions made of it, oldest first, for    *)
(* each version what it was derived from.  Names, media types, contents    *)
(* and who created what are left out: the code checks their form before it *)
(* changes anything and never looks at them again.                         *)
(***************************************************************************)
EXTENDS Integers, Sequences, SequencesExt

CONSTANTS
    ArtIds,
    VerIds,
    Nil,        \* no artifact, no version, no parent
    MaxVersion  \* u64::MAX, the last sequence a version can get

NewArtifact == [current |-> Nil, versions |-> <<>>]

Empty ==
    [artifacts |-> [a \in ArtIds |-> Nil],
     versions  |-> [v \in VerIds |-> Nil],
     next      |-> 0]

\* The stores there are.
Stores ==
    [artifacts : [ArtIds -> [current : VerIds \cup {Nil}, versions : Seq(VerIds)] \cup {Nil}],
     versions  : [VerIds -> [artifact : ArtIds, parent : VerIds \cup {Nil},
                             inputs : Seq(VerIds), sequence : 1..MaxVersion] \cup {Nil}],
     next      : 0..MaxVersion]

\* A request for a version, as the program can be asked for one.
Requests(parents, inputs) ==
    [id : VerIds, artifact : ArtIds, parent : parents, inputs : inputs]

CanCreateArtifact(s, a) == s.artifacts[a] = Nil

WithArtifact(s, a) == [s EXCEPT !.artifacts[a] = NewArtifact]

----------------------------------------------------------------------------
\* A parent is an earlier version of the same artifact.
ParentFits(s, r) ==
    r.parent # Nil =>
        /\ s.versions[r.parent] # Nil
        /\ s.versions[r.parent].artifact = r.artifact

\* Inputs are versions of any artifact of the workspace, each named once.
InputsFit(s, r) ==
    /\ IsInjective(r.inputs)
    /\ \A i \in DOMAIN r.inputs : s.versions[r.inputs[i]] # Nil

CanCreateVersion(s, r) ==
    /\ s.versions[r.id] = Nil
    /\ s.artifacts[r.artifact] # Nil
    /\ ParentFits(s, r)
    /\ InputsFit(s, r)
    /\ s.next < MaxVersion

WithVersion(s, r) ==
    [s EXCEPT
        !.next = @ + 1,
        !.versions[r.id] = [artifact |-> r.artifact, parent |-> r.parent,
                            inputs |-> r.inputs, sequence |-> s.next + 1],
        !.artifacts[r.artifact] = [current |-> r.id, versions |-> Append(@.versions, r.id)]]

----------------------------------------------------------------------------
Made(s) == {v \in VerIds : s.versions[v] # Nil}

History(s, a) == s.artifacts[a].versions

\* The history of an artifact holds versions of it, in order, and ends with the
\* current one.
HistorySound(s, a) ==
    LET h == History(s, a)
    IN  /\ \A i \in 1..Len(h) :
             /\ h[i] \in Made(s)
             /\ s.versions[h[i]].artifact = a
             /\ i > 1 => s.versions[h[i - 1]].sequence < s.versions[h[i]].sequence
        /\ s.artifacts[a].current = IF h = <<>> THEN Nil ELSE h[Len(h)]

\* A version stands in the history of its artifact, and what it is derived from is
\* older than it, a parent of the same artifact.
OriginSound(s, v) ==
    LET version == s.versions[v]
        h == History(s, version.artifact)
    IN  /\ s.artifacts[version.artifact] # Nil
        /\ \E i \in 1..Len(h) : h[i] = v
        /\ version.parent # Nil =>
             /\ version.parent \in Made(s)
             /\ s.versions[version.parent].artifact = version.artifact
             /\ s.versions[version.parent].sequence < version.sequence
        /\ \A i \in DOMAIN version.inputs :
             /\ version.inputs[i] \in Made(s)
             /\ s.versions[version.inputs[i]].sequence < version.sequence

\* Lineage has no cycle and never leaves the workspace.
LineageSound(s) ==
    /\ \A a \in ArtIds : s.artifacts[a] # Nil => HistorySound(s, a)
    /\ \A v \in Made(s) : OriginSound(s, v)
==============================================================================
