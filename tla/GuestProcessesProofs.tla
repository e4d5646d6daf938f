------------------------ MODULE GuestProcessesProofs ------------------------
(***************************************************************************)
(* Proofs about a guest VM: its processes (GuestProcesses) and its         *)
(* filesystem (GuestFilesystem), which share nothing here.                 *)
(*                                                                         *)
(* Processes.  The inductive invariant is TypeOK and QueueExact together:  *)
(* that a failed process has left the queue needs that no process is in it *)
(* twice, and conversely.                                                  *)
(*                                                                         *)
(* Files.  The bytes of a tree are a fold over its paths, so what one      *)
(* write adds to them is shown by induction over the finite subsets of a   *)
(* set (SubsetInduction, from the least counterexample).  FilesInv says    *)
(* that the counters are right and every entry of a restore has a place;   *)
(* CopyInv adds that a tree has a directory above every path, and that a   *)
(* restore under way holds the part of the captured tree it was through    *)
(* with and has exactly the rest before it, parents first.                 *)
(***************************************************************************)
EXTENDS GuestProcesses, GuestFilesystem, SequenceTheorems, FiniteSetTheorems,
        WellFoundedInduction, TLAPS

Outcomes == {"Ready", "Exited", "Failed"}
Sound == TypeOK /\ QueueExact

----------------------------------------------------------------------------
(* The queue after a tick. *)

\* What is behind place k keeps its order and moves up by k.
LEMMA BehindFacts ==
    ASSUME TypeOK, NEW k \in 1..Len(runnable)
    PROVE  /\ runnable \in Seq(Pids) /\ Len(runnable) \in Nat
           /\ Behind(k) \in Seq(Pids)
           /\ Len(Behind(k)) = Len(runnable) - k
           /\ \A i \in 1..(Len(runnable) - k) : Behind(k)[i] = runnable[i + k]
  <1>1. runnable \in Seq(Pids) /\ Len(runnable) \in Nat
    BY LenProperties DEF TypeOK
  <1>2. \A i \in (k + 1)..Len(runnable) : runnable[i] \in Pids
    BY <1>1, LenProperties
  <1>3. k + 1 \in Int /\ Len(runnable) \in Int
    BY <1>1
  <1>4. /\ Behind(k) \in Seq(Pids)
        /\ Len(Behind(k)) = IF k + 1 <= Len(runnable) THEN Len(runnable) - (k + 1) + 1 ELSE 0
        /\ \A i \in 1..(Len(runnable) - (k + 1) + 1) : Behind(k)[i] = runnable[(k + 1) + i - 1]
    BY <1>2, <1>3, SubSeqProperties DEF Behind
  <1>5. Len(Behind(k)) = Len(runnable) - k
    BY <1>1, <1>4
  <1>6. ASSUME NEW i \in 1..(Len(runnable) - k)
        PROVE  Behind(k)[i] = runnable[i + k]
    <2>1. i \in 1..(Len(runnable) - (k + 1) + 1) /\ (k + 1) + i - 1 = i + k
      BY <1>1
    <2> QED
      BY <1>4, <2>1
  <1> QED
    BY <1>1, <1>4, <1>5, <1>6

\* One instruction, its outcome as a parameter.
Ran(k, outcome) ==
    /\ k \in 1..Len(runnable) /\ FirstReady(k)
    /\ ticks' = ticks + 1
    /\ outcome \in Outcomes
    /\ state' = [state EXCEPT ![runnable[k]] = outcome]
    /\ runnable' = IF outcome = "Ready" THEN Requeue(k) ELSE Behind(k)

LEMMA RunIsRan ==
    ASSUME Run
    PROVE  \E k \in 1..Len(runnable), outcome \in Outcomes : Ran(k, outcome)
  BY Zenon DEF Run, Ran, Outcomes

\* The new queue, place by place.
LEMMA RanFacts ==
    ASSUME TypeOK, NEW k, NEW outcome, Ran(k, outcome)
    PROVE  /\ runnable[k] \in Pids
           /\ runnable' \in Seq(Pids)
           /\ Len(runnable') = (Len(runnable) - k) + (IF outcome = "Ready" THEN 1 ELSE 0)
           /\ \A i \in 1..(Len(runnable) - k) : runnable'[i] = runnable[i + k]
           /\ outcome = "Ready" => runnable'[(Len(runnable) - k) + 1] = runnable[k]
           /\ state' \in [Pids -> Outcomes]
           /\ state'[runnable[k]] = outcome
           /\ \A p \in Pids : p # runnable[k] => state'[p] = state[p]
  <1>1. k \in 1..Len(runnable) /\ outcome \in Outcomes
    BY DEF Ran
  <1>2. /\ runnable \in Seq(Pids) /\ Len(runnable) \in Nat
        /\ Behind(k) \in Seq(Pids)
        /\ Len(Behind(k)) = Len(runnable) - k
        /\ \A i \in 1..(Len(runnable) - k) : Behind(k)[i] = runnable[i + k]
    BY <1>1, BehindFacts
  <1>3. runnable[k] \in Pids
    BY <1>1, <1>2, LenProperties
  <1>4. /\ Requeue(k) \in Seq(Pids)
        /\ Len(Requeue(k)) = Len(Behind(k)) + 1
        /\ \A i \in 1..Len(Behind(k)) : Requeue(k)[i] = Behind(k)[i]
        /\ Requeue(k)[Len(Behind(k)) + 1] = runnable[k]
    BY <1>2, <1>3, AppendProperties DEF Requeue
  <1>5. /\ state' \in [Pids -> Outcomes]
        /\ state'[runnable[k]] = outcome
        /\ \A p \in Pids : p # runnable[k] => state'[p] = state[p]
    BY <1>1, <1>3 DEF Ran, TypeOK, Outcomes
  <1>6. CASE outcome = "Ready"
    <2>1. runnable' = Requeue(k)
      BY <1>6 DEF Ran
    <2> QED
      BY <1>2, <1>3, <1>4, <1>5, <1>6, <2>1
  <1>7. CASE outcome # "Ready"
    <2>1. runnable' = Behind(k)
      BY <1>7 DEF Ran
    <2> QED
      BY <1>2, <1>3, <1>5, <1>7, <2>1
  <1> QED
    BY <1>6, <1>7

----------------------------------------------------------------------------
(* The invariant. *)

LEMMA InitSound == Init => Sound
  <1> SUFFICES ASSUME Init PROVE Sound
    OBVIOUS
  <1> USE ProcessesAssumption DEF ProcessesAssumption
  <1>1. Pids = {} /\ 1..(nextPid - 1) = {}
    BY DEF Init, Pids
  <1>2. Cardinality(Pids) <= MaxProcesses
    BY <1>1, FS_EmptySet
  <1>3. runnable \in Seq(Pids)
    BY EmptySeq DEF Init
  <1>4. state \in [Pids -> {"Ready", "Exited", "Failed"}]
    BY <1>1 DEF Init, Pids
  <1>5. TypeOK
    BY <1>1, <1>2, <1>3, <1>4 DEF TypeOK, Init, NoRun
  <1> QED
    BY <1>1, <1>5 DEF Sound, QueueExact

\* spawn adds a ready process at the end of the table and of the queue.
LEMMA SpawnKeeps ==
    ASSUME Sound, Spawn
    PROVE  Sound'
  <1> USE ProcessesAssumption DEF ProcessesAssumption
  <1>1. TypeOK /\ QueueExact
    BY DEF Sound
  <1>2. runnable \in Seq(Pids) /\ Len(runnable) \in Nat
    BY <1>1, LenProperties DEF TypeOK
  <1>3. nextPid \in 1..MaxPid /\ Pids = 1..(nextPid - 1) /\ nextPid < MaxPid
        /\ nextPid' = nextPid + 1 /\ nextPid - 1 < MaxProcesses
    BY <1>1 DEF TypeOK, Spawn
  <1>4. Pids' = Pids \cup {nextPid} /\ nextPid \notin Pids
    BY <1>3 DEF Spawn, Pids
  <1>5. Pids' = 1..(nextPid' - 1)
    BY <1>3, <1>4
  <1>6. Cardinality(Pids') <= MaxProcesses
    <2>1. Cardinality(1..nextPid) = nextPid
      BY <1>3, FS_Interval
    <2> QED
      BY <1>3, <1>5, <2>1
  <1>7. state' \in [Pids' -> {"Ready", "Exited", "Failed"}]
        /\ state'[nextPid] = "Ready"
        /\ \A p \in Pids : state'[p] = state[p]
    <2>1. state' = [p \in Pids' |-> IF p = nextPid THEN "Ready" ELSE state[p]]
      BY <1>4 DEF Spawn
    <2> HIDE DEF Pids
    <2> QED
      BY <1>1, <1>4, <2>1 DEF TypeOK
  <1>8. /\ runnable' \in Seq(Pids')
        /\ Len(runnable') = Len(runnable) + 1
        /\ \A i \in 1..Len(runnable) : runnable'[i] = runnable[i]
        /\ runnable'[Len(runnable) + 1] = nextPid
    <2>1. \A i \in 1..Len(runnable) : runnable[i] \in Pids'
      BY <1>2, <1>4, LenProperties
    <2>2. runnable \in Seq(Pids') /\ nextPid \in Pids'
      BY <1>2, <1>4, <2>1, SeqDef, LenProperties
    <2> QED
      BY <2>2, AppendProperties DEF Spawn
  <1>9. TypeOK'
    BY <1>1, <1>3, <1>5, <1>6, <1>7, <1>8 DEF TypeOK, Spawn
  <1>10. \A i \in 1..Len(runnable) : runnable[i] # nextPid
    BY <1>2, <1>4, LenProperties
  <1>11. QueueExact'
    <2> SUFFICES ASSUME NEW p \in Pids'
                 PROVE  /\ Ready(p)' => Occurrences(p)' # {}
                        /\ \A j, k \in Occurrences(p)' : j = k
                        /\ state'[p] = "Failed" => Occurrences(p)' = {}
      BY DEF QueueExact
    <2>1. CASE p = nextPid
      <3>1. Occurrences(p)' = {Len(runnable) + 1}
        BY <1>2, <1>8, <1>10, <2>1 DEF Occurrences
      <3> QED
        BY <1>7, <2>1, <3>1
    <2>2. CASE p # nextPid
      <3>1. p \in Pids
        BY <1>4, <2>2
      <3>2. Occurrences(p)' = Occurrences(p)
        BY <1>2, <1>8, <2>2 DEF Occurrences
      <3> QED
        BY <1>1, <1>7, <3>1, <3>2 DEF QueueExact, Ready
    <2> QED
      BY <2>1, <2>2
  <1> QED
    BY <1>9, <1>11 DEF Sound

LEMMA ExitKeeps ==
    ASSUME Sound, NEW pid \in Pids, Exit(pid)
    PROVE  Sound'
  <1>1. TypeOK /\ QueueExact
    BY DEF Sound
  <1>2. /\ Pids' = Pids
        /\ state' \in [Pids -> {"Ready", "Exited", "Failed"}]
        /\ \A p \in Pids : state'[p] = IF p = pid THEN "Exited" ELSE state[p]
    BY <1>1 DEF TypeOK, Exit, Pids
  <1>3. TypeOK'
    BY <1>1, <1>2 DEF TypeOK, Exit
  <1>4. \A p : Occurrences(p)' = Occurrences(p)
    BY DEF Occurrences, Exit
  <1>5. QueueExact'
    BY <1>1, <1>2, <1>4 DEF QueueExact, Ready
  <1> QED
    BY <1>3, <1>5 DEF Sound

\* One instruction: whoever ran is at the end of the queue or out of it.
LEMMA RanKeeps ==
    ASSUME Sound, ticks < MaxSteps, NEW k, NEW outcome, Ran(k, outcome)
    PROVE  /\ QueueExact'
           /\ Pids' = Pids
           /\ state' \in [Pids -> Outcomes]
           /\ runnable' \in Seq(Pids)
           /\ ticks' \in 0..MaxSteps
  <1> USE ProcessesAssumption DEF ProcessesAssumption
  <1> DEFINE r == runnable[k]
             gone == Len(runnable) - k
  <1>1. TypeOK /\ QueueExact
    BY DEF Sound
  <1>2. /\ r \in Pids
        /\ runnable' \in Seq(Pids)
        /\ Len(runnable') = gone + (IF outcome = "Ready" THEN 1 ELSE 0)
        /\ \A i \in 1..gone : runnable'[i] = runnable[i + k]
        /\ outcome = "Ready" => runnable'[gone + 1] = r
        /\ state' \in [Pids -> Outcomes]
        /\ state'[r] = outcome
        /\ \A p \in Pids : p # r => state'[p] = state[p]
    BY <1>1, RanFacts
  <1>3. k \in 1..Len(runnable) /\ Ready(r) /\ \A j \in 1..(k - 1) : ~Ready(runnable[j])
    BY DEF Ran, FirstReady
  <1>4. Len(runnable) \in Nat /\ gone \in Nat
    BY <1>1, <1>3, LenProperties DEF TypeOK
  <1>5. Pids' = Pids
    BY <1>2 DEF Pids
  <1>6. ticks' \in 0..MaxSteps
    BY <1>1 DEF Ran, TypeOK
  <1>7. \A j \in 1..Len(runnable) : runnable[j] = r => j = k
    <2>1. k \in Occurrences(r)
      BY <1>3 DEF Occurrences
    <2> QED
      BY <1>1, <1>2, <2>1 DEF QueueExact, Occurrences
  <1>8. QueueExact'
    <2> SUFFICES ASSUME NEW p \in Pids
                 PROVE  /\ Ready(p)' => Occurrences(p)' # {}
                        /\ \A i, j \in Occurrences(p)' : i = j
                        /\ state'[p] = "Failed" => Occurrences(p)' = {}
      BY <1>5 DEF QueueExact
    <2> HIDE DEF r, gone
    <2>1. CASE p = r
      <3>1. \A i \in 1..gone : runnable'[i] # r
        <4> SUFFICES ASSUME NEW i \in 1..gone, runnable'[i] = r
                     PROVE  FALSE
          OBVIOUS
        <4>1. i + k \in 1..Len(runnable) /\ i + k # k
          BY <1>3, <1>4 DEF gone
        <4>2. runnable[i + k] = r
          BY <1>2
        <4> QED
          BY <1>7, <4>1, <4>2
      <3>2. CASE outcome = "Ready"
        <4>1. Occurrences(p)' = {gone + 1}
          BY <1>2, <1>4, <2>1, <3>1, <3>2 DEF Occurrences
        <4> QED
          BY <1>2, <2>1, <3>2, <4>1
      <3>3. CASE outcome # "Ready"
        <4>1. Occurrences(p)' = {}
          BY <1>2, <1>4, <2>1, <3>1, <3>3 DEF Occurrences
        <4>2. ~Ready(p)'
          BY <1>2, <2>1, <3>3 DEF Ready
        <4> QED
          BY <4>1, <4>2
      <3> QED
        BY <3>2, <3>3
    <2>2. CASE p # r
      <3>1. \A i \in Occurrences(p)' : i \in 1..gone /\ i + k \in Occurrences(p)
        <4> SUFFICES ASSUME NEW i \in Occurrences(p)'
                     PROVE  i \in 1..gone /\ i + k \in Occurrences(p)
          OBVIOUS
        <4>1. i \in 1..Len(runnable') /\ runnable'[i] = p
          BY DEF Occurrences
        <4>2. i \in 1..gone
          BY <1>2, <1>4, <2>2, <4>1
        <4>3. i + k \in 1..Len(runnable) /\ runnable[i + k] = p
          BY <1>2, <1>3, <1>4, <4>1, <4>2 DEF gone
        <4> QED
          BY <4>2, <4>3 DEF Occurrences
      <3>2. \A i, j \in Occurrences(p)' : i = j
        <4> SUFFICES ASSUME NEW i \in Occurrences(p)', NEW j \in Occurrences(p)'
                     PROVE  i = j
          OBVIOUS
        <4>1. i + k = j + k
          BY <1>1, <3>1 DEF QueueExact
        <4> QED
          BY <1>3, <1>4, <3>1, <4>1
      <3>3. state'[p] = "Failed" => Occurrences(p)' = {}
        BY <1>1, <1>2, <2>2, <3>1 DEF QueueExact
      <3>4. Ready(p)' => Occurrences(p)' # {}
        <4> SUFFICES ASSUME Ready(p)'
                     PROVE  Occurrences(p)' # {}
          OBVIOUS
        <4>1. Ready(p)
          BY <1>2, <2>2 DEF Ready
        <4>2. PICK j \in Occurrences(p) : TRUE
          BY <1>1, <4>1 DEF QueueExact
        <4>3. j \in 1..Len(runnable) /\ runnable[j] = p
          BY <4>2 DEF Occurrences
        <4>4. j # k /\ ~(j < k)
          BY <1>3, <1>4, <2>2, <4>1, <4>3 DEF r
        <4>5. j - k \in 1..gone /\ (j - k) + k = j
          BY <1>3, <1>4, <4>3, <4>4 DEF gone
        <4>6. runnable'[j - k] = p
          BY <1>2, <4>3, <4>5
        <4>7. 1..gone \subseteq 1..Len(runnable')
          BY <1>2, <1>4
        <4>8. j - k \in Occurrences(p)'
          BY <4>5, <4>6, <4>7 DEF Occurrences
        <4> QED
          BY <4>8
      <3> QED
        BY <3>2, <3>3, <3>4
    <2> QED
      BY <2>1, <2>2
  <1> QED
    BY <1>2, <1>5, <1>6, <1>8

\* A queue without a ready process is thrown away: nobody is forgotten.
LEMMA DrainKeeps ==
    ASSUME Sound, Drain
    PROVE  /\ QueueExact'
           /\ Pids' = Pids /\ state' = state /\ ticks' = ticks
           /\ runnable' \in Seq(Pids)
           /\ \A p \in Pids : ~Ready(p)
  <1>1. TypeOK /\ QueueExact
    BY DEF Sound
  <1>2. runnable' = <<>> /\ state' = state /\ ticks' = ticks /\ Pids' = Pids
    BY DEF Drain, Pids
  <1>3. runnable' \in Seq(Pids)
    BY <1>2, EmptySeq, Zenon
  <1>4. \A p \in Pids : ~Ready(p)
    BY <1>1 DEF QueueExact, Occurrences, Drain, NobodyReady
  <1>5. \A p : Occurrences(p)' = {}
    <2>1. Len(runnable') = 0
      BY <1>2, EmptySeq
    <2> QED
      BY <2>1 DEF Occurrences
  <1>6. QueueExact'
    BY <1>2, <1>4, <1>5 DEF QueueExact, Ready
  <1> QED
    BY <1>2, <1>3, <1>4, <1>6

\* What run_until_idle does to its own two variables keeps their types.
LEMMA RunTypes ==
    ASSUME Sound, NEW k, NEW outcome, Ran(k, outcome), ticks < MaxSteps,
           nextPid' = nextPid, left' \in NoRun..MaxTicks,
           verdict' \in {"none", "idle", "limit"}
    PROVE  Sound'
  <1>1. /\ QueueExact' /\ Pids' = Pids /\ state' \in [Pids -> Outcomes]
        /\ runnable' \in Seq(Pids) /\ ticks' \in 0..MaxSteps
    BY RanKeeps
  <1>2. TypeOK'
    BY <1>1 DEF Sound, TypeOK, Outcomes
  <1> QED
    BY <1>1, <1>2 DEF Sound

LEMMA DrainTypes ==
    ASSUME Sound, Drain, nextPid' = nextPid, left' \in NoRun..MaxTicks,
           verdict' \in {"none", "idle", "limit"}
    PROVE  Sound'
  <1>1. /\ QueueExact' /\ Pids' = Pids /\ state' = state /\ ticks' = ticks
        /\ runnable' \in Seq(Pids)
    BY DrainKeeps
  <1>2. TypeOK'
    BY <1>1 DEF Sound, TypeOK
  <1> QED
    BY <1>1, <1>2 DEF Sound

LEMMA AnswerTypes ==
    ASSUME Sound, UNCHANGED <<state, runnable, nextPid, ticks>>,
           left' \in NoRun..MaxTicks, verdict' \in {"none", "idle", "limit"}
    PROVE  Sound'
  <1>1. TypeOK' /\ Pids' = Pids
    BY DEF Sound, TypeOK, Pids
  <1>2. QueueExact'
    BY <1>1 DEF Sound, QueueExact, Occurrences, Ready
  <1> QED
    BY <1>1, <1>2 DEF Sound

LEMMA StepSound == Sound /\ [Next]_vars => Sound'
  <1> SUFFICES ASSUME Sound, [Next]_vars PROVE Sound'
    OBVIOUS
  <1> USE ProcessesAssumption DEF ProcessesAssumption
  <1>0. left \in NoRun..MaxTicks /\ verdict \in {"none", "idle", "limit"}
        /\ ticks \in 0..MaxSteps
    BY DEF Sound, TypeOK
  <1>1. CASE Spawn
    BY <1>1, SpawnKeeps
  <1>2. CASE \E pid \in Pids : Exit(pid)
    BY <1>2, ExitKeeps
  <1>3. CASE Tick
    <2>1. CASE Run
      <3>1. PICK k \in 1..Len(runnable), outcome \in Outcomes : Ran(k, outcome)
        BY <2>1, RunIsRan
      <3> QED
        BY <1>0, <1>3, <3>1, RunTypes DEF Tick
    <2>2. CASE Drain
      BY <1>0, <1>3, <2>2, DrainTypes DEF Tick
    <2> QED
      BY <1>3, <2>1, <2>2 DEF Tick
  <1>4. CASE \E n \in 0..MaxTicks : StartRun(n)
    <2>1. left' \in NoRun..MaxTicks /\ verdict' \in {"none", "idle", "limit"}
      BY <1>4 DEF StartRun, NoRun
    <2> QED
      BY <1>4, <2>1, AnswerTypes DEF StartRun
  <1>5. CASE RunOut \/ QueueEmpty \/ StepsSpent
    <2>1. left' \in NoRun..MaxTicks /\ verdict' \in {"none", "idle", "limit"}
      BY <1>5 DEF RunOut, QueueEmpty, StepsSpent, Return, NoRun
    <2> QED
      BY <1>5, <2>1, AnswerTypes DEF RunOut, QueueEmpty, StepsSpent
  <1>6. CASE Pass
    <2>1. PICK k \in 1..Len(runnable), outcome \in Outcomes : Ran(k, outcome)
      BY <1>6, RunIsRan DEF Pass
    <2>2. left' \in NoRun..MaxTicks
      BY <1>0, <1>6 DEF Pass, NoRun
    <2> QED
      BY <1>0, <1>6, <2>1, <2>2, RunTypes DEF Pass
  <1>7. CASE DrainedPass
    <2>1. left' \in NoRun..MaxTicks /\ verdict' \in {"none", "idle", "limit"}
      BY <1>7 DEF DrainedPass, Return, NoRun
    <2> QED
      BY <1>7, <2>1, DrainTypes DEF DrainedPass
  <1>8. CASE UNCHANGED vars
    BY <1>0, <1>8, AnswerTypes DEF vars
  <1> QED
    BY <1>1, <1>2, <1>3, <1>4, <1>5, <1>6, <1>7, <1>8 DEF Next, RunStep

\* The process table, the queue and the counters keep their types; no limit of
\* the VM is passed (spawn, tick).
THEOREM ProcessTypes == Spec => []TypeOK
  <1>1. Sound => TypeOK
    BY DEF Sound
  <1> QED
    BY InitSound, StepSound, <1>1, PTL DEF Spec

\* For every limit: a ready process is in the queue exactly once, a failed one
\* never, an exited one at most once (spawn, tick, syscall).
THEOREM QueueStaysExact == Spec => []QueueExact
  <1>1. Sound => QueueExact
    BY DEF Sound
  <1> QED
    BY InitSound, StepSound, <1>1, PTL DEF Spec

----------------------------------------------------------------------------
(* What a step may never do. *)

Waits(j) ==
    LET p == runnable[j]
    IN  Ready(p) /\ state'[p] = "Ready" /\ (ticks' = ticks \/ ~FirstReady(j)) =>
          \E k \in 1..Len(runnable') :
             /\ runnable'[k] = p
             /\ IF ticks' = ticks THEN k <= j ELSE k < j

\* Only a tick moves anybody in the queue.
LEMMA RanWaits ==
    ASSUME Sound, NEW k, NEW outcome, Ran(k, outcome), NEW j \in 1..Len(runnable)
    PROVE  Waits(j)
  <1> SUFFICES ASSUME Ready(runnable[j]), ticks' = ticks \/ ~FirstReady(j)
               PROVE  \E i \in 1..Len(runnable') :
                         /\ runnable'[i] = runnable[j]
                         /\ IF ticks' = ticks THEN i <= j ELSE i < j
    BY DEF Waits
  <1>1. /\ Len(runnable') = (Len(runnable) - k) + (IF outcome = "Ready" THEN 1 ELSE 0)
        /\ \A i \in 1..(Len(runnable) - k) : runnable'[i] = runnable[i + k]
    BY RanFacts DEF Sound
  <1>2. Len(runnable) \in Nat
    BY LenProperties DEF Sound, TypeOK
  <1>3. k \in 1..Len(runnable) /\ FirstReady(k) /\ ticks' # ticks
    BY DEF Ran, Sound, TypeOK
  <1>4. j # k /\ ~(j < k)
    BY <1>2, <1>3 DEF FirstReady
  <1>5. /\ j - k \in 1..(Len(runnable) - k) /\ (j - k) + k = j /\ j - k < j
        /\ j - k \in 1..Len(runnable')
    BY <1>1, <1>2, <1>3, <1>4
  <1>6. runnable'[j - k] = runnable[j]
    BY <1>1, <1>5
  <1> QED
    BY <1>3, <1>5, <1>6

LEMMA StepWaits ==
    ASSUME Sound, Next, NEW j \in 1..Len(runnable)
    PROVE  Waits(j)
  <1>0. /\ runnable \in Seq(Pids) /\ Len(runnable) \in Nat
        /\ runnable[j] \in Pids /\ j \in Nat
    BY LenProperties DEF Sound, TypeOK
  <1>1. CASE Run
    BY <1>1, RunIsRan, RanWaits
  <1>2. CASE Drain
    BY <1>0, <1>2, DrainKeeps DEF Waits
  <1>3. CASE Spawn
    <2>1. \A i \in 1..Len(runnable) : runnable[i] \in Pids \cup {nextPid}
      BY <1>0, LenProperties
    <2>2. runnable \in Seq(Pids \cup {nextPid})
      BY <1>0, <2>1, SeqDef, LenProperties
    <2>3. /\ Len(runnable') = Len(runnable) + 1
          /\ \A i \in 1..Len(runnable) : runnable'[i] = runnable[i]
          /\ ticks' = ticks
      BY <1>3, <2>2, AppendProperties DEF Spawn
    <2>4. j \in 1..Len(runnable') /\ j <= j
      BY <1>0, <2>3
    <2> QED
      BY <2>3, <2>4 DEF Waits
  <1>4. CASE runnable' = runnable /\ ticks' = ticks
    <2>1. j <= j
      BY <1>0
    <2> QED
      BY <1>4, <2>1 DEF Waits
  <1> QED
    BY <1>1, <1>2, <1>3, <1>4
       DEF Next, Tick, RunStep, Exit, StartRun, RunOut, QueueEmpty, StepsSpent, Pass, DrainedPass

\* For every limit and every program: a waiting process never loses a place and
\* gains at least one with every instruction another executes (tick, spawn).
THEOREM WaitsShrink == Spec => WaitShrinks
  <1>1. ASSUME Sound, Next
        PROVE  \A j \in 1..Len(runnable) : Waits(j)
    BY <1>1, StepWaits
  <1>2. Sound /\ [Next]_vars =>
          [\A j \in 1..Len(runnable) :
             LET p == runnable[j]
             IN  Ready(p) /\ state'[p] = "Ready" /\ (ticks' = ticks \/ ~FirstReady(j)) =>
                   \E k \in 1..Len(runnable') :
                      /\ runnable'[k] = p
                      /\ IF ticks' = ticks THEN k <= j ELSE k < j]_vars
    BY <1>1 DEF Waits
  <1> QED
    BY InitSound, StepSound, <1>2, PTL DEF Spec, WaitShrinks

\* A process that has ended never becomes ready again, whatever is left of it
\* in the queue (tick, syscall).
THEOREM EndsAreFinal == Spec => EndIsFinal
  <1>1. ASSUME Sound, Next, NEW p \in Pids
        PROVE  p \in DOMAIN state' /\ (~Ready(p) => state'[p] # "Ready")
    <2>1. CASE Run
      <3>1. PICK k \in 1..Len(runnable), outcome \in Outcomes : Ran(k, outcome)
        BY <2>1, RunIsRan
      <3>2. Ready(runnable[k])
        BY <3>1 DEF Ran, FirstReady
      <3>3. /\ state' \in [Pids -> Outcomes]
            /\ \A q \in Pids : q # runnable[k] => state'[q] = state[q]
        BY <1>1, <3>1, RanFacts DEF Sound
      <3> QED
        BY <3>2, <3>3 DEF Ready
    <2>2. CASE Spawn
      <3>1. p # nextPid
        BY <1>1 DEF Sound, TypeOK
      <3> QED
        BY <2>2, <3>1 DEF Spawn, Ready
    <2>3. CASE \E pid \in Pids : Exit(pid)
      BY <1>1, <2>3 DEF Exit, Ready, Pids, Sound, TypeOK
    <2>4. CASE state' = state
      BY <2>4 DEF Ready, Pids
    <2> QED
      BY <1>1, <2>1, <2>2, <2>3, <2>4
         DEF Next, Tick, Drain, RunStep, StartRun, RunOut, QueueEmpty, StepsSpent, Pass, DrainedPass
  <1>2. Sound /\ [Next]_vars =>
          [\A p \in Pids : p \in DOMAIN state' /\ (~Ready(p) => state'[p] # "Ready")]_vars
    BY <1>1
  <1> QED
    BY InitSound, StepSound, <1>2, PTL DEF Spec, EndIsFinal

\* run_until_idle answers Ok only when no process is ready, its limit only with
\* something left in the queue, and counts what it executes.
THEOREM VerdictsAreTrue == Spec => VerdictIsTrue
  <1>1. ASSUME Sound, Next, left # NoRun
        PROVE  /\ left' = NoRun /\ verdict' = "idle" => \A p \in Pids : state'[p] # "Ready"
               /\ left' = NoRun /\ verdict' = "limit" => runnable' # <<>>
               /\ left' # NoRun => left - left' = ticks' - ticks
    <2>0. left \in Int /\ ticks \in Int
      BY <1>1 DEF Sound, TypeOK, NoRun
    <2>1. runnable = <<>> => \A p \in Pids : ~Ready(p)
      <3> SUFFICES ASSUME runnable = <<>>, NEW p \in Pids
                   PROVE  ~Ready(p)
        OBVIOUS
      <3>1. Len(runnable) = 0
        BY EmptySeq
      <3>2. Occurrences(p) = {}
        BY <3>1 DEF Occurrences
      <3> QED
        BY <1>1, <3>2 DEF Sound, QueueExact
    <2>2. CASE RunOut
      BY <2>1, <2>2 DEF RunOut, Return, Ready
    <2>3. CASE QueueEmpty
      BY <2>1, <2>3 DEF QueueEmpty, Return, Ready
    <2>4. CASE StepsSpent
      BY <2>4 DEF StepsSpent, Return
    <2>5. CASE Pass
      <3>1. ticks' = ticks + 1 /\ left' = left - 1
        BY <2>5 DEF Pass, Run
      <3>2. left' # NoRun
        BY <2>0, <2>5, <3>1 DEF Pass, NoRun
      <3> QED
        BY <2>0, <3>1, <3>2
    <2>6. CASE DrainedPass
      <3>1. state' = state /\ \A p \in Pids : ~Ready(p)
        BY <1>1, <2>6, DrainKeeps DEF DrainedPass
      <3> QED
        BY <2>6, <3>1 DEF DrainedPass, Return, Ready
    <2> QED
      BY <1>1, <2>2, <2>3, <2>4, <2>5, <2>6 DEF Next, RunStep, Spawn, Exit, Tick, StartRun
  <1>2. Sound /\ [Next]_vars =>
          [left # NoRun =>
             /\ left' = NoRun /\ verdict' = "idle" => \A p \in Pids : state'[p] # "Ready"
             /\ left' = NoRun /\ verdict' = "limit" => runnable' # <<>>
             /\ left' # NoRun => left - left' = ticks' - ticks]_vars
    BY <1>1
  <1> QED
    BY InitSound, StepSound, <1>2, PTL DEF Spec, VerdictIsTrue

----------------------------------------------------------------------------
(* The filesystem: recursion over finite sets. *)

LEMMA LeastOf ==
    ASSUME NEW T, T \subseteq Nat, T # {}
    PROVE  \E x \in T : \A y \in T : x <= y
<1>1. PICK x \in T : \A y \in T : ~(<<y, x>> \in OpToRel(<, Nat))
  BY NatLessThanWellFounded, WFMin
<1>2. \A y \in T : ~(y < x)  BY <1>1 DEF OpToRel
<1> QED  BY <1>2

\* g takes an element off at a time, as c says, and adds it as R says.
Folds(g, D, base, c, R) ==
    \A s \in D : g[s] = IF s = {} THEN base ELSE R[<<s, g[s \ {c[s]}]>>]

SmallOf(T, n) == {s \in SUBSET T : Cardinality(s) <= n}

LEMMA OneLess ==
    ASSUME NEW T, IsFiniteSet(T), NEW s \in SUBSET T, NEW x \in s
    PROVE  /\ IsFiniteSet(s) /\ Cardinality(s) \in Nat
           /\ s \ {x} \in SUBSET T /\ Cardinality(s \ {x}) = Cardinality(s) - 1 /\ Cardinality(s) >= 1
<1>1. IsFiniteSet(s)  BY FS_Subset
<1>2. Cardinality(s) \in Nat /\ Cardinality(s) # 0  BY <1>1, FS_CardinalityType, FS_EmptySet
<1>3. Cardinality(s \ {x}) = Cardinality(s) - 1  BY <1>1, FS_RemoveElement
<1> QED  BY <1>1, <1>2, <1>3

LEMMA FoldExists ==
    ASSUME NEW T, IsFiniteSet(T), NEW V, NEW base \in V, NEW c, NEW R \in [(SUBSET T) \X V -> V],
           \A s \in SUBSET T : s # {} => c[s] \in s
    PROVE  \E g \in [SUBSET T -> V] : Folds(g, SUBSET T, base, c, R)
<1> DEFINE D(n) == SmallOf(T, n)
           G(n) == \E g \in [D(n) -> V] : Folds(g, D(n), base, c, R)
           bad == {n \in Nat : ~G(n)}
<1>0. \A s \in SUBSET T : Cardinality(s) \in Nat /\ IsFiniteSet(s)  BY FS_Subset, FS_CardinalityType
<1>1. bad = {}
  <2> SUFFICES ASSUME bad # {} PROVE FALSE  OBVIOUS
  <2>1. PICK n \in bad : \A m \in bad : n <= m
    <3>1. bad \subseteq Nat  OBVIOUS
    <3> HIDE DEF bad
    <3> QED  BY <3>1, LeastOf
  <2>2. n \in Nat /\ ~G(n)  OBVIOUS
  <2>3. CASE n = 0
    <3>1. \A s \in D(0) : s = {}
      <4> SUFFICES ASSUME NEW s \in D(0) PROVE s = {}  OBVIOUS
      <4>1. s \in SUBSET T /\ Cardinality(s) = 0 /\ IsFiniteSet(s)  BY <1>0 DEF SmallOf
      <4> QED  BY <4>1, FS_EmptySet
    <3> DEFINE g == [s \in D(0) |-> base]
    <3>2. g \in [D(0) -> V] /\ Folds(g, D(0), base, c, R)  BY <3>1 DEF Folds
    <3> QED  BY <2>2, <2>3, <3>2
  <2>4. CASE n > 0
    <3>1. n - 1 \in Nat /\ n - 1 \notin bad  BY <2>1, <2>2, <2>4
    <3>2. PICK g \in [D(n - 1) -> V] : Folds(g, D(n - 1), base, c, R)  BY <3>1
    <3> DEFINE h == [s \in D(n) |-> IF s = {} THEN base ELSE R[<<s, g[s \ {c[s]}]>>]]
    <3>3. \A s \in D(n) : s # {} => s \ {c[s]} \in D(n - 1)
      <4> SUFFICES ASSUME NEW s \in D(n), s # {} PROVE s \ {c[s]} \in D(n - 1)  OBVIOUS
      <4>1. s \in SUBSET T /\ c[s] \in s /\ Cardinality(s) <= n  BY DEF SmallOf
      <4>2. s \ {c[s]} \in SUBSET T /\ Cardinality(s \ {c[s]}) = Cardinality(s) - 1 /\ Cardinality(s) \in Nat
        BY <4>1, OneLess
      <4>3. Cardinality(s) - 1 <= n - 1  BY <2>2, <4>1, <4>2
      <4> QED  BY <4>2, <4>3 DEF SmallOf
    <3>4. \A s \in D(n - 1) : s \in D(n)
      <4> SUFFICES ASSUME NEW s \in D(n - 1) PROVE s \in D(n)  OBVIOUS
      <4>1. s \in SUBSET T /\ Cardinality(s) \in Nat /\ Cardinality(s) <= n - 1  BY <1>0 DEF SmallOf
      <4> QED  BY <2>2, <4>1 DEF SmallOf
    <3>5. \A s \in D(n) : s \in SUBSET T  BY DEF SmallOf
    <3> HIDE DEF D
    <3>6. h \in [D(n) -> V]
      <4> SUFFICES ASSUME NEW s \in D(n), s # {} PROVE R[<<s, g[s \ {c[s]}]>>] \in V  OBVIOUS
      <4>1. g[s \ {c[s]}] \in V  BY <3>3
      <4> QED  BY <3>5, <4>1
    <3>7. \A s \in D(n - 1) : h[s] = g[s]  BY <3>2, <3>4 DEF Folds
    <3>8. Folds(h, D(n), base, c, R)  BY <3>3, <3>7 DEF Folds
    <3> QED  BY <2>2, <3>6, <3>8
  <2> QED  BY <2>2, <2>3, <2>4
<1>2. Cardinality(T) \in Nat  BY FS_CardinalityType
<1>3. D(Cardinality(T)) = SUBSET T
  <2>1. \A s \in SUBSET T : Cardinality(s) <= Cardinality(T)  BY FS_Subset
  <2> QED  BY <2>1 DEF SmallOf
<1>4. G(Cardinality(T))  BY <1>1, <1>2
<1> QED  BY <1>3, <1>4

\* What holds of a set when it holds of all that miss one of its elements,
\* holds of every subset of a finite set.
LEMMA SubsetInduction ==
    ASSUME NEW T, IsFiniteSet(T), NEW P,
           \A s \in SUBSET T : (\A x \in s : s \ {x} \in P) => s \in P
    PROVE  \A s \in SUBSET T : s \in P
<1> DEFINE bad == {Cardinality(s) : s \in {s \in SUBSET T : s \notin P}}
<1> SUFFICES ASSUME bad # {} PROVE FALSE  OBVIOUS
<1>1. bad \subseteq Nat  BY FS_Subset, FS_CardinalityType
<1>2. PICK n \in bad : \A m \in bad : n <= m
  <2> HIDE DEF bad
  <2> QED  BY <1>1, LeastOf
<1>3. PICK s \in SUBSET T : n = Cardinality(s) /\ s \notin P  OBVIOUS
<1>4. PICK x \in s : s \ {x} \notin P  BY <1>3
<1>5. s \ {x} \in SUBSET T /\ Cardinality(s \ {x}) = n - 1 /\ n \in Nat  BY <1>3, OneLess
<1>6. n - 1 \in bad  BY <1>4, <1>5
<1> QED  BY <1>2, <1>5, <1>6

----------------------------------------------------------------------------
(* Sums of sizes. *)

SumOver(t, T) == MapThenSumSet(LAMBDA p : t[p].size, T)

AnElement(s) == CHOOSE x \in s : TRUE

IsSum(g, t, T) ==
    g = [s \in SUBSET T |-> IF s = {} THEN 0 ELSE t[AnElement(s)].size + g[s \ {AnElement(s)}]]

AnyOf(T) == [s \in SUBSET T |-> AnElement(s)]
AddSize(t, T) == [sv \in (SUBSET T) \X Nat |-> IF sv[1] = {} THEN 0 ELSE t[AnElement(sv[1])].size + sv[2]]

LEMMA SumIs == ASSUME NEW t, NEW T PROVE SumOver(t, T) = (CHOOSE g : IsSum(g, t, T))[T]
BY DEF SumOver, MapThenSumSet, MapThenFoldSet, IsSum, AnElement

Sized(t, T) == IsFiniteSet(T) /\ \A p \in T : t[p].size \in Nat

LEMMA SumFold ==
    ASSUME NEW t, NEW T, Sized(t, T)
    PROVE  \E g \in [SUBSET T -> Nat] :
              /\ IsSum(g, t, T) /\ SumOver(t, T) = g[T]
<1> DEFINE R == AddSize(t, T)
           c == AnyOf(T)
<1>1. \A s \in SUBSET T : s # {} => AnElement(s) \in s  BY DEF AnElement
<1>2. \A s \in SUBSET T : c[s] = AnElement(s)  BY DEF AnyOf
<1>3. /\ R \in [(SUBSET T) \X Nat -> Nat]
      /\ \A s \in SUBSET T, n \in Nat : s # {} => R[<<s, n>>] = t[AnElement(s)].size + n
  <2>1. \A s \in SUBSET T, n \in Nat : s # {} => t[AnElement(s)].size + n \in Nat  BY <1>1 DEF Sized
  <2>2. \A sv \in (SUBSET T) \X Nat : (IF sv[1] = {} THEN 0 ELSE t[AnElement(sv[1])].size + sv[2]) \in Nat
    BY <2>1
  <2> QED  BY <2>2 DEF AddSize
<1>4. PICK g \in [SUBSET T -> Nat] : Folds(g, SUBSET T, 0, c, R)
  <2>1. IsFiniteSet(T)  BY DEF Sized
  <2>2. \A s \in SUBSET T : s # {} => c[s] \in s  BY <1>1, <1>2
  <2>3. R \in [(SUBSET T) \X Nat -> Nat] /\ 0 \in Nat  BY <1>3
  <2> HIDE DEF R, c
  <2> QED  BY <2>1, <2>2, <2>3, FoldExists, Zenon
<1> HIDE DEF R, c
<1>5. \A s \in SUBSET T : g[s] = IF s = {} THEN 0 ELSE t[AnElement(s)].size + g[s \ {AnElement(s)}]
  <2> SUFFICES ASSUME NEW s \in SUBSET T
               PROVE  g[s] = IF s = {} THEN 0 ELSE t[AnElement(s)].size + g[s \ {AnElement(s)}]
    OBVIOUS
  <2>1. g[s] = IF s = {} THEN 0 ELSE R[<<s, g[s \ {AnElement(s)}]>>]  BY <1>2, <1>4 DEF Folds
  <2>2. s \ {AnElement(s)} \in SUBSET T  OBVIOUS
  <2>3. g[s \ {AnElement(s)}] \in Nat  BY <1>4, <2>2
  <2>4. s # {} => R[<<s, g[s \ {AnElement(s)}]>>] = t[AnElement(s)].size + g[s \ {AnElement(s)}]  BY <1>3, <2>3
  <2> QED  BY <2>1, <2>4
<1>6. IsSum(g, t, T)  BY <1>5 DEF IsSum
<1> DEFINE h == CHOOSE h : IsSum(h, t, T)
<1>7. IsSum(h, t, T)  BY <1>6
<1>8. SumOver(t, T) = h[T]  BY SumIs
<1> HIDE DEF h
<1>9. \A s \in SUBSET T : h[s] = IF s = {} THEN 0 ELSE t[AnElement(s)].size + h[s \ {AnElement(s)}]
  BY <1>7, Zenon DEF IsSum
<1> DEFINE P == {s \in SUBSET T : g[s] = h[s]}
<1>10. \A s \in SUBSET T : (\A x \in s : s \ {x} \in P) => s \in P
  <2> SUFFICES ASSUME NEW s \in SUBSET T, \A x \in s : s \ {x} \in P PROVE g[s] = h[s]  OBVIOUS
  <2>1. s # {} => g[s \ {AnElement(s)}] = h[s \ {AnElement(s)}]  BY <1>1
  <2> QED  BY <1>5, <1>9, <2>1
<1> HIDE DEF P
<1>11. T \in P  BY <1>10, SubsetInduction DEF Sized
<1> QED  BY <1>6, <1>8, <1>11 DEF P

\* The sum of a set is that of one element less and its size.
LEMMA SumStep ==
    ASSUME NEW t, NEW T, Sized(t, T)
    PROVE  /\ SumOver(t, T) \in Nat
           /\ T = {} => SumOver(t, T) = 0
           /\ T # {} => AnElement(T) \in T /\ SumOver(t, T) = t[AnElement(T)].size + SumOver(t, T \ {AnElement(T)})
<1>1. PICK g \in [SUBSET T -> Nat] : IsSum(g, t, T) /\ SumOver(t, T) = g[T]  BY SumFold
<1>2. \A s \in SUBSET T : g[s] = IF s = {} THEN 0 ELSE t[AnElement(s)].size + g[s \ {AnElement(s)}]
  BY <1>1, Zenon DEF IsSum
<1>3. SumOver(t, T) \in Nat /\ (T = {} => SumOver(t, T) = 0)  BY <1>1, <1>2
<1>4. ASSUME T # {} PROVE AnElement(T) \in T /\ SumOver(t, T) = t[AnElement(T)].size + SumOver(t, T \ {AnElement(T)})
  <2> DEFINE U == T \ {AnElement(T)}
  <2>1. AnElement(T) \in T  BY <1>4 DEF AnElement
  <2>2. Sized(t, U)  BY FS_Subset DEF Sized
  <2>3. U \in SUBSET T  OBVIOUS
  <2> HIDE DEF U
  <2>4. PICK h \in [SUBSET U -> Nat] : IsSum(h, t, U) /\ SumOver(t, U) = h[U]  BY <2>2, SumFold
  <2>5. \A s \in SUBSET U : h[s] = IF s = {} THEN 0 ELSE t[AnElement(s)].size + h[s \ {AnElement(s)}]
    BY <2>4, Zenon DEF IsSum
  <2> DEFINE P == {s \in SUBSET U : g[s] = h[s]}
  <2>6. \A s \in SUBSET U : (\A x \in s : s \ {x} \in P) => s \in P
    <3> SUFFICES ASSUME NEW s \in SUBSET U, \A x \in s : s \ {x} \in P PROVE g[s] = h[s]  OBVIOUS
    <3>1. s # {} => AnElement(s) \in s  BY DEF AnElement
    <3>2. s # {} => g[s \ {AnElement(s)}] = h[s \ {AnElement(s)}]  BY <3>1
    <3>3. s \in SUBSET T  BY <2>3
    <3> QED  BY <1>2, <2>5, <3>2, <3>3
  <2> HIDE DEF P
  <2>7. U \in P  BY <2>2, <2>6, SubsetInduction DEF Sized
  <2>8. g[U] = SumOver(t, U)  BY <2>4, <2>7 DEF P
  <2>9. g[T] = t[AnElement(T)].size + g[T \ {AnElement(T)}]  BY <1>2, <1>4
  <2> QED  BY <1>1, <2>1, <2>8, <2>9 DEF U
<1> QED  BY <1>3, <1>4

\* Whichever element is taken off.
LEMMA SumLess ==
    ASSUME NEW t, NEW T, Sized(t, T), NEW y \in T
    PROVE  SumOver(t, T) = t[y].size + SumOver(t, T \ {y})
<1> DEFINE P == {s \in SUBSET T : \A x \in s : SumOver(t, s) = t[x].size + SumOver(t, s \ {x})}
<1>1. \A s \in SUBSET T : Sized(t, s) /\ SumOver(t, s) \in Nat
  <2> SUFFICES ASSUME NEW s \in SUBSET T PROVE Sized(t, s) /\ SumOver(t, s) \in Nat  OBVIOUS
  <2>1. Sized(t, s)  BY FS_Subset DEF Sized
  <2> QED  BY <2>1, SumStep
<1>2. ASSUME NEW s \in SUBSET T, \A x \in s : s \ {x} \in P PROVE s \in P
  <2> SUFFICES ASSUME NEW x \in s PROVE SumOver(t, s) = t[x].size + SumOver(t, s \ {x})  OBVIOUS
  <2> DEFINE a == AnElement(s)
  <2>1. a \in s /\ SumOver(t, s) = t[a].size + SumOver(t, s \ {a})  BY <1>1, SumStep
  <2> HIDE DEF a
  <2>2. CASE x = a  BY <2>1, <2>2
  <2>3. CASE x # a
    <3>1. SumOver(t, s \ {a}) = t[x].size + SumOver(t, (s \ {a}) \ {x})  BY <1>2, <2>1, <2>3
    <3>2. SumOver(t, s \ {x}) = t[a].size + SumOver(t, (s \ {x}) \ {a})  BY <1>2, <2>1, <2>3
    <3>3. SumOver(t, (s \ {a}) \ {x}) = SumOver(t, (s \ {x}) \ {a})
      <4>1. (s \ {a}) \ {x} = (s \ {x}) \ {a}  OBVIOUS
      <4> QED  BY <4>1
    <3>4. /\ t[a].size \in Nat /\ t[x].size \in Nat /\ SumOver(t, s) \in Nat
          /\ SumOver(t, s \ {x}) \in Nat /\ SumOver(t, (s \ {x}) \ {a}) \in Nat
      BY <1>1, <2>1 DEF Sized
    <3> QED  BY <2>1, <3>1, <3>2, <3>3, <3>4
  <2> QED  BY <2>2, <2>3
<1> HIDE DEF P
<1>3. T \in P
  <2>1. \A s \in SUBSET T : (\A x \in s : s \ {x} \in P) => s \in P  BY <1>2
  <2>2. IsFiniteSet(T)  BY DEF Sized
  <2>3. \A s \in SUBSET T : s \in P  BY <2>1, <2>2, SubsetInduction, Zenon
  <2> QED  BY <2>3
<1> QED  BY <1>3 DEF P

\* The sum depends on the sizes only.
LEMMA SumSame ==
    ASSUME NEW t, NEW u, NEW T, Sized(t, T), \A p \in T : t[p].size = u[p].size
    PROVE  SumOver(u, T) = SumOver(t, T)
<1> DEFINE P == {s \in SUBSET T : SumOver(u, s) = SumOver(t, s)}
<1>1. \A s \in SUBSET T : Sized(t, s) /\ Sized(u, s)  BY FS_Subset DEF Sized
<1>2. ASSUME NEW s \in SUBSET T, \A x \in s : s \ {x} \in P PROVE s \in P
  <2>1. CASE s = {}  BY <1>1, <2>1, SumStep
  <2>2. CASE s # {}
    <3> DEFINE a == AnElement(s)
    <3>1. /\ a \in s /\ SumOver(t, s) = t[a].size + SumOver(t, s \ {a})
          /\ SumOver(u, s) = u[a].size + SumOver(u, s \ {a})
      BY <1>1, <2>2, SumStep
    <3> HIDE DEF a
    <3> QED  BY <1>2, <3>1
  <2> QED  BY <2>1, <2>2
<1> HIDE DEF P
<1>3. T \in P
  <2>1. \A s \in SUBSET T : (\A x \in s : s \ {x} \in P) => s \in P  BY <1>2
  <2>2. IsFiniteSet(T)  BY DEF Sized
  <2>3. \A s \in SUBSET T : s \in P  BY <2>1, <2>2, SubsetInduction, Zenon
  <2> QED  BY <2>3
<1> QED  BY <1>3 DEF P

\* What is empty adds nothing.
LEMMA SumMore ==
    ASSUME NEW t, NEW T, Sized(t, T), NEW U, U \subseteq T, \A p \in T \ U : t[p].size = 0
    PROVE  SumOver(t, T) = SumOver(t, U)
<1> DEFINE Z == T \ U
           P == {s \in SUBSET Z : SumOver(t, U \cup s) = SumOver(t, U)}
<1>1. \A s \in SUBSET T : Sized(t, s) /\ SumOver(t, s) \in Nat
  <2> SUFFICES ASSUME NEW s \in SUBSET T PROVE Sized(t, s) /\ SumOver(t, s) \in Nat  OBVIOUS
  <2>1. Sized(t, s)  BY FS_Subset DEF Sized
  <2> QED  BY <2>1, SumStep
<1>2. ASSUME NEW s \in SUBSET Z, \A x \in s : s \ {x} \in P PROVE s \in P
  <2>1. CASE s = {}
    <3>1. U \cup s = U  BY <2>1
    <3> QED  BY <3>1
  <2>2. CASE s # {}
    <3>1. PICK x \in s : TRUE  BY <2>2
    <3>2. (U \cup s) \ {x} = U \cup (s \ {x}) /\ U \cup s \in SUBSET T /\ U \cup (s \ {x}) \in SUBSET T
      OBVIOUS
    <3>3. SumOver(t, U \cup s) = t[x].size + SumOver(t, U \cup (s \ {x}))  BY <1>1, <3>2, SumLess
    <3>4. t[x].size = 0 /\ SumOver(t, U \cup (s \ {x})) = SumOver(t, U)  BY <1>2
    <3> QED  BY <1>1, <3>2, <3>3, <3>4
  <2> QED  BY <2>1, <2>2
<1>3. IsFiniteSet(Z)  BY FS_Subset DEF Sized
<1> HIDE DEF P
<1>4. Z \in P
  <2>1. \A s \in SUBSET Z : (\A x \in s : s \ {x} \in P) => s \in P  BY <1>2
  <2> HIDE DEF Z
  <2>2. \A s \in SUBSET Z : s \in P  BY <1>3, <2>1, SubsetInduction, Zenon
  <2> QED  BY <2>2
<1>5. U \cup Z = T  OBVIOUS
<1> QED  BY <1>4, <1>5 DEF P

----------------------------------------------------------------------------
(* Paths. *)

NormalStep(path, c) ==
    IF path = Escapes \/ c = "." THEN path
    ELSE IF c = ".." THEN (IF path = <<>> THEN Escapes ELSE Front(path))
    ELSE Append(path, c)

IsNormal(g, raw) ==
    g = [s \in SUBSET (DOMAIN raw) |->
            IF s = {} THEN <<>> ELSE NormalStep(g[s \ {Max(s)}], raw[Max(s)])]

Components == Names \cup {".", ".."}
Normal == Seq(Names) \cup {Escapes}

LEMMA NormalizeIs == ASSUME NEW raw PROVE Normalize(raw) = (CHOOSE g : IsNormal(g, raw))[DOMAIN raw]
BY DEF Normalize, FoldLeft, MapThenFoldSet, IsNormal, NormalStep

LEMMA FrontIs ==
    ASSUME NEW S, NEW s \in Seq(S), s # <<>>
    PROVE  Front(s) \in Seq(S) /\ Len(Front(s)) = Len(s) - 1 /\ \A i \in 1..(Len(s) - 1) : Front(s)[i] = s[i]
<1>1. Len(s) \in Nat /\ Len(s) - 1 \in Nat /\ Len(s) # 0 /\ \A i \in 1..Len(s) : s[i] \in S  OBVIOUS
<1>2. 1..(Len(s) - 1) \subseteq 1..Len(s)  BY <1>1
<1>3. Front(s) = SubSeq(s, 1, Len(s) - 1)  BY DEF Front
<1>4. /\ Len(SubSeq(s, 1, Len(s) - 1)) = Len(s) - 1
      /\ \A i \in 1..(Len(s) - 1) : SubSeq(s, 1, Len(s) - 1)[i] = s[i]
      /\ SubSeq(s, 1, Len(s) - 1) \in Seq(S)
  <2> DEFINE n == Len(s) - 1
  <2>1. n \in Nat /\ n + 1 = Len(s) /\ \A i \in 1..n : s[i] \in S  BY <1>1, <1>2
  <2>2. \A i \in 1..n : 1 + i - 1 = i  BY <2>1
  <2> HIDE DEF n
  <2>3. SubSeq(s, 1, n) = [i \in 1..n |-> s[1 + i - 1]]  BY <2>1
  <2>4. SubSeq(s, 1, n) = [i \in 1..n |-> s[i]]  BY <2>2, <2>3
  <2>5. [i \in 1..n |-> s[i]] \in Seq(S) /\ Len([i \in 1..n |-> s[i]]) = n  BY <2>1
  <2> QED  BY <2>4, <2>5 DEF n
<1> QED  BY <1>3, <1>4

LEMMA NormalStepIs ==
    ASSUME NEW path \in Normal, NEW c \in Components PROVE NormalStep(path, c) \in Normal
BY FrontIs DEF NormalStep, Normal, Components

LEMMA MaxIs ==
    ASSUME NEW n \in Nat, NEW s \in SUBSET (1..n), s # {}
    PROVE  Max(s) \in s /\ \A y \in s : Max(s) >= y
<1> DEFINE T == {n - x : x \in s}
<1>0. \A x \in s : x \in Nat /\ x <= n /\ n - x \in Nat  OBVIOUS
<1>1. T \subseteq Nat /\ T # {}  BY <1>0
<1>2. PICK m \in T : \A y \in T : m <= y
  <2> HIDE DEF T
  <2> QED  BY <1>1, LeastOf
<1>3. PICK x \in s : m = n - x  OBVIOUS
<1>4. \A y \in s : x >= y
  <2> SUFFICES ASSUME NEW y \in s PROVE x >= y  OBVIOUS
  <2>1. m <= n - y  BY <1>2
  <2>2. x \in Nat /\ y \in Nat  BY <1>0
  <2> QED  BY <1>3, <2>1, <2>2
<1> QED  BY <1>4 DEF Max

\* Normalize folds the components from left to right.
LEMMA NormalizeFold ==
    ASSUME NEW raw \in Seq(Components)
    PROVE  \E h : /\ Normalize(raw) = h[1..Len(raw)]
                  /\ \A s \in SUBSET (1..Len(raw)) :
                        h[s] = IF s = {} THEN <<>> ELSE NormalStep(h[s \ {Max(s)}], raw[Max(s)])
<1> DEFINE T == 1..Len(raw)
           c == [s \in SUBSET T |-> Max(s)]
           R == [sv \in (SUBSET T) \X Normal |->
                    IF sv[1] = {} THEN <<>> ELSE NormalStep(sv[2], raw[Max(sv[1])])]
<1>0. /\ Len(raw) \in Nat /\ DOMAIN raw = T /\ IsFiniteSet(T) /\ <<>> \in Normal
      /\ \A i \in T : raw[i] \in Components
  BY FS_Interval DEF Normal
<1>1. \A s \in SUBSET T : s # {} => Max(s) \in s  BY <1>0, MaxIs
<1>2. \A s \in SUBSET T : c[s] = Max(s)  OBVIOUS
<1>3. \A s \in SUBSET T, v \in Normal : s # {} => NormalStep(v, raw[Max(s)]) \in Normal
  <2> SUFFICES ASSUME NEW s \in SUBSET T, NEW v \in Normal, s # {} PROVE NormalStep(v, raw[Max(s)]) \in Normal
    OBVIOUS
  <2>1. raw[Max(s)] \in Components  BY <1>0, <1>1
  <2> QED  BY <2>1, NormalStepIs
<1>4. R \in [(SUBSET T) \X Normal -> Normal]
  <2>1. \A sv \in (SUBSET T) \X Normal :
          (IF sv[1] = {} THEN <<>> ELSE NormalStep(sv[2], raw[Max(sv[1])])) \in Normal
    BY <1>0, <1>3
  <2> QED  BY <2>1
<1>5. \A s \in SUBSET T, v \in Normal : s # {} => R[<<s, v>>] = NormalStep(v, raw[Max(s)])  OBVIOUS
<1>6. \A s \in SUBSET T : s # {} => c[s] \in s  BY <1>1, <1>2
<1> HIDE DEF R, c, T
<1>7. PICK g \in [SUBSET T -> Normal] : Folds(g, SUBSET T, <<>>, c, R)
  BY <1>0, <1>4, <1>6, FoldExists, Zenon
<1>8. \A s \in SUBSET T : g[s] = IF s = {} THEN <<>> ELSE NormalStep(g[s \ {Max(s)}], raw[Max(s)])
  <2> SUFFICES ASSUME NEW s \in SUBSET T
               PROVE  g[s] = IF s = {} THEN <<>> ELSE NormalStep(g[s \ {Max(s)}], raw[Max(s)])
    OBVIOUS
  <2>1. g[s] = IF s = {} THEN <<>> ELSE R[<<s, g[s \ {Max(s)}]>>]  BY <1>2, <1>7 DEF Folds
  <2>2. s \ {Max(s)} \in SUBSET T  OBVIOUS
  <2>3. g[s \ {Max(s)}] \in Normal  BY <1>7, <2>2
  <2>4. s # {} => R[<<s, g[s \ {Max(s)}]>>] = NormalStep(g[s \ {Max(s)}], raw[Max(s)])  BY <1>5, <2>3
  <2> QED  BY <2>1, <2>4
<1>9. IsNormal(g, raw)  BY <1>0, <1>8 DEF IsNormal
<1> DEFINE h == CHOOSE h : IsNormal(h, raw)
<1>10. IsNormal(h, raw)  BY <1>9
<1>11. Normalize(raw) = h[T]  BY <1>0, NormalizeIs
<1> HIDE DEF h
<1>12. \A s \in SUBSET T : h[s] = IF s = {} THEN <<>> ELSE NormalStep(h[s \ {Max(s)}], raw[Max(s)])
  BY <1>0, <1>10, Zenon DEF IsNormal
<1> QED  BY <1>11, <1>12 DEF T

LEMMA NormalizeTyped ==
    ASSUME NEW raw \in Seq(Components)
    PROVE  Normalize(raw) \in Normal
<1> DEFINE T == 1..Len(raw)
<1>0. /\ Len(raw) \in Nat /\ DOMAIN raw = T /\ IsFiniteSet(T) /\ <<>> \in Normal
      /\ \A i \in T : raw[i] \in Components
  BY FS_Interval DEF Normal
<1>1. \A s \in SUBSET T : s # {} => Max(s) \in s  BY <1>0, MaxIs
<1>3. \A s \in SUBSET T, v \in Normal : s # {} => NormalStep(v, raw[Max(s)]) \in Normal
  <2> SUFFICES ASSUME NEW s \in SUBSET T, NEW v \in Normal, s # {} PROVE NormalStep(v, raw[Max(s)]) \in Normal
    OBVIOUS
  <2>1. raw[Max(s)] \in Components  BY <1>0, <1>1
  <2> QED  BY <2>1, NormalStepIs
<1>11. PICK h : /\ Normalize(raw) = h[T]
                /\ \A s \in SUBSET T : h[s] = IF s = {} THEN <<>> ELSE NormalStep(h[s \ {Max(s)}], raw[Max(s)])
  BY NormalizeFold
<1>12. \A s \in SUBSET T : h[s] = IF s = {} THEN <<>> ELSE NormalStep(h[s \ {Max(s)}], raw[Max(s)])
  BY <1>11
<1> HIDE DEF T
<1> DEFINE P == {s \in SUBSET T : h[s] \in Normal}
<1>13. \A s \in SUBSET T : (\A x \in s : s \ {x} \in P) => s \in P
  <2> SUFFICES ASSUME NEW s \in SUBSET T, \A x \in s : s \ {x} \in P PROVE h[s] \in Normal  OBVIOUS
  <2>1. s # {} => h[s \ {Max(s)}] \in Normal  BY <1>1
  <2>2. s = {} => h[s] = <<>>  BY <1>12
  <2>3. s # {} => h[s] = NormalStep(h[s \ {Max(s)}], raw[Max(s)])  BY <1>12
  <2> QED  BY <1>0, <1>3, <2>1, <2>2, <2>3
<1> HIDE DEF P
<1>14. \A s \in SUBSET T : s \in P  BY <1>0, <1>13, SubsetInduction, Zenon
<1> QED  BY <1>11, <1>14 DEF P

----------------------------------------------------------------------------
(* The counters. *)

Held ==
    /\ \A p \in Paths : p \in Seq(Names) \ {<<>>} /\ tree[p] \in Node
    /\ IsFiniteSet(Paths) /\ inodes \in Nat /\ bytes \in Nat
    /\ Accounting

LEMMA AccountingIs ==
    Accounting <=> /\ inodes = 1 + Cardinality(Paths) /\ inodes <= MaxInodes
                   /\ bytes = SumOver(tree, Paths) /\ bytes <= MaxBytes
BY DEF Accounting, SumOver

LEMMA SizesAreNat ==
    /\ Sizes \subseteq Nat /\ MaxInodes \in Nat /\ MaxBytes \in Nat
    /\ \A e \in Node : e.size \in Nat /\ (e.kind = "dir" => e.size = 0)
    /\ Dir \in Node /\ Dir.kind = "dir" /\ Dir.size = 0
    /\ \A n \in Sizes : File(n) \in Node /\ File(n).kind = "file" /\ File(n).size = n
<1>1. Sizes \subseteq Nat /\ MaxInodes \in Nat /\ MaxBytes \in Nat  BY FilesystemAssumption
<1>2. /\ Dir \in Node /\ Dir.kind = "dir" /\ Dir.size = 0
      /\ \A n \in Sizes : File(n) \in Node /\ File(n).kind = "file" /\ File(n).size = n
  BY DEF Node, Dir, File
<1>3. ASSUME NEW e \in Node PROVE e.size \in Nat /\ (e.kind = "dir" => e.size = 0)
  <2>1. CASE e = Dir  BY <1>2, <2>1
  <2>2. ASSUME NEW n \in Sizes, e = File(n) PROVE e.size \in Nat /\ e.kind = "file"
    BY <1>1, <1>2, <2>2
  <2> QED  BY <2>1, <2>2 DEF Node
<1> QED  BY <1>1, <1>2, <1>3

LEMMA MissingIs ==
    ASSUME NEW p \in Seq(Names)
    PROVE  /\ IsFiniteSet(Missing(p)) /\ Cardinality(Missing(p)) \in Nat
           /\ Missing(p) \cap Paths = {}
           /\ \A q \in Missing(p) : q \in Seq(Names) \ {<<>>} /\ Len(q) <= Len(p)
<1>1. Len(p) \in Nat /\ IsFiniteSet(1..Len(p))  BY FS_Interval
<1>2. \A k \in 1..Len(p) : SubSeq(p, 1, k) \in Seq(Names) /\ Len(SubSeq(p, 1, k)) = k  OBVIOUS
<1>3. \A q \in Ancestors(p) : q \in Seq(Names) /\ q # <<>> /\ Len(q) <= Len(p)
  <2> SUFFICES ASSUME NEW k \in 1..Len(p)
               PROVE  LET q == SubSeq(p, 1, k) IN q \in Seq(Names) /\ q # <<>> /\ Len(q) <= Len(p)
    BY DEF Ancestors
  <2>1. Len(SubSeq(p, 1, k)) = k /\ k # 0 /\ k <= Len(p)  BY <1>1, <1>2
  <2> QED  BY <1>2, <2>1
<1>4. IsFiniteSet(Ancestors(p))
  <2> DEFINE f == [k \in 1..Len(p) |-> SubSeq(p, 1, k)]
  <2>1. f \in Surjection(1..Len(p), Ancestors(p))  BY DEF Surjection, Ancestors
  <2> QED  BY <1>1, <2>1, FS_Surjection
<1>5. Missing(p) \in SUBSET Ancestors(p) /\ Missing(p) \cap Paths = {}  BY DEF Missing
<1>6. IsFiniteSet(Missing(p))  BY <1>4, <1>5, FS_Subset
<1> QED  BY <1>3, <1>5, <1>6, FS_CardinalityType

\* New directories.
LEMMA GrowKeeps ==
    ASSUME Held, NEW made, IsFiniteSet(made), made \cap Paths = {},
           \A q \in made : q \in Seq(Names) \ {<<>>},
           made # {} => inodes + Cardinality(made) <= MaxInodes,
           tree' = [q \in Paths \cup made |-> IF q \in Paths THEN tree[q] ELSE Dir],
           inodes' = inodes + Cardinality(made), bytes' = bytes
    PROVE  Held'
<1>1. Paths' = Paths \cup made  BY DEF Paths
<1>2. /\ IsFiniteSet(Paths \cup made)
      /\ Cardinality(Paths \cup made) = Cardinality(Paths) + Cardinality(made)
      /\ Cardinality(made) \in Nat /\ Cardinality(Paths) \in Nat
  <2>1. IsFiniteSet(Paths)  BY DEF Held
  <2>2. /\ IsFiniteSet(Paths \cup made)
        /\ Cardinality(Paths \cup made) = Cardinality(Paths) + Cardinality(made) - Cardinality(Paths \cap made)
    BY <2>1, FS_Union
  <2>3. Cardinality(Paths \cap made) = 0
    <3>1. Paths \cap made = {}  OBVIOUS
    <3> QED  BY <3>1, FS_EmptySet
  <2>4. Cardinality(made) \in Nat /\ Cardinality(Paths) \in Nat  BY <2>1, FS_CardinalityType
  <2> QED  BY <2>2, <2>3, <2>4
<1>3. \A q \in Paths' : /\ q \in Seq(Names) \ {<<>>} /\ tree'[q] \in Node
                        /\ tree'[q] = IF q \in Paths THEN tree[q] ELSE Dir
  BY <1>1, SizesAreNat DEF Held
<1>4. Sized(tree, Paths) /\ Sized(tree', Paths') /\ Sized(tree', Paths)
  BY <1>1, <1>2, <1>3, SizesAreNat DEF Held, Sized
<1>5. SumOver(tree', Paths') = SumOver(tree, Paths)
  <2>1. SumOver(tree', Paths') = SumOver(tree', Paths)  BY <1>1, <1>3, <1>4, SizesAreNat, SumMore
  <2>2. SumOver(tree', Paths) = SumOver(tree, Paths)  BY <1>1, <1>3, <1>4, SumSame
  <2> QED  BY <2>1, <2>2
<1>6. inodes' = 1 + Cardinality(Paths') /\ inodes' <= MaxInodes /\ inodes' \in Nat
  <2>1. inodes = 1 + Cardinality(Paths) /\ inodes <= MaxInodes /\ inodes \in Nat
    BY AccountingIs DEF Held
  <2>2. made = {} => Cardinality(made) = 0  BY FS_EmptySet
  <2> QED  BY <1>1, <1>2, <2>1, <2>2
<1>7. bytes' = SumOver(tree', Paths') /\ bytes' <= MaxBytes /\ bytes' \in Nat
  BY <1>5, AccountingIs DEF Held
<1>8. Accounting'
  <2>1. (Accounting <=> /\ inodes = 1 + Cardinality(Paths) /\ inodes <= MaxInodes
                        /\ bytes = SumOver(tree, Paths) /\ bytes <= MaxBytes)'
    BY AccountingIs, PTL
  <2> QED  BY <1>6, <1>7, <2>1
<1>9. IsFiniteSet(Paths')  BY <1>1, <1>2
<1> QED  BY <1>3, <1>6, <1>7, <1>8, <1>9 DEF Held

\* A file and the directories made for it.
LEMMA PutKeeps ==
    ASSUME Held, NEW made, IsFiniteSet(made), made \cap Paths = {},
           \A q \in made : q \in Seq(Names) \ {<<>>},
           NEW p \in Seq(Names) \ {<<>>}, p \notin made, ~IsDir(p),
           NEW n \in Sizes, NewBytes(p, n) <= MaxBytes,
           p \notin Paths => inodes + Cardinality(made) < MaxInodes,
           made # {} => inodes + Cardinality(made) <= MaxInodes,
           tree' = [q \in Paths \cup made \cup {p} |->
                      IF q = p THEN File(n) ELSE IF q \in Paths THEN tree[q] ELSE Dir],
           inodes' = inodes + Cardinality(made) + (IF p \in Paths THEN 0 ELSE 1),
           bytes' = NewBytes(p, n)
    PROVE  Held'
<1>1. Paths' = (Paths \cup made) \cup {p}  BY DEF Paths
<1>2. /\ IsFiniteSet(Paths \cup made)
      /\ Cardinality(Paths \cup made) = Cardinality(Paths) + Cardinality(made)
      /\ Cardinality(made) \in Nat /\ Cardinality(Paths) \in Nat
  <2>1. IsFiniteSet(Paths)  BY DEF Held
  <2>2. /\ IsFiniteSet(Paths \cup made)
        /\ Cardinality(Paths \cup made) = Cardinality(Paths) + Cardinality(made) - Cardinality(Paths \cap made)
    BY <2>1, FS_Union
  <2>3. Cardinality(Paths \cap made) = 0
    <3>1. Paths \cap made = {}  OBVIOUS
    <3> QED  BY <3>1, FS_EmptySet
  <2>4. Cardinality(made) \in Nat /\ Cardinality(Paths) \in Nat  BY <2>1, FS_CardinalityType
  <2> QED  BY <2>2, <2>3, <2>4
<1>3. /\ IsFiniteSet(Paths')
      /\ Cardinality(Paths') = Cardinality(Paths) + Cardinality(made) + (IF p \in Paths THEN 0 ELSE 1)
  <2> DEFINE before == Paths \cup made
  <2>1. IsFiniteSet(before) /\ Cardinality(before) \in Nat /\ Cardinality(before) = Cardinality(Paths) + Cardinality(made)
    BY <1>2
  <2>2. p \in before <=> p \in Paths  OBVIOUS
  <2> HIDE DEF before
  <2>3. /\ IsFiniteSet(before \cup {p})
        /\ Cardinality(before \cup {p}) = IF p \in before THEN Cardinality(before) ELSE Cardinality(before) + 1
    BY <2>1, FS_AddElement
  <2>4. Paths' = before \cup {p}  BY <1>1 DEF before
  <2> QED  BY <1>2, <2>1, <2>2, <2>3, <2>4
<1>4. \A q \in Paths' : /\ q \in Seq(Names) \ {<<>>} /\ tree'[q] \in Node
                        /\ tree'[q] = IF q = p THEN File(n) ELSE IF q \in Paths THEN tree[q] ELSE Dir
  BY <1>1, SizesAreNat DEF Held
<1> DEFINE rest == Paths \ {p}
<1>5. /\ Sized(tree, Paths) /\ Sized(tree, rest) /\ Sized(tree', rest)
      /\ Sized(tree', Paths') /\ Sized(tree', Paths' \ {p})
  <2>1. IsFiniteSet(rest) /\ IsFiniteSet(Paths' \ {p})  BY <1>3, FS_RemoveElement DEF Held
  <2>2. \A q \in Paths' : tree'[q].size \in Nat  BY <1>4, SizesAreNat
  <2>3. rest \subseteq Paths'  BY <1>1
  <2> QED  BY <1>3, <2>1, <2>2, <2>3, SizesAreNat DEF Held, Sized
<1>6. SumOver(tree', Paths') = n + SumOver(tree, rest)
  <2>1. SumOver(tree', Paths') = n + SumOver(tree', Paths' \ {p})
    BY <1>1, <1>4, <1>5, SumLess, SizesAreNat
  <2>2. rest \subseteq Paths' \ {p} /\ \A q \in (Paths' \ {p}) \ rest : tree'[q].size = 0
    BY <1>1, <1>4, SizesAreNat
  <2>3. SumOver(tree', Paths' \ {p}) = SumOver(tree', rest)
    <3> DEFINE more == Paths' \ {p}
    <3>1. Sized(tree', more) /\ rest \subseteq more /\ \A q \in more \ rest : tree'[q].size = 0
      BY <1>5, <2>2
    <3> HIDE DEF rest, more
    <3>2. SumOver(tree', more) = SumOver(tree', rest)  BY <3>1, SumMore
    <3> QED  BY <3>2 DEF more
  <2>4. \A q \in rest : tree'[q].size = tree[q].size  BY <1>1, <1>4
  <2> HIDE DEF rest
  <2>5. SumOver(tree', rest) = SumOver(tree, rest)  BY <1>5, <2>4, SumSame
  <2> QED  BY <2>1, <2>3, <2>5
<1>7. SumOver(tree, Paths) = OldSize(p) + SumOver(tree, rest) /\ OldSize(p) \in Nat
  <2>1. CASE p \in Paths
    <3>1. IsFile(p)  BY <2>1 DEF IsDir, IsFile, Held, Node, Dir, File
    <3>2. OldSize(p) = tree[p].size  BY <3>1 DEF OldSize
    <3>3. tree[p].size \in Nat  BY <2>1, SizesAreNat DEF Held
    <3> QED  BY <1>5, <2>1, <3>2, <3>3, SumLess
  <2>2. CASE p \notin Paths
    <3>1. rest = Paths  BY <2>2
    <3>2. OldSize(p) = 0  BY <2>2 DEF OldSize, IsFile
    <3>3. SumOver(tree, Paths) \in Nat  BY <1>5, SumStep
    <3> HIDE DEF rest
    <3> QED  BY <3>1, <3>2, <3>3
  <2> QED  BY <2>1, <2>2
<1>8. bytes' = SumOver(tree', Paths') /\ bytes' <= MaxBytes /\ bytes' \in Nat
  <2>1. bytes = SumOver(tree, Paths)  BY AccountingIs DEF Held
  <2>2. SumOver(tree, rest) \in Nat /\ n \in Nat  BY <1>5, SumStep, SizesAreNat
  <2>3. bytes' = n + SumOver(tree, rest)  BY <1>7, <2>1, <2>2 DEF NewBytes
  <2> QED  BY <1>6, <2>2, <2>3
<1>9. inodes' = 1 + Cardinality(Paths') /\ inodes' <= MaxInodes /\ inodes' \in Nat
  <2>1. inodes = 1 + Cardinality(Paths) /\ inodes <= MaxInodes /\ inodes \in Nat
    BY AccountingIs DEF Held
  <2>2. made = {} => Cardinality(made) = 0  BY FS_EmptySet
  <2>3. Cardinality(Paths') = Cardinality(Paths) + Cardinality(made) + (IF p \in Paths THEN 0 ELSE 1)
    BY <1>3
  <2>4. MaxInodes \in Nat /\ Cardinality(made) \in Nat /\ Cardinality(Paths) \in Nat  BY <1>2, SizesAreNat
  <2>5. CASE p \in Paths  BY <2>1, <2>2, <2>3, <2>4, <2>5
  <2>6. CASE p \notin Paths  BY <2>1, <2>3, <2>4, <2>6
  <2> QED  BY <2>5, <2>6
<1>10. Accounting'
  <2>1. (Accounting <=> /\ inodes = 1 + Cardinality(Paths) /\ inodes <= MaxInodes
                        /\ bytes = SumOver(tree, Paths) /\ bytes <= MaxBytes)'
    BY AccountingIs, PTL
  <2> QED  BY <1>8, <1>9, <2>1
<1> QED  BY <1>3, <1>4, <1>8, <1>9, <1>10 DEF Held

----------------------------------------------------------------------------
(* Every step. *)

Raw == [path: Seq(Components), kind: {"dir", "file"}, size: Nat]

\* An entry that a restore may still replay.
Replay == {e \in Raw : /\ Normalize(e.path) \in Seq(Names)
                       /\ e.kind = "file" => e.size \in Sizes}

FilesInv ==
    /\ Held
    /\ phase \in {"live", "restoring", "unusable"} /\ own \in BOOLEAN
    /\ IsFiniteSet(DOMAIN saved)
    /\ \A p \in DOMAIN saved : p \in Seq(Names) /\ saved[p] \in Node
    /\ todo \in Seq(Replay)

LEMMA NewIsHeld == tree = Fresh /\ inodes = FreshInodes /\ bytes = 0 => Held
<1> SUFFICES ASSUME tree = Fresh, inodes = FreshInodes, bytes = 0 PROVE Held  OBVIOUS
<1> DEFINE D == {<<d>> : d \in Defaults}
<1>1. Paths = D /\ \A p \in D : tree[p] = Dir  BY DEF Paths, Fresh
<1>2. IsFiniteSet(Defaults) /\ Defaults \subseteq Names /\ MaxInodes \in Nat
      /\ MaxInodes >= 1 + Cardinality(Defaults) /\ MaxBytes \in Nat
  BY FilesystemAssumption
<1>3. IsFiniteSet(D) /\ Cardinality(D) = Cardinality(Defaults)
  <2> DEFINE f == [d \in Defaults |-> <<d>>]
  <2>0. f \in [Defaults -> D]  OBVIOUS
  <2>a. \A a, b \in Defaults : f[a] = f[b] => a = b
    <3> SUFFICES ASSUME NEW a \in Defaults, NEW b \in Defaults, <<a>> = <<b>> PROVE a = b  OBVIOUS
    <3>1. <<a>>[1] = <<b>>[1]  OBVIOUS
    <3> QED  BY <3>1
  <2>b. \A q \in D : \E d \in Defaults : f[d] = q  OBVIOUS
  <2>1. f \in Bijection(Defaults, D)  BY <2>0, <2>a, <2>b DEF Bijection, Injection, Surjection, IsInjective
  <2>2. ExistsBijection(Defaults, D)  BY <2>1 DEF ExistsBijection
  <2> QED  BY <1>2, <2>2, FS_Bijection
<1>4. \A p \in D : p \in Seq(Names) \ {<<>>}
  <2> SUFFICES ASSUME NEW d \in Defaults PROVE <<d>> \in Seq(Names) /\ <<d>> # <<>>  OBVIOUS
  <2>1. d \in Names  BY <1>2
  <2> QED  BY <2>1
<1>5. Sized(tree, D) /\ \A p \in D : tree[p].size = 0  BY <1>1, <1>3, SizesAreNat DEF Sized
<1> HIDE DEF D
<1>6. SumOver(tree, D) = 0
  <2>1. {} \subseteq D /\ Sized(tree, {})  BY FS_EmptySet DEF Sized
  <2>2. SumOver(tree, {}) = 0  BY <2>1, SumStep
  <2>3. SumOver(tree, D) = SumOver(tree, {})  BY <1>5, <2>1, SumMore
  <2> QED  BY <2>2, <2>3
<1>7. Cardinality(D) \in Nat  BY <1>3, FS_CardinalityType
<1>8. Accounting
  <2>1. inodes = 1 + Cardinality(Paths) /\ inodes <= MaxInodes  BY <1>1, <1>2, <1>3 DEF FreshInodes
  <2>2. bytes = SumOver(tree, Paths) /\ bytes <= MaxBytes  BY <1>1, <1>2, <1>6
  <2> QED  BY <2>1, <2>2, AccountingIs
<1> QED  BY <1>1, <1>3, <1>4, <1>7, <1>8, SizesAreNat DEF Held, FreshInodes

LEMMA HeldSame == ASSUME Held, UNCHANGED <<tree, inodes, bytes>> PROVE Held'
<1>1. Paths' = Paths  BY DEF Paths
<1>2. (Accounting <=> /\ inodes = 1 + Cardinality(Paths) /\ inodes <= MaxInodes
                      /\ bytes = SumOver(tree, Paths) /\ bytes <= MaxBytes)'
  BY AccountingIs, PTL
<1>3. Accounting'  BY <1>1, <1>2, AccountingIs DEF Held
<1> QED  BY <1>1, <1>3 DEF Held

LEMMA FsStart == FsInit => FilesInv
<1> SUFFICES ASSUME FsInit PROVE FilesInv  OBVIOUS
<1>1. Held  BY NewIsHeld DEF FsInit
<1>2. DOMAIN saved = {}  BY DEF FsInit, NoTree
<1>3. IsFiniteSet(DOMAIN saved)  BY <1>2, FS_EmptySet
<1> QED  BY <1>1, <1>2, <1>3 DEF FsInit, FilesInv

LEMMA EscapesIs == \A p \in Normal : p # Escapes => p \in Seq(Names)
BY DEF Normal

LEMMA NamesNotEscapes == \A p \in Seq(Names) : p # Escapes
<1> SUFFICES ASSUME Escapes \in Seq(Names) PROVE FALSE  OBVIOUS
<1>1. Len(Escapes) = 1 /\ Escapes[1] = ".."  BY DEF Escapes
<1>2. Escapes[1] \in Names
  <2>1. 1 \in 1..Len(Escapes)  BY <1>1
  <2> QED  BY <2>1
<1> QED  BY <1>1, <1>2, FilesystemAssumption

LEMMA WriteKeeps ==
    ASSUME Held, NEW p \in Normal, NEW n \in Sizes, CanWrite(p, n), Write(p, n) PROVE Held'
<1>1. p \in Seq(Names) \ {<<>>} /\ ~IsDir(p) /\ NewBytes(p, n) <= MaxBytes
      /\ (p \notin Paths => inodes < MaxInodes)
  BY EscapesIs DEF CanWrite, Exists
<1>2. /\ tree' = [q \in Paths \cup {p} |-> IF q = p THEN File(n) ELSE tree[q]]
      /\ inodes' = (IF p \in Paths THEN inodes ELSE inodes + 1) /\ bytes' = NewBytes(p, n)
  BY <1>1 DEF Write, Exists
<1> DEFINE made == {}
<1>3. IsFiniteSet(made) /\ Cardinality(made) = 0  BY FS_EmptySet
<1>4. Paths \cup made \cup {p} = Paths \cup {p}  OBVIOUS
<1>5. tree' = [q \in Paths \cup made \cup {p} |->
                 IF q = p THEN File(n) ELSE IF q \in Paths THEN tree[q] ELSE Dir]
  BY <1>2, <1>4
<1>6. inodes' = inodes + Cardinality(made) + (IF p \in Paths THEN 0 ELSE 1)
  BY <1>2, <1>3 DEF Held
<1>7. p \notin Paths => inodes + Cardinality(made) < MaxInodes  BY <1>1, <1>3 DEF Held
<1> QED  BY <1>1, <1>2, <1>3, <1>5, <1>6, <1>7, PutKeeps

LEMMA MkdirKeeps ==
    ASSUME Held, NEW p \in Seq(Names), NEW recursive, CanMkdir(p, recursive), Mkdir(p) PROVE Held'
<1> DEFINE made == Missing(p)
<1>1. /\ IsFiniteSet(made) /\ made \cap Paths = {} /\ \A q \in made : q \in Seq(Names) \ {<<>>}
  BY MissingIs
<1>2. made # {} => inodes + Cardinality(made) <= MaxInodes  BY DEF CanMkdir
<1>3. /\ tree' = [q \in Paths \cup made |-> IF q \in Paths THEN tree[q] ELSE Dir]
      /\ inodes' = inodes + Cardinality(made) /\ bytes' = bytes
  BY DEF Mkdir
<1> HIDE DEF made
<1> QED  BY <1>1, <1>2, <1>3, GrowKeeps

LEMMA OperationKeeps ==
    ASSUME FilesInv, NEW raw \in RawPaths,
           (\E n \in Sizes : WriteFile(raw, n)) \/ (\E recursive \in BOOLEAN : MakeDirectory(raw, recursive))
    PROVE  FilesInv'
<1> DEFINE p == Normalize(raw)
<1>1. raw \in Seq(Components)  BY FilesystemAssumption DEF Components
<1>2. p \in Normal  BY <1>1, NormalizeTyped
<1>3. UNCHANGED <<phase, saved, todo, own>>  BY DEF WriteFile, MakeDirectory
<1>4. Held  BY DEF FilesInv
<1>5. ASSUME NEW n \in Sizes, WriteFile(raw, n) PROVE Held'
  <2>1. CanWrite(p, n) /\ Write(p, n)  BY <1>5 DEF WriteFile
  <2> HIDE DEF p
  <2> QED  BY <1>2, <1>4, <2>1, WriteKeeps
<1>6. ASSUME NEW recursive \in BOOLEAN, MakeDirectory(raw, recursive) PROVE Held'
  <2>1. CanMkdir(p, recursive) /\ Mkdir(p)  BY <1>6 DEF MakeDirectory
  <2>2. p \in Seq(Names)  BY <1>2, <2>1, EscapesIs DEF CanMkdir
  <2> HIDE DEF p
  <2> QED  BY <1>4, <2>1, <2>2, MkdirKeeps
<1> QED  BY <1>3, <1>5, <1>6 DEF FilesInv

LEMMA SnapshotKeeps == ASSUME FilesInv, Snapshot PROVE FilesInv'
<1>1. saved' = tree /\ UNCHANGED <<tree, inodes, bytes, phase, todo, seen, own>>  BY DEF Snapshot
<1>2. Held'
  <2>1. Held  BY DEF FilesInv
  <2> QED  BY <1>1, <2>1, HeldSame
<1>3. IsFiniteSet(DOMAIN tree) /\ \A p \in DOMAIN tree : p \in Seq(Names) /\ tree[p] \in Node
  BY DEF FilesInv, Held, Paths
<1> QED  BY <1>1, <1>2, <1>3 DEF FilesInv

\* A restore begins on a new filesystem, with entries that all have a place.
LEMMA LoadKeeps ==
    ASSUME FilesInv, NEW entries, Load(entries), own' \in BOOLEAN, UNCHANGED saved,
           entries \in Seq(Raw),
           \A k \in 1..Len(entries) : entries[k].kind = "file" => entries[k].size \in Sizes
    PROVE  FilesInv'
<1>1. Held'
  <2>1. (tree = Fresh /\ inodes = FreshInodes /\ bytes = 0 => Held)'  BY NewIsHeld, PTL
  <2> QED  BY <2>1 DEF Load, Fresh, FreshInodes
<1>2. todo' \in Seq(Replay) /\ phase' \in {"live", "restoring", "unusable"}
  <2>1. CASE InBounds(entries)
    <3>1. \A k \in 1..Len(entries) : entries[k] \in Replay
      <4> SUFFICES ASSUME NEW k \in 1..Len(entries) PROVE entries[k] \in Replay  OBVIOUS
      <4>1. entries[k] \in Raw /\ entries[k].path \in Seq(Components)
        <5>1. entries[k] \in Raw  OBVIOUS
        <5> QED  BY <5>1 DEF Raw
      <4>2. Normalize(entries[k].path) # Escapes  BY <2>1 DEF InBounds
      <4>3. Normalize(entries[k].path) \in Seq(Names)  BY <4>1, <4>2, NormalizeTyped, EscapesIs
      <4> QED  BY <4>1, <4>3 DEF Replay
    <3>2. entries \in Seq(Replay)  BY <3>1
    <3> QED  BY <2>1, <3>2 DEF Load
  <2>2. CASE ~InBounds(entries)  BY <2>2 DEF Load
  <2> QED  BY <2>1, <2>2
<1> QED  BY <1>1, <1>2 DEF FilesInv

LEMMA RestartKeeps == ASSUME FilesInv, Restart PROVE FilesInv'
<1> DEFINE S == {[path |-> p, kind |-> saved[p].kind, size |-> saved[p].size] : p \in DOMAIN saved}
<1>1. PICK entries \in SavedEntries : Load(entries)  BY DEF Restart
<1>2. own' \in BOOLEAN /\ UNCHANGED saved  BY DEF Restart
<1>3. \A e \in S : e \in Raw /\ (e.kind = "file" => e.size \in Sizes)
  <2> SUFFICES ASSUME NEW p \in DOMAIN saved
               PROVE  LET e == [path |-> p, kind |-> saved[p].kind, size |-> saved[p].size]
                      IN  e \in Raw /\ (e.kind = "file" => e.size \in Sizes)
    OBVIOUS
  <2>1. p \in Seq(Names) /\ saved[p] \in Node  BY DEF FilesInv
  <2>2. p \in Seq(Components)  BY <2>1 DEF Components
  <2>3. saved[p].kind \in {"dir", "file"} /\ (saved[p].kind = "file" => saved[p].size \in Sizes)
    BY <2>1 DEF Node, Dir, File
  <2>4. saved[p].size \in Nat  BY <2>1, SizesAreNat
  <2> QED  BY <2>2, <2>3, <2>4 DEF Raw
<1>4. IsFiniteSet(S)
  <2> DEFINE f == [p \in DOMAIN saved |-> [path |-> p, kind |-> saved[p].kind, size |-> saved[p].size]]
  <2>1. f \in Surjection(DOMAIN saved, S)  BY DEF Surjection
  <2>2. IsFiniteSet(DOMAIN saved)  BY DEF FilesInv
  <2> QED  BY <2>1, <2>2, FS_Surjection
<1>5. Cardinality(S) \in Nat  BY <1>4, FS_CardinalityType
<1>6. entries \in [1..Cardinality(S) -> S]  BY <1>1 DEF SavedEntries, SetToSeqs
<1> HIDE DEF S
<1>7. entries \in Seq(Raw) /\ \A k \in 1..Len(entries) : entries[k].kind = "file" => entries[k].size \in Sizes
  <2>1. entries \in Seq(S)  BY <1>5, <1>6
  <2>2. \A k \in 1..Len(entries) : entries[k] \in S  BY <2>1
  <2> QED  BY <1>3, <2>1, <2>2
<1> QED  BY <1>1, <1>2, <1>7, LoadKeeps

LEMMA ForeignKeeps ==
    ASSUME FilesInv, NEW entries \in Foreign, RestartForeign(entries) PROVE FilesInv'
<1>1. entries \in Seq(Entry)  BY FilesystemAssumption
<1>2. RawPaths \subseteq Seq(Components) /\ Sizes \subseteq Nat  BY FilesystemAssumption DEF Components
<1>3. \A e \in Entry : e \in Raw /\ e.size \in Sizes  BY <1>2 DEF Entry, Raw
<1>4. entries \in Seq(Raw) /\ \A k \in 1..Len(entries) : entries[k].size \in Sizes
  <2>1. \A k \in 1..Len(entries) : entries[k] \in Entry  BY <1>1
  <2> QED  BY <1>1, <1>3, <2>1
<1>5. Load(entries) /\ own' \in BOOLEAN /\ UNCHANGED saved  BY DEF RestartForeign
<1> QED  BY <1>4, <1>5, LoadKeeps

LEMMA ReplayKeeps ==
    ASSUME FilesInv, ReplayDir \/ ReplayFile PROVE FilesInv'
<1> DEFINE e == Head(todo)
           p == Normalize(e.path)
<1>1. e \in Replay /\ Tail(todo) \in Seq(Replay)
  <2>1. todo \in Seq(Replay) /\ todo # <<>>  BY DEF FilesInv, ReplayDir, ReplayFile
  <2> QED  BY <2>1, HeadTailProperties
<1>2. p \in Seq(Names) /\ p # <<>>  BY <1>1 DEF Replay, ReplayDir, ReplayFile, Acceptable
<1>3. Held /\ todo' = Tail(todo) /\ UNCHANGED <<phase, saved, own>>  BY DEF FilesInv, ReplayDir, ReplayFile
<1>4. CASE ReplayDir
  <2>1. CanMkdir(p, TRUE) /\ Mkdir(p)  BY <1>4 DEF ReplayDir
  <2> HIDE DEF p
  <2>2. Held'  BY <1>2, <1>3, <2>1, MkdirKeeps
  <2> QED  BY <1>1, <1>3, <2>2 DEF FilesInv
<1>5. CASE ReplayFile
  <2> DEFINE made == Missing(Front(p))
             n == e.size
  <2>1. n \in Sizes  BY <1>1, <1>5 DEF Replay, ReplayFile
  <2>2. /\ CanReplayFile(p, n)
        /\ tree' = [q \in Paths \cup made \cup {p} |->
                      IF q = p THEN File(n) ELSE IF q \in Paths THEN tree[q] ELSE Dir]
        /\ inodes' = inodes + Cardinality(made) + (IF Exists(p) THEN 0 ELSE 1)
        /\ bytes' = NewBytes(p, n)
    BY <1>5 DEF ReplayFile
  <2> HIDE DEF p, e, n
  <2>3. Front(p) \in Seq(Names) /\ Len(Front(p)) = Len(p) - 1 /\ Len(p) \in Nat  BY <1>2, FrontIs
  <2>4. /\ IsFiniteSet(made) /\ made \cap Paths = {}
        /\ \A q \in made : q \in Seq(Names) \ {<<>>} /\ Len(q) <= Len(Front(p))
    BY <2>3, MissingIs
  <2>5. p \notin made
    <3>1. ~(Len(p) <= Len(p) - 1)  BY <2>3
    <3> QED  BY <2>3, <2>4, <3>1
  <2>6. /\ ~IsDir(p) /\ NewBytes(p, n) <= MaxBytes
        /\ (p \notin Paths => inodes + Cardinality(made) < MaxInodes)
        /\ (made # {} => inodes + Cardinality(made) <= MaxInodes)
    BY <1>2, <2>2 DEF CanReplayFile, CanMkdir, Exists
  <2>7. inodes' = inodes + Cardinality(made) + (IF p \in Paths THEN 0 ELSE 1)
    BY <1>2, <2>2 DEF Exists
  <2> HIDE DEF made
  <2>8. Held'  BY <1>2, <1>3, <2>1, <2>2, <2>4, <2>5, <2>6, <2>7, PutKeeps
  <2> QED  BY <1>1, <1>3, <2>8 DEF FilesInv
<1> QED  BY <1>4, <1>5

LEMMA RestoreEndKeeps == ASSUME FilesInv, RefuseEntry \/ FinishRestore PROVE FilesInv'
<1>1. CASE RefuseEntry
  <2>1. (tree = Fresh /\ inodes = FreshInodes /\ bytes = 0 => Held)'  BY NewIsHeld, PTL
  <2>2. Held'  BY <1>1, <2>1 DEF RefuseEntry, Fresh, FreshInodes
  <2> QED  BY <1>1, <2>2 DEF RefuseEntry, FilesInv
<1>2. CASE FinishRestore
  <2>1. UNCHANGED <<tree, inodes, bytes, saved, todo, own>> /\ phase' = "live"  BY <1>2 DEF FinishRestore
  <2>2. Held  BY DEF FilesInv
  <2>3. Held'  BY <2>1, <2>2, HeldSame
  <2> QED  BY <2>1, <2>3 DEF FilesInv
<1> QED  BY <1>1, <1>2

LEMMA FilesInvariant == FsSpec => []FilesInv
<1>1. FsInit => FilesInv  BY FsStart
<1>2. FilesInv /\ [FsNext]_fsVars => FilesInv'
  <2> SUFFICES ASSUME FilesInv, [FsNext]_fsVars PROVE FilesInv'  OBVIOUS
  <2>1. CASE FsNext
    BY <2>1, OperationKeeps, SnapshotKeeps, RestartKeeps, ForeignKeeps, ReplayKeeps, RestoreEndKeeps
    DEF FsNext
  <2>2. CASE UNCHANGED fsVars
    <3>1. Held'  BY <2>2, HeldSame DEF fsVars, FilesInv
    <3> QED  BY <2>2, <3>1 DEF fsVars, FilesInv
  <2> QED  BY <2>1, <2>2
<1> QED  BY <1>1, <1>2, PTL DEF FsSpec

\* The counters are what the tree holds, and within the limits.
THEOREM CountersAgree == FsSpec => []Accounting
<1>1. FilesInv => Accounting  BY DEF FilesInv, Held
<1> QED  BY <1>1, FilesInvariant, PTL

\* Every variable of a filesystem keeps its type.
THEOREM FilesTypes == FsSpec => []FsTypeOK
<1>1. FilesInv => FsTypeOK
  <2> SUFFICES ASSUME FilesInv PROVE FsTypeOK  OBVIOUS
  <2>1. \A k \in 1..Len(todo) : todo[k] \in Replay  BY DEF FilesInv
  <2>2. \A k \in 1..Len(todo) : todo[k].kind \in {"dir", "file"} /\ todo[k].size \in Nat
    BY <2>1 DEF Replay, Raw
  <2> QED  BY <2>2 DEF FilesInv, Held, FsTypeOK
<1> QED  BY <1>1, FilesInvariant, PTL

----------------------------------------------------------------------------
(* The shape of a tree. *)

Above(p) == Ancestors(p) \ {p}

LEMMA AncestorsAre ==
    ASSUME NEW p \in Seq(Names)
    PROVE  /\ \A q \in Ancestors(p) : /\ q \in Seq(Names) \ {<<>>} /\ Len(q) \in 1..Len(p)
                                      /\ q = SubSeq(p, 1, Len(q)) /\ Ancestors(q) \subseteq Ancestors(p)
           /\ p # <<>> => p \in Ancestors(p)
           /\ \A q \in Above(p) : /\ Len(q) < Len(p) /\ p \notin Ancestors(q) /\ IsStrictPrefix(q, p)
           /\ p # <<>> => Ancestors(Front(p)) = Above(p)
<1>1. Len(p) \in Nat  OBVIOUS
<1>2. \A k \in 1..Len(p) : /\ SubSeq(p, 1, k) \in Seq(Names) /\ Len(SubSeq(p, 1, k)) = k
                           /\ \A i \in 1..k : SubSeq(p, 1, k)[i] = p[i]
  OBVIOUS
<1>3. \A k \in 1..Len(p) : \A j \in 1..k : SubSeq(SubSeq(p, 1, k), 1, j) = SubSeq(p, 1, j)
  <2> SUFFICES ASSUME NEW k \in 1..Len(p), NEW j \in 1..k PROVE SubSeq(SubSeq(p, 1, k), 1, j) = SubSeq(p, 1, j)
    OBVIOUS
  <2> DEFINE s == SubSeq(p, 1, k)
  <2>1. s \in Seq(Names) /\ Len(s) = k /\ \A i \in 1..k : s[i] = p[i]  BY <1>2
  <2>2. k \in Nat /\ j \in Nat /\ j <= k /\ k <= Len(p) /\ j >= 1  BY <1>1
  <2> HIDE DEF s
  <2>3. SubSeq(s, 1, j) = [i \in 1..j |-> s[i]]  BY <2>1, <2>2
  <2>4. SubSeq(p, 1, j) = [i \in 1..j |-> p[i]]  BY <2>2
  <2>5. \A i \in 1..j : s[i] = p[i]  BY <2>1, <2>2
  <2> QED  BY <2>3, <2>4, <2>5 DEF s
<1>4. \A q \in Ancestors(p) : /\ q \in Seq(Names) \ {<<>>} /\ Len(q) \in 1..Len(p)
                              /\ q = SubSeq(p, 1, Len(q)) /\ Ancestors(q) \subseteq Ancestors(p)
  <2> SUFFICES ASSUME NEW k \in 1..Len(p)
               PROVE  LET q == SubSeq(p, 1, k) IN
                        /\ q \in Seq(Names) \ {<<>>} /\ Len(q) \in 1..Len(p)
                        /\ q = SubSeq(p, 1, Len(q)) /\ Ancestors(q) \subseteq Ancestors(p)
    BY DEF Ancestors
  <2> DEFINE q == SubSeq(p, 1, k)
  <2>1. q \in Seq(Names) /\ Len(q) = k /\ k # 0  BY <1>1, <1>2
  <2>2. \A j \in 1..k : SubSeq(q, 1, j) = SubSeq(p, 1, j) /\ j \in 1..Len(p)  BY <1>1, <1>3
  <2> HIDE DEF q
  <2>3. Ancestors(q) \subseteq Ancestors(p)  BY <2>1, <2>2 DEF Ancestors
  <2>4. q # <<>>  BY <2>1
  <2> QED  BY <2>1, <2>3, <2>4 DEF q
<1>5. SubSeq(p, 1, Len(p)) = p  OBVIOUS
<1>6. p # <<>> => p \in Ancestors(p)
  <2> SUFFICES ASSUME p # <<>> PROVE p \in Ancestors(p)  OBVIOUS
  <2>1. Len(p) \in 1..Len(p)  BY <1>1
  <2> QED  BY <1>5, <2>1 DEF Ancestors
<1>7. \A q \in Above(p) : Len(q) < Len(p) /\ p \notin Ancestors(q) /\ IsStrictPrefix(q, p)
  <2> SUFFICES ASSUME NEW q \in Ancestors(p), q # p
               PROVE  Len(q) < Len(p) /\ p \notin Ancestors(q) /\ IsStrictPrefix(q, p)
    BY DEF Above
  <2>1. q \in Seq(Names) /\ Len(q) \in 1..Len(p) /\ q = SubSeq(p, 1, Len(q))  BY <1>4
  <2>2. Len(q) # Len(p)  BY <1>5, <2>1
  <2>3. Len(q) < Len(p)  BY <1>1, <2>1, <2>2
  <2>4. \A r \in Ancestors(q) : Len(r) <= Len(q)
    <3>1. \A j \in 1..Len(q) : Len(SubSeq(q, 1, j)) = j /\ j <= Len(q)  BY <2>1
    <3> QED  BY <3>1 DEF Ancestors
  <2>5. SubSeq(q, 1, Len(q)) = q  BY <2>1
  <2> QED  BY <1>1, <2>1, <2>3, <2>4, <2>5 DEF IsStrictPrefix, IsPrefix
<1>8. ASSUME p # <<>> PROVE Ancestors(Front(p)) = Above(p)
  <2> DEFINE f == Front(p)
             n == Len(p) - 1
  <2>1. f \in Seq(Names) /\ Len(f) = n /\ f = SubSeq(p, 1, n)  BY <1>8, FrontIs DEF Front
  <2>2. Len(p) # 0 /\ n \in Nat /\ n + 1 = Len(p)  BY <1>1, <1>8
  <2> HIDE DEF f, n
  <2>3. \A j \in 1..n : SubSeq(f, 1, j) = SubSeq(p, 1, j) /\ j \in 1..Len(p)
    <3>1. CASE n = 0  BY <3>1
    <3>2. CASE n # 0
      <4>1. n \in 1..Len(p)  BY <2>2, <3>2
      <4> QED  BY <1>3, <2>1, <2>2, <4>1
    <3> QED  BY <3>1, <3>2
  <2>4. \A j \in 1..n : SubSeq(p, 1, j) # p
    <3>1. \A j \in 1..n : Len(SubSeq(p, 1, j)) = j /\ j # Len(p)  BY <1>2, <2>2
    <3> QED  BY <3>1
  <2>5. \A j \in 1..Len(p) : SubSeq(p, 1, j) # p => j \in 1..n
    <3>1. \A j \in 1..Len(p) : j # Len(p) => j \in 1..n  BY <2>2
    <3> QED  BY <1>5, <3>1
  <2>6. Ancestors(f) = {SubSeq(p, 1, j) : j \in 1..n}  BY <2>1, <2>3 DEF Ancestors
  <2>7. Above(p) = {SubSeq(p, 1, j) : j \in 1..n}  BY <2>3, <2>4, <2>5 DEF Above, Ancestors
  <2> QED  BY <2>6, <2>7 DEF f
<1> QED  BY <1>4, <1>6, <1>7, <1>8

\* A tree has the default directories, and a directory above every path.
Rooted(t) ==
    /\ t = [p \in DOMAIN t |-> t[p]]
    /\ \A p \in DOMAIN t : p \in Seq(Names) \ {<<>>} /\ t[p] \in Node
    /\ \A d \in Defaults : <<d>> \in DOMAIN t /\ t[<<d>>].kind = "dir"
    /\ \A p \in DOMAIN t : \A q \in Above(p) : q \in DOMAIN t /\ t[q].kind = "dir"

Grown(t, p) == [q \in DOMAIN t \cup Ancestors(p) |-> IF q \in DOMAIN t THEN t[q] ELSE Dir]
With(t, p, n) == [q \in DOMAIN t \cup {p} |-> IF q = p THEN File(n) ELSE t[q]]

LEMMA NodeKinds ==
    /\ \A e \in Node : e.kind \in {"dir", "file"} /\ (e.kind = "dir" <=> e = Dir)
    /\ \A e \in Node : e.kind = "file" => e.size \in Sizes /\ e = File(e.size)
BY DEF Node, Dir, File

LEMMA GrownIsRooted ==
    ASSUME NEW t, Rooted(t), NEW p \in Seq(Names),
           \A q \in Ancestors(p) : q \in DOMAIN t => t[q].kind = "dir"
    PROVE  Rooted(Grown(t, p)) /\ \A q \in Ancestors(p) : Grown(t, p)[q].kind = "dir"
<1> DEFINE g == Grown(t, p)
<1>1. DOMAIN g = DOMAIN t \cup Ancestors(p) /\ g = [q \in DOMAIN g |-> g[q]]  BY DEF Grown
<1>2. \A q \in DOMAIN g : /\ q \in Seq(Names) \ {<<>>} /\ g[q] \in Node
                          /\ g[q] = IF q \in DOMAIN t THEN t[q] ELSE Dir
  BY AncestorsAre, SizesAreNat DEF Grown, Rooted
<1> HIDE DEF g
<1>3. \A q \in Ancestors(p) : g[q].kind = "dir"  BY <1>1, <1>2, SizesAreNat
<1>4. \A d \in Defaults : <<d>> \in DOMAIN g /\ g[<<d>>].kind = "dir"  BY <1>1, <1>2 DEF Rooted
<1>5. ASSUME NEW r \in DOMAIN g, NEW q \in Above(r) PROVE q \in DOMAIN g /\ g[q].kind = "dir"
  <2>1. CASE r \in DOMAIN t  BY <1>1, <1>2, <1>5, <2>1 DEF Rooted
  <2>2. CASE r \in Ancestors(p)
    <3>1. q \in Ancestors(p)  BY <1>5, <2>2, AncestorsAre DEF Above
    <3> QED  BY <1>1, <1>3, <3>1
  <2> QED  BY <1>1, <2>1, <2>2
<1> QED  BY <1>1, <1>2, <1>3, <1>4, <1>5 DEF Rooted, g

LEMMA WithIsRooted ==
    ASSUME NEW t, Rooted(t), NEW p \in Seq(Names) \ {<<>>}, NEW n \in Sizes,
           p \in DOMAIN t => t[p].kind = "file",
           \A q \in Above(p) : q \in DOMAIN t /\ t[q].kind = "dir"
    PROVE  Rooted(With(t, p, n))
<1> DEFINE w == With(t, p, n)
<1>1. DOMAIN w = DOMAIN t \cup {p} /\ w = [q \in DOMAIN w |-> w[q]]  BY DEF With
<1>2. \A q \in DOMAIN w : /\ q \in Seq(Names) \ {<<>>} /\ w[q] \in Node
                          /\ w[q] = IF q = p THEN File(n) ELSE t[q]
  BY SizesAreNat DEF With, Rooted
<1> HIDE DEF w
<1>3. \A q \in DOMAIN t : t[q].kind = "dir" => w[q].kind = "dir" /\ q # p  BY <1>1, <1>2
<1>4. \A d \in Defaults : <<d>> \in DOMAIN w /\ w[<<d>>].kind = "dir"  BY <1>1, <1>3 DEF Rooted
<1>5. ASSUME NEW r \in DOMAIN w, NEW q \in Above(r) PROVE q \in DOMAIN w /\ w[q].kind = "dir"
  <2>1. q \in DOMAIN t /\ t[q].kind = "dir"  BY <1>1, <1>5 DEF Rooted
  <2> QED  BY <1>1, <1>3, <2>1
<1> QED  BY <1>1, <1>2, <1>4, <1>5 DEF Rooted, w

LEMMA FreshIsRooted == Rooted(Fresh)
<1>1. DOMAIN Fresh = {<<d>> : d \in Defaults} /\ \A p \in DOMAIN Fresh : Fresh[p] = Dir
      /\ Fresh = [q \in DOMAIN Fresh |-> Fresh[q]]
  BY DEF Fresh
<1>2. ASSUME NEW d \in Defaults PROVE <<d>> \in Seq(Names) \ {<<>>} /\ Above(<<d>>) = {}
  <2>1. d \in Names  BY FilesystemAssumption
  <2>2. <<d>> \in Seq(Names) /\ <<d>> # <<>> /\ Len(<<d>>) = 1  BY <2>1
  <2>3. \A q \in Above(<<d>>) : Len(q) < 1 /\ Len(q) \in 1..1
    <3>1. \A q \in Above(<<d>>) : Len(q) < Len(<<d>>) /\ Len(q) \in 1..Len(<<d>>)
      BY <2>2, AncestorsAre DEF Above
    <3> QED  BY <2>2, <3>1
  <2> QED  BY <2>2, <2>3
<1>3. \A p \in DOMAIN Fresh : p \in Seq(Names) \ {<<>>} /\ Above(p) = {}  BY <1>1, <1>2
<1>4. \A d \in Defaults : <<d>> \in DOMAIN Fresh /\ Fresh[<<d>>].kind = "dir"  BY <1>1, SizesAreNat
<1>5. \A p \in DOMAIN Fresh : Fresh[p] \in Node  BY <1>1, SizesAreNat
<1>6. Fresh = [p \in DOMAIN Fresh |-> Fresh[p]]  BY DEF Fresh
<1> QED  BY <1>3, <1>4, <1>5, <1>6 DEF Rooted

\* A path of names is normal.
LEMMA NormalizeNames == ASSUME NEW p \in Seq(Names) PROVE Normalize(p) = p
<1> DEFINE T == 1..Len(p)
<1>0. /\ Len(p) \in Nat /\ DOMAIN p = T /\ IsFiniteSet(T)
      /\ \A i \in T : p[i] \in Names
  BY FS_Interval
<1>1. \A s \in SUBSET T : s # {} => Max(s) \in s /\ \A y \in s : Max(s) >= y  BY <1>0, MaxIs
<1>2. {".", ".."} \cap Names = {}  BY FilesystemAssumption
<1>3. p \in Seq(Components)  BY DEF Components
<1>4. PICK h : /\ Normalize(p) = h[T]
               /\ \A s \in SUBSET T : h[s] = IF s = {} THEN <<>> ELSE NormalStep(h[s \ {Max(s)}], p[Max(s)])
  BY <1>0, <1>3, NormalizeFold
<1> HIDE DEF T
<1> DEFINE P == {s \in SUBSET T : \A k \in 0..Len(p) : s = 1..k => h[s] = SubSeq(p, 1, k)}
<1>5. ASSUME NEW s \in SUBSET T, \A x \in s : s \ {x} \in P PROVE s \in P
  <2> SUFFICES ASSUME NEW k \in 0..Len(p), s = 1..k PROVE h[s] = SubSeq(p, 1, k)  OBVIOUS
  <2>1. CASE k = 0
    <3>1. s = {} /\ SubSeq(p, 1, k) = <<>>  BY <2>1
    <3> QED  BY <1>4, <3>1
  <2>2. CASE k # 0
    <3>1. k \in s /\ s # {} /\ k \in T
      <4>1. k \in 1..k /\ k \in 1..Len(p)  BY <1>0, <2>2
      <4> QED  BY <4>1 DEF T
    <3>2. Max(s) = k
      <4>1. Max(s) \in 1..k /\ Max(s) >= k  BY <1>1, <3>1
      <4> QED  BY <4>1
    <3>3. s \ {k} = 1..(k - 1) /\ k - 1 \in 0..Len(p)  BY <2>2
    <3>4. h[s \ {k}] = SubSeq(p, 1, k - 1)  BY <1>5, <3>1, <3>3
    <3>5. h[s] = NormalStep(SubSeq(p, 1, k - 1), p[k])  BY <1>4, <3>1, <3>2, <3>4
    <3>6. p[k] \in Names /\ p[k] # "." /\ p[k] # ".."  BY <1>0, <1>2, <3>1
    <3> DEFINE f == SubSeq(p, 1, k - 1)
    <3>7. f \in Seq(Names) /\ Len(f) = k - 1 /\ \A i \in 1..(k - 1) : f[i] = p[i]
      <4> DEFINE m == k - 1
      <4>1. m \in Nat /\ m <= Len(p) /\ \A i \in 1..m : p[i] \in Names  BY <1>0, <3>3 DEF T
      <4> HIDE DEF m
      <4>2. SubSeq(p, 1, m) = [i \in 1..m |-> p[i]]  BY <1>0, <4>1
      <4>3. [i \in 1..m |-> p[i]] \in Seq(Names) /\ Len([i \in 1..m |-> p[i]]) = m  BY <4>1
      <4> QED  BY <4>2, <4>3 DEF m
    <3>8. f # Escapes
      <4> SUFFICES ASSUME f = Escapes PROVE FALSE  OBVIOUS
      <4>1. Len(Escapes) = 1 /\ Escapes[1] = ".."  BY DEF Escapes
      <4> HIDE DEF f
      <4>2. f[1] \in Names
        <5>1. Len(f) = 1 /\ 1 \in 1..Len(f)  BY <4>1
        <5> QED  BY <3>7, <5>1
      <4> QED  BY <1>2, <4>1, <4>2
    <3> HIDE DEF f
    <3>9. h[s] = Append(f, p[k])  BY <3>5, <3>6, <3>8 DEF NormalStep, f
    <3>10. Append(f, p[k]) = SubSeq(p, 1, k)
      <4>1. SubSeq(p, 1, k) = [i \in 1..k |-> p[i]]  BY <1>0, <2>2
      <4>2. k \in Nat /\ (k - 1) + 1 = k  OBVIOUS
      <4>3. Append(f, p[k]) = [i \in 1..k |-> IF i = k THEN p[k] ELSE f[i]]
        BY <3>6, <3>7, <4>2
      <4>4. \A i \in 1..k : i # k => f[i] = p[i]  BY <3>7, <4>2
      <4> QED  BY <4>1, <4>3, <4>4
    <3> QED  BY <3>9, <3>10
  <2> QED  BY <2>1, <2>2
<1> HIDE DEF P
<1>6. T \in P
  <2>1. \A s \in SUBSET T : (\A x \in s : s \ {x} \in P) => s \in P  BY <1>5
  <2>2. \A s \in SUBSET T : s \in P  BY <1>0, <2>1, SubsetInduction, Zenon
  <2> QED  BY <2>2
<1>7. T = 1..Len(p) /\ Len(p) \in 0..Len(p) /\ SubSeq(p, 1, Len(p)) = p  BY <1>0 DEF T
<1>8. h[T] = SubSeq(p, 1, Len(p))  BY <1>6, <1>7 DEF P
<1> QED  BY <1>4, <1>7, <1>8

----------------------------------------------------------------------------
(* The bytes of a snapshot. *)

IsTotal(g, entries) ==
    g = [s \in SUBSET (DOMAIN entries) |-> IF s = {} THEN 0 ELSE g[s \ {Max(s)}] + entries[Max(s)].size]

LEMMA TotalIs == ASSUME NEW entries PROVE TotalBytes(entries) = (CHOOSE g : IsTotal(g, entries))[DOMAIN entries]
BY DEF TotalBytes, FoldLeft, MapThenFoldSet, IsTotal

LEMMA TotalFold ==
    ASSUME NEW entries \in Seq(Raw)
    PROVE  \E h : /\ TotalBytes(entries) = h[1..Len(entries)]
                  /\ \A s \in SUBSET (1..Len(entries)) :
                        h[s] = IF s = {} THEN 0 ELSE h[s \ {Max(s)}] + entries[Max(s)].size
<1> DEFINE T == 1..Len(entries)
           c == [s \in SUBSET T |-> Max(s)]
           R == [sv \in (SUBSET T) \X Nat |-> IF sv[1] = {} THEN 0 ELSE sv[2] + entries[Max(sv[1])].size]
<1>0. Len(entries) \in Nat /\ DOMAIN entries = T /\ IsFiniteSet(T) /\ \A i \in T : entries[i].size \in Nat
  <2>1. \A i \in T : entries[i] \in Raw  OBVIOUS
  <2>2. \A i \in T : entries[i].size \in Nat  BY <2>1 DEF Raw
  <2> QED  BY <2>2, FS_Interval
<1>1. \A s \in SUBSET T : s # {} => Max(s) \in s  BY <1>0, MaxIs
<1>2. \A s \in SUBSET T : c[s] = Max(s)  OBVIOUS
<1>3. \A s \in SUBSET T, v \in Nat : s # {} => v + entries[Max(s)].size \in Nat
  <2> SUFFICES ASSUME NEW s \in SUBSET T, NEW v \in Nat, s # {} PROVE v + entries[Max(s)].size \in Nat
    OBVIOUS
  <2>1. Max(s) \in T  BY <1>1
  <2>2. entries[Max(s)].size \in Nat  BY <1>0, <2>1
  <2> QED  BY <2>2
<1>4. R \in [(SUBSET T) \X Nat -> Nat] /\ 0 \in Nat
  <2>1. \A sv \in (SUBSET T) \X Nat : (IF sv[1] = {} THEN 0 ELSE sv[2] + entries[Max(sv[1])].size) \in Nat
    BY <1>3
  <2> QED  BY <2>1
<1>5. \A s \in SUBSET T, v \in Nat : s # {} => R[<<s, v>>] = v + entries[Max(s)].size  OBVIOUS
<1>6. \A s \in SUBSET T : s # {} => c[s] \in s  BY <1>1, <1>2
<1> HIDE DEF R, c, T
<1>7. PICK g \in [SUBSET T -> Nat] : Folds(g, SUBSET T, 0, c, R)
  BY <1>0, <1>4, <1>6, FoldExists, Zenon
<1>8. \A s \in SUBSET T : g[s] = IF s = {} THEN 0 ELSE g[s \ {Max(s)}] + entries[Max(s)].size
  <2> SUFFICES ASSUME NEW s \in SUBSET T
               PROVE  g[s] = IF s = {} THEN 0 ELSE g[s \ {Max(s)}] + entries[Max(s)].size
    OBVIOUS
  <2>1. g[s] = IF s = {} THEN 0 ELSE R[<<s, g[s \ {Max(s)}]>>]  BY <1>2, <1>7 DEF Folds
  <2>2. s \ {Max(s)} \in SUBSET T  OBVIOUS
  <2>3. g[s \ {Max(s)}] \in Nat  BY <1>7, <2>2
  <2>4. s # {} => R[<<s, g[s \ {Max(s)}]>>] = g[s \ {Max(s)}] + entries[Max(s)].size  BY <1>5, <2>3
  <2> QED  BY <2>1, <2>4
<1>9. IsTotal(g, entries)  BY <1>0, <1>8 DEF IsTotal
<1> DEFINE h == CHOOSE h : IsTotal(h, entries)
<1>10. IsTotal(h, entries)  BY <1>9
<1>11. TotalBytes(entries) = h[T]  BY <1>0, TotalIs
<1> HIDE DEF h
<1>12. \A s \in SUBSET T : h[s] = IF s = {} THEN 0 ELSE h[s \ {Max(s)}] + entries[Max(s)].size
  BY <1>0, <1>10, Zenon DEF IsTotal
<1> QED  BY <1>11, <1>12 DEF T

\* Entries that name each path of a tree once have its bytes.
LEMMA TotalIsSum ==
    ASSUME NEW entries \in Seq(Raw), NEW t, Sized(t, DOMAIN t),
           \A k \in 1..Len(entries) : entries[k].path \in DOMAIN t /\ entries[k].size = t[entries[k].path].size,
           \A j, k \in 1..Len(entries) : entries[j].path = entries[k].path => j = k,
           \A p \in DOMAIN t : \E k \in 1..Len(entries) : entries[k].path = p
    PROVE  TotalBytes(entries) = SumOver(t, DOMAIN t)
<1> DEFINE T == 1..Len(entries)
           PathsOf(s) == {entries[k].path : k \in s}
<1>0. Len(entries) \in Nat /\ IsFiniteSet(T)  BY FS_Interval
<1>1. \A s \in SUBSET T : s # {} => Max(s) \in s  BY <1>0, MaxIs
<1>2. PICK h : /\ TotalBytes(entries) = h[T]
               /\ \A s \in SUBSET T : h[s] = IF s = {} THEN 0 ELSE h[s \ {Max(s)}] + entries[Max(s)].size
  BY TotalFold
<1>3. \A s \in SUBSET T : PathsOf(s) \in SUBSET (DOMAIN t)  OBVIOUS
<1>4. \A s \in SUBSET (DOMAIN t) : Sized(t, s)  BY FS_Subset DEF Sized
<1> DEFINE P == {s \in SUBSET T : h[s] = SumOver(t, PathsOf(s))}
<1>5. ASSUME NEW s \in SUBSET T, \A x \in s : s \ {x} \in P PROVE s \in P
  <2>1. CASE s = {}
    <3>1. PathsOf(s) = {} /\ {} \in SUBSET (DOMAIN t)  BY <2>1
    <3>2. SumOver(t, {}) = 0  BY <1>4, <3>1, SumStep
    <3> QED  BY <1>2, <2>1, <3>1, <3>2
  <2>2. CASE s # {}
    <3> DEFINE m == Max(s)
               q == entries[m].path
    <3>1. m \in s /\ m \in T  BY <1>1, <2>2
    <3>2. h[s] = h[s \ {m}] + entries[m].size  BY <1>2, <2>2
    <3>3. h[s \ {m}] = SumOver(t, PathsOf(s \ {m}))  BY <1>5, <3>1
    <3> HIDE DEF m
    <3>4. PathsOf(s \ {m}) = PathsOf(s) \ {q} /\ q \in PathsOf(s)  BY <3>1
    <3>5. entries[m].size = t[q].size /\ q \in DOMAIN t  BY <3>1
    <3>6. Sized(t, PathsOf(s)) /\ Sized(t, PathsOf(s) \ {q})
      <4>1. PathsOf(s) \in SUBSET (DOMAIN t)  BY <1>3
      <4>2. PathsOf(s) \ {q} \in SUBSET (DOMAIN t)  BY <4>1
      <4> QED  BY <1>4, <4>1, <4>2
    <3> HIDE DEF PathsOf, q
    <3>7. SumOver(t, PathsOf(s)) = t[q].size + SumOver(t, PathsOf(s) \ {q})  BY <3>4, <3>6, SumLess
    <3>8. SumOver(t, PathsOf(s) \ {q}) \in Nat /\ t[q].size \in Nat  BY <3>5, <3>6, SumStep DEF Sized
    <3>9. h[s] = SumOver(t, PathsOf(s) \ {q}) + t[q].size  BY <3>2, <3>3, <3>4, <3>5
    <3>10. h[s] = SumOver(t, PathsOf(s))
      <4> DEFINE x == SumOver(t, PathsOf(s))
                 y == SumOver(t, PathsOf(s) \ {q})
                 z == t[q].size
      <4>1. h[s] = y + z /\ x = z + y /\ y \in Nat /\ z \in Nat  BY <3>7, <3>8, <3>9
      <4> HIDE DEF x, y, z
      <4>2. h[s] = x  BY <4>1
      <4> QED  BY <4>2 DEF x
    <3> QED  BY <3>10
  <2> QED  BY <2>1, <2>2
<1>6. PathsOf(T) = DOMAIN t
  <2>1. \A p \in DOMAIN t : p \in PathsOf(T)  OBVIOUS
  <2>2. \A p \in PathsOf(T) : p \in DOMAIN t  OBVIOUS
  <2> HIDE DEF PathsOf
  <2> QED  BY <2>1, <2>2
<1> HIDE DEF PathsOf
<1>7. T \in P
  <2> HIDE DEF P, T
  <2>1. \A s \in SUBSET T : (\A x \in s : s \ {x} \in P) => s \in P  BY <1>5
  <2>2. \A s \in SUBSET T : s \in P  BY <1>0, <2>1, SubsetInduction, Zenon
  <2> QED  BY <2>2
<1> QED  BY <1>2, <1>6, <1>7

\* A part of a tree has no more bytes than the whole.
LEMMA SumPart ==
    ASSUME NEW t, NEW T, Sized(t, T), NEW U, U \subseteq T
    PROVE  SumOver(t, U) <= SumOver(t, T)
<1> DEFINE P == {s \in SUBSET (T \ U) : SumOver(t, U) <= SumOver(t, U \cup s)}
<1>1. \A s \in SUBSET T : Sized(t, s) /\ SumOver(t, s) \in Nat
  <2> SUFFICES ASSUME NEW s \in SUBSET T PROVE Sized(t, s) /\ SumOver(t, s) \in Nat  OBVIOUS
  <2>1. Sized(t, s)  BY FS_Subset DEF Sized
  <2> QED  BY <2>1, SumStep
<1>2. ASSUME NEW s \in SUBSET (T \ U), \A x \in s : s \ {x} \in P PROVE s \in P
  <2>1. CASE s = {}
    <3>1. U \cup s = U  BY <2>1
    <3>2. SumOver(t, U) \in Nat  BY <1>1
    <3>3. SumOver(t, U \cup s) = SumOver(t, U)  BY <3>1
    <3> QED  BY <3>2, <3>3
  <2>2. CASE s # {}
    <3>1. PICK x \in s : TRUE  BY <2>2
    <3> DEFINE big == U \cup s
               small == U \cup (s \ {x})
    <3>2. big \ {x} = small /\ big \in SUBSET T /\ small \in SUBSET T /\ U \in SUBSET T /\ x \in big /\ x \in T
      OBVIOUS
    <3>3. SumOver(t, U) <= SumOver(t, small)  BY <1>2
    <3>4. t[x].size \in Nat  BY <3>2 DEF Sized
    <3> HIDE DEF big, small
    <3>5. SumOver(t, big) = t[x].size + SumOver(t, small)  BY <1>1, <3>2, SumLess
    <3>6. SumOver(t, big) \in Nat /\ SumOver(t, small) \in Nat /\ SumOver(t, U) \in Nat  BY <1>1, <3>2
    <3>7. SumOver(t, U) <= SumOver(t, big)  BY <3>3, <3>4, <3>5, <3>6
    <3> QED  BY <3>7 DEF big
  <2> QED  BY <2>1, <2>2
<1>3. IsFiniteSet(T \ U)  BY FS_Subset DEF Sized
<1>4. U \cup (T \ U) = T  OBVIOUS
<1>5. T \ U \in P
  <2> HIDE DEF P
  <2> DEFINE Z == T \ U
  <2>1. \A s \in SUBSET Z : (\A x \in s : s \ {x} \in P) => s \in P  BY <1>2
  <2>0. IsFiniteSet(Z)  BY <1>3
  <2> HIDE DEF Z
  <2>2. \A s \in SUBSET Z : s \in P  BY <2>0, <2>1, SubsetInduction, Zenon
  <2> QED  BY <2>2 DEF Z
<1> QED  BY <1>4, <1>5

----------------------------------------------------------------------------
(* Snapshots and restores. *)

\* What was captured is a tree, and within the limits.
Captured ==
    /\ Rooted(saved)
    /\ 1 + Cardinality(DOMAIN saved) <= MaxInodes
    /\ SumOver(saved, DOMAIN saved) <= MaxBytes

\* The entries still to come are the rest of the captured tree, each once and
\* a directory before what it holds.
Pending ==
    /\ \A k \in 1..Len(todo) :
          LET p == todo[k].path
          IN  /\ p \in DOMAIN saved /\ p \notin seen
              /\ todo[k].kind = saved[p].kind /\ todo[k].size = saved[p].size
    /\ \A j, k \in 1..Len(todo) : todo[j].path = todo[k].path => j = k
    /\ \A j, k \in 1..Len(todo) : j < k => ~IsStrictPrefix(todo[k].path, todo[j].path)
    /\ \A p \in DOMAIN saved : p \in seen \/ \E k \in 1..Len(todo) : todo[k].path = p

\* The new tree is the part of the captured one that came with the filesystem
\* or was replayed.
Copied ==
    /\ Paths = (DOMAIN Fresh) \cup seen
    /\ \A p \in Paths : p \in DOMAIN saved /\ tree[p] = saved[p]

CopyInv ==
    /\ FilesInv
    /\ Rooted(tree)
    /\ saved # NoTree => Captured
    /\ phase = "restoring" /\ own => saved # NoTree /\ Copied /\ Pending

LEMMA MkdirGrows ==
    ASSUME Rooted(tree), NEW p \in Seq(Names), NEW recursive, CanMkdir(p, recursive), Mkdir(p)
    PROVE  tree' = Grown(tree, p) /\ Rooted(tree')
<1>1. tree' = Grown(tree, p)
  <2>1. Paths \cup Missing(p) = DOMAIN tree \cup Ancestors(p)  BY DEF Paths, Missing
  <2> QED  BY <2>1 DEF Mkdir, Grown, Paths
<1>2. \A q \in Ancestors(p) : q \in DOMAIN tree => tree[q].kind = "dir"
  BY NodeKinds DEF CanMkdir, IsFile, Paths, Rooted
<1>3. Rooted(Grown(tree, p))  BY <1>2, GrownIsRooted
<1> QED  BY <1>1, <1>3

LEMMA WriteAdds ==
    ASSUME Rooted(tree), NEW p \in Normal, NEW n \in Sizes, CanWrite(p, n), Write(p, n)
    PROVE  Rooted(tree')
<1>1. p \in Seq(Names) \ {<<>>} /\ IsDir(Front(p)) /\ ~IsDir(p)  BY EscapesIs DEF CanWrite
<1>2. tree' = With(tree, p, n)  BY DEF Write, With, Paths
<1>3. p \in DOMAIN tree => tree[p].kind = "file"  BY <1>1, NodeKinds DEF IsDir, Paths, Rooted
<1>4. ASSUME NEW q \in Above(p) PROVE q \in DOMAIN tree /\ tree[q].kind = "dir"
  <2> DEFINE f == Front(p)
  <2>1. f \in Seq(Names) /\ q \in Ancestors(f)  BY <1>1, <1>4, AncestorsAre, FrontIs
  <2>2. f # <<>>
    <3>1. Ancestors(<<>>) = {}  BY DEF Ancestors
    <3> QED  BY <2>1, <3>1
  <2>3. f \in DOMAIN tree /\ tree[f].kind = "dir"  BY <1>1, <2>2 DEF IsDir, Paths
  <2>4. q = f \/ q \in Above(f)  BY <2>1 DEF Above
  <2> HIDE DEF f
  <2> QED  BY <2>3, <2>4 DEF Rooted
<1>5. Rooted(With(tree, p, n))  BY <1>1, <1>3, <1>4, WithIsRooted
<1> QED  BY <1>2, <1>5

\* The entry replayed next, and what replaying it does to the tree.
LEMMA ReplayGrows ==
    ASSUME Rooted(tree), NEW p \in Seq(Names) \ {<<>>}, NEW n \in Sizes, CanReplayFile(p, n),
           tree' = [q \in Paths \cup Missing(Front(p)) \cup {p} |->
                      IF q = p THEN File(n) ELSE IF q \in Paths THEN tree[q] ELSE Dir]
    PROVE  tree' = With(Grown(tree, Front(p)), p, n) /\ Rooted(tree')
<1> DEFINE f == Front(p)
           g == Grown(tree, f)
<1>1. f \in Seq(Names) /\ Ancestors(f) = Above(p)  BY AncestorsAre, FrontIs
<1>2. CanMkdir(f, TRUE) /\ ~IsDir(p)  BY DEF CanReplayFile
<1>3. \A q \in Ancestors(f) : q \in DOMAIN tree => tree[q].kind = "dir"
  BY <1>2, NodeKinds DEF CanMkdir, IsFile, Paths, Rooted
<1>4. Rooted(g) /\ \A q \in Above(p) : g[q].kind = "dir"  BY <1>1, <1>3, GrownIsRooted
<1>5. /\ DOMAIN g = DOMAIN tree \cup Above(p)
      /\ \A q \in DOMAIN g : g[q] = IF q \in DOMAIN tree THEN tree[q] ELSE Dir
  BY <1>1 DEF Grown
<1>6. tree' = With(g, p, n)
  <2>1. Paths \cup Missing(f) \cup {p} = DOMAIN g \cup {p}  BY <1>1, <1>5 DEF Paths, Missing
  <2> QED  BY <1>5, <2>1 DEF With, Paths
<1>7. p \in DOMAIN g => g[p].kind = "file"
  <2>1. p \notin Above(p)  BY DEF Above
  <2> QED  BY <1>2, <1>5, <2>1, NodeKinds DEF IsDir, Paths, Rooted
<1>8. \A q \in Above(p) : q \in DOMAIN g  BY <1>5
<1> HIDE DEF g
<1>9. Rooted(With(g, p, n))  BY <1>4, <1>7, <1>8, WithIsRooted
<1> QED  BY <1>6, <1>9 DEF g

LEMMA ReplayedEntry ==
    ASSUME FilesInv, todo # <<>>
    PROVE  /\ Head(todo) \in Replay /\ Head(todo) = todo[1] /\ 1 \in 1..Len(todo)
           /\ Normalize(Head(todo).path) \in Seq(Names) /\ Head(todo).size \in Nat
<1>1. todo \in Seq(Replay)  BY DEF FilesInv
<1>2. Head(todo) \in Replay /\ Head(todo) = todo[1]  BY <1>1, HeadTailProperties
<1>3. 1 \in 1..Len(todo)  BY <1>1
<1> QED  BY <1>2, <1>3 DEF Replay, Raw

LEMMA TreeStaysRooted == ASSUME FilesInv, Rooted(tree), [FsNext]_fsVars PROVE Rooted(tree')
<1>1. CASE \E raw \in RawPaths :
              \/ \E n \in Sizes : WriteFile(raw, n)
              \/ \E recursive \in BOOLEAN : MakeDirectory(raw, recursive)
  <2>1. PICK raw \in RawPaths : \/ \E n \in Sizes : WriteFile(raw, n)
                                \/ \E recursive \in BOOLEAN : MakeDirectory(raw, recursive)
    BY <1>1
  <2> DEFINE p == Normalize(raw)
  <2>2. raw \in Seq(Components)  BY FilesystemAssumption DEF Components
  <2>3. p \in Normal  BY <2>2, NormalizeTyped
  <2>4. ASSUME NEW n \in Sizes, WriteFile(raw, n) PROVE Rooted(tree')
    <3>1. CanWrite(p, n) /\ Write(p, n)  BY <2>4 DEF WriteFile
    <3> HIDE DEF p
    <3> QED  BY <2>3, <3>1, WriteAdds
  <2>5. ASSUME NEW recursive \in BOOLEAN, MakeDirectory(raw, recursive) PROVE Rooted(tree')
    <3>1. CanMkdir(p, recursive) /\ Mkdir(p)  BY <2>5 DEF MakeDirectory
    <3>2. p \in Seq(Names)  BY <2>3, <3>1, EscapesIs DEF CanMkdir
    <3> HIDE DEF p
    <3> QED  BY <3>1, <3>2, MkdirGrows
  <2> QED  BY <2>1, <2>4, <2>5
<1>2. CASE Snapshot \/ FinishRestore \/ UNCHANGED fsVars
  <2>1. tree' = tree  BY <1>2 DEF Snapshot, FinishRestore, fsVars
  <2> QED  BY <2>1
<1>3. CASE Restart \/ (\E entries \in Foreign : RestartForeign(entries)) \/ RefuseEntry
  <2>1. tree' = Fresh  BY <1>3 DEF Restart, RestartForeign, Load, RefuseEntry
  <2> QED  BY <2>1, FreshIsRooted
<1>4. CASE ReplayDir
  <2> DEFINE p == Normalize(Head(todo).path)
  <2>1. p \in Seq(Names) /\ CanMkdir(p, TRUE) /\ Mkdir(p)  BY <1>4, ReplayedEntry DEF ReplayDir
  <2> HIDE DEF p
  <2> QED  BY <2>1, MkdirGrows
<1>5. CASE ReplayFile
  <2> DEFINE p == Normalize(Head(todo).path)
             n == Head(todo).size
  <2>1. p \in Seq(Names) \ {<<>>} /\ n \in Sizes
    <3>1. Head(todo) \in Replay /\ p \in Seq(Names)  BY <1>5, ReplayedEntry DEF ReplayFile
    <3> QED  BY <1>5, <3>1 DEF ReplayFile, Acceptable, Replay
  <2>2. /\ CanReplayFile(p, n)
        /\ tree' = [q \in Paths \cup Missing(Front(p)) \cup {p} |->
                      IF q = p THEN File(n) ELSE IF q \in Paths THEN tree[q] ELSE Dir]
    BY <1>5 DEF ReplayFile
  <2> HIDE DEF p, n
  <2> QED  BY <2>1, <2>2, ReplayGrows
<1> QED  BY <1>1, <1>2, <1>3, <1>4, <1>5 DEF FsNext

LEMMA CapturesTrees ==
    ASSUME FilesInv, Rooted(tree), saved # NoTree => Captured, [FsNext]_fsVars
    PROVE  saved' # NoTree => Captured'
<1>1. CASE Snapshot
  <2>1. saved' = tree  BY <1>1 DEF Snapshot
  <2>2. 1 + Cardinality(DOMAIN tree) <= MaxInodes /\ SumOver(tree, DOMAIN tree) <= MaxBytes
    <3>1. /\ inodes = 1 + Cardinality(Paths) /\ inodes <= MaxInodes
          /\ bytes = SumOver(tree, Paths) /\ bytes <= MaxBytes
      BY AccountingIs DEF FilesInv, Held
    <3> QED  BY <3>1 DEF Paths
  <2> QED  BY <2>1, <2>2 DEF Captured
<1>2. CASE ~Snapshot
  <2>1. saved' = saved
    BY <1>2 DEF FsNext, fsVars, WriteFile, MakeDirectory, Restart, RestartForeign, ReplayDir,
                ReplayFile, RefuseEntry, FinishRestore
  <2> QED  BY <2>1 DEF Captured
<1> QED  BY <1>1, <1>2

EntryOf(t, p) == [path |-> p, kind |-> t[p].kind, size |-> t[p].size]

\* A snapshot lists every path of the tree once.
LEMMA SavedEntriesAre ==
    ASSUME FilesInv, NEW entries \in SavedEntries
    PROVE  /\ entries \in Seq(Raw)
           /\ \A k \in 1..Len(entries) : /\ entries[k].path \in DOMAIN saved
                                         /\ entries[k] = EntryOf(saved, entries[k].path)
           /\ \A j, k \in 1..Len(entries) : entries[j].path = entries[k].path => j = k
           /\ \A j, k \in 1..Len(entries) : j < k => ~IsStrictPrefix(entries[k].path, entries[j].path)
           /\ \A p \in DOMAIN saved : \E k \in 1..Len(entries) : entries[k].path = p
           /\ Len(entries) = Cardinality(DOMAIN saved)
<1> DEFINE S == {EntryOf(saved, p) : p \in DOMAIN saved}
           D == 1..Cardinality(S)
           f == [p \in DOMAIN saved |-> EntryOf(saved, p)]
<1>1. entries \in SetToSeqs(S) /\ \A j, k \in 1..Len(entries) :
                                     j < k => ~IsStrictPrefix(entries[k].path, entries[j].path)
  BY DEF SavedEntries, EntryOf
<1>2. IsFiniteSet(S) /\ Cardinality(S) = Cardinality(DOMAIN saved)
  <2>1. \A p, q \in DOMAIN saved : f[p] = f[q] => p = q  BY DEF EntryOf
  <2>2. f \in [DOMAIN saved -> S]  OBVIOUS
  <2>3. \A e \in S : \E p \in DOMAIN saved : f[p] = e  OBVIOUS
  <2>4. f \in Bijection(DOMAIN saved, S)
    BY <2>1, <2>2, <2>3 DEF Bijection, Injection, Surjection, IsInjective
  <2>5. ExistsBijection(DOMAIN saved, S)  BY <2>4 DEF ExistsBijection
  <2>6. IsFiniteSet(DOMAIN saved)  BY DEF FilesInv
  <2> QED  BY <2>5, <2>6, FS_Bijection
<1>3. Cardinality(S) \in Nat  BY <1>2, FS_CardinalityType
<1>4. entries \in [D -> S] /\ \A i, j \in D : i # j => entries[i] # entries[j]  BY <1>1 DEF SetToSeqs
<1>5. entries \in Seq(S) /\ Len(entries) = Cardinality(S) /\ 1..Len(entries) = D  BY <1>3, <1>4
<1>6. \A e \in S : e \in Raw /\ e.path \in DOMAIN saved /\ e = EntryOf(saved, e.path)
  <2> SUFFICES ASSUME NEW p \in DOMAIN saved
               PROVE  LET e == EntryOf(saved, p)
                      IN  e \in Raw /\ e.path \in DOMAIN saved /\ e = EntryOf(saved, e.path)
    OBVIOUS
  <2>1. p \in Seq(Names) /\ saved[p] \in Node  BY DEF FilesInv
  <2>2. p \in Seq(Components)  BY <2>1 DEF Components
  <2>3. saved[p].kind \in {"dir", "file"} /\ saved[p].size \in Nat  BY <2>1, NodeKinds, SizesAreNat
  <2>4. EntryOf(saved, p).path = p  BY DEF EntryOf
  <2> QED  BY <2>2, <2>3, <2>4 DEF Raw, EntryOf
<1> HIDE DEF f
<1>7. \A e \in S : \E k \in D : entries[k] = e
  <2>1. entries \in Injection(D, S)  BY <1>4 DEF Injection, IsInjective
  <2>2. IsFiniteSet(D) /\ Cardinality(D) = Cardinality(S)  BY <1>3, FS_Interval
  <2>3. entries \in Surjection(D, S)  BY <1>2, <2>1, <2>2, FS_Injection
  <2> QED  BY <2>3 DEF Surjection
<1>8. \A p \in DOMAIN saved : EntryOf(saved, p) \in S /\ EntryOf(saved, p).path = p  BY DEF EntryOf
<1> HIDE DEF S, D
<1>9. entries \in Seq(Raw)
  <2>1. \A k \in 1..Len(entries) : entries[k] \in Raw  BY <1>5, <1>6
  <2> QED  BY <1>5, <2>1
<1>10. \A k \in 1..Len(entries) : /\ entries[k].path \in DOMAIN saved
                                  /\ entries[k] = EntryOf(saved, entries[k].path)
  BY <1>5, <1>6
<1>11. \A j, k \in 1..Len(entries) : entries[j].path = entries[k].path => j = k
  <2> SUFFICES ASSUME NEW j \in 1..Len(entries), NEW k \in 1..Len(entries), entries[j].path = entries[k].path
               PROVE  j = k
    OBVIOUS
  <2>1. entries[j] = entries[k]  BY <1>10
  <2> QED  BY <1>4, <1>5, <2>1
<1>12. \A p \in DOMAIN saved : \E k \in 1..Len(entries) : entries[k].path = p
  <2> SUFFICES ASSUME NEW p \in DOMAIN saved PROVE \E k \in 1..Len(entries) : entries[k].path = p  OBVIOUS
  <2>1. PICK k \in 1..Len(entries) : entries[k] = EntryOf(saved, p)  BY <1>5, <1>7, <1>8
  <2> QED  BY <1>8, <2>1
<1>13. Len(entries) = Cardinality(DOMAIN saved)  BY <1>2, <1>5
<1> QED  BY <1>1, <1>9, <1>10, <1>11, <1>12, <1>13

LEMMA RestartCopies ==
    ASSUME FilesInv, Captured, Restart, phase' = "restoring"
    PROVE  saved' # NoTree /\ Copied' /\ Pending'
<1>1. PICK entries \in SavedEntries : Load(entries)  BY DEF Restart
<1>2. /\ tree' = Fresh /\ seen' = {} /\ todo' = entries /\ saved' = saved /\ saved # NoTree
  BY <1>1 DEF Load, Restart
<1>3. Copied'
  <2>1. Paths' = (DOMAIN Fresh) \cup {}  BY <1>2 DEF Paths
  <2>2. DOMAIN Fresh = {<<d>> : d \in Defaults} /\ \A p \in DOMAIN Fresh : Fresh[p] = Dir  BY DEF Fresh
  <2>3. \A p \in DOMAIN Fresh : p \in DOMAIN saved /\ Fresh[p] = saved[p]
    <3>1. \A d \in Defaults : <<d>> \in DOMAIN saved /\ saved[<<d>>].kind = "dir"  BY DEF Captured, Rooted
    <3>2. \A p \in DOMAIN saved : saved[p] \in Node  BY DEF FilesInv
    <3> QED  BY <2>2, <3>1, <3>2, NodeKinds
  <2>4. (DOMAIN Fresh)' = DOMAIN Fresh  BY DEF Fresh
  <2> QED  BY <1>2, <2>1, <2>3, <2>4 DEF Copied
<1>4. \A k \in 1..Len(entries) :
         /\ entries[k].path \in DOMAIN saved /\ entries[k].kind = saved[entries[k].path].kind
         /\ entries[k].size = saved[entries[k].path].size
  <2> SUFFICES ASSUME NEW k \in 1..Len(entries)
               PROVE  /\ entries[k].path \in DOMAIN saved /\ entries[k].kind = saved[entries[k].path].kind
                      /\ entries[k].size = saved[entries[k].path].size
    OBVIOUS
  <2> DEFINE p == entries[k].path
  <2>1. p \in DOMAIN saved /\ entries[k] = EntryOf(saved, p)  BY SavedEntriesAre
  <2> HIDE DEF p
  <2>2. entries[k].kind = saved[p].kind /\ entries[k].size = saved[p].size  BY <2>1 DEF EntryOf
  <2> QED  BY <2>1, <2>2 DEF p
<1>5. /\ \A j, k \in 1..Len(entries) : entries[j].path = entries[k].path => j = k
      /\ \A j, k \in 1..Len(entries) : j < k => ~IsStrictPrefix(entries[k].path, entries[j].path)
      /\ \A p \in DOMAIN saved : \E k \in 1..Len(entries) : entries[k].path = p
  BY SavedEntriesAre
<1>6. Pending'  BY <1>2, <1>4, <1>5 DEF Pending
<1> QED  BY <1>2, <1>3, <1>6

\* Everything above the next entry is there, so it can always be replayed.
LEMMA HeadFits ==
    ASSUME FilesInv, Rooted(tree), Captured, Copied, Pending, todo # <<>>
    PROVE  LET p == Head(todo).path
           IN  /\ Normalize(p) = p /\ p \in Seq(Names) \ {<<>>} /\ p \in DOMAIN saved /\ p \notin seen
               /\ Head(todo).kind = saved[p].kind /\ Head(todo).size = saved[p].size
               /\ \A q \in Above(p) : q \in Paths /\ tree[q].kind = "dir"
               /\ p \in Paths => tree[p] = saved[p] /\ tree[p].kind = "dir"
               /\ p \notin Paths => inodes < MaxInodes
               /\ p \notin Paths => bytes + saved[p].size <= MaxBytes
<1> DEFINE p == Head(todo).path
<1>1. Head(todo) = todo[1] /\ 1 \in 1..Len(todo) /\ Len(todo) \in Nat
  <2>1. todo \in Seq(Replay)  BY DEF FilesInv
  <2> QED  BY <2>1, ReplayedEntry
<1>2. p \in DOMAIN saved /\ p \notin seen /\ Head(todo).kind = saved[p].kind /\ Head(todo).size = saved[p].size
  BY <1>1 DEF Pending
<1>3. p \in Seq(Names) \ {<<>>} /\ Normalize(p) = p
  <2>1. p \in Seq(Names) \ {<<>>}  BY <1>2 DEF Captured, Rooted
  <2> HIDE DEF p
  <2> QED  BY <2>1, NormalizeNames
<1>4. \A k \in 1..Len(todo) : todo[k].path # p => ~IsStrictPrefix(todo[k].path, p)
  <2> SUFFICES ASSUME NEW k \in 1..Len(todo), todo[k].path # p PROVE ~IsStrictPrefix(todo[k].path, p)  OBVIOUS
  <2>1. k # 1  BY <1>1
  <2>2. 1 < k  BY <1>1, <2>1
  <2> QED  BY <1>1, <2>2 DEF Pending
<1> HIDE DEF p
<1>5. ASSUME NEW q \in Above(p) PROVE q \in Paths /\ tree[q].kind = "dir"
  <2>1. q \in DOMAIN saved /\ saved[q].kind = "dir"  BY <1>2, <1>5 DEF Captured, Rooted
  <2>2. IsStrictPrefix(q, p) /\ q # p  BY <1>3, <1>5, AncestorsAre DEF Above
  <2>3. q \in seen  BY <1>4, <2>1, <2>2 DEF Pending
  <2> QED  BY <2>1, <2>3 DEF Copied
<1>6. p \in Paths => tree[p] = saved[p] /\ tree[p].kind = "dir"
  <2> SUFFICES ASSUME p \in Paths PROVE tree[p] = saved[p] /\ tree[p].kind = "dir"  OBVIOUS
  <2>1. tree[p] = saved[p] /\ p \in DOMAIN Fresh  BY <1>2 DEF Copied
  <2>2. PICK d \in Defaults : p = <<d>>  BY <2>1 DEF Fresh
  <2> QED  BY <2>1, <2>2 DEF Captured, Rooted
<1>7. IsFiniteSet(DOMAIN saved) /\ Paths \subseteq DOMAIN saved /\ Sized(saved, DOMAIN saved)
  BY SizesAreNat DEF FilesInv, Copied, Sized
<1>8. ASSUME p \notin Paths PROVE inodes < MaxInodes /\ bytes + saved[p].size <= MaxBytes
  <2> DEFINE more == Paths \cup {p}
  <2>1. more \subseteq DOMAIN saved /\ IsFiniteSet(Paths)  BY <1>2, <1>7 DEF FilesInv, Held
  <2>2. Cardinality(more) = Cardinality(Paths) + 1 /\ IsFiniteSet(more)  BY <1>8, <2>1, FS_AddElement
  <2>3. Cardinality(more) <= Cardinality(DOMAIN saved)  BY <1>7, <2>1, FS_Subset
  <2>4. /\ inodes = 1 + Cardinality(Paths) /\ bytes = SumOver(tree, Paths)
    BY AccountingIs DEF FilesInv, Held
  <2>5. Cardinality(Paths) \in Nat /\ Cardinality(DOMAIN saved) \in Nat  BY <1>7, <2>1, FS_CardinalityType
  <2>6. inodes < MaxInodes  BY <2>2, <2>3, <2>4, <2>5, SizesAreNat DEF Captured
  <2>7. SumOver(saved, Paths) = bytes
    <3>1. \A q \in Paths : tree[q].size = saved[q].size /\ tree[q].size \in Nat
      BY SizesAreNat DEF Copied, FilesInv, Held
    <3>2. Sized(tree, Paths)  BY <2>1, <3>1 DEF Sized
    <3> QED  BY <2>4, <3>1, <3>2, SumSame
  <2>8. Sized(saved, more) /\ more \ {p} = Paths /\ p \in more  BY <1>7, <1>8, <2>1, <2>2 DEF Sized
  <2> HIDE DEF more
  <2>9. SumOver(saved, more) = saved[p].size + SumOver(saved, Paths)  BY <2>8, SumLess
  <2>10. SumOver(saved, more) <= SumOver(saved, DOMAIN saved)  BY <1>7, <2>1, SumPart
  <2>11. /\ SumOver(saved, more) \in Nat /\ SumOver(saved, DOMAIN saved) \in Nat
         /\ saved[p].size \in Nat /\ bytes \in Nat /\ MaxBytes \in Nat
    BY <1>2, <1>7, <2>8, SumStep, SizesAreNat DEF Sized, FilesInv, Held
  <2>12. bytes + saved[p].size <= MaxBytes  BY <2>7, <2>9, <2>10, <2>11 DEF Captured
  <2> QED  BY <2>6, <2>12
<1> QED  BY <1>2, <1>3, <1>5, <1>6, <1>8 DEF p

LEMMA HeadReplayable ==
    ASSUME FilesInv, Rooted(tree), Captured, Copied, Pending, todo # <<>>
    PROVE  Replayable(Head(todo))
<1> DEFINE e == Head(todo)
           p == e.path
<1>1. /\ Normalize(p) = p /\ p \in Seq(Names) \ {<<>>} /\ p \in DOMAIN saved /\ p \notin seen
      /\ e.kind = saved[p].kind /\ e.size = saved[p].size
      /\ \A q \in Above(p) : q \in Paths /\ tree[q].kind = "dir"
      /\ p \in Paths => tree[p] = saved[p] /\ tree[p].kind = "dir"
      /\ p \notin Paths => inodes < MaxInodes
      /\ p \notin Paths => bytes + saved[p].size <= MaxBytes
  BY HeadFits
<1> HIDE DEF e, p
<1>2. saved[p] \in Node /\ saved[p].kind \in {"dir", "file"}  BY <1>1, NodeKinds DEF Captured, Rooted
<1>3. Acceptable(e)
  <2>1. e.path = p  BY DEF p
  <2>2. e.kind = "dir" => e.size = 0  BY <1>1, <1>2, SizesAreNat
  <2> QED  BY <1>1, <2>1, <2>2 DEF Acceptable
<1>4. \A q \in Ancestors(p) : q # p => ~IsFile(q)  BY <1>1 DEF IsFile, Above
<1>5. inodes \in Nat /\ MaxInodes \in Nat /\ bytes \in Nat  BY SizesAreNat DEF FilesInv, Held
<1>6. CASE e.kind = "dir"
  <2>1. ~IsFile(p)  BY <1>1 DEF IsFile
  <2>2. Missing(p) \subseteq {p} /\ (Missing(p) # {} => p \notin Paths)  BY <1>1 DEF Missing, Above
  <2>3. Missing(p) # {} => inodes + Cardinality(Missing(p)) <= MaxInodes
    <3> SUFFICES ASSUME Missing(p) # {} PROVE inodes + Cardinality(Missing(p)) <= MaxInodes  OBVIOUS
    <3>1. Missing(p) = {p}  BY <2>2
    <3>2. Cardinality({p}) = 1  BY FS_Singleton
    <3>3. inodes < MaxInodes  BY <1>1, <2>2
    <3>4. inodes + 1 <= MaxInodes  BY <1>5, <3>3
    <3> QED  BY <3>1, <3>2, <3>4
  <2>4. CanMkdir(p, TRUE)  BY <1>1, <1>4, <2>1, <2>3, NamesNotEscapes DEF CanMkdir
  <2>5. e.path = p  BY DEF p
  <2> QED  BY <1>1, <1>3, <1>6, <2>4, <2>5 DEF Replayable, e
<1>7. CASE e.kind # "dir"
  <2> DEFINE f == Front(p)
  <2>1. f \in Seq(Names) /\ Ancestors(f) = Above(p)  BY <1>1, AncestorsAre, FrontIs
  <2> HIDE DEF f
  <2>2. p \notin Paths  BY <1>1, <1>7
  <2>3. Missing(f) = {}  BY <1>1, <2>1 DEF Missing
  <2>4. \A q \in Ancestors(f) : ~IsFile(q)  BY <1>1, <2>1 DEF IsFile
  <2>5. CanMkdir(f, TRUE)  BY <2>1, <2>3, <2>4, NamesNotEscapes DEF CanMkdir
  <2>6. Cardinality(Missing(f)) = 0  BY <2>3, FS_EmptySet
  <2>7. NewBytes(p, e.size) <= MaxBytes
    <3>1. NewBytes(p, e.size) = bytes - 0 + e.size  BY <2>2 DEF NewBytes, OldSize, IsFile
    <3>2. e.size \in Nat  BY <1>1, <1>2, SizesAreNat
    <3> QED  BY <1>1, <1>5, <2>2, <3>1, <3>2
  <2>8. inodes + Cardinality(Missing(f)) < MaxInodes  BY <1>1, <1>5, <2>2, <2>6
  <2>9. CanReplayFile(p, e.size)  BY <1>1, <2>2, <2>5, <2>7, <2>8 DEF CanReplayFile, IsDir, f
  <2>10. e.path = p  BY DEF p
  <2> QED  BY <1>1, <1>3, <1>7, <2>9, <2>10 DEF Replayable, e
<1> QED  BY <1>6, <1>7 DEF e

\* Replaying one entry leaves the rest pending.
LEMMA ReplayCopies ==
    ASSUME FilesInv, Rooted(tree), Captured, Copied, Pending, ReplayDir \/ ReplayFile
    PROVE  Copied' /\ Pending'
<1> DEFINE e == Head(todo)
           p == e.path
<1>1. todo # <<>> /\ UNCHANGED saved  BY DEF ReplayDir, ReplayFile
<1>2. /\ Normalize(p) = p /\ p \in Seq(Names) \ {<<>>} /\ p \in DOMAIN saved /\ p \notin seen
      /\ e.kind = saved[p].kind /\ e.size = saved[p].size
      /\ \A q \in Above(p) : q \in Paths /\ tree[q].kind = "dir"
      /\ p \in Paths => tree[p] = saved[p] /\ tree[p].kind = "dir"
  BY <1>1, HeadFits
<1>3. seen' = seen \cup {p} /\ todo' = Tail(todo)  BY <1>2 DEF ReplayDir, ReplayFile
<1>4. saved[p] \in Node /\ saved[p].kind \in {"dir", "file"}  BY <1>2, NodeKinds DEF Captured, Rooted
<1>5. Paths' = Paths \cup {p} /\ \A q \in Paths' : tree'[q] = IF q = p THEN saved[p] ELSE tree[q]
  <2>1. CASE ReplayDir
    <3>1. tree' = [q \in Paths \cup Missing(p) |-> IF q \in Paths THEN tree[q] ELSE Dir]
      BY <1>2, <2>1 DEF ReplayDir, Mkdir
    <3>2. Paths \cup Missing(p) = Paths \cup {p}
      <4>1. p \in Ancestors(p)  BY <1>2, AncestorsAre
      <4> QED  BY <1>2, <4>1 DEF Missing, Above
    <3>3. saved[p] = Dir  BY <1>2, <1>4, <2>1, NodeKinds DEF ReplayDir
    <3> HIDE DEF p
    <3>4. Paths' = Paths \cup {p}  BY <3>1, <3>2 DEF Paths
    <3> QED  BY <1>2, <3>1, <3>2, <3>3, <3>4
  <2>2. CASE ReplayFile
    <3>1. tree' = [q \in Paths \cup Missing(Front(p)) \cup {p} |->
                     IF q = p THEN File(e.size) ELSE IF q \in Paths THEN tree[q] ELSE Dir]
      BY <1>2, <2>2 DEF ReplayFile
    <3>2. Missing(Front(p)) = {}
      <4>1. Ancestors(Front(p)) = Above(p)  BY <1>2, AncestorsAre
      <4> QED  BY <1>2, <4>1 DEF Missing
    <3>3. saved[p] = File(e.size)
      <4>1. saved[p].kind = "file"  BY <1>2, <2>2 DEF ReplayFile
      <4> QED  BY <1>2, <1>4, <4>1, NodeKinds
    <3> HIDE DEF p, e
    <3>4. Paths \cup Missing(Front(p)) \cup {p} = Paths \cup {p}  BY <3>2
    <3>5. Paths' = Paths \cup {p}  BY <3>1, <3>4 DEF Paths
    <3> QED  BY <1>2, <3>1, <3>3, <3>4, <3>5
  <2> QED  BY <2>1, <2>2
<1>6. e = todo[1] /\ todo \in Seq(Replay)  BY <1>1, ReplayedEntry DEF FilesInv
<1> HIDE DEF e
<1>7. p = todo[1].path  BY <1>6
<1> HIDE DEF p
<1>8. Copied'
  <2>1. Paths' = (DOMAIN Fresh) \cup seen'  BY <1>3, <1>5 DEF Copied
  <2>2. \A q \in Paths' : q \in DOMAIN saved /\ tree'[q] = saved[q]  BY <1>2, <1>5 DEF Copied
  <2>3. (DOMAIN Fresh)' = DOMAIN Fresh  BY DEF Fresh
  <2> QED  BY <1>1, <2>1, <2>2, <2>3 DEF Copied
<1>9. Pending'
  <2> DEFINE r == Tail(todo)
             n == Len(todo)
  <2>1. n \in Nat /\ n >= 1 /\ Len(r) = n - 1 /\ \A k \in 1..(n - 1) : r[k] = todo[k + 1]
    BY <1>1, <1>6, HeadTailProperties
  <2> HIDE DEF r
  <2>2. \A k \in 1..Len(r) : k + 1 \in 1..n /\ k + 1 # 1 /\ r[k] = todo[k + 1] /\ 1 \in 1..n  BY <2>1
  <2>3. /\ \A k \in 1..n : /\ todo[k].path \in DOMAIN saved /\ todo[k].path \notin seen
                           /\ todo[k].kind = saved[todo[k].path].kind
                           /\ todo[k].size = saved[todo[k].path].size
        /\ \A j, k \in 1..n : todo[j].path = todo[k].path => j = k
        /\ \A j, k \in 1..n : j < k => ~IsStrictPrefix(todo[k].path, todo[j].path)
        /\ \A q \in DOMAIN saved : q \in seen \/ \E k \in 1..n : todo[k].path = q
    BY DEF Pending
  <2> HIDE DEF n
  <2>4. \A k \in 1..Len(r) : /\ r[k].path \in DOMAIN saved /\ r[k].path \notin seen'
                             /\ r[k].kind = saved[r[k].path].kind /\ r[k].size = saved[r[k].path].size
    <3> SUFFICES ASSUME NEW k \in 1..Len(r)
                 PROVE  /\ r[k].path \in DOMAIN saved /\ r[k].path \notin seen'
                        /\ r[k].kind = saved[r[k].path].kind /\ r[k].size = saved[r[k].path].size
      OBVIOUS
    <3>1. k + 1 \in 1..n /\ k + 1 # 1 /\ r[k] = todo[k + 1] /\ 1 \in 1..n  BY <2>2
    <3>2. todo[k + 1].path # p  BY <1>7, <2>3, <3>1
    <3> QED  BY <1>3, <2>3, <3>1, <3>2
  <2>5. \A j, k \in 1..Len(r) : r[j].path = r[k].path => j = k
    <3> SUFFICES ASSUME NEW j \in 1..Len(r), NEW k \in 1..Len(r), r[j].path = r[k].path PROVE j = k  OBVIOUS
    <3>1. j + 1 = k + 1  BY <2>2, <2>3
    <3> QED  BY <2>1, <3>1
  <2>6. \A j, k \in 1..Len(r) : j < k => ~IsStrictPrefix(r[k].path, r[j].path)
    <3> SUFFICES ASSUME NEW j \in 1..Len(r), NEW k \in 1..Len(r), j < k PROVE ~IsStrictPrefix(r[k].path, r[j].path)
      OBVIOUS
    <3>1. j + 1 < k + 1  BY <2>1
    <3> QED  BY <2>2, <2>3, <3>1
  <2>7. \A q \in DOMAIN saved : q \in seen' \/ \E k \in 1..Len(r) : r[k].path = q
    <3> SUFFICES ASSUME NEW q \in DOMAIN saved, q \notin seen' PROVE \E k \in 1..Len(r) : r[k].path = q  OBVIOUS
    <3>1. PICK k \in 1..n : todo[k].path = q  BY <1>3, <2>3
    <3>2. k # 1  BY <1>3, <1>7, <3>1
    <3>3. k - 1 \in 1..Len(r) /\ (k - 1) + 1 = k  BY <2>1, <3>2
    <3>4. r[k - 1].path = q  BY <2>2, <3>1, <3>3
    <3> QED  BY <3>3, <3>4
  <2>8. todo' = r /\ UNCHANGED saved  BY <1>1, <1>3 DEF r
  <2> QED  BY <2>4, <2>5, <2>6, <2>7, <2>8 DEF Pending
<1> QED  BY <1>8, <1>9

LEMMA CopyStart == FsInit => CopyInv
<1> SUFFICES ASSUME FsInit PROVE CopyInv  OBVIOUS
<1>1. tree = Fresh /\ saved = NoTree /\ phase = "live"  BY DEF FsInit
<1>2. Rooted(tree)  BY <1>1, FreshIsRooted
<1> QED  BY <1>1, <1>2, FsStart DEF CopyInv

LEMMA CopyStep == ASSUME CopyInv, [FsNext]_fsVars, FilesInv' PROVE CopyInv'
<1>1. FilesInv /\ Rooted(tree) /\ (saved # NoTree => Captured)  BY DEF CopyInv
<1>2. Rooted(tree') /\ (saved' # NoTree => Captured')  BY <1>1, TreeStaysRooted, CapturesTrees
<1>3. ASSUME phase' = "restoring", own' PROVE saved' # NoTree /\ Copied' /\ Pending'
  <2>1. CASE UNCHANGED fsVars
    <3>1. phase = "restoring" /\ own  BY <1>3, <2>1 DEF fsVars
    <3>2. saved # NoTree /\ Copied /\ Pending  BY <3>1 DEF CopyInv
    <3> QED  BY <2>1, <3>2 DEF fsVars, Copied, Pending, Paths, Fresh
  <2>2. CASE ReplayDir \/ ReplayFile
    <3>1. phase = "restoring" /\ own /\ saved' = saved  BY <1>3, <2>2 DEF ReplayDir, ReplayFile
    <3>2. saved # NoTree /\ Captured /\ Copied /\ Pending  BY <3>1 DEF CopyInv
    <3> QED  BY <1>1, <2>2, <3>1, <3>2, ReplayCopies
  <2>3. CASE Restart
    <3>1. Captured  BY <1>1, <2>3 DEF Restart
    <3> QED  BY <1>1, <1>3, <2>3, <3>1, RestartCopies
  <2>4. CASE \E entries \in Foreign : RestartForeign(entries)
    <3>1. own' = FALSE  BY <2>4 DEF RestartForeign
    <3> QED  BY <1>3, <3>1
  <2>5. CASE \/ \E raw \in RawPaths :
                   \/ \E n \in Sizes : WriteFile(raw, n)
                   \/ \E recursive \in BOOLEAN : MakeDirectory(raw, recursive)
             \/ Snapshot \/ RefuseEntry \/ FinishRestore
    <3>1. phase' # "restoring"
      BY <2>5 DEF WriteFile, MakeDirectory, Snapshot, RefuseEntry, FinishRestore
    <3> QED  BY <1>3, <3>1
  <2> QED  BY <2>1, <2>2, <2>3, <2>4, <2>5 DEF FsNext
<1> QED  BY <1>2, <1>3 DEF CopyInv

LEMMA CopyInvariant == FsSpec => []CopyInv
<1>1. FsInit => CopyInv  BY CopyStart
<1>2. CopyInv /\ FilesInv' /\ [FsNext]_fsVars => CopyInv'  BY CopyStep
<1> QED  BY <1>1, <1>2, FilesInvariant, PTL DEF FsSpec

\* What a restore of a captured tree does, once its bounds were accepted: it
\* never fails, and when it ends the tree is the captured one.
RestoreStep ==
    phase = "restoring" /\ own =>
        /\ phase' # "unusable"
        /\ phase' = "live" => tree = saved

LEMMA RestoreSteps == ASSUME CopyInv, [FsNext]_fsVars PROVE RestoreStep
<1> SUFFICES ASSUME phase = "restoring", own
             PROVE  phase' # "unusable" /\ (phase' = "live" => tree = saved)
  BY DEF RestoreStep
<1>1. FilesInv /\ Rooted(tree) /\ Captured /\ Copied /\ Pending  BY DEF CopyInv
<1>2. ~RefuseEntry
  <2> SUFFICES ASSUME RefuseEntry PROVE FALSE  OBVIOUS
  <2>1. todo # <<>> /\ ~Replayable(Head(todo))  BY DEF RefuseEntry
  <2> QED  BY <1>1, <2>1, HeadReplayable
<1>3. phase' # "unusable"
  BY <1>2 DEF FsNext, fsVars, WriteFile, MakeDirectory, Snapshot, Restart, RestartForeign, ReplayDir,
              ReplayFile, FinishRestore
<1>4. ASSUME phase' = "live" PROVE tree = saved
  <2>1. todo = <<>>
    BY <1>2, <1>4 DEF FsNext, fsVars, WriteFile, MakeDirectory, Snapshot, Restart, RestartForeign, ReplayDir,
                      ReplayFile, FinishRestore
  <2>2. DOMAIN saved \subseteq seen  BY <2>1 DEF Pending, CopyInv
  <2>3. DOMAIN tree = DOMAIN saved /\ \A p \in DOMAIN tree : tree[p] = saved[p]
    BY <1>1, <2>2 DEF Copied, Paths
  <2>4. tree = [p \in DOMAIN tree |-> tree[p]] /\ saved = [p \in DOMAIN saved |-> saved[p]]
    BY <1>1 DEF Rooted, Captured
  <2> QED  BY <2>3, <2>4
<1> QED  BY <1>3, <1>4

\* A restore of what was captured, whatever the limits of a snapshot are, goes
\* through once its bounds were accepted and brings the captured tree back.
THEOREM RestoresExactly == FsSpec => [][RestoreStep]_fsVars
<1>1. CopyInv /\ [FsNext]_fsVars => RestoreStep  BY RestoreSteps
<1> QED  BY <1>1, CopyInvariant, PTL DEF FsSpec

----------------------------------------------------------------------------
(* The limits of a snapshot. *)

\* The limits of a snapshot leave room for what the limits of the filesystem
\* allow, and no path a caller writes is too long.
Roomy ==
    /\ MaxInodes - 1 <= MaxEntries
    /\ MaxBytes <= MaxSnapshotBytes
    /\ 1 <= MaxComponents
    /\ \A raw \in RawPaths : Len(Normalize(raw)) <= MaxComponents

Shallow ==
    /\ \A p \in Paths : Len(p) <= MaxComponents
    /\ \A p \in DOMAIN saved : Len(p) <= MaxComponents
    /\ \A k \in 1..Len(todo) : Len(Normalize(todo[k].path)) <= MaxComponents

LEMMA FreshIsShallow == Roomy => \A p \in DOMAIN Fresh : Len(p) <= MaxComponents
<1> SUFFICES ASSUME Roomy, NEW d \in Defaults PROVE Len(<<d>>) <= MaxComponents  BY DEF Fresh
<1>1. Len(<<d>>) = 1  OBVIOUS
<1> QED  BY <1>1 DEF Roomy

LEMMA ShallowStart == Roomy /\ FsInit => Shallow
<1> SUFFICES ASSUME Roomy, FsInit PROVE Shallow  OBVIOUS
<1>1. tree = Fresh /\ saved = <<>> /\ todo = <<>>  BY DEF FsInit, NoTree
<1>2. DOMAIN saved = {} /\ 1..Len(todo) = {}  BY <1>1
<1> QED  BY <1>1, <1>2, FreshIsShallow DEF Shallow, Paths

LEMMA ShallowTree == ASSUME Roomy, FilesInv, Shallow, [FsNext]_fsVars
                     PROVE  \A p \in Paths' : Len(p) <= MaxComponents
<1>0. MaxComponents \in Nat  BY FilesystemAssumption
<1>1. CASE \E raw \in RawPaths :
              \/ \E n \in Sizes : WriteFile(raw, n)
              \/ \E recursive \in BOOLEAN : MakeDirectory(raw, recursive)
  <2>1. PICK raw \in RawPaths : \/ \E n \in Sizes : WriteFile(raw, n)
                                \/ \E recursive \in BOOLEAN : MakeDirectory(raw, recursive)
    BY <1>1
  <2> DEFINE p == Normalize(raw)
  <2>2. raw \in Seq(Components)  BY FilesystemAssumption DEF Components
  <2>3. p \in Normal /\ Len(p) <= MaxComponents  BY <2>2, NormalizeTyped DEF Roomy
  <2>4. ASSUME NEW n \in Sizes, WriteFile(raw, n) PROVE \A q \in Paths' : Len(q) <= MaxComponents
    <3>1. Paths' = Paths \cup {p}  BY <2>4 DEF WriteFile, Write, Paths
    <3> QED  BY <2>3, <3>1 DEF Shallow
  <2>5. ASSUME NEW recursive \in BOOLEAN, MakeDirectory(raw, recursive)
        PROVE  \A q \in Paths' : Len(q) <= MaxComponents
    <3>1. p # Escapes /\ Paths' = Paths \cup Missing(p)  BY <2>5 DEF MakeDirectory, Mkdir, Paths, CanMkdir
    <3>2. p \in Seq(Names)  BY <2>3, <3>1, EscapesIs
    <3> HIDE DEF p
    <3>3. \A q \in Missing(p) : q \in Seq(Names) /\ Len(q) <= Len(p)  BY <3>2, MissingIs
    <3>4. Len(p) \in Nat /\ \A q \in Missing(p) : Len(q) \in Nat  BY <3>2, <3>3
    <3>5. \A q \in Missing(p) : Len(q) <= MaxComponents  BY <1>0, <2>3, <3>3, <3>4
    <3> QED  BY <3>1, <3>5 DEF Shallow
  <2> QED  BY <2>1, <2>4, <2>5
<1>2. CASE Snapshot \/ FinishRestore \/ UNCHANGED fsVars
  <2>1. tree' = tree  BY <1>2 DEF Snapshot, FinishRestore, fsVars
  <2> QED  BY <2>1 DEF Shallow, Paths
<1>3. CASE Restart \/ (\E entries \in Foreign : RestartForeign(entries)) \/ RefuseEntry
  <2>1. tree' = Fresh  BY <1>3 DEF Restart, RestartForeign, Load, RefuseEntry
  <2> QED  BY <2>1, FreshIsShallow DEF Paths
<1>4. CASE ReplayDir \/ ReplayFile
  <2> DEFINE p == Normalize(Head(todo).path)
  <2>1. p \in Seq(Names) /\ Len(p) <= MaxComponents
    <3>1. Head(todo) = todo[1] /\ 1 \in 1..Len(todo) /\ p \in Seq(Names)
      BY <1>4, ReplayedEntry DEF ReplayDir, ReplayFile
    <3> QED  BY <3>1 DEF Shallow
  <2>2. p # <<>>  BY <1>4 DEF ReplayDir, ReplayFile, Acceptable
  <2>3. Paths' = Paths \cup Missing(p) \/ Paths' = Paths \cup Missing(Front(p)) \cup {p}
    BY <1>4 DEF ReplayDir, ReplayFile, Mkdir, Paths
  <2> HIDE DEF p
  <2>4. Front(p) \in Seq(Names) /\ Len(Front(p)) = Len(p) - 1  BY <2>1, <2>2, FrontIs
  <2>5. /\ \A q \in Missing(p) : q \in Seq(Names) /\ Len(q) <= Len(p)
        /\ \A q \in Missing(Front(p)) : q \in Seq(Names) /\ Len(q) <= Len(p) - 1
    BY <2>1, <2>4, MissingIs
  <2>6. Len(p) \in Nat /\ \A q \in Missing(p) \cup Missing(Front(p)) : Len(q) \in Nat  BY <2>1, <2>5
  <2>7. \A q \in Missing(p) \cup Missing(Front(p)) : Len(q) <= MaxComponents  BY <1>0, <2>1, <2>5, <2>6
  <2> QED  BY <2>1, <2>3, <2>7 DEF Shallow
<1> QED  BY <1>1, <1>2, <1>3, <1>4 DEF FsNext

LEMMA ShallowStep == ASSUME Roomy, FilesInv, Shallow, [FsNext]_fsVars PROVE Shallow'
<1>1. \A p \in Paths' : Len(p) <= MaxComponents  BY ShallowTree
<1>2. \A p \in DOMAIN saved' : Len(p) <= MaxComponents
  <2>1. saved' = saved \/ saved' = tree
    BY DEF FsNext, fsVars, WriteFile, MakeDirectory, Snapshot, Restart, RestartForeign, ReplayDir,
           ReplayFile, RefuseEntry, FinishRestore
  <2> QED  BY <2>1 DEF Shallow, Paths
<1>3. \A k \in 1..Len(todo') : Len(Normalize(todo'[k].path)) <= MaxComponents
  <2>1. CASE todo' = todo  BY <2>1 DEF Shallow
  <2>2. CASE todo' = <<>>
    <3>1. 1..Len(todo') = {}  BY <2>2
    <3> QED  BY <3>1
  <2>3. CASE \E entries : InBounds(entries) /\ todo' = entries  BY <2>3 DEF InBounds
  <2>4. CASE ReplayDir \/ ReplayFile
    <3>1. todo # <<>> /\ todo' = Tail(todo)  BY <2>4 DEF ReplayDir, ReplayFile
    <3>2. todo \in Seq(Replay)  BY DEF FilesInv
    <3>3. Len(todo) \in Nat /\ Len(todo') = Len(todo) - 1 /\ \A k \in 1..Len(todo') : todo'[k] = todo[k + 1]
      BY <3>1, <3>2, HeadTailProperties
    <3>4. \A k \in 1..Len(todo') : k + 1 \in 1..Len(todo)  BY <3>3
    <3> QED  BY <3>3, <3>4 DEF Shallow
  <2>5. \/ todo' = todo \/ todo' = <<>> \/ ReplayDir \/ ReplayFile
        \/ \E entries : InBounds(entries) /\ todo' = entries
    BY DEF FsNext, fsVars, WriteFile, MakeDirectory, Snapshot, Restart, RestartForeign, Load,
           RefuseEntry, FinishRestore
  <2> QED  BY <2>1, <2>2, <2>3, <2>4, <2>5
<1> QED  BY <1>1, <1>2, <1>3 DEF Shallow

LEMMA ShallowInvariant == Roomy => (FsSpec => []Shallow)
<1> SUFFICES ASSUME Roomy PROVE FsSpec => []Shallow  OBVIOUS
<1>1. FsInit => Shallow  BY ShallowStart
<1>2. FilesInv /\ Shallow /\ [FsNext]_fsVars => Shallow'  BY ShallowStep
<1> QED  BY <1>1, <1>2, FilesInvariant, PTL DEF FsSpec

\* What was captured is within the limits of a snapshot.
LEMMA CapturedInBounds ==
    ASSUME Roomy, FilesInv, Captured, Shallow, NEW entries \in SavedEntries PROVE InBounds(entries)
<1>1. /\ entries \in Seq(Raw)
      /\ \A k \in 1..Len(entries) : /\ entries[k].path \in DOMAIN saved
                                    /\ entries[k] = EntryOf(saved, entries[k].path)
      /\ \A j, k \in 1..Len(entries) : entries[j].path = entries[k].path => j = k
      /\ \A p \in DOMAIN saved : \E k \in 1..Len(entries) : entries[k].path = p
      /\ Len(entries) = Cardinality(DOMAIN saved)
  BY SavedEntriesAre
<1>2. IsFiniteSet(DOMAIN saved) /\ \A p \in DOMAIN saved : p \in Seq(Names) /\ saved[p].size \in Nat
  BY SizesAreNat DEF FilesInv
<1>3. Len(entries) <= MaxEntries
  <2>1. Cardinality(DOMAIN saved) \in Nat  BY <1>2, FS_CardinalityType
  <2>2. MaxEntries \in Nat /\ MaxInodes \in Nat  BY FilesystemAssumption
  <2> QED  BY <1>1, <2>1, <2>2 DEF Captured, Roomy
<1>4. \A k \in 1..Len(entries) :
         Normalize(entries[k].path) # Escapes /\ Len(Normalize(entries[k].path)) <= MaxComponents
  <2> SUFFICES ASSUME NEW k \in 1..Len(entries)
               PROVE  Normalize(entries[k].path) # Escapes /\ Len(Normalize(entries[k].path)) <= MaxComponents
    OBVIOUS
  <2> DEFINE p == entries[k].path
  <2>1. p \in DOMAIN saved  BY <1>1
  <2> HIDE DEF p
  <2>2. p \in Seq(Names) /\ Normalize(p) = p /\ p # Escapes  BY <1>2, <2>1, NormalizeNames, NamesNotEscapes
  <2>3. Len(p) <= MaxComponents  BY <2>1 DEF Shallow
  <2> QED  BY <2>2, <2>3 DEF p
<1>5. TotalBytes(entries) = SumOver(saved, DOMAIN saved)
  <2>1. \A k \in 1..Len(entries) : entries[k].size = saved[entries[k].path].size
    <3> SUFFICES ASSUME NEW k \in 1..Len(entries) PROVE entries[k].size = saved[entries[k].path].size  OBVIOUS
    <3> DEFINE p == entries[k].path
    <3>1. entries[k] = EntryOf(saved, p)  BY <1>1
    <3> HIDE DEF p
    <3>2. entries[k].size = saved[p].size  BY <3>1 DEF EntryOf
    <3> QED  BY <3>2 DEF p
  <2>2. Sized(saved, DOMAIN saved)  BY <1>2 DEF Sized
  <2>3. \A k \in 1..Len(entries) : /\ entries[k].path \in DOMAIN saved
                                   /\ entries[k].size = saved[entries[k].path].size
    BY <1>1, <2>1
  <2>4. /\ \A j, k \in 1..Len(entries) : entries[j].path = entries[k].path => j = k
        /\ \A p \in DOMAIN saved : \E k \in 1..Len(entries) : entries[k].path = p
        /\ entries \in Seq(Raw)
    BY <1>1
  <2> QED  BY <2>2, <2>3, <2>4, TotalIsSum
<1>6. TotalBytes(entries) <= MaxBytes /\ TotalBytes(entries) <= MaxSnapshotBytes
  <2>1. SumOver(saved, DOMAIN saved) \in Nat  BY <1>2, SumStep DEF Sized
  <2>2. MaxBytes \in Nat /\ MaxSnapshotBytes \in Nat  BY FilesystemAssumption
  <2> QED  BY <1>5, <2>1, <2>2 DEF Captured, Roomy
<1> QED  BY <1>3, <1>4, <1>6 DEF InBounds

\* Whatever was captured can be restored, and comes back as it was, as long as
\* the limits of a snapshot leave room for it.
THEOREM RestoresWhatWasSaved == Roomy => (FsSpec => RoundTrip)
<1> SUFFICES ASSUME Roomy PROVE FsSpec => RoundTrip  OBVIOUS
<1>1. ASSUME CopyInv, Shallow, [FsNext]_fsVars
      PROVE  [/\ phase = "restoring" /\ phase' = "live" /\ own => tree = saved
              /\ phase' = "unusable" => ~own']_fsVars
  <2>1. CASE UNCHANGED fsVars  BY <2>1
  <2>2. CASE Restart
    <3>1. PICK entries \in SavedEntries : Load(entries)  BY <2>2 DEF Restart
    <3>2. FilesInv /\ Captured  BY <1>1, <2>2 DEF CopyInv, Restart
    <3>3. InBounds(entries)  BY <1>1, <3>2, CapturedInBounds
    <3>4. phase' = "restoring" /\ phase = "live"  BY <2>2, <3>1, <3>3 DEF Load, Restart
    <3> QED  BY <3>4
  <2>3. CASE FsNext /\ ~Restart /\ phase = "restoring"
    <3>1. RestoreStep  BY <1>1, RestoreSteps
    <3>2. own' = own
      BY <2>3 DEF FsNext, WriteFile, MakeDirectory, Snapshot, RestartForeign, ReplayDir, ReplayFile,
                  RefuseEntry, FinishRestore
    <3> QED  BY <2>3, <3>1, <3>2 DEF RestoreStep
  <2>4. CASE FsNext /\ ~Restart /\ phase # "restoring"
    <3>1. phase' = "unusable" => ~own'
      BY <2>4 DEF FsNext, WriteFile, MakeDirectory, Snapshot, RestartForeign, ReplayDir, ReplayFile,
                  RefuseEntry, FinishRestore
    <3> QED  BY <2>4, <3>1
  <2> QED  BY <1>1, <2>1, <2>2, <2>3, <2>4
<1>2. CopyInv /\ Shallow /\ [FsNext]_fsVars =>
        [/\ phase = "restoring" /\ phase' = "live" /\ own => tree = saved
         /\ phase' = "unusable" => ~own']_fsVars
  BY <1>1
<1>3. FsSpec => []Shallow  BY ShallowInvariant
<1> QED  BY <1>2, <1>3, CopyInvariant, PTL DEF FsSpec, RoundTrip
=============================================================================
