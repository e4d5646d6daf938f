------------------------------ MODULE JobStore ------------------------------
(***************************************************************************)
(* The jobs of one guest session (src/src/jobs.rs), the browser handlers   *)
(* that run them against the session's VM (src/src/server.rs,              *)
(* src/src/apps.rs) and the session snapshot that carries jobs and files   *)
(* over a restart (src/src/session_snapshot.rs).                           *)
(*                                                                         *)
(* A handler works in three critical sections: it starts its job and marks *)
(* it running under the lock of the job store, works on the guest files    *)
(* under the lock of the VM, and finishes the job under the first lock     *)
(* again; opening an upload reads it in a section of its own.  state_lock  *)
(* keeps the handlers of one session apart today; the store does not rely  *)
(* on it and neither does the model.  A session has one owner, so the      *)
(* owner of a record is left out.                                          *)
(***************************************************************************)
EXTENDS GuestApps

CONSTANTS
    Handlers,    \* connection threads that may run a job
    Requests,    \* requests for a job: [kind, name, text]
    MaxJobs,     \* MAX_JOBS_PER_SESSION
    MaxId,       \* u64::MAX
    MaxRecords,  \* MAX_JOB_SNAPSHOT_RECORDS
    Foreign,     \* snapshots that were not captured by this code
    MaxRestarts  \* bound of the model: restarts of the host

Active == {"Queued", "Running"}
Terminal == {"Succeeded", "Failed"}
Job == [id: Nat, state: Active \cup Terminal, out: Paths \cup {Absent}]
Texts == Seq(Contents \cup {Example})
Files == [Paths -> Texts \cup {Absent}]
Snapshot == [next: 0..MaxId, jobs: Seq(Job), files: Files]

ASSUME JobsAssumption ==
    /\ MaxJobs \in Nat /\ MaxId \in Nat /\ MaxRecords \in Nat /\ MaxRestarts \in Nat
    /\ MaxJobs <= MaxRecords
    /\ Absent \notin Texts /\ Absent \notin Paths
    /\ \A r \in Requests : r.text \in Texts
    /\ Foreign \subseteq Snapshot

VARIABLES
    next,      \* JobStore.next_id
    jobs,      \* JobStore.jobs, oldest first
    files,     \* files of the guest
    handler,   \* what each handler is doing: its place, job, request and upload
    snapshot,  \* the last snapshot on disk
    restarts

vars == <<next, jobs, files, handler, snapshot, restarts>>

Idle == [pc |-> "idle", id |-> 0, request |-> Absent, upload |-> Absent]
Handler == [pc: {"idle", "working", "holding", "worked", "refused", "answered"}, id: 0..MaxId,
            request: Requests \cup {Absent}, upload: Texts \cup {Absent}]
Empty == [next |-> 0, jobs |-> <<>>, files |-> NoFiles]

TypeOK ==
    /\ next \in 0..MaxId
    /\ jobs \in Seq(Job)
    /\ files \in Files
    /\ handler \in [Handlers -> Handler]
    /\ snapshot \in Snapshot
    /\ restarts \in 0..MaxRestarts

----------------------------------------------------------------------------
Restorable(s) ==
    /\ Len(s.jobs) <= MaxRecords
    /\ \A j, k \in 1..Len(s.jobs) : s.jobs[j].id = s.jobs[k].id => j = k
    /\ \A k \in 1..Len(s.jobs) : s.jobs[k].id # 0 /\ s.jobs[k].id <= s.next

\* Mutant: a job that was running stays running.
Interrupt_Kept(job) == job

\* from_snapshot closes the jobs whose process died...
Interrupt(job) ==
    IF job.state \in Active THEN [job EXCEPT !.state = "Failed", !.out = Absent] ELSE job

\* Mutant: an output is believed to be there.
Reconcile_Trusting(job, fs) == job

\* ... and reconcile_output_paths those whose output did not come back.
Reconcile(job, fs) ==
    IF job.state # "Succeeded" THEN job
    ELSE IF job.out # Absent /\ fs[job.out] # Absent THEN job
    ELSE [job EXCEPT !.state = "Failed", !.out = Absent]

\* SessionSnapshot::restore; where the snapshot is refused, the client has to
\* come back without its cookie and starts anew.
Restored(s) ==
    IF ~Restorable(s) THEN Empty
    ELSE [s EXCEPT !.jobs = [k \in 1..Len(s.jobs) |-> Reconcile(Interrupt(s.jobs[k]), s.files)]]

\* The host starts without a snapshot, or with one that nobody captured.
Init ==
    /\ snapshot \in {Empty} \cup Foreign
    /\ LET host == Restored(snapshot)
       IN  next = host.next /\ jobs = host.jobs /\ files = host.files
    /\ handler = [h \in Handlers |-> Idle]
    /\ restarts = 0

----------------------------------------------------------------------------
Places == 1..Len(jobs)
ActivePlaces == {k \in Places : jobs[k].state \in Active}

OldestTerminal(k) ==
    /\ k \in Places /\ jobs[k].state \in Terminal
    /\ \A j \in 1..(k - 1) : jobs[j].state \notin Terminal

Without(k) == SubSeq(jobs, 1, k - 1) \o SubSeq(jobs, k + 1, Len(jobs))

\* try_start refuses at the end of the counter and when too many are active.
MayStart == next # MaxId /\ Cardinality(ActivePlaces) < MaxJobs

\* start and mark_running, on the records that were kept.
Started(kept) == Append(kept, [id |-> next + 1, state |-> "Running", out |-> Absent])

\* handle_upload, under the lock of the VM; it is no job.
UploadFile(h, name, content) ==
    /\ handler[h].pc = "idle"
    /\ \E o \in Uploaded(files, name, content) : files' = o.files
    /\ handler' = [handler EXCEPT ![h].pc = "answered"]
    /\ UNCHANGED <<next, jobs, snapshot, restarts>>

\* handle_tabulate, handle_pdf_inspection and handle_app_operation begin.
Begin(h, request) ==
    /\ handler[h].pc = "idle"
    /\ MayStart
    /\ next' = next + 1
    /\ IF Len(jobs) >= MaxJobs
         THEN \E k \in Places : OldestTerminal(k) /\ jobs' = Started(Without(k))
         ELSE jobs' = Started(jobs)
    /\ handler' = [handler EXCEPT ![h] = [pc |-> "working", id |-> next + 1,
                                         request |-> request, upload |-> Absent]]
    /\ UNCHANGED <<files, snapshot, restarts>>

OpensUpload(request) == request.kind \in {"docs open_upload", "sheets open_upload"}

\* What the request does to the files, in one section under the lock of the VM.
Outcomes(request, upload) ==
    LET kind == request.kind
    IN  CASE kind = "tabulate" -> Tabulate(files, request.name)
          [] kind = "pdf" -> InspectPdf(files, request.name)
          [] kind = "docs open" -> OpenDocs(files)
          [] kind = "docs read" -> ReadDocument(files)
          [] kind = "docs replace" -> ReplaceDocument(files, request.text, <<>>)
          [] kind = "docs append" -> AppendDocument(files, request.text)
          [] kind = "docs open_upload" -> OpenUploadedDocument(files, upload)
          [] kind = "sheets open" -> OpenSheets(files)
          [] kind = "sheets import" -> ImportSheet(files, request.text)
          [] kind = "sheets open_upload" -> ImportRecords(files, upload)
          [] OTHER -> Fails(files)  \* unsupported operation

\* The file that the record of a job names when the job succeeds.
OutputOf(request) ==
    CASE request.kind = "tabulate" -> TableOf(request.name)
      [] request.kind = "pdf" -> PdfOf(request.name)
      [] request.kind \in {"docs open", "docs read", "docs replace", "docs append",
                          "docs open_upload"} -> DocumentText
      [] OTHER -> SheetSummary

Done(h, outcome) ==
    /\ files' = outcome.files
    /\ handler' = [handler EXCEPT ![h].pc = IF outcome.ok THEN "worked" ELSE "refused"]

\* The work of a job, its output in the guest before the job says so; where it
\* fails, some of it may be there.
Work(h) ==
    /\ handler[h].pc = "working"
    /\ ~OpensUpload(handler[h].request)
    /\ \E o \in Outcomes(handler[h].request, Absent) : Done(h, o)
    /\ UNCHANGED <<next, jobs, snapshot, restarts>>

\* import_uploaded_document and import_uploaded_sheet copy the upload and let
\* go of the lock while they parse it...
ReadUpload(h) ==
    /\ handler[h].pc = "working"
    /\ OpensUpload(handler[h].request)
    /\ LET upload == UploadAt(files, handler[h].request.name)
       IN  handler' = [handler EXCEPT ![h].pc = IF upload = Absent THEN "refused" ELSE "holding",
                                      ![h].upload = upload]
    /\ UNCHANGED <<next, jobs, files, snapshot, restarts>>

\* ... and write what they made of it, whatever was written since.
WriteUpload(h) ==
    /\ handler[h].pc = "holding"
    /\ \E o \in Outcomes(handler[h].request, handler[h].upload) : Done(h, o)
    /\ UNCHANGED <<next, jobs, snapshot, restarts>>

\* finish: only the running record with this id changes.
Result(job, h) ==
    IF job.id # handler[h].id \/ job.state # "Running" THEN job
    ELSE IF handler[h].pc = "worked"
      THEN [job EXCEPT !.state = "Succeeded", !.out = OutputOf(handler[h].request)]
      ELSE [job EXCEPT !.state = "Failed", !.out = Absent]

Finish(h) ==
    /\ handler[h].pc \in {"worked", "refused"}
    /\ jobs' = [k \in Places |-> Result(jobs[k], h)]
    /\ handler' = [handler EXCEPT ![h] = [Idle EXCEPT !.pc = "answered"]]
    /\ UNCHANGED <<next, files, snapshot, restarts>>

----------------------------------------------------------------------------
\* SessionSnapshot::capture, with both locks held.
Captured == [next |-> next, jobs |-> jobs, files |-> files]

\* handle_connection persists the session when its handler is done, with the
\* jobs of other handlers as they are then.  That it failed is only logged: to
\* the next start it is as if the host had died before it.
Persist(h) ==
    /\ handler[h].pc = "answered"
    /\ snapshot' = Captured
    /\ handler' = [handler EXCEPT ![h] = Idle]
    /\ UNCHANGED <<next, jobs, files, restarts>>

\* The host dies with its handlers and restores the last snapshot.
Restart ==
    /\ restarts < MaxRestarts
    /\ restarts' = restarts + 1
    /\ handler' = [h \in Handlers |-> Idle]
    /\ LET host == Restored(snapshot)
       IN  next' = host.next /\ jobs' = host.jobs /\ files' = host.files
    /\ UNCHANGED snapshot

Next ==
    \/ \E h \in Handlers :
          \/ \E request \in Requests : Begin(h, request)
          \/ Work(h) \/ ReadUpload(h) \/ WriteUpload(h) \/ Finish(h) \/ Persist(h)
          \/ \E name \in Names, content \in Contents : UploadFile(h, name, content)
    \/ Restart

Spec == Init /\ [][Next]_vars

----------------------------------------------------------------------------
HasJob(h) == handler[h].pc \notin {"idle", "answered"}

\* An active record has exactly one handler working on it and every handler
\* that works has its record, running: no record is dropped under its handler,
\* none stays active after its handler is gone (try_start, finish,
\* from_snapshot).
ActiveIsHandled ==
    /\ \A k \in ActivePlaces : \E h \in Handlers : HasJob(h) /\ handler[h].id = jobs[k].id
    /\ \A h \in Handlers : HasJob(h) =>
          \E k \in Places : jobs[k].id = handler[h].id /\ jobs[k].state = "Running"
    /\ \A g, h \in Handlers :
          HasJob(g) /\ HasJob(h) /\ handler[g].id = handler[h].id => g = h

\* A record that says Succeeded names an output the guest has, also after a
\* restart from a snapshot whose file is gone (finish,
\* reconcile_output_paths).
SucceededHasOutput ==
    \A k \in Places :
       jobs[k].state = "Succeeded" => jobs[k].out # Absent /\ files[jobs[k].out] # Absent

\* The document and the sheet can be read, where there are any.
Usable(fs) ==
    /\ fs[DocumentText] # Absent => \E o \in ReadDocument(fs) : o.ok
    /\ fs[SheetInput] # Absent => \E o \in SummarizeExisting(fs) : o.ok

\* Whatever was appended, imported and written in part, the document is short
\* enough to be read, and the sheet one that can be summarised: no request
\* leaves files behind that make every later request fail (append_document,
\* replace_document_with_metadata, import_sheet).
FilesStayUsable == Usable(files)

=============================================================================
