--------------------------- MODULE JobStoreProofs ---------------------------
(***************************************************************************)
(* Proofs about the jobs of a session and the files they make, for every   *)
(* limit, any number of handlers, names and requests, and any snapshots to *)
(* start from.                                                             *)
(*                                                                         *)
(* JobInv says which handler works on which record, by the record's id,    *)
(* and that ids are distinct and never above the counter; OutputInv that a *)
(* handler which says its work went well has left the output its record    *)
(* will name.  Nothing a job does takes a file away (Keeps), whether it    *)
(* ends well or half way.                                                  *)
(***************************************************************************)
EXTENDS JobStore, TLAPS

\* No id stands for two records, and the counter is behind none.
IdsInv ==
    /\ \A j, k \in Places : jobs[j].id = jobs[k].id => j = k
    /\ \A k \in Places : jobs[k].id \in 1..next
    /\ \A h \in Handlers : HasJob(h) => handler[h].id \in 1..next

\* A handler that works has a request, one that holds an upload has it.
WorkInv ==
    \A h \in Handlers :
       /\ HasJob(h) => handler[h].request \in Requests
       /\ handler[h].pc = "holding" =>
             OpensUpload(handler[h].request) /\ handler[h].upload # Absent

\* Work that went well has left its output.
OutputInv ==
    \A h \in Handlers :
       handler[h].pc = "worked" =>
          LET out == OutputOf(handler[h].request)
          IN  out \in Paths /\ files[out] # Absent

JobInv ==
    /\ TypeOK /\ IdsInv /\ WorkInv /\ ActiveIsHandled
    /\ OutputInv /\ SucceededHasOutput

(***************************************************************************)
(* What an operation does to the files                                     *)
(***************************************************************************)
\* Usable, by the tests that the two readings begin with.
Fits(fs) ==
    /\ fs[DocumentText] # Absent => ~TooLong(fs[DocumentText])
    /\ fs[SheetInput] # Absent => IsSheet(fs[SheetInput][1].rows)

\* An outcome that takes no file away, has its output where it went well, and
\* leaves files that fit.
Keeps(fs, o, out) ==
    /\ o.files \in Files /\ o.ok \in BOOLEAN
    /\ \A p \in Paths : fs[p] # Absent => o.files[p] # Absent
    /\ o.ok => out \in Paths /\ o.files[out] # Absent
    /\ Fits(fs) => Fits(o.files)

LEMMA ThePaths ==
    /\ DocumentText \in Paths /\ DocumentLabel \in Paths
    /\ SheetInput \in Paths /\ SheetSummary \in Paths
    /\ DocumentLabel # DocumentText /\ SheetInput # DocumentText
    /\ DocumentLabel # SheetInput /\ SheetSummary # DocumentText /\ SheetSummary # SheetInput
    /\ \A n \in Names :
          /\ Upload(n) \in Paths /\ Upload(n) # DocumentText /\ Upload(n) # SheetInput
          /\ TableOf(n) \in Paths /\ TableOf(n) # DocumentText /\ TableOf(n) # SheetInput
          /\ PdfOf(n) \in Paths /\ PdfOf(n) # DocumentText /\ PdfOf(n) # SheetInput
<1>1. \A n \in Names : Upload(n) \in Paths /\ TableOf(n) \in Paths /\ PdfOf(n) \in Paths
  BY DEF Paths
<1>2. /\ DocumentText \in Paths /\ DocumentLabel \in Paths
      /\ SheetInput \in Paths /\ SheetSummary \in Paths
  BY DEF Paths
<1>3. /\ DocumentLabel # DocumentText /\ SheetInput # DocumentText
      /\ DocumentLabel # SheetInput /\ SheetSummary # DocumentText /\ SheetSummary # SheetInput
  BY DEF DocumentText, DocumentLabel, SheetInput, SheetSummary
<1>4. \A n : /\ Upload(n) # DocumentText /\ Upload(n) # SheetInput
             /\ TableOf(n) # DocumentText /\ TableOf(n) # SheetInput
             /\ PdfOf(n) # DocumentText /\ PdfOf(n) # SheetInput
  BY DEF Upload, TableOf, PdfOf, DocumentText, SheetInput
<1> QED  BY <1>1, <1>2, <1>3, <1>4

LEMMA TheEnds ==
    ASSUME NEW fs
    PROVE  /\ \A o \in Fails(fs) : o.files = fs /\ o.ok = FALSE
           /\ \A o \in Succeeds(fs) : o.files = fs /\ o.ok = TRUE
           /\ \E o \in Succeeds(fs) : o.ok
<1>1. [files |-> fs, ok |-> TRUE] \in Succeeds(fs)  BY DEF Succeeds
<1>2. [files |-> fs, ok |-> TRUE].ok = TRUE  OBVIOUS
<1>3. \A o \in Fails(fs) : o.files = fs /\ o.ok = FALSE  BY DEF Fails
<1>4. \A o \in Succeeds(fs) : o.files = fs /\ o.ok = TRUE  BY DEF Succeeds
<1> QED  BY <1>1, <1>2, <1>3, <1>4

LEMMA FitsIsUsable == ASSUME NEW fs PROVE Fits(fs) <=> Usable(fs)
<1>1. (\E o \in ReadDocument(fs) : o.ok) <=>
         fs[DocumentText] # Absent /\ ~TooLong(fs[DocumentText])
  BY TheEnds DEF ReadDocument
<1>2. (\E o \in SummarizeExisting(fs) : o.ok) <=> IsSheet(fs[SheetInput][1].rows)
  <2>1. CASE IsSheet(fs[SheetInput][1].rows)
    <3>1. PICK o \in Succeeds([fs EXCEPT ![SheetSummary] = fs[SheetInput]]) : o.ok  BY TheEnds
    <3> QED  BY <2>1, <3>1 DEF SummarizeExisting, Written
  <2>2. CASE ~IsSheet(fs[SheetInput][1].rows)  BY <2>2, TheEnds DEF SummarizeExisting
  <2> QED  BY <2>1, <2>2
<1> QED  BY <1>1, <1>2 DEF Fits, Usable

\* Where nothing is written.
LEMMA NothingDone ==
    ASSUME NEW fs \in Files, NEW o, NEW out
    PROVE  /\ o \in Fails(fs) => Keeps(fs, o, out)
           /\ o \in Succeeds(fs) /\ out \in Paths /\ fs[out] # Absent => Keeps(fs, o, out)
BY TheEnds DEF Keeps

\* Where one file is written, or cannot be.
LEMMA OneWrite ==
    ASSUME NEW fs \in Files, NEW path \in Paths, NEW content \in Texts,
           path = DocumentText => ~TooLong(content),
           path = SheetInput => IsSheet(content[1].rows),
           NEW o \in Written(fs, path, content)
    PROVE  Keeps(fs, o, path)
<1>1. CASE o \in Fails(fs)  BY <1>1, NothingDone
<1>2. CASE o \in Succeeds([fs EXCEPT ![path] = content])
  <2>1. o.files = [fs EXCEPT ![path] = content] /\ o.ok = TRUE  BY <1>2, TheEnds
  <2>2. o.files \in Files  BY <2>1 DEF Files
  <2>3. /\ o.files[path] = content /\ content # Absent
        /\ \A p \in Paths : p # path => o.files[p] = fs[p]
    BY <2>1, JobsAssumption DEF Files
  <2>4. ASSUME Fits(fs) PROVE Fits(o.files)  BY <2>3, <2>4, ThePaths DEF Fits
  <2> QED  BY <2>1, <2>2, <2>3, <2>4 DEF Keeps
<1> QED  BY <1>1, <1>2 DEF Written

\* Where one part follows another.
LEMMA Onward ==
    ASSUME NEW fs, NEW q, NEW o, NEW between, NEW out,
           Keeps(fs, q, between),
           IF q.ok THEN Keeps(q.files, o, out) ELSE o = q
    PROVE  Keeps(fs, o, out)
BY DEF Keeps

LEMMA UploadKeeps ==
    ASSUME NEW fs \in Files, NEW name \in Names, NEW content \in Contents,
           NEW o \in Uploaded(fs, name, content)
    PROVE  Keeps(fs, o, Upload(name))
<1>1. <<content>> \in Texts  BY DEF Texts
<1>2. o \in Fails(fs) \/ o \in Written(fs, Upload(name), <<content>>)  BY DEF Uploaded
<1> QED  BY <1>1, <1>2, NothingDone, OneWrite, ThePaths

\* What an upload is read as.
LEMMA UploadIsText ==
    ASSUME NEW fs \in Files, NEW name, UploadAt(fs, name) # Absent
    PROVE  name \in Names /\ UploadAt(fs, name) \in Texts
BY ThePaths DEF UploadAt, Files

LEMMA TabulateKeeps ==
    ASSUME NEW fs \in Files, NEW name, NEW o \in Tabulate(fs, name)
    PROVE  Keeps(fs, o, TableOf(name))
<1> DEFINE upload == UploadAt(fs, name)
<1>1. o \in Fails(fs) \/ (upload # Absent /\ o \in Written(fs, TableOf(name), upload))
  BY DEF Tabulate
<1> QED  BY <1>1, NothingDone, OneWrite, ThePaths, UploadIsText

LEMMA PdfKeeps ==
    ASSUME NEW fs \in Files, NEW name, NEW o \in InspectPdf(fs, name)
    PROVE  Keeps(fs, o, PdfOf(name))
<1> DEFINE upload == UploadAt(fs, name)
<1>1. o \in Fails(fs) \/ (upload # Absent /\ o \in Written(fs, PdfOf(name), upload))
  BY DEF InspectPdf
<1> QED  BY <1>1, NothingDone, OneWrite, ThePaths, UploadIsText

LEMMA ReadKeeps ==
    ASSUME NEW fs \in Files, NEW o \in ReadDocument(fs)
    PROVE  Keeps(fs, o, DocumentText)
BY NothingDone, ThePaths DEF ReadDocument

LEMMA OpenKeeps ==
    ASSUME NEW fs \in Files, NEW o \in OpenDocs(fs)
    PROVE  /\ Keeps(fs, o, DocumentText)
           /\ o.ok => o.files[DocumentText] \in Texts /\ ~TooLong(o.files[DocumentText])
<1>1. PICK q \in Opened(fs) : IF q.ok THEN o \in ReadDocument(q.files) ELSE o = q
  BY DEF OpenDocs, AndThen
<1>2. Keeps(fs, q, DocumentText)
  <2>1. <<>> \in Texts /\ ~TooLong(<<>>)  BY AppsAssumption DEF Texts, TooLong
  <2>2. CASE fs[DocumentText] = Absent
    <3>1. q \in Written(fs, DocumentText, <<>>)  BY <2>2 DEF Opened
    <3> QED  BY <2>1, <3>1, OneWrite, ThePaths
  <2>3. CASE fs[DocumentText] # Absent  BY <2>3, NothingDone, ThePaths DEF Opened
  <2> QED  BY <2>2, <2>3
<1>3. q.files \in Files  BY <1>2 DEF Keeps
<1>4. IF q.ok THEN Keeps(q.files, o, DocumentText) ELSE o = q  BY <1>1, <1>3, ReadKeeps
<1>5. Keeps(fs, o, DocumentText)  BY <1>2, <1>4, Onward
<1>6. ASSUME o.ok PROVE o.files[DocumentText] \in Texts /\ ~TooLong(o.files[DocumentText])
  <2>1. q.ok /\ o \in ReadDocument(q.files)  BY <1>1, <1>6
  <2>2. o.files = q.files /\ ~TooLong(q.files[DocumentText]) /\ q.files[DocumentText] # Absent
    BY <1>6, <2>1, TheEnds DEF ReadDocument
  <2> QED  BY <1>3, <2>2, ThePaths DEF Files
<1> QED  BY <1>5, <1>6

LEMMA ReplaceKeeps ==
    ASSUME NEW fs \in Files, NEW pieces \in Texts, NEW label \in Texts,
           NEW o \in ReplaceDocument(fs, pieces, label)
    PROVE  Keeps(fs, o, DocumentText)
<1>1. CASE TooLong(pieces)  BY <1>1, NothingDone DEF ReplaceDocument
<1>2. CASE ~TooLong(pieces)
  <2> DEFINE Both == AndThen(Written(fs, DocumentText, pieces),
                             LAMBDA f : Written(f, DocumentLabel, label))
  <2>1. PICK r \in Both : IF r.ok THEN o \in ReadDocument(r.files) ELSE o = r
    BY <1>2 DEF ReplaceDocument, AndThen
  <2>2. PICK q \in Written(fs, DocumentText, pieces) :
           IF q.ok THEN r \in Written(q.files, DocumentLabel, label) ELSE r = q
    BY <2>1 DEF AndThen
  <2>3. Keeps(fs, q, DocumentText)  BY <1>2, OneWrite, ThePaths
  <2>4. q.files \in Files  BY <2>3 DEF Keeps
  <2>5. IF q.ok THEN Keeps(q.files, r, DocumentLabel) ELSE r = q
    BY <2>2, <2>4, OneWrite, ThePaths
  <2>6. Keeps(fs, r, DocumentLabel)  BY <2>3, <2>5, Onward
  <2>7. r.files \in Files  BY <2>6 DEF Keeps
  <2>8. IF r.ok THEN Keeps(r.files, o, DocumentText) ELSE o = r  BY <2>1, <2>7, ReadKeeps
  <2> QED  BY <2>6, <2>8, Onward
<1> QED  BY <1>1, <1>2

LEMMA AppendKeeps ==
    ASSUME NEW fs \in Files, NEW pieces \in Texts, NEW o \in AppendDocument(fs, pieces)
    PROVE  Keeps(fs, o, DocumentText)
<1>1. CASE TooLong(pieces)  BY <1>1, NothingDone DEF AppendDocument
<1>2. CASE ~TooLong(pieces)
  <2> DEFINE Appended(f) ==
               LET both == f[DocumentText] \o pieces
               IN  IF TooLong(both) THEN Fails(f)
                   ELSE AndThen(Written(f, DocumentText, both), ReadDocument)
  <2>1. PICK q \in OpenDocs(fs) : IF q.ok THEN o \in Appended(q.files) ELSE o = q
    BY <1>2 DEF AppendDocument, AndThen
  <2>2. Keeps(fs, q, DocumentText)  BY OpenKeeps
  <2>3. q.files \in Files  BY <2>2 DEF Keeps
  <2>4. ASSUME q.ok PROVE Keeps(q.files, o, DocumentText)
    <3> DEFINE both == q.files[DocumentText] \o pieces
    <3>1. both \in Texts  BY <2>4, OpenKeeps DEF Texts
    <3>2. o \in Appended(q.files)  BY <2>1, <2>4
    <3>3. CASE TooLong(both)  BY <2>3, <3>2, <3>3, NothingDone
    <3>4. CASE ~TooLong(both)
      <4>1. o \in AndThen(Written(q.files, DocumentText, both), ReadDocument)  BY <3>2, <3>4
      <4> HIDE DEF both
      <4>2. PICK r \in Written(q.files, DocumentText, both) :
               IF r.ok THEN o \in ReadDocument(r.files) ELSE o = r
        BY <4>1 DEF AndThen
      <4>3. Keeps(q.files, r, DocumentText)  BY <2>3, <3>1, <3>4, OneWrite, ThePaths
      <4>4. r.files \in Files  BY <4>3 DEF Keeps
      <4>5. IF r.ok THEN Keeps(r.files, o, DocumentText) ELSE o = r  BY <4>2, <4>4, ReadKeeps
      <4> QED  BY <4>3, <4>5, Onward
    <3> QED  BY <3>3, <3>4
  <2>5. IF q.ok THEN Keeps(q.files, o, DocumentText) ELSE o = q  BY <2>1, <2>4
  <2> QED  BY <2>2, <2>5, Onward
<1> QED  BY <1>1, <1>2

LEMMA ImportKeeps ==
    ASSUME NEW fs \in Files, NEW text \in Texts, NEW o \in ImportSheet(fs, text)
    PROVE  Keeps(fs, o, SheetSummary)
<1>1. CASE ~IsSheet(text[1].rows)  BY <1>1, NothingDone DEF ImportSheet
<1>2. CASE IsSheet(text[1].rows)
  <2>1. PICK q \in Written(fs, SheetInput, text) :
           IF q.ok THEN o \in Written(q.files, SheetSummary, text) ELSE o = q
    BY <1>2 DEF ImportSheet, AndThen
  <2>2. Keeps(fs, q, SheetInput)  BY <1>2, OneWrite, ThePaths
  <2>3. q.files \in Files  BY <2>2 DEF Keeps
  <2>4. IF q.ok THEN Keeps(q.files, o, SheetSummary) ELSE o = q  BY <2>1, <2>3, OneWrite, ThePaths
  <2> QED  BY <2>2, <2>4, Onward
<1> QED  BY <1>1, <1>2

LEMMA OpenSheetsKeeps ==
    ASSUME NEW fs \in Files, NEW o \in OpenSheets(fs)
    PROVE  Keeps(fs, o, SheetSummary)
<1>1. CASE fs[SheetInput] = Absent
  <2>1. <<Example>> \in Texts  BY DEF Texts
  <2>2. o \in ImportSheet(fs, <<Example>>)  BY <1>1 DEF OpenSheets
  <2> QED  BY <2>1, <2>2, ImportKeeps
<1>2. CASE fs[SheetInput] # Absent
  <2>1. fs[SheetInput] \in Texts  BY <1>2, ThePaths DEF Files
  <2>2. o \in Fails(fs) \/ o \in Written(fs, SheetSummary, fs[SheetInput])
    BY <1>2 DEF OpenSheets, SummarizeExisting
  <2> QED  BY <2>1, <2>2, NothingDone, OneWrite, ThePaths
<1> QED  BY <1>1, <1>2

\* An application operation, of whatever kind, on the files as they are.
LEMMA OutcomesKeep ==
    ASSUME files \in Files, NEW request \in Requests, NEW upload,
           OpensUpload(request) => upload \in Texts,
           NEW o \in Outcomes(request, upload)
    PROVE  Keeps(files, o, OutputOf(request))
<1>0. request.text \in Texts /\ <<>> \in Texts  BY JobsAssumption DEF Texts
<1>1. CASE request.kind = "tabulate"
  BY <1>1, TabulateKeeps DEF Outcomes, OutputOf
<1>2. CASE request.kind = "pdf"
  BY <1>2, PdfKeeps DEF Outcomes, OutputOf
<1>3. CASE request.kind = "docs open"
  BY <1>3, OpenKeeps DEF Outcomes, OutputOf
<1>4. CASE request.kind = "docs read"
  BY <1>4, ReadKeeps DEF Outcomes, OutputOf
<1>5. CASE request.kind = "docs replace"
  BY <1>0, <1>5, ReplaceKeeps DEF Outcomes, OutputOf
<1>6. CASE request.kind = "docs append"
  BY <1>0, <1>6, AppendKeeps DEF Outcomes, OutputOf
<1>7. CASE request.kind = "docs open_upload"
  <2>1. upload \in Texts  BY <1>7 DEF OpensUpload
  <2>2. o \in Fails(files) \/ o \in ReplaceDocument(files, upload, upload)
    BY <1>7 DEF Outcomes, OpenUploadedDocument
  <2> QED  BY <1>7, <2>1, <2>2, NothingDone, ReplaceKeeps DEF OutputOf
<1>8. CASE request.kind = "sheets open"
  BY <1>8, OpenSheetsKeeps DEF Outcomes, OutputOf
<1>9. CASE request.kind = "sheets import"
  BY <1>0, <1>9, ImportKeeps DEF Outcomes, OutputOf
<1>10. CASE request.kind = "sheets open_upload"
  <2>1. upload \in Texts  BY <1>10 DEF OpensUpload
  <2>2. o \in Fails(files) \/ o \in Written(files, SheetSummary, upload)
    BY <1>10 DEF Outcomes, ImportRecords
  <2> QED  BY <1>10, <2>1, <2>2, NothingDone, OneWrite, ThePaths DEF OutputOf
<1>11. CASE request.kind \notin {"tabulate", "pdf", "docs open", "docs read", "docs replace",
                                 "docs append", "docs open_upload", "sheets open",
                                 "sheets import", "sheets open_upload"}
  BY <1>11, NothingDone DEF Outcomes
<1> QED  BY <1>1, <1>2, <1>3, <1>4, <1>5, <1>6, <1>7, <1>8, <1>9, <1>10, <1>11

(***************************************************************************)
(* A host that starts                                                      *)
(***************************************************************************)
LEMMA InterruptedIs ==
    ASSUME NEW job \in Job, NEW fs \in Files
    PROVE  LET was == Reconcile(Interrupt(job), fs)
           IN  /\ was \in Job /\ was.id = job.id /\ was.state \in Terminal
               /\ was.state = "Succeeded" => was.out # Absent /\ fs[was.out] # Absent
<1> DEFINE stopped == Interrupt(job)
<1>1. stopped \in Job /\ stopped.id = job.id /\ stopped.state \in Terminal
  <2>1. CASE job.state \in Active
    <3>1. stopped = [job EXCEPT !.state = "Failed", !.out = Absent]  BY <2>1 DEF Interrupt
    <3> QED  BY <3>1 DEF Job, Terminal
  <2>2. CASE job.state \notin Active  BY <2>2 DEF Interrupt, Job, Terminal
  <2> QED  BY <2>1, <2>2
<1> HIDE DEF stopped
<1> DEFINE was == Reconcile(stopped, fs)
<1>2. CASE stopped.state = "Succeeded" /\ ~(stopped.out # Absent /\ fs[stopped.out] # Absent)
  <2>1. was = [stopped EXCEPT !.state = "Failed", !.out = Absent]  BY <1>2 DEF Reconcile
  <2>2. stopped \in Job /\ stopped.id = job.id  BY <1>1
  <2> HIDE DEF was
  <2>3. was \in Job /\ was.id = job.id /\ was.state = "Failed"  BY <2>1, <2>2 DEF Job, Terminal
  <2> QED  BY <2>3 DEF Terminal, was, stopped
<1>3. CASE stopped.state # "Succeeded" \/ (stopped.out # Absent /\ fs[stopped.out] # Absent)
  <2>1. was = stopped  BY <1>3 DEF Reconcile
  <2> QED  BY <1>1, <1>3, <2>1 DEF stopped
<1> QED  BY <1>2, <1>3

\* What a host makes of a snapshot: the records are closed, their ids are
\* distinct and counted, and outputs that are named are there.
LEMMA RestoredIs ==
    ASSUME NEW s \in Snapshot
    PROVE  LET host == Restored(s)
           IN  /\ host.next \in 0..MaxId /\ host.jobs \in Seq(Job) /\ host.files \in Files
               /\ \A j, k \in 1..Len(host.jobs) : host.jobs[j].id = host.jobs[k].id => j = k
               /\ \A k \in 1..Len(host.jobs) :
                     /\ host.jobs[k].id \in 1..host.next /\ host.jobs[k].state \in Terminal
                     /\ host.jobs[k].state = "Succeeded" =>
                           host.jobs[k].out # Absent /\ host.files[host.jobs[k].out] # Absent
               /\ host.files = s.files \/ host.files = NoFiles
<1> DEFINE host == Restored(s)
<1>0. s.next \in 0..MaxId /\ s.jobs \in Seq(Job) /\ s.files \in Files  BY DEF Snapshot
<1>1. CASE ~Restorable(s)
  <2>1. host.next = 0 /\ host.jobs = <<>> /\ host.files = NoFiles  BY <1>1 DEF Restored, Empty
  <2>2. NoFiles \in Files  BY DEF NoFiles, Files
  <2>3. 0 \in 0..MaxId  BY JobsAssumption
  <2> HIDE DEF host
  <2>4. Len(host.jobs) = 0 /\ host.jobs \in Seq(Job)  BY <2>1
  <2> QED  BY <2>1, <2>2, <2>3, <2>4 DEF host
<1>2. CASE Restorable(s)
  <2> DEFINE closed == [k \in 1..Len(s.jobs) |-> Reconcile(Interrupt(s.jobs[k]), s.files)]
  <2>1. host = [s EXCEPT !.jobs = closed]  BY <1>2 DEF Restored
  <2>2. host.next = s.next /\ host.files = s.files /\ host.jobs = closed
    BY <2>1 DEF Snapshot
  <2>3. \A k \in 1..Len(s.jobs) :
           /\ closed[k] \in Job /\ closed[k].id = s.jobs[k].id /\ closed[k].state \in Terminal
           /\ closed[k].state = "Succeeded" => closed[k].out # Absent /\ s.files[closed[k].out] # Absent
    BY <1>0, InterruptedIs
  <2>4. Len(s.jobs) \in Nat /\ DOMAIN closed = 1..Len(s.jobs)  BY <1>0
  <2> HIDE DEF closed, host
  <2>5. closed \in [1..Len(s.jobs) -> Job]
    BY <2>3, <2>4, Zenon DEF closed
  <2>6. closed \in Seq(Job) /\ Len(closed) = Len(s.jobs)  BY <2>4, <2>5
  <2>7. /\ \A j, k \in 1..Len(s.jobs) : s.jobs[j].id = s.jobs[k].id => j = k
        /\ \A k \in 1..Len(s.jobs) : s.jobs[k].id # 0 /\ s.jobs[k].id <= s.next
    BY <1>2 DEF Restorable
  <2>8. \A k \in 1..Len(s.jobs) : closed[k].id \in 1..s.next
    BY <1>0, <2>3, <2>7 DEF Job
  <2> QED  BY <1>0, <2>2, <2>3, <2>6, <2>7, <2>8 DEF host
<1> QED  BY <1>1, <1>2

\* The host has just started.
Starts ==
    /\ snapshot \in Snapshot /\ restarts \in 0..MaxRestarts
    /\ next = Restored(snapshot).next
    /\ jobs = Restored(snapshot).jobs
    /\ files = Restored(snapshot).files
    /\ handler = [h \in Handlers |-> Idle]

LEMMA StartsWell == Starts => JobInv
<1> SUFFICES ASSUME Starts PROVE JobInv  OBVIOUS
<1> DEFINE host == Restored(snapshot)
<1>1. /\ next \in 0..MaxId /\ jobs \in Seq(Job) /\ files \in Files
      /\ \A j, k \in 1..Len(jobs) : jobs[j].id = jobs[k].id => j = k
      /\ \A k \in 1..Len(jobs) :
            /\ jobs[k].id \in 1..next /\ jobs[k].state \in Terminal
            /\ jobs[k].state = "Succeeded" => jobs[k].out # Absent /\ files[jobs[k].out] # Absent
  BY RestoredIs DEF Starts
<1>2. handler \in [Handlers -> Handler]  BY JobsAssumption DEF Starts, Idle, Handler
<1>3. \A h \in Handlers : handler[h].pc = "idle"  BY DEF Starts, Idle
<1>4. TypeOK  BY <1>1, <1>2 DEF Starts, TypeOK
<1>5. IdsInv /\ WorkInv /\ OutputInv
  BY <1>1, <1>3 DEF IdsInv, WorkInv, OutputInv, Places, HasJob
<1>6. ActiveIsHandled
  BY <1>1, <1>3 DEF ActiveIsHandled, ActivePlaces, Places, HasJob, Active, Terminal
<1>7. SucceededHasOutput  BY <1>1 DEF SucceededHasOutput, Places
<1> QED  BY <1>4, <1>5, <1>6, <1>7 DEF JobInv

LEMMA EmptyIsSnapshot == Empty \in Snapshot
BY JobsAssumption DEF Empty, Snapshot, NoFiles, Files

LEMMA JobInit == Init => JobInv
<1>1. Init => Starts  BY EmptyIsSnapshot, JobsAssumption DEF Init, Starts
<1> QED  BY <1>1, StartsWell

(***************************************************************************)
(* A record that begins                                                    *)
(***************************************************************************)
\* The records a new one is put behind: each as it was, the active ones all.
Retains(kept) ==
    /\ kept \in Seq(Job)
    /\ \A j \in 1..Len(kept) : \E i \in Places : kept[j] = jobs[i]
    /\ \A j, k \in 1..Len(kept) : kept[j].id = kept[k].id => j = k
    /\ \A i \in Places : jobs[i].state \notin Terminal => \E j \in 1..Len(kept) : kept[j] = jobs[i]

LEMMA WithoutRetains ==
    ASSUME TypeOK, IdsInv, NEW k \in Places, jobs[k].state \in Terminal
    PROVE  Retains(Without(k))
<1> DEFINE w == Without(k)
<1>1. jobs \in Seq(Job) /\ k \in 1..Len(jobs) /\ Len(jobs) \in Nat  BY DEF TypeOK, Places
<1>2. /\ SubSeq(jobs, 1, k - 1) \in Seq(Job) /\ Len(SubSeq(jobs, 1, k - 1)) = k - 1
      /\ \A i \in 1..(k - 1) : SubSeq(jobs, 1, k - 1)[i] = jobs[i]
  BY <1>1
<1>3. /\ SubSeq(jobs, k + 1, Len(jobs)) \in Seq(Job)
      /\ Len(SubSeq(jobs, k + 1, Len(jobs))) = Len(jobs) - k
      /\ \A i \in 1..(Len(jobs) - k) : SubSeq(jobs, k + 1, Len(jobs))[i] = jobs[k + i]
  BY <1>1
<1>4. /\ w \in Seq(Job) /\ Len(w) = Len(jobs) - 1
      /\ \A i \in 1..Len(w) : w[i] = jobs[IF i < k THEN i ELSE i + 1]
  <2> DEFINE before == SubSeq(jobs, 1, k - 1)
             after == SubSeq(jobs, k + 1, Len(jobs))
  <2>1. w = before \o after  BY DEF Without
  <2>2. before \in Seq(Job) /\ Len(before) = k - 1 /\ \A i \in 1..(k - 1) : before[i] = jobs[i]
    BY <1>2
  <2>3. /\ after \in Seq(Job) /\ Len(after) = Len(jobs) - k
        /\ \A i \in 1..(Len(jobs) - k) : after[i] = jobs[k + i]
    BY <1>3
  <2> HIDE DEF w, before, after
  <2>4. /\ w \in Seq(Job) /\ Len(w) = (k - 1) + (Len(jobs) - k)
        /\ \A i \in 1..Len(w) : w[i] = IF i <= k - 1 THEN before[i] ELSE after[i - (k - 1)]
    BY <2>1, <2>2, <2>3
  <2>5. Len(w) = Len(jobs) - 1  BY <1>1, <2>4
  <2>6. ASSUME NEW i \in 1..Len(w), i < k PROVE w[i] = jobs[i]
    BY <1>1, <2>2, <2>4, <2>5, <2>6
  <2>7. ASSUME NEW i \in 1..Len(w), ~(i < k) PROVE w[i] = jobs[i + 1]
    <3>1. i - (k - 1) \in 1..(Len(jobs) - k) /\ k + (i - (k - 1)) = i + 1  BY <1>1, <2>5, <2>7
    <3>2. w[i] = after[i - (k - 1)]  BY <1>1, <2>4, <2>7
    <3> QED  BY <2>3, <3>1, <3>2
  <2> QED  BY <2>4, <2>5, <2>6, <2>7 DEF w
<1> HIDE DEF w
<1>5. \A i \in 1..Len(w) : (IF i < k THEN i ELSE i + 1) \in Places  BY <1>1, <1>4 DEF Places
<1>6. \A i, j \in 1..Len(w) : w[i].id = w[j].id => i = j
  <2> TAKE i, j \in 1..Len(w)
  <2> HAVE w[i].id = w[j].id
  <2>1. PICK a \in Places : w[i] = jobs[a] /\ a = IF i < k THEN i ELSE i + 1  BY <1>4, <1>5
  <2>2. PICK b \in Places : w[j] = jobs[b] /\ b = IF j < k THEN j ELSE j + 1  BY <1>4, <1>5
  <2>3. a = b  BY <2>1, <2>2 DEF IdsInv
  <2> QED  BY <1>1, <1>4, <2>1, <2>2, <2>3
<1>7. ASSUME NEW i \in Places, jobs[i].state \notin Terminal
      PROVE  \E j \in 1..Len(w) : w[j] = jobs[i]
  <2>1. i # k  BY <1>7
  <2>2. CASE i < k
    <3>1. i \in 1..Len(w) /\ w[i] = jobs[i]  BY <1>1, <1>4, <2>2 DEF Places
    <3> QED  BY <3>1
  <2>3. CASE i > k
    <3>1. (i - 1) \in 1..Len(w) /\ w[i - 1] = jobs[i]  BY <1>1, <1>4, <2>3 DEF Places
    <3> QED  BY <3>1
  <2> QED  BY <1>1, <2>1, <2>2, <2>3 DEF Places
<1> QED  BY <1>4, <1>5, <1>6, <1>7 DEF w, Retains

LEMMA BeginRetains ==
    ASSUME TypeOK, IdsInv, NEW h \in Handlers, NEW request \in Requests, Begin(h, request)
    PROVE  \E kept : Retains(kept) /\ jobs' = Started(kept)
<1>1. Retains(jobs)  BY DEF Retains, TypeOK, IdsInv, Places
<1>2. CASE jobs' = Started(jobs)  BY <1>1, <1>2
<1>3. CASE \E k \in Places : OldestTerminal(k) /\ jobs' = Started(Without(k))
  BY <1>3, WithoutRetains DEF OldestTerminal
<1> QED  BY <1>2, <1>3 DEF Begin

(***************************************************************************)
(* What each step does                                                     *)
(***************************************************************************)
\* A handler begins a job: its record is the last one, behind the retained.
Begins(h, request, kept) ==
    /\ handler[h].pc = "idle" /\ next # MaxId /\ next' = next + 1
    /\ Retains(kept) /\ jobs' = Started(kept)
    /\ handler'[h].pc = "working" /\ handler'[h].id = next + 1
    /\ handler'[h].request = request
    /\ files' = files

\* A handler works: records stay, no file goes, what went well has its output.
WorksOn(h) ==
    /\ jobs' = jobs /\ next' = next
    /\ HasJob(h) <=> HasJob(h)'
    /\ HasJob(h) => handler'[h].id = handler[h].id /\ handler'[h].request = handler[h].request
    /\ handler'[h].pc = "holding" =>
          OpensUpload(handler'[h].request) /\ handler'[h].upload # Absent
    /\ files' \in Files /\ \A p \in Paths : files[p] # Absent => files'[p] # Absent
    /\ handler'[h].pc = "worked" =>
          LET out == OutputOf(handler'[h].request)
          IN  out \in Paths /\ files'[out] # Absent
    /\ Fits(files) => Fits(files')

\* A handler is done with its record, or with its request.
Finishes(h) ==
    /\ handler[h].pc \in {"worked", "refused"} /\ handler'[h].pc = "answered"
    /\ jobs' = [k \in Places |-> Result(jobs[k], h)]
    /\ next' = next /\ files' = files

Others(h) == \A g \in Handlers : g # h => handler'[g] = handler[g]

LEMMA BeginBegins ==
    ASSUME JobInv, NEW h \in Handlers, NEW request \in Requests, Begin(h, request)
    PROVE  (\E kept : Begins(h, request, kept)) /\ Others(h) /\ handler' \in [Handlers -> Handler]
<1>1. TypeOK /\ IdsInv  BY DEF JobInv
<1>2. PICK kept : Retains(kept) /\ jobs' = Started(kept)  BY <1>1, BeginRetains
<1> DEFINE new == [pc |-> "working", id |-> next + 1, request |-> request, upload |-> Absent]
<1>3. handler' = [handler EXCEPT ![h] = new] /\ next # MaxId /\ next' = next + 1
      /\ files' = files /\ handler[h].pc = "idle"
  BY DEF Begin, MayStart
<1>4. handler \in [Handlers -> Handler] /\ next \in 0..MaxId  BY <1>1 DEF TypeOK
<1>5. new \in Handler  BY <1>3, <1>4, JobsAssumption DEF Handler
<1>6. new.pc = "working" /\ new.id = next + 1 /\ new.request = request  OBVIOUS
<1> HIDE DEF new
<1>7. handler'[h] = new /\ Others(h) /\ handler' \in [Handlers -> Handler]
  BY <1>3, <1>4, <1>5 DEF Others
<1>8. Begins(h, request, kept)  BY <1>2, <1>3, <1>6, <1>7 DEF Begins
<1> QED  BY <1>7, <1>8

LEMMA UploadWorks ==
    ASSUME JobInv, NEW h \in Handlers, NEW name \in Names, NEW content \in Contents,
           UploadFile(h, name, content)
    PROVE  WorksOn(h) /\ Others(h) /\ handler' \in [Handlers -> Handler]
<1>1. handler \in [Handlers -> Handler] /\ files \in Files  BY DEF JobInv, TypeOK
<1>2. PICK o \in Uploaded(files, name, content) : files' = o.files  BY DEF UploadFile
<1>3. Keeps(files, o, Upload(name))  BY <1>1, UploadKeeps
<1>4. handler' = [handler EXCEPT ![h].pc = "answered"] /\ handler[h].pc = "idle"
      /\ jobs' = jobs /\ next' = next
  BY DEF UploadFile
<1>5. handler'[h].pc = "answered" /\ Others(h) /\ handler' \in [Handlers -> Handler]
  BY <1>1, <1>4 DEF Others, Handler
<1> QED  BY <1>2, <1>3, <1>4, <1>5 DEF WorksOn, HasJob, Keeps

LEMMA OutcomeWorks ==
    ASSUME JobInv, NEW h \in Handlers, NEW upload, HasJob(h),
           OpensUpload(handler[h].request) => upload \in Texts,
           NEW o \in Outcomes(handler[h].request, upload), Done(h, o),
           UNCHANGED <<next, jobs>>
    PROVE  WorksOn(h) /\ Others(h) /\ handler' \in [Handlers -> Handler]
<1>1. handler \in [Handlers -> Handler] /\ files \in Files  BY DEF JobInv, TypeOK
<1>2. handler[h].request \in Requests  BY DEF JobInv, WorkInv
<1>3. Keeps(files, o, OutputOf(handler[h].request))  BY <1>1, <1>2, OutcomesKeep
<1>4. handler' = [handler EXCEPT ![h].pc = IF o.ok THEN "worked" ELSE "refused"]
      /\ files' = o.files
  BY DEF Done
<1>5. /\ handler'[h].pc = IF o.ok THEN "worked" ELSE "refused"
      /\ handler'[h].id = handler[h].id /\ handler'[h].request = handler[h].request
      /\ Others(h) /\ handler' \in [Handlers -> Handler]
  BY <1>1, <1>4 DEF Others, Handler
<1> QED  BY <1>3, <1>4, <1>5 DEF WorksOn, HasJob, Keeps

LEMMA WorkWorks ==
    ASSUME JobInv, NEW h \in Handlers, Work(h) \/ ReadUpload(h) \/ WriteUpload(h)
    PROVE  WorksOn(h) /\ Others(h) /\ handler' \in [Handlers -> Handler]
<1>1. handler \in [Handlers -> Handler] /\ files \in Files  BY DEF JobInv, TypeOK
<1>2. CASE Work(h)
  <2>1. PICK o \in Outcomes(handler[h].request, Absent) : Done(h, o)  BY <1>2 DEF Work
  <2>2. HasJob(h) /\ ~OpensUpload(handler[h].request) /\ UNCHANGED <<next, jobs>>
    BY <1>2 DEF Work, HasJob
  <2> QED  BY <2>1, <2>2, OutcomeWorks
<1>3. CASE ReadUpload(h)
  <2> DEFINE upload == UploadAt(files, handler[h].request.name)
             to == IF upload = Absent THEN "refused" ELSE "holding"
  <2>1. upload \in Texts \cup {Absent}  BY <1>1, UploadIsText
  <2>2. /\ handler' = [handler EXCEPT ![h].pc = to, ![h].upload = upload]
        /\ handler[h].pc = "working" /\ OpensUpload(handler[h].request)
        /\ jobs' = jobs /\ next' = next /\ files' = files
    BY <1>3 DEF ReadUpload
  <2>3. to \in {"refused", "holding"} /\ (to = "holding" => upload # Absent)  OBVIOUS
  <2> HIDE DEF upload, to
  <2>4. /\ handler'[h].pc = to /\ handler'[h].upload = upload
        /\ handler'[h].id = handler[h].id /\ handler'[h].request = handler[h].request
        /\ Others(h) /\ handler' \in [Handlers -> Handler]
    BY <1>1, <2>1, <2>2, <2>3 DEF Others, Handler
  <2> QED  BY <1>1, <2>2, <2>3, <2>4 DEF WorksOn, HasJob
<1>4. CASE WriteUpload(h)
  <2>1. PICK o \in Outcomes(handler[h].request, handler[h].upload) : Done(h, o)
    BY <1>4 DEF WriteUpload
  <2>2. HasJob(h) /\ handler[h].pc = "holding" /\ UNCHANGED <<next, jobs>>
    BY <1>4 DEF WriteUpload, HasJob
  <2>3. handler[h].upload \in Texts  BY <1>1, <2>2 DEF JobInv, WorkInv, Handler
  <2> QED  BY <2>1, <2>2, <2>3, OutcomeWorks
<1> QED  BY <1>2, <1>3, <1>4

LEMMA FinishFinishes ==
    ASSUME JobInv, NEW h \in Handlers, Finish(h)
    PROVE  Finishes(h) /\ Others(h) /\ handler' \in [Handlers -> Handler]
<1>1. handler \in [Handlers -> Handler]  BY DEF JobInv, TypeOK
<1> DEFINE over == [Idle EXCEPT !.pc = "answered"]
<1>2. handler' = [handler EXCEPT ![h] = over]  BY DEF Finish
<1>3. over = [pc |-> "answered", id |-> 0, request |-> Absent, upload |-> Absent]  BY DEF Idle
<1>4. over \in Handler /\ over.pc = "answered"  BY <1>3, JobsAssumption DEF Handler
<1> HIDE DEF over
<1>5. handler'[h].pc = "answered" /\ Others(h) /\ handler' \in [Handlers -> Handler]
  BY <1>1, <1>2, <1>4 DEF Others
<1> QED  BY <1>5 DEF Finish, Finishes

LEMMA PersistWorks ==
    ASSUME JobInv, NEW h \in Handlers, Persist(h)
    PROVE  WorksOn(h) /\ Others(h) /\ handler' \in [Handlers -> Handler]
<1>1. handler \in [Handlers -> Handler] /\ files \in Files  BY DEF JobInv, TypeOK
<1>2. Idle \in Handler /\ Idle.pc = "idle"  BY JobsAssumption DEF Idle, Handler
<1>3. handler' = [handler EXCEPT ![h] = Idle] /\ handler[h].pc = "answered"
      /\ jobs' = jobs /\ next' = next /\ files' = files
  BY DEF Persist
<1>4. handler'[h].pc = "idle" /\ Others(h) /\ handler' \in [Handlers -> Handler]
  BY <1>1, <1>2, <1>3 DEF Others
<1> QED  BY <1>1, <1>3, <1>4 DEF WorksOn, HasJob

\* A step of a running host is one of these, of one handler.
Moves(h) ==
    /\ \/ \E request \in Requests, kept \in Seq(Job) : Begins(h, request, kept)
       \/ WorksOn(h)
       \/ Finishes(h)
    /\ Others(h) /\ handler' \in [Handlers -> Handler]

LEMMA StepMoves ==
    ASSUME JobInv, Next
    PROVE  \/ \E h \in Handlers : /\ Moves(h)
                                  /\ snapshot' = snapshot \/ snapshot' = Captured
                                  /\ restarts' = restarts
           \/ Restart
<1>1. ASSUME NEW h \in Handlers, NEW request \in Requests, Begin(h, request)
      PROVE  Moves(h) /\ snapshot' = snapshot /\ restarts' = restarts
  <2>1. PICK kept : Begins(h, request, kept)  BY <1>1, BeginBegins
  <2>2. kept \in Seq(Job)  BY <2>1 DEF Begins, Retains
  <2>3. Others(h) /\ handler' \in [Handlers -> Handler]  BY <1>1, BeginBegins
  <2>4. snapshot' = snapshot /\ restarts' = restarts  BY <1>1 DEF Begin
  <2> QED  BY <2>1, <2>2, <2>3, <2>4 DEF Moves
<1>2. ASSUME NEW h \in Handlers, Work(h) \/ ReadUpload(h) \/ WriteUpload(h)
      PROVE  Moves(h) /\ snapshot' = snapshot /\ restarts' = restarts
  <2>1. snapshot' = snapshot /\ restarts' = restarts  BY <1>2 DEF Work, ReadUpload, WriteUpload
  <2> QED  BY <1>2, <2>1, WorkWorks DEF Moves
<1>3. ASSUME NEW h \in Handlers, Finish(h)
      PROVE  Moves(h) /\ snapshot' = snapshot /\ restarts' = restarts
  <2>1. snapshot' = snapshot /\ restarts' = restarts  BY <1>3 DEF Finish
  <2> QED  BY <1>3, <2>1, FinishFinishes DEF Moves
<1>4. ASSUME NEW h \in Handlers, Persist(h)
      PROVE  Moves(h) /\ snapshot' = Captured /\ restarts' = restarts
  <2>1. snapshot' = Captured /\ restarts' = restarts  BY <1>4 DEF Persist
  <2> QED  BY <1>4, <2>1, PersistWorks DEF Moves
<1>5. ASSUME NEW h \in Handlers, NEW name \in Names, NEW content \in Contents,
             UploadFile(h, name, content)
      PROVE  Moves(h) /\ snapshot' = snapshot /\ restarts' = restarts
  <2>1. snapshot' = snapshot /\ restarts' = restarts  BY <1>5 DEF UploadFile
  <2> QED  BY <1>5, <2>1, UploadWorks DEF Moves
<1> QED  BY <1>1, <1>2, <1>3, <1>4, <1>5 DEF Next

\* The records after a new one was put behind the retained ones.
LEMMA StartedIs ==
    ASSUME TypeOK, NEW kept, Retains(kept), next # MaxId, jobs' = Started(kept)
    PROVE  /\ jobs' \in Seq(Job) /\ Len(jobs') = Len(kept) + 1 /\ Len(kept) \in Nat
           /\ \A k \in 1..Len(kept) : jobs'[k] = kept[k]
           /\ jobs'[Len(kept) + 1].id = next + 1
           /\ jobs'[Len(kept) + 1].state = "Running"
<1> DEFINE new == [id |-> next + 1, state |-> "Running", out |-> Absent]
<1>1. new \in Job /\ new.id = next + 1 /\ new.state = "Running"
  BY JobsAssumption DEF TypeOK, Job, Active
<1>2. jobs' = Append(kept, new) /\ kept \in Seq(Job)  BY DEF Started, Retains
<1> HIDE DEF new
<1> QED  BY <1>1, <1>2

\* The records after a handler finished its own.
LEMMA FinishedIs ==
    ASSUME JobInv, NEW h \in Handlers, Finishes(h)
    PROVE  /\ jobs' \in Seq(Job) /\ Len(jobs') = Len(jobs)
           /\ \A k \in Places :
                 /\ jobs'[k].id = jobs[k].id
                 /\ jobs[k].id # handler[h].id => jobs'[k] = jobs[k]
                 /\ jobs[k].id = handler[h].id => jobs'[k].state \in Terminal \/ jobs'[k] = jobs[k]
                 /\ jobs[k].id = handler[h].id /\ jobs[k].state = "Running" =>
                       jobs'[k].state \in Terminal
                 /\ jobs'[k].state = "Succeeded" =>
                       \/ jobs'[k] = jobs[k]
                       \/ /\ handler[h].pc = "worked"
                          /\ jobs'[k].out = OutputOf(handler[h].request)
<1>0. jobs \in Seq(Job) /\ Len(jobs) \in Nat  BY DEF JobInv, TypeOK
<1>1. jobs' = [k \in Places |-> Result(jobs[k], h)]  BY DEF Finishes
<1>2. ASSUME NEW k \in Places
      PROVE  LET r == Result(jobs[k], h)
             IN  /\ r \in Job /\ r.id = jobs[k].id
                 /\ jobs[k].id # handler[h].id => r = jobs[k]
                 /\ r.state \in Terminal \/ r = jobs[k]
                 /\ jobs[k].id = handler[h].id /\ jobs[k].state = "Running" => r.state \in Terminal
                 /\ r.state = "Succeeded" =>
                       \/ r = jobs[k]
                       \/ handler[h].pc = "worked" /\ r.out = OutputOf(handler[h].request)
  <2> DEFINE r == Result(jobs[k], h)
  <2>1. jobs[k] \in Job  BY <1>0 DEF Places
  <2>2. CASE jobs[k].id # handler[h].id \/ jobs[k].state # "Running"
    <3>1. r = jobs[k]  BY <2>2 DEF Result
    <3> HIDE DEF r
    <3> QED  BY <2>1, <2>2, <3>1 DEF r
  <2>3. CASE jobs[k].id = handler[h].id /\ jobs[k].state = "Running" /\ handler[h].pc = "worked"
    <3> DEFINE out == OutputOf(handler[h].request)
    <3>1. out \in Paths  BY <2>3 DEF JobInv, OutputInv
    <3>2. r = [jobs[k] EXCEPT !.state = "Succeeded", !.out = out]  BY <2>3 DEF Result
    <3> HIDE DEF r, out
    <3>3. r \in Job /\ r.id = jobs[k].id /\ r.state = "Succeeded" /\ r.out = out
      BY <2>1, <3>1, <3>2 DEF Job, Terminal
    <3> QED  BY <2>3, <3>3 DEF r, out, Terminal
  <2>4. CASE jobs[k].id = handler[h].id /\ jobs[k].state = "Running" /\ handler[h].pc # "worked"
    <3>1. r = [jobs[k] EXCEPT !.state = "Failed", !.out = Absent]  BY <2>4 DEF Result
    <3> HIDE DEF r
    <3>2. r \in Job /\ r.id = jobs[k].id /\ r.state = "Failed"  BY <2>1, <3>1 DEF Job, Terminal
    <3> QED  BY <2>4, <3>2 DEF r, Terminal
  <2> QED  BY <2>2, <2>3, <2>4
<1>3. Places = 1..Len(jobs)  BY DEF Places
<1>4. \A k \in Places : jobs'[k] = Result(jobs[k], h)  BY <1>1
<1>5. jobs' \in [1..Len(jobs) -> Job]  BY <1>1, <1>2, <1>3
<1>6. jobs' \in Seq(Job) /\ Len(jobs') = Len(jobs)  BY <1>0, <1>5
<1> QED  BY <1>2, <1>4, <1>6

(***************************************************************************)
(* What each step keeps                                                    *)
(***************************************************************************)
LEMMA TypesStay ==
    ASSUME JobInv, NEW h \in Handlers, Moves(h),
           snapshot' = snapshot \/ snapshot' = Captured, restarts' = restarts
    PROVE  TypeOK'
<1>1. TypeOK  BY DEF JobInv
<1>2. snapshot' \in Snapshot
  <2>1. Captured \in Snapshot  BY <1>1 DEF Captured, Snapshot, TypeOK
  <2> QED  BY <1>1, <2>1 DEF TypeOK
<1>3. next' \in 0..MaxId
  BY <1>1, JobsAssumption DEF Moves, Begins, WorksOn, Finishes, TypeOK
<1>4. files' \in Files  BY <1>1 DEF Moves, Begins, WorksOn, Finishes, TypeOK
<1>5. jobs' \in Seq(Job)
  <2>1. ASSUME NEW request \in Requests, NEW kept \in Seq(Job), Begins(h, request, kept)
        PROVE  jobs' \in Seq(Job)
    BY <1>1, <2>1, StartedIs DEF Begins
  <2>2. CASE WorksOn(h)  BY <1>1, <2>2 DEF WorksOn, TypeOK
  <2>3. CASE Finishes(h)  BY <2>3, FinishedIs
  <2> QED  BY <2>1, <2>2, <2>3 DEF Moves
<1> QED  BY <1>1, <1>2, <1>3, <1>4, <1>5 DEF Moves, TypeOK

LEMMA IdsStay ==
    ASSUME JobInv, NEW h \in Handlers, Moves(h)
    PROVE  IdsInv'
<1>0. TypeOK /\ IdsInv /\ Others(h) /\ next \in Nat  BY DEF JobInv, Moves, TypeOK
<1>1. ASSUME NEW request \in Requests, NEW kept \in Seq(Job), Begins(h, request, kept)
      PROVE  IdsInv'
  <2>1. /\ Len(jobs') = Len(kept) + 1 /\ Len(kept) \in Nat
        /\ \A k \in 1..Len(kept) : jobs'[k] = kept[k]
        /\ jobs'[Len(kept) + 1].id = next + 1
    BY <1>0, <1>1, StartedIs DEF Begins
  <2>2. Retains(kept) /\ next' = next + 1 /\ handler'[h].id = next + 1  BY <1>1 DEF Begins
  <2>3. \A k \in 1..Len(kept) : jobs'[k].id \in 1..next  BY <1>0, <2>1, <2>2 DEF Retains, IdsInv
  <2>4. \A j, k \in 1..Len(kept) : jobs'[j].id = jobs'[k].id => j = k
    BY <2>1, <2>2 DEF Retains
  <2>5. \A j, k \in 1..(Len(kept) + 1) : jobs'[j].id = jobs'[k].id => j = k
    BY <1>0, <2>1, <2>3, <2>4
  <2>6. \A k \in 1..(Len(kept) + 1) : jobs'[k].id \in 1..(next + 1)  BY <1>0, <2>1, <2>3
  <2>7. \A g \in Handlers : HasJob(g)' => handler'[g].id \in 1..(next + 1)
    BY <1>0, <2>2 DEF Others, HasJob, IdsInv
  <2> QED  BY <2>1, <2>2, <2>5, <2>6, <2>7 DEF IdsInv, Places
<1>2. CASE WorksOn(h)  BY <1>0, <1>2 DEF WorksOn, Others, IdsInv, Places, HasJob
<1>3. CASE Finishes(h)
  <2>1. /\ Len(jobs') = Len(jobs) /\ next' = next
        /\ \A k \in Places : jobs'[k].id = jobs[k].id
    BY <1>3, FinishedIs DEF Finishes
  <2>2. \A g \in Handlers : HasJob(g)' => HasJob(g) /\ handler'[g].id = handler[g].id
    BY <1>0, <1>3 DEF Finishes, Others, HasJob
  <2> QED  BY <1>0, <2>1, <2>2 DEF IdsInv, Places
<1> QED  BY <1>1, <1>2, <1>3 DEF Moves

LEMMA WorkStays ==
    ASSUME JobInv, NEW h \in Handlers, Moves(h)
    PROVE  WorkInv'
<1>0. WorkInv /\ Others(h)  BY DEF JobInv, Moves
<1>1. ASSUME NEW g \in Handlers, g # h
      PROVE  handler'[g] = handler[g]
  BY <1>0, <1>1 DEF Others
<1>2. /\ HasJob(h)' => handler'[h].request \in Requests
      /\ handler'[h].pc = "holding" =>
            OpensUpload(handler'[h].request) /\ handler'[h].upload # Absent
  BY <1>0 DEF Moves, Begins, WorksOn, Finishes, HasJob, WorkInv
<1> QED  BY <1>0, <1>1, <1>2 DEF WorkInv, HasJob

LEMMA OutputsStay ==
    ASSUME JobInv, NEW h \in Handlers, Moves(h)
    PROVE  OutputInv'
<1>0. OutputInv /\ Others(h)  BY DEF JobInv, Moves
<1>1. \A p \in Paths : files[p] # Absent => files'[p] # Absent
  BY DEF Moves, Begins, WorksOn, Finishes
<1>2. ASSUME NEW g \in Handlers, g # h, handler'[g].pc = "worked"
      PROVE  LET out == OutputOf(handler'[g].request) IN out \in Paths /\ files'[out] # Absent
  BY <1>0, <1>1, <1>2 DEF Others, OutputInv
<1>3. ASSUME handler'[h].pc = "worked"
      PROVE  LET out == OutputOf(handler'[h].request) IN out \in Paths /\ files'[out] # Absent
  BY <1>3 DEF Moves, Begins, WorksOn, Finishes
<1> QED  BY <1>2, <1>3 DEF OutputInv

LEMMA SucceededStays ==
    ASSUME JobInv, NEW h \in Handlers, Moves(h)
    PROVE  SucceededHasOutput'
<1>0. TypeOK /\ SucceededHasOutput /\ OutputInv  BY DEF JobInv
<1>1. \A p \in Paths : files[p] # Absent => files'[p] # Absent
  BY DEF Moves, Begins, WorksOn, Finishes
<1>2. ASSUME NEW k \in Places PROVE jobs[k].out \in Paths \cup {Absent}
  <2>1. jobs[k] \in Job  BY <1>0 DEF TypeOK, Places
  <2> QED  BY <2>1 DEF Job
<1>3. \A k \in Places : jobs[k].state = "Succeeded" =>
         jobs[k].out # Absent /\ files'[jobs[k].out] # Absent
  BY <1>0, <1>1, <1>2 DEF SucceededHasOutput
<1>4. ASSUME NEW request \in Requests, NEW kept \in Seq(Job), Begins(h, request, kept)
      PROVE  SucceededHasOutput'
  <2>1. /\ Len(jobs') = Len(kept) + 1 /\ Len(kept) \in Nat
        /\ \A k \in 1..Len(kept) : jobs'[k] = kept[k]
        /\ jobs'[Len(kept) + 1].state = "Running"
    BY <1>0, <1>4, StartedIs DEF Begins
  <2>2. ASSUME NEW k \in 1..Len(jobs'), jobs'[k].state = "Succeeded"
        PROVE  jobs'[k].out # Absent /\ files'[jobs'[k].out] # Absent
    <3>1. k \in 1..Len(kept)  BY <2>1, <2>2
    <3>2. PICK i \in Places : jobs'[k] = jobs[i]  BY <1>4, <2>1, <3>1 DEF Begins, Retains
    <3> QED  BY <1>3, <2>2, <3>2
  <2> QED  BY <2>2 DEF SucceededHasOutput, Places
<1>5. CASE WorksOn(h)  BY <1>3, <1>5 DEF WorksOn, SucceededHasOutput, Places
<1>6. CASE Finishes(h)
  <2>1. ASSUME NEW k \in Places, jobs'[k].state = "Succeeded"
        PROVE  jobs'[k].out # Absent /\ files'[jobs'[k].out] # Absent
    <3>1. CASE jobs'[k] = jobs[k]  BY <1>3, <2>1, <3>1
    <3>2. CASE handler[h].pc = "worked" /\ jobs'[k].out = OutputOf(handler[h].request)
      BY <1>0, <1>1, <3>2, JobsAssumption DEF OutputInv
    <3> QED  BY <1>6, <2>1, <3>1, <3>2, FinishedIs
  <2>2. Len(jobs') = Len(jobs)  BY <1>6, FinishedIs
  <2> QED  BY <2>1, <2>2 DEF SucceededHasOutput, Places
<1> QED  BY <1>4, <1>5, <1>6 DEF Moves

LEMMA HandledStays ==
    ASSUME JobInv, NEW h \in Handlers, Moves(h)
    PROVE  ActiveIsHandled'
<1>0. TypeOK /\ IdsInv /\ ActiveIsHandled /\ Others(h)  BY DEF JobInv, Moves
<1>1. ActivePlaces = {k \in Places : jobs[k].state \in Active}
      /\ ActivePlaces' = {k \in Places' : jobs'[k].state \in Active}
  BY DEF ActivePlaces
<1>2. \A s : s \in Active => s \notin Terminal  BY DEF Active, Terminal
<1>3. ASSUME NEW request \in Requests, NEW kept \in Seq(Job), Begins(h, request, kept)
      PROVE  ActiveIsHandled'
  <2>1. /\ Len(jobs') = Len(kept) + 1 /\ Len(kept) \in Nat
        /\ \A k \in 1..Len(kept) : jobs'[k] = kept[k]
        /\ jobs'[Len(kept) + 1].id = next + 1 /\ jobs'[Len(kept) + 1].state = "Running"
    BY <1>0, <1>3, StartedIs DEF Begins
  <2>2. /\ Retains(kept) /\ handler[h].pc = "idle" /\ ~HasJob(h)
        /\ HasJob(h)' /\ handler'[h].id = next + 1
    BY <1>3 DEF Begins, HasJob
  <2>3. \A g \in Handlers : g # h => (HasJob(g)' <=> HasJob(g)) /\ handler'[g].id = handler[g].id
    BY <1>0 DEF Others, HasJob
  <2>4. ASSUME NEW k \in ActivePlaces'
        PROVE  \E g \in Handlers : HasJob(g)' /\ handler'[g].id = jobs'[k].id
    <3>1. CASE k = Len(kept) + 1  BY <2>1, <2>2, <3>1
    <3>2. CASE k \in 1..Len(kept)
      <4>1. PICK i \in Places : kept[k] = jobs[i]  BY <2>2, <3>2 DEF Retains
      <4>2. jobs'[k] = jobs[i] /\ i \in ActivePlaces  BY <1>1, <2>1, <2>4, <3>2, <4>1
      <4>3. PICK g \in Handlers : HasJob(g) /\ handler[g].id = jobs[i].id
        BY <1>0, <4>2 DEF ActiveIsHandled
      <4> QED  BY <2>2, <2>3, <4>2, <4>3
    <3> QED  BY <1>1, <2>1, <2>4, <3>1, <3>2 DEF Places
  <2>5. ASSUME NEW g \in Handlers, HasJob(g)'
        PROVE  \E k \in Places' : jobs'[k].id = handler'[g].id /\ jobs'[k].state = "Running"
    <3>1. CASE g = h
      <4>1. Len(kept) + 1 \in Places'  BY <2>1 DEF Places
      <4> QED  BY <2>1, <2>2, <3>1, <4>1
    <3>2. CASE g # h
      <4>1. HasJob(g) /\ handler'[g].id = handler[g].id  BY <2>3, <2>5, <3>2
      <4>2. PICK i \in Places : jobs[i].id = handler[g].id /\ jobs[i].state = "Running"
        BY <1>0, <4>1 DEF ActiveIsHandled
      <4>3. PICK j \in 1..Len(kept) : kept[j] = jobs[i]  BY <2>2, <4>2 DEF Retains, Terminal
      <4>4. j \in Places' /\ jobs'[j] = jobs[i]  BY <2>1, <4>3 DEF Places
      <4> QED  BY <4>1, <4>2, <4>4
    <3> QED  BY <3>1, <3>2
  <2>6. ASSUME NEW f \in Handlers, NEW g \in Handlers, HasJob(f)', handler'[g].id = handler'[f].id,
               HasJob(g)'
        PROVE  f = g
    <3>1. \A e \in Handlers : HasJob(e) => handler[e].id # next + 1
      BY <1>0 DEF IdsInv, TypeOK
    <3> QED  BY <1>0, <2>2, <2>3, <2>6, <3>1 DEF ActiveIsHandled
  <2> QED  BY <2>4, <2>5, <2>6 DEF ActiveIsHandled
<1>4. CASE WorksOn(h)
  <2>1. \A g \in Handlers : (HasJob(g)' <=> HasJob(g)) /\ (HasJob(g) => handler'[g].id = handler[g].id)
    BY <1>0, <1>4 DEF WorksOn, Others, HasJob
  <2>2. jobs' = jobs /\ Places' = Places /\ ActivePlaces' = ActivePlaces
    BY <1>4 DEF WorksOn, Places, ActivePlaces
  <2> QED  BY <1>0, <2>1, <2>2 DEF ActiveIsHandled
<1>5. CASE Finishes(h)
  <2>1. HasJob(h) /\ ~HasJob(h)'  BY <1>5 DEF Finishes, HasJob
  <2>2. \A g \in Handlers : g # h => (HasJob(g)' <=> HasJob(g)) /\ handler'[g].id = handler[g].id
    BY <1>0 DEF Others, HasJob
  <2>3. Places' = Places  BY <1>5, FinishedIs DEF Places
  <2>4. PICK own \in Places : jobs[own].id = handler[h].id /\ jobs[own].state = "Running"
    BY <1>0, <2>1 DEF ActiveIsHandled
  <2>5. \A k \in Places : jobs[k].id = handler[h].id => k = own  BY <1>0, <2>4 DEF IdsInv
  <2>6. jobs'[own].state \in Terminal /\ \A k \in Places : k # own => jobs'[k] = jobs[k]
    BY <1>5, <2>4, <2>5, FinishedIs
  <2>7. ASSUME NEW k \in ActivePlaces'
        PROVE  \E g \in Handlers : HasJob(g)' /\ handler'[g].id = jobs'[k].id
    <3>1. k \in Places /\ k # own /\ jobs'[k] = jobs[k] /\ k \in ActivePlaces
      BY <1>1, <1>2, <2>3, <2>6, <2>7
    <3>2. PICK g \in Handlers : HasJob(g) /\ handler[g].id = jobs[k].id
      BY <1>0, <3>1 DEF ActiveIsHandled
    <3>3. g # h  BY <2>5, <3>1, <3>2
    <3> QED  BY <2>2, <3>1, <3>2, <3>3
  <2>8. ASSUME NEW g \in Handlers, HasJob(g)'
        PROVE  \E k \in Places' : jobs'[k].id = handler'[g].id /\ jobs'[k].state = "Running"
    <3>1. g # h /\ HasJob(g) /\ handler'[g].id = handler[g].id  BY <2>1, <2>2, <2>8
    <3>2. PICK k \in Places : jobs[k].id = handler[g].id /\ jobs[k].state = "Running"
      BY <1>0, <3>1 DEF ActiveIsHandled
    <3>3. handler[g].id # handler[h].id  BY <1>0, <2>1, <3>1 DEF ActiveIsHandled
    <3>4. k # own  BY <2>4, <3>2, <3>3
    <3> QED  BY <2>3, <2>6, <3>1, <3>2, <3>4
  <2>9. ASSUME NEW f \in Handlers, NEW g \in Handlers, HasJob(f)', HasJob(g)',
               handler'[g].id = handler'[f].id
        PROVE  f = g
    BY <1>0, <2>1, <2>2, <2>9 DEF ActiveIsHandled
  <2> QED  BY <2>7, <2>8, <2>9 DEF ActiveIsHandled
<1> QED  BY <1>3, <1>4, <1>5 DEF Moves

LEMMA JobStays ==
    ASSUME JobInv, [Next]_vars
    PROVE  JobInv'
<1>1. ASSUME NEW h \in Handlers, Moves(h),
             snapshot' = snapshot \/ snapshot' = Captured, restarts' = restarts
      PROVE  JobInv'
  BY <1>1, TypesStay, IdsStay, WorkStays, HandledStays, OutputsStay, SucceededStays DEF JobInv
<1>2. CASE Restart
  <2>1. Starts'
    <3>1. snapshot' \in Snapshot /\ restarts' \in 0..MaxRestarts
      BY <1>2, JobsAssumption DEF JobInv, TypeOK, Restart
    <3>2. Restored(snapshot)' = Restored(snapshot)  BY <1>2 DEF Restart, Restored, Restorable
    <3> QED  BY <1>2, <3>1, <3>2 DEF Restart, Starts
  <2> QED  BY <2>1, StartsWell, PTL
<1>3. CASE UNCHANGED vars
  BY <1>3 DEF vars, JobInv, TypeOK, IdsInv, WorkInv, OutputInv, ActiveIsHandled, SucceededHasOutput,
              Places, ActivePlaces, HasJob
<1>4. CASE Next  BY <1>1, <1>2, <1>4, StepMoves
<1> QED  BY <1>3, <1>4

----------------------------------------------------------------------------
\* Every variable of the job store keeps its type, for every limit and any
\* snapshots to start from.
THEOREM JobTypes == Spec => []TypeOK
<1>1. JobInv => TypeOK  BY DEF JobInv
<1> QED  BY JobInit, JobStays, <1>1, PTL DEF Spec

\* A record is active exactly while one handler works on it: none is dropped
\* under its handler, by whatever number of others that begin, and none is
\* left active by a restart (try_start, finish, from_snapshot).
THEOREM ActiveHasOneHandler == Spec => []ActiveIsHandled
<1>1. JobInv => ActiveIsHandled  BY DEF JobInv
<1> QED  BY JobInit, JobStays, <1>1, PTL DEF Spec

\* A record that says Succeeded names an output that is there, for every kind
\* of request, every quota, and snapshots edited by whoever (finish,
\* reconcile_output_paths).
THEOREM OutputsAreThere == Spec => []SucceededHasOutput
<1>1. JobInv => SucceededHasOutput  BY DEF JobInv
<1> QED  BY JobInit, JobStays, <1>1, PTL DEF Spec

\* Files fit, in the guest and in the snapshot, if those did that nobody
\* captured.
FitInv == Fits(files) /\ Fits(snapshot.files)

LEMMA EmptyFits == Fits(NoFiles)
BY ThePaths DEF Fits, NoFiles

LEMMA RestoredFits ==
    ASSUME NEW s \in Snapshot, Fits(s.files)
    PROVE  Fits(Restored(s).files)
BY RestoredIs, EmptyFits

LEMMA FitStays ==
    ASSUME JobInv, FitInv, [Next]_vars
    PROVE  FitInv'
<1>1. ASSUME NEW h \in Handlers, Moves(h), snapshot' = snapshot \/ snapshot' = Captured
      PROVE  FitInv'
  <2>1. Fits(files)'  BY <1>1 DEF FitInv, Moves, Begins, WorksOn, Finishes, Fits
  <2>2. Captured.files = files  BY DEF Captured
  <2> QED  BY <1>1, <2>1, <2>2 DEF FitInv, Fits
<1>2. CASE Restart
  <2>1. Fits(Restored(snapshot).files)  BY RestoredFits DEF FitInv, JobInv, TypeOK
  <2> QED  BY <1>2, <2>1 DEF Restart, FitInv, Fits
<1>3. CASE UNCHANGED vars  BY <1>3 DEF vars, FitInv, Fits
<1>4. CASE Next  BY <1>1, <1>2, <1>4, StepMoves
<1> QED  BY <1>3, <1>4

\* No request, and no part of one that failed half way, leaves a document too
\* long to be read or a sheet that cannot be summarised, for every limit and
\* request, where the snapshots that nobody captured hold no such files
\* (append_document, replace_document_with_metadata, import_sheet).
THEOREM FilesAreUsable ==
    ASSUME \A s \in Foreign : Usable(s.files)
    PROVE  Spec => []FilesStayUsable
<1>1. Init => JobInv /\ FitInv
  <2> SUFFICES ASSUME Init PROVE FitInv  BY JobInit
  <2>1. snapshot \in Snapshot /\ Fits(snapshot.files)
    <3>1. CASE snapshot = Empty  BY <3>1, EmptyIsSnapshot, EmptyFits DEF Empty
    <3>2. CASE snapshot \in Foreign  BY <3>2, JobsAssumption, FitsIsUsable
    <3> QED  BY <3>1, <3>2 DEF Init
  <2>2. files = Restored(snapshot).files  BY DEF Init
  <2> QED  BY <2>1, <2>2, RestoredFits DEF FitInv
<1>2. JobInv /\ FitInv /\ [Next]_vars => (JobInv /\ FitInv)'  BY JobStays, FitStays
<1>3. FitInv => FilesStayUsable  BY FitsIsUsable DEF FitInv, FilesStayUsable
<1> QED  BY <1>1, <1>2, <1>3, PTL DEF Spec
=============================================================================
