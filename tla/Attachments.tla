---------------------------- MODULE Attachments ----------------------------
(***************************************************************************)
(* Message attachments: the media row and its object in the bucket, the    *)
(* message the row points to, the reports that hold it as evidence, and    *)
(* the scheduler's job that deletes media nothing holds any more.          *)
(*                                                                         *)
(* Requests read, decide, and write by id; each write is one statement or  *)
(* one transaction.  The job collects its orphans in one query and then    *)
(* deletes object and row one orphan at a time; cron starts it whether or  *)
(* not the run before has ended, and every process has a cron.             *)
(***************************************************************************)
EXTENDS FiniteSets, Naturals

CONSTANTS
  Files,
  Messages,
  Reportable, \* bound: the messages that are ever reported, once each
  Requests,   \* requests in progress at once
  Jobs,       \* runs of the job in progress at once
  NoMessage,
  NoFile

ASSUME AttachmentsAssumption ==
  /\ NoMessage \notin Messages
  /\ NoFile \notin Files
  /\ Reportable \subseteq Messages
  /\ IsFiniteSet(Files)

VARIABLES
  media,     \* the media row: none, pending, completed, deleted
  age,       \* of the row: 0, 1 past upload_expires_at, 2 past the retention
  uploading, \* files with a PUT under way
  object,    \* files whose object is in the bucket
  attached,  \* media.message_id
  message,   \* the message: none, live, deleted (deleted_at is set)
  report,    \* the message's report: none, pending, resolved, rejected, deleted
  evidence,  \* report_evidence_media: the files each report holds
  request,   \* what each request is doing
  job,       \* each run: the orphans it has still to delete, and the one
             \* whose object it has deleted and whose row comes next
  secured,   \* history: files with their object, taken up by a message or a
             \* report when no run had collected them, and held ever since
  late       \* history: files whose object comes from a PUT that ended when a
             \* run had deleted the object, and with it the row or almost

bucket == <<uploading, object, late>>
tables == <<media, age, attached, message, report, evidence>>
vars == <<tables, bucket, request, job, secured>>

Idle == [step |-> "idle", message |-> NoMessage, file |-> NoFile,
         link |-> {}, unlink |-> {}]
Resting == [orphans |-> {}, deleting |-> NoFile]

Init ==
  /\ media = [f \in Files |-> "none"]
  /\ age = [f \in Files |-> 0]
  /\ uploading = {}
  /\ object = {}
  /\ attached = [f \in Files |-> NoMessage]
  /\ message = [m \in Messages |-> "none"]
  /\ report = [m \in Messages |-> "none"]
  /\ evidence = [m \in Messages |-> {}]
  /\ request = [r \in Requests |-> Idle]
  /\ job = [j \in Jobs |-> Resting]
  /\ secured = {}
  /\ late = {}

Exists(f) == media[f] \in {"pending", "completed"}
AttachedTo(m) == {f \in Files : attached[f] = m}
Collected == UNION {job[j].orphans \union {job[j].deleting} : j \in Jobs}
Reported(f) == \E m \in Messages : f \in evidence[m]
Held(f) == attached[f] # NoMessage \/ Reported(f)

\* The files F are taken up; what is no longer held is not secured either.
TakeUp(F) ==
  secured' = {f \in secured \union ((F \intersect object) \ Collected) : Held(f)'}

At(r, step) == request[r].step = step
Start(r, work) == request' = [request EXCEPT ![r] = work]
Finish(r) == Start(r, Idle)
Work(step, m, f, link, unlink) ==
  [step |-> step, message |-> m, file |-> f, link |-> link, unlink |-> unlink]

\* A request ends early: a check of the code refuses (sender, role, time limit
\* of edits, size and type of the object), or the database fails.
Fail(r) ==
  /\ ~At(r, "idle")
  /\ Finish(r)
  /\ UNCHANGED <<tables, bucket, job, secured>>

(***************************************************************************)
(* Uploading: the row, then the client's PUT to the presigned URL, then     *)
(* CompleteUpload.                                                         *)
(***************************************************************************)
UploadMedia(f) ==
  /\ media[f] = "none"
  /\ media' = [media EXCEPT ![f] = "pending"]
  /\ UNCHANGED <<age, bucket, attached, message, report, evidence,
                 request, job, secured>>

\* S3 looks at the URL's expiry when a PUT begins.  The URL is signed after the row
\* got its upload_expires_at, and so outlives it, and S3 knows nothing of the row.
PutStart(f) ==
  /\ media[f] # "none"
  /\ age[f] <= 1
  /\ uploading' = uploading \union {f}
  /\ UNCHANGED <<tables, object, late, request, job, secured>>

\* The PUT ends whenever it does, or never.
PutEnd(f) ==
  /\ f \in uploading
  /\ uploading' = uploading \ {f}
  /\ object' = object \union {f}
  /\ late' = IF media[f] = "deleted" \/ \E j \in Jobs : job[j].deleting = f
             THEN late \union {f} ELSE late
  /\ UNCHANGED <<tables, request, job, secured>>

CompleteCheck(r, f) ==
  /\ At(r, "idle")
  /\ media[f] = "pending"
  /\ age[f] = 0
  /\ Start(r, Work("heading", NoMessage, f, {}, {}))
  /\ UNCHANGED <<tables, bucket, job, secured>>

\* HEAD finds the object, of the size and type announced.
CompleteHead(r) ==
  /\ At(r, "heading")
  /\ request[r].file \in object
  /\ Start(r, Work("completing", NoMessage, request[r].file, {}, {}))
  /\ UNCHANGED <<tables, bucket, job, secured>>

\* By id: the row may have expired since, and is not found once deleted.
CompleteWrite(r) ==
  LET f == request[r].file
  IN  /\ At(r, "completing")
      /\ Exists(f)
      /\ media' = [media EXCEPT ![f] = "completed"]
      /\ Finish(r)
      /\ UNCHANGED <<age, bucket, attached, message, report, evidence, job, secured>>

\* Time passes: the upload expires after 15 minutes, and its URL a moment later; the
\* retention, from the row's creation, after days (MEDIA_RETENTION_DAYS is not set to
\* less).
Age(f) ==
  /\ Exists(f)
  /\ age[f] < 2
  /\ age' = [age EXCEPT ![f] = @ + 1]
  /\ UNCHANGED <<media, bucket, attached, message, report, evidence,
                 request, job, secured>>

(***************************************************************************)
(* Messages.                                                               *)
(***************************************************************************)
\* Mutants: the row is not looked up again; the message_id it has is ignored.
CanLinkDeleted(F) == \A f \in F : attached[f] = NoMessage
CanLinkTwice(F) == \A f \in F : Exists(f)

\* UPDATE media SET message_id WHERE id IN (F) AND message_id IS NULL: ent rolls
\* back unless every row was updated.
CanLink(F) == \A f \in F : Exists(f) /\ attached[f] = NoMessage

SendCheck(r, m, F) ==
  /\ At(r, "idle")
  /\ message[m] = "none"
  /\ \A s \in Requests : At(s, "sending") => request[s].message # m
  /\ \A f \in F : media[f] = "completed" /\ attached[f] = NoMessage
  /\ Start(r, Work("sending", m, NoFile, F, {}))
  /\ UNCHANGED <<tables, bucket, job, secured>>

SendCommit(r) ==
  LET m == request[r].message
  IN  /\ At(r, "sending")
      /\ CanLink(request[r].link)
      /\ message' = [message EXCEPT ![m] = "live"]
      /\ attached' = [f \in Files |-> IF f \in request[r].link THEN m ELSE attached[f]]
      /\ Finish(r)
      /\ UNCHANGED <<media, age, bucket, report, evidence, job>>
      /\ TakeUp(request[r].link)

\* Mutant: a deleted message is not refused.
EditCheckAny(r, m, F) ==
  /\ At(r, "idle")
  /\ message[m] # "none"
  /\ CanLink(F \ AttachedTo(m))
  /\ Start(r, Work("editing", m, NoFile, F \ AttachedTo(m), AttachedTo(m) \ F))
  /\ UNCHANGED <<tables, bucket, job, secured>>

\* F are the attachments the message shall have.  Unlike a send, an edit does not
\* ask whether an upload was completed.
EditCheck(r, m, F) ==
  /\ At(r, "idle")
  /\ message[m] = "live"
  /\ CanLink(F \ AttachedTo(m))
  /\ Start(r, Work("editing", m, NoFile, F \ AttachedTo(m), AttachedTo(m) \ F))
  /\ UNCHANGED <<tables, bucket, job, secured>>

\* By the message's id, deleted or not.
EditCommit(r) ==
  LET m == request[r].message
      unlinked == request[r].unlink \intersect AttachedTo(m)
  IN  /\ At(r, "editing")
      /\ CanLink(request[r].link)
      /\ attached' = [f \in Files |-> CASE f \in request[r].link -> m
                                        [] f \in unlinked -> NoMessage
                                        [] OTHER -> attached[f]]
      /\ Finish(r)
      /\ UNCHANGED <<media, age, bucket, message, report, evidence, job>>
      /\ TakeUp(request[r].link)

DeleteCheck(r, m) ==
  /\ At(r, "idle")
  /\ message[m] = "live"
  /\ Start(r, Work("deleting", m, NoFile, {}, {}))
  /\ UNCHANGED <<tables, bucket, job, secured>>

\* deleted_at, ClearContent, ClearAttachments.
Erase(m) ==
  /\ message' = [message EXCEPT ![m] = "deleted"]
  /\ attached' = [f \in Files |-> IF attached[f] = m THEN NoMessage ELSE attached[f]]

DeleteWrite(r) ==
  /\ At(r, "deleting")
  /\ Erase(request[r].message)
  /\ Finish(r)
  /\ UNCHANGED <<media, age, bucket, report, evidence, job>>
  /\ TakeUp({})

(***************************************************************************)
(* Reports of a message, and what an administrator does with them.         *)
(***************************************************************************)
ReportRead(r, m) ==
  /\ At(r, "idle")
  /\ m \in Reportable
  /\ message[m] # "none"
  /\ report[m] = "none"
  /\ Start(r, Work("reporting", m, NoFile, AttachedTo(m), {}))
  /\ UNCHANGED <<tables, bucket, job, secured>>

\* The foreign key refuses evidence whose row has been deleted.
ReportWrite(r) ==
  LET m == request[r].message
      F == request[r].link
  IN  /\ At(r, "reporting")
      /\ report[m] = "none"
      /\ \A f \in F : Exists(f)
      /\ report' = [report EXCEPT ![m] = "pending"]
      /\ evidence' = [evidence EXCEPT ![m] = F]
      /\ Finish(r)
      /\ UNCHANGED <<media, age, bucket, attached, message, job>>
      /\ TakeUp(F)

\* ResolveReport sets the status, by id; when that is "resolved" it goes on to the
\* message, and ignores a failure there.
ResolveCheck(r, m, status) ==
  /\ At(r, "idle")
  /\ report[m] \in {"pending", "resolved", "rejected"} \ {status}
  /\ Start(r, Work(status, m, NoFile, {}, {}))
  /\ UNCHANGED <<tables, bucket, job, secured>>

ResolveUpdate(r) ==
  LET m == request[r].message
      status == request[r].step
  IN  /\ status \in {"resolved", "rejected"}
      /\ report[m] # "deleted"
      /\ report' = [report EXCEPT ![m] = status]
      /\ IF status = "resolved" THEN Start(r, Work("erasing", m, NoFile, {}, {}))
                               ELSE Finish(r)
      /\ UNCHANGED <<media, age, bucket, attached, message, evidence, job, secured>>

ResolveWrite(r) ==
  /\ At(r, "erasing")
  /\ Erase(request[r].message)
  /\ Finish(r)
  /\ UNCHANGED <<media, age, bucket, report, evidence, job>>
  /\ TakeUp({})

DeleteReport(m) ==
  /\ report[m] \in {"resolved", "rejected"}
  /\ report' = [report EXCEPT ![m] = "deleted"]
  /\ evidence' = [evidence EXCEPT ![m] = {}]
  /\ UNCHANGED <<media, age, bucket, attached, message, request, job>>
  /\ TakeUp({})

(***************************************************************************)
(* The scheduler's media cleanup.                                          *)
(***************************************************************************)
\* Mutants: reports are not asked; abandoned uploads are not collected.
OrphanUnlessAttached(f) ==
  /\ \/ media[f] = "pending" /\ age[f] >= 1
     \/ media[f] = "completed" /\ age[f] = 2
  /\ attached[f] = NoMessage
OrphanIfCompleted(f) ==
  /\ media[f] = "completed" /\ age[f] = 2
  /\ attached[f] = NoMessage
  /\ ~Reported(f)

Orphan(f) ==
  /\ \/ media[f] = "pending" /\ age[f] >= 1
     \/ media[f] = "completed" /\ age[f] = 2
  /\ attached[f] = NoMessage
  /\ ~Reported(f)

Collect(j) ==
  /\ job[j] = Resting
  /\ \E f \in Files : Orphan(f)
  /\ job' = [job EXCEPT ![j].orphans = {f \in Files : Orphan(f)}]
  /\ UNCHANGED <<tables, bucket, request, secured>>

\* Mutant: the row is deleted although the object could not be.
IgnoreObject(j, f) ==
  /\ job[j].deleting = NoFile
  /\ f \in job[j].orphans
  /\ job' = [job EXCEPT ![j] = [orphans |-> @.orphans \ {f}, deleting |-> f]]
  /\ UNCHANGED <<tables, bucket, request, secured>>

\* A bucket answers the DELETE of an object it does not have like any other.
DeleteObject(j, f) ==
  /\ job[j].deleting = NoFile
  /\ f \in job[j].orphans
  /\ object' = object \ {f}
  /\ late' = late \ {f}
  /\ job' = [job EXCEPT ![j] = [orphans |-> @.orphans \ {f}, deleting |-> f]]
  /\ UNCHANGED <<media, age, uploading, attached, message, report, evidence, request, secured>>

\* Neither bucket's DELETE succeeds: continue with the next.
SkipObject(j, f) ==
  /\ job[j].deleting = NoFile
  /\ f \in job[j].orphans
  /\ job' = [job EXCEPT ![j].orphans = @ \ {f}]
  /\ UNCHANGED <<tables, bucket, request, secured>>

\* By id, whatever holds the row by now; its evidence rows go with it.
DeleteRow(j, f) ==
  /\ job[j].deleting = f
  /\ Exists(f)
  /\ media' = [media EXCEPT ![f] = "deleted"]
  /\ attached' = [attached EXCEPT ![f] = NoMessage]
  /\ evidence' = [m \in Messages |-> evidence[m] \ {f}]
  /\ job' = [job EXCEPT ![j].deleting = NoFile]
  /\ UNCHANGED <<age, bucket, message, report, request, secured>>

\* The row has been deleted by another run, or the database fails.
DeleteRowFails(j) ==
  /\ job[j].deleting # NoFile
  /\ job' = [job EXCEPT ![j].deleting = NoFile]
  /\ UNCHANGED <<tables, bucket, request, secured>>

Crash(j) ==
  /\ job[j] # Resting
  /\ job' = [job EXCEPT ![j] = Resting]
  /\ UNCHANGED <<tables, bucket, request, secured>>

Job(j) ==
  \/ Collect(j) \/ DeleteRowFails(j) \/ Crash(j)
  \/ \E f \in Files : DeleteObject(j, f) \/ SkipObject(j, f) \/ DeleteRow(j, f)

Next ==
  \/ \E f \in Files : UploadMedia(f) \/ PutStart(f) \/ PutEnd(f) \/ Age(f)
  \/ \E r \in Requests, f \in Files : CompleteCheck(r, f)
  \/ \E r \in Requests, m \in Messages :
       \/ \E F \in SUBSET Files : SendCheck(r, m, F) \/ EditCheck(r, m, F)
       \/ DeleteCheck(r, m) \/ ReportRead(r, m)
       \/ \E status \in {"resolved", "rejected"} : ResolveCheck(r, m, status)
  \/ \E r \in Requests :
       \/ CompleteHead(r) \/ CompleteWrite(r) \/ SendCommit(r) \/ EditCommit(r) \/ DeleteWrite(r)
       \/ ReportWrite(r) \/ ResolveUpdate(r) \/ ResolveWrite(r) \/ Fail(r)
  \/ \E m \in Messages : DeleteReport(m)
  \/ \E j \in Jobs : Job(j)

(***************************************************************************)
(* cron starts the job again and again; an object, and a row, that runs    *)
(* come to delete again and again is deleted by one of them in the end:    *)
(* bucket and database do not fail, nor is the process killed, each time.  *)
(***************************************************************************)
Fairness ==
  /\ WF_vars(\E j \in Jobs : Collect(j))
  /\ \A f \in Files : /\ SF_vars(\E j \in Jobs : DeleteObject(j, f))
                     /\ SF_vars(\E j \in Jobs : DeleteRow(j, f))

Spec == Init /\ [][Next]_vars /\ Fairness

(***************************************************************************)
(* Properties.                                                             *)
(***************************************************************************)
RequestRecord ==
  [step : {"idle", "heading", "completing", "sending", "editing", "deleting", "reporting",
           "resolved", "rejected", "erasing"},
   message : Messages \union {NoMessage}, file : Files \union {NoFile},
   link : SUBSET Files, unlink : SUBSET Files]
JobRecord == [orphans : SUBSET Files, deleting : Files \union {NoFile}]

\* Every variable keeps to its type; what points to a row points to one that
\* exists (the foreign keys).
TypeOK ==
  /\ media \in [Files -> {"none", "pending", "completed", "deleted"}]
  /\ age \in [Files -> 0..2]
  /\ uploading \in SUBSET Files
  /\ object \in SUBSET Files
  /\ late \in SUBSET Files
  /\ attached \in [Files -> Messages \union {NoMessage}]
  /\ message \in [Messages -> {"none", "live", "deleted"}]
  /\ report \in [Messages -> {"none", "pending", "resolved", "rejected", "deleted"}]
  /\ evidence \in [Messages -> SUBSET Files]
  /\ request \in [Requests -> RequestRecord]
  /\ job \in [Jobs -> JobRecord]
  /\ secured \in SUBSET Files
  /\ \A f \in Files : Held(f) => Exists(f)

\* Two requests that attach one file: the second fails as a whole.  A file never
\* moves from a message to another without having been detached.
AttachOnce ==
  [][\A f \in Files : attached[f] # NoMessage =>
                        attached'[f] \in {attached[f], NoMessage}]_vars

\* The job finds objects by their rows, so that an object whose row is gone stays
\* for ever.  Whatever fails, wherever a run is killed and however two overlap, that
\* happens only to the object of a PUT that ended after a run had deleted the object.
NoStrayObjects ==
  \A f \in Files : media[f] = "deleted" /\ f \in object => f \in late

\* A message keeps its attachments, and a report the evidence it recorded, after
\* the message is deleted too, whatever the age of the row: the job deletes no row
\* and no object that is held, unless a run had collected it before it was taken up.
HeldSurvives ==
  \A f \in secured : Exists(f) /\ f \in object

\* A deleted message that no edit has overtaken: nothing is attached to it, and
\* no edit that found it live is still to be written.
Buried(m) ==
  /\ message[m] = "deleted"
  /\ AttachedTo(m) = {}
  /\ \A r \in Requests : At(r, "editing") => request[r].message # m

\* Such a message stays deleted and without attachments for ever, whatever sends,
\* edits and resolutions of reports come: EditMessage, which writes by id, gives a
\* deleted message attachments only if it had read it before the deletion.
BuriedForGood == [][\A m \in Messages : Buried(m) => Buried(m)']_vars

\* Under BuriedForGood: a message is sent once, and what the requests after that
\* work on has been sent.
Working(r) ==
  request[r].step \in {"editing", "deleting", "reporting", "resolved", "rejected", "erasing"}

SentOnce ==
  /\ \A r \in Requests :
       At(r, "sending") => request[r].message \in Messages /\ message[request[r].message] = "none"
  /\ \A r, s \in Requests :
       At(r, "sending") /\ At(s, "sending") /\ request[r].message = request[s].message => r = s
  /\ \A r \in Requests :
       Working(r) => request[r].message \in Messages /\ message[request[r].message] # "none"
  /\ \A m \in Messages : report[m] # "none" => message[m] # "none"

\* Nothing holds this file any more.
Abandoned(f) ==
  Exists(f) /\ age[f] = 2 /\ ~Held(f)

\* Abandoned media goes in the end, or somebody takes it up again.
OrphansGo == \A f \in Files : Abandoned(f) ~> ~Abandoned(f)
=============================================================================
