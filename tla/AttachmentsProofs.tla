------------------------- MODULE AttachmentsProofs -------------------------
(***************************************************************************)
(* A file has one message, an object that outlives its row came after the  *)
(* job was through with it, and what is held survives, for any files,      *)
(* messages, requests and runs of the job.                                 *)
(***************************************************************************)
EXTENDS Attachments, TLAPS

LEMMA Records ==
  /\ Idle \in RequestRecord /\ Resting \in JobRecord
  /\ NoMessage \notin Messages /\ NoFile \notin Files
BY AttachmentsAssumption DEF Idle, Resting, RequestRecord, JobRecord

LEMMA WorkTyped ==
  ASSUME NEW step \in {"heading", "completing", "sending", "editing", "deleting", "reporting",
                       "resolved", "rejected", "erasing"},
         NEW m \in Messages \union {NoMessage}, NEW f \in Files \union {NoFile},
         NEW link \in SUBSET Files, NEW unlink \in SUBSET Files
  PROVE  Work(step, m, f, link, unlink) \in RequestRecord
BY DEF Work, RequestRecord

LEMMA TypeInit == Init => TypeOK
BY Records DEF Init, TypeOK, Held, Reported

(* A request goes on, and nothing else happens.                             *)
LEMMA Moves ==
  ASSUME TypeOK, NEW r \in Requests, NEW work \in RequestRecord, Start(r, work),
         UNCHANGED <<tables, bucket, job, secured>>
  PROVE  TypeOK'
BY DEF TypeOK, Start, tables, bucket, Held, Reported, Exists

(* The rows that point to files change.                                     *)
LEMMA Points ==
  ASSUME TypeOK, NEW F \in SUBSET Files, TakeUp(F), UNCHANGED <<media, age, bucket, job>>,
         request' \in [Requests -> RequestRecord],
         attached' \in [Files -> Messages \union {NoMessage}],
         evidence' \in [Messages -> SUBSET Files],
         message' \in [Messages -> {"none", "live", "deleted"}],
         report' \in [Messages -> {"none", "pending", "resolved", "rejected", "deleted"}],
         \A f \in Files : Held(f)' => Held(f) \/ Exists(f)
  PROVE  TypeOK'
BY DEF TypeOK, TakeUp, Exists, bucket

LEMMA TypeRequests ==
  ASSUME TypeOK, NEW r \in Requests
  PROVE  /\ \A f \in Files : CompleteCheck(r, f) => TypeOK'
         /\ \A m \in Messages, F \in SUBSET Files : SendCheck(r, m, F) \/ EditCheck(r, m, F) => TypeOK'
         /\ \A m \in Messages : DeleteCheck(r, m) \/ ReportRead(r, m) => TypeOK'
         /\ \A m \in Messages, status \in {"resolved", "rejected"} : ResolveCheck(r, m, status) => TypeOK'
         /\ CompleteHead(r) \/ Fail(r) => TypeOK'
<1>1. \A f \in Files : CompleteCheck(r, f) => TypeOK'
    BY WorkTyped, Moves DEF CompleteCheck
<1>2. \A m \in Messages, F \in SUBSET Files : SendCheck(r, m, F) => TypeOK'
    BY WorkTyped, Moves DEF SendCheck
<1>3. ASSUME NEW m \in Messages, NEW F \in SUBSET Files, EditCheck(r, m, F) PROVE TypeOK'
    <2>1. Work("editing", m, NoFile, F \ AttachedTo(m), AttachedTo(m) \ F) \in RequestRecord
        BY WorkTyped DEF AttachedTo
    <2> QED  BY <1>3, <2>1, Moves DEF EditCheck
<1>4. \A m \in Messages : DeleteCheck(r, m) => TypeOK'
    BY WorkTyped, Moves DEF DeleteCheck
<1>5. ASSUME NEW m \in Messages, ReportRead(r, m) PROVE TypeOK'
    <2>1. Work("reporting", m, NoFile, AttachedTo(m), {}) \in RequestRecord
        BY WorkTyped DEF AttachedTo
    <2> QED  BY <1>5, <2>1, Moves DEF ReportRead
<1>6. \A m \in Messages, status \in {"resolved", "rejected"} : ResolveCheck(r, m, status) => TypeOK'
    BY WorkTyped, Moves DEF ResolveCheck
<1>7. Fail(r) => TypeOK'
    BY Records, Moves DEF Fail, Finish
<1>8. CompleteHead(r) => TypeOK'
    <2>1. request[r].file \in Files \union {NoFile}
        BY DEF TypeOK, RequestRecord
    <2> QED  BY <2>1, WorkTyped, Moves DEF CompleteHead
<1> QED  BY <1>1, <1>2, <1>3, <1>4, <1>5, <1>6, <1>7, <1>8

LEMMA TypeWrites ==
  ASSUME TypeOK, NEW r \in Requests
  PROVE  /\ CompleteWrite(r) => TypeOK'
         /\ SendCommit(r) => TypeOK'
         /\ EditCommit(r) => TypeOK'
         /\ DeleteWrite(r) => TypeOK'
         /\ ReportWrite(r) => TypeOK'
         /\ ResolveUpdate(r) => TypeOK'
         /\ ResolveWrite(r) => TypeOK'
<1>1. /\ request[r].message \in Messages \union {NoMessage}
      /\ request[r].file \in Files \union {NoFile}
      /\ request[r].link \in SUBSET Files
    BY DEF TypeOK, RequestRecord
<1>2. Finish(r) => request' \in [Requests -> RequestRecord]
    BY Records DEF Finish, Start, TypeOK
<1>3. ASSUME CompleteWrite(r) PROVE TypeOK'
    <2>1. /\ UNCHANGED <<age, bucket, attached, message, report, evidence, job, secured>>
          /\ media' = [media EXCEPT ![request[r].file] = "completed"]
          /\ request' \in [Requests -> RequestRecord]
        BY <1>2, <1>3 DEF CompleteWrite
    <2>2. \A g \in Files : (Held(g)' => Held(g)) /\ (Exists(g) => Exists(g)')
        BY <2>1 DEF TypeOK, Held, Reported, Exists
    <2> QED  BY <2>1, <2>2 DEF TypeOK, bucket
<1>4. ASSUME SendCommit(r) PROVE TypeOK'
    <2>1. \A f \in Files : Held(f)' => Held(f) \/ Exists(f)
        BY <1>1, <1>4 DEF SendCommit, CanLink, Held, Reported
    <2> QED  BY <1>1, <1>2, <1>4, <2>1, Points DEF SendCommit, TypeOK
<1>5. ASSUME EditCommit(r) PROVE TypeOK'
    <2> DEFINE unlinked == request[r].unlink \intersect AttachedTo(request[r].message)
    <2>1. attached' = [f \in Files |-> CASE f \in request[r].link -> request[r].message
                                        [] f \in unlinked -> NoMessage
                                        [] OTHER -> attached[f]]
        BY <1>5 DEF EditCommit
    <2> HIDE DEF unlinked
    <2>2. \A f \in Files : attached'[f] \in {attached[f], NoMessage} \/ f \in request[r].link
        BY <2>1
    <2>3. \A f \in Files : Held(f)' => Held(f) \/ Exists(f)
        BY <1>5, <2>2 DEF EditCommit, CanLink, Held, Reported
    <2>4. attached' \in [Files -> Messages \union {NoMessage}]
        BY <1>1, <2>1 DEF TypeOK
    <2> QED  BY <1>1, <1>2, <1>5, <2>3, <2>4, Points DEF EditCommit, TypeOK
<1>6. ASSUME NEW m, Erase(m), Finish(r), TakeUp({}),
             UNCHANGED <<media, age, bucket, report, evidence, job>>
      PROVE  TypeOK'
    <2>1. \A f \in Files : Held(f)' => Held(f) \/ Exists(f)
        BY <1>6 DEF Erase, Held, Reported
    <2>2. {} \in SUBSET Files
        OBVIOUS
    <2> QED  BY <1>2, <1>6, <2>1, <2>2, Points DEF Erase, TypeOK
<1>7. DeleteWrite(r) \/ ResolveWrite(r) => TypeOK'
    BY <1>6 DEF DeleteWrite, ResolveWrite
<1>8. ASSUME ReportWrite(r) PROVE TypeOK'
    <2>1. \A f \in Files : Held(f)' => Held(f) \/ Exists(f)
        BY <1>8 DEF ReportWrite, Held, Reported, TypeOK
    <2> QED  BY <1>1, <1>2, <1>8, <2>1, Points DEF ReportWrite, TypeOK
<1>9. ASSUME ResolveUpdate(r) PROVE TypeOK'
    <2>1. request' \in [Requests -> RequestRecord]
        <3>1. CASE Finish(r)
            BY <3>1, <1>2
        <3>2. CASE Start(r, Work("erasing", request[r].message, NoFile, {}, {}))
            <4>1. Work("erasing", request[r].message, NoFile, {}, {}) \in RequestRecord
                BY <1>1, WorkTyped
            <4> QED  BY <3>2, <4>1 DEF Start, TypeOK
        <3> QED  BY <1>9, <3>1, <3>2 DEF ResolveUpdate
    <2> QED  BY <1>9, <2>1 DEF ResolveUpdate, TypeOK, bucket, Held, Reported, Exists
<1> QED  BY <1>3, <1>4, <1>5, <1>7, <1>8, <1>9

LEMMA TypeJob ==
  ASSUME TypeOK, NEW j \in Jobs, Job(j)
  PROVE  TypeOK'
<1>1. ASSUME UNCHANGED <<tables, bucket, request, secured>>, job' \in [Jobs -> JobRecord]
      PROVE  TypeOK'
    BY <1>1 DEF TypeOK, tables, bucket, Held, Reported, Exists
<1>2. job[j] \in JobRecord
    BY DEF TypeOK
<1>3. Collect(j) => TypeOK'
    BY <1>1, <1>2 DEF Collect, TypeOK, JobRecord
<1>4. DeleteRowFails(j) => TypeOK'
    BY <1>1, <1>2 DEF DeleteRowFails, TypeOK, JobRecord
<1>5. Crash(j) => TypeOK'
    BY <1>1, Records DEF Crash, TypeOK
<1>6. ASSUME NEW f \in Files, SkipObject(j, f) PROVE TypeOK'
    BY <1>1, <1>2, <1>6 DEF SkipObject, TypeOK, JobRecord
<1>7. ASSUME NEW f \in Files, DeleteObject(j, f) PROVE TypeOK'
    <2>1. job' \in [Jobs -> JobRecord]
        BY <1>2, <1>7 DEF DeleteObject, TypeOK, JobRecord
    <2> QED  BY <1>7, <2>1 DEF DeleteObject, TypeOK, Held, Reported, Exists
<1>8. ASSUME NEW f \in Files, DeleteRow(j, f) PROVE TypeOK'
    <2>1. job' \in [Jobs -> JobRecord]
        BY <1>2, <1>8 DEF DeleteRow, TypeOK, JobRecord
    <2>2. \A g \in Files : Held(g)' => g # f /\ Held(g)
        BY <1>8 DEF DeleteRow, TypeOK, Held, Reported
    <2>3. \A g \in Files : Held(g)' => Exists(g)'
        BY <1>8, <2>2 DEF DeleteRow, TypeOK, Exists
    <2> QED  BY <1>8, <2>1, <2>3 DEF DeleteRow, TypeOK, bucket
<1> QED  BY <1>3, <1>4, <1>5, <1>6, <1>7, <1>8 DEF Job

LEMMA TypeReport == ASSUME TypeOK, NEW m \in Messages, DeleteReport(m) PROVE TypeOK'
<1>1. \A f \in Files : Held(f)' => Held(f) \/ Exists(f)
    BY DEF DeleteReport, TypeOK, Held, Reported
<1>2. {} \in SUBSET Files
    OBVIOUS
<1> QED  BY <1>1, <1>2, Points DEF DeleteReport, TypeOK

LEMMA TypeFiles ==
  ASSUME TypeOK, NEW f \in Files
  PROVE  UploadMedia(f) \/ PutStart(f) \/ PutEnd(f) \/ Age(f) => TypeOK'
<1>1. UploadMedia(f) => TypeOK'
    BY DEF UploadMedia, TypeOK, bucket, Held, Reported, Exists
<1>2. PutStart(f) \/ PutEnd(f) => TypeOK'
    BY DEF PutStart, PutEnd, TypeOK, tables, Held, Reported, Exists
<1>3. Age(f) => TypeOK'
    BY DEF Age, TypeOK, bucket, Held, Reported, Exists
<1> QED  BY <1>1, <1>2, <1>3

LEMMA TypeStep == TypeOK /\ [Next]_vars => TypeOK'
<1> SUFFICES ASSUME TypeOK, [Next]_vars PROVE TypeOK'
    OBVIOUS
<1>1. CASE UNCHANGED vars
    BY <1>1 DEF TypeOK, vars, tables, bucket, Held, Reported, Exists
<1> QED  BY <1>1, TypeFiles, TypeRequests, TypeWrites, TypeReport, TypeJob DEF Next

(* The type invariant, which includes that no message or report points to a *)
(* row that is gone, for any files, messages, requests and runs of the job. *)
THEOREM TypeCorrect == Spec => []TypeOK
BY TypeInit, TypeStep, PTL DEF Spec

-----------------------------------------------------------------------------
LEMMA AttachStep ==
  TypeOK /\ [Next]_vars =>
    [\A f \in Files : attached[f] # NoMessage => attached'[f] \in {attached[f], NoMessage}]_vars
<1> SUFFICES ASSUME TypeOK, Next, NEW f \in Files, attached[f] # NoMessage
             PROVE  attached'[f] \in {attached[f], NoMessage}
    OBVIOUS
<1>1. UNCHANGED attached => attached'[f] \in {attached[f], NoMessage}
    OBVIOUS
<1>2. ASSUME NEW r \in Requests, SendCommit(r) PROVE attached'[f] \in {attached[f], NoMessage}
    BY <1>2 DEF SendCommit, CanLink
<1>3. ASSUME NEW r \in Requests, EditCommit(r) PROVE attached'[f] \in {attached[f], NoMessage}
    <2>1. f \notin request[r].link
        BY <1>3 DEF EditCommit, CanLink
    <2> QED  BY <1>3, <2>1 DEF EditCommit
<1>4. ASSUME NEW r \in Requests, DeleteWrite(r) \/ ResolveWrite(r)
      PROVE  attached'[f] \in {attached[f], NoMessage}
    BY <1>4 DEF DeleteWrite, ResolveWrite, Erase
<1>5. ASSUME NEW j \in Jobs, NEW g \in Files, DeleteRow(j, g)
      PROVE  attached'[f] \in {attached[f], NoMessage}
    BY <1>5 DEF DeleteRow, TypeOK
<1>6. \/ UNCHANGED attached
      \/ \E r \in Requests : SendCommit(r) \/ EditCommit(r) \/ DeleteWrite(r) \/ ResolveWrite(r)
      \/ \E j \in Jobs, g \in Files : DeleteRow(j, g)
    BY DEF Next, Job, UploadMedia, PutStart, PutEnd, Age, CompleteCheck, CompleteHead, SendCheck, EditCheck, DeleteCheck, ReportRead,
       ResolveCheck, CompleteWrite, ReportWrite, ResolveUpdate, Fail, DeleteReport, Collect,
       DeleteRowFails, Crash, DeleteObject, SkipObject, tables
<1> QED  BY <1>1, <1>2, <1>3, <1>4, <1>5, <1>6

(* A file never moves from one message to another in one step, however many *)
(* requests attach it at once.                                              *)
THEOREM AttachedOnce == Spec => AttachOnce
BY TypeCorrect, AttachStep, PTL DEF Spec, AttachOnce

-----------------------------------------------------------------------------
(* The object of a file whose row is gone, or is next to go in some run,    *)
(* came with a PUT that ended after a run had deleted the one before.       *)
Gone(f) == media[f] = "deleted" \/ \E j \in Jobs : job[j].deleting = f
Strays == \A f \in Files : Gone(f) /\ f \in object => f \in late

(* What is secured is held, has its object, and no run has collected it.    *)
SecuredInv ==
  \A f \in secured : Held(f) /\ f \in object /\ f \notin Collected

IInv == TypeOK /\ Strays /\ SecuredInv

LEMMA InitIInv == Init => IInv
<1> SUFFICES ASSUME Init PROVE IInv
    OBVIOUS
<1>1. /\ \A j \in Jobs : job[j].orphans = {} /\ job[j].deleting = NoFile
      /\ object = {} /\ secured = {} /\ \A f \in Files : media[f] = "none"
    BY DEF Init, Resting
<1>2. \A f \in Files : ~Gone(f) /\ f \notin Collected
    BY <1>1, Records DEF Gone, Collected
<1> QED  BY <1>1, <1>2, TypeInit DEF IInv, Strays, SecuredInv

(* A step of a request: the runs and the objects stay, and what is newly    *)
(* secured was there.                                                       *)
LEMMA RequestsKeep ==
  ASSUME IInv, UNCHANGED <<object, late, job>>,
         \A f \in Files : media'[f] = "deleted" => media[f] = "deleted",
         \/ \E F \in SUBSET Files : TakeUp(F)
         \/ UNCHANGED <<secured, attached, evidence>>
  PROVE  Strays' /\ SecuredInv'
<1>1. Collected' = Collected
    BY DEF Collected
<1>2. Strays'
    BY <1>1 DEF IInv, Strays, Gone
<1>3. ASSUME NEW F \in SUBSET Files, TakeUp(F) PROVE SecuredInv'
    BY <1>1, <1>3 DEF TakeUp, IInv, SecuredInv
<1>4. ASSUME UNCHANGED <<secured, attached, evidence>> PROVE SecuredInv'
    BY <1>1, <1>4 DEF IInv, SecuredInv, Held, Reported
<1> QED  BY <1>2, <1>3, <1>4

(* A step of a run that collects orphans, or is done with one.              *)
LEMMA JobsKeep ==
  ASSUME IInv, NEW j \in Jobs, NEW task \in JobRecord, job' = [job EXCEPT ![j] = task],
         UNCHANGED <<age, media, attached, evidence, secured>>, object' \subseteq object,
         \A f \in late \ late' : f \notin object',
         task.orphans \subseteq job[j].orphans \/ \A f \in task.orphans : Orphan(f),
         task.deleting \in {NoFile, job[j].deleting} \/ task.deleting \in job[j].orphans \ object',
         \A f \in object \ object' : f \in Collected
  PROVE  Strays' /\ SecuredInv'
<1>1. /\ job'[j] = task /\ \A i \in Jobs \ {j} : job'[i] = job[i]
    BY DEF IInv, TypeOK
<1>2. \A f \in Files : f \in Collected' => f \in Collected \/ Orphan(f)
    BY <1>1, Records DEF Collected
<1>3. \A f \in Files : Orphan(f) => ~Held(f)
    BY DEF Orphan, Held
<1>4. \A f \in Files : Gone(f)' => Gone(f) \/ f \notin object'
    BY <1>1, Records DEF Gone
<1>5. Strays'
    BY <1>4 DEF IInv, Strays
<1>6. SecuredInv'
    BY <1>2, <1>3 DEF IInv, SecuredInv, TypeOK, Held, Reported
<1> QED  BY <1>5, <1>6

LEMMA JobStep ==
  ASSUME IInv, NEW j \in Jobs, Job(j)
  PROVE  Strays' /\ SecuredInv'
<1>1. job[j] \in JobRecord /\ TypeOK
    BY DEF IInv, TypeOK
<1>2. CASE Collect(j)
    <2> DEFINE task == [job[j] EXCEPT !.orphans = {f \in Files : Orphan(f)}]
    <2>1. /\ task \in JobRecord /\ task.deleting = job[j].deleting
          /\ \A f \in task.orphans : Orphan(f)
        BY <1>1 DEF JobRecord
    <2>2. job' = [job EXCEPT ![j] = task]
        BY <1>1, <1>2 DEF Collect, TypeOK
    <2> HIDE DEF task
    <2> QED  BY <1>2, <2>1, <2>2, JobsKeep DEF Collect, tables, bucket
<1>3. CASE DeleteRowFails(j)
    <2> DEFINE task == [job[j] EXCEPT !.deleting = NoFile]
    <2>1. task \in JobRecord /\ task.deleting = NoFile /\ task.orphans = job[j].orphans
        BY <1>1 DEF JobRecord
    <2>2. job' = [job EXCEPT ![j] = task]
        BY <1>1, <1>3 DEF DeleteRowFails, TypeOK
    <2> HIDE DEF task
    <2> QED  BY <1>3, <2>1, <2>2, JobsKeep DEF DeleteRowFails, tables, bucket
<1>4. CASE Crash(j)
    <2>1. Resting.orphans = {} /\ Resting.deleting = NoFile
        BY DEF Resting
    <2> QED  BY <1>4, <2>1, Records, JobsKeep DEF Crash, tables, bucket
<1>5. ASSUME NEW f \in Files, SkipObject(j, f) PROVE Strays' /\ SecuredInv'
    <2> DEFINE task == [job[j] EXCEPT !.orphans = @ \ {f}]
    <2>1. task \in JobRecord /\ task.deleting = job[j].deleting /\ task.orphans \subseteq job[j].orphans
        BY <1>1 DEF JobRecord
    <2>2. job' = [job EXCEPT ![j] = task]
        BY <1>1, <1>5 DEF SkipObject, TypeOK
    <2> HIDE DEF task
    <2> QED  BY <1>5, <2>1, <2>2, JobsKeep DEF SkipObject, tables, bucket
<1>6. ASSUME NEW f \in Files, DeleteObject(j, f) PROVE Strays' /\ SecuredInv'
    <2> DEFINE task == [orphans |-> job[j].orphans \ {f}, deleting |-> f]
    <2>1. task \in JobRecord /\ task.deleting = f /\ task.orphans \subseteq job[j].orphans
        BY <1>1 DEF JobRecord
    <2>2. job' = [job EXCEPT ![j] = task] /\ object' = object \ {f} /\ late' = late \ {f}
        BY <1>1, <1>6 DEF DeleteObject, TypeOK
    <2>3. f \in job[j].orphans /\ f \in Collected
        BY <1>6 DEF DeleteObject, Collected
    <2> HIDE DEF task
    <2> QED  BY <1>6, <2>1, <2>2, <2>3, JobsKeep DEF DeleteObject
<1>7. ASSUME NEW f \in Files, DeleteRow(j, f) PROVE Strays' /\ SecuredInv'
    <2>1. /\ job'[j].deleting = NoFile /\ job'[j].orphans = job[j].orphans
          /\ \A i \in Jobs \ {j} : job'[i] = job[i]
        BY <1>1, <1>7 DEF DeleteRow, TypeOK, JobRecord
    <2>2. /\ UNCHANGED <<object, late, secured>> /\ f \in Collected /\ Gone(f)
          /\ \A g \in Files \ {f} : media'[g] = media[g] /\ attached'[g] = attached[g]
          /\ \A m \in Messages : evidence'[m] = evidence[m] \ {f}
        BY <1>1, <1>7 DEF DeleteRow, TypeOK, Collected, Gone, bucket
    <2>3. \A g \in Files : g \in Collected' => g \in Collected
        BY <2>1, Records DEF Collected
    <2>4. \A g \in Files : Gone(g)' => Gone(g)
        BY <2>1, <2>2, Records DEF Gone
    <2>5. \A g \in Files \ {f} : Held(g) => Held(g)'
        BY <2>2 DEF Held, Reported
    <2>6. Strays'
        BY <2>2, <2>3, <2>4 DEF IInv, Strays
    <2>7. SecuredInv'
        BY <1>1, <2>2, <2>3, <2>5 DEF IInv, SecuredInv, TypeOK
    <2> QED  BY <2>6, <2>7
<1> QED  BY <1>2, <1>3, <1>4, <1>5, <1>6, <1>7 DEF Job

LEMMA FileStep ==
  ASSUME IInv, NEW f \in Files, UploadMedia(f) \/ PutStart(f) \/ PutEnd(f) \/ Age(f)
  PROVE  Strays' /\ SecuredInv'
<1>1. /\ UNCHANGED <<job, secured, attached, evidence>>
      /\ \A g \in Files : media'[g] = "deleted" => media[g] = "deleted"
      /\ object \subseteq object' /\ late \subseteq late'
    BY DEF UploadMedia, PutStart, PutEnd, Age, IInv, TypeOK, tables, bucket
<1>2. Collected' = Collected
    BY <1>1 DEF Collected
<1>3. \A g \in Files : Gone(g)' => Gone(g)
    BY <1>1 DEF Gone
<1>4. \A g \in object' \ object : Gone(g) => g \in late'
    BY DEF UploadMedia, PutStart, PutEnd, Age, Gone, bucket
<1>5. Strays'
    BY <1>1, <1>3, <1>4 DEF IInv, Strays
<1>6. SecuredInv'
    BY <1>1, <1>2 DEF IInv, SecuredInv, Held, Reported
<1> QED  BY <1>5, <1>6

LEMMA IInvStep == IInv /\ [Next]_vars => IInv'
<1> SUFFICES ASSUME IInv, [Next]_vars PROVE Strays' /\ SecuredInv'
    BY TypeStep DEF IInv
<1> DEFINE Quiet ==
      /\ UNCHANGED <<object, late, job>>
      /\ \A f \in Files : media'[f] = "deleted" => media[f] = "deleted"
      /\ \/ \E F \in SUBSET Files : TakeUp(F)
         \/ UNCHANGED <<secured, attached, evidence>>
<1>1. Quiet => Strays' /\ SecuredInv'
    BY RequestsKeep
<1>2. UNCHANGED <<tables, bucket, job, secured>> => Quiet
    BY DEF tables, bucket
<1>3. ASSUME NEW r \in Requests,
             \/ CompleteHead(r) \/ Fail(r)
             \/ \E f \in Files : CompleteCheck(r, f)
             \/ \E m \in Messages :
                  \/ \E F \in SUBSET Files : SendCheck(r, m, F) \/ EditCheck(r, m, F)
                  \/ DeleteCheck(r, m) \/ ReportRead(r, m)
                  \/ \E status \in {"resolved", "rejected"} : ResolveCheck(r, m, status)
      PROVE  Quiet
    BY <1>2, <1>3 DEF Fail, CompleteCheck, CompleteHead, SendCheck, EditCheck, DeleteCheck, ReportRead, ResolveCheck
<1>4. ASSUME NEW r \in Requests, CompleteWrite(r) PROVE Quiet
    BY <1>4 DEF CompleteWrite, IInv, TypeOK, bucket
<1>5. ASSUME NEW r \in Requests, ResolveUpdate(r) PROVE Quiet
    BY <1>5 DEF ResolveUpdate, bucket
<1>6. {} \in SUBSET Files
    OBVIOUS
<1>7. \A r \in Requests : request[r].link \in SUBSET Files
    BY DEF IInv, TypeOK, RequestRecord
<1>8. ASSUME NEW r \in Requests,
             SendCommit(r) \/ EditCommit(r) \/ DeleteWrite(r) \/ ReportWrite(r) \/ ResolveWrite(r)
      PROVE  Quiet
    <2>1. TakeUp(request[r].link) \/ TakeUp({})
        BY <1>8 DEF SendCommit, EditCommit, DeleteWrite, ReportWrite, ResolveWrite
    <2>2. UNCHANGED <<media, object, late, job>>
        BY <1>8 DEF SendCommit, EditCommit, DeleteWrite, ReportWrite, ResolveWrite, bucket
    <2> QED  BY <1>6, <1>7, <2>1, <2>2
<1>9. ASSUME NEW m \in Messages, DeleteReport(m) PROVE Quiet
    BY <1>6, <1>9 DEF DeleteReport, bucket
<1>10. UNCHANGED vars => Quiet
    BY <1>2 DEF vars
<1> HIDE DEF Quiet
<1> QED  BY <1>1, <1>3, <1>4, <1>5, <1>8, <1>9, <1>10, FileStep, JobStep DEF Next

LEMMA IInvHolds == Spec => []IInv
BY InitIInv, IInvStep, PTL DEF Spec

(* An object outlives its row only if its PUT ended after a run had deleted *)
(* the object: for any files, uploads, requests and runs of the job.        *)
THEOREM NoStrayObjectsEver == Spec => []NoStrayObjects
<1>1. IInv => NoStrayObjects
    BY DEF IInv, Strays, Gone, NoStrayObjects
<1> QED  BY <1>1, IInvHolds, PTL

(* What was taken up before a run collected it keeps its row and its object *)
(* for as long as it is held, whatever the job and the requests do.         *)
THEOREM HeldAlwaysSurvives == Spec => []HeldSurvives
<1>1. IInv => HeldSurvives
    BY DEF IInv, SecuredInv, TypeOK, HeldSurvives
<1> QED  BY <1>1, IInvHolds, PTL
-----------------------------------------------------------------------------
LEMMA InitSentOnce == Init => SentOnce
BY DEF Init, SentOnce, Working, At, Idle

(* Requests that go on: the messages and the reports stay.                  *)
LEMMA WorkKeeps ==
  ASSUME TypeOK, SentOnce, NEW r \in Requests, NEW work \in RequestRecord, Start(r, work),
         UNCHANGED message, \A m \in Messages : report'[m] # "none" => message[m] # "none",
         work.step = "sending" =>
           /\ work.message \in Messages /\ message[work.message] = "none"
           /\ \A s \in Requests : At(s, "sending") => request[s].message # work.message,
         work.step \in {"editing", "deleting", "reporting", "resolved", "rejected", "erasing"} =>
           work.message \in Messages /\ message[work.message] # "none"
  PROVE  SentOnce'
<1>1. request'[r] = work /\ \A s \in Requests \ {r} : request'[s] = request[s]
    BY DEF Start, TypeOK
<1>2. /\ \A s \in Requests :
           At(s, "sending")' => request'[s].message \in Messages /\ message[request'[s].message] = "none"
      /\ \A s \in Requests :
           Working(s)' => request'[s].message \in Messages /\ message[request'[s].message] # "none"
    BY <1>1 DEF SentOnce, At, Working
<1>3. ASSUME NEW s \in Requests, NEW t \in Requests, At(s, "sending")', At(t, "sending")',
             request'[s].message = request'[t].message
      PROVE  s = t
    BY <1>1, <1>3 DEF SentOnce, At
<1> QED  BY <1>2, <1>3 DEF SentOnce

(* A request that has sent or erased its message m is done.                 *)
LEMMA DoneKeeps ==
  ASSUME TypeOK, SentOnce, NEW r \in Requests, NEW m \in Messages, Finish(r), UNCHANGED report,
         message' \in [Messages -> {"none", "live", "deleted"}], message'[m] # "none",
         \A n \in Messages \ {m} : message'[n] = message[n],
         message[m] = "none" => At(r, "sending") /\ request[r].message = m
  PROVE  SentOnce'
<1>1. request'[r] = Idle /\ \A s \in Requests \ {r} : request'[s] = request[s]
    BY DEF Finish, Start, TypeOK
<1>2. ~At(r, "sending")' /\ ~Working(r)'
    BY <1>1 DEF At, Working, Idle
<1>3. ASSUME NEW s \in Requests, At(s, "sending")'
      PROVE  request'[s].message \in Messages /\ message'[request'[s].message] = "none"
    <2>1. s # r /\ At(s, "sending") /\ request'[s] = request[s]
        BY <1>1, <1>2, <1>3 DEF At
    <2>2. request[s].message \in Messages /\ message[request[s].message] = "none"
        BY <2>1 DEF SentOnce
    <2>3. request[s].message # m
        BY <2>1, <2>2 DEF SentOnce
    <2> QED  BY <2>1, <2>2, <2>3
<1>4. \A s, t \in Requests :
        At(s, "sending")' /\ At(t, "sending")' /\ request'[s].message = request'[t].message => s = t
    BY <1>1, <1>2 DEF SentOnce, At
<1>5. \A s \in Requests :
        Working(s)' => request'[s].message \in Messages /\ message'[request'[s].message] # "none"
    BY <1>1, <1>2 DEF SentOnce, Working
<1>6. \A n \in Messages : report'[n] # "none" => message'[n] # "none"
    BY DEF SentOnce
<1> QED  BY <1>3, <1>4, <1>5, <1>6 DEF SentOnce

LEMMA SentOnceStep == TypeOK /\ SentOnce /\ [Next]_vars => SentOnce'
<1> SUFFICES ASSUME TypeOK, SentOnce, [Next]_vars PROVE SentOnce'
    OBVIOUS
<1>1. ASSUME UNCHANGED <<message, request>>, \A m \in Messages : report'[m] # "none" => report[m] # "none"
      PROVE  SentOnce'
    BY <1>1 DEF SentOnce, At, Working
<1>2. \A m \in Messages : report[m] # "none" => message[m] # "none"
    BY DEF SentOnce
<1>3. ASSUME NEW r \in Requests,
             NEW step \in {"heading", "completing", "editing", "deleting",
                           "reporting", "resolved", "rejected", "erasing"},
             NEW m \in Messages \union {NoMessage}, NEW f \in Files \union {NoFile},
             NEW link \in SUBSET Files, NEW unlink \in SUBSET Files,
             Start(r, Work(step, m, f, link, unlink)), UNCHANGED <<message, report>>,
             step \notin {"heading", "completing"} => m \in Messages /\ message[m] # "none"
      PROVE  SentOnce'
    <2> DEFINE work == Work(step, m, f, link, unlink)
    <2>1. work \in RequestRecord /\ work.step = step /\ work.message = m
        BY WorkTyped DEF Work
    <2> HIDE DEF work
    <2>2. Start(r, work)
        BY <1>3 DEF work
    <2> QED  BY <1>2, <1>3, <2>1, <2>2, WorkKeeps
<1>4. ASSUME NEW r \in Requests, NEW m \in Messages, NEW F \in SUBSET Files, SendCheck(r, m, F)
      PROVE  SentOnce'
    <2> DEFINE work == Work("sending", m, NoFile, F, {})
    <2>1. work \in RequestRecord /\ work.step = "sending" /\ work.message = m
        BY WorkTyped DEF Work
    <2> HIDE DEF work
    <2>2. /\ Start(r, work) /\ UNCHANGED <<message, report>> /\ message[m] = "none"
          /\ \A s \in Requests : At(s, "sending") => request[s].message # m
        BY <1>4 DEF SendCheck, tables, work
    <2> QED  BY <1>2, <2>1, <2>2, WorkKeeps
<1>5. ASSUME NEW r \in Requests, Finish(r), UNCHANGED message,
             \A m \in Messages : report'[m] # "none" => message[m] # "none"
      PROVE  SentOnce'
    <2>1. Idle.step = "idle"
        BY DEF Idle
    <2> QED  BY <1>5, <2>1, Records, WorkKeeps DEF Finish
<1>6. ASSUME NEW r \in Requests, CompleteHead(r) \/ \E f \in Files : CompleteCheck(r, f)
      PROVE  SentOnce'
    <2>1. request[r].file \in Files \union {NoFile}
        BY DEF TypeOK, RequestRecord
    <2>2. ASSUME CompleteHead(r) PROVE SentOnce'
        BY <1>3, <2>1, <2>2 DEF CompleteHead, tables
    <2>3. ASSUME NEW f \in Files, CompleteCheck(r, f) PROVE SentOnce'
        BY <1>3, <2>3 DEF CompleteCheck, tables
    <2> QED  BY <1>6, <2>2, <2>3
<1>7. ASSUME NEW r \in Requests, NEW m \in Messages,
             \/ \E F \in SUBSET Files : EditCheck(r, m, F)
             \/ DeleteCheck(r, m) \/ ReportRead(r, m)
             \/ \E status \in {"resolved", "rejected"} : ResolveCheck(r, m, status)
      PROVE  SentOnce'
    <2>1. AttachedTo(m) \in SUBSET Files
        BY DEF AttachedTo
    <2>2. ASSUME NEW F \in SUBSET Files, EditCheck(r, m, F) PROVE SentOnce'
        <3>1. F \ AttachedTo(m) \in SUBSET Files /\ AttachedTo(m) \ F \in SUBSET Files
            BY <2>1
        <3> QED  BY <1>3, <2>2, <3>1 DEF EditCheck, tables
    <2>3. DeleteCheck(r, m) => SentOnce'
        BY <1>3 DEF DeleteCheck, tables
    <2>4. ReportRead(r, m) => SentOnce'
        BY <1>3, <2>1 DEF ReportRead, tables
    <2>5. ASSUME NEW status \in {"resolved", "rejected"}, ResolveCheck(r, m, status) PROVE SentOnce'
        <3>1. message[m] # "none"
            BY <1>2, <2>5 DEF ResolveCheck
        <3> QED  BY <1>3, <2>5, <3>1 DEF ResolveCheck, tables
    <2> QED  BY <1>7, <2>2, <2>3, <2>4, <2>5
<1>8. ASSUME NEW r \in Requests, Fail(r) \/ CompleteWrite(r) \/ EditCommit(r) PROVE SentOnce'
    BY <1>2, <1>5, <1>8 DEF Fail, CompleteWrite, EditCommit, tables
<1>9. ASSUME NEW r \in Requests, ReportWrite(r) PROVE SentOnce'
    <2>1. message[request[r].message] # "none"
        BY <1>9 DEF SentOnce, Working, ReportWrite, At
    <2>2. \A m \in Messages : report'[m] # "none" => report[m] # "none" \/ m = request[r].message
        BY <1>9 DEF ReportWrite, TypeOK
    <2> QED  BY <1>2, <1>5, <1>9, <2>1, <2>2 DEF ReportWrite
<1>10. ASSUME NEW r \in Requests, ResolveUpdate(r) PROVE SentOnce'
    <2>1. /\ request[r].step \in {"resolved", "rejected"} /\ UNCHANGED message
          /\ request[r].message \in Messages /\ message[request[r].message] # "none"
        BY <1>10 DEF SentOnce, Working, ResolveUpdate
    <2>2. \A m \in Messages : report'[m] # "none" => message[m] # "none"
        BY <1>2, <1>10, <2>1 DEF ResolveUpdate, TypeOK
    <2>3. CASE Finish(r)
        BY <1>5, <2>1, <2>2, <2>3
    <2>4. CASE Start(r, Work("erasing", request[r].message, NoFile, {}, {}))
        <3> DEFINE work == Work("erasing", request[r].message, NoFile, {}, {})
        <3>1. work \in RequestRecord /\ work.step = "erasing" /\ work.message = request[r].message
            BY <2>1, WorkTyped DEF Work
        <3> HIDE DEF work
        <3>2. Start(r, work)
            BY <2>4 DEF work
        <3> QED  BY <2>1, <2>2, <3>1, <3>2, WorkKeeps
    <2> QED  BY <1>10, <2>3, <2>4 DEF ResolveUpdate
<1>11. ASSUME NEW r \in Requests, SendCommit(r) PROVE SentOnce'
    <2>1. request[r].message \in Messages
        BY <1>11 DEF SentOnce, SendCommit
    <2>2. /\ Finish(r) /\ UNCHANGED report /\ At(r, "sending")
          /\ message' = [message EXCEPT ![request[r].message] = "live"]
        BY <1>11 DEF SendCommit
    <2> QED  BY <2>1, <2>2, DoneKeeps DEF TypeOK
<1>12. ASSUME NEW r \in Requests, DeleteWrite(r) \/ ResolveWrite(r) PROVE SentOnce'
    <2>1. request[r].message \in Messages /\ message[request[r].message] # "none"
        BY <1>12 DEF SentOnce, Working, DeleteWrite, ResolveWrite, At
    <2>2. /\ Finish(r) /\ UNCHANGED report
          /\ message' = [message EXCEPT ![request[r].message] = "deleted"]
        BY <1>12 DEF DeleteWrite, ResolveWrite, Erase
    <2> QED  BY <2>1, <2>2, DoneKeeps DEF TypeOK
<1>13. ASSUME NEW m \in Messages, DeleteReport(m) PROVE SentOnce'
    BY <1>1, <1>13 DEF DeleteReport, TypeOK
<1>14. ASSUME UNCHANGED <<message, report, request>> PROVE SentOnce'
    BY <1>1, <1>14
<1>15. ASSUME NEW j \in Jobs, Job(j) PROVE SentOnce'
    BY <1>14, <1>15
       DEF Job, Collect, DeleteRowFails, Crash, DeleteObject, SkipObject, DeleteRow, tables
<1>16. ASSUME NEW f \in Files, UploadMedia(f) \/ PutStart(f) \/ PutEnd(f) \/ Age(f)
      PROVE  SentOnce'
    BY <1>14, <1>16 DEF UploadMedia, PutStart, PutEnd, Age, tables
<1>17. UNCHANGED vars => SentOnce'
    BY <1>14 DEF vars, tables
<1> QED  BY <1>4, <1>6, <1>7, <1>8, <1>9, <1>10, <1>11, <1>12, <1>13, <1>15, <1>16, <1>17 DEF Next

(* A step of a request that edits nothing.                                  *)
LEMMA BuriedStays ==
  ASSUME TypeOK, NEW m \in Messages, Buried(m), NEW r \in Requests, NEW work,
         request' = request \/ Start(r, work), work.step = "editing" => work.message # m,
         message'[m] = "deleted", \A f \in Files : attached'[f] = m => attached[f] = m
  PROVE  Buried(m)'
<1>1. AttachedTo(m)' = {}
    BY DEF Buried, AttachedTo
<1>2. \A s \in Requests : At(s, "editing")' => request'[s].message # m
    BY DEF Buried, At, Start, TypeOK
<1> QED  BY <1>1, <1>2 DEF Buried

LEMMA BuriedStep ==
  ASSUME TypeOK, SentOnce, [Next]_vars, NEW m \in Messages, Buried(m)
  PROVE  Buried(m)'
<1>0. Idle.step = "idle"
    BY DEF Idle
<1>1. message[m] = "deleted"
    BY DEF Buried
<1>2. ASSUME UNCHANGED <<request, message>>, \A f \in Files : attached'[f] = m => attached[f] = m
      PROVE  Buried(m)'
    BY <1>2 DEF Buried, AttachedTo, At
<1>3. ASSUME NEW r \in Requests, Finish(r), message'[m] = "deleted",
             \A f \in Files : attached'[f] = m => attached[f] = m
      PROVE  Buried(m)'
    BY <1>0, <1>3, BuriedStays DEF Finish
<1>4. ASSUME NEW r \in Requests, NEW step, NEW n, NEW f, NEW link, NEW unlink,
             Start(r, Work(step, n, f, link, unlink)), UNCHANGED <<message, attached>>,
             step = "editing" => n # m
      PROVE  Buried(m)'
    <2> DEFINE work == Work(step, n, f, link, unlink)
    <2>1. work.step = step /\ work.message = n
        BY DEF Work
    <2> HIDE DEF work
    <2>2. Start(r, work)
        BY <1>4 DEF work
    <2> QED  BY <1>1, <1>4, <2>1, <2>2, BuriedStays
<1>5. ASSUME NEW r \in Requests, CompleteHead(r) \/ \E f \in Files : CompleteCheck(r, f)
      PROVE  Buried(m)'
    BY <1>4, <1>5 DEF CompleteCheck, CompleteHead, tables
<1>6. ASSUME NEW r \in Requests, NEW n \in Messages, NEW F \in SUBSET Files,
             SendCheck(r, n, F) \/ EditCheck(r, n, F)
      PROVE  Buried(m)'
    <2>1. CASE SendCheck(r, n, F)
        BY <1>4, <2>1 DEF SendCheck, tables
    <2>2. CASE EditCheck(r, n, F)
        BY <1>1, <1>4, <2>2 DEF EditCheck, tables
    <2> QED  BY <1>6, <2>1, <2>2
<1>7. ASSUME NEW r \in Requests, NEW n \in Messages,
             \/ DeleteCheck(r, n) \/ ReportRead(r, n)
             \/ \E status \in {"resolved", "rejected"} : ResolveCheck(r, n, status)
      PROVE  Buried(m)'
    BY <1>4, <1>7 DEF DeleteCheck, ReportRead, ResolveCheck, tables
<1>8. ASSUME NEW r \in Requests, Fail(r) \/ CompleteWrite(r) \/ ReportWrite(r) PROVE Buried(m)'
    BY <1>1, <1>3, <1>8 DEF Fail, CompleteWrite, ReportWrite, tables
<1>9. ASSUME NEW r \in Requests, SendCommit(r) PROVE Buried(m)'
    <2>1. request[r].message # m
        BY <1>1, <1>9 DEF SendCommit, SentOnce
    <2> QED  BY <1>1, <1>3, <1>9, <2>1 DEF SendCommit, TypeOK
<1>10. ASSUME NEW r \in Requests, EditCommit(r) PROVE Buried(m)'
    <2>1. request[r].message # m
        BY <1>10 DEF EditCommit, Buried
    <2>2. NoMessage # m
        BY Records
    <2>3. \A f \in Files : attached'[f] \in {request[r].message, NoMessage, attached[f]}
        BY <1>10 DEF EditCommit
    <2> QED  BY <1>1, <1>3, <1>10, <2>1, <2>2, <2>3 DEF EditCommit
<1>11. ASSUME NEW r \in Requests, DeleteWrite(r) \/ ResolveWrite(r) PROVE Buried(m)'
    <2>1. message'[m] = "deleted"
        BY <1>1, <1>11 DEF DeleteWrite, ResolveWrite, Erase, TypeOK
    <2>2. \A f \in Files : attached'[f] \in {NoMessage, attached[f]}
        BY <1>11 DEF DeleteWrite, ResolveWrite, Erase
    <2> QED  BY <1>3, <1>11, <2>1, <2>2, Records DEF DeleteWrite, ResolveWrite
<1>12. ASSUME NEW r \in Requests, ResolveUpdate(r) PROVE Buried(m)'
    BY <1>1, <1>3, <1>4, <1>12 DEF ResolveUpdate
<1>13. ASSUME NEW j \in Jobs, Job(j) PROVE Buried(m)'
    <2>1. ASSUME NEW f \in Files, DeleteRow(j, f) PROVE Buried(m)'
        BY <1>2, <2>1, Records DEF DeleteRow, TypeOK
    <2> QED  BY <1>2, <1>13, <2>1
             DEF Job, Collect, DeleteRowFails, Crash, DeleteObject, SkipObject, tables
<1>14. ASSUME UNCHANGED <<request, message, attached>> PROVE Buried(m)'
    BY <1>2, <1>14
<1> QED  BY <1>5, <1>6, <1>7, <1>8, <1>9, <1>10, <1>11, <1>12, <1>13, <1>14
         DEF Next, UploadMedia, PutStart, PutEnd, Age, DeleteReport, vars, tables

(* A deleted message that no edit has overtaken never comes back and never  *)
(* gets an attachment again, for any messages, files and requests.          *)
THEOREM BuriedStaysBuried == Spec => BuriedForGood
<1>1. Spec => []SentOnce
    BY InitSentOnce, SentOnceStep, TypeCorrect, PTL DEF Spec
<1>2. TypeOK /\ SentOnce /\ [Next]_vars => [\A m \in Messages : Buried(m) => Buried(m)']_vars
    BY BuriedStep
<1> QED  BY <1>1, <1>2, TypeCorrect, PTL DEF Spec, BuriedForGood
=============================================================================
