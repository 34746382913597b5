--------------------------- MODULE EvidencePipeline ---------------------------
(***************************************************************************)
(* One case, its attachments, their processing jobs and its extraction     *)
(* runs, under the Celery tasks that move them forward:                    *)
(*   fetch_attachment, extract_document, analyze_image (processing/tasks)  *)
(*   transcribe_audio                               (transcription/tasks)  *)
(*   extract_case_facts                              (intelligence/tasks)  *)
(* with the services that users call (cases/services, intelligence) and    *)
(* the recover_stuck_processing command.                                   *)
(*                                                                         *)
(* A task is a sequence of database transactions with provider calls and   *)
(* on_commit publications between them; one action is one transaction or   *)
(* one publication, and `pc' of a worker says which comes next.  The       *)
(* broker delivers at least once: a message leaves the queue when a worker *)
(* takes it and comes back when that worker is lost (acks_late with        *)
(* reject_on_worker_lost), and a task that raises is published again until *)
(* its retries are used up (autoretry_for, max_retries).                   *)
(***************************************************************************)
EXTENDS CaseWorkflow, Integers

CONSTANTS
  Voice,          \* attachments of voice and audio messages
  Documents,      \* attachments of image and document messages
  MaxRuns,        \* bound: extraction runs that may be created
  Workers,        \* Celery worker processes
  MaxRetries,     \* max_retries of the tasks (5 in the code)
  Faults,         \* what may go wrong, a subset of FaultKinds
  MayArchive,     \* whether users archive and reopen the case
  MaxOutages,     \* bound: workers lost and messages not published
  MaxRecoveries   \* bound: messages published by recover_stuck_processing

(* "fetch", "content", "extract": Bale, STT or vision, or the extraction   *)
(* provider fails; "quota", "lapse": assert_quota raises QuotaExceededError *)
(* or SubscriptionAccessError; "broker": publishing a message raises, sent *)
(* or not; "crash": a worker process is lost.                              *)
FaultKinds == {"fetch", "content", "extract", "quota", "lapse", "broker", "crash"}

ASSUME ConstantsAssumption ==
  /\ MaxRuns \in Nat /\ MaxRetries \in Nat
  /\ MaxOutages \in Nat /\ MaxRecoveries \in Nat
  /\ Faults \subseteq FaultKinds
  /\ MayArchive \in BOOLEAN
  /\ Voice \cap Documents = {}

VARIABLES
  case,         \* the Case row
  openIssues,   \* whether the case has an open CaseFieldIssue
  attachment,   \* [Attachments -> CaseAttachment.Status, or "NONE"]
  fetchJob,     \* [Attachments -> ProcessingJob.Status, or "NONE"]
  contentJob,   \* the TRANSCRIBE_AUDIO, EXTRACT_DOCUMENT or ANALYZE_IMAGE job
  evidence,     \* attachments whose Evidence rows are stored
  run,          \* [Runs -> ExtractionRun.Status, or "NONE"]
  queue,        \* [Messages -> Nat], the Celery queue
  worker,       \* [Workers -> what the process is executing]
  answering,    \* an answer is on its way that has seen the case wait for one
  outages, recoveries, \* how much of the two bounds is used
  overlapped    \* history: attachments two fetches of which ran at once

rows == <<case, openIssues, attachment, fetchJob, contentJob, evidence, run>>
others == <<answering, outages, recoveries, overlapped>>
vars == <<case, openIssues, attachment, fetchJob, contentJob, evidence, run,
          queue, worker, answering, outages, recoveries, overlapped>>

Attachments == Voice \cup Documents
Runs == 1 .. MaxRuns

Messages ==
  [task : {"fetch_attachment", "content"}, id : Attachments, retries : 0 .. MaxRetries]
    \cup [task : {"extract_case_facts"}, id : Runs, retries : 0 .. MaxRetries]

NoMessage == [task |-> "none", id |-> 0, retries |-> 0]

(* The places between two transactions of a task.                          *)
PCs == {"idle", "begin",
        "download", "enqueue",                        \* fetch_attachment
        "process", "complete", "sync", "resume",      \* content tasks
        "parking", "refusing", "starting",            \* extract_case_facts,
        "collect", "apply", "read", "mark",           \* in the order of
        "transition", "notify", "failing"}            \* its code

(* finalizing and stillOpen are what the tail of extract_case_facts has    *)
(* read of the case and carries across its statements.                     *)
Idle == [pc |-> "idle", msg |-> NoMessage, finalizing |-> FALSE, stillOpen |-> FALSE]

Task(t, i) == [task |-> t, id |-> i, retries |-> 0]
Put(q, m) == [q EXCEPT ![m] = @ + 1]
Publish(t, i) == queue' = Put(queue, Task(t, i))

Init ==
  /\ case = NewCase
  /\ openIssues = FALSE
  /\ attachment = [a \in Attachments |-> "NONE"]
  /\ fetchJob = [a \in Attachments |-> "NONE"]
  /\ contentJob = [a \in Attachments |-> "NONE"]
  /\ evidence = {}
  /\ run = [r \in Runs |-> "NONE"]
  /\ queue = [m \in Messages |-> 0]
  /\ worker = [p \in Workers |-> Idle]
  /\ answering = FALSE /\ outages = 0 /\ recoveries = 0 /\ overlapped = {}

(* _case_evidence_pipeline_pending *)
Waiting == {"PENDING", "RUNNING"}
PipelinePending ==
  \E a \in Attachments : fetchJob[a] \in Waiting \/ contentJob[a] \in Waiting

(* order_by("-created_at").first() among the runs with one of the statuses *)
LatestRun(r, statuses) ==
  /\ run[r] \in statuses
  /\ \A s \in Runs : run[s] \in statuses => s <= r

----------------------------------------------------------------------------
(* What users and operators call                                           *)

Outage == outages < MaxOutages /\ outages' = outages + 1

(* handle_message records the message in the active case and enqueues the  *)
(* fetch job of its file, unless the broker refuses it.                    *)
ReceiveAttachment(a) ==
  /\ case.lifecycle = "ACTIVE"
  /\ attachment[a] = "NONE"
  /\ attachment' = [attachment EXCEPT ![a] = "PENDING"]
  /\ fetchJob' = [fetchJob EXCEPT ![a] = "PENDING"]
  /\ \/ Publish("fetch_attachment", a) /\ UNCHANGED outages
     \/ "broker" \in Faults /\ Outage /\ UNCHANGED queue
  /\ UNCHANGED <<case, openIssues, contentJob, evidence, run, worker,
                 answering, recoveries, overlapped>>

(* process_bale_update does not ask whether its update was handled: when   *)
(* it raised after the commit (the broker), or its worker was lost, the    *)
(* handler finds the rows and publishes a fetch that still waits again.    *)
(* It looks before it publishes; a message published late is one that was  *)
(* taken late.                                                             *)
ReceiveAgain(a) ==
  /\ Faults \cap {"broker", "crash"} # {} /\ Outage
  /\ fetchJob[a] = "PENDING"
  /\ Publish("fetch_attachment", a)
  /\ UNCHANGED <<rows, worker, answering, recoveries, overlapped>>

(* start_extraction for a case whose row is c by then.                     *)
StartExtraction(r, c) ==
  /\ run[r] = "NONE"
  /\ \A s \in Runs : s < r => run[s] # "NONE"
  /\ run' = [run EXCEPT ![r] = "PENDING"]
  /\ case' = [c EXCEPT !.analysis = "QUEUED"]
  /\ Publish("extract_case_facts", r)

(* The analyze button and start_analysis_view: request_analysis, then      *)
(* start_extraction whether or not the request found one in progress.      *)
Analyze(r) ==
  /\ CanRequestAnalysis(case)
  /\ StartExtraction(r, RequestAnalysis(case))
  /\ UNCHANGED <<openIssues, attachment, fetchJob, contentJob, evidence, worker, others>>

(* _handle_follow_up_answer reads without a lock that the case waits ...   *)
BeginAnswer ==
  /\ case.status = "NEEDS_INFORMATION"
  /\ ~answering /\ answering' = TRUE
  /\ UNCHANGED <<rows, queue, worker, outages, recoveries, overlapped>>

(* ... and takes the locks of its rows to store the answer: after the last *)
(* one the case it finds by then goes back to FINALIZING ...               *)
AnswerLastQuestion(r) ==
  /\ answering /\ answering' = FALSE
  /\ CanTransition(case, "FINALIZING")
  /\ StartExtraction(r, TransitionCase(case, "FINALIZING"))
  /\ UNCHANGED <<openIssues, attachment, fetchJob, contentJob, evidence, worker,
                 outages, recoveries, overlapped>>

(* ... unless questions are left, or transition_case refuses the case.     *)
EndAnswer ==
  /\ answering /\ answering' = FALSE
  /\ UNCHANGED <<rows, queue, worker, outages, recoveries, overlapped>>

WaiveOpenIssues ==
  /\ openIssues
  /\ openIssues' = FALSE
  /\ case' = [case EXCEPT !.analysis = "COMPLETED",
                          !.status = IF @ = "NEEDS_INFORMATION" THEN "OPEN" ELSE @]
  /\ UNCHANGED <<attachment, fetchJob, contentJob, evidence, run, queue, worker, others>>

Archive ==
  /\ MayArchive
  /\ CanArchive(case)
  /\ case' = ArchiveCase(case)
  /\ UNCHANGED <<openIssues, attachment, fetchJob, contentJob, evidence, run,
                 queue, worker, others>>

Reopen ==
  /\ MayArchive
  /\ CanReopen(case)
  /\ case' = ReopenCase(case)
  /\ UNCHANGED <<openIssues, attachment, fetchJob, contentJob, evidence, run,
                 queue, worker, others>>

(* recover_stuck_processing, first loop: a failed transcription whose      *)
(* error the command recognises (any may be) goes back to PENDING.         *)
RecoverAudio(a) ==
  /\ recoveries < MaxRecoveries
  /\ case.status = "FINALIZING"
  /\ a \in Voice /\ contentJob[a] = "FAILED"
  /\ contentJob' = [contentJob EXCEPT ![a] = "PENDING"]
  /\ Publish("content", a)
  /\ recoveries' = recoveries + 1
  /\ UNCHANGED <<case, openIssues, attachment, fetchJob, evidence, run, worker,
                 answering, outages, overlapped>>

(* Second loop: the latest pending or failed run of a finalizing case      *)
(* whose audio is neither under way nor failed.                            *)
RecoverExtraction(r) ==
  /\ recoveries < MaxRecoveries
  /\ case.status = "FINALIZING"
  /\ \A a \in Attachments : fetchJob[a] \notin Waiting
  /\ \A a \in Voice : contentJob[a] \notin Waiting \cup {"FAILED"}
  /\ LatestRun(r, {"PENDING", "FAILED"})
  /\ Publish("extract_case_facts", r)
  /\ recoveries' = recoveries + 1
  /\ UNCHANGED <<rows, worker, answering, outages, overlapped>>

----------------------------------------------------------------------------
(* How a worker executes a message                                         *)

At(p, pc, t) == worker[p].pc = pc /\ worker[p].msg.task = t

Goto(p, pc) == worker' = [worker EXCEPT ![p].pc = pc]

Take(p, m) ==
  /\ worker[p].pc = "idle"
  /\ queue[m] > 0
  /\ queue' = [queue EXCEPT ![m] = @ - 1]
  /\ worker' = [worker EXCEPT ![p] = [Idle EXCEPT !.pc = "begin", !.msg = m]]
  /\ UNCHANGED <<rows, others>>

(* The task returns: its message is acknowledged.                          *)
Return(p) == worker' = [worker EXCEPT ![p] = Idle]

(* The task raises: it is added to q again while retries are left.         *)
Retried(p, q) ==
  LET m == worker[p].msg IN
  IF m.retries < MaxRetries THEN Put(q, [m EXCEPT !.retries = @ + 1]) ELSE q

Raise(p) == Return(p) /\ queue' = Retried(p, queue)

(* The same because publishing t(i) raised, sent or not.                   *)
RaiseOnPublish(p, t, i) ==
  /\ "broker" \in Faults /\ Outage
  /\ Return(p)
  /\ queue' \in {Retried(p, queue), Retried(p, Put(queue, Task(t, i)))}

(* The process is lost and the broker delivers the message again.          *)
Crash(p) ==
  /\ "crash" \in Faults /\ Outage
  /\ worker[p].pc # "idle"
  /\ queue' = Put(queue, worker[p].msg)
  /\ Return(p)
  /\ UNCHANGED <<rows, answering, recoveries, overlapped>>

----------------------------------------------------------------------------
(* fetch_attachment                                                        *)

Fetching(p, a) == At(p, "download", "fetch_attachment") /\ worker[p].msg.id = a

StartFetch(p, a) ==
  /\ fetchJob' = [fetchJob EXCEPT ![a] = "RUNNING"]
  /\ attachment' = [attachment EXCEPT ![a] = "FETCHING"]
  /\ overlapped' = overlapped \cup {b \in {a} : \E q \in Workers : Fetching(q, b)}
  /\ Goto(p, "download")

(* Mutant: a succeeded fetch job is executed again.                        *)
BeginFetch_Again(p) ==
  /\ At(p, "begin", "fetch_attachment")
  /\ StartFetch(p, worker[p].msg.id)
  /\ UNCHANGED <<case, openIssues, contentJob, evidence, run, queue,
                 answering, outages, recoveries>>

(* Only a fetch that SUCCEEDED turns another away: one that is RUNNING     *)
(* does not.                                                               *)
BeginFetch(p) ==
  LET a == worker[p].msg.id IN
  /\ At(p, "begin", "fetch_attachment")
  /\ \/ /\ fetchJob[a] = "SUCCEEDED"
        /\ Return(p)
        /\ UNCHANGED <<attachment, fetchJob, overlapped>>
     \/ fetchJob[a] # "SUCCEEDED" /\ StartFetch(p, a)
  /\ UNCHANGED <<case, openIssues, contentJob, evidence, run, queue,
                 answering, outages, recoveries>>

(* The file is stored and the job that reads its content is created.       *)
StoreAttachment(p) ==
  LET a == worker[p].msg.id
      next == IF contentJob[a] = "NONE" THEN "PENDING" ELSE contentJob[a] IN
  /\ At(p, "download", "fetch_attachment")
  /\ attachment' = [attachment EXCEPT ![a] = "STORED"]
  /\ fetchJob' = [fetchJob EXCEPT ![a] = "SUCCEEDED"]
  /\ contentJob' = [contentJob EXCEPT ![a] = next]
  /\ IF next = "PENDING" THEN Goto(p, "enqueue") ELSE Return(p)
  /\ UNCHANGED <<case, openIssues, evidence, run, queue, others>>

EnqueueNextJob(p) ==
  /\ At(p, "enqueue", "fetch_attachment")
  /\ Publish("content", worker[p].msg.id)
  /\ Return(p)
  /\ UNCHANGED <<rows, others>>

(* BaleFileTooLargeError is final: the task returns.                       *)
RejectAttachment(p) ==
  LET a == worker[p].msg.id IN
  /\ "fetch" \in Faults
  /\ At(p, "download", "fetch_attachment")
  /\ attachment' = [attachment EXCEPT ![a] = "REJECTED"]
  /\ fetchJob' = [fetchJob EXCEPT ![a] = "FAILED"]
  /\ Return(p)
  /\ UNCHANGED <<case, openIssues, contentJob, evidence, run, queue, others>>

(* Any other error, that of publishing from on_commit included.            *)
FailFetch(p) ==
  LET a == worker[p].msg.id IN
  /\ \/ /\ "fetch" \in Faults /\ At(p, "download", "fetch_attachment")
        /\ Raise(p) /\ UNCHANGED outages
     \/ At(p, "enqueue", "fetch_attachment") /\ RaiseOnPublish(p, "content", a)
  /\ attachment' = [attachment EXCEPT ![a] = "FAILED"]
  /\ fetchJob' = [fetchJob EXCEPT ![a] = "FAILED"]
  /\ UNCHANGED <<case, openIssues, contentJob, evidence, run, answering, recoveries, overlapped>>

----------------------------------------------------------------------------
(* transcribe_audio, extract_document and analyze_image                    *)

ContentReadable(a) == a \in Voice \/ attachment[a] = "STORED"

(* Mutant: a succeeded content job is executed again.                      *)
BeginContent_Again(p) ==
  LET a == worker[p].msg.id IN
  /\ At(p, "begin", "content")
  /\ ContentReadable(a)
  /\ contentJob' = [contentJob EXCEPT ![a] = "RUNNING"]
  /\ Goto(p, "process")
  /\ UNCHANGED <<case, openIssues, attachment, fetchJob, evidence, run, queue, others>>

BeginContent(p) ==
  LET a == worker[p].msg.id IN
  /\ At(p, "begin", "content")
  /\ \/ /\ contentJob[a] = "SUCCEEDED"
        /\ Return(p)
        /\ UNCHANGED <<contentJob, queue>>
     \/ /\ contentJob[a] # "SUCCEEDED"
        /\ ContentReadable(a)
        /\ contentJob' = [contentJob EXCEPT ![a] = "RUNNING"]
        /\ Goto(p, "process")
        /\ UNCHANGED queue
     \/ /\ contentJob[a] # "SUCCEEDED"   \* "Attachment is not stored yet"
        /\ ~ContentReadable(a)
        /\ Raise(p)
        /\ UNCHANGED contentJob
  /\ UNCHANGED <<case, openIssues, attachment, fetchJob, evidence, run, others>>

(* transcribe_audio asks assert_quota first; both refusals leave the run   *)
(* waiting: one fails the job for good, the other rolls back and retries.  *)
RefuseTranscription(p) ==
  LET a == worker[p].msg.id IN
  /\ At(p, "begin", "content")
  /\ a \in Voice /\ contentJob[a] # "SUCCEEDED"
  /\ \/ /\ "quota" \in Faults
        /\ contentJob' = [contentJob EXCEPT ![a] = "FAILED"]
        /\ Return(p)
        /\ UNCHANGED queue
     \/ /\ "lapse" \in Faults
        /\ Raise(p)
        /\ UNCHANGED contentJob
  /\ UNCHANGED <<case, openIssues, attachment, fetchJob, evidence, run, others>>

(* replace_document_page_evidence, replace_image_analysis_evidence         *)
StoreContentEvidence(p) ==
  LET a == worker[p].msg.id IN
  /\ At(p, "process", "content") /\ a \in Documents
  /\ evidence' = evidence \cup {a}
  /\ Goto(p, "complete")
  /\ UNCHANGED <<case, openIssues, attachment, fetchJob, contentJob, run, queue, others>>

(* Mutant: the job is completed without storing what was read.             *)
CompleteContent_First(p) ==
  LET a == worker[p].msg.id IN
  /\ At(p, "process", "content")
  /\ contentJob' = [contentJob EXCEPT ![a] = "SUCCEEDED"]
  /\ Goto(p, IF a \in Voice THEN "sync" ELSE "resume")
  /\ UNCHANGED <<case, openIssues, attachment, fetchJob, evidence, run, queue, others>>

(* _complete_content_job, and the second transaction of transcribe_audio.  *)
CompleteContent(p) ==
  LET a == worker[p].msg.id IN
  /\ IF a \in Voice THEN At(p, "process", "content") ELSE At(p, "complete", "content")
  /\ contentJob' = [contentJob EXCEPT ![a] = "SUCCEEDED"]
  /\ Goto(p, IF a \in Voice THEN "sync" ELSE "resume")
  /\ UNCHANGED <<case, openIssues, attachment, fetchJob, evidence, run, queue, others>>

(* sync_transcript_evidence runs on commit of the transcription.           *)
SyncTranscript(p) ==
  /\ At(p, "sync", "content")
  /\ evidence' = evidence \cup {worker[p].msg.id}
  /\ Goto(p, "resume")
  /\ UNCHANGED <<case, openIssues, attachment, fetchJob, contentJob, run, queue, others>>

(* Mutant: the last content job resumes failed runs only.                  *)
Resumable_Failed(a, r) ==
  IF a \in Voice
  THEN case.status = "FINALIZING" /\ LatestRun(r, {"FAILED"})
  ELSE ~PipelinePending /\ LatestRun(r, {"FAILED"})

(* The two _resume_case_extraction: that of the documents wants no content *)
(* job left and a pending run; that of the audio wants a finalizing case   *)
(* and takes a failed run too.                                             *)
Resumable(a, r) ==
  IF a \in Voice
  THEN case.status = "FINALIZING" /\ LatestRun(r, {"PENDING", "FAILED"})
  ELSE ~PipelinePending /\ LatestRun(r, {"PENDING"})

ResumeExtraction(p) ==
  LET a == worker[p].msg.id IN
  /\ At(p, "resume", "content")
  /\ \/ \E r \in Runs : Resumable(a, r) /\ Publish("extract_case_facts", r)
     \/ (\A r \in Runs : ~Resumable(a, r)) /\ UNCHANGED queue
  /\ Return(p)
  /\ UNCHANGED <<rows, others>>

FailContent(p) ==
  LET a == worker[p].msg.id IN
  /\ \/ /\ "content" \in Faults /\ At(p, "process", "content")
        /\ Raise(p) /\ UNCHANGED outages
     \/ /\ At(p, "resume", "content")
        /\ \E r \in Runs : Resumable(a, r) /\ RaiseOnPublish(p, "extract_case_facts", r)
  /\ contentJob' = [contentJob EXCEPT ![a] = "FAILED"]
  /\ UNCHANGED <<case, openIssues, attachment, fetchJob, evidence, run,
                 answering, recoveries, overlapped>>

----------------------------------------------------------------------------
(* extract_case_facts                                                      *)

(* The first transaction holds the lock of the run from its read to its    *)
(* commit; other transactions commit between the two.                      *)
HoldsRun(p, r) ==
  /\ worker[p].pc \in {"parking", "refusing", "starting"}
  /\ worker[p].msg.id = r

RunFree(r) == \A p \in Workers : ~HoldsRun(p, r)

(* Mutant: the run is read without select_for_update.                      *)
BeginExtraction_Unlocked(p) ==
  LET r == worker[p].msg.id IN
  /\ At(p, "begin", "extract_case_facts")
  /\ IF run[r] \in {"COMPLETED", "RUNNING"}
     THEN Return(p)
     ELSE Goto(p, IF PipelinePending THEN "parking" ELSE "starting")
  /\ UNCHANGED <<rows, queue, others>>

BeginExtraction(p) ==
  LET r == worker[p].msg.id IN
  /\ At(p, "begin", "extract_case_facts")
  /\ RunFree(r)
  /\ \/ /\ run[r] \in {"COMPLETED", "RUNNING"}
        /\ Return(p)
        /\ UNCHANGED queue
     \/ /\ run[r] \notin {"COMPLETED", "RUNNING"}
        /\ PipelinePending
        /\ Goto(p, "parking")
        /\ UNCHANGED queue
     \/ /\ run[r] \notin {"COMPLETED", "RUNNING"}
        /\ ~PipelinePending
        /\ \/ Goto(p, "starting") /\ UNCHANGED queue
           \/ "quota" \in Faults /\ Goto(p, "refusing") /\ UNCHANGED queue
           \/ "lapse" \in Faults /\ Raise(p)
  /\ UNCHANGED <<rows, others>>

(* A commit of extract_case_facts that writes the run and the case, and    *)
(* then goes on as `next' says.                                            *)
CommitRun(p, runStatus, analysis) ==
  /\ run' = [run EXCEPT ![worker[p].msg.id] = runStatus]
  /\ case' = [case EXCEPT !.analysis = analysis]
  /\ UNCHANGED <<openIssues, attachment, fetchJob, contentJob, evidence, others>>

ParkRun(p) ==
  /\ At(p, "parking", "extract_case_facts")
  /\ CommitRun(p, "PENDING", "QUEUED")
  /\ Return(p) /\ UNCHANGED queue

RefuseRun(p) ==
  /\ At(p, "refusing", "extract_case_facts")
  /\ CommitRun(p, "FAILED", "FAILED")
  /\ Return(p) /\ UNCHANGED queue

StartRun(p) ==
  /\ At(p, "starting", "extract_case_facts")
  /\ CommitRun(p, "RUNNING", "PROCESSING")
  /\ Goto(p, "collect") /\ UNCHANGED queue

(* collect_case_evidence, then the call of the provider.                   *)
CollectEvidence(p) ==
  /\ At(p, "collect", "extract_case_facts")
  /\ Goto(p, "apply")
  /\ UNCHANGED <<rows, queue, others>>

(* Mutant: the run is not marked COMPLETED with its response.              *)
ApplyResponse_Running(p) ==
  /\ At(p, "apply", "extract_case_facts")
  /\ openIssues' \in BOOLEAN
  /\ Goto(p, "read")
  /\ UNCHANGED <<case, attachment, fetchJob, contentJob, evidence, run, queue, others>>

(* apply_extraction_response and record_usage in one transaction: the run  *)
(* is complete, whatever the issues it found.                              *)
ApplyResponse(p) ==
  /\ At(p, "apply", "extract_case_facts")
  /\ run' = [run EXCEPT ![worker[p].msg.id] = "COMPLETED"]
  /\ openIssues' \in BOOLEAN
  /\ Goto(p, "read")
  /\ UNCHANGED <<case, attachment, fetchJob, contentJob, evidence, queue, others>>

(* The tail of the task runs outside any transaction: it reads the case    *)
(* and its open issues (planning questions may close some) ...             *)
ReadOutcome(p) ==
  /\ At(p, "read", "extract_case_facts")
  /\ openIssues' \in (IF openIssues THEN BOOLEAN ELSE {FALSE})
  /\ worker' = [worker EXCEPT ![p] = [pc |-> "mark", msg |-> @.msg,
                                      finalizing |-> (case.status = "FINALIZING"),
                                      stillOpen |-> openIssues']]
  /\ UNCHANGED <<case, attachment, fetchJob, contentJob, evidence, run, queue, others>>

(* Mutant: the tail leaves analysis_status alone.                          *)
MarkAnalysis_Skipped(p) ==
  /\ At(p, "mark", "extract_case_facts")
  /\ Goto(p, IF worker[p].finalizing THEN "transition" ELSE "notify")
  /\ UNCHANGED <<rows, queue, others>>

(* ... writes analysis_status over whatever it is by now ...               *)
MarkAnalysis(p) ==
  /\ At(p, "mark", "extract_case_facts")
  /\ case' = [case EXCEPT !.analysis =
                IF worker[p].stillOpen THEN "NEEDS_REVIEW" ELSE "COMPLETED"]
  /\ Goto(p, IF worker[p].finalizing THEN "transition" ELSE "notify")
  /\ UNCHANGED <<openIssues, attachment, fetchJob, contentJob, evidence, run, queue, others>>

(* ... and leaves FINALIZING, which transition_case checks against the     *)
(* status the row has now.                                                 *)
LeaveFinalizing(p) ==
  LET target == IF worker[p].stillOpen THEN "NEEDS_INFORMATION" ELSE "OPEN" IN
  /\ At(p, "transition", "extract_case_facts")
  /\ \/ /\ CanTransition(case, target)
        /\ case' = TransitionCase(case, target)
        /\ Goto(p, "notify")
     \/ /\ ~CanTransition(case, target)
        /\ Goto(p, "failing")
        /\ UNCHANGED case
  /\ UNCHANGED <<openIssues, attachment, fetchJob, contentJob, evidence, run, queue, others>>

Notify(p) ==
  /\ At(p, "notify", "extract_case_facts")
  /\ \/ Return(p) /\ UNCHANGED outages
     \/ "broker" \in Faults /\ Outage /\ Goto(p, "failing")
  /\ UNCHANGED <<rows, queue, answering, recoveries, overlapped>>

FailExtraction(p) ==
  /\ "extract" \in Faults
  /\ At(p, "collect", "extract_case_facts") \/ At(p, "apply", "extract_case_facts")
  /\ Goto(p, "failing")
  /\ UNCHANGED <<rows, queue, others>>

(* The except block: the run fails, a completed one too.                   *)
FailRun(p) ==
  /\ At(p, "failing", "extract_case_facts")
  /\ RunFree(worker[p].msg.id)
  /\ CommitRun(p, "FAILED", "FAILED")
  /\ Raise(p)

----------------------------------------------------------------------------

UserStep ==
  \/ \E a \in Attachments : ReceiveAttachment(a) \/ ReceiveAgain(a) \/ RecoverAudio(a)
  \/ \E r \in Runs : Analyze(r) \/ AnswerLastQuestion(r) \/ RecoverExtraction(r)
  \/ BeginAnswer \/ EndAnswer
  \/ WaiveOpenIssues
  \/ Archive
  \/ Reopen

FetchStep(p) ==
  BeginFetch(p) \/ StoreAttachment(p) \/ EnqueueNextJob(p)
    \/ RejectAttachment(p) \/ FailFetch(p)

ContentStep(p) ==
  BeginContent(p) \/ RefuseTranscription(p) \/ StoreContentEvidence(p)
    \/ CompleteContent(p) \/ SyncTranscript(p) \/ ResumeExtraction(p) \/ FailContent(p)

ExtractionStep(p) ==
  BeginExtraction(p) \/ ParkRun(p) \/ RefuseRun(p) \/ StartRun(p) \/ CollectEvidence(p)
    \/ ApplyResponse(p) \/ ReadOutcome(p) \/ MarkAnalysis(p) \/ LeaveFinalizing(p)
    \/ Notify(p) \/ FailExtraction(p) \/ FailRun(p)

WorkerStep(p) ==
  (\E m \in Messages : Take(p, m)) \/ FetchStep(p) \/ ContentStep(p) \/ ExtractionStep(p)

Next ==
  \/ UserStep
  \/ \E p \in Workers : WorkerStep(p) \/ Crash(p)

Spec == Init /\ [][Next]_vars

(* Workers keep taking messages and finishing tasks; users owe nothing.    *)
FairSpec == Spec /\ \A p \in Workers : WF_vars(WorkerStep(p))

----------------------------------------------------------------------------
(* Properties                                                              *)

TypeOK ==
  /\ case \in Case
  /\ openIssues \in BOOLEAN
  /\ attachment \in [Attachments -> {"NONE", "PENDING", "FETCHING", "STORED", "REJECTED", "FAILED"}]
  /\ fetchJob \in [Attachments -> {"NONE", "PENDING", "RUNNING", "SUCCEEDED", "FAILED"}]
  /\ contentJob \in [Attachments -> {"NONE", "PENDING", "RUNNING", "SUCCEEDED", "FAILED"}]
  /\ evidence \subseteq Attachments
  /\ run \in [Runs -> {"NONE", "PENDING", "RUNNING", "COMPLETED", "FAILED"}]
  /\ queue \in [Messages -> Nat]
  /\ worker \in [Workers -> [pc : PCs, msg : Messages \cup {NoMessage},
                             finalizing : BOOLEAN, stillOpen : BOOLEAN]]
  /\ answering \in BOOLEAN
  /\ outages \in 0 .. MaxOutages
  /\ recoveries \in 0 .. MaxRecoveries
  /\ overlapped \subseteq Attachments

(* Past its first transaction, extract_case_facts owns its run.            *)
RunningPCs == {"collect", "apply"}
TailPCs == {"read", "mark", "transition", "notify"}
Executes(p, r) ==
  /\ worker[p].msg.task = "extract_case_facts"
  /\ worker[p].msg.id = r
  /\ worker[p].pc \in RunningPCs \cup TailPCs \cup {"failing"}

(* A run is never executed by two workers at once, however many messages   *)
(* for it the retries, the resumes and the recovery command have queued:   *)
(* the status check of the first transaction is a lock on the whole task.  *)
OneExecutorPerRun ==
  \A r \in Runs : \A p, q \in Workers : Executes(p, r) /\ Executes(q, r) => p = q

(* A run that is RUNNING is being executed by some worker.                 *)
RunningHasExecutor ==
  \A r \in Runs : run[r] = "RUNNING" => \E p \in Workers : Executes(p, r)

(* The archived state of the legacy status and of the lifecycle dimension  *)
(* never part, whatever the tail of an extraction writes after a user      *)
(* archived or reopened the case.                                          *)
MirrorInv == MirrorsLifecycle(case)

(* When nothing is queued or executing any more, no case is left waiting   *)
(* for an analysis.                                                        *)
Quiescent ==
  /\ \A m \in Messages : queue[m] = 0
  /\ \A p \in Workers : worker[p].pc = "idle"
NotAbandoned == Quiescent => case.analysis \notin {"QUEUED", "PROCESSING"}

(* The content of an attachment is only read from a stored file, however   *)
(* often its fetch is published, lost or retried; unless two fetches of it *)
(* ran at once, when one may store the file and the other mark it FAILED.  *)
ContentIsStored ==
  \A a \in Attachments \ overlapped :
    contentJob[a] # "NONE" => attachment[a] = "STORED" /\ fetchJob[a] = "SUCCEEDED"

(* A content job that succeeded is not executed or failed again: repeated  *)
(* fetches publish its task once, unless they ran at once.                 *)
SucceededIsFinal ==
  [][\A a \in Attachments \ overlapped :
       contentJob[a] = "SUCCEEDED" => contentJob'[a] = "SUCCEEDED"]_vars

(* An extraction collects the evidence of every document and image whose   *)
(* job has succeeded: it is stored before the job is completed.            *)
SeesDocuments == \A a \in Documents : contentJob[a] = "SUCCEEDED" => a \in evidence
CollectsDocuments ==
  [][(\E p \in Workers : CollectEvidence(p)) => SeesDocuments]_vars

(* A requested analysis ends: completed, needing review or failed.         *)
AnalysisEnds ==
  case.analysis \in {"QUEUED", "PROCESSING"}
    ~> case.analysis \in {"NEEDS_REVIEW", "COMPLETED", "FAILED"}
=============================================================================
