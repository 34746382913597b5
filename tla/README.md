# A TLA+ model of nvise

nvise turns what an insurance expert sends to a chat bot (text, voice, photos, documents) into a
reviewed report. It is a Django application (`src/apps`) with Celery workers, PostgreSQL and Redis.
These modules model the parts of it in which several processes, messages and people meet; TLC checks
them on small instances and TLAPS proves the theorems at the end for all of them.

## The system

| component | state | operations | what is hard | what makes it correct |
|---|---|---|---|---|
| case lifecycle (`cases/services.py`) | `Case`: legacy status and lifecycle, analysis and report status | create, request analysis, transition, reopen, approve, archive | two encodings of one state, written by different services and by the tail of a task | the encodings agree; an approved case has an approved report |
| evidence pipeline (`processing`, `transcription`, `evidence`) | `CaseAttachment`, `ProcessingJob`, `Evidence` | fetch, transcribe, read document or image, resume the extraction | at-least-once tasks, retries, commit then publish, lost workers, a fetch published again by a rerun of its update | content is read from stored files; finished work stays finished; an extraction collects what is done |
| extraction runs (`intelligence`) | `ExtractionRun`, `CaseFieldIssue` | start, park, run, fail, waive issues | several messages per run; parking races the resume; a tail outside any transaction | one executor per run; a requested analysis ends |
| reports and review (`reports`) | `Report`, `ReportRevision`, reviews, `ReportApproval`, `ExpertFactDecision` | generate, edit, review, approve, decide | overlapping transactions at READ COMMITTED, opposite lock orders, state read before the lock | revisions are never overwritten; approvals rest on the reviews of what is approved |
| recovery command (`recover_stuck_processing`) | none | publish stuck work again | it cannot see what is queued | it duplicates no execution |
| payments (`subscriptions/payments.py`) | `PaymentAttempt`, `Subscription` | invoice, pre-checkout, successful payment | duplicated and late messages of the payment provider | a charge extends the subscription once |
| quotas (`subscriptions/services.py`) | `UsageRecord`, `Plan`, `Entitlement` | assert quota, record usage, start and end of a period | check before, count after | cases are exact; costly work overruns the limit by what runs at once |
| inbound updates (`messaging/views.py`, `messaging/tasks.py`) | `InboundUpdate`, `CaseMessage` | receive, process, retry | commit then publish, redelivery | each update is processed, and its effects happen once |
| conversation (`messaging/handlers.py`, `followups.py`) | `ConversationState`, `FollowUpQuestion` | menus, active case, follow-up answers | tasks read the state, send a message and write it, past the lock a handler holds; a handler reads the case it answers for without a lock | an answer goes to the question that was asked |
| actions and reminders (`cases/actions.py`, `reminders.py`) | `CaseAction`, `CaseReminder` | sync, complete, claim, deliver, snooze | completion during delivery, lost workers | a reminder is sent once, and a due one is sent or withdrawn |
| documents (`documents`) | `GeneratedDocument` | ensure, render, deliver | duplicated tasks, publication inside the `try` | a revision is rendered and counted once, however often it is asked for |
| digests (`cases/digests.py`) | `DigestDelivery` | check, send, record, each period | nothing is written before the message is out | a digest goes out once for its period |
| portal access (`portal/services.py`) | `PortalAccessToken`, `ReviewAccessToken` | create, consume | two links at once, one link submitted twice | a link opens one session; a new link ends the older ones |
| members (`tenants/services.py`) | `TenantMembership` | add, return, leave | counted before they are inserted | the members that were added stay within the limit |

Around them, without logic of their own to check: accounts and roles, rate limiting, the report composer
and the catalogues, OCR and storage, the HTTP providers, evaluation, audit, the Django admin and health
views, templates, scripts and CI. PROJECT.json lists each with the reason it is left out, and every
hazard with its line.

They interact through rows in PostgreSQL and through Celery messages. A message of the bot becomes an
`InboundUpdate`, then a `CaseMessage` with attachments, whose jobs the workers move on. Analysis parks
itself until no job is waiting; the last job resumes it. Its outcome writes the case row that report
generation reads, and approval writes the case row back and has the document rendered. The questions an
extraction leaves open are sent one by one through the chat, whose one row of state says what the next
message means; the last answer requests the next analysis. Reminders write the same row.

## Modules

**CaseWorkflow** has the case row and its services as operators from the old row to the new one
(`RequestAnalysis`, `TransitionCase`, ...) with their guards (`CanArchive`, ...). EvidencePipeline,
ReportReview and Conversation EXTEND it, so that they write the case as the code does. `create_case` is
`NewCase`; nothing in the repository calls `cancel_case`, and no case is created as `DRAFT`.

**EvidencePipeline** is one case with its attachments under the Celery tasks. One action is one
transaction or one publication; `worker[p].pc` says which comes next, so that other workers and users
come between a commit and the publication after it, between the two transactions of a task, and between
the statements of the tail of `extract_case_facts`, which has no transaction.

| actions | code |
|---|---|
| `ReceiveAttachment`, `Analyze`, `WaiveOpenIssues`, `Archive`, `Reopen` | handlers and views, with the services they call |
| `ReceiveAgain` | a rerun of the update (`process_bale_update` does not look at `processed_at`): `_enqueue_attachment_if_present` publishes a fetch that is still PENDING again |
| `BeginAnswer`, `AnswerLastQuestion`, `EndAnswer` | `_handle_follow_up_answer`: its unlocked read of `case.status`, and the rest of its transaction under the locks of question and case, with the last answer or another |
| `RecoverAudio`, `RecoverExtraction` | the two loops of `recover_stuck_processing` |
| `BeginFetch` ... `FailFetch` | `fetch_attachment`; only SUCCEEDED turns a fetch away, so two may run at once, which `overlapped` records |
| `BeginContent` ... `FailContent` | `transcribe_audio`, `extract_document`, `analyze_image` and the two `_resume_case_extraction`, which differ: that of the audio wants a finalizing case and takes failed runs too |
| `BeginExtraction` ... `FailRun` | `extract_case_facts`; `parking`, `refusing`, `starting` are the first transaction between its read and its commit, while it holds the lock of the run |
| `Take`, `Raise`, `RaiseOnPublish`, `Crash` | Celery as `config/settings/base.py` sets it up: late acknowledgement, redelivery when a worker is lost, `autoretry_for` with `max_retries` |

The content of files and transcripts is abstracted to whether evidence is stored, and the facts and
issues of an extraction to whether an open issue is left. `Faults` chooses what may go wrong. A message
that waits for its retry is in the queue like any other: delays are not modelled, and the order of
delivery is arbitrary. A message that exceeds the visibility timeout (an hour, longer than the time
limit of a task) is not delivered again while it is executed. Deleting rows is not modelled.

**ReportReview** is the report of one case under concurrent requests. A transaction has the step that
takes its first row lock and reads, and the step that gets its last lock, writes and commits.
`generate_report_revision` locks the case, then the report; the other services lock the report first and
need the case row when they commit, because the foreign key of what they insert is checked then.
`AbortDeadlock` is PostgreSQL's answer to the cycle. `LoadForEdit` is the view's read of the case before
the transaction of `create_review_revision`. `accepted` holds the section and claim reviews of each
revision and user; a revision records how many decisions its facts were read after. Of the analysis only
its effect on the case row is kept (`StartAnalysis`, `FinishAnalysis`); EvidencePipeline has its parts.
Expert decisions are each on a field of their own: those on one field also exclude each other.

**Payments** is the purchase of subscription periods by one tenant. Each service locks the row of the
`PaymentAttempt` for its whole transaction, so a service is one action; the wallet, the broker and other
requests come between them. `create_and_send_invoice` is two transactions with Bale's answer between
them, and Bale may show the invoice, and ask about it, before the second. The wallet is modelled from
the calls the code makes: it repeats a query until the webhook answers, goes by the first answer it
gets, charges what was answered with ok and reports the charge under the identifier of the query.
Amounts and currencies are taken to be those of the invoice; permissions are not modelled. The row of
the subscription is written by purchases, by the trial and by every page that finds it expired;
administrators who change it by hand are left out.

| actions | code |
|---|---|
| `CreateAttempt`, `SaveInvoice`, `FailInvoice` | `create_and_send_invoice` before and after the call to Bale |
| `Precheckout`, `TakeAnswer` | `validate_precheckout`, and its answer reaching Bale |
| `ReceivePayment` | `bale_webhook`, with the publication that may fail after the commit |
| `ApplyPayment`, `FinishTask`, `FailTask`, `Crash` | `process_successful_payment` inside `process_bale_update` |
| `StartTrial`, `Refresh` | `get_or_create_subscription`, `refresh_subscription_state` |

**BillingLedger** is what this promises: a set of charges, the set of those that have bought their
period, and the end of what was bought. Payments implements it with `charged` as the queries the wallet
has charged and `applied` as the charges of the paid attempts (`Ledger`).

**Conversation** is the chat of one user with the bot, with the cases of that user. `handle_message`
locks the conversation row for its whole transaction, so a message is handled in one action, an answer
excepted: its handler reads `case.status` without a lock (`BeginAnswer`) and waits for the locks of the
question and its case only to write (`AnswerQuestion`); in between, extractions and the portal move the
case while the lock of the conversation keeps its other writers out (`ConvFree`). What happens between
the steps of everything else is in the model: between the webhook's commit and its publication, the
start of a task, its handler's commit, the message sent on that commit, and `processed_at`; between the
unlocked read of an analysis button, what it commits and its save of the conversation; and between the
read, the message and the write of the three tasks that write the conversation row from outside.

| actions | code |
|---|---|
| `Receive`, `Start`, `Finish`, `FailUpdate`, `LoseUpdate` | `bale_webhook`, `process_bale_update` and Celery |
| `LookAround` ... `RecordMessage` | the branches of `handle_message` and `_handle_professional_flow` in their order (`Branch`) |
| `AnswerWithFile`, `BeginAnswer`, `RefuseAnswer`, `AnswerQuestion` | `_handle_follow_up_answer` with `record_follow_up_answer`; `RefuseAnswer` is the exceptions of either and of `transition_case` |
| `ReadConversation`, `ResolveIssues`, `AddEvidence`, `ContinueCurrent`, `GenerateReport`, `SaveConversation` | `handle_analysis_action` |
| `BeginAsk`, `SendQuestion`, `AwaitAnswer` | `send_next_follow_up`, on the commit of an update or as the task the recovery command publishes (`Recover`) |
| `BeginNotify`, `Notify`; `BeginRemind`, `ShowButtons` | `notify_analysis_result`; `deliver_reminder` |
| `BeginRun`, `ApplyResult`, `EndRun`, `FailRun` | `extract_case_facts` as far as it changes questions and the case |
| `PortalAnalyze` ... `PortalReopen` | the pages of the portal that change the same case |

A question is the issue of one field with its `FollowUpQuestion`; its type and its wording are left out,
and which issue is asked first is the order of the numbers. An issue the planner asks nobody about stays
`none`. `LookAround` stands for everything that is answered and changes nothing, the `reminder` message
for both buttons of a reminder. The other branches of `handle_message` read the case row in the action
that uses it: their services lock the row and read it again, and where a message is only recorded for
the case its lifecycle allowed, what it writes does not touch the case, so that archiving a moment
earlier or later gives the same rows. A finished update forgets its text.

**Reminders** is the open work of one case: the actions the system wants (`WantedSystemKeys`), manual
actions and suggestions, the reminder rows, and the digests. Services that lock what they change are one
action each; `Claim`, `Deliver` and `MarkSent` or `MarkFailed` are three, with completion and postponing
between them; so are `ReadForSnooze` and `Snooze`, and the steps of a digest. Time is the hour of the
day and, in each pending row, the hours that are left. The case itself is what `_wanted_system_keys`
reads of it (`view`) and changes at will. `Schedule` is the reminder of a report review.

**Documents** is the document of approved revisions: `EnsureDocument` with its publication, the
rendering task in its steps (`StartRender`, `CommitRender`, `PublishDelivery`, `FailRender`) and the
delivery task (`StartDelivery`, `SendDocument`, `EndDocDelivery`), with the retries, refused
publications and lost workers of both. `EnsureDocument` takes the unlocked read of FAILED and the write
of PENDING for one step: a render that ends in between is followed by the one published here either way.
ReportReview has the approval that asks for the document.

**PortalLinks** is the one-time links of one user. `BeginLink` revokes the live links it can see and
`CommitLink` inserts the row, since two creations may overlap; `ConsumeLink` and `ConsumeReview` are
submissions of the form, which lock the row; membership and time change in between.

**Quotas** is one tenant: its subscription and usage, requests that create cases, costly jobs, and
members. `CheckCase` and `InsertCase`, `CheckMember` and `InsertMember` are the two halves of
transactions that hold the lock of the tenant (`LockFree`); `StartJob` and `FinishJob` hold nothing. One
metric stands for the transcription seconds and the extractions. `Administer` and `RenewPeriod` are the
services nothing in the repository calls, which are there for a shell.

**MCEvidencePipeline**, **MCReportReview** and **MCPayments** add the symmetry sets for TLC.
**MCConversation** and **MCBackOffice** have a variable `scenario` that the first state chooses: it says
where the system starts and what moves in that behaviour, so that one run covers instances that would be
out of reach together. MCBackOffice puts Reminders, Documents, PortalLinks and Quotas side by side in
this way: they share no state, and their product would only multiply the states. The modules named
`...Proofs` hold the proofs.

## Runs

| run | instance | shows |
|---|---|---|
| `pipeline_calm` | 1 voice, 1 document, 1 run, no faults, fairness | `AnalysisEnds`: the analysis waits for the jobs of both kinds and ends; `NotAbandoned`: nothing waits when nothing is queued |
| `pipeline_retries` | 1 voice, 2 runs, 1 retry, every fault but the broker's, 1 lost worker or repeated update | `ContentIsStored`, `SucceededIsFinal`: of an attachment no two fetches of which ran at once |
| `pipeline_operations` | 1 voice, 1 document, 1 run, 1 retry, archive and reopen, 1 refused publication, 1 recovery | `OneExecutorPerRun`, `RunningHasExecutor`, `CollectsDocuments`, `MirrorInv`, types |
| `report_review` | 2 sessions of 2 users, 3 revisions, 2 decisions | `ReportMirrored`, `CurrentIsNewest`, `RevisionsKept`, `ApprovalsStand`, `ApprovedCaseHasReport`, types |
| `report_requests` | 2 sessions, 2 revisions, 1 decision, fairness | `RequestsEnd`: opposite lock orders and refused approvals end |
| `payments` | 2 attempts, 2 plans, 2 queries, 3 moments, 1 retry, every fault | `ChargedOnce`, `PaidIsFinal`, `PaidIsActive`, `LedgerSpec` (BillingLedger is implemented), types |
| `conversation` | 1 user, 2 cases, 3 questions, 3 updates, 1 sending task, 1 retry, 1 lost worker, fairness; five scenarios | `HandledOnce`, `StoredForGood`, `AnswersWhatWasAsked`, `NeverWaitsForNothing`, `UpdateEnds`, types |
| `back_office` | ten scenarios over Reminders, Documents, PortalLinks and Quotas, fairness | reminders: `RepeatsOnlyAfterFailure`, `ManualKeepsReminder`, `PostponedToAllowedHour`, `ReminderIsDecided`, `DigestOnce`; documents: `DocumentCountedOnce`, `DocumentSettles`; links: `OneSessionPerLink`, `NewLinkEndsOlder`; quotas: `CaseQuotaExact`, `OverrunBounded`, `MembersWithinLimit`; types |
| `finding_worker_killed` | 1 run, 1 lost worker | `NotAbandoned` is violated |
| `finding_stale_edit` | 2 sessions, 2 revisions | `ApprovedIsCurrent` is violated |
| `finding_unmarked_decision` | 2 sessions, 1 revision, 1 decision | `ReadyIsFresh` is violated |
| `finding_charge_refused` | 1 attempt, 2 queries, no clock | `ChargeApplied` is violated |

Bounds. Two workers are enough for every race between two tasks, and two sessions for every pair of
overlapping transactions; one attachment of each kind gives both resumes. `MaxRetries` is 5 in the code:
a second retry repeats the first. `MaxOutages` bounds lost workers, refused publications (that of a
fetch included) and the reruns of updates that publish a fetch again, `MaxRecoveries` what the recovery
command publishes, `MaxRuns`, `MaxRevisions` and `MaxDecisions` rows. Three revisions are needed to
edit, generate and edit again, two decisions to have one before and one after a revision. In `payments`,
two attempts and two queries give a second query for one invoice as well as two purchases, of one plan
or of two; a period of 1 and a clock up to 2 let a period run out before, at and after a renewal, and
let two periods add up. In `conversation`, two updates overlap and a third follows them in the flows;
the scenarios are a new user's flows (`flows`), two cases one of which the portal archives and reopens
(`cases`), answers to two questions while an update is lost and the recovery command asks again
(`answers`), a reminder about the other case, with failures (`reminders`; refused answers are in all of
them), and extraction runs of the chat and the portal that raise, resolve and waive (`runs`).
`MaxAttempts` is 1 where the code has 2, so that the answer that waives is reached. In `back_office`,
two tasks render one document, three links allow two overlapping creations after a third, three jobs
meet two workers, and a day has three hours of which one or two, on both sides of midnight, are quiet; a
second reminder row is what postponing needs. `CHECK_DEADLOCK FALSE` is set because a case with nothing
queued and all bounds used up really rests.

Fairness. `WF_vars(WorkerStep(p))`: Celery workers keep taking messages and their tasks have a time
limit, so that a step of a running worker is eventually made; users owe nothing. The liveness run has no
faults, which makes it a statement about the protocol and not about luck with providers.
`SF_vars(Continue(q))`: PostgreSQL grants a row to those who wait for it in order, so a request that is
repeatedly overtaken still gets its lock; beginning a request is not fair.

`WF(Worked(u))` in `conversation` and `WF(RunRender(t))`, `WF(RunDelivery(x))` in `back_office` are the
same assumption about tasks. For reminders, time passes (`Tick`), the handler that postpones goes on, a
delivery is ended (`EndDelivery`), and a pending reminder is claimed in the hours that are not quiet,
which is what the schedule of beat, every five minutes, gives: `SF`, because completion, postponing or
the hours may withdraw it in between.

`RunningHasExecutor`, `ContentIsStored`, `NotAbandoned` and `SucceededIsFinal` are statements about what
their instances allow to fail, and theorems under the same hypotheses (see Proofs). `RunningHasExecutor`
is false when a worker may be lost (`finding_worker_killed` is its consequence). `ContentIsStored` and
`SucceededIsFinal` are about the attachments no two fetches of which ran at once (`overlapped` has the
others, see the counterexamples): a rerun of an update publishes the fetch a second time, and if the
first is over by then the second is turned away or repeats it. `SucceededIsFinal` is checked with
retries and lost workers; it is false with the recovery command, whose second message may make a late
execution fail a job that has succeeded, and with a refused publication, after which `resume` raises and
its handler marks the succeeded job FAILED.

### Findings

- `finding_worker_killed`. `docs/PILOT_FIRE_LOSS.md` expects a killed worker to lose nothing or to leave
  a visible failure. One that is lost after `extract_case_facts` has committed RUNNING leaves the run
  RUNNING: the redelivered message returns at once, and the recovery command looks for PENDING and
  FAILED runs only.
- `finding_stale_edit`. `create_review_revision` checks `case.status` of an instance its view loaded. An
  approval between the two leaves the report APPROVED with a current revision nobody has reviewed.
- `finding_unmarked_decision`. A fact decision that reads the (missing) report before the first
  generation commits, and commits after it, leaves a READY_FOR_REVIEW report built without it.
- `finding_charge_refused`. The bot tells the payer that the subscription is activated or renewed
  automatically once the payment is confirmed. A second pre-checkout query of the invoice that fails a
  check after the first was approved (somebody else in the chat presses pay, or the plan goes off sale)
  marks the attempt REJECTED and overwrites the approved query; the charge of the first is then refused
  as not matching, and the update is marked processed. The identifiers are compared only for a query
  that passes the other checks.

### Known counterexamples that are not runs

Setting the constants of MCEvidencePipeline shows more executions in which `NotAbandoned` fails: `Faults
= {"content"}` or `{"quota"}` or `{"lapse"}` (a failed content job resumes nothing, so the run parked
behind it stays), `Faults = {"fetch"}` (a rejected file ends without a resume), `MaxRuns = 2` without
faults (Analyze starts a second run while the first is waiting: the resume takes only the newest, and
that of a voice message none once the other run has left FINALIZING), `MayArchive = TRUE` with a voice
message (its resume wants a finalizing case), `Faults = {"extract"}` with a document (the retry parks
behind a new job, or the last job ends while the run is FAILED and the resume wants a pending one). An
extraction that begins between the commit that makes a transcription SUCCEEDED and the storing of its
evidence misses the transcript: `CollectsDocuments` is about documents and images for this reason. The
tail of an extraction that began before the case was archived and reopened may leave FINALIZING for a
later analysis. And a tail that read the case before it was archived reopens it: `transition_case`
allows OPEN from ARCHIVED (`MayArchive = TRUE`, in eleven steps), from READY_FOR_REVIEW and APPROVED. A
payment whose update is stored and whose task could not be published is never applied (`task[q].stage =
"unpublished"`): the redelivery finds the row and publishes nothing. Buying another plan starts its
period at once and gives up the rest of the old one, which is why `PaidIsActive` promises a period from
each payment and not the sum.

Two fetches of one attachment: an update that is processed again (its worker was lost after the commit,
or a publication on that commit raised) publishes the fetch a second time while its job is PENDING. With
two workers both download. One may store the file and create the content job while the other fails,
which leaves a FAILED or REJECTED attachment whose content is read (`ContentIsStored` without `\
overlapped` fails in nine states: Receive, ReceiveAgain, two `Take`, two `BeginFetch`, Store, Reject); a
document of this kind is retried until its retries are used up, its job stays PENDING and the analysis
waits for it. Or both store it and find the content job PENDING, and its task is published twice: one
execution completes the job, the other, late, executes or fails it again (`SucceededIsFinal` without `\
overlapped` fails in seventeen).

A late answer: the case waits for information when `_handle_follow_up_answer` reads its status
(`messaging/handlers.py:393`); before it has the lock of its question, "continue" in the portal or the
chat waives the issues and takes the case to OPEN. The question is ANSWERED all the same, and after the
last one the case, which nobody waits for any more, goes to FINALIZING and another run starts: six
states of `Message, Start, BeginAnswer, PortalContinue, AnswerQuestion`. This is why
`AnswersWhatWasAsked` says that the conversation waits and not that the case does. When the case has
been archived or analysed meanwhile, `transition_case` refuses the last answer, the transaction rolls
back and the update is retried (`RefuseAnswer`), as a message for whatever the conversation expects by
then.

In Conversation: the second message of an answer that was split in two answers the next question, and so
does an answer that is redelivered after its handler committed (`AnswersWhatWasAsked` therefore asks for
the question to have been sent, and excepts the evidence of retried updates). The buttons of a reminder
make its case the active one: the answer that follows raises `DoesNotExist` until its retries are used
up, or becomes evidence of that case. `deliver_reminder` writes back the `pending_action` it read
before, and may leave `awaiting_followup` with a question that was answered meanwhile;
`send_next_follow_up` overwrites a flow that was started while its message was on the way, and marks an
answered question ASKED again. An update whose publication is refused is never handled (stage
`refused`). Issues that are waived between the result of a run and the transition of its case
(`intelligence/tasks.py:128`), or the result of a second run for a case that waits already, leave a case
NEEDS_INFORMATION with nothing to ask: `raced` records these two, and without it `NeverWaitsForNothing`
is violated. A command that is sent while a title is awaited becomes the title.

In Reminders: a lost worker leaves its reminder DISPATCHING for good; a report that comes back for
review gets no second review reminder, since the row of its action is there; `mark_reminder_failed`
revives a reminder that was postponed or completed meanwhile; postponing with due reminders switched off
leaves none; manual actions of an archived case are still reminded of; a digest that falls into quiet
hours is skipped for its period. In Documents: a document whose delivery could not be published is
READY, then FAILED, then rendered again; a delivery that runs while the document is FAILED is skipped in
silence; a worker lost after the commit of READY sends nothing; a refused rendering task leaves PENDING.
In PortalLinks: two links requested at once are both valid, review links are never revoked, and a
retried task leaves another one. In Quotas: a payment for the running plan extends the period without
resetting what it has used; after the end of a period its cases are no longer counted; inactive members
who return are not checked.

They follow from the code as it is; no document of the repository says otherwise, so they are recorded
here and under "hazards".

## Proofs

For every value of the constants, under the one named ASSUME of each module.

**EvidencePipelineProofs.** `TypeCorrect` is inductive. `MirrorCorrect`: every service writes both
encodings, and a transition is only made when it is allowed from the status the row has at that step,
which is why the stale read of the tail does no harm (`TransitionOK`). `OneExecutorCorrect` needs
`OwnerInv`: whoever is between the read and the commit of the first transaction holds the lock alone, a
run found RUNNING or COMPLETED is not started again, and whoever is past it left the run RUNNING or, in
the tail, COMPLETED; so a second message finds a status that turns it away until the executor fails or
ends. `CollectsDocumentsCorrect` needs `EvidenceInv`: a worker that is about to complete the job of a
document has stored its evidence, which is never removed. Four theorems exclude faults, each one that
TLC shows the property to be false with.
- `RunningHasExecutorCorrect` excludes lost workers.
- `ContentIsStoredCorrect` excludes refused publications, and the attachments two fetches of which ran
  at once. `FetchInv` says that the fetches of the others are downloading one at a time, however many
  are queued, retried or redelivered; `PlaceInv` that the job that reads a file is there when something
  of it is queued or executed, and not while the file is downloaded.
- `SucceededIsFinalCorrect` excludes refused publications and the recovery command, and allows every
  other fault. Under the same exception for overlapping fetches, `ContentInv` says by `OneTask` that the
  task that reads the file is in one place, the queue or a worker; nothing of it exists before the fetch
  has published it, and who reads the file or is about to complete finds the job RUNNING. So no second
  execution is left that could fail a job that has succeeded.
- `NotAbandonedCorrect` is about `Calm`: one run, no archiving, and no fault but that of the extraction
  itself, that one without documents. Whenever every worker is idle and the queue is empty, no analysis
  waits. `CalmInv` names what goes on with each thing that waits: a waiting or running job has a task
  (`JobsLive`), a run that is pending or about to park has its own message, a job that will resume it or
  a worker that does so (`RunLive`), only runs that were created are executed (`KnownInv`), a case stays
  FINALIZING until the tail of its run moves it, so that the resume finds it so (`StatusInv`), and an
  analysis is under way only while its run or that tail is (`AnalysisInv`). The recovery command may run
  at any time. Nothing is lost or refused, so each attachment has one fetch (`SoleFetch`). The
  counterexamples below are why `Calm` asks for this much.

**ReportReviewProofs.** `IInv` is the conjunction of the types, of `LockInv` (one transaction holds each
row), of `ReadInv` (what a transaction has read of the report is still true when it commits, which is
what the lock is for), and of `RowInv` (the rows: numbers without gaps; an approved revision is never
again the current one of a report that is ready for review, so that its reviews can no longer be
written). `Inductive` proves it; `TypeCorrect`, `ReportMirroredCorrect`, `ApprovalsStandCorrect`,
`ApprovedCaseCorrect`, `CurrentIsNewestCorrect` and `RevisionsKeptCorrect` follow from it.
`NobodyIsStuckCorrect` is the part of `RequestsEnd` that needs no fairness: whatever requests are in
progress, one finds the guard of a step of `Continue` true (`MayContinue`; TLC finds it equivalent to
ENABLED on the instance of `report_requests`). Only the two rows are waited for, so whoever holds one
can commit or waits for whoever holds the other, and PostgreSQL ends that. `BoundInv` shows that the
bounds on revisions and decisions never stop a request that has begun.

**PaymentsProofs.** `IInv` has the types, `SendingInv` (an attempt whose invoice is being sent is still
CREATED, so that saving the invoice overwrites nothing), `OrderInv` (only charged queries have a task),
`ApprovedInv` (a query that has gone through is the one its attempt names until the attempt is rejected
or paid), `PaidInv` (a paid attempt names a charge of its own) and `CoverInv` (the subscription covers a
period after every payment). `Writers` says which transactions write what, `RowMoves` how a row moves
and `GoneMoves` when a query goes through; the invariants follow from these without the actions.
`ChargedOnceCorrect` is the argument the code relies on: the row is locked, and what is approved already
is compared. `ImplementsLedger` maps `ApplyPayment` to one `Apply` of a charge that, by `PaidInv`, no
attempt has applied.

**RemindersProofs.** `IInv` relates a reminder row to its delivery and to the history of what was sent
(`RowInv`: a row that is queued belongs to no worker and was sent at most as often as it failed), to the
chat (`ChatInv`) and to the actions that exist; a digest that is about to be sent has been sent at most
as often as workers were lost (`DigestOK`). `Modulo` and the lemmas after it are the arithmetic of quiet
hours across midnight, which `RemindersArePostponedToAllowedHours` rests on.

**BackOfficeProofs.** `IncludesReminders`, `IncludesDocuments`, `IncludesPortalLinks` and
`IncludesQuotas`: every behaviour of MCBackOffice is one of each component, whichever scenario its first
state chose, so that what is proved of a component holds of the composition; `BackOfficeTypes` joins
them. The proofs about the portal are here as well. `OlderInv`: the links a new one has to end were
committed before it was begun.

**DocumentsProofs, QuotasProofs.** `TaskInv`: a rendering past its commit finds its document stored and
counted. `NoDocumentIsForgotten` is what `DocumentSettles` rests on: whoever wrote the row last is still
under way, unless the document is READY, and a task that is given up or refused is seen. `AloneInv` (who
has checked holds the tenant alone), `PeakInv` (no limit in force exceeds the largest of its period),
`CaseInv`, `JobInv` (what runs was started while a unit was free) and `MemberInv`; counting the running
jobs and the members uses the facts about finite sets.

**ConversationProofs.** `HandleInv` counts the tries of an update: one whose current try has not handled
the message leaves room for doing so; `Moves` is what any step may do to the row of an update, and
`NextMoves` shows that every step does no more. `FreshInv`: what is stored before a try has handled the
message is of an older try, which is why a first answer becomes evidence of the case it is about.
`ChatInv` and `TaskInv`: the conversation and the tasks that are about to write it only wait for
questions that were sent. `LockInv`: one message at a time is between the read of its case and its
answer, and the conversation stays as that message found it, so that the answer is to the question that
was sent and not to one a task has put there since. `CaseInv`: both encodings of a case agree on whether
it is archived or cancelled, so a case that waits for information takes evidence; `RunInv`: a run is of
a case. `NeverWaitsForNothing` needs `AskInv`: the case that waits for information, and the run that is
about to make it wait, have something that can still be asked, and there is one such run; `CancelInv`
says that only a question whose issue is no longer open is cancelled, which is why what could be asked
stays so. The theorems are about `SpecConversation`, which starts with a new user, and about the
specification of MCConversation that TLC runs: `ScenarioInv` shows the invariants where its scenarios
start, and `ScenarioStep` that what moves in them is a step of the conversation.

Only model-checked: `AnalysisEnds`, `RequestsEnd`, `ReminderIsDecided`, `DocumentSettles` and
`UpdateEnds`, because liveness under fairness is out of the prover's reach. Every other property of a
passing run is the property of a theorem.

## Plan

Done: CaseWorkflow, EvidencePipeline, ReportReview, Payments, Conversation, Reminders, Documents,
PortalLinks and Quotas, each with its proofs. What could follow: an abstract specification of an
analysis that EvidencePipeline implements, and what `AnalysisEnds` and `ReminderIsDecided` rest on (what
is due has a task that will do it) as theorems where the faults are not excluded.

## Not modelled

Rate limiting and the middleware only drop requests before any state changes. The report composer, the
fact ledger, the catalogues, the presentation and the templates are pure functions from rows to text.
OCR, vision, transcription, the model's extraction and the chat's HTTP client are input and output:
their failures are the faults of the models. The evaluation of golden cases, the audit log (which no
decision reads), the Django admin, health views, scripts, images and CI have no behaviour that others
depend on. Of what is modelled, the following is left out: deleted rows, the delays of retries and of
the visibility timeout, amounts and currencies of payments, roles and permissions, the text of messages,
the fields of a fact, the ranking of questions, and the names and profile fields a user may change.
PROJECT.json says so per component.
