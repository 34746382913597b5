------------------------------ MODULE Conversation ------------------------------
(***************************************************************************)
(* The chat of one user with the bot: the webhook and the task of an       *)
(* update (src/apps/messaging/views.py, tasks.py), the handlers of a       *)
(* message (messaging/handlers.py), the analysis buttons                   *)
(* (intelligence/actions.py), the follow-up questions                      *)
(* (intelligence/followups.py) and the tasks that write the conversation   *)
(* from outside: the next question, the result of an analysis, a reminder. *)
(*                                                                         *)
(* handle_message locks the conversation row for its whole transaction, and*)
(* a message is handled in one step, but for the answer to a question: it  *)
(* reads the case without a lock and waits for the locks of the question   *)
(* and the case.  Nobody else locks the conversation before reading it: the*)
(* analysis buttons read it and act later, and the other tasks read it,    *)
(* send over the network and write it, which waits for its lock.  Those    *)
(* are several steps.                                                      *)
(*                                                                         *)
(* Of an extraction run the model has what the questions depend on: its    *)
(* result is applied in one transaction and the case is moved in a later   *)
(* one.  EvidencePipeline has the rest of it.                              *)
(***************************************************************************)
EXTENDS Integers, FiniteSets, CaseWorkflow

CONSTANTS
  Cases,          \* cases the user has or may create
  Questions,      \* fields an issue may be raised for, in their sequence
  Owner,          \* [Questions -> the case of the issue and of its question]
  MaxAttempts,    \* MAX_FOLLOW_UP_ATTEMPTS
  Updates,        \* updates the bot may be sent
  Messages,       \* what they may say
  Senders,        \* bound: tasks that write the conversation at one time
  ChatRuns,       \* bound: extraction runs the chat may start
  PortalRuns,     \* bound: extraction runs the portal may start
  MaxRetries,     \* max_retries of process_bale_update
  MaxLosses,      \* bound: lost workers of one update
  Faults          \* what may go wrong, a subset of {"broker", "error", "crash"}

NoCase == "no case"
NoQuestion == 0
NotStored == "not stored"
Unassigned == "unassigned"

Labels == {"start", "menu", "reminder", "profile", "profession", "specialty", "type", "newcase",
           "cases", "look", "analyze", "archive", "approve", "resolve", "add", "continue",
           "generate", "unavailable", "waive", "text", "file"}

(* What a message says.  "start" stands for every message that is answered *)
(* and changes nothing, "look" for those that do so outside the flows;     *)
(* "reminder" for both buttons of a reminder, "pick" and "open" for the    *)
(* button and the code of a case; "text" for any other text.               *)
Message == [kind : Labels, case : {NoCase}] \cup [kind : {"pick", "open"}, case : Cases]
NoMessage == [kind |-> "none", case |-> NoCase]

AnalysisLabels == {"resolve", "add", "continue", "generate"}

ASSUME ConversationAssumption ==
  /\ Questions \subseteq Nat \ {NoQuestion} /\ Owner \in [Questions -> Cases]
  /\ MaxAttempts \in Nat /\ MaxRetries \in Nat /\ MaxLosses \in Nat
  /\ Messages \subseteq Message
  /\ Faults \subseteq {"broker", "error", "crash"}
  /\ {NoCase, NotStored, Unassigned} \cap Cases = {}
  /\ Updates \cap Senders = {} /\ ChatRuns \cap PortalRuns = {}
  /\ ChatRuns \cup PortalRuns \subseteq Nat
  /\ IsFiniteSet(Updates)

VARIABLES
  case,       \* [Cases -> Case row]
  known,      \* cases that exist
  typed,      \* cases with a case type
  profile,    \* what the user has chosen: nothing, a profession, a specialty too
  question,   \* [Questions -> CaseFieldIssue row and its FollowUpQuestion row]
  conv,       \* the ConversationState row
  update,     \* [Updates -> InboundUpdate row and the task that processes it]
  stored,     \* [Updates -> the case of its CaseMessage row]
  task,       \* [Updates \cup Senders -> a write of the conversation under way]
  run,        \* [ChatRuns \cup PortalRuns -> extraction run]
  asked,      \* history: questions that were sent to the user
  raced       \* history: cases whose issues changed between a result and its case

convVars == <<case, known, typed, profile, question, conv, update, stored, task, run, asked, raced>>
rows == <<case, known, typed, profile, question>>

Runs == ChatRuns \cup PortalRuns
Choosing == {"choosing_profession", "choosing_specialty", "choosing_case_type"}
Choices == {"profession", "specialty", "type"}

Question == [issue : {"none", "open", "resolved", "unavailable", "waived"},
             status : {"none", "pending", "asked", "answered", "cancelled"},
             attempts : 0 .. MaxAttempts]
NoIssue == [issue |-> "none", status |-> "none", attempts |-> 0]

(* pending_action: the question that is waited for, the case of the action *)
(* of a reminder, and the keyboards whose buttons are understood.          *)
Pending == [question : Questions \cup {NoQuestion}, reminder : Cases \cup {NoCase},
            buttons : SUBSET Choices, shown : SUBSET Cases]
Empty == [question |-> NoQuestion, reminder |-> NoCase, buttons |-> {}, shown |-> {}]

ConversationState ==
  [state : Choosing \cup {"idle", "choosing_case", "awaiting_case_title", "awaiting_followup"},
   active : Cases \cup {NoCase}, pending : Pending]

Update == [text : Messages \cup {NoMessage}, on : Cases \cup {NoCase},
           stage : {"none", "refused", "queued", "started", "answering", "acting", "saving",
                    "asking", "handled", "done", "gave up"},
           retries : 0 .. MaxRetries, losses : 0 .. MaxLosses, handled : Nat]
NoUpdate == [text |-> NoMessage, on |-> NoCase, stage |-> "none", retries |-> 0, losses |-> 0,
             handled |-> 0]

Task == [kind : {"none", "ask", "notify", "remind"}, step : {"none", "ready", "read", "sent"},
         case : Cases \cup {NoCase}, question : Questions \cup {NoQuestion}, pending : Pending]
NoTask == [kind |-> "none", step |-> "none", case |-> NoCase, question |-> NoQuestion,
           pending |-> Empty]

Run == [case : Cases \cup {NoCase}, finalizing : BOOLEAN,
        stage : {"none", "queued", "running", "found", "clear", "ended"}]
NoRun == [case |-> NoCase, finalizing |-> FALSE, stage |-> "none"]

(* Nothing has been sent yet, to a user with these cases and questions.    *)
InitChat(cases, questions, chat) ==
  /\ case = cases /\ question = questions /\ conv = chat
  /\ update = [u \in Updates |-> NoUpdate]
  /\ stored = [u \in Updates |-> NotStored]
  /\ task = [p \in Updates \cup Senders |-> NoTask]
  /\ run = [r \in Runs |-> NoRun]
  /\ raced = {}

----------------------------------------------------------------------------
(* Helpers                                                                 *)

IsOpen(q) == question[q].issue = "open"
IssuesOf(c) == {q \in Questions : Owner[q] = c}
OpenOf(c, qs) == {q \in IssuesOf(c) : qs[q].issue = "open"}

(* The questions next_pending_question chooses the first of.               *)
Askable(c, qs) == {q \in OpenOf(c, qs) : qs[q].status \in {"pending", "asked"}}
First(s) == CHOOSE q \in s : \A other \in s : q <= other

(* Mutant: the question of an issue that is open again stays answered.     *)
Ensured_StaysAnswered(qs, c) ==
  [q \in Questions |->
    IF q \in OpenOf(c, qs) /\ qs[q].status = "none"
    THEN [qs[q] EXCEPT !.status = "pending"] ELSE qs[q]]

(* ensure_follow_up_questions.  An issue whose question the planner drops  *)
(* was raised by the same run, see ApplyResult.                            *)
Ensured(qs, c) ==
  [q \in Questions |->
    IF q \in OpenOf(c, qs) /\ qs[q].status \in {"none", "answered"}
    THEN [qs[q] EXCEPT !.status = "pending"] ELSE qs[q]]

(* waive_open_issues, for the issues and for the case.                     *)
Waived(qs, c) ==
  [q \in Questions |-> IF q \in OpenOf(c, qs) THEN [qs[q] EXCEPT !.issue = "waived"] ELSE qs[q]]
WaivedCase(c) ==
  [c EXCEPT !.analysis = "COMPLETED",
            !.status = IF @ = "NEEDS_INFORMATION" THEN "OPEN" ELSE @]

(* The issues of the case change while a run that found some has not moved *)
(* it yet.                                                                 *)
Races(c) ==
  raced' = raced \cup {d \in {c} : \E r \in Runs : run[r].case = d /\ run[r].stage = "found"}

WaiveIssues(c) ==
  /\ question' = Waived(question, c)
  /\ case' = IF OpenOf(c, question) = {} THEN case ELSE [case EXCEPT ![c] = WaivedCase(@)]
  /\ Races(c)

(* start_extraction, for a case whose row is row by then.                  *)
StartRun(c, row, of) ==
  /\ \E r \in of :
       /\ run[r].stage = "none" /\ \A s \in of : s < r => run[s].stage # "none"
       /\ run' = [run EXCEPT ![r] = [NoRun EXCEPT !.case = c, !.stage = "queued"]]
  /\ case' = [case EXCEPT ![c] = [row EXCEPT !.analysis = "QUEUED"]]

Idle(active) == [state |-> "idle", active |-> active, pending |-> Empty]

(* _start_profession_flow, _start_specialty_flow and                       *)
(* _start_case_type_flow: the other entries of pending_action stay.        *)
Flow(chat, state, choice) ==
  [chat EXCEPT !.state = state, !.pending.buttons = @ \cup {choice}]

NextFlow(chat) ==
  CASE profile = "none"       -> Flow(chat, "choosing_profession", "profession")
    [] profile = "profession" -> Flow(chat, "choosing_specialty", "specialty")
    [] OTHER                  -> Flow(chat, "choosing_case_type", "type")

(* The conversation row is not locked: no message is between the read of   *)
(* its case and the record of its answer.                                  *)
ConvFree == \A u \in Updates : update[u].stage # "answering"

----------------------------------------------------------------------------
(* The webhook and the task of an update                                   *)

(* Mutant: the second delivery of an update publishes its task again.      *)
Repeat_Publishes(u) ==
  /\ update[u].stage = "done"
  /\ update' = [update EXCEPT ![u].stage = "queued"]

(* An update the webhook has a row of: get_or_create finds it.             *)
Repeat(u) == update[u].stage # "none" /\ UNCHANGED update

(* bale_webhook: the row is committed before its task is published, which  *)
(* the broker may refuse.                                                  *)
Receive(u) ==
  /\ \/ /\ update[u].stage = "none"
        /\ \E m \in Messages : \E s \in {"queued"} \cup {x \in {"refused"} : "broker" \in Faults} :
             update' = [update EXCEPT ![u].text = m, ![u].stage = s]
     \/ Repeat(u)
  /\ UNCHANGED <<rows, conv, stored, task, run, asked, raced>>

Start(u) ==
  /\ update[u].stage = "queued"
  /\ update' = [update EXCEPT ![u].stage = "started"]
  /\ UNCHANGED <<rows, conv, stored, task, run, asked, raced>>

(* The handler of the message has committed what it did.                   *)
HandledAt(u, stage) ==
  update' = [update EXCEPT ![u].stage = stage, ![u].on = NoCase, ![u].handled = @ + 1]

Handled(u) == HandledAt(u, "handled") /\ UNCHANGED task

(* The same, and send_next_follow_up runs on the commit.                   *)
HandledAndAsks(u, c) ==
  /\ HandledAt(u, "asking")
  /\ task' = [task EXCEPT ![u] = [NoTask EXCEPT !.kind = "ask", !.step = "ready", !.case = c]]

(* processed_at is saved.  Nothing reads the payload again, the model      *)
(* forgets it.                                                             *)
Finish(u) ==
  /\ update[u].stage = "handled"
  /\ update' = [update EXCEPT ![u].stage = "done", ![u].text = NoMessage]
  /\ UNCHANGED <<rows, conv, stored, task, run, asked, raced>>

(* Mutant: a retry is not counted.                                         *)
Raised_Uncounted(x) == [x EXCEPT !.stage = "queued", !.on = NoCase]

(* The task raises: it is tried again while retries are left.              *)
Raised(x) ==
  IF x.retries < MaxRetries
  THEN [x EXCEPT !.stage = "queued", !.on = NoCase, !.retries = @ + 1]
  ELSE [x EXCEPT !.stage = "gave up", !.on = NoCase, !.text = NoMessage]

RaiseUpdate(u) ==
  /\ update' = [update EXCEPT ![u] = Raised(@)]
  /\ task' = [task EXCEPT ![u] = NoTask]
  /\ UNCHANGED <<rows, conv, stored, run, asked, raced>>

(* A worker is executing the task of the update.                           *)
Working == {"started", "answering", "acting", "saving", "asking", "handled"}

FailUpdate(u) ==
  /\ "error" \in Faults
  /\ update[u].stage \in Working
  /\ RaiseUpdate(u)

(* The worker is lost; the broker delivers the task again.                 *)
LoseUpdate(u) ==
  /\ "crash" \in Faults
  /\ update[u].stage \in Working
  /\ update[u].losses < MaxLosses
  /\ update' = [update EXCEPT ![u].stage = "queued", ![u].on = NoCase, ![u].losses = @ + 1]
  /\ task' = [task EXCEPT ![u] = NoTask]
  /\ UNCHANGED <<rows, conv, stored, run, asked, raced>>

----------------------------------------------------------------------------
(* The analysis buttons: handle_analysis_action                            *)

(* The conversation is read without a lock; without an active case the     *)
(* message goes to handle_message.                                         *)
ReadConversation(u) ==
  /\ update[u].stage = "started"
  /\ update[u].text.kind \in AnalysisLabels
  /\ conv.active # NoCase
  /\ update' = [update EXCEPT ![u].stage = "acting", ![u].on = conv.active]
  /\ UNCHANGED <<rows, conv, stored, task, run, asked, raced>>

Acts(u, label) == update[u].stage = "acting" /\ update[u].text.kind = label

ResolveIssues(u) ==
  LET c == update[u].on IN
  /\ Acts(u, "resolve")
  /\ question' = Ensured(question, c)
  /\ IF OpenOf(c, question) = {} THEN Handled(u) ELSE HandledAndAsks(u, c)
  /\ UNCHANGED <<case, known, typed, profile, conv, stored, run, asked, raced>>

AddEvidence(u) ==
  /\ Acts(u, "add") /\ ConvFree
  /\ conv' = Idle(conv.active)
  /\ Handled(u)
  /\ UNCHANGED <<rows, stored, run, asked, raced>>

(* What the button asked for is committed; the conversation is saved next. *)
Commits(u) ==
  /\ update' = [update EXCEPT ![u].stage = "saving", ![u].handled = @ + 1]
  /\ UNCHANGED task

ContinueCurrent(u) ==
  /\ Acts(u, "continue")
  /\ WaiveIssues(update[u].on)
  /\ Commits(u)
  /\ UNCHANGED <<known, typed, profile, conv, stored, run, asked>>

(* generate_report_revision raises ValueError unless the case is active,   *)
(* analysed and without open issues.                                       *)
CanGenerate(c) ==
  /\ case[c].lifecycle = "ACTIVE"
  /\ case[c].analysis \in {"COMPLETED", "NEEDS_REVIEW"}
  /\ OpenOf(c, question) = {}

GenerateReport(u) ==
  LET c == update[u].on IN
  /\ Acts(u, "generate")
  /\ \/ /\ CanGenerate(c)
        /\ case' = [case EXCEPT ![c].status = "READY_FOR_REVIEW", ![c].report = "READY_FOR_REVIEW"]
        /\ Commits(u)
     \/ ~CanGenerate(c) /\ Handled(u) /\ UNCHANGED case
  /\ UNCHANGED <<known, typed, profile, question, conv, stored, run, asked, raced>>

SaveConversation(u) ==
  /\ update[u].stage = "saving" /\ ConvFree
  /\ conv' = Idle(IF update[u].text.kind = "generate" THEN update[u].on ELSE conv.active)
  /\ update' = [update EXCEPT ![u].stage = "handled", ![u].on = NoCase]
  /\ UNCHANGED <<rows, stored, task, run, asked, raced>>

----------------------------------------------------------------------------
(* handle_message                                                          *)

(* The first handler that takes the message.                               *)
Branch(m) ==
  IF m.kind \in {"start", "menu"} THEN m.kind
  ELSE IF m.kind = "reminder" /\ conv.pending.reminder # NoCase THEN "reminder"
  ELSE IF conv.state \in Choosing \cup {"choosing_case"} THEN conv.state
  ELSE IF m.kind \in {"profile", "newcase"} THEN m.kind
  ELSE IF conv.state = "awaiting_case_title" /\ m.kind # "file" THEN "title"
  ELSE IF m.kind \in {"cases", "look", "analyze", "archive", "approve", "open"} THEN m.kind
  ELSE IF /\ conv.state = "awaiting_followup" /\ conv.active # NoCase
          /\ case[conv.active].status = "NEEDS_INFORMATION" THEN "answer"
  ELSE "record"

Takes(u, branch) ==
  /\ update[u].stage = "started" /\ ConvFree
  /\ update[u].text.kind \in AnalysisLabels => conv.active = NoCase
  /\ Branch(update[u].text) = branch

(* Messages that are answered and change nothing; the work items they list *)
(* are in Reminders.                                                       *)
LookAround(u) ==
  /\ Takes(u, "start") \/ Takes(u, "look")
  /\ Handled(u)
  /\ UNCHANGED <<rows, conv, stored, run, asked, raced>>

GoToMenu(u) ==
  /\ Takes(u, "menu")
  /\ conv' = Idle(NoCase)
  /\ Handled(u)
  /\ UNCHANGED <<rows, stored, run, asked, raced>>

(* _handle_reminder_action: what it does to the action is in Reminders.    *)
(* The case of the action becomes the active one; an action that is not    *)
(* found only loses its buttons.                                           *)
ReminderAction(u) ==
  /\ Takes(u, "reminder")
  /\ \E active \in {conv.active, conv.pending.reminder} :
       conv' = [conv EXCEPT !.active = active, !.pending.reminder = NoCase]
  /\ Handled(u)
  /\ UNCHANGED <<rows, stored, run, asked, raced>>

StartProfile(u) ==
  /\ Takes(u, "profile")
  /\ conv' = Flow(conv, "choosing_profession", "profession")
  /\ Handled(u)
  /\ UNCHANGED <<rows, stored, run, asked, raced>>

(* A button of the keyboard that was shown.                                *)
Presses(u, choice) == update[u].text.kind = choice /\ choice \in conv.pending.buttons

(* _handle_professional_flow, one action for each state.                   *)
ChooseProfession(u) ==
  /\ Takes(u, "choosing_profession")
  /\ IF Presses(u, "profession")
     THEN /\ profile' = "profession"
          /\ conv' = Flow(conv, "choosing_specialty", "specialty")
     ELSE UNCHANGED <<profile, conv>>
  /\ Handled(u)
  /\ UNCHANGED <<case, known, typed, question, stored, run, asked, raced>>

ChooseSpecialty(u) ==
  /\ Takes(u, "choosing_specialty")
  /\ IF Presses(u, "specialty")
     THEN /\ profile' = "complete"
          /\ conv' = IF conv.active = NoCase THEN Idle(NoCase)
                     ELSE Flow(conv, "choosing_case_type", "type")
     ELSE UNCHANGED <<profile, conv>>
  /\ Handled(u)
  /\ UNCHANGED <<case, known, typed, question, stored, run, asked, raced>>

ChooseCaseType(u) ==
  /\ Takes(u, "choosing_case_type")
  /\ IF Presses(u, "type") /\ conv.active # NoCase
     THEN typed' = typed \cup {conv.active} /\ conv' = Idle(conv.active)
     ELSE UNCHANGED <<typed, conv>>
  /\ Handled(u)
  /\ UNCHANGED <<case, known, profile, question, stored, run, asked, raced>>

NewCaseFlow(u) ==
  /\ Takes(u, "newcase")
  /\ conv' = [conv EXCEPT !.state = "awaiting_case_title", !.pending = Empty]
  /\ Handled(u)
  /\ UNCHANGED <<rows, stored, run, asked, raced>>

(* create_case, unless the subscription or its quota refuses: then the     *)
(* update is finished and nothing has changed.                             *)
TitleCase(u) ==
  /\ Takes(u, "title")
  /\ \/ \E c \in Cases \ known :
          /\ known' = known \cup {c}
          /\ case' = [case EXCEPT ![c] = NewCase]
          /\ conv' = NextFlow([conv EXCEPT !.active = c, !.pending = Empty])
          /\ Handled(u)
     \/ HandledAt(u, "done") /\ UNCHANGED <<known, case, conv, task>>
  /\ UNCHANGED <<typed, profile, question, stored, run, asked, raced>>

ActiveCases == {c \in known : case[c].lifecycle = "ACTIVE"}

ShowCases(u) ==
  /\ Takes(u, "cases")
  /\ conv' = IF ActiveCases = {} THEN Idle(conv.active)
             ELSE [conv EXCEPT !.state = "choosing_case",
                               !.pending = [Empty EXCEPT !.shown = ActiveCases]]
  /\ Handled(u)
  /\ UNCHANGED <<rows, stored, run, asked, raced>>

(* _handle_case_choice *)
ChooseCase(u) ==
  LET m == update[u].text IN
  /\ Takes(u, "choosing_case")
  /\ conv' = IF m.kind # "pick" \/ m.case \notin conv.pending.shown THEN conv
             ELSE Idle(IF m.case \in ActiveCases THEN m.case ELSE conv.active)
  /\ Handled(u)
  /\ UNCHANGED <<rows, stored, run, asked, raced>>

OpenCase(u) ==
  LET c == update[u].text.case IN
  /\ Takes(u, "open")
  /\ conv' = IF c \in ActiveCases THEN Idle(c) ELSE conv
  /\ Handled(u)
  /\ UNCHANGED <<rows, stored, run, asked, raced>>

(* The analyze button: the profile and the case type come first.           *)
AnalyzeCase(u) ==
  LET c == conv.active IN
  /\ Takes(u, "analyze")
  /\ \/ /\ c = NoCase
        /\ UNCHANGED <<case, conv, run>>
     \/ /\ c # NoCase /\ (profile # "complete" \/ c \notin typed)
        /\ conv' = NextFlow(conv)
        /\ UNCHANGED <<case, run>>
     \/ /\ c # NoCase /\ profile = "complete" /\ c \in typed
        /\ IF CanRequestAnalysis(case[c]) THEN StartRun(c, RequestAnalysis(case[c]), ChatRuns)
           ELSE UNCHANGED <<case, run>>
        /\ UNCHANGED conv
  /\ Handled(u)
  /\ UNCHANGED <<known, typed, profile, question, stored, asked, raced>>

ArchiveActive(u) ==
  /\ Takes(u, "archive")
  /\ IF conv.active = NoCase THEN UNCHANGED <<case, conv>>
     ELSE /\ CanArchive(case[conv.active])
          /\ case' = [case EXCEPT ![conv.active] = ArchiveCase(@)]
          /\ conv' = Idle(NoCase)
  /\ Handled(u)
  /\ UNCHANGED <<known, typed, profile, question, stored, run, asked, raced>>

(* Whether the report may be approved is decided in ReportReview.          *)
ApproveActive(u) ==
  /\ Takes(u, "approve")
  /\ \/ /\ conv.active # NoCase /\ case[conv.active].status = "READY_FOR_REVIEW"
        /\ case' = [case EXCEPT ![conv.active] = ApproveCase(@)]
     \/ UNCHANGED case
  /\ Handled(u)
  /\ UNCHANGED <<known, typed, profile, question, conv, stored, run, asked, raced>>

(* Mutant: the message of a redelivered update moves to the case of now.   *)
Kept_Moves(u, c) == c

(* get_or_create of the CaseMessage row: what was stored first stays.      *)
Kept(u, c) == IF stored[u] = NotStored THEN c ELSE stored[u]

(* Anything else is evidence of the active case.  A conversation that was  *)
(* waiting for an answer its case no longer needs stops waiting.           *)
RecordMessage(u) ==
  LET c == IF conv.active # NoCase /\ case[conv.active].lifecycle = "ACTIVE"
           THEN conv.active ELSE Unassigned IN
  /\ Takes(u, "record")
  /\ stored' = [stored EXCEPT ![u] = Kept(u, c)]
  /\ conv' = IF conv.state = "awaiting_followup" /\ conv.active # NoCase
             THEN Idle(conv.active) ELSE conv
  /\ Handled(u)
  /\ UNCHANGED <<rows, run, asked, raced>>

----------------------------------------------------------------------------
(* The answer to a follow-up question                                      *)

(* Mutant: the question is looked up without its case.                     *)
Answerable_Anywhere(q, c) == q \in Questions

(* record_follow_up_answer gets the question by its id and the active      *)
(* case, whatever has become of its issue.                                 *)
Answerable(q, c) == q \in Questions /\ Owner[q] = c

IsLabel(m) == m.kind \in {"unavailable", "waive"}

(* Mutant: the attempts are compared one too late.                         *)
Answered_OneMore(x, m) ==
  CASE m.kind = "unavailable" -> [x EXCEPT !.issue = "unavailable", !.status = "cancelled"]
    [] m.kind = "waive"       -> [x EXCEPT !.issue = "waived", !.status = "cancelled"]
    [] OTHER -> IF x.attempts > MaxAttempts
                THEN [x EXCEPT !.status = "answered", !.issue = "waived"]
                ELSE [x EXCEPT !.status = "answered", !.attempts = @ + 1]

Answered(x, m) ==
  CASE m.kind = "unavailable" -> [x EXCEPT !.issue = "unavailable", !.status = "cancelled"]
    [] m.kind = "waive"       -> [x EXCEPT !.issue = "waived", !.status = "cancelled"]
    [] OTHER -> IF x.attempts >= MaxAttempts
                THEN [x EXCEPT !.status = "answered", !.issue = "waived"]
                ELSE [x EXCEPT !.status = "answered", !.attempts = @ + 1]

(* _handle_follow_up_answer: the case waits for information when its       *)
(* status is read; only text can answer.                                   *)
AnswerWithFile(u) ==
  /\ Takes(u, "answer")
  /\ update[u].text.kind = "file"
  /\ Handled(u)
  /\ UNCHANGED <<rows, conv, stored, run, asked, raced>>

BeginAnswer(u) ==
  /\ Takes(u, "answer")
  /\ update[u].text.kind # "file"
  /\ update' = [update EXCEPT ![u].stage = "answering"]
  /\ UNCHANGED <<rows, conv, stored, task, run, asked, raced>>

AnswerTo(q, m) == [question EXCEPT ![q] = Answered(@, m)]

(* The handler raises DoesNotExist, ValueError for an answer whose message *)
(* was stored without a case before, or CaseTransitionError for the last   *)
(* one when the case has left the statuses that may be finalized.          *)
AnswerRaises(q, c, u) ==
  \/ ~Answerable(q, c)
  \/ ~IsLabel(update[u].text) /\ stored[u] = Unassigned
  \/ Askable(c, AnswerTo(q, update[u].text)) = {} /\ ~CanTransition(case[c], "FINALIZING")

RefuseAnswer(u) ==
  /\ update[u].stage = "answering"
  /\ AnswerRaises(conv.pending.question, conv.active, u)
  /\ RaiseUpdate(u)

(* record_follow_up_answer has the locks of the question, its issue and its*)
(* case, and nobody asks again whether the case waits.  After the answer   *)
(* comes the next question or, after the last one, the next analysis.      *)
AnswerQuestion(u) ==
  LET q == conv.pending.question
      c == conv.active
      m == update[u].text IN
  /\ update[u].stage = "answering"
  /\ ~AnswerRaises(q, c, u)
  /\ question' = AnswerTo(q, m)
  /\ stored' = IF IsLabel(m) THEN stored ELSE [stored EXCEPT ![u] = Kept(u, Owner[q])]
  /\ conv' = Idle(c)
  /\ IF Askable(c, question') # {}
     THEN HandledAndAsks(u, c) /\ UNCHANGED <<case, run>>
     ELSE Handled(u) /\ StartRun(c, TransitionCase(case[c], "FINALIZING"), ChatRuns)
  /\ Races(c)
  /\ UNCHANGED <<known, typed, profile, asked>>

HandleMessage(u) ==
  \/ LookAround(u) \/ GoToMenu(u) \/ ReminderAction(u) \/ StartProfile(u) \/ ChooseProfession(u)
  \/ ChooseSpecialty(u) \/ ChooseCaseType(u) \/ NewCaseFlow(u) \/ TitleCase(u) \/ ShowCases(u)
  \/ ChooseCase(u) \/ OpenCase(u) \/ AnalyzeCase(u) \/ ArchiveActive(u) \/ ApproveActive(u)
  \/ RecordMessage(u) \/ AnswerWithFile(u) \/ BeginAnswer(u) \/ RefuseAnswer(u) \/ AnswerQuestion(u)

HandleAnalysisAction(u) ==
  \/ ReadConversation(u) \/ ResolveIssues(u) \/ AddEvidence(u) \/ ContinueCurrent(u)
  \/ GenerateReport(u) \/ SaveConversation(u)

----------------------------------------------------------------------------
(* Writes of the conversation from outside: send_next_follow_up,           *)
(* notify_analysis_result and deliver_reminder                             *)

At(p, kind, step) == task[p].kind = kind /\ task[p].step = step

(* The write of p is over, and so is the handling of an update that made   *)
(* it.                                                                     *)
EndTask(p) ==
  /\ task' = [task EXCEPT ![p] = NoTask]
  /\ update' = IF p \in Updates THEN [update EXCEPT ![p].stage = "handled"] ELSE update

Begin(p, kind, c) ==
  task' = [task EXCEPT ![p] = [NoTask EXCEPT !.kind = kind, !.step = "ready", !.case = c]]

(* The recovery command publishes dispatch_follow_up for a case that waits *)
(* for answers; a reminder of some action of the user is due.              *)
Recover(p, c) ==
  /\ task[p] = NoTask
  /\ case[c].status = "NEEDS_INFORMATION"
  /\ \E q \in IssuesOf(c) : question[q].status \in {"pending", "asked"}
  /\ Begin(p, "ask", c)
  /\ UNCHANGED <<rows, conv, update, stored, run, asked, raced>>

Remind(p, c) ==
  /\ task[p] = NoTask
  /\ c \in known
  /\ Begin(p, "remind", c)
  /\ UNCHANGED <<rows, conv, update, stored, run, asked, raced>>

(* The question and the conversation are read; there may be none.          *)
BeginAsk(p) ==
  LET c == task[p].case
      askable == Askable(c, question) IN
  /\ At(p, "ask", "ready")
  /\ IF askable = {} \/ conv.active # c THEN EndTask(p)
     ELSE /\ task' = [task EXCEPT ![p].step = "read", ![p].question = First(askable)]
          /\ UNCHANGED update
  /\ UNCHANGED <<rows, conv, stored, run, asked, raced>>

(* The message goes out and the question is marked, whatever it has become *)
(* since it was read.                                                      *)
SendQuestion(p) ==
  LET q == task[p].question IN
  /\ At(p, "ask", "read")
  /\ question' = [question EXCEPT ![q].status = "asked"]
  /\ asked' = asked \cup {q}
  /\ task' = [task EXCEPT ![p].step = "sent"]
  /\ UNCHANGED <<case, known, typed, profile, conv, update, stored, run, raced>>

AwaitAnswer(p) ==
  /\ At(p, "ask", "sent") /\ ConvFree
  /\ conv' = [conv EXCEPT !.state = "awaiting_followup",
                          !.pending = [Empty EXCEPT !.question = task[p].question]]
  /\ EndTask(p)
  /\ UNCHANGED <<rows, stored, run, asked, raced>>

(* The conversation is read: the notification needs its case to be the     *)
(* active one, the reminder keeps what is pending.                         *)
BeginNotify(p) ==
  /\ At(p, "notify", "ready")
  /\ task' = [task EXCEPT ![p] = IF conv.active = @.case THEN [@ EXCEPT !.step = "read"]
                                 ELSE NoTask]
  /\ UNCHANGED <<rows, conv, update, stored, run, asked, raced>>

Notify(p) ==
  /\ At(p, "notify", "read") /\ ConvFree
  /\ conv' = Idle(conv.active)
  /\ EndTask(p)
  /\ UNCHANGED <<rows, stored, run, asked, raced>>

BeginRemind(p) ==
  /\ At(p, "remind", "ready")
  /\ task' = [task EXCEPT ![p].step = "read", ![p].pending = conv.pending]
  /\ UNCHANGED <<rows, conv, update, stored, run, asked, raced>>

ShowButtons(p) ==
  /\ At(p, "remind", "read") /\ ConvFree
  /\ conv' = [conv EXCEPT !.pending = [task[p].pending EXCEPT !.reminder = task[p].case]]
  /\ EndTask(p)
  /\ UNCHANGED <<rows, stored, run, asked, raced>>

(* A task of its own raises: it starts again, or not.  What it sent is     *)
(* sent.                                                                   *)
FailTask(p) ==
  /\ "error" \in Faults
  /\ p \in Senders /\ task[p] # NoTask
  /\ \/ Begin(p, task[p].kind, task[p].case)
     \/ task' = [task EXCEPT ![p] = NoTask]
  /\ UNCHANGED <<rows, conv, update, stored, run, asked, raced>>

Ask(p) == BeginAsk(p) \/ SendQuestion(p) \/ AwaitAnswer(p)
WriteConversation(p) ==
  Ask(p) \/ BeginNotify(p) \/ Notify(p) \/ BeginRemind(p) \/ ShowButtons(p)

----------------------------------------------------------------------------
(* The extraction run, as far as it changes questions                      *)

BeginRun(r) ==
  /\ run[r].stage = "queued"
  /\ run' = [run EXCEPT ![r].stage = "running"]
  /\ case' = [case EXCEPT ![run[r].case].analysis = "PROCESSING"]
  /\ UNCHANGED <<known, typed, profile, question, conv, update, stored, task, asked, raced>>

(* apply_extraction_response and ensure_follow_up_questions, and what is   *)
(* then read: the run found some issues, new ones or ones still open;      *)
(* other open ones are resolved, and terminal ones are not raised again.   *)
(* An issue that nobody has to be asked about is raised and resolved by    *)
(* the same run: it stays "none".                                          *)
ApplyResult(r) ==
  LET c == run[r].case
      raisable == {q \in IssuesOf(c) : question[q].issue \in {"none", "open"}} IN
  /\ run[r].stage = "running"
  /\ \E found \in SUBSET raisable :
       LET applied == [q \in Questions |->
             IF q \in found THEN [question[q] EXCEPT !.issue = "open"]
             ELSE IF q \in OpenOf(c, question) THEN [question[q] EXCEPT !.issue = "resolved"]
             ELSE question[q]] IN
       /\ question' = Ensured(applied, c)
       /\ run' = [run EXCEPT ![r].stage = IF found = {} THEN "clear" ELSE "found",
                             ![r].finalizing = (case[c].status = "FINALIZING")]
  /\ raced' = raced \cup {d \in {c} : \/ case[d].status = "NEEDS_INFORMATION"
                                      \/ \E s \in Runs : run[s].case = d /\ run[s].stage = "found"}
  /\ UNCHANGED <<case, known, typed, profile, conv, update, stored, task, asked>>

(* Where the end of the run moves a finalizing case.                       *)
Outcome(stage) == IF stage = "found" THEN "NEEDS_INFORMATION" ELSE "OPEN"
Reviewed(stage) == IF stage = "found" THEN "NEEDS_REVIEW" ELSE "COMPLETED"

(* The case is moved by what was read then, and the user is notified.      *)
EndRun(r) ==
  LET c == run[r].case
      stage == run[r].stage
      row == [case[c] EXCEPT !.analysis = Reviewed(stage)] IN
  /\ stage \in {"found", "clear"}
  /\ run[r].finalizing => CanTransition(row, Outcome(stage))
  /\ case' = [case EXCEPT ![c] = IF run[r].finalizing THEN TransitionCase(row, Outcome(stage))
                                 ELSE row]
  /\ run' = [run EXCEPT ![r].stage = "ended", ![r].finalizing = FALSE]
  /\ \E p \in Senders : task[p] = NoTask /\ Begin(p, "notify", c)
  /\ UNCHANGED <<known, typed, profile, question, conv, update, stored, asked, raced>>

(* The transition raises, or anything before it: the run is tried again or *)
(* not.                                                                    *)
FailRun(r) ==
  LET c == run[r].case IN
  /\ \/ "error" \in Faults /\ run[r].stage \in {"running", "found", "clear"}
     \/ /\ run[r].stage \in {"found", "clear"} /\ run[r].finalizing
        /\ ~CanTransition(case[c], Outcome(run[r].stage))
  /\ \E s \in {"queued", "ended"} : run' = [run EXCEPT ![r].stage = s, ![r].finalizing = FALSE]
  /\ case' = [case EXCEPT ![c].analysis = "FAILED"]
  /\ UNCHANGED <<known, typed, profile, question, conv, update, stored, task, asked, raced>>

Extract(r) == BeginRun(r) \/ ApplyResult(r) \/ EndRun(r) \/ FailRun(r)

----------------------------------------------------------------------------
(* The portal, which has no conversation                                   *)

PortalAnalyze(c) ==
  /\ c \in ActiveCases
  /\ StartRun(c, RequestAnalysis(case[c]), PortalRuns)
  /\ UNCHANGED <<known, typed, profile, question, conv, update, stored, task, asked, raced>>

PortalContinue(c) ==
  /\ c \in known
  /\ WaiveIssues(c)
  /\ UNCHANGED <<known, typed, profile, conv, update, stored, task, run, asked>>

PortalArchive(c) ==
  /\ c \in known /\ CanArchive(case[c])
  /\ case' = [case EXCEPT ![c] = ArchiveCase(@)]
  /\ UNCHANGED <<known, typed, profile, question, conv, update, stored, task, run, asked, raced>>

PortalReopen(c) ==
  /\ c \in known /\ CanReopen(case[c])
  /\ case' = [case EXCEPT ![c] = ReopenCase(@)]
  /\ UNCHANGED <<known, typed, profile, question, conv, update, stored, task, run, asked, raced>>

Portal(c) == PortalAnalyze(c) \/ PortalContinue(c) \/ PortalArchive(c) \/ PortalReopen(c)

----------------------------------------------------------------------------

(* What the worker of an update does, unless it is lost.                   *)
Process(u) ==
  Start(u) \/ HandleAnalysisAction(u) \/ HandleMessage(u) \/ Ask(u) \/ Finish(u) \/ FailUpdate(u)

NextConversation ==
  \/ \E u \in Updates : Receive(u) \/ Process(u) \/ LoseUpdate(u)
  \/ \E p \in Senders : WriteConversation(p) \/ FailTask(p)
  \/ \E p \in Senders, c \in Cases : Recover(p, c) \/ Remind(p, c)
  \/ \E r \in Runs : Extract(r)
  \/ \E c \in Cases : Portal(c)

(* A new user.                                                             *)
InitConversation ==
  /\ InitChat([c \in Cases |-> NewCase], [q \in Questions |-> NoIssue], Idle(NoCase))
  /\ known = {} /\ typed = {} /\ profile = "none" /\ asked = {}

SpecConversation == InitConversation /\ [][NextConversation]_convVars

----------------------------------------------------------------------------
(* Properties                                                              *)

(* Every row is of its type; an issue is answered MAX_FOLLOW_UP_ATTEMPTS   *)
(* times before the next answer waives it.                                 *)
ConvTypeOK ==
  /\ case \in [Cases -> Case]
  /\ known \subseteq Cases /\ typed \subseteq Cases
  /\ profile \in {"none", "profession", "complete"}
  /\ question \in [Questions -> Question]
  /\ conv \in ConversationState
  /\ update \in [Updates -> Update]
  /\ stored \in [Updates -> Cases \cup {NotStored, Unassigned}]
  /\ task \in [Updates \cup Senders -> Task]
  /\ run \in [Runs -> Run]
  /\ asked \subseteq Questions /\ raced \subseteq Cases

(* However often the webhook is called for an update, its message is       *)
(* handled once, and once more for every try that failed or was lost: the  *)
(* row of the update keeps a second delivery from a second task.           *)
HandledOnce ==
  \A u \in Updates : update[u].handled <= 1 + update[u].retries + update[u].losses

(* The message of an update is stored once, for the case that is active    *)
(* then and can still take evidence, and stays there: neither a redelivery *)
(* nor a change of the active case moves it to another case.  Only an      *)
(* answer may reach a case that was archived after its status was read.    *)
StoredForGood ==
  [][\A u \in Updates : stored'[u] # stored[u] =>
       /\ stored[u] = NotStored
       /\ \/ stored'[u] = Unassigned
          \/ /\ stored'[u] = conv.active
             /\ case[conv.active].lifecycle = "ACTIVE" \/ update[u].stage = "answering"]_convVars

Decided(q) ==
  \/ question'[q].status = "answered" /\ question[q].status # "answered"
  \/ question'[q].issue = "unavailable" /\ question[q].issue # "unavailable"

(* Only a message of the user decides a question, only one that was sent   *)
(* to the user, while the conversation waits for its answer and is about   *)
(* its case; unless the message is a redelivered one, its text becomes     *)
(* evidence of that case.  The active case may have changed since the      *)
(* question was asked, and the question since it was sent.  The case itself*)
(* may wait no longer: its status is read before the locks are taken.      *)
AnswersWhatWasAsked ==
  [][\A q \in Questions : Decided(q) =>
       /\ q \in asked
       /\ conv.state = "awaiting_followup" /\ conv.pending.question = q
       /\ conv.active = Owner[q]
       /\ \E u \in Updates :
            /\ update'[u].handled = update[u].handled + 1
            /\ \/ update[u].retries + update[u].losses > 0
               \/ IsLabel(update[u].text)
               \/ stored'[u] = Owner[q]]_convVars

(* A case that waits for information has a question the user can be asked: *)
(* the questions, the runs and the status of the case, each changed by     *)
(* others, agree.  Two races are known to break this and are left out:     *)
(* issues that are waived or answered between the end of a run and the     *)
(* transition of its case, and the result of a second run for a case that  *)
(* already waits.                                                          *)
NeverWaitsForNothing ==
  \A c \in Cases : case[c].status = "NEEDS_INFORMATION" =>
    Askable(c, question) # {} \/ c \in raced

(* Every update whose task was published is finished or given up, whatever *)
(* its handler raises and however often its worker is lost.                *)
UpdateEnds ==
  \A u \in Updates : update[u].stage = "queued" ~> update[u].stage \in {"done", "gave up"}
=============================================================================
