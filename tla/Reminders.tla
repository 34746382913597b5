------------------------------- MODULE Reminders -------------------------------
(***************************************************************************)
(* The open work of one case and what reminds its user of it: the system   *)
(* and manual actions (src/apps/cases/actions.py), the suggestions of the  *)
(* model (action_suggestions.py), the reminders of an action and the task  *)
(* that sends them (reminders.py, tasks.py), and the digests (digests.py). *)
(*                                                                         *)
(* Every service is one transaction that locks the rows it changes, so it  *)
(* is one action.  What is not: a reminder is claimed in one transaction,  *)
(* sent over the network and marked in another; the chat reads an action   *)
(* before it postpones its reminder; a digest is checked, sent and then    *)
(* recorded.                                                               *)
(*                                                                         *)
(* Time is relative: the hour of the day turns, and every pending reminder *)
(* counts the hours that are left until its remind_at.                     *)
(***************************************************************************)
EXTENDS Integers, CaseWorkflow

CONSTANTS
  Manual,             \* manual actions that may be created
  Suggestions,        \* suggestions the model may propose (by fingerprint)
  MaxReminders,       \* bound: reminder rows
  Day,                \* hours of a day
  RetryDelay,         \* 15 minutes in the code
  ReviewDelay,        \* 48 hours in the code
  DueDelays,          \* how far ahead a manual action may be due
  MaxFailures,        \* bound: failed deliveries of one reminder
  MaxLosses,          \* bound: lost workers of one digest
  Views,              \* what the case may look like, a subset of CaseView
  PreferenceChoices,  \* preferences the user may choose
  DigestTypes         \* digests that are scheduled

CaseView == [lifecycle : LifecycleStatus, analysis : AnalysisStatus, report : ReportStatus,
             revision : BOOLEAN,    \* the report has a current revision
             openIssues : BOOLEAN,  \* some field issue is OPEN
             messages : BOOLEAN,    \* the case has messages
             idle : BOOLEAN]        \* unchanged for seven days

Preferences == [on : BOOLEAN, due : BOOLEAN, review : BOOLEAN, daily : BOOLEAN,
                weekly : BOOLEAN, start : 0 .. Day - 1, end : 0 .. Day - 1]

SystemKeys == {"analysis:start", "analysis:review", "analysis:retry", "report:generate",
               "report:review", "report:regenerate", "case:stale"}

(* The keys of _SYSTEM_ACTIONS with at least the priority HIGH.            *)
HighPriority == SystemKeys \ {"analysis:start", "case:stale"}

NoAction == "no action"

ASSUME RemindersAssumption ==
  /\ MaxReminders \in Nat /\ MaxFailures \in Nat /\ MaxLosses \in Nat
  /\ Day \in Nat \ {0} /\ RetryDelay \in Nat \ {0} /\ ReviewDelay \in Nat \ {0}
  /\ DueDelays \subseteq Nat
  /\ Views \subseteq CaseView /\ Views # {}
  /\ PreferenceChoices \subseteq Preferences /\ PreferenceChoices # {}
  /\ DigestTypes \subseteq {"DAILY", "WEEKLY"}
  /\ Manual \cap (SystemKeys \cup {NoAction}) = {}

VARIABLES
  hour,         \* the local hour
  prefs,        \* the ReminderPreference row
  view,         \* what _wanted_system_keys reads of the case
  action,       \* [Actions -> status of the CaseAction row]
  suggestion,   \* [Suggestions -> CaseActionSuggestion row]
  reminder,     \* [1..MaxReminders -> CaseReminder row]
  delivery,     \* [1..MaxReminders -> what a worker does with the row]
  chat,         \* the action the chat's reminder buttons act on, and what was read of it
  digest,       \* [DigestTypes -> the digest of the current period and its task]
  log,          \* history: messages sent for a row, and failures that returned it to the queue
  muted         \* history: actions whose reminder was dropped as the user asked

remVars == <<hour, prefs, view, action, suggestion, reminder, delivery, chat, digest, log, muted>>
work == <<action, suggestion>>
history == <<log, muted>>

Actions == Manual \cup SystemKeys
Reminders == 1 .. MaxReminders
ReminderStatus == {"NONE", "PENDING", "DISPATCHING", "SENT", "CANCELLED"}

Reminder == [action : Actions \cup {NoAction}, kind : {"none", "action", "review"},
             status : ReminderStatus, wait : Nat]
NoReminder == [action |-> NoAction, kind |-> "none", status |-> "NONE", wait |-> 0]

Suggestion == [status : {"none", "proposed", "accepted", "rejected"},
               action : Manual \cup {NoAction}]

Delivery == {"none", "claimed", "delivered", "lost"}

Chat == [prompt : Actions \cup {NoAction}, snoozing : {"no", "open", "done"}]

Digest == [task : {"none", "queued", "checked", "sent"},
           current : BOOLEAN,    \* the running task belongs to the current period
           recorded : BOOLEAN,   \* DigestDelivery row of the current period
           published : BOOLEAN, sends : Nat, losses : 0 .. MaxLosses]
NewPeriod == [task |-> "none", current |-> TRUE, recorded |-> FALSE, published |-> FALSE,
              sends |-> 0, losses |-> 0]

InitReminders ==
  /\ hour = 0
  /\ prefs \in PreferenceChoices
  /\ view \in Views
  /\ action = [a \in Actions |-> "none"]
  /\ suggestion = [s \in Suggestions |-> [status |-> "none", action |-> NoAction]]
  /\ reminder = [r \in Reminders |-> NoReminder]
  /\ delivery = [r \in Reminders |-> "none"]
  /\ chat = [prompt |-> NoAction, snoozing |-> "no"]
  /\ digest = [k \in DigestTypes |-> NewPeriod]
  /\ log = [r \in Reminders |-> [sent |-> 0, failed |-> 0]]
  /\ muted = {}

----------------------------------------------------------------------------
(* Quiet hours                                                             *)

(* _in_quiet_hours: the interval may pass midnight; equal ends mean never. *)
InQuietHours(p, h) ==
  IF p.start <= p.end THEN p.start <= h /\ h < p.end
                      ELSE h >= p.start \/ h < p.end

(* Mutant: the end of the quiet hours is always looked for tomorrow.       *)
NextAllowed_Tomorrow(p, h) == IF InQuietHours(p, h) THEN p.end + Day - h ELSE 0

(* next_allowed_time, as the hours from now: the end of the quiet hours,   *)
(* tomorrow when they began today and pass midnight.                       *)
NextAllowed(p, h) ==
  CASE ~InQuietHours(p, h)             -> 0
    [] InQuietHours(p, h) /\ h < p.end -> p.end - h
    [] OTHER                           -> p.end + Day - h

----------------------------------------------------------------------------
(* Reminder rows                                                           *)

Unused == {r \in Reminders : reminder[r].status = "NONE"}

(* The row that is inserted next.                                          *)
Insert(rows, r, a, kind, wait) ==
  [rows EXCEPT ![r] = [action |-> a, kind |-> kind, status |-> "PENDING", wait |-> wait]]

IsNext(r) == r \in Unused /\ \A u \in Unused : r <= u

(* Bound: a started postponement keeps a row for itself.                   *)
IsSpare(r) == IsNext(r) /\ (chat.snoozing # "no" => \E u \in Unused : u # r)

(* cancel_action_reminders, for every action of a set.                     *)
CancelReminders(rows, closed) ==
  [r \in Reminders |->
    IF rows[r].action \in closed /\ rows[r].status \in {"PENDING", "DISPATCHING"}
    THEN [rows[r] EXCEPT !.status = "CANCELLED", !.wait = 0]
    ELSE rows[r]]

----------------------------------------------------------------------------
(* System actions                                                          *)

WorkflowStep(v) ==
  IF v.report = "DRAFT" /\ v.revision THEN {"report:regenerate"}
  ELSE IF v.report = "READY_FOR_REVIEW" THEN {"report:review"}
  ELSE IF v.analysis = "FAILED" THEN {"analysis:retry"}
  ELSE IF v.analysis = "NEEDS_REVIEW" THEN {"analysis:review"}
  ELSE IF v.analysis = "COMPLETED" /\ ~v.openIssues /\ v.report = "NOT_CREATED"
  THEN {"report:generate"}
  ELSE IF v.analysis = "NOT_STARTED" /\ v.messages THEN {"analysis:start"}
  ELSE {}

WantedSystemKeys(v) ==
  IF v.lifecycle # "ACTIVE" THEN {}
  ELSE WorkflowStep(v)
       \cup {k \in {"case:stale"} : v.report # "APPROVED" /\ v.messages /\ v.idle}

(* sync_system_actions on the CaseAction rows.                             *)
Synced(wanted) ==
  [a \in Actions |->
    IF a \in wanted THEN "open"
    ELSE IF a \in SystemKeys /\ action[a] = "open" THEN "done"
    ELSE action[a]]

ReviewRow == {r \in Reminders : reminder[r].kind = "review"}

(* schedule_report_review_reminder: one row per action, ever, by its key.  *)
Schedule(rows, wanted) ==
  IF "report:review" \in wanted /\ prefs.on /\ prefs.review /\ ReviewRow = {}
  THEN \E r \in Reminders :
         /\ IsSpare(r)
         /\ reminder' = Insert(rows, r, "report:review", "review", ReviewDelay)
  ELSE reminder' = rows

(* sync_system_actions as a whole, for whoever lists the open work: the    *)
(* today page and command, the next action, both digests.                  *)
Sync ==
  LET wanted == WantedSystemKeys(view)
      closed == {k \in SystemKeys \ wanted : action[k] = "open"}
  IN  /\ action' = Synced(wanted)
      /\ Schedule(CancelReminders(reminder, closed), wanted)

ListOpenWork ==
  /\ Sync
  /\ UNCHANGED <<hour, prefs, view, suggestion, delivery, chat, digest, history>>

(* The rest of the system moves the case on.                               *)
ChangeCase ==
  /\ view' \in Views
  /\ UNCHANGED <<hour, prefs, work, reminder, delivery, chat, digest, history>>

----------------------------------------------------------------------------
(* Manual actions and suggestions                                          *)

(* create_manual_action, with the reminder of ensure_action_reminder when  *)
(* the action is due some time and the user wants such reminders.          *)
NewManualAction(a) ==
  /\ action[a] = "none"
  /\ view.lifecycle = "ACTIVE"
  /\ action' = [action EXCEPT ![a] = "open"]
  /\ \/ reminder' = reminder
     \/ /\ prefs.on /\ prefs.due
        /\ \E r \in Reminders, wait \in DueDelays :
             IsSpare(r) /\ reminder' = Insert(reminder, r, a, "action", wait)

CreateManualAction(a) ==
  /\ NewManualAction(a)
  /\ UNCHANGED <<hour, prefs, view, suggestion, delivery, chat, digest, history>>

(* complete_case_action on the row it locks.                               *)
Completed(a) ==
  /\ action' = [action EXCEPT ![a] = "done"]
  /\ reminder' = CancelReminders(reminder, {a})

CompleteAction(a) ==
  /\ a \in Manual /\ action[a] # "none"
  /\ Completed(a)
  /\ UNCHANGED <<hour, prefs, view, suggestion, delivery, chat, digest, history>>

(* generate_action_suggestions: a fingerprint that is known stays as it is. *)
ProposeSuggestion(s) ==
  /\ view.lifecycle = "ACTIVE"
  /\ suggestion[s].status = "none"
  /\ suggestion' = [suggestion EXCEPT ![s].status = "proposed"]
  /\ UNCHANGED <<hour, prefs, view, action, reminder, delivery, chat, digest, history>>

(* accept_action_suggestion; on an archived case it raises and the         *)
(* transaction leaves nothing.                                             *)
AcceptSuggestion(s, a) ==
  /\ suggestion[s].status = "proposed"
  /\ NewManualAction(a)
  /\ suggestion' = [suggestion EXCEPT ![s] = [status |-> "accepted", action |-> a]]
  /\ UNCHANGED <<hour, prefs, view, delivery, chat, digest, history>>

RejectSuggestion(s) ==
  /\ suggestion[s].status = "proposed"
  /\ suggestion' = [suggestion EXCEPT ![s].status = "rejected"]
  /\ UNCHANGED <<hour, prefs, view, action, reminder, delivery, chat, digest, history>>

----------------------------------------------------------------------------
(* dispatch_due_reminders                                                  *)

(* Mutant: a claimed row stays PENDING until it is marked.                 *)
Claim_KeepsPending(r) ==
  /\ reminder[r].status = "PENDING" /\ reminder[r].wait = 0
  /\ delivery[r] \in {"none", "lost"}
  /\ delivery' = [delivery EXCEPT ![r] = "claimed"]
  /\ UNCHANGED <<hour, prefs, view, work, reminder, chat, digest, history>>

(* claim_due_reminders for one due row.  The rows of the action, the case  *)
(* and the user are locked with it, so it does not overlap a completion.   *)
Claim(r) ==
  LET row == reminder[r]
      allowed == NextAllowed(prefs, hour)
  IN  /\ row.status = "PENDING" /\ row.wait = 0
      /\ \/ /\ ~prefs.on
            /\ reminder' = [reminder EXCEPT ![r].status = "CANCELLED"]
            /\ muted' = muted \cup {row.action}
            /\ UNCHANGED delivery
         \/ /\ prefs.on /\ allowed > 0
            /\ reminder' = [reminder EXCEPT ![r].wait = allowed]
            /\ UNCHANGED <<delivery, muted>>
         \/ /\ prefs.on /\ allowed = 0 /\ action[row.action] # "open"
            /\ reminder' = [reminder EXCEPT ![r].status = "CANCELLED"]
            /\ UNCHANGED <<delivery, muted>>
         \/ /\ prefs.on /\ allowed = 0 /\ action[row.action] = "open"
            /\ reminder' = [reminder EXCEPT ![r].status = "DISPATCHING"]
            /\ delivery' = [delivery EXCEPT ![r] = "claimed"]
            /\ UNCHANGED muted
      /\ UNCHANGED <<hour, prefs, view, work, chat, digest, log>>

(* deliver_reminder: the message leaves and the conversation remembers the *)
(* action.  Saving the conversation waits for a handler that has locked it. *)
Deliver(r) ==
  /\ delivery[r] = "claimed" /\ chat.snoozing = "no"
  /\ delivery' = [delivery EXCEPT ![r] = "delivered"]
  /\ log' = [log EXCEPT ![r].sent = @ + 1]
  /\ chat' = [chat EXCEPT !.prompt = reminder[r].action]
  /\ UNCHANGED <<hour, prefs, view, work, reminder, digest, muted>>

(* mark_reminder_sent and mark_reminder_failed write the row whatever it   *)
(* has become since it was claimed.                                        *)
MarkSent(r) ==
  /\ delivery[r] = "delivered"
  /\ delivery' = [delivery EXCEPT ![r] = "none"]
  /\ reminder' = [reminder EXCEPT ![r].status = "SENT", ![r].wait = 0]
  /\ UNCHANGED <<hour, prefs, view, work, chat, digest, history>>

(* Mutant: a failed delivery is noted but not put back into the queue.     *)
MarkFailed_Keeps(r) ==
  /\ delivery[r] = "claimed" /\ log[r].failed < MaxFailures
  /\ delivery' = [delivery EXCEPT ![r] = "none"]
  /\ log' = [log EXCEPT ![r].failed = @ + 1]
  /\ UNCHANGED <<hour, prefs, view, work, reminder, chat, digest, muted>>

(* No identity, no configuration, a refused or timed out request, or a     *)
(* conversation that cannot be saved: the message may have left or not.    *)
MarkFailed(r) ==
  /\ delivery[r] = "claimed" /\ log[r].failed < MaxFailures
  /\ delivery' = [delivery EXCEPT ![r] = "none"]
  /\ reminder' = [reminder EXCEPT ![r].status = "PENDING", ![r].wait = RetryDelay]
  /\ \E left \in 0 .. 1 :
       log' = [log EXCEPT ![r] = [sent |-> @.sent + left, failed |-> @.failed + 1]]
  /\ UNCHANGED <<hour, prefs, view, work, chat, digest, muted>>

(* A worker is lost; the task that is delivered again finds no PENDING row. *)
LoseWorker(r) ==
  /\ delivery[r] \in {"claimed", "delivered"}
  /\ delivery' = [delivery EXCEPT ![r] = "lost"]
  /\ UNCHANGED <<hour, prefs, view, work, reminder, chat, digest, history>>

----------------------------------------------------------------------------
(* The buttons of a reminder (_handle_reminder_action), the preferences    *)

AnswerDone ==
  /\ chat.prompt # NoAction /\ chat.snoozing = "no"
  /\ IF chat.prompt \in Manual THEN Completed(chat.prompt) ELSE UNCHANGED <<action, reminder>>
  /\ chat' = [chat EXCEPT !.prompt = NoAction]
  /\ UNCHANGED <<hour, prefs, view, suggestion, delivery, digest, history>>

(* The handler reads the action row without locking it ...                 *)
ReadForSnooze ==
  /\ chat.prompt # NoAction /\ chat.snoozing = "no" /\ Unused # {}
  /\ chat' = [chat EXCEPT !.snoozing = action[chat.prompt]]
  /\ UNCHANGED <<hour, prefs, view, work, reminder, delivery, digest, history>>

(* Mutant: postponing only cancels.                                        *)
Snooze_OnlyCancels ==
  /\ chat.snoozing # "no"
  /\ reminder' = CancelReminders(reminder, {chat.prompt})
  /\ chat' = [prompt |-> NoAction, snoozing |-> "no"]
  /\ UNCHANGED <<hour, prefs, view, work, delivery, digest, history>>

(* ... and snooze_action cancels what is queued and, when the row it read  *)
(* was OPEN and due reminders are wanted, inserts one for tomorrow.        *)
Snooze ==
  LET a == chat.prompt
      cancelled == CancelReminders(reminder, {a})
  IN  /\ chat.snoozing # "no"
      /\ IF chat.snoozing = "open" /\ prefs.on /\ prefs.due
         THEN /\ \E r \in Reminders :
                   IsNext(r) /\ reminder' = Insert(cancelled, r, a, "action", Day)
              /\ UNCHANGED muted
         ELSE /\ reminder' = cancelled
              /\ muted' = muted \cup {a}
      /\ chat' = [prompt |-> NoAction, snoozing |-> "no"]
      /\ UNCHANGED <<hour, prefs, view, work, delivery, digest, log>>

SetPreferences ==
  /\ prefs' \in PreferenceChoices
  /\ UNCHANGED <<hour, view, work, reminder, delivery, chat, digest, history>>

----------------------------------------------------------------------------
(* Digests                                                                 *)

Wanted(k) == prefs.on /\ IF k = "DAILY" THEN prefs.daily ELSE prefs.weekly

Open(status) == {a \in Actions : status[a] = "open"}

(* daily_digest_text and weekly_digest_text have something to say; whether *)
(* a manual action is due within a day is left open.                       *)
HasItems(k, status) ==
  \/ view.lifecycle = "ACTIVE"
     /\ IF k = "DAILY" THEN Open(status) \cap (HighPriority \cup Manual) # {}
                       ELSE Open(status) # {}
  \/ k = "WEEKLY" /\ view.report = "READY_FOR_REVIEW"

MayBeEmpty(k, status) == k = "DAILY" \/ ~HasItems(k, status)

DigestTask(k, row) == digest' = [digest EXCEPT ![k] = row]

(* Celery beat; one task of a digest at a time.                            *)
PublishDigest(k) ==
  /\ digest[k].task = "none" /\ ~digest[k].published
  /\ DigestTask(k, [digest[k] EXCEPT !.task = "queued", !.published = TRUE])
  /\ UNCHANGED <<hour, prefs, view, work, reminder, delivery, chat, history>>

(* send_digest_for_user gives up before it reads anything else.            *)
SkipDigest(k) ==
  /\ digest[k].task = "queued"
  /\ ~Wanted(k) \/ InQuietHours(prefs, hour)
  /\ DigestTask(k, [digest[k] EXCEPT !.task = "none"])
  /\ UNCHANGED <<hour, prefs, view, work, reminder, delivery, chat, history>>

(* Mutant: the DigestDelivery row is not looked for.                       *)
CheckDigest_Blind(k) ==
  /\ digest[k].task = "queued"
  /\ Wanted(k) /\ ~InQuietHours(prefs, hour)
  /\ Sync
  /\ HasItems(k, action') /\ DigestTask(k, [digest[k] EXCEPT !.task = "checked"])
  /\ UNCHANGED <<hour, prefs, view, suggestion, delivery, chat, history>>

(* The text is made from freshly synchronised actions, and the delivery of *)
(* this period is looked for.                                              *)
CheckDigest(k) ==
  /\ digest[k].task = "queued"
  /\ Wanted(k) /\ ~InQuietHours(prefs, hour)
  /\ Sync
  /\ \/ /\ MayBeEmpty(k, action') \/ digest[k].recorded
        /\ DigestTask(k, [digest[k] EXCEPT !.task = "none"])
     \/ /\ HasItems(k, action') /\ ~digest[k].recorded
        /\ DigestTask(k, [digest[k] EXCEPT !.task = "checked"])
  /\ UNCHANGED <<hour, prefs, view, suggestion, delivery, chat, history>>

SendDigest(k) ==
  LET d == digest[k]
  IN  /\ d.task = "checked"
      /\ DigestTask(k, [d EXCEPT !.task = "sent", !.sends = IF d.current THEN @ + 1 ELSE @])
      /\ UNCHANGED <<hour, prefs, view, work, reminder, delivery, chat, history>>

(* No identity or configuration, or the request raises.                    *)
FailDigest(k) ==
  /\ digest[k].task = "checked"
  /\ DigestTask(k, [digest[k] EXCEPT !.task = "none", !.current = TRUE])
  /\ UNCHANGED <<hour, prefs, view, work, reminder, delivery, chat, history>>

(* The row is inserted under the period the task began in.                 *)
RecordDigest(k) ==
  LET d == digest[k]
  IN  /\ d.task = "sent"
      /\ DigestTask(k, [d EXCEPT !.task = "none", !.current = TRUE,
                                 !.recorded = @ \/ d.current])
      /\ UNCHANGED <<hour, prefs, view, work, reminder, delivery, chat, history>>

(* The task of a lost worker is delivered again (acks_late).               *)
LoseDigestWorker(k) ==
  LET d == digest[k]
  IN  /\ d.task \in {"checked", "sent"} /\ d.losses < MaxLosses
      /\ DigestTask(k, [d EXCEPT !.task = "queued", !.current = TRUE, !.losses = @ + 1])
      /\ UNCHANGED <<hour, prefs, view, work, reminder, delivery, chat, history>>

----------------------------------------------------------------------------
(* Time                                                                    *)

Waited(row) == IF row.wait > 0 THEN [row EXCEPT !.wait = @ - 1] ELSE row

Rollover(d) ==
  [NewPeriod EXCEPT !.task = d.task, !.current = d.task \in {"none", "queued"}]

(* Midnight ends the period of the daily digest, and some midnights that   *)
(* of the weekly one.                                                      *)
Periods ==
  IF hour + 1 < Day THEN {digest}
  ELSE {[k \in DigestTypes |-> IF k \in ended THEN Rollover(digest[k]) ELSE digest[k]] :
        ended \in {DigestTypes, DigestTypes \ {"WEEKLY"}}}

Tick ==
  /\ hour' = (hour + 1) % Day
  /\ reminder' = [r \in Reminders |-> Waited(reminder[r])]
  /\ digest' \in Periods
  /\ UNCHANGED <<prefs, view, work, delivery, chat, history>>

----------------------------------------------------------------------------

DispatchStep(r) ==
  Claim(r) \/ Deliver(r) \/ MarkSent(r) \/ MarkFailed(r) \/ LoseWorker(r)

DigestStep(k) ==
  \/ PublishDigest(k) \/ SkipDigest(k) \/ CheckDigest(k) \/ SendDigest(k) \/ FailDigest(k)
  \/ RecordDigest(k) \/ LoseDigestWorker(k)

UserStep ==
  \/ ListOpenWork \/ SetPreferences \/ AnswerDone \/ ReadForSnooze \/ Snooze
  \/ \E a \in Manual : CreateManualAction(a) \/ CompleteAction(a)
  \/ \E s \in Suggestions :
       \/ ProposeSuggestion(s) \/ RejectSuggestion(s)
       \/ \E a \in Manual : AcceptSuggestion(s, a)

NextReminders ==
  \/ UserStep \/ ChangeCase \/ Tick
  \/ \E r \in Reminders : DispatchStep(r)
  \/ \E k \in DigestTypes : DigestStep(k)

SpecReminders == InitReminders /\ [][NextReminders]_remVars

(* Beat runs the dispatcher every five minutes, so it keeps coming in the  *)
(* hours that are not quiet; a worker that is not lost ends its batch.     *)
ClaimInTheDay(r) == ~InQuietHours(prefs, hour) /\ Claim(r)
EndDelivery(r) == Deliver(r) \/ MarkSent(r) \/ MarkFailed(r)

----------------------------------------------------------------------------
(* Properties                                                              *)

RemTypeOK ==
  /\ hour \in 0 .. Day - 1
  /\ prefs \in PreferenceChoices
  /\ view \in Views
  /\ action \in [Actions -> {"none", "open", "done"}]
  /\ suggestion \in [Suggestions -> Suggestion]
  /\ reminder \in [Reminders -> Reminder]
  /\ delivery \in [Reminders -> Delivery]
  /\ chat \in Chat
  /\ digest \in [DigestTypes -> Digest]
  /\ log \in [Reminders -> [sent : Nat, failed : Nat]]
  /\ muted \subseteq Actions

(* One reminder is sent once, and once more only for every delivery that   *)
(* failed: neither overlapping dispatchers, nor a lost worker whose task   *)
(* is delivered again, nor completion or postponing while the message is   *)
(* on its way lead to a repetition (claim_due_reminders, the two           *)
(* unconditional mark_ functions).                                         *)
RepeatsOnlyAfterFailure == \A r \in Reminders : log[r].sent <= log[r].failed + 1

(* An open manual action that was given a reminder has one that is queued, *)
(* on its way or sent, whatever was postponed, failed or claimed meanwhile,*)
(* unless the user switched such reminders off when it was due or          *)
(* postponed (snooze_action, mark_reminder_failed, claim_due_reminders).   *)
ManualKeepsReminder ==
  \A a \in Manual \ muted :
    action[a] = "open" /\ (\E r \in Reminders : reminder[r].action = a) =>
      \E r \in Reminders : /\ reminder[r].action = a
                           /\ reminder[r].status \in {"PENDING", "DISPATCHING", "SENT"}

(* A due reminder that meets quiet hours is put off to an hour that is not *)
(* quiet, less than a day ahead, on both sides of midnight                 *)
(* (next_allowed_time in claim_due_reminders).                             *)
PostponedToAllowedHour ==
  [][\A r \in Reminders :
       (/\ reminder[r].status = "PENDING" /\ reminder'[r].status = "PENDING"
        /\ reminder[r].wait = 0 /\ reminder'[r].wait # 0) =>
         /\ reminder'[r].wait \in 1 .. Day - 1
         /\ ~InQuietHours(prefs, (hour + reminder'[r].wait) % Day)]_remVars

(* A digest of one period is sent once, and once more only for every       *)
(* worker that was lost between reading and recording (send_digest_for_user *)
(* checks, sends and then records).                                        *)
DigestOnce == \A k \in DigestTypes : digest[k].sends <= digest[k].losses + 1

(* A queued reminder is sent or cancelled in the end, although it may be   *)
(* put off by quiet hours, fail and be queued again, unless the worker     *)
(* that claimed it is lost.                                                *)
ReminderIsDecided ==
  \A r \in Reminders :
    reminder[r].status = "PENDING" ~>
      (reminder[r].status \in {"SENT", "CANCELLED"} \/ delivery[r] = "lost")
=============================================================================
