---------------------------- MODULE RemindersProofs ----------------------------
(* What holds of Reminders for any hours of a day, delays, views of the    *)
(* case, preferences, manual actions, suggestions and digests.             *)
EXTENDS Reminders, TLAPS

Outstanding == {"PENDING", "DISPATCHING", "SENT"}

(* A row that is queued is nobody's, and was sent at most once more than   *)
(* the failures that put it back explain, less the one that is to come.    *)
RowInv(r) ==
  /\ reminder[r].status = "NONE" => reminder[r].action = NoAction
  /\ reminder[r].status # "NONE" => reminder[r].action \in Actions
  /\ reminder[r].status \in {"NONE", "PENDING"} =>
       delivery[r] = "none" /\ log[r].sent <= log[r].failed
  /\ delivery[r] = "claimed" => log[r].sent <= log[r].failed
  /\ log[r].sent <= log[r].failed + 1

(* Only actions that exist have reminders.                                 *)
ActInv ==
  \A r \in Reminders : reminder[r].action \in Actions => action[reminder[r].action] # "none"

ChatInv ==
  /\ chat.prompt # NoAction => action[chat.prompt] # "none"
  /\ chat.snoozing # "no" => chat.prompt # NoAction

(* ManualKeepsReminder for one action.                                     *)
Kept(a) ==
  action[a] = "open" /\ (\E r \in Reminders : reminder[r].action = a) =>
    \E r \in Reminders : reminder[r].action = a /\ reminder[r].status \in Outstanding

WorkTypeOK ==
  /\ action \in [Actions -> {"none", "open", "done"}]
  /\ reminder \in [Reminders -> Reminder]
  /\ delivery \in [Reminders -> Delivery]
  /\ chat \in Chat
  /\ log \in [Reminders -> [sent : Nat, failed : Nat]]
  /\ muted \subseteq Actions

OtherTypeOK ==
  /\ hour \in 0 .. Day - 1
  /\ prefs \in PreferenceChoices
  /\ view \in Views
  /\ suggestion \in [Suggestions -> Suggestion]

WorkInv ==
  /\ WorkTypeOK
  /\ \A r \in Reminders : RowInv(r)
  /\ ActInv /\ ChatInv
  /\ \A a \in Manual \ muted : Kept(a)

(* The digest of the period was sent at most once more than its workers    *)
(* were lost, and not yet if it is about to be.                            *)
Sent(d) == IF d.recorded \/ (d.task = "sent" /\ d.current) THEN 1 ELSE 0

DigestOK(d) ==
  /\ d.sends <= d.losses + Sent(d)
  /\ d.task \in {"none", "queued"} => d.current
  /\ d.task = "checked" /\ d.current => ~d.recorded

DigestInv ==
  /\ digest \in [DigestTypes -> Digest]
  /\ \A k \in DigestTypes : DigestOK(digest[k])

IInv == OtherTypeOK /\ WorkInv /\ DigestInv

----------------------------------------------------------------------------
(* Hours                                                                   *)

LEMMA Modulo ==
  ASSUME NEW d \in Nat \ {0}, NEW x \in 0 .. d - 1
  PROVE  x % d = x /\ (x + d) % d = x
OBVIOUS

LEMMA NextHour == ASSUME NEW d \in Nat \ {0}, NEW x \in Nat PROVE x % d \in 0 .. d - 1
OBVIOUS

(* The end of the quiet hours is less than a day away, and not quiet.      *)
LEMMA NextAllowedFacts ==
  ASSUME NEW p \in Preferences, NEW h \in 0 .. Day - 1
  PROVE  /\ NextAllowed(p, h) \in 0 .. Day - 1
         /\ InQuietHours(p, h) =>
              /\ NextAllowed(p, h) # 0
              /\ ~InQuietHours(p, (h + NextAllowed(p, h)) % Day)
<1>1. /\ p.start \in 0 .. Day - 1 /\ p.end \in 0 .. Day - 1
      /\ Day \in Nat \ {0}
  BY RemindersAssumption DEF Preferences
<1>2. CASE ~InQuietHours(p, h)
  BY <1>1, <1>2 DEF NextAllowed
<1>3. CASE InQuietHours(p, h) /\ h < p.end
  <2>1. NextAllowed(p, h) = p.end - h
    BY <1>3 DEF NextAllowed
  <2>2. (h + (p.end - h)) % Day = p.end
    <3>1. h + (p.end - h) = p.end
      BY <1>1
    <3> QED
      BY <1>1, <3>1, Modulo
  <2>3. ~InQuietHours(p, p.end)
    BY <1>1, <1>3 DEF InQuietHours
  <2> QED
    BY <1>1, <1>3, <2>1, <2>2, <2>3
<1>4. CASE InQuietHours(p, h) /\ ~(h < p.end)
  <2>1. NextAllowed(p, h) = p.end + Day - h
    BY <1>4 DEF NextAllowed
  <2>2. p.end < p.start /\ p.start <= h
    BY <1>1, <1>4 DEF InQuietHours
  <2>3. (h + (p.end + Day - h)) % Day = p.end
    <3>1. h + (p.end + Day - h) = p.end + Day
      BY <1>1
    <3> QED
      BY <1>1, <3>1, Modulo
  <2>4. ~InQuietHours(p, p.end)
    BY <1>1, <2>2 DEF InQuietHours
  <2> QED
    BY <1>1, <1>4, <2>1, <2>2, <2>3, <2>4
<1> QED
  BY <1>2, <1>3, <1>4

----------------------------------------------------------------------------
(* Rows                                                                    *)

LEMMA Names == NoAction \notin Actions /\ Manual \subseteq Actions /\ SystemKeys \subseteq Actions
BY RemindersAssumption DEF Actions, NoAction, SystemKeys

LEMMA CancelFacts ==
  ASSUME NEW rows \in [Reminders -> Reminder], NEW closed
  PROVE  /\ CancelReminders(rows, closed) \in [Reminders -> Reminder]
         /\ \A r \in Reminders :
              LET row == CancelReminders(rows, closed)[r]
              IN  /\ row.action = rows[r].action /\ row.kind = rows[r].kind
                  /\ \/ row.status = rows[r].status
                     \/ /\ row.status = "CANCELLED" /\ rows[r].action \in closed
                        /\ rows[r].status \in {"PENDING", "DISPATCHING"}
BY DEF CancelReminders, Reminder, ReminderStatus

LEMMA InsertFacts ==
  ASSUME NEW rows \in [Reminders -> Reminder], NEW r \in Reminders, NEW a \in Actions,
         NEW kind \in {"action", "review"}, NEW wait \in Nat
  PROVE  /\ Insert(rows, r, a, kind, wait) \in [Reminders -> Reminder]
         /\ Insert(rows, r, a, kind, wait)[r].action = a
         /\ Insert(rows, r, a, kind, wait)[r].status = "PENDING"
         /\ \A s \in Reminders \ {r} : Insert(rows, r, a, kind, wait)[s] = rows[s]
BY DEF Insert, Reminder, ReminderStatus

(* What the services do to a row: leave it, cancel it, or insert it.       *)
Same(r) ==
  /\ reminder'[r].action = reminder[r].action
  /\ \/ reminder'[r].status = reminder[r].status
     \/ /\ reminder'[r].status = "CANCELLED"
        /\ reminder[r].status \in {"PENDING", "DISPATCHING"}

New(r) ==
  /\ reminder[r].status = "NONE" /\ reminder'[r].status = "PENDING"
  /\ reminder'[r].action \in Actions /\ action'[reminder'[r].action] # "none"

QuietRows == \A r \in Reminders : Same(r) \/ New(r)

StaysNamed == \A a \in Actions : action[a] # "none" => action'[a] # "none"

LEMMA QuietStep ==
  ASSUME WorkInv, QuietRows, StaysNamed, UNCHANGED <<delivery, log>>
  PROVE  (\A r \in Reminders : RowInv(r)') /\ ActInv'
<1>1. ASSUME NEW r \in Reminders PROVE RowInv(r)'
  BY <1>1 DEF WorkInv, QuietRows, Same, New, RowInv
<1>2. ASSUME NEW r \in Reminders, reminder'[r].action \in Actions
      PROVE  action'[reminder'[r].action] # "none"
  BY <1>2 DEF WorkInv, QuietRows, Same, New, ActInv, StaysNamed
<1> QED
  BY <1>1, <1>2 DEF ActInv

(* The action gets no other row, and its live rows stay alive.             *)
KeepsRows(a) ==
  \A r \in Reminders :
    /\ reminder'[r].action = a => reminder[r].action = a
    /\ reminder[r].action = a /\ reminder[r].status \in Outstanding =>
         reminder'[r].action = a /\ reminder'[r].status \in Outstanding

LEMMA KeepStep ==
  ASSUME WorkInv, NEW a \in Manual \ muted, action[a] = "open",
         KeepsRows(a)
  PROVE  Kept(a)'
<1> SUFFICES ASSUME NEW r \in Reminders, reminder'[r].action = a
             PROVE  \E s \in Reminders : reminder'[s].action = a /\ reminder'[s].status \in Outstanding
  BY DEF Kept, Outstanding
<1>1. PICK s \in Reminders : reminder[s].action = a /\ reminder[s].status \in Outstanding
  BY DEF WorkInv, Kept, KeepsRows
<1> QED
  BY <1>1 DEF KeepsRows

----------------------------------------------------------------------------
(* The open work                                                           *)

LEMMA WantedKeys == WantedSystemKeys(view) \subseteq SystemKeys
BY DEF WantedSystemKeys, WorkflowStep, SystemKeys

LEMMA SyncStep ==
  ASSUME WorkInv, Sync, UNCHANGED <<delivery, chat, log, muted>>
  PROVE  WorkInv'
<1> DEFINE wanted == WantedSystemKeys(view)
           closed == {k \in SystemKeys \ wanted : action[k] = "open"}
           cancelled == CancelReminders(reminder, closed)
<1>1. action' = Synced(wanted) /\ Schedule(cancelled, wanted)
  BY DEF Sync
<1> HIDE DEF wanted
<1>2. wanted \subseteq SystemKeys
  BY WantedKeys DEF wanted
<1>3. /\ action' \in [Actions -> {"none", "open", "done"}]
      /\ StaysNamed
      /\ \A a \in Manual : action'[a] = action[a]
      /\ \A k \in wanted : action'[k] = "open"
  BY <1>1, <1>2, Names, RemindersAssumption
  DEF Synced, WorkInv, WorkTypeOK, StaysNamed, Actions
<1>4. reminder \in [Reminders -> Reminder]
  BY DEF WorkInv, WorkTypeOK
<1>5. /\ cancelled \in [Reminders -> Reminder]
      /\ \A r \in Reminders :
           /\ cancelled[r].action = reminder[r].action
           /\ \/ cancelled[r].status = reminder[r].status
              \/ /\ cancelled[r].status = "CANCELLED" /\ reminder[r].action \in closed
                 /\ reminder[r].status \in {"PENDING", "DISPATCHING"}
  BY <1>4, CancelFacts
<1> HIDE DEF cancelled
<1>6. /\ reminder' \in [Reminders -> Reminder]
      /\ QuietRows
      /\ \A a \in Manual : KeepsRows(a)
  <2>1. CASE reminder' = cancelled
    BY <1>2, <1>5, <2>1, RemindersAssumption DEF QuietRows, Same, KeepsRows, Outstanding
  <2>2. ASSUME NEW r \in Reminders, IsSpare(r), "report:review" \in wanted,
               reminder' = Insert(cancelled, r, "report:review", "review", ReviewDelay)
        PROVE  /\ reminder' \in [Reminders -> Reminder]
               /\ QuietRows
               /\ \A a \in Manual : KeepsRows(a)
    <3>1. "report:review" \in SystemKeys \cap Actions /\ "report:review" \notin Manual
      BY <1>2, <2>2, Names, RemindersAssumption
    <3>2. ReviewDelay \in Nat
      BY RemindersAssumption
    <3>3. /\ reminder' \in [Reminders -> Reminder]
          /\ reminder'[r].action = "report:review" /\ reminder'[r].status = "PENDING"
          /\ \A s \in Reminders \ {r} : reminder'[s] = cancelled[s]
      BY <1>5, <2>2, <3>1, <3>2, InsertFacts
    <3>4. reminder[r].status = "NONE" /\ reminder[r].action = NoAction
      BY <2>2 DEF IsSpare, IsNext, Unused, WorkInv, RowInv
    <3>5. New(r)
      BY <1>3, <2>2, <3>1, <3>3, <3>4 DEF New
    <3>6. \A s \in Reminders \ {r} : Same(s)
      BY <1>5, <3>3 DEF Same
    <3>7. ASSUME NEW a \in Manual, NEW s \in Reminders
          PROVE  /\ reminder'[s].action = a => reminder[s].action = a
                 /\ reminder[s].action = a /\ reminder[s].status \in Outstanding =>
                      reminder'[s].action = a /\ reminder'[s].status \in Outstanding
      <4>1. CASE s = r
        BY <3>1, <3>3, <3>4, <4>1 DEF Outstanding
      <4>2. CASE s # r
        <5>1. a \notin closed
          BY RemindersAssumption DEF closed
        <5> QED
          BY <1>5, <3>3, <4>2, <5>1
      <4> QED
        BY <4>1, <4>2
    <3> QED
      BY <3>3, <3>5, <3>6, <3>7 DEF QuietRows, KeepsRows
  <2> QED
    BY <1>1, <2>1, <2>2 DEF Schedule
<1>7. (\A r \in Reminders : RowInv(r)') /\ ActInv'
  BY <1>3, <1>6, QuietStep
<1>8. ASSUME NEW a \in Manual \ muted PROVE Kept(a)'
  <2>1. CASE action[a] = "open"
    BY <1>6, <2>1, KeepStep
  <2>2. CASE action[a] # "open"
    BY <1>3, <2>2 DEF Kept
  <2> QED
    BY <2>1, <2>2
<1>9. ChatInv'
  BY <1>3, Names DEF WorkInv, WorkTypeOK, ChatInv, Chat, StaysNamed
<1> QED
  BY <1>3, <1>6, <1>7, <1>8, <1>9 DEF WorkInv, WorkTypeOK

LEMMA NewActionStep ==
  ASSUME WorkInv, NEW a \in Manual, NewManualAction(a), UNCHANGED <<delivery, chat, log, muted>>
  PROVE  WorkInv'
<1>1. /\ action[a] = "none" /\ action' = [action EXCEPT ![a] = "open"]
      /\ action' \in [Actions -> {"none", "open", "done"}]
      /\ StaysNamed
      /\ \A b \in Manual \ {a} : action'[b] = action[b]
  BY Names DEF NewManualAction, WorkInv, WorkTypeOK, StaysNamed
<1>2. \A r \in Reminders : reminder[r].action # a
  BY <1>1, Names DEF WorkInv, ActInv
<1>3. reminder \in [Reminders -> Reminder]
  BY DEF WorkInv, WorkTypeOK
<1>4. /\ reminder' \in [Reminders -> Reminder]
      /\ QuietRows
      /\ \A b \in Manual \ {a} : KeepsRows(b)
      /\ \A r \in Reminders : reminder'[r].action = a => reminder'[r].status \in Outstanding
  <2>1. CASE reminder' = reminder
    BY <1>2, <1>3, <2>1 DEF QuietRows, Same, KeepsRows
  <2>2. ASSUME NEW r \in Reminders, NEW wait \in DueDelays, IsSpare(r),
               reminder' = Insert(reminder, r, a, "action", wait)
        PROVE  /\ reminder' \in [Reminders -> Reminder]
               /\ QuietRows
               /\ \A b \in Manual \ {a} : KeepsRows(b)
               /\ \A s \in Reminders : reminder'[s].action = a => reminder'[s].status \in Outstanding
    <3>1. a \in Actions /\ wait \in Nat
      BY Names, RemindersAssumption
    <3>2. /\ reminder' \in [Reminders -> Reminder]
          /\ reminder'[r].action = a /\ reminder'[r].status = "PENDING"
          /\ \A s \in Reminders \ {r} : reminder'[s] = reminder[s]
      BY <1>3, <2>2, <3>1, InsertFacts
    <3>3. reminder[r].status = "NONE" /\ reminder[r].action = NoAction
      BY <2>2 DEF IsSpare, IsNext, Unused, WorkInv, RowInv
    <3>4. New(r)
      BY <1>1, <3>1, <3>2, <3>3 DEF New, WorkInv, WorkTypeOK
    <3>5. \A s \in Reminders \ {r} : Same(s)
      BY <3>2 DEF Same
    <3>6. \A b \in Manual \ {a} : KeepsRows(b)
      BY <3>2, <3>3 DEF KeepsRows, Outstanding
    <3> QED
      BY <1>2, <3>2, <3>4, <3>5, <3>6 DEF QuietRows, Outstanding
  <2> QED
    BY <2>1, <2>2 DEF NewManualAction
<1>5. (\A r \in Reminders : RowInv(r)') /\ ActInv'
  BY <1>1, <1>4, QuietStep
<1>6. ASSUME NEW b \in Manual \ muted PROVE Kept(b)'
  <2>1. CASE b = a
    BY <1>4, <2>1 DEF Kept
  <2>2. CASE b # a /\ action[b] = "open"
    BY <1>4, <2>2, KeepStep
  <2>3. CASE b # a /\ action[b] # "open"
    BY <1>1, <2>3 DEF Kept
  <2> QED
    BY <2>1, <2>2, <2>3
<1>7. ChatInv'
  BY <1>1, Names DEF WorkInv, WorkTypeOK, ChatInv, Chat, StaysNamed
<1> QED
  BY <1>1, <1>4, <1>5, <1>6, <1>7 DEF WorkInv, WorkTypeOK

(* Buttons leave the chat as it was or forget the reminder.                *)
ChatForgets == chat' = chat \/ chat' = [prompt |-> NoAction, snoozing |-> "no"]

LEMMA ForgetStep ==
  ASSUME WorkInv, ChatForgets, StaysNamed PROVE chat' \in Chat /\ ChatInv'
BY Names DEF WorkInv, WorkTypeOK, ChatForgets, ChatInv, Chat, StaysNamed

LEMMA CompletedStep ==
  ASSUME WorkInv, NEW a \in Actions, action[a] # "none", Completed(a), ChatForgets,
         UNCHANGED <<delivery, log, muted>>
  PROVE  WorkInv'
<1>1. /\ action' \in [Actions -> {"none", "open", "done"}]
      /\ StaysNamed
      /\ action'[a] = "done" /\ \A b \in Actions \ {a} : action'[b] = action[b]
  BY DEF Completed, WorkInv, WorkTypeOK, StaysNamed
<1>2. reminder \in [Reminders -> Reminder]
  BY DEF WorkInv, WorkTypeOK
<1>3. /\ reminder' \in [Reminders -> Reminder]
      /\ \A r \in Reminders :
           /\ reminder'[r].action = reminder[r].action
           /\ \/ reminder'[r].status = reminder[r].status
              \/ /\ reminder'[r].status = "CANCELLED" /\ reminder[r].action \in {a}
                 /\ reminder[r].status \in {"PENDING", "DISPATCHING"}
  BY <1>2, CancelFacts DEF Completed
<1>4. QuietRows
  BY <1>3 DEF QuietRows, Same
<1>5. \A b \in Manual \ {a} : KeepsRows(b)
  BY <1>3 DEF KeepsRows
<1>6. ASSUME NEW b \in Manual \ muted PROVE Kept(b)'
  <2>1. CASE b = a
    BY <1>1, <2>1 DEF Kept
  <2>2. CASE b # a /\ action[b] = "open"
    BY <1>5, <2>2, KeepStep
  <2>3. CASE b # a /\ action[b] # "open"
    BY <1>1, <2>3, Names DEF Kept
  <2> QED
    BY <2>1, <2>2, <2>3
<1>7. (\A r \in Reminders : RowInv(r)') /\ ActInv'
  BY <1>1, <1>4, QuietStep
<1> QED
  BY <1>1, <1>3, <1>6, <1>7, ForgetStep DEF WorkInv, WorkTypeOK

(* A new row for the postponed action, or none and the user's wish.        *)
LEMMA SnoozeStep == ASSUME WorkInv, Snooze PROVE WorkInv'
<1> DEFINE a == chat.prompt
           cancelled == CancelReminders(reminder, {a})
<1>1. a \in Actions /\ action[a] # "none"
  BY DEF Snooze, WorkInv, WorkTypeOK, ChatInv, Chat
<1>2. UNCHANGED <<action, delivery, log>> /\ ChatForgets /\ StaysNamed
  BY DEF Snooze, work, ChatForgets, StaysNamed
<1>3. reminder \in [Reminders -> Reminder]
  BY DEF WorkInv, WorkTypeOK
<1>4. /\ cancelled \in [Reminders -> Reminder]
      /\ \A r \in Reminders :
           /\ cancelled[r].action = reminder[r].action
           /\ \/ cancelled[r].status = reminder[r].status
              \/ /\ cancelled[r].status = "CANCELLED" /\ reminder[r].action \in {a}
                 /\ reminder[r].status \in {"PENDING", "DISPATCHING"}
  BY <1>3, CancelFacts
<1>5. /\ reminder' \in [Reminders -> Reminder] /\ muted' \subseteq Actions
      /\ QuietRows
      /\ \A b \in Manual \ {a} : KeepsRows(b)
      /\ muted \subseteq muted'
      /\ \/ a \in muted'
         \/ \E r \in Reminders : reminder'[r].action = a /\ reminder'[r].status \in Outstanding
  <2>1. CASE reminder' = cancelled /\ muted' = muted \cup {a}
    <3>1. QuietRows /\ \A b \in Manual \ {a} : KeepsRows(b)
      BY <1>4, <2>1 DEF QuietRows, Same, KeepsRows
    <3> QED
      BY <1>1, <1>4, <2>1, <3>1 DEF WorkInv, WorkTypeOK
  <2>2. ASSUME NEW r \in Reminders, IsNext(r), UNCHANGED muted,
               reminder' = Insert(cancelled, r, a, "action", Day)
        PROVE  /\ reminder' \in [Reminders -> Reminder] /\ muted' \subseteq Actions
               /\ QuietRows
               /\ \A b \in Manual \ {a} : KeepsRows(b)
               /\ muted \subseteq muted'
               /\ \E s \in Reminders :
                    reminder'[s].action = a /\ reminder'[s].status \in Outstanding
    <3>1. Day \in Nat
      BY RemindersAssumption
    <3> HIDE DEF cancelled
    <3>2. /\ reminder' \in [Reminders -> Reminder]
          /\ reminder'[r].action = a /\ reminder'[r].status = "PENDING"
          /\ \A s \in Reminders \ {r} : reminder'[s] = cancelled[s]
      BY <1>1, <1>4, <2>2, <3>1, InsertFacts
    <3>3. reminder[r].status = "NONE" /\ reminder[r].action = NoAction
      BY <2>2 DEF IsNext, Unused, WorkInv, RowInv
    <3>4. New(r)
      BY <1>1, <1>2, <3>2, <3>3 DEF New
    <3>5. \A s \in Reminders \ {r} : Same(s)
      BY <1>4, <3>2 DEF Same
    <3>6. ASSUME NEW b \in Manual \ {a}, NEW s \in Reminders
          PROVE  /\ reminder'[s].action = b => reminder[s].action = b
                 /\ reminder[s].action = b /\ reminder[s].status \in Outstanding =>
                      reminder'[s].action = b /\ reminder'[s].status \in Outstanding
      <4>1. CASE s = r
        BY <3>2, <3>3, <4>1 DEF Outstanding
      <4>2. CASE s # r
        BY <1>4, <3>2, <4>2
      <4> QED
        BY <4>1, <4>2
    <3> QED
      BY <2>2, <3>2, <3>4, <3>5, <3>6 DEF QuietRows, KeepsRows, Outstanding, WorkInv, WorkTypeOK
  <2> QED
    BY <2>1, <2>2 DEF Snooze
<1>6. ASSUME NEW b \in Manual \ muted' PROVE Kept(b)'
  <2>1. CASE b = a
    BY <1>5, <2>1 DEF Kept
  <2>2. CASE b # a /\ action[b] = "open"
    BY <1>5, <2>2, KeepStep
  <2>3. CASE b # a /\ action[b] # "open"
    BY <1>2, <2>3 DEF Kept
  <2> QED
    BY <2>1, <2>2, <2>3
<1>7. (\A r \in Reminders : RowInv(r)') /\ ActInv'
  BY <1>2, <1>5, QuietStep
<1> QED
  BY <1>2, <1>5, <1>6, <1>7, ForgetStep DEF WorkInv, WorkTypeOK

LEMMA ReadStep == ASSUME WorkInv, ReadForSnooze PROVE WorkInv'
<1>1. chat.prompt \in Actions /\ action[chat.prompt] \in {"open", "done"}
  BY Names DEF ReadForSnooze, WorkInv, WorkTypeOK, ChatInv, Chat
<1>2. /\ chat' = [chat EXCEPT !.snoozing = action[chat.prompt]]
      /\ UNCHANGED <<action, reminder, delivery, log, muted>>
  BY DEF ReadForSnooze, work, history
<1>3. chat' \in Chat /\ chat'.prompt = chat.prompt
  BY <1>1, <1>2 DEF WorkInv, WorkTypeOK, Chat
<1> QED
  BY <1>1, <1>2, <1>3, Names DEF WorkInv, WorkTypeOK, RowInv, ActInv, ChatInv, Kept, Outstanding

----------------------------------------------------------------------------
(* The dispatcher                                                          *)

(* A worker's step on its own row: nothing else moves, and the row keeps   *)
(* its action.                                                             *)
OwnRow(r) ==
  /\ \A s \in Reminders \ {r} :
       /\ reminder'[s] = reminder[s] /\ delivery'[s] = delivery[s] /\ log'[s] = log[s]
  /\ reminder'[r].action = reminder[r].action
  /\ UNCHANGED action

LEMMA OwnRowStep ==
  ASSUME WorkInv, NEW r \in Reminders, OwnRow(r), RowInv(r)',
         reminder'[r].status \in Outstanding \/ reminder[r].status \notin Outstanding
           \/ reminder[r].action \notin Manual \/ reminder[r].action \in muted'
           \/ action[reminder[r].action] # "open",
         muted \subseteq muted'
  PROVE  /\ \A s \in Reminders : RowInv(s)'
         /\ ActInv'
         /\ \A a \in Manual \ muted' : Kept(a)'
<1>1. ASSUME NEW s \in Reminders PROVE RowInv(s)'
  <2>1. CASE s = r
    BY <2>1
  <2>2. CASE s # r
    BY <2>2 DEF WorkInv, RowInv, OwnRow
  <2> QED
    BY <2>1, <2>2
<1>2. ActInv'
  BY DEF OwnRow, WorkInv, ActInv
<1>3. ASSUME NEW a \in Manual \ muted' PROVE Kept(a)'
  <2>1. CASE action[a] = "open"
    <3>1. KeepsRows(a)
      BY <2>1 DEF OwnRow, KeepsRows
    <3> QED
      BY <2>1, <3>1, KeepStep
  <2>2. CASE action[a] # "open"
    BY <2>2 DEF OwnRow, Kept
  <2> QED
    BY <2>1, <2>2
<1> QED
  BY <1>1, <1>2, <1>3

LEMMA RowTypes ==
  ASSUME WorkInv, NEW r \in Reminders
  PROVE  /\ reminder[r] \in Reminder /\ delivery[r] \in Delivery
         /\ log[r] \in [sent : Nat, failed : Nat] /\ RowInv(r)
BY DEF WorkInv, WorkTypeOK

LEMMA ClaimStep == ASSUME OtherTypeOK, WorkInv, NEW r \in Reminders, Claim(r) PROVE WorkInv'
<1>1. /\ reminder[r] \in Reminder /\ RowInv(r) /\ reminder[r].status = "PENDING"
      /\ reminder[r].action \in Actions /\ delivery[r] = "none"
      /\ log[r].sent <= log[r].failed /\ log[r].sent \in Nat /\ log[r].failed \in Nat
  BY RowTypes DEF Claim, RowInv
<1>2. NextAllowed(prefs, hour) \in Nat
  BY NextAllowedFacts, RemindersAssumption DEF OtherTypeOK
<1>3. UNCHANGED <<action, chat, log>>
  BY DEF Claim, work
<1>4. /\ [reminder EXCEPT ![r].status = "CANCELLED"] \in [Reminders -> Reminder]
      /\ [reminder EXCEPT ![r].status = "DISPATCHING"] \in [Reminders -> Reminder]
      /\ [reminder EXCEPT ![r].wait = NextAllowed(prefs, hour)] \in [Reminders -> Reminder]
  BY <1>1, <1>2 DEF WorkInv, WorkTypeOK, Reminder, ReminderStatus
<1>5. /\ reminder' \in [Reminders -> Reminder] /\ delivery' \in [Reminders -> Delivery]
      /\ muted' \subseteq Actions /\ muted \subseteq muted'
      /\ OwnRow(r) /\ RowInv(r)'
      /\ reminder'[r].status \in Outstanding \/ reminder[r].action \in muted'
           \/ action[reminder[r].action] # "open"
  <2>1. CASE /\ reminder' = [reminder EXCEPT ![r].status = "CANCELLED"]
             /\ muted' = muted \cup {reminder[r].action} /\ UNCHANGED delivery
    BY <1>1, <1>3, <1>4, <2>1 DEF WorkInv, WorkTypeOK, OwnRow, RowInv
  <2>2. CASE /\ reminder' = [reminder EXCEPT ![r].wait = NextAllowed(prefs, hour)]
             /\ UNCHANGED <<delivery, muted>>
    BY <1>1, <1>3, <1>4, <2>2 DEF WorkInv, WorkTypeOK, OwnRow, RowInv, Outstanding
  <2>3. CASE /\ reminder' = [reminder EXCEPT ![r].status = "CANCELLED"]
             /\ UNCHANGED <<delivery, muted>> /\ action[reminder[r].action] # "open"
    BY <1>1, <1>3, <1>4, <2>3 DEF WorkInv, WorkTypeOK, OwnRow, RowInv
  <2>4. CASE /\ reminder' = [reminder EXCEPT ![r].status = "DISPATCHING"]
             /\ delivery' = [delivery EXCEPT ![r] = "claimed"] /\ UNCHANGED muted
    BY <1>1, <1>3, <1>4, <2>4 DEF WorkInv, WorkTypeOK, OwnRow, RowInv, Outstanding, Delivery
  <2> QED
    BY <2>1, <2>2, <2>3, <2>4 DEF Claim
<1>6. /\ \A s \in Reminders : RowInv(s)'
      /\ ActInv' /\ \A a \in Manual \ muted' : Kept(a)'
  BY <1>5, OwnRowStep
<1> QED
  BY <1>3, <1>5, <1>6 DEF WorkInv, WorkTypeOK, ChatInv

LEMMA DeliverStep == ASSUME WorkInv, NEW r \in Reminders, Deliver(r) PROVE WorkInv'
<1>1. /\ reminder[r] \in Reminder /\ RowInv(r) /\ delivery[r] = "claimed"
      /\ log[r] \in [sent : Nat, failed : Nat]
  BY RowTypes DEF Deliver
<1>2. /\ reminder[r].status \notin {"NONE", "PENDING"} /\ reminder[r].action \in Actions
      /\ log[r].sent <= log[r].failed
  BY <1>1 DEF RowInv
<1>3. /\ delivery' = [delivery EXCEPT ![r] = "delivered"]
      /\ log' = [log EXCEPT ![r].sent = @ + 1]
      /\ chat' = [chat EXCEPT !.prompt = reminder[r].action] /\ chat.snoozing = "no"
      /\ UNCHANGED <<action, reminder, muted>>
  BY DEF Deliver, work
<1>4. /\ delivery' \in [Reminders -> Delivery]
      /\ log' \in [Reminders -> [sent : Nat, failed : Nat]]
      /\ log'[r].sent = log[r].sent + 1 /\ log'[r].failed = log[r].failed
  BY <1>1, <1>3 DEF WorkInv, WorkTypeOK, Delivery
<1>5. OwnRow(r)
  BY <1>3 DEF OwnRow, WorkInv, WorkTypeOK
<1>6. RowInv(r)'
  BY <1>1, <1>2, <1>3, <1>4 DEF RowInv, WorkInv, WorkTypeOK
<1>7. /\ \A s \in Reminders : RowInv(s)'
      /\ ActInv' /\ \A a \in Manual \ muted' : Kept(a)'
  BY <1>3, <1>5, <1>6, OwnRowStep
<1>8. chat' \in Chat /\ ChatInv'
  BY <1>2, <1>3, Names DEF WorkInv, WorkTypeOK, Chat, ChatInv, ActInv
<1> QED
  BY <1>3, <1>4, <1>7, <1>8 DEF WorkInv, WorkTypeOK

LEMMA MarkSentStep == ASSUME WorkInv, NEW r \in Reminders, MarkSent(r) PROVE WorkInv'
<1>1. /\ reminder[r] \in Reminder /\ RowInv(r) /\ delivery[r] = "delivered"
      /\ reminder[r].action \in Actions
  BY RowTypes DEF MarkSent, RowInv
<1>2. /\ delivery' = [delivery EXCEPT ![r] = "none"]
      /\ reminder' = [reminder EXCEPT ![r].status = "SENT", ![r].wait = 0]
      /\ UNCHANGED <<action, chat, log, muted>>
  BY DEF MarkSent, work, history
<1>3. /\ delivery' \in [Reminders -> Delivery] /\ reminder' \in [Reminders -> Reminder]
      /\ reminder'[r].status = "SENT" /\ reminder'[r].action = reminder[r].action
      /\ delivery'[r] = "none"
  BY <1>1, <1>2 DEF WorkInv, WorkTypeOK, Delivery, Reminder, ReminderStatus
<1>4. OwnRow(r)
  BY <1>2, <1>3 DEF OwnRow, WorkInv, WorkTypeOK
<1>5. RowInv(r)'
  BY <1>1, <1>2, <1>3 DEF RowInv
<1>6. /\ \A s \in Reminders : RowInv(s)'
      /\ ActInv' /\ \A a \in Manual \ muted' : Kept(a)'
  BY <1>2, <1>3, <1>4, <1>5, OwnRowStep DEF Outstanding
<1> QED
  BY <1>2, <1>3, <1>6 DEF WorkInv, WorkTypeOK, ChatInv

LEMMA MarkFailedStep == ASSUME WorkInv, NEW r \in Reminders, MarkFailed(r) PROVE WorkInv'
<1>1. /\ reminder[r] \in Reminder /\ RowInv(r) /\ delivery[r] = "claimed"
      /\ log[r] \in [sent : Nat, failed : Nat]
      /\ reminder[r].action \in Actions /\ log[r].sent <= log[r].failed
  BY RowTypes DEF MarkFailed, RowInv
<1>2. /\ delivery' = [delivery EXCEPT ![r] = "none"]
      /\ reminder' = [reminder EXCEPT ![r].status = "PENDING", ![r].wait = RetryDelay]
      /\ UNCHANGED <<action, chat, muted>>
  BY DEF MarkFailed, work
<1>3. PICK left \in 0 .. 1 :
        log' = [log EXCEPT ![r] = [sent |-> @.sent + left, failed |-> @.failed + 1]]
  BY DEF MarkFailed
<1>4. /\ log' \in [Reminders -> [sent : Nat, failed : Nat]]
      /\ log'[r].sent <= log'[r].failed /\ log'[r].sent \in Nat /\ log'[r].failed \in Nat
  BY <1>1, <1>3 DEF WorkInv, WorkTypeOK
<1>5. RetryDelay \in Nat
  BY RemindersAssumption
<1>6. /\ delivery' \in [Reminders -> Delivery] /\ reminder' \in [Reminders -> Reminder]
      /\ reminder'[r].status = "PENDING" /\ reminder'[r].action = reminder[r].action
      /\ delivery'[r] = "none"
  BY <1>1, <1>2, <1>5 DEF WorkInv, WorkTypeOK, Delivery, Reminder, ReminderStatus
<1>7. OwnRow(r)
  BY <1>2, <1>3, <1>6 DEF OwnRow, WorkInv, WorkTypeOK
<1>8. RowInv(r)'
  BY <1>1, <1>4, <1>6 DEF RowInv
<1>9. /\ \A s \in Reminders : RowInv(s)'
      /\ ActInv' /\ \A a \in Manual \ muted' : Kept(a)'
  BY <1>2, <1>6, <1>7, <1>8, OwnRowStep DEF Outstanding
<1> QED
  BY <1>2, <1>4, <1>6, <1>9 DEF WorkInv, WorkTypeOK, ChatInv

LEMMA LoseStep == ASSUME WorkInv, NEW r \in Reminders, LoseWorker(r) PROVE WorkInv'
<1>1. RowInv(r) /\ delivery[r] \in {"claimed", "delivered"}
  BY RowTypes DEF LoseWorker
<1>2. /\ delivery' = [delivery EXCEPT ![r] = "lost"]
      /\ UNCHANGED <<action, reminder, chat, log, muted>>
  BY DEF LoseWorker, work, history
<1>3. delivery' \in [Reminders -> Delivery] /\ delivery'[r] = "lost"
  BY <1>2 DEF WorkInv, WorkTypeOK, Delivery
<1>4. OwnRow(r)
  BY <1>2 DEF OwnRow, WorkInv, WorkTypeOK
<1>5. RowInv(r)'
  BY <1>1, <1>2, <1>3 DEF RowInv
<1>6. /\ \A s \in Reminders : RowInv(s)'
      /\ ActInv' /\ \A a \in Manual \ muted' : Kept(a)'
  BY <1>2, <1>4, <1>5, OwnRowStep
<1> QED
  BY <1>2, <1>3, <1>6 DEF WorkInv, WorkTypeOK, ChatInv

(* Time only shortens what is left.                                        *)
LEMMA WaitStep ==
  ASSUME WorkInv, reminder' = [r \in Reminders |-> Waited(reminder[r])],
         UNCHANGED <<action, delivery, chat, log, muted>>
  PROVE  WorkInv'
<1>1. ASSUME NEW row \in Reminder
      PROVE  /\ Waited(row) \in Reminder
             /\ Waited(row).action = row.action /\ Waited(row).status = row.status
  BY <1>1 DEF Waited, Reminder
<1>2. /\ reminder' \in [Reminders -> Reminder]
      /\ \A r \in Reminders : /\ reminder'[r].action = reminder[r].action
                              /\ reminder'[r].status = reminder[r].status
  BY <1>1 DEF WorkInv, WorkTypeOK
<1>3. QuietRows /\ StaysNamed /\ \A a \in Manual : KeepsRows(a)
  BY <1>2 DEF QuietRows, Same, StaysNamed, KeepsRows
<1>4. (\A r \in Reminders : RowInv(r)') /\ ActInv'
  BY <1>3, QuietStep
<1>5. ASSUME NEW a \in Manual \ muted PROVE Kept(a)'
  <2>1. CASE action[a] = "open"
    BY <1>3, <2>1, KeepStep
  <2>2. CASE action[a] # "open"
    BY <2>2 DEF Kept
  <2> QED
    BY <2>1, <2>2
<1> QED
  BY <1>2, <1>4, <1>5 DEF WorkInv, WorkTypeOK, ChatInv

----------------------------------------------------------------------------
(* The digests                                                             *)

LEMMA DigestMoves ==
  ASSUME DigestInv, NEW k \in DigestTypes, NEW row \in Digest, DigestOK(row), DigestTask(k, row)
  PROVE  DigestInv'
BY DEF DigestInv, DigestTask

LEMMA DigestStepInv == ASSUME DigestInv, NEW k \in DigestTypes, DigestStep(k) PROVE DigestInv'
<1> DEFINE d == digest[k]
<1>1. /\ d \in Digest /\ DigestOK(d) /\ MaxLosses \in Nat
  BY RemindersAssumption DEF DigestInv
<1>2. PICK row : DigestTask(k, row) /\ row \in Digest /\ DigestOK(row)
  <2>1. CASE PublishDigest(k)
    <3>1. /\ [d EXCEPT !.task = "queued", !.published = TRUE] \in Digest
          /\ DigestOK([d EXCEPT !.task = "queued", !.published = TRUE])
      BY <1>1, <2>1 DEF PublishDigest, Digest, DigestOK, Sent
    <3> QED
      BY <2>1, <3>1 DEF PublishDigest
  <2>2. CASE SkipDigest(k)
    <3>1. [d EXCEPT !.task = "none"] \in Digest /\ DigestOK([d EXCEPT !.task = "none"])
      BY <1>1, <2>2 DEF SkipDigest, Digest, DigestOK, Sent
    <3> QED
      BY <2>2, <3>1 DEF SkipDigest
  <2>3. CASE CheckDigest(k)
    <3>1. d.task = "queued"
      BY <2>3 DEF CheckDigest
    <3>2. CASE DigestTask(k, [d EXCEPT !.task = "none"])
      <4>1. [d EXCEPT !.task = "none"] \in Digest /\ DigestOK([d EXCEPT !.task = "none"])
        BY <1>1, <3>1 DEF Digest, DigestOK, Sent
      <4> QED
        BY <3>2, <4>1
    <3>3. CASE DigestTask(k, [d EXCEPT !.task = "checked"]) /\ ~d.recorded
      <4>1. [d EXCEPT !.task = "checked"] \in Digest /\ DigestOK([d EXCEPT !.task = "checked"])
        BY <1>1, <3>1, <3>3 DEF Digest, DigestOK, Sent
      <4> QED
        BY <3>3, <4>1
    <3> QED
      BY <2>3, <3>2, <3>3 DEF CheckDigest
  <2>4. CASE SendDigest(k)
    <3> DEFINE row == [d EXCEPT !.task = "sent",
                                !.sends = IF d.current THEN d.sends + 1 ELSE d.sends]
    <3>1. d.task = "checked" /\ DigestTask(k, row)
      BY <2>4 DEF SendDigest
    <3>2. row \in Digest
      <4>1. (IF d.current THEN d.sends + 1 ELSE d.sends) \in Nat
        BY <1>1 DEF Digest
      <4> QED
        BY <1>1, <4>1 DEF Digest
    <3>3. DigestOK(row)
      BY <1>1, <3>1 DEF Digest, DigestOK, Sent
    <3> QED
      BY <3>1, <3>2, <3>3
  <2>5. CASE FailDigest(k)
    <3>1. /\ [d EXCEPT !.task = "none", !.current = TRUE] \in Digest
          /\ DigestOK([d EXCEPT !.task = "none", !.current = TRUE])
      BY <1>1, <2>5 DEF FailDigest, Digest, DigestOK, Sent
    <3> QED
      BY <2>5, <3>1 DEF FailDigest
  <2>6. CASE RecordDigest(k)
    <3> DEFINE row == [d EXCEPT !.task = "none", !.current = TRUE,
                                !.recorded = d.recorded \/ d.current]
    <3>1. d.task = "sent" /\ DigestTask(k, row)
      BY <2>6 DEF RecordDigest
    <3>2. row \in Digest
      BY <1>1 DEF Digest
    <3>3. DigestOK(row)
      BY <1>1, <3>1 DEF Digest, DigestOK, Sent
    <3> QED
      BY <3>1, <3>2, <3>3
  <2>7. CASE LoseDigestWorker(k)
    <3> DEFINE row == [d EXCEPT !.task = "queued", !.current = TRUE, !.losses = d.losses + 1]
    <3>1. d.losses < MaxLosses /\ d.task \in {"checked", "sent"} /\ DigestTask(k, row)
      BY <2>7 DEF LoseDigestWorker
    <3>2. row \in Digest
      <4>1. d.losses + 1 \in 0 .. MaxLosses
        BY <1>1, <3>1 DEF Digest
      <4> QED
        BY <1>1, <4>1 DEF Digest
    <3>3. DigestOK(row)
      BY <1>1, <3>1 DEF Digest, DigestOK, Sent
    <3> QED
      BY <3>1, <3>2, <3>3
  <2> QED
    BY <2>1, <2>2, <2>3, <2>4, <2>5, <2>6, <2>7 DEF DigestStep
<1> QED
  BY <1>2, DigestMoves

LEMMA NewPeriodOK ==
  \A d \in Digest : Rollover(d) \in Digest /\ DigestOK(Rollover(d))
<1> SUFFICES ASSUME NEW d \in Digest PROVE Rollover(d) \in Digest /\ DigestOK(Rollover(d))
  OBVIOUS
<1>1. 0 \in 0 .. MaxLosses
  BY RemindersAssumption
<1>2. /\ NewPeriod \in Digest /\ NewPeriod.sends = 0 /\ NewPeriod.losses = 0
      /\ NewPeriod.recorded = FALSE
  BY <1>1 DEF NewPeriod, Digest
<1>3. PICK current \in BOOLEAN :
        /\ Rollover(d) = [NewPeriod EXCEPT !.task = d.task, !.current = current]
        /\ d.task \in {"none", "queued"} => current
  <2>1. CASE d.task \in {"none", "queued"}
    <3>1. (d.task \in {"none", "queued"}) = TRUE
      BY <2>1
    <3> QED
      BY <3>1 DEF Rollover
  <2>2. CASE d.task \notin {"none", "queued"}
    <3>1. (d.task \in {"none", "queued"}) = FALSE
      BY <2>2
    <3> QED
      BY <2>2, <3>1 DEF Rollover
  <2> QED
    BY <2>1, <2>2
<1> HIDE DEF NewPeriod
<1>4. Rollover(d) \in Digest
  BY <1>2, <1>3 DEF Digest
<1>5. /\ Rollover(d).sends = 0 /\ Rollover(d).losses = 0 /\ Rollover(d).recorded = FALSE
      /\ d.task \in {"none", "queued"} => Rollover(d).current
      /\ Rollover(d).task = d.task
  BY <1>2, <1>3 DEF Digest
<1>6. Sent(Rollover(d)) \in {0, 1}
  BY DEF Sent
<1>7. Rollover(d).sends <= Rollover(d).losses + Sent(Rollover(d))
  BY <1>5, <1>6
<1>8. DigestOK(Rollover(d))
  BY <1>5, <1>7 DEF DigestOK
<1> QED
  BY <1>4, <1>8

LEMMA PeriodsStep == ASSUME DigestInv, digest' \in Periods PROVE DigestInv'
<1>1. CASE digest' = digest
  BY <1>1 DEF DigestInv
<1>2. ASSUME NEW ended,
             digest' = [k \in DigestTypes |-> IF k \in ended THEN Rollover(digest[k]) ELSE digest[k]]
      PROVE  DigestInv'
  BY <1>2, NewPeriodOK DEF DigestInv
<1> QED
  BY <1>1, <1>2 DEF Periods

----------------------------------------------------------------------------
(* The specification                                                       *)

LEMMA InitIInv == InitReminders => IInv
<1> SUFFICES ASSUME InitReminders PROVE IInv
  OBVIOUS
<1>1. OtherTypeOK
  BY RemindersAssumption DEF InitReminders, OtherTypeOK, Suggestion
<1>2. WorkTypeOK
  BY DEF InitReminders, WorkTypeOK, Reminder, NoReminder, ReminderStatus, Delivery, Chat
<1>3. WorkInv
  BY <1>2, Names DEF InitReminders, WorkInv, RowInv, ActInv, ChatInv, Kept, NoReminder
<1>4. \A k \in DigestTypes : digest[k] \in Digest /\ DigestOK(digest[k])
  <2>1. 0 \in 0 .. MaxLosses
    BY RemindersAssumption
  <2> QED
    BY <2>1 DEF InitReminders, NewPeriod, Digest, DigestOK, Sent
<1>5. DigestInv
  BY <1>4 DEF InitReminders, DigestInv
<1> QED
  BY <1>1, <1>3, <1>5 DEF IInv

LEMMA OtherStep == ASSUME OtherTypeOK, NextReminders PROVE OtherTypeOK'
<1> USE DEF OtherTypeOK
<1>1. CASE UserStep
  <2>1. CASE SetPreferences
    BY <2>1 DEF SetPreferences, work
  <2>2. ASSUME NEW s \in Suggestions, NEW a \in Manual,
               ProposeSuggestion(s) \/ RejectSuggestion(s) \/ AcceptSuggestion(s, a)
        PROVE  OtherTypeOK'
    BY <2>2 DEF ProposeSuggestion, RejectSuggestion, AcceptSuggestion, Suggestion
  <2>3. ASSUME NEW s \in Suggestions, ProposeSuggestion(s) \/ RejectSuggestion(s)
        PROVE  OtherTypeOK'
    BY <2>3 DEF ProposeSuggestion, RejectSuggestion, Suggestion
  <2>4. CASE UNCHANGED <<hour, prefs, view, suggestion>>
    BY <2>4
  <2> QED
    BY <1>1, <2>1, <2>2, <2>3, <2>4
    DEF UserStep, ListOpenWork, AnswerDone, ReadForSnooze, Snooze, CreateManualAction,
        CompleteAction, work
<1>2. CASE ChangeCase
  BY <1>2 DEF ChangeCase, work
<1>3. CASE Tick
  <2>1. hour + 1 \in Nat /\ Day \in Nat \ {0}
    BY RemindersAssumption
  <2>2. (hour + 1) % Day \in 0 .. Day - 1
    BY <2>1, NextHour
  <2> QED
    BY <1>3, <2>2 DEF Tick, work
<1>4. ASSUME NEW r \in Reminders, DispatchStep(r) PROVE OtherTypeOK'
  BY <1>4 DEF DispatchStep, Claim, Deliver, MarkSent, MarkFailed, LoseWorker, work
<1>5. ASSUME NEW k \in DigestTypes, DigestStep(k) PROVE OtherTypeOK'
  BY <1>5 DEF DigestStep, PublishDigest, SkipDigest, CheckDigest, SendDigest, FailDigest,
     RecordDigest, LoseDigestWorker, work
<1> QED
  BY <1>1, <1>2, <1>3, <1>4, <1>5 DEF NextReminders

(* Steps that leave the open work alone.                                   *)
LEMMA WorkStays ==
  ASSUME WorkInv, UNCHANGED <<action, reminder, delivery, chat, log, muted>> PROVE WorkInv'
BY DEF WorkInv, WorkTypeOK, RowInv, ActInv, ChatInv, Kept

LEMMA WorkStep == ASSUME OtherTypeOK, WorkInv, NextReminders PROVE WorkInv'
<1>1. CASE UserStep
  <2>1. CASE ListOpenWork
    BY <2>1, SyncStep DEF ListOpenWork, history
  <2>2. CASE SetPreferences
    BY <2>2, WorkStays DEF SetPreferences, work, history
  <2>3. CASE AnswerDone
    <3>1. chat.prompt \in Actions /\ action[chat.prompt] # "none"
      BY <2>3 DEF AnswerDone, WorkInv, WorkTypeOK, ChatInv, Chat
    <3>2. ChatForgets /\ UNCHANGED <<delivery, log, muted>>
      <4>1. [chat EXCEPT !.prompt = NoAction] = [prompt |-> NoAction, snoozing |-> "no"]
        BY <2>3 DEF AnswerDone, WorkInv, WorkTypeOK, Chat
      <4> QED
        BY <2>3, <4>1 DEF AnswerDone, ChatForgets, history
    <3>3. CASE chat.prompt \in Manual
      BY <2>3, <3>1, <3>2, <3>3, CompletedStep DEF AnswerDone
    <3>4. CASE chat.prompt \notin Manual
      <4>1. UNCHANGED <<action, reminder, delivery, log, muted>>
        BY <2>3, <3>2, <3>4 DEF AnswerDone
      <4>2. chat' \in Chat /\ ChatInv'
        BY <3>2, <4>1, ForgetStep DEF StaysNamed
      <4> QED
        BY <4>1, <4>2 DEF WorkInv, WorkTypeOK, RowInv, ActInv, Kept
    <3> QED
      BY <3>3, <3>4
  <2>4. CASE ReadForSnooze
    BY <2>4, ReadStep
  <2>5. CASE Snooze
    BY <2>5, SnoozeStep
  <2>6. ASSUME NEW a \in Manual, CreateManualAction(a) PROVE WorkInv'
    BY <2>6, NewActionStep DEF CreateManualAction, history
  <2>7. ASSUME NEW a \in Manual, CompleteAction(a) PROVE WorkInv'
    BY <2>7, CompletedStep, Names DEF CompleteAction, ChatForgets, history
  <2>8. ASSUME NEW s \in Suggestions, ProposeSuggestion(s) \/ RejectSuggestion(s) PROVE WorkInv'
    BY <2>8, WorkStays DEF ProposeSuggestion, RejectSuggestion, history
  <2>9. ASSUME NEW s \in Suggestions, NEW a \in Manual, AcceptSuggestion(s, a) PROVE WorkInv'
    BY <2>9, NewActionStep DEF AcceptSuggestion, history
  <2> QED
    BY <1>1, <2>1, <2>2, <2>3, <2>4, <2>5, <2>6, <2>7, <2>8, <2>9 DEF UserStep
<1>2. CASE ChangeCase
  BY <1>2, WorkStays DEF ChangeCase, work, history
<1>3. CASE Tick
  BY <1>3, WaitStep DEF Tick, work, history
<1>4. ASSUME NEW r \in Reminders, DispatchStep(r) PROVE WorkInv'
  BY <1>4, ClaimStep, DeliverStep, MarkSentStep, MarkFailedStep, LoseStep DEF DispatchStep
<1>5. ASSUME NEW k \in DigestTypes, DigestStep(k) PROVE WorkInv'
  <2>1. CASE CheckDigest(k)
    BY <2>1, SyncStep DEF CheckDigest, history
  <2>2. CASE UNCHANGED <<work, reminder, delivery, chat, history>>
    BY <2>2, WorkStays DEF work, history
  <2> QED
    BY <1>5, <2>1, <2>2 DEF DigestStep, PublishDigest, SkipDigest, SendDigest, FailDigest,
       RecordDigest, LoseDigestWorker
<1> QED
  BY <1>1, <1>2, <1>3, <1>4, <1>5 DEF NextReminders

LEMMA DigestsStep == ASSUME DigestInv, NextReminders PROVE DigestInv'
<1>1. CASE Tick
  BY <1>1, PeriodsStep DEF Tick
<1>2. ASSUME NEW k \in DigestTypes, DigestStep(k) PROVE DigestInv'
  BY <1>2, DigestStepInv
<1>3. CASE UNCHANGED digest
  BY <1>3 DEF DigestInv
<1> QED
  BY <1>1, <1>2, <1>3
  DEF NextReminders, UserStep, ChangeCase, DispatchStep, ListOpenWork, SetPreferences, AnswerDone,
      ReadForSnooze, Snooze, CreateManualAction, CompleteAction, ProposeSuggestion,
      RejectSuggestion, AcceptSuggestion, Claim, Deliver, MarkSent, MarkFailed, LoseWorker

LEMMA Invariance == SpecReminders => []IInv
<1>1. ASSUME IInv, [NextReminders]_remVars PROVE IInv'
  <2>1. CASE NextReminders
    BY <1>1, <2>1, OtherStep, WorkStep, DigestsStep DEF IInv
  <2>2. CASE UNCHANGED remVars
    <3>1. /\ UNCHANGED <<action, reminder, delivery, chat, log, muted>>
          /\ UNCHANGED <<hour, prefs, view, suggestion, digest>>
      BY <2>2 DEF remVars
    <3> QED
      BY <1>1, <3>1, WorkStays DEF IInv, OtherTypeOK, DigestInv
  <2> QED
    BY <1>1, <2>1, <2>2
<1> QED
  BY <1>1, InitIInv, PTL DEF SpecReminders

(* The type invariant of Reminders.                                        *)
THEOREM ReminderTypes == SpecReminders => []RemTypeOK
<1>1. IInv => RemTypeOK
  BY DEF IInv, OtherTypeOK, WorkInv, WorkTypeOK, DigestInv, RemTypeOK
<1> QED
  BY <1>1, Invariance, PTL

(* However dispatchers, completions, postponements and lost workers        *)
(* interleave, a reminder is repeated only after a failed delivery.        *)
THEOREM RemindersRepeatOnlyAfterFailure == SpecReminders => []RepeatsOnlyAfterFailure
<1>1. IInv => RepeatsOnlyAfterFailure
  BY DEF IInv, WorkInv, RowInv, RepeatsOnlyAfterFailure
<1> QED
  BY <1>1, Invariance, PTL

(* No interleaving of the chat, the portal and the dispatcher takes its    *)
(* reminder from an open manual action, unless the user wished it.         *)
THEOREM ManualActionsKeepReminders == SpecReminders => []ManualKeepsReminder
<1>1. IInv => ManualKeepsReminder
  BY DEF IInv, WorkInv, Kept, Outstanding, ManualKeepsReminder
<1> QED
  BY <1>1, Invariance, PTL

(* A digest of a period is repeated only after a lost worker.              *)
THEOREM DigestsAreSentOnce == SpecReminders => []DigestOnce
<1>1. IInv => DigestOnce
  BY DEF IInv, DigestInv, DigestOK, Sent, Digest, DigestOnce
<1> QED
  BY <1>1, Invariance, PTL

(* For every choice of quiet hours a due reminder is put off to an hour    *)
(* that is not quiet, less than a day ahead.                               *)
THEOREM RemindersArePostponedToAllowedHours == SpecReminders => PostponedToAllowedHour
<1> DEFINE Step(r) ==
      (/\ reminder[r].status = "PENDING" /\ reminder'[r].status = "PENDING"
       /\ reminder[r].wait = 0 /\ reminder'[r].wait # 0) =>
        /\ reminder'[r].wait \in 1 .. Day - 1
        /\ ~InQuietHours(prefs, (hour + reminder'[r].wait) % Day)
<1>1. ASSUME IInv, [NextReminders]_remVars, NEW r \in Reminders PROVE Step(r)
  <2> SUFFICES ASSUME reminder[r].status = "PENDING", reminder'[r].status = "PENDING",
                      reminder[r].wait = 0, reminder'[r].wait # 0
               PROVE  /\ reminder'[r].wait \in 1 .. Day - 1
                      /\ ~InQuietHours(prefs, (hour + reminder'[r].wait) % Day)
    OBVIOUS
  <2>1. /\ reminder \in [Reminders -> Reminder] /\ r \notin Unused /\ delivery[r] = "none"
        /\ prefs \in Preferences /\ hour \in 0 .. Day - 1
    BY <1>1, RemindersAssumption
    DEF IInv, WorkInv, WorkTypeOK, OtherTypeOK, RowInv, Unused
  <2>2. CASE Claim(r)
    <3>1. reminder'[r].wait = NextAllowed(prefs, hour) /\ NextAllowed(prefs, hour) > 0
      <4>1. CASE reminder' = [reminder EXCEPT ![r].wait = NextAllowed(prefs, hour)]
                 /\ NextAllowed(prefs, hour) > 0
        BY <2>1, <4>1 DEF Reminder
      <4>2. reminder' # [reminder EXCEPT ![r].status = "CANCELLED"]
        BY <2>1 DEF Reminder
      <4>3. reminder' # [reminder EXCEPT ![r].status = "DISPATCHING"]
        BY <2>1 DEF Reminder
      <4> QED
        BY <2>2, <4>1, <4>2, <4>3 DEF Claim
    <3>2. InQuietHours(prefs, hour)
      BY <3>1 DEF NextAllowed
    <3> QED
      BY <2>1, <3>1, <3>2, NextAllowedFacts
  <2>3. CASE reminder'[r] = reminder[r]
    BY <2>3
  <2>4. ASSUME NEW closed, reminder'[r] = CancelReminders(reminder, closed)[r] PROVE FALSE
    BY <2>4 DEF CancelReminders
  <2>5. CASE reminder'[r] = Waited(reminder[r])
    BY <2>5 DEF Waited
  <2>6. ASSUME NEW s \in Reminders, s # r, NEW a, NEW kind, NEW wait, NEW closed,
               \/ reminder' = Insert(reminder, s, a, kind, wait)
               \/ reminder' = Insert(CancelReminders(reminder, closed), s, a, kind, wait)
        PROVE  FALSE
    <3>1. \/ reminder'[r] = reminder[r]
          \/ reminder'[r] = CancelReminders(reminder, closed)[r]
      BY <2>1, <2>6 DEF Insert, CancelReminders
    <3> QED
      BY <2>4, <3>1
  <2>7. CASE Sync
    <3>1. \A s \in Reminders : IsSpare(s) => s # r
      BY <2>1 DEF IsSpare, IsNext
    <3> QED
      BY <2>4, <2>6, <2>7, <3>1 DEF Sync, Schedule
  <2>8. ASSUME NEW a \in Manual, NewManualAction(a) PROVE reminder'[r] = reminder[r]
    <3>1. \A s \in Reminders : IsSpare(s) => s # r
      BY <2>1 DEF IsSpare, IsNext
    <3> QED
      BY <2>1, <2>8, <3>1 DEF NewManualAction, Insert
  <2>9. CASE Snooze
    <3>1. \A s \in Reminders : IsNext(s) => s # r
      BY <2>1 DEF IsNext
    <3> QED
      BY <2>4, <2>6, <2>9, <3>1 DEF Snooze
  <2>10. ASSUME NEW s \in Reminders,
                DispatchStep(s), ~Claim(r) PROVE reminder'[r] = reminder[r]
    <3>1. CASE s = r
      BY <2>1, <2>10, <3>1 DEF DispatchStep, Deliver, MarkSent, MarkFailed, LoseWorker
    <3>2. CASE s # r
      BY <2>1, <2>10, <3>2 DEF DispatchStep, Claim, Deliver, MarkSent, MarkFailed, LoseWorker
    <3> QED
      BY <3>1, <3>2
  <2>11. CASE UserStep
    <3>1. CASE ListOpenWork
      BY <2>7, <3>1 DEF ListOpenWork
    <3>2. ASSUME NEW a \in Manual, CreateManualAction(a) \/ CompleteAction(a)
          PROVE  reminder'[r] = reminder[r]
      BY <2>4, <2>8, <3>2 DEF CreateManualAction, CompleteAction, Completed
    <3>3. ASSUME NEW s \in Suggestions, NEW a \in Manual, AcceptSuggestion(s, a)
          PROVE  reminder'[r] = reminder[r]
      BY <2>8, <3>3 DEF AcceptSuggestion
    <3>4. CASE AnswerDone
      BY <2>3, <2>4, <3>4 DEF AnswerDone, Completed
    <3>5. CASE UNCHANGED reminder
      BY <2>3, <3>5
    <3> QED
      BY <2>3, <2>9, <2>11, <3>1, <3>2, <3>3, <3>4, <3>5
      DEF UserStep, SetPreferences, ReadForSnooze, ProposeSuggestion, RejectSuggestion
  <2>12. ASSUME NEW k \in DigestTypes, DigestStep(k) PROVE Sync \/ reminder'[r] = reminder[r]
    BY <2>12 DEF DigestStep, PublishDigest, SkipDigest, CheckDigest, SendDigest, FailDigest,
       RecordDigest, LoseDigestWorker
  <2>13. CASE Tick
    BY <2>5, <2>13 DEF Tick
  <2>14. CASE ChangeCase \/ UNCHANGED remVars
    BY <2>3, <2>14 DEF ChangeCase, remVars
  <2> QED
    BY <1>1, <2>2, <2>3, <2>7, <2>10, <2>11, <2>12, <2>13, <2>14 DEF NextReminders
<1>2. IInv /\ [NextReminders]_remVars => [\A r \in Reminders : Step(r)]_remVars
  BY <1>1
<1> QED
  BY <1>2, Invariance, PTL DEF SpecReminders, PostponedToAllowedHour
=============================================================================
