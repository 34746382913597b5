------------------------------ MODULE MCBackOffice ------------------------------
(* Instances of Reminders, Documents, PortalLinks and Quotas for TLC.  The *)
(* components share no state, so one of them moves in each behaviour: the  *)
(* scenario that is chosen first says which, and which part of it.         *)
EXTENDS Reminders, Documents, PortalLinks, Quotas

VARIABLE scenario

allVars == <<scenario, remVars, docVars, linkVars, quotaVars>>

Scenarios == {"manual", "review", "desk", "DAILY", "WEEKLY", "documents", "links", "cases",
              "members", "jobs"}
Reminding == {"manual", "review"}

----------------------------------------------------------------------------
(* Constants                                                               *)

View(lifecycle, analysis, report, revision, messages, idle) ==
  [lifecycle |-> lifecycle, analysis |-> analysis, report |-> report, revision |-> revision,
   openIssues |-> FALSE, messages |-> messages, idle |-> idle]

ToReview == View("ACTIVE", "COMPLETED", "READY_FOR_REVIEW", TRUE, TRUE, FALSE)
Archived == [ToReview EXCEPT !.lifecycle = "ARCHIVED"]
Collecting == View("ACTIVE", "NOT_STARTED", "NOT_CREATED", FALSE, TRUE, TRUE)
Unclear == View("ACTIVE", "NEEDS_REVIEW", "NOT_CREATED", FALSE, TRUE, FALSE)
Revised == View("ACTIVE", "COMPLETED", "DRAFT", TRUE, TRUE, FALSE)

MCViews == {ToReview, Archived, Collecting, Unclear, Revised}

(* A night that passes midnight; reminders on and off, with and without    *)
(* those of the review.                                                    *)
Preference(on, ofReview) ==
  [on |-> on, due |-> TRUE, review |-> ofReview, daily |-> TRUE, weekly |-> TRUE,
   start |-> 2, end |-> 1]

MCPreferences == {Preference(on, ofReview) : on \in BOOLEAN, ofReview \in BOOLEAN}

SmallAndLarge == [p \in Plans |-> IF p = "small" THEN 1 ELSE 2]

----------------------------------------------------------------------------
(* Scenarios                                                               *)

Init ==
  /\ scenario \in Scenarios
  /\ InitReminders /\ InitDocuments /\ InitPortalLinks /\ InitQuotas
  /\ scenario # "desk" => view = ToReview
  /\ prefs.review = (scenario \in Reminding)
  /\ scenario \notin Reminding \cup DigestTypes => prefs.on
  /\ scenario # "links" => member
  /\ sub.plan = "small"

(* Only this component moves.                                              *)
On(s) == scenario \in s /\ UNCHANGED scenario
OnlyReminders == UNCHANGED <<docVars, linkVars, quotaVars>>
OnlyDocuments == UNCHANGED <<remVars, linkVars, quotaVars>>
OnlyLinks == UNCHANGED <<remVars, docVars, quotaVars>>
OnlyQuotas == UNCHANGED <<remVars, docVars, linkVars>>

(* Reminders of a manual action, and of the review; the open work and      *)
(* suggestions; one digest.                                                *)
RemindersMove ==
  /\ NextReminders
  /\ view' \in {ToReview, Archived} /\ prefs'.review
  /\ scenario = "manual" => \A k \in SystemKeys : action'[k] = "none"
  /\ scenario = "review" => \A a \in Manual : action'[a] = "none"
  /\ UNCHANGED <<suggestion, digest>>
DeskMoves == NextReminders /\ UNCHANGED <<reminder, digest, prefs, hour>>
DigestsMove ==
  /\ NextReminders
  /\ view' \in {ToReview, Archived} /\ ~prefs'.review
  /\ \A k \in DigestTypes \ {scenario} : digest'[k].task = "none"
  /\ UNCHANGED <<reminder, suggestion>>

CasesMove == NextQuotas /\ UNCHANGED <<joining, membership, job>> /\ sub'.override.jobs = NoOverride
MembersMove == NextQuotas /\ UNCHANGED <<creating, job>> /\ sub'.override = sub.override
JobsMove == NextQuotas /\ UNCHANGED <<creating, joining, membership>>
            /\ sub'.override.cases = NoOverride

Next ==
  \/ On(Reminding) /\ RemindersMove /\ OnlyReminders
  \/ On({"desk"}) /\ DeskMoves /\ OnlyReminders
  \/ On(DigestTypes) /\ DigestsMove /\ OnlyReminders
  \/ On({"documents"}) /\ NextDocuments /\ OnlyDocuments
  \/ On({"links"}) /\ NextPortalLinks /\ OnlyLinks
  \/ On({"cases"}) /\ CasesMove /\ OnlyQuotas
  \/ On({"members"}) /\ MembersMove /\ OnlyQuotas
  \/ On({"jobs"}) /\ JobsMove /\ OnlyQuotas

ReminderStep(A) == On(Reminding) /\ A /\ OnlyReminders
DocumentStep(A) == On({"documents"}) /\ A /\ OnlyDocuments

(* The fairness of each component's own specification.                     *)
Fairness ==
  /\ WF_allVars(ReminderStep(Tick)) /\ WF_allVars(ReminderStep(Snooze))
  /\ \A r \in Reminders : /\ SF_allVars(ReminderStep(ClaimInTheDay(r)))
                          /\ WF_allVars(ReminderStep(EndDelivery(r)))
  /\ \A t \in Renders : WF_allVars(DocumentStep(RunRender(t)))
  /\ \A x \in Deliveries : WF_allVars(DocumentStep(RunDelivery(x)))

Spec == Init /\ [][Next]_allVars /\ Fairness

(* The type invariants of the four components.                             *)
BackOfficeTypeOK ==
  /\ scenario \in Scenarios
  /\ RemTypeOK /\ DocTypeOK /\ LinkTypeOK /\ QuotaTypeOK
=============================================================================
