----------------------------- MODULE MCConversation -----------------------------
(* Instances of Conversation for TLC.  A behaviour has the part of the     *)
(* system its scenario is about: which messages the user sends and which   *)
(* other tasks and pages write the same rows meanwhile.                    *)
EXTENDS Conversation

CONSTANTS c1, c2

VARIABLE scenario

allVars == <<scenario, convVars>>

Scenarios == {"flows", "cases", "answers", "reminders", "runs"}

(* Question 3 is one of the second case.                                   *)
MCOwner == [q \in Questions |-> IF q = 3 THEN c2 ELSE c1]

(* What the scenarios below start from can be written down.                *)
ASSUME ScenarioAssumption ==
  /\ Cases = {c1, c2} /\ {1, 2, 3} \subseteq Questions /\ Owner = MCOwner
  /\ MaxAttempts > 0

Say(kind) == [kind |-> kind, case |-> NoCase]
About(kind, c) == [kind |-> kind, case |-> c]

Said ==
  [flows     |-> {Say(k) : k \in {"start", "newcase", "text", "profile", "profession", "specialty",
                                  "type", "analyze"}},
   cases     |-> {Say(k) : k \in {"menu", "cases", "look", "archive", "approve", "add", "generate",
                                  "analyze"}}
                   \cup {About("pick", c2), About("open", c1)},
   answers   |-> {Say(k) : k \in {"text", "unavailable", "file"}},
   reminders |-> {Say(k) : k \in {"text", "reminder", "menu"}},
   runs      |-> {Say(k) : k \in {"text", "waive", "resolve", "continue"}}]

MCMessages == UNION {Said[s] : s \in Scenarios}

----------------------------------------------------------------------------
(* Where the scenarios start                                               *)

Waiting == [NewCase EXCEPT !.status = "NEEDS_INFORMATION", !.analysis = "NEEDS_REVIEW"]
Reported == [NewCase EXCEPT !.status = "READY_FOR_REVIEW", !.analysis = "COMPLETED",
                            !.report = "READY_FOR_REVIEW"]

Unresolved(status, attempts) == [issue |-> "open", status |-> status, attempts |-> attempts]

(* The first question was sent, after so many answers; the others wait.    *)
AskedFor(n, attempts) ==
  [q \in Questions |-> IF q > n THEN NoIssue
                       ELSE IF q = 1 THEN Unresolved("asked", attempts)
                       ELSE Unresolved("pending", 0)]
Awaiting == [state |-> "awaiting_followup", active |-> c1,
             pending |-> [Empty EXCEPT !.question = 1]]

New(c) == [d \in Cases |-> c]
NoIssues == [q \in Questions |-> NoIssue]

Init ==
  /\ scenario \in Scenarios
  /\ CASE scenario = "flows" ->
            /\ InitChat(New(NewCase), NoIssues, Idle(NoCase))
            /\ known = {} /\ typed = {} /\ profile \in {"none", "profession", "complete"}
       [] scenario = "cases" ->
            InitChat([New(NewCase) EXCEPT ![c1] = Reported], NoIssues, Idle(c1))
       [] scenario = "answers" ->
            InitChat([New(NewCase) EXCEPT ![c1] = Waiting], AskedFor(2, 1), Awaiting)
       [] scenario = "reminders" ->
            InitChat(New(Waiting), [AskedFor(3, 0) EXCEPT ![2] = NoIssue], Awaiting)
       [] scenario = "runs" ->
            InitChat([New(NewCase) EXCEPT ![c1] = Waiting], AskedFor(1, 0), Awaiting)
  /\ scenario # "flows" => known = Cases /\ typed = {c1} /\ profile = "complete"
  /\ asked = {q \in Questions : question[q].status = "asked"}

----------------------------------------------------------------------------
(* What moves in them                                                      *)

On(s) == scenario \in s /\ UNCHANGED scenario

(* The user says what belongs to the scenario, and in three of them waits  *)
(* until a message was handled.  Errors and lost workers have one each,    *)
(* the broker another; an answer may be refused in all of them.  The runs  *)
(* are about one issue.                                                    *)
Concurrent == {"answers", "reminders"}
Failing == {"reminders"}

UserSays(u) ==
  /\ Receive(u)
  /\ update[u].stage = "none" =>
       /\ update'[u].text \in Said[scenario]
       /\ scenario \notin {"flows", "cases"} => u <= 2
       /\ scenario # "flows" => update'[u].stage = "queued"
       /\ \A v \in Updates : v < u =>
            IF scenario \in Concurrent THEN update[v].stage # "none" ELSE update[v].stage = "done"

Worked(u) ==
  /\ On(Scenarios)
  /\ Process(u)
  /\ scenario \in Failing \/ RefuseAnswer(u) \/ update'[u].retries = update[u].retries

Lost(u) == On({"answers"}) /\ u = 1 /\ LoseUpdate(u)

Next ==
  \/ On(Scenarios) /\ \E u \in Updates : UserSays(u)
  \/ \E u \in Updates : Worked(u) \/ Lost(u)
  \/ On({"answers"}) /\ \E p \in Senders : Recover(p, c1)
  \/ On({"reminders"}) /\ \E p \in Senders : Remind(p, c2)
  \/ On({"answers", "reminders", "runs"}) /\ \E p \in Senders : WriteConversation(p)
  \/ On(Failing) /\ \E p \in Senders : FailTask(p)
  \/ On({"runs"}) /\ \E r \in Runs : Extract(r) /\ question'[2] = NoIssue
  \/ On({"runs"}) /\ (PortalAnalyze(c1) \/ PortalContinue(c1))
  \/ On({"cases"}) /\ \E c \in Cases : PortalArchive(c) \/ PortalReopen(c)

(* A worker takes every task of an update and goes on with it.             *)
Spec == Init /\ [][Next]_allVars /\ \A u \in Updates : WF_allVars(Worked(u))
=============================================================================
