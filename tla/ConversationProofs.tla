--------------------------- MODULE ConversationProofs ---------------------------
(***************************************************************************)
(* What holds of Conversation for any cases, questions, messages, updates, *)
(* senders and runs, however often updates are retried or lost: from a new *)
(* user, and from every scenario that MCConversation starts in.            *)
(***************************************************************************)
EXTENDS MCConversation, WellFoundedInduction, TLAPS

(* Where the message of an update has not been handled by its current try. *)
Before == {"none", "refused", "queued", "started", "answering", "acting"}

Tries(x) == x.retries + x.losses

(* A try that has not handled the message yet leaves room for doing so.    *)
HandleInv ==
  \A u \in Updates :
    /\ update[u].handled <= 1 + Tries(update[u])
    /\ update[u].stage \in Before => update[u].handled <= Tries(update[u])

(* What is stored before a try has handled the message is of an older try. *)
FreshInv ==
  \A u \in Updates :
    stored[u] # NotStored /\ update[u].stage \in Before => Tries(update[u]) > 0

(* Only questions that were sent are waited for, or about to be; one is    *)
(* read before it is sent.                                                 *)
WasAsked(q) == q = NoQuestion \/ q \in asked
ChatInv == conv \in ConversationState /\ WasAsked(conv.pending.question)
TaskOK(t) ==
  /\ t \in Task
  /\ WasAsked(t.pending.question)
  /\ t.step = "sent" => WasAsked(t.question)
  /\ t.step = "read" /\ t.kind = "ask" => t.question # NoQuestion
TaskInv ==
  /\ task \in [Updates \cup Senders -> Task]
  /\ \A p \in Updates \cup Senders : TaskOK(task[p])

(* Both encodings of a case tell whether it is active.                     *)
CaseInv == \A c \in Cases : MirrorsLifecycle(case[c])

(* A run is always of a case.                                              *)
RunOK(x) == x \in Run /\ (x.stage = "none" \/ x.case \in Cases)
RunInv == run \in [Runs -> Run] /\ \A r \in Runs : RunOK(run[r])

(* The lock of the conversation row: while a message waits for the locks of*)
(* its question, no other does, and the conversation waits for an answer.  *)
LockInv ==
  \A u \in Updates : update[u].stage = "answering" =>
    conv.state = "awaiting_followup" /\ \A v \in Updates \ {u} : update[v].stage # "answering"

IInv ==
  ConvTypeOK /\ HandleInv /\ FreshInv /\ ChatInv /\ TaskInv /\ CaseInv /\ RunInv /\ LockInv

----------------------------------------------------------------------------
(* Helpers                                                                 *)

Less == {p \in Nat \X Nat : p[1] < p[2]}

(* next_pending_question finds one of the questions, if there is any.      *)
LEMMA FirstOf == ASSUME NEW s \in SUBSET Nat, s # {} PROVE First(s) \in s
<1>1. IsWellFoundedOn(Less, Nat)
  BY NatLessThanWellFounded DEF OpToRel, Less
<1>2. PICK q \in s : \A other \in s : <<other, q>> \notin Less
  BY <1>1, WFMin
<1>3. \A other \in s : q <= other
  <2> TAKE other \in s
  <2>1. other \in Nat /\ q \in Nat
    OBVIOUS
  <2>2. <<other, q>>[1] = other /\ <<other, q>>[2] = q /\ <<other, q>> \in Nat \X Nat
    BY <2>1
  <2>3. ~(<<other, q>>[1] < <<other, q>>[2])
    BY <1>2, <2>2 DEF Less
  <2> QED
    BY <2>1, <2>2, <2>3
<1> QED
  BY <1>3 DEF First

(* Writing a row that is there, or none.                                   *)
LEMMA Put ==
  ASSUME NEW S, NEW T, NEW f \in [S -> T], NEW x, NEW v, x \in S => v \in T
  PROVE  [f EXCEPT ![x] = v] \in [S -> T]
OBVIOUS

----------------------------------------------------------------------------
(* The updates                                                             *)

(* What one step does to the row of an update, as far as HandleInv and     *)
(* FreshInv go.                                                            *)
Moves(x, y) ==
  /\ y \in Update
  /\ Tries(y) >= Tries(x)
  /\ \/ /\ y.handled = x.handled
        /\ y.stage \in Before => x.stage \in Before \/ Tries(y) > Tries(x)
     \/ /\ y.handled = x.handled + 1
        /\ x.stage \in Before /\ y.stage \notin Before

LEMMA RowTypes ==
  ASSUME ConvTypeOK, NEW u \in Updates
  PROVE  /\ update[u] \in Update
         /\ update[u].retries \in 0 .. MaxRetries /\ update[u].losses \in 0 .. MaxLosses
         /\ update[u].handled \in Nat /\ Tries(update[u]) \in Nat
<1>1. update[u] \in Update
  BY DEF ConvTypeOK
<1>2. /\ update[u].retries \in 0 .. MaxRetries /\ update[u].losses \in 0 .. MaxLosses
      /\ update[u].handled \in Nat
  BY <1>1 DEF Update
<1>3. MaxRetries \in Nat /\ MaxLosses \in Nat
  BY ConversationAssumption
<1> QED
  BY <1>1, <1>2, <1>3 DEF Tries

(* What HandledAt, Start and the others write into a row.                  *)
Stages == {"none", "refused", "queued", "started", "answering", "acting", "saving", "asking",
           "handled", "done", "gave up"}

Same(x, y, s) ==
  /\ y \in Update /\ y.stage = s /\ y.handled = x.handled
  /\ y.retries = x.retries /\ y.losses = x.losses

LEMMA CountRow ==
  ASSUME NEW x \in Update, NEW s \in Stages
  PROVE  \A y \in {[x EXCEPT !.stage = s, !.on = NoCase, !.handled = @ + 1],
                  [x EXCEPT !.stage = s, !.handled = @ + 1]} :
           /\ y \in Update /\ y.stage = s /\ y.handled = x.handled + 1
           /\ y.retries = x.retries /\ y.losses = x.losses
<1>1. x.handled \in Nat
  BY DEF Update
<1>2. x.handled + 1 \in Nat
  BY <1>1
<1> QED
  BY <1>2 DEF Update, Stages

(* Tries are counted with numbers.                                         *)
LEMMA Numbers ==
  ASSUME NEW x \in Update
  PROVE  /\ x.retries \in Nat /\ x.losses \in Nat /\ x.handled \in Nat /\ Tries(x) \in Nat
         /\ x.retries <= MaxRetries /\ MaxRetries \in Nat /\ MaxLosses \in Nat
<1>1. MaxRetries \in Nat /\ MaxLosses \in Nat
  BY ConversationAssumption
<1>2. x.retries \in 0 .. MaxRetries /\ x.losses \in 0 .. MaxLosses /\ x.handled \in Nat
  BY DEF Update
<1> QED
  BY <1>1, <1>2 DEF Tries

LEMMA StageRow ==
  ASSUME NEW x \in Update, NEW s \in Stages, NEW c \in Cases \cup {NoCase},
         NEW m \in Messages \cup {NoMessage}
  PROVE  /\ Same(x, [x EXCEPT !.stage = s], s)
         /\ Same(x, [x EXCEPT !.stage = s, !.on = c], s)
         /\ Same(x, [x EXCEPT !.text = m, !.stage = s], s)
         /\ Same(x, [x EXCEPT !.stage = s, !.text = m], s)
         /\ Same(x, [x EXCEPT !.stage = s, !.on = c, !.text = m], s)
BY DEF Update, Same, Stages

LEMMA SameMoves ==
  ASSUME NEW x \in Update, NEW y, NEW s, Same(x, y, s), s \in Before => x.stage \in Before
  PROVE  Moves(x, y)
<1> QED
  BY Numbers DEF Same, Moves, Tries

(* A try that raises is counted, or was the last.                          *)
LEMMA RetryMoves ==
  ASSUME NEW x \in Update
  PROVE  Moves(x, Raised(x))
<1>1. /\ x.retries \in Nat /\ x.losses \in Nat /\ x.retries <= MaxRetries /\ MaxRetries \in Nat
      /\ MaxLosses \in Nat
  BY Numbers
<1>2. CASE x.retries < MaxRetries
  <2> DEFINE y == [x EXCEPT !.stage = "queued", !.on = NoCase, !.retries = @ + 1]
  <2>1. Raised(x) = y
    BY <1>2 DEF Raised
  <2>2. x.retries + 1 \in 0 .. MaxRetries
    BY <1>1, <1>2
  <2>3. y \in Update /\ y.handled = x.handled
    BY <2>2 DEF Update
  <2>4. y.retries = x.retries + 1 /\ y.losses = x.losses
    BY DEF Update
  <2> HIDE DEF y
  <2>5. Tries(y) > Tries(x)
    BY <1>1, <2>4 DEF Tries
  <2>6. Tries(y) >= Tries(x)
    BY <1>1, <2>4 DEF Tries
  <2> QED
    BY <2>1, <2>3, <2>5, <2>6 DEF Moves
<1>3. CASE ~(x.retries < MaxRetries)
  <2>1. Raised(x) = [x EXCEPT !.stage = "gave up", !.on = NoCase, !.text = NoMessage]
    BY <1>3 DEF Raised
  <2>2. Same(x, Raised(x), "gave up")
    <3>1. "gave up" \in Stages
      BY DEF Stages
    <3>2. Same(x, [x EXCEPT !.stage = "gave up", !.on = NoCase, !.text = NoMessage], "gave up")
      BY <3>1 DEF Same, Update, Stages
    <3> QED
      BY <2>1, <3>2
  <2> QED
    BY <2>2, SameMoves DEF Before
<1> QED
  BY <1>2, <1>3

(* So is one whose worker is lost.                                         *)
LEMMA LossMoves ==
  ASSUME NEW x \in Update, x.losses < MaxLosses
  PROVE  Moves(x, [x EXCEPT !.stage = "queued", !.on = NoCase, !.losses = @ + 1])
<1> DEFINE y == [x EXCEPT !.stage = "queued", !.on = NoCase, !.losses = @ + 1]
<1>1. x.retries \in Nat /\ x.losses \in Nat /\ MaxLosses \in Nat
  BY Numbers
<1>2. x.losses + 1 \in 0 .. MaxLosses
  BY <1>1
<1>3. y \in Update /\ y.handled = x.handled
  BY <1>2 DEF Update
<1>4. y.retries = x.retries /\ y.losses = x.losses + 1
  BY DEF Update
<1> HIDE DEF y
<1>5. Tries(y) > Tries(x) /\ Tries(y) >= Tries(x)
  BY <1>1, <1>4 DEF Tries
<1> QED
  BY <1>3, <1>5 DEF Moves, y

AllMove ==
  /\ update' \in [Updates -> Update]
  /\ \A v \in Updates : Moves(update[v], update'[v])

LEMMA StayMoves == ASSUME ConvTypeOK, UNCHANGED update PROVE AllMove
BY RowTypes DEF AllMove, Moves, ConvTypeOK

(* A step that writes one row moves every row.                             *)
LEMMA OneMoves ==
  ASSUME ConvTypeOK, NEW u \in Updates, NEW y, update' = [update EXCEPT ![u] = y],
         Moves(update[u], y)
  PROVE  /\ AllMove
         /\ update'[u] = y /\ \A v \in Updates \ {u} : update'[v] = update[v]
<1>1. update'[u] = y /\ \A v \in Updates \ {u} : update'[v] = update[v]
  BY DEF ConvTypeOK
<1>2. \A v \in Updates : Moves(update[v], update[v])
  BY RowTypes DEF Moves
<1>3. y \in Update
  BY DEF Moves
<1>4. update' \in [Updates -> Update]
  BY <1>3 DEF ConvTypeOK
<1> QED
  BY <1>1, <1>2, <1>4 DEF AllMove

(* The handler of u has committed.                                         *)
Counted(u) ==
  /\ update[u].stage \in {"started", "answering", "acting"}
  /\ update'[u].handled = update[u].handled + 1
  /\ update'[u].stage \notin Before
  /\ \A v \in Updates \ {u} : update'[v] = update[v]

(* A message or an analysis button is handled once.                        *)
Handles(u) ==
  /\ update[u].stage \in {"started", "answering", "acting"}
  /\ \/ \E s \in {"handled", "asking", "done"} : HandledAt(u, s)
     \/ Commits(u)

LEMMA HandlesMoves ==
  ASSUME ConvTypeOK, NEW u \in Updates, Handles(u) PROVE AllMove /\ Counted(u)
<1> DEFINE counted(s) == [update[u] EXCEPT !.stage = s, !.on = NoCase, !.handled = @ + 1]
           saving == [update[u] EXCEPT !.stage = "saving", !.handled = @ + 1]
<1>1. update[u] \in Update /\ Tries(update[u]) \in Nat /\ update[u].handled \in Nat
  BY RowTypes
<1>2. ASSUME NEW y, NEW s \in Stages \ Before, update' = [update EXCEPT ![u] = y],
             y \in Update, y.stage = s, y.handled = update[u].handled + 1,
             y.retries = update[u].retries, y.losses = update[u].losses
      PROVE  AllMove /\ Counted(u)
  <2>1. Tries(y) = Tries(update[u])
    BY <1>2 DEF Tries
  <2>2. Moves(update[u], y)
    BY <1>1, <1>2, <2>1 DEF Moves, Handles, Before
  <2> QED
    BY <1>2, <2>2, OneMoves DEF Counted, Handles
<1>3. ASSUME NEW s \in {"handled", "asking", "done"}, HandledAt(u, s)
      PROVE  AllMove /\ Counted(u)
  <2>1. update' = [update EXCEPT ![u] = counted(s)] /\ s \in Stages \ Before
    BY <1>3 DEF HandledAt, ConvTypeOK, Stages, Before
  <2> QED
    BY <1>1, <1>2, <2>1, CountRow
<1>4. CASE Commits(u)
  <2>1. update' = [update EXCEPT ![u] = saving] /\ "saving" \in Stages \ Before
    BY <1>4 DEF Commits, ConvTypeOK, Stages, Before
  <2> QED
    BY <1>1, <1>2, <2>1, CountRow
<1> QED
  BY <1>3, <1>4 DEF Handles

LEMMA MessageHandles ==
  ASSUME NEW u \in Updates, HandleMessage(u)
  PROVE  Handles(u) \/ RefuseAnswer(u) \/ BeginAnswer(u)
<1> USE DEF Handles, Handled, HandledAndAsks, Takes
<1>1. CASE LookAround(u) BY <1>1 DEF LookAround
<1>2. CASE GoToMenu(u) BY <1>2 DEF GoToMenu
<1>3. CASE ReminderAction(u) BY <1>3 DEF ReminderAction
<1>4. CASE StartProfile(u) BY <1>4 DEF StartProfile
<1>5. CASE ChooseProfession(u) BY <1>5 DEF ChooseProfession
<1>6. CASE ChooseSpecialty(u) BY <1>6 DEF ChooseSpecialty
<1>7. CASE ChooseCaseType(u) BY <1>7 DEF ChooseCaseType
<1>8. CASE NewCaseFlow(u) BY <1>8 DEF NewCaseFlow
<1>9. CASE TitleCase(u) BY <1>9 DEF TitleCase
<1>10. CASE ShowCases(u) BY <1>10 DEF ShowCases
<1>11. CASE ChooseCase(u) BY <1>11 DEF ChooseCase
<1>12. CASE OpenCase(u) BY <1>12 DEF OpenCase
<1>13. CASE AnalyzeCase(u) BY <1>13 DEF AnalyzeCase
<1>14. CASE ArchiveActive(u) BY <1>14 DEF ArchiveActive
<1>15. CASE ApproveActive(u) BY <1>15 DEF ApproveActive
<1>16. CASE RecordMessage(u) BY <1>16 DEF RecordMessage
<1>17. CASE AnswerWithFile(u) BY <1>17 DEF AnswerWithFile
<1>18. CASE AnswerQuestion(u) BY <1>18 DEF AnswerQuestion
<1> QED
  BY <1>1, <1>2, <1>3, <1>4, <1>5, <1>6, <1>7, <1>8, <1>9, <1>10, <1>11, <1>12, <1>13, <1>14,
     <1>15, <1>16, <1>17, <1>18 DEF HandleMessage

LEMMA ButtonHandles ==
  ASSUME NEW u \in Updates, HandleAnalysisAction(u)
  PROVE  Handles(u) \/ ReadConversation(u) \/ SaveConversation(u)
<1> USE DEF Handles, Handled, HandledAndAsks, Acts
<1>1. CASE ResolveIssues(u) BY <1>1 DEF ResolveIssues
<1>2. CASE AddEvidence(u) BY <1>2 DEF AddEvidence
<1>3. CASE ContinueCurrent(u) BY <1>3 DEF ContinueCurrent
<1>4. CASE GenerateReport(u) BY <1>4 DEF GenerateReport
<1> QED
  BY <1>1, <1>2, <1>3, <1>4 DEF HandleAnalysisAction

(* Writing a stage that is no earlier than before moves every row.         *)
LEMMA StagePasses ==
  ASSUME ConvTypeOK, NEW u \in Updates, NEW y, NEW s, update' = [update EXCEPT ![u] = y],
         Same(update[u], y, s), s \in Before => update[u].stage \in Before
  PROVE  AllMove
BY RowTypes, SameMoves, OneMoves

LEMMA RaiseMoves ==
  ASSUME ConvTypeOK, NEW u \in Updates, RaiseUpdate(u) PROVE AllMove
<1>1. update' = [update EXCEPT ![u] = Raised(update[u])]
  BY DEF RaiseUpdate, ConvTypeOK
<1> QED
  BY <1>1, RowTypes, RetryMoves, OneMoves

LEMMA EndMoves ==
  ASSUME ConvTypeOK, NEW p, EndTask(p) PROVE AllMove
<1>1. CASE p \notin Updates
  BY <1>1, StayMoves DEF EndTask
<1>2. CASE p \in Updates
  <2> DEFINE y == [update[p] EXCEPT !.stage = "handled"]
  <2>1. update' = [update EXCEPT ![p] = y]
    BY <1>2 DEF EndTask, ConvTypeOK
  <2>2. Same(update[p], y, "handled")
    BY <1>2, RowTypes, StageRow DEF Stages
  <2> QED
    BY <1>2, <2>1, <2>2, StagePasses DEF Before
<1> QED
  BY <1>1, <1>2

LEMMA UpdateMoves ==
  ASSUME ConvTypeOK, NEW u \in Updates, Receive(u) \/ Process(u) \/ LoseUpdate(u)
  PROVE  AllMove
<1>1. CASE Receive(u)
  <2>1. CASE Repeat(u)
    BY <2>1, StayMoves DEF Repeat
  <2>2. ASSUME NEW m \in Messages, NEW s \in {"queued", "refused"}, update[u].stage = "none",
               update' = [update EXCEPT ![u].text = m, ![u].stage = s]
        PROVE  AllMove
    <3> DEFINE y == [update[u] EXCEPT !.text = m, !.stage = s]
    <3>1. update' = [update EXCEPT ![u] = y]
      BY <2>2 DEF ConvTypeOK
    <3>2. Same(update[u], y, s)
      BY RowTypes, StageRow DEF Stages
    <3> QED
      BY <2>2, <3>1, <3>2, StagePasses DEF Before
  <2> QED
    BY <1>1, <2>1, <2>2 DEF Receive
<1>2. CASE Start(u)
  <2> DEFINE y == [update[u] EXCEPT !.stage = "started"]
  <2>1. update' = [update EXCEPT ![u] = y] /\ update[u].stage = "queued"
    BY <1>2 DEF Start, ConvTypeOK
  <2>2. Same(update[u], y, "started")
    BY RowTypes, StageRow DEF Stages
  <2> QED
    BY <2>1, <2>2, StagePasses DEF Before
<1>3. CASE HandleAnalysisAction(u)
  <2>1. CASE ReadConversation(u)
    <3> DEFINE y == [update[u] EXCEPT !.stage = "acting", !.on = conv.active]
    <3>1. update' = [update EXCEPT ![u] = y] /\ update[u].stage = "started"
      BY <2>1 DEF ReadConversation, ConvTypeOK
    <3>2. conv.active \in Cases \cup {NoCase}
      BY DEF ConvTypeOK, ConversationState
    <3>3. Same(update[u], y, "acting")
      BY <3>2, RowTypes, StageRow DEF Stages
    <3> QED
      BY <3>1, <3>3, StagePasses DEF Before
  <2>2. CASE SaveConversation(u)
    <3> DEFINE y == [update[u] EXCEPT !.stage = "handled", !.on = NoCase]
    <3>1. update' = [update EXCEPT ![u] = y]
      BY <2>2 DEF SaveConversation, ConvTypeOK
    <3>2. Same(update[u], y, "handled")
      BY RowTypes, StageRow DEF Stages
    <3> QED
      BY <3>1, <3>2, StagePasses DEF Before
  <2> QED
    BY <1>3, <2>1, <2>2, ButtonHandles, HandlesMoves
<1>4. CASE HandleMessage(u)
  <2>1. CASE BeginAnswer(u)
    <3> DEFINE y == [update[u] EXCEPT !.stage = "answering"]
    <3>1. update' = [update EXCEPT ![u] = y] /\ update[u].stage = "started"
      BY <2>1 DEF BeginAnswer, Takes, ConvTypeOK
    <3>2. Same(update[u], y, "answering")
      BY RowTypes, StageRow DEF Stages
    <3> QED
      BY <3>1, <3>2, StagePasses DEF Before
  <2> QED
    BY <1>4, <2>1, MessageHandles, HandlesMoves, RaiseMoves DEF RefuseAnswer
<1>5. CASE Ask(u)
  BY <1>5, EndMoves, StayMoves DEF Ask, BeginAsk, SendQuestion, AwaitAnswer
<1>6. CASE Finish(u)
  <2> DEFINE y == [update[u] EXCEPT !.stage = "done", !.text = NoMessage]
  <2>1. update' = [update EXCEPT ![u] = y]
    BY <1>6 DEF Finish, ConvTypeOK
  <2>2. Same(update[u], y, "done")
    BY RowTypes, StageRow DEF Stages
  <2> QED
    BY <2>1, <2>2, StagePasses DEF Before
<1>7. CASE FailUpdate(u)
  BY <1>7, RaiseMoves DEF FailUpdate
<1>8. CASE LoseUpdate(u)
  <2>1. /\ update' = [update EXCEPT ![u] = [update[u] EXCEPT !.stage = "queued", !.on = NoCase,
                                                            !.losses = @ + 1]]
        /\ update[u].losses < MaxLosses
    BY <1>8 DEF LoseUpdate, ConvTypeOK
  <2> QED
    BY <2>1, RowTypes, LossMoves, OneMoves
<1> QED
  BY <1>1, <1>2, <1>3, <1>4, <1>5, <1>6, <1>7, <1>8 DEF Process

LEMMA NextMoves ==
  ASSUME ConvTypeOK, [NextConversation]_convVars PROVE AllMove
<1>1. CASE UNCHANGED convVars
  BY <1>1, StayMoves DEF convVars
<1>2. ASSUME NEW p \in Senders, WriteConversation(p) \/ FailTask(p)
      PROVE  AllMove
  BY <1>2, EndMoves, StayMoves
  DEF WriteConversation, FailTask, Ask, BeginAsk, SendQuestion, AwaitAnswer, BeginNotify, Notify,
      BeginRemind, ShowButtons
<1>3. ASSUME NEW p \in Senders, NEW c \in Cases, Recover(p, c) \/ Remind(p, c)
      PROVE  AllMove
  BY <1>3, StayMoves DEF Recover, Remind
<1>4. ASSUME NEW r \in Runs, Extract(r) PROVE AllMove
  BY <1>4, StayMoves DEF Extract, BeginRun, ApplyResult, EndRun, FailRun
<1>5. ASSUME NEW c \in Cases, Portal(c) PROVE AllMove
  BY <1>5, StayMoves DEF Portal, PortalAnalyze, PortalContinue, PortalArchive, PortalReopen
<1> QED
  BY <1>1, <1>2, <1>3, <1>4, <1>5, UpdateMoves DEF NextConversation

----------------------------------------------------------------------------
(* The conversation                                                        *)

(* What handlers and tasks write: nothing that was not asked is waited for.*)
ChatOK(chat) == chat \in ConversationState /\ WasAsked(chat.pending.question)

LEMMA IdleOK == ASSUME NEW c \in Cases \cup {NoCase} PROVE ChatOK(Idle(c))
BY DEF ChatOK, Idle, Empty, ConversationState, Pending, WasAsked

LEMMA PendingOK ==
  ASSUME NEW chat, ChatOK(chat)
  PROVE  /\ chat \in ConversationState /\ chat.pending \in Pending
         /\ chat.active \in Cases \cup {NoCase} /\ chat.pending.reminder \in Cases \cup {NoCase}
BY DEF ChatOK, ConversationState, Pending

LEMMA FlowOK ==
  ASSUME NEW chat, ChatOK(chat), NEW s \in Choosing, NEW choice \in Choices
  PROVE  ChatOK(Flow(chat, s, choice))
<1>1. chat.pending \in Pending /\ chat.pending.buttons \cup {choice} \in SUBSET Choices
  BY DEF ChatOK, ConversationState, Pending
<1>2. /\ Flow(chat, s, choice).pending = [chat.pending EXCEPT !.buttons = @ \cup {choice}]
      /\ Flow(chat, s, choice) = [chat EXCEPT !.state = s,
                                  !.pending = [chat.pending EXCEPT !.buttons = @ \cup {choice}]]
  BY DEF Flow, ChatOK, ConversationState
<1>3. /\ [chat.pending EXCEPT !.buttons = @ \cup {choice}] \in Pending
      /\ [chat.pending EXCEPT !.buttons = @ \cup {choice}].question = chat.pending.question
  BY <1>1 DEF Pending
<1> QED
  BY <1>2, <1>3 DEF ChatOK, ConversationState

LEMMA NextFlowOK == ASSUME NEW chat, ChatOK(chat) PROVE ChatOK(NextFlow(chat))
BY FlowOK DEF NextFlow, Choosing, Choices

(* The handlers of messages.                                               *)
LEMMA MessageChat ==
  ASSUME ConvTypeOK, ChatInv, NEW u \in Updates, HandleMessage(u)
  PROVE  conv' = conv \/ ChatOK(conv')
<1>1. /\ ChatOK(conv) /\ conv.pending \in Pending /\ conv.active \in Cases \cup {NoCase}
      /\ conv.pending.reminder \in Cases \cup {NoCase}
  BY PendingOK DEF ChatInv, ChatOK
<1>2. known \subseteq Cases /\ ActiveCases \subseteq Cases
  BY DEF ConvTypeOK, ActiveCases
<1>3. CASE \/ LookAround(u) \/ ApproveActive(u) \/ RefuseAnswer(u) \/ AnswerWithFile(u)
           \/ BeginAnswer(u)
  BY <1>3 DEF LookAround, ApproveActive, RefuseAnswer, RaiseUpdate, AnswerWithFile, BeginAnswer
<1>4. CASE GoToMenu(u)
  BY <1>4, IdleOK DEF GoToMenu
<1>5. CASE ReminderAction(u)
  <2> DEFINE chat(c) == [conv EXCEPT !.active = c, !.pending.reminder = NoCase]
  <2>1. PICK c \in Cases \cup {NoCase} : conv' = chat(c)
    BY <1>1, <1>5 DEF ReminderAction
  <2>2. [conv.pending EXCEPT !.reminder = NoCase] \in Pending
    BY <1>1 DEF Pending
  <2>3. chat(c).pending = [conv.pending EXCEPT !.reminder = NoCase]
    BY <1>1 DEF ChatOK, ConversationState
  <2>4. chat(c).pending.question = conv.pending.question
    BY <1>1, <2>3 DEF Pending
  <2>5. chat(c) \in ConversationState
    BY <1>1, <2>2 DEF ChatOK, ConversationState
  <2> QED
    BY <1>1, <2>1, <2>4, <2>5 DEF ChatOK
<1>6. CASE StartProfile(u)
  BY <1>1, <1>6, FlowOK DEF StartProfile, Choosing, Choices
<1>7. CASE ChooseProfession(u)
  BY <1>1, <1>7, FlowOK DEF ChooseProfession, Choosing, Choices
<1>8. CASE ChooseSpecialty(u)
  BY <1>1, <1>8, FlowOK, IdleOK DEF ChooseSpecialty, Choosing, Choices
<1>9. CASE ChooseCaseType(u)
  BY <1>1, <1>9, IdleOK DEF ChooseCaseType
<1>10. CASE NewCaseFlow(u)
  <2>1. conv' = [conv EXCEPT !.state = "awaiting_case_title", !.pending = Empty]
    BY <1>10 DEF NewCaseFlow
  <2> QED
    BY <1>1, <2>1 DEF ChatOK, ConversationState, Pending, Empty, WasAsked
<1>11. CASE TitleCase(u)
  <2>1. ASSUME NEW c \in Cases PROVE ChatOK([conv EXCEPT !.active = c, !.pending = Empty])
    BY <1>1 DEF ChatOK, ConversationState, Pending, Empty, WasAsked
  <2> QED
    BY <1>11, <2>1, NextFlowOK DEF TitleCase
<1>12. CASE ShowCases(u)
  <2>1. ChatOK([conv EXCEPT !.state = "choosing_case", !.pending = [Empty EXCEPT !.shown = ActiveCases]])
    <3>1. /\ [Empty EXCEPT !.shown = ActiveCases] \in Pending
          /\ [Empty EXCEPT !.shown = ActiveCases].question = NoQuestion
      BY <1>2 DEF Empty, Pending
    <3> QED
      BY <1>1, <3>1 DEF ChatOK, ConversationState, WasAsked
  <2> QED
    BY <1>1, <1>12, <2>1, IdleOK DEF ShowCases
<1>13. CASE ChooseCase(u)
  BY <1>1, <1>2, <1>13, IdleOK DEF ChooseCase
<1>14. CASE OpenCase(u)
  BY <1>2, <1>14, IdleOK DEF OpenCase
<1>15. CASE AnalyzeCase(u)
  BY <1>1, <1>15, NextFlowOK DEF AnalyzeCase
<1>16. CASE ArchiveActive(u)
  BY <1>16, IdleOK DEF ArchiveActive
<1>17. CASE RecordMessage(u)
  BY <1>1, <1>17, IdleOK DEF RecordMessage
<1>18. CASE AnswerQuestion(u)
  BY <1>1, <1>18, IdleOK DEF AnswerQuestion
<1> QED
  BY <1>3, <1>4, <1>5, <1>6, <1>7, <1>8, <1>9, <1>10, <1>11, <1>12, <1>13, <1>14, <1>15, <1>16,
     <1>17, <1>18 DEF HandleMessage

(* The analysis buttons.                                                   *)
LEMMA ButtonChat ==
  ASSUME ConvTypeOK, ChatInv, NEW u \in Updates, HandleAnalysisAction(u)
  PROVE  conv' = conv \/ ChatOK(conv')
<1>1. conv.active \in Cases \cup {NoCase} /\ update[u].on \in Cases \cup {NoCase}
  BY PendingOK, RowTypes DEF ChatInv, ChatOK, Update
<1> QED
  BY <1>1, IdleOK
  DEF HandleAnalysisAction, ReadConversation, ResolveIssues, AddEvidence, ContinueCurrent,
      GenerateReport, SaveConversation

(* The tasks that write the conversation.                                  *)
LEMMA TaskChat ==
  ASSUME ConvTypeOK, ChatInv, TaskInv, NEW p \in Updates \cup Senders, WriteConversation(p)
  PROVE  conv' = conv \/ ChatOK(conv')
<1>1. /\ ChatOK(conv) /\ conv.active \in Cases \cup {NoCase}
      /\ TaskOK(task[p])
  BY PendingOK DEF ChatInv, ChatOK, TaskInv
<1>2. CASE BeginAsk(p) \/ SendQuestion(p) \/ BeginNotify(p) \/ BeginRemind(p)
  BY <1>2 DEF BeginAsk, SendQuestion, BeginNotify, BeginRemind
<1>3. CASE AwaitAnswer(p)
  <2>1. task[p].question \in Questions \cup {NoQuestion} /\ WasAsked(task[p].question)
    BY <1>1, <1>3 DEF AwaitAnswer, At, TaskOK, Task
  <2>2. /\ [Empty EXCEPT !.question = task[p].question] \in Pending
        /\ [Empty EXCEPT !.question = task[p].question].question = task[p].question
    BY <2>1 DEF Empty, Pending
  <2>3. conv' = [conv EXCEPT !.state = "awaiting_followup",
                             !.pending = [Empty EXCEPT !.question = task[p].question]]
    BY <1>3 DEF AwaitAnswer
  <2> QED
    BY <1>1, <2>1, <2>2, <2>3 DEF ChatOK, ConversationState
<1>4. CASE Notify(p)
  BY <1>1, <1>4, IdleOK DEF Notify
<1>5. CASE ShowButtons(p)
  <2> DEFINE pending == [task[p].pending EXCEPT !.reminder = task[p].case]
  <2>1. pending \in Pending /\ pending.question = task[p].pending.question
    BY <1>1 DEF TaskOK, Task, Pending
  <2>2. conv' = [conv EXCEPT !.pending = pending]
    BY <1>5 DEF ShowButtons
  <2> QED
    BY <1>1, <2>1, <2>2 DEF ChatOK, ConversationState, TaskOK
<1> QED
  BY <1>2, <1>3, <1>4, <1>5 DEF WriteConversation, Ask

----------------------------------------------------------------------------
(* The tasks                                                               *)

LEMMA NewTaskOK ==
  ASSUME NEW kind \in {"none", "ask", "notify", "remind"}, NEW c \in Cases \cup {NoCase}
  PROVE  /\ TaskOK(NoTask)
         /\ TaskOK([NoTask EXCEPT !.kind = kind, !.step = "ready", !.case = c])
BY DEF TaskOK, NoTask, Task, Empty, Pending, WasAsked

(* One task at a time is written, with a row that is right by now.         *)
TaskMoves ==
  \/ task' = task
  \/ \E p \in Updates \cup Senders, t \in Task : TaskOK(t) /\ task' = [task EXCEPT ![p] = t]

LEMMA NoTaskMoves ==
  ASSUME NEW p \in Updates \cup Senders, task' = [task EXCEPT ![p] = NoTask] PROVE TaskMoves
<1>1. TaskOK(NoTask) /\ NoTask \in Task
  BY DEF TaskOK, NoTask, Task, Empty, Pending, WasAsked
<1> QED
  BY <1>1 DEF TaskMoves

LEMMA BeginMoves ==
  ASSUME NEW p \in Updates \cup Senders, NEW kind \in {"none", "ask", "notify", "remind"},
         NEW c \in Cases \cup {NoCase}, Begin(p, kind, c)
  PROVE  TaskMoves
<1> DEFINE t == [NoTask EXCEPT !.kind = kind, !.step = "ready", !.case = c]
<1>1. task' = [task EXCEPT ![p] = t]
  BY DEF Begin
<1>2. TaskOK(t) /\ t \in Task
  BY NewTaskOK DEF TaskOK
<1> QED
  BY <1>1, <1>2 DEF TaskMoves

LEMMA AskMoves ==
  ASSUME NEW u \in Updates, NEW c \in Cases \cup {NoCase}, HandledAndAsks(u, c) PROVE TaskMoves
<1>1. Begin(u, "ask", c)
  BY DEF HandledAndAsks, Begin
<1> QED
  BY <1>1, BeginMoves

LEMMA MessageTasks ==
  ASSUME ConvTypeOK, ChatInv, NEW u \in Updates, HandleMessage(u) \/ HandleAnalysisAction(u)
  PROVE  TaskMoves /\ asked' = asked
<1>1. conv.active \in Cases \cup {NoCase} /\ update[u].on \in Cases \cup {NoCase}
  BY PendingOK, RowTypes DEF ChatInv, ChatOK, Update
<1>2. CASE RefuseAnswer(u)
  BY <1>2, NoTaskMoves DEF RefuseAnswer, RaiseUpdate
<1>3. CASE AnswerQuestion(u)
  BY <1>1, <1>3, AskMoves DEF AnswerQuestion, Handled, TaskMoves
<1>4. CASE ResolveIssues(u)
  BY <1>1, <1>4, AskMoves DEF ResolveIssues, Handled, TaskMoves
<1>5. CASE HandleMessage(u) /\ ~RefuseAnswer(u) /\ ~AnswerQuestion(u)
  BY <1>5
  DEF HandleMessage, Handled, TaskMoves, LookAround, GoToMenu, ReminderAction, StartProfile,
      ChooseProfession, ChooseSpecialty, ChooseCaseType, NewCaseFlow, TitleCase, ShowCases,
      ChooseCase, OpenCase, AnalyzeCase, ArchiveActive, ApproveActive, RecordMessage,
      AnswerWithFile, BeginAnswer
<1>6. CASE HandleAnalysisAction(u) /\ ~ResolveIssues(u)
  BY <1>6
  DEF HandleAnalysisAction, Handled, Commits, TaskMoves, ReadConversation, AddEvidence,
      ContinueCurrent, GenerateReport, SaveConversation
<1> QED
  BY <1>2, <1>3, <1>4, <1>5, <1>6

LEMMA AskableOf == ASSUME NEW c PROVE Askable(c, question) \in SUBSET Questions
BY DEF Askable, OpenOf, IssuesOf

(* The tasks that write the conversation go through their steps.           *)
LEMMA WriteTasks ==
  ASSUME ConvTypeOK, ChatInv, TaskInv, NEW p \in Updates \cup Senders, WriteConversation(p)
  PROVE  /\ asked \subseteq asked' /\ asked' \subseteq Questions
         /\ TaskMoves \/ \E t \in Task : TaskOK(t)' /\ task' = [task EXCEPT ![p] = t]
<1>1. /\ task[p] \in Task /\ TaskOK(task[p]) /\ asked \subseteq Questions
      /\ task \in [Updates \cup Senders -> Task]
  BY DEF TaskInv, ConvTypeOK
<1>2. conv.pending \in Pending /\ WasAsked(conv.pending.question)
  BY PendingOK DEF ChatInv, ChatOK
<1>3. CASE BeginAsk(p)
  <2> DEFINE s == Askable(task[p].case, question)
             t == [task[p] EXCEPT !.step = "read", !.question = First(s)]
  <2>1. CASE s = {} \/ conv.active # task[p].case
    BY <1>1, <1>3, <2>1, NoTaskMoves DEF BeginAsk, EndTask
  <2>2. CASE ~(s = {} \/ conv.active # task[p].case)
    <3>1. First(s) \in Questions /\ First(s) # NoQuestion
      BY <2>2, AskableOf, FirstOf, ConversationAssumption
    <3>2. task' = [task EXCEPT ![p] = t] /\ asked' = asked
      <4>1. task' = [task EXCEPT ![p].step = "read", ![p].question = First(s)] /\ asked' = asked
        BY <1>3, <2>2 DEF BeginAsk
      <4> QED
        BY <1>1, <4>1
    <3>3. t \in Task /\ TaskOK(t)
      BY <1>1, <3>1 DEF Task, TaskOK
    <3> QED
      BY <1>1, <3>2, <3>3 DEF TaskMoves
  <2> QED
    BY <2>1, <2>2
<1>4. CASE SendQuestion(p)
  <2>0. [task[p] EXCEPT !.step = "sent"] \in Task
    BY <1>1 DEF Task
  <2> PICK t \in Task : t = [task[p] EXCEPT !.step = "sent"]
    BY <2>0
  <2>1. /\ task' = [task EXCEPT ![p] = t] /\ asked' = asked \cup {task[p].question}
        /\ task[p].kind = "ask" /\ task[p].step = "read"
    BY <1>1, <1>4 DEF SendQuestion, At
  <2>2. t \in Task /\ t.question = task[p].question /\ t.step = "sent"
        /\ t.pending = task[p].pending
    BY <1>1 DEF Task
  <2>3. task[p].question \in Questions
    BY <1>1, <2>1 DEF TaskOK, Task
  <2>4. TaskOK(t)'
    BY <1>1, <2>1, <2>2 DEF TaskOK, WasAsked
  <2> QED
    BY <1>1, <2>1, <2>2, <2>3, <2>4
<1>5. CASE AwaitAnswer(p) \/ Notify(p) \/ ShowButtons(p)
  BY <1>1, <1>5, NoTaskMoves DEF AwaitAnswer, Notify, ShowButtons, EndTask
<1>6. CASE BeginNotify(p)
  <2> DEFINE t == [task[p] EXCEPT !.step = "read"]
  <2>1. asked' = asked /\ (task' = [task EXCEPT ![p] = t] \/ task' = [task EXCEPT ![p] = NoTask])
        /\ task[p].kind = "notify"
    BY <1>1, <1>6 DEF BeginNotify, At
  <2>2. t \in Task /\ TaskOK(t)
    BY <1>1, <2>1 DEF Task, TaskOK
  <2> QED
    BY <1>1, <2>1, <2>2, NoTaskMoves DEF TaskMoves
<1>7. CASE BeginRemind(p)
  <2> DEFINE t == [task[p] EXCEPT !.step = "read", !.pending = conv.pending]
  <2>1. asked' = asked /\ task' = [task EXCEPT ![p] = t] /\ task[p].kind = "remind"
    BY <1>1, <1>7 DEF BeginRemind, At
  <2>2. t \in Task /\ TaskOK(t)
    BY <1>1, <1>2, <2>1 DEF Task, TaskOK
  <2> QED
    BY <1>1, <2>1, <2>2 DEF TaskMoves
<1> QED
  BY <1>3, <1>4, <1>5, <1>6, <1>7 DEF WriteConversation, Ask

(* What is left: a task fails, is published, or is begun by a run.         *)
LEMMA OtherTasks ==
  ASSUME ConvTypeOK, TaskInv,
         \/ \E u \in Updates : Receive(u) \/ Start(u) \/ Finish(u) \/ FailUpdate(u) \/ LoseUpdate(u)
         \/ \E p \in Senders : FailTask(p)
         \/ \E p \in Senders, c \in Cases : Recover(p, c) \/ Remind(p, c)
         \/ \E r \in Runs : Extract(r)
         \/ \E c \in Cases : Portal(c)
  PROVE  TaskMoves /\ asked' = asked /\ conv' = conv
<1>1. ASSUME NEW u \in Updates,
             Receive(u) \/ Start(u) \/ Finish(u) \/ FailUpdate(u) \/ LoseUpdate(u)
      PROVE  TaskMoves /\ asked' = asked /\ conv' = conv
  BY <1>1, NoTaskMoves DEF Receive, Start, Finish, FailUpdate, RaiseUpdate, LoseUpdate, TaskMoves
<1>2. ASSUME NEW p \in Senders, FailTask(p)
      PROVE  TaskMoves /\ asked' = asked /\ conv' = conv
  <2>1. /\ task[p].kind \in {"none", "ask", "notify", "remind"}
        /\ task[p].case \in Cases \cup {NoCase}
    BY DEF TaskInv, Task
  <2> QED
    BY <1>2, <2>1, NoTaskMoves, BeginMoves DEF FailTask
<1>3. ASSUME NEW p \in Senders, NEW c \in Cases, Recover(p, c) \/ Remind(p, c)
      PROVE  TaskMoves /\ asked' = asked /\ conv' = conv
  BY <1>3, BeginMoves DEF Recover, Remind
<1>4. ASSUME NEW r \in Runs, Extract(r)
      PROVE  TaskMoves /\ asked' = asked /\ conv' = conv
  <2>1. run[r].case \in Cases \cup {NoCase}
    BY DEF ConvTypeOK, Run
  <2> QED
    BY <1>4, <2>1, BeginMoves DEF Extract, BeginRun, ApplyResult, EndRun, FailRun, TaskMoves
<1>5. ASSUME NEW c \in Cases, Portal(c)
      PROVE  TaskMoves /\ asked' = asked /\ conv' = conv
  BY <1>5 DEF TaskMoves, Portal, PortalAnalyze, PortalContinue, PortalArchive, PortalReopen
<1> QED
  BY <1>1, <1>2, <1>3, <1>4, <1>5

LEMMA Untouched ==
  ASSUME ConvTypeOK, ChatInv, TaskInv, asked \subseteq asked', conv' = conv \/ ChatOK(conv'),
         TaskMoves \/ \E p \in Updates \cup Senders, t \in Task :
                        TaskOK(t)' /\ task' = [task EXCEPT ![p] = t]
  PROVE  ChatInv' /\ TaskInv'
<1>1. ChatInv'
  BY DEF ChatInv, ChatOK, WasAsked
<1>2. \A t \in Task : TaskOK(t) => TaskOK(t)'
  BY DEF TaskOK, WasAsked
<1>3. ASSUME NEW p \in Updates \cup Senders, NEW t \in Task, TaskOK(t)',
             task' = [task EXCEPT ![p] = t]
      PROVE  TaskInv'
  <2>1. task' \in [Updates \cup Senders -> Task]
    BY <1>3 DEF TaskInv
  <2>2. ASSUME NEW s \in Updates \cup Senders PROVE TaskOK(task[s])'
    <3>1. CASE s = p
      <4>1. task'[s] = t
        BY <1>3, <3>1 DEF TaskInv
      <4> QED
        BY <1>3, <4>1 DEF TaskOK, WasAsked
    <3>2. CASE s # p
      <4>1. task'[s] = task[s] /\ task[s] \in Task /\ TaskOK(task[s])
        BY <1>3, <3>2 DEF TaskInv
      <4> QED
        BY <4>1 DEF TaskOK, WasAsked
    <3> QED
      BY <3>1, <3>2
  <2> QED
    BY <2>1, <2>2 DEF TaskInv
<1>4. CASE task' = task
  <2>1. ASSUME NEW s \in Updates \cup Senders PROVE TaskOK(task[s])'
    BY <1>4 DEF TaskInv, TaskOK, WasAsked
  <2>2. task' \in [Updates \cup Senders -> Task]
    BY <1>4 DEF TaskInv
  <2> QED
    BY <1>1, <2>1, <2>2 DEF TaskInv
<1> QED
  BY <1>1, <1>2, <1>3, <1>4 DEF TaskMoves

(* Only questions that were sent are ever waited for.                      *)
LEMMA ChatNext ==
  ASSUME ConvTypeOK, ChatInv, TaskInv, [NextConversation]_convVars
  PROVE  ChatInv' /\ TaskInv' /\ asked' \subseteq Questions
<1>1. CASE UNCHANGED convVars
  BY <1>1, Untouched DEF convVars, TaskMoves, ConvTypeOK
<1>2. ASSUME NEW u \in Updates, HandleMessage(u) \/ HandleAnalysisAction(u)
      PROVE  ChatInv' /\ TaskInv' /\ asked' \subseteq Questions
  BY <1>2, MessageChat, ButtonChat, MessageTasks, Untouched DEF ConvTypeOK
<1>3. ASSUME NEW p \in Updates \cup Senders, WriteConversation(p)
      PROVE  ChatInv' /\ TaskInv' /\ asked' \subseteq Questions
  BY <1>3, TaskChat, WriteTasks, Untouched
<1>4. CASE \/ \E u \in Updates : Receive(u) \/ Start(u) \/ Finish(u) \/ FailUpdate(u) \/ LoseUpdate(u)
           \/ \E p \in Senders : FailTask(p)
           \/ \E p \in Senders, c \in Cases : Recover(p, c) \/ Remind(p, c)
           \/ \E r \in Runs : Extract(r)
           \/ \E c \in Cases : Portal(c)
  BY <1>4, OtherTasks, Untouched DEF ConvTypeOK
<1>5. ASSUME NEW u \in Updates, Ask(u)
      PROVE  ChatInv' /\ TaskInv' /\ asked' \subseteq Questions
  BY <1>3, <1>5 DEF WriteConversation
<1> QED
  BY <1>1, <1>2, <1>3, <1>4, <1>5 DEF NextConversation, Process

----------------------------------------------------------------------------
(* The questions                                                           *)

(* Nobody answered or gave up a question in this step.                     *)
QuestionsMove ==
  question' \in [Questions -> Question] /\ \A q \in Questions : ~Decided(q)

LEMMA SameQuestions == ASSUME ConvTypeOK, question' = question PROVE QuestionsMove
BY DEF QuestionsMove, Decided, ConvTypeOK

LEMMA EnsuredOK ==
  ASSUME NEW qs \in [Questions -> Question], NEW c
  PROVE  /\ Ensured(qs, c) \in [Questions -> Question]
         /\ \A q \in Questions :
              /\ Ensured(qs, c)[q].issue = qs[q].issue
              /\ Ensured(qs, c)[q].status \in {qs[q].status, "pending"}
BY DEF Ensured, Question

LEMMA WaivedOK ==
  ASSUME NEW qs \in [Questions -> Question], NEW c
  PROVE  /\ Waived(qs, c) \in [Questions -> Question]
         /\ \A q \in Questions :
              /\ Waived(qs, c)[q].issue \in {qs[q].issue, "waived"}
              /\ Waived(qs, c)[q].status = qs[q].status
BY DEF Waived, Question

LEMMA AnsweredOK ==
  ASSUME NEW x \in Question, NEW m PROVE Answered(x, m) \in Question
<1>1. x.attempts \in Nat /\ MaxAttempts \in Nat
  BY ConversationAssumption DEF Question
<1>2. CASE x.attempts < MaxAttempts
  <2>1. x.attempts + 1 \in 0 .. MaxAttempts
    BY <1>1, <1>2
  <2> QED
    BY <2>1 DEF Answered, Question
<1>3. CASE x.attempts >= MaxAttempts
  BY <1>3 DEF Answered, Question
<1> QED
  BY <1>1, <1>2, <1>3

LEMMA ApplyQuestions ==
  ASSUME ConvTypeOK, NEW r \in Runs, ApplyResult(r) PROVE QuestionsMove
<1> DEFINE c == run[r].case
           applied(found) == [q \in Questions |->
             IF q \in found THEN [question[q] EXCEPT !.issue = "open"]
             ELSE IF q \in OpenOf(c, question) THEN [question[q] EXCEPT !.issue = "resolved"]
             ELSE question[q]]
<1>1. PICK found : question' = Ensured(applied(found), c)
  BY DEF ApplyResult
<1>2. /\ applied(found) \in [Questions -> Question]
      /\ \A q \in Questions : /\ applied(found)[q].status = question[q].status
                              /\ applied(found)[q].issue \in {question[q].issue, "open", "resolved"}
  BY DEF ConvTypeOK, Question
<1> HIDE DEF applied
<1>3. /\ question' \in [Questions -> Question]
      /\ \A q \in Questions : /\ question'[q].issue = applied(found)[q].issue
                              /\ question'[q].status \in {applied(found)[q].status, "pending"}
  BY <1>1, <1>2, EnsuredOK
<1> QED
  BY <1>2, <1>3 DEF QuestionsMove, Decided

LEMMA WaiveQuestions ==
  ASSUME ConvTypeOK, NEW c, question' = Waived(question, c) PROVE QuestionsMove
<1>1. question \in [Questions -> Question]
  BY DEF ConvTypeOK
<1> QED
  BY <1>1, WaivedOK DEF QuestionsMove, Decided

(* Only an answer decides a question.                                      *)
LEMMA QuestionNext ==
  ASSUME ConvTypeOK, TaskInv, [NextConversation]_convVars, \A u \in Updates : ~AnswerQuestion(u)
  PROVE  QuestionsMove
<1>1. CASE UNCHANGED convVars
  BY <1>1, SameQuestions DEF convVars
<1>2. ASSUME NEW u \in Updates, HandleMessage(u) PROVE QuestionsMove
  BY <1>2, SameQuestions
  DEF HandleMessage, rows, LookAround, GoToMenu, ReminderAction, StartProfile, ChooseProfession,
      ChooseSpecialty, ChooseCaseType, NewCaseFlow, TitleCase, ShowCases, ChooseCase, OpenCase,
      AnalyzeCase, ArchiveActive, ApproveActive, RecordMessage, RefuseAnswer, RaiseUpdate,
      AnswerWithFile, BeginAnswer
<1>3. ASSUME NEW u \in Updates, HandleAnalysisAction(u) PROVE QuestionsMove
  <2>1. CASE ResolveIssues(u)
    <3>1. question \in [Questions -> Question] /\ question' = Ensured(question, update[u].on)
      BY <2>1 DEF ConvTypeOK, ResolveIssues
    <3> QED
      BY <3>1, EnsuredOK DEF QuestionsMove, Decided
  <2>2. CASE ContinueCurrent(u)
    BY <2>2, WaiveQuestions DEF ContinueCurrent, WaiveIssues
  <2> QED
    BY <1>3, <2>1, <2>2, SameQuestions
    DEF HandleAnalysisAction, rows, ReadConversation, AddEvidence, GenerateReport, SaveConversation
<1>4. ASSUME NEW p \in Updates \cup Senders, WriteConversation(p) PROVE QuestionsMove
  <2>1. CASE SendQuestion(p)
    <3> DEFINE q == task[p].question
    <3>1. question' = [question EXCEPT ![q].status = "asked"]
      BY <2>1 DEF SendQuestion
    <3>2. question \in [Questions -> Question]
      BY DEF ConvTypeOK
    <3>3. q \in Questions
      BY <2>1 DEF SendQuestion, At, TaskInv, TaskOK, Task
    <3> QED
      BY <3>1, <3>2, <3>3 DEF QuestionsMove, Decided, Question
  <2> QED
    BY <1>4, <2>1, SameQuestions
    DEF WriteConversation, Ask, rows, BeginAsk, AwaitAnswer, BeginNotify, Notify, BeginRemind,
        ShowButtons
<1>5. ASSUME NEW u \in Updates,
             Receive(u) \/ Start(u) \/ Finish(u) \/ FailUpdate(u) \/ LoseUpdate(u)
      PROVE  QuestionsMove
  BY <1>5, SameQuestions DEF rows, Receive, Start, Finish, FailUpdate, RaiseUpdate, LoseUpdate
<1>6. ASSUME NEW p \in Senders, NEW c \in Cases, FailTask(p) \/ Recover(p, c) \/ Remind(p, c)
      PROVE  QuestionsMove
  BY <1>6, SameQuestions DEF rows, FailTask, Recover, Remind
<1>7. ASSUME NEW r \in Runs, Extract(r) PROVE QuestionsMove
  BY <1>7, ApplyQuestions, SameQuestions DEF Extract, BeginRun, EndRun, FailRun
<1>8. ASSUME NEW c \in Cases, Portal(c) PROVE QuestionsMove
  BY <1>8, WaiveQuestions, SameQuestions
  DEF Portal, PortalAnalyze, PortalContinue, WaiveIssues, PortalArchive, PortalReopen
<1>9. ASSUME NEW p \in Senders, FailTask(p) PROVE QuestionsMove
  BY <1>9, SameQuestions DEF rows, FailTask
<1> QED
  BY <1>1, <1>2, <1>3, <1>4, <1>5, <1>6, <1>7, <1>8, <1>9
  DEF NextConversation, Process, WriteConversation

----------------------------------------------------------------------------
(* The cases                                                               *)

RowOK(x) == x \in Case /\ MirrorsLifecycle(x)
CasesOK == case \in [Cases -> Case] /\ CaseInv

LEMMA CasePut ==
  ASSUME CasesOK, NEW c, NEW x, c \in Cases => RowOK(x), case' = [case EXCEPT ![c] = x]
  PROVE  CasesOK'
<1>1. case' \in [Cases -> Case]
  BY DEF CasesOK, RowOK
<1>2. ASSUME NEW d \in Cases PROVE MirrorsLifecycle(case'[d])
  <2>1. CASE d = c
    BY <2>1 DEF CasesOK, RowOK
  <2>2. CASE d # c
    <3>1. case'[d] = case[d]
      BY <2>2 DEF CasesOK
    <3> QED
      BY <3>1 DEF CasesOK, CaseInv
  <2> QED
    BY <2>1, <2>2
<1> QED
  BY <1>1, <1>2 DEF CasesOK, CaseInv

LEMMA CaseStay == ASSUME CasesOK, case' = case PROVE CasesOK'
BY DEF CasesOK, CaseInv

LEMMA RowsOK == ASSUME CasesOK PROVE \A c \in Cases : RowOK(case[c])
BY DEF CasesOK, CaseInv, RowOK

LEMMA NewRowOK == RowOK(NewCase)
BY DEF RowOK, NewCase, Case, Status, LifecycleStatus, AnalysisStatus, ReportStatus,
   MirrorsLifecycle

LEMMA AnalysisRowOK ==
  ASSUME NEW x, RowOK(x), NEW s \in AnalysisStatus PROVE RowOK([x EXCEPT !.analysis = s])
BY DEF RowOK, Case, MirrorsLifecycle

(* transition_case keeps both encodings in step when the transition is one *)
(* of those it allows.                                                     *)
LEMMA TransitionRowOK ==
  ASSUME NEW x, RowOK(x), NEW t \in Status, CanTransition(x, t) PROVE RowOK(TransitionCase(x, t))
<1>1. TransitionCase(x, t) \in Case
  BY DEF TransitionCase, SyncedLifecycle, SyncedAnalysis, SyncedReport, RowOK,
         Case, Status, LifecycleStatus, AnalysisStatus, ReportStatus
<1>2. /\ TransitionCase(x, t).status = t
      /\ TransitionCase(x, t).lifecycle = SyncedLifecycle(x, t)
  BY DEF TransitionCase
<1>3. /\ t = "CANCELLED" \/ x.status # "CANCELLED"
      /\ t \notin {"ARCHIVED", "CANCELLED", "OPEN"} => x.status # "ARCHIVED"
  BY DEF CanTransition, AllowedTransitions, RowOK, Case, Status
<1> QED
  BY <1>1, <1>2, <1>3
  DEF RowOK, SyncedLifecycle, MirrorsLifecycle, Case, Status, LifecycleStatus

LEMMA ServiceRowsOK ==
  ASSUME NEW x, RowOK(x)
  PROVE  /\ x.lifecycle = "ACTIVE" => RowOK(RequestAnalysis(x))
         /\ RowOK(ArchiveCase(x)) /\ RowOK(ReopenCase(x)) /\ RowOK(WaivedCase(x))
         /\ x.lifecycle = "ACTIVE" =>
              RowOK([x EXCEPT !.status = "READY_FOR_REVIEW", !.report = "READY_FOR_REVIEW"])
BY DEF RequestAnalysis, ArchiveCase, ReopenCase, WaivedCase, RowOK, MirrorsLifecycle,
       Case, Status, LifecycleStatus, AnalysisStatus, ReportStatus

LEMMA WaiveCases ==
  ASSUME CasesOK, NEW c, WaiveIssues(c) PROVE CasesOK'
BY RowsOK, CaseStay, CasePut, ServiceRowsOK DEF WaiveIssues

LEMMA RunCases ==
  ASSUME CasesOK, NEW c, NEW x, NEW of, c \in Cases => RowOK(x), StartRun(c, x, of) PROVE CasesOK'
BY CasePut, AnalysisRowOK DEF StartRun, AnalysisStatus

(* The answer that is recorded is one to a question of the active case; the*)
(* case may wait no longer, but is one that can be finalized when it is the*)
(* last answer.                                                            *)
LEMMA AnswerIs ==
  ASSUME NEW u \in Updates, AnswerQuestion(u)
  PROVE  /\ update[u].stage = "answering"
         /\ conv.pending.question \in Questions /\ Owner[conv.pending.question] = conv.active
         /\ conv.active \in Cases
         /\ question' = AnswerTo(conv.pending.question, update[u].text)
         /\ \/ case' = case
            \/ /\ CanTransition(case[conv.active], "FINALIZING")
               /\ StartRun(conv.active, TransitionCase(case[conv.active], "FINALIZING"), ChatRuns)
         /\ Races(conv.active)
<1>1. /\ conv.pending.question \in Questions /\ Owner[conv.pending.question] = conv.active
      /\ update[u].stage = "answering"
  BY DEF AnswerQuestion, AnswerRaises, Answerable
<1>2. conv.active \in Cases
  BY <1>1, ConversationAssumption
<1>3. \/ case' = case
      \/ /\ CanTransition(case[conv.active], "FINALIZING")
         /\ StartRun(conv.active, TransitionCase(case[conv.active], "FINALIZING"), ChatRuns)
  BY DEF AnswerQuestion, AnswerRaises
<1> QED
  BY <1>1, <1>2, <1>3 DEF AnswerQuestion

LEMMA MessageCases ==
  ASSUME ConvTypeOK, CasesOK, NEW u \in Updates, HandleMessage(u) PROVE CasesOK'
<1>1. CASE TitleCase(u)
  BY <1>1, CaseStay, CasePut, NewRowOK DEF TitleCase
<1>2. CASE AnalyzeCase(u)
  <2>1. CASE StartRun(conv.active, RequestAnalysis(case[conv.active]), ChatRuns)
             /\ CanRequestAnalysis(case[conv.active])
    BY <2>1, RowsOK, ServiceRowsOK, RunCases DEF CanRequestAnalysis
  <2> QED
    BY <1>2, <2>1, CaseStay DEF AnalyzeCase
<1>3. CASE ArchiveActive(u)
  BY <1>3, RowsOK, ServiceRowsOK, CaseStay, CasePut DEF ArchiveActive
<1>4. CASE ApproveActive(u)
  <2>1. ASSUME conv.active \in Cases, case[conv.active].status = "READY_FOR_REVIEW"
        PROVE  RowOK(ApproveCase(case[conv.active]))
    <3>1. CanTransition(case[conv.active], "APPROVED") /\ "APPROVED" \in Status
      BY <2>1 DEF CanTransition, AllowedTransitions, Status
    <3> QED
      BY <2>1, <3>1, RowsOK, TransitionRowOK DEF ApproveCase
  <2> QED
    BY <1>4, <2>1, CaseStay, CasePut DEF ApproveActive
<1>5. CASE AnswerQuestion(u)
  <2> DEFINE c == conv.active
  <2>1. CASE /\ CanTransition(case[c], "FINALIZING")
             /\ StartRun(c, TransitionCase(case[c], "FINALIZING"), ChatRuns)
    <3>1. c \in Cases => RowOK(TransitionCase(case[c], "FINALIZING"))
      BY <2>1, RowsOK, TransitionRowOK DEF Status
    <3> QED
      BY <2>1, <3>1, RunCases
  <2> QED
    BY <1>5, <2>1, AnswerIs, CaseStay
<1> QED
  BY <1>1, <1>2, <1>3, <1>4, <1>5, CaseStay
  DEF HandleMessage, rows, LookAround, GoToMenu, ReminderAction, StartProfile, ChooseProfession,
      ChooseSpecialty, ChooseCaseType, NewCaseFlow, ShowCases, ChooseCase, OpenCase, RecordMessage,
      RefuseAnswer, RaiseUpdate, AnswerWithFile, BeginAnswer

LEMMA ButtonCases ==
  ASSUME ConvTypeOK, CasesOK, NEW u \in Updates, HandleAnalysisAction(u) PROVE CasesOK'
<1>1. CASE GenerateReport(u)
  <2> DEFINE c == update[u].on
             x == [case[c] EXCEPT !.status = "READY_FOR_REVIEW", !.report = "READY_FOR_REVIEW"]
  <2>1. case' = case \/ (CanGenerate(c) /\ case' = [case EXCEPT ![c] = x])
    BY <1>1 DEF GenerateReport, CasesOK
  <2>2. CanGenerate(c) /\ c \in Cases => RowOK(x)
    BY RowsOK, ServiceRowsOK DEF CanGenerate
  <2> HIDE DEF x
  <2> QED
    BY <2>1, <2>2, CaseStay, CasePut
<1>2. CASE ContinueCurrent(u)
  BY <1>2, WaiveCases DEF ContinueCurrent
<1> QED
  BY <1>1, <1>2, CaseStay
  DEF HandleAnalysisAction, rows, ReadConversation, ResolveIssues, AddEvidence, SaveConversation

LEMMA RunsCases ==
  ASSUME ConvTypeOK, CasesOK, NEW r \in Runs, Extract(r) PROVE CasesOK'
<1> DEFINE c == run[r].case
           stage == run[r].stage
<1>1. CASE BeginRun(r)
  <2>1. c \in Cases => RowOK([case[c] EXCEPT !.analysis = "PROCESSING"])
    BY RowsOK, AnalysisRowOK DEF AnalysisStatus
  <2>2. case' = [case EXCEPT ![c] = [case[c] EXCEPT !.analysis = "PROCESSING"]]
    BY <1>1 DEF BeginRun, CasesOK
  <2> QED
    BY <2>1, <2>2, CasePut
<1>2. CASE ApplyResult(r)
  BY <1>2, CaseStay DEF ApplyResult
<1>3. CASE EndRun(r)
  <2> DEFINE row == [case[c] EXCEPT !.analysis = Reviewed(stage)]
  <2>1. c \in Cases => RowOK(row)
    BY RowsOK, AnalysisRowOK DEF AnalysisStatus, Reviewed
  <2>2. Outcome(stage) \in Status
    BY DEF Outcome, Status
  <2>3. run[r].finalizing => CanTransition(row, Outcome(stage))
    BY <1>3 DEF EndRun
  <2>4. case' = [case EXCEPT ![c] = IF run[r].finalizing THEN TransitionCase(row, Outcome(stage))
                                    ELSE row]
    BY <1>3 DEF EndRun
  <2> HIDE DEF row
  <2>5. c \in Cases => RowOK(IF run[r].finalizing THEN TransitionCase(row, Outcome(stage)) ELSE row)
    BY <2>1, <2>2, <2>3, TransitionRowOK
  <2> QED
    BY <2>4, <2>5, CasePut
<1>4. CASE FailRun(r)
  <2>1. c \in Cases => RowOK([case[c] EXCEPT !.analysis = "FAILED"])
    BY RowsOK, AnalysisRowOK DEF AnalysisStatus
  <2>2. case' = [case EXCEPT ![c] = [case[c] EXCEPT !.analysis = "FAILED"]]
    BY <1>4 DEF FailRun, CasesOK
  <2> QED
    BY <2>1, <2>2, CasePut
<1> QED
  BY <1>1, <1>2, <1>3, <1>4 DEF Extract

LEMMA PortalCases ==
  ASSUME ConvTypeOK, CasesOK, NEW c \in Cases, Portal(c) PROVE CasesOK'
<1>1. CASE PortalAnalyze(c)
  BY <1>1, RowsOK, ServiceRowsOK, RunCases DEF PortalAnalyze, ActiveCases
<1>2. CASE PortalContinue(c)
  BY <1>2, WaiveCases DEF PortalContinue
<1>3. CASE PortalArchive(c) \/ PortalReopen(c)
  BY <1>3, RowsOK, ServiceRowsOK, CasePut DEF PortalArchive, PortalReopen
<1> QED
  BY <1>1, <1>2, <1>3 DEF Portal

(* A case is archived in both encodings or in neither.                     *)
LEMMA CaseNext ==
  ASSUME ConvTypeOK, CasesOK, [NextConversation]_convVars PROVE CasesOK'
<1>1. CASE UNCHANGED convVars
  BY <1>1, CaseStay DEF convVars
<1>2. ASSUME NEW p \in Updates \cup Senders, WriteConversation(p) PROVE CasesOK'
  BY <1>2, CaseStay
  DEF WriteConversation, Ask, rows, BeginAsk, SendQuestion, AwaitAnswer, BeginNotify, Notify,
      BeginRemind, ShowButtons
<1>3. ASSUME NEW u \in Updates,
             Receive(u) \/ Start(u) \/ Finish(u) \/ FailUpdate(u) \/ LoseUpdate(u)
      PROVE  CasesOK'
  BY <1>3, CaseStay DEF rows, Receive, Start, Finish, FailUpdate, RaiseUpdate, LoseUpdate
<1>4. ASSUME NEW p \in Senders, FailTask(p) PROVE CasesOK'
  BY <1>4, CaseStay DEF rows, FailTask
<1>5. ASSUME NEW p \in Senders, NEW c \in Cases, Recover(p, c) \/ Remind(p, c) PROVE CasesOK'
  BY <1>5, CaseStay DEF rows, Recover, Remind
<1> QED
  BY <1>1, <1>2, <1>3, <1>4, <1>5, MessageCases, ButtonCases, RunsCases, PortalCases
  DEF NextConversation, Process, WriteConversation


----------------------------------------------------------------------------
(* The other rows                                                          *)

(* The cases there are, what was chosen of them, and the run.              *)
OtherOK ==
  /\ known \subseteq Cases /\ typed \subseteq Cases /\ raced \subseteq Cases
  /\ profile \in {"none", "profession", "complete"}

LEMMA RunPut ==
  ASSUME RunInv, NEW r \in Runs, NEW x, RunOK(x), run' = [run EXCEPT ![r] = x] PROVE RunInv'
<1>1. run' \in [Runs -> Run]
  BY DEF RunInv, RunOK
<1>2. ASSUME NEW s \in Runs PROVE RunOK(run'[s])
  BY DEF RunInv
<1> QED
  BY <1>1, <1>2 DEF RunInv, RunOK

LEMMA RunStay == ASSUME RunInv, run' = run PROVE RunInv'
BY DEF RunInv, RunOK

LEMMA StartedRunOK ==
  ASSUME RunInv, NEW c \in Cases, NEW x, NEW of \in {ChatRuns, PortalRuns}, StartRun(c, x, of)
  PROVE  RunInv'
<1>1. RunOK([NoRun EXCEPT !.case = c, !.stage = "queued"])
  BY DEF NoRun, Run, RunOK
<1>2. PICK r \in of : run' = [run EXCEPT ![r] = [NoRun EXCEPT !.case = c, !.stage = "queued"]]
  BY DEF StartRun
<1>3. r \in Runs
  BY DEF Runs
<1> QED
  BY <1>1, <1>2, <1>3, RunPut

LEMMA RacesOthers ==
  ASSUME RunInv, OtherOK, NEW c, Races(c) PROVE raced' \subseteq Cases
<1>1. \A r \in Runs : run[r].stage = "found" /\ run[r].case = c => c \in Cases
  BY DEF RunInv, RunOK
<1> QED
  BY <1>1 DEF Races, OtherOK

LEMMA MessageOthers ==
  ASSUME ConvTypeOK, RunInv, OtherOK, NEW u \in Updates, HandleMessage(u) PROVE RunInv' /\ OtherOK'
<1>1. conv.active \in Cases \cup {NoCase}
  BY DEF ConvTypeOK, ConversationState
<1>2. CASE AnalyzeCase(u)
  BY <1>1, <1>2, StartedRunOK, RunStay DEF AnalyzeCase, OtherOK
<1>3. CASE AnswerQuestion(u)
  <2>1. raced' \subseteq Cases /\ conv.active \in Cases
    BY <1>3, AnswerIs, RacesOthers
  <2>2. RunInv'
    BY <1>3, <2>1, StartedRunOK, RunStay DEF AnswerQuestion
  <2> QED
    BY <1>3, <2>1, <2>2 DEF AnswerQuestion, OtherOK
<1>4. CASE ChooseProfession(u) \/ ChooseSpecialty(u) \/ ChooseCaseType(u) \/ TitleCase(u)
  BY <1>1, <1>4, RunStay DEF ChooseProfession, ChooseSpecialty, ChooseCaseType, TitleCase, OtherOK
<1> QED
  BY <1>2, <1>3, <1>4, RunStay
  DEF OtherOK, HandleMessage, rows, LookAround, GoToMenu, ReminderAction, StartProfile,
      NewCaseFlow, ShowCases, ChooseCase, OpenCase, ArchiveActive, ApproveActive, RecordMessage,
      RefuseAnswer, RaiseUpdate, AnswerWithFile, BeginAnswer

LEMMA ButtonOthers ==
  ASSUME ConvTypeOK, RunInv, OtherOK, NEW u \in Updates, HandleAnalysisAction(u)
  PROVE  RunInv' /\ OtherOK'
<1>1. CASE ContinueCurrent(u)
  BY <1>1, RacesOthers, RunStay DEF ContinueCurrent, WaiveIssues, OtherOK
<1> QED
  BY <1>1, RunStay
  DEF HandleAnalysisAction, OtherOK, rows, ReadConversation, ResolveIssues, AddEvidence,
      GenerateReport, SaveConversation

LEMMA RunsOthers ==
  ASSUME ConvTypeOK, RunInv, OtherOK, NEW r \in Runs, Extract(r) PROVE RunInv' /\ OtherOK'
<1>1. ASSUME NEW s \in {"queued", "running", "found", "clear", "ended"}, NEW b \in BOOLEAN,
             run[r].stage # "none"
      PROVE  /\ RunOK([run[r] EXCEPT !.stage = s])
             /\ RunOK([run[r] EXCEPT !.stage = s, !.finalizing = b])
  BY <1>1 DEF RunInv, RunOK, Run
<1>2. CASE BeginRun(r)
  <2>1. run' = [run EXCEPT ![r] = [run[r] EXCEPT !.stage = "running"]] /\ run[r].stage # "none"
    BY <1>2 DEF BeginRun, RunInv
  <2> QED
    BY <1>1, <1>2, <2>1, RunPut DEF BeginRun, OtherOK
<1>3. CASE ApplyResult(r)
  <2>1. run[r].stage = "running" /\ run[r].case \in Cases
    BY <1>3 DEF ApplyResult, RunInv, RunOK
  <2>2. PICK s \in {"found", "clear"}, b \in BOOLEAN :
          run' = [run EXCEPT ![r].stage = s, ![r].finalizing = b]
    BY <1>3 DEF ApplyResult
  <2>3. run' = [run EXCEPT ![r] = [run[r] EXCEPT !.stage = s, !.finalizing = b]]
    BY <2>2 DEF RunInv
  <2>4. RunInv'
    BY <1>1, <2>1, <2>3, RunPut
  <2>5. raced' \subseteq Cases
    BY <1>3, <2>1 DEF ApplyResult, OtherOK
  <2> QED
    BY <1>3, <2>4, <2>5 DEF ApplyResult, OtherOK
<1>4. CASE EndRun(r)
  <2>1. /\ run' = [run EXCEPT ![r] = [run[r] EXCEPT !.stage = "ended", !.finalizing = FALSE]]
        /\ run[r].stage # "none"
    BY <1>4 DEF EndRun, RunInv
  <2> QED
    BY <1>1, <1>4, <2>1, RunPut DEF EndRun, OtherOK
<1>5. CASE FailRun(r)
  <2>1. PICK s \in {"queued", "ended"} :
          run' = [run EXCEPT ![r].stage = s, ![r].finalizing = FALSE]
    BY <1>5 DEF FailRun
  <2>2. run' = [run EXCEPT ![r] = [run[r] EXCEPT !.stage = s, !.finalizing = FALSE]]
    BY <2>1 DEF RunInv
  <2>3. run[r].stage # "none"
    BY <1>5 DEF FailRun
  <2> QED
    BY <1>1, <1>5, <2>2, <2>3, RunPut DEF FailRun, OtherOK
<1> QED
  BY <1>2, <1>3, <1>4, <1>5 DEF Extract

LEMMA PortalOthers ==
  ASSUME RunInv, OtherOK, NEW c \in Cases, Portal(c) PROVE RunInv' /\ OtherOK'
<1>1. CASE PortalAnalyze(c)
  BY <1>1, StartedRunOK DEF PortalAnalyze, OtherOK
<1>2. CASE PortalContinue(c)
  BY <1>2, RacesOthers, RunStay DEF PortalContinue, WaiveIssues, OtherOK
<1>3. CASE PortalArchive(c) \/ PortalReopen(c)
  BY <1>3, RunStay DEF PortalArchive, PortalReopen, OtherOK
<1> QED
  BY <1>1, <1>2, <1>3 DEF Portal

LEMMA OtherNext ==
  ASSUME ConvTypeOK, RunInv, OtherOK, [NextConversation]_convVars PROVE RunInv' /\ OtherOK'
<1>1. CASE UNCHANGED convVars
  BY <1>1, RunStay DEF convVars, OtherOK
<1>2. ASSUME NEW p \in Updates \cup Senders, WriteConversation(p) PROVE RunInv' /\ OtherOK'
  BY <1>2, RunStay
  DEF OtherOK, WriteConversation, Ask, rows, BeginAsk, SendQuestion, AwaitAnswer, BeginNotify,
      Notify, BeginRemind, ShowButtons
<1>3. ASSUME NEW u \in Updates,
             Receive(u) \/ Start(u) \/ Finish(u) \/ FailUpdate(u) \/ LoseUpdate(u)
      PROVE  RunInv' /\ OtherOK'
  BY <1>3, RunStay DEF OtherOK, rows, Receive, Start, Finish, FailUpdate, RaiseUpdate, LoseUpdate
<1>4. ASSUME NEW p \in Senders, FailTask(p) PROVE RunInv' /\ OtherOK'
  BY <1>4, RunStay DEF OtherOK, rows, FailTask
<1>5. ASSUME NEW p \in Senders, NEW c \in Cases, Recover(p, c) \/ Remind(p, c)
      PROVE  RunInv' /\ OtherOK'
  BY <1>5, RunStay DEF OtherOK, rows, Recover, Remind
<1> QED
  BY <1>1, <1>2, <1>3, <1>4, <1>5, MessageOthers, ButtonOthers, RunsOthers, PortalOthers
  DEF NextConversation, Process, WriteConversation

----------------------------------------------------------------------------
(* The stored messages                                                     *)

(* The message of an update is stored by its own handler, once.            *)
Stores(u) ==
  \/ stored' = stored
  \/ /\ stored[u] = NotStored
     /\ \E c \in Cases \cup {Unassigned} :
          /\ stored' = [stored EXCEPT ![u] = c]
          /\ c # Unassigned =>
               /\ c = conv.active
               /\ case[c].lifecycle = "ACTIVE" \/ update[u].stage = "answering"

LEMMA AnswerStores ==
  ASSUME ConvTypeOK, NEW u \in Updates, AnswerQuestion(u)
  PROVE  /\ Stores(u)
         /\ IsLabel(update[u].text) \/ stored' = [stored EXCEPT ![u] = Kept(u, conv.active)]
<1>1. /\ conv.active \in Cases /\ update[u].stage = "answering"
      /\ stored' = IF IsLabel(update[u].text) THEN stored
                   ELSE [stored EXCEPT ![u] = Kept(u, conv.active)]
  BY AnswerIs DEF AnswerQuestion
<1>2. Stores(u)
  BY <1>1, ConversationAssumption DEF Kept, Stores, ConvTypeOK
<1> QED
  BY <1>1, <1>2

LEMMA RecordStores ==
  ASSUME ConvTypeOK, NEW u \in Updates, RecordMessage(u) PROVE Stores(u)
<1>1. conv.active \in Cases \cup {NoCase}
  BY DEF ConvTypeOK, ConversationState
<1>2. PICK c \in Cases \cup {Unassigned} :
        /\ stored' = [stored EXCEPT ![u] = Kept(u, c)]
        /\ c # Unassigned => c = conv.active /\ case[c].lifecycle = "ACTIVE"
  BY <1>1 DEF RecordMessage
<1> QED
  BY <1>2 DEF Kept, Stores, ConvTypeOK

(* A step that stores a message handles it.                                *)
LEMMA StoredNext ==
  ASSUME ConvTypeOK, CaseInv, [NextConversation]_convVars
  PROVE  stored' = stored \/ \E u \in Updates : Stores(u) /\ Counted(u)
<1>1. CASE UNCHANGED convVars
  BY <1>1 DEF convVars
<1>2. ASSUME NEW u \in Updates, AnswerQuestion(u) \/ RecordMessage(u) PROVE Stores(u) /\ Counted(u)
  <2>1. Handles(u)
    BY <1>2 DEF Handles, Handled, HandledAndAsks, AnswerQuestion, RecordMessage, Takes
  <2> QED
    BY <1>2, <2>1, HandlesMoves, AnswerStores, RecordStores
<1>3. ASSUME NEW u \in Updates, HandleMessage(u), ~AnswerQuestion(u), ~RecordMessage(u)
      PROVE  stored' = stored
  BY <1>3
  DEF HandleMessage, rows, LookAround, GoToMenu, ReminderAction, StartProfile, ChooseProfession,
      ChooseSpecialty, ChooseCaseType, NewCaseFlow, TitleCase, ShowCases, ChooseCase, OpenCase,
      AnalyzeCase, ArchiveActive, ApproveActive, RefuseAnswer, RaiseUpdate, AnswerWithFile,
      BeginAnswer
<1>4. ASSUME NEW u \in Updates, HandleAnalysisAction(u) PROVE stored' = stored
  BY <1>4
  DEF HandleAnalysisAction, ReadConversation, ResolveIssues, AddEvidence, ContinueCurrent,
      GenerateReport, SaveConversation
<1>5. ASSUME NEW u \in Updates,
             Receive(u) \/ Start(u) \/ Finish(u) \/ FailUpdate(u) \/ LoseUpdate(u)
      PROVE  stored' = stored
  BY <1>5 DEF Receive, Start, Finish, FailUpdate, RaiseUpdate, LoseUpdate
<1>6. ASSUME NEW p \in Updates \cup Senders, WriteConversation(p) PROVE stored' = stored
  BY <1>6
  DEF WriteConversation, Ask, BeginAsk, SendQuestion, AwaitAnswer, BeginNotify, Notify,
      BeginRemind, ShowButtons
<1>7. ASSUME NEW p \in Senders, \/ FailTask(p)
                                \/ \E c \in Cases : Recover(p, c) \/ Remind(p, c)
      PROVE  stored' = stored
  BY <1>7 DEF FailTask, Recover, Remind
<1>8. ASSUME NEW r \in Runs, Extract(r) PROVE stored' = stored
  BY <1>8 DEF Extract, BeginRun, ApplyResult, EndRun, FailRun
<1>9. ASSUME NEW c \in Cases, Portal(c) PROVE stored' = stored
  BY <1>9 DEF Portal, PortalAnalyze, PortalContinue, PortalArchive, PortalReopen
<1> QED
  BY <1>1, <1>2, <1>3, <1>4, <1>5, <1>6, <1>7, <1>8, <1>9
  DEF NextConversation, Process, WriteConversation

----------------------------------------------------------------------------
(* The lock of the conversation                                            *)

(* Nobody begins an answer, and who writes the conversation finds it free. *)
RespectsLock ==
  /\ \A u \in Updates : update'[u].stage = "answering" => update[u].stage = "answering"
  /\ conv' = conv \/ ConvFree

LEMMA LockKept == ASSUME LockInv, RespectsLock PROVE LockInv'
BY DEF LockInv, RespectsLock, ConvFree

(* A handler that has committed leaves its own stage only.                 *)
LEMMA CountedKeeps ==
  ASSUME NEW u \in Updates, Counted(u), conv' = conv \/ ConvFree
  PROVE  RespectsLock
BY DEF Counted, Before, RespectsLock

LEMMA RaiseKeeps ==
  ASSUME ConvTypeOK, NEW u \in Updates, RaiseUpdate(u) PROVE RespectsLock
<1>1. update' = [update EXCEPT ![u] = Raised(update[u])] /\ conv' = conv
  BY DEF RaiseUpdate, ConvTypeOK
<1>2. Raised(update[u]).stage \in {"queued", "gave up"}
  <2>1. update[u] \in Update
    BY RowTypes
  <2> QED
    BY <2>1 DEF Raised, Update
<1> QED
  BY <1>1, <1>2 DEF RespectsLock, ConvTypeOK

(* The handlers find the conversation free; the answer itself has it.      *)
LEMMA MessageLock ==
  ASSUME ConvTypeOK, LockInv, NEW u \in Updates, HandleMessage(u) PROVE LockInv'
<1>1. CASE BeginAnswer(u)
  <2>1. /\ update' = [update EXCEPT ![u].stage = "answering"] /\ conv' = conv
        /\ \A v \in Updates : update[v].stage # "answering"
        /\ conv.state = "awaiting_followup"
    BY <1>1 DEF BeginAnswer, Takes, Branch, Choosing, ConvFree
  <2>2. \A v \in Updates \ {u} : update'[v] = update[v]
    BY <2>1 DEF ConvTypeOK
  <2> QED
    BY <2>1, <2>2 DEF LockInv
<1>2. CASE RefuseAnswer(u)
  BY <1>2, RaiseKeeps, LockKept DEF RefuseAnswer
<1>3. CASE AnswerQuestion(u)
  <2>1. Handles(u)
    BY <1>3 DEF Handles, Handled, HandledAndAsks, AnswerQuestion
  <2>2. Counted(u) /\ update[u].stage = "answering"
    BY <1>3, <2>1, HandlesMoves, AnswerIs
  <2>3. \A v \in Updates : update'[v].stage # "answering"
    BY <2>2 DEF Counted, LockInv, Before
  <2> QED
    BY <2>3 DEF LockInv
<1>4. CASE ~BeginAnswer(u) /\ ~RefuseAnswer(u) /\ ~AnswerQuestion(u)
  <2>1. ConvFree
    BY <1>4
    DEF HandleMessage, LookAround, GoToMenu, ReminderAction, StartProfile, ChooseProfession,
        ChooseSpecialty, ChooseCaseType, NewCaseFlow, TitleCase, ShowCases, ChooseCase, OpenCase,
        AnalyzeCase, ArchiveActive, ApproveActive, RecordMessage, AnswerWithFile, Takes
  <2> QED
    BY <1>4, <2>1, MessageHandles, HandlesMoves, CountedKeeps, LockKept
<1> QED
  BY <1>1, <1>2, <1>3, <1>4

LEMMA ButtonLock ==
  ASSUME ConvTypeOK, LockInv, NEW u \in Updates, HandleAnalysisAction(u) PROVE LockInv'
<1>1. CASE ReadConversation(u) \/ SaveConversation(u)
  <2>1. RespectsLock
    BY <1>1 DEF ReadConversation, SaveConversation, RespectsLock, ConvTypeOK, Update
  <2> QED
    BY <2>1, LockKept
<1>2. CASE ~ReadConversation(u) /\ ~SaveConversation(u)
  <2>1. conv' = conv \/ ConvFree
    BY <1>2
    DEF HandleAnalysisAction, ResolveIssues, AddEvidence, ContinueCurrent, GenerateReport
  <2> QED
    BY <1>2, <2>1, ButtonHandles, HandlesMoves, CountedKeeps, LockKept
<1> QED
  BY <1>1, <1>2

LEMMA LockNext ==
  ASSUME ConvTypeOK, LockInv, [NextConversation]_convVars PROVE LockInv'
<1>1. CASE UNCHANGED convVars
  BY <1>1, LockKept DEF convVars, RespectsLock
<1>2. ASSUME NEW u \in Updates,
             Receive(u) \/ Start(u) \/ Finish(u) \/ FailUpdate(u) \/ LoseUpdate(u)
      PROVE  LockInv'
  <2>1. CASE FailUpdate(u)
    BY <2>1, RaiseKeeps, LockKept DEF FailUpdate
  <2>2. CASE Receive(u)
    BY <2>2, LockKept DEF Receive, Repeat, RespectsLock, ConvTypeOK, Update
  <2>3. CASE Start(u)
    BY <2>3, LockKept DEF Start, RespectsLock, ConvTypeOK, Update
  <2>4. CASE Finish(u)
    BY <2>4, LockKept DEF Finish, RespectsLock, ConvTypeOK, Update
  <2>5. CASE LoseUpdate(u)
    BY <2>5, LockKept DEF LoseUpdate, RespectsLock, ConvTypeOK, Update
  <2> QED
    BY <1>2, <2>1, <2>2, <2>3, <2>4, <2>5
<1>3. ASSUME NEW p \in Updates \cup Senders, WriteConversation(p) PROVE LockInv'
  <2>1. conv' = conv \/ ConvFree
    BY <1>3
    DEF WriteConversation, Ask, BeginAsk, SendQuestion, AwaitAnswer, BeginNotify, Notify,
        BeginRemind, ShowButtons
  <2>2. update' = update \/ (p \in Updates /\ update' = [update EXCEPT ![p].stage = "handled"])
    BY <1>3
    DEF WriteConversation, Ask, BeginAsk, SendQuestion, AwaitAnswer, BeginNotify, Notify,
        BeginRemind, ShowButtons, EndTask
  <2> QED
    BY <2>1, <2>2, LockKept DEF RespectsLock, ConvTypeOK, Update
<1>4. ASSUME NEW p \in Senders, FailTask(p) \/ \E c \in Cases : Recover(p, c) \/ Remind(p, c)
      PROVE  LockInv'
  BY <1>4, LockKept DEF FailTask, Recover, Remind, RespectsLock
<1>5. ASSUME NEW r \in Runs, Extract(r) PROVE LockInv'
  BY <1>5, LockKept DEF Extract, BeginRun, ApplyResult, EndRun, FailRun, RespectsLock
<1>6. ASSUME NEW c \in Cases, Portal(c) PROVE LockInv'
  BY <1>6, LockKept
  DEF Portal, PortalAnalyze, PortalContinue, PortalArchive, PortalReopen, RespectsLock
<1> QED
  BY <1>1, <1>2, <1>3, <1>4, <1>5, <1>6, MessageLock, ButtonLock
  DEF NextConversation, Process, WriteConversation

----------------------------------------------------------------------------
(* The invariant                                                           *)

LEMMA HandleNext == ASSUME ConvTypeOK, HandleInv, AllMove PROVE HandleInv'
<1> SUFFICES ASSUME NEW u \in Updates
             PROVE  /\ update'[u].handled <= 1 + Tries(update'[u])
                    /\ update'[u].stage \in Before => update'[u].handled <= Tries(update'[u])
  BY DEF HandleInv, Tries
<1>1. /\ update[u].handled \in Nat /\ Tries(update[u]) \in Nat
      /\ update'[u] \in Update /\ Moves(update[u], update'[u])
  BY RowTypes DEF AllMove
<1>2. update'[u].handled \in Nat /\ Tries(update'[u]) \in Nat
  BY <1>1, Numbers
<1>3. /\ update[u].handled <= 1 + Tries(update[u])
      /\ update[u].stage \in Before => update[u].handled <= Tries(update[u])
  BY DEF HandleInv
<1> QED
  BY <1>1, <1>2, <1>3 DEF Moves

LEMMA FreshNext ==
  ASSUME ConvTypeOK, FreshInv, AllMove,
         stored' = stored \/ \E u \in Updates : Stores(u) /\ Counted(u)
  PROVE  FreshInv'
<1> SUFFICES ASSUME NEW u \in Updates, stored'[u] # NotStored, update'[u].stage \in Before
             PROVE  Tries(update'[u]) > 0
  BY DEF FreshInv, Tries
<1>1. /\ update[u].handled \in Nat /\ Tries(update[u]) \in Nat
      /\ update'[u] \in Update /\ Moves(update[u], update'[u])
  BY RowTypes DEF AllMove
<1>2. Tries(update'[u]) \in Nat
  BY <1>1, Numbers
<1>3. stored'[u] = stored[u]
  BY DEF Stores, Counted, ConvTypeOK
<1>4. update[u].stage \in Before => Tries(update[u]) > 0
  BY <1>3 DEF FreshInv
<1> QED
  BY <1>1, <1>2, <1>4 DEF Moves

LEMMA StoredType ==
  ASSUME ConvTypeOK, stored' = stored \/ \E u \in Updates : Stores(u) /\ Counted(u)
  PROVE  stored' \in [Updates -> Cases \cup {NotStored, Unassigned}]
BY DEF Stores, ConvTypeOK

LEMMA QuestionType ==
  ASSUME ConvTypeOK, CaseInv, TaskInv, [NextConversation]_convVars
  PROVE  question' \in [Questions -> Question]
<1>1. CASE \A u \in Updates : ~AnswerQuestion(u)
  BY <1>1, QuestionNext DEF QuestionsMove
<1>2. ASSUME NEW u \in Updates, AnswerQuestion(u) PROVE question' \in [Questions -> Question]
  <2> DEFINE q == conv.pending.question
  <2>1. q \in Questions /\ question' = AnswerTo(q, update[u].text)
    BY <1>2, AnswerIs
  <2>2. question' = [question EXCEPT ![q] = Answered(question[q], update[u].text)]
    BY <2>1 DEF AnswerTo, ConvTypeOK
  <2>3. Answered(question[q], update[u].text) \in Question
    BY <2>1, AnsweredOK DEF ConvTypeOK
  <2> QED
    BY <2>1, <2>2, <2>3 DEF ConvTypeOK
<1> QED
  BY <1>1, <1>2

(* Before anything is sent: the rest of the state is what a user has done  *)
(* in a case so far.                                                       *)
StartInv ==
  /\ case \in [Cases -> Case] /\ CaseInv
  /\ question \in [Questions -> Question]
  /\ ChatOK(conv)
  /\ known \subseteq Cases /\ typed \subseteq Cases /\ asked \subseteq Questions
  /\ profile \in {"none", "profession", "complete"}

LEMMA NothingSent ==
  ASSUME StartInv, NEW cases, NEW questions, NEW chat, InitChat(cases, questions, chat)
  PROVE  IInv /\ raced = {} /\ \A r \in Runs : run[r].stage = "none"
<1> USE DEF StartInv, InitChat
<1>1. MaxAttempts \in Nat /\ MaxRetries \in Nat /\ MaxLosses \in Nat
  BY ConversationAssumption
<1>2. NoUpdate \in Update /\ Tries(NoUpdate) = 0 /\ NoUpdate.handled = 0
  BY <1>1 DEF NoUpdate, Update, Tries
<1>3. update \in [Updates -> Update] /\ HandleInv
  BY <1>2 DEF HandleInv
<1>4. stored \in [Updates -> Cases \cup {NotStored, Unassigned}] /\ FreshInv
  BY DEF FreshInv
<1>5. TaskInv
  BY NewTaskOK DEF TaskInv, TaskOK
<1>6. RunInv /\ \A r \in Runs : run[r].stage = "none"
  BY DEF RunInv, RunOK, NoRun, Run
<1>7. LockInv
  BY DEF LockInv, NoUpdate
<1> QED
  BY <1>3, <1>4, <1>5, <1>6, <1>7 DEF IInv, ConvTypeOK, ChatInv, ChatOK, TaskInv, RunInv

LEMMA InitIInv == InitConversation => IInv
<1> SUFFICES ASSUME InitConversation PROVE IInv
  OBVIOUS
<1>1. PICK cases, questions, chat : InitChat(cases, questions, chat)
  BY DEF InitConversation
<1>2. case \in [Cases -> Case] /\ CaseInv
  BY NewRowOK DEF RowOK, CaseInv, InitConversation, InitChat
<1>3. question \in [Questions -> Question]
  BY ConversationAssumption DEF NoIssue, Question, InitConversation, InitChat
<1>4. StartInv
  BY <1>2, <1>3, IdleOK DEF StartInv, InitConversation, InitChat
<1> QED
  BY <1>1, <1>4, NothingSent

LEMMA NextIInv == IInv /\ [NextConversation]_convVars => IInv'
<1> SUFFICES ASSUME IInv, [NextConversation]_convVars PROVE IInv'
  OBVIOUS
<1>1. /\ ConvTypeOK /\ HandleInv /\ FreshInv /\ ChatInv /\ TaskInv /\ CaseInv /\ RunInv
      /\ LockInv /\ CasesOK /\ OtherOK
  BY DEF IInv, CasesOK, OtherOK, ConvTypeOK
<1>2. AllMove
  BY <1>1, NextMoves
<1>3. stored' = stored \/ \E u \in Updates : Stores(u) /\ Counted(u)
  BY <1>1, StoredNext
<1>4. HandleInv' /\ FreshInv'
  BY <1>1, <1>2, <1>3, HandleNext, FreshNext
<1>5. ChatInv' /\ TaskInv' /\ asked' \subseteq Questions
  BY <1>1, ChatNext
<1>6. CasesOK'
  BY <1>1, CaseNext
<1>7. RunInv' /\ OtherOK'
  BY <1>1, OtherNext
<1>8. /\ question' \in [Questions -> Question]
      /\ stored' \in [Updates -> Cases \cup {NotStored, Unassigned}]
  BY <1>1, <1>3, QuestionType, StoredType
<1>9. ConvTypeOK'
  BY <1>2, <1>5, <1>6, <1>7, <1>8
  DEF AllMove, ChatInv, TaskInv, CasesOK, RunInv, OtherOK, ConvTypeOK
<1>10. LockInv'
  BY <1>1, LockNext
<1> QED
  BY <1>4, <1>5, <1>6, <1>7, <1>9, <1>10 DEF IInv, CasesOK


----------------------------------------------------------------------------
(* A case that waits has something to wait for                             *)

Waits(c) == case[c].status = "NEEDS_INFORMATION"

(* The run has read the issues it found and has not moved its case yet.    *)
Holds(r, c) == run[r].case = c /\ run[r].stage = "found"

(* The question of an issue that may be raised again is not cancelled: it  *)
(* is asked again.                                                         *)
CancelInv ==
  \A q \in Questions :
    question[q].status = "cancelled" => question[q].issue \notin {"none", "open"}

(* Besides the case that waits, the run that is about to make it wait has  *)
(* found something that can be asked; and it is the only such run.         *)
AskableOK(c) ==
  /\ Waits(c) => Askable(c, question) # {}
  /\ \A r \in Runs : Holds(r, c) => ~Waits(c) /\ Askable(c, question) # {}
  /\ \A r, s \in Runs : Holds(r, c) /\ Holds(s, c) => r = s
AskInv == CancelInv /\ \A c \in Cases : c \notin raced => AskableOK(c)

(* Nothing new waits, and nothing that can be asked is lost.               *)
Calm(c) ==
  /\ Waits(c)' => Waits(c)
  /\ Askable(c, question) \subseteq Askable(c, question')
  /\ \A r \in Runs : Holds(r, c)' => Holds(r, c)

LEMMA CalmOK ==
  ASSUME NEW c \in Cases, Calm(c), c \notin raced => AskableOK(c), raced \subseteq raced'
  PROVE  c \notin raced' => AskableOK(c)'
<1>1. Askable(c, question)' = Askable(c, question')
  BY DEF Askable, OpenOf, IssuesOf
<1> QED
  BY <1>1 DEF Calm, AskableOK

(* What becomes of the questions that can be asked.                        *)
AskableIs(q, x) == x.issue = "open" /\ x.status \in {"pending", "asked"}

LEMMA AskableSet ==
  ASSUME NEW c, NEW qs
  PROVE  Askable(c, qs) = {q \in Questions : Owner[q] = c /\ AskableIs(q, qs[q])}
BY DEF Askable, OpenOf, IssuesOf, AskableIs

(* ensure_follow_up_questions only adds to them, and after it every open   *)
(* issue of the case has one.                                              *)
LEMMA EnsuredAskable ==
  ASSUME NEW qs \in [Questions -> Question], NEW c,
         \A q \in Questions : qs[q].status = "cancelled" => qs[q].issue \notin {"none", "open"}
  PROVE  /\ \A d : Askable(d, qs) \subseteq Askable(d, Ensured(qs, c))
         /\ OpenOf(c, qs) \subseteq Askable(c, Ensured(qs, c))
         /\ \A q \in Questions : Ensured(qs, c)[q].status = "cancelled"
                                   => Ensured(qs, c)[q].issue \notin {"none", "open"}
<1>1. \A q \in Questions :
        /\ Ensured(qs, c)[q].issue = qs[q].issue
        /\ Ensured(qs, c)[q].status =
             IF q \in OpenOf(c, qs) /\ qs[q].status \in {"none", "answered"} THEN "pending"
             ELSE qs[q].status
  BY DEF Ensured, Question
<1>2. \A d : Askable(d, qs) \subseteq Askable(d, Ensured(qs, c))
  BY <1>1 DEF Askable, OpenOf, IssuesOf
<1>3. ASSUME NEW q \in OpenOf(c, qs) PROVE q \in Askable(c, Ensured(qs, c))
  <2>1. q \in Questions /\ Owner[q] = c /\ qs[q].issue = "open"
    BY DEF OpenOf, IssuesOf
  <2>2. qs[q].status \in {"none", "pending", "asked", "answered"}
    BY <2>1 DEF Question
  <2> QED
    BY <1>1, <2>1, <2>2 DEF Askable, OpenOf, IssuesOf
<1> QED
  BY <1>1, <1>2, <1>3

(* No service but the transition to NEEDS_INFORMATION makes a case wait.   *)
NoneWaits == \A d \in Cases : Waits(d)' => Waits(d)

LEMMA SameCases == ASSUME case' = case PROVE NoneWaits
BY DEF NoneWaits, Waits

LEMMA PutWaits ==
  ASSUME case \in [Cases -> Case], NEW c, NEW x, case' = [case EXCEPT ![c] = x],
         c \in Cases /\ x.status = "NEEDS_INFORMATION" => Waits(c)
  PROVE  NoneWaits
BY DEF NoneWaits, Waits

LEMMA ServicesWait ==
  ASSUME NEW x \in Case
  PROVE  /\ \A s : [x EXCEPT !.analysis = s].status = x.status
         /\ \A s : [RequestAnalysis(x) EXCEPT !.analysis = s].status \in {x.status, "FINALIZING"}
         /\ ArchiveCase(x).status = "ARCHIVED" /\ ReopenCase(x).status = "OPEN"
         /\ WaivedCase(x).status \in {x.status, "OPEN"} \ {"NEEDS_INFORMATION"}
         /\ \A s, t : [TransitionCase(x, t) EXCEPT !.analysis = s].status = t
         /\ \A t : TransitionCase(x, t).status = t
BY DEF Case, RequestAnalysis, ArchiveCase, ReopenCase, WaivedCase, TransitionCase

LEMMA ServiceWrites ==
  ASSUME IInv, NEW c,
         \/ \E s : case' = [case EXCEPT ![c].analysis = s]
         \/ \E s : case' = [case EXCEPT ![c] = [RequestAnalysis(case[c]) EXCEPT !.analysis = s]]
         \/ case' = [case EXCEPT ![c] = TransitionCase(@, "APPROVED")]
         \/ case' = [case EXCEPT ![c] = ArchiveCase(@)]
         \/ case' = [case EXCEPT ![c] = ReopenCase(@)]
         \/ case' = [case EXCEPT ![c] = WaivedCase(@)]
  PROVE  NoneWaits
<1>0. case \in [Cases -> Case] /\ (c \in Cases => case[c] \in Case)
  BY DEF IInv, ConvTypeOK
<1>1. ASSUME NEW s, case' = [case EXCEPT ![c].analysis = s] PROVE NoneWaits
  <2>1. case' = [case EXCEPT ![c] = [case[c] EXCEPT !.analysis = s]]
    BY <1>0, <1>1
  <2>2. c \in Cases => [case[c] EXCEPT !.analysis = s].status = case[c].status
    BY <1>0, ServicesWait
  <2> QED
    BY <1>0, <2>1, <2>2, PutWaits DEF Waits
<1>2. ASSUME NEW s, case' = [case EXCEPT ![c] = [RequestAnalysis(case[c]) EXCEPT !.analysis = s]]
      PROVE  NoneWaits
  <2>1. c \in Cases => [RequestAnalysis(case[c]) EXCEPT !.analysis = s].status
                          \in {case[c].status, "FINALIZING"}
    BY <1>0, ServicesWait
  <2> QED
    BY <1>0, <1>2, <2>1, PutWaits DEF Waits
<1>3. ASSUME NEW x \in {TransitionCase(case[c], "APPROVED"), ArchiveCase(case[c]),
                        ReopenCase(case[c]), WaivedCase(case[c])},
             case' = [case EXCEPT ![c] = x]
      PROVE  NoneWaits
  <2>1. c \in Cases => x.status # "NEEDS_INFORMATION"
    BY <1>0, ServicesWait
  <2> QED
    BY <1>0, <1>3, <2>1, PutWaits
<1> QED
  BY <1>0, <1>1, <1>2, <1>3

LEMMA MessageWaits ==
  ASSUME IInv, NEW u \in Updates, HandleMessage(u) PROVE NoneWaits
<1>0. case \in [Cases -> Case]
  BY DEF IInv, ConvTypeOK
<1>1. CASE TitleCase(u)
  BY <1>0, <1>1, SameCases, PutWaits DEF TitleCase, NewCase
<1>2. CASE AnalyzeCase(u)
  BY <1>2, SameCases, ServiceWrites DEF AnalyzeCase, StartRun
<1>3. CASE ArchiveActive(u)
  BY <1>3, SameCases, ServiceWrites DEF ArchiveActive
<1>4. CASE ApproveActive(u)
  BY <1>4, SameCases, ServiceWrites DEF ApproveActive, ApproveCase
<1>5. CASE AnswerQuestion(u)
  <2>1. \/ case' = case
        \/ case' = [case EXCEPT ![conv.active] =
                      [TransitionCase(case[conv.active], "FINALIZING") EXCEPT !.analysis = "QUEUED"]]
    BY <1>5, AnswerIs DEF StartRun
  <2>2. CASE case' = case
    BY <2>2, SameCases
  <2>3. CASE case' = [case EXCEPT ![conv.active] =
                      [TransitionCase(case[conv.active], "FINALIZING") EXCEPT !.analysis = "QUEUED"]]
    <3>1. conv.active \in Cases =>
            [TransitionCase(case[conv.active], "FINALIZING") EXCEPT !.analysis = "QUEUED"].status
              = "FINALIZING"
      BY <1>0, ServicesWait
    <3> QED
      BY <1>0, <2>3, <3>1, PutWaits
  <2> QED
    BY <2>1, <2>2, <2>3
<1> QED
  BY <1>1, <1>2, <1>3, <1>4, <1>5, SameCases
  DEF HandleMessage, rows, LookAround, GoToMenu, ReminderAction, StartProfile, ChooseProfession,
      ChooseSpecialty, ChooseCaseType, NewCaseFlow, ShowCases, ChooseCase, OpenCase, RecordMessage,
      RefuseAnswer, RaiseUpdate, AnswerWithFile, BeginAnswer

(* Nor does any step but an applied result make a run hold a case.         *)
NoneHolds == \A r \in Runs, d \in Cases : Holds(r, d)' => Holds(r, d)

LEMMA SameRuns == ASSUME run' = run PROVE NoneHolds
BY DEF NoneHolds, Holds

LEMMA PutHolds ==
  ASSUME run \in [Runs -> Run], NEW r, NEW x, run' = [run EXCEPT ![r] = x], x.stage # "found"
  PROVE  NoneHolds
BY DEF NoneHolds, Holds

LEMMA StartHolds ==
  ASSUME IInv, NEW c, NEW x, NEW of, StartRun(c, x, of) PROVE NoneHolds
<1>1. run \in [Runs -> Run]
  BY DEF IInv, RunInv
<1>2. PICK r \in of : run' = [run EXCEPT ![r] = [NoRun EXCEPT !.case = c, !.stage = "queued"]]
  BY DEF StartRun
<1>3. [NoRun EXCEPT !.case = c, !.stage = "queued"].stage # "found"
  BY DEF NoRun
<1> QED
  BY <1>1, <1>2, <1>3, PutHolds

LEMMA MessageHolds ==
  ASSUME IInv, NEW u \in Updates, HandleMessage(u) PROVE NoneHolds
BY SameRuns, StartHolds
DEF HandleMessage, rows, LookAround, GoToMenu, ReminderAction, StartProfile, ChooseProfession,
    ChooseSpecialty, ChooseCaseType, NewCaseFlow, TitleCase, ShowCases, ChooseCase, OpenCase,
    AnalyzeCase, ArchiveActive, ApproveActive, RecordMessage, RefuseAnswer, RaiseUpdate,
    AnswerWithFile, BeginAnswer, AnswerQuestion

(* A step that disturbs neither the cases, the runs nor the questions.     *)
LEMMA QuietAsk ==
  ASSUME AskInv, NoneWaits, NoneHolds, raced \subseteq raced', question' = question PROVE AskInv'
<1>1. CancelInv'
  BY DEF AskInv, CancelInv
<1>2. ASSUME NEW c \in Cases PROVE c \notin raced' => AskableOK(c)'
  BY CalmOK DEF AskInv, Calm, NoneWaits, NoneHolds
<1> QED
  BY <1>1, <1>2 DEF AskInv

(* A step that changes questions of one case only.                         *)
LEMMA OneCaseAsk ==
  ASSUME AskInv, NoneWaits, NoneHolds, raced \subseteq raced', CancelInv', NEW c,
         \A q \in Questions : Owner[q] # c => question'[q] = question[q],
         c \in Cases /\ c \notin raced' => AskableOK(c)'
  PROVE  AskInv'
<1>1. ASSUME NEW d \in Cases, d # c PROVE d \notin raced' => AskableOK(d)'
  <2>1. Askable(d, question) \subseteq Askable(d, question')
    BY <1>1, AskableSet
  <2> QED
    BY <2>1, CalmOK DEF AskInv, Calm, NoneWaits, NoneHolds
<1> QED
  BY <1>1 DEF AskInv

(* An answer takes a question away: the next one is left, or the case is   *)
(* finalized and does not wait.  A run that holds the case meanwhile is a  *)
(* race.                                                                   *)
LEMMA AnswerAsk ==
  ASSUME IInv, AskInv, NEW u \in Updates, AnswerQuestion(u) PROVE AskInv'
<1>1. PICK c \in Cases, q \in Questions :
        /\ c = conv.active /\ q = conv.pending.question /\ Owner[q] = c
        /\ question' = AnswerTo(q, update[u].text) /\ Races(c)
  BY AnswerIs
<1>2. NoneWaits /\ NoneHolds /\ raced \subseteq raced'
  BY <1>1, MessageWaits, MessageHolds DEF HandleMessage, Races
<1>3. /\ question \in [Questions -> Question] /\ case \in [Cases -> Case]
      /\ question' = [question EXCEPT ![q] = Answered(question[q], update[u].text)]
  BY <1>1 DEF AnswerTo, IInv, ConvTypeOK
<1>4. \A p \in Questions : Owner[p] # c => question'[p] = question[p]
  BY <1>1, <1>3
<1>5. CancelInv'
  <2>1. \A m : \A x \in Question :
          Answered(x, m).status = "cancelled" => Answered(x, m).issue \notin {"none", "open"}
    BY DEF Answered, Question
  <2>2. question[q] \in Question /\ question'[q] = Answered(question[q], update[u].text)
    BY <1>1, <1>3
  <2> QED
    BY <1>3, <2>1, <2>2 DEF AskInv, CancelInv
<1>6. ASSUME c \notin raced' PROVE AskableOK(c)'
  <2>1. \A r \in Runs : ~Holds(r, c)'
    BY <1>1, <1>2, <1>6 DEF Races, Holds, NoneHolds
  <2>2. Askable(c, question)' = Askable(c, question')
    BY DEF Askable, OpenOf, IssuesOf
  <2>3. ASSUME Askable(c, question') = {} PROVE ~Waits(c)'
    <3>1. case' = [case EXCEPT ![c] = [TransitionCase(case[c], "FINALIZING") EXCEPT !.analysis = "QUEUED"]]
      BY <1>1, <2>3 DEF AnswerQuestion, StartRun
    <3>2. case'[c].status = "FINALIZING"
      BY <1>1, <1>3, <3>1, ServicesWait
    <3> QED
      BY <3>2 DEF Waits
  <2> QED
    BY <2>1, <2>2, <2>3 DEF AskableOK
<1> QED
  BY <1>2, <1>4, <1>5, <1>6, OneCaseAsk

(* Whoever waives the issues of a case lets it go on.                      *)
LEMMA WaiveAsk ==
  ASSUME IInv, AskInv, NEW c, WaiveIssues(c), run' = run PROVE AskInv'
<1>1. question \in [Questions -> Question] /\ case \in [Cases -> Case]
  BY DEF IInv, ConvTypeOK
<1>2. NoneWaits
  BY SameCases, ServiceWrites DEF WaiveIssues
<1>3. CancelInv'
  BY <1>1, WaivedOK DEF WaiveIssues, AskInv, CancelInv
<1>4. \A q \in Questions : Owner[q] # c => question'[q] = question[q]
  BY DEF WaiveIssues, Waived, OpenOf, IssuesOf
<1>5. ASSUME c \in Cases, c \notin raced' PROVE AskableOK(c)'
  <2>1. c \notin raced /\ \A r \in Runs : ~Holds(r, c)'
    BY <1>5 DEF WaiveIssues, Races, Holds
  <2>2. ~Waits(c)'
    <3>1. CASE OpenOf(c, question) = {}
      <4>1. ~Waits(c)
        BY <1>5, <2>1, <3>1 DEF AskInv, AskableOK, Askable
      <4> QED
        BY <1>2, <1>5, <4>1 DEF NoneWaits
    <3>2. CASE OpenOf(c, question) # {}
      <4>1. case'[c] = WaivedCase(case[c])
        BY <1>1, <1>5, <3>2 DEF WaiveIssues
      <4> QED
        BY <1>1, <1>5, <4>1, ServicesWait DEF Waits
    <3> QED
      BY <3>1, <3>2
  <2> QED
    BY <2>1, <2>2 DEF AskableOK
<1>6. NoneHolds /\ raced \subseteq raced'
  BY SameRuns DEF WaiveIssues, Races
<1> QED
  BY <1>2, <1>3, <1>4, <1>5, <1>6, OneCaseAsk

(* Questions are planned for issues, or sent: none is lost.                *)
LEMMA MoreAsk ==
  ASSUME AskInv, NoneWaits, NoneHolds, raced' = raced, CancelInv',
         \A c : Askable(c, question) \subseteq Askable(c, question')
  PROVE  AskInv'
<1>1. ASSUME NEW c \in Cases PROVE c \notin raced' => AskableOK(c)'
  BY CalmOK DEF AskInv, Calm, NoneWaits, NoneHolds
<1> QED
  BY <1>1 DEF AskInv

(* A result opens issues of its own case only, and cancels none.           *)
LEMMA AppliedAsk ==
  ASSUME question \in [Questions -> Question], CancelInv, NEW c,
         NEW found \in SUBSET {q \in IssuesOf(c) : question[q].issue \in {"none", "open"}},
         NEW applied,
         applied = [q \in Questions |->
           IF q \in found THEN [question[q] EXCEPT !.issue = "open"]
           ELSE IF q \in OpenOf(c, question) THEN [question[q] EXCEPT !.issue = "resolved"]
           ELSE question[q]],
         question' = Ensured(applied, c)
  PROVE  /\ CancelInv' /\ found \subseteq Askable(c, question')
         /\ \A q \in Questions : Owner[q] # c => question'[q] = question[q]
<1>1. /\ applied \in [Questions -> Question] /\ found \subseteq OpenOf(c, applied)
      /\ \A q \in Questions : Owner[q] # c => applied[q] = question[q]
  BY DEF Question, OpenOf, IssuesOf
<1>2. \A q \in Questions :
        applied[q].status = "cancelled" => applied[q].issue \notin {"none", "open"}
  BY DEF CancelInv, Question, OpenOf, IssuesOf
<1>3. \A q \in Questions : Owner[q] # c => Ensured(applied, c)[q] = applied[q]
  BY DEF Ensured, OpenOf, IssuesOf
<1>4. CancelInv' /\ OpenOf(c, applied) \subseteq Askable(c, question')
  BY <1>1, <1>2, EnsuredAskable DEF CancelInv
<1> QED
  BY <1>1, <1>3, <1>4

LEMMA ApplyAsk ==
  ASSUME IInv, AskInv, NEW r \in Runs, ApplyResult(r) PROVE AskInv'
<1>1. PICK c \in Cases : c = run[r].case
  BY DEF ApplyResult, IInv, RunInv, RunOK
<1>2. PICK found \in SUBSET {q \in IssuesOf(c) : question[q].issue \in {"none", "open"}} :
        /\ question' = Ensured([q \in Questions |->
             IF q \in found THEN [question[q] EXCEPT !.issue = "open"]
             ELSE IF q \in OpenOf(c, question) THEN [question[q] EXCEPT !.issue = "resolved"]
             ELSE question[q]], c)
        /\ run' = [run EXCEPT ![r].stage = IF found = {} THEN "clear" ELSE "found",
                              ![r].finalizing = (case[c].status = "FINALIZING")]
  BY <1>1 DEF ApplyResult
<1>3. /\ CancelInv' /\ found \subseteq Askable(c, question')
      /\ \A q \in Questions : Owner[q] # c => question'[q] = question[q]
  BY <1>2, AppliedAsk DEF IInv, ConvTypeOK, AskInv
<1>4. /\ raced \subseteq raced' /\ NoneWaits
      /\ c \notin raced' => ~Waits(c) /\ \A s \in Runs : ~Holds(s, c)
  BY <1>1, SameCases DEF ApplyResult, Waits, Holds
<1>5. /\ \A s \in Runs : run'[s].case = run[s].case
      /\ \A s \in Runs \ {r} : run'[s].stage = run[s].stage
      /\ run'[r].stage = "found" => found # {}
  BY <1>2 DEF IInv, RunInv, Run
<1>6. ASSUME NEW d \in Cases, d # c PROVE d \notin raced' => AskableOK(d)'
  <2>1. \A s \in Runs : Holds(s, d)' => Holds(s, d)
    BY <1>1, <1>5, <1>6 DEF Holds
  <2>2. Askable(d, question) \subseteq Askable(d, question')
    BY <1>3, <1>6, AskableSet
  <2> QED
    BY <1>4, <2>1, <2>2, CalmOK DEF AskInv, Calm, NoneWaits
<1>7. ASSUME c \notin raced' PROVE AskableOK(c)'
  <2>1. \A s \in Runs : Holds(s, c)' => s = r /\ found # {}
    BY <1>4, <1>5, <1>7 DEF Holds
  <2>2. Askable(c, question)' = Askable(c, question')
    BY DEF Askable, OpenOf, IssuesOf
  <2>3. ~Waits(c)'
    BY <1>4, <1>7 DEF NoneWaits
  <2> QED
    BY <1>3, <2>1, <2>2, <2>3 DEF AskableOK
<1> QED
  BY <1>3, <1>6, <1>7 DEF AskInv

(* The end of a run makes its case wait for what the run has found, and    *)
(* nothing of it was lost on the way unless a race is recorded.            *)
LEMMA EndAsk ==
  ASSUME IInv, AskInv, NEW r \in Runs, EndRun(r) PROVE AskInv'
<1>1. PICK c \in Cases : c = run[r].case
  BY DEF EndRun, IInv, RunInv, RunOK
<1>2. /\ question' = question /\ raced' = raced
      /\ run[r].stage \in {"found", "clear"}
      /\ run' = [run EXCEPT ![r].stage = "ended", ![r].finalizing = FALSE]
  BY DEF EndRun
<1>3. CancelInv'
  BY <1>2 DEF AskInv, CancelInv
<1>4. /\ \A s \in Runs \ {r} : run'[s].case = run[s].case /\ run'[s].stage = run[s].stage
      /\ run'[r].stage = "ended"
  BY <1>2 DEF IInv, RunInv, Run
<1>5. NoneHolds /\ \A d : ~Holds(r, d)'
  BY <1>4 DEF NoneHolds, Holds
<1>6. /\ \A d \in Cases \ {c} : case'[d] = case[d]
      /\ case'[c].status \in {case[c].status, Outcome(run[r].stage)}
  <2>1. case \in [Cases -> Case]
    BY DEF IInv, ConvTypeOK
  <2>2. PICK x : case' = [case EXCEPT ![c] = x] /\ x.status \in {case[c].status, Outcome(run[r].stage)}
    <3> DEFINE row == [case[c] EXCEPT !.analysis = Reviewed(run[r].stage)]
               moved == TransitionCase(row, Outcome(run[r].stage))
    <3>1. row.status = case[c].status /\ moved.status = Outcome(run[r].stage)
      BY <1>1, <2>1 DEF TransitionCase, Case
    <3>2. case' = [case EXCEPT ![c] = row] \/ case' = [case EXCEPT ![c] = moved]
      BY <1>1 DEF EndRun
    <3> HIDE DEF row, moved
    <3> QED
      BY <3>1, <3>2
  <2> QED
    BY <2>1, <2>2
<1>7. Waits(c)' => Waits(c) \/ Holds(r, c)
  BY <1>1, <1>2, <1>6 DEF Outcome, Waits, Holds
<1>8. ASSUME NEW d \in Cases, d # c PROVE d \notin raced' => AskableOK(d)'
  BY <1>2, <1>5, <1>6, <1>8, CalmOK DEF AskInv, Calm, NoneHolds, Waits
<1>9. ASSUME c \notin raced' PROVE AskableOK(c)'
  <2>1. AskableOK(c)
    BY <1>2, <1>9 DEF AskInv
  <2>2. Askable(c, question)' = Askable(c, question)
    BY <1>2 DEF Askable, OpenOf, IssuesOf
  <2>3. CASE Holds(r, c)
    <3>1. \A s \in Runs : ~Holds(s, c)'
      BY <1>5, <2>1, <2>3 DEF AskableOK, NoneHolds
    <3> QED
      BY <2>1, <2>2, <2>3, <3>1 DEF AskableOK
  <2>4. CASE ~Holds(r, c)
    BY <1>2, <1>5, <1>7, <1>9, <2>1, <2>2, <2>4, CalmOK DEF Calm, NoneHolds
  <2> QED
    BY <2>3, <2>4
<1> QED
  BY <1>3, <1>8, <1>9 DEF AskInv

LEMMA ExtractAsk ==
  ASSUME IInv, AskInv, NEW r \in Runs, Extract(r) PROVE AskInv'
<1>1. CASE BeginRun(r)
  <2>1. NoneWaits
    BY <1>1, ServiceWrites DEF BeginRun
  <2>2. NoneHolds
    BY <1>1 DEF BeginRun, NoneHolds, Holds, IInv, RunInv, Run
  <2> QED
    BY <1>1, <2>1, <2>2, QuietAsk DEF BeginRun
<1>2. CASE FailRun(r)
  <2>1. NoneWaits
    BY <1>2, ServiceWrites DEF FailRun
  <2>2. PICK s \in {"queued", "ended"} :
          run' = [run EXCEPT ![r].stage = s, ![r].finalizing = FALSE]
    BY <1>2 DEF FailRun
  <2>3. NoneHolds
    BY <2>2 DEF NoneHolds, Holds, IInv, RunInv, Run
  <2> QED
    BY <1>2, <2>1, <2>3, QuietAsk DEF FailRun
<1> QED
  BY <1>1, <1>2, ApplyAsk, EndAsk DEF Extract

LEMMA MessageAsk ==
  ASSUME IInv, AskInv, NEW u \in Updates, HandleMessage(u) PROVE AskInv'
<1>1. CASE ~AnswerQuestion(u)
  <2>1. question' = question /\ raced' = raced
    BY <1>1
    DEF HandleMessage, rows, LookAround, GoToMenu, ReminderAction, StartProfile, ChooseProfession,
        ChooseSpecialty, ChooseCaseType, NewCaseFlow, TitleCase, ShowCases, ChooseCase, OpenCase,
        AnalyzeCase, ArchiveActive, ApproveActive, RecordMessage, RefuseAnswer, RaiseUpdate,
        AnswerWithFile, BeginAnswer
  <2> QED
    BY <2>1, MessageWaits, MessageHolds, QuietAsk
<1> QED
  BY <1>1, AnswerAsk

LEMMA ButtonAsk ==
  ASSUME IInv, AskInv, NEW u \in Updates, HandleAnalysisAction(u) PROVE AskInv'
<1>1. CASE ResolveIssues(u)
  <2>1. question' = Ensured(question, update[u].on) /\ UNCHANGED <<case, run, raced>>
    BY <1>1 DEF ResolveIssues
  <2>2. CancelInv' /\ \A c : Askable(c, question) \subseteq Askable(c, question')
    BY <2>1, EnsuredAskable DEF AskInv, CancelInv, IInv, ConvTypeOK
  <2> QED
    BY <2>1, <2>2, SameCases, SameRuns, MoreAsk
<1>2. CASE ContinueCurrent(u)
  BY <1>2, WaiveAsk DEF ContinueCurrent
<1>3. CASE GenerateReport(u)
  <2> DEFINE c == update[u].on
             x == [case[c] EXCEPT !.status = "READY_FOR_REVIEW", !.report = "READY_FOR_REVIEW"]
  <2>1. case \in [Cases -> Case]
    BY DEF IInv, ConvTypeOK
  <2>2. case' = case \/ case' = [case EXCEPT ![c] = x]
    BY <1>3, <2>1 DEF GenerateReport
  <2>3. c \in Cases => x.status # "NEEDS_INFORMATION"
    BY <2>1 DEF Case
  <2> HIDE DEF x
  <2>4. NoneWaits
    BY <2>1, <2>2, <2>3, SameCases, PutWaits
  <2> QED
    BY <1>3, <2>4, SameRuns, QuietAsk DEF GenerateReport
<1> QED
  BY <1>1, <1>2, <1>3, SameCases, SameRuns, QuietAsk
  DEF HandleAnalysisAction, rows, ReadConversation, AddEvidence, SaveConversation

LEMMA WriteAsk ==
  ASSUME IInv, AskInv, NEW p \in Updates \cup Senders, WriteConversation(p) PROVE AskInv'
<1>1. CASE SendQuestion(p)
  <2> DEFINE q == task[p].question
  <2>1. question \in [Questions -> Question]
    BY DEF IInv, ConvTypeOK
  <2>2. question' = [question EXCEPT ![q].status = "asked"] /\ UNCHANGED <<case, run, raced>>
    BY <1>1 DEF SendQuestion
  <2> HIDE DEF q
  <2>3. \A x \in Questions : /\ question'[x].issue = question[x].issue
                             /\ question'[x].status \in {question[x].status, "asked"}
    BY <2>1, <2>2 DEF Question
  <2>4. CancelInv'
    BY <2>3 DEF AskInv, CancelInv
  <2>5. \A c : Askable(c, question) \subseteq Askable(c, question')
    BY <2>3, AskableSet DEF AskableIs
  <2> QED
    BY <2>2, <2>4, <2>5, SameCases, SameRuns, MoreAsk
<1> QED
  BY <1>1, SameCases, SameRuns, QuietAsk
  DEF WriteConversation, Ask, rows, BeginAsk, AwaitAnswer, BeginNotify, Notify, BeginRemind,
      ShowButtons

LEMMA PortalAsk ==
  ASSUME IInv, AskInv, NEW c \in Cases, Portal(c) PROVE AskInv'
<1>1. CASE PortalAnalyze(c)
  <2>1. NoneWaits
    BY <1>1, ServiceWrites DEF PortalAnalyze, StartRun
  <2> QED
    BY <1>1, <2>1, StartHolds, QuietAsk DEF PortalAnalyze
<1>2. CASE PortalContinue(c)
  BY <1>2, WaiveAsk DEF PortalContinue
<1>3. CASE PortalArchive(c) \/ PortalReopen(c)
  <2>1. NoneWaits
    BY <1>3, ServiceWrites DEF PortalArchive, PortalReopen
  <2> QED
    BY <1>3, <2>1, SameRuns, QuietAsk DEF PortalArchive, PortalReopen
<1> QED
  BY <1>1, <1>2, <1>3 DEF Portal

LEMMA InitAskInv == InitConversation => AskInv
BY DEF InitConversation, InitChat, AskInv, CancelInv, AskableOK, Waits, Holds, NewCase, NoIssue,
   NoRun

LEMMA NextAskInv == IInv /\ AskInv /\ [NextConversation]_convVars => AskInv'
<1> SUFFICES ASSUME IInv, AskInv, [NextConversation]_convVars PROVE AskInv'
  OBVIOUS
<1>1. CASE UNCHANGED convVars
  BY <1>1, SameCases, SameRuns, QuietAsk DEF convVars
<1>2. ASSUME NEW u \in Updates,
             Receive(u) \/ Start(u) \/ Finish(u) \/ FailUpdate(u) \/ LoseUpdate(u)
      PROVE  AskInv'
  BY <1>2, SameCases, SameRuns, QuietAsk
  DEF rows, Receive, Start, Finish, FailUpdate, RaiseUpdate, LoseUpdate
<1>3. ASSUME NEW p \in Senders, FailTask(p) \/ \E c \in Cases : Recover(p, c) \/ Remind(p, c)
      PROVE  AskInv'
  BY <1>3, SameCases, SameRuns, QuietAsk DEF rows, FailTask, Recover, Remind
<1> QED
  BY <1>1, <1>2, <1>3, MessageAsk, ButtonAsk, WriteAsk, ExtractAsk, PortalAsk
  DEF NextConversation, Process, WriteConversation

----------------------------------------------------------------------------
(* The scenarios                                                           *)

LEMMA ScenarioRows ==
  /\ Waiting \in Case /\ MirrorsLifecycle(Waiting) /\ Waiting.status = "NEEDS_INFORMATION"
  /\ Reported \in Case /\ MirrorsLifecycle(Reported) /\ Reported.status # "NEEDS_INFORMATION"
  /\ NewCase \in Case /\ MirrorsLifecycle(NewCase) /\ NewCase.status # "NEEDS_INFORMATION"
BY DEF NewCase, Waiting, Reported, Case, MirrorsLifecycle,
       Status, LifecycleStatus, AnalysisStatus, ReportStatus

LEMMA ScenarioQuestions ==
  ASSUME NEW n \in {1, 2, 3}, NEW attempts \in {0, 1}
  PROVE  /\ AskedFor(n, attempts) \in [Questions -> Question]
         /\ \A q \in Questions :
              /\ AskedFor(n, attempts)[q].status # "cancelled"
              /\ q <= n => /\ AskedFor(n, attempts)[q].issue = "open"
                           /\ AskedFor(n, attempts)[q].status \in {"asked", "pending"}
<1>1. Questions \subseteq Nat /\ MaxAttempts \in Nat /\ MaxAttempts > 0
  BY ConversationAssumption, ScenarioAssumption
<1>2. /\ NoIssue \in Question
      /\ \A status \in {"asked", "pending"} : Unresolved(status, attempts) \in Question
      /\ \A status \in {"asked", "pending"} : Unresolved(status, 0) \in Question
  BY <1>1 DEF NoIssue, Unresolved, Question
<1> QED
  BY <1>1, <1>2 DEF AskedFor, NoIssue, Unresolved

LEMMA ScenarioChats == ChatOK(Idle(NoCase)) /\ ChatOK(Idle(c1))
BY IdleOK, ScenarioAssumption

(* The chat that waits for the first question, which was asked.            *)
LEMMA ScenarioAwaiting == 1 \in asked => ChatOK(Awaiting)
BY ScenarioAssumption DEF ChatOK, Awaiting, Empty, ConversationState, Pending, WasAsked

(* Every state a scenario starts in is one the invariants hold in.         *)
LEMMA ScenarioStart ==
  ASSUME Init
  PROVE  /\ StartInv /\ CancelInv
         /\ \A c \in Cases : Waits(c) => Askable(c, question) # {}
<1>1. /\ Cases = {c1, c2} /\ {1, 2, 3} \subseteq Questions /\ Questions \subseteq Nat
      /\ Owner[1] = c1 /\ Owner[3] = c2
  BY ScenarioAssumption, ConversationAssumption DEF MCOwner
<1>2. /\ known \subseteq Cases /\ typed \subseteq Cases /\ asked \subseteq Questions
      /\ profile \in {"none", "profession", "complete"}
  BY <1>1 DEF Init
<1>3. CASE scenario \in {"flows", "cases"}
  <2>1. /\ \/ case = New(NewCase)
           \/ case = [New(NewCase) EXCEPT ![c1] = Reported]
        /\ question = NoIssues
        /\ conv = Idle(NoCase) \/ conv = Idle(c1)
    BY <1>3 DEF Init, InitChat
  <2>2. /\ case \in [Cases -> Case]
        /\ \A c \in Cases : MirrorsLifecycle(case[c]) /\ case[c].status # "NEEDS_INFORMATION"
    BY <1>1, <2>1, ScenarioRows DEF New
  <2>3. question \in [Questions -> Question] /\ CancelInv
    BY <2>1, ConversationAssumption DEF NoIssues, NoIssue, Question, CancelInv
  <2> QED
    BY <1>2, <2>1, <2>2, <2>3, ScenarioChats DEF StartInv, CaseInv, Waits
<1>4. CASE scenario \in {"answers", "runs"}
  <2>1. PICK n \in {1, 2}, attempts \in {0, 1} :
          /\ case = [New(NewCase) EXCEPT ![c1] = Waiting]
          /\ question = AskedFor(n, attempts)
          /\ conv = Awaiting
    BY <1>4 DEF Init, InitChat
  <2>2. /\ case \in [Cases -> Case]
        /\ \A c \in Cases : /\ MirrorsLifecycle(case[c])
                            /\ case[c].status = "NEEDS_INFORMATION" => c = c1
    BY <1>1, <2>1, ScenarioRows DEF New
  <2>3. /\ question \in [Questions -> Question] /\ CancelInv
        /\ 1 \in Askable(c1, question)
    BY <1>1, <2>1, ScenarioQuestions DEF CancelInv, Askable, OpenOf, IssuesOf
  <2>4. 1 \in asked
    BY <1>1, <2>1 DEF Init, AskedFor, Unresolved
  <2> QED
    BY <1>2, <2>1, <2>2, <2>3, <2>4, ScenarioAwaiting DEF StartInv, CaseInv, Waits
<1>5. CASE scenario = "reminders"
  <2>1. /\ case = New(Waiting) /\ conv = Awaiting
        /\ question = [AskedFor(3, 0) EXCEPT ![2] = NoIssue]
    BY <1>5 DEF Init, InitChat
  <2>2. case \in [Cases -> Case] /\ \A c \in Cases : MirrorsLifecycle(case[c])
    BY <2>1, ScenarioRows DEF New
  <2>3. /\ question \in [Questions -> Question] /\ CancelInv
        /\ 1 \in Askable(c1, question) /\ 3 \in Askable(c2, question)
    BY <1>1, <2>1, ScenarioQuestions, ConversationAssumption
    DEF CancelInv, NoIssue, Question, Askable, OpenOf, IssuesOf
  <2>4. 1 \in asked
    BY <1>1, <2>1 DEF Init, AskedFor, Unresolved
  <2> QED
    BY <1>1, <1>2, <2>1, <2>2, <2>3, <2>4, ScenarioAwaiting DEF StartInv, CaseInv, Waits
<1> QED
  BY <1>3, <1>4, <1>5 DEF Init, Scenarios

LEMMA ScenarioInv == Init => IInv /\ AskInv
<1> SUFFICES ASSUME Init PROVE IInv /\ AskInv
  OBVIOUS
<1>1. PICK cases, questions, chat : InitChat(cases, questions, chat)
  BY DEF Init, Scenarios
<1>2. IInv /\ raced = {} /\ \A r \in Runs : run[r].stage = "none"
  BY <1>1, ScenarioStart, NothingSent
<1> QED
  BY <1>2, ScenarioStart DEF AskInv, AskableOK, Holds

(* What moves in a scenario is a step of the conversation.                 *)
LEMMA ScenarioStep == [Next]_allVars => [NextConversation]_convVars
BY ScenarioAssumption DEF Next, allVars, NextConversation, UserSays, Worked, Lost, Portal

LEMMA Included == SpecConversation \/ Spec => [][NextConversation]_convVars
BY ScenarioStep, PTL DEF SpecConversation, Spec

LEMMA Invariance == SpecConversation \/ Spec => []IInv
<1>1. IInv /\ [NextConversation]_convVars => IInv'
  BY NextIInv
<1> QED
  BY <1>1, InitIInv, ScenarioInv, Included, PTL DEF SpecConversation, Spec

LEMMA AskInvariance == SpecConversation \/ Spec => []AskInv
<1>1. IInv /\ AskInv /\ [NextConversation]_convVars => AskInv'
  BY NextAskInv
<1> QED
  BY <1>1, InitAskInv, ScenarioInv, Invariance, Included, PTL DEF SpecConversation, Spec

----------------------------------------------------------------------------
(* Theorems                                                                *)

(* Every row of the chat, its updates, tasks and runs is of its type.      *)
THEOREM ConversationTypes == SpecConversation \/ Spec => []ConvTypeOK
<1>1. IInv => ConvTypeOK
  BY DEF IInv
<1> QED
  BY <1>1, Invariance, PTL

(* However often the webhook is called and its task is redelivered, the    *)
(* message of an update is handled once for every try.                     *)
THEOREM MessagesAreHandledOnce == SpecConversation \/ Spec => []HandledOnce
<1>1. IInv => HandledOnce
  <2> SUFFICES ASSUME IInv, NEW u \in Updates
               PROVE  update[u].handled <= 1 + update[u].retries + update[u].losses
    BY DEF HandledOnce
  <2>1. update[u].handled <= 1 + (update[u].retries + update[u].losses)
    BY DEF IInv, HandleInv, Tries
  <2>2. /\ update[u].retries \in Nat /\ update[u].losses \in Nat
        /\ update[u].handled \in Nat
    BY Numbers DEF IInv, ConvTypeOK
  <2> QED
    BY <2>1, <2>2
<1> QED
  BY <1>1, Invariance, PTL

(* A message is stored for the case that was active then, and no later     *)
(* delivery or change of the active case moves it.                         *)
THEOREM MessagesAreStoredForGood == SpecConversation \/ Spec => StoredForGood
<1>1. ASSUME IInv, [NextConversation]_convVars, NEW u \in Updates, stored'[u] # stored[u]
      PROVE  /\ stored[u] = NotStored
             /\ \/ stored'[u] = Unassigned
                \/ /\ stored'[u] = conv.active
                   /\ case[conv.active].lifecycle = "ACTIVE" \/ update[u].stage = "answering"
  <2>1. PICK v \in Updates : Stores(v) /\ stored' # stored
    BY <1>1, StoredNext DEF IInv
  <2>2. v = u
    BY <1>1, <2>1 DEF Stores, IInv, ConvTypeOK
  <2> QED
    BY <1>1, <2>1, <2>2 DEF Stores, IInv, ConvTypeOK
<1>2. IInv /\ [NextConversation]_convVars =>
        [\A u \in Updates : stored'[u] # stored[u] =>
           /\ stored[u] = NotStored
           /\ \/ stored'[u] = Unassigned
              \/ /\ stored'[u] = conv.active
                 /\ case[conv.active].lifecycle = "ACTIVE" \/ update[u].stage = "answering"]_convVars
  BY <1>1
<1> QED
  BY <1>2, Invariance, Included, PTL DEF StoredForGood

(* Only an answer of the user decides a question, and only of a question   *)
(* that was sent, while the conversation waits for it and the case it is   *)
(* about is the active one.                                                *)
THEOREM OnlyAskedQuestionsAreAnswered == SpecConversation \/ Spec => AnswersWhatWasAsked
<1> DEFINE Goal == \A q \in Questions : Decided(q) =>
             /\ q \in asked
             /\ conv.state = "awaiting_followup" /\ conv.pending.question = q
             /\ conv.active = Owner[q]
             /\ \E u \in Updates :
                  /\ update'[u].handled = update[u].handled + 1
                  /\ \/ update[u].retries + update[u].losses > 0
                     \/ IsLabel(update[u].text)
                     \/ stored'[u] = Owner[q]
<1>1. ASSUME IInv, [NextConversation]_convVars, \A u \in Updates : ~AnswerQuestion(u) PROVE Goal
  BY <1>1, QuestionNext DEF QuestionsMove, IInv
<1>2. ASSUME IInv, NEW u \in Updates, AnswerQuestion(u) PROVE Goal
  <2> DEFINE p == conv.pending.question
  <2>1. /\ p \in Questions /\ Owner[p] = conv.active /\ conv.active \in Cases
        /\ question' = AnswerTo(p, update[u].text) /\ conv.state = "awaiting_followup"
        /\ IsLabel(update[u].text) \/ stored' = [stored EXCEPT ![u] = Kept(u, conv.active)]
    BY <1>2, AnswerIs, AnswerStores DEF IInv, LockInv
  <2>2. p \in asked
    <3>1. p # NoQuestion
      BY <2>1, ConversationAssumption
    <3> QED
      BY <1>2, <3>1 DEF IInv, ChatInv, WasAsked
  <2>3. Handles(u)
    BY <1>2 DEF Handles, Handled, HandledAndAsks, AnswerQuestion
  <2>4. Counted(u)
    BY <1>2, <2>3, HandlesMoves DEF IInv
  <2>5. update[u].stage \in Before
    BY <2>4 DEF Counted, Before
  <2>6. update[u].retries + update[u].losses > 0 \/ stored[u] = NotStored
    BY <1>2, <2>5 DEF IInv, FreshInv, Tries
  <2>7. \/ update[u].retries + update[u].losses > 0
        \/ IsLabel(update[u].text)
        \/ stored'[u] = conv.active
    BY <1>2, <2>1, <2>6 DEF Kept, IInv, ConvTypeOK
  <2>8. \A q \in Questions \ {p} : question'[q] = question[q]
    BY <1>2, <2>1 DEF AnswerTo, IInv, ConvTypeOK
  <2>9. \A q \in Questions : Decided(q) => q = p
    BY <2>8 DEF Decided
  <2> QED
    BY <2>1, <2>2, <2>4, <2>7, <2>9 DEF Counted
<1>3. IInv /\ [NextConversation]_convVars => [Goal]_convVars
  BY <1>1, <1>2
<1> QED
  BY <1>3, Invariance, Included, PTL DEF AnswersWhatWasAsked

(* A case that waits for information has a question the user can be asked, *)
(* whatever the user, the portal, the sending tasks and any number of runs *)
(* of the case did since, unless one of the two known races hit the case.  *)
THEOREM WaitingCasesHaveAQuestion == SpecConversation \/ Spec => []NeverWaitsForNothing
<1>1. AskInv => NeverWaitsForNothing
  BY DEF AskInv, AskableOK, Waits, NeverWaitsForNothing
<1> QED
  BY <1>1, AskInvariance, PTL
===================================================================================
