------------------------------- MODULE Documents -------------------------------
(***************************************************************************)
(* The document of an approved revision: src/apps/documents (services.py,  *)
(* tasks.py, models.py) and the usage record it leaves.                    *)
(*                                                                         *)
(* ensure_docx_document publishes a rendering task once its transaction    *)
(* has committed.  The task commits RENDERING, renders and stores the file *)
(* outside any transaction, commits READY together with the usage record,  *)
(* and then publishes the delivery, all inside one try: whatever raises,   *)
(* the publication included, commits FAILED and lets Celery retry.         *)
(***************************************************************************)
EXTENDS Integers

CONSTANTS
  Docs,           \* revisions whose document is asked for
  Renders,        \* rendering tasks that may be published
  Deliveries,     \* delivery tasks that may be published
  MaxDocRetries,  \* max_retries of both tasks (5 in the code)
  MaxDocLosses,   \* bound: lost workers of one task
  DocFaults       \* a subset of DocFaultKinds

(* "render": rendering, storing or sending raises; "broker": a publication *)
(* is refused; "crash": a worker process is lost.                          *)
DocFaultKinds == {"render", "broker", "crash"}

NoDoc == "no document"

ASSUME DocumentsAssumption ==
  /\ MaxDocRetries \in Nat /\ MaxDocLosses \in Nat
  /\ DocFaults \subseteq DocFaultKinds
  /\ NoDoc \notin Docs

VARIABLES
  document,   \* [Docs -> GeneratedDocument row]
  usage,      \* [Docs -> UsageRecord rows of its generation]
  render,     \* [Renders -> render_docx task]
  sending,    \* [Deliveries -> deliver_docx_to_bale task]
  unsent      \* history: documents of which a rendering task was refused by the broker

docVars == <<document, usage, render, sending, unsent>>

Document == [status : {"NONE", "PENDING", "RENDERING", "READY", "FAILED"}, stored : BOOLEAN]

Task(stages) == [doc : Docs \cup {NoDoc}, stage : stages,
                 retries : 0 .. MaxDocRetries, losses : 0 .. MaxDocLosses]
NoTask == [doc |-> NoDoc, stage |-> "none", retries |-> 0, losses |-> 0]
Queued(d) == [doc |-> d, stage |-> "queued", retries |-> 0, losses |-> 0]

RenderStages == {"none", "queued", "rendering", "committed", "failed", "done", "gave up"}
SendStages == {"none", "queued", "reading", "sent", "skipped", "done", "gave up"}

InitDocuments ==
  /\ document = [d \in Docs |-> [status |-> "NONE", stored |-> FALSE]]
  /\ usage = [d \in Docs |-> 0]
  /\ render = [t \in Renders |-> NoTask]
  /\ sending = [t \in Deliveries |-> NoTask]
  /\ unsent = {}

Row(d, row) == document' = [document EXCEPT ![d] = row]
RenderTask(t, row) == render' = [render EXCEPT ![t] = row]
SendTask(t, row) == sending' = [sending EXCEPT ![t] = row]

----------------------------------------------------------------------------
(* ensure_docx_document                                                    *)

Ensured(row) ==
  IF row.status \in {"NONE", "FAILED"} THEN [row EXCEPT !.status = "PENDING"] ELSE row

(* The row is created, or a FAILED one is reset, and a PENDING one has a   *)
(* rendering published after the commit; the broker may refuse that.       *)
EnsureDocument(d) ==
  LET row == Ensured(document[d])
  IN  /\ row.status = "PENDING"
      /\ Row(d, row)
      /\ \/ /\ \E t \in Renders :
                 /\ render[t] = NoTask
                 /\ RenderTask(t, Queued(d))
            /\ UNCHANGED unsent
         \/ /\ "broker" \in DocFaults
            /\ unsent' = unsent \cup {d}
            /\ UNCHANGED render
      /\ UNCHANGED <<usage, sending>>

----------------------------------------------------------------------------
(* render_docx                                                             *)

(* Mutant: a document that is being rendered is left to whoever began it.  *)
StartRender_SkipsRunning(t) ==
  LET d == render[t].doc
  IN  /\ render[t].stage = "queued"
      /\ IF document[d].status \in {"READY", "RENDERING"}
         THEN /\ RenderTask(t, [render[t] EXCEPT !.stage = "done"])
              /\ UNCHANGED document
         ELSE /\ RenderTask(t, [render[t] EXCEPT !.stage = "rendering"])
              /\ Row(d, [document[d] EXCEPT !.status = "RENDERING"])
      /\ UNCHANGED <<usage, sending, unsent>>

(* READY ends the task; RENDERING does not, its worker may be lost.        *)
StartRender(t) ==
  LET d == render[t].doc
  IN  /\ render[t].stage = "queued"
      /\ IF document[d].status = "READY"
         THEN /\ RenderTask(t, [render[t] EXCEPT !.stage = "done"])
              /\ UNCHANGED document
         ELSE /\ RenderTask(t, [render[t] EXCEPT !.stage = "rendering"])
              /\ Row(d, [document[d] EXCEPT !.status = "RENDERING"])
      /\ UNCHANGED <<usage, sending, unsent>>

(* Mutant: every rendering is recorded.                                    *)
RecordDocument_Every(d) == usage' = [usage EXCEPT ![d] = @ + 1]

(* record_usage, whose idempotency key is that of the document.            *)
RecordDocument(d) == usage' = [usage EXCEPT ![d] = IF @ = 0 THEN 1 ELSE @]

(* The file is stored, and READY and the usage are one commit.             *)
CommitRender(t) ==
  LET d == render[t].doc
  IN  /\ render[t].stage = "rendering"
      /\ Row(d, [status |-> "READY", stored |-> TRUE])
      /\ RecordDocument(d)
      /\ RenderTask(t, [render[t] EXCEPT !.stage = "committed"])
      /\ UNCHANGED <<sending, unsent>>

(* The publication that runs on that commit.                               *)
PublishDelivery(t) ==
  /\ render[t].stage = "committed"
  /\ \E x \in Deliveries :
       /\ sending[x] = NoTask
       /\ SendTask(x, Queued(render[t].doc))
  /\ RenderTask(t, [render[t] EXCEPT !.stage = "done"])
  /\ UNCHANGED <<document, usage, unsent>>

(* Something in the try raised.                                            *)
RaiseInRender(t) ==
  /\ \/ render[t].stage = "rendering" /\ "render" \in DocFaults
     \/ render[t].stage = "committed" /\ "broker" \in DocFaults
  /\ RenderTask(t, [render[t] EXCEPT !.stage = "failed"])
  /\ UNCHANGED <<document, usage, sending, unsent>>

(* Mutant: a failed rendering is queued again without a limit.             *)
FailRender_Forever(t) ==
  /\ render[t].stage = "failed"
  /\ Row(render[t].doc, [document[render[t].doc] EXCEPT !.status = "FAILED"])
  /\ RenderTask(t, [render[t] EXCEPT !.stage = "queued", !.retries = @ + 1])
  /\ UNCHANGED <<usage, sending, unsent>>

(* The handler commits FAILED over whatever the row has become and raises: *)
(* Celery retries a few times.                                             *)
FailRender(t) ==
  /\ render[t].stage = "failed"
  /\ Row(render[t].doc, [document[render[t].doc] EXCEPT !.status = "FAILED"])
  /\ IF render[t].retries < MaxDocRetries
     THEN RenderTask(t, [render[t] EXCEPT !.stage = "queued", !.retries = @ + 1])
     ELSE RenderTask(t, [render[t] EXCEPT !.stage = "gave up"])
  /\ UNCHANGED <<usage, sending, unsent>>

(* A lost worker's task is delivered again (acks_late, reject on loss).    *)
LoseRenderer(t) ==
  /\ "crash" \in DocFaults
  /\ render[t].stage \in {"rendering", "committed", "failed"}
  /\ render[t].losses < MaxDocLosses
  /\ RenderTask(t, [render[t] EXCEPT !.stage = "queued", !.losses = @ + 1])
  /\ UNCHANGED <<document, usage, sending, unsent>>

----------------------------------------------------------------------------
(* deliver_docx_to_bale                                                    *)

(* The row is read once, without a lock; a document that is not READY, or  *)
(* a case that no chat has open, ends the task in silence.                 *)
StartDelivery(x) ==
  /\ sending[x].stage = "queued"
  /\ \/ /\ document[sending[x].doc] = [status |-> "READY", stored |-> TRUE]
        /\ SendTask(x, [sending[x] EXCEPT !.stage = "reading"])
     \/ SendTask(x, [sending[x] EXCEPT !.stage = "skipped"])
  /\ UNCHANGED <<document, usage, render, unsent>>

SendDocument(x) ==
  /\ sending[x].stage = "reading"
  /\ SendTask(x, [sending[x] EXCEPT !.stage = "sent"])
  /\ UNCHANGED <<document, usage, render, unsent>>

EndDocDelivery(x) ==
  /\ sending[x].stage = "sent"
  /\ SendTask(x, [sending[x] EXCEPT !.stage = "done"])
  /\ UNCHANGED <<document, usage, render, unsent>>

FailDocDelivery(x) ==
  /\ "render" \in DocFaults
  /\ sending[x].stage = "reading"
  /\ IF sending[x].retries < MaxDocRetries
     THEN SendTask(x, [sending[x] EXCEPT !.stage = "queued", !.retries = @ + 1])
     ELSE SendTask(x, [sending[x] EXCEPT !.stage = "gave up"])
  /\ UNCHANGED <<document, usage, render, unsent>>

LoseSender(x) ==
  /\ "crash" \in DocFaults
  /\ sending[x].stage \in {"reading", "sent"} /\ sending[x].losses < MaxDocLosses
  /\ SendTask(x, [sending[x] EXCEPT !.stage = "queued", !.losses = @ + 1])
  /\ UNCHANGED <<document, usage, render, unsent>>

----------------------------------------------------------------------------

RunRender(t) ==
  StartRender(t) \/ CommitRender(t) \/ PublishDelivery(t) \/ RaiseInRender(t) \/ FailRender(t)

RunDelivery(x) ==
  StartDelivery(x) \/ SendDocument(x) \/ EndDocDelivery(x) \/ FailDocDelivery(x)

NextDocuments ==
  \/ \E d \in Docs : EnsureDocument(d)
  \/ \E t \in Renders : RunRender(t) \/ LoseRenderer(t)
  \/ \E x \in Deliveries : RunDelivery(x) \/ LoseSender(x)

SpecDocuments == InitDocuments /\ [][NextDocuments]_docVars

----------------------------------------------------------------------------
(* Properties                                                              *)

DocTypeOK ==
  /\ document \in [Docs -> Document]
  /\ usage \in [Docs -> Nat]
  /\ render \in [Renders -> Task(RenderStages)]
  /\ sending \in [Deliveries -> Task(SendStages)]
  /\ unsent \subseteq Docs

(* A document is counted against the tenant once it is stored, exactly     *)
(* once, whichever rendering finished first, failed after its commit, was  *)
(* repeated or lost; and what the portal or the chat may hand out (READY)  *)
(* is stored and counted (render_docx, record_usage's idempotency key).    *)
DocumentCountedOnce ==
  \A d \in Docs :
    /\ usage[d] = IF document[d].stored THEN 1 ELSE 0
    /\ document[d].status = "READY" => document[d].stored

GaveUp(d) == \E t \in Renders : render[t].doc = d /\ render[t].stage = "gave up"

(* Every document that is asked for ends READY, and stays so, although two *)
(* tasks may render it, a late failure writes FAILED over READY and a lost *)
(* worker leaves it RENDERING; unless a task exhausted its retries or the  *)
(* broker refused to take one (render_docx, its autoretry and acks_late).  *)
DocumentSettles ==
  \A d \in Docs :
    document[d].status # "NONE" ~>
      [](document[d].status = "READY" \/ GaveUp(d) \/ d \in unsent)
=============================================================================
