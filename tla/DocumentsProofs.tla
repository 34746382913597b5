---------------------------- MODULE DocumentsProofs ----------------------------
(* What holds of Documents for any documents, tasks, numbers of retries    *)
(* and losses, and faults.                                                 *)
EXTENDS Documents, TLAPS

(* A task that was published has a document.                               *)
TaskInv ==
  /\ \A t \in Renders : render[t].stage # "none" => render[t].doc \in Docs
  /\ \A x \in Deliveries : sending[x].stage # "none" => sending[x].doc \in Docs

DocumentInv == DocTypeOK /\ TaskInv /\ DocumentCountedOnce

----------------------------------------------------------------------------
(* Rows and tasks                                                          *)

(* A step that writes one document row, keeping or setting `stored', and   *)
(* leaves the usage alone, keeps the count.                                *)
LEMMA RowStep ==
  ASSUME DocumentInv, NEW d \in Docs, NEW row \in Document, Row(d, row),
         row.stored = document[d].stored, row.status = "READY" => row.stored, usage' = usage
  PROVE  document' \in [Docs -> Document] /\ DocumentCountedOnce'
BY DEF DocumentInv, DocTypeOK, Row, DocumentCountedOnce

(* A step that replaces one rendering task by one with a document.         *)
LEMMA RenderTaskStep ==
  ASSUME DocumentInv, NEW t \in Renders, NEW row \in Task(RenderStages), RenderTask(t, row),
         row.stage # "none" => row.doc \in Docs
  PROVE  /\ render' \in [Renders -> Task(RenderStages)]
         /\ \A s \in Renders : render'[s].stage # "none" => render'[s].doc \in Docs
BY DEF DocumentInv, DocTypeOK, RenderTask, TaskInv

LEMMA SendTaskStep ==
  ASSUME DocumentInv, NEW x \in Deliveries, NEW row \in Task(SendStages), SendTask(x, row),
         row.stage # "none" => row.doc \in Docs
  PROVE  /\ sending' \in [Deliveries -> Task(SendStages)]
         /\ \A s \in Deliveries : sending'[s].stage # "none" => sending'[s].doc \in Docs
BY DEF DocumentInv, DocTypeOK, SendTask, TaskInv

(* The same for a delivery task that moves, where nothing else changes.    *)
LEMMA SenderMoves ==
  ASSUME DocumentInv, NEW x \in Deliveries, sending[x].stage # "none",
         NEW row \in Task(SendStages), row.doc = sending[x].doc, SendTask(x, row),
         UNCHANGED <<document, usage, render, unsent>>
  PROVE  DocumentInv'
<1>1. row.doc \in Docs
  BY DEF DocumentInv, TaskInv
<1> QED
  BY <1>1, SendTaskStep DEF DocumentInv, DocTypeOK, TaskInv, DocumentCountedOnce

(* And for a rendering task that moves.                                    *)
LEMMA RendererMoves ==
  ASSUME DocumentInv, NEW t \in Renders, render[t].stage # "none",
         NEW row \in Task(RenderStages), row.doc = render[t].doc, RenderTask(t, row),
         UNCHANGED <<document, usage, sending, unsent>>
  PROVE  DocumentInv'
<1>1. row.doc \in Docs
  BY DEF DocumentInv, TaskInv
<1> QED
  BY <1>1, RenderTaskStep DEF DocumentInv, DocTypeOK, TaskInv, DocumentCountedOnce

----------------------------------------------------------------------------
(* The request                                                             *)

LEMMA NewTasks ==
  ASSUME NEW d \in Docs
  PROVE  /\ Queued(d) \in Task(RenderStages)
         /\ Queued(d) \in Task(SendStages)
<1>1. 0 \in 0 .. MaxDocRetries /\ 0 \in 0 .. MaxDocLosses
  BY DocumentsAssumption
<1>2. "queued" \in RenderStages /\ "queued" \in SendStages
  BY DEF RenderStages, SendStages
<1> QED
  BY <1>1, <1>2 DEF Queued, Task

LEMMA EnsureStep == ASSUME DocumentInv, NEW d \in Docs, EnsureDocument(d) PROVE DocumentInv'
<1>1. document[d] \in Document
  BY DEF DocumentInv, DocTypeOK
<1>2. /\ Ensured(document[d]) \in Document
      /\ Ensured(document[d]).stored = document[d].stored
      /\ Ensured(document[d]).status = "READY" => Ensured(document[d]).stored
  BY <1>1 DEF Ensured, Document, DocumentInv, DocumentCountedOnce
<1>3. Row(d, Ensured(document[d])) /\ UNCHANGED <<usage, sending>>
  BY DEF EnsureDocument
<1>4. document' \in [Docs -> Document] /\ DocumentCountedOnce'
  BY <1>2, <1>3, RowStep
<1>5. CASE \E t \in Renders : RenderTask(t, Queued(d))
           /\ UNCHANGED unsent
  <2>1. /\ render' \in [Renders -> Task(RenderStages)]
        /\ \A s \in Renders : render'[s].stage # "none" => render'[s].doc \in Docs
    BY <1>5, NewTasks, RenderTaskStep DEF Queued
  <2> QED
    BY <1>3, <1>4, <1>5, <2>1 DEF DocumentInv, DocTypeOK, TaskInv
<1>6. CASE unsent' = unsent \cup {d} /\ UNCHANGED render
  BY <1>3, <1>4, <1>6 DEF DocumentInv, DocTypeOK, TaskInv
<1> QED
  BY <1>5, <1>6 DEF EnsureDocument

----------------------------------------------------------------------------
(* The rendering                                                           *)

LEMMA RenderTypes ==
  ASSUME DocumentInv, NEW t \in Renders
  PROVE  /\ render[t] \in Task(RenderStages)
         /\ render[t].retries \in 0 .. MaxDocRetries /\ render[t].losses \in 0 .. MaxDocLosses
         /\ render[t].stage # "none" => render[t].doc \in Docs
BY DEF DocumentInv, DocTypeOK, TaskInv, Task

LEMMA StartRenderStep == ASSUME DocumentInv, NEW t \in Renders, StartRender(t) PROVE DocumentInv'
<1> DEFINE d == render[t].doc
<1>1. render[t] \in Task(RenderStages) /\ d \in Docs
  BY RenderTypes DEF StartRender
<1>2. /\ [render[t] EXCEPT !.stage = "done"] \in Task(RenderStages)
      /\ [render[t] EXCEPT !.stage = "rendering"] \in Task(RenderStages)
  BY <1>1 DEF Task, RenderStages
<1>3. CASE RenderTask(t, [render[t] EXCEPT !.stage = "done"]) /\ UNCHANGED document
  BY <1>1, <1>2, <1>3, RendererMoves DEF StartRender, Task
<1>4. CASE /\ RenderTask(t, [render[t] EXCEPT !.stage = "rendering"])
           /\ Row(d, [document[d] EXCEPT !.status = "RENDERING"])
  <2>1. document[d] \in Document
    BY <1>1 DEF DocumentInv, DocTypeOK
  <2>2. document' \in [Docs -> Document] /\ DocumentCountedOnce'
    BY <1>1, <1>4, <2>1, RowStep DEF StartRender, Document
  <2>3. /\ render' \in [Renders -> Task(RenderStages)]
        /\ \A s \in Renders : render'[s].stage # "none" => render'[s].doc \in Docs
    BY <1>1, <1>2, <1>4, RenderTaskStep DEF Task
  <2> QED
    BY <2>2, <2>3 DEF StartRender, DocumentInv, DocTypeOK, TaskInv
<1> QED
  BY <1>3, <1>4 DEF StartRender

(* READY, stored and counted in one commit.                                *)
LEMMA CommitRenderStep == ASSUME DocumentInv, NEW t \in Renders, CommitRender(t) PROVE DocumentInv'
<1> DEFINE d == render[t].doc
<1>1. render[t] \in Task(RenderStages) /\ d \in Docs
  BY RenderTypes DEF CommitRender
<1>2. usage[d] \in {0, 1}
  BY <1>1 DEF DocumentInv, DocumentCountedOnce
<1>3. usage' \in [Docs -> Nat] /\ usage' = [usage EXCEPT ![d] = 1]
  BY <1>1, <1>2 DEF CommitRender, RecordDocument, DocumentInv, DocTypeOK
<1>4. /\ document' \in [Docs -> Document]
      /\ document' = [document EXCEPT ![d] = [status |-> "READY", stored |-> TRUE]]
  BY <1>1 DEF CommitRender, Row, DocumentInv, DocTypeOK, Document
<1>5. DocumentCountedOnce'
  BY <1>1, <1>3, <1>4 DEF DocumentInv, DocTypeOK, DocumentCountedOnce
<1>6. [render[t] EXCEPT !.stage = "committed"] \in Task(RenderStages)
  BY <1>1 DEF Task, RenderStages
<1>7. /\ render' \in [Renders -> Task(RenderStages)]
      /\ \A s \in Renders : render'[s].stage # "none" => render'[s].doc \in Docs
  BY <1>1, <1>6, RenderTaskStep DEF CommitRender, Task
<1> QED
  BY <1>3, <1>4, <1>5, <1>7 DEF CommitRender, DocumentInv, DocTypeOK, TaskInv

LEMMA PublishDeliveryStep == ASSUME DocumentInv, NEW t \in Renders, PublishDelivery(t) PROVE DocumentInv'
<1>1. render[t] \in Task(RenderStages) /\ render[t].doc \in Docs
  BY RenderTypes DEF PublishDelivery
<1>2. /\ sending' \in [Deliveries -> Task(SendStages)]
      /\ \A s \in Deliveries : sending'[s].stage # "none" => sending'[s].doc \in Docs
  BY <1>1, NewTasks, SendTaskStep DEF PublishDelivery, Queued
<1>3. [render[t] EXCEPT !.stage = "done"] \in Task(RenderStages)
  BY <1>1 DEF Task, RenderStages
<1>4. /\ render' \in [Renders -> Task(RenderStages)]
      /\ \A s \in Renders : render'[s].stage # "none" => render'[s].doc \in Docs
  BY <1>1, <1>3, RenderTaskStep DEF PublishDelivery, Task
<1> QED
  BY <1>2, <1>4 DEF PublishDelivery, DocumentInv, DocTypeOK, TaskInv, DocumentCountedOnce

LEMMA RaiseStep == ASSUME DocumentInv, NEW t \in Renders, RaiseInRender(t) PROVE DocumentInv'
<1>1. [render[t] EXCEPT !.stage = "failed"] \in Task(RenderStages)
  BY RenderTypes DEF Task, RenderStages
<1> QED
  BY <1>1, RenderTypes, RendererMoves DEF RaiseInRender, Task

LEMMA FailRenderStep == ASSUME DocumentInv, NEW t \in Renders, FailRender(t) PROVE DocumentInv'
<1> DEFINE d == render[t].doc
<1>1. /\ render[t] \in Task(RenderStages) /\ d \in Docs
      /\ render[t].retries \in 0 .. MaxDocRetries
  BY RenderTypes DEF FailRender
<1>2. document[d] \in Document
  BY <1>1 DEF DocumentInv, DocTypeOK
<1>3. document' \in [Docs -> Document] /\ DocumentCountedOnce'
  BY <1>1, <1>2, RowStep DEF FailRender, Document
<1>4. PICK row \in Task(RenderStages) : RenderTask(t, row) /\ row.doc = d
  <2>1. CASE render[t].retries < MaxDocRetries
    <3>1. render[t].retries + 1 \in 0 .. MaxDocRetries
      BY <1>1, <2>1, DocumentsAssumption
    <3>2. [render[t] EXCEPT !.stage = "queued", !.retries = @ + 1] \in Task(RenderStages)
      BY <1>1, <3>1 DEF Task, RenderStages
    <3> QED
      BY <1>1, <2>1, <3>2 DEF FailRender, Task
  <2>2. CASE ~(render[t].retries < MaxDocRetries)
    <3>1. [render[t] EXCEPT !.stage = "gave up"] \in Task(RenderStages)
      BY <1>1 DEF Task, RenderStages
    <3> QED
      BY <1>1, <2>2, <3>1 DEF FailRender, Task
  <2> QED
    BY <2>1, <2>2
<1>5. /\ render' \in [Renders -> Task(RenderStages)]
      /\ \A s \in Renders : render'[s].stage # "none" => render'[s].doc \in Docs
  BY <1>1, <1>4, RenderTaskStep
<1> QED
  BY <1>3, <1>5 DEF FailRender, DocumentInv, DocTypeOK, TaskInv

LEMMA LoseRendererStep == ASSUME DocumentInv, NEW t \in Renders, LoseRenderer(t) PROVE DocumentInv'
<1>1. render[t].losses + 1 \in 0 .. MaxDocLosses
  BY RenderTypes, DocumentsAssumption DEF LoseRenderer
<1>2. [render[t] EXCEPT !.stage = "queued", !.losses = @ + 1] \in Task(RenderStages)
  BY <1>1, RenderTypes DEF Task, RenderStages
<1> QED
  BY <1>2, RenderTypes, RendererMoves DEF LoseRenderer, Task

----------------------------------------------------------------------------
(* The delivery                                                            *)

LEMMA DeliveryStep ==
  ASSUME DocumentInv, NEW x \in Deliveries, RunDelivery(x) \/ LoseSender(x)
  PROVE  DocumentInv'
<1>1. /\ sending[x] \in Task(SendStages)
      /\ sending[x].retries \in 0 .. MaxDocRetries /\ sending[x].losses \in 0 .. MaxDocLosses
  BY DEF DocumentInv, DocTypeOK, Task
<1>2. /\ UNCHANGED <<document, usage, render, unsent>> /\ sending[x].stage # "none"
  BY DEF RunDelivery, StartDelivery, SendDocument, EndDocDelivery, FailDocDelivery, LoseSender
<1>3. PICK row \in Task(SendStages) : SendTask(x, row) /\ row.doc = sending[x].doc
  <2>1. ASSUME NEW stage \in SendStages, SendTask(x, [sending[x] EXCEPT !.stage = stage])
        PROVE  \E row \in Task(SendStages) : SendTask(x, row) /\ row.doc = sending[x].doc
    <3>1. [sending[x] EXCEPT !.stage = stage] \in Task(SendStages)
      BY <1>1 DEF Task
    <3> QED
      BY <1>1, <2>1, <3>1 DEF Task
  <2>2. CASE sending[x].retries < MaxDocRetries
             /\ SendTask(x, [sending[x] EXCEPT !.stage = "queued", !.retries = @ + 1])
    <3>1. sending[x].retries + 1 \in 0 .. MaxDocRetries
      BY <1>1, <2>2, DocumentsAssumption
    <3>2. [sending[x] EXCEPT !.stage = "queued", !.retries = @ + 1] \in Task(SendStages)
      BY <1>1, <3>1 DEF Task, SendStages
    <3> QED
      BY <1>1, <2>2, <3>2 DEF Task
  <2>3. CASE LoseSender(x)
    <3>1. sending[x].losses + 1 \in 0 .. MaxDocLosses
      BY <1>1, <2>3, DocumentsAssumption DEF LoseSender
    <3>2. [sending[x] EXCEPT !.stage = "queued", !.losses = @ + 1] \in Task(SendStages)
      BY <1>1, <3>1 DEF Task, SendStages
    <3> QED
      BY <1>1, <2>3, <3>2 DEF Task, LoseSender
  <2> QED
    BY <2>1, <2>2, <2>3 DEF RunDelivery, StartDelivery, SendDocument, EndDocDelivery,
       FailDocDelivery, SendStages
<1> QED
  BY <1>2, <1>3, SenderMoves

----------------------------------------------------------------------------

LEMMA InitDocumentInv == InitDocuments => DocumentInv
<1> SUFFICES ASSUME InitDocuments PROVE DocumentInv
  OBVIOUS
<1>1. NoTask \in Task(RenderStages) /\ NoTask \in Task(SendStages)
  BY DocumentsAssumption DEF NoTask, Task, RenderStages, SendStages
<1>2. DocTypeOK
  BY <1>1 DEF InitDocuments, DocTypeOK, Document
<1> QED
  BY <1>2 DEF InitDocuments, DocumentInv, TaskInv, NoTask, DocumentCountedOnce

LEMMA DocumentInvariance == SpecDocuments => []DocumentInv
<1>1. ASSUME DocumentInv, [NextDocuments]_docVars PROVE DocumentInv'
  <2>1. CASE UNCHANGED docVars
    BY <1>1, <2>1 DEF docVars, DocumentInv, DocTypeOK, TaskInv, DocumentCountedOnce
  <2>2. ASSUME NEW d \in Docs, EnsureDocument(d) PROVE DocumentInv'
    BY <1>1, <2>2, EnsureStep
  <2>3. ASSUME NEW t \in Renders, RunRender(t) \/ LoseRenderer(t) PROVE DocumentInv'
    BY <1>1, <2>3, StartRenderStep, CommitRenderStep, PublishDeliveryStep, RaiseStep,
       FailRenderStep, LoseRendererStep DEF RunRender
  <2>4. ASSUME NEW x \in Deliveries, RunDelivery(x) \/ LoseSender(x) PROVE DocumentInv'
    BY <1>1, <2>4, DeliveryStep
  <2> QED
    BY <1>1, <2>1, <2>2, <2>3, <2>4 DEF NextDocuments
<1> QED
  BY <1>1, InitDocumentInv, PTL DEF SpecDocuments

(* The type invariant of Documents.                                        *)
THEOREM DocumentTypes == SpecDocuments => []DocTypeOK
BY DocumentInvariance, PTL DEF DocumentInv

(* Whatever fails, is lost or runs twice, a document is counted exactly    *)
(* once as soon as it is stored, and READY only when it is stored          *)
(* (render_docx).                                                          *)
THEOREM DocumentsAreCountedOnce == SpecDocuments => []DocumentCountedOnce
BY DocumentInvariance, PTL DEF DocumentInv

----------------------------------------------------------------------------
(* What DocumentSettles rests on                                           *)

(* Some rendering will still write the row.                                *)
UnderWay(d) ==
  \E t \in Renders : render[t].doc = d /\ render[t].stage \in {"queued", "rendering", "failed"}

(* A document that was asked for and is not READY is being rendered, or a  *)
(* task used up its retries, or the broker refused one.                    *)
NothingForgotten ==
  \A d \in Docs :
    document[d].status # "NONE" =>
      document[d].status = "READY" \/ UnderWay(d) \/ GaveUp(d) \/ d \in unsent

(* A step that leaves the row and every other rendering alone.             *)
LEMMA SameRow ==
  ASSUME DocumentInv, NothingForgotten, NEW d \in Docs, document'[d] = document[d],
         UnderWay(d) => UnderWay(d)', GaveUp(d) => GaveUp(d)', unsent \subseteq unsent'
  PROVE  document'[d].status # "NONE" =>
           document'[d].status = "READY" \/ UnderWay(d)' \/ GaveUp(d)' \/ d \in unsent'
BY DEF NothingForgotten

(* The task of one rendering moves to a stage in which it is under way.    *)
LEMMA GoesOn ==
  ASSUME DocumentInv, NEW t \in Renders, NEW row, RenderTask(t, row),
         row.stage \in {"queued", "rendering", "failed"},
         render[t] = NoTask \/ row.doc = render[t].doc
  PROVE  /\ UnderWay(row.doc)'
         /\ render[t].stage # "gave up" =>
              \A d \in Docs : (UnderWay(d) => UnderWay(d)') /\ (GaveUp(d) => GaveUp(d)')
<1> USE DEF RenderTask, DocumentInv, DocTypeOK
<1>1. render'[t] = row /\ \A s \in Renders \ {t} : render'[s] = render[s]
  OBVIOUS
<1>2. UnderWay(row.doc)'
  BY <1>1 DEF UnderWay
<1>3. ASSUME NEW d \in Docs, UnderWay(d) PROVE UnderWay(d)'
  BY <1>1, <1>3 DEF UnderWay, NoTask
<1>4. ASSUME NEW d \in Docs, GaveUp(d), render[t].stage # "gave up" PROVE GaveUp(d)'
  BY <1>1, <1>4 DEF GaveUp
<1> QED
  BY <1>2, <1>3, <1>4

(* The task of one rendering is over.                                      *)
LEMMA RendererLeaves ==
  ASSUME DocumentInv, NEW t \in Renders, NEW row, RenderTask(t, row), NEW d \in Docs,
         d # render[t].doc \/ render[t].stage = "committed"
  PROVE  (UnderWay(d) => UnderWay(d)') /\ (GaveUp(d) => GaveUp(d)')
<1>1. \A s \in Renders : s # t => render'[s] = render[s]
  BY DEF RenderTask, DocumentInv, DocTypeOK
<1> QED
  BY <1>1 DEF UnderWay, GaveUp

LEMMA ForgottenStep ==
  ASSUME DocumentInv, NothingForgotten, [NextDocuments]_docVars
  PROVE  NothingForgotten'
<1> SUFFICES ASSUME NEW d \in Docs
             PROVE  document'[d].status # "NONE" =>
                      document'[d].status = "READY" \/ UnderWay(d)' \/ GaveUp(d)' \/ d \in unsent'
  BY DEF NothingForgotten
<1> DEFINE Goal == document'[d].status # "NONE" =>
                     document'[d].status = "READY" \/ UnderWay(d)' \/ GaveUp(d)' \/ d \in unsent'
<1>1. CASE UNCHANGED docVars
  BY <1>1, SameRow DEF docVars, UnderWay, GaveUp
<1>2. ASSUME NEW e \in Docs, EnsureDocument(e) PROVE Goal
  <2>1. \A f \in Docs : f # e => document'[f] = document[f]
    BY <1>2 DEF EnsureDocument, Row, DocumentInv, DocTypeOK
  <2>2. CASE unsent' = unsent \cup {e} /\ UNCHANGED render
    BY <2>1, <2>2, SameRow DEF UnderWay, GaveUp
  <2>3. ASSUME NEW t \in Renders, render[t] = NoTask, RenderTask(t, Queued(e)), UNCHANGED unsent
        PROVE  Goal
    <3>1. Queued(e).stage = "queued" /\ Queued(e).doc = e /\ render[t].stage = "none"
      BY <2>3 DEF Queued, NoTask
    <3>2. UnderWay(Queued(e).doc)' /\ (UnderWay(d) => UnderWay(d)') /\ (GaveUp(d) => GaveUp(d)')
      BY <2>3, <3>1, GoesOn
    <3>3. d = e => UnderWay(d)'
      BY <3>1, <3>2
    <3> QED
      BY <2>1, <2>3, <3>2, <3>3, SameRow
  <2> QED
    BY <1>2, <2>2, <2>3 DEF EnsureDocument
<1>3. ASSUME NEW t \in Renders, RunRender(t) \/ LoseRenderer(t) PROVE Goal
  <2> DEFINE e == render[t].doc
  <2>1. e \in Docs /\ render[t].stage \notin {"none", "gave up", "done"} /\ unsent' = unsent
    BY <1>3 DEF RunRender, StartRender, CommitRender, PublishDelivery, RaiseInRender, FailRender,
       LoseRenderer, DocumentInv, TaskInv
  <2>2. d # e => document'[d] = document[d]
    BY <1>3, <2>1 DEF RunRender, StartRender, CommitRender, PublishDelivery, RaiseInRender,
       FailRender, LoseRenderer, Row, DocumentInv, DocTypeOK
  <2>3. ASSUME NEW row, RenderTask(t, row), row.doc = e,
               row.stage \in {"queued", "rendering", "failed"}
        PROVE  Goal
    <3>1. UnderWay(row.doc)' /\ (UnderWay(d) => UnderWay(d)') /\ (GaveUp(d) => GaveUp(d)')
      BY <2>1, <2>3, GoesOn
    <3>2. d = e => UnderWay(d)'
      BY <2>3, <3>1
    <3> QED
      BY <2>1, <2>2, <3>1, <3>2, SameRow
  <2>4. ASSUME NEW row, RenderTask(t, row),
               \/ document'[e].status = "READY"
               \/ render[t].stage = "committed" /\ UNCHANGED document
               \/ row.doc = e /\ row.stage = "gave up"
        PROVE  Goal
    <3>1. CASE d # e \/ (render[t].stage = "committed" /\ UNCHANGED document)
      BY <2>1, <2>2, <2>4, <3>1, RendererLeaves, SameRow
    <3>2. CASE d = e /\ row.doc = e /\ row.stage = "gave up"
      <4>1. render'[t] = row
        BY <2>4 DEF RenderTask, DocumentInv, DocTypeOK
      <4> QED
        BY <3>2, <4>1 DEF GaveUp
    <3> QED
      BY <2>4, <3>1, <3>2
  <2>5. render[t] \in Task(RenderStages)
    BY DEF DocumentInv, DocTypeOK
  <2>6. \A stage : /\ [render[t] EXCEPT !.stage = stage].doc = e
                   /\ [render[t] EXCEPT !.stage = stage].stage = stage
                   /\ [render[t] EXCEPT !.stage = stage, !.retries = @ + 1].doc = e
                   /\ [render[t] EXCEPT !.stage = stage, !.retries = @ + 1].stage = stage
                   /\ [render[t] EXCEPT !.stage = stage, !.losses = @ + 1].doc = e
                   /\ [render[t] EXCEPT !.stage = stage, !.losses = @ + 1].stage = stage
    BY <2>5 DEF Task
  <2>7. CASE StartRender(t)
    <3>1. CASE document[e].status = "READY"
      BY <2>4, <2>7, <3>1 DEF StartRender
    <3>2. CASE document[e].status # "READY"
      BY <2>3, <2>6, <2>7, <3>2 DEF StartRender
    <3> QED
      BY <3>1, <3>2
  <2>8. CASE CommitRender(t)
    <3>1. document'[e].status = "READY"
      BY <2>1, <2>8 DEF CommitRender, Row, DocumentInv, DocTypeOK
    <3> QED
      BY <2>4, <2>8, <3>1 DEF CommitRender
  <2>9. CASE PublishDelivery(t)
    BY <2>4, <2>9 DEF PublishDelivery
  <2>10. CASE RaiseInRender(t)
    BY <2>3, <2>6, <2>10 DEF RaiseInRender
  <2>11. CASE FailRender(t)
    <3>1. CASE render[t].retries < MaxDocRetries
      <4>1. RenderTask(t, [render[t] EXCEPT !.stage = "queued", !.retries = @ + 1])
        BY <2>11, <3>1 DEF FailRender
      <4> QED
        BY <2>3, <2>6, <4>1
    <3>2. CASE ~(render[t].retries < MaxDocRetries)
      <4> DEFINE row == [render[t] EXCEPT !.stage = "gave up"]
      <4>1. RenderTask(t, row)
        BY <2>11, <3>2 DEF FailRender
      <4>2. row.doc = e /\ row.stage = "gave up"
        BY <2>6
      <4> HIDE DEF row
      <4> QED
        BY <2>4, <4>1, <4>2
    <3> QED
      BY <3>1, <3>2
  <2>12. CASE LoseRenderer(t)
    BY <2>3, <2>6, <2>12 DEF LoseRenderer
  <2> QED
    BY <1>3, <2>7, <2>8, <2>9, <2>10, <2>11, <2>12 DEF RunRender
<1>4. ASSUME NEW x \in Deliveries, RunDelivery(x) \/ LoseSender(x) PROVE Goal
  <2>1. UNCHANGED <<document, render, unsent>>
    BY <1>4 DEF RunDelivery, StartDelivery, SendDocument, EndDocDelivery, FailDocDelivery, LoseSender
  <2> QED
    BY <2>1, SameRow DEF UnderWay, GaveUp
<1> QED
  BY <1>1, <1>2, <1>3, <1>4 DEF NextDocuments

(* No request of a document is forgotten: what is not READY has a          *)
(* rendering under way, whatever failed, was lost or came late; unless a   *)
(* task used up its retries or the broker refused one.                     *)
THEOREM NoDocumentIsForgotten == SpecDocuments => []NothingForgotten
<1>1. InitDocuments => NothingForgotten
  BY DEF InitDocuments, NothingForgotten
<1>2. DocumentInv /\ NothingForgotten /\ [NextDocuments]_docVars => NothingForgotten'
  BY ForgottenStep
<1> QED
  BY <1>1, <1>2, DocumentInvariance, PTL DEF SpecDocuments
=============================================================================
