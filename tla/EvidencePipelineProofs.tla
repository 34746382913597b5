----------------------- MODULE EvidencePipelineProofs -----------------------
(***************************************************************************)
(* What holds of EvidencePipeline for every value of its constants: any    *)
(* number of attachments, runs, workers, retries, outages and recoveries,  *)
(* whatever may fail unless a theorem excludes it.                         *)
(***************************************************************************)
EXTENDS EvidencePipeline, TLAPS

----------------------------------------------------------------------------
(* The services of the case row                                            *)

(* The row every case starts from is a row, and mirrors its lifecycle.     *)
LEMMA NewCaseOK == NewCase \in Case /\ MirrorsLifecycle(NewCase)
  BY DEF NewCase, Case, Status, LifecycleStatus, AnalysisStatus, ReportStatus,
         MirrorsLifecycle

(* Writing analysis_status alone leaves a row a row and keeps the mirror.  *)
LEMMA SetAnalysisOK ==
  ASSUME NEW c \in Case, NEW s \in AnalysisStatus
  PROVE  /\ [c EXCEPT !.analysis = s] \in Case
         /\ MirrorsLifecycle(c) => MirrorsLifecycle([c EXCEPT !.analysis = s])
  BY DEF Case, MirrorsLifecycle

(* transition_case only makes allowed transitions, and those keep the      *)
(* legacy status and the lifecycle dimension in step.                      *)
LEMMA TransitionOK ==
  ASSUME NEW c \in Case, NEW t \in Status
  PROVE  /\ TransitionCase(c, t) \in Case
         /\ MirrorsLifecycle(c) /\ CanTransition(c, t)
              => MirrorsLifecycle(TransitionCase(c, t))
  <1>1. TransitionCase(c, t) \in Case
    BY DEF TransitionCase, SyncedLifecycle, SyncedAnalysis, SyncedReport,
           Case, Status, LifecycleStatus, AnalysisStatus, ReportStatus
  <1>2. ASSUME MirrorsLifecycle(c), CanTransition(c, t)
        PROVE  MirrorsLifecycle(TransitionCase(c, t))
    <2>1. /\ TransitionCase(c, t).status = t
          /\ TransitionCase(c, t).lifecycle = SyncedLifecycle(c, t)
      BY DEF TransitionCase
    <2>2. /\ t # "ARCHIVED" /\ t # "CANCELLED"
             => c.status # "CANCELLED" /\ (t # "OPEN" => c.status # "ARCHIVED")
      BY <1>2 DEF CanTransition, AllowedTransitions, Case, Status
    <2> QED
      BY <1>2, <2>1, <2>2 DEF SyncedLifecycle, MirrorsLifecycle, Case, Status, LifecycleStatus
  <1> QED
    BY <1>1, <1>2

(* So do the services that write both dimensions themselves.               *)
LEMMA ServicesOK ==
  ASSUME NEW c \in Case
  PROVE  /\ RequestAnalysis(c) \in Case
         /\ ArchiveCase(c) \in Case
         /\ ReopenCase(c) \in Case
         /\ MirrorsLifecycle(c) /\ CanRequestAnalysis(c) => MirrorsLifecycle(RequestAnalysis(c))
         /\ MirrorsLifecycle(ArchiveCase(c))
         /\ MirrorsLifecycle(ReopenCase(c))
  BY DEF RequestAnalysis, CanRequestAnalysis, ArchiveCase, ReopenCase, MirrorsLifecycle,
         Case, Status, LifecycleStatus, AnalysisStatus

----------------------------------------------------------------------------
(* Types                                                                   *)

(* A worker executes a task on an attachment or on a run, as its task says.*)
LEMMA MessageId ==
  ASSUME TypeOK, NEW p \in Workers
  PROVE  /\ worker[p].msg.task \in {"fetch_attachment", "content"}
               => worker[p].msg.id \in Attachments
         /\ worker[p].msg.task = "extract_case_facts" => worker[p].msg.id \in Runs
  BY DEF TypeOK, Messages, NoMessage

(* The queue counts messages whatever is put into it.                      *)
LEMMA PutOK ==
  ASSUME NEW q \in [Messages -> Nat], NEW m
  PROVE  Put(q, m) \in [Messages -> Nat]
  <1>1. ASSUME NEW x \in Messages PROVE (IF x = m THEN q[m] + 1 ELSE q[x]) \in Nat
    BY <1>1
  <1>2. Put(q, m) = [x \in Messages |-> IF x = m THEN q[m] + 1 ELSE q[x]]
    BY DEF Put
  <1> QED
    BY <1>1, <1>2

(* What publishing, returning, raising and moving on do to the two typed   *)
(* collections they write.                                                 *)
LEMMA ExecutionOK ==
  ASSUME TypeOK, NEW p \in Workers
  PROVE  /\ \A m : Put(queue, m) \in [Messages -> Nat]
         /\ \A t, i : Publish(t, i) => queue' \in [Messages -> Nat]
         /\ Return(p) => worker' \in [Workers -> [pc : PCs, msg : Messages \cup {NoMessage},
                                        finalizing : BOOLEAN, stillOpen : BOOLEAN]]
         /\ \A pc \in PCs :
              Goto(p, pc) => worker' \in [Workers -> [pc : PCs, msg : Messages \cup {NoMessage},
                                           finalizing : BOOLEAN, stillOpen : BOOLEAN]]
         /\ Raise(p) => queue' \in [Messages -> Nat]
         /\ Outage => outages' \in 0 .. MaxOutages
         /\ \A t, i : RaiseOnPublish(p, t, i) =>
              queue' \in [Messages -> Nat] /\ Return(p) /\ outages' \in 0 .. MaxOutages
  <1>1. \A q \in [Messages -> Nat] : \A m : Put(q, m) \in [Messages -> Nat]
    BY PutOK
  <1>2. \A q \in [Messages -> Nat] : Retried(p, q) \in [Messages -> Nat]
    BY <1>1 DEF Retried
  <1>3. queue \in [Messages -> Nat]
    BY DEF TypeOK
  <1>4. Return(p) => worker' \in [Workers -> [pc : PCs, msg : Messages \cup {NoMessage},
                                   finalizing : BOOLEAN, stillOpen : BOOLEAN]]
    BY DEF TypeOK, Return, Idle, PCs
  <1>5. ASSUME NEW pc \in PCs, Goto(p, pc)
        PROVE  worker' \in [Workers -> [pc : PCs, msg : Messages \cup {NoMessage},
                                        finalizing : BOOLEAN, stillOpen : BOOLEAN]]
    BY <1>5 DEF TypeOK, Goto
  <1>6. Outage => outages' \in 0 .. MaxOutages
    BY ConstantsAssumption DEF Outage, TypeOK
  <1> QED
    BY <1>1, <1>2, <1>3, <1>4, <1>5, <1>6 DEF Publish, Raise, RaiseOnPublish

(* Init and every step leave each variable in its type.                    *)
LEMMA TypeInit == ASSUME Init PROVE TypeOK
  <1>1. Idle \in [pc : PCs, msg : Messages \cup {NoMessage},
                  finalizing : BOOLEAN, stillOpen : BOOLEAN]
    BY DEF Idle, PCs
  <1>2. outages \in 0 .. MaxOutages /\ recoveries \in 0 .. MaxRecoveries
    BY ConstantsAssumption DEF Init
  <1>3. case \in Case
    BY NewCaseOK DEF Init
  <1> QED
    BY <1>1, <1>2, <1>3 DEF Init, TypeOK

LEMMA TypeUser == ASSUME TypeOK, UserStep PROVE TypeOK'
  <1> USE DEF TypeOK
  <1>1. ASSUME NEW r \in Runs, NEW c \in Case, StartExtraction(r, c)
        PROVE  run' \in [Runs -> {"NONE", "PENDING", "RUNNING", "COMPLETED", "FAILED"}]
               /\ case' \in Case /\ queue' \in [Messages -> Nat]
    BY <1>1, SetAnalysisOK, PutOK DEF StartExtraction, Publish, AnalysisStatus
  <1>2. CASE \E a \in Attachments : ReceiveAttachment(a) \/ ReceiveAgain(a)
    <2>1. Outage => outages' \in 0 .. MaxOutages
      BY ConstantsAssumption DEF Outage
    <2> QED
      BY <1>2, <2>1, PutOK DEF ReceiveAttachment, ReceiveAgain, Publish, rows
  <1>3. CASE \E a \in Attachments : RecoverAudio(a)
    BY <1>3, ConstantsAssumption, PutOK DEF RecoverAudio, Publish
  <1>4. CASE \E r \in Runs : Analyze(r)
    BY <1>4, <1>1, ServicesOK DEF Analyze, others
  <1>5. CASE \E r \in Runs : AnswerLastQuestion(r)
    BY <1>5, <1>1, TransitionOK DEF AnswerLastQuestion, Status, others
  <1>6. CASE \E r \in Runs : RecoverExtraction(r)
    BY <1>6, ConstantsAssumption, PutOK DEF RecoverExtraction, Publish, rows
  <1>7. CASE WaiveOpenIssues
    BY <1>7 DEF WaiveOpenIssues, Case, Status, AnalysisStatus, others
  <1>8. CASE Archive
    BY <1>8, ServicesOK DEF Archive, others
  <1>9. CASE Reopen
    BY <1>9, ServicesOK DEF Reopen, others
  <1>10. CASE BeginAnswer \/ EndAnswer
    BY <1>10 DEF BeginAnswer, EndAnswer, rows
  <1> QED
    BY <1>2, <1>3, <1>4, <1>5, <1>6, <1>7, <1>8, <1>9, <1>10 DEF UserStep

LEMMA TypeFetch == ASSUME TypeOK, NEW p \in Workers, FetchStep(p) PROVE TypeOK'
  <1> USE MessageId, ExecutionOK DEF TypeOK, At, PCs, others
  <1>1. CASE BeginFetch(p)
    BY <1>1 DEF BeginFetch, StartFetch
  <1>2. CASE StoreAttachment(p)
    BY <1>2 DEF StoreAttachment
  <1>3. CASE EnqueueNextJob(p)
    BY <1>3 DEF EnqueueNextJob, rows
  <1>4. CASE RejectAttachment(p)
    BY <1>4 DEF RejectAttachment
  <1>5. CASE FailFetch(p)
    BY <1>5 DEF FailFetch, Raise
  <1> QED
    BY <1>1, <1>2, <1>3, <1>4, <1>5 DEF FetchStep

LEMMA TypeContent == ASSUME TypeOK, NEW p \in Workers, ContentStep(p) PROVE TypeOK'
  <1> USE MessageId, ExecutionOK DEF TypeOK, At, PCs, others
  <1>1. CASE BeginContent(p)
    BY <1>1 DEF BeginContent, Raise
  <1>2. CASE RefuseTranscription(p)
    BY <1>2 DEF RefuseTranscription, Raise
  <1>3. CASE StoreContentEvidence(p)
    BY <1>3 DEF StoreContentEvidence
  <1>4. CASE CompleteContent(p)
    BY <1>4 DEF CompleteContent
  <1>5. CASE SyncTranscript(p)
    BY <1>5 DEF SyncTranscript
  <1>6. CASE ResumeExtraction(p)
    BY <1>6 DEF ResumeExtraction, rows
  <1>7. CASE FailContent(p)
    BY <1>7 DEF FailContent, Raise
  <1> QED
    BY <1>1, <1>2, <1>3, <1>4, <1>5, <1>6, <1>7 DEF ContentStep

LEMMA TypeExtraction == ASSUME TypeOK, NEW p \in Workers, ExtractionStep(p) PROVE TypeOK'
  <1> USE MessageId, ExecutionOK DEF TypeOK, At, PCs, others
  <1>1. ASSUME NEW s \in {"PENDING", "RUNNING", "COMPLETED", "FAILED"},
               NEW n \in AnalysisStatus, CommitRun(p, s, n)
        PROVE  /\ case' \in Case
               /\ run' \in [Runs -> {"NONE", "PENDING", "RUNNING", "COMPLETED", "FAILED"}]
    BY <1>1, SetAnalysisOK DEF CommitRun
  <1>2. CASE BeginExtraction(p)
    BY <1>2 DEF BeginExtraction, Raise, rows
  <1>3. CASE ParkRun(p)
    BY <1>3, <1>1 DEF ParkRun, CommitRun, AnalysisStatus
  <1>4. CASE RefuseRun(p)
    BY <1>4, <1>1 DEF RefuseRun, CommitRun, AnalysisStatus
  <1>5. CASE StartRun(p)
    BY <1>5, <1>1 DEF StartRun, CommitRun, AnalysisStatus
  <1>6. CASE CollectEvidence(p)
    BY <1>6 DEF CollectEvidence, rows
  <1>7. CASE ApplyResponse(p)
    BY <1>7 DEF ApplyResponse
  <1>8. CASE ReadOutcome(p)
    <2>1. (case.status = "FINALIZING") \in BOOLEAN /\ openIssues' \in BOOLEAN
      BY <1>8 DEF ReadOutcome
    <2>2. \A b \in BOOLEAN, o \in BOOLEAN :
            [pc |-> "mark", msg |-> worker[p].msg, finalizing |-> b, stillOpen |-> o]
              \in [pc : PCs, msg : Messages \cup {NoMessage},
                   finalizing : BOOLEAN, stillOpen : BOOLEAN]
      OBVIOUS
    <2> QED
      BY <1>8, <2>1, <2>2 DEF ReadOutcome
  <1>9. CASE MarkAnalysis(p)
    BY <1>9, SetAnalysisOK DEF MarkAnalysis, AnalysisStatus
  <1>10. CASE LeaveFinalizing(p)
    BY <1>10, TransitionOK DEF LeaveFinalizing, Status
  <1>11. CASE Notify(p)
    BY <1>11 DEF Notify, rows
  <1>12. CASE FailExtraction(p)
    BY <1>12 DEF FailExtraction, rows
  <1>13. CASE FailRun(p)
    BY <1>13, <1>1 DEF FailRun, CommitRun, AnalysisStatus, Raise
  <1> QED
    BY <1>2, <1>3, <1>4, <1>5, <1>6, <1>7, <1>8, <1>9, <1>10, <1>11, <1>12, <1>13
    DEF ExtractionStep

LEMMA TypeNext == ASSUME TypeOK, [Next]_vars PROVE TypeOK'
  <1>1. ASSUME NEW p \in Workers, NEW m \in Messages, Take(p, m) PROVE TypeOK'
    <2>1. worker' \in [Workers -> [pc : PCs, msg : Messages \cup {NoMessage},
                                   finalizing : BOOLEAN, stillOpen : BOOLEAN]]
      BY <1>1 DEF Take, TypeOK, Idle, PCs
    <2>2. queue' \in [Messages -> Nat]
      BY <1>1 DEF Take, TypeOK
    <2> QED
      BY <1>1, <2>1, <2>2 DEF Take, TypeOK, rows, others
  <1>2. ASSUME NEW p \in Workers, Crash(p) PROVE TypeOK'
    BY <1>2, ExecutionOK DEF Crash, TypeOK, rows
  <1>3. CASE UNCHANGED vars
    BY <1>3 DEF vars, TypeOK
  <1> QED
    BY <1>1, <1>2, <1>3, TypeUser, TypeFetch, TypeContent, TypeExtraction
    DEF Next, WorkerStep

(* Every row, message and worker stays in its type: in particular the      *)
(* services and the tasks only ever write statuses the models declare.     *)
THEOREM TypeCorrect == Spec => []TypeOK
  BY TypeInit, TypeNext, PTL DEF Spec

----------------------------------------------------------------------------
(* The archived state of a case                                            *)

(* Every write of the case row keeps the two views of its lifecycle in     *)
(* step.                                                                   *)
LEMMA MirrorNext == ASSUME TypeOK, MirrorInv, [Next]_vars PROVE MirrorInv'
  <1> USE DEF MirrorInv
  <1>0. case \in Case
    BY DEF TypeOK
  <1>1. CASE UNCHANGED case
    BY <1>1
  <1>2. CASE \E r \in Runs : Analyze(r)
    <2> PICK r \in Runs : Analyze(r)
      BY <1>2
    <2>1. RequestAnalysis(case) \in Case /\ MirrorsLifecycle(RequestAnalysis(case))
      BY <1>0, ServicesOK DEF Analyze
    <2> QED
      BY <2>1, SetAnalysisOK DEF Analyze, StartExtraction, AnalysisStatus
  <1>3. CASE \E r \in Runs : AnswerLastQuestion(r)
    <2> PICK r \in Runs : AnswerLastQuestion(r)
      BY <1>3
    <2>1. /\ TransitionCase(case, "FINALIZING") \in Case
          /\ MirrorsLifecycle(TransitionCase(case, "FINALIZING"))
      BY <1>0, TransitionOK DEF AnswerLastQuestion, Status
    <2> QED
      BY <2>1, SetAnalysisOK DEF AnswerLastQuestion, StartExtraction, AnalysisStatus
  <1>4. CASE WaiveOpenIssues
    BY <1>0, <1>4 DEF WaiveOpenIssues, MirrorsLifecycle, Case
  <1>5. CASE Archive \/ Reopen
    BY <1>0, <1>5, ServicesOK DEF Archive, Reopen
  <1>6. ASSUME NEW p \in Workers, MarkAnalysis(p) PROVE MirrorInv'
    BY <1>0, <1>6, SetAnalysisOK DEF MarkAnalysis, AnalysisStatus
  <1>7. ASSUME NEW p \in Workers, LeaveFinalizing(p) PROVE MirrorInv'
    BY <1>0, <1>7, TransitionOK DEF LeaveFinalizing, Status
  <1>8. ASSUME NEW p \in Workers, NEW s, NEW n \in AnalysisStatus, CommitRun(p, s, n)
        PROVE  MirrorInv'
    BY <1>0, <1>8, SetAnalysisOK DEF CommitRun
  <1>9. ASSUME NEW p \in Workers,
               ParkRun(p) \/ RefuseRun(p) \/ StartRun(p) \/ FailRun(p)
        PROVE  MirrorInv'
    BY <1>8, <1>9 DEF ParkRun, RefuseRun, StartRun, FailRun, AnalysisStatus
  <1>10. ASSUME NEW p \in Workers, FetchStep(p) \/ ContentStep(p) PROVE UNCHANGED case
    BY <1>10 DEF FetchStep, BeginFetch, StartFetch, StoreAttachment, EnqueueNextJob,
       RejectAttachment, FailFetch, ContentStep, BeginContent, RefuseTranscription,
       StoreContentEvidence, CompleteContent, SyncTranscript, ResumeExtraction, FailContent, rows
  <1>11. ASSUME NEW p \in Workers, ExtractionStep(p) PROVE MirrorInv'
    BY <1>1, <1>6, <1>7, <1>9, <1>11 DEF ExtractionStep, BeginExtraction, CollectEvidence,
       ApplyResponse, ReadOutcome, Notify, FailExtraction, rows
  <1>12. ASSUME NEW p \in Workers, WorkerStep(p) \/ Crash(p) PROVE MirrorInv'
    BY <1>1, <1>10, <1>11, <1>12 DEF WorkerStep, Take, Crash, rows
  <1>13. CASE UserStep
    BY <1>1, <1>2, <1>3, <1>4, <1>5, <1>13
    DEF UserStep, ReceiveAttachment, ReceiveAgain, RecoverAudio, RecoverExtraction, BeginAnswer,
        EndAnswer, rows
  <1> QED
    BY <1>1, <1>12, <1>13 DEF Next, vars

(* A case is archived in its legacy status exactly when it is in its       *)
(* lifecycle, whatever users do while extractions write the same row.      *)
THEOREM MirrorCorrect == Spec => []MirrorInv
  <1>1. Init => MirrorInv
    BY NewCaseOK DEF Init, MirrorInv
  <1> QED
    BY <1>1, MirrorNext, TypeInit, TypeNext, PTL DEF Spec

----------------------------------------------------------------------------
(* One executor per run                                                    *)

HoldingPCs == {"parking", "refusing", "starting"}

(* The worker is between the first read of its run and the end of its task.*)
Owns(p) ==
  /\ worker[p].msg.task = "extract_case_facts"
  /\ worker[p].pc \in HoldingPCs \cup RunningPCs \cup TailPCs \cup {"failing"}

(* No two workers own the same run, and the status of an owned run tells   *)
(* how far its owner is: this is what makes the check of the status under  *)
(* the row lock exclude a second owner.                                    *)
OwnerInv ==
  /\ \A p, q \in Workers :
       Owns(p) /\ Owns(q) /\ worker[p].msg.id = worker[q].msg.id => p = q
  /\ \A p \in Workers : Owns(p) =>
       LET s == run[worker[p].msg.id] IN
       /\ worker[p].pc \in HoldingPCs => s \notin {"RUNNING", "COMPLETED"}
       /\ worker[p].pc \in RunningPCs => s = "RUNNING"
       /\ worker[p].pc \in TailPCs => s = "COMPLETED"
       /\ worker[p].pc = "failing" => s \in {"RUNNING", "COMPLETED"}

(* A worker that gives up or never had its run disturbs no other owner.    *)
LEMMA OwnerRelease ==
  ASSUME TypeOK, OwnerInv, NEW p \in Workers, UNCHANGED run,
         \A q \in Workers \ {p} : worker'[q] = worker[q], ~Owns(p)'
  PROVE  OwnerInv'
  BY DEF OwnerInv, Owns

(* A step of a worker to another place of its task, with the status of its *)
(* run changing accordingly.                                               *)
LEMMA OwnerAdvance ==
  ASSUME TypeOK, OwnerInv, NEW p \in Workers, Owns(p),
         NEW r, r = worker[p].msg.id, NEW s,
         run' = [run EXCEPT ![r] = s],
         \A q \in Workers \ {p} : worker'[q] = worker[q],
         worker'[p].msg = worker[p].msg,
         worker'[p].pc \in HoldingPCs => s \notin {"RUNNING", "COMPLETED"},
         worker'[p].pc \in RunningPCs => s = "RUNNING",
         worker'[p].pc \in TailPCs => s = "COMPLETED",
         worker'[p].pc = "failing" => s \in {"RUNNING", "COMPLETED"}
  PROVE  OwnerInv'
  <1>1. r \in Runs
    BY MessageId DEF Owns
  <1>2. run'[r] = s
    BY <1>1 DEF TypeOK
  <1>3. \A q \in Workers \ {p} :
          Owns(q) => worker[q].msg.id # r /\ run'[worker[q].msg.id] = run[worker[q].msg.id]
    BY MessageId DEF OwnerInv, TypeOK, Owns
  <1> QED
    BY <1>2, <1>3 DEF OwnerInv, Owns

LEMMA OwnerExtraction ==
  ASSUME TypeOK, OwnerInv, NEW p \in Workers, ExtractionStep(p)
  PROVE  OwnerInv'
  <1> DEFINE r == worker[p].msg.id
  <1>1. \A pc : Goto(p, pc) => /\ worker'[p].pc = pc /\ worker'[p].msg = worker[p].msg
                              /\ \A q \in Workers \ {p} : worker'[q] = worker[q]
    BY DEF Goto, TypeOK
  <1>2. Return(p) => worker'[p].pc = "idle" /\ \A q \in Workers \ {p} : worker'[q] = worker[q]
    BY DEF Return, Idle, TypeOK
  <1>3. ASSUME Return(p), UNCHANGED run PROVE OwnerInv'
    BY <1>2, <1>3, OwnerRelease DEF Owns, HoldingPCs, RunningPCs, TailPCs
  <1>4. CASE BeginExtraction(p)
    <2>1. ASSUME NEW pc \in {"parking", "starting", "refusing"}, Goto(p, pc),
                 run[r] \notin {"COMPLETED", "RUNNING"}
          PROVE  OwnerInv'
      <3>1. \A q \in Workers : ~(Owns(q) /\ worker[q].msg.id = r)
        BY <1>4, <2>1 DEF BeginExtraction, RunFree, HoldsRun, OwnerInv, Owns,
           HoldingPCs, RunningPCs, TailPCs
      <3>2. UNCHANGED run
        BY <1>4 DEF BeginExtraction, rows
      <3> QED
        BY <1>1, <2>1, <3>1, <3>2 DEF OwnerInv, Owns, HoldingPCs, RunningPCs, TailPCs
    <2> QED
      BY <1>3, <1>4, <2>1 DEF BeginExtraction, rows, Raise
  <1>5. ASSUME NEW pc, NEW s, Owns(p), Goto(p, pc), run' = [run EXCEPT ![r] = s],
               pc \in HoldingPCs => s \notin {"RUNNING", "COMPLETED"},
               pc \in RunningPCs => s = "RUNNING",
               pc \in TailPCs => s = "COMPLETED",
               pc = "failing" => s \in {"RUNNING", "COMPLETED"}
        PROVE  OwnerInv'
    BY <1>1, <1>5, OwnerAdvance
  <1>6. ASSUME NEW s, Owns(p), Return(p), run' = [run EXCEPT ![r] = s]
        PROVE  OwnerInv'
    <2>1. \A q \in Workers \ {p} :
            Owns(q) => worker[q].msg.id # r /\ run'[worker[q].msg.id] = run[worker[q].msg.id]
      BY <1>6, MessageId DEF OwnerInv, TypeOK, Owns
    <2> QED
      BY <1>2, <1>6, <2>1 DEF OwnerInv, Owns, HoldingPCs, RunningPCs, TailPCs
  <1>7. Owns(p) => run = [run EXCEPT ![r] = run[r]]
    BY MessageId DEF TypeOK, Owns
  <1>8. CASE ParkRun(p) \/ RefuseRun(p) \/ FailRun(p)
    BY <1>6, <1>8 DEF ParkRun, RefuseRun, FailRun, CommitRun, Raise, At, Owns, HoldingPCs
  <1>9. CASE StartRun(p)
    BY <1>5, <1>9 DEF StartRun, CommitRun, At, Owns, HoldingPCs, RunningPCs, TailPCs
  <1>10. CASE CollectEvidence(p)
    BY <1>5, <1>7, <1>10 DEF CollectEvidence, rows, At, Owns, HoldingPCs, RunningPCs, TailPCs,
       OwnerInv
  <1>11. CASE ApplyResponse(p)
    BY <1>5, <1>11 DEF ApplyResponse, At, Owns, HoldingPCs, RunningPCs, TailPCs
  <1>12. CASE ReadOutcome(p)
    <2>1. /\ worker'[p].pc = "mark" /\ worker'[p].msg = worker[p].msg
          /\ \A q \in Workers \ {p} : worker'[q] = worker[q]
          /\ UNCHANGED run
      BY <1>12 DEF ReadOutcome, TypeOK
    <2>2. Owns(p) /\ run[r] = "COMPLETED"
      BY <1>12 DEF ReadOutcome, At, Owns, TailPCs, OwnerInv
    <2> QED
      BY <1>7, <2>1, <2>2, OwnerAdvance DEF HoldingPCs, RunningPCs, TailPCs
  <1>13. CASE MarkAnalysis(p) \/ LeaveFinalizing(p)
    BY <1>5, <1>7, <1>13 DEF MarkAnalysis, LeaveFinalizing, At, Owns, HoldingPCs, RunningPCs,
       TailPCs, OwnerInv
  <1>14. CASE Notify(p)
    BY <1>3, <1>5, <1>7, <1>14 DEF Notify, rows, At, Owns, HoldingPCs, RunningPCs,
       TailPCs, OwnerInv
  <1>15. CASE FailExtraction(p)
    BY <1>5, <1>7, <1>15 DEF FailExtraction, rows, At, Owns, HoldingPCs, RunningPCs,
       TailPCs, OwnerInv
  <1> QED
    BY <1>4, <1>8, <1>9, <1>10, <1>11, <1>12, <1>13, <1>14, <1>15 DEF ExtractionStep

LEMMA OwnerNext == ASSUME TypeOK, OwnerInv, [Next]_vars PROVE OwnerInv'
  <1>1. CASE UNCHANGED <<run, worker>>
    BY <1>1 DEF OwnerInv, Owns
  <1>2. ASSUME NEW r \in Runs, NEW c, StartExtraction(r, c), UNCHANGED worker PROVE OwnerInv'
    <2>1. \A p \in Workers : Owns(p) /\ worker[p].msg.id = r => worker[p].pc \in HoldingPCs
      BY <1>2 DEF StartExtraction, OwnerInv, Owns
    <2>2. run'[r] = "PENDING" /\ \A s \in Runs \ {r} : run'[s] = run[s]
      BY <1>2 DEF StartExtraction, TypeOK
    <2>3. \A p \in Workers : Owns(p) => worker[p].msg.id \in Runs
      BY MessageId DEF Owns
    <2> QED
      BY <1>2, <2>1, <2>2, <2>3 DEF OwnerInv, Owns, HoldingPCs, RunningPCs, TailPCs
  <1>3. CASE UserStep
    BY <1>1, <1>2, <1>3 DEF UserStep, ReceiveAttachment, ReceiveAgain, RecoverAudio, Analyze,
       AnswerLastQuestion, RecoverExtraction, BeginAnswer, EndAnswer, WaiveOpenIssues, Archive,
       Reopen, rows
  <1>4. ASSUME NEW p \in Workers, FetchStep(p) \/ ContentStep(p) PROVE OwnerInv'
    <2>1. UNCHANGED run /\ \A q \in Workers \ {p} : worker'[q] = worker[q]
      BY <1>4 DEF FetchStep, BeginFetch, StartFetch, StoreAttachment, EnqueueNextJob,
         RejectAttachment, FailFetch, ContentStep, BeginContent, RefuseTranscription,
         StoreContentEvidence, CompleteContent, SyncTranscript, ResumeExtraction, FailContent,
         Raise, RaiseOnPublish, Return, Goto, TypeOK, rows
    <2>2. /\ worker[p].msg.task \in {"fetch_attachment", "content"}
          /\ worker'[p].msg = worker[p].msg \/ worker'[p] = Idle
      BY <1>4 DEF FetchStep, BeginFetch, StartFetch, StoreAttachment, EnqueueNextJob,
         RejectAttachment, FailFetch, ContentStep, BeginContent, RefuseTranscription,
         StoreContentEvidence, CompleteContent, SyncTranscript, ResumeExtraction, FailContent, At,
         Raise, RaiseOnPublish, Return, Goto, TypeOK
    <2> QED
      BY <2>1, <2>2, OwnerRelease DEF Owns, Idle, NoMessage
  <1>5. ASSUME NEW p \in Workers, (\E m \in Messages : Take(p, m)) \/ Crash(p) PROVE OwnerInv'
    <2>1. UNCHANGED run /\ \A q \in Workers \ {p} : worker'[q] = worker[q]
      BY <1>5 DEF Take, Crash, Return, TypeOK, rows
    <2>2. worker'[p].pc \in {"begin", "idle"}
      <3>1. ASSUME NEW m \in Messages, Take(p, m) PROVE worker'[p].pc = "begin"
        BY <3>1 DEF Take, Idle, TypeOK
      <3>2. Crash(p) => worker'[p].pc = "idle"
        BY DEF Crash, Return, Idle, TypeOK
      <3> QED
        BY <1>5, <3>1, <3>2
    <2> QED
      BY <2>1, <2>2, OwnerRelease DEF Owns, HoldingPCs, RunningPCs, TailPCs
  <1> QED
    BY <1>1, <1>3, <1>4, <1>5, OwnerExtraction DEF Next, WorkerStep, vars

(* No run is ever executed by two workers at once, whatever messages the   *)
(* retries, the resumes, the crashes and the recovery command produce.     *)
THEOREM OneExecutorCorrect == Spec => []OneExecutorPerRun
  <1>1. Init => OwnerInv
    BY DEF Init, OwnerInv, Owns, Idle, NoMessage
  <1>2. TypeOK /\ OwnerInv => OneExecutorPerRun
    BY DEF OwnerInv, Owns, OneExecutorPerRun, Executes
  <1> QED
    BY <1>1, <1>2, OwnerNext, TypeInit, TypeNext, PTL DEF Spec

----------------------------------------------------------------------------
(* Evidence before completion                                              *)

(* Rows of a document are stored before its job says it has succeeded, and *)
(* never removed; in between, the worker is at "complete".                 *)
EvidenceInv ==
  /\ \A a \in Documents : contentJob[a] = "SUCCEEDED" => a \in evidence
  /\ \A p \in Workers : At(p, "complete", "content") => worker[p].msg.id \in evidence

LEMMA EvidenceContent ==
  ASSUME TypeOK, EvidenceInv, NEW p \in Workers, ContentStep(p)
  PROVE  EvidenceInv'
  <1> DEFINE a == worker[p].msg.id
  <1>1. /\ \A q \in Workers \ {p} : worker'[q] = worker[q]
        /\ worker'[p].pc = "complete" => worker'[p].msg = worker[p].msg /\ StoreContentEvidence(p)
    BY DEF ContentStep, BeginContent, RefuseTranscription, StoreContentEvidence,
       CompleteContent, SyncTranscript, ResumeExtraction, FailContent,
       Raise, RaiseOnPublish, Return, Goto, Idle, TypeOK
  <1>2. evidence \subseteq evidence'
    BY DEF ContentStep, BeginContent, RefuseTranscription, StoreContentEvidence,
       CompleteContent, SyncTranscript, ResumeExtraction, FailContent, rows
  <1>3. StoreContentEvidence(p) => a \in evidence'
    BY DEF StoreContentEvidence
  <1>4. ASSUME NEW d \in Documents, contentJob'[d] = "SUCCEEDED", contentJob[d] # "SUCCEEDED"
        PROVE  d \in evidence
    <2>1. CompleteContent(p) /\ d = a
      BY <1>4 DEF ContentStep, BeginContent, RefuseTranscription, StoreContentEvidence,
         CompleteContent, SyncTranscript, ResumeExtraction, FailContent, rows, TypeOK, Attachments
    <2>2. d \notin Voice
      BY ConstantsAssumption
    <2> QED
      BY <2>1, <2>2 DEF CompleteContent, EvidenceInv
  <1> QED
    BY <1>1, <1>2, <1>3, <1>4 DEF EvidenceInv, At

LEMMA EvidenceNext == ASSUME TypeOK, EvidenceInv, [Next]_vars PROVE EvidenceInv'
  <1>1. CASE UNCHANGED <<contentJob, evidence, worker>>
    BY <1>1 DEF EvidenceInv, At
  <1>2. ASSUME NEW p \in Workers, UNCHANGED evidence,
               \A q \in Workers \ {p} : worker'[q] = worker[q],
               worker'[p].pc # "complete",
               \A d \in Documents : contentJob'[d] = "SUCCEEDED" => contentJob[d] = "SUCCEEDED"
        PROVE  EvidenceInv'
    BY <1>2 DEF EvidenceInv, At
  <1>3. CASE \E a \in Attachments : RecoverAudio(a)
    BY <1>3 DEF RecoverAudio, EvidenceInv, At, TypeOK, Attachments
  <1>4. CASE UserStep
    BY <1>1, <1>3, <1>4 DEF UserStep, ReceiveAttachment, ReceiveAgain, Analyze, StartExtraction,
       AnswerLastQuestion, RecoverExtraction, BeginAnswer, EndAnswer, WaiveOpenIssues, Archive,
       Reopen, rows
  <1>5. ASSUME NEW p \in Workers, FetchStep(p) PROVE EvidenceInv'
    <2>1. /\ UNCHANGED evidence
          /\ \A q \in Workers \ {p} : worker'[q] = worker[q]
          /\ worker'[p].pc # "complete"
      BY <1>5 DEF FetchStep, BeginFetch, StartFetch, StoreAttachment, EnqueueNextJob,
         RejectAttachment, FailFetch, Raise, RaiseOnPublish, Return, Goto, Idle, TypeOK, rows
    <2>2. \A d \in Documents : contentJob'[d] = "SUCCEEDED" => contentJob[d] = "SUCCEEDED"
      BY <1>5 DEF FetchStep, BeginFetch, StartFetch, StoreAttachment, EnqueueNextJob,
         RejectAttachment, FailFetch, TypeOK, Attachments, rows
    <2> QED
      BY <1>2, <2>1, <2>2
  <1>6. ASSUME NEW p \in Workers, ExtractionStep(p) PROVE EvidenceInv'
    <2>1. UNCHANGED <<evidence, contentJob>>
      BY <1>6 DEF ExtractionStep, BeginExtraction, ParkRun, RefuseRun, StartRun,
         CollectEvidence, ApplyResponse, ReadOutcome, MarkAnalysis, LeaveFinalizing, Notify,
         FailExtraction, FailRun, CommitRun, rows
    <2>2. \A q \in Workers \ {p} : worker'[q] = worker[q]
      BY <1>6 DEF ExtractionStep, BeginExtraction, ParkRun, RefuseRun, StartRun,
         CollectEvidence, ApplyResponse, ReadOutcome, MarkAnalysis, LeaveFinalizing, Notify,
         FailExtraction, FailRun, Raise, Return, Goto, TypeOK
    <2>3. worker'[p].pc # "complete"
      <3>1. Return(p) => worker'[p].pc = "idle"
        BY DEF Return, Idle, TypeOK
      <3>2. \A pc : Goto(p, pc) => worker'[p].pc = pc
        BY DEF Goto, TypeOK
      <3>3. ReadOutcome(p) => worker'[p].pc = "mark"
        BY DEF ReadOutcome, TypeOK
      <3> QED
        BY <1>6, <3>1, <3>2, <3>3 DEF ExtractionStep, BeginExtraction, ParkRun, RefuseRun,
           StartRun, CollectEvidence, ApplyResponse, MarkAnalysis, LeaveFinalizing, Notify,
           FailExtraction, FailRun, Raise
    <2> QED
      BY <1>2, <2>1, <2>2, <2>3
  <1>7. ASSUME NEW p \in Workers, NEW m \in Messages, Take(p, m) PROVE EvidenceInv'
    <2>1. worker'[p].pc = "begin" /\ \A q \in Workers \ {p} : worker'[q] = worker[q]
      BY <1>7 DEF Take, Idle, TypeOK
    <2> QED
      BY <1>2, <1>7, <2>1 DEF Take, rows
  <1>8. ASSUME NEW p \in Workers, Crash(p) PROVE EvidenceInv'
    <2>1. worker'[p].pc = "idle" /\ \A q \in Workers \ {p} : worker'[q] = worker[q]
      BY <1>8 DEF Crash, Return, Idle, TypeOK
    <2> QED
      BY <1>2, <1>8, <2>1 DEF Crash, rows
  <1> QED
    BY <1>1, <1>4, <1>5, <1>6, <1>7, <1>8, EvidenceContent DEF Next, WorkerStep, vars

(* An extraction never misses the pages or the image analysis of a job it  *)
(* sees succeeded, whatever crashes, fails or is retried.                  *)
THEOREM CollectsDocumentsCorrect == Spec => CollectsDocuments
  <1>1. Init => EvidenceInv
    BY DEF Init, EvidenceInv, At, Idle, Attachments
  <1>2. EvidenceInv =>
          [(\E p \in Workers : CollectEvidence(p)) => SeesDocuments]_vars
    BY DEF EvidenceInv, SeesDocuments
  <1> QED
    BY <1>1, <1>2, EvidenceNext, TypeInit, TypeNext, PTL DEF Spec, CollectsDocuments

----------------------------------------------------------------------------
(* Running extractions                                                     *)

(* What steps of a worker leave alone: the others.                         *)
Others(p) == \A q \in Workers \ {p} : worker'[q] = worker[q]

LEMMA OnlyOne ==
  ASSUME TypeOK, NEW p \in Workers, WorkerStep(p) \/ Crash(p)
  PROVE  Others(p)
  <1>1. Return(p) => Others(p)
    BY DEF Return, Others, TypeOK
  <1>2. \A pc : Goto(p, pc) => Others(p)
    BY DEF Goto, Others, TypeOK
  <1>3. \A m \in Messages : Take(p, m) => Others(p)
    BY DEF Take, Others, TypeOK
  <1>4. ReadOutcome(p) => Others(p)
    BY DEF ReadOutcome, Others, TypeOK
  <1>5. FetchStep(p) \/ ContentStep(p) => Others(p)
    BY <1>1, <1>2 DEF FetchStep, BeginFetch, StartFetch, StoreAttachment, EnqueueNextJob,
       RejectAttachment, FailFetch, ContentStep, BeginContent, RefuseTranscription,
       StoreContentEvidence, CompleteContent, SyncTranscript, ResumeExtraction, FailContent,
       Raise, RaiseOnPublish
  <1>6. ExtractionStep(p) => Others(p)
    BY <1>1, <1>2, <1>4 DEF ExtractionStep, BeginExtraction, ParkRun, RefuseRun, StartRun,
       CollectEvidence, ApplyResponse, MarkAnalysis, LeaveFinalizing, Notify, FailExtraction,
       FailRun, Raise
  <1> QED
    BY <1>1, <1>3, <1>5, <1>6 DEF WorkerStep, Crash

(* An executor goes on with its run, or ends it.                           *)
LEMMA ExecutorExtraction ==
  ASSUME TypeOK, OwnerInv, RunningHasExecutor, NEW p \in Workers, ExtractionStep(p)
  PROVE  RunningHasExecutor'
  <1> DEFINE o == worker[p].msg.id
  <1> SUFFICES ASSUME NEW r \in Runs, run'[r] = "RUNNING"
               PROVE  \E q \in Workers : Executes(q, r)'
    BY DEF RunningHasExecutor, Executes
  <1>1. Others(p)
    BY OnlyOne DEF WorkerStep
  <1>2. \A pc : Goto(p, pc) => worker'[p].pc = pc /\ worker'[p].msg = worker[p].msg
    BY DEF Goto, TypeOK
  <1>3. CASE run[r] # "RUNNING"
    <2>1. StartRun(p) /\ r = o
      BY <1>3 DEF ExtractionStep, BeginExtraction, ParkRun, RefuseRun, StartRun,
         CollectEvidence, ApplyResponse, ReadOutcome, MarkAnalysis, LeaveFinalizing, Notify,
         FailExtraction, FailRun, CommitRun, rows, TypeOK
    <2> QED
      BY <1>2, <2>1 DEF StartRun, At, Executes, RunningPCs
  <1>4. CASE run[r] = "RUNNING"
    <2>1. PICK q \in Workers : Executes(q, r)
      BY <1>4 DEF RunningHasExecutor
    <2>2. CASE q # p
      BY <1>1, <2>1, <2>2 DEF Others, Executes
    <2>3. CASE q = p
      <3>1. /\ o = r /\ worker[p].msg.task = "extract_case_facts"
            /\ worker[p].pc \in RunningPCs \cup {"failing"}
        BY <1>4, <2>1, <2>3 DEF Executes, OwnerInv, Owns, TailPCs
      <3>2. CollectEvidence(p) \/ ApplyResponse(p) \/ FailExtraction(p) \/ FailRun(p)
        BY <3>1 DEF ExtractionStep, BeginExtraction, ParkRun, RefuseRun, StartRun, ReadOutcome,
           MarkAnalysis, LeaveFinalizing, Notify, At, RunningPCs
      <3>3. ~ApplyResponse(p) /\ ~FailRun(p)
        BY <3>1 DEF ApplyResponse, FailRun, CommitRun, TypeOK
      <3>4. CollectEvidence(p) \/ FailExtraction(p) => Executes(p, r)'
        BY <1>2, <3>1 DEF CollectEvidence, FailExtraction, Executes, RunningPCs
      <3> QED
        BY <3>2, <3>3, <3>4
    <2> QED
      BY <2>2, <2>3
  <1> QED
    BY <1>3, <1>4

LEMMA ExecutorNext ==
  ASSUME "crash" \notin Faults, TypeOK, OwnerInv, RunningHasExecutor, [Next]_vars
  PROVE  RunningHasExecutor'
  <1>1. CASE UNCHANGED <<run, worker>>
    BY <1>1 DEF RunningHasExecutor, Executes
  <1>2. ASSUME NEW r \in Runs, NEW c, StartExtraction(r, c), UNCHANGED worker
        PROVE  RunningHasExecutor'
    BY <1>2 DEF StartExtraction, RunningHasExecutor, Executes, TypeOK
  <1>3. CASE UserStep
    BY <1>1, <1>2, <1>3 DEF UserStep, ReceiveAttachment, ReceiveAgain, RecoverAudio, Analyze,
       AnswerLastQuestion, RecoverExtraction, BeginAnswer, EndAnswer, WaiveOpenIssues, Archive,
       Reopen, rows
  <1>4. ASSUME NEW p \in Workers,
               (\E m \in Messages : Take(p, m)) \/ FetchStep(p) \/ ContentStep(p)
        PROVE  RunningHasExecutor'
    <2>1. Others(p)
      BY <1>4, OnlyOne DEF WorkerStep
    <2>2. UNCHANGED run
      BY <1>4 DEF FetchStep, BeginFetch, StartFetch, StoreAttachment, EnqueueNextJob,
         RejectAttachment, FailFetch, ContentStep, BeginContent, RefuseTranscription,
         StoreContentEvidence, CompleteContent, SyncTranscript, ResumeExtraction, FailContent,
         Take, rows
    <2>3. \A r \in Runs : ~Executes(p, r)
      BY <1>4 DEF FetchStep, BeginFetch, StartFetch, StoreAttachment, EnqueueNextJob,
         RejectAttachment, FailFetch, ContentStep, BeginContent, RefuseTranscription,
         StoreContentEvidence, CompleteContent, SyncTranscript, ResumeExtraction, FailContent,
         Take, At, Executes, RunningPCs, TailPCs
    <2> QED
      BY <2>1, <2>2, <2>3 DEF RunningHasExecutor, Executes, Others
  <1>5. ASSUME NEW p \in Workers, Crash(p) PROVE FALSE
    BY <1>5 DEF Crash
  <1> QED
    BY <1>1, <1>3, <1>4, <1>5, ExecutorExtraction DEF Next, WorkerStep, vars

(* As long as no worker is lost, a run that is RUNNING is being executed:  *)
(* no error, retry, refused publication or recovery leaves one behind.     *)
THEOREM RunningHasExecutorCorrect ==
  ASSUME "crash" \notin Faults
  PROVE  Spec => []RunningHasExecutor
  <1>1. Init => OwnerInv /\ RunningHasExecutor
    BY DEF Init, OwnerInv, Owns, Idle, NoMessage, RunningHasExecutor
  <1>2. RunningHasExecutor /\ TypeOK /\ OwnerInv /\ [Next]_vars => RunningHasExecutor'
    BY ExecutorNext
  <1> QED
    BY <1>1, <1>2, OwnerNext, TypeInit, TypeNext, PTL DEF Spec

----------------------------------------------------------------------------
(* The files that are read                                                 *)

IsTask(m, t, a) == m.task = t /\ m.id = a

(* The task t that works on an attachment is in one place, in the queue or *)
(* at a worker, or nowhere.                                                *)
NotQueued(t, a) == \A m \in Messages : IsTask(m, t, a) => queue[m] = 0
NotHeld(t, a) == \A p \in Workers : ~IsTask(worker[p].msg, t, a)
Nowhere(t, a) == NotQueued(t, a) /\ NotHeld(t, a)
OneTask(t, a) ==
  /\ \A m, n \in Messages :
       IsTask(m, t, a) /\ IsTask(n, t, a) /\ queue[m] > 0 /\ queue[n] > 0 => m = n /\ queue[m] = 1
  /\ \A p, q \in Workers : IsTask(worker[p].msg, t, a) /\ IsTask(worker[q].msg, t, a) => p = q
  /\ NotQueued(t, a) \/ NotHeld(t, a)

(* A worker that goes on, returns or raises leaves it so.                  *)
Requeues(p, t, a) ==
  \/ queue' = queue
  \/ \E m : queue' = Put(queue, m) /\ ~IsTask(m, t, a)
  \/ /\ worker'[p].msg = NoMessage /\ IsTask(worker[p].msg, t, a)
     /\ \E m \in Messages : queue' = Put(queue, m)

AttachmentTasks == {"fetch_attachment", "content"}

LEMMA TaskMoves ==
  ASSUME TypeOK, NEW t \in AttachmentTasks, NEW a, OneTask(t, a), NEW p \in Workers, Others(p),
         worker'[p].msg \in {worker[p].msg, NoMessage}, Requeues(p, t, a)
  PROVE  OneTask(t, a)' /\ (Nowhere(t, a) => Nowhere(t, a)')
  <1>1. ~IsTask(NoMessage, t, a)
    BY DEF IsTask, NoMessage, AttachmentTasks
  <1>2. \A q \in Workers : IsTask(worker'[q].msg, t, a) => IsTask(worker[q].msg, t, a)
    BY <1>1 DEF Others
  <1>3. CASE \A m \in Messages : IsTask(m, t, a) => queue'[m] = queue[m]
    BY <1>2, <1>3 DEF OneTask, Nowhere, NotQueued, NotHeld
  <1>4. ASSUME NEW m, queue' = Put(queue, m), ~IsTask(m, t, a)
        PROVE  \A n \in Messages : IsTask(n, t, a) => queue'[n] = queue[n]
    BY <1>4 DEF Put, TypeOK
  <1>5. ASSUME NEW m \in Messages, queue' = Put(queue, m), worker'[p].msg = NoMessage,
               IsTask(worker[p].msg, t, a)
        PROVE  OneTask(t, a)' /\ ~NotHeld(t, a)
    <2>1. NotQueued(t, a) /\ ~NotHeld(t, a)
      BY <1>5 DEF OneTask, NotHeld
    <2>2. NotHeld(t, a)'
      BY <1>1, <1>2, <1>5 DEF OneTask, NotHeld
    <2>3. \A n \in Messages \ {m} : queue'[n] = queue[n]
      BY <1>5 DEF Put, TypeOK
    <2>4. queue'[m] = queue[m] + 1
      BY <1>5 DEF Put, TypeOK
    <2>5. IsTask(m, t, a) => queue'[m] = 1
      BY <2>1, <2>4 DEF NotQueued
    <2>6. \A n \in Messages \ {m} : IsTask(n, t, a) => queue'[n] = 0
      BY <2>1, <2>3 DEF NotQueued
    <2> QED
      BY <2>1, <2>2, <2>5, <2>6 DEF OneTask, NotHeld
  <1> QED
    BY <1>3, <1>4, <1>5 DEF Requeues, Nowhere

(* A first message is the only one.                                        *)
LEMMA TaskPublished ==
  ASSUME TypeOK, NEW t \in AttachmentTasks, NEW a \in Attachments, Nowhere(t, a),
         Publish(t, a), NotHeld(t, a)'
  PROVE  OneTask(t, a)'
  <1> DEFINE m == Task(t, a)
  <1>1. m \in Messages /\ IsTask(m, t, a)
    BY ConstantsAssumption DEF Messages, Task, IsTask, AttachmentTasks
  <1>2. queue'[m] = queue[m] + 1 /\ \A n \in Messages \ {m} : queue'[n] = queue[n]
    BY <1>1 DEF Publish, Put, TypeOK
  <1>3. queue'[m] = 1 /\ \A n \in Messages \ {m} : IsTask(n, t, a) => queue'[n] = 0
    BY <1>1, <1>2 DEF Nowhere, NotQueued
  <1> QED
    BY <1>3 DEF OneTask, NotHeld

(* What is queued by a task that raises is the same message again.         *)
LEMMA RetriedTask ==
  ASSUME TypeOK, NEW p \in Workers, worker[p].msg # NoMessage, Raise(p) \/ Crash(p), NEW t, NEW a
  PROVE  Requeues(p, t, a) /\ worker'[p].msg = NoMessage
  <1>1. worker'[p].msg = NoMessage
    BY DEF Raise, Crash, Return, Idle, TypeOK
  <1>2. worker[p].msg \in Messages
    BY DEF TypeOK
  <1>3. CASE Crash(p)
    BY <1>1, <1>2, <1>3 DEF Crash, Requeues
  <1>4. CASE Raise(p)
    <2> DEFINE m == worker[p].msg
               n == [m EXCEPT !.retries = @ + 1]
    <2>1. CASE m.retries < MaxRetries
      <3>1. m.retries \in 0 .. MaxRetries /\ m.task # "none"
        BY <1>2 DEF Messages
      <3>2. m.retries + 1 \in 0 .. MaxRetries
        BY <2>1, <3>1, ConstantsAssumption
      <3>3. n \in Messages /\ n.task = m.task /\ n.id = m.id
        BY <1>2, <3>2 DEF Messages
      <3>4. queue' = Put(queue, n)
        BY <1>4, <2>1 DEF Raise, Retried
      <3> QED
        BY <1>1, <3>3, <3>4 DEF Requeues, IsTask
    <2>2. CASE ~(m.retries < MaxRetries)
      BY <1>1, <1>4, <2>2 DEF Raise, Retried, Requeues
    <2> QED
      BY <2>1, <2>2
  <1> QED
    BY <1>1, <1>3, <1>4

(* A worker goes on with its message or gives it up.                       *)
LEMMA StepMessage ==
  ASSUME TypeOK, NEW p \in Workers, FetchStep(p) \/ ContentStep(p) \/ ExtractionStep(p) \/ Crash(p)
  PROVE  worker'[p].msg \in {worker[p].msg, NoMessage}
  <1>1. \A pc : Goto(p, pc) => worker'[p].msg = worker[p].msg
    BY DEF Goto, TypeOK
  <1>2. Return(p) => worker'[p].msg = NoMessage
    BY DEF Return, Idle, TypeOK
  <1>3. ReadOutcome(p) => worker'[p].msg = worker[p].msg
    BY DEF ReadOutcome, TypeOK
  <1> QED
    BY <1>1, <1>2, <1>3
    DEF FetchStep, BeginFetch, StartFetch, StoreAttachment, EnqueueNextJob, RejectAttachment,
        FailFetch, ContentStep, BeginContent, RefuseTranscription, StoreContentEvidence,
        CompleteContent, SyncTranscript, ResumeExtraction, FailContent, ExtractionStep,
        BeginExtraction, ParkRun, RefuseRun, StartRun, CollectEvidence, ApplyResponse,
        MarkAnalysis, LeaveFinalizing, Notify, FailExtraction, FailRun, Crash, Raise,
        RaiseOnPublish

(* The steps that start a task on an attachment.                           *)
Starts(t, a) ==
  \/ t = "fetch_attachment" /\ (ReceiveAttachment(a) \/ ReceiveAgain(a))
  \/ t = "content" /\ RecoverAudio(a)
  \/ t = "content" /\ \E p \in Workers : EnqueueNextJob(p) /\ worker[p].msg.id = a

LEMMA StepRequeues ==
  ASSUME TypeOK, "broker" \notin Faults, NEW t \in AttachmentTasks, NEW a, ~Starts(t, a),
         NEW p \in Workers, FetchStep(p) \/ ContentStep(p) \/ ExtractionStep(p) \/ Crash(p)
  PROVE  Requeues(p, t, a)
  <1>1. \A i : ~IsTask(Task("extract_case_facts", i), t, a)
    BY DEF IsTask, Task, AttachmentTasks
  <1>2. \A i : Publish("extract_case_facts", i) => Requeues(p, t, a)
    BY <1>1 DEF Publish, Requeues
  <1>3. CASE EnqueueNextJob(p)
    <2>1. ~IsTask(Task("content", worker[p].msg.id), t, a)
      BY <1>3 DEF Starts, IsTask, Task
    <2> QED
      BY <1>3, <2>1 DEF EnqueueNextJob, Publish, Requeues
  <1>4. \A pc : \A u \in {"fetch_attachment", "content", "extract_case_facts"} :
          At(p, pc, u) => worker[p].msg # NoMessage
    BY DEF At, NoMessage
  <1>5. CASE FetchStep(p)
    BY <1>3, <1>4, <1>5, RetriedTask
    DEF FetchStep, BeginFetch, StartFetch, StoreAttachment, RejectAttachment, FailFetch,
        RaiseOnPublish, Requeues
  <1>6. CASE ContentStep(p)
    BY <1>2, <1>4, <1>6, RetriedTask
    DEF ContentStep, BeginContent, RefuseTranscription, StoreContentEvidence, CompleteContent,
        SyncTranscript, ResumeExtraction, FailContent, RaiseOnPublish, Requeues
  <1>7. CASE ExtractionStep(p)
    BY <1>4, <1>7, RetriedTask
    DEF ExtractionStep, BeginExtraction, ParkRun, RefuseRun, StartRun, CollectEvidence,
        ApplyResponse, ReadOutcome, MarkAnalysis, LeaveFinalizing, Notify, FailExtraction, FailRun,
        Requeues
  <1>8. CASE Crash(p) /\ worker[p].msg = NoMessage
    <2>1. ~IsTask(NoMessage, t, a)
      BY DEF IsTask, NoMessage, AttachmentTasks
    <2> QED
      BY <1>8, <2>1 DEF Crash, Requeues
  <1> QED
    BY <1>5, <1>6, <1>7, <1>8, RetriedTask

LEMMA TakeTask ==
  ASSUME TypeOK, NEW p \in Workers, NEW m \in Messages, Take(p, m), NEW t, NEW a, OneTask(t, a)
  PROVE  OneTask(t, a)' /\ (Nowhere(t, a) => Nowhere(t, a)')
  <1>1. /\ worker'[p].msg = m /\ Others(p) /\ queue[m] > 0 /\ queue[m] \in Nat
        /\ queue'[m] = queue[m] - 1 /\ \A n \in Messages \ {m} : queue'[n] = queue[n]
    BY OnlyOne DEF Take, Idle, TypeOK, WorkerStep
  <1>2. CASE IsTask(m, t, a)
    <2>1. NotHeld(t, a) /\ ~NotQueued(t, a) /\ queue[m] = 1
      BY <1>1, <1>2 DEF OneTask, NotQueued
    <2>2. \A n \in Messages \ {m} : IsTask(n, t, a) => queue[n] = 0
      BY <1>1, <1>2 DEF OneTask, TypeOK
    <2>3. NotQueued(t, a)'
      BY <1>1, <2>1, <2>2 DEF NotQueued
    <2>4. \A q \in Workers : IsTask(worker'[q].msg, t, a) => q = p
      BY <1>1, <2>1 DEF NotHeld, Others
    <2> QED
      BY <2>1, <2>3, <2>4 DEF OneTask, Nowhere, NotQueued
  <1>3. CASE ~IsTask(m, t, a)
    <2>1. \A n \in Messages : IsTask(n, t, a) => queue'[n] = queue[n]
      BY <1>1, <1>3
    <2>2. \A q \in Workers : IsTask(worker'[q].msg, t, a) => IsTask(worker[q].msg, t, a)
      BY <1>1, <1>3 DEF Others
    <2> QED
      BY <2>1, <2>2 DEF OneTask, Nowhere, NotQueued, NotHeld
  <1> QED
    BY <1>2, <1>3

(* Whatever does not start a task leaves it where it is, or moves it.      *)
LEMMA TaskNext ==
  ASSUME TypeOK, "broker" \notin Faults, NEW t \in AttachmentTasks, NEW a, OneTask(t, a),
         ~Starts(t, a), [Next]_vars
  PROVE  OneTask(t, a)' /\ (Nowhere(t, a) => Nowhere(t, a)')
  <1>1. ASSUME UNCHANGED worker, \A m \in Messages : IsTask(m, t, a) => queue'[m] = queue[m]
        PROVE  OneTask(t, a)' /\ (Nowhere(t, a) => Nowhere(t, a)')
    BY <1>1 DEF OneTask, Nowhere, NotQueued, NotHeld
  <1>2. ASSUME NEW u, NEW i, Publish(u, i), ~IsTask(Task(u, i), t, a)
        PROVE  \A m \in Messages : IsTask(m, t, a) => queue'[m] = queue[m]
    BY <1>2 DEF Publish, Put, TypeOK
  <1>3. CASE UserStep
    <2>1. \A i : ~IsTask(Task("extract_case_facts", i), t, a)
      BY DEF IsTask, Task, AttachmentTasks
    <2>2. \A i : /\ ReceiveAttachment(i) \/ ReceiveAgain(i) => ~IsTask(Task("fetch_attachment", i), t, a)
                 /\ RecoverAudio(i) => ~IsTask(Task("content", i), t, a)
      BY DEF Starts, IsTask, Task
    <2> QED
      BY <1>1, <1>2, <1>3, <2>1, <2>2
      DEF UserStep, ReceiveAttachment, ReceiveAgain, RecoverAudio, Analyze, StartExtraction,
          AnswerLastQuestion, RecoverExtraction, BeginAnswer, EndAnswer, WaiveOpenIssues, Archive,
          Reopen, rows
  <1>4. ASSUME NEW p \in Workers, FetchStep(p) \/ ContentStep(p) \/ ExtractionStep(p) \/ Crash(p)
        PROVE  OneTask(t, a)' /\ (Nowhere(t, a) => Nowhere(t, a)')
    BY <1>4, StepMessage, StepRequeues, TaskMoves, OnlyOne DEF WorkerStep
  <1> QED
    BY <1>1, <1>3, <1>4, TakeTask DEF Next, WorkerStep, vars

(* Where no update is handled twice, an attachment nobody has received is  *)
(* not fetched, and each is fetched by one task.                           *)
SoleFetch ==
  /\ overlapped = {}
  /\ \A a \in Attachments :
       /\ OneTask("fetch_attachment", a)
       /\ attachment[a] = "NONE" => Nowhere("fetch_attachment", a)

LEMMA NeverOverlapped ==
  ASSUME TypeOK, SoleFetch, [Next]_vars
  PROVE  overlapped' = {}
  <1>1. ASSUME NEW p \in Workers, NEW a, BeginFetch(p), a = worker[p].msg.id, StartFetch(p, a)
        PROVE  overlapped' = {}
    <2>1. a \in Attachments /\ IsTask(worker[p].msg, "fetch_attachment", a)
      BY <1>1, MessageId DEF BeginFetch, At, IsTask
    <2>2. \A q \in Workers : ~Fetching(q, a)
      BY <1>1, <2>1 DEF SoleFetch, OneTask, IsTask, Fetching, BeginFetch, At
    <2> QED
      BY <1>1, <2>2 DEF StartFetch, SoleFetch
  <1>2. ASSUME NEW p \in Workers, FetchStep(p) PROVE overlapped' = {}
    BY <1>1, <1>2 DEF FetchStep, BeginFetch, StoreAttachment, EnqueueNextJob, RejectAttachment,
       FailFetch, others, SoleFetch
  <1>3. ASSUME NEW p \in Workers,
               ContentStep(p) \/ Crash(p) \/ \E m \in Messages : Take(p, m)
        PROVE  overlapped' = {}
    BY <1>3 DEF ContentStep, BeginContent, RefuseTranscription, StoreContentEvidence,
       CompleteContent, SyncTranscript, ResumeExtraction, FailContent, Crash, Take, others,
       SoleFetch
  <1>4. ASSUME NEW p \in Workers, ExtractionStep(p) PROVE overlapped' = {}
    BY <1>4 DEF ExtractionStep, BeginExtraction, ParkRun, RefuseRun, StartRun, CollectEvidence,
       ApplyResponse, ReadOutcome, MarkAnalysis, LeaveFinalizing, Notify, FailExtraction, FailRun,
       CommitRun, others, SoleFetch
  <1>5. UserStep => overlapped' = {}
    BY DEF UserStep, ReceiveAttachment, ReceiveAgain, RecoverAudio, Analyze, AnswerLastQuestion,
       RecoverExtraction, BeginAnswer, EndAnswer, WaiveOpenIssues, Archive, Reopen, others,
       SoleFetch
  <1> QED
    BY <1>2, <1>3, <1>4, <1>5 DEF Next, WorkerStep, vars, SoleFetch

LEMMA SoleFetchNext ==
  ASSUME TypeOK, Faults \cap {"broker", "crash"} = {}, SoleFetch, [Next]_vars
  PROVE  SoleFetch'
  <1> DEFINE Fetch == "fetch_attachment"
  <1> SUFFICES ASSUME NEW a \in Attachments
               PROVE  OneTask(Fetch, a)' /\ (attachment'[a] = "NONE" => Nowhere(Fetch, a)')
    BY NeverOverlapped DEF SoleFetch
  <1>1. OneTask(Fetch, a) /\ (attachment[a] = "NONE" => Nowhere(Fetch, a)) /\ ~ReceiveAgain(a)
    BY DEF SoleFetch, ReceiveAgain
  <1>2. CASE ReceiveAttachment(a)
    <2>1. Nowhere(Fetch, a) /\ NotHeld(Fetch, a)' /\ Publish(Fetch, a)
      BY <1>1, <1>2 DEF ReceiveAttachment, Nowhere, NotHeld
    <2>2. OneTask(Fetch, a)'
      BY <2>1, TaskPublished DEF AttachmentTasks
    <2>3. attachment'[a] # "NONE"
      BY <1>2 DEF ReceiveAttachment, TypeOK
    <2> QED
      BY <2>2, <2>3
  <1>3. CASE ~ReceiveAttachment(a)
    <2>1. OneTask(Fetch, a)' /\ (Nowhere(Fetch, a) => Nowhere(Fetch, a)')
      BY <1>1, <1>3, TaskNext DEF Starts, AttachmentTasks
    <2>2. attachment'[a] = "NONE" => attachment[a] = "NONE"
      <3>1. CASE UserStep
        BY <3>1 DEF UserStep, ReceiveAttachment, ReceiveAgain, RecoverAudio, Analyze,
           StartExtraction, AnswerLastQuestion, RecoverExtraction, BeginAnswer, EndAnswer,
           WaiveOpenIssues, Archive, Reopen, rows, TypeOK
      <3>2. ASSUME NEW p \in Workers, FetchStep(p)
            PROVE  attachment'[a] = "NONE" => attachment[a] = "NONE"
        BY <3>2 DEF FetchStep, BeginFetch, StartFetch, StoreAttachment, EnqueueNextJob,
           RejectAttachment, FailFetch, rows, TypeOK
      <3>3. ASSUME NEW p \in Workers, ContentStep(p) \/ ExtractionStep(p) \/ Crash(p)
            PROVE  attachment' = attachment
        <4>1. CASE ContentStep(p)
          BY <4>1 DEF ContentStep, BeginContent, RefuseTranscription, StoreContentEvidence,
             CompleteContent, SyncTranscript, ResumeExtraction, FailContent, rows
        <4>2. CASE ExtractionStep(p)
          BY <4>2 DEF ExtractionStep, BeginExtraction, ParkRun, RefuseRun, StartRun,
             CollectEvidence, ApplyResponse, ReadOutcome, MarkAnalysis, LeaveFinalizing, Notify,
             FailExtraction, FailRun, CommitRun, rows
        <4> QED
          BY <3>3, <4>1, <4>2 DEF Crash, rows
      <3> QED
        BY <3>1, <3>2, <3>3 DEF Next, WorkerStep, Take, rows, vars
    <2> QED
      BY <1>1, <2>1, <2>2
  <1> QED
    BY <1>2, <1>3

(* Where each way to go on leads.                                          *)
LEMMA GoesTo ==
  ASSUME TypeOK, NEW p \in Workers
  PROVE  /\ \A pc : Goto(p, pc) => worker'[p].pc = pc /\ worker'[p].msg = worker[p].msg
         /\ Return(p) => worker'[p].pc = "idle"
         /\ \A m \in Messages : Take(p, m) => worker'[p].pc = "begin"
         /\ ReadOutcome(p) => worker'[p].pc = "mark"
  <1>1. \A pc : Goto(p, pc) => worker'[p].pc = pc /\ worker'[p].msg = worker[p].msg
    BY DEF Goto, TypeOK
  <1>2. Return(p) => worker'[p].pc = "idle"
    BY DEF Return, Idle, TypeOK
  <1>3. \A m \in Messages : Take(p, m) => worker'[p].pc = "begin"
    BY DEF Take, Idle, TypeOK
  <1>4. ReadOutcome(p) => worker'[p].pc = "mark"
    BY DEF ReadOutcome, TypeOK
  <1> QED
    BY <1>1, <1>2, <1>3, <1>4

(* Unless two fetches of an attachment ran at once, one at most does.      *)
FetchInv ==
  \A a \in Attachments \ overlapped :
    \A p, q \in Workers : Fetching(p, a) /\ Fetching(q, a) => p = q

LEMMA FetchNext ==
  ASSUME TypeOK, FetchInv, [Next]_vars
  PROVE  FetchInv' /\ overlapped \subseteq overlapped'
  <1>1. ASSUME overlapped \subseteq overlapped',
               \A q \in Workers, a \in Attachments : Fetching(q, a)' => Fetching(q, a)
        PROVE  FetchInv' /\ overlapped \subseteq overlapped'
    BY <1>1 DEF FetchInv
  <1>2. ASSUME NEW p \in Workers, WorkerStep(p) \/ Crash(p), worker'[p].pc # "download",
               overlapped' = overlapped
        PROVE  FetchInv' /\ overlapped \subseteq overlapped'
    BY <1>1, <1>2, OnlyOne DEF Others, Fetching, At
  <1>3. ASSUME NEW p \in Workers
        PROVE  /\ \A pc : Goto(p, pc) => worker'[p].pc = pc /\ worker'[p].msg = worker[p].msg
               /\ Return(p) => worker'[p].pc = "idle"
               /\ \A m \in Messages : Take(p, m) => worker'[p].pc = "begin"
               /\ ReadOutcome(p) => worker'[p].pc = "mark"
    BY <1>3, GoesTo
  <1>4. ASSUME NEW p \in Workers, BeginFetch(p)
        PROVE  FetchInv' /\ overlapped \subseteq overlapped'
    <2> DEFINE a == worker[p].msg.id
    <2>1. CASE Return(p) /\ UNCHANGED overlapped
      BY <1>2, <1>3, <1>4, <2>1 DEF WorkerStep, FetchStep
    <2>2. CASE StartFetch(p, a)
      <3>1. overlapped' = overlapped \cup {b \in {a} : \E q \in Workers : Fetching(q, b)}
        BY <2>2 DEF StartFetch
      <3>2. /\ \A q \in Workers \ {p} : worker'[q] = worker[q]
            /\ worker'[p].msg.id = a
        BY <1>3, <1>4, <2>2, OnlyOne DEF WorkerStep, FetchStep, Others, StartFetch
      <3>3. ASSUME NEW b \in Attachments \ overlapped', NEW q \in Workers, NEW r \in Workers,
                   Fetching(q, b)', Fetching(r, b)'
            PROVE  q = r
        <4>1. b = a => \A u \in Workers : ~Fetching(u, b)
          BY <3>1, <3>3
        <4>2. \A u \in Workers \ {p} : Fetching(u, b)' => Fetching(u, b)
          BY <3>2 DEF Fetching, At
        <4>3. Fetching(p, b)' => b = a
          BY <3>2 DEF Fetching
        <4>4. b \in Attachments \ overlapped
          BY <3>1, <3>3
        <4> QED
          BY <3>3, <4>1, <4>2, <4>3, <4>4 DEF FetchInv
      <3> QED
        BY <3>1, <3>3 DEF FetchInv
    <2> QED
      BY <1>4, <2>1, <2>2 DEF BeginFetch
  <1>5. ASSUME NEW p \in Workers, FetchStep(p), ~BeginFetch(p)
        PROVE  worker'[p].pc # "download" /\ overlapped' = overlapped
    BY <1>3, <1>5 DEF FetchStep, StoreAttachment, EnqueueNextJob, RejectAttachment, FailFetch,
       Raise, RaiseOnPublish, others
  <1>6. ASSUME NEW p \in Workers, ContentStep(p)
        PROVE  worker'[p].pc # "download" /\ overlapped' = overlapped
    <2>1. overlapped' = overlapped
      BY <1>6 DEF ContentStep, BeginContent, RefuseTranscription, StoreContentEvidence,
         CompleteContent, SyncTranscript, ResumeExtraction, FailContent, others
    <2>2. worker'[p].pc # "download"
      BY <1>3, <1>6 DEF ContentStep, BeginContent, RefuseTranscription, StoreContentEvidence,
         CompleteContent, SyncTranscript, ResumeExtraction, FailContent, Raise, RaiseOnPublish
    <2> QED
      BY <2>1, <2>2
  <1>7. ASSUME NEW p \in Workers, ExtractionStep(p)
        PROVE  worker'[p].pc # "download" /\ overlapped' = overlapped
    <2>1. overlapped' = overlapped
      BY <1>7 DEF ExtractionStep, BeginExtraction, ParkRun, RefuseRun, StartRun, CollectEvidence,
         ApplyResponse, ReadOutcome, MarkAnalysis, LeaveFinalizing, Notify, FailExtraction,
         FailRun, CommitRun, others
    <2>2. worker'[p].pc # "download"
      BY <1>3, <1>7 DEF ExtractionStep, BeginExtraction, ParkRun, RefuseRun, StartRun,
         CollectEvidence, ApplyResponse, MarkAnalysis, LeaveFinalizing, Notify, FailExtraction,
         FailRun, Raise
    <2> QED
      BY <2>1, <2>2
  <1>9. ASSUME NEW p \in Workers, Crash(p) \/ \E m \in Messages : Take(p, m)
        PROVE  worker'[p].pc # "download" /\ overlapped' = overlapped
    BY <1>3, <1>9 DEF Crash, Take, others
  <1>8. CASE UserStep \/ UNCHANGED vars
    <2>1. UNCHANGED <<worker, overlapped>>
      BY <1>8 DEF UserStep, ReceiveAttachment, ReceiveAgain, RecoverAudio, Analyze,
         AnswerLastQuestion, RecoverExtraction, BeginAnswer, EndAnswer, WaiveOpenIssues, Archive,
         Reopen, others, vars
    <2> QED
      BY <1>1, <2>1 DEF Fetching, At
  <1> QED
    BY <1>2, <1>4, <1>5, <1>6, <1>7, <1>8, <1>9 DEF Next, WorkerStep

(* The job that reads a file is there when something of it is queued or    *)
(* executed, and, unless two fetches of it ran at once, not before the     *)
(* file is stored.                                                         *)
Readable(a) == contentJob[a] # "NONE"
PlaceOK(w) ==
  /\ w.msg.task = "content" => Readable(w.msg.id)
  /\ w.msg.task = "fetch_attachment" /\ w.pc = "download" /\ w.msg.id \notin overlapped
       => ~Readable(w.msg.id)
  /\ w.msg.task = "fetch_attachment" /\ w.pc = "enqueue" => Readable(w.msg.id)
PlaceInv ==
  /\ ContentIsStored
  /\ \A m \in Messages : m.task = "content" /\ queue[m] > 0 => Readable(m.id)
  /\ \A p \in Workers : PlaceOK(worker[p])

(* A step that leaves alone what is read, and reads only that.             *)
LEMMA PlaceKept ==
  ASSUME TypeOK, TypeOK', PlaceInv, overlapped \subseteq overlapped',
         \A a \in Attachments \ overlapped :
           Readable(a) => attachment'[a] = attachment[a] /\ fetchJob'[a] = fetchJob[a],
         \A a \in Attachments : contentJob'[a] # "NONE" <=> Readable(a),
         \A m \in Messages : m.task = "content" /\ queue'[m] > 0 => queue[m] > 0 \/ Readable(m.id),
         \A p \in Workers : worker'[p] = worker[p] \/ PlaceOK(worker'[p])
  PROVE  PlaceInv'
  <1>1. \A m \in Messages : m.task = "content" => m.id \in Attachments
    BY DEF Messages
  <1>2. ContentIsStored'
    BY DEF PlaceInv, ContentIsStored, Readable
  <1>3. \A m \in Messages : m.task = "content" /\ queue'[m] > 0 => Readable(m.id)'
    BY <1>1 DEF PlaceInv, Readable
  <1>4. ASSUME NEW w, w.msg.task \in {"fetch_attachment", "content"} => w.msg.id \in Attachments,
               PlaceOK(w)
        PROVE  PlaceOK(w)'
    BY <1>4 DEF PlaceOK, Readable
  <1>5. ASSUME NEW p \in Workers PROVE PlaceOK(worker[p])'
    <2>1. worker'[p].msg.task \in {"fetch_attachment", "content"}
            => worker'[p].msg.id \in Attachments
      BY DEF TypeOK, Messages, NoMessage
    <2>2. PlaceOK(worker'[p])
      BY DEF PlaceInv
    <2>3. PICK w : w = worker'[p]
      OBVIOUS
    <2>4. PlaceOK(w)'
      BY <1>4, <2>1, <2>2, <2>3
    <2> QED
      BY <2>3, <2>4 DEF PlaceOK
  <1> QED
    BY <1>2, <1>3, <1>5 DEF PlaceInv

(* Only messages of jobs that are there are queued.                        *)
QueuesReadable ==
  \A m \in Messages : m.task = "content" /\ queue'[m] > 0 => queue[m] > 0 \/ Readable(m.id)

LEMMA PutReadable ==
  ASSUME TypeOK, NEW n, n.task = "content" => Readable(n.id), queue' = Put(queue, n)
  PROVE  QueuesReadable
  <1>1. \A m \in Messages : m # n => queue'[m] = queue[m]
    BY DEF Put, TypeOK
  <1> QED
    BY <1>1 DEF QueuesReadable

LEMMA RetriedReadable ==
  ASSUME TypeOK, PlaceInv, NEW p \in Workers, Raise(p) \/ Crash(p)
  PROVE  QueuesReadable
  <1> DEFINE m == worker[p].msg
             n == [m EXCEPT !.retries = @ + 1]
  <1>1. m \in Messages \cup {NoMessage} /\ (m.task = "content" => Readable(m.id))
    BY DEF TypeOK, PlaceInv, PlaceOK
  <1>2. n.task = m.task /\ n.id = m.id
    BY <1>1 DEF Messages, NoMessage
  <1>3. queue' \in {queue, Put(queue, m), Put(queue, n)}
    BY DEF Raise, Retried, Crash
  <1> HIDE DEF n
  <1> QED
    BY <1>1, <1>2, <1>3, PutReadable DEF QueuesReadable

(* No step of a fetch, a content task or anything else breaks this.        *)
FilesInv == TypeOK /\ FetchInv /\ PlaceInv

LEMMA PlaceFetch ==
  ASSUME FilesInv, TypeOK', overlapped \subseteq overlapped', "broker" \notin Faults,
         NEW p \in Workers, FetchStep(p)
  PROVE  PlaceInv'
  <1> USE DEF FilesInv
  <1> DEFINE a == worker[p].msg.id
  <1>0. Others(p)
    BY OnlyOne DEF WorkerStep
  <1>1. /\ worker[p].msg.task = "fetch_attachment" /\ a \in Attachments
        /\ worker[p].pc = "download" /\ a \notin overlapped => ~Readable(a)
        /\ worker[p].pc = "enqueue" => Readable(a)
    BY MessageId DEF FetchStep, BeginFetch, StartFetch, StoreAttachment, EnqueueNextJob,
       RejectAttachment, FailFetch, At, PlaceInv, PlaceOK
  <1>2. Return(p) => PlaceOK(worker'[p])
    BY DEF Return, Idle, NoMessage, PlaceOK, TypeOK
  <1>3. CASE BeginFetch(p)
    <2>1. CASE Return(p) /\ UNCHANGED <<attachment, fetchJob>>
      BY <1>0, <1>2, <1>3, <2>1, PlaceKept DEF BeginFetch, Others, Readable
    <2>2. CASE fetchJob[a] # "SUCCEEDED" /\ StartFetch(p, a)
      <3>1. a \notin overlapped => ~Readable(a)
        BY <1>1, <2>2 DEF PlaceInv, ContentIsStored, Readable
      <3>2. PlaceOK(worker'[p])
        BY <1>1, <2>2, <3>1 DEF StartFetch, Goto, PlaceOK, TypeOK
      <3>3. \A b \in Attachments \ {a} : attachment'[b] = attachment[b] /\ fetchJob'[b] = fetchJob[b]
        BY <2>2 DEF StartFetch, TypeOK
      <3> QED
        BY <1>0, <1>3, <3>1, <3>2, <3>3, PlaceKept DEF BeginFetch, Others, Readable
    <2> QED
      BY <1>3, <2>1, <2>2 DEF BeginFetch
  <1>4. CASE StoreAttachment(p)
    <2>1. /\ contentJob'[a] # "NONE" /\ attachment'[a] = "STORED" /\ fetchJob'[a] = "SUCCEEDED"
          /\ \A b \in Attachments \ {a} : /\ contentJob'[b] = contentJob[b]
                                          /\ attachment'[b] = attachment[b]
                                          /\ fetchJob'[b] = fetchJob[b]
          /\ UNCHANGED queue
      BY <1>1, <1>4 DEF StoreAttachment, TypeOK
    <2>2. ContentIsStored'
      BY <2>1 DEF PlaceInv, ContentIsStored
    <2>3. \A m \in Messages : m.task = "content" => m.id \in Attachments
      BY DEF Messages
    <2>4. \A b \in Attachments : Readable(b) => Readable(b)'
      BY <2>1 DEF Readable
    <2>5. \A m \in Messages : m.task = "content" /\ queue'[m] > 0 => Readable(m.id)'
      BY <2>1, <2>3, <2>4 DEF PlaceInv
    <2>6. ASSUME NEW q \in Workers \ {p} PROVE PlaceOK(worker[q])'
      <3>1. worker'[q] = worker[q] /\ PlaceOK(worker[q])
        BY <1>0 DEF Others, PlaceInv
      <3>2. Fetching(q, a) => a \in overlapped
        BY <1>1, <1>4 DEF FetchInv, Fetching, StoreAttachment, At
      <3> QED
        BY <2>1, <2>4, <3>1, <3>2, MessageId DEF PlaceOK, Readable, Fetching, At
    <2>7. PlaceOK(worker[p])'
      BY <1>1, <1>4, <2>1 DEF StoreAttachment, Goto, Return, Idle, NoMessage, PlaceOK, Readable,
         TypeOK
    <2> QED
      BY <2>2, <2>5, <2>6, <2>7 DEF PlaceInv
  <1>5. CASE EnqueueNextJob(p)
    <2>1. Readable(a) /\ queue' = Put(queue, Task("content", a))
      BY <1>1, <1>5 DEF EnqueueNextJob, At, Publish
    <2>2. QueuesReadable
      BY <2>1, PutReadable DEF Task
    <2> QED
      BY <1>0, <1>2, <1>5, <2>2, PlaceKept DEF EnqueueNextJob, Others, QueuesReadable, Readable,
         rows
  <1>6. CASE RejectAttachment(p) \/ FailFetch(p)
    <2>1. /\ a \notin overlapped => ~Readable(a)
          /\ Return(p) /\ QueuesReadable /\ UNCHANGED contentJob
      BY <1>1, <1>6, RetriedReadable
      DEF RejectAttachment, FailFetch, RaiseOnPublish, At, Raise, QueuesReadable
    <2>2. \A b \in Attachments \ {a} : attachment'[b] = attachment[b] /\ fetchJob'[b] = fetchJob[b]
      BY <1>6 DEF RejectAttachment, FailFetch, TypeOK
    <2> QED
      BY <1>0, <1>2, <2>1, <2>2, PlaceKept DEF Others, QueuesReadable, Readable
  <1> QED
    BY <1>3, <1>4, <1>5, <1>6 DEF FetchStep

LEMMA PlaceContent ==
  ASSUME FilesInv, TypeOK', overlapped \subseteq overlapped', "broker" \notin Faults,
         NEW p \in Workers, ContentStep(p)
  PROVE  PlaceInv'
  <1> USE DEF FilesInv
  <1> DEFINE a == worker[p].msg.id
  <1>1. Others(p)
    BY OnlyOne DEF WorkerStep
  <1>2. /\ worker[p].msg.task = "content" /\ a \in Attachments /\ Readable(a)
        /\ UNCHANGED <<attachment, fetchJob>>
    BY MessageId DEF ContentStep, BeginContent, RefuseTranscription, StoreContentEvidence,
       CompleteContent, SyncTranscript, ResumeExtraction, FailContent, At, rows, PlaceInv, PlaceOK
  <1>3. \A b \in Attachments : contentJob'[b] # "NONE" <=> Readable(b)
    BY <1>2 DEF ContentStep, BeginContent, RefuseTranscription, StoreContentEvidence,
       CompleteContent, SyncTranscript, ResumeExtraction, FailContent, rows, Readable, TypeOK
  <1>4. Return(p) => PlaceOK(worker'[p])
    BY DEF Return, Idle, NoMessage, PlaceOK, TypeOK
  <1>5. \A pc : Goto(p, pc) => PlaceOK(worker'[p])
    BY <1>2 DEF Goto, PlaceOK, TypeOK
  <1>6. PlaceOK(worker'[p])
    BY <1>4, <1>5 DEF ContentStep, BeginContent, RefuseTranscription, StoreContentEvidence,
       CompleteContent, SyncTranscript, ResumeExtraction, FailContent, Raise, RaiseOnPublish
  <1>7. \A r : Publish("extract_case_facts", r) => QueuesReadable
    BY PutReadable DEF Publish, Task
  <1>8. QueuesReadable
    BY <1>7, RetriedReadable
    DEF ContentStep, BeginContent, RefuseTranscription, StoreContentEvidence, CompleteContent,
        SyncTranscript, ResumeExtraction, FailContent, RaiseOnPublish, QueuesReadable
  <1> QED
    BY <1>1, <1>2, <1>3, <1>6, <1>8, PlaceKept DEF Others, QueuesReadable

LEMMA PlaceExtraction ==
  ASSUME FilesInv, TypeOK', overlapped \subseteq overlapped', NEW p \in Workers,
         ExtractionStep(p) \/ Crash(p) \/ \E m \in Messages : Take(p, m)
  PROVE  PlaceInv'
  <1> USE DEF FilesInv
  <1>1. Others(p)
    BY OnlyOne DEF WorkerStep
  <1>2. UNCHANGED <<attachment, fetchJob, contentJob>>
    BY DEF ExtractionStep, BeginExtraction, ParkRun, RefuseRun, StartRun, CollectEvidence,
       ApplyResponse, ReadOutcome, MarkAnalysis, LeaveFinalizing, Notify, FailExtraction, FailRun,
       CommitRun, Crash, Take, rows
  <1>3. ASSUME NEW m \in Messages, Take(p, m) PROVE PlaceOK(worker'[p]) /\ QueuesReadable
    <2>1. /\ worker'[p].pc = "begin" /\ worker'[p].msg = m /\ queue[m] > 0
          /\ \A n \in Messages : queue'[n] > 0 => queue[n] > 0
      BY <1>3 DEF Take, Idle, TypeOK
    <2> QED
      BY <2>1 DEF PlaceInv, PlaceOK, QueuesReadable
  <1>4. Return(p) => PlaceOK(worker'[p])
    BY DEF Return, Idle, NoMessage, PlaceOK, TypeOK
  <1>5. CASE Crash(p)
    BY <1>1, <1>2, <1>4, <1>5, RetriedReadable, PlaceKept
    DEF Crash, Others, QueuesReadable, Readable
  <1>6. CASE ExtractionStep(p)
    <2>1. worker[p].msg.task = "extract_case_facts"
      BY <1>6 DEF ExtractionStep, BeginExtraction, ParkRun, RefuseRun, StartRun, CollectEvidence,
         ApplyResponse, ReadOutcome, MarkAnalysis, LeaveFinalizing, Notify, FailExtraction,
         FailRun, At
    <2>2. \A pc : Goto(p, pc) => PlaceOK(worker'[p])
      BY <2>1 DEF Goto, PlaceOK, TypeOK
    <2>3. ReadOutcome(p) => PlaceOK(worker'[p])
      BY <2>1 DEF ReadOutcome, PlaceOK, TypeOK
    <2>4. PlaceOK(worker'[p])
      BY <1>4, <1>6, <2>2, <2>3
      DEF ExtractionStep, BeginExtraction, ParkRun, RefuseRun, StartRun, CollectEvidence,
          ApplyResponse, MarkAnalysis, LeaveFinalizing, Notify, FailExtraction, FailRun, Raise
    <2>5. QueuesReadable
      BY <1>6, RetriedReadable
      DEF ExtractionStep, BeginExtraction, ParkRun, RefuseRun, StartRun, CollectEvidence,
          ApplyResponse, ReadOutcome, MarkAnalysis, LeaveFinalizing, Notify, FailExtraction,
          FailRun, QueuesReadable
    <2> QED
      BY <1>1, <1>2, <2>4, <2>5, PlaceKept DEF Others, QueuesReadable, Readable
  <1>7. ASSUME NEW m \in Messages, Take(p, m) PROVE PlaceInv'
    BY <1>1, <1>2, <1>3, <1>7, PlaceKept DEF Others, QueuesReadable, Readable
  <1> QED
    BY <1>5, <1>6, <1>7

LEMMA PlaceUser ==
  ASSUME FilesInv, TypeOK', overlapped \subseteq overlapped', UserStep PROVE PlaceInv'
  <1> USE DEF FilesInv
  <1>1. ASSUME UNCHANGED <<attachment, fetchJob, contentJob, worker>>, QueuesReadable
        PROVE  PlaceInv'
    BY <1>1, PlaceKept DEF QueuesReadable, Readable
  <1>2. \A r : Publish("extract_case_facts", r) => QueuesReadable
    BY PutReadable DEF Publish, Task
  <1>3. UNCHANGED queue => QueuesReadable
    BY DEF QueuesReadable
  <1>4. ASSUME NEW a \in Attachments, ReceiveAttachment(a) PROVE PlaceInv'
    <2>1. a \notin overlapped => ~Readable(a)
      BY <1>4 DEF ReceiveAttachment, PlaceInv, ContentIsStored, Readable
    <2>2. QueuesReadable
      BY <1>3, <1>4, PutReadable DEF ReceiveAttachment, Publish, Task
    <2>3. \A b \in Attachments \ {a} : attachment'[b] = attachment[b] /\ fetchJob'[b] = fetchJob[b]
      BY <1>4 DEF ReceiveAttachment, TypeOK
    <2> QED
      BY <1>4, <2>1, <2>2, <2>3, PlaceKept DEF ReceiveAttachment, QueuesReadable, Readable
  <1>6. ASSUME NEW a \in Attachments, ReceiveAgain(a) PROVE PlaceInv'
    <2>1. QueuesReadable
      BY <1>6, PutReadable DEF ReceiveAgain, Publish, Task
    <2> QED
      BY <1>1, <1>6, <2>1 DEF ReceiveAgain, rows
  <1>5. ASSUME NEW a \in Attachments, RecoverAudio(a) PROVE PlaceInv'
    <2>1. Readable(a)
      BY <1>5 DEF RecoverAudio, Readable
    <2>2. QueuesReadable
      BY <1>5, <2>1, PutReadable DEF RecoverAudio, Publish, Task
    <2>3. \A b \in Attachments : contentJob'[b] # "NONE" <=> Readable(b)
      BY <1>5, <2>1 DEF RecoverAudio, Readable, TypeOK
    <2> QED
      BY <1>5, <2>2, <2>3, PlaceKept DEF RecoverAudio, QueuesReadable
  <1> QED
    BY <1>1, <1>2, <1>3, <1>4, <1>5, <1>6
    DEF UserStep, Analyze, StartExtraction, AnswerLastQuestion, RecoverExtraction, BeginAnswer,
        EndAnswer, WaiveOpenIssues, Archive, Reopen, rows

LEMMA FilesInit == ASSUME Init PROVE FilesInv /\ SoleFetch
  <1>1. \A p \in Workers : worker[p].msg.task = "none"
    BY DEF Init, Idle, NoMessage
  <1>2. \A m \in Messages : queue[m] = 0
    BY DEF Init
  <1>3. \A t \in AttachmentTasks : \A a : OneTask(t, a) /\ Nowhere(t, a)
    BY <1>1, <1>2 DEF OneTask, Nowhere, NotQueued, NotHeld, IsTask, AttachmentTasks
  <1>4. PlaceInv /\ FetchInv
    BY <1>1, <1>2 DEF Init, PlaceInv, PlaceOK, ContentIsStored, FetchInv, Fetching, At
  <1>5. SoleFetch
    BY <1>3 DEF Init, SoleFetch, AttachmentTasks
  <1> QED
    BY <1>4, <1>5, TypeInit DEF FilesInv

LEMMA FilesNext ==
  ASSUME FilesInv, "broker" \notin Faults, [Next]_vars
  PROVE  FilesInv'
  <1>1. TypeOK' /\ FetchInv' /\ overlapped \subseteq overlapped'
    BY TypeNext, FetchNext DEF FilesInv
  <1>2. CASE UNCHANGED vars
    BY <1>1, <1>2, PlaceKept DEF FilesInv, vars, Readable
  <1> QED
    BY <1>1, <1>2, PlaceUser, PlaceFetch, PlaceContent, PlaceExtraction
    DEF FilesInv, Next, WorkerStep

(* As long as the broker takes every message, what is read of an           *)
(* attachment is read from its stored file, and no second fetch of it      *)
(* takes the file away while it is read: the rerun of an update may        *)
(* publish one, but only two that run at once disturb each other.          *)
THEOREM ContentIsStoredCorrect ==
  ASSUME "broker" \notin Faults
  PROVE  Spec => []ContentIsStored
  <1>1. FilesInv => ContentIsStored
    BY DEF FilesInv, PlaceInv
  <1>2. FilesInv /\ [Next]_vars => FilesInv'
    BY FilesNext
  <1> QED
    BY <1>1, <1>2, FilesInit, PTL DEF Spec

----------------------------------------------------------------------------
(* No analysis is abandoned                                                *)

(* Nothing fails but the extraction of a case without documents, the case  *)
(* is analysed once, and nobody archives or reopens it meanwhile.          *)
Calm ==
  /\ Faults \subseteq {"extract"} /\ ("extract" \in Faults => Documents = {})
  /\ MaxRuns = 1 /\ ~MayArchive

(* Where the task t(i) is: in the queue, or at a worker in one of places.  *)
Queued(t, i) == \E m \in Messages : m.task = t /\ m.id = i /\ queue[m] > 0
Held(t, i, places) ==
  \E p \in Workers : /\ worker[p].msg.task = t /\ worker[p].msg.id = i
                     /\ worker[p].pc \in places

(* Every job that waits or runs has a task that will go on with it.        *)
FetchLive(a) ==
  Queued("fetch_attachment", a) \/ Held("fetch_attachment", a, {"begin", "download"})
ContentLive(a) ==
  \/ Queued("content", a) \/ Held("content", a, {"begin", "process", "complete"})
  \/ Held("fetch_attachment", a, {"enqueue"})
JobsLive ==
  \A a \in Attachments : /\ fetchJob[a] \in Waiting => FetchLive(a)
                         /\ contentJob[a] \in Waiting => ContentLive(a)

(* Nothing makes an update be handled twice, so no fetch runs twice.       *)
CalmFiles == TypeOK /\ FetchInv /\ PlaceInv /\ SoleFetch

(* Something will start the run r: its own task, or a job that is not done *)
(* and whose end resumes the run.                                          *)
Resuming == \E a \in Attachments : Held("content", a, {"sync", "resume"})
Coming(r) ==
  \/ Queued("extract_case_facts", r) \/ Held("extract_case_facts", r, {"begin", "starting"})
  \/ PipelinePending \/ Resuming

(* A run that is parked, or about to be, is resumed.                       *)
Parks(r) == Held("extract_case_facts", r, {"parking"})
RunLive == \A r \in Runs : run[r] = "PENDING" \/ Parks(r) => Coming(r)

(* Only extraction fails, and only runs that were created are executed.    *)
KnownOK(w) ==
  w.msg.task = "extract_case_facts" =>
    /\ run[w.msg.id] # "NONE" /\ w.pc # "refusing"
    /\ w.pc = "failing" => "extract" \in Faults
KnownInv ==
  /\ \A m \in Messages : m.task = "extract_case_facts" /\ queue[m] > 0 => run[m.id] # "NONE"
  /\ \A p \in Workers : KnownOK(worker[p])
  /\ \A r \in Runs : run[r] = "FAILED" => "extract" \in Faults

(* The case is finalizing until the tail of its run moves it.              *)
Unfinished(r) ==
  \/ run[r] \in {"PENDING", "RUNNING", "FAILED"}
  \/ Held("extract_case_facts", r, {"read", "mark", "transition", "failing"})
StatusInv == \A r \in Runs : Unfinished(r) => case.status = "FINALIZING"

(* An analysis is under way only while its run is, or its tail.            *)
UnderWay(r) ==
  run[r] \in {"PENDING", "RUNNING"} \/ Held("extract_case_facts", r, {"read", "mark"})
AnalysisInv == case.analysis \in {"QUEUED", "PROCESSING"} => \E r \in Runs : UnderWay(r)

(* Together with what holds whatever fails, they are inductive.            *)
CalmInv ==
  /\ CalmFiles /\ OwnerInv /\ RunningHasExecutor
  /\ JobsLive /\ RunLive /\ KnownInv /\ StatusInv /\ AnalysisInv

LEMMA QueuedMore ==
  ASSUME TypeOK, queue' = queue \/ \E n : queue' = Put(queue, n)
  PROVE  \A t, i : Queued(t, i) => Queued(t, i)'
  <1>1. \A m \in Messages : queue[m] > 0 => queue'[m] > 0
    BY DEF Put, TypeOK
  <1> QED
    BY <1>1 DEF Queued

LEMMA QueuedNew ==
  ASSUME TypeOK, NEW n \in Messages, queue' = Put(queue, n), NEW t, NEW i, n.task = t, n.id = i
  PROVE  Queued(t, i)'
  <1>1. queue'[n] = queue[n] + 1 /\ queue[n] \in Nat
    BY DEF Put, TypeOK
  <1> QED
    BY <1>1 DEF Queued

LEMMA PublishLive ==
  ASSUME TypeOK, NEW t, NEW i, Publish(t, i), Task(t, i) \in Messages
  PROVE  Queued(t, i)' /\ \A u, j : Queued(u, j) => Queued(u, j)'
  <1>1. queue' = Put(queue, Task(t, i)) /\ Task(t, i).task = t /\ Task(t, i).id = i
    BY DEF Publish, Task
  <1> QED
    BY <1>1, QueuedMore, QueuedNew

LEMMA TasksOK ==
  /\ \A a \in Attachments : /\ Task("fetch_attachment", a) \in Messages
                            /\ Task("content", a) \in Messages
  /\ \A r \in Runs : Task("extract_case_facts", r) \in Messages
BY ConstantsAssumption DEF Task, Messages

(* A worker that goes on with another task, or does nothing.               *)
LEMMA HeldOther ==
  ASSUME NEW p, Others(p), NEW t, worker[p].msg.task # t
  PROVE  \A i, S : Held(t, i, S) => Held(t, i, S)'
BY DEF Held, Others

LEMMA HeldNone ==
  ASSUME NEW p, Others(p), NEW t, NEW S, worker'[p].msg.task # t \/ worker'[p].pc \notin S
  PROVE  \A i : Held(t, i, S)' => Held(t, i, S)
BY DEF Held, Others

LEMMA HeldSame ==
  ASSUME worker' = worker PROVE \A t, i, S : Held(t, i, S)' <=> Held(t, i, S)
BY DEF Held


(* Taking a message moves a task from the queue to a worker.               *)
LEMMA TakeLive ==
  ASSUME TypeOK, NEW p \in Workers, NEW m \in Messages, Take(p, m), NEW t, NEW i
  PROVE  /\ Queued(t, i) => Queued(t, i)' \/ Held(t, i, {"begin"})'
         /\ \A S : "idle" \notin S => (Held(t, i, S) => Held(t, i, S)')
         /\ \A S : "begin" \notin S => (Held(t, i, S)' => Held(t, i, S))
  <1>1. /\ worker[p].pc = "idle" /\ worker'[p].pc = "begin" /\ worker'[p].msg = m /\ Others(p)
        /\ \A n \in Messages \ {m} : queue'[n] = queue[n]
    BY OnlyOne DEF Take, Idle, TypeOK, WorkerStep
  <1>2. Queued(t, i) => Queued(t, i)' \/ Held(t, i, {"begin"})'
    BY <1>1 DEF Queued, Held
  <1>3. ASSUME NEW S, "idle" \notin S, Held(t, i, S) PROVE Held(t, i, S)'
    BY <1>1, <1>3 DEF Held, Others
  <1>4. ASSUME NEW S, "begin" \notin S, Held(t, i, S)' PROVE Held(t, i, S)
    BY <1>1, <1>4 DEF Held, Others
  <1> QED
    BY <1>2, <1>3, <1>4

LEMMA HeldMove ==
  ASSUME NEW p, Others(p), NEW t, NEW i, NEW S,
         ~(worker[p].msg.task = t /\ worker[p].msg.id = i /\ worker[p].pc \in S)
  PROVE  Held(t, i, S) => Held(t, i, S)'
BY DEF Held, Others

LEMMA HeldAt ==
  ASSUME NEW p \in Workers, NEW t, NEW i, NEW S,
         worker'[p].msg.task = t, worker'[p].msg.id = i, worker'[p].pc \in S
  PROVE  Held(t, i, S)'
BY DEF Held

LEMMA JobsUser == ASSUME Calm, TypeOK, JobsLive, UserStep PROVE JobsLive'
  <1>1. worker' = worker
    BY DEF UserStep, ReceiveAttachment, ReceiveAgain, RecoverAudio, Analyze, AnswerLastQuestion,
       RecoverExtraction, BeginAnswer, EndAnswer, WaiveOpenIssues, Archive, Reopen, rows
  <1>2. queue' = queue \/ \E n : queue' = Put(queue, n)
    BY DEF UserStep, ReceiveAttachment, ReceiveAgain, RecoverAudio, Analyze, AnswerLastQuestion,
       StartExtraction, RecoverExtraction, BeginAnswer, EndAnswer, WaiveOpenIssues, Archive,
       Reopen, Publish
  <1>3. \A a : (FetchLive(a) => FetchLive(a)') /\ (ContentLive(a) => ContentLive(a)')
    BY <1>1, <1>2, HeldSame, QueuedMore DEF FetchLive, ContentLive
  <1>4. ASSUME NEW a \in Attachments, ReceiveAttachment(a) PROVE JobsLive'
    <2>1. FetchLive(a)'
      BY <1>4, PublishLive, TasksOK DEF Calm, ReceiveAttachment, FetchLive
    <2>2. contentJob' = contentJob /\ \A b \in Attachments \ {a} : fetchJob'[b] = fetchJob[b]
      BY <1>4 DEF ReceiveAttachment, TypeOK
    <2> QED
      BY <1>3, <2>1, <2>2 DEF JobsLive
  <1>5. ASSUME NEW a \in Attachments, RecoverAudio(a) PROVE JobsLive'
    <2>1. ContentLive(a)'
      BY <1>5, PublishLive, TasksOK DEF RecoverAudio, ContentLive
    <2>2. fetchJob' = fetchJob /\ \A b \in Attachments \ {a} : contentJob'[b] = contentJob[b]
      BY <1>5 DEF RecoverAudio, TypeOK
    <2> QED
      BY <1>3, <2>1, <2>2 DEF JobsLive
  <1>6. ASSUME UNCHANGED <<fetchJob, contentJob>> PROVE JobsLive'
    BY <1>3, <1>6 DEF JobsLive
  <1> QED
    BY <1>4, <1>5, <1>6
    DEF UserStep, ReceiveAgain, Analyze, AnswerLastQuestion, RecoverExtraction, BeginAnswer,
        EndAnswer, WaiveOpenIssues, Archive, Reopen, rows

LEMMA JobsTake ==
  ASSUME TypeOK, JobsLive, NEW p \in Workers, NEW m \in Messages, Take(p, m) PROVE JobsLive'
  <1>1. \A t, i : Queued(t, i) => Queued(t, i)' \/ Held(t, i, {"begin"})'
    BY TakeLive
  <1>2. \A t, i : \A S : "idle" \notin S => (Held(t, i, S) => Held(t, i, S)')
    BY TakeLive
  <1>3. \A t, i : /\ Held(t, i, {"begin"})' => Held(t, i, {"begin", "download"})'
                  /\ Held(t, i, {"begin"})' => Held(t, i, {"begin", "process", "complete"})'
    BY DEF Held
  <1>4. \A a : (FetchLive(a) => FetchLive(a)') /\ (ContentLive(a) => ContentLive(a)')
    BY <1>1, <1>2, <1>3 DEF FetchLive, ContentLive
  <1> QED
    BY <1>4 DEF JobsLive, Take, rows

LEMMA JobsFetch ==
  ASSUME Calm, CalmFiles, JobsLive, NEW p \in Workers, FetchStep(p) PROVE JobsLive'
  <1>1. PICK a \in Attachments : a = worker[p].msg.id
    BY MessageId DEF CalmFiles, FetchStep, BeginFetch, StartFetch, StoreAttachment, EnqueueNextJob,
       RejectAttachment, FailFetch, At
  <1>2. TypeOK /\ Others(p) /\ worker[p].msg.task = "fetch_attachment"
    BY OnlyOne DEF CalmFiles, WorkerStep, FetchStep, BeginFetch, StartFetch, StoreAttachment,
       EnqueueNextJob, RejectAttachment, FailFetch, At
  <1>3. \A i, S : Held("content", i, S) => Held("content", i, S)'
    BY <1>2, HeldOther
  <1>4. \A b, S : b # a => (Held("fetch_attachment", b, S) => Held("fetch_attachment", b, S)')
    BY <1>1, <1>2, HeldMove
  <1>5. \A pc : Goto(p, pc) => worker'[p].pc = pc /\ worker'[p].msg = worker[p].msg
    BY <1>2 DEF Goto, TypeOK
  <1>6. CASE BeginFetch(p)
    <2>1. /\ \A t, i : Queued(t, i) <=> Queued(t, i)'
          /\ contentJob' = contentJob /\ \A b \in Attachments \ {a} : fetchJob'[b] = fetchJob[b]
      BY <1>1, <1>2, <1>6 DEF BeginFetch, StartFetch, Queued, TypeOK
    <2>2. worker[p].pc = "begin"
      BY <1>6 DEF BeginFetch, StartFetch, At
    <2>3. Held("fetch_attachment", a, {"enqueue"}) => Held("fetch_attachment", a, {"enqueue"})'
      BY <1>2, <2>2, HeldMove
    <2>4. \A b \in Attachments : ContentLive(b) => ContentLive(b)'
      BY <1>3, <1>4, <2>1, <2>3 DEF ContentLive
    <2>5. \A b \in Attachments \ {a} : FetchLive(b) => FetchLive(b)'
      BY <1>4, <2>1 DEF FetchLive
    <2>6. fetchJob'[a] \in Waiting => FetchLive(a)'
      <3>1. CASE fetchJob[a] = "SUCCEEDED"
        BY <1>1, <1>6, <3>1 DEF BeginFetch, StartFetch, Waiting
      <3>2. CASE Goto(p, "download")
        BY <1>1, <1>2, <1>5, <3>2, HeldAt DEF FetchLive
      <3> QED
        BY <1>1, <1>6, <3>1, <3>2 DEF BeginFetch, StartFetch
    <2> QED
      BY <2>1, <2>4, <2>5, <2>6 DEF JobsLive
  <1>7. CASE StoreAttachment(p)
    <2>1. /\ \A t, i : Queued(t, i) <=> Queued(t, i)'
          /\ \A b \in Attachments \ {a} : fetchJob'[b] = fetchJob[b] /\ contentJob'[b] = contentJob[b]
          /\ fetchJob'[a] = "SUCCEEDED" /\ worker[p].pc = "download"
      BY <1>1, <1>2, <1>7 DEF StoreAttachment, Queued, TypeOK, At
    <2>2. contentJob[a] = "NONE" /\ Goto(p, "enqueue")
      BY <1>1, <1>2, <1>7, <2>1 DEF StoreAttachment, CalmFiles, SoleFetch, PlaceInv, PlaceOK,
         Readable
    <2>3. ContentLive(a)'
      BY <1>1, <1>2, <1>5, <2>2, HeldAt DEF ContentLive
    <2>4. \A b \in Attachments \ {a} : (FetchLive(b) => FetchLive(b)') /\ (ContentLive(b) => ContentLive(b)')
      BY <1>3, <1>4, <2>1 DEF FetchLive, ContentLive
    <2> QED
      BY <2>1, <2>3, <2>4 DEF JobsLive, Waiting
  <1>8. CASE EnqueueNextJob(p)
    <2>1. Queued("content", a)' /\ \A t, i : Queued(t, i) => Queued(t, i)'
      BY <1>1, <1>2, <1>8, PublishLive, TasksOK DEF EnqueueNextJob
    <2>2. worker[p].pc = "enqueue" /\ UNCHANGED <<fetchJob, contentJob>>
      BY <1>8 DEF EnqueueNextJob, At, rows
    <2>3. Held("fetch_attachment", a, {"begin", "download"})
            => Held("fetch_attachment", a, {"begin", "download"})'
      BY <1>2, <2>2, HeldMove
    <2>4. \A b \in Attachments : (FetchLive(b) => FetchLive(b)') /\ (ContentLive(b) => ContentLive(b)')
      BY <1>3, <1>4, <2>1, <2>3 DEF FetchLive, ContentLive
    <2> QED
      BY <2>2, <2>4 DEF JobsLive
  <1>9. ~RejectAttachment(p) /\ ~FailFetch(p)
    BY DEF Calm, RejectAttachment, FailFetch, RaiseOnPublish
  <1> QED
    BY <1>6, <1>7, <1>8, <1>9 DEF FetchStep

(* A content task that begins finds its file, unless it is over.           *)
LEMMA ContentBegins ==
  ASSUME CalmFiles, NEW p \in Workers, BeginContent(p)
  PROVE  /\ worker[p].msg.id \in Attachments /\ queue' = queue
         /\ \/ /\ contentJob[worker[p].msg.id] = "SUCCEEDED" /\ Return(p) /\ contentJob' = contentJob
            \/ /\ contentJob' = [contentJob EXCEPT ![worker[p].msg.id] = "RUNNING"]
               /\ Goto(p, "process")
  <1>1. /\ worker[p].msg.id \in Attachments /\ Readable(worker[p].msg.id)
    BY MessageId DEF CalmFiles, PlaceInv, PlaceOK, BeginContent, At
  <1>2. ContentReadable(worker[p].msg.id)
    BY <1>1 DEF CalmFiles, SoleFetch, PlaceInv, ContentIsStored, Readable, ContentReadable
  <1> QED
    BY <1>1, <1>2 DEF BeginContent

LEMMA ContentCalm ==
  ASSUME Calm, NEW p \in Workers, ContentStep(p)
  PROVE  \/ BeginContent(p) \/ StoreContentEvidence(p) \/ CompleteContent(p)
         \/ SyncTranscript(p) \/ ResumeExtraction(p)
  BY DEF Calm, ContentStep, RefuseTranscription, FailContent, RaiseOnPublish

LEMMA JobsContent ==
  ASSUME Calm, CalmFiles, JobsLive, NEW p \in Workers, ContentStep(p) PROVE JobsLive'
  <1>1. PICK a \in Attachments : a = worker[p].msg.id
    BY MessageId DEF CalmFiles, ContentStep, BeginContent, RefuseTranscription,
       StoreContentEvidence, CompleteContent, SyncTranscript, ResumeExtraction, FailContent, At
  <1>2. TypeOK /\ Others(p) /\ worker[p].msg.task = "content"
    BY OnlyOne DEF CalmFiles, WorkerStep, ContentStep, BeginContent, RefuseTranscription,
       StoreContentEvidence, CompleteContent, SyncTranscript, ResumeExtraction, FailContent, At
  <1>3. \A i, S : Held("fetch_attachment", i, S) => Held("fetch_attachment", i, S)'
    BY <1>2, HeldOther
  <1>4. \A b, S : b # a => (Held("content", b, S) => Held("content", b, S)')
    BY <1>1, <1>2, HeldMove
  <1>5. \A pc : Goto(p, pc) => worker'[p].pc = pc /\ worker'[p].msg = worker[p].msg
    BY <1>2 DEF Goto, TypeOK
  <1>6. \A t, i : Queued(t, i) => Queued(t, i)'
    <2>1. queue' = queue \/ \E n : queue' = Put(queue, n)
      BY ContentCalm, ContentBegins
      DEF StoreContentEvidence, CompleteContent, SyncTranscript, ResumeExtraction, Publish
    <2> QED
      BY <1>2, <2>1, QueuedMore
  <1>7. /\ fetchJob' = fetchJob /\ \A b \in Attachments \ {a} : contentJob'[b] = contentJob[b]
    BY <1>1, <1>2, ContentCalm, ContentBegins
    DEF BeginContent, StoreContentEvidence, CompleteContent, SyncTranscript, ResumeExtraction,
        rows, TypeOK
  <1>8. /\ \A b \in Attachments : FetchLive(b) => FetchLive(b)'
        /\ \A b \in Attachments \ {a} : ContentLive(b) => ContentLive(b)'
    BY <1>3, <1>4, <1>6 DEF FetchLive, ContentLive
  <1>9. contentJob'[a] \in Waiting => ContentLive(a)'
    <2>1. CASE BeginContent(p)
      <3>1. CASE contentJob[a] = "SUCCEEDED" /\ contentJob' = contentJob
        BY <3>1 DEF Waiting
      <3>2. CASE Goto(p, "process")
        BY <1>1, <1>2, <1>5, <3>2, HeldAt DEF ContentLive
      <3> QED
        BY <1>1, <2>1, <3>1, <3>2, ContentBegins
    <2>2. CASE StoreContentEvidence(p)
      BY <1>1, <1>2, <1>5, <2>2, HeldAt DEF StoreContentEvidence, ContentLive
    <2>3. CASE CompleteContent(p)
      BY <1>1, <1>2, <2>3 DEF CompleteContent, TypeOK, Waiting
    <2>4. CASE SyncTranscript(p) \/ ResumeExtraction(p)
      <3>1. worker[p].pc \in {"sync", "resume"} /\ contentJob' = contentJob
        BY <2>4 DEF SyncTranscript, ResumeExtraction, At, rows
      <3>2. Held("content", a, {"begin", "process", "complete"})
              => Held("content", a, {"begin", "process", "complete"})'
        BY <1>2, <3>1, HeldMove
      <3>3. ContentLive(a) => ContentLive(a)'
        BY <1>3, <1>6, <3>2 DEF ContentLive
      <3> QED
        BY <3>1, <3>3 DEF JobsLive
    <2> QED
      BY <2>1, <2>2, <2>3, <2>4, ContentCalm
  <1> QED
    BY <1>7, <1>8, <1>9 DEF JobsLive

(* An extraction touches no job.                                           *)
LEMMA ExtractionFrame ==
  ASSUME TypeOK, NEW p \in Workers, ExtractionStep(p)
  PROVE  /\ UNCHANGED <<attachment, fetchJob, contentJob>>
         /\ worker[p].msg.task = "extract_case_facts"
         /\ queue' = queue \/ \E n : queue' = Put(queue, n)
  <1>1. Raise(p) => queue' = queue \/ \E n : queue' = Put(queue, n)
    BY DEF Raise, Retried
  <1> QED
    BY <1>1 DEF ExtractionStep, BeginExtraction, ParkRun, RefuseRun, StartRun, CollectEvidence,
       ApplyResponse, ReadOutcome, MarkAnalysis, LeaveFinalizing, Notify, FailExtraction, FailRun,
       CommitRun, At, rows

LEMMA JobsExtraction ==
  ASSUME TypeOK, JobsLive, NEW p \in Workers, ExtractionStep(p) PROVE JobsLive'
  <1>1. Others(p)
    BY OnlyOne DEF WorkerStep
  <1>2. \A i, S : /\ Held("fetch_attachment", i, S) => Held("fetch_attachment", i, S)'
                  /\ Held("content", i, S) => Held("content", i, S)'
    BY <1>1, ExtractionFrame, HeldOther
  <1>3. \A t, i : Queued(t, i) => Queued(t, i)'
    BY ExtractionFrame, QueuedMore
  <1> QED
    BY <1>2, <1>3, ExtractionFrame DEF JobsLive, FetchLive, ContentLive

LEMMA JobsNext ==
  ASSUME Calm, CalmFiles, JobsLive, [Next]_vars PROVE JobsLive'
  <1>1. CASE UNCHANGED vars
    <2>1. \A t, i, S : Queued(t, i)' = Queued(t, i) /\ Held(t, i, S)' = Held(t, i, S)
      BY <1>1 DEF vars, Queued, Held
    <2> QED
      BY <1>1, <2>1 DEF vars, JobsLive, FetchLive, ContentLive
  <1>2. \A p \in Workers : ~Crash(p)
    BY DEF Calm, Crash
  <1> QED
    BY <1>1, <1>2, JobsUser, JobsTake, JobsFetch, JobsContent, JobsExtraction
    DEF CalmFiles, Next, WorkerStep

(* Runs stay created, and only tasks of created runs are added.            *)
AddsKnown ==
  \/ queue' = queue
  \/ \E n : /\ queue' = Put(queue, n)
            /\ n.task = "extract_case_facts" /\ n.id \in Runs => run'[n.id] # "NONE"

LEMMA KnownKept ==
  ASSUME TypeOK, TypeOK', KnownInv,
         \A r \in Runs : run[r] # "NONE" => run'[r] # "NONE",
         \A r \in Runs : run'[r] = "FAILED" => run[r] = "FAILED" \/ "extract" \in Faults,
         AddsKnown,
         \A p \in Workers : worker'[p] = worker[p] \/ KnownOK(worker[p])'
  PROVE  KnownInv'
  <1>1. \A m \in Messages : m.task = "extract_case_facts" => m.id \in Runs
    BY DEF Messages
  <1>2. ASSUME NEW m \in Messages, m.task = "extract_case_facts", queue'[m] > 0
        PROVE  run'[m.id] # "NONE"
    <2>1. queue[m] > 0 \/ \E n : n = m /\ (n.task = "extract_case_facts" /\ n.id \in Runs => run'[n.id] # "NONE")
      BY <1>2 DEF AddsKnown, Put, TypeOK
    <2> QED
      BY <1>1, <1>2, <2>1 DEF KnownInv
  <1>3. ASSUME NEW p \in Workers, worker'[p] = worker[p] PROVE KnownOK(worker[p])'
    <2>1. worker[p].msg.task = "extract_case_facts" => worker[p].msg.id \in Runs
      BY MessageId
    <2> QED
      BY <1>3, <2>1 DEF KnownInv, KnownOK
  <1> QED
    BY <1>2, <1>3 DEF KnownInv

LEMMA KnownUser == ASSUME TypeOK, TypeOK', KnownInv, UserStep PROVE KnownInv'
  <1>1. worker' = worker
    BY DEF UserStep, ReceiveAttachment, ReceiveAgain, RecoverAudio, Analyze, AnswerLastQuestion,
       RecoverExtraction, BeginAnswer, EndAnswer, WaiveOpenIssues, Archive, Reopen, rows
  <1>2. ASSUME NEW r \in Runs, NEW c, StartExtraction(r, c) PROVE KnownInv'
    <2>1. run'[r] = "PENDING" /\ \A s \in Runs \ {r} : run'[s] = run[s]
      BY <1>2 DEF StartExtraction, TypeOK
    <2>2. queue' = Put(queue, Task("extract_case_facts", r))
      BY <1>2 DEF StartExtraction, Publish
    <2>3. Task("extract_case_facts", r).id = r
      BY DEF Task
    <2> QED
      BY <1>1, <2>1, <2>2, <2>3, KnownKept DEF AddsKnown
  <1>3. ASSUME run' = run, NEW t, NEW i, Publish(t, i),
               t = "extract_case_facts" => i \in Runs /\ run[i] # "NONE"
        PROVE  KnownInv'
    <2>1. queue' = Put(queue, Task(t, i)) /\ Task(t, i).id = i /\ Task(t, i).task = t
      BY <1>3 DEF Publish, Task
    <2> QED
      BY <1>1, <1>3, <2>1, KnownKept DEF AddsKnown
  <1>4. CASE UNCHANGED <<run, queue>>
    BY <1>1, <1>4, KnownKept DEF AddsKnown
  <1>5. CASE \E a \in Attachments : ReceiveAttachment(a) \/ ReceiveAgain(a) \/ RecoverAudio(a)
    <2>1. CASE UNCHANGED <<run, queue>>
      BY <1>4, <2>1
    <2>2. CASE \E a, t : t # "extract_case_facts" /\ run' = run /\ Publish(t, a)
      BY <1>3, <2>2
    <2> QED
      BY <1>5, <2>1, <2>2 DEF ReceiveAttachment, ReceiveAgain, RecoverAudio, rows
  <1>6. ASSUME NEW r \in Runs, RecoverExtraction(r) PROVE KnownInv'
    <2>1. run' = run /\ Publish("extract_case_facts", r) /\ run[r] # "NONE"
      BY <1>6 DEF RecoverExtraction, LatestRun, rows
    <2> QED
      BY <1>3, <2>1
  <1> QED
    BY <1>2, <1>4, <1>5, <1>6 DEF UserStep, Analyze, AnswerLastQuestion, BeginAnswer, EndAnswer,
       WaiveOpenIssues, Archive, Reopen, rows

LEMMA KnownJobs ==
  ASSUME Calm, CalmFiles, TypeOK', KnownInv, NEW p \in Workers, FetchStep(p) \/ ContentStep(p)
  PROVE  KnownInv'
  <1>1. TypeOK /\ Others(p) /\ worker[p].msg.task \in {"fetch_attachment", "content"}
    BY OnlyOne DEF CalmFiles, WorkerStep, FetchStep, BeginFetch, StartFetch, StoreAttachment,
       EnqueueNextJob, RejectAttachment, FailFetch, ContentStep, BeginContent, RefuseTranscription,
       StoreContentEvidence, CompleteContent, SyncTranscript, ResumeExtraction, FailContent, At
  <1>2. worker'[p].msg \in {worker[p].msg, NoMessage}
    BY <1>1, StepMessage
  <1>3. KnownOK(worker[p])'
    BY <1>1, <1>2 DEF KnownOK, NoMessage
  <1>4. run' = run
    BY DEF FetchStep, BeginFetch, StartFetch, StoreAttachment, EnqueueNextJob, RejectAttachment,
       FailFetch, ContentStep, BeginContent, RefuseTranscription, StoreContentEvidence,
       CompleteContent, SyncTranscript, ResumeExtraction, FailContent, rows
  <1>5. AddsKnown
    <2>1. CASE ResumeExtraction(p)
      <3>1. ASSUME NEW r \in Runs, Resumable(worker[p].msg.id, r), Publish("extract_case_facts", r)
            PROVE  AddsKnown
        <4>1. run[r] # "NONE"
          BY <3>1 DEF Resumable, LatestRun
        <4>2. queue' = Put(queue, Task("extract_case_facts", r)) /\ Task("extract_case_facts", r).id = r
          BY <3>1 DEF Publish, Task
        <4> QED
          BY <1>4, <4>1, <4>2 DEF AddsKnown
      <3> QED
        BY <2>1, <3>1 DEF ResumeExtraction, AddsKnown
    <2>2. CASE EnqueueNextJob(p)
      <3>1. queue' = Put(queue, Task("content", worker[p].msg.id))
        BY <2>2 DEF EnqueueNextJob, Publish
      <3>2. Task("content", worker[p].msg.id).task # "extract_case_facts"
        BY DEF Task
      <3> QED
        BY <3>1, <3>2 DEF AddsKnown
    <2>3. ~RejectAttachment(p) /\ ~FailFetch(p)
      BY DEF Calm, RejectAttachment, FailFetch, RaiseOnPublish
    <2> QED
      BY <2>1, <2>2, <2>3, ContentCalm, ContentBegins
      DEF AddsKnown, FetchStep, BeginFetch, StartFetch, StoreAttachment, StoreContentEvidence,
          CompleteContent, SyncTranscript
  <1> QED
    BY <1>1, <1>3, <1>4, <1>5, KnownKept DEF Others

LEMMA KnownExtraction ==
  ASSUME Calm, TypeOK, TypeOK', OwnerInv, StatusInv, KnownInv, NEW p \in Workers, ExtractionStep(p)
  PROVE  KnownInv'
  <1>1. PICK r \in Runs : r = worker[p].msg.id
    BY ExtractionFrame, MessageId
  <1>2. Others(p) /\ worker[p].msg.task = "extract_case_facts" /\ KnownOK(worker[p])
    BY ExtractionFrame, OnlyOne DEF WorkerStep, KnownInv
  <1>3. \A pc : Goto(p, pc) => worker'[p].pc = pc /\ worker'[p].msg = worker[p].msg
    BY DEF Goto, TypeOK
  <1>4. Return(p) => KnownOK(worker[p])'
    BY DEF Return, Idle, NoMessage, TypeOK, KnownOK
  <1>5. /\ ~RefuseRun(p)
        /\ FailRun(p) => "extract" \in Faults
    BY <1>2 DEF KnownOK, RefuseRun, FailRun, At
  <1>6. \A s \in Runs : /\ run[s] # "NONE" => run'[s] # "NONE"
                        /\ run'[s] = "FAILED" => run[s] = "FAILED" \/ "extract" \in Faults
    BY <1>1, <1>2, <1>5 DEF ExtractionStep, BeginExtraction, ParkRun, StartRun, CollectEvidence,
       ApplyResponse, ReadOutcome, MarkAnalysis, LeaveFinalizing, Notify, FailExtraction, FailRun,
       CommitRun, rows, TypeOK
  <1>7. run'[r] # "NONE"
    BY <1>1, <1>2, <1>6 DEF KnownOK
  <1>8. AddsKnown
    <2> DEFINE m == worker[p].msg
               n == [m EXCEPT !.retries = @ + 1]
    <2>1. m.id = r /\ n.id = r
      BY <1>1, <1>2 DEF TypeOK, Messages, NoMessage
    <2>2. queue' \in {queue, Put(queue, n)}
      BY DEF ExtractionStep, BeginExtraction, ParkRun, RefuseRun, StartRun, CollectEvidence,
         ApplyResponse, ReadOutcome, MarkAnalysis, LeaveFinalizing, Notify, FailExtraction,
         FailRun, Raise, Retried
    <2> HIDE DEF m, n
    <2> QED
      BY <1>7, <2>1, <2>2 DEF AddsKnown
  <1>9. KnownOK(worker[p])'
    <2>1. ASSUME NEW pc, Goto(p, pc), pc # "refusing", pc = "failing" => "extract" \in Faults
          PROVE  KnownOK(worker[p])'
      BY <1>1, <1>3, <1>7, <2>1 DEF KnownOK
    <2>2. CASE ReadOutcome(p)
      <3>1. worker'[p].pc = "mark" /\ worker'[p].msg = worker[p].msg
        BY <2>2 DEF ReadOutcome, TypeOK
      <3> QED
        BY <1>1, <1>7, <3>1 DEF KnownOK
    <2>3. CASE LeaveFinalizing(p)
      <3>1. worker[p].pc = "transition"
        BY <2>3 DEF LeaveFinalizing, At
      <3>2. Unfinished(r)
        BY <1>1, <1>2, <3>1 DEF Unfinished, Held
      <3>3. \A t \in {"NEEDS_INFORMATION", "OPEN"} : CanTransition(case, t)
        BY <3>2 DEF StatusInv, CanTransition, AllowedTransitions
      <3>4. Goto(p, "notify")
        BY <2>3, <3>3 DEF LeaveFinalizing
      <3> QED
        BY <2>1, <3>4
    <2>4. CASE BeginExtraction(p)
      BY <1>4, <2>1, <2>4 DEF Calm, BeginExtraction, Raise
    <2>5. CASE Notify(p) \/ FailExtraction(p)
      BY <1>4, <2>1, <2>5 DEF Calm, Notify, FailExtraction
    <2>6. CASE ParkRun(p) \/ StartRun(p) \/ CollectEvidence(p) \/ ApplyResponse(p)
               \/ MarkAnalysis(p) \/ FailRun(p)
      BY <1>4, <2>1, <2>6
      DEF ParkRun, StartRun, CollectEvidence, ApplyResponse, MarkAnalysis, FailRun, Raise
    <2> QED
      BY <1>5, <2>2, <2>3, <2>4, <2>5, <2>6 DEF ExtractionStep
  <1> QED
    BY <1>2, <1>6, <1>8, <1>9, KnownKept DEF Others

LEMMA KnownTake ==
  ASSUME TypeOK, TypeOK', KnownInv, NEW p \in Workers, NEW m \in Messages, Take(p, m)
  PROVE  KnownInv'
  <1>1. /\ worker'[p].msg = m /\ worker'[p].pc = "begin" /\ queue[m] > 0 /\ run' = run
        /\ \A n \in Messages : queue'[n] > 0 => queue[n] > 0
    BY DEF Take, Idle, TypeOK, rows
  <1>2. Others(p)
    BY OnlyOne DEF WorkerStep
  <1>3. KnownOK(worker[p])'
    BY <1>1 DEF KnownInv, KnownOK
  <1>4. \A q \in Workers \ {p} : KnownOK(worker[q])'
    BY <1>1, <1>2 DEF KnownInv, KnownOK, Others
  <1> QED
    BY <1>1, <1>3, <1>4 DEF KnownInv

LEMMA KnownNext ==
  ASSUME Calm, CalmFiles, TypeOK', OwnerInv, StatusInv, KnownInv, [Next]_vars PROVE KnownInv'
  <1>1. CASE UNCHANGED vars
    BY <1>1, KnownKept DEF CalmFiles, vars, AddsKnown
  <1>2. \A p \in Workers : ~Crash(p)
    BY DEF Calm, Crash
  <1> QED
    BY <1>1, <1>2, KnownUser, KnownTake, KnownJobs, KnownExtraction DEF CalmFiles, Next, WorkerStep

(* A step that neither moves the case nor leaves more to be finished.      *)
LEMMA StatusKept ==
  ASSUME StatusInv, case'.status = case.status, \A r \in Runs : Unfinished(r)' => Unfinished(r)
  PROVE  StatusInv'
BY DEF StatusInv

(* Nothing but an extraction executes a run.                               *)
LEMMA ExtractHeld ==
  ASSUME Calm, TypeOK, NEW p \in Workers,
         FetchStep(p) \/ ContentStep(p) \/ \E m \in Messages : Take(p, m)
  PROVE  /\ \A r, S : "idle" \notin S =>
              (Held("extract_case_facts", r, S) => Held("extract_case_facts", r, S)')
         /\ \A r, S : "begin" \notin S =>
              (Held("extract_case_facts", r, S)' => Held("extract_case_facts", r, S))
         /\ UNCHANGED <<case, run>>
  <1>1. ASSUME NEW m \in Messages, Take(p, m)
        PROVE  /\ \A r, S : "idle" \notin S =>
                    (Held("extract_case_facts", r, S) => Held("extract_case_facts", r, S)')
               /\ \A r, S : "begin" \notin S =>
                    (Held("extract_case_facts", r, S)' => Held("extract_case_facts", r, S))
               /\ UNCHANGED <<case, run>>
    BY <1>1, TakeLive DEF Take, rows
  <1>2. CASE FetchStep(p) \/ ContentStep(p)
    <2>1. /\ worker[p].msg.task \in {"fetch_attachment", "content"} /\ Others(p)
          /\ UNCHANGED <<case, run>>
      BY <1>2, OnlyOne DEF WorkerStep, FetchStep, BeginFetch, StartFetch, StoreAttachment,
         EnqueueNextJob, RejectAttachment, FailFetch, ContentStep, BeginContent,
         RefuseTranscription, StoreContentEvidence, CompleteContent, SyncTranscript,
         ResumeExtraction, FailContent, At, rows
    <2>2. worker'[p].msg.task # "extract_case_facts"
      <3>1. worker'[p].msg \in {worker[p].msg, NoMessage}
        BY <1>2, StepMessage
      <3> QED
        BY <2>1, <3>1 DEF NoMessage
    <2> QED
      BY <2>1, <2>2, HeldOther, HeldNone
  <1> QED
    BY <1>1, <1>2

LEMMA StatusUser ==
  ASSUME Calm, TypeOK, StatusInv, AnalysisInv, UserStep PROVE StatusInv' /\ AnalysisInv'
  <1>1. \A r, S : Held("extract_case_facts", r, S)' <=> Held("extract_case_facts", r, S)
    BY HeldSame DEF UserStep, ReceiveAttachment, ReceiveAgain, RecoverAudio, Analyze,
       AnswerLastQuestion, RecoverExtraction, BeginAnswer, EndAnswer, WaiveOpenIssues, Archive,
       Reopen, rows
  <1>2. ASSUME NEW r \in Runs, NEW c, StartExtraction(r, c), c.status = "FINALIZING", c \in Case
        PROVE  StatusInv' /\ AnalysisInv'
    <2>1. run'[r] = "PENDING" /\ case'.status = "FINALIZING"
      BY <1>2 DEF StartExtraction, TypeOK, Case
    <2> QED
      BY <2>1 DEF StatusInv, AnalysisInv, UnderWay
  <1>3. ASSUME NEW r \in Runs, Analyze(r) PROVE StatusInv' /\ AnalysisInv'
    <2>1. case.analysis \in {"QUEUED", "PROCESSING"} => case.status = "FINALIZING"
      BY DEF AnalysisInv, StatusInv, UnderWay, Unfinished, Held
    <2>2. RequestAnalysis(case).status = "FINALIZING" /\ RequestAnalysis(case) \in Case
      BY <2>1 DEF RequestAnalysis, TypeOK, Case, Status, AnalysisStatus
    <2> QED
      BY <1>2, <1>3, <2>2 DEF Analyze
  <1>4. ASSUME NEW r \in Runs, AnswerLastQuestion(r) PROVE StatusInv' /\ AnalysisInv'
    <2>1. TransitionCase(case, "FINALIZING").status = "FINALIZING"
      BY DEF TransitionCase
    <2>2. TransitionCase(case, "FINALIZING") \in Case
      BY TransitionOK DEF TypeOK, Status
    <2> QED
      BY <1>2, <1>4, <2>1, <2>2 DEF AnswerLastQuestion
  <1>5. CASE WaiveOpenIssues
    <2>1. /\ case'.analysis = "COMPLETED" /\ run' = run
          /\ case.status = "FINALIZING" => case'.status = "FINALIZING"
      BY <1>5 DEF WaiveOpenIssues, TypeOK, Case
    <2> QED
      BY <1>1, <2>1 DEF StatusInv, AnalysisInv, Unfinished
  <1>6. ASSUME UNCHANGED <<case, run>> PROVE StatusInv' /\ AnalysisInv'
    BY <1>1, <1>6 DEF StatusInv, AnalysisInv, Unfinished, UnderWay
  <1>7. ~Archive /\ ~Reopen
    BY DEF Calm, Archive, Reopen
  <1> QED
    BY <1>3, <1>4, <1>5, <1>6, <1>7 DEF UserStep, ReceiveAttachment, ReceiveAgain, RecoverAudio,
       RecoverExtraction, BeginAnswer, EndAnswer, rows

LEMMA StatusTasks ==
  ASSUME Calm, TypeOK, StatusInv, AnalysisInv, NEW p \in Workers,
         FetchStep(p) \/ ContentStep(p) \/ \E m \in Messages : Take(p, m)
  PROVE  StatusInv' /\ AnalysisInv'
  <1>1. \A r \in Runs : Unfinished(r)' => Unfinished(r)
    BY ExtractHeld DEF Unfinished
  <1>2. \A r \in Runs : UnderWay(r) => UnderWay(r)'
    BY ExtractHeld DEF UnderWay
  <1> QED
    BY <1>1, <1>2, StatusKept, ExtractHeld DEF AnalysisInv

LEMMA StatusExtraction ==
  ASSUME Calm, TypeOK, OwnerInv, KnownInv, StatusInv, AnalysisInv, NEW p \in Workers, ExtractionStep(p)
  PROVE  StatusInv' /\ AnalysisInv'
  <1> DEFINE Tail == {"read", "mark", "transition", "failing"}
  <1>1. PICK r \in Runs : r = worker[p].msg.id
    BY ExtractionFrame, MessageId
  <1>2. /\ Others(p) /\ worker[p].msg.task = "extract_case_facts" /\ run[r] # "NONE"
        /\ \A s \in Runs : s = r
    BY <1>1, ExtractionFrame, OnlyOne DEF WorkerStep, KnownInv, KnownOK, Calm, Runs
  <1>3. /\ \A pc : Goto(p, pc) => worker'[p].pc = pc /\ worker'[p].msg = worker[p].msg
        /\ Return(p) => worker'[p].pc = "idle"
    BY DEF Goto, Return, Idle, TypeOK
  <1>4. \A S : worker'[p].pc \notin S =>
          (Held("extract_case_facts", r, S)' => Held("extract_case_facts", r, S))
    BY <1>2, HeldNone
  <1>5. \A S : worker[p].pc \notin S =>
          (Held("extract_case_facts", r, S) => Held("extract_case_facts", r, S)')
    BY <1>2, HeldMove
  <1>6. \A S : worker[p].pc \in S => Held("extract_case_facts", r, S)
    BY <1>1, <1>2 DEF Held
  <1>7. ~RefuseRun(p)
    BY <1>2 DEF KnownInv, KnownOK, RefuseRun, At
  <1>8. CASE LeaveFinalizing(p)
    <2>1. /\ run[r] = "COMPLETED" /\ run' = run /\ worker[p].pc = "transition"
          /\ Unfinished(r)
      BY <1>1, <1>2, <1>6, <1>8 DEF LeaveFinalizing, At, OwnerInv, Owns, TailPCs, Unfinished
    <2>2. \A q \in Workers \ {p} : ~(worker[q].msg.task = "extract_case_facts"
                                     /\ worker[q].msg.id = r /\ worker[q].pc \in Tail)
      BY <1>1, <1>2, <2>1 DEF OwnerInv, Owns, TailPCs
    <2>3. \A t \in {"NEEDS_INFORMATION", "OPEN"} : CanTransition(case, t)
      BY <2>1 DEF StatusInv, CanTransition, AllowedTransitions
    <2>4. PICK t \in {"NEEDS_INFORMATION", "OPEN"} : Goto(p, "notify") /\ case' = TransitionCase(case, t)
      BY <1>8, <2>3 DEF LeaveFinalizing
    <2>5. ~Held("extract_case_facts", r, Tail)' /\ ~Held("extract_case_facts", r, {"read", "mark"})
      BY <1>2, <1>3, <2>1, <2>2, <2>4 DEF Held, Others
    <2>6. case'.analysis \in {"QUEUED", "PROCESSING"} => case'.analysis = case.analysis
      BY <2>4 DEF TransitionCase, SyncedAnalysis
    <2>7. ~Unfinished(r)' /\ ~UnderWay(r)
      BY <2>1, <2>5 DEF Unfinished, UnderWay
    <2> QED
      BY <1>2, <2>6, <2>7 DEF StatusInv, AnalysisInv
  <1>9. ASSUME ~LeaveFinalizing(p) PROVE StatusInv'
    <2>1. case'.status = case.status
      BY <1>7, <1>9 DEF ExtractionStep, BeginExtraction, ParkRun, StartRun, CollectEvidence,
         ApplyResponse, ReadOutcome, MarkAnalysis, Notify, FailExtraction, FailRun, CommitRun,
         rows, TypeOK, Case
    <2>2. CASE ParkRun(p) \/ StartRun(p) \/ FailRun(p) \/ ApplyResponse(p) \/ ReadOutcome(p)
               \/ MarkAnalysis(p) \/ FailExtraction(p)
      <3>1. worker[p].pc \in HoldingPCs \cup RunningPCs => run[r] \in {"PENDING", "FAILED", "RUNNING"}
        BY <1>1, <1>2 DEF OwnerInv, Owns, TypeOK, HoldingPCs, RunningPCs
      <3>2. worker[p].pc \in HoldingPCs \cup RunningPCs \cup Tail
        BY <2>2 DEF ParkRun, StartRun, ApplyResponse, FailRun, ReadOutcome, MarkAnalysis,
           FailExtraction, At, HoldingPCs, RunningPCs
      <3>3. Unfinished(r)
        BY <1>6, <3>1, <3>2 DEF Unfinished
      <3> QED
        BY <1>2, <2>1, <3>3, StatusKept
    <2>3. CASE BeginExtraction(p) \/ CollectEvidence(p) \/ Notify(p)
      <3>1. run' = run /\ worker'[p].pc \notin Tail
        BY <1>3, <2>3 DEF Calm, BeginExtraction, CollectEvidence, Notify, Raise, rows
      <3>2. Unfinished(r)' => Unfinished(r)
        BY <1>4, <3>1 DEF Unfinished
      <3> QED
        BY <1>2, <2>1, <3>2, StatusKept
    <2> QED
      BY <1>7, <1>9, <2>2, <2>3 DEF ExtractionStep
  <1>10. ASSUME ~LeaveFinalizing(p) PROVE AnalysisInv'
    <2>1. CASE ParkRun(p) \/ StartRun(p)
      <3>1. run'[r] \in {"PENDING", "RUNNING"}
        BY <1>1, <2>1 DEF ParkRun, StartRun, CommitRun, TypeOK
      <3> QED
        BY <3>1 DEF AnalysisInv, UnderWay
    <2>2. CASE FailRun(p) \/ MarkAnalysis(p)
      BY <2>2 DEF FailRun, MarkAnalysis, CommitRun, AnalysisInv, TypeOK, Case
    <2>3. CASE ApplyResponse(p) \/ ReadOutcome(p)
      <3>1. worker'[p].pc \in {"read", "mark"} /\ worker'[p].msg = worker[p].msg
        <4>1. ReadOutcome(p) => worker'[p].pc = "mark" /\ worker'[p].msg = worker[p].msg
          BY DEF ReadOutcome, TypeOK
        <4> QED
          BY <1>3, <2>3, <4>1 DEF ApplyResponse
      <3>2. Held("extract_case_facts", r, {"read", "mark"})'
        BY <1>1, <1>2, <3>1, HeldAt
      <3> QED
        BY <3>2 DEF AnalysisInv, UnderWay
    <2>4. CASE BeginExtraction(p) \/ CollectEvidence(p) \/ Notify(p) \/ FailExtraction(p)
      <3>1. UNCHANGED <<case, run>> /\ worker[p].pc \notin {"read", "mark"}
        BY <2>4 DEF BeginExtraction, CollectEvidence, Notify, FailExtraction, At, rows
      <3>2. UnderWay(r) => UnderWay(r)'
        BY <1>5, <3>1 DEF UnderWay
      <3> QED
        BY <1>2, <3>1, <3>2 DEF AnalysisInv
    <2> QED
      BY <1>7, <1>10, <2>1, <2>2, <2>3, <2>4 DEF ExtractionStep
  <1> QED
    BY <1>8, <1>9, <1>10

LEMMA StatusNext ==
  ASSUME Calm, TypeOK, OwnerInv, KnownInv, StatusInv, AnalysisInv, [Next]_vars
  PROVE  StatusInv' /\ AnalysisInv'
  <1>1. CASE UNCHANGED vars
    BY <1>1, HeldSame DEF vars, StatusInv, AnalysisInv, Unfinished, UnderWay
  <1>2. \A p \in Workers : ~Crash(p)
    BY DEF Calm, Crash
  <1> QED
    BY <1>1, <1>2, StatusUser, StatusTasks, StatusExtraction DEF Next, WorkerStep

(* What would start the runs goes on doing so.                             *)
LEMMA RunKept ==
  ASSUME RunLive, \A r \in Runs : run'[r] = "PENDING" \/ Parks(r)' => run[r] = "PENDING" \/ Parks(r),
         \A r \in Runs : Coming(r) => Coming(r)'
  PROVE  RunLive'
BY DEF RunLive

LEMMA RunUser == ASSUME Calm, TypeOK, RunLive, UserStep PROVE RunLive'
  <1>1. worker' = worker
    BY DEF UserStep, ReceiveAttachment, ReceiveAgain, RecoverAudio, Analyze, AnswerLastQuestion,
       RecoverExtraction, BeginAnswer, EndAnswer, WaiveOpenIssues, Archive, Reopen, rows
  <1>2. queue' = queue \/ \E n : queue' = Put(queue, n)
    BY DEF UserStep, ReceiveAttachment, ReceiveAgain, RecoverAudio, Analyze, AnswerLastQuestion,
       StartExtraction, RecoverExtraction, BeginAnswer, EndAnswer, WaiveOpenIssues, Archive,
       Reopen, Publish
  <1>3. \A a \in Attachments : /\ fetchJob[a] \in Waiting => fetchJob'[a] \in Waiting
                               /\ contentJob[a] \in Waiting => contentJob'[a] \in Waiting
    BY DEF UserStep, ReceiveAttachment, ReceiveAgain, RecoverAudio, Analyze, AnswerLastQuestion,
       StartExtraction, RecoverExtraction, BeginAnswer, EndAnswer, WaiveOpenIssues, Archive,
       Reopen, rows, TypeOK, Waiting
  <1>4. \A r \in Runs : (Coming(r) => Coming(r)') /\ (Parks(r)' => Parks(r))
    BY <1>1, <1>2, <1>3, HeldSame, QueuedMore DEF Coming, Resuming, Parks, PipelinePending
  <1>5. ASSUME NEW r \in Runs, NEW c, StartExtraction(r, c) PROVE RunLive'
    <2>1. Coming(r)'
      BY <1>5, PublishLive, TasksOK DEF StartExtraction, Coming
    <2>2. \A s \in Runs : s = r
      BY DEF Calm, Runs
    <2> QED
      BY <2>1, <2>2 DEF RunLive
  <1>6. CASE run' = run
    BY <1>4, <1>6, RunKept
  <1> QED
    BY <1>5, <1>6 DEF UserStep, ReceiveAttachment, ReceiveAgain, RecoverAudio, Analyze,
       AnswerLastQuestion, RecoverExtraction, BeginAnswer, EndAnswer, WaiveOpenIssues, Archive,
       Reopen, rows

LEMMA RunTake ==
  ASSUME Calm, TypeOK, RunLive, NEW p \in Workers, NEW m \in Messages, Take(p, m) PROVE RunLive'
  <1>1. \A t, i : Queued(t, i) => Queued(t, i)' \/ Held(t, i, {"begin"})'
    BY TakeLive
  <1>2. \A t, i : \A S : "idle" \notin S => (Held(t, i, S) => Held(t, i, S)')
    BY TakeLive
  <1>3. \A r : Held("extract_case_facts", r, {"begin"})'
                 => Held("extract_case_facts", r, {"begin", "starting"})'
    BY DEF Held
  <1>4. PipelinePending' = PipelinePending /\ run' = run
    BY DEF Take, rows, PipelinePending
  <1>5. \A r \in Runs : Coming(r) => Coming(r)'
    BY <1>1, <1>2, <1>3, <1>4 DEF Coming, Resuming
  <1>6. \A r : Parks(r)' => Parks(r)
    BY ExtractHeld DEF Parks
  <1> QED
    BY <1>4, <1>5, <1>6, RunKept

(* Fetching an attachment leaves something of it to be done.               *)
LEMMA RunFetch ==
  ASSUME Calm, CalmFiles, RunLive, NEW p \in Workers, FetchStep(p) PROVE RunLive'
  <1>1. PICK a \in Attachments : a = worker[p].msg.id
    BY MessageId DEF CalmFiles, FetchStep, BeginFetch, StartFetch, StoreAttachment, EnqueueNextJob,
       RejectAttachment, FailFetch, At
  <1>2. TypeOK /\ Others(p) /\ worker[p].msg.task = "fetch_attachment"
    BY OnlyOne DEF CalmFiles, WorkerStep, FetchStep, BeginFetch, StartFetch, StoreAttachment,
       EnqueueNextJob, RejectAttachment, FailFetch, At
  <1>3. ~RejectAttachment(p) /\ ~FailFetch(p)
    BY DEF Calm, RejectAttachment, FailFetch, RaiseOnPublish
  <1>4. \A i, S : Held("content", i, S) => Held("content", i, S)'
    BY <1>2, HeldOther
  <1>5. \A t, i : Queued(t, i) => Queued(t, i)'
    <2>1. queue' = queue \/ \E n : queue' = Put(queue, n)
      BY <1>3 DEF FetchStep, BeginFetch, StartFetch, StoreAttachment, EnqueueNextJob, Publish
    <2> QED
      BY <1>2, <2>1, QueuedMore
  <1>6. PipelinePending => PipelinePending'
    <2>1. CASE BeginFetch(p)
      BY <1>1, <1>2, <2>1 DEF BeginFetch, StartFetch, PipelinePending, TypeOK, Waiting
    <2>2. CASE StoreAttachment(p)
      <3>1. contentJob[a] = "NONE"
        BY <1>1, <1>2, <2>2 DEF StoreAttachment, At, CalmFiles, SoleFetch, PlaceInv, PlaceOK,
           Readable
      <3>2. contentJob'[a] = "PENDING"
        BY <1>1, <1>2, <2>2, <3>1 DEF StoreAttachment, TypeOK
      <3> QED
        BY <3>2 DEF PipelinePending, Waiting
    <2>3. CASE EnqueueNextJob(p)
      BY <2>3 DEF EnqueueNextJob, rows, PipelinePending
    <2> QED
      BY <1>3, <2>1, <2>2, <2>3 DEF FetchStep
  <1>7. \A r \in Runs : Coming(r) => Coming(r)'
    BY <1>2, <1>4, <1>5, <1>6, ExtractHeld DEF Coming, Resuming
  <1>8. run' = run /\ \A r : Parks(r)' => Parks(r)
    BY <1>2, ExtractHeld DEF Parks
  <1> QED
    BY <1>7, <1>8, RunKept

(* A run that waits or is about to was created and has not succeeded, and  *)
(* the end of a job finds it.                                              *)
LEMMA ParkedStatus ==
  ASSUME Calm, TypeOK, OwnerInv, KnownInv, StatusInv, NEW r \in Runs, run[r] = "PENDING" \/ Parks(r)
  PROVE  /\ run[r] \in {"PENDING", "FAILED"} /\ case.status = "FINALIZING"
         /\ run[r] = "FAILED" => Documents = {}
         /\ \A statuses : run[r] \in statuses => LatestRun(r, statuses)
  <1>1. run[r] \in {"PENDING", "FAILED"}
    BY DEF Parks, Held, KnownInv, KnownOK, OwnerInv, Owns, HoldingPCs, TypeOK
  <1>2. run[r] = "FAILED" => Documents = {}
    BY DEF KnownInv, Calm
  <1>3. \A s \in Runs : s <= r
    BY DEF Calm, Runs
  <1> QED
    BY <1>1, <1>2, <1>3 DEF StatusInv, Unfinished, LatestRun

(* The end of a content task publishes the run that waited for it, unless  *)
(* another job is left to do so.                                           *)
LEMMA ResumeLive ==
  ASSUME Calm, TypeOK, OwnerInv, KnownInv, StatusInv, NEW p \in Workers, ResumeExtraction(p),
         worker[p].msg.id \in Attachments, NEW r \in Runs, run[r] = "PENDING" \/ Parks(r)
  PROVE  Queued("extract_case_facts", r)' \/ PipelinePending'
  <1> DEFINE a == worker[p].msg.id
  <1>1. PipelinePending' = PipelinePending
    BY DEF ResumeExtraction, rows, PipelinePending
  <1>2. ASSUME Resumable(a, r) PROVE Queued("extract_case_facts", r)'
    <2>1. PICK s \in Runs : Publish("extract_case_facts", s)
      BY <1>2 DEF ResumeExtraction
    <2>2. s = r
      BY DEF Calm, Runs
    <2> QED
      BY <2>1, <2>2, PublishLive, TasksOK
  <1>3. CASE a \in Voice
    BY <1>2, <1>3, ParkedStatus DEF Resumable
  <1>4. CASE a \notin Voice
    <2>1. run[r] = "PENDING"
      BY <1>4, ParkedStatus DEF Attachments
    <2> QED
      BY <1>1, <1>2, <1>4, <2>1, ParkedStatus DEF Resumable
  <1> QED
    BY <1>3, <1>4

LEMMA RunContent ==
  ASSUME Calm, CalmFiles, OwnerInv, KnownInv, StatusInv, RunLive, NEW p \in Workers, ContentStep(p)
  PROVE  RunLive'
  <1>1. PICK a \in Attachments : a = worker[p].msg.id
    BY MessageId DEF CalmFiles, ContentStep, BeginContent, RefuseTranscription,
       StoreContentEvidence, CompleteContent, SyncTranscript, ResumeExtraction, FailContent, At
  <1>2. TypeOK /\ Others(p) /\ worker[p].msg.task = "content"
    BY OnlyOne DEF CalmFiles, WorkerStep, ContentStep, BeginContent, RefuseTranscription,
       StoreContentEvidence, CompleteContent, SyncTranscript, ResumeExtraction, FailContent, At
  <1>3. \A pc : Goto(p, pc) => worker'[p].pc = pc /\ worker'[p].msg = worker[p].msg
    BY <1>2 DEF Goto, TypeOK
  <1>4. run' = run /\ \A r : Parks(r)' => Parks(r)
    BY <1>2, ExtractHeld DEF Parks
  <1>5. \A t, i : Queued(t, i) => Queued(t, i)'
    <2>1. queue' = queue \/ \E n : queue' = Put(queue, n)
      BY ContentCalm, ContentBegins
      DEF StoreContentEvidence, CompleteContent, SyncTranscript, ResumeExtraction, Publish
    <2> QED
      BY <1>2, <2>1, QueuedMore
  <1>6. \A r, S : "idle" \notin S => (Held("extract_case_facts", r, S) => Held("extract_case_facts", r, S)')
    BY <1>2, ExtractHeld
  <1>7. ASSUME PipelinePending \/ Resuming => PipelinePending' \/ Resuming' PROVE RunLive'
    <2>1. \A r \in Runs : Coming(r) => Coming(r)'
      BY <1>5, <1>6, <1>7 DEF Coming
    <2> QED
      BY <1>4, <2>1, RunKept
  <1>8. ASSUME worker[p].pc \notin {"sync", "resume"} PROVE Resuming => Resuming'
    BY <1>2, <1>8, HeldMove DEF Resuming
  <1>9. ASSUME worker'[p].pc \in {"sync", "resume"}, worker'[p].msg = worker[p].msg PROVE Resuming'
    BY <1>1, <1>2, <1>9, HeldAt DEF Resuming
  <1>10. CASE BeginContent(p)
    <2>1. \/ contentJob' = contentJob
          \/ contentJob' = [contentJob EXCEPT ![a] = "RUNNING"]
      BY <1>1, <1>10, ContentBegins
    <2>2. PipelinePending => PipelinePending'
      BY <1>1, <1>2, <1>10, <2>1 DEF BeginContent, PipelinePending, Waiting, TypeOK
    <2> QED
      BY <1>7, <1>8, <1>10, <2>2 DEF BeginContent, At
  <1>11. CASE StoreContentEvidence(p)
    BY <1>7, <1>8, <1>11 DEF StoreContentEvidence, At, PipelinePending
  <1>12. CASE CompleteContent(p) \/ SyncTranscript(p)
    BY <1>3, <1>7, <1>9, <1>12 DEF CompleteContent, SyncTranscript
  <1>13. CASE ResumeExtraction(p)
    <2>1. \A r \in Runs : run'[r] = "PENDING" \/ Parks(r)' => Coming(r)'
      BY <1>1, <1>2, <1>4, <1>13, ResumeLive DEF Coming
    <2> QED
      BY <2>1 DEF RunLive
  <1> QED
    BY <1>10, <1>11, <1>12, <1>13, ContentCalm

LEMMA RunExtraction ==
  ASSUME Calm, TypeOK, OwnerInv, KnownInv, RunLive, NEW p \in Workers, ExtractionStep(p)
  PROVE  RunLive'
  <1>1. PICK r \in Runs : r = worker[p].msg.id
    BY ExtractionFrame, MessageId
  <1>2. /\ Others(p) /\ worker[p].msg.task = "extract_case_facts" /\ run[r] # "NONE"
        /\ \A s \in Runs : s = r
    BY <1>1, ExtractionFrame, OnlyOne DEF WorkerStep, KnownInv, KnownOK, Calm, Runs
  <1>3. /\ \A pc : Goto(p, pc) => worker'[p].pc = pc /\ worker'[p].msg = worker[p].msg
        /\ Return(p) => worker'[p].pc = "idle"
    BY DEF Goto, Return, Idle, TypeOK
  <1>4. PipelinePending' = PipelinePending /\ (Resuming => Resuming')
    BY <1>2, ExtractionFrame, HeldOther DEF PipelinePending, Resuming
  <1>5. \A t, i : Queued(t, i) => Queued(t, i)'
    BY ExtractionFrame, QueuedMore
  <1>6. \A S : worker[p].pc \notin S =>
          (Held("extract_case_facts", r, S) => Held("extract_case_facts", r, S)')
    BY <1>2, HeldMove
  <1>7. worker[p].pc \notin {"begin", "starting"} => (Coming(r) => Coming(r)')
    BY <1>4, <1>5, <1>6 DEF Coming
  <1>8. worker'[p].pc # "parking" => (Parks(r)' => Parks(r))
    BY <1>2, HeldNone DEF Parks
  <1>9. CASE BeginExtraction(p)
    <2>1. run' = run /\ ~Parks(r)
      BY <1>1, <1>9 DEF BeginExtraction, rows, RunFree, HoldsRun, Parks, Held
    <2>2. CASE Return(p) /\ run[r] \in {"COMPLETED", "RUNNING"}
      BY <1>2, <1>3, <1>8, <2>1, <2>2 DEF RunLive
    <2>3. CASE PipelinePending
      BY <1>2, <1>4, <2>3 DEF RunLive, Coming
    <2>4. CASE Goto(p, "starting")
      <3>1. Held("extract_case_facts", r, {"begin", "starting"})'
        BY <1>1, <1>2, <1>3, <2>4, HeldAt
      <3> QED
        BY <1>2, <3>1 DEF RunLive, Coming
    <2> QED
      BY <1>1, <1>9, <2>2, <2>3, <2>4 DEF BeginExtraction, Calm
  <1>10. CASE ParkRun(p)
    <2>1. Parks(r) /\ worker[p].pc = "parking"
      BY <1>1, <1>10 DEF ParkRun, At, Parks, Held
    <2> QED
      BY <1>2, <1>7, <2>1 DEF RunLive
  <1>11. CASE StartRun(p)
    <2>1. run'[r] = "RUNNING" /\ worker'[p].pc = "collect"
      BY <1>1, <1>3, <1>11 DEF StartRun, CommitRun, TypeOK
    <2>2. ~Parks(r)
      BY <1>1, <1>11 DEF StartRun, At, Parks, Held, OwnerInv, Owns, HoldingPCs
    <2> QED
      BY <1>2, <1>8, <2>1, <2>2 DEF RunLive
  <1>12. CASE /\ ~BeginExtraction(p) /\ ~ParkRun(p) /\ ~StartRun(p)
    <2>1. ~RefuseRun(p)
      BY <1>2 DEF KnownInv, KnownOK, RefuseRun, At
    <2>2. worker[p].pc \notin {"begin", "starting"}
      BY <1>12, <2>1 DEF ExtractionStep, CollectEvidence, ApplyResponse, ReadOutcome, MarkAnalysis,
         LeaveFinalizing, Notify, FailExtraction, FailRun, At
    <2>3. worker'[p].pc # "parking"
      <3>1. ReadOutcome(p) => worker'[p].pc = "mark"
        BY DEF ReadOutcome, TypeOK
      <3> QED
        BY <1>3, <1>12, <2>1, <3>1 DEF ExtractionStep, CollectEvidence, ApplyResponse,
           MarkAnalysis, LeaveFinalizing, Notify, FailExtraction, FailRun, Raise
    <2>4. run'[r] = "PENDING" => run[r] = "PENDING"
      BY <1>1, <1>12, <2>1 DEF ExtractionStep, CollectEvidence, ApplyResponse, ReadOutcome,
         MarkAnalysis, LeaveFinalizing, Notify, FailExtraction, FailRun, CommitRun, rows, TypeOK
    <2> QED
      BY <1>2, <1>7, <1>8, <2>2, <2>3, <2>4 DEF RunLive
  <1> QED
    BY <1>9, <1>10, <1>11, <1>12

LEMMA RunNext ==
  ASSUME Calm, CalmFiles, OwnerInv, KnownInv, StatusInv, RunLive, [Next]_vars PROVE RunLive'
  <1>1. CASE UNCHANGED vars
    <2>1. \A t, i : Queued(t, i)' = Queued(t, i)
      BY <1>1 DEF vars, Queued
    <2> QED
      BY <1>1, <2>1, HeldSame DEF vars, RunLive, Coming, Resuming, Parks, PipelinePending
  <1>2. \A p \in Workers : ~Crash(p)
    BY DEF Calm, Crash
  <1> QED
    BY <1>1, <1>2, RunUser, RunTake, RunFetch, RunContent, RunExtraction
    DEF CalmFiles, Next, WorkerStep

LEMMA CalmInit == ASSUME Init PROVE CalmInv
  <1>1. CalmFiles
    BY FilesInit DEF FilesInv, CalmFiles
  <1>2. \A t, i, S : "idle" \notin S => ~Queued(t, i) /\ ~Held(t, i, S)
    BY DEF Init, Queued, Held, Idle
  <1>3. OwnerInv /\ RunningHasExecutor
    BY DEF Init, OwnerInv, Owns, Idle, NoMessage, RunningHasExecutor
  <1>4. JobsLive
    BY DEF Init, JobsLive, Waiting
  <1>5. RunLive /\ StatusInv
    BY <1>2 DEF Init, RunLive, StatusInv, Unfinished, Parks
  <1>6. KnownInv /\ AnalysisInv
    BY DEF Init, KnownInv, KnownOK, Idle, NoMessage, AnalysisInv, NewCase
  <1> QED
    BY <1>1, <1>3, <1>4, <1>5, <1>6 DEF CalmInv

LEMMA CalmNext == ASSUME Calm, CalmInv, [Next]_vars PROVE CalmInv'
  <1>1. /\ "broker" \notin Faults /\ "crash" \notin Faults
        /\ Faults \cap {"broker", "crash"} = {}
    BY DEF Calm
  <1>2. CalmFiles' /\ OwnerInv' /\ RunningHasExecutor'
    BY <1>1, FilesNext, SoleFetchNext, OwnerNext, ExecutorNext DEF CalmInv, CalmFiles, FilesInv
  <1>3. JobsLive' /\ RunLive' /\ KnownInv'
    BY <1>2, JobsNext, RunNext, KnownNext DEF CalmInv, CalmFiles
  <1>4. StatusInv' /\ AnalysisInv'
    BY StatusNext DEF CalmInv, CalmFiles
  <1> QED
    BY <1>2, <1>3, <1>4 DEF CalmInv

(* Where nothing is queued or executed, nothing is waited for.             *)
LEMMA CalmQuiescent == ASSUME CalmInv PROVE NotAbandoned
  <1> SUFFICES ASSUME Quiescent, case.analysis \in {"QUEUED", "PROCESSING"} PROVE FALSE
    BY DEF NotAbandoned
  <1>1. \A t, i, S : "idle" \notin S => ~Queued(t, i) /\ ~Held(t, i, S)
    BY DEF Quiescent, Queued, Held
  <1>2. PICK r \in Runs : run[r] \in {"PENDING", "RUNNING"}
    BY <1>1 DEF CalmInv, AnalysisInv, UnderWay
  <1>3. run[r] # "RUNNING"
    BY DEF CalmInv, RunningHasExecutor, Quiescent, Executes, RunningPCs, TailPCs
  <1>4. ~PipelinePending
    BY <1>1 DEF CalmInv, JobsLive, FetchLive, ContentLive, PipelinePending
  <1>5. ~Coming(r)
    BY <1>1, <1>4 DEF Coming, Resuming
  <1> QED
    BY <1>2, <1>3, <1>5 DEF CalmInv, RunLive

(* A case that is analysed once ends its analysis before its tasks do: a   *)
(* run parked behind jobs is resumed by the last of them, whichever way    *)
(* receptions, fetches, transcriptions, retries and recoveries interleave. *)
(* Each part of Calm excludes an execution that does abandon the case.     *)
THEOREM NotAbandonedCorrect ==
  ASSUME Calm
  PROVE  Spec => []NotAbandoned
  <1>1. CalmInv /\ [Next]_vars => CalmInv'
    BY CalmNext
  <1> QED
    BY <1>1, CalmInit, CalmQuiescent, PTL DEF Spec

----------------------------------------------------------------------------
(* The content that was read                                               *)

(* Unless two fetches of it ran at once, the content of an attachment is   *)
(* read by one task, which one fetch publishes, and while it is read its   *)
(* job is RUNNING.                                                         *)
Enqueueing(p, a) == At(p, "enqueue", "fetch_attachment") /\ worker[p].msg.id = a
Reading(p, a) ==
  (At(p, "process", "content") \/ At(p, "complete", "content")) /\ worker[p].msg.id = a
ContentInv ==
  \A a \in Attachments \ overlapped :
    /\ OneTask("content", a)
    /\ \A p \in Workers : Enqueueing(p, a) => Nowhere("content", a)
    /\ \A p, q \in Workers : Enqueueing(p, a) /\ Enqueueing(q, a) => p = q
    /\ \A p \in Workers : Reading(p, a) => contentJob[a] = "RUNNING"

(* Nothing of a content that is not there to read is queued or executed.   *)
LEMMA NothingToRead ==
  ASSUME TypeOK, PlaceInv, NEW a, ~Readable(a) PROVE Nowhere("content", a)
  <1>1. \A m \in Messages : IsTask(m, "content", a) => queue[m] = 0
    BY DEF PlaceInv, IsTask, TypeOK
  <1> QED
    BY <1>1 DEF PlaceInv, PlaceOK, Nowhere, NotQueued, NotHeld, IsTask, Readable

(* Only EnqueueNextJob starts a content task where nothing is recovered.   *)
LEMMA NoRecovery ==
  ASSUME TypeOK, MaxRecoveries = 0, NEW a PROVE ~RecoverAudio(a)
  BY DEF RecoverAudio, TypeOK

LEMMA OneContent ==
  ASSUME FilesInv, ContentInv, "broker" \notin Faults, MaxRecoveries = 0, [Next]_vars,
         NEW a \in Attachments \ overlapped
  PROVE  OneTask("content", a)'
  <1>1. TypeOK /\ OneTask("content", a) /\ "content" \in AttachmentTasks
    BY DEF FilesInv, ContentInv, AttachmentTasks
  <1>2. ASSUME NEW p \in Workers, EnqueueNextJob(p), worker[p].msg.id = a
        PROVE  OneTask("content", a)'
    <2>1. Nowhere("content", a) /\ Publish("content", a)
      BY <1>2 DEF ContentInv, EnqueueNextJob, Enqueueing
    <2>2. NotHeld("content", a)'
      <3>1. Others(p) /\ worker'[p].msg = NoMessage
        BY <1>1, <1>2, OnlyOne DEF WorkerStep, FetchStep, EnqueueNextJob, Return, Idle, TypeOK
      <3> QED
        BY <2>1, <3>1 DEF Others, Nowhere, NotHeld, IsTask, NoMessage
    <2> QED
      BY <1>1, <2>1, <2>2, TaskPublished
  <1>3. CASE ~Starts("content", a)
    BY <1>1, <1>3, TaskNext
  <1> QED
    BY <1>1, <1>2, <1>3, NoRecovery DEF Starts

(* A worker changes the job of the content it reads, or creates it.        *)
LEMMA JobKept ==
  ASSUME TypeOK, NEW p \in Workers, WorkerStep(p) \/ Crash(p), NEW b \in Attachments
  PROVE  \/ contentJob'[b] = contentJob[b] \/ contentJob[b] = "NONE"
         \/ IsTask(worker[p].msg, "content", b)
  <1>1. CASE StoreAttachment(p)
    BY <1>1 DEF StoreAttachment, TypeOK
  <1>2. CASE ContentStep(p)
    BY <1>2 DEF ContentStep, BeginContent, RefuseTranscription, StoreContentEvidence,
       CompleteContent, SyncTranscript, ResumeExtraction, FailContent, At, IsTask, rows, TypeOK
  <1>3. CASE ExtractionStep(p)
    BY <1>3, ExtractionFrame
  <1> QED
    BY <1>1, <1>2, <1>3 DEF WorkerStep, Crash, Take, rows, FetchStep, BeginFetch, StartFetch,
       EnqueueNextJob, RejectAttachment, FailFetch

(* Reading begins where the job becomes RUNNING.                           *)
LEMMA ReadingMoves ==
  ASSUME FilesInv, ContentInv, NEW p \in Workers, WorkerStep(p) \/ Crash(p),
         NEW a \in Attachments \ overlapped, Reading(p, a)'
  PROVE  contentJob'[a] = "RUNNING"
  <1>1. /\ \A pc : Goto(p, pc) => worker'[p].pc = pc /\ worker'[p].msg = worker[p].msg
        /\ Return(p) => worker'[p].pc = "idle"
        /\ \A m \in Messages : Take(p, m) => worker'[p].pc = "begin"
        /\ ReadOutcome(p) => worker'[p].pc = "mark"
    BY GoesTo DEF FilesInv
  <1>2. ~FetchStep(p) /\ ~ExtractionStep(p) /\ ~Crash(p) /\ \A m \in Messages : ~Take(p, m)
    BY <1>1 DEF FetchStep, BeginFetch, StartFetch, StoreAttachment, EnqueueNextJob,
       RejectAttachment, FailFetch, ExtractionStep, BeginExtraction, ParkRun, RefuseRun, StartRun,
       CollectEvidence, ApplyResponse, MarkAnalysis, LeaveFinalizing, Notify, FailExtraction,
       FailRun, Crash, Raise, RaiseOnPublish, Reading, At
  <1>3. BeginContent(p) \/ StoreContentEvidence(p)
    BY <1>1, <1>2 DEF WorkerStep, ContentStep, RefuseTranscription, CompleteContent,
       SyncTranscript, ResumeExtraction, FailContent, Raise, RaiseOnPublish, Reading, At
  <1>4. CASE BeginContent(p)
    <2>1. contentJob' = [contentJob EXCEPT ![worker[p].msg.id] = "RUNNING"] /\ Goto(p, "process")
      BY <1>1, <1>4 DEF BeginContent, Raise, Reading, At
    <2>2. worker[p].msg.id = a
      BY <1>1, <2>1 DEF Reading
    <2> QED
      BY <2>1, <2>2 DEF FilesInv, TypeOK
  <1>5. CASE StoreContentEvidence(p)
    BY <1>1, <1>5 DEF StoreContentEvidence, ContentInv, Reading, At
  <1> QED
    BY <1>3, <1>4, <1>5

(* A fetch gets to where it publishes the content task by creating its job,*)
(* so that no other is there.                                              *)
LEMMA EnqueueMoves ==
  ASSUME FilesInv, NEW p \in Workers, WorkerStep(p) \/ Crash(p),
         NEW a \in Attachments \ overlapped, Enqueueing(p, a)'
  PROVE  ~Readable(a) /\ \A q \in Workers : ~Enqueueing(q, a)
  <1>1. /\ \A pc : Goto(p, pc) => worker'[p].pc = pc /\ worker'[p].msg = worker[p].msg
        /\ Return(p) => worker'[p].pc = "idle"
        /\ \A m \in Messages : Take(p, m) => worker'[p].pc = "begin"
        /\ ReadOutcome(p) => worker'[p].pc = "mark"
    BY GoesTo DEF FilesInv
  <1>2. StoreAttachment(p)
    BY <1>1 DEF WorkerStep, FetchStep, BeginFetch, StartFetch, EnqueueNextJob, RejectAttachment,
       FailFetch, ContentStep, BeginContent, RefuseTranscription, StoreContentEvidence,
       CompleteContent, SyncTranscript, ResumeExtraction, FailContent, ExtractionStep,
       BeginExtraction, ParkRun, RefuseRun, StartRun, CollectEvidence, ApplyResponse, MarkAnalysis,
       LeaveFinalizing, Notify, FailExtraction, FailRun, Crash, Raise, RaiseOnPublish,
       Enqueueing, At
  <1>3. Goto(p, "enqueue") /\ worker[p].msg.id = a
    BY <1>1, <1>2 DEF StoreAttachment, Enqueueing, At
  <1>4. ~Readable(a)
    BY <1>2, <1>3 DEF StoreAttachment, At, FilesInv, PlaceInv, PlaceOK
  <1> QED
    BY <1>4 DEF FilesInv, PlaceInv, PlaceOK, Enqueueing, At

LEMMA ContentNext ==
  ASSUME FilesInv, ContentInv, "broker" \notin Faults, MaxRecoveries = 0, [Next]_vars
  PROVE  ContentInv'
  <1> SUFFICES ASSUME NEW a \in Attachments \ overlapped
               PROVE  /\ OneTask("content", a)'
                      /\ \A p \in Workers : Enqueueing(p, a)' => Nowhere("content", a)'
                      /\ \A p, q \in Workers : Enqueueing(p, a)' /\ Enqueueing(q, a)' => p = q
                      /\ \A p \in Workers : Reading(p, a)' => contentJob'[a] = "RUNNING"
    BY FetchNext DEF FilesInv, ContentInv
  <1>1. OneTask("content", a)'
    BY OneContent
  <1>2. TypeOK /\ OneTask("content", a)
    BY DEF FilesInv, ContentInv
  <1>3. ASSUME NEW q \in Workers, worker'[q] # worker[q] PROVE WorkerStep(q) \/ Crash(q)
    BY <1>2, <1>3, OnlyOne DEF Others, Next, vars, UserStep, ReceiveAttachment, ReceiveAgain,
       RecoverAudio, Analyze, AnswerLastQuestion, RecoverExtraction, BeginAnswer, EndAnswer,
       WaiveOpenIssues, Archive, Reopen, rows
  <1>4. \A q \in Workers : worker'[q] = worker[q] =>
          (Enqueueing(q, a)' => Enqueueing(q, a)) /\ (Reading(q, a)' => Reading(q, a))
    BY DEF Enqueueing, Reading, At
  <1>5. ASSUME NEW p \in Workers, Enqueueing(p, a)' PROVE Nowhere("content", a)'
    <2>1. Nowhere("content", a)
      <3>1. CASE worker'[p] = worker[p]
        BY <1>4, <1>5, <3>1 DEF ContentInv
      <3>2. CASE worker'[p] # worker[p]
        BY <1>2, <1>3, <1>5, <3>2, EnqueueMoves, NothingToRead DEF FilesInv
      <3> QED
        BY <3>1, <3>2
    <2>2. ASSUME NEW q \in Workers, EnqueueNextJob(q), worker[q].msg.id = a PROVE FALSE
      <3>1. Enqueueing(q, a) /\ worker'[q].pc = "idle" /\ Others(q)
        BY <1>2, <2>2, OnlyOne DEF EnqueueNextJob, Return, Idle, TypeOK, WorkerStep, FetchStep,
           Enqueueing
      <3>2. p # q
        BY <1>5, <3>1 DEF Enqueueing, At
      <3>3. Enqueueing(p, a)
        BY <1>4, <1>5, <3>1, <3>2 DEF Others
      <3> QED
        BY <3>1, <3>2, <3>3 DEF ContentInv
    <2>3. ~Starts("content", a)
      BY <1>2, <2>2, NoRecovery DEF Starts
    <2> QED
      BY <1>2, <2>1, <2>3, TaskNext DEF AttachmentTasks
  <1>6. ASSUME NEW p \in Workers, NEW q \in Workers, Enqueueing(p, a)', Enqueueing(q, a)', p # q
        PROVE  FALSE
    <2>1. CASE worker'[p] = worker[p] /\ worker'[q] = worker[q]
      BY <1>4, <1>6, <2>1 DEF ContentInv
    <2>2. worker'[p] = worker[p] \/ worker'[q] = worker[q]
      BY <1>2, <1>3, <1>6, OnlyOne DEF Others
    <2>3. CASE worker'[p] # worker[p]
      BY <1>3, <1>4, <1>6, <2>2, <2>3, EnqueueMoves
    <2>4. CASE worker'[q] # worker[q]
      BY <1>3, <1>4, <1>6, <2>2, <2>4, EnqueueMoves
    <2> QED
      BY <2>1, <2>3, <2>4
  <1>7. ASSUME NEW q \in Workers, Reading(q, a)' PROVE contentJob'[a] = "RUNNING"
    <2>1. CASE WorkerStep(q) \/ Crash(q)
      BY <1>7, <2>1, ReadingMoves
    <2>2. CASE ~(WorkerStep(q) \/ Crash(q))
      <3>1. /\ contentJob[a] = "RUNNING" /\ IsTask(worker[q].msg, "content", a)
        BY <1>3, <1>4, <1>7, <2>2 DEF ContentInv, Reading, At, IsTask
      <3>2. CASE \E p \in Workers \ {q} : WorkerStep(p) \/ Crash(p)
        BY <1>2, <3>1, <3>2, JobKept DEF OneTask
      <3>3. CASE UserStep \/ UNCHANGED vars
        BY <1>2, <3>1, <3>3, NoRecovery DEF UserStep, ReceiveAttachment, ReceiveAgain, Analyze,
           AnswerLastQuestion, RecoverExtraction, BeginAnswer, EndAnswer, WaiveOpenIssues,
           Archive, Reopen, rows, vars
      <3> QED
        BY <2>2, <3>2, <3>3 DEF Next
    <2> QED
      BY <2>1, <2>2
  <1> QED
    BY <1>1, <1>5, <1>6, <1>7

(* A content job that succeeded is not executed or failed again, however   *)
(* often its task or its fetch is retried, redelivered or published again, *)
(* unless two fetches of it ran at once: the broker takes every message,   *)
(* and recover_stuck_processing, which may publish a second content task   *)
(* beside the retry of the first, is not run.                              *)
THEOREM SucceededIsFinalCorrect ==
  ASSUME "broker" \notin Faults, MaxRecoveries = 0
  PROVE  Spec => SucceededIsFinal
  <1>1. Init => ContentInv
    BY DEF Init, ContentInv, OneTask, NotQueued, NotHeld, IsTask, Idle, NoMessage, Enqueueing,
       Reading, At
  <1>2. FilesInv /\ ContentInv /\ [Next]_vars =>
          [\A a \in Attachments \ overlapped :
             contentJob[a] = "SUCCEEDED" => contentJob'[a] = "SUCCEEDED"]_vars
    <2> SUFFICES ASSUME FilesInv, ContentInv, [Next]_vars, NEW a \in Attachments \ overlapped,
                        contentJob[a] = "SUCCEEDED"
                 PROVE  contentJob'[a] = "SUCCEEDED"
      OBVIOUS
    <2>1. CASE UserStep \/ UNCHANGED vars
      BY <2>1 DEF UserStep, ReceiveAttachment, ReceiveAgain, RecoverAudio, Analyze,
         AnswerLastQuestion, RecoverExtraction, BeginAnswer, EndAnswer, WaiveOpenIssues, Archive,
         Reopen, rows, vars, FilesInv, TypeOK
    <2>2. ASSUME NEW p \in Workers, WorkerStep(p) \/ Crash(p) PROVE contentJob'[a] = "SUCCEEDED"
      <3>1. TypeOK
        BY DEF FilesInv
      <3>2. CASE worker[p].msg.id = a /\ ContentStep(p)
        <4>1. ~FailContent(p)
          BY <3>2 DEF FailContent, RaiseOnPublish, ContentInv, Reading
        <4> QED
          BY <3>1, <3>2, <4>1 DEF ContentStep, BeginContent, RefuseTranscription,
             StoreContentEvidence, CompleteContent, SyncTranscript, ResumeExtraction, TypeOK, rows
      <3>3. CASE ~(worker[p].msg.id = a /\ ContentStep(p))
        <4>1. CASE ContentStep(p)
          BY <2>2, <3>1, <3>3, <4>1, JobKept DEF IsTask
        <4>2. CASE ExtractionStep(p)
          BY <3>1, <4>2, ExtractionFrame
        <4> QED
          BY <2>2, <3>1, <4>1, <4>2 DEF WorkerStep, Crash, Take, rows, FetchStep, BeginFetch,
             StartFetch, StoreAttachment, EnqueueNextJob, RejectAttachment, FailFetch, TypeOK
      <3> QED
        BY <3>2, <3>3
    <2> QED
      BY <2>1, <2>2 DEF Next
  <1> QED
    BY <1>1, <1>2, FilesInit, FilesNext, ContentNext, PTL DEF Spec, SucceededIsFinal
=============================================================================
