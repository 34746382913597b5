---------------------------- MODULE PaymentsProofs ----------------------------
(***************************************************************************)
(* What holds of Payments for any number of attempts, plans and queries,   *)
(* and that it implements BillingLedger.                                   *)
(***************************************************************************)
EXTENDS Payments, TLAPS

----------------------------------------------------------------------------
(* The inductive invariant                                                 *)

(* An attempt whose invoice is being sent has not moved on, so that saving *)
(* the invoice overwrites nothing.                                         *)
SendingInv == \A a \in requests : attempt[a].status = "CREATED"

(* Queries and tasks follow one another.                                   *)
OrderInv ==
  /\ \A q \in Queries : query[q].state # "none" => query[q].attempt \in Attempts
  /\ \A m \in answers : query[m.query].state = "asked"
  /\ \A q \in Queries : task[q].stage # "none" => query[q].state = "charged"

(* A query that has gone through is the one its attempt names, until the   *)
(* attempt is rejected or paid.                                            *)
ApprovedInv ==
  \A q \in Queries : GoneThrough(q) =>
    LET row == attempt[query[q].attempt] IN
    /\ row.status \in {"PRECHECKOUT_APPROVED", "REJECTED", "PAID"}
    /\ row.status = "PRECHECKOUT_APPROVED" => row.query = q

(* A paid attempt names the charge of one of its own queries.              *)
PaidInv ==
  \A a \in Attempts : attempt[a].status = "PAID" =>
    /\ attempt[a].charge \in Queries
    /\ query[attempt[a].charge].state = "charged"
    /\ query[attempt[a].charge].attempt = a

(* The subscription covers a period after every payment, and expires only  *)
(* at its end.                                                             *)
CoverInv ==
  \A a \in Attempts : attempt[a].status = "PAID" =>
    /\ attempt[a].paidAt <= now
    /\ subscription.status \in {"ACTIVE", "EXPIRED"}
    /\ subscription.end >= attempt[a].paidAt + Period
    /\ subscription.status = "EXPIRED" => subscription.end <= now

IInv == TypeOK /\ SendingInv /\ OrderInv /\ ApprovedInv /\ ChargedOnce /\ PaidInv /\ CoverInv

----------------------------------------------------------------------------
(* Types                                                                   *)

(* The operators that build rows build rows.                               *)
LEMMA RowsOK ==
  /\ NoAttempt \in Attempt /\ Unasked \in Query /\ NoTask \in Task
  /\ \A plan \in Plans : [NoAttempt EXCEPT !.status = "CREATED", !.plan = plan] \in Attempt
  /\ \A row \in Attempt : /\ [row EXCEPT !.status = "INVOICE_SENT"] \in Attempt
                            /\ [row EXCEPT !.status = "FAILED"] \in Attempt
  /\ \A row \in Attempt, q \in Queries, t \in 0 .. MaxTime :
       /\ [row EXCEPT !.status = "REJECTED", !.query = q] \in Attempt
       /\ [row EXCEPT !.status = "PRECHECKOUT_APPROVED", !.query = q] \in Attempt
       /\ [row EXCEPT !.status = "PAID", !.charge = q, !.paidAt = t] \in Attempt
  /\ \A t \in Task : Retried(t) \in Task
  <1> USE DEF Attempt, AttemptStatus, QueryIds, SoldPlans
  <1>1. NoAttempt \in Attempt
    BY ConstantsAssumption DEF NoAttempt
  <1>2. Unasked \in Query /\ NoTask \in Task
    BY ConstantsAssumption DEF Unasked, Query, NoTask, Task
  <1>3. \A plan \in Plans : [NoAttempt EXCEPT !.status = "CREATED", !.plan = plan] \in Attempt
    BY <1>1
  <1>4. ASSUME NEW row \in Attempt
        PROVE  /\ [row EXCEPT !.status = "INVOICE_SENT"] \in Attempt
               /\ [row EXCEPT !.status = "FAILED"] \in Attempt
    OBVIOUS
  <1>5. ASSUME NEW row \in Attempt, NEW q \in Queries, NEW t \in 0 .. MaxTime
        PROVE  /\ [row EXCEPT !.status = "REJECTED", !.query = q] \in Attempt
               /\ [row EXCEPT !.status = "PRECHECKOUT_APPROVED", !.query = q] \in Attempt
               /\ [row EXCEPT !.status = "PAID", !.charge = q, !.paidAt = t] \in Attempt
    OBVIOUS
  <1>6. \A t \in Task : Retried(t) \in Task
    BY ConstantsAssumption DEF Retried, Task
  <1> QED
    BY <1>1, <1>2, <1>3, <1>4, <1>5, <1>6

(* So does activation, and it never ends before a period from now.         *)
LEMMA ActivatedOK ==
  ASSUME NEW s \in Subscription, NEW plan \in SoldPlans, now \in Nat
  PROVE  /\ Activated(s, plan) \in Subscription
         /\ Activated(s, plan).status = "ACTIVE"
         /\ Activated(s, plan).end >= now + Period
         /\ Activated(s, plan).end
              <= (IF Current(s) /\ s.end > now THEN s.end ELSE now) + Period
  <1>1. s.end \in Nat /\ Period \in Nat
    BY ConstantsAssumption DEF Subscription
  <1>2. /\ Activated(s, plan).status = "ACTIVE"
        /\ Activated(s, plan).plan = plan
        /\ Activated(s, plan).end
             = Period + IF s.plan = plan /\ Current(s) /\ s.end > now THEN s.end ELSE now
    BY DEF Activated
  <1>3. Activated(s, plan) \in Subscription
    BY <1>1 DEF Activated, Subscription
  <1> QED
    BY <1>1, <1>2, <1>3

(* Saving a row changes that row only.                                     *)
LEMMA SaveOK ==
  ASSUME attempt \in [Attempts -> Attempt], NEW a \in Attempts, NEW row \in Attempt,
         Save(a, row)
  PROVE  /\ attempt' \in [Attempts -> Attempt]
         /\ attempt'[a] = row
         /\ \A b \in Attempts \ {a} : attempt'[b] = attempt[b]
  BY DEF Save

LEMMA TypeNext == ASSUME TypeOK, OrderInv, [Next]_vars PROVE TypeOK'
  <1> USE DEF TypeOK
  <1>1. CASE Tick
    BY <1>1, ConstantsAssumption DEF Tick, invoices, wallet
  <1>2. CASE ChangeSale
    BY <1>2 DEF ChangeSale, invoices, wallet
  <1>3. CASE StartTrial
    <2>1. now + Period \in Nat
      BY ConstantsAssumption
    <2> QED
      BY <1>3, <2>1 DEF StartTrial, Subscription, SoldPlans, invoices, wallet
  <1>4. CASE Refresh
    BY <1>4 DEF Refresh, Subscription, invoices, wallet
  <1>5. ASSUME NEW a \in Attempts, NEW plan \in Plans, CreateAttempt(a, plan) PROVE TypeOK'
    <2>1. attempt' \in [Attempts -> Attempt]
      BY <1>5, RowsOK, SaveOK DEF CreateAttempt
    <2> QED
      BY <1>5, <2>1 DEF CreateAttempt, wallet
  <1>6. ASSUME NEW a \in Attempts, ShowInvoice(a) PROVE TypeOK'
    BY <1>6 DEF ShowInvoice, wallet
  <1>7. ASSUME NEW a \in Attempts, SaveInvoice(a) PROVE TypeOK'
    <2>1. attempt' \in [Attempts -> Attempt]
      BY <1>7, RowsOK, SaveOK DEF SaveInvoice
    <2> QED
      BY <1>7, <2>1 DEF SaveInvoice, wallet
  <1>8. ASSUME NEW a \in Attempts, FailInvoice(a) PROVE TypeOK'
    <2>1. attempt' \in [Attempts -> Attempt]
      BY <1>8, RowsOK, SaveOK DEF FailInvoice
    <2> QED
      BY <1>8, <2>1 DEF FailInvoice, wallet
  <1>9. ASSUME NEW q \in Queries, NEW a \in Attempts, NEW payer \in {"owner", "other"},
               Ask(q, a, payer)
        PROVE  TypeOK'
    BY <1>9 DEF Ask, invoices, Query
  <1>10. ASSUME NEW q \in Queries, Precheckout(q) PROVE TypeOK'
    <2>1. query[q].attempt \in Attempts
      BY <1>10 DEF Precheckout, OrderInv
    <2>2. \A ok \in BOOLEAN : Reply(q, ok) => answers' \subseteq Answer
      BY DEF Reply, Answer
    <2>3. attempt' \in [Attempts -> Attempt]
      BY <1>10, <2>1, RowsOK, SaveOK DEF Precheckout
    <2>4. answers' \subseteq Answer
      BY <1>10, <2>2 DEF Precheckout
    <2> QED
      BY <1>10, <2>3, <2>4 DEF Precheckout, invoices
  <1>11. ASSUME NEW m \in Answer, TakeAnswer(m) PROVE TypeOK'
    <2>1. m.query \in Queries
      BY DEF Answer
    <2>2. query' \in [Queries -> Query]
      BY <1>11, <2>1 DEF TakeAnswer, Query
    <2> QED
      BY <1>11, <2>2 DEF TakeAnswer, invoices
  <1>12. ASSUME NEW q \in Queries, Charge(q) PROVE TypeOK'
    BY <1>12 DEF Charge, invoices, Query
  <1>13. ASSUME NEW q \in Queries, ReceivePayment(q) PROVE TypeOK'
    BY <1>13 DEF ReceivePayment, Stage, Task, invoices, wallet
  <1>14. ASSUME NEW q \in Queries, ApplyPayment(q) PROVE TypeOK'
    <2>1. query[q].attempt \in Attempts
      BY <1>14 DEF ApplyPayment, OrderInv
    <2>2. attempt' \in [Attempts -> Attempt]
      BY <1>14, <2>1, RowsOK, SaveOK DEF ApplyPayment
    <2>3. attempt[query[q].attempt].plan \in SoldPlans /\ now \in Nat
      BY <2>1 DEF Attempt
    <2>4. subscription' \in Subscription
      BY <1>14, <2>3, ActivatedOK DEF ApplyPayment
    <2>5. task' \in [Queries -> Task]
      BY <1>14 DEF ApplyPayment, Stage, Task
    <2> QED
      BY <1>14, <2>2, <2>4, <2>5 DEF ApplyPayment, invoices, wallet
  <1>15. ASSUME NEW q \in Queries, FinishTask(q) PROVE TypeOK'
    BY <1>15 DEF FinishTask, Stage, Task, invoices, wallet
  <1>16. ASSUME NEW q \in Queries, FailTask(q) PROVE TypeOK'
    BY <1>16, RowsOK DEF FailTask, invoices, wallet
  <1>17. ASSUME NEW q \in Queries, Crash(q) PROVE TypeOK'
    BY <1>17 DEF Crash, Stage, Task, invoices, wallet
  <1>18. CASE UNCHANGED vars
    BY <1>18 DEF vars, invoices, wallet
  <1> QED
    BY <1>1, <1>2, <1>3, <1>4, <1>5, <1>6, <1>7, <1>8, <1>9, <1>10, <1>11, <1>12, <1>13, <1>14,
       <1>15, <1>16, <1>17, <1>18 DEF Next

----------------------------------------------------------------------------
(* What a step may change                                                  *)

(* Which transactions write which part of the state.                       *)
LEMMA Writers ==
  ASSUME [Next]_vars
  PROVE  /\ \/ UNCHANGED <<attempt, requests>>
            \/ \E a \in Attempts, plan \in Plans : CreateAttempt(a, plan)
            \/ \E a \in Attempts : SaveInvoice(a) \/ FailInvoice(a)
            \/ \E q \in Queries : Precheckout(q) \/ ApplyPayment(q)
         /\ \/ UNCHANGED query
            \/ \E q \in Queries, a \in Attempts, payer \in {"owner", "other"} : Ask(q, a, payer)
            \/ \E m \in Answer : TakeAnswer(m)
            \/ \E q \in Queries : Charge(q)
         /\ \/ UNCHANGED answers
            \/ \E q \in Queries : Precheckout(q)
            \/ \E m \in Answer : TakeAnswer(m)
         /\ \/ UNCHANGED task
            \/ \E q \in Queries : ReceivePayment(q) \/ ApplyPayment(q) \/ FinishTask(q)
                                    \/ FailTask(q) \/ Crash(q)
         /\ \/ UNCHANGED <<now, subscription>>
            \/ Tick \/ StartTrial \/ Refresh
            \/ \E q \in Queries : ApplyPayment(q)
  <1>1. CASE Tick
    BY <1>1 DEF Tick, invoices, wallet
  <1>2. CASE ChangeSale
    BY <1>2 DEF ChangeSale, invoices, wallet
  <1>3. CASE StartTrial
    BY <1>3 DEF StartTrial, invoices, wallet
  <1>4. CASE Refresh
    BY <1>4 DEF Refresh, invoices, wallet
  <1>5. ASSUME NEW a \in Attempts, NEW plan \in Plans, CreateAttempt(a, plan)
        PROVE  UNCHANGED <<now, wallet, task, subscription>>
    BY <1>5 DEF CreateAttempt
  <1>6. ASSUME NEW a \in Attempts, SaveInvoice(a) \/ FailInvoice(a)
        PROVE  UNCHANGED <<now, wallet, task, subscription>>
    BY <1>6 DEF SaveInvoice, FailInvoice
  <1>7. ASSUME NEW a \in Attempts, ShowInvoice(a)
        PROVE  UNCHANGED <<now, attempt, requests, wallet, task, subscription>>
    BY <1>7 DEF ShowInvoice
  <1>8. ASSUME NEW q \in Queries, NEW a \in Attempts, NEW payer \in {"owner", "other"},
               Ask(q, a, payer)
        PROVE  UNCHANGED <<now, attempt, requests, answers, task, subscription>>
    BY <1>8 DEF Ask, invoices
  <1>9. ASSUME NEW q \in Queries, Precheckout(q)
        PROVE  UNCHANGED <<now, query, task, subscription>>
    BY <1>9 DEF Precheckout
  <1>10. ASSUME NEW m \in Answer, TakeAnswer(m)
         PROVE  UNCHANGED <<now, attempt, requests, task, subscription>>
    BY <1>10 DEF TakeAnswer, invoices
  <1>11. ASSUME NEW q \in Queries, Charge(q)
         PROVE  UNCHANGED <<now, attempt, requests, answers, task, subscription>>
    BY <1>11 DEF Charge, invoices
  <1>12. ASSUME NEW q \in Queries, ApplyPayment(q)
         PROVE  UNCHANGED wallet
    BY <1>12 DEF ApplyPayment
  <1>13. ASSUME NEW q \in Queries,
                ReceivePayment(q) \/ FinishTask(q) \/ FailTask(q) \/ Crash(q)
         PROVE  UNCHANGED <<now, attempt, requests, wallet, subscription>>
    BY <1>13 DEF ReceivePayment, FinishTask, FailTask, Crash, invoices
  <1>14. CASE UNCHANGED vars
    BY <1>14 DEF vars, invoices, wallet
  <1> QED
    BY <1>1, <1>2, <1>3, <1>4, <1>5, <1>6, <1>7, <1>8, <1>9, <1>10, <1>11, <1>12, <1>13, <1>14
    DEF Next, wallet

(* How the row of an attempt moves.                                        *)
Pays(a, q) ==
  /\ ApplyPayment(q) /\ attempt[a].status # "PAID"
  /\ query[q].state = "charged" /\ query[q].attempt = a
  /\ attempt'[a].charge = q /\ attempt'[a].paidAt = now

RowMove(a) ==
  LET old == attempt[a].status
      new == attempt'[a].status IN
  \/ attempt'[a] = attempt[a]
  \/ old = "NONE" /\ new = "CREATED"
  \/ old = "CREATED" /\ new \in {"INVOICE_SENT", "FAILED"} /\ a \notin requests'
  \/ Payable(attempt[a]) /\ new = "REJECTED"
  \/ /\ Payable(attempt[a]) /\ new = "PRECHECKOUT_APPROVED"
     /\ \E q \in Queries : attempt'[a].query = q /\ attempt[a].query \in {NoQuery, q}
  \/ old \in {"PRECHECKOUT_APPROVED", "REJECTED"} /\ new = "PAID" /\ \E q \in Queries : Pays(a, q)

LEMMA RowMoves ==
  ASSUME TypeOK, SendingInv, OrderInv, ApprovedInv, [Next]_vars
  PROVE  \A a \in Attempts : RowMove(a)
  <1>0. attempt \in [Attempts -> Attempt] /\ now \in 0 .. MaxTime
    BY DEF TypeOK
  <1>1. CASE UNCHANGED attempt
    BY <1>1 DEF RowMove
  <1>2. ASSUME NEW a \in Attempts, NEW plan \in Plans, CreateAttempt(a, plan)
        PROVE  \A b \in Attempts : RowMove(b)
    <2>1. /\ attempt'[a].status = "CREATED" /\ attempt[a].status = "NONE"
          /\ \A b \in Attempts \ {a} : attempt'[b] = attempt[b]
      <3> DEFINE row == [NoAttempt EXCEPT !.status = "CREATED", !.plan = plan]
      <3>1. row \in Attempt /\ Save(a, row) /\ attempt[a].status = "NONE"
        BY <1>2, RowsOK DEF CreateAttempt
      <3>2. row.status = "CREATED"
        BY DEF NoAttempt
      <3> HIDE DEF row
      <3> QED
        BY <1>0, <3>1, <3>2, SaveOK
    <2> QED
      BY <2>1 DEF RowMove
  <1>3. ASSUME NEW a \in Attempts, SaveInvoice(a) \/ FailInvoice(a)
        PROVE  \A b \in Attempts : RowMove(b)
    <2>1. attempt[a].status = "CREATED" /\ a \notin requests'
      BY <1>3 DEF SaveInvoice, FailInvoice, SendingInv
    <2>2. PICK row \in Attempt : Save(a, row) /\ row.status \in {"INVOICE_SENT", "FAILED"}
      <3> DEFINE sent == [attempt[a] EXCEPT !.status = "INVOICE_SENT"]
                 failed == [attempt[a] EXCEPT !.status = "FAILED"]
      <3>1. sent \in Attempt /\ failed \in Attempt
        BY <1>0, RowsOK
      <3>2. sent.status = "INVOICE_SENT" /\ failed.status = "FAILED"
        BY <1>0 DEF Attempt
      <3>3. Save(a, sent) \/ Save(a, failed)
        BY <1>3 DEF SaveInvoice, FailInvoice
      <3> HIDE DEF sent, failed
      <3> QED
        BY <3>1, <3>2, <3>3
    <2>3. attempt'[a] = row /\ \A b \in Attempts \ {a} : attempt'[b] = attempt[b]
      BY <1>0, <2>2, SaveOK
    <2> QED
      BY <2>1, <2>2, <2>3 DEF RowMove
  <1>4. ASSUME NEW q \in Queries, Precheckout(q)
        PROVE  \A b \in Attempts : RowMove(b)
    <2> DEFINE a == query[q].attempt
    <2>1. a \in Attempts
      BY <1>4 DEF Precheckout, OrderInv
    <2>2. CASE /\ Payable(attempt[a])
               /\ Save(a, [attempt[a] EXCEPT !.status = "REJECTED", !.query = q])
      <3>1. /\ attempt'[a].status = "REJECTED"
            /\ \A b \in Attempts \ {a} : attempt'[b] = attempt[b]
        <4> DEFINE row == [attempt[a] EXCEPT !.status = "REJECTED", !.query = q]
        <4>1. row \in Attempt /\ Save(a, row)
          BY <1>0, <2>1, <2>2, RowsOK
        <4>2. row.status = "REJECTED"
          BY <1>0, <2>1 DEF Attempt
        <4> HIDE DEF row
        <4> QED
          BY <1>0, <2>1, <4>1, <4>2, SaveOK
      <3> QED
        BY <2>2, <3>1 DEF RowMove
    <2>3. CASE /\ Payable(attempt[a]) /\ ~OtherQuery(q, attempt[a])
               /\ Save(a, [attempt[a] EXCEPT !.status = "PRECHECKOUT_APPROVED", !.query = q])
      <3>1. /\ attempt'[a].status = "PRECHECKOUT_APPROVED" /\ attempt'[a].query = q
            /\ \A b \in Attempts \ {a} : attempt'[b] = attempt[b]
        <4> DEFINE row == [attempt[a] EXCEPT !.status = "PRECHECKOUT_APPROVED", !.query = q]
        <4>1. row \in Attempt /\ Save(a, row)
          BY <1>0, <2>1, <2>3, RowsOK
        <4>2. row.status = "PRECHECKOUT_APPROVED" /\ row.query = q
          BY <1>0, <2>1 DEF Attempt
        <4> HIDE DEF row
        <4> QED
          BY <1>0, <2>1, <4>1, <4>2, SaveOK
      <3> QED
        BY <2>3, <3>1 DEF RowMove, OtherQuery
    <2> QED
      BY <1>1, <1>4, <2>2, <2>3 DEF Precheckout
  <1>5. ASSUME NEW q \in Queries, ApplyPayment(q)
        PROVE  \A b \in Attempts : RowMove(b)
    <2> DEFINE a == query[q].attempt
    <2>1. a \in Attempts /\ query[q].state = "charged"
      BY <1>5 DEF ApplyPayment, OrderInv
    <2>2. attempt[a].status \in {"PRECHECKOUT_APPROVED", "REJECTED", "PAID"}
      BY <2>1 DEF ApprovedInv, GoneThrough
    <2>3. CASE /\ attempt[a].status # "PAID"
               /\ Save(a, [attempt[a] EXCEPT !.status = "PAID", !.charge = q, !.paidAt = now])
      <3>1. /\ attempt'[a].status = "PAID" /\ attempt'[a].charge = q /\ attempt'[a].paidAt = now
            /\ \A b \in Attempts \ {a} : attempt'[b] = attempt[b]
        <4> DEFINE row == [attempt[a] EXCEPT !.status = "PAID", !.charge = q, !.paidAt = now]
        <4>1. row \in Attempt /\ Save(a, row)
          BY <1>0, <2>1, <2>3, RowsOK
        <4>2. row.status = "PAID" /\ row.charge = q /\ row.paidAt = now
          BY <1>0, <2>1 DEF Attempt
        <4> HIDE DEF row
        <4> QED
          BY <1>0, <2>1, <4>1, <4>2, SaveOK
      <3> QED
        BY <1>5, <2>1, <2>2, <2>3, <3>1 DEF RowMove, Pays
    <2> QED
      BY <1>1, <1>5, <2>3 DEF ApplyPayment
  <1> QED
    BY <1>1, <1>2, <1>3, <1>4, <1>5, Writers

(* A query keeps its attempt, and its charge.                              *)
QueryMove(q) ==
  LET old == query[q].state
      new == query'[q].state IN
  /\ old # "none" => new # "none" /\ query'[q].attempt = query[q].attempt
  /\ old = "charged" => new = "charged"
  /\ new # "none" => query'[q].attempt \in Attempts
  /\ new = "charged" => old \in {"approved", "charged"}
  /\ new = "approved" => old = "approved" \/ [query |-> q, ok |-> TRUE] \in answers

LEMMA QueryMoves ==
  ASSUME TypeOK, OrderInv, [Next]_vars
  PROVE  \A q \in Queries : QueryMove(q)
  <1>0. query \in [Queries -> Query] /\ answers \subseteq Answer
    BY DEF TypeOK
  <1>1. CASE UNCHANGED query
    BY <1>1 DEF OrderInv, QueryMove
  <1>2. CASE \E q \in Queries, a \in Attempts, payer \in {"owner", "other"} : Ask(q, a, payer)
    BY <1>0, <1>2 DEF Ask, OrderInv, QueryMove
  <1>3. ASSUME NEW m \in Answer, TakeAnswer(m)
        PROVE  /\ query[m.query].state = "asked"
               /\ \A q \in Queries \ {m.query} : query'[q] = query[q]
               /\ query'[m.query].attempt = query[m.query].attempt
               /\ query'[m.query].state = IF m.ok THEN "approved" ELSE "refused"
               /\ m.ok => [query |-> m.query, ok |-> TRUE] \in answers
    <2>1. m.query \in Queries /\ m = [query |-> m.query, ok |-> m.ok] /\ m.ok \in BOOLEAN
      BY DEF Answer
    <2>2. query' = [query EXCEPT ![m.query].state = IF m.ok THEN "approved" ELSE "refused"]
      BY <1>3 DEF TakeAnswer
    <2>3. m \in answers
      BY <1>3 DEF TakeAnswer
    <2>4. m.ok => [query |-> m.query, ok |-> TRUE] \in answers
      BY <2>1, <2>3
    <2> QED
      BY <1>0, <2>1, <2>2, <2>3, <2>4 DEF Query, OrderInv
  <1>4. ASSUME NEW m \in Answer, TakeAnswer(m)
        PROVE  \A q \in Queries : QueryMove(q)
    <2>1. m.query \in Queries /\ query[m.query].attempt \in Attempts
      BY <1>3, <1>4 DEF Answer, OrderInv
    <2>2. /\ query[m.query].state = "asked"
          /\ \A q \in Queries \ {m.query} : query'[q] = query[q]
          /\ query'[m.query].attempt = query[m.query].attempt
          /\ query'[m.query].state = IF m.ok THEN "approved" ELSE "refused"
          /\ m.ok => [query |-> m.query, ok |-> TRUE] \in answers
      BY <1>3, <1>4
    <2> QED
      BY <2>1, <2>2 DEF OrderInv, QueryMove
  <1>5. CASE \E q \in Queries : Charge(q)
    BY <1>0, <1>5 DEF Charge, OrderInv, Query, QueryMove
  <1> QED
    BY <1>1, <1>2, <1>4, <1>5, Writers

(* A query goes through when its attempt is approved for it.               *)
Approves(q) ==
  LET row == attempt[query[q].attempt]
      new == attempt'[query[q].attempt] IN
  /\ query[q].state # "none"
  /\ Payable(row) /\ row.query \in {NoQuery, q}
  /\ new.status = "PRECHECKOUT_APPROVED" /\ new.query = q

LEMMA GoneMoves ==
  ASSUME TypeOK, OrderInv, [Next]_vars, NEW q \in Queries, GoneThrough(q)'
  PROVE  GoneThrough(q) \/ Approves(q)
  <1> DEFINE ok(r) == [query |-> r, ok |-> TRUE]
  <1>1. GoneThrough(q) \/ (ok(q) \in answers' /\ ok(q) \notin answers)
    BY QueryMoves DEF GoneThrough, QueryMove
  <1>2. ASSUME ok(q) \in answers', ok(q) \notin answers
        PROVE  Approves(q)
    <2>1. PICK r \in Queries : Precheckout(r)
      BY <1>2, Writers DEF TakeAnswer
    <2> DEFINE a == query[r].attempt
    <2>2. a \in Attempts /\ query[r].state # "none"
      BY <2>1 DEF Precheckout, OrderInv
    <2>3. \A x \in BOOLEAN : Reply(r, x) => (q = r /\ x = TRUE)
      BY <1>2 DEF Reply
    <2>4. /\ q = r /\ Payable(attempt[a]) /\ ~OtherQuery(r, attempt[a])
          /\ Save(a, [attempt[a] EXCEPT !.status = "PRECHECKOUT_APPROVED", !.query = r])
      BY <2>1, <2>3 DEF Precheckout
    <2>5. attempt'[a].status = "PRECHECKOUT_APPROVED" /\ attempt'[a].query = r
      <3> DEFINE row == [attempt[a] EXCEPT !.status = "PRECHECKOUT_APPROVED", !.query = r]
      <3>1. attempt \in [Attempts -> Attempt] /\ 0 \in 0 .. MaxTime
        BY ConstantsAssumption DEF TypeOK
      <3>2. row \in Attempt /\ Save(a, row)
        BY <2>2, <2>4, <3>1, RowsOK
      <3>3. row.status = "PRECHECKOUT_APPROVED" /\ row.query = r
        BY <2>2, <3>1 DEF Attempt
      <3> HIDE DEF row
      <3> QED
        BY <2>2, <3>1, <3>2, <3>3, SaveOK
    <2> QED
      BY <2>2, <2>4, <2>5 DEF Approves, OtherQuery
  <1> QED
    BY <1>1, <1>2

----------------------------------------------------------------------------
(* The invariant is inductive                                              *)

LEMMA SendingNext ==
  ASSUME TypeOK, SendingInv, OrderInv, ApprovedInv, [Next]_vars
  PROVE  SendingInv'
  <1>0. attempt \in [Attempts -> Attempt] /\ requests \subseteq Attempts
    BY DEF TypeOK
  <1>1. ASSUME NEW a \in requests' \cap requests
        PROVE  attempt'[a].status = "CREATED"
    <2>1. a \in Attempts /\ attempt[a].status = "CREATED" /\ RowMove(a)
      BY <1>0, RowMoves DEF SendingInv
    <2> QED
      BY <2>1 DEF RowMove, Payable
  <1>2. ASSUME NEW a \in requests' \ requests
        PROVE  attempt'[a].status = "CREATED"
    <2>1. PICK plan \in Plans : a \in Attempts /\ CreateAttempt(a, plan)
      BY <1>0, Writers
      DEF CreateAttempt, SaveInvoice, FailInvoice, Precheckout, ApplyPayment, invoices
    <2> DEFINE row == [NoAttempt EXCEPT !.status = "CREATED", !.plan = plan]
    <2>2. row \in Attempt /\ Save(a, row)
      BY <2>1, RowsOK DEF CreateAttempt
    <2>3. row.status = "CREATED"
      BY DEF NoAttempt
    <2> HIDE DEF row
    <2> QED
      BY <1>0, <2>1, <2>2, <2>3, SaveOK
  <1> QED
    BY <1>1, <1>2 DEF SendingInv

LEMMA OrderNext ==
  ASSUME TypeOK, OrderInv, [Next]_vars
  PROVE  OrderInv'
  <1>0. /\ task \in [Queries -> Task] /\ answers \subseteq Answer
        /\ query \in [Queries -> Query]
    BY DEF TypeOK
  <1>1. \A q \in Queries : query'[q].state # "none" => query'[q].attempt \in Attempts
    BY QueryMoves DEF QueryMove
  <1>2. ASSUME NEW m \in answers'
        PROVE  query'[m.query].state = "asked"
    <2>1. CASE m \in answers
      <3>1. m.query \in Queries /\ query[m.query].state = "asked"
        BY <1>0, <2>1 DEF OrderInv, Answer
      <3>2. CASE UNCHANGED query
        BY <3>1, <3>2
      <3>3. ASSUME NEW q \in Queries, NEW a \in Attempts, NEW payer \in {"owner", "other"},
                   Ask(q, a, payer)
            PROVE  query'[m.query].state = "asked"
        BY <1>0, <3>1, <3>3 DEF Ask
      <3>4. ASSUME NEW n \in Answer, TakeAnswer(n)
            PROVE  query'[m.query].state = "asked"
        BY <1>0, <1>2, <3>1, <3>4 DEF TakeAnswer, Answer
      <3>5. ASSUME NEW q \in Queries, Charge(q)
            PROVE  query'[m.query].state = "asked"
        BY <1>0, <3>1, <3>5 DEF Charge
      <3> QED
        BY <3>2, <3>3, <3>4, <3>5, Writers
    <2>2. CASE m \notin answers
      <3>1. PICK q \in Queries : Precheckout(q)
        BY <2>2, Writers DEF TakeAnswer
      <3>2. m.query = q /\ query[q].state = "asked" /\ query' = query
        BY <2>2, <3>1 DEF Precheckout, Reply
      <3> QED
        BY <3>2
    <2> QED
      BY <2>1, <2>2
  <1>3. ASSUME NEW q \in Queries, task'[q].stage # "none"
        PROVE  query'[q].state = "charged"
    <2>1. CASE task[q].stage # "none"
      BY <2>1, QueryMoves DEF OrderInv, QueryMove
    <2>2. CASE task[q].stage = "none"
      <3>1. \E r \in Queries : ReceivePayment(r) \/ ApplyPayment(r) \/ FinishTask(r)
                                 \/ FailTask(r) \/ Crash(r)
        BY <1>3, <2>2, Writers
      <3>2. query[q].state = "charged"
        BY <1>0, <1>3, <2>2, <3>1
        DEF ReceivePayment, ApplyPayment, FinishTask, FailTask, Crash, Stage, Task
      <3> QED
        BY <3>2, QueryMoves DEF QueryMove
    <2> QED
      BY <2>1, <2>2
  <1> QED
    BY <1>1, <1>2, <1>3 DEF OrderInv

LEMMA ApprovedNext ==
  ASSUME TypeOK, SendingInv, OrderInv, ApprovedInv, [Next]_vars
  PROVE  ApprovedInv'
  <1> SUFFICES ASSUME NEW q \in Queries, GoneThrough(q)'
               PROVE  LET row == attempt'[query'[q].attempt] IN
                      /\ row.status \in {"PRECHECKOUT_APPROVED", "REJECTED", "PAID"}
                      /\ row.status = "PRECHECKOUT_APPROVED" => row.query = q
    BY DEF ApprovedInv
  <1> DEFINE a == query[q].attempt
  <1>1. GoneThrough(q) \/ Approves(q)
    BY GoneMoves
  <1>2. query[q].state # "none" /\ a \in Attempts /\ query'[q].attempt = a
    BY <1>1, QueryMoves DEF GoneThrough, Approves, OrderInv, QueryMove
  <1>3. CASE Approves(q)
    BY <1>2, <1>3 DEF Approves
  <1>4. CASE GoneThrough(q)
    <2>1. /\ attempt[a].status \in {"PRECHECKOUT_APPROVED", "REJECTED", "PAID"}
          /\ attempt[a].status = "PRECHECKOUT_APPROVED" => attempt[a].query = q
      BY <1>4 DEF ApprovedInv
    <2>2. RowMove(a) /\ q # NoQuery
      BY <1>2, RowMoves, ConstantsAssumption
    <2>3. \/ attempt'[a] = attempt[a]
          \/ attempt'[a].status \in {"REJECTED", "PAID"}
          \/ attempt'[a].status = "PRECHECKOUT_APPROVED" /\ attempt'[a].query = q
      BY <2>1, <2>2 DEF RowMove, Payable
    <2> QED
      BY <1>2, <2>1, <2>3
  <1> QED
    BY <1>1, <1>3, <1>4

LEMMA ChargedOnceNext ==
  ASSUME TypeOK, OrderInv, ApprovedInv, ChargedOnce, [Next]_vars
  PROVE  ChargedOnce'
  <1> SUFFICES ASSUME NEW q \in Queries, NEW r \in Queries, GoneThrough(q)', GoneThrough(r)',
                      query'[q].attempt = query'[r].attempt
               PROVE  q = r
    BY DEF ChargedOnce
  <1>1. /\ GoneThrough(q) \/ Approves(q)
        /\ GoneThrough(r) \/ Approves(r)
    BY GoneMoves
  <1>2. query[q].attempt = query[r].attempt
    BY <1>1, QueryMoves DEF GoneThrough, Approves, OrderInv, QueryMove
  <1>3. NoQuery \notin Queries
    BY ConstantsAssumption
  <1>4. CASE GoneThrough(q) /\ GoneThrough(r)
    BY <1>2, <1>4 DEF ChargedOnce
  <1>5. ASSUME NEW s \in Queries, NEW t \in Queries, Approves(s), GoneThrough(t),
               query[s].attempt = query[t].attempt
        PROVE  s = t
    BY <1>3, <1>5 DEF Approves, ApprovedInv, Payable
  <1>6. CASE Approves(q) /\ Approves(r)
    BY <1>2, <1>6 DEF Approves
  <1> QED
    BY <1>1, <1>2, <1>4, <1>5, <1>6

LEMMA PaidNext ==
  ASSUME TypeOK, SendingInv, OrderInv, ApprovedInv, PaidInv, [Next]_vars
  PROVE  PaidInv'
  <1> SUFFICES ASSUME NEW a \in Attempts, attempt'[a].status = "PAID"
               PROVE  /\ attempt'[a].charge \in Queries
                      /\ query'[attempt'[a].charge].state = "charged"
                      /\ query'[attempt'[a].charge].attempt = a
    BY DEF PaidInv
  <1>1. \/ attempt'[a] = attempt[a]
        \/ \E q \in Queries : Pays(a, q)
    BY RowMoves DEF RowMove
  <1>2. \E q \in Queries : attempt'[a].charge = q /\ query[q].state = "charged"
                             /\ query[q].attempt = a
    BY <1>1 DEF Pays, PaidInv
  <1> QED
    BY <1>2, QueryMoves DEF QueryMove

(* What applying a payment does to the subscription.                       *)
LEMMA Applies ==
  ASSUME TypeOK, OrderInv, NEW q \in Queries, ApplyPayment(q)
  PROVE  /\ now' = now /\ query' = query
         /\ \/ UNCHANGED <<attempt, subscription>>
            \/ /\ attempt[query[q].attempt].status # "PAID"
               /\ \E plan \in SoldPlans : subscription' = Activated(subscription, plan)
  <1>1. query[q].attempt \in Attempts
    BY DEF ApplyPayment, OrderInv
  <1>2. attempt[query[q].attempt].plan \in SoldPlans
    BY <1>1 DEF TypeOK, Attempt
  <1> QED
    BY <1>2 DEF ApplyPayment, wallet

LEMMA CoverNext ==
  ASSUME TypeOK, SendingInv, OrderInv, ApprovedInv, CoverInv, [Next]_vars
  PROVE  CoverInv'
  <1> SUFFICES ASSUME NEW a \in Attempts, attempt'[a].status = "PAID"
               PROVE  /\ attempt'[a].paidAt <= now'
                      /\ subscription'.status \in {"ACTIVE", "EXPIRED"}
                      /\ subscription'.end >= attempt'[a].paidAt + Period
                      /\ subscription'.status = "EXPIRED" => subscription'.end <= now'
    BY DEF CoverInv
  <1> DEFINE row == attempt[a]
  <1>1. /\ row.paidAt \in Nat /\ now \in Nat /\ Period \in Nat
        /\ subscription \in Subscription /\ subscription.end \in Nat
    BY ConstantsAssumption DEF TypeOK, Attempt, Subscription
  <1>2. \A plan \in SoldPlans :
          /\ Activated(subscription, plan) \in Subscription
          /\ Activated(subscription, plan).status = "ACTIVE"
          /\ Activated(subscription, plan).end >= now + Period
    BY <1>1, ActivatedOK
  <1>3. \A plan \in SoldPlans : Activated(subscription, plan).end \in Nat
    BY <1>2 DEF Subscription
  <1>4. CASE attempt'[a] = attempt[a]
    <2>1. /\ row.status = "PAID" /\ row.paidAt <= now
          /\ subscription.status \in {"ACTIVE", "EXPIRED"}
          /\ subscription.end >= row.paidAt + Period
          /\ subscription.status = "EXPIRED" => subscription.end <= now
      BY <1>4 DEF CoverInv
    <2>2. CASE UNCHANGED <<now, subscription>>
      BY <1>4, <2>1, <2>2
    <2>3. CASE Tick
      BY <1>1, <1>4, <2>1, <2>3 DEF Tick
    <2>4. CASE StartTrial
      BY <2>1, <2>4 DEF StartTrial
    <2>5. CASE Refresh
      <3>1. /\ subscription'.status = "EXPIRED" /\ subscription'.end = subscription.end
            /\ subscription.end <= now /\ now' = now
        BY <1>1, <2>5 DEF Refresh, Subscription
      <3> QED
        BY <1>4, <2>1, <3>1
    <2>6. ASSUME NEW q \in Queries, ApplyPayment(q), NEW plan \in SoldPlans,
                 subscription' = Activated(subscription, plan)
          PROVE  /\ subscription'.status = "ACTIVE"
                 /\ subscription'.end >= row.paidAt + Period
      BY <1>1, <1>2, <1>3, <2>1, <2>6
    <2>7. CASE \E q \in Queries : ApplyPayment(q)
      <3>1. now' = now
        BY <2>7, Applies
      <3>2. \/ UNCHANGED <<now, subscription>>
            \/ \E plan \in SoldPlans : subscription' = Activated(subscription, plan)
        BY <2>7, Applies
      <3> QED
        BY <1>4, <2>1, <2>2, <2>6, <2>7, <3>1, <3>2
    <2> QED
      BY <2>2, <2>3, <2>4, <2>5, <2>7, Writers
  <1>5. ASSUME NEW q \in Queries, Pays(a, q)
        PROVE  /\ attempt'[a].paidAt <= now'
               /\ subscription'.status \in {"ACTIVE", "EXPIRED"}
               /\ subscription'.end >= attempt'[a].paidAt + Period
               /\ subscription'.status = "EXPIRED" => subscription'.end <= now'
    <2>1. attempt'[a].paidAt = now /\ now' = now
      BY <1>5, Applies DEF Pays
    <2>2. \E plan \in SoldPlans : subscription' = Activated(subscription, plan)
      BY <1>5, Applies DEF Pays
    <2> QED
      BY <1>1, <1>2, <1>3, <2>1, <2>2
  <1> QED
    BY <1>4, <1>5, RowMoves DEF RowMove

LEMMA InitInv == Init => IInv
  <1> SUFFICES ASSUME Init PROVE IInv
    OBVIOUS
  <1> USE DEF Init
  <1>1. TypeOK
    <2>1. now \in 0 .. MaxTime /\ forSale \subseteq Plans /\ subscription \in Subscription
      BY ConstantsAssumption DEF Subscription, SoldPlans
    <2>2. attempt \in [Attempts -> Attempt] /\ query \in [Queries -> Query]
      BY RowsOK
    <2>3. task \in [Queries -> Task]
      BY RowsOK
    <2> QED
      BY <2>1, <2>2, <2>3 DEF TypeOK
  <1>2. SendingInv /\ OrderInv
    BY DEF SendingInv, OrderInv, Unasked, NoTask
  <1>3. \A q \in Queries : ~GoneThrough(q)
    BY DEF GoneThrough, Unasked
  <1>4. PaidInv /\ CoverInv
    BY DEF PaidInv, CoverInv, NoAttempt
  <1> QED
    BY <1>1, <1>2, <1>3, <1>4 DEF IInv, ApprovedInv, ChargedOnce

(* The invariant holds, for any number of attempts, plans and queries.     *)
THEOREM Inductive == Spec => []IInv
  <1>1. IInv /\ [Next]_vars => IInv'
    BY TypeNext, SendingNext, OrderNext, ApprovedNext, ChargedOnceNext, PaidNext, CoverNext
    DEF IInv
  <1> QED
    BY <1>1, InitInv, PTL DEF Spec

(* Every row stays of its type: a task is retried MaxRetries times at most *)
(* and a payment is applied with a plan that exists.                       *)
THEOREM TypeCorrect == Spec => []TypeOK
  <1>1. IInv => TypeOK
    BY DEF IInv
  <1> QED
    BY <1>1, Inductive, PTL

(* At most one pre-checkout query of an invoice is ever approved, so that  *)
(* nobody is charged twice for it.                                         *)
THEOREM ChargedOnceCorrect == Spec => []ChargedOnce
  <1>1. IInv => ChargedOnce
    BY DEF IInv
  <1> QED
    BY <1>1, Inductive, PTL

(* A payment buys a full period from the moment it is applied.             *)
THEOREM PaidIsActiveCorrect == Spec => []PaidIsActive
  <1>1. ASSUME IInv PROVE PaidIsActive
    <2> SUFFICES ASSUME NEW a \in Attempts, attempt[a].status = "PAID",
                        now < attempt[a].paidAt + Period
                 PROVE  /\ subscription.status = "ACTIVE"
                        /\ subscription.end >= attempt[a].paidAt + Period
      BY DEF PaidIsActive
    <2>1. /\ attempt[a].paidAt \in Nat /\ now \in Nat /\ Period \in Nat
          /\ subscription.end \in Nat
      BY <1>1, ConstantsAssumption DEF IInv, TypeOK, Attempt, Subscription
    <2>2. /\ subscription.status \in {"ACTIVE", "EXPIRED"}
          /\ subscription.end >= attempt[a].paidAt + Period
          /\ subscription.status = "EXPIRED" => subscription.end <= now
      BY <1>1 DEF IInv, CoverInv
    <2> QED
      BY <2>1, <2>2
  <1> QED
    BY <1>1, Inductive, PTL

(* No step changes the row of a payment that was applied.                  *)
THEOREM PaidIsFinalCorrect == Spec => PaidIsFinal
  <1>1. ASSUME IInv, [Next]_vars
        PROVE  [\A a \in Attempts : attempt[a].status = "PAID" => attempt'[a] = attempt[a]]_attempt
    BY <1>1, RowMoves DEF IInv, RowMove, Pays, Payable
  <1> QED
    BY <1>1, Inductive, PTL DEF Spec, PaidIsFinal

----------------------------------------------------------------------------
(* Payments implements BillingLedger                                       *)

(* Only applying a payment changes what has been applied.                  *)
LEMMA AppliedSame ==
  ASSUME IInv, [Next]_vars, \A q \in Queries : ~ApplyPayment(q)
  PROVE  Applied' = Applied
  <1>1. ASSUME NEW a \in Attempts
        PROVE  /\ attempt'[a].status = "PAID" <=> attempt[a].status = "PAID"
               /\ attempt[a].status = "PAID" => attempt'[a].charge = attempt[a].charge
    BY RowMoves DEF IInv, RowMove, Pays, Payable
  <1> QED
    BY <1>1 DEF Applied

(* Applying a payment applies one charge, that was not applied before, or  *)
(* changes nothing.                                                        *)
LEMMA LedgerApply ==
  ASSUME IInv, NEW q \in Queries, ApplyPayment(q)
  PROVE  Ledger!Apply(q) \/ UNCHANGED Ledger!vars
  <1> DEFINE a == query[q].attempt
             row == [attempt[a] EXCEPT !.status = "PAID", !.charge = q, !.paidAt = now]
  <1>0. /\ attempt \in [Attempts -> Attempt] /\ now \in 0 .. MaxTime /\ now \in Nat
        /\ subscription \in Subscription /\ subscription.end \in Nat /\ Period \in Nat
    BY ConstantsAssumption DEF IInv, TypeOK, Subscription
  <1>1. a \in Attempts /\ query[q].state = "charged" /\ now' = now /\ query' = query
    BY Applies DEF ApplyPayment, IInv, OrderInv
  <1>2. Charges' = Charges /\ q \in Charges
    BY <1>1 DEF Charges
  <1>3. CASE UNCHANGED <<attempt, subscription>>
    BY <1>1, <1>2, <1>3 DEF Ledger!vars, Applied
  <1>4. CASE /\ attempt[a].status # "PAID" /\ Save(a, row)
             /\ subscription' = Activated(subscription, attempt[a].plan)
    <2>1. row \in Attempt /\ row.status = "PAID" /\ row.charge = q
      BY <1>0, <1>1, RowsOK DEF Attempt
    <2> HIDE DEF row
    <2>2. attempt'[a] = row /\ \A b \in Attempts \ {a} : attempt'[b] = attempt[b]
      BY <1>0, <1>1, <1>4, <2>1, SaveOK
    <2>3. Applied' = Applied \cup {q}
      BY <1>1, <1>4, <2>1, <2>2 DEF Applied
    <2>4. q \notin Applied
      BY <1>1, <1>4 DEF Applied, IInv, PaidInv
    <2>5. attempt[a].plan \in SoldPlans
      BY <1>0, <1>1 DEF Attempt
    <2>6. /\ subscription' \in Subscription /\ subscription'.status = "ACTIVE"
          /\ subscription'.end >= now + Period
          /\ subscription'.end
               <= (IF Current(subscription) /\ subscription.end > now
                   THEN subscription.end ELSE now) + Period
      BY <1>0, <1>4, <2>5, ActivatedOK
    <2>7. subscription'.end \in now + Period ..
            (IF subscription.status \in Ledger!Current /\ subscription.end > now
             THEN subscription.end ELSE now) + Period
      BY <1>0, <2>6 DEF Ledger!Current, Current, Subscription
    <2> QED
      BY <1>1, <1>2, <2>3, <2>4, <2>6, <2>7 DEF Ledger!Apply
  <1> QED
    BY <1>3, <1>4 DEF ApplyPayment

LEMMA LedgerStep ==
  ASSUME IInv, [Next]_vars
  PROVE  [Ledger!Next]_(Ledger!vars)
  <1>0. query \in [Queries -> Query] /\ subscription \in Subscription /\ answers \subseteq Answer
    BY DEF IInv, TypeOK
  <1>1. ASSUME NEW q \in Queries, ApplyPayment(q)
        PROVE  [Ledger!Next]_(Ledger!vars)
    BY <1>1, LedgerApply DEF Ledger!Next
  <1>2. CASE \A q \in Queries : ~ApplyPayment(q)
    <2>1. Applied' = Applied
      BY <1>2, AppliedSame
    <2>2. CASE UNCHANGED query
      <3>1. Charges' = Charges
        BY <2>2 DEF Charges
      <3>2. CASE Tick
        BY <2>1, <3>1, <3>2 DEF Tick, Ledger!Tick, Ledger!Next
      <3>3. CASE StartTrial
        BY <2>1, <3>1, <3>3 DEF StartTrial, Ledger!StartTrial, Ledger!Next
      <3>4. CASE Refresh
        BY <1>0, <2>1, <3>1, <3>4
        DEF Refresh, Current, Subscription, Ledger!Expire, Ledger!Current, Ledger!Next
      <3>5. CASE UNCHANGED <<now, subscription>>
        BY <2>1, <3>1, <3>5 DEF Ledger!vars
      <3> QED
        BY <1>2, <3>2, <3>3, <3>4, <3>5, Writers
    <2>3. ASSUME NEW q \in Queries, NEW a \in Attempts, NEW payer \in {"owner", "other"},
                 Ask(q, a, payer)
          PROVE  UNCHANGED Ledger!vars
      <3>1. Charges' = Charges
        BY <1>0, <2>3 DEF Ask, Charges
      <3> QED
        BY <2>1, <2>3, <3>1 DEF Ask, Ledger!vars
    <2>4. ASSUME NEW m \in Answer, TakeAnswer(m)
          PROVE  UNCHANGED Ledger!vars
      <3>1. Charges' = Charges
        <4>1. m.query \in Queries /\ query[m.query].state = "asked"
          BY <2>4 DEF TakeAnswer, IInv, OrderInv, Answer
        <4> QED
          BY <1>0, <2>4, <4>1 DEF TakeAnswer, Charges, Query
      <3> QED
        BY <2>1, <2>4, <3>1 DEF TakeAnswer, Ledger!vars
    <2>5. ASSUME NEW q \in Queries, Charge(q)
          PROVE  Ledger!Charge(q)
      <3>1. Charges' = Charges \cup {q}
        BY <1>0, <2>5 DEF Charge, Charges, Query
      <3> QED
        BY <2>1, <2>5, <3>1 DEF Charge, Ledger!Charge
    <2> QED
      BY <2>2, <2>3, <2>4, <2>5, Writers DEF Ledger!Next
  <1> QED
    BY <1>1, <1>2

(* Billing keeps its promise: every charge buys one period once, and       *)
(* nothing else renews a subscription.                                     *)
THEOREM ImplementsLedger == Spec => LedgerSpec
  <1>1. Init => Ledger!Init
    BY DEF Init, Ledger!Init, Charges, Applied, Unasked, NoAttempt
  <1>2. IInv /\ [Next]_vars => [Ledger!Next]_(Ledger!vars)
    BY LedgerStep
  <1> QED
    BY <1>1, <1>2, Inductive, PTL DEF Spec, LedgerSpec, Ledger!Spec
=============================================================================
