------------------------------- MODULE Payments -------------------------------
(***************************************************************************)
(* Buying a subscription period for one tenant: src/apps/subscriptions     *)
(* (payments.py, and services.py where it writes the subscription), the    *)
(* part of bale_webhook that answers pre-checkout queries and stores       *)
(* updates, and the part of process_bale_update that handles a successful  *)
(* payment.                                                                *)
(*                                                                         *)
(* Bale's wallet is the other side: it shows the invoice, asks whether a   *)
(* payment may proceed (a pre-checkout query, delivered until a webhook    *)
(* request succeeds), charges what was answered with ok and reports the    *)
(* charge under the identifier of the query.                               *)
(*                                                                         *)
(* Every service locks the PaymentAttempt row for its whole transaction,   *)
(* so one action is one transaction; what Bale, the broker and other       *)
(* requests do comes between them.                                         *)
(***************************************************************************)
EXTENDS Integers

CONSTANTS
  Attempts,    \* payment attempts that may be created
  Plans,       \* plans for sale
  Queries,     \* pre-checkout queries Bale may send
  Period,      \* 30 days
  MaxTime,     \* bound: how far the clock goes
  MaxRetries,  \* max_retries of process_bale_update (5 in the code)
  Faults       \* what may happen besides, a subset of FaultKinds

(* "close": administrators take plans off sale; "other": somebody else in  *)
(* the chat presses pay; "send": Bale or the configuration fails a call;   *)
(* "broker": publishing raises; "crash": a worker process is lost.         *)
FaultKinds == {"close", "other", "send", "broker", "crash"}

NoQuery == "no query"
Trial == "trial"

ASSUME ConstantsAssumption ==
  /\ Period \in Nat \ {0} /\ MaxTime \in Nat /\ MaxRetries \in Nat
  /\ Faults \subseteq FaultKinds
  /\ NoQuery \notin Queries
  /\ Trial \notin Plans

VARIABLES
  now,           \* the clock
  forSale,       \* plans that are active while online payment is enabled
  attempt,       \* [Attempts -> PaymentAttempt row]
  requests,      \* attempts whose create_and_send_invoice waits for Bale
  inChat,        \* attempts whose invoice Bale shows
  query,         \* [Queries -> what Bale knows of the query]
  answers,       \* answers to queries on their way to Bale
  task,          \* [Queries -> how far the update of the payment is]
  subscription   \* the Subscription row of the tenant

vars == <<now, forSale, attempt, requests, inChat, query, answers, task, subscription>>
invoices == <<requests, inChat>>
wallet == <<query, answers>>

AttemptStatus == {"NONE", "CREATED", "INVOICE_SENT", "PRECHECKOUT_APPROVED", "PAID",
                  "REJECTED", "FAILED"}
QueryIds == Queries \cup {NoQuery}
SoldPlans == Plans \cup {Trial}

Attempt == [status : AttemptStatus, plan : SoldPlans, query : QueryIds, charge : QueryIds,
            paidAt : 0 .. MaxTime]
NoAttempt == [status |-> "NONE", plan |-> Trial, query |-> NoQuery, charge |-> NoQuery,
              paidAt |-> 0]

Query == [state : {"none", "asked", "approved", "refused", "charged"},
          attempt : Attempts \cup {"none"}, payer : {"owner", "other"}]
Unasked == [state |-> "none", attempt |-> "none", payer |-> "owner"]

Answer == [query : Queries, ok : BOOLEAN]

(* unpublished: the update is stored and its task was not sent.            *)
Task == [stage : {"none", "unpublished", "queued", "notifying", "done", "dropped"},
         retries : 0 .. MaxRetries]
NoTask == [stage |-> "none", retries |-> 0]

Subscription == [status : {"NONE", "TRIALING", "ACTIVE", "EXPIRED"}, plan : SoldPlans, end : Nat]

Init ==
  /\ now = 0
  /\ forSale = Plans
  /\ attempt = [a \in Attempts |-> NoAttempt]
  /\ requests = {} /\ inChat = {}
  /\ query = [q \in Queries |-> Unasked]
  /\ answers = {}
  /\ task = [q \in Queries |-> NoTask]
  /\ subscription = [status |-> "NONE", plan |-> Trial, end |-> 0]

----------------------------------------------------------------------------
(* Time and administrators                                                 *)

Tick ==
  /\ now < MaxTime
  /\ now' = now + 1
  /\ UNCHANGED <<forSale, attempt, invoices, wallet, task, subscription>>

ChangeSale ==
  /\ "close" \in Faults
  /\ forSale' \in SUBSET Plans
  /\ UNCHANGED <<now, attempt, invoices, wallet, task, subscription>>

----------------------------------------------------------------------------
(* The subscription row                                                    *)

Current(s) == s.status \in {"TRIALING", "ACTIVE"}

(* get_or_create_subscription, which every service that needs the row calls *)
StartTrial ==
  /\ subscription.status = "NONE"
  /\ subscription' = [status |-> "TRIALING", plan |-> Trial, end |-> now + Period]
  /\ UNCHANGED <<now, forSale, attempt, invoices, wallet, task>>

(* refresh_subscription_state, part of every read of the subscription.     *)
Refresh ==
  /\ Current(subscription) /\ subscription.end <= now
  /\ subscription' = [subscription EXCEPT !.status = "EXPIRED"]
  /\ UNCHANGED <<now, forSale, attempt, invoices, wallet, task>>

(* Mutant: a renewal of the same plan always continues the old period.     *)
Activated_Continues(s, plan) ==
  [status |-> "ACTIVE", plan |-> plan,
   end |-> Period + IF s.plan = plan THEN s.end ELSE now]

(* _activate_subscription: the same plan, still running, is extended; a    *)
(* missing row is created and any other plan starts now.                   *)
Activated(s, plan) ==
  [status |-> "ACTIVE", plan |-> plan,
   end |-> Period + IF s.plan = plan /\ Current(s) /\ s.end > now THEN s.end ELSE now]

----------------------------------------------------------------------------
(* create_and_send_invoice                                                 *)

Save(a, row) == attempt' = [attempt EXCEPT ![a] = row]

CreateAttempt(a, plan) ==
  /\ attempt[a].status = "NONE"
  /\ plan \in forSale
  /\ Save(a, [NoAttempt EXCEPT !.status = "CREATED", !.plan = plan])
  /\ requests' = requests \cup {a}
  /\ UNCHANGED <<now, forSale, inChat, wallet, task, subscription>>

(* Bale shows the invoice, maybe long before or after the call returns.    *)
ShowInvoice(a) ==
  /\ attempt[a].status # "NONE" /\ a \notin inChat
  /\ inChat' = inChat \cup {a}
  /\ UNCHANGED <<now, forSale, attempt, requests, wallet, task, subscription>>

(* The call returned: the row this request created is saved over whatever  *)
(* its status is by now.                                                   *)
SaveInvoice(a) ==
  /\ a \in requests /\ a \in inChat
  /\ Save(a, [attempt[a] EXCEPT !.status = "INVOICE_SENT"])
  /\ requests' = requests \ {a}
  /\ UNCHANGED <<now, forSale, inChat, wallet, task, subscription>>

(* The call raised, whether or not Bale shows the invoice.                 *)
FailInvoice(a) ==
  /\ "send" \in Faults
  /\ a \in requests
  /\ Save(a, [attempt[a] EXCEPT !.status = "FAILED"])
  /\ requests' = requests \ {a}
  /\ UNCHANGED <<now, forSale, inChat, wallet, task, subscription>>

----------------------------------------------------------------------------
(* Pre-checkout                                                            *)

(* Somebody presses pay on an invoice, perhaps for the second time.        *)
Ask(q, a, payer) ==
  /\ query[q].state = "none" /\ a \in inChat
  /\ payer = "other" => "other" \in Faults
  /\ query' = [query EXCEPT ![q] = [state |-> "asked", attempt |-> a, payer |-> payer]]
  /\ UNCHANGED <<now, forSale, attempt, invoices, answers, task, subscription>>

(* Bale takes no notice of an answer to a query it is done with.           *)
Reply(q, ok) ==
  answers' = IF query[q].state = "asked" THEN answers \cup {[query |-> q, ok |-> ok]} ELSE answers

(* Mutant: an invoice may be paid while it is being sent.                  *)
Payable_Created(row) == row.status \in {"CREATED", "INVOICE_SENT", "PRECHECKOUT_APPROVED"}

Payable(row) == row.status \in {"INVOICE_SENT", "PRECHECKOUT_APPROVED"}

(* The sender is the owner of the invoice and the plan is still for sale;  *)
(* Bale repeats amount and currency from the invoice.                      *)
Acceptable(q, row) == query[q].payer = "owner" /\ row.plan \in forSale

(* Mutant: the query identifier of the attempt is not compared.            *)
OtherQuery_Never(q, row) == q = NoQuery /\ row.query = NoQuery

OtherQuery(q, row) == row.query \notin {NoQuery, q}

(* validate_precheckout, also for a query that is delivered again.  Only a *)
(* query that is acceptable is compared with the one approved before.      *)
Precheckout(q) ==
  LET a == query[q].attempt
      row == attempt[a] IN
  /\ query[q].state # "none"
  /\ \/ /\ ~Payable(row)
        /\ Reply(q, FALSE)
        /\ UNCHANGED attempt
     \/ /\ Payable(row) /\ ~Acceptable(q, row)
        /\ Save(a, [row EXCEPT !.status = "REJECTED", !.query = q])
        /\ Reply(q, FALSE)
     \/ /\ Payable(row) /\ Acceptable(q, row) /\ OtherQuery(q, row)
        /\ Reply(q, FALSE)
        /\ UNCHANGED attempt
     \/ /\ Payable(row) /\ Acceptable(q, row) /\ ~OtherQuery(q, row)
        /\ Save(a, [row EXCEPT !.status = "PRECHECKOUT_APPROVED", !.query = q])
        /\ Reply(q, TRUE)
  /\ UNCHANGED <<now, forSale, invoices, query, task, subscription>>

(* answer_precheckout reaches Bale, which goes by the first answer.        *)
TakeAnswer(m) ==
  /\ m \in answers
  /\ answers' = {n \in answers : n.query # m.query}
  /\ query' = [query EXCEPT ![m.query].state = IF m.ok THEN "approved" ELSE "refused"]
  /\ UNCHANGED <<now, forSale, attempt, invoices, task, subscription>>

Charge(q) ==
  /\ query[q].state = "approved"
  /\ query' = [query EXCEPT ![q].state = "charged"]
  /\ UNCHANGED <<now, forSale, attempt, invoices, answers, task, subscription>>

----------------------------------------------------------------------------
(* The successful payment                                                  *)

Stage(q, stage) == task' = [task EXCEPT ![q].stage = stage]

(* bale_webhook commits the InboundUpdate and then publishes its task; an  *)
(* update that is delivered again is known and publishes nothing.          *)
ReceivePayment(q) ==
  /\ query[q].state = "charged" /\ task[q].stage = "none"
  /\ \/ Stage(q, "queued")
     \/ "broker" \in Faults /\ Stage(q, "unpublished")
  /\ UNCHANGED <<now, forSale, attempt, invoices, wallet, subscription>>

(* The charge is that of the query that was approved, and of no other      *)
(* attempt.                                                                *)
Matches(q, row) ==
  /\ query[q].payer = "owner"
  /\ row.query \in {NoQuery, q}
  /\ \A b \in Attempts \ {query[q].attempt} : attempt[b].charge # q

(* Mutant: a payment that is processed again is applied again.             *)
ApplyPayment_Again(q) ==
  LET a == query[q].attempt IN
  /\ task[q].stage = "queued"
  /\ Matches(q, attempt[a])
  /\ Save(a, [attempt[a] EXCEPT !.status = "PAID", !.charge = q, !.paidAt = now])
  /\ subscription' = Activated(subscription, attempt[a].plan)
  /\ Stage(q, "notifying")
  /\ UNCHANGED <<now, forSale, invoices, wallet>>

(* process_successful_payment                                              *)
ApplyPayment(q) ==
  LET a == query[q].attempt
      row == attempt[a] IN
  /\ task[q].stage = "queued"
  /\ \/ /\ row.status = "PAID"
        /\ Stage(q, "notifying")
        /\ UNCHANGED <<attempt, subscription>>
     \/ /\ row.status # "PAID" /\ Matches(q, row)
        /\ Save(a, [row EXCEPT !.status = "PAID", !.charge = q, !.paidAt = now])
        /\ subscription' = Activated(subscription, row.plan)
        /\ Stage(q, "notifying")
     \/ /\ row.status # "PAID" /\ ~Matches(q, row)   \* PaymentError: not retried
        /\ Stage(q, "done")
        /\ UNCHANGED <<attempt, subscription>>
  /\ UNCHANGED <<now, forSale, invoices, wallet>>

(* The message to the payer is sent and processed_at is saved.             *)
FinishTask(q) ==
  /\ task[q].stage = "notifying"
  /\ Stage(q, "done")
  /\ UNCHANGED <<now, forSale, attempt, invoices, wallet, subscription>>

(* Mutant: the last retry is counted one late.                             *)
Retried_OneMore(t) ==
  IF t.retries <= MaxRetries THEN [stage |-> "queued", retries |-> t.retries + 1]
                             ELSE [t EXCEPT !.stage = "dropped"]

Retried(t) ==
  IF t.retries < MaxRetries THEN [stage |-> "queued", retries |-> t.retries + 1]
                            ELSE [t EXCEPT !.stage = "dropped"]

(* Another exception, before or after the payment was applied.             *)
FailTask(q) ==
  /\ "send" \in Faults
  /\ task[q].stage \in {"queued", "notifying"}
  /\ task' = [task EXCEPT ![q] = Retried(@)]
  /\ UNCHANGED <<now, forSale, attempt, invoices, wallet, subscription>>

(* The worker is lost after the payment was applied and before the message *)
(* is acknowledged; the broker delivers it again.                          *)
Crash(q) ==
  /\ "crash" \in Faults
  /\ task[q].stage = "notifying"
  /\ Stage(q, "queued")
  /\ UNCHANGED <<now, forSale, attempt, invoices, wallet, subscription>>

----------------------------------------------------------------------------

Next ==
  \/ Tick \/ ChangeSale \/ StartTrial \/ Refresh
  \/ \E a \in Attempts :
       \/ \E plan \in Plans : CreateAttempt(a, plan)
       \/ ShowInvoice(a) \/ SaveInvoice(a) \/ FailInvoice(a)
  \/ \E q \in Queries :
       \/ \E a \in Attempts, payer \in {"owner", "other"} : Ask(q, a, payer)
       \/ Precheckout(q) \/ Charge(q)
       \/ ReceivePayment(q) \/ ApplyPayment(q) \/ FinishTask(q) \/ FailTask(q) \/ Crash(q)
  \/ \E m \in Answer : TakeAnswer(m)

Spec == Init /\ [][Next]_vars

----------------------------------------------------------------------------
(* Properties                                                              *)

TypeOK ==
  /\ now \in 0 .. MaxTime
  /\ forSale \subseteq Plans
  /\ attempt \in [Attempts -> Attempt]
  /\ requests \subseteq Attempts /\ inChat \subseteq Attempts
  /\ query \in [Queries -> Query]
  /\ answers \subseteq Answer
  /\ task \in [Queries -> Task]
  /\ subscription \in Subscription

(* Bale was told to go on with the query, or is about to be.               *)
GoneThrough(q) ==
  query[q].state \in {"approved", "charged"} \/ [query |-> q, ok |-> TRUE] \in answers

(* No invoice is charged twice: at most one query of an attempt is ever    *)
(* answered with ok, however often people press pay and Bale asks again.   *)
ChargedOnce ==
  \A q, r \in Queries :
    GoneThrough(q) /\ GoneThrough(r) /\ query[q].attempt = query[r].attempt => q = r

(* A payment that was applied stays applied: no late save of the invoice,  *)
(* query or duplicate of the payment changes its row.                      *)
PaidIsFinal ==
  [][\A a \in Attempts : attempt[a].status = "PAID" => attempt'[a] = attempt[a]]_attempt

(* Whoever paid has an active subscription for a period from then on,      *)
(* whatever is bought, renewed or expired meanwhile.                       *)
PaidIsActive ==
  \A a \in Attempts :
    attempt[a].status = "PAID" /\ now < attempt[a].paidAt + Period
      => subscription.status = "ACTIVE" /\ subscription.end >= attempt[a].paidAt + Period

(* A charge is applied when its update has been processed.                 *)
ChargeApplied ==
  \A q \in Queries : task[q].stage = "done" => attempt[query[q].attempt].status = "PAID"

(* Every charge buys its period once, and nothing else does.               *)
Charges == {q \in Queries : query[q].state = "charged"}
Applied == {attempt[a].charge : a \in {b \in Attempts : attempt[b].status = "PAID"}}
Ledger == INSTANCE BillingLedger WITH
            Charges <- Queries, charged <- Charges, applied <- Applied,
            status <- subscription.status, end <- subscription.end
LedgerSpec == Ledger!Spec
=============================================================================
