-------------------------------- MODULE Quotas --------------------------------
(***************************************************************************)
(* The quotas of one tenant: src/apps/subscriptions/services.py, with its  *)
(* callers create_case, add_tenant_member, the first message of a user,    *)
(* and the costly jobs (transcription seconds, extractions; one metric     *)
(* stands for both).                                                       *)
(*                                                                         *)
(* Every service locks the row of the tenant first.  Inside create_case    *)
(* and add_tenant_member that lock is held until their commit, so what     *)
(* they checked still holds when they insert.  A costly job asserts one    *)
(* unit when it starts and records what it used when it ends: nothing is   *)
(* held, or reserved, in between.                                          *)
(***************************************************************************)
EXTENDS Integers, FiniteSets

CONSTANTS
  Plans,        \* plans of the tenant
  CaseLimit,    \* [Plans -> max_cases_per_period]
  JobLimit,     \* [Plans -> limit of the costly metric per period]
  MemberLimit,  \* [Plans -> max_members]
  Overrides,    \* values of the entitlement limit.<metric>
  Requests,     \* requests that create a case
  Jobs,         \* costly jobs
  Users,        \* users that may become members
  MaxCost,      \* bound: what one job may use
  Workers       \* worker processes that run costly jobs

NoOverride == -1

ASSUME QuotasAssumption ==
  /\ Plans # {}
  /\ CaseLimit \in [Plans -> Nat] /\ JobLimit \in [Plans -> Nat] /\ MemberLimit \in [Plans -> Nat]
  /\ Overrides \subseteq Nat
  /\ MaxCost \in Nat \ {0} /\ Workers \in Nat \ {0}
  /\ IsFiniteSet(Users) /\ IsFiniteSet(Jobs) /\ IsFiniteSet(Requests)

VARIABLES
  sub,        \* the Subscription row and its Entitlement overrides
  over,       \* current_period_end has passed
  used,       \* [cases, jobs: UsageRecord quantities of the period]
  creating,   \* [Requests -> how far create_case is]
  joining,    \* [Users -> how far add_tenant_member is]
  job,        \* [Jobs -> how far the job is]
  membership, \* [Users -> TenantMembership row; restored: made active again]
  peak        \* history: the largest limits in force (since the period began; members: ever)

quotaVars == <<sub, over, used, creating, joining, job, membership, peak>>
people == <<joining, membership>>

Overridable == [cases : Overrides \cup {NoOverride}, jobs : Overrides \cup {NoOverride}]

Sub == [status : {"NONE", "TRIALING", "ACTIVE", "PAST_DUE", "CANCELLED", "EXPIRED"},
        plan : Plans, override : Overridable]

Amounts == [cases : Nat, jobs : Nat]
Limits == [cases : Nat, jobs : Nat, members : Nat]
Nothing == [cases |-> 0, jobs |-> 0]

----------------------------------------------------------------------------
(* The subscription                                                        *)

Current(s) == s.status \in {"TRIALING", "ACTIVE"}

(* refresh_subscription_state, part of every read.                         *)
Refreshed(s) == IF Current(s) /\ over THEN [s EXCEPT !.status = "EXPIRED"] ELSE s

(* metric_limit for both metrics, and max_members.                         *)
LimitsOf(s) ==
  [cases   |-> IF s.override.cases = NoOverride THEN CaseLimit[s.plan] ELSE s.override.cases,
   jobs    |-> IF s.override.jobs = NoOverride THEN JobLimit[s.plan] ELSE s.override.jobs,
   members |-> MemberLimit[s.plan]]

Larger(m, n) == IF m >= n THEN m ELSE n

Raised(p, l) == [cases |-> Larger(p.cases, l.cases), jobs |-> Larger(p.jobs, l.jobs),
                 members |-> Larger(p.members, l.members)]

(* The tenant row is locked by a creation or an addition that has checked. *)
LockFree ==
  /\ \A q \in Requests : creating[q] # "checked"
  /\ \A u \in Users : joining[u] # "checked"

InitQuotas ==
  /\ \E p \in Plans :
       sub = [status |-> "NONE", plan |-> p,
              override |-> [cases |-> NoOverride, jobs |-> NoOverride]]
  /\ over = FALSE
  /\ used = Nothing
  /\ creating = [q \in Requests |-> "none"]
  /\ joining = [u \in Users |-> "none"]
  /\ job = [j \in Jobs |-> "none"]
  /\ membership = [u \in Users |-> "none"]
  /\ peak = LimitsOf(sub)

(* Changing the row; a new period starts with nothing used.                *)
SamePeriod(s) ==
  /\ sub' = s
  /\ peak' = Raised(peak, LimitsOf(s))
  /\ UNCHANGED <<over, used>>

StartPeriod(s) ==
  /\ sub' = s /\ over' = FALSE
  /\ used' = Nothing
  /\ peak' = [LimitsOf(s) EXCEPT !.members = Larger(peak.members, @)]

(* get_or_create_subscription, which every service calls first: the trial. *)
StartTrial ==
  /\ LockFree /\ sub.status = "NONE"
  /\ StartPeriod([sub EXCEPT !.status = "TRIALING"])
  /\ UNCHANGED <<creating, people, job>>

Refresh ==
  /\ LockFree /\ Refreshed(sub) # sub
  /\ SamePeriod(Refreshed(sub))
  /\ UNCHANGED <<creating, people, job>>

EndPeriod ==
  /\ sub.status # "NONE" /\ ~over
  /\ over' = TRUE
  /\ UNCHANGED <<sub, used, creating, people, job, peak>>

(* _activate_subscription for a payment: the same plan that still runs is  *)
(* extended, and keeps both its start and what was used since.             *)
Pay(p) ==
  /\ LockFree /\ sub.status # "NONE"
  /\ LET paid == [sub EXCEPT !.plan = p, !.status = "ACTIVE"]
     IN  IF sub.plan = p /\ Current(sub) /\ ~over THEN SamePeriod(paid) ELSE StartPeriod(paid)
  /\ UNCHANGED <<creating, people, job>>

(* change_plan, set_subscription_status and set_entitlement                *)
Administer ==
  /\ LockFree /\ sub.status # "NONE"
  /\ \/ \E p \in Plans : SamePeriod([sub EXCEPT !.plan = p, !.status = "ACTIVE"])
     \/ \E status \in {"PAST_DUE", "CANCELLED", "ACTIVE"} :
          SamePeriod([sub EXCEPT !.status = status])
     \/ \E v \in Overrides : \/ SamePeriod([sub EXCEPT !.override.cases = v])
                             \/ SamePeriod([sub EXCEPT !.override.jobs = v])
  /\ UNCHANGED <<creating, people, job>>

(* renew_subscription_period *)
RenewPeriod ==
  /\ LockFree /\ sub.status # "NONE"
  /\ StartPeriod([sub EXCEPT !.status = "ACTIVE"])
  /\ UNCHANGED <<creating, people, job>>

----------------------------------------------------------------------------
(* Cases and members: check and insert under the lock of the tenant        *)

(* record_usage: what is recorded after the end of the period is in none.  *)
Recorded(metric, quantity) ==
  used' = IF over THEN used ELSE [used EXCEPT ![metric] = @ + quantity]

(* Mutant: the check does not hold the tenant's row.                       *)
CheckCase_Unlocked(q) ==
  /\ creating[q] = "none" /\ sub.status # "NONE"
  /\ used.cases + 1 <= LimitsOf(sub).cases
  /\ creating' = [creating EXCEPT ![q] = "checked"]
  /\ SamePeriod(Refreshed(sub))
  /\ UNCHANGED <<people, job>>

(* assert_quota in create_case: the subscription need not be current.      *)
CheckCase(q) ==
  /\ LockFree
  /\ creating[q] = "none" /\ sub.status # "NONE"
  /\ used.cases + 1 <= LimitsOf(sub).cases
  /\ creating' = [creating EXCEPT ![q] = "checked"]
  /\ SamePeriod(Refreshed(sub))
  /\ UNCHANGED <<people, job>>

(* The case and its usage are inserted and committed.                      *)
InsertCase(q) ==
  /\ creating[q] = "checked"
  /\ creating' = [creating EXCEPT ![q] = "done"]
  /\ Recorded("cases", 1)
  /\ UNCHANGED <<sub, over, people, job, peak>>

Members == {u \in Users : membership[u] \in {"active", "restored"}}

(* Mutant: the limit itself still admits a member.                         *)
CheckMember_OneMore(u) ==
  /\ LockFree
  /\ joining[u] = "none" /\ membership[u] = "none" /\ sub.status # "NONE"
  /\ Cardinality(Members) <= LimitsOf(sub).members
  /\ joining' = [joining EXCEPT ![u] = "checked"]
  /\ UNCHANGED <<sub, over, used, creating, job, membership, peak>>

(* add_tenant_member for somebody without a row.                           *)
CheckMember(u) ==
  /\ LockFree
  /\ joining[u] = "none" /\ membership[u] = "none" /\ sub.status # "NONE"
  /\ Cardinality(Members) < LimitsOf(sub).members
  /\ joining' = [joining EXCEPT ![u] = "checked"]
  /\ UNCHANGED <<sub, over, used, creating, job, membership, peak>>

InsertMember(u) ==
  /\ joining[u] = "checked"
  /\ joining' = [joining EXCEPT ![u] = "done"]
  /\ membership' = [membership EXCEPT ![u] = "active"]
  /\ UNCHANGED <<sub, over, used, creating, job, peak>>

(* An inactive row is made active before the tenant is locked or counted.  *)
RestoreMember(u) ==
  /\ membership[u] = "inactive"
  /\ membership' = [membership EXCEPT ![u] = "restored"]
  /\ UNCHANGED <<sub, over, used, creating, joining, job, peak>>

Deactivate(u) ==
  /\ u \in Members
  /\ membership' = [membership EXCEPT ![u] = "inactive"]
  /\ UNCHANGED <<sub, over, used, creating, joining, job, peak>>

----------------------------------------------------------------------------
(* Costly jobs                                                             *)

Running == {j \in Jobs : job[j] = "running"}

(* Mutant: only the subscription is looked at, not what was used.          *)
StartJob_Unmetered(j) ==
  /\ LockFree
  /\ job[j] = "none" /\ Cardinality(Running) < Workers
  /\ Current(Refreshed(sub))
  /\ job' = [job EXCEPT ![j] = "running"]
  /\ UNCHANGED <<sub, over, used, creating, people, peak>>

(* assert_quota(..., 1) as a worker claims the job.                        *)
StartJob(j) ==
  /\ LockFree
  /\ job[j] = "none" /\ Cardinality(Running) < Workers
  /\ Current(Refreshed(sub))
  /\ used.jobs + 1 <= LimitsOf(sub).jobs
  /\ job' = [job EXCEPT ![j] = "running"]
  /\ UNCHANGED <<sub, over, used, creating, people, peak>>

(* record_usage in the transaction that makes the job succeed: the billed  *)
(* seconds, or one extraction.                                             *)
FinishJob(j, cost) ==
  /\ job[j] = "running"
  /\ job' = [job EXCEPT ![j] = "done"]
  /\ Recorded("jobs", cost)
  /\ UNCHANGED <<sub, over, creating, people, peak>>

(* A failed or lost job may be started again; nothing was recorded.        *)
FailJob(j) ==
  /\ job[j] = "running"
  /\ job' = [job EXCEPT ![j] = "none"]
  /\ UNCHANGED <<sub, over, used, creating, people, peak>>

----------------------------------------------------------------------------

NextQuotas ==
  \/ StartTrial \/ Refresh \/ EndPeriod \/ Administer \/ RenewPeriod
  \/ \E p \in Plans : Pay(p)
  \/ \E q \in Requests : CheckCase(q) \/ InsertCase(q)
  \/ \E u \in Users :
       CheckMember(u) \/ InsertMember(u) \/ RestoreMember(u) \/ Deactivate(u)
  \/ \E j \in Jobs :
       \/ StartJob(j) \/ FailJob(j)
       \/ \E cost \in 1 .. MaxCost : FinishJob(j, cost)

SpecQuotas == InitQuotas /\ [][NextQuotas]_quotaVars

----------------------------------------------------------------------------
(* Properties                                                              *)

QuotaTypeOK ==
  /\ sub \in Sub
  /\ over \in BOOLEAN
  /\ used \in Amounts
  /\ creating \in [Requests -> {"none", "checked", "done"}]
  /\ joining \in [Users -> {"none", "checked", "done"}]
  /\ job \in [Jobs -> {"none", "running", "done"}]
  /\ membership \in [Users -> {"none", "active", "inactive", "restored"}]
  /\ peak \in Limits

(* However many requests create cases at once, the cases of a period never *)
(* exceed the largest limit that was in force in it: the lock taken by     *)
(* assert_quota is kept until create_case has recorded its case.           *)
CaseQuotaExact == used.cases <= peak.cases

(* Costly work may overrun its limit, as nothing is reserved, but only by  *)
(* what the workers had started when the last unit was still free          *)
(* (assert_quota and record_usage around the call of the provider).        *)
OverrunBounded == used.jobs <= Larger(peak.jobs - 1, 0) + Workers * MaxCost

(* Members who were added never outnumber the largest max_members the      *)
(* tenant has had; the ones who come back are admitted without a check     *)
(* (add_tenant_member).                                                    *)
MembersWithinLimit ==
  Cardinality({u \in Users : membership[u] = "active"}) <= peak.members
=============================================================================
