----------------------------- MODULE QuotasProofs -----------------------------
(* What holds of Quotas for any plans, limits, requests, jobs, users, cost *)
(* of a job and number of workers.                                         *)
EXTENDS Quotas, TLAPS, FiniteSetTheorems

(* Whoever has checked holds the tenant, alone.                            *)
AloneInv ==
  /\ \A q, r \in Requests : creating[q] = "checked" /\ creating[r] = "checked" => q = r
  /\ \A u, w \in Users : joining[u] = "checked" /\ joining[w] = "checked" => u = w
  /\ \A q \in Requests, u \in Users : ~(creating[q] = "checked" /\ joining[u] = "checked")

(* The history is at least what is in force.                               *)
PeakInv ==
  LET l == LimitsOf(sub)
  IN  peak.cases >= l.cases /\ peak.jobs >= l.jobs /\ peak.members >= l.members

(* What was checked still holds when the case is inserted.                 *)
CaseInv ==
  /\ CaseQuotaExact
  /\ \A q \in Requests : creating[q] = "checked" => used.cases + 1 <= peak.cases

(* Every running job may still record its cost; the last one was started   *)
(* while a unit was free.                                                  *)
JobInv ==
  /\ Cardinality(Running) <= Workers
  /\ used.jobs + MaxCost * Cardinality(Running)
       <= Larger(peak.jobs - 1, 0) + Workers * MaxCost

Added == {u \in Users : membership[u] = "active"}

MemberInv ==
  /\ MembersWithinLimit
  /\ \A u \in Users : joining[u] = "checked" =>
       membership[u] = "none" /\ Cardinality(Added) < peak.members

QuotaInv == QuotaTypeOK /\ AloneInv /\ PeakInv /\ CaseInv /\ JobInv /\ MemberInv

----------------------------------------------------------------------------
(* The two ways in which a service changes the subscription                *)

LEMMA LimitsType == \A s \in Sub : LimitsOf(s) \in Limits
BY QuotasAssumption DEF Sub, Overridable, LimitsOf, Limits, NoOverride

LEMMA SamePeriodFacts ==
  ASSUME QuotaTypeOK, PeakInv, NEW s \in Sub, SamePeriod(s)
  PROVE  /\ sub' \in Sub /\ over' = over /\ used' = used /\ peak' \in Limits /\ PeakInv'
         /\ peak'.cases >= peak.cases /\ peak'.jobs >= peak.jobs
         /\ peak'.members >= peak.members
<1>1. LimitsOf(s) \in Limits /\ peak \in Limits
  BY LimitsType DEF QuotaTypeOK
<1>2. sub' = s /\ peak' = Raised(peak, LimitsOf(s)) /\ over' = over /\ used' = used
  BY DEF SamePeriod
<1> QED
  BY <1>1, <1>2 DEF Raised, Larger, Limits, PeakInv

LEMMA StartPeriodFacts ==
  ASSUME QuotaTypeOK, NEW s \in Sub, StartPeriod(s)
  PROVE  /\ sub' \in Sub /\ over' = FALSE /\ used' = Nothing /\ peak' \in Limits /\ PeakInv'
         /\ peak'.members >= peak.members
<1>1. LimitsOf(s) \in Limits /\ peak \in Limits
  BY LimitsType DEF QuotaTypeOK
<1>2. /\ sub' = s /\ over' = FALSE /\ used' = Nothing
      /\ peak' = [LimitsOf(s) EXCEPT !.members = Larger(peak.members, @)]
  BY DEF StartPeriod
<1> QED
  BY <1>1, <1>2 DEF Larger, Limits, PeakInv

----------------------------------------------------------------------------
(* Each kind of step                                                       *)

Waiting == UNCHANGED <<creating, people, job>>

LEMMA RunningFinite == Cardinality(Running) \in Nat /\ Cardinality(Added) \in Nat
BY QuotasAssumption, FS_Subset, FS_CardinalityType DEF Running, Added

(* Nothing that waits is disturbed within a period.                        *)
LEMMA SamePeriodStep ==
  ASSUME QuotaInv, NEW s \in Sub, SamePeriod(s), Waiting
  PROVE  QuotaInv'
<1>1. /\ sub' \in Sub /\ over' = over /\ used' = used /\ peak' \in Limits /\ PeakInv'
      /\ peak'.cases >= peak.cases /\ peak'.jobs >= peak.jobs
      /\ peak'.members >= peak.members
  BY SamePeriodFacts DEF QuotaInv
<1>2. Running' = Running /\ Added' = Added
  BY DEF Waiting, Running, Added, people
<1>3. QuotaTypeOK'
  BY <1>1 DEF Waiting, QuotaInv, QuotaTypeOK, people
<1>4. peak \in Limits /\ used \in Amounts
  BY DEF QuotaInv, QuotaTypeOK
<1>5. AloneInv'
  BY DEF Waiting, QuotaInv, AloneInv, people
<1>6. CaseInv'
  BY <1>1, <1>4 DEF Waiting, QuotaInv, CaseInv, CaseQuotaExact, Limits, Amounts
<1>7. Larger(peak'.jobs - 1, 0) >= Larger(peak.jobs - 1, 0)
  BY <1>1, <1>4 DEF Larger, Limits
<1>8. JobInv'
  <2>1. MaxCost * Cardinality(Running) \in Nat /\ Workers * MaxCost \in Nat
    BY QuotasAssumption, RunningFinite
  <2>2. Larger(peak'.jobs - 1, 0) \in Int /\ Larger(peak.jobs - 1, 0) \in Int
    BY <1>1, <1>4 DEF Larger, Limits
  <2> HIDE DEF Larger
  <2> QED
    BY <1>1, <1>2, <1>4, <1>7, <2>1, <2>2 DEF QuotaInv, JobInv, Amounts
<1>9. MemberInv'
  BY <1>1, <1>2, <1>4, RunningFinite
  DEF Waiting, QuotaInv, MemberInv, MembersWithinLimit, Added, Limits, people
<1> QED
  BY <1>1, <1>3, <1>5, <1>6, <1>8, <1>9 DEF QuotaInv

(* A new period begins while nobody holds the tenant; running jobs stay.   *)
LEMMA StartPeriodStep ==
  ASSUME QuotaInv, NEW s \in Sub, StartPeriod(s), LockFree, Waiting
  PROVE  QuotaInv'
<1>1. /\ sub' \in Sub /\ over' = FALSE /\ used' = Nothing /\ peak' \in Limits /\ PeakInv'
      /\ peak'.members >= peak.members
  BY StartPeriodFacts DEF QuotaInv
<1>2. Running' = Running /\ Added' = Added
  BY DEF Waiting, Running, Added, people
<1>3. QuotaTypeOK'
  BY <1>1 DEF Waiting, QuotaInv, QuotaTypeOK, people, Nothing, Amounts
<1>4. peak \in Limits
  BY DEF QuotaInv, QuotaTypeOK
<1>5. AloneInv'
  BY DEF Waiting, QuotaInv, AloneInv, people
<1>6. CaseInv'
  BY <1>1, <1>4 DEF Waiting, LockFree, CaseInv, CaseQuotaExact, Limits, Nothing
<1>7. JobInv'
  <2>1. Cardinality(Running) <= Workers
    BY DEF QuotaInv, JobInv
  <2>2. MaxCost * Cardinality(Running) <= Workers * MaxCost
    BY <2>1, QuotasAssumption, RunningFinite
  <2>3. Larger(peak'.jobs - 1, 0) >= 0 /\ Larger(peak'.jobs - 1, 0) \in Int
    BY <1>1 DEF Larger, Limits
  <2>4. MaxCost * Cardinality(Running) \in Nat /\ Workers * MaxCost \in Nat
    BY QuotasAssumption, RunningFinite
  <2> QED
    BY <1>1, <1>2, <2>1, <2>2, <2>3, <2>4 DEF JobInv, Nothing
<1>8. MemberInv'
  BY <1>1, <1>2, <1>4, RunningFinite
  DEF Waiting, QuotaInv, MemberInv, MembersWithinLimit, Added, Limits, people
<1> QED
  BY <1>1, <1>3, <1>5, <1>6, <1>7, <1>8 DEF QuotaInv

(* The services on the subscription are steps of one of the two kinds.     *)
LEMMA SubscriptionStep ==
  ASSUME QuotaInv, StartTrial \/ Refresh \/ Administer \/ RenewPeriod \/ (\E p \in Plans : Pay(p))
  PROVE  QuotaInv'
<1>0. sub \in Sub
  BY DEF QuotaInv, QuotaTypeOK
<1> USE DEF Sub, Overridable
<1>1. CASE StartTrial
  <2>1. [sub EXCEPT !.status = "TRIALING"] \in Sub
    BY <1>0
  <2> QED
    BY <1>1, <2>1, StartPeriodStep DEF StartTrial, Waiting
<1>2. CASE Refresh
  <2>1. Refreshed(sub) \in Sub
    BY <1>0 DEF Refreshed
  <2> QED
    BY <1>2, <2>1, SamePeriodStep DEF Refresh, Waiting
<1>3. CASE Administer
  <2>1. PICK s \in Sub : SamePeriod(s)
    <3>1. ASSUME NEW p \in Plans, SamePeriod([sub EXCEPT !.plan = p, !.status = "ACTIVE"])
          PROVE  \E s \in Sub : SamePeriod(s)
      BY <1>0, <3>1
    <3>2. ASSUME NEW status \in {"PAST_DUE", "CANCELLED", "ACTIVE"},
                 SamePeriod([sub EXCEPT !.status = status])
          PROVE  \E s \in Sub : SamePeriod(s)
      BY <1>0, <3>2
    <3>3. ASSUME NEW v \in Overrides, SamePeriod([sub EXCEPT !.override.cases = v])
          PROVE  \E s \in Sub : SamePeriod(s)
      BY <1>0, <3>3
    <3>4. ASSUME NEW v \in Overrides, SamePeriod([sub EXCEPT !.override.jobs = v])
          PROVE  \E s \in Sub : SamePeriod(s)
      BY <1>0, <3>4
    <3> QED
      BY <1>3, <3>1, <3>2, <3>3, <3>4 DEF Administer
  <2> QED
    BY <1>3, <2>1, SamePeriodStep DEF Administer, Waiting
<1>4. CASE RenewPeriod
  <2>1. [sub EXCEPT !.status = "ACTIVE"] \in Sub
    BY <1>0
  <2> QED
    BY <1>4, <2>1, StartPeriodStep DEF RenewPeriod, Waiting
<1>5. ASSUME NEW p \in Plans, Pay(p) PROVE QuotaInv'
  <2>1. [sub EXCEPT !.plan = p, !.status = "ACTIVE"] \in Sub
    BY <1>0
  <2> QED
    BY <1>5, <2>1, SamePeriodStep, StartPeriodStep DEF Pay, Waiting
<1> QED
  BY <1>1, <1>2, <1>3, <1>4, <1>5

LEMMA EndPeriodStep == ASSUME QuotaInv, EndPeriod PROVE QuotaInv'
BY DEF QuotaInv, EndPeriod, QuotaTypeOK, AloneInv, PeakInv, CaseInv, CaseQuotaExact, JobInv, Running,
       MemberInv, MembersWithinLimit, Added, people, Larger, LimitsOf

----------------------------------------------------------------------------
(* Cases                                                                   *)

LEMMA CheckCaseStep == ASSUME QuotaInv, NEW q \in Requests, CheckCase(q) PROVE QuotaInv'
<1>1. Refreshed(sub) \in Sub
  BY DEF QuotaInv, QuotaTypeOK, Refreshed, Sub
<1>2. /\ sub' \in Sub /\ over' = over /\ used' = used /\ peak' \in Limits /\ PeakInv'
      /\ peak'.cases >= peak.cases /\ peak'.jobs >= peak.jobs
      /\ peak'.members >= peak.members
  BY <1>1, SamePeriodFacts DEF QuotaInv, CheckCase
<1>3. /\ LockFree /\ used.cases + 1 <= LimitsOf(sub).cases
      /\ creating' = [creating EXCEPT ![q] = "checked"] /\ UNCHANGED <<joining, membership, job>>
  BY DEF CheckCase, people
<1>4. peak \in Limits /\ used \in Amounts /\ LimitsOf(sub) \in Limits
  BY LimitsType DEF QuotaInv, QuotaTypeOK
<1>5. QuotaTypeOK'
  BY <1>2, <1>3 DEF QuotaInv, QuotaTypeOK
<1>6. AloneInv'
  BY <1>3 DEF QuotaInv, QuotaTypeOK, AloneInv, LockFree
<1>7. used.cases + 1 <= peak'.cases
  BY <1>2, <1>3, <1>4 DEF QuotaInv, PeakInv, Limits, Amounts
<1>8. CaseInv'
  BY <1>2, <1>4, <1>7 DEF CaseInv, CaseQuotaExact, Limits, Amounts
<1>9. Larger(peak'.jobs - 1, 0) >= Larger(peak.jobs - 1, 0)
  BY <1>2, <1>4 DEF Larger, Limits
<1>10. JobInv'
  <2>1. MaxCost * Cardinality(Running) \in Nat /\ Workers * MaxCost \in Nat
    BY QuotasAssumption, RunningFinite
  <2>2. Larger(peak'.jobs - 1, 0) \in Int /\ Larger(peak.jobs - 1, 0) \in Int
    BY <1>2, <1>4 DEF Larger, Limits
  <2>3. Running' = Running
    BY <1>3 DEF Running
  <2> HIDE DEF Larger
  <2> QED
    BY <1>2, <1>4, <1>9, <2>1, <2>2, <2>3 DEF QuotaInv, JobInv, Amounts
<1>11. MemberInv'
  <2>1. Added' = Added
    BY <1>3 DEF Added
  <2>2. peak.members \in Nat /\ peak'.members \in Nat /\ Cardinality(Added) \in Nat
    BY <1>2, <1>4, RunningFinite DEF Limits
  <2>3. Cardinality(Added) <= peak.members
    BY DEF QuotaInv, MemberInv, MembersWithinLimit, Added
  <2>4. Cardinality(Added') <= peak'.members
    BY <1>2, <2>1, <2>2, <2>3
  <2>5. MembersWithinLimit'
    BY <2>4 DEF MembersWithinLimit, Added
  <2>6. ASSUME NEW u \in Users, joining'[u] = "checked"
        PROVE  membership'[u] = "none" /\ Cardinality(Added') < peak'.members
    BY <1>2, <1>3, <2>1, <2>2, <2>6 DEF QuotaInv, MemberInv
  <2> QED
    BY <2>5, <2>6 DEF MemberInv
<1> QED
  BY <1>2, <1>5, <1>6, <1>8, <1>10, <1>11 DEF QuotaInv

LEMMA InsertCaseStep == ASSUME QuotaInv, NEW q \in Requests, InsertCase(q) PROVE QuotaInv'
<1>1. /\ creating[q] = "checked" /\ creating' = [creating EXCEPT ![q] = "done"]
      /\ used' \in {used, [used EXCEPT !.cases = @ + 1]}
      /\ UNCHANGED <<sub, over, joining, membership, job, peak>>
  BY DEF InsertCase, Recorded, people
<1>2. used \in Amounts
  BY DEF QuotaInv, QuotaTypeOK
<1>3. used' \in Amounts /\ used'.jobs = used.jobs /\ used'.cases <= used.cases + 1
  BY <1>1, <1>2 DEF Amounts
<1>4. QuotaTypeOK'
  BY <1>1, <1>3 DEF QuotaInv, QuotaTypeOK
<1>5. AloneInv' /\ PeakInv' /\ JobInv' /\ MemberInv'
  BY <1>1, <1>3 DEF QuotaInv, QuotaTypeOK, AloneInv, PeakInv, LimitsOf, JobInv, Running, MemberInv,
                    MembersWithinLimit, Added, Larger
<1>6. used.cases + 1 <= peak.cases /\ \A r \in Requests \ {q} : creating[r] # "checked"
  BY <1>1 DEF QuotaInv, CaseInv, AloneInv
<1>7. CaseInv'
  BY <1>1, <1>2, <1>3, <1>6 DEF QuotaInv, QuotaTypeOK, CaseInv, CaseQuotaExact, Amounts, Limits
<1> QED
  BY <1>4, <1>5, <1>7 DEF QuotaInv

----------------------------------------------------------------------------
(* Members                                                                 *)

LEMMA CheckMemberStep == ASSUME QuotaInv, NEW u \in Users, CheckMember(u) PROVE QuotaInv'
<1>1. /\ LockFree /\ membership[u] = "none" /\ Cardinality(Members) < LimitsOf(sub).members
      /\ joining' = [joining EXCEPT ![u] = "checked"]
      /\ UNCHANGED <<sub, over, used, creating, job, membership, peak>>
  BY DEF CheckMember
<1>2. QuotaTypeOK' /\ AloneInv' /\ PeakInv' /\ CaseInv' /\ JobInv'
  BY <1>1 DEF QuotaInv, QuotaTypeOK, AloneInv, LockFree, PeakInv, LimitsOf, CaseInv, CaseQuotaExact,
              JobInv, Running, Larger
<1>3. Cardinality(Added) <= Cardinality(Members) /\ Cardinality(Members) \in Nat
  <2>1. Added \subseteq Members /\ Members \subseteq Users
    BY DEF Added, Members
  <2> QED
    BY <2>1, QuotasAssumption, FS_Subset, FS_CardinalityType
<1>4. Cardinality(Added) < peak.members
  BY <1>1, <1>3, RunningFinite, LimitsType DEF QuotaInv, QuotaTypeOK, PeakInv, Limits
<1>5. MemberInv'
  BY <1>1, <1>4, RunningFinite DEF QuotaInv, QuotaTypeOK, LockFree, MemberInv, MembersWithinLimit, Added
<1> QED
  BY <1>2, <1>5 DEF QuotaInv

LEMMA InsertMemberStep == ASSUME QuotaInv, NEW u \in Users, InsertMember(u) PROVE QuotaInv'
<1>1. /\ joining[u] = "checked" /\ joining' = [joining EXCEPT ![u] = "done"]
      /\ membership' = [membership EXCEPT ![u] = "active"]
      /\ UNCHANGED <<sub, over, used, creating, job, peak>>
  BY DEF InsertMember
<1>2. QuotaTypeOK' /\ AloneInv' /\ PeakInv' /\ CaseInv' /\ JobInv'
  BY <1>1 DEF QuotaInv, QuotaTypeOK, AloneInv, PeakInv, LimitsOf, CaseInv, CaseQuotaExact, JobInv,
              Running, Larger
<1>3. Added' = Added \cup {u} /\ u \notin Added
  BY <1>1 DEF QuotaInv, QuotaTypeOK, MemberInv, Added
<1>4. Cardinality(Added') = Cardinality(Added) + 1
  <2>1. IsFiniteSet(Added)
    BY QuotasAssumption, FS_Subset DEF Added
  <2> QED
    BY <1>3, <2>1, FS_AddElement
<1>5. Cardinality(Added) < peak.members /\ \A w \in Users \ {u} : joining[w] # "checked"
  BY <1>1 DEF QuotaInv, MemberInv, AloneInv
<1>6. MemberInv'
  BY <1>1, <1>4, <1>5, RunningFinite
  DEF QuotaInv, QuotaTypeOK, MemberInv, MembersWithinLimit, Added, Limits
<1> QED
  BY <1>2, <1>6 DEF QuotaInv

(* Members who come back or leave are not counted as added.                *)
LEMMA OldMemberStep ==
  ASSUME QuotaInv, NEW u \in Users, RestoreMember(u) \/ Deactivate(u)
  PROVE  QuotaInv'
<1>1. /\ membership[u] \in {"active", "inactive", "restored"}
      /\ \E m \in {"inactive", "restored"} : membership' = [membership EXCEPT ![u] = m]
      /\ UNCHANGED <<sub, over, used, creating, joining, job, peak>>
  BY DEF RestoreMember, Deactivate, Members
<1>2. QuotaTypeOK' /\ AloneInv' /\ PeakInv' /\ CaseInv' /\ JobInv'
  BY <1>1 DEF QuotaInv, QuotaTypeOK, AloneInv, PeakInv, LimitsOf, CaseInv, CaseQuotaExact, JobInv,
              Running, Larger
<1>3. Added' \subseteq Added
  BY <1>1 DEF QuotaInv, QuotaTypeOK, Added
<1>4. Cardinality(Added') <= Cardinality(Added) /\ Cardinality(Added') \in Nat
  <2>1. IsFiniteSet(Added)
    BY QuotasAssumption, FS_Subset DEF Added
  <2> QED
    BY <1>3, <2>1, FS_Subset, FS_CardinalityType
<1>5. MemberInv'
  BY <1>1, <1>4, RunningFinite
  DEF QuotaInv, QuotaTypeOK, MemberInv, MembersWithinLimit, Added, Limits
<1> QED
  BY <1>2, <1>5 DEF QuotaInv

----------------------------------------------------------------------------
(* Costly jobs                                                             *)

LEMMA JobTypes ==
  ASSUME QuotaInv
  PROVE  /\ used \in Amounts /\ peak \in Limits /\ Larger(peak.jobs - 1, 0) \in Int
         /\ IsFiniteSet(Running) /\ Cardinality(Running) \in Nat
         /\ Workers \in Nat /\ MaxCost \in Nat
BY QuotasAssumption, FS_Subset, RunningFinite DEF QuotaInv, QuotaTypeOK, Limits, Larger, Running

LEMMA StartJobStep == ASSUME QuotaInv, NEW j \in Jobs, StartJob(j) PROVE QuotaInv'
<1>1. /\ job[j] = "none" /\ Cardinality(Running) < Workers
      /\ used.jobs + 1 <= LimitsOf(sub).jobs
      /\ job' = [job EXCEPT ![j] = "running"]
      /\ UNCHANGED <<sub, over, used, creating, joining, membership, peak>>
  BY DEF StartJob, people
<1>2. QuotaTypeOK' /\ AloneInv' /\ PeakInv' /\ CaseInv' /\ MemberInv'
  BY <1>1 DEF QuotaInv, QuotaTypeOK, AloneInv, PeakInv, LimitsOf, CaseInv, CaseQuotaExact, MemberInv,
              MembersWithinLimit, Added
<1>3. Running' = Running \cup {j} /\ j \notin Running
  BY <1>1 DEF QuotaInv, QuotaTypeOK, Running
<1>4. Cardinality(Running') = Cardinality(Running) + 1
  BY <1>3, JobTypes, FS_AddElement
<1>5. used.jobs <= Larger(peak.jobs - 1, 0)
  BY <1>1, JobTypes, LimitsType DEF QuotaInv, QuotaTypeOK, PeakInv, Limits, Amounts, Larger
<1>6. MaxCost * (Cardinality(Running) + 1) <= Workers * MaxCost
  BY <1>1, JobTypes
<1>7. JobInv'
  <2>1. MaxCost * (Cardinality(Running) + 1) \in Nat /\ Workers * MaxCost \in Nat
    BY JobTypes
  <2> HIDE DEF Larger
  <2> QED
    BY <1>1, <1>4, <1>5, <1>6, <2>1, JobTypes DEF JobInv, Amounts
<1> QED
  BY <1>2, <1>7 DEF QuotaInv

LEMMA EndJobStep ==
  ASSUME QuotaInv, NEW j \in Jobs, FailJob(j) \/ \E cost \in 1 .. MaxCost : FinishJob(j, cost)
  PROVE  QuotaInv'
<1>1. /\ job[j] = "running" /\ \E s \in {"none", "done"} : job' = [job EXCEPT ![j] = s]
      /\ UNCHANGED <<sub, over, creating, joining, membership, peak>>
  BY DEF FailJob, FinishJob, people
<1>2. used' \in Amounts /\ used'.cases = used.cases /\ used'.jobs <= used.jobs + MaxCost
  BY JobTypes DEF FailJob, FinishJob, Recorded, Amounts
<1>3. QuotaTypeOK' /\ AloneInv' /\ PeakInv' /\ CaseInv' /\ MemberInv'
  BY <1>1, <1>2 DEF QuotaInv, QuotaTypeOK, AloneInv, PeakInv, LimitsOf, CaseInv, CaseQuotaExact,
                    MemberInv, MembersWithinLimit, Added
<1>4. Running' = Running \ {j} /\ j \in Running
  BY <1>1 DEF QuotaInv, QuotaTypeOK, Running
<1>5. Cardinality(Running') = Cardinality(Running) - 1
  BY <1>4, JobTypes, FS_RemoveElement
<1>6. MaxCost * (Cardinality(Running) - 1) = MaxCost * Cardinality(Running) - MaxCost
  BY JobTypes
<1>7. JobInv'
  <2>1. MaxCost * Cardinality(Running) \in Nat /\ Workers * MaxCost \in Nat
    BY JobTypes
  <2>2. used.jobs \in Nat /\ used'.jobs \in Nat
    BY <1>2, JobTypes DEF Amounts
  <2> HIDE DEF Larger
  <2> QED
    BY <1>1, <1>2, <1>5, <1>6, <2>1, <2>2, JobTypes DEF QuotaInv, JobInv
<1> QED
  BY <1>3, <1>7 DEF QuotaInv

----------------------------------------------------------------------------

LEMMA InitQuotaInv == InitQuotas => QuotaInv
<1> SUFFICES ASSUME InitQuotas PROVE QuotaInv
  OBVIOUS
<1>1. sub \in Sub /\ peak = LimitsOf(sub) /\ used = Nothing
  BY DEF InitQuotas, Sub, Overridable
<1>2. peak \in Limits
  BY <1>1, LimitsType
<1>3. Running = {} /\ Added = {}
  BY DEF InitQuotas, Running, Added
<1>4. Cardinality(Running) = 0 /\ Cardinality(Added) = 0
  BY <1>3, FS_EmptySet
<1>5. QuotaTypeOK /\ AloneInv /\ PeakInv
  <2>1. QuotaTypeOK
    <3>1. used \in Amounts
      BY <1>1 DEF Amounts, Nothing
    <3>2. /\ creating \in [Requests -> {"none", "checked", "done"}]
          /\ joining \in [Users -> {"none", "checked", "done"}]
          /\ job \in [Jobs -> {"none", "running", "done"}]
          /\ membership \in [Users -> {"none", "active", "inactive", "restored"}]
          /\ over \in BOOLEAN
      BY DEF InitQuotas
    <3> QED
      BY <1>1, <1>2, <3>1, <3>2 DEF QuotaTypeOK
  <2>2. AloneInv
    BY DEF InitQuotas, AloneInv
  <2>3. PeakInv
    BY <1>1, <1>2 DEF PeakInv, Limits
  <2> QED
    BY <2>1, <2>2, <2>3
<1>6. CaseInv
  BY <1>1, <1>2 DEF InitQuotas, CaseInv, CaseQuotaExact, Nothing, Limits
<1>7. JobInv
  <2>1. Larger(peak.jobs - 1, 0) \in Nat /\ Workers * MaxCost \in Nat
    BY <1>2, QuotasAssumption DEF Larger, Limits
  <2> QED
    BY <1>1, <1>4, <2>1, QuotasAssumption DEF JobInv, Nothing
<1>8. MemberInv
  BY <1>2, <1>4 DEF InitQuotas, MemberInv, MembersWithinLimit, Added, Limits
<1> QED
  BY <1>5, <1>6, <1>7, <1>8 DEF QuotaInv

LEMMA QuotaInvariance == SpecQuotas => []QuotaInv
<1>1. ASSUME QuotaInv, [NextQuotas]_quotaVars PROVE QuotaInv'
  <2>1. CASE UNCHANGED quotaVars
    BY <1>1, <2>1 DEF quotaVars, QuotaInv, QuotaTypeOK, AloneInv, PeakInv, LimitsOf, CaseInv,
       CaseQuotaExact, JobInv, Running, Larger, MemberInv, MembersWithinLimit, Added
  <2>2. CASE StartTrial \/ Refresh \/ Administer \/ RenewPeriod \/ (\E p \in Plans : Pay(p))
    BY <1>1, <2>2, SubscriptionStep
  <2>3. CASE EndPeriod
    BY <1>1, <2>3, EndPeriodStep
  <2>4. ASSUME NEW q \in Requests, CheckCase(q) \/ InsertCase(q) PROVE QuotaInv'
    BY <1>1, <2>4, CheckCaseStep, InsertCaseStep
  <2>5. ASSUME NEW u \in Users,
               CheckMember(u) \/ InsertMember(u) \/ RestoreMember(u) \/ Deactivate(u)
        PROVE  QuotaInv'
    BY <1>1, <2>5, CheckMemberStep, InsertMemberStep, OldMemberStep
  <2>6. ASSUME NEW j \in Jobs,
               StartJob(j) \/ FailJob(j) \/ \E cost \in 1 .. MaxCost : FinishJob(j, cost)
        PROVE  QuotaInv'
    BY <1>1, <2>6, StartJobStep, EndJobStep
  <2> QED
    BY <1>1, <2>1, <2>2, <2>3, <2>4, <2>5, <2>6 DEF NextQuotas
<1> QED
  BY InitQuotaInv, <1>1, PTL DEF SpecQuotas

(* The rows of the tenant keep their types.                                *)
THEOREM QuotaTypes == SpecQuotas => []QuotaTypeOK
BY QuotaInvariance, PTL DEF QuotaInv

(* Concurrent requests never create a case beyond the limit of the period  *)
(* (create_case keeps the lock that assert_quota took).                    *)
THEOREM CasesAreExact == SpecQuotas => []CaseQuotaExact
BY QuotaInvariance, PTL DEF QuotaInv, CaseInv

(* Costly work overruns its limit by no more than what the workers may     *)
(* have in hand (assert_quota, record_usage).                              *)
THEOREM OverrunIsBounded == SpecQuotas => []OverrunBounded
<1>1. QuotaInv => OverrunBounded
  <2> SUFFICES ASSUME QuotaInv PROVE OverrunBounded
    OBVIOUS
  <2>1. MaxCost * Cardinality(Running) \in Nat /\ Workers * MaxCost \in Nat
    BY JobTypes
  <2>2. used.jobs \in Nat
    BY JobTypes DEF Amounts
  <2> HIDE DEF Larger
  <2> QED
    BY <2>1, <2>2, JobTypes DEF QuotaInv, JobInv, OverrunBounded
<1> QED
  BY QuotaInvariance, <1>1, PTL

(* Members are never added beyond the limit (add_tenant_member counts and  *)
(* inserts under the lock of the tenant).                                  *)
THEOREM MembersAreLimited == SpecQuotas => []MembersWithinLimit
BY QuotaInvariance, PTL DEF QuotaInv, MemberInv
=============================================================================
