---------------------------- MODULE BackOfficeProofs ----------------------------
(***************************************************************************)
(* What holds of PortalLinks for any number of links and any lifetimes,    *)
(* and of the four components that MCBackOffice puts side by side: each of *)
(* its behaviours is one of each component, so the theorems about the      *)
(* components are about what TLC runs, and what TLC finds there is theirs. *)
(***************************************************************************)
EXTENDS MCBackOffice, RemindersProofs, DocumentsProofs, QuotasProofs, TLAPS

----------------------------------------------------------------------------
(* Portal links                                                            *)

(* A link that was committed before another began is over for good, and    *)
(* one that has not begun has no elders.                                   *)
OlderInv ==
  \A t \in Links :
    /\ link[t].state = "none" => older[t] = {}
    /\ \A u \in older[t] : link[u].state \in {"live", "used", "revoked"}

LinkInv == LinkTypeOK /\ OneSessionPerLink /\ OlderInv /\ NewLinkEndsOlder

LEMMA InitLinkInv == InitPortalLinks => LinkInv
BY PortalLinksAssumption
DEF InitPortalLinks, LinkInv, LinkTypeOK, OneSessionPerLink, OlderInv, NewLinkEndsOlder, Link, NoLink

LEMMA LinkTypeStep == LinkTypeOK /\ [NextPortalLinks]_linkVars => LinkTypeOK'
<1> SUFFICES ASSUME LinkTypeOK, [NextPortalLinks]_linkVars PROVE LinkTypeOK'
  OBVIOUS
<1> USE PortalLinksAssumption DEF LinkTypeOK, Link
<1>1. ASSUME NEW t \in Links, BeginLink(t) PROVE LinkTypeOK'
  BY <1>1 DEF BeginLink, Revoked, Committed
<1>2. ASSUME NEW t \in Links, CommitLink(t) PROVE LinkTypeOK'
  BY <1>2 DEF CommitLink
<1>3. ASSUME NEW t \in Links, ConsumeLink(t) PROVE LinkTypeOK'
  BY <1>3 DEF ConsumeLink, OpenSession
<1>4. ASSUME NEW v \in Reviews, CreateReview(v) PROVE LinkTypeOK'
  BY <1>4 DEF CreateReview
<1>5. ASSUME NEW v \in Reviews, ConsumeReview(v) PROVE LinkTypeOK'
  BY <1>5 DEF ConsumeReview, OpenSession
<1>6. CASE ChangeMembership
  BY <1>6 DEF ChangeMembership
<1>7. CASE Minute
  <2>1. \A row \in Link :
          [row EXCEPT !.left = IF row.left > 0 THEN row.left - 1 ELSE 0] \in Link
    OBVIOUS
  <2>2. link' \in [Links -> Link]
    BY <1>7, <2>1 DEF Minute, Aged
  <2>3. review' \in [Reviews -> Link]
    BY <1>7, <2>1 DEF Minute, Aged
  <2> QED
    BY <1>7, <2>2, <2>3 DEF Minute
<1>8. CASE UNCHANGED linkVars
  BY <1>8 DEF linkVars
<1> QED
  BY <1>1, <1>2, <1>3, <1>4, <1>5, <1>6, <1>7, <1>8 DEF NextPortalLinks

(* The counter of sessions follows the row of its link.                    *)
LEMMA LinkSessionStep ==
  LinkTypeOK /\ OneSessionPerLink /\ [NextPortalLinks]_linkVars => OneSessionPerLink'
<1> SUFFICES ASSUME LinkTypeOK, OneSessionPerLink, [NextPortalLinks]_linkVars
             PROVE  OneSessionPerLink'
  OBVIOUS
<1> USE PortalLinksAssumption DEF LinkTypeOK, Link, OneSessionPerLink
<1>1. ASSUME NEW t \in Links, BeginLink(t) PROVE OneSessionPerLink'
  BY <1>1 DEF BeginLink, Revoked, Live
<1>2. ASSUME NEW t \in Links, CommitLink(t) PROVE OneSessionPerLink'
  BY <1>2 DEF CommitLink
<1>3. ASSUME NEW t \in Links, ConsumeLink(t) PROVE OneSessionPerLink'
  BY <1>3 DEF ConsumeLink, OpenSession, Live
<1>4. ASSUME NEW v \in Reviews, CreateReview(v) PROVE OneSessionPerLink'
  BY <1>4 DEF CreateReview
<1>5. ASSUME NEW v \in Reviews, ConsumeReview(v) PROVE OneSessionPerLink'
  BY <1>5 DEF ConsumeReview, OpenSession, Live
<1>6. CASE ChangeMembership
  BY <1>6 DEF ChangeMembership
<1>7. CASE Minute
  BY <1>7 DEF Minute, Aged
<1>8. CASE UNCHANGED linkVars
  BY <1>8 DEF linkVars
<1> QED
  BY <1>1, <1>2, <1>3, <1>4, <1>5, <1>6, <1>7, <1>8 DEF NextPortalLinks

(* A new link finds every committed one in a state it may revoke; later    *)
(* steps never bring a link back to life.                                  *)
LEMMA LinkOlderStep ==
  LinkTypeOK /\ OlderInv /\ NewLinkEndsOlder /\ [NextPortalLinks]_linkVars
    => OlderInv' /\ NewLinkEndsOlder'
<1> SUFFICES ASSUME LinkTypeOK, OlderInv, NewLinkEndsOlder, [NextPortalLinks]_linkVars
             PROVE  OlderInv' /\ NewLinkEndsOlder'
  OBVIOUS
<1> USE DEF LinkTypeOK, Link, OlderInv, NewLinkEndsOlder
<1>1. ASSUME NEW t \in Links, BeginLink(t) PROVE OlderInv' /\ NewLinkEndsOlder'
  <2>1. \A u \in Links : ~Live(link'[u])
    BY <1>1 DEF BeginLink, Revoked, Live
  <2>2. \A u \in Committed : link'[u].state \in {"live", "used", "revoked"}
    BY <1>1 DEF BeginLink, Revoked, Live, Committed
  <2>3. \A u \in Links : older[u] \subseteq Committed
    BY DEF Committed
  <2>4. link'[t].state = "creating" /\ older' = [older EXCEPT ![t] = Committed]
    BY <1>1 DEF BeginLink
  <2>5. \A u \in Links \ {t} : link'[u].state = "none" => link[u].state = "none"
    BY <1>1 DEF BeginLink, Revoked
  <2>6. OlderInv'
    BY <2>2, <2>3, <2>4, <2>5
  <2>7. NewLinkEndsOlder'
    BY <2>1, <2>3, <2>4 DEF Committed
  <2> QED
    BY <2>6, <2>7
<1>2. ASSUME NEW t \in Links, CommitLink(t) PROVE OlderInv' /\ NewLinkEndsOlder'
  BY <1>2 DEF CommitLink, Live
<1>3. ASSUME NEW t \in Links, ConsumeLink(t) PROVE OlderInv' /\ NewLinkEndsOlder'
  BY <1>3 DEF ConsumeLink, Live
<1>4. ASSUME NEW v \in Reviews, CreateReview(v) PROVE OlderInv' /\ NewLinkEndsOlder'
  BY <1>4 DEF CreateReview, Live
<1>5. ASSUME NEW v \in Reviews, ConsumeReview(v) PROVE OlderInv' /\ NewLinkEndsOlder'
  BY <1>5 DEF ConsumeReview, Live
<1>6. CASE ChangeMembership
  BY <1>6 DEF ChangeMembership, Live
<1>7. CASE Minute
  BY <1>7 DEF Minute, Aged, Live
<1>8. CASE UNCHANGED linkVars
  BY <1>8 DEF linkVars, Live
<1> QED
  BY <1>1, <1>2, <1>3, <1>4, <1>5, <1>6, <1>7, <1>8 DEF NextPortalLinks

LEMMA LinkInvariance == SpecPortalLinks => []LinkInv
<1>1. LinkInv /\ [NextPortalLinks]_linkVars => LinkInv'
  BY LinkTypeStep, LinkSessionStep, LinkOlderStep DEF LinkInv
<1> QED
  BY InitLinkInv, <1>1, PTL DEF SpecPortalLinks

(* The rows of the tokens keep their types.                                *)
THEOREM LinkTypes == SpecPortalLinks => []LinkTypeOK
BY LinkInvariance, PTL DEF LinkInv

(* No link ever opens a second session, whatever is submitted twice,       *)
(* revoked or expires meanwhile (consume_portal_access_token).             *)
THEOREM OneSession == SpecPortalLinks => []OneSessionPerLink
BY LinkInvariance, PTL DEF LinkInv

(* Every link that was committed when a newer one was asked for is dead    *)
(* from then on (create_portal_access_token).                              *)
THEOREM NewLinkWins == SpecPortalLinks => []NewLinkEndsOlder
BY LinkInvariance, PTL DEF LinkInv

----------------------------------------------------------------------------
(* The components side by side                                             *)

(* Reminders takes its own steps or none while another component moves.    *)
THEOREM IncludesReminders == Spec => SpecReminders
<1>1. Init => InitReminders
  BY DEF Init
<1>2. [Next]_allVars => [NextReminders]_remVars
  BY DEF Next, allVars, On, RemindersMove, DeskMoves, DigestsMove, OnlyReminders, OnlyDocuments,
     OnlyLinks, OnlyQuotas
<1> QED
  BY <1>1, <1>2, PTL DEF Spec, SpecReminders

(* So does Documents.                                                      *)
THEOREM IncludesDocuments == Spec => SpecDocuments
<1>1. Init => InitDocuments
  BY DEF Init
<1>2. [Next]_allVars => [NextDocuments]_docVars
  BY DEF Next, allVars, On, OnlyReminders, OnlyDocuments, OnlyLinks, OnlyQuotas
<1> QED
  BY <1>1, <1>2, PTL DEF Spec, SpecDocuments

(* So does PortalLinks.                                                    *)
THEOREM IncludesPortalLinks == Spec => SpecPortalLinks
<1>1. Init => InitPortalLinks
  BY DEF Init
<1>2. [Next]_allVars => [NextPortalLinks]_linkVars
  BY DEF Next, allVars, On, OnlyReminders, OnlyDocuments, OnlyLinks, OnlyQuotas
<1> QED
  BY <1>1, <1>2, PTL DEF Spec, SpecPortalLinks

(* So does Quotas.                                                         *)
THEOREM IncludesQuotas == Spec => SpecQuotas
<1>1. Init => InitQuotas
  BY DEF Init
<1>2. [Next]_allVars => [NextQuotas]_quotaVars
  BY DEF Next, allVars, On, CasesMove, MembersMove, JobsMove, OnlyReminders, OnlyDocuments,
     OnlyLinks, OnlyQuotas
<1> QED
  BY <1>1, <1>2, PTL DEF Spec, SpecQuotas

(* The rows of reminders, documents, links and quotas keep their types     *)
(* whichever component moves.                                              *)
THEOREM BackOfficeTypes == Spec => []BackOfficeTypeOK
<1>1. Init => scenario \in Scenarios
  BY DEF Init
<1>2. scenario \in Scenarios /\ [Next]_allVars => (scenario \in Scenarios)'
  BY DEF Next, On, allVars
<1>3. RemTypeOK /\ DocTypeOK /\ LinkTypeOK /\ QuotaTypeOK /\ scenario \in Scenarios
        => BackOfficeTypeOK
  BY DEF BackOfficeTypeOK
<1> QED
  BY <1>1, <1>2, <1>3, IncludesReminders, ReminderTypes, IncludesDocuments, DocumentTypes,
     IncludesPortalLinks, LinkTypes, IncludesQuotas, QuotaTypes, PTL DEF Spec
=============================================================================
