------------------------------ MODULE PortalLinks ------------------------------
(***************************************************************************)
(* The one-time links by which one user enters the portal:                 *)
(* src/apps/portal/services.py with the views and tasks that call it.      *)
(*                                                                         *)
(* A portal link is created in one transaction that revokes the live links *)
(* it sees and inserts its own row; nothing locks the user, so two         *)
(* creations may overlap, each blind to the row of the other.  A link is   *)
(* consumed under the lock of its row.  A review link is created by a task *)
(* that may be retried after the row is committed.                         *)
(***************************************************************************)
EXTENDS Integers

CONSTANTS
  Links,       \* portal links that may be created
  Reviews,     \* review links that may be created
  LinkTTL,     \* PORTAL_LINK_TTL_MINUTES
  ReviewTTL    \* REVIEW_LINK_TTL_MINUTES

ASSUME PortalLinksAssumption ==
  /\ LinkTTL \in Nat /\ ReviewTTL \in Nat
  /\ Links \cap Reviews = {}

VARIABLES
  link,       \* [Links -> PortalAccessToken row]
  review,     \* [Reviews -> ReviewAccessToken row]
  member,     \* the user is active, with an active membership of an active tenant
  sessions,   \* [Links \cup Reviews -> sessions opened with the link]
  older       \* history: [Links -> links that were committed when this one was begun]

linkVars == <<link, review, member, sessions, older>>

(* left: the minutes until expires_at; creating: not committed yet.        *)
Link == [state : {"none", "creating", "live", "used", "revoked"}, left : Nat]
NoLink == [state |-> "none", left |-> 0]

InitPortalLinks ==
  /\ link = [t \in Links |-> NoLink]
  /\ review = [v \in Reviews |-> NoLink]
  /\ member \in BOOLEAN
  /\ sessions = [t \in Links \cup Reviews |-> 0]
  /\ older = [t \in Links |-> {}]

Live(row) == row.state = "live" /\ row.left > 0

Committed == {t \in Links : link[t].state \in {"live", "used", "revoked"}}

----------------------------------------------------------------------------
(* create_portal_access_token, called for the login button of the chat     *)

(* Mutant: links that are about to expire are left alone.                  *)
Revoked_NotLast(row) == IF Live(row) /\ row.left > 1 THEN [row EXCEPT !.state = "revoked"] ELSE row

Revoked(row) == IF Live(row) THEN [row EXCEPT !.state = "revoked"] ELSE row

(* The update that revokes the links it sees; it locks their rows, so they *)
(* are as good as revoked before the commit.                               *)
BeginLink(t) ==
  /\ link[t].state = "none" /\ member
  /\ link' = [u \in Links |-> IF u = t THEN [state |-> "creating", left |-> LinkTTL]
                                       ELSE Revoked(link[u])]
  /\ older' = [older EXCEPT ![t] = Committed]
  /\ UNCHANGED <<review, member, sessions>>

(* The insertion and the commit; then the link is sent.                    *)
CommitLink(t) ==
  /\ link[t].state = "creating"
  /\ link' = [link EXCEPT ![t].state = "live"]
  /\ UNCHANGED <<review, member, sessions, older>>

(* create_review_access_token, once for every try of send_review_link: no  *)
(* earlier one is revoked.                                                 *)
CreateReview(v) ==
  /\ review[v].state = "none" /\ member
  /\ review' = [review EXCEPT ![v] = [state |-> "live", left |-> ReviewTTL]]
  /\ UNCHANGED <<link, member, sessions, older>>

----------------------------------------------------------------------------
(* portal_access and review_access: showing the page changes nothing, the  *)
(* form consumes the link and logs the user in                             *)

OpenSession(t) == sessions' = [sessions EXCEPT ![t] = @ + 1]

(* Mutant: what the page showed as valid is not looked at again.           *)
ConsumeLink_Shown(t) ==
  /\ link[t].state \in {"live", "used"} /\ link[t].left > 0 /\ member
  /\ link' = [link EXCEPT ![t].state = "used"]
  /\ OpenSession(t)
  /\ UNCHANGED <<review, member, older>>

ConsumeLink(t) ==
  /\ Live(link[t]) /\ member
  /\ link' = [link EXCEPT ![t].state = "used"]
  /\ OpenSession(t)
  /\ UNCHANGED <<review, member, older>>

ConsumeReview(v) ==
  /\ Live(review[v]) /\ member
  /\ review' = [review EXCEPT ![v].state = "used"]
  /\ OpenSession(v)
  /\ UNCHANGED <<link, member, older>>

----------------------------------------------------------------------------

(* Administrators deactivate the user, the membership or the tenant.       *)
ChangeMembership ==
  /\ member' = ~member
  /\ UNCHANGED <<link, review, sessions, older>>

Aged(rows, S) ==
  [t \in S |-> [rows[t] EXCEPT !.left = IF rows[t].left > 0 THEN rows[t].left - 1 ELSE 0]]

Minute ==
  /\ link' = Aged(link, Links)
  /\ review' = Aged(review, Reviews)
  /\ UNCHANGED <<member, sessions, older>>

NextPortalLinks ==
  \/ \E t \in Links : BeginLink(t) \/ CommitLink(t) \/ ConsumeLink(t)
  \/ \E v \in Reviews : CreateReview(v) \/ ConsumeReview(v)
  \/ ChangeMembership \/ Minute

SpecPortalLinks == InitPortalLinks /\ [][NextPortalLinks]_linkVars

----------------------------------------------------------------------------
(* Properties                                                              *)

LinkTypeOK ==
  /\ link \in [Links -> Link]
  /\ review \in [Reviews -> Link]
  /\ member \in BOOLEAN
  /\ sessions \in [Links \cup Reviews -> Nat]
  /\ older \in [Links -> SUBSET Links]

(* A link opens at most one session, and only if it is marked as used: two *)
(* submissions of the form, the revocation by a newer link and its expiry  *)
(* meet at the row lock (consume_portal_access_token and its review twin). *)
OneSessionPerLink ==
  /\ \A t \in Links : sessions[t] = IF link[t].state = "used" THEN 1 ELSE 0
  /\ \A v \in Reviews : sessions[v] = IF review[v].state = "used" THEN 1 ELSE 0

(* Asking for a new portal link ends every link that was committed before: *)
(* two links are valid at once only if their creations overlapped.         *)
NewLinkEndsOlder ==
  \A t \in Links : \A u \in older[t] : ~Live(link[u])
=============================================================================
