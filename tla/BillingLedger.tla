---------------------------- MODULE BillingLedger ----------------------------
(***************************************************************************)
(* What billing promises a tenant: every charge buys one period, once, and *)
(* nothing but a charge and the one trial makes a subscription current;    *)
(* nobody is expired before the end of what was bought.  Payments          *)
(* implements this.                                                        *)
(***************************************************************************)
EXTENDS Integers

CONSTANTS
  Charges,  \* charges the wallet may make
  Period    \* length of what a charge or the trial buys (30 days)

VARIABLES
  now,      \* the time
  charged,  \* the charges made
  applied,  \* the charges that have bought their period
  status,   \* of the subscription, "NONE" before there is one
  end       \* end of its current period

vars == <<now, charged, applied, status, end>>

Current == {"TRIALING", "ACTIVE"}

Init ==
  /\ now = 0
  /\ charged = {} /\ applied = {}
  /\ status = "NONE" /\ end = 0

Tick == now' = now + 1 /\ UNCHANGED <<charged, applied, status, end>>

Charge(q) ==
  /\ charged' = charged \cup {q}
  /\ UNCHANGED <<now, applied, status, end>>

StartTrial ==
  /\ status = "NONE"
  /\ status' = "TRIALING" /\ end' = now + Period
  /\ UNCHANGED <<now, charged, applied>>

(* A period from now on at least, and at most one more than there was.     *)
Apply(q) ==
  /\ q \in charged \ applied
  /\ applied' = applied \cup {q}
  /\ status' = "ACTIVE"
  /\ end' \in now + Period .. (IF status \in Current /\ end > now THEN end ELSE now) + Period
  /\ UNCHANGED <<now, charged>>

Expire ==
  /\ status \in Current /\ end <= now
  /\ status' = "EXPIRED"
  /\ UNCHANGED <<now, charged, applied, end>>

Next ==
  \/ Tick \/ StartTrial \/ Expire
  \/ \E q \in Charges : Charge(q) \/ Apply(q)

Spec == Init /\ [][Next]_vars
=============================================================================
