----------------------------- MODULE AuthBudget -----------------------------
(***************************************************************************)
(* What the limiter of failed logins promises (the module documentation of *)
(* src/dessplay-rendezvous/src/auth_limit.rs): every address has a budget  *)
(* of failures, kept here as a debt that time pays off.  A wrong password  *)
(* adds to it, a right one does not, and with the budget spent no password *)
(* is looked at.  Only while as many addresses are in debt as the limiter  *)
(* can track may another one's failure go unrecorded.                      *)
(***************************************************************************)
EXTENDS Integers

CONSTANTS
    Keys, Refill, Capacity,
    Crowded(_)  \* a set of as many addresses as can be tracked, or more

VARIABLES debt, verdict

abVars == <<debt, verdict>>

AbInit == debt = [k \in Keys |-> 0] /\ verdict = "none"

Exhausted(k) == debt[k] + Refill > Capacity

AbThrottle(k) == Exhausted(k) /\ verdict' = "throttled" /\ UNCHANGED debt

AbPass(k) == ~Exhausted(k) /\ verdict' = "accept" /\ UNCHANGED debt

AbFail(k) ==
    /\ ~Exhausted(k)
    /\ debt' = [debt EXCEPT ![k] = @ + Refill]
    /\ verdict' = "reject"

AbOverlook(k) ==
    /\ debt[k] = 0
    /\ Crowded({b \in Keys : debt[b] > 0})
    /\ verdict' = "reject" /\ UNCHANGED debt

AbElapse(d) ==
    /\ debt' = [k \in Keys |-> IF debt[k] > d THEN debt[k] - d ELSE 0]
    /\ UNCHANGED verdict

AbNext ==
    \/ \E k \in Keys : AbThrottle(k) \/ AbPass(k) \/ AbFail(k) \/ AbOverlook(k)
    \/ \E d \in 0 .. Capacity : AbElapse(d)

AbSpec == AbInit /\ [][AbNext]_abVars
=============================================================================
