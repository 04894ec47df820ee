----------------------------- MODULE AuthLimit -----------------------------
(***************************************************************************)
(* The limiter of failed logins (src/dessplay-rendezvous/src/auth_limit.rs *)
(* and its call in server.rs), which keeps one instant per address: when   *)
(* the address's budget is full again.  judge runs under the limiter's     *)
(* lock, and reads the clock there: a call is one step.                    *)
(*                                                                         *)
(* spent and since are observation only: the failures recorded for each    *)
(* address since some moment.                                              *)
(***************************************************************************)
EXTENDS Integers, FiniteSets

CONSTANTS
    Addresses,  \* source addresses
    Keys,       \* what budgets are kept under: an address or a /64
    AddressKey, \* address_key
    Burst,      \* limit.burst
    Refill,     \* limit.refill, in clock units
    SweepAt,    \* SWEEP_AT
    MaxTracked, \* MAX_TRACKED
    MaxNow      \* bound: clock units

ASSUME AuthAssumption ==
    /\ AddressKey \in [Addresses -> Keys] /\ IsFiniteSet(Keys)
    /\ Burst \in Nat /\ Refill \in Nat \ {0} /\ MaxNow \in Nat
    /\ SweepAt \in Nat /\ MaxTracked \in Nat /\ SweepAt <= MaxTracked

VARIABLES now, fullAt, verdict, spent, since

authVars == <<now, fullAt, verdict, spent, since>>

Capacity == Refill * IF Burst > 1 THEN Burst ELSE 1

\* saturating_duration_since; an address that is not tracked owes nothing.
Debt(k) == IF k \in DOMAIN fullAt /\ fullAt[k] > now THEN fullAt[k] - now ELSE 0

Throttled(k) == Debt(k) + Refill > Capacity

\* A mutant: the sweep drops addresses still in debt.
SweptAll == IF Cardinality(DOMAIN fullAt) >= SweepAt THEN {} ELSE DOMAIN fullAt

\* make_room's sweep: what is still tracked after it
Swept ==
    IF Cardinality(DOMAIN fullAt) >= SweepAt
    THEN {k \in DOMAIN fullAt : fullAt[k] > now}
    ELSE DOMAIN fullAt

Track(kept, k, at) == [x \in kept \cup {k} |-> IF x = k THEN at ELSE fullAt[x]]

JudgeThrottled(ip) ==
    /\ Throttled(AddressKey[ip])
    /\ verdict' = "throttled"
    /\ UNCHANGED <<now, fullAt, spent, since>>

JudgeRight(ip) ==
    /\ ~Throttled(AddressKey[ip])
    /\ verdict' = "accept"
    /\ UNCHANGED <<now, fullAt, spent, since>>

\* Mutants: budgets kept by address instead of address_key; a failure that
\* forgets the debt there was.
JudgeWrongByAddress(ip) ==
    LET known == ip \in DOMAIN fullAt
    IN  /\ ~Throttled(ip)
        /\ verdict' = "reject"
        /\ known \/ Cardinality(Swept) < MaxTracked
        /\ fullAt' = Track(IF known THEN DOMAIN fullAt ELSE Swept, ip,
                           now + Debt(ip) + Refill)
        /\ UNCHANGED <<now, spent, since>>

JudgeWrongForgets(ip) ==
    LET k == AddressKey[ip]
        known == k \in DOMAIN fullAt
    IN  /\ ~Throttled(k)
        /\ verdict' = "reject"
        /\ known \/ Cardinality(Swept) < MaxTracked
        /\ fullAt' = Track(IF known THEN DOMAIN fullAt ELSE Swept, k, now + Refill)
        /\ spent' = [spent EXCEPT ![k] = @ + 1]
        /\ UNCHANGED <<now, since>>

\* A wrong password is recorded for an address that is tracked or that
\* make_room finds room for, ...
JudgeWrong(ip) ==
    LET k == AddressKey[ip]
        known == k \in DOMAIN fullAt
    IN  /\ ~Throttled(k)
        /\ verdict' = "reject"
        /\ known \/ Cardinality(Swept) < MaxTracked
        /\ fullAt' = Track(IF known THEN DOMAIN fullAt ELSE Swept, k,
                           now + Debt(k) + Refill)
        /\ spent' = [spent EXCEPT ![k] = @ + 1]
        /\ UNCHANGED <<now, since>>

\* ... and goes unrecorded when there is none.
JudgeUntracked(ip) ==
    LET k == AddressKey[ip]
    IN  /\ ~Throttled(k)
        /\ k \notin DOMAIN fullAt /\ Cardinality(Swept) >= MaxTracked
        /\ fullAt' = [x \in Swept |-> fullAt[x]]
        /\ verdict' = "reject"
        /\ UNCHANGED <<now, spent, since>>

Elapse(d) ==
    /\ now + d <= MaxNow
    /\ now' = now + d
    /\ UNCHANGED <<fullAt, verdict, spent, since>>

\* A window of observation begins.
Observe ==
    /\ since' = now
    /\ spent' = [k \in Keys |-> 0]
    /\ UNCHANGED <<now, fullAt, verdict>>

AuthInit ==
    /\ now = 0 /\ fullAt = [k \in {} |-> 0] /\ verdict = "none"
    /\ spent = [k \in Keys |-> 0] /\ since = 0

AuthNext ==
    \/ \E ip \in Addresses :
         JudgeThrottled(ip) \/ JudgeRight(ip) \/ JudgeWrong(ip) \/ JudgeUntracked(ip)
    \/ \E d \in 1 .. MaxNow : Elapse(d)
    \/ Observe

AuthSpec == AuthInit /\ [][AuthNext]_authVars

-----------------------------------------------------------------------------
(* Properties *)

\* Types; in particular every budget is kept under an address key.
AuthTypeOK ==
    /\ now \in Nat /\ since \in Nat /\ since <= now
    /\ DOMAIN fullAt \subseteq Keys /\ fullAt \in [DOMAIN fullAt -> Nat]
    /\ verdict \in {"none", "throttled", "accept", "reject"}
    /\ spent \in [Keys -> Nat]

AB == INSTANCE AuthBudget WITH
        debt <- [k \in Keys |-> Debt(k)],
        Crowded <- LAMBDA S : Cardinality(S) >= MaxTracked

\* The limiter implements the budget: sweeping and capping its table changes
\* no address's debt, and a failure goes unrecorded only while MAX_TRACKED
\* addresses are in debt (make_room).
AuthImplements == AB!AbSpec

\* In any window of time an address, or a whole /64, makes at most burst
\* recorded failures and one more per refill, however they are spread and
\* whatever is swept meanwhile.
RateLimited == \A k \in Keys : spent[k] * Refill <= (now - since) + Capacity
=============================================================================
