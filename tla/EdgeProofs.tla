----------------------------- MODULE EdgeProofs -------------------------------
(***************************************************************************)
(* Proofs about the edge of the server, for every set of addresses, tasks  *)
(* and frame sizes: AuthLimit keeps the rate it promises and implements    *)
(* AuthBudget; Outbox accounts for every byte and implements FrameQueue.   *)
(***************************************************************************)
EXTENDS Outbox, AuthLimit, FiniteSetTheorems, SequenceTheorems, WellFoundedInduction,
        TLAPS

\* Time, and a second attempt, for the SMT solver on a slow machine.
USE SMTT(60), Z3T(60)

\* The inductive invariant: no debt passes the capacity, and what an address
\* spent in the window is covered by the time that passed and its debt.
AuthInv ==
    /\ AuthTypeOK
    /\ \A k \in Keys : /\ Debt(k) <= Capacity
                       /\ spent[k] * Refill <= (now - since) + Debt(k)

\* The capacity is a number of clock units and holds at least one failure.
LEMMA CapacityType == Capacity \in Nat /\ Refill <= Capacity
<1>. DEFINE b == IF Burst > 1 THEN Burst ELSE 1
<1>1. b \in Nat /\ 1 <= b
  BY AuthAssumption
<1>. HIDE DEF b
<1>2. Refill * b \in Nat /\ Refill <= Refill * b
  BY <1>1, AuthAssumption
<1>. QED
  BY <1>2 DEF b, Capacity

\* A debt is a number.
LEMMA DebtType == AuthTypeOK => \A k \in Keys : Debt(k) \in Nat
  BY DEF AuthTypeOK, Debt

\* What recording a failure does to the debts: the address's own grows by
\* one refill, the sweep changes none of the others.
LEMMA WrongDebt ==
    ASSUME AuthTypeOK, NEW ip \in Addresses, JudgeWrong(ip)
    PROVE  /\ AuthTypeOK'
           /\ Debt(AddressKey[ip])' = Debt(AddressKey[ip]) + Refill
           /\ \A j \in Keys \ {AddressKey[ip]} : Debt(j)' = Debt(j)
<1>. DEFINE k == AddressKey[ip]
            kept == IF k \in DOMAIN fullAt THEN DOMAIN fullAt ELSE Swept
            at == now + Debt(k) + Refill
<1>1. k \in Keys
  BY AuthAssumption
<1>2. at \in Nat /\ at > now /\ at - now = Debt(k) + Refill /\ Debt(k) \in Nat
  BY <1>1, DebtType, AuthAssumption DEF AuthTypeOK
<1>3. kept \subseteq DOMAIN fullAt
  BY DEF Swept
<1>4. \A j \in DOMAIN fullAt : j \notin kept => ~(fullAt[j] > now)
  BY DEF Swept
<1>5. /\ fullAt' = [x \in kept \cup {k} |-> IF x = k THEN at ELSE fullAt[x]]
      /\ now' = now /\ since' = since /\ verdict' = "reject"
      /\ spent' = [spent EXCEPT ![k] = @ + 1]
  BY DEF JudgeWrong, Track
<1>. HIDE DEF kept, at, k
<1>6. DOMAIN fullAt' = kept \cup {k} /\ fullAt'[k] = at
  BY <1>5
<1>7. \A j \in kept \ {k} : fullAt'[j] = fullAt[j]
  BY <1>5
<1>8. AuthTypeOK'
  <2>1. DOMAIN fullAt' \subseteq Keys
    BY <1>1, <1>3, <1>6 DEF AuthTypeOK
  <2>2. fullAt' \in [DOMAIN fullAt' -> Nat]
    BY <1>2, <1>3, <1>5, <1>6 DEF AuthTypeOK
  <2>3. spent' \in [Keys -> Nat]
    BY <1>1, <1>5 DEF AuthTypeOK
  <2>. QED
    BY <1>5, <2>1, <2>2, <2>3 DEF AuthTypeOK
<1>9. Debt(k)' = Debt(k) + Refill
  BY <1>2, <1>5, <1>6 DEF Debt
<1>10. ASSUME NEW j \in Keys \ {k}
       PROVE  Debt(j)' = Debt(j)
  <2>1. CASE j \in kept
    BY <2>1, <1>3, <1>5, <1>6, <1>7 DEF Debt
  <2>2. CASE j \notin kept
    BY <2>2, <1>4, <1>5, <1>6 DEF Debt
  <2>. QED
    BY <2>1, <2>2
<1>. QED
  BY <1>8, <1>9, <1>10 DEF k

\* A failure that goes unrecorded changes no debt either.
LEMMA UntrackedDebt ==
    ASSUME AuthTypeOK, NEW ip \in Addresses, JudgeUntracked(ip)
    PROVE  AuthTypeOK' /\ \A j \in Keys : Debt(j)' = Debt(j)
<1>1. /\ fullAt' = [x \in Swept |-> fullAt[x]]
      /\ now' = now /\ since' = since /\ verdict' = "reject" /\ spent' = spent
  BY DEF JudgeUntracked
<1>2. Swept \subseteq DOMAIN fullAt
  BY DEF Swept
<1>3. \A j \in DOMAIN fullAt : j \notin Swept => ~(fullAt[j] > now)
  BY DEF Swept
<1>4. DOMAIN fullAt' = Swept /\ \A j \in Swept : fullAt'[j] = fullAt[j]
  BY <1>1
<1>5. AuthTypeOK'
  BY <1>1, <1>2, <1>4 DEF AuthTypeOK
<1>6. ASSUME NEW j \in Keys
      PROVE  Debt(j)' = Debt(j)
  BY <1>1, <1>2, <1>3, <1>4 DEF Debt
<1>. QED
  BY <1>5, <1>6

\* Time pays debts off.
LEMMA ElapseDebt ==
    ASSUME AuthTypeOK, NEW d \in 1 .. MaxNow, Elapse(d)
    PROVE  /\ AuthTypeOK'
           /\ \A j \in Keys : Debt(j)' = IF Debt(j) > d THEN Debt(j) - d ELSE 0
<1>1. d \in Nat /\ now' = now + d /\ UNCHANGED <<fullAt, verdict, spent, since>>
  BY AuthAssumption DEF Elapse
<1>2. AuthTypeOK'
  BY <1>1 DEF AuthTypeOK
<1>3. ASSUME NEW j \in Keys
      PROVE  Debt(j)' = IF Debt(j) > d THEN Debt(j) - d ELSE 0
  <2>1. CASE j \in DOMAIN fullAt
    <3>1. fullAt[j] \in Nat
      BY <2>1 DEF AuthTypeOK
    <3>. QED
      BY <1>1, <2>1, <3>1 DEF Debt, AuthTypeOK
  <2>2. CASE j \notin DOMAIN fullAt
    BY <1>1, <2>2 DEF Debt
  <2>. QED
    BY <2>1, <2>2
<1>. QED
  BY <1>2, <1>3

\* The invariant holds at the start and every step preserves it.
LEMMA AuthInvInit == AuthInit => AuthInv
<1>. SUFFICES ASSUME AuthInit PROVE AuthInv
  OBVIOUS
<1>1. AuthTypeOK
  BY DEF AuthInit, AuthTypeOK
<1>2. \A k \in Keys : Debt(k) = 0 /\ spent[k] = 0 /\ now = 0 /\ since = 0
  BY DEF AuthInit, Debt
<1>. QED
  BY <1>1, <1>2, CapacityType, AuthAssumption DEF AuthInv

\* Every verdict and every passing of time preserves it.
LEMMA AuthInvStep == AuthInv /\ [AuthNext]_authVars => AuthInv'
<1>. SUFFICES ASSUME AuthInv, [AuthNext]_authVars PROVE AuthInv'
  OBVIOUS
<1>. USE CapacityType
<1>0. AuthTypeOK /\ \A k \in Keys : Debt(k) \in Nat /\ spent[k] \in Nat
  BY DebtType DEF AuthInv, AuthTypeOK
<1>1. ASSUME AuthTypeOK', now' = now, since' = since, spent' = spent,
             \A k \in Keys : Debt(k)' = Debt(k)
      PROVE  AuthInv'
  BY <1>1 DEF AuthInv, Capacity
<1>2. ASSUME NEW ip \in Addresses, JudgeThrottled(ip) \/ JudgeRight(ip)
      PROVE  AuthInv'
  <2>1. AuthTypeOK'
    BY <1>0, <1>2 DEF JudgeThrottled, JudgeRight, AuthTypeOK
  <2>. QED
    BY <1>1, <1>2, <2>1 DEF JudgeThrottled, JudgeRight, Debt
<1>3. ASSUME NEW ip \in Addresses, JudgeWrong(ip)
      PROVE  AuthInv'
  <2>. DEFINE k == AddressKey[ip]
  <2>1. k \in Keys
    BY AuthAssumption
  <2>2. /\ AuthTypeOK' /\ Debt(k)' = Debt(k) + Refill
        /\ \A j \in Keys \ {k} : Debt(j)' = Debt(j)
    BY <1>0, <1>3, WrongDebt
  <2>3. Debt(k) + Refill <= Capacity
    BY <1>0, <2>1, <1>3, AuthAssumption DEF JudgeWrong, Throttled
  <2>4. now' = now /\ since' = since /\ spent' = [spent EXCEPT ![k] = @ + 1]
    BY <1>3 DEF JudgeWrong
  <2>. HIDE DEF k
  <2>5. spent'[k] = spent[k] + 1 /\ \A j \in Keys \ {k} : spent'[j] = spent[j]
    BY <2>1, <2>4 DEF AuthInv, AuthTypeOK
  <2>6. (spent[k] + 1) * Refill = spent[k] * Refill + Refill
    BY <1>0, <2>1, AuthAssumption
  <2>7. Debt(k)' <= Capacity' /\ spent'[k] * Refill <= (now' - since') + Debt(k)'
    <3>1. spent[k] * Refill \in Nat
      BY <1>0, <2>1, AuthAssumption
    <3>. QED
      BY <1>0, <2>1, <2>2, <2>3, <2>4, <2>5, <2>6, <3>1, AuthAssumption
      DEF AuthInv, AuthTypeOK, Capacity
  <2>8. ASSUME NEW j \in Keys \ {k}
        PROVE  Debt(j)' <= Capacity' /\ spent'[j] * Refill <= (now' - since') + Debt(j)'
    BY <2>2, <2>4, <2>5 DEF AuthInv, Capacity
  <2>. QED
    BY <2>2, <2>7, <2>8 DEF AuthInv
<1>4. ASSUME NEW ip \in Addresses, JudgeUntracked(ip)
      PROVE  AuthInv'
  BY <1>0, <1>1, <1>4, UntrackedDebt DEF JudgeUntracked
<1>5. ASSUME NEW d \in 1 .. MaxNow, Elapse(d)
      PROVE  AuthInv'
  <2>1. /\ AuthTypeOK' /\ d \in Nat
        /\ \A j \in Keys : Debt(j)' = IF Debt(j) > d THEN Debt(j) - d ELSE 0
    BY <1>0, <1>5, ElapseDebt, AuthAssumption
  <2>2. now' = now + d /\ since' = since /\ spent' = spent
    BY <1>5 DEF Elapse
  <2>3. ASSUME NEW j \in Keys
        PROVE  Debt(j)' <= Capacity' /\ spent'[j] * Refill <= (now' - since') + Debt(j)'
    <3>1. spent[j] * Refill \in Nat
      BY <1>0, AuthAssumption
    <3>2. Debt(j) <= Capacity /\ spent[j] * Refill <= (now - since) + Debt(j)
      BY DEF AuthInv
    <3>. QED
      BY <1>0, <2>1, <2>2, <3>1, <3>2 DEF AuthTypeOK, Capacity
  <2>. QED
    BY <2>1, <2>3 DEF AuthInv
<1>6. ASSUME Observe
      PROVE  AuthInv'
  <2>1. AuthTypeOK' /\ now' = now /\ since' = now
    BY <1>0, <1>6 DEF Observe, AuthTypeOK
  <2>2. ASSUME NEW j \in Keys
        PROVE  Debt(j)' = Debt(j) /\ spent'[j] * Refill = 0
    BY <1>6, AuthAssumption DEF Observe, Debt
  <2>. QED
    BY <1>0, <2>1, <2>2 DEF AuthInv, AuthTypeOK, Capacity
<1>7. ASSUME UNCHANGED authVars
      PROVE  AuthInv'
  <2>1. AuthTypeOK'
    BY <1>0, <1>7 DEF authVars, AuthTypeOK
  <2>. QED
    BY <1>1, <1>7, <2>1 DEF authVars, Debt
<1>. QED
  BY <1>2, <1>3, <1>4, <1>5, <1>6, <1>7 DEF AuthNext

\* The invariant holds throughout.
THEOREM AuthInvariant == AuthSpec => []AuthInv
  BY AuthInvInit, AuthInvStep, PTL DEF AuthSpec

\* Type correctness of the limiter: its buckets and its clocks stay what
\* judge, make_room and the passing of time can make them.
THEOREM AuthTypes == AuthSpec => []AuthTypeOK
  BY AuthInvariant, PTL DEF AuthInv

\* In any window of time an address, or a whole /64, makes at most burst
\* recorded failures and one more per refill, for every table size, budget
\* and number of addresses: judge's budget survives make_room's sweeps.
THEOREM AuthRate == AuthSpec => []RateLimited
<1>1. AuthInv => RateLimited
  <2>. SUFFICES ASSUME AuthInv, NEW k \in Keys
                PROVE  spent[k] * Refill <= (now - since) + Capacity
    BY DEF RateLimited
  <2>1. spent[k] * Refill \in Nat /\ Debt(k) \in Nat
    BY DebtType, AuthAssumption DEF AuthInv, AuthTypeOK
  <2>. QED
    BY <2>1, CapacityType DEF AuthInv, AuthTypeOK
<1>. QED
  BY <1>1, AuthInvariant, PTL

\* The limiter implements AuthBudget: every step of judge, with its sweep and
\* its cap, is a step of the budget or none.
THEOREM AuthRefines == AuthSpec => AuthImplements
<1>. USE CapacityType
<1>1. AuthInit => AB!AbInit
  BY DEF AuthInit, AB!AbInit, Debt
<1>2. AuthInv /\ [AuthNext]_authVars => [AB!AbNext]_(AB!abVars)
  <2>. SUFFICES ASSUME AuthInv, [AuthNext]_authVars
                PROVE  [AB!AbNext]_(AB!abVars)
    OBVIOUS
  <2>. DEFINE debt == [k \in Keys |-> Debt(k)]
  <2>0. AuthTypeOK /\ \A k \in Keys : Debt(k) \in Nat /\ Debt(k) <= Capacity
    BY DebtType DEF AuthInv
  <2>1. ASSUME NEW ip \in Addresses, JudgeThrottled(ip)
        PROVE  AB!AbThrottle(AddressKey[ip])
    BY <2>1, AuthAssumption
    DEF JudgeThrottled, Throttled, AB!AbThrottle, AB!Exhausted, Debt
  <2>2. ASSUME NEW ip \in Addresses, JudgeRight(ip)
        PROVE  AB!AbPass(AddressKey[ip])
    BY <2>2, AuthAssumption
    DEF JudgeRight, Throttled, AB!AbPass, AB!Exhausted, Debt
  <2>3. ASSUME NEW ip \in Addresses, JudgeWrong(ip)
        PROVE  AB!AbFail(AddressKey[ip])
    <3>. DEFINE k == AddressKey[ip]
    <3>1. k \in Keys
      BY AuthAssumption
    <3>2. /\ Debt(k)' = Debt(k) + Refill
          /\ \A j \in Keys \ {k} : Debt(j)' = Debt(j)
      BY <2>0, <2>3, WrongDebt
    <3>3. ~(Debt(k) + Refill > Capacity) /\ verdict' = "reject"
      BY <2>3 DEF JudgeWrong, Throttled
    <3>. HIDE DEF k
    <3>4. [j \in Keys |-> Debt(j)'] = [[j \in Keys |-> Debt(j)] EXCEPT ![k] = @ + Refill]
      BY <3>1, <3>2, ZenonT(60)
    <3>5. AB!AbFail(k)
      BY <3>1, <3>3, <3>4 DEF AB!AbFail, AB!Exhausted
    <3>. QED
      BY <3>5 DEF k
  <2>4. ASSUME NEW ip \in Addresses, JudgeUntracked(ip)
        PROVE  AB!AbOverlook(AddressKey[ip])
    <3>. DEFINE k == AddressKey[ip]
    <3>1. k \in Keys /\ k \notin DOMAIN fullAt /\ Cardinality(Swept) >= MaxTracked
      BY <2>4, AuthAssumption DEF JudgeUntracked
    <3>2. Debt(k) = 0
      BY <3>1 DEF Debt
    <3>3. \A j \in Keys : Debt(j)' = Debt(j)
      BY <2>0, <2>4, UntrackedDebt
    <3>4. IsFiniteSet(DOMAIN fullAt) /\ Cardinality(DOMAIN fullAt) \in Nat
      BY <2>0, AuthAssumption, FS_Subset, FS_CardinalityType DEF AuthTypeOK
    <3>5. Swept = {b \in Keys : Debt(b) > 0}
      <4>1. Cardinality(DOMAIN fullAt) >= SweepAt
        BY <3>1, <3>4, AuthAssumption DEF Swept
      <4>2. Swept = {b \in DOMAIN fullAt : fullAt[b] > now}
        BY <4>1 DEF Swept
      <4>3. \A b \in DOMAIN fullAt : fullAt[b] \in Nat /\ b \in Keys /\ now \in Nat
        BY <2>0 DEF AuthTypeOK
      <4>. QED
        BY <4>2, <4>3 DEF Debt
    <3>6. verdict' = "reject"
      BY <2>4 DEF JudgeUntracked
    <3>. HIDE DEF k
    <3>7. AB!AbOverlook(k)
      <4>1. {b \in Keys : [j \in Keys |-> Debt(j)][b] > 0} = Swept
        BY <3>5
      <4>2. Cardinality({b \in Keys : [j \in Keys |-> Debt(j)][b] > 0}) >= MaxTracked
        BY <3>1, <4>1, ZenonT(60)
      <4>3. [j \in Keys |-> Debt(j)'] = [j \in Keys |-> Debt(j)]
        BY <3>3
      <4>4. [j \in Keys |-> Debt(j)][k] = 0
        BY <3>1, <3>2
      <4>. QED
        BY <3>6, <4>2, <4>3, <4>4, Zenon DEF AB!AbOverlook
    <3>. QED
      BY <3>7 DEF k
  <2>5. ASSUME NEW d \in 1 .. MaxNow, Elapse(d)
        PROVE  \E e \in 0 .. Capacity : AB!AbElapse(e)
    <3>1. d \in Nat /\ \A j \in Keys : Debt(j)' = IF Debt(j) > d THEN Debt(j) - d ELSE 0
      BY <2>0, <2>5, ElapseDebt, AuthAssumption
    <3>2. verdict' = verdict
      BY <2>5 DEF Elapse
    <3>. DEFINE e == IF d <= Capacity THEN d ELSE Capacity
    <3>3. e \in 0 .. Capacity
      BY <3>1
    <3>4. \A j \in Keys : Debt(j)' = IF Debt(j) > e THEN Debt(j) - e ELSE 0
      BY <2>0, <3>1
    <3>. HIDE DEF e
    <3>5. AB!AbElapse(e)
      BY <3>2, <3>4 DEF AB!AbElapse
    <3>. QED
      BY <3>3, <3>5
  <2>6. ASSUME Observe \/ UNCHANGED authVars
        PROVE  UNCHANGED AB!abVars
    BY <2>6 DEF Observe, authVars, AB!abVars, Debt
  <2>7. \A ip \in Addresses : AddressKey[ip] \in Keys
    BY AuthAssumption
  <2>. QED
    BY <2>1, <2>2, <2>3, <2>4, <2>5, <2>6, <2>7 DEF AuthNext, AB!AbNext
<1>. QED
  BY <1>1, <1>2, AuthInvariant, PTL DEF AuthSpec, AuthImplements, AB!AbSpec

-----------------------------------------------------------------------------
(* Induction, as the least counterexample. *)

(* A non-empty set of naturals has a least element. *)
LEMMA Least ==
    ASSUME NEW T, T \subseteq Nat, T # {}
    PROVE  \E x \in T : \A y \in T : x <= y
<1> DEFINE R == {ss \in Nat \X Nat : ss[1] < ss[2]}
<1>1. IsWellFoundedOn(R, Nat)
  BY NatLessThanWellFounded, Zenon DEF OpToRel
<1>2. \A x, y \in Nat : x < y => <<x, y>> \in R
  OBVIOUS
<1> HIDE DEF R
<1>3. PICK x \in T : \A y \in T : ~(<<y, x>> \in R)
  BY <1>1, WFMin, Zenon
<1>4. \A y \in T : ~(y < x)
  BY <1>2, <1>3, Zenon
<1>5. \A y \in T : x <= y
  BY <1>4
<1> QED
  BY <1>5

-----------------------------------------------------------------------------
(* Sums of a function over finite sets of its arguments. *)

First(s) == CHOOSE x \in s : TRUE

\* g is the table of the sums of w over the sets in Z.
Tabulates(g, w, Z) == g = [s \in Z |-> IF s = {} THEN 0 ELSE w[First(s)] + g[s \ {First(s)}]]

(* The element taken out first is one of them. *)
LEMMA FirstIn == ASSUME NEW s, s # {} PROVE First(s) \in s
BY DEF First

(* SumFunction looks its sum up in such a table. *)
LEMMA SumLookup ==
    ASSUME NEW w
    PROVE  SumFunction(w) = (CHOOSE g : Tabulates(g, w, SUBSET DOMAIN w))[DOMAIN w]
BY Zenon DEF SumFunction, SumFunctionOnSet, FoldFunctionOnSet, MapThenFoldSet, Tabulates, First

(* Removing an element of a finite set. *)
LEMMA Smaller ==
    ASSUME NEW s, IsFiniteSet(s), NEW x \in s
    PROVE  /\ IsFiniteSet(s \ {x}) /\ Cardinality(s) \in Nat /\ Cardinality(s \ {x}) \in Nat
           /\ Cardinality(s \ {x}) = Cardinality(s) - 1
BY FS_RemoveElement, FS_CardinalityType

\* The subsets of D with at most n elements.
UpTo(D, n) == {s \in SUBSET D : Cardinality(s) <= n}

(* There is such a table. *)
LEMMA TableExists ==
    ASSUME NEW D, IsFiniteSet(D), NEW w
    PROVE  \E g : Tabulates(g, w, SUBSET D)
<1>f. \A s \in SUBSET D : IsFiniteSet(s) /\ Cardinality(s) \in Nat /\ Cardinality(s) <= Cardinality(D)
  BY FS_Subset, FS_CardinalityType
<1> DEFINE Bad == {n \in Nat : ~ \E g : Tabulates(g, w, UpTo(D, n))}
<1>1. 0 \notin Bad
  <2> DEFINE g == [s \in UpTo(D, 0) |-> 0]
  <2>1. \A s \in UpTo(D, 0) : s = {}
    <3>1. \A s \in UpTo(D, 0) : IsFiniteSet(s) /\ Cardinality(s) = 0
      BY <1>f DEF UpTo
    <3> QED
      BY <3>1, FS_EmptySet
  <2>2. Tabulates(g, w, UpTo(D, 0))
    BY <2>1 DEF Tabulates
  <2> QED
    BY <2>2
<1>2. ASSUME NEW n \in Nat, n \notin Bad
      PROVE  n + 1 \notin Bad
  <2>1. PICK g : Tabulates(g, w, UpTo(D, n))
    BY <1>2
  <2> DEFINE h == [s \in UpTo(D, n + 1) |-> IF s = {} THEN 0 ELSE w[First(s)] + g[s \ {First(s)}]]
  <2>2. ASSUME NEW s \in UpTo(D, n)
        PROVE  s \in UpTo(D, n + 1) /\ h[s] = g[s]
    <3>1. s \in UpTo(D, n + 1)
      BY <1>f, <2>2 DEF UpTo
    <3>2. g[s] = IF s = {} THEN 0 ELSE w[First(s)] + g[s \ {First(s)}]
      BY <2>1, <2>2, Zenon DEF Tabulates
    <3> QED
      BY <3>1, <3>2, Zenon
  <2>3. ASSUME NEW s \in UpTo(D, n + 1), s # {}
        PROVE  s \ {First(s)} \in UpTo(D, n)
    <3>1. s \in SUBSET D /\ IsFiniteSet(s) /\ Cardinality(s) <= n + 1 /\ First(s) \in s
      BY <1>f, <2>3, FirstIn DEF UpTo
    <3> QED
      BY <3>1, Smaller DEF UpTo
  <2>4. \A s \in UpTo(D, n + 1) : s # {} => h[s \ {First(s)}] = g[s \ {First(s)}]
    BY <2>2, <2>3, Zenon
  <2>5. Tabulates(h, w, UpTo(D, n + 1))
    BY <2>4, Zenon DEF Tabulates
  <2> QED
    BY <2>5
<1>3. Bad = {}
  <2>1. SUFFICES ASSUME Bad # {} PROVE FALSE
    OBVIOUS
  <2>2. Bad \subseteq Nat
    OBVIOUS
  <2> HIDE DEF Bad
  <2>3. PICK n \in Bad : \A m \in Bad : n <= m
    BY <2>1, <2>2, Least, Zenon
  <2>4. n # 0 /\ n - 1 \in Nat /\ n - 1 \notin Bad
    BY <1>1, <2>2, <2>3
  <2>5. n - 1 + 1 = n
    BY <2>2, <2>3
  <2> QED
    BY <1>2, <2>3, <2>4, <2>5
<1>4. Cardinality(D) \in Nat /\ UpTo(D, Cardinality(D)) = SUBSET D
  BY <1>f, FS_CardinalityType DEF UpTo
<1>5. PICK n \in Nat : n = Cardinality(D)
  BY <1>4
<1>6. n \notin Bad
  <2> HIDE DEF Bad
  <2> QED
    BY <1>3
<1>7. \E g : Tabulates(g, w, UpTo(D, n))
  BY <1>6
<1> QED
  BY <1>4, <1>5, <1>7, Zenon

\* Any element of t can be taken out of the sum.
TakesOut(g, w, t) == g[t] \in Nat /\ \A y \in t : g[t] = w[y] + g[t \ {y}]

Equal(g, h, t) == g[t] = h[t]

Agree(w, v, t) == \A x \in t : w[x] = v[x]

(* Sums are naturals, and an element can be taken out of one in any order. *)
LEMMA TableSums ==
    ASSUME NEW D, IsFiniteSet(D), NEW w \in [D -> Nat], NEW g, Tabulates(g, w, SUBSET D), NEW t \in SUBSET D
    PROVE  TakesOut(g, w, t)
<1>f. \A s \in SUBSET D : IsFiniteSet(s) /\ Cardinality(s) \in Nat
  BY FS_Subset, FS_CardinalityType
<1>g. \A s \in SUBSET D : g[s] = IF s = {} THEN 0 ELSE w[First(s)] + g[s \ {First(s)}]
  BY Zenon DEF Tabulates
<1> DEFINE Good(s) == g[s] \in Nat /\ \A y \in s : g[s] = w[y] + g[s \ {y}]
           Bad == {s \in SUBSET D : ~Good(s)}
           Cards == {Cardinality(s) : s \in Bad}
<1>1. SUFFICES ASSUME Bad # {} PROVE FALSE
  BY DEF TakesOut
<1>2. Cards \subseteq Nat /\ Cards # {}
  <2>1. \A s \in Bad : Cardinality(s) \in Nat
    BY <1>f
  <2> HIDE DEF Bad
  <2> QED
    BY <1>1, <2>1
<1>3. PICK s \in Bad : \A r \in Bad : Cardinality(s) <= Cardinality(r)
  <2> HIDE DEF Bad
  <2>1. PICK n \in Cards : \A m \in Cards : n <= m
    <3> HIDE DEF Cards
    <3> QED
      BY <1>2, Least, Zenon
  <2> QED
    BY <2>1
<1>4. \A r \in SUBSET D : Cardinality(r) < Cardinality(s) => Good(r)
  <2>1. \A r \in SUBSET D : ~Good(r) => r \in Bad
    OBVIOUS
  <2>2. s \in SUBSET D
    OBVIOUS
  <2> HIDE DEF Good, Bad
  <2> QED
    BY <1>f, <1>3, <2>1, <2>2
<1>5. s \in SUBSET D /\ ~Good(s)
  OBVIOUS
<1>6. s # {}
  <2>1. s = {} => g[s] = 0
    BY <1>g, <1>5, Zenon
  <2> QED
    BY <1>5, <2>1
<1>7. PICK x : x = First(s)
  OBVIOUS
<1>8. x \in s /\ g[s] = w[x] + g[s \ {x}]
  BY <1>5, <1>6, <1>7, <1>g, FirstIn, Zenon
<1>9. ASSUME NEW y \in s
      PROVE  s \ {y} \in SUBSET D /\ Good(s \ {y}) /\ w[y] \in Nat
  <2>1. s \ {y} \in SUBSET D /\ IsFiniteSet(s) /\ w[y] \in Nat
    BY <1>f, <1>5, <1>9
  <2>2. Cardinality(s \ {y}) < Cardinality(s)
    <3>1. /\ Cardinality(s) \in Nat /\ Cardinality(s \ {y}) \in Nat
          /\ Cardinality(s \ {y}) = Cardinality(s) - 1
      BY <2>1, <1>9, Smaller, Zenon
    <3> QED
      BY <3>1
  <2> HIDE DEF Good
  <2> QED
    BY <1>4, <2>1, <2>2
<1>10. g[s] \in Nat
  BY <1>8, <1>9
<1>11. ASSUME NEW y \in s
       PROVE  g[s] = w[y] + g[s \ {y}]
  <2>1. CASE y = x
    BY <1>8, <2>1
  <2>2. CASE y # x
    <3>1. y \in s \ {x} /\ x \in s \ {y} /\ (s \ {x}) \ {y} = (s \ {y}) \ {x}
      BY <1>8, <1>11, <2>2
    <3>2. g[s \ {x}] = w[y] + g[(s \ {x}) \ {y}]
      BY <1>8, <1>9, <3>1
    <3>3. g[s \ {y}] = w[x] + g[(s \ {y}) \ {x}]
      BY <1>9, <1>11, <3>1, Z3T(60)
    <3>4. (s \ {x}) \ {y} \in SUBSET D
      BY <1>5
    <3>5. g[(s \ {x}) \ {y}] \in Nat
      <4>1. /\ s \ {x} \in SUBSET D /\ IsFiniteSet(s \ {x}) /\ IsFiniteSet(s)
        BY <1>f, <1>5
      <4>2. Cardinality((s \ {x}) \ {y}) < Cardinality(s)
        <5>1. /\ Cardinality(s) \in Nat /\ Cardinality(s \ {x}) \in Nat
              /\ Cardinality(s \ {x}) = Cardinality(s) - 1
          BY <1>8, <4>1, Smaller, Zenon
        <5>2. /\ Cardinality((s \ {x}) \ {y}) \in Nat
              /\ Cardinality((s \ {x}) \ {y}) = Cardinality(s \ {x}) - 1
          BY <3>1, <4>1, Smaller, Zenon
        <5> QED
          BY <5>1, <5>2
      <4> QED
        BY <1>4, <3>4, <4>2
    <3>6. w[x] \in Nat /\ w[y] \in Nat
      BY <1>8, <1>9, <1>11
    <3>7. PICK a : a = g[(s \ {x}) \ {y}]
      OBVIOUS
    <3>8. g[s] = w[x] + (w[y] + a) /\ g[s \ {y}] = w[x] + a /\ a \in Nat
      BY <1>8, <3>1, <3>2, <3>3, <3>5, <3>7, Zenon
    <3> QED
      BY <3>6, <3>8
  <2> QED
    BY <2>1, <2>2
<1> QED
  BY <1>5, <1>10, <1>11

(* Sums of functions that agree are equal. *)
LEMMA TablesAgree ==
    ASSUME NEW D, NEW w, NEW g, Tabulates(g, w, SUBSET D), NEW t \in SUBSET D,
           NEW v, NEW h, Tabulates(h, v, SUBSET t), IsFiniteSet(t), Agree(w, v, t)
    PROVE  Equal(g, h, t)
<1>f. \A s \in SUBSET t : IsFiniteSet(s) /\ Cardinality(s) \in Nat
  BY FS_Subset, FS_CardinalityType
<1>d. \A s \in SUBSET t : s \in SUBSET D
  OBVIOUS
<1>g. \A s \in SUBSET t : /\ g[s] = IF s = {} THEN 0 ELSE w[First(s)] + g[s \ {First(s)}]
                          /\ h[s] = IF s = {} THEN 0 ELSE v[First(s)] + h[s \ {First(s)}]
  BY <1>d, Zenon DEF Tabulates
<1> DEFINE Bad == {s \in SUBSET t : g[s] # h[s]}
           Cards == {Cardinality(s) : s \in Bad}
<1>1. SUFFICES ASSUME Bad # {} PROVE FALSE
  BY DEF Equal
<1>2. Cards \subseteq Nat /\ Cards # {}
  <2>1. \A s \in Bad : Cardinality(s) \in Nat
    BY <1>f
  <2> HIDE DEF Bad
  <2> QED
    BY <1>1, <2>1
<1>3. PICK s \in Bad : \A r \in Bad : Cardinality(s) <= Cardinality(r)
  <2> HIDE DEF Bad
  <2>1. PICK n \in Cards : \A m \in Cards : n <= m
    <3> HIDE DEF Cards
    <3> QED
      BY <1>2, Least, Zenon
  <2> QED
    BY <2>1
<1>4. s \in SUBSET t /\ g[s] # h[s]
  OBVIOUS
<1>5. s # {}
  BY <1>4, <1>g, Zenon
<1>6. PICK x : x = First(s)
  OBVIOUS
<1>7. x \in s /\ x \in t /\ g[s] = w[x] + g[s \ {x}] /\ h[s] = v[x] + h[s \ {x}]
  <2>1. x \in s /\ g[s] = w[x] + g[s \ {x}] /\ h[s] = v[x] + h[s \ {x}]
    BY <1>4, <1>5, <1>6, <1>g, FirstIn, Zenon
  <2> QED
    BY <1>4, <2>1
<1>a. w[x] = v[x]
  BY <1>7 DEF Agree
<1>8. g[s \ {x}] = h[s \ {x}]
  <2>1. s \ {x} \in SUBSET t /\ IsFiniteSet(s)
    BY <1>f, <1>4
  <2>2. /\ Cardinality(s) \in Nat /\ Cardinality(s \ {x}) \in Nat
        /\ Cardinality(s \ {x}) = Cardinality(s) - 1
    BY <1>7, <2>1, Smaller, Zenon
  <2>3. s \ {x} \notin Bad
    <3> HIDE DEF Bad
    <3> QED
      BY <1>3, <2>2
  <2> QED
    BY <2>1, <2>3
<1> QED
  BY <1>4, <1>7, <1>8, <1>a, Zenon

(* The empty sum is 0. *)
LEMMA SumOfNone ==
    ASSUME NEW w, DOMAIN w = {}
    PROVE  SumFunction(w) = 0
<1>1. PICK g : g = CHOOSE f : Tabulates(f, w, SUBSET {})
  OBVIOUS
<1>2. Tabulates(g, w, SUBSET {})
  BY <1>1, TableExists, FS_EmptySet, Zenon
<1>3. SumFunction(w) = g[{}]
  BY <1>1, SumLookup, Zenon
<1>4. {} \in SUBSET {}
  OBVIOUS
<1> QED
  BY <1>2, <1>3, <1>4, Zenon DEF Tabulates

(* A sum stands in a table that takes its elements out one by one. *)
LEMMA SumInTable ==
    ASSUME NEW E, IsFiniteSet(E), NEW w \in [E -> Nat]
    PROVE  \E g : Tabulates(g, w, SUBSET E) /\ SumFunction(w) = g[E] /\ TakesOut(g, w, E)
<1>1. PICK g : g = CHOOSE f : Tabulates(f, w, SUBSET E)
  OBVIOUS
<1>2. Tabulates(g, w, SUBSET E)
  BY <1>1, TableExists, Zenon
<1>3. DOMAIN w = E /\ E \in SUBSET E
  OBVIOUS
<1>4. SumFunction(w) = g[E]
  BY <1>1, <1>3, SumLookup, Zenon
<1>5. TakesOut(g, w, E)
  BY <1>2, <1>3, TableSums, Zenon
<1> QED
  BY <1>2, <1>4, <1>5, Zenon

\* The sum of w is that of v and w[x].
Adds(w, x, v) ==
    SumFunction(w) \in Nat /\ SumFunction(v) \in Nat /\ SumFunction(w) = w[x] + SumFunction(v)

(* A sum is one element and the sum of the others. *)
LEMMA SumOfMore ==
    ASSUME NEW E, IsFiniteSet(E), NEW w \in [E -> Nat], NEW x \in E,
           NEW v \in [E \ {x} -> Nat], Agree(w, v, E \ {x})
    PROVE  Adds(w, x, v)
<1>1. IsFiniteSet(E \ {x})
  BY FS_RemoveElement
<1>2. PICK g : Tabulates(g, w, SUBSET E) /\ SumFunction(w) = g[E] /\ TakesOut(g, w, E)
  BY SumInTable, Zenon
<1>3. PICK h : /\ Tabulates(h, v, SUBSET (E \ {x})) /\ SumFunction(v) = h[E \ {x}]
               /\ TakesOut(h, v, E \ {x})
  BY <1>1, SumInTable, Zenon
<1>4. E \ {x} \in SUBSET E /\ E \ {x} \in SUBSET (E \ {x})
  OBVIOUS
<1>6. Equal(g, h, E \ {x})
  BY <1>1, <1>2, <1>3, <1>4, TablesAgree, ZenonT(60)
<1> QED
  BY <1>2, <1>3, <1>6, Zenon DEF TakesOut, Equal, Adds

-----------------------------------------------------------------------------
(* The writer's queue and the outbox. *)

(* A part of a sum is no more than the sum. *)
LEMMA SumOfPart ==
    ASSUME NEW E, IsFiniteSet(E), NEW w \in [E -> Nat], NEW p \in SUBSET E,
           NEW v \in [p -> Nat], \A y \in p : w[y] = v[y]
    PROVE  SumFunction(v) \in Nat /\ SumFunction(w) \in Nat /\ SumFunction(v) <= SumFunction(w)
<1>1. IsFiniteSet(p)
  BY FS_Subset
<1>2. PICK g : Tabulates(g, w, SUBSET E) /\ SumFunction(w) = g[E] /\ TakesOut(g, w, E)
  BY SumInTable, Zenon
<1>3. PICK h : Tabulates(h, v, SUBSET p) /\ SumFunction(v) = h[p] /\ TakesOut(h, v, p)
  BY <1>1, SumInTable, Zenon
<1>4. Agree(w, v, p)
  BY Zenon DEF Agree
<1>5. Equal(g, h, p)
  BY <1>1, <1>2, <1>3, <1>4, TablesAgree, ZenonT(60)
<1>6. SumFunction(v) = g[p] /\ g[p] \in Nat /\ g[E] \in Nat
  BY <1>2, <1>3, <1>5, Zenon DEF Equal, TakesOut
<1>f. \A t \in SUBSET E : IsFiniteSet(t) /\ Cardinality(t) \in Nat
  BY FS_Subset, FS_CardinalityType
<1>t. ASSUME NEW t \in SUBSET E
      PROVE  TakesOut(g, w, t)
  BY <1>2, TableSums, Zenon
<1> DEFINE Bad == {t \in SUBSET E : p \subseteq t /\ ~(g[p] <= g[t])}
           Sz == {Cardinality(t) : t \in Bad}
<1>7. SUFFICES ASSUME Bad # {} PROVE FALSE
  BY <1>2, <1>6
<1>8. Sz \subseteq Nat /\ Sz # {}
  <2>1. \A t \in Bad : Cardinality(t) \in Nat
    BY <1>f
  <2> HIDE DEF Bad
  <2> QED
    BY <1>7, <2>1
<1>9. PICK t \in Bad : \A r \in Bad : Cardinality(t) <= Cardinality(r)
  <2> HIDE DEF Bad
  <2>1. PICK n \in Sz : \A m \in Sz : n <= m
    <3> HIDE DEF Sz
    <3> QED
      BY <1>8, Least, Zenon
  <2> QED
    BY <2>1
<1>10. t \in SUBSET E /\ p \subseteq t /\ ~(g[p] <= g[t])
  OBVIOUS
<1>11. PICK y \in t : y \notin p
  BY <1>6, <1>10
<1>12. t \ {y} \in SUBSET E /\ p \subseteq t \ {y} /\ IsFiniteSet(t) /\ w[y] \in Nat
  BY <1>f, <1>10, <1>11
<1>13. /\ Cardinality(t) \in Nat /\ Cardinality(t \ {y}) \in Nat
       /\ Cardinality(t \ {y}) = Cardinality(t) - 1
  BY <1>11, <1>12, Smaller, Zenon
<1>14. t \ {y} \notin Bad
  <2> HIDE DEF Bad
  <2> QED
    BY <1>9, <1>13
<1>15. g[p] <= g[t \ {y}]
  BY <1>12, <1>14
<1>16. g[t] = w[y] + g[t \ {y}] /\ g[t] \in Nat
  BY <1>10, <1>11, <1>t, Zenon DEF TakesOut
<1>17. g[t \ {y}] \in Nat
  BY <1>12, <1>t, Zenon DEF TakesOut
<1> QED
  BY <1>6, <1>10, <1>12, <1>15, <1>16, <1>17

-----------------------------------------------------------------------------
(* The bytes of a queue, and of the frames of a set of tasks. *)

AFrame == Frames \cup {NoFrame}

Size(s) == SumFunction([i \in DOMAIN s |-> s[i].len])

Load(S, fr) == SumFunction([p \in S |-> fr[p].len])

(* FrameQueue counts bytes the same way. *)
LEMMA BytesAreSize == ASSUME NEW s PROVE FQ!Bytes(s) = Size(s)
BY Zenon DEF FQ!Bytes, FQ!SumFunction, FQ!SumFunctionOnSet, FQ!FoldFunctionOnSet, FQ!MapThenFoldSet,
     Size, SumFunction, SumFunctionOnSet, FoldFunctionOnSet, MapThenFoldSet

(* A frame has some bytes. *)
LEMMA FrameLen ==
    ASSUME NEW f \in AFrame
    PROVE  f.len \in Nat /\ (f \in Frames => f.len > 0)
<1>1. CASE f \in Frames
  <2>1. f.len \in Sizes
    BY <1>1 DEF Frames
  <2> QED
    <3>1. \A l \in Sizes : l \in Nat /\ l > 0
      BY OutboxAssumption
    <3> QED
      BY <2>1, <3>1, Zenon
<1>2. CASE f = NoFrame
  <2>1. f.len = 0
    BY <1>2 DEF NoFrame
  <2>2. f \notin Frames
    <3>1. f \in Frames => f.len \in Sizes
      BY DEF Frames
    <3> QED
      BY <2>1, <3>1, OutboxAssumption
  <2> QED
    BY <2>1, <2>2
<1> QED
  BY <1>1, <1>2 DEF AFrame

(* An empty queue has no bytes. *)
LEMMA SizeOfNone == Size(<<>>) = 0
<1>1. DOMAIN [i \in DOMAIN <<>> |-> <<>>[i].len] = {}
  OBVIOUS
<1> QED
  BY <1>1, SumOfNone, Zenon DEF Size

(* A frame at the end of a queue adds its bytes. *)
LEMMA SizeOfAppend ==
    ASSUME NEW s \in Seq(Frames), NEW f \in Frames
    PROVE  Size(s) \in Nat /\ Size(Append(s, f)) \in Nat /\ Size(Append(s, f)) = Size(s) + f.len
<1> DEFINE q == Append(s, f)
           n == Len(s)
           w == [i \in DOMAIN q |-> q[i].len]
           v == [i \in DOMAIN s |-> s[i].len]
<1>1. q \in Seq(Frames) /\ n \in Nat /\ DOMAIN q = 1..(n + 1) /\ DOMAIN s = 1..n
  OBVIOUS
<1>2. IsFiniteSet(DOMAIN q)
  BY <1>1, FS_Interval
<1>3. w \in [DOMAIN q -> Nat] /\ v \in [DOMAIN s -> Nat]
  <2>1. \A i \in DOMAIN q : q[i] \in AFrame
    BY <1>1 DEF AFrame
  <2>2. \A i \in DOMAIN s : s[i] \in AFrame
    BY DEF AFrame
  <2> HIDE DEF q
  <2> QED
    BY <2>1, <2>2, FrameLen
<1>4. n + 1 \in DOMAIN q /\ (DOMAIN q) \ {n + 1} = DOMAIN s
  BY <1>1
<1>5. w[n + 1] = f.len /\ \A i \in DOMAIN s : w[i] = v[i]
  BY <1>1
<1>6. Size(q) = SumFunction(w) /\ Size(s) = SumFunction(v)
  BY DEF Size
<1>7. f.len \in Nat
  BY FrameLen DEF AFrame
<1> HIDE DEF q, n, w, v
<1>8. SumFunction(w) \in Nat /\ SumFunction(v) \in Nat /\ SumFunction(w) = w[n + 1] + SumFunction(v)
  <2>1. v \in [(DOMAIN q) \ {n + 1} -> Nat] /\ Agree(w, v, (DOMAIN q) \ {n + 1})
    BY <1>3, <1>4, <1>5, Zenon DEF Agree
  <2>2. w \in [DOMAIN q -> Nat] /\ n + 1 \in DOMAIN q
    BY <1>3, <1>4, Zenon
  <2>3. Adds(w, n + 1, v)
    BY <1>2, <2>1, <2>2, SumOfMore, ZenonT(60)
  <2> QED
    BY <2>3, Zenon DEF Adds
<1> QED
  BY <1>5, <1>6, <1>7, <1>8 DEF q

(* So does one at the front. *)
LEMMA SizeOfCons ==
    ASSUME NEW s \in Seq(Frames), NEW f \in Frames
    PROVE  Size(s) \in Nat /\ Size(<<f>> \o s) \in Nat /\ Size(<<f>> \o s) = f.len + Size(s)
<1>t. f.len \in Nat
  BY FrameLen DEF AFrame
<1>s. \A r \in Seq(Frames) : Size(r) \in Nat
  BY SizeOfAppend
<1> DEFINE Bad == {r \in Seq(Frames) : Size(<<f>> \o r) # f.len + Size(r)}
           Sz == {Len(r) : r \in Bad}
<1>1. SUFFICES ASSUME Bad # {} PROVE FALSE
  <2>1. s \notin Bad => Size(<<f>> \o s) = f.len + Size(s)
    OBVIOUS
  <2> HIDE DEF Bad
  <2> QED
    BY <2>1, <1>t, <1>s
<1>2. Sz \subseteq Nat /\ Sz # {}
  <2>1. \A r \in Bad : Len(r) \in Nat
    OBVIOUS
  <2> HIDE DEF Bad
  <2> QED
    BY <1>1, <2>1, Zenon
<1>3. PICK r \in Bad : \A x \in Bad : Len(r) <= Len(x)
  <2> HIDE DEF Bad
  <2>1. PICK n \in Sz : \A m \in Sz : n <= m
    <3> HIDE DEF Sz
    <3> QED
      BY <1>2, Least, Zenon
  <2> QED
    BY <2>1
<1>4. r \in Seq(Frames) /\ Size(<<f>> \o r) # f.len + Size(r)
  OBVIOUS
<1>5. CASE r = <<>>
  <2>1. <<f>> \o <<>> = Append(<<>>, f) /\ <<>> \in Seq(Frames)
    OBVIOUS
  <2>2. Size(Append(<<>>, f)) = Size(<<>>) + f.len
    BY <2>1, SizeOfAppend, Zenon
  <2> QED
    BY <1>4, <1>5, <1>t, <2>1, <2>2, SizeOfNone
<1>6. CASE r # <<>>
  <2> DEFINE x == SubSeq(r, 1, Len(r) - 1)
             l == r[Len(r)]
  <2>1. x \in Seq(Frames) /\ l \in Frames /\ Len(x) < Len(r) /\ r = Append(x, l)
        /\ <<f>> \o Append(x, l) = Append(<<f>> \o x, l) /\ <<f>> \o x \in Seq(Frames)
    BY <1>4, <1>6
  <2> HIDE DEF x, l
  <2>2. x \notin Bad
    <3>1. Len(x) \in Nat /\ Len(r) \in Nat
      BY <1>4, <2>1
    <3> HIDE DEF Bad
    <3> QED
      BY <1>3, <2>1, <3>1
  <2>3. Size(<<f>> \o x) = f.len + Size(x)
    BY <2>1, <2>2
  <2>4. Size(r) = Size(x) + l.len
    BY <2>1, SizeOfAppend, Zenon
  <2>5. Size(<<f>> \o r) = Size(<<f>> \o x) + l.len
    BY <2>1, SizeOfAppend, Zenon
  <2>6. l.len \in Nat /\ Size(x) \in Nat
    BY <2>1, <1>s, FrameLen DEF AFrame
  <2> QED
    BY <1>4, <1>t, <2>3, <2>4, <2>5, <2>6
<1> QED
  BY <1>5, <1>6

(* Taking the first frame off a queue. *)
LEMMA SizeOfTail ==
    ASSUME NEW s \in Seq(Frames), s # <<>>
    PROVE  /\ Size(s) \in Nat /\ Size(Tail(s)) \in Nat /\ Size(s) = Head(s).len + Size(Tail(s))
           /\ Head(s) \in Frames /\ Tail(s) \in Seq(Frames)
<1>1. Head(s) \in Frames /\ Tail(s) \in Seq(Frames) /\ <<Head(s)>> \o Tail(s) = s
  OBVIOUS
<1> QED
  <2>1. PICK h \in Frames, t \in Seq(Frames) : h = Head(s) /\ t = Tail(s) /\ <<h>> \o t = s
    BY <1>1, Zenon
  <2>2. Size(t) \in Nat /\ Size(<<h>> \o t) \in Nat /\ Size(<<h>> \o t) = h.len + Size(t)
    BY SizeOfCons
  <2> QED
    BY <1>1, <2>1, <2>2, Zenon

(* The load of a set of tasks. *)
LEMMA LoadOfMore ==
    ASSUME NEW fr \in [Pushers -> AFrame], NEW S \in SUBSET Pushers, NEW p \in S
    PROVE  /\ Load(S, fr) \in Nat /\ Load(S \ {p}, fr) \in Nat /\ fr[p].len \in Nat
           /\ Load(S, fr) = fr[p].len + Load(S \ {p}, fr)
<1> DEFINE w == [q \in S |-> fr[q].len]
           v == [q \in S \ {p} |-> fr[q].len]
<1>1. IsFiniteSet(S)
  BY OutboxAssumption, FS_Subset
<1>2. \A q \in S : fr[q].len \in Nat
  BY FrameLen
<1>3. w \in [S -> Nat] /\ v \in [S \ {p} -> Nat] /\ w[p] = fr[p].len /\ Agree(w, v, S \ {p})
  BY <1>2 DEF Agree
<1>4. Load(S, fr) = SumFunction(w) /\ Load(S \ {p}, fr) = SumFunction(v)
  BY Zenon DEF Load
<1> HIDE DEF w, v
<1>5. SumFunction(w) \in Nat /\ SumFunction(v) \in Nat /\ SumFunction(w) = w[p] + SumFunction(v)
  <2>1. Adds(w, p, v)
    BY <1>1, <1>3, SumOfMore, Zenon
  <2> QED
    BY <2>1, Zenon DEF Adds
<1> QED
  BY <1>2, <1>3, <1>4, <1>5

(* Some of the tasks carry no more than all of them. *)
LEMMA LoadOfPart ==
    ASSUME NEW fr \in [Pushers -> AFrame], NEW T \in SUBSET Pushers, NEW S \in SUBSET T
    PROVE  Load(S, fr) \in Nat /\ Load(T, fr) \in Nat /\ Load(S, fr) <= Load(T, fr)
<1> DEFINE w == [q \in T |-> fr[q].len]
           v == [q \in S |-> fr[q].len]
<1>1. IsFiniteSet(T)
  BY OutboxAssumption, FS_Subset
<1>2. \A q \in T : fr[q].len \in Nat
  BY FrameLen
<1>3. w \in [T -> Nat] /\ v \in [S -> Nat] /\ \A y \in S : w[y] = v[y]
  BY <1>2
<1>4. Load(T, fr) = SumFunction(w) /\ Load(S, fr) = SumFunction(v)
  BY Zenon DEF Load
<1> HIDE DEF w, v
<1> QED
  BY <1>1, <1>3, <1>4, SumOfPart

(* No tasks, no bytes. *)
LEMMA LoadOfNone == ASSUME NEW fr PROVE Load({}, fr) = 0
<1>1. DOMAIN [p \in {} |-> fr[p].len] = {}
  OBVIOUS
<1> QED
  BY <1>1, SumOfNone, Zenon DEF Load

(* The load depends on those tasks' frames alone. *)
LEMMA LoadSame ==
    ASSUME NEW S, NEW fr, NEW gr, \A p \in S : fr[p] = gr[p]
    PROVE  Load(S, fr) = Load(S, gr)
<1>1. [p \in S |-> fr[p].len] = [p \in S |-> gr[p].len]
  OBVIOUS
<1> QED
  BY <1>1, Zenon DEF Load

-----------------------------------------------------------------------------
(* The outbox. *)

InHand == IF writer \in {"check", "write", "wrote", "failed"} THEN taken.len ELSE 0

\* The tasks whose frame is in queued and not, or no longer, in the channel.
Counted == {p \in Pushers : pc[p] \in {"undo", "send", "unsend"}}

\* The tasks about to send a frame that was let in.
Sends == {p \in Pushers : pc[p] = "send"}

OutboxTypes ==
    /\ queued \in Int /\ chan \in Seq(Frames)
    /\ pc \in [Pushers -> {"idle", "add", "undo", "overflow", "act", "send", "unsend"}]
    /\ frame \in [Pushers -> AFrame] /\ pushes \in [Pushers -> Nat]
    /\ writer \in {"recv", "check", "write", "wrote", "failed", "close", "exited"}
    /\ taken \in AFrame
    /\ \A p \in Pushers : pc[p] # "idle" => frame[p] \in Frames
    /\ writer \in {"check", "write", "wrote", "failed"} => taken \in Frames

\* The byte counter, by what it counts.
Ledger == writer # "exited" => queued = Size(chan) + InHand + Load(Counted, frame)

(* What waits and what is let in stay within the limit, but for one frame   *)
(* that was let into an empty queue whatever its size.                       *)
Within ==
    ~Stopped =>
        \/ Size(Waiting) + Load(Sends, frame) <= Limit
        \/ Waiting = <<>> /\ \E p \in Pushers : Sends = {p}
        \/ Len(Waiting) = 1 /\ Sends = {}

OutboxKeeps == OutboxTypes /\ Ledger /\ Within

(* Accounted says the same with the queue's own measure. *)
LEMMA LedgerAccounts == Ledger <=> Accounted
<1>1. FQ!Bytes(chan) = Size(chan)
  BY BytesAreSize, Zenon
<1>2. Load(Counted, frame) = SumFunction([p \in {p \in Pushers : pc[p] \in {"undo", "send", "unsend"}} |-> frame[p].len])
  BY Zenon DEF Load, Counted
<1> QED
  BY <1>1, <1>2, Zenon DEF Ledger, Accounted, InHand

(* What waits is a list of frames, and what it weighs. *)
LEMMA WaitingFrames ==
    ASSUME OutboxTypes
    PROVE  /\ Waiting \in Seq(Frames) /\ Size(Waiting) \in Nat /\ Size(chan) \in Nat /\ InHand \in Nat
           /\ ~Stopped => Size(Waiting) <= Size(chan) + InHand
<1>1. chan \in Seq(Frames) /\ taken \in AFrame
  BY DEF OutboxTypes
<1>2. taken.len \in Nat /\ Size(chan) \in Nat
  BY <1>1, FrameLen, SizeOfAppend, SizeOfTail, SizeOfNone
<1>3. <<>> \in Seq(Frames) /\ Size(<<>>) = 0 /\ <<>> \o chan = chan
  BY <1>1, SizeOfNone
<1>4. CASE ~Stopped /\ writer \in {"check", "write"}
  <2>1. taken \in Frames
    BY <1>4 DEF OutboxTypes
  <2>2. Waiting = <<taken>> \o chan /\ InHand = taken.len
    BY <1>4 DEF Waiting, InHand
  <2>3. <<taken>> \o chan \in Seq(Frames) /\ Size(<<taken>> \o chan) = taken.len + Size(chan)
    BY <1>1, <2>1, SizeOfCons
  <2> QED
    BY <1>2, <2>2, <2>3
<1>5. CASE ~Stopped /\ writer \notin {"check", "write"}
  <2>1. Waiting = chan /\ InHand \in Nat
    BY <1>2, <1>3, <1>5 DEF Waiting, InHand
  <2> QED
    BY <1>1, <1>2, <2>1
<1>6. CASE Stopped
  <2>1. Waiting = <<>> /\ InHand \in Nat
    BY <1>2, <1>6 DEF Waiting, InHand
  <2> QED
    BY <1>2, <1>3, <1>6, <2>1
<1> QED
  BY <1>4, <1>5, <1>6

(* A task moves on: who is counted, and who sends. *)
LEMMA TaskMoves ==
    ASSUME OutboxTypes, NEW p \in Pushers, NEW x, pc' = [pc EXCEPT ![p] = x]
    PROVE  /\ Counted' = IF x \in {"undo", "send", "unsend"} THEN Counted \cup {p} ELSE Counted \ {p}
           /\ Sends' = IF x = "send" THEN Sends \cup {p} ELSE Sends \ {p}
<1>1. \A q \in Pushers : pc'[q] = IF q = p THEN x ELSE pc[q]
  BY DEF OutboxTypes
<1> QED
  BY <1>1 DEF Counted, Sends

(* The loads of those tasks. *)
LEMMA Loads ==
    ASSUME OutboxTypes
    PROVE  /\ Load(Counted, frame) \in Nat /\ Load(Sends, frame) \in Nat
           /\ Load(Sends, frame) <= Load(Counted, frame)
<1>1. frame \in [Pushers -> AFrame] /\ Counted \in SUBSET Pushers /\ Sends \in SUBSET Counted
  BY DEF OutboxTypes, Counted, Sends
<1> QED
  BY <1>1, LoadOfPart, Zenon

(* One more task in a set, or one fewer. *)
LEMMA LoadMoves ==
    ASSUME OutboxTypes, NEW S \in SUBSET Pushers, NEW p \in Pushers
    PROVE  /\ Load(S, frame) \in Nat /\ frame[p].len \in Nat
           /\ p \notin S => Load(S \cup {p}, frame) = frame[p].len + Load(S, frame)
           /\ p \in S => Load(S, frame) = frame[p].len + Load(S \ {p}, frame) /\ Load(S \ {p}, frame) \in Nat
<1>1. frame \in [Pushers -> AFrame]
  BY DEF OutboxTypes
<1>2. Load(S, frame) \in Nat
  <2>1. S \in SUBSET S
    OBVIOUS
  <2> QED
    BY <1>1, <2>1, LoadOfPart, Zenon
<1>3. frame[p].len \in Nat
  <2>1. frame[p] \in AFrame
    BY <1>1
  <2> QED
    BY <2>1, FrameLen
<1>4. ASSUME p \notin S PROVE Load(S \cup {p}, frame) = frame[p].len + Load(S, frame)
  <2>1. S \cup {p} \in SUBSET Pushers /\ p \in S \cup {p} /\ (S \cup {p}) \ {p} = S
    BY <1>4
  <2> QED
    BY <1>1, <2>1, LoadOfMore
<1>5. ASSUME p \in S PROVE Load(S, frame) = frame[p].len + Load(S \ {p}, frame) /\ Load(S \ {p}, frame) \in Nat
  BY <1>1, <1>5, LoadOfMore, Zenon
<1> QED
  BY <1>2, <1>3, <1>4, <1>5

(* An empty counter means that nothing waits and nobody is counted. *)
LEMMA EmptyLedger ==
    ASSUME OutboxTypes, Ledger, ~Stopped, queued <= 0
    PROVE  Waiting = <<>> /\ Counted = {} /\ Sends = {} /\ queued = 0
<1>1. queued = Size(chan) + InHand + Load(Counted, frame)
  BY DEF Ledger, Stopped
<1>2. Size(chan) = 0 /\ InHand = 0 /\ Load(Counted, frame) = 0 /\ queued = 0
  BY <1>1, WaitingFrames, Loads DEF OutboxTypes
<1>3. chan = <<>>
  <2>1. SUFFICES ASSUME chan # <<>> PROVE FALSE
    OBVIOUS
  <2>2. Size(chan) = Head(chan).len + Size(Tail(chan)) /\ Head(chan) \in Frames /\ Size(Tail(chan)) \in Nat
    BY <2>1, SizeOfTail DEF OutboxTypes
  <2>3. Head(chan).len \in Nat /\ Head(chan).len > 0
    BY <2>2, FrameLen DEF AFrame
  <2> QED
    BY <1>2, <2>2, <2>3
<1>4. writer \notin {"check", "write"}
  <2>1. SUFFICES ASSUME writer \in {"check", "write"} PROVE FALSE
    OBVIOUS
  <2>2. taken \in Frames /\ InHand = taken.len
    BY <2>1 DEF OutboxTypes, InHand
  <2>3. taken.len > 0
    BY <2>2, FrameLen DEF AFrame
  <2> QED
    BY <1>2, <2>2, <2>3
<1>5. Counted = {}
  <2>1. SUFFICES ASSUME NEW p \in Counted PROVE FALSE
    OBVIOUS
  <2>2. p \in Pushers /\ frame[p] \in Frames /\ Counted \in SUBSET Pushers
    BY <2>1 DEF OutboxTypes, Counted
  <2>3. frame[p].len > 0 /\ frame[p].len \in Nat
    BY <2>2, FrameLen DEF AFrame
  <2>4. Load(Counted, frame) = frame[p].len + Load(Counted \ {p}, frame) /\ Load(Counted \ {p}, frame) \in Nat
    BY <2>1, <2>2, LoadMoves, Zenon
  <2> QED
    BY <1>2, <2>3, <2>4
<1>6. Sends \subseteq Counted
  BY DEF Sends, Counted
<1>7. Waiting = <<>>
  BY <1>3, <1>4 DEF Waiting
<1> QED
  BY <1>2, <1>5, <1>6, <1>7

(* The start. *)
LEMMA OutboxStarts ==
    ASSUME OutboxInit
    PROVE  OutboxKeeps
<1>1. OutboxTypes
  <2>1. NoFrame \in AFrame /\ <<>> \in Seq(Frames)
    BY DEF AFrame
  <2>2. frame \in [Pushers -> AFrame] /\ taken \in AFrame
    BY <2>1, Zenon DEF OutboxInit
  <2>3. pc \in [Pushers -> {"idle", "add", "undo", "overflow", "act", "send", "unsend"}]
        /\ \A p \in Pushers : pc[p] = "idle"
    BY DEF OutboxInit
  <2>4. pushes \in [Pushers -> Nat]
    BY DEF OutboxInit
  <2>5. queued = 0 /\ chan = <<>> /\ writer = "recv"
    BY DEF OutboxInit
  <2> QED
    BY <2>1, <2>2, <2>3, <2>4, <2>5 DEF OutboxTypes
<1>2. Counted = {} /\ Sends = {} /\ Waiting = <<>> /\ InHand = 0 /\ chan = <<>> /\ queued = 0
  BY DEF OutboxInit, Counted, Sends, Waiting, InHand, Stopped
<1>3. Size(<<>>) = 0 /\ Load({}, frame) = 0
  BY SizeOfNone, LoadOfNone
<1>4. Ledger
  BY <1>2, <1>3 DEF Ledger
<1>5. Within
  BY <1>2, <1>3, OutboxAssumption DEF Within
<1> QED
  BY <1>1, <1>4, <1>5 DEF OutboxKeeps

(* The types, task by task. *)
LEMMA PushTypes ==
    ASSUME OutboxTypes, NEW p \in Pushers, PushStep(p) \/ \E len \in Sizes : Push(p, len)
    PROVE  OutboxTypes'
<1>1. UNCHANGED <<writer, taken>> /\ frame[p] \in AFrame /\ frame[p].len \in Nat
  <2>1. UNCHANGED <<writer, taken>>
    BY Zenon DEF PushStep, Push, PushAdd, PushUndo, Overflow, OverflowAct, PushSend, PushUnsend, writerVars
  <2>2. frame[p] \in AFrame
    BY DEF OutboxTypes
  <2> QED
    BY <2>1, <2>2, FrameLen
<1>2. queued' \in Int
  <2>1. queued' \in {queued, queued + frame[p].len, queued - frame[p].len}
    BY Zenon DEF PushStep, Push, PushAdd, PushUndo, Overflow, OverflowAct, PushSend, PushUnsend
  <2> QED
    BY <1>1, <2>1 DEF OutboxTypes
<1>3. CASE \E len \in Sizes : Push(p, len)
  <2>1. PICK len \in Sizes : Push(p, len)
    BY <1>3
  <2>2. [from |-> p, n |-> pushes[p] + 1, len |-> len] \in Frames
    BY <2>1, OutboxAssumption DEF Push, Frames, OutboxTypes
  <2>3. frame' = [frame EXCEPT ![p] = [from |-> p, n |-> pushes[p] + 1, len |-> len]] /\ chan' = chan
    BY <2>1 DEF Push
  <2>4. PICK f \in Frames : frame' = [frame EXCEPT ![p] = f]
    BY <2>2, <2>3, Zenon
  <2>5. frame' \in [Pushers -> AFrame] /\ \A q \in Pushers : frame'[q] = IF q = p THEN f ELSE frame[q]
    BY <2>4 DEF OutboxTypes, AFrame
  <2>6. /\ pc' \in [Pushers -> {"idle", "add", "undo", "overflow", "act", "send", "unsend"}]
        /\ \A q \in Pushers : q # p => pc'[q] = pc[q]
    BY <2>1 DEF Push, OutboxTypes
  <2>7. pushes' \in [Pushers -> Nat]
    BY <2>1 DEF Push, OutboxTypes
  <2>8. \A q \in Pushers : pc'[q] # "idle" => frame'[q] \in Frames
    BY <2>5, <2>6 DEF OutboxTypes
  <2> QED
    BY <1>1, <1>2, <2>3, <2>5, <2>6, <2>7, <2>8 DEF OutboxTypes
<1>4. CASE PushStep(p)
  <2>1. pc[p] # "idle" /\ frame' = frame /\ pushes' = pushes /\ (chan' = chan \/ chan' = Append(chan, frame[p]))
    BY <1>4, Zenon DEF PushStep, PushAdd, PushUndo, Overflow, OverflowAct, PushSend, PushUnsend
  <2>2. frame[p] \in Frames
    BY <2>1 DEF OutboxTypes
  <2>3. chan' \in Seq(Frames)
    BY <2>1, <2>2 DEF OutboxTypes
  <2>4. PICK x \in {"idle", "add", "undo", "overflow", "act", "send", "unsend"} : pc' = [pc EXCEPT ![p] = x]
    BY <1>4 DEF PushStep, PushAdd, PushUndo, Overflow, OverflowAct, PushSend, PushUnsend
  <2>5. /\ pc' \in [Pushers -> {"idle", "add", "undo", "overflow", "act", "send", "unsend"}]
        /\ \A q \in Pushers : q # p => pc'[q] = pc[q]
    BY <2>4 DEF OutboxTypes
  <2>6. \A q \in Pushers : pc'[q] # "idle" => frame'[q] \in Frames
    BY <2>1, <2>2, <2>5 DEF OutboxTypes
  <2> QED
    BY <1>1, <1>2, <2>1, <2>3, <2>5, <2>6 DEF OutboxTypes
<1> QED
  BY <1>3, <1>4

(* The types, as the writer drains. *)
LEMMA DrainTypes ==
    ASSUME OutboxTypes, DrainStep \/ WriteOk \/ CloseConnection \/ PeerGone
    PROVE  OutboxTypes'
<1>1. UNCHANGED <<pc, frame, pushes>>
  BY Zenon DEF DrainStep, Receive, Check, WriteOk, WriteFails, Written, CloseOnFailure, CloseConnection, PeerGone, pushVars
<1>2. CASE Receive
  <2>1. Head(chan) \in Frames /\ Tail(chan) \in Seq(Frames)
    BY <1>2, SizeOfTail DEF Receive, OutboxTypes
  <2> QED
    BY <1>1, <1>2, <2>1 DEF Receive, OutboxTypes, AFrame
<1>3. CASE Check \/ WriteOk \/ WriteFails \/ CloseOnFailure \/ CloseConnection \/ PeerGone
  <2>1. queued' = queued /\ taken' = taken /\ (chan' = chan \/ chan' = <<>>)
    BY <1>3, Zenon DEF Check, WriteOk, WriteFails, CloseOnFailure, CloseConnection, PeerGone
  <2>2. writer' \in {writer, "write", "wrote", "failed", "exited"}
        /\ (writer' \in {"write", "wrote", "failed"} => writer \in {"check", "write", "wrote", "failed"})
    BY <1>3 DEF Check, WriteOk, WriteFails, CloseOnFailure, CloseConnection, PeerGone
  <2>3. chan' \in Seq(Frames)
    <3>1. chan \in Seq(Frames) /\ <<>> \in Seq(Frames)
      BY DEF OutboxTypes
    <3> QED
      BY <2>1, <3>1, Zenon
  <2>4. writer' \in {"recv", "check", "write", "wrote", "failed", "close", "exited"}
        /\ (writer' \in {"check", "write", "wrote", "failed"} => taken' \in Frames)
    BY <2>1, <2>2 DEF OutboxTypes
  <2> QED
    BY <1>1, <2>1, <2>3, <2>4 DEF OutboxTypes
<1>4. CASE Written
  <2>1. taken.len \in Nat
    BY FrameLen DEF OutboxTypes
  <2> QED
    BY <1>1, <1>4, <2>1 DEF Written, OutboxTypes
<1> QED
  BY <1>2, <1>3, <1>4 DEF DrainStep

(* A task's step keeps the counter exact. *)
LEMMA PushLedger ==
    ASSUME OutboxTypes, Ledger, NEW p \in Pushers, PushStep(p) \/ \E len \in Sizes : Push(p, len)
    PROVE  Ledger'
<1>1. SUFFICES ASSUME writer # "exited"
               PROVE  queued' = Size(chan)' + InHand' + Load(Counted, frame)'
  <2>1. writer' = writer
    BY Zenon DEF PushStep, Push, PushAdd, PushUndo, Overflow, OverflowAct, PushSend, PushUnsend, writerVars
  <2> QED
    BY <2>1, Zenon DEF Ledger
<1>2. InHand' = InHand
  <2>1. UNCHANGED <<writer, taken>>
    BY Zenon DEF PushStep, Push, PushAdd, PushUndo, Overflow, OverflowAct, PushSend, PushUnsend, writerVars
  <2> QED
    BY <2>1 DEF InHand
<1>3. /\ queued = Size(chan) + InHand + Load(Counted, frame) /\ queued \in Int
      /\ Size(chan) \in Nat /\ InHand \in Nat /\ Load(Counted, frame) \in Nat /\ frame[p].len \in Nat
      /\ Counted \in SUBSET Pushers /\ (p \in Counted <=> pc[p] \in {"undo", "send", "unsend"})
      /\ chan \in Seq(Frames)
  <2>1. Counted \in SUBSET Pushers /\ (p \in Counted <=> pc[p] \in {"undo", "send", "unsend"})
    BY DEF Counted
  <2>2. frame[p].len \in Nat /\ Load(Counted, frame) \in Nat
    BY <2>1, LoadMoves, Zenon
  <2>3. Size(chan) \in Nat /\ InHand \in Nat
    BY WaitingFrames, Zenon
  <2>4. queued = Size(chan) + InHand + Load(Counted, frame)
    BY <1>1, Zenon DEF Ledger
  <2> QED
    BY <2>1, <2>2, <2>3, <2>4 DEF OutboxTypes
<1>4. ASSUME NEW len \in Sizes, Push(p, len)
      PROVE  queued' = Size(chan)' + InHand' + Load(Counted, frame)'
  <2>1. pc[p] = "idle" /\ queued' = queued /\ chan' = chan
        /\ pc' = [pc EXCEPT ![p] = IF closed THEN "idle" ELSE "add"]
    BY <1>4, Zenon DEF Push
  <2>x. PICK x : x = IF closed THEN "idle" ELSE "add"
    OBVIOUS
  <2>y. Counted' = IF x \in {"undo", "send", "unsend"} THEN Counted \cup {p} ELSE Counted \ {p}
    BY <2>1, <2>x, TaskMoves, Zenon
  <2>2. Counted' = Counted
    BY <1>3, <2>1, <2>x, <2>y
  <2>3. \A q \in Counted : frame'[q] = frame[q]
    BY <1>3, <1>4, <2>1 DEF Push, OutboxTypes
  <2>4. Load(Counted, frame') = Load(Counted, frame)
    BY <2>3, LoadSame, Zenon
  <2> QED
    BY <1>2, <1>3, <2>1, <2>2, <2>4, Zenon
<1>5. CASE PushAdd(p)
  <2>1. pc[p] = "add" /\ queued' = queued + frame[p].len /\ chan' = chan /\ frame' = frame
        /\ pc' = [pc EXCEPT ![p] = IF queued > 0 /\ queued + frame[p].len > Limit THEN "undo" ELSE "send"]
    BY <1>5, Zenon DEF PushAdd
  <2>x. PICK x : x = IF queued > 0 /\ queued + frame[p].len > Limit THEN "undo" ELSE "send"
    OBVIOUS
  <2>y. Counted' = IF x \in {"undo", "send", "unsend"} THEN Counted \cup {p} ELSE Counted \ {p}
    BY <2>1, <2>x, TaskMoves, Zenon
  <2>2. Counted' = Counted \cup {p} /\ p \notin Counted
    BY <1>3, <2>1, <2>x, <2>y
  <2>3. Load(Counted \cup {p}, frame) = frame[p].len + Load(Counted, frame)
    BY <1>3, <2>2, LoadMoves, Zenon
  <2>4. Load(Counted, frame)' = frame[p].len + Load(Counted, frame) /\ Size(chan)' = Size(chan)
    BY <2>1, <2>2, <2>3, Zenon
  <2> QED
    BY <1>2, <1>3, <2>1, <2>4
<1>6. CASE PushUndo(p) \/ PushUnsend(p)
  <2>1. pc[p] \in {"undo", "unsend"} /\ queued' = queued - frame[p].len /\ chan' = chan /\ frame' = frame
    BY <1>6, Zenon DEF PushUndo, PushUnsend
  <2>x. PICK x \in {"overflow", "idle"} : pc' = [pc EXCEPT ![p] = x]
    BY <1>6, Zenon DEF PushUndo, PushUnsend
  <2>y. Counted' = IF x \in {"undo", "send", "unsend"} THEN Counted \cup {p} ELSE Counted \ {p}
    BY <2>x, TaskMoves, Zenon
  <2>2. Counted' = Counted \ {p} /\ p \in Counted
    BY <1>3, <2>1, <2>x, <2>y
  <2>3. Load(Counted, frame) = frame[p].len + Load(Counted \ {p}, frame) /\ Load(Counted \ {p}, frame) \in Nat
    BY <1>3, <2>2, LoadMoves, Zenon
  <2>4. Load(Counted, frame)' = Load(Counted \ {p}, frame) /\ Size(chan)' = Size(chan)
    BY <2>1, <2>2, Zenon
  <2> QED
    BY <1>2, <1>3, <2>1, <2>3, <2>4
<1>7. CASE Overflow(p) \/ OverflowAct(p)
  <2>1. pc[p] \in {"overflow", "act"} /\ queued' = queued /\ chan' = chan /\ frame' = frame
    BY <1>7, Zenon DEF Overflow, OverflowAct
  <2>x. PICK x : x \in {"act", "idle"} /\ pc' = [pc EXCEPT ![p] = x]
    BY <1>7, Zenon DEF Overflow, OverflowAct
  <2>y. Counted' = IF x \in {"undo", "send", "unsend"} THEN Counted \cup {p} ELSE Counted \ {p}
    BY <2>x, TaskMoves, Zenon
  <2>2. Counted' = Counted
    BY <1>3, <2>1, <2>x, <2>y
  <2> QED
    BY <1>2, <1>3, <2>1, <2>2, Zenon
<1>8. CASE PushSend(p)
  <2>1. pc[p] = "send" /\ queued' = queued /\ chan' = Append(chan, frame[p]) /\ frame' = frame
        /\ pc' = [pc EXCEPT ![p] = "idle"]
    BY <1>1, <1>8, Zenon DEF PushSend
  <2>y. Counted' = IF "idle" \in {"undo", "send", "unsend"} THEN Counted \cup {p} ELSE Counted \ {p}
    BY <2>1, TaskMoves, Zenon
  <2>2. Counted' = Counted \ {p} /\ p \in Counted
    BY <1>3, <2>1, <2>y
  <2>3. Load(Counted, frame) = frame[p].len + Load(Counted \ {p}, frame) /\ Load(Counted \ {p}, frame) \in Nat
    BY <1>3, <2>2, LoadMoves, Zenon
  <2>4. Load(Counted, frame)' = Load(Counted \ {p}, frame)
    BY <2>1, <2>2, Zenon
  <2>5. frame[p] \in Frames
    BY <2>1 DEF OutboxTypes
  <2>6. Size(Append(chan, frame[p])) = Size(chan) + frame[p].len
    BY <1>3, <2>5, SizeOfAppend, Zenon
  <2>7. Size(chan)' = Size(chan) + frame[p].len
    BY <2>1, <2>6, Zenon
  <2> QED
    BY <1>2, <1>3, <2>1, <2>3, <2>4, <2>7
<1> QED
  BY <1>4, <1>5, <1>6, <1>7, <1>8, Zenon DEF PushStep

(* So does the writer's. *)
LEMMA DrainLedger ==
    ASSUME OutboxTypes, Ledger, DrainStep \/ WriteOk \/ CloseConnection \/ PeerGone
    PROVE  Ledger'
<1>1. Load(Counted, frame)' = Load(Counted, frame)
  <2>1. UNCHANGED <<pc, frame>>
    BY Zenon DEF DrainStep, Receive, Check, WriteOk, WriteFails, Written, CloseOnFailure, CloseConnection, PeerGone, pushVars
  <2> QED
    BY <2>1, Zenon DEF Counted
<1>2. /\ chan \in Seq(Frames) /\ queued \in Int /\ Size(chan) \in Nat /\ Load(Counted, frame) \in Nat
      /\ InHand \in Nat /\ taken.len \in Nat
  <2>1. taken.len \in Nat
    BY FrameLen DEF OutboxTypes
  <2> QED
    BY <2>1, WaitingFrames, Loads DEF OutboxTypes
<1>3. SUFFICES ASSUME writer' # "exited", writer # "exited"
               PROVE  queued' = Size(chan)' + InHand' + Load(Counted, frame)'
  <2>1. writer = "exited" => writer' = "exited"
    BY DEF DrainStep, Receive, Check, WriteOk, WriteFails, Written, CloseOnFailure, CloseConnection, PeerGone
  <2> QED
    BY <2>1, Zenon DEF Ledger
<1>4. queued = Size(chan) + InHand + Load(Counted, frame)
  BY <1>3, Zenon DEF Ledger
<1>5. CASE Receive
  <2>1. Size(chan) = Head(chan).len + Size(Tail(chan)) /\ Size(Tail(chan)) \in Nat
    BY <1>2, <1>5, SizeOfTail DEF Receive
  <2>2. InHand = 0 /\ InHand' = Head(chan).len /\ Size(chan)' = Size(Tail(chan)) /\ queued' = queued
    BY <1>5 DEF Receive, InHand
  <2>3. Head(chan).len \in Nat
    BY <1>2, <1>5, SizeOfTail, FrameLen DEF Receive, AFrame
  <2> QED
    BY <1>1, <1>2, <1>4, <2>1, <2>2, <2>3
<1>6. CASE Check \/ WriteOk \/ WriteFails \/ CloseConnection \/ PeerGone
  <2>1. queued' = queued /\ chan' = chan /\ InHand' = InHand
    BY <1>3, <1>6 DEF Check, WriteOk, WriteFails, CloseConnection, PeerGone, InHand
  <2> QED
    BY <1>1, <1>4, <2>1, Zenon
<1>7. CASE Written
  <2>1. queued' = queued - taken.len /\ chan' = chan /\ InHand = taken.len /\ InHand' = 0
    BY <1>7 DEF Written, InHand
  <2>2. Size(chan)' = Size(chan)
    BY <2>1, Zenon
  <2> QED
    BY <1>1, <1>2, <1>4, <2>1, <2>2
<1> QED
  BY <1>3, <1>5, <1>6, <1>7 DEF DrainStep, CloseOnFailure

(* A frame let in by the fetch_add found the queue empty or had room, and   *)
(* keeps its room until it is sent.                                         *)
LEMMA PushWithin ==
    ASSUME OutboxTypes, Ledger, Within, OutboxTypes', NEW p \in Pushers,
           PushStep(p) \/ \E len \in Sizes : Push(p, len)
    PROVE  Within'
<1>0. UNCHANGED <<writer, taken>>
  BY Zenon DEF PushStep, Push, PushAdd, PushUndo, Overflow, OverflowAct, PushSend, PushUnsend, writerVars
<1>1. Stopped' = Stopped
  BY <1>0, Zenon DEF Stopped
<1>2. SUFFICES ASSUME ~Stopped
               PROVE  \/ Size(Waiting)' + Load(Sends, frame)' <= Limit
                      \/ Waiting' = <<>> /\ \E q \in Pushers : Sends' = {q}
                      \/ Len(Waiting)' = 1 /\ Sends' = {}
  BY <1>1, Zenon DEF Within
<1>3. \/ Size(Waiting) + Load(Sends, frame) <= Limit
      \/ Waiting = <<>> /\ \E q \in Pushers : Sends = {q}
      \/ Len(Waiting) = 1 /\ Sends = {}
  BY <1>2, Zenon DEF Within
<1>4. /\ Sends \in SUBSET Pushers /\ (p \in Sends <=> pc[p] = "send")
      /\ Waiting \in Seq(Frames) /\ chan \in Seq(Frames) /\ queued \in Int
  BY WaitingFrames DEF Sends, OutboxTypes
<1>5. /\ Load(Sends, frame) \in Nat /\ frame[p].len \in Nat /\ Size(Waiting) \in Nat
      /\ Size(chan) \in Nat /\ InHand \in Nat /\ Load(Counted, frame) \in Nat
      /\ Load(Sends, frame) <= Load(Counted, frame) /\ Size(Waiting) <= Size(chan) + InHand
      /\ queued = Size(chan) + InHand + Load(Counted, frame)
  <2>1. Load(Sends, frame) \in Nat /\ frame[p].len \in Nat
    BY <1>4, LoadMoves, Zenon
  <2>2. queued = Size(chan) + InHand + Load(Counted, frame)
    BY <1>2, Zenon DEF Ledger, Stopped
  <2> QED
    BY <1>2, <2>1, <2>2, WaitingFrames, Loads, Zenon
<1>6. ASSUME chan' = chan, Sends' = Sends, \A q \in Sends : frame'[q] = frame[q]
      PROVE  \/ Size(Waiting)' + Load(Sends, frame)' <= Limit
             \/ Waiting' = <<>> /\ \E q \in Pushers : Sends' = {q}
             \/ Len(Waiting)' = 1 /\ Sends' = {}
  <2>1. Waiting' = Waiting
    BY <1>0, <1>6, Zenon DEF Waiting, Stopped
  <2>2. Load(Sends, frame') = Load(Sends, frame)
    BY <1>6, LoadSame, Zenon
  <2> QED
    BY <1>3, <1>6, <2>1, <2>2, Zenon
<1>7. ASSUME NEW len \in Sizes, Push(p, len)
      PROVE  chan' = chan /\ Sends' = Sends /\ \A q \in Sends : frame'[q] = frame[q]
  <2>1. pc[p] = "idle" /\ chan' = chan
        /\ pc' = [pc EXCEPT ![p] = IF closed THEN "idle" ELSE "add"]
    BY <1>7, Zenon DEF Push
  <2>2. PICK x : x = IF closed THEN "idle" ELSE "add"
    OBVIOUS
  <2>3. Sends' = IF x = "send" THEN Sends \cup {p} ELSE Sends \ {p}
    BY <2>1, <2>2, TaskMoves, Zenon
  <2>4. Sends' = Sends
    BY <1>4, <2>1, <2>2, <2>3
  <2>5. \A q \in Sends : frame'[q] = frame[q]
    BY <1>4, <1>7, <2>1 DEF Push, OutboxTypes
  <2> QED
    BY <2>1, <2>4, <2>5
<1>8. CASE PushUndo(p) \/ PushUnsend(p) \/ Overflow(p) \/ OverflowAct(p)
  <2>1. pc[p] # "send" /\ chan' = chan /\ frame' = frame
    BY <1>8 DEF PushUndo, PushUnsend, Overflow, OverflowAct
  <2>2. PICK x : x # "send" /\ pc' = [pc EXCEPT ![p] = x]
    <3>1. \E x \in {"overflow", "idle", "act"} : pc' = [pc EXCEPT ![p] = x]
      BY <1>8, Zenon DEF PushUndo, PushUnsend, Overflow, OverflowAct
    <3>2. \A x \in {"overflow", "idle", "act"} : x # "send"
      OBVIOUS
    <3> QED
      BY <3>1, <3>2, Zenon
  <2>3. Sends' = IF x = "send" THEN Sends \cup {p} ELSE Sends \ {p}
    BY <2>2, TaskMoves, Zenon
  <2>4. Sends' = Sends
    BY <1>4, <2>1, <2>2, <2>3
  <2> QED
    BY <1>6, <2>1, <2>4, Zenon
<1>9. CASE PushAdd(p)
  <2>1. pc[p] = "add" /\ chan' = chan /\ frame' = frame
        /\ pc' = [pc EXCEPT ![p] = IF queued > 0 /\ queued + frame[p].len > Limit THEN "undo" ELSE "send"]
    BY <1>9, Zenon DEF PushAdd
  <2>2. CASE queued > 0 /\ queued + frame[p].len > Limit
    <3>1. pc' = [pc EXCEPT ![p] = "undo"]
      BY <2>1, <2>2, Zenon
    <3>2. Sends' = IF "undo" = "send" THEN Sends \cup {p} ELSE Sends \ {p}
      BY <3>1, TaskMoves, Zenon
    <3>3. Sends' = Sends
      BY <1>4, <2>1, <3>2
    <3> QED
      BY <1>6, <2>1, <3>3, Zenon
  <2>3. CASE ~(queued > 0 /\ queued + frame[p].len > Limit)
    <3>1. pc' = [pc EXCEPT ![p] = "send"]
      BY <2>1, <2>3, Zenon
    <3>2. Sends' = Sends \cup {p} /\ p \notin Sends
      <4>1. Sends' = IF "send" = "send" THEN Sends \cup {p} ELSE Sends \ {p}
        BY <3>1, TaskMoves, Zenon
      <4> QED
        BY <1>4, <2>1, <4>1
    <3>3. Waiting' = Waiting
      BY <1>0, <2>1, Zenon DEF Waiting, Stopped
    <3>4. CASE queued <= 0
      <4>1. Waiting = <<>> /\ Sends = {}
        BY <1>2, <3>4, EmptyLedger, Zenon
      <4> QED
        BY <3>2, <3>3, <4>1
    <3>5. CASE queued + frame[p].len <= Limit
      <4>1. Load(Sends \cup {p}, frame) = frame[p].len + Load(Sends, frame)
        BY <1>4, <3>2, LoadMoves, Zenon
      <4>2. Load(Sends, frame)' = frame[p].len + Load(Sends, frame) /\ Size(Waiting)' = Size(Waiting)
        BY <2>1, <3>2, <3>3, <4>1, Zenon
      <4>3. Size(Waiting)' + Load(Sends, frame)' <= Limit
        BY <1>5, <3>5, <4>2, OutboxAssumption
      <4> QED
        BY <4>3
    <3> QED
      BY <1>4, <1>5, <2>3, <3>4, <3>5, OutboxAssumption
  <2> QED
    BY <2>2, <2>3
<1>10. CASE PushSend(p)
  <2>1. pc[p] = "send" /\ chan' = Append(chan, frame[p]) /\ frame' = frame /\ pc' = [pc EXCEPT ![p] = "idle"]
    BY <1>2, <1>10, Zenon DEF PushSend, Stopped
  <2>2. Sends' = Sends \ {p} /\ p \in Sends
    <3>1. Sends' = IF "idle" = "send" THEN Sends \cup {p} ELSE Sends \ {p}
      BY <2>1, TaskMoves, Zenon
    <3> QED
      BY <1>4, <2>1, <3>1
  <2>3. frame[p] \in Frames
    BY <2>1 DEF OutboxTypes
  <2>4. Waiting' = Append(Waiting, frame[p])
    <3>1. CASE writer \in {"check", "write"}
      <4>1. Waiting = <<taken>> \o chan /\ Waiting' = <<taken>> \o Append(chan, frame[p])
        BY <1>0, <1>1, <1>2, <2>1, <3>1 DEF Waiting
      <4>2. taken \in Frames
        BY <3>1 DEF OutboxTypes
      <4>3. <<taken>> \o Append(chan, frame[p]) = Append(<<taken>> \o chan, frame[p])
        BY <1>4, <2>3, <4>2
      <4> QED
        BY <4>1, <4>3
    <3>2. CASE writer \notin {"check", "write"}
      <4>1. Waiting = <<>> \o chan /\ Waiting' = <<>> \o Append(chan, frame[p])
        BY <1>0, <1>1, <1>2, <2>1, <3>2 DEF Waiting
      <4>2. <<>> \o chan = chan /\ <<>> \o Append(chan, frame[p]) = Append(chan, frame[p])
        BY <1>4, <2>3
      <4> QED
        BY <4>1, <4>2
    <3> QED
      BY <3>1, <3>2
  <2>5. Load(Sends, frame) = frame[p].len + Load(Sends \ {p}, frame) /\ Load(Sends \ {p}, frame) \in Nat
    BY <1>4, <2>2, LoadMoves, Zenon
  <2>6. CASE Size(Waiting) + Load(Sends, frame) <= Limit
    <3>1. Size(Append(Waiting, frame[p])) = Size(Waiting) + frame[p].len
      BY <1>4, <2>3, SizeOfAppend, Zenon
    <3>2. Size(Waiting)' = Size(Waiting) + frame[p].len /\ Load(Sends, frame)' = Load(Sends \ {p}, frame)
      BY <2>1, <2>2, <2>4, <3>1, Zenon
    <3> QED
      BY <1>5, <2>5, <2>6, <3>2
  <2>7. CASE Waiting = <<>> /\ \E q \in Pushers : Sends = {q}
    <3>1. Sends' = {}
      BY <2>2, <2>7
    <3>2. Len(Waiting)' = 1
      BY <2>4, <2>7
    <3> QED
      BY <3>1, <3>2
  <2> QED
    BY <1>3, <2>2, <2>6, <2>7
<1> QED
  BY <1>6, <1>7, <1>8, <1>9, <1>10, Zenon DEF PushStep

(* What the writer does to what waits: it stops, takes the first frame off, *)
(* or leaves it alone.                                                      *)
LEMMA DrainMoves ==
    ASSUME OutboxTypes, DrainStep \/ WriteOk \/ CloseConnection \/ PeerGone
    PROVE  \/ Stopped /\ Stopped' /\ Waiting' = Waiting /\ delivered' = delivered
           \/ ~Stopped /\ Stopped' /\ Waiting' = <<>> /\ delivered' = delivered
           \/ ~Stopped /\ ~Stopped' /\ Waiting' = Waiting /\ delivered' = delivered
           \/ /\ ~Stopped /\ ~Stopped' /\ Waiting # <<>> /\ Waiting' = Tail(Waiting)
              /\ delivered' = Append(delivered, Head(Waiting))
<1>t. chan \in Seq(Frames) /\ (writer \in {"check", "write", "wrote", "failed"} => taken \in Frames)
  BY DEF OutboxTypes
<1>0. Stopped' => Waiting' = <<>>
  BY Zenon DEF Waiting
<1>1. CASE Receive
  <2>1. ~Stopped /\ ~Stopped' /\ delivered' = delivered
    BY <1>1 DEF Receive, Stopped
  <2>2. Waiting = <<>> \o chan /\ Waiting' = <<Head(chan)>> \o Tail(chan)
    BY <1>1, <2>1 DEF Receive, Waiting
  <2>3. chan # <<>>
    BY <1>1, Zenon DEF Receive
  <2>4. <<>> \o chan = chan /\ <<Head(chan)>> \o Tail(chan) = chan
    BY <1>t, <2>3
  <2> QED
    BY <2>1, <2>2, <2>4, Zenon
<1>2. CASE Check
  <2>1. delivered' = delivered /\ writer = "check" /\ ~Stopped
    BY <1>2 DEF Check, Stopped
  <2>2. CASE closed
    <3>1. Stopped'
      BY <1>2, <2>2 DEF Check, Stopped
    <3> QED
      BY <1>0, <2>1, <3>1
  <2>3. CASE ~closed
    <3>1. ~Stopped' /\ writer' = "write" /\ UNCHANGED <<chan, taken>>
      BY <1>2, <2>3 DEF Check, Stopped
    <3>2. Waiting' = Waiting
      BY <2>1, <3>1, Zenon DEF Waiting
    <3> QED
      BY <2>1, <3>1, <3>2
  <2> QED
    BY <2>2, <2>3
<1>3. CASE WriteOk
  <2>1. writer = "write" /\ writer' = "wrote" /\ UNCHANGED <<chan, taken>> /\ delivered' = Append(delivered, taken)
    BY <1>3, Zenon DEF WriteOk
  <2>2. ~Stopped /\ ~Stopped'
    BY <2>1 DEF Stopped
  <2>3. Waiting = <<taken>> \o chan /\ Waiting' = <<>> \o chan
    BY <2>1, <2>2 DEF Waiting
  <2>4. /\ <<taken>> \o chan # <<>> /\ Head(<<taken>> \o chan) = taken
        /\ Tail(<<taken>> \o chan) = chan /\ <<>> \o chan = chan
    BY <1>t, <2>1
  <2> QED
    BY <2>1, <2>2, <2>3, <2>4, Zenon
<1>4. CASE WriteFails
  <2>1. ~Stopped /\ Stopped' /\ delivered' = delivered
    BY <1>4 DEF WriteFails, Stopped
  <2> QED
    BY <1>0, <2>1
<1>5. CASE Written
  <2>1. delivered' = delivered /\ UNCHANGED <<chan, taken>>
    BY <1>5, Zenon DEF Written
  <2>2. CASE writer = "wrote"
    <3>1. writer' = "recv" /\ ~Stopped /\ ~Stopped'
      BY <1>5, <2>2 DEF Written, Stopped
    <3>2. Waiting' = Waiting
      BY <2>1, <2>2, <3>1 DEF Waiting
    <3> QED
      BY <2>1, <3>1, <3>2
  <2>3. CASE writer = "failed"
    <3>1. Stopped /\ Stopped'
      BY <1>5, <2>3 DEF Written, Stopped
    <3>2. Waiting' = Waiting
      BY <3>1 DEF Waiting
    <3> QED
      BY <2>1, <3>1, <3>2
  <2> QED
    BY <1>5, <2>2, <2>3 DEF Written
<1>6. CASE CloseOnFailure
  <2>1. Stopped /\ Stopped' /\ delivered' = delivered
    BY <1>6 DEF CloseOnFailure, Stopped
  <2>2. Waiting' = Waiting
    BY <2>1 DEF Waiting
  <2> QED
    BY <2>1, <2>2
<1>7. CASE CloseConnection \/ PeerGone
  <2>1. UNCHANGED <<writer, chan, taken, delivered>>
    BY <1>7, Zenon DEF CloseConnection, PeerGone
  <2>2. Waiting' = Waiting /\ Stopped' = Stopped
    BY <2>1, Zenon DEF Waiting, Stopped
  <2> QED
    BY <2>1, <2>2
<1> QED
  BY <1>1, <1>2, <1>3, <1>4, <1>5, <1>6, <1>7, Zenon DEF DrainStep

(* The writer only makes room. *)
LEMMA DrainWithin ==
    ASSUME OutboxTypes, Within, DrainStep \/ WriteOk \/ CloseConnection \/ PeerGone
    PROVE  Within'
<1>1. UNCHANGED <<pc, frame>>
  BY Zenon DEF DrainStep, Receive, Check, WriteOk, WriteFails, Written, CloseOnFailure, CloseConnection, PeerGone, pushVars
<1>2. Sends' = Sends /\ Load(Sends, frame)' = Load(Sends, frame)
  BY <1>1, Zenon DEF Sends
<1>3. CASE Stopped'
  BY <1>3, Zenon DEF Within
<1>4. CASE ~Stopped /\ ~Stopped' /\ Waiting' = Waiting
  BY <1>2, <1>4, Zenon DEF Within
<1>5. CASE ~Stopped /\ ~Stopped' /\ Waiting # <<>> /\ Waiting' = Tail(Waiting)
  <2>1. Waiting \in Seq(Frames) /\ Load(Sends, frame) \in Nat
    BY WaitingFrames, Loads, Zenon
  <2>2. Size(Waiting) = Head(Waiting).len + Size(Tail(Waiting)) /\ Head(Waiting).len \in Nat
        /\ Size(Tail(Waiting)) \in Nat
    <3>1. Size(Waiting) = Head(Waiting).len + Size(Tail(Waiting)) /\ Size(Tail(Waiting)) \in Nat
          /\ Head(Waiting) \in Frames
      BY <1>5, <2>1, SizeOfTail, Zenon
    <3>2. Head(Waiting) \in AFrame
      BY <3>1, Zenon DEF AFrame
    <3> QED
      BY <3>1, <3>2, FrameLen, Zenon
  <2>3. Size(Waiting)' = Size(Tail(Waiting))
    BY <1>5, Zenon
  <2>4. CASE Size(Waiting) + Load(Sends, frame) <= Limit
    <3>1. Size(Waiting)' + Load(Sends, frame)' <= Limit
      BY <1>2, <2>1, <2>2, <2>3, <2>4, OutboxAssumption
    <3> QED
      BY <3>1, Zenon DEF Within
  <2>5. CASE Len(Waiting) = 1 /\ Sends = {}
    <3>1. Tail(Waiting) = <<>>
      <4>1. PICK s \in Seq(Frames) : s = Waiting
        BY <2>1
      <4>2. Len(s) = 1 => Tail(s) = <<>>
        <5>1. Tail(s) \in Seq(Frames) /\ (Len(s) = 1 => Len(Tail(s)) = 0)
          BY <1>5, <4>1
        <5> QED
          BY <5>1, EmptySeq, Zenon
      <4> QED
        BY <2>5, <4>1, <4>2, Zenon
    <3>2. Size(Waiting)' = 0 /\ Load(Sends, frame)' = 0
      BY <1>2, <2>3, <2>5, <3>1, SizeOfNone, LoadOfNone, Zenon
    <3>3. Size(Waiting)' + Load(Sends, frame)' <= Limit
      BY <3>2, OutboxAssumption
    <3> QED
      BY <3>3, Zenon DEF Within
  <2> QED
    BY <1>5, <2>4, <2>5, Zenon DEF Within
<1> QED
  BY <1>3, <1>4, <1>5, DrainMoves, Zenon

(* Every step of the outbox keeps all three. *)
LEMMA OutboxKept ==
    ASSUME OutboxKeeps, [OutboxNext]_outboxVars
    PROVE  OutboxKeeps'
<1>1. OutboxTypes /\ Ledger /\ Within
  BY Zenon DEF OutboxKeeps
<1>2. ASSUME NEW p \in Pushers, PushStep(p) \/ \E len \in Sizes : Push(p, len)
      PROVE  OutboxKeeps'
  <2>1. OutboxTypes'
    BY <1>1, <1>2, PushTypes, Zenon
  <2> QED
    BY <1>1, <1>2, <2>1, PushLedger, PushWithin, Zenon DEF OutboxKeeps
<1>3. ASSUME DrainStep \/ WriteOk \/ CloseConnection \/ PeerGone
      PROVE  OutboxKeeps'
  BY <1>1, <1>3, DrainTypes, DrainLedger, DrainWithin, Zenon DEF OutboxKeeps
<1>4. CASE UNCHANGED outboxVars
  <2>1. UNCHANGED <<queued, chan, pc, frame, pushes, writer, taken>>
    BY <1>4, Zenon DEF outboxVars
  <2>2. OutboxTypes'
    BY <1>1, <2>1, Zenon DEF OutboxTypes
  <2>3. Ledger'
    BY <1>1, <2>1, Zenon DEF Ledger, InHand, Counted
  <2>4. Within'
    BY <1>1, <2>1, Zenon DEF Within, Stopped, Waiting, Sends
  <2> QED
    BY <2>2, <2>3, <2>4, Zenon DEF OutboxKeeps
<1> QED
  BY <1>2, <1>3, <1>4, Zenon DEF OutboxNext

(* Every step of the outbox is a step of the queue it promises, or none. *)
LEMMA OutboxSteps ==
    ASSUME OutboxKeeps, [OutboxNext]_outboxVars
    PROVE  [FQ!FqNext]_FQ!fqVars
<1>1. OutboxTypes /\ Ledger /\ Within
  BY Zenon DEF OutboxKeeps
<1>2. ASSUME Waiting' = Waiting, delivered' = delivered, Stopped' = Stopped
      PROVE  [FQ!FqNext]_FQ!fqVars
  BY <1>2, Zenon DEF FQ!fqVars
<1>3. ASSUME NEW p \in Pushers, PushStep(p) \/ \E len \in Sizes : Push(p, len)
      PROVE  [FQ!FqNext]_FQ!fqVars
  <2>0. UNCHANGED <<writer, taken, delivered>>
    BY <1>3, Zenon DEF PushStep, Push, PushAdd, PushUndo, Overflow, OverflowAct, PushSend, PushUnsend, writerVars
  <2>1. Stopped' = Stopped
    BY <2>0, Zenon DEF Stopped
  <2>2. CASE chan' = chan \/ Stopped
    <3>1. Waiting' = Waiting
      BY <2>0, <2>1, <2>2, Zenon DEF Waiting
    <3> QED
      BY <1>2, <2>0, <2>1, <3>1, Zenon
  <2>3. CASE chan' # chan /\ ~Stopped
    <3>1. PushSend(p) /\ pc[p] = "send" /\ chan' = Append(chan, frame[p])
      BY <1>3, <2>3, Zenon DEF PushStep, Push, PushAdd, PushUndo, Overflow, OverflowAct, PushSend, PushUnsend
    <3>2. frame[p] \in Frames /\ p \in Sends /\ Sends \in SUBSET Pushers /\ chan \in Seq(Frames)
      BY <1>1, <3>1 DEF OutboxTypes, Sends
    <3>3. Waiting' = Append(Waiting, frame[p])
      <4>1. CASE writer \in {"check", "write"}
        <5>1. Waiting = <<taken>> \o chan /\ Waiting' = <<taken>> \o Append(chan, frame[p])
          BY <2>0, <2>1, <2>3, <3>1, <4>1 DEF Waiting
        <5>2. taken \in Frames
          BY <1>1, <4>1 DEF OutboxTypes
        <5>3. <<taken>> \o Append(chan, frame[p]) = Append(<<taken>> \o chan, frame[p])
          BY <3>2, <5>2
        <5> QED
          BY <5>1, <5>3
      <4>2. CASE writer \notin {"check", "write"}
        <5>1. Waiting = <<>> \o chan /\ Waiting' = <<>> \o Append(chan, frame[p])
          BY <2>0, <2>1, <2>3, <3>1, <4>2 DEF Waiting
        <5>2. <<>> \o chan = chan /\ <<>> \o Append(chan, frame[p]) = Append(chan, frame[p])
          BY <3>2
        <5> QED
          BY <5>1, <5>2
      <4> QED
        BY <4>1, <4>2
    <3>4. Waiting = <<>> \/ FQ!Bytes(Waiting) + frame[p].len <= Limit
      <4>1. \/ Size(Waiting) + Load(Sends, frame) <= Limit
            \/ Waiting = <<>> \/ Sends = {}
        BY <1>1, <2>3, Zenon DEF Within
      <4>2. /\ Load(Sends, frame) = frame[p].len + Load(Sends \ {p}, frame)
            /\ Load(Sends \ {p}, frame) \in Nat /\ frame[p].len \in Nat
        BY <1>1, <3>2, LoadMoves, Zenon
      <4>3. Size(Waiting) \in Nat /\ FQ!Bytes(Waiting) = Size(Waiting)
        BY <1>1, WaitingFrames, BytesAreSize, Zenon
      <4>4. CASE Size(Waiting) + Load(Sends, frame) <= Limit
        <5>1. Size(Waiting) + frame[p].len <= Limit
          BY <4>2, <4>3, <4>4, OutboxAssumption
        <5> QED
          BY <4>3, <5>1, Zenon
      <4> QED
        BY <3>2, <4>1, <4>4, Zenon
    <3>5. FQ!FqAccept(frame[p])
      BY <2>0, <2>1, <2>3, <3>3, <3>4, Zenon DEF FQ!FqAccept
    <3> QED
      BY <3>2, <3>5, Zenon DEF FQ!FqNext
  <2> QED
    BY <2>2, <2>3
<1>4. ASSUME DrainStep \/ WriteOk \/ CloseConnection \/ PeerGone
      PROVE  [FQ!FqNext]_FQ!fqVars
  <2>0. (Stopped <=> Stopped') => Stopped' = Stopped
    BY DEF Stopped
  <2>1. CASE Stopped /\ Stopped' /\ Waiting' = Waiting /\ delivered' = delivered
    BY <1>2, <2>0, <2>1, Zenon
  <2>2. CASE ~Stopped /\ Stopped' /\ Waiting' = <<>> /\ delivered' = delivered
    <3>1. FQ!FqStop
      BY <2>2, Zenon DEF FQ!FqStop
    <3> QED
      BY <3>1, Zenon DEF FQ!FqNext
  <2>3. CASE ~Stopped /\ ~Stopped' /\ Waiting' = Waiting /\ delivered' = delivered
    BY <1>2, <2>0, <2>3, Zenon
  <2>4. CASE /\ ~Stopped /\ ~Stopped' /\ Waiting # <<>> /\ Waiting' = Tail(Waiting)
             /\ delivered' = Append(delivered, Head(Waiting))
    <3>1. FQ!FqDeliver
      BY <2>0, <2>4, Zenon DEF FQ!FqDeliver
    <3> QED
      BY <3>1, Zenon DEF FQ!FqNext
  <2> QED
    BY <1>1, <1>4, <2>1, <2>2, <2>3, <2>4, DrainMoves, Zenon
<1>5. CASE UNCHANGED outboxVars
  <2>1. UNCHANGED <<writer, chan, taken, delivered>>
    BY <1>5, Zenon DEF outboxVars
  <2>2. Waiting' = Waiting /\ Stopped' = Stopped
    BY <2>1, Zenon DEF Waiting, Stopped
  <2> QED
    BY <1>2, <2>1, <2>2, Zenon
<1> QED
  BY <1>3, <1>4, <1>5, Zenon DEF OutboxNext

(* The byte counter is exact on every run, whatever the interleaving of the *)
(* pushing tasks, the writer and the closing of the connection.             *)
THEOREM AccountedHolds == OutboxSpec => []Accounted
<1>1. OutboxKeeps => Accounted
  BY LedgerAccounts, Zenon DEF OutboxKeeps
<1>2. OutboxKeeps /\ [OutboxNext]_outboxVars => OutboxKeeps'
  BY OutboxKept, Zenon
<1> QED
  BY <1>1, <1>2, OutboxStarts, PTL DEF OutboxSpec

(* The outbox implements the bounded queue it promises: for any number of   *)
(* tasks, any sizes of frames and any limit, frames are delivered in the    *)
(* order they were accepted, and one is accepted only into an empty queue   *)
(* or within the limit.                                                     *)
THEOREM OutboxIsFrameQueue == OutboxSpec => OutboxImplements
<1>1. OutboxInit => FQ!FqInit
  BY DEF OutboxInit, FQ!FqInit, Waiting, Stopped
<1>2. OutboxKeeps /\ [OutboxNext]_outboxVars => OutboxKeeps'
  BY OutboxKept, Zenon
<1>3. OutboxKeeps /\ [OutboxNext]_outboxVars => [FQ!FqNext]_FQ!fqVars
  BY OutboxSteps, Zenon
<1> QED
  BY <1>1, <1>2, <1>3, OutboxStarts, PTL DEF OutboxSpec, OutboxImplements, FQ!FqSpec
=============================================================================
