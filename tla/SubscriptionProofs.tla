------------------------- MODULE SubscriptionProofs -------------------------
(***************************************************************************)
(* Proofs about Subscription: for any plans, requests and amounts and any  *)
(* number of transactions under way, what a subscription counts as used    *)
(* was spent, no more is spent than the total of the periods that have     *)
(* begun, and an active upgrade is kept, unless a transaction has saved    *)
(* the row over a change, or set the group without having seen it.         *)
(***************************************************************************)
EXTENDS Subscription, SumTheorems

-----------------------------------------------------------------------------
(* Numbers.                                                                *)

\* Instants of one grid.
LEMMA ModAdd ==
  ASSUME NEW p \in Nat \ {0}, NEW x \in Nat, NEW y \in Nat, x % p = 0, y % p = 0
  PROVE  (x + y) % p = 0
<1>1. x = p * (x \div p) /\ y = p * (y \div p) /\ x \div p \in Int /\ y \div p \in Int
  OBVIOUS
<1> DEFINE k == x \div p + y \div p
<1>2. k \in Int /\ x + y = p * k
  BY <1>1
<1>3. \A j \in Int : (p * j) % p = 0
  OBVIOUS
<1> HIDE DEF k
<1> QED
  BY <1>2, <1>3

\* A total per period grows with the periods.
LEMMA Products ==
  ASSUME NEW t \in Nat, NEW c \in Nat, NEW d \in Nat
  PROVE  /\ t * c \in Nat /\ t * d \in Nat
         /\ c + 1 <= d => t * c + t <= t * d
         /\ c <= d => t * c <= t * d
         /\ t * (1 + c) = t + t * c
<1>1. t * c \in Nat /\ t * d \in Nat /\ t * (1 + c) = t + t * c
  OBVIOUS
<1>2. c + 1 <= d => t * c + t <= t * d
  OBVIOUS
<1>3. c <= d => t * c <= t * d
  OBVIOUS
<1> QED
  BY <1>1, <1>2, <1>3

\* A clamp at zero.
LEMMA MaxOfTwo ==
  ASSUME NEW x \in Int
  PROVE  Max({0, x}) = IF x >= 0 THEN x ELSE 0
<1>1. CASE x >= 0
  <2>1. \A y \in {0, x} : x >= y
    BY <1>1
  <2>2. \A z \in {0, x} : (\A y \in {0, x} : z >= y) => z = x
    BY <1>1
  <2> QED
    BY <1>1, <2>1, <2>2 DEF Max
<1>2. CASE ~(x >= 0)
  <2>1. \A y \in {0, x} : 0 >= y
    BY <1>2
  <2>2. \A z \in {0, x} : (\A y \in {0, x} : z >= y) => z = 0
    BY <1>2
  <2> QED
    BY <1>2, <2>1, <2>2 DEF Max
<1> QED
  BY <1>1, <1>2

-----------------------------------------------------------------------------
(* The boundaries of the quota periods.                                    *)

\* The instants a reset visits are finitely many.
LEMMA BoundariesFinite ==
  ASSUME NEW plan \in PlanType, NEW base \in Nat, NEW end \in Nat
  PROVE  /\ Boundaries(base, plan, end) \in SUBSET Nat
         /\ \A b \in Boundaries(base, plan, end) : base < b /\ b <= end
         /\ IsFiniteSet(Boundaries(base, plan, end))
         /\ Cardinality(Boundaries(base, plan, end)) \in Nat
<1>1. \A b \in Boundaries(base, plan, end) : b \in Nat /\ base < b /\ b <= end
  BY DEF Boundaries
<1>2. Boundaries(base, plan, end) \subseteq base + 1 .. end
  BY DEF Boundaries
<1>3. IsFiniteSet(base + 1 .. end)
  BY FS_Interval
<1>4. IsFiniteSet(Boundaries(base, plan, end))
  BY <1>2, <1>3, FS_Subset
<1>5. Cardinality(Boundaries(base, plan, end)) \in Nat
  BY <1>4, FS_CardinalityType
<1> QED
  BY <1>1, <1>4, <1>5

\* The next reset is an instant.
LEMMA NextResetType ==
  ASSUME NEW plan \in PlanType, NEW base \in Nat, NEW end \in Nat
  PROVE  NextReset(base, plan, end) \in Nat
<1> DEFINE N == Boundaries(base, plan, end)
<1>1. N \in SUBSET Nat
  BY BoundariesFinite
<1>2. NextReset(base, plan, end) = IF N = {} THEN 0 ELSE Min(N)
  BY DEF NextReset
<1> HIDE DEF N
<1>3. CASE N = {}
  BY <1>2, <1>3
<1>4. CASE N # {}
  <2>1. Min(N) \in N
    BY <1>1, <1>4, MinIs
  <2> QED
    BY <1>1, <1>2, <1>4, <2>1
<1> QED
  BY <1>3, <1>4

\* A later end has no fewer boundaries.
LEMMA BoundariesGrow ==
  ASSUME NEW plan \in PlanType, NEW start \in Nat, NEW base \in Nat, NEW end \in Nat, base <= end
  PROVE  Cardinality(Boundaries(start, plan, base)) <= Cardinality(Boundaries(start, plan, end))
<1>1. Boundaries(start, plan, base) \subseteq Boundaries(start, plan, end)
  BY DEF Boundaries
<1> QED
  BY <1>1, BoundariesFinite, FS_Subset

\* base is on the grid that starts at start
OnGrid(plan, start, base) ==
  plan.period > 0 /\ ~plan.aligned => (base - start) % plan.period = 0

\* A boundary that counts from a boundary is one that counts from the start, and a new one.
LEMMA BoundaryPassed ==
  ASSUME NEW plan \in PlanType, NEW start \in Nat, NEW base \in Nat, NEW end \in Nat,
         start <= base, OnGrid(plan, start, base), NEW b \in Boundaries(base, plan, end)
  PROVE  /\ b \in Nat /\ base < b /\ b <= end /\ OnGrid(plan, start, b)
         /\ Cardinality(Boundaries(start, plan, base)) + 1 <= Cardinality(Boundaries(start, plan, b))
<1>1. b \in Nat /\ base < b /\ b <= end
  BY BoundariesFinite
<1>2. /\ plan.period \in Nat /\ plan.period > 0
      /\ plan.aligned \in BOOLEAN
      /\ (IF plan.aligned THEN b ELSE b - base) % plan.period = 0
  BY DEF Boundaries, PlanType
<1>3. ~plan.aligned => (b - start) % plan.period = 0
  <2> SUFFICES ASSUME ~plan.aligned PROVE (b - start) % plan.period = 0
    OBVIOUS
  <2> DEFINE x == b - base
  <2> DEFINE y == base - start
  <2>1. x \in Nat /\ y \in Nat /\ x + y = b - start
    BY <1>1
  <2>2. x % plan.period = 0 /\ y % plan.period = 0
    BY <1>2 DEF OnGrid
  <2> HIDE DEF x, y
  <2>3. (x + y) % plan.period = 0
    BY <1>2, <2>1, <2>2, ModAdd
  <2> QED
    BY <2>1, <2>3
<1>4. (IF plan.aligned THEN b ELSE b - start) % plan.period = 0
  BY <1>2, <1>3
<1>5. b \in Boundaries(start, plan, b)
  BY <1>1, <1>2, <1>4 DEF Boundaries
<1> DEFINE B == Boundaries(start, plan, base)
<1> DEFINE C == Boundaries(start, plan, b)
<1>6. b \notin B /\ B \subseteq C
  BY <1>1 DEF Boundaries
<1>7. IsFiniteSet(B) /\ IsFiniteSet(C) /\ Cardinality(B) \in Nat /\ Cardinality(C) \in Nat
  BY <1>1, BoundariesFinite
<1>8. b \in C
  BY <1>5
<1> HIDE DEF B, C
<1>9. Cardinality(B \cup {b}) = Cardinality(B) + 1
  BY <1>6, <1>7, FS_AddElement
<1>10. Cardinality(B \cup {b}) <= Cardinality(C)
  BY <1>6, <1>7, <1>8, FS_Subset
<1>11. Cardinality(B) + 1 <= Cardinality(C)
  BY <1>9, <1>10
<1> QED
  BY <1>1, <1>3, <1>11 DEF OnGrid, B, C

-----------------------------------------------------------------------------
(* One subscription.                                                       *)

Alive == {"active", "expired", "cancelled"}

\* the boundaries up to the beginning of the current period
Passed(s) == Cardinality(Boundaries(s.start, Plan[s.plan], Base(s)))

\* At time t the row s agrees with x, what its requests have cost: what it counts as used
\* was spent, and what it does not count fits into the periods that are over.
Fits(s, x, t) ==
  s.status \in Alive =>
    /\ s.plan \in Plans
    /\ s.used <= x
    /\ s.start <= Base(s) /\ Base(s) <= s.end /\ Base(s) <= t
    /\ OnGrid(Plan[s.plan], s.start, Base(s))
    /\ Plan[s.plan].total > 0 =>
         s.used <= Plan[s.plan].total /\ x <= s.used + Plan[s.plan].total * Passed(s)

\* The fields of a row.
LEMMA SubFields ==
  ASSUME NEW s \in SubType
  PROVE  /\ s.start \in Nat /\ s.end \in Nat /\ s.used \in Nat /\ s.last \in Nat /\ s.next \in Nat
         /\ Base(s) \in Nat
BY DEF SubType, Base

\* The fields of a plan.
LEMMA PlanFields ==
  ASSUME SubscriptionAssumption, NEW p \in Plans
  PROVE  /\ Plan[p] \in PlanType /\ Plan[p].total \in Nat /\ Plan[p].limit \in Nat
         /\ Plan[p].duration \in Nat /\ Plan[p].period \in Nat
BY DEF SubscriptionAssumption, PlanType

\* The number of periods that are over.
LEMMA PassedType ==
  ASSUME SubscriptionAssumption, NEW s \in SubType, s.plan \in Plans
  PROVE  Passed(s) \in Nat
BY SubFields, PlanFields, BoundariesFinite DEF Passed

\* A change of used, with what it leaves uncounted no larger than before.
LEMMA UsedFits ==
  ASSUME SubscriptionAssumption, NEW s \in SubType, NEW x \in Int, NEW t \in Nat, Fits(s, x, t),
         NEW u \in Nat, NEW y \in Int, u <= y, y - u <= x - s.used,
         s.plan \in Plans /\ Plan[s.plan].total > 0 => u <= Plan[s.plan].total
  PROVE  [s EXCEPT !.used = u] \in SubType /\ Fits([s EXCEPT !.used = u], y, t)
<1> DEFINE m == [s EXCEPT !.used = u]
<1>1. /\ m \in SubType /\ m.used = u /\ m.status = s.status /\ m.plan = s.plan
      /\ m.start = s.start /\ m.end = s.end /\ m.last = s.last
  BY DEF SubType
<1> HIDE DEF m
<1>2. Base(m) = Base(s)
  BY <1>1 DEF Base
<1>3. Passed(m) = Passed(s)
  BY <1>1, <1>2 DEF Passed
<1>4. ASSUME s.status \in Alive, Plan[s.plan].total > 0
      PROVE  u <= Plan[s.plan].total /\ y <= u + Plan[s.plan].total * Passed(s)
  <2>1. /\ s.plan \in Plans /\ s.used <= x /\ x <= s.used + Plan[s.plan].total * Passed(s)
    BY <1>4 DEF Fits
  <2>2. Passed(s) \in Nat /\ Plan[s.plan].total \in Nat /\ s.used \in Nat
    BY <2>1, PassedType, PlanFields, SubFields
  <2> DEFINE q == Plan[s.plan].total * Passed(s)
  <2>3. q \in Nat /\ x <= s.used + q
    BY <2>1, <2>2, Products
  <2> HIDE DEF q
  <2>4. y <= u + q
    BY <2>2, <2>3
  <2> QED
    BY <1>4, <2>1, <2>4 DEF q
<1>5. Fits(m, y, t)
  BY <1>1, <1>2, <1>3, <1>4 DEF Fits
<1> QED
  BY <1>1, <1>5 DEF m

\* Time passes, or the row ends now.
LEMMA LaterFits ==
  ASSUME NEW s \in SubType, NEW x, NEW t \in Nat, NEW v \in Nat, Fits(s, x, t), t <= v
  PROVE  Fits(s, x, v)
<1>1. Base(s) \in Nat
  BY SubFields
<1> QED
  BY <1>1 DEF Fits

\* Ending a subscription changes nothing about its quota.
LEMMA EndedFits ==
  ASSUME NEW s \in SubType, NEW x, NEW t \in Nat, NEW e \in Nat, Fits(s, x, t),
         s.status \in Alive, Base(s) <= e
  PROVE  /\ [s EXCEPT !.status = "cancelled", !.end = e] \in SubType
         /\ Fits([s EXCEPT !.status = "cancelled", !.end = e], x, t)
         /\ [s EXCEPT !.status = "expired"] \in SubType
         /\ Fits([s EXCEPT !.status = "expired"], x, t)
<1> DEFINE m == [s EXCEPT !.status = "cancelled", !.end = e]
<1> DEFINE n == [s EXCEPT !.status = "expired"]
<1>1. /\ m \in SubType /\ m.used = s.used /\ m.plan = s.plan
      /\ m.start = s.start /\ m.end = e /\ m.last = s.last
  BY DEF SubType
<1>2. /\ n \in SubType /\ n.used = s.used /\ n.plan = s.plan
      /\ n.start = s.start /\ n.end = s.end /\ n.last = s.last
  BY DEF SubType
<1> HIDE DEF m, n
<1>3. Base(m) = Base(s) /\ Base(n) = Base(s)
  BY <1>1, <1>2 DEF Base
<1>4. Passed(m) = Passed(s) /\ Passed(n) = Passed(s)
  BY <1>1, <1>2, <1>3 DEF Passed
<1>5. Fits(m, x, t)
  BY <1>1, <1>3, <1>4 DEF Fits
<1>6. Fits(n, x, t)
  BY <1>2, <1>3, <1>4 DEF Fits
<1> QED
  BY <1>1, <1>2, <1>5, <1>6 DEF m, n

\* MaybeReset: a new period begins at the last boundary passed, and one more is over.
LEMMA ResetFits ==
  ASSUME SubscriptionAssumption, NEW v \in Nat, NEW t \in Nat, t <= v, NEW s \in SubType,
         NEW x \in Int, Fits(s, x, v), s.status \in Alive
  PROVE  /\ MaybeReset(s, t) \in SubType /\ Fits(MaybeReset(s, t), x, v)
         /\ MaybeReset(s, t).status = s.status /\ MaybeReset(s, t).plan = s.plan
         /\ MaybeReset(s, t).end = s.end
<1> DEFINE plan == Plan[s.plan]
<1> DEFINE base == Base(s)
<1> DEFINE passed == {b \in Boundaries(base, plan, s.end) : b <= t}
<1>1. MaybeReset(s, t) =
        IF s.next > t \/ passed = {} THEN s
        ELSE [s EXCEPT !.used = 0, !.last = Max(passed), !.next = NextReset(Max(passed), plan, s.end)]
  BY DEF MaybeReset, Base
<1>2. s.plan \in Plans /\ plan \in PlanType /\ base \in Nat /\ s.end \in Nat /\ s.start \in Nat
  BY SubFields, PlanFields DEF Fits
<1>3. CASE s.next > t \/ passed = {}
  BY <1>1, <1>3
<1>4. CASE ~(s.next > t \/ passed = {})
  <2> DEFINE b == Max(passed)
  <2> DEFINE n == NextReset(b, plan, s.end)
  <2> DEFINE m == [s EXCEPT !.used = 0, !.last = b, !.next = n]
  <2>1. b \in passed
    <3>1. passed \in SUBSET Nat /\ \A z \in passed : z <= s.end
      BY <1>2, BoundariesFinite
    <3> HIDE DEF passed
    <3> QED
      BY <1>2, <1>4, <3>1, MaxIs
  <2> HIDE DEF b
  <2>2. b \in Boundaries(base, plan, s.end) /\ b <= t
    BY <2>1
  <2>3. s.start <= base /\ OnGrid(plan, s.start, base)
    BY DEF Fits
  <2>4. /\ b \in Nat /\ base < b /\ b <= s.end /\ OnGrid(plan, s.start, b)
        /\ Cardinality(Boundaries(s.start, plan, base)) + 1 <= Cardinality(Boundaries(s.start, plan, b))
    BY <1>2, <2>2, <2>3, BoundaryPassed
  <2>5. n \in Nat
    BY <1>2, <2>4, NextResetType
  <2> HIDE DEF n
  <2>6. /\ m \in SubType /\ m.used = 0 /\ m.status = s.status /\ m.plan = s.plan
        /\ m.start = s.start /\ m.end = s.end /\ m.last = b
    BY <2>4, <2>5 DEF SubType
  <2>7. MaybeReset(s, t) = m
    BY <1>1, <1>4 DEF b, n
  <2> HIDE DEF m
  <2>8. Base(m) = b
    BY <2>4, <2>6, <1>2 DEF Base
  <2>9. Passed(s) + 1 <= Passed(m) /\ Passed(s) \in Nat /\ Passed(m) \in Nat
    BY <2>4, <2>6, <2>8, <1>2, PassedType DEF Passed
  <2>10. s.used \in Nat /\ s.used <= x /\ plan.total \in Nat
    BY <1>2, SubFields, PlanFields DEF Fits
  <2>11. plan.total > 0 => x <= 0 + plan.total * Passed(m)
    <3> SUFFICES ASSUME plan.total > 0 PROVE x <= 0 + plan.total * Passed(m)
      OBVIOUS
    <3> DEFINE q == plan.total * Passed(s)
    <3> DEFINE z == plan.total * Passed(m)
    <3>1. s.used <= plan.total /\ x <= s.used + q
      BY DEF Fits
    <3>2. q \in Nat /\ z \in Nat /\ q + plan.total <= z
      BY <2>9, <2>10, Products
    <3> HIDE DEF q, z
    <3>3. x <= 0 + z
      BY <2>10, <3>1, <3>2
    <3> QED
      BY <3>3 DEF z
  <2>12. 0 <= x
    BY <2>10
  <2>13. 0 <= plan.total /\ s.start <= b /\ b <= v
    BY <1>2, <2>2, <2>3, <2>4, <2>10
  <2>14. Fits(m, x, v)
    BY <1>2, <2>2, <2>4, <2>6, <2>8, <2>11, <2>12, <2>13 DEF Fits
  <2> QED
    BY <2>6, <2>7, <2>14
<1> QED
  BY <1>3, <1>4

\* MaybeReset keeps what a subscription is.
LEMMA ResetType ==
  ASSUME SubscriptionAssumption, NEW t \in Nat, NEW s \in SubType, s.plan \in Plans
  PROVE  /\ MaybeReset(s, t) \in SubType
         /\ MaybeReset(s, t).status = s.status /\ MaybeReset(s, t).plan = s.plan
         /\ MaybeReset(s, t).end = s.end
<1> DEFINE plan == Plan[s.plan]
<1> DEFINE passed == {b \in Boundaries(Base(s), plan, s.end) : b <= t}
<1>1. MaybeReset(s, t) =
        IF s.next > t \/ passed = {} THEN s
        ELSE [s EXCEPT !.used = 0, !.last = Max(passed), !.next = NextReset(Max(passed), plan, s.end)]
  BY DEF MaybeReset
<1>2. plan \in PlanType /\ Base(s) \in Nat /\ s.end \in Nat
  BY SubFields, PlanFields
<1>3. passed \in SUBSET Nat /\ \A z \in passed : z <= s.end
  BY <1>2, BoundariesFinite
<1> HIDE DEF passed
<1>4. CASE s.next > t \/ passed = {}
  BY <1>1, <1>4
<1>5. CASE ~(s.next > t \/ passed = {})
  <2> DEFINE b == Max(passed)
  <2> DEFINE n == NextReset(b, plan, s.end)
  <2> DEFINE m == [s EXCEPT !.used = 0, !.last = b, !.next = n]
  <2>1. b \in Nat
    BY <1>2, <1>3, <1>5, MaxIs
  <2> HIDE DEF b
  <2>2. n \in Nat
    BY <1>2, <2>1, NextResetType
  <2>3. MaybeReset(s, t) = m
    BY <1>1, <1>5 DEF b
  <2> HIDE DEF n
  <2>4. m \in SubType /\ m.status = s.status /\ m.plan = s.plan /\ m.end = s.end
    BY <2>1, <2>2 DEF SubType
  <2> QED
    BY <2>3, <2>4
<1> QED
  BY <1>4, <1>5

-----------------------------------------------------------------------------
(* The inductive invariant.                                                *)

\* ids are given in order
Issued == \A i, j \in Ids : j < i /\ sub[i].status # "absent" => sub[j].status # "absent"

SubInv == \A i \in Ids \ raced : Fits(sub[i], spent[i], now)

Planned == \A i \in Ids : sub[i].status \in Alive => sub[i].plan \in Plans

Fresh == \A i \in Ids : sub[i].status = "absent" => spent[i] = 0

\* an open request has its record, of a subscription that was created
OpenInv == \A r \in open : /\ record[r].status = "consumed" /\ record[r].sub \in Ids
                           /\ sub[record[r].sub].status # "absent"

\* what the open requests hold of a subscription
Hold(i, r) == IF r \in open /\ record[r].sub = i THEN record[r].amount ELSE 0
holds(i) == [r \in Requests |-> Hold(i, r)]
Held(i) == SumFunction(holds(i))

\* it was spent, and can be given back
Covered == \A i \in Ids : Held(i) <= spent[i]

\* n more than s counts fits into its total
Room(s, n) == Plan[s.plan].total > 0 => s.used + n <= Plan[s.plan].total

\* what the transaction t of the client c has read still says of what it is going to write
TxOk(t, c) ==
  /\ t.at <= now
  /\ \A i \in Saved(t) : /\ t.sub[i].status \in Alive /\ t.sub[i].plan \in Plans
                         /\ sub[i].status # "absent"
  /\ t.op = "create" => t.plan \in Plans /\ t.group \in Groups
  /\ t.op \in {"invalidate", "delete"} =>
       /\ t.id \in Ids /\ sub[t.id].status # "absent"
       /\ t.group # NoGroup => t.seen \subseteq {t.id}
  /\ t.op = "expire" /\ t.group # NoGroup => t.seen = {}
  /\ t.op = "consume" => /\ c \in Requests /\ record[c].status = "none" /\ t.id \in Saved(t)
                         /\ t.amount \in Nat /\ Room(MaybeReset(t.sub[t.id], t.at), t.amount)
  /\ t.op \in {"settle", "refund"} => c \in open /\ t.id = record[c].sub /\ Saved(t) = {t.id}
  /\ t.op = "settle" => record[c].amount + t.amount >= 0 /\ Room(t.sub[t.id], t.amount)
  /\ t.op = "refund" => t.amount = record[c].amount

TxInv == \A c \in Clients : TxOk(tx[c], c)

IInv == TypeOK /\ Issued /\ SubInv /\ Planned /\ Fresh /\ OpenInv /\ Covered /\ TxInv

\* What open requests hold of a subscription.
LEMMA HeldType ==
  ASSUME SubscriptionAssumption, TypeOK, NEW i \in Ids
  PROVE  /\ holds(i) \in [Requests -> Nat] /\ Held(i) \in Nat
         /\ \A r \in Requests : Hold(i, r) \in Nat /\ Hold(i, r) <= Held(i)
<1>1. \A r \in Requests : Hold(i, r) \in Nat
  BY DEF Hold, TypeOK, RecordType
<1>2. holds(i) \in [Requests -> Nat] /\ \A r \in Requests : holds(i)[r] = Hold(i, r)
  BY <1>1 DEF holds
<1>3. IsFiniteSet(Requests)
  BY DEF SubscriptionAssumption
<1>4. SumFunction(holds(i)) \in Nat /\ \A r \in Requests : holds(i)[r] <= SumFunction(holds(i))
  BY <1>2, <1>3, SumNat
<1> QED
  BY <1>1, <1>2, <1>4 DEF Held

\* It depends on open requests and records only.
LEMMA HeldSame ==
  ASSUME NEW i, open' = open, record' = record
  PROVE  Held(i)' = Held(i)
BY DEF Held, holds, Hold

\* One request takes or gives back.
LEMMA HeldStep ==
  ASSUME SubscriptionAssumption, TypeOK, TypeOK', NEW i \in Ids, NEW r \in Requests,
         \A q \in Requests \ {r} : record'[q] = record[q] /\ (q \in open' <=> q \in open)
  PROVE  Held(i)' = Held(i) + (Hold(i, r)' - Hold(i, r))
<1>1. holds(i) \in [Requests -> Int]
  BY HeldType
<1>2. holds(i)' \in [Requests -> Int]
  <2>1. \A q \in Requests : Hold(i, q)' \in Nat
    BY DEF Hold, TypeOK, RecordType
  <2> QED
    BY <2>1 DEF holds
<1>3. \A q \in Requests \ {r} : holds(i)'[q] = holds(i)[q]
  BY DEF holds, Hold
<1>4. IsFiniteSet(Requests)
  BY DEF SubscriptionAssumption
<1>5. SumFunction(holds(i)') = SumFunction(holds(i)) + (holds(i)'[r] - holds(i)[r])
  BY <1>1, <1>2, <1>3, <1>4, SumUpdate
<1>6. Held(i) = SumFunction(holds(i)) /\ Held(i)' = SumFunction(holds(i)')
  BY DEF Held
<1>7. holds(i)'[r] = Hold(i, r)' /\ holds(i)[r] = Hold(i, r)
  BY DEF holds
<1> QED
  BY <1>5, <1>6, <1>7

\* What the invariant says of one row.
LEMMA SubParts ==
  ASSUME IInv, NEW i \in Ids
  PROVE  /\ sub[i] \in SubType /\ spent[i] \in Int /\ now \in Nat
         /\ i \notin raced => Fits(sub[i], spent[i], now)
         /\ sub[i].status \in Alive => sub[i].plan \in Plans
         /\ Exists(i) <=> sub[i].status \in Alive
BY DEF IInv, TypeOK, SubInv, Planned, Exists, Alive

\* What it says of one transaction.
LEMMA TxParts ==
  ASSUME IInv, NEW c \in Clients
  PROVE  /\ tx[c] \in TxType /\ tx[c].at \in Nat /\ tx[c].sub \in [Ids -> SubType]
         /\ tx[c].amount \in Int /\ TxOk(tx[c], c)
BY DEF IInv, TypeOK, TxInv, TxType

-----------------------------------------------------------------------------
(* Transactions begin and end.                                             *)

\* A step of others leaves a transaction as it was.
LEMMA TxStays ==
  ASSUME NEW t \in TxType, NEW c, TxOk(t, c), now \in Nat, now' \in Nat, now <= now',
         \A i \in Ids : sub[i].status # "absent" => sub'[i].status # "absent",
         c \in Requests => record'[c] = record[c], c \in open => c \in open',
         open \subseteq Requests
  PROVE  TxOk(t, c)'
<1>1. t.at \in Nat
  BY DEF TxType
<1>2. t.at <= now'
  BY <1>1 DEF TxOk
<1>3. \A i \in Saved(t) : i \in Ids
  BY DEF Saved
<1>4. c \in open => record'[c] = record[c]
  OBVIOUS
<1> QED
  BY <1>2, <1>3, <1>4 DEF TxOk, Saved, Room

\* A client without a transaction.
LEMMA NoTxOk ==
  ASSUME now \in Nat, NEW c
  PROVE  /\ NoTx \in TxType /\ TxOk(NoTx, c)
         /\ NoTx.op = "none"
<1>1. NoSub \in SubType /\ NoSub.status = "absent"
  BY DEF NoSub, SubType
<1>2. NoTx.sub \in [Ids -> SubType] /\ \A i \in Ids : NoTx.sub[i].status = "absent"
  BY <1>1 DEF NoTx
<1>3. NoTx \in TxType
  <2> DEFINE z == [i \in Ids |-> NoSub]
  <2>1. z \in [Ids -> SubType]
    BY <1>1
  <2>2. NoTx = [op |-> "none", id |-> 0, plan |-> "none", amount |-> 0, at |-> 0,
                sub |-> z, group |-> NoGroup, seen |-> {}]
    BY DEF NoTx
  <2> HIDE DEF z
  <2> QED
    BY <2>1, <2>2 DEF TxType
<1>4. Saved(NoTx) = {}
  BY <1>2 DEF Saved
<1>5. NoTx.at = 0 /\ NoTx.op = "none"
  BY DEF NoTx
<1>6. TxOk(NoTx, c)
  BY <1>4, <1>5 DEF TxOk
<1> QED
  BY <1>3, <1>5, <1>6

\* The step of one client: the transactions of the others are as they were.
LEMMA TxStep ==
  ASSUME IInv, NEW c \in Clients, NEW t \in TxType, tx' = [tx EXCEPT ![c] = t], TxOk(t, c)',
         now' = now, \A i \in Ids : sub[i].status # "absent" => sub'[i].status # "absent",
         \A q \in Requests \ {c} : record'[q] = record[q] /\ (q \in open => q \in open')
  PROVE  tx' \in [Clients -> TxType] /\ TxInv'
<1>1. /\ tx \in [Clients -> TxType] /\ now \in Nat /\ open \subseteq Requests
  BY DEF IInv, TypeOK
<1>2. tx' \in [Clients -> TxType] /\ tx'[c] = t /\ \A d \in Clients \ {c} : tx'[d] = tx[d]
  BY <1>1
<1>3. ASSUME NEW d \in Clients PROVE TxOk(tx[d], d)'
  <2>1. CASE d = c
    <3>1. tx'[d] = t /\ TxOk(t, d)'
      BY <2>1, <1>2
    <3> QED
      BY <3>1
  <2>2. CASE d # c
    <3>1. PICK u : u = tx[d]
      OBVIOUS
    <3>2. u \in TxType /\ TxOk(u, d) /\ tx'[d] = u
      BY <1>1, <1>2, <2>2, <3>1, TxParts
    <3>3. now <= now'
      BY <1>1
    <3>4. TxOk(u, d)'
      BY <1>1, <2>2, <3>2, <3>3, TxStays
    <3> QED
      BY <3>2, <3>4
  <2> QED
    BY <2>1, <2>2
<1> QED
  BY <1>2, <1>3 DEF TxInv

\* The end of a transaction.
LEMMA EndsStep ==
  ASSUME IInv, NEW c \in Clients, Ends(c), now' = now,
         \A i \in Ids : sub[i].status # "absent" => sub'[i].status # "absent",
         \A q \in Requests \ {c} : record'[q] = record[q] /\ (q \in open => q \in open')
  PROVE  tx' \in [Clients -> TxType] /\ TxInv'
<1>1. now' \in Nat /\ now \in Nat
  BY DEF IInv, TypeOK
<1>2. NoTx \in TxType /\ TxOk(NoTx, c)'
  <2>1. NoTx \in TxType /\ TxOk(NoTx, c)
    BY <1>1, NoTxOk
  <2>2. now <= now' /\ NoTx.op = "none" /\ NoTx.at = 0
    BY <1>1, NoTxOk DEF NoTx
  <2>3. Saved(NoTx) = {}
    <3>1. \A i \in Ids : NoTx.sub[i].status = "absent"
      BY DEF NoTx, NoSub
    <3> QED
      BY <3>1 DEF Saved
  <2>4. TxOk(NoTx, c)'
    BY <1>1, <2>2, <2>3 DEF TxOk, Saved
  <2> QED
    BY <2>1, <2>4
<1>3. tx' = [tx EXCEPT ![c] = NoTx]
  BY DEF Ends
<1> QED
  BY <1>2, <1>3, TxStep

\* What a transaction reads is what is there.
LEMMA TxReads ==
  ASSUME IInv, NEW ids \in SUBSET Ids, \A i \in ids : sub[i].status \in Alive, NEW t,
         t.sub = [i \in Ids |-> IF i \in ids THEN sub[i] ELSE NoSub]
  PROVE  /\ t.sub \in [Ids -> SubType] /\ Saved(t) = ids
         /\ \A i \in ids : t.sub[i] = sub[i]
<1>1. /\ sub \in [Ids -> SubType] /\ NoSub \in SubType /\ NoSub.status = "absent"
  BY DEF IInv, TypeOK, NoSub, SubType
<1>2. t.sub \in [Ids -> SubType] /\ \A i \in Ids : t.sub[i] = IF i \in ids THEN sub[i] ELSE NoSub
  BY <1>1
<1>3. \A i \in Ids : t.sub[i].status # "absent" <=> i \in ids
  BY <1>1, <1>2 DEF Alive
<1>4. Saved(t) = ids
  BY <1>3 DEF Saved
<1> QED
  BY <1>2, <1>4

\* A transaction that has read begins: nothing else changes.
LEMMA BeginStep ==
  ASSUME IInv, NEW c \in Clients, NEW t \in TxType, TxOk(t, c), Begin(c, t)
  PROVE  IInv' /\ (KeepsUpgrade => KeepsUpgrade')
<1>1. /\ tx' = [tx EXCEPT ![c] = t] /\ now' = now /\ group' = group /\ sub' = sub
      /\ record' = record /\ open' = open /\ spent' = spent /\ raced' = raced
      /\ overlooked' = overlooked
  BY DEF Begin, rows, history
<1>2. now \in Nat /\ now <= now' /\ open \subseteq Requests
  BY <1>1 DEF IInv, TypeOK
<1>3. TxOk(t, c)'
  BY <1>1, <1>2, TxStays
<1>4. tx' \in [Clients -> TxType] /\ TxInv'
  BY <1>1, <1>3, TxStep
<1>5. TypeOK'
  BY <1>1, <1>4 DEF IInv, TypeOK
<1>6. Issued' /\ SubInv' /\ Planned' /\ Fresh' /\ OpenInv'
  BY <1>1 DEF IInv, Issued, SubInv, Planned, Fresh, OpenInv
<1>7. \A i \in Ids : Held(i)' = Held(i)
  BY <1>1, HeldSame
<1>8. Covered'
  BY <1>1, <1>7 DEF IInv, Covered
<1>9. KeepsUpgrade => KeepsUpgrade'
  BY <1>1 DEF KeepsUpgrade, UpgradesAt, GroupOf
<1> QED
  BY <1>4, <1>5, <1>6, <1>8, <1>9 DEF IInv

\* A purchase reads the group.
LEMMA CreateBegins ==
  ASSUME IInv, NEW p \in Plans, CreateReads(p)
  PROVE  IInv' /\ (KeepsUpgrade => KeepsUpgrade')
<1>1. PICK t : t = Tx("create", 0, p, 0, {}, group, {})
  OBVIOUS
<1>2. Begin("order", t) /\ "order" \in Clients /\ group \in Groups /\ now \in Nat
  BY <1>1 DEF CreateReads, Clients, IInv, TypeOK
<1>3. /\ t \in TxType /\ t.op = "create" /\ t.plan = p /\ t.at = now /\ t.group = group
      /\ Saved(t) = {}
  <2> DEFINE z == [j \in Ids |-> IF j \in {} THEN sub[j] ELSE NoSub]
  <2>1. t = [op |-> "create", id |-> 0, plan |-> p, amount |-> 0, at |-> now,
             sub |-> z, group |-> group, seen |-> {}]
    BY <1>1 DEF Tx
  <2> HIDE DEF z
  <2>2. /\ t.op = "create" /\ t.id = 0 /\ t.plan = p /\ t.amount = 0 /\ t.at = now
        /\ t.sub = z /\ t.group = group /\ t.seen = {}
    BY <2>1
  <2>3. /\ t.sub \in [Ids -> SubType] /\ Saved(t) = {}
        /\ \A j \in {} : t.sub[j] = sub[j]
    BY <1>1, <1>2, <2>2, TxReads DEF z
  <2>4. t \in TxType
    BY <1>2, <2>1, <2>2, <2>3 DEF TxType
  <2> QED
    BY <2>2, <2>3, <2>4
<1>4. TxOk(t, "order")
  BY <1>2, <1>3 DEF TxOk
<1> QED
  BY <1>2, <1>3, <1>4, BeginStep

\* The group to fall back to is a group, and nobody else upgrades the user.
LEMMA DowngradeType ==
  ASSUME IInv, NEW i \in Ids
  PROVE  /\ Downgrade(i) \in {NoGroup} \union Groups
         /\ Downgrade(i) # NoGroup => UpgradesAt(now) \subseteq {i}
<1>1. sub[i].prev \in {NoGroup} \union Groups
  BY DEF IInv, TypeOK, SubType
<1> QED
  BY <1>1 DEF Downgrade

\* The administrator reads the subscription to end.
LEMMA EndBegins ==
  ASSUME IInv, NEW i \in Ids, NEW op \in {"invalidate", "delete"}, EndReads(op, i)
  PROVE  IInv' /\ (KeepsUpgrade => KeepsUpgrade')
<1>1. PICK g : g = Downgrade(i)
  OBVIOUS
<1>2. PICK s : s = UpgradesAt(now)
  OBVIOUS
<1>3. PICK t : t = Tx(op, i, "none", 0, {}, g, s)
  OBVIOUS
<1>4. Begin("admin", t) /\ "admin" \in Clients /\ now \in Nat /\ sub[i].status # "absent"
  BY <1>1, <1>2, <1>3 DEF EndReads, Exists, Clients, IInv, TypeOK
<1>5. g \in {NoGroup} \union Groups /\ (g # NoGroup => s \subseteq {i}) /\ s \in SUBSET Ids
  BY <1>1, <1>2, DowngradeType DEF UpgradesAt
<1>6. /\ t \in TxType /\ t.op = op /\ t.id = i /\ t.at = now /\ t.group = g /\ t.seen = s
      /\ Saved(t) = {}
  <2> DEFINE z == [j \in Ids |-> IF j \in {} THEN sub[j] ELSE NoSub]
  <2>1. t = [op |-> op, id |-> i, plan |-> "none", amount |-> 0, at |-> now,
             sub |-> z, group |-> g, seen |-> s]
    BY <1>3 DEF Tx
  <2> HIDE DEF z
  <2>2. /\ t.op = op /\ t.id = i /\ t.plan = "none" /\ t.amount = 0 /\ t.at = now
        /\ t.sub = z /\ t.group = g /\ t.seen = s
    BY <2>1
  <2>3. /\ t.sub \in [Ids -> SubType] /\ Saved(t) = {}
        /\ \A j \in {} : t.sub[j] = sub[j]
    BY <1>3, <1>5, <2>2, TxReads DEF z
  <2>4. t \in TxType
    BY <1>3, <1>5, <2>1, <2>2, <2>3 DEF TxType, IInv, TypeOK
  <2> QED
    BY <2>2, <2>3, <2>4
<1>7. TxOk(t, "admin")
  BY <1>4, <1>5, <1>6 DEF TxOk
<1> QED
  BY <1>4, <1>6, <1>7, BeginStep

\* So is the group of the subscription that ended last.
LEMMA LastGroupType ==
  ASSUME IInv
  PROVE  /\ LastGroup \in {NoGroup} \union Groups
         /\ LastGroup # NoGroup => UpgradesAt(now) = {}
<1> DEFINE expired == {i \in Ids : (Due(i) \/ sub[i].status = "expired") /\ GroupOf(i) # NoGroup}
<1> DEFINE back == {i \in expired : /\ \A j \in expired \ {i} : Before(j, i)
                                    /\ group = GroupOf(i) /\ sub[i].prev # group}
<1>1. LastGroup = IF back = {} \/ UpgradesAt(now) # {} THEN NoGroup
                  ELSE sub[CHOOSE i \in back : TRUE].prev
  BY DEF LastGroup
<1>2. \A i \in back : i \in Ids
  OBVIOUS
<1>3. \A i \in Ids : sub[i].prev \in {NoGroup} \union Groups
  BY DEF IInv, TypeOK, SubType
<1> HIDE DEF back
<1>4. back # {} => (CHOOSE i \in back : TRUE) \in back
  OBVIOUS
<1> QED
  BY <1>1, <1>2, <1>3, <1>4

\* The maintenance task finds subscriptions that are due.
LEMMA ExpireBegins ==
  ASSUME IInv, ExpireReads
  PROVE  IInv' /\ (KeepsUpgrade => KeepsUpgrade')
<1>1. PICK g : g = LastGroup
  OBVIOUS
<1>2. PICK s : s = UpgradesAt(now)
  OBVIOUS
<1>3. PICK t : t = Tx("expire", 0, "none", 0, {}, g, s)
  OBVIOUS
<1>4. Begin("task", t) /\ "task" \in Clients /\ now \in Nat
  BY <1>1, <1>2, <1>3 DEF ExpireReads, Clients, IInv, TypeOK
<1>5. g \in {NoGroup} \union Groups /\ (g # NoGroup => s = {}) /\ s \in SUBSET Ids
  BY <1>1, <1>2, LastGroupType DEF UpgradesAt
<1>6. /\ t \in TxType /\ t.op = "expire" /\ t.at = now /\ t.group = g /\ t.seen = s
      /\ Saved(t) = {}
  <2> DEFINE z == [j \in Ids |-> IF j \in {} THEN sub[j] ELSE NoSub]
  <2>1. t = [op |-> "expire", id |-> 0, plan |-> "none", amount |-> 0, at |-> now,
             sub |-> z, group |-> g, seen |-> s]
    BY <1>3 DEF Tx
  <2> HIDE DEF z
  <2>2. /\ t.op = "expire" /\ t.id = 0 /\ t.plan = "none" /\ t.amount = 0 /\ t.at = now
        /\ t.sub = z /\ t.group = g /\ t.seen = s
    BY <2>1
  <2>3. /\ t.sub \in [Ids -> SubType] /\ Saved(t) = {}
        /\ \A j \in {} : t.sub[j] = sub[j]
    BY <1>3, <1>5, <2>2, TxReads DEF z
  <2>4. t \in TxType
    BY <1>3, <1>5, <2>1, <2>2, <2>3 DEF TxType, IInv, TypeOK
  <2> QED
    BY <2>2, <2>3, <2>4
<1>7. TxOk(t, "task")
  BY <1>4, <1>5, <1>6 DEF TxOk
<1> QED
  BY <1>4, <1>6, <1>7, BeginStep

\* What a transaction is going to save, it has read.
LEMMA ReadsOk ==
  ASSUME IInv, NEW t \in TxType, t.at = now, \A i \in Saved(t) : t.sub[i] = sub[i],
         \A i \in Saved(t) : sub[i].status \in Alive
  PROVE  /\ t.at <= now
         /\ \A i \in Saved(t) : /\ t.sub[i].status \in Alive /\ t.sub[i].plan \in Plans
                                /\ sub[i].status # "absent"
<1>1. now \in Nat /\ \A i \in Saved(t) : i \in Ids
  BY DEF IInv, TypeOK, Saved
<1>2. \A i \in Saved(t) : sub[i].plan \in Plans /\ sub[i].status # "absent"
  BY <1>1 DEF IInv, Planned, Alive
<1> QED
  BY <1>1, <1>2

\* The maintenance task reads a subscription to reset.
LEMMA ResetBegins ==
  ASSUME IInv, NEW i \in Ids, ResetReads(i)
  PROVE  IInv' /\ (KeepsUpgrade => KeepsUpgrade')
<1>1. PICK t : t = Tx("reset", i, "none", 0, {i}, NoGroup, {})
  OBVIOUS
<1>2. Begin("task", t) /\ "task" \in Clients /\ now \in Nat /\ sub[i].status \in Alive
  BY <1>1 DEF ResetReads, Clients, IInv, TypeOK, Alive
<1>3. /\ t \in TxType /\ t.op = "reset" /\ t.at = now /\ t.group = NoGroup /\ Saved(t) = {i}
      /\ t.sub[i] = sub[i]
  <2> DEFINE z == [j \in Ids |-> IF j \in {i} THEN sub[j] ELSE NoSub]
  <2>1. t = [op |-> "reset", id |-> i, plan |-> "none", amount |-> 0, at |-> now,
             sub |-> z, group |-> NoGroup, seen |-> {}]
    BY <1>1 DEF Tx
  <2> HIDE DEF z
  <2>2. /\ t.op = "reset" /\ t.id = i /\ t.plan = "none" /\ t.amount = 0 /\ t.at = now
        /\ t.sub = z /\ t.group = NoGroup /\ t.seen = {}
    BY <2>1
  <2>3. /\ t.sub \in [Ids -> SubType] /\ Saved(t) = {i}
        /\ \A j \in {i} : t.sub[j] = sub[j]
    BY <1>1, <1>2, <2>2, TxReads DEF z
  <2>4. t \in TxType
    BY <1>2, <2>1, <2>2, <2>3 DEF TxType
  <2> QED
    BY <2>2, <2>3, <2>4
<1>4. /\ t.at <= now
      /\ \A j \in Saved(t) : /\ t.sub[j].status \in Alive /\ t.sub[j].plan \in Plans
                             /\ sub[j].status # "absent"
  BY <1>2, <1>3, ReadsOk
<1>5. TxOk(t, "task")
  BY <1>3, <1>4 DEF TxOk
<1> QED
  BY <1>2, <1>3, <1>5, BeginStep

\* A request reads the subscriptions it may take from.
LEMMA PreConsumeBegins ==
  ASSUME SubscriptionAssumption, IInv, NEW r \in Requests, NEW n \in Amounts, PreConsumeReads(r, n)
  PROVE  IInv' /\ (KeepsUpgrade => KeepsUpgrade')
<1>1. PICK i \in Ids :
        LET passed == {j \in Ids : Active(j) /\ Before(j, i)}
            saved == {i} \union {j \in passed : MaybeReset(sub[j], now) # sub[j]} IN
        /\ record[r].status = "none"
        /\ Active(i) /\ HasRoom(i, n)
        /\ Begin(r, Tx("consume", i, "none", n, saved, NoGroup, {}))
  BY DEF PreConsumeReads
<1> DEFINE passed == {j \in Ids : Active(j) /\ Before(j, i)}
<1>2. PICK saved : saved = {i} \union {j \in passed : MaybeReset(sub[j], now) # sub[j]}
  OBVIOUS
<1>3. PICK t : t = Tx("consume", i, "none", n, saved, NoGroup, {})
  OBVIOUS
<1>4. saved \in SUBSET Ids /\ \A j \in saved : sub[j].status \in Alive
  BY <1>1, <1>2 DEF Active, Alive
<1>5. n \in Nat /\ now \in Nat /\ r \in Clients /\ Begin(r, t) /\ i \in saved
  BY <1>1, <1>2, <1>3 DEF SubscriptionAssumption, Clients, IInv, TypeOK
<1>6. /\ t \in TxType /\ t.op = "consume" /\ t.id = i /\ t.amount = n /\ t.at = now
      /\ t.group = NoGroup /\ Saved(t) = saved /\ \A j \in saved : t.sub[j] = sub[j]
  <2> DEFINE z == [j \in Ids |-> IF j \in saved THEN sub[j] ELSE NoSub]
  <2>1. t = [op |-> "consume", id |-> i, plan |-> "none", amount |-> n, at |-> now,
             sub |-> z, group |-> NoGroup, seen |-> {}]
    BY <1>3 DEF Tx
  <2> HIDE DEF z
  <2>2. /\ t.op = "consume" /\ t.id = i /\ t.plan = "none" /\ t.amount = n /\ t.at = now
        /\ t.sub = z /\ t.group = NoGroup /\ t.seen = {}
    BY <2>1
  <2>3. /\ t.sub \in [Ids -> SubType] /\ Saved(t) = saved
        /\ \A j \in saved : t.sub[j] = sub[j]
    BY <1>3, <1>4, <1>5, <2>2, TxReads DEF z
  <2>4. t \in TxType
    BY <1>3, <1>4, <1>5, <2>1, <2>2, <2>3 DEF TxType, IInv, TypeOK
  <2> QED
    BY <2>2, <2>3, <2>4
<1>7. /\ t.at <= now
      /\ \A j \in Saved(t) : /\ t.sub[j].status \in Alive /\ t.sub[j].plan \in Plans
                             /\ sub[j].status # "absent"
  BY <1>4, <1>6, ReadsOk
<1>8. Room(MaybeReset(t.sub[t.id], t.at), t.amount)
  <2>1. PICK m : m = MaybeReset(sub[i], now)
    OBVIOUS
  <2>2. sub[i] \in SubType /\ sub[i].plan \in Plans
    BY <1>4, <1>5, SubParts
  <2>3. m \in SubType /\ m.plan = sub[i].plan
    BY <1>5, <2>1, <2>2, ResetType
  <2>4. m.used \in Nat /\ Plan[m.plan].total \in Nat
    BY <2>2, <2>3, SubFields, PlanFields
  <2>5. Plan[m.plan].total = 0 \/ Plan[m.plan].total - m.used >= n
    BY <1>1, <2>1, <2>3 DEF HasRoom, TotalOf
  <2>6. Plan[m.plan].total > 0 => m.used + n <= Plan[m.plan].total
    BY <1>5, <2>4, <2>5
  <2>7. MaybeReset(t.sub[t.id], t.at) = m /\ t.amount = n
    BY <1>5, <1>6, <2>1
  <2> QED
    BY <2>6, <2>7 DEF Room
<1>9. TxOk(t, r)
  BY <1>1, <1>5, <1>6, <1>7, <1>8 DEF TxOk
<1> QED
  BY <1>5, <1>6, <1>9, BeginStep

\* A settlement reads its subscription.
LEMMA SettleBegins ==
  ASSUME SubscriptionAssumption, IInv, NEW r \in Requests, NEW d \in Deltas, SettleReads(r, d)
  PROVE  IInv' /\ (KeepsUpgrade => KeepsUpgrade')
<1>1. PICK i : i = record[r].sub
  OBVIOUS
<1>2. PICK t : t = Tx("settle", i, "none", d, {i}, NoGroup, {})
  OBVIOUS
<1>3. r \in open /\ record[r].amount + d >= 0 /\ ~Refuses(i, d) /\ Begin(r, t)
  BY <1>1, <1>2 DEF SettleReads
<1>4. i \in Ids /\ d \in Int /\ r \in Clients /\ now \in Nat
  BY <1>1, <1>3 DEF IInv, OpenInv, TypeOK, SubscriptionAssumption, Clients
<1>5. sub[i].status \in Alive /\ TotalOf(i) \notin 1 .. sub[i].used + d - 1
  BY <1>3 DEF Refuses, Exists, Alive
<1>6. /\ t \in TxType /\ t.op = "settle" /\ t.id = i /\ t.amount = d /\ t.at = now
      /\ t.group = NoGroup /\ Saved(t) = {i} /\ t.sub[i] = sub[i]
  <2> DEFINE z == [j \in Ids |-> IF j \in {i} THEN sub[j] ELSE NoSub]
  <2>1. t = [op |-> "settle", id |-> i, plan |-> "none", amount |-> d, at |-> now,
             sub |-> z, group |-> NoGroup, seen |-> {}]
    BY <1>2 DEF Tx
  <2> HIDE DEF z
  <2>2. /\ t.op = "settle" /\ t.id = i /\ t.plan = "none" /\ t.amount = d /\ t.at = now
        /\ t.sub = z /\ t.group = NoGroup /\ t.seen = {}
    BY <2>1
  <2>3. /\ t.sub \in [Ids -> SubType] /\ Saved(t) = {i}
        /\ \A j \in {i} : t.sub[j] = sub[j]
    BY <1>2, <1>4, <1>5, <2>2, TxReads DEF z
  <2>4. t \in TxType
    BY <1>2, <1>4, <1>5, <2>1, <2>2, <2>3 DEF TxType, IInv, TypeOK
  <2> QED
    BY <2>2, <2>3, <2>4
<1>7. /\ t.at <= now
      /\ \A j \in Saved(t) : /\ t.sub[j].status \in Alive /\ t.sub[j].plan \in Plans
                             /\ sub[j].status # "absent"
  BY <1>5, <1>6, ReadsOk
<1>8. Room(t.sub[t.id], t.amount)
  <2>1. sub[i] \in SubType /\ sub[i].plan \in Plans
    BY <1>4, <1>5, SubParts
  <2>2. sub[i].used \in Nat /\ Plan[sub[i].plan].total \in Nat
    BY <2>1, SubFields, PlanFields
  <2>3. Plan[sub[i].plan].total > 0 => sub[i].used + d <= Plan[sub[i].plan].total
    BY <1>4, <1>5, <2>2 DEF TotalOf
  <2> QED
    BY <1>6, <2>3 DEF Room
<1>9. TxOk(t, r)
  BY <1>1, <1>3, <1>6, <1>7, <1>8 DEF TxOk
<1> QED
  BY <1>3, <1>4, <1>6, <1>9, BeginStep

\* A refund reads its record and its subscription.
LEMMA RefundBegins ==
  ASSUME SubscriptionAssumption, IInv, NEW r \in Requests, RefundReads(r)
  PROVE  IInv' /\ (KeepsUpgrade => KeepsUpgrade')
<1>1. PICK i : i = record[r].sub
  OBVIOUS
<1>2. PICK n : n = record[r].amount
  OBVIOUS
<1>3. PICK t : t = Tx("refund", i, "none", n, {i}, NoGroup, {})
  OBVIOUS
<1>4. r \in open /\ Exists(i) /\ Begin(r, t)
  BY <1>1, <1>2, <1>3 DEF RefundReads
<1>5. i \in Ids /\ n \in Int /\ r \in Clients /\ now \in Nat /\ sub[i].status \in Alive
  BY <1>1, <1>2, <1>4 DEF IInv, OpenInv, TypeOK, RecordType, Clients, Exists, Alive
<1>6. /\ t \in TxType /\ t.op = "refund" /\ t.id = i /\ t.amount = n /\ t.at = now
      /\ t.group = NoGroup /\ Saved(t) = {i} /\ t.sub[i] = sub[i]
  <2> DEFINE z == [j \in Ids |-> IF j \in {i} THEN sub[j] ELSE NoSub]
  <2>1. t = [op |-> "refund", id |-> i, plan |-> "none", amount |-> n, at |-> now,
             sub |-> z, group |-> NoGroup, seen |-> {}]
    BY <1>3 DEF Tx
  <2> HIDE DEF z
  <2>2. /\ t.op = "refund" /\ t.id = i /\ t.plan = "none" /\ t.amount = n /\ t.at = now
        /\ t.sub = z /\ t.group = NoGroup /\ t.seen = {}
    BY <2>1
  <2>3. /\ t.sub \in [Ids -> SubType] /\ Saved(t) = {i}
        /\ \A j \in {i} : t.sub[j] = sub[j]
    BY <1>3, <1>5, <2>2, TxReads DEF z
  <2>4. t \in TxType
    BY <1>3, <1>5, <2>1, <2>2, <2>3 DEF TxType, IInv, TypeOK
  <2> QED
    BY <2>2, <2>3, <2>4
<1>7. /\ t.at <= now
      /\ \A j \in Saved(t) : /\ t.sub[j].status \in Alive /\ t.sub[j].plan \in Plans
                             /\ sub[j].status # "absent"
  BY <1>5, <1>6, ReadsOk
<1>8. TxOk(t, r)
  BY <1>1, <1>2, <1>4, <1>6, <1>7 DEF TxOk
<1> QED
  BY <1>4, <1>5, <1>6, <1>8, BeginStep

-----------------------------------------------------------------------------
(* Rows are saved.                                                         *)

\* the same subscription, whatever its quota
Same(s, m) == m.status = s.status /\ m.plan = s.plan /\ m.end = s.end

\* A save over a change is known; another one changes the row it has read.
LEMMA SaveEffect ==
  ASSUME IInv, NEW c, NEW t \in TxType, TxOk(t, c), NEW new, Save(t, new),
         \A i \in Saved(t) : new[i] \in SubType /\ Same(t.sub[i], new[i])
  PROVE  /\ sub' \in [Ids -> SubType] /\ raced' \subseteq Ids /\ raced \subseteq raced'
         /\ \A i \in Ids : sub'[i].status = "absent" <=> sub[i].status = "absent"
         /\ \A i \in Ids : sub'[i].status \in Alive => sub'[i].plan \in Plans
         /\ \A i \in Saved(t) : sub'[i] = new[i] /\ (i \notin raced' => sub[i] = t.sub[i])
         /\ \A i \in Ids \ Saved(t) : sub'[i] = sub[i]
         /\ \A i \in Ids \ raced' : Same(sub[i], sub'[i])
<1>1. /\ sub' = [i \in Ids |-> IF i \in Saved(t) THEN new[i] ELSE sub[i]]
      /\ raced' = raced \union {i \in Saved(t) : sub[i] # t.sub[i]}
  BY DEF Save
<1>2. /\ sub \in [Ids -> SubType] /\ raced \subseteq Ids /\ Saved(t) \subseteq Ids
      /\ \A i \in Ids : sub[i].status \in Alive => sub[i].plan \in Plans
  BY DEF IInv, TypeOK, Planned, Saved
<1>3. \A i \in Saved(t) : /\ t.sub[i].status \in Alive /\ t.sub[i].plan \in Plans
                          /\ sub[i].status # "absent"
  BY DEF TxOk
<1>4. /\ \A i \in Saved(t) : sub'[i] = new[i] /\ (i \notin raced' => sub[i] = t.sub[i])
      /\ \A i \in Ids \ Saved(t) : sub'[i] = sub[i]
      /\ raced' \subseteq Ids /\ raced \subseteq raced'
  BY <1>1, <1>2
<1>5. sub' \in [Ids -> SubType]
  BY <1>1, <1>2
<1>6. \A i \in Saved(t) : new[i].status \in Alive /\ new[i].plan \in Plans
  BY <1>3 DEF Same
<1>7. \A i \in Ids : /\ sub'[i].status = "absent" <=> sub[i].status = "absent"
                     /\ sub'[i].status \in Alive => sub'[i].plan \in Plans
  <2> TAKE i \in Ids
  <2>1. CASE i \in Saved(t)
    BY <2>1, <1>3, <1>4, <1>6 DEF Alive
  <2>2. CASE i \notin Saved(t)
    BY <2>2, <1>2, <1>4
  <2> QED
    BY <2>1, <2>2
<1>8. \A i \in Ids \ raced' : Same(sub[i], sub'[i])
  <2> TAKE i \in Ids \ raced'
  <2>1. CASE i \in Saved(t)
    BY <2>1, <1>4 DEF Same
  <2>2. CASE i \notin Saved(t)
    BY <2>2, <1>4 DEF Same
  <2> QED
    BY <2>1, <2>2
<1> QED
  BY <1>4, <1>5, <1>7, <1>8

\* A row that nobody has raced for upgrades the user after a save only if it did before.
LEMMA SameUpgrade ==
  ASSUME KeepsUpgrade, now' = now, group' = group, overlooked' = overlooked, raced \subseteq raced',
         \A i \in Ids \ raced' : Same(sub[i], sub'[i])
  PROVE  KeepsUpgrade'
<1>1. \A i \in Ids \ raced' : i \in UpgradesAt(now)' => i \in UpgradesAt(now)
  BY DEF UpgradesAt, GroupOf, Same
<1>2. \A i \in UpgradesAt(now)' : i \in Ids
  BY DEF UpgradesAt
<1> QED
  BY <1>1, <1>2 DEF KeepsUpgrade

\* Rows change, and no request does.
LEMMA RowsStep ==
  ASSUME IInv, NEW c \in Clients, Ends(c), now' = now, record' = record, open' = open,
         spent' = spent, sub' \in [Ids -> SubType], group' \in Groups,
         raced' \subseteq Ids, raced \subseteq raced', overlooked' \subseteq Ids,
         \A i \in Ids : /\ sub'[i].status = "absent" <=> sub[i].status = "absent"
                        /\ sub'[i].status \in Alive => sub'[i].plan \in Plans
                        /\ i \notin raced' => Fits(sub'[i], spent[i], now)
  PROVE  IInv'
<1>1. tx' \in [Clients -> TxType] /\ TxInv'
  BY EndsStep
<1>2. TypeOK'
  BY <1>1 DEF IInv, TypeOK
<1>3. Issued' /\ Planned' /\ Fresh' /\ OpenInv'
  BY DEF IInv, Issued, Planned, Fresh, OpenInv
<1>4. SubInv'
  BY DEF SubInv
<1>5. \A i \in Ids : Held(i)' = Held(i)
  BY HeldSame
<1>6. Covered'
  BY <1>5 DEF IInv, Covered
<1> QED
  BY <1>1, <1>2, <1>3, <1>4, <1>6 DEF IInv

\* What a reset makes of a row as it was read.
LEMMA ResetRow ==
  ASSUME SubscriptionAssumption, IInv, NEW c, NEW t \in TxType, TxOk(t, c), NEW i \in Saved(t)
  PROVE  /\ MaybeReset(t.sub[i], t.at) \in SubType /\ Same(t.sub[i], MaybeReset(t.sub[i], t.at))
         /\ i \notin raced /\ sub[i] = t.sub[i] => Fits(MaybeReset(t.sub[i], t.at), spent[i], now)
<1>1. PICK s : s = t.sub[i]
  OBVIOUS
<1>2. PICK v : v = t.at
  OBVIOUS
<1>3. s \in SubType /\ v \in Nat /\ i \in Ids
  BY <1>1, <1>2 DEF TxType, Saved
<1>4. s.status \in Alive /\ s.plan \in Plans /\ v <= now /\ now \in Nat
  BY <1>1, <1>2 DEF TxOk, IInv, TypeOK
<1>5. MaybeReset(s, v) \in SubType /\ Same(s, MaybeReset(s, v))
  BY <1>3, <1>4, ResetType DEF Same
<1>6. ASSUME i \notin raced, sub[i] = s PROVE Fits(MaybeReset(s, v), spent[i], now)
  <2>1. Fits(s, spent[i], now) /\ spent[i] \in Int
    BY <1>3, <1>6, SubParts
  <2> QED
    BY <1>3, <1>4, <2>1, ResetFits
<1> QED
  BY <1>1, <1>2, <1>5, <1>6

\* The reset of the maintenance task is saved.
LEMMA ResetStep ==
  ASSUME SubscriptionAssumption, IInv, ResetDueSubscription
  PROVE  IInv' /\ (KeepsUpgrade => KeepsUpgrade')
<1>1. PICK t : t = tx["task"]
  OBVIOUS
<1>2. PICK new : new = [i \in Saved(t) |-> MaybeReset(t.sub[i], t.at)]
  OBVIOUS
<1>3. /\ Save(t, new) /\ Ends("task") /\ "task" \in Clients
      /\ now' = now /\ group' = group /\ record' = record /\ open' = open /\ spent' = spent
      /\ overlooked' = overlooked
  BY <1>1, <1>2 DEF ResetDueSubscription, Clients
<1>4. t \in TxType /\ TxOk(t, "task")
  BY <1>1, <1>3, TxParts
<1>5. \A i \in Saved(t) :
        /\ new[i] \in SubType /\ Same(t.sub[i], new[i])
        /\ i \notin raced /\ sub[i] = t.sub[i] => Fits(new[i], spent[i], now)
  BY <1>2, <1>4, ResetRow
<1>6. /\ sub' \in [Ids -> SubType] /\ raced' \subseteq Ids /\ raced \subseteq raced'
      /\ \A i \in Ids : sub'[i].status = "absent" <=> sub[i].status = "absent"
      /\ \A i \in Ids : sub'[i].status \in Alive => sub'[i].plan \in Plans
      /\ \A i \in Saved(t) : sub'[i] = new[i] /\ (i \notin raced' => sub[i] = t.sub[i])
      /\ \A i \in Ids \ Saved(t) : sub'[i] = sub[i]
      /\ \A i \in Ids \ raced' : Same(sub[i], sub'[i])
  BY <1>3, <1>4, <1>5, SaveEffect
<1>7. ASSUME NEW i \in Ids, i \notin raced' PROVE Fits(sub'[i], spent[i], now)
  <2>1. CASE i \in Saved(t)
    BY <2>1, <1>5, <1>6, <1>7
  <2>2. CASE i \notin Saved(t)
    BY <2>2, <1>6, <1>7, SubParts
  <2> QED
    BY <2>1, <2>2
<1>8. group' \in Groups /\ overlooked' \subseteq Ids
  BY <1>3 DEF IInv, TypeOK
<1>9. IInv'
  BY <1>3, <1>6, <1>7, <1>8, RowsStep
<1> QED
  BY <1>3, <1>6, <1>9, SameUpgrade

\* A pre-consumption is saved, with the resets it found due.
LEMMA PreConsumeStep ==
  ASSUME SubscriptionAssumption, IInv, NEW r \in Requests, PreConsumeUserSubscription(r)
  PROVE  IInv' /\ (KeepsUpgrade => KeepsUpgrade')
<1>1. PICK t : t = tx[r]
  OBVIOUS
<1>2. PICK i : i = t.id
  OBVIOUS
<1>3. PICK n : n = t.amount
  OBVIOUS
<1> DEFINE E(j) == LET s == MaybeReset(t.sub[j], t.at) IN IF j = i THEN [s EXCEPT !.used = @ + n] ELSE s
<1>4. PICK new : new = [j \in Saved(t) |-> E(j)]
  OBVIOUS
<1>5. /\ t.op = "consume" /\ Save(t, new) /\ Ends(r) /\ r \in Clients
      /\ record' = [record EXCEPT ![r] = [status |-> "consumed", sub |-> i, amount |-> n]]
      /\ spent' = [spent EXCEPT ![i] = @ + n] /\ open' = open \union {r}
      /\ now' = now /\ group' = group /\ overlooked' = overlooked
  BY <1>1, <1>2, <1>3, <1>4 DEF PreConsumeUserSubscription, Clients
<1>6. t \in TxType /\ TxOk(t, r) /\ t.at \in Nat /\ now \in Nat /\ TypeOK
  BY <1>1, <1>5, TxParts DEF IInv, TypeOK
<1>7. /\ record[r].status = "none" /\ i \in Saved(t) /\ n \in Nat /\ i \in Ids
      /\ Room(MaybeReset(t.sub[i], t.at), n) /\ sub[i].status # "absent" /\ t.sub[i].plan \in Plans
      /\ t.sub[i].status \in Alive
  BY <1>2, <1>3, <1>5, <1>6 DEF TxOk, Saved
<1>8. /\ spent' \in [Ids -> Int] /\ spent'[i] = spent[i] + n /\ spent[i] \in Int
      /\ \A j \in Ids \ {i} : spent'[j] = spent[j]
  BY <1>5, <1>6, <1>7 DEF TypeOK
<1>9. /\ new[i] \in SubType /\ Same(t.sub[i], new[i])
      /\ i \notin raced /\ sub[i] = t.sub[i] => Fits(new[i], spent'[i], now)
  <2>1. PICK m : m = MaybeReset(t.sub[i], t.at)
    OBVIOUS
  <2>2. /\ m \in SubType /\ Same(t.sub[i], m)
        /\ i \notin raced /\ sub[i] = t.sub[i] => Fits(m, spent[i], now)
    BY <1>6, <1>7, <2>1, ResetRow
  <2> DEFINE u == m.used + n
  <2>3. new[i] = [m EXCEPT !.used = u]
    BY <1>4, <1>7, <2>1
  <2>4. m.used \in Nat /\ u \in Nat /\ m.plan \in Plans /\ Plan[m.plan].total \in Nat
    BY <1>7, <2>2, SubFields, PlanFields DEF Same
  <2>5. Plan[m.plan].total > 0 => u <= Plan[m.plan].total
    BY <1>7, <2>1 DEF Room
  <2> HIDE DEF u
  <2>6. /\ [m EXCEPT !.used = u] \in SubType
        /\ [m EXCEPT !.used = u].status = m.status /\ [m EXCEPT !.used = u].plan = m.plan
        /\ [m EXCEPT !.used = u].end = m.end
    BY <2>2, <2>4 DEF SubType
  <2>7. ASSUME i \notin raced, sub[i] = t.sub[i] PROVE Fits([m EXCEPT !.used = u], spent[i] + n, now)
    <3>1. Fits(m, spent[i], now) /\ m.status \in Alive
      BY <1>7, <2>2, <2>7 DEF Same
    <3>2. m.used <= spent[i]
      BY <3>1 DEF Fits
    <3>3. u <= spent[i] + n /\ (spent[i] + n) - u <= spent[i] - m.used /\ spent[i] + n \in Int
      BY <1>7, <1>8, <2>4, <3>2 DEF u
    <3> QED
      BY <1>6, <1>8, <2>2, <2>4, <2>5, <3>1, <3>3, UsedFits
  <2> QED
    BY <1>8, <2>2, <2>3, <2>6, <2>7 DEF Same
<1>10. ASSUME NEW j \in Saved(t)
       PROVE  /\ new[j] \in SubType /\ Same(t.sub[j], new[j])
              /\ j \notin raced /\ sub[j] = t.sub[j] => Fits(new[j], spent'[j], now)
  <2>1. CASE j = i
    BY <2>1, <1>9
  <2>2. CASE j # i
    <3>1. new[j] = MaybeReset(t.sub[j], t.at) /\ spent'[j] = spent[j]
      BY <1>4, <1>8, <1>10, <2>2 DEF Saved
    <3> QED
      BY <1>6, <3>1, ResetRow
  <2> QED
    BY <2>1, <2>2
<1>11. /\ sub' \in [Ids -> SubType] /\ raced' \subseteq Ids /\ raced \subseteq raced'
       /\ \A j \in Ids : sub'[j].status = "absent" <=> sub[j].status = "absent"
       /\ \A j \in Ids : sub'[j].status \in Alive => sub'[j].plan \in Plans
       /\ \A j \in Saved(t) : sub'[j] = new[j] /\ (j \notin raced' => sub[j] = t.sub[j])
       /\ \A j \in Ids \ Saved(t) : sub'[j] = sub[j]
       /\ \A j \in Ids \ raced' : Same(sub[j], sub'[j])
  BY <1>5, <1>6, <1>10, SaveEffect
<1>12. /\ record' \in [Requests -> RecordType] /\ record'[r].status = "consumed"
       /\ record'[r].sub = i /\ record'[r].amount = n
       /\ \A q \in Requests \ {r} : record'[q] = record[q]
  <2> DEFINE c == [status |-> "consumed", sub |-> i, amount |-> n]
  <2>1. c \in RecordType /\ c.status = "consumed" /\ c.sub = i /\ c.amount = n
    BY <1>7 DEF RecordType
  <2>2. record' = [record EXCEPT ![r] = c]
    BY <1>5
  <2> HIDE DEF c
  <2> QED
    BY <1>6, <2>1, <2>2 DEF TypeOK
<1>13. tx' \in [Clients -> TxType] /\ TxInv'
  BY <1>5, <1>11, <1>12, EndsStep
<1>14. TypeOK'
  BY <1>5, <1>6, <1>8, <1>11, <1>12, <1>13 DEF TypeOK
<1>15. SubInv'
  <2>1. ASSUME NEW j \in Ids, j \notin raced' PROVE Fits(sub'[j], spent'[j], now)
    <3>1. CASE j \in Saved(t)
      BY <3>1, <1>10, <1>11, <2>1
    <3>2. CASE j \notin Saved(t)
      BY <3>2, <1>7, <1>8, <1>11, <2>1, SubParts
    <3> QED
      BY <3>1, <3>2
  <2> QED
    BY <1>5, <2>1 DEF SubInv
<1>16. Issued' /\ Planned' /\ Fresh'
  BY <1>7, <1>8, <1>11 DEF IInv, Issued, Planned, Fresh
<1>17. OpenInv'
  <2>1. ASSUME NEW q \in open' PROVE /\ record'[q].status = "consumed" /\ record'[q].sub \in Ids
                                     /\ sub'[record'[q].sub].status # "absent"
    <3>1. CASE q = r
      BY <3>1, <1>7, <1>11, <1>12
    <3>2. CASE q # r
      BY <3>2, <2>1, <1>5, <1>6, <1>11, <1>12 DEF IInv, OpenInv, TypeOK
    <3> QED
      BY <3>1, <3>2
  <2> QED
    BY <2>1 DEF OpenInv
<1>18. r \notin open
  BY <1>7 DEF IInv, OpenInv
<1>19. ASSUME NEW j \in Ids
       PROVE  Held(j)' <= spent'[j]
  <2>1. Held(j) <= spent[j] /\ Held(j) \in Nat /\ spent[j] \in Int
    BY <1>6, HeldType DEF IInv, Covered, TypeOK
  <2>2. Held(j)' = Held(j) + (Hold(j, r)' - Hold(j, r))
    BY <1>5, <1>6, <1>12, <1>14, HeldStep
  <2>3. Hold(j, r) = 0 /\ Hold(j, r)' = IF j = i THEN n ELSE 0
    BY <1>5, <1>12, <1>18 DEF Hold
  <2>4. CASE j = i
    <3>1. Held(j)' = Held(j) + n
      BY <2>1, <2>2, <2>3, <2>4, <1>7
    <3> QED
      BY <2>1, <2>4, <3>1, <1>7, <1>8
  <2>5. CASE j # i
    <3>1. Held(j)' = Held(j)
      BY <2>1, <2>2, <2>3, <2>5
    <3> QED
      BY <2>1, <2>5, <3>1, <1>8
  <2> QED
    BY <2>4, <2>5
<1>20. Covered'
  BY <1>19 DEF Covered
<1>21. IInv'
  BY <1>13, <1>14, <1>15, <1>16, <1>17, <1>20 DEF IInv
<1> QED
  BY <1>5, <1>11, <1>21, SameUpgrade

\* A session ends, and the subscription takes the difference.
LEMMA ChargeStep ==
  ASSUME SubscriptionAssumption, IInv, NEW r \in open, NEW t \in TxType, TxOk(t, r), NEW i \in Ids,
         i = record[r].sub, Saved(t) = {i}, NEW d \in Int, record[r].amount + d >= 0,
         Room(t.sub[i], d) \/ d <= 0, PostConsumeDelta(t, d),
         spent' = [spent EXCEPT ![i] = @ + d], open' = open \ {r}, Ends(r), now' = now,
         group' = group, overlooked' = overlooked, record' \in [Requests -> RecordType],
         \A q \in Requests \ {r} : record'[q] = record[q]
  PROVE  IInv' /\ (KeepsUpgrade => KeepsUpgrade')
<1>1. TypeOK /\ r \in Requests /\ r \in Clients /\ now \in Nat
  BY DEF IInv, TypeOK, Clients
<1>2. PICK s : s = t.sub[i]
  OBVIOUS
<1>3. PICK u : u = Max({0, s.used + d})
  OBVIOUS
<1>4. PICK m : m = [s EXCEPT !.used = u]
  OBVIOUS
<1>5. PICK new : new = [j \in Saved(t) |-> [t.sub[j] EXCEPT !.used = Max({0, @ + d})]]
  OBVIOUS
<1>6. Save(t, new) /\ new[i] = m
  BY <1>2, <1>3, <1>4, <1>5 DEF PostConsumeDelta
<1>7. s \in SubType /\ s.used \in Nat /\ s.status \in Alive /\ s.plan \in Plans /\ sub[i].status # "absent"
  <2>1. s \in SubType
    BY <1>2 DEF TxType
  <2> QED
    BY <1>2, <2>1, SubFields DEF TxOk
<1>8. u = (IF s.used + d >= 0 THEN s.used + d ELSE 0) /\ u \in Nat
  BY <1>3, <1>7, MaxOfTwo
<1>9. m \in SubType /\ m.status = s.status /\ m.plan = s.plan /\ m.end = s.end
  BY <1>4, <1>7, <1>8 DEF SubType
<1>10. spent[i] \in Int /\ record[r].amount \in Nat
  BY <1>1 DEF TypeOK, RecordType
<1>11. Hold(i, r) = record[r].amount /\ Hold(i, r) <= Held(i) /\ Held(i) \in Nat /\ Held(i) <= spent[i]
  BY <1>1, HeldType DEF Hold, IInv, Covered
<1>12. ASSUME i \notin raced, sub[i] = s PROVE Fits(m, spent[i] + d, now)
  <2>1. Fits(s, spent[i], now)
    BY <1>12, SubParts
  <2>2. s.used <= spent[i]
    BY <1>7, <2>1 DEF Fits
  <2>3. u <= spent[i] + d /\ (spent[i] + d) - u <= spent[i] - s.used /\ spent[i] + d \in Int
    BY <1>7, <1>8, <1>10, <1>11, <2>2
  <2>4. Plan[s.plan].total > 0 => u <= Plan[s.plan].total
    <3>1. Plan[s.plan].total \in Nat
      BY <1>7, PlanFields
    <3>2. Plan[s.plan].total > 0 => s.used + d <= Plan[s.plan].total
      <4>1. CASE Room(t.sub[i], d)
        BY <1>2, <4>1 DEF Room
      <4>2. CASE d <= 0
        <5>1. Plan[s.plan].total > 0 => s.used <= Plan[s.plan].total
          BY <1>7, <2>1 DEF Fits
        <5> QED
          BY <1>7, <3>1, <4>2, <5>1
      <4> QED
        BY <4>1, <4>2
    <3> QED
      BY <1>7, <1>8, <3>1, <3>2
  <2> QED
    BY <1>1, <1>4, <1>7, <1>8, <1>10, <2>1, <2>3, <2>4, UsedFits
<1>13. \A j \in Saved(t) : new[j] \in SubType /\ Same(t.sub[j], new[j])
  BY <1>2, <1>6, <1>9 DEF Same
<1>14. /\ sub' \in [Ids -> SubType] /\ raced' \subseteq Ids /\ raced \subseteq raced'
       /\ \A j \in Ids : sub'[j].status = "absent" <=> sub[j].status = "absent"
       /\ \A j \in Ids : sub'[j].status \in Alive => sub'[j].plan \in Plans
       /\ \A j \in Saved(t) : sub'[j] = new[j] /\ (j \notin raced' => sub[j] = t.sub[j])
       /\ \A j \in Ids \ Saved(t) : sub'[j] = sub[j]
       /\ \A j \in Ids \ raced' : Same(sub[j], sub'[j])
  BY <1>6, <1>13, SaveEffect
<1>15. /\ spent' \in [Ids -> Int] /\ spent'[i] = spent[i] + d
       /\ \A j \in Ids \ {i} : spent'[j] = spent[j]
  BY <1>1, <1>10 DEF TypeOK
<1>16. tx' \in [Clients -> TxType] /\ TxInv'
  BY <1>1, <1>14, EndsStep
<1>17. TypeOK'
  BY <1>1, <1>14, <1>15, <1>16 DEF TypeOK
<1>18. SubInv'
  <2>1. ASSUME NEW j \in Ids, j \notin raced' PROVE Fits(sub'[j], spent'[j], now)
    <3>1. CASE j = i
      BY <3>1, <1>2, <1>6, <1>12, <1>14, <1>15, <2>1
    <3>2. CASE j # i
      BY <3>2, <1>14, <1>15, <2>1, SubParts
    <3> QED
      BY <3>1, <3>2
  <2> QED
    BY <2>1 DEF SubInv
<1>19. Issued' /\ Planned' /\ Fresh'
  BY <1>7, <1>14, <1>15 DEF IInv, Issued, Planned, Fresh
<1>20. OpenInv'
  BY <1>1, <1>14 DEF IInv, OpenInv, TypeOK
<1>21. ASSUME NEW j \in Ids
       PROVE  Held(j)' <= spent'[j]
  <2>1. Held(j) <= spent[j] /\ Held(j) \in Nat /\ spent[j] \in Int
    BY <1>1, HeldType DEF IInv, Covered, TypeOK
  <2>2. Held(j)' = Held(j) + (Hold(j, r)' - Hold(j, r))
    BY <1>1, <1>17, HeldStep
  <2>3. Hold(j, r)' = 0
    BY DEF Hold
  <2>4. CASE j = i
    <3>1. Held(j)' = Held(j) - record[r].amount
      BY <2>1, <2>2, <2>3, <2>4, <1>10, <1>11
    <3> QED
      BY <2>1, <2>4, <3>1, <1>10, <1>15
  <2>5. CASE j # i
    <3>1. Hold(j, r) = 0
      BY <2>5 DEF Hold
    <3>2. Held(j)' = Held(j)
      BY <2>1, <2>2, <2>3, <3>1
    <3> QED
      BY <2>1, <2>5, <3>2, <1>15
  <2> QED
    BY <2>4, <2>5
<1>22. Covered'
  BY <1>21 DEF Covered
<1>23. IInv'
  BY <1>16, <1>17, <1>18, <1>19, <1>20, <1>22 DEF IInv
<1> QED
  BY <1>14, <1>23, SameUpgrade

\* A settlement is saved, be it after a reset.
LEMMA SettleStep ==
  ASSUME SubscriptionAssumption, IInv, NEW r \in Requests, SettleRequest(r)
  PROVE  IInv' /\ (KeepsUpgrade => KeepsUpgrade')
<1>1. PICK t : t = tx[r]
  OBVIOUS
<1>2. PICK i : i = t.id
  OBVIOUS
<1>3. PICK d : d = t.amount
  OBVIOUS
<1>4. /\ t.op = "settle" /\ PostConsumeDelta(t, d) /\ spent' = [spent EXCEPT ![i] = @ + d]
      /\ open' = open \ {r} /\ Ends(r) /\ now' = now /\ group' = group /\ record' = record
      /\ overlooked' = overlooked /\ r \in Clients
  BY <1>1, <1>2, <1>3 DEF SettleRequest, Clients
<1>5. t \in TxType /\ TxOk(t, r) /\ d \in Int
  BY <1>1, <1>3, <1>4, TxParts
<1>6. /\ r \in open /\ i = record[r].sub /\ Saved(t) = {i}
      /\ record[r].amount + d >= 0 /\ Room(t.sub[i], d)
  BY <1>2, <1>3, <1>4, <1>5 DEF TxOk
<1>7. i \in Ids /\ record' \in [Requests -> RecordType]
  BY <1>4, <1>6 DEF IInv, OpenInv, TypeOK
<1> QED
  BY <1>4, <1>5, <1>6, <1>7, ChargeStep

\* A refund is saved, be it after a reset.
LEMMA RefundStep ==
  ASSUME SubscriptionAssumption, IInv, NEW r \in Requests, RefundRequest(r)
  PROVE  IInv' /\ (KeepsUpgrade => KeepsUpgrade')
<1>1. PICK t : t = tx[r]
  OBVIOUS
<1>2. PICK i : i = t.id
  OBVIOUS
<1>3. PICK d : d = -t.amount
  OBVIOUS
<1>4. /\ t.op = "refund" /\ PostConsumeDelta(t, d)
      /\ record' = [record EXCEPT ![r].status = "refunded"]
      /\ spent' = [spent EXCEPT ![i] = @ - t.amount]
      /\ open' = open \ {r} /\ Ends(r) /\ now' = now /\ group' = group
      /\ overlooked' = overlooked /\ r \in Clients
  BY <1>1, <1>2, <1>3 DEF RefundRequest, Clients
<1>5. t \in TxType /\ TxOk(t, r) /\ t.amount \in Int /\ d \in Int
  BY <1>1, <1>3, <1>4, TxParts
<1>6. r \in open /\ i = record[r].sub /\ Saved(t) = {i} /\ t.amount = record[r].amount
  BY <1>2, <1>4, <1>5 DEF TxOk
<1>7. /\ i \in Ids /\ record \in [Requests -> RecordType] /\ record[r].amount \in Nat
      /\ spent \in [Ids -> Int]
  BY <1>6 DEF IInv, OpenInv, TypeOK, RecordType
<1>8. /\ record[r].amount + d >= 0 /\ d <= 0 /\ spent' = [spent EXCEPT ![i] = @ + d]
  <2>1. PICK n : n = t.amount
    OBVIOUS
  <2>2. n \in Nat /\ n = record[r].amount /\ d = -n
    BY <1>3, <1>6, <1>7, <2>1
  <2>3. spent[i] \in Int /\ spent' = [spent EXCEPT ![i] = spent[i] - n]
    BY <1>4, <1>7, <2>1
  <2>4. spent[i] - n = spent[i] + d /\ record[r].amount + d >= 0 /\ d <= 0
    BY <2>2, <2>3
  <2> QED
    BY <2>3, <2>4
<1>9. record' \in [Requests -> RecordType] /\ \A q \in Requests \ {r} : record'[q] = record[q]
  BY <1>4, <1>7 DEF RecordType
<1> QED
  BY <1>4, <1>5, <1>6, <1>7, <1>8, <1>9, ChargeStep

\* A session ends, and its subscription refuses or is gone.
LEMMA CloseStep ==
  ASSUME SubscriptionAssumption, IInv, NEW r \in Requests, NEW d, CloseRefused(r, d)
  PROVE  IInv' /\ (KeepsUpgrade => KeepsUpgrade')
<1>1. /\ r \in open /\ tx[r] = NoTx /\ open' = open \ {r} /\ now' = now /\ group' = group
      /\ sub' = sub /\ record' = record /\ tx' = tx /\ spent' = spent /\ raced' = raced
      /\ overlooked' = overlooked /\ r \in Clients
  BY DEF CloseRefused, history, Clients
<1>2. TypeOK /\ TypeOK'
  BY <1>1 DEF IInv, TypeOK
<1>3. SubInv' /\ Issued' /\ Planned' /\ Fresh' /\ OpenInv'
  BY <1>1 DEF IInv, SubInv, Issued, Planned, Fresh, OpenInv
<1>4. Ends(r)
  BY <1>1, <1>2 DEF Ends, TypeOK
<1>5. TxInv'
  BY <1>1, <1>4, EndsStep
<1>6. ASSUME NEW j \in Ids
      PROVE  Held(j)' <= spent'[j]
  <2>1. /\ Held(j) <= spent[j] /\ Held(j) \in Nat /\ spent[j] \in Int
        /\ Hold(j, r) \in Nat /\ Hold(j, r) <= Held(j)
    BY <1>2, HeldType DEF IInv, Covered, TypeOK
  <2>2. Held(j)' = Held(j) + (Hold(j, r)' - Hold(j, r))
    BY <1>1, <1>2, HeldStep
  <2>3. Hold(j, r)' = 0
    BY <1>1 DEF Hold
  <2>4. Held(j)' = Held(j) - Hold(j, r)
    BY <2>1, <2>2, <2>3
  <2> QED
    BY <1>1, <2>1, <2>4
<1>7. Covered'
  BY <1>6 DEF Covered
<1>8. KeepsUpgrade => KeepsUpgrade'
  BY <1>1 DEF KeepsUpgrade, UpgradesAt, GroupOf
<1> QED
  BY <1>2, <1>3, <1>5, <1>7, <1>8 DEF IInv

-----------------------------------------------------------------------------
(* Subscriptions end.                                                      *)

\* The group a transaction sets is a group; upgrades it has not seen are known.
LEMMA SetGroupType ==
  ASSUME IInv, NEW t \in TxType, SetGroup(t)
  PROVE  group' \in Groups /\ overlooked' \subseteq Ids /\ overlooked \subseteq overlooked'
<1>1. t.group \in {NoGroup} \union Groups /\ group \in Groups /\ overlooked \subseteq Ids
  BY DEF TxType, IInv, TypeOK
<1>2. UpgradesAt(t.at) \subseteq Ids
  BY DEF UpgradesAt
<1> QED
  BY <1>1, <1>2 DEF SetGroup

\* Nobody becomes active, and the upgrades that remain were seen, or are known not to be.
LEMMA EndsUpgrade ==
  ASSUME IInv, KeepsUpgrade, NEW t \in TxType, t.at <= now, SetGroup(t), now' = now,
         raced \subseteq raced',
         \A i \in Ids : sub'[i].status = "active" => sub'[i] = sub[i],
         t.group # NoGroup => \A i \in t.seen : sub'[i].status # "active"
  PROVE  KeepsUpgrade'
<1>1. \A i \in Ids : i \in UpgradesAt(now)' => i \in UpgradesAt(now)
  BY DEF UpgradesAt, GroupOf
<1>2. \A i \in UpgradesAt(now)' : i \in Ids /\ sub'[i].status = "active"
  BY DEF UpgradesAt
<1>3. CASE t.group = NoGroup
  <2>1. group' = group /\ overlooked' = overlooked
    BY <1>3 DEF SetGroup
  <2> QED
    BY <1>1, <1>2, <2>1 DEF KeepsUpgrade
<1>4. CASE t.group # NoGroup
  <2>1. overlooked' = overlooked \union (UpgradesAt(t.at) \ t.seen)
    BY <1>4 DEF SetGroup
  <2>2. now \in Nat /\ t.at \in Nat /\ \A i \in Ids : sub[i].end \in Nat
    BY DEF IInv, TypeOK, SubType, TxType
  <2>3. \A i \in UpgradesAt(now) : i \in UpgradesAt(t.at)
    <3>1. \A i \in Ids : sub[i].end > now => sub[i].end > t.at
      BY <2>2
    <3> QED
      BY <3>1 DEF UpgradesAt
  <2>4. \A i \in UpgradesAt(now)' : i \in overlooked'
    BY <1>1, <1>2, <1>4, <2>1, <2>3
  <2> QED
    BY <2>4 DEF KeepsUpgrade
<1> QED
  BY <1>3, <1>4

\* The administrator invalidates a subscription.
LEMMA InvalidateStep ==
  ASSUME SubscriptionAssumption, IInv, AdminInvalidateUserSubscription
  PROVE  IInv' /\ (KeepsUpgrade => KeepsUpgrade')
<1>1. PICK t : t = tx["admin"]
  OBVIOUS
<1>2. PICK i : i = t.id
  OBVIOUS
<1>3. PICK e : e = t.at
  OBVIOUS
<1>4. /\ t.op = "invalidate"
      /\ sub' = IF Exists(i) THEN [sub EXCEPT ![i].status = "cancelled", ![i].end = e] ELSE sub
      /\ raced' = IF Base(sub[i]) <= e THEN raced ELSE raced \union {i}
      /\ SetGroup(t) /\ Ends("admin") /\ "admin" \in Clients
      /\ now' = now /\ record' = record /\ open' = open /\ spent' = spent
  BY <1>1, <1>2, <1>3 DEF AdminInvalidateUserSubscription, Clients
<1>5. t \in TxType /\ TxOk(t, "admin") /\ e \in Nat /\ sub \in [Ids -> SubType] /\ raced \subseteq Ids
  BY <1>1, <1>3, <1>4, TxParts DEF IInv, TypeOK
<1>6. /\ i \in Ids /\ sub[i].status # "absent" /\ t.at <= now
      /\ t.group # NoGroup => t.seen \subseteq {i}
  BY <1>2, <1>4, <1>5 DEF TxOk
<1>7. group' \in Groups /\ overlooked' \subseteq Ids
  BY <1>4, <1>5, SetGroupType
<1>8. raced' \subseteq Ids /\ raced \subseteq raced' /\ (i \notin raced' => Base(sub[i]) <= e)
  BY <1>4, <1>5, <1>6
<1>9. CASE Exists(i)
  <2> DEFINE m == [sub[i] EXCEPT !.status = "cancelled", !.end = e]
  <2>1. sub' = [sub EXCEPT ![i] = m]
    BY <1>4, <1>5, <1>9
  <2>2. m \in SubType /\ m.status = "cancelled" /\ m.plan = sub[i].plan
    BY <1>5, <1>6 DEF SubType
  <2>3. ASSUME i \notin raced' PROVE Fits(m, spent[i], now)
    <3>1. /\ Fits(sub[i], spent[i], now) /\ sub[i] \in SubType /\ now \in Nat
          /\ sub[i].status \in Alive /\ Base(sub[i]) <= e
      BY <1>6, <1>8, <1>9, <2>3, SubParts
    <3> QED
      BY <1>5, <3>1, EndedFits
  <2> HIDE DEF m
  <2>4. sub' \in [Ids -> SubType] /\ sub'[i] = m /\ \A j \in Ids \ {i} : sub'[j] = sub[j]
    BY <1>5, <1>6, <2>1, <2>2
  <2>5. ASSUME NEW j \in Ids
        PROVE  /\ sub'[j].status = "absent" <=> sub[j].status = "absent"
               /\ sub'[j].status \in Alive => sub'[j].plan \in Plans
               /\ j \notin raced' => Fits(sub'[j], spent[j], now)
    <3>1. CASE j = i
      BY <3>1, <1>6, <1>9, <2>2, <2>3, <2>4, SubParts
    <3>2. CASE j # i
      BY <3>2, <1>8, <2>4, SubParts
    <3> QED
      BY <3>1, <3>2
  <2>6. IInv'
    BY <1>4, <1>7, <1>8, <2>4, <2>5, RowsStep
  <2>7. \A j \in Ids : sub'[j].status = "active" => sub'[j] = sub[j]
    BY <2>2, <2>4
  <2>8. t.group # NoGroup => \A j \in t.seen : sub'[j].status # "active"
    BY <1>6, <2>2, <2>4
  <2> QED
    BY <1>4, <1>5, <1>6, <1>8, <2>6, <2>7, <2>8, EndsUpgrade
<1>10. CASE ~Exists(i)
  <2>1. sub' = sub /\ sub[i].status # "active"
    BY <1>4, <1>10 DEF Exists
  <2>2. \A j \in Ids : /\ sub'[j].status = "absent" <=> sub[j].status = "absent"
                       /\ sub'[j].status \in Alive => sub'[j].plan \in Plans
                       /\ j \notin raced' => Fits(sub'[j], spent[j], now)
    BY <1>8, <2>1, SubParts
  <2>3. IInv'
    BY <1>4, <1>5, <1>7, <1>8, <2>1, <2>2, RowsStep
  <2>4. t.group # NoGroup => \A j \in t.seen : sub'[j].status # "active"
    BY <1>6, <2>1
  <2> QED
    BY <1>4, <1>5, <1>6, <1>8, <2>1, <2>3, <2>4, EndsUpgrade
<1> QED
  BY <1>9, <1>10

\* The administrator deletes a subscription.
LEMMA DeleteStep ==
  ASSUME SubscriptionAssumption, IInv, AdminDeleteUserSubscription
  PROVE  IInv' /\ (KeepsUpgrade => KeepsUpgrade')
<1>1. PICK t : t = tx["admin"]
  OBVIOUS
<1>2. PICK i : i = t.id
  OBVIOUS
<1>3. PICK m : m = [NoSub EXCEPT !.status = "deleted"]
  OBVIOUS
<1>4. /\ t.op = "delete" /\ sub' = [sub EXCEPT ![i] = m]
      /\ SetGroup(t) /\ Ends("admin") /\ "admin" \in Clients
      /\ now' = now /\ record' = record /\ open' = open /\ spent' = spent /\ raced' = raced
  BY <1>1, <1>2, <1>3 DEF AdminDeleteUserSubscription, Clients
<1>5. t \in TxType /\ TxOk(t, "admin") /\ sub \in [Ids -> SubType] /\ raced \subseteq Ids
  BY <1>1, <1>4, TxParts DEF IInv, TypeOK
<1>6. /\ i \in Ids /\ sub[i].status # "absent" /\ t.at <= now
      /\ t.group # NoGroup => t.seen \subseteq {i}
  BY <1>2, <1>4, <1>5 DEF TxOk
<1>7. group' \in Groups /\ overlooked' \subseteq Ids
  BY <1>4, <1>5, SetGroupType
<1>8. m \in SubType /\ m.status = "deleted"
  BY <1>3 DEF NoSub, SubType
<1>9. sub' \in [Ids -> SubType] /\ sub'[i] = m /\ \A j \in Ids \ {i} : sub'[j] = sub[j]
  BY <1>4, <1>5, <1>6, <1>8
<1>10. ASSUME NEW j \in Ids
       PROVE  /\ sub'[j].status = "absent" <=> sub[j].status = "absent"
              /\ sub'[j].status \in Alive => sub'[j].plan \in Plans
              /\ j \notin raced' => Fits(sub'[j], spent[j], now)
  <2>1. CASE j = i
    BY <2>1, <1>6, <1>8, <1>9 DEF Fits, Alive
  <2>2. CASE j # i
    BY <2>2, <1>4, <1>9, SubParts
  <2> QED
    BY <2>1, <2>2
<1>11. IInv'
  BY <1>4, <1>5, <1>7, <1>9, <1>10, RowsStep
<1>12. /\ \A j \in Ids : sub'[j].status = "active" => sub'[j] = sub[j]
       /\ t.group # NoGroup => \A j \in t.seen : sub'[j].status # "active"
       /\ raced \subseteq raced'
  BY <1>4, <1>6, <1>8, <1>9
<1> QED
  BY <1>4, <1>5, <1>6, <1>11, <1>12, EndsUpgrade

\* The subscriptions that were due expire together.
LEMMA ExpireStep ==
  ASSUME SubscriptionAssumption, IInv, ExpireDueSubscriptions
  PROVE  IInv' /\ (KeepsUpgrade => KeepsUpgrade')
<1>1. PICK t : t = tx["task"]
  OBVIOUS
<1> DEFINE Ended(i) == sub[i].status = "active" /\ sub[i].end <= t.at
<1> DEFINE E(i) == IF Ended(i) THEN [sub[i] EXCEPT !.status = "expired"] ELSE sub[i]
<1>2. /\ t.op = "expire" /\ sub' = [i \in Ids |-> E(i)]
      /\ SetGroup(t) /\ Ends("task") /\ "task" \in Clients
      /\ now' = now /\ record' = record /\ open' = open /\ spent' = spent /\ raced' = raced
  BY <1>1 DEF ExpireDueSubscriptions, Clients
<1>3. t \in TxType /\ TxOk(t, "task") /\ raced \subseteq Ids
  BY <1>1, <1>2, TxParts DEF IInv, TypeOK
<1>4. t.at <= now /\ (t.group # NoGroup => t.seen = {})
  BY <1>2, <1>3 DEF TxOk
<1>5. group' \in Groups /\ overlooked' \subseteq Ids
  BY <1>2, <1>3, SetGroupType
<1>6. ASSUME NEW j \in Ids
      PROVE  /\ E(j) \in SubType /\ (E(j).status = "active" => E(j) = sub[j])
             /\ E(j).status = "absent" <=> sub[j].status = "absent"
             /\ E(j).status \in Alive => E(j).plan \in Plans
             /\ j \notin raced => Fits(E(j), spent[j], now)
  <2>1. CASE Ended(j)
    <3> DEFINE m == [sub[j] EXCEPT !.status = "expired"]
    <3>1. /\ sub[j] \in SubType /\ sub[j].status = "active" /\ sub[j].plan \in Plans /\ now \in Nat
          /\ j \notin raced => Fits(sub[j], spent[j], now)
      BY <2>1, SubParts DEF Alive
    <3>2. m \in SubType /\ m.status = "expired" /\ m.plan = sub[j].plan
      BY <3>1 DEF SubType
    <3>3. ASSUME j \notin raced PROVE Fits(m, spent[j], now)
      <4>1. Fits(sub[j], spent[j], now) /\ sub[j].status \in Alive
        BY <3>1, <3>3 DEF Alive
      <4>2. PICK e : e = sub[j].end
        OBVIOUS
      <4>3. e \in Nat /\ Base(sub[j]) <= e
        BY <3>1, <4>1, <4>2, SubFields DEF Fits
      <4> QED
        BY <3>1, <4>1, <4>3, EndedFits
    <3>4. E(j) = m
      BY <2>1
    <3> HIDE DEF m, E
    <3> QED
      BY <3>1, <3>2, <3>3, <3>4
  <2>2. CASE ~Ended(j)
    BY <2>2, SubParts
  <2> QED
    BY <2>1, <2>2
<1> HIDE DEF E
<1>7. sub' \in [Ids -> SubType] /\ \A j \in Ids : sub'[j] = E(j)
  BY <1>2, <1>6
<1>8. IInv'
  BY <1>2, <1>3, <1>5, <1>6, <1>7, RowsStep
<1>9. /\ \A j \in Ids : sub'[j].status = "active" => sub'[j] = sub[j]
      /\ t.group # NoGroup => \A j \in t.seen : sub'[j].status # "active"
      /\ raced \subseteq raced'
  BY <1>2, <1>4, <1>6, <1>7
<1> QED
  BY <1>2, <1>3, <1>4, <1>8, <1>9, EndsUpgrade

-----------------------------------------------------------------------------
(* A new row: its id is the first that was not given.                      *)

\* The next id is that of a row that is not there.
LEMMA NextId ==
  ASSUME SubscriptionAssumption, TypeOK, Issued, NEW i \in Ids,
         i = Cardinality({j \in Ids : sub[j].status # "absent"}) + 1
  PROVE  sub[i].status = "absent" /\ \A j \in Ids : j < i => sub[j].status # "absent"
<1> DEFINE S == {j \in Ids : sub[j].status # "absent"}
<1>1. Ids \subseteq Nat /\ IsFiniteSet(Ids) /\ \A j \in Ids : \A k \in 1 .. j : k \in Ids
  <2>1. IsFiniteSet(1 .. MaxSubs)
    BY FS_Interval DEF SubscriptionAssumption
  <2> QED
    BY <2>1 DEF Ids, SubscriptionAssumption
<1>2. IsFiniteSet(S) /\ Cardinality(S) \in Nat /\ i = Cardinality(S) + 1
  BY <1>1, FS_Subset, FS_CardinalityType
<1>3. sub[i].status = "absent"
  <2> SUFFICES ASSUME i \in S PROVE FALSE
    OBVIOUS
  <2> DEFINE J == 1 .. i
  <2>1. ASSUME NEW k \in J PROVE k \in S
    <3>1. k \in Ids /\ (k = i \/ k < i) /\ sub[i].status # "absent"
      BY <1>1, <2>1
    <3> QED
      BY <3>1 DEF Issued
  <2>2. IsFiniteSet(J) /\ Cardinality(J) = i
    BY <1>1, FS_Interval
  <2> HIDE DEF S, J
  <2>3. J \in SUBSET S
    BY <2>1
  <2>4. Cardinality(J) <= Cardinality(S)
    BY <1>2, <2>3, FS_Subset
  <2> QED
    BY <1>2, <2>2, <2>4
<1>4. ASSUME NEW j \in Ids, j < i, sub[j].status = "absent"
      PROVE  FALSE
  <2> DEFINE J == 1 .. (j - 1)
  <2>1. S \subseteq J
    <3>1. ASSUME NEW k \in S PROVE k \in 1 .. (j - 1)
      <4>1. k \in Nat /\ k # j /\ ~(j < k) /\ k >= 1 /\ j \in Nat
        BY <1>4, <3>1, <1>1 DEF Issued, Ids
      <4> QED
        BY <4>1
    <3> QED
      BY <3>1
  <2>2. IsFiniteSet(J) /\ Cardinality(J) = j - 1
    <3>1. j \in Nat /\ j >= 1
      BY DEF Ids, SubscriptionAssumption
    <3>2. PICK k \in Nat : k = j - 1
      BY <3>1
    <3>3. IsFiniteSet(1 .. k) /\ Cardinality(1 .. k) = k
      BY <3>2, FS_Interval
    <3> QED
      BY <3>2, <3>3
  <2> HIDE DEF S, J
  <2>3. Cardinality(S) <= Cardinality(J)
    BY <2>1, <2>2, FS_Subset
  <2> QED
    BY <1>1, <1>2, <1>4, <2>2, <2>3
<1> QED
  BY <1>3, <1>4

\* No plan upgrades to the group the user starts in.
Upgrades == \A p \in Plans : Plan[p].group # BaseGroup

\* A new row fits, as nothing is spent; the user is upgraded, or was already.
LEMMA CreateStep ==
  ASSUME SubscriptionAssumption, IInv, CreateUserSubscription
  PROVE  IInv' /\ (Upgrades /\ KeepsUpgrade => KeepsUpgrade')
<1>1. PICK t : t = tx["order"]
  OBVIOUS
<1>2. PICK p : p = t.plan
  OBVIOUS
<1>3. PICK at : at = t.at
  OBVIOUS
<1>4. PICK g : g = t.group
  OBVIOUS
<1>5. PICK i : i = Cardinality({j \in Ids : sub[j].status # "absent"}) + 1
  OBVIOUS
<1> DEFINE plan == Plan[p]
<1> DEFINE changes == plan.group \notin {NoGroup, g}
<1> DEFINE end == at + plan.duration
<1> DEFINE next == NextReset(at, plan, end)
<1> DEFINE last == IF next > 0 THEN at ELSE 0
<1> DEFINE prev == IF changes THEN g ELSE NoGroup
<1> DEFINE m == [status |-> "active", plan |-> p, start |-> at, end |-> end, used |-> 0,
                 last |-> last, next |-> next, prev |-> prev]
<1>6. /\ t.op = "create" /\ i \in Ids /\ sub' = [sub EXCEPT ![i] = m]
      /\ group' = IF changes THEN plan.group ELSE group
      /\ overlooked' = IF plan.group = g /\ group # g THEN overlooked \union {i} ELSE overlooked
      /\ Ends("order") /\ "order" \in Clients
      /\ now' = now /\ record' = record /\ open' = open /\ spent' = spent /\ raced' = raced
  BY <1>1, <1>2, <1>3, <1>4, <1>5 DEF CreateUserSubscription, Clients
<1>7. t \in TxType /\ TxOk(t, "order") /\ TypeOK /\ Issued /\ now \in Nat /\ at \in Nat
  BY <1>1, <1>3, <1>6, TxParts DEF IInv, TypeOK
<1>8. p \in Plans /\ g \in Groups /\ at <= now /\ plan.group \in Groups
  BY <1>2, <1>3, <1>4, <1>6, <1>7 DEF TxOk, Groups
<1>9. sub[i].status = "absent" /\ \A j \in Ids : j < i => sub[j].status # "absent"
  BY <1>5, <1>6, <1>7, NextId
<1>10. plan \in PlanType /\ end \in Nat /\ at <= end
  BY <1>7, <1>8, PlanFields
<1>11. next \in Nat
  BY <1>7, <1>10, NextResetType
<1>12. prev \in {NoGroup} \union Groups
  BY <1>8
<1> HIDE DEF end, next, prev
<1>13. last \in Nat /\ last \in {0, at}
  BY <1>7, <1>11
<1> HIDE DEF last
<1>14. /\ m \in SubType /\ m.status = "active" /\ m.plan = p /\ m.start = at /\ m.end = end
       /\ m.used = 0 /\ m.last = last
  BY <1>7, <1>8, <1>10, <1>11, <1>12, <1>13 DEF SubType
<1> HIDE DEF m
<1>15. spent[i] = 0
  BY <1>6, <1>9 DEF IInv, Fresh
<1>16. Base(m) = at
  BY <1>7, <1>13, <1>14 DEF Base
<1>17. Fits(m, 0, now)
  <2>1. OnGrid(plan, at, at)
    <3>1. plan.period \in Nat /\ at - at = 0
      BY <1>7, <1>8, PlanFields
    <3>2. plan.period > 0 => 0 % plan.period = 0
      BY <3>1
    <3> QED
      BY <3>1, <3>2 DEF OnGrid
  <2>2. Passed(m) \in Nat /\ plan.total \in Nat
    BY <1>8, <1>14, PassedType, PlanFields
  <2>3. plan.total * Passed(m) \in Nat
    BY <2>2, Products
  <2>4. 0 <= 0 + plan.total * Passed(m) /\ 0 <= plan.total
    BY <2>2, <2>3
  <2>5. at <= at
    BY <1>7
  <2> QED
    BY <1>8, <1>10, <1>14, <1>16, <2>1, <2>4, <2>5 DEF Fits
<1>18. sub' \in [Ids -> SubType] /\ sub'[i] = m /\ \A j \in Ids \ {i} : sub'[j] = sub[j]
  BY <1>6, <1>7, <1>14 DEF TypeOK
<1>19. tx' \in [Clients -> TxType] /\ TxInv'
  <2>1. \A j \in Ids : sub[j].status # "absent" => sub'[j].status # "absent"
    BY <1>14, <1>18
  <2> QED
    BY <1>6, <2>1, EndsStep
<1>20. TypeOK'
  <2>1. group' \in Groups /\ overlooked' \subseteq Ids
    BY <1>6, <1>7, <1>8 DEF TypeOK
  <2> QED
    BY <1>6, <1>7, <1>18, <1>19, <2>1 DEF TypeOK
<1>21. Issued'
  <2> SUFFICES ASSUME NEW k \in Ids, NEW j \in Ids, j < k, sub'[k].status # "absent"
               PROVE  sub'[j].status # "absent"
    BY DEF Issued
  <2>1. CASE j = i
    BY <2>1, <1>14, <1>18
  <2>2. CASE j # i /\ k = i
    BY <2>2, <1>9, <1>18
  <2>3. CASE j # i /\ k # i
    BY <2>3, <1>7, <1>18 DEF Issued
  <2> QED
    BY <2>1, <2>2, <2>3
<1>22. SubInv'
  <2>1. \A j \in Ids : j \notin raced => Fits(sub'[j], spent[j], now)
    BY <1>15, <1>17, <1>18, SubParts
  <2> QED
    BY <1>6, <2>1 DEF SubInv
<1>23. Planned' /\ Fresh'
  BY <1>6, <1>8, <1>14, <1>18 DEF IInv, Planned, Fresh
<1>24. OpenInv'
  BY <1>6, <1>9, <1>14, <1>18 DEF IInv, OpenInv
<1>25. \A j \in Ids : Held(j)' = Held(j)
  BY <1>6, HeldSame
<1>26. Covered'
  BY <1>6, <1>25 DEF IInv, Covered
<1>27. IInv'
  BY <1>19, <1>20, <1>21, <1>22, <1>23, <1>24, <1>26 DEF IInv
<1>28. ASSUME Upgrades, KeepsUpgrade, NEW j \in UpgradesAt(now)', j \notin raced', j \notin overlooked'
       PROVE  group' # BaseGroup
  <2>1. j \in Ids /\ plan.group # BaseGroup
    BY <1>8, <1>28 DEF UpgradesAt, Upgrades
  <2>2. CASE j = i
    <3>1. plan.group # NoGroup
      BY <1>14, <1>18, <1>28, <2>2 DEF UpgradesAt, GroupOf
    <3>2. changes \/ (plan.group = g /\ group = g)
      BY <1>6, <1>28, <2>2, <3>1
    <3> QED
      BY <1>6, <2>1, <3>2
  <2>3. CASE j # i
    <3>1. j \in UpgradesAt(now) /\ j \notin raced /\ j \notin overlooked
      BY <1>6, <1>18, <1>28, <2>1, <2>3 DEF UpgradesAt, GroupOf
    <3>2. group # BaseGroup
      BY <1>28, <3>1 DEF KeepsUpgrade
    <3> QED
      BY <1>6, <2>1, <3>2
  <2> QED
    BY <2>2, <2>3
<1> QED
  BY <1>27, <1>28 DEF KeepsUpgrade

\* Time passes: every row still fits, and no upgrade comes.
LEMMA TickStep ==
  ASSUME SubscriptionAssumption, IInv, Tick
  PROVE  IInv' /\ (KeepsUpgrade => KeepsUpgrade')
<1>1. /\ now' = now + 1 /\ group' = group /\ sub' = sub /\ record' = record /\ open' = open
      /\ tx' = tx /\ spent' = spent /\ raced' = raced /\ overlooked' = overlooked
      /\ now \in Nat /\ now' \in Nat
  BY DEF Tick, IInv, TypeOK, rows, history
<1>2. TypeOK' /\ Issued' /\ Planned' /\ Fresh' /\ OpenInv'
  BY <1>1 DEF IInv, TypeOK, Issued, Planned, Fresh, OpenInv
<1>3. now <= now' /\ open \subseteq Requests
  BY <1>1 DEF IInv, TypeOK
<1>4. \A j \in Ids : j \notin raced => Fits(sub[j], spent[j], now')
  BY <1>1, <1>3, SubParts, LaterFits
<1>5. SubInv'
  BY <1>1, <1>4 DEF SubInv
<1>6. \A j \in Ids : Held(j)' = Held(j)
  BY <1>1, HeldSame
<1>7. Covered'
  BY <1>1, <1>6 DEF IInv, Covered
<1>8. ASSUME NEW c \in Clients PROVE TxOk(tx[c], c)'
  <2>1. PICK u : u = tx[c]
    OBVIOUS
  <2>2. u \in TxType /\ TxOk(u, c) /\ tx'[c] = u
    BY <1>1, <2>1, TxParts
  <2>3. TxOk(u, c)'
    BY <1>1, <1>3, <2>2, TxStays
  <2> QED
    BY <2>2, <2>3
<1>9. TxInv'
  BY <1>8 DEF TxInv
<1>10. \A j \in Ids : sub[j].end > now' => sub[j].end > now
  <2>1. \A j \in Ids : sub[j].end \in Nat
    BY DEF IInv, TypeOK, SubType
  <2> QED
    BY <1>1, <2>1
<1>11. UpgradesAt(now)' \subseteq UpgradesAt(now)
  BY <1>1, <1>10 DEF UpgradesAt, GroupOf
<1>12. KeepsUpgrade => KeepsUpgrade'
  BY <1>1, <1>11 DEF KeepsUpgrade
<1> QED
  BY <1>2, <1>5, <1>7, <1>9, <1>12 DEF IInv

-----------------------------------------------------------------------------
(* The theorems.                                                           *)

\* At first there is no subscription, and no transaction.
LEMMA InitIInv ==
  ASSUME SubscriptionAssumption, Init
  PROVE  IInv
<1>1. NoSub \in SubType /\ NoSub.status = "absent"
  BY DEF NoSub, SubType
<1>2. NoRecord \in RecordType
  BY DEF NoRecord, RecordType
<1>3. now \in Nat /\ NoTx \in TxType
  BY NoTxOk DEF Init
<1>4. TypeOK
  <2>1. sub \in [Ids -> SubType] /\ record \in [Requests -> RecordType]
    BY <1>1, <1>2 DEF Init
  <2>2. tx \in [Clients -> TxType]
    BY <1>3 DEF Init
  <2> QED
    BY <1>3, <2>1, <2>2 DEF Init, TypeOK, Groups
<1>5. \A i \in Ids : sub[i].status = "absent" /\ spent[i] = 0
  BY <1>1 DEF Init
<1>6. Issued /\ Planned /\ Fresh /\ OpenInv
  BY <1>5 DEF Issued, Planned, Fresh, OpenInv, Init, Alive
<1>7. SubInv
  BY <1>5 DEF SubInv, Fits, Alive
<1>8. Covered
  <2> SUFFICES ASSUME NEW i \in Ids PROVE Held(i) <= spent[i]
    BY DEF Covered
  <2>1. \A r \in Requests : Hold(i, r) = 0
    BY DEF Hold, Init
  <2>2. holds(i) \in [Requests -> Int] /\ \A r \in Requests : holds(i)[r] = 0
    BY <2>1 DEF holds
  <2>3. SumFunction(holds(i)) = 0
    BY <2>2, SumZero DEF SubscriptionAssumption
  <2> QED
    BY <1>5, <2>3 DEF Held
<1>9. TxInv
  <2> SUFFICES ASSUME NEW c \in Clients PROVE TxOk(tx[c], c)
    BY DEF TxInv
  <2>1. tx[c] = NoTx
    BY DEF Init
  <2> QED
    BY <1>3, <2>1, NoTxOk
<1> QED
  BY <1>4, <1>6, <1>7, <1>8, <1>9 DEF IInv

\* Every commit keeps the invariant.
LEMMA CommitStep ==
  ASSUME SubscriptionAssumption, IInv, NEW c \in Clients, Commit(c)
  PROVE  IInv' /\ (Upgrades /\ KeepsUpgrade => KeepsUpgrade')
<1>1. CASE CreateUserSubscription
  BY <1>1, CreateStep
<1>2. CASE AdminInvalidateUserSubscription
  BY <1>2, InvalidateStep
<1>3. CASE AdminDeleteUserSubscription
  BY <1>3, DeleteStep
<1>4. CASE ExpireDueSubscriptions
  BY <1>4, ExpireStep
<1>5. CASE ResetDueSubscription
  BY <1>5, ResetStep
<1>6. CASE c \in Requests /\ PreConsumeUserSubscription(c)
  BY <1>6, PreConsumeStep
<1>7. CASE c \in Requests /\ SettleRequest(c)
  BY <1>7, SettleStep
<1>8. CASE c \in Requests /\ RefundRequest(c)
  BY <1>8, RefundStep
<1> QED
  BY <1>1, <1>2, <1>3, <1>4, <1>5, <1>6, <1>7, <1>8 DEF Commit

\* Every action does.
LEMMA NextIInv ==
  ASSUME SubscriptionAssumption, IInv, [Next]_vars
  PROVE  IInv' /\ (Upgrades /\ KeepsUpgrade => KeepsUpgrade')
<1>1. ASSUME NEW p \in Plans, CreateReads(p) PROVE IInv' /\ (KeepsUpgrade => KeepsUpgrade')
  BY <1>1, CreateBegins
<1>2. ASSUME NEW i \in Ids, EndReads("invalidate", i) \/ EndReads("delete", i)
      PROVE  IInv' /\ (KeepsUpgrade => KeepsUpgrade')
  BY <1>2, EndBegins
<1>3. ASSUME NEW i \in Ids, ResetReads(i) PROVE IInv' /\ (KeepsUpgrade => KeepsUpgrade')
  BY <1>3, ResetBegins
<1>4. ASSUME ExpireReads PROVE IInv' /\ (KeepsUpgrade => KeepsUpgrade')
  BY <1>4, ExpireBegins
<1>5. ASSUME NEW r \in Requests, NEW n \in Amounts, PreConsumeReads(r, n)
      PROVE  IInv' /\ (KeepsUpgrade => KeepsUpgrade')
  BY <1>5, PreConsumeBegins
<1>6. ASSUME NEW r \in Requests, NEW d \in Deltas, SettleReads(r, d)
      PROVE  IInv' /\ (KeepsUpgrade => KeepsUpgrade')
  BY <1>6, SettleBegins
<1>7. ASSUME NEW r \in Requests, NEW d \in Deltas, CloseRefused(r, d)
      PROVE  IInv' /\ (KeepsUpgrade => KeepsUpgrade')
  BY <1>7, CloseStep
<1>8. ASSUME NEW r \in Requests, RefundReads(r) PROVE IInv' /\ (KeepsUpgrade => KeepsUpgrade')
  BY <1>8, RefundBegins
<1>9. ASSUME NEW c \in Clients, Commit(c)
      PROVE  IInv' /\ (Upgrades /\ KeepsUpgrade => KeepsUpgrade')
  BY <1>9, CommitStep
<1>10. CASE Tick
  BY <1>10, TickStep
<1>11. CASE UNCHANGED vars
  <2>1. /\ now' = now /\ group' = group /\ sub' = sub /\ record' = record /\ open' = open
        /\ tx' = tx /\ spent' = spent /\ raced' = raced /\ overlooked' = overlooked
    BY <1>11 DEF vars, rows, history
  <2>2. TypeOK' /\ Issued' /\ SubInv' /\ Planned' /\ Fresh' /\ OpenInv'
    BY <2>1 DEF IInv, TypeOK, Issued, SubInv, Planned, Fresh, OpenInv
  <2>3. \A j \in Ids : Held(j)' = Held(j)
    BY <2>1, HeldSame
  <2>4. Covered'
    BY <2>1, <2>3 DEF IInv, Covered
  <2>5. TxInv'
    BY <2>1 DEF IInv, TxInv, TxOk, Room
  <2>6. KeepsUpgrade => KeepsUpgrade'
    BY <2>1 DEF KeepsUpgrade, UpgradesAt, GroupOf
  <2> QED
    BY <2>2, <2>4, <2>5, <2>6 DEF IInv
<1> QED
  BY <1>1, <1>2, <1>3, <1>4, <1>5, <1>6, <1>7, <1>8, <1>9, <1>10, <1>11 DEF Next

\* The inductive invariant: in every reachable state each row nobody has raced for agrees
\* with what its requests have cost, what open requests may give back was spent, and what a
\* transaction under way has read still allows what it is going to write.
THEOREM Invariance == Spec => []IInv
<1>1. Init => IInv
  BY SubscriptionAssumption, InitIInv
<1>2. IInv /\ [Next]_vars => IInv'
  BY SubscriptionAssumption, NextIInv
<1> QED
  BY <1>1, <1>2, PTL DEF Spec

\* Type correctness: used never falls below zero, whatever is given back late.
THEOREM TypeCorrect == Spec => []TypeOK
<1>1. IInv => TypeOK
  BY DEF IInv
<1> QED
  BY <1>1, Invariance, PTL

\* Nobody is charged for more than the requests took, for any plans, requests and
\* settlements around the resets and any number of transactions under way, unless one has
\* saved the row over a change it had not read.
THEOREM ChargedForSpent == Spec => []NeverOvercharged
<1>1. IInv => NeverOvercharged
  <2> SUFFICES ASSUME IInv, NEW i \in Ids \ raced, Exists(i) PROVE sub[i].used <= spent[i]
    BY DEF NeverOvercharged
  <2> QED
    BY SubParts DEF Fits
<1> QED
  BY <1>1, Invariance, PTL

\* Fitting into the periods is the quota per period.
LEMMA QuotaHolds ==
  ASSUME SubscriptionAssumption, IInv
  PROVE  PeriodQuota
<1> SUFFICES ASSUME NEW i \in Ids \ raced, Exists(i), TotalOf(i) > 0
             PROVE  spent[i] <= TotalOf(i) * Periods(i)
  BY DEF PeriodQuota
<1> DEFINE s == sub[i]
<1> DEFINE plan == Plan[s.plan]
<1> DEFINE end == IF s.end < now THEN s.end ELSE now
<1> DEFINE c == Passed(s)
<1> DEFINE e == Cardinality(Boundaries(s.start, plan, end))
<1>1. /\ s \in SubType /\ spent[i] \in Int /\ now \in Nat /\ Fits(s, spent[i], now)
      /\ s.status \in Alive
  BY SubParts
<1>2. /\ s.plan \in Plans /\ Base(s) <= s.end /\ Base(s) <= now
      /\ s.used <= plan.total /\ spent[i] <= s.used + plan.total * c
  BY <1>1 DEF Fits, TotalOf
<1>3. plan \in PlanType /\ plan.total \in Nat
  BY <1>2, PlanFields
<1>4. s.start \in Nat /\ s.end \in Nat /\ s.used \in Nat /\ Base(s) \in Nat
  BY <1>1, SubFields
<1>5. end \in Nat /\ Base(s) <= end
  BY <1>1, <1>2, <1>4
<1>6. TotalOf(i) = plan.total /\ Periods(i) = 1 + e
  BY DEF TotalOf, Periods
<1> HIDE DEF end
<1>7. c \in Nat /\ e \in Nat /\ c <= e
  BY <1>3, <1>4, <1>5, BoundariesFinite, BoundariesGrow DEF Passed
<1> HIDE DEF c, e
<1>8. /\ plan.total * c \in Nat /\ plan.total * e \in Nat /\ plan.total * c <= plan.total * e
      /\ plan.total * (1 + e) = plan.total + plan.total * e
  BY <1>3, <1>7, Products
<1> DEFINE x == plan.total * c
<1> DEFINE y == plan.total * e
<1>9. /\ x \in Nat /\ y \in Nat /\ x <= y /\ spent[i] <= s.used + x
      /\ plan.total * (1 + e) = plan.total + y
  BY <1>2, <1>8
<1> HIDE DEF x, y
<1>10. spent[i] <= plan.total + y
  BY <1>1, <1>2, <1>3, <1>4, <1>9
<1> QED
  BY <1>6, <1>9, <1>10

\* Nobody spends more than the total of the quota periods that have begun, for any plans,
\* resets aligned with the calendar or not, any number of requests and of transactions under
\* way, unless one has saved the row over a change it had not read.
THEOREM QuotaPerPeriod == Spec => []PeriodQuota
<1>1. IInv => PeriodQuota
  BY SubscriptionAssumption, QuotaHolds
<1> QED
  BY <1>1, Invariance, PTL

\* Where no plan upgrades to the group the user started in, no subscription that ends takes
\* away the upgrade of one that is active, unless the transaction that ended it began before
\* the upgrade was there, or a save has brought the upgrade back.
THEOREM UpgradeIsKept == Upgrades => (Spec => []KeepsUpgrade)
<1> SUFFICES ASSUME Upgrades PROVE Spec => []KeepsUpgrade
  OBVIOUS
<1>1. Init => KeepsUpgrade
  <2> SUFFICES ASSUME Init PROVE UpgradesAt(now) = {}
    BY DEF KeepsUpgrade
  <2>1. \A i \in Ids : sub[i].status = "absent"
    BY DEF Init, NoSub
  <2> QED
    BY <2>1 DEF UpgradesAt
<1>2. IInv /\ KeepsUpgrade /\ [Next]_vars => KeepsUpgrade'
  BY SubscriptionAssumption, NextIInv
<1> QED
  BY <1>1, <1>2, Invariance, PTL DEF Spec
=============================================================================
