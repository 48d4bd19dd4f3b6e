---------------------------- MODULE Subscription ----------------------------
(***************************************************************************)
(* The subscriptions of one user (model/subscription.go): their creation,  *)
(* the group a subscription upgrades its owner to and the way back, the    *)
(* quota that requests take and give back, its periodic reset, and the     *)
(* maintenance task that expires and resets them                           *)
(* (service/subscription_reset_task.go).                                   *)
(*                                                                         *)
(* A transaction is two steps: it reads the clock, rows and the group and  *)
(* decides what to write, and later writes it.  Nothing is locked in       *)
(* between: the option "gorm:query_option" that asks for FOR UPDATE is one *)
(* gorm v1.25 does not know, and the code of the groups does not ask.  A   *)
(* save writes the whole row as it was read, with the change, and brings   *)
(* back one that was deleted.  Ids are given in the order of creation.     *)
(* Plans do not change.  Times are whole units of a clock that stops at    *)
(* MaxTime.                                                                *)
(***************************************************************************)
EXTENDS Integers, FiniteSets, FiniteSetsExt

CONSTANTS
  Plans,       \* the plans
  Plan,        \* [Plans -> PlanType]
  Requests,
  Amounts,     \* quota a request may pre-consume, all positive
  Deltas,      \* what its settlement may add or give back
  BaseGroup,   \* the group of the user before any upgrade
  MaxSubs,     \* bound: subscriptions ever created
  MaxTime,     \* bound: the last instant of the clock
  MaxEnded,    \* bound: subscriptions an administrator has ended
  MaxTx,       \* bound: transactions under way at a time
  MaxRaces     \* bound: races after which only the task begins transactions

NoGroup == "none"      \* the empty string of the code

\* limit and total 0: unlimited; period 0: the quota is never reset
PlanType == [group : STRING, total : Nat, limit : Nat, duration : Nat \ {0},
             period : Nat, aligned : BOOLEAN]
Ids == 1 .. MaxSubs

\* who runs transactions: the requests; the callback that completes an order, or the
\* administrator in its place; the administrator who ends subscriptions; the maintenance task
Clients == Requests \union {"order", "admin", "task"}

ASSUME SubscriptionAssumption ==
  /\ IsFiniteSet(Requests)
  /\ \A p \in Plans : Plan[p] \in PlanType
  /\ Amounts \subseteq Nat \ {0} /\ Deltas \subseteq Int
  /\ BaseGroup \in STRING \ {NoGroup}
  /\ MaxSubs \in Nat /\ MaxTime \in Nat /\ MaxEnded \in Nat /\ MaxTx \in Nat /\ MaxRaces \in Nat

VARIABLES
  now,        \* the clock of the database
  group,      \* users.group
  sub,        \* user_subscriptions
  record,     \* subscription_pre_consume_records: the status, subscription and amount
  open,       \* the requests whose billing session is open
  tx,         \* the transaction of a client: what it has read and is going to write
  spent,      \* history: what the requests of a subscription have cost, over all periods
  raced,      \* history: subscriptions saved over a change the transaction had not read
  overlooked  \* history: upgrades not seen by the transaction that set the group

rows == <<group, sub, record, open>>
history == <<spent, raced, overlooked>>
vars == <<now, rows, tx, history>>

NoSub == [status |-> "absent", plan |-> "none", start |-> 0, end |-> 0, used |-> 0,
          last |-> 0, next |-> 0, prev |-> NoGroup]
NoRecord == [status |-> "none", sub |-> 0, amount |-> 0]
\* at: when it read; sub: the rows it is going to save, as read; group: the group read or, to
\* end subscriptions, the one to set; seen: the subscriptions that upgraded the user then
NoTx == [op |-> "none", id |-> 0, plan |-> "none", amount |-> 0, at |-> 0,
         sub |-> [i \in Ids |-> NoSub], group |-> NoGroup, seen |-> {}]

Init ==
  /\ now = 1 /\ group = BaseGroup
  /\ sub = [i \in Ids |-> NoSub]
  /\ record = [r \in Requests |-> NoRecord]
  /\ open = {}
  /\ tx = [c \in Clients |-> NoTx]
  /\ spent = [i \in Ids |-> 0]
  /\ raced = {} /\ overlooked = {}

Exists(i) == sub[i].status \in {"active", "expired", "cancelled"}
GroupOf(i) == Plan[sub[i].plan].group      \* upgrade_group, copied from the plan
TotalOf(i) == Plan[sub[i].plan].total      \* amount_total

Active(i) == sub[i].status = "active" /\ sub[i].end > now
Due(i) == sub[i].status = "active" /\ sub[i].end <= now

\* the subscriptions that upgrade the user at time t
UpgradesAt(t) ==
  {i \in Ids : sub[i].status = "active" /\ sub[i].end > t /\ GroupOf(i) # NoGroup}

\* ORDER BY end_time, id
Before(i, j) == sub[i].end < sub[j].end \/ (sub[i].end = sub[j].end /\ i < j)

-----------------------------------------------------------------------------
(* Transactions                                                             *)

\* the transaction op on id, or of the plan p, by the amount n, that is going to save ids
Tx(op, id, p, n, ids, g, seen) ==
  [op |-> op, id |-> id, plan |-> p, amount |-> n, at |-> now,
   sub |-> [i \in Ids |-> IF i \in ids THEN sub[i] ELSE NoSub], group |-> g, seen |-> seen]

Begin(c, t) ==
  /\ tx[c] = NoTx
  /\ Cardinality({d \in Clients : tx[d] # NoTx}) < MaxTx
  /\ c = "task" \/ Cardinality(raced) + Cardinality(overlooked) < MaxRaces
  /\ tx' = [tx EXCEPT ![c] = t]
  /\ UNCHANGED <<now, rows, history>>

Ends(c) == tx' = [tx EXCEPT ![c] = NoTx]

Saved(t) == {i \in Ids : t.sub[i].status # "absent"}

\* tx.Save of these rows as they are in new
Save(t, new) ==
  /\ sub' = [i \in Ids |-> IF i \in Saved(t) THEN new[i] ELSE sub[i]]
  /\ raced' = raced \union {i \in Saved(t) : sub[i] # t.sub[i]}

\* the group goes back, if the transaction has decided so
SetGroup(t) ==
  /\ group' = IF t.group = NoGroup THEN group ELSE t.group
  /\ overlooked' = IF t.group = NoGroup THEN overlooked
                   ELSE overlooked \union (UpgradesAt(t.at) \ t.seen)

-----------------------------------------------------------------------------
(* The reset of the quota                                                   *)

\* the instants after base, up to the end, at which the quota is due to be reset: daily,
\* weekly and monthly resets are aligned with the calendar, custom ones counted from base
Boundaries(base, plan, end) ==
  {b \in base + 1 .. end :
     /\ plan.period > 0
     /\ (IF plan.aligned THEN b ELSE b - base) % plan.period = 0}

\* calcNextResetTime: the first boundary, 0 if there is none
NextReset(base, plan, end) ==
  LET next == Boundaries(base, plan, end) IN IF next = {} THEN 0 ELSE Min(next)

\* when the current period began
Base(s) == IF s.last <= 0 THEN s.start ELSE s.last

\* mutant of MaybeReset: the next reset stays where it was
MaybeResetForgetsNext(s, t) ==
  IF Plan[s.plan].period = 0 \/ s.next > t \/ s.next = 0 THEN s ELSE [s EXCEPT !.used = 0]

\* maybeResetUserSubscriptionWithPlanTx at time t: its loop goes on to the last boundary passed
MaybeReset(s, t) ==
  LET plan == Plan[s.plan]
      passed == {b \in Boundaries(Base(s), plan, s.end) : b <= t} IN
  IF s.next > t \/ passed = {} THEN s
  ELSE [s EXCEPT !.used = 0, !.last = Max(passed), !.next = NextReset(Max(passed), plan, s.end)]

-----------------------------------------------------------------------------
(* Creation, invalidation, deletion                                         *)

\* CreateUserSubscriptionFromPlanTx, for a completed order or for an administrator,
\* up to its first write
CreateReads(p) ==
  /\ Cardinality({i \in Ids : sub[i].status # "absent"}) < MaxSubs
  /\ Plan[p].limit > 0 => Cardinality({j \in Ids : Exists(j) /\ sub[j].plan = p}) < Plan[p].limit
  /\ Begin("order", Tx("create", 0, p, 0, {}, group, {}))

\* the previous group is remembered only when the group changes
CreateUserSubscription ==
  LET t == tx["order"]
      plan == Plan[t.plan]
      i == Cardinality({j \in Ids : sub[j].status # "absent"}) + 1
      changes == plan.group \notin {NoGroup, t.group}
      end == t.at + plan.duration
      next == NextReset(t.at, plan, end) IN
  /\ t.op = "create" /\ i \in Ids
  /\ sub' = [sub EXCEPT ![i] =
       [status |-> "active", plan |-> t.plan, start |-> t.at, end |-> end, used |-> 0,
        last |-> IF next > 0 THEN t.at ELSE 0, next |-> next,
        prev |-> IF changes THEN t.group ELSE NoGroup]]
  /\ group' = IF changes THEN plan.group ELSE group
  /\ overlooked' = IF plan.group = t.group /\ group # t.group THEN overlooked \union {i} ELSE overlooked
  /\ Ends("order")
  /\ UNCHANGED <<now, record, open, spent, raced>>

\* mutant of Downgrade: the other subscriptions are not looked at
DowngradeAlone(i) ==
  IF GroupOf(i) # NoGroup /\ group = GroupOf(i) /\ sub[i].prev # group THEN sub[i].prev
  ELSE NoGroup

\* downgradeUserGroupForSubscriptionTx: the group to go back to once i has gone, if any
Downgrade(i) ==
  IF /\ GroupOf(i) # NoGroup /\ group = GroupOf(i)
     /\ UpgradesAt(now) \subseteq {i}
     /\ sub[i].prev # group
  THEN sub[i].prev ELSE NoGroup

EndReads(op, i) ==
  /\ Exists(i)
  /\ Cardinality({j \in Ids : sub[j].status \in {"cancelled", "deleted"}}) < MaxEnded
  /\ Begin("admin", Tx(op, i, "none", 0, {}, Downgrade(i), UpgradesAt(now)))

\* two columns of the row change, if it is still there; the end may fall before a reset
AdminInvalidateUserSubscription ==
  LET t == tx["admin"] IN
  /\ t.op = "invalidate"
  /\ sub' = IF Exists(t.id) THEN [sub EXCEPT ![t.id].status = "cancelled", ![t.id].end = t.at]
            ELSE sub
  /\ raced' = IF Base(sub[t.id]) <= t.at THEN raced ELSE raced \union {t.id}
  /\ SetGroup(t)
  /\ Ends("admin")
  /\ UNCHANGED <<now, record, open, spent>>

\* the row is deleted; its id is not used again
AdminDeleteUserSubscription ==
  LET t == tx["admin"] IN
  /\ t.op = "delete"
  /\ sub' = [sub EXCEPT ![t.id] = [NoSub EXCEPT !.status = "deleted"]]
  /\ SetGroup(t)
  /\ Ends("admin")
  /\ UNCHANGED <<now, record, open, spent, raced>>

-----------------------------------------------------------------------------
(* The maintenance task                                                     *)

\* mutant of ExpireReads: it waits for a subscription that is still active
ExpireReadsLate ==
  /\ \E i \in Ids : Due(i)
  /\ \A i \in Ids : ~Active(i)
  /\ Begin("task", Tx("expire", 0, "none", 0, {}, NoGroup, {}))

\* unless an active subscription upgrades the user, the one that ended last says which
\* group to go back to
LastGroup ==
  LET expired == {i \in Ids : (Due(i) \/ sub[i].status = "expired") /\ GroupOf(i) # NoGroup}
      back == {i \in expired : /\ \A j \in expired \ {i} : Before(j, i)
                               /\ group = GroupOf(i) /\ sub[i].prev # group} IN
  IF back = {} \/ UpgradesAt(now) # {} THEN NoGroup ELSE sub[CHOOSE i \in back : TRUE].prev

\* ExpireDueSubscriptions, when it finds some that are due
ExpireReads ==
  /\ \E i \in Ids : Due(i)
  /\ Begin("task", Tx("expire", 0, "none", 0, {}, LastGroup, UpgradesAt(now)))

\* all that are due by then expire, whatever has changed
ExpireDueSubscriptions ==
  LET t == tx["task"] IN
  /\ t.op = "expire"
  /\ sub' = [i \in Ids |->
       IF sub[i].status = "active" /\ sub[i].end <= t.at THEN [sub[i] EXCEPT !.status = "expired"]
       ELSE sub[i]]
  /\ SetGroup(t)
  /\ Ends("task")
  /\ UNCHANGED <<now, record, open, spent, raced>>

\* one subscription of ResetDueSubscriptions
ResetReads(i) ==
  /\ sub[i].status = "active" /\ sub[i].next > 0 /\ sub[i].next <= now
  /\ Begin("task", Tx("reset", i, "none", 0, {i}, NoGroup, {}))

ResetDueSubscription ==
  LET t == tx["task"] IN
  /\ t.op = "reset"
  /\ Save(t, [i \in Saved(t) |-> MaybeReset(t.sub[i], t.at)])
  /\ Ends("task")
  /\ UNCHANGED <<now, group, record, open, spent, overlooked>>

-----------------------------------------------------------------------------
(* Requests                                                                 *)

HasRoom(i, n) == TotalOf(i) = 0 \/ TotalOf(i) - MaybeReset(sub[i], now).used >= n

\* PreConsumeUserSubscription: the first active subscription with enough room is to pay; it
\* is saved, and so are the ones passed over that are reset.  When none has room the
\* transaction is rolled back.
PreConsumeReads(r, n) ==
  \E i \in Ids :
    LET passed == {j \in Ids : Active(j) /\ Before(j, i)}
        saved == {i} \union {j \in passed : MaybeReset(sub[j], now) # sub[j]} IN
    /\ record[r].status = "none"
    /\ Active(i) /\ HasRoom(i, n)
    /\ \A j \in passed : ~HasRoom(j, n)
    /\ Begin(r, Tx("consume", i, "none", n, saved, NoGroup, {}))

PreConsumeUserSubscription(r) ==
  LET t == tx[r] IN
  /\ t.op = "consume"
  /\ Save(t, [i \in Saved(t) |-> LET s == MaybeReset(t.sub[i], t.at) IN
                                 IF i = t.id THEN [s EXCEPT !.used = @ + t.amount] ELSE s])
  /\ record' = [record EXCEPT ![r] = [status |-> "consumed", sub |-> t.id, amount |-> t.amount]]
  /\ spent' = [spent EXCEPT ![t.id] = @ + t.amount]
  /\ open' = open \union {r}
  /\ Ends(r)
  /\ UNCHANGED <<now, group, overlooked>>

\* mutants of PostConsumeDelta: the result is not clamped; only active subscriptions change
PostConsumeUnclamped(t, d) ==
  Save(t, [i \in Saved(t) |-> [t.sub[i] EXCEPT !.used = @ + d]])
PostConsumeActiveOnly(t, d) ==
  Save(t, [i \in Saved(t) |-> [t.sub[i] EXCEPT !.used =
    IF t.sub[i].status = "active" THEN Max({0, @ + d}) ELSE @]])

\* PostConsumeUserSubscriptionDelta, whatever the status of the subscription
PostConsumeDelta(t, d) ==
  Save(t, [i \in Saved(t) |-> [t.sub[i] EXCEPT !.used = Max({0, @ + d})]])

\* its refusals: the subscription is gone, or would be overdrawn
Refuses(i, d) == Exists(i) => TotalOf(i) \in 1 .. sub[i].used + d - 1

\* the session of r is settled at d more, or less, than was pre-consumed
SettleReads(r, d) ==
  LET i == record[r].sub IN
  /\ r \in open /\ record[r].amount + d >= 0 /\ ~Refuses(i, d)
  /\ Begin(r, Tx("settle", i, "none", d, {i}, NoGroup, {}))

SettleRequest(r) ==
  LET t == tx[r] IN
  /\ t.op = "settle"
  /\ PostConsumeDelta(t, t.amount)
  /\ spent' = [spent EXCEPT ![t.id] = @ + t.amount]
  /\ open' = open \ {r}
  /\ Ends(r)
  /\ UNCHANGED <<now, group, record, overlooked>>

\* RefundSubscriptionPreConsume
RefundReads(r) ==
  LET i == record[r].sub IN
  /\ r \in open /\ Exists(i)
  /\ Begin(r, Tx("refund", i, "none", record[r].amount, {i}, NoGroup, {}))

RefundRequest(r) ==
  LET t == tx[r] IN
  /\ t.op = "refund"
  /\ PostConsumeDelta(t, -t.amount)
  /\ record' = [record EXCEPT ![r].status = "refunded"]
  /\ spent' = [spent EXCEPT ![t.id] = @ - t.amount]
  /\ open' = open \ {r}
  /\ Ends(r)
  /\ UNCHANGED <<now, group, overlooked>>

\* the session ends with nothing changed: the settlement is refused, or the refund fails
\* as often as it is tried
CloseRefused(r, d) ==
  LET i == record[r].sub IN
  /\ r \in open /\ tx[r] = NoTx
  /\ Exists(i) => record[r].amount + d >= 0
  /\ Refuses(i, d)
  /\ open' = open \ {r}
  /\ UNCHANGED <<now, group, sub, record, tx, history>>

Tick == now < MaxTime /\ now' = now + 1 /\ UNCHANGED <<rows, tx, history>>

-----------------------------------------------------------------------------

Commit(c) ==
  \/ c = "order" /\ CreateUserSubscription
  \/ c = "admin" /\ (AdminInvalidateUserSubscription \/ AdminDeleteUserSubscription)
  \/ c = "task" /\ (ExpireDueSubscriptions \/ ResetDueSubscription)
  \/ c \in Requests /\ (PreConsumeUserSubscription(c) \/ SettleRequest(c) \/ RefundRequest(c))

Next ==
  \/ \E p \in Plans : CreateReads(p)
  \/ \E i \in Ids : EndReads("invalidate", i) \/ EndReads("delete", i) \/ ResetReads(i)
  \/ ExpireReads
  \/ \E r \in Requests :
       \/ \E n \in Amounts : PreConsumeReads(r, n)
       \/ \E d \in Deltas : SettleReads(r, d) \/ CloseRefused(r, d)
       \/ RefundReads(r)
  \/ \E c \in Clients : Commit(c)
  \/ Tick

Spec == Init /\ [][Next]_vars

\* As long as the clock, the ticker of the maintenance task or a transaction has a step to
\* take, one of them is taken.
Progress == Tick \/ ExpireReads \/ (\E i \in Ids : ResetReads(i)) \/ (\E c \in Clients : Commit(c))
FairSpec == Spec /\ WF_vars(Progress)

-----------------------------------------------------------------------------
(* Properties                                                               *)

Groups == {BaseGroup} \union {Plan[p].group : p \in Plans}

SubType == [status : {"absent", "active", "expired", "cancelled", "deleted"},
            plan : Plans \union {"none"}, start : Nat, end : Nat, used : Nat, last : Nat,
            next : Nat, prev : {NoGroup} \union Groups]
RecordType == [status : {"none", "consumed", "refunded"}, sub : {0} \union Ids, amount : Nat]
TxType == [op : {"none", "create", "invalidate", "delete", "expire", "reset", "consume",
                 "settle", "refund"},
           id : {0} \union Ids, plan : Plans \union {"none"}, amount : Int, at : Nat,
           sub : [Ids -> SubType], group : {NoGroup} \union Groups, seen : SUBSET Ids]

\* Subscriptions, records, transactions and the clock have the values the code gives them.
TypeOK ==
  /\ now \in Nat /\ group \in Groups
  /\ sub \in [Ids -> SubType]
  /\ record \in [Requests -> RecordType]
  /\ open \subseteq Requests
  /\ tx \in [Clients -> TxType]
  /\ spent \in [Ids -> Int]
  /\ raced \subseteq Ids /\ overlooked \subseteq Ids

\* the quota periods a subscription has seen begin
Periods(i) ==
  LET end == IF sub[i].end < now THEN sub[i].end ELSE now IN
  1 + Cardinality(Boundaries(sub[i].start, Plan[sub[i].plan], end))

\* However requests, settlements and late refunds fall around the resets, and around the
\* transactions that end subscriptions and expire them, a limited subscription never lets
\* its owner spend more than its total for every period that has begun.  Only where a
\* transaction has saved the row over a change it had not read can more be spent.
PeriodQuota ==
  \A i \in Ids \ raced :
    Exists(i) /\ TotalOf(i) > 0 => spent[i] <= TotalOf(i) * Periods(i)

\* The quota counted as used was really spent: no refund, settlement or reset leaves the
\* owner charged for more than the requests took, unless a transaction has saved the row
\* over a change it had not read.
NeverOvercharged == \A i \in Ids \ raced : Exists(i) => sub[i].used <= spent[i]

\* As long as an active subscription upgrades the user, no other subscription that
\* expires, is invalidated or is deleted takes the upgrade away, unless the transaction
\* that did so began before the upgrade was there, or the upgrade came back by a save.
KeepsUpgrade ==
  UpgradesAt(now) \ (raced \union overlooked) # {} => group # BaseGroup

\* Subscriptions that have ended do not stay among the active ones, whatever saves bring
\* back.
DueExpires == []<>(\A i \in Ids : ~Due(i))

\* "when the plan expires or is invalidated or deleted, the user falls back to the group
\* before the upgrade": once no subscription is active any more, and the maintenance
\* task has seen to it, the user is in the original group.
GroupRestored ==
  (\A i \in Ids : sub[i].status # "active") => group = BaseGroup
=============================================================================
