---------------------------- MODULE PaymentOrder ----------------------------
(***************************************************************************)
(* Payment orders: the rows of top_ups and subscription_orders, the        *)
(* callbacks of the payment gateways and the administrator's manual        *)
(* completion (controller/topup*.go, controller/subscription_payment_*.go),*)
(* each served on some node of the deployment, the order lock of a node,   *)
(* and the transactions that credit the user (model/topup.go,              *)
(* model/subscription.go).                                                 *)
(*                                                                         *)
(* The transactions ask for a row lock with                                *)
(* Set("gorm:query_option", "FOR UPDATE"), an option that the gorm version *)
(* of go.mod does not read: the row is read without a lock, so the read    *)
(* and the commit are two steps, and only the order lock of a node keeps   *)
(* them together.  All orders belong to one user and, where they buy a     *)
(* subscription, to one plan.                                              *)
(***************************************************************************)
EXTENDS Integers, FiniteSets

CONSTANTS
  Orders,        \* trade numbers
  Nodes,         \* processes of the deployment
  Handlers,      \* goroutines that serve callbacks and administrator requests
  Kinds,         \* kinds of order that are placed
  ManualKinds,   \* kinds the administrator completes by hand
  Amount,        \* TopUp.Amount
  QuotaPerUnit,  \* common.QuotaPerUnit
  MaxPurchase,   \* SubscriptionPlan.MaxPurchasePerUser, 0 means unlimited
  MaxFaults      \* bound on node crashes and database errors

\* Top-ups by provider ("pancake" is Waffo Pancake), and subscriptions paid through Epay
\* ("sub"), Creem ("subcreem") or Stripe ("substripe").
AllKinds == {"epay", "stripe", "creem", "waffo", "pancake", "sub", "subcreem", "substripe"}
SubKinds == {"sub", "subcreem", "substripe"}
WaffoKinds == {"waffo", "pancake"}

ASSUME PaymentAssumption ==
  /\ Kinds \subseteq AllKinds /\ ManualKinds \subseteq Kinds \ SubKinds
  /\ Amount \in Nat \ {0} /\ QuotaPerUnit \in Nat \ {0}
  /\ MaxPurchase \in Nat /\ MaxFaults \in Nat
  /\ IsFiniteSet(Handlers) /\ "none" \notin Handlers

VARIABLES
  kind,        \* the provider of an order, "none" before it exists
  status,      \* its status column
  gateway,     \* what the gateway knows of it (external)
  acked,       \* the gateway got a positive answer to its notice of the payment
  misread,     \* history: orders the gateway got that answer for when they could not be read
  credits,     \* history: how often the order was fulfilled
  wallet,      \* the quota that orders added to the user
  approved,    \* history: orders the administrator asked to complete
  bound,       \* whether the administrator gave the user the plan without an order
  orderLocks,  \* per node and order, the mutex in the map or "none"; there are
               \* never more mutexes than handlers, whose names they have
  refCount, mu,   \* of each mutex: its reference count, whether it is locked
  hs,          \* the handlers: where each is, and the event it serves
  faults

locks == <<orderLocks, refCount, mu>>
vars == <<kind, status, gateway, acked, misread, credits, wallet, approved, bound, locks, hs, faults>>

Final == {"success", "failed", "expired"}
Events == {"paid", "unpaid", "failed", "expired", "manual"}
Closing == {"failed", "expired"}
InTx == {"read", "count", "upsert", "write", "credit"}
Idle == [pc |-> "idle"]

Init ==
  /\ kind = [o \in Orders |-> "none"] /\ status = [o \in Orders |-> "none"]
  /\ gateway = [o \in Orders |-> "none"] /\ acked = [o \in Orders |-> FALSE]
  /\ misread = {}
  /\ credits = [o \in Orders |-> 0] /\ wallet = 0 /\ approved = {} /\ bound = FALSE
  /\ orderLocks = [n \in Nodes |-> [o \in Orders |-> "none"]]
  /\ refCount = [h \in Handlers |-> 0] /\ mu = [h \in Handlers |-> FALSE]
  /\ hs = [h \in Handlers |-> Idle] /\ faults = 0

-----------------------------------------------------------------------------
(* An order is placed, and its payment at the gateway takes its course.    *)

\* CountUserSubscriptionsByPlan
Purchases ==
  Cardinality({o \in Orders : kind[o] \in SubKinds /\ credits[o] > 0}) + (IF bound THEN 1 ELSE 0)

PurchaseAllowed == MaxPurchase = 0 \/ Purchases < MaxPurchase

\* AdminBindSubscription, here at most once
AdminBind ==
  /\ ~bound /\ PurchaseAllowed
  /\ bound' = TRUE
  /\ UNCHANGED <<kind, status, gateway, acked, misread, credits, wallet, approved, locks, hs, faults>>

\* RequestEpay, RequestPay of Stripe and Creem, RequestWaffoPay,
\* SubscriptionRequest*: Stripe and Epay top-ups have their checkout before the row is
\* inserted, the others insert the row first.
Place(o, k) ==
  /\ kind[o] = "none"
  /\ k \in SubKinds => PurchaseAllowed
  /\ kind' = [kind EXCEPT ![o] = k]
  /\ status' = [status EXCEPT ![o] = "pending"]
  /\ gateway' = [gateway EXCEPT ![o] = IF k \in {"epay", "stripe", "substripe"} THEN "open" ELSE "opening"]
  /\ UNCHANGED <<acked, misread, credits, wallet, approved, bound, locks, hs, faults>>

Checkout(o) ==
  /\ gateway[o] = "opening"
  /\ gateway' = [gateway EXCEPT ![o] = "open"]
  /\ UNCHANGED <<kind, status, acked, misread, credits, wallet, approved, bound, locks, hs, faults>>

\* The checkout cannot be opened: Waffo and Pancake save the row they inserted with status
\* failed, whatever the row has become, ExpireSubscriptionOrder looks at it first, Creem
\* leaves it.
CheckoutFails(o) ==
  /\ gateway[o] = "opening"
  /\ gateway' = [gateway EXCEPT ![o] = "closed"]
  /\ status' = [status EXCEPT ![o] = CASE kind[o] \in WaffoKinds -> "failed"
                                       [] kind[o] = "sub" /\ @ = "pending" -> "expired"
                                       [] OTHER -> @]
  /\ UNCHANGED <<kind, acked, misread, credits, wallet, approved, bound, locks, hs, faults>>

\* The outcome of the payment; it is final (external).
Outcomes(k) ==
  {"paid"} \union (IF k \in {"stripe", "waffo"} THEN {"failed"} ELSE {})
           \union (IF k \in {"stripe", "substripe"} THEN {"expired"} ELSE {})

Settle(o, g) ==
  /\ gateway[o] = "open" /\ g \in Outcomes(kind[o])
  /\ gateway' = [gateway EXCEPT ![o] = g]
  /\ UNCHANGED <<kind, status, acked, misread, credits, wallet, approved, bound, locks, hs, faults>>

-----------------------------------------------------------------------------
(* A callback or an administrator request is served.                       *)

\* The outcome is notified any number of times, to any node; Stripe also reports a
\* checkout that is complete but not yet paid.  Waffo reports other states of the payment
\* too, in any order, and handleWaffoPayment takes each as a failure.  The administrator
\* may complete any top-up.
Sends(o, e) ==
  CASE e = "manual" -> kind[o] \in ManualKinds
    [] e = "unpaid" -> gateway[o] = "open" /\ kind[o] \in {"stripe", "substripe"}
    [] e = "failed" /\ kind[o] = "waffo" -> gateway[o] \in {"open", "paid", "failed"}
    [] OTHER -> gateway[o] = e

\* mutant of Accepts: payment_status is not looked at
AcceptsAll(e) == TRUE

\* sessionCompleted ignores a checkout whose payment_status is not paid
Accepts(e) == e # "unpaid"

\* mutant of TakesLock: only what credits the user takes the lock
TakesLockToCredit(k, e) == e \notin Closing

\* handleWaffoPayment takes the order lock for a payment only
TakesLock(k, e) == ~(k = "waffo" /\ e = "failed")

Deliver(h, n, o, e) ==
  /\ hs[h] = Idle
  /\ Sends(o, e) /\ Accepts(e)
  /\ hs' = [hs EXCEPT ![h] = [pc |-> IF TakesLock(kind[o], e) THEN "lookup" ELSE "read",
                              node |-> n, order |-> o, event |-> e,
                              rcm |-> "none", ok |-> TRUE, row |-> FALSE]]
  /\ approved' = IF e = "manual" THEN approved \union {o} ELSE approved
  /\ UNCHANGED <<kind, status, gateway, acked, misread, credits, wallet, bound, locks, faults>>

At(h, pc) == hs[h].pc = pc
Goto(h, pc) == hs' = [hs EXCEPT ![h].pc = pc]

\* The mutexes somebody still has a pointer to; &refCountedMutex{} is none of them.
InUse == {orderLocks[n][o] : n \in Nodes, o \in Orders}
           \union {hs[h].rcm : h \in {g \in Handlers : hs[g] # Idle}}

\* mutant of Lookup: the reference is not counted
LookupUncounted(h) ==
  /\ At(h, "lookup")
  /\ LET n == hs[h].node
         o == hs[h].order
         new == orderLocks[n][o] = "none"
     IN  \E m \in IF new THEN Handlers \ InUse ELSE {orderLocks[n][o]} :
         /\ orderLocks' = [orderLocks EXCEPT ![n][o] = m]
         /\ refCount' = [refCount EXCEPT ![m] = IF new THEN 0 ELSE @]
         /\ mu' = [mu EXCEPT ![m] = IF new THEN FALSE ELSE @]
         /\ hs' = [hs EXCEPT ![h].pc = "lock", ![h].rcm = m]
  /\ UNCHANGED <<kind, status, gateway, acked, misread, credits, wallet, approved, bound, faults>>

\* LockOrder under createLock: find the mutex of the order or store a new one, and count
\* the reference.
Lookup(h) ==
  /\ At(h, "lookup")
  /\ LET n == hs[h].node
         o == hs[h].order
         new == orderLocks[n][o] = "none"
     IN  \E m \in IF new THEN Handlers \ InUse ELSE {orderLocks[n][o]} :
         /\ orderLocks' = [orderLocks EXCEPT ![n][o] = m]
         /\ refCount' = [refCount EXCEPT ![m] = IF new THEN 1 ELSE @ + 1]
         /\ mu' = [mu EXCEPT ![m] = IF new THEN FALSE ELSE @]
         /\ hs' = [hs EXCEPT ![h].pc = "lock", ![h].rcm = m]
  /\ UNCHANGED <<kind, status, gateway, acked, misread, credits, wallet, approved, bound, faults>>

\* LockOrder: rcm.mu.Lock()
Lock(h) ==
  /\ At(h, "lock") /\ ~mu[hs[h].rcm]
  /\ mu' = [mu EXCEPT ![hs[h].rcm] = TRUE]
  /\ Goto(h, "read")
  /\ UNCHANGED <<kind, status, gateway, acked, misread, credits, wallet, approved, bound, orderLocks, refCount, faults>>

\* The deferred UnlockOrder begins; a handler without the lock just answers.
Leave(h, ok) ==
  hs' = [hs EXCEPT ![h].ok = ok,
                   ![h].pc = IF hs[h].rcm = "none" THEN "reply" ELSE "unlock"]

\* mutant of Read: a manual completion does not stop at an order already fulfilled
ReadManualUnchecked(h) ==
  /\ At(h, "read")
  /\ LET o == hs[h].order
         e == hs[h].event
     IN  IF status[o] = "pending" \/ (e = "manual" /\ status[o] = "success")
         THEN Goto(h, IF kind[o] \in SubKinds /\ e \notin Closing THEN "count" ELSE "write")
         ELSE Leave(h, status[o] = "success" \/ kind[o] = "creem" \/ e = "failed")
  /\ UNCHANGED <<kind, status, gateway, acked, misread, credits, wallet, approved, bound, locks, faults>>

\* The order is read and its status looked at.  Every handler stops unless it is pending;
\* for Waffo, Creem and subscriptions an order already fulfilled is a success.
Read(h) ==
  /\ At(h, "read")
  /\ LET o == hs[h].order
         e == hs[h].event
     IN  IF status[o] = "pending"
         THEN Goto(h, IF kind[o] \in SubKinds /\ e \notin Closing THEN "count" ELSE "write")
         ELSE Leave(h, status[o] = "success" \/ kind[o] = "creem" \/ e = "failed")
  /\ UNCHANGED <<kind, status, gateway, acked, misread, credits, wallet, approved, bound, locks, faults>>

\* CreateUserSubscriptionFromPlanTx: the purchase limit; the order stays pending.
Count(h) ==
  /\ At(h, "count")
  /\ IF PurchaseAllowed THEN Goto(h, "upsert") ELSE Leave(h, FALSE)
  /\ UNCHANGED <<kind, status, gateway, acked, misread, credits, wallet, approved, bound, locks, faults>>

\* upsertSubscriptionTopUpTx: is there a top_ups row of this trade number?
Upsert(h) ==
  /\ At(h, "upsert")
  /\ hs' = [hs EXCEPT ![h].pc = "write", ![h].row = (credits[hs[h].order] > 0)]
  /\ UNCHANGED <<kind, status, gateway, acked, misread, credits, wallet, approved, bound, locks, faults>>

\* What a payment callback adds to the wallet: Creem stores the quota in Amount.
Worth(k) == CASE k \in SubKinds -> 0
              [] k = "creem" -> Amount
              [] OTHER -> Amount * QuotaPerUnit

\* What ManualCompleteTopUp adds.
ManualWorth(k) == Amount * QuotaPerUnit

FulfilOrder(h, o) ==
  /\ credits' = [credits EXCEPT ![o] = @ + 1]
  /\ wallet' = wallet + (IF hs[h].event = "manual" THEN ManualWorth(kind[o]) ELSE Worth(kind[o]))

\* Recharge, RechargeCreem, RechargeWaffo, RechargeWaffoPancake, ManualCompleteTopUp and
\* CompleteSubscriptionOrder commit the status and the credit together; the row of a
\* subscription in top_ups has a unique trade number.
Commit(h) ==
  LET o == hs[h].order
      conflict == kind[o] \in SubKinds /\ ~hs[h].row /\ credits[o] > 0
  IN  /\ At(h, "write") /\ hs[h].event \notin Closing
      /\ ~(kind[o] = "epay" /\ hs[h].event = "paid")
      /\ IF conflict
         THEN UNCHANGED <<status, credits, wallet>>
         ELSE status' = [status EXCEPT ![o] = "success"] /\ FulfilOrder(h, o)
      /\ Leave(h, ~conflict)
      /\ UNCHANGED <<kind, gateway, acked, misread, approved, bound, locks, faults>>

\* EpayNotify saves the status, and credits the user in a statement of its own.
EpaySave(h) ==
  LET o == hs[h].order
  IN  /\ At(h, "write") /\ kind[o] = "epay" /\ hs[h].event = "paid"
      /\ status' = [status EXCEPT ![o] = "success"]
      /\ Goto(h, "credit")
      /\ UNCHANGED <<kind, gateway, acked, misread, credits, wallet, approved, bound, locks, faults>>

EpayCredit(h) ==
  /\ At(h, "credit")
  /\ FulfilOrder(h, hs[h].order)
  /\ Leave(h, TRUE)
  /\ UNCHANGED <<kind, status, gateway, acked, misread, approved, bound, locks, faults>>

\* sessionAsyncPaymentFailed, UpdatePendingTopUpStatus, ExpireSubscriptionOrder: the row
\* read is saved with the final status of the event.
Close(h) ==
  /\ At(h, "write") /\ hs[h].event \in Closing
  /\ status' = [status EXCEPT ![hs[h].order] = hs[h].event]
  /\ Leave(h, TRUE)
  /\ UNCHANGED <<kind, gateway, acked, misread, credits, wallet, approved, bound, locks, faults>>

\* UnlockOrder: rcm.mu.Unlock()
Unlock(h) ==
  LET m == orderLocks[hs[h].node][hs[h].order]
  IN  /\ At(h, "unlock")
      /\ mu' = IF m = "none" THEN mu ELSE [mu EXCEPT ![m] = FALSE]
      /\ hs' = [hs EXCEPT ![h].pc = IF m = "none" THEN "reply" ELSE "release", ![h].rcm = m]
      /\ UNCHANGED <<kind, status, gateway, acked, misread, credits, wallet, approved, bound, orderLocks, refCount, faults>>

\* mutant of Release: the mutex is deleted although others wait for it
ReleaseDeletes(h) ==
  LET m == hs[h].rcm
  IN  /\ At(h, "release")
      /\ refCount' = [refCount EXCEPT ![m] = @ - 1]
      /\ orderLocks' = [orderLocks EXCEPT ![hs[h].node][hs[h].order] = "none"]
      /\ hs' = [hs EXCEPT ![h].pc = "reply", ![h].rcm = "none"]
      /\ UNCHANGED <<kind, status, gateway, acked, misread, credits, wallet, approved, bound, mu, faults>>

\* UnlockOrder under createLock: the last reference takes the mutex out of the map.
Release(h) ==
  LET m == hs[h].rcm
  IN  /\ At(h, "release")
      /\ refCount' = [refCount EXCEPT ![m] = @ - 1]
      /\ orderLocks' = IF refCount[m] = 1
                       THEN [orderLocks EXCEPT ![hs[h].node][hs[h].order] = "none"]
                       ELSE orderLocks
      /\ hs' = [hs EXCEPT ![h].pc = "reply", ![h].rcm = "none"]
      /\ UNCHANGED <<kind, status, gateway, acked, misread, credits, wallet, approved, bound, mu, faults>>

\* Stripe is answered 200 and Epay "success" whatever happened to a top-up.
AlwaysAcks == {"epay", "stripe", "substripe"}

\* mutant of Reply: the gateway is always told that all went well
ReplySuccess(h) ==
  LET o == hs[h].order
  IN  /\ At(h, "reply")
      /\ acked' = [acked EXCEPT ![o] =
                     @ \/ hs[h].event = "paid"]
      /\ hs' = [hs EXCEPT ![h] = Idle]
      /\ UNCHANGED <<kind, status, gateway, misread, credits, wallet, approved, bound, locks, faults>>

Reply(h) ==
  LET o == hs[h].order
  IN  /\ At(h, "reply")
      /\ acked' = [acked EXCEPT ![o] =
                     @ \/ (hs[h].event = "paid" /\ (hs[h].ok \/ kind[o] \in AlwaysAcks))]
      /\ hs' = [hs EXCEPT ![h] = Idle]
      /\ UNCHANGED <<kind, status, gateway, misread, credits, wallet, approved, bound, locks, faults>>

-----------------------------------------------------------------------------
(* Faults.                                                                 *)

\* A statement fails: the transaction is rolled back and the handler returns the error.
DbError(h) ==
  /\ faults < MaxFaults /\ hs[h].pc \in InTx
  /\ faults' = faults + 1
  /\ Leave(h, FALSE)
  /\ UNCHANGED <<kind, status, gateway, acked, misread, credits, wallet, approved, bound, locks>>

\* Of some handlers the read of the order takes an error for an order that is not there, and
\* the gateway gets a positive answer: for a subscription, Creem when the product is not sold
\* as a one-time payment; ResolveWaffoPancakeTradeNo, before the lock.
ErrorIsAbsence(h) ==
  LET k == kind[hs[h].order]
  IN  \/ At(h, "read") /\ k = "subcreem"
      \/ At(h, "lookup") /\ k = "pancake" /\ hs[h].event = "paid"

ReadError(h) ==
  /\ faults < MaxFaults /\ ErrorIsAbsence(h)
  /\ faults' = faults + 1
  /\ misread' = misread \union {hs[h].order}
  /\ Leave(h, TRUE)
  /\ UNCHANGED <<kind, status, gateway, acked, credits, wallet, approved, bound, locks>>

\* A node restarts: its handlers and its lock map are gone.
Crash(n) ==
  /\ faults < MaxFaults
  /\ \E h \in Handlers : hs[h] # Idle /\ hs[h].node = n
  /\ faults' = faults + 1
  /\ hs' = [h \in Handlers |-> IF hs[h] # Idle /\ hs[h].node = n THEN Idle ELSE hs[h]]
  /\ orderLocks' = [orderLocks EXCEPT ![n] = [o \in Orders |-> "none"]]
  /\ UNCHANGED <<kind, status, gateway, acked, misread, credits, wallet, approved, bound, refCount, mu>>

-----------------------------------------------------------------------------
Step(h) ==
  \/ Lookup(h) \/ Lock(h) \/ Read(h) \/ Count(h) \/ Upsert(h) \/ Commit(h)
  \/ EpaySave(h) \/ EpayCredit(h) \/ Close(h) \/ Unlock(h) \/ Release(h) \/ Reply(h)

Next ==
  \/ \E o \in Orders, k \in Kinds : Place(o, k)
  \/ \E o \in Orders : Checkout(o) \/ CheckoutFails(o)
  \/ \E o \in Orders, g \in Events : Settle(o, g)
  \/ \E h \in Handlers, n \in Nodes, o \in Orders, e \in Events : Deliver(h, n, o, e)
  \/ \E h \in Handlers : Step(h) \/ DbError(h) \/ ReadError(h)
  \/ \E n \in Nodes : Crash(n)
  \/ AdminBind

Spec == Init /\ [][Next]_vars

\* A gateway repeats a notice until it is acknowledged, and finds a goroutine to serve it;
\* a handler runs on, and a Go mutex starves nobody.
FairSpec ==
  /\ Spec
  /\ \A h \in Handlers : WF_vars(Step(h)) /\ SF_vars(Lock(h))
  /\ \A o \in Orders :
       SF_vars(~acked[o] /\ \E h \in Handlers, n \in Nodes : Deliver(h, n, o, "paid"))

-----------------------------------------------------------------------------
(* Properties.                                                             *)

HandlerType ==
  [pc : {"lookup", "lock", "read", "count", "upsert", "write", "credit", "unlock", "release", "reply"},
   node : Nodes, order : Orders, event : Events,
   rcm : Handlers \union {"none"}, ok : BOOLEAN, row : BOOLEAN]

\* The variables keep their types.
TypeOK ==
  /\ kind \in [Orders -> Kinds \union {"none"}]
  /\ status \in [Orders -> Final \union {"none", "pending"}]
  /\ gateway \in [Orders -> {"none", "opening", "open", "closed", "paid", "failed", "expired"}]
  /\ acked \in [Orders -> BOOLEAN] /\ credits \in [Orders -> Nat] /\ wallet \in Nat
  /\ misread \subseteq Orders /\ approved \subseteq Orders /\ bound \in BOOLEAN
  /\ orderLocks \in [Nodes -> [Orders -> Handlers \union {"none"}]]
  /\ refCount \in [Handlers -> Nat] /\ mu \in [Handlers -> BOOLEAN]
  /\ hs \in [Handlers -> {Idle} \union HandlerType]
  /\ faults \in 0 .. MaxFaults

\* An order is fulfilled at most once, however often its payment is reported and whoever
\* completes it by hand at the same time.
CreditOnce == \A o \in Orders : credits[o] <= 1

\* Between LockOrder and UnlockOrder a handler has its order for itself on its node,
\* although the mutex of an order comes and goes with its users.
OrderLockExclusive ==
  \A g, h \in Handlers :
    /\ g # h /\ hs[g] # Idle /\ hs[h] # Idle
    /\ hs[g].node = hs[h].node /\ hs[g].order = hs[h].order
    /\ hs[g].rcm # "none" /\ hs[h].rcm # "none"
    => ~(hs[g].pc \in InTx \union {"unlock"} /\ hs[h].pc \in InTx \union {"unlock"})

\* Once an order is closed or fulfilled its status stays, except for Waffo and Pancake, whose
\* failures are written without the order lock.
FinalStatusStays ==
  [][\A o \in Orders : kind[o] \notin WaffoKinds /\ status[o] \in Final => status'[o] = status[o]]_vars

\* The order rows, locks and callbacks implement the ledger: an order is fulfilled only
\* once it was paid or approved, once, and for its worth.
Ledger == INSTANCE OrderLedger WITH
  worth <- [o \in Orders |-> IF kind[o] = "none" THEN -1 ELSE Worth(kind[o])],
  due <- approved \union {o \in Orders : gateway[o] = "paid"},
  fulfilled <- {o \in Orders : credits[o] > 0}

ImplementsLedger == Ledger!LedgerSpec

\* A paid order is fulfilled in the end where the answer to the gateway says whether it
\* was, in spite of crashes and database errors, unless the purchase limit is reached, an
\* error in the read of the order was answered as if all went well, or Waffo had reported
\* another state of the payment before and the order was given up.
PaidIsFulfilled ==
  \A o \in Orders :
    (gateway[o] = "paid" /\ kind[o] \notin AlwaysAcks)
      ~> \/ credits[o] > 0 \/ o \in misread
         \/ kind[o] \in SubKinds /\ ~PurchaseAllowed
         \/ kind[o] = "waffo" /\ status[o] = "failed"
=============================================================================
