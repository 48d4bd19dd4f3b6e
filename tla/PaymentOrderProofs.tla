------------------------- MODULE PaymentOrderProofs -------------------------
(***************************************************************************)
(* Proofs about PaymentOrder: for any orders, nodes and handlers the order *)
(* lock excludes; with one node an order is credited once, its final       *)
(* status stays, and the order rows, locks and callbacks implement the     *)
(* ledger.                                                                 *)
(***************************************************************************)
EXTENDS PaymentOrder, FiniteSetTheorems, TLAPS

(***************************************************************************)
(* The order lock.                                                         *)
(***************************************************************************)
\* The handlers with a pointer to a mutex, when the handlers are at H.
Users(H, m) == {h \in Handlers : H[h] # Idle /\ H[h].rcm = m}

\* The handler is between LockOrder and UnlockOrder.
Holds(h) == hs[h] # Idle /\ hs[h].rcm # "none" /\ hs[h].pc \in InTx \union {"unlock"}

\* A handler has a pointer while it is in LockOrder, in UnlockOrder or between them, and
\* then the map has the same mutex.
Pointer(h) ==
  hs[h] # Idle =>
    /\ hs[h].rcm # "none" => orderLocks[hs[h].node][hs[h].order] = hs[h].rcm
    /\ hs[h].pc \in {"lookup", "reply"} => hs[h].rcm = "none"
    /\ hs[h].pc \in {"lock", "unlock", "release"} => hs[h].rcm # "none"

\* No two orders share a mutex.
MapInjective ==
  \A n, p \in Nodes, o, q \in Orders :
    orderLocks[n][o] = orderLocks[p][q] /\ orderLocks[n][o] # "none" => n = p /\ o = q

\* The reference count of a mutex in the map is the number of its users.
Counted ==
  \A n \in Nodes, o \in Orders :
    orderLocks[n][o] # "none" => refCount[orderLocks[n][o]] = Cardinality(Users(hs, orderLocks[n][o]))

\* A mutex whose holder is between LockOrder and UnlockOrder is locked, for one holder.
Locked(h) == Holds(h) => mu[hs[h].rcm]
OneHolder == \A g, h \in Handlers : Holds(g) /\ Holds(h) /\ hs[g].rcm = hs[h].rcm => g = h

LockInv ==
  /\ \A h \in Handlers : Pointer(h) /\ Locked(h)
  /\ MapInjective /\ Counted /\ OneHolder

(***************************************************************************)
(* The orders.                                                             *)
(***************************************************************************)
\* An order exists in all its columns or in none; it is fulfilled at most once, and is
\* then not pending.
OrderInv(o) ==
  /\ kind[o] = "none" <=> status[o] = "none"
  /\ kind[o] = "none" => gateway[o] = "none"
  /\ credits[o] \in {0, 1}
  /\ status[o] \in {"none", "pending"} => credits[o] = 0

\* What a handler relies on from where it is: its event is one the gateway or the
\* administrator sent; without the lock only a failure of Waffo is written; once the
\* status was found pending the order is not fulfilled, and, except for Waffo and Pancake,
\* still pending.
Serves(h) ==
  hs[h] # Idle =>
    LET o == hs[h].order
        e == hs[h].event
        pc == hs[h].pc
    IN  /\ e # "unpaid" /\ kind[o] # "none"
        /\ e = "manual" => o \in approved /\ kind[o] \in ManualKinds
        /\ e # "manual" => gateway[o] \notin {"none", "opening"}
        /\ e = "paid" => gateway[o] = "paid"
        /\ pc \in InTx /\ hs[h].rcm = "none" => kind[o] = "waffo" /\ e = "failed"
        /\ pc \in {"count", "upsert", "write"} /\ kind[o] \notin WaffoKinds => status[o] = "pending"
        /\ pc \in {"count", "upsert", "write", "credit"} /\ e \notin Closing => credits[o] = 0
        /\ pc \in {"count", "upsert"} => e \notin Closing
        /\ pc = "credit" => kind[o] = "epay" /\ e = "paid" /\ status[o] = "success"

CreditInv == (\A o \in Orders : OrderInv(o)) /\ (\A h \in Handlers : Serves(h))

-----------------------------------------------------------------------------
(* How a handler moves.                                                    *)

\* The handler went to pc with the mutex m; nothing else about its event changed, and no
\* other handler moved.
Now(h, pc, m) ==
  /\ hs' \in [Handlers -> {Idle} \union HandlerType]
  /\ hs'[h] \in HandlerType
  /\ hs'[h].pc = pc /\ hs'[h].rcm = m
  /\ hs'[h].node = hs[h].node /\ hs'[h].order = hs[h].order /\ hs'[h].event = hs[h].event
  /\ \A g \in Handlers \ {h} : hs'[g] = hs[g]

PCs == {"lookup", "lock", "read", "count", "upsert", "write", "credit", "unlock", "release", "reply"}

\* A handler record is not the record of an idle one.
LEMMA NotIdle ==
  ASSUME NEW t \in HandlerType
  PROVE  t # Idle /\ t.pc # "idle"
<1>1. t.pc # "idle"
  BY DEF HandlerType
<1>2. Idle.pc = "idle"
  BY DEF Idle
<1> QED
  BY <1>1, <1>2

\* A handler that is somewhere serves an event.
LEMMA Busy ==
  ASSUME TypeOK, NEW h \in Handlers, hs[h] # Idle
  PROVE  /\ hs[h] \in HandlerType
         /\ hs[h].pc \in PCs /\ hs[h].node \in Nodes /\ hs[h].order \in Orders
         /\ hs[h].event \in Events /\ hs[h].rcm \in Handlers \union {"none"}
<1>1. hs[h] \in HandlerType
  BY DEF TypeOK
<1> QED
  BY <1>1 DEF HandlerType, PCs

\* A handler with a place is not idle.
LEMMA BusyAt ==
  ASSUME TypeOK, NEW h \in Handlers, hs[h].pc # "idle"
  PROVE  hs[h] # Idle
<1>1. Idle.pc = "idle"
  BY DEF Idle
<1> QED
  BY <1>1

\* Replacing the record of a handler.
LEMMA Replaced ==
  ASSUME TypeOK, NEW h \in Handlers, hs[h] # Idle,
         NEW t \in HandlerType, hs' = [hs EXCEPT ![h] = t],
         t.node = hs[h].node, t.order = hs[h].order, t.event = hs[h].event
  PROVE  Now(h, t.pc, t.rcm)
<1>1. hs \in [Handlers -> {Idle} \union HandlerType]
  BY DEF TypeOK
<1>2. hs' \in [Handlers -> {Idle} \union HandlerType] /\ hs'[h] = t
  BY <1>1
<1>3. \A g \in Handlers \ {h} : hs'[g] = hs[g]
  BY <1>1
<1> QED
  BY <1>2, <1>3 DEF Now

\* A handler that moves on keeps its order, node and mutex.
LEMMA MovedPc ==
  ASSUME TypeOK, NEW h \in Handlers, hs[h] # Idle,
         NEW pc \in PCs, Goto(h, pc)
  PROVE  Now(h, pc, hs[h].rcm)
<1> DEFINE t == [hs[h] EXCEPT !.pc = pc]
<1>1. hs[h] \in HandlerType /\ hs \in [Handlers -> {Idle} \union HandlerType]
  BY Busy DEF TypeOK
<1>2. /\ t \in HandlerType /\ t.pc = pc /\ t.rcm = hs[h].rcm
      /\ t.node = hs[h].node /\ t.order = hs[h].order /\ t.event = hs[h].event
  BY <1>1 DEF HandlerType, PCs
<1>3. hs' = [hs EXCEPT ![h] = t]
  BY DEF Goto
<1> HIDE DEF t
<1> QED
  BY <1>2, <1>3, Replaced

\* The same when it takes up or drops a mutex.
LEMMA MovedMutex ==
  ASSUME TypeOK, NEW h \in Handlers, hs[h] # Idle,
         NEW pc \in PCs, NEW m \in Handlers \union {"none"},
         hs' = [hs EXCEPT ![h].pc = pc, ![h].rcm = m]
  PROVE  Now(h, pc, m)
<1> DEFINE t == [hs[h] EXCEPT !.pc = pc, !.rcm = m]
<1>1. hs[h] \in HandlerType /\ hs \in [Handlers -> {Idle} \union HandlerType]
  BY Busy DEF TypeOK
<1>2. /\ t \in HandlerType /\ t.pc = pc /\ t.rcm = m
      /\ t.node = hs[h].node /\ t.order = hs[h].order /\ t.event = hs[h].event
  BY <1>1 DEF HandlerType, PCs
<1>3. hs' = [hs EXCEPT ![h] = t]
  BY <1>1
<1> HIDE DEF t
<1> QED
  BY <1>2, <1>3, Replaced

\* The same when it has read the row.
LEMMA MovedRow ==
  ASSUME TypeOK, NEW h \in Handlers, hs[h] # Idle, NEW b \in BOOLEAN,
         hs' = [hs EXCEPT ![h].pc = "write", ![h].row = b]
  PROVE  Now(h, "write", hs[h].rcm)
<1> DEFINE t == [hs[h] EXCEPT !.pc = "write", !.row = b]
<1>1. hs[h] \in HandlerType /\ hs \in [Handlers -> {Idle} \union HandlerType]
  BY Busy DEF TypeOK
<1>2. /\ t \in HandlerType /\ t.pc = "write" /\ t.rcm = hs[h].rcm
      /\ t.node = hs[h].node /\ t.order = hs[h].order /\ t.event = hs[h].event
  BY <1>1 DEF HandlerType, PCs
<1>3. hs' = [hs EXCEPT ![h] = t]
  BY <1>1
<1> HIDE DEF t
<1> QED
  BY <1>2, <1>3, Replaced

\* Where the deferred UnlockOrder begins.
Exit(h) == IF hs[h].rcm = "none" THEN "reply" ELSE "unlock"

\* The same when it goes to its exit.
LEMMA MovedOut ==
  ASSUME TypeOK, NEW h \in Handlers, hs[h] # Idle, NEW b \in BOOLEAN, Leave(h, b)
  PROVE  Now(h, Exit(h), hs[h].rcm)
<1> DEFINE pc == Exit(h)
<1> DEFINE t == [hs[h] EXCEPT !.ok = b, !.pc = pc]
<1>1. hs[h] \in HandlerType /\ hs \in [Handlers -> {Idle} \union HandlerType]
  BY Busy DEF TypeOK
<1>2. pc \in PCs
  BY DEF Exit, PCs
<1>3. hs' = [hs EXCEPT ![h].ok = b, ![h].pc = pc]
  BY DEF Leave, Exit
<1> HIDE DEF pc
<1>4. hs' = [hs EXCEPT ![h] = t]
  BY <1>1, <1>3
<1>5. /\ t \in HandlerType /\ t.pc = pc /\ t.rcm = hs[h].rcm
      /\ t.node = hs[h].node /\ t.order = hs[h].order /\ t.event = hs[h].event
  BY <1>1, <1>2 DEF HandlerType, PCs
<1> HIDE DEF t
<1>6. Now(h, t.pc, t.rcm)
  BY <1>4, <1>5, Replaced
<1> QED
  BY <1>5, <1>6 DEF pc

-----------------------------------------------------------------------------
(* The order lock, step by step.                                           *)

\* Which orders a handler's steps are about does not matter to the lock: neither the lock
\* nor the handlers change.
LEMMA QuietLock ==
  ASSUME LockInv, UNCHANGED <<locks, hs>>
  PROVE  LockInv'
<1>1. /\ orderLocks' = orderLocks /\ refCount' = refCount /\ mu' = mu /\ hs' = hs
  BY DEF locks
<1>2. \A h \in Handlers : Pointer(h)' /\ Locked(h)'
  BY <1>1 DEF LockInv, Pointer, Locked, Holds
<1>3. MapInjective'
  BY <1>1 DEF LockInv, MapInjective
<1>4. Counted'
  BY <1>1 DEF LockInv, Counted
<1>5. OneHolder'
  BY <1>1 DEF LockInv, OneHolder, Holds
<1> QED
  BY <1>2, <1>3, <1>4, <1>5 DEF LockInv

\* A handler moves within the transaction or out of it; the lock stays.
LEMMA MoveLock ==
  ASSUME TypeOK, LockInv, NEW h \in Handlers, hs[h] # Idle,
         hs[h].pc \in InTx, NEW pc \in InTx \union {"unlock", "reply"},
         pc = "unlock" => hs[h].rcm # "none", pc = "reply" => hs[h].rcm = "none",
         Now(h, pc, hs[h].rcm), UNCHANGED locks
  PROVE  LockInv'
<1>1. /\ orderLocks' = orderLocks /\ refCount' = refCount /\ mu' = mu
  BY DEF locks
<1>2. /\ hs'[h] # Idle /\ hs'[h].pc = pc /\ hs'[h].rcm = hs[h].rcm
      /\ hs'[h].node = hs[h].node /\ hs'[h].order = hs[h].order
  BY NotIdle DEF Now
<1>3. \A g \in Handlers \ {h} : hs'[g] = hs[g]
  BY DEF Now
<1>4. \A g \in Handlers : Holds(g)' => Holds(g) /\ hs'[g].rcm = hs[g].rcm
  BY <1>2, <1>3 DEF Holds
<1>5. ASSUME NEW g \in Handlers PROVE Pointer(g)' /\ Locked(g)'
  <2>1. Pointer(g) /\ Locked(g)
    BY DEF LockInv
  <2>2. Locked(g)'
    BY <2>1, <1>1, <1>4 DEF Locked
  <2>3. CASE g = h
    BY <2>1, <2>2, <2>3, <1>1, <1>2 DEF Pointer, InTx
  <2>4. CASE g # h
    BY <2>1, <2>2, <2>4, <1>1, <1>3 DEF Pointer
  <2> QED
    BY <2>3, <2>4
<1>6. MapInjective'
  BY <1>1 DEF LockInv, MapInjective
<1>7. \A m : Users(hs', m) = Users(hs, m)
  BY <1>2, <1>3 DEF Users
<1>8. Counted'
  BY <1>1, <1>7 DEF LockInv, Counted
<1>9. OneHolder'
  BY <1>4 DEF LockInv, OneHolder
<1> QED
  BY <1>5, <1>6, <1>8, <1>9 DEF LockInv

\* A handler begins with an event, or answers: without a mutex before and after.
LEMMA BareLock ==
  ASSUME TypeOK, LockInv, NEW h \in Handlers,
         hs[h] # Idle => hs[h].rcm = "none",
         hs'[h] # Idle => hs'[h].rcm = "none" /\ hs'[h].pc \notin {"lock", "unlock", "release"},
         \A g \in Handlers \ {h} : hs'[g] = hs[g],
         UNCHANGED locks
  PROVE  LockInv'
<1>1. /\ orderLocks' = orderLocks /\ refCount' = refCount /\ mu' = mu
  BY DEF locks
<1>2. \A g \in Handlers : Holds(g)' => Holds(g) /\ hs'[g].rcm = hs[g].rcm
  BY DEF Holds
<1>3. ASSUME NEW g \in Handlers PROVE Pointer(g)' /\ Locked(g)'
  <2>1. Pointer(g) /\ Locked(g)
    BY DEF LockInv
  <2>2. Locked(g)'
    BY <2>1, <1>1, <1>2 DEF Locked
  <2>3. CASE g = h
    BY <2>2, <2>3, <1>1 DEF Pointer
  <2>4. CASE g # h
    BY <2>1, <2>2, <2>4, <1>1 DEF Pointer
  <2> QED
    BY <2>3, <2>4
<1>4. MapInjective'
  BY <1>1 DEF LockInv, MapInjective
<1>5. \A m : m # "none" => Users(hs', m) = Users(hs, m)
  BY DEF Users
<1>6. Counted'
  BY <1>1, <1>5 DEF LockInv, Counted
<1>7. OneHolder'
  BY <1>2 DEF LockInv, OneHolder
<1> QED
  BY <1>3, <1>4, <1>6, <1>7 DEF LockInv

\* LockOrder, first part: the handler becomes one more user of the mutex of its order.
LEMMA LookupLock ==
  ASSUME PaymentAssumption, TypeOK, LockInv, NEW h \in Handlers, Lookup(h)
  PROVE  TypeOK' /\ LockInv'
<1>1. hs[h] # Idle /\ hs[h].pc = "lookup"
  BY BusyAt DEF Lookup, At
<1> DEFINE n == hs[h].node
<1> DEFINE o == hs[h].order
<1> DEFINE new == orderLocks[n][o] = "none"
<1>2. n \in Nodes /\ o \in Orders
  BY <1>1, Busy
<1>3. hs[h].rcm = "none"
  BY <1>1 DEF LockInv, Pointer
<1>4. orderLocks \in [Nodes -> [Orders -> Handlers \union {"none"}]] /\ refCount \in [Handlers -> Nat]
      /\ mu \in [Handlers -> BOOLEAN]
  BY DEF TypeOK
<1>5. PICK m \in IF new THEN Handlers \ InUse ELSE {orderLocks[n][o]} :
         /\ orderLocks' = [orderLocks EXCEPT ![n][o] = m]
         /\ refCount' = [refCount EXCEPT ![m] = IF new THEN 1 ELSE @ + 1]
         /\ mu' = [mu EXCEPT ![m] = IF new THEN FALSE ELSE @]
         /\ hs' = [hs EXCEPT ![h].pc = "lock", ![h].rcm = m]
  BY DEF Lookup
<1>6. m \in Handlers /\ m # "none"
  BY <1>2, <1>4, <1>5 DEF PaymentAssumption
<1>7. /\ orderLocks' \in [Nodes -> [Orders -> Handlers \union {"none"}]]
      /\ orderLocks'[n][o] = m
      /\ \A p \in Nodes, q \in Orders : p # n \/ q # o => orderLocks'[p][q] = orderLocks[p][q]
  BY <1>2, <1>4, <1>5, <1>6
<1>8. /\ refCount' \in [Handlers -> Nat]
      /\ refCount'[m] = IF new THEN 1 ELSE refCount[m] + 1
      /\ \A k \in Handlers \ {m} : refCount'[k] = refCount[k]
  BY <1>4, <1>5, <1>6
<1>9. mu' \in [Handlers -> BOOLEAN]
  BY <1>4, <1>5, <1>6
<1>10. Now(h, "lock", m)
  BY <1>1, <1>5, <1>6, MovedMutex DEF PCs
<1>11. TypeOK'
  BY <1>7, <1>8, <1>9, <1>10 DEF TypeOK, Now, Lookup
<1>12. /\ hs'[h] # Idle /\ hs'[h].pc = "lock" /\ hs'[h].rcm = m
       /\ hs'[h].node = n /\ hs'[h].order = o
  BY <1>10, NotIdle DEF Now
<1>13. \A g \in Handlers \ {h} : hs'[g] = hs[g]
  BY <1>10 DEF Now
<1>14. new => \A g \in Handlers : hs[g] # Idle => hs[g].rcm # m
  BY <1>5 DEF InUse
<1>15. new => \A p \in Nodes, q \in Orders : orderLocks[p][q] # m
  BY <1>5 DEF InUse
<1>16. ~new => orderLocks[n][o] = m /\ refCount'[m] = refCount[m] + 1
  BY <1>5, <1>8
<1> HIDE DEF n, o, new
<1>17. \A g \in Handlers : Holds(g)' => g # h /\ Holds(g) /\ hs'[g].rcm = hs[g].rcm
  BY <1>12, <1>13 DEF Holds, InTx
<1>18. \A k \in Handlers : k # m => mu'[k] = mu[k]
  BY <1>4, <1>5, <1>6
<1>19. ~new => mu' = mu
  BY <1>4, <1>5, <1>6
<1>20. ASSUME NEW g \in Handlers PROVE Pointer(g)' /\ Locked(g)'
  <2>1. Pointer(g) /\ Locked(g)
    BY DEF LockInv
  <2>2. CASE g = h
    BY <2>2, <1>7, <1>12, <1>6, <1>17 DEF Pointer, Locked
  <2>3. CASE g # h
    <3>1. hs'[g] = hs[g]
      BY <2>3, <1>13
    <3>2. hs[g] # Idle /\ hs[g].rcm # "none" => orderLocks'[hs[g].node][hs[g].order] = hs[g].rcm
      <4> SUFFICES ASSUME hs[g] # Idle, hs[g].rcm # "none"
                   PROVE  orderLocks'[hs[g].node][hs[g].order] = hs[g].rcm
        OBVIOUS
      <4>1. orderLocks[hs[g].node][hs[g].order] = hs[g].rcm
        BY <2>1 DEF Pointer
      <4>2. hs[g].node \in Nodes /\ hs[g].order \in Orders
        BY Busy
      <4>3. CASE hs[g].node = n /\ hs[g].order = o
        BY <4>1, <4>3, <1>7, <1>16 DEF new
      <4>4. CASE ~(hs[g].node = n /\ hs[g].order = o)
        BY <4>1, <4>2, <4>4, <1>7
      <4> QED
        BY <4>3, <4>4
    <3>3. Pointer(g)'
      BY <2>1, <3>1, <3>2 DEF Pointer
    <3>4. Locked(g)'
      <4> SUFFICES ASSUME Holds(g)' PROVE mu'[hs'[g].rcm]
        BY DEF Locked
      <4>1. Holds(g) /\ mu[hs[g].rcm] /\ hs'[g].rcm = hs[g].rcm
        BY <2>1, <1>17 DEF Locked
      <4>2. hs[g].rcm \in Handlers
        BY <4>1, Busy DEF Holds
      <4>3. CASE new
        BY <4>1, <4>2, <4>3, <1>14, <1>18 DEF Holds
      <4>4. CASE ~new
        BY <4>1, <4>4, <1>19
      <4> QED
        BY <4>3, <4>4
    <3> QED
      BY <3>3, <3>4
  <2> QED
    BY <2>2, <2>3
<1>21. MapInjective'
  <2> SUFFICES ASSUME NEW p \in Nodes, NEW r \in Nodes, NEW q \in Orders, NEW s \in Orders,
                      orderLocks'[p][q] = orderLocks'[r][s], orderLocks'[p][q] # "none"
               PROVE  p = r /\ q = s
    BY DEF MapInjective
  <2>1. \A a, b \in Nodes, c, d \in Orders :
          orderLocks[a][c] = orderLocks[b][d] /\ orderLocks[a][c] # "none" => a = b /\ c = d
    BY DEF LockInv, MapInjective
  <2>2. CASE new
    BY <2>2, <2>1, <1>2, <1>7, <1>15 DEF n, o
  <2>3. CASE ~new
    <3>1. \A a \in Nodes, c \in Orders : orderLocks'[a][c] = orderLocks[a][c]
      BY <2>3, <1>7, <1>16
    <3> QED
      BY <3>1, <2>1
  <2> QED
    BY <2>2, <2>3
<1>22. Users(hs', m) = Users(hs, m) \union {h} /\ h \notin Users(hs, m)
  BY <1>3, <1>6, <1>12, <1>13 DEF Users
<1>23. ASSUME NEW k, k # m, k # "none" PROVE Users(hs', k) = Users(hs, k)
  BY <1>3, <1>12, <1>13, <1>23 DEF Users
<1>24. IsFiniteSet(Users(hs, m))
  <2>1. Users(hs, m) \subseteq Handlers
    BY DEF Users
  <2> QED
    BY <2>1, FS_Subset DEF PaymentAssumption
<1>25. Cardinality(Users(hs', m)) = Cardinality(Users(hs, m)) + 1
  BY <1>22, <1>24, FS_AddElement
<1>26. refCount'[m] = Cardinality(Users(hs', m))
  <2>1. CASE new
    <3>1. Users(hs, m) = {}
      BY <2>1, <1>14 DEF Users
    <3>2. Cardinality(Users(hs, m)) = 0
      BY <3>1, FS_EmptySet
    <3> QED
      BY <2>1, <3>2, <1>8, <1>25
  <2>2. CASE ~new
    <3>1. orderLocks[n][o] # "none"
      BY <2>2 DEF new
    <3>2. refCount[m] = Cardinality(Users(hs, m))
      BY <2>2, <3>1, <1>2, <1>16 DEF LockInv, Counted, n, o
    <3> QED
      BY <2>2, <3>2, <1>16, <1>25
  <2> QED
    BY <2>1, <2>2
<1>27. Counted'
  <2> SUFFICES ASSUME NEW p \in Nodes, NEW q \in Orders, orderLocks'[p][q] # "none"
               PROVE  refCount'[orderLocks'[p][q]] = Cardinality(Users(hs', orderLocks'[p][q]))
    BY DEF Counted
  <2> DEFINE k == orderLocks'[p][q]
  <2>1. CASE k = m
    BY <2>1, <1>26
  <2>2. CASE k # m
    <3>1. orderLocks[p][q] = k /\ k \in Handlers
      BY <2>2, <1>7
    <3>2. refCount[k] = Cardinality(Users(hs, k))
      BY <3>1 DEF LockInv, Counted
    <3>3. Users(hs', k) = Users(hs, k)
      BY <2>2, <1>23
    <3> QED
      BY <2>2, <3>1, <3>2, <3>3, <1>8
  <2> QED
    BY <2>1, <2>2
<1>28. OneHolder'
  BY <1>17 DEF LockInv, OneHolder
<1> QED
  BY <1>11, <1>20, <1>21, <1>27, <1>28 DEF LockInv

\* LockOrder, second part: nobody holds a mutex that is not locked.
LEMMA LockLock ==
  ASSUME TypeOK, LockInv, NEW h \in Handlers, Lock(h)
  PROVE  TypeOK' /\ LockInv'
<1>1. hs[h] # Idle /\ hs[h].pc = "lock"
  BY BusyAt DEF Lock, At
<1> DEFINE m == hs[h].rcm
<1>2. m \in Handlers /\ m # "none" /\ ~mu[m]
  BY <1>1, Busy DEF LockInv, Pointer, Lock
<1>3. /\ mu' \in [Handlers -> BOOLEAN] /\ mu'[m]
      /\ \A k \in Handlers \ {m} : mu'[k] = mu[k]
  BY <1>2 DEF Lock, TypeOK
<1>4. Now(h, "read", m)
  BY <1>1, MovedPc DEF Lock, PCs
<1>5. TypeOK'
  BY <1>3, <1>4 DEF TypeOK, Now, Lock
<1>6. /\ hs'[h] # Idle /\ hs'[h].pc = "read" /\ hs'[h].rcm = m
      /\ hs'[h].node = hs[h].node /\ hs'[h].order = hs[h].order
  BY <1>4, NotIdle DEF Now
<1>7. \A g \in Handlers \ {h} : hs'[g] = hs[g]
  BY <1>4 DEF Now
<1>8. orderLocks' = orderLocks /\ refCount' = refCount
  BY DEF Lock
<1> HIDE DEF m
<1>9. \A g \in Handlers : Holds(g) => hs[g].rcm # m
  BY <1>2 DEF LockInv, Locked
<1>10. ASSUME NEW g \in Handlers PROVE Pointer(g)' /\ Locked(g)'
  <2>1. Pointer(g) /\ Locked(g)
    BY DEF LockInv
  <2>2. CASE g = h
    BY <2>1, <2>2, <1>1, <1>3, <1>6, <1>8 DEF Pointer, Locked, m
  <2>3. CASE g # h
    <3>1. hs'[g] = hs[g]
      BY <2>3, <1>7
    <3>2. Holds(g) => hs[g].rcm \in Handlers
      BY Busy DEF Holds
    <3>3. Locked(g)'
      BY <2>1, <3>1, <3>2, <1>3, <1>9 DEF Locked, Holds
    <3> QED
      BY <2>1, <3>1, <3>3, <1>8 DEF Pointer
  <2> QED
    BY <2>2, <2>3
<1>11. MapInjective'
  BY <1>8 DEF LockInv, MapInjective
<1>12. \A k : Users(hs', k) = Users(hs, k)
  BY <1>1, <1>6, <1>7 DEF Users, m
<1>13. Counted'
  BY <1>8, <1>12 DEF LockInv, Counted
<1>14. OneHolder'
  BY <1>6, <1>7, <1>9 DEF LockInv, OneHolder, Holds
<1> QED
  BY <1>5, <1>10, <1>11, <1>13, <1>14 DEF LockInv

\* UnlockOrder, first part: the mutex in the map is the one that was locked, and nobody
\* else holds it.
LEMMA UnlockLock ==
  ASSUME TypeOK, LockInv, NEW h \in Handlers, Unlock(h)
  PROVE  TypeOK' /\ LockInv'
<1>1. hs[h] # Idle /\ hs[h].pc = "unlock"
  BY BusyAt DEF Unlock, At
<1> DEFINE m == hs[h].rcm
<1>2. m \in Handlers /\ m # "none" /\ orderLocks[hs[h].node][hs[h].order] = m
  BY <1>1, Busy DEF LockInv, Pointer
<1>3. /\ mu' = [mu EXCEPT ![m] = FALSE]
      /\ hs' = [hs EXCEPT ![h].pc = "release", ![h].rcm = m]
  BY <1>2 DEF Unlock
<1>4. /\ mu' \in [Handlers -> BOOLEAN]
      /\ \A k \in Handlers \ {m} : mu'[k] = mu[k]
  BY <1>2, <1>3 DEF TypeOK
<1>5. Now(h, "release", m)
  BY <1>1, <1>2, <1>3, MovedMutex DEF PCs
<1>6. TypeOK'
  BY <1>4, <1>5 DEF TypeOK, Now, Unlock
<1>7. /\ hs'[h] # Idle /\ hs'[h].pc = "release" /\ hs'[h].rcm = m
      /\ hs'[h].node = hs[h].node /\ hs'[h].order = hs[h].order
  BY <1>5, NotIdle DEF Now
<1>8. \A g \in Handlers \ {h} : hs'[g] = hs[g]
  BY <1>5 DEF Now
<1>9. orderLocks' = orderLocks /\ refCount' = refCount
  BY DEF Unlock
<1>10. Holds(h)
  BY <1>1, <1>2 DEF Holds
<1> HIDE DEF m
<1>11. \A g \in Handlers : Holds(g) /\ hs[g].rcm = m => g = h
  BY <1>10 DEF LockInv, OneHolder, m
<1>12. ASSUME NEW g \in Handlers PROVE Pointer(g)' /\ Locked(g)'
  <2>1. Pointer(g) /\ Locked(g)
    BY DEF LockInv
  <2>2. CASE g = h
    BY <2>1, <2>2, <1>2, <1>7, <1>9 DEF Pointer, Locked, Holds, InTx
  <2>3. CASE g # h
    <3>1. hs'[g] = hs[g]
      BY <2>3, <1>8
    <3>2. Holds(g) => hs[g].rcm \in Handlers
      BY Busy DEF Holds
    <3>3. Locked(g)'
      BY <2>1, <2>3, <3>1, <3>2, <1>4, <1>11 DEF Locked, Holds
    <3> QED
      BY <2>1, <3>1, <3>3, <1>9 DEF Pointer
  <2> QED
    BY <2>2, <2>3
<1>13. MapInjective'
  BY <1>9 DEF LockInv, MapInjective
<1>14. \A k : Users(hs', k) = Users(hs, k)
  BY <1>1, <1>7, <1>8 DEF Users, m
<1>15. Counted'
  BY <1>9, <1>14 DEF LockInv, Counted
<1>16. OneHolder'
  BY <1>7, <1>8 DEF LockInv, OneHolder, Holds, InTx
<1> QED
  BY <1>6, <1>12, <1>13, <1>15, <1>16 DEF LockInv

\* UnlockOrder, second part: the mutex leaves the map with its last user.
LEMMA ReleaseLock ==
  ASSUME PaymentAssumption, TypeOK, LockInv, NEW h \in Handlers, Release(h)
  PROVE  TypeOK' /\ LockInv'
<1>1. hs[h] # Idle /\ hs[h].pc = "release"
  BY BusyAt DEF Release, At
<1> DEFINE m == hs[h].rcm
<1> DEFINE n == hs[h].node
<1> DEFINE o == hs[h].order
<1>2. m \in Handlers /\ m # "none" /\ orderLocks[n][o] = m
  BY <1>1, Busy DEF LockInv, Pointer
<1>3. n \in Nodes /\ o \in Orders
  BY <1>1, Busy
<1>4. orderLocks \in [Nodes -> [Orders -> Handlers \union {"none"}]] /\ refCount \in [Handlers -> Nat]
  BY DEF TypeOK
<1>5. /\ refCount' = [refCount EXCEPT ![m] = @ - 1]
      /\ orderLocks' = IF refCount[m] = 1 THEN [orderLocks EXCEPT ![n][o] = "none"] ELSE orderLocks
      /\ hs' = [hs EXCEPT ![h].pc = "reply", ![h].rcm = "none"]
      /\ mu' = mu
  BY DEF Release
<1>6. Now(h, "reply", "none")
  BY <1>1, <1>5, MovedMutex DEF PCs
<1>7. /\ hs'[h] # Idle /\ hs'[h].pc = "reply" /\ hs'[h].rcm = "none"
  BY <1>6, NotIdle DEF Now
<1>8. \A g \in Handlers \ {h} : hs'[g] = hs[g]
  BY <1>6 DEF Now
<1>9. h \in Users(hs, m) /\ Users(hs', m) = Users(hs, m) \ {h}
  BY <1>1, <1>2, <1>7, <1>8 DEF Users
<1>10. IsFiniteSet(Users(hs, m))
  <2>1. Users(hs, m) \subseteq Handlers
    BY DEF Users
  <2> QED
    BY <2>1, FS_Subset DEF PaymentAssumption
<1>11. /\ Cardinality(Users(hs', m)) = Cardinality(Users(hs, m)) - 1
       /\ Cardinality(Users(hs', m)) \in Nat /\ IsFiniteSet(Users(hs', m))
  BY <1>9, <1>10, FS_RemoveElement, FS_CardinalityType
<1>12. refCount[m] = Cardinality(Users(hs, m))
  BY <1>2, <1>3 DEF LockInv, Counted
<1>13. /\ refCount'[m] = refCount[m] - 1
       /\ \A k \in Handlers \ {m} : refCount'[k] = refCount[k]
  BY <1>2, <1>4, <1>5
<1>14. refCount[m] - 1 \in Nat
  BY <1>11, <1>12
<1>15. refCount' \in [Handlers -> Nat]
  BY <1>2, <1>4, <1>5, <1>14
<1>16. /\ orderLocks' \in [Nodes -> [Orders -> Handlers \union {"none"}]]
       /\ \A p \in Nodes, q \in Orders : p # n \/ q # o => orderLocks'[p][q] = orderLocks[p][q]
       /\ orderLocks'[n][o] = IF refCount[m] = 1 THEN "none" ELSE m
  BY <1>2, <1>3, <1>4, <1>5
<1>17. TypeOK'
  BY <1>5, <1>6, <1>15, <1>16 DEF TypeOK, Now, Release
<1>18. refCount[m] = 1 => Users(hs', m) = {}
  <2> SUFFICES ASSUME refCount[m] = 1 PROVE Users(hs', m) = {}
    OBVIOUS
  <2>1. Cardinality(Users(hs', m)) = 0
    BY <1>11, <1>12, <1>4, <1>2
  <2> QED
    BY <2>1, <1>11, FS_EmptySet
<1> HIDE DEF m, n, o
<1>19. \A g \in Handlers : Holds(g)' => g # h /\ Holds(g) /\ hs'[g].rcm = hs[g].rcm
  BY <1>7, <1>8 DEF Holds
<1>20. ASSUME NEW g \in Handlers PROVE Pointer(g)' /\ Locked(g)'
  <2>1. Pointer(g) /\ Locked(g)
    BY DEF LockInv
  <2>2. CASE g = h
    BY <2>2, <1>7 DEF Pointer, Locked, Holds
  <2>3. CASE g # h
    <3>1. hs'[g] = hs[g]
      BY <2>3, <1>8
    <3>2. Locked(g)'
      BY <2>1, <1>5, <1>19 DEF Locked
    <3>3. hs[g] # Idle /\ hs[g].rcm # "none" => orderLocks'[hs[g].node][hs[g].order] = hs[g].rcm
      <4> SUFFICES ASSUME hs[g] # Idle, hs[g].rcm # "none"
                   PROVE  orderLocks'[hs[g].node][hs[g].order] = hs[g].rcm
        OBVIOUS
      <4>1. orderLocks[hs[g].node][hs[g].order] = hs[g].rcm
        BY <2>1 DEF Pointer
      <4>2. hs[g].node \in Nodes /\ hs[g].order \in Orders
        BY Busy
      <4>3. CASE hs[g].node = n /\ hs[g].order = o
        <5>1. hs[g].rcm = m
          BY <4>1, <4>3, <1>2 DEF n, o
        <5>2. g \in Users(hs', m)
          BY <3>1, <5>1 DEF Users
        <5> QED
          BY <4>3, <5>1, <5>2, <1>16, <1>18
      <4>4. CASE ~(hs[g].node = n /\ hs[g].order = o)
        BY <4>1, <4>2, <4>4, <1>16
      <4> QED
        BY <4>3, <4>4
    <3> QED
      BY <2>1, <3>1, <3>2, <3>3 DEF Pointer
  <2> QED
    BY <2>2, <2>3
<1>21. \A p \in Nodes, q \in Orders : orderLocks'[p][q] # "none" => orderLocks'[p][q] = orderLocks[p][q]
  BY <1>2, <1>16 DEF n, o
<1>22. MapInjective'
  BY <1>21 DEF LockInv, MapInjective
<1>23. ASSUME NEW k, k # m, k # "none" PROVE Users(hs', k) = Users(hs, k)
  BY <1>1, <1>7, <1>8, <1>23 DEF Users, m
<1>24. Counted'
  <2> SUFFICES ASSUME NEW p \in Nodes, NEW q \in Orders, orderLocks'[p][q] # "none"
               PROVE  refCount'[orderLocks'[p][q]] = Cardinality(Users(hs', orderLocks'[p][q]))
    BY DEF Counted
  <2> DEFINE k == orderLocks'[p][q]
  <2>1. orderLocks[p][q] = k /\ k \in Handlers
    BY <1>16, <1>21
  <2>2. refCount[k] = Cardinality(Users(hs, k))
    BY <2>1 DEF LockInv, Counted
  <2>3. CASE k = m
    BY <2>3, <1>11, <1>12, <1>13
  <2>4. CASE k # m
    BY <2>1, <2>2, <2>4, <1>13, <1>23
  <2> QED
    BY <2>3, <2>4
<1>25. OneHolder'
  BY <1>19 DEF LockInv, OneHolder
<1> QED
  BY <1>17, <1>20, <1>22, <1>24, <1>25 DEF LockInv

\* A node restarts: its map and the users of its mutexes go together.
LEMMA CrashLock ==
  ASSUME PaymentAssumption, TypeOK, LockInv, NEW n \in Nodes, Crash(n)
  PROVE  TypeOK' /\ LockInv'
<1>1. /\ hs' = [h \in Handlers |-> IF hs[h] # Idle /\ hs[h].node = n THEN Idle ELSE hs[h]]
      /\ orderLocks' = [orderLocks EXCEPT ![n] = [o \in Orders |-> "none"]]
      /\ refCount' = refCount /\ mu' = mu
  BY DEF Crash
<1>2. orderLocks \in [Nodes -> [Orders -> Handlers \union {"none"}]]
      /\ hs \in [Handlers -> {Idle} \union HandlerType] /\ faults \in 0 .. MaxFaults
  BY DEF TypeOK
<1>3. /\ orderLocks' \in [Nodes -> [Orders -> Handlers \union {"none"}]]
      /\ \A p \in Nodes \ {n}, q \in Orders : orderLocks'[p][q] = orderLocks[p][q]
      /\ \A q \in Orders : orderLocks'[n][q] = "none"
  BY <1>1, <1>2
<1>4. /\ hs' \in [Handlers -> {Idle} \union HandlerType]
      /\ \A h \in Handlers : hs'[h] = IF hs[h] # Idle /\ hs[h].node = n THEN Idle ELSE hs[h]
  BY <1>1, <1>2
<1>5. faults' \in 0 .. MaxFaults
  BY <1>2 DEF Crash, PaymentAssumption
<1>6. TypeOK'
  BY <1>1, <1>3, <1>4, <1>5 DEF TypeOK, Crash
<1>7. \A h \in Handlers : hs'[h] # Idle => hs'[h] = hs[h] /\ hs[h].node # n
  BY <1>4
<1>8. \A h \in Handlers : Holds(h)' => Holds(h) /\ hs'[h].rcm = hs[h].rcm
  BY <1>7 DEF Holds
<1>9. ASSUME NEW g \in Handlers PROVE Pointer(g)' /\ Locked(g)'
  <2>1. Pointer(g) /\ Locked(g)
    BY DEF LockInv
  <2>2. Locked(g)'
    BY <2>1, <1>1, <1>8 DEF Locked
  <2>3. hs[g] # Idle => hs[g].node \in Nodes /\ hs[g].order \in Orders
    BY Busy
  <2>4. Pointer(g)'
    BY <2>1, <2>3, <1>3, <1>7 DEF Pointer
  <2> QED
    BY <2>2, <2>4
<1>10. \A p \in Nodes, q \in Orders : orderLocks'[p][q] # "none" => p # n /\ orderLocks'[p][q] = orderLocks[p][q]
  BY <1>3
<1>11. MapInjective'
  BY <1>10 DEF LockInv, MapInjective
<1>12. Counted'
  <2> SUFFICES ASSUME NEW p \in Nodes, NEW q \in Orders, orderLocks'[p][q] # "none"
               PROVE  refCount'[orderLocks'[p][q]] = Cardinality(Users(hs', orderLocks'[p][q]))
    BY DEF Counted
  <2> DEFINE k == orderLocks'[p][q]
  <2>1. orderLocks[p][q] = k /\ p # n
    BY <1>10
  <2>2. refCount[k] = Cardinality(Users(hs, k))
    BY <2>1 DEF LockInv, Counted
  <2>3. ASSUME NEW g \in Handlers, hs[g] # Idle, hs[g].rcm = k PROVE hs[g].node = p
    <3>1. orderLocks[hs[g].node][hs[g].order] = k
      BY <2>3 DEF LockInv, Pointer
    <3>2. hs[g].node \in Nodes /\ hs[g].order \in Orders
      BY <2>3, Busy
    <3> QED
      BY <2>1, <3>1, <3>2 DEF LockInv, MapInjective
  <2>4. Users(hs', k) = Users(hs, k)
    BY <2>1, <2>3, <1>4 DEF Users
  <2> QED
    BY <2>2, <2>4, <1>1
<1>13. OneHolder'
  BY <1>8 DEF LockInv, OneHolder
<1> QED
  BY <1>6, <1>9, <1>11, <1>12, <1>13 DEF LockInv

-----------------------------------------------------------------------------
(* The other steps keep the types, and through MoveLock or BareLock the    *)
(* invariant of the lock.                                                  *)

\* The handler leaves the transaction, or goes on in it.
LEMMA OutLock ==
  ASSUME TypeOK, LockInv, NEW h \in Handlers, hs[h].pc \in InTx,
         NEW b \in BOOLEAN, Leave(h, b), UNCHANGED locks
  PROVE  LockInv' /\ hs' \in [Handlers -> {Idle} \union HandlerType]
<1>1. hs[h] # Idle
  BY BusyAt DEF InTx
<1>2. Now(h, Exit(h), hs[h].rcm)
  BY <1>1, MovedOut
<1>3. LockInv'
  BY <1>1, <1>2, MoveLock DEF Exit
<1> QED
  BY <1>2, <1>3 DEF Now

\* A step within the transaction does not touch the locks.
LEMMA OnLock ==
  ASSUME TypeOK, LockInv, NEW h \in Handlers, hs[h].pc \in InTx,
         NEW pc \in InTx, Goto(h, pc), UNCHANGED locks
  PROVE  LockInv' /\ hs' \in [Handlers -> {Idle} \union HandlerType]
<1>1. hs[h] # Idle
  BY BusyAt DEF InTx
<1>2. Now(h, pc, hs[h].rcm)
  BY <1>1, MovedPc DEF InTx, PCs
<1>3. LockInv'
  BY <1>1, <1>2, MoveLock DEF InTx
<1> QED
  BY <1>2, <1>3 DEF Now

\* What an order is worth is a number.
LEMMA WorthType ==
  ASSUME PaymentAssumption, NEW k
  PROVE  Worth(k) \in Nat /\ ManualWorth(k) \in Nat
<1>1. Amount \in Nat /\ QuotaPerUnit \in Nat
  BY DEF PaymentAssumption
<1>2. Amount * QuotaPerUnit \in Nat
  BY <1>1
<1> QED
  BY <1>1, <1>2 DEF Worth, ManualWorth

\* A credit counts once, for one order.
LEMMA FulfilType ==
  ASSUME PaymentAssumption, TypeOK, NEW h \in Handlers, NEW o \in Orders, FulfilOrder(h, o)
  PROVE  /\ credits' \in [Orders -> Nat] /\ wallet' \in Nat
         /\ credits'[o] = credits[o] + 1
         /\ \A q \in Orders \ {o} : credits'[q] = credits[q]
<1>1. credits \in [Orders -> Nat] /\ wallet \in Nat
  BY DEF TypeOK
<1>2. credits' = [credits EXCEPT ![o] = @ + 1]
  BY DEF FulfilOrder
<1>3. Worth(kind[o]) \in Nat /\ ManualWorth(kind[o]) \in Nat
  BY WorthType
<1>4. wallet' \in Nat
  BY <1>1, <1>3 DEF FulfilOrder
<1> QED
  BY <1>1, <1>2, <1>4

\* One lemma for each step of a handler that holds the lock.
LEMMA ReadLock ==
  ASSUME TypeOK, LockInv, NEW h \in Handlers, Read(h)
  PROVE  TypeOK' /\ LockInv'
<1>1. hs[h].pc \in InTx /\ UNCHANGED locks
  BY DEF Read, At, InTx
<1>2. \/ Goto(h, "count") \/ Goto(h, "write")
      \/ \E b \in BOOLEAN : Leave(h, b)
  BY DEF Read
<1>3. "count" \in InTx /\ "write" \in InTx
  BY DEF InTx
<1>4. LockInv' /\ hs' \in [Handlers -> {Idle} \union HandlerType]
  BY <1>1, <1>2, <1>3, OnLock, OutLock
<1> QED
  BY <1>4 DEF Read, TypeOK, locks

\* Counting the subscriptions of the plan.
LEMMA CountLock ==
  ASSUME TypeOK, LockInv, NEW h \in Handlers, Count(h)
  PROVE  TypeOK' /\ LockInv'
<1>1. hs[h].pc \in InTx /\ UNCHANGED locks /\ "upsert" \in InTx
  BY DEF Count, At, InTx
<1>2. Goto(h, "upsert") \/ Leave(h, FALSE)
  BY DEF Count
<1>4. LockInv' /\ hs' \in [Handlers -> {Idle} \union HandlerType]
  BY <1>1, <1>2, OnLock, OutLock
<1> QED
  BY <1>4 DEF Count, TypeOK, locks

\* Reading whether the order has its row in the top-up history.
LEMMA UpsertLock ==
  ASSUME TypeOK, LockInv, NEW h \in Handlers, Upsert(h)
  PROVE  TypeOK' /\ LockInv'
<1>1. hs[h].pc \in InTx /\ UNCHANGED locks /\ "write" \in InTx
  BY DEF Upsert, At, InTx
<1>2. hs[h] # Idle
  BY <1>1, BusyAt DEF InTx
<1> DEFINE b == credits[hs[h].order] > 0
<1>3. b \in BOOLEAN
  BY <1>2, Busy DEF TypeOK
<1>6. hs' = [hs EXCEPT ![h].pc = "write", ![h].row = b]
  BY DEF Upsert
<1> HIDE DEF b
<1>4. Now(h, "write", hs[h].rcm)
  BY <1>2, <1>3, <1>6, MovedRow
<1>5. LockInv'
  BY <1>1, <1>2, <1>4, MoveLock DEF InTx
<1> QED
  BY <1>4, <1>5 DEF Upsert, TypeOK, locks, Now

\* The commit of a transaction that credits.
LEMMA CommitLock ==
  ASSUME PaymentAssumption, TypeOK, LockInv, NEW h \in Handlers, Commit(h)
  PROVE  TypeOK' /\ LockInv'
<1>1. hs[h].pc \in InTx /\ UNCHANGED locks
  BY DEF Commit, At, InTx
<1>2. hs[h] # Idle
  BY <1>1, BusyAt DEF InTx
<1>3. hs[h].order \in Orders
  BY <1>2, Busy
<1>4. \E b \in BOOLEAN : Leave(h, b)
  BY DEF Commit
<1>5. LockInv' /\ hs' \in [Handlers -> {Idle} \union HandlerType]
  BY <1>1, <1>4, OutLock
<1>6. \/ UNCHANGED <<status, credits, wallet>>
      \/ status' = [status EXCEPT ![hs[h].order] = "success"] /\ FulfilOrder(h, hs[h].order)
  BY DEF Commit
<1>7. /\ status' \in [Orders -> Final \union {"none", "pending"}]
      /\ credits' \in [Orders -> Nat] /\ wallet' \in Nat
  BY <1>3, <1>6, FulfilType DEF TypeOK, Final
<1> QED
  BY <1>5, <1>7 DEF Commit, TypeOK, locks

\* Epay saves the status first.
LEMMA EpaySaveLock ==
  ASSUME TypeOK, LockInv, NEW h \in Handlers, EpaySave(h)
  PROVE  TypeOK' /\ LockInv'
<1>1. hs[h].pc \in InTx /\ UNCHANGED locks /\ "credit" \in InTx /\ Goto(h, "credit")
  BY DEF EpaySave, At, InTx
<1>2. LockInv' /\ hs' \in [Handlers -> {Idle} \union HandlerType]
  BY <1>1, OnLock
<1>3. status' \in [Orders -> Final \union {"none", "pending"}]
  BY DEF TypeOK, Final, EpaySave
<1> QED
  BY <1>2, <1>3 DEF EpaySave, TypeOK, locks

\* Epay credits in a second statement.
LEMMA EpayCreditLock ==
  ASSUME PaymentAssumption, TypeOK, LockInv, NEW h \in Handlers, EpayCredit(h)
  PROVE  TypeOK' /\ LockInv'
<1>1. hs[h].pc \in InTx /\ UNCHANGED locks /\ Leave(h, TRUE)
  BY DEF EpayCredit, At, InTx
<1>2. LockInv' /\ hs' \in [Handlers -> {Idle} \union HandlerType]
  BY <1>1, OutLock
<1>3. hs[h].order \in Orders
  BY <1>1, BusyAt, Busy DEF InTx
<1>4. credits' \in [Orders -> Nat] /\ wallet' \in Nat
  BY <1>3, FulfilType DEF EpayCredit
<1> QED
  BY <1>2, <1>4 DEF EpayCredit, TypeOK, locks

\* An order is closed.
LEMMA CloseLock ==
  ASSUME TypeOK, LockInv, NEW h \in Handlers, Close(h)
  PROVE  TypeOK' /\ LockInv'
<1>1. hs[h].pc \in InTx /\ UNCHANGED locks /\ Leave(h, TRUE)
  BY DEF Close, At, InTx
<1>2. LockInv' /\ hs' \in [Handlers -> {Idle} \union HandlerType]
  BY <1>1, OutLock
<1>3. status' \in [Orders -> Final \union {"none", "pending"}]
  BY DEF TypeOK, Final, Close, Closing
<1> QED
  BY <1>2, <1>3 DEF Close, TypeOK, locks

\* The handler answers and is idle again.
LEMMA ReplyLock ==
  ASSUME TypeOK, LockInv, NEW h \in Handlers, Reply(h)
  PROVE  TypeOK' /\ LockInv'
<1>1. hs[h] # Idle /\ hs[h].pc = "reply"
  BY BusyAt DEF Reply, At
<1>2. hs[h].rcm = "none"
  BY <1>1 DEF LockInv, Pointer
<1>3. /\ hs' \in [Handlers -> {Idle} \union HandlerType] /\ hs'[h] = Idle
      /\ \A g \in Handlers \ {h} : hs'[g] = hs[g]
  BY DEF Reply, TypeOK
<1>4. LockInv'
  BY <1>2, <1>3, BareLock DEF Reply
<1>5. acked' \in [Orders -> BOOLEAN]
  <2> DEFINE o == hs[h].order
  <2>1. hs[h] \in HandlerType
    BY <1>1, Busy
  <2>2. \A b \in BOOLEAN : (b \/ (hs[h].event = "paid" /\ (hs[h].ok \/ kind[o] \in AlwaysAcks))) \in BOOLEAN
    OBVIOUS
  <2> QED
    BY <2>2 DEF TypeOK, Reply
<1> QED
  BY <1>3, <1>4, <1>5 DEF Reply, TypeOK, locks

\* A failing statement leads out.
LEMMA DbErrorLock ==
  ASSUME PaymentAssumption, TypeOK, LockInv, NEW h \in Handlers, DbError(h)
  PROVE  TypeOK' /\ LockInv'
<1>1. hs[h].pc \in InTx /\ UNCHANGED locks /\ Leave(h, FALSE)
  BY DEF DbError
<1>2. LockInv' /\ hs' \in [Handlers -> {Idle} \union HandlerType]
  BY <1>1, OutLock
<1>3. faults' \in 0 .. MaxFaults
  BY DEF DbError, TypeOK, PaymentAssumption
<1> QED
  BY <1>2, <1>3 DEF DbError, TypeOK, locks

\* A read that fails leads out too, with or without the lock.
LEMMA ReadErrorLock ==
  ASSUME PaymentAssumption, TypeOK, LockInv, NEW h \in Handlers, ReadError(h)
  PROVE  TypeOK' /\ LockInv'
<1>1. hs[h].pc \in {"read", "lookup"} /\ UNCHANGED locks /\ Leave(h, TRUE)
  BY DEF ReadError, ErrorIsAbsence, At
<1>2. hs[h] # Idle
  BY <1>1, BusyAt
<1>3. Now(h, Exit(h), hs[h].rcm)
  BY <1>1, <1>2, MovedOut
<1>4. LockInv'
  <2>1. CASE hs[h].pc = "read"
    BY <2>1, <1>1, OutLock DEF InTx
  <2>2. CASE hs[h].pc = "lookup"
    <3>1. hs[h].rcm = "none"
      BY <2>2, <1>2 DEF LockInv, Pointer
    <3>2. Exit(h) = "reply"
      BY <3>1 DEF Exit
    <3>3. /\ hs'[h].pc = "reply" /\ hs'[h].rcm = "none"
          /\ \A g \in Handlers \ {h} : hs'[g] = hs[g]
      BY <1>3, <3>1, <3>2 DEF Now
    <3> QED
      BY <1>1, <3>1, <3>3, BareLock
  <2> QED
    BY <1>1, <2>1, <2>2
<1>5. faults' \in 0 .. MaxFaults
  BY DEF ReadError, TypeOK, PaymentAssumption
<1>6. misread' \subseteq Orders
  BY <1>2, Busy DEF ReadError, TypeOK
<1> QED
  BY <1>3, <1>4, <1>5, <1>6 DEF ReadError, TypeOK, locks, Now

\* The record of a handler that begins.
Begun(h, n, o, e) ==
  /\ hs' \in [Handlers -> {Idle} \union HandlerType]
  /\ hs'[h] \in HandlerType
  /\ hs'[h].pc = (IF TakesLock(kind[o], e) THEN "lookup" ELSE "read")
  /\ hs'[h].node = n /\ hs'[h].order = o /\ hs'[h].event = e /\ hs'[h].rcm = "none"
  /\ \A g \in Handlers \ {h} : hs'[g] = hs[g]

\* A delivery starts an idle handler.
LEMMA DeliverBegins ==
  ASSUME TypeOK, NEW h \in Handlers, NEW n \in Nodes, NEW o \in Orders, NEW e \in Events,
         Deliver(h, n, o, e)
  PROVE  Begun(h, n, o, e)
<1> DEFINE pc == IF TakesLock(kind[o], e) THEN "lookup" ELSE "read"
<1> DEFINE t == [pc |-> pc, node |-> n, order |-> o, event |-> e,
                 rcm |-> "none", ok |-> TRUE, row |-> FALSE]
<1>1. pc \in {"lookup", "read"}
  OBVIOUS
<1>2. hs' = [hs EXCEPT ![h] = t]
  BY DEF Deliver
<1> HIDE DEF pc
<1>3. /\ t \in HandlerType /\ t.pc = pc /\ t.node = n /\ t.order = o /\ t.event = e
      /\ t.rcm = "none"
  BY <1>1 DEF HandlerType
<1> HIDE DEF t
<1>4. hs \in [Handlers -> {Idle} \union HandlerType]
  BY DEF TypeOK
<1> QED
  BY <1>2, <1>3, <1>4 DEF Begun, pc

\* A handler that starts points to no mutex.
LEMMA DeliverLock ==
  ASSUME TypeOK, LockInv, NEW h \in Handlers, NEW n \in Nodes, NEW o \in Orders, NEW e \in Events,
         Deliver(h, n, o, e)
  PROVE  TypeOK' /\ LockInv'
<1>1. Begun(h, n, o, e)
  BY DeliverBegins
<1>2. hs[h] = Idle /\ UNCHANGED locks
  BY DEF Deliver
<1>3. LockInv'
  BY <1>1, <1>2, BareLock DEF Begun
<1>4. approved' \subseteq Orders
  BY DEF Deliver, TypeOK
<1> QED
  BY <1>1, <1>3, <1>4 DEF Deliver, TypeOK, Begun, locks

\* What happens to orders outside the handlers.
LEMMA OrderStepLock ==
  ASSUME PaymentAssumption, TypeOK, LockInv, NEW o \in Orders,
         \/ \E k \in Kinds : Place(o, k)
         \/ Checkout(o) \/ CheckoutFails(o)
         \/ \E g \in Events : Settle(o, g)
         \/ AdminBind
  PROVE  TypeOK' /\ LockInv'
<1>1. UNCHANGED <<locks, hs>>
  BY DEF Place, Checkout, CheckoutFails, Settle, AdminBind
<1>2. LockInv'
  BY <1>1, QuietLock
<1>3. CASE \E k \in Kinds : Place(o, k)
  BY <1>2, <1>3 DEF TypeOK, Place, locks, Final
<1>4. CASE Checkout(o)
  BY <1>2, <1>4 DEF TypeOK, Checkout, locks
<1>5. CASE CheckoutFails(o)
  <2>1. status' \in [Orders -> Final \union {"none", "pending"}]
    <3>1. status \in [Orders -> Final \union {"none", "pending"}]
      BY DEF TypeOK
    <3>2. PICK s : s \in {"failed", "expired", status[o]} /\ status' = [status EXCEPT ![o] = s]
      <4>1. CASE kind[o] \in WaffoKinds
        <5>1. status' = [status EXCEPT ![o] = "failed"]
          BY <4>1, <1>5 DEF CheckoutFails, WaffoKinds
        <5> QED
          BY <5>1
      <4>2. CASE kind[o] \notin WaffoKinds
        BY <4>2, <1>5 DEF CheckoutFails
      <4> QED
        BY <4>1, <4>2
    <3>3. s \in Final \union {"none", "pending"}
      BY <3>1, <3>2 DEF Final
    <3> QED
      BY <3>1, <3>2, <3>3
  <2> QED
    BY <1>2, <1>5, <2>1 DEF TypeOK, CheckoutFails, locks
<1>6. CASE \E g \in Events : Settle(o, g)
  <2>1. PICK g \in Events : Settle(o, g)
    BY <1>6
  <2>2. g \in {"paid", "failed", "expired"}
    BY <2>1 DEF Settle, Outcomes
  <2>3. gateway' \in [Orders -> {"none", "opening", "open", "closed", "paid", "failed", "expired"}]
    BY <2>1, <2>2 DEF Settle, TypeOK
  <2> QED
    BY <1>2, <2>1, <2>3 DEF TypeOK, Settle, locks
<1>7. CASE AdminBind
  BY <1>2, <1>7 DEF TypeOK, AdminBind, locks
<1> QED
  BY <1>3, <1>4, <1>5, <1>6, <1>7

-----------------------------------------------------------------------------
(* Types and the order lock, for any deployment.                           *)

IInv == TypeOK /\ LockInv

\* At first no handler and no mutex is there.
LEMMA InitIInv ==
  ASSUME PaymentAssumption, Init
  PROVE  IInv
<1>1. TypeOK
  <2>1. /\ kind \in [Orders -> Kinds \union {"none"}]
        /\ status \in [Orders -> Final \union {"none", "pending"}]
        /\ gateway \in [Orders -> {"none", "opening", "open", "closed", "paid", "failed", "expired"}]
        /\ credits \in [Orders -> Nat] /\ wallet \in Nat
        /\ misread \subseteq Orders /\ approved \subseteq Orders
    BY DEF Init
  <2>2. acked \in [Orders -> BOOLEAN] /\ bound \in BOOLEAN /\ mu \in [Handlers -> BOOLEAN]
    BY DEF Init
  <2>3. /\ orderLocks \in [Nodes -> [Orders -> Handlers \union {"none"}]]
        /\ refCount \in [Handlers -> Nat]
        /\ hs \in [Handlers -> {Idle} \union HandlerType]
    BY DEF Init
  <2>4. faults \in 0 .. MaxFaults
    BY DEF Init, PaymentAssumption
  <2> QED
    BY <2>1, <2>2, <2>3, <2>4 DEF TypeOK
<1>2. \A h \in Handlers : hs[h] = Idle
  BY DEF Init
<1>3. \A n \in Nodes, o \in Orders : orderLocks[n][o] = "none"
  BY DEF Init
<1>4. LockInv
  BY <1>2, <1>3 DEF LockInv, Pointer, Locked, Holds, MapInjective, Counted, OneHolder
<1> QED
  BY <1>1, <1>4 DEF IInv

\* Every action keeps types and locks.
LEMMA NextIInv ==
  ASSUME PaymentAssumption, IInv, Next
  PROVE  IInv'
<1> USE DEF IInv
<1>1. CASE \E o \in Orders, k \in Kinds : Place(o, k)
  BY <1>1, OrderStepLock
<1>2. CASE \E o \in Orders : Checkout(o) \/ CheckoutFails(o)
  BY <1>2, OrderStepLock
<1>3. CASE \E o \in Orders, g \in Events : Settle(o, g)
  BY <1>3, OrderStepLock
<1>4. CASE \E h \in Handlers, n \in Nodes, o \in Orders, e \in Events : Deliver(h, n, o, e)
  BY <1>4, DeliverLock
<1>5. ASSUME NEW h \in Handlers, Step(h) PROVE TypeOK' /\ LockInv'
  BY <1>5, LookupLock, LockLock, ReadLock, CountLock, UpsertLock, CommitLock, EpaySaveLock,
     EpayCreditLock, CloseLock, UnlockLock, ReleaseLock, ReplyLock DEF Step
<1>6. ASSUME NEW h \in Handlers, DbError(h) \/ ReadError(h) PROVE TypeOK' /\ LockInv'
  BY <1>6, DbErrorLock, ReadErrorLock
<1>7. CASE \E n \in Nodes : Crash(n)
  BY <1>7, CrashLock
<1>8. CASE AdminBind
  <2>1. UNCHANGED <<locks, hs>>
    BY <1>8 DEF AdminBind
  <2> QED
    BY <1>8, <2>1, QuietLock DEF TypeOK, AdminBind, locks
<1> QED
  BY <1>1, <1>2, <1>3, <1>4, <1>5, <1>6, <1>7, <1>8 DEF Next

\* Nothing happens.
LEMMA StutterIInv ==
  ASSUME IInv, UNCHANGED vars
  PROVE  IInv'
<1>1. UNCHANGED <<locks, hs>>
  BY DEF vars
<1>2. LockInv'
  BY <1>1, QuietLock DEF IInv
<1> QED
  BY <1>2 DEF IInv, TypeOK, vars, locks

\* The types and the invariant of the order lock hold for any orders, nodes and handlers,
\* whatever crashes.
THEOREM Invariance == Spec => []IInv
<1>1. Init => IInv
  BY InitIInv, PaymentAssumption
<1>2. IInv /\ [Next]_vars => IInv'
  BY NextIInv, StutterIInv, PaymentAssumption
<1> QED
  BY <1>1, <1>2, PTL DEF Spec

\* The variables keep their types; in particular no reference count becomes negative.
THEOREM TypeCorrect == Spec => []TypeOK
<1>1. IInv => TypeOK
  BY DEF IInv
<1> QED
  BY <1>1, Invariance, PTL

\* Two handlers of one order on one node with its mutex are one.
LEMMA Exclusive ==
  ASSUME IInv, NEW g \in Handlers, NEW h \in Handlers, Holds(g), Holds(h),
         hs[g].node = hs[h].node, hs[g].order = hs[h].order
  PROVE  g = h
<1>1. hs[g].rcm = hs[h].rcm
  BY DEF IInv, LockInv, Pointer, Holds
<1> QED
  BY <1>1 DEF IInv, LockInv, OneHolder

\* The refcounted mutexes of LockOrder and UnlockOrder exclude, on every node and for any
\* number of handlers, although they are taken out of the map and made anew.
THEOREM LockExcludes == Spec => []OrderLockExclusive
<1>1. IInv => OrderLockExclusive
  BY Exclusive DEF OrderLockExclusive, Holds
<1> QED
  BY <1>1, Invariance, PTL

-----------------------------------------------------------------------------
(* The orders of a deployment with one node.                               *)

\* Every callback and every administrator request is served by one process, whose order
\* lock is then the lock of the order.
OneNode == \A m, n \in Nodes : m = n

\* The facts of the orders that handlers rely on.
orderVars == <<kind, status, gateway, approved, credits>>

\* Two handlers in the transaction of one order are one, unless one of them writes a
\* failure of Waffo.
LEMMA Alone ==
  ASSUME OneNode, IInv, CreditInv, NEW g \in Handlers, NEW h \in Handlers,
         hs[g] # Idle, hs[h] # Idle, hs[g].pc \in InTx, hs[h].pc \in InTx,
         hs[g].order = hs[h].order,
         \/ kind[hs[h].order] # "waffo"
         \/ hs[g].event # "failed" /\ hs[h].event # "failed"
  PROVE  g = h
<1>1. hs[g].rcm # "none" /\ hs[h].rcm # "none"
  BY DEF CreditInv, Serves
<1>2. hs[g].node = hs[h].node
  BY Busy DEF OneNode, IInv
<1> QED
  BY <1>1, <1>2, Exclusive DEF Holds

\* A step that only moves one handler.
LEMMA OnlyHandler ==
  ASSUME CreditInv, NEW h \in Handlers, UNCHANGED orderVars,
         \A g \in Handlers \ {h} : hs'[g] = hs[g], Serves(h)'
  PROVE  CreditInv'
<1>1. /\ kind' = kind /\ status' = status /\ gateway' = gateway
      /\ approved' = approved /\ credits' = credits
  BY DEF orderVars
<1>2. \A o \in Orders : OrderInv(o)'
  BY <1>1 DEF CreditInv, OrderInv
<1>3. ASSUME NEW g \in Handlers, g # h PROVE Serves(g)'
  BY <1>1, <1>3 DEF CreditInv, Serves
<1> QED
  BY <1>2, <1>3 DEF CreditInv

\* Outside the statements after the status was read a handler relies on its event alone,
\* and on the lock.
LEMMA Outside ==
  ASSUME CreditInv, NEW h \in Handlers, hs[h] # Idle, UNCHANGED orderVars,
         NEW pc, NEW m, Now(h, pc, m),
         pc \notin {"count", "upsert", "write", "credit"}, pc \in InTx => m # "none"
  PROVE  CreditInv'
<1>1. /\ kind' = kind /\ status' = status /\ gateway' = gateway
      /\ approved' = approved /\ credits' = credits
  BY DEF orderVars
<1>2. Serves(h)
  BY DEF CreditInv
<1>3. /\ hs'[h].pc = pc /\ hs'[h].rcm = m
      /\ hs'[h].order = hs[h].order /\ hs'[h].event = hs[h].event
  BY DEF Now
<1>4. Serves(h)'
  BY <1>1, <1>2, <1>3 DEF Serves
<1> QED
  BY <1>4, OnlyHandler DEF Now

\* Leaving the transaction changes no order.
LEMMA OutCredit ==
  ASSUME IInv, CreditInv, NEW h \in Handlers, hs[h] # Idle, UNCHANGED orderVars,
         NEW b \in BOOLEAN, Leave(h, b)
  PROVE  CreditInv'
<1>1. Now(h, Exit(h), hs[h].rcm)
  BY MovedOut DEF IInv
<1>2. Exit(h) \in {"unlock", "reply"}
  BY DEF Exit
<1> QED
  BY <1>1, <1>2, Outside DEF InTx

\* A handler goes on in the transaction.
LEMMA OnCredit ==
  ASSUME IInv, CreditInv, NEW h \in Handlers, hs[h] # Idle, hs[h].pc \in InTx, UNCHANGED orderVars,
         NEW pc \in {"count", "upsert", "write"}, Now(h, pc, hs[h].rcm),
         status[hs[h].order] = "pending" \/ hs[h].pc \in {"count", "upsert"},
         pc \in {"count", "upsert"} => hs[h].event \notin Closing
  PROVE  CreditInv'
<1>1. /\ kind' = kind /\ status' = status /\ gateway' = gateway
      /\ approved' = approved /\ credits' = credits
  BY DEF orderVars
<1>2. Serves(h)
  BY DEF CreditInv
<1>3. /\ hs'[h].pc = pc /\ hs'[h].rcm = hs[h].rcm
      /\ hs'[h].order = hs[h].order /\ hs'[h].event = hs[h].event
  BY DEF Now
<1>4. status[hs[h].order] = "pending" => credits[hs[h].order] = 0
  BY Busy DEF CreditInv, OrderInv, IInv
<1>5. Serves(h)'
  BY <1>1, <1>2, <1>3, <1>4 DEF Serves, InTx
<1> QED
  BY <1>5, OnlyHandler DEF Now

\* LockOrder, UnlockOrder and the answer.
LEMMA LockStepCredit ==
  ASSUME PaymentAssumption, IInv, CreditInv, NEW h \in Handlers,
         Lookup(h) \/ Lock(h) \/ Unlock(h) \/ Release(h) \/ Reply(h)
  PROVE  CreditInv'
<1>1. hs[h].pc \in PCs
  BY DEF Lookup, Lock, Unlock, Release, Reply, At, PCs
<1>2. hs[h] # Idle
  BY <1>1, BusyAt DEF PCs, IInv
<1>3. UNCHANGED orderVars
  BY DEF Lookup, Lock, Unlock, Release, Reply, orderVars
<1>4. TypeOK /\ Pointer(h) /\ hs[h].rcm \in Handlers \union {"none"}
  BY <1>2, Busy DEF IInv, LockInv
<1>5. CASE Lookup(h)
  <2>1. PICK m : /\ m \in IF orderLocks[hs[h].node][hs[h].order] = "none" THEN Handlers \ InUse
                                           ELSE {orderLocks[hs[h].node][hs[h].order]}
                 /\ hs' = [hs EXCEPT ![h].pc = "lock", ![h].rcm = m]
    BY <1>5 DEF Lookup
  <2>2. m \in Handlers \union {"none"}
    <3>1. hs[h].node \in Nodes /\ hs[h].order \in Orders
      BY <1>2, Busy DEF IInv
    <3> QED
      BY <2>1, <3>1 DEF IInv, TypeOK
  <2>3. Now(h, "lock", m)
    BY <2>1, <2>2, <1>2, <1>4, MovedMutex DEF PCs
  <2> QED
    BY <2>3, <1>2, <1>3, Outside DEF InTx
<1>6. CASE Lock(h)
  <2>1. hs[h].rcm # "none"
    BY <1>2, <1>4, <1>6 DEF Lock, At, Pointer
  <2>2. Now(h, "read", hs[h].rcm)
    BY <1>2, <1>4, <1>6, MovedPc DEF Lock, PCs
  <2> QED
    BY <2>1, <2>2, <1>2, <1>3, Outside
<1>7. CASE Unlock(h)
  <2>1. /\ hs[h].rcm # "none" /\ orderLocks[hs[h].node][hs[h].order] = hs[h].rcm
    BY <1>2, <1>4, <1>7 DEF Unlock, At, Pointer
  <2>2. hs' = [hs EXCEPT ![h].pc = "release", ![h].rcm = hs[h].rcm]
    BY <2>1, <1>7 DEF Unlock
  <2>3. Now(h, "release", hs[h].rcm)
    BY <2>2, <1>2, <1>4, MovedMutex DEF PCs
  <2> QED
    BY <2>3, <1>2, <1>3, Outside DEF InTx
<1>8. CASE Release(h)
  <2>1. Now(h, "reply", "none")
    BY <1>2, <1>4, <1>8, MovedMutex DEF Release, PCs
  <2> QED
    BY <2>1, <1>2, <1>3, Outside DEF InTx
<1>9. CASE Reply(h)
  <2>1. hs'[h] = Idle /\ \A g \in Handlers \ {h} : hs'[g] = hs[g]
    BY <1>4, <1>9 DEF Reply, TypeOK
  <2>2. Serves(h)'
    BY <2>1 DEF Serves
  <2> QED
    BY <2>1, <2>2, <1>3, OnlyHandler
<1> QED
  BY <1>5, <1>6, <1>7, <1>8, <1>9

\* What a handler reads under the lock is so.
LEMMA ReadCredit ==
  ASSUME PaymentAssumption, IInv, CreditInv, NEW h \in Handlers,
         Read(h) \/ Count(h) \/ Upsert(h) \/ DbError(h) \/ ReadError(h)
  PROVE  CreditInv'
<1>1. hs[h].pc \in InTx \/ ReadError(h)
  BY DEF Read, Count, Upsert, DbError, At, InTx
<1>2. hs[h] # Idle /\ TypeOK
  BY <1>1, BusyAt DEF InTx, IInv, ReadError, ErrorIsAbsence, At
<1>3. UNCHANGED orderVars
  BY DEF Read, Count, Upsert, DbError, ReadError, orderVars
<1>4. CASE Read(h)
  <2>1. CASE status[hs[h].order] = "pending"
    <3>1. PICK pc \in {"count", "write"} : Goto(h, pc) /\ (pc = "count" => hs[h].event \notin Closing)
      BY <1>4, <2>1 DEF Read
    <3>2. Now(h, pc, hs[h].rcm)
      BY <3>1, <1>2, MovedPc DEF PCs
    <3> QED
      BY <2>1, <3>1, <3>2, <1>2, <1>3, <1>4, OnCredit DEF Read, At, InTx
  <2>2. CASE status[hs[h].order] # "pending"
    BY <2>2, <1>2, <1>3, <1>4, OutCredit DEF Read
  <2> QED
    BY <2>1, <2>2
<1>5. CASE Count(h)
  <2>1. hs[h].pc = "count" /\ hs[h].event \notin Closing
    BY <1>2, <1>5 DEF Count, At, CreditInv, Serves
  <2>2. CASE Goto(h, "upsert")
    <3>1. Now(h, "upsert", hs[h].rcm)
      BY <1>2, <2>2, MovedPc DEF PCs
    <3> QED
      BY <2>1, <3>1, <1>2, <1>3, OnCredit DEF InTx
  <2>3. CASE Leave(h, FALSE)
    BY <2>3, <1>2, <1>3, OutCredit
  <2> QED
    BY <2>2, <2>3, <1>5 DEF Count
<1>6. CASE Upsert(h)
  <2> DEFINE b == credits[hs[h].order] > 0
  <2>1. b \in BOOLEAN
    BY <1>2, Busy DEF TypeOK
  <2>2. hs' = [hs EXCEPT ![h].pc = "write", ![h].row = b] /\ hs[h].pc = "upsert"
    BY <1>6 DEF Upsert, At
  <2> HIDE DEF b
  <2>3. Now(h, "write", hs[h].rcm)
    BY <2>1, <2>2, <1>2, MovedRow
  <2> QED
    BY <2>2, <2>3, <1>2, <1>3, OnCredit DEF InTx
<1>7. CASE DbError(h) \/ ReadError(h)
  BY <1>2, <1>3, <1>7, OutCredit DEF DbError, ReadError
<1> QED
  BY <1>4, <1>5, <1>6, <1>7

\* A step that writes the order of one handler and moves the handler out of the statements
\* after the read: what the others rely on stays, since they are not in the transaction of
\* that order, unless one of the two writes a failure of Waffo.
LEMMA WriteCredit ==
  ASSUME OneNode, PaymentAssumption, IInv, CreditInv, NEW h \in Handlers, hs[h] # Idle,
         NEW o \in Orders, hs[h].order = o,
         hs[h].pc \in InTx, NEW pc, Now(h, pc, hs[h].rcm), Serves(h)',
         kind' = kind, gateway' = gateway, approved' = approved,
         OrderInv(o)',
         \A q \in Orders \ {o} : status'[q] = status[q] /\ credits'[q] = credits[q],
         \/ kind[o] # "waffo"
         \/ hs[h].event # "failed"
         \/ credits'[o] = credits[o]
  PROVE  CreditInv'
<1>1. ASSUME NEW q \in Orders PROVE OrderInv(q)'
  <2>1. CASE q = o
    BY <2>1
  <2>2. CASE q # o
    BY <2>2 DEF CreditInv, OrderInv
  <2> QED
    BY <2>1, <2>2
<1>2. ASSUME NEW g \in Handlers, g # h PROVE Serves(g)'
  <2>1. hs'[g] = hs[g] /\ Serves(g)
    BY <1>2 DEF Now, CreditInv
  <2>2. CASE hs[g] = Idle
    BY <2>1, <2>2 DEF Serves
  <2>3. CASE hs[g] # Idle /\ hs[g].order # o
    <3>1. hs[g].order \in Orders
      BY <2>3, Busy DEF IInv
    <3>2. status'[hs[g].order] = status[hs[g].order] /\ credits'[hs[g].order] = credits[hs[g].order]
      BY <2>3, <3>1
    <3> QED
      BY <2>1, <3>2 DEF Serves
  <2>4. CASE hs[g] # Idle /\ hs[g].order = o /\ hs[g].pc \notin {"count", "upsert", "write", "credit"}
    BY <2>1, <2>4 DEF Serves
  <2>5. CASE hs[g] # Idle /\ hs[g].order = o /\ hs[g].pc \in {"count", "upsert", "write", "credit"}
    <3>1. hs[g].pc \in InTx
      BY <2>5 DEF InTx
    <3>2. kind[o] = "waffo"
      BY <1>2, <2>5, <3>1, Alone
    <3>3. hs[g].event = "failed" \/ hs[h].event = "failed"
      BY <1>2, <2>5, <3>1, Alone
    <3>4. hs[g].event \in Closing \/ credits'[o] = credits[o]
      BY <3>2, <3>3 DEF Closing
    <3> QED
      BY <2>1, <2>5, <3>2, <3>4 DEF Serves, WaffoKinds
  <2> QED
    BY <2>2, <2>3, <2>4, <2>5
<1> QED
  BY <1>1, <1>2 DEF CreditInv

\* An order fulfilled by a handler is fulfilled for the first time.
LEMMA CommitEffect ==
  ASSUME PaymentAssumption, IInv, CreditInv, NEW h \in Handlers, Commit(h)
  PROVE  /\ hs[h] # Idle /\ hs[h].pc = "write" /\ hs[h].order \in Orders
         /\ hs[h].event \in {"paid", "manual"}
         /\ credits[hs[h].order] = 0
         /\ status' = [status EXCEPT ![hs[h].order] = "success"]
         /\ FulfilOrder(h, hs[h].order)
         /\ Now(h, Exit(h), hs[h].rcm)
<1>1. hs[h].pc = "write" /\ hs[h].event \notin Closing
  BY DEF Commit, At
<1>2. hs[h] # Idle
  BY <1>1, BusyAt DEF IInv
<1>3. hs[h].order \in Orders /\ hs[h].event \in Events
  BY <1>2, Busy DEF IInv
<1>4. Serves(h)
  BY DEF CreditInv
<1>5. credits[hs[h].order] = 0 /\ hs[h].event # "unpaid"
  BY <1>1, <1>2, <1>4 DEF Serves
<1>6. hs[h].event \in {"paid", "manual"}
  BY <1>1, <1>3, <1>5 DEF Events, Closing
<1>7. ~(kind[hs[h].order] \in SubKinds /\ ~hs[h].row /\ credits[hs[h].order] > 0)
  BY <1>5
<1>8. /\ status' = [status EXCEPT ![hs[h].order] = "success"]
      /\ FulfilOrder(h, hs[h].order)
  BY <1>7 DEF Commit
<1>9. \E b \in BOOLEAN : Leave(h, b)
  BY DEF Commit
<1>10. Now(h, Exit(h), hs[h].rcm)
  BY <1>2, <1>9, MovedOut DEF IInv
<1> QED
  BY <1>1, <1>2, <1>3, <1>5, <1>6, <1>8, <1>10

\* The second statement of Epay credits an order that has none, once.
LEMMA EpayCreditEffect ==
  ASSUME IInv, CreditInv, NEW h \in Handlers, EpayCredit(h)
  PROVE  /\ hs[h] # Idle /\ hs[h].pc = "credit" /\ hs[h].order \in Orders
         /\ hs[h].event = "paid" /\ kind[hs[h].order] = "epay"
         /\ credits[hs[h].order] = 0 /\ status[hs[h].order] = "success"
         /\ FulfilOrder(h, hs[h].order)
         /\ Now(h, Exit(h), hs[h].rcm)
<1>1. hs[h].pc = "credit"
  BY DEF EpayCredit, At
<1>2. hs[h] # Idle
  BY <1>1, BusyAt DEF IInv
<1>3. hs[h].order \in Orders
  BY <1>2, Busy DEF IInv
<1>4. hs[h].event = "paid" /\ kind[hs[h].order] = "epay" /\ status[hs[h].order] = "success"
  BY <1>1, <1>2 DEF CreditInv, Serves
<1>5. credits[hs[h].order] = 0
  BY <1>1, <1>2, <1>4 DEF CreditInv, Serves, Closing
<1>6. Now(h, Exit(h), hs[h].rcm)
  BY <1>2, MovedOut DEF IInv, EpayCredit
<1> QED
  BY <1>1, <1>2, <1>3, <1>4, <1>5, <1>6 DEF EpayCredit

\* The steps that write an order, by the only handler that holds its lock.
LEMMA WriterCredit ==
  ASSUME OneNode, PaymentAssumption, IInv, CreditInv, NEW h \in Handlers,
         Commit(h) \/ EpaySave(h) \/ EpayCredit(h) \/ Close(h)
  PROVE  CreditInv'
<1>1. hs[h].pc \in {"write", "credit"}
  BY DEF Commit, EpaySave, EpayCredit, Close, At
<1>2. hs[h] # Idle /\ hs[h].pc \in InTx /\ TypeOK
  BY <1>1, BusyAt DEF IInv, InTx
<1>3. PICK o \in Orders : o = hs[h].order
  BY <1>2, Busy DEF IInv
<1>4. kind' = kind /\ gateway' = gateway /\ approved' = approved
  BY DEF Commit, EpaySave, EpayCredit, Close
<1>5. Serves(h) /\ OrderInv(o)
  BY <1>3 DEF CreditInv
<1>6. status \in [Orders -> Final \union {"none", "pending"}]
  BY <1>2 DEF TypeOK
<1>7. Exit(h) \in {"unlock", "reply"}
  BY DEF Exit
<1>8. Now(h, Exit(h), hs[h].rcm) => Serves(h)'
  BY <1>2, <1>3, <1>4, <1>5, <1>7 DEF Serves, Now, InTx
<1>9. CASE Commit(h)
  <2>1. /\ hs[h].event \in {"paid", "manual"} /\ credits[o] = 0
        /\ status' = [status EXCEPT ![o] = "success"] /\ FulfilOrder(h, o)
        /\ Now(h, Exit(h), hs[h].rcm)
    BY <1>3, <1>9, CommitEffect
  <2>2. credits'[o] = 1 /\ \A q \in Orders \ {o} : credits'[q] = credits[q]
    BY <2>1, <1>2, <1>3, FulfilType
  <2>3. status'[o] = "success" /\ \A q \in Orders \ {o} : status'[q] = status[q]
    BY <2>1, <1>3, <1>6
  <2>4. OrderInv(o)'
    BY <2>2, <2>3, <1>2, <1>3, <1>4, <1>5 DEF OrderInv, Serves
  <2> QED
    BY <2>1, <2>2, <2>3, <2>4, <1>2, <1>3, <1>4, <1>8, WriteCredit
<1>10. CASE EpaySave(h)
  <2>1. /\ kind[o] = "epay" /\ hs[h].event = "paid" /\ hs[h].pc = "write"
        /\ status' = [status EXCEPT ![o] = "success"] /\ credits' = credits
        /\ Goto(h, "credit")
    BY <1>3, <1>10 DEF EpaySave, At
  <2>2. Now(h, "credit", hs[h].rcm)
    BY <2>1, <1>2, MovedPc DEF PCs
  <2>3. status'[o] = "success" /\ \A q \in Orders \ {o} : status'[q] = status[q]
    BY <2>1, <1>3, <1>6
  <2>4. OrderInv(o)'
    BY <2>1, <2>3, <1>4, <1>5 DEF OrderInv
  <2>5. credits[o] = 0
    BY <2>1, <1>2, <1>3, <1>5 DEF Serves, Closing
  <2>6. Serves(h)'
    BY <2>1, <2>2, <2>3, <2>5, <1>2, <1>3, <1>4, <1>5 DEF Serves, Now
  <2> QED
    BY <2>1, <2>2, <2>3, <2>4, <2>6, <1>2, <1>3, <1>4, WriteCredit
<1>11. CASE EpayCredit(h)
  <2>1. /\ hs[h].event = "paid" /\ kind[o] = "epay"
        /\ credits[o] = 0 /\ status[o] = "success" /\ FulfilOrder(h, o)
        /\ Now(h, Exit(h), hs[h].rcm)
    BY <1>3, <1>11, EpayCreditEffect
  <2>2. credits'[o] = 1 /\ \A q \in Orders \ {o} : credits'[q] = credits[q]
    BY <2>1, <1>2, <1>3, FulfilType
  <2>3. status' = status
    BY <1>11 DEF EpayCredit
  <2>4. OrderInv(o)'
    BY <2>1, <2>2, <2>3, <1>4, <1>5 DEF OrderInv
  <2> QED
    BY <2>1, <2>2, <2>3, <2>4, <1>2, <1>3, <1>4, <1>8, WriteCredit
<1>12. CASE Close(h)
  <2>1. /\ hs[h].event \in Closing
        /\ status' = [status EXCEPT ![o] = hs[h].event] /\ credits' = credits /\ Leave(h, TRUE)
    BY <1>3, <1>12 DEF Close
  <2>2. Now(h, Exit(h), hs[h].rcm)
    BY <2>1, <1>2, MovedOut
  <2>3. status'[o] = hs[h].event /\ \A q \in Orders \ {o} : status'[q] = status[q]
    BY <2>1, <1>3, <1>6
  <2>4. OrderInv(o)'
    BY <2>1, <2>3, <1>2, <1>3, <1>4, <1>5 DEF OrderInv, Serves, Closing
  <2> QED
    BY <2>1, <2>2, <2>3, <2>4, <1>2, <1>3, <1>4, <1>8, WriteCredit
<1> QED
  BY <1>9, <1>10, <1>11, <1>12

\* Placing an order and its checkout concern an order that no handler serves.
LEMMA PlacedCredit ==
  ASSUME PaymentAssumption, IInv, CreditInv, NEW o \in Orders,
         \/ \E k \in Kinds : Place(o, k)
         \/ Checkout(o) \/ CheckoutFails(o)
         \/ \E g \in Events : Settle(o, g)
  PROVE  CreditInv'
<1>1. TypeOK /\ OrderInv(o)
  BY DEF IInv, CreditInv
<1>2. /\ hs' = hs /\ credits' = credits /\ approved' = approved
      /\ \A q \in Orders \ {o} : kind'[q] = kind[q] /\ status'[q] = status[q] /\ gateway'[q] = gateway[q]
  BY <1>1 DEF Place, Checkout, CheckoutFails, Settle, TypeOK
<1>3. "none" \notin Kinds
  BY DEF PaymentAssumption, AllKinds
<1>4. OrderInv(o)'
  <2>1. CASE \E k \in Kinds : Place(o, k)
    <3>1. PICK k \in Kinds : Place(o, k)
      BY <2>1
    <3>2. kind[o] = "none" /\ kind'[o] = k /\ status'[o] = "pending"
      BY <3>1, <1>1 DEF Place, TypeOK
    <3> QED
      BY <3>2, <1>1, <1>2, <1>3 DEF OrderInv
  <2>2. CASE Checkout(o)
    <3>1. kind' = kind /\ status' = status /\ gateway[o] = "opening"
      BY <2>2 DEF Checkout
    <3> QED
      BY <3>1, <1>1, <1>2 DEF OrderInv
  <2>3. CASE CheckoutFails(o)
    <3>1. kind' = kind /\ gateway[o] = "opening" /\ status'[o] \in {"failed", "expired", status[o]}
      BY <2>3, <1>1 DEF CheckoutFails, TypeOK
    <3> QED
      BY <3>1, <1>1, <1>2 DEF OrderInv
  <2>4. CASE \E g \in Events : Settle(o, g)
    <3>1. kind' = kind /\ status' = status /\ gateway[o] = "open"
      BY <2>4 DEF Settle
    <3> QED
      BY <3>1, <1>1, <1>2 DEF OrderInv
  <2> QED
    BY <2>1, <2>2, <2>3, <2>4
<1>5. ASSUME NEW g \in Handlers PROVE Serves(g)'
  <2>1. Serves(g)
    BY DEF CreditInv
  <2>2. CASE hs[g] = Idle
    BY <2>2, <1>2 DEF Serves
  <2>3. CASE hs[g] # Idle /\ hs[g].order # o
    <3>1. hs[g].order \in Orders
      BY <2>3, Busy, <1>1
    <3>2. /\ kind'[hs[g].order] = kind[hs[g].order]
          /\ status'[hs[g].order] = status[hs[g].order]
          /\ gateway'[hs[g].order] = gateway[hs[g].order]
      BY <2>3, <3>1, <1>2
    <3> QED
      BY <2>1, <3>2, <1>2 DEF Serves
  <2>4. CASE hs[g] # Idle /\ hs[g].order = o
    <3>1. /\ kind[o] # "none"
          /\ hs[g].event \in Events
          /\ hs[g].event = "manual" => kind[o] \notin SubKinds
          /\ hs[g].event # "manual" => gateway[o] \notin {"none", "opening"}
      BY <2>1, <2>4, <1>1, Busy DEF Serves, PaymentAssumption, Events
    <3>2. ~ \E k \in Kinds : Place(o, k)
      BY <3>1 DEF Place
    <3>3. kind' = kind
      BY <3>2 DEF Checkout, CheckoutFails, Settle
    <3>4. /\ hs[g].event # "manual" => gateway'[o] \notin {"none", "opening"}
          /\ hs[g].event = "paid" => gateway'[o] = "paid"
      <4>1. CASE Checkout(o) \/ CheckoutFails(o)
        BY <4>1, <2>1, <2>4, <3>1, <1>1 DEF Checkout, CheckoutFails, Serves
      <4>2. CASE \E e \in Events : Settle(o, e)
        <5>1. PICK e \in Events : Settle(o, e)
          BY <4>2
        <5>2. gateway[o] = "open" /\ gateway'[o] = e /\ e \in {"paid", "failed", "expired"}
          BY <5>1, <1>1 DEF Settle, Outcomes, TypeOK
        <5> QED
          BY <5>2, <2>1, <2>4 DEF Serves
      <4> QED
        BY <4>1, <4>2, <3>2
    <3>5. kind[o] \notin WaffoKinds => status'[o] = status[o]
      <4>1. CASE CheckoutFails(o)
        <5>1. gateway[o] = "opening" /\ status' = [status EXCEPT ![o] =
                CASE kind[o] \in WaffoKinds -> "failed"
                  [] kind[o] = "sub" /\ @ = "pending" -> "expired"
                  [] OTHER -> @]
          BY <4>1 DEF CheckoutFails
        <5>2. kind[o] # "sub"
          BY <3>1, <5>1 DEF SubKinds
        <5> QED
          BY <5>1, <5>2, <1>1 DEF TypeOK
      <4>2. CASE ~CheckoutFails(o)
        BY <4>2, <3>2 DEF Checkout, Settle
      <4> QED
        BY <4>1, <4>2
    <3> QED
      BY <2>1, <2>4, <3>3, <3>4, <3>5, <1>2 DEF Serves, WaffoKinds
  <2> QED
    BY <2>2, <2>3, <2>4
<1>6. ASSUME NEW q \in Orders PROVE OrderInv(q)'
  <2>1. CASE q = o
    BY <2>1, <1>4
  <2>2. CASE q # o
    BY <2>2, <1>2 DEF CreditInv, OrderInv
  <2> QED
    BY <2>1, <2>2
<1> QED
  BY <1>5, <1>6 DEF CreditInv

\* A handler that starts has read nothing.
LEMMA DeliverCredit ==
  ASSUME PaymentAssumption, IInv, CreditInv, NEW h \in Handlers, NEW n \in Nodes,
         NEW o \in Orders, NEW e \in Events, Deliver(h, n, o, e)
  PROVE  CreditInv'
<1>1. Begun(h, n, o, e)
  BY DeliverBegins DEF IInv
<1>2. /\ kind' = kind /\ status' = status /\ gateway' = gateway /\ credits' = credits
      /\ approved' = IF e = "manual" THEN approved \union {o} ELSE approved
  BY DEF Deliver
<1>3. e # "unpaid" /\ Sends(o, e)
  BY DEF Deliver, Accepts
<1>4. e = "manual" => kind[o] \in ManualKinds
  BY <1>3 DEF Sends
<1>5. /\ e # "manual" => gateway[o] \notin {"none", "opening"}
      /\ e = "paid" => gateway[o] = "paid"
  BY <1>3 DEF Sends, Events
<1>6. kind[o] # "none"
  <2>1. "none" \notin ManualKinds
    BY DEF PaymentAssumption, AllKinds
  <2>2. kind[o] = "none" => gateway[o] = "none"
    BY DEF CreditInv, OrderInv
  <2> QED
    BY <2>1, <2>2, <1>4, <1>5 DEF Events
<1>7. ~TakesLock(kind[o], e) => kind[o] = "waffo" /\ e = "failed"
  BY DEF TakesLock
<1>8. Serves(h)'
  BY <1>1, <1>2, <1>3, <1>4, <1>5, <1>6, <1>7 DEF Begun, Serves, InTx
<1>9. ASSUME NEW g \in Handlers, g # h PROVE Serves(g)'
  BY <1>1, <1>2, <1>9 DEF Begun, CreditInv, Serves
<1>10. \A q \in Orders : OrderInv(q)'
  BY <1>2 DEF CreditInv, OrderInv
<1> QED
  BY <1>8, <1>9, <1>10 DEF CreditInv

\* A crash forgets what the handlers of the node have read.
LEMMA CrashCredit ==
  ASSUME IInv, CreditInv, NEW n \in Nodes, Crash(n)
  PROVE  CreditInv'
<1>1. /\ kind' = kind /\ status' = status /\ gateway' = gateway
      /\ credits' = credits /\ approved' = approved
  BY DEF Crash
<1>2. \A h \in Handlers : hs'[h] = Idle \/ hs'[h] = hs[h]
  BY DEF Crash
<1> QED
  BY <1>1, <1>2 DEF CreditInv, OrderInv, Serves

-----------------------------------------------------------------------------
(* One node: orders are credited once and their final status stays.        *)

\* At first nothing is credited.
LEMMA InitCredit ==
  ASSUME Init
  PROVE  CreditInv
BY DEF Init, CreditInv, OrderInv, Serves

\* Every action keeps status and credits together.
LEMMA NextCredit ==
  ASSUME OneNode, PaymentAssumption, IInv, CreditInv, Next
  PROVE  CreditInv'
<1>1. CASE \E o \in Orders, k \in Kinds : Place(o, k)
  BY <1>1, PlacedCredit
<1>2. CASE \E o \in Orders : Checkout(o) \/ CheckoutFails(o)
  BY <1>2, PlacedCredit
<1>3. CASE \E o \in Orders, g \in Events : Settle(o, g)
  BY <1>3, PlacedCredit
<1>4. CASE \E h \in Handlers, n \in Nodes, o \in Orders, e \in Events : Deliver(h, n, o, e)
  BY <1>4, DeliverCredit
<1>5. ASSUME NEW h \in Handlers, Step(h) PROVE CreditInv'
  BY <1>5, LockStepCredit, ReadCredit, WriterCredit DEF Step
<1>6. ASSUME NEW h \in Handlers, DbError(h) \/ ReadError(h) PROVE CreditInv'
  BY <1>6, ReadCredit
<1>7. CASE \E n \in Nodes : Crash(n)
  BY <1>7, CrashCredit
<1>8. CASE AdminBind
  BY <1>8 DEF AdminBind, CreditInv, OrderInv, Serves
<1> QED
  BY <1>1, <1>2, <1>3, <1>4, <1>5, <1>6, <1>7, <1>8 DEF Next

\* Nothing happens.
LEMMA StutterCredit ==
  ASSUME CreditInv, UNCHANGED vars
  PROVE  CreditInv'
BY DEF vars, CreditInv, OrderInv, Serves

\* With one node the invariant of the orders holds, whatever is delivered, repeated or
\* lost in a crash.
THEOREM CreditInvariance == ASSUME OneNode PROVE Spec => [](IInv /\ CreditInv)
<1>1. Init => CreditInv
  BY InitCredit
<1>2. IInv /\ CreditInv /\ [Next]_vars => CreditInv'
  BY NextCredit, StutterCredit, PaymentAssumption
<1> QED
  BY <1>1, <1>2, Invariance, PTL DEF Spec

\* With one node an order is credited at most once, however its callbacks, its manual
\* completion, database errors and crashes interleave.
THEOREM CreditedOnce == ASSUME OneNode PROVE Spec => []CreditOnce
<1>1. CreditInv => CreditOnce
  BY DEF CreditInv, OrderInv, CreditOnce
<1> QED
  BY <1>1, CreditInvariance, PTL

\* What a step may do to the status of an order that is not pending.
LEMMA FinalStep ==
  ASSUME PaymentAssumption, IInv, CreditInv, Next,
         NEW o \in Orders, kind[o] \notin WaffoKinds, status[o] \in Final
  PROVE  status'[o] = status[o]
<1>1. status \in [Orders -> Final \union {"none", "pending"}]
  BY DEF IInv, TypeOK
<1>2. ASSUME NEW q \in Orders, NEW k \in Kinds, Place(q, k) PROVE status'[o] = status[o]
  <2>1. status[q] = "none" /\ status' = [status EXCEPT ![q] = "pending"]
    BY <1>2 DEF Place, CreditInv, OrderInv
  <2> QED
    BY <2>1, <1>1 DEF Final
<1>3. ASSUME NEW q \in Orders, CheckoutFails(q) PROVE status'[o] = status[o]
  BY <1>1, <1>3 DEF CheckoutFails, Final
<1>4. ASSUME NEW h \in Handlers, Commit(h) \/ EpaySave(h) \/ Close(h) PROVE status'[o] = status[o]
  <2>1. hs[h].pc = "write"
    BY <1>4 DEF Commit, EpaySave, Close, At
  <2>2. hs[h] # Idle
    BY <2>1, BusyAt DEF IInv
  <2>3. kind[hs[h].order] \notin WaffoKinds => status[hs[h].order] = "pending"
    BY <2>1, <2>2 DEF CreditInv, Serves
  <2>4. o # hs[h].order
    BY <2>3 DEF Final
  <2>5. status' = status \/ \E s : status' = [status EXCEPT ![hs[h].order] = s]
    BY <1>4 DEF Commit, EpaySave, Close
  <2> QED
    BY <2>4, <2>5, <1>1
<1>5. ASSUME NEW h \in Handlers, Step(h), ~(Commit(h) \/ EpaySave(h) \/ Close(h)) PROVE status' = status
  BY <1>5 DEF Step, Lookup, Lock, Read, Count, Upsert, EpayCredit, Unlock, Release, Reply
<1>6. CASE \E q \in Orders, k \in Kinds : Place(q, k)
  BY <1>2, <1>6
<1>7. CASE \E q \in Orders : Checkout(q) \/ CheckoutFails(q)
  BY <1>3, <1>7 DEF Checkout
<1>8. CASE \E q \in Orders, g \in Events : Settle(q, g)
  BY <1>8 DEF Settle
<1>9. CASE \E h \in Handlers, n \in Nodes, q \in Orders, e \in Events : Deliver(h, n, q, e)
  BY <1>9 DEF Deliver
<1>10. CASE \E h \in Handlers : Step(h) \/ DbError(h) \/ ReadError(h)
  BY <1>4, <1>5, <1>10 DEF DbError, ReadError
<1>11. CASE (\E n \in Nodes : Crash(n)) \/ AdminBind
  BY <1>11 DEF Crash, AdminBind
<1> QED
  BY <1>6, <1>7, <1>8, <1>9, <1>10, <1>11 DEF Next

\* With one node no step changes the final status of an order, except for Waffo and Pancake.
THEOREM StatusStays == ASSUME OneNode PROVE Spec => FinalStatusStays
<1>1. IInv /\ CreditInv /\ [Next]_vars =>
        [\A o \in Orders : kind[o] \notin WaffoKinds /\ status[o] \in Final => status'[o] = status[o]]_vars
  BY FinalStep, PaymentAssumption
<1> QED
  BY <1>1, CreditInvariance, PTL DEF Spec, FinalStatusStays

-----------------------------------------------------------------------------
(* One node: the orders implement the ledger.                              *)

\* The administrator completes no Creem order by hand: ManualCompleteTopUp multiplies the
\* Amount of every order by QuotaPerUnit, and Creem stores the quota itself.
CreemByGateway == "creem" \notin ManualKinds

worthOf == [o \in Orders |-> IF kind[o] = "none" THEN -1 ELSE Worth(kind[o])]
dueOf == approved \union {o \in Orders : gateway[o] = "paid"}
fulfilledOf == {o \in Orders : credits[o] > 0}

\* The administrator pays what the gateway's callback would.
LEMMA SameWorth ==
  ASSUME PaymentAssumption, CreemByGateway, NEW k \in ManualKinds
  PROVE  ManualWorth(k) = Worth(k)
BY DEF PaymentAssumption, CreemByGateway, AllKinds, SubKinds, ManualWorth, Worth

\* A step that touches none of what the ledger sees is a stutter.
LEMMA LedgerStutter ==
  ASSUME kind' = kind, approved' = approved, credits' = credits, wallet' = wallet,
         \A o \in Orders : gateway'[o] = "paid" <=> gateway[o] = "paid"
  PROVE  UNCHANGED Ledger!ledgerVars
<1>1. worthOf' = worthOf
  BY DEF worthOf
<1>2. dueOf' = dueOf
  BY DEF dueOf
<1>3. fulfilledOf' = fulfilledOf
  BY DEF fulfilledOf
<1> QED
  BY <1>1, <1>2, <1>3 DEF Ledger!ledgerVars, worthOf, dueOf, fulfilledOf

\* Placing an order is the ledger's placing.
LEMMA LedgerPlace ==
  ASSUME PaymentAssumption, IInv, CreditInv, NEW o \in Orders, NEW k \in Kinds, Place(o, k)
  PROVE  Ledger!PlaceOrder(o)
<1>1. kind \in [Orders -> Kinds \union {"none"}] /\ gateway \in [Orders -> {"none", "opening", "open", "closed", "paid", "failed", "expired"}]
  BY DEF IInv, TypeOK
<1>2. k # "none" /\ Worth(k) \in Nat
  BY WorthType DEF PaymentAssumption, AllKinds
<1>3. kind[o] = "none" /\ gateway[o] = "none"
  BY DEF Place, CreditInv, OrderInv
<1>4. kind'[o] = k /\ \A q \in Orders \ {o} : kind'[q] = kind[q]
  BY <1>1 DEF Place
<1>5. /\ worthOf[o] = -1 /\ worthOf'[o] = Worth(k)
      /\ \A q \in Orders \ {o} : worthOf'[q] = worthOf[q]
  BY <1>2, <1>3, <1>4 DEF worthOf
<1>6. worthOf' = [worthOf EXCEPT ![o] = worthOf'[o]]
  BY <1>5 DEF worthOf
<1>7. dueOf' = dueOf
  BY <1>1, <1>3 DEF Place, dueOf
<1>8. fulfilledOf' = fulfilledOf /\ wallet' = wallet
  BY DEF Place, fulfilledOf
<1> QED
  BY <1>2, <1>5, <1>6, <1>7, <1>8 DEF Ledger!PlaceOrder, Ledger!NotPlaced, worthOf, dueOf, fulfilledOf

\* An order becomes due when it is paid, or when the administrator asks for it.
LEMMA LedgerApprove ==
  ASSUME PaymentAssumption, NEW o \in Orders, kind[o] # "none",
         kind' = kind, credits' = credits, wallet' = wallet, dueOf' = dueOf \union {o}
  PROVE  Ledger!Approve(o)
<1>1. worthOf' = worthOf
  BY DEF worthOf
<1>2. worthOf[o] # -1
  BY WorthType DEF worthOf
<1>3. fulfilledOf' = fulfilledOf
  BY DEF fulfilledOf
<1> QED
  BY <1>1, <1>2, <1>3 DEF Ledger!Approve, Ledger!NotPlaced, worthOf, dueOf, fulfilledOf

\* A handler that credits fulfils a due order for its worth.
LEMMA LedgerFulfil ==
  ASSUME PaymentAssumption, CreemByGateway, IInv, CreditInv,
         NEW h \in Handlers, hs[h] # Idle, hs[h].event \in {"paid", "manual"},
         NEW o \in Orders, o = hs[h].order, credits[o] = 0, FulfilOrder(h, o),
         kind' = kind, gateway' = gateway, approved' = approved
  PROVE  Ledger!Fulfil(o)
<1>1. Serves(h) /\ TypeOK
  BY DEF CreditInv, IInv
<1>2. o \in dueOf
  BY <1>1 DEF Serves, dueOf
<1>3. credits'[o] = 1 /\ \A q \in Orders \ {o} : credits'[q] = credits[q]
  BY <1>1, FulfilType
<1>4. fulfilledOf' = fulfilledOf \union {o} /\ o \notin fulfilledOf
  BY <1>3 DEF fulfilledOf
<1>5. worthOf' = worthOf /\ dueOf' = dueOf
  BY DEF worthOf, dueOf
<1>6. worthOf[o] = Worth(kind[o])
  BY <1>1 DEF worthOf, Serves
<1>7. hs[h].event = "manual" => ManualWorth(kind[o]) = Worth(kind[o])
  BY <1>1, SameWorth DEF Serves
<1>8. wallet' = wallet + worthOf[o]
  BY <1>6, <1>7 DEF FulfilOrder
<1> QED
  BY <1>2, <1>4, <1>5, <1>8 DEF Ledger!Fulfil, worthOf, dueOf, fulfilledOf

\* Every step is one of the ledger, or leaves it alone.
LEMMA LedgerStep ==
  ASSUME PaymentAssumption, CreemByGateway, IInv, CreditInv, Next
  PROVE  [Ledger!LedgerNext]_(Ledger!ledgerVars)
<1>1. CASE \E o \in Orders, k \in Kinds : Place(o, k)
  BY <1>1, LedgerPlace DEF Ledger!LedgerNext
<1>2. ASSUME NEW o \in Orders, Checkout(o) \/ CheckoutFails(o) PROVE UNCHANGED Ledger!ledgerVars
  <2>1. \A q \in Orders : gateway'[q] = "paid" <=> gateway[q] = "paid"
    BY <1>2 DEF Checkout, CheckoutFails, IInv, TypeOK
  <2> QED
    BY <2>1, <1>2, LedgerStutter DEF Checkout, CheckoutFails
<1>3. ASSUME NEW o \in Orders, NEW g \in Events, Settle(o, g)
      PROVE  UNCHANGED Ledger!ledgerVars \/ Ledger!Approve(o)
  <2>1. gateway[o] = "open" /\ gateway' = [gateway EXCEPT ![o] = g] /\ kind[o] # "none"
    BY <1>3 DEF Settle, CreditInv, OrderInv
  <2>2. gateway \in [Orders -> {"none", "opening", "open", "closed", "paid", "failed", "expired"}]
    BY DEF IInv, TypeOK
  <2>3. CASE g = "paid"
    <3>1. dueOf' = dueOf \union {o}
      BY <2>1, <2>2, <2>3, <1>3 DEF dueOf, Settle
    <3> QED
      BY <2>1, <3>1, <1>3, LedgerApprove DEF Settle
  <2>4. CASE g # "paid"
    <3>1. \A q \in Orders : gateway'[q] = "paid" <=> gateway[q] = "paid"
      BY <2>1, <2>2, <2>4
    <3> QED
      BY <3>1, <1>3, LedgerStutter DEF Settle
  <2> QED
    BY <2>3, <2>4
<1>4. ASSUME NEW h \in Handlers, NEW n \in Nodes, NEW o \in Orders, NEW e \in Events, Deliver(h, n, o, e)
      PROVE  UNCHANGED Ledger!ledgerVars \/ Ledger!Approve(o)
  <2>1. CASE e = "manual"
    <3>1. kind[o] # "none"
      BY <2>1, <1>4 DEF Deliver, Sends, PaymentAssumption, AllKinds
    <3>2. dueOf' = dueOf \union {o}
      BY <2>1, <1>4 DEF Deliver, dueOf
    <3> QED
      BY <3>1, <3>2, <1>4, LedgerApprove DEF Deliver
  <2>2. CASE e # "manual"
    BY <2>2, <1>4, LedgerStutter DEF Deliver
  <2> QED
    BY <2>1, <2>2
<1>5. ASSUME NEW h \in Handlers, Commit(h) \/ EpayCredit(h)
      PROVE  \E o \in Orders : Ledger!Fulfil(o)
  <2>1. /\ hs[h] # Idle /\ hs[h].event \in {"paid", "manual"} /\ hs[h].order \in Orders
        /\ credits[hs[h].order] = 0 /\ FulfilOrder(h, hs[h].order)
    BY <1>5, CommitEffect, EpayCreditEffect
  <2>2. kind' = kind /\ gateway' = gateway /\ approved' = approved
    BY <1>5 DEF Commit, EpayCredit
  <2>3. PICK o \in Orders : o = hs[h].order
    BY <2>1
  <2>4. Ledger!Fulfil(o)
    BY <2>1, <2>2, <2>3, LedgerFulfil
  <2> QED
    BY <2>4
<1>6. ASSUME NEW h \in Handlers, Step(h) \/ DbError(h) \/ ReadError(h), ~(Commit(h) \/ EpayCredit(h))
      PROVE  UNCHANGED Ledger!ledgerVars
  <2>1. kind' = kind /\ gateway' = gateway /\ approved' = approved /\ credits' = credits /\ wallet' = wallet
    BY <1>6 DEF Step, DbError, ReadError, Lookup, Lock, Read, Count, Upsert, EpaySave, Close, Unlock, Release, Reply
  <2> QED
    BY <2>1, LedgerStutter
<1>7. ASSUME (\E n \in Nodes : Crash(n)) \/ AdminBind PROVE UNCHANGED Ledger!ledgerVars
  BY <1>7, LedgerStutter DEF Crash, AdminBind
<1>8. CASE \E o \in Orders : Checkout(o) \/ CheckoutFails(o)
  BY <1>2, <1>8
<1>9. CASE \E o \in Orders, g \in Events : Settle(o, g)
  BY <1>3, <1>9 DEF Ledger!LedgerNext
<1>10. CASE \E h \in Handlers, n \in Nodes, o \in Orders, e \in Events : Deliver(h, n, o, e)
  BY <1>4, <1>10 DEF Ledger!LedgerNext
<1>11. CASE \E h \in Handlers : Step(h) \/ DbError(h) \/ ReadError(h)
  BY <1>5, <1>6, <1>11 DEF Ledger!LedgerNext
<1> QED
  BY <1>1, <1>7, <1>8, <1>9, <1>10, <1>11 DEF Next

\* The initial states are the ledger's.
LEMMA LedgerBegins ==
  ASSUME Init
  PROVE  Ledger!LedgerInit
<1>1. worthOf = [o \in Orders |-> -1]
  BY DEF Init, worthOf
<1>2. dueOf = {}
  BY DEF Init, dueOf
<1>3. fulfilledOf = {}
  BY DEF Init, fulfilledOf
<1> QED
  BY <1>1, <1>2, <1>3 DEF Init, Ledger!LedgerInit, Ledger!NotPlaced, worthOf, dueOf, fulfilledOf

\* With one node, and Creem orders left to their gateway, the rows, locks, callbacks and
\* transactions implement the ledger: what the user receives is the worth of each order
\* paid or approved, once.
THEOREM OrdersImplementLedger ==
  ASSUME OneNode, CreemByGateway
  PROVE  Spec => ImplementsLedger
<1>1. Init => Ledger!LedgerInit
  BY LedgerBegins
<1>2. IInv /\ CreditInv /\ [Next]_vars => [Ledger!LedgerNext]_(Ledger!ledgerVars)
  <2>1. UNCHANGED vars => UNCHANGED Ledger!ledgerVars
    BY LedgerStutter DEF vars
  <2> QED
    BY <2>1, LedgerStep, PaymentAssumption
<1> QED
  BY <1>1, <1>2, CreditInvariance, PTL DEF Spec, ImplementsLedger, Ledger!LedgerSpec
=============================================================================
