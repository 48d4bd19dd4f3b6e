------------------------ MODULE BillingSessionProofs ------------------------
(***************************************************************************)
(* What a request pays, for any number of requests, any prices, any mix of *)
(* funding sources and any faults.                                         *)
(*                                                                         *)
(* ExactCharge, NeverOverRefunded and OneSource speak of requests that     *)
(* have ended, or of what must never happen; none is inductive.  IInv says *)
(* at every control point of the handler and of the refund goroutine what  *)
(* the session remembers (SessionInv), what the columns hold at least, so  *)
(* that whatever is still given back was taken before (HeldInv), and, as   *)
(* long as no write has failed, what they hold exactly (ExactInv).  All of *)
(* it is about one request, the others change only the columns: the        *)
(* invariant is stated for the local state of a request, its data q,       *)
(* record c, session s, control point k, refund goroutine f and ledger l.  *)
(*                                                                         *)
(* TokenOverdraftBounded is about all the requests: OverdraftInv weighs    *)
(* what is left of the token against what the requests have taken on top   *)
(* of their pre-consumption and what they may still take unchecked.        *)
(***************************************************************************)
EXTENDS BillingSession, SumTheorems, TLAPS

\* The session has not taken anything from its source yet.
Opening(s, k) ==
  \/ k \in {"new", "subscription", "hasSub", "wallet", "fund", "rollback", "rollbackTry", "rejected"}
  \/ k \in {"checkToken", "decToken"} /\ ~s.reserving

\* Reserve has written the source and not yet the token.
Reserving(s, k) ==
  \/ k = "undoReserve"
  \/ k \in {"checkToken", "decToken"} /\ s.reserving

\* n times m, for the at most MaxAttempts attempts of a refund
Times(n, m) == IF n = 0 THEN 0 ELSE IF n = 1 THEN m ELSE IF n = 2 THEN 2 * m ELSE 3 * m

\* what the torn attempts of a refund may have given back too much
Excess(s, f) == Times(IF f.torn = 3 THEN 2 ELSE f.torn, s.consumed)

OpeningInv(c, s, k, l) ==
  /\ s.pre = 0 /\ s.consumed = 0 /\ s.extra = 0 /\ s.used = 0
  /\ ~s.settled /\ ~s.refunded /\ ~s.reserving
  /\ l.wallet = 0 /\ l.sub = 0 /\ l.outside = 0
  /\ c = "none" /\ (k = "new" => l.token = 0)
  /\ k \in {"new", "subscription", "hasSub", "wallet"} => s = NoSession
  /\ k \in {"checkToken", "decToken", "fund"} => s.funding # "none" /\ s.delta = s.amount
  /\ s.tokenConsumed = IF k \in {"fund", "rollback", "rollbackTry"} THEN s.amount ELSE 0

ChargedInv(c, s, k, l) ==
  /\ s.tokenConsumed = s.pre
  /\ s.funding = "none" => s.pre = 0 /\ s.consumed = 0
  /\ s.funding = "subscription" => c # "none" /\ s.pre = s.consumed + s.extra
  /\ s.funding = "wallet" =>
       /\ Reserving(s, k) => s.consumed = s.pre + s.delta
       /\ ~Reserving(s, k) => s.consumed >= s.pre
       /\ ~Reserving(s, k) /\ (l.clean \/ k \notin {"failing", "fee", "feeToken", "done"}) =>
            s.consumed = s.pre

\* the control points and the session
SessionInv(q, c, s, k, f, l) ==
  /\ Opening(s, k) => OpeningInv(c, s, k, l)
  /\ ~Opening(s, k) /\ k # "lost" => ChargedInv(c, s, k, l)
  /\ k = "undoReserve" => s.reserving
  /\ s.reserving => Reserving(s, k) \/ k = "lost"
  /\ Reserving(s, k) => s.delta > 0 /\ s.funding # "none"
  /\ k \in {"chunkFund", "chunkToken", "feeToken"} => s.delta > 0
  /\ k \in {"settleFund", "settleToken"} => s.delta = s.actual - s.pre
  /\ k \in {"checkToken", "decToken", "undoReserve", "chunkToken", "settleToken", "feeToken"} =>
       ~q.playground
  /\ s.settled => k = "done" /\ ~s.refunded
  /\ s.refunded => k \in {"fee", "feeToken", "done", "lost"} /\ s.funding # "none"
  /\ s.refunded <=> f.pc # "idle"
  /\ f.pc = "idle" => f.tries = 0 /\ f.torn = 0
  /\ f.pc = "fund" => f.tries < MaxAttempts
  /\ f.torn <= f.tries
  /\ f.torn > 0 => s.funding = "subscription"
  /\ f.torn = MaxAttempts => c # "refunded"
  /\ c = "refunded" => f.pc # "idle"
  /\ f.pc = "lost" => k \in {"done", "lost"}

\* what may still be given back
HeldInv(q, c, s, k, f, l) ==
  /\ l.wallet >= 0 /\ l.token >= 0 /\ l.sub >= -Excess(s, f)
  /\ s.funding # "subscription" => l.sub = 0 /\ c = "none"
  /\ s.funding = "subscription" => l.wallet = 0
  /\ q.playground => l.token = 0
  /\ ~q.playground /\ (f.pc \in {"fund", "extra", "token"} \/ (f.pc = "idle" /\ k # "done")) =>
       l.token >= s.tokenConsumed
  /\ s.funding = "wallet"
       /\ (f.pc = "fund" \/ (f.pc = "idle" /\ k \notin {"settleToken", "done", "lost"})) =>
       l.wallet >= s.consumed
  /\ s.funding = "subscription" =>
       /\ f.pc = "idle" /\ k \notin {"settleToken", "done", "lost"} =>
            l.sub >= s.consumed + s.extra + (IF Reserving(s, k) THEN s.delta ELSE 0)
       /\ f.pc = "fund" =>
            l.sub >= (IF c = "refunded" THEN 0 ELSE s.consumed) + s.extra - Times(f.torn, s.consumed)
       /\ f.pc = "extra" => l.sub >= s.extra - Excess(s, f)

\* what the source has paid for the session
FundPrice(c, s, k, f) ==
  IF Opening(s, k) THEN 0
  ELSE IF Reserving(s, k) THEN s.pre + s.delta
  ELSE IF k = "settleToken" \/ s.settled THEN s.actual
  ELSE IF f.pc = "fund" THEN IF c = "refunded" THEN s.extra ELSE s.pre
  ELSE IF f.pc = "extra" THEN IF s.funding = "subscription" THEN s.extra ELSE 0
  ELSE IF f.pc \in {"token", "finished"} THEN 0
  ELSE s.pre

\* what the token has paid for the session
TokenPrice(s, k, f) ==
  IF Opening(s, k) THEN s.tokenConsumed
  ELSE IF s.settled THEN s.actual
  ELSE IF f.pc = "finished" THEN 0
  ELSE s.pre

\* a write to the token that is still due for what was billed outside the session
Pending(s, k) == IF k \in {"chunkToken", "feeToken"} THEN s.delta ELSE 0

ExactInv(q, c, s, k, f, l) ==
  l.clean /\ f.torn = 0 /\ k # "lost" /\ f.pc # "lost" =>
    /\ l.wallet + l.sub = FundPrice(c, s, k, f) + l.outside
    /\ ~q.playground => l.token + Pending(s, k) = TokenPrice(s, k, f) + l.outside

LocalInv(q, c, s, k, f, l) ==
  /\ SessionInv(q, c, s, k, f, l)
  /\ HeldInv(q, c, s, k, f, l)
  /\ ExactInv(q, c, s, k, f, l)

ReqInv(r) == LocalInv(req[r], record[r], ses[r], pc[r], refund[r], ledger[r])

IInv == TypeOK /\ \A r \in Requests : ReqInv(r)

-----------------------------------------------------------------------------
(* Steps of one request                                                     *)

RecordType == {"none", "consumed", "refunded"}
ColumnsOK == userQuota \in Int /\ tokenRemain \in Int /\ subUsed \in Nat

Locals(q, c, s, k, f, l) ==
  /\ q \in RequestType /\ c \in RecordType /\ s \in SessionType
  /\ k \in HandlerPcs /\ f \in RefundType /\ l \in LedgerType

\* The step gives request r a new local state and leaves the other requests alone.
Becomes(r, q, c, s, k, f, l) ==
  /\ req' = [req EXCEPT ![r] = q] /\ record' = [record EXCEPT ![r] = c]
  /\ ses' = [ses EXCEPT ![r] = s] /\ pc' = [pc EXCEPT ![r] = k]
  /\ refund' = [refund EXCEPT ![r] = f] /\ ledger' = [ledger EXCEPT ![r] = l]
  /\ ColumnsOK'

\* A step that gives one request a new local state that satisfies the invariant preserves
\* the invariant of all requests.
LEMMA LocalStep ==
  ASSUME IInv, NEW r \in Requests, NEW q, NEW c, NEW s, NEW k, NEW f, NEW l,
         Becomes(r, q, c, s, k, f, l), Locals(q, c, s, k, f, l), LocalInv(q, c, s, k, f, l)
  PROVE  IInv'
<1>1. TypeOK'
  BY DEF IInv, TypeOK, ColumnsOK, RecordType, Becomes, Locals
<1>2. ReqInv(r)'
  BY DEF ReqInv, IInv, TypeOK, Becomes
<1>3. ASSUME NEW o \in Requests, o # r PROVE ReqInv(o)'
  BY <1>3 DEF ReqInv, IInv, TypeOK, Becomes
<1> QED
  BY <1>1, <1>2, <1>3 DEF IInv

\* What a request's local state is made of.
LEMMA LocalTypes ==
  ASSUME IInv, NEW r \in Requests
  PROVE  /\ Locals(req[r], record[r], ses[r], pc[r], refund[r], ledger[r]) /\ ColumnsOK
         /\ LocalInv(req[r], record[r], ses[r], pc[r], refund[r], ledger[r])
BY DEF IInv, TypeOK, ColumnsOK, RecordType, ReqInv, Locals

\* A variable that a step leaves alone.
LEMMA Unchanged ==
  ASSUME IInv, NEW r \in Requests
  PROVE  /\ UNCHANGED req => req' = [req EXCEPT ![r] = req[r]]
         /\ UNCHANGED record => record' = [record EXCEPT ![r] = record[r]]
         /\ UNCHANGED ses => ses' = [ses EXCEPT ![r] = ses[r]]
         /\ UNCHANGED pc => pc' = [pc EXCEPT ![r] = pc[r]]
         /\ UNCHANGED refund => refund' = [refund EXCEPT ![r] = refund[r]]
         /\ UNCHANGED ledger => ledger' = [ledger EXCEPT ![r] = ledger[r]]
BY DEF IInv, TypeOK

\* An empty session has the type of a session.
LEMMA NoSessionType == NoSession \in SessionType
BY DEF NoSession, SessionType

-----------------------------------------------------------------------------
(* Database statements                                                      *)

\* what a write of n units to the source src makes of the ledger m
Paid(src, m, n, out, l) ==
  /\ l.token = m.token /\ l.outside = m.outside + out
  /\ l.clean => m.clean /\ l.wallet + l.sub = m.wallet + m.sub + n
  /\ src = "subscription" => l.wallet = m.wallet /\ l.sub >= m.sub + n
  /\ src # "subscription" => l.sub = m.sub /\ l.wallet = m.wallet + n

\* A write to the subscription; when the counter is clamped the request is no longer clean.
LEMMA MoveSubEffect ==
  ASSUME IInv, NEW r \in Requests, NEW n \in Int, NEW out \in Nat, MoveSub(r, n, out)
  PROVE  \E l \in LedgerType : /\ ledger' = [ledger EXCEPT ![r] = l] /\ ColumnsOK'
                               /\ Paid("subscription", ledger[r], n, out, l)
<1> DEFINE m == ledger[r]
           new == IF subUsed + n < 0 THEN 0 ELSE subUsed + n
           a == m.sub + (new - subUsed)
           b == m.outside + out
           e == IF subUsed + n < 0 THEN FALSE ELSE m.clean
           l == [m EXCEPT !.sub = a, !.outside = b, !.clean = e]
<1>1. /\ m \in LedgerType /\ ledger \in [Requests -> LedgerType]
      /\ subUsed \in Nat /\ userQuota \in Int /\ tokenRemain \in Int
  BY DEF IInv, TypeOK
<1>2. a \in Int /\ b \in Nat /\ new \in Nat /\ m.clean \in BOOLEAN
  BY <1>1 DEF LedgerType
<1>7. e \in BOOLEAN
  BY <1>2, Zenon
<1>3. ledger' = [ledger EXCEPT ![r] = l]
  <2>1. ledger' = [ledger EXCEPT ![r].sub = a, ![r].outside = b, ![r].clean = e]
    BY DEF MoveSub
  <2> HIDE DEF a, b, e
  <2> QED  BY <1>1, <2>1
<1>6. ColumnsOK'
  BY <1>1, <1>2 DEF MoveSub, ColumnsOK
<1>4. Paid("subscription", m, n, out, l)
  BY <1>1 DEF Paid, LedgerType
<1>5. l \in LedgerType
  <2> HIDE DEF a, b, e, m
  <2> QED  BY <1>1, <1>2, <1>7 DEF LedgerType
<1> QED
  BY <1>3, <1>4, <1>5, <1>6

\* A write to the wallet.
LEMMA MoveWalletEffect ==
  ASSUME IInv, NEW r \in Requests, NEW n \in Int, NEW out \in Nat, MoveWallet(r, n, out),
         NEW src, src # "subscription"
  PROVE  \E l \in LedgerType : /\ ledger' = [ledger EXCEPT ![r] = l] /\ ColumnsOK'
                               /\ Paid(src, ledger[r], n, out, l)
<1> DEFINE m == ledger[r]
           a == m.wallet + n
           b == m.outside + out
           l == [m EXCEPT !.wallet = a, !.outside = b]
<1>1. /\ m \in LedgerType /\ ledger \in [Requests -> LedgerType]
      /\ subUsed \in Nat /\ userQuota \in Int /\ tokenRemain \in Int
  BY DEF IInv, TypeOK
<1>2. a \in Int /\ b \in Nat
  BY <1>1 DEF LedgerType
<1>3. ledger' = [ledger EXCEPT ![r] = l]
  BY <1>1 DEF MoveWallet
<1>6. ColumnsOK'
  BY <1>1 DEF MoveWallet, ColumnsOK
<1>4. Paid(src, m, n, out, l)
  BY <1>1 DEF Paid, LedgerType
<1>5. l \in LedgerType
  <2> HIDE DEF a, b, m
  <2> QED  BY <1>1, <1>2 DEF LedgerType
<1> QED
  BY <1>3, <1>4, <1>5, <1>6

\* A write to the source of a request.
LEMMA MoveFundingEffect ==
  ASSUME IInv, NEW r \in Requests, NEW n \in Int, NEW out \in Nat, MoveFunding(r, n, out)
  PROVE  \E l \in LedgerType : /\ ledger' = [ledger EXCEPT ![r] = l] /\ ColumnsOK'
                               /\ Paid(ses[r].funding, ledger[r], n, out, l)
BY MoveSubEffect, MoveWalletEffect DEF MoveFunding

\* A write to the token.
LEMMA MoveTokenEffect ==
  ASSUME IInv, NEW r \in Requests, NEW n \in Int, MoveToken(r, n)
  PROVE  /\ ledger' = [ledger EXCEPT ![r] = [ledger[r] EXCEPT !.token = @ + n]]
         /\ [ledger[r] EXCEPT !.token = @ + n] \in LedgerType
         /\ ColumnsOK'
BY DEF MoveToken, IInv, TypeOK, ColumnsOK, LedgerType

\* A failed statement.
LEMMA FaultEffect ==
  ASSUME IInv, NEW r \in Requests, Fault(r)
  PROVE  /\ ledger' = [ledger EXCEPT ![r] = [ledger[r] EXCEPT !.clean = FALSE]]
         /\ [ledger[r] EXCEPT !.clean = FALSE] \in LedgerType
         /\ ColumnsOK'
BY DEF Fault, IInv, TypeOK, ColumnsOK, LedgerType, columns

-----------------------------------------------------------------------------
(* The steps                                                                *)

USE DEF SessionInv, HeldInv, ExactInv, Opening, Reserving, OpeningInv, ChargedInv

\* The token is read and compared; nothing is written.
LEMMA StepCheckToken ==
  ASSUME IInv, NEW r \in Requests, CheckToken(r)
  PROVE  IInv'
<1> DEFINE q == req[r]
           c == record[r]
           s == ses[r]
           f == refund[r]
           m == ledger[r]
<1>1. Locals(q, c, s, pc[r], f, m) /\ LocalInv(q, c, s, pc[r], f, m) /\ ColumnsOK
  BY LocalTypes
<1>2. pc[r] = "checkToken" /\ (Opening(s, pc[r]) \/ Reserving(s, pc[r])) /\ s.reserving \in BOOLEAN
  BY <1>1 DEF Locals, SessionType, RequestType, LedgerType, RefundType, CheckToken
<1>3. CASE Goto(r, IF q.unlimited \/ tokenRemain >= s.delta THEN "decToken" ELSE IF s.reserving THEN "undoReserve" ELSE "rejected") /\ UNCHANGED <<columns, ledger>>
  <2> DEFINE k == IF q.unlimited \/ tokenRemain >= s.delta THEN "decToken" ELSE IF s.reserving THEN "undoReserve" ELSE "rejected"
  <2>0. ledger' = [ledger EXCEPT ![r] = m] /\ m \in LedgerType /\ ColumnsOK'
    BY <1>1, <1>3, Unchanged DEF Locals, ColumnsOK, columns, OverTotal, CheckToken
  <2>2. Becomes(r, q, c, s, k, f, m)
    BY <1>2, <1>3, <2>0, Unchanged DEF Becomes, CheckToken, Goto
  <2>3. Locals(q, c, s, k, f, m)
    BY <1>1, <1>2, <1>3, <2>0 DEF Locals, SessionType, RefundType, RequestType, RecordType, HandlerPcs, RefundPcs
  <2>4. LocalInv(q, c, s, k, f, m)
    <3>1. SessionInv(q, c, s, k, f, m)
      BY <1>1, <1>2, <1>3 DEF LocalInv, Locals, SessionType, LedgerType, RefundType, RequestType, MaxAttempts
    <3>2. HeldInv(q, c, s, k, f, m)
      BY <1>1, <1>2, <1>3 DEF LocalInv, Locals, SessionType, LedgerType, RefundType, RequestType, Excess, Times
    <3>3. ExactInv(q, c, s, k, f, m)
      BY <1>1, <1>2, <1>3 DEF LocalInv, Locals, SessionType, LedgerType, RefundType, RequestType, FundPrice, TokenPrice, Pending
    <3> QED
      BY <3>1, <3>2, <3>3 DEF LocalInv
  <2> QED
    BY <2>2, <2>3, <2>4, LocalStep
<1>4. CASE Fault(r) /\ Goto(r, IF s.reserving THEN "undoReserve" ELSE "rejected")
  <2> DEFINE k == IF s.reserving THEN "undoReserve" ELSE "rejected"
  <2> DEFINE l == [m EXCEPT !.clean = FALSE]
  <2>0. ledger' = [ledger EXCEPT ![r] = l] /\ l \in LedgerType /\ ColumnsOK'
    BY <1>4, FaultEffect
  <2>2. Becomes(r, q, c, s, k, f, l)
    BY <1>2, <1>4, <2>0, Unchanged DEF Becomes, CheckToken, Goto
  <2>3. Locals(q, c, s, k, f, l)
    BY <1>1, <1>2, <1>4, <2>0 DEF Locals, SessionType, RefundType, RequestType, RecordType, HandlerPcs, RefundPcs
  <2>4. LocalInv(q, c, s, k, f, l)
    <3>1. SessionInv(q, c, s, k, f, l)
      BY <1>1, <1>2, <1>4 DEF LocalInv, Locals, SessionType, LedgerType, RefundType, RequestType, MaxAttempts
    <3>2. HeldInv(q, c, s, k, f, l)
      BY <1>1, <1>2, <1>4 DEF LocalInv, Locals, SessionType, LedgerType, RefundType, RequestType, Excess, Times
    <3>3. ExactInv(q, c, s, k, f, l)
      BY <1>1, <1>2, <1>4 DEF LocalInv, Locals, SessionType, LedgerType, RefundType, RequestType, FundPrice, TokenPrice, Pending
    <3> QED
      BY <3>1, <3>2, <3>3 DEF LocalInv
  <2> QED
    BY <2>2, <2>3, <2>4, LocalStep
<1> QED
  BY <1>2, <1>3, <1>4 DEF CheckToken

\* The decrement of the token, by a new session or by Reserve.
LEMMA StepDecToken ==
  ASSUME IInv, NEW r \in Requests, DecToken(r)
  PROVE  IInv'
<1> DEFINE q == req[r]
           c == record[r]
           s == ses[r]
           f == refund[r]
           m == ledger[r]
<1>1. Locals(q, c, s, pc[r], f, m) /\ LocalInv(q, c, s, pc[r], f, m) /\ ColumnsOK
  BY LocalTypes
<1>2. pc[r] = "decToken" /\ s.delta \in Int /\ s.reserving \in BOOLEAN
  BY <1>1 DEF Locals, SessionType, RequestType, LedgerType, RefundType, DecToken
<1>3. CASE /\ MoveToken(r, s.delta) /\ s.reserving /\ Goto(r, "relay")
           /\ ses' = [ses EXCEPT ![r].pre = @ + s.delta, ![r].tokenConsumed = @ + s.delta,
                                 ![r].extra = @ + s.delta, ![r].reserving = FALSE]
  <2> DEFINE a == s.pre + s.delta
             b == s.extra + s.delta
             t == [s EXCEPT !.pre = a, !.tokenConsumed = a, !.extra = b, !.reserving = FALSE]
  <2> DEFINE l == [m EXCEPT !.token = @ + s.delta]
  <2>0. ledger' = [ledger EXCEPT ![r] = l] /\ l \in LedgerType /\ ColumnsOK'
    <3>1. s.delta \in Int
      BY <1>1, <1>2 DEF Locals, SessionType
    <3> QED  BY <1>3, <3>1, MoveTokenEffect
  <2>1. s.tokenConsumed = s.pre /\ a \in Nat /\ b \in Nat
    BY <1>1, <1>2, <1>3 DEF LocalInv, Locals, SessionType, LedgerType, RefundType, RequestType, RecordType
  <2>2. Becomes(r, q, c, t, "relay", f, l)
    <3>1. ses' = [ses EXCEPT ![r] = t]
      BY <1>1, <1>2, <1>3, <2>1 DEF IInv, TypeOK, DecToken
    <3> QED  BY <1>2, <1>3, <2>0, <3>1, Unchanged DEF Becomes, DecToken, Goto
  <2>3. Locals(q, c, t, "relay", f, l)
    <3> HIDE DEF a, b
    <3> QED  BY <1>1, <1>2, <1>3, <2>0, <2>1 DEF Locals, SessionType, RefundType, RequestType, RecordType, HandlerPcs, RefundPcs
  <2>4. LocalInv(q, c, t, "relay", f, l)
    <3>1. SessionInv(q, c, t, "relay", f, l)
      BY <1>1, <1>2, <1>3, <2>1 DEF LocalInv, Locals, SessionType, LedgerType, RefundType, RequestType, MaxAttempts
    <3>2. HeldInv(q, c, t, "relay", f, l)
      BY <1>1, <1>2, <1>3, <2>1 DEF LocalInv, Locals, SessionType, LedgerType, RefundType, RequestType, Excess, Times
    <3>3. ExactInv(q, c, t, "relay", f, l)
      BY <1>1, <1>2, <1>3, <2>1 DEF LocalInv, Locals, SessionType, LedgerType, RefundType, RequestType, FundPrice, TokenPrice, Pending
    <3> QED
      BY <3>1, <3>2, <3>3 DEF LocalInv
  <2> QED
    BY <2>2, <2>3, <2>4, LocalStep
<1>4. CASE /\ MoveToken(r, s.delta) /\ ~s.reserving /\ Goto(r, "fund")
           /\ ses' = [ses EXCEPT ![r].tokenConsumed = s.delta]
  <2> DEFINE t == [s EXCEPT !.tokenConsumed = s.amount]
  <2> DEFINE l == [m EXCEPT !.token = @ + s.delta]
  <2>0. ledger' = [ledger EXCEPT ![r] = l] /\ l \in LedgerType /\ ColumnsOK'
    <3>1. s.delta \in Int
      BY <1>1, <1>2 DEF Locals, SessionType
    <3> QED  BY <1>4, <3>1, MoveTokenEffect
  <2>1. s.delta = s.amount
    BY <1>1, <1>2, <1>4 DEF LocalInv, Locals, SessionType, LedgerType, RefundType, RequestType, RecordType
  <2>2. Becomes(r, q, c, t, "fund", f, l)
    <3>1. ses' = [ses EXCEPT ![r] = t]
      BY <1>1, <1>2, <1>4, <2>1 DEF IInv, TypeOK, DecToken
    <3> QED  BY <1>2, <1>4, <2>0, <3>1, Unchanged DEF Becomes, DecToken, Goto
  <2>3. Locals(q, c, t, "fund", f, l)
    BY <1>1, <1>2, <1>4, <2>0, <2>1 DEF Locals, SessionType, RefundType, RequestType, RecordType, HandlerPcs, RefundPcs
  <2>4. LocalInv(q, c, t, "fund", f, l)
    <3>1. SessionInv(q, c, t, "fund", f, l)
      BY <1>1, <1>2, <1>4, <2>1 DEF LocalInv, Locals, SessionType, LedgerType, RefundType, RequestType, MaxAttempts
    <3>2. HeldInv(q, c, t, "fund", f, l)
      BY <1>1, <1>2, <1>4, <2>1 DEF LocalInv, Locals, SessionType, LedgerType, RefundType, RequestType, Excess, Times
    <3>3. ExactInv(q, c, t, "fund", f, l)
      BY <1>1, <1>2, <1>4, <2>1 DEF LocalInv, Locals, SessionType, LedgerType, RefundType, RequestType, FundPrice, TokenPrice, Pending
    <3> QED
      BY <3>1, <3>2, <3>3 DEF LocalInv
  <2> QED
    BY <2>2, <2>3, <2>4, LocalStep
<1>5. CASE Fault(r) /\ Goto(r, IF s.reserving THEN "undoReserve" ELSE "rejected") /\ UNCHANGED ses
  <2> DEFINE k == IF s.reserving THEN "undoReserve" ELSE "rejected"
  <2> DEFINE l == [m EXCEPT !.clean = FALSE]
  <2>0. ledger' = [ledger EXCEPT ![r] = l] /\ l \in LedgerType /\ ColumnsOK'
    BY <1>5, FaultEffect
  <2>2. Becomes(r, q, c, s, k, f, l)
    BY <1>2, <1>5, <2>0, Unchanged DEF Becomes, DecToken, Goto
  <2>3. Locals(q, c, s, k, f, l)
    BY <1>1, <1>2, <1>5, <2>0 DEF Locals, SessionType, RefundType, RequestType, RecordType, HandlerPcs, RefundPcs
  <2>4. LocalInv(q, c, s, k, f, l)
    <3>1. SessionInv(q, c, s, k, f, l)
      BY <1>1, <1>2, <1>5 DEF LocalInv, Locals, SessionType, LedgerType, RefundType, RequestType, MaxAttempts
    <3>2. HeldInv(q, c, s, k, f, l)
      BY <1>1, <1>2, <1>5 DEF LocalInv, Locals, SessionType, LedgerType, RefundType, RequestType, Excess, Times
    <3>3. ExactInv(q, c, s, k, f, l)
      BY <1>1, <1>2, <1>5 DEF LocalInv, Locals, SessionType, LedgerType, RefundType, RequestType, FundPrice, TokenPrice, Pending
    <3> QED
      BY <3>1, <3>2, <3>3 DEF LocalInv
  <2> QED
    BY <2>2, <2>3, <2>4, LocalStep
<1> QED
  BY <1>2, <1>3, <1>4, <1>5 DEF DecToken

\* The source is charged, or refuses.
LEMMA StepFundingPreConsume ==
  ASSUME IInv, NEW r \in Requests, FundingPreConsume(r)
  PROVE  IInv'
<1> DEFINE q == req[r]
           c == record[r]
           s == ses[r]
           f == refund[r]
           m == ledger[r]
<1>1. Locals(q, c, s, pc[r], f, m) /\ LocalInv(q, c, s, pc[r], f, m) /\ ColumnsOK
  BY LocalTypes
<1>2. pc[r] = "fund" /\ s.amount \in Nat
  BY <1>1 DEF Locals, SessionType, RequestType, LedgerType, RefundType, FundingPreConsume
<1>3. CASE /\ MoveFunding(r, s.amount, 0)
           /\ record' = IF s.funding = "subscription" THEN [record EXCEPT ![r] = "consumed"] ELSE record
           /\ ses' = [ses EXCEPT ![r].consumed = s.amount, ![r].pre = s.amount]
           /\ Goto(r, "relay")
  <2> DEFINE t == [s EXCEPT !.consumed = s.amount, !.pre = s.amount]
             e == IF s.funding = "subscription" THEN "consumed" ELSE c
  <2>0. s.amount \in Int /\ 0 \in Nat
    BY <1>1, <1>2 DEF Locals, SessionType
  <2> PICK l \in LedgerType : /\ ledger' = [ledger EXCEPT ![r] = l] /\ ColumnsOK'
                              /\ Paid(s.funding, m, s.amount, 0, l)
    BY <1>2, <1>3, <2>0, MoveFundingEffect
  <2>2. Becomes(r, q, e, t, "relay", f, l)
    <3>1. ses' = [ses EXCEPT ![r] = t]
      BY <1>1, <1>2, <1>3 DEF IInv, TypeOK, FundingPreConsume
    <3>2. record' = [record EXCEPT ![r] = e]
      BY <1>1, <1>2, <1>3 DEF IInv, TypeOK, FundingPreConsume
    <3> QED  BY <1>2, <1>3, <3>1, <3>2, Unchanged DEF Becomes, FundingPreConsume, Goto
  <2>3. Locals(q, e, t, "relay", f, l)
    BY <1>1, <1>2, <1>3 DEF Locals, SessionType, RefundType, RequestType, RecordType, HandlerPcs, RefundPcs
  <2>4. LocalInv(q, e, t, "relay", f, l)
    <3>1. SessionInv(q, e, t, "relay", f, l)
      BY <1>1, <1>2, <1>3 DEF LocalInv, Locals, SessionType, LedgerType, RefundType, RequestType, MaxAttempts, Paid
    <3>2. HeldInv(q, e, t, "relay", f, l)
      BY <1>1, <1>2, <1>3 DEF LocalInv, Locals, SessionType, LedgerType, RefundType, RequestType, Excess, Times, Paid
    <3>3. ExactInv(q, e, t, "relay", f, l)
      BY <1>1, <1>2, <1>3 DEF LocalInv, Locals, SessionType, LedgerType, RefundType, RequestType, FundPrice, TokenPrice, Pending, Paid
    <3> QED
      BY <3>1, <3>2, <3>3 DEF LocalInv
  <2> QED
    BY <2>2, <2>3, <2>4, LocalStep
<1>4. CASE /\ s.funding = "subscription"
           /\ Goto(r, IF q.pref = "subscription_first" THEN "rollbackTry" ELSE "rollback")
           /\ UNCHANGED <<columns, ledger, record, ses>>
  <2> DEFINE k == IF q.pref = "subscription_first" THEN "rollbackTry" ELSE "rollback"
  <2>0. ledger' = [ledger EXCEPT ![r] = m] /\ m \in LedgerType /\ ColumnsOK'
    BY <1>1, <1>4, Unchanged DEF Locals, ColumnsOK, columns, OverTotal, FundingPreConsume
  <2>2. Becomes(r, q, c, s, k, f, m)
    BY <1>2, <1>4, <2>0, Unchanged DEF Becomes, FundingPreConsume, Goto
  <2>3. Locals(q, c, s, k, f, m)
    BY <1>1, <1>2, <1>4, <2>0 DEF Locals, SessionType, RefundType, RequestType, RecordType, HandlerPcs, RefundPcs
  <2>4. LocalInv(q, c, s, k, f, m)
    <3>1. SessionInv(q, c, s, k, f, m)
      BY <1>1, <1>2, <1>4 DEF LocalInv, Locals, SessionType, LedgerType, RefundType, RequestType, MaxAttempts
    <3>2. HeldInv(q, c, s, k, f, m)
      BY <1>1, <1>2, <1>4 DEF LocalInv, Locals, SessionType, LedgerType, RefundType, RequestType, Excess, Times
    <3>3. ExactInv(q, c, s, k, f, m)
      BY <1>1, <1>2, <1>4 DEF LocalInv, Locals, SessionType, LedgerType, RefundType, RequestType, FundPrice, TokenPrice, Pending
    <3> QED
      BY <3>1, <3>2, <3>3 DEF LocalInv
  <2> QED
    BY <2>2, <2>3, <2>4, LocalStep
<1>5. CASE Fault(r) /\ Goto(r, "rollback") /\ UNCHANGED <<record, ses>>
  <2> DEFINE l == [m EXCEPT !.clean = FALSE]
  <2>0. ledger' = [ledger EXCEPT ![r] = l] /\ l \in LedgerType /\ ColumnsOK'
    BY <1>5, FaultEffect
  <2>2. Becomes(r, q, c, s, "rollback", f, l)
    BY <1>2, <1>5, <2>0, Unchanged DEF Becomes, FundingPreConsume, Goto
  <2>3. Locals(q, c, s, "rollback", f, l)
    BY <1>1, <1>2, <1>5, <2>0 DEF Locals, SessionType, RefundType, RequestType, RecordType, HandlerPcs, RefundPcs
  <2>4. LocalInv(q, c, s, "rollback", f, l)
    <3>1. SessionInv(q, c, s, "rollback", f, l)
      BY <1>1, <1>2, <1>5 DEF LocalInv, Locals, SessionType, LedgerType, RefundType, RequestType, MaxAttempts
    <3>2. HeldInv(q, c, s, "rollback", f, l)
      BY <1>1, <1>2, <1>5 DEF LocalInv, Locals, SessionType, LedgerType, RefundType, RequestType, Excess, Times
    <3>3. ExactInv(q, c, s, "rollback", f, l)
      BY <1>1, <1>2, <1>5 DEF LocalInv, Locals, SessionType, LedgerType, RefundType, RequestType, FundPrice, TokenPrice, Pending
    <3> QED
      BY <3>1, <3>2, <3>3 DEF LocalInv
  <2> QED
    BY <2>2, <2>3, <2>4, LocalStep
<1> QED
  BY <1>2, <1>3, <1>4, <1>5 DEF FundingPreConsume

\* The token is given back after the source refused.
LEMMA StepRollbackToken ==
  ASSUME IInv, NEW r \in Requests, RollbackToken(r)
  PROVE  IInv'
<1> DEFINE q == req[r]
           c == record[r]
           s == ses[r]
           f == refund[r]
           m == ledger[r]
<1>1. Locals(q, c, s, pc[r], f, m) /\ LocalInv(q, c, s, pc[r], f, m) /\ ColumnsOK
  BY LocalTypes
<1>2. pc[r] \in {"rollback", "rollbackTry"} /\ s.tokenConsumed \in Nat
  BY <1>1 DEF Locals, SessionType, RequestType, LedgerType, RefundType, RollbackToken
<1>3. CASE q.playground /\ UNCHANGED <<columns, ledger>>
  <2> DEFINE k == IF pc[r] = "rollbackTry" THEN "wallet" ELSE "rejected"
  <2>0. ledger' = [ledger EXCEPT ![r] = m] /\ m \in LedgerType /\ ColumnsOK'
    BY <1>1, <1>3, Unchanged DEF Locals, ColumnsOK, columns, OverTotal, RollbackToken
  <2>2. Becomes(r, q, c, NoSession, k, f, m)
    BY <1>2, <1>3, <2>0, Unchanged DEF Becomes, RollbackToken, Goto
  <2>3. Locals(q, c, NoSession, k, f, m)
    BY <1>1, <1>2, <1>3, <2>0, NoSessionType DEF Locals, SessionType, RefundType, RequestType, RecordType, HandlerPcs, RefundPcs
  <2>4. LocalInv(q, c, NoSession, k, f, m)
    <3>1. SessionInv(q, c, NoSession, k, f, m)
      BY <1>1, <1>2, <1>3 DEF LocalInv, Locals, SessionType, LedgerType, RefundType, RequestType, MaxAttempts, NoSession
    <3>2. HeldInv(q, c, NoSession, k, f, m)
      BY <1>1, <1>2, <1>3 DEF LocalInv, Locals, SessionType, LedgerType, RefundType, RequestType, Excess, Times, NoSession
    <3>3. ExactInv(q, c, NoSession, k, f, m)
      BY <1>1, <1>2, <1>3 DEF LocalInv, Locals, SessionType, LedgerType, RefundType, RequestType, FundPrice, TokenPrice, Pending, NoSession
    <3> QED
      BY <3>1, <3>2, <3>3 DEF LocalInv
  <2> QED
    BY <2>2, <2>3, <2>4, LocalStep
<1>4. CASE ~q.playground /\ MoveToken(r, -s.tokenConsumed)
  <2> DEFINE k == IF pc[r] = "rollbackTry" THEN "wallet" ELSE "rejected"
  <2> DEFINE l == [m EXCEPT !.token = @ + (-s.tokenConsumed)]
  <2>0. ledger' = [ledger EXCEPT ![r] = l] /\ l \in LedgerType /\ ColumnsOK'
    <3>1. (-s.tokenConsumed) \in Int
      BY <1>1, <1>2 DEF Locals, SessionType
    <3> QED  BY <1>4, <3>1, MoveTokenEffect
  <2>2. Becomes(r, q, c, NoSession, k, f, l)
    BY <1>2, <1>4, <2>0, Unchanged DEF Becomes, RollbackToken, Goto
  <2>3. Locals(q, c, NoSession, k, f, l)
    BY <1>1, <1>2, <1>4, <2>0, NoSessionType DEF Locals, SessionType, RefundType, RequestType, RecordType, HandlerPcs, RefundPcs
  <2>4. LocalInv(q, c, NoSession, k, f, l)
    <3>1. SessionInv(q, c, NoSession, k, f, l)
      BY <1>1, <1>2, <1>4 DEF LocalInv, Locals, SessionType, LedgerType, RefundType, RequestType, MaxAttempts, NoSession
    <3>2. HeldInv(q, c, NoSession, k, f, l)
      BY <1>1, <1>2, <1>4 DEF LocalInv, Locals, SessionType, LedgerType, RefundType, RequestType, Excess, Times, NoSession
    <3>3. ExactInv(q, c, NoSession, k, f, l)
      BY <1>1, <1>2, <1>4 DEF LocalInv, Locals, SessionType, LedgerType, RefundType, RequestType, FundPrice, TokenPrice, Pending, NoSession
    <3> QED
      BY <3>1, <3>2, <3>3 DEF LocalInv
  <2> QED
    BY <2>2, <2>3, <2>4, LocalStep
<1>5. CASE ~q.playground /\ Fault(r)
  <2> DEFINE k == IF pc[r] = "rollbackTry" THEN "wallet" ELSE "rejected"
  <2> DEFINE l == [m EXCEPT !.clean = FALSE]
  <2>0. ledger' = [ledger EXCEPT ![r] = l] /\ l \in LedgerType /\ ColumnsOK'
    BY <1>5, FaultEffect
  <2>2. Becomes(r, q, c, NoSession, k, f, l)
    BY <1>2, <1>5, <2>0, Unchanged DEF Becomes, RollbackToken, Goto
  <2>3. Locals(q, c, NoSession, k, f, l)
    BY <1>1, <1>2, <1>5, <2>0, NoSessionType DEF Locals, SessionType, RefundType, RequestType, RecordType, HandlerPcs, RefundPcs
  <2>4. LocalInv(q, c, NoSession, k, f, l)
    <3>1. SessionInv(q, c, NoSession, k, f, l)
      BY <1>1, <1>2, <1>5 DEF LocalInv, Locals, SessionType, LedgerType, RefundType, RequestType, MaxAttempts, NoSession
    <3>2. HeldInv(q, c, NoSession, k, f, l)
      BY <1>1, <1>2, <1>5 DEF LocalInv, Locals, SessionType, LedgerType, RefundType, RequestType, Excess, Times, NoSession
    <3>3. ExactInv(q, c, NoSession, k, f, l)
      BY <1>1, <1>2, <1>5 DEF LocalInv, Locals, SessionType, LedgerType, RefundType, RequestType, FundPrice, TokenPrice, Pending, NoSession
    <3> QED
      BY <3>1, <3>2, <3>3 DEF LocalInv
  <2> QED
    BY <2>2, <2>3, <2>4, LocalStep
<1> QED
  BY <1>2, <1>3, <1>4, <1>5 DEF RollbackToken

\* A session is opened on a source, trusted or not.
LEMMA StepOpenSession ==
  ASSUME IInv, NEW r \in Requests, NEW src \in {"wallet", "subscription"}, NEW n \in Nat,
         NEW trusted \in BOOLEAN, OpenSession(r, src, n, trusted),
         src = "subscription" => n > 0 /\ ~trusted,
         pc[r] \in {"subscription", "hasSub", "wallet"},
         UNCHANGED <<columns, record, req, refund, ledger>>
  PROVE  IInv'
<1> DEFINE q == req[r]
           c == record[r]
           s == ses[r]
           f == refund[r]
           m == ledger[r]
           e == IF trusted THEN 0 ELSE n
           u == IF q.playground THEN e ELSE 0
           k == IF e = 0 THEN "relay" ELSE IF q.playground THEN "fund" ELSE "checkToken"
           t == [NoSession EXCEPT !.funding = src, !.amount = e, !.trusted = trusted, !.delta = e,
                                  !.tokenConsumed = u]
<1>1. Locals(q, c, s, pc[r], f, m) /\ LocalInv(q, c, s, pc[r], f, m) /\ ColumnsOK
  BY LocalTypes
<1>2. e \in Nat /\ e \in Int /\ u \in Nat /\ q.playground \in BOOLEAN /\ k \in HandlerPcs
  BY <1>1 DEF Locals, RequestType, HandlerPcs
<1>3. Becomes(r, q, c, t, k, f, m)
  BY <1>1, Unchanged DEF Becomes, OpenSession, Goto, ColumnsOK, columns
<1>4. Locals(q, c, t, k, f, m)
  <2> HIDE DEF e, u, k
  <2> QED  BY <1>1, <1>2, NoSessionType DEF Locals, SessionType
<1>5. LocalInv(q, c, t, k, f, m)
  <2>1. SessionInv(q, c, t, k, f, m)
    BY <1>1, <1>2 DEF LocalInv, Locals, SessionType, LedgerType, RefundType, RequestType, MaxAttempts, NoSession
  <2>2. HeldInv(q, c, t, k, f, m)
    BY <1>1, <1>2 DEF LocalInv, Locals, SessionType, LedgerType, RefundType, RequestType, Excess, Times, NoSession
  <2>3. ExactInv(q, c, t, k, f, m)
    BY <1>1, <1>2 DEF LocalInv, Locals, SessionType, LedgerType, RefundType, RequestType, FundPrice, TokenPrice, Pending, NoSession
  <2> QED
    BY <2>1, <2>2, <2>3 DEF LocalInv
<1> QED
  BY <1>3, <1>4, <1>5, LocalStep

\* A subscription session is opened for at least one unit.
LEMMA StepTrySubscription ==
  ASSUME IInv, NEW r \in Requests, TrySubscription(r), pc[r] \in {"subscription", "hasSub", "wallet"},
         UNCHANGED <<columns, record, req, refund, ledger>>
  PROVE  IInv'
<1>1. req[r].quota \in Nat
  BY LocalTypes DEF Locals, RequestType
<1> DEFINE n == IF req[r].quota <= 0 THEN 1 ELSE req[r].quota
<1>2. n \in Nat /\ n > 0
  BY <1>1
<1>3. OpenSession(r, "subscription", n, FALSE)
  BY DEF TrySubscription
<1> HIDE DEF n
<1> QED
  BY <1>2, <1>3, StepOpenSession

\* The user has a subscription, or has not, or the question fails.
LEMMA StepHasActiveUserSubscription ==
  ASSUME IInv, NEW r \in Requests, HasActiveUserSubscription(r)
  PROVE  IInv'
<1> DEFINE q == req[r]
           c == record[r]
           s == ses[r]
           f == refund[r]
           m == ledger[r]
<1>1. Locals(q, c, s, pc[r], f, m) /\ LocalInv(q, c, s, pc[r], f, m) /\ ColumnsOK
  BY LocalTypes
<1>2. pc[r] = "hasSub"
  BY <1>1 DEF Locals, SessionType, RequestType, LedgerType, RefundType, HasActiveUserSubscription
<1>3. CASE Goto(r, "wallet") /\ UNCHANGED <<columns, ledger, ses>>
  <2>0. ledger' = [ledger EXCEPT ![r] = m] /\ m \in LedgerType /\ ColumnsOK'
    BY <1>1, <1>3, Unchanged DEF Locals, ColumnsOK, columns, OverTotal, HasActiveUserSubscription
  <2>2. Becomes(r, q, c, s, "wallet", f, m)
    BY <1>2, <1>3, <2>0, Unchanged DEF Becomes, HasActiveUserSubscription, Goto
  <2>3. Locals(q, c, s, "wallet", f, m)
    BY <1>1, <1>2, <1>3, <2>0 DEF Locals, SessionType, RefundType, RequestType, RecordType, HandlerPcs, RefundPcs
  <2>4. LocalInv(q, c, s, "wallet", f, m)
    <3>1. SessionInv(q, c, s, "wallet", f, m)
      BY <1>1, <1>2, <1>3 DEF LocalInv, Locals, SessionType, LedgerType, RefundType, RequestType, MaxAttempts
    <3>2. HeldInv(q, c, s, "wallet", f, m)
      BY <1>1, <1>2, <1>3 DEF LocalInv, Locals, SessionType, LedgerType, RefundType, RequestType, Excess, Times
    <3>3. ExactInv(q, c, s, "wallet", f, m)
      BY <1>1, <1>2, <1>3 DEF LocalInv, Locals, SessionType, LedgerType, RefundType, RequestType, FundPrice, TokenPrice, Pending
    <3> QED
      BY <3>1, <3>2, <3>3 DEF LocalInv
  <2> QED
    BY <2>2, <2>3, <2>4, LocalStep
<1>4. CASE Fault(r) /\ Goto(r, "rejected") /\ UNCHANGED ses
  <2> DEFINE l == [m EXCEPT !.clean = FALSE]
  <2>0. ledger' = [ledger EXCEPT ![r] = l] /\ l \in LedgerType /\ ColumnsOK'
    BY <1>4, FaultEffect
  <2>2. Becomes(r, q, c, s, "rejected", f, l)
    BY <1>2, <1>4, <2>0, Unchanged DEF Becomes, HasActiveUserSubscription, Goto
  <2>3. Locals(q, c, s, "rejected", f, l)
    BY <1>1, <1>2, <1>4, <2>0 DEF Locals, SessionType, RefundType, RequestType, RecordType, HandlerPcs, RefundPcs
  <2>4. LocalInv(q, c, s, "rejected", f, l)
    <3>1. SessionInv(q, c, s, "rejected", f, l)
      BY <1>1, <1>2, <1>4 DEF LocalInv, Locals, SessionType, LedgerType, RefundType, RequestType, MaxAttempts, NoSession
    <3>2. HeldInv(q, c, s, "rejected", f, l)
      BY <1>1, <1>2, <1>4 DEF LocalInv, Locals, SessionType, LedgerType, RefundType, RequestType, Excess, Times, NoSession
    <3>3. ExactInv(q, c, s, "rejected", f, l)
      BY <1>1, <1>2, <1>4 DEF LocalInv, Locals, SessionType, LedgerType, RefundType, RequestType, FundPrice, TokenPrice, Pending, NoSession
    <3> QED
      BY <3>1, <3>2, <3>3 DEF LocalInv
  <2> QED
    BY <2>2, <2>3, <2>4, LocalStep
<1>5. CASE TrySubscription(r) /\ UNCHANGED <<columns, ledger>>
  BY <1>2, <1>5, StepTrySubscription DEF HasActiveUserSubscription
<1> QED
  BY <1>2, <1>3, <1>4, <1>5 DEF HasActiveUserSubscription

\* The wallet pays, or the request falls back to the subscription, or is rejected.
LEMMA StepTryWallet ==
  ASSUME IInv, NEW r \in Requests, TryWallet(r)
  PROVE  IInv'
<1> DEFINE q == req[r]
           c == record[r]
           s == ses[r]
           f == refund[r]
           m == ledger[r]
<1>1. Locals(q, c, s, pc[r], f, m) /\ LocalInv(q, c, s, pc[r], f, m) /\ ColumnsOK
  BY LocalTypes
<1>2. pc[r] = "wallet" /\ q.quota \in Nat
  BY <1>1 DEF Locals, SessionType, RequestType, LedgerType, RefundType, TryWallet
<1>3. CASE Goto(r, "rejected") /\ UNCHANGED <<columns, ledger, ses>>
  <2>0. ledger' = [ledger EXCEPT ![r] = m] /\ m \in LedgerType /\ ColumnsOK'
    BY <1>1, <1>3, Unchanged DEF Locals, ColumnsOK, columns, OverTotal, TryWallet
  <2>2. Becomes(r, q, c, s, "rejected", f, m)
    BY <1>2, <1>3, <2>0, Unchanged DEF Becomes, TryWallet, Goto
  <2>3. Locals(q, c, s, "rejected", f, m)
    BY <1>1, <1>2, <1>3, <2>0 DEF Locals, SessionType, RefundType, RequestType, RecordType, HandlerPcs, RefundPcs
  <2>4. LocalInv(q, c, s, "rejected", f, m)
    <3>1. SessionInv(q, c, s, "rejected", f, m)
      BY <1>1, <1>2, <1>3 DEF LocalInv, Locals, SessionType, LedgerType, RefundType, RequestType, MaxAttempts, NoSession
    <3>2. HeldInv(q, c, s, "rejected", f, m)
      BY <1>1, <1>2, <1>3 DEF LocalInv, Locals, SessionType, LedgerType, RefundType, RequestType, Excess, Times, NoSession
    <3>3. ExactInv(q, c, s, "rejected", f, m)
      BY <1>1, <1>2, <1>3 DEF LocalInv, Locals, SessionType, LedgerType, RefundType, RequestType, FundPrice, TokenPrice, Pending, NoSession
    <3> QED
      BY <3>1, <3>2, <3>3 DEF LocalInv
  <2> QED
    BY <2>2, <2>3, <2>4, LocalStep
<1>4. CASE Fault(r) /\ Goto(r, "rejected") /\ UNCHANGED ses
  <2> DEFINE l == [m EXCEPT !.clean = FALSE]
  <2>0. ledger' = [ledger EXCEPT ![r] = l] /\ l \in LedgerType /\ ColumnsOK'
    BY <1>4, FaultEffect
  <2>2. Becomes(r, q, c, s, "rejected", f, l)
    BY <1>2, <1>4, <2>0, Unchanged DEF Becomes, TryWallet, Goto
  <2>3. Locals(q, c, s, "rejected", f, l)
    BY <1>1, <1>2, <1>4, <2>0 DEF Locals, SessionType, RefundType, RequestType, RecordType, HandlerPcs, RefundPcs
  <2>4. LocalInv(q, c, s, "rejected", f, l)
    <3>1. SessionInv(q, c, s, "rejected", f, l)
      BY <1>1, <1>2, <1>4 DEF LocalInv, Locals, SessionType, LedgerType, RefundType, RequestType, MaxAttempts, NoSession
    <3>2. HeldInv(q, c, s, "rejected", f, l)
      BY <1>1, <1>2, <1>4 DEF LocalInv, Locals, SessionType, LedgerType, RefundType, RequestType, Excess, Times, NoSession
    <3>3. ExactInv(q, c, s, "rejected", f, l)
      BY <1>1, <1>2, <1>4 DEF LocalInv, Locals, SessionType, LedgerType, RefundType, RequestType, FundPrice, TokenPrice, Pending, NoSession
    <3> QED
      BY <3>1, <3>2, <3>3 DEF LocalInv
  <2> QED
    BY <2>2, <2>3, <2>4, LocalStep
<1>5. CASE TrySubscription(r) /\ UNCHANGED <<columns, ledger>>
  BY <1>2, <1>5, StepTrySubscription DEF TryWallet
<1>6. CASE OpenSession(r, "wallet", q.quota, ShouldTrust(r)) /\ UNCHANGED <<columns, ledger>>
  <2>1. ShouldTrust(r) \in BOOLEAN
    BY DEF ShouldTrust
  <2> QED  BY <1>2, <1>6, <2>1, StepOpenSession DEF TryWallet
<1> QED
  BY <1>2, <1>3, <1>4, <1>5, <1>6 DEF TryWallet

\* Reserve raises the pre-consumption.
LEMMA StepReserve ==
  ASSUME IInv, NEW r \in Requests, NEW x \in Targets, Reserve(r, x)
  PROVE  IInv'
<1> DEFINE q == req[r]
           c == record[r]
           s == ses[r]
           f == refund[r]
           m == ledger[r]
           d == x - s.pre
           v == IF s.funding = "wallet" THEN d ELSE 0
<1>1. Locals(q, c, s, pc[r], f, m) /\ LocalInv(q, c, s, pc[r], f, m) /\ ColumnsOK
  BY LocalTypes
<1>2. pc[r] = "relay" /\ s.funding # "none" /\ d \in Nat /\ d > 0 /\ v \in Nat
  BY <1>1, BillingAssumption DEF Locals, SessionType, RequestType, LedgerType, RefundType, Reserve
<1>3. CASE /\ MoveFunding(r, d, 0) /\ q.playground /\ UNCHANGED pc
           /\ ses' = [ses EXCEPT ![r].pre = @ + d, ![r].tokenConsumed = @ + d,
                                 ![r].extra = @ + d, ![r].consumed = @ + v]
  <2> DEFINE a == s.pre + d
             b == s.extra + d
             e == s.consumed + v
             t == [s EXCEPT !.pre = a, !.tokenConsumed = a, !.extra = b, !.consumed = e]
  <2>0. d \in Int /\ 0 \in Nat
    BY <1>1, <1>2 DEF Locals, SessionType
  <2> PICK l \in LedgerType : /\ ledger' = [ledger EXCEPT ![r] = l] /\ ColumnsOK'
                              /\ Paid(s.funding, m, d, 0, l)
    BY <1>2, <1>3, <2>0, MoveFundingEffect
  <2>1. s.tokenConsumed = s.pre /\ a \in Nat /\ b \in Nat /\ e \in Nat
    BY <1>1, <1>2, <1>3 DEF LocalInv, Locals, SessionType, LedgerType, RefundType, RequestType, RecordType
  <2>2. Becomes(r, q, c, t, pc[r], f, l)
    <3>1. ses' = [ses EXCEPT ![r] = t]
      BY <1>1, <1>2, <1>3, <2>1 DEF IInv, TypeOK, Reserve
    <3> QED  BY <1>2, <1>3, <3>1, Unchanged DEF Becomes, Reserve, Goto
  <2>3. Locals(q, c, t, pc[r], f, l)
    <3> HIDE DEF a, b, e
    <3> QED  BY <1>1, <1>2, <1>3, <2>1 DEF Locals, SessionType, RefundType, RequestType, RecordType, HandlerPcs, RefundPcs
  <2>4. LocalInv(q, c, t, pc[r], f, l)
    <3>1. SessionInv(q, c, t, pc[r], f, l)
      BY <1>1, <1>2, <1>3, <2>1 DEF LocalInv, Locals, SessionType, LedgerType, RefundType, RequestType, MaxAttempts, Paid
    <3>2. HeldInv(q, c, t, pc[r], f, l)
      BY <1>1, <1>2, <1>3, <2>1 DEF LocalInv, Locals, SessionType, LedgerType, RefundType, RequestType, Excess, Times, Paid
    <3>3. ExactInv(q, c, t, pc[r], f, l)
      BY <1>1, <1>2, <1>3, <2>1 DEF LocalInv, Locals, SessionType, LedgerType, RefundType, RequestType, FundPrice, TokenPrice, Pending, Paid
    <3> QED
      BY <3>1, <3>2, <3>3 DEF LocalInv
  <2> QED
    BY <2>2, <2>3, <2>4, LocalStep
<1>4. CASE /\ MoveFunding(r, d, 0) /\ ~q.playground /\ Goto(r, "checkToken")
           /\ ses' = [ses EXCEPT ![r].consumed = @ + v, ![r].delta = d, ![r].reserving = TRUE]
  <2> DEFINE e == s.consumed + v
             t == [s EXCEPT !.consumed = e, !.delta = d, !.reserving = TRUE]
  <2>0. d \in Int /\ 0 \in Nat
    BY <1>1, <1>2 DEF Locals, SessionType
  <2> PICK l \in LedgerType : /\ ledger' = [ledger EXCEPT ![r] = l] /\ ColumnsOK'
                              /\ Paid(s.funding, m, d, 0, l)
    BY <1>2, <1>4, <2>0, MoveFundingEffect
  <2>1. e \in Nat /\ d \in Int
    BY <1>1, <1>2, <1>4 DEF LocalInv, Locals, SessionType, LedgerType, RefundType, RequestType, RecordType
  <2>2. Becomes(r, q, c, t, "checkToken", f, l)
    <3>1. ses' = [ses EXCEPT ![r] = t]
      BY <1>1, <1>2, <1>4, <2>1 DEF IInv, TypeOK, Reserve
    <3> QED  BY <1>2, <1>4, <3>1, Unchanged DEF Becomes, Reserve, Goto
  <2>3. Locals(q, c, t, "checkToken", f, l)
    <3> HIDE DEF e
    <3> QED  BY <1>1, <1>2, <1>4, <2>1 DEF Locals, SessionType, RefundType, RequestType, RecordType, HandlerPcs, RefundPcs
  <2>4. LocalInv(q, c, t, "checkToken", f, l)
    <3>1. SessionInv(q, c, t, "checkToken", f, l)
      BY <1>1, <1>2, <1>4, <2>1 DEF LocalInv, Locals, SessionType, LedgerType, RefundType, RequestType, MaxAttempts, Paid
    <3>2. HeldInv(q, c, t, "checkToken", f, l)
      BY <1>1, <1>2, <1>4, <2>1 DEF LocalInv, Locals, SessionType, LedgerType, RefundType, RequestType, Excess, Times, Paid
    <3>3. ExactInv(q, c, t, "checkToken", f, l)
      BY <1>1, <1>2, <1>4, <2>1 DEF LocalInv, Locals, SessionType, LedgerType, RefundType, RequestType, FundPrice, TokenPrice, Pending, Paid
    <3> QED
      BY <3>1, <3>2, <3>3 DEF LocalInv
  <2> QED
    BY <2>2, <2>3, <2>4, LocalStep
<1>5. CASE OverTotal(r, d) /\ Goto(r, "failing") /\ UNCHANGED ses
  <2>0. ledger' = [ledger EXCEPT ![r] = m] /\ m \in LedgerType /\ ColumnsOK'
    BY <1>1, <1>5, Unchanged DEF Locals, ColumnsOK, columns, OverTotal, Reserve
  <2>2. Becomes(r, q, c, s, "failing", f, m)
    BY <1>2, <1>5, <2>0, Unchanged DEF Becomes, Reserve, Goto
  <2>3. Locals(q, c, s, "failing", f, m)
    BY <1>1, <1>2, <1>5, <2>0 DEF Locals, SessionType, RefundType, RequestType, RecordType, HandlerPcs, RefundPcs
  <2>4. LocalInv(q, c, s, "failing", f, m)
    <3>1. SessionInv(q, c, s, "failing", f, m)
      BY <1>1, <1>2, <1>5 DEF LocalInv, Locals, SessionType, LedgerType, RefundType, RequestType, MaxAttempts
    <3>2. HeldInv(q, c, s, "failing", f, m)
      BY <1>1, <1>2, <1>5 DEF LocalInv, Locals, SessionType, LedgerType, RefundType, RequestType, Excess, Times
    <3>3. ExactInv(q, c, s, "failing", f, m)
      BY <1>1, <1>2, <1>5 DEF LocalInv, Locals, SessionType, LedgerType, RefundType, RequestType, FundPrice, TokenPrice, Pending
    <3> QED
      BY <3>1, <3>2, <3>3 DEF LocalInv
  <2> QED
    BY <2>2, <2>3, <2>4, LocalStep
<1>6. CASE Fault(r) /\ Goto(r, "failing") /\ UNCHANGED ses
  <2> DEFINE l == [m EXCEPT !.clean = FALSE]
  <2>0. ledger' = [ledger EXCEPT ![r] = l] /\ l \in LedgerType /\ ColumnsOK'
    BY <1>6, FaultEffect
  <2>2. Becomes(r, q, c, s, "failing", f, l)
    BY <1>2, <1>6, <2>0, Unchanged DEF Becomes, Reserve, Goto
  <2>3. Locals(q, c, s, "failing", f, l)
    BY <1>1, <1>2, <1>6, <2>0 DEF Locals, SessionType, RefundType, RequestType, RecordType, HandlerPcs, RefundPcs
  <2>4. LocalInv(q, c, s, "failing", f, l)
    <3>1. SessionInv(q, c, s, "failing", f, l)
      BY <1>1, <1>2, <1>6 DEF LocalInv, Locals, SessionType, LedgerType, RefundType, RequestType, MaxAttempts
    <3>2. HeldInv(q, c, s, "failing", f, l)
      BY <1>1, <1>2, <1>6 DEF LocalInv, Locals, SessionType, LedgerType, RefundType, RequestType, Excess, Times
    <3>3. ExactInv(q, c, s, "failing", f, l)
      BY <1>1, <1>2, <1>6 DEF LocalInv, Locals, SessionType, LedgerType, RefundType, RequestType, FundPrice, TokenPrice, Pending
    <3> QED
      BY <3>1, <3>2, <3>3 DEF LocalInv
  <2> QED
    BY <2>2, <2>3, <2>4, LocalStep
<1> QED
  BY <1>2, <1>3, <1>4, <1>5, <1>6 DEF Reserve

\* The source gets back what Reserve took, after the token refused.
LEMMA StepUndoReserve ==
  ASSUME IInv, NEW r \in Requests, UndoReserve(r)
  PROVE  IInv'
<1> DEFINE q == req[r]
           c == record[r]
           s == ses[r]
           f == refund[r]
           m == ledger[r]
<1>1. Locals(q, c, s, pc[r], f, m) /\ LocalInv(q, c, s, pc[r], f, m) /\ ColumnsOK
  BY LocalTypes
<1>2. pc[r] = "undoReserve" /\ s.delta \in Int
  BY <1>1 DEF Locals, SessionType, RequestType, LedgerType, RefundType, UndoReserve
<1>3. CASE /\ MoveFunding(r, -s.delta, 0) /\ Goto(r, "failing")
           /\ ses' = [ses EXCEPT ![r].consumed = @ - (IF s.funding = "wallet" THEN s.delta ELSE 0), ![r].reserving = FALSE]
  <2> DEFINE e == s.consumed - (IF s.funding = "wallet" THEN s.delta ELSE 0)
             t == [s EXCEPT !.consumed = e, !.reserving = FALSE]
  <2>0. (-s.delta) \in Int /\ 0 \in Nat
    BY <1>1, <1>2 DEF Locals, SessionType
  <2> PICK l \in LedgerType : /\ ledger' = [ledger EXCEPT ![r] = l] /\ ColumnsOK'
                              /\ Paid(s.funding, m, (-s.delta), 0, l)
    BY <1>2, <1>3, <2>0, MoveFundingEffect
  <2>1. e \in Nat
    BY <1>1, <1>2, <1>3 DEF LocalInv, Locals, SessionType, LedgerType, RefundType, RequestType, RecordType
  <2>2. Becomes(r, q, c, t, "failing", f, l)
    <3>1. ses' = [ses EXCEPT ![r] = t]
      BY <1>1, <1>2, <1>3, <2>1 DEF IInv, TypeOK, UndoReserve
    <3> QED  BY <1>2, <1>3, <3>1, Unchanged DEF Becomes, UndoReserve, Goto
  <2>3. Locals(q, c, t, "failing", f, l)
    <3> HIDE DEF e
    <3> QED  BY <1>1, <1>2, <1>3, <2>1 DEF Locals, SessionType, RefundType, RequestType, RecordType, HandlerPcs, RefundPcs
  <2>4. LocalInv(q, c, t, "failing", f, l)
    <3>1. SessionInv(q, c, t, "failing", f, l)
      BY <1>1, <1>2, <1>3, <2>1 DEF LocalInv, Locals, SessionType, LedgerType, RefundType, RequestType, MaxAttempts, Paid
    <3>2. HeldInv(q, c, t, "failing", f, l)
      BY <1>1, <1>2, <1>3, <2>1 DEF LocalInv, Locals, SessionType, LedgerType, RefundType, RequestType, Excess, Times, Paid
    <3>3. ExactInv(q, c, t, "failing", f, l)
      BY <1>1, <1>2, <1>3, <2>1 DEF LocalInv, Locals, SessionType, LedgerType, RefundType, RequestType, FundPrice, TokenPrice, Pending, Paid
    <3> QED
      BY <3>1, <3>2, <3>3 DEF LocalInv
  <2> QED
    BY <2>2, <2>3, <2>4, LocalStep
<1>4. CASE Fault(r) /\ Goto(r, "failing") /\ ses' = [ses EXCEPT ![r].reserving = FALSE]
  <2> DEFINE t == [s EXCEPT !.reserving = FALSE]
  <2> DEFINE l == [m EXCEPT !.clean = FALSE]
  <2>0. ledger' = [ledger EXCEPT ![r] = l] /\ l \in LedgerType /\ ColumnsOK'
    BY <1>4, FaultEffect
  <2>2. Becomes(r, q, c, t, "failing", f, l)
    <3>1. ses' = [ses EXCEPT ![r] = t]
      BY <1>1, <1>2, <1>4 DEF IInv, TypeOK, UndoReserve
    <3> QED  BY <1>2, <1>4, <2>0, <3>1, Unchanged DEF Becomes, UndoReserve, Goto
  <2>3. Locals(q, c, t, "failing", f, l)
    BY <1>1, <1>2, <1>4, <2>0 DEF Locals, SessionType, RefundType, RequestType, RecordType, HandlerPcs, RefundPcs
  <2>4. LocalInv(q, c, t, "failing", f, l)
    <3>1. SessionInv(q, c, t, "failing", f, l)
      BY <1>1, <1>2, <1>4 DEF LocalInv, Locals, SessionType, LedgerType, RefundType, RequestType, MaxAttempts
    <3>2. HeldInv(q, c, t, "failing", f, l)
      BY <1>1, <1>2, <1>4 DEF LocalInv, Locals, SessionType, LedgerType, RefundType, RequestType, Excess, Times
    <3>3. ExactInv(q, c, t, "failing", f, l)
      BY <1>1, <1>2, <1>4 DEF LocalInv, Locals, SessionType, LedgerType, RefundType, RequestType, FundPrice, TokenPrice, Pending
    <3> QED
      BY <3>1, <3>2, <3>3 DEF LocalInv
  <2> QED
    BY <2>2, <2>3, <2>4, LocalStep
<1> QED
  BY <1>2, <1>3, <1>4 DEF UndoReserve

\* A realtime response is added to the usage, before it is billed.
LEMMA StepPreWssConsumeQuota ==
  ASSUME IInv, NEW r \in Requests, NEW x \in Chunks, PreWssConsumeQuota(r, x)
  PROVE  IInv'
<1> DEFINE q == req[r]
           c == record[r]
           s == ses[r]
           f == refund[r]
           m == ledger[r]
           u == s.used + x
           t == [s EXCEPT !.used = u, !.delta = x]
<1>1. Locals(q, c, s, pc[r], f, m) /\ LocalInv(q, c, s, pc[r], f, m) /\ ColumnsOK
  BY LocalTypes
<1>2. pc[r] = "relay" /\ x \in Nat /\ x \in Int /\ x > 0 /\ u \in Nat
  BY <1>1, BillingAssumption DEF Locals, SessionType, RequestType, LedgerType, RefundType, PreWssConsumeQuota
<1>3. CASE Goto(r, "chunkFund") /\ UNCHANGED <<columns, ledger>>
  <2>0. ledger' = [ledger EXCEPT ![r] = m] /\ m \in LedgerType /\ ColumnsOK'
    BY <1>1, <1>3, Unchanged DEF Locals, ColumnsOK, columns, OverTotal, PreWssConsumeQuota
  <2>2. Becomes(r, q, c, t, "chunkFund", f, m)
    <3>1. ses' = [ses EXCEPT ![r] = t]
      BY <1>1, <1>2, <1>3 DEF IInv, TypeOK, PreWssConsumeQuota
    <3> QED  BY <1>2, <1>3, <2>0, <3>1, Unchanged DEF Becomes, PreWssConsumeQuota, Goto
  <2>3. Locals(q, c, t, "chunkFund", f, m)
    <3> HIDE DEF u
    <3> QED  BY <1>1, <1>2, <1>3, <2>0 DEF Locals, SessionType, RefundType, RequestType, RecordType, HandlerPcs, RefundPcs
  <2>4. LocalInv(q, c, t, "chunkFund", f, m)
    <3>1. SessionInv(q, c, t, "chunkFund", f, m)
      BY <1>1, <1>2, <1>3 DEF LocalInv, Locals, SessionType, LedgerType, RefundType, RequestType, MaxAttempts
    <3>2. HeldInv(q, c, t, "chunkFund", f, m)
      BY <1>1, <1>2, <1>3 DEF LocalInv, Locals, SessionType, LedgerType, RefundType, RequestType, Excess, Times
    <3>3. ExactInv(q, c, t, "chunkFund", f, m)
      BY <1>1, <1>2, <1>3 DEF LocalInv, Locals, SessionType, LedgerType, RefundType, RequestType, FundPrice, TokenPrice, Pending
    <3> QED
      BY <3>1, <3>2, <3>3 DEF LocalInv
  <2> QED
    BY <2>2, <2>3, <2>4, LocalStep
<1>4. CASE Goto(r, "ending") /\ UNCHANGED <<columns, ledger>>
  <2>0. ledger' = [ledger EXCEPT ![r] = m] /\ m \in LedgerType /\ ColumnsOK'
    BY <1>1, <1>4, Unchanged DEF Locals, ColumnsOK, columns, OverTotal, PreWssConsumeQuota
  <2>2. Becomes(r, q, c, t, "ending", f, m)
    <3>1. ses' = [ses EXCEPT ![r] = t]
      BY <1>1, <1>2, <1>4 DEF IInv, TypeOK, PreWssConsumeQuota
    <3> QED  BY <1>2, <1>4, <2>0, <3>1, Unchanged DEF Becomes, PreWssConsumeQuota, Goto
  <2>3. Locals(q, c, t, "ending", f, m)
    <3> HIDE DEF u
    <3> QED  BY <1>1, <1>2, <1>4, <2>0 DEF Locals, SessionType, RefundType, RequestType, RecordType, HandlerPcs, RefundPcs
  <2>4. LocalInv(q, c, t, "ending", f, m)
    <3>1. SessionInv(q, c, t, "ending", f, m)
      BY <1>1, <1>2, <1>4 DEF LocalInv, Locals, SessionType, LedgerType, RefundType, RequestType, MaxAttempts
    <3>2. HeldInv(q, c, t, "ending", f, m)
      BY <1>1, <1>2, <1>4 DEF LocalInv, Locals, SessionType, LedgerType, RefundType, RequestType, Excess, Times
    <3>3. ExactInv(q, c, t, "ending", f, m)
      BY <1>1, <1>2, <1>4 DEF LocalInv, Locals, SessionType, LedgerType, RefundType, RequestType, FundPrice, TokenPrice, Pending
    <3> QED
      BY <3>1, <3>2, <3>3 DEF LocalInv
  <2> QED
    BY <2>2, <2>3, <2>4, LocalStep
<1>5. CASE Fault(r) /\ Goto(r, "ending")
  <2> DEFINE l == [m EXCEPT !.clean = FALSE]
  <2>0. ledger' = [ledger EXCEPT ![r] = l] /\ l \in LedgerType /\ ColumnsOK'
    BY <1>5, FaultEffect
  <2>2. Becomes(r, q, c, t, "ending", f, l)
    <3>1. ses' = [ses EXCEPT ![r] = t]
      BY <1>1, <1>2, <1>5 DEF IInv, TypeOK, PreWssConsumeQuota
    <3> QED  BY <1>2, <1>5, <2>0, <3>1, Unchanged DEF Becomes, PreWssConsumeQuota, Goto
  <2>3. Locals(q, c, t, "ending", f, l)
    <3> HIDE DEF u
    <3> QED  BY <1>1, <1>2, <1>5, <2>0 DEF Locals, SessionType, RefundType, RequestType, RecordType, HandlerPcs, RefundPcs
  <2>4. LocalInv(q, c, t, "ending", f, l)
    <3>1. SessionInv(q, c, t, "ending", f, l)
      BY <1>1, <1>2, <1>5 DEF LocalInv, Locals, SessionType, LedgerType, RefundType, RequestType, MaxAttempts
    <3>2. HeldInv(q, c, t, "ending", f, l)
      BY <1>1, <1>2, <1>5 DEF LocalInv, Locals, SessionType, LedgerType, RefundType, RequestType, Excess, Times
    <3>3. ExactInv(q, c, t, "ending", f, l)
      BY <1>1, <1>2, <1>5 DEF LocalInv, Locals, SessionType, LedgerType, RefundType, RequestType, FundPrice, TokenPrice, Pending
    <3> QED
      BY <3>1, <3>2, <3>3 DEF LocalInv
  <2> QED
    BY <2>2, <2>3, <2>4, LocalStep
<1> QED
  BY <1>2, <1>3, <1>4, <1>5 DEF PreWssConsumeQuota

\* A realtime response is billed to the source.
LEMMA StepChunkFunding ==
  ASSUME IInv, NEW r \in Requests, ChunkFunding(r)
  PROVE  IInv'
<1> DEFINE q == req[r]
           c == record[r]
           s == ses[r]
           f == refund[r]
           m == ledger[r]
<1>1. Locals(q, c, s, pc[r], f, m) /\ LocalInv(q, c, s, pc[r], f, m) /\ ColumnsOK
  BY LocalTypes
<1>2. pc[r] = "chunkFund" /\ s.delta \in Nat
  BY <1>1 DEF Locals, SessionType, RequestType, LedgerType, RefundType, ChunkFunding, LocalInv
<1>3. CASE MoveFunding(r, s.delta, s.delta) /\ Goto(r, IF q.playground THEN "relay" ELSE "chunkToken")
  <2> DEFINE k == IF q.playground THEN "relay" ELSE "chunkToken"
  <2>0. s.delta \in Int /\ s.delta \in Nat
    BY <1>1, <1>2, BillingAssumption DEF Locals, SessionType
  <2> PICK l \in LedgerType : /\ ledger' = [ledger EXCEPT ![r] = l] /\ ColumnsOK'
                              /\ Paid(s.funding, m, s.delta, s.delta, l)
    BY <1>2, <1>3, <2>0, MoveFundingEffect
  <2>2. Becomes(r, q, c, s, k, f, l)
    BY <1>2, <1>3, Unchanged DEF Becomes, ChunkFunding, Goto
  <2>3. Locals(q, c, s, k, f, l)
    BY <1>1, <1>2, <1>3 DEF Locals, SessionType, RefundType, RequestType, RecordType, HandlerPcs, RefundPcs
  <2>4. LocalInv(q, c, s, k, f, l)
    <3>1. SessionInv(q, c, s, k, f, l)
      BY <1>1, <1>2, <1>3 DEF LocalInv, Locals, SessionType, LedgerType, RefundType, RequestType, MaxAttempts, Paid
    <3>2. HeldInv(q, c, s, k, f, l)
      BY <1>1, <1>2, <1>3 DEF LocalInv, Locals, SessionType, LedgerType, RefundType, RequestType, Excess, Times, Paid
    <3>3. ExactInv(q, c, s, k, f, l)
      BY <1>1, <1>2, <1>3 DEF LocalInv, Locals, SessionType, LedgerType, RefundType, RequestType, FundPrice, TokenPrice, Pending, Paid
    <3> QED
      BY <3>1, <3>2, <3>3 DEF LocalInv
  <2> QED
    BY <2>2, <2>3, <2>4, LocalStep
<1>4. CASE OverTotal(r, s.delta) /\ Goto(r, "ending")
  <2>0. ledger' = [ledger EXCEPT ![r] = m] /\ m \in LedgerType /\ ColumnsOK'
    BY <1>1, <1>4, Unchanged DEF Locals, ColumnsOK, columns, OverTotal, ChunkFunding
  <2>2. Becomes(r, q, c, s, "ending", f, m)
    BY <1>2, <1>4, <2>0, Unchanged DEF Becomes, ChunkFunding, Goto
  <2>3. Locals(q, c, s, "ending", f, m)
    BY <1>1, <1>2, <1>4, <2>0 DEF Locals, SessionType, RefundType, RequestType, RecordType, HandlerPcs, RefundPcs
  <2>4. LocalInv(q, c, s, "ending", f, m)
    <3>1. SessionInv(q, c, s, "ending", f, m)
      BY <1>1, <1>2, <1>4 DEF LocalInv, Locals, SessionType, LedgerType, RefundType, RequestType, MaxAttempts
    <3>2. HeldInv(q, c, s, "ending", f, m)
      BY <1>1, <1>2, <1>4 DEF LocalInv, Locals, SessionType, LedgerType, RefundType, RequestType, Excess, Times
    <3>3. ExactInv(q, c, s, "ending", f, m)
      BY <1>1, <1>2, <1>4 DEF LocalInv, Locals, SessionType, LedgerType, RefundType, RequestType, FundPrice, TokenPrice, Pending
    <3> QED
      BY <3>1, <3>2, <3>3 DEF LocalInv
  <2> QED
    BY <2>2, <2>3, <2>4, LocalStep
<1>5. CASE Fault(r) /\ Goto(r, "ending")
  <2> DEFINE l == [m EXCEPT !.clean = FALSE]
  <2>0. ledger' = [ledger EXCEPT ![r] = l] /\ l \in LedgerType /\ ColumnsOK'
    BY <1>5, FaultEffect
  <2>2. Becomes(r, q, c, s, "ending", f, l)
    BY <1>2, <1>5, <2>0, Unchanged DEF Becomes, ChunkFunding, Goto
  <2>3. Locals(q, c, s, "ending", f, l)
    BY <1>1, <1>2, <1>5, <2>0 DEF Locals, SessionType, RefundType, RequestType, RecordType, HandlerPcs, RefundPcs
  <2>4. LocalInv(q, c, s, "ending", f, l)
    <3>1. SessionInv(q, c, s, "ending", f, l)
      BY <1>1, <1>2, <1>5 DEF LocalInv, Locals, SessionType, LedgerType, RefundType, RequestType, MaxAttempts
    <3>2. HeldInv(q, c, s, "ending", f, l)
      BY <1>1, <1>2, <1>5 DEF LocalInv, Locals, SessionType, LedgerType, RefundType, RequestType, Excess, Times
    <3>3. ExactInv(q, c, s, "ending", f, l)
      BY <1>1, <1>2, <1>5 DEF LocalInv, Locals, SessionType, LedgerType, RefundType, RequestType, FundPrice, TokenPrice, Pending
    <3> QED
      BY <3>1, <3>2, <3>3 DEF LocalInv
  <2> QED
    BY <2>2, <2>3, <2>4, LocalStep
<1> QED
  BY <1>2, <1>3, <1>4, <1>5 DEF ChunkFunding

\* A realtime response is billed to the token.
LEMMA StepChunkToken ==
  ASSUME IInv, NEW r \in Requests, ChunkToken(r)
  PROVE  IInv'
<1> DEFINE q == req[r]
           c == record[r]
           s == ses[r]
           f == refund[r]
           m == ledger[r]
<1>1. Locals(q, c, s, pc[r], f, m) /\ LocalInv(q, c, s, pc[r], f, m) /\ ColumnsOK
  BY LocalTypes
<1>2. pc[r] = "chunkToken" /\ s.delta \in Int
  BY <1>1 DEF Locals, SessionType, RequestType, LedgerType, RefundType, ChunkToken
<1>3. CASE MoveToken(r, s.delta) /\ Goto(r, "relay")
  <2> DEFINE l == [m EXCEPT !.token = @ + s.delta]
  <2>0. ledger' = [ledger EXCEPT ![r] = l] /\ l \in LedgerType /\ ColumnsOK'
    <3>1. s.delta \in Int
      BY <1>1, <1>2 DEF Locals, SessionType
    <3> QED  BY <1>3, <3>1, MoveTokenEffect
  <2>2. Becomes(r, q, c, s, "relay", f, l)
    BY <1>2, <1>3, <2>0, Unchanged DEF Becomes, ChunkToken, Goto
  <2>3. Locals(q, c, s, "relay", f, l)
    BY <1>1, <1>2, <1>3, <2>0 DEF Locals, SessionType, RefundType, RequestType, RecordType, HandlerPcs, RefundPcs
  <2>4. LocalInv(q, c, s, "relay", f, l)
    <3>1. SessionInv(q, c, s, "relay", f, l)
      BY <1>1, <1>2, <1>3 DEF LocalInv, Locals, SessionType, LedgerType, RefundType, RequestType, MaxAttempts
    <3>2. HeldInv(q, c, s, "relay", f, l)
      BY <1>1, <1>2, <1>3 DEF LocalInv, Locals, SessionType, LedgerType, RefundType, RequestType, Excess, Times
    <3>3. ExactInv(q, c, s, "relay", f, l)
      BY <1>1, <1>2, <1>3 DEF LocalInv, Locals, SessionType, LedgerType, RefundType, RequestType, FundPrice, TokenPrice, Pending
    <3> QED
      BY <3>1, <3>2, <3>3 DEF LocalInv
  <2> QED
    BY <2>2, <2>3, <2>4, LocalStep
<1>4. CASE Fault(r) /\ Goto(r, "ending")
  <2> DEFINE l == [m EXCEPT !.clean = FALSE]
  <2>0. ledger' = [ledger EXCEPT ![r] = l] /\ l \in LedgerType /\ ColumnsOK'
    BY <1>4, FaultEffect
  <2>2. Becomes(r, q, c, s, "ending", f, l)
    BY <1>2, <1>4, <2>0, Unchanged DEF Becomes, ChunkToken, Goto
  <2>3. Locals(q, c, s, "ending", f, l)
    BY <1>1, <1>2, <1>4, <2>0 DEF Locals, SessionType, RefundType, RequestType, RecordType, HandlerPcs, RefundPcs
  <2>4. LocalInv(q, c, s, "ending", f, l)
    <3>1. SessionInv(q, c, s, "ending", f, l)
      BY <1>1, <1>2, <1>4 DEF LocalInv, Locals, SessionType, LedgerType, RefundType, RequestType, MaxAttempts
    <3>2. HeldInv(q, c, s, "ending", f, l)
      BY <1>1, <1>2, <1>4 DEF LocalInv, Locals, SessionType, LedgerType, RefundType, RequestType, Excess, Times
    <3>3. ExactInv(q, c, s, "ending", f, l)
      BY <1>1, <1>2, <1>4 DEF LocalInv, Locals, SessionType, LedgerType, RefundType, RequestType, FundPrice, TokenPrice, Pending
    <3> QED
      BY <3>1, <3>2, <3>3 DEF LocalInv
  <2> QED
    BY <2>2, <2>3, <2>4, LocalStep
<1> QED
  BY <1>2, <1>3, <1>4 DEF ChunkToken

\* The usage is known: the session is settled, at once when nothing is left to pay.
LEMMA StepSettleBilling ==
  ASSUME IInv, NEW r \in Requests, NEW a \in Actuals \union {ses[r].used}, SettleBilling(r, a)
  PROVE  IInv'
<1> DEFINE q == req[r]
           c == record[r]
           s == ses[r]
           f == refund[r]
           m == ledger[r]
           d == a - s.pre
<1>1. Locals(q, c, s, pc[r], f, m) /\ LocalInv(q, c, s, pc[r], f, m) /\ ColumnsOK
  BY LocalTypes
<1>2. pc[r] \in {"relay", "ending"} /\ a \in Nat /\ d \in Int
  BY <1>1, BillingAssumption DEF Locals, SessionType, RequestType, LedgerType, RefundType, SettleBilling
<1>3. CASE d = 0
  <2> DEFINE t == [s EXCEPT !.actual = a, !.delta = d, !.settled = TRUE]
  <2>0. ledger' = [ledger EXCEPT ![r] = m] /\ m \in LedgerType /\ ColumnsOK'
    BY <1>1, <1>3, Unchanged DEF Locals, ColumnsOK, columns, OverTotal, SettleBilling
  <2>2. Becomes(r, q, c, t, "done", f, m)
    <3>1. ses' = [ses EXCEPT ![r] = t]
      BY <1>1, <1>2, <1>3 DEF IInv, TypeOK, SettleBilling
    <3> QED  BY <1>2, <1>3, <2>0, <3>1, Unchanged DEF Becomes, SettleBilling, Goto
  <2>3. Locals(q, c, t, "done", f, m)
    BY <1>1, <1>2, <1>3, <2>0 DEF Locals, SessionType, RefundType, RequestType, RecordType, HandlerPcs, RefundPcs
  <2>4. LocalInv(q, c, t, "done", f, m)
    <3>0. s.pre \in Nat /\ a = s.pre /\ f.pc = "idle" /\ ~s.refunded /\ ~s.reserving
      BY <1>1, <1>2, <1>3 DEF LocalInv, Locals, SessionType, LedgerType, RefundType, RequestType, RefundPcs, MaxAttempts
    <3>1. SessionInv(q, c, t, "done", f, m)
      BY <1>1, <1>2, <1>3, <3>0 DEF LocalInv, Locals, SessionType, LedgerType, RefundType, RequestType, MaxAttempts
    <3>2. HeldInv(q, c, t, "done", f, m)
      BY <1>1, <1>2, <1>3, <3>0 DEF LocalInv, Locals, SessionType, LedgerType, RefundType, RequestType, Excess, Times
    <3>3. ExactInv(q, c, t, "done", f, m)
      BY <1>1, <1>2, <1>3, <3>0 DEF LocalInv, Locals, SessionType, LedgerType, RefundType, RequestType, FundPrice, TokenPrice, Pending
    <3> QED
      BY <3>1, <3>2, <3>3 DEF LocalInv
  <2> QED
    BY <2>2, <2>3, <2>4, LocalStep
<1>4. CASE d # 0
  <2> DEFINE t == [s EXCEPT !.actual = a, !.delta = d, !.settled = FALSE]
  <2>0. ledger' = [ledger EXCEPT ![r] = m] /\ m \in LedgerType /\ ColumnsOK'
    BY <1>1, <1>4, Unchanged DEF Locals, ColumnsOK, columns, OverTotal, SettleBilling
  <2>2. Becomes(r, q, c, t, "settleFund", f, m)
    <3>1. ses' = [ses EXCEPT ![r] = t]
      BY <1>1, <1>2, <1>4 DEF IInv, TypeOK, SettleBilling
    <3> QED  BY <1>2, <1>4, <2>0, <3>1, Unchanged DEF Becomes, SettleBilling, Goto
  <2>3. Locals(q, c, t, "settleFund", f, m)
    BY <1>1, <1>2, <1>4, <2>0 DEF Locals, SessionType, RefundType, RequestType, RecordType, HandlerPcs, RefundPcs
  <2>4. LocalInv(q, c, t, "settleFund", f, m)
    <3>1. SessionInv(q, c, t, "settleFund", f, m)
      BY <1>1, <1>2, <1>4 DEF LocalInv, Locals, SessionType, LedgerType, RefundType, RequestType, MaxAttempts
    <3>2. HeldInv(q, c, t, "settleFund", f, m)
      BY <1>1, <1>2, <1>4 DEF LocalInv, Locals, SessionType, LedgerType, RefundType, RequestType, Excess, Times
    <3>3. ExactInv(q, c, t, "settleFund", f, m)
      BY <1>1, <1>2, <1>4 DEF LocalInv, Locals, SessionType, LedgerType, RefundType, RequestType, FundPrice, TokenPrice, Pending
    <3> QED
      BY <3>1, <3>2, <3>3 DEF LocalInv
  <2> QED
    BY <2>2, <2>3, <2>4, LocalStep
<1> QED
  BY <1>2, <1>3, <1>4 DEF SettleBilling

\* The source pays or gets back the difference.
LEMMA StepSettleFunding ==
  ASSUME IInv, NEW r \in Requests, SettleFunding(r)
  PROVE  IInv'
<1> DEFINE q == req[r]
           c == record[r]
           s == ses[r]
           f == refund[r]
           m == ledger[r]
<1>1. Locals(q, c, s, pc[r], f, m) /\ LocalInv(q, c, s, pc[r], f, m) /\ ColumnsOK
  BY LocalTypes
<1>2. pc[r] = "settleFund" /\ s.delta \in Int /\ q.playground \in BOOLEAN
  BY <1>1 DEF Locals, SessionType, RequestType, LedgerType, RefundType, SettleFunding
<1>3. CASE /\ MoveFunding(r, s.delta, 0) /\ q.playground /\ Goto(r, "done")
           /\ ses' = [ses EXCEPT ![r].fundingSettled = TRUE, ![r].settled = TRUE]
  <2> DEFINE t == [s EXCEPT !.fundingSettled = TRUE, !.settled = TRUE]
  <2>0. s.delta \in Int /\ 0 \in Nat
    BY <1>1, <1>2 DEF Locals, SessionType
  <2> PICK l \in LedgerType : /\ ledger' = [ledger EXCEPT ![r] = l] /\ ColumnsOK'
                              /\ Paid(s.funding, m, s.delta, 0, l)
    BY <1>2, <1>3, <2>0, MoveFundingEffect
  <2>2. Becomes(r, q, c, t, "done", f, l)
    <3>1. ses' = [ses EXCEPT ![r] = t]
      BY <1>1, <1>2, <1>3 DEF IInv, TypeOK, SettleFunding
    <3> QED  BY <1>2, <1>3, <3>1, Unchanged DEF Becomes, SettleFunding, Goto
  <2>3. Locals(q, c, t, "done", f, l)
    BY <1>1, <1>2, <1>3 DEF Locals, SessionType, RefundType, RequestType, RecordType, HandlerPcs, RefundPcs
  <2>4. LocalInv(q, c, t, "done", f, l)
    <3>0. /\ f.pc = "idle" /\ f.torn = 0 /\ ~s.refunded /\ ~s.reserving /\ s.pre \in Nat
          /\ s.actual \in Nat /\ s.delta = s.actual - s.pre /\ m.token >= 0
          /\ s.funding = "wallet" => m.wallet >= s.pre
          /\ s.funding = "subscription" => m.sub >= s.pre
          /\ s.funding = "none" => s.pre = 0 /\ m.wallet >= 0
      BY <1>1, <1>2, <1>3 DEF LocalInv, Locals, SessionType, LedgerType, RefundType, RequestType, RefundPcs, MaxAttempts
    <3>1. SessionInv(q, c, t, "done", f, l)
      BY <1>1, <1>2, <1>3, <3>0 DEF LocalInv, Locals, SessionType, LedgerType, RefundType, RequestType, MaxAttempts, Paid
    <3>2. HeldInv(q, c, t, "done", f, l)
      BY <1>1, <1>2, <1>3, <3>0 DEF LocalInv, Locals, SessionType, LedgerType, RefundType, RequestType, Excess, Times, Paid
    <3>3. ExactInv(q, c, t, "done", f, l)
      BY <1>1, <1>2, <1>3, <3>0 DEF LocalInv, Locals, SessionType, LedgerType, RefundType, RequestType, FundPrice, TokenPrice, Pending, Paid
    <3> QED
      BY <3>1, <3>2, <3>3 DEF LocalInv
  <2> QED
    BY <2>2, <2>3, <2>4, LocalStep
<1>4. CASE /\ MoveFunding(r, s.delta, 0) /\ ~q.playground /\ Goto(r, "settleToken")
           /\ ses' = [ses EXCEPT ![r].fundingSettled = TRUE, ![r].settled = FALSE]
  <2> DEFINE t == [s EXCEPT !.fundingSettled = TRUE, !.settled = FALSE]
  <2>0. s.delta \in Int /\ 0 \in Nat
    BY <1>1, <1>2 DEF Locals, SessionType
  <2> PICK l \in LedgerType : /\ ledger' = [ledger EXCEPT ![r] = l] /\ ColumnsOK'
                              /\ Paid(s.funding, m, s.delta, 0, l)
    BY <1>2, <1>4, <2>0, MoveFundingEffect
  <2>2. Becomes(r, q, c, t, "settleToken", f, l)
    <3>1. ses' = [ses EXCEPT ![r] = t]
      BY <1>1, <1>2, <1>4 DEF IInv, TypeOK, SettleFunding
    <3> QED  BY <1>2, <1>4, <3>1, Unchanged DEF Becomes, SettleFunding, Goto
  <2>3. Locals(q, c, t, "settleToken", f, l)
    BY <1>1, <1>2, <1>4 DEF Locals, SessionType, RefundType, RequestType, RecordType, HandlerPcs, RefundPcs
  <2>4. LocalInv(q, c, t, "settleToken", f, l)
    <3>0. /\ f.pc = "idle" /\ f.torn = 0 /\ ~s.refunded /\ ~s.reserving /\ s.pre \in Nat
          /\ s.actual \in Nat /\ s.delta = s.actual - s.pre /\ m.token >= 0
          /\ s.funding = "wallet" => m.wallet >= s.pre
          /\ s.funding = "subscription" => m.sub >= s.pre
          /\ s.funding = "none" => s.pre = 0 /\ m.wallet >= 0
      BY <1>1, <1>2, <1>4 DEF LocalInv, Locals, SessionType, LedgerType, RefundType, RequestType, RefundPcs, MaxAttempts
    <3>1. SessionInv(q, c, t, "settleToken", f, l)
      BY <1>1, <1>2, <1>4, <3>0 DEF LocalInv, Locals, SessionType, LedgerType, RefundType, RequestType, MaxAttempts, Paid
    <3>2. HeldInv(q, c, t, "settleToken", f, l)
      BY <1>1, <1>2, <1>4, <3>0 DEF LocalInv, Locals, SessionType, LedgerType, RefundType, RequestType, Excess, Times, Paid
    <3>3. ExactInv(q, c, t, "settleToken", f, l)
      BY <1>1, <1>2, <1>4, <3>0 DEF LocalInv, Locals, SessionType, LedgerType, RefundType, RequestType, FundPrice, TokenPrice, Pending, Paid
    <3> QED
      BY <3>1, <3>2, <3>3 DEF LocalInv
  <2> QED
    BY <2>2, <2>3, <2>4, LocalStep
<1>5. CASE OverTotal(r, s.delta) /\ Goto(r, "done") /\ UNCHANGED ses
  <2>0. ledger' = [ledger EXCEPT ![r] = m] /\ m \in LedgerType /\ ColumnsOK'
    BY <1>1, <1>5, Unchanged DEF Locals, ColumnsOK, columns, OverTotal, SettleFunding
  <2>2. Becomes(r, q, c, s, "done", f, m)
    BY <1>2, <1>5, <2>0, Unchanged DEF Becomes, SettleFunding, Goto
  <2>3. Locals(q, c, s, "done", f, m)
    BY <1>1, <1>2, <1>5, <2>0 DEF Locals, SessionType, RefundType, RequestType, RecordType, HandlerPcs, RefundPcs
  <2>4. LocalInv(q, c, s, "done", f, m)
    <3>1. SessionInv(q, c, s, "done", f, m)
      BY <1>1, <1>2, <1>5 DEF LocalInv, Locals, SessionType, LedgerType, RefundType, RequestType, MaxAttempts
    <3>2. HeldInv(q, c, s, "done", f, m)
      BY <1>1, <1>2, <1>5 DEF LocalInv, Locals, SessionType, LedgerType, RefundType, RequestType, Excess, Times
    <3>3. ExactInv(q, c, s, "done", f, m)
      BY <1>1, <1>2, <1>5 DEF LocalInv, Locals, SessionType, LedgerType, RefundType, RequestType, FundPrice, TokenPrice, Pending
    <3> QED
      BY <3>1, <3>2, <3>3 DEF LocalInv
  <2> QED
    BY <2>2, <2>3, <2>4, LocalStep
<1>6. CASE Fault(r) /\ Goto(r, "done") /\ UNCHANGED ses
  <2> DEFINE l == [m EXCEPT !.clean = FALSE]
  <2>0. ledger' = [ledger EXCEPT ![r] = l] /\ l \in LedgerType /\ ColumnsOK'
    BY <1>6, FaultEffect
  <2>2. Becomes(r, q, c, s, "done", f, l)
    BY <1>2, <1>6, <2>0, Unchanged DEF Becomes, SettleFunding, Goto
  <2>3. Locals(q, c, s, "done", f, l)
    BY <1>1, <1>2, <1>6, <2>0 DEF Locals, SessionType, RefundType, RequestType, RecordType, HandlerPcs, RefundPcs
  <2>4. LocalInv(q, c, s, "done", f, l)
    <3>1. SessionInv(q, c, s, "done", f, l)
      BY <1>1, <1>2, <1>6 DEF LocalInv, Locals, SessionType, LedgerType, RefundType, RequestType, MaxAttempts
    <3>2. HeldInv(q, c, s, "done", f, l)
      BY <1>1, <1>2, <1>6 DEF LocalInv, Locals, SessionType, LedgerType, RefundType, RequestType, Excess, Times
    <3>3. ExactInv(q, c, s, "done", f, l)
      BY <1>1, <1>2, <1>6 DEF LocalInv, Locals, SessionType, LedgerType, RefundType, RequestType, FundPrice, TokenPrice, Pending
    <3> QED
      BY <3>1, <3>2, <3>3 DEF LocalInv
  <2> QED
    BY <2>2, <2>3, <2>4, LocalStep
<1> QED
  BY <1>2, <1>3, <1>4, <1>5, <1>6 DEF SettleFunding

\* The token pays or gets back the difference.
LEMMA StepSettleToken ==
  ASSUME IInv, NEW r \in Requests, SettleToken(r)
  PROVE  IInv'
<1> DEFINE q == req[r]
           c == record[r]
           s == ses[r]
           f == refund[r]
           m == ledger[r]
<1>1. Locals(q, c, s, pc[r], f, m) /\ LocalInv(q, c, s, pc[r], f, m) /\ ColumnsOK
  BY LocalTypes
<1>2. pc[r] = "settleToken" /\ s.delta \in Int
  BY <1>1 DEF Locals, SessionType, RequestType, LedgerType, RefundType, SettleToken
<1>3. CASE MoveToken(r, s.delta)
  <2> DEFINE t == [s EXCEPT !.settled = TRUE]
  <2> DEFINE l == [m EXCEPT !.token = @ + s.delta]
  <2>0. ledger' = [ledger EXCEPT ![r] = l] /\ l \in LedgerType /\ ColumnsOK'
    <3>1. s.delta \in Int
      BY <1>1, <1>2 DEF Locals, SessionType
    <3> QED  BY <1>3, <3>1, MoveTokenEffect
  <2>2. Becomes(r, q, c, t, "done", f, l)
    <3>1. ses' = [ses EXCEPT ![r] = t]
      BY <1>1, <1>2, <1>3 DEF IInv, TypeOK, SettleToken
    <3> QED  BY <1>2, <1>3, <2>0, <3>1, Unchanged DEF Becomes, SettleToken, Goto
  <2>3. Locals(q, c, t, "done", f, l)
    BY <1>1, <1>2, <1>3, <2>0 DEF Locals, SessionType, RefundType, RequestType, RecordType, HandlerPcs, RefundPcs
  <2>4. LocalInv(q, c, t, "done", f, l)
    <3>1. SessionInv(q, c, t, "done", f, l)
      BY <1>1, <1>2, <1>3 DEF LocalInv, Locals, SessionType, LedgerType, RefundType, RequestType, MaxAttempts
    <3>2. HeldInv(q, c, t, "done", f, l)
      BY <1>1, <1>2, <1>3 DEF LocalInv, Locals, SessionType, LedgerType, RefundType, RequestType, Excess, Times
    <3>3. ExactInv(q, c, t, "done", f, l)
      BY <1>1, <1>2, <1>3 DEF LocalInv, Locals, SessionType, LedgerType, RefundType, RequestType, FundPrice, TokenPrice, Pending
    <3> QED
      BY <3>1, <3>2, <3>3 DEF LocalInv
  <2> QED
    BY <2>2, <2>3, <2>4, LocalStep
<1>4. CASE Fault(r)
  <2> DEFINE t == [s EXCEPT !.settled = TRUE]
  <2> DEFINE l == [m EXCEPT !.clean = FALSE]
  <2>0. ledger' = [ledger EXCEPT ![r] = l] /\ l \in LedgerType /\ ColumnsOK'
    BY <1>4, FaultEffect
  <2>2. Becomes(r, q, c, t, "done", f, l)
    <3>1. ses' = [ses EXCEPT ![r] = t]
      BY <1>1, <1>2, <1>4 DEF IInv, TypeOK, SettleToken
    <3> QED  BY <1>2, <1>4, <2>0, <3>1, Unchanged DEF Becomes, SettleToken, Goto
  <2>3. Locals(q, c, t, "done", f, l)
    BY <1>1, <1>2, <1>4, <2>0 DEF Locals, SessionType, RefundType, RequestType, RecordType, HandlerPcs, RefundPcs
  <2>4. LocalInv(q, c, t, "done", f, l)
    <3>1. SessionInv(q, c, t, "done", f, l)
      BY <1>1, <1>2, <1>4 DEF LocalInv, Locals, SessionType, LedgerType, RefundType, RequestType, MaxAttempts
    <3>2. HeldInv(q, c, t, "done", f, l)
      BY <1>1, <1>2, <1>4 DEF LocalInv, Locals, SessionType, LedgerType, RefundType, RequestType, Excess, Times
    <3>3. ExactInv(q, c, t, "done", f, l)
      BY <1>1, <1>2, <1>4 DEF LocalInv, Locals, SessionType, LedgerType, RefundType, RequestType, FundPrice, TokenPrice, Pending
    <3> QED
      BY <3>1, <3>2, <3>3 DEF LocalInv
  <2> QED
    BY <2>2, <2>3, <2>4, LocalStep
<1> QED
  BY <1>2, <1>3, <1>4 DEF SettleToken

\* The last attempt failed: the refund goroutine starts, if there is something to refund.
LEMMA StepRefund ==
  ASSUME IInv, NEW r \in Requests, Refund(r)
  PROVE  IInv'
<1> DEFINE q == req[r]
           c == record[r]
           s == ses[r]
           f == refund[r]
           m == ledger[r]
<1>1. Locals(q, c, s, pc[r], f, m) /\ LocalInv(q, c, s, pc[r], f, m) /\ ColumnsOK
  BY LocalTypes
<1>2. pc[r] \in {"relay", "failing"}
  BY <1>1 DEF Locals, SessionType, RequestType, LedgerType, RefundType, Refund
<1>3. CASE NeedsRefund(r)
  <2> DEFINE t == [s EXCEPT !.refunded = TRUE]
             g == [f EXCEPT !.pc = "fund"]
  <2>0. ledger' = [ledger EXCEPT ![r] = m] /\ m \in LedgerType /\ ColumnsOK'
    BY <1>1, <1>3, Unchanged DEF Locals, ColumnsOK, columns, OverTotal, Refund
  <2>2. Becomes(r, q, c, t, "fee", g, m)
    <3>1. ses' = [ses EXCEPT ![r] = t]
      BY <1>1, <1>2, <1>3 DEF IInv, TypeOK, Refund
    <3>2. refund' = [refund EXCEPT ![r] = g]
      BY <1>1, <1>2, <1>3 DEF IInv, TypeOK, Refund
    <3> QED  BY <1>2, <1>3, <2>0, <3>1, <3>2, Unchanged DEF Becomes, Refund, Goto
  <2>3. Locals(q, c, t, "fee", g, m)
    BY <1>1, <1>2, <1>3, <2>0 DEF Locals, SessionType, RefundType, RequestType, RecordType, HandlerPcs, RefundPcs
  <2>4. LocalInv(q, c, t, "fee", g, m)
    <3>1. SessionInv(q, c, t, "fee", g, m)
      BY <1>1, <1>2, <1>3 DEF LocalInv, Locals, SessionType, LedgerType, RefundType, RequestType, MaxAttempts, NeedsRefund, RefundPcs
    <3>2. HeldInv(q, c, t, "fee", g, m)
      BY <1>1, <1>2, <1>3 DEF LocalInv, Locals, SessionType, LedgerType, RefundType, RequestType, Excess, Times, NeedsRefund, RefundPcs
    <3>3. ExactInv(q, c, t, "fee", g, m)
      BY <1>1, <1>2, <1>3 DEF LocalInv, Locals, SessionType, LedgerType, RefundType, RequestType, FundPrice, TokenPrice, Pending, NeedsRefund, RefundPcs
    <3> QED
      BY <3>1, <3>2, <3>3 DEF LocalInv
  <2> QED
    BY <2>2, <2>3, <2>4, LocalStep
<1>4. CASE ~NeedsRefund(r)
  <2>0. ledger' = [ledger EXCEPT ![r] = m] /\ m \in LedgerType /\ ColumnsOK'
    BY <1>1, <1>4, Unchanged DEF Locals, ColumnsOK, columns, OverTotal, Refund
  <2>2. Becomes(r, q, c, s, "fee", f, m)
    BY <1>2, <1>4, <2>0, Unchanged DEF Becomes, Refund, Goto
  <2>3. Locals(q, c, s, "fee", f, m)
    BY <1>1, <1>2, <1>4, <2>0 DEF Locals, SessionType, RefundType, RequestType, RecordType, HandlerPcs, RefundPcs
  <2>4. LocalInv(q, c, s, "fee", f, m)
    <3>1. SessionInv(q, c, s, "fee", f, m)
      BY <1>1, <1>2, <1>4 DEF LocalInv, Locals, SessionType, LedgerType, RefundType, RequestType, MaxAttempts
    <3>2. HeldInv(q, c, s, "fee", f, m)
      BY <1>1, <1>2, <1>4 DEF LocalInv, Locals, SessionType, LedgerType, RefundType, RequestType, Excess, Times
    <3>3. ExactInv(q, c, s, "fee", f, m)
      BY <1>1, <1>2, <1>4 DEF LocalInv, Locals, SessionType, LedgerType, RefundType, RequestType, FundPrice, TokenPrice, Pending
    <3> QED
      BY <3>1, <3>2, <3>3 DEF LocalInv
  <2> QED
    BY <2>2, <2>3, <2>4, LocalStep
<1> QED
  BY <1>2, <1>3, <1>4 DEF Refund

\* The violation fee is billed to the source.
LEMMA StepChargeViolationFee ==
  ASSUME IInv, NEW r \in Requests, NEW x \in Fees, ChargeViolationFee(r, x)
  PROVE  IInv'
<1> DEFINE q == req[r]
           c == record[r]
           s == ses[r]
           f == refund[r]
           m == ledger[r]
           t == [s EXCEPT !.delta = x]
<1>1. Locals(q, c, s, pc[r], f, m) /\ LocalInv(q, c, s, pc[r], f, m) /\ ColumnsOK
  BY LocalTypes
<1>2. pc[r] = "fee" /\ x \in Nat /\ x \in Int /\ x > 0 /\ ses' = [ses EXCEPT ![r] = t]
  BY <1>1, BillingAssumption DEF Locals, SessionType, RequestType, LedgerType, RefundType, ChargeViolationFee, IInv, TypeOK
<1>3. CASE MoveFunding(r, x, x) /\ Goto(r, IF q.playground THEN "done" ELSE "feeToken")
  <2> DEFINE k == IF q.playground THEN "done" ELSE "feeToken"
  <2>0. x \in Int /\ x \in Nat
    BY <1>1, <1>2, BillingAssumption DEF Locals, SessionType
  <2> PICK l \in LedgerType : /\ ledger' = [ledger EXCEPT ![r] = l] /\ ColumnsOK'
                              /\ Paid(s.funding, m, x, x, l)
    BY <1>2, <1>3, <2>0, MoveFundingEffect
  <2>2. Becomes(r, q, c, t, k, f, l)
    BY <1>2, <1>3, Unchanged DEF Becomes, ChargeViolationFee, Goto
  <2>3. Locals(q, c, t, k, f, l)
    BY <1>1, <1>2, <1>3 DEF Locals, SessionType, RefundType, RequestType, RecordType, HandlerPcs, RefundPcs
  <2>4. LocalInv(q, c, t, k, f, l)
    <3>0. l.sub >= m.sub /\ l.wallet >= m.wallet /\ l.token = m.token /\ m.token \in Int
      BY <1>1, <1>2, <1>3 DEF LocalInv, Locals, SessionType, LedgerType, RefundType, RequestType, RefundPcs, MaxAttempts, Paid
    <3>1. SessionInv(q, c, t, k, f, l)
      BY <1>1, <1>2, <1>3 DEF LocalInv, Locals, SessionType, LedgerType, RefundType, RequestType, MaxAttempts, Paid
    <3>2. HeldInv(q, c, t, k, f, l)
      BY <1>1, <1>2, <1>3, <3>0 DEF LocalInv, Locals, SessionType, LedgerType, RefundType, RequestType, Excess, Times, Paid
    <3>3. ExactInv(q, c, t, k, f, l)
      BY <1>1, <1>2, <1>3 DEF LocalInv, Locals, SessionType, LedgerType, RefundType, RequestType, FundPrice, TokenPrice, Pending, Paid
    <3> QED
      BY <3>1, <3>2, <3>3 DEF LocalInv
  <2> QED
    BY <2>2, <2>3, <2>4, LocalStep
<1>4. CASE OverTotal(r, x) /\ Goto(r, "done")
  <2>0. ledger' = [ledger EXCEPT ![r] = m] /\ m \in LedgerType /\ ColumnsOK'
    BY <1>1, <1>4, Unchanged DEF Locals, ColumnsOK, columns, OverTotal, ChargeViolationFee
  <2>2. Becomes(r, q, c, t, "done", f, m)
    BY <1>2, <1>4, <2>0, Unchanged DEF Becomes, ChargeViolationFee, Goto
  <2>3. Locals(q, c, t, "done", f, m)
    BY <1>1, <1>2, <1>4, <2>0 DEF Locals, SessionType, RefundType, RequestType, RecordType, HandlerPcs, RefundPcs
  <2>4. LocalInv(q, c, t, "done", f, m)
    <3>1. SessionInv(q, c, t, "done", f, m)
      BY <1>1, <1>2, <1>4 DEF LocalInv, Locals, SessionType, LedgerType, RefundType, RequestType, MaxAttempts
    <3>2. HeldInv(q, c, t, "done", f, m)
      BY <1>1, <1>2, <1>4 DEF LocalInv, Locals, SessionType, LedgerType, RefundType, RequestType, Excess, Times
    <3>3. ExactInv(q, c, t, "done", f, m)
      BY <1>1, <1>2, <1>4 DEF LocalInv, Locals, SessionType, LedgerType, RefundType, RequestType, FundPrice, TokenPrice, Pending
    <3> QED
      BY <3>1, <3>2, <3>3 DEF LocalInv
  <2> QED
    BY <2>2, <2>3, <2>4, LocalStep
<1>5. CASE Fault(r) /\ Goto(r, "done")
  <2> DEFINE l == [m EXCEPT !.clean = FALSE]
  <2>0. ledger' = [ledger EXCEPT ![r] = l] /\ l \in LedgerType /\ ColumnsOK'
    BY <1>5, FaultEffect
  <2>2. Becomes(r, q, c, t, "done", f, l)
    BY <1>2, <1>5, <2>0, Unchanged DEF Becomes, ChargeViolationFee, Goto
  <2>3. Locals(q, c, t, "done", f, l)
    BY <1>1, <1>2, <1>5, <2>0 DEF Locals, SessionType, RefundType, RequestType, RecordType, HandlerPcs, RefundPcs
  <2>4. LocalInv(q, c, t, "done", f, l)
    <3>1. SessionInv(q, c, t, "done", f, l)
      BY <1>1, <1>2, <1>5 DEF LocalInv, Locals, SessionType, LedgerType, RefundType, RequestType, MaxAttempts
    <3>2. HeldInv(q, c, t, "done", f, l)
      BY <1>1, <1>2, <1>5 DEF LocalInv, Locals, SessionType, LedgerType, RefundType, RequestType, Excess, Times
    <3>3. ExactInv(q, c, t, "done", f, l)
      BY <1>1, <1>2, <1>5 DEF LocalInv, Locals, SessionType, LedgerType, RefundType, RequestType, FundPrice, TokenPrice, Pending
    <3> QED
      BY <3>1, <3>2, <3>3 DEF LocalInv
  <2> QED
    BY <2>2, <2>3, <2>4, LocalStep
<1> QED
  BY <1>2, <1>3, <1>4, <1>5 DEF ChargeViolationFee

\* There is no fee.
LEMMA StepNoViolation ==
  ASSUME IInv, NEW r \in Requests, NoViolation(r)
  PROVE  IInv'
<1> DEFINE q == req[r]
           c == record[r]
           s == ses[r]
           f == refund[r]
           m == ledger[r]
<1>1. Locals(q, c, s, pc[r], f, m) /\ LocalInv(q, c, s, pc[r], f, m) /\ ColumnsOK
  BY LocalTypes
<1>2. pc[r] = "fee"
  BY <1>1 DEF Locals, SessionType, RequestType, LedgerType, RefundType, NoViolation
<1>3. CASE Goto(r, "done")
  <2>0. ledger' = [ledger EXCEPT ![r] = m] /\ m \in LedgerType /\ ColumnsOK'
    BY <1>1, <1>3, Unchanged DEF Locals, ColumnsOK, columns, OverTotal, NoViolation
  <2>2. Becomes(r, q, c, s, "done", f, m)
    BY <1>2, <1>3, <2>0, Unchanged DEF Becomes, NoViolation, Goto
  <2>3. Locals(q, c, s, "done", f, m)
    BY <1>1, <1>2, <1>3, <2>0 DEF Locals, SessionType, RefundType, RequestType, RecordType, HandlerPcs, RefundPcs
  <2>4. LocalInv(q, c, s, "done", f, m)
    <3>1. SessionInv(q, c, s, "done", f, m)
      BY <1>1, <1>2, <1>3 DEF LocalInv, Locals, SessionType, LedgerType, RefundType, RequestType, MaxAttempts
    <3>2. HeldInv(q, c, s, "done", f, m)
      BY <1>1, <1>2, <1>3 DEF LocalInv, Locals, SessionType, LedgerType, RefundType, RequestType, Excess, Times
    <3>3. ExactInv(q, c, s, "done", f, m)
      BY <1>1, <1>2, <1>3 DEF LocalInv, Locals, SessionType, LedgerType, RefundType, RequestType, FundPrice, TokenPrice, Pending
    <3> QED
      BY <3>1, <3>2, <3>3 DEF LocalInv
  <2> QED
    BY <2>2, <2>3, <2>4, LocalStep
<1> QED
  BY <1>2, <1>3 DEF NoViolation

\* The violation fee is billed to the token.
LEMMA StepFeeToken ==
  ASSUME IInv, NEW r \in Requests, FeeToken(r)
  PROVE  IInv'
<1> DEFINE q == req[r]
           c == record[r]
           s == ses[r]
           f == refund[r]
           m == ledger[r]
<1>1. Locals(q, c, s, pc[r], f, m) /\ LocalInv(q, c, s, pc[r], f, m) /\ ColumnsOK
  BY LocalTypes
<1>2. pc[r] = "feeToken" /\ s.delta \in Int
  BY <1>1 DEF Locals, SessionType, RequestType, LedgerType, RefundType, FeeToken
<1>3. CASE MoveToken(r, s.delta)
  <2> DEFINE l == [m EXCEPT !.token = @ + s.delta]
  <2>0. ledger' = [ledger EXCEPT ![r] = l] /\ l \in LedgerType /\ ColumnsOK'
    <3>1. s.delta \in Int
      BY <1>1, <1>2 DEF Locals, SessionType
    <3> QED  BY <1>3, <3>1, MoveTokenEffect
  <2>2. Becomes(r, q, c, s, "done", f, l)
    BY <1>2, <1>3, <2>0, Unchanged DEF Becomes, FeeToken, Goto
  <2>3. Locals(q, c, s, "done", f, l)
    BY <1>1, <1>2, <1>3, <2>0 DEF Locals, SessionType, RefundType, RequestType, RecordType, HandlerPcs, RefundPcs
  <2>4. LocalInv(q, c, s, "done", f, l)
    <3>1. SessionInv(q, c, s, "done", f, l)
      BY <1>1, <1>2, <1>3 DEF LocalInv, Locals, SessionType, LedgerType, RefundType, RequestType, MaxAttempts
    <3>2. HeldInv(q, c, s, "done", f, l)
      BY <1>1, <1>2, <1>3 DEF LocalInv, Locals, SessionType, LedgerType, RefundType, RequestType, Excess, Times
    <3>3. ExactInv(q, c, s, "done", f, l)
      BY <1>1, <1>2, <1>3 DEF LocalInv, Locals, SessionType, LedgerType, RefundType, RequestType, FundPrice, TokenPrice, Pending
    <3> QED
      BY <3>1, <3>2, <3>3 DEF LocalInv
  <2> QED
    BY <2>2, <2>3, <2>4, LocalStep
<1>4. CASE Fault(r)
  <2> DEFINE l == [m EXCEPT !.clean = FALSE]
  <2>0. ledger' = [ledger EXCEPT ![r] = l] /\ l \in LedgerType /\ ColumnsOK'
    BY <1>4, FaultEffect
  <2>2. Becomes(r, q, c, s, "done", f, l)
    BY <1>2, <1>4, <2>0, Unchanged DEF Becomes, FeeToken, Goto
  <2>3. Locals(q, c, s, "done", f, l)
    BY <1>1, <1>2, <1>4, <2>0 DEF Locals, SessionType, RefundType, RequestType, RecordType, HandlerPcs, RefundPcs
  <2>4. LocalInv(q, c, s, "done", f, l)
    <3>1. SessionInv(q, c, s, "done", f, l)
      BY <1>1, <1>2, <1>4 DEF LocalInv, Locals, SessionType, LedgerType, RefundType, RequestType, MaxAttempts
    <3>2. HeldInv(q, c, s, "done", f, l)
      BY <1>1, <1>2, <1>4 DEF LocalInv, Locals, SessionType, LedgerType, RefundType, RequestType, Excess, Times
    <3>3. ExactInv(q, c, s, "done", f, l)
      BY <1>1, <1>2, <1>4 DEF LocalInv, Locals, SessionType, LedgerType, RefundType, RequestType, FundPrice, TokenPrice, Pending
    <3> QED
      BY <3>1, <3>2, <3>3 DEF LocalInv
  <2> QED
    BY <2>2, <2>3, <2>4, LocalStep
<1> QED
  BY <1>2, <1>3, <1>4 DEF FeeToken

\* The wallet gets its pre-consumption back.
LEMMA StepRefundWallet ==
  ASSUME IInv, NEW r \in Requests, RefundWallet(r)
  PROVE  IInv'
<1> DEFINE q == req[r]
           c == record[r]
           s == ses[r]
           f == refund[r]
           m == ledger[r]
<1>1. Locals(q, c, s, pc[r], f, m) /\ LocalInv(q, c, s, pc[r], f, m) /\ ColumnsOK
  BY LocalTypes
<1>2. f.pc = "fund" /\ s.funding = "wallet" /\ s.consumed \in Nat
  BY <1>1 DEF Locals, SessionType, RequestType, LedgerType, RefundType, RefundWallet
<1>3. CASE MoveWallet(r, -s.consumed, 0)
  <2> DEFINE g == [f EXCEPT !.pc = "extra"]
  <2>0. (-s.consumed) \in Int /\ 0 \in Nat
    BY <1>1, <1>2 DEF Locals, SessionType
  <2> PICK l \in LedgerType : /\ ledger' = [ledger EXCEPT ![r] = l] /\ ColumnsOK'
                              /\ Paid(s.funding, m, (-s.consumed), 0, l)
    BY <1>2, <1>3, <2>0, MoveWalletEffect
  <2>2. Becomes(r, q, c, s, pc[r], g, l)
    <3>1. refund' = [refund EXCEPT ![r] = g]
      BY <1>1, <1>2, <1>3 DEF IInv, TypeOK, RefundWallet, RefundGoto
    <3> QED  BY <1>2, <1>3, <3>1, Unchanged DEF Becomes, RefundWallet, Goto
  <2>3. Locals(q, c, s, pc[r], g, l)
    BY <1>1, <1>2, <1>3 DEF Locals, SessionType, RefundType, RequestType, RecordType, HandlerPcs, RefundPcs
  <2>4. LocalInv(q, c, s, pc[r], g, l)
    <3>1. SessionInv(q, c, s, pc[r], g, l)
      BY <1>1, <1>2, <1>3 DEF LocalInv, Locals, SessionType, LedgerType, RefundType, RequestType, MaxAttempts, Paid
    <3>2. HeldInv(q, c, s, pc[r], g, l)
      BY <1>1, <1>2, <1>3 DEF LocalInv, Locals, SessionType, LedgerType, RefundType, RequestType, Excess, Times, Paid
    <3>3. ExactInv(q, c, s, pc[r], g, l)
      BY <1>1, <1>2, <1>3 DEF LocalInv, Locals, SessionType, LedgerType, RefundType, RequestType, FundPrice, TokenPrice, Pending, Paid
    <3> QED
      BY <3>1, <3>2, <3>3 DEF LocalInv
  <2> QED
    BY <2>2, <2>3, <2>4, LocalStep
<1>4. CASE Fault(r)
  <2> DEFINE g == [f EXCEPT !.pc = "extra"]
  <2> DEFINE l == [m EXCEPT !.clean = FALSE]
  <2>0. ledger' = [ledger EXCEPT ![r] = l] /\ l \in LedgerType /\ ColumnsOK'
    BY <1>4, FaultEffect
  <2>2. Becomes(r, q, c, s, pc[r], g, l)
    <3>1. refund' = [refund EXCEPT ![r] = g]
      BY <1>1, <1>2, <1>4 DEF IInv, TypeOK, RefundWallet, RefundGoto
    <3> QED  BY <1>2, <1>4, <2>0, <3>1, Unchanged DEF Becomes, RefundWallet, Goto
  <2>3. Locals(q, c, s, pc[r], g, l)
    BY <1>1, <1>2, <1>4, <2>0 DEF Locals, SessionType, RefundType, RequestType, RecordType, HandlerPcs, RefundPcs
  <2>4. LocalInv(q, c, s, pc[r], g, l)
    <3>1. SessionInv(q, c, s, pc[r], g, l)
      BY <1>1, <1>2, <1>4 DEF LocalInv, Locals, SessionType, LedgerType, RefundType, RequestType, MaxAttempts
    <3>2. HeldInv(q, c, s, pc[r], g, l)
      BY <1>1, <1>2, <1>4 DEF LocalInv, Locals, SessionType, LedgerType, RefundType, RequestType, Excess, Times
    <3>3. ExactInv(q, c, s, pc[r], g, l)
      BY <1>1, <1>2, <1>4 DEF LocalInv, Locals, SessionType, LedgerType, RefundType, RequestType, FundPrice, TokenPrice, Pending
    <3> QED
      BY <3>1, <3>2, <3>3 DEF LocalInv
  <2> QED
    BY <2>2, <2>3, <2>4, LocalStep
<1> QED
  BY <1>2, <1>3, <1>4 DEF RefundWallet

\* An attempt to give the pre-consumption back to the subscription.
LEMMA StepRefundSubscription ==
  ASSUME IInv, NEW r \in Requests, RefundSubscription(r)
  PROVE  IInv'
<1> DEFINE q == req[r]
           c == record[r]
           s == ses[r]
           f == refund[r]
           m == ledger[r]
<1>1. Locals(q, c, s, pc[r], f, m) /\ LocalInv(q, c, s, pc[r], f, m) /\ ColumnsOK
  BY LocalTypes
<1>2. f.pc = "fund" /\ s.funding = "subscription" /\ s.consumed \in Nat /\ f.tries \in 0 .. 3 /\ f.torn \in 0 .. 3
  BY <1>1 DEF Locals, SessionType, RequestType, LedgerType, RefundType, RefundSubscription, MaxAttempts
<1>3. CASE c = "refunded" /\ RefundGoto(r, "extra") /\ UNCHANGED <<columns, ledger, record>>
  <2> DEFINE g == [f EXCEPT !.pc = "extra"]
  <2>0. ledger' = [ledger EXCEPT ![r] = m] /\ m \in LedgerType /\ ColumnsOK'
    BY <1>1, <1>3, Unchanged DEF Locals, ColumnsOK, columns, OverTotal, RefundSubscription
  <2>2. Becomes(r, q, c, s, pc[r], g, m)
    <3>1. refund' = [refund EXCEPT ![r] = g]
      BY <1>1, <1>2, <1>3 DEF IInv, TypeOK, RefundSubscription, RefundGoto
    <3> QED  BY <1>2, <1>3, <2>0, <3>1, Unchanged DEF Becomes, RefundSubscription, Goto
  <2>3. Locals(q, c, s, pc[r], g, m)
    BY <1>1, <1>2, <1>3, <2>0 DEF Locals, SessionType, RefundType, RequestType, RecordType, HandlerPcs, RefundPcs
  <2>4. LocalInv(q, c, s, pc[r], g, m)
    <3>1. SessionInv(q, c, s, pc[r], g, m)
      BY <1>1, <1>2, <1>3 DEF LocalInv, Locals, SessionType, LedgerType, RefundType, RequestType, MaxAttempts, MaxAttempts
    <3>2. HeldInv(q, c, s, pc[r], g, m)
      BY <1>1, <1>2, <1>3 DEF LocalInv, Locals, SessionType, LedgerType, RefundType, RequestType, Excess, Times, MaxAttempts
    <3>3. ExactInv(q, c, s, pc[r], g, m)
      BY <1>1, <1>2, <1>3 DEF LocalInv, Locals, SessionType, LedgerType, RefundType, RequestType, FundPrice, TokenPrice, Pending, MaxAttempts
    <3> QED
      BY <3>1, <3>2, <3>3 DEF LocalInv
  <2> QED
    BY <2>2, <2>3, <2>4, LocalStep
<1>4. CASE /\ c = "consumed" /\ MoveSub(r, -s.consumed, 0) /\ record' = [record EXCEPT ![r] = "refunded"]
           /\ RefundGoto(r, "extra")
  <2> DEFINE g == [f EXCEPT !.pc = "extra"]
  <2>0. (-s.consumed) \in Int /\ 0 \in Nat
    BY <1>1, <1>2 DEF Locals, SessionType
  <2> PICK l \in LedgerType : /\ ledger' = [ledger EXCEPT ![r] = l] /\ ColumnsOK'
                              /\ Paid("subscription", m, (-s.consumed), 0, l)
    BY <1>2, <1>4, <2>0, MoveSubEffect
  <2>2. Becomes(r, q, "refunded", s, pc[r], g, l)
    <3>1. refund' = [refund EXCEPT ![r] = g]
      BY <1>1, <1>2, <1>4 DEF IInv, TypeOK, RefundSubscription, RefundGoto
    <3> QED  BY <1>2, <1>4, <3>1, Unchanged DEF Becomes, RefundSubscription, Goto
  <2>3. Locals(q, "refunded", s, pc[r], g, l)
    BY <1>1, <1>2, <1>4 DEF Locals, SessionType, RefundType, RequestType, RecordType, HandlerPcs, RefundPcs
  <2>4. LocalInv(q, "refunded", s, pc[r], g, l)
    <3>1. SessionInv(q, "refunded", s, pc[r], g, l)
      BY <1>1, <1>2, <1>4 DEF LocalInv, Locals, SessionType, LedgerType, RefundType, RequestType, MaxAttempts, MaxAttempts, Paid
    <3>2. HeldInv(q, "refunded", s, pc[r], g, l)
      BY <1>1, <1>2, <1>4 DEF LocalInv, Locals, SessionType, LedgerType, RefundType, RequestType, Excess, Times, MaxAttempts, Paid
    <3>3. ExactInv(q, "refunded", s, pc[r], g, l)
      BY <1>1, <1>2, <1>4 DEF LocalInv, Locals, SessionType, LedgerType, RefundType, RequestType, FundPrice, TokenPrice, Pending, MaxAttempts, Paid
    <3> QED
      BY <3>1, <3>2, <3>3 DEF LocalInv
  <2> QED
    BY <2>2, <2>3, <2>4, LocalStep
<1>5. CASE /\ c = "consumed" /\ MoveSub(r, -s.consumed, 0) /\ record' = [record EXCEPT ![r] = "refunded"]
           /\ RefundRetry(r, 0)
  <2> DEFINE i == f.tries + 1
             j == f.torn + 0
             p == IF f.tries + 1 = MaxAttempts THEN "extra" ELSE "fund"
             g == [f EXCEPT !.tries = i, !.torn = j, !.pc = p]
  <2>0. (-s.consumed) \in Int /\ 0 \in Nat
    BY <1>1, <1>2 DEF Locals, SessionType
  <2> PICK l \in LedgerType : /\ ledger' = [ledger EXCEPT ![r] = l] /\ ColumnsOK'
                              /\ Paid("subscription", m, (-s.consumed), 0, l)
    BY <1>2, <1>5, <2>0, MoveSubEffect
  <2>1. i \in 0 .. MaxAttempts /\ j \in 0 .. MaxAttempts /\ p \in RefundPcs
    BY <1>1, <1>2, <1>5 DEF LocalInv, Locals, SessionType, LedgerType, RefundType, RequestType, RecordType, MaxAttempts, RefundPcs
  <2>2. Becomes(r, q, "refunded", s, pc[r], g, l)
    <3>1. refund' = [refund EXCEPT ![r] = g]
      BY <1>1, <1>2, <1>5, <2>1 DEF IInv, TypeOK, RefundSubscription, RefundRetry
    <3> QED  BY <1>2, <1>5, <3>1, Unchanged DEF Becomes, RefundSubscription, Goto
  <2>3. Locals(q, "refunded", s, pc[r], g, l)
    <3> HIDE DEF i, j, p
    <3> QED  BY <1>1, <1>2, <1>5, <2>1 DEF Locals, SessionType, RefundType, RequestType, RecordType, HandlerPcs, RefundPcs
  <2>4. LocalInv(q, "refunded", s, pc[r], g, l)
    <3>0. f.torn \in {0, 1, 2} /\ f.tries \in {0, 1, 2} /\ f.torn <= f.tries /\ m.sub >= s.consumed + s.extra - Times(f.torn, s.consumed)
      BY <1>1, <1>2, <1>5, <2>1 DEF LocalInv, Locals, SessionType, LedgerType, RefundType, RequestType, RefundPcs, MaxAttempts
    <3>1. SessionInv(q, "refunded", s, pc[r], g, l)
      BY <1>1, <1>2, <1>5, <2>1, <3>0 DEF LocalInv, Locals, SessionType, LedgerType, RefundType, RequestType, MaxAttempts, MaxAttempts, Paid
    <3>2. HeldInv(q, "refunded", s, pc[r], g, l)
      BY <1>1, <1>2, <1>5, <2>1, <3>0 DEF LocalInv, Locals, SessionType, LedgerType, RefundType, RequestType, Excess, Times, MaxAttempts, Paid
    <3>3. ExactInv(q, "refunded", s, pc[r], g, l)
      BY <1>1, <1>2, <1>5, <2>1, <3>0 DEF LocalInv, Locals, SessionType, LedgerType, RefundType, RequestType, FundPrice, TokenPrice, Pending, MaxAttempts, Paid
    <3> QED
      BY <3>1, <3>2, <3>3 DEF LocalInv
  <2> QED
    BY <2>2, <2>3, <2>4, LocalStep
<1>6. CASE Fault(r) /\ RefundRetry(r, 0) /\ UNCHANGED record
  <2> DEFINE i == f.tries + 1
             j == f.torn + 0
             p == IF f.tries + 1 = MaxAttempts THEN "extra" ELSE "fund"
             g == [f EXCEPT !.tries = i, !.torn = j, !.pc = p]
  <2> DEFINE l == [m EXCEPT !.clean = FALSE]
  <2>0. ledger' = [ledger EXCEPT ![r] = l] /\ l \in LedgerType /\ ColumnsOK'
    BY <1>6, FaultEffect
  <2>1. i \in 0 .. MaxAttempts /\ j \in 0 .. MaxAttempts /\ p \in RefundPcs
    BY <1>1, <1>2, <1>6 DEF LocalInv, Locals, SessionType, LedgerType, RefundType, RequestType, RecordType, MaxAttempts, RefundPcs
  <2>2. Becomes(r, q, c, s, pc[r], g, l)
    <3>1. refund' = [refund EXCEPT ![r] = g]
      BY <1>1, <1>2, <1>6, <2>1 DEF IInv, TypeOK, RefundSubscription, RefundRetry
    <3> QED  BY <1>2, <1>6, <2>0, <3>1, Unchanged DEF Becomes, RefundSubscription, Goto
  <2>3. Locals(q, c, s, pc[r], g, l)
    <3> HIDE DEF i, j, p
    <3> QED  BY <1>1, <1>2, <1>6, <2>0, <2>1 DEF Locals, SessionType, RefundType, RequestType, RecordType, HandlerPcs, RefundPcs
  <2>4. LocalInv(q, c, s, pc[r], g, l)
    <3>1. SessionInv(q, c, s, pc[r], g, l)
      BY <1>1, <1>2, <1>6, <2>1 DEF LocalInv, Locals, SessionType, LedgerType, RefundType, RequestType, MaxAttempts, MaxAttempts
    <3>2. HeldInv(q, c, s, pc[r], g, l)
      BY <1>1, <1>2, <1>6, <2>1 DEF LocalInv, Locals, SessionType, LedgerType, RefundType, RequestType, Excess, Times, MaxAttempts
    <3>3. ExactInv(q, c, s, pc[r], g, l)
      BY <1>1, <1>2, <1>6, <2>1 DEF LocalInv, Locals, SessionType, LedgerType, RefundType, RequestType, FundPrice, TokenPrice, Pending, MaxAttempts
    <3> QED
      BY <3>1, <3>2, <3>3 DEF LocalInv
  <2> QED
    BY <2>2, <2>3, <2>4, LocalStep
<1>7. CASE c = "consumed" /\ MoveSub(r, -s.consumed, 0) /\ RefundRetry(r, 1) /\ UNCHANGED record
  <2> DEFINE i == f.tries + 1
             j == f.torn + 1
             p == IF f.tries + 1 = MaxAttempts THEN "extra" ELSE "fund"
             g == [f EXCEPT !.tries = i, !.torn = j, !.pc = p]
  <2>0. (-s.consumed) \in Int /\ 0 \in Nat
    BY <1>1, <1>2 DEF Locals, SessionType
  <2> PICK l \in LedgerType : /\ ledger' = [ledger EXCEPT ![r] = l] /\ ColumnsOK'
                              /\ Paid("subscription", m, (-s.consumed), 0, l)
    BY <1>2, <1>7, <2>0, MoveSubEffect
  <2>1. i \in 0 .. MaxAttempts /\ j \in 0 .. MaxAttempts /\ p \in RefundPcs
    BY <1>1, <1>2, <1>7 DEF LocalInv, Locals, SessionType, LedgerType, RefundType, RequestType, RecordType, MaxAttempts, RefundPcs
  <2>2. Becomes(r, q, c, s, pc[r], g, l)
    <3>1. refund' = [refund EXCEPT ![r] = g]
      BY <1>1, <1>2, <1>7, <2>1 DEF IInv, TypeOK, RefundSubscription, RefundRetry
    <3> QED  BY <1>2, <1>7, <3>1, Unchanged DEF Becomes, RefundSubscription, Goto
  <2>3. Locals(q, c, s, pc[r], g, l)
    <3> HIDE DEF i, j, p
    <3> QED  BY <1>1, <1>2, <1>7, <2>1 DEF Locals, SessionType, RefundType, RequestType, RecordType, HandlerPcs, RefundPcs
  <2>4. LocalInv(q, c, s, pc[r], g, l)
    <3>0. f.torn \in {0, 1, 2} /\ f.tries \in {0, 1, 2} /\ f.torn <= f.tries /\ m.sub >= s.consumed + s.extra - Times(f.torn, s.consumed)
      BY <1>1, <1>2, <1>7, <2>1 DEF LocalInv, Locals, SessionType, LedgerType, RefundType, RequestType, RefundPcs, MaxAttempts
    <3>1. SessionInv(q, c, s, pc[r], g, l)
      BY <1>1, <1>2, <1>7, <2>1, <3>0 DEF LocalInv, Locals, SessionType, LedgerType, RefundType, RequestType, MaxAttempts, MaxAttempts, Paid
    <3>2. HeldInv(q, c, s, pc[r], g, l)
      BY <1>1, <1>2, <1>7, <2>1, <3>0 DEF LocalInv, Locals, SessionType, LedgerType, RefundType, RequestType, Excess, Times, MaxAttempts, Paid
    <3>3. ExactInv(q, c, s, pc[r], g, l)
      BY <1>1, <1>2, <1>7, <2>1, <3>0 DEF LocalInv, Locals, SessionType, LedgerType, RefundType, RequestType, FundPrice, TokenPrice, Pending, MaxAttempts, Paid
    <3> QED
      BY <3>1, <3>2, <3>3 DEF LocalInv
  <2> QED
    BY <2>2, <2>3, <2>4, LocalStep
<1> QED
  BY <1>2, <1>3, <1>4, <1>5, <1>6, <1>7 DEF RefundSubscription

\* The subscription gets back what Reserve added.
LEMMA StepRefundExtra ==
  ASSUME IInv, NEW r \in Requests, RefundExtra(r)
  PROVE  IInv'
<1> DEFINE q == req[r]
           c == record[r]
           s == ses[r]
           f == refund[r]
           m == ledger[r]
<1>1. Locals(q, c, s, pc[r], f, m) /\ LocalInv(q, c, s, pc[r], f, m) /\ ColumnsOK
  BY LocalTypes
<1>2. f.pc = "extra" /\ s.extra \in Nat /\ s.consumed \in Nat /\ f.torn \in 0 .. 3
  BY <1>1 DEF Locals, SessionType, RequestType, LedgerType, RefundType, RefundExtra, MaxAttempts
<1>3. CASE ~(s.extra > 0 /\ s.funding = "subscription") /\ UNCHANGED <<columns, ledger>>
  <2> DEFINE g == [f EXCEPT !.pc = "token"]
  <2>0. ledger' = [ledger EXCEPT ![r] = m] /\ m \in LedgerType /\ ColumnsOK'
    BY <1>1, <1>3, Unchanged DEF Locals, ColumnsOK, columns, OverTotal, RefundExtra
  <2>2. Becomes(r, q, c, s, pc[r], g, m)
    <3>1. refund' = [refund EXCEPT ![r] = g]
      BY <1>1, <1>2, <1>3 DEF IInv, TypeOK, RefundExtra, RefundGoto
    <3> QED  BY <1>2, <1>3, <2>0, <3>1, Unchanged DEF Becomes, RefundExtra, Goto
  <2>3. Locals(q, c, s, pc[r], g, m)
    BY <1>1, <1>2, <1>3, <2>0 DEF Locals, SessionType, RefundType, RequestType, RecordType, HandlerPcs, RefundPcs
  <2>4. LocalInv(q, c, s, pc[r], g, m)
    <3>1. SessionInv(q, c, s, pc[r], g, m)
      BY <1>1, <1>2, <1>3 DEF LocalInv, Locals, SessionType, LedgerType, RefundType, RequestType, MaxAttempts, MaxAttempts
    <3>2. HeldInv(q, c, s, pc[r], g, m)
      BY <1>1, <1>2, <1>3 DEF LocalInv, Locals, SessionType, LedgerType, RefundType, RequestType, Excess, Times, MaxAttempts
    <3>3. ExactInv(q, c, s, pc[r], g, m)
      BY <1>1, <1>2, <1>3 DEF LocalInv, Locals, SessionType, LedgerType, RefundType, RequestType, FundPrice, TokenPrice, Pending, MaxAttempts
    <3> QED
      BY <3>1, <3>2, <3>3 DEF LocalInv
  <2> QED
    BY <2>2, <2>3, <2>4, LocalStep
<1>4. CASE s.funding = "subscription" /\ MoveSub(r, -s.extra, 0)
  <2> DEFINE g == [f EXCEPT !.pc = "token"]
  <2>0. (-s.extra) \in Int /\ 0 \in Nat
    BY <1>1, <1>2 DEF Locals, SessionType
  <2> PICK l \in LedgerType : /\ ledger' = [ledger EXCEPT ![r] = l] /\ ColumnsOK'
                              /\ Paid("subscription", m, (-s.extra), 0, l)
    BY <1>2, <1>4, <2>0, MoveSubEffect
  <2>2. Becomes(r, q, c, s, pc[r], g, l)
    <3>1. refund' = [refund EXCEPT ![r] = g]
      BY <1>1, <1>2, <1>4 DEF IInv, TypeOK, RefundExtra, RefundGoto
    <3> QED  BY <1>2, <1>4, <3>1, Unchanged DEF Becomes, RefundExtra, Goto
  <2>3. Locals(q, c, s, pc[r], g, l)
    BY <1>1, <1>2, <1>4 DEF Locals, SessionType, RefundType, RequestType, RecordType, HandlerPcs, RefundPcs
  <2>4. LocalInv(q, c, s, pc[r], g, l)
    <3>1. SessionInv(q, c, s, pc[r], g, l)
      BY <1>1, <1>2, <1>4 DEF LocalInv, Locals, SessionType, LedgerType, RefundType, RequestType, MaxAttempts, MaxAttempts, Paid
    <3>2. HeldInv(q, c, s, pc[r], g, l)
      BY <1>1, <1>2, <1>4 DEF LocalInv, Locals, SessionType, LedgerType, RefundType, RequestType, Excess, Times, MaxAttempts, Paid
    <3>3. ExactInv(q, c, s, pc[r], g, l)
      BY <1>1, <1>2, <1>4 DEF LocalInv, Locals, SessionType, LedgerType, RefundType, RequestType, FundPrice, TokenPrice, Pending, MaxAttempts, Paid
    <3> QED
      BY <3>1, <3>2, <3>3 DEF LocalInv
  <2> QED
    BY <2>2, <2>3, <2>4, LocalStep
<1>5. CASE Fault(r)
  <2> DEFINE g == [f EXCEPT !.pc = "token"]
  <2> DEFINE l == [m EXCEPT !.clean = FALSE]
  <2>0. ledger' = [ledger EXCEPT ![r] = l] /\ l \in LedgerType /\ ColumnsOK'
    BY <1>5, FaultEffect
  <2>2. Becomes(r, q, c, s, pc[r], g, l)
    <3>1. refund' = [refund EXCEPT ![r] = g]
      BY <1>1, <1>2, <1>5 DEF IInv, TypeOK, RefundExtra, RefundGoto
    <3> QED  BY <1>2, <1>5, <2>0, <3>1, Unchanged DEF Becomes, RefundExtra, Goto
  <2>3. Locals(q, c, s, pc[r], g, l)
    BY <1>1, <1>2, <1>5, <2>0 DEF Locals, SessionType, RefundType, RequestType, RecordType, HandlerPcs, RefundPcs
  <2>4. LocalInv(q, c, s, pc[r], g, l)
    <3>1. SessionInv(q, c, s, pc[r], g, l)
      BY <1>1, <1>2, <1>5 DEF LocalInv, Locals, SessionType, LedgerType, RefundType, RequestType, MaxAttempts, MaxAttempts
    <3>2. HeldInv(q, c, s, pc[r], g, l)
      BY <1>1, <1>2, <1>5 DEF LocalInv, Locals, SessionType, LedgerType, RefundType, RequestType, Excess, Times, MaxAttempts
    <3>3. ExactInv(q, c, s, pc[r], g, l)
      BY <1>1, <1>2, <1>5 DEF LocalInv, Locals, SessionType, LedgerType, RefundType, RequestType, FundPrice, TokenPrice, Pending, MaxAttempts
    <3> QED
      BY <3>1, <3>2, <3>3 DEF LocalInv
  <2> QED
    BY <2>2, <2>3, <2>4, LocalStep
<1> QED
  BY <1>2, <1>3, <1>4, <1>5 DEF RefundExtra

\* The token gets back what it paid.
LEMMA StepRefundToken ==
  ASSUME IInv, NEW r \in Requests, RefundToken(r)
  PROVE  IInv'
<1> DEFINE q == req[r]
           c == record[r]
           s == ses[r]
           f == refund[r]
           m == ledger[r]
<1>1. Locals(q, c, s, pc[r], f, m) /\ LocalInv(q, c, s, pc[r], f, m) /\ ColumnsOK
  BY LocalTypes
<1>2. f.pc = "token" /\ s.tokenConsumed \in Nat
  BY <1>1 DEF Locals, SessionType, RequestType, LedgerType, RefundType, RefundToken
<1>3. CASE ~(s.tokenConsumed > 0 /\ ~q.playground) /\ UNCHANGED <<columns, ledger>>
  <2> DEFINE g == [f EXCEPT !.pc = "finished"]
  <2>0. ledger' = [ledger EXCEPT ![r] = m] /\ m \in LedgerType /\ ColumnsOK'
    BY <1>1, <1>3, Unchanged DEF Locals, ColumnsOK, columns, OverTotal, RefundToken
  <2>2. Becomes(r, q, c, s, pc[r], g, m)
    <3>1. refund' = [refund EXCEPT ![r] = g]
      BY <1>1, <1>2, <1>3 DEF IInv, TypeOK, RefundToken, RefundGoto
    <3> QED  BY <1>2, <1>3, <2>0, <3>1, Unchanged DEF Becomes, RefundToken, Goto
  <2>3. Locals(q, c, s, pc[r], g, m)
    BY <1>1, <1>2, <1>3, <2>0 DEF Locals, SessionType, RefundType, RequestType, RecordType, HandlerPcs, RefundPcs
  <2>4. LocalInv(q, c, s, pc[r], g, m)
    <3>1. SessionInv(q, c, s, pc[r], g, m)
      BY <1>1, <1>2, <1>3 DEF LocalInv, Locals, SessionType, LedgerType, RefundType, RequestType, MaxAttempts, MaxAttempts
    <3>2. HeldInv(q, c, s, pc[r], g, m)
      BY <1>1, <1>2, <1>3 DEF LocalInv, Locals, SessionType, LedgerType, RefundType, RequestType, Excess, Times, MaxAttempts
    <3>3. ExactInv(q, c, s, pc[r], g, m)
      BY <1>1, <1>2, <1>3 DEF LocalInv, Locals, SessionType, LedgerType, RefundType, RequestType, FundPrice, TokenPrice, Pending, MaxAttempts
    <3> QED
      BY <3>1, <3>2, <3>3 DEF LocalInv
  <2> QED
    BY <2>2, <2>3, <2>4, LocalStep
<1>4. CASE ~q.playground /\ MoveToken(r, -s.tokenConsumed)
  <2> DEFINE g == [f EXCEPT !.pc = "finished"]
  <2> DEFINE l == [m EXCEPT !.token = @ + (-s.tokenConsumed)]
  <2>0. ledger' = [ledger EXCEPT ![r] = l] /\ l \in LedgerType /\ ColumnsOK'
    <3>1. (-s.tokenConsumed) \in Int
      BY <1>1, <1>2 DEF Locals, SessionType
    <3> QED  BY <1>4, <3>1, MoveTokenEffect
  <2>2. Becomes(r, q, c, s, pc[r], g, l)
    <3>1. refund' = [refund EXCEPT ![r] = g]
      BY <1>1, <1>2, <1>4 DEF IInv, TypeOK, RefundToken, RefundGoto
    <3> QED  BY <1>2, <1>4, <2>0, <3>1, Unchanged DEF Becomes, RefundToken, Goto
  <2>3. Locals(q, c, s, pc[r], g, l)
    BY <1>1, <1>2, <1>4, <2>0 DEF Locals, SessionType, RefundType, RequestType, RecordType, HandlerPcs, RefundPcs
  <2>4. LocalInv(q, c, s, pc[r], g, l)
    <3>1. SessionInv(q, c, s, pc[r], g, l)
      BY <1>1, <1>2, <1>4 DEF LocalInv, Locals, SessionType, LedgerType, RefundType, RequestType, MaxAttempts, MaxAttempts
    <3>2. HeldInv(q, c, s, pc[r], g, l)
      BY <1>1, <1>2, <1>4 DEF LocalInv, Locals, SessionType, LedgerType, RefundType, RequestType, Excess, Times, MaxAttempts
    <3>3. ExactInv(q, c, s, pc[r], g, l)
      BY <1>1, <1>2, <1>4 DEF LocalInv, Locals, SessionType, LedgerType, RefundType, RequestType, FundPrice, TokenPrice, Pending, MaxAttempts
    <3> QED
      BY <3>1, <3>2, <3>3 DEF LocalInv
  <2> QED
    BY <2>2, <2>3, <2>4, LocalStep
<1>5. CASE Fault(r)
  <2> DEFINE g == [f EXCEPT !.pc = "finished"]
  <2> DEFINE l == [m EXCEPT !.clean = FALSE]
  <2>0. ledger' = [ledger EXCEPT ![r] = l] /\ l \in LedgerType /\ ColumnsOK'
    BY <1>5, FaultEffect
  <2>2. Becomes(r, q, c, s, pc[r], g, l)
    <3>1. refund' = [refund EXCEPT ![r] = g]
      BY <1>1, <1>2, <1>5 DEF IInv, TypeOK, RefundToken, RefundGoto
    <3> QED  BY <1>2, <1>5, <2>0, <3>1, Unchanged DEF Becomes, RefundToken, Goto
  <2>3. Locals(q, c, s, pc[r], g, l)
    BY <1>1, <1>2, <1>5, <2>0 DEF Locals, SessionType, RefundType, RequestType, RecordType, HandlerPcs, RefundPcs
  <2>4. LocalInv(q, c, s, pc[r], g, l)
    <3>1. SessionInv(q, c, s, pc[r], g, l)
      BY <1>1, <1>2, <1>5 DEF LocalInv, Locals, SessionType, LedgerType, RefundType, RequestType, MaxAttempts, MaxAttempts
    <3>2. HeldInv(q, c, s, pc[r], g, l)
      BY <1>1, <1>2, <1>5 DEF LocalInv, Locals, SessionType, LedgerType, RefundType, RequestType, Excess, Times, MaxAttempts
    <3>3. ExactInv(q, c, s, pc[r], g, l)
      BY <1>1, <1>2, <1>5 DEF LocalInv, Locals, SessionType, LedgerType, RefundType, RequestType, FundPrice, TokenPrice, Pending, MaxAttempts
    <3> QED
      BY <3>1, <3>2, <3>3 DEF LocalInv
  <2> QED
    BY <2>2, <2>3, <2>4, LocalStep
<1> QED
  BY <1>2, <1>3, <1>4, <1>5 DEF RefundToken

\* The process dies, or the handler panics.
LEMMA StepCrash ==
  ASSUME IInv, NEW r \in Requests, Crash(r)
  PROVE  IInv'
<1> DEFINE q == req[r]
           c == record[r]
           s == ses[r]
           f == refund[r]
           m == ledger[r]
<1>1. Locals(q, c, s, pc[r], f, m) /\ LocalInv(q, c, s, pc[r], f, m) /\ ColumnsOK
  BY LocalTypes
<1>2. pc[r] \notin Ended \/ f.pc \notin {"idle", "finished", "lost"}
  BY <1>1 DEF Locals, SessionType, RequestType, LedgerType, RefundType, Crash
<1>3. CASE TRUE
  <2> DEFINE k == IF pc[r] \in Ended THEN pc[r] ELSE "lost"
             p == IF f.pc \in {"idle", "finished"} THEN f.pc ELSE "lost"
             g == [f EXCEPT !.pc = p]
  <2>0. ledger' = [ledger EXCEPT ![r] = m] /\ m \in LedgerType /\ ColumnsOK'
    BY <1>1, <1>3, Unchanged DEF Locals, ColumnsOK, columns, OverTotal, Crash
  <2>1. p \in RefundPcs /\ k \in HandlerPcs
    BY <1>1, <1>2, <1>3 DEF LocalInv, Locals, SessionType, LedgerType, RefundType, RequestType, RecordType, RefundPcs, HandlerPcs
  <2>2. Becomes(r, q, c, s, k, g, m)
    <3>1. refund' = [refund EXCEPT ![r] = g]
      BY <1>1, <1>2, <1>3, <2>1 DEF IInv, TypeOK, Crash
    <3>2. pc' = [pc EXCEPT ![r] = k]
      BY <1>1, <1>2, <1>3, <2>1 DEF IInv, TypeOK, Crash
    <3> QED  BY <1>2, <1>3, <2>0, <3>1, <3>2, Unchanged DEF Becomes, Crash, Goto
  <2>3. Locals(q, c, s, k, g, m)
    <3> HIDE DEF k, p
    <3> QED  BY <1>1, <1>2, <1>3, <2>0, <2>1 DEF Locals, SessionType, RefundType, RequestType, RecordType, HandlerPcs, RefundPcs
  <2>4. LocalInv(q, c, s, k, g, m)
    <3>1. SessionInv(q, c, s, k, g, m)
      BY <1>1, <1>2, <1>3, <2>1 DEF LocalInv, Locals, SessionType, LedgerType, RefundType, RequestType, MaxAttempts, Ended
    <3>2. HeldInv(q, c, s, k, g, m)
      BY <1>1, <1>2, <1>3, <2>1 DEF LocalInv, Locals, SessionType, LedgerType, RefundType, RequestType, Excess, Times, Ended
    <3>3. ExactInv(q, c, s, k, g, m)
      BY <1>1, <1>2, <1>3, <2>1 DEF LocalInv, Locals, SessionType, LedgerType, RefundType, RequestType, FundPrice, TokenPrice, Pending, Ended
    <3> QED
      BY <3>1, <3>2, <3>3 DEF LocalInv
  <2> QED
    BY <2>2, <2>3, <2>4, LocalStep
<1> QED
  BY <1>2, <1>3 DEF Crash

\* A request passes the token check and is sent to its source.
LEMMA StepBegin ==
  ASSUME IInv, NEW r \in Requests, NEW x \in Profiles, NEW n \in Quotas, Begin(r, x, n)
  PROVE  IInv'
<1> DEFINE q == req[r]
           c == record[r]
           s == ses[r]
           f == refund[r]
           m == ledger[r]
<1>1. Locals(q, c, s, pc[r], f, m) /\ LocalInv(q, c, s, pc[r], f, m) /\ ColumnsOK
  BY LocalTypes
<1>2. pc[r] = "new" /\ n \in Nat /\ x \in Profile
  BY <1>1, BillingAssumption DEF Locals, SessionType, RequestType, LedgerType, RefundType, Begin
<1>3. CASE TRUE
  <2> DEFINE b == IF tokenRemain > TrustQuota THEN TRUE ELSE FALSE
             p == [pref |-> x.pref, playground |-> x.playground, unlimited |-> x.unlimited, kind |-> x.kind, quota |-> n, trustedToken |-> b]
             k == CASE x.kind = "free" -> "relay"
                    [] x.kind # "free" /\ x.pref = "subscription_only" -> "subscription"
                    [] x.kind # "free" /\ x.pref = "subscription_first" -> "hasSub"
                    [] OTHER -> "wallet"
  <2>0. ledger' = [ledger EXCEPT ![r] = m] /\ m \in LedgerType /\ ColumnsOK'
    BY <1>1, <1>3, Unchanged DEF Locals, ColumnsOK, columns, OverTotal, Begin
  <2>1. b \in BOOLEAN /\ p.playground = x.playground /\ p \in RequestType
          /\ k \in {"relay", "subscription", "hasSub", "wallet"}
    BY <1>1, <1>2, <1>3 DEF LocalInv, Locals, SessionType, LedgerType, RefundType, RequestType, RecordType, Profile
  <2>2. Becomes(r, p, c, s, k, f, m)
    BY <1>2, <1>3, <2>0, Unchanged DEF Becomes, Begin, Goto
  <2>3. Locals(p, c, s, k, f, m)
    <3> HIDE DEF b, p, k
    <3> QED  BY <1>1, <1>2, <1>3, <2>0, <2>1 DEF Locals, SessionType, RefundType, RequestType, RecordType, HandlerPcs, RefundPcs
  <2>4. LocalInv(p, c, s, k, f, m)
    <3>1. SessionInv(p, c, s, k, f, m)
      BY <1>1, <1>2, <1>3, <2>1 DEF LocalInv, Locals, SessionType, LedgerType, RefundType, RequestType, MaxAttempts, NoSession
    <3>2. HeldInv(p, c, s, k, f, m)
      BY <1>1, <1>2, <1>3, <2>1 DEF LocalInv, Locals, SessionType, LedgerType, RefundType, RequestType, Excess, Times, NoSession
    <3>3. ExactInv(p, c, s, k, f, m)
      BY <1>1, <1>2, <1>3, <2>1 DEF LocalInv, Locals, SessionType, LedgerType, RefundType, RequestType, FundPrice, TokenPrice, Pending, NoSession
    <3> QED
      BY <3>1, <3>2, <3>3 DEF LocalInv
  <2> QED
    BY <2>2, <2>3, <2>4, LocalStep
<1> QED
  BY <1>2, <1>3 DEF Begin

\* subscription_only opens a subscription session.
LEMMA StepOpenSubscription ==
  ASSUME IInv, NEW r \in Requests, OpenSubscription(r)
  PROVE  IInv'
BY StepTrySubscription DEF OpenSubscription

-----------------------------------------------------------------------------
(* The theorems                                                             *)

\* The invariant holds in the beginning.
LEMMA InvInit == ASSUME Init PROVE IInv
<1> DEFINE f == [pc |-> "idle", tries |-> 0, torn |-> 0]
           m == [wallet |-> 0, sub |-> 0, token |-> 0, outside |-> 0, clean |-> TRUE]
<1>1. NoRequest \in RequestType /\ f \in RefundType /\ m \in LedgerType
  BY DEF NoRequest, RequestType, RefundType, LedgerType, RefundPcs, MaxAttempts, Preferences, Kinds
<1>2. TypeOK
  BY <1>1, NoSessionType, BillingAssumption DEF Init, TypeOK, HandlerPcs
<1>3. LocalInv(NoRequest, "none", NoSession, "new", f, m)
  BY DEF LocalInv, NoRequest, NoSession, Excess, Times, FundPrice, TokenPrice, Pending, MaxAttempts
<1>4. ASSUME NEW r \in Requests PROVE ReqInv(r)
  BY <1>3 DEF Init, ReqInv
<1> QED
  BY <1>2, <1>4 DEF IInv

\* A step of a handler preserves the invariant.
LEMMA InvHandler == ASSUME IInv, NEW r \in Requests, HandlerStep(r) PROVE IInv'
BY StepOpenSubscription, StepHasActiveUserSubscription, StepTryWallet, StepCheckToken,
   StepDecToken, StepFundingPreConsume, StepRollbackToken, StepUndoReserve, StepChunkFunding,
   StepChunkToken, StepSettleBilling, StepSettleFunding, StepSettleToken, StepRefund,
   StepNoViolation, StepFeeToken, StepChargeViolationFee
DEF HandlerStep

\* A step of a refund goroutine preserves the invariant.
LEMMA InvRefund == ASSUME IInv, NEW r \in Requests, RefundStep(r) PROVE IInv'
BY StepRefundWallet, StepRefundSubscription, StepRefundExtra, StepRefundToken DEF RefundStep

\* Every step preserves the invariant.
LEMMA InvNext == ASSUME IInv, [Next]_vars PROVE IInv'
<1>1. CASE Next
  BY <1>1, InvHandler, InvRefund, StepBegin, StepReserve, StepPreWssConsumeQuota, StepCrash DEF Next
<1>2. CASE UNCHANGED vars
  BY <1>2 DEF vars, IInv, TypeOK, ReqInv
<1> QED
  BY <1>1, <1>2

\* The inductive invariant holds in every state.
THEOREM Invariance == Spec => []IInv
<1>1. Init => IInv
  BY InvInit
<1>2. IInv /\ [Next]_vars => IInv'
  BY InvNext
<1> QED
  BY <1>1, <1>2, PTL DEF Spec

\* Columns, records, sessions and control points keep their types; no counter of a session
\* and no counter of the subscription becomes negative.
THEOREM TypeCorrect == Spec => []TypeOK
<1>1. IInv => TypeOK
  BY DEF IInv
<1> QED
  BY <1>1, Invariance, PTL

\* What the invariant says of a request that has ended (BillingSession.Settle and Refund).
LEMMA ExactAtEnd ==
  ASSUME IInv, NEW r \in Requests, Finished(r), ledger[r].clean, refund[r].torn = 0
  PROVE  LET price == SessionPrice(r) + ledger[r].outside IN
         /\ ledger[r].wallet + ledger[r].sub = price
         /\ ledger[r].token = IF req[r].playground THEN 0 ELSE price
<1> DEFINE s == ses[r]
<1>1. /\ Locals(req[r], record[r], s, pc[r], refund[r], ledger[r])
      /\ LocalInv(req[r], record[r], s, pc[r], refund[r], ledger[r])
  BY LocalTypes
<1>2. FundPrice(record[r], s, pc[r], refund[r]) = SessionPrice(r)
  BY <1>1 DEF LocalInv, Locals, SessionType, FundPrice, SessionPrice, Finished
<1>3. ~req[r].playground => TokenPrice(s, pc[r], refund[r]) = SessionPrice(r)
  BY <1>1 DEF LocalInv, Locals, SessionType, TokenPrice, SessionPrice, Finished
<1>4. Pending(s, pc[r]) = 0
  BY DEF Pending, Finished
<1>5. ledger[r].token \in Int
  BY <1>1 DEF Locals, LedgerType
<1> QED
  BY <1>1, <1>2, <1>3, <1>4, <1>5 DEF LocalInv, Finished

\* A request that ran to its end without a failed write paid exactly its price, from the
\* source and from the token, for any number of requests and any prices.
THEOREM ChargedExactly == Spec => []ExactCharge
<1>1. IInv => ExactCharge
  BY ExactAtEnd DEF ExactCharge
<1> QED
  BY <1>1, Invariance, PTL

\* The smaller one of two numbers.
LEMMA MinOfTwo ==
  ASSUME NEW a \in Int, NEW b \in Int
  PROVE  Min({a, b}) = IF a <= b THEN a ELSE b
<1> DEFINE P(x) == x \in {a, b} /\ \A y \in {a, b} : x <= y
<1>1. P(IF a <= b THEN a ELSE b)
  OBVIOUS
<1>2. \A x : P(x) => x = IF a <= b THEN a ELSE b
  OBVIOUS
<1>3. Min({a, b}) = CHOOSE x : P(x)
  BY DEF Min
<1> QED
  BY <1>1, <1>2, <1>3

\* Whatever fails and wherever the process dies, no request gets back more than it paid,
\* but for the attempts of a subscription refund that committed in part.
THEOREM NotOverRefunded == Spec => []NeverOverRefunded
<1>1. ASSUME IInv, NEW r \in Requests
      PROVE  /\ ledger[r].wallet >= 0 /\ ledger[r].token >= 0
             /\ ledger[r].sub >= -Min({refund[r].torn, MaxAttempts - 1}) * ses[r].consumed
  <2> DEFINE n == refund[r].torn
             k == IF n <= 2 THEN n ELSE 2
             u == ses[r].consumed
  <2>1. /\ Locals(req[r], record[r], ses[r], pc[r], refund[r], ledger[r])
        /\ LocalInv(req[r], record[r], ses[r], pc[r], refund[r], ledger[r])
    BY <1>1, LocalTypes
  <2>2. n \in 0 .. 3 /\ u \in Nat /\ ledger[r].sub \in Int
    BY <2>1 DEF Locals, RefundType, SessionType, LedgerType, MaxAttempts
  <2>3. Min({n, MaxAttempts - 1}) = k
    BY <2>2, MinOfTwo DEF MaxAttempts
  <2>4. Excess(ses[r], refund[r]) = k * u
    BY <2>2 DEF Excess, Times
  <2>5. /\ ledger[r].wallet >= 0 /\ ledger[r].token >= 0
        /\ ledger[r].sub >= -Excess(ses[r], refund[r])
    BY <2>1 DEF LocalInv
  <2>6. -(k * u) = (-k) * u
    BY <2>2
  <2> QED
    BY <2>3, <2>4, <2>5, <2>6
<1>2. IInv => NeverOverRefunded
  BY <1>1 DEF NeverOverRefunded
<1> QED
  BY <1>2, Invariance, PTL

\* A request is billed to one source, and a wallet request holds no subscription record,
\* whatever fallbacks it went through.
THEOREM BilledToOneSource == Spec => []OneSource
<1>1. ASSUME IInv, NEW r \in Requests
      PROVE  /\ ledger[r].wallet = 0 \/ ledger[r].sub = 0
             /\ record[r] # "none" => ses[r].funding = "subscription" /\ ledger[r].wallet = 0
  BY <1>1, LocalTypes DEF LocalInv
<1>2. IInv => OneSource
  BY <1>1 DEF OneSource
<1> QED
  BY <1>2, Invariance, PTL

-----------------------------------------------------------------------------
(* The overdraft of the token                                               *)

HIDE DEF SessionInv, HeldInv, ExactInv, Opening, Reserving, OpeningInv, ChargedInv

\* the largest pre-consumption
Limit == Max(Quotas \union Targets \union {1})

\* what a request has paid from the token on top of its pre-consumption
OverOf(s, l) == Positive(l.token - s.tokenConsumed)

\* what it may still take from the token that this does not count: a decrement that was
\* checked, or the part of a violation fee that a refund has made room for
DueOf(q, s, k, l) ==
  IF k = "decToken" THEN s.delta
  ELSE IF k \in {"fee", "feeToken"} /\ ~q.playground THEN Positive(s.tokenConsumed - l.token)
  ELSE 0

Over(r) == OverOf(ses[r], ledger[r])
Due(r) == DueOf(req[r], ses[r], pc[r], ledger[r])

\* a pre-consumption, or what a reservation makes of it, is at most the limit
PriceOf(q, s, k) ==
  /\ ~q.unlimited /\ q.quota <= Limit
  /\ s.amount <= Limit /\ s.pre <= Limit /\ s.tokenConsumed <= Limit
  /\ k \in {"checkToken", "decToken"} =>
       s.delta + (IF s.reserving THEN s.pre ELSE 0) <= Limit
Price(r) == PriceOf(req[r], ses[r], pc[r])

\* what is left of the token when every decrement that was checked has been made
Headroom == tokenRemain + SumFunction([r \in Requests |-> Over(r)])
                        - SumFunction([r \in Requests |-> Due(r)])
Floor == -((Cardinality(Requests) - 1) * Limit)

OverdraftInv == (\A r \in Requests : Price(r)) /\ Headroom >= Floor

\* The limit is a positive number that no pre-consumption exceeds.
LEMMA LimitIs ==
  /\ Limit \in Nat /\ Limit >= 1
  /\ \A x \in Quotas \union Targets : x \in Nat /\ x <= Limit
<1> DEFINE S == Quotas \union Targets \union {1}
<1>1. S \in SUBSET Nat /\ S # {} /\ IsFiniteSet(Quotas \union Targets)
  BY BillingAssumption
<1>2. IsFiniteSet(S)
  <2>1. IsFiniteSet({1})
    BY FS_Singleton
  <2> QED
    BY <1>1, <2>1, FS_Union
<1> HIDE DEF S
<1>3. Max(S) \in S /\ \A y \in S : y <= Max(S)
  BY <1>1, <1>2, MaxOfFinite
<1>4. Limit = Max(S) /\ 1 \in S /\ Quotas \union Targets \subseteq S
  BY DEF Limit, S
<1> QED
  BY <1>1, <1>3, <1>4

\* The bound is an integer.
LEMMA FloorType == Floor \in Int
<1>1. Cardinality(Requests) \in Nat
  BY BillingAssumption, FS_CardinalityType
<1> QED
  BY <1>1, LimitIs DEF Floor

\* The two amounts of a request are natural numbers; what it may still take is at most the
\* limit.
LEMMA LocalAmounts ==
  ASSUME NEW q, NEW c, NEW s, NEW k, NEW f, NEW l,
         Locals(q, c, s, k, f, l), LocalInv(q, c, s, k, f, l), PriceOf(q, s, k)
  PROVE  OverOf(s, l) \in Nat /\ DueOf(q, s, k, l) \in Nat /\ DueOf(q, s, k, l) <= Limit
<1>1. /\ l.token \in Int /\ s.tokenConsumed \in Nat /\ s.delta \in Int /\ s.pre \in Nat /\ s.amount \in Nat
      /\ s.reserving \in BOOLEAN
  BY DEF Locals, LedgerType, SessionType
<1>2. l.token >= 0
  BY DEF LocalInv, HeldInv
<1>3. k = "decToken" => s.delta \in Nat /\ s.delta <= Limit
  <2>1. k = "decToken" => s.delta >= 0
    BY <1>1 DEF LocalInv, SessionInv, Opening, Reserving, OpeningInv
  <2> QED
    BY <1>1, <2>1, LimitIs DEF PriceOf
<1> QED
  BY <1>1, <1>2, <1>3, LimitIs DEF OverOf, DueOf, Positive, PriceOf

\* The same of a request of the model.
LEMMA Amounts ==
  ASSUME IInv, NEW r \in Requests, Price(r)
  PROVE  Over(r) \in Nat /\ Due(r) \in Nat /\ Due(r) <= Limit
BY LocalTypes, LocalAmounts DEF Over, Due, Price

\* The step is one of request r alone.
Alone(r) ==
  \A o \in Requests \ {r} :
    req'[o] = req[o] /\ ses'[o] = ses[o] /\ pc'[o] = pc[o] /\ ledger'[o] = ledger[o]

\* When only request r moves, the headroom changes by what it takes and what becomes of
\* its two amounts.
LEMMA HeadroomStep ==
  ASSUME IInv, IInv', NEW r \in Requests, \A o \in Requests : Price(o), \A o \in Requests : Price(o)',
         Alone(r)
  PROVE  /\ Headroom \in Int /\ tokenRemain \in Int /\ tokenRemain' \in Int
         /\ Headroom' = Headroom + (tokenRemain' - tokenRemain) + (Over(r)' - Over(r))
                                 - (Due(r)' - Due(r))
<1> DEFINE a == [o \in Requests |-> Over(o)]
           b == [o \in Requests |-> Over(o)']
           d == [o \in Requests |-> Due(o)]
           e == [o \in Requests |-> Due(o)']
<1>1. a \in [Requests -> Int] /\ d \in [Requests -> Int]
  BY Amounts
<1>2. ASSUME NEW o \in Requests PROVE Over(o)' \in Nat /\ Due(o)' \in Nat
  <2> DEFINE q == req'[o]
             c == record'[o]
             s == ses'[o]
             k == pc'[o]
             f == refund'[o]
             l == ledger'[o]
  <2>1. Locals(q, c, s, k, f, l) /\ LocalInv(q, c, s, k, f, l) /\ PriceOf(q, s, k)
    BY DEF IInv, TypeOK, ReqInv, Locals, RecordType, Price
  <2>2. Over(o)' = OverOf(s, l) /\ Due(o)' = DueOf(q, s, k, l)
    BY DEF Over, Due
  <2> HIDE DEF q, c, s, k, f, l
  <2>3. OverOf(s, l) \in Nat /\ DueOf(q, s, k, l) \in Nat
    BY <2>1, LocalAmounts
  <2> QED
    BY <2>2, <2>3
<1>3. b \in [Requests -> Int] /\ e \in [Requests -> Int]
  BY <1>2
<1>4. \A o \in Requests \ {r} : b[o] = a[o] /\ e[o] = d[o]
  BY DEF Alone, Over, Due
<1>5. a[r] = Over(r) /\ b[r] = Over(r)' /\ d[r] = Due(r) /\ e[r] = Due(r)'
  OBVIOUS
<1>6. /\ Headroom = tokenRemain + SumFunction(a) - SumFunction(d)
      /\ Headroom' = tokenRemain' + SumFunction(b) - SumFunction(e)
  BY DEF Headroom
<1>7. IsFiniteSet(Requests)
  BY BillingAssumption
<1>8. tokenRemain \in Int /\ tokenRemain' \in Int
  BY DEF IInv, TypeOK
<1> HIDE DEF a, b, d, e
<1>9. /\ SumFunction(a) \in Int /\ SumFunction(d) \in Int
      /\ SumFunction(b) = SumFunction(a) + (b[r] - a[r])
      /\ SumFunction(e) = SumFunction(d) + (e[r] - d[r])
  BY <1>1, <1>3, <1>4, <1>7, SumType, SumUpdate
<1>10. PICK x, y, z, u, v, w, i, j \in Int :
         /\ x = tokenRemain /\ y = tokenRemain' /\ z = SumFunction(a) /\ u = SumFunction(d)
         /\ v = a[r] /\ w = b[r] /\ i = d[r] /\ j = e[r]
  BY <1>1, <1>3, <1>8, <1>9
<1>11. /\ x + z - u \in Int
       /\ y + (z + (w - v)) - (u + (j - i)) = (x + z - u) + (y - x) + (w - v) - (j - i)
  OBVIOUS
<1> QED
  BY <1>5, <1>6, <1>8, <1>9, <1>10, <1>11

\* A step of request r that does not lower the headroom.
LEMMA Kept ==
  ASSUME IInv, IInv', OverdraftInv, NEW r \in Requests, Alone(r), Price(r)',
         tokenRemain' + Over(r)' - Due(r)' >= tokenRemain + Over(r) - Due(r)
  PROVE  OverdraftInv'
<1>1. \A o \in Requests : Price(o)'
  BY DEF OverdraftInv, Alone, Price
<1>2. Over(r) \in Nat /\ Due(r) \in Nat
  BY Amounts DEF OverdraftInv
<1>3. Over(r)' \in Int /\ Due(r)' \in Int
  <2>1. /\ req'[r] \in RequestType /\ ses'[r] \in SessionType /\ ledger'[r] \in LedgerType
    BY DEF IInv, TypeOK
  <2> QED
    BY <2>1 DEF Over, Due, OverOf, DueOf, Positive, SessionType, LedgerType
<1>4. /\ Headroom \in Int /\ tokenRemain \in Int /\ tokenRemain' \in Int
      /\ Headroom' = Headroom + (tokenRemain' - tokenRemain) + (Over(r)' - Over(r))
                              - (Due(r)' - Due(r))
  BY <1>1, HeadroomStep DEF OverdraftInv
<1>5. PICK x, y, v, w, i, j, h \in Int :
         /\ x = tokenRemain /\ y = tokenRemain' /\ v = Over(r) /\ w = Over(r)'
         /\ i = Due(r) /\ j = Due(r)' /\ h = Headroom
  BY <1>2, <1>3, <1>4
<1>6. y + w - j >= x + v - i
  BY <1>5
<1>7. PICK n \in Int : n = h + (y - x) + (w - v) - (j - i)
  OBVIOUS
<1>8. n >= h
  BY <1>6, <1>7
<1>9. Headroom' = n
  BY <1>4, <1>5, <1>7
<1>10. Floor' = Floor /\ Floor \in Int /\ h >= Floor
  BY <1>5, FloorType DEF Floor, Limit, OverdraftInv
<1> QED
  BY <1>1, <1>8, <1>9, <1>10 DEF OverdraftInv

\* The step writes neither the token nor the ledger of another request.
Steady(r) ==
  /\ tokenRemain' = tokenRemain /\ ledger'[r].token = ledger[r].token
  /\ \A o \in Requests \ {r} : ledger'[o] = ledger[o]

\* Writes to the sources, failed statements and steps without a statement leave the token alone.
LEMMA SteadyWrites ==
  ASSUME IInv, NEW r \in Requests
  PROVE  /\ UNCHANGED <<columns, ledger>> => Steady(r)
         /\ Fault(r) => Steady(r)
         /\ \A n \in Int : OverTotal(r, n) => Steady(r)
         /\ \A n \in Int, out \in Nat :
              MoveFunding(r, n, out) \/ MoveSub(r, n, out) \/ MoveWallet(r, n, out) => Steady(r)
<1>1. UNCHANGED <<columns, ledger>> => Steady(r)
  BY DEF columns, Steady
<1>2. Fault(r) => Steady(r)
  BY DEF IInv, TypeOK, Fault, columns, Steady, LedgerType
<1>3. \A n \in Int : OverTotal(r, n) => Steady(r)
  BY <1>1 DEF OverTotal
<1>4. ASSUME NEW n \in Int, NEW out \in Nat, MoveSub(r, n, out) PROVE Steady(r)
  <2>1. PICK l \in LedgerType : /\ ledger' = [ledger EXCEPT ![r] = l]
                                /\ Paid("subscription", ledger[r], n, out, l)
    BY <1>4, MoveSubEffect
  <2> QED
    BY <1>4, <2>1 DEF MoveSub, Paid, Steady, IInv, TypeOK
<1>5. ASSUME NEW n \in Int, NEW out \in Nat, MoveWallet(r, n, out) PROVE Steady(r)
  <2>1. PICK l \in LedgerType : /\ ledger' = [ledger EXCEPT ![r] = l]
                                /\ Paid("wallet", ledger[r], n, out, l)
    BY <1>5, MoveWalletEffect
  <2> QED
    BY <1>5, <2>1 DEF MoveWallet, Paid, Steady, IInv, TypeOK
<1> QED
  BY <1>1, <1>2, <1>3, <1>4, <1>5 DEF MoveFunding

\* The other requests' data, sessions and control points are left alone.
Others(r) == \A o \in Requests \ {r} : req'[o] = req[o] /\ ses'[o] = ses[o] /\ pc'[o] = pc[o]

\* A step that writes no token and leaves the token's part of the session alone.
LEMMA PlainStep ==
  ASSUME IInv, IInv', OverdraftInv, NEW r \in Requests, Others(r), Steady(r), req'[r] = req[r],
         ses'[r].amount = ses[r].amount, ses'[r].tokenConsumed = ses[r].tokenConsumed,
         ses'[r].pre <= Limit, pc'[r] \notin {"checkToken", "decToken"},
         pc'[r] \in {"fee", "feeToken"} =>
           pc[r] \in {"fee", "feeToken"} \/ req[r].playground \/ ledger[r].token >= ses[r].tokenConsumed
  PROVE  OverdraftInv'
<1>1. Alone(r) /\ Price(r)
  BY DEF Alone, Others, Steady, OverdraftInv
<1>2. Price(r)'
  BY <1>1 DEF Price, PriceOf
<1>3. Over(r)' = Over(r)
  BY DEF Over, OverOf, Steady
<1>4. Over(r) \in Nat /\ Due(r) \in Nat /\ tokenRemain \in Int
  BY <1>1, Amounts DEF IInv, TypeOK
<1>5. Due(r)' \in Int /\ Due(r)' <= Due(r)
  <2>1. /\ ses[r].tokenConsumed \in Nat /\ ledger[r].token \in Int
    BY DEF IInv, TypeOK, SessionType, LedgerType
  <2>2. CASE pc'[r] \in {"fee", "feeToken"} /\ ~req[r].playground
    <3>1. Due(r)' = Positive(ses[r].tokenConsumed - ledger[r].token)
      BY <2>2 DEF Due, DueOf, Steady
    <3>2. CASE pc[r] \in {"fee", "feeToken"}
      <4>1. Due(r) = Positive(ses[r].tokenConsumed - ledger[r].token)
        BY <2>2, <3>2 DEF Due, DueOf
      <4> QED
        BY <1>4, <3>1, <4>1
    <3>3. CASE ledger[r].token >= ses[r].tokenConsumed
      <4>1. Due(r)' = 0
        BY <2>1, <3>1, <3>3 DEF Positive
      <4> QED
        BY <1>4, <4>1
    <3> QED
      BY <2>2, <3>2, <3>3
  <2>3. CASE ~(pc'[r] \in {"fee", "feeToken"} /\ ~req[r].playground)
    <3>1. Due(r)' = 0
      BY <2>3 DEF Due, DueOf
    <3> QED
      BY <1>4, <3>1
  <2> QED
    BY <2>2, <2>3
<1>6. tokenRemain' + Over(r)' - Due(r)' >= tokenRemain + Over(r) - Due(r)
  BY <1>3, <1>4, <1>5 DEF Steady
<1> QED
  BY <1>1, <1>2, <1>6, Kept

\* A step that writes no token while there is nothing on it, before the decrement.
LEMMA FreshStep ==
  ASSUME IInv, IInv', OverdraftInv, NEW r \in Requests, Others(r), Steady(r), Price(r)',
         ledger[r].token = 0 \/ ses'[r].tokenConsumed = ses[r].tokenConsumed,
         pc'[r] \notin {"decToken", "fee", "feeToken"}
  PROVE  OverdraftInv'
<1>1. Alone(r) /\ Price(r)
  BY DEF Alone, Others, Steady, OverdraftInv
<1>2. /\ ses[r].tokenConsumed \in Nat /\ ses'[r].tokenConsumed \in Nat /\ ledger[r].token \in Int
  BY DEF IInv, TypeOK, SessionType, LedgerType
<1>3. Over(r)' = Over(r)
  BY <1>2 DEF Over, OverOf, Steady, Positive
<1>4. Over(r) \in Nat /\ Due(r) \in Nat /\ tokenRemain \in Int
  BY <1>1, Amounts DEF IInv, TypeOK
<1>5. Due(r)' = 0
  BY DEF Due, DueOf
<1>6. tokenRemain' + Over(r)' - Due(r)' >= tokenRemain + Over(r) - Due(r)
  BY <1>3, <1>4, <1>5 DEF Steady
<1> QED
  BY <1>1, <1>6, Kept

\* Opening a session on either source.
LEMMA OverOpen ==
  ASSUME IInv, IInv', OverdraftInv, NEW r \in Requests, NEW src, NEW n \in Nat, n <= Limit,
         NEW trusted, OpenSession(r, src, n, trusted), Steady(r), UNCHANGED req,
         pc[r] \in {"subscription", "hasSub", "wallet"}
  PROVE  OverdraftInv'
<1> DEFINE eff == IF trusted THEN 0 ELSE n
<1>1. eff \in Nat /\ eff <= Limit
  BY LimitIs
<1>2. LocalInv(req[r], record[r], ses[r], pc[r], refund[r], ledger[r])
  BY LocalTypes
<1>3. ses[r] = NoSession
  BY <1>2 DEF LocalInv, SessionInv, Opening, OpeningInv
<1>4. req[r].playground => ledger[r].token = 0
  BY <1>2 DEF LocalInv, HeldInv
<1>5. /\ ses'[r].amount = eff /\ ses'[r].delta = eff /\ ses'[r].pre = 0 /\ ~ses'[r].reserving
      /\ ses'[r].tokenConsumed = IF req[r].playground THEN eff ELSE 0
      /\ pc'[r] \in {"relay", "fund", "checkToken"} /\ Others(r)
  BY DEF OpenSession, NoSession, IInv, TypeOK, Goto, Others
<1>6. Price(r)'
  <2> HIDE DEF eff
  <2> QED
    BY <1>1, <1>5, LimitIs DEF OverdraftInv, Price, PriceOf
<1>7. ses[r].tokenConsumed = 0
  BY <1>3 DEF NoSession
<1> QED
  BY <1>4, <1>5, <1>6, <1>7, FreshStep

\* What is pre-consumed from a subscription is positive and at most the limit.
LEMMA OverSubscription ==
  ASSUME IInv, IInv', OverdraftInv, NEW r \in Requests, TrySubscription(r), Steady(r),
         UNCHANGED req, pc[r] \in {"subscription", "hasSub", "wallet"}
  PROVE  OverdraftInv'
<1> DEFINE n == IF req[r].quota <= 0 THEN 1 ELSE req[r].quota
<1>1. n \in Nat /\ n <= Limit
  BY LimitIs DEF IInv, TypeOK, RequestType, OverdraftInv, Price, PriceOf
<1>2. OpenSession(r, "subscription", n, FALSE)
  BY DEF TrySubscription
<1> HIDE DEF n
<1> QED
  BY <1>1, <1>2, OverOpen

\* Choosing a source moves nothing.
LEMMA OverChoose ==
  ASSUME IInv, IInv', OverdraftInv, NEW r \in Requests,
         OpenSubscription(r) \/ HasActiveUserSubscription(r) \/ TryWallet(r)
  PROVE  OverdraftInv'
<1>0. Steady(r) /\ UNCHANGED req /\ pc[r] \in {"subscription", "hasSub", "wallet"}
  BY SteadyWrites DEF OpenSubscription, HasActiveUserSubscription, TryWallet
<1>1. CASE TrySubscription(r)
  BY <1>0, <1>1, OverSubscription
<1>2. CASE OpenSession(r, "wallet", req[r].quota, ShouldTrust(r))
  <2>1. req[r].quota \in Nat /\ req[r].quota <= Limit
    BY DEF IInv, TypeOK, RequestType, OverdraftInv, Price, PriceOf
  <2> QED
    BY <1>0, <1>2, <2>1, OverOpen
<1>3. ASSUME UNCHANGED ses, Goto(r, "wallet") \/ Goto(r, "rejected") PROVE OverdraftInv'
  <2>1. pc'[r] \in {"wallet", "rejected"} /\ Others(r) /\ req'[r] = req[r] /\ ses'[r] = ses[r]
    BY <1>0, <1>3 DEF Goto, IInv, TypeOK, Others
  <2> QED
    BY <1>0, <2>1, PlainStep DEF OverdraftInv, Price, PriceOf
<1> QED
  BY <1>1, <1>2, <1>3 DEF OpenSubscription, HasActiveUserSubscription, TryWallet

\* A request that begins has taken nothing.
LEMMA OverBegin ==
  ASSUME IInv, IInv', OverdraftInv, NEW r \in Requests, NEW p \in Profiles, NEW n \in Quotas,
         ~p.unlimited, Begin(r, p, n)
  PROVE  OverdraftInv'
<1>1. Steady(r) /\ UNCHANGED ses /\ pc[r] = "new"
  BY SteadyWrites DEF Begin
<1>2. ledger[r].token = 0
  BY <1>1, LocalTypes DEF LocalInv, SessionInv, Opening, OpeningInv
<1>3. /\ ~req'[r].unlimited /\ req'[r].quota = n /\ Others(r)
      /\ pc'[r] \in {"relay", "subscription", "hasSub", "wallet"}
  BY DEF Begin, Goto, IInv, TypeOK, Others
<1>4. Price(r)'
  BY <1>1, <1>3, LimitIs DEF OverdraftInv, Price, PriceOf
<1> QED
  BY <1>1, <1>2, <1>3, <1>4, FreshStep

\* Pre-consumption from the source does not write the token.
LEMMA OverPreConsume ==
  ASSUME IInv, IInv', OverdraftInv, NEW r \in Requests, FundingPreConsume(r)
  PROVE  OverdraftInv'
<1>0. ses[r].amount \in Nat /\ ses[r].amount \in Int /\ 0 \in Nat
  BY DEF IInv, TypeOK, SessionType
<1>1. Steady(r)
  BY <1>0, SteadyWrites DEF FundingPreConsume
<1>2. /\ pc'[r] \in {"relay", "rollback", "rollbackTry"} /\ Others(r) /\ req'[r] = req[r]
      /\ ses'[r].amount = ses[r].amount /\ ses'[r].tokenConsumed = ses[r].tokenConsumed
      /\ ses'[r].pre \in {ses[r].pre, ses[r].amount}
  BY DEF FundingPreConsume, Goto, IInv, TypeOK, SessionType, Others
<1> QED
  BY <1>1, <1>2, PlainStep DEF OverdraftInv, Price, PriceOf

\* A reservation raises the pre-consumption to its target.
LEMMA OverReserve ==
  ASSUME IInv, IInv', OverdraftInv, NEW r \in Requests, NEW t \in Targets, Reserve(r, t)
  PROVE  OverdraftInv'
<1> DEFINE d == t - ses[r].pre
<1>0. d \in Int /\ 0 \in Nat /\ t \in Nat /\ t <= Limit /\ ses[r].pre \in Nat
  BY LimitIs DEF IInv, TypeOK, SessionType
<1>1. Steady(r)
  BY <1>0, SteadyWrites DEF Reserve
<1>2. /\ Locals(req[r], record[r], ses[r], pc[r], refund[r], ledger[r])
      /\ LocalInv(req[r], record[r], ses[r], pc[r], refund[r], ledger[r])
  BY LocalTypes
<1>3. /\ pc[r] = "relay" /\ ses[r].tokenConsumed = ses[r].pre /\ ~ses[r].reserving
      /\ req[r].playground => ledger[r].token = 0
  BY <1>2 DEF Reserve, LocalInv, SessionInv, HeldInv, ChargedInv, Opening, Reserving
<1>4. CASE /\ req[r].playground
           /\ \E w : ses' = [ses EXCEPT ![r].pre = @ + d, ![r].tokenConsumed = @ + d,
                                        ![r].extra = @ + d, ![r].consumed = @ + w]
           /\ UNCHANGED pc
  <2>0. PICK w : ses' = [ses EXCEPT ![r].pre = @ + d, ![r].tokenConsumed = @ + d,
                                    ![r].extra = @ + d, ![r].consumed = @ + w]
    BY <1>4
  <2>a. ses[r].pre + d = t /\ ses[r].tokenConsumed + d = t
    BY <1>0, <1>3
  <2> HIDE DEF d
  <2>b. /\ ses'[r].pre = ses[r].pre + d /\ ses'[r].tokenConsumed = ses[r].tokenConsumed + d
        /\ ses'[r].amount = ses[r].amount
        /\ \A x \in Requests \ {r} : ses'[x] = ses[x]
    BY <2>0 DEF IInv, TypeOK, SessionType
  <2>1. /\ ses'[r].pre = t /\ ses'[r].tokenConsumed = t /\ ses'[r].amount = ses[r].amount
        /\ pc'[r] = "relay" /\ Others(r) /\ UNCHANGED req
    BY <1>3, <1>4, <2>a, <2>b DEF Reserve, IInv, TypeOK, Others
  <2>2. Price(r)'
    BY <1>0, <2>1 DEF OverdraftInv, Price, PriceOf
  <2> QED
    BY <1>1, <1>3, <1>4, <2>1, <2>2, FreshStep
<1>5. CASE /\ \E w : ses' = [ses EXCEPT ![r].consumed = @ + w, ![r].delta = d, ![r].reserving = TRUE]
           /\ Goto(r, "checkToken")
  <2>1. /\ ses'[r].pre = ses[r].pre /\ ses'[r].tokenConsumed = ses[r].tokenConsumed
        /\ ses'[r].amount = ses[r].amount /\ ses'[r].delta = d /\ ses'[r].reserving
        /\ pc'[r] = "checkToken" /\ Others(r) /\ UNCHANGED req
    BY <1>5 DEF Reserve, Goto, IInv, TypeOK, SessionType, Others
  <2>2. Price(r)'
    BY <1>0, <2>1 DEF OverdraftInv, Price, PriceOf
  <2> QED
    BY <1>1, <2>1, <2>2, FreshStep
<1>6. CASE Goto(r, "failing") /\ UNCHANGED ses
  <2>1. pc'[r] = "failing" /\ Others(r) /\ req'[r] = req[r] /\ ses'[r] = ses[r]
    BY <1>6 DEF Reserve, Goto, IInv, TypeOK, Others
  <2> QED
    BY <1>1, <2>1, PlainStep DEF OverdraftInv, Price, PriceOf
<1> QED
  BY <1>4, <1>5, <1>6 DEF Reserve

\* The steps of the handler that neither write the token nor touch the part of the session
\* that is about it.
LEMMA OverPlain ==
  ASSUME IInv, IInv', OverdraftInv, NEW r \in Requests,
         \/ UndoReserve(r) \/ (\E n \in Chunks : PreWssConsumeQuota(r, n)) \/ ChunkFunding(r)
         \/ (\E a : SettleBilling(r, a)) \/ SettleFunding(r)
  PROVE  OverdraftInv'
<1>0. ses[r].delta \in Int /\ -ses[r].delta \in Int /\ 0 \in Nat
  BY DEF IInv, TypeOK, SessionType
<1>1. CASE UndoReserve(r)
  <2>1. Steady(r)
    BY <1>0, <1>1, SteadyWrites DEF UndoReserve
  <2>2. /\ pc'[r] = "failing" /\ Others(r) /\ req'[r] = req[r] /\ ses'[r].amount = ses[r].amount
        /\ ses'[r].tokenConsumed = ses[r].tokenConsumed /\ ses'[r].pre = ses[r].pre
    BY <1>1 DEF UndoReserve, Goto, IInv, TypeOK, SessionType, Others
  <2> QED
    BY <2>1, <2>2, PlainStep DEF OverdraftInv, Price, PriceOf
<1>2. ASSUME NEW n \in Chunks, PreWssConsumeQuota(r, n) PROVE OverdraftInv'
  <2>1. Steady(r)
    BY <1>2, SteadyWrites DEF PreWssConsumeQuota
  <2>2. /\ pc'[r] \in {"chunkFund", "ending"} /\ Others(r) /\ req'[r] = req[r]
        /\ ses'[r].amount = ses[r].amount
        /\ ses'[r].tokenConsumed = ses[r].tokenConsumed /\ ses'[r].pre = ses[r].pre
    <3>1. PICK u : ses' = [ses EXCEPT ![r].used = u, ![r].delta = n]
      BY <1>2 DEF PreWssConsumeQuota
    <3>2. /\ ses'[r].amount = ses[r].amount
          /\ ses'[r].tokenConsumed = ses[r].tokenConsumed /\ ses'[r].pre = ses[r].pre
      BY <3>1 DEF IInv, TypeOK, SessionType
    <3> QED
      BY <1>2, <3>1, <3>2 DEF PreWssConsumeQuota, Goto, IInv, TypeOK, Others
  <2> QED
    BY <2>1, <2>2, PlainStep DEF OverdraftInv, Price, PriceOf
<1>3. CASE ChunkFunding(r)
  <2>1. Steady(r)
    <3>1. ses[r].delta \in Nat
      BY <1>0, <1>3, LocalTypes DEF ChunkFunding, LocalInv, SessionInv
    <3> QED
      BY <1>0, <1>3, <3>1, SteadyWrites DEF ChunkFunding
  <2>2. /\ pc'[r] \in {"relay", "chunkToken", "ending"} /\ Others(r) /\ req'[r] = req[r]
        /\ ses'[r] = ses[r]
    BY <1>3 DEF ChunkFunding, Goto, IInv, TypeOK, Others
  <2> QED
    BY <2>1, <2>2, PlainStep DEF OverdraftInv, Price, PriceOf
<1>4. ASSUME NEW a, SettleBilling(r, a) PROVE OverdraftInv'
  <2>1. Steady(r)
    BY <1>4, SteadyWrites DEF SettleBilling, columns
  <2>2. /\ pc'[r] \in {"done", "settleFund"} /\ Others(r) /\ req'[r] = req[r]
        /\ ses'[r].amount = ses[r].amount
        /\ ses'[r].tokenConsumed = ses[r].tokenConsumed /\ ses'[r].pre = ses[r].pre
    <3>1. PICK d, e : ses' = [ses EXCEPT ![r].actual = a, ![r].delta = d, ![r].settled = e]
      BY <1>4 DEF SettleBilling
    <3>2. /\ ses'[r].amount = ses[r].amount
          /\ ses'[r].tokenConsumed = ses[r].tokenConsumed /\ ses'[r].pre = ses[r].pre
      BY <3>1 DEF IInv, TypeOK, SessionType
    <3> QED
      BY <1>4, <3>1, <3>2 DEF SettleBilling, Goto, IInv, TypeOK, Others
  <2> QED
    BY <2>1, <2>2, PlainStep DEF OverdraftInv, Price, PriceOf
<1>5. CASE SettleFunding(r)
  <2>1. Steady(r)
    BY <1>0, <1>5, SteadyWrites DEF SettleFunding
  <2>2. /\ pc'[r] \in {"done", "settleToken"} /\ Others(r) /\ req'[r] = req[r]
        /\ ses'[r].amount = ses[r].amount
        /\ ses'[r].tokenConsumed = ses[r].tokenConsumed /\ ses'[r].pre = ses[r].pre
    BY <1>5 DEF SettleFunding, Goto, IInv, TypeOK, SessionType, Others
  <2> QED
    BY <2>1, <2>2, PlainStep DEF OverdraftInv, Price, PriceOf
<1> QED
  BY <1>1, <1>2, <1>3, <1>4, <1>5

\* The end of a failed request: the refund starts, and the fee is charged to the source.
LEMMA OverFailed ==
  ASSUME IInv, IInv', OverdraftInv, NEW r \in Requests,
         \/ Refund(r) \/ NoViolation(r) \/ (\E f \in Fees : ChargeViolationFee(r, f)) \/ Crash(r)
  PROVE  OverdraftInv'
<1>1. CASE Refund(r)
  <2>1. Steady(r)
    BY <1>1, SteadyWrites DEF Refund, columns
  <2>2. /\ pc'[r] = "fee" /\ Others(r) /\ req'[r] = req[r] /\ ses'[r].amount = ses[r].amount
        /\ ses'[r].tokenConsumed = ses[r].tokenConsumed /\ ses'[r].pre = ses[r].pre
    BY <1>1 DEF Refund, Goto, IInv, TypeOK, SessionType, Others
  <2>3. req[r].playground \/ ledger[r].token >= ses[r].tokenConsumed
    <3>1. refund[r].pc = "idle"
      BY <1>1, LocalTypes DEF Refund, LocalInv, SessionInv
    <3> QED
      BY <1>1, <3>1, LocalTypes DEF Refund, LocalInv, HeldInv
  <2> QED
    BY <2>1, <2>2, <2>3, PlainStep DEF OverdraftInv, Price, PriceOf
<1>2. CASE NoViolation(r)
  <2>1. Steady(r)
    BY <1>2, SteadyWrites DEF NoViolation, columns
  <2>2. pc'[r] = "done" /\ Others(r) /\ req'[r] = req[r] /\ ses'[r] = ses[r]
    BY <1>2 DEF NoViolation, Goto, IInv, TypeOK, Others
  <2> QED
    BY <2>1, <2>2, PlainStep DEF OverdraftInv, Price, PriceOf
<1>3. ASSUME NEW f \in Fees, ChargeViolationFee(r, f) PROVE OverdraftInv'
  <2>0. f \in Nat
    BY BillingAssumption
  <2>1. Steady(r)
    BY <1>3, <2>0, SteadyWrites DEF ChargeViolationFee
  <2>2. /\ pc[r] = "fee" /\ pc'[r] \in {"done", "feeToken"} /\ Others(r) /\ req'[r] = req[r]
        /\ ses'[r].amount = ses[r].amount
        /\ ses'[r].tokenConsumed = ses[r].tokenConsumed /\ ses'[r].pre = ses[r].pre
    BY <1>3 DEF ChargeViolationFee, Goto, IInv, TypeOK, SessionType, Others
  <2> QED
    BY <2>1, <2>2, PlainStep DEF OverdraftInv, Price, PriceOf
<1>4. CASE Crash(r)
  <2>1. Steady(r)
    BY <1>4, SteadyWrites DEF Crash, columns
  <2>2. /\ pc'[r] \in Ended /\ Others(r) /\ req'[r] = req[r] /\ ses'[r] = ses[r]
    BY <1>4 DEF Crash, IInv, TypeOK, Others, Ended
  <2> QED
    BY <2>1, <2>2, PlainStep DEF OverdraftInv, Price, PriceOf, Ended
<1> QED
  BY <1>1, <1>2, <1>3, <1>4

\* The refund of the source.
LEMMA OverRefund ==
  ASSUME IInv, IInv', OverdraftInv, NEW r \in Requests,
         RefundWallet(r) \/ RefundSubscription(r) \/ RefundExtra(r)
  PROVE  OverdraftInv'
<1>1. -ses[r].consumed \in Int /\ -ses[r].extra \in Int /\ 0 \in Nat
  BY DEF IInv, TypeOK, SessionType
<1>2. Steady(r) /\ UNCHANGED <<req, ses, pc>>
  BY <1>1, SteadyWrites DEF RefundWallet, RefundSubscription, RefundExtra
<1>3. refund[r].pc \in {"fund", "extra"} /\ Others(r)
  BY <1>2 DEF RefundWallet, RefundSubscription, RefundExtra, Others
<1>4. pc[r] \notin {"checkToken", "decToken"}
  BY <1>3, LocalTypes DEF LocalInv, SessionInv, Locals, RefundType
<1> QED
  BY <1>2, <1>3, <1>4, PlainStep DEF OverdraftInv, Price, PriceOf

\* A write to the token.
LEMMA TokenWrite ==
  ASSUME IInv, NEW r \in Requests, NEW n \in Int, MoveToken(r, n)
  PROVE  /\ tokenRemain \in Int /\ ledger[r].token \in Int
         /\ tokenRemain' = tokenRemain - n /\ ledger'[r].token = ledger[r].token + n
         /\ \A o \in Requests \ {r} : ledger'[o] = ledger[o]
BY DEF MoveToken, IInv, TypeOK, LedgerType

\* What is written to the token on top of the pre-consumption is counted in full, when the
\* pre-consumption is on the token, or when the amount that is due makes up for it.
LEMMA TokenPaid ==
  ASSUME IInv, IInv', OverdraftInv, NEW r \in Requests, NEW n \in Int, MoveToken(r, n), Others(r),
         req'[r] = req[r], ses'[r].amount = ses[r].amount, ses'[r].pre = ses[r].pre,
         ses'[r].tokenConsumed = ses[r].tokenConsumed,
         pc'[r] \notin {"checkToken", "decToken", "fee", "feeToken"},
         ledger[r].token >= ses[r].tokenConsumed \/ (pc[r] = "feeToken" /\ ~req[r].playground)
  PROVE  OverdraftInv'
<1>1. PICK x, a, e \in Int :
        /\ x = tokenRemain /\ a = ledger[r].token /\ e = ses[r].tokenConsumed
        /\ tokenRemain' = x - n /\ ledger'[r].token = a + n
        /\ \A o \in Requests \ {r} : ledger'[o] = ledger[o]
  BY TokenWrite DEF IInv, TypeOK, SessionType
<1>2. Alone(r) /\ Price(r) /\ Price(r)'
  BY <1>1 DEF Alone, Others, OverdraftInv, Price, PriceOf
<1>3. Over(r)' = Positive(a + n - e) /\ Over(r) = Positive(a - e) /\ Due(r)' = 0
  BY <1>1 DEF Over, OverOf, Due, DueOf
<1>4. Due(r) \in Nat /\ (a < e => Due(r) = Positive(e - a))
  BY <1>1, <1>2, Amounts DEF Due, DueOf
<1>5. x - n + Positive(a + n - e) - 0 >= x + Positive(a - e) - Due(r)
  BY <1>4 DEF Positive
<1> QED
  BY <1>1, <1>2, <1>3, <1>5, Kept

\* The writes of chunks, settlements and fees count as amounts beyond the session.
LEMMA OverToken ==
  ASSUME IInv, IInv', OverdraftInv, NEW r \in Requests,
         ChunkToken(r) \/ SettleToken(r) \/ FeeToken(r)
  PROVE  OverdraftInv'
<1>1. ses[r].delta \in Int
  BY DEF IInv, TypeOK, SessionType
<1>2. /\ pc'[r] \in {"relay", "ending", "done"} /\ Others(r) /\ req'[r] = req[r]
      /\ ses'[r].amount = ses[r].amount /\ ses'[r].pre = ses[r].pre
      /\ ses'[r].tokenConsumed = ses[r].tokenConsumed
  BY DEF ChunkToken, SettleToken, FeeToken, Goto, IInv, TypeOK, SessionType, Others
<1>3. CASE Fault(r)
  <2>1. Steady(r)
    BY <1>3, SteadyWrites
  <2> QED
    BY <1>2, <2>1, PlainStep DEF OverdraftInv, Price, PriceOf
<1>4. CASE MoveToken(r, ses[r].delta)
  <2>1. pc[r] \in {"chunkToken", "settleToken", "feeToken"}
    BY DEF ChunkToken, SettleToken, FeeToken
  <2>2. ~req[r].playground
    BY <2>1, LocalTypes DEF LocalInv, SessionInv
  <2>3. pc[r] # "feeToken" => refund[r].pc = "idle"
    BY <2>1, LocalTypes DEF LocalInv, SessionInv
  <2>4. pc[r] # "feeToken" => ledger[r].token >= ses[r].tokenConsumed
    BY <2>1, <2>2, <2>3, LocalTypes DEF LocalInv, HeldInv
  <2> QED
    BY <1>1, <1>2, <1>4, <2>2, <2>4, TokenPaid
<1> QED
  BY <1>3, <1>4 DEF ChunkToken, SettleToken, FeeToken

\* The refund of the token makes room for the decrements of others, but a violation fee
\* that follows it is then only counted in part: the rest is due.
LEMMA OverRefundToken ==
  ASSUME IInv, IInv', OverdraftInv, NEW r \in Requests, RefundToken(r)
  PROVE  OverdraftInv'
<1>1. UNCHANGED <<req, ses, pc>> /\ refund[r].pc = "token" /\ Others(r)
  BY DEF RefundToken, Others
<1>2. pc[r] \in {"fee", "feeToken", "done", "lost"}
  BY <1>1, LocalTypes DEF LocalInv, SessionInv, Locals, RefundType
<1>3. CASE Steady(r)
  BY <1>1, <1>2, <1>3, PlainStep DEF OverdraftInv, Price, PriceOf
<1>4. CASE ~req[r].playground /\ MoveToken(r, -ses[r].tokenConsumed)
  <2>1. PICK x, a, e \in Int : x = tokenRemain /\ a = ledger[r].token /\ e = ses[r].tokenConsumed
    BY DEF IInv, TypeOK, SessionType, LedgerType
  <2>2. /\ tokenRemain' = x + e /\ ledger'[r].token = a - e
        /\ \A o \in Requests \ {r} : ledger'[o] = ledger[o]
    <3>1. PICK n \in Int : n = -e
      BY <2>1
    <3>2. MoveToken(r, n)
      BY <1>4, <2>1, <3>1
    <3> QED
      BY <2>1, <3>1, <3>2, TokenWrite
  <2>3. a >= e
    BY <1>1, <1>4, <2>1, LocalTypes DEF LocalInv, HeldInv
  <2>4. Alone(r) /\ Price(r) /\ Price(r)'
    BY <1>1, <2>2 DEF Alone, Others, OverdraftInv, Price, PriceOf
  <2>5. Over(r)' = Positive(a - e - e) /\ Over(r) = Positive(a - e)
    BY <1>1, <2>1, <2>2 DEF Over, OverOf
  <2>6. Due(r)' \in {0, Positive(e - (a - e))} /\ Due(r) \in Nat
    BY <1>1, <1>2, <2>1, <2>2, <2>4, Amounts DEF Due, DueOf
  <2>7. x + e + Positive(a - e - e) - Due(r)' >= x + Positive(a - e) - Due(r)
    BY <2>1, <2>3, <2>6 DEF Positive
  <2> QED
    BY <2>1, <2>2, <2>4, <2>5, <2>7, Kept
<1> QED
  BY <1>3, <1>4, SteadyWrites DEF RefundToken

\* A decrement that was checked before.
LEMMA OverDecToken ==
  ASSUME IInv, IInv', OverdraftInv, NEW r \in Requests, DecToken(r)
  PROVE  OverdraftInv'
<1>0. /\ Locals(req[r], record[r], ses[r], pc[r], refund[r], ledger[r])
      /\ LocalInv(req[r], record[r], ses[r], pc[r], refund[r], ledger[r])
  BY LocalTypes
<1>1. CASE Fault(r) /\ Goto(r, IF ses[r].reserving THEN "undoReserve" ELSE "rejected") /\ UNCHANGED ses
  <2>1. Steady(r)
    BY <1>1, SteadyWrites
  <2>2. pc'[r] \in {"undoReserve", "rejected"} /\ Others(r) /\ req'[r] = req[r] /\ ses'[r] = ses[r]
    BY <1>1 DEF DecToken, Goto, IInv, TypeOK, Others
  <2> QED
    BY <2>1, <2>2, PlainStep DEF OverdraftInv, Price, PriceOf
<1>2. CASE /\ MoveToken(r, ses[r].delta)
           /\ IF ses[r].reserving
              THEN /\ ses' = [ses EXCEPT ![r].pre = @ + ses[r].delta,
                                         ![r].tokenConsumed = @ + ses[r].delta,
                                         ![r].extra = @ + ses[r].delta, ![r].reserving = FALSE]
                   /\ Goto(r, "relay")
              ELSE ses' = [ses EXCEPT ![r].tokenConsumed = ses[r].delta] /\ Goto(r, "fund")
  <2>1. PICK x, a, e, d, b \in Int :
          /\ x = tokenRemain /\ a = ledger[r].token /\ e = ses[r].tokenConsumed
          /\ d = ses[r].delta /\ b = ses[r].pre
    <3>1. /\ tokenRemain \in Int /\ ledger[r].token \in Int /\ ses[r].tokenConsumed \in Int
          /\ ses[r].delta \in Int /\ ses[r].pre \in Int
      BY DEF IInv, TypeOK, SessionType, LedgerType
    <3> QED
      BY <3>1
  <2>2. /\ tokenRemain' = x - d /\ ledger'[r].token = a + d
        /\ \A o \in Requests \ {r} : ledger'[o] = ledger[o]
    BY <1>2, <2>1, TokenWrite
  <2>3. /\ pc[r] = "decToken" /\ (ses[r].reserving => e = b) /\ (~ses[r].reserving => e = 0)
        /\ d + (IF ses[r].reserving THEN b ELSE 0) <= Limit
    BY <1>0, <2>1 DEF DecToken, LocalInv, SessionInv, Opening, Reserving, OpeningInv, ChargedInv,
                      OverdraftInv, Price, PriceOf
  <2>4. /\ ses'[r].amount = ses[r].amount /\ ses'[r].tokenConsumed = e + d
        /\ ses'[r].pre = (IF ses[r].reserving THEN b + d ELSE b)
        /\ pc'[r] \in {"relay", "fund"} /\ Others(r) /\ req'[r] = req[r]
    <3>1. CASE ses[r].reserving
      <4> DEFINE u == ses[r].pre + ses[r].delta
                 v == ses[r].tokenConsumed + ses[r].delta
                 w == ses[r].extra + ses[r].delta
      <4>0. u = b + d /\ v = e + d
        BY <2>1
      <4>1. ses' = [ses EXCEPT ![r].pre = u, ![r].tokenConsumed = v,
                               ![r].extra = w, ![r].reserving = FALSE]
        BY <1>2, <3>1
      <4> HIDE DEF u, v, w
      <4>2. ses'[r].amount = ses[r].amount /\ ses'[r].tokenConsumed = v /\ ses'[r].pre = u
        BY <4>1 DEF IInv, TypeOK, SessionType
      <4>3. pc'[r] = "relay" /\ Others(r) /\ req'[r] = req[r]
        BY <1>2, <3>1, <4>1 DEF DecToken, Goto, IInv, TypeOK, Others
      <4> QED
        BY <3>1, <4>0, <4>2, <4>3
    <3>2. CASE ~ses[r].reserving
      <4>1. ses' = [ses EXCEPT ![r].tokenConsumed = d] /\ Goto(r, "fund")
        BY <1>2, <2>1, <3>2
      <4>2. ses'[r].amount = ses[r].amount /\ ses'[r].tokenConsumed = d /\ ses'[r].pre = b
        BY <2>1, <4>1 DEF IInv, TypeOK, SessionType
      <4>3. pc'[r] = "fund" /\ Others(r) /\ req'[r] = req[r]
        BY <4>1 DEF DecToken, Goto, IInv, TypeOK, Others
      <4> QED
        BY <2>3, <3>2, <4>2, <4>3
    <3> QED
      BY <3>1, <3>2
  <2>5. Alone(r) /\ Price(r)'
    BY <2>1, <2>2, <2>3, <2>4, LimitIs DEF Alone, Others, OverdraftInv, Price, PriceOf
  <2>6. Over(r)' = Positive(a + d - (e + d)) /\ Over(r) = Positive(a - e)
    BY <2>1, <2>2, <2>4 DEF Over, OverOf
  <2>7. Due(r)' = 0 /\ Due(r) = d
    BY <2>1, <2>3, <2>4 DEF Due, DueOf
  <2>8. x - d + Positive(a + d - (e + d)) - 0 >= x + Positive(a - e) - d
    BY <2>1 DEF Positive
  <2> QED
    BY <2>1, <2>2, <2>5, <2>6, <2>7, <2>8, Kept
<1> QED
  BY <1>1, <1>2 DEF DecToken

\* Giving the pre-consumption back, before the fallback or the end of the request.
LEMMA OverRollback ==
  ASSUME IInv, IInv', OverdraftInv, NEW r \in Requests, RollbackToken(r)
  PROVE  OverdraftInv'
<1>0. LocalInv(req[r], record[r], ses[r], pc[r], refund[r], ledger[r])
  BY LocalTypes
<1>1. /\ ses'[r] = NoSession /\ pc'[r] \in {"wallet", "rejected"} /\ Others(r) /\ req'[r] = req[r]
  BY DEF RollbackToken, Goto, IInv, TypeOK, Others
<1>2. Price(r) /\ Price(r)'
  BY <1>1, LimitIs DEF OverdraftInv, Price, PriceOf, NoSession
<1>3. CASE req[r].playground /\ UNCHANGED <<columns, ledger>>
  <2>1. ledger[r].token = 0 /\ Steady(r)
    BY <1>0, <1>3, SteadyWrites DEF LocalInv, HeldInv
  <2> QED
    BY <1>1, <1>2, <2>1, FreshStep
<1>4. ASSUME NEW n \in {0, ses[r].tokenConsumed}, tokenRemain' = tokenRemain + n,
             ledger'[r].token = ledger[r].token - n,
             \A o \in Requests \ {r} : ledger'[o] = ledger[o]
      PROVE  OverdraftInv'
  <2>1. PICK x, a \in Int, e \in Nat :
          x = tokenRemain /\ a = ledger[r].token /\ e = ses[r].tokenConsumed
    BY DEF IInv, TypeOK, SessionType, LedgerType
  <2>2. Over(r)' = Positive(a - n - 0) /\ Over(r) = Positive(a - e)
    BY <1>1, <1>4, <2>1 DEF Over, OverOf, NoSession
  <2>3. Due(r)' = 0 /\ Due(r) \in Nat
    BY <1>1, <1>2, Amounts DEF Due, DueOf
  <2>4. x + n + Positive(a - n - 0) - 0 >= x + Positive(a - e) - Due(r)
    BY <1>4, <2>1, <2>3 DEF Positive
  <2>5. Alone(r)
    BY <1>1, <1>4 DEF Alone, Others
  <2> QED
    BY <1>2, <1>4, <2>1, <2>2, <2>3, <2>4, <2>5, Kept
<1>5. CASE MoveToken(r, -ses[r].tokenConsumed)
  <2>1. PICK e \in Nat : e = ses[r].tokenConsumed
    BY DEF IInv, TypeOK, SessionType
  <2>2. PICK n \in Int : n = -e
    BY <2>1
  <2>3. MoveToken(r, n)
    BY <1>5, <2>1, <2>2
  <2>4. /\ tokenRemain' = tokenRemain + e /\ ledger'[r].token = ledger[r].token - e
        /\ \A o \in Requests \ {r} : ledger'[o] = ledger[o]
    BY <2>2, <2>3, TokenWrite
  <2> QED
    BY <1>4, <2>1, <2>4
<1>6. CASE Fault(r)
  <2>1. Steady(r) /\ tokenRemain \in Int /\ ledger[r].token \in Int
    BY <1>6, SteadyWrites DEF IInv, TypeOK, LedgerType
  <2> QED
    BY <1>4, <2>1 DEF Steady
<1> QED
  BY <1>3, <1>5, <1>6 DEF RollbackToken

\* The check: whatever the other requests may still take, each of them at most the limit,
\* the request itself takes no more than what is there.
LEMMA OverCheckToken ==
  ASSUME IInv, IInv', OverdraftInv, NEW r \in Requests, CheckToken(r)
  PROVE  OverdraftInv'
<1>0. /\ pc[r] = "checkToken" /\ UNCHANGED <<req, ses>> /\ ses[r].delta \in Int
      /\ ~req[r].unlimited /\ Others(r)
  BY DEF CheckToken, Goto, IInv, TypeOK, SessionType, OverdraftInv, Price, PriceOf, Others
<1>1. Steady(r)
  BY SteadyWrites DEF CheckToken
<1>2. CASE pc'[r] \in {"undoReserve", "rejected"}
  BY <1>0, <1>1, <1>2, PlainStep DEF OverdraftInv, Price, PriceOf
<1>3. CASE pc'[r] = "decToken" /\ tokenRemain >= ses[r].delta
  <2> DEFINE a == [o \in Requests |-> Over(o)]
             d == [o \in Requests |-> Due(o)]
  <2>1. Alone(r) /\ \A o \in Requests : Price(o) /\ Price(o)'
    BY <1>0, <1>1, <1>3 DEF Alone, Others, Steady, OverdraftInv, Price, PriceOf
  <2>2. /\ a \in [Requests -> Nat] /\ d \in [Requests -> Int] /\ \A o \in Requests : d[o] <= Limit
        /\ d[r] = 0
    BY <1>0, <2>1, Amounts DEF Due, DueOf
  <2>3. Headroom = tokenRemain + SumFunction(a) - SumFunction(d)
    BY DEF Headroom
  <2>4. IsFiniteSet(Requests) /\ Limit \in Nat
    BY BillingAssumption, LimitIs
  <2> HIDE DEF a, d
  <2>5. SumFunction(a) \in Nat /\ SumFunction(d) \in Int
        /\ SumFunction(d) <= (Cardinality(Requests) - 1) * Limit
    BY <2>2, <2>4, SumNat, SumType, SumOfOthers
  <2>6. /\ Headroom \in Int /\ tokenRemain \in Int
        /\ Headroom' = Headroom + (tokenRemain' - tokenRemain) + (Over(r)' - Over(r))
                                - (Due(r)' - Due(r))
    BY <2>1, HeadroomStep
  <2>7. /\ tokenRemain' = tokenRemain /\ Over(r)' = Over(r) /\ Over(r) \in Nat
        /\ Due(r)' = ses[r].delta /\ Due(r) = 0
    BY <1>0, <1>1, <1>3, <2>1, Amounts DEF Steady, Over, OverOf, Due, DueOf
  <2>8. Headroom' = Headroom - ses[r].delta
    BY <1>0, <2>6, <2>7
  <2>9. PICK m \in Int : m = (Cardinality(Requests) - 1) * Limit
    BY <2>4, FS_CardinalityType
  <2>10. Headroom - ses[r].delta >= -m
    BY <1>0, <1>3, <2>3, <2>5, <2>6, <2>9
  <2>11. Floor = -m /\ Floor' = Floor
    BY <2>9 DEF Floor, Limit
  <2> QED
    BY <2>1, <2>8, <2>10, <2>11 DEF OverdraftInv
<1> QED
  <2>1. \/ Goto(r, "decToken") /\ tokenRemain >= ses[r].delta
        \/ Goto(r, "undoReserve") \/ Goto(r, "rejected")
    BY <1>0 DEF CheckToken
  <2>2. (pc'[r] = "decToken" /\ tokenRemain >= ses[r].delta) \/ pc'[r] \in {"undoReserve", "rejected"}
    BY <2>1 DEF Goto, IInv, TypeOK
  <2> QED
    BY <1>2, <1>3, <2>2

\* Concurrent requests overdraw a limited token by no more than one pre-consumption for
\* every request but one, apart from what was taken on top; a token is created with a
\* quota that is not negative.
THEOREM OverdraftIsBounded ==
  ASSUME InitToken >= 0
  PROVE  Spec => []TokenOverdraftBounded
<1> DEFINE Limited == \A p \in Profiles : ~p.unlimited
           R == Limited => OverdraftInv
<1>1. ASSUME Init PROVE R
  <2> DEFINE a == [r \in Requests |-> Over(r)]
             d == [r \in Requests |-> Due(r)]
  <2>1. /\ a \in [Requests -> Int] /\ d \in [Requests -> Int]
        /\ \A r \in Requests : a[r] = 0 /\ d[r] = 0
    BY <1>1 DEF Init, Over, Due, OverOf, DueOf, NoSession, Positive
  <2>2. \A r \in Requests : Price(r)
    BY <1>1, LimitIs DEF Init, Price, PriceOf, NoSession, NoRequest
  <2>3. Headroom = tokenRemain + SumFunction(a) - SumFunction(d)
    BY DEF Headroom
  <2>4. IsFiniteSet(Requests) /\ Requests # {} /\ tokenRemain \in Int /\ tokenRemain >= 0
    BY <1>1, BillingAssumption DEF Init
  <2> HIDE DEF a, d
  <2>5. SumFunction(a) = 0 /\ SumFunction(d) = 0
    BY <2>1, <2>4, SumZero
  <2>6. (Cardinality(Requests) - 1) \in Nat
    BY <2>4, FS_CardinalityType, FS_EmptySet
  <2>7. Floor \in Int /\ Floor <= 0
    BY <2>6, LimitIs DEF Floor
  <2> QED
    BY <2>2, <2>3, <2>4, <2>5, <2>7 DEF OverdraftInv
<1>2. ASSUME IInv, R, [Next]_vars PROVE R'
  <2> SUFFICES ASSUME Limited PROVE OverdraftInv'
    OBVIOUS
  <2>1. IInv' /\ OverdraftInv
    BY <1>2, InvNext
  <2>2. CASE Next
    BY <1>2, <2>1, <2>2, OverChoose, OverBegin, OverPreConsume, OverReserve, OverPlain, OverFailed,
       OverRefund, OverToken, OverRefundToken, OverDecToken, OverRollback, OverCheckToken
       DEF Next, HandlerStep, RefundStep
  <2>3. CASE UNCHANGED vars
    BY <2>1, <2>3 DEF vars, OverdraftInv, Price, Headroom, Over, Due, Floor, Limit
  <2> QED
    BY <1>2, <2>2, <2>3
<1>3. ASSUME IInv, R PROVE TokenOverdraftBounded
  <2> SUFFICES ASSUME Limited
      PROVE  tokenRemain >= - (Cardinality(Requests) - 1) * Max(Quotas \union Targets \union {1})
               - SumFunction([r \in Requests |-> Positive(ledger[r].token - ses[r].tokenConsumed)])
    BY DEF TokenOverdraftBounded
  <2> DEFINE a == [r \in Requests |-> Over(r)]
             d == [r \in Requests |-> Due(r)]
             b == [r \in Requests |-> Positive(ledger[r].token - ses[r].tokenConsumed)]
  <2>1. OverdraftInv
    BY <1>3
  <2>2. a \in [Requests -> Int] /\ d \in [Requests -> Nat] /\ a = b
    BY <1>3, <2>1, Amounts DEF OverdraftInv, Over, OverOf
  <2>3. Headroom = tokenRemain + SumFunction(a) - SumFunction(d)
    BY DEF Headroom
  <2>4. IsFiniteSet(Requests) /\ tokenRemain \in Int
    BY <1>3, BillingAssumption DEF IInv, TypeOK
  <2> HIDE DEF a, b, d
  <2>5. SumFunction(a) \in Int /\ SumFunction(d) \in Nat
    BY <2>2, <2>4, SumType, SumNat
  <2> DEFINE m == (Cardinality(Requests) - 1) * Max(Quotas \union Targets \union {1})
  <2>6. Floor = -m /\ m \in Int
    BY <2>4, LimitIs, FS_CardinalityType DEF Floor, Limit
  <2> HIDE DEF m
  <2>7. tokenRemain >= -m - SumFunction(a)
    BY <2>1, <2>3, <2>4, <2>5, <2>6 DEF OverdraftInv
  <2>8. tokenRemain >= -m - SumFunction(b)
    BY <2>2, <2>7
  <2> QED
    BY <2>8 DEF m, b
<1> HIDE DEF R
<1> QED
  BY Invariance, <1>1, <1>2, <1>3, PTL DEF Spec

=============================================================================
