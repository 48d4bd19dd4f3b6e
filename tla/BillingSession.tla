--------------------------- MODULE BillingSession ---------------------------
(***************************************************************************)
(* The life of the quota of relay requests: pre-consumption, reservation,  *)
(* settlement, asynchronous refund (service/billing_session.go,            *)
(* service/funding_source.go, service/billing.go), the legacy path used by *)
(* free models, by realtime streaming and by the violation fee             *)
(* (service/quota.go, service/violation_fee.go), driven in the order of    *)
(* controller/relay.go.                                                    *)
(*                                                                         *)
(* All the requests belong to one user: they share the wallet              *)
(* (users.quota), one token (tokens.remain_quota) and one subscription     *)
(* (user_subscriptions.amount_used).  One step is one database statement   *)
(* or transaction, so the steps of different requests, and of a request's  *)
(* handler and its refund goroutine, interleave as they do in the program. *)
(* The wallet and the token are written by SQL increments, which are       *)
(* atomic.  The transactions that read, change and save the subscription   *)
(* row are one step here: what each request takes and gives back, which    *)
(* the properties are about, depends on the value they read only in        *)
(* whether there is room and in the clamp at zero; the updates of the row  *)
(* that are lost are the subject of Subscription.                          *)
(***************************************************************************)
EXTENDS Integers, FiniteSets, FiniteSetsExt, Functions

CONSTANTS
  Requests,      \* the requests (and the primary keys of their records)
  Profiles,      \* what a request may look like, a subset of Profile
  Quotas,        \* estimated prices: priceData.QuotaToPreConsume
  Actuals,       \* prices once the usage is known
  Targets,       \* targets of Reserve
  Fees,          \* violation fees, all positive
  Chunks,        \* prices of one realtime response, all positive
  MaxUsed,       \* bound on the price streamed by one realtime request
  InitUser, InitToken, InitSub,   \* initial columns
  SubTotal,      \* amount_total of the subscription, 0 means unlimited
  TrustQuota,    \* common.GetTrustQuota()
  Faults         \* what may go wrong, a subset of FaultKinds

Preferences == {"subscription_only", "wallet_only", "wallet_first", "subscription_first"}
Kinds == {"text", "free", "realtime", "task"}
Profile == [pref : Preferences, playground : BOOLEAN, unlimited : BOOLEAN, kind : Kinds]

\* a statement fails; the process dies or a handler panics; the answer of a committed
\* refund is lost; the outer transaction of a refund fails after the nested one committed
FaultKinds == {"db", "crash", "ack", "save"}

ASSUME BillingAssumption ==
  /\ IsFiniteSet(Requests) /\ Requests # {} /\ IsFiniteSet(Quotas \union Targets)
  /\ Profiles \subseteq Profile
  /\ Quotas \subseteq Nat /\ Actuals \subseteq Nat /\ Targets \subseteq Nat
  /\ Fees \subseteq Nat \ {0} /\ Chunks \subseteq Nat \ {0}
  /\ MaxUsed \in Nat /\ SubTotal \in Nat /\ TrustQuota \in Int
  /\ InitUser \in Int /\ InitToken \in Int /\ InitSub \in Nat
  /\ Faults \subseteq FaultKinds

VARIABLES
  userQuota, tokenRemain, subUsed,   \* the three columns
  record,   \* subscription_pre_consume_records: status of the row of a request
  req,      \* the request: profile, estimate, and what the token check saw at login
  ses,      \* its BillingSession (and, for the calls in progress, their argument)
  pc,       \* where its handler is
  refund,   \* its refund goroutine: where it is, the attempts that failed and, for the
            \* history, those of them that had committed the nested transaction
  ledger    \* history: net amount the request took from each column, what was
            \* billed outside the session, and whether every write succeeded

columns == <<userQuota, tokenRemain, subUsed>>
vars == <<userQuota, tokenRemain, subUsed, record, req, ses, pc, refund, ledger>>

MaxAttempts == 3   \* refundWithRetry

NoRequest == [pref |-> "wallet_only", playground |-> FALSE, unlimited |-> FALSE,
              kind |-> "text", quota |-> 0, trustedToken |-> FALSE]
NoSession == [funding |-> "none", amount |-> 0, pre |-> 0, consumed |-> 0,
              tokenConsumed |-> 0, extra |-> 0, trusted |-> FALSE,
              fundingSettled |-> FALSE, settled |-> FALSE, refunded |-> FALSE,
              delta |-> 0, reserving |-> FALSE, actual |-> 0, used |-> 0]

Init ==
  /\ userQuota = InitUser /\ tokenRemain = InitToken /\ subUsed = InitSub
  /\ record = [r \in Requests |-> "none"]
  /\ req = [r \in Requests |-> NoRequest]
  /\ ses = [r \in Requests |-> NoSession]
  /\ pc = [r \in Requests |-> "new"]
  /\ refund = [r \in Requests |-> [pc |-> "idle", tries |-> 0, torn |-> 0]]
  /\ ledger = [r \in Requests |-> [wallet |-> 0, sub |-> 0, token |-> 0,
                                   outside |-> 0, clean |-> TRUE]]

-----------------------------------------------------------------------------
(* Database statements.  n > 0 takes from the column, n < 0 gives back.     *)

\* DecreaseUserQuota / IncreaseUserQuota: quota = quota -+ n
MoveWallet(r, n, out) ==
  /\ userQuota' = userQuota - n
  /\ ledger' = [ledger EXCEPT ![r].wallet = @ + n, ![r].outside = @ + out]
  /\ UNCHANGED <<tokenRemain, subUsed>>

\* DecreaseTokenQuota / IncreaseTokenQuota
MoveToken(r, n) ==
  /\ tokenRemain' = tokenRemain - n
  /\ ledger' = [ledger EXCEPT ![r].token = @ + n]
  /\ UNCHANGED <<userQuota, subUsed>>

SubHasRoom(n) == SubTotal = 0 \/ subUsed + n <= SubTotal

\* mutant of MoveSub: the result is not clamped
MoveSubUnclamped(r, n, out) ==
  /\ SubHasRoom(n)
  /\ subUsed' = subUsed + n
  /\ ledger' = [ledger EXCEPT ![r].sub = @ + n, ![r].outside = @ + out]
  /\ UNCHANGED <<userQuota, tokenRemain>>

\* PostConsumeUserSubscriptionDelta, and the update of amount_used by
\* PreConsumeUserSubscription: the result is clamped at zero
MoveSub(r, n, out) ==
  LET new == IF subUsed + n < 0 THEN 0 ELSE subUsed + n IN
  /\ SubHasRoom(n)
  /\ subUsed' = new
  /\ ledger' = [ledger EXCEPT ![r].sub = @ + (new - subUsed), ![r].outside = @ + out,
                              ![r].clean = IF subUsed + n < 0 THEN FALSE ELSE @]
  /\ UNCHANGED <<userQuota, tokenRemain>>

\* The write to the source the request is billed to; out is the part billed outside
\* the session.  A request without a session has an empty BillingSource, which
\* PostConsumeQuota takes for the wallet.
MoveFunding(r, n, out) ==
  IF ses[r].funding = "subscription" THEN MoveSub(r, n, out) ELSE MoveWallet(r, n, out)

\* a statement of r fails and changes nothing
Fault(r) ==
  /\ "db" \in Faults
  /\ ledger' = [ledger EXCEPT ![r].clean = FALSE]
  /\ UNCHANGED columns

\* the subscription has not enough room for n: an error, but not a fault
OverTotal(r, n) == ses[r].funding = "subscription" /\ ~SubHasRoom(n) /\ UNCHANGED <<columns, ledger>>

Goto(r, l) == pc' = [pc EXCEPT ![r] = l]

-----------------------------------------------------------------------------
(* NewBillingSession: choice of the funding source and pre-consumption.     *)

\* A new session on source src for q units; trusted sessions take nothing now.
\* The wallet's PreConsume(0) and the token's are no-ops.
OpenSession(r, src, q, trusted) ==
  LET eff == IF trusted THEN 0 ELSE q
      skipToken == req[r].playground IN
  /\ ses' = [ses EXCEPT ![r] = [NoSession EXCEPT
       !.funding = src, !.amount = eff, !.trusted = trusted, !.delta = eff,
       !.tokenConsumed = IF skipToken THEN eff ELSE 0]]
  /\ Goto(r, IF eff = 0 THEN "relay" ELSE IF skipToken THEN "fund" ELSE "checkToken")

TrySubscription(r) ==
  OpenSession(r, "subscription", IF req[r].quota <= 0 THEN 1 ELSE req[r].quota, FALSE)

\* shouldTrust for a wallet session, read the balance just before
ShouldTrust(r) ==
  /\ req[r].kind # "task"          \* ForcePreConsume
  /\ TrustQuota > 0
  /\ req[r].unlimited \/ req[r].trustedToken
  /\ userQuota > TrustQuota

\* A request passes ValidateUserToken and enters NewBillingSession.
Begin(r, p, q) ==
  /\ pc[r] = "new"
  /\ p.unlimited \/ tokenRemain > 0
  /\ req' = [req EXCEPT ![r] = [pref |-> p.pref, playground |-> p.playground,
                 unlimited |-> p.unlimited, kind |-> p.kind, quota |-> q,
                 trustedToken |-> IF tokenRemain > TrustQuota THEN TRUE ELSE FALSE]]
  /\ Goto(r, CASE p.kind = "free" -> "relay"
               [] p.kind # "free" /\ p.pref = "subscription_only" -> "subscription"
               [] p.kind # "free" /\ p.pref = "subscription_first" -> "hasSub"
               [] OTHER -> "wallet")
  /\ UNCHANGED <<columns, record, ses, refund, ledger>>

\* subscription_only goes straight to trySubscription
OpenSubscription(r) ==
  /\ pc[r] = "subscription"
  /\ TrySubscription(r)
  /\ UNCHANGED <<columns, record, req, refund, ledger>>

\* subscription_first asks for an active subscription first; whether there is one
\* may change at any time (it expires, it is bought), so both answers are possible
HasActiveUserSubscription(r) ==
  /\ pc[r] = "hasSub"
  /\ \/ TrySubscription(r) /\ UNCHANGED <<columns, ledger>>
     \/ Goto(r, "wallet") /\ UNCHANGED <<columns, ledger, ses>>
     \/ Fault(r) /\ Goto(r, "rejected") /\ UNCHANGED ses
  /\ UNCHANGED <<record, req, refund>>

\* tryWallet reads the balance; wallet_first falls back to the subscription
TryWallet(r) ==
  LET enough == userQuota > 0 /\ userQuota >= req[r].quota IN
  /\ pc[r] = "wallet"
  /\ \/ enough /\ OpenSession(r, "wallet", req[r].quota, ShouldTrust(r)) /\ UNCHANGED <<columns, ledger>>
     \/ ~enough /\ req[r].pref = "wallet_first" /\ TrySubscription(r) /\ UNCHANGED <<columns, ledger>>
     \/ ~enough /\ req[r].pref # "wallet_first" /\ Goto(r, "rejected") /\ UNCHANGED <<columns, ledger, ses>>
     \/ Fault(r) /\ Goto(r, "rejected") /\ UNCHANGED ses
  /\ UNCHANGED <<record, req, refund>>

\* mutant of CheckToken: the balance is not compared
CheckTokenUnchecked(r) ==
  /\ pc[r] = "checkToken"
  /\ Goto(r, "decToken")
  /\ UNCHANGED <<columns, ledger, record, req, ses, refund>>

\* PreConsumeTokenQuota reads the token and decides ...
CheckToken(r) ==
  LET failed == IF ses[r].reserving THEN "undoReserve" ELSE "rejected"
      enough == req[r].unlimited \/ tokenRemain >= ses[r].delta IN
  /\ pc[r] = "checkToken"
  /\ \/ Goto(r, IF enough THEN "decToken" ELSE failed) /\ UNCHANGED <<columns, ledger>>
     \/ Fault(r) /\ Goto(r, failed)
  /\ UNCHANGED <<record, req, ses, refund>>

\* ... and decrements unconditionally in a second statement.
DecToken(r) ==
  LET d == ses[r].delta IN
  /\ pc[r] = "decToken"
  /\ \/ /\ MoveToken(r, d)
        /\ IF ses[r].reserving
           THEN /\ ses' = [ses EXCEPT ![r].pre = @ + d, ![r].tokenConsumed = @ + d,
                                      ![r].extra = @ + d, ![r].reserving = FALSE]
                /\ Goto(r, "relay")
           ELSE ses' = [ses EXCEPT ![r].tokenConsumed = d] /\ Goto(r, "fund")
     \/ /\ Fault(r)
        /\ Goto(r, IF ses[r].reserving THEN "undoReserve" ELSE "rejected")
        /\ UNCHANGED ses
  /\ UNCHANGED <<record, req, refund>>

\* mutant of FundingPreConsume: the record is created outside the transaction that fails
FundingPreConsumeEarlyRecord(r) ==
  LET n == ses[r].amount
      isSub == ses[r].funding = "subscription" IN
  /\ pc[r] = "fund"
  /\ record' = IF isSub THEN [record EXCEPT ![r] = "consumed"] ELSE record
  /\ \/ MoveFunding(r, n, 0) /\ ses' = [ses EXCEPT ![r].consumed = n, ![r].pre = n] /\ Goto(r, "relay")
     \/ /\ isSub
        /\ Goto(r, IF req[r].pref = "subscription_first" THEN "rollbackTry" ELSE "rollback")
        /\ UNCHANGED <<columns, ledger, ses>>
     \/ Fault(r) /\ Goto(r, "rollback") /\ UNCHANGED ses
  /\ UNCHANGED <<req, refund>>

\* funding.PreConsume; on an error the token is rolled back, and subscription_first
\* falls back to the wallet when the subscription cannot pay
FundingPreConsume(r) ==
  LET n == ses[r].amount
      isSub == ses[r].funding = "subscription" IN
  /\ pc[r] = "fund"
  /\ \/ /\ MoveFunding(r, n, 0)
        /\ record' = IF isSub THEN [record EXCEPT ![r] = "consumed"] ELSE record
        /\ ses' = [ses EXCEPT ![r].consumed = n, ![r].pre = n]
        /\ Goto(r, "relay")
     \/ /\ isSub   \* no active subscription, or none with enough room
        /\ Goto(r, IF req[r].pref = "subscription_first" THEN "rollbackTry" ELSE "rollback")
        /\ UNCHANGED <<columns, ledger, record, ses>>
     \/ Fault(r) /\ Goto(r, "rollback") /\ UNCHANGED <<record, ses>>
  /\ UNCHANGED <<req, refund>>

\* mutant of RollbackToken: the fallback starts over instead of going to the wallet
RollbackStartsOver(r) ==
  /\ pc[r] \in {"rollback", "rollbackTry"}
  /\ \/ req[r].playground /\ UNCHANGED <<columns, ledger>>
     \/ ~req[r].playground /\ MoveToken(r, -ses[r].tokenConsumed)
     \/ ~req[r].playground /\ Fault(r)
  /\ Goto(r, IF pc[r] = "rollbackTry" THEN "hasSub" ELSE "rejected")
  /\ ses' = [ses EXCEPT ![r] = NoSession]
  /\ UNCHANGED <<record, req, refund>>

\* mutant of RollbackToken: the token is not given back
RollbackForgetsToken(r) ==
  /\ pc[r] \in {"rollback", "rollbackTry"}
  /\ Goto(r, IF pc[r] = "rollbackTry" THEN "wallet" ELSE "rejected")
  /\ ses' = [ses EXCEPT ![r] = NoSession]
  /\ UNCHANGED <<columns, ledger, record, req, refund>>

\* preConsume gives the token back after funding.PreConsume failed
RollbackToken(r) ==
  /\ pc[r] \in {"rollback", "rollbackTry"}
  /\ \/ req[r].playground /\ UNCHANGED <<columns, ledger>>
     \/ ~req[r].playground /\ MoveToken(r, -ses[r].tokenConsumed)
     \/ ~req[r].playground /\ Fault(r)
  /\ Goto(r, IF pc[r] = "rollbackTry" THEN "wallet" ELSE "rejected")
  /\ ses' = [ses EXCEPT ![r] = NoSession]
  /\ UNCHANGED <<record, req, refund>>

-----------------------------------------------------------------------------
(* Reserve: raise the pre-consumption before the request is sent upstream.  *)
(* Its errors are marked SkipRetry, so a failed reservation fails the       *)
(* request.  At this commit BillingSettler offers it and no relay calls it: *)
(* the model has it as the session's promise to whoever will, and with      *)
(* Targets = {} it is never taken.                                          *)

Reserve(r, target) ==
  LET d == target - ses[r].pre
      w == IF ses[r].funding = "wallet" THEN d ELSE 0 IN
  /\ pc[r] = "relay" /\ ses[r].funding # "none"
  /\ ~ses[r].trusted /\ d > 0 /\ ses[r].used = 0
  /\ \/ /\ MoveFunding(r, d, 0)
        /\ IF req[r].playground
           THEN /\ ses' = [ses EXCEPT ![r].pre = @ + d, ![r].tokenConsumed = @ + d,
                                      ![r].extra = @ + d, ![r].consumed = @ + w]
                /\ UNCHANGED pc
           ELSE /\ ses' = [ses EXCEPT ![r].consumed = @ + w, ![r].delta = d, ![r].reserving = TRUE]
                /\ Goto(r, "checkToken")
     \/ OverTotal(r, d) /\ Goto(r, "failing") /\ UNCHANGED ses
     \/ Fault(r) /\ Goto(r, "failing") /\ UNCHANGED ses
  /\ UNCHANGED <<record, req, refund>>

\* rollbackFundingReserve, after the token refused; consumed only follows the
\* wallet when the write succeeded
UndoReserve(r) ==
  LET d == ses[r].delta
      w == IF ses[r].funding = "wallet" THEN d ELSE 0 IN
  /\ pc[r] = "undoReserve"
  /\ \/ MoveFunding(r, -d, 0) /\ ses' = [ses EXCEPT ![r].consumed = @ - w, ![r].reserving = FALSE]
     \/ Fault(r) /\ ses' = [ses EXCEPT ![r].reserving = FALSE]
  /\ Goto(r, "failing")
  /\ UNCHANGED <<record, req, refund>>

-----------------------------------------------------------------------------
(* Realtime streaming: preConsumeUsage adds the usage to the total and      *)
(* PreWssConsumeQuota bills it at once through PostConsumeQuota.  (A        *)
(* connection with a fixed price, UsePrice, is billed nothing until its     *)
(* settlement: its steps are those of a text request.)                      *)

PreWssConsumeQuota(r, n) ==
  LET enough == userQuota >= n /\ (req[r].unlimited \/ tokenRemain >= n) IN
  /\ pc[r] = "relay" /\ req[r].kind = "realtime"
  /\ ses[r].used + n <= MaxUsed
  /\ ses' = [ses EXCEPT ![r].used = @ + n, ![r].delta = n]
  /\ \/ enough /\ Goto(r, "chunkFund") /\ UNCHANGED <<columns, ledger>>
     \/ ~enough /\ Goto(r, "ending") /\ UNCHANGED <<columns, ledger>>
     \/ Fault(r) /\ Goto(r, "ending")
  /\ UNCHANGED <<record, req, refund>>

ChunkFunding(r) ==
  LET n == ses[r].delta IN
  /\ pc[r] = "chunkFund"
  /\ \/ MoveFunding(r, n, n) /\ Goto(r, IF req[r].playground THEN "relay" ELSE "chunkToken")
     \/ OverTotal(r, n) /\ Goto(r, "ending")
     \/ Fault(r) /\ Goto(r, "ending")
  /\ UNCHANGED <<record, req, ses, refund>>

ChunkToken(r) ==
  /\ pc[r] = "chunkToken"
  /\ \/ MoveToken(r, ses[r].delta) /\ Goto(r, "relay")
     \/ Fault(r) /\ Goto(r, "ending")
  /\ UNCHANGED <<record, req, ses, refund>>

-----------------------------------------------------------------------------
(* The end of a request: SettleBilling on success, Refund and then the      *)
(* violation fee on failure.                                                *)

\* mutant of SettleBilling: the difference to the estimate, not to what was pre-consumed
SettleAgainstEstimate(r, a) ==
  LET d == a - req[r].quota IN
  /\ pc[r] \in {"relay", "ending"}
  /\ req[r].kind = "realtime" => a = ses[r].used
  /\ ses' = [ses EXCEPT ![r].actual = a, ![r].delta = d, ![r].settled = (d = 0)]
  /\ Goto(r, IF d = 0 THEN "done" ELSE "settleFund")
  /\ UNCHANGED <<columns, record, req, refund, ledger>>

\* the handler has the usage and calls SettleBilling(a)
SettleBilling(r, a) ==
  LET d == a - ses[r].pre IN
  /\ pc[r] \in {"relay", "ending"}
  /\ req[r].kind = "realtime" => a = ses[r].used
  /\ ses' = [ses EXCEPT ![r].actual = a, ![r].delta = d, ![r].settled = (d = 0)]
  /\ Goto(r, IF d = 0 THEN "done" ELSE "settleFund")
  /\ UNCHANGED <<columns, record, req, refund, ledger>>

SettleFunding(r) ==
  LET d == ses[r].delta IN
  /\ pc[r] = "settleFund"
  /\ \/ /\ MoveFunding(r, d, 0)
        /\ ses' = [ses EXCEPT ![r].fundingSettled = TRUE, ![r].settled = req[r].playground]
        /\ Goto(r, IF req[r].playground THEN "done" ELSE "settleToken")
     \/ OverTotal(r, d) /\ Goto(r, "done") /\ UNCHANGED ses
     \/ Fault(r) /\ Goto(r, "done") /\ UNCHANGED ses
  /\ UNCHANGED <<record, req, refund>>

SettleToken(r) ==
  /\ pc[r] = "settleToken"
  /\ MoveToken(r, ses[r].delta) \/ Fault(r)
  /\ ses' = [ses EXCEPT ![r].settled = TRUE]
  /\ Goto(r, "done")
  /\ UNCHANGED <<record, req, refund>>

NeedsRefund(r) ==
  /\ ~ses[r].settled /\ ~ses[r].refunded /\ ~ses[r].fundingSettled
  /\ \/ ses[r].tokenConsumed > 0
     \/ ses[r].funding = "subscription" /\ ses[r].consumed > 0

\* the last attempt failed: the deferred function calls Refund, which starts the
\* goroutine.  A realtime handler never returns an error once it has streamed.
Refund(r) ==
  /\ pc[r] \in {"relay", "failing"}
  /\ ses[r].used = 0
  /\ IF NeedsRefund(r)
     THEN /\ ses' = [ses EXCEPT ![r].refunded = TRUE]
          /\ refund' = [refund EXCEPT ![r].pc = "fund"]
     ELSE UNCHANGED <<ses, refund>>
  /\ Goto(r, "fee")
  /\ UNCHANGED <<columns, record, req, ledger>>

\* ChargeViolationFeeIfNeeded runs next to the refund goroutine; RelayTask has none
ChargeViolationFee(r, f) ==
  /\ pc[r] = "fee" /\ req[r].kind # "task"
  /\ ses' = [ses EXCEPT ![r].delta = f]
  /\ \/ MoveFunding(r, f, f) /\ Goto(r, IF req[r].playground THEN "done" ELSE "feeToken")
     \/ OverTotal(r, f) /\ Goto(r, "done")
     \/ Fault(r) /\ Goto(r, "done")
  /\ UNCHANGED <<record, req, refund>>

NoViolation(r) ==
  /\ pc[r] = "fee"
  /\ Goto(r, "done")
  /\ UNCHANGED <<columns, record, req, ses, refund, ledger>>

FeeToken(r) ==
  /\ pc[r] = "feeToken"
  /\ MoveToken(r, ses[r].delta) \/ Fault(r)
  /\ Goto(r, "done")
  /\ UNCHANGED <<record, req, ses, refund>>

-----------------------------------------------------------------------------
(* The refund goroutine.                                                    *)

RefundGoto(r, l) == refund' = [refund EXCEPT ![r].pc = l]

\* an attempt of refundWithRetry failed
RefundRetry(r, torn) ==
  refund' = [refund EXCEPT ![r].tries = @ + 1, ![r].torn = @ + torn,
                           ![r].pc = IF refund[r].tries + 1 = MaxAttempts THEN "extra" ELSE "fund"]

\* WalletFunding.Refund, tried once
RefundWallet(r) ==
  /\ refund[r].pc = "fund" /\ ses[r].funding = "wallet"
  /\ MoveWallet(r, -ses[r].consumed, 0) \/ Fault(r)
  /\ RefundGoto(r, "extra")
  /\ UNCHANGED <<record, req, ses, pc>>

\* mutant of RefundSubscription: the record is not marked
RefundSubscriptionUnmarked(r) ==
  /\ refund[r].pc = "fund" /\ ses[r].funding = "subscription"
  /\ \/ /\ MoveSub(r, -ses[r].consumed, 0)
        /\ RefundGoto(r, "extra") \/ ("ack" \in Faults /\ RefundRetry(r, 0))
     \/ Fault(r) /\ RefundRetry(r, 0)
  /\ UNCHANGED <<req, ses, pc, record>>

\* SubscriptionFunding.Refund: attempts of RefundSubscriptionPreConsume, which marks
\* the record so that an attempt whose answer was lost is not applied twice.  The nested
\* PostConsumeUserSubscriptionDelta commits in a transaction of its own: when saving
\* the record fails afterwards, only the outer transaction is rolled back.
RefundSubscription(r) ==
  /\ refund[r].pc = "fund" /\ ses[r].funding = "subscription"
  /\ \/ record[r] = "refunded" /\ RefundGoto(r, "extra") /\ UNCHANGED <<columns, ledger, record>>
     \/ /\ record[r] = "consumed"
        /\ MoveSub(r, -ses[r].consumed, 0)
        /\ record' = [record EXCEPT ![r] = "refunded"]
        /\ RefundGoto(r, "extra") \/ ("ack" \in Faults /\ RefundRetry(r, 0))
     \/ Fault(r) /\ RefundRetry(r, 0) /\ UNCHANGED record
     \/ /\ "save" \in Faults /\ record[r] = "consumed"
        /\ MoveSub(r, -ses[r].consumed, 0)
        /\ RefundRetry(r, 1)
        /\ UNCHANGED record
  /\ UNCHANGED <<req, ses, pc>>

\* the part of a subscription's pre-consumption that Reserve added
RefundExtra(r) ==
  LET owed == ses[r].extra > 0 /\ ses[r].funding = "subscription" IN
  /\ refund[r].pc = "extra"
  /\ \/ ~owed /\ UNCHANGED <<columns, ledger>>
     \/ owed /\ MoveSub(r, -ses[r].extra, 0)
     \/ owed /\ Fault(r)
  /\ RefundGoto(r, "token")
  /\ UNCHANGED <<record, req, ses, pc>>

RefundToken(r) ==
  LET owed == ses[r].tokenConsumed > 0 /\ ~req[r].playground IN
  /\ refund[r].pc = "token"
  /\ \/ ~owed /\ UNCHANGED <<columns, ledger>>
     \/ owed /\ MoveToken(r, -ses[r].tokenConsumed)
     \/ owed /\ Fault(r)
  /\ RefundGoto(r, "finished")
  /\ UNCHANGED <<record, req, ses, pc>>

Ended == {"new", "done", "rejected", "lost"}

\* the process dies, or the handler panics (the deferred functions then see no error
\* and refund nothing): whatever r still had to do is not done
Crash(r) ==
  /\ "crash" \in Faults
  /\ pc[r] \notin Ended \/ refund[r].pc \notin {"idle", "finished", "lost"}
  /\ pc' = [pc EXCEPT ![r] = IF @ \in Ended THEN @ ELSE "lost"]
  /\ refund' = [refund EXCEPT ![r].pc = IF @ \in {"idle", "finished"} THEN @ ELSE "lost"]
  /\ UNCHANGED <<columns, record, req, ses, ledger>>

-----------------------------------------------------------------------------

HandlerStep(r) ==
  \/ OpenSubscription(r) \/ HasActiveUserSubscription(r) \/ TryWallet(r)
  \/ CheckToken(r) \/ DecToken(r) \/ FundingPreConsume(r) \/ RollbackToken(r)
  \/ UndoReserve(r) \/ ChunkFunding(r) \/ ChunkToken(r)
  \/ \E a \in Actuals \union {ses[r].used} : SettleBilling(r, a)
  \/ SettleFunding(r) \/ SettleToken(r)
  \/ Refund(r) \/ NoViolation(r) \/ FeeToken(r)
  \/ \E f \in Fees : ChargeViolationFee(r, f)

RefundStep(r) == RefundWallet(r) \/ RefundSubscription(r) \/ RefundExtra(r) \/ RefundToken(r)

Next ==
  \E r \in Requests :
    \/ \E p \in Profiles, q \in Quotas : Begin(r, p, q)
    \/ \E t \in Targets : Reserve(r, t)
    \/ \E n \in Chunks : PreWssConsumeQuota(r, n)
    \/ HandlerStep(r)
    \/ RefundStep(r)
    \/ Crash(r)

Spec == Init /\ [][Next]_vars

\* A handler and a goroutine that can take a step eventually take it.
FairSpec == Spec /\ \A r \in Requests : WF_vars(HandlerStep(r)) /\ WF_vars(RefundStep(r))

-----------------------------------------------------------------------------
(* Properties                                                               *)

RefundPcs == {"idle", "fund", "extra", "token", "finished", "lost"}
HandlerPcs == {"new", "subscription", "hasSub", "wallet", "checkToken", "decToken", "fund",
  "rollback", "rollbackTry", "relay", "undoReserve", "failing", "chunkFund", "chunkToken", "ending",
  "settleFund", "settleToken", "fee", "feeToken", "done", "rejected", "lost"}

RequestType == [pref : Preferences, playground : BOOLEAN, unlimited : BOOLEAN, kind : Kinds,
                quota : Nat, trustedToken : BOOLEAN]
SessionType == [funding : {"none", "wallet", "subscription"}, amount : Nat,
  pre : Nat, consumed : Nat, tokenConsumed : Nat, extra : Nat, trusted : BOOLEAN,
  fundingSettled : BOOLEAN, settled : BOOLEAN, refunded : BOOLEAN, delta : Int,
  reserving : BOOLEAN, actual : Nat, used : Nat]
RefundType == [pc : RefundPcs, tries : 0 .. MaxAttempts, torn : 0 .. MaxAttempts]
LedgerType == [wallet : Int, sub : Int, token : Int, outside : Nat, clean : BOOLEAN]

\* Columns, records, sessions and control points have the values the code gives them.
TypeOK ==
  /\ userQuota \in Int /\ tokenRemain \in Int /\ subUsed \in Nat
  /\ record \in [Requests -> {"none", "consumed", "refunded"}]
  /\ req \in [Requests -> RequestType]
  /\ ses \in [Requests -> SessionType]
  /\ pc \in [Requests -> HandlerPcs]
  /\ refund \in [Requests -> RefundType]
  /\ ledger \in [Requests -> LedgerType]

Finished(r) == pc[r] \in {"done", "rejected"} /\ refund[r].pc \in {"idle", "finished"}

\* what the session of a finished request should have cost
SessionPrice(r) ==
  IF ses[r].settled THEN ses[r].actual ELSE IF ses[r].refunded THEN 0 ELSE ses[r].pre

\* A request that ran to its end without a failed write paid exactly its price: the
\* actual usage if it was settled, nothing if it was rejected or refunded, the
\* pre-consumed quota if the subscription refused the settlement, plus what was billed
\* outside the session; and the token paid as much as the wallet or the subscription
\* (nothing for the playground), whatever fallback, trust or reservation happened and
\* whatever the other requests and the violation fee did meanwhile.
ExactCharge ==
  \A r \in Requests :
    Finished(r) /\ ledger[r].clean /\ refund[r].torn = 0 =>
      LET price == SessionPrice(r) + ledger[r].outside IN
      /\ ledger[r].wallet + ledger[r].sub = price
      /\ ledger[r].token = IF req[r].playground THEN 0 ELSE price

\* Whatever fails, and wherever the process dies, no request ever gets back more than
\* it paid from the wallet and the token; nor from the subscription, except once for
\* every attempt of refundWithRetry that committed the nested transaction of
\* RefundSubscriptionPreConsume and not the outer one, and never for the last attempt.
NeverOverRefunded ==
  \A r \in Requests :
    /\ ledger[r].wallet >= 0
    /\ ledger[r].token >= 0
    /\ ledger[r].sub >= -Min({refund[r].torn, MaxAttempts - 1}) * ses[r].consumed

\* What the fallbacks leave behind: a request is billed to one source, and a wallet
\* request never holds a subscription record.
OneSource ==
  \A r \in Requests :
    /\ ledger[r].wallet = 0 \/ ledger[r].sub = 0
    /\ record[r] # "none" => ses[r].funding = "subscription" /\ ledger[r].wallet = 0

Positive(n) == IF n > 0 THEN n ELSE 0

\* PreConsumeTokenQuota checks and decrements in two statements, so concurrent
\* requests overdraw a limited token; but by no more than one pre-consumption for
\* every other request, apart from what settlements, streams and fees took on top.
TokenOverdraftBounded ==
  (\A p \in Profiles : ~p.unlimited) =>
    tokenRemain >=
      - (Cardinality(Requests) - 1) * Max(Quotas \union Targets \union {1})
      - SumFunction([r \in Requests |-> Positive(ledger[r].token - ses[r].tokenConsumed)])

\* Every request that enters the gateway ends, and the refund of a failed one is
\* carried out, unless the process dies.
EventuallyBilled ==
  \A r \in Requests :
    pc[r] # "new" ~> /\ pc[r] \in {"done", "rejected", "lost"}
                     /\ refund[r].pc \in {"idle", "finished", "lost"}

\* Settle brings what a request paid to its actual usage: a realtime request that was
\* settled paid its usage, once.
RealtimeChargedOnce ==
  \A r \in Requests :
    Finished(r) /\ req[r].kind = "realtime" /\ ses[r].settled /\ ledger[r].clean =>
      ledger[r].wallet + ledger[r].sub = ses[r].actual
=============================================================================
