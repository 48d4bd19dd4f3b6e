# A verification development of new-api-pool

new-api-pool is an LLM gateway written in Go: clients send requests with an API
token, the gateway chooses an upstream channel, relays the request, converts
formats, and charges the user's wallet or subscription and the token. It also
runs asynchronous media tasks (video, music, images), sells subscriptions and
quota, and maintains a pool of upstream accounts.

This directory holds TLA+ models of the parts in which money moves and of the two
pages of the web interface with the most concurrency, the TLC configurations that
check them, and TLAPS proofs about them. Several
actors write the same few columns (`users.quota`, `tokens.remain_quota`,
`user_subscriptions.amount_used`, `tasks.status`) without a common transaction:
handlers, refund goroutines, polling loops on several nodes, users' queries, a
maintenance ticker. That is where an ordering nobody tested costs money, and it
is what is modelled first.

Contents: 1 inventory, 2 modules and their correspondence to the code, 3 runs,
4 bounds, 5 fairness, 6 proofs, 7 disagreements found, 8 what is not modelled,
9 plan.

## 1. Inventory

| Component | State | Operations | Interacts with | Hard behaviour | Correct when |
|---|---|---|---|---|---|
| Request billing session (`service/billing_session.go`, `funding_source.go`, `billing.go`, `violation_fee.go`) | a `BillingSession` per request: source, pre-consumed amounts, flags; `subscription_pre_consume_records` | choose source, pre-consume, reserve, settle, refund (goroutine, three attempts), violation fee | relay controller calls it; writes wallet, token, subscription | check and decrement in two statements; refund beside the fee; half-done fallbacks; a crash in the middle | every request pays its price once, from one source, and never gets back more than it paid |
| Legacy quota path (`service/quota.go`) | none of its own | token pre-consumption, post-consumption, realtime billing | used by the session, free models, realtime, fees | realtime bills by the chunk and at the end | as above |
| Relay controller (`controller/relay.go`) | request context | bill, select, relay, retry, deferred refund | everything | deferred functions on panic | each accepted request is settled or refunded |
| Asynchronous tasks (`service/task_polling.go`, `task_billing.go`, `model/task.go`) | `tasks` rows; per node a polling loop with the rows it read | sweep, poll, conditional update, bulk update, refund, settle | upstreams, users' queries, several master nodes | stale reads, lost races, a node dying between update and refund | a task is billed once; a failed one is refunded; none stays open |
| Task status queries (`relay/relay_task.go`) | none | refresh of Gemini/Vertex tasks | writes `tasks` behind the polling loop | a failure noticed by a query | as above |
| Subscription lifecycle (`model/subscription.go`, `service/subscription_reset_task.go`) | `user_subscriptions`, `users.group` | create, pre-consume, settle, refund, reset, expire, invalidate, delete | billing session; ticker; administrator | late settlement after a reset; overlapping upgrades; whole rows saved and groups set without a lock | at most the plan's quota per period; the group follows the active subscriptions |
| Quota store (`model/utils.go`, `model/user.go`, `model/user_cache.go`, `common/redis.go`; `model/token.go` alike) | columns, Redis copies, in-memory batch | change, flush, read, save a row, invalidate | every biller, payments, settings pages | goroutines at the copy in any order, a batch lost on a crash, rows saved as a whole | nothing is lost that no failure takes; the copies converge to the columns |
| Channel selection and retry (`service/channel_select.go`, `model/channel_cache.go`) | cache of abilities by group, model, priority | pick by priority and weight; next group | relay controller | a cache rebuilt while it is read | an enabled channel of the highest untried priority |
| Channel status and abilities (`model/channel.go`, `model/ability.go`) | status, per-key status | disable, enable, multi-key polling | relay errors, tests | cache and table updated apart | a disabled channel is not selected |
| Payment orders (`controller/topup*.go`, `controller/subscription_payment_*.go`, `model/topup.go`, `model/subscription.go`) | `top_ups`, `subscription_orders`; per node a map of order mutexes | check out, complete, close, complete by hand | payment gateways, administrator, wallet, subscriptions | the same callback twice, beside a manual completion or a crash | an order is credited once, for its worth, and in the end |
| Redemption codes, check-in (`model/redemption.go`, `model/checkin.go`) | rows with a status or a date | redeem, check in | wallet | as payment orders | a code is redeemed once |
| Playground page (`web/src/hooks/playground`, `web/src/pages/Playground`) | message list, copy in localStorage, one stream reference, timers, dialogs | send, stop, retry, delete, edit, clear, reset the settings, reload | the relay, by a stream or a fetch | late events that name no message, dialogs with old lists | an answer holds its own text, ends, and is stored |
| Channel table page (`web/src/hooks/channels`, `web/src/components/table/channels`) | rows, page, filters, form, request counter, spinners | load, search, page, filter, refresh, operate on a row, edit, copy | the channel API, through a GET that joins equal requests | answers out of order, lists of older renders | at rest it shows what the controls ask for |
| Account pool (`service/pool_worker.go`, `pool_health*.go`, `model/pool_recipe.go`) | jobs, recipes, instances | claim, run, save, cancel, probe | channels, alerts | whole-row saves overwrite each other | a job runs once; its final status stays |
| Rate limiters, stream scanner, Midjourney polling | windows; goroutines and channels; rows | allow, scan and stop, poll | relay | limits at the boundary; goroutines left behind | see the plan |

Adaptors (format conversion), login, registration helpers, the rest of the web
interface and settings carry no shared-state protocol of this kind and are left out.
`PROJECT.json` lists every component with its status, and the hazards with their lines.

## 2. Modules

### BillingSession

All requests belong to one user, so they share one wallet, one token and one
subscription: the worst case for interference. One step is one database
statement or one transaction.

| TLA+ | code |
|---|---|
| `userQuota`, `tokenRemain`, `subUsed` | `users.quota`, `tokens.remain_quota`, `user_subscriptions.amount_used` |
| `record` | `subscription_pre_consume_records.status` |
| `req` | the `RelayInfo` fields billing reads |
| `ses` | `BillingSession` and its `FundingSource` |
| `pc`, `refund` | the place of the handler and of its refund goroutine |
| `ledger` | history only: the net amount taken from each column, what was billed outside the session, whether every write succeeded |

`Begin` to `FundingPreConsume` and `RollbackToken` are `NewBillingSession` with its
preferences and fallbacks, `Reserve` and `UndoReserve` the reservation,
`SettleBilling`, `SettleFunding`, `SettleToken` the settlement, `Refund` and the
`Refund...` steps the goroutine with its retries, `ChargeViolationFee` and `FeeToken`
the fee, `PreWssConsumeQuota`, `ChunkFunding`, `ChunkToken` the realtime stream, `Crash`
the death of the process or a panic of the handler (the deferred functions then
see no error and refund nothing).

`Faults` chooses what may fail: `db` a statement fails and changes nothing; `ack` a
committed refund is reported as failed, so it is retried; `save` the nested
transaction of `RefundSubscriptionPreConsume` commits and the outer one does not;
`crash`. Wallet and token are written with `quota = quota ± n`, so their writes are
atomic. The subscription's transactions are single steps here: what this module accounts for
is the net amount of each request, which a race on the counter does not change. What such a race
does to the counter is the subject of `Subscription`.

`Reserve` is an operation of the `BillingSettler` interface (`relay/common/billing.go:22`) that no
relay calls at this commit; it is modelled as what the session offers, and no hazard or
mutant rests on it. `PreWssConsumeQuota` returns at once for models with a fixed price
(`UsePrice`), so chunks are those of a connection billed by tokens.

### TaskBilling

| TLA+ | code |
|---|---|
| `row` | a `tasks` row: status, progress at 100%, quota, submit time, upstream id present |
| `loc` | the polling loop of a master node: place, tasks left in this round, the statuses it read, the billing under way |
| `fetch` | a status query of a user (`tryRealtimeFetch`) |
| `paid` | history only: what the owner has paid from the funding source and the token |

The loop reads a batch (`SweepRead`, `PollRead`) and later writes each task from what
it remembers. `UpdateVideoTask` and `SweepTask` write with `UpdateWithStatus`, i.e. only
if the status is still the one read, and bill only if they won; `UpdateSunoTask`
refunds first and saves the whole row later (`SaveSunoTask`), as the code does;
`BulkFail` is `TaskBulkUpdateByID`. A refund or settlement is two writes,
`AdjustFunding` and `AdjustToken`. `Guarded(t)` singles out the tasks whose only
writers are conditional updates: not Suno, not the Gemini/Vertex tasks a query may
write, not those the bulk update fails. `FetchWrite` is the query: its update is conditional on the
status it read and it never leaves SUCCESS, but it may bring a task back that the sweep has
failed and refunded, and a later failure then refunds it again.

### Subscription

| TLA+ | code |
|---|---|
| `sub` | `user_subscriptions`: status, plan, start, end, used, last and next reset, previous group |
| `group` | `users.group` |
| `record`, `open` | pre-consume records, and requests still to be settled or refunded |
| `now` | the database clock |
| `tx` | the transaction a client (request, order, administrator, task) has begun: the instant, the rows and the group it read, and what it will write |
| `spent` | history only: what the requests of a subscription have cost, over all periods |
| `raced`, `overlooked` | history only: rows saved over a change the transaction had not read; upgrades not seen by the transaction that set the group |

Creation, pre-consumption (with the reset it may trigger), settlement, refund,
`ResetDueSubscription`, `ExpireDueSubscriptions`, `AdminInvalidateUserSubscription`
and `AdminDeleteUserSubscription` are transactions of two steps each: one reads and decides,
the other writes, and those of other clients fall in between. The code asks for a row lock
with `Set("gorm:query_option", "FOR UPDATE")`, an option the gorm version of `go.mod` does not
read, and the code of the groups asks for none. A save writes the whole row as it was read, with
its change, and brings back one that was deleted; the settlement's check and the steps of a
group are decided on what was read. Calendar periods are instants divisible by the period; a custom period is
counted from the last reset. The loop of `maybeResetUserSubscriptionWithPlanTx` is the
set `Boundaries` of instants it visits.

### PaymentOrder and OrderLedger

| TLA+ | code |
|---|---|
| `kind`, `status` | provider and status of a `top_ups` or `subscription_orders` row |
| `gateway`, `acked` | what the gateway knows of the checkout, and whether its notice was acknowledged (external) |
| `orderLocks`, `refCount`, `mu` | `orderLocks` and the `refCountedMutex`es of a node |
| `hs` | the handlers: callback or manual completion, its place, the mutex it looked up |
| `wallet`, `bound` | the quota credited; a plan given without an order |
| `credits`, `approved` | history only |

`Place`, `Checkout`, `CheckoutFails` open an order in the order of statements of each
provider; `Deliver` starts a handler for a notice, which goes through `Lookup` and
`Lock` (`LockOrder`), `Read`, for subscriptions `Count` and `Upsert`, then `Commit`
(`Recharge*`, `ManualCompleteTopUp`, `CompleteSubscriptionOrder`), `EpaySave` and
`EpayCredit`, or `Close`, and through `Unlock`, `Release` (`UnlockOrder`) to `Reply`. An
answer leaves the process when the handler returns, so `Reply` comes last. As the row lock
the transactions ask for has no effect (see Subscription), reading and committing are two
steps. `DbError` and `Crash` strike anywhere. `ReadError` is the error that is taken for an order
that does not exist: the webhooks for Creem subscriptions and for Waffo Pancake then answer
200, and the order is in `misread`. Any state of a Waffo payment but success
is sent as a failure (`Sends`).

`OrderLedger` is the promise: an order has a worth, becomes due by payment or approval,
and a due order adds its worth to the wallet at most once. `ImplementsLedger` states
that `PaymentOrder` implements it, with `due` mapped to the orders paid at the gateway
or approved, `fulfilled` to those with a credit and `worth` to what a callback credits for
that kind.

### QuotaStore

| TLA+ | code |
|---|---|
| `column` | `users.quota` |
| `copy` | the hash of the user in Redis: remaining life in half seconds, the field `Quota`, whether the other fields are there |
| `store`, `batch` | `batchUpdateStores` of a process, and the map `batchUpdate` has taken out |
| `worker`, `job` | a handler and the goroutine it has started for the copy |
| `wallet`, `lost` | history only: the accepted changes, and what failures and saved rows took |

`IncreaseUserQuota` (with negative changes `DecreaseUserQuota`) and `WriteColumn` change the
wallet, `SwapStore` and `WriteBatch` are the batch updater, `Credit` a payment that knows
nothing of the copy, `Miss`, `Load`, `LoadQuota` a read, `GetUserById` and `UpdateUser` a page
that saves the whole user. `RedisHSetObj`, `AskTtl` and `Exec` are what the goroutines do: a
copy is filled at once, but a field is changed in two round trips (`TTL`, then the command with
`EXPIRE`), with the answer of `TTL` rounded to seconds: in the last half second of a copy it is
0, and the change is dropped.

### Playground

One step is one task of the browser's event loop. `msgs` is the list on the screen, `stored`
the one in localStorage, `saves` and `resends` the pending timers, `net` the requests and
`sseRef` the one `sseSourceRef` can close, `modal` and `editing` the dialog and the edit
box with what they remember; `unsaved` and `odd` are history. `Chunk`, `Done`, `ParseError`,
`SseError`, `StreamCut`, `FetchEnds`, `FetchHollow` are the network; `Send`, `Stop`, `Reset`,
`Delete`..., `Edit`..., `RoleToggle`, `Clear`, `ConfigReset`, `ConfigResetAll`, `LanguageChange`,
`Reload` the user; the rest timers. A text is the set of requests it came from, 0 standing for
the greeting of the default messages.

`StreamCut` is a stream that is closed without `[DONE]` and without an error event: no handler
acts on it, as the one for `readystatechange` looks for a status other than 200, and the
answer stays loading. `SaveTimer` may be refused by localStorage, which `saveMessages` swallows.
`ConfigReset` resets the settings and keeps the messages on the screen, while the stored ones are
removed; `ConfigResetAll` replaces them by the default ones a moment later (`DefaultTimer`).
`bare` says that nothing is stored, so that a page loaded now shows the default messages, and
`fresh` that this one was loaded so, in which case a change of the language shows them again.

### ChannelTable

`lists` holds every list the page has had, since operations on rows keep and put back the
one of their render; `shown` is the one on the screen. `calls` are the
`loadChannels` and `searchChannels` that wait, `wire` the GET requests they share
(`patchAPIInstance`), `rowCalls` the operations on rows. The server (`controller/channel.go`)
answers from its table between request and answer (`Serve`, `RowServe`): the deletion of a channel
that is gone succeeds, the other operations refuse it. A load is numbered by `counter`, a
search is not. A page holds `PageSize` of the rows that match; which ones is left open, as it
depends on priorities and on the sort order. `RefreshClick` passes its click event as
the page (`ClickEvent`), for which the server answers with the first one (`PageServed`), and with
search terms the event becomes the active page. A channel that was edited or copied is followed
by a refresh (`EditAnswer`). After a deletion the code sets a timer of 100 ms as well
(`ChannelsColumnDefs.jsx:706-710`), which asks whether the list its row was clicked in is empty;
as that never is, it is left out.

In both pages the set `odd` records that an irregular thing has happened (an overlap, a stale
render, a lost answer, a stream cut off), and the properties name the irregularities they exempt.
For the invariants of the table, `OwnTextOnly` and `ThrowsOnlyWhenCleared` TLC finds a violation
when any one of the exemptions is removed, for the stale dialogs of the playground only beyond
the bounds of the run (six acts, three requests); `AnswerEnds` exempts every irregularity at
once. An empty search term of the table is written `"none"`, as the provers have no empty string.

### How they fit

`BillingSession` sees the subscription as one counter with a total; `Subscription`
opens that counter (periods, expiry, several subscriptions, groups) and abstracts a
request to pre-consume, then settle or refund. `TaskBilling` starts where a task request
of `BillingSession` has been settled. `QuotaStore` opens the wallet that `BillingSession` and
`PaymentOrder` write as one column: its `IncreaseUserQuota` is their wallet move, its
`Credit` their credit. The MC modules only name constants and symmetry sets.

## 3. Runs

| Run | Properties | Shows |
|---|---|---|
| `billing_race` | `ExactCharge`, `TokenOverdraftBounded` | Two requests race on a small wallet, token and subscription; each pays exactly its price. The token is overdrawn, as its check is a statement of its own, by at most one pre-consumption per other request. |
| `billing_kinds` | `TypeOK`, `NeverOverRefunded`, `ExactCharge`, `OneSource`, `EventuallyBilled` | One request of every preference, kind and flag, with failures, lost answers, half-committed refunds and crashes at every point. It is billed to one source; retried refunds return no more than was paid, but for one amount per half-committed attempt; requests end and refunds are carried out. |
| `task_video` | `BilledAtMostOnce`, `FailedTaskRefunded`, `TerminalIsFinal` | Two nodes with stale reads, failures and restarts: the conditional update picks one biller. |
| `task_mixed` | `TypeOK`, `TokenFollowsFunding`, `EventuallyTerminal` | Gemini and Suno tasks with queries, missing channels and ids, failed inserts, failing statements and restarts: source and token agree, and no task stays unfinished, also where a query revives one. |
| `sub_quota` | `TypeOK`, `PeriodQuota`, `NeverOvercharged`, `KeepsUpgrade`, `DueExpires` | Two transactions at a time, unlocked: settlements and refunds that fall after a reset neither enlarge the plan nor charge for more than was spent, but for rows a stale save went over; overlapping upgrades survive each other's end, but for upgrades the ending transaction could not see; what has ended is expired. |
| `payment_node` | `TypeOK`, `CreditOnce`, `OrderLockExclusive`, `FinalStatusStays`, `ImplementsLedger`, `PaidIsFulfilled` | An order of every kind on one node, repeated notices, manual completion and a fault: it implements the ledger, the counted mutexes exclude, and where the answer tells the gateway of a failure a paid order is fulfilled in the end; orders that were misread, and Waffo orders closed by an early notice, are the exceptions. |
| `quota_store` | `TypeOK`, `WalletExact`, `CopyFollows`, `CopyConverges` | Two processes with a batch each: only crashes, failed batches and saves of old rows lose anything; a living copy follows every change in any order of goroutines, but for those that come in its last half second; once changes stop, a wrong or partial copy disappears for good although reads go on. |
| `playground_page` | `TypeOK`, `OwnTextOnly`, `StoredWhenDone`, `ThrowsOnlyWhenCleared`, `LateEventsHarmless`, `AnswerEnds` | Late events leave finished answers alone; answers do not mix, are stored and end, but for the cases named. |
| `channel_table` | `TypeOK`, `ShowsWhatIsAsked`, `DeletedGone`, `SpinnerStops` | The table at rest shows the page and filter of the controls and no deleted channel, and the spinner stops, but for the cases named. |
| `billing_realtime`, `task_fetch`, `sub_renew` | one each | The disagreements of section 7. |

Distinct states: `billing_race` 91,784, `billing_kinds` 67,313, `task_video` 355,008,
`task_mixed` 132,750, `sub_quota` 652,166, `payment_node` 155,423, `quota_store` 156,087,
`playground_page` 883,358, `channel_table` 457,172; every state space is exhausted.

`CHECK_DEADLOCK FALSE` is set where the finite supply of requests, orders or acts of the
user, or the clock, runs out: the system then has nothing left to do.

Every property of a passing run has a mutant in `PROJECT.json`: a plausible slip in
the code (a dropped rollback, a lost race that bills anyway, a clamp left out) under
which TLC finds it violated.

## 4. Bounds

- Requests: two. The interference is pairwise: a request meets another one, or its
  own goroutine. One request is enough for the matrix of kinds and faults.
- Prices: an estimate, an actual price below and one above it, and zero. Columns are
  set so that one request fits and two do not.
- `MaxUsed` bounds the realtime stream to a few chunks; `MaxAttempts = 3` is the code's.
- Tasks and nodes: two each, one user's query. Two nodes give every race for a task;
  the second task lets a loop be stale on one while it bills another.
- `MaxOverRefund` stops the repeated refunds of a Suno or revived task after the first one too
  many; it does not restrict guarded tasks.
- `MaxTime`, `MaxSubs`: a clock of four instants sees two resets, an end inside and at a
  boundary, and a renewal; two subscriptions overlap in every order. `MaxTx = 2`: races are
  pairwise. `MaxRaces = 1`: after the first row or upgrade a race has hit only the maintenance
  task goes on, as what is exempt from then on is not worth exploring. `MaxEnded = 1`.
- One order, two handlers, one fault: orders share nothing but the purchase limit,
  which `AdminBind` exercises, and the lock is pairwise. One node, because the code has
  nothing that works across nodes (section 7).
- Two workers in two processes, two changes and one fault, a life of two seconds: a fill,
  an increment and an invalidation or expiry meet in every order.
- Two requests and four acts of the user in the playground: send, stop or reset, send
  again, with a dialog in between. A first visit, which shows the default messages, begins with
  two acts used up (`SpentFirst`): a request and a change of the language, or a reset and a reload.
- Three acts in the channel table, over three channels on two pages of one row: one is on, one
  off (`OffIds`), one does not exist until a copy is made (`NewIds`).

The bounds do not matter for what section 6 proves.

## 5. Fairness

- `BillingSession!FairSpec`: weak fairness of each handler and refund goroutine. Nothing
  they wait for is withheld: every call returns, with an error at worst. `Begin`,
  `Reserve`, the chunks of a stream and `Crash` have none.
- `TaskBilling!FairSpec`: weak fairness of each polling loop (`for { sleep; ... }`), strong
  fairness of a sweep that finds everything unfinished overdue, and, for each task, of a sweep
  whose update goes through: the database does not refuse one task for ever. The sweep's
  fairness is the passage of time: it needs `TaskTimeoutMinutes > 0`, without which the code
  does not sweep and a task no upstream ends stays open. Upstream answers have no fairness.
- `Subscription!FairSpec`: weak fairness of the clock, of transactions under way, which
  finish, and of the maintenance task, which runs on a ticker on the master node.
- `PaymentOrder!FairSpec`: weak fairness of each handler, strong fairness of its `Lock` (a Go
  mutex starves nobody), and strong fairness of the delivery of a paid order's notice
  until it is acknowledged, which is what the gateways promise. Manual completion, failures
  and faults have none.
- `QuotaStore!FairSpec`: weak fairness of handlers and goroutines, of the batch updater
  (`for { sleep; ... }`) and of the clock of Redis. Reads and changes have none.
- `Playground!FairSpec`: every request ends, at worst with an error or without a word (time-outs of
  browser and gateway), and the save timer fires. `ChannelTable!FairSpec`: every GET is served and
  answered. What the user does has no fairness.

## 6. Proofs

Every theorem holds for all values of the constants that satisfy the assumption of its
module. The assumptions give the constants their types and say that the sets of requests,
polling loops, workers and handlers, and of the prices, are finite, and that there is a
request. Where more is needed it is a hypothesis of the theorem.

| Module | Theorems | Hypotheses |
|---|---|---|
| `BillingSessionProofs` | `TypeCorrect`, `ChargedExactly` (`ExactCharge`), `NotOverRefunded` (`NeverOverRefunded`), `BilledToOneSource` (`OneSource`), `OverdraftIsBounded` (`TokenOverdraftBounded`) | the last: `InitToken >= 0` |
| `TaskBillingProofs` | `TypeCorrect`, `BilledOnce` (`BilledAtMostOnce`), `FinalStatus` (`TerminalIsFinal`), `FailureRefunded` (`FailedTaskRefunded`), `TokenAgrees` (`TokenFollowsFunding`) | |
| `SubscriptionProofs` | `TypeCorrect`, `ChargedForSpent` (`NeverOvercharged`), `QuotaPerPeriod` (`PeriodQuota`), `UpgradeIsKept` (`KeepsUpgrade`) | `UpgradeIsKept`: no plan upgrades to the user's first group (`Upgrades`) |
| `PaymentOrderProofs` | `TypeCorrect`, `LockExcludes` (`OrderLockExclusive`), `CreditedOnce` (`CreditOnce`), `StatusStays` (`FinalStatusStays`), `OrdersImplementLedger` (`ImplementsLedger`) | the last three: `OneNode`; the last also `CreemByGateway` |
| `QuotaStoreProofs` | `TypeCorrect`, `WalletIsExact` (`WalletExact`), `CopyIsFollowed` (`CopyFollows`) | |
| `PlaygroundProofs` | `TypeCorrect`, `AnswersDoNotMix` (`OwnTextOnly`), `StoredAtRest` (`StoredWhenDone`), `ThrowsRarely` (`ThrowsOnlyWhenCleared`), `LateEvents` (`LateEventsHarmless`) | |
| `ChannelTableProofs` | `TypeCorrect`, `ScreenAgrees` (`ShowsWhatIsAsked`), `NoDeletedRows` (`DeletedGone`) | |
| `SumTheorems` | `SumType`, `SumUpdate`, `SumNat`, `SumZero`, `SumOfOthers`, `MaxOfFinite` | the domain is finite |

Each proof module has an `IInv` with `Init => IInv` and `IInv /\ [Next]_vars => IInv'`
(`Invariance`), one lemma per action, and the theorems follow from it.

**Requests.** What a request has paid is a function of its own place, session and refund
goroutine; the columns it shares with the others do not enter. So `IInv` says, for one
request at each place of the handler, how much of its session is on the ledger of each
column (`ExactCharge` alone speaks only of finished requests and is far from inductive),
which of the two writes of a settlement or refund has happened, and what a torn refund
may have returned. The step lemmas are about one request; the others are not touched.
The overdraft of the token is about all requests at once. `OverdraftInv` looks at the
headroom: what remains, plus what was taken beyond the pre-consumptions, minus the
decrements that have been checked and not made. A check that passes saw at least its own
amount, so after it the headroom is short by the amounts due from the others at most, one
for each (`SumOfOthers`); every later write moves two of the three terms together. It needs
a token that starts without debt, which `controller/token.go:180` ensures at creation.

**Tasks.** `BilledAtMostOnce` is not inductive: from a state with two loops billing one
task the next two steps break it. Every status a loop remembers is an open one (part of
`TypeOK`), so once a task is finished every outstanding conditional update fails; for a
guarded task there is at most one biller, the amount it has still to move follows from
the row, and the account shows exactly the part not yet moved (`BillerInv`); and a task
nobody is billing has one of the amounts its status allows (`PaidInv`).
`FailureRefunded` carries a second inductive invariant, since the refund is owed only if
no write failed and no node died while billing. `TokenAgrees` is about every platform:
several loops may bill a Suno task, so the invariant is that the funding source is ahead of
the token by the sum of what the loops between their two writes still owe it.

**Subscriptions.** `Fits` relates a row to what its requests have cost: what it counts as
used was spent, and the rest fits into the periods that are over, which are counted by
the boundaries up to the beginning of the current one. A reset moves that beginning to
a later boundary, so at least one more period is over (`BoundaryPassed`; for custom
periods the beginning stays on the grid of the start). A settlement after a reset lowers
`used` no further than zero: that this never makes `spent` smaller than `used` needs
`Covered`, that the sum of what open requests hold of a subscription has been spent.
`Issued` says that ids are given in order, so that a new row is a fresh one. As a transaction
writes what it decided earlier, `TxInv` carries its decision along: what a transaction under way
has checked of the rows it read is still true of them, whether or not they are still those of
the table. If they are, the check holds for the table too; if they are not, its save puts them into
`raced`. The theorems thus say that a lost update is the only way to spend more than the plan has,
or to be charged for more than was spent, and for the groups that a reset of the group is only
wrong where the upgrade was not there, or not alive, when the transaction read.

**Orders.** `LockInv`: a mutex in the map is that of one order, its count is the number of
handlers that point to it, a handler between `Lookup` and `Release` points to the mutex
that is in the map for its order, and a locked mutex has one holder. The proof showed that
names of mutexes must not be used again while a handler still has the pointer: a new one is
now taken from those nobody points to (`InUse`), as an address the garbage collector has not
freed. `CreditInv`: an order with credits has a final status, and what a handler holding
the lock has read is still so. It needs `OneNode`, as the lock works within a process
(section 7). `CreemByGateway` excludes manual completions of Creem orders, which credit
another amount than the callback (section 7). The refinement is proved action by action:
commits and credits are steps of `OrderLedger`, all others leave its state alone.

**Quota store.** `WalletExact` is inductive together with the types and with `Quiet`: a
handler that loads or saves a row has no goroutine at the copy. `CopyFollows` is proved
in the same step lemmas, since both are about sums that one worker or process changes.

**Playground.** `Saved`: the list that localStorage will have after the pending timers is the
one on the screen, unless a save was refused or the settings reset since (`unsaved`).
`OneRequest`: without an overlap one request is open, and a stream that is open is the one
`sseSourceRef` can close. `Live`: in a regular history an open stream has a message being
generated, so that the list is not empty when its end is handled. `Own`: the texts are apart on
the screen and in every copy of the list (storage, timers, the edit dialog), and the last
message takes no text or is that of the open request. Buttons work only while nothing is
generated, and what they leave are messages of the list (`From`), so the last message takes no
text then either. The proof failed at first, for two good reasons, each confirmed by TLC beyond
the bounds then used: a dialog opened before a timer started an answer may be confirmed while it
is generated, and an answer without choices leaves a message loading, which a dialog can make
the last one again. Both are now on record as `"stale"` whenever any message is being generated,
and exempted by `OwnTextOnly` and `ThrowsOnlyWhenCleared`. Deletion by id is a recursive
function (`WithoutId`), since the provers know nothing of `SelectSeq`.

**Channel table.** The answer that will be shown is that of a search or of the newest load.
`Asks`: its query is answered with the page of the controls and has their filter, and if none is
under way the list on the screen has them. A click event counts as the first page, and is never
the active one unless the history says so (`"unpaged"`). `Deletes`: of a channel that is gone
from the server's table, the deletion has yet to be answered (and will ask for a list), or the
list to be shown next was not read before the deletion. `CallsOK` has what makes "the newest"
unique.

**Sums.** `SumFunction` folds a function in an order `CHOOSE` picks. `SumTheorems` proves
that a change of one value changes the sum by as much. The library's induction theorems take
a predicate as a parameter, which the provers cannot instantiate; `NatSet` states
induction for a set instead, derived from the existence of minimal elements (`WFMin`).

TLC checked every inductive invariant before it was proved, on the instances of
section 3 and, for the order lock, on three handlers.

Every invariant and action property of a passing run is also a theorem. Only
model-checked: the liveness properties, which are out of the prover's reach
(`EventuallyBilled`, `EventuallyTerminal`, `DueExpires`, `PaidIsFulfilled`,
`CopyConverges`, `AnswerEnds`, `SpinnerStops`).

## 7. Disagreements between code and its documentation

Each is a run that TLC violates, on purpose; the quotations are in `PROJECT.json`.

1. `billing_realtime`: a realtime connection is billed per response and again for its
   total at settlement.
2. `task_fetch`: a failure first seen by a user's status query is never refunded.
3. `sub_renew`: renewing an upgrade leaves the user upgraded for ever after both
   subscriptions have ended.

More were met while modelling and are in the models, without a run of their own:

- `RefundSubscriptionPreConsume` is documented as idempotent (`model/subscription.go:1074`), but
  the quota moves in a transaction of its own before the record is saved; a failed save and
  a retry refund twice. `NeverOverRefunded` allows exactly that (`refund[r].torn`).
- A Suno task is refunded before its row is saved, so a failed save leads to a second
  refund (`UpdateSunoTask`, `SaveSunoTask`; `service/task_polling.go:237`).
- Tasks failed by the bulk update, whose comment forbids that use (`model/task.go:421`),
  are never refunded (`BulkFail`; `service/task_polling.go:119` and `:314`).
- The legacy cut-off 1740182400 is in February 2025, its comment says 2026
  (`LegacyTaskCutoff`; `service/task_polling.go:51`).
- `ManualCompleteTopUp` says that it locks the row (`model/topup.go:335`), and
  `CompleteSubscriptionOrder` that it is idempotent (`model/subscription.go:509`). The lock has
  no effect (section 2), and `LockOrder` works within one process: with two nodes
  (`Nodes = {n1, n2}` in `MCPaymentNode.cfg`) `CreditOnce` fails.
- `ManualCompleteTopUp` multiplies the amount of a Creem order by `QuotaPerUnit`, although
  such an order stores the quota itself (`model/topup.go:358` and `:424`): with `"creem"`
  in `ManualKinds`, `ImplementsLedger` fails.
- A Waffo notice of any status but success marks a pending order as failed
  (`controller/topup_waffo.go:383`), although the comment speaks of final failures only, and
  without the order lock; Waffo is exempt from `FinalStatusStays`, and a Waffo order that was
  closed before it was paid from `PaidIsFulfilled`.
- An error in the read of an order is reported as an order that does not exist
  (`model/subscription.go:527`, `service/waffo_pancake.go:169`), which the webhook of Creem answers
  with 200 for a product that is sold as a subscription, and that of Waffo Pancake for every
  order: the gateway does not notify again. `PaidIsFulfilled` exempts the orders in `misread`,
  and fails without that.
- The row lock of a subscription has no effect (section 2), so updates get lost. Without
  the exemption of `raced`, `PeriodQuota` fails by two pre-consumptions, or a settlement and a
  pre-consumption, that read the same count, and `NeverOvercharged` by a refund that saves its row
  before a pre-consumption saves an older one. `KeepsUpgrade` fails
  without its exemptions by an invalidation that read before a purchase committed, and by a
  pre-consumption whose save makes an invalidated subscription active again.
- Epay top-ups save the status and credit the user in two statements
  (`controller/topup.go:387`, `:397`); a crash in between loses the credit. Epay and Stripe are
  answered with success whatever happens, so they are exempt from `PaidIsFulfilled`.
- `User.Update` writes the quota that was read with the row (`model/user.go:506`): changing the
  language or the billing preference during a charge or a payment undoes it.
- `RedisHIncrBy` and `RedisHSetField` re-create a copy that vanished between their two round
  trips, with one field (`common/redis.go:289`); `middleware/auth.go:374` then takes the user
  for disabled until the copy expires. They write back the life rounded to seconds, so a copy
  that changes more than twice a second does not expire. And in the last half second `TTL` is 0
  and the change is dropped, although the copy is still read (`common/redis.go:285`);
  `CopyFollows` names that cause, and fails without it.
- Message ids of the playground are called unique (`web/src/helpers/utils.jsx:335`) and start
  over after a reload, while deleting, editing and switching roles go by id: two
  messages may be deleted at once.
- A fetch that was stopped answers into the next loading message (`useApiRequest.jsx:255`);
  clearing the list under a stream makes its end throw (`:141`).
- A stream that ends without `[DONE]` and without an error, as `relay/channel/ollama/stream.go:91`
  and `:177` end it, leaves the answer loading until the user stops it; `AnswerEnds` exempts it
  (`"cut"`) and fails without that.
- `saveMessages` swallows what localStorage refuses (`configStorage.js:54`), and the reset of the
  settings that says it keeps the messages removes the stored ones (`ConfigManager.jsx:127`): a
  reload before the next save loses them. `StoredWhenDone` exempts both (`unsaved`).
- The channel table puts back old rows after an operation (`useChannelsData.jsx:483`), leaves
  the spinner on when a load is rejected (`:349`), and refreshes after a deletion from a GET
  sent before it (`helpers/api.js:69`).
- The refresh button of the table passes the click event as the page (`ChannelsFilters.jsx:61`):
  the first page is shown under a paginator on another one. `ShowsWhatIsAsked` exempts such clicks
  (`"unpaged"`), and fails without that.

## 8. Abstractions and limits

- `BillingSession` and `PaymentOrder` read columns up to date; the Redis copies and the batch
  updater, which delay reads and writes, are the subject of `QuotaStore`.
- `QuotaStore` has one user; an entry of the batch that sums up to nothing counts as no
  entry; the administrator's absolute override of a quota is not there. Without Redis all
  steps at the copy vanish, without the batch every change is written at once.
- Subscription transactions are single steps in `BillingSession`, and reads and writes that others
  come between in `Subscription`. A database that detects such conflicts (SERIALIZABLE, or
  SQLite's single writer) would abort some of them; the code does not ask for that.
- Statements of a subscription transaction fail in `BillingSession`, not in `Subscription`.
- Task settlement at submission is taken as successful; its failure is only logged
  (hazard at `controller/relay.go:568`).
- A polling loop does not revive a finished task: it only asks for unfinished ones.
- A task whose token has been deleted is counted as a failed write.
- Prices are opaque numbers; price computation, logs, notifications, statistics, and
  data of upstream answers other than status, progress and price are left out.
- Plans are constant; purchase by balance, the clean-up of old records and the plan and
  group caches are not modelled.
- `PaymentOrder` leaves out signatures (a forged notice is never accepted), amounts other than
  one, the money paid, and notices for unknown orders or of another provider, which all
  handlers refuse first.
- `Playground` leaves out the custom request body, images, configuration import, the debug
  panel and the thinking state; it starts from an empty list or from the default messages of a
  first visit. `ChannelTable` leaves out page size and sort order, tag mode, batch
  operations and the model test dialog.

Not modelled, and why: channel selection and the status of channels, the account pool, rate
limiters, Midjourney polling and the stream scanner are planned; redemption codes and check-ins
are single transactions; adaptors, login, mail and SMS helpers, the remaining pages and the
settings have no protocol between actors.

## 9. Plan

Modules, in this order:

1. `ChannelSelect` and `ChannelStatus`: priorities, groups and retries over a cache that is
   rebuilt concurrently (`model/channel_cache.go:21`); multi-key status; a disabled channel is
   eventually not selected.
2. `PoolWorker`: job claim, whole-row saves against cancellation (`model/pool_recipe.go:173`),
   health probes.
3. Redemption codes and purchases by balance, which rely on the same row lock.
4. `RateLimit`, the stream scanner's goroutines, Midjourney polling, the model test dialog.
5. `Charge`: an abstract account of one charge (open, then settled or refunded once), with
   `BillingSession` and guarded tasks of `TaskBilling` shown to implement it.

Theorems: with each module its type invariant and safety invariants, and the refinement of
`Charge`, step by step, from the invariants that `BillingSessionProofs` and
`TaskBillingProofs` already have. Liveness stays with TLC.
