----------------------------- MODULE TaskBilling -----------------------------
(***************************************************************************)
(* Billing of asynchronous tasks after they were accepted: the polling     *)
(* loops (service/task_polling.go) of one or several master nodes, the     *)
(* time-out sweep, the conditional row update that decides who bills       *)
(* (model/task.go), the two writes of a refund or of a settlement          *)
(* (service/task_billing.go) and the status queries of users that refresh  *)
(* Gemini and Vertex tasks on the way (relay/relay_task.go).               *)
(*                                                                         *)
(* One step is one database statement.  A polling loop works on the rows   *)
(* it read at the beginning of its round, which may be stale by the time   *)
(* it writes.                                                              *)
(***************************************************************************)
EXTENDS Integers, FiniteSets

CONSTANTS
  Tasks, Pollers, Fetchers,
  Platform,      \* [Tasks -> {"video", "gemini", "suno"}]
  Quotas,        \* prices settled at submission (result.Quota)
  Actuals,       \* prices found at completion, 0 when there is none
  SubmitTimes,   \* unix times at which tasks may have been submitted
  MaxOverRefund, \* bound: how far over-refunds of Suno and of revived tasks are followed
  Faults         \* subset of {"db", "crash", "channel", "null", "insert"}

Open == {"NOT_START", "IN_PROGRESS"}     \* SUBMITTED and QUEUED behave as IN_PROGRESS
Terminal == {"SUCCESS", "FAILURE"}
Status == Open \union Terminal
Answers == Status \ {"NOT_START"}       \* what an upstream may answer
LegacyTaskCutoff == 1740182400
FaultKinds == {"db", "crash", "channel", "null", "insert"}

ASSUME TaskAssumption ==
  /\ Platform \in [Tasks -> {"video", "gemini", "suno"}]
  /\ "none" \notin Tasks
  /\ IsFiniteSet(Pollers)
  /\ Quotas \subseteq Nat /\ Actuals \subseteq Nat /\ SubmitTimes \subseteq Nat
  /\ MaxOverRefund \in Nat
  /\ Faults \subseteq FaultKinds

VARIABLES
  row,     \* the tasks table: status, whether progress is 100%, quota, submit time, upstream id
  loc,     \* the polling loop of a node: its place, the tasks left in this round, the
           \* statuses it read, and the billing in progress
  fetch,   \* the status query of a user
  paid     \* history: what a task's owner has paid for it, from the funding source and
           \* from the token, and whether every write about it succeeded

vars == <<row, loc, fetch, paid>>

NoRow == [status |-> "absent", done |-> FALSE, quota |-> 0, submitted |-> 0, upstream |-> FALSE]
NoJob == [task |-> "none", delta |-> 0, save |-> "none", back |-> "idle"]
Idle == [pc |-> "idle", todo |-> {}, seen |-> [t \in Tasks |-> "NOT_START"], job |-> NoJob]

Init ==
  /\ row = [t \in Tasks |-> NoRow]
  /\ loc = [p \in Pollers |-> Idle]
  /\ fetch = [f \in Fetchers |-> [pc |-> "idle", task |-> "none", seen |-> "NOT_START"]]
  /\ paid = [t \in Tasks |-> [fund |-> 0, token |-> 0, clean |-> TRUE]]

Fault(t) == "db" \in Faults /\ paid' = [paid EXCEPT ![t].clean = FALSE]

-----------------------------------------------------------------------------

\* RelayTask after the upstream accepted: the session is settled at q and the row is
\* inserted; when the insertion fails only a log line remains.
Submit(t, q, time) ==
  /\ row[t].status = "absent" /\ paid[t].fund = 0
  /\ paid' = [paid EXCEPT ![t] = [fund |-> q, token |-> q, clean |-> TRUE]]
  /\ \/ \E up \in (IF "null" \in Faults THEN BOOLEAN ELSE {TRUE}) :
          row' = [row EXCEPT ![t] = [status |-> "NOT_START", done |-> FALSE, quota |-> q,
                                     submitted |-> time, upstream |-> up]]
     \/ "insert" \in Faults /\ q > 0 /\ UNCHANGED row
  /\ UNCHANGED <<loc, fetch>>

\* mutant of Unfinished: finished tasks are read as well
UnfinishedOrNot == {t \in Tasks : row[t].status # "absent"}

\* GetAllUnFinishSyncTasks / GetTimedOutUnfinishedTasks
Unfinished == {t \in Tasks : row[t].status \in Open /\ ~row[t].done}

\* a round of the sweep or of the poll over the tasks in S, with the statuses they have now
StatusOf(S) == [t \in Tasks |-> IF t \in S THEN row[t].status ELSE "NOT_START"]
Round(l, S) == [pc |-> l, todo |-> S, seen |-> StatusOf(S), job |-> NoJob]

\* sweepTimedOutTasks reads the overdue tasks: any unfinished ones may be overdue
SweepRead(p, S) ==
  /\ loc[p].pc = "idle"
  /\ loc' = [loc EXCEPT ![p] = Round("sweep", S)]
  /\ UNCHANGED <<row, fetch, paid>>

\* the loop goes on with the next task, after billing t by d if d is not 0; a Suno task
\* is saved with status s after that
Bill(p, t, d, s, back) ==
  loc' = [loc EXCEPT ![p] =
    [pc |-> IF d # 0 THEN "fund" ELSE IF s # "none" THEN "save" ELSE back,
     todo |-> loc[p].todo \ {t},
     seen |-> [loc[p].seen EXCEPT ![t] = "NOT_START"],
     job |-> IF d # 0 \/ s # "none" THEN [task |-> t, delta |-> d, save |-> s, back |-> back]
             ELSE NoJob]]

\* back to the loop
Resume(p) == loc' = [loc EXCEPT ![p].pc = loc[p].job.back, ![p].job = NoJob]

\* the billing is over: on to the save of a Suno task, or back to the loop
Billed(p) ==
  \/ loc[p].job.save # "none" /\ loc' = [loc EXCEPT ![p].pc = "save"]
  \/ loc[p].job.save = "none" /\ Resume(p)

Skip(p, t) == loc' = [loc EXCEPT ![p].todo = @ \ {t}, ![p].seen[t] = "NOT_START"]

SetStatus(t, s, done) == row' = [row EXCEPT ![t].status = s, ![t].done = done]

\* UpdateWithStatus lost the race, or failed
CasLost(p, t) ==
  /\ row[t].status # loc[p].seen[t]
  /\ Skip(p, t)
  /\ UNCHANGED <<row, paid>>
CasError(p, t) == Fault(t) /\ Skip(p, t) /\ UNCHANGED row

IsLegacy(t) == row[t].submitted > 0 /\ row[t].submitted < LegacyTaskCutoff

\* mutants of SweepTask: the loser of the update refunds as well; Suno tasks are left out
SweepTaskLoserRefunds(p, t) ==
  /\ loc[p].pc = "sweep" /\ t \in loc[p].todo
  /\ IF row[t].status = loc[p].seen[t] THEN SetStatus(t, "FAILURE", TRUE) ELSE UNCHANGED row
  /\ Bill(p, t, IF IsLegacy(t) THEN 0 ELSE -row[t].quota, "none", "sweep")
  /\ UNCHANGED <<paid, fetch>>
SweepTaskNotSuno(p, t) ==
  /\ loc[p].pc = "sweep" /\ t \in loc[p].todo
  /\ \/ /\ row[t].status = loc[p].seen[t] /\ Platform[t] # "suno"
        /\ SetStatus(t, "FAILURE", TRUE)
        /\ Bill(p, t, -row[t].quota, "none", "sweep")
     \/ (Platform[t] = "suno" \/ row[t].status # loc[p].seen[t]) /\ Skip(p, t) /\ UNCHANGED row
  /\ UNCHANGED <<paid, fetch>>

\* one task of the sweep: a legacy task fails without a refund
SweepTask(p, t) ==
  /\ loc[p].pc = "sweep" /\ t \in loc[p].todo
  /\ \/ /\ row[t].status = loc[p].seen[t]
        /\ SetStatus(t, "FAILURE", TRUE)
        /\ Bill(p, t, IF IsLegacy(t) THEN 0 ELSE -row[t].quota, "none", "sweep")
        /\ UNCHANGED paid
     \/ CasLost(p, t)
     \/ CasError(p, t)
  /\ UNCHANGED fetch

\* the sweep is over: the loop reads the unfinished tasks
PollRead(p) ==
  /\ loc[p].pc = "sweep" /\ loc[p].todo = {}
  /\ loc' = [loc EXCEPT ![p] = Round("poll", Unfinished)]
  /\ UNCHANGED <<row, fetch, paid>>

\* TaskBulkUpdateByID on the tasks without an upstream id, and on the tasks of a channel
\* that is gone (every task has a channel of its own here): unconditional, no billing
BulkFail(p, t) ==
  /\ loc[p].pc = "poll" /\ t \in loc[p].todo
  /\ ~row[t].upstream \/ "channel" \in Faults
  /\ \/ SetStatus(t, "FAILURE", TRUE) /\ UNCHANGED paid
     \/ Fault(t) /\ UNCHANGED row
  /\ Skip(p, t)
  /\ UNCHANGED fetch

\* FetchTask failed, the answer was a 429, or it could not be parsed
FetchFails(p, t) ==
  /\ loc[p].pc = "poll" /\ t \in loc[p].todo /\ row[t].upstream
  /\ Skip(p, t)
  /\ UNCHANGED <<row, fetch, paid>>

\* settleTaskBillingOnComplete and RecalculateTaskQuota: a = 0 keeps the price
SettleDelta(t, a) == IF a <= 0 THEN 0 ELSE a - row[t].quota

\* mutants of UpdateVideoTask: failures are not refunded; the row is saved without a condition
UpdateVideoTaskNoRefund(p, t, s, full, a) ==
  /\ loc[p].pc = "poll" /\ t \in loc[p].todo /\ row[t].upstream
  /\ Platform[t] # "suno"
  /\ \/ /\ row[t].status = loc[p].seen[t]
        /\ SetStatus(t, s, full \/ s \in Terminal)
        /\ Bill(p, t, IF s = "SUCCESS" THEN SettleDelta(t, a) ELSE 0, "none", "poll")
        /\ UNCHANGED paid
     \/ CasLost(p, t)
     \/ CasError(p, t)
  /\ UNCHANGED fetch
UpdateVideoTaskUnguarded(p, t, s, full, a) ==
  /\ loc[p].pc = "poll" /\ t \in loc[p].todo /\ row[t].upstream
  /\ Platform[t] # "suno"
  /\ SetStatus(t, s, full \/ s \in Terminal)
  /\ Bill(p, t, CASE s = "SUCCESS" -> SettleDelta(t, a)
                  [] s = "FAILURE" -> -row[t].quota
                  [] OTHER -> 0, "none", "poll")
  /\ UNCHANGED <<paid, fetch>>

\* updateVideoSingleTask, the upstream answered s and perhaps a progress of 100%: only
\* the winner of a terminal transition bills
UpdateVideoTask(p, t, s, full, a) ==
  /\ loc[p].pc = "poll" /\ t \in loc[p].todo /\ row[t].upstream
  /\ Platform[t] # "suno"
  /\ \/ /\ row[t].status = loc[p].seen[t]
        /\ SetStatus(t, s, full \/ s \in Terminal)
        /\ Bill(p, t, CASE s = "SUCCESS" -> SettleDelta(t, a)
                        [] s = "FAILURE" -> -row[t].quota
                        [] OTHER -> 0, "none", "poll")
        /\ UNCHANGED paid
     \/ CasLost(p, t)
     \/ CasError(p, t)
  /\ UNCHANGED fetch

\* updateSunoTasks, the upstream answered s, with a reason of failure or not: the refund
\* comes first, then the row is saved as a whole, without a condition
UpdateSunoTask(p, t, s, reason) ==
  /\ loc[p].pc = "poll" /\ t \in loc[p].todo /\ row[t].upstream
  /\ Platform[t] = "suno"
  /\ paid[t].fund >= -MaxOverRefund
  /\ Bill(p, t, IF s = "FAILURE" \/ reason THEN -row[t].quota ELSE 0,
          IF s \in Open /\ reason THEN "refunded" ELSE s, "poll")
  /\ UNCHANGED <<row, fetch, paid>>

\* Task.Update: the answered status, or the status of an open task whose progress is
\* set to 100% because it failed with a reason only
SaveSunoTask(p) ==
  LET t == loc[p].job.task
      s == loc[p].job.save IN
  /\ loc[p].pc = "save"
  /\ \/ /\ SetStatus(t, IF s = "refunded" THEN "IN_PROGRESS" ELSE s, s \notin Open)
        /\ UNCHANGED paid
     \/ Fault(t) /\ UNCHANGED row
  /\ Resume(p)
  /\ UNCHANGED fetch

\* mutant of AdjustFunding: the error of a subscription that refuses is ignored
AdjustFundingIgnoresRefusal(p) ==
  LET t == loc[p].job.task
      d == loc[p].job.delta IN
  /\ loc[p].pc = "fund"
  /\ \/ paid' = [paid EXCEPT ![t].fund = @ + d]
     \/ d > 0 /\ UNCHANGED paid
     \/ Fault(t)
  /\ loc' = [loc EXCEPT ![p].pc = "token"]
  /\ UNCHANGED <<row, fetch>>

\* taskAdjustFunding; a subscription may refuse to pay more, and after an error
\* RefundTaskQuota and RecalculateTaskQuota return
AdjustFunding(p) ==
  LET t == loc[p].job.task
      d == loc[p].job.delta IN
  /\ loc[p].pc = "fund"
  /\ \/ /\ paid' = [paid EXCEPT ![t].fund = @ + d]
        /\ loc' = [loc EXCEPT ![p].pc = "token"]
     \/ d > 0 /\ Billed(p) /\ UNCHANGED paid
     \/ Fault(t) /\ Billed(p)
  /\ UNCHANGED <<row, fetch>>

\* taskAdjustTokenQuota: the token may be gone, and errors are only logged
AdjustToken(p) ==
  LET t == loc[p].job.task IN
  /\ loc[p].pc = "token"
  /\ \/ paid' = [paid EXCEPT ![t].token = @ + loc[p].job.delta]
     \/ Fault(t)
  /\ Billed(p)
  /\ UNCHANGED <<row, fetch>>

\* the end of a round
RoundDone(p) ==
  /\ loc[p].pc = "poll" /\ loc[p].todo = {}
  /\ loc' = [loc EXCEPT ![p] = Idle]
  /\ UNCHANGED <<row, fetch, paid>>

\* the node dies; it starts again with an empty round
Crash(p) ==
  /\ "crash" \in Faults /\ loc[p].pc # "idle"
  /\ paid' = IF loc[p].pc \in {"fund", "token", "save"}
             THEN [paid EXCEPT ![loc[p].job.task].clean = FALSE] ELSE paid
  /\ loc' = [loc EXCEPT ![p] = Idle]
  /\ UNCHANGED <<row, fetch>>

-----------------------------------------------------------------------------
(* tryRealtimeFetch: a user asks for a Gemini or Vertex task.               *)

FetchRead(f, t) ==
  /\ fetch[f].pc = "idle" /\ Platform[t] = "gemini" /\ row[t].status # "absent"
  /\ fetch' = [fetch EXCEPT ![f] = [pc |-> "read", task |-> t, seen |-> row[t].status]]
  /\ UNCHANGED <<row, loc, paid>>

\* the answered status, and a progress of 100% if it is final, are written if the row
\* still has the status that was read; otherwise, and when the query or the write fails,
\* nothing is.  The upstream does not take a success back; a failure may be the sweep's or
\* a bulk update's while the upstream works on, and then the query revives the task.
FetchWrite(f, s) ==
  LET t == fetch[f].task IN
  /\ fetch[f].pc = "read"
  /\ fetch[f].seen = "SUCCESS" => s = "SUCCESS"
  /\ paid[t].fund >= -MaxOverRefund \/ s = fetch[f].seen
  /\ \/ row[t].status = fetch[f].seen /\ SetStatus(t, s, s \in Terminal)
     \/ UNCHANGED row
  /\ fetch' = [fetch EXCEPT ![f] = [pc |-> "idle", task |-> "none", seen |-> "NOT_START"]]
  /\ UNCHANGED <<loc, paid>>

-----------------------------------------------------------------------------

PollerStep(p) ==
  \/ \E S \in SUBSET Unfinished : SweepRead(p, S)
  \/ PollRead(p) \/ RoundDone(p) \/ AdjustFunding(p) \/ AdjustToken(p) \/ SaveSunoTask(p)
  \/ \E t \in Tasks :
       \/ SweepTask(p, t) \/ BulkFail(p, t) \/ FetchFails(p, t)
       \/ \E s \in Answers, full \in BOOLEAN, a \in Actuals : UpdateVideoTask(p, t, s, full, a)
       \/ \E s \in Answers, reason \in BOOLEAN : UpdateSunoTask(p, t, s, reason)

Next ==
  \/ \E t \in Tasks, q \in Quotas, time \in SubmitTimes : Submit(t, q, time)
  \/ \E p \in Pollers : PollerStep(p) \/ Crash(p)
  \/ \E f \in Fetchers :
       \/ \E t \in Tasks : FetchRead(f, t)
       \/ \E s \in Answers : FetchWrite(f, s)

Spec == Init /\ [][Next]_vars

\* A loop that can go on goes on; as time passes, a sweep that finds every task that is
\* still unfinished overdue comes round again and again; and neither the database nor the
\* node fails every time the sweep is about to write a task.
FairSpec ==
  /\ Spec
  /\ \A p \in Pollers :
       /\ WF_vars(PollerStep(p)) /\ SF_vars(SweepRead(p, Unfinished))
       /\ \A t \in Tasks : SF_vars(SweepTask(p, t) /\ row'[t].status = "FAILURE")

-----------------------------------------------------------------------------
(* Properties                                                               *)

Rows == [status : Status \union {"absent"}, done : BOOLEAN, quota : Nat, submitted : Nat,
         upstream : BOOLEAN]
Jobs == [task : Tasks \union {"none"}, delta : Int, save : Status \union {"none", "refunded"},
         back : {"idle", "sweep", "poll"}]
Loops == [pc : {"idle", "sweep", "poll", "fund", "token", "save"}, todo : SUBSET Tasks,
          seen : [Tasks -> Open], job : Jobs]
Queries == [pc : {"idle", "read"}, task : Tasks \union {"none"}, seen : Status]
Accounts == [fund : Int, token : Int, clean : BOOLEAN]

\* Rows, loops and queries have the values the code gives them.
TypeOK ==
  /\ row \in [Tasks -> Rows]
  /\ loc \in [Pollers -> Loops]
  /\ fetch \in [Fetchers -> Queries]
  /\ paid \in [Tasks -> Accounts]

\* a loop is in the middle of billing t
Billing(p, t) == loc[p].job.task = t /\ loc[p].pc \in {"fund", "token", "save"}

\* Tasks whose only writers are the loops' conditional updates
Guarded(t) == Platform[t] = "video" /\ "channel" \notin Faults /\ row[t].upstream

\* Between them the loops, the sweeps and restarts of all the nodes bill a guarded task
\* at most once: it is never refunded twice, nor refunded and settled; what its owner
\* has paid is the price of the submission, nothing, or the price found at completion.
BilledAtMostOnce ==
  \A t \in Tasks :
    Guarded(t) =>
      /\ paid[t].fund \in {0, row[t].quota} \union Actuals
      /\ paid[t].token \in {0, row[t].quota} \union Actuals
      /\ row[t].status \in Open => paid[t].fund = row[t].quota
      /\ row[t].status = "SUCCESS" => paid[t].fund # 0 \/ row[t].quota = 0

\* Once no loop is billing it, a failed guarded task has cost nothing, unless a write
\* about it failed or a node died in the middle, or it is a legacy task.
FailedTaskRefunded ==
  \A t \in Tasks :
    /\ Guarded(t) /\ paid[t].clean
    /\ row[t].status = "FAILURE" /\ ~IsLegacy(t)
    /\ \A p \in Pollers : ~Billing(p, t)
    => paid[t].fund = 0 /\ paid[t].token = 0

\* Whatever the platform, funding source and token agree once the loops are through
\* with a task and no write about it failed.
TokenFollowsFunding ==
  \A t \in Tasks :
    paid[t].clean /\ (\A p \in Pollers : ~Billing(p, t)) => paid[t].token = paid[t].fund

\* A guarded task that has reached SUCCESS or FAILURE never changes its status again.
TerminalIsFinal ==
  [][\A t \in Tasks : Guarded(t) /\ row[t].status \in Terminal => row'[t].status = row[t].status]_vars

\* No task stays unfinished for ever: the poll or the sweep ends it, or it leaves the
\* loops' sight with a progress of 100%.
EventuallyTerminal ==
  \A t \in Tasks : (t \in Unfinished) ~> (row[t].status \in Terminal \/ row[t].done)

\* A task that failed is refunded, whichever platform it runs on and whoever noticed.
EveryFailureRefunded ==
  \A t \in Tasks :
    /\ paid[t].clean /\ row[t].status = "FAILURE" /\ ~IsLegacy(t)
    /\ \A p \in Pollers : ~Billing(p, t)
    => paid[t].fund = 0
=============================================================================
