-------------------------- MODULE TaskBillingProofs --------------------------
(***************************************************************************)
(* A guarded task is billed at most once, for any number of tasks, polling *)
(* loops and users, any prices, and any failures of writes and nodes.      *)
(*                                                                         *)
(* The invariant BilledAtMostOnce is not inductive: it does not say that a *)
(* loop that is billing a task is the only one, that it has not moved the  *)
(* same amount already, nor that the status a loop remembers for a task it *)
(* is about to update is an open one, which is what makes the conditional  *)
(* update fail once the task is finished.  IInv adds these facts.          *)
(*                                                                         *)
(* For tasks of every platform, the token follows the funding source: the  *)
(* difference is what the loops between their two writes still owe it.     *)
(***************************************************************************)
EXTENDS TaskBilling, SumTheorems, TLAPS

\* what a loop holds
LoopInv(p) ==
  /\ \A t \in loc[p].todo : row[t].status # "absent"
  /\ loc[p].pc \in {"fund", "token", "save"} =>
       loc[p].job.task \in Tasks /\ row[loc[p].job.task].status # "absent"
  /\ loc[p].pc \in {"fund", "token", "save"} /\ loc[p].job.save # "none" =>
       Platform[loc[p].job.task] = "suno"
  /\ loc[p].pc = "save" => loc[p].job.save # "none"

FetchInv(f) ==
  fetch[f].pc = "read" => fetch[f].task \in Tasks /\ Platform[fetch[f].task] = "gemini"

\* the one loop that bills t has not yet moved the amount it still has to move
BillerInv(p, t) ==
  /\ \A o \in Pollers : Billing(o, t) => o = p
  /\ \/ row[t].status = "FAILURE" /\ loc[p].job.delta = -row[t].quota
     \/ /\ row[t].status = "SUCCESS" /\ row[t].quota + loc[p].job.delta \in Actuals
        /\ row[t].quota + loc[p].job.delta # 0
  /\ paid[t].token = row[t].quota
  /\ paid[t].fund = IF loc[p].pc = "fund" THEN row[t].quota
                                         ELSE row[t].quota + loc[p].job.delta

PaidInv(t) ==
  LET q == row[t].quota IN
  /\ row[t].status \in Open => paid[t].fund = q /\ paid[t].token = q
  /\ row[t].status = "FAILURE" => paid[t].fund \in {0, q} /\ paid[t].token \in {0, q}
  /\ row[t].status = "SUCCESS" =>
       /\ paid[t].fund \in {q} \union Actuals /\ paid[t].token \in {q} \union Actuals
       /\ paid[t].fund # 0 \/ q = 0

TaskInv(t) ==
  Guarded(t) =>
    /\ row[t].status # "absent"
    /\ \A p \in Pollers : Billing(p, t) => BillerInv(p, t)
    /\ PaidInv(t)

IInv ==
  /\ TypeOK
  /\ \A p \in Pollers : LoopInv(p)
  /\ \A f \in Fetchers : FetchInv(f)
  /\ \A t \in Tasks : TaskInv(t)

-----------------------------------------------------------------------------
(* What the writes do to the types                                          *)

\* Writing a status and a progress keeps the type of the rows.
LEMMA SetStatusType ==
  ASSUME row \in [Tasks -> Rows], NEW t \in Tasks, NEW s \in Status, NEW d \in BOOLEAN,
         SetStatus(t, s, d)
  PROVE  row' \in [Tasks -> Rows]
BY DEF SetStatus, Rows

\* A loop that skips a task keeps its type.
LEMMA SkipType ==
  ASSUME loc \in [Pollers -> Loops], NEW p \in Pollers, NEW t \in Tasks, Skip(p, t)
  PROVE  loc' \in [Pollers -> Loops]
BY DEF Skip, Loops, Open

\* A failed write keeps the type of the accounts.
LEMMA FaultType ==
  ASSUME paid \in [Tasks -> Accounts], NEW t \in Tasks, Fault(t)
  PROVE  paid' \in [Tasks -> Accounts]
BY DEF Fault, Accounts

\* The empty billing job has the type of a job.
LEMMA NoJobType == NoJob \in Jobs
BY DEF NoJob, Jobs

\* A loop that starts a billing, or has nothing to bill, keeps its type.
LEMMA BillType ==
  ASSUME loc \in [Pollers -> Loops], NEW p \in Pollers, NEW t \in Tasks, NEW d \in Int,
         NEW s \in Status \union {"none", "refunded"}, NEW back \in {"sweep", "poll"},
         Bill(p, t, d, s, back)
  PROVE  loc' \in [Pollers -> Loops]
<1> DEFINE j == IF d # 0 \/ s # "none" THEN [task |-> t, delta |-> d, save |-> s, back |-> back] ELSE NoJob
           l == IF d # 0 THEN "fund" ELSE IF s # "none" THEN "save" ELSE back
           e == [loc[p].seen EXCEPT ![t] = "NOT_START"]
<1>1. j \in Jobs
  BY NoJobType DEF Jobs
<1>2. l \in {"idle", "sweep", "poll", "fund", "token", "save"}
  OBVIOUS
<1>3. e \in [Tasks -> Open] /\ loc[p].todo \in SUBSET Tasks
  BY DEF Loops, Open
<1>4. loc' = [loc EXCEPT ![p] = [pc |-> l, todo |-> loc[p].todo \ {t}, seen |-> e, job |-> j]]
  BY DEF Bill
<1> HIDE DEF j, l, e
<1>5. [pc |-> l, todo |-> loc[p].todo \ {t}, seen |-> e, job |-> j] \in Loops
  BY <1>1, <1>2, <1>3 DEF Loops
<1> QED
  BY <1>4, <1>5

\* A loop that goes back to its round keeps its type.
LEMMA ResumeType ==
  ASSUME loc \in [Pollers -> Loops], NEW p \in Pollers, Resume(p)
  PROVE  loc' \in [Pollers -> Loops]
<1>1. loc[p].job.back \in {"idle", "sweep", "poll"}
  BY DEF Loops, Jobs
<1> QED
  BY <1>1, NoJobType DEF Resume, Loops

\* A loop that has finished a billing keeps its type.
LEMMA BilledType ==
  ASSUME loc \in [Pollers -> Loops], NEW p \in Pollers, Billed(p)
  PROVE  loc' \in [Pollers -> Loops]
<1>1. CASE loc' = [loc EXCEPT ![p].pc = "save"]
  BY <1>1 DEF Loops
<1> QED
  BY <1>1, ResumeType DEF Billed

\* An idle loop has the type of a loop.
LEMMA IdleType == Idle \in Loops
BY NoJobType DEF Idle, Loops, Open

\* the writes of a submission, of a round's reads and of a billing
LEMMA SubmitType ==
  ASSUME row \in [Tasks -> Rows], paid \in [Tasks -> Accounts], NEW t \in Tasks,
         NEW q \in Nat, NEW time \in Nat, Submit(t, q, time)
  PROVE  row' \in [Tasks -> Rows] /\ paid' \in [Tasks -> Accounts]
<1>1. [fund |-> q, token |-> q, clean |-> TRUE] \in Accounts
  BY DEF Accounts
<1>2. paid' \in [Tasks -> Accounts]
  BY <1>1 DEF Submit
<1> DEFINE new(up) == [status |-> "NOT_START", done |-> FALSE, quota |-> q, submitted |-> time,
                       upstream |-> up]
<1>3. \A up \in BOOLEAN : new(up) \in Rows
  BY DEF Rows, Status, Open
<1>4. (\E up \in BOOLEAN : row' = [row EXCEPT ![t] = new(up)]) \/ row' = row
  BY DEF Submit
<1> HIDE DEF new
<1>5. row' \in [Tasks -> Rows]
  BY <1>3, <1>4
<1> QED
  BY <1>2, <1>5

\* A loop that has read the tasks of a round keeps its type.
LEMMA RoundType ==
  ASSUME NEW S \in SUBSET Unfinished, NEW l \in {"sweep", "poll"}
  PROVE  Round(l, S) \in Loops
<1>1. S \in SUBSET Tasks /\ StatusOf(S) \in [Tasks -> Open]
  BY DEF StatusOf, Unfinished, Open
<1> QED
  BY <1>1, NoJobType DEF Round, Loops

\* A loop that moves on keeps its type.
LEMMA GotoType ==
  ASSUME loc \in [Pollers -> Loops], NEW p \in Pollers, loc' = [loc EXCEPT ![p].pc = "token"]
  PROVE  loc' \in [Pollers -> Loops]
BY DEF Loops

\* Moving an amount at the funding source keeps the type of the accounts.
LEMMA FundType ==
  ASSUME paid \in [Tasks -> Accounts], NEW t \in Tasks, NEW d \in Int,
         paid' = [paid EXCEPT ![t].fund = @ + d]
  PROVE  paid' \in [Tasks -> Accounts]
BY DEF Accounts

\* Moving an amount at the token keeps the type of the accounts.
LEMMA TokenType ==
  ASSUME paid \in [Tasks -> Accounts], NEW t \in Tasks, NEW d \in Int,
         paid' = [paid EXCEPT ![t].token = @ + d]
  PROVE  paid' \in [Tasks -> Accounts]
BY DEF Accounts

\* A loop that is billing has a task and an integer amount.
LEMMA JobType ==
  ASSUME loc \in [Pollers -> Loops], NEW p \in Pollers
  PROVE  /\ loc[p].job.task \in Tasks \union {"none"}
         /\ loc[p].job.delta \in Int
         /\ loc[p].job.save \in Status \union {"none", "refunded"}
BY DEF Loops, Jobs

-----------------------------------------------------------------------------
(* The types are kept by every action.                                      *)

\* Every action keeps the types.
LEMMA TypeStep == ASSUME IInv, Next PROVE TypeOK'
<1>0. TypeOK
  BY DEF IInv
<1> USE <1>0 DEF TypeOK
<1>1. ASSUME NEW t \in Tasks, NEW q \in Quotas, NEW time \in SubmitTimes, Submit(t, q, time)
      PROVE  TypeOK'
  <2>1. q \in Nat /\ time \in Nat
    BY TaskAssumption
  <2> QED
    BY <1>1, <2>1, SubmitType DEF Submit
<1>2. ASSUME NEW p \in Pollers, NEW S \in SUBSET Unfinished, SweepRead(p, S)
      PROVE  TypeOK'
  <2>1. loc' \in [Pollers -> Loops]
    BY <1>2, RoundType DEF SweepRead
  <2> QED
    BY <1>2, <2>1 DEF SweepRead
<1>3. ASSUME NEW p \in Pollers, PollRead(p) PROVE TypeOK'
  <2>1. loc' \in [Pollers -> Loops]
    BY <1>3, RoundType DEF PollRead
  <2> QED
    BY <1>3, <2>1 DEF PollRead
<1>4. ASSUME NEW p \in Pollers, RoundDone(p) PROVE TypeOK'
  BY <1>4, IdleType DEF RoundDone
<1>5. ASSUME NEW p \in Pollers, AdjustFunding(p) PROVE TypeOK'
  <2>1. loc[p].job.task \in Tasks
    BY <1>5 DEF IInv, LoopInv, AdjustFunding
  <2>2. paid' \in [Tasks -> Accounts]
    BY <1>5, <2>1, JobType, FaultType, FundType DEF AdjustFunding
  <2>3. loc' \in [Pollers -> Loops]
    BY <1>5, BilledType, GotoType DEF AdjustFunding
  <2> QED
    BY <1>5, <2>2, <2>3 DEF AdjustFunding
<1>6. ASSUME NEW p \in Pollers, AdjustToken(p) PROVE TypeOK'
  <2>1. loc[p].job.task \in Tasks
    BY <1>6 DEF IInv, LoopInv, AdjustToken
  <2>2. paid' \in [Tasks -> Accounts]
    BY <1>6, <2>1, JobType, FaultType, TokenType DEF AdjustToken
  <2> QED
    BY <1>6, <2>2, BilledType DEF AdjustToken
<1>7. ASSUME NEW p \in Pollers, SaveSunoTask(p) PROVE TypeOK'
  <2>1. loc[p].job.task \in Tasks /\ loc[p].job.save # "none"
    BY <1>7 DEF IInv, LoopInv, SaveSunoTask
  <2>2. paid' \in [Tasks -> Accounts] /\ loc' \in [Pollers -> Loops] /\ fetch' = fetch
    BY <1>7, <2>1, FaultType, ResumeType DEF SaveSunoTask
  <2>3. row' \in [Tasks -> Rows]
    <3>1. CASE UNCHANGED row
      BY <3>1
    <3>2. CASE SetStatus(loc[p].job.task,
                 IF loc[p].job.save = "refunded" THEN "IN_PROGRESS" ELSE loc[p].job.save,
                 loc[p].job.save \notin Open)
      BY <2>1, <3>2, JobType, SetStatusType DEF Status, Open
    <3> QED
      BY <1>7, <3>1, <3>2 DEF SaveSunoTask
  <2> QED
    BY <2>2, <2>3
<1>8. ASSUME NEW p \in Pollers, NEW t \in Tasks, SweepTask(p, t) PROVE TypeOK'
  <2>1. row[t].quota \in Nat /\ "FAILURE" \in Status
    BY DEF Rows, Status, Terminal
  <2>2. row' \in [Tasks -> Rows]
    BY <1>8, <2>1, SetStatusType DEF SweepTask, CasLost, CasError
  <2>3. paid' \in [Tasks -> Accounts]
    BY <1>8, FaultType DEF SweepTask, CasLost, CasError
  <2>4. (IF IsLegacy(t) THEN 0 ELSE -row[t].quota) \in Int
    BY <2>1
  <2>5. loc' \in [Pollers -> Loops]
    BY <1>8, <2>4, BillType, SkipType DEF SweepTask, CasLost, CasError
  <2> QED
    BY <1>8, <2>2, <2>3, <2>5 DEF SweepTask
<1>9. ASSUME NEW p \in Pollers, NEW t \in Tasks, BulkFail(p, t) PROVE TypeOK'
  <2>1. "FAILURE" \in Status
    BY DEF Status, Terminal
  <2> QED
    BY <1>9, <2>1, SetStatusType, FaultType, SkipType DEF BulkFail
<1>10. ASSUME NEW p \in Pollers, NEW t \in Tasks, FetchFails(p, t) PROVE TypeOK'
  BY <1>10, SkipType DEF FetchFails
<1>11. ASSUME NEW p \in Pollers, NEW t \in Tasks, NEW s \in Answers, NEW full \in BOOLEAN,
              NEW a \in Actuals, UpdateVideoTask(p, t, s, full, a)
       PROVE  TypeOK'
  <2>1. row[t].quota \in Nat /\ a \in Nat /\ s \in Status /\ (full \/ s \in Terminal) \in BOOLEAN
    BY TaskAssumption DEF Rows, Answers
  <2>2. row' \in [Tasks -> Rows]
    BY <1>11, <2>1, SetStatusType DEF UpdateVideoTask, CasLost, CasError
  <2>3. paid' \in [Tasks -> Accounts]
    BY <1>11, FaultType DEF UpdateVideoTask, CasLost, CasError
  <2>4. (CASE s = "SUCCESS" -> SettleDelta(t, a) [] s = "FAILURE" -> -row[t].quota [] OTHER -> 0) \in Int
    BY <2>1 DEF SettleDelta
  <2>5. loc' \in [Pollers -> Loops]
    BY <1>11, <2>4, BillType, SkipType DEF UpdateVideoTask, CasLost, CasError
  <2> QED
    BY <1>11, <2>2, <2>3, <2>5 DEF UpdateVideoTask
<1>12. ASSUME NEW p \in Pollers, NEW t \in Tasks, NEW s \in Answers, NEW reason \in BOOLEAN,
              UpdateSunoTask(p, t, s, reason)
       PROVE  TypeOK'
  <2>1. row[t].quota \in Nat /\ s \in Status
    BY DEF Rows, Answers
  <2>2. loc' \in [Pollers -> Loops]
    BY <1>12, <2>1, BillType DEF UpdateSunoTask
  <2> QED
    BY <1>12, <2>2 DEF UpdateSunoTask
<1>13. ASSUME NEW p \in Pollers, Crash(p) PROVE TypeOK'
  <2>1. paid' \in [Tasks -> Accounts]
    BY <1>13 DEF Crash, IInv, LoopInv, Accounts
  <2> QED
    BY <1>13, <2>1, IdleType DEF Crash
<1>14. ASSUME NEW f \in Fetchers, NEW t \in Tasks, FetchRead(f, t) PROVE TypeOK'
  <2>1. fetch' \in [Fetchers -> Queries]
    BY <1>14 DEF FetchRead, Queries, Rows
  <2> QED
    BY <1>14, <2>1 DEF FetchRead
<1>15. ASSUME NEW f \in Fetchers, NEW s \in Answers, FetchWrite(f, s) PROVE TypeOK'
  <2>1. fetch[f].task \in Tasks
    BY <1>15 DEF FetchWrite, IInv, FetchInv
  <2>2. row' \in [Tasks -> Rows]
    <3>1. row \in [Tasks -> Rows] /\ s \in Status /\ (s \in Terminal) \in BOOLEAN
      BY DEF Answers, TypeOK
    <3>2. CASE SetStatus(fetch[f].task, s, s \in Terminal)
      BY <2>1, <3>1, <3>2, SetStatusType
    <3> QED
      BY <1>15, <3>1, <3>2 DEF FetchWrite
  <2>3. fetch' \in [Fetchers -> Queries]
    BY <1>15 DEF FetchWrite, Queries, Status, Open
  <2> QED
    BY <1>15, <2>2, <2>3 DEF FetchWrite
<1> QED
  BY <1>1, <1>2, <1>3, <1>4, <1>5, <1>6, <1>7, <1>8, <1>9, <1>10, <1>11, <1>12, <1>13,
     <1>14, <1>15 DEF Next, PollerStep

-----------------------------------------------------------------------------
(* What the writes leave behind                                             *)

\* A status write leaves price and upstream id, and every other row, alone.
LEMMA SetStatusEffect ==
  ASSUME TypeOK, NEW t \in Tasks, NEW s, NEW d, SetStatus(t, s, d)
  PROVE  /\ row'[t].status = s
         /\ row'[t].quota = row[t].quota /\ row'[t].upstream = row[t].upstream
         /\ \A u \in Tasks \ {t} : row'[u] = row[u]
BY DEF TypeOK, Rows, SetStatus

\* A skip takes the task out of the round and leaves the other loops alone.
LEMMA SkipEffect ==
  ASSUME TypeOK, NEW p \in Pollers, NEW t \in Tasks, Skip(p, t)
  PROVE  /\ loc'[p].pc = loc[p].pc /\ loc'[p].job = loc[p].job
         /\ loc'[p].todo = loc[p].todo \ {t}
         /\ \A o \in Pollers \ {p} : loc'[o] = loc[o]
BY DEF TypeOK, Loops, Skip

\* What a loop that has decided to bill, or not to, does next.
LEMMA BillEffect ==
  ASSUME TypeOK, NEW p \in Pollers, NEW t \in Tasks, NEW d, NEW s, NEW back, Bill(p, t, d, s, back)
  PROVE  /\ loc'[p].todo = loc[p].todo \ {t}
         /\ d # 0 => loc'[p].pc = "fund"
         /\ d = 0 /\ s # "none" => loc'[p].pc = "save"
         /\ d = 0 /\ s = "none" => loc'[p].pc = back /\ loc'[p].job = NoJob
         /\ d # 0 \/ s # "none" =>
              loc'[p].job.task = t /\ loc'[p].job.delta = d /\ loc'[p].job.save = s
         /\ \A o \in Pollers \ {p} : loc'[o] = loc[o]
BY DEF TypeOK, Bill

\* Back in its round a loop has the same tasks left and no job.
LEMMA ResumeEffect ==
  ASSUME TypeOK, NEW p \in Pollers, Resume(p)
  PROVE  /\ loc'[p].pc \in {"idle", "sweep", "poll"} /\ loc'[p].todo = loc[p].todo
         /\ \A o \in Pollers \ {p} : loc'[o] = loc[o]
<1>1. loc[p].job.back \in {"idle", "sweep", "poll"}
  BY DEF TypeOK, Loops, Jobs
<1>2. loc'[p].pc = loc[p].job.back /\ loc'[p].todo = loc[p].todo
  BY DEF TypeOK, Loops, Resume
<1>3. \A o \in Pollers \ {p} : loc'[o] = loc[o]
  BY DEF TypeOK, Resume
<1> QED
  BY <1>1, <1>2, <1>3

\* A loop that moves on keeps its tasks and its job.
LEMMA GotoEffect ==
  ASSUME TypeOK, NEW p \in Pollers, NEW l, loc' = [loc EXCEPT ![p].pc = l]
  PROVE  /\ loc'[p].pc = l /\ loc'[p].todo = loc[p].todo /\ loc'[p].job = loc[p].job
         /\ \A o \in Pollers \ {p} : loc'[o] = loc[o]
BY DEF TypeOK, Loops

\* After a billing a loop is no longer moving money.
LEMMA BilledEffect ==
  ASSUME TypeOK, NEW p \in Pollers, Billed(p)
  PROVE  /\ loc'[p].todo = loc[p].todo
         /\ loc[p].job.save = "none" => loc'[p].pc \in {"idle", "sweep", "poll"}
         /\ loc[p].job.save # "none" => loc'[p].pc = "save" /\ loc'[p].job = loc[p].job
         /\ \A o \in Pollers \ {p} : loc'[o] = loc[o]
BY ResumeEffect, GotoEffect DEF Billed

\* A failed write moves no money.
LEMMA FaultEffect ==
  ASSUME TypeOK, NEW t \in Tasks, paid' = [paid EXCEPT ![t].clean = FALSE]
  PROVE  \A u \in Tasks : paid'[u].fund = paid[u].fund /\ paid'[u].token = paid[u].token
BY DEF TypeOK, Accounts

-----------------------------------------------------------------------------
(* The loops                                                                *)

RowsStay == \A t \in Tasks : row[t].status # "absent" => row'[t].status # "absent"

\* No status write makes a row disappear.
LEMMA StatusKept ==
  ASSUME TypeOK, NEW t \in Tasks, NEW s \in Status, NEW d, SetStatus(t, s, d)
  PROVE  RowsStay
BY SetStatusEffect DEF RowsStay, Status, Open, Terminal

\* LoopInv of the loops that did not move is kept.
LEMMA OtherLoops ==
  ASSUME TypeOK, \A o \in Pollers : LoopInv(o), RowsStay, NEW p \in Pollers,
         \A o \in Pollers \ {p} : loc'[o] = loc[o], LoopInv(p)'
  PROVE  \A o \in Pollers : LoopInv(o)'
<1>1. ASSUME NEW o \in Pollers \ {p} PROVE LoopInv(o)'
  <2>1. loc[o].todo \subseteq Tasks
    BY DEF TypeOK, Loops
  <2> QED
    BY <1>1, <2>1 DEF LoopInv, RowsStay
<1> QED
  BY <1>1

\* a loop that goes on without a billing keeps LoopInv
LEMMA LoopGoesOn ==
  ASSUME TypeOK, NEW p \in Pollers, LoopInv(p), RowsStay, loc'[p].todo \subseteq loc[p].todo,
         loc'[p].pc \in {"idle", "sweep", "poll"}
  PROVE  LoopInv(p)'
<1>1. loc[p].todo \subseteq Tasks
  BY DEF TypeOK, Loops
<1> QED
  BY <1>1 DEF LoopInv, RowsStay

\* A loop that skips a task keeps LoopInv.
LEMMA LoopSkips ==
  ASSUME TypeOK, \A o \in Pollers : LoopInv(o), RowsStay, NEW p \in Pollers, NEW t \in Tasks,
         Skip(p, t)
  PROVE  \A o \in Pollers : LoopInv(o)'
<1>1. LoopInv(p)'
  <2>1. loc[p].todo \subseteq Tasks
    BY DEF TypeOK, Loops
  <2> QED
    BY <2>1, SkipEffect DEF LoopInv, RowsStay, TypeOK, Loops, Jobs
<1> QED
  BY <1>1, SkipEffect, OtherLoops

\* A loop that starts a billing keeps LoopInv.
LEMMA LoopBills ==
  ASSUME TypeOK, \A o \in Pollers : LoopInv(o), RowsStay, NEW p \in Pollers,
         NEW t \in loc[p].todo, NEW d \in Int, NEW s \in Status \union {"none", "refunded"},
         NEW back \in {"sweep", "poll"}, Bill(p, t, d, s, back), s # "none" => Platform[t] = "suno"
  PROVE  \A o \in Pollers : LoopInv(o)'
<1>1. loc[p].todo \subseteq Tasks /\ t \in Tasks
  BY DEF TypeOK, Loops
<1>2. /\ loc'[p].todo = loc[p].todo \ {t}
      /\ d # 0 => loc'[p].pc = "fund"
      /\ d = 0 /\ s # "none" => loc'[p].pc = "save"
      /\ d = 0 /\ s = "none" => loc'[p].pc = back
      /\ d # 0 \/ s # "none" => loc'[p].job.task = t /\ loc'[p].job.save = s
      /\ \A o \in Pollers \ {p} : loc'[o] = loc[o]
  BY <1>1 DEF Bill, TypeOK
<1>3. row'[t].status # "absent" /\ \A u \in loc'[p].todo : row'[u].status # "absent"
  BY <1>1, <1>2 DEF LoopInv, RowsStay
<1>4. LoopInv(p)'
  BY <1>1, <1>2, <1>3 DEF LoopInv
<1> QED
  BY <1>2, <1>4, OtherLoops

\* A loop that ends a billing keeps LoopInv.
LEMMA LoopBilled ==
  ASSUME TypeOK, \A o \in Pollers : LoopInv(o), RowsStay, NEW p \in Pollers, Billed(p),
         loc[p].pc \in {"fund", "token"}
  PROVE  \A o \in Pollers : LoopInv(o)'
<1>1. loc[p].todo \subseteq Tasks
  BY DEF TypeOK, Loops
<1>2. LoopInv(p)'
  BY <1>1, BilledEffect DEF LoopInv, RowsStay
<1> QED
  BY <1>2, BilledEffect, OtherLoops

\* Every action keeps LoopInv.
LEMMA LoopStep == ASSUME IInv, Next PROVE \A o \in Pollers : LoopInv(o)'
<1>0. TypeOK /\ \A o \in Pollers : LoopInv(o)
  BY DEF IInv
<1> USE <1>0
<1>a. ASSUME row' = row PROVE RowsStay
  BY <1>a DEF RowsStay
<1>b. "FAILURE" \in Status
  BY DEF Status, Terminal
<1>c. ASSUME NEW p \in Pollers PROVE loc[p].todo \subseteq Tasks
  BY DEF TypeOK, Loops
<1>d. ASSUME RowsStay, loc' = loc PROVE \A o \in Pollers : LoopInv(o)'
  BY <1>c, <1>d DEF LoopInv, RowsStay
<1>1. ASSUME NEW t \in Tasks, NEW q \in Quotas, NEW time \in SubmitTimes, Submit(t, q, time)
      PROVE  \A o \in Pollers : LoopInv(o)'
  <2>1. RowsStay
    BY <1>1 DEF Submit, RowsStay, TypeOK
  <2> QED
    BY <1>1, <2>1, <1>d DEF Submit
<1>2. ASSUME NEW p \in Pollers, NEW S \in SUBSET Unfinished, NEW l \in {"sweep", "poll"},
             loc' = [loc EXCEPT ![p] = Round(l, S)], row' = row
      PROVE  \A o \in Pollers : LoopInv(o)'
  <2>1. loc'[p].todo = S /\ loc'[p].pc = l /\ \A o \in Pollers \ {p} : loc'[o] = loc[o]
    BY <1>2 DEF Round, TypeOK
  <2>2. LoopInv(p)'
    BY <1>2, <2>1 DEF LoopInv, Unfinished, Open
  <2> QED
    BY <1>2, <1>a, <2>1, <2>2, OtherLoops
<1>3. ASSUME NEW p \in Pollers, loc' = [loc EXCEPT ![p] = Idle], row' = row
      PROVE  \A o \in Pollers : LoopInv(o)'
  <2>1. loc'[p].todo = {} /\ loc'[p].pc = "idle" /\ \A o \in Pollers \ {p} : loc'[o] = loc[o]
    BY <1>3 DEF Idle, TypeOK
  <2>2. LoopInv(p)'
    BY <2>1 DEF LoopInv
  <2> QED
    BY <1>3, <1>a, <2>1, <2>2, OtherLoops
<1>4. ASSUME NEW p \in Pollers, AdjustFunding(p) PROVE \A o \in Pollers : LoopInv(o)'
  <2>1. RowsStay
    BY <1>4, <1>a DEF AdjustFunding
  <2>2. CASE loc' = [loc EXCEPT ![p].pc = "token"]
    <3>1. LoopInv(p)'
      BY <1>4, <1>c, <2>1, <2>2, GotoEffect DEF LoopInv, RowsStay, AdjustFunding
    <3> QED
      BY <2>1, <2>2, <3>1, GotoEffect, OtherLoops
  <2>3. CASE Billed(p)
    BY <1>4, <2>1, <2>3, LoopBilled DEF AdjustFunding
  <2> QED
    BY <1>4, <2>2, <2>3 DEF AdjustFunding
<1>5. ASSUME NEW p \in Pollers, AdjustToken(p) PROVE \A o \in Pollers : LoopInv(o)'
  BY <1>5, <1>a, LoopBilled DEF AdjustToken
<1>6. ASSUME NEW p \in Pollers, SaveSunoTask(p) PROVE \A o \in Pollers : LoopInv(o)'
  <2> DEFINE s == loc[p].job.save
             n == IF s = "refunded" THEN "IN_PROGRESS" ELSE s
  <2>1. loc[p].job.task \in Tasks /\ n \in Status
    BY <1>6, JobType DEF SaveSunoTask, LoopInv, TypeOK, Status, Open
  <2>2. SetStatus(loc[p].job.task, n, s \notin Open) \/ row' = row
    BY <1>6 DEF SaveSunoTask
  <2> HIDE DEF n
  <2>3. RowsStay
    BY <1>a, <2>1, <2>2, StatusKept
  <2>4. LoopInv(p)'
    BY <1>6, <2>3, ResumeEffect, LoopGoesOn DEF SaveSunoTask
  <2> QED
    BY <1>6, <2>3, <2>4, ResumeEffect, OtherLoops DEF SaveSunoTask
<1>7. ASSUME NEW p \in Pollers, NEW t \in Tasks, SweepTask(p, t)
      PROVE  \A o \in Pollers : LoopInv(o)'
  <2> DEFINE d == IF IsLegacy(t) THEN 0 ELSE -row[t].quota
  <2>1. d \in Int
    BY DEF TypeOK, Rows
  <2>2. RowsStay
    BY <1>7, <1>a, <1>b, StatusKept DEF SweepTask, CasLost, CasError
  <2>3. Bill(p, t, d, "none", "sweep") \/ Skip(p, t)
    BY <1>7 DEF SweepTask, CasLost, CasError
  <2> HIDE DEF d
  <2> QED
    BY <1>7, <2>1, <2>2, <2>3, LoopBills, LoopSkips DEF SweepTask
<1>8. ASSUME NEW p \in Pollers, NEW t \in Tasks, BulkFail(p, t)
      PROVE  \A o \in Pollers : LoopInv(o)'
  BY <1>8, <1>a, <1>b, StatusKept, LoopSkips DEF BulkFail
<1>9. ASSUME NEW p \in Pollers, NEW t \in Tasks, FetchFails(p, t)
      PROVE  \A o \in Pollers : LoopInv(o)'
  BY <1>9, <1>a, LoopSkips DEF FetchFails
<1>10. ASSUME NEW p \in Pollers, NEW t \in Tasks, NEW s \in Answers, NEW full \in BOOLEAN,
              NEW a \in Actuals, UpdateVideoTask(p, t, s, full, a)
       PROVE  \A o \in Pollers : LoopInv(o)'
  <2> DEFINE d == CASE s = "SUCCESS" -> SettleDelta(t, a) [] s = "FAILURE" -> -row[t].quota [] OTHER -> 0
  <2>1. d \in Int /\ s \in Status
    BY TaskAssumption DEF TypeOK, Rows, SettleDelta, Answers
  <2>2. RowsStay
    BY <1>10, <1>a, <2>1, StatusKept DEF UpdateVideoTask, CasLost, CasError
  <2>3. Bill(p, t, d, "none", "poll") \/ Skip(p, t)
    BY <1>10 DEF UpdateVideoTask, CasLost, CasError
  <2> HIDE DEF d
  <2> QED
    BY <1>10, <2>1, <2>2, <2>3, LoopBills, LoopSkips DEF UpdateVideoTask
<1>11. ASSUME NEW p \in Pollers, NEW t \in Tasks, NEW s \in Answers, NEW reason \in BOOLEAN,
              UpdateSunoTask(p, t, s, reason)
       PROVE  \A o \in Pollers : LoopInv(o)'
  <2> DEFINE d == IF s = "FAILURE" \/ reason THEN -row[t].quota ELSE 0
             n == IF s \in Open /\ reason THEN "refunded" ELSE s
  <2>1. d \in Int /\ n \in Status \union {"none", "refunded"}
    BY DEF TypeOK, Rows, Answers
  <2>2. Bill(p, t, d, n, "poll") /\ Platform[t] = "suno" /\ t \in loc[p].todo
    BY <1>11 DEF UpdateSunoTask
  <2> HIDE DEF d, n
  <2> QED
    BY <1>11, <1>a, <2>1, <2>2, LoopBills DEF UpdateSunoTask
<1>12. ASSUME NEW f \in Fetchers, NEW s \in Answers, FetchWrite(f, s)
       PROVE  \A o \in Pollers : LoopInv(o)'
  <2>0. fetch[f].task \in Tasks
    BY <1>12 DEF FetchWrite, IInv, FetchInv
  <2>1. RowsStay
    BY <1>12, <2>0, <1>a, StatusKept DEF FetchWrite, RowsStay, Answers
  <2> QED
    BY <1>12, <1>d, <2>1 DEF FetchWrite
<1>13. ASSUME NEW f \in Fetchers, NEW t \in Tasks, FetchRead(f, t)
       PROVE  \A o \in Pollers : LoopInv(o)'
  BY <1>13, <1>a, <1>d DEF FetchRead
<1>14. ASSUME NEW p \in Pollers, PollRead(p) \/ RoundDone(p) \/ Crash(p)
       PROVE  \A o \in Pollers : LoopInv(o)'
  BY <1>14, <1>2, <1>3 DEF PollRead, RoundDone, Crash
<1>15. ASSUME NEW p \in Pollers, NEW S \in SUBSET Unfinished, SweepRead(p, S)
       PROVE  \A o \in Pollers : LoopInv(o)'
  BY <1>15, <1>2 DEF SweepRead
<1> QED
  BY <1>1, <1>4, <1>5, <1>6, <1>7, <1>8, <1>9, <1>10, <1>11, <1>12, <1>13, <1>14, <1>15
  DEF Next, PollerStep

\* Queries are about Gemini and Vertex tasks only.
LEMMA FetchStep == ASSUME IInv, Next PROVE \A g \in Fetchers : FetchInv(g)'
<1>0. fetch \in [Fetchers -> Queries] /\ \A g \in Fetchers : FetchInv(g)
  BY DEF IInv, TypeOK
<1>1. ASSUME NEW f \in Fetchers, NEW t \in Tasks, FetchRead(f, t)
      PROVE  \A g \in Fetchers : FetchInv(g)'
  BY <1>0, <1>1 DEF FetchRead, FetchInv
<1>2. ASSUME NEW f \in Fetchers, NEW s \in Answers, FetchWrite(f, s)
      PROVE  \A g \in Fetchers : FetchInv(g)'
  BY <1>0, <1>2 DEF FetchWrite, FetchInv
<1>3. CASE fetch' = fetch
  BY <1>0, <1>3 DEF FetchInv
<1>4. ASSUME NEW p \in Pollers, PollerStep(p) \/ Crash(p) PROVE fetch' = fetch
  BY <1>4 DEF PollerStep, Crash, SweepRead, PollRead, RoundDone, AdjustFunding, AdjustToken,
              SaveSunoTask, SweepTask, BulkFail, FetchFails, UpdateVideoTask, UpdateSunoTask
<1>5. ASSUME NEW t \in Tasks, NEW q \in Quotas, NEW time \in SubmitTimes, Submit(t, q, time)
      PROVE  fetch' = fetch
  BY <1>5 DEF Submit
<1> QED
  BY <1>1, <1>2, <1>3, <1>4, <1>5 DEF Next

-----------------------------------------------------------------------------
(* What a guarded task has cost                                             *)

\* nothing about t changed, and no loop has begun to bill it
Untouched(t) ==
  /\ row'[t] = row[t]
  /\ paid'[t].fund = paid[t].fund /\ paid'[t].token = paid[t].token
  /\ \A o \in Pollers :
       Billing(o, t)' => /\ Billing(o, t) /\ loc'[o].job.delta = loc[o].job.delta
                         /\ loc'[o].pc = "fund" <=> loc[o].pc = "fund"

\* TaskInv is kept of a task nothing happened to.
LEMMA UntouchedKeeps ==
  ASSUME NEW t \in Tasks, TaskInv(t), Untouched(t) PROVE TaskInv(t)'
<1> SUFFICES ASSUME Guarded(t)' PROVE TaskInv(t)'
  BY DEF TaskInv
<1>1. Guarded(t)
  BY DEF Guarded, Untouched
<1>2. row[t].status # "absent" /\ PaidInv(t) /\ \A o \in Pollers : Billing(o, t) => BillerInv(o, t)
  BY <1>1 DEF TaskInv
<1>3. row'[t].status # "absent" /\ PaidInv(t)'
  BY <1>2 DEF PaidInv, Untouched
<1>4. ASSUME NEW o \in Pollers, Billing(o, t)' PROVE BillerInv(o, t)'
  <2>1. BillerInv(o, t) /\ loc'[o].job.delta = loc[o].job.delta
        /\ (loc'[o].pc = "fund" <=> loc[o].pc = "fund")
    BY <1>2, <1>4 DEF Untouched
  <2>2. \A u \in Pollers : Billing(u, t)' => u = o
    BY <2>1 DEF BillerInv, Untouched
  <2> QED
    BY <2>1, <2>2 DEF BillerInv, Untouched
<1> QED
  BY <1>3, <1>4 DEF TaskInv

\* The conditional update: the winner finds the task open, so that no other loop is
\* billing it and nothing was moved for it yet.
LEMMA CasWins ==
  ASSUME IInv, NEW p \in Pollers, NEW t \in Tasks, NEW s \in Answers, NEW done \in BOOLEAN,
         NEW d \in Int, NEW back \in {"sweep", "poll"},
         loc[p].pc = back, row[t].status = loc[p].seen[t],
         SetStatus(t, s, done), Bill(p, t, d, "none", back), paid' = paid,
         d # 0 => \/ s = "FAILURE" /\ d = -row[t].quota
                  \/ s = "SUCCESS" /\ row[t].quota + d \in Actuals /\ row[t].quota + d # 0
  PROVE  \A u \in Tasks : TaskInv(u)'
<1>0. TypeOK /\ \A u \in Tasks : TaskInv(u)
  BY DEF IInv
<1>1. /\ row'[t].status = s /\ row'[t].quota = row[t].quota /\ row'[t].upstream = row[t].upstream
      /\ \A u \in Tasks \ {t} : row'[u] = row[u]
  BY <1>0, SetStatusEffect
<1>2. /\ d = 0 => loc'[p].pc = back
      /\ d # 0 => loc'[p].pc = "fund" /\ loc'[p].job.task = t /\ loc'[p].job.delta = d
      /\ \A o \in Pollers \ {p} : loc'[o] = loc[o]
  BY <1>0 DEF Bill, TypeOK
<1>3. ASSUME NEW u \in Tasks \ {t} PROVE TaskInv(u)'
  <2>1. Untouched(u)
    BY <1>1, <1>2, <1>3 DEF Untouched, Billing
  <2> QED
    BY <1>0, <2>1, UntouchedKeeps
<1>4. TaskInv(t)'
  <2> SUFFICES ASSUME Guarded(t)' PROVE TaskInv(t)'
    BY DEF TaskInv
  <2>1. Guarded(t)
    BY <1>1 DEF Guarded
  <2>2. row[t].status \in Open
    BY <1>0 DEF TypeOK, Loops
  <2>3. /\ PaidInv(t) /\ \A o \in Pollers : Billing(o, t) => BillerInv(o, t)
    BY <1>0, <2>1 DEF TaskInv
  <2>4. \A o \in Pollers : ~Billing(o, t)
    BY <2>2, <2>3 DEF BillerInv, Open
  <2>5. paid[t].fund = row[t].quota /\ paid[t].token = row[t].quota
    BY <2>2, <2>3 DEF PaidInv
  <2>6. row[t].quota \in Nat
    BY <1>0 DEF TypeOK, Rows
  <2>7. PaidInv(t)' /\ row'[t].status # "absent"
    BY <1>1, <2>5, <2>6 DEF PaidInv, Answers, Status, Open, Terminal
  <2>8. ASSUME NEW o \in Pollers, Billing(o, t)' PROVE BillerInv(o, t)'
    <3>1. o = p /\ d # 0
      BY <1>2, <2>4, <2>8 DEF Billing
    <3>2. \A u \in Pollers : Billing(u, t)' => u = o
      BY <1>2, <2>4, <3>1 DEF Billing
    <3> QED
      BY <1>1, <1>2, <2>5, <2>6, <3>1, <3>2 DEF BillerInv
  <2> QED
    BY <2>7, <2>8 DEF TaskInv
<1> QED
  BY <1>3, <1>4

\* a task that is skipped
LEMMA SkipKeeps ==
  ASSUME IInv, NEW p \in Pollers, NEW t \in Tasks, Skip(p, t), row' = row, paid' = paid \/ Fault(t)
  PROVE  \A u \in Tasks : TaskInv(u)'
<1>0. TypeOK /\ \A u \in Tasks : TaskInv(u)
  BY DEF IInv
<1>1. \A u \in Tasks : Untouched(u)
  <2>1. \A u \in Tasks : paid'[u].fund = paid[u].fund /\ paid'[u].token = paid[u].token
    BY <1>0, FaultEffect DEF Fault
  <2> QED
    BY <1>0, <2>1, SkipEffect DEF Untouched, Billing
<1> QED
  BY <1>0, <1>1, UntouchedKeeps

\* a loop that ends or starts a round, or dies
LEMMA RoundKeeps ==
  ASSUME IInv, NEW p \in Pollers, row' = row,
         \A u \in Tasks : paid'[u].fund = paid[u].fund /\ paid'[u].token = paid[u].token,
         loc'[p].pc \in {"idle", "sweep", "poll"}, \A o \in Pollers \ {p} : loc'[o] = loc[o]
  PROVE  \A u \in Tasks : TaskInv(u)'
<1>0. TypeOK /\ \A u \in Tasks : TaskInv(u)
  BY DEF IInv
<1>1. \A u \in Tasks : Untouched(u)
  BY DEF Untouched, Billing
<1> QED
  BY <1>0, <1>1, UntouchedKeeps

\* The two writes of a billing: only the amount that is due is moved, and a refused or
\* failed write leaves the price of the submission.
LEMMA AdjustFundingKeeps ==
  ASSUME IInv, NEW p \in Pollers, AdjustFunding(p) PROVE \A u \in Tasks : TaskInv(u)'
<1>0. TypeOK /\ (\A u \in Tasks : TaskInv(u)) /\ LoopInv(p)
  BY DEF IInv
<1>t. PICK t \in Tasks, d \in Int : t = loc[p].job.task /\ d = loc[p].job.delta
  BY <1>0, JobType DEF AdjustFunding, LoopInv, TypeOK
<1>1. /\ loc[p].pc = "fund" /\ row' = row
      /\ loc[p].job.save # "none" => Platform[t] = "suno"
  BY <1>0, <1>t DEF AdjustFunding, LoopInv
<1>2. \A o \in Pollers \ {p} : loc'[o] = loc[o]
  BY <1>0, GotoEffect, BilledEffect DEF AdjustFunding
<1>3. \/ /\ paid' = [paid EXCEPT ![t].fund = @ + d]
         /\ loc'[p].pc = "token" /\ loc'[p].job = loc[p].job
      \/ /\ \A u \in Tasks : paid'[u].fund = paid[u].fund /\ paid'[u].token = paid[u].token
         /\ \/ loc'[p].pc \in {"idle", "sweep", "poll"}
            \/ Platform[t] = "suno" /\ loc'[p].pc = "save" /\ loc'[p].job = loc[p].job
  <2>1. CASE loc' = [loc EXCEPT ![p].pc = "token"] /\ paid' = [paid EXCEPT ![t].fund = @ + d]
    BY <1>0, <2>1, GotoEffect
  <2>2. CASE Billed(p) /\ (paid' = paid \/ Fault(t))
    <3>1. \A u \in Tasks : paid'[u].fund = paid[u].fund /\ paid'[u].token = paid[u].token
      BY <1>0, <1>1, <2>2, FaultEffect DEF Fault
    <3> QED
      BY <1>0, <1>1, <2>2, <3>1, BilledEffect
  <2> QED
    BY <1>t, <2>1, <2>2 DEF AdjustFunding
<1>4. ASSUME NEW u \in Tasks, u # t \/ Platform[u] # "video" PROVE TaskInv(u)'
  <2>1. CASE Platform[u] # "video"
    BY <2>1 DEF TaskInv, Guarded
  <2>2. CASE u # t
    <3>1. paid'[u].fund = paid[u].fund /\ paid'[u].token = paid[u].token
      BY <1>0, <1>1, <1>3, <2>2 DEF TypeOK, Accounts
    <3>2. Untouched(u)
      BY <1>t, <1>1, <1>2, <1>3, <2>2, <3>1 DEF Untouched, Billing
    <3> QED
      BY <1>0, <3>2, UntouchedKeeps
  <2> QED
    BY <1>4, <2>1, <2>2
<1>5. ASSUME Platform[t] = "video", Guarded(t)' PROVE TaskInv(t)'
  <2>1. Guarded(t) /\ BillerInv(p, t) /\ PaidInv(t) /\ row[t].status # "absent"
    BY <1>t, <1>0, <1>1, <1>5 DEF Guarded, TaskInv, Billing
  <2>2. \A o \in Pollers : Billing(o, t)' => o = p
    BY <1>2, <2>1 DEF BillerInv, Billing
  <2>3. CASE paid' = [paid EXCEPT ![t].fund = @ + d] /\ loc'[p].pc = "token" /\ loc'[p].job = loc[p].job
    <3>1. paid'[t].fund = row[t].quota + d /\ paid'[t].token = row[t].quota /\ row[t].quota \in Nat
      BY <1>t, <1>0, <1>1, <2>1, <2>3 DEF BillerInv, TypeOK, Accounts, Rows
    <3>2. PaidInv(t)'
      BY <1>t, <1>1, <2>1, <3>1 DEF PaidInv, BillerInv, Open
    <3>3. BillerInv(p, t)'
      BY <1>t, <1>1, <2>1, <2>2, <2>3, <3>1 DEF BillerInv
    <3> QED
      BY <1>1, <2>1, <2>2, <3>2, <3>3 DEF TaskInv
  <2>4. CASE /\ paid'[t].fund = paid[t].fund /\ paid'[t].token = paid[t].token
             /\ loc'[p].pc \in {"idle", "sweep", "poll"}
    <3>1. Untouched(t)
      BY <1>1, <2>2, <2>4 DEF Untouched, Billing
    <3> QED
      BY <1>0, <1>1, <3>1, UntouchedKeeps
  <2> QED
    BY <1>1, <1>3, <1>5, <2>3, <2>4
<1>6. TaskInv(t)'
  BY <1>1, <1>4, <1>5 DEF TaskInv, Guarded
<1> QED
  BY <1>4, <1>6

\* The second write, at the token, keeps TaskInv.
LEMMA AdjustTokenKeeps ==
  ASSUME IInv, NEW p \in Pollers, AdjustToken(p) PROVE \A u \in Tasks : TaskInv(u)'
<1>0. TypeOK /\ (\A u \in Tasks : TaskInv(u)) /\ LoopInv(p)
  BY DEF IInv
<1>t. PICK t \in Tasks, d \in Int : t = loc[p].job.task /\ d = loc[p].job.delta
  BY <1>0, JobType DEF AdjustToken, LoopInv, TypeOK
<1>1. /\ loc[p].pc = "token" /\ row' = row
      /\ loc[p].job.save # "none" => Platform[t] = "suno"
  BY <1>0, <1>t DEF AdjustToken, LoopInv
<1>2. /\ \A o \in Pollers \ {p} : loc'[o] = loc[o]
      /\ \/ loc'[p].pc \in {"idle", "sweep", "poll"}
         \/ Platform[t] = "suno" /\ loc'[p].pc = "save" /\ loc'[p].job = loc[p].job
  BY <1>0, <1>t, <1>1, BilledEffect DEF AdjustToken
<1>3. \/ paid' = [paid EXCEPT ![t].token = @ + d]
      \/ \A u \in Tasks : paid'[u].fund = paid[u].fund /\ paid'[u].token = paid[u].token
  BY <1>0, <1>t, <1>1, FaultEffect DEF AdjustToken, Fault
<1>4. ASSUME NEW u \in Tasks, u # t \/ Platform[u] # "video" PROVE TaskInv(u)'
  <2>1. CASE Platform[u] # "video"
    BY <2>1 DEF TaskInv, Guarded
  <2>2. CASE u # t
    <3>1. paid'[u].fund = paid[u].fund /\ paid'[u].token = paid[u].token
      BY <1>0, <1>1, <1>3, <2>2 DEF TypeOK, Accounts
    <3>2. Untouched(u)
      BY <1>t, <1>1, <1>2, <2>2, <3>1 DEF Untouched, Billing
    <3> QED
      BY <1>0, <3>2, UntouchedKeeps
  <2> QED
    BY <1>4, <2>1, <2>2
<1>5. ASSUME Platform[t] = "video", Guarded(t)' PROVE TaskInv(t)'
  <2>1. Guarded(t) /\ BillerInv(p, t) /\ PaidInv(t) /\ row[t].status # "absent"
    BY <1>t, <1>0, <1>1, <1>5 DEF Guarded, TaskInv, Billing
  <2>2. \A o \in Pollers : ~Billing(o, t)'
    BY <1>2, <1>5, <2>1 DEF BillerInv, Billing
  <2>3. /\ paid'[t].fund = paid[t].fund
        /\ paid'[t].token = row[t].quota \/ paid'[t].token = row[t].quota + d
        /\ row[t].quota \in Nat
    BY <1>t, <1>0, <1>1, <1>3, <2>1 DEF BillerInv, TypeOK, Accounts, Rows
  <2>4. PaidInv(t)'
    BY <1>t, <1>1, <2>1, <2>3 DEF PaidInv, BillerInv, Open
  <2> QED
    BY <1>1, <2>1, <2>2, <2>4 DEF TaskInv
<1>6. TaskInv(t)'
  BY <1>1, <1>4, <1>5 DEF TaskInv, Guarded
<1> QED
  BY <1>4, <1>6

\* A submission starts at the price it was settled at.
LEMMA SubmitKeeps ==
  ASSUME IInv, NEW t \in Tasks, NEW q \in Quotas, NEW time \in SubmitTimes, Submit(t, q, time)
  PROVE  \A u \in Tasks : TaskInv(u)'
<1>0. TypeOK /\ \A u \in Tasks : TaskInv(u)
  BY DEF IInv
<1>1. loc' = loc /\ \A u \in Tasks \ {t} : row'[u] = row[u] /\ paid'[u] = paid[u]
  BY <1>0 DEF Submit, TypeOK
<1>2. \A u \in Tasks \ {t} : TaskInv(u)'
  BY <1>0, <1>1, UntouchedKeeps DEF Untouched, Billing
<1>3. \A o \in Pollers : ~Billing(o, t)'
  BY <1>1 DEF Billing, IInv, LoopInv, Submit
<1>4. paid'[t].fund = q /\ paid'[t].token = q
  BY <1>0 DEF Submit, TypeOK
<1> DEFINE new(up) == [status |-> "NOT_START", done |-> FALSE, quota |-> q, submitted |-> time,
                       upstream |-> up]
<1>5. (row'[t].status = "NOT_START" /\ row'[t].quota = q) \/ row' = row
  <2>1. (\E up \in BOOLEAN : row' = [row EXCEPT ![t] = new(up)]) \/ row' = row
    BY DEF Submit
  <2>2. ASSUME NEW up \in BOOLEAN, row' = [row EXCEPT ![t] = new(up)]
        PROVE  row'[t].status = "NOT_START" /\ row'[t].quota = q
    BY <1>0, <2>2 DEF TypeOK
  <2> QED
    BY <2>1, <2>2
<1>6. TaskInv(t)'
  <2>1. CASE row' = row
    BY <1>0, <2>1 DEF TaskInv, Guarded, Submit
  <2>2. CASE row'[t].status = "NOT_START" /\ row'[t].quota = q
    BY <1>3, <1>4, <2>2 DEF TaskInv, PaidInv, Open
  <2> QED
    BY <1>5, <2>1, <2>2
<1> QED
  BY <1>2, <1>6

\* Every action keeps TaskInv.
LEMMA TaskStep == ASSUME IInv, Next PROVE \A u \in Tasks : TaskInv(u)'
<1>0. TypeOK /\ \A u \in Tasks : TaskInv(u)
  BY DEF IInv
<1>1. ASSUME NEW p \in Pollers, NEW S \in SUBSET Unfinished, NEW l \in {"sweep", "poll"},
             loc' = [loc EXCEPT ![p] = Round(l, S)], row' = row, paid' = paid
      PROVE  \A u \in Tasks : TaskInv(u)'
  <2>1. loc'[p].pc = l /\ \A o \in Pollers \ {p} : loc'[o] = loc[o]
    BY <1>0, <1>1 DEF Round, TypeOK
  <2> QED
    BY <1>1, <2>1, RoundKeeps
<1>2. ASSUME NEW p \in Pollers, NEW S \in SUBSET Unfinished, SweepRead(p, S)
      PROVE  \A u \in Tasks : TaskInv(u)'
  BY <1>1, <1>2 DEF SweepRead
<1>3. ASSUME NEW p \in Pollers, PollRead(p) PROVE \A u \in Tasks : TaskInv(u)'
  BY <1>1, <1>3 DEF PollRead
<1>4. ASSUME NEW p \in Pollers, RoundDone(p) \/ Crash(p) PROVE \A u \in Tasks : TaskInv(u)'
  <2>1. loc'[p].pc = "idle" /\ \A o \in Pollers \ {p} : loc'[o] = loc[o]
    BY <1>0, <1>4 DEF RoundDone, Crash, Idle, TypeOK
  <2>2. loc[p].pc \in {"fund", "token", "save"} => loc[p].job.task \in Tasks
    BY DEF IInv, LoopInv
  <2>3. \A u \in Tasks : paid'[u].fund = paid[u].fund /\ paid'[u].token = paid[u].token
    BY <1>0, <1>4, <2>2, FaultEffect DEF RoundDone, Crash
  <2> QED
    BY <1>4, <2>1, <2>3, RoundKeeps DEF RoundDone, Crash
<1>5. ASSUME NEW p \in Pollers, SaveSunoTask(p) PROVE \A u \in Tasks : TaskInv(u)'
  <2>1. PICK t \in Tasks : t = loc[p].job.task /\ Platform[t] = "suno"
    BY <1>5 DEF SaveSunoTask, IInv, LoopInv
  <2>2. /\ loc'[p].pc \in {"idle", "sweep", "poll"} /\ \A o \in Pollers \ {p} : loc'[o] = loc[o]
        /\ \A u \in Tasks \ {t} : row'[u] = row[u]
        /\ \A u \in Tasks : paid'[u].fund = paid[u].fund /\ paid'[u].token = paid[u].token
    BY <1>0, <1>5, <2>1, ResumeEffect, SetStatusEffect, FaultEffect DEF SaveSunoTask, Fault
  <2>3. ASSUME NEW u \in Tasks \ {t} PROVE TaskInv(u)'
    BY <1>0, <2>2, UntouchedKeeps DEF Untouched, Billing
  <2>4. TaskInv(t)'
    BY <2>1 DEF TaskInv, Guarded
  <2> QED
    BY <2>3, <2>4
<1>6. ASSUME NEW p \in Pollers, NEW t \in Tasks, SweepTask(p, t) PROVE \A u \in Tasks : TaskInv(u)'
  <2> DEFINE d == IF IsLegacy(t) THEN 0 ELSE -row[t].quota
  <2>1. d \in Int /\ (d # 0 => d = -row[t].quota) /\ "FAILURE" \in Answers
    BY <1>0 DEF TypeOK, Rows, Answers, Status, Terminal
  <2>2. CASE /\ row[t].status = loc[p].seen[t] /\ SetStatus(t, "FAILURE", TRUE)
             /\ Bill(p, t, d, "none", "sweep") /\ paid' = paid
    <3>1. loc[p].pc = "sweep"
      BY <1>6 DEF SweepTask
    <3> HIDE DEF d
    <3> QED
      BY <2>1, <2>2, <3>1, CasWins
  <2>3. CASE CasLost(p, t) \/ CasError(p, t)
    BY <2>3, SkipKeeps DEF CasLost, CasError
  <2> QED
    BY <1>6, <2>2, <2>3 DEF SweepTask
<1>7. ASSUME NEW p \in Pollers, NEW t \in Tasks, BulkFail(p, t) PROVE \A u \in Tasks : TaskInv(u)'
  <2>1. CASE row' = row
    BY <1>7, <2>1, SkipKeeps DEF BulkFail, SetStatus
  <2>2. CASE SetStatus(t, "FAILURE", TRUE) /\ paid' = paid
    <3>1. /\ \A u \in Tasks \ {t} : row'[u] = row[u]
          /\ row'[t].upstream = row[t].upstream
      BY <1>0, <2>2, SetStatusEffect
    <3>2. ~Guarded(t)'
      BY <1>7, <3>1 DEF BulkFail, Guarded
    <3>3. /\ loc'[p].pc = loc[p].pc /\ loc'[p].job = loc[p].job
          /\ \A o \in Pollers \ {p} : loc'[o] = loc[o]
      BY <1>0, <1>7, SkipEffect DEF BulkFail
    <3>4. ASSUME NEW u \in Tasks \ {t} PROVE TaskInv(u)'
      BY <1>0, <2>2, <3>1, <3>3, UntouchedKeeps DEF Untouched, Billing
    <3> QED
      BY <3>2, <3>4 DEF TaskInv
  <2> QED
    BY <1>7, <2>1, <2>2 DEF BulkFail
<1>8. ASSUME NEW p \in Pollers, NEW t \in Tasks, FetchFails(p, t) PROVE \A u \in Tasks : TaskInv(u)'
  BY <1>8, SkipKeeps DEF FetchFails
<1>9. ASSUME NEW p \in Pollers, NEW t \in Tasks, NEW s \in Answers, NEW full \in BOOLEAN,
             NEW a \in Actuals, UpdateVideoTask(p, t, s, full, a)
      PROVE  \A u \in Tasks : TaskInv(u)'
  <2> DEFINE d == CASE s = "SUCCESS" -> SettleDelta(t, a) [] s = "FAILURE" -> -row[t].quota [] OTHER -> 0
             e == full \/ s \in Terminal
  <2>1. /\ d \in Int /\ e \in BOOLEAN
        /\ d # 0 => \/ s = "FAILURE" /\ d = -row[t].quota
                    \/ s = "SUCCESS" /\ row[t].quota + d \in Actuals /\ row[t].quota + d # 0
    BY <1>0, TaskAssumption DEF TypeOK, Rows, SettleDelta
  <2>2. CASE /\ row[t].status = loc[p].seen[t] /\ SetStatus(t, s, e)
             /\ Bill(p, t, d, "none", "poll") /\ paid' = paid
    <3>1. loc[p].pc = "poll"
      BY <1>9 DEF UpdateVideoTask
    <3> HIDE DEF d, e
    <3> QED
      BY <2>1, <2>2, <3>1, CasWins
  <2>3. CASE CasLost(p, t) \/ CasError(p, t)
    BY <2>3, SkipKeeps DEF CasLost, CasError
  <2> QED
    BY <1>9, <2>2, <2>3 DEF UpdateVideoTask
<1>10. ASSUME NEW p \in Pollers, NEW t \in Tasks, NEW s \in Answers, NEW reason \in BOOLEAN,
              UpdateSunoTask(p, t, s, reason)
       PROVE  \A u \in Tasks : TaskInv(u)'
  <2>1. Platform[t] = "suno" /\ row' = row /\ paid' = paid /\ loc[p].pc = "poll"
    BY <1>10 DEF UpdateSunoTask
  <2>2. /\ loc'[p].job.task = t \/ loc'[p].pc = "poll"
        /\ \A o \in Pollers \ {p} : loc'[o] = loc[o]
    BY <1>0, <1>10 DEF UpdateSunoTask, Bill, TypeOK
  <2>3. ASSUME NEW u \in Tasks \ {t} PROVE TaskInv(u)'
    BY <1>0, <2>1, <2>2, UntouchedKeeps DEF Untouched, Billing
  <2>4. TaskInv(t)'
    BY <2>1 DEF TaskInv, Guarded
  <2> QED
    BY <2>3, <2>4
<1>11. ASSUME NEW f \in Fetchers, NEW s \in Answers, FetchWrite(f, s)
       PROVE  \A u \in Tasks : TaskInv(u)'
  <2>1. PICK t \in Tasks : t = fetch[f].task /\ Platform[t] = "gemini"
    BY <1>11 DEF FetchWrite, IInv, FetchInv
  <2>2. loc' = loc /\ paid' = paid /\ \A u \in Tasks \ {t} : row'[u] = row[u]
    BY <1>0, <1>11, <2>1, SetStatusEffect DEF FetchWrite
  <2>3. ASSUME NEW u \in Tasks \ {t} PROVE TaskInv(u)'
    BY <1>0, <2>2, UntouchedKeeps DEF Untouched, Billing
  <2>4. TaskInv(t)'
    BY <2>1 DEF TaskInv, Guarded
  <2> QED
    BY <2>3, <2>4
<1>12. ASSUME NEW f \in Fetchers, NEW t \in Tasks, FetchRead(f, t)
       PROVE  \A u \in Tasks : TaskInv(u)'
  BY <1>0, <1>12, UntouchedKeeps DEF FetchRead, Untouched, Billing
<1> QED
  BY <1>2, <1>3, <1>4, <1>5, <1>6, <1>7, <1>8, <1>9, <1>10, <1>11, <1>12, SubmitKeeps,
     AdjustFundingKeeps, AdjustTokenKeeps DEF Next, PollerStep

-----------------------------------------------------------------------------
(* The invariant and what follows from it                                   *)

\* The invariant holds initially.
LEMMA InvInit == ASSUME Init PROVE IInv
<1>1. TypeOK
  BY IdleType DEF Init, TypeOK, Rows, NoRow, Queries, Accounts, Status, Open
<1>2. \A p \in Pollers : LoopInv(p)
  BY DEF Init, LoopInv, Idle
<1>3. \A f \in Fetchers : FetchInv(f)
  BY DEF Init, FetchInv
<1>4. \A t \in Tasks : TaskInv(t)
  BY DEF Init, NoRow, TaskInv, Guarded
<1> QED
  BY <1>1, <1>2, <1>3, <1>4 DEF IInv

\* Stuttering keeps the invariant.
LEMMA InvStutter == ASSUME IInv, UNCHANGED vars PROVE IInv'
BY DEF IInv, vars, TypeOK, LoopInv, FetchInv, TaskInv, Guarded, Billing, BillerInv, PaidInv

\* IInv is an inductive invariant: every action of the loops, of the users' queries and
\* of the failures keeps it.
THEOREM Invariance == Spec => []IInv
<1>1. ASSUME IInv, [Next]_vars PROVE IInv'
  <2>1. CASE Next
    BY <1>1, <2>1, TypeStep, LoopStep, FetchStep, TaskStep DEF IInv
  <2>2. CASE UNCHANGED vars
    BY <1>1, <2>2, InvStutter
  <2> QED
    BY <1>1, <2>1, <2>2
<1> QED
  BY InvInit, <1>1, PTL DEF Spec

\* Rows, loops, queries and accounts keep their types, whatever fails.
THEOREM TypeCorrect == Spec => []TypeOK
<1>1. IInv => TypeOK
  BY DEF IInv
<1> QED
  BY Invariance, <1>1, PTL

\* The conditional update by status is enough to bill a guarded task at most once: any
\* number of nodes may sweep and poll it, and die and start again, at any time.
THEOREM BilledOnce == Spec => []BilledAtMostOnce
<1>1. ASSUME IInv, NEW t \in Tasks, Guarded(t)
      PROVE  /\ paid[t].fund \in {0, row[t].quota} \union Actuals
             /\ paid[t].token \in {0, row[t].quota} \union Actuals
             /\ row[t].status \in Open => paid[t].fund = row[t].quota
             /\ row[t].status = "SUCCESS" => paid[t].fund # 0 \/ row[t].quota = 0
  <2>1. row[t].status \in Open \union Terminal /\ PaidInv(t)
    BY <1>1 DEF IInv, TaskInv, TypeOK, Rows, Status
  <2> QED
    BY <2>1 DEF PaidInv, Terminal
<1>2. IInv => BilledAtMostOnce
  BY <1>1 DEF BilledAtMostOnce
<1> QED
  BY Invariance, <1>2, PTL

-----------------------------------------------------------------------------
(* A finished task stays as it is                                           *)

\* who may write the status of a finished task
LEMMA FinalStep ==
  ASSUME IInv, Next, NEW t \in Tasks, Guarded(t), row[t].status \in Terminal
  PROVE  row'[t].status = row[t].status
<1>0. TypeOK /\ (\A f \in Fetchers : FetchInv(f)) /\ (\A p \in Pollers : LoopInv(p))
  BY DEF IInv
<1>1. ASSUME NEW u \in Tasks, NEW q \in Quotas, NEW time \in SubmitTimes, Submit(u, q, time)
      PROVE  row'[t].status = row[t].status
  BY <1>0, <1>1 DEF Submit, TypeOK, Terminal
<1>2. ASSUME NEW p \in Pollers, NEW u \in Tasks, NEW s, NEW d, SetStatus(u, s, d),
             row[u].status = loc[p].seen[u]
      PROVE  row'[t].status = row[t].status
  <2>1. row[u].status \in Open
    BY <1>0, <1>2 DEF TypeOK, Loops
  <2>2. u # t
    BY <2>1 DEF Open, Terminal
  <2> QED
    BY <1>0, <1>2, <2>2, SetStatusEffect
<1>3. ASSUME NEW p \in Pollers, NEW u \in Tasks, SweepTask(p, u)
      PROVE  row'[t].status = row[t].status
  BY <1>2, <1>3 DEF SweepTask, CasLost, CasError
<1>4. ASSUME NEW p \in Pollers, NEW u \in Tasks, NEW s \in Answers, NEW full \in BOOLEAN,
             NEW a \in Actuals, UpdateVideoTask(p, u, s, full, a)
      PROVE  row'[t].status = row[t].status
  BY <1>2, <1>4 DEF UpdateVideoTask, CasLost, CasError
<1>5. ASSUME NEW p \in Pollers, NEW u \in Tasks, BulkFail(p, u)
      PROVE  row'[t].status = row[t].status
  <2>1. CASE row' = row
    BY <2>1
  <2>2. CASE SetStatus(u, "FAILURE", TRUE)
    BY <1>0, <1>5, <2>2, SetStatusEffect DEF BulkFail, Guarded
  <2> QED
    BY <1>5, <2>1, <2>2 DEF BulkFail
<1>6. ASSUME NEW p \in Pollers, SaveSunoTask(p) PROVE row'[t].status = row[t].status
  <2>1. loc[p].job.task \in Tasks /\ Platform[loc[p].job.task] = "suno"
    BY <1>0, <1>6 DEF SaveSunoTask, LoopInv
  <2>2. loc[p].job.task # t
    BY <2>1 DEF Guarded
  <2> QED
    BY <1>0, <1>6, <2>1, <2>2, SetStatusEffect DEF SaveSunoTask
<1>7. ASSUME NEW f \in Fetchers, NEW s \in Answers, FetchWrite(f, s)
      PROVE  row'[t].status = row[t].status
  <2>1. fetch[f].task \in Tasks /\ fetch[f].task # t
    BY <1>0, <1>7 DEF FetchWrite, FetchInv, Guarded
  <2> QED
    BY <1>0, <1>7, <2>1, SetStatusEffect DEF FetchWrite
<1>8. ASSUME NEW f \in Fetchers, NEW u \in Tasks, FetchRead(f, u)
      PROVE  row'[t].status = row[t].status
  BY <1>8 DEF FetchRead
<1>9. ASSUME NEW p \in Pollers,
             \/ (\E S \in SUBSET Unfinished : SweepRead(p, S)) \/ PollRead(p) \/ RoundDone(p)
             \/ AdjustFunding(p) \/ AdjustToken(p) \/ Crash(p)
      PROVE  row'[t].status = row[t].status
  BY <1>9 DEF SweepRead, PollRead, RoundDone, AdjustFunding, AdjustToken, Crash
<1>10. ASSUME NEW p \in Pollers, NEW u \in Tasks, FetchFails(p, u)
       PROVE  row'[t].status = row[t].status
  BY <1>10 DEF FetchFails
<1>11. ASSUME NEW p \in Pollers, NEW u \in Tasks, NEW s \in Answers, NEW reason \in BOOLEAN,
              UpdateSunoTask(p, u, s, reason)
       PROVE  row'[t].status = row[t].status
  BY <1>11 DEF UpdateSunoTask
<1> QED
  BY <1>1, <1>3, <1>4, <1>5, <1>6, <1>7, <1>8, <1>9, <1>10, <1>11 DEF Next, PollerStep

\* No loop, however stale what it read, and no restart moves a guarded task out of
\* SUCCESS or FAILURE.
THEOREM FinalStatus == Spec => TerminalIsFinal
<1>1. ASSUME IInv, [Next]_vars
      PROVE  [\A t \in Tasks :
                Guarded(t) /\ row[t].status \in Terminal => row'[t].status = row[t].status]_vars
  BY <1>1, FinalStep DEF vars
<1> QED
  BY Invariance, <1>1, PTL DEF Spec, TerminalIsFinal

-----------------------------------------------------------------------------
(* A failed task is refunded                                                *)

\* a guarded task has failed and its refund is through
Closed(t) ==
  /\ Guarded(t) /\ paid[t].clean
  /\ row[t].status = "FAILURE" /\ ~IsLegacy(t)
  /\ \A p \in Pollers : ~Billing(p, t)
Refunded(t) == Closed(t) => paid[t].fund = 0 /\ paid[t].token = 0

\* nothing about t changed, and a billing of it that has ended has left a mark
Quiet(t) ==
  /\ row'[t] = row[t]
  /\ paid'[t].fund = paid[t].fund /\ paid'[t].token = paid[t].token
  /\ paid'[t].clean => paid[t].clean /\ \A o \in Pollers : Billing(o, t) => Billing(o, t)'

\* A refunded task nothing happened to stays refunded.
LEMMA QuietKeeps ==
  ASSUME NEW t \in Tasks, Refunded(t), Quiet(t) PROVE Refunded(t)'
BY DEF Refunded, Closed, Quiet, Guarded, IsLegacy

\* A failed write marks the task it is about, and no other.
LEMMA FaultMarks ==
  ASSUME TypeOK, NEW t \in Tasks, paid' = [paid EXCEPT ![t].clean = FALSE]
  PROVE  /\ ~paid'[t].clean
         /\ \A u \in Tasks \ {t} : paid'[u] = paid[u]
BY DEF TypeOK, Accounts

\* A status write keeps the submission time.
LEMMA SetStatusKeepsTime ==
  ASSUME TypeOK, NEW t \in Tasks, NEW s, NEW d, SetStatus(t, s, d)
  PROVE  row'[t].submitted = row[t].submitted
BY DEF TypeOK, Rows, SetStatus

\* A submission does not touch a refunded task.
LEMMA RefundSubmit ==
  ASSUME IInv, NEW u \in Tasks, NEW q \in Quotas, NEW time \in SubmitTimes, Submit(u, q, time),
         NEW t \in Tasks, Refunded(t)
  PROVE  Refunded(t)'
<1>0. TypeOK
  BY DEF IInv
<1>1. CASE t = u
  <2> DEFINE new(up) == [status |-> "NOT_START", done |-> FALSE, quota |-> q,
                         submitted |-> time, upstream |-> up]
  <2>1. (\E up \in BOOLEAN : row' = [row EXCEPT ![u] = new(up)]) \/ row' = row
    BY DEF Submit
  <2>2. ASSUME NEW up \in BOOLEAN, row' = [row EXCEPT ![u] = new(up)]
        PROVE  row'[u].status = "NOT_START"
    BY <1>0, <2>2 DEF TypeOK
  <2>3. row'[t].status # "FAILURE"
    BY <1>1, <2>1, <2>2 DEF Submit
  <2> QED
    BY <2>3 DEF Refunded, Closed
<1>2. CASE t # u
  BY <1>0, <1>2, QuietKeeps DEF Submit, TypeOK, Quiet, Billing
<1> QED
  BY <1>1, <1>2

\* Reading a round, or ending it, does not touch a refunded task.
LEMMA RefundRound ==
  ASSUME IInv, NEW p \in Pollers, row' = row, paid' = paid, loc[p].pc \in {"idle", "sweep", "poll"},
         \A o \in Pollers \ {p} : loc'[o] = loc[o], NEW t \in Tasks, Refunded(t)
  PROVE  Refunded(t)'
BY QuietKeeps DEF Quiet, Billing

\* Skipping a task does not touch a refunded one.
LEMMA RefundSkip ==
  ASSUME IInv, NEW p \in Pollers, NEW u \in Tasks, Skip(p, u), row' = row, paid' = paid \/ Fault(u),
         NEW t \in Tasks, Refunded(t)
  PROVE  Refunded(t)'
<1>0. TypeOK
  BY DEF IInv
<1>1. /\ paid'[t].fund = paid[t].fund /\ paid'[t].token = paid[t].token
      /\ paid'[t].clean => paid[t].clean
  BY <1>0, FaultEffect, FaultMarks DEF Fault
<1>2. \A o \in Pollers : Billing(o, t) => Billing(o, t)'
  BY <1>0, SkipEffect DEF Billing
<1> QED
  BY <1>1, <1>2, QuietKeeps DEF Quiet

\* the winner of a transition to FAILURE bills, unless there is nothing to refund
LEMMA RefundCas ==
  ASSUME IInv, NEW p \in Pollers, NEW u \in Tasks, NEW s \in Answers, NEW done \in BOOLEAN,
         NEW d \in Int, NEW back \in {"sweep", "poll"},
         loc[p].pc = back, row[u].status = loc[p].seen[u],
         SetStatus(u, s, done), Bill(p, u, d, "none", back), paid' = paid,
         s = "FAILURE" /\ ~IsLegacy(u) => d = -row[u].quota,
         NEW t \in Tasks, Refunded(t)
  PROVE  Refunded(t)'
<1>0. TypeOK /\ TaskInv(u)
  BY DEF IInv
<1>1. /\ row'[u].status = s /\ row'[u].upstream = row[u].upstream /\ row'[u].submitted = row[u].submitted
      /\ \A v \in Tasks \ {u} : row'[v] = row[v]
  BY <1>0, SetStatusEffect, SetStatusKeepsTime
<1>2. /\ d # 0 => loc'[p].pc = "fund" /\ loc'[p].job.task = u
      /\ \A o \in Pollers \ {p} : loc'[o] = loc[o]
  BY <1>0 DEF Bill, TypeOK
<1>3. CASE t # u
  BY <1>1, <1>2, <1>3, QuietKeeps DEF Quiet, Billing
<1>4. CASE t = u
  <2> SUFFICES ASSUME Closed(t)' PROVE paid'[t].fund = 0 /\ paid'[t].token = 0
    BY DEF Refunded
  <2>1. Guarded(u) /\ ~IsLegacy(u) /\ s = "FAILURE"
    BY <1>1, <1>4 DEF Closed, Guarded, IsLegacy
  <2>2. d = 0
    BY <1>2, <1>4 DEF Closed, Billing
  <2>3. row[u].quota \in Nat /\ row[u].status \in Open
    BY <1>0 DEF TypeOK, Rows, Loops
  <2>4. row[u].quota = 0
    BY <2>1, <2>2, <2>3
  <2>5. paid[u].fund = row[u].quota /\ paid[u].token = row[u].quota
    BY <1>0, <2>1, <2>3 DEF TaskInv, PaidInv
  <2> QED
    BY <1>4, <2>4, <2>5
<1> QED
  BY <1>3, <1>4

\* The write at the funding source is not yet the end of a refund.
LEMMA RefundFunding ==
  ASSUME IInv, NEW p \in Pollers, AdjustFunding(p), NEW t \in Tasks, Refunded(t)
  PROVE  Refunded(t)'
<1>0. TypeOK /\ TaskInv(t) /\ LoopInv(p)
  BY DEF IInv
<1>t. PICK u \in Tasks, d \in Int : u = loc[p].job.task /\ d = loc[p].job.delta
  BY <1>0, JobType DEF AdjustFunding, LoopInv, TypeOK
<1>1. loc[p].pc = "fund" /\ row' = row /\ \A o \in Pollers \ {p} : loc'[o] = loc[o]
  BY <1>0, GotoEffect, BilledEffect DEF AdjustFunding
<1>2. CASE t # u
  <2>1. paid'[t] = paid[t]
    BY <1>0, <1>t, <1>2, FaultMarks DEF AdjustFunding, TypeOK, Fault
  <2> QED
    BY <1>t, <1>1, <1>2, <2>1, QuietKeeps DEF Quiet, Billing
<1>3. CASE t = u
  <2> SUFFICES ASSUME Closed(t)' PROVE FALSE
    BY DEF Refunded
  <2>1. Guarded(t) /\ row[t].status = "FAILURE" /\ row[t].quota \in Nat
    BY <1>0, <1>1 DEF Closed, Guarded, TypeOK, Rows
  <2>2. d = -row[t].quota
    BY <1>0, <1>t, <1>1, <1>3, <2>1 DEF TaskInv, BillerInv, Billing
  <2>3. ~(loc' = [loc EXCEPT ![p].pc = "token"])
    BY <1>0, <1>t, <1>3, GotoEffect DEF Closed, Billing
  <2>4. ~Fault(u)
    BY <1>0, <1>3, FaultMarks DEF Fault, Closed
  <2> QED
    BY <1>t, <2>1, <2>2, <2>3, <2>4 DEF AdjustFunding
<1> QED
  BY <1>2, <1>3

\* After the write at the token the refund is complete.
LEMMA RefundToken ==
  ASSUME IInv, NEW p \in Pollers, AdjustToken(p), NEW t \in Tasks, Refunded(t)
  PROVE  Refunded(t)'
<1>0. TypeOK /\ TaskInv(t) /\ LoopInv(p)
  BY DEF IInv
<1>t. PICK u \in Tasks, d \in Int : u = loc[p].job.task /\ d = loc[p].job.delta
  BY <1>0, JobType DEF AdjustToken, LoopInv, TypeOK
<1>1. loc[p].pc = "token" /\ row' = row /\ \A o \in Pollers \ {p} : loc'[o] = loc[o]
  BY <1>0, BilledEffect DEF AdjustToken
<1>2. CASE t # u
  <2>1. paid'[t] = paid[t]
    BY <1>0, <1>t, <1>2, FaultMarks DEF AdjustToken, TypeOK, Fault
  <2> QED
    BY <1>t, <1>1, <1>2, <2>1, QuietKeeps DEF Quiet, Billing
<1>3. CASE t = u
  <2> SUFFICES ASSUME Closed(t)' PROVE paid'[t].fund = 0 /\ paid'[t].token = 0
    BY DEF Refunded
  <2>1. Guarded(t) /\ row[t].status = "FAILURE" /\ row[t].quota \in Nat
    BY <1>0, <1>1 DEF Closed, Guarded, TypeOK, Rows
  <2>2. /\ d = -row[t].quota /\ paid[t].token = row[t].quota
        /\ paid[t].fund = row[t].quota + d
    BY <1>0, <1>t, <1>1, <1>3, <2>1 DEF TaskInv, BillerInv, Billing
  <2>3. ~Fault(u)
    BY <1>0, <1>3, FaultMarks DEF Fault, Closed
  <2>4. paid' = [paid EXCEPT ![t].token = @ + d]
    BY <1>t, <1>3, <2>3 DEF AdjustToken
  <2>5. paid'[t].fund = paid[t].fund /\ paid'[t].token = paid[t].token + d
    BY <1>0, <2>4 DEF TypeOK, Accounts
  <2> QED
    BY <2>1, <2>2, <2>5
<1> QED
  BY <1>2, <1>3

\* The save of a Suno task does not touch a guarded task.
LEMMA RefundSave ==
  ASSUME IInv, NEW p \in Pollers, SaveSunoTask(p), NEW t \in Tasks, Refunded(t)
  PROVE  Refunded(t)'
<1>0. TypeOK /\ LoopInv(p)
  BY DEF IInv
<1>1. PICK u \in Tasks : u = loc[p].job.task /\ Platform[u] = "suno"
  BY <1>0 DEF SaveSunoTask, LoopInv
<1>2. CASE t = u
  BY <1>1, <1>2 DEF Refunded, Closed, Guarded
<1>3. CASE t # u
  <2>1. row'[t] = row[t] /\ paid'[t] = paid[t] /\ \A o \in Pollers \ {p} : loc'[o] = loc[o]
    BY <1>0, <1>1, <1>3, SetStatusEffect, FaultMarks, ResumeEffect DEF SaveSunoTask, Fault
  <2> QED
    BY <1>1, <1>3, <2>1, QuietKeeps DEF Quiet, Billing
<1> QED
  BY <1>2, <1>3

\* A node that dies while billing leaves a mark.
LEMMA RefundCrash ==
  ASSUME IInv, NEW p \in Pollers, Crash(p), NEW t \in Tasks, Refunded(t)
  PROVE  Refunded(t)'
<1>0. TypeOK /\ LoopInv(p)
  BY DEF IInv
<1>1. row' = row /\ \A o \in Pollers \ {p} : loc'[o] = loc[o]
  BY <1>0 DEF Crash, TypeOK
<1>2. CASE Billing(p, t)
  <2>1. paid' = [paid EXCEPT ![t].clean = FALSE]
    BY <1>2 DEF Crash, Billing
  <2> QED
    BY <1>0, <2>1, FaultMarks DEF Refunded, Closed
<1>3. CASE ~Billing(p, t)
  <2>1. paid'[t] = paid[t]
    BY <1>0, <1>3, FaultMarks DEF Crash, Billing, LoopInv
  <2> QED
    BY <1>1, <1>3, <2>1, QuietKeeps DEF Quiet, Billing
<1> QED
  BY <1>2, <1>3

\* Every action keeps refunded tasks refunded.
LEMMA RefundStep == ASSUME IInv, Next, NEW t \in Tasks, Refunded(t) PROVE Refunded(t)'
<1>0. TypeOK
  BY DEF IInv
<1>1. ASSUME NEW p \in Pollers,
             (\E S \in SUBSET Unfinished : SweepRead(p, S)) \/ PollRead(p) \/ RoundDone(p)
      PROVE  Refunded(t)'
  <2>1. /\ row' = row /\ paid' = paid /\ loc[p].pc \in {"idle", "sweep", "poll"}
        /\ \A o \in Pollers \ {p} : loc'[o] = loc[o]
    BY <1>0, <1>1 DEF SweepRead, PollRead, RoundDone, TypeOK
  <2> QED
    BY <2>1, RefundRound
<1>2. ASSUME NEW p \in Pollers, NEW u \in Tasks, SweepTask(p, u) PROVE Refunded(t)'
  <2> DEFINE d == IF IsLegacy(u) THEN 0 ELSE -row[u].quota
  <2>1. d \in Int /\ (~IsLegacy(u) => d = -row[u].quota) /\ "FAILURE" \in Answers
    BY <1>0 DEF TypeOK, Rows, Answers, Status, Terminal
  <2>2. CASE /\ row[u].status = loc[p].seen[u] /\ SetStatus(u, "FAILURE", TRUE)
             /\ Bill(p, u, d, "none", "sweep") /\ paid' = paid
    <3>1. loc[p].pc = "sweep"
      BY <1>2 DEF SweepTask
    <3> HIDE DEF d
    <3> QED
      BY <2>1, <2>2, <3>1, RefundCas
  <2>3. CASE CasLost(p, u) \/ CasError(p, u)
    BY <2>3, RefundSkip DEF CasLost, CasError
  <2> QED
    BY <1>2, <2>2, <2>3 DEF SweepTask
<1>3. ASSUME NEW p \in Pollers, NEW u \in Tasks, BulkFail(p, u) PROVE Refunded(t)'
  <2>1. CASE row' = row
    BY <1>3, <2>1, RefundSkip DEF BulkFail, SetStatus
  <2>2. CASE SetStatus(u, "FAILURE", TRUE) /\ paid' = paid
    <3>1. /\ \A v \in Tasks \ {u} : row'[v] = row[v]
          /\ row'[u].upstream = row[u].upstream
      BY <1>0, <2>2, SetStatusEffect
    <3>2. ~Guarded(u)'
      BY <1>3, <3>1 DEF BulkFail, Guarded
    <3>3. /\ loc'[p].pc = loc[p].pc /\ loc'[p].job = loc[p].job
          /\ \A o \in Pollers \ {p} : loc'[o] = loc[o]
      BY <1>0, <1>3, SkipEffect DEF BulkFail
    <3>4. CASE t # u
      BY <2>2, <3>1, <3>3, <3>4, QuietKeeps DEF Quiet, Billing
    <3>5. CASE t = u
      BY <3>2, <3>5 DEF Refunded, Closed
    <3> QED
      BY <3>4, <3>5
  <2> QED
    BY <1>3, <2>1, <2>2 DEF BulkFail
<1>4. ASSUME NEW p \in Pollers, NEW u \in Tasks, FetchFails(p, u) PROVE Refunded(t)'
  BY <1>4, RefundSkip DEF FetchFails
<1>5. ASSUME NEW p \in Pollers, NEW u \in Tasks, NEW s \in Answers, NEW full \in BOOLEAN,
             NEW a \in Actuals, UpdateVideoTask(p, u, s, full, a)
      PROVE  Refunded(t)'
  <2> DEFINE d == CASE s = "SUCCESS" -> SettleDelta(u, a) [] s = "FAILURE" -> -row[u].quota [] OTHER -> 0
             e == full \/ s \in Terminal
  <2>1. d \in Int /\ e \in BOOLEAN /\ (s = "FAILURE" => d = -row[u].quota)
    BY <1>0, TaskAssumption DEF TypeOK, Rows, SettleDelta
  <2>2. CASE /\ row[u].status = loc[p].seen[u] /\ SetStatus(u, s, e)
             /\ Bill(p, u, d, "none", "poll") /\ paid' = paid
    <3>1. loc[p].pc = "poll"
      BY <1>5 DEF UpdateVideoTask
    <3> HIDE DEF d, e
    <3> QED
      BY <2>1, <2>2, <3>1, RefundCas
  <2>3. CASE CasLost(p, u) \/ CasError(p, u)
    BY <2>3, RefundSkip DEF CasLost, CasError
  <2> QED
    BY <1>5, <2>2, <2>3 DEF UpdateVideoTask
<1>6. ASSUME NEW p \in Pollers, NEW u \in Tasks, NEW s \in Answers, NEW reason \in BOOLEAN,
             UpdateSunoTask(p, u, s, reason)
      PROVE  Refunded(t)'
  <2>1. /\ row' = row /\ paid' = paid /\ loc[p].pc = "poll"
        /\ \A o \in Pollers \ {p} : loc'[o] = loc[o]
    BY <1>0, <1>6 DEF UpdateSunoTask, Bill, TypeOK
  <2> QED
    BY <2>1, RefundRound
<1>7. ASSUME NEW f \in Fetchers, NEW s \in Answers, FetchWrite(f, s) PROVE Refunded(t)'
  <2>1. PICK u \in Tasks : u = fetch[f].task /\ Platform[u] = "gemini"
    BY <1>7 DEF FetchWrite, IInv, FetchInv
  <2>2. CASE t = u
    BY <2>1, <2>2 DEF Refunded, Closed, Guarded
  <2>3. CASE t # u
    <3>1. loc' = loc /\ paid' = paid /\ row'[t] = row[t]
      BY <1>0, <1>7, <2>1, <2>3, SetStatusEffect DEF FetchWrite
    <3> QED
      BY <3>1, QuietKeeps DEF Quiet, Billing
  <2> QED
    BY <2>2, <2>3
<1>8. ASSUME NEW f \in Fetchers, NEW u \in Tasks, FetchRead(f, u) PROVE Refunded(t)'
  BY <1>8, QuietKeeps DEF FetchRead, Quiet, Billing
<1> QED
  BY <1>1, <1>2, <1>3, <1>4, <1>5, <1>6, <1>7, <1>8, RefundSubmit, RefundFunding, RefundToken,
     RefundSave, RefundCrash DEF Next, PollerStep

\* A guarded task that failed has cost its owner nothing once no loop is billing it,
\* unless a write about it failed, a node died while billing it, or it is a legacy task.
THEOREM FailureRefunded == Spec => []FailedTaskRefunded
<1> DEFINE R == \A t \in Tasks : Refunded(t)
<1>1. ASSUME Init PROVE R
  BY <1>1 DEF Init, NoRow, Refunded, Closed
<1>2. ASSUME IInv, R, [Next]_vars PROVE R'
  <2>1. CASE Next
    BY <1>2, <2>1, RefundStep
  <2>2. CASE UNCHANGED vars
    BY <1>2, <2>2, QuietKeeps DEF vars, Quiet, Billing
  <2> QED
    BY <1>2, <2>1, <2>2
<1>3. R => FailedTaskRefunded
  BY DEF FailedTaskRefunded, Refunded, Closed
<1> HIDE DEF R
<1> QED
  BY Invariance, <1>1, <1>2, <1>3, PTL DEF Spec

-----------------------------------------------------------------------------
(* The token follows the funding source                                     *)

\* what loop p has moved for t at the funding source and not yet at the token, and the
\* sum over the loops: several of them may be billing a Suno task
Owes(p, t) == IF loc[p].pc = "token" /\ loc[p].job.task = t THEN loc[p].job.delta ELSE 0
Owing(t) == SumFunction([p \in Pollers |-> Owes(p, t)])

\* While every write succeeds, the token is behind the funding source by what the loops owe.
Follows(t) == paid[t].clean => paid[t].fund = paid[t].token + Owing(t)

\* When one loop moves, what all of them owe changes by what this loop owes.
LEMMA OwingStep ==
  ASSUME TypeOK, TypeOK', NEW p \in Pollers, NEW t \in Tasks,
         \A o \in Pollers \ {p} : loc'[o] = loc[o]
  PROVE  /\ Owes(p, t) \in Int /\ Owes(p, t)' \in Int /\ Owing(t) \in Int
         /\ Owing(t)' = Owing(t) + (Owes(p, t)' - Owes(p, t))
<1> DEFINE f == [o \in Pollers |-> Owes(o, t)]
           h == [o \in Pollers |-> Owes(o, t)']
<1>1. f \in [Pollers -> Int] /\ Owes(p, t) \in Int
  BY JobType DEF Owes, TypeOK
<1>2. h \in [Pollers -> Int] /\ Owes(p, t)' \in Int
  BY DEF Owes, TypeOK, Loops, Jobs
<1>3. \A o \in Pollers \ {p} : h[o] = f[o]
  BY DEF Owes
<1>4. f[p] = Owes(p, t) /\ h[p] = Owes(p, t)'
  OBVIOUS
<1>5. Owing(t) = SumFunction(f) /\ Owing(t)' = SumFunction(h)
  BY DEF Owing
<1>6. IsFiniteSet(Pollers)
  BY TaskAssumption
<1> HIDE DEF f, h
<1>7. SumFunction(h) = SumFunction(f) + (h[p] - f[p]) /\ SumFunction(f) \in Int
  BY <1>1, <1>2, <1>3, <1>6, SumType, SumUpdate
<1> QED
  BY <1>1, <1>2, <1>4, <1>5, <1>7

\* A step of loop p that moves the two accounts of t and what p owes together keeps the
\* balance; a failed write or a crash need not, for it leaves a mark.
LEMMA FollowsStep ==
  ASSUME TypeOK, TypeOK', NEW p \in Pollers, NEW t \in Tasks, Follows(t),
         \A o \in Pollers \ {p} : loc'[o] = loc[o],
         paid'[t].clean =>
           /\ paid[t].clean
           /\ paid'[t].fund - paid'[t].token - Owes(p, t)'
                = paid[t].fund - paid[t].token - Owes(p, t)
  PROVE  Follows(t)'
<1> SUFFICES ASSUME paid'[t].clean PROVE paid'[t].fund = paid'[t].token + Owing(t)'
  BY DEF Follows
<1>1. PICK f, k, g, l \in Int : /\ f = paid[t].fund /\ k = paid[t].token
                                /\ g = paid'[t].fund /\ l = paid'[t].token
  BY DEF TypeOK, Accounts
<1>2. PICK a, b, c \in Int : /\ a = Owes(p, t) /\ b = Owes(p, t)' /\ c = Owing(t)
                             /\ Owing(t)' = c + (b - a)
  BY OwingStep
<1>3. f = k + c
  BY <1>1, <1>2 DEF Follows
<1>4. g - l - b = f - k - a
  BY <1>1, <1>2
<1>5. g = l + (c + (b - a))
  BY <1>3, <1>4
<1> QED
  BY <1>1, <1>2, <1>5

\* Skipping a task, after a failed write about it or not, leaves the balance alone.
LEMMA FollowsSkip ==
  ASSUME TypeOK, TypeOK', NEW p \in Pollers, NEW u \in Tasks, Skip(p, u), paid' = paid \/ Fault(u),
         NEW t \in Tasks, Follows(t)
  PROVE  Follows(t)'
<1>1. /\ paid'[t].fund = paid[t].fund /\ paid'[t].token = paid[t].token
      /\ paid'[t].clean => paid[t].clean
  BY FaultEffect, FaultMarks DEF Fault
<1>2. Owes(p, t)' = Owes(p, t) /\ \A o \in Pollers \ {p} : loc'[o] = loc[o]
  BY SkipEffect DEF Owes
<1> QED
  BY <1>1, <1>2, FollowsStep

\* Neither does a step of a loop that owes nothing before and after it.
LEMMA FollowsRound ==
  ASSUME TypeOK, TypeOK', NEW p \in Pollers, paid' = paid \/ (\E u \in Tasks : Fault(u)),
         loc[p].pc # "token", loc'[p].pc # "token",
         \A o \in Pollers \ {p} : loc'[o] = loc[o], NEW t \in Tasks, Follows(t)
  PROVE  Follows(t)'
<1>1. /\ paid'[t].fund = paid[t].fund /\ paid'[t].token = paid[t].token
      /\ paid'[t].clean => paid[t].clean
  BY FaultEffect, FaultMarks DEF Fault
<1>2. Owes(p, t)' = Owes(p, t)
  BY DEF Owes
<1> QED
  BY <1>1, <1>2, FollowsStep

\* After the write at the funding source the loop owes the token the amount; when the
\* source refuses, nothing has moved.
LEMMA FollowsFunding ==
  ASSUME IInv, TypeOK', NEW p \in Pollers, AdjustFunding(p), NEW t \in Tasks, Follows(t)
  PROVE  Follows(t)'
<1>0. TypeOK /\ LoopInv(p)
  BY DEF IInv
<1>t. PICK u \in Tasks, d \in Int : u = loc[p].job.task /\ d = loc[p].job.delta
  BY <1>0, JobType DEF AdjustFunding, LoopInv, TypeOK
<1>1. loc[p].pc = "fund" /\ \A o \in Pollers \ {p} : loc'[o] = loc[o]
  BY <1>0, GotoEffect, BilledEffect DEF AdjustFunding
<1>2. CASE paid' = [paid EXCEPT ![u].fund = @ + d] /\ loc' = [loc EXCEPT ![p].pc = "token"]
  <2>1. loc'[p].pc = "token" /\ loc'[p].job = loc[p].job
    BY <1>0, <1>2, GotoEffect
  <2>2. Owes(p, t) = 0 /\ Owes(p, t)' = IF t = u THEN d ELSE 0
    BY <1>t, <1>1, <2>1 DEF Owes
  <2>3. PICK f, k \in Int : f = paid[t].fund /\ k = paid[t].token
    BY <1>0 DEF TypeOK, Accounts
  <2>4. /\ paid'[t].fund = IF t = u THEN f + d ELSE f
        /\ paid'[t].token = k /\ paid'[t].clean = paid[t].clean
    BY <1>0, <1>2, <2>3 DEF TypeOK, Accounts
  <2>5. paid'[t].fund - paid'[t].token - Owes(p, t)' = paid[t].fund - paid[t].token - Owes(p, t)
    BY <2>2, <2>3, <2>4
  <2> QED
    BY <1>0, <1>1, <2>4, <2>5, FollowsStep
<1>3. CASE Billed(p) /\ (paid' = paid \/ Fault(u))
  <2>1. loc'[p].pc # "token"
    BY <1>0, <1>3, BilledEffect
  <2> QED
    BY <1>0, <1>1, <1>3, <2>1, FollowsRound
<1> QED
  BY <1>t, <1>2, <1>3 DEF AdjustFunding

\* The write at the token settles what the loop owes.
LEMMA FollowsToken ==
  ASSUME IInv, TypeOK', NEW p \in Pollers, AdjustToken(p), NEW t \in Tasks, Follows(t)
  PROVE  Follows(t)'
<1>0. TypeOK /\ LoopInv(p)
  BY DEF IInv
<1>t. PICK u \in Tasks, d \in Int : u = loc[p].job.task /\ d = loc[p].job.delta
  BY <1>0, JobType DEF AdjustToken, LoopInv, TypeOK
<1>1. /\ loc[p].pc = "token" /\ loc'[p].pc # "token"
      /\ \A o \in Pollers \ {p} : loc'[o] = loc[o]
  BY <1>0, BilledEffect DEF AdjustToken
<1>2. Owes(p, t)' = 0 /\ Owes(p, t) = IF t = u THEN d ELSE 0
  BY <1>t, <1>1 DEF Owes
<1>3. PICK f, k \in Int : f = paid[t].fund /\ k = paid[t].token
  BY <1>0 DEF TypeOK, Accounts
<1>4. CASE paid' = [paid EXCEPT ![u].token = @ + d]
  <2>1. /\ paid'[t].token = IF t = u THEN k + d ELSE k
        /\ paid'[t].fund = f /\ paid'[t].clean = paid[t].clean
    BY <1>0, <1>3, <1>4 DEF TypeOK, Accounts
  <2>2. paid'[t].fund - paid'[t].token - Owes(p, t)' = paid[t].fund - paid[t].token - Owes(p, t)
    BY <1>2, <1>3, <2>1
  <2> QED
    BY <1>0, <1>1, <2>1, <2>2, FollowsStep
<1>5. CASE Fault(u)
  <2>1. CASE t = u
    BY <1>0, <1>5, <2>1, FaultMarks DEF Fault, Follows
  <2>2. CASE t # u
    <3>1. paid'[t] = paid[t]
      BY <1>0, <1>5, <2>2, FaultMarks DEF Fault
    <3> QED
      BY <1>0, <1>1, <1>2, <2>2, <3>1, FollowsStep
  <2> QED
    BY <2>1, <2>2
<1> QED
  BY <1>t, <1>4, <1>5 DEF AdjustToken

\* A node that dies between the two writes leaves a mark.
LEMMA FollowsCrash ==
  ASSUME IInv, TypeOK', NEW p \in Pollers, Crash(p), NEW t \in Tasks, Follows(t)
  PROVE  Follows(t)'
<1>0. TypeOK /\ LoopInv(p)
  BY DEF IInv
<1>1. loc'[p].pc = "idle" /\ \A o \in Pollers \ {p} : loc'[o] = loc[o]
  BY <1>0 DEF Crash, TypeOK, Idle
<1>2. CASE Billing(p, t)
  <2>1. paid' = [paid EXCEPT ![t].clean = FALSE]
    BY <1>2 DEF Crash, Billing
  <2> QED
    BY <1>0, <2>1, FaultMarks DEF Follows
<1>3. CASE ~Billing(p, t)
  <2>1. paid'[t] = paid[t]
    BY <1>0, <1>3, FaultMarks DEF Crash, Billing, LoopInv
  <2>2. Owes(p, t)' = Owes(p, t)
    BY <1>1, <1>3 DEF Owes, Billing
  <2> QED
    BY <1>0, <1>1, <2>1, <2>2, FollowsStep
<1> QED
  BY <1>2, <1>3

\* What all the loops owe for a task that none of them is billing.
LEMMA OwingNothing ==
  ASSUME NEW t \in Tasks, \A p \in Pollers : ~Billing(p, t)
  PROVE  Owing(t) = 0
<1> DEFINE f == [p \in Pollers |-> Owes(p, t)]
<1>1. f \in [Pollers -> Int] /\ (\A p \in Pollers : f[p] = 0) /\ Owing(t) = SumFunction(f)
  BY DEF Owes, Billing, Owing
<1>2. IsFiniteSet(Pollers)
  BY TaskAssumption
<1> HIDE DEF f
<1> QED
  BY <1>1, <1>2, SumZero

\* A task is submitted before any loop knows of it.
LEMMA FollowsSubmit ==
  ASSUME IInv, NEW u \in Tasks, NEW q \in Quotas, NEW time \in SubmitTimes,
         Submit(u, q, time), NEW t \in Tasks, Follows(t)
  PROVE  Follows(t)'
<1>0. TypeOK /\ \A p \in Pollers : LoopInv(p)
  BY DEF IInv
<1>1. loc' = loc /\ row[u].status = "absent"
  BY DEF Submit
<1>2. Owing(t)' = Owing(t)
  BY <1>1 DEF Owing, Owes
<1>3. CASE t = u
  <2>1. \A p \in Pollers : ~Billing(p, t)
    BY <1>0, <1>1, <1>3 DEF Billing, LoopInv
  <2>2. paid'[t].fund = q /\ paid'[t].token = q /\ q \in Nat
    BY <1>0, <1>3, TaskAssumption DEF Submit, TypeOK
  <2> QED
    BY <1>2, <2>1, <2>2, OwingNothing DEF Follows
<1>4. CASE t # u
  BY <1>0, <1>2, <1>4 DEF Submit, TypeOK, Follows
<1> QED
  BY <1>3, <1>4

\* Every action keeps the balance of every task.
LEMMA FollowsNext == ASSUME IInv, Next, NEW t \in Tasks, Follows(t) PROVE Follows(t)'
<1>0. TypeOK /\ TypeOK'
  BY TypeStep DEF IInv
<1>1. ASSUME NEW p \in Pollers,
             (\E S \in SUBSET Unfinished : SweepRead(p, S)) \/ PollRead(p) \/ RoundDone(p)
      PROVE  Follows(t)'
  <2>1. /\ paid' = paid /\ loc[p].pc # "token" /\ loc'[p].pc # "token"
        /\ \A o \in Pollers \ {p} : loc'[o] = loc[o]
    BY <1>0, <1>1 DEF SweepRead, PollRead, RoundDone, TypeOK, Round, Idle
  <2> QED
    BY <1>0, <2>1, FollowsRound
<1>b. ASSUME NEW p \in Pollers, NEW u \in Tasks, NEW d, NEW s, NEW back \in {"sweep", "poll"},
             Bill(p, u, d, s, back), loc[p].pc = back, paid' = paid
      PROVE  Follows(t)'
  <2>1. loc'[p].pc # "token" /\ \A o \in Pollers \ {p} : loc'[o] = loc[o]
    BY <1>0, <1>b, BillEffect
  <2> QED
    BY <1>0, <1>b, <2>1, FollowsRound
<1>2. ASSUME NEW p \in Pollers, NEW u \in Tasks, SweepTask(p, u) PROVE Follows(t)'
  BY <1>0, <1>2, <1>b, FollowsSkip DEF SweepTask, CasLost, CasError
<1>3. ASSUME NEW p \in Pollers, NEW u \in Tasks, BulkFail(p, u) \/ FetchFails(p, u)
      PROVE  Follows(t)'
  BY <1>0, <1>3, FollowsSkip DEF BulkFail, FetchFails
<1>4. ASSUME NEW p \in Pollers, NEW u \in Tasks, NEW s \in Answers, NEW full \in BOOLEAN,
             NEW a \in Actuals, UpdateVideoTask(p, u, s, full, a)
      PROVE  Follows(t)'
  BY <1>0, <1>4, <1>b, FollowsSkip DEF UpdateVideoTask, CasLost, CasError
<1>5. ASSUME NEW p \in Pollers, NEW u \in Tasks, NEW s \in Answers, NEW reason \in BOOLEAN,
             UpdateSunoTask(p, u, s, reason)
      PROVE  Follows(t)'
  BY <1>0, <1>5, <1>b DEF UpdateSunoTask
<1>6. ASSUME NEW p \in Pollers, SaveSunoTask(p) PROVE Follows(t)'
  <2>1. loc[p].job.task \in Tasks
    BY <1>6 DEF SaveSunoTask, IInv, LoopInv
  <2>2. /\ paid' = paid \/ Fault(loc[p].job.task)
        /\ loc[p].pc # "token" /\ loc'[p].pc # "token"
        /\ \A o \in Pollers \ {p} : loc'[o] = loc[o]
    BY <1>0, <1>6, ResumeEffect DEF SaveSunoTask
  <2> QED
    BY <1>0, <2>1, <2>2, FollowsRound
<1>7. ASSUME loc' = loc, paid' = paid PROVE Follows(t)'
  BY <1>7 DEF Follows, Owing, Owes
<1>8. ASSUME NEW f \in Fetchers, (\E u \in Tasks : FetchRead(f, u)) \/ (\E s \in Answers : FetchWrite(f, s))
      PROVE  Follows(t)'
  BY <1>7, <1>8 DEF FetchRead, FetchWrite
<1> QED
  BY <1>0, <1>1, <1>2, <1>3, <1>4, <1>5, <1>6, <1>8, FollowsSubmit, FollowsFunding, FollowsToken,
     FollowsCrash DEF Next, PollerStep

\* On every platform, and however many loops bill a task, funding source and token agree
\* once the loops are through with it and no write about it failed.
THEOREM TokenAgrees == Spec => []TokenFollowsFunding
<1> DEFINE R == \A t \in Tasks : Follows(t)
<1>1. ASSUME Init PROVE R
  <2> TAKE t \in Tasks
  <2>1. Owing(t) = 0
    BY <1>1, OwingNothing DEF Init, Idle, Billing
  <2> QED
    BY <1>1, <2>1 DEF Init, Follows
<1>2. ASSUME IInv, R, [Next]_vars PROVE R'
  <2>1. CASE Next
    BY <1>2, <2>1, FollowsNext
  <2>2. CASE UNCHANGED vars
    BY <1>2, <2>2 DEF vars, Follows, Owing, Owes
  <2> QED
    BY <1>2, <2>1, <2>2
<1>3. ASSUME IInv, R PROVE TokenFollowsFunding
  <2> SUFFICES ASSUME NEW t \in Tasks, paid[t].clean, \A p \in Pollers : ~Billing(p, t)
               PROVE  paid[t].token = paid[t].fund
    BY DEF TokenFollowsFunding
  <2>1. Owing(t) = 0 /\ paid[t].token \in Int
    BY <1>3, OwingNothing DEF IInv, TypeOK, Accounts
  <2> QED
    BY <1>3, <2>1 DEF Follows
<1> HIDE DEF R
<1> QED
  BY Invariance, <1>1, <1>2, <1>3, PTL DEF Spec

=============================================================================
