----------------------------- MODULE QuotaStore -----------------------------
(***************************************************************************)
(* The wallet of one user and its two shadows: the changes that wait in    *)
(* memory for the batch updater (model/utils.go) and the copy in Redis     *)
(* (model/user_cache.go, common/redis.go).  A change of the wallet         *)
(* (IncreaseUserQuota, DecreaseUserQuota) hands the copy to a goroutine    *)
(* and writes the column itself, now or with the next batch; a read that   *)
(* finds no copy loads the row and hands the copy to another goroutine; a  *)
(* settings page saves the whole row it has read.  Nothing orders them.    *)
(* The copy and the counters of a token work in the same way.              *)
(***************************************************************************)
EXTENDS Integers, FiniteSets, Functions

CONSTANTS
  Workers,      \* request handlers; each has at most one goroutine in flight
  Home,         \* the process a worker runs in
  Deltas,       \* the changes of the wallet, charges negative
  Start,        \* the wallet in the beginning
  Seconds,      \* RedisKeyCacheSeconds: the life of a copy
  BatchUpdateEnabled,
  MaxChanges,   \* bound: changes, payments and saves of the row
  MaxFaults     \* bound: failing statements and commands, and crashes

ASSUME StoreAssumption ==
  /\ IsFiniteSet(Workers)
  /\ Deltas \subseteq Int
  /\ Start \in Int
  /\ Seconds \in Nat
  /\ BatchUpdateEnabled \in BOOLEAN
  /\ MaxChanges \in Nat /\ MaxFaults \in Nat

Nodes == {Home[w] : w \in Workers}

VARIABLES
  column,    \* users.quota
  copy,      \* the hash of the user in Redis
  store,     \* batchUpdateStores: what waits in the memory of a process
  batch,     \* what batchUpdate has taken out and not yet written
  worker,    \* what a handler is about to do to the row
  job,       \* what the goroutine it has started is about to do to the copy
  changes,   \* how many changes there have been
  faults,    \* how many failures there have been
  wallet,    \* history: the wallet, had every accepted change arrived
  lost       \* history: what failures and saves of old rows took from it

vars == <<column, copy, store, batch, worker, job, changes, faults, wallet,
          lost>>
memory == <<store, batch>>
history == <<wallet, lost>>

-----------------------------------------------------------------------------
(* The life of a copy is counted in halves of a second, the one under way  *)
(* included; Forever is a key without expiry.  full: the hash has all its  *)
(* fields, and not the one that a command created it with.                 *)

Forever == -1

NoCopy == [life |-> 0, quota |-> 0, full |-> FALSE]

Idle == [pc |-> "idle", val |-> 0]

NoJob == [op |-> "none", val |-> 0, ttl |-> 0]

\* TTL answers in whole seconds, rounded to the nearest: nothing in the last
\* half second.
Ttl == IF copy.life > 0 THEN copy.life \div 2 ELSE copy.life

Free(w) == worker[w] = Idle /\ job[w] = NoJob

Fault == faults < MaxFaults /\ faults' = faults + 1

Change == changes < MaxChanges /\ changes' = changes + 1

Init ==
  /\ column = Start
  /\ copy = NoCopy
  /\ store = [n \in Nodes |-> 0]
  /\ batch = [n \in Nodes |-> 0]
  /\ worker = [w \in Workers |-> Idle]
  /\ job = [w \in Workers |-> NoJob]
  /\ changes = 0
  /\ faults = 0
  /\ wallet = Start
  /\ lost = 0

-----------------------------------------------------------------------------
(* Changes of the wallet.                                                  *)

\* mutant of IncreaseUserQuota: the copy is increased by a charge as well
IncreaseUserQuotaOnly(w, d, db) ==
  /\ Free(w) /\ Change
  /\ job' = [job EXCEPT ![w] =
               [op |-> "incr", val |-> IF d < 0 THEN -d ELSE d, ttl |-> 0]]
  /\ IF BatchUpdateEnabled /\ ~db
       THEN /\ store' = [store EXCEPT ![Home[w]] = @ + d]
            /\ wallet' = wallet + d
            /\ UNCHANGED worker
       ELSE /\ worker' = [worker EXCEPT ![w] = [pc |-> "write", val |-> d]]
            /\ UNCHANGED <<store, wallet>>
  /\ UNCHANGED <<column, copy, batch, faults, lost>>

\* IncreaseUserQuota and DecreaseUserQuota.  The goroutine starts before the
\* column is written, and whatever comes of that write; db asks for a write
\* past the batch.
IncreaseUserQuota(w, d, db) ==
  /\ Free(w) /\ Change
  /\ job' = [job EXCEPT ![w] = [op |-> "incr", val |-> d, ttl |-> 0]]
  /\ IF BatchUpdateEnabled /\ ~db
       THEN /\ store' = [store EXCEPT ![Home[w]] = @ + d]
            /\ wallet' = wallet + d
            /\ UNCHANGED worker
       ELSE /\ worker' = [worker EXCEPT ![w] = [pc |-> "write", val |-> d]]
            /\ UNCHANGED <<store, wallet>>
  /\ UNCHANGED <<column, copy, batch, faults, lost>>

\* increaseUserQuota, decreaseUserQuota: one statement.
WriteColumn(w) ==
  /\ worker[w].pc = "write"
  /\ worker' = [worker EXCEPT ![w] = Idle]
  /\ \/ /\ column' = column + worker[w].val
        /\ wallet' = wallet + worker[w].val
        /\ UNCHANGED faults
     \/ Fault /\ UNCHANGED <<column, wallet>>
  /\ UNCHANGED <<copy, memory, job, changes, lost>>

\* batchUpdate, first half: the map is exchanged for an empty one.
SwapStore(n) ==
  /\ batch[n] = 0 /\ store[n] # 0
  /\ batch' = [batch EXCEPT ![n] = store[n]]
  /\ store' = [store EXCEPT ![n] = 0]
  /\ UNCHANGED <<column, copy, worker, job, changes, faults, history>>

\* mutant of WriteBatch: the map is emptied when the batch is written
WriteBatchEmpties(n) ==
  /\ batch[n] # 0
  /\ batch' = [batch EXCEPT ![n] = 0]
  /\ store' = [store EXCEPT ![n] = 0]
  /\ \/ column' = column + batch[n] /\ UNCHANGED <<faults, lost>>
     \/ Fault /\ lost' = lost + batch[n] /\ UNCHANGED column
  /\ UNCHANGED <<copy, worker, job, changes, wallet>>

\* batchUpdate, second half: a statement that fails is logged and forgotten.
WriteBatch(n) ==
  /\ batch[n] # 0
  /\ batch' = [batch EXCEPT ![n] = 0]
  /\ \/ column' = column + batch[n] /\ UNCHANGED <<faults, lost>>
     \/ Fault /\ lost' = lost + batch[n] /\ UNCHANGED column
  /\ UNCHANGED <<copy, store, worker, job, changes, wallet>>

\* A payment, a redemption code or a check-in adds to the column in its own
\* transaction and does not know of the copy (Epay alone goes through
\* IncreaseUserQuota, with db).
Credit(d) ==
  /\ d > 0 /\ Change
  /\ column' = column + d
  /\ wallet' = wallet + d
  /\ UNCHANGED <<copy, memory, worker, job, faults, lost>>

-----------------------------------------------------------------------------
(* Reads, and saves of the whole row.                                      *)

\* GetUserQuota, GetUserCache: no copy, or Redis does not answer.
Miss(w) ==
  /\ Free(w)
  /\ \/ copy.life = 0 /\ UNCHANGED faults
     \/ copy.life # 0 /\ Fault
  /\ worker' = [worker EXCEPT ![w] = [pc |-> "load", val |-> 0]]
  /\ UNCHANGED <<column, copy, memory, job, changes, history>>

\* GetUserCache loads the row and leaves the copy to a goroutine.
Load(w) ==
  /\ worker[w].pc = "load"
  /\ worker' = [worker EXCEPT ![w] = Idle]
  /\ job' = [job EXCEPT ![w] = [op |-> "fill", val |-> column, ttl |-> 0]]
  /\ UNCHANGED <<column, copy, memory, changes, faults, history>>

\* GetUserCache fails at the row as well; GetUserQuota then selects the
\* column and leaves that field of the copy to a goroutine.
LoadQuota(w) ==
  /\ worker[w].pc = "load" /\ Fault
  /\ worker' = [worker EXCEPT ![w] = Idle]
  /\ job' = [job EXCEPT ![w] = [op |-> "field", val |-> column, ttl |-> 0]]
  /\ UNCHANGED <<column, copy, memory, changes, history>>

\* A page that changes a setting or a binding reads the user first.
GetUserById(w) ==
  /\ Free(w) /\ Change
  /\ worker' = [worker EXCEPT ![w] = [pc |-> "save", val |-> column]]
  /\ UNCHANGED <<column, copy, memory, job, faults, history>>

\* User.Update writes every field of the struct that is not zero, the quota
\* that was read among them, and then the whole copy.
UpdateUser(w) ==
  /\ worker[w].pc = "save"
  /\ column' = IF worker[w].val # 0 THEN worker[w].val ELSE column
  /\ lost' = lost + (column - column')
  /\ worker' = [worker EXCEPT ![w] = Idle]
  /\ job' = [job EXCEPT ![w] = [op |-> "fill", val |-> column', ttl |-> 0]]
  /\ UNCHANGED <<copy, memory, changes, faults, wallet>>

\* The statement fails: the page answers with an error.
UpdateUserFails(w) ==
  /\ worker[w].pc = "save" /\ Fault
  /\ worker' = [worker EXCEPT ![w] = Idle]
  /\ UNCHANGED <<column, copy, memory, job, changes, history>>

-----------------------------------------------------------------------------
(* The goroutines at the copy.                                             *)

End(w) == job' = [job EXCEPT ![w] = NoJob]

\* mutant of RedisHSetObj: the copy is written without an expiry
RedisHSetObjForever(w) ==
  /\ job[w].op = "fill"
  /\ copy' = [life |-> Forever, quota |-> job[w].val, full |-> TRUE]
  /\ End(w)
  /\ UNCHANGED <<column, memory, worker, changes, faults, history>>

\* updateUserCache: one transaction; Expire only when there is an expiry.
RedisHSetObj(w) ==
  /\ job[w].op = "fill"
  /\ copy' = [life |-> IF Seconds > 0 THEN 2 * Seconds
                       ELSE IF copy.life = 0 THEN Forever ELSE copy.life,
              quota |-> job[w].val, full |-> TRUE]
  /\ End(w)
  /\ UNCHANGED <<column, memory, worker, changes, faults, history>>

\* RedisHIncrBy, RedisHSetField, first half: a copy that is gone, has no
\* expiry or is in its last half second is left alone.
AskTtl(w) ==
  /\ job[w].op \in {"incr", "field"} /\ job[w].ttl = 0
  /\ job' = [job EXCEPT ![w] = IF Ttl > 0 THEN [@ EXCEPT !.ttl = Ttl]
                               ELSE NoJob]
  /\ UNCHANGED <<column, copy, memory, worker, changes, faults, history>>

\* mutant of Exec: the copy gets another second with every change
ExecRenews(w) ==
  /\ job[w].ttl > 0
  /\ copy' = [copy EXCEPT
                !.quota = IF job[w].op = "incr" THEN @ + job[w].val
                          ELSE job[w].val,
                !.life = 2 * (job[w].ttl + 1)]
  /\ End(w)
  /\ UNCHANGED <<column, memory, worker, changes, faults, history>>

\* RedisHIncrBy, RedisHSetField, second half: the command and Expire with
\* the answer of TTL.  When the hash is gone by now, the command creates one
\* that has this field only.
Exec(w) ==
  /\ job[w].ttl > 0
  /\ copy' = [copy EXCEPT
                !.quota = IF job[w].op = "incr" THEN @ + job[w].val
                          ELSE job[w].val,
                !.life = 2 * job[w].ttl]
  /\ End(w)
  /\ UNCHANGED <<column, memory, worker, changes, faults, history>>

\* A command fails; the goroutine logs it.
JobFails(w) ==
  /\ job[w] # NoJob /\ Fault
  /\ End(w)
  /\ UNCHANGED <<column, copy, memory, worker, changes, history>>

\* InvalidateUserCache: an administrator disables or demotes the user.
InvalidateUserCache ==
  /\ copy.life # 0
  /\ copy' = NoCopy
  /\ UNCHANGED <<column, memory, worker, job, changes, faults, history>>

\* The clock of Redis.
Tick ==
  /\ copy.life > 0
  /\ copy' = IF copy.life = 1 THEN NoCopy
             ELSE [copy EXCEPT !.life = @ - 1]
  /\ UNCHANGED <<column, memory, worker, job, changes, faults, history>>

\* A process dies, with its handlers, its goroutines and its maps.
Crash(n) ==
  /\ Fault
  /\ lost' = lost + store[n] + batch[n]
  /\ store' = [store EXCEPT ![n] = 0]
  /\ batch' = [batch EXCEPT ![n] = 0]
  /\ worker' = [w \in Workers |-> IF Home[w] = n THEN Idle ELSE worker[w]]
  /\ job' = [w \in Workers |-> IF Home[w] = n THEN NoJob ELSE job[w]]
  /\ UNCHANGED <<column, copy, changes, wallet>>

-----------------------------------------------------------------------------
Step(w) ==
  \/ WriteColumn(w)
  \/ Load(w)
  \/ LoadQuota(w)
  \/ UpdateUser(w)
  \/ UpdateUserFails(w)
  \/ RedisHSetObj(w)
  \/ AskTtl(w)
  \/ Exec(w)
  \/ JobFails(w)

Next ==
  \/ \E w \in Workers, d \in Deltas, db \in BOOLEAN : IncreaseUserQuota(w, d, db)
  \/ \E w \in Workers : Miss(w) \/ GetUserById(w) \/ Step(w)
  \/ \E n \in Nodes : SwapStore(n) \/ WriteBatch(n) \/ Crash(n)
  \/ \E d \in Deltas : Credit(d)
  \/ InvalidateUserCache
  \/ Tick

Spec == Init /\ [][Next]_vars

\* The handlers and the goroutines run, the batch updater wakes up every
\* interval, and the clock goes on.
FairSpec ==
  /\ Spec
  /\ \A w \in Workers : WF_vars(Step(w))
  /\ \A n \in Nodes : WF_vars(SwapStore(n)) /\ WF_vars(WriteBatch(n))
  /\ WF_vars(Tick)

-----------------------------------------------------------------------------
(* Properties.                                                             *)

CopyType == [life : {Forever} \cup 0..(2 * Seconds), quota : Int, full : BOOLEAN]
WorkerType == [pc : {"idle", "write", "load", "save"}, val : Int]
\* only a command on one field asks for the expiry of the copy
JobType == {j \in [op : {"none", "incr", "field", "fill"}, val : Int, ttl : 0..Seconds] :
              j.ttl > 0 => j.op \in {"incr", "field"}}

\* Type invariant; a copy that expires never gets more than its life.
TypeOK ==
  /\ column \in Int /\ wallet \in Int /\ lost \in Int
  /\ copy \in CopyType
  /\ copy.life = 0 => copy = NoCopy
  /\ store \in [Nodes -> Int] /\ batch \in [Nodes -> Int]
  /\ worker \in [Workers -> WorkerType] /\ job \in [Workers -> JobType]
  /\ changes \in 0..MaxChanges /\ faults \in 0..MaxFaults

\* what waits in the memory of all processes
Waiting == SumFunction([n \in Nodes |-> store[n] + batch[n]])

\* The column and what waits in memory make up the wallet, in every
\* interleaving of changes, batches, reads and payments; only a crash, a
\* failed batch or the save of a row that was read before a change take
\* anything away (utils.go batchUpdate, user.go Update).
WalletExact ==
  column + Waiting + lost = wallet

\* what handlers are about to write to the column, and goroutines to add to the copy
Promised == SumFunction([w \in Workers |-> IF worker[w].pc = "write" THEN worker[w].val ELSE 0])

Owed == SumFunction([w \in Workers |-> IF job[w].op = "incr" THEN job[w].val ELSE 0])

\* How far the copy will be from the wallet once everything under way has
\* arrived.
Drift ==
  copy.quota + Owed - (column + Waiting + Promised)

\* A living copy follows every change of the wallet, whatever the order in
\* which goroutines and statements arrive, and between two reads of its
\* expiry too: its drift changes only when a copy is written from a row, a
\* save or a payment writes past it, something fails, or the goroutine asks
\* for the expiry in the last half second of the copy and drops the change
\* (user.go:889, redis.go RedisHIncrBy).
CopyFollows ==
  [][copy.life > 0 /\ copy'.life > 0 /\ Drift' # Drift =>
       \/ faults' # faults \/ lost' # lost
       \/ \E d \in Deltas : Credit(d)
       \/ \E w \in Workers :
            \/ RedisHSetObj(w)
            \/ Exec(w) /\ job[w].op = "field"
            \/ AskTtl(w) /\ copy.life = 1]_vars

\* Once changes and failures have stopped, the copy is missing or complete
\* and equal to the column for good, however many requests go on reading: a
\* copy filled from an old row, and a hash that a late command created with
\* one field, expire.
CopyConverges ==
  <>[](copy.life = 0 \/ (copy.full /\ copy.quota = column))
=============================================================================
