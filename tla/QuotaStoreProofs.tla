-------------------------- MODULE QuotaStoreProofs --------------------------
(***************************************************************************)
(* Proofs about QuotaStore: for any workers, processes and changes, the    *)
(* column and what waits in memory make up the wallet, and a living copy   *)
(* follows every change of it.                                             *)
(***************************************************************************)
EXTENDS QuotaStore, SumTheorems

\* A handler that loads or saves the row has no goroutine at the copy.
Quiet == \A w \in Workers : worker[w].pc \in {"load", "save"} => job[w] = NoJob

IInv == TypeOK /\ Quiet /\ WalletExact

-----------------------------------------------------------------------------
(* The sums over processes and workers.                                    *)

\* As many processes as workers at most.
LEMMA NodesFinite ==
  ASSUME StoreAssumption
  PROVE  IsFiniteSet(Nodes)
<1> DEFINE f == [w \in Workers |-> Home[w]]
<1>1. IsFiniteSet(Workers)
  BY DEF StoreAssumption
<1>2. f \in Surjection(Workers, Nodes)
  BY DEF Nodes, Surjection
<1> QED
  BY <1>1, <1>2, FS_Surjection

\* The process of a worker.
LEMMA HomeIsNode ==
  ASSUME NEW w \in Workers
  PROVE  Home[w] \in Nodes
BY DEF Nodes

waits == [n \in Nodes |-> store[n] + batch[n]]
promises == [w \in Workers |-> IF worker[w].pc = "write" THEN worker[w].val ELSE 0]
owes == [w \in Workers |-> IF job[w].op = "incr" THEN job[w].val ELSE 0]

\* The sums and their terms are integers.
LEMMA SumTypes ==
  ASSUME StoreAssumption, TypeOK
  PROVE  /\ waits \in [Nodes -> Int] /\ promises \in [Workers -> Int] /\ owes \in [Workers -> Int]
         /\ Waiting \in Int /\ Promised \in Int /\ Owed \in Int
<1>1. waits \in [Nodes -> Int]
  BY DEF TypeOK, waits
<1>2. promises \in [Workers -> Int]
  BY DEF TypeOK, promises, WorkerType
<1>3. owes \in [Workers -> Int]
  BY DEF TypeOK, owes, JobType
<1>4. IsFiniteSet(Workers) /\ IsFiniteSet(Nodes)
  BY NodesFinite DEF StoreAssumption
<1>5. SumFunction(waits) \in Int
  BY <1>1, <1>4, SumType
<1>6. SumFunction(promises) \in Int
  BY <1>2, <1>4, SumType
<1>7. SumFunction(owes) \in Int
  BY <1>3, <1>4, SumType
<1> QED
  BY <1>1, <1>2, <1>3, <1>5, <1>6, <1>7 DEF Waiting, Promised, Owed, waits, promises, owes

\* What waits in one process changes.
LEMMA WaitingStep ==
  ASSUME StoreAssumption, TypeOK, TypeOK', NEW n \in Nodes,
         \A m \in Nodes \ {n} : store'[m] = store[m] /\ batch'[m] = batch[m]
  PROVE  Waiting' = Waiting + ((store'[n] + batch'[n]) - (store[n] + batch[n]))
<1>1. waits \in [Nodes -> Int] /\ waits' \in [Nodes -> Int] /\ IsFiniteSet(Nodes)
  <2>1. waits \in [Nodes -> Int] /\ IsFiniteSet(Nodes)
    BY SumTypes, NodesFinite
  <2>2. waits' \in [Nodes -> Int]
    BY DEF TypeOK, waits
  <2> QED
    BY <2>1, <2>2
<1>2. \A m \in Nodes \ {n} : waits'[m] = waits[m]
  BY DEF waits
<1>3. SumFunction(waits') = SumFunction(waits) + (waits'[n] - waits[n])
  BY <1>1, <1>2, SumUpdate
<1>4. Waiting = SumFunction(waits) /\ Waiting' = SumFunction(waits')
  BY DEF Waiting, waits
<1>5. waits'[n] = store'[n] + batch'[n] /\ waits[n] = store[n] + batch[n]
  BY DEF waits
<1> QED
  BY <1>3, <1>4, <1>5

\* Moving an amount from the map to the batch changes no sum.
LEMMA WaitingStays ==
  ASSUME \A m \in Nodes : store'[m] + batch'[m] = store[m] + batch[m]
  PROVE  Waiting' = Waiting
<1>1. waits' = waits
  BY DEF waits
<1>2. Waiting = SumFunction(waits) /\ Waiting' = SumFunction(waits')
  BY DEF Waiting, waits
<1> QED
  BY <1>1, <1>2

\* What one handler is about to write.
Promise(w) == IF worker[w].pc = "write" THEN worker[w].val ELSE 0

\* One worker changes what is promised by its own part.
LEMMA PromisedStep ==
  ASSUME StoreAssumption, TypeOK, TypeOK', NEW w \in Workers,
         \A v \in Workers \ {w} : worker'[v] = worker[v]
  PROVE  Promised' = Promised + (Promise(w)' - Promise(w))
<1>1. promises \in [Workers -> Int] /\ promises' \in [Workers -> Int] /\ IsFiniteSet(Workers)
  <2>1. promises \in [Workers -> Int] /\ IsFiniteSet(Workers)
    BY SumTypes DEF StoreAssumption
  <2>2. promises' \in [Workers -> Int]
    BY DEF TypeOK, promises, WorkerType
  <2> QED
    BY <2>1, <2>2
<1>2. \A v \in Workers \ {w} : promises'[v] = promises[v]
  BY DEF promises
<1>3. SumFunction(promises') = SumFunction(promises) + (promises'[w] - promises[w])
  BY <1>1, <1>2, SumUpdate
<1>4. Promised = SumFunction(promises) /\ Promised' = SumFunction(promises')
  BY DEF Promised, promises
<1>5. promises'[w] = Promise(w)' /\ promises[w] = Promise(w)
  BY DEF promises, Promise
<1> QED
  BY <1>3, <1>4, <1>5

\* What the goroutine of one handler is about to add.
Owing(w) == IF job[w].op = "incr" THEN job[w].val ELSE 0

\* One goroutine changes what is owed to the copy by its own part.
LEMMA OwedStep ==
  ASSUME StoreAssumption, TypeOK, TypeOK', NEW w \in Workers,
         \A v \in Workers \ {w} : job'[v] = job[v]
  PROVE  Owed' = Owed + (Owing(w)' - Owing(w))
<1>1. owes \in [Workers -> Int] /\ owes' \in [Workers -> Int] /\ IsFiniteSet(Workers)
  <2>1. owes \in [Workers -> Int] /\ IsFiniteSet(Workers)
    BY SumTypes DEF StoreAssumption
  <2>2. owes' \in [Workers -> Int]
    BY DEF TypeOK, owes, JobType
  <2> QED
    BY <2>1, <2>2
<1>2. \A v \in Workers \ {w} : owes'[v] = owes[v]
  BY DEF owes
<1>3. SumFunction(owes') = SumFunction(owes) + (owes'[w] - owes[w])
  BY <1>1, <1>2, SumUpdate
<1>4. Owed = SumFunction(owes) /\ Owed' = SumFunction(owes')
  BY DEF Owed, owes
<1>5. owes'[w] = Owing(w)' /\ owes[w] = Owing(w)
  BY DEF owes, Owing
<1> QED
  BY <1>3, <1>4, <1>5

-----------------------------------------------------------------------------
(* The steps.  Every lemma gives the types, Quiet, what the wallet and the *)
(* drift become.                                                           *)

\* The drift is explained: it stays, or the step is one of those CopyFollows names.
Explained ==
  copy.life > 0 /\ copy'.life > 0 /\ Drift' # Drift =>
    \/ faults' # faults \/ lost' # lost
    \/ \E d \in Deltas : Credit(d)
    \/ \E w \in Workers :
         \/ RedisHSetObj(w)
         \/ Exec(w) /\ job[w].op = "field"
         \/ AskTtl(w) /\ copy.life = 1

\* The records.
LEMMA Records ==
  ASSUME StoreAssumption
  PROVE  /\ Idle \in WorkerType /\ Idle.pc = "idle"
         /\ NoJob \in JobType /\ NoJob.op = "none" /\ NoJob.ttl = 0
         /\ NoCopy \in CopyType /\ NoCopy.life = 0
         /\ \A p \in {"write", "load", "save"}, v \in Int :
              /\ [pc |-> p, val |-> v] \in WorkerType
              /\ [pc |-> p, val |-> v].pc = p /\ [pc |-> p, val |-> v].val = v
         /\ \A p \in {"incr", "field", "fill"}, v \in Int :
              /\ [op |-> p, val |-> v, ttl |-> 0] \in JobType
              /\ [op |-> p, val |-> v, ttl |-> 0].op = p /\ [op |-> p, val |-> v, ttl |-> 0].val = v
<1>1. Idle \in WorkerType /\ Idle.pc = "idle"
  BY DEF Idle, WorkerType
<1>2. NoJob \in JobType /\ NoJob.op = "none" /\ NoJob.ttl = 0
  BY DEF NoJob, JobType, StoreAssumption
<1>3. NoCopy \in CopyType /\ NoCopy.life = 0
  BY DEF NoCopy, CopyType, StoreAssumption
<1>4. \A p \in {"write", "load", "save"}, v \in Int :
        /\ [pc |-> p, val |-> v] \in WorkerType
        /\ [pc |-> p, val |-> v].pc = p /\ [pc |-> p, val |-> v].val = v
  BY DEF WorkerType
<1>5. \A p \in {"incr", "field", "fill"}, v \in Int :
        /\ [op |-> p, val |-> v, ttl |-> 0] \in JobType
        /\ [op |-> p, val |-> v, ttl |-> 0].op = p /\ [op |-> p, val |-> v, ttl |-> 0].val = v
  BY DEF JobType, StoreAssumption
<1> QED
  BY <1>1, <1>2, <1>3, <1>4, <1>5

\* Giving a worker, or a goroutine, something to do.
LEMMA Assigned ==
  ASSUME TypeOK, NEW w \in Workers
  PROVE  /\ \A t \in WorkerType : worker' = [worker EXCEPT ![w] = t] =>
              /\ worker' \in [Workers -> WorkerType] /\ worker'[w] = t
              /\ \A v \in Workers \ {w} : worker'[v] = worker[v]
         /\ \A j \in JobType : job' = [job EXCEPT ![w] = j] =>
              /\ job' \in [Workers -> JobType] /\ job'[w] = j
              /\ \A v \in Workers \ {w} : job'[v] = job[v]
BY DEF TypeOK

\* A counter of faults or changes moves.
LEMMA Counters ==
  ASSUME StoreAssumption, TypeOK
  PROVE  /\ Fault => faults' \in 0..MaxFaults /\ faults' # faults
         /\ Change => changes' \in 0..MaxChanges
BY DEF TypeOK, StoreAssumption, Fault, Change

\* A change is accepted: into the map of the process, or for the column.
LEMMA IncreaseStep ==
  ASSUME StoreAssumption, IInv, NEW w \in Workers, NEW d \in Deltas, NEW db \in BOOLEAN,
         IncreaseUserQuota(w, d, db)
  PROVE  IInv' /\ Explained
<1>1. TypeOK /\ Quiet /\ WalletExact /\ d \in Int /\ Home[w] \in Nodes
  BY HomeIsNode DEF IInv, StoreAssumption
<1>2. worker[w] = Idle /\ job[w] = NoJob /\ changes' \in 0..MaxChanges
  BY <1>1, Counters DEF IncreaseUserQuota, Free
<1>3. /\ job' \in [Workers -> JobType]
      /\ job'[w].op = "incr" /\ job'[w].val = d
      /\ \A v \in Workers \ {w} : job'[v] = job[v]
  BY <1>1, Assigned, Records DEF IncreaseUserQuota
<1>4. Owing(w) = 0 /\ Owing(w)' = d
  BY <1>2, <1>3, Records DEF Owing
<1>5. /\ column' = column /\ copy' = copy /\ batch' = batch /\ faults' = faults /\ lost' = lost
  BY DEF IncreaseUserQuota
<1>6. CASE BatchUpdateEnabled /\ ~db
  <2>1. store' = [store EXCEPT ![Home[w]] = @ + d] /\ wallet' = wallet + d /\ worker' = worker
    BY <1>6 DEF IncreaseUserQuota
  <2>2. /\ store' \in [Nodes -> Int] /\ store'[Home[w]] = store[Home[w]] + d
        /\ \A m \in Nodes \ {Home[w]} : store'[m] = store[m]
    BY <2>1, <1>1 DEF TypeOK
  <2>3. TypeOK'
    BY <2>1, <2>2, <1>1, <1>2, <1>3, <1>5 DEF TypeOK
  <2>4. store[Home[w]] \in Int /\ batch[Home[w]] \in Int
    BY <1>1 DEF TypeOK
  <2>5. Waiting' = Waiting + ((store'[Home[w]] + batch'[Home[w]]) - (store[Home[w]] + batch[Home[w]]))
    BY <2>2, <2>3, <1>1, <1>5, WaitingStep
  <2>6. Waiting \in Int /\ Owed \in Int /\ Promised \in Int
    BY <1>1, SumTypes
  <2>7. Waiting' = Waiting + d
    BY <2>2, <2>4, <2>5, <2>6, <1>1, <1>5
  <2>8. Owed' = Owed + d
    BY <2>3, <2>6, <1>1, <1>3, <1>4, OwedStep
  <2>9. Promised' = Promised
    BY <2>1 DEF Promised
  <2>10. Quiet'
    BY <2>1, <1>1, <1>2, <1>3, Records DEF Quiet
  <2>11. column \in Int /\ wallet \in Int /\ lost \in Int /\ copy.quota \in Int
    BY <1>1 DEF TypeOK, CopyType
  <2>12. WalletExact'
    BY <2>1, <2>6, <2>7, <2>11, <1>1, <1>5 DEF WalletExact
  <2>13. Drift' = Drift
    BY <2>6, <2>7, <2>8, <2>9, <2>11, <1>1, <1>5 DEF Drift
  <2> QED
    BY <2>3, <2>10, <2>12, <2>13 DEF IInv, Explained
<1>7. CASE ~(BatchUpdateEnabled /\ ~db)
  <2>1. /\ worker' = [worker EXCEPT ![w] = [pc |-> "write", val |-> d]]
        /\ store' = store /\ wallet' = wallet
    BY <1>7 DEF IncreaseUserQuota
  <2>2. /\ worker' \in [Workers -> WorkerType]
        /\ worker'[w].pc = "write" /\ worker'[w].val = d
        /\ \A v \in Workers \ {w} : worker'[v] = worker[v]
    <3> DEFINE t == [pc |-> "write", val |-> d]
    <3>1. t \in WorkerType /\ t.pc = "write" /\ t.val = d
      BY <1>1, Records
    <3>2. worker' = [worker EXCEPT ![w] = t]
      BY <2>1
    <3> HIDE DEF t
    <3> QED
      BY <1>1, <3>1, <3>2, Assigned
  <2>3. TypeOK'
    BY <2>1, <2>2, <1>1, <1>2, <1>3, <1>5 DEF TypeOK
  <2>4. Promise(w) = 0 /\ Promise(w)' = d
    BY <2>2, <1>2, Records DEF Promise
  <2>5. Waiting' = Waiting
    BY <2>1, <1>5 DEF Waiting
  <2>6. Waiting \in Int /\ Owed \in Int /\ Promised \in Int
    BY <1>1, SumTypes
  <2>7. Promised' = Promised + d
    BY <2>2, <2>3, <2>4, <2>6, <1>1, PromisedStep
  <2>8. Owed' = Owed + d
    BY <2>3, <2>6, <1>1, <1>3, <1>4, OwedStep
  <2>10. Quiet'
    BY <2>2, <1>1, <1>3 DEF Quiet
  <2>11. column \in Int /\ wallet \in Int /\ lost \in Int /\ copy.quota \in Int
    BY <1>1 DEF TypeOK, CopyType
  <2>12. WalletExact'
    BY <2>1, <2>5, <1>1, <1>5 DEF WalletExact
  <2>13. Drift' = Drift
    BY <2>5, <2>6, <2>7, <2>8, <2>11, <1>1, <1>5 DEF Drift
  <2> QED
    BY <2>3, <2>10, <2>12, <2>13 DEF IInv, Explained
<1> QED
  BY <1>6, <1>7

\* The column gets what was promised.
LEMMA WriteColumnStep ==
  ASSUME StoreAssumption, IInv, NEW w \in Workers, WriteColumn(w)
  PROVE  IInv' /\ Explained
<1>1. TypeOK /\ Quiet /\ WalletExact
  BY DEF IInv
<1>2. /\ worker[w].pc = "write" /\ worker[w].val \in Int
      /\ copy' = copy /\ store' = store /\ batch' = batch /\ job' = job /\ changes' = changes
      /\ lost' = lost
  BY <1>1 DEF WriteColumn, memory, TypeOK, WorkerType
<1>3. /\ worker' \in [Workers -> WorkerType] /\ worker'[w] = Idle
      /\ \A v \in Workers \ {w} : worker'[v] = worker[v]
  BY <1>1, Assigned, Records DEF WriteColumn
<1>4. column \in Int /\ wallet \in Int /\ lost \in Int /\ copy.quota \in Int
  BY <1>1 DEF TypeOK, CopyType
<1>5. \/ /\ column' = column + worker[w].val /\ wallet' = wallet + worker[w].val
         /\ faults' = faults
      \/ Fault /\ column' = column /\ wallet' = wallet
  BY DEF WriteColumn
<1>6. faults' \in 0..MaxFaults
  BY <1>1, <1>5, Counters DEF TypeOK
<1>7. TypeOK'
  BY <1>1, <1>2, <1>3, <1>4, <1>5, <1>6 DEF TypeOK
<1>8. Quiet'
  BY <1>1, <1>2, <1>3, Records DEF Quiet
<1>9. Waiting' = Waiting /\ Owed' = Owed
  BY <1>2 DEF Waiting, Owed
<1>10. Promise(w) = worker[w].val /\ Promise(w)' = 0
  BY <1>2, <1>3, Records DEF Promise
<1>11. Waiting \in Int /\ Owed \in Int /\ Promised \in Int
  BY <1>1, SumTypes
<1>12. Promised' = Promised - worker[w].val
  BY <1>1, <1>2, <1>3, <1>7, <1>10, <1>11, PromisedStep
<1>13. WalletExact'
  BY <1>1, <1>2, <1>4, <1>5, <1>9, <1>11 DEF WalletExact
<1>14. Drift' = Drift \/ faults' # faults
  <2>1. CASE column' = column + worker[w].val
    BY <2>1, <1>2, <1>4, <1>9, <1>11, <1>12 DEF Drift
  <2>2. CASE Fault
    BY <2>2, <1>1, Counters
  <2> QED
    BY <2>1, <2>2, <1>5
<1> QED
  BY <1>7, <1>8, <1>13, <1>14 DEF IInv, Explained

\* The batch updater takes the map.
LEMMA SwapStep ==
  ASSUME StoreAssumption, IInv, NEW n \in Nodes, SwapStore(n)
  PROVE  IInv' /\ Explained
<1>1. TypeOK /\ Quiet /\ WalletExact
  BY DEF IInv
<1>2. /\ batch[n] = 0 /\ batch' = [batch EXCEPT ![n] = store[n]] /\ store' = [store EXCEPT ![n] = 0]
      /\ column' = column /\ copy' = copy /\ worker' = worker /\ job' = job
      /\ changes' = changes /\ faults' = faults /\ wallet' = wallet /\ lost' = lost
  BY DEF SwapStore, history
<1>3. /\ batch' \in [Nodes -> Int] /\ store' \in [Nodes -> Int]
      /\ batch'[n] = store[n] /\ store'[n] = 0 /\ store[n] \in Int
      /\ \A m \in Nodes \ {n} : store'[m] = store[m] /\ batch'[m] = batch[m]
  BY <1>1, <1>2 DEF TypeOK
<1>4. TypeOK' /\ Quiet'
  BY <1>1, <1>2, <1>3 DEF TypeOK, Quiet
<1>5. Waiting' = Waiting
  BY <1>2, <1>3, WaitingStays
<1>6. Owed' = Owed /\ Promised' = Promised
  BY <1>2 DEF Owed, Promised
<1>7. WalletExact'
  BY <1>1, <1>2, <1>5 DEF WalletExact
<1>8. Drift' = Drift
  BY <1>2, <1>5, <1>6 DEF Drift
<1> QED
  BY <1>4, <1>7, <1>8 DEF IInv, Explained

\* The batch is written, and lost if that fails.
LEMMA WriteBatchStep ==
  ASSUME StoreAssumption, IInv, NEW n \in Nodes, WriteBatch(n)
  PROVE  IInv' /\ Explained
<1>1. TypeOK /\ Quiet /\ WalletExact
  BY DEF IInv
<1>2. /\ batch' = [batch EXCEPT ![n] = 0] /\ store' = store
      /\ copy' = copy /\ worker' = worker /\ job' = job
      /\ changes' = changes /\ wallet' = wallet
  BY DEF WriteBatch
<1>3. \/ column' = column + batch[n] /\ faults' = faults /\ lost' = lost
      \/ Fault /\ lost' = lost + batch[n] /\ column' = column
  BY DEF WriteBatch
<1>4. /\ batch' \in [Nodes -> Int] /\ batch'[n] = 0 /\ batch[n] \in Int /\ store[n] \in Int
      /\ \A m \in Nodes \ {n} : store'[m] = store[m] /\ batch'[m] = batch[m]
  BY <1>1, <1>2 DEF TypeOK
<1>5. column \in Int /\ wallet \in Int /\ lost \in Int /\ copy.quota \in Int
  BY <1>1 DEF TypeOK, CopyType
<1>6. faults' \in 0..MaxFaults
  BY <1>1, <1>3, Counters DEF TypeOK
<1>7. TypeOK' /\ Quiet'
  BY <1>1, <1>2, <1>3, <1>4, <1>5, <1>6 DEF TypeOK, Quiet
<1>8. Waiting' = Waiting + ((store'[n] + batch'[n]) - (store[n] + batch[n]))
  BY <1>1, <1>4, <1>7, WaitingStep
<1>9. Waiting \in Int /\ Owed \in Int /\ Promised \in Int
  BY <1>1, SumTypes
<1>10. Waiting' = Waiting - batch[n]
  BY <1>2, <1>4, <1>8, <1>9
<1>11. Owed' = Owed /\ Promised' = Promised
  BY <1>2 DEF Owed, Promised
<1>12. WalletExact'
  BY <1>1, <1>2, <1>3, <1>4, <1>5, <1>9, <1>10 DEF WalletExact
<1>13. Drift' = Drift \/ faults' # faults
  <2>1. CASE column' = column + batch[n]
    BY <2>1, <1>2, <1>4, <1>5, <1>9, <1>10, <1>11 DEF Drift
  <2>2. CASE Fault
    BY <2>2, <1>1, Counters
  <2> QED
    BY <2>1, <2>2, <1>3
<1> QED
  BY <1>7, <1>12, <1>13 DEF IInv, Explained

\* A payment changes column and wallet.
LEMMA CreditStep ==
  ASSUME StoreAssumption, IInv, NEW d \in Deltas, Credit(d)
  PROVE  IInv' /\ Explained
<1>1. TypeOK /\ Quiet /\ WalletExact /\ d \in Int /\ changes' \in 0..MaxChanges
  BY Counters DEF IInv, StoreAssumption, Credit
<1>2. /\ column' = column + d /\ wallet' = wallet + d
      /\ copy' = copy /\ store' = store /\ batch' = batch /\ worker' = worker /\ job' = job
      /\ faults' = faults /\ lost' = lost
  BY DEF Credit, memory
<1>3. column \in Int /\ wallet \in Int /\ lost \in Int
  BY <1>1 DEF TypeOK
<1>4. TypeOK' /\ Quiet'
  BY <1>1, <1>2, <1>3 DEF TypeOK, Quiet
<1>5. Waiting' = Waiting /\ Waiting \in Int
  BY <1>1, <1>2, SumTypes DEF Waiting
<1>6. WalletExact'
  BY <1>1, <1>2, <1>3, <1>5 DEF WalletExact
<1> QED
  BY <1>4, <1>6 DEF IInv, Explained

\* A step of a reader: the column, memory, copy and history stay.
LEMMA ReaderStep ==
  ASSUME StoreAssumption, IInv, NEW w \in Workers,
         Miss(w) \/ Load(w) \/ LoadQuota(w) \/ GetUserById(w) \/ UpdateUserFails(w)
  PROVE  IInv' /\ Explained
<1>1. TypeOK /\ Quiet /\ WalletExact
  BY DEF IInv
<1>2. /\ column' = column /\ copy' = copy /\ store' = store /\ batch' = batch
      /\ wallet' = wallet /\ lost' = lost
  BY DEF Miss, Load, LoadQuota, GetUserById, UpdateUserFails, memory, history
<1>3. faults' \in 0..MaxFaults /\ changes' \in 0..MaxChanges
  BY <1>1, Counters DEF Miss, Load, LoadQuota, GetUserById, UpdateUserFails, TypeOK
<1>4. column \in Int
  BY <1>1 DEF TypeOK
<1>5. PICK t \in WorkerType : /\ t.pc \in {"idle", "load", "save"}
                              /\ worker' = [worker EXCEPT ![w] = t]
                              /\ t.pc # "idle" => job' = job
  <2>1. CASE Miss(w)
    <3>1. [pc |-> "load", val |-> 0] \in WorkerType /\ [pc |-> "load", val |-> 0].pc = "load"
      BY DEF WorkerType
    <3> QED
      BY <2>1, <3>1 DEF Miss
  <2>2. CASE GetUserById(w)
    <3>1. [pc |-> "save", val |-> column] \in WorkerType /\ [pc |-> "save", val |-> column].pc = "save"
      BY <1>4 DEF WorkerType
    <3> QED
      BY <2>2, <3>1 DEF GetUserById
  <2>3. CASE Load(w) \/ LoadQuota(w) \/ UpdateUserFails(w)
    BY <2>3, Records DEF Load, LoadQuota, UpdateUserFails
  <2> QED
    BY <2>1, <2>2, <2>3
<1>6. /\ worker' \in [Workers -> WorkerType] /\ worker'[w] = t
      /\ \A v \in Workers \ {w} : worker'[v] = worker[v]
  BY <1>1, <1>5, Assigned
<1>7. job[w] = NoJob /\ worker[w].pc \in {"idle", "load", "save"}
  BY <1>1, Records DEF Miss, Load, LoadQuota, GetUserById, UpdateUserFails, Free, Quiet
<1>8. PICK j \in JobType : /\ j.op # "incr" /\ job' = [job EXCEPT ![w] = j]
                           /\ t.pc # "idle" => j = NoJob
  <2>1. job \in [Workers -> JobType]
    BY <1>1 DEF TypeOK
  <2>2. CASE Load(w)
    <3>1. /\ [op |-> "fill", val |-> column, ttl |-> 0] \in JobType
          /\ [op |-> "fill", val |-> column, ttl |-> 0].op = "fill"
      BY <1>4, Records
    <3>2. worker'[w] = Idle
      BY <2>2, <1>1 DEF Load, TypeOK
    <3> QED
      BY <2>2, <3>1, <3>2, <1>6, Records DEF Load
  <2>3. CASE LoadQuota(w)
    <3>1. /\ [op |-> "field", val |-> column, ttl |-> 0] \in JobType
          /\ [op |-> "field", val |-> column, ttl |-> 0].op = "field"
      BY <1>4, Records
    <3>2. worker'[w] = Idle
      BY <2>3, <1>1 DEF LoadQuota, TypeOK
    <3> QED
      BY <2>3, <3>1, <3>2, <1>6, Records DEF LoadQuota
  <2>4. CASE Miss(w) \/ GetUserById(w) \/ UpdateUserFails(w)
    <3>1. job' = job
      BY <2>4 DEF Miss, GetUserById, UpdateUserFails
    <3>2. job' = [job EXCEPT ![w] = NoJob]
      BY <3>1, <2>1, <1>7
    <3> QED
      BY <3>2, Records
  <2> QED
    BY <2>2, <2>3, <2>4
<1>9. /\ job' \in [Workers -> JobType] /\ job'[w] = j
      /\ \A v \in Workers \ {w} : job'[v] = job[v]
  BY <1>1, <1>8, Assigned
<1>10. TypeOK'
  BY <1>1, <1>2, <1>3, <1>6, <1>9 DEF TypeOK
<1>11. Quiet'
  BY <1>1, <1>5, <1>6, <1>8, <1>9 DEF Quiet
<1>12. Waiting' = Waiting
  BY <1>2 DEF Waiting
<1>13. Promise(w) = 0 /\ Promise(w)' = 0 /\ Owing(w) = 0 /\ Owing(w)' = 0
  BY <1>5, <1>6, <1>7, <1>8, <1>9, Records DEF Promise, Owing
<1>14. Promised \in Int /\ Owed \in Int
  BY <1>1, SumTypes
<1>15. Promised' = Promised
  BY <1>1, <1>6, <1>10, <1>13, <1>14, PromisedStep
<1>16. Owed' = Owed
  BY <1>1, <1>9, <1>10, <1>13, <1>14, OwedStep
<1>17. WalletExact'
  BY <1>1, <1>2, <1>12 DEF WalletExact
<1>18. Drift' = Drift
  BY <1>2, <1>12, <1>15, <1>16 DEF Drift
<1> QED
  BY <1>10, <1>11, <1>17, <1>18 DEF IInv, Explained

\* A page saves the row it has read.
LEMMA UpdateUserStep ==
  ASSUME StoreAssumption, IInv, NEW w \in Workers, UpdateUser(w)
  PROVE  IInv' /\ Explained
<1>1. TypeOK /\ Quiet /\ WalletExact
  BY DEF IInv
<1>2. /\ worker[w].pc = "save" /\ worker[w].val \in Int
      /\ copy' = copy /\ store' = store /\ batch' = batch /\ changes' = changes /\ faults' = faults
      /\ wallet' = wallet
  BY <1>1 DEF UpdateUser, memory, TypeOK, WorkerType
<1>3. column \in Int /\ wallet \in Int /\ lost \in Int /\ copy.quota \in Int
  BY <1>1 DEF TypeOK, CopyType
<1>4. column' \in Int /\ lost' = lost + (column - column')
  BY <1>2, <1>3 DEF UpdateUser
<1>5. /\ worker' \in [Workers -> WorkerType] /\ worker'[w] = Idle
      /\ \A v \in Workers \ {w} : worker'[v] = worker[v]
  BY <1>1, Assigned, Records DEF UpdateUser
<1>6. /\ job' \in [Workers -> JobType] /\ job'[w].op = "fill"
      /\ \A v \in Workers \ {w} : job'[v] = job[v]
  <2> DEFINE j == [op |-> "fill", val |-> column', ttl |-> 0]
  <2>1. j \in JobType /\ j.op = "fill"
    BY <1>4, Records
  <2>2. job' = [job EXCEPT ![w] = j]
    BY DEF UpdateUser
  <2> HIDE DEF j
  <2> QED
    BY <1>1, <2>1, <2>2, Assigned
<1>7. TypeOK'
  BY <1>1, <1>2, <1>3, <1>4, <1>5, <1>6 DEF TypeOK
<1>8. Quiet'
  BY <1>1, <1>5, <1>6, Records DEF Quiet
<1>9. job[w] = NoJob
  BY <1>1, <1>2 DEF Quiet
<1>10. Waiting' = Waiting /\ Waiting \in Int
  BY <1>1, <1>2, SumTypes DEF Waiting
<1>11. Promise(w) = 0 /\ Promise(w)' = 0 /\ Owing(w) = 0 /\ Owing(w)' = 0
  BY <1>2, <1>5, <1>6, <1>9, Records DEF Promise, Owing
<1>12. Promised \in Int /\ Owed \in Int
  BY <1>1, SumTypes
<1>13. Promised' = Promised
  BY <1>1, <1>5, <1>7, <1>11, <1>12, PromisedStep
<1>14. Owed' = Owed
  BY <1>1, <1>6, <1>7, <1>11, <1>12, OwedStep
<1> PICK c \in Int : column' = c
  BY <1>4
<1> PICK l \in Int : lost' = l /\ l = lost + (column - c)
  BY <1>3, <1>4
<1>15. WalletExact'
  <2>1. column + Waiting + lost = wallet
    BY <1>1 DEF WalletExact
  <2>2. c + Waiting + l = wallet
    BY <2>1, <1>3, <1>10
  <2> QED
    BY <2>2, <1>2, <1>10 DEF WalletExact
<1>16. lost' # lost \/ Drift' = Drift
  <2>1. CASE c = column
    BY <2>1, <1>2, <1>10, <1>13, <1>14 DEF Drift
  <2>2. CASE c # column
    <3>1. l # lost
      BY <2>2, <1>3
    <3> QED
      BY <3>1
  <2> QED
    BY <2>1, <2>2
<1> QED
  BY <1>7, <1>8, <1>15, <1>16 DEF IInv, Explained

\* A goroutine ends: Quiet holds for the others and for it.
LEMMA EndKeeps ==
  ASSUME StoreAssumption, TypeOK, Quiet, NEW w \in Workers, End(w), worker' = worker
  PROVE  /\ job' \in [Workers -> JobType] /\ job'[w] = NoJob
         /\ \A v \in Workers \ {w} : job'[v] = job[v]
         /\ Quiet' /\ Owing(w)' = 0
<1>1. /\ job' \in [Workers -> JobType] /\ job'[w] = NoJob
      /\ \A v \in Workers \ {w} : job'[v] = job[v]
  BY Assigned, Records DEF End
<1>2. Quiet'
  BY <1>1 DEF Quiet
<1>3. Owing(w)' = 0
  BY <1>1, Records DEF Owing
<1> QED
  BY <1>1, <1>2, <1>3

\* A copy is filled.
LEMMA HSetObjStep ==
  ASSUME StoreAssumption, IInv, NEW w \in Workers, RedisHSetObj(w)
  PROVE  IInv' /\ Explained
<1>1. TypeOK /\ Quiet /\ WalletExact
  BY DEF IInv
<1>2. /\ column' = column /\ store' = store /\ batch' = batch /\ worker' = worker
      /\ changes' = changes /\ faults' = faults /\ wallet' = wallet /\ lost' = lost /\ End(w)
  BY DEF RedisHSetObj, memory, history
<1>3. job' \in [Workers -> JobType] /\ Quiet'
  BY <1>1, <1>2, EndKeeps
<1> DEFINE life == IF Seconds > 0 THEN 2 * Seconds ELSE IF copy.life = 0 THEN Forever ELSE copy.life
<1>4. copy' = [life |-> life, quota |-> job[w].val, full |-> TRUE]
  BY DEF RedisHSetObj
<1>5. life \in {Forever} \cup 0..(2 * Seconds) /\ life # 0
  <2>1. copy.life \in {Forever} \cup 0..(2 * Seconds) /\ Seconds \in Nat
    BY <1>1 DEF TypeOK, CopyType, StoreAssumption
  <2>2. CASE Seconds > 0
    BY <2>1, <2>2
  <2>3. CASE ~(Seconds > 0)
    BY <2>1, <2>3 DEF Forever
  <2> QED
    BY <2>2, <2>3
<1>6. job[w].val \in Int
  BY <1>1 DEF TypeOK, JobType
<1> HIDE DEF life
<1>7. copy' \in CopyType /\ copy'.life # 0
  BY <1>4, <1>5, <1>6 DEF CopyType
<1>8. TypeOK'
  BY <1>1, <1>2, <1>3, <1>7 DEF TypeOK
<1>9. WalletExact'
  BY <1>1, <1>2 DEF WalletExact, Waiting
<1> QED
  BY <1>3, <1>8, <1>9 DEF IInv, Explained

\* TTL never answers more than the life a copy is given, and nothing only in
\* the last half second.
LEMMA TtlBound ==
  ASSUME StoreAssumption, TypeOK, copy.life > 0
  PROVE  Ttl \in 0..Seconds /\ (Ttl > 0 \/ copy.life = 1)
<1>1. Seconds \in Nat /\ copy.life \in {Forever} \cup 0..(2 * Seconds)
  BY DEF TypeOK, CopyType, StoreAssumption
<1>2. Ttl = copy.life \div 2
  BY DEF Ttl
<1>3. copy.life \in Nat /\ copy.life <= 2 * Seconds
  BY <1>1 DEF Forever
<1> QED
  BY <1>1, <1>2, <1>3

\* The first round trip of a change of one field.
LEMMA AskTtlStep ==
  ASSUME StoreAssumption, IInv, NEW w \in Workers, AskTtl(w)
  PROVE  IInv' /\ Explained
<1>1. TypeOK /\ Quiet /\ WalletExact
  BY DEF IInv
<1>2. /\ column' = column /\ copy' = copy /\ store' = store /\ batch' = batch /\ worker' = worker
      /\ changes' = changes /\ faults' = faults /\ wallet' = wallet /\ lost' = lost
      /\ job[w].op \in {"incr", "field"}
  BY DEF AskTtl, memory, history
<1>3. job \in [Workers -> JobType] /\ job[w] # NoJob /\ copy.life \in Int
  BY <1>1, <1>2, Records DEF TypeOK, CopyType, Forever, StoreAssumption
<1>4. Waiting' = Waiting /\ Promised' = Promised
  BY <1>2 DEF Waiting, Promised
<1>5. WalletExact'
  BY <1>1, <1>2, <1>4 DEF WalletExact
<1>6. CASE copy.life > 0 /\ Ttl > 0
  <2>1. Ttl \in 0..Seconds /\ Ttl > 0
    BY <1>1, <1>6, TtlBound
  <2> DEFINE j == [job[w] EXCEPT !.ttl = Ttl]
  <2>2. job' = [job EXCEPT ![w] = j]
    BY <2>1 DEF AskTtl
  <2>3. j \in JobType /\ j.op = job[w].op /\ j.val = job[w].val
    BY <1>2, <1>3, <2>1 DEF JobType
  <2> HIDE DEF j
  <2>4. /\ job' \in [Workers -> JobType] /\ job'[w] = j
        /\ \A v \in Workers \ {w} : job'[v] = job[v]
    BY <1>1, <2>2, <2>3, Assigned
  <2>5. TypeOK'
    BY <1>1, <1>2, <2>4 DEF TypeOK
  <2>6. Quiet'
    BY <1>1, <1>2, <1>3, <2>4 DEF Quiet
  <2>7. \A v \in Workers : job'[v].op = job[v].op /\ job'[v].val = job[v].val
    BY <2>3, <2>4
  <2>8. owes' = owes
    BY <2>7 DEF owes
  <2>9. Owed' = Owed
    BY <2>8 DEF Owed, owes
  <2>10. Drift' = Drift
    BY <2>9, <1>2, <1>4 DEF Drift
  <2> QED
    BY <2>5, <2>6, <2>10, <1>5 DEF IInv, Explained
<1>7. CASE ~(copy.life > 0 /\ Ttl > 0)
  <2>1. ~(Ttl > 0)
    BY <1>7, <1>3 DEF Ttl
  <2>2. job' = [job EXCEPT ![w] = NoJob]
    BY <2>1 DEF AskTtl
  <2>3. job' \in [Workers -> JobType] /\ Quiet'
    BY <2>2, <1>1, <1>2, EndKeeps DEF End
  <2>4. TypeOK'
    BY <2>3, <1>1, <1>2 DEF TypeOK
  <2>5. copy.life > 0 => copy.life = 1
    BY <2>1, <1>1, TtlBound
  <2> QED
    BY <2>3, <2>4, <2>5, <1>2, <1>5 DEF IInv, Explained
<1> QED
  BY <1>6, <1>7

\* The second one.
LEMMA ExecStep ==
  ASSUME StoreAssumption, IInv, NEW w \in Workers, Exec(w)
  PROVE  IInv' /\ Explained
<1>1. TypeOK /\ Quiet /\ WalletExact
  BY DEF IInv
<1>2. /\ column' = column /\ store' = store /\ batch' = batch /\ worker' = worker
      /\ changes' = changes /\ faults' = faults /\ wallet' = wallet /\ lost' = lost /\ End(w)
      /\ job[w].ttl > 0
  BY DEF Exec, memory, history
<1>3. /\ job' \in [Workers -> JobType] /\ \A v \in Workers \ {w} : job'[v] = job[v]
      /\ Quiet' /\ Owing(w)' = 0
  BY <1>1, <1>2, EndKeeps
<1>4. /\ copy \in CopyType /\ copy.quota \in Int /\ job[w].val \in Int /\ job[w].ttl \in 0..Seconds
      /\ Seconds \in Nat
  BY <1>1 DEF TypeOK, CopyType, JobType, StoreAssumption
<1> DEFINE q == IF job[w].op = "incr" THEN copy.quota + job[w].val ELSE job[w].val
<1> DEFINE l == 2 * job[w].ttl
<1>5. copy' = [copy EXCEPT !.quota = q, !.life = l]
  BY DEF Exec
<1>6. q \in Int /\ l \in 0..(2 * Seconds) /\ l # 0
  BY <1>2, <1>4
<1>7. job[w].op = "incr" => q = copy.quota + job[w].val
  OBVIOUS
<1> HIDE DEF q, l
<1>8. copy' \in CopyType /\ copy'.life # 0 /\ copy'.quota = q
  BY <1>4, <1>5, <1>6 DEF CopyType
<1>9. TypeOK'
  BY <1>1, <1>2, <1>3, <1>8 DEF TypeOK
<1>10. Waiting' = Waiting /\ Promised' = Promised
  BY <1>2 DEF Waiting, Promised
<1>11. WalletExact'
  BY <1>1, <1>2, <1>10 DEF WalletExact
<1>12. job[w].op \in {"incr", "field"}
  BY <1>1, <1>2 DEF TypeOK, JobType
<1>13. job[w].op = "incr" => Drift' = Drift
  <2> SUFFICES ASSUME job[w].op = "incr" PROVE Drift' = Drift
    OBVIOUS
  <2>1. Owing(w) = job[w].val
    BY DEF Owing
  <2>2. Owed \in Int /\ Promised \in Int /\ Waiting \in Int /\ column \in Int
    BY <1>1, SumTypes DEF TypeOK
  <2>3. Owed' = Owed - job[w].val
    BY <2>1, <2>2, <1>1, <1>3, <1>4, <1>9, OwedStep
  <2> QED
    BY <2>2, <2>3, <1>2, <1>4, <1>7, <1>8, <1>10 DEF Drift
<1> QED
  BY <1>3, <1>9, <1>11, <1>12, <1>13 DEF IInv, Explained

\* A goroutine gives up.
LEMMA JobFailsStep ==
  ASSUME StoreAssumption, IInv, NEW w \in Workers, JobFails(w)
  PROVE  IInv' /\ Explained
<1>1. TypeOK /\ Quiet /\ WalletExact
  BY DEF IInv
<1>2. /\ column' = column /\ copy' = copy /\ store' = store /\ batch' = batch /\ worker' = worker
      /\ changes' = changes /\ wallet' = wallet /\ lost' = lost /\ End(w) /\ Fault
  BY DEF JobFails, memory, history
<1>3. job' \in [Workers -> JobType] /\ Quiet'
  BY <1>1, <1>2, EndKeeps
<1>4. faults' \in 0..MaxFaults /\ faults' # faults
  BY <1>1, <1>2, Counters
<1>5. TypeOK'
  BY <1>1, <1>2, <1>3, <1>4 DEF TypeOK
<1>6. WalletExact'
  BY <1>1, <1>2 DEF WalletExact, Waiting
<1> QED
  BY <1>3, <1>4, <1>5, <1>6 DEF IInv, Explained

\* The copy is deleted, or its clock moves.
LEMMA ClockStep ==
  ASSUME StoreAssumption, IInv, InvalidateUserCache \/ Tick
  PROVE  IInv' /\ Explained
<1>1. TypeOK /\ Quiet /\ WalletExact
  BY DEF IInv
<1>2. /\ column' = column /\ store' = store /\ batch' = batch /\ worker' = worker /\ job' = job
      /\ changes' = changes /\ faults' = faults /\ wallet' = wallet /\ lost' = lost
  BY DEF InvalidateUserCache, Tick, memory, history
<1>3. /\ copy \in CopyType /\ Seconds \in Nat /\ copy.quota \in Int
      /\ copy.life \in {Forever} \cup 0..(2 * Seconds)
  BY <1>1 DEF TypeOK, CopyType, StoreAssumption
<1>4. \/ copy' = NoCopy
      \/ copy.life > 1 /\ copy' = [copy EXCEPT !.life = @ - 1]
  BY <1>3 DEF InvalidateUserCache, Tick, Forever
<1>5. /\ copy' \in CopyType /\ (copy'.life = 0 => copy' = NoCopy)
      /\ copy'.life = 0 \/ copy'.quota = copy.quota
  <2>1. CASE copy' = NoCopy
    BY <2>1, Records
  <2>2. CASE copy.life > 1 /\ copy' = [copy EXCEPT !.life = @ - 1]
    <3>1. copy.life - 1 \in {Forever} \cup 0..(2 * Seconds) /\ copy.life - 1 # 0
      BY <2>2, <1>3 DEF Forever
    <3> DEFINE l == copy.life - 1
    <3>2. copy' = [copy EXCEPT !.life = l]
      BY <2>2
    <3>3. l \in {Forever} \cup 0..(2 * Seconds) /\ l # 0
      BY <3>1
    <3> HIDE DEF l
    <3> QED
      BY <3>2, <3>3, <1>3 DEF CopyType
  <2> QED
    BY <2>1, <2>2, <1>4
<1>6. TypeOK' /\ Quiet'
  BY <1>1, <1>2, <1>5 DEF TypeOK, Quiet
<1>7. Waiting' = Waiting /\ Promised' = Promised /\ Owed' = Owed
  BY <1>2 DEF Waiting, Promised, Owed
<1>8. WalletExact'
  BY <1>1, <1>2, <1>7 DEF WalletExact
<1>9. copy'.life = 0 \/ Drift' = Drift
  BY <1>2, <1>5, <1>7 DEF Drift
<1> QED
  BY <1>6, <1>8, <1>9 DEF IInv, Explained

\* A process dies with its map, its batch and its workers.
LEMMA CrashStep ==
  ASSUME StoreAssumption, IInv, NEW n \in Nodes, Crash(n)
  PROVE  IInv' /\ Explained
<1>1. TypeOK /\ Quiet /\ WalletExact
  BY DEF IInv
<1>2. /\ column' = column /\ copy' = copy /\ changes' = changes /\ wallet' = wallet
      /\ lost' = lost + store[n] + batch[n]
      /\ store' = [store EXCEPT ![n] = 0] /\ batch' = [batch EXCEPT ![n] = 0]
      /\ worker' = [w \in Workers |-> IF Home[w] = n THEN Idle ELSE worker[w]]
      /\ job' = [w \in Workers |-> IF Home[w] = n THEN NoJob ELSE job[w]]
  BY DEF Crash
<1>3. faults' \in 0..MaxFaults /\ faults' # faults
  BY <1>1, Counters DEF Crash
<1>4. /\ store' \in [Nodes -> Int] /\ batch' \in [Nodes -> Int]
      /\ store'[n] = 0 /\ batch'[n] = 0 /\ store[n] \in Int /\ batch[n] \in Int
      /\ \A m \in Nodes \ {n} : store'[m] = store[m] /\ batch'[m] = batch[m]
  BY <1>1, <1>2 DEF TypeOK
<1>5. worker' \in [Workers -> WorkerType] /\ job' \in [Workers -> JobType]
  BY <1>1, <1>2, Records DEF TypeOK
<1>6. Quiet'
  BY <1>1, <1>2, Records DEF Quiet
<1>7. column \in Int /\ wallet \in Int /\ lost \in Int /\ lost' \in Int
  BY <1>1, <1>2, <1>4 DEF TypeOK
<1>8. TypeOK'
  BY <1>1, <1>2, <1>3, <1>4, <1>5, <1>7 DEF TypeOK
<1>9. Waiting' = Waiting + ((store'[n] + batch'[n]) - (store[n] + batch[n])) /\ Waiting \in Int
  BY <1>1, <1>4, <1>8, WaitingStep, SumTypes
<1>10. Waiting' = Waiting - (store[n] + batch[n])
  BY <1>4, <1>9
<1>11. WalletExact'
  BY <1>1, <1>2, <1>4, <1>7, <1>9, <1>10 DEF WalletExact
<1> QED
  BY <1>3, <1>6, <1>8, <1>11 DEF IInv, Explained

-----------------------------------------------------------------------------
(* The theorems.                                                           *)

\* At first nothing is waiting.
LEMMA InitIInv ==
  ASSUME StoreAssumption, Init
  PROVE  IInv
<1>1. TypeOK
  BY Records DEF Init, TypeOK, StoreAssumption
<1>2. Quiet
  BY Records DEF Init, Quiet
<1>3. Waiting = 0
  <2>1. waits = [m \in Nodes |-> 0]
    BY DEF waits, Init
  <2>2. waits \in [Nodes -> Int] /\ \A m \in Nodes : waits[m] = 0
    BY <2>1
  <2>3. SumFunction(waits) = 0
    BY <2>2, NodesFinite, SumZero
  <2> QED
    BY <2>3 DEF Waiting, waits
<1>4. WalletExact
  BY <1>3 DEF WalletExact, Init, StoreAssumption
<1> QED
  BY <1>1, <1>2, <1>4 DEF IInv

\* Every action keeps the invariant and is explained.
LEMMA NextStep ==
  ASSUME StoreAssumption, IInv, [Next]_vars
  PROVE  IInv' /\ [Explained]_vars
<1>1. CASE Next
  <2>1. ASSUME NEW w \in Workers, NEW d \in Deltas, NEW db \in BOOLEAN, IncreaseUserQuota(w, d, db)
        PROVE  IInv' /\ Explained
    BY <2>1, IncreaseStep
  <2>2. ASSUME NEW w \in Workers, Miss(w) \/ GetUserById(w) \/ Step(w)
        PROVE  IInv' /\ Explained
    BY <2>2, ReaderStep, WriteColumnStep, UpdateUserStep, HSetObjStep, AskTtlStep, ExecStep, JobFailsStep
       DEF Step
  <2>3. ASSUME NEW n \in Nodes, SwapStore(n) \/ WriteBatch(n) \/ Crash(n)
        PROVE  IInv' /\ Explained
    BY <2>3, SwapStep, WriteBatchStep, CrashStep
  <2>4. ASSUME NEW d \in Deltas, Credit(d)
        PROVE  IInv' /\ Explained
    BY <2>4, CreditStep
  <2>5. CASE InvalidateUserCache \/ Tick
    BY <2>5, ClockStep
  <2> QED
    BY <1>1, <2>1, <2>2, <2>3, <2>4, <2>5 DEF Next
<1>2. CASE UNCHANGED vars
  <2>1. /\ column' = column /\ copy' = copy /\ store' = store /\ batch' = batch
        /\ worker' = worker /\ job' = job /\ changes' = changes /\ faults' = faults
        /\ wallet' = wallet /\ lost' = lost
    BY <1>2 DEF vars
  <2>2. TypeOK' /\ Quiet' /\ WalletExact'
    BY <2>1 DEF IInv, TypeOK, Quiet, WalletExact, Waiting
  <2> QED
    BY <1>2, <2>2 DEF IInv
<1> QED
  BY <1>1, <1>2

\* The inductive invariant: types, quiet readers and an exact wallet hold in
\* every reachable state.
THEOREM Invariance == Spec => []IInv
<1>1. Init => IInv
  BY StoreAssumption, InitIInv
<1>2. IInv /\ [Next]_vars => IInv'
  BY StoreAssumption, NextStep
<1> QED
  BY <1>1, <1>2, PTL DEF Spec

\* Type correctness: the life of a copy never exceeds RedisKeyCacheSeconds,
\* and only commands on one field carry an answer of TTL.
THEOREM TypeCorrect == Spec => []TypeOK
<1>1. IInv => TypeOK
  BY DEF IInv
<1> QED
  BY <1>1, Invariance, PTL

\* No change of the wallet is lost or written twice between the maps of the
\* batch updater and the column, for any workers, processes and changes;
\* what crashes, failed batches and saves of old rows took is exactly lost.
THEOREM WalletIsExact == Spec => []WalletExact
<1>1. IInv => WalletExact
  BY DEF IInv
<1> QED
  BY <1>1, Invariance, PTL

\* A living copy drifts from the wallet only at the steps CopyFollows names.
THEOREM CopyIsFollowed == Spec => CopyFollows
<1>1. IInv /\ [Next]_vars => [Explained]_vars
  BY StoreAssumption, NextStep
<1>2. Spec => [][Explained]_vars
  BY <1>1, Invariance, PTL DEF Spec
<1>3. CopyFollows <=> [][Explained]_vars
  BY PTL DEF CopyFollows, Explained
<1> QED
  BY <1>2, <1>3, PTL
=============================================================================
