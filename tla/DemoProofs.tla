------------------------------ MODULE DemoProofs ------------------------------
(***************************************************************************)
(* Proofs about two of the demos that each take a module out of Redis: the *)
(* thread pool (ThreadPool), for any number of job types and workers, any  *)
(* limit and any number of rounds, and the strings of the configuration    *)
(* parser (Sds), for any texts, numbers, formats and sizes.                *)
(***************************************************************************)
EXTENDS ThreadPool, Sds, QueueLemmas, FiniteSetTheorems, TLAPS

-------------------------------------------------------------------------------
(* The thread pool. *)

LEMMA OpsNat == Ops \subseteq Nat /\ 0 \in Ops
  BY PoolAssumption DEF Ops

LEMMA MopNext ==
  ASSUME NEW m \in Ops PROVE (m + 1) % NumOps \in Ops
  BY PoolAssumption DEF Ops

LEMMA ListFacts ==
  ASSUME TypeOK, NEW op \in Ops
  PROVE  /\ IsFiniteSet(rejected[op])
         /\ Cardinality(rejected[op]) \in Nat
         /\ jobs[op] \in Seq(Jobs)
         /\ Len(jobs[op]) \in Nat
<1>1. IsFiniteSet(Jobs)
  BY PoolAssumption, FS_Interval DEF Jobs
<1>2. rejected[op] \subseteq Jobs
  BY DEF TypeOK
<1>3. jobs[op] \in Seq(Jobs)
  BY DEF TypeOK
<1>4. Len(jobs[op]) \in Nat
  BY <1>3
<1>5. QED
  BY <1>1, <1>2, <1>3, <1>4, FS_Subset, FS_CardinalityType

(* A step keeps every variable within its type, given that a listed job    *)
(* has been counted and that a worker about to run a job has one.          *)
LEMMA TypeStep ==
  ASSUME TypeOK, HandInv, CountInv, [Next]_vars
  PROVE  TypeOK'
<1>1. ASSUME NEW w \in Workers, SpawnWorker(w) PROVE TypeOK'
  BY PoolAssumption, OpsNat, <1>1 DEF TypeOK, Creating, SpawnWorker
<1>2. CASE AllocateJob
  <2>1. round \in Jobs
    BY PoolAssumption, OpsNat, <1>2 DEF TypeOK, Creating, AllocateJob, Jobs
  <2>2. heap' \in [Ops -> SUBSET Jobs]
    BY PoolAssumption, OpsNat, <1>2, <2>1 DEF TypeOK, Creating, AllocateJob
  <2>3. QED
    BY PoolAssumption, OpsNat, <1>2, <2>1, <2>2 DEF TypeOK, Creating, AllocateJob
<1>3. CASE LockToCreate
  BY PoolAssumption, OpsNat, <1>3 DEF TypeOK, Creating, LockToCreate
<1>4. CASE CountJob
  <2>0. pending[mop] \in Nat /\ pending[mop] + 1 \in Nat
    BY PoolAssumption, OpsNat DEF TypeOK
  <2>1. pending' \in [Ops -> Nat]
    BY PoolAssumption, OpsNat, <1>4, <2>0 DEF TypeOK, Creating, CountJob
  <2>2. mpc' \in {"reject", "push"}
    BY PoolAssumption, OpsNat, <1>4 DEF TypeOK, Creating, CountJob
  <2>3. QED
    BY PoolAssumption, OpsNat, <1>4, <2>1, <2>2 DEF TypeOK, Creating, CountJob
<1>5. CASE RejectJob
  <2>1. rejected' \in [Ops -> SUBSET Jobs]
    BY PoolAssumption, OpsNat, <1>5 DEF TypeOK, Creating, RejectJob
  <2>2. mop' \in Ops
    BY PoolAssumption, MopNext, <1>5 DEF TypeOK, Creating, RejectJob, NextSubmission
  <2>r. round' \in 1 .. (MaxRounds + 1)
    <3>1. round \in 1 .. MaxRounds
      BY PoolAssumption, OpsNat, <1>5 DEF TypeOK, Creating, RejectJob, Jobs
    <3>2. round' \in {round, round + 1}
      BY <1>5 DEF TypeOK, Creating, RejectJob, NextSubmission
    <3>3. QED
      BY PoolAssumption, <3>1, <3>2
  <2>3. mutex' \in [Ops -> Workers \union {Main, Nobody}]
    BY PoolAssumption, OpsNat, <1>5 DEF TypeOK, Creating, RejectJob
  <2>4. QED
    BY PoolAssumption, OpsNat, <1>5, <2>1, <2>2, <2>r, <2>3 DEF TypeOK, Creating, RejectJob, NextSubmission
<1>6. CASE PushJob
  <2>1. jobs[mop] \in Seq(Jobs) /\ round \in Jobs
    BY PoolAssumption, OpsNat, <1>6 DEF TypeOK, Creating, PushJob
  <2>2. jobs' \in [Ops -> Seq(Jobs)]
    BY PoolAssumption, OpsNat, <1>6, <2>1 DEF TypeOK, Creating, PushJob
  <2>3. accepted' \in [Ops -> SUBSET Jobs]
    BY PoolAssumption, OpsNat, <1>6, <2>1 DEF TypeOK, Creating, PushJob
  <2>4. QED
    BY PoolAssumption, OpsNat, <1>6, <2>1, <2>2, <2>3 DEF TypeOK, Creating, PushJob
<1>7. CASE SignalWorker
  BY PoolAssumption, OpsNat, <1>7 DEF TypeOK, Creating, SignalWorker, Waiters, Pool
<1>8. CASE UnlockCreated
  <2>1. mop' \in Ops
    BY PoolAssumption, MopNext, <1>8 DEF TypeOK, Creating, UnlockCreated, NextSubmission
  <2>r. round' \in 1 .. (MaxRounds + 1)
    <3>1. round \in 1 .. MaxRounds
      BY PoolAssumption, OpsNat, <1>8 DEF TypeOK, Creating, UnlockCreated, Jobs
    <3>2. round' \in {round, round + 1}
      BY <1>8 DEF TypeOK, Creating, UnlockCreated, NextSubmission
    <3>3. QED
      BY PoolAssumption, <3>1, <3>2
  <2>2. mutex' \in [Ops -> Workers \union {Main, Nobody}]
    BY PoolAssumption, OpsNat, <1>8 DEF TypeOK, Creating, UnlockCreated
  <2>3. QED
    BY PoolAssumption, OpsNat, <1>8, <2>1, <2>r, <2>2 DEF TypeOK, Creating, UnlockCreated, NextSubmission
<1>9. ASSUME NEW op \in Ops, LockToAsk(op) PROVE TypeOK'
  BY PoolAssumption, OpsNat, <1>9 DEF TypeOK, Creating, LockToAsk
<1>10. CASE ReadPending
  BY PoolAssumption, OpsNat, <1>10 DEF TypeOK, Creating, ReadPending
<1>11. CASE UseAnswer
  BY PoolAssumption, OpsNat, <1>11 DEF TypeOK, Creating, UseAnswer
<1>12. ASSUME NEW w \in Workers, LockToWork(w) PROVE TypeOK'
  BY PoolAssumption, OpsNat, <1>12 DEF TypeOK, Creating, LockToWork, mainVars
<1>13. ASSUME NEW w \in Workers, WaitForJob(w) PROVE TypeOK'
  BY PoolAssumption, OpsNat, <1>13 DEF TypeOK, Creating, WaitForJob, mainVars
<1>14. ASSUME NEW w \in Workers, PopJob(w) PROVE TypeOK'
  <2> DEFINE op == TypeOf[w]
  <2>0. op \in Ops /\ jobs[op] \in Seq(Jobs)
    BY PoolAssumption, OpsNat DEF TypeOK
  <2>1. Len(jobs[op]) \in Nat /\ Len(jobs[op]) # 0
    BY PoolAssumption, OpsNat, <1>14, <2>0 DEF TypeOK, Creating, PopJob
  <2>2. Head(jobs[op]) \in Jobs /\ Tail(jobs[op]) \in Seq(Jobs)
    BY <2>0, <2>1
  <2>3. pending[op] - 1 \in Nat
    <3>1. pending[op] = Len(jobs[op]) + Cardinality(rejected[op]) + Counted(op)
      BY <2>0 DEF CountInv
    <3>2. Cardinality(rejected[op]) \in Nat
      BY <2>0, ListFacts
    <3>3. Counted(op) \in {0, 1}
      BY DEF Counted
    <3>4. QED
      BY <2>1, <3>1, <3>2, <3>3
  <2>4. hand' \in [Workers -> Jobs \union {NoJob}]
    BY PoolAssumption, OpsNat, <1>14, <2>2 DEF TypeOK, Creating, PopJob
  <2>5. jobs' \in [Ops -> Seq(Jobs)]
    BY PoolAssumption, OpsNat, <1>14, <2>2 DEF TypeOK, Creating, PopJob
  <2>6. pending' \in [Ops -> Nat]
    BY PoolAssumption, OpsNat, <1>14, <2>3 DEF TypeOK, Creating, PopJob
  <2>7. QED
    BY PoolAssumption, OpsNat, <1>14, <2>4, <2>5, <2>6 DEF TypeOK, Creating, PopJob, mainVars
<1>15. ASSUME NEW w \in Workers, UnlockToRun(w) PROVE TypeOK'
  BY PoolAssumption, OpsNat, <1>15 DEF TypeOK, Creating, UnlockToRun, mainVars
<1>16. ASSUME NEW w \in Workers, RunJob(w) PROVE TypeOK'
  <2>1. hand[w] \in Jobs
    BY PoolAssumption, OpsNat, <1>16 DEF TypeOK, Creating, RunJob, HandInv
  <2>2. executed' \in [Ops -> SUBSET Jobs]
    BY PoolAssumption, OpsNat, <1>16, <2>1 DEF TypeOK, Creating, RunJob
  <2>3. QED
    BY PoolAssumption, OpsNat, <1>16, <2>2 DEF TypeOK, Creating, RunJob, mainVars
<1>17. ASSUME NEW w \in Workers, FreeJob(w) PROVE TypeOK'
  BY PoolAssumption, OpsNat, <1>17 DEF TypeOK, Creating, FreeJob, mainVars
<1>18. ASSUME NEW w \in Workers, WakeSpuriously(w) PROVE TypeOK'
  BY PoolAssumption, OpsNat, <1>18 DEF TypeOK, Creating, WakeSpuriously, mainVars
<1>19. CASE UNCHANGED vars
  BY PoolAssumption, OpsNat, <1>19 DEF TypeOK, vars, mainVars
<1>20. QED
  BY <1>1, <1>2, <1>3, <1>4, <1>5, <1>6, <1>7, <1>8, <1>9, <1>10, <1>11, <1>12,
     <1>13, <1>14, <1>15, <1>16, <1>17, <1>18, <1>19
  DEF Next, CreateJob, AskPending, WorkerRuns

(* A worker has a job exactly from taking it to freeing it.                *)
LEMMA HandStep ==
  ASSUME TypeOK, HandInv, [Next]_vars
  PROVE  HandInv'
<1> USE PoolAssumption DEF TypeOK, HandInv
<1>1. ASSUME NEW w \in Workers, SpawnWorker(w) PROVE HandInv'
  BY <1>1 DEF SpawnWorker
<1>2. ASSUME UNCHANGED <<wpc, hand, executed>> PROVE HandInv'
  BY <1>2
<1>3. CASE SignalWorker
  BY <1>3 DEF SignalWorker, Waiters, Pool
<1>4. ASSUME NEW w \in Workers, LockToWork(w) \/ WakeSpuriously(w) \/ WaitForJob(w)
      PROVE HandInv'
  BY <1>4 DEF LockToWork, WakeSpuriously, WaitForJob, mainVars
<1>5. ASSUME NEW w \in Workers, PopJob(w) PROVE HandInv'
  <2>1. jobs[TypeOf[w]] \in Seq(Jobs) /\ jobs[TypeOf[w]] # <<>>
    BY <1>5 DEF PopJob
  <2>2. Head(jobs[TypeOf[w]]) \in Jobs
    BY <2>1
  <2>3. Head(jobs[TypeOf[w]]) # NoJob
    BY <2>2 DEF Jobs, NoJob
  <2>4. QED
    BY <1>5, <2>3 DEF PopJob, mainVars
<1>6. ASSUME NEW w \in Workers, UnlockToRun(w) PROVE HandInv'
  BY <1>6 DEF UnlockToRun, mainVars
<1>7. ASSUME NEW w \in Workers, RunJob(w) PROVE HandInv'
  BY <1>7 DEF RunJob, mainVars
<1>8. ASSUME NEW w \in Workers, FreeJob(w) PROVE HandInv'
  BY <1>8 DEF FreeJob, mainVars
<1>9. QED
  <2>1. CASE AllocateJob \/ LockToCreate \/ CountJob \/ RejectJob \/ PushJob \/ UnlockCreated
    BY <1>2, <2>1 DEF AllocateJob, LockToCreate, CountJob, RejectJob, PushJob, UnlockCreated
  <2>2. CASE AskPending
    BY <1>2, <2>2 DEF AskPending, LockToAsk, ReadPending, UseAnswer
  <2>3. CASE UNCHANGED vars
    BY <1>2, <2>3 DEF vars
  <2>4. QED
    BY <1>1, <1>3, <1>4, <1>5, <1>6, <1>7, <1>8, <2>1, <2>2, <2>3
    DEF Next, CreateJob, WorkerRuns

(* Only the thread between the lock and the unlock holds the mutex.        *)
LEMMA MutexStep ==
  ASSUME TypeOK, MutexInv, [Next]_vars
  PROVE  MutexInv'
<1> USE PoolAssumption DEF TypeOK, MutexInv, MainHolds, Creating, Holding, Pool
<1>1. ASSUME NEW w \in Workers, SpawnWorker(w) PROVE MutexInv'
  BY <1>1 DEF SpawnWorker
<1>2. CASE AllocateJob
  BY <1>2 DEF AllocateJob
<1>3. CASE LockToCreate
  BY <1>3 DEF LockToCreate
<1>4. CASE CountJob
  BY <1>4 DEF CountJob
<1>5. CASE RejectJob
  BY <1>5 DEF RejectJob, NextSubmission
<1>6. CASE PushJob
  BY <1>6 DEF PushJob
<1>7. CASE SignalWorker
  BY <1>7 DEF SignalWorker, Waiters
<1>8. CASE UnlockCreated
  BY <1>8 DEF UnlockCreated, NextSubmission
<1>9. ASSUME NEW op \in Ops, LockToAsk(op) PROVE MutexInv'
  BY <1>9 DEF LockToAsk
<1>10. CASE ReadPending
  BY <1>10 DEF ReadPending
<1>11. CASE UseAnswer
  BY <1>11 DEF UseAnswer
<1>12. ASSUME NEW w \in Workers, LockToWork(w) PROVE MutexInv'
  BY <1>12 DEF LockToWork, mainVars
<1>13. ASSUME NEW w \in Workers, WaitForJob(w) PROVE MutexInv'
  BY <1>13 DEF WaitForJob, mainVars
<1>14. ASSUME NEW w \in Workers, PopJob(w) PROVE MutexInv'
  BY <1>14 DEF PopJob, mainVars
<1>15. ASSUME NEW w \in Workers, UnlockToRun(w) PROVE MutexInv'
  BY <1>15 DEF UnlockToRun, mainVars
<1>16. ASSUME NEW w \in Workers, RunJob(w) \/ FreeJob(w) \/ WakeSpuriously(w)
       PROVE MutexInv'
  BY <1>16 DEF RunJob, FreeJob, WakeSpuriously, mainVars
<1>17. CASE UNCHANGED vars
  BY <1>17 DEF vars, mainVars
<1>18. QED
  BY <1>1, <1>2, <1>3, <1>4, <1>5, <1>6, <1>7, <1>8, <1>9, <1>10, <1>11, <1>12,
     <1>13, <1>14, <1>15, <1>16, <1>17
  DEF Next, CreateJob, AskPending, WorkerRuns

-------------------------------------------------------------------------------
(* Where main's loop goes on after a submission.                           *)
LEMMA SubmissionOrder ==
  ASSUME TypeOK, NextSubmission, round \in Jobs
  PROVE  /\ mpc' = "next"
         /\ \/ mop = NumOps - 1 /\ mop' = 0 /\ round' = round + 1
            \/ mop < NumOps - 1 /\ mop' = mop + 1 /\ round' = round
<1>1. mop \in 0 .. (NumOps - 1) /\ NumOps \in Nat \ {0}
  BY PoolAssumption DEF TypeOK, Ops
<1>2. CASE mop = NumOps - 1
  <2>1. (mop + 1) % NumOps = 0
    BY <1>1, <1>2
  <2>2. QED
    BY <1>2, <2>1 DEF NextSubmission
<1>3. CASE mop < NumOps - 1
  <2>1. (mop + 1) % NumOps = mop + 1
    BY <1>1, <1>3
  <2>2. QED
    BY <1>1, <1>3, <2>1 DEF NextSubmission
<1>4. QED
  BY <1>1, <1>2, <1>3

(* What was decided stays decided, and the job main has in hand becomes so.*)
LEMMA DecidedNext ==
  ASSUME TypeOK, NextSubmission, round \in Jobs, NEW op \in Ops, NEW j \in Jobs,
         Decided(op, j) \/ (j = round /\ op = mop)
  PROVE  Decided(op, j)'
<1>1. mop \in 0 .. (NumOps - 1) /\ op \in 0 .. (NumOps - 1) /\ NumOps \in Nat
  BY PoolAssumption DEF TypeOK, Ops
<1>2. round \in Nat /\ j \in Nat /\ j <= round
  BY PoolAssumption DEF Jobs, Decided
<1>3. CASE mop = NumOps - 1 /\ mop' = 0 /\ round' = round + 1
  BY <1>1, <1>2, <1>3 DEF Decided
<1>4. CASE mop < NumOps - 1 /\ mop' = mop + 1 /\ round' = round
  BY <1>1, <1>2, <1>4 DEF Decided
<1>5. QED
  BY <1>3, <1>4, SubmissionOrder

(* A type's jobs are decided one after the other.                          *)
LEMMA FreshStep ==
  ASSUME TypeOK, FreshInv, [Next]_vars
  PROVE  FreshInv'
<1>1. CASE PushJob
  <2>1. ~Decided(mop, round) /\ round \in Jobs
    <3>1. mop \in Ops /\ round \in Jobs
      BY <1>1 DEF TypeOK, PushJob, Creating
    <3>2. mop \in Nat /\ round \in Nat
      BY <3>1, OpsNat DEF Jobs
    <3>3. QED
      BY <1>1, <3>1, <3>2 DEF Decided, PushJob
  <2>2. round \notin accepted[mop] \union rejected[mop]
    BY <2>1 DEF FreshInv, TypeOK
  <2>4. ASSUME NEW op \in Ops, NEW j \in Jobs, Decided(op, j) PROVE Decided(op, j)'
    BY <1>1, <2>4 DEF Decided, PushJob
  <2>5. accepted' = [accepted EXCEPT ![mop] = @ \union {round}] /\ rejected' = rejected
    BY <1>1 DEF PushJob
  <2>6. ASSUME NEW op \in Ops, NEW j \in accepted'[op] \union rejected'[op]
        PROVE  Decided(op, j)'
    <3>1. CASE j \in accepted[op] \union rejected[op]
      BY <2>4, <3>1 DEF FreshInv, TypeOK
    <3>2. CASE op = mop /\ j = round
      BY <1>1, <3>2 DEF Decided, PushJob
    <3>3. QED
      BY <2>5, <2>6, <3>1, <3>2 DEF TypeOK
  <2>7. ASSUME NEW op \in Ops PROVE accepted'[op] \intersect rejected'[op] = {}
    BY <2>2, <2>5 DEF FreshInv, TypeOK
  <2>8. QED
    BY <2>6, <2>7 DEF FreshInv
<1>2. CASE RejectJob
  <2>1. ~Decided(mop, round) /\ round \in Jobs
    <3>1. mop \in Ops /\ round \in Jobs
      BY <1>2 DEF TypeOK, RejectJob, Creating
    <3>2. mop \in Nat /\ round \in Nat
      BY <3>1, OpsNat DEF Jobs
    <3>3. QED
      BY <1>2, <3>1, <3>2 DEF Decided, RejectJob
  <2>2. round \notin accepted[mop] \union rejected[mop]
    BY <2>1 DEF FreshInv, TypeOK
  <2>3. ASSUME NEW op \in Ops, NEW j \in Jobs,
               Decided(op, j) \/ (j = round /\ op = mop)
        PROVE Decided(op, j)'
    BY <1>2, <2>1, <2>3, DecidedNext DEF RejectJob
  <2>4. rejected' = [rejected EXCEPT ![mop] = @ \union {round}] /\ accepted' = accepted
    BY <1>2 DEF RejectJob
  <2>5. QED
    BY <2>1, <2>2, <2>3, <2>4 DEF FreshInv, TypeOK
<1>3. CASE UnlockCreated
  <2>1. round \in Jobs
    BY <1>3 DEF TypeOK, UnlockCreated, Creating
  <2>2. ASSUME NEW op \in Ops, NEW j \in Jobs, Decided(op, j) PROVE Decided(op, j)'
    BY <1>3, <2>1, <2>2, DecidedNext DEF UnlockCreated
  <2>3. accepted' = accepted /\ rejected' = rejected
    BY <1>3 DEF UnlockCreated
  <2>4. QED
    BY <2>2, <2>3 DEF FreshInv, TypeOK
<1>4. ASSUME UNCHANGED <<round, mop, accepted, rejected>>,
             mpc \in {"signal", "unlock"} => mpc' \in {"signal", "unlock"}
      PROVE  FreshInv'
  BY <1>4 DEF FreshInv, Decided
<1>5. CASE AllocateJob \/ LockToCreate \/ CountJob \/ SignalWorker
  BY <1>4, <1>5 DEF AllocateJob, LockToCreate, CountJob, SignalWorker
<1>6. CASE AskPending
  BY <1>4, <1>6 DEF AskPending, LockToAsk, ReadPending, UseAnswer
<1>7. ASSUME NEW w \in Workers,
             \/ SpawnWorker(w) \/ LockToWork(w) \/ WakeSpuriously(w) \/ WorkerRuns(w)
      PROVE FreshInv'
  BY <1>4, <1>7 DEF SpawnWorker, LockToWork, WakeSpuriously, WorkerRuns, WaitForJob,
     PopJob, UnlockToRun, RunJob, FreeJob, mainVars
<1>8. CASE UNCHANGED vars
  BY <1>4, <1>8 DEF vars, mainVars
<1>9. QED
  BY <1>1, <1>2, <1>3, <1>5, <1>6, <1>7, <1>8 DEF Next, CreateJob

-------------------------------------------------------------------------------
(* The counter counts the listed and the rejected jobs.                    *)
LEMMA CountStep ==
  ASSUME TypeOK, TypeOK', FreshInv, CountInv, [Next]_vars
  PROVE  CountInv'
<1>1. ASSUME UNCHANGED <<jobs, pending, rejected>>,
             \A op \in Ops : Counted(op)' = Counted(op),
             mpc' = "push" => mpc = "push" /\ mop' = mop
      PROVE  CountInv'
  BY <1>1 DEF CountInv
<1>2. CASE CountJob
  <2>1. SUFFICES ASSUME NEW op \in Ops
                 PROVE  /\ pending'[op] = Len(jobs'[op]) + Cardinality(rejected'[op]) + Counted(op)'
                        /\ Len(jobs'[op]) < MaxPending
                        /\ mop' = op /\ mpc' = "push" => pending'[op] < MaxPending
    BY DEF CountInv
  <2>2. UNCHANGED <<jobs, rejected, mop>> /\ mpc = "locked" /\ mpc' \in {"push", "reject"}
    BY <1>2 DEF CountJob
  <2>3. CASE op # mop
    BY <1>2, <2>2, <2>3 DEF CountJob, CountInv, Counted, TypeOK
  <2>4. CASE op = mop
    <3>1. pending'[op] = pending[op] + 1 /\ Counted(op) = 0 /\ Counted(op)' = 1
      BY <1>2, <2>2, <2>4 DEF CountJob, Counted, TypeOK
    <3>2. mpc' = "push" => pending'[op] < MaxPending
      BY <1>2, <2>4, PoolAssumption, <3>1 DEF CountJob, TypeOK
    <3>3. Cardinality(rejected[op]) \in Nat /\ Len(jobs[op]) \in Nat
      BY ListFacts
    <3>4. pending[op] = Len(jobs[op]) + Cardinality(rejected[op]) + Counted(op)
          /\ Len(jobs[op]) < MaxPending
      BY DEF CountInv
    <3>5. QED
      BY <2>2, <2>4, <3>1, <3>2, <3>3, <3>4
  <2>5. QED
    BY <2>3, <2>4
<1>3. CASE RejectJob
  <2>1. round \in Jobs /\ mop \in Ops /\ round \notin rejected[mop]
    <3>1. round \in Jobs /\ mop \in Ops /\ mpc = "reject"
      BY <1>3 DEF RejectJob, TypeOK, Creating
    <3>2. round \in Nat /\ mop \in Nat
      BY <3>1, OpsNat DEF Jobs
    <3>3. QED
      BY <3>1, <3>2 DEF FreshInv, Decided
  <2>2. Cardinality(rejected[mop] \union {round}) = Cardinality(rejected[mop]) + 1
    BY <2>1, ListFacts, FS_AddElement
  <2>3. ASSUME NEW op \in Ops
        PROVE  pending'[op] = Len(jobs'[op]) + Cardinality(rejected'[op]) + Counted(op)'
    <3>1. pending[op] = Len(jobs[op]) + Cardinality(rejected[op]) + Counted(op)
      BY DEF CountInv
    <3>2. Cardinality(rejected[op]) \in Nat /\ Len(jobs[op]) \in Nat
      BY ListFacts
    <3>3. Counted(op)' = 0 /\ UNCHANGED <<jobs, pending>>
      BY <1>3 DEF RejectJob, NextSubmission, Counted
    <3>4. CASE op = mop
      <4>1. Counted(op) = 1 /\ rejected'[op] = rejected[mop] \union {round}
        BY <1>3, <3>4 DEF RejectJob, Counted, TypeOK
      <4>2. QED
        BY <2>2, <3>1, <3>2, <3>3, <3>4, <4>1
    <3>5. CASE op # mop
      <4>1. Counted(op) = 0 /\ rejected'[op] = rejected[op]
        BY <1>3, <2>1, <3>5 DEF RejectJob, Counted, TypeOK
      <4>2. QED
        BY <3>1, <3>2, <3>3, <4>1
    <3>6. QED
      BY <3>4, <3>5
  <2>4. QED
    BY <1>3, <2>3 DEF CountInv, RejectJob, NextSubmission
<1>4. CASE PushJob
  <2>1. SUFFICES ASSUME NEW op \in Ops
                 PROVE  /\ pending'[op] = Len(jobs'[op]) + Cardinality(rejected'[op]) + Counted(op)'
                        /\ Len(jobs'[op]) < MaxPending
    BY <1>4 DEF CountInv, PushJob
  <2>2. /\ pending[op] = Len(jobs[op]) + Cardinality(rejected[op]) + Counted(op)
        /\ Len(jobs[op]) < MaxPending
        /\ Cardinality(rejected[op]) \in Nat
        /\ Len(jobs[op]) \in Nat
    BY ListFacts DEF CountInv
  <2>3. UNCHANGED <<pending, rejected>> /\ Counted(op)' = 0
    BY <1>4 DEF PushJob, Counted
  <2>4. CASE op = mop
    <3>1. Counted(op) = 1 /\ pending[op] < MaxPending
      BY <1>4, <2>4 DEF PushJob, Counted, CountInv
    <3>2. jobs[op] \in Seq(Jobs) /\ jobs'[op] = Append(jobs[op], round)
      BY <1>4, <2>4 DEF PushJob, TypeOK
    <3>3. Len(jobs'[op]) = Len(jobs[op]) + 1
      BY <3>2
    <3>4. QED
      BY <2>2, <2>3, <3>1, <3>3, PoolAssumption
  <2>5. CASE op # mop
    <3>1. Counted(op) = 0 /\ jobs'[op] = jobs[op]
      BY <1>4, <2>5 DEF PushJob, Counted, TypeOK
    <3>2. QED
      BY <2>2, <2>3, <3>1
  <2>6. QED
    BY <2>4, <2>5
<1>5. ASSUME NEW w \in Workers, PopJob(w) PROVE CountInv'
  <2>1. SUFFICES ASSUME NEW op \in Ops
                 PROVE  /\ pending'[op] = Len(jobs'[op]) + Cardinality(rejected'[op]) + Counted(op)'
                        /\ Len(jobs'[op]) < MaxPending
                        /\ mop' = op /\ mpc' = "push" => pending'[op] < MaxPending
    BY DEF CountInv
  <2>2. /\ pending[op] = Len(jobs[op]) + Cardinality(rejected[op]) + Counted(op)
        /\ Len(jobs[op]) < MaxPending
        /\ mop = op /\ mpc = "push" => pending[op] < MaxPending
        /\ Cardinality(rejected[op]) \in Nat
        /\ jobs[op] \in Seq(Jobs)
        /\ pending[op] \in Nat
    <3>1. pending[op] \in Nat
      BY DEF TypeOK
    <3>2. QED
      BY <3>1, ListFacts DEF CountInv
  <2>3. UNCHANGED <<rejected, mop, mpc>> /\ Counted(op)' = Counted(op) /\ Counted(op) \in {0, 1}
    BY <1>5 DEF PopJob, mainVars, Counted
  <2>4. CASE op = TypeOf[w]
    <3>1. jobs[op] # <<>> /\ jobs'[op] = Tail(jobs[op]) /\ pending'[op] = pending[op] - 1
      BY <1>5, <2>4 DEF PopJob, TypeOK
    <3>2. Len(jobs'[op]) = Len(jobs[op]) - 1 /\ Len(jobs[op]) \in Nat
      BY <2>2, <3>1
    <3>3. QED
      BY <2>2, <2>3, <3>1, <3>2, PoolAssumption
  <2>5. CASE op # TypeOf[w]
    BY <1>5, <2>2, <2>3, <2>5 DEF PopJob, TypeOK
  <2>6. QED
    BY <2>4, <2>5
<1>6. CASE AllocateJob \/ LockToCreate \/ SignalWorker \/ UnlockCreated
  BY <1>1, <1>6 DEF AllocateJob, LockToCreate, SignalWorker, UnlockCreated, NextSubmission, Counted
<1>7. CASE AskPending
  BY <1>1, <1>7 DEF AskPending, LockToAsk, ReadPending, UseAnswer, Counted
<1>8. ASSUME NEW w \in Workers,
             \/ SpawnWorker(w) \/ LockToWork(w) \/ WakeSpuriously(w)
             \/ WaitForJob(w) \/ UnlockToRun(w) \/ RunJob(w) \/ FreeJob(w)
      PROVE CountInv'
  BY <1>1, <1>8 DEF SpawnWorker, LockToWork, WakeSpuriously, WaitForJob, UnlockToRun,
     RunJob, FreeJob, mainVars, Counted
<1>9. CASE UNCHANGED vars
  BY <1>1, <1>9 DEF vars, mainVars, Counted
<1>10. QED
  BY <1>2, <1>3, <1>4, <1>5, <1>6, <1>7, <1>8, <1>9 DEF Next, CreateJob, WorkerRuns

-------------------------------------------------------------------------------
(* What taking a job does to the list it is taken from.                    *)
LEMMA PopFacts ==
  ASSUME TypeOK, JobsInv, NEW w \in Workers, PopJob(w)
  PROVE  LET op == TypeOf[w] IN
         /\ op \in Ops
         /\ Queued(op)' = Queued(op) \ {Head(jobs[op])}
         /\ Head(jobs[op]) \in Queued(op)
         /\ Head(jobs[op]) \in Jobs
         /\ Distinct(jobs'[op])
         /\ jobs[op] \in Seq(Jobs) /\ jobs[op] # <<>>
<1> DEFINE o == TypeOf[w]
<1>1. o \in Ops /\ jobs[o] \in Seq(Jobs)
  BY PoolAssumption DEF TypeOK
<1>2. jobs[o] # <<>> /\ jobs'[o] = Tail(jobs[o])
  BY <1>1 DEF PopJob, TypeOK
<1>3. Distinct(jobs[o])
  BY <1>1 DEF JobsInv, Distinct
<1>4. Elems(Tail(jobs[o])) = Elems(jobs[o]) \ {Head(jobs[o])}
      /\ Head(jobs[o]) \in Elems(jobs[o]) /\ Distinct(Tail(jobs[o]))
  BY <1>1, <1>2, <1>3, TailElems
<1>5. Queued(o) = Elems(jobs[o]) /\ Queued(o)' = Elems(Tail(jobs[o]))
  BY <1>2 DEF Queued, Elems
<1>6. Head(jobs[o]) \in Jobs
  BY <1>1, <1>2
<1>7. QED
  BY <1>1, <1>2, <1>4, <1>5, <1>6

(* The accepted jobs stay where they are, or move from the list to a       *)
(* worker, or from a worker to the executed ones.                          *)
LEMMA JobsStep ==
  ASSUME TypeOK, HandInv, FreshInv, JobsInv, [Next]_vars
  PROVE  JobsInv'
<1>1. ASSUME UNCHANGED <<jobs, hand, accepted, executed>>,
             \A w \in Workers : wpc'[w] \in {"popped", "run"} <=> wpc[w] \in {"popped", "run"}
      PROVE  JobsInv'
  <2>1. \A op \in Ops : Queued(op)' = Queued(op) /\ Taken(op)' = Taken(op)
    BY <1>1 DEF Queued, Taken, Pool
  <2>2. QED
    BY <1>1, <2>1 DEF JobsInv, Pool
<1>2. CASE PushJob
  <2>1. round \in Jobs /\ mop \in Ops
    BY <1>2 DEF PushJob, TypeOK, Creating
  <2>2. round \notin accepted[mop]
    <3>1. round \in Nat /\ mop \in Nat
      BY <2>1, OpsNat DEF Jobs
    <3>2. QED
      BY <1>2, <2>1, <3>1 DEF FreshInv, Decided, PushJob
  <2>3. UNCHANGED <<wpc, hand, executed>>
        /\ accepted' = [accepted EXCEPT ![mop] = @ \union {round}]
        /\ jobs' = [jobs EXCEPT ![mop] = Append(@, round)]
    BY <1>2 DEF PushJob
  <2>4. \A op \in Ops : Taken(op)' = Taken(op)
    BY <2>3 DEF Taken, Pool
  <2>5. SUFFICES ASSUME NEW op \in Ops
                 PROVE  /\ accepted'[op] = Queued(op)' \union Taken(op) \union executed[op]
                        /\ Queued(op)' \intersect (Taken(op) \union executed[op]) = {}
                        /\ Distinct(jobs'[op])
    BY <2>3, <2>4 DEF JobsInv, Pool, Distinct
  <2>6. CASE op # mop
    BY <2>3, <2>6 DEF JobsInv, Queued, Distinct, TypeOK
  <2>7. CASE op = mop
    <3>1. jobs[op] \in Seq(Jobs) /\ jobs'[op] = Append(jobs[op], round)
      BY <2>3, <2>7 DEF TypeOK
    <3>2. Distinct(jobs[op]) /\ Queued(op) = Elems(jobs[op])
      BY DEF JobsInv, Distinct, Queued, Elems
    <3>3. round \notin Queued(op) \union Taken(op) \union executed[op]
      BY <2>2, <2>7 DEF JobsInv
    <3>4. Elems(jobs'[op]) = Queued(op) \union {round} /\ Distinct(jobs'[op])
      BY <2>1, <3>1, <3>2, <3>3, AppendElems
    <3>5. Queued(op)' = Queued(op) \union {round}
      BY <3>4 DEF Queued, Elems
    <3>6. accepted'[op] = accepted[op] \union {round}
      BY <2>3, <2>7 DEF TypeOK
    <3>7. QED
      BY <3>3, <3>4, <3>5, <3>6 DEF JobsInv
  <2>8. QED
    BY <2>6, <2>7
<1>3. ASSUME NEW w \in Workers, PopJob(w) PROVE JobsInv'
  <2> DEFINE o == TypeOf[w]
             j == Head(jobs[o])
  <2>1. /\ o \in Ops
        /\ Queued(o)' = Queued(o) \ {j}
        /\ j \in Queued(o)
        /\ Distinct(jobs'[o])
    BY <1>3, PopFacts
  <2>2. /\ UNCHANGED <<accepted, executed>>
        /\ jobs' = [jobs EXCEPT ![o] = Tail(@)]
        /\ hand' = [hand EXCEPT ![w] = j]
        /\ wpc' = [wpc EXCEPT ![w] = "popped"]
        /\ wpc[w] = "top"
    BY <1>3 DEF PopJob
  <2>3. Taken(o)' = Taken(o) \union {j}
    BY <2>1, <2>2, PoolAssumption DEF Taken, Pool, TypeOK
  <2>4. \A op \in Ops \ {o} : Taken(op)' = Taken(op) /\ Queued(op)' = Queued(op)
    BY <2>1, <2>2, PoolAssumption DEF Taken, Queued, Pool, TypeOK
  <2>5. \A v \in Pool(o) : v # w => hand[v] # j
    <3>1. SUFFICES ASSUME NEW v \in Pool(o), v # w, hand[v] = j, j # NoJob PROVE FALSE
      BY <1>3, PopFacts DEF Jobs, NoJob
    <3>2. wpc[v] \in {"popped", "run", "ran"}
      BY <3>1 DEF HandInv, Pool
    <3>3. j \in Taken(o) \union executed[o]
      BY <3>1, <3>2 DEF HandInv, Taken, Pool
    <3>4. QED
      BY <2>1, <3>3 DEF JobsInv
  <2>6. \A op \in Ops : \A u, v \in Pool(op) : hand'[u] = hand'[v] /\ hand'[u] # NoJob => u = v
    BY <2>2, <2>5 DEF JobsInv, Pool, TypeOK
  <2>7. ASSUME NEW op \in Ops
        PROVE  /\ accepted'[op] = Queued(op)' \union Taken(op)' \union executed'[op]
               /\ Queued(op)' \intersect (Taken(op)' \union executed'[op]) = {}
               /\ Taken(op)' \intersect executed'[op] = {}
               /\ Distinct(jobs'[op])
    <3>1. CASE op = o
      BY <2>1, <2>2, <2>3, <3>1 DEF JobsInv
    <3>2. CASE op # o
      BY <2>2, <2>4, <3>2 DEF JobsInv, Distinct, TypeOK
    <3>3. QED
      BY <3>1, <3>2
  <2>8. QED
    BY <2>6, <2>7 DEF JobsInv, Distinct, Pool
<1>4. ASSUME NEW w \in Workers, RunJob(w) PROVE JobsInv'
  <2> DEFINE o == TypeOf[w]
             j == hand[w]
  <2>1. /\ o \in Ops
        /\ UNCHANGED <<accepted, jobs, hand>>
        /\ executed' = [executed EXCEPT ![o] = @ \union {j}]
        /\ wpc' = [wpc EXCEPT ![w] = "ran"]
        /\ wpc[w] = "run"
        /\ w \in Pool(o)
    BY <1>4, PoolAssumption DEF RunJob, mainVars, Pool
  <2>2. j \in Taken(o) /\ j # NoJob
    BY <2>1 DEF Taken, HandInv
  <2>3. Taken(o)' = Taken(o) \ {j}
    BY <2>1, <2>2 DEF Taken, Pool, TypeOK, JobsInv
  <2>4. \A op \in Ops \ {o} : Taken(op)' = Taken(op)
    BY <2>1 DEF Taken, Pool, TypeOK
  <2>5. \A op \in Ops : Queued(op)' = Queued(op)
    BY <2>1 DEF Queued
  <2>6. ASSUME NEW op \in Ops
        PROVE  /\ accepted'[op] = Queued(op)' \union Taken(op)' \union executed'[op]
               /\ Queued(op)' \intersect (Taken(op)' \union executed'[op]) = {}
               /\ Taken(op)' \intersect executed'[op] = {}
    <3>1. CASE op = o
      <4>1. executed'[op] = executed[op] \union {j}
        BY <2>1, <3>1 DEF TypeOK
      <4>2. QED
        BY <2>1, <2>2, <2>3, <2>5, <3>1, <4>1 DEF JobsInv
    <3>2. CASE op # o
      BY <2>1, <2>4, <2>5, <3>2 DEF JobsInv, TypeOK
    <3>3. QED
      BY <3>1, <3>2
  <2>7. QED
    BY <2>1, <2>6 DEF JobsInv, Pool
<1>5. ASSUME NEW w \in Workers, FreeJob(w) PROVE JobsInv'
  <2>1. /\ UNCHANGED <<accepted, jobs, executed>>
        /\ hand' = [hand EXCEPT ![w] = NoJob]
        /\ wpc' = [wpc EXCEPT ![w] = "lock"]
        /\ wpc[w] = "ran"
    BY <1>5 DEF FreeJob, mainVars
  <2>2. \A op \in Ops : Queued(op)' = Queued(op) /\ Taken(op)' = Taken(op)
    BY <2>1 DEF Queued, Taken, Pool, TypeOK
  <2>3. \A op \in Ops : \A u, v \in Pool(op) : hand'[u] = hand'[v] /\ hand'[u] # NoJob => u = v
    BY <2>1 DEF JobsInv, Pool, TypeOK
  <2>4. QED
    BY <2>1, <2>2, <2>3 DEF JobsInv, Pool
<1>6. CASE AllocateJob \/ LockToCreate \/ CountJob \/ RejectJob \/ UnlockCreated
  BY <1>1, <1>6 DEF AllocateJob, LockToCreate, CountJob, RejectJob, UnlockCreated
<1>7. CASE SignalWorker
  BY <1>1, <1>7 DEF SignalWorker, Waiters, TypeOK, Pool
<1>8. CASE AskPending
  BY <1>1, <1>8 DEF AskPending, LockToAsk, ReadPending, UseAnswer
<1>9. ASSUME NEW w \in Workers,
             \/ SpawnWorker(w) \/ LockToWork(w) \/ WakeSpuriously(w)
             \/ WaitForJob(w) \/ UnlockToRun(w)
      PROVE JobsInv'
  BY <1>1, <1>9 DEF SpawnWorker, LockToWork, WakeSpuriously, WaitForJob, UnlockToRun, TypeOK
<1>10. CASE UNCHANGED vars
  BY <1>1, <1>10 DEF vars, mainVars
<1>11. QED
  BY <1>2, <1>3, <1>4, <1>5, <1>6, <1>7, <1>8, <1>9, <1>10 DEF Next, CreateJob, WorkerRuns

-------------------------------------------------------------------------------
\* The jobs of a type in the hands of its workers, and in those of main.
InHand(op) == {hand[w] : w \in {v \in Pool(op) : hand[v] # NoJob}}
WithMain(op) ==
  IF mop = op /\ mpc \in {"created", "locked", "push", "reject"} THEN {round} ELSE {}

(* A structure moves from main to the list or to the rejected jobs, from   *)
(* the list to a worker, and is freed there: nobody else still has it.     *)
LEMMA HeapStep ==
  ASSUME TypeOK, HandInv, FreshInv, JobsInv, HeapInv, [Next]_vars
  PROVE  HeapInv'
<1> SUFFICES ASSUME NEW op \in Ops
             PROVE  heap'[op] = Queued(op)' \union InHand(op)' \union rejected'[op]
                                \union WithMain(op)'
  BY DEF HeapInv, InHand, WithMain
<1> DEFINE Goal == heap'[op] = Queued(op)' \union InHand(op)' \union rejected'[op]
                               \union WithMain(op)'
<1>0. heap[op] = Queued(op) \union InHand(op) \union rejected[op] \union WithMain(op)
  BY DEF HeapInv, InHand, WithMain
<1>h. ASSUME UNCHANGED hand PROVE InHand(op)' = InHand(op)
  BY <1>h DEF InHand, Pool
<1>1. ASSUME UNCHANGED <<heap, jobs, hand, rejected>>, WithMain(op)' = WithMain(op)
      PROVE  Goal
  BY <1>0, <1>1, <1>h DEF Queued
<1>2. CASE AllocateJob
  <2>1. UNCHANGED <<jobs, hand, rejected, mop, round>> /\ mpc = "next" /\ mpc' = "created"
        /\ heap' = [heap EXCEPT ![mop] = @ \union {round}] /\ heap \in [Ops -> SUBSET Jobs]
    BY <1>2 DEF AllocateJob, TypeOK
  <2>2. WithMain(op) = {} /\ WithMain(op)' = IF op = mop THEN {round} ELSE {}
    BY <2>1 DEF WithMain
  <2>3. heap'[op] = IF op = mop THEN heap[op] \union {round} ELSE heap[op]
    BY <2>1
  <2>4. QED
    BY <1>0, <1>h, <2>1, <2>2, <2>3 DEF Queued
<1>3. CASE PushJob
  <2>1. /\ UNCHANGED <<heap, hand, rejected, mop, round>> /\ mpc = "push" /\ mpc' = "signal"
        /\ jobs' = [jobs EXCEPT ![mop] = Append(@, round)] /\ jobs \in [Ops -> Seq(Jobs)]
        /\ round \in Jobs /\ mop \in Ops
    BY <1>3 DEF PushJob, TypeOK, Creating
  <2>2. WithMain(op)' = {} /\ WithMain(op) = IF op = mop THEN {round} ELSE {}
    BY <2>1 DEF WithMain
  <2>3. Queued(op)' = IF op = mop THEN Queued(op) \union {round} ELSE Queued(op)
    <3>1. Elems(Append(jobs[mop], round)) = Elems(jobs[mop]) \union {round}
      BY <2>1, AppendElems
    <3>2. jobs'[op] = IF op = mop THEN Append(jobs[mop], round) ELSE jobs[op]
      BY <2>1
    <3>3. QED
      BY <3>1, <3>2 DEF Queued, Elems
  <2>4. QED
    BY <1>0, <1>h, <2>1, <2>2, <2>3
<1>4. CASE RejectJob
  <2>1. /\ UNCHANGED <<heap, hand, jobs>> /\ mpc = "reject" /\ mpc' = "next"
        /\ rejected' = [rejected EXCEPT ![mop] = @ \union {round}]
        /\ rejected \in [Ops -> SUBSET Jobs]
    BY <1>4 DEF RejectJob, NextSubmission, TypeOK
  <2>2. WithMain(op)' = {} /\ WithMain(op) = IF op = mop THEN {round} ELSE {}
    BY <2>1 DEF WithMain
  <2>3. rejected'[op] = IF op = mop THEN rejected[op] \union {round} ELSE rejected[op]
    BY <2>1
  <2>4. QED
    BY <1>0, <1>h, <2>1, <2>2, <2>3 DEF Queued
<1>5. ASSUME NEW w \in Workers, PopJob(w) PROVE Goal
  <2> DEFINE o == TypeOf[w]
             j == Head(jobs[o])
  <2>1. /\ UNCHANGED <<heap, rejected, mop, mpc, round>>
        /\ hand' = [hand EXCEPT ![w] = j] /\ hand \in [Workers -> Jobs \union {NoJob}]
        /\ wpc[w] = "top" /\ o \in Ops
    BY <1>5, PoolAssumption DEF PopJob, mainVars, TypeOK
  <2>2. hand[w] = NoJob
    BY <2>1 DEF HandInv
  <2>3. j \in Jobs /\ Queued(o)' = Queued(o) \ {j} /\ j \in Queued(o)
    BY <1>5, PopFacts
  <2>4. j # NoJob
    BY <2>3 DEF Jobs, NoJob
  <2>5. WithMain(op)' = WithMain(op)
    BY <2>1 DEF WithMain
  <2>6. CASE op = o
    <3>1. InHand(op)' = InHand(op) \union {j}
      BY <2>1, <2>2, <2>4, <2>6 DEF InHand, Pool
    <3>2. QED
      BY <1>0, <2>1, <2>3, <2>5, <2>6, <3>1
  <2>7. CASE op # o
    <3>1. InHand(op)' = InHand(op)
      BY <2>1, <2>7 DEF InHand, Pool
    <3>2. Queued(op)' = Queued(op)
      BY <1>5, <2>7 DEF Queued, PopJob, TypeOK
    <3>3. QED
      BY <1>0, <2>1, <2>5, <3>1, <3>2
  <2>8. QED
    BY <2>6, <2>7
<1>6. ASSUME NEW w \in Workers, FreeJob(w) PROVE Goal
  <2> DEFINE o == TypeOf[w]
             j == hand[w]
  <2>1. /\ UNCHANGED <<jobs, rejected, mop, mpc, round>>
        /\ heap' = [heap EXCEPT ![o] = @ \ {j}] /\ heap \in [Ops -> SUBSET Jobs]
        /\ hand' = [hand EXCEPT ![w] = NoJob] /\ hand \in [Workers -> Jobs \union {NoJob}]
        /\ wpc[w] = "ran" /\ o \in Ops /\ w \in Pool(o)
    BY <1>6, PoolAssumption DEF FreeJob, mainVars, TypeOK, Pool
  <2>2. j # NoJob /\ j \in executed[o]
    BY <2>1 DEF HandInv
  <2>3. j \notin Queued(o) /\ j \in accepted[o]
    BY <2>1, <2>2 DEF JobsInv
  <2>4. j \notin rejected[o] /\ Decided(o, j)
    BY <2>1, <2>3 DEF FreshInv
  <2>5. j \notin WithMain(o)
    <3>1. round \in Nat /\ mop \in Nat
      BY PoolAssumption, OpsNat DEF TypeOK
    <3>2. QED
      BY <2>4, <3>1 DEF WithMain, Decided
  <2>6. WithMain(op)' = WithMain(op) /\ Queued(op)' = Queued(op)
    BY <2>1 DEF WithMain, Queued
  <2>7. CASE op = o
    <3>1. \A v \in Pool(o) : v # w /\ hand[v] # NoJob => hand[v] # j
      BY <2>1, <2>2 DEF JobsInv
    <3>2. InHand(op)' = InHand(op) \ {j}
      BY <2>1, <2>7, <3>1 DEF InHand, Pool
    <3>3. heap'[op] = heap[op] \ {j}
      BY <2>1, <2>7
    <3>4. QED
      BY <1>0, <2>1, <2>3, <2>4, <2>5, <2>6, <2>7, <3>2, <3>3
  <2>8. CASE op # o
    <3>1. InHand(op)' = InHand(op)
      BY <2>1, <2>8 DEF InHand, Pool
    <3>2. QED
      BY <1>0, <2>1, <2>6, <2>8, <3>1
  <2>9. QED
    BY <2>7, <2>8
<1>7. CASE LockToCreate \/ CountJob \/ SignalWorker
  BY <1>1, <1>7 DEF LockToCreate, CountJob, SignalWorker, WithMain
<1>8. CASE UnlockCreated \/ AskPending
  BY <1>1, <1>8 DEF UnlockCreated, NextSubmission, AskPending, LockToAsk, ReadPending,
     UseAnswer, WithMain
<1>9. ASSUME NEW w \in Workers,
             \/ SpawnWorker(w) \/ LockToWork(w) \/ WakeSpuriously(w)
             \/ WaitForJob(w) \/ UnlockToRun(w) \/ RunJob(w)
      PROVE Goal
  BY <1>1, <1>9 DEF SpawnWorker, LockToWork, WakeSpuriously, WaitForJob, UnlockToRun, RunJob,
     mainVars, WithMain
<1>10. CASE UNCHANGED vars
  BY <1>1, <1>10 DEF vars, mainVars, WithMain
<1>11. QED
  BY <1>2, <1>3, <1>4, <1>5, <1>6, <1>7, <1>8, <1>9, <1>10 DEF Next, CreateJob, WorkerRuns

-------------------------------------------------------------------------------
\* The job in the list whose signal is still to be sent.
Unsignalled(op) == IF mop = op /\ mpc = "signal" THEN 1 ELSE 0

(* A signal sends a waiter to the list; a worker that takes a job shortens *)
(* the list, and one that goes to sleep has found it empty.                *)
LEMMA WakeupStep ==
  ASSUME TypeOK, TypeOK', WakeupInv, [Next]_vars
  PROVE  WakeupInv'
<1> SUFFICES ASSUME NEW op \in Ops, Waiters(op)' # {}
             PROVE  Len(jobs'[op]) <= Cardinality(Seekers(op)') + Unsignalled(op)'
  BY DEF WakeupInv, Unsignalled
<1> DEFINE Goal == Len(jobs'[op]) <= Cardinality(Seekers(op)') + Unsignalled(op)'
<1>n. /\ Len(jobs[op]) \in Nat /\ Len(jobs'[op]) \in Nat
      /\ Unsignalled(op) \in {0, 1} /\ Unsignalled(op)' \in {0, 1}
      /\ jobs[op] \in Seq(Jobs) /\ jobs'[op] \in Seq(Jobs)
  <2>1. Unsignalled(op) \in {0, 1} /\ Unsignalled(op)' \in {0, 1}
    BY DEF Unsignalled
  <2>2. jobs[op] \in Seq(Jobs) /\ jobs'[op] \in Seq(Jobs)
    BY DEF TypeOK
  <2>3. QED
    BY <2>1, <2>2
<1>f. /\ IsFiniteSet(Seekers(op)) /\ Cardinality(Seekers(op)) \in Nat
      /\ IsFiniteSet(Seekers(op)') /\ Cardinality(Seekers(op)') \in Nat
  <2>1. IsFiniteSet(Workers) /\ Seekers(op) \subseteq Workers /\ Seekers(op)' \subseteq Workers
    BY PoolAssumption DEF Seekers, Pool
  <2>2. QED
    BY <2>1, FS_Subset, FS_CardinalityType
<1>0. Waiters(op) # {} => Len(jobs[op]) <= Cardinality(Seekers(op)) + Unsignalled(op)
  BY DEF WakeupInv, Unsignalled
\* A step that lengthens neither the list nor the queue of sleepers.
<1>1. ASSUME UNCHANGED jobs, Waiters(op)' \subseteq Waiters(op),
             Seekers(op) \subseteq Seekers(op)', Unsignalled(op) <= Unsignalled(op)'
      PROVE  Goal
  <2>1. Cardinality(Seekers(op)) <= Cardinality(Seekers(op)')
    BY <1>1, <1>f, FS_Subset
  <2>2. QED
    BY <1>0, <1>1, <1>n, <1>f, <2>1
<1>2. ASSUME NEW w \in Workers, NEW from, from \in {"unborn", "wait", "ran", "lock"},
             NEW to, to \in {"lock", "top"}, wpc[w] = from, wpc' = [wpc EXCEPT ![w] = to],
             UNCHANGED jobs, mpc = "signal" => UNCHANGED <<mpc, mop>>
      PROVE  Goal
  <2>1. Seekers(op) \subseteq Seekers(op)' /\ Waiters(op)' \subseteq Waiters(op)
    BY <1>2 DEF Seekers, Waiters, Pool, TypeOK
  <2>2. Unsignalled(op) <= Unsignalled(op)'
    BY <1>2 DEF Unsignalled
  <2>3. QED
    BY <1>1, <1>2, <2>1, <2>2
<1>3. ASSUME UNCHANGED <<jobs, wpc>>, mpc = "signal" => UNCHANGED <<mpc, mop>>
      PROVE  Goal
  BY <1>1, <1>3 DEF Seekers, Waiters, Pool, Unsignalled
<1>4. CASE PushJob
  <2>1. /\ mpc = "push" /\ mpc' = "signal" /\ UNCHANGED <<wpc, mop>>
        /\ jobs' = [jobs EXCEPT ![mop] = Append(@, round)] /\ jobs \in [Ops -> Seq(Jobs)]
        /\ round \in Jobs /\ mop \in Ops
    BY <1>4 DEF PushJob, TypeOK, Creating
  <2>2. Seekers(op)' = Seekers(op) /\ Waiters(op)' = Waiters(op)
    BY <2>1 DEF Seekers, Waiters, Pool
  <2>3. Len(jobs'[op]) = Len(jobs[op]) + Unsignalled(op)' /\ Unsignalled(op) = 0
    BY <2>1 DEF Unsignalled
  <2>4. QED
    BY <1>0, <1>n, <1>f, <2>2, <2>3
<1>5. CASE SignalWorker
  <2>1. mpc = "signal" /\ mpc' = "unlock" /\ UNCHANGED <<jobs, mop>>
    BY <1>5 DEF SignalWorker
  <2>2. Unsignalled(op)' = 0 /\ Unsignalled(op) = IF mop = op THEN 1 ELSE 0
    BY <2>1 DEF Unsignalled
  <2>3. CASE Waiters(mop) = {} /\ UNCHANGED wpc
    <3>1. Waiters(op)' = Waiters(op) /\ Seekers(op)' = Seekers(op)
      BY <2>3 DEF Waiters, Seekers, Pool
    <3>2. mop # op
      BY <2>3, <3>1
    <3>3. QED
      BY <1>1, <2>1, <2>2, <3>1, <3>2
  <2>4. ASSUME NEW w \in Waiters(mop), wpc' = [wpc EXCEPT ![w] = "lock"] PROVE Goal
    <3>1. /\ w \in Pool(mop) /\ wpc[w] = "wait" /\ w \in Workers /\ TypeOf[w] = mop
          /\ wpc \in [Workers -> {"unborn", "lock", "top", "wait", "popped", "run", "ran"}]
      BY <2>4 DEF Waiters, Pool, TypeOK
    <3>2. Waiters(op)' \subseteq Waiters(op)
      BY <2>4, <3>1 DEF Waiters, Pool
    <3>3. CASE mop = op
      <4>1. Seekers(op)' = Seekers(op) \union {w} /\ w \notin Seekers(op)
        BY <2>4, <3>1, <3>3 DEF Seekers, Pool
      <4>2. Cardinality(Seekers(op)') = Cardinality(Seekers(op)) + 1
        BY <1>f, <4>1, FS_AddElement
      <4>3. QED
        BY <1>0, <1>n, <1>f, <2>1, <2>2, <3>2, <3>3, <4>2
    <3>4. CASE mop # op
      <4>1. Seekers(op) \subseteq Seekers(op)'
        BY <2>4, <3>1, <3>4 DEF Seekers, Pool
      <4>2. QED
        BY <1>1, <2>1, <2>2, <3>2, <3>4, <4>1
    <3>5. QED
      BY <3>3, <3>4
  <2>5. QED
    BY <1>5, <2>3, <2>4 DEF SignalWorker
<1>6. ASSUME NEW w \in Workers, PopJob(w) PROVE Goal
  <2>1. /\ wpc[w] = "top" /\ UNCHANGED <<mpc, mop>> /\ wpc' = [wpc EXCEPT ![w] = "popped"]
        /\ jobs' = [jobs EXCEPT ![TypeOf[w]] = Tail(@)] /\ Len(jobs[TypeOf[w]]) # 0
        /\ jobs \in [Ops -> Seq(Jobs)] /\ TypeOf[w] \in Ops
        /\ wpc \in [Workers -> {"unborn", "lock", "top", "wait", "popped", "run", "ran"}]
    BY <1>6, PoolAssumption DEF PopJob, mainVars, TypeOK
  <2>2. Waiters(op)' = Waiters(op) /\ Unsignalled(op)' = Unsignalled(op)
    BY <2>1 DEF Waiters, Pool, Unsignalled
  <2>3. CASE TypeOf[w] = op
    <3>1. Seekers(op)' = Seekers(op) \ {w} /\ w \in Seekers(op)
      BY <2>1, <2>3 DEF Seekers, Pool
    <3>2. Cardinality(Seekers(op)') = Cardinality(Seekers(op)) - 1
      BY <1>f, <3>1, FS_RemoveElement
    <3>3. jobs'[op] = Tail(jobs[op]) /\ jobs[op] # <<>>
      BY <2>1, <2>3
    <3>4. Len(jobs'[op]) = Len(jobs[op]) - 1
      BY <1>n, <3>3
    <3>5. QED
      BY <1>0, <1>n, <1>f, <2>2, <3>2, <3>4
  <2>4. CASE TypeOf[w] # op
    <3>1. Seekers(op)' = Seekers(op) /\ jobs'[op] = jobs[op]
      BY <2>1, <2>4 DEF Seekers, Pool
    <3>2. QED
      BY <1>0, <1>n, <1>f, <2>2, <3>1
  <2>5. QED
    BY <2>3, <2>4
<1>7. ASSUME NEW w \in Workers, WaitForJob(w) PROVE Goal
  <2>1. /\ wpc[w] = "top" /\ UNCHANGED <<jobs, mpc, mop>> /\ wpc' = [wpc EXCEPT ![w] = "wait"]
        /\ Len(jobs[TypeOf[w]]) = 0
        /\ wpc \in [Workers -> {"unborn", "lock", "top", "wait", "popped", "run", "ran"}]
    BY <1>7 DEF WaitForJob, mainVars, TypeOK
  <2>2. CASE TypeOf[w] = op
    BY <1>n, <1>f, <2>1, <2>2
  <2>3. CASE TypeOf[w] # op
    <3>1. Seekers(op)' = Seekers(op) /\ Waiters(op)' = Waiters(op)
          /\ Unsignalled(op)' = Unsignalled(op)
      BY <2>1, <2>3 DEF Seekers, Waiters, Pool, Unsignalled
    <3>2. QED
      BY <1>0, <1>n, <1>f, <2>1, <3>1
  <2>4. QED
    BY <2>2, <2>3
<1>8. ASSUME NEW w \in Workers, UnlockToRun(w) \/ RunJob(w) PROVE Goal
  <2>1. Seekers(op)' = Seekers(op) /\ Waiters(op)' = Waiters(op) /\ UNCHANGED <<jobs, mpc, mop>>
    BY <1>8 DEF UnlockToRun, RunJob, mainVars, Seekers, Waiters, Pool, TypeOK
  <2>2. Unsignalled(op)' = Unsignalled(op)
    BY <2>1 DEF Unsignalled
  <2>3. QED
    BY <1>0, <1>n, <2>1, <2>2
<1>9. ASSUME NEW w \in Workers,
             SpawnWorker(w) \/ LockToWork(w) \/ WakeSpuriously(w) \/ FreeJob(w)
      PROVE  Goal
  BY <1>2, <1>9 DEF SpawnWorker, LockToWork, WakeSpuriously, FreeJob, mainVars
<1>10. CASE AllocateJob \/ LockToCreate \/ CountJob \/ RejectJob \/ UnlockCreated \/ AskPending
  BY <1>3, <1>10 DEF AllocateJob, LockToCreate, CountJob, RejectJob, UnlockCreated, AskPending,
     LockToAsk, ReadPending, UseAnswer
<1>11. CASE UNCHANGED vars
  BY <1>3, <1>11 DEF vars, mainVars
<1>12. QED
  BY <1>4, <1>5, <1>6, <1>7, <1>8, <1>9, <1>10, <1>11 DEF Next, CreateJob, WorkerRuns

-------------------------------------------------------------------------------
IInv == TypeOK /\ HandInv /\ MutexInv /\ FreshInv /\ CountInv /\ JobsInv
        /\ HeapInv /\ WakeupInv

LEMMA InitInv == Init => IInv
<1> SUFFICES ASSUME Init PROVE IInv
  OBVIOUS
<1> USE PoolAssumption, OpsNat DEF Init
<1>1. TypeOK
  BY DEF TypeOK, Creating
<1>2. HandInv
  BY DEF HandInv
<1>3. MutexInv
  BY DEF MutexInv, MainHolds, Creating, Holding, Pool
<1>4. FreshInv
  BY DEF FreshInv
<1>5. CountInv
  <2>1. Cardinality({}) = 0
    BY FS_EmptySet
  <2>2. QED
    BY <2>1 DEF CountInv, Counted
<1>6. JobsInv
  BY DEF JobsInv, Queued, Taken, Pool
<1>7. HeapInv
  BY DEF HeapInv, Queued, Pool
<1>8. WakeupInv
  BY DEF WakeupInv, Waiters, Pool
<1>9. QED
  BY <1>1, <1>2, <1>3, <1>4, <1>5, <1>6, <1>7, <1>8 DEF IInv

LEMMA NextInv == IInv /\ [Next]_vars => IInv'
  BY TypeStep, HandStep, MutexStep, FreshStep, CountStep, JobsStep, HeapStep, WakeupStep DEF IInv

THEOREM Inductive == Spec => []IInv
  BY InitInv, NextInv, PTL DEF Spec

(* Every variable of the thread pool keeps its type; above all bio_pending *)
(* is never decremented below zero.                                        *)
THEOREM TypeCorrect == Spec => []TypeOK
  BY Inductive, PTL DEF IInv

(* The critical sections of a type exclude each other: at most one thread  *)
(* at a time works on its list and counter.                                *)
THEOREM MutualExclusion == Spec => []MutexInv
  BY Inductive, PTL DEF IInv

(* bio_pending is the length of the list plus the number of rejected jobs, *)
(* and the list stays below the limit.                                     *)
THEOREM CounterMeaning == Spec => []CountInv
  BY Inductive, PTL DEF IInv

(* No accepted job is lost, taken twice or run twice.                      *)
THEOREM JobsAccounted == Spec => []JobsInv
  BY Inductive, PTL DEF IInv

(* Job structures: a worker uses none after it was freed, none is freed    *)
(* twice, and those of the rejected jobs are the only ones nobody frees.   *)
THEOREM HeapAccounted == Spec => []HeapInv
  BY Inductive, PTL DEF IInv

(* While a worker sleeps, every job in the list has a worker of its own on *)
(* its way to it, or main is about to signal: no wakeup is lost, although  *)
(* a signal may find nobody waiting and waits may end without one.         *)
THEOREM NoLostWakeup == Spec => []WakeupInv
  BY Inductive, PTL DEF IInv

-------------------------------------------------------------------------------
(* Every step of the thread pool is a step of the abstract job pool or     *)
(* leaves it alone.                                                        *)
LEMMA PoolInitStep == Init => AsPool!PoolInit
  BY DEF Init, AsPool!PoolInit, Executing

LEMMA PoolStep ==
  ASSUME TypeOK, HandInv, FreshInv, JobsInv, [Next]_vars
  PROVE  [AsPool!PoolNext]_(AsPool!poolVars)
<1> USE DEF AsPool!poolVars
<1>1. ASSUME UNCHANGED <<jobs, hand, executed>>,
             \A w \in Workers : wpc'[w] \in {"popped", "run"} <=> wpc[w] \in {"popped", "run"}
      PROVE  UNCHANGED AsPool!poolVars
  BY <1>1 DEF Executing
<1>2. CASE PushJob
  <2>1. mop \in Ops /\ round \in Jobs
    BY <1>2 DEF PushJob, TypeOK, Creating
  <2>2. round \notin accepted[mop]
    <3>1. round \in Nat /\ mop \in Nat
      BY <2>1, OpsNat DEF Jobs
    <3>2. QED
      BY <1>2, <2>1, <3>1 DEF FreshInv, Decided, PushJob
  <2>3. round \notin Queued(mop) \union Taken(mop) \union executed[mop]
    BY <2>1, <2>2 DEF JobsInv
  <2>4. jobs' = [jobs EXCEPT ![mop] = Append(@, round)] /\ UNCHANGED <<wpc, hand, executed>>
    BY <1>2 DEF PushJob
  <2>5. Executing' = Executing
    BY <2>4 DEF Executing
  <2>6. \A w \in Workers : TypeOf[w] = mop => Executing[w] # round
    BY <2>1, <2>3 DEF Executing, Taken, Pool, Jobs, NoJob
  <2>7. AsPool!Accept(mop, round)
    BY <2>3, <2>4, <2>5, <2>6 DEF AsPool!Accept, Queued
  <2>8. QED
    BY <2>1, <2>7 DEF AsPool!PoolNext
<1>3. ASSUME NEW w \in Workers, PopJob(w) PROVE AsPool!PoolNext
  <2> DEFINE o == TypeOf[w]
             j == Head(jobs[o])
  <2>1. /\ jobs[o] # <<>>
        /\ jobs' = [jobs EXCEPT ![o] = Tail(@)] /\ executed' = executed
        /\ hand' = [hand EXCEPT ![w] = j]
        /\ wpc' = [wpc EXCEPT ![w] = "popped"]
        /\ wpc[w] = "top"
    BY <1>3, PopFacts DEF PopJob
  <2>2. Executing[w] = NoJob
    BY <2>1 DEF Executing
  <2>3. Executing' = [Executing EXCEPT ![w] = j]
    BY <2>1 DEF Executing, TypeOK
  <2>4. AsPool!Take(w)
    BY <2>1, <2>2, <2>3 DEF AsPool!Take
  <2>5. QED
    BY <2>4 DEF AsPool!PoolNext
<1>4. ASSUME NEW w \in Workers, RunJob(w) PROVE AsPool!PoolNext
  <2> DEFINE o == TypeOf[w]
             j == hand[w]
  <2>1. /\ UNCHANGED <<jobs, hand>>
        /\ executed' = [executed EXCEPT ![o] = @ \union {j}]
        /\ wpc' = [wpc EXCEPT ![w] = "ran"]
        /\ wpc[w] = "run"
    BY <1>4 DEF RunJob, mainVars
  <2>2. Executing[w] = j /\ j # NoJob
    BY <2>1 DEF Executing, HandInv
  <2>3. Executing' = [Executing EXCEPT ![w] = NoJob]
    BY <2>1 DEF Executing, TypeOK
  <2>4. AsPool!Finish(w)
    BY <2>1, <2>2, <2>3 DEF AsPool!Finish
  <2>5. QED
    BY <2>4 DEF AsPool!PoolNext
<1>5. CASE AllocateJob \/ LockToCreate \/ CountJob \/ RejectJob \/ UnlockCreated
  BY <1>1, <1>5 DEF AllocateJob, LockToCreate, CountJob, RejectJob, UnlockCreated
<1>6. CASE SignalWorker
  BY <1>1, <1>6 DEF SignalWorker, Waiters, TypeOK, Pool
<1>7. CASE AskPending
  BY <1>1, <1>7 DEF AskPending, LockToAsk, ReadPending, UseAnswer
<1>8. ASSUME NEW w \in Workers,
             \/ SpawnWorker(w) \/ LockToWork(w) \/ WakeSpuriously(w)
             \/ WaitForJob(w) \/ UnlockToRun(w)
      PROVE UNCHANGED AsPool!poolVars
  BY <1>1, <1>8 DEF SpawnWorker, LockToWork, WakeSpuriously, WaitForJob, UnlockToRun, TypeOK
<1>9. ASSUME NEW w \in Workers, FreeJob(w) PROVE UNCHANGED AsPool!poolVars
  <2>1. UNCHANGED <<jobs, executed>> /\ wpc[w] = "ran"
        /\ hand' = [hand EXCEPT ![w] = NoJob] /\ wpc' = [wpc EXCEPT ![w] = "lock"]
    BY <1>9 DEF FreeJob, mainVars
  <2>2. Executing' = Executing
    BY <2>1 DEF Executing, TypeOK
  <2>3. QED
    BY <2>1, <2>2
<1>10. CASE UNCHANGED vars
  BY <1>1, <1>10 DEF vars, mainVars
<1>11. QED
  BY <1>2, <1>3, <1>4, <1>5, <1>6, <1>7, <1>8, <1>9, <1>10 DEF Next, CreateJob, WorkerRuns

(* The thread pool implements the safety part of the abstract job pool:    *)
(* jobs are taken oldest first, each once, by the threads of their type,   *)
(* one at a time by each thread.                                           *)
THEOREM PoolRefinement == Spec => AsPool!PoolSafety
<1>1. IInv /\ [Next]_vars => [AsPool!PoolNext]_(AsPool!poolVars)
  BY PoolStep DEF IInv
<1>2. QED
  BY <1>1, PoolInitStep, Inductive, PTL DEF Spec, AsPool!PoolSafety

-------------------------------------------------------------------------------
(* The strings. *)

\* What a buffer may hold: bytes, and what memory held before.
Cell == 0 .. 256

(* h keeps the text t, with or without a terminator behind it.              *)
Keeping(h, t) ==
  /\ h \in [len : Nat, free : Nat, buf : Seq(Cell)]
  /\ h.len = Len(t)
  /\ Len(h.buf) = h.len + h.free + 1
  /\ \A i \in 1 .. Len(t) : h.buf[i] = t[i]
Kept(h, t) == Keeping(h, t) /\ h.buf[Len(t) + 1] = NUL

-------------------------------------------------------------------------------
(* Numbers, sequences and buffers.                                          *)

LEMMA Larger ==
  ASSUME NEW a \in Int, NEW b \in Int
  PROVE  /\ Max({a, b}) \in Int /\ Max({a, b}) >= a /\ Max({a, b}) >= b
         /\ Max({a, b}) = (IF a >= b THEN a ELSE b)
BY DEF Max

LEMMA Smaller ==
  ASSUME NEW a \in Int, NEW b \in Int
  PROVE  Min({a, b}) = (IF a <= b THEN a ELSE b)
BY DEF Min

LEMMA LeastIs ==
  ASSUME NEW U, U \subseteq Int, NEW m \in U, \A j \in U : m <= j
  PROVE  Min(U) = m
<1> DEFINE x == Min(U)
<1>1. x \in U /\ \A j \in U : x <= j
  BY DEF Min
<1> HIDE DEF x
<1>2. x \in Int /\ m \in Int /\ x <= m /\ m <= x
  BY <1>1
<1>3. x = m
  BY <1>2
<1>4. QED
  BY <1>3 DEF x

LEMMA GreatestIs ==
  ASSUME NEW U, U \subseteq Int, NEW m \in U, \A j \in U : j <= m
  PROVE  Max(U) = m
<1> DEFINE x == Max(U)
<1>1. x \in U /\ \A j \in U : x >= j
  BY DEF Max
<1> HIDE DEF x
<1>2. x \in Int /\ m \in Int /\ x <= m /\ m <= x
  BY <1>1
<1>3. x = m
  BY <1>2
<1>4. QED
  BY <1>3 DEF x

LEMMA ByteCells ==
  /\ Byte \subseteq Cell /\ NUL \in Byte /\ NUL \in Cell /\ Junk \in Cell /\ Junk \notin Byte
  /\ \A t \in Seq(Byte) : t \in Seq(Cell)
BY DEF Byte, Cell, NUL, Junk

LEMMA SequenceIs ==
  ASSUME NEW S, NEW s \in Seq(S)
  PROVE  Len(s) \in Nat /\ DOMAIN s = 1 .. Len(s) /\ \A i \in 1 .. Len(s) : s[i] \in S
OBVIOUS

LEMMA FunctionIsSequence ==
  ASSUME NEW S, NEW n \in Nat, NEW f \in [1 .. n -> S]
  PROVE  f \in Seq(S) /\ Len(f) = n
OBVIOUS

LEMMA EqualSequences ==
  ASSUME NEW S, NEW s \in Seq(S), NEW t \in Seq(S), NEW n, Len(s) = n, Len(t) = n,
         \A i \in 1 .. n : s[i] = t[i]
  PROVE  s = t
OBVIOUS

LEMMA SubSeqAfter ==
  ASSUME NEW S, NEW s \in Seq(S), NEW m \in Nat, NEW n \in 0 .. Len(s), m <= n
  PROVE  /\ SubSeq(s, m + 1, n) \in Seq(S)
         /\ Len(SubSeq(s, m + 1, n)) = n - m
         /\ \A i \in 1 .. (n - m) : SubSeq(s, m + 1, n)[i] = s[m + i]
<1>1. /\ m + 1 \in Nat /\ n \in Nat /\ \A i \in (m + 1) .. n : i \in 1 .. Len(s)
      /\ m + 1 \in Int /\ n \in Int
  OBVIOUS
<1>2. \A i \in (m + 1) .. n : s[i] \in S
  BY <1>1
<1>3. /\ SubSeq(s, m + 1, n) \in Seq(S)
      /\ Len(SubSeq(s, m + 1, n)) = IF m + 1 <= n THEN n - (m + 1) + 1 ELSE 0
      /\ \A i \in 1 .. n - (m + 1) + 1 : SubSeq(s, m + 1, n)[i] = s[(m + 1) + i - 1]
  BY <1>1, <1>2, SubSeqProperties
<1>4. QED
  BY <1>1, <1>3

LEMMA WrittenIs ==
  ASSUME NEW b \in Seq(Cell), NEW offset \in Nat, NEW text \in Seq(Cell),
         offset + Len(text) <= Len(b)
  PROVE  /\ Written(b, offset, text) \in Seq(Cell)
         /\ Len(Written(b, offset, text)) = Len(b)
         /\ \A i \in 1 .. Len(text) : Written(b, offset, text)[offset + i] = text[i]
         /\ \A i \in 1 .. Len(b) : i <= offset \/ i > offset + Len(text)
                                     => Written(b, offset, text)[i] = b[i]
<1>1. Len(b) \in Nat /\ Len(text) \in Nat /\ DOMAIN text = 1 .. Len(text)
  OBVIOUS
<1>2. Max({Len(b), offset + Len(text)}) = Len(b)
  <2>1. Len(b) \in Int /\ offset + Len(text) \in Int /\ Len(b) >= offset + Len(text)
    BY <1>1
  <2>2. QED
    BY <2>1, Larger
<1>3. ASSUME NEW i \in 1 .. Len(b)
      PROVE  i - offset \in DOMAIN text <=> i > offset /\ i <= offset + Len(text)
  BY <1>1
<1>4. Written(b, offset, text) =
        [i \in 1 .. Len(b) |-> IF i - offset \in DOMAIN text THEN text[i - offset] ELSE b[i]]
  BY <1>2 DEF Written
<1>5. ASSUME NEW i \in 1 .. Len(b)
      PROVE  (IF i - offset \in DOMAIN text THEN text[i - offset] ELSE b[i]) \in Cell
  BY <1>1
<1>6. Written(b, offset, text) \in [1 .. Len(b) -> Cell]
  BY <1>4, <1>5
<1>7. ASSUME NEW i \in 1 .. Len(text) PROVE Written(b, offset, text)[offset + i] = text[i]
  <2>1. offset + i \in 1 .. Len(b) /\ (offset + i) - offset = i /\ i \in DOMAIN text
    BY <1>1
  <2>2. QED
    BY <1>4, <2>1
<1>8. ASSUME NEW i \in 1 .. Len(b), i <= offset \/ i > offset + Len(text)
      PROVE  Written(b, offset, text)[i] = b[i]
  <2>1. i - offset \notin DOMAIN text
    BY <1>1, <1>3, <1>8
  <2>2. QED
    BY <1>4, <2>1
<1> DEFINE w == Written(b, offset, text)
<1>9. /\ w \in [1 .. Len(b) -> Cell] /\ Len(b) \in Nat
      /\ \A i \in 1 .. Len(text) : w[offset + i] = text[i]
      /\ \A i \in 1 .. Len(b) : i <= offset \/ i > offset + Len(text) => w[i] = b[i]
  BY <1>1, <1>6, <1>7, <1>8
<1> HIDE DEF w
<1>10. w \in Seq(Cell) /\ Len(w) = Len(b)
  BY ONLY <1>9, FunctionIsSequence
<1>11. QED
  BY <1>9, <1>10 DEF w

LEMMA TerminatorWritten ==
  ASSUME NEW b \in Seq(Cell), NEW n \in Nat, n + 1 <= Len(b)
  PROVE  /\ Written(b, n, <<NUL>>) \in Seq(Cell)
         /\ Len(Written(b, n, <<NUL>>)) = Len(b)
         /\ Written(b, n, <<NUL>>)[n + 1] = NUL
         /\ \A i \in 1 .. n : Written(b, n, <<NUL>>)[i] = b[i]
<1>1. <<NUL>> \in Seq(Cell) /\ Len(<<NUL>>) = 1 /\ 1 \in 1 .. Len(<<NUL>>) /\ <<NUL>>[1] = NUL
  BY ByteCells
<1>2. \A i \in 1 .. n : i \in 1 .. Len(b) /\ i <= n
  OBVIOUS
<1> DEFINE t == <<NUL>>
<1> HIDE DEF t
<1>3. t \in Seq(Cell) /\ n + Len(t) <= Len(b)
  BY <1>1 DEF t
<1>4. /\ Written(b, n, t) \in Seq(Cell)
      /\ Len(Written(b, n, t)) = Len(b)
      /\ \A i \in 1 .. Len(t) : Written(b, n, t)[n + i] = t[i]
      /\ \A i \in 1 .. Len(b) : i <= n \/ i > n + Len(t) => Written(b, n, t)[i] = b[i]
  BY <1>3, WrittenIs
<1>5. QED
  BY <1>1, <1>2, <1>4 DEF t

LEMMA ZreallocIs ==
  ASSUME NEW b \in Seq(Cell), NEW n \in Nat
  PROVE  /\ zrealloc(b, n) \in Seq(Cell) /\ Len(zrealloc(b, n)) = n
         /\ \A i \in 1 .. n : i <= Len(b) => zrealloc(b, n)[i] = b[i]
<1>1. Len(b) \in Nat /\ DOMAIN b = 1 .. Len(b)
  OBVIOUS
<1>2. \A i \in 1 .. n : (IF i \in DOMAIN b THEN b[i] ELSE Junk) \in Cell
  BY <1>1, ByteCells
<1>3. zrealloc(b, n) \in [1 .. n -> Cell]
  BY <1>2 DEF zrealloc
<1>4. ASSUME NEW i \in 1 .. n, i <= Len(b) PROVE zrealloc(b, n)[i] = b[i]
  BY <1>1, <1>4 DEF zrealloc
<1>5. QED
  BY <1>3, <1>4

(* A C string ends at the first NUL.                                        *)
FirstNul(b, k) ==
  /\ k \in 1 .. Len(b) + 1
  /\ k = Len(b) + 1 \/ b[k] = NUL
  /\ \A j \in 1 .. k - 1 : b[j] # NUL

LEMMA FirstNulExists ==
  ASSUME NEW S, NEW b \in Seq(S)
  PROVE  \E k : FirstNul(b, k)
<1> DEFINE U == {j \in 1 .. Len(b) + 1 : j = Len(b) + 1 \/ b[j] = NUL}
<1>0. Len(b) \in Nat
  OBVIOUS
<1>1. U \subseteq Nat /\ U # {}
  BY <1>0
<1>2. PICK m \in U : \A j \in U : m <= j
  BY <1>1, Lowest
<1>3. ASSUME NEW j \in 1 .. m - 1 PROVE b[j] # NUL
  <2>1. j \in 1 .. Len(b) + 1 /\ ~ (m <= j)
    BY <1>0
  <2>2. QED
    BY <1>2, <2>1
<1>4. FirstNul(b, m)
  BY <1>0, <1>3 DEF FirstNul
<1>5. QED
  BY <1>4

LEMMA CStrAt ==
  ASSUME NEW S, NUL \in S, NEW b \in Seq(S), NEW k, FirstNul(b, k)
  PROVE  /\ CStr(b) = SubSeq(b, 1, k - 1)
         /\ CString(b) = SubSeq(b, 1, k - 1)
         /\ SubSeq(b, 1, k - 1) \in Seq(S)
         /\ Len(SubSeq(b, 1, k - 1)) = k - 1
         /\ \A i \in 1 .. k - 1 : SubSeq(b, 1, k - 1)[i] = b[i]
<1>0. /\ Len(b) \in Nat /\ k \in 1 .. Len(b) + 1 /\ (k = Len(b) + 1 \/ b[k] = NUL)
      /\ \A j \in 1 .. k - 1 : b[j] # NUL
      /\ DOMAIN b = 1 .. Len(b)
  BY DEF FirstNul
<1>1. /\ Append(b, NUL) \in Seq(S) /\ Len(Append(b, NUL)) = Len(b) + 1
      /\ Append(b, NUL)[Len(b) + 1] = NUL
      /\ \A i \in 1 .. Len(b) : Append(b, NUL)[i] = b[i]
  OBVIOUS
<1> DEFINE a == Append(b, NUL)
           U == {i \in 1 .. Len(a) : a[i] = NUL}
<1> HIDE DEF a
<1>2. U \subseteq Int /\ k \in U
  BY <1>0, <1>1 DEF a
<1>3. ASSUME NEW j \in U PROVE k <= j
  <2>1. j \in 1 .. Len(b) + 1 /\ a[j] = NUL
    BY <1>1 DEF a
  <2>2. CASE j < k
    <3>1. j \in 1 .. k - 1 /\ j \in 1 .. Len(b)
      BY <1>0, <2>1, <2>2
    <3>2. QED
      BY <1>0, <1>1, <2>1, <3>1 DEF a
  <2>3. QED
    BY <1>0, <2>1, <2>2
<1> HIDE DEF U
<1>4. Min(U) = k
  BY <1>2, <1>3, LeastIs
<1>5. SelectInSeq(a, LAMBDA c : c = NUL) = k
  BY <1>2, <1>4 DEF SelectInSeq, U
<1>6. CStr(b) = SubSeq(b, 1, k - 1)
  BY <1>5 DEF CStr, a
<1>7. CString(b) = SubSeq(b, 1, k - 1)
  <2> DEFINE Z == {i \in DOMAIN b : b[i] = NUL}
  <2>1. CASE k = Len(b) + 1
    <3>1. Z = {}
      BY <1>0, <2>1
    <3>2. CString(b) = b
      BY <3>1 DEF CString
    <3>3. SubSeq(b, 1, Len(b)) = b
      OBVIOUS
    <3>4. k - 1 = Len(b)
      BY <1>0, <2>1
    <3>5. QED
      BY <3>2, <3>3, <3>4
  <2>2. CASE k # Len(b) + 1
    <3>1. k \in Z /\ Z \subseteq Int
      BY <1>0, <2>2
    <3>2. ASSUME NEW j \in Z PROVE k <= j
      BY <1>0
    <3> HIDE DEF Z
    <3>3. Min(Z) = k /\ Z # {}
      BY <3>1, <3>2, LeastIs
    <3>4. QED
      BY <3>3 DEF CString, Z
  <2>3. QED
    BY <2>1, <2>2
<1>8. k - 1 \in 0 .. Len(b) /\ 0 \in Nat /\ 0 + 1 = 1 /\ k - 1 - 0 = k - 1 /\ k \in Int
  BY <1>0
<1>9. /\ SubSeq(b, 1, k - 1) \in Seq(S) /\ Len(SubSeq(b, 1, k - 1)) = k - 1
      /\ \A i \in 1 .. k - 1 : SubSeq(b, 1, k - 1)[i] = b[i]
  <2>1. /\ SubSeq(b, 0 + 1, k - 1) \in Seq(S) /\ Len(SubSeq(b, 0 + 1, k - 1)) = k - 1 - 0
        /\ \A i \in 1 .. (k - 1 - 0) : SubSeq(b, 0 + 1, k - 1)[i] = b[0 + i]
    BY <1>8, SubSeqAfter
  <2>2. QED
    BY <1>8, <2>1
<1>10. QED
  BY <1>6, <1>7, <1>9

LEMMA CStrIs ==
  ASSUME NEW t \in Seq(Byte)
  PROVE  CStr(t) \in Seq(Byte) /\ CStr(t) = CString(t)
<1>1. PICK k : FirstNul(t, k)
  BY FirstNulExists
<1>2. QED
  BY <1>1, CStrAt, ByteCells

-------------------------------------------------------------------------------
(* What each function makes of a text that is kept.                         *)

LEMMA KeptContent ==
  ASSUME NEW t \in Seq(Byte), NEW h, Keeping(h, t)
  PROVE  Content(h) = t
<1>0. /\ h.len = Len(t) /\ h.free \in Nat /\ h.buf \in Seq(Cell)
      /\ Len(h.buf) = h.len + h.free + 1
      /\ \A i \in 1 .. Len(t) : h.buf[i] = t[i]
      /\ Len(t) \in Nat
  BY DEF Keeping
<1> DEFINE b == h.buf
           n == Len(t)
<1>1. 0 \in Nat /\ n \in 0 .. Len(b) /\ 0 <= n /\ 0 + 1 = 1 /\ n - 0 = n
  BY <1>0
<1>2. b \in Seq(Cell) /\ \A i \in 1 .. n : b[i] = t[i]
  BY <1>0
<1>3. t \in Seq(Cell)
  BY ByteCells
<1> HIDE DEF b, n
<1>4. /\ SubSeq(b, 0 + 1, n) \in Seq(Cell) /\ Len(SubSeq(b, 0 + 1, n)) = n - 0
      /\ \A i \in 1 .. (n - 0) : SubSeq(b, 0 + 1, n)[i] = b[0 + i]
  BY <1>1, <1>2, SubSeqAfter
<1>5. \A i \in 1 .. n : i \in Int /\ 0 + i = i
  OBVIOUS
<1>6. SubSeq(b, 1, n) \in Seq(Cell) /\ Len(SubSeq(b, 1, n)) = n
      /\ \A i \in 1 .. n : SubSeq(b, 1, n)[i] = t[i]
  BY <1>1, <1>2, <1>4, <1>5
<1>7. SubSeq(b, 1, n) = t
  BY <1>3, <1>6, EqualSequences DEF n
<1>8. QED
  BY <1>0, <1>7 DEF Content, b, n

(* Headers by their fields.                                                 *)
Header(n, f, b) == [len |-> n, free |-> f, buf |-> b]
Headers == [len : Nat, free : Nat, buf : Seq(Cell)]

BothChanged(h, f, b, g) == g = [h EXCEPT !.free = f, !.buf = b]
Resized(h, n, f, g) == g = [h EXCEPT !.free = f, !.len = n]
Rewritten(h, b, g) == g = [h EXCEPT !.buf = b]

LEMMA HeaderFields ==
  ASSUME NEW g \in Headers
  PROVE  g = Header(g.len, g.free, g.buf)
BY DEF Headers, Header

LEMMA BothChangedIs ==
  ASSUME NEW h \in Headers, NEW f \in Nat, NEW b \in Seq(Cell), NEW g, BothChanged(h, f, b, g)
  PROVE  g = Header(h.len, f, b)
<1>1. g \in Headers /\ g.len = h.len /\ g.free = f /\ g.buf = b
  BY DEF BothChanged, Headers
<1>2. QED
  BY <1>1, HeaderFields

LEMMA ResizedIs ==
  ASSUME NEW h \in Headers, NEW n \in Nat, NEW f \in Nat, NEW g, Resized(h, n, f, g)
  PROVE  g = Header(n, f, h.buf)
<1>1. g \in Headers /\ g.len = n /\ g.free = f /\ g.buf = h.buf
  BY DEF Resized, Headers
<1>2. QED
  BY <1>1, HeaderFields

LEMMA RewrittenIs ==
  ASSUME NEW h \in Headers, NEW b \in Seq(Cell), NEW g, Rewritten(h, b, g)
  PROVE  g = Header(h.len, h.free, b)
<1>1. g \in Headers /\ g.len = h.len /\ g.free = h.free /\ g.buf = b
  BY DEF Rewritten, Headers
<1>2. QED
  BY <1>1, HeaderFields

LEMMA HeaderKeeps ==
  ASSUME NEW t \in Seq(Byte), NEW n, NEW f \in Nat, NEW b \in Seq(Cell),
         n = Len(t), Len(b) = n + f + 1, \A i \in 1 .. n : b[i] = t[i]
  PROVE  /\ Keeping(Header(n, f, b), t)
         /\ b[n + 1] = NUL => Kept(Header(n, f, b), t)
<1>1. Len(t) \in Nat
  OBVIOUS
<1>2. QED
  BY <1>1 DEF Keeping, Kept, Header, Headers

LEMMA KeepingIs ==
  ASSUME NEW t \in Seq(Byte), NEW h, Keeping(h, t)
  PROVE  /\ h \in Headers /\ h.len = Len(t) /\ h.len \in Nat /\ h.free \in Nat
         /\ h.buf \in Seq(Cell) /\ Len(h.buf) = Len(t) + h.free + 1
         /\ \A i \in 1 .. Len(t) : h.buf[i] = t[i]
         /\ Len(t) \in Nat
BY DEF Keeping, Headers

(* The room made is enough and nothing that was kept moves.                 *)
LEMMA RoomIs ==
  ASSUME NEW t \in Seq(Byte), NEW h, Keeping(h, t), NEW n \in Nat
  PROVE  /\ Keeping(sdsMakeRoomFor(h, n), t)
         /\ sdsMakeRoomFor(h, n).free >= n
         /\ Kept(h, t) => Kept(sdsMakeRoomFor(h, n), t)
<1>0. SDS_MAX_PREALLOC \in Nat
  BY SdsAssumption
<1>1. CASE h.free >= n
  BY <1>1 DEF sdsMakeRoomFor
<1>2. CASE ~ (h.free >= n)
  <2> DEFINE needed == h.len + n
             newlen == IF needed < SDS_MAX_PREALLOC THEN needed * 2 ELSE needed + SDS_MAX_PREALLOC
             b == zrealloc(h.buf, newlen + 1)
             f == newlen - h.len
  <2>0. /\ h \in Headers /\ h.len = Len(t) /\ h.len \in Nat /\ h.free \in Nat
        /\ h.buf \in Seq(Cell) /\ Len(h.buf) = Len(t) + h.free + 1
        /\ \A i \in 1 .. Len(t) : h.buf[i] = t[i]
        /\ Len(t) \in Nat
    BY KeepingIs
  <2>1. sdsMakeRoomFor(h, n) = [h EXCEPT !.free = f, !.buf = b]
    BY <1>2 DEF sdsMakeRoomFor
  <2>2. newlen \in Nat /\ newlen >= Len(t) + n /\ newlen >= Len(h.buf) - 1
    BY <1>0, <1>2, <2>0
  <2> HIDE DEF newlen
  <2>3. /\ b \in Seq(Cell) /\ Len(b) = newlen + 1
        /\ \A i \in 1 .. newlen + 1 : i <= Len(h.buf) => b[i] = h.buf[i]
    <3>1. newlen + 1 \in Nat /\ h.buf \in Seq(Cell)
      BY <2>0, <2>2
    <3>2. QED
      BY ONLY <3>1, ZreallocIs
  <2>4. f \in Nat /\ f >= n /\ Len(t) + f + 1 = newlen + 1
    BY <2>0, <2>2
  <2> HIDE DEF b, f
  <2>5. sdsMakeRoomFor(h, n) = Header(Len(t), f, b)
    <3>1. BothChanged(h, f, b, sdsMakeRoomFor(h, n))
      BY <2>1 DEF BothChanged
    <3>2. QED
      BY <2>0, <2>3, <2>4, <3>1, BothChangedIs
  <2>6. \A i \in 1 .. Len(t) + 1 : i \in 1 .. newlen + 1 /\ i <= Len(h.buf)
    BY <2>0, <2>2
  <2>7. \A i \in 1 .. Len(t) + 1 : b[i] = h.buf[i]
    BY <2>3, <2>6
  <2>8. \A i \in 1 .. Len(t) : b[i] = t[i]
    BY <2>0, <2>7
  <2>9. b[Len(t) + 1] = h.buf[Len(t) + 1]
    BY <2>0, <2>7
  <2>10. /\ Keeping(Header(Len(t), f, b), t)
         /\ b[Len(t) + 1] = NUL => Kept(Header(Len(t), f, b), t)
    BY <2>0, <2>3, <2>4, <2>8, HeaderKeeps
  <2>11. Header(Len(t), f, b).free = f
    BY DEF Header
  <2>12. QED
    BY <2>4, <2>5, <2>9, <2>10, <2>11 DEF Kept
<1>3. QED
  BY <1>1, <1>2

LEMMA NewlenIs ==
  ASSUME NEW t \in Seq(Byte)
  PROVE  Kept(sdsnewlen(t), t)
<1> DEFINE b == Append(t, NUL)
<1>1. t \in Seq(Cell) /\ NUL \in Cell /\ Len(t) \in Nat
  BY ByteCells
<1>2. b \in Seq(Cell) /\ Len(b) = Len(t) + 0 + 1 /\ b[Len(t) + 1] = NUL
      /\ \A i \in 1 .. Len(t) : b[i] = t[i]
  BY <1>1
<1>3. sdsnewlen(t) = Header(Len(t), 0, b)
  BY DEF sdsnewlen, Header
<1> HIDE DEF b
<1>4. 0 \in Nat
  OBVIOUS
<1>5. QED
  BY <1>2, <1>3, <1>4, HeaderKeeps

LEMMA ClearIs ==
  ASSUME NEW t \in Seq(Byte), NEW h, Keeping(h, t)
  PROVE  Kept(sdsclear(h), <<>>)
<1> DEFINE b == Written(h.buf, 0, <<NUL>>)
           f == h.free + h.len
<1>0. /\ h \in Headers /\ h.len = Len(t) /\ h.len \in Nat /\ h.free \in Nat
      /\ h.buf \in Seq(Cell) /\ Len(h.buf) = Len(t) + h.free + 1
  BY KeepingIs
<1>1. 0 \in Nat /\ 0 + 1 <= Len(h.buf)
  BY <1>0
<1>2. b \in Seq(Cell) /\ Len(b) = Len(h.buf) /\ b[0 + 1] = NUL
  BY <1>0, <1>1, TerminatorWritten
<1>3. b[0 + 1] = NUL
  BY <1>2
<1>4. <<>> \in Seq(Byte) /\ Len(<<>>) = 0 /\ f \in Nat /\ Len(b) = 0 + f + 1
      /\ \A i \in 1 .. 0 : b[i] = <<>>[i]
  <2> HIDE DEF b
  <2>1. <<>> \in Seq(Byte) /\ Len(<<>>) = 0
    OBVIOUS
  <2>2. f \in Nat /\ Len(b) = 0 + f + 1
    <3> DEFINE x == h.free
               y == h.len
               z == Len(b)
    <3>1. x \in Nat /\ y \in Nat /\ z = y + x + 1
      BY <1>0, <1>2
    <3>2. f = x + y
      OBVIOUS
    <3> HIDE DEF x, y, z, f
    <3>3. f \in Nat /\ z = 0 + f + 1
      BY ONLY <3>1, <3>2
    <3>4. QED
      BY ONLY <3>3 DEF z
  <2>3. \A i \in 1 .. 0 : b[i] = <<>>[i]
    OBVIOUS
  <2>4. QED
    BY ONLY <2>1, <2>2, <2>3
<1>5. sdsclear(h) = Header(0, f, b)
  BY DEF sdsclear, Header
<1> HIDE DEF b, f
<1>6. QED
  BY <1>2, <1>3, <1>4, <1>5, HeaderKeeps

LEMMA RemoveFreeSpaceIs ==
  ASSUME NEW t \in Seq(Byte), NEW h, Kept(h, t)
  PROVE  Kept(sdsRemoveFreeSpace(h), t)
<1> DEFINE b == zrealloc(h.buf, h.len + 1)
<1>0. /\ h \in Headers /\ h.len = Len(t) /\ h.len \in Nat /\ h.free \in Nat
      /\ h.buf \in Seq(Cell) /\ Len(h.buf) = Len(t) + h.free + 1
      /\ \A i \in 1 .. Len(t) : h.buf[i] = t[i]
      /\ h.buf[Len(t) + 1] = NUL
  BY KeepingIs DEF Kept
<1>1. /\ b \in Seq(Cell) /\ Len(b) = Len(t) + 1
      /\ \A i \in 1 .. Len(t) + 1 : i <= Len(h.buf) => b[i] = h.buf[i]
  <2>1. h.len + 1 \in Nat /\ h.buf \in Seq(Cell)
    BY <1>0
  <2>2. /\ b \in Seq(Cell) /\ Len(b) = h.len + 1
        /\ \A i \in 1 .. h.len + 1 : i <= Len(h.buf) => b[i] = h.buf[i]
    BY ONLY <2>1, ZreallocIs
  <2>3. QED
    BY <1>0, <2>2
<1>2. sdsRemoveFreeSpace(h) = [h EXCEPT !.free = 0, !.buf = b]
  BY DEF sdsRemoveFreeSpace
<1> HIDE DEF b
<1>3. sdsRemoveFreeSpace(h) = Header(Len(t), 0, b)
  <2>1. BothChanged(h, 0, b, sdsRemoveFreeSpace(h)) /\ 0 \in Nat
    BY <1>2 DEF BothChanged
  <2>2. QED
    BY <1>0, <1>1, <2>1, BothChangedIs
<1>4. Len(t) \in Nat /\ Len(b) = Len(t) + 0 + 1 /\ 0 \in Nat /\ Len(t) + 1 \in 1 .. Len(t) + 1
      /\ \A i \in 1 .. Len(t) + 1 : i <= Len(h.buf)
  BY <1>0, <1>1
<1>5. b[Len(t) + 1] = NUL /\ \A i \in 1 .. Len(t) : b[i] = t[i]
  <2>1. \A i \in 1 .. Len(t) + 1 : b[i] = h.buf[i]
    BY <1>1, <1>4
  <2>2. QED
    BY <1>0, <2>1
<1>6. QED
  BY <1>1, <1>3, <1>4, <1>5, HeaderKeeps

(* A text written behind a place of a buffer, and a terminator behind it.   *)
EndedAfter(b, n, t) == Written(Written(b, n, t), n + Len(t), <<NUL>>)

LEMMA EndedAfterIs ==
  ASSUME NEW b \in Seq(Cell), NEW n \in Nat, NEW t \in Seq(Byte), n + Len(t) + 1 <= Len(b)
  PROVE  /\ EndedAfter(b, n, t) \in Seq(Cell) /\ Len(EndedAfter(b, n, t)) = Len(b)
         /\ \A i \in 1 .. n : EndedAfter(b, n, t)[i] = b[i]
         /\ \A i \in 1 .. Len(t) : EndedAfter(b, n, t)[n + i] = t[i]
         /\ EndedAfter(b, n, t)[n + Len(t) + 1] = NUL
<1> DEFINE w == Written(b, n, t)
           m == n + Len(t)
           e == Written(w, m, <<NUL>>)
<1>1. t \in Seq(Cell) /\ Len(t) \in Nat /\ Len(b) \in Nat /\ n + Len(t) <= Len(b)
  BY ByteCells
<1>2. /\ w \in Seq(Cell) /\ Len(w) = Len(b)
      /\ \A i \in 1 .. Len(t) : w[n + i] = t[i]
      /\ \A i \in 1 .. Len(b) : i <= n \/ i > n + Len(t) => w[i] = b[i]
  BY <1>1, WrittenIs
<1>3. m \in Nat /\ m + 1 <= Len(b) /\ m = n + Len(t)
  BY <1>1
<1> HIDE DEF w, m
<1>4. /\ e \in Seq(Cell) /\ Len(e) = Len(b) /\ e[m + 1] = NUL
      /\ \A i \in 1 .. m : e[i] = w[i]
  BY <1>2, <1>3, TerminatorWritten
<1> HIDE DEF e
<1>5. ASSUME NEW i \in 1 .. n PROVE w[i] = b[i] /\ e[i] = b[i]
  <2>1. i \in 1 .. Len(b) /\ i <= n /\ i \in 1 .. m
    BY <1>1, <1>3
  <2>2. QED
    BY <1>2, <1>4, <2>1
<1>6. ASSUME NEW i \in 1 .. Len(t) PROVE w[n + i] = t[i] /\ e[n + i] = t[i]
  <2>1. n + i \in 1 .. m
    BY <1>1, <1>3
  <2>2. QED
    BY <1>2, <1>4, <2>1
<1>7. EndedAfter(b, n, t) = e
  BY DEF EndedAfter, w, e, m
<1>8. QED
  BY <1>3, <1>4, <1>5, <1>6, <1>7

LEMMA JoinedIs ==
  ASSUME NEW s \in Seq(Byte), NEW t \in Seq(Byte)
  PROVE  /\ s \o t \in Seq(Byte) /\ Len(s \o t) = Len(s) + Len(t)
         /\ \A i \in 1 .. Len(s) : (s \o t)[i] = s[i]
         /\ \A i \in 1 .. Len(t) : (s \o t)[Len(s) + i] = t[i]
         /\ \A i \in 1 .. Len(s \o t) :
              i \in 1 .. Len(s) \/ (i - Len(s) \in 1 .. Len(t) /\ i = Len(s) + (i - Len(s)))
<1>1. /\ s \o t \in Seq(Byte) /\ Len(s \o t) = Len(s) + Len(t)
      /\ \A i \in 1 .. Len(s) : (s \o t)[i] = s[i]
      /\ \A i \in 1 .. Len(t) : (s \o t)[Len(s) + i] = t[i]
  BY ConcatFacts
<1>2. Len(s) \in Nat /\ Len(t) \in Nat
  OBVIOUS
<1>3. QED
  BY <1>1, <1>2

LEMMA CatlenIs ==
  ASSUME NEW t \in Seq(Byte), NEW h, Keeping(h, t), NEW a \in Seq(Byte)
  PROVE  Kept(sdscatlen(h, a), t \o a)
<1> DEFINE r == sdsMakeRoomFor(h, Len(a))
           n == Len(t)
           e == EndedAfter(r.buf, n, a)
           f == r.free - Len(a)
           u == t \o a
<1>0. Len(a) \in Nat /\ h.len = Len(t) /\ n \in Nat
  BY KeepingIs
<1>1. Keeping(r, t) /\ r.free >= Len(a)
  BY <1>0, RoomIs
<1> HIDE DEF r
<1>2. /\ r.free \in Nat /\ r.buf \in Seq(Cell) /\ Len(r.buf) = n + r.free + 1
      /\ \A i \in 1 .. n : r.buf[i] = t[i]
  BY <1>1, KeepingIs
<1>3. n + Len(a) + 1 <= Len(r.buf) /\ f \in Nat
  BY <1>0, <1>1, <1>2
<1>4. /\ e \in Seq(Cell) /\ Len(e) = Len(r.buf)
      /\ \A i \in 1 .. n : e[i] = r.buf[i]
      /\ \A i \in 1 .. Len(a) : e[n + i] = a[i]
      /\ e[n + Len(a) + 1] = NUL
  <2> DEFINE c == r.buf
  <2>1. c \in Seq(Cell) /\ n \in Nat /\ a \in Seq(Byte) /\ n + Len(a) + 1 <= Len(c)
    BY <1>0, <1>2, <1>3
  <2> HIDE DEF c, n
  <2>2. /\ EndedAfter(c, n, a) \in Seq(Cell) /\ Len(EndedAfter(c, n, a)) = Len(c)
        /\ \A i \in 1 .. n : EndedAfter(c, n, a)[i] = c[i]
        /\ \A i \in 1 .. Len(a) : EndedAfter(c, n, a)[n + i] = a[i]
        /\ EndedAfter(c, n, a)[n + Len(a) + 1] = NUL
    BY ONLY <2>1, EndedAfterIs
  <2>3. QED
    BY ONLY <2>2 DEF c
<1>5. sdscatlen(h, a) = Header(n + Len(a), f, e)
  BY <1>0 DEF sdscatlen, Header, r, EndedAfter
<1> HIDE DEF n, e, f, u
<1>6. /\ u \in Seq(Byte) /\ Len(u) = n + Len(a)
      /\ \A i \in 1 .. n : u[i] = t[i]
      /\ \A i \in 1 .. Len(a) : u[n + i] = a[i]
      /\ \A i \in 1 .. Len(u) : i \in 1 .. n \/ (i - n \in 1 .. Len(a) /\ i = n + (i - n))
  BY JoinedIs DEF u, n
<1>7. ASSUME NEW i \in 1 .. Len(u) PROVE e[i] = u[i]
  <2>1. CASE i \in 1 .. n
    BY <1>2, <1>4, <1>6, <2>1
  <2>2. CASE i \notin 1 .. n
    <3>1. i - n \in 1 .. Len(a) /\ i = n + (i - n)
      BY <1>6, <2>2
    <3>2. e[n + (i - n)] = a[i - n] /\ u[n + (i - n)] = a[i - n]
      BY <1>4, <1>6, <3>1
    <3>3. QED
      BY <3>1, <3>2
  <2>3. QED
    BY <2>1, <2>2
<1>8. Len(e) = Len(u) + f + 1
  BY <1>0, <1>2, <1>4, <1>6 DEF f
<1>9. QED
  BY <1>3, <1>4, <1>5, <1>6, <1>7, <1>8, HeaderKeeps DEF u

LEMMA CatIs ==
  ASSUME NEW t \in Seq(Byte), NEW h, Keeping(h, t), NEW a \in Seq(Byte)
  PROVE  Kept(sdscat(h, a), t \o CString(a))
<1>1. CStr(a) \in Seq(Byte) /\ CStr(a) = CString(a)
  BY CStrIs
<1>2. QED
  BY <1>1, CatlenIs DEF sdscat

LEMMA CpylenIs ==
  ASSUME NEW t \in Seq(Byte), NEW h, Keeping(h, t), NEW a \in Seq(Byte)
  PROVE  Kept(sdscpylen(h, a), a)
<1> DEFINE r == IF h.free + h.len < Len(a) THEN sdsMakeRoomFor(h, Len(a) - h.len) ELSE h
           e == EndedAfter(r.buf, 0, a)
           f == (r.free + r.len) - Len(a)
<1>0. Len(a) \in Nat /\ h.len \in Nat /\ h.free \in Nat
  BY KeepingIs
<1>1. Keeping(r, t) /\ r.free + r.len >= Len(a)
  <2>1. CASE h.free + h.len < Len(a)
    <3>1. Len(a) - h.len \in Nat
      BY <1>0, <2>1
    <3>2. Keeping(r, t) /\ r.free >= Len(a) - h.len
      BY <2>1, <3>1, RoomIs
    <3>3. r.free \in Nat /\ r.len = h.len
      BY <3>2, KeepingIs DEF Keeping
    <3> HIDE DEF r
    <3>4. QED
      BY <1>0, <3>2, <3>3
  <2>2. CASE ~ (h.free + h.len < Len(a))
    BY <1>0, <2>2
  <2>3. QED
    BY <2>1, <2>2
<1> HIDE DEF r
<1>2. /\ r.free \in Nat /\ r.buf \in Seq(Cell) /\ Len(r.buf) = Len(t) + r.free + 1
      /\ r.len = Len(t) /\ Len(t) \in Nat
  BY <1>1, KeepingIs
<1>3. 0 \in Nat /\ 0 + Len(a) + 1 <= Len(r.buf) /\ f \in Nat
  BY <1>0, <1>1, <1>2
<1>4. /\ e \in Seq(Cell) /\ Len(e) = Len(r.buf)
      /\ \A i \in 1 .. Len(a) : e[0 + i] = a[i]
      /\ e[0 + Len(a) + 1] = NUL
  BY <1>2, <1>3, EndedAfterIs
<1>5. sdscpylen(h, a) = Header(Len(a), f, e)
  <2>1. 0 + Len(a) = Len(a)
    BY <1>0
  <2>2. QED
    BY <2>1 DEF sdscpylen, Header, r, EndedAfter
<1> HIDE DEF e
<1>6. \A i \in 1 .. Len(a) : e[i] = a[i]
  <2>1. \A i \in 1 .. Len(a) : 0 + i = i
    OBVIOUS
  <2>2. QED
    BY <1>4, <2>1
<1>7. Len(e) = Len(a) + f + 1 /\ e[Len(a) + 1] = NUL
  BY <1>0, <1>2, <1>4
<1> HIDE DEF f
<1>8. QED
  BY <1>3, <1>4, <1>5, <1>6, <1>7, HeaderKeeps

LEMMA ZerosAre ==
  ASSUME NEW n \in Int
  PROVE  /\ Zeros(n) \in Seq(Byte) /\ (n \in Nat => Len(Zeros(n)) = n)
         /\ (n < 0 => Zeros(n) = <<>>)
         /\ \A i \in 1 .. n : Zeros(n)[i] = NUL
<1>1. CASE n \in Nat
  <2>1. Zeros(n) \in [1 .. n -> Byte]
    BY ByteCells DEF Zeros
  <2>2. QED
    BY <1>1, <2>1 DEF Zeros
<1>2. CASE n \notin Nat
  <2>1. n < 0 /\ 1 .. n = {}
    BY <1>2
  <2>2. Zeros(n) = [i \in {} |-> NUL]
    BY <2>1 DEF Zeros
  <2>3. <<>> = [i \in {} |-> NUL]
    OBVIOUS
  <2>4. QED
    BY <1>2, <2>1, <2>2, <2>3
<1>3. QED
  BY <1>1, <1>2

LEMMA GrowzeroIs ==
  ASSUME NEW t \in Seq(Byte), NEW h, Kept(h, t), NEW n \in Int
  PROVE  Kept(sdsgrowzero(h, n), t \o Zeros(n - Len(t)))
<1>0. Keeping(h, t) /\ Len(t) \in Nat /\ h.len = Len(t)
  BY KeepingIs DEF Kept
<1>1. CASE n <= h.len
  <2>1. Zeros(n - Len(t)) = <<>>
    <3>1. n - Len(t) \in Int /\ (n - Len(t) < 0 \/ n - Len(t) = 0)
      BY <1>0, <1>1
    <3>2. Zeros(n - Len(t)) \in Seq(Byte) /\ (n - Len(t) = 0 => Len(Zeros(n - Len(t))) = 0)
      BY <3>1, ZerosAre
    <3>3. QED
      BY <3>1, <3>2, ZerosAre
  <2>2. t \o <<>> = t
    OBVIOUS
  <2>3. QED
    BY <1>1, <2>1, <2>2 DEF sdsgrowzero
<1>2. CASE ~ (n <= h.len)
  <2> DEFINE k == n - Len(t)
             r == sdsMakeRoomFor(h, k)
             z == Zeros(k + 1)
             e == Written(r.buf, Len(t), z)
             f == (r.len + r.free) - n
             u == t \o Zeros(k)
  <2>1. k \in Nat /\ n = Len(t) + k /\ n \in Nat
    BY <1>0, <1>2
  <2>2. Keeping(r, t) /\ r.free >= k
    BY <1>0, <2>1, RoomIs
  <2>3. /\ z \in Seq(Byte) /\ Len(z) = k + 1 /\ \A i \in 1 .. k + 1 : z[i] = NUL
        /\ Zeros(k) \in Seq(Byte) /\ Len(Zeros(k)) = k /\ \A i \in 1 .. k : Zeros(k)[i] = NUL
    <3>1. k \in Int /\ k + 1 \in Int /\ k + 1 \in Nat
      BY <2>1
    <3>2. QED
      BY <2>1, <3>1, ZerosAre
  <2>4. sdsgrowzero(h, n) = Header(n, f, e)
    <3>1. n - h.len = k
      BY <1>0
    <3> HIDE DEF k
    <3>2. QED
      BY <1>0, <1>2, <3>1 DEF sdsgrowzero, Header
  <2> HIDE DEF k, r, z
  <2>5. /\ r.free \in Nat /\ r.buf \in Seq(Cell) /\ Len(r.buf) = Len(t) + r.free + 1
        /\ r.len = Len(t) /\ \A i \in 1 .. Len(t) : r.buf[i] = t[i]
    BY <2>2, KeepingIs
  <2>6. z \in Seq(Cell) /\ Len(t) + Len(z) <= Len(r.buf) /\ f \in Nat
    BY <1>0, <2>1, <2>2, <2>3, <2>5, ByteCells
  <2>7. /\ e \in Seq(Cell) /\ Len(e) = Len(r.buf)
        /\ \A i \in 1 .. Len(z) : e[Len(t) + i] = z[i]
        /\ \A i \in 1 .. Len(r.buf) : i <= Len(t) \/ i > Len(t) + Len(z) => e[i] = r.buf[i]
    <3> DEFINE c == r.buf
               m == Len(t)
    <3>1. c \in Seq(Cell) /\ m \in Nat /\ z \in Seq(Cell) /\ m + Len(z) <= Len(c)
      BY <1>0, <2>5, <2>6
    <3> HIDE DEF c, m
    <3>2. /\ Written(c, m, z) \in Seq(Cell) /\ Len(Written(c, m, z)) = Len(c)
          /\ \A i \in 1 .. Len(z) : Written(c, m, z)[m + i] = z[i]
          /\ \A i \in 1 .. Len(c) : i <= m \/ i > m + Len(z) => Written(c, m, z)[i] = c[i]
      BY ONLY <3>1, WrittenIs
    <3>3. QED
      BY ONLY <3>2 DEF c, m
  <2>8. /\ u \in Seq(Byte) /\ Len(u) = Len(t) + k
        /\ \A i \in 1 .. Len(t) : u[i] = t[i]
        /\ \A i \in 1 .. k : u[Len(t) + i] = NUL
        /\ \A i \in 1 .. Len(u) :
             i \in 1 .. Len(t) \/ (i - Len(t) \in 1 .. k /\ i = Len(t) + (i - Len(t)))
    <3> DEFINE y == Zeros(k)
    <3>1. y \in Seq(Byte) /\ Len(y) = k /\ \A i \in 1 .. k : y[i] = NUL
      BY <2>3
    <3> HIDE DEF y
    <3>2. /\ t \o y \in Seq(Byte) /\ Len(t \o y) = Len(t) + Len(y)
          /\ \A i \in 1 .. Len(t) : (t \o y)[i] = t[i]
          /\ \A i \in 1 .. Len(y) : (t \o y)[Len(t) + i] = y[i]
          /\ \A i \in 1 .. Len(t \o y) :
               i \in 1 .. Len(t) \/ (i - Len(t) \in 1 .. Len(y) /\ i = Len(t) + (i - Len(t)))
      BY <3>1, JoinedIs
    <3>3. u = t \o y
      BY DEF y
    <3> HIDE DEF u
    <3>4. QED
      BY <3>1, <3>2, <3>3
  <2> HIDE DEF e, f, u
  <2>9. ASSUME NEW i \in 1 .. Len(u) PROVE e[i] = u[i]
    <3>1. CASE i \in 1 .. Len(t)
      <4>1. i \in 1 .. Len(r.buf) /\ i <= Len(t)
        BY <1>0, <2>5, <3>1
      <4>2. QED
        BY <2>5, <2>7, <2>8, <3>1, <4>1
    <3>2. CASE i \notin 1 .. Len(t)
      <4>1. i - Len(t) \in 1 .. k /\ i = Len(t) + (i - Len(t)) /\ i - Len(t) \in 1 .. k + 1
        BY <2>1, <2>8, <3>2
      <4>2. e[Len(t) + (i - Len(t))] = NUL /\ u[Len(t) + (i - Len(t))] = NUL
        BY <2>3, <2>7, <2>8, <4>1
      <4>3. QED
        BY <4>1, <4>2
    <3>3. QED
      BY <3>1, <3>2
  <2>10. e[n + 1] = NUL
    <3>1. k + 1 \in 1 .. Len(z) /\ Len(t) + (k + 1) = n + 1
      BY <1>0, <2>1, <2>3
    <3>2. e[Len(t) + (k + 1)] = z[k + 1] /\ z[k + 1] = NUL
      BY <2>3, <2>7, <3>1
    <3>3. QED
      BY <3>1, <3>2
  <2>11. Len(e) = n + f + 1 /\ n = Len(u)
    BY <1>0, <2>1, <2>5, <2>7, <2>8 DEF f
  <2>12. Kept(Header(n, f, e), u)
    BY <2>6, <2>7, <2>8, <2>9, <2>10, <2>11, HeaderKeeps
  <2>13. QED
    BY <2>4, <2>12 DEF u, k
<1>3. QED
  BY <1>1, <1>2

(* A string that is ended after what is to stay of it.                      *)
LEMMA EndedIs ==
  ASSUME NEW h \in Headers, Len(h.buf) = h.len + h.free + 1, NEW u \in Seq(Byte),
         Len(u) <= h.len + h.free, \A i \in 1 .. Len(u) : h.buf[i] = u[i]
  PROVE  Kept(Ended(h, Len(u)), u)
<1> DEFINE n == Len(u)
           b == Written(h.buf, n, <<NUL>>)
           f == h.free + (h.len - n)
<1>1. /\ h.len \in Nat /\ h.free \in Nat /\ h.buf \in Seq(Cell) /\ n \in Nat
  BY DEF Headers
<1>2. n + 1 <= Len(h.buf) /\ f \in Nat
  BY <1>1
<1>3. /\ b \in Seq(Cell) /\ Len(b) = Len(h.buf) /\ b[n + 1] = NUL
      /\ \A i \in 1 .. n : b[i] = h.buf[i]
  BY <1>1, <1>2, TerminatorWritten
<1>4. Ended(h, n) = Header(n, f, b)
  BY DEF Ended, Header
<1> HIDE DEF b
<1>5. Len(b) = n + f + 1 /\ \A i \in 1 .. n : b[i] = u[i]
  BY <1>1, <1>3
<1> HIDE DEF f
<1>6. QED
  BY <1>2, <1>3, <1>4, <1>5, HeaderKeeps

LEMMA IncrLenIs ==
  ASSUME NEW h \in Headers, Len(h.buf) = h.len + h.free + 1, NEW u \in Seq(Byte), NEW k \in Int,
         Len(u) = h.len + k, k <= h.free, \A i \in 1 .. Len(u) : h.buf[i] = u[i]
  PROVE  Kept(sdsIncrLen(h, k), u)
<1>1. h.len \in Nat /\ h.free \in Nat /\ Len(u) \in Nat
  BY DEF Headers
<1>2. Len(u) <= h.len + h.free /\ h.free - k = h.free + (h.len - Len(u))
  BY <1>1
<1>3. Kept(Ended(h, Len(u)), u)
  BY <1>2, EndedIs
<1>4. sdsIncrLen(h, k) = Ended(h, Len(u))
  BY <1>2 DEF sdsIncrLen, Ended
<1>5. QED
  BY <1>3, <1>4

LEMMA WriteInPlaceIs ==
  ASSUME NEW t \in Seq(Byte), NEW h, Keeping(h, t), NEW a \in Seq(Byte), NEW r,
         r = sdsMakeRoomFor(h, Len(a))
  PROVE  Kept(sdsIncrLen([r EXCEPT !.buf = Written(@, r.len, a)], Len(a)), t \o a)
<1> DEFINE b == Written(r.buf, r.len, a)
           g == [r EXCEPT !.buf = b]
           u == t \o a
<1>0. Len(a) \in Nat /\ Len(t) \in Nat
  OBVIOUS
<1>1. Keeping(r, t) /\ r.free >= Len(a)
  BY <1>0, RoomIs
<1>2. /\ r \in Headers /\ r.len = Len(t) /\ r.free \in Nat
      /\ r.buf \in Seq(Cell) /\ Len(r.buf) = Len(t) + r.free + 1
      /\ \A i \in 1 .. Len(t) : r.buf[i] = t[i]
  BY <1>1, KeepingIs
<1>3. a \in Seq(Cell) /\ Len(t) + Len(a) <= Len(r.buf)
  BY <1>0, <1>1, <1>2, ByteCells
<1>4. /\ b \in Seq(Cell) /\ Len(b) = Len(r.buf)
      /\ \A i \in 1 .. Len(a) : b[Len(t) + i] = a[i]
      /\ \A i \in 1 .. Len(r.buf) : i <= Len(t) \/ i > Len(t) + Len(a) => b[i] = r.buf[i]
  <2> DEFINE c == r.buf
  <2>1. c \in Seq(Cell) /\ Len(t) \in Nat /\ a \in Seq(Cell) /\ Len(t) + Len(a) <= Len(c)
    BY <1>0, <1>2, <1>3
  <2>2. b = Written(c, Len(t), a)
    BY <1>2
  <2> HIDE DEF c, b
  <2>3. /\ Written(c, Len(t), a) \in Seq(Cell) /\ Len(Written(c, Len(t), a)) = Len(c)
        /\ \A i \in 1 .. Len(a) : Written(c, Len(t), a)[Len(t) + i] = a[i]
        /\ \A i \in 1 .. Len(c) : i <= Len(t) \/ i > Len(t) + Len(a)
                                   => Written(c, Len(t), a)[i] = c[i]
    BY ONLY <2>1, WrittenIs
  <2>4. QED
    BY <2>2, <2>3 DEF c
<1> HIDE DEF b, u
<1>5. g = Header(Len(t), r.free, b)
  <2>1. Rewritten(r, b, g)
    BY DEF Rewritten
  <2>2. QED
    BY <1>2, <1>4, <2>1, RewrittenIs
<1> HIDE DEF g
<1>6. g \in Headers /\ g.len = Len(t) /\ g.free = r.free /\ g.buf = b
  BY <1>0, <1>2, <1>4, <1>5 DEF Header, Headers
<1>7. /\ u \in Seq(Byte) /\ Len(u) = Len(t) + Len(a)
      /\ \A i \in 1 .. Len(t) : u[i] = t[i]
      /\ \A i \in 1 .. Len(a) : u[Len(t) + i] = a[i]
      /\ \A i \in 1 .. Len(u) :
           i \in 1 .. Len(t) \/ (i - Len(t) \in 1 .. Len(a) /\ i = Len(t) + (i - Len(t)))
  BY JoinedIs DEF u
<1>8. ASSUME NEW i \in 1 .. Len(u) PROVE b[i] = u[i]
  <2>1. CASE i \in 1 .. Len(t)
    <3>1. i \in 1 .. Len(r.buf) /\ i <= Len(t)
      BY <1>0, <1>2, <2>1
    <3>2. QED
      BY <1>2, <1>4, <1>7, <2>1, <3>1
  <2>2. CASE i \notin 1 .. Len(t)
    <3>1. i - Len(t) \in 1 .. Len(a) /\ i = Len(t) + (i - Len(t))
      BY <1>7, <2>2
    <3>2. b[Len(t) + (i - Len(t))] = a[i - Len(t)] /\ u[Len(t) + (i - Len(t))] = a[i - Len(t)]
      BY <1>4, <1>7, <3>1
    <3>3. QED
      BY <3>1, <3>2
  <2>3. QED
    BY <2>1, <2>2
<1>9. /\ Len(g.buf) = g.len + g.free + 1 /\ Len(u) = g.len + Len(a) /\ Len(a) <= g.free
      /\ \A i \in 1 .. Len(u) : g.buf[i] = u[i]
  BY <1>0, <1>1, <1>2, <1>4, <1>6, <1>7, <1>8
<1>10. Kept(sdsIncrLen(g, Len(a)), u)
  <2>1. Len(a) \in Int
    BY <1>0
  <2>2. QED
    BY ONLY <2>1, <1>6, <1>7, <1>9, IncrLenIs
<1>11. QED
  BY <1>10 DEF g, b, u

(* The bytes from the first to the last that stay are moved to the front.   *)
LEMMA MovedIs ==
  ASSUME NEW t \in Seq(Byte), NEW h, Keeping(h, t), NEW p \in Nat, NEW n \in Nat,
         p + n <= Len(t), NEW b, NEW u,
         \/ b = Written(h.buf, 0, SubSeq(h.buf, p + 1, p + n))
         \/ b = h.buf /\ (p = 0 \/ n = 0),
         u = SubSeq(t, p + 1, p + n)
  PROVE  Kept(Ended([h EXCEPT !.buf = b], n), u)
<1> DEFINE g == [h EXCEPT !.buf = b]
           m == SubSeq(h.buf, p + 1, p + n)
           q == p + n
<1>0. /\ h \in Headers /\ h.len = Len(t) /\ h.len \in Nat /\ h.free \in Nat
      /\ h.buf \in Seq(Cell) /\ Len(h.buf) = Len(t) + h.free + 1
      /\ \A i \in 1 .. Len(t) : h.buf[i] = t[i]
      /\ Len(t) \in Nat
  BY KeepingIs
<1>1. /\ q \in 0 .. Len(h.buf) /\ q \in 0 .. Len(t) /\ p <= q /\ q - p = n
      /\ \A i \in 1 .. n : p + i \in 1 .. Len(t)
  <2>1. Len(t) <= Len(h.buf) /\ Len(h.buf) \in Nat
    BY <1>0
  <2>2. q \in Nat /\ q <= Len(t) /\ q = p + n
    OBVIOUS
  <2> HIDE DEF q
  <2>3. QED
    BY <1>0, <2>1, <2>2
<1> HIDE DEF q
<1>2. /\ SubSeq(h.buf, p + 1, q) \in Seq(Cell)
      /\ Len(SubSeq(h.buf, p + 1, q)) = q - p
      /\ \A i \in 1 .. (q - p) : SubSeq(h.buf, p + 1, q)[i] = h.buf[p + i]
  BY ONLY p \in Nat, <1>0, <1>1, SubSeqAfter
<1>3. /\ SubSeq(t, p + 1, q) \in Seq(Byte)
      /\ Len(SubSeq(t, p + 1, q)) = q - p
      /\ \A i \in 1 .. (q - p) : SubSeq(t, p + 1, q)[i] = t[p + i]
  BY <1>1, SubSeqAfter
<1>4. /\ m \in Seq(Cell) /\ Len(m) = n /\ \A i \in 1 .. n : m[i] = t[p + i]
  <2>1. m = SubSeq(h.buf, p + 1, q)
    BY DEF q
  <2> HIDE DEF m
  <2>2. QED
    BY <1>0, <1>1, <1>2, <2>1
<1>5. /\ u \in Seq(Byte) /\ Len(u) = n /\ \A i \in 1 .. n : u[i] = t[p + i]
  <2>1. u = SubSeq(t, p + 1, q)
    BY DEF q
  <2>2. QED
    BY <1>1, <1>3, <2>1
<1>6. b = Written(h.buf, 0, m) \/ (b = h.buf /\ (p = 0 \/ n = 0))
  OBVIOUS
<1> HIDE DEF m
<1>7. b \in Seq(Cell) /\ Len(b) = Len(h.buf) /\ \A i \in 1 .. n : b[i] = u[i]
  <2>1. CASE b = Written(h.buf, 0, m)
    <3>1. 0 \in Nat /\ 0 + Len(m) <= Len(h.buf)
      BY <1>0, <1>4
    <3>2. /\ b \in Seq(Cell) /\ Len(b) = Len(h.buf)
          /\ \A i \in 1 .. Len(m) : b[0 + i] = m[i]
      <4> DEFINE c == h.buf
      <4>1. c \in Seq(Cell) /\ m \in Seq(Cell) /\ 0 \in Nat /\ 0 + Len(m) <= Len(c)
        BY <1>0, <1>4, <3>1
      <4>2. b = Written(c, 0, m)
        BY <2>1
      <4> HIDE DEF c
      <4>3. /\ Written(c, 0, m) \in Seq(Cell) /\ Len(Written(c, 0, m)) = Len(c)
            /\ \A i \in 1 .. Len(m) : Written(c, 0, m)[0 + i] = m[i]
        BY ONLY <4>1, WrittenIs
      <4>4. QED
        BY <4>2, <4>3 DEF c
    <3>3. \A i \in 1 .. n : 0 + i = i
      OBVIOUS
    <3>4. QED
      BY <1>4, <1>5, <3>2, <3>3
  <2>2. CASE b = h.buf /\ p = 0
    <3>1. \A i \in 1 .. n : p + i = i /\ i \in 1 .. Len(t)
      BY <1>1, <2>2
    <3>2. QED
      BY <1>0, <1>5, <2>2, <3>1
  <2>3. CASE b = h.buf /\ n = 0
    BY <1>0, <2>3
  <2>4. QED
    BY <1>6, <2>1, <2>2, <2>3
<1>8. g = Header(h.len, h.free, b)
  <2>1. Rewritten(h, b, g)
    BY DEF Rewritten
  <2>2. QED
    BY <1>0, <1>7, <2>1, RewrittenIs
<1> HIDE DEF g
<1>9. g \in Headers /\ g.len = h.len /\ g.free = h.free /\ g.buf = b
  BY <1>0, <1>7, <1>8 DEF Header, Headers
<1>10. Len(g.buf) = g.len + g.free + 1 /\ Len(u) <= g.len + g.free
       /\ \A i \in 1 .. Len(u) : g.buf[i] = u[i]
  BY <1>0, <1>5, <1>7, <1>9
<1>11. Kept(Ended(g, Len(u)), u)
  BY <1>5, <1>9, <1>10, EndedIs
<1>12. QED
  BY <1>5, <1>11 DEF g

LEMMA PartIs ==
  ASSUME NEW t \in Seq(Byte), NEW n \in Nat, n <= Len(t)
  PROVE  /\ SubSeq(t, 1, n) \in Seq(Byte) /\ Len(SubSeq(t, 1, n)) = n
         /\ \A i \in 1 .. n : SubSeq(t, 1, n)[i] = t[i]
<1>1. n \in 0 .. Len(t) /\ 0 \in Nat /\ 0 <= n /\ 0 + 1 = 1 /\ n - 0 = n
  OBVIOUS
<1>2. /\ SubSeq(t, 0 + 1, n) \in Seq(Byte) /\ Len(SubSeq(t, 0 + 1, n)) = n - 0
      /\ \A i \in 1 .. (n - 0) : SubSeq(t, 0 + 1, n)[i] = t[0 + i]
  BY <1>1, SubSeqAfter
<1>3. \A i \in 1 .. n : 0 + i = i
  OBVIOUS
<1>4. QED
  BY <1>1, <1>2, <1>3

LEMMA CutRightIs ==
  ASSUME NEW t \in Seq(Byte), NEW h, Keeping(h, t), NEW n \in 1 .. h.len
  PROVE  Kept(sdsIncrLen(h, -n), SubSeq(t, 1, Len(t) - n))
<1>0. /\ h \in Headers /\ h.len = Len(t) /\ h.len \in Nat /\ h.free \in Nat
      /\ Len(h.buf) = Len(t) + h.free + 1
      /\ \A i \in 1 .. Len(t) : h.buf[i] = t[i]
      /\ Len(t) \in Nat
  BY KeepingIs
<1> DEFINE k == Len(t) - n
           u == SubSeq(t, 1, k)
<1>1. k \in Nat /\ k <= Len(t) /\ -n \in Int /\ k = h.len + (-n) /\ -n <= h.free
      /\ \A i \in 1 .. k : i \in 1 .. Len(t)
  BY <1>0
<1> HIDE DEF k
<1>2. u \in Seq(Byte) /\ Len(u) = k /\ \A i \in 1 .. k : u[i] = t[i]
  BY <1>1, PartIs
<1> HIDE DEF u
<1>3. Len(h.buf) = h.len + h.free + 1 /\ Len(u) = h.len + (-n)
      /\ \A i \in 1 .. Len(u) : h.buf[i] = u[i]
  BY <1>0, <1>1, <1>2
<1>4. Kept(sdsIncrLen(h, -n), u)
  BY <1>0, <1>1, <1>2, <1>3, IncrLenIs
<1>5. QED
  BY <1>4 DEF u, k

LEMMA NothingIs ==
  ASSUME NEW t \in Seq(Byte), NEW m \in Int, NEW n \in Int, m > n
  PROVE  SubSeq(t, m, n) = <<>>
OBVIOUS

LEMMA TrimIs ==
  ASSUME NEW t \in Seq(Byte), NEW h, Keeping(h, t), NEW cset
  PROVE  Kept(sdstrim(h, cset), Trimmed(t, ToSet(CStr(cset))))
<1> DEFINE W == ToSet(CStr(cset)) \union {NUL}
           in(i) == At(h.buf, i) \in W
           S == {i \in 0 .. h.len : i = h.len \/ ~in(i)}
           E == {i \in 0 .. h.len - 1 : i = 0 \/ ~in(i)}
           sp == Min(S)
           ep == IF h.len = 0 THEN -1 ELSE Max(E)
           n == IF sp > ep THEN 0 ELSE ep - sp + 1
           b == IF sp # 0 THEN Written(h.buf, 0, SubSeq(h.buf, sp + 1, sp + n)) ELSE h.buf
           kept == {i \in DOMAIN t : t[i] \notin W}
<1>0. /\ h \in Headers /\ h.len = Len(t) /\ h.len \in Nat /\ h.free \in Nat
      /\ h.buf \in Seq(Cell) /\ Len(h.buf) = Len(t) + h.free + 1
      /\ \A i \in 1 .. Len(t) : h.buf[i] = t[i]
      /\ Len(t) \in Nat /\ DOMAIN t = 1 .. Len(t)
  BY KeepingIs
<1>1. sdstrim(h, cset) = Ended([h EXCEPT !.buf = b], n)
  BY DEF sdstrim
<1>2. Trimmed(t, ToSet(CStr(cset))) = IF kept = {} THEN <<>> ELSE SubSeq(t, Min(kept), Max(kept))
  BY DEF Trimmed
<1>3. ASSUME NEW i \in 0 .. Len(t) - 1 PROVE i + 1 \in 1 .. Len(t) /\ (in(i) <=> i + 1 \notin kept)
  <2>1. i + 1 \in 1 .. Len(t) /\ i < Len(h.buf)
    BY <1>0
  <2>2. At(h.buf, i) = t[i + 1]
    BY <1>0, <2>1 DEF At
  <2>3. QED
    BY <1>0, <2>1, <2>2
<1> HIDE DEF kept
<1>a. S = {i \in 0 .. Len(t) : i = Len(t) \/ i + 1 \in kept}
  <2>0. Len(t) \in Nat
    BY <1>0
  <2>1. \A i \in 0 .. Len(t) : i = Len(t) \/ i \in 0 .. Len(t) - 1
    BY ONLY <2>0
  <2>2. \A i \in 0 .. Len(t) : i # Len(t) => (~in(i) <=> i + 1 \in kept)
    BY <1>3, <2>1
  <2>3. h.len = Len(t)
    BY <1>0
  <2> HIDE DEF in
  <2>4. QED
    BY <2>2, <2>3
<1>b. E = {i \in 0 .. Len(t) - 1 : i = 0 \/ i + 1 \in kept}
  <2>1. \A i \in 0 .. Len(t) - 1 : ~in(i) <=> i + 1 \in kept
    BY <1>3
  <2>2. h.len = Len(t)
    BY <1>0
  <2> HIDE DEF in
  <2>3. QED
    BY <2>1, <2>2
<1> HIDE DEF in, W, S, E
<1>4. CASE kept = {}
  <2>1. \A i \in S : i = Len(t)
    BY <1>4, <1>a
  <2>2. Len(t) \in S /\ S \subseteq Int
    BY <1>0, <1>a
  <2>3. sp = Len(t)
    <3>1. \A j \in S : Len(t) <= j
      BY <1>0, <2>1
    <3>2. QED
      BY <2>2, <3>1, LeastIs
  <2> HIDE DEF sp
  <2>4. n = 0
    <3>1. CASE Len(t) = 0
      BY <1>0, <2>3, <3>1
    <3>2. CASE Len(t) # 0
      <4>1. 0 \in E /\ E \subseteq Int /\ \A i \in E : i = 0
        BY <1>0, <1>4, <1>b, <3>2
      <4>2. Max(E) = 0
        <5>1. \A j \in E : j <= 0
          BY <4>1
        <5>2. QED
          BY <4>1, <5>1, GreatestIs
      <4>3. ep = 0
        BY <1>0, <3>2, <4>2
      <4> HIDE DEF ep
      <4>4. sp > ep
        BY <1>0, <2>3, <3>2, <4>3
      <4>5. QED
        BY <4>4
    <3>3. QED
      BY <3>1, <3>2
  <2> HIDE DEF n
  <2>5. <<>> = SubSeq(t, sp + 1, sp + n)
    <3>1. sp + 1 \in Int /\ sp + n \in Int /\ sp + 1 > sp + n
      BY <1>0, <2>3, <2>4
    <3>2. QED
      BY <3>1, NothingIs
  <2>6. sp \in Nat /\ n \in Nat /\ sp + n <= Len(t)
    BY <1>0, <2>3, <2>4
  <2>7. \/ b = Written(h.buf, 0, SubSeq(h.buf, sp + 1, sp + n))
        \/ b = h.buf /\ (sp = 0 \/ n = 0)
    OBVIOUS
  <2> HIDE DEF b
  <2>8. Kept(Ended([h EXCEPT !.buf = b], n), <<>>)
    BY <2>5, <2>6, <2>7, MovedIs
  <2>9. QED
    BY <1>1, <1>2, <1>4, <2>8
<1>5. CASE kept # {}
  <2>1. kept \subseteq 1 .. Len(t) /\ kept \subseteq Nat /\ kept \subseteq -1 .. Len(t) /\ kept \subseteq Int
    BY <1>0 DEF kept
  <2>2. PICK lo \in kept : \A j \in kept : lo <= j
    BY <1>5, <2>1, Lowest
  <2>3. PICK hi \in kept : \A j \in kept : j <= hi
    BY <1>0, <1>5, <2>1, Highest
  <2>4. Min(kept) = lo /\ Max(kept) = hi
    BY <2>1, <2>2, <2>3, LeastIs, GreatestIs
  <2>5. lo \in 1 .. Len(t) /\ hi \in 1 .. Len(t) /\ lo <= hi
    BY <2>1, <2>2
  <2>6. sp = lo - 1
    <3>1. lo - 1 \in 0 .. Len(t) - 1 /\ (lo - 1) + 1 = lo
      BY <1>0, <2>5
    <3>2. lo - 1 \in S /\ S \subseteq Int
      BY <1>0, <1>a, <2>2, <3>1
    <3>3. ASSUME NEW j \in S PROVE lo - 1 <= j
      <4>0. j \in 0 .. Len(t) /\ (j = Len(t) \/ j + 1 \in kept)
        BY <1>a
      <4>1. CASE j = Len(t)
        BY <1>0, <2>5, <4>1
      <4>2. CASE j + 1 \in kept
        <5>1. lo <= j + 1
          BY <2>2, <4>2
        <5>2. QED
          BY <2>5, <4>0, <5>1
      <4>3. QED
        BY <4>0, <4>1, <4>2
    <3>4. QED
      BY <3>2, <3>3, LeastIs
  <2>7. ep = hi - 1
    <3>1. hi - 1 \in 0 .. Len(t) - 1 /\ (hi - 1) + 1 = hi
      BY <1>0, <2>5
    <3>2. hi - 1 \in E /\ E \subseteq Int
      BY <1>0, <1>b, <2>3, <3>1
    <3>3. ASSUME NEW j \in E PROVE j <= hi - 1
      <4>0. j \in 0 .. Len(t) - 1 /\ (j = 0 \/ j + 1 \in kept)
        BY <1>b
      <4>1. CASE j = 0
        BY <3>1, <4>1
      <4>2. CASE j + 1 \in kept
        <5>1. j + 1 <= hi
          BY <2>3, <4>2
        <5>2. QED
          BY <2>5, <4>0, <5>1
      <4>3. QED
        BY <4>0, <4>1, <4>2
    <3>4. h.len # 0
      BY <1>0, <2>5
    <3>5. Max(E) = hi - 1
      BY <3>2, <3>3, GreatestIs
    <3>6. QED
      BY <3>4, <3>5
  <2> HIDE DEF sp, ep
  <2>8. n = hi - lo + 1 /\ sp \in Nat /\ n \in Nat /\ sp + n = hi /\ sp + n <= Len(t) /\ sp + 1 = lo
    BY <1>0, <2>5, <2>6, <2>7
  <2>9. \/ b = Written(h.buf, 0, SubSeq(h.buf, sp + 1, sp + n))
        \/ b = h.buf /\ (sp = 0 \/ n = 0)
    <3> HIDE DEF n
    <3>1. QED
      OBVIOUS
  <2> HIDE DEF n, b
  <2>10. SubSeq(t, lo, hi) = SubSeq(t, sp + 1, sp + n)
    BY <2>8
  <2>11. Kept(Ended([h EXCEPT !.buf = b], n), SubSeq(t, lo, hi))
    BY <2>8, <2>9, <2>10, MovedIs
  <2>12. QED
    BY <1>1, <1>2, <1>5, <2>4, <2>11
<1>6. QED
  BY <1>4, <1>5

LEMMA RangedIs ==
  ASSUME NEW t \in Seq(Byte), NEW h, Kept(h, t), NEW first \in Int, NEW last \in Int
  PROVE  Kept(sdsrange(h, first, last), Ranged(t, first, last))
<1> DEFINE FromStart(i) == IF i < 0 THEN Max({0, h.len + i}) ELSE i
           begin == FromStart(first)
           end == FromStart(last)
           newlen == IF begin > end \/ begin >= h.len THEN 0
                     ELSE IF end >= h.len THEN h.len - begin ELSE end - begin + 1
           b == IF begin # 0 /\ newlen # 0
                THEN Written(h.buf, 0, SubSeq(h.buf, begin + 1, begin + newlen)) ELSE h.buf
           upper == Min({Len(t), end + 1})
<1>0. Keeping(h, t) /\ h.len = Len(t) /\ h.len \in Nat /\ Len(t) \in Nat
  BY KeepingIs DEF Kept
<1>1. sdsrange(h, first, last) = IF h.len = 0 THEN h ELSE Ended([h EXCEPT !.buf = b], newlen)
  BY DEF sdsrange
<1>2. ASSUME NEW i \in Int PROVE FromStart(i) \in Nat /\ Position(t, i) = FromStart(i) + 1
  <2>1. CASE i < 0
    <3> DEFINE x == Len(t) + i
               y == Len(t) + i + 1
    <3>0. x \in Int /\ y \in Int /\ 0 \in Int /\ 1 \in Int /\ y = x + 1
      BY <1>0
    <3>a. FromStart(i) = Max({0, x}) /\ Position(t, i) = Max({1, y})
      BY <1>0, <2>1 DEF Position
    <3> HIDE DEF x, y
    <3>1. Max({0, x}) = (IF 0 >= x THEN 0 ELSE x)
      BY <3>0, Larger
    <3>2. Max({1, y}) = (IF 1 >= y THEN 1 ELSE y)
      BY <3>0, Larger
    <3> HIDE DEF FromStart
    <3>3. QED
      BY <3>0, <3>a, <3>1, <3>2
  <2>2. CASE ~ (i < 0)
    BY <2>2 DEF Position
  <2>3. QED
    BY <2>1, <2>2
<1>3. begin \in Nat /\ end \in Nat /\ Position(t, first) = begin + 1 /\ Position(t, last) = end + 1
  BY <1>2
<1>4. Ranged(t, first, last) = SubSeq(t, begin + 1, upper)
  BY <1>3 DEF Ranged
<1> HIDE DEF FromStart, begin, end
<1>5. upper = (IF Len(t) <= end + 1 THEN Len(t) ELSE end + 1)
  BY <1>0, <1>3, Smaller
<1> HIDE DEF upper
<1>6. CASE h.len = 0
  <2>1. begin + 1 \in Int /\ upper \in Int /\ begin + 1 > upper
    BY <1>0, <1>3, <1>5, <1>6
  <2>2. Ranged(t, first, last) = <<>>
    BY <1>4, <2>1, NothingIs
  <2>3. t = <<>>
    <3>1. Len(t) = 0
      BY <1>0, <1>6
    <3>2. QED
      BY ONLY t \in Seq(Byte), <3>1
  <2>4. QED
    BY <1>1, <1>6, <2>2, <2>3
<1>7. CASE h.len # 0 /\ newlen = 0
  <2>1. begin > end \/ begin >= Len(t)
    BY <1>0, <1>3, <1>7
  <2>2. begin + 1 \in Int /\ upper \in Int /\ begin + 1 > upper
    BY <1>0, <1>3, <1>5, <2>1
  <2>3. Ranged(t, first, last) = <<>>
    BY <1>4, <2>2, NothingIs
  <2>4. b = h.buf /\ 0 \in Nat /\ 0 + 0 <= Len(t) /\ <<>> = SubSeq(t, 0 + 1, 0 + 0)
    <3>1. 0 + 1 \in Int /\ 0 + 0 \in Int /\ 0 + 1 > 0 + 0
      OBVIOUS
    <3>2. <<>> = SubSeq(t, 0 + 1, 0 + 0)
      BY <3>1, NothingIs
    <3>3. QED
      BY <1>0, <1>7, <3>2
  <2> HIDE DEF newlen, b
  <2>5. Kept(Ended([h EXCEPT !.buf = b], 0), <<>>)
    BY <1>0, <2>4, MovedIs
  <2>6. QED
    BY <1>1, <1>7, <2>3, <2>5
<1>8. CASE h.len # 0 /\ newlen # 0
  <2>1. /\ newlen \in Nat /\ begin + newlen = upper /\ begin + newlen <= Len(t)
    BY <1>0, <1>3, <1>5, <1>8
  <2> HIDE DEF newlen
  <2>2. \/ b = Written(h.buf, 0, SubSeq(h.buf, begin + 1, begin + newlen))
        \/ b = h.buf /\ (begin = 0 \/ newlen = 0)
    OBVIOUS
  <2>3. Ranged(t, first, last) = SubSeq(t, begin + 1, begin + newlen)
    BY <1>4, <2>1
  <2> HIDE DEF b
  <2>4. Kept(Ended([h EXCEPT !.buf = b], newlen), Ranged(t, first, last))
    BY <1>0, <1>3, <2>1, <2>2, <2>3, MovedIs
  <2>5. QED
    BY <1>1, <1>8, <2>4
<1>9. QED
  BY <1>6, <1>7, <1>8

(* The string is cut by hand.                                               *)
LEMMA UpdateLenIs ==
  ASSUME NEW t \in Seq(Byte), NEW h, Keeping(h, t), NEW i \in 1 .. Len(t)
  PROVE  Kept(sdsupdatelen([h EXCEPT !.buf = Written(@, i - 1, <<NUL>>)]),
              CString([t EXCEPT ![i] = NUL]))
<1> DEFINE c == h.buf
           b == Written(c, i - 1, <<NUL>>)
           g == [h EXCEPT !.buf = b]
           s == [t EXCEPT ![i] = NUL]
<1>0. /\ h \in Headers /\ h.len = Len(t) /\ h.len \in Nat /\ h.free \in Nat
      /\ c \in Seq(Cell) /\ Len(c) = Len(t) + h.free + 1
      /\ \A j \in 1 .. Len(t) : c[j] = t[j]
      /\ Len(t) \in Nat
  BY KeepingIs
<1> HIDE DEF c
<1>1. i - 1 \in Nat /\ (i - 1) + 1 <= Len(c) /\ (i - 1) + 1 = i
  BY <1>0
<1>2. /\ b \in Seq(Cell) /\ Len(b) = Len(c) /\ b[i] = NUL
      /\ \A j \in 1 .. i - 1 : b[j] = c[j]
  <2>1. /\ Written(c, i - 1, <<NUL>>) \in Seq(Cell)
        /\ Len(Written(c, i - 1, <<NUL>>)) = Len(c)
        /\ Written(c, i - 1, <<NUL>>)[(i - 1) + 1] = NUL
        /\ \A j \in 1 .. i - 1 : Written(c, i - 1, <<NUL>>)[j] = c[j]
    BY <1>0, <1>1, TerminatorWritten
  <2>2. QED
    BY <1>1, <2>1
<1>3. s \in Seq(Byte) /\ Len(s) = Len(t) /\ s[i] = NUL /\ \A j \in 1 .. i - 1 : s[j] = t[j]
  <2>1. s \in [1 .. Len(t) -> Byte]
    BY ByteCells
  <2>2. \A j \in 1 .. i - 1 : j \in DOMAIN t /\ j # i
    BY <1>0
  <2>3. QED
    BY <1>0, <2>1, <2>2
<1>4. g = Header(h.len, h.free, b)
  <2>1. Rewritten(h, b, g)
    BY DEF Rewritten
  <2>2. QED
    BY <1>0, <1>2, <2>1, RewrittenIs
<1> HIDE DEF b, s
<1>5. PICK k : FirstNul(s, k)
  BY <1>3, FirstNulExists
<1>6. k \in 1 .. i /\ s[k] = NUL /\ \A j \in 1 .. k - 1 : s[j] # NUL
  <2>1. /\ k \in 1 .. Len(s) + 1 /\ (k = Len(s) + 1 \/ s[k] = NUL)
        /\ \A j \in 1 .. k - 1 : s[j] # NUL
    BY <1>5 DEF FirstNul
  <2>2. CASE i < k
    <3>1. i \in 1 .. k - 1
      BY <1>0, <1>3, <2>1, <2>2
    <3>2. QED
      BY <1>3, <2>1, <3>1
  <2>3. CASE ~ (i < k)
    BY <1>0, <1>3, <2>1, <2>3
  <2>4. QED
    BY <2>2, <2>3
<1>7. \A j \in 1 .. k - 1 : b[j] = s[j] /\ j \in 1 .. i - 1
  <2>1. \A j \in 1 .. k - 1 : j \in 1 .. i - 1 /\ j \in 1 .. Len(t)
    BY <1>0, <1>6
  <2>2. QED
    BY <1>0, <1>2, <1>3, <2>1
<1>8. FirstNul(b, k)
  <2>1. b[k] = NUL
    <3>1. k = i \/ k \in 1 .. i - 1
      BY <1>6
    <3>2. CASE k = i
      BY <1>2, <3>2
    <3>3. CASE k \in 1 .. i - 1
      BY <1>0, <1>2, <1>3, <1>6, <3>3
    <3>4. QED
      BY <3>1, <3>2, <3>3
  <2>2. k \in 1 .. Len(b) + 1
    BY <1>0, <1>2, <1>6
  <2>3. QED
    BY <1>6, <1>7, <2>1, <2>2 DEF FirstNul
<1> DEFINE u == SubSeq(s, 1, k - 1)
<1>9. /\ CString(s) = u /\ u \in Seq(Byte) /\ Len(u) = k - 1 /\ \A j \in 1 .. k - 1 : u[j] = s[j]
  BY <1>3, <1>5, ByteCells, CStrAt
<1>10. Len(CStr(b)) = k - 1
  BY <1>2, <1>8, ByteCells, CStrAt
<1> HIDE DEF u
<1> DEFINE f == h.free + (h.len - (k - 1))
<1>11. sdsupdatelen(g) = Header(k - 1, f, b)
  <2>1. g.buf = b /\ g.len = h.len /\ g.free = h.free
    BY <1>4 DEF Header
  <2>2. g \in Headers
    BY <1>0, <1>2, <1>4 DEF Header, Headers
  <2>3. Len(CStr(g.buf)) = k - 1
    BY <1>10, <2>1
  <2>4. sdsupdatelen(g) = [g EXCEPT !.free = @ + (g.len - (k - 1)), !.len = k - 1]
    BY <2>3 DEF sdsupdatelen
  <2>5. sdsupdatelen(g) = [g EXCEPT !.free = f, !.len = k - 1]
    BY <2>1, <2>4
  <2>6. f \in Nat /\ k - 1 \in Nat
    BY <1>0, <1>6
  <2> HIDE DEF f, g
  <2>7. Resized(g, k - 1, f, sdsupdatelen(g))
    BY <2>5 DEF Resized
  <2>8. sdsupdatelen(g) = Header(k - 1, f, g.buf)
    BY <2>2, <2>6, <2>7, ResizedIs
  <2>9. QED
    BY <2>1, <2>8
<1>12. f \in Nat /\ k - 1 = Len(u) /\ Len(b) = (k - 1) + f + 1 /\ b[(k - 1) + 1] = NUL
       /\ \A j \in 1 .. k - 1 : b[j] = u[j]
  <2>1. b[k] = NUL
    BY <1>0, <1>2, <1>6, <1>8 DEF FirstNul
  <2>2. f \in Nat /\ Len(b) = (k - 1) + f + 1 /\ (k - 1) + 1 = k
    BY <1>0, <1>2, <1>6
  <2>3. QED
    BY <1>7, <1>9, <2>1, <2>2
<1> HIDE DEF f
<1>13. Kept(Header(k - 1, f, b), u)
  BY <1>2, <1>9, <1>12, HeaderKeeps
<1>14. QED
  BY <1>9, <1>11, <1>13 DEF g, b, c, s

(* Byte by byte.                                                            *)
LEMMA MappedIs ==
  ASSUME NEW t \in Seq(Byte), NEW h, Kept(h, t), NEW m \in [0 .. 255 -> Byte], NEW u,
         u = [i \in DOMAIN t |-> m[t[i]]]
  PROVE  Kept(Mapped(h, m), u)
<1> DEFINE c == h.buf
           b == [i \in DOMAIN c |-> IF i <= h.len THEN m[c[i]] ELSE c[i]]
<1>0. /\ h \in Headers /\ h.len = Len(t) /\ h.len \in Nat /\ h.free \in Nat
      /\ c \in Seq(Cell) /\ Len(c) = Len(t) + h.free + 1
      /\ \A i \in 1 .. Len(t) : c[i] = t[i]
      /\ Len(t) \in Nat /\ c[Len(t) + 1] = NUL
  BY KeepingIs DEF Kept
<1>3. Mapped(h, m) = [h EXCEPT !.buf = b]
  BY DEF Mapped
<1> DEFINE n == h.len
<1>a. n = Len(t) /\ Len(t) \in Nat /\ Len(c) \in Nat /\ Len(t) + 1 <= Len(c) /\ c \in Seq(Cell)
      /\ (\A i \in 1 .. Len(t) : c[i] = t[i]) /\ c[Len(t) + 1] = NUL
  <2> DEFINE f == h.free
  <2>1. n = Len(t) /\ Len(t) \in Nat /\ f \in Nat /\ Len(c) = Len(t) + f + 1
    BY ONLY <1>0
  <2> HIDE DEF c, n, f
  <2>2. Len(c) \in Nat /\ Len(t) + 1 <= Len(c)
    BY ONLY <2>1
  <2>3. QED
    BY ONLY <1>0, <2>1, <2>2
<1> HIDE DEF c, n
<1>1. /\ DOMAIN c = 1 .. Len(c) /\ DOMAIN t = 1 .. Len(t)
      /\ \A i \in 1 .. Len(t) : t[i] \in 0 .. 255
      /\ \A i \in 1 .. Len(c) : c[i] \in Cell
  <2>1. t \in Seq(Byte) /\ c \in Seq(Cell)
    BY <1>a
  <2>2. /\ DOMAIN c = 1 .. Len(c) /\ DOMAIN t = 1 .. Len(t)
        /\ \A i \in 1 .. Len(t) : t[i] \in Byte
        /\ \A i \in 1 .. Len(c) : c[i] \in Cell
    BY ONLY <2>1, SequenceIs
  <2>3. QED
    BY ONLY <2>2 DEF Byte
<1>b. b = [i \in 1 .. Len(c) |-> IF i <= n THEN m[c[i]] ELSE c[i]]
  BY <1>1 DEF n
<1>c. \A i \in 1 .. Len(t) : i \in 1 .. Len(c) /\ i <= n
  BY ONLY <1>a
<1>d. \A i \in 1 .. Len(c) : i <= n => i \in 1 .. Len(t)
  BY ONLY <1>a
<1>e. \A x \in 0 .. 255 : m[x] \in Byte
  OBVIOUS
<1> HIDE DEF b
<1>2. ASSUME NEW i \in 1 .. Len(c) PROVE (IF i <= n THEN m[c[i]] ELSE c[i]) \in Cell
  <2>1. CASE i <= n
    <3>1. c[i] \in 0 .. 255
      BY <1>1, <1>a, <1>d, <2>1
    <3>2. QED
      BY <1>e, <2>1, <3>1, ByteCells
  <2>2. CASE ~ (i <= n)
    BY <1>1, <2>2
  <2>3. QED
    BY <2>1, <2>2
<1>4. b \in [1 .. Len(c) -> Cell]
  BY ONLY <1>b, <1>2
<1>5. b \in Seq(Cell) /\ Len(b) = Len(c)
  BY ONLY <1>a, <1>4, FunctionIsSequence
<1>6. u \in Seq(Byte) /\ Len(u) = Len(t) /\ \A i \in 1 .. Len(t) : u[i] = m[t[i]]
  <2>1. \A i \in 1 .. Len(t) : m[t[i]] \in Byte
    BY <1>1, <1>e
  <2>2. u \in [1 .. Len(t) -> Byte] /\ \A i \in 1 .. Len(t) : u[i] = m[t[i]]
    BY <1>1, <2>1
  <2>3. QED
    BY ONLY <1>a, <2>2, FunctionIsSequence
<1>7. \A i \in 1 .. Len(t) : b[i] = u[i]
  BY ONLY <1>a, <1>b, <1>c, <1>6
<1>8. b[Len(t) + 1] = NUL
  <2> DEFINE k == Len(t) + 1
  <2>0. k = Len(t) + 1 /\ n = Len(t) /\ Len(t) \in Nat /\ Len(c) \in Nat /\ k <= Len(c)
    BY ONLY <1>a
  <2> HIDE DEF k
  <2>1. k \in 1 .. Len(c) /\ ~ (k <= n)
    <3>1. k \in Nat /\ n \in Nat /\ k = n + 1 /\ k <= Len(c) /\ Len(c) \in Nat
      BY ONLY <2>0
    <3>2. k >= 1 /\ k > n
      BY ONLY <3>1
    <3>3. QED
      BY ONLY <3>1, <3>2
  <2>2. b[k] = c[k] /\ c[k] = NUL
    BY <1>a, <1>b, <2>0, <2>1
  <2>3. QED
    BY <2>2 DEF k
<1>9. Mapped(h, m) = Header(Len(t), h.free, b)
  <2>1. Rewritten(h, b, Mapped(h, m))
    BY <1>3 DEF Rewritten
  <2>2. QED
    BY <1>0, <1>5, <2>1, RewrittenIs
<1>10. h.free \in Nat /\ Len(t) = Len(u) /\ Len(b) = Len(t) + h.free + 1
  BY <1>0, <1>5, <1>6 DEF c
<1>11. Kept(Header(Len(t), h.free, b), u)
  BY ONLY <1>5, <1>6, <1>7, <1>8, <1>10, HeaderKeeps
<1>12. QED
  BY <1>9, <1>11

LEMMA CaseIs ==
  ASSUME NEW t \in Seq(Byte), NEW h, Kept(h, t)
  PROVE  /\ Kept(sdstolower(h), [i \in DOMAIN t |-> LowerCase(t[i])])
         /\ Kept(sdstoupper(h), [i \in DOMAIN t |-> UpperCase(t[i])])
<1> DEFINE l == [b \in 0 .. 255 |-> IF b \in 65 .. 90 THEN b + 32 ELSE b]
           u == [b \in 0 .. 255 |-> IF b \in 97 .. 122 THEN b - 32 ELSE b]
<1>1. l \in [0 .. 255 -> Byte] /\ u \in [0 .. 255 -> Byte]
  BY DEF Byte
<1>2. \A i \in DOMAIN t : t[i] \in 0 .. 255
  <2>1. DOMAIN t = 1 .. Len(t) /\ \A i \in 1 .. Len(t) : t[i] \in Byte
    BY SequenceIs
  <2>2. QED
    BY ONLY <2>1 DEF Byte
<1>3. [i \in DOMAIN t |-> LowerCase(t[i])] = [i \in DOMAIN t |-> l[t[i]]]
  BY <1>2 DEF LowerCase
<1>4. [i \in DOMAIN t |-> UpperCase(t[i])] = [i \in DOMAIN t |-> u[t[i]]]
  BY <1>2 DEF UpperCase
<1>5. sdstolower(h) = Mapped(h, l) /\ sdstoupper(h) = Mapped(h, u)
  BY DEF sdstolower, sdstoupper
<1> HIDE DEF l, u
<1>6. Kept(Mapped(h, l), [i \in DOMAIN t |-> l[t[i]]]) /\ Kept(Mapped(h, u), [i \in DOMAIN t |-> u[t[i]]])
  BY <1>1, MappedIs
<1>7. QED
  BY <1>3, <1>4, <1>5, <1>6

LEMMA MapcharsIs ==
  ASSUME NEW t \in Seq(Byte), NEW h, Kept(h, t), NEW x \in Byte, NEW y \in Byte
  PROVE  Kept(sdsmapchars(h, <<x, x>>, <<y, 0>>), [i \in DOMAIN t |-> IF t[i] = x THEN y ELSE t[i]])
<1> DEFINE At1(b) == SelectInSeq(<<x, x>>, LAMBDA c : c = b)
           m == [b \in 0 .. 255 |-> IF b \in ToSet(<<x, x>>) THEN <<y, 0>>[At1(b)] ELSE b]
           n == [b \in 0 .. 255 |-> IF b = x THEN y ELSE b]
<1>1. ToSet(<<x, x>>) = {x}
  BY DEF ToSet
<1>2. At1(x) = 1
  <2> DEFINE U == {i \in 1 .. Len(<<x, x>>) : <<x, x>>[i] = x}
  <2>1. 1 \in U /\ U \subseteq Int /\ \A j \in U : 1 <= j
    OBVIOUS
  <2> HIDE DEF U
  <2>2. Min(U) = 1 /\ U # {}
    BY <2>1, LeastIs
  <2>3. QED
    BY <2>2 DEF SelectInSeq, U
<1>3. m = n
  <2> HIDE DEF At1
  <2>1. \A b \in 0 .. 255 : (IF b \in ToSet(<<x, x>>) THEN <<y, 0>>[At1(b)] ELSE b) = (IF b = x THEN y ELSE b)
    BY <1>1, <1>2
  <2>2. QED
    BY <2>1
<1>4. sdsmapchars(h, <<x, x>>, <<y, 0>>) = Mapped(h, m)
  BY DEF sdsmapchars
<1> HIDE DEF m
<1>5. n \in [0 .. 255 -> Byte]
  BY DEF Byte
<1>6. \A i \in DOMAIN t : t[i] \in 0 .. 255
  <2>1. DOMAIN t = 1 .. Len(t) /\ \A i \in 1 .. Len(t) : t[i] \in Byte
    BY SequenceIs
  <2>2. QED
    BY ONLY <2>1 DEF Byte
<1>7. [i \in DOMAIN t |-> IF t[i] = x THEN y ELSE t[i]] = [i \in DOMAIN t |-> n[t[i]]]
  BY <1>6
<1> HIDE DEF n
<1>8. Kept(Mapped(h, n), [i \in DOMAIN t |-> n[t[i]]])
  BY <1>5, MappedIs
<1>9. QED
  BY <1>3, <1>4, <1>7, <1>8

-------------------------------------------------------------------------------
(* Formatting: whatever buffer it starts with, the text ends up whole.      *)
LEMMA VsnprintfIs ==
  ASSUME NEW out \in Seq(Byte), NEW n \in Nat \ {0, 1}
  PROVE  /\ n >= Len(out) + 2 => At(vsnprintf(out, n), n - 2) = NUL
         /\ At(vsnprintf(out, n), n - 2) = NUL => CStr(vsnprintf(out, n)) = CStr(out)
<1> DEFINE p == Min({Len(out), n - 1})
           a == SubSeq(out, 1, p)
           z == <<NUL>>
           b == a \o z
<1>0. Len(out) \in Nat /\ n - 1 \in Int /\ n - 1 >= 1
  OBVIOUS
<1>1. p = IF Len(out) <= n - 1 THEN Len(out) ELSE n - 1
  BY <1>0, Smaller
<1> HIDE DEF p
<1>2. p \in Nat /\ p <= Len(out) /\ p <= n - 1
  BY <1>0, <1>1
<1>3. a \in Seq(Byte) /\ Len(a) = p /\ \A i \in 1 .. p : a[i] = out[i]
  BY <1>2, PartIs
<1>4. z \in Seq(Byte) /\ Len(z) = 1 /\ z[1] = NUL /\ 1 \in 1 .. Len(z)
  BY ByteCells
<1>5. vsnprintf(out, n) = b
  BY DEF vsnprintf, p
<1> HIDE DEF a, z
<1>6. b \in Seq(Byte) /\ Len(b) = p + 1 /\ b[p + 1] = NUL /\ \A i \in 1 .. p : b[i] = out[i]
  <2>1. /\ a \o z \in Seq(Byte) /\ Len(a \o z) = Len(a) + Len(z)
        /\ \A i \in 1 .. Len(a) : (a \o z)[i] = a[i]
        /\ \A i \in 1 .. Len(z) : (a \o z)[Len(a) + i] = z[i]
    <3>1. a \in Seq(Byte) /\ z \in Seq(Byte)
      BY <1>3, <1>4
    <3>2. QED
      BY ONLY <3>1, ConcatFacts
  <2>2. QED
    BY <1>3, <1>4, <2>1
<1> HIDE DEF b
<1>7. ASSUME n >= Len(out) + 2 PROVE At(b, n - 2) = NUL
  <2>1. p = Len(out) /\ (n - 2 < Len(b) => (n - 2) + 1 = p + 1)
    BY <1>0, <1>1, <1>2, <1>6, <1>7
  <2>2. QED
    BY <1>6, <2>1 DEF At
<1>8. ASSUME At(b, n - 2) = NUL PROVE CStr(b) = CStr(out)
  <2>1. PICK k : FirstNul(out, k)
    BY FirstNulExists
  <2>2. /\ k \in 1 .. Len(out) + 1 /\ (k = Len(out) + 1 \/ out[k] = NUL)
        /\ \A j \in 1 .. k - 1 : out[j] # NUL
    BY <2>1 DEF FirstNul
  <2>3. k <= p + 1
    <3>1. CASE Len(out) <= n - 1
      BY <1>0, <1>1, <2>2, <3>1
    <3>2. CASE ~ (Len(out) <= n - 1)
      <4>1. p = n - 1 /\ n - 2 < Len(b) /\ (n - 2) + 1 = p /\ p \in 1 .. p
        BY <1>0, <1>1, <1>2, <1>6, <3>2
      <4>2. out[p] = NUL
        BY <1>6, <1>8, <4>1 DEF At
      <4>3. CASE p < k
        <5>1. p \in 1 .. k - 1
          BY <2>2, <4>1, <4>3
        <5>2. QED
          BY <2>2, <4>2, <5>1
      <4>4. QED
        BY <1>2, <2>2, <4>3
    <3>3. QED
      BY <3>1, <3>2
  <2>4. \A j \in 1 .. k - 1 : j \in 1 .. p
    BY <1>2, <2>2, <2>3
  <2>5. b[k] = NUL
    <3>1. CASE k = p + 1
      BY <1>6, <3>1
    <3>2. CASE k # p + 1
      <4>1. k \in 1 .. p /\ k # Len(out) + 1
        BY <1>0, <1>2, <2>2, <2>3, <3>2
      <4>2. QED
        BY <1>6, <2>2, <4>1
    <3>3. QED
      BY <3>1, <3>2
  <2>6. FirstNul(b, k)
    <3>1. k \in 1 .. Len(b) + 1
      BY <1>2, <1>6, <2>2, <2>3
    <3>2. \A j \in 1 .. k - 1 : b[j] # NUL
      BY <1>6, <2>2, <2>4
    <3>3. QED
      BY <2>5, <3>1, <3>2 DEF FirstNul
  <2>7. /\ CStr(b) = SubSeq(b, 1, k - 1) /\ SubSeq(b, 1, k - 1) \in Seq(Byte)
        /\ Len(SubSeq(b, 1, k - 1)) = k - 1
        /\ \A i \in 1 .. k - 1 : SubSeq(b, 1, k - 1)[i] = b[i]
    BY <1>6, <2>6, ByteCells, CStrAt
  <2>8. /\ CStr(out) = SubSeq(out, 1, k - 1) /\ SubSeq(out, 1, k - 1) \in Seq(Byte)
        /\ Len(SubSeq(out, 1, k - 1)) = k - 1
        /\ \A i \in 1 .. k - 1 : SubSeq(out, 1, k - 1)[i] = out[i]
    BY <2>1, ByteCells, CStrAt
  <2>9. \A i \in 1 .. k - 1 : SubSeq(b, 1, k - 1)[i] = SubSeq(out, 1, k - 1)[i]
    BY <1>6, <2>4, <2>7, <2>8
  <2>10. SubSeq(b, 1, k - 1) = SubSeq(out, 1, k - 1)
    BY ONLY <2>7, <2>8, <2>9, EqualSequences
  <2>11. QED
    BY <2>7, <2>8, <2>10
<1>9. QED
  BY <1>5, <1>7, <1>8

LEMMA FormattedIs ==
  ASSUME NEW out \in Seq(Byte), NEW buflen \in Nat \ {0, 1}
  PROVE  Formatted(out, buflen) = CStr(out)
<1> DEFINE D == Nat \ {0, 1}
           Whole(n) == At(vsnprintf(out, n), n - 2) = NUL
           Rule(f, n) == IF At(vsnprintf(out, n), n - 2) # NUL THEN f[2 * n] ELSE CStr(vsnprintf(out, n))
           g == [n \in D |-> CStr(out)]
           formatted == CHOOSE f : f = [n \in D |-> Rule(f, n)]
<1>1. Formatted(out, buflen) = formatted[buflen]
  BY DEF Formatted
<1>2. \A n \in D : Whole(n) => CStr(vsnprintf(out, n)) = CStr(out)
  BY VsnprintfIs
<1>3. \A n \in D : n >= Len(out) + 2 => Whole(n)
  BY VsnprintfIs
<1>4. \A n \in D : 2 * n \in D /\ 2 * n >= n + 1
  OBVIOUS
<1>5. \A n \in D : Rule(g, n) = CStr(out)
  <2>1. TAKE n \in D
  <2>2. CASE Whole(n)
    BY <1>2, <2>2
  <2>3. CASE ~ Whole(n)
    BY <1>4, <2>3
  <2>4. QED
    BY <2>2, <2>3
<1>6. g = [n \in D |-> Rule(g, n)]
  <2> HIDE DEF Rule
  <2>1. QED
    BY <1>5
<1>7. formatted = [n \in D |-> Rule(formatted, n)]
  <2> HIDE DEF Rule, g
  <2>1. QED
    BY <1>6
<1> HIDE DEF formatted
<1>8. \A n \in D : formatted[n] = IF Whole(n) THEN CStr(vsnprintf(out, n)) ELSE formatted[2 * n]
  <2>1. TAKE n \in D
  <2>2. formatted[n] = Rule(formatted, n)
    <3> HIDE DEF Rule
    <3>1. QED
      BY <1>7
  <2>3. QED
    BY <2>2
<1> HIDE DEF Whole, Rule, g
<1> DEFINE L == Len(out) + 2
           T == {m \in Nat : \A n \in D : n + m >= L => formatted[n] = CStr(out)}
<1>9. L \in Nat
  OBVIOUS
<1>a. \A n \in D : n >= L => Whole(n)
  BY <1>3
<1> HIDE DEF L
<1>10. 0 \in T
  <2>1. \A n \in D : n + 0 >= L => formatted[n] = CStr(out)
    BY <1>2, <1>8, <1>9, <1>a
  <2>2. QED
    BY <2>1
<1>11. ASSUME NEW m \in Nat, m \in T PROVE m + 1 \in T
  <2>1. SUFFICES ASSUME NEW n \in D, n + (m + 1) >= L PROVE formatted[n] = CStr(out)
    OBVIOUS
  <2>2. CASE Whole(n)
    BY <1>2, <1>8, <2>2
  <2>3. CASE ~ Whole(n)
    <3>1. 2 * n \in D /\ 2 * n + m >= L
      BY <1>4, <1>9, <2>1
    <3>2. formatted[2 * n] = CStr(out)
      BY <1>11, <3>1
    <3>3. QED
      BY <1>8, <2>3, <3>2
  <2>4. QED
    BY <2>2, <2>3
<1> HIDE DEF T
<1>12. Nat \subseteq T
  BY <1>10, <1>11, Induct
<1>13. L \in T
  BY <1>9, <1>12
<1>14. buflen \in D /\ buflen + L >= L
  BY <1>9
<1>15. formatted[buflen] = CStr(out)
  BY <1>13, <1>14 DEF T
<1>16. QED
  BY <1>1, <1>15

LEMMA CatprintfIs ==
  ASSUME NEW t \in Seq(Byte), NEW h, Keeping(h, t), NEW out \in Seq(Byte)
  PROVE  Kept(sdscatprintf(h, 2, out), t \o CString(out))
<1> DEFINE n == Max({2 * 2, STATIC_BUFFER})
<1>1. n \in Nat \ {0, 1}
  <2> DEFINE four == 2 * 2
  <2>1. STATIC_BUFFER \in Nat \ {0, 1} /\ four = 4
    BY SdsAssumption
  <2>a. n = Max({four, STATIC_BUFFER})
    OBVIOUS
  <2> HIDE DEF four, n
  <2>b. four \in Int /\ STATIC_BUFFER \in Int
    BY <2>1
  <2>2. n = (IF four >= STATIC_BUFFER THEN four ELSE STATIC_BUFFER)
    BY ONLY <2>a, <2>b, Larger
  <2>3. QED
    BY <2>1, <2>2
<1> HIDE DEF n
<1>2. Formatted(out, n) = CStr(out) /\ CStr(out) \in Seq(Byte) /\ CStr(out) = CString(out)
  BY <1>1, FormattedIs, CStrIs
<1> DEFINE c == CStr(out)
<1> HIDE DEF c
<1>3. PICK k : FirstNul(out, k)
  BY FirstNulExists
<1>4. c \in Seq(Byte) /\ Len(c) = k - 1 /\ k \in Nat \ {0} /\ \A i \in 1 .. k - 1 : c[i] # NUL
  <2>1. /\ CStr(out) = SubSeq(out, 1, k - 1) /\ SubSeq(out, 1, k - 1) \in Seq(Byte)
        /\ Len(SubSeq(out, 1, k - 1)) = k - 1
        /\ \A i \in 1 .. k - 1 : SubSeq(out, 1, k - 1)[i] = out[i]
    BY <1>3, ByteCells, CStrAt
  <2>2. k \in 1 .. Len(out) + 1 /\ \A i \in 1 .. k - 1 : out[i] # NUL
    BY <1>3 DEF FirstNul
  <2>3. QED
    BY <2>1, <2>2 DEF c
<1>5. CStr(c) = c
  <2>1. FirstNul(c, k)
    BY <1>4 DEF FirstNul
  <2>2. CStr(c) = SubSeq(c, 1, k - 1)
    BY <1>4, <2>1, ByteCells, CStrAt
  <2>3. SubSeq(c, 1, Len(c)) = c
    BY <1>4
  <2>4. QED
    BY <1>4, <2>2, <2>3
<1>6. sdscatprintf(h, 2, out) = sdscatlen(h, c)
  BY <1>2, <1>5 DEF sdscatprintf, sdscat, n, c
<1>7. Kept(sdscatlen(h, c), t \o c)
  BY <1>4, CatlenIs
<1>8. QED
  BY <1>2, <1>6, <1>7 DEF c

-------------------------------------------------------------------------------
(* Numbers as text.  DigitsReversed exists and is what its equation says.   *)
LEMMA TenthIs ==
  ASSUME NEW v \in Nat
  PROVE  /\ v \div 10 \in Nat /\ v % 10 \in 0 .. 9 /\ v \div 10 <= v
         /\ v # 0 => v \div 10 < v
         /\ v < 10 => v \div 10 = 0 /\ v % 10 = v
         /\ v >= 10 => v \div 10 # 0
OBVIOUS

BackwardRule(f, v) == <<48 + (v % 10)>> \o (IF v \div 10 = 0 THEN <<>> ELSE f[v \div 10])
Backward(m, f) == f = [v \in 0 .. m |-> BackwardRule(f, v)]

LEMMA BackwardFurther ==
  ASSUME NEW m \in Nat, NEW f, Backward(m, f)
  PROVE  \E g : Backward(m + 1, g)
<1> DEFINE g == [v \in 0 .. m + 1 |-> IF v = m + 1 THEN BackwardRule(f, v) ELSE f[v]]
<1>1. \A v \in 0 .. m : f[v] = BackwardRule(f, v) /\ v # m + 1 /\ v \in 0 .. m + 1
  BY DEF Backward
<1>2. \A v \in 0 .. m + 1 : v = m + 1 \/ v \in 0 .. m
  OBVIOUS
<1>3. \A v \in 0 .. m : g[v] = f[v]
  BY <1>1
<1>4. ASSUME NEW v \in 0 .. m + 1 PROVE BackwardRule(g, v) = BackwardRule(f, v)
  <2>1. v \div 10 \in 0 .. m
    <3>1. v \in Nat
      OBVIOUS
    <3>2. v \div 10 \in Nat /\ (v # 0 => v \div 10 < v) /\ v \div 10 <= v
      BY <3>1, TenthIs
    <3> DEFINE d == v \div 10
    <3> HIDE DEF d
    <3>3. d \in Nat /\ (v # 0 => d < v) /\ d <= v
      BY <3>2 DEF d
    <3>4. d \in 0 .. m
      BY <3>3
    <3>5. QED
      BY <3>4 DEF d
  <2> HIDE DEF g
  <2>2. QED
    BY <1>3, <2>1 DEF BackwardRule
<1>5. \A v \in 0 .. m + 1 : g[v] = BackwardRule(f, v)
  BY <1>1, <1>2
<1>6. g = [v \in 0 .. m + 1 |-> g[v]]
  OBVIOUS
<1> HIDE DEF g
<1>7. g = [v \in 0 .. m + 1 |-> BackwardRule(g, v)]
  BY <1>4, <1>5, <1>6
<1>8. QED
  BY <1>7 DEF Backward

LEMMA BackwardExists ==
  ASSUME NEW m \in Nat
  PROVE  \E f : Backward(m, f)
<1> DEFINE T == {k \in Nat : \E f : Backward(k, f)}
<1>1. 0 \in T
  <2> DEFINE g == [v \in 0 .. 0 |-> <<48 + (v % 10)>> \o <<>>]
  <2>1. \A v \in 0 .. 0 : v \div 10 = 0
    OBVIOUS
  <2>2. \A v \in 0 .. 0 : BackwardRule(g, v) = <<48 + (v % 10)>> \o <<>>
    BY <2>1 DEF BackwardRule
  <2>3. g = [v \in 0 .. 0 |-> BackwardRule(g, v)]
    BY <2>2
  <2> HIDE DEF g
  <2>4. QED
    BY <2>3 DEF Backward
<1>2. \A k \in Nat : k \in T => k + 1 \in T
  BY BackwardFurther
<1> HIDE DEF T
<1>3. m \in T
  BY <1>1, <1>2, Induct
<1>4. QED
  BY <1>3 DEF T

(* Two solutions agree where both are defined.                              *)
LEMMA BackwardUnique ==
  ASSUME NEW m \in Nat, NEW n \in Nat, NEW f, NEW g, Backward(m, f), Backward(n, g),
         NEW v \in Nat, v <= m, v <= n
  PROVE  f[v] = g[v]
<1> DEFINE T == {k \in Nat : \A u \in 0 .. k : u <= m /\ u <= n => f[u] = g[u]}
<1>0. /\ \A u \in 0 .. m : f[u] = BackwardRule(f, u)
      /\ \A u \in 0 .. n : g[u] = BackwardRule(g, u)
  BY DEF Backward
<1>1. ASSUME NEW u \in Nat, u <= m, u <= n, \A w \in 0 .. u - 1 : w <= m /\ w <= n => f[w] = g[w]
      PROVE  f[u] = g[u]
  <2> DEFINE d == u \div 10
  <2>1. d \in Nat /\ (u # 0 => d < u) /\ (u = 0 => d = 0)
    BY TenthIs
  <2>2. f[u] = BackwardRule(f, u) /\ g[u] = BackwardRule(g, u)
    BY <1>0, <1>1
  <2>3. BackwardRule(f, u) = <<48 + (u % 10)>> \o (IF d = 0 THEN <<>> ELSE f[d])
    BY DEF BackwardRule
  <2>4. BackwardRule(g, u) = <<48 + (u % 10)>> \o (IF d = 0 THEN <<>> ELSE g[d])
    BY DEF BackwardRule
  <2> HIDE DEF d
  <2>5. d # 0 => f[d] = g[d]
    BY <1>1, <2>1
  <2>6. QED
    BY <2>2, <2>3, <2>4, <2>5
<1>2. 0 \in T
  <2>1. \A u \in 0 .. 0 : u <= m /\ u <= n => f[u] = g[u]
    BY <1>1
  <2>2. QED
    BY <2>1
<1>3. ASSUME NEW k \in Nat, k \in T PROVE k + 1 \in T
  <2>1. SUFFICES ASSUME NEW u \in 0 .. k + 1, u <= m, u <= n PROVE f[u] = g[u]
    OBVIOUS
  <2>2. CASE u <= k
    BY <1>3, <2>1, <2>2
  <2>3. CASE u = k + 1
    <3>1. \A w \in 0 .. u - 1 : w <= m /\ w <= n => f[w] = g[w]
      BY <1>3, <2>3
    <3>2. QED
      BY <1>1, <2>1, <3>1
  <2>4. QED
    BY <2>1, <2>2, <2>3
<1> HIDE DEF T
<1>4. v \in T
  BY <1>2, <1>3, Induct
<1>5. QED
  BY <1>4 DEF T

LEMMA DigitsReversedRule ==
  DigitsReversed = [v \in Nat |-> BackwardRule(DigitsReversed, v)]
<1> DEFINE F(m) == CHOOSE f : Backward(m, f)
           g == [v \in Nat |-> F(v)[v]]
<1>1. ASSUME NEW m \in Nat PROVE Backward(m, F(m))
  BY BackwardExists
<1> HIDE DEF F
<1>2. ASSUME NEW v \in Nat PROVE g[v] = BackwardRule(g, v)
  <2>1. v \in 0 .. v
    OBVIOUS
  <2>2. F(v)[v] = BackwardRule(F(v), v)
    BY <1>1, <2>1 DEF Backward
  <2> DEFINE d == v \div 10
  <2>3. d \in Nat /\ d <= v
    BY TenthIs
  <2> HIDE DEF d
  <2>4. F(v)[d] = F(d)[d]
    <3>1. Backward(v, F(v)) /\ Backward(d, F(d)) /\ d <= d
      BY <1>1, <2>3
    <3>2. QED
      BY <2>3, <3>1, BackwardUnique
  <2>5. g[d] = F(v)[d]
    BY <2>3, <2>4
  <2>6. g[v] = F(v)[v]
    OBVIOUS
  <2> HIDE DEF g
  <2>7. BackwardRule(g, v) = BackwardRule(F(v), v)
    BY <2>5 DEF BackwardRule, d
  <2>8. QED
    BY <2>2, <2>6, <2>7
<1>3. g = [v \in Nat |-> g[v]]
  OBVIOUS
<1> HIDE DEF g
<1>4. g = [v \in Nat |-> BackwardRule(g, v)]
  BY <1>2, <1>3
<1>5. QED
  BY <1>4 DEF DigitsReversed, BackwardRule

(* Turning round.                                                           *)
LEMMA ReverseFront ==
  ASSUME NEW s \in Seq(Byte), NEW x \in Byte
  PROVE  /\ Reverse(s) \in Seq(Byte)
         /\ Reverse(<<x>> \o s) = Append(Reverse(s), x)
         /\ Reverse(s \o <<x>>) = <<x>> \o Reverse(s)
<1> DEFINE z == <<x>>
           n == Len(s)
           r == Reverse(s)
           a == z \o s
           b == s \o z
           ra == Reverse(a)
           rb == Reverse(b)
           e == Append(r, x)
           f == z \o r
<1>1. z \in Seq(Byte) /\ Len(z) = 1 /\ z[1] = x /\ 1 \in 1 .. Len(z)
  OBVIOUS
<1>2. n \in Nat /\ \A i \in 1 .. n : s[i] \in Byte
  BY SequenceIs
<1>3. ASSUME NEW t \in Seq(Byte)
      PROVE  /\ Reverse(t) \in Seq(Byte) /\ Len(Reverse(t)) = Len(t)
             /\ \A i \in 1 .. Len(t) : Reverse(t)[i] = t[(Len(t) - i) + 1]
  <2>1. Len(t) \in Nat /\ \A i \in 1 .. Len(t) : t[i] \in Byte
    BY SequenceIs
  <2>2. \A i \in 1 .. Len(t) : (Len(t) - i) + 1 \in 1 .. Len(t)
    BY <2>1
  <2>3. Reverse(t) = [i \in 1 .. Len(t) |-> t[(Len(t) - i) + 1]]
    BY DEF Reverse
  <2>4. Reverse(t) \in [1 .. Len(t) -> Byte]
    BY <2>1, <2>2, <2>3
  <2>5. Reverse(t) \in Seq(Byte) /\ Len(Reverse(t)) = Len(t)
    BY ONLY <2>1, <2>4, FunctionIsSequence
  <2>6. QED
    BY <2>3, <2>5
<1> HIDE DEF z
<1>4. /\ a \in Seq(Byte) /\ Len(a) = n + 1 /\ a[1] = x /\ \A i \in 1 .. n : a[1 + i] = s[i]
  <2>1. /\ z \o s \in Seq(Byte) /\ Len(z \o s) = Len(z) + Len(s)
        /\ \A i \in 1 .. Len(z) : (z \o s)[i] = z[i]
        /\ \A i \in 1 .. Len(s) : (z \o s)[Len(z) + i] = s[i]
    BY ONLY <1>1, s \in Seq(Byte), ConcatFacts
  <2>2. QED
    BY <1>1, <1>2, <2>1
<1>5. /\ b \in Seq(Byte) /\ Len(b) = n + 1 /\ b[n + 1] = x /\ \A i \in 1 .. n : b[i] = s[i]
  <2>1. /\ s \o z \in Seq(Byte) /\ Len(s \o z) = Len(s) + Len(z)
        /\ \A i \in 1 .. Len(s) : (s \o z)[i] = s[i]
        /\ \A i \in 1 .. Len(z) : (s \o z)[Len(s) + i] = z[i]
    BY ONLY <1>1, s \in Seq(Byte), ConcatFacts
  <2>2. QED
    BY <1>1, <1>2, <2>1
<1>6. r \in Seq(Byte) /\ Len(r) = n /\ \A i \in 1 .. n : r[i] = s[(n - i) + 1]
  BY <1>3
<1> HIDE DEF r, a, b
<1>7. e \in Seq(Byte) /\ Len(e) = n + 1 /\ e[n + 1] = x /\ \A i \in 1 .. n : e[i] = r[i]
  BY <1>2, <1>6
<1>8. /\ f \in Seq(Byte) /\ Len(f) = n + 1 /\ f[1] = x /\ \A i \in 1 .. n : f[1 + i] = r[i]
  <2>1. /\ z \o r \in Seq(Byte) /\ Len(z \o r) = Len(z) + Len(r)
        /\ \A i \in 1 .. Len(z) : (z \o r)[i] = z[i]
        /\ \A i \in 1 .. Len(r) : (z \o r)[Len(z) + i] = r[i]
    <3>1. z \in Seq(Byte) /\ r \in Seq(Byte)
      BY <1>1, <1>6
    <3>2. QED
      BY ONLY <3>1, ConcatFacts
  <2>2. QED
    BY <1>1, <1>2, <1>6, <2>1
<1>9. /\ ra \in Seq(Byte) /\ Len(ra) = n + 1
      /\ \A i \in 1 .. n + 1 : ra[i] = a[((n + 1) - i) + 1]
  <2>1. /\ Reverse(a) \in Seq(Byte) /\ Len(Reverse(a)) = Len(a)
        /\ \A i \in 1 .. Len(a) : Reverse(a)[i] = a[(Len(a) - i) + 1]
    BY <1>3, <1>4
  <2>2. QED
    BY <1>4, <2>1
<1>10. /\ rb \in Seq(Byte) /\ Len(rb) = n + 1
       /\ \A i \in 1 .. n + 1 : rb[i] = b[((n + 1) - i) + 1]
  <2>1. /\ Reverse(b) \in Seq(Byte) /\ Len(Reverse(b)) = Len(b)
        /\ \A i \in 1 .. Len(b) : Reverse(b)[i] = b[(Len(b) - i) + 1]
    BY <1>3, <1>5
  <2>2. QED
    BY <1>5, <2>1
<1> HIDE DEF e, f, ra, rb
<1>11. ASSUME NEW i \in 1 .. n + 1 PROVE ra[i] = e[i]
  <2>1. CASE i = n + 1
    <3>1. ((n + 1) - i) + 1 = 1
      BY <1>2, <2>1
    <3>2. QED
      BY <1>4, <1>7, <1>9, <2>1, <3>1
  <2>2. CASE i # n + 1
    <3>1. i \in 1 .. n /\ (n - i) + 1 \in 1 .. n /\ ((n + 1) - i) + 1 = 1 + ((n - i) + 1)
      BY <1>2, <2>2
    <3>2. a[1 + ((n - i) + 1)] = s[(n - i) + 1]
      BY <1>4, <3>1
    <3>3. QED
      BY <1>6, <1>7, <1>9, <3>1, <3>2
  <2>3. QED
    BY <2>1, <2>2
<1>12. ASSUME NEW i \in 1 .. n + 1 PROVE rb[i] = f[i]
  <2>1. CASE i = 1
    <3>1. ((n + 1) - i) + 1 = n + 1
      BY <1>2, <2>1
    <3>2. QED
      BY <1>5, <1>8, <1>10, <2>1, <3>1
  <2>2. CASE i # 1
    <3> DEFINE j == i - 1
    <3>1. j \in 1 .. n /\ i = 1 + j
      BY <1>2, <2>2
    <3> HIDE DEF j
    <3>2. (n - j) + 1 \in 1 .. n /\ ((n + 1) - i) + 1 = (n - j) + 1
      BY <1>2, <3>1
    <3>3. f[1 + j] = r[j] /\ r[j] = s[(n - j) + 1]
      BY <1>6, <1>8, <3>1
    <3>4. rb[i] = b[(n - j) + 1] /\ b[(n - j) + 1] = s[(n - j) + 1]
      BY <1>5, <1>10, <3>2
    <3>5. QED
      BY <3>1, <3>3, <3>4
  <2>3. QED
    BY <2>1, <2>2
<1>13. ra = e
  BY ONLY <1>7, <1>9, <1>11, EqualSequences
<1>14. rb = f
  BY ONLY <1>8, <1>10, <1>12, EqualSequences
<1>15. QED
  BY <1>6, <1>13, <1>14 DEF ra, rb, a, b, e, f, r, z

LEMMA DigitsReversedAre ==
  ASSUME NEW v \in Nat
  PROVE  /\ DigitsReversed[v] = BackwardRule(DigitsReversed, v)
         /\ DigitsReversed[v] \in Seq(Byte)
<1> DEFINE f == DigitsReversed
           T == {k \in Nat : \A u \in 0 .. k : f[u] \in Seq(Byte)}
<1>1. f = [u \in Nat |-> BackwardRule(f, u)]
  BY DigitsReversedRule
<1> HIDE DEF f
<1>2. \A u \in Nat : f[u] = BackwardRule(f, u)
  BY <1>1
<1>3. ASSUME NEW u \in Nat, \A w \in 0 .. u - 1 : f[w] \in Seq(Byte)
      PROVE  f[u] \in Seq(Byte)
  <2> DEFINE d == u \div 10
             x == 48 + (u % 10)
             tail == IF d = 0 THEN <<>> ELSE f[d]
  <2>1. d \in Nat /\ (u # 0 => d < u) /\ (u = 0 => d = 0) /\ u % 10 \in 0 .. 9
    BY TenthIs
  <2>2. f[u] = <<x>> \o tail
    BY <1>2 DEF BackwardRule
  <2>3. x \in Byte
    <3> DEFINE y == u % 10
    <3>1. y \in 0 .. 9
      BY <2>1
    <3> HIDE DEF y
    <3>2. 48 + y \in 0 .. 255
      BY <3>1
    <3>3. QED
      BY <3>2 DEF y, Byte
  <2> HIDE DEF d, x
  <2>4. tail \in Seq(Byte)
    BY <1>3, <2>1
  <2> HIDE DEF tail
  <2>5. <<x>> \in Seq(Byte)
    BY <2>3
  <2>6. QED
    BY <2>2, <2>4, <2>5, ConcatFacts
<1>4. 0 \in T
  <2>1. \A u \in 0 .. 0 : f[u] \in Seq(Byte)
    BY <1>3
  <2>2. QED
    BY <2>1
<1>5. ASSUME NEW k \in Nat, k \in T PROVE k + 1 \in T
  <2>1. SUFFICES ASSUME NEW u \in 0 .. k + 1 PROVE f[u] \in Seq(Byte)
    OBVIOUS
  <2>2. CASE u <= k
    BY <1>5, <2>2
  <2>3. CASE u = k + 1
    <3>1. u \in Nat /\ \A w \in 0 .. u - 1 : f[w] \in Seq(Byte)
      BY <1>5, <2>3
    <3>2. QED
      BY <1>3, <3>1
  <2>4. QED
    BY <2>2, <2>3
<1> HIDE DEF T
<1>6. v \in T
  BY <1>4, <1>5, Induct
<1>7. f[v] \in Seq(Byte)
  BY <1>6 DEF T
<1>8. QED
  BY <1>2, <1>7 DEF f

ForwardRule(f, n) == IF n < 10 THEN <<48 + n>> ELSE Append(f[n \div 10], 48 + (n % 10))

LEMMA DigitsAre ==
  ASSUME NEW n \in Nat
  PROVE  Digits[n] = Reverse(DigitsReversed[n]) /\ Digits[n] \in Seq(Byte)
<1> DEFINE r == DigitsReversed
           g == [u \in Nat |-> Reverse(r[u])]
           f == Digits
<1>1. \A u \in Nat : r[u] = BackwardRule(r, u) /\ r[u] \in Seq(Byte)
  BY DigitsReversedAre
<1> HIDE DEF r
<1>2. ASSUME NEW u \in Nat PROVE Reverse(r[u]) = ForwardRule(g, u)
  <2> DEFINE d == u \div 10
             y == u % 10
             x == 48 + y
  <2>1. d \in Nat /\ y \in 0 .. 9 /\ (u < 10 => d = 0 /\ y = u) /\ (u >= 10 => d # 0)
    BY TenthIs
  <2>2. r[u] = <<x>> \o (IF d = 0 THEN <<>> ELSE r[d])
    BY <1>1 DEF BackwardRule
  <2>3. ForwardRule(g, u) = IF u < 10 THEN <<48 + u>> ELSE Append(g[d], x)
    BY DEF ForwardRule
  <2> HIDE DEF d, y, g
  <2>4. x \in Byte
    BY <2>1 DEF Byte
  <2> HIDE DEF x
  <2>5. CASE u < 10
    <3>1. r[u] = <<x>> \o <<>> /\ x = 48 + u
      BY <2>1, <2>2, <2>5 DEF x
    <3>2. <<>> \in Seq(Byte) /\ Reverse(<<>>) = <<>>
      BY DEF Reverse
    <3>3. Reverse(r[u]) = Append(<<>>, x)
      BY <2>4, <3>1, <3>2, ReverseFront
    <3>4. QED
      BY <2>3, <2>5, <3>1, <3>3
  <2>6. CASE ~ (u < 10)
    <3>1. r[u] = <<x>> \o r[d] /\ r[d] \in Seq(Byte)
      BY <1>1, <2>1, <2>2, <2>6
    <3>2. Reverse(r[u]) = Append(Reverse(r[d]), x)
      BY <2>4, <3>1, ReverseFront
    <3>3. g[d] = Reverse(r[d])
      BY <2>1 DEF g
    <3>4. QED
      BY <2>3, <2>6, <3>2, <3>3
  <2>7. QED
    BY <2>5, <2>6
<1>3. g = [u \in Nat |-> ForwardRule(g, u)]
  <2>1. g = [u \in Nat |-> Reverse(r[u])]
    OBVIOUS
  <2> HIDE DEF g
  <2>2. QED
    BY <1>2, <2>1
<1>4. \A u \in Nat : g[u] = Reverse(r[u])
  OBVIOUS
<1> HIDE DEF g
<1>5. f = [u \in Nat |-> ForwardRule(f, u)]
  BY <1>3 DEF Digits, ForwardRule
<1> HIDE DEF f
<1>6. \A u \in Nat : f[u] = ForwardRule(f, u) /\ g[u] = ForwardRule(g, u)
  BY <1>3, <1>5
<1> DEFINE T == {k \in Nat : \A u \in 0 .. k : f[u] = g[u]}
<1>7. ASSUME NEW u \in Nat, \A w \in 0 .. u - 1 : f[w] = g[w] PROVE f[u] = g[u]
  <2> DEFINE d == u \div 10
  <2>1. d \in Nat /\ (u # 0 => d < u)
    BY TenthIs
  <2>2. f[u] = IF u < 10 THEN <<48 + u>> ELSE Append(f[d], 48 + (u % 10))
    BY <1>6 DEF ForwardRule
  <2>3. g[u] = IF u < 10 THEN <<48 + u>> ELSE Append(g[d], 48 + (u % 10))
    BY <1>6 DEF ForwardRule
  <2> HIDE DEF d
  <2>4. ~ (u < 10) => f[d] = g[d]
    BY <1>7, <2>1
  <2>5. QED
    BY <2>2, <2>3, <2>4
<1>8. 0 \in T
  <2>1. \A u \in 0 .. 0 : f[u] = g[u]
    BY <1>7
  <2>2. QED
    BY <2>1
<1>9. ASSUME NEW k \in Nat, k \in T PROVE k + 1 \in T
  <2>1. SUFFICES ASSUME NEW u \in 0 .. k + 1 PROVE f[u] = g[u]
    OBVIOUS
  <2>2. CASE u <= k
    BY <1>9, <2>2
  <2>3. CASE u = k + 1
    <3>1. u \in Nat /\ \A w \in 0 .. u - 1 : f[w] = g[w]
      BY <1>9, <2>3
    <3>2. QED
      BY <1>7, <3>1
  <2>4. QED
    BY <2>2, <2>3
<1> HIDE DEF T
<1>10. n \in T
  BY <1>8, <1>9, Induct
<1>11. f[n] = g[n]
  BY <1>10 DEF T
<1>12. Reverse(r[n]) \in Seq(Byte)
  <2>1. 0 \in Byte /\ r[n] \in Seq(Byte)
    BY <1>1 DEF Byte
  <2>2. QED
    BY <2>1, ReverseFront
<1>13. QED
  BY <1>4, <1>11, <1>12 DEF f, r

(* sdsll2str makes what printf would.                                       *)
LEMMA Sdsll2strIs ==
  ASSUME NEW value \in Int
  PROVE  sdsll2str(value) = Printed(value) /\ sdsll2str(value) \in Seq(Byte)
<1> DEFINE v == IF value < 0 THEN -value ELSE value
           s == DigitsReversed[v]
<1>1. v \in Nat
  OBVIOUS
<1>2. s \in Seq(Byte) /\ Digits[v] = Reverse(s) /\ Digits[v] \in Seq(Byte)
  BY <1>1, DigitsReversedAre, DigitsAre
<1>3. MINUS = 45 /\ 45 \in Byte
  BY DEF MINUS, Byte
<1>4. CASE value < 0
  <2>1. v = -value
    BY <1>4
  <2>2. sdsll2str(value) = Reverse(s \o <<45>>)
    BY <1>3, <1>4 DEF sdsll2str
  <2>3. Printed(value) = <<45>> \o Digits[v]
    BY <1>4, <2>1 DEF Printed
  <2> HIDE DEF s, v
  <2>4. Reverse(s \o <<45>>) = <<45>> \o Reverse(s)
    BY <1>2, <1>3, ReverseFront
  <2>5. <<45>> \in Seq(Byte)
    BY <1>3
  <2>6. <<45>> \o Digits[v] \in Seq(Byte)
    BY <1>2, <2>5, ConcatFacts
  <2>7. QED
    BY <1>2, <2>2, <2>3, <2>4, <2>6
<1>5. CASE ~ (value < 0)
  <2>1. v = value
    BY <1>5
  <2>2. sdsll2str(value) = Reverse(s \o <<>>)
    BY <1>5 DEF sdsll2str
  <2>3. Printed(value) = Digits[v]
    BY <1>5, <2>1 DEF Printed
  <2> HIDE DEF s, v
  <2>4. s \o <<>> = s
    BY <1>2
  <2>5. QED
    BY <1>2, <2>2, <2>3, <2>4
<1>6. QED
  BY <1>4, <1>5

-------------------------------------------------------------------------------
(* sdscatfmt: piece after piece.                                            *)
LEMMA AppendedIs ==
  ASSUME NEW t \in Seq(Byte), NEW h, Keeping(h, t), NEW a \in Seq(Byte)
  PROVE  Keeping(Appended(h, a), t \o a)
<1> DEFINE q == sdsMakeRoomFor(h, 1)
           r == sdsMakeRoomFor(q, Len(a))
           b == Written(r.buf, Len(t), a)
           f == r.free - Len(a)
           n == Len(t) + Len(a)
           u == t \o a
<1>0. Len(a) \in Nat /\ Len(t) \in Nat /\ 1 \in Nat
  OBVIOUS
<1>1. Keeping(q, t)
  BY <1>0, RoomIs
<1> HIDE DEF q
<1>2. Keeping(r, t) /\ r.free >= Len(a)
  BY <1>0, <1>1, RoomIs
<1> HIDE DEF r
<1>3. /\ r \in Headers /\ r.len = Len(t) /\ r.free \in Nat
      /\ r.buf \in Seq(Cell) /\ Len(r.buf) = Len(t) + r.free + 1
      /\ \A i \in 1 .. Len(t) : r.buf[i] = t[i]
  BY <1>2, KeepingIs
<1>4. Appended(h, a) = Header(n, f, b)
  BY <1>3 DEF Appended, Header, r, q
<1> DEFINE c == r.buf
<1>5. /\ c \in Seq(Cell) /\ Len(t) \in Nat /\ a \in Seq(Cell) /\ Len(t) + Len(a) <= Len(c)
      /\ Len(c) = Len(t) + r.free + 1
      /\ \A i \in 1 .. Len(t) : c[i] = t[i]
  BY <1>0, <1>2, <1>3, ByteCells
<1>6. b = Written(c, Len(t), a)
  OBVIOUS
<1> HIDE DEF c, b
<1>7. /\ b \in Seq(Cell) /\ Len(b) = Len(c)
      /\ \A i \in 1 .. Len(a) : b[Len(t) + i] = a[i]
      /\ \A i \in 1 .. Len(c) : i <= Len(t) \/ i > Len(t) + Len(a) => b[i] = c[i]
  <2>1. /\ Written(c, Len(t), a) \in Seq(Cell) /\ Len(Written(c, Len(t), a)) = Len(c)
        /\ \A i \in 1 .. Len(a) : Written(c, Len(t), a)[Len(t) + i] = a[i]
        /\ \A i \in 1 .. Len(c) : i <= Len(t) \/ i > Len(t) + Len(a)
                                  => Written(c, Len(t), a)[i] = c[i]
    BY ONLY <1>5, WrittenIs
  <2>2. QED
    BY <1>6, <2>1
<1> HIDE DEF u
<1>8. /\ u \in Seq(Byte) /\ Len(u) = Len(t) + Len(a)
      /\ \A i \in 1 .. Len(t) : u[i] = t[i]
      /\ \A i \in 1 .. Len(a) : u[Len(t) + i] = a[i]
      /\ \A i \in 1 .. Len(u) :
           i \in 1 .. Len(t) \/ (i - Len(t) \in 1 .. Len(a) /\ i = Len(t) + (i - Len(t)))
  BY JoinedIs DEF u
<1>9. ASSUME NEW i \in 1 .. Len(u) PROVE b[i] = u[i]
  <2>1. CASE i \in 1 .. Len(t)
    <3>1. i \in 1 .. Len(c) /\ i <= Len(t)
      BY <1>0, <1>5, <2>1
    <3>2. QED
      BY <1>5, <1>7, <1>8, <2>1, <3>1
  <2>2. CASE i \notin 1 .. Len(t)
    <3>1. i - Len(t) \in 1 .. Len(a) /\ i = Len(t) + (i - Len(t))
      BY <1>8, <2>2
    <3>2. b[Len(t) + (i - Len(t))] = a[i - Len(t)] /\ u[Len(t) + (i - Len(t))] = a[i - Len(t)]
      BY <1>7, <1>8, <3>1
    <3>3. QED
      BY <3>1, <3>2
  <2>3. QED
    BY <2>1, <2>2
<1>10. f \in Nat /\ n = Len(u) /\ Len(b) = n + f + 1
  BY <1>0, <1>2, <1>3, <1>5, <1>7, <1>8
<1> HIDE DEF f, n
<1>11. Keeping(Header(n, f, b), u)
  BY <1>7, <1>8, <1>9, <1>10, HeaderKeeps
<1>12. QED
  BY <1>4, <1>11 DEF u

LEMMA PieceIs ==
  ASSUME NEW f, NEW args, IsFormat(f, args), NEW p \in DOMAIN f
  PROVE  Piece(f, args, p) \in Seq(Byte)
<1>1. f[p] \in Byte
  BY DEF IsFormat
<1>2. p \in Letters(f) => /\ f[p] \in {Letter("s"), 83} => args[p] \in Seq(Byte)
                          /\ f[p] \in {105, 73} => args[p] \in Int
                          /\ f[p] \in {117, 85} => args[p] \in Nat
  BY DEF IsFormat
<1>3. <<>> \in Seq(Byte) /\ <<f[p]>> \in Seq(Byte)
  BY <1>1
<1>4. ASSUME p \in Letters(f), f[p] \in {105, 73, 117, 85} PROVE sdsll2str(args[p]) \in Seq(Byte)
  <2>1. args[p] \in Int
    BY <1>2, <1>4
  <2>2. QED
    BY <2>1, Sdsll2strIs
<1>5. ASSUME p \in Letters(f), f[p] = Letter("s") PROVE CStr(args[p]) \in Seq(Byte)
  BY <1>2, <1>5, CStrIs
<1>6. ASSUME p \in Letters(f), f[p] = 83 PROVE args[p] \in Seq(Byte)
  BY <1>2, <1>6
<1>7. QED
  BY <1>3, <1>4, <1>5, <1>6 DEF Piece

(* The recursive function of sdscatfmt.                                     *)
StepRule(h, f, args, r, p) == IF p = 0 THEN h ELSE Appended(r[p - 1], Piece(f, args, p))
Stepping(h, f, args, m, r) == r = [p \in 0 .. m |-> StepRule(h, f, args, r, p)]

LEMMA SteppingExists ==
  ASSUME NEW h, NEW f, NEW args, NEW m \in Nat
  PROVE  \E r : Stepping(h, f, args, m, r)
<1> DEFINE T == {k \in Nat : \E r : Stepping(h, f, args, k, r)}
<1>1. 0 \in T
  <2> DEFINE g == [p \in 0 .. 0 |-> h]
  <2>1. g = [p \in 0 .. 0 |-> StepRule(h, f, args, g, p)]
    BY DEF StepRule
  <2> HIDE DEF g
  <2>2. QED
    BY <2>1 DEF Stepping
<1>2. ASSUME NEW k \in Nat, k \in T PROVE k + 1 \in T
  <2>1. PICK r : Stepping(h, f, args, k, r)
    BY <1>2
  <2> DEFINE g == [p \in 0 .. k + 1 |-> IF p = k + 1 THEN StepRule(h, f, args, r, p) ELSE r[p]]
  <2>2. \A p \in 0 .. k : r[p] = StepRule(h, f, args, r, p) /\ p # k + 1 /\ p \in 0 .. k + 1
    BY <2>1 DEF Stepping
  <2>3. \A p \in 0 .. k + 1 : (p = k + 1 \/ p \in 0 .. k) /\ (p # 0 => p - 1 \in 0 .. k)
    OBVIOUS
  <2>4. \A p \in 0 .. k : g[p] = r[p]
    BY <2>2
  <2>5. \A p \in 0 .. k + 1 : g[p] = StepRule(h, f, args, r, p)
    BY <2>2, <2>3
  <2>6. g = [p \in 0 .. k + 1 |-> g[p]]
    OBVIOUS
  <2> HIDE DEF g
  <2>7. \A p \in 0 .. k + 1 : StepRule(h, f, args, g, p) = StepRule(h, f, args, r, p)
    BY <2>3, <2>4 DEF StepRule
  <2>8. g = [p \in 0 .. k + 1 |-> StepRule(h, f, args, g, p)]
    BY <2>5, <2>6, <2>7
  <2>9. QED
    BY <2>8 DEF Stepping
<1> HIDE DEF T
<1>3. m \in T
  BY <1>1, <1>2, Induct
<1>4. QED
  BY <1>3 DEF T

LEMMA CatfmtIs ==
  ASSUME NEW t \in Seq(Byte), NEW h, Keeping(h, t),
         NEW f, NEW args, IsFormat(f, args)
  PROVE  /\ FlattenSeq([p \in DOMAIN f |-> Piece(f, args, p)]) \in Seq(Byte)
         /\ Kept(sdscatfmt(h, f, args),
                 t \o FlattenSeq([p \in DOMAIN f |-> Piece(f, args, p)]))
<1> DEFINE m == Len(f)
           P == [p \in DOMAIN f |-> Piece(f, args, p)]
           upto == CHOOSE r : r = [p \in 0 .. m |-> StepRule(h, f, args, r, p)]
           w == FlattenSeq(P)
<1>1. f \in Seq(Byte) /\ m \in Nat /\ DOMAIN f = 1 .. m
  BY DEF IsFormat
<1>2. \A p \in 1 .. m : Piece(f, args, p) \in Seq(Byte)
  BY <1>1, PieceIs
<1>3. P \in Seq(Seq(Byte)) /\ Len(P) = m /\ \A p \in 1 .. m : P[p] = Piece(f, args, p)
  <2>1. P \in [1 .. m -> Seq(Byte)] /\ \A p \in 1 .. m : P[p] = Piece(f, args, p)
    BY <1>1, <1>2
  <2>2. QED
    BY ONLY <1>1, <2>1, FunctionIsSequence
<1> HIDE DEF P
<1>4. PICK F : Flattening(Byte, P, Len(P), F)
  BY <1>3, FlatteningExists
<1>5. /\ F \in [0 .. m -> Seq(Byte)] /\ F[0] = <<>>
      /\ \A i \in 1 .. m : F[i] = F[i - 1] \o P[i]
  BY <1>3, <1>4 DEF Flattening
<1>6. w = F[m] /\ w \in Seq(Byte)
  BY <1>3, <1>4, FlattenedBy
<1>7. upto = [p \in 0 .. m |-> StepRule(h, f, args, upto, p)]
  <2> HIDE DEF m
  <2>1. m \in Nat
    BY <1>1
  <2>2. \E r : Stepping(h, f, args, m, r)
    BY ONLY <2>1, SteppingExists
  <2>3. \E r : r = [p \in 0 .. m |-> StepRule(h, f, args, r, p)]
    BY ONLY <2>2 DEF Stepping
  <2>4. QED
    BY ONLY <2>3 DEF upto
<1>8. sdscatfmt(h, f, args) = [upto[m] EXCEPT !.buf = Written(@, upto[m].len, <<NUL>>)]
  BY DEF sdscatfmt, StepRule
<1> HIDE DEF upto, m, w
<1>9. \A p \in 0 .. m : upto[p] = StepRule(h, f, args, upto, p)
  BY <1>7
<1> DEFINE T == {k \in Nat : k <= m => Keeping(upto[k], t \o F[k])}
<1>10. 0 \in T
  <2>1. upto[0] = h /\ t \o F[0] = t
    BY <1>1, <1>5, <1>9 DEF StepRule
  <2>2. QED
    BY <2>1
<1>11. ASSUME NEW k \in Nat, k \in T PROVE k + 1 \in T
  <2>1. SUFFICES ASSUME k + 1 <= m PROVE Keeping(upto[k + 1], t \o F[k + 1])
    OBVIOUS
  <2>2. k + 1 \in 1 .. m /\ k + 1 \in 0 .. m /\ k + 1 # 0 /\ (k + 1) - 1 = k /\ k \in 0 .. m /\ k <= m
    BY <1>1, <2>1
  <2> DEFINE a == P[k + 1]
  <2>3. upto[k + 1] = Appended(upto[k], a)
    BY <1>3, <1>9, <2>2 DEF StepRule
  <2>4. F[k + 1] = F[k] \o a
    BY <1>5, <2>2
  <2>5. F[k] \in Seq(Byte) /\ a \in Seq(Byte)
    BY <1>2, <1>3, <1>5, <2>2
  <2> HIDE DEF a
  <2> DEFINE s == t \o F[k]
  <2>6. Keeping(upto[k], s) /\ s \in Seq(Byte)
    BY <1>11, <2>2, <2>5, ConcatFacts
  <2>7. t \o F[k + 1] = s \o a
    <3> DEFINE x == F[k]
    <3>1. t \in Seq(Byte) /\ x \in Seq(Byte) /\ a \in Seq(Byte)
      BY <2>5
    <3>2. F[k + 1] = x \o a /\ s = t \o x
      BY <2>4
    <3> HIDE DEF x, s
    <3>3. Associative(Seq(Byte))
      BY ConcatAssoc
    <3>4. (t \o x) \o a = t \o (x \o a)
      BY ONLY <3>1, <3>3 DEF Associative
    <3>5. QED
      BY ONLY <3>2, <3>4
  <2> HIDE DEF s
  <2>8. Keeping(Appended(upto[k], a), s \o a)
    BY <2>5, <2>6, AppendedIs
  <2>9. QED
    BY <2>3, <2>7, <2>8
<1> HIDE DEF T
<1>12. m \in T
  BY <1>1, <1>10, <1>11, Induct
<1> DEFINE r == upto[m]
           u == t \o w
           c == r.buf
           b == Written(c, r.len, <<NUL>>)
           g == [r EXCEPT !.buf = b]
<1>13. Keeping(r, u) /\ u \in Seq(Byte)
  <2>1. u \in Seq(Byte)
    BY <1>6, ConcatFacts
  <2>2. QED
    BY <1>1, <1>6, <1>12, <2>1 DEF T
<1> HIDE DEF r, u
<1>14. /\ r \in Headers /\ r.len = Len(u) /\ r.len \in Nat /\ r.free \in Nat
       /\ c \in Seq(Cell) /\ Len(c) = Len(u) + r.free + 1
       /\ \A i \in 1 .. Len(u) : c[i] = u[i]
  BY <1>13, KeepingIs
<1> HIDE DEF c
<1>15. b \in Seq(Cell) /\ Len(b) = Len(c) /\ b[Len(u) + 1] = NUL /\ \A i \in 1 .. Len(u) : b[i] = c[i]
  <2>1. r.len + 1 <= Len(c)
    BY <1>14
  <2>2. /\ b \in Seq(Cell) /\ Len(b) = Len(c) /\ b[r.len + 1] = NUL
        /\ \A i \in 1 .. r.len : b[i] = c[i]
    BY <1>14, <2>1, TerminatorWritten
  <2> HIDE DEF b
  <2>3. QED
    BY <1>14, <2>2
<1> HIDE DEF b
<1>16. g = Header(r.len, r.free, b)
  <2>1. Rewritten(r, b, g)
    BY DEF Rewritten
  <2>2. QED
    BY <1>14, <1>15, <2>1, RewrittenIs
<1>17. r.len = Len(u) /\ r.free \in Nat /\ Len(b) = Len(u) + r.free + 1 /\ \A i \in 1 .. Len(u) : b[i] = u[i]
  BY <1>14, <1>15
<1>18. Kept(Header(Len(u), r.free, b), u)
  BY ONLY <1>13, <1>15, <1>17, HeaderKeeps
<1>19. sdscatfmt(h, f, args) = g
  BY <1>8 DEF g, b, c, r
<1>20. Kept(sdscatfmt(h, f, args), u)
  BY <1>16, <1>17, <1>18, <1>19
<1>21. QED
  BY <1>6, <1>20 DEF u, w, P

-------------------------------------------------------------------------------
(* What ByteString says of the calls, in the operators the lemmas are about. *)

LEMMA SameOperators ==
  /\ \A s : Bytes!CString(s) = CString(s)
  /\ \A s, set : Bytes!Trimmed(s, set) = Trimmed(s, set)
  /\ \A s, i, j : Bytes!Ranged(s, i, j) = Ranged(s, i, j)
  /\ \A b : Bytes!LowerCase(b) = LowerCase(b) /\ Bytes!UpperCase(b) = UpperCase(b)
  /\ \A n : Bytes!Printed(n) = Printed(n)
  /\ \A s : Bytes!ToSet(s) = ToSet(s)
  /\ Bytes!NUL = NUL
<1>1. /\ \A U : Bytes!Min(U) = Min(U) /\ Bytes!Max(U) = Max(U)
      /\ \A s : Bytes!ToSet(s) = ToSet(s)
      /\ Bytes!NUL = NUL
  BY DEF Bytes!Min, Min, Bytes!Max, Max, Bytes!ToSet, ToSet, Bytes!NUL, NUL
<1>2. \A s : Bytes!CString(s) = CString(s)
  BY <1>1 DEF Bytes!CString, CString
<1>3. \A s, set : Bytes!Trimmed(s, set) = Trimmed(s, set)
  BY <1>1 DEF Bytes!Trimmed, Trimmed
<1>4. \A s, i : Bytes!Position(s, i) = Position(s, i)
  BY <1>1 DEF Bytes!Position, Position
<1>5. \A s, i, j : Bytes!Ranged(s, i, j) = Ranged(s, i, j)
  BY <1>1, <1>4 DEF Bytes!Ranged, Ranged
<1>6. \A b : Bytes!LowerCase(b) = LowerCase(b) /\ Bytes!UpperCase(b) = UpperCase(b)
  BY DEF Bytes!LowerCase, LowerCase, Bytes!UpperCase, UpperCase
<1>7. \A n : Bytes!Printed(n) = Printed(n)
  BY DEF Bytes!Printed, Printed, Bytes!Digits, Digits
<1>8. QED
  BY <1>1, <1>2, <1>3, <1>5, <1>6, <1>7

(* What the calls make of bytes are bytes.                                  *)
LEMMA SubSeqIs ==
  ASSUME NEW t \in Seq(Byte), NEW m \in Int, NEW n \in Int, m >= 1, n <= Len(t)
  PROVE  SubSeq(t, m, n) \in Seq(Byte)
OBVIOUS

LEMMA TrimmedIs ==
  ASSUME NEW t \in Seq(Byte), NEW set
  PROVE  Trimmed(t, set) \in Seq(Byte)
<1> DEFINE kept == {i \in DOMAIN t : t[i] \notin set \union {NUL}}
<1>1. CASE kept = {}
  BY <1>1 DEF Trimmed
<1>2. CASE kept # {}
  <2> DEFINE n == Len(t)
  <2>1. n \in Nat /\ kept \subseteq 1 .. n
    OBVIOUS
  <2>2. kept # {}
    BY <1>2
  <2>3. Trimmed(t, set) = SubSeq(t, Min(kept), Max(kept))
    BY <1>2 DEF Trimmed
  <2> HIDE DEF kept
  <2>4. kept \subseteq Nat /\ kept \subseteq -1 .. n /\ kept \subseteq Int
    BY <2>1
  <2>5. PICK least \in kept : \A k \in kept : least <= k
    BY ONLY <2>2, <2>4, Lowest
  <2>6. PICK greatest \in kept : \A k \in kept : k <= greatest
    BY ONLY <2>1, <2>2, <2>4, Highest
  <2>7. Min(kept) = least
    BY ONLY <2>4, <2>5, LeastIs
  <2>8. Max(kept) = greatest
    BY ONLY <2>4, <2>6, GreatestIs
  <2>9. least \in Int /\ greatest \in Int /\ least >= 1 /\ greatest <= n
    BY <2>1, <2>5, <2>6
  <2>10. SubSeq(t, least, greatest) \in Seq(Byte)
    BY <2>9, SubSeqIs
  <2>11. QED
    BY <2>3, <2>7, <2>8, <2>10
<1>3. QED
  BY <1>1, <1>2

LEMMA RangedText ==
  ASSUME NEW t \in Seq(Byte), NEW i \in Int, NEW j \in Int
  PROVE  Ranged(t, i, j) \in Seq(Byte)
<1> DEFINE m == Position(t, i)
           p == Position(t, j)
           n == Min({Len(t), p})
<1>1. m \in Int /\ m >= 1 /\ p \in Int
  <2>1. \A k \in Int : Position(t, k) \in Int /\ Position(t, k) >= 1
    <3>1. SUFFICES ASSUME NEW k \in Int
                   PROVE  Position(t, k) \in Int /\ Position(t, k) >= 1
      OBVIOUS
    <3> DEFINE x == Len(t) + k + 1
    <3>2. x \in Int /\ 1 \in Int
      OBVIOUS
    <3>3. Position(t, k) = IF k >= 0 THEN k + 1 ELSE Max({1, x})
      BY DEF Position
    <3> HIDE DEF x
    <3>4. Max({1, x}) \in Int /\ Max({1, x}) >= 1
      BY ONLY <3>2, Larger
    <3>5. QED
      BY <3>3, <3>4
  <2>2. QED
    BY <2>1
<1> HIDE DEF m, p
<1>2. n \in Int /\ n <= Len(t)
  BY <1>1, Smaller
<1> HIDE DEF n
<1>3. SubSeq(t, m, n) \in Seq(Byte)
  BY <1>1, <1>2, SubSeqIs
<1>4. QED
  BY <1>3 DEF Ranged, m, n, p

LEMMA CStringIs ==
  ASSUME NEW t \in Seq(Byte)
  PROVE  CString(t) \in Seq(Byte)
BY CStrIs

LEMMA CaseText ==
  ASSUME NEW t \in Seq(Byte), NEW x \in Byte, NEW y \in Byte
  PROVE  /\ [i \in DOMAIN t |-> LowerCase(t[i])] \in Seq(Byte)
         /\ [i \in DOMAIN t |-> UpperCase(t[i])] \in Seq(Byte)
         /\ [i \in DOMAIN t |-> IF t[i] = x THEN y ELSE t[i]] \in Seq(Byte)
<1>1. Len(t) \in Nat /\ DOMAIN t = 1 .. Len(t) /\ \A i \in 1 .. Len(t) : t[i] \in Byte
  BY SequenceIs
<1>2. \A b \in Byte : LowerCase(b) \in Byte /\ UpperCase(b) \in Byte
  BY DEF LowerCase, UpperCase, Byte
<1>3. /\ [i \in DOMAIN t |-> LowerCase(t[i])] \in [1 .. Len(t) -> Byte]
      /\ [i \in DOMAIN t |-> UpperCase(t[i])] \in [1 .. Len(t) -> Byte]
      /\ [i \in DOMAIN t |-> IF t[i] = x THEN y ELSE t[i]] \in [1 .. Len(t) -> Byte]
  BY <1>1, <1>2
<1>4. QED
  BY <1>1, <1>3, FunctionIsSequence

(* The text of a string; a freed one has none.                              *)
Holds(h, t) == t \in Seq(Byte) /\ (Kept(h, t) \/ (h = sdsfree /\ t = <<>>))
\* The calls leave in the string what ByteString says, if it holds t before.
Does(t, c, h) == Holds(h, Bytes!After(c, t))
StringInv == \E t : Holds(sh, t)

LEMMA HoldsContent ==
  ASSUME NEW h, NEW t, Holds(h, t)
  PROVE  /\ Content(h) = t /\ t \in Seq(Byte)
         /\ (h.buf = <<>> <=> h = sdsfree)
         /\ h.buf # <<>> => Kept(h, t) /\ Keeping(h, t)
<1>1. CASE Kept(h, t)
  <2>1. Keeping(h, t) /\ t \in Seq(Byte)
    BY <1>1 DEF Kept, Holds
  <2>2. Content(h) = t
    BY <2>1, KeptContent
  <2>3. Len(h.buf) = Len(t) + h.free + 1 /\ h.free \in Nat /\ Len(t) \in Nat
    BY <2>1, KeepingIs
  <2>4. h.buf # <<>>
    BY <2>3
  <2>5. sdsfree.buf = <<>>
    BY DEF sdsfree
  <2>6. QED
    BY <1>1, <2>1, <2>2, <2>4, <2>5
<1>2. CASE h = sdsfree /\ t = <<>>
  <2>1. Content(h) = <<>> /\ h.buf = <<>>
    BY <1>2 DEF Content, sdsfree
  <2>2. QED
    BY <1>2, <2>1 DEF Holds
<1>3. QED
  BY <1>1, <1>2 DEF Holds

(* What a call leaves: the text its description stands for.                 *)
LEMMA MeantIs ==
  ASSUME NEW c, NEW t, NEW u \in Seq(Byte), NEW h, Kept(h, u), u = Bytes!After(c, t)
  PROVE  Does(t, c, h)
BY DEF Does, Holds

(* One lemma per action: what its call leaves in a string that holds t.     *)
LEMMA FreeDoes ==
  ASSUME NEW t
  PROVE  Does(t, <<"clear", <<>>, 0, 0>>, sdsfree)
<1>1. Bytes!After(<<"clear", <<>>, 0, 0>>, t) = <<>>
  BY SameOperators DEF Bytes!After
<1>2. <<>> \in Seq(Byte)
  OBVIOUS
<1>3. QED
  BY <1>1, <1>2 DEF Does, Holds

LEMMA NewDoes ==
  ASSUME NEW a \in Seq(Byte)
  PROVE  Does(<<>>, <<"new", a, 0, 0>>, sdsnewlen(a))
<1>1. Bytes!After(<<"new", a, 0, 0>>, <<>>) = a
  BY DEF Bytes!After
<1>2. QED
  BY <1>1, NewlenIs, MeantIs

LEMMA NumberDoes ==
  ASSUME NEW n \in Int
  PROVE  Does(<<>>, <<"catnumber", <<>>, n, 0>>, sdsnewlen(sdsll2str(n)))
<1> DEFINE u == sdsll2str(n)
<1>1. u = Printed(n) /\ u \in Seq(Byte)
  BY Sdsll2strIs
<1>2. Bytes!After(<<"catnumber", <<>>, n, 0>>, <<>>) = <<>> \o Printed(n)
  BY SameOperators DEF Bytes!After
<1> HIDE DEF u
<1>3. <<>> \o u = u
  BY <1>1
<1>4. Kept(sdsnewlen(u), u)
  BY <1>1, NewlenIs
<1>5. QED
  BY <1>1, <1>2, <1>3, <1>4, MeantIs DEF u

LEMMA DuplicateDoes ==
  ASSUME NEW t \in Seq(Byte), NEW h, Kept(h, t)
  PROVE  Does(t, <<"same", <<>>, 0, 0>>, sdsnewlen(Content(h)))
<1>1. Content(h) = t
  BY KeptContent DEF Kept
<1>2. Bytes!After(<<"same", <<>>, 0, 0>>, t) = t /\ Kept(sdsnewlen(t), t)
  BY NewlenIs DEF Bytes!After
<1>3. QED
  BY <1>1, <1>2, MeantIs

LEMMA UpdateLenDoes ==
  ASSUME NEW t \in Seq(Byte), NEW h, Keeping(h, t), NEW i \in 1 .. Len(t)
  PROVE  Does(t, <<"cut", <<>>, i, 0>>, sdsupdatelen([h EXCEPT !.buf = Written(@, i - 1, <<NUL>>)]))
<1> DEFINE u == CString([t EXCEPT ![i] = NUL])
           g == sdsupdatelen([h EXCEPT !.buf = Written(@, i - 1, <<NUL>>)])
<1>1. [t EXCEPT ![i] = NUL] \in Seq(Byte)
  BY ByteCells
<1>2. u \in Seq(Byte)
  BY <1>1, CStringIs
<1>3. Kept(g, u)
  BY UpdateLenIs
<1>4. Bytes!After(<<"cut", <<>>, i, 0>>, t) = u
  BY SameOperators DEF Bytes!After
<1> HIDE DEF u, g
<1>5. QED
  BY <1>2, <1>3, <1>4, MeantIs DEF g

LEMMA ClearDoes ==
  ASSUME NEW t \in Seq(Byte), NEW h, Keeping(h, t)
  PROVE  Does(t, <<"clear", <<>>, 0, 0>>, sdsclear(h))
<1>1. Bytes!After(<<"clear", <<>>, 0, 0>>, t) = <<>> /\ <<>> \in Seq(Byte)
  BY SameOperators DEF Bytes!After
<1>2. QED
  BY <1>1, ClearIs, MeantIs

LEMMA RoomDoes ==
  ASSUME NEW t \in Seq(Byte), NEW h, Kept(h, t), NEW n \in Nat
  PROVE  /\ Does(t, <<"same", <<>>, 0, 0>>, sdsMakeRoomFor(h, n))
         /\ Does(t, <<"same", <<>>, 0, 0>>, sdsRemoveFreeSpace(h))
<1>1. Bytes!After(<<"same", <<>>, 0, 0>>, t) = t
  BY SameOperators DEF Bytes!After
<1>2. Kept(sdsMakeRoomFor(h, n), t)
  BY RoomIs DEF Kept
<1>3. Kept(sdsRemoveFreeSpace(h), t)
  BY RemoveFreeSpaceIs
<1>4. QED
  BY <1>1, <1>2, <1>3, MeantIs

LEMMA CatDoes ==
  ASSUME NEW t \in Seq(Byte), NEW h, Keeping(h, t), NEW a \in Seq(Byte)
  PROVE  /\ Does(t, <<"cat", a, 0, 0>>, sdscatlen(h, a))
         /\ Does(t, <<"catstring", a, 0, 0>>, sdscat(h, a))
         /\ Does(t, <<"catstring", a, 0, 0>>, sdscatprintf(h, 2, a))
         /\ Does(t, <<"copy", a, 0, 0>>, sdscpylen(h, a))
<1> DEFINE c == CString(a)
<1>1. c \in Seq(Byte)
  BY CStringIs
<1>2. t \o a \in Seq(Byte) /\ t \o c \in Seq(Byte)
  BY <1>1, ConcatFacts
<1>3. /\ Bytes!After(<<"cat", a, 0, 0>>, t) = t \o a
      /\ Bytes!After(<<"catstring", a, 0, 0>>, t) = t \o c
      /\ Bytes!After(<<"copy", a, 0, 0>>, t) = a
  BY SameOperators DEF Bytes!After
<1>4. /\ Kept(sdscatlen(h, a), t \o a)
      /\ Kept(sdscat(h, a), t \o c)
      /\ Kept(sdscatprintf(h, 2, a), t \o c)
      /\ Kept(sdscpylen(h, a), a)
  BY CatlenIs, CatIs, CatprintfIs, CpylenIs
<1> HIDE DEF c
<1>5. QED
  BY <1>2, <1>3, <1>4, MeantIs

LEMMA WriteInPlaceDoes ==
  ASSUME NEW t \in Seq(Byte), NEW h, Keeping(h, t), NEW a \in Seq(Byte), NEW r,
         r = sdsMakeRoomFor(h, Len(a))
  PROVE  Does(t, <<"cat", a, 0, 0>>, sdsIncrLen([r EXCEPT !.buf = Written(@, r.len, a)], Len(a)))
<1> DEFINE g == sdsIncrLen([r EXCEPT !.buf = Written(@, r.len, a)], Len(a))
<1>1. Bytes!After(<<"cat", a, 0, 0>>, t) = t \o a /\ t \o a \in Seq(Byte)
  BY ConcatFacts DEF Bytes!After
<1>2. Kept(g, t \o a)
  BY WriteInPlaceIs
<1> HIDE DEF g
<1>3. QED
  BY <1>1, <1>2, MeantIs DEF g

LEMMA CutRightDoes ==
  ASSUME NEW t \in Seq(Byte), NEW h, Keeping(h, t), NEW n \in 1 .. h.len
  PROVE  Does(t, <<"shorten", <<>>, n, 0>>, sdsIncrLen(h, -n))
<1> DEFINE m == Len(t) - n
           u == SubSeq(t, 1, m)
<1>1. h.len = Len(t) /\ Len(t) \in Nat
  BY KeepingIs
<1>2. m \in Nat /\ m <= Len(t)
  BY <1>1
<1>3. u \in Seq(Byte)
  BY <1>2, PartIs
<1>4. Kept(sdsIncrLen(h, -n), u)
  BY CutRightIs
<1>5. Bytes!After(<<"shorten", <<>>, n, 0>>, t) = u
  BY SameOperators DEF Bytes!After
<1> HIDE DEF u
<1>6. QED
  BY <1>3, <1>4, <1>5, MeantIs

LEMMA GrowZeroDoes ==
  ASSUME NEW t \in Seq(Byte), NEW h, Kept(h, t), NEW n \in Int
  PROVE  Does(t, <<"growzero", <<>>, n, 0>>, sdsgrowzero(h, n))
<1> DEFINE z == Zeros(n - Len(t))
<1>1. n - Len(t) \in Int
  OBVIOUS
<1>2. z \in Seq(Byte)
  BY <1>1, ZerosAre
<1>3. Kept(sdsgrowzero(h, n), t \o z)
  BY GrowzeroIs
<1>4. Bytes!After(<<"growzero", <<>>, n, 0>>, t) = t \o z
  BY SameOperators DEF Bytes!After, Zeros
<1> HIDE DEF z
<1>5. t \o z \in Seq(Byte)
  BY <1>2, ConcatFacts
<1>6. QED
  BY <1>3, <1>4, <1>5, MeantIs

LEMMA CatFmtDoes ==
  ASSUME NEW t \in Seq(Byte), NEW h, Keeping(h, t), NEW f \in Formats
  PROVE  Does(t, <<"cat", f[3], 0, 0>>, sdscatfmt(h, f[1], f[2]))
<1> DEFINE w == FlattenSeq([p \in DOMAIN f[1] |-> Piece(f[1], f[2], p)])
<1>1. IsFormat(f[1], f[2]) /\ f[3] = w
  BY SdsAssumption
<1>2. w \in Seq(Byte) /\ Kept(sdscatfmt(h, f[1], f[2]), t \o w)
  BY <1>1, CatfmtIs
<1> HIDE DEF w
<1>3. Bytes!After(<<"cat", f[3], 0, 0>>, t) = t \o w /\ t \o w \in Seq(Byte)
  BY <1>1, <1>2, ConcatFacts DEF Bytes!After
<1>4. QED
  BY <1>2, <1>3, MeantIs

LEMMA TrimDoes ==
  ASSUME NEW t \in Seq(Byte), NEW h, Keeping(h, t), NEW a \in Seq(Byte)
  PROVE  Does(t, <<"trim", CStr(a), 0, 0>>, sdstrim(h, a))
<1> DEFINE u == Trimmed(t, ToSet(CStr(a)))
<1>1. u \in Seq(Byte)
  BY TrimmedIs
<1>2. Kept(sdstrim(h, a), u)
  BY TrimIs
<1>3. Bytes!After(<<"trim", CStr(a), 0, 0>>, t) = u
  BY SameOperators DEF Bytes!After
<1> HIDE DEF u
<1>4. QED
  BY <1>1, <1>2, <1>3, MeantIs

LEMMA RangeDoes ==
  ASSUME NEW t \in Seq(Byte), NEW h, Kept(h, t), NEW i \in Int, NEW j \in Int
  PROVE  Does(t, <<"range", <<>>, i, j>>, sdsrange(h, i, j))
<1> DEFINE u == Ranged(t, i, j)
<1>1. u \in Seq(Byte)
  BY RangedText
<1>2. Kept(sdsrange(h, i, j), u)
  BY RangedIs
<1>3. Bytes!After(<<"range", <<>>, i, j>>, t) = u
  BY SameOperators DEF Bytes!After
<1> HIDE DEF u
<1>4. QED
  BY <1>1, <1>2, <1>3, MeantIs

LEMMA BytewiseDoes ==
  ASSUME NEW t \in Seq(Byte), NEW h, Kept(h, t), NEW x \in Byte, NEW y \in Byte
  PROVE  /\ Does(t, <<"lower", <<>>, 0, 0>>, sdstolower(h))
         /\ Does(t, <<"upper", <<>>, 0, 0>>, sdstoupper(h))
         /\ Does(t, <<"map", <<>>, x, y>>, sdsmapchars(h, <<x, x>>, <<y, 0>>))
<1> DEFINE a == [i \in DOMAIN t |-> LowerCase(t[i])]
           b == [i \in DOMAIN t |-> UpperCase(t[i])]
           c == [i \in DOMAIN t |-> IF t[i] = x THEN y ELSE t[i]]
<1>1. a \in Seq(Byte) /\ b \in Seq(Byte) /\ c \in Seq(Byte)
  BY CaseText
<1>2. Kept(sdstolower(h), a) /\ Kept(sdstoupper(h), b)
  BY CaseIs
<1>3. Kept(sdsmapchars(h, <<x, x>>, <<y, 0>>), c)
  BY MapcharsIs
<1>4. /\ Bytes!After(<<"lower", <<>>, 0, 0>>, t) = a
      /\ Bytes!After(<<"upper", <<>>, 0, 0>>, t) = b
      /\ Bytes!After(<<"map", <<>>, x, y>>, t) = c
  BY SameOperators DEF Bytes!After
<1> HIDE DEF a, b, c
<1>5. QED
  BY <1>1, <1>2, <1>3, <1>4, MeantIs

-------------------------------------------------------------------------------
(* The invariant and the refinement.                                        *)

LEMMA StringsHold ==
  ASSUME SdsInit
  PROVE  StringInv /\ call[1] = "new" /\ Content(sh) = call[2]
<1>1. PICK t \in Texts : sh = sdsnewlen(t) /\ call = <<"new", t, 0, 0>>
  BY DEF SdsInit
<1>2. t \in Seq(Byte)
  BY SdsAssumption
<1>3. Holds(sh, t)
  BY <1>1, <1>2, NewlenIs DEF Holds
<1>4. Content(sh) = t
  BY <1>3, HoldsContent
<1>5. QED
  BY <1>1, <1>3, <1>4 DEF StringInv

LEMMA StepDoes ==
  ASSUME NEW t, Holds(sh, t), SdsNext
  PROVE  Does(t, call', sh')
<1>1. /\ t \in Seq(Byte) /\ Content(sh) = t
      /\ sh.buf # <<>> => Kept(sh, t) /\ Keeping(sh, t)
      /\ sh.buf = <<>> => t = <<>>
  <2>1. sh = sdsfree => Content(sh) = <<>>
    BY DEF sdsfree, Content
  <2>2. QED
    BY <2>1, HoldsContent
<1>2. /\ Args \subseteq Seq(Byte) /\ Numbers \subseteq Int
  BY SdsAssumption
<1>3. InUse => Kept(sh, t) /\ Keeping(sh, t)
  BY <1>1 DEF InUse
<1>4. DOMAIN t = 1 .. Len(t)
  BY <1>1
<1>5. CASE Free
  BY <1>5, FreeDoes DEF Free, Makes
<1>6. CASE New
  <2>1. t = <<>>
    BY <1>1, <1>6 DEF New
  <2>2. CASE \E a \in Args : Makes("new", a, 0, 0, sdsnewlen(a))
    BY <1>2, <2>1, <2>2, NewDoes DEF Makes
  <2>3. CASE \E n \in Numbers : n >= 0 /\ Makes("new", Zeros(n), 0, 0, sdsnewlen(Zeros(n)))
    BY <1>2, <2>1, <2>3, NewDoes, ZerosAre DEF Makes
  <2>4. CASE \E n \in Numbers : Makes("catnumber", <<>>, n, 0, sdsnewlen(sdsll2str(n)))
    BY <1>2, <2>1, <2>4, NumberDoes DEF Makes
  <2>5. QED
    BY <1>6, <2>2, <2>3, <2>4 DEF New
<1>7. CASE Duplicate
  BY <1>1, <1>3, <1>7, DuplicateDoes DEF Duplicate, Makes
<1>8. CASE UpdateLen
  BY <1>1, <1>3, <1>4, <1>8, UpdateLenDoes DEF UpdateLen, Makes
<1>9. CASE Clear
  BY <1>1, <1>3, <1>9, ClearDoes DEF Clear, Makes
<1>10. CASE MakeRoomFor
  <2>1. PICK n \in Numbers : n > 0 /\ Makes("same", <<>>, 0, 0, sdsMakeRoomFor(sh, n))
    BY <1>10 DEF MakeRoomFor
  <2>2. n \in Nat /\ Kept(sh, t)
    BY <1>2, <1>3, <1>10, <2>1 DEF MakeRoomFor
  <2>3. QED
    BY <1>1, <2>1, <2>2, RoomDoes DEF Makes
<1>11. CASE RemoveFreeSpace
  <2>1. Kept(sh, t) /\ 0 \in Nat
    BY <1>3, <1>11 DEF RemoveFreeSpace
  <2>2. QED
    BY <1>1, <1>11, <2>1, RoomDoes DEF RemoveFreeSpace, Makes
<1>12. CASE WriteInPlace
  BY <1>1, <1>2, <1>3, <1>12, WriteInPlaceDoes DEF WriteInPlace, Makes
<1>13. CASE CutRight
  BY <1>1, <1>3, <1>13, CutRightDoes DEF CutRight, Makes
<1>14. CASE GrowZero
  BY <1>1, <1>2, <1>3, <1>14, GrowZeroDoes DEF GrowZero, Makes
<1>15. CASE CatLen
  BY <1>1, <1>2, <1>3, <1>15, CatDoes DEF CatLen, Makes
<1>16. CASE Cat
  BY <1>1, <1>2, <1>3, <1>16, CatDoes DEF Cat, Makes
<1>17. CASE CpyLen
  BY <1>1, <1>2, <1>3, <1>17, CatDoes DEF CpyLen, Makes
<1>18. CASE CatPrintf
  BY <1>1, <1>2, <1>3, <1>18, CatDoes DEF CatPrintf, Makes
<1>19. CASE CatFmt
  BY <1>1, <1>3, <1>19, CatFmtDoes DEF CatFmt, Makes
<1>20. CASE Trim
  BY <1>1, <1>2, <1>3, <1>20, TrimDoes DEF Trim, Makes
<1>21. CASE Range_
  BY <1>1, <1>2, <1>3, <1>21, RangeDoes DEF Range_, Makes
<1>22. CASE ToLower
  BY <1>1, <1>3, <1>22, BytewiseDoes, ByteCells DEF ToLower, Makes
<1>23. CASE ToUpper
  BY <1>1, <1>3, <1>23, BytewiseDoes, ByteCells DEF ToUpper, Makes
<1>24. CASE MapChars
  <2>1. PICK a \in Args : Len(a) = 2
                          /\ Makes("map", <<>>, a[1], a[2], sdsmapchars(sh, <<a[1], a[1]>>, <<a[2], 0>>))
    BY <1>24 DEF MapChars
  <2>2. a[1] \in Byte /\ a[2] \in Byte
    <3>1. a \in Seq(Byte) /\ Len(a) = 2
      BY <1>2, <2>1
    <3>2. \A i \in 1 .. 2 : a[i] \in Byte
      BY ONLY <3>1, SequenceIs
    <3>3. QED
      BY ONLY <3>2
  <2>3. Kept(sh, t)
    BY <1>3, <1>24 DEF MapChars
  <2>4. QED
    BY <1>1, <2>1, <2>2, <2>3, BytewiseDoes DEF Makes
<1>25. QED
  BY <1>5, <1>6, <1>7, <1>8, <1>9, <1>10, <1>11, <1>12, <1>13, <1>14, <1>15, <1>16, <1>17,
     <1>18, <1>19, <1>20, <1>21, <1>22, <1>23, <1>24 DEF SdsNext

LEMMA StringsStay ==
  ASSUME StringInv, [SdsNext]_sdsVars
  PROVE  StringInv' /\ [Bytes!StringNext]_<<Content(sh), call>>
<1>1. PICK t : Holds(sh, t)
  BY DEF StringInv
<1>2. Content(sh) = t
  BY <1>1, HoldsContent
<1>3. CASE SdsNext
  <2>1. Does(t, call', sh')
    BY <1>1, <1>3, StepDoes
  <2> DEFINE u == Bytes!After(call', t)
  <2>2. Holds(sh', u)
    BY <2>1 DEF Does
  <2> HIDE DEF u
  <2>3. Content(sh') = u
    BY <2>2, HoldsContent
  <2>4. Content(sh)' = Bytes!After(call', Content(sh))
    BY <1>2, <2>3 DEF u, Content
  <2>5. Bytes!StringNext
    BY <2>4 DEF Bytes!StringNext
  <2>6. StringInv'
    BY <2>2 DEF StringInv, Holds, Kept, Keeping
  <2>7. QED
    BY <2>5, <2>6
<1>4. CASE UNCHANGED sdsVars
  <2>1. sh' = sh /\ call' = call
    BY <1>4 DEF sdsVars
  <2>2. Content(sh)' = Content(sh)
    BY <2>1 DEF Content
  <2>3. StringInv'
    BY <1>1, <2>1 DEF StringInv
  <2>4. QED
    BY <2>1, <2>2, <2>3
<1>5. QED
  BY <1>3, <1>4

(* A string in use keeps some bytes, and a freed one nothing.  SdsInv is not *)
(* inductive by itself: it does not say that the buffer holds no more        *)
(* than bytes and old memory, nor which of them the text is.                 *)
THEOREM StringsKept == SdsSpec => []StringInv
<1>1. SdsInit => StringInv
  BY StringsHold
<1>2. StringInv /\ [SdsNext]_sdsVars => StringInv'
  BY StringsStay
<1>3. QED
  BY <1>1, <1>2, PTL DEF SdsSpec

(* Whatever texts, numbers, formats and sizes: after any calls the header    *)
(* says what was allocated, the string ends with a NUL, and no byte of it    *)
(* was never written.                                                        *)
THEOREM HeadersAgree == SdsSpec => []SdsInv
<1>1. StringInv => SdsInv
  <2>1. SUFFICES ASSUME StringInv, sh.buf # <<>> PROVE SdsInv
    BY DEF SdsInv
  <2>2. PICK t : Holds(sh, t)
    BY <2>1 DEF StringInv
  <2>3. Kept(sh, t) /\ Keeping(sh, t) /\ Content(sh) = t /\ t \in Seq(Byte)
    BY <2>1, <2>2, HoldsContent
  <2>4. /\ sh.len = Len(t) /\ sh.len \in Nat /\ sh.free \in Nat
        /\ Len(sh.buf) = Len(t) + sh.free + 1
    BY <2>3, KeepingIs
  <2>5. sh.buf[sh.len + 1] = NUL
    BY <2>3, <2>4 DEF Kept
  <2>6. HEADER_SIZE + Len(sh.buf) = sdsAllocSize(sh)
    BY <2>4, SdsAssumption DEF sdsAllocSize
  <2>7. Junk \notin ToSet(Content(sh))
    BY <2>3, ByteCells DEF ToSet
  <2>8. QED
    BY <2>4, <2>5, <2>6, <2>7 DEF SdsInv
<1>2. QED
  BY <1>1, StringsKept, PTL

(* Every call does to the bytes what ByteString says of it, whatever the     *)
(* free space was and however the buffer moved.                              *)
THEOREM BytesImplemented == SdsSpec => ImplementsBytes
<1>1. SdsInit => Bytes!StringInit
  BY StringsHold DEF Bytes!StringInit
<1>2. StringInv /\ [SdsNext]_sdsVars => [Bytes!StringNext]_<<Content(sh), call>>
  BY StringsStay
<1>3. QED
  BY <1>1, <1>2, StringsKept, PTL DEF SdsSpec, ImplementsBytes, Bytes!StringSpec
================================================================================
