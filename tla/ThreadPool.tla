------------------------------ MODULE ThreadPool ------------------------------
(***************************************************************************)
(* The thread pool demo (bio.c, bio.h, threadPoll_Main.c): BIO_NUM_OPS job *)
(* types, each with a job list, a mutex, a condition variable, a counter   *)
(* of pending jobs and a pool of worker threads; the main thread submits a *)
(* job of each type in turn and may ask how many jobs of a type are        *)
(* pending.  One step is what a thread does between two points at which    *)
(* another thread can observe or disturb it.                               *)
(***************************************************************************)
EXTENDS Naturals, Sequences, FiniteSets

CONSTANTS
  NumOps,      (* BIO_NUM_OPS, the number of job types                        *)
  Workers,     (* all worker threads: bio_threads[j][i]                       *)
  TypeOf,      (* the job type each worker was created with                   *)
  MaxPending,  (* BIO_MAX_PENDING_NUM                                         *)
  MaxRounds,   (* bound: rounds of main's loop, which has no bound            *)
  Main,        (* the main thread                                             *)
  Nobody       (* the holder of a mutex that is free                          *)

Ops == 0 .. (NumOps - 1)

ASSUME PoolAssumption ==
  /\ NumOps \in Nat \ {0}
  /\ MaxRounds \in Nat
  /\ MaxPending \in Nat \ {0}
  /\ IsFiniteSet(Workers)
  /\ TypeOf \in [Workers -> Ops]
  /\ Main \notin Workers
  /\ Nobody \notin Workers
  /\ Main # Nobody

NoJob == 0
Jobs == 1 .. MaxRounds         \* a job is named after the round that creates it
Pool(op) == {w \in Workers : TypeOf[w] = op}

VARIABLES
  mutex,     (* bio_mutex: who holds it                                       *)
  jobs,      (* bio_jobs: the list of each type, oldest job first             *)
  pending,   (* bio_pending                                                   *)
  wpc,       (* where each worker stands                                      *)
  hand,      (* the local variable "job" of each worker                       *)
  mpc,       (* where main stands                                             *)
  mop,       (* the job type main submits next                                *)
  round,     (* which round of its loop main is in                            *)
  ask,       (* the type of main's current bioPendingJobsOfType call          *)
  answer,    (* what that call has returned                                   *)
  heap,      (* job structures allocated and not freed, per type              *)
  accepted,  (* history: jobs whose creation returned 0                       *)
  rejected,  (* history: jobs whose creation returned -1                      *)
  executed   (* history: jobs whose function was called                       *)

mainVars == <<mpc, mop, round, ask, answer>>
vars == <<mutex, jobs, pending, wpc, hand, mainVars, heap, accepted, rejected, executed>>

\* A worker that is in one of these states holds the mutex of its type.
Holding == {"top", "popped"}
\* So does main in these, on the type it submits to.
Creating == {"locked", "push", "signal", "unlock", "reject"}

MainHolds(op) ==
  \/ mop = op /\ mpc \in Creating
  \/ ask = op /\ mpc = "asking"

\* A thread waiting in pthread_cond_wait is a waiter of its type's condition.
Waiters(op) == {w \in Pool(op) : wpc[w] = "wait"}
\* A worker that has no job and is on its way to look for one.
Seekers(op) == {w \in Pool(op) : wpc[w] \in {"lock", "top"}}
Queued(op) == {jobs[op][i] : i \in DOMAIN jobs[op]}
\* Jobs taken from the list whose function has not been called yet.
Taken(op) == {hand[w] : w \in {v \in Pool(op) : wpc[v] \in {"popped", "run"}}}

Init ==
  /\ mutex = [op \in Ops |-> Nobody]
  /\ jobs = [op \in Ops |-> <<>>]
  /\ pending = [op \in Ops |-> 0]
  /\ wpc = [w \in Workers |-> "unborn"]
  /\ hand = [w \in Workers |-> NoJob]
  /\ mpc = "spawn"
  /\ mop = 0
  /\ round = 1
  /\ ask = 0
  /\ answer = 0
  /\ heap = [op \in Ops |-> {}]
  /\ accepted = [op \in Ops |-> {}]
  /\ rejected = [op \in Ops |-> {}]
  /\ executed = [op \in Ops |-> {}]

-------------------------------------------------------------------------------
(* bioInit creates the threads type by type, in the main thread; a thread  *)
(* runs as soon as it is created.  If pthread_create fails the process     *)
(* exits, and nothing is left to describe.                                 *)
SpawnWorker(w) ==
  /\ mpc = "spawn"
  /\ wpc[w] = "unborn"
  /\ \A v \in Workers : wpc[v] = "unborn" => TypeOf[w] <= TypeOf[v]
  /\ wpc' = [wpc EXCEPT ![w] = "lock"]
  /\ mpc' = IF \E v \in Workers \ {w} : wpc[v] = "unborn" THEN "spawn" ELSE "next"
  /\ UNCHANGED <<mutex, jobs, pending, hand, mop, round, ask, answer, heap,
                 accepted, rejected, executed>>

-------------------------------------------------------------------------------
(* bioCreateBackgroundJob, called by main for every type in every round.   *)

AllocateJob ==
  /\ mpc = "next"
  /\ round <= MaxRounds
  /\ heap' = [heap EXCEPT ![mop] = @ \union {round}]
  /\ mpc' = "created"
  /\ UNCHANGED <<mutex, jobs, pending, wpc, hand, mop, round, ask, answer,
                 accepted, rejected, executed>>

LockToCreate ==
  /\ mpc = "created"
  /\ mutex[mop] = Nobody
  /\ mutex' = [mutex EXCEPT ![mop] = Main]
  /\ mpc' = "locked"
  /\ UNCHANGED <<jobs, pending, wpc, hand, mop, round, ask, answer, heap,
                 accepted, rejected, executed>>

\* The counter is incremented before it is compared with the limit.
CountJob ==
  /\ mpc = "locked"
  /\ pending' = [pending EXCEPT ![mop] = @ + 1]
  /\ mpc' = IF pending'[mop] >= MaxPending THEN "reject" ELSE "push"
  /\ UNCHANGED <<mutex, jobs, wpc, hand, mop, round, ask, answer, heap,
                 accepted, rejected, executed>>

\* main's loop goes on to the next type, and after the last to a new round.
NextSubmission ==
  /\ mpc' = "next"
  /\ mop' = (mop + 1) % NumOps
  /\ round' = IF mop = NumOps - 1 THEN round + 1 ELSE round

\* The job is neither freed nor taken off the counter again.
RejectJob ==
  /\ mpc = "reject"
  /\ mutex' = [mutex EXCEPT ![mop] = Nobody]
  /\ rejected' = [rejected EXCEPT ![mop] = @ \union {round}]
  /\ NextSubmission
  /\ UNCHANGED <<jobs, pending, wpc, hand, ask, answer, heap, accepted, executed>>

PushJob ==
  /\ mpc = "push"
  /\ jobs' = [jobs EXCEPT ![mop] = Append(@, round)]
  /\ accepted' = [accepted EXCEPT ![mop] = @ \union {round}]
  /\ mpc' = "signal"
  /\ UNCHANGED <<mutex, pending, wpc, hand, mop, round, ask, answer, heap,
                 rejected, executed>>

\* Mutant: the signal is not sent.
SignalForgotten ==
  /\ mpc = "signal"
  /\ mpc' = "unlock"
  /\ UNCHANGED <<mutex, jobs, pending, wpc, hand, mop, round, ask, answer, heap,
                 accepted, rejected, executed>>

\* pthread_cond_signal wakes a waiter if there is one and is lost otherwise.
SignalWorker ==
  /\ mpc = "signal"
  /\ \/ \E w \in Waiters(mop) : wpc' = [wpc EXCEPT ![w] = "lock"]
     \/ Waiters(mop) = {} /\ UNCHANGED wpc
  /\ mpc' = "unlock"
  /\ UNCHANGED <<mutex, jobs, pending, hand, mop, round, ask, answer, heap,
                 accepted, rejected, executed>>

UnlockCreated ==
  /\ mpc = "unlock"
  /\ mutex' = [mutex EXCEPT ![mop] = Nobody]
  /\ NextSubmission
  /\ UNCHANGED <<jobs, pending, wpc, hand, ask, answer, heap, accepted, rejected,
                 executed>>

-------------------------------------------------------------------------------
(* bioPendingJobsOfType: the counter is read under the mutex.              *)

LockToAsk(op) ==
  /\ mpc = "next"
  /\ mutex[op] = Nobody
  /\ mutex' = [mutex EXCEPT ![op] = Main]
  /\ ask' = op
  /\ mpc' = "asking"
  /\ UNCHANGED <<jobs, pending, wpc, hand, mop, round, answer, heap, accepted,
                 rejected, executed>>

ReadPending ==
  /\ mpc = "asking"
  /\ answer' = pending[ask]
  /\ mutex' = [mutex EXCEPT ![ask] = Nobody]
  /\ mpc' = "answered"
  /\ UNCHANGED <<jobs, pending, wpc, hand, mop, round, ask, heap, accepted,
                 rejected, executed>>

\* Main uses the answer, forgets it and goes on with its loop.
UseAnswer ==
  /\ mpc = "answered"
  /\ mpc' = "next"
  /\ answer' = 0
  /\ ask' = 0
  /\ UNCHANGED <<mutex, jobs, pending, wpc, hand, mop, round, heap, accepted,
                 rejected, executed>>

-------------------------------------------------------------------------------
(* bioProcessBackgroundJobs, the body of every worker thread.              *)

\* Entering the loop, coming back to its top, or returning from the wait.
LockToWork(w) ==
  /\ wpc[w] = "lock"
  /\ mutex[TypeOf[w]] = Nobody
  /\ mutex' = [mutex EXCEPT ![TypeOf[w]] = w]
  /\ wpc' = [wpc EXCEPT ![w] = "top"]
  /\ UNCHANGED <<jobs, pending, hand, mainVars, heap, accepted, rejected, executed>>

\* pthread_cond_wait releases the mutex and starts to wait in one step.
WaitForJob(w) ==
  /\ wpc[w] = "top"
  /\ Len(jobs[TypeOf[w]]) = 0
  /\ mutex' = [mutex EXCEPT ![TypeOf[w]] = Nobody]
  /\ wpc' = [wpc EXCEPT ![w] = "wait"]
  /\ UNCHANGED <<jobs, pending, hand, mainVars, heap, accepted, rejected, executed>>

\* A wait may also end without a signal, as POSIX allows.
WakeSpuriously(w) ==
  /\ wpc[w] = "wait"
  /\ wpc' = [wpc EXCEPT ![w] = "lock"]
  /\ UNCHANGED <<mutex, jobs, pending, hand, mainVars, heap, accepted, rejected,
                 executed>>

\* Three mutants of PopJob: the node is not deleted; the counter is not decremented;
\* the newest job is taken.
Popped(w, rest, counted) ==
  LET op == TypeOf[w] IN
  /\ wpc[w] = "top"
  /\ Len(jobs[op]) # 0
  /\ jobs' = [jobs EXCEPT ![op] = rest]
  /\ pending' = [pending EXCEPT ![op] = counted]
  /\ wpc' = [wpc EXCEPT ![w] = "popped"]
  /\ UNCHANGED <<mutex, mainVars, heap, accepted, rejected, executed>>
HandOldest(w) == hand' = [hand EXCEPT ![w] = Head(jobs[TypeOf[w]])]
HandNewest(w) == hand' = [hand EXCEPT ![w] = jobs[TypeOf[w]][Len(jobs[TypeOf[w]])]]
PopJobKeepsNode(w) ==
  Popped(w, jobs[TypeOf[w]], pending[TypeOf[w]] - 1) /\ HandOldest(w)
PopJobUncounted(w) ==
  Popped(w, Tail(jobs[TypeOf[w]]), pending[TypeOf[w]]) /\ HandOldest(w)
PopJobNewest(w) ==
  /\ Popped(w, SubSeq(jobs[TypeOf[w]], 1, Len(jobs[TypeOf[w]]) - 1), pending[TypeOf[w]] - 1)
  /\ HandNewest(w)

\* The node is deleted and the counter decremented before the job is run.
PopJob(w) ==
  LET op == TypeOf[w] IN
  /\ wpc[w] = "top"
  /\ Len(jobs[op]) # 0
  /\ hand' = [hand EXCEPT ![w] = Head(jobs[op])]
  /\ jobs' = [jobs EXCEPT ![op] = Tail(@)]
  /\ pending' = [pending EXCEPT ![op] = @ - 1]
  /\ wpc' = [wpc EXCEPT ![w] = "popped"]
  /\ UNCHANGED <<mutex, mainVars, heap, accepted, rejected, executed>>

UnlockToRun(w) ==
  /\ wpc[w] = "popped"
  /\ mutex' = [mutex EXCEPT ![TypeOf[w]] = Nobody]
  /\ wpc' = [wpc EXCEPT ![w] = "run"]
  /\ UNCHANGED <<jobs, pending, hand, mainVars, heap, accepted, rejected, executed>>

RunJob(w) ==
  /\ wpc[w] = "run"
  /\ executed' = [executed EXCEPT ![TypeOf[w]] = @ \union {hand[w]}]
  /\ wpc' = [wpc EXCEPT ![w] = "ran"]
  /\ UNCHANGED <<mutex, jobs, pending, hand, mainVars, heap, accepted, rejected>>

\* Mutant: the structure is not freed.
FreeJobForgotten(w) ==
  /\ wpc[w] = "ran"
  /\ hand' = [hand EXCEPT ![w] = NoJob]
  /\ wpc' = [wpc EXCEPT ![w] = "lock"]
  /\ UNCHANGED <<mutex, jobs, pending, mainVars, heap, accepted, rejected, executed>>

FreeJob(w) ==
  /\ wpc[w] = "ran"
  /\ heap' = [heap EXCEPT ![TypeOf[w]] = @ \ {hand[w]}]
  /\ hand' = [hand EXCEPT ![w] = NoJob]
  /\ wpc' = [wpc EXCEPT ![w] = "lock"]
  /\ UNCHANGED <<mutex, jobs, pending, mainVars, accepted, rejected, executed>>

-------------------------------------------------------------------------------
CreateJob ==
  \/ AllocateJob
  \/ LockToCreate
  \/ CountJob
  \/ RejectJob
  \/ PushJob
  \/ SignalWorker
  \/ UnlockCreated

AskPending ==
  \/ \E op \in Ops : LockToAsk(op)
  \/ ReadPending
  \/ UseAnswer

\* What a worker does without having to obtain the mutex first.
WorkerRuns(w) ==
  \/ WaitForJob(w)
  \/ PopJob(w)
  \/ UnlockToRun(w)
  \/ RunJob(w)
  \/ FreeJob(w)

Next ==
  \/ \E w \in Workers : SpawnWorker(w)
  \/ CreateJob
  \/ AskPending
  \/ \E w \in Workers : LockToWork(w)
  \/ \E w \in Workers : WorkerRuns(w)
  \/ \E w \in Workers : WakeSpuriously(w)

Spec == Init /\ [][Next]_vars

(* A thread that can run is scheduled.  For the mutex it is enough that    *)
(* some worker of a pool obtains it if it is free again and again: main    *)
(* sleeps in every round, so it cannot keep a whole pool out for ever, but *)
(* nothing favours any worker over the others.  Main's steps that hold a   *)
(* mutex are fair, its loop need not go on.                                *)
Fairness ==
  /\ \A w \in Workers : WF_vars(SpawnWorker(w)) /\ WF_vars(WorkerRuns(w))
  /\ \A op \in Ops : SF_vars(\E w \in Pool(op) : LockToWork(w))
  /\ WF_vars(CountJob \/ RejectJob \/ PushJob \/ SignalWorker \/ UnlockCreated \/ ReadPending)

FairSpec == Spec /\ Fairness

-------------------------------------------------------------------------------
TypeOK ==
  /\ mutex \in [Ops -> Workers \union {Main, Nobody}]
  /\ jobs \in [Ops -> Seq(Jobs)]
  /\ pending \in [Ops -> Nat]
  /\ wpc \in [Workers -> {"unborn", "lock", "top", "wait", "popped", "run", "ran"}]
  /\ hand \in [Workers -> Jobs \union {NoJob}]
  /\ mpc \in {"spawn", "next", "created", "asking", "answered"} \union Creating
  /\ mop \in Ops
  /\ round \in 1 .. (MaxRounds + 1)
  /\ mpc \in Creating \union {"created"} => round \in Jobs
  /\ ask \in Ops
  /\ answer \in Nat
  /\ heap \in [Ops -> SUBSET Jobs]
  /\ accepted \in [Ops -> SUBSET Jobs]
  /\ rejected \in [Ops -> SUBSET Jobs]
  /\ executed \in [Ops -> SUBSET Jobs]

(* The mutex of a type is held by exactly the thread that stands between   *)
(* the lock and the unlock of it: bio_jobs and bio_pending are never       *)
(* touched by two threads at once, and no path leaves the mutex locked.    *)
MutexInv ==
  \A op \in Ops :
    /\ \A w \in Pool(op) : wpc[w] \in Holding <=> mutex[op] = w
    /\ mutex[op] \in Workers => mutex[op] \in Pool(op)
    /\ MainHolds(op) <=> mutex[op] = Main

\* main has counted the job it creates, which is neither listed nor refused.
Counted(op) == IF mop = op /\ mpc \in {"push", "reject"} THEN 1 ELSE 0

(* What bio_pending really counts: the jobs in the list, and one for every *)
(* job ever rejected.  It never wraps below zero, and the list is kept one *)
(* short of the limit.                                                     *)
CountInv ==
  \A op \in Ops :
    /\ pending[op] = Len(jobs[op]) + Cardinality(rejected[op]) + Counted(op)
    /\ Len(jobs[op]) < MaxPending
    /\ mop = op /\ mpc = "push" => pending[op] < MaxPending

\* The jobs of a type for which bioCreateBackgroundJob has decided.
Decided(op, j) ==
  \/ j < round
  \/ j = round /\ op < mop
  \/ j = round /\ op = mop /\ mpc \in {"signal", "unlock"}

(* Main creates one job of each type per round, and what it has accepted   *)
(* or rejected are jobs of earlier submissions, each decided once.         *)
FreshInv ==
  \A op \in Ops :
    /\ \A j \in accepted[op] \union rejected[op] : Decided(op, j)
    /\ accepted[op] \intersect rejected[op] = {}

(* A worker has a job in its hand from taking it to freeing it, and frees  *)
(* it only after it was executed.                                          *)
HandInv ==
  \A w \in Workers :
    /\ hand[w] # NoJob <=> wpc[w] \in {"popped", "run", "ran"}
    /\ wpc[w] = "ran" => hand[w] \in executed[TypeOf[w]]

(* Every accepted job is in exactly one place: once in the list, in the    *)
(* hands of one worker, or executed.  None is lost, taken by two workers   *)
(* or run again, whatever the interleaving of the workers of a type.       *)
JobsInv ==
  \A op \in Ops :
    /\ accepted[op] = Queued(op) \union Taken(op) \union executed[op]
    /\ Queued(op) \intersect (Taken(op) \union executed[op]) = {}
    /\ Taken(op) \intersect executed[op] = {}
    /\ \A i, j \in DOMAIN jobs[op] : jobs[op][i] = jobs[op][j] => i = j
    /\ \A v, w \in Pool(op) : hand[v] = hand[w] /\ hand[v] # NoJob => v = w

(* The structures on the heap are those of the jobs in the list, in the    *)
(* hands of a worker and in the hands of main - nothing is used after it   *)
(* is freed - and those of all rejected jobs, which nobody frees.          *)
HeapInv ==
  \A op \in Ops :
    heap[op] = Queued(op)
               \union {hand[w] : w \in {v \in Pool(op) : hand[v] # NoJob}}
               \union rejected[op]
               \union (IF mop = op /\ mpc \in {"created", "locked", "push", "reject"}
                       THEN {round} ELSE {})

(* No wakeup is lost: as long as a worker of the type sleeps, there are at *)
(* least as many workers on their way to the list as jobs in it, but for   *)
(* the job whose signal main is about to send.                             *)
WakeupInv ==
  \A op \in Ops :
    Waiters(op) # {} =>
      Len(jobs[op]) <= Cardinality(Seekers(op)) + (IF mop = op /\ mpc = "signal" THEN 1 ELSE 0)

(* The thread pool is a job pool whose executors are its threads: the      *)
(* oldest job is taken first, each is taken once and finished, and none is *)
(* left waiting while a thread of its type stays free.                     *)
Executing == [w \in Workers |-> IF wpc[w] \in {"popped", "run"} THEN hand[w] ELSE NoJob]

AsPool == INSTANCE JobPool WITH
  Type <- Ops, Job <- Jobs, Executor <- Workers, Serves <- TypeOf,
  queue <- jobs, running <- Executing, done <- executed

ImplementsPool == AsPool!PoolSpec
===============================================================================
