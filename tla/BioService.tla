------------------------------ MODULE BioService ------------------------------
(***************************************************************************)
(* The bio threads of the middleware server (bio.c): one thread, one list, *)
(* one mutex and one condition variable for each type of job.  Unlike the  *)
(* pool of the demo (ThreadPool) a worker leaves the node of the job it    *)
(* runs in the list, without the mutex, and deletes and uncounts it only   *)
(* afterwards.  Jobs and nodes are allocated by one thread and freed by    *)
(* another, which is what the accounting of Zmalloc has to stand.          *)
(***************************************************************************)
EXTENDS Integers, Sequences, FiniteSets, SequencesExt

CONSTANTS
  NumOps,          (* REDIS_BIO_NUM_OPS                                        *)
  MaxJobs,         (* bound: jobs the main thread creates                      *)
  Main,            (* the main thread                                          *)
  Nobody,          (* the holder of a free mutex, and the value of no counter  *)
  JobSize,         (* sizeof(struct bio_job)                                   *)
  NodeSize,        (* sizeof(listNode)                                         *)
  BufferSize,      (* what a buffer main uses for its own work grows by        *)
  MaxBufferCalls   (* bound: calls of the allocator for that buffer            *)

Ops == 0 .. NumOps - 1
Jobs == 1 .. MaxJobs
NoJob == 0

JobBlock(j) == <<"job", j>>
NodeBlock(j) == <<"node", j>>
Buffer == <<"buffer", 0>>
Blocks == {JobBlock(j) : j \in Jobs} \union {NodeBlock(j) : j \in Jobs} \union {Buffer}

ASSUME BioAssumption ==
  /\ NumOps \in Nat \ {0}
  /\ MaxJobs \in Nat
  /\ {JobSize, NodeSize, BufferSize} \subseteq Nat
  /\ Main \notin Ops
  /\ Nobody \notin Nat
  /\ Main # Nobody

VARIABLES
  mutex,       (* bio_mutex: who holds it; the worker of a type is named by the type *)
  jobs,        (* bio_jobs: the list of each type                                    *)
  pending,     (* bio_pending                                                        *)
  wpc,         (* where each worker stands                                           *)
  hand,        (* its local variable job, whose node is ln                           *)
  mpc,         (* where main stands                                                  *)
  mop,         (* the type of its current call                                       *)
  created,     (* the jobs it has created so far                                     *)
  answer,      (* what bioPendingJobsOfType has returned                             *)
  calls,       (* how often main has used the allocator for its buffer               *)
  accepted,    (* history: the jobs of each type that were put in its list           *)
  executed     (* history: the jobs of each type that were performed                 *)

VARIABLES used_memory, zmalloc_thread_safe, block, updates, loaded

Memory == INSTANCE Zmalloc WITH
  Thread <- Ops \union {Main}, Block <- Blocks, NoValue <- Nobody,
  LONG_SIZE <- 8, PREFIX_SIZE <- 8, SIZE_RANGE <- 1024

(* What is ever in use at once is less than a size_t can count (1024 stands *)
(* for its range).                                                         *)
ASSUME MemoryAssumption ==
  /\ MaxBufferCalls \in Nat
  /\ MaxJobs * (Memory!Rounded(JobSize + 8) + Memory!Rounded(NodeSize + 8))
       + MaxBufferCalls * Memory!Rounded(MaxBufferCalls * BufferSize + 8) < 1024

memVars == <<used_memory, zmalloc_thread_safe, block, updates, loaded>>
mainVars == <<mpc, mop, created, answer, calls>>
listVars == <<mutex, jobs, pending, accepted>>
workerVars == <<wpc, hand, executed>>
vars == <<listVars, workerVars, mainVars, memVars>>

Init ==
  /\ mutex = [op \in Ops |-> Nobody]
  /\ jobs = [op \in Ops |-> <<>>]
  /\ pending = [op \in Ops |-> 0]
  /\ wpc = [op \in Ops |-> "unborn"]
  /\ hand = [op \in Ops |-> NoJob]
  /\ mpc = "start"
  /\ mop = 0
  /\ created = 0
  /\ answer = 0
  /\ calls = 0
  /\ accepted = [op \in Ops |-> {}]
  /\ executed = [op \in Ops |-> {}]
  /\ Memory!MemoryInit

-------------------------------------------------------------------------------
(* The main thread.  A program may call zmalloc_enable_thread_safeness     *)
(* before it starts threads; this one does not, and both are modelled.     *)

EnableThreadSafeness ==
  /\ mpc = "start"
  /\ ~zmalloc_thread_safe
  /\ Memory!zmalloc_enable_thread_safeness
  /\ UNCHANGED <<listVars, workerVars, mainVars>>

\* bioInit creates the threads one by one; each runs at once.
SpawnWorker(op) ==
  /\ mpc = "start"
  /\ wpc[op] = "unborn"
  /\ \A o \in Ops : o < op => wpc[o] # "unborn"
  /\ wpc' = [wpc EXCEPT ![op] = "lock"]
  /\ mpc' = IF op = NumOps - 1 THEN "idle" ELSE "start"
  /\ UNCHANGED <<listVars, hand, executed, mop, created, answer, calls, memVars>>

\* bioCreateBackgroundJob: the job is allocated before the mutex is taken.
AllocateJob(op) ==
  /\ mpc = "idle"
  /\ Memory!Accounted(Main)
  /\ created < MaxJobs
  /\ Memory!zmalloc(Main, JobBlock(created + 1), JobSize)
  /\ created' = created + 1
  /\ mop' = op
  /\ mpc' = "allocated"
  /\ UNCHANGED <<listVars, workerVars, answer, calls>>

LockToCreate ==
  /\ mpc = "allocated"
  /\ Memory!Accounted(Main)
  /\ mutex[mop] = Nobody
  /\ mutex' = [mutex EXCEPT ![mop] = Main]
  /\ mpc' = "locked"
  /\ UNCHANGED <<jobs, pending, accepted, workerVars, mop, created, answer, calls, memVars>>

\* listAddNodeTail allocates the node, with the mutex held.
AllocateNode ==
  /\ mpc = "locked"
  /\ Memory!zmalloc(Main, NodeBlock(created), NodeSize)
  /\ mpc' = "push"
  /\ UNCHANGED <<listVars, workerVars, mop, created, answer, calls>>

\* Mutant: nobody is woken.
PushJobSilently ==
  /\ mpc = "push"
  /\ Memory!Accounted(Main)
  /\ jobs' = [jobs EXCEPT ![mop] = Append(@, created)]
  /\ accepted' = [accepted EXCEPT ![mop] = @ \union {created}]
  /\ pending' = [pending EXCEPT ![mop] = @ + 1]
  /\ mutex' = [mutex EXCEPT ![mop] = Nobody]
  /\ mpc' = "idle"
  /\ UNCHANGED <<workerVars, mop, created, answer, calls, memVars>>

\* The node is linked, the job counted, a waiting worker signalled and the mutex
\* released: with the mutex held nobody sees what lies between.
PushJob ==
  /\ mpc = "push"
  /\ Memory!Accounted(Main)
  /\ jobs' = [jobs EXCEPT ![mop] = Append(@, created)]
  /\ accepted' = [accepted EXCEPT ![mop] = @ \union {created}]
  /\ pending' = [pending EXCEPT ![mop] = @ + 1]
  /\ wpc' = IF wpc[mop] = "wait" THEN [wpc EXCEPT ![mop] = "lock"] ELSE wpc
  /\ mutex' = [mutex EXCEPT ![mop] = Nobody]
  /\ mpc' = "idle"
  /\ UNCHANGED <<hand, executed, mop, created, answer, calls, memVars>>

\* bioPendingJobsOfType reads the counter under the mutex; main then uses what it
\* returned and goes on.
AskPending(op) ==
  /\ mpc = "idle"
  /\ Memory!Accounted(Main)
  /\ mutex[op] = Nobody
  /\ answer' = pending[op]
  /\ mop' = op
  /\ mpc' = "answered"
  /\ UNCHANGED <<listVars, workerVars, created, calls, memVars>>

UseAnswer ==
  /\ mpc = "answered"
  /\ answer' = 0
  /\ mpc' = "idle"
  /\ UNCHANGED <<listVars, workerVars, mop, created, calls, memVars>>

\* The rest of the program allocates, resizes and frees memory of its own meanwhile
\* (bound: once it has created its last job, and with zmalloc_thread_safe: without it
\* used_memory drifts anyway).
UseBuffer ==
  /\ mpc = "idle"
  /\ Memory!Accounted(Main)
  /\ created = MaxJobs
  /\ zmalloc_thread_safe
  /\ calls < MaxBufferCalls
  /\ \/ Memory!zmalloc(Main, Buffer, BufferSize)
     \/ block[Buffer] # Nobody /\ Memory!zrealloc(Main, Buffer, block[Buffer] + BufferSize)
     \/ Memory!zfree(Main, Buffer)
  /\ calls' = calls + 1
  /\ UNCHANGED <<listVars, workerVars, mpc, mop, created, answer>>

-------------------------------------------------------------------------------
(* bioProcessBackgroundJobs, the body of the thread of type op.            *)

LockToWork(op) ==
  /\ wpc[op] = "lock"
  /\ mutex[op] = Nobody
  /\ mutex' = [mutex EXCEPT ![op] = op]
  /\ wpc' = [wpc EXCEPT ![op] = "top"]
  /\ UNCHANGED <<jobs, pending, accepted, hand, executed, mainVars, memVars>>

WaitForJob(op) ==
  /\ wpc[op] = "top"
  /\ Len(jobs[op]) = 0
  /\ mutex' = [mutex EXCEPT ![op] = Nobody]
  /\ wpc' = [wpc EXCEPT ![op] = "wait"]
  /\ UNCHANGED <<jobs, pending, accepted, hand, executed, mainVars, memVars>>

WakeSpuriously(op) ==
  /\ wpc[op] = "wait"
  /\ wpc' = [wpc EXCEPT ![op] = "lock"]
  /\ UNCHANGED <<listVars, hand, executed, mainVars, memVars>>

\* Two mutants of PeekJob: the job is uncounted before it is run; the newest job is
\* taken.
PeekJobUncounted(op) ==
  /\ wpc[op] = "top"
  /\ Len(jobs[op]) # 0
  /\ hand' = [hand EXCEPT ![op] = Head(jobs[op])]
  /\ pending' = [pending EXCEPT ![op] = @ - 1]
  /\ mutex' = [mutex EXCEPT ![op] = Nobody]
  /\ wpc' = [wpc EXCEPT ![op] = "run"]
  /\ UNCHANGED <<jobs, accepted, executed, mainVars, memVars>>
PeekJobNewest(op) ==
  /\ wpc[op] = "top"
  /\ Len(jobs[op]) # 0
  /\ hand' = [hand EXCEPT ![op] = Last(jobs[op])]
  /\ mutex' = [mutex EXCEPT ![op] = Nobody]
  /\ wpc' = [wpc EXCEPT ![op] = "run"]
  /\ UNCHANGED <<jobs, pending, accepted, executed, mainVars, memVars>>

\* The head of the list is read, and stays where it is when the mutex is released.
PeekJob(op) ==
  /\ wpc[op] = "top"
  /\ Len(jobs[op]) # 0
  /\ hand' = [hand EXCEPT ![op] = Head(jobs[op])]
  /\ mutex' = [mutex EXCEPT ![op] = Nobody]
  /\ wpc' = [wpc EXCEPT ![op] = "run"]
  /\ UNCHANGED <<jobs, pending, accepted, executed, mainVars, memVars>>

\* close or aof_fsync.
RunJob(op) ==
  /\ wpc[op] = "run"
  /\ executed' = [executed EXCEPT ![op] = @ \union {hand[op]}]
  /\ wpc' = [wpc EXCEPT ![op] = "ran"]
  /\ UNCHANGED <<listVars, hand, mainVars, memVars>>

FreeJob(op) ==
  /\ wpc[op] = "ran"
  /\ Memory!zfree(op, JobBlock(hand[op]))
  /\ wpc' = [wpc EXCEPT ![op] = "freed"]
  /\ UNCHANGED <<listVars, hand, executed, mainVars>>

LockToDelete(op) ==
  /\ wpc[op] = "freed"
  /\ Memory!Accounted(op)
  /\ mutex[op] = Nobody
  /\ mutex' = [mutex EXCEPT ![op] = op]
  /\ wpc' = [wpc EXCEPT ![op] = "delete"]
  /\ UNCHANGED <<jobs, pending, accepted, hand, executed, mainVars, memVars>>

\* listDelNode(bio_jobs[type], ln): ln goes, wherever it is in the list by now.
DeleteNode(op) ==
  /\ wpc[op] = "delete"
  /\ \E i \in DOMAIN jobs[op] :
       jobs[op][i] = hand[op] /\ jobs' = [jobs EXCEPT ![op] = RemoveAt(@, i)]
  /\ Memory!zfree(op, NodeBlock(hand[op]))
  /\ wpc' = [wpc EXCEPT ![op] = "deleted"]
  /\ UNCHANGED <<mutex, pending, accepted, hand, executed, mainVars>>

Uncount(op) ==
  /\ wpc[op] = "deleted"
  /\ Memory!Accounted(op)
  /\ pending' = [pending EXCEPT ![op] = @ - 1]
  /\ hand' = [hand EXCEPT ![op] = NoJob]
  /\ wpc' = [wpc EXCEPT ![op] = "top"]
  /\ UNCHANGED <<mutex, jobs, accepted, executed, mainVars, memVars>>

UpdateUsed(th) == Memory!Account(th) /\ UNCHANGED <<listVars, workerVars, mainVars>>

-------------------------------------------------------------------------------
Works(op) ==
  \/ WaitForJob(op) \/ PeekJob(op) \/ RunJob(op) \/ FreeJob(op) \/ DeleteNode(op) \/ Uncount(op)
  \/ UpdateUsed(op)
Locks(op) == LockToWork(op) \/ LockToDelete(op)
WorkerRuns(op) == Works(op) \/ Locks(op) \/ WakeSpuriously(op)

MainGoesOn == LockToCreate \/ AllocateNode \/ PushJob \/ UseAnswer \/ UpdateUsed(Main)
MainRuns ==
  \/ EnableThreadSafeness
  \/ \E op \in Ops : SpawnWorker(op) \/ AllocateJob(op) \/ AskPending(op)
  \/ UseBuffer
  \/ MainGoesOn

Next == MainRuns \/ \E op \in Ops : WorkerRuns(op)

(* Every thread goes on when it can; a worker that wants its mutex gets it *)
(* although main comes back for it again and again.  Nothing obliges main  *)
(* to call anything, only to finish what it has called.                    *)
Fairness ==
  /\ WF_vars(MainGoesOn)
  /\ \A op \in Ops : WF_vars(Works(op)) /\ SF_vars(Locks(op))

Spec == Init /\ [][Next]_vars /\ Fairness
SafeSpec == Init /\ [][Next]_vars

-------------------------------------------------------------------------------
(* Properties. *)

\* What bio.c:97-102 promises the main thread: when bioPendingJobsOfType has returned 0
\* every job of the type it ever created has been performed and its memory given back,
\* so nothing a worker does touches what the jobs shared with main.  (The counter of
\* the demo pool promises it too and does not keep it.)
AnswerInv ==
  mpc = "answered" /\ answer = 0 =>
    /\ executed[mop] = accepted[mop]
    /\ \A j \in accepted[mop] : block[JobBlock(j)] = Nobody /\ block[NodeBlock(j)] = Nobody

\* While a worker runs, frees and deletes a job without the mutex, the node it points to
\* stays the head of its list and is freed by nobody else, the job is in use until it has
\* been run, and the counter counts it to the end.
HeadInv ==
  \A op \in Ops :
    /\ wpc[op] \in {"run", "ran", "freed", "delete"} =>
         /\ jobs[op] # <<>>
         /\ hand[op] = Head(jobs[op])
         /\ block[NodeBlock(hand[op])] # Nobody
    /\ wpc[op] \in {"run", "ran"} => block[JobBlock(hand[op])] # Nobody
    /\ pending[op] = Len(jobs[op]) + (IF wpc[op] = "deleted" THEN 1 ELSE 0)

\* With zmalloc_thread_safe set before there was a second thread no change of the
\* counter is lost, made twice or made with another size than its opposite, and it does
\* not pass below zero, although a block is freed by another thread than allocated it.
UsedInv == zmalloc_thread_safe => Memory!Exact

\* The threads, lists and mutexes implement the abstract pool with one executor per type:
\* jobs are taken in the order of their creation, run once, and none waits for ever.
Held(op) == wpc[op] \in {"run", "ran", "freed", "delete"}
Pool == INSTANCE JobPool WITH
  Type <- Ops, Job <- Jobs, NoJob <- NoJob, Executor <- Ops, Serves <- [op \in Ops |-> op],
  queue <- [op \in Ops |-> IF Held(op) THEN Tail(jobs[op]) ELSE jobs[op]],
  running <- [op \in Ops |-> IF wpc[op] = "run" THEN hand[op] ELSE NoJob],
  done <- executed

ImplementsPool == Pool!PoolSpec
==============================================================================
