--------------------------- MODULE BioServiceProofs ---------------------------
(***************************************************************************)
(* Proofs about the bio threads of the middleware server, for any number   *)
(* of types, jobs and calls, with or without a lock around used_memory,    *)
(* and about that counter with one.                                        *)
(***************************************************************************)
EXTENDS BioService, QueueLemmas, TLAPS

Creating == mpc \in {"allocated", "locked", "push"}
Inside(op) == wpc[op] \in {"top", "delete", "deleted"}
Released(op) == wpc[op] \in {"freed", "delete"}

(* Every variable the properties look at keeps its type.                   *)
TypeOK ==
  /\ mutex \in [Ops -> Ops \union {Main, Nobody}]
  /\ jobs \in [Ops -> Seq(Jobs)]
  /\ pending \in [Ops -> Int]
  /\ wpc \in [Ops -> {"unborn", "lock", "top", "wait", "run", "ran", "freed", "delete", "deleted"}]
  /\ hand \in [Ops -> Jobs \union {NoJob}]
  /\ mpc \in {"start", "idle", "allocated", "locked", "push", "answered"}
  /\ mop \in Ops
  /\ created \in 0 .. MaxJobs
  /\ answer \in Int
  /\ accepted \in [Ops -> SUBSET Jobs]
  /\ executed \in [Ops -> SUBSET Jobs]
  /\ block \in [Blocks -> Nat \union {Nobody}]
  /\ Creating => created \in Jobs

(* A mutex is held by the worker that is inside, or by main while it puts  *)
(* a job into the list.                                                    *)
MutexInv ==
  \A op \in Ops :
    /\ mutex[op] = op <=> Inside(op)
    /\ mutex[op] = Main <=> mpc \in {"locked", "push"} /\ mop = op
    /\ mutex[op] \in {op, Main, Nobody}

(* The accepted jobs of a type are those performed and those listed; the   *)
(* one that is performed and still listed is the head.                     *)
ListedInv ==
  \A op \in Ops :
    /\ Distinct(jobs[op])
    /\ accepted[op] = executed[op] \union Elems(jobs[op])
    /\ Held(op) => jobs[op] # <<>> /\ hand[op] = Head(jobs[op])
    /\ wpc[op] \in {"ran", "freed", "delete"} => hand[op] \in executed[op]
    /\ pending[op] = Len(jobs[op]) + (IF wpc[op] = "deleted" THEN 1 ELSE 0)

(* No job is accepted twice, and the one main is creating not yet.         *)
FreshInv ==
  /\ \A op \in Ops : \A j \in accepted[op] : j <= created /\ (Creating => j # created)
  /\ \A op, o \in Ops : op # o => accepted[op] \intersect accepted[o] = {}

(* An accepted job has its node as long as it is listed, and its structure *)
(* until its worker has freed it.                                          *)
BlockInv ==
  /\ \A op \in Ops : \A j \in accepted[op] :
       /\ block[NodeBlock(j)] # Nobody <=> j \in Elems(jobs[op])
       /\ block[JobBlock(j)] # Nobody <=> j \in Elems(jobs[op]) /\ ~(Released(op) /\ j = hand[op])
  /\ Creating => block[JobBlock(created)] # Nobody
  /\ mpc = "push" => block[NodeBlock(created)] # Nobody

(* While main uses an answer of 0 there is nothing in that list.           *)
AnswerListed == mpc = "answered" /\ answer = 0 => jobs[mop] = <<>>

IInv ==
  TypeOK /\ MutexInv /\ ListedInv /\ FreshInv /\ BlockInv /\ AnswerListed

-------------------------------------------------------------------------------
LEMMA OpsFacts == Ops \subseteq Nat /\ 0 \in Ops /\ Nobody \notin Ops /\ Main \notin Ops /\ Main # Nobody
  BY BioAssumption DEF Ops

LEMMA BlockFacts ==
  /\ Buffer \in Blocks
  /\ \A j \in Jobs : /\ JobBlock(j) \in Blocks /\ NodeBlock(j) \in Blocks
                     /\ JobBlock(j) # Buffer /\ NodeBlock(j) # Buffer
  /\ \A j, k \in Jobs : /\ JobBlock(j) # NodeBlock(k)
                        /\ j # k => JobBlock(j) # JobBlock(k) /\ NodeBlock(j) # NodeBlock(k)
  BY DEF Buffer, Blocks, JobBlock, NodeBlock

(* What the calls of the allocator do to the blocks.                       *)
LEMMA AllocateFacts ==
  ASSUME NEW th, NEW b \in Blocks, NEW size \in Nat, TypeOK, Memory!zmalloc(th, b, size)
  PROVE  /\ block[b] = Nobody /\ block'[b] # Nobody
         /\ \A c \in Blocks \ {b} : block'[c] = block[c]
         /\ block' \in [Blocks -> Nat \union {Nobody}]
  BY BioAssumption DEF TypeOK, Memory!zmalloc

LEMMA ReallocateFacts ==
  ASSUME NEW th, NEW b \in Blocks, NEW size \in Nat, TypeOK, Memory!zrealloc(th, b, size)
  PROVE  /\ block[b] # Nobody /\ block'[b] # Nobody
         /\ \A c \in Blocks \ {b} : block'[c] = block[c]
         /\ block' \in [Blocks -> Nat \union {Nobody}]
  BY BioAssumption DEF TypeOK, Memory!zrealloc

LEMMA FreeFacts ==
  ASSUME NEW th, NEW b \in Blocks, TypeOK, Memory!zfree(th, b)
  PROVE  /\ block[b] # Nobody /\ block'[b] = Nobody
         /\ \A c \in Blocks \ {b} : block'[c] = block[c]
         /\ block' \in [Blocks -> Nat \union {Nobody}]
  BY BioAssumption DEF TypeOK, Memory!zfree

(* Main's buffer is no block of a job.                                     *)
LEMMA BufferFacts ==
  ASSUME TypeOK, UseBuffer
  PROVE  /\ \A j \in Jobs : /\ block'[JobBlock(j)] = block[JobBlock(j)]
                            /\ block'[NodeBlock(j)] = block[NodeBlock(j)]
         /\ block' \in [Blocks -> Nat \union {Nobody}]
<1>1. BufferSize \in Nat
  BY BioAssumption
<1>2. CASE Memory!zmalloc(Main, Buffer, BufferSize)
  BY <1>1, <1>2, BlockFacts, AllocateFacts
<1>3. CASE block[Buffer] # Nobody /\ Memory!zrealloc(Main, Buffer, block[Buffer] + BufferSize)
  <2>1. block[Buffer] + BufferSize \in Nat
    BY <1>1, <1>3, BlockFacts DEF TypeOK
  <2>2. QED
    BY <1>3, <2>1, BlockFacts, ReallocateFacts
<1>4. CASE Memory!zfree(Main, Buffer)
  BY <1>4, BlockFacts, FreeFacts
<1>5. QED
  BY <1>2, <1>3, <1>4 DEF UseBuffer

LEMMA UpdateFacts ==
  ASSUME NEW th, UpdateUsed(th)
  PROVE  UNCHANGED <<listVars, workerVars, mainVars, block>>
  BY DEF UpdateUsed, Memory!Account, Memory!UpdateStat, Memory!LoadStat, Memory!StoreStat

(* The head of a list, and a worker that holds it.                         *)
LEMMA ListFacts ==
  ASSUME TypeOK, ListedInv, NEW op \in Ops
  PROVE  /\ jobs[op] \in Seq(Jobs)
         /\ Len(jobs[op]) \in Nat
         /\ Elems(jobs[op]) \subseteq accepted[op]
         /\ jobs[op] # <<>> => Head(jobs[op]) \in Elems(jobs[op]) /\ Head(jobs[op]) \in Jobs
         /\ Held(op) => hand[op] \in Jobs /\ hand[op] \in Elems(jobs[op])
<1>1. jobs[op] \in Seq(Jobs) /\ Len(jobs[op]) \in Nat
  BY DEF TypeOK
<1>2. Distinct(jobs[op]) /\ Elems(jobs[op]) \subseteq accepted[op]
  BY DEF ListedInv
<1>3. ASSUME jobs[op] # <<>> PROVE Head(jobs[op]) \in Elems(jobs[op]) /\ Head(jobs[op]) \in Jobs
  BY <1>1, <1>2, <1>3, TailElems
<1>4. Held(op) => jobs[op] # <<>> /\ hand[op] = Head(jobs[op])
  BY DEF ListedInv
<1>5. QED
  BY <1>1, <1>2, <1>3, <1>4

(* Deleting the node of the job in hand leaves the rest of the list.       *)
LEMMA DeleteFacts ==
  ASSUME TypeOK, ListedInv, NEW op \in Ops, DeleteNode(op)
  PROVE  /\ jobs' = [jobs EXCEPT ![op] = Tail(@)]
         /\ jobs[op] \in Seq(Jobs) /\ jobs[op] # <<>>
         /\ hand[op] = Head(jobs[op]) /\ hand[op] \in Jobs /\ hand[op] \in executed[op]
         /\ Elems(Tail(jobs[op])) = Elems(jobs[op]) \ {hand[op]}
         /\ Distinct(Tail(jobs[op]))
<1>1. Held(op) /\ wpc[op] = "delete"
  BY DEF DeleteNode, Held
<1>2. /\ jobs[op] # <<>> /\ hand[op] = Head(jobs[op]) /\ Distinct(jobs[op])
      /\ hand[op] \in executed[op]
  BY <1>1 DEF ListedInv
<1>3. jobs[op] \in Seq(Jobs) /\ hand[op] \in Jobs
  BY <1>1, ListFacts
<1>4. PICK i \in DOMAIN jobs[op] :
        jobs[op][i] = hand[op] /\ jobs' = [jobs EXCEPT ![op] = RemoveAt(@, i)]
  BY DEF DeleteNode
<1>5. RemoveAt(jobs[op], i) = Tail(jobs[op])
  BY <1>2, <1>3, <1>4, RemoveHead
<1>6. QED
  BY <1>2, <1>3, <1>4, <1>5, TailElems

-------------------------------------------------------------------------------
LEMMA TypeStep ==
  ASSUME TypeOK, ListedInv, [Next]_vars
  PROVE  TypeOK'
<1> USE BioAssumption, OpsFacts DEF Creating
<1>1. CASE EnableThreadSafeness
  BY <1>1 DEF TypeOK, EnableThreadSafeness, Memory!zmalloc_enable_thread_safeness,
              listVars, workerVars, mainVars
<1>2. ASSUME NEW op \in Ops, SpawnWorker(op) PROVE TypeOK'
  BY <1>2 DEF TypeOK, SpawnWorker, listVars, memVars
<1>3. ASSUME NEW op \in Ops, AllocateJob(op) PROVE TypeOK'
  <2>1. created + 1 \in Jobs /\ created' = created + 1 /\ mop' = op /\ mpc' = "allocated"
        /\ UNCHANGED <<listVars, workerVars, answer>>
    BY <1>3 DEF TypeOK, AllocateJob, Jobs
  <2>2. block' \in [Blocks -> Nat \union {Nobody}]
    BY <1>3, <2>1, BlockFacts, AllocateFacts DEF AllocateJob
  <2>3. created' \in Jobs /\ created' \in 0 .. MaxJobs
    BY <2>1 DEF Jobs
  <2>4. QED
    BY <2>1, <2>2, <2>3 DEF TypeOK, listVars, workerVars
<1>4. CASE LockToCreate
  BY <1>4 DEF TypeOK, LockToCreate, workerVars, memVars
<1>5. CASE AllocateNode
  <2>1. created \in Jobs /\ mpc' = "push" /\ UNCHANGED <<listVars, workerVars, mop, created, answer>>
    BY <1>5 DEF TypeOK, AllocateNode
  <2>2. block' \in [Blocks -> Nat \union {Nobody}]
    BY <1>5, <2>1, BlockFacts, AllocateFacts DEF AllocateNode
  <2>3. QED
    BY <2>1, <2>2 DEF TypeOK, listVars, workerVars
<1>6. CASE PushJob
  <2>1. created \in Jobs /\ mop \in Ops /\ jobs[mop] \in Seq(Jobs)
    BY <1>6 DEF TypeOK, PushJob
  <2>2. jobs' \in [Ops -> Seq(Jobs)] /\ accepted' \in [Ops -> SUBSET Jobs] /\ pending' \in [Ops -> Int]
    BY <1>6, <2>1 DEF TypeOK, PushJob
  <2>3. wpc' \in [Ops -> {"unborn", "lock", "top", "wait", "run", "ran", "freed", "delete", "deleted"}]
    BY <1>6 DEF TypeOK, PushJob
  <2>4. QED
    BY <1>6, <2>2, <2>3 DEF TypeOK, PushJob, memVars
<1>7. ASSUME NEW op \in Ops, AskPending(op) PROVE TypeOK'
  BY <1>7 DEF TypeOK, AskPending, listVars, workerVars, memVars
<1>8. CASE UseAnswer
  BY <1>8 DEF TypeOK, UseAnswer, listVars, workerVars, memVars
<1>9. CASE UseBuffer
  BY <1>9, BufferFacts DEF TypeOK, UseBuffer, listVars, workerVars
<1>10. ASSUME NEW th, UpdateUsed(th) PROVE TypeOK'
  BY <1>10, UpdateFacts DEF TypeOK, listVars, workerVars, mainVars
<1>11. ASSUME NEW op \in Ops, LockToWork(op) \/ WaitForJob(op) \/ WakeSpuriously(op) \/ LockToDelete(op)
       PROVE TypeOK'
  <2>1. CASE LockToWork(op)
    BY <2>1 DEF TypeOK, LockToWork, mainVars, memVars
  <2>2. CASE WaitForJob(op)
    BY <2>2 DEF TypeOK, WaitForJob, mainVars, memVars
  <2>3. CASE WakeSpuriously(op)
    BY <2>3 DEF TypeOK, WakeSpuriously, listVars, mainVars, memVars
  <2>4. CASE LockToDelete(op)
    BY <2>4 DEF TypeOK, LockToDelete, mainVars, memVars
  <2>5. QED
    BY <1>11, <2>1, <2>2, <2>3, <2>4
<1>12. ASSUME NEW op \in Ops, PeekJob(op) PROVE TypeOK'
  <2>1. jobs[op] # <<>>
    BY <1>12 DEF PeekJob
  <2>2. Head(jobs[op]) \in Jobs
    BY <2>1, ListFacts
  <2>3. QED
    BY <1>12, <2>2 DEF TypeOK, PeekJob, mainVars, memVars
<1>13. ASSUME NEW op \in Ops, RunJob(op) PROVE TypeOK'
  <2>1. hand[op] \in Jobs
    BY <1>13, ListFacts DEF RunJob, Held
  <2>2. executed' \in [Ops -> SUBSET Jobs]
    BY <1>13, <2>1 DEF TypeOK, RunJob
  <2>3. QED
    BY <1>13, <2>2 DEF TypeOK, RunJob, listVars, mainVars, memVars
<1>14. ASSUME NEW op \in Ops, FreeJob(op) PROVE TypeOK'
  <2>1. hand[op] \in Jobs
    BY <1>14, ListFacts DEF FreeJob, Held
  <2>2. block' \in [Blocks -> Nat \union {Nobody}]
    BY <1>14, <2>1, BlockFacts, FreeFacts DEF FreeJob
  <2>3. QED
    BY <1>14, <2>2 DEF TypeOK, FreeJob, listVars, mainVars
<1>15. ASSUME NEW op \in Ops, DeleteNode(op) PROVE TypeOK'
  <2>1. hand[op] \in Jobs /\ jobs[op] \in Seq(Jobs) /\ jobs[op] # <<>>
        /\ jobs' = [jobs EXCEPT ![op] = Tail(@)]
    BY <1>15, DeleteFacts
  <2>2. block' \in [Blocks -> Nat \union {Nobody}]
    BY <1>15, <2>1, BlockFacts, FreeFacts DEF DeleteNode
  <2>3. Tail(jobs[op]) \in Seq(Jobs)
    BY <2>1
  <2>4. jobs' \in [Ops -> Seq(Jobs)]
    BY <2>1, <2>3 DEF TypeOK
  <2>5. QED
    BY <1>15, <2>2, <2>4 DEF TypeOK, DeleteNode, mainVars
<1>16. ASSUME NEW op \in Ops, Uncount(op) PROVE TypeOK'
  <2>0. pending[op] \in Int /\ pending[op] - 1 \in Int
    BY DEF TypeOK
  <2>1. pending' \in [Ops -> Int]
    BY <1>16, <2>0 DEF TypeOK, Uncount
  <2>2. hand' \in [Ops -> Jobs \union {NoJob}]
    BY <1>16 DEF TypeOK, Uncount
  <2>3. QED
    BY <1>16, <2>1, <2>2 DEF TypeOK, Uncount, mainVars, memVars
<1>17. CASE UNCHANGED vars
  BY <1>17 DEF TypeOK, vars, listVars, workerVars, mainVars, memVars
<1>18. QED
  BY <1>1, <1>2, <1>3, <1>4, <1>5, <1>6, <1>7, <1>8, <1>9, <1>10, <1>11, <1>12, <1>13,
     <1>14, <1>15, <1>16, <1>17
  DEF Next, MainRuns, MainGoesOn, WorkerRuns, Works, Locks

LEMMA MutexStep ==
  ASSUME TypeOK, MutexInv, [Next]_vars
  PROVE  MutexInv'
<1> USE OpsFacts DEF TypeOK, MutexInv, Inside
<1>1. CASE EnableThreadSafeness
  BY <1>1 DEF EnableThreadSafeness, listVars, workerVars, mainVars
<1>2. ASSUME NEW op \in Ops, SpawnWorker(op) PROVE MutexInv'
  BY <1>2 DEF SpawnWorker, listVars
<1>3. ASSUME NEW op \in Ops, AllocateJob(op) \/ AskPending(op) PROVE MutexInv'
  BY <1>3 DEF AllocateJob, AskPending, listVars, workerVars
<1>4. CASE LockToCreate
  BY <1>4 DEF LockToCreate, workerVars
<1>5. CASE AllocateNode
  BY <1>5 DEF AllocateNode, listVars, workerVars
<1>6. CASE PushJob
  BY <1>6 DEF PushJob
<1>7. CASE UseAnswer \/ UseBuffer
  BY <1>7 DEF UseAnswer, UseBuffer, listVars, workerVars
<1>8. ASSUME NEW th, UpdateUsed(th) PROVE MutexInv'
  BY <1>8, UpdateFacts DEF listVars, workerVars, mainVars
<1>9. ASSUME NEW op \in Ops, LockToWork(op) \/ LockToDelete(op) PROVE MutexInv'
  BY <1>9 DEF LockToWork, LockToDelete, mainVars
<1>10. ASSUME NEW op \in Ops, WaitForJob(op) \/ PeekJob(op) PROVE MutexInv'
  BY <1>10 DEF WaitForJob, PeekJob, mainVars
<1>11. ASSUME NEW op \in Ops, WakeSpuriously(op) \/ RunJob(op) \/ FreeJob(op) PROVE MutexInv'
  BY <1>11, SMTT(30) DEF WakeSpuriously, RunJob, FreeJob, listVars, mainVars
<1>12. ASSUME NEW op \in Ops, DeleteNode(op) \/ Uncount(op) PROVE MutexInv'
  BY <1>12 DEF DeleteNode, Uncount, mainVars
<1>13. CASE UNCHANGED vars
  BY <1>13 DEF vars, listVars, workerVars, mainVars
<1>14. QED
  BY <1>1, <1>2, <1>3, <1>4, <1>5, <1>6, <1>7, <1>8, <1>9, <1>10, <1>11, <1>12, <1>13
  DEF Next, MainRuns, MainGoesOn, WorkerRuns, Works, Locks

-------------------------------------------------------------------------------
(* What appending a job does to the list, and what it leaves alone.        *)
LEMMA PushFacts ==
  ASSUME TypeOK, ListedInv, FreshInv, PushJob
  PROVE  /\ mop \in Ops /\ created \in Jobs /\ jobs[mop] \in Seq(Jobs)
         /\ jobs' = [jobs EXCEPT ![mop] = Append(jobs[mop], created)]
         /\ accepted' = [accepted EXCEPT ![mop] = accepted[mop] \union {created}]
         /\ Elems(Append(jobs[mop], created)) = Elems(jobs[mop]) \union {created}
         /\ Distinct(Append(jobs[mop], created))
         /\ Len(Append(jobs[mop], created)) = Len(jobs[mop]) + 1
         /\ jobs[mop] # <<>> => Head(Append(jobs[mop], created)) = Head(jobs[mop])
         /\ Append(jobs[mop], created) # <<>>
         /\ \A op \in Ops : created \notin accepted[op]
         /\ \A op \in Ops : wpc'[op] = wpc[op] \/ (wpc[op] = "wait" /\ wpc'[op] = "lock")
<1>1. mop \in Ops /\ created \in Jobs /\ jobs[mop] \in Seq(Jobs)
  BY DEF TypeOK, PushJob, Creating
<1>2. \A op \in Ops : created \notin accepted[op]
  BY DEF FreshInv, PushJob, Creating
<1>3. Distinct(jobs[mop]) /\ created \notin Elems(jobs[mop])
  BY <1>1, <1>2, ListFacts DEF ListedInv
<1>4. Elems(Append(jobs[mop], created)) = Elems(jobs[mop]) \union {created}
      /\ Distinct(Append(jobs[mop], created))
  BY <1>1, <1>3, AppendElems
<1>5. /\ Len(Append(jobs[mop], created)) = Len(jobs[mop]) + 1
      /\ Append(jobs[mop], created) # <<>>
      /\ jobs[mop] # <<>> => Head(Append(jobs[mop], created)) = Head(jobs[mop])
  BY <1>1, AppendHead
<1>6. \A op \in Ops : wpc'[op] = wpc[op] \/ (wpc[op] = "wait" /\ wpc'[op] = "lock")
  <2>1. wpc' = wpc \/ (wpc[mop] = "wait" /\ wpc' = [wpc EXCEPT ![mop] = "lock"])
    BY DEF PushJob
  <2>2. TAKE op \in Ops
  <2>3. CASE wpc' = wpc
    BY <2>3
  <2>4. CASE wpc[mop] = "wait" /\ wpc' = [wpc EXCEPT ![mop] = "lock"] /\ op = mop
    BY <2>4 DEF TypeOK
  <2>5. CASE wpc[mop] = "wait" /\ wpc' = [wpc EXCEPT ![mop] = "lock"] /\ op # mop
    BY <2>5 DEF TypeOK
  <2>6. QED
    BY <2>1, <2>3, <2>4, <2>5
<1>7. QED
  BY <1>1, <1>2, <1>4, <1>5, <1>6 DEF PushJob

(* How far a worker is with a job.                                         *)
Stage(op) == IF wpc[op] \in {"run", "deleted"} THEN wpc[op]
             ELSE IF wpc[op] \in {"ran", "freed", "delete"} THEN "ran" ELSE "none"

LEMMA ListedStep ==
  ASSUME TypeOK, ListedInv, FreshInv, [Next]_vars
  PROVE  ListedInv'
<1>1. ASSUME UNCHANGED <<jobs, pending, accepted, executed, hand>>,
             \A op \in Ops : Stage(op)' = Stage(op)
      PROVE  ListedInv'
  <2>1. \A op \in Ops : /\ Held(op)' <=> Held(op)
                        /\ wpc'[op] \in {"ran", "freed", "delete"} <=> wpc[op] \in {"ran", "freed", "delete"}
                        /\ wpc'[op] = "deleted" <=> wpc[op] = "deleted"
    BY <1>1 DEF Held, Stage
  <2>2. QED
    BY <1>1, <2>1 DEF ListedInv
<1>2. CASE EnableThreadSafeness \/ LockToCreate \/ AllocateNode \/ UseAnswer \/ UseBuffer
  BY <1>1, <1>2 DEF EnableThreadSafeness, LockToCreate, AllocateNode, UseAnswer, UseBuffer,
                    listVars, workerVars, Stage
<1>3. ASSUME NEW op \in Ops, SpawnWorker(op) \/ AllocateJob(op) \/ AskPending(op) PROVE ListedInv'
  BY <1>1, <1>3 DEF SpawnWorker, AllocateJob, AskPending, listVars, workerVars, TypeOK, Stage
<1>4. ASSUME NEW th, UpdateUsed(th) PROVE ListedInv'
  BY <1>1, <1>4, UpdateFacts DEF listVars, workerVars, Stage
<1>5. ASSUME NEW op \in Ops,
             LockToWork(op) \/ WaitForJob(op) \/ WakeSpuriously(op) \/ FreeJob(op) \/ LockToDelete(op)
      PROVE  ListedInv'
  BY <1>1, <1>5 DEF LockToWork, WaitForJob, WakeSpuriously, FreeJob, LockToDelete, listVars, TypeOK, Stage
<1>6. CASE PushJob
  <2>1. UNCHANGED <<executed, hand>> /\ pending' = [pending EXCEPT ![mop] = @ + 1]
    BY <1>6 DEF PushJob
  <2>2. SUFFICES ASSUME NEW op \in Ops
                 PROVE  /\ Distinct(jobs'[op])
                        /\ accepted'[op] = executed[op] \union Elems(jobs'[op])
                        /\ Held(op)' => jobs'[op] # <<>> /\ hand[op] = Head(jobs'[op])
                        /\ wpc'[op] \in {"ran", "freed", "delete"} => hand[op] \in executed[op]
                        /\ pending'[op] = Len(jobs'[op]) + (IF wpc'[op] = "deleted" THEN 1 ELSE 0)
    BY <2>1 DEF ListedInv
  <2>3. /\ Held(op)' => Held(op)
        /\ wpc'[op] \in {"ran", "freed", "delete"} => wpc[op] \in {"ran", "freed", "delete"}
        /\ wpc'[op] = "deleted" <=> wpc[op] = "deleted"
    BY <1>6, PushFacts DEF Held
  <2>4. CASE op # mop
    <3>1. jobs'[op] = jobs[op] /\ accepted'[op] = accepted[op] /\ pending'[op] = pending[op]
      BY <1>6, <2>1, <2>4, PushFacts DEF TypeOK
    <3>2. QED
      BY <2>3, <3>1 DEF ListedInv
  <2>5. CASE op = mop
    <3>1. /\ jobs'[op] = Append(jobs[op], created) /\ accepted'[op] = accepted[op] \union {created}
          /\ pending'[op] = pending[op] + 1
      BY <1>6, <2>1, <2>5, PushFacts DEF TypeOK
    <3>2. /\ Distinct(jobs'[op]) /\ Elems(jobs'[op]) = Elems(jobs[op]) \union {created}
          /\ jobs'[op] # <<>> /\ jobs[op] # <<>> => Head(jobs'[op]) = Head(jobs[op])
          /\ Len(jobs'[op]) = Len(jobs[op]) + 1 /\ Len(jobs[op]) \in Nat
      BY <1>6, <2>5, <3>1, PushFacts, ListFacts
    <3>3. /\ accepted[op] = executed[op] \union Elems(jobs[op])
          /\ Held(op) => jobs[op] # <<>> /\ hand[op] = Head(jobs[op])
          /\ wpc[op] \in {"ran", "freed", "delete"} => hand[op] \in executed[op]
          /\ pending[op] = Len(jobs[op]) + (IF wpc[op] = "deleted" THEN 1 ELSE 0)
      BY DEF ListedInv
    <3>4. accepted'[op] = executed[op] \union Elems(jobs'[op])
      BY <3>1, <3>2, <3>3
    <3>5. Held(op)' => jobs'[op] # <<>> /\ hand[op] = Head(jobs'[op])
      BY <2>3, <3>2, <3>3
    <3>6. pending'[op] = Len(jobs'[op]) + (IF wpc'[op] = "deleted" THEN 1 ELSE 0)
      <4> DEFINE late == IF wpc[op] = "deleted" THEN 1 ELSE 0
      <4>1. late \in {0, 1} /\ late = IF wpc'[op] = "deleted" THEN 1 ELSE 0
        BY <2>3
      <4>2. pending[op] = Len(jobs[op]) + late /\ pending'[op] = pending[op] + 1
        BY <3>1, <3>3
      <4>3. Len(jobs'[op]) = Len(jobs[op]) + 1 /\ Len(jobs[op]) \in Nat
        BY <3>2
      <4>4. pending'[op] = Len(jobs'[op]) + late
        <5> DEFINE m == Len(jobs[op])
                   n == Len(jobs'[op])
        <5>1. n = m + 1 /\ m \in Nat /\ pending[op] = m + late /\ pending'[op] = pending[op] + 1
              /\ late \in {0, 1}
          BY <4>1, <4>2, <4>3
        <5> HIDE DEF m, n, late
        <5>2. pending'[op] = n + late
          BY <5>1
        <5>3. QED
          BY <5>2 DEF n
      <4>5. QED
        BY <4>1, <4>4
    <3>7. QED
      BY <2>3, <3>2, <3>3, <3>4, <3>5, <3>6
  <2>6. QED
    BY <2>4, <2>5
<1>7. ASSUME NEW o \in Ops, PeekJob(o) PROVE ListedInv'
  <2>1. /\ UNCHANGED <<jobs, pending, accepted, executed>>
        /\ hand' = [hand EXCEPT ![o] = Head(jobs[o])]
        /\ wpc' = [wpc EXCEPT ![o] = "run"]
        /\ wpc[o] = "top" /\ jobs[o] # <<>>
    BY <1>7 DEF PeekJob
  <2>2. SUFFICES ASSUME NEW op \in Ops
                 PROVE  /\ Held(op)' => jobs[op] # <<>> /\ hand'[op] = Head(jobs[op])
                        /\ wpc'[op] \in {"ran", "freed", "delete"} => hand'[op] \in executed[op]
                        /\ wpc'[op] = "deleted" <=> wpc[op] = "deleted"
    BY <2>1 DEF ListedInv
  <2>3. CASE op = o
    BY <2>1, <2>3 DEF TypeOK, Held
  <2>4. CASE op # o
    BY <2>1, <2>4 DEF TypeOK, Held, ListedInv
  <2>5. QED
    BY <2>3, <2>4
<1>8. ASSUME NEW o \in Ops, RunJob(o) PROVE ListedInv'
  <2>1. /\ UNCHANGED <<jobs, pending, accepted, hand>>
        /\ executed' = [executed EXCEPT ![o] = executed[o] \union {hand[o]}]
        /\ wpc' = [wpc EXCEPT ![o] = "ran"]
        /\ wpc[o] = "run" /\ Held(o)
    BY <1>8 DEF RunJob, listVars, Held
  <2>2. hand[o] \in Elems(jobs[o]) /\ Elems(jobs[o]) \subseteq accepted[o]
    BY <2>1, ListFacts
  <2>3. SUFFICES ASSUME NEW op \in Ops
                 PROVE  /\ accepted[op] = executed'[op] \union Elems(jobs[op])
                        /\ Held(op)' => Held(op)
                        /\ wpc'[op] \in {"ran", "freed", "delete"} => hand[op] \in executed'[op]
                        /\ wpc'[op] = "deleted" <=> wpc[op] = "deleted"
    BY <2>1 DEF ListedInv
  <2>4. CASE op = o
    BY <2>1, <2>2, <2>4 DEF TypeOK, Held, ListedInv
  <2>5. CASE op # o
    BY <2>1, <2>5 DEF TypeOK, Held, ListedInv
  <2>6. QED
    BY <2>4, <2>5
<1>9. ASSUME NEW o \in Ops, DeleteNode(o) PROVE ListedInv'
  <2>1. /\ UNCHANGED <<pending, accepted, executed, hand>>
        /\ jobs' = [jobs EXCEPT ![o] = Tail(jobs[o])]
        /\ wpc' = [wpc EXCEPT ![o] = "deleted"]
        /\ wpc[o] = "delete"
    BY <1>9, DeleteFacts DEF DeleteNode
  <2>2. SUFFICES ASSUME NEW op \in Ops
                 PROVE  /\ Distinct(jobs'[op])
                        /\ accepted[op] = executed[op] \union Elems(jobs'[op])
                        /\ Held(op)' => jobs'[op] # <<>> /\ hand[op] = Head(jobs'[op])
                        /\ wpc'[op] \in {"ran", "freed", "delete"} => hand[op] \in executed[op]
                        /\ pending[op] = Len(jobs'[op]) + (IF wpc'[op] = "deleted" THEN 1 ELSE 0)
    BY <2>1 DEF ListedInv
  <2>3. CASE op # o
    BY <2>1, <2>3 DEF TypeOK, Held, ListedInv
  <2>4. CASE op = o
    <3>1. /\ Distinct(jobs'[op]) /\ Elems(jobs'[op]) = Elems(jobs[op]) \ {hand[op]}
          /\ hand[op] \in executed[op]
      BY <1>9, <2>1, <2>4, DeleteFacts DEF TypeOK
    <3>2. /\ wpc'[op] = "deleted" /\ ~Held(op)'
      BY <2>1, <2>4 DEF TypeOK, Held
    <3>3. jobs[op] \in Seq(Jobs) /\ jobs[op] # <<>> /\ jobs'[op] = Tail(jobs[op])
      BY <1>9, <2>1, <2>4, DeleteFacts DEF TypeOK
    <3>4. Len(jobs'[op]) = Len(jobs[op]) - 1 /\ Len(jobs[op]) \in Nat
      BY <3>3
    <3>5. pending[op] = Len(jobs[op])
      <4>1. pending[op] = Len(jobs[op]) + (IF wpc[op] = "deleted" THEN 1 ELSE 0)
        BY DEF ListedInv
      <4>2. QED
        BY <2>1, <2>4, <3>4, <4>1
    <3>6. accepted[op] = executed[op] \union Elems(jobs'[op])
      BY <3>1 DEF ListedInv
    <3>7. QED
      BY <3>1, <3>2, <3>4, <3>5, <3>6
  <2>5. QED
    BY <2>3, <2>4
<1>10. ASSUME NEW o \in Ops, Uncount(o) PROVE ListedInv'
  <2>1. /\ UNCHANGED <<jobs, accepted, executed>>
        /\ pending' = [pending EXCEPT ![o] = pending[o] - 1]
        /\ hand' = [hand EXCEPT ![o] = NoJob]
        /\ wpc' = [wpc EXCEPT ![o] = "top"]
        /\ wpc[o] = "deleted"
    BY <1>10 DEF Uncount
  <2>2. SUFFICES ASSUME NEW op \in Ops
                 PROVE  /\ Held(op)' => jobs[op] # <<>> /\ hand'[op] = Head(jobs[op])
                        /\ wpc'[op] \in {"ran", "freed", "delete"} => hand'[op] \in executed[op]
                        /\ pending'[op] = Len(jobs[op]) + (IF wpc'[op] = "deleted" THEN 1 ELSE 0)
    BY <2>1 DEF ListedInv
  <2>3. CASE op # o
    BY <2>1, <2>3 DEF TypeOK, Held, ListedInv
  <2>4. CASE op = o
    <3>1. pending[op] = Len(jobs[op]) + 1 /\ Len(jobs[op]) \in Nat
      BY <2>1, <2>4, ListFacts DEF ListedInv
    <3>2. pending'[op] = pending[op] - 1 /\ wpc'[op] = "top" /\ ~Held(op)'
      BY <2>1, <2>4 DEF TypeOK, Held
    <3>3. QED
      BY <3>1, <3>2
  <2>5. QED
    BY <2>3, <2>4
<1>11. CASE UNCHANGED vars
  BY <1>1, <1>11 DEF vars, listVars, workerVars, Stage
<1>12. QED
  BY <1>2, <1>3, <1>4, <1>5, <1>6, <1>7, <1>8, <1>9, <1>10, <1>11
  DEF Next, MainRuns, MainGoesOn, WorkerRuns, Works, Locks

-------------------------------------------------------------------------------
LEMMA FreshStep ==
  ASSUME TypeOK, ListedInv, FreshInv, [Next]_vars
  PROVE  FreshInv'
<1>1. ASSUME UNCHANGED <<accepted, created>>, Creating' => Creating PROVE FreshInv'
  BY <1>1 DEF FreshInv
<1>2. ASSUME NEW o \in Ops, AllocateJob(o) PROVE FreshInv'
  <2>1. accepted' = accepted /\ created' = created + 1 /\ created \in Nat
    BY <1>2, BioAssumption DEF AllocateJob, listVars, TypeOK
  <2>2. \A op \in Ops : accepted[op] \subseteq Nat /\ \A j \in accepted[op] : j <= created
    BY DEF FreshInv, TypeOK, Jobs
  <2>3. \A op \in Ops : \A j \in accepted[op] : j <= created + 1 /\ j # created + 1
    BY <2>1, <2>2
  <2>4. QED
    BY <2>1, <2>3 DEF FreshInv
<1>3. CASE PushJob
  <2>1. created' = created /\ created \in Nat /\ ~Creating'
    BY <1>3, BioAssumption DEF PushJob, Creating, TypeOK
  <2>2. \A op \in Ops \ {mop} : accepted'[op] = accepted[op]
    BY <1>3, PushFacts DEF TypeOK
  <2>3. accepted'[mop] = accepted[mop] \union {created}
    BY <1>3, PushFacts DEF TypeOK
  <2>4. \A op \in Ops : created \notin accepted[op]
    BY <1>3, PushFacts
  <2>5. \A op \in Ops : \A j \in accepted'[op] : j <= created
    BY <2>1, <2>2, <2>3 DEF FreshInv
  <2>6. \A op, o \in Ops : op # o => accepted'[op] \intersect accepted'[o] = {}
    BY <2>2, <2>3, <2>4 DEF FreshInv
  <2>7. QED
    BY <2>1, <2>5, <2>6 DEF FreshInv
<1>4. CASE EnableThreadSafeness \/ LockToCreate \/ AllocateNode \/ UseAnswer \/ UseBuffer
  BY <1>1, <1>4 DEF EnableThreadSafeness, LockToCreate, AllocateNode, UseAnswer, UseBuffer,
                    listVars, mainVars, Creating
<1>5. ASSUME NEW op \in Ops, SpawnWorker(op) \/ AskPending(op) PROVE FreshInv'
  BY <1>1, <1>5 DEF SpawnWorker, AskPending, listVars, Creating
<1>6. ASSUME NEW th, UpdateUsed(th) PROVE FreshInv'
  BY <1>1, <1>6, UpdateFacts DEF listVars, mainVars, Creating
<1>7. ASSUME NEW op \in Ops,
             \/ LockToWork(op) \/ WaitForJob(op) \/ WakeSpuriously(op) \/ PeekJob(op) \/ RunJob(op)
             \/ FreeJob(op) \/ LockToDelete(op) \/ DeleteNode(op) \/ Uncount(op)
      PROVE  FreshInv'
  BY <1>1, <1>7 DEF LockToWork, WaitForJob, WakeSpuriously, PeekJob, RunJob, FreeJob,
                    LockToDelete, DeleteNode, Uncount, listVars, mainVars, Creating
<1>8. CASE UNCHANGED vars
  BY <1>1, <1>8 DEF vars, listVars, mainVars, Creating
<1>9. QED
  BY <1>2, <1>3, <1>4, <1>5, <1>6, <1>7, <1>8
  DEF Next, MainRuns, MainGoesOn, WorkerRuns, Works, Locks

-------------------------------------------------------------------------------
LEMMA BlockStep ==
  ASSUME TypeOK, ListedInv, FreshInv, BlockInv, [Next]_vars
  PROVE  BlockInv'
<1>0. ASSUME NEW op \in Ops, NEW j \in accepted[op] PROVE j \in Jobs
  BY <1>0 DEF TypeOK
<1>1. ASSUME UNCHANGED <<accepted, jobs, created>>,
             \A j \in Jobs : /\ block'[JobBlock(j)] = block[JobBlock(j)]
                             /\ block'[NodeBlock(j)] = block[NodeBlock(j)],
             \A op \in Ops : /\ Released(op)' <=> Released(op)
                             /\ Released(op) => hand'[op] = hand[op],
             Creating' => Creating, mpc' = "push" => mpc = "push"
      PROVE  BlockInv'
  <2>1. Creating => created \in Jobs
    BY DEF TypeOK
  <2>2. mpc = "push" => Creating
    BY DEF Creating
  <2>3. QED
    BY <1>0, <1>1, <2>1, <2>2 DEF BlockInv, JobBlock, NodeBlock
<1>2. ASSUME block' = block PROVE \A j \in Jobs : /\ block'[JobBlock(j)] = block[JobBlock(j)]
                                                 /\ block'[NodeBlock(j)] = block[NodeBlock(j)]
  BY <1>2 DEF JobBlock, NodeBlock
<1>3. ASSUME NEW o \in Ops, AllocateJob(o) PROVE BlockInv'
  <2>1. /\ UNCHANGED <<accepted, jobs, wpc, hand>>
        /\ created' = created + 1 /\ created < MaxJobs /\ mpc' = "allocated"
    BY <1>3 DEF AllocateJob, listVars, workerVars
  <2>0. created + 1 \in Jobs
    BY <2>1, BioAssumption DEF TypeOK, Jobs
  <2>2. /\ block'[JobBlock(created + 1)] # Nobody
        /\ \A c \in Blocks \ {JobBlock(created + 1)} : block'[c] = block[c]
    BY <1>3, <2>0, BlockFacts, AllocateFacts, BioAssumption DEF AllocateJob
  <2>3. \A op \in Ops : \A j \in accepted[op] : j # created + 1
    BY <2>1 DEF FreshInv, TypeOK, Jobs
  <2>4. \A op \in Ops : \A j \in accepted[op] :
          /\ block'[JobBlock(j)] = block[JobBlock(j)]
          /\ block'[NodeBlock(j)] = block[NodeBlock(j)]
    BY <1>0, <2>0, <2>2, <2>3, BlockFacts
  <2>5. \A op \in Ops : Released(op)' <=> Released(op)
    BY <2>1 DEF Released
  <2>6. block'[JobBlock(created')] # Nobody
    BY <2>1, <2>2
  <2>7. QED
    BY <2>1, <2>4, <2>5, <2>6 DEF BlockInv, JobBlock, NodeBlock
<1>4. CASE AllocateNode
  <2>1. /\ UNCHANGED <<accepted, jobs, wpc, hand, created>>
        /\ mpc = "locked" /\ mpc' = "push" /\ Creating /\ created \in Jobs
    BY <1>4 DEF AllocateNode, listVars, workerVars, TypeOK, Creating
  <2>2. /\ block'[NodeBlock(created)] # Nobody
        /\ \A c \in Blocks \ {NodeBlock(created)} : block'[c] = block[c]
    BY <1>4, <2>1, BlockFacts, AllocateFacts, BioAssumption DEF AllocateNode
  <2>3. \A op \in Ops : \A j \in accepted[op] : j # created
    BY <2>1 DEF FreshInv
  <2>4. \A op \in Ops : \A j \in accepted[op] :
          /\ block'[JobBlock(j)] = block[JobBlock(j)]
          /\ block'[NodeBlock(j)] = block[NodeBlock(j)]
    BY <1>0, <2>1, <2>2, <2>3, BlockFacts
  <2>5. \A op \in Ops : Released(op)' <=> Released(op)
    BY <2>1 DEF Released
  <2>6. block'[JobBlock(created)] # Nobody
    BY <2>1, <2>2, BlockFacts DEF BlockInv
  <2>7. QED
    BY <2>1, <2>2, <2>4, <2>5, <2>6 DEF BlockInv, JobBlock, NodeBlock
<1>5. CASE PushJob
  <2>1. /\ UNCHANGED <<block, hand, created>> /\ ~Creating' /\ mpc' # "push"
        /\ block[JobBlock(created)] # Nobody /\ block[NodeBlock(created)] # Nobody
    BY <1>5 DEF PushJob, memVars, BlockInv, Creating
  <2>2. \A op \in Ops : Released(op)' <=> Released(op)
    BY <1>5, PushFacts DEF Released
  <2>3. \A op \in Ops : Released(op) => hand[op] # created
    <3>1. SUFFICES ASSUME NEW op \in Ops, Released(op) PROVE hand[op] # created
      OBVIOUS
    <3>2. Held(op)
      BY <3>1 DEF Released, Held
    <3>3. hand[op] \in accepted[op]
      BY <3>2, ListFacts
    <3>4. QED
      BY <1>5, <3>3, PushFacts
  <2>4. SUFFICES ASSUME NEW op \in Ops, NEW j \in accepted'[op]
                 PROVE  /\ block[NodeBlock(j)] # Nobody <=> j \in Elems(jobs'[op])
                        /\ block[JobBlock(j)] # Nobody <=> j \in Elems(jobs'[op]) /\ ~(Released(op) /\ j = hand[op])
    BY <2>1, <2>2 DEF BlockInv, JobBlock, NodeBlock
  <2>5. CASE op # mop
    <3>1. jobs'[op] = jobs[op] /\ accepted'[op] = accepted[op]
      BY <1>5, <2>5, PushFacts DEF TypeOK
    <3>2. QED
      BY <3>1 DEF BlockInv
  <2>6. CASE op = mop
    <3>1. /\ accepted'[op] = accepted[op] \union {created}
          /\ Elems(jobs'[op]) = Elems(jobs[op]) \union {created}
          /\ created \notin accepted[op]
      BY <1>5, <2>6, PushFacts DEF TypeOK
    <3>2. CASE j = created
      BY <2>1, <2>3, <3>1, <3>2
    <3>3. CASE j # created
      BY <3>1, <3>3 DEF BlockInv
    <3>4. QED
      BY <3>2, <3>3
  <2>7. QED
    BY <2>5, <2>6
<1>6. ASSUME NEW o \in Ops, FreeJob(o) PROVE BlockInv'
  <2>1. /\ UNCHANGED <<accepted, jobs, hand, created, mpc>>
        /\ wpc' = [wpc EXCEPT ![o] = "freed"] /\ wpc[o] = "ran" /\ Held(o)
    BY <1>6 DEF FreeJob, listVars, mainVars, Held
  <2>2. hand[o] \in Jobs /\ hand[o] \in accepted[o]
    BY <2>1, ListFacts
  <2>3. /\ block'[JobBlock(hand[o])] = Nobody
        /\ \A c \in Blocks \ {JobBlock(hand[o])} : block'[c] = block[c]
    BY <1>6, <2>2, BlockFacts, FreeFacts DEF FreeJob
  <2>4. \A j \in Jobs : /\ block'[NodeBlock(j)] = block[NodeBlock(j)]
                        /\ j # hand[o] => block'[JobBlock(j)] = block[JobBlock(j)]
    BY <2>2, <2>3, BlockFacts
  <2>5. Creating => created # hand[o]
    BY <2>2 DEF FreshInv
  <2>6. Released(o)' /\ ~Released(o) /\ \A op \in Ops \ {o} : Released(op)' <=> Released(op)
    BY <2>1 DEF Released, TypeOK
  <2>7. ASSUME NEW op \in Ops, NEW j \in accepted[op]
        PROVE  /\ block'[NodeBlock(j)] # Nobody <=> j \in Elems(jobs[op])
               /\ block'[JobBlock(j)] # Nobody <=> j \in Elems(jobs[op]) /\ ~(Released(op)' /\ j = hand[op])
    <3>1. j \in Jobs
      BY <1>0, <2>7
    <3>2. CASE op = o /\ j = hand[o]
      BY <2>3, <2>4, <2>6, <3>1, <3>2 DEF BlockInv, JobBlock
    <3>3. CASE op = o /\ j # hand[o]
      BY <2>4, <2>6, <3>1, <3>3 DEF BlockInv
    <3>4. CASE op # o
      <4>1. j # hand[o]
        BY <2>2, <3>4 DEF FreshInv
      <4>2. QED
        BY <2>4, <2>6, <3>1, <3>4, <4>1 DEF BlockInv
    <3>5. QED
      BY <3>2, <3>3, <3>4
  <2>8. Creating => created \in Jobs
    BY DEF TypeOK
  <2>9. (Creating => block'[JobBlock(created)] # Nobody) /\ (mpc = "push" => block'[NodeBlock(created)] # Nobody)
    BY <2>4, <2>5, <2>8 DEF BlockInv, Creating
  <2>10. QED
    BY <2>1, <2>7, <2>9 DEF BlockInv, JobBlock, NodeBlock, Creating
<1>7. ASSUME NEW o \in Ops, DeleteNode(o) PROVE BlockInv'
  <2>1. /\ UNCHANGED <<accepted, hand, created, mpc>>
        /\ wpc' = [wpc EXCEPT ![o] = "deleted"] /\ wpc[o] = "delete" /\ Held(o)
    BY <1>7 DEF DeleteNode, mainVars, Held
  <2>2. hand[o] \in Jobs /\ hand[o] \in accepted[o]
    BY <2>1, ListFacts
  <2>3. /\ block'[NodeBlock(hand[o])] = Nobody
        /\ \A c \in Blocks \ {NodeBlock(hand[o])} : block'[c] = block[c]
    BY <1>7, <2>2, BlockFacts, FreeFacts DEF DeleteNode
  <2>4. \A j \in Jobs : /\ block'[JobBlock(j)] = block[JobBlock(j)]
                        /\ j # hand[o] => block'[NodeBlock(j)] = block[NodeBlock(j)]
    BY <2>2, <2>3, BlockFacts
  <2>5. Creating => created # hand[o]
    BY <2>2 DEF FreshInv
  <2>6. ~Released(o)' /\ Released(o) /\ \A op \in Ops \ {o} : Released(op)' <=> Released(op)
    BY <2>1 DEF Released, TypeOK
  <2>7. /\ Elems(jobs'[o]) = Elems(jobs[o]) \ {hand[o]}
        /\ \A op \in Ops \ {o} : jobs'[op] = jobs[op]
    BY <1>7, DeleteFacts DEF TypeOK
  <2>8. ASSUME NEW op \in Ops, NEW j \in accepted[op]
        PROVE  /\ block'[NodeBlock(j)] # Nobody <=> j \in Elems(jobs'[op])
               /\ block'[JobBlock(j)] # Nobody <=> j \in Elems(jobs'[op]) /\ ~(Released(op)' /\ j = hand[op])
    <3>1. j \in Jobs
      BY <1>0, <2>8
    <3>2. CASE op = o /\ j = hand[o]
      <4>1. block[JobBlock(j)] = Nobody
        BY <2>6, <3>2 DEF BlockInv
      <4>2. block'[NodeBlock(j)] = Nobody
        BY <2>3, <3>2 DEF NodeBlock
      <4>3. QED
        BY <2>4, <2>7, <3>1, <3>2, <4>1, <4>2
    <3>3. CASE op = o /\ j # hand[o]
      BY <2>4, <2>6, <2>7, <3>1, <3>3 DEF BlockInv
    <3>4. CASE op # o
      <4>1. j # hand[o]
        BY <2>2, <3>4 DEF FreshInv
      <4>2. QED
        BY <2>4, <2>6, <2>7, <3>1, <3>4, <4>1 DEF BlockInv
    <3>5. QED
      BY <3>2, <3>3, <3>4
  <2>9. Creating => created \in Jobs
    BY DEF TypeOK
  <2>10. (Creating => block'[JobBlock(created)] # Nobody) /\ (mpc = "push" => block'[NodeBlock(created)] # Nobody)
    BY <2>4, <2>5, <2>9 DEF BlockInv, Creating
  <2>11. QED
    BY <2>1, <2>8, <2>10 DEF BlockInv, JobBlock, NodeBlock, Creating
<1>8. CASE EnableThreadSafeness \/ LockToCreate \/ UseAnswer
  BY <1>1, <1>2, <1>8 DEF EnableThreadSafeness, LockToCreate, UseAnswer, listVars, workerVars,
     mainVars, memVars, Memory!zmalloc_enable_thread_safeness, Creating, Released
<1>9. CASE UseBuffer
  BY <1>1, <1>9, BufferFacts DEF UseBuffer, listVars, workerVars, Creating, Released
<1>10. ASSUME NEW op \in Ops, SpawnWorker(op) \/ AskPending(op) PROVE BlockInv'
  BY <1>1, <1>2, <1>10 DEF SpawnWorker, AskPending, listVars, workerVars, memVars, Creating,
     Released, TypeOK
<1>11. ASSUME NEW th, UpdateUsed(th) PROVE BlockInv'
  BY <1>1, <1>2, <1>11, UpdateFacts DEF listVars, workerVars, mainVars, Creating, Released
<1>12. ASSUME NEW op \in Ops,
              \/ LockToWork(op) \/ WaitForJob(op) \/ WakeSpuriously(op) \/ RunJob(op)
              \/ LockToDelete(op)
       PROVE  BlockInv'
  BY <1>1, <1>2, <1>12 DEF LockToWork, WaitForJob, WakeSpuriously, RunJob, LockToDelete,
     listVars, mainVars, memVars, Creating, Released, TypeOK
<1>13. ASSUME NEW op \in Ops, PeekJob(op) \/ Uncount(op) PROVE BlockInv'
  BY <1>1, <1>2, <1>13 DEF PeekJob, Uncount, mainVars, memVars, Creating, Released, TypeOK
<1>14. CASE UNCHANGED vars
  BY <1>1, <1>2, <1>14 DEF vars, listVars, workerVars, mainVars, memVars, Creating, Released
<1>15. QED
  BY <1>3, <1>4, <1>5, <1>6, <1>7, <1>8, <1>9, <1>10, <1>11, <1>12, <1>13, <1>14
  DEF Next, MainRuns, MainGoesOn, WorkerRuns, Works, Locks

-------------------------------------------------------------------------------
LEMMA AnswerStep ==
  ASSUME TypeOK, MutexInv, ListedInv, AnswerListed, [Next]_vars
  PROVE  AnswerListed'
<1> USE DEF AnswerListed
<1>1. ASSUME UNCHANGED <<jobs, mop, answer>>, mpc' = "answered" => mpc = "answered"
      PROVE  AnswerListed'
  BY <1>1
<1>2. ASSUME mpc' # "answered" PROVE AnswerListed'
  BY <1>2
<1>3. ASSUME NEW op \in Ops, AskPending(op) PROVE AnswerListed'
  <2>1. mutex[op] = Nobody /\ answer' = pending[op] /\ mop' = op /\ jobs' = jobs
    BY <1>3 DEF AskPending, listVars
  <2>2. wpc[op] # "deleted"
    BY <2>1, OpsFacts DEF MutexInv, Inside
  <2>3. pending[op] = Len(jobs[op])
    <3>1. pending[op] = Len(jobs[op]) + (IF wpc[op] = "deleted" THEN 1 ELSE 0)
      BY DEF ListedInv
    <3>2. QED
      BY <2>2, <3>1, ListFacts
  <2>4. jobs[op] \in Seq(Jobs) /\ (Len(jobs[op]) = 0 => jobs[op] = <<>>)
    BY DEF TypeOK
  <2>5. QED
    BY <2>1, <2>3, <2>4
<1>4. ASSUME NEW op \in Ops, DeleteNode(op) PROVE AnswerListed'
  <2>1. UNCHANGED <<mpc, mop, answer>> /\ jobs[op] # <<>> /\ jobs' = [jobs EXCEPT ![op] = Tail(@)]
    BY <1>4, DeleteFacts DEF DeleteNode, mainVars
  <2>2. CASE mop = op
    BY <2>1, <2>2
  <2>3. CASE mop # op
    BY <2>1, <2>3 DEF TypeOK
  <2>4. QED
    BY <2>2, <2>3
<1>5. CASE EnableThreadSafeness \/ LockToCreate \/ AllocateNode \/ PushJob \/ UseAnswer \/ UseBuffer
  BY <1>2, <1>5 DEF EnableThreadSafeness, LockToCreate, AllocateNode, PushJob, UseAnswer,
                    UseBuffer, mainVars
<1>6. ASSUME NEW op \in Ops, SpawnWorker(op) \/ AllocateJob(op) PROVE AnswerListed'
  BY <1>2, <1>6 DEF SpawnWorker, AllocateJob
<1>7. ASSUME NEW th, UpdateUsed(th) PROVE AnswerListed'
  BY <1>1, <1>7, UpdateFacts DEF listVars, mainVars
<1>8. ASSUME NEW op \in Ops,
             \/ LockToWork(op) \/ WaitForJob(op) \/ WakeSpuriously(op) \/ PeekJob(op) \/ RunJob(op)
             \/ FreeJob(op) \/ LockToDelete(op) \/ Uncount(op)
      PROVE  AnswerListed'
  BY <1>1, <1>8 DEF LockToWork, WaitForJob, WakeSpuriously, PeekJob, RunJob, FreeJob,
                    LockToDelete, Uncount, listVars, mainVars
<1>9. CASE UNCHANGED vars
  BY <1>1, <1>9 DEF vars, listVars, mainVars
<1>10. QED
  BY <1>3, <1>4, <1>5, <1>6, <1>7, <1>8, <1>9
  DEF Next, MainRuns, MainGoesOn, WorkerRuns, Works, Locks

LEMMA InitInv == Init => IInv
<1> SUFFICES ASSUME Init PROVE IInv
  OBVIOUS
<1> USE OpsFacts, BioAssumption
<1>1. TypeOK
  BY DEF Init, TypeOK, Creating, NoJob, Memory!MemoryInit
<1>2. MutexInv
  BY DEF Init, MutexInv, Inside
<1>3. ListedInv
  <2>1. Distinct(<<>>) /\ Elems(<<>>) = {} /\ Len(<<>>) = 0
    BY DEF Distinct, Elems
  <2>2. QED
    BY <2>1 DEF Init, ListedInv, Held
<1>4. FreshInv /\ BlockInv /\ AnswerListed
  BY DEF Init, FreshInv, BlockInv, AnswerListed, Creating
<1>5. QED
  BY <1>1, <1>2, <1>3, <1>4 DEF IInv

LEMMA NextInv == IInv /\ [Next]_vars => IInv'
  BY TypeStep, MutexStep, ListedStep, FreshStep, BlockStep, AnswerStep DEF IInv

(* The inductive invariant holds throughout.                               *)
THEOREM Inductive == Spec => []IInv
  BY InitInv, NextInv, PTL DEF Spec

(* While a worker runs, frees and deletes a job without the mutex its node *)
(* stays the head of the list and is freed by nobody else, and the counter *)
(* counts the job to the end (bio.c:239-265).                              *)
THEOREM HeadKept == Spec => []HeadInv
<1>1. ASSUME IInv PROVE HeadInv
  <2>1. SUFFICES ASSUME NEW op \in Ops
                 PROVE  /\ Held(op) => /\ jobs[op] # <<>>
                                       /\ hand[op] = Head(jobs[op])
                                       /\ block[NodeBlock(hand[op])] # Nobody
                        /\ wpc[op] \in {"run", "ran"} => block[JobBlock(hand[op])] # Nobody
                        /\ pending[op] = Len(jobs[op]) + (IF wpc[op] = "deleted" THEN 1 ELSE 0)
    BY DEF HeadInv, Held
  <2>2. Held(op) => hand[op] \in Elems(jobs[op]) /\ hand[op] \in accepted[op]
    BY <1>1, ListFacts DEF IInv
  <2>3. wpc[op] \in {"run", "ran"} => Held(op) /\ ~Released(op)
    BY DEF Held, Released
  <2>4. QED
    BY <1>1, <2>2, <2>3 DEF IInv, ListedInv, BlockInv
<1>2. QED
  BY <1>1, Inductive, PTL

(* When bioPendingJobsOfType has returned 0 and main uses the answer, all  *)
(* jobs of the type are performed and their memory given back.             *)
THEOREM AnswerKept == Spec => []AnswerInv
<1>1. ASSUME IInv PROVE AnswerInv
  <2>1. SUFFICES ASSUME jobs[mop] = <<>>
                 PROVE  /\ executed[mop] = accepted[mop]
                        /\ \A j \in accepted[mop] : block[JobBlock(j)] = Nobody /\ block[NodeBlock(j)] = Nobody
    BY <1>1 DEF IInv, AnswerInv, AnswerListed
  <2>2. Elems(<<>>) = {}
    BY DEF Elems
  <2>3. mop \in Ops
    BY <1>1 DEF IInv, TypeOK
  <2>4. QED
    BY <1>1, <2>1, <2>2, <2>3 DEF IInv, ListedInv, BlockInv
<1>2. QED
  BY <1>1, Inductive, PTL

-------------------------------------------------------------------------------
(* Every step of the threads is a step of the abstract job pool or leaves  *)
(* it alone.                                                               *)
PoolQueue(op) == IF Held(op) THEN Tail(jobs[op]) ELSE jobs[op]
PoolRunning(op) == IF wpc[op] = "run" THEN hand[op] ELSE NoJob

LEMMA PoolInitStep == Init => Pool!PoolInit
  BY DEF Init, Pool!PoolInit, Held

LEMMA PoolStep ==
  ASSUME TypeOK, ListedInv, FreshInv, [Next]_vars
  PROVE  [Pool!PoolNext]_(Pool!poolVars)
<1>1. ASSUME executed' = executed,
             \A op \in Ops : PoolQueue(op)' = PoolQueue(op) /\ PoolRunning(op)' = PoolRunning(op)
      PROVE  UNCHANGED Pool!poolVars
  BY <1>1 DEF Pool!poolVars, PoolQueue, PoolRunning
<1>2. ASSUME UNCHANGED <<jobs, executed, hand>>,
             \A op \in Ops : /\ Held(op)' <=> Held(op)
                             /\ wpc'[op] = "run" <=> wpc[op] = "run"
      PROVE  UNCHANGED Pool!poolVars
  BY <1>1, <1>2 DEF PoolQueue, PoolRunning
<1>3. CASE PushJob
  <2>0. PICK o \in Ops, j \in Jobs : o = mop /\ j = created
    BY <1>3, PushFacts
  <2>1. /\ jobs[o] \in Seq(Jobs) /\ j \notin accepted[o]
        /\ UNCHANGED <<executed, hand>>
        /\ jobs' = [jobs EXCEPT ![o] = Append(jobs[o], j)]
    BY <1>3, <2>0, PushFacts DEF PushJob
  <2>2. \A op \in Ops : /\ Held(op)' <=> Held(op)
                        /\ wpc'[op] = "run" <=> wpc[op] = "run"
    BY <1>3, PushFacts DEF Held
  <2>3. j \notin executed[o] /\ j \notin Elems(jobs[o])
    BY <2>1 DEF ListedInv
  <2>4. PoolQueue(o)' = Append(PoolQueue(o), j)
    <3>1. jobs'[o] = Append(jobs[o], j)
      BY <2>1 DEF TypeOK
    <3>2. Held(o) => jobs[o] # <<>>
      BY DEF ListedInv
    <3>3. jobs[o] # <<>> => Tail(Append(jobs[o], j)) = Append(Tail(jobs[o]), j)
      BY <2>1, AppendTail
    <3>4. QED
      BY <2>2, <3>1, <3>2, <3>3 DEF PoolQueue
  <2>5. \A op \in Ops \ {o} : PoolQueue(op)' = PoolQueue(op)
    BY <2>1, <2>2 DEF PoolQueue, TypeOK
  <2>6. \A op \in Ops : PoolRunning(op)' = PoolRunning(op)
    BY <2>1, <2>2 DEF PoolRunning
  <2>7. \A i \in DOMAIN PoolQueue(o) : PoolQueue(o)[i] # j
    <3>1. Elems(PoolQueue(o)) \subseteq Elems(jobs[o])
      BY <2>1, TailElems DEF PoolQueue, ListedInv
    <3>2. QED
      BY <2>3, <3>1 DEF Elems
  <2>8. PoolRunning(o) # j
    <3>1. wpc[o] = "run" => hand[o] \in Elems(jobs[o])
      BY ListFacts DEF Held
    <3>2. NoJob # j
      BY DEF NoJob, Jobs
    <3>3. QED
      BY <2>3, <3>1, <3>2 DEF PoolRunning
  <2>9. Pool!Accept(o, j)
    BY <2>1, <2>3, <2>4, <2>5, <2>6, <2>7, <2>8 DEF Pool!Accept, PoolQueue, PoolRunning
  <2>10. QED
    BY <2>9 DEF Pool!PoolNext, Pool!poolVars
<1>4. ASSUME NEW o \in Ops, PeekJob(o) PROVE Pool!Take(o)
  <2>1. /\ UNCHANGED <<jobs, executed>> /\ jobs[o] # <<>> /\ wpc[o] = "top"
        /\ hand' = [hand EXCEPT ![o] = Head(jobs[o])]
        /\ wpc' = [wpc EXCEPT ![o] = "run"]
    BY <1>4 DEF PeekJob
  <2>2. /\ PoolRunning(o) = NoJob /\ PoolQueue(o) = jobs[o]
        /\ PoolRunning(o)' = Head(jobs[o]) /\ PoolQueue(o)' = Tail(jobs[o])
    BY <2>1 DEF PoolRunning, PoolQueue, Held, TypeOK
  <2>3. \A op \in Ops \ {o} : PoolRunning(op)' = PoolRunning(op) /\ PoolQueue(op)' = PoolQueue(op)
    BY <2>1 DEF PoolRunning, PoolQueue, Held, TypeOK
  <2>4. QED
    BY <2>1, <2>2, <2>3 DEF Pool!Take, PoolRunning, PoolQueue
<1>5. ASSUME NEW o \in Ops, RunJob(o) PROVE Pool!Finish(o)
  <2>1. /\ UNCHANGED <<jobs, hand>> /\ wpc[o] = "run"
        /\ executed' = [executed EXCEPT ![o] = @ \union {hand[o]}]
        /\ wpc' = [wpc EXCEPT ![o] = "ran"]
    BY <1>5 DEF RunJob, listVars
  <2>2. hand[o] \in Jobs
    BY <2>1, ListFacts DEF Held
  <2>3. /\ PoolRunning(o) = hand[o] /\ hand[o] # NoJob /\ PoolRunning(o)' = NoJob
        /\ PoolQueue(o)' = PoolQueue(o)
    BY <2>1, <2>2 DEF PoolRunning, PoolQueue, Held, TypeOK, NoJob, Jobs
  <2>4. \A op \in Ops \ {o} : PoolRunning(op)' = PoolRunning(op) /\ PoolQueue(op)' = PoolQueue(op)
    BY <2>1 DEF PoolRunning, PoolQueue, Held, TypeOK
  <2>5. QED
    BY <2>1, <2>3, <2>4 DEF Pool!Finish, PoolRunning, PoolQueue
<1>6. ASSUME NEW o \in Ops, DeleteNode(o) PROVE UNCHANGED Pool!poolVars
  <2>1. /\ UNCHANGED <<executed, hand>> /\ wpc[o] = "delete"
        /\ wpc' = [wpc EXCEPT ![o] = "deleted"]
        /\ jobs' = [jobs EXCEPT ![o] = Tail(jobs[o])]
    BY <1>6, DeleteFacts DEF DeleteNode
  <2>2. PoolQueue(o)' = PoolQueue(o) /\ PoolRunning(o)' = PoolRunning(o)
    BY <2>1 DEF PoolRunning, PoolQueue, Held, TypeOK
  <2>3. \A op \in Ops \ {o} : PoolRunning(op)' = PoolRunning(op) /\ PoolQueue(op)' = PoolQueue(op)
    BY <2>1 DEF PoolRunning, PoolQueue, Held, TypeOK
  <2>4. QED
    BY <1>1, <2>1, <2>2, <2>3
<1>7. ASSUME NEW o \in Ops, Uncount(o) PROVE UNCHANGED Pool!poolVars
  <2>1. /\ UNCHANGED <<executed, jobs>> /\ wpc[o] = "deleted"
        /\ hand' = [hand EXCEPT ![o] = NoJob] /\ wpc' = [wpc EXCEPT ![o] = "top"]
    BY <1>7 DEF Uncount
  <2>2. \A op \in Ops : PoolRunning(op)' = PoolRunning(op) /\ PoolQueue(op)' = PoolQueue(op)
    BY <2>1 DEF PoolRunning, PoolQueue, Held, TypeOK
  <2>3. QED
    BY <1>1, <2>1, <2>2
<1>8. CASE EnableThreadSafeness \/ LockToCreate \/ AllocateNode \/ UseAnswer \/ UseBuffer
  BY <1>2, <1>8 DEF EnableThreadSafeness, LockToCreate, AllocateNode, UseAnswer, UseBuffer,
                    listVars, workerVars, Held
<1>9. ASSUME NEW op \in Ops, SpawnWorker(op) \/ AllocateJob(op) \/ AskPending(op)
      PROVE  UNCHANGED Pool!poolVars
  BY <1>2, <1>9 DEF SpawnWorker, AllocateJob, AskPending, listVars, workerVars, Held, TypeOK
<1>10. ASSUME NEW th, UpdateUsed(th) PROVE UNCHANGED Pool!poolVars
  BY <1>2, <1>10, UpdateFacts DEF listVars, workerVars, Held
<1>11. ASSUME NEW op \in Ops,
              LockToWork(op) \/ WaitForJob(op) \/ WakeSpuriously(op) \/ FreeJob(op) \/ LockToDelete(op)
       PROVE  UNCHANGED Pool!poolVars
  BY <1>2, <1>11 DEF LockToWork, WaitForJob, WakeSpuriously, FreeJob, LockToDelete,
                     listVars, Held, TypeOK
<1>12. CASE UNCHANGED vars
  BY <1>2, <1>12 DEF vars, listVars, workerVars, Held
<1>13. QED
  BY <1>3, <1>4, <1>5, <1>6, <1>7, <1>8, <1>9, <1>10, <1>11, <1>12
  DEF Next, MainRuns, MainGoesOn, WorkerRuns, Works, Locks, Pool!PoolNext

(* The threads of the middleware server implement the safety part of       *)
(* JobPool: each accepted job is taken once, in the order of acceptance.   *)
THEOREM PoolRefinement == Spec => Pool!PoolSafety
<1>1. IInv /\ [Next]_vars => [Pool!PoolNext]_(Pool!poolVars)
  BY PoolStep DEF IInv
<1>2. QED
  BY <1>1, PoolInitStep, Inductive, PTL DEF Spec, Pool!PoolSafety

-------------------------------------------------------------------------------
(* The counter of the memory in use.  Next to the sums of Zmalloc, which    *)
(* take the elements of a set in an order of their own, stand sums that do  *)
(* not depend on one (SumOf of QueueLemmas): of the weights of the blocks   *)
(* and of what the threads have still to count.                             *)
Threads == Ops \union {Main}

(* What the changes u add up to.                                           *)
Due(u) == IF Len(u) = 0 THEN 0 ELSE IF Len(u) = 1 THEN u[1] ELSE u[1] + u[2]

(* What a block weighs in used_memory.                                     *)
Weight(b) == IF block[b] = Nobody THEN 0 ELSE Memory!Rounded(block[b] + 8)
Weighed == [b \in Blocks |-> Weight(b)]
Dues == [th \in Threads |-> Due(updates[th])]
InUse == {b \in Blocks : block[b] # Nobody}

(* Rounding keeps the order, and the header is a multiple of the unit.     *)
LEMMA RoundedFacts ==
  ASSUME NEW n \in Nat
  PROVE  /\ Memory!Rounded(n) \in Nat
         /\ Memory!Rounded(n) <= Memory!Rounded(n + 8)
         /\ Memory!Rounded(n + 8) = Memory!Rounded(n) + 8
         /\ \A m \in Nat : m <= n => Memory!Rounded(m) <= Memory!Rounded(n)
BY DEF Memory!Rounded

(* The fold over the blocks in use is a sum.                               *)
LEMMA FootprintInUse ==
  ASSUME IsFiniteSet(Blocks), \A b \in InUse : block[b] \in Nat
  PROVE  Memory!Footprint = SumOf(Weighed, InUse)
<1> DEFINE S == SUBSET InUse
           Rule(g, s) == IF s = {} THEN 0
                         ELSE LET x == CHOOSE x \in s : TRUE
                              IN  Memory!Rounded(block[x] + 8) + g[s \ {x}]
           iter == CHOOSE g : g = [s \in S |-> Rule(g, s)]
<1>0. IsFiniteSet(InUse) /\ Numeric(Weighed, InUse)
  <2>1. IsFiniteSet(InUse)
    BY FS_Subset DEF InUse
  <2>2. ASSUME NEW b \in InUse PROVE Weighed[b] \in Int
    <3>1. block[b] # Nobody /\ b \in Blocks
      BY DEF InUse
    <3>2. block[b] + 8 \in Nat
      OBVIOUS
    <3>3. Memory!Rounded(block[b] + 8) \in Nat
      BY <3>2, RoundedFacts
    <3>4. QED
      BY <3>1, <3>3 DEF Weighed, Weight
  <2>3. QED
    BY <2>1, <2>2 DEF Numeric
<1>1. Memory!Footprint = iter[InUse]
  BY DEF Memory!Footprint, Memory!MapThenSumSet, Memory!MapThenFoldSet, InUse
<1> DEFINE c == [s \in S |-> CHOOSE x \in s : TRUE]
<1>2. \A s \in S : s # {} => c[s] \in s
  OBVIOUS
<1>3. ASSUME NEW g, NEW s \in S
      PROVE  Rule(g, s) = IF s = {} THEN 0 ELSE Weighed[c[s]] + g[s \ {c[s]}]
  <2>1. s # {} => Weighed[c[s]] = Memory!Rounded(block[c[s]] + 8)
    <3>1. s # {} => c[s] \in InUse
      BY <1>2
    <3> HIDE DEF c
    <3>2. QED
      BY <3>1 DEF Weighed, Weight, InUse
  <2>2. s # {} => c[s] = CHOOSE x \in s : TRUE
    OBVIOUS
  <2> HIDE DEF c
  <2>3. s # {} => Rule(g, s) = Memory!Rounded(block[c[s]] + 8) + g[s \ {c[s]}]
    BY <2>2
  <2>4. s = {} => Rule(g, s) = 0
    OBVIOUS
  <2> HIDE DEF Rule
  <2>5. QED
    BY <2>1, <2>3, <2>4
<1> HIDE DEF c, Rule
<1>4. PICK F : Summing(Weighed, InUse, F)
  BY <1>0, SummingExists
<1>5. F = [s \in S |-> Rule(F, s)]
  <2>1. ASSUME NEW s \in S PROVE F[s] = Rule(F, s)
    <3>1. CASE s = {}
      <4>1. F[{}] = 0
        BY <1>4 DEF Summing
      <4>2. Rule(F, s) = 0
        BY <1>3, <3>1
      <4>3. QED
        BY <3>1, <4>1, <4>2
    <3>2. CASE s # {}
      <4>1. c[s] \in s
        BY <1>2, <3>2
      <4>2. F[s] = Weighed[c[s]] + F[s \ {c[s]}]
        BY <1>4, <4>1 DEF Summing
      <4>3. Rule(F, s) = Weighed[c[s]] + F[s \ {c[s]}]
        BY <1>3, <3>2
      <4>4. QED
        BY <4>2, <4>3
    <3>3. QED
      BY <3>1, <3>2
  <2>2. F \in [S -> Int]
    BY <1>4 DEF Summing
  <2>3. QED
    BY <2>1, <2>2
<1>6. iter = [s \in S |-> Rule(iter, s)]
  BY <1>5
<1> HIDE DEF iter
<1>7. Taking(Weighed, InUse, iter, c)
  <2>1. {} \in S
    OBVIOUS
  <2> HIDE DEF S
  <2>2. \A s \in S : iter[s] = Rule(iter, s)
    BY <1>6
  <2>3. iter[{}] = 0
    BY <1>3, <2>1, <2>2
  <2>4. \A s \in S : s # {} => iter[s] = Weighed[c[s]] + iter[s \ {c[s]}]
    BY <1>3, <2>2
  <2>5. QED
    BY <1>2, <2>3, <2>4 DEF Taking, S
<1>8. QED
  BY <1>0, <1>1, <1>7, SumTaking

(* And so is the one over the threads.                                     *)
LEMMA UnaccountedIs ==
  ASSUME IsFiniteSet(Threads), \A th \in Threads : Due(updates[th]) \in Int
  PROVE  Memory!Unaccounted = SumOf(Dues, Threads)
<1> DEFINE S == SUBSET Threads
           Rule(g, s) == IF s = {} THEN 0
                         ELSE LET x == CHOOSE x \in s : TRUE
                              IN  Due(updates[x]) + g[s \ {x}]
           iter == CHOOSE g : g = [s \in S |-> Rule(g, s)]
<1>0. Numeric(Dues, Threads)
  BY DEF Numeric, Dues
<1>1. Memory!Unaccounted = iter[Threads]
  BY DEF Memory!Unaccounted, Memory!MapThenSumSet, Memory!MapThenFoldSet, Due, Threads
<1> DEFINE c == [s \in S |-> CHOOSE x \in s : TRUE]
<1>2. \A s \in S : s # {} => c[s] \in s
  OBVIOUS
<1>3. ASSUME NEW g, NEW s \in S
      PROVE  Rule(g, s) = IF s = {} THEN 0 ELSE Dues[c[s]] + g[s \ {c[s]}]
  <2>1. s # {} => Dues[c[s]] = Due(updates[c[s]])
    <3>1. s # {} => c[s] \in Threads
      BY <1>2
    <3> HIDE DEF c
    <3>2. QED
      BY <3>1 DEF Dues
  <2>2. s # {} => c[s] = CHOOSE x \in s : TRUE
    OBVIOUS
  <2> HIDE DEF c
  <2>3. s # {} => Rule(g, s) = Due(updates[c[s]]) + g[s \ {c[s]}]
    BY <2>2
  <2>4. s = {} => Rule(g, s) = 0
    OBVIOUS
  <2> HIDE DEF Rule
  <2>5. QED
    BY <2>1, <2>3, <2>4
<1> HIDE DEF c, Rule
<1>4. PICK F : Summing(Dues, Threads, F)
  BY <1>0, SummingExists
<1>5. F = [s \in S |-> Rule(F, s)]
  <2>1. ASSUME NEW s \in S PROVE F[s] = Rule(F, s)
    <3>1. CASE s = {}
      <4>1. F[{}] = 0
        BY <1>4 DEF Summing
      <4>2. Rule(F, s) = 0
        BY <1>3, <3>1
      <4>3. QED
        BY <3>1, <4>1, <4>2
    <3>2. CASE s # {}
      <4>1. c[s] \in s
        BY <1>2, <3>2
      <4>2. F[s] = Dues[c[s]] + F[s \ {c[s]}]
        BY <1>4, <4>1 DEF Summing
      <4>3. Rule(F, s) = Dues[c[s]] + F[s \ {c[s]}]
        BY <1>3, <3>2
      <4>4. QED
        BY <4>2, <4>3
    <3>3. QED
      BY <3>1, <3>2
  <2>2. F \in [S -> Int]
    BY <1>4 DEF Summing
  <2>3. QED
    BY <2>1, <2>2
<1>6. iter = [s \in S |-> Rule(iter, s)]
  BY <1>5
<1> HIDE DEF iter
<1>7. Taking(Dues, Threads, iter, c)
  <2>1. {} \in S
    OBVIOUS
  <2> HIDE DEF S
  <2>2. \A s \in S : iter[s] = Rule(iter, s)
    BY <1>6
  <2>3. iter[{}] = 0
    BY <1>3, <2>1, <2>2
  <2>4. \A s \in S : s # {} => iter[s] = Dues[c[s]] + iter[s \ {c[s]}]
    BY <1>3, <2>2
  <2>5. QED
    BY <1>2, <2>3, <2>4 DEF Taking, S
<1>8. QED
  BY <1>0, <1>1, <1>7, SumTaking

LEMMA FiniteSets == IsFiniteSet(Blocks) /\ IsFiniteSet(Ops) /\ IsFiniteSet(Threads)
<1>1. IsFiniteSet(Ops) /\ IsFiniteSet(Jobs)
  <2>1. NumOps - 1 \in Int /\ MaxJobs \in Int /\ 0 \in Int /\ 1 \in Int
    BY BioAssumption
  <2>2. QED
    BY <2>1, FS_Interval DEF Ops, Jobs
<1>2. IsFiniteSet(Threads)
  BY <1>1, FS_AddElement DEF Threads
<1> DEFINE A == {JobBlock(j) : j \in Jobs}
           B == {NodeBlock(j) : j \in Jobs}
<1>3. IsFiniteSet(A) /\ IsFiniteSet(B)
  <2> DEFINE f == [j \in Jobs |-> JobBlock(j)]
             g == [j \in Jobs |-> NodeBlock(j)]
  <2>1. f \in [Jobs -> A] /\ g \in [Jobs -> B]
    OBVIOUS
  <2>2. f \in Surjection(Jobs, A) /\ g \in Surjection(Jobs, B)
    BY <2>1 DEF Surjection
  <2> HIDE DEF f, g, A, B
  <2>3. QED
    BY <1>1, <2>2, FS_Surjection
<1>4. Blocks = (A \union B) \union {Buffer}
  BY DEF Blocks
<1>5. QED
  BY <1>1, <1>2, <1>3, <1>4, FS_Union, FS_AddElement

LEMMA DueInt ==
  ASSUME NEW u \in Seq(Int)
  PROVE  Due(u) \in Int
<1>1. Len(u) \in Nat /\ \A i \in 1 .. Len(u) : u[i] \in Int
  OBVIOUS
<1>2. CASE Len(u) = 0
  BY <1>2 DEF Due
<1>3. CASE Len(u) = 1
  BY <1>1, <1>3 DEF Due
<1>4. CASE Len(u) > 1
  <2>1. 1 \in 1 .. Len(u) /\ 2 \in 1 .. Len(u)
    BY <1>1, <1>4
  <2>2. u[1] \in Int /\ u[2] \in Int
    BY <1>1, <2>1
  <2>3. QED
    BY <1>4, <2>2 DEF Due
<1>5. QED
  BY <1>1, <1>2, <1>3, <1>4, SMTT(30)

-------------------------------------------------------------------------------
(* The inductive invariant.                                                *)
JobWeight == Memory!Rounded(JobSize + 8)
NodeWeight == Memory!Rounded(NodeSize + 8)
BufferWeight == Memory!Rounded(MaxBufferCalls * BufferSize + 8)

(* What main has still to count of the block it has just allocated.        *)
Ahead == LET u == updates[Main] IN IF u # <<>> /\ u[Len(u)] > 0 THEN u[Len(u)] ELSE 0

(* The nodes allocated so far, and an upper bound of all that was ever     *)
(* allocated.                                                              *)
Nodes == IF mpc \in {"allocated", "locked"} THEN created - 1 ELSE created
Posted == created * JobWeight + Nodes * NodeWeight + calls * BufferWeight

MemoryTypes ==
  /\ used_memory \in 0 .. 1023
  /\ zmalloc_thread_safe \in BOOLEAN
  /\ updates \in [Threads -> Seq(Int)]
  /\ loaded \in [Threads -> Int \union {Nobody}]
  /\ calls \in 0 .. MaxBufferCalls
  /\ \A th \in Threads : loaded[th] # Nobody => updates[th] # <<>>

(* Nothing is allocated before the threads are there.                      *)
StartInv ==
  mpc = "start" =>
    /\ used_memory = 0 /\ created = 0 /\ calls = 0
    /\ \A th \in Threads : updates[th] = <<>> /\ loaded[th] = Nobody
    /\ \A b \in Blocks : block[b] = Nobody

(* The blocks of jobs have their sizes; the buffer grows with the calls.   *)
SizesInv ==
  /\ \A j \in Jobs : /\ block[JobBlock(j)] \in {Nobody, JobSize}
                     /\ block[NodeBlock(j)] \in {Nobody, NodeSize}
  /\ block[Buffer] = Nobody \/ block[Buffer] \in 0 .. calls * BufferSize

(* A worker only takes off, and only behind a block it has just freed.     *)
WorkerDueInv ==
  \A op \in Ops :
    \/ updates[op] = <<>>
    \/ /\ wpc[op] \in {"freed", "deleted"}
       /\ Len(updates[op]) = 1 /\ updates[op][1] <= 0

(* What main has still to count, and of which block.                       *)
MainDueInv ==
  \/ updates[Main] = <<>>
  \/ mpc = "allocated" /\ updates[Main] = <<JobWeight>>
  \/ mpc = "push" /\ updates[Main] = <<NodeWeight>>
  \/ mpc = "idle" /\ Len(updates[Main]) = 1 /\ updates[Main][1] <= 0
  \/ /\ mpc = "idle" /\ block[Buffer] # Nobody
     /\ Len(updates[Main]) = 1
     /\ updates[Main][1] \in 0 .. Memory!Rounded(block[Buffer] + 8)
  \/ /\ mpc = "idle" /\ block[Buffer] # Nobody
     /\ Len(updates[Main]) = 2 /\ updates[Main][1] <= 0
     /\ updates[Main][2] \in 0 .. Memory!Rounded(block[Buffer] + 8)

(* With zmalloc_thread_safe no thread works with a value it has read       *)
(* before, and what main will add fits as well.                            *)
CountedInv ==
  zmalloc_thread_safe =>
    /\ \A th \in Threads : loaded[th] = Nobody
    /\ Memory!Exact
    /\ used_memory + Ahead <= Posted

MemoryIInv == MemoryTypes /\ StartInv /\ SizesInv /\ WorkerDueInv /\ MainDueInv /\ CountedInv

-------------------------------------------------------------------------------
LEMMA WeightNat ==
  ASSUME TypeOK, NEW b \in Blocks
  PROVE  Weight(b) \in Nat /\ Weighed[b] = Weight(b)
<1>1. block[b] \in Nat \union {Nobody}
  BY DEF TypeOK
<1>2. CASE block[b] = Nobody
  BY <1>2 DEF Weight, Weighed
<1>3. CASE block[b] \in Nat
  <2>1. block[b] + 8 \in Nat
    BY <1>3
  <2>2. Memory!Rounded(block[b] + 8) \in Nat
    BY <2>1, RoundedFacts
  <2>3. QED
    BY <2>2 DEF Weight, Weighed
<1>4. QED
  BY <1>1, <1>2, <1>3

LEMMA FootprintIs == TypeOK => Memory!Footprint = SumOf(Weighed, Blocks)
<1> SUFFICES ASSUME TypeOK PROVE Memory!Footprint = SumOf(Weighed, Blocks)
  OBVIOUS
<1>1. \A b \in InUse : block[b] \in Nat
  BY DEF InUse, TypeOK
<1>2. Memory!Footprint = SumOf(Weighed, InUse)
  BY <1>1, FiniteSets, FootprintInUse
<1>3. InUse \in SUBSET Blocks /\ \A b \in Blocks \ InUse : Weighed[b] = 0
  BY DEF InUse, Weighed, Weight
<1>4. Numeric(Weighed, Blocks)
  BY WeightNat DEF Numeric
<1>5. SumOf(Weighed, Blocks) = SumOf(Weighed, InUse)
  BY <1>3, <1>4, FiniteSets, SumPart
<1>6. QED
  BY <1>2, <1>5

LEMMA DuesInt == MemoryTypes => Numeric(Dues, Threads) /\ Memory!Unaccounted = SumOf(Dues, Threads)
<1> SUFFICES ASSUME MemoryTypes
             PROVE  Numeric(Dues, Threads) /\ Memory!Unaccounted = SumOf(Dues, Threads)
  OBVIOUS
<1>1. \A th \in Threads : Due(updates[th]) \in Int
  BY DueInt DEF MemoryTypes
<1>2. Numeric(Dues, Threads)
  BY <1>1 DEF Numeric, Dues
<1>3. Memory!Unaccounted = SumOf(Dues, Threads)
  BY <1>1, FiniteSets, UnaccountedIs
<1>4. QED
  BY <1>2, <1>3

LEMMA WeighedInt == TypeOK => Numeric(Weighed, Blocks)
BY WeightNat DEF Numeric

\* The same in the next state.
LEMMA FootprintNext == (TypeOK => Memory!Footprint = SumOf(Weighed, Blocks))'
BY FootprintIs, PTL

LEMMA DuesNext ==
  (MemoryTypes => Numeric(Dues, Threads) /\ Memory!Unaccounted = SumOf(Dues, Threads))'
BY DuesInt, PTL

LEMMA WeighedNext == (TypeOK => Numeric(Weighed, Blocks))'
BY WeighedInt, PTL

(* A step that changes one block at most and what one thread has to add.   *)
LEMMA Moved ==
  ASSUME TypeOK, TypeOK', MemoryTypes, MemoryTypes', NEW th \in Threads, NEW b \in Blocks,
         \A t \in Threads : t # th => updates'[t] = updates[t],
         \A c \in Blocks : c # b => block'[c] = block[c],
         (used_memory' - used_memory) + (Due(updates'[th]) - Due(updates[th]))
           = Weight(b)' - Weight(b),
         Memory!Exact
  PROVE  Memory!Exact'
<1>1. Numeric(Weighed, Blocks) /\ Memory!Footprint = SumOf(Weighed, Blocks)
      /\ Numeric(Weighed', Blocks) /\ Memory!Footprint' = SumOf(Weighed', Blocks)
  BY WeighedInt, WeighedNext, FootprintIs, FootprintNext
<1>2. Numeric(Dues, Threads) /\ Memory!Unaccounted = SumOf(Dues, Threads)
      /\ Numeric(Dues', Threads) /\ Memory!Unaccounted' = SumOf(Dues', Threads)
  BY DuesInt, DuesNext
<1>3. /\ \A c \in Blocks : c # b => Weighed[c] = Weighed'[c]
      /\ Weighed[b] = Weight(b) /\ Weighed'[b] = Weight(b)'
  BY DEF Weighed, Weight
<1>4. /\ \A t \in Threads : t # th => Dues[t] = Dues'[t]
      /\ Dues[th] = Due(updates[th]) /\ Dues'[th] = Due(updates'[th])
  BY DEF Dues
<1> DEFINE v == Weighed
           w == Weighed'
           d == Dues
           e == Dues'
<1>5. SumOf(w, Blocks) = (SumOf(v, Blocks) - v[b]) + w[b]
  <2> HIDE DEF v, w
  <2>1. Numeric(v, Blocks) /\ Numeric(w, Blocks) /\ \A c \in Blocks : c # b => v[c] = w[c]
    BY <1>1, <1>3 DEF v, w
  <2>2. QED
    BY <2>1, FiniteSets, SumChanged
<1>6. SumOf(e, Threads) = (SumOf(d, Threads) - d[th]) + e[th]
  <2> HIDE DEF d, e
  <2>1. Numeric(d, Threads) /\ Numeric(e, Threads) /\ \A t \in Threads : t # th => d[t] = e[t]
    BY <1>2, <1>4 DEF d, e
  <2>2. QED
    BY <2>1, FiniteSets, SumChanged
<1> HIDE DEF v, w, d, e
<1>7. /\ SumOf(v, Blocks) \in Int /\ SumOf(w, Blocks) \in Int
      /\ SumOf(d, Threads) \in Int /\ SumOf(e, Threads) \in Int
      /\ v[b] \in Int /\ w[b] \in Int /\ d[th] \in Int /\ e[th] \in Int
      /\ used_memory \in Int /\ used_memory' \in Int
  <2>1. v[b] \in Int /\ w[b] \in Int /\ d[th] \in Int /\ e[th] \in Int
    BY <1>1, <1>2 DEF Numeric, v, w, d, e
  <2>2. used_memory \in Int /\ used_memory' \in Int
    <3>1. used_memory \in 0 .. 1023 /\ used_memory' \in 0 .. 1023
      BY DEF MemoryTypes
    <3>2. QED
      BY <3>1
  <2>3. SumOf(v, Blocks) \in Int /\ SumOf(w, Blocks) \in Int
    BY <1>1, FiniteSets, SumWithout DEF v, w
  <2>4. SumOf(d, Threads) \in Int /\ SumOf(e, Threads) \in Int
    BY <1>2, FiniteSets, SumWithout DEF d, e
  <2>5. QED
    BY <2>1, <2>2, <2>3, <2>4
<1>8. used_memory + SumOf(d, Threads) = SumOf(v, Blocks)
  BY <1>1, <1>2 DEF Memory!Exact, d, v
<1>9. (used_memory' - used_memory) + (e[th] - d[th]) = w[b] - v[b]
  BY <1>3, <1>4 DEF v, w, d, e
<1>10. used_memory' + SumOf(e, Threads) = SumOf(w, Blocks)
  BY <1>5, <1>6, <1>7, <1>8, <1>9
<1>11. QED
  BY <1>1, <1>2, <1>10 DEF Memory!Exact, e, w

(* What main still has to add does not exceed the memory in use, what the  *)
(* others have to take off comes on top.                                   *)
LEMMA DuesBelow ==
  ASSUME IInv, MemoryTypes, SizesInv, WorkerDueInv, MainDueInv
  PROVE  SumOf(Dues, Threads) <= SumOf(Weighed, Blocks)
<1>1. SumOf(Weighed, Blocks) \in Nat /\ \A b \in Blocks : Weight(b) <= SumOf(Weighed, Blocks)
  <2>1. \A b \in Blocks : Weighed[b] \in Nat /\ Weighed[b] = Weight(b)
    BY WeightNat DEF IInv
  <2>2. QED
    BY <2>1, FiniteSets, SumNat
<1>2. SumOf(Dues, Threads) = Dues[Main] + SumOf(Dues, Threads \ {Main})
      /\ Dues[Main] \in Int /\ SumOf(Dues, Threads \ {Main}) \in Int
  <2>1. Numeric(Dues, Threads) /\ Main \in Threads
    BY DuesInt DEF Threads
  <2>2. QED
    BY <2>1, FiniteSets, SumWithout
<1>3. Threads \ {Main} = Ops
  BY OpsFacts DEF Threads
<1>4. SumOf(Dues, Ops) <= 0
  <2>1. ASSUME NEW op \in Ops PROVE Dues[op] \in Int /\ Dues[op] <= 0
    <3>1. op \in Threads /\ Dues[op] = Due(updates[op]) /\ updates[op] \in Seq(Int)
      BY DEF Threads, Dues, MemoryTypes
    <3>2. CASE updates[op] = <<>>
      BY <3>1, <3>2 DEF Due
    <3>3. CASE Len(updates[op]) = 1 /\ updates[op][1] <= 0
      <4>1. updates[op][1] \in Int
        BY <3>1, <3>3
      <4>2. QED
        BY <3>1, <3>3, <4>1 DEF Due
    <3>4. QED
      BY <3>2, <3>3 DEF WorkerDueInv
  <2>2. QED
    BY <2>1, FiniteSets, SumNegative
<1>5. Dues[Main] <= 0 \/ \E b \in Blocks : Dues[Main] <= Weight(b)
  <2>1. Main \in Threads /\ updates[Main] \in Seq(Int) /\ Dues[Main] = Due(updates[Main])
    BY DEF Threads, MemoryTypes, Dues
  <2>2. \A j \in Jobs : JobBlock(j) \in Blocks /\ NodeBlock(j) \in Blocks
    BY BlockFacts
  <2>3. CASE updates[Main] = <<>>
    BY <2>1, <2>3 DEF Due
  <2>4. CASE mpc = "allocated" /\ updates[Main] = <<JobWeight>>
    <3>1. created \in Jobs /\ block[JobBlock(created)] = JobSize /\ JobSize # Nobody
      BY <2>4, BioAssumption DEF IInv, TypeOK, BlockInv, Creating, SizesInv
    <3>2. Weight(JobBlock(created)) = JobWeight
      BY <3>1 DEF Weight, JobWeight
    <3>3. JobWeight \in Nat
      BY <2>2, <3>1, <3>2, WeightNat DEF IInv
    <3>4. Dues[Main] = JobWeight
      BY <2>1, <2>4, <3>3 DEF Due
    <3>5. QED
      BY <2>2, <3>1, <3>2, <3>3, <3>4
  <2>5. CASE mpc = "push" /\ updates[Main] = <<NodeWeight>>
    <3>1. created \in Jobs /\ block[NodeBlock(created)] = NodeSize /\ NodeSize # Nobody
      BY <2>5, BioAssumption DEF IInv, TypeOK, BlockInv, Creating, SizesInv
    <3>2. Weight(NodeBlock(created)) = NodeWeight
      BY <3>1 DEF Weight, NodeWeight
    <3>3. NodeWeight \in Nat
      BY <2>2, <3>1, <3>2, WeightNat DEF IInv
    <3>4. Dues[Main] = NodeWeight
      BY <2>1, <2>5, <3>3 DEF Due
    <3>5. QED
      BY <2>2, <3>1, <3>2, <3>3, <3>4
  <2>6. CASE Len(updates[Main]) = 1 /\ updates[Main][1] <= 0
    BY <2>1, <2>6 DEF Due
  <2>7. CASE /\ block[Buffer] # Nobody /\ Len(updates[Main]) = 1
             /\ updates[Main][1] \in 0 .. Memory!Rounded(block[Buffer] + 8)
    BY <2>1, <2>7, BlockFacts DEF Due, Weight
  <2>8. CASE /\ block[Buffer] # Nobody /\ Len(updates[Main]) = 2 /\ updates[Main][1] <= 0
             /\ updates[Main][2] \in 0 .. Memory!Rounded(block[Buffer] + 8)
    <3>1. Weight(Buffer) = Memory!Rounded(block[Buffer] + 8) /\ Weight(Buffer) \in Nat
      BY <2>8, BlockFacts, WeightNat DEF Weight, IInv
    <3>2. updates[Main][1] \in Int /\ updates[Main][2] \in Int
      BY <2>1, <2>8
    <3>3. updates[Main][1] + updates[Main][2] <= Weight(Buffer)
      BY <2>8, <3>1, <3>2
    <3>4. Dues[Main] = updates[Main][1] + updates[Main][2]
      BY <2>1, <2>8 DEF Due
    <3>5. QED
      BY <3>3, <3>4, BlockFacts
  <2>9. QED
    BY <2>3, <2>4, <2>5, <2>6, <2>7, <2>8 DEF MainDueInv
<1>6. Dues[Main] <= SumOf(Weighed, Blocks)
  <2>1. CASE Dues[Main] <= 0
    BY <1>1, <1>2, <2>1
  <2>2. CASE \E b \in Blocks : Dues[Main] <= Weight(b)
    <3>1. PICK b \in Blocks : Dues[Main] <= Weight(b)
      BY <2>2
    <3>2. Weight(b) \in Nat
      BY WeightNat DEF IInv
    <3>3. QED
      BY <1>1, <1>2, <3>1, <3>2
  <2>3. QED
    BY <1>5, <2>1, <2>2
<1>7. QED
  BY <1>1, <1>2, <1>3, <1>4, <1>6

-------------------------------------------------------------------------------
LEMMA TimesFacts ==
  ASSUME NEW a \in Nat, NEW b \in Nat, NEW c \in Nat, a <= b
  PROVE  a * c \in Nat /\ a * c <= b * c /\ (a + 1) * c = a * c + c
OBVIOUS

(* The weights, and the assumption in terms of them.                       *)
LEMMA WeightsAre ==
  /\ JobWeight \in Nat /\ NodeWeight \in Nat /\ BufferWeight \in Nat
  /\ MaxJobs * (JobWeight + NodeWeight) + MaxBufferCalls * BufferWeight < 1024
<1>1. JobSize + 8 \in Nat /\ NodeSize + 8 \in Nat
  BY BioAssumption
<1>2. MaxBufferCalls * BufferSize + 8 \in Nat
  BY BioAssumption, MemoryAssumption
<1>3. JobWeight \in Nat /\ NodeWeight \in Nat /\ BufferWeight \in Nat
  BY <1>1, <1>2, RoundedFacts DEF JobWeight, NodeWeight, BufferWeight
<1>4. QED
  BY <1>3, MemoryAssumption DEF JobWeight, NodeWeight, BufferWeight

(* All that was ever allocated fits.                                       *)
LEMMA PostedFits ==
  ASSUME TypeOK, MemoryTypes
  PROVE  Posted \in 0 .. 1023
<1>1. created \in 0 .. MaxJobs /\ calls \in 0 .. MaxBufferCalls /\ MaxJobs \in Nat
      /\ MaxBufferCalls \in Nat
  BY BioAssumption, MemoryAssumption DEF TypeOK, MemoryTypes
<1>2. Nodes \in 0 .. MaxJobs
  <2>1. CASE mpc \in {"allocated", "locked"}
    BY <1>1, <2>1 DEF Nodes, TypeOK, Creating, Jobs
  <2>2. CASE mpc \notin {"allocated", "locked"}
    BY <1>1, <2>2 DEF Nodes
  <2>3. QED
    BY <2>1, <2>2
<1> DEFINE j == created * JobWeight
           n == Nodes * NodeWeight
           c == calls * BufferWeight
<1>3. j \in Nat /\ j <= MaxJobs * JobWeight
  BY <1>1, WeightsAre, TimesFacts
<1>4. n \in Nat /\ n <= MaxJobs * NodeWeight
  BY <1>1, <1>2, WeightsAre, TimesFacts
<1>5. c \in Nat /\ c <= MaxBufferCalls * BufferWeight
  BY <1>1, WeightsAre, TimesFacts
<1>6. MaxJobs * (JobWeight + NodeWeight) = MaxJobs * JobWeight + MaxJobs * NodeWeight
      /\ MaxJobs * JobWeight \in Nat /\ MaxJobs * NodeWeight \in Nat
      /\ MaxBufferCalls * BufferWeight \in Nat
  BY <1>1, WeightsAre
<1>7. Posted = j + n + c
  BY DEF Posted
<1> HIDE DEF j, n, c
<1>8. QED
  BY <1>3, <1>4, <1>5, <1>6, <1>7, WeightsAre

LEMMA AheadNat == MemoryTypes => Ahead \in Nat
<1> SUFFICES ASSUME MemoryTypes PROVE Ahead \in Nat
  OBVIOUS
<1> DEFINE u == updates[Main]
<1>1. u \in Seq(Int)
  BY DEF MemoryTypes, Threads
<1>2. Ahead = IF u # <<>> /\ u[Len(u)] > 0 THEN u[Len(u)] ELSE 0
  BY DEF Ahead
<1> HIDE DEF u
<1>3. u # <<>> => u[Len(u)] \in Int
  BY <1>1
<1>4. QED
  BY <1>2, <1>3

MainBusy == mpc \in {"allocated", "locked"}

(* A step that neither allocates, frees nor counts.                        *)
LEMMA UnmovedKeeps ==
  ASSUME MemoryIInv, TypeOK, TypeOK', UNCHANGED <<used_memory, zmalloc_thread_safe, block, updates, loaded>>,
         created' = created, calls' = calls, mpc' = "start" => mpc = "start",
         MainBusy' = MainBusy,
         \A op \in Ops : updates[op] = <<>> \/ wpc'[op] = wpc[op],
         updates[Main] = <<>> \/ mpc' = mpc
  PROVE  MemoryIInv'
<1>1. MemoryTypes /\ StartInv /\ SizesInv /\ WorkerDueInv /\ MainDueInv /\ CountedInv
  BY DEF MemoryIInv
<1>2. MemoryTypes'
  BY <1>1 DEF MemoryTypes
<1>3. StartInv' /\ SizesInv' /\ WorkerDueInv'
  BY <1>1 DEF StartInv, SizesInv, WorkerDueInv
<1>4. MainDueInv'
  BY <1>1 DEF MainDueInv
<1>5. Nodes' = Nodes
  BY DEF Nodes, MainBusy
<1>6. Posted' = Posted /\ Ahead' = Ahead
  BY <1>5 DEF Posted, Ahead
<1>7. Memory!Exact => Memory!Exact'
  <2>1. used_memory \in Int /\ Due(updates[Main]) \in Int /\ Weight(Buffer) \in Int
        /\ Main \in Threads
    <3>1. used_memory \in 0 .. 1023 /\ updates[Main] \in Seq(Int) /\ Main \in Threads
      BY <1>1 DEF MemoryTypes, Threads
    <3>2. QED
      BY <3>1, DueInt, WeightNat, BlockFacts
  <2>2. (used_memory' - used_memory) + (Due(updates'[Main]) - Due(updates[Main]))
          = Weight(Buffer)' - Weight(Buffer)
    BY <2>1 DEF Weight
  <2>3. QED
    BY <1>1, <1>2, <2>1, <2>2, BlockFacts, Moved
<1>8. CountedInv'
  BY <1>1, <1>6, <1>7 DEF CountedInv
<1>9. QED
  BY <1>2, <1>3, <1>4, <1>8 DEF MemoryIInv

(* Main allocates the job, or its node.                                    *)
LEMMA AllocateKeeps ==
  ASSUME IInv, IInv', MemoryIInv, NEW b \in Blocks, NEW size \in Nat,
         Memory!zmalloc(Main, b, size), updates[Main] = <<>>, mpc # "start", mpc' # "start",
         wpc' = wpc, calls' = calls,
         \/ /\ \E j \in Jobs : b = JobBlock(j)
            /\ size = JobSize /\ mpc' = "allocated" /\ mpc = "idle" /\ created' = created + 1
         \/ /\ \E j \in Jobs : b = NodeBlock(j)
            /\ size = NodeSize /\ mpc' = "push" /\ mpc = "locked" /\ created' = created
  PROVE  MemoryIInv'
<1>1. MemoryTypes /\ SizesInv /\ WorkerDueInv /\ CountedInv /\ TypeOK /\ TypeOK'
  BY DEF MemoryIInv, IInv
<1> DEFINE w == Memory!Rounded(size + 8)
<1>2. /\ block[b] = Nobody
      /\ block' = [block EXCEPT ![b] = size]
      /\ updates' = [updates EXCEPT ![Main] = <<w>>]
      /\ UNCHANGED <<used_memory, zmalloc_thread_safe, loaded>>
  BY DEF Memory!zmalloc
<1>3. w \in Nat /\ size + 8 \in Nat
  BY RoundedFacts
<1>4. /\ \/ w = JobWeight /\ mpc' = "allocated"
         \/ w = NodeWeight /\ mpc' = "push"
      /\ Posted' = Posted + w
  <2>1. CASE size = JobSize /\ mpc' = "allocated" /\ mpc = "idle" /\ created' = created + 1
    <3>1. w = JobWeight
      BY <2>1 DEF JobWeight
    <3>2. Nodes' = Nodes /\ created \in Nat
      BY <1>1, <2>1 DEF Nodes, TypeOK
    <3>3. created' * JobWeight = created * JobWeight + JobWeight
      BY <2>1, <3>2, WeightsAre, TimesFacts
    <3>4. created * JobWeight \in Int /\ Nodes * NodeWeight \in Int /\ calls * BufferWeight \in Int
      <4>1. Nodes \in Int /\ calls \in Int
        BY <1>1, <2>1 DEF Nodes, TypeOK, MemoryTypes
      <4>2. QED
        BY <3>2, <4>1, WeightsAre
    <3>5. QED
      BY <2>1, <3>1, <3>2, <3>3, <3>4, WeightsAre DEF Posted
  <2>2. CASE size = NodeSize /\ mpc' = "push" /\ mpc = "locked" /\ created' = created
    <3>1. w = NodeWeight
      BY <2>2 DEF NodeWeight
    <3>2. created \in Jobs
      BY <1>1, <2>2 DEF TypeOK, Creating
    <3>3. Nodes = created - 1 /\ Nodes' = Nodes + 1 /\ Nodes \in Nat
      BY <2>2, <3>2 DEF Nodes, Jobs
    <3>4. Nodes' * NodeWeight = Nodes * NodeWeight + NodeWeight
      BY <3>3, WeightsAre, TimesFacts
    <3>5. created * JobWeight \in Int /\ Nodes * NodeWeight \in Int /\ calls * BufferWeight \in Int
      <4>1. Nodes \in Int /\ calls \in Int /\ created \in Int
        BY <1>1, <3>2, <3>3 DEF MemoryTypes, Jobs
      <4>2. QED
        BY <4>1, WeightsAre
    <3>6. QED
      BY <2>2, <3>1, <3>4, <3>5, WeightsAre DEF Posted
  <2>3. QED
    BY <2>1, <2>2
<1> HIDE DEF w
<1>5. MemoryTypes'
  <2>1. <<w>> \in Seq(Int) /\ <<w>> # <<>>
    BY <1>3
  <2>2. updates' \in [Threads -> Seq(Int)]
    BY <1>1, <1>2, <2>1 DEF MemoryTypes
  <2>3. QED
    BY <1>1, <1>2, <2>1, <2>2 DEF MemoryTypes
<1>6. StartInv'
  BY DEF StartInv
<1>7. SizesInv'
  <2>1. \A c \in Blocks : block'[c] = IF c = b THEN size ELSE block[c]
    BY <1>1, <1>2 DEF TypeOK
  <2>2. \A j \in Jobs : JobBlock(j) \in Blocks /\ NodeBlock(j) \in Blocks
    BY BlockFacts
  <2>3. b # Buffer /\ Buffer \in Blocks
    BY BlockFacts
  <2>4. \A j \in Jobs : (JobBlock(j) = b => size = JobSize) /\ (NodeBlock(j) = b => size = NodeSize)
    BY BlockFacts
  <2>5. QED
    BY <1>1, <2>1, <2>2, <2>3, <2>4 DEF SizesInv
<1>8. WorkerDueInv'
  <2>1. \A op \in Ops : updates'[op] = updates[op]
    BY <1>1, <1>2, OpsFacts DEF MemoryTypes, Threads
  <2>2. QED
    BY <1>1, <2>1 DEF WorkerDueInv
<1>9. updates'[Main] = <<w>>
  BY <1>1, <1>2 DEF MemoryTypes, Threads
<1>10. MainDueInv'
  BY <1>4, <1>9 DEF MainDueInv, JobWeight, NodeWeight
<1>11. CountedInv'
  <2>1. SUFFICES ASSUME zmalloc_thread_safe PROVE CountedInv'
    BY <1>2 DEF CountedInv
  <2>2. Memory!Exact /\ used_memory + Ahead <= Posted
    BY <1>1, <2>1 DEF CountedInv
  <2>3. Memory!Exact'
    <3>1. Due(updates[Main]) = 0 /\ Due(updates'[Main]) = w
      BY <1>3, <1>9 DEF Due
    <3>2. Weight(b) = 0 /\ Weight(b)' = w
      <4>1. block'[b] = size /\ size # Nobody
        BY <1>1, <1>2, BioAssumption DEF TypeOK
      <4>2. QED
        BY <1>2, <4>1 DEF Weight, w
    <3>3. used_memory \in Int /\ Main \in Threads
      <4>1. used_memory \in 0 .. 1023
        BY <1>1 DEF MemoryTypes
      <4>2. QED
        BY <4>1 DEF Threads
    <3>4. (used_memory' - used_memory) + (Due(updates'[Main]) - Due(updates[Main]))
            = Weight(b)' - Weight(b)
      BY <1>2, <1>3, <3>1, <3>2, <3>3
    <3>5. /\ \A t \in Threads : t # Main => updates'[t] = updates[t]
          /\ \A c \in Blocks : c # b => block'[c] = block[c]
      BY <1>1, <1>2 DEF TypeOK, MemoryTypes
    <3>6. QED
      BY <1>1, <1>5, <2>2, <3>3, <3>4, <3>5, Moved
  <2>4. Ahead = 0 /\ Ahead' = w
    BY <1>3, <1>9 DEF Ahead
  <2>5. used_memory' + Ahead' <= Posted'
    <3>1. used_memory \in Int /\ Posted \in Int
      <4>1. used_memory \in 0 .. 1023 /\ Posted \in 0 .. 1023
        BY <1>1, PostedFits DEF MemoryTypes
      <4>2. QED
        BY <4>1
    <3>2. QED
      BY <1>2, <1>3, <1>4, <2>2, <2>4, <3>1
  <2>6. QED
    BY <1>1, <1>2, <2>1, <2>3, <2>5 DEF CountedInv
<1>12. QED
  BY <1>5, <1>6, <1>7, <1>8, <1>10, <1>11 DEF MemoryIInv

(* What the counter says does not change while nothing it counts does.     *)
LEMMA ExactKept ==
  ASSUME TypeOK, TypeOK', MemoryTypes, MemoryTypes', UNCHANGED <<used_memory, block, updates>>,
         Memory!Exact
  PROVE  Memory!Exact'
<1>1. used_memory \in Int /\ Due(updates[Main]) \in Int /\ Weight(Buffer) \in Int
      /\ Main \in Threads
  <2>1. used_memory \in 0 .. 1023 /\ updates[Main] \in Seq(Int) /\ Main \in Threads
    BY DEF MemoryTypes, Threads
  <2>2. QED
    BY <2>1, DueInt, WeightNat, BlockFacts
<1>2. (used_memory' - used_memory) + (Due(updates'[Main]) - Due(updates[Main]))
        = Weight(Buffer)' - Weight(Buffer)
  BY <1>1 DEF Weight
<1>3. QED
  BY <1>1, <1>2, BlockFacts, Moved

(* Before there is a second thread nothing is in use and nothing is due.   *)
LEMMA StartExact ==
  ASSUME TypeOK, MemoryTypes, StartInv, mpc = "start"
  PROVE  Memory!Exact /\ Ahead = 0 /\ Posted = 0
<1>1. /\ used_memory = 0 /\ created = 0 /\ calls = 0
      /\ \A th \in Threads : updates[th] = <<>>
      /\ \A b \in Blocks : block[b] = Nobody
  BY DEF StartInv
<1>2. {0} \in SUBSET Int /\ 0 \in {0} /\ \A m, n \in {0} : m + n \in {0}
  OBVIOUS
<1>3. \A th \in Threads : Dues[th] \in {0}
  BY <1>1 DEF Dues, Due
<1>4. \A b \in Blocks : Weighed[b] \in {0}
  BY <1>1 DEF Weighed, Weight
<1>5. SumOf(Dues, Threads) \in {0}
  BY <1>2, <1>3, FiniteSets, SumWithin
<1>6. SumOf(Weighed, Blocks) \in {0}
  BY <1>2, <1>4, FiniteSets, SumWithin
<1>7. Memory!Unaccounted = 0 /\ Memory!Footprint = 0
  BY <1>5, <1>6, DuesInt, FootprintIs
<1>8. Memory!Exact
  BY <1>1, <1>7 DEF Memory!Exact
<1>9. Ahead = 0
  BY <1>1 DEF Ahead, Threads
<1>10. Posted = 0
  <2>1. Nodes = 0
    BY <1>1 DEF Nodes
  <2>2. QED
    BY <1>1, <2>1, WeightsAre DEF Posted
<1>11. QED
  BY <1>8, <1>9, <1>10

LEMMA EnableKeeps ==
  ASSUME IInv, IInv', MemoryIInv, EnableThreadSafeness
  PROVE  MemoryIInv'
<1>1. MemoryTypes /\ StartInv /\ SizesInv /\ WorkerDueInv /\ MainDueInv /\ TypeOK /\ TypeOK'
  BY DEF MemoryIInv, IInv
<1>2. /\ mpc = "start" /\ zmalloc_thread_safe' = TRUE
      /\ UNCHANGED <<used_memory, block, updates, loaded, mpc, wpc, created, calls>>
  BY DEF EnableThreadSafeness, Memory!zmalloc_enable_thread_safeness, mainVars, workerVars
<1>3. MemoryTypes' /\ StartInv' /\ SizesInv' /\ WorkerDueInv' /\ MainDueInv'
  BY <1>1, <1>2 DEF MemoryTypes, StartInv, SizesInv, WorkerDueInv, MainDueInv
<1>4. Memory!Exact'
  BY <1>1, <1>2, <1>3, StartExact, ExactKept
<1>5. Ahead' = Ahead /\ Posted' = Posted
  BY <1>2 DEF Ahead, Posted, Nodes
<1>6. used_memory = 0 /\ \A th \in Threads : loaded[th] = Nobody
  BY <1>1, <1>2 DEF StartInv
<1>7. used_memory' + Ahead' <= Posted'
  BY <1>1, <1>2, <1>5, <1>6, StartExact
<1>8. CountedInv'
  BY <1>2, <1>4, <1>6, <1>7 DEF CountedInv
<1>9. QED
  BY <1>3, <1>8 DEF MemoryIInv

(* A worker gives a job, or its node, back.                                *)
LEMMA FreeKeeps ==
  ASSUME IInv, IInv', MemoryIInv, NEW op \in Ops, NEW b \in Blocks, b # Buffer,
         Memory!zfree(op, b), wpc[op] \in {"ran", "delete"},
         wpc'[op] \in {"freed", "deleted"},
         \A o \in Ops : o # op => wpc'[o] = wpc[o],
         UNCHANGED mainVars
  PROVE  MemoryIInv'
<1>1. MemoryTypes /\ StartInv /\ SizesInv /\ WorkerDueInv /\ MainDueInv /\ CountedInv
      /\ TypeOK /\ TypeOK'
  BY DEF MemoryIInv, IInv
<1> DEFINE w == Memory!Rounded(block[b] + 8)
<1>2. /\ block[b] # Nobody
      /\ block' = [block EXCEPT ![b] = Nobody]
      /\ updates' = [updates EXCEPT ![op] = <<-w>>]
      /\ UNCHANGED <<used_memory, zmalloc_thread_safe, loaded, mpc, created, calls>>
  BY DEF Memory!zfree, mainVars
<1>3. w \in Nat /\ Weight(b) = w
  <2>1. Weight(b) = w
    BY <1>2 DEF Weight
  <2>2. QED
    BY <1>1, <2>1, WeightNat
<1> HIDE DEF w
<1>4. op \in Threads /\ Main \in Threads /\ op # Main
  BY OpsFacts DEF Threads
<1>5. updates[op] = <<>>
  BY <1>1 DEF WorkerDueInv
<1>6. updates'[op] = <<-w>> /\ \A t \in Threads : t # op => updates'[t] = updates[t]
  BY <1>1, <1>2, <1>4 DEF MemoryTypes
<1>7. block'[b] = Nobody /\ \A c \in Blocks : c # b => block'[c] = block[c]
  BY <1>1, <1>2 DEF TypeOK
<1>8. MemoryTypes'
  <2>1. <<-w>> \in Seq(Int) /\ <<-w>> # <<>>
    BY <1>3
  <2>2. updates' \in [Threads -> Seq(Int)]
    BY <1>1, <1>2, <2>1 DEF MemoryTypes
  <2>3. QED
    BY <1>1, <1>2, <1>6, <2>1, <2>2 DEF MemoryTypes
<1>9. StartInv'
  BY <1>1, <1>2 DEF StartInv
<1>10. SizesInv'
  <2>1. \A j \in Jobs : JobBlock(j) \in Blocks /\ NodeBlock(j) \in Blocks
    BY BlockFacts
  <2>2. block'[Buffer] = block[Buffer]
    BY <1>7, BlockFacts
  <2>3. QED
    BY <1>1, <1>2, <1>7, <2>1, <2>2 DEF SizesInv
<1>11. WorkerDueInv'
  <2>1. Len(<<-w>>) = 1 /\ <<-w>>[1] <= 0
    BY <1>3
  <2>2. ASSUME NEW o \in Ops, o # op PROVE updates'[o] = updates[o] /\ wpc'[o] = wpc[o]
    BY <1>6, <2>2 DEF Threads
  <2>3. QED
    BY <1>1, <1>6, <2>1, <2>2 DEF WorkerDueInv
<1>12. updates'[Main] = updates[Main]
  BY <1>4, <1>6
<1>13. MainDueInv'
  <2>1. block'[Buffer] = block[Buffer]
    BY <1>7, BlockFacts
  <2>2. QED
    BY <1>1, <1>2, <1>12, <2>1 DEF MainDueInv
<1>14. CountedInv'
  <2>1. SUFFICES ASSUME zmalloc_thread_safe PROVE CountedInv'
    BY <1>2 DEF CountedInv
  <2>2. Memory!Exact /\ used_memory + Ahead <= Posted
        /\ \A th \in Threads : loaded[th] = Nobody
    BY <1>1, <2>1 DEF CountedInv
  <2>3. Memory!Exact'
    <3>1. Due(updates[op]) = 0 /\ Due(updates'[op]) = -w
      BY <1>3, <1>5, <1>6 DEF Due
    <3>2. Weight(b)' = 0
      BY <1>7 DEF Weight
    <3>3. used_memory \in Int
      <4>1. used_memory \in 0 .. 1023
        BY <1>1 DEF MemoryTypes
      <4>2. QED
        BY <4>1
    <3>4. (used_memory' - used_memory) + (Due(updates'[op]) - Due(updates[op]))
            = Weight(b)' - Weight(b)
      BY <1>2, <1>3, <3>1, <3>2, <3>3
    <3>5. QED
      BY <1>1, <1>4, <1>6, <1>7, <1>8, <2>2, <3>4, Moved
  <2>4. Ahead' = Ahead /\ Posted' = Posted
    BY <1>2, <1>12 DEF Ahead, Posted, Nodes
  <2>5. QED
    BY <1>2, <2>2, <2>3, <2>4 DEF CountedInv
<1>15. QED
  BY <1>8, <1>9, <1>10, <1>11, <1>13, <1>14 DEF MemoryIInv

(* What a call for the buffer makes of it is within the bound for a buffer.*)
LEMMA BufferBound ==
  ASSUME NEW n \in Nat, NEW m \in Nat, m <= MaxBufferCalls, n <= m * BufferSize
  PROVE  /\ Memory!Rounded(n) \in Nat /\ Memory!Rounded(n + 8) \in Nat
         /\ Memory!Rounded(n) <= Memory!Rounded(n + 8)
         /\ Memory!Rounded(n + 8) <= BufferWeight
<1>1. MaxBufferCalls \in Nat /\ BufferSize \in Nat
  BY BioAssumption, MemoryAssumption
<1>2. m * BufferSize \in Nat /\ m * BufferSize <= MaxBufferCalls * BufferSize
      /\ MaxBufferCalls * BufferSize \in Nat
  BY <1>1, TimesFacts
<1> DEFINE top == MaxBufferCalls * BufferSize
<1>3. top \in Nat /\ n <= top
  BY <1>2
<1>4. BufferWeight = Memory!Rounded(top + 8)
  BY DEF BufferWeight
<1> HIDE DEF top
<1>5. n + 8 \in Nat /\ top + 8 \in Nat /\ n + 8 <= top + 8
  BY <1>3
<1>6. Memory!Rounded(n + 8) <= Memory!Rounded(top + 8)
  BY <1>5, RoundedFacts
<1>7. QED
  BY <1>4, <1>5, <1>6, RoundedFacts

(* A call of main's for its buffer: ahead is what it has to add then.      *)
LEMMA BufferMoves ==
  ASSUME IInv, IInv', MemoryIInv, mpc = "idle", updates[Main] = <<>>, calls < MaxBufferCalls,
         calls' = calls + 1, wpc' = wpc, mpc' = mpc, created' = created,
         UNCHANGED <<used_memory, zmalloc_thread_safe, loaded>>,
         \A c \in Blocks : c # Buffer => block'[c] = block[c],
         NEW u \in Seq(Int), u # <<>>, updates' = [updates EXCEPT ![Main] = u],
         block'[Buffer] = Nobody \/ block'[Buffer] \in 0 .. calls' * BufferSize,
         Due(u) = Weight(Buffer)' - Weight(Buffer),
         u[Len(u)] <= BufferWeight,
         MainDueInv'
  PROVE  MemoryIInv'
<1>1. MemoryTypes /\ SizesInv /\ WorkerDueInv /\ CountedInv /\ TypeOK /\ TypeOK'
  BY DEF MemoryIInv, IInv
<1>2. Main \in Threads /\ \A op \in Ops : op \in Threads /\ op # Main
  BY OpsFacts DEF Threads
<1>3. updates'[Main] = u /\ \A t \in Threads : t # Main => updates'[t] = updates[t]
  BY <1>1, <1>2 DEF MemoryTypes
<1>4. calls \in Nat /\ calls' \in 0 .. MaxBufferCalls
  BY <1>1, MemoryAssumption DEF MemoryTypes
<1>5. MemoryTypes'
  <2>1. updates' \in [Threads -> Seq(Int)]
    BY <1>1 DEF MemoryTypes
  <2>2. \A th \in Threads : loaded'[th] # Nobody => updates'[th] # <<>>
    BY <1>1, <1>3 DEF MemoryTypes
  <2>3. QED
    BY <1>1, <1>4, <2>1, <2>2 DEF MemoryTypes
<1>6. StartInv'
  BY DEF StartInv
<1>7. SizesInv'
  <2>1. \A j \in Jobs : /\ block'[JobBlock(j)] = block[JobBlock(j)]
                        /\ block'[NodeBlock(j)] = block[NodeBlock(j)]
    BY BlockFacts
  <2>2. QED
    BY <1>1, <2>1 DEF SizesInv
<1>8. WorkerDueInv'
  <2>1. \A op \in Ops : updates'[op] = updates[op]
    BY <1>2, <1>3
  <2>2. QED
    BY <1>1, <2>1 DEF WorkerDueInv
<1>9. CountedInv'
  <2>1. SUFFICES ASSUME zmalloc_thread_safe PROVE CountedInv'
    BY DEF CountedInv
  <2>2. Memory!Exact /\ used_memory + Ahead <= Posted
        /\ \A th \in Threads : loaded[th] = Nobody
    BY <1>1, <2>1 DEF CountedInv
  <2>3. used_memory \in Int /\ Posted \in Int
    <3>1. used_memory \in 0 .. 1023 /\ Posted \in 0 .. 1023
      BY <1>1, PostedFits DEF MemoryTypes
    <3>2. QED
      BY <3>1
  <2>4. Memory!Exact'
    <3>1. Due(updates[Main]) = 0
      BY DEF Due
    <3>2. Due(updates'[Main]) \in Int /\ Due(updates'[Main]) = Weight(Buffer)' - Weight(Buffer)
      BY <1>3, DueInt
    <3>3. (used_memory' - used_memory) + (Due(updates'[Main]) - Due(updates[Main]))
            = Weight(Buffer)' - Weight(Buffer)
      BY <2>3, <3>1, <3>2
    <3>4. QED
      BY <1>1, <1>2, <1>3, <1>5, <2>2, <3>3, BlockFacts, Moved
  <2>5. Posted' = Posted + BufferWeight
    <3>1. Nodes' = Nodes /\ Nodes \in Int /\ created \in Int
      BY <1>1 DEF Nodes, TypeOK
    <3>2. calls' * BufferWeight = calls * BufferWeight + BufferWeight
      BY <1>4, WeightsAre, TimesFacts
    <3>3. created * JobWeight \in Int /\ Nodes * NodeWeight \in Int /\ calls * BufferWeight \in Int
      BY <1>4, <3>1, WeightsAre
    <3>4. QED
      BY <3>1, <3>2, <3>3, WeightsAre DEF Posted
  <2>6. Ahead = 0 /\ Ahead' <= BufferWeight /\ Ahead' \in Int
    <3>1. u[Len(u)] \in Int
      OBVIOUS
    <3>2. QED
      BY <1>3, <3>1, WeightsAre DEF Ahead
  <2>7. used_memory' + Ahead' <= Posted'
    BY <2>2, <2>3, <2>5, <2>6, WeightsAre
  <2>8. QED
    BY <2>2, <2>4, <2>7 DEF CountedInv
<1>10. QED
  BY <1>5, <1>6, <1>7, <1>8, <1>9 DEF MemoryIInv

LEMMA BufferKeeps ==
  ASSUME IInv, IInv', MemoryIInv, UseBuffer
  PROVE  MemoryIInv'
<1>1. /\ mpc = "idle" /\ updates[Main] = <<>> /\ calls < MaxBufferCalls /\ calls' = calls + 1
      /\ wpc' = wpc /\ mpc' = mpc /\ created' = created
  BY DEF UseBuffer, Memory!Accounted, listVars, workerVars
<1>2. MemoryTypes /\ SizesInv /\ TypeOK
  BY DEF MemoryIInv, IInv
<1>3. BufferSize \in Nat /\ MaxBufferCalls \in Nat /\ Nobody \notin Nat
  BY BioAssumption, MemoryAssumption
<1>4. calls \in Nat /\ calls' \in Nat /\ calls' <= MaxBufferCalls
  BY <1>1, <1>2, <1>3 DEF MemoryTypes
<1>5. /\ calls * BufferSize \in Nat /\ calls' * BufferSize = calls * BufferSize + BufferSize
      /\ calls' * BufferSize \in Nat
  BY <1>1, <1>3, <1>4, TimesFacts
<1>6. Main \in Threads /\ updates \in [Threads -> Seq(Int)] /\ Buffer \in Blocks
      /\ block \in [Blocks -> Nat \union {Nobody}]
  BY <1>2, BlockFacts DEF Threads, MemoryTypes, TypeOK
<1>7. CASE Memory!zmalloc(Main, Buffer, BufferSize)
  <2> DEFINE w == Memory!Rounded(BufferSize + 8)
             u == <<w>>
  <2>1. /\ block[Buffer] = Nobody
        /\ block' = [block EXCEPT ![Buffer] = BufferSize]
        /\ updates' = [updates EXCEPT ![Main] = u]
        /\ UNCHANGED <<used_memory, zmalloc_thread_safe, loaded>>
    BY <1>7 DEF Memory!zmalloc
  <2>2. w \in Nat /\ w <= BufferWeight
    <3>1. BufferSize <= calls' * BufferSize
      BY <1>3, <1>5
    <3>2. QED
      BY <1>3, <1>4, <3>1, BufferBound
  <2>3. block'[Buffer] = BufferSize /\ \A c \in Blocks : c # Buffer => block'[c] = block[c]
    BY <1>6, <2>1
  <2>4. Weight(Buffer) = 0 /\ Weight(Buffer)' = w
    BY <1>3, <2>1, <2>3 DEF Weight
  <2> HIDE DEF w
  <2>5. u \in Seq(Int) /\ u # <<>> /\ Len(u) = 1 /\ u[1] = w /\ Due(u) = w
    BY <2>2 DEF Due
  <2> HIDE DEF u
  <2>6. updates'[Main] = u
    BY <1>6, <2>1
  <2>7. MainDueInv'
    BY <1>1, <1>3, <2>2, <2>3, <2>5, <2>6 DEF MainDueInv, w
  <2>8. block'[Buffer] \in 0 .. calls' * BufferSize
    BY <1>3, <1>5, <2>3
  <2>9. Due(u) = Weight(Buffer)' - Weight(Buffer) /\ u[Len(u)] <= BufferWeight
    BY <2>2, <2>4, <2>5
  <2>10. QED
    BY <1>1, <2>1, <2>3, <2>5, <2>7, <2>8, <2>9, BufferMoves
<1>8. CASE block[Buffer] # Nobody /\ Memory!zrealloc(Main, Buffer, block[Buffer] + BufferSize)
  <2> DEFINE old == block[Buffer]
             new == block[Buffer] + BufferSize
             v == Memory!Rounded(old)
             w == Memory!Rounded(new)
             u == <<-v, w>>
  <2>1. /\ block[Buffer] # Nobody
        /\ block' = [block EXCEPT ![Buffer] = new]
        /\ updates' = [updates EXCEPT ![Main] = u]
        /\ UNCHANGED <<used_memory, zmalloc_thread_safe, loaded>>
    BY <1>8 DEF Memory!zrealloc
  <2>2. old \in Nat /\ new \in Nat /\ old <= calls * BufferSize /\ new <= calls' * BufferSize
    <3>1. old \in 0 .. calls * BufferSize
      BY <1>2, <2>1 DEF SizesInv
    <3>2. QED
      BY <1>3, <1>5, <3>1
  <2>3. block'[Buffer] = new /\ \A c \in Blocks : c # Buffer => block'[c] = block[c]
    BY <1>6, <2>1
  <2>4. Weight(Buffer) = Memory!Rounded(old + 8) /\ Weight(Buffer)' = Memory!Rounded(new + 8)
    BY <1>3, <2>1, <2>2, <2>3 DEF Weight
  <2> HIDE DEF old, new
  <2>5. v \in Nat /\ w \in Nat /\ Memory!Rounded(old + 8) = v + 8
        /\ Memory!Rounded(new + 8) = w + 8 /\ w + 8 <= BufferWeight
    BY <1>4, <2>2, RoundedFacts, BufferBound
  <2> HIDE DEF v, w
  <2>6. u \in Seq(Int) /\ u # <<>> /\ Len(u) = 2 /\ u[1] = -v /\ u[2] = w /\ Due(u) = -v + w
    BY <2>5 DEF Due
  <2> HIDE DEF u
  <2>7. updates'[Main] = u
    BY <1>6, <2>1
  <2>8. MainDueInv'
    <3>1. u[1] <= 0 /\ u[2] \in 0 .. Memory!Rounded(block'[Buffer] + 8)
      BY <2>3, <2>5, <2>6
    <3>2. block'[Buffer] # Nobody
      BY <1>3, <2>2, <2>3
    <3>3. QED
      BY <1>1, <2>6, <2>7, <3>1, <3>2 DEF MainDueInv
  <2>9. block'[Buffer] \in 0 .. calls' * BufferSize
    BY <1>5, <2>2, <2>3
  <2>10. Due(u) = Weight(Buffer)' - Weight(Buffer) /\ u[Len(u)] <= BufferWeight
    <3>1. BufferWeight \in Int
      BY WeightsAre
    <3>2. QED
      BY <2>4, <2>5, <2>6, <3>1
  <2>11. QED
    BY <1>1, <2>1, <2>3, <2>6, <2>8, <2>9, <2>10, BufferMoves
<1>9. CASE Memory!zfree(Main, Buffer)
  <2> DEFINE w == Memory!Rounded(block[Buffer] + 8)
             u == <<-w>>
  <2>1. /\ block[Buffer] # Nobody
        /\ block' = [block EXCEPT ![Buffer] = Nobody]
        /\ updates' = [updates EXCEPT ![Main] = u]
        /\ UNCHANGED <<used_memory, zmalloc_thread_safe, loaded>>
    BY <1>9 DEF Memory!zfree
  <2>2. Weight(Buffer) = w /\ w \in Nat
    <3>1. Weight(Buffer) = w
      BY <2>1 DEF Weight
    <3>2. QED
      BY <1>2, <3>1, BlockFacts, WeightNat
  <2> HIDE DEF w
  <2>3. block'[Buffer] = Nobody /\ \A c \in Blocks : c # Buffer => block'[c] = block[c]
    BY <1>6, <2>1
  <2>4. Weight(Buffer)' = 0
    BY <2>3 DEF Weight
  <2>5. u \in Seq(Int) /\ u # <<>> /\ Len(u) = 1 /\ u[1] = -w /\ Due(u) = -w
    BY <2>2 DEF Due
  <2> HIDE DEF u
  <2>6. updates'[Main] = u
    BY <1>6, <2>1
  <2>7. MainDueInv'
    <3>1. u[1] <= 0
      BY <2>2, <2>5
    <3>2. QED
      BY <1>1, <2>5, <2>6, <3>1 DEF MainDueInv
  <2>8. Due(u) = Weight(Buffer)' - Weight(Buffer) /\ u[Len(u)] <= BufferWeight
    BY <2>2, <2>4, <2>5, WeightsAre
  <2>9. QED
    BY <1>1, <2>1, <2>3, <2>5, <2>7, <2>8, BufferMoves
<1>10. QED
  BY <1>7, <1>8, <1>9 DEF UseBuffer

-------------------------------------------------------------------------------
(* A thread has made the first of the changes it has to make.              *)
TailTaken(th) ==
  /\ updates[th] # <<>>
  /\ updates' = [updates EXCEPT ![th] = Tail(@)]
  /\ UNCHANGED <<zmalloc_thread_safe, block>>
  /\ UNCHANGED <<listVars, workerVars, mainVars>>

LEMMA DueTaken ==
  ASSUME NEW u \in Seq(Int), Len(u) \in {1, 2}
  PROVE  /\ Head(u) \in Int /\ Head(u) = u[1] /\ Tail(u) \in Seq(Int)
         /\ Due(Tail(u)) = Due(u) - Head(u) /\ Due(u) \in Int
         /\ (Len(u) = 1 => Tail(u) = <<>>)
         /\ (Len(u) = 2 => Len(Tail(u)) = 1 /\ Tail(u)[1] = u[2])
<1>1. u # <<>> /\ 1 \in 1 .. Len(u) /\ Len(u) \in 1 .. Len(u)
  OBVIOUS
<1>2. Head(u) = u[1] /\ u[1] \in Int /\ u[Len(u)] \in Int
  BY <1>1
<1>3. Tail(u) \in Seq(Int) /\ Len(Tail(u)) = Len(u) - 1
      /\ \A i \in 1 .. Len(u) - 1 : Tail(u)[i] = u[i + 1]
  BY <1>1
<1> DEFINE t == Tail(u)
           n == Len(u)
<1>4. CASE n = 1
  <2>1. t = <<>>
    <3>1. t \in Seq(Int) /\ Len(t) = 0
      BY <1>3, <1>4
    <3> HIDE DEF t, n
    <3>2. QED
      BY <3>1, EmptySeq
  <2>2. Due(t) = 0
    BY <2>1 DEF Due
  <2>3. Due(u) = u[1]
    BY <1>4 DEF Due
  <2>4. t \in Seq(Int)
    BY <1>3
  <2> HIDE DEF t, n
  <2>5. Due(t) = Due(u) - Head(u) /\ Due(u) \in Int
    BY <1>2, <2>2, <2>3
  <2>6. n # 2
    BY <1>4
  <2>7. QED
    BY <1>2, <2>1, <2>4, <2>5, <2>6 DEF t, n
<1>5. CASE n = 2
  <2>1. Len(t) = 1 /\ t[1] = u[2]
    BY <1>3, <1>5
  <2>2. Due(t) = u[2]
    BY <2>1 DEF Due
  <2>3. Due(u) = u[1] + u[2] /\ u[2] \in Int
    BY <1>2, <1>5 DEF Due
  <2>4. t \in Seq(Int)
    BY <1>3
  <2> HIDE DEF t, n
  <2>5. Due(t) = Due(u) - Head(u) /\ Due(u) \in Int
    BY <1>2, <2>2, <2>3
  <2>6. n # 1
    BY <1>5
  <2>7. QED
    BY <1>2, <2>1, <2>4, <2>5, <2>6 DEF t, n
<1>6. n = 1 \/ n = 2
  OBVIOUS
<1> HIDE DEF t, n
<1>7. QED
  BY <1>4, <1>5, <1>6

(* What a thread has to make: at most two changes, and only main's last    *)
(* one adds.                                                               *)
LEMMA DueShape ==
  ASSUME MemoryTypes, WorkerDueInv, MainDueInv, NEW th \in Threads, updates[th] # <<>>
  PROVE  /\ updates[th] \in Seq(Int)
         /\ Len(updates[th]) \in {1, 2}
         /\ (th \in Ops \/ Len(updates[th]) = 2 => updates[th][1] <= 0)
         /\ (th \in Ops => Len(updates[th]) = 1)
<1>1. updates[th] \in Seq(Int)
  BY DEF MemoryTypes
<1>2. CASE th \in Ops
  BY <1>1, <1>2 DEF WorkerDueInv
<1>3. CASE th = Main
  <2>1. Main \notin Ops
    BY OpsFacts
  <2>2. Len(updates[Main]) = 1 \/ (Len(updates[Main]) = 2 /\ updates[Main][1] <= 0)
    <3>1. updates[Main] # <<>>
      BY <1>3
    <3>2. Len(<<JobWeight>>) = 1 /\ Len(<<NodeWeight>>) = 1
      OBVIOUS
    <3>3. QED
      BY <3>1, <3>2, Zenon DEF MainDueInv
  <2> DEFINE n == Len(updates[th])
  <2>3. n = 1 \/ (n = 2 /\ updates[th][1] <= 0)
    BY <1>3, <2>2
  <2>4. th \notin Ops
    BY <1>3, <2>1
  <2> HIDE DEF n
  <2>5. n \in {1, 2} /\ (n = 2 => updates[th][1] <= 0)
    BY <2>3
  <2>6. QED
    BY <1>1, <2>4, <2>5 DEF n
<1>4. QED
  BY <1>2, <1>3 DEF Threads

LEMMA TailKeeps ==
  ASSUME IInv, MemoryIInv, NEW th \in Threads, TailTaken(th),
         used_memory' \in 0 .. 1023,
         loaded' \in [Threads -> Int \union {Nobody}], loaded'[th] = Nobody,
         \A t \in Threads : t # th => loaded'[t] = loaded[t]
  PROVE  MemoryTypes' /\ StartInv' /\ SizesInv' /\ WorkerDueInv' /\ MainDueInv'
<1>1. MemoryTypes /\ StartInv /\ SizesInv /\ WorkerDueInv /\ MainDueInv
  BY DEF MemoryIInv
<1>2. /\ updates[th] # <<>> /\ updates' = [updates EXCEPT ![th] = Tail(@)]
      /\ UNCHANGED <<zmalloc_thread_safe, block, wpc, mpc, created, calls>>
  BY DEF TailTaken, workerVars, mainVars
<1> DEFINE u == updates[th]
<1>3. /\ u \in Seq(Int) /\ Len(u) \in {1, 2} /\ (th \in Ops => Len(u) = 1)
  BY <1>1, <1>2, DueShape
<1>4. updates'[th] = Tail(u) /\ \A t \in Threads : t # th => updates'[t] = updates[t]
  BY <1>1, <1>2 DEF MemoryTypes
<1>5. Tail(u) \in Seq(Int) /\ (Len(u) = 1 => Tail(u) = <<>>)
      /\ (Len(u) = 2 => Len(Tail(u)) = 1 /\ Tail(u)[1] = u[2])
  BY <1>3, DueTaken
<1> HIDE DEF u
<1>6. MemoryTypes'
  <2>1. updates' \in [Threads -> Seq(Int)]
    BY <1>1, <1>2, <1>5 DEF MemoryTypes, u
  <2>2. \A t \in Threads : loaded'[t] # Nobody => updates'[t] # <<>>
    BY <1>1, <1>4 DEF MemoryTypes
  <2>3. QED
    BY <1>1, <1>2, <2>1, <2>2 DEF MemoryTypes
<1>7. StartInv'
  BY <1>1, <1>2 DEF StartInv
<1>8. SizesInv'
  BY <1>1, <1>2 DEF SizesInv
<1>9. WorkerDueInv'
  <2>1. ASSUME NEW op \in Ops
        PROVE  updates'[op] = <<>> \/ updates'[op] = updates[op]
    <3>1. op \in Threads
      BY DEF Threads
    <3>2. CASE op = th
      BY <1>3, <1>4, <1>5, <3>2
    <3>3. CASE op # th
      BY <1>4, <3>1, <3>3
    <3>4. QED
      BY <3>2, <3>3
  <2>2. QED
    BY <1>1, <1>2, <2>1 DEF WorkerDueInv
<1>10. MainDueInv'
  <2>1. Main \in Threads
    BY DEF Threads
  <2>2. CASE th # Main
    <3>1. updates'[Main] = updates[Main]
      BY <1>4, <2>1, <2>2
    <3>2. QED
      BY <1>1, <1>2, <3>1 DEF MainDueInv
  <2>3. CASE th = Main /\ Len(u) = 1
    BY <1>4, <1>5, <2>3 DEF MainDueInv
  <2>4. CASE th = Main /\ Len(u) = 2
    <3>1. updates[Main] = u /\ u # <<>>
      BY <2>4 DEF u
    <3>2. /\ mpc = "idle" /\ block[Buffer] # Nobody
          /\ u[2] \in 0 .. Memory!Rounded(block[Buffer] + 8)
      <4>1. Len(<<JobWeight>>) = 1 /\ Len(<<NodeWeight>>) = 1 /\ 1 # 2
        OBVIOUS
      <4>2. QED
        BY <1>1, <2>4, <3>1, <4>1, Zenon DEF MainDueInv
    <3>3. updates'[Main] = Tail(u) /\ Len(Tail(u)) = 1 /\ Tail(u)[1] = u[2]
      BY <1>4, <1>5, <2>4
    <3>4. QED
      BY <1>2, <3>2, <3>3, ZenonT(30) DEF MainDueInv
  <2>5. QED
    BY <1>3, <2>2, <2>3, <2>4
<1>11. QED
  BY <1>6, <1>7, <1>8, <1>9, <1>10

LEMMA DuesBelowAlways ==
  IInv /\ MemoryTypes /\ SizesInv /\ WorkerDueInv /\ MainDueInv
    => SumOf(Dues, Threads) <= SumOf(Weighed, Blocks)
BY DuesBelow

LEMMA DuesBelowNext ==
  (IInv /\ MemoryTypes /\ SizesInv /\ WorkerDueInv /\ MainDueInv
    => SumOf(Dues, Threads) <= SumOf(Weighed, Blocks))'
BY DuesBelowAlways, PTL

(* The counter can take what a thread adds to it, or takes off.            *)
LEMMA SumInRange ==
  ASSUME IInv, IInv', MemoryIInv, NEW th \in Threads, TailTaken(th), zmalloc_thread_safe,
         MemoryTypes', SizesInv', WorkerDueInv', MainDueInv'
  PROVE  LET s == used_memory + Head(updates[th])
         IN  /\ s \in 0 .. 1023
             /\ s + Ahead' <= Posted'
<1>1. MemoryTypes /\ WorkerDueInv /\ MainDueInv /\ CountedInv /\ TypeOK /\ TypeOK'
  BY DEF MemoryIInv, IInv
<1>2. /\ updates[th] # <<>> /\ updates' = [updates EXCEPT ![th] = Tail(@)]
      /\ UNCHANGED <<block, mpc, created, calls>>
  BY DEF TailTaken, mainVars
<1> DEFINE u == updates[th]
           h == Head(u)
           s == used_memory + h
<1>3. /\ u \in Seq(Int) /\ Len(u) \in {1, 2}
      /\ (th \in Ops \/ Len(u) = 2 => u[1] <= 0)
  BY <1>1, <1>2, DueShape
<1>4. updates'[th] = Tail(u) /\ \A t \in Threads : t # th => updates'[t] = updates[t]
  BY <1>1, <1>2 DEF MemoryTypes
<1>5. /\ h \in Int /\ h = u[1] /\ Due(Tail(u)) = Due(u) - h /\ Due(u) \in Int
      /\ (Len(u) = 1 => Tail(u) = <<>>)
      /\ (Len(u) = 2 => Len(Tail(u)) = 1 /\ Tail(u)[1] = u[2])
  BY <1>3, DueTaken
<1>6. used_memory \in Int /\ used_memory <= 1023 /\ Posted \in Int /\ Posted <= 1023
      /\ Posted' = Posted /\ Ahead \in Nat
  <2>1. used_memory \in 0 .. 1023 /\ Posted \in 0 .. 1023
    BY <1>1, PostedFits, ZenonT(30) DEF MemoryTypes
  <2>2. Posted' = Posted
    BY <1>2 DEF Posted, Nodes
  <2>3. QED
    BY <1>1, <2>1, <2>2, AheadNat
<1>7. Memory!Exact /\ used_memory + Ahead <= Posted
  BY <1>1 DEF CountedInv
<1> HIDE DEF u, h
<1>8. 0 <= s
  <2> DEFINE d == Dues
             e == Dues'
             v == Weighed
             w == Weighed'
  <2>1. /\ Numeric(d, Threads) /\ Numeric(e, Threads)
        /\ Memory!Unaccounted = SumOf(d, Threads)
    BY <1>1, DuesInt, DuesNext
  <2>2. d[th] = Due(u) /\ e[th] = Due(Tail(u)) /\ \A t \in Threads : t # th => d[t] = e[t]
    BY <1>4 DEF Dues, u
  <2>3. Memory!Footprint = SumOf(v, Blocks) /\ Numeric(v, Blocks)
    BY <1>1, FootprintIs, WeighedInt
  <2>4. w = v
    BY <1>2 DEF Weighed, Weight
  <2>5. SumOf(e, Threads) <= SumOf(w, Blocks)
    BY DuesBelowNext
  <2> HIDE DEF d, e, v, w
  <2>6. SumOf(e, Threads) = (SumOf(d, Threads) - d[th]) + e[th]
    BY <2>1, <2>2, FiniteSets, SumChanged
  <2>7. SumOf(d, Threads) \in Int
    BY <2>1, FiniteSets, SumWithout
  <2>8. Buffer \in Blocks
    BY BlockFacts
  <2>9. SumOf(v, Blocks) \in Int
    BY <2>3, <2>8, FiniteSets, SumWithout
  <2>10. used_memory + SumOf(d, Threads) = SumOf(v, Blocks)
    BY <1>7, <2>1, <2>3 DEF Memory!Exact
  <2> DEFINE D == SumOf(d, Threads)
             E == SumOf(e, Threads)
             V == SumOf(v, Blocks)
  <2>11. E = (D - Due(u)) + (Due(u) - h) /\ E <= V
    BY <1>5, <2>2, <2>4, <2>5, <2>6
  <2>12. D \in Int /\ V \in Int /\ used_memory + D = V
    BY <2>7, <2>9, <2>10
  <2> HIDE DEF D, E, V
  <2>13. QED
    BY <1>5, <1>6, <2>11, <2>12
<1>9. s + Ahead' <= Posted
  <2>1. CASE th # Main
    <3>1. th \in Ops /\ Main \in Threads
      BY <2>1 DEF Threads
    <3>2. Ahead' = Ahead
      BY <1>4, <2>1, <3>1 DEF Ahead
    <3>3. h <= 0
      BY <1>3, <1>5, <3>1
    <3>4. QED
      BY <1>5, <1>6, <1>7, <3>2, <3>3
  <2>2. CASE th = Main /\ Len(u) = 1
    <3>1. updates'[Main] = <<>>
      BY <1>4, <1>5, <2>2
    <3>2. Ahead' = 0
      BY <3>1 DEF Ahead
    <3>3. Ahead = IF h > 0 THEN h ELSE 0
      <4>1. updates[Main] = u /\ u # <<>> /\ u[Len(u)] = h
        BY <1>2, <1>5, <2>2 DEF u
      <4>2. QED
        BY <4>1 DEF Ahead
    <3>4. QED
      BY <1>5, <1>6, <1>7, <3>2, <3>3
  <2>3. CASE th = Main /\ Len(u) = 2
    <3>1. Ahead' = Ahead
      <4>1. updates[Main] = u /\ u # <<>> /\ u[Len(u)] = u[2]
        BY <1>2, <2>3 DEF u
      <4>2. updates'[Main] = Tail(u) /\ Tail(u) # <<>> /\ Tail(u)[Len(Tail(u))] = u[2]
        <5> DEFINE t == Tail(u)
        <5>1. updates'[Main] = t /\ Len(t) = 1 /\ t[1] = u[2]
          BY <1>4, <1>5, <2>3
        <5> HIDE DEF t
        <5>2. t # <<>>
          BY <5>1, EmptySeq
        <5>3. QED
          BY <5>1, <5>2 DEF t
      <4>3. Ahead = IF u[2] > 0 THEN u[2] ELSE 0
        BY <4>1 DEF Ahead
      <4>4. Ahead' = IF u[2] > 0 THEN u[2] ELSE 0
        BY <4>2 DEF Ahead
      <4>5. QED
        BY <4>3, <4>4
    <3>2. h <= 0
      BY <1>3, <1>5, <2>3
    <3>3. QED
      BY <1>5, <1>6, <1>7, <3>1, <3>2
  <2>4. QED
    BY <1>3, <2>1, <2>2, <2>3
<1>10. Ahead' \in Nat
  <2>1. (MemoryTypes => Ahead \in Nat)'
    BY AheadNat, PTL
  <2>2. QED
    BY <2>1
<1>11. s \in 0 .. 1023 /\ s + Ahead' <= Posted'
  <2> DEFINE a == Ahead'
             p == Posted
  <2>1. a \in Nat /\ p \in Int /\ p <= 1023 /\ s + a <= p /\ 0 <= s /\ s \in Int
    BY <1>5, <1>6, <1>8, <1>9, <1>10
  <2> HIDE DEF a, p, s
  <2>2. s \in 0 .. 1023
    BY <2>1
  <2>3. QED
    BY <1>6, <2>1, <2>2, ZenonT(30) DEF a, p
<1>12. QED
  BY <1>11 DEF u, h

LEMMA UpdateKeeps ==
  ASSUME IInv, IInv', MemoryIInv, NEW th \in Threads, UpdateUsed(th)
  PROVE  MemoryIInv'
<1>1. MemoryTypes /\ StartInv /\ SizesInv /\ WorkerDueInv /\ MainDueInv /\ CountedInv
      /\ TypeOK /\ TypeOK'
  BY DEF MemoryIInv, IInv
<1>2. UNCHANGED <<listVars, workerVars, mainVars, block>>
  BY UpdateFacts
<1>3. UNCHANGED <<wpc, mpc, created, calls>>
  BY <1>2 DEF workerVars, mainVars
<1> DEFINE u == updates[th]
           s == used_memory + Head(u)
<1>4. u # <<>> => u \in Seq(Int) /\ Len(u) \in {1, 2}
  BY <1>1, DueShape
<1>5. used_memory \in Int /\ (u # <<>> => Head(u) \in Int /\ Due(Tail(u)) = Due(u) - Head(u)
                                           /\ Due(u) \in Int)
  <2>1. used_memory \in 0 .. 1023
    BY <1>1 DEF MemoryTypes
  <2>2. QED
    BY <1>4, <2>1, DueTaken
<1>6. CASE Memory!UpdateStat(th)
  <2>1. /\ u # <<>> /\ zmalloc_thread_safe /\ used_memory' = s % 1024
        /\ TailTaken(th) /\ loaded' = loaded
    BY <1>2, <1>6 DEF Memory!UpdateStat, TailTaken
  <2>2. \A t \in Threads : loaded[t] = Nobody
    BY <1>1, <2>1 DEF CountedInv
  <2> HIDE DEF u
  <2>3. s \in Int
    BY <1>5, <2>1
  <2> HIDE DEF s
  <2>4. used_memory' \in 0 .. 1023
    BY <2>1, <2>3
  <2>5. MemoryTypes' /\ StartInv' /\ SizesInv' /\ WorkerDueInv' /\ MainDueInv'
    BY <1>1, <2>1, <2>2, <2>4, TailKeeps DEF MemoryTypes
  <2>6. s \in 0 .. 1023 /\ s + Ahead' <= Posted'
    BY <2>1, <2>5, SumInRange DEF s, u
  <2>7. used_memory' = s
    BY <2>1, <2>6
  <2>8. Memory!Exact
    BY <1>1, <2>1 DEF CountedInv
  <2>9. updates'[th] = Tail(u) /\ \A t \in Threads : t # th => updates'[t] = updates[t]
    BY <1>1, <2>1 DEF TailTaken, MemoryTypes, u
  <2>10. Weight(Buffer) \in Int /\ Weight(Buffer)' = Weight(Buffer)
    BY <1>1, <1>2, BlockFacts, WeightNat DEF Weight
  <2>11. (used_memory' - used_memory) + (Due(updates'[th]) - Due(updates[th]))
           = Weight(Buffer)' - Weight(Buffer)
    <3>1. Due(updates'[th]) = Due(u) - Head(u) /\ Due(u) \in Int /\ Head(u) \in Int
      BY <1>5, <2>1, <2>9
    <3>2. used_memory' = used_memory + Head(u)
      BY <2>7 DEF s
    <3>3. (used_memory' - used_memory) + ((Due(u) - Head(u)) - Due(u)) = 0
      BY <1>5, <3>1, <3>2
    <3>4. Due(updates[th]) = Due(u)
      BY DEF u
    <3>5. Weight(Buffer)' - Weight(Buffer) = 0
      BY <2>10
    <3>6. QED
      BY <3>1, <3>3, <3>4, <3>5
  <2>12. Memory!Exact'
    BY <1>1, <1>2, <2>5, <2>8, <2>9, <2>11, BlockFacts, Moved
  <2>13. CountedInv'
    BY <2>1, <2>2, <2>6, <2>7, <2>12 DEF CountedInv
  <2>14. QED
    BY <2>5, <2>13 DEF MemoryIInv
<1>7. CASE Memory!LoadStat(th)
  <2>1. /\ u # <<>> /\ ~zmalloc_thread_safe
        /\ loaded' = [loaded EXCEPT ![th] = used_memory]
        /\ UNCHANGED <<used_memory, zmalloc_thread_safe, block, updates>>
    BY <1>7 DEF Memory!LoadStat
  <2>2. loaded' \in [Threads -> Int \union {Nobody}]
    BY <1>1, <1>5, <2>1 DEF MemoryTypes
  <2>3. \A t \in Threads : loaded'[t] # Nobody => updates'[t] # <<>>
    BY <1>1, <2>1 DEF MemoryTypes
  <2>4. MemoryTypes'
    BY <1>1, <1>3, <2>1, <2>2, <2>3 DEF MemoryTypes
  <2>5. StartInv'
    BY <1>1, <1>3, <2>1 DEF StartInv
  <2>6. SizesInv' /\ WorkerDueInv' /\ MainDueInv'
    BY <1>1, <1>3, <2>1 DEF SizesInv, WorkerDueInv, MainDueInv
  <2>7. CountedInv'
    BY <2>1 DEF CountedInv
  <2>8. QED
    BY <2>4, <2>5, <2>6, <2>7 DEF MemoryIInv
<1>8. CASE Memory!StoreStat(th)
  <2>1. /\ loaded[th] # Nobody
        /\ used_memory' = (loaded[th] + Head(u)) % 1024
        /\ updates' = [updates EXCEPT ![th] = Tail(@)]
        /\ loaded' = [loaded EXCEPT ![th] = Nobody]
        /\ UNCHANGED <<zmalloc_thread_safe, block>>
    BY <1>8 DEF Memory!StoreStat
  <2>2. u # <<>> /\ loaded[th] \in Int /\ ~zmalloc_thread_safe
    BY <1>1, <2>1 DEF MemoryTypes, CountedInv
  <2>3. TailTaken(th)
    BY <1>2, <2>1, <2>2 DEF TailTaken
  <2> HIDE DEF u
  <2>4. used_memory' \in 0 .. 1023
    <3> DEFINE n == loaded[th] + Head(u)
    <3>1. n \in Int /\ used_memory' = n % 1024
      BY <1>5, <2>1, <2>2
    <3> HIDE DEF n
    <3>2. QED
      BY <3>1
  <2>5. /\ loaded' \in [Threads -> Int \union {Nobody}] /\ loaded'[th] = Nobody
        /\ \A t \in Threads : t # th => loaded'[t] = loaded[t]
    BY <1>1, <2>1 DEF MemoryTypes
  <2>6. MemoryTypes' /\ StartInv' /\ SizesInv' /\ WorkerDueInv' /\ MainDueInv'
    BY <2>3, <2>4, <2>5, TailKeeps
  <2>7. CountedInv'
    BY <2>1, <2>2 DEF CountedInv
  <2>8. QED
    BY <2>6, <2>7 DEF MemoryIInv
<1>9. QED
  BY <1>6, <1>7, <1>8 DEF UpdateUsed, Memory!Account

-------------------------------------------------------------------------------
LEMMA MemoryInitInv == Init => MemoryIInv
<1> SUFFICES ASSUME Init PROVE MemoryIInv
  OBVIOUS
<1>1. /\ mpc = "start" /\ created = 0 /\ calls = 0 /\ used_memory = 0
      /\ zmalloc_thread_safe = FALSE
      /\ block = [b \in Blocks |-> Nobody]
      /\ updates = [th \in Threads |-> <<>>] /\ loaded = [th \in Threads |-> Nobody]
  BY DEF Init, Memory!MemoryInit, Threads
<1>2. MemoryTypes
  <2>1. used_memory \in 0 .. 1023 /\ calls \in 0 .. MaxBufferCalls
    BY <1>1, MemoryAssumption
  <2>2. <<>> \in Seq(Int)
    OBVIOUS
  <2>3. updates \in [Threads -> Seq(Int)] /\ loaded \in [Threads -> Int \union {Nobody}]
    BY <1>1, <2>2
  <2>4. \A th \in Threads : loaded[th] = Nobody
    BY <1>1
  <2>5. QED
    BY <1>1, <2>1, <2>3, <2>4 DEF MemoryTypes
<1>3. StartInv /\ WorkerDueInv /\ MainDueInv /\ CountedInv
  BY <1>1 DEF StartInv, WorkerDueInv, MainDueInv, CountedInv, Threads
<1>4. SizesInv
  BY <1>1, BlockFacts DEF SizesInv
<1>5. QED
  BY <1>2, <1>3, <1>4 DEF MemoryIInv

(* The worker of a type has nothing to count but behind a block it freed.  *)
LEMMA WorkerIdle ==
  ASSUME MemoryIInv, NEW op \in Ops, wpc[op] \notin {"freed", "deleted"}
  PROVE  updates[op] = <<>>
BY DEF MemoryIInv, WorkerDueInv

LEMMA MainStep ==
  ASSUME IInv, IInv', MemoryIInv, MainRuns
  PROVE  MemoryIInv'
<1>1. TypeOK /\ TypeOK' /\ Main \in Threads /\ \A op \in Ops : op \in Threads
  BY DEF IInv, Threads
<1>2. CASE EnableThreadSafeness
  BY <1>2, EnableKeeps
<1>3. ASSUME NEW op \in Ops, SpawnWorker(op) PROVE MemoryIInv'
  <2>1. /\ mpc = "start" /\ mpc' \in {"idle", "start"} /\ created' = created /\ calls' = calls
        /\ UNCHANGED memVars
    BY <1>3 DEF SpawnWorker
  <2>2. \A th \in Threads : updates[th] = <<>>
    BY <2>1 DEF MemoryIInv, StartInv
  <2>3. MainBusy' = MainBusy
    BY <2>1 DEF MainBusy
  <2>4. QED
    BY <1>1, <2>1, <2>2, <2>3, UnmovedKeeps DEF memVars
<1>4. ASSUME NEW op \in Ops, AllocateJob(op) PROVE MemoryIInv'
  <2>1. /\ mpc = "idle" /\ mpc' = "allocated" /\ updates[Main] = <<>> /\ created < MaxJobs
        /\ Memory!zmalloc(Main, JobBlock(created + 1), JobSize) /\ created' = created + 1
        /\ wpc' = wpc /\ calls' = calls
    BY <1>4 DEF AllocateJob, Memory!Accounted, workerVars
  <2>2. created + 1 \in Jobs
    BY <1>1, <2>1, BioAssumption DEF TypeOK, Jobs
  <2>3. JobBlock(created + 1) \in Blocks /\ JobSize \in Nat
    BY <2>2, BlockFacts, BioAssumption
  <2>4. QED
    BY <2>1, <2>2, <2>3, AllocateKeeps
<1>5. CASE AllocateNode
  <2>1. /\ mpc = "locked" /\ mpc' = "push" /\ created' = created
        /\ Memory!zmalloc(Main, NodeBlock(created), NodeSize)
        /\ wpc' = wpc /\ calls' = calls
    BY <1>5 DEF AllocateNode, workerVars
  <2>2. created \in Jobs
    BY <1>1, <2>1 DEF TypeOK, Creating
  <2>3. NodeBlock(created) \in Blocks /\ NodeSize \in Nat
    BY <2>2, BlockFacts, BioAssumption
  <2>4. updates[Main] = <<>>
    BY <2>1 DEF MemoryIInv, MainDueInv
  <2>5. QED
    BY <2>1, <2>2, <2>3, <2>4, AllocateKeeps
<1>6. CASE LockToCreate
  <2>1. /\ mpc = "allocated" /\ mpc' = "locked" /\ updates[Main] = <<>>
        /\ created' = created /\ calls' = calls /\ wpc' = wpc /\ UNCHANGED memVars
    BY <1>6 DEF LockToCreate, Memory!Accounted, workerVars
  <2>2. MainBusy' = MainBusy
    BY <2>1 DEF MainBusy
  <2>3. QED
    BY <1>1, <2>1, <2>2, UnmovedKeeps DEF memVars
<1>7. CASE PushJob
  <2>1. /\ mpc = "push" /\ mpc' = "idle" /\ updates[Main] = <<>>
        /\ created' = created /\ calls' = calls /\ UNCHANGED memVars
        /\ wpc' = IF wpc[mop] = "wait" THEN [wpc EXCEPT ![mop] = "lock"] ELSE wpc
    BY <1>7 DEF PushJob, Memory!Accounted
  <2>2. MainBusy' = MainBusy
    BY <2>1 DEF MainBusy
  <2>3. ASSUME NEW o \in Ops PROVE updates[o] = <<>> \/ wpc'[o] = wpc[o]
    <3>1. CASE wpc[o] = "wait"
      BY <3>1, WorkerIdle
    <3>2. CASE wpc[o] # "wait"
      BY <1>1, <2>1, <3>2 DEF TypeOK
    <3>3. QED
      BY <3>1, <3>2
  <2>4. QED
    BY <1>1, <2>1, <2>2, <2>3, UnmovedKeeps DEF memVars
<1>8. ASSUME NEW op \in Ops, AskPending(op) PROVE MemoryIInv'
  <2>1. /\ mpc = "idle" /\ mpc' = "answered" /\ updates[Main] = <<>>
        /\ created' = created /\ calls' = calls /\ wpc' = wpc /\ UNCHANGED memVars
    BY <1>8 DEF AskPending, Memory!Accounted, workerVars
  <2>2. MainBusy' = MainBusy
    BY <2>1 DEF MainBusy
  <2>3. QED
    BY <1>1, <2>1, <2>2, UnmovedKeeps DEF memVars
<1>9. CASE UseAnswer
  <2>1. /\ mpc = "answered" /\ mpc' = "idle"
        /\ created' = created /\ calls' = calls /\ wpc' = wpc /\ UNCHANGED memVars
    BY <1>9 DEF UseAnswer, workerVars
  <2>2. MainBusy' = MainBusy
    BY <2>1 DEF MainBusy
  <2>3. updates[Main] = <<>>
    BY <2>1 DEF MemoryIInv, MainDueInv
  <2>4. QED
    BY <1>1, <2>1, <2>2, <2>3, UnmovedKeeps DEF memVars
<1>10. CASE UseBuffer
  BY <1>10, BufferKeeps
<1>11. CASE UpdateUsed(Main)
  BY <1>1, <1>11, UpdateKeeps
<1>12. QED
  BY <1>2, <1>3, <1>4, <1>5, <1>6, <1>7, <1>8, <1>9, <1>10, <1>11 DEF MainRuns, MainGoesOn

LEMMA WorkerStep ==
  ASSUME IInv, IInv', MemoryIInv, NEW op \in Ops, WorkerRuns(op)
  PROVE  MemoryIInv'
<1>1. TypeOK /\ TypeOK' /\ op \in Threads
  BY DEF IInv, Threads
<1>2. ASSUME UNCHANGED mainVars, UNCHANGED memVars, NEW pc, wpc' = [wpc EXCEPT ![op] = pc],
             updates[op] = <<>>
      PROVE  MemoryIInv'
  <2>1. \A o \in Ops : updates[o] = <<>> \/ wpc'[o] = wpc[o]
    BY <1>1, <1>2 DEF TypeOK
  <2>2. MainBusy' = MainBusy
    BY <1>2 DEF MainBusy, mainVars
  <2>3. QED
    BY <1>1, <1>2, <2>1, <2>2, UnmovedKeeps DEF memVars, mainVars
<1>3. CASE LockToWork(op) \/ WaitForJob(op) \/ WakeSpuriously(op) \/ PeekJob(op) \/ RunJob(op)
  <2>1. /\ UNCHANGED mainVars /\ UNCHANGED memVars
        /\ \E pc \in {"top", "wait", "lock", "run", "ran"} : wpc' = [wpc EXCEPT ![op] = pc]
        /\ wpc[op] \notin {"freed", "deleted"}
    BY <1>3 DEF LockToWork, WaitForJob, WakeSpuriously, PeekJob, RunJob
  <2>2. QED
    BY <1>2, <2>1, WorkerIdle
<1>4. CASE LockToDelete(op) \/ Uncount(op)
  <2>1. /\ UNCHANGED mainVars /\ UNCHANGED memVars /\ updates[op] = <<>>
        /\ \E pc \in {"delete", "top"} : wpc' = [wpc EXCEPT ![op] = pc]
    BY <1>4 DEF LockToDelete, Uncount, Memory!Accounted
  <2>2. QED
    BY <1>2, <2>1
<1>5. wpc[op] \in {"ran", "delete"} => hand[op] \in Jobs
  BY <1>1, ListFacts DEF IInv, Held
<1>6. CASE FreeJob(op)
  <2>1. /\ wpc[op] = "ran" /\ Memory!zfree(op, JobBlock(hand[op]))
        /\ wpc' = [wpc EXCEPT ![op] = "freed"] /\ UNCHANGED mainVars
    BY <1>6 DEF FreeJob
  <2>2. wpc'[op] = "freed" /\ \A o \in Ops : o # op => wpc'[o] = wpc[o]
    BY <1>1, <2>1 DEF TypeOK
  <2>3. JobBlock(hand[op]) \in Blocks /\ JobBlock(hand[op]) # Buffer
    BY <1>5, <2>1, BlockFacts
  <2>4. QED
    BY <2>1, <2>2, <2>3, FreeKeeps
<1>7. CASE DeleteNode(op)
  <2>1. /\ wpc[op] = "delete" /\ Memory!zfree(op, NodeBlock(hand[op]))
        /\ wpc' = [wpc EXCEPT ![op] = "deleted"] /\ UNCHANGED mainVars
    BY <1>7 DEF DeleteNode
  <2>2. wpc'[op] = "deleted" /\ \A o \in Ops : o # op => wpc'[o] = wpc[o]
    BY <1>1, <2>1 DEF TypeOK
  <2>3. NodeBlock(hand[op]) \in Blocks /\ NodeBlock(hand[op]) # Buffer
    BY <1>5, <2>1, BlockFacts
  <2>4. QED
    BY <2>1, <2>2, <2>3, FreeKeeps
<1>8. CASE UpdateUsed(op)
  BY <1>1, <1>8, UpdateKeeps
<1>9. QED
  BY <1>3, <1>4, <1>6, <1>7, <1>8 DEF WorkerRuns, Works, Locks

LEMMA MemoryNextInv == IInv /\ IInv' /\ MemoryIInv /\ [Next]_vars => MemoryIInv'
<1> SUFFICES ASSUME IInv, IInv', MemoryIInv, [Next]_vars PROVE MemoryIInv'
  OBVIOUS
<1>1. CASE UNCHANGED vars
  <2>1. UNCHANGED memVars /\ UNCHANGED mainVars /\ UNCHANGED wpc
    BY <1>1 DEF vars, workerVars
  <2>2. MainBusy' = MainBusy
    BY <2>1 DEF MainBusy, mainVars
  <2>3. QED
    BY <2>1, <2>2, UnmovedKeeps DEF IInv, memVars, mainVars
<1>2. QED
  BY <1>1, MainStep, WorkerStep DEF Next

(* With zmalloc_thread_safe set before there is a second thread the        *)
(* counter of zmalloc.c:81-110 is the memory in use but for what each      *)
(* thread has still to add or to take off: no change is lost, and none     *)
(* takes it below zero, whichever thread frees what another allocated.     *)
THEOREM UsedExact == Spec => []UsedInv
<1>1. MemoryIInv => UsedInv
  BY DEF MemoryIInv, CountedInv, UsedInv
<1>2. QED
  BY <1>1, InitInv, NextInv, MemoryInitInv, MemoryNextInv, PTL DEF Spec
==============================================================================
