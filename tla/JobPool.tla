------------------------------- MODULE JobPool -------------------------------
(***************************************************************************)
(* What a background job system promises its callers, whatever the threads *)
(* behind it: every accepted job of a type is taken once, in the order of  *)
(* acceptance, by one of the executors of the type, and is eventually      *)
(* finished.  Both job systems of the repository (the thread pool demo and *)
(* the bio threads of the middleware server) are shown to implement it.    *)
(***************************************************************************)
EXTENDS Naturals, Sequences

CONSTANTS
  Type,      (* the types of jobs                              *)
  Job,       (* the identities of jobs, unique within a type   *)
  NoJob,     (* no identity of a job                           *)
  Executor,  (* those that execute jobs, one job at a time     *)
  Serves     (* the type each executor takes jobs of           *)

VARIABLES
  queue,     (* accepted jobs of each type that nobody has taken, oldest first *)
  running,   (* the job each executor has taken and not finished               *)
  done       (* finished jobs of each type                                     *)

poolVars == <<queue, running, done>>

PoolInit ==
  /\ queue = [t \in Type |-> <<>>]
  /\ running = [e \in Executor |-> NoJob]
  /\ done = [t \in Type |-> {}]

Accept(t, j) ==
  /\ j \notin done[t]
  /\ \A i \in DOMAIN queue[t] : queue[t][i] # j
  /\ \A e \in Executor : Serves[e] = t => running[e] # j
  /\ queue' = [queue EXCEPT ![t] = Append(@, j)]
  /\ UNCHANGED <<running, done>>

Take(e) ==
  LET t == Serves[e] IN
  /\ running[e] = NoJob
  /\ queue[t] # <<>>
  /\ running' = [running EXCEPT ![e] = Head(queue[t])]
  /\ queue' = [queue EXCEPT ![t] = Tail(@)]
  /\ UNCHANGED done

Finish(e) ==
  /\ running[e] # NoJob
  /\ running' = [running EXCEPT ![e] = NoJob]
  /\ done' = [done EXCEPT ![Serves[e]] = @ \union {running[e]}]
  /\ UNCHANGED queue

PoolNext ==
  \/ \E t \in Type, j \in Job : Accept(t, j)
  \/ \E e \in Executor : Take(e) \/ Finish(e)

PoolSafety == PoolInit /\ [][PoolNext]_poolVars

(* A queued job is taken when some executor of its type stays free, and a  *)
(* taken job is finished.                                                  *)
PoolSpec ==
  /\ PoolSafety
  /\ \A t \in Type : WF_poolVars(\E e \in Executor : Serves[e] = t /\ Take(e))
  /\ \A e \in Executor : WF_poolVars(Finish(e))
==============================================================================
