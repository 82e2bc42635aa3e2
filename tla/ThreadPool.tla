----------------------------- MODULE ThreadPool -----------------------------
(***************************************************************************)
(* Ayu::ThreadPool: workers that take tasks from a queue, enqueue, and       *)
(* Shutdown.  What a task does belongs to the module that extends this one:   *)
(* between Take and the step that makes it ready again a worker is outside    *)
(* queue_mutex, in its task.                                                 *)
(*                                                                           *)
(* Every section under queue_mutex is one step.  A worker at "wait" is in     *)
(* condition.wait and tests its predicate again when it is woken ("ready").   *)
(***************************************************************************)
EXTENDS Integers, Sequences, FiniteSets

CONSTANTS
  Workers,  \* the threads of the pool, 8 in the server
  NoTask    \* what a worker has that is in no task

VARIABLES
  tasks,    \* the queue
  stop,     \* the flag that Shutdown sets
  at,       \* where each worker is
  job       \* what each worker is working on

poolVars == <<tasks, stop, at, job>>

PoolInit ==
  /\ tasks = <<>> /\ stop = FALSE
  /\ at = [w \in Workers |-> "ready"] /\ job = [w \in Workers |-> NoTask]

Waiting == {w \in Workers : at[w] = "wait"}
Ready(S) == [w \in Workers |-> IF w \in S THEN "ready" ELSE at[w]]

\* enqueue, called once for each of ts: the push and the notify_one that follows it.
\* The one that is notified and the one that gets the task need not be the same.
Enqueue(ts) ==
  /\ tasks' = tasks \o ts
  /\ \E S \in SUBSET Waiting :
       /\ Cardinality(S) = Len(ts) \/ (S = Waiting /\ Cardinality(S) < Len(ts))
       /\ at' = Ready(S)
  /\ UNCHANGED <<stop, job>>

\* A worker takes the oldest task, whether or not the pool is stopping.
Take(w) ==
  /\ at[w] = "ready" /\ tasks # <<>>
  /\ job' = [job EXCEPT ![w] = Head(tasks)]
  /\ tasks' = Tail(tasks)
  /\ at' = [at EXCEPT ![w] = "run"]
  /\ UNCHANGED stop

\* A worker that waits without a look at the queue when it comes back from a task.
SleepUntested(w) ==
  /\ at[w] = "ready" /\ ~stop
  /\ at' = [at EXCEPT ![w] = "wait"]
  /\ UNCHANGED <<tasks, stop, job>>

\* condition.wait: nothing to do, and not stopping.
Sleep(w) ==
  /\ at[w] = "ready" /\ tasks = <<>> /\ ~stop
  /\ at' = [at EXCEPT ![w] = "wait"]
  /\ UNCHANGED <<tasks, stop, job>>

SpuriousWakeup(w) ==
  /\ at[w] = "wait"
  /\ at' = [at EXCEPT ![w] = "ready"]
  /\ UNCHANGED <<tasks, stop, job>>

\* A worker that leaves as soon as the pool stops.
LeaveAtStop(w) ==
  /\ at[w] = "ready" /\ stop
  /\ at' = [at EXCEPT ![w] = "gone"]
  /\ UNCHANGED <<tasks, stop, job>>

\* The worker returns: stopping, and the queue is empty.
Leave(w) ==
  /\ at[w] = "ready" /\ tasks = <<>> /\ stop
  /\ at' = [at EXCEPT ![w] = "gone"]
  /\ UNCHANGED <<tasks, stop, job>>

\* Shutdown up to the joins.
ShutdownBegins ==
  /\ stop' = TRUE
  /\ at' = Ready(Waiting)
  /\ UNCHANGED <<tasks, job>>

\* Every join has returned.
Joined == \A w \in Workers : at[w] = "gone"

PoolStep(w) == Take(w) \/ Sleep(w) \/ Leave(w)
=============================================================================
