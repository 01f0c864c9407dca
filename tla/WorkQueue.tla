----------------------------- MODULE WorkQueue -----------------------------
(***************************************************************************)
(* The thread pool of the epoll server (mul_port_server_epoll.cpp): a list *)
(* of waiting jobs under a mutex and a condition variable.  One thread     *)
(* creates the workers, adds the jobs and may shut the pool down; the      *)
(* server itself never does the last.                                      *)
(*                                                                         *)
(* wpc[w] is the place of worker w:                                        *)
(*   "none"  not created                                                   *)
(*   "lock"  at pthread_mutex_lock, or woken in pthread_cond_wait and      *)
(*           about to take the mutex again                                 *)
(*   "test"  holding the mutex, at the tests of the list and of terminate  *)
(*   "wait"  asleep in pthread_cond_wait                                   *)
(*   "run"   executing wjob[w]                                             *)
(*   "left"  out of the loop: freed and exited                             *)
(* mpc is the place of the other thread: "init" in workqueue_init,         *)
(* "ready" outside, "add" at the lock of workqueue_add_job with mjob, then *)
(* in workqueue_shutdown "mark" and "step" in the loop over the workers    *)
(* with cur the worker it is at, "clear" at its lock, and "off" after it.  *)
(***************************************************************************)
EXTENDS Naturals, Sequences, SequencesExt, FiniteSets

CONSTANTS
  Workers,       \* the workers workqueue_init tries to create
  Jobs, NoJob,
  Main, NoThread,
  CreateFails,   \* TRUE if malloc or pthread_create may fail
  MayShutdown    \* TRUE if workqueue_shutdown may be called

ASSUME WorkQueueAssumption ==
  /\ IsFiniteSet(Workers) /\ Workers # {}
  /\ NoJob \notin Jobs
  /\ Main \notin Workers /\ NoThread \notin Workers \cup {Main}
  /\ CreateFails \in BOOLEAN /\ MayShutdown \in BOOLEAN

VARIABLES jobs_mutex, waiting_jobs, workers, terminate, wpc, wjob,
          mpc, mjob, cur, done

vars == <<jobs_mutex, waiting_jobs, workers, terminate, wpc, wjob,
          mpc, mjob, cur, done>>
mainVars == <<mpc, mjob, cur>>

\* The type invariant.
TypeOK ==
  /\ jobs_mutex \in Workers \cup {Main, NoThread}
  /\ waiting_jobs \in Seq(Jobs)
  /\ workers \in Seq(Workers)
  /\ terminate \in [Workers -> BOOLEAN]
  /\ wpc \in [Workers -> {"none", "lock", "test", "wait", "run", "left"}]
  /\ wjob \in [Workers -> Jobs \cup {NoJob}]
  /\ mpc \in {"init", "ready", "add", "mark", "step", "clear", "off"}
  /\ mjob \in Jobs \cup {NoJob}
  /\ cur \in Nat \ {0}
  /\ mpc \in {"mark", "step"} => cur <= Len(workers)
  /\ done \subseteq Jobs

Init ==
  /\ jobs_mutex = NoThread
  /\ waiting_jobs = <<>>
  /\ workers = <<>>
  /\ terminate = [w \in Workers |-> FALSE]
  /\ wpc = [w \in Workers |-> "none"]
  /\ wjob = [w \in Workers |-> NoJob]
  /\ mpc = "init" /\ mjob = NoJob /\ cur = 1
  /\ done = {}

Goto(w, l) == wpc' = [wpc EXCEPT ![w] = l]
Sleepers == {w \in Workers : wpc[w] = "wait"}

-----------------------------------------------------------------------------
\* LL_ADD: an item is put at the head of a list.
LL_ADD(item, items) == <<item>> \o items

\* A wrong LL_REMOVE: the item stays in the list.
LL_REMOVE_Not(items) == items

\* LL_REMOVE of the item at the head.
LL_REMOVE(items) == Tail(items)

\* workqueue_init: the next worker's thread starts and the worker is put at
\* the head of the list, or creation fails; threadpool_init ignores the result.
Create ==
  /\ mpc = "init"
  /\ \/ \E w \in Workers : /\ wpc[w] = "none"
                           /\ Goto(w, "lock")
                           /\ workers' = LL_ADD(w, workers)
                           /\ UNCHANGED mpc
     \/ /\ CreateFails \/ \A w \in Workers : wpc[w] # "none"
        /\ mpc' = "ready"
        /\ UNCHANGED <<wpc, workers>>
  /\ UNCHANGED <<jobs_mutex, waiting_jobs, terminate, wjob, mjob, cur, done>>

\* workqueue_add_job is called ...
CallAdd(j) ==
  /\ mpc = "ready"
  /\ j \notin done \cup Range(waiting_jobs) \cup {wjob[w] : w \in Workers}
  /\ mjob' = j
  /\ mpc' = "add"
  /\ UNCHANGED <<jobs_mutex, waiting_jobs, workers, terminate, wpc, wjob, cur, done>>

\* A wrong workqueue_add_job: no pthread_cond_signal.
Signal_None == UNCHANGED wpc

\* pthread_cond_signal: wakes one sleeper if there is one.
Signal ==
  \/ Sleepers = {} /\ UNCHANGED wpc
  \/ \E w \in Sleepers : Goto(w, "lock")

\* ... and, with the mutex, puts the job at the head of the list and signals.
AddJob ==
  /\ mpc = "add"
  /\ jobs_mutex = NoThread
  /\ waiting_jobs' = LL_ADD(mjob, waiting_jobs)
  /\ Signal
  /\ mpc' = "ready"
  /\ mjob' = NoJob
  /\ UNCHANGED <<jobs_mutex, workers, terminate, wjob, cur, done>>

\* workqueue_shutdown is called: its loop starts at the head of the list.
CallShutdown ==
  /\ MayShutdown
  /\ mpc = "ready"
  /\ mpc' = IF workers = <<>> THEN "clear" ELSE "mark"
  /\ cur' = 1
  /\ UNCHANGED <<jobs_mutex, waiting_jobs, workers, terminate, wpc, wjob, mjob, done>>

\* workqueue_shutdown: worker->terminate = 1, without the mutex ...
Mark ==
  /\ mpc = "mark"
  /\ terminate' = [terminate EXCEPT ![workers[cur]] = TRUE]
  /\ mpc' = "step"
  /\ UNCHANGED <<jobs_mutex, waiting_jobs, workers, wpc, wjob, mjob, cur, done>>

LastWorker == cur = Len(workers)

\* ... and worker = worker->next.  The worker may have freed itself by now:
\* the field then holds its old value or ends the loop (or the program crashes).
Step ==
  /\ mpc = "step"
  /\ \/ /\ ~LastWorker
        /\ cur' = cur + 1
        /\ mpc' = "mark"
     \/ /\ LastWorker \/ wpc[workers[cur]] = "left"
        /\ mpc' = "clear"
        /\ UNCHANGED cur
  /\ UNCHANGED <<jobs_mutex, waiting_jobs, workers, terminate, wpc, wjob, mjob, done>>

\* A wrong workqueue_shutdown: no pthread_cond_broadcast.
Rouse_Nobody == wpc

\* pthread_cond_broadcast: every sleeper is on its way back to the mutex.
Rouse == [w \in Workers |-> IF w \in Sleepers THEN "lock" ELSE wpc[w]]

\* workqueue_shutdown, with the mutex: empties both lists and wakes everybody.
Clear ==
  /\ mpc = "clear"
  /\ jobs_mutex = NoThread
  /\ workers' = <<>>
  /\ waiting_jobs' = <<>>
  /\ wpc' = Rouse
  /\ mpc' = "off"
  /\ UNCHANGED <<jobs_mutex, terminate, wjob, mjob, cur, done>>

\* worker_function: pthread_mutex_lock.
Lock(w) ==
  /\ wpc[w] = "lock"
  /\ jobs_mutex = NoThread
  /\ jobs_mutex' = w
  /\ Goto(w, "test")
  /\ UNCHANGED <<waiting_jobs, workers, terminate, wjob, mainVars, done>>

\* worker_function: pthread_cond_wait on an empty list.
Wait(w) ==
  /\ wpc[w] = "test"
  /\ ~terminate[w] /\ waiting_jobs = <<>>
  /\ jobs_mutex' = NoThread
  /\ Goto(w, "wait")
  /\ UNCHANGED <<waiting_jobs, workers, terminate, wjob, mainVars, done>>

\* pthread_cond_wait may return without a signal.
Spurious(w) ==
  /\ wpc[w] = "wait"
  /\ Goto(w, "lock")
  /\ UNCHANGED <<jobs_mutex, waiting_jobs, workers, terminate, wjob, mainVars, done>>

\* worker_function: the job at the head is taken and the mutex released.
Take(w) ==
  /\ wpc[w] = "test"
  /\ ~terminate[w] /\ waiting_jobs # <<>>
  /\ wjob' = [wjob EXCEPT ![w] = Head(waiting_jobs)]
  /\ waiting_jobs' = LL_REMOVE(waiting_jobs)
  /\ jobs_mutex' = NoThread
  /\ Goto(w, "run")
  /\ UNCHANGED <<workers, terminate, mainVars, done>>

\* worker_function: terminate breaks out of both loops; the worker is freed
\* and the thread exits with the mutex locked.
Leave(w) ==
  /\ wpc[w] = "test"
  /\ terminate[w]
  /\ Goto(w, "left")
  /\ UNCHANGED <<jobs_mutex, waiting_jobs, workers, terminate, wjob, mainVars, done>>

\* worker_function: job_function returns.
Execute(w) ==
  /\ wpc[w] = "run"
  /\ done' = done \cup {wjob[w]}
  /\ wjob' = [wjob EXCEPT ![w] = NoJob]
  /\ Goto(w, "lock")
  /\ UNCHANGED <<jobs_mutex, waiting_jobs, workers, terminate, mainVars>>

MainStep == Create \/ AddJob \/ Mark \/ Step \/ Clear
Test(w) == Wait(w) \/ Take(w) \/ Leave(w)
WorkerStep(w) == Lock(w) \/ Test(w) \/ Spurious(w) \/ Execute(w)

Next ==
  \/ MainStep \/ CallShutdown \/ \E j \in Jobs : CallAdd(j)
  \/ \E w \in Workers : WorkerStep(w)

(***************************************************************************)
(* Fairness: threads keep running, job functions return, and a thread at   *)
(* the mutex is not passed over for ever.  Nobody has to call anything,    *)
(* and sleepers are not woken without reason for ever.                     *)
(***************************************************************************)
Fairness ==
  /\ SF_vars(MainStep)
  /\ \A w \in Workers : SF_vars(Lock(w)) /\ WF_vars(Test(w)) /\ WF_vars(Execute(w))

Spec == Init /\ [][Next]_vars
FairSpec == Spec /\ Fairness

-----------------------------------------------------------------------------
\* The pool starts every job at most once and drops none but at shutdown.
Pool == INSTANCE JobPool WITH
  Width   <- Cardinality(Workers),
  pending <- Range(waiting_jobs),
  running <- {wjob[w] : w \in Workers} \ {NoJob},
  done    <- done
RefinesPool == Pool!Spec

\* Every job added is executed in the end, in whatever order the list gives
\* them out, if at least one worker was created, unless the pool is shut down.
Stopping == mpc \in {"mark", "step", "clear", "off"}
JobsServed ==
  \A j \in Jobs :
    (mjob = j \/ j \in Range(waiting_jobs)) ~>
      (j \in done \/ Stopping \/ \A w \in Workers : wpc[w] = "none")

\* Every worker hears of workqueue_shutdown and leaves its loop, although
\* terminate is set without the mutex and may be seen before, between or after
\* its tests: none goes to sleep and misses the broadcast.  The exception: a
\* worker that left before has taken the mutex along (worker_function breaks out
\* of its loop holding it), and everybody else waits for it for ever.
WorkersLeave ==
  \A w \in Workers :
    (mpc = "mark" /\ wpc[w] # "none") ~>
      (wpc[w] = "left" \/ \E v \in Workers \ {w} : wpc[v] = "left")
=============================================================================
