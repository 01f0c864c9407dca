----------------------------- MODULE MCThreads ------------------------------
(***************************************************************************)
(* Values for checking with TLC the two programs that hand something from  *)
(* thread to thread under a mutex and a condition variable: a behaviour is *)
(* one of WorkQueue or one of OutCache (part), and the variables of the    *)
(* other keep their first values.                                          *)
(***************************************************************************)
EXTENDS WorkQueue, OutCache

CONSTANTS
  w1, w2, w3, j1, j2, j3, t1, t2, t3

VARIABLE part

allvars == <<part, vars, cacheVars>>

ThreeWorkers == {w1, w2, w3}
ThreeJobs == {j1, j2, j3}
ThreeConsumers == {t1, t2, t3}

InPool(A) == part = "pool" /\ A /\ UNCHANGED <<part, cacheVars>>
InCache(A) == part = "cache" /\ A /\ UNCHANGED <<part, vars>>

MCInit == part \in {"pool", "cache"} /\ Init /\ CacheInit
MCNext == InPool(Next) \/ InCache(CacheNext)

\* The fairness of the two specifications, each in its part.
MCFairness ==
  /\ SF_allvars(InPool(MainStep))
  /\ \A w \in Workers : /\ SF_allvars(InPool(Lock(w)))
                        /\ WF_allvars(InPool(Test(w))) /\ WF_allvars(InPool(Execute(w)))
  /\ WF_allvars(InCache(\E t \in Threads : Deliver(t)))
  /\ WF_allvars(InCache(\E t \in Threads : LockIn(t)))
  /\ WF_allvars(InCache(\E t \in Consumers : LockOut(t)))
  /\ \A t \in Threads : WF_allvars(InCache(Holding(t)))
  /\ \A t \in Consumers : WF_allvars(InCache(Consume(t)))
MCSpec == MCInit /\ [][MCNext]_allvars /\ MCFairness

\* What the handler (incache) puts into the cache is taken out in the end, and every job
\* added to the pool is run (worker): no wakeup is lost in either.
NoneWaits == JobsServed /\ AllTaken
=============================================================================
