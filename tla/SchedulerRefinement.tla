------------------------- MODULE SchedulerRefinement -------------------------
(***************************************************************************)
(* The scheduler implements SchedulerContract.                             *)
(***************************************************************************)
EXTENDS GpuScheduler

\* The worker removes a job from the kfifo only some steps after it has signaled
\* the job's scheduled fence.
StillInKfifo(e) == wentity = e /\ wpc \in {"attach", "process", "out"}

Contract == INSTANCE SchedulerContract WITH
    waiting   <- [e \in Entity |-> IF StillInKfifo(e) THEN Tail(job_queue[e]) ELSE job_queue[e]],
    scheduled <- {j \in Job : Scheduled(j) \in signaled},
    finished  <- {j \in Job : Finished(j) \in signaled},
    foreign   <- {x \in Foreign : ForeignFence(x) \in signaled},
    NeedsJobs <- [j \in Job |-> {k \in Job : {Scheduled(k), Finished(k)} \cap JobDeps[j] # {}}],
    NeedsForeign <- [j \in Job |-> {x \in Foreign : ForeignFence(x) \in JobDeps[j]}]

\* The scheduler keeps its promise whatever its worker, the submitting threads, the
\* fence callbacks and the teardown of entities interleave to: the jobs of an entity
\* are scheduled in the order of amd_sched_entity_push_job, each of them once and
\* after its dependencies, and are finished once, after they were scheduled.
ImplementsContract == Contract!Spec
=============================================================================
