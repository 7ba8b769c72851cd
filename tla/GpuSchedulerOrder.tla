-------------------------- MODULE GpuSchedulerOrder -------------------------
(***************************************************************************)
(* The order in which GpuScheduler schedules jobs, for every set of        *)
(* entities and jobs, every dependency relation, queue size and hardware   *)
(* limit: after their dependencies, and as SchedulerContract promises.     *)
(***************************************************************************)
EXTENDS GpuSchedulerQueues, SchedulerRefinement

\* The provers of a leaf that names none, and the time each of them has.
USE ZenonT(20), SMTT(30)

-----------------------------------------------------------------------------
(* Dependencies.                                                           *)

\* The fence that stands for fence f of a job: the scheduled fence for one of this ring.
StandsFor(f) == IF f[1] = "foreign" THEN f ELSE Scheduled(f[2])

Settled(f) == StandsFor(f) \in signaled

\* A fence leaves the sync objects of a job only when it is signaled, or the entity
\* waits for it, or the order of the kfifo takes care of it; a job that the worker
\* begins has nothing left to wait for.
DependencyKept ==
    /\ \A j \in Job : \A f \in JobDeps[j] :
          \/ f \in sync[j]
          \/ Settled(f)
          \/ dependency[JobEntity[j]] = StandsFor(f)
          \/ f[1] = "scheduled" /\ JobEntity[f[2]] = JobEntity[j]
    /\ wpc \in {"begin", "run"} => \A f \in JobDeps[wjob] : Settled(f)
    /\ DependenciesRespected

DepInv == FenceOrder /\ QueuedUntilScheduled /\ DependencyKept

\* What stands for a fence in amd_sched_entity_add_dependency_cb.
LEMMA StandsForProps ==
    ASSUME NEW f \in Fence
    PROVE  /\ StandsFor(f) # None
           /\ \/ f[1] = "foreign" /\ StandsFor(f) = f
              \/ f[1] = "scheduled" /\ f[2] \in Job /\ f = Scheduled(f[2]) /\ StandsFor(f) = f
              \/ f[1] = "finished" /\ f[2] \in Job /\ f = Finished(f[2])
                    /\ StandsFor(f) = Scheduled(f[2])
<1>1. CASE f \in {"foreign"} \X Foreign
  BY <1>1, ConstantsAssumption DEF StandsFor, Fence
<1>2. CASE f \in {"scheduled"} \X Job
  <2>1. f[1] = "scheduled" /\ f[2] \in Job /\ f = Scheduled(f[2])
    BY <1>2, SMTT(30) DEF Scheduled
  <2>2. StandsFor(f) = f
    BY <2>1 DEF StandsFor
  <2>3. QED
    BY <2>1, <2>2, ConstantsAssumption
<1>3. CASE f \in {"finished"} \X Job
  <2>1. f[1] = "finished" /\ f[2] \in Job /\ f = Finished(f[2])
    BY <1>3, SMTT(30) DEF Finished
  <2>2. StandsFor(f) = Scheduled(f[2])
    BY <2>1 DEF StandsFor
  <2>3. Scheduled(f[2]) \in Fence
    BY <2>1 DEF Scheduled, Fence
  <2>4. QED
    BY <2>1, <2>2, <2>3, ConstantsAssumption
<1>4. QED
  BY <1>1, <1>2, <1>3 DEF Fence

\* A job is scheduled after what it depends on.
LEMMA DependencyStep ==
    ASSUME SchedInv, FenceOrder, QueuedUntilScheduled, DependencyKept, [Next]_vars
    PROVE  DependencyKept'
<1>0. /\ sync \in [Job -> SUBSET Fence]
      /\ dependency \in [Entity -> Fence \cup {None}]
      /\ hw_fence \in [Job -> {"none", "emitted", "attached", "signaled", "failed"}]
      /\ hw_ring \in Seq(Job)
      /\ JobEntity \in [Job -> Entity] /\ JobDeps \in [Job -> SUBSET Fence]
  BY ConstantsAssumption DEF SchedInv, TypeInv, TypeOK, EntityTypes, HwTypes
<1>a. wpc \in Holding => /\ wjob \in Job /\ wentity \in Entity
                         /\ 1 \in 1..Len(job_queue[wentity]) /\ job_queue[wentity][1] = wjob
                         /\ JobEntity[wjob] = wentity /\ push[wjob] \notin {"new", "in"}
                         /\ dependency[wentity] = None
  <2>1. wpc \in Holding => /\ wjob \in Job /\ wentity \in Entity
                           /\ 1 \in 1..Len(job_queue[wentity]) /\ job_queue[wentity][1] = wjob
    BY SMTT(30) DEF SchedInv, TypeInv, TypeOK, EntityTypes, WorkerHolds
  <2>2. wpc \in Holding => JobEntity[wjob] = wentity /\ push[wjob] \notin {"new", "in"}
    BY <2>1, SMTT(30) DEF SchedInv, QueueDiscipline
  <2>3. wpc \in Holding => dependency[wentity] = None
    BY DEF SchedInv, RqInv, WaitsWithJob
  <2>4. QED
    BY <2>1, <2>2, <2>3
<1> DEFINE Kept(j, f) == \/ f \in sync[j]
                         \/ Settled(f)
                         \/ dependency[JobEntity[j]] = StandsFor(f)
                         \/ f[1] = "scheduled" /\ JobEntity[f[2]] = JobEntity[j]
<1>c. /\ \A j \in Job : \A f \in JobDeps[j] : Kept(j, f)
      /\ wpc \in {"begin", "run"} => \A f \in JobDeps[wjob] : Settled(f)
      /\ \A j \in Job : hw_fence[j] # "none" => \A f \in JobDeps[j] : Settled(f)
  BY DEF DependencyKept, DependenciesRespected, Settled, StandsFor
<1>d. ASSUME \A j \in Job : \A f \in JobDeps[j] : Kept(j, f)',
             wpc' \in {"begin", "run"} => \A f \in JobDeps[wjob'] : Settled(f)',
             \A j \in Job : hw_fence'[j] # "none" => \A f \in JobDeps[j] : Settled(f)'
      PROVE  DependencyKept'
  <2>1. DependenciesRespected'
    BY <1>d DEF DependenciesRespected, Settled, StandsFor, Scheduled
  <2>2. QED
    BY <1>d, <2>1 DEF DependencyKept
<1> USE DEF clientVars, entityVars, rqVars, workerVars, hwVars, fenceVars
<1>e. ASSUME signaled \subseteq signaled', NEW f, Settled(f) PROVE Settled(f)'
  BY <1>e DEF Settled, StandsFor, Scheduled
<1>b. ASSUME UNCHANGED <<sync, dependency>>, signaled \subseteq signaled',
             wpc' \in {"begin", "run"} => wpc \in {"begin", "run"} /\ wjob' = wjob,
             \A j \in Job : hw_fence'[j] # "none" => hw_fence[j] # "none"
      PROVE  DependencyKept'
  <2>1. \A f : Settled(f) => Settled(f)'
    BY <1>b, <1>e
  <2>2. \A j \in Job : \A f \in JobDeps[j] : Kept(j, f)'
    <3>1. \A j \in Job : \A f : Kept(j, f) => Kept(j, f)'
      BY <1>b, <2>1 DEF StandsFor, Scheduled
    <3>2. QED
      BY <1>c, <3>1
  <2> HIDE DEF Kept
  <2>3. QED
    BY <1>b, <1>c, <1>d, <2>1, <2>2
<1>1. ASSUME NEW j \in Job, \/ amd_sched_job_init(j) \/ amd_sched_entity_in(j)
                            \/ rq_add_entity_test(j) \/ rq_add_entity_link(j) \/ push_job_wakeup(j)
      PROVE  DependencyKept'
  BY <1>1, <1>b DEF amd_sched_job_init, amd_sched_entity_in, rq_add_entity_test,
     rq_add_entity_link, push_job_wakeup
<1>2. ASSUME NEW j \in Job, amd_sched_fence_finished(j) \/ process_job_wakeup(j)
      PROVE  DependencyKept'
  BY <1>2, <1>b DEF amd_sched_fence_finished, process_job_wakeup
<1>3. ASSUME NEW e \in Entity, \/ entity_fini_start(e) \/ entity_fini_wait(e)
                               \/ amd_sched_rq_remove_entity(e) \/ amd_sched_entity_wakeup(e)
      PROVE  DependencyKept'
  BY <1>3, <1>b DEF entity_fini_start, entity_fini_wait, amd_sched_rq_remove_entity,
     amd_sched_entity_wakeup
\* A fence is signaled, and the entities that wait for it stop waiting.
<1>4. ASSUME NEW g,
             signaled' = signaled \cup {g},
             dependency' = [e \in Entity |-> IF dependency[e] = g THEN None ELSE dependency[e]],
             UNCHANGED <<sync, hw_fence, wjob>>,
             wpc' \in {"begin", "run"} => wpc \in {"begin", "run"}
      PROVE  DependencyKept'
  <2>1. \A f : Settled(f) => Settled(f)'
    BY <1>4, <1>e
  <2>2. ASSUME NEW j \in Job, NEW f \in JobDeps[j] PROVE Kept(j, f)'
    <3>1. CASE dependency[JobEntity[j]] = StandsFor(f)
      <4>1. CASE StandsFor(f) = g
        BY <1>4, <4>1 DEF Settled, StandsFor, Scheduled
      <4>2. CASE StandsFor(f) # g
        BY <1>0, <1>4, <3>1, <4>2 DEF StandsFor, Scheduled
      <4>3. QED
        BY <4>1, <4>2
    <3>2. CASE dependency[JobEntity[j]] # StandsFor(f)
      BY <1>4, <1>c, <2>1, <3>2
    <3>3. QED
      BY <3>1, <3>2
  <2> HIDE DEF Kept
  <2>3. QED
    BY <1>4, <1>c, <1>d, <2>1, <2>2
<1>5. ASSUME NEW x \in Foreign, ForeignSignal(x) PROVE DependencyKept'
  <2>1. /\ signaled' = signaled \cup {ForeignFence(x)}
        /\ dependency' = [e \in Entity |-> IF dependency[e] = ForeignFence(x)
                                           THEN None ELSE dependency[e]]
        /\ UNCHANGED <<sync, hw_fence, wpc, wjob>>
    BY <1>5 DEF ForeignSignal
  <2>2. QED
    BY <1>4, <2>1
<1>6. CASE amd_sched_fence_scheduled
  <2>1. /\ signaled' = signaled \cup {Scheduled(wjob)}
        /\ dependency' = [e \in Entity |-> IF dependency[e] = Scheduled(wjob)
                                           THEN None ELSE dependency[e]]
        /\ UNCHANGED <<sync, hw_fence, wjob>>
        /\ wpc' = "attach"
    BY <1>6 DEF amd_sched_fence_scheduled
  <2>2. QED
    BY <1>4, <2>1
\* The worker.
<1>7. CASE \/ main_wait \/ main_unparked \/ main_select \/ main_select_normal \/ main_sleep
           \/ amd_sched_job_begin \/ main_kfifo_out \/ main_wake_up
  <2>1. CASE main_wait
    BY <1>b, <2>1 DEF main_wait
  <2>2. CASE main_unparked \/ main_sleep \/ main_kfifo_out \/ main_wake_up
    BY <1>b, <2>2 DEF main_unparked, main_sleep, main_kfifo_out, main_wake_up
  <2>3. CASE main_select \/ main_select_normal
    BY <1>b, <2>3 DEF main_select, main_select_normal, Selected, NotSelected
  <2>4. CASE amd_sched_job_begin
    BY <1>b, <2>4 DEF amd_sched_job_begin
  <2>5. QED
    BY <1>7, <2>1, <2>2, <2>3, <2>4
<1>8. CASE main_run_job
  <2>1. /\ wpc = "run" /\ wpc' = "scheduled" /\ UNCHANGED <<sync, dependency, signaled, wjob>>
        /\ \E h : hw_fence' = [hw_fence EXCEPT ![wjob] = h]
    BY <1>8 DEF main_run_job, RunJob
  <2>2. /\ \A f : Settled(f) => Settled(f)'
        /\ \A j \in Job : \A f : Kept(j, f) => Kept(j, f)'
    BY <2>1 DEF Settled, StandsFor, Scheduled
  <2> HIDE DEF Kept
  <2>3. \A j \in Job : j # wjob => hw_fence'[j] = hw_fence[j]
    BY <1>0, <2>1
  <2>4. \A j \in Job : hw_fence'[j] # "none" => \A f \in JobDeps[j] : Settled(f)'
    BY <1>c, <2>1, <2>2, <2>3
  <2>5. QED
    BY <1>c, <1>d, <2>1, <2>2, <2>4
<1>9. CASE main_attach
  <2>1. \/ hw_fence' = hw_fence
        \/ hw_fence[wjob] = "emitted" /\ hw_fence' = [hw_fence EXCEPT ![wjob] = "attached"]
    BY <1>9 DEF main_attach, AttachFence
  <2>2. \A j \in Job : hw_fence'[j] # "none" => hw_fence[j] # "none"
    BY <1>0, <2>1
  <2>3. UNCHANGED <<sync, dependency, signaled>> /\ wpc' \notin {"begin", "run"}
    BY <1>9 DEF main_attach
  <2>4. QED
    BY <1>b, <2>2, <2>3
<1>10. CASE HwExecute
  <2>1. \E j : hw_fence[j] # "none" /\ hw_fence' = [hw_fence EXCEPT ![j] = "signaled"]
    BY <1>10 DEF HwExecute
  <2>2. \A j \in Job : hw_fence'[j] # "none" => hw_fence[j] # "none"
    BY <1>0, <2>1
  <2>3. UNCHANGED <<sync, dependency, signaled, wpc, wjob>>
    BY <1>10 DEF HwExecute
  <2>4. QED
    BY <1>b, <2>2, <2>3
<1>11. CASE amd_sched_entity_pop_job
  <2>1. /\ wpc = "pop" /\ UNCHANGED <<hw_fence, signaled>>
        /\ wjob \in Job /\ wentity \in Entity /\ JobEntity[wjob] = wentity
        /\ dependency[wentity] = None
    BY <1>11, <1>a DEF amd_sched_entity_pop_job, Holding
  <2>2. \A f : Settled(f)' <=> Settled(f)
    BY <2>1 DEF Settled, StandsFor, Scheduled
  <2>3. \A j \in Job : \A f \in JobDeps[j] : f \in Fence /\ StandsFor(f) # None
    BY <1>0, StandsForProps
  <2>4. ASSUME NEW f \in Fence, f \in signaled PROVE Settled(f)
    <3>1. f[1] = "finished" => Scheduled(f[2]) \in signaled
      BY <2>4, StandsForProps DEF FenceOrder
    <3>2. QED
      BY <2>4, <3>1, StandsForProps DEF Settled
  \* Jobs of other entities are not concerned, and no entity of this job waits.
  <2>5. ASSUME NEW d, dependency' = [dependency EXCEPT ![wentity] = d],
               NEW S, sync' = [sync EXCEPT ![wjob] = S],
               \A f \in JobDeps[wjob] :
                   \/ f \notin sync[wjob] \/ f \in S \/ Settled(f) \/ d = StandsFor(f)
                   \/ f[1] = "scheduled" /\ JobEntity[f[2]] = wentity
        PROVE  \A j \in Job : \A f \in JobDeps[j] : Kept(j, f)'
    <3>1. SUFFICES ASSUME NEW j \in Job, NEW f \in JobDeps[j] PROVE Kept(j, f)'
      OBVIOUS
    <3>2. (StandsFor(f))' = StandsFor(f) /\ StandsFor(f) # None
      BY <2>3 DEF StandsFor, Scheduled
    <3>3. Kept(j, f)
      BY <1>c
    <3>4. CASE JobEntity[j] # wentity
      <4>1. dependency'[JobEntity[j]] = dependency[JobEntity[j]] /\ sync'[j] = sync[j]
        BY <1>0, <2>1, <2>5, <3>4
      <4>2. QED
        BY <2>2, <3>2, <3>3, <4>1
    <3>5. CASE JobEntity[j] = wentity /\ j # wjob
      <4>1. sync'[j] = sync[j] /\ dependency[JobEntity[j]] # StandsFor(f)
        BY <1>0, <2>1, <2>5, <3>2, <3>5
      <4>2. QED
        BY <2>2, <3>2, <3>3, <4>1
    <3>6. CASE j = wjob
      <4>1. sync'[j] = S /\ dependency'[JobEntity[j]] = d /\ dependency[JobEntity[j]] # StandsFor(f)
        BY <1>0, <2>1, <2>5, <3>2, <3>6
      <4>2. QED
        BY <2>1, <2>2, <2>5, <3>2, <3>3, <3>6, <4>1
    <3>7. QED
      BY <3>4, <3>5, <3>6
  \* Nothing is left to wait for.
  <2>6. CASE /\ sync[wjob] \subseteq signaled
             /\ sync' = [sync EXCEPT ![wjob] = {}]
             /\ dependency' = [dependency EXCEPT ![wentity] = None]
             /\ wpc' = "begin" /\ UNCHANGED wjob
    <3>1. \A f \in JobDeps[wjob] : f \in sync[wjob] => Settled(f)
      BY <2>1, <2>3, <2>4, <2>6
    <3>2. \A j \in Job : \A f \in JobDeps[j] : Kept(j, f)'
      BY <2>5, <2>6, <3>1
    <3>3. ASSUME NEW f \in JobDeps[wjob] PROVE Settled(f)
      <4>1. Kept(wjob, f) /\ StandsFor(f) # None
        BY <1>c, <2>1, <2>3
      <4>2. CASE f[1] = "scheduled" /\ JobEntity[f[2]] = wentity
        <5>1. f \in Fence
          BY <2>1, <2>3
        <5>2. f[2] \in Job /\ f = Scheduled(f[2]) /\ StandsFor(f) = f
          BY <4>2, <5>1, StandsForProps
        <5>3. 1 \in 1..Len(job_queue[wentity]) /\ job_queue[wentity][1] = wjob
              /\ push[wjob] # "new"
          BY <1>a, <2>1 DEF Holding
        <5>4. \/ f \in signaled
              \/ \E i \in 1..Len(job_queue[wentity]) :
                    \A m \in 1..Len(job_queue[wentity]) : job_queue[wentity][m] = wjob => i < m
          BY <2>1, <4>2, <5>2, <5>3, SMTT(30) DEF QueuedUntilScheduled
        <5>5. f \in signaled
          BY <5>3, <5>4, SMTT(30)
        <5>6. QED
          BY <5>2, <5>5 DEF Settled
      <4>3. QED
        BY <2>1, <3>1, <4>1, <4>2
    <3> HIDE DEF Kept
    <3>4. QED
      BY <1>c, <1>d, <2>1, <2>2, <2>6, <3>2, <3>3
  \* The next fence is taken out of the sync objects.
  <2>7. ASSUME NEW g \in sync[wjob] \ signaled,
               sync' = [sync EXCEPT ![wjob] = (sync[wjob] \ signaled) \ {g}],
               dependency' = [dependency EXCEPT
                                ![wentity] = amd_sched_entity_add_dependency_cb(wentity, g)],
               wpc' \in {"pop", "wait"}
        PROVE  DependencyKept'
    <3>1. g \in Fence
      BY <1>0, <2>1
    <3>2. \/ amd_sched_entity_add_dependency_cb(wentity, g) = StandsFor(g)
          \/ Settled(g)
          \/ g[1] = "scheduled" /\ JobEntity[g[2]] = wentity
      BY <3>1, StandsForProps DEF amd_sched_entity_add_dependency_cb, Settled
    <3>3. \A f \in JobDeps[wjob] : f \in sync[wjob] =>
             f \in (sync[wjob] \ signaled) \ {g} \/ Settled(f) \/ f = g
      BY <2>1, <2>3, <2>4
    <3>4. \A j \in Job : \A f \in JobDeps[j] : Kept(j, f)'
      BY <2>5, <2>7, <3>2, <3>3
    <3> HIDE DEF Kept
    <3>5. QED
      BY <1>c, <1>d, <2>1, <2>2, <2>7, <3>4
  <2>8. QED
    BY <1>11, <2>6, <2>7 DEF amd_sched_entity_pop_job, amdgpu_job_dependency, LoopLocals
<1>12. CASE Quiet
  BY <1>12, <1>b DEF Quiet
<1>13. QED
  BY <1>1, <1>2, <1>3, <1>5, <1>6, <1>7, <1>8, <1>9, <1>10, <1>11, <1>12, StepCases
  DEF amd_sched_main

\* The inductive invariant holds in every state that is reached.
LEMMA DepInvariant == Spec => []DepInv
<1>1. Init => DepInv
  <2> SUFFICES ASSUME Init PROVE DepInv
    OBVIOUS
  <2>1. FenceOrder
    BY DEF Init, FenceOrder
  <2>2. QueuedUntilScheduled
    BY DEF Init, QueuedUntilScheduled
  <2>3. DependencyKept
    BY DEF Init, DependencyKept, DependenciesRespected
  <2>4. QED
    BY <2>1, <2>2, <2>3 DEF DepInv
<1>2. SchedInv /\ DepInv /\ [Next]_vars => DepInv'
  BY FenceOrderStep, QueuedStep, DependencyStep DEF DepInv, SchedInv
<1>3. QED
  BY <1>1, <1>2, SchedInvariant, PTL DEF Spec

\* A job is on the ring only if the fences in its sync objects are signaled, or belong
\* to jobs that were handed to the same ring before, although amd_sched_entity_pop_job
\* drops fences of its own entity and waits for the others one at a time.
THEOREM DependenciesKept == Spec => []DependenciesRespected
<1>1. DepInv => DependenciesRespected
  BY DEF DepInv, DependencyKept
<1>2. QED
  BY <1>1, DepInvariant, PTL

-----------------------------------------------------------------------------
(* The scheduler implements its contract.                                  *)

\* The jobs of an entity that are not scheduled, and the fences that are signaled, as
\* SchedulerContract sees them.
Unscheduled == [e \in Entity |-> IF StillInKfifo(e) THEN Tail(job_queue[e]) ELSE job_queue[e]]
ScheduledJobs == {j \in Job : Scheduled(j) \in signaled}
FinishedJobs == {j \in Job : Finished(j) \in signaled}
ForeignSignaled == {x \in Foreign : ForeignFence(x) \in signaled}

LEMMA TailAppend ==
    ASSUME NEW S, NEW q \in Seq(S), Len(q) >= 1, NEW x \in S
    PROVE  Tail(Append(q, x)) = Append(Tail(q), x)
BY SMTT(30)

\* The contract's variables, by name.
LEMMA ContractVars ==
    /\ Contract!vars = <<Unscheduled, ScheduledJobs, FinishedJobs, ForeignSignaled>>
    /\ Contract!vars' = <<Unscheduled', ScheduledJobs', FinishedJobs', ForeignSignaled'>>
BY DEF Contract!vars, Unscheduled, ScheduledJobs, FinishedJobs, ForeignSignaled

\* The steps the contract allows, in terms of the scheduler's state.
LEMMA ContractSubmit ==
    ASSUME NEW j \in Job,
           j \notin ScheduledJobs,
           \A i \in DOMAIN Unscheduled[JobEntity[j]] : Unscheduled[JobEntity[j]][i] # j,
           Unscheduled' = [Unscheduled EXCEPT ![JobEntity[j]] = Append(@, j)],
           UNCHANGED <<ScheduledJobs, FinishedJobs, ForeignSignaled>>
    PROVE  Contract!Next
<1>1. Contract!Submit(j)
  BY DEF Contract!Submit, Contract!Submitted, Unscheduled, ScheduledJobs, FinishedJobs,
     ForeignSignaled
<1>2. QED
  BY <1>1 DEF Contract!Next

LEMMA ContractSchedule ==
    ASSUME NEW e \in Entity, NEW j \in Job,
           Unscheduled[e] # <<>>, j = Head(Unscheduled[e]),
           Unscheduled' = [Unscheduled EXCEPT ![e] = Tail(@)],
           {x \in Foreign : ForeignFence(x) \in JobDeps[j]} \subseteq ForeignSignaled,
           {k \in Job : {Scheduled(k), Finished(k)} \cap JobDeps[j] # {}} \subseteq ScheduledJobs,
           ScheduledJobs' = ScheduledJobs \cup {j},
           UNCHANGED <<FinishedJobs, ForeignSignaled>>
    PROVE  Contract!Next
<1>1. Contract!Schedule(e)
  BY DEF Contract!Schedule, Unscheduled, ScheduledJobs, FinishedJobs, ForeignSignaled
<1>2. QED
  BY <1>1 DEF Contract!Next

LEMMA ContractFinish ==
    ASSUME NEW j \in Job,
           j \in ScheduledJobs \ FinishedJobs,
           FinishedJobs' = FinishedJobs \cup {j},
           UNCHANGED <<Unscheduled, ScheduledJobs, ForeignSignaled>>
    PROVE  Contract!Next
<1>1. Contract!Finish(j)
  BY DEF Contract!Finish, Unscheduled, ScheduledJobs, FinishedJobs, ForeignSignaled
<1>2. QED
  BY <1>1 DEF Contract!Next

LEMMA ContractSignal ==
    ASSUME NEW x \in Foreign,
           x \notin ForeignSignaled,
           ForeignSignaled' = ForeignSignaled \cup {x},
           UNCHANGED <<Unscheduled, ScheduledJobs, FinishedJobs>>
    PROVE  Contract!Next
<1>1. Contract!Signal(x)
  BY DEF Contract!Signal, Unscheduled, ScheduledJobs, FinishedJobs, ForeignSignaled
<1>2. QED
  BY <1>1 DEF Contract!Next

\* Every step of the scheduler is a step of the contract, or changes nothing it sees.
LEMMA ContractStep ==
    ASSUME SchedInv, DepInv, [Next]_vars
    PROVE  Contract!Next \/ UNCHANGED Contract!vars
<1>0. /\ job_queue \in [Entity -> Seq(Job)]
      /\ JobEntity \in [Job -> Entity] /\ JobDeps \in [Job -> SUBSET Fence]
  BY ConstantsAssumption DEF SchedInv, TypeInv, TypeOK, EntityTypes
<1>a. wpc \in Holding => /\ wjob \in Job /\ wentity \in Entity
                         /\ Len(job_queue[wentity]) >= 1 /\ job_queue[wentity][1] = wjob
  BY DEF SchedInv, TypeInv, WorkerHolds
<1>b. FenceOrder /\ DependenciesRespected /\ QueueDiscipline /\ RunOnce
  BY DEF DepInv, DependencyKept, SchedInv
<1> USE DEF clientVars, entityVars, rqVars, workerVars, hwVars, fenceVars
<1>c. ASSUME UNCHANGED signaled PROVE UNCHANGED <<ScheduledJobs, FinishedJobs, ForeignSignaled>>
  BY <1>c DEF ScheduledJobs, FinishedJobs, ForeignSignaled, Scheduled, Finished, ForeignFence
<1>d. ASSUME UNCHANGED job_queue,
             \A e \in Entity : StillInKfifo(e)' <=> StillInKfifo(e)
      PROVE  UNCHANGED Unscheduled
  BY <1>d DEF Unscheduled
<1>e. ASSUME UNCHANGED <<Unscheduled, ScheduledJobs, FinishedJobs, ForeignSignaled>>
      PROVE  UNCHANGED Contract!vars
  BY <1>e, ContractVars
<1>f. CASE UNCHANGED <<job_queue, signaled, wpc, wentity>>
  BY <1>c, <1>d, <1>e, <1>f DEF StillInKfifo
<1>g. CASE /\ UNCHANGED <<job_queue, signaled>>
           /\ wpc \notin {"attach", "process", "out"} /\ wpc' \notin {"attach", "process", "out"}
  BY <1>c, <1>d, <1>e, <1>g DEF StillInKfifo
\* Submission.
<1>1. ASSUME NEW j \in Job, \/ amd_sched_job_init(j) \/ rq_add_entity_test(j)
                            \/ rq_add_entity_link(j) \/ push_job_wakeup(j) \/ process_job_wakeup(j)
      PROVE  Contract!Next \/ UNCHANGED Contract!vars
  <2>1. CASE amd_sched_job_init(j) \/ rq_add_entity_test(j)
    BY <1>f, <2>1 DEF amd_sched_job_init, rq_add_entity_test
  <2>2. CASE rq_add_entity_link(j)
    BY <1>f, <2>2 DEF rq_add_entity_link
  <2>3. CASE push_job_wakeup(j) \/ process_job_wakeup(j)
    BY <1>f, <2>3 DEF push_job_wakeup, process_job_wakeup
  <2>4. QED
    BY <1>1, <2>1, <2>2, <2>3
<1>2. ASSUME NEW j \in Job, amd_sched_entity_in(j)
      PROVE  Contract!Next \/ UNCHANGED Contract!vars
  <2> DEFINE e == JobEntity[j]
             q == job_queue[e]
  <2>1. CASE UNCHANGED job_queue
    BY <1>2, <1>f, <2>1 DEF amd_sched_entity_in
  <2>2. CASE push[j] = "in" /\ job_queue' = [job_queue EXCEPT ![e] = Append(@, j)]
             /\ UNCHANGED <<signaled, wpc, wentity>>
    <3>1. e \in Entity /\ q \in Seq(Job) /\ (StillInKfifo(e) => Len(q) >= 1)
      BY <1>0, <1>a DEF StillInKfifo, Holding
    <3>2. j \notin ScheduledJobs
      BY <1>b, <2>2 DEF ScheduledJobs, FenceOrder
    <3>3. \A i \in 1..Len(q) : q[i] # j
      BY <1>b, <2>2, <3>1, SMTT(30) DEF QueueDiscipline
    <3>4. Unscheduled[e] = IF StillInKfifo(e) THEN Tail(q) ELSE q
      BY <3>1 DEF Unscheduled
    <3>5. \A i \in DOMAIN Unscheduled[e] : Unscheduled[e][i] # j
      <4>1. CASE StillInKfifo(e)
        <5>1. Len(q) >= 1
          BY <3>1, <4>1
        <5>2. /\ DOMAIN Tail(q) = 1..(Len(q) - 1) /\ Len(q) \in Nat
              /\ \A i \in 1..(Len(q) - 1) : Tail(q)[i] = q[i + 1]
          BY <3>1, <5>1, TailProps, SMTT(30)
        <5> HIDE DEF q
        <5>3. \A i \in 1..(Len(q) - 1) : i + 1 \in 1..Len(q)
          BY <5>2, SMTT(30)
        <5>4. QED
          BY <3>3, <3>4, <4>1, <5>2, <5>3
      <4>2. CASE ~StillInKfifo(e)
        BY <3>1, <3>3, <3>4, <4>2, SMTT(30)
      <4>3. QED
        BY <4>1, <4>2
    <3>6. \A d \in Entity : StillInKfifo(d)' <=> StillInKfifo(d)
      BY <2>2 DEF StillInKfifo
    <3>7. \A d \in Entity : job_queue'[d] = IF d = e THEN Append(q, j) ELSE job_queue[d]
      BY <1>0, <2>2
    <3>8. StillInKfifo(e) => Tail(Append(q, j)) = Append(Tail(q), j)
      BY <3>1, TailAppend
    <3> HIDE DEF q
    <3>9. \A d \in Entity : Unscheduled'[d] = IF d = e THEN Append(Unscheduled[d], j)
                                              ELSE Unscheduled[d]
      BY <3>4, <3>6, <3>7, <3>8 DEF Unscheduled
    <3>10. Unscheduled' = [Unscheduled EXCEPT ![e] = Append(@, j)]
      BY <3>9 DEF Unscheduled
    <3>11. QED
      BY <1>c, <2>2, <3>2, <3>5, <3>10, ContractSubmit
  <2>3. QED
    BY <1>2, <2>1, <2>2 DEF amd_sched_entity_in
\* Teardown.
<1>3. ASSUME NEW e \in Entity, \/ entity_fini_start(e) \/ entity_fini_wait(e)
                               \/ amd_sched_rq_remove_entity(e) \/ amd_sched_entity_wakeup(e)
      PROVE  Contract!Next \/ UNCHANGED Contract!vars
  <2>1. CASE entity_fini_start(e) \/ entity_fini_wait(e)
    BY <1>f, <2>1 DEF entity_fini_start, entity_fini_wait
  <2>2. CASE amd_sched_rq_remove_entity(e) \/ amd_sched_entity_wakeup(e)
    BY <1>f, <2>2 DEF amd_sched_rq_remove_entity, amd_sched_entity_wakeup
  <2>3. QED
    BY <1>3, <2>1, <2>2
\* The worker.
<1>4. CASE \/ main_wait \/ main_unparked \/ main_select \/ main_select_normal \/ main_sleep
           \/ amd_sched_entity_pop_job \/ amd_sched_job_begin \/ main_run_job \/ main_wake_up
  <2>1. CASE main_wait
    BY <1>g, <2>1 DEF main_wait
  <2>2. CASE main_unparked \/ main_sleep \/ main_wake_up \/ main_run_job
    BY <1>g, <2>2 DEF main_unparked, main_sleep, main_wake_up, main_run_job
  <2>3. CASE main_select \/ main_select_normal
    BY <1>g, <2>3 DEF main_select, main_select_normal, Selected, NotSelected
  <2>4. CASE amd_sched_entity_pop_job \/ amd_sched_job_begin
    BY <1>g, <2>4 DEF amd_sched_entity_pop_job, amd_sched_job_begin
  <2>5. QED
    BY <1>4, <2>1, <2>2, <2>3, <2>4
<1>5. CASE amd_sched_fence_scheduled
  <2> DEFINE q == job_queue[wentity]
  <2>1. /\ wpc = "scheduled" /\ wpc' = "attach" /\ UNCHANGED <<job_queue, wentity>>
        /\ signaled' = signaled \cup {Scheduled(wjob)}
    BY <1>5 DEF amd_sched_fence_scheduled
  <2>2. /\ wentity \in Entity /\ wjob \in Job /\ q \in Seq(Job) /\ q # <<>> /\ Head(q) = wjob
        /\ hw_fence[wjob] # "none"
    BY <1>0, <1>a, <1>b, <2>1, SMTT(30) DEF Holding, RunOnce
  <2>3. /\ Unscheduled[wentity] = q /\ Unscheduled'[wentity] = Tail(q)
        /\ \A d \in Entity : d # wentity => Unscheduled'[d] = Unscheduled[d]
    BY <2>1, <2>2 DEF Unscheduled, StillInKfifo
  <2>4. Unscheduled' = [Unscheduled EXCEPT ![wentity] = Tail(@)]
    BY <2>2, <2>3 DEF Unscheduled
  <2>5. \A f \in JobDeps[wjob] : IF f[1] = "foreign" THEN f \in signaled
                                                     ELSE Scheduled(f[2]) \in signaled
    BY <1>b, <2>2 DEF DependenciesRespected
  <2>6. {x \in Foreign : ForeignFence(x) \in JobDeps[wjob]} \subseteq ForeignSignaled
    BY <2>5 DEF ForeignSignaled, ForeignFence
  <2>7. {k \in Job : {Scheduled(k), Finished(k)} \cap JobDeps[wjob] # {}} \subseteq ScheduledJobs
    <3>1. ASSUME NEW k \in Job, Scheduled(k) \in JobDeps[wjob] \/ Finished(k) \in JobDeps[wjob]
          PROVE  Scheduled(k) \in signaled
      <4>1. /\ Scheduled(k)[1] = "scheduled" /\ Scheduled(k)[2] = k
            /\ Finished(k)[1] = "finished" /\ Finished(k)[2] = k
        BY DEF Scheduled, Finished
      <4>2. QED
        BY <2>5, <3>1, <4>1
    <3>2. QED
      BY <3>1 DEF ScheduledJobs
  <2>8. /\ ScheduledJobs' = ScheduledJobs \cup {wjob}
        /\ UNCHANGED <<FinishedJobs, ForeignSignaled>>
    <3>1. /\ \A j : Scheduled(j) \in signaled' <=> Scheduled(j) \in signaled \/ j = wjob
          /\ \A j : Finished(j) \in signaled' <=> Finished(j) \in signaled
          /\ \A x : ForeignFence(x) \in signaled' <=> ForeignFence(x) \in signaled
      BY <2>1, FenceNames
    <3>2. QED
      BY <2>2, <3>1 DEF ScheduledJobs, FinishedJobs, ForeignSignaled
  <2>9. QED
    BY <2>2, <2>3, <2>4, <2>6, <2>7, <2>8, ContractSchedule
<1>6. CASE main_attach
  <2>1. /\ UNCHANGED <<job_queue, signaled, wentity>>
        /\ wpc = "attach" /\ wpc' \in {"process", "out"}
    BY <1>6 DEF main_attach
  <2>2. QED
    BY <1>c, <1>d, <1>e, <2>1 DEF StillInKfifo
<1>7. CASE main_kfifo_out
  <2>1. /\ wpc \in {"process", "out"} /\ wpc' = "wakeup" /\ UNCHANGED <<signaled, wentity>>
        /\ job_queue' = [job_queue EXCEPT ![wentity] = Tail(@)]
    BY <1>7 DEF main_kfifo_out
  <2>2. \A d \in Entity : job_queue'[d] = IF d = wentity THEN Tail(job_queue[d]) ELSE job_queue[d]
    BY <1>0, <2>1
  <2>3. UNCHANGED Unscheduled
    BY <2>1, <2>2 DEF Unscheduled, StillInKfifo
  <2>4. QED
    BY <1>c, <1>e, <2>1, <2>3
\* Fences.
<1>8. ASSUME NEW j \in Job, amd_sched_fence_finished(j) PROVE Contract!Next
  <2>1. /\ process[j] = "finish" /\ UNCHANGED <<job_queue, wpc, wentity>>
        /\ signaled' = signaled \cup {Finished(j)}
    BY <1>8 DEF amd_sched_fence_finished
  <2>2. j \in ScheduledJobs \ FinishedJobs
    BY <1>b, <2>1 DEF FenceOrder, ScheduledJobs, FinishedJobs
  <2>3. /\ \A k : Finished(k) \in signaled' <=> Finished(k) \in signaled \/ k = j
        /\ \A k : Scheduled(k) \in signaled' <=> Scheduled(k) \in signaled
        /\ \A x : ForeignFence(x) \in signaled' <=> ForeignFence(x) \in signaled
    BY <2>1, FenceNames
  <2>4. FinishedJobs' = FinishedJobs \cup {j} /\ UNCHANGED <<ScheduledJobs, ForeignSignaled>>
    BY <2>3 DEF ScheduledJobs, FinishedJobs, ForeignSignaled
  <2>5. UNCHANGED Unscheduled
    BY <1>d, <2>1 DEF StillInKfifo
  <2>6. QED
    BY <2>2, <2>4, <2>5, ContractFinish
<1>9. ASSUME NEW x \in Foreign, ForeignSignal(x) PROVE Contract!Next
  <2>1. /\ ForeignFence(x) \notin signaled /\ UNCHANGED <<job_queue, wpc, wentity>>
        /\ signaled' = signaled \cup {ForeignFence(x)}
    BY <1>9 DEF ForeignSignal
  <2>2. /\ \A k : Finished(k) \in signaled' <=> Finished(k) \in signaled
        /\ \A k : Scheduled(k) \in signaled' <=> Scheduled(k) \in signaled
        /\ \A y : ForeignFence(y) \in signaled' <=> ForeignFence(y) \in signaled \/ y = x
    BY <2>1, FenceNames
  <2>3. /\ x \notin ForeignSignaled /\ ForeignSignaled' = ForeignSignaled \cup {x}
        /\ UNCHANGED <<ScheduledJobs, FinishedJobs>>
    BY <2>1, <2>2 DEF ScheduledJobs, FinishedJobs, ForeignSignaled
  <2>4. UNCHANGED Unscheduled
    BY <1>d, <2>1 DEF StillInKfifo
  <2>5. QED
    BY <2>3, <2>4, ContractSignal
<1>10. CASE HwExecute \/ Quiet
  <2>1. CASE HwExecute
    BY <1>f, <2>1 DEF HwExecute
  <2>2. CASE Quiet
    BY <1>f, <2>2 DEF Quiet
  <2>3. QED
    BY <1>10, <2>1, <2>2
<1>11. QED
  BY <1>1, <1>2, <1>3, <1>4, <1>5, <1>6, <1>7, <1>8, <1>9, <1>10, StepCases, SMTT(30) DEF amd_sched_main

\* The scheduler implements its contract: the jobs of an entity are scheduled in the
\* order of amd_sched_entity_push_job, each once and after its dependencies, and are
\* finished once, after they were scheduled.
THEOREM SchedulerImplements == Spec => ImplementsContract
<1>1. Init => Contract!Init
  BY DEF Init, Contract!Init, StillInKfifo
<1>2. SchedInv /\ DepInv /\ [Next]_vars => [Contract!Next]_(Contract!vars)
  BY ContractStep
<1>3. QED
  BY <1>1, <1>2, SchedInvariant, DepInvariant, PTL DEF Spec, ImplementsContract, Contract!Spec
=============================================================================
