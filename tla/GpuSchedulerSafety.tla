------------------------- MODULE GpuSchedulerSafety -------------------------
(***************************************************************************)
(* The worker of GpuScheduler, for every set of entities and jobs, every   *)
(* dependency relation, queue size and hardware limit: its count of the    *)
(* jobs in flight, the run queues it searches, and its wake-ups.           *)
(***************************************************************************)
EXTENDS GpuSchedulerQueues, FiniteSetTheorems

\* The provers of a leaf that names none, and the time each of them has.
USE ZenonT(20), SMTT(30)

-----------------------------------------------------------------------------
(* The counter of jobs in flight is exact and bounded.                     *)

\* hw_rq_count is the number of jobs in flight, a finite set.
Counted ==
    /\ IsFiniteSet(InFlight)
    /\ hw_rq_count = Cardinality(InFlight)

LEMMA CountedStep ==
    ASSUME TypeInv, QueueDiscipline, RunOnce, Counted, [Next]_vars
    PROVE  Counted'
<1> DEFINE Flying == {"run", "scheduled", "attach"}
<1>0. /\ hw_fence \in [Job -> {"none", "emitted", "attached", "signaled", "failed"}]
      /\ hw_rq_count \in Int
  BY DEF TypeInv, TypeOK, HwTypes
<1>1. ASSUME InFlight' = InFlight, UNCHANGED hw_rq_count PROVE Counted'
  BY <1>1 DEF Counted
<1>2. ASSUME NEW j, j \in InFlight, InFlight' = InFlight \ {j}, hw_rq_count' = hw_rq_count - 1
      PROVE  Counted'
  BY <1>0, <1>2, FS_RemoveElement DEF Counted
<1>3. ASSUME UNCHANGED <<hw_rq_count, hw_fence>>,
             wpc \notin Flying, wpc' \notin Flying
      PROVE  Counted'
  BY <1>1, <1>3 DEF InFlight
<1>4. ASSUME UNCHANGED <<hw_rq_count, hw_fence, wpc, wjob>> PROVE Counted'
  BY <1>1, <1>4 DEF InFlight
<1>5. ASSUME NEW j \in Job,
             \/ amd_sched_job_init(j) \/ amd_sched_entity_in(j) \/ rq_add_entity_test(j)
             \/ rq_add_entity_link(j) \/ push_job_wakeup(j)
      PROVE  Counted'
  BY <1>4, <1>5 DEF amd_sched_job_init, amd_sched_entity_in, rq_add_entity_test,
       rq_add_entity_link, push_job_wakeup, hwVars, workerVars
<1>6. CASE \/ main_wait \/ main_unparked \/ main_select \/ main_select_normal \/ main_sleep
           \/ amd_sched_entity_pop_job \/ main_kfifo_out \/ main_wake_up
  <2>1. UNCHANGED <<hw_rq_count, hw_fence>>
    BY <1>6 DEF main_wait, main_unparked, main_select, main_select_normal, main_sleep,
         amd_sched_entity_pop_job, main_kfifo_out, main_wake_up, hwVars
  <2>2. wpc \notin Flying /\ wpc' \notin Flying
    BY <1>6 DEF main_wait, main_unparked, main_select, main_select_normal, main_sleep,
         Selected, NotSelected, amd_sched_entity_pop_job, main_kfifo_out, main_wake_up
  <2>3. QED
    BY <1>3, <2>1, <2>2
\* Before it runs, the job is not in flight: it has no fence.
<1>7. CASE amd_sched_job_begin
  <2>1. /\ wpc = "begin" /\ wpc' = "run" /\ hw_rq_count' = hw_rq_count + 1
        /\ UNCHANGED <<wentity, wjob, hw_fence>>
        /\ wentity \in Entity /\ wjob \in Job
        /\ job_queue[wentity] \in Seq(Job)
        /\ Len(job_queue[wentity]) >= 1
        /\ job_queue[wentity][1] = wjob
    BY <1>7 DEF amd_sched_job_begin, TypeInv, TypeOK, EntityTypes, WorkerHolds, Holding
  <2>2. 1 \in 1..Len(job_queue[wentity]) /\ job_queue[wentity][1] = wjob
    BY <2>1, SMTT(30)
  <2>3. hw_fence[wjob] = "none"
    BY <2>1, <2>2 DEF RunOnce
  <2>4. InFlight' = InFlight \cup {wjob} /\ wjob \notin InFlight
    BY <2>1, <2>3 DEF InFlight
  <2>5. QED
    BY <1>0, <2>1, <2>4, FS_AddElement DEF Counted
<1>8. CASE main_run_job
  <2>1. /\ wpc = "run" /\ wpc' = "scheduled" /\ UNCHANGED <<wjob, hw_rq_count>>
        /\ wjob \in Job
        /\ \E v \in {"emitted", "failed"} : hw_fence' = [hw_fence EXCEPT ![wjob] = v]
    BY <1>8 DEF main_run_job, RunJob, TypeInv, WorkerHolds, Holding
  <2>2. InFlight' = InFlight
    BY <1>0, <2>1 DEF InFlight
  <2>3. QED
    BY <1>1, <2>1, <2>2
<1>9. CASE amd_sched_fence_scheduled
  <2>1. /\ wpc = "scheduled" /\ wpc' = "attach"
        /\ UNCHANGED <<wjob, hw_rq_count, hw_fence>>
    BY <1>9 DEF amd_sched_fence_scheduled, hwVars
  <2>2. QED
    BY <1>1, <2>1 DEF InFlight
<1>10. CASE main_attach
  <2>1. /\ wpc = "attach" /\ wpc' \in {"out", "process"} /\ UNCHANGED wjob
        /\ wjob \in Job
        /\ hw_fence[wjob] \in {"emitted", "signaled", "failed"}
    BY <1>10 DEF main_attach, TypeInv, WorkerHolds, Holding, RunOnce
  <2>2. CASE hw_fence[wjob] = "emitted"
    <3>1. UNCHANGED hw_rq_count /\ hw_fence' = [hw_fence EXCEPT ![wjob] = "attached"]
      BY <1>10, <2>2 DEF main_attach, AttachFence
    <3>2. InFlight' = InFlight
      BY <1>0, <2>1, <3>1 DEF InFlight
    <3>3. QED
      BY <1>1, <3>1, <3>2
  <2>3. CASE hw_fence[wjob] # "emitted"
    <3>1. hw_rq_count' = hw_rq_count - 1 /\ UNCHANGED hw_fence
      BY <1>10, <2>3 DEF main_attach, AttachFence, ProcessJob
    <3>2. wjob \in InFlight /\ InFlight' = InFlight \ {wjob}
      BY <1>0, <2>1, <2>3, <3>1 DEF InFlight
    <3>3. QED
      BY <1>2, <3>1, <3>2
  <2>4. QED
    BY <2>2, <2>3
<1>11. CASE HwExecute
  <2>1. UNCHANGED <<wpc, wjob>>
    BY <1>11 DEF HwExecute, workerVars
  <2>2. PICK j \in Job :
          /\ hw_fence' = [hw_fence EXCEPT ![j] = "signaled"]
          /\ \/ hw_fence[j] = "attached" /\ hw_rq_count' = hw_rq_count - 1
             \/ hw_fence[j] = "emitted" /\ UNCHANGED hw_rq_count
    <3>1. Head(hw_ring) \in Job
      BY <1>11, SMTT(30) DEF HwExecute, TypeInv, TypeOK, HwTypes
    <3>2. QED
      BY <1>11, <3>1 DEF HwExecute, ProcessJob
  <2>3. CASE hw_fence[j] = "attached"
    <3>1. ~(j = wjob /\ wpc \in Flying)
      <4>1. wpc \in {"scheduled", "attach"} => hw_fence[wjob] # "attached"
        BY DEF RunOnce
      <4>2. CASE wpc = "run" /\ j = wjob
        <5>1. /\ wentity \in Entity
              /\ job_queue[wentity] \in Seq(Job)
              /\ Len(job_queue[wentity]) >= 1
              /\ job_queue[wentity][1] = wjob
          BY <4>2 DEF TypeInv, TypeOK, EntityTypes, WorkerHolds, Holding
        <5>2. 1 \in 1..Len(job_queue[wentity]) /\ job_queue[wentity][1] = wjob
          BY <5>1, SMTT(30)
        <5>3. QED
          BY <2>3, <4>2, <5>1, <5>2 DEF RunOnce
      <4>3. QED
        BY <2>3, <4>1, <4>2
    <3>2. j \in InFlight /\ InFlight' = InFlight \ {j}
      BY <1>0, <2>1, <2>2, <2>3, <3>1 DEF InFlight
    <3>3. QED
      BY <1>2, <2>2, <2>3, <3>2
  <2>4. CASE hw_fence[j] = "emitted"
    <3>1. InFlight' = InFlight
      BY <1>0, <2>1, <2>2, <2>4 DEF InFlight
    <3>2. QED
      BY <1>1, <2>2, <2>4, <3>1
  <2>5. QED
    BY <2>2, <2>3, <2>4
<1>12. CASE UNCHANGED <<hw_rq_count, hw_fence, workerVars>>
  BY <1>4, <1>12 DEF workerVars
<1>13. QED
  BY <1>5, <1>6, <1>7, <1>8, <1>9, <1>10, <1>11, <1>12, HwFrame, SMTT(30) DEF amd_sched_main

\* hw_rq_count is the number of jobs in flight and never exceeds
\* hw_submission_limit, in every run of amd_sched_main and amd_sched_process_job.
THEOREM HwCountCorrect == Spec => []HwCountExact
<1>1. Init => Counted
  <2> SUFFICES ASSUME Init PROVE Counted
    OBVIOUS
  <2>1. InFlight = {}
    BY DEF Init, InFlight
  <2>2. QED
    BY <2>1, FS_EmptySet DEF Init, Counted
<1>2. SchedInv /\ Counted /\ [Next]_vars => Counted'
  BY CountedStep DEF SchedInv
<1>3. SchedInv /\ Counted => HwCountExact
  BY DEF SchedInv, Limited, Counted, HwCountExact
<1>4. QED
  BY <1>1, <1>2, <1>3, SchedInvariant, PTL DEF Spec

-----------------------------------------------------------------------------
(* An entity is on its run queue when it has a job to run.                 *)

\* An entity with work is on its run queue, once, or about to be linked by the thread
\* that pushed its first job, although that thread tests for it without the lock; and
\* amd_sched_entity_fini leaves no trace of an entity that it has destroyed.
THEOREM EntitiesLinked == Spec => []EntityOnRq
<1>1. ASSUME SchedInv PROVE EntityOnRq
  <2>0. /\ rq \in [Priority -> Seq(Entity)] /\ job_queue \in [Entity -> Seq(Job)]
        /\ \A e : RqOf(e) \in Priority
        /\ None \notin Entity
    BY <1>1, ConstantsAssumption
    DEF SchedInv, TypeInv, TypeOK, RqTypes, EntityTypes, RqOf, Priority
  <2>a. OnceOnRq /\ LinkedOnce /\ Teardown /\ WaitsWithJob /\ WorkerHolds
    BY <1>1 DEF SchedInv, RqInv, TypeInv
  <2>1. ASSUME NEW e \in Entity
        PROVE  Cardinality({i \in DOMAIN rq[RqOf(e)] : rq[RqOf(e)][i] = e}) <= 1
    <3> DEFINE S == {i \in DOMAIN rq[RqOf(e)] : rq[RqOf(e)][i] = e}
    <3>1. RqOf(e) \in Priority /\ DOMAIN rq[RqOf(e)] = 1..Len(rq[RqOf(e)])
      BY <2>0, SMTT(30)
    <3>2. \A i, k \in S : i = k
      BY <2>a, <3>1 DEF OnceOnRq
    <3> HIDE DEF S
    <3>3. CASE S = {}
      BY <3>3, FS_EmptySet, SMTT(30) DEF S
    <3>4. ASSUME NEW i \in S PROVE Cardinality(S) <= 1
      <4>1. S = {i}
        BY <3>2, <3>4
      <4>2. Cardinality(S) = 1
        BY <4>1, FS_Singleton
      <4>3. QED
        BY <4>2, SMTT(30)
    <3>5. QED
      BY <3>3, <3>4 DEF S
  <2>2. ASSUME NEW e \in Entity, job_queue[e] # <<>>
        PROVE  OnRq(e) \/ \E j \in Job : JobEntity[j] = e /\ push[j] \in {"add", "link"}
    BY <2>a, <2>2 DEF LinkedOnce, Linking
  <2>3. ASSUME NEW e \in Entity, fini[e] = "gone"
        PROVE  /\ ~OnRq(e) /\ current_entity[RqOf(e)] # e
               /\ wentity = e => wpc = "wakeup"
               /\ dependency[e] = None
    <3>1. job_queue[e] = <<>> /\ ~OnRq(e) /\ current_entity[RqOf(e)] # e
      BY <2>a, <2>3 DEF Teardown
    <3>2. dependency[e] = None
      BY <2>a, <3>1 DEF WaitsWithJob
    <3>3. wpc \in Holding => wentity # e
      BY <2>a, <3>1, SMTT(30) DEF WorkerHolds
    <3>4. wpc \notin Holding \cup {"wakeup"} => wentity # e
      BY <2>0, <2>a DEF WaitsWithJob
    <3>5. QED
      BY <3>1, <3>2, <3>3, <3>4
  <2>4. QED
    BY <2>1, <2>2, <2>3 DEF EntityOnRq
<1>2. QED
  BY <1>1, SchedInvariant, PTL

-----------------------------------------------------------------------------
(* Wake-ups.                                                               *)

\* What the worker knows while nobody is about to wake it: the run queues it has
\* looked at have no ready entity, or the ring is full.
NothingMissed ==
    (wake_up_worker /\ ~WakePending) =>
        /\ wpc = "select_normal" =>
              \A e \in Entity : RqOf(e) = "KERNEL" => ~amd_sched_entity_is_ready(e)
        /\ wpc = "sleep" => ~(amd_sched_ready /\ \E e \in Entity : amd_sched_entity_is_ready(e))

\* An entity that is ready is where the worker looks for it, or is being linked.
LEMMA ReadyFound ==
    ASSUME SchedInv, NEW e \in Entity, amd_sched_entity_is_ready(e), ~WakePending
    PROVE  ReadyAt(RqOf(e)) # {}
<1>1. OnRq(e)
  BY SMTT(30) DEF SchedInv, RqInv, LinkedOnce, Linking, amd_sched_entity_is_ready, WakePending
<1>2. rq[RqOf(e)] \in Seq(Entity)
  BY DEF SchedInv, TypeInv, TypeOK, RqTypes, RqOf, Priority
<1>3. QED
  BY <1>1, <1>2, SMTT(30) DEF OnRq, InList, ReadyAt

\* A step that makes nothing ready and stops nobody on the way to the worker.
LEMMA MissedFrame ==
    ASSUME NothingMissed, UNCHANGED wpc,
           wake_up_worker' => wake_up_worker,
           WakePending => WakePending',
           amd_sched_ready' => amd_sched_ready,
           \A e \in Entity : amd_sched_entity_is_ready(e)' => amd_sched_entity_is_ready(e)
    PROVE  NothingMissed'
BY DEF NothingMissed

\* The worker never misses what became ready while it looked at its run queues.
LEMMA NothingMissedStep ==
    ASSUME SchedInv, NothingMissed, [Next]_vars
    PROVE  NothingMissed'
<1>0. /\ push \in [Job -> {"new", "in", "add", "link", "wake", "done"}]
      /\ process \in [Job -> {"none", "finish", "wakeup", "done"}]
      /\ job_queue \in [Entity -> Seq(Job)]
      /\ dependency \in [Entity -> Fence \cup {None}]
      /\ JobEntity \in [Job -> Entity]
      /\ hw_ring \in Seq(Job)
  BY ConstantsAssumption DEF SchedInv, TypeInv, TypeOK, ClientTypes, EntityTypes, HwTypes
<1> USE DEF clientVars, entityVars, rqVars, workerVars, hwVars, fenceVars
<1>a. ASSUME wpc' \notin {"select_normal", "sleep"} PROVE NothingMissed'
  BY <1>a DEF NothingMissed
<1>b. ASSUME WakePending' PROVE NothingMissed'
  BY <1>b DEF NothingMissed
<1>c. ASSUME UNCHANGED <<wpc, push, process, depwake, hw_rq_count, job_queue, dependency>>,
             wake_up_worker' => wake_up_worker
      PROVE  NothingMissed'
  <2>1. /\ WakePending => WakePending'
        /\ amd_sched_ready' => amd_sched_ready
        /\ \A e \in Entity : amd_sched_entity_is_ready(e)' => amd_sched_entity_is_ready(e)
    BY <1>c DEF WakePending, amd_sched_ready, amd_sched_entity_is_ready
  <2>2. QED
    BY <1>c, <2>1, MissedFrame
\* amd_sched_wakeup wakes nobody only if the ring is full.
<1>d. ASSUME amd_sched_wakeup, UNCHANGED <<wpc, hw_rq_count>> PROVE NothingMissed'
  <2>1. wake_up_worker' => ~amd_sched_ready
    BY <1>d DEF amd_sched_wakeup
  <2>2. amd_sched_ready' <=> amd_sched_ready
    BY <1>d DEF amd_sched_ready
  <2>3. wpc = "select_normal" => amd_sched_ready
    BY DEF SchedInv, Limited, amd_sched_ready
  <2>4. QED
    BY <1>d, <2>1, <2>2, <2>3 DEF NothingMissed
\* A thread that submits job j.
<1>1. ASSUME NEW j \in Job, amd_sched_job_init(j) PROVE NothingMissed'
  <2>1. /\ UNCHANGED <<wpc, process, depwake, hw_rq_count, job_queue, dependency, wake_up_worker>>
        /\ push[j] = "new" /\ push' = [push EXCEPT ![j] = "in"]
    BY <1>1 DEF amd_sched_job_init
  <2>2. \A k \in Job : push[k] \in {"add", "link", "wake"} => push'[k] \in {"add", "link", "wake"}
    BY <1>0, <2>1
  <2>3. WakePending => WakePending'
    BY <2>1, <2>2 DEF WakePending
  <2>4. /\ amd_sched_ready' => amd_sched_ready
        /\ \A e \in Entity : amd_sched_entity_is_ready(e)' => amd_sched_entity_is_ready(e)
    BY <2>1 DEF amd_sched_ready, amd_sched_entity_is_ready
  <2>5. QED
    BY <2>1, <2>3, <2>4, MissedFrame
<1>2. ASSUME NEW j \in Job, amd_sched_entity_in(j) PROVE NothingMissed'
  <2> DEFINE e == JobEntity[j]
  <2>1. UNCHANGED <<wpc, process, depwake, hw_rq_count, dependency, wake_up_worker>>
    BY <1>2 DEF amd_sched_entity_in
  <2>2. CASE UNCHANGED <<job_queue, push>>
    BY <1>c, <2>1, <2>2
  <2>3. CASE /\ push[j] = "in"
             /\ job_queue' = [job_queue EXCEPT ![e] = Append(@, j)]
             /\ push' = [push EXCEPT ![j] = IF Len(job_queue'[e]) = 1 THEN "add" ELSE "done"]
    <3>1. CASE Len(job_queue'[e]) = 1
      BY <1>0, <1>b, <2>3, <3>1 DEF WakePending
    <3>2. CASE Len(job_queue'[e]) # 1
      <4>1. /\ e \in Entity /\ job_queue[e] \in Seq(Job)
            /\ job_queue'[e] = Append(job_queue[e], j)
            /\ \A d \in Entity : d # e => job_queue'[d] = job_queue[d]
        BY <1>0, <2>3
      <4>2. job_queue[e] # <<>>
        BY <3>2, <4>1, SMTT(30)
      <4>3. /\ \A d \in Entity : amd_sched_entity_is_ready(d)' => amd_sched_entity_is_ready(d)
            /\ amd_sched_ready' => amd_sched_ready
        BY <2>1, <4>1, <4>2 DEF amd_sched_entity_is_ready, amd_sched_ready
      <4>4. \A k \in Job : push[k] \in {"add", "link", "wake"} => push'[k] \in {"add", "link", "wake"}
        BY <1>0, <2>3
      <4>5. WakePending => WakePending'
        BY <2>1, <4>4 DEF WakePending
      <4>6. QED
        BY <2>1, <4>3, <4>5, MissedFrame
    <3>3. QED
      BY <3>1, <3>2
  <2>4. QED
    BY <1>2, <2>2, <2>3 DEF amd_sched_entity_in
<1>3. ASSUME NEW j \in Job, rq_add_entity_test(j) \/ rq_add_entity_link(j) PROVE NothingMissed'
  <2>1. push'[j] \in {"link", "wake"}
    BY <1>0, <1>3 DEF rq_add_entity_test, rq_add_entity_link
  <2>2. QED
    BY <1>b, <2>1 DEF WakePending
<1>4. ASSUME NEW j \in Job, push_job_wakeup(j) PROVE NothingMissed'
  BY <1>4, <1>d DEF push_job_wakeup
\* amd_sched_process_job of job j.
<1>5. ASSUME NEW j \in Job, amd_sched_fence_finished(j) \/ process_job_wakeup(j)
      PROVE  NothingMissed'
  <2>1. CASE amd_sched_fence_finished(j)
    <3>1. process'[j] = "wakeup"
      BY <1>0, <2>1 DEF amd_sched_fence_finished
    <3>2. QED
      BY <1>b, <3>1 DEF WakePending
  <2>2. CASE process_job_wakeup(j)
    BY <2>2 DEF process_job_wakeup, NothingMissed
  <2>3. QED
    BY <1>5, <2>1, <2>2
\* Teardown, and the wake-up of an entity whose dependency was cleared.
<1>6. ASSUME NEW e \in Entity,
             entity_fini_start(e) \/ entity_fini_wait(e) \/ amd_sched_rq_remove_entity(e)
      PROVE  NothingMissed'
  <2>1. /\ UNCHANGED <<wpc, push, process, depwake, hw_rq_count, job_queue, dependency>>
        /\ UNCHANGED wake_up_worker
    <3>1. CASE entity_fini_start(e)
      BY <3>1 DEF entity_fini_start
    <3>2. CASE entity_fini_wait(e)
      BY <3>2 DEF entity_fini_wait
    <3>3. CASE amd_sched_rq_remove_entity(e)
      BY <3>3 DEF amd_sched_rq_remove_entity
    <3>4. QED
      BY <1>6, <3>1, <3>2, <3>3
  <2>2. QED
    BY <1>c, <2>1
<1>7. ASSUME NEW e \in Entity, amd_sched_entity_wakeup(e) PROVE NothingMissed'
  BY <1>7, <1>d DEF amd_sched_entity_wakeup
<1>8. ASSUME NEW x \in Foreign, ForeignSignal(x) PROVE NothingMissed'
  <2>1. /\ UNCHANGED <<wpc, push, process, hw_rq_count, job_queue, wake_up_worker>>
        /\ dependency' = [e \in Entity |-> IF dependency[e] = ForeignFence(x)
                                           THEN None ELSE dependency[e]]
        /\ depwake' = depwake \cup {e \in Entity : dependency[e] = ForeignFence(x)}
    BY <1>8 DEF ForeignSignal
  <2>2. CASE \E e \in Entity : dependency[e] = ForeignFence(x)
    <3>1. depwake' # {}
      BY <2>1, <2>2
    <3>2. QED
      BY <1>b, <3>1 DEF WakePending
  <2>3. CASE \A e \in Entity : dependency[e] # ForeignFence(x)
    <3>1. dependency' = dependency /\ depwake' = depwake
      BY <1>0, <2>1, <2>3
    <3>2. QED
      BY <1>c, <2>1, <3>1
  <2>4. QED
    BY <2>2, <2>3
\* The worker.
<1>9. CASE \/ main_wait \/ main_unparked \/ main_sleep \/ amd_sched_entity_pop_job
           \/ amd_sched_job_begin \/ main_run_job \/ amd_sched_fence_scheduled \/ main_attach
           \/ main_kfifo_out \/ main_wake_up
  <2>0. CASE main_wait
    BY <1>a, <2>0 DEF main_wait
  <2>1. CASE main_unparked \/ main_sleep \/ amd_sched_entity_pop_job
    BY <1>a, <2>1 DEF main_unparked, main_sleep, amd_sched_entity_pop_job
  <2>2. CASE amd_sched_job_begin \/ main_run_job \/ amd_sched_fence_scheduled
    BY <1>a, <2>2 DEF amd_sched_job_begin, main_run_job, amd_sched_fence_scheduled
  <2>3. CASE main_attach \/ main_kfifo_out \/ main_wake_up
    BY <1>a, <2>3 DEF main_attach, main_kfifo_out, main_wake_up
  <2>4. QED
    BY <1>9, <2>0, <2>1, <2>2, <2>3
<1>10. CASE main_select
  <2>1. UNCHANGED <<push, process, depwake, hw_rq_count, job_queue, dependency>>
    BY <1>10 DEF main_select
  <2>2. /\ WakePending' <=> WakePending
        /\ amd_sched_ready' <=> amd_sched_ready
        /\ \A e \in Entity : amd_sched_entity_is_ready(e)' <=> amd_sched_entity_is_ready(e)
    BY <2>1 DEF WakePending, amd_sched_ready, amd_sched_entity_is_ready
  <2>3. CASE ~amd_sched_ready /\ wpc' = "sleep"
    BY <2>2, <2>3 DEF NothingMissed
  <2>4. CASE ReadyAt("KERNEL") = {} /\ wpc' = "select_normal"
    <3>1. \A e \in Entity : RqOf(e) = "KERNEL" /\ ~WakePending => ~amd_sched_entity_is_ready(e)
      BY <2>4, ReadyFound
    <3>2. QED
      BY <2>2, <2>4, <3>1 DEF NothingMissed
  <2>5. CASE wpc' = "pop"
    BY <1>a, <2>5
  <2>6. QED
    BY <1>10, <2>3, <2>4, <2>5 DEF main_select, NotSelected, Selected
<1>11. CASE main_select_normal
  <2>1. UNCHANGED <<push, process, depwake, hw_rq_count, job_queue, dependency>>
    BY <1>11 DEF main_select_normal
  <2>2. /\ WakePending' <=> WakePending
        /\ \A e \in Entity : amd_sched_entity_is_ready(e)' <=> amd_sched_entity_is_ready(e)
    BY <2>1 DEF WakePending, amd_sched_entity_is_ready
  <2>3. CASE ReadyAt("NORMAL") = {} /\ wpc' = "sleep" /\ UNCHANGED wake_up_worker
    <3>1. \A e \in Entity : RqOf(e) = "NORMAL" /\ ~WakePending => ~amd_sched_entity_is_ready(e)
      BY <2>3, ReadyFound
    <3>2. \A e \in Entity : RqOf(e) = "KERNEL" \/ RqOf(e) = "NORMAL"
      BY DEF RqOf
    <3>3. wpc = "select_normal"
      BY <1>11 DEF main_select_normal
    <3>4. (wake_up_worker' /\ ~WakePending') => \A e \in Entity : ~amd_sched_entity_is_ready(e)'
      BY <2>2, <2>3, <3>1, <3>2, <3>3 DEF NothingMissed
    <3>5. QED
      BY <2>3, <3>4 DEF NothingMissed
  <2>4. CASE wpc' = "pop"
    BY <1>a, <2>4
  <2>5. QED
    BY <1>11, <2>3, <2>4 DEF main_select_normal, NotSelected, Selected
<1>12. CASE HwExecute
  <2>1. CASE UNCHANGED <<hw_rq_count, process>>
    BY <1>12, <1>c, <2>1 DEF HwExecute
  <2>2. CASE \E j \in Job : process' = [process EXCEPT ![j] = "finish"]
    BY <1>0, <1>b, <2>2 DEF WakePending
  <2>3. QED
    BY <1>0, <1>12, <2>1, <2>2, SMTT(30) DEF HwExecute, ProcessJob
<1>13. CASE Quiet
  <2>1. wake_up_worker' => wake_up_worker
    BY <1>13 DEF Quiet
  <2>2. QED
    BY <1>13, <1>c, <2>1 DEF Quiet
<1>14. QED
  BY <1>1, <1>2, <1>3, <1>4, <1>5, <1>6, <1>7, <1>8, <1>9, <1>10, <1>11, <1>12, <1>13,
     StepCases DEF amd_sched_main

\* The worker of a ring sleeps with a job to run only while somebody is on the way to
\* wake it: no interleaving of amd_sched_wakeup, amd_sched_process_job and the unlocked
\* search of the run queues loses a wake-up.
THEOREM WakeupsKept == Spec => []NoLostWakeup
<1>1. Init => NothingMissed
  BY DEF Init, NothingMissed
<1>2. NothingMissed => NoLostWakeup
  BY DEF NothingMissed, NoLostWakeup
<1>3. SchedInv /\ NothingMissed /\ [Next]_vars => NothingMissed'
  BY NothingMissedStep
<1>4. QED
  BY <1>1, <1>2, <1>3, SchedInvariant, PTL DEF Spec
=============================================================================
