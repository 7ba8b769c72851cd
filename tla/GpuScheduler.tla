---------------------------- MODULE GpuScheduler ----------------------------
(***************************************************************************)
(* The GPU scheduler of one hardware ring (amd/scheduler/gpu_scheduler.c,  *)
(* sched_fence.c) with the backend operations amdgpu plugs into it         *)
(* (amdgpu/amdgpu_job.c).                                                  *)
(*                                                                         *)
(* Actors: one submitting thread per job, one thread per entity that tears *)
(* it down, the scheduler's kernel thread (amd_sched_main), the hardware   *)
(* ring, the fence callbacks that run amd_sched_process_job, the signalers *)
(* of fences of other rings, and the work items job_finish and             *)
(* job_timedout of every job.  A step is one critical section of the code, *)
(* or the code between two accesses of shared state.                       *)
(***************************************************************************)
EXTENDS Integers, Sequences, FiniteSets

CONSTANTS
    Entity,            \* scheduler entities of this ring
    KernelEntity,      \* those on the KERNEL run queue; the others are NORMAL
    Job,               \* jobs that may be submitted
    JobEntity,         \* the entity each job is pushed to
    Foreign,           \* fences signaled by somebody else than this ring
    JobDeps,           \* the fences in the sync objects of each job
    QueueSize,         \* capacity of an entity's kfifo
    HwLimit,           \* hw_submission_limit
    FiniteTimeout,     \* sched->timeout # MAX_SCHEDULE_TIMEOUT
    MaxParks,          \* bound: how often debugfs parks the thread
    None               \* the NULL pointer

Scheduled(j) == <<"scheduled", j>>

Finished(j) == <<"finished", j>>

ForeignFence(x) == <<"foreign", x>>

Fence == ({"scheduled", "finished"} \X Job) \cup ({"foreign"} \X Foreign)

ASSUME ConstantsAssumption ==
    /\ KernelEntity \subseteq Entity
    /\ JobEntity \in [Job -> Entity]
    /\ JobDeps \in [Job -> SUBSET Fence]
    /\ QueueSize \in Nat \ {0}
    /\ HwLimit \in Nat \ {0}
    /\ FiniteTimeout \in BOOLEAN
    /\ MaxParks \in Nat
    /\ None \notin Entity \cup Job \cup Fence
    /\ Entity \cap Job = {}

Priority == {"KERNEL", "NORMAL"}

RqOf(e) == IF e \in KernelEntity THEN "KERNEL" ELSE "NORMAL"

VARIABLES
    push,              \* where the thread submitting each job is
    fini,              \* where the thread tearing down each entity is
    job_queue,         \* entity->job_queue
    dependency,        \* entity->dependency
    sync,              \* the fences left in each job's sync objects
    rq,                \* rq->entities
    current_entity,    \* rq->current_entity
    wake_up_worker,    \* TRUE: the worker is on the wait queue and not woken
    job_scheduled,     \* who waits on sched->job_scheduled and is not woken
    wpc,               \* where amd_sched_main is
    wentity,           \* its variable entity
    wjob,              \* its variable sched_job
    hw_rq_count,       \* sched->hw_rq_count
    hw_ring,           \* jobs the hardware has yet to execute, in order
    hw_fence,          \* the fence run_job returned for each job
    process,           \* where amd_sched_process_job is for each job
    signaled,          \* fences signaled so far
    depwake,           \* entities whose amd_sched_entity_wakeup is half done
    ring_mirror_list,  \* sched->ring_mirror_list
    tdr_pending,       \* jobs whose work_tdr is pending
    tdr_running,       \* jobs whose work_tdr is running
    tdr_expired,       \* jobs whose work_tdr has run and found no hang
    finish,            \* where each job's finish_work is
    parks,             \* how often the thread was asked to park
    should_park,       \* kthread_should_park
    should_stop        \* kthread_should_stop

clientVars == <<push, fini>>
entityVars == <<job_queue, dependency, sync>>
rqVars     == <<rq, current_entity>>
workerVars == <<wpc, wentity, wjob>>
hwVars     == <<hw_rq_count, hw_ring, hw_fence, process>>
fenceVars  == <<signaled, depwake>>
listVars   == <<ring_mirror_list, tdr_pending, tdr_running, tdr_expired, finish>>
stopVars   == <<parks, should_park, should_stop>>
vars == <<clientVars, entityVars, rqVars, wake_up_worker, job_scheduled,
          workerVars, hwVars, fenceVars, listVars, stopVars>>

Init ==
    /\ push = [j \in Job |-> "new"]
    /\ fini = [e \in Entity |-> "live"]
    /\ job_queue = [e \in Entity |-> <<>>]
    /\ dependency = [e \in Entity |-> None]
    /\ sync = JobDeps
    /\ rq = [p \in Priority |-> <<>>]
    /\ current_entity = [p \in Priority |-> None]
    /\ wake_up_worker = FALSE
    /\ job_scheduled = {}
    /\ wpc = "wait"
    /\ wentity = None
    /\ wjob = None
    /\ hw_rq_count = 0
    /\ hw_ring = <<>>
    /\ hw_fence = [j \in Job |-> "none"]
    /\ process = [j \in Job |-> "none"]
    /\ signaled = {}
    /\ depwake = {}
    /\ ring_mirror_list = <<>>
    /\ tdr_pending = {}
    /\ tdr_running = {}
    /\ tdr_expired = {}
    /\ finish = [j \in Job |-> "none"]
    /\ parks = 0
    /\ should_park = FALSE
    /\ should_stop = FALSE

-----------------------------------------------------------------------------
(* Predicates the code tests.                                              *)

ready_off_by_one == hw_rq_count <= HwLimit

amd_sched_ready == hw_rq_count < HwLimit

amd_sched_entity_is_idle(e) == job_queue[e] = <<>>

amd_sched_entity_is_ready(e) ==
    /\ job_queue[e] # <<>>
    /\ dependency[e] = None

kfifo_has_room(e) == Len(job_queue[e]) < QueueSize

InList(l, x) == \E i \in 1..Len(l) : l[i] = x

\* list_del_init of the node that holds x.
list_del_init(l, x) ==
    LET at == CHOOSE i \in 1..Len(l) : l[i] = x
    IN  IF InList(l, x) THEN [i \in 1..(Len(l) - 1) |-> IF i < at THEN l[i] ELSE l[i + 1]]
                        ELSE l

OnRq(e) == InList(rq[RqOf(e)], e)

\* amd_sched_wakeup: wake the worker if the ring takes more jobs.
amd_sched_wakeup ==
    wake_up_worker' = (wake_up_worker /\ ~amd_sched_ready)

arm_nothing(l) == UNCHANGED tdr_pending

\* schedule_delayed_work on the head of the mirror list l.
ArmHead(l) ==
    tdr_pending' = IF FiniteTimeout /\ l # <<>>
                   THEN tdr_pending \cup {Head(l)}
                   ELSE tdr_pending

-----------------------------------------------------------------------------
(* Submitting threads: amd_sched_job_init, amd_sched_entity_push_job.       *)

\* The fences a job depends on exist, and a fence of its own entity belongs
\* to a job that has been pushed: submissions to an entity are serialized by
\* the reservation of the buffers they share.
DependenciesExist(j) ==
    \A k \in Job : (Scheduled(k) \in JobDeps[j] \/ Finished(k) \in JobDeps[j])
        => IF JobEntity[k] = JobEntity[j] THEN push[k] = "done" ELSE push[k] # "new"

amd_sched_job_init(j) ==
    /\ push[j] = "new"
    /\ fini[JobEntity[j]] = "live"
    /\ DependenciesExist(j)
    /\ push' = [push EXCEPT ![j] = "in"]
    /\ UNCHANGED <<fini, entityVars, rqVars, wake_up_worker, job_scheduled,
                   workerVars, hwVars, fenceVars, listVars, stopVars>>

\* The condition of wait_event in amd_sched_entity_push_job: it stores the job
\* if the kfifo has room, or leaves the thread on the wait queue.
amd_sched_entity_in(j) ==
    LET e == JobEntity[j] IN
    /\ push[j] = "in"
    /\ j \notin job_scheduled
    /\ \/ /\ kfifo_has_room(e)
          /\ job_queue' = [job_queue EXCEPT ![e] = Append(@, j)]
          /\ push' = [push EXCEPT ![j] =
                        IF Len(job_queue'[e]) = 1 THEN "add" ELSE "done"]
          /\ UNCHANGED job_scheduled
       \/ /\ ~kfifo_has_room(e)
          /\ job_scheduled' = job_scheduled \cup {j}
          /\ UNCHANGED <<job_queue, push>>
    /\ UNCHANGED <<fini, dependency, sync, rqVars, wake_up_worker,
                   workerVars, hwVars, fenceVars, listVars, stopVars>>

skip_wakeup_if_on_rq(j) ==
    /\ push[j] = "add"
    /\ push' = [push EXCEPT ![j] = IF OnRq(JobEntity[j]) THEN "done" ELSE "link"]
    /\ UNCHANGED <<fini, entityVars, rqVars, wake_up_worker, job_scheduled,
                   workerVars, hwVars, fenceVars, listVars, stopVars>>

\* amd_sched_rq_add_entity tests list_empty without the lock ...
rq_add_entity_test(j) ==
    /\ push[j] = "add"
    /\ push' = [push EXCEPT ![j] = IF OnRq(JobEntity[j]) THEN "wake" ELSE "link"]
    /\ UNCHANGED <<fini, entityVars, rqVars, wake_up_worker, job_scheduled,
                   workerVars, hwVars, fenceVars, listVars, stopVars>>

\* ... and links the entity with it.
rq_add_entity_link(j) ==
    /\ push[j] = "link"
    /\ rq' = [rq EXCEPT ![RqOf(JobEntity[j])] = Append(@, JobEntity[j])]
    /\ push' = [push EXCEPT ![j] = "wake"]
    /\ UNCHANGED <<fini, entityVars, current_entity, wake_up_worker,
                   job_scheduled, workerVars, hwVars, fenceVars, listVars, stopVars>>

push_job_wakeup(j) ==
    /\ push[j] = "wake"
    /\ amd_sched_wakeup
    /\ push' = [push EXCEPT ![j] = "done"]
    /\ UNCHANGED <<fini, entityVars, rqVars, job_scheduled,
                   workerVars, hwVars, fenceVars, listVars, stopVars>>

-----------------------------------------------------------------------------
(* Teardown: amd_sched_entity_fini, amd_sched_fini.                         *)

\* "The client will not queue more IBs during this fini."
entity_fini_start(e) ==
    /\ fini[e] = "live"
    /\ \A j \in Job : JobEntity[j] = e => push[j] \in {"new", "done"}
    /\ fini' = [fini EXCEPT ![e] = "wait"]
    /\ UNCHANGED <<push, entityVars, rqVars, wake_up_worker, job_scheduled,
                   workerVars, hwVars, fenceVars, listVars, stopVars>>

entity_fini_wait(e) ==
    /\ fini[e] = "wait"
    /\ e \notin job_scheduled
    /\ IF amd_sched_entity_is_idle(e)
       THEN fini' = [fini EXCEPT ![e] = "remove"] /\ UNCHANGED job_scheduled
       ELSE job_scheduled' = job_scheduled \cup {e} /\ UNCHANGED fini
    /\ UNCHANGED <<push, entityVars, rqVars, wake_up_worker,
                   workerVars, hwVars, fenceVars, listVars, stopVars>>

remove_keeps_current(e) ==
    /\ fini[e] = "remove"
    /\ fini' = [fini EXCEPT ![e] = "gone"]
    /\ rq' = [rq EXCEPT ![RqOf(e)] = list_del_init(@, e)]
    /\ UNCHANGED <<push, entityVars, current_entity, wake_up_worker, job_scheduled,
                   workerVars, hwVars, fenceVars, listVars, stopVars>>

amd_sched_rq_remove_entity(e) ==
    /\ fini[e] = "remove"
    /\ fini' = [fini EXCEPT ![e] = "gone"]
    /\ rq' = [rq EXCEPT ![RqOf(e)] = list_del_init(@, e)]
    /\ current_entity' = [current_entity EXCEPT
                            ![RqOf(e)] = IF @ = e THEN None ELSE @]
    /\ UNCHANGED <<push, entityVars, wake_up_worker, job_scheduled,
                   workerVars, hwVars, fenceVars, listVars, stopVars>>

fini_without_wakeup ==
    /\ ~should_stop
    /\ \A e \in Entity : fini[e] = "gone"
    /\ should_stop' = TRUE
    /\ UNCHANGED <<clientVars, entityVars, rqVars, wake_up_worker, job_scheduled,
                   workerVars, hwVars, fenceVars, listVars, parks, should_park>>

\* kthread_stop, once the driver has destroyed every entity of the ring.
amd_sched_fini ==
    /\ ~should_stop
    /\ \A e \in Entity : fini[e] = "gone"
    /\ should_stop' = TRUE
    /\ wake_up_worker' = FALSE
    /\ UNCHANGED <<clientVars, entityVars, rqVars, job_scheduled,
                   workerVars, hwVars, fenceVars, listVars, parks, should_park>>

-----------------------------------------------------------------------------
(* The kernel thread: amd_sched_main.                                       *)

\* Loop head and first half of wait_event_interruptible: queue the thread,
\* then park if asked to (amd_sched_blocked).
main_wait ==
    /\ wpc = "wait"
    /\ wpc' = IF should_stop THEN "exited" ELSE IF should_park THEN "parked" ELSE "select"
    /\ wake_up_worker' = (wpc' = "select")
    /\ UNCHANGED <<clientVars, entityVars, rqVars, job_scheduled, wentity, wjob,
                   hwVars, fenceVars, listVars, stopVars>>

\* kthread_parkme returns after kthread_unpark; amd_sched_blocked is TRUE, so
\* the wait starts over.
main_unparked ==
    /\ wpc = "parked"
    /\ ~should_park
    /\ wpc' = "wait"
    /\ UNCHANGED <<clientVars, entityVars, rqVars, wake_up_worker, job_scheduled,
                   wentity, wjob, hwVars, fenceVars, listVars, stopVars>>

\* Positions of the ready entities of run queue p, and of its current one.
ReadyAt(p) == {i \in DOMAIN rq[p] : amd_sched_entity_is_ready(rq[p][i])}

CurrentAt(p) == {i \in DOMAIN rq[p] : rq[p][i] = current_entity[p]}

\* amd_sched_rq_select_entity: the first ready entity after the current one,
\* else the first ready one; the empty set stands for NULL.
amd_sched_rq_select_entity(p) ==
    LET later == {i \in ReadyAt(p) : \A c \in CurrentAt(p) : c < i}
        from  == IF later # {} THEN later ELSE ReadyAt(p)
    IN  {rq[p][i] : i \in {k \in from : \A m \in from : k <= m}}

peek_newest(p, e) ==
    /\ current_entity' = [current_entity EXCEPT ![p] = e]
    /\ wentity' = e
    /\ wjob' = job_queue[e][Len(job_queue[e])]
    /\ wpc' = "pop"
    /\ wake_up_worker' = FALSE

\* The worker found entity e on run queue p: finish_wait, then peek the job.
Selected(p, e) ==
    /\ current_entity' = [current_entity EXCEPT ![p] = e]
    /\ wentity' = e
    /\ wjob' = Head(job_queue[e])
    /\ wpc' = "pop"
    /\ wake_up_worker' = FALSE

NotSelected(pc) ==
    /\ wpc' = pc
    /\ UNCHANGED <<current_entity, wentity, wjob, wake_up_worker>>

\* amd_sched_select_entity: nothing if the ring is full, else the KERNEL run
\* queue ...
main_select ==
    /\ wpc = "select"
    /\ \/ ~amd_sched_ready /\ NotSelected("sleep")
       \/ /\ amd_sched_ready
          /\ \/ ReadyAt("KERNEL") = {} /\ NotSelected("select_normal")
             \/ \E e \in amd_sched_rq_select_entity("KERNEL") : Selected("KERNEL", e)
    /\ UNCHANGED <<clientVars, entityVars, rq, job_scheduled,
                   hwVars, fenceVars, listVars, stopVars>>

\* ... before the NORMAL one.
main_select_normal ==
    /\ wpc = "select_normal"
    /\ \/ ReadyAt("NORMAL") = {} /\ NotSelected("sleep")
       \/ \E e \in amd_sched_rq_select_entity("NORMAL") : Selected("NORMAL", e)
    /\ UNCHANGED <<clientVars, entityVars, rq, job_scheduled,
                   hwVars, fenceVars, listVars, stopVars>>

main_sleep ==
    /\ wpc = "sleep"
    /\ ~wake_up_worker
    /\ wpc' = "wait"
    /\ UNCHANGED <<clientVars, entityVars, rqVars, wake_up_worker, job_scheduled,
                   wentity, wjob, hwVars, fenceVars, listVars, stopVars>>

\* entity and sched_job are local to one iteration of the loop.
LoopLocals ==
    /\ wentity' = IF wpc' = "wait" THEN None ELSE wentity
    /\ wjob' = IF wpc' = "wait" THEN None ELSE wjob

wait_if_scheduled(e, f) ==
    CASE f[1] = "foreign"                          -> f
      [] f[1] = "scheduled" /\ JobEntity[f[2]] = e -> None
      [] OTHER -> IF Scheduled(f[2]) \in signaled THEN Scheduled(f[2]) ELSE None

\* amd_sched_entity_add_dependency_cb: the fence to wait for on behalf of f, or
\* None when there is nothing to wait for.
amd_sched_entity_add_dependency_cb(e, f) ==
    CASE f[1] = "foreign"                          -> f
      [] f[1] = "scheduled" /\ JobEntity[f[2]] = e -> None
      [] OTHER -> IF Scheduled(f[2]) \in signaled THEN None ELSE Scheduled(f[2])

\* The fences of which amdgpu_job_dependency returns one: those left in the job's
\* sync objects, to which amdgpu_vm_grab_id may have added, that are not signaled.
amdgpu_job_dependency(j) == sync[j] \ signaled

\* One iteration of amd_sched_entity_pop_job: take the next fence the job depends
\* on and wait for it, or find none left.
amd_sched_entity_pop_job ==
    /\ wpc = "pop"
    /\ \/ /\ amdgpu_job_dependency(wjob) = {}
          /\ sync' = [sync EXCEPT ![wjob] = {}]
          /\ dependency' = [dependency EXCEPT ![wentity] = None]
          /\ wpc' = "begin"
       \/ \E f \in amdgpu_job_dependency(wjob) :
            LET d == amd_sched_entity_add_dependency_cb(wentity, f) IN
            /\ sync' = [sync EXCEPT ![wjob] = amdgpu_job_dependency(wjob) \ {f}]
            /\ dependency' = [dependency EXCEPT ![wentity] = d]
            /\ wpc' = IF d = None THEN "pop" ELSE "wait"
    /\ LoopLocals
    /\ UNCHANGED <<clientVars, job_queue, rqVars, wake_up_worker, job_scheduled,
                   hwVars, fenceVars, listVars, stopVars>>

begin_arms_every_job ==
    /\ wpc = "begin"
    /\ hw_rq_count' = hw_rq_count + 1
    /\ ring_mirror_list' = Append(ring_mirror_list, wjob)
    /\ tdr_pending' = IF FiniteTimeout THEN tdr_pending \cup {wjob} ELSE tdr_pending
    /\ wpc' = "run"
    /\ UNCHANGED <<clientVars, entityVars, rqVars, wake_up_worker, job_scheduled,
                   wentity, wjob, hw_ring, hw_fence, process, fenceVars,
                   tdr_running, tdr_expired, finish, stopVars>>

\* atomic_inc(&hw_rq_count) and amd_sched_job_begin.
amd_sched_job_begin ==
    /\ wpc = "begin"
    /\ hw_rq_count' = hw_rq_count + 1
    /\ ring_mirror_list' = Append(ring_mirror_list, wjob)
    /\ tdr_pending' = IF FiniteTimeout /\ Head(ring_mirror_list') = wjob
                      THEN tdr_pending \cup {wjob} ELSE tdr_pending
    /\ wpc' = "run"
    /\ UNCHANGED <<clientVars, entityVars, rqVars, wake_up_worker, job_scheduled,
                   wentity, wjob, hw_ring, hw_fence, process, fenceVars,
                   tdr_running, tdr_expired, finish, stopVars>>

\* amdgpu_job_run: the job goes on the hardware ring, or scheduling its IBs
\* fails and there is no fence.
RunJob(j) ==
    \/ /\ hw_ring' = Append(hw_ring, j)
       /\ hw_fence' = [hw_fence EXCEPT ![j] = "emitted"]
    \/ /\ hw_fence' = [hw_fence EXCEPT ![j] = "failed"]
       /\ UNCHANGED hw_ring

main_run_job ==
    /\ wpc = "run"
    /\ RunJob(wjob)
    /\ wpc' = "scheduled"
    /\ UNCHANGED <<clientVars, entityVars, rqVars, wake_up_worker, job_scheduled,
                   wentity, wjob, hw_rq_count, process, fenceVars, listVars, stopVars>>

\* amd_sched_fence_scheduled: the callback amd_sched_entity_clear_dep of every
\* entity that waits for this fence runs in the worker.
amd_sched_fence_scheduled ==
    /\ wpc = "scheduled"
    /\ signaled' = signaled \cup {Scheduled(wjob)}
    /\ dependency' = [e \in Entity |-> IF dependency[e] = Scheduled(wjob)
                                       THEN None ELSE dependency[e]]
    /\ wpc' = "attach"
    /\ UNCHANGED <<clientVars, job_queue, sync, rqVars, wake_up_worker, job_scheduled,
                   wentity, wjob, hwVars, depwake, listVars, stopVars>>

\* amd_sched_process_job begins for job j: atomic_dec(&hw_rq_count).
ProcessJob(j) ==
    /\ hw_rq_count' = hw_rq_count - 1
    /\ process' = [process EXCEPT ![j] = "finish"]

\* dma_fence_add_callback on the hardware fence of job j; when it is signaled
\* already, or there is none, the caller runs amd_sched_process_job itself.
AttachFence(j) ==
    \/ /\ hw_fence[j] = "emitted"
       /\ hw_fence' = [hw_fence EXCEPT ![j] = "attached"]
       /\ UNCHANGED <<hw_rq_count, process>>
    \/ /\ hw_fence[j] \in {"signaled", "failed"}
       /\ ProcessJob(j)
       /\ UNCHANGED hw_fence

main_attach ==
    /\ wpc = "attach"
    /\ AttachFence(wjob)
    /\ wpc' = IF hw_fence[wjob] = "emitted" THEN "out" ELSE "process"
    /\ UNCHANGED <<clientVars, entityVars, rqVars, wake_up_worker, job_scheduled,
                   wentity, wjob, hw_ring, fenceVars, listVars, stopVars>>

\* kfifo_out, after amd_sched_process_job has returned if the worker called it.
main_kfifo_out ==
    /\ wpc = "out" \/ (wpc = "process" /\ process[wjob] = "done")
    /\ job_queue' = [job_queue EXCEPT ![wentity] = Tail(@)]
    /\ wpc' = "wakeup"
    /\ UNCHANGED <<clientVars, dependency, sync, rqVars, wake_up_worker, job_scheduled,
                   wentity, wjob, hwVars, fenceVars, listVars, stopVars>>

wake_nobody ==
    /\ wpc = "wakeup"
    /\ wpc' = "wait"
    /\ LoopLocals
    /\ UNCHANGED <<clientVars, entityVars, rqVars, wake_up_worker, job_scheduled, hwVars,
                   fenceVars, listVars, stopVars>>

\* wake_up(&sched->job_scheduled)
main_wake_up ==
    /\ wpc = "wakeup"
    /\ job_scheduled' = {}
    /\ wpc' = "wait"
    /\ LoopLocals
    /\ UNCHANGED <<clientVars, entityVars, rqVars, wake_up_worker, hwVars, fenceVars, listVars, stopVars>>

-----------------------------------------------------------------------------
(* The hardware, fence callbacks and fences of other rings.                 *)

\* The ring executes its jobs in order and signals the fence of the oldest; its
\* callback, if attached, is amd_sched_process_job.
HwExecute ==
    /\ hw_ring # <<>>
    /\ hw_ring' = Tail(hw_ring)
    /\ LET j == Head(hw_ring) IN
       \/ /\ hw_fence[j] = "attached"
          /\ hw_fence' = [hw_fence EXCEPT ![j] = "signaled"]
          /\ ProcessJob(j)
       \/ /\ hw_fence[j] = "emitted"
          /\ hw_fence' = [hw_fence EXCEPT ![j] = "signaled"]
          /\ UNCHANGED <<hw_rq_count, process>>
    /\ UNCHANGED <<clientVars, entityVars, rqVars, wake_up_worker, job_scheduled,
                   workerVars, fenceVars, listVars, stopVars>>

\* amd_sched_fence_finished; its callback amd_sched_job_finish_cb schedules
\* the job's finish_work.
amd_sched_fence_finished(j) ==
    /\ process[j] = "finish"
    /\ process' = [process EXCEPT ![j] = "wakeup"]
    /\ signaled' = signaled \cup {Finished(j)}
    /\ finish' = [finish EXCEPT ![j] = IF Finished(j) \in signaled THEN @ ELSE "queued"]
    /\ UNCHANGED <<clientVars, entityVars, rqVars, wake_up_worker, job_scheduled,
                   workerVars, hw_rq_count, hw_ring, hw_fence, depwake, ring_mirror_list,
                   tdr_pending, tdr_running, tdr_expired, stopVars>>

\* The end of amd_sched_process_job: wake_up_interruptible(&wake_up_worker).
process_job_wakeup(j) ==
    /\ process[j] = "wakeup"
    /\ process' = [process EXCEPT ![j] = "done"]
    /\ wake_up_worker' = FALSE
    /\ UNCHANGED <<clientVars, entityVars, rqVars, job_scheduled, workerVars,
                   hw_rq_count, hw_ring, hw_fence, fenceVars, listVars, stopVars>>

\* Somebody signals a fence this ring does not own; the first half of the
\* callback amd_sched_entity_wakeup clears the dependency.
ForeignSignal(x) ==
    /\ ForeignFence(x) \notin signaled
    /\ signaled' = signaled \cup {ForeignFence(x)}
    /\ dependency' = [e \in Entity |-> IF dependency[e] = ForeignFence(x)
                                       THEN None ELSE dependency[e]]
    /\ depwake' = depwake \cup {e \in Entity : dependency[e] = ForeignFence(x)}
    /\ UNCHANGED <<clientVars, job_queue, sync, rqVars, wake_up_worker, job_scheduled,
                   workerVars, hwVars, listVars, stopVars>>

clear_without_wakeup(e) ==
    /\ e \in depwake
    /\ depwake' = depwake \ {e}
    /\ UNCHANGED <<clientVars, entityVars, rqVars, wake_up_worker, job_scheduled, workerVars,
                   hwVars, signaled, listVars, stopVars>>

\* Its second half calls amd_sched_wakeup.
amd_sched_entity_wakeup(e) ==
    /\ e \in depwake
    /\ depwake' = depwake \ {e}
    /\ amd_sched_wakeup
    /\ UNCHANGED <<clientVars, entityVars, rqVars, job_scheduled, workerVars,
                   hwVars, signaled, listVars, stopVars>>

-----------------------------------------------------------------------------
(* Work items: amd_sched_job_finish and amd_sched_job_timedout.             *)

finish_without_del(j) ==
    /\ finish[j] = "queued"
    /\ finish' = [finish EXCEPT ![j] = IF FiniteTimeout THEN "deleted" ELSE "freed"]
    /\ UNCHANGED <<clientVars, entityVars, rqVars, wake_up_worker, job_scheduled, workerVars,
                   hwVars, fenceVars, ring_mirror_list, tdr_pending, tdr_running, tdr_expired,
                   stopVars>>

\* amd_sched_job_finish takes the job off the mirror list (and frees it, when
\* there are no timeouts) ...
job_finish_del(j) ==
    /\ finish[j] = "queued"
    /\ ring_mirror_list' = list_del_init(ring_mirror_list, j)
    /\ finish' = [finish EXCEPT ![j] = IF FiniteTimeout THEN "deleted" ELSE "freed"]
    /\ UNCHANGED <<clientVars, entityVars, rqVars, wake_up_worker, job_scheduled, workerVars,
                   hwVars, fenceVars, tdr_pending, tdr_running, tdr_expired, stopVars>>

\* ... cancels its timeout ...
job_finish_cancel(j) ==
    /\ finish[j] = "deleted"
    /\ tdr_pending' = tdr_pending \ {j}
    /\ finish' = [finish EXCEPT ![j] = "cancel"]
    /\ UNCHANGED <<clientVars, entityVars, rqVars, wake_up_worker, job_scheduled, workerVars,
                   hwVars, fenceVars, ring_mirror_list, tdr_running, tdr_expired, stopVars>>

arm_without_sync(j) ==
    /\ finish[j] = "cancel"
    /\ ArmHead(ring_mirror_list)
    /\ finish' = [finish EXCEPT ![j] = "freed"]
    /\ UNCHANGED <<clientVars, entityVars, rqVars, wake_up_worker, job_scheduled, workerVars,
                   hwVars, fenceVars, ring_mirror_list, tdr_running, tdr_expired, stopVars>>

\* ... waits until the timeout handler is not running, starts the timeout of the
\* job that is now first, and frees the job (amdgpu_job_free_cb).
job_finish_arm(j) ==
    /\ finish[j] = "cancel"
    /\ j \notin tdr_running
    /\ ArmHead(ring_mirror_list)
    /\ finish' = [finish EXCEPT ![j] = "freed"]
    /\ UNCHANGED <<clientVars, entityVars, rqVars, wake_up_worker, job_scheduled, workerVars,
                   hwVars, fenceVars, ring_mirror_list, tdr_running, tdr_expired, stopVars>>

\* The delay of work_tdr has passed: amd_sched_job_timedout starts.
TdrExpire(j) ==
    /\ j \in tdr_pending
    /\ j \notin tdr_running
    /\ tdr_pending' = tdr_pending \ {j}
    /\ tdr_running' = tdr_running \cup {j}
    /\ UNCHANGED <<clientVars, entityVars, rqVars, wake_up_worker, job_scheduled, workerVars,
                   hwVars, fenceVars, ring_mirror_list, tdr_expired, finish, stopVars>>

\* amdgpu_job_timedout finds no hang (amdgpu_gpu_reset returns at once).
TdrNoHang(j) ==
    /\ j \in tdr_running
    /\ tdr_running' = tdr_running \ {j}
    /\ tdr_expired' = tdr_expired \cup {j}
    /\ UNCHANGED <<clientVars, entityVars, rqVars, wake_up_worker, job_scheduled, workerVars,
                   hwVars, fenceVars, ring_mirror_list, tdr_pending, finish, stopVars>>

-----------------------------------------------------------------------------
(* amdgpu_debugfs_test_ib parks the thread for its ring tests.              *)

kthread_park ==
    /\ parks < MaxParks
    /\ ~should_park
    /\ ~should_stop
    /\ parks' = parks + 1
    /\ should_park' = TRUE
    /\ wake_up_worker' = FALSE
    /\ UNCHANGED <<clientVars, entityVars, rqVars, job_scheduled, workerVars,
                   hwVars, fenceVars, listVars, should_stop>>

\* kthread_park has returned, the tests have run.
kthread_unpark ==
    /\ should_park
    /\ wpc = "parked"
    /\ should_park' = FALSE
    /\ UNCHANGED <<clientVars, entityVars, rqVars, wake_up_worker, job_scheduled,
                   workerVars, hwVars, fenceVars, listVars, parks, should_stop>>

-----------------------------------------------------------------------------
push_job_step(j) ==
    amd_sched_entity_in(j) \/ rq_add_entity_test(j) \/ rq_add_entity_link(j) \/ push_job_wakeup(j)

entity_fini_step(e) == entity_fini_wait(e) \/ amd_sched_rq_remove_entity(e)

amd_sched_main ==
    \/ main_wait \/ main_unparked \/ main_select \/ main_select_normal \/ main_sleep
    \/ amd_sched_entity_pop_job \/ amd_sched_job_begin \/ main_run_job
    \/ amd_sched_fence_scheduled \/ main_attach \/ main_kfifo_out \/ main_wake_up

amd_sched_process_job(j) == amd_sched_fence_finished(j) \/ process_job_wakeup(j)

amd_sched_job_finish(j) ==
    job_finish_del(j) \/ job_finish_cancel(j) \/ job_finish_arm(j)

\* Every entity is destroyed, the thread has exited and the work is done.
Terminated ==
    /\ wpc = "exited"
    /\ \A j \in Job : push[j] = "new" \/ finish[j] = "freed"
    /\ UNCHANGED vars

\* The scheduler's own steps, whatever the hardware and the timeouts do.
SchedulerStep ==
    \/ \E j \in Job : \/ amd_sched_job_init(j)
                      \/ push_job_step(j)
                      \/ amd_sched_process_job(j)
                      \/ amd_sched_job_finish(j)
    \/ \E e \in Entity : \/ entity_fini_start(e)
                         \/ entity_fini_step(e)
                         \/ amd_sched_entity_wakeup(e)
    \/ \E x \in Foreign : ForeignSignal(x)
    \/ amd_sched_main
    \/ amd_sched_fini

Next ==
    \/ SchedulerStep
    \/ HwExecute
    \/ \E j \in Job : TdrExpire(j) \/ TdrNoHang(j)
    \/ kthread_park
    \/ kthread_unpark
    \/ Terminated

Spec == Init /\ [][Next]_vars

\* Threads, work items and callbacks that can run do run, and other rings signal
\* their fences: of the steps of a kind that are ready, some one is taken.  That is
\* enough because a job or an entity takes finitely many of each.  Nothing says that
\* a client ever submits a job, tears an entity down or parks the thread.
SchedulerFairness ==
    /\ WF_vars(\E j \in Job : push_job_step(j))
    /\ WF_vars(\E j \in Job : amd_sched_process_job(j))
    /\ WF_vars(\E j \in Job : amd_sched_job_finish(j))
    /\ WF_vars(\E e \in Entity : entity_fini_step(e))
    /\ WF_vars(\E e \in Entity : amd_sched_entity_wakeup(e))
    /\ WF_vars(\E x \in Foreign : ForeignSignal(x))
    /\ WF_vars(amd_sched_main)

\* The hardware does not hang, and whoever parked the thread unparks it.
Fairness ==
    /\ SchedulerFairness
    /\ \A j \in Job : WF_vars(TdrNoHang(j))
    /\ WF_vars(HwExecute)
    /\ WF_vars(kthread_unpark)

FairSpec == Spec /\ Fairness

-----------------------------------------------------------------------------
(* Properties.                                                             *)

ClientTypes ==
    /\ push \in [Job -> {"new", "in", "add", "link", "wake", "done"}]
    /\ fini \in [Entity -> {"live", "wait", "remove", "gone"}]

EntityTypes ==
    /\ job_queue \in [Entity -> Seq(Job)]
    /\ \A e \in Entity : Len(job_queue[e]) <= QueueSize
    /\ dependency \in [Entity -> Fence \cup {None}]
    /\ sync \in [Job -> SUBSET Fence]

RqTypes ==
    /\ rq \in [Priority -> Seq(Entity)]
    /\ current_entity \in [Priority -> Entity \cup {None}]

SleepTypes ==
    /\ wake_up_worker \in BOOLEAN
    /\ job_scheduled \subseteq Job \cup Entity

WorkerTypes ==
    /\ wpc \in {"wait", "parked", "exited", "select", "select_normal", "sleep", "pop",
                "begin", "run", "scheduled", "attach", "process", "out", "wakeup"}
    /\ wentity \in Entity \cup {None}
    /\ wjob \in Job \cup {None}

HwTypes ==
    /\ hw_rq_count \in Int
    /\ hw_ring \in Seq(Job)
    /\ hw_fence \in [Job -> {"none", "emitted", "attached", "signaled", "failed"}]
    /\ process \in [Job -> {"none", "finish", "wakeup", "done"}]

FenceTypes ==
    /\ signaled \subseteq Fence
    /\ depwake \subseteq Entity

ListTypes ==
    /\ ring_mirror_list \in Seq(Job)
    /\ tdr_pending \subseteq Job
    /\ tdr_running \subseteq Job
    /\ tdr_expired \subseteq Job
    /\ finish \in [Job -> {"none", "queued", "deleted", "cancel", "freed"}]

StopTypes ==
    /\ parks \in 0..MaxParks
    /\ should_park \in BOOLEAN
    /\ should_stop \in BOOLEAN

\* Every variable keeps to the values the code gives it; a kfifo never holds more
\* than its capacity.
TypeOK ==
    /\ ClientTypes
    /\ EntityTypes
    /\ RqTypes
    /\ SleepTypes
    /\ WorkerTypes
    /\ HwTypes
    /\ FenceTypes
    /\ ListTypes
    /\ StopTypes

\* Jobs between amd_sched_job_begin and the amd_sched_process_job that ends them.
InFlight ==
    {j \in Job : \/ j = wjob /\ wpc \in {"run", "scheduled", "attach"}
                 \/ hw_fence[j] = "attached"}

\* hw_rq_count is the number of jobs in flight, and the worker never hands the
\* ring more than hw_submission_limit of them: the atomic counter that the
\* worker increments and fence callbacks decrement concurrently never drifts.
HwCountExact ==
    /\ hw_rq_count = Cardinality(InFlight)
    /\ hw_rq_count <= HwLimit

\* Somebody is on the way to wake the worker.
WakePending ==
    \/ \E j \in Job : push[j] \in {"add", "link", "wake"} \/ process[j] \in {"finish", "wakeup"}
    \/ depwake # {}

\* The worker sleeps with a job to run only while a wake-up is on its way: the
\* condition of wait_event is tested after queuing, and whoever makes it true
\* wakes the worker afterwards, although amd_sched_wakeup skips the wake-up
\* when the ring is full.
NoLostWakeup ==
    (wpc = "sleep" /\ wake_up_worker /\ ~WakePending)
        => ~(amd_sched_ready /\ \E e \in Entity : amd_sched_entity_is_ready(e))

\* A thread that waits for room in a kfifo, or for a kfifo to drain, sleeps only
\* while that is so or the worker is about to wake it.
NoLostJobScheduled ==
    wpc # "wakeup" => \A w \in job_scheduled :
        IF w \in Job THEN Len(job_queue[JobEntity[w]]) = QueueSize
                     ELSE ~amd_sched_entity_is_idle(w)

\* An entity with work is on its run queue, or the thread that pushed the first
\* job is about to link it; it is there once, although the test for it in
\* amd_sched_rq_add_entity is made without the lock; and an entity that was
\* destroyed is neither on the queue, nor current, nor in the worker's hands.
EntityOnRq ==
    \A e \in Entity :
        /\ Cardinality({i \in DOMAIN rq[RqOf(e)] : rq[RqOf(e)][i] = e}) <= 1
        /\ job_queue[e] # <<>> =>
              OnRq(e) \/ \E j \in Job : JobEntity[j] = e /\ push[j] \in {"add", "link"}
        /\ fini[e] = "gone" => /\ ~OnRq(e)
                               /\ current_entity[RqOf(e)] # e
                               /\ wentity = e => wpc = "wakeup"
                               /\ dependency[e] = None

\* Where amd_sched_main still dereferences sched_job.
WorkerUses(j) == wjob = j /\ wpc \in {"pop", "begin", "run", "scheduled", "attach", "process"}

\* A job that amd_sched_job_finish has freed is on no list, its timeout neither
\* runs nor will, the ring does not hold it, and the worker is done with it;
\* its stale pointer may only be the head of the kfifo the worker is about to
\* remove it from.
FreedJobUnreachable ==
    \A j \in Job : finish[j] = "freed" =>
        /\ ~InList(ring_mirror_list, j)
        /\ j \notin tdr_pending \cup tdr_running
        /\ ~InList(hw_ring, j)
        /\ WorkerUses(j) => wpc = "process" /\ process[j] \in {"wakeup", "done"}
        /\ \A e \in Entity : InList(job_queue[e], j) =>
              wentity = e /\ wpc \in {"process", "out"} /\ Head(job_queue[e]) = j

\* While jobs are on the mirror list the oldest has a timeout that is pending or
\* running, unless its timeout expired without a hang, or some finish_work that
\* has left the list is about to start it.
OldestJobTimed ==
    (FiniteTimeout /\ ring_mirror_list # <<>>) =>
        \/ Head(ring_mirror_list) \in tdr_pending \cup tdr_running \cup tdr_expired
        \/ \E j \in Job : finish[j] \in {"deleted", "cancel"}

\* A job is on the ring, or past it, only if every fence in its sync objects is
\* signaled, or belongs to a job handed to the same ring before: fences of the
\* same scheduler are waited for only until they are scheduled.
DependenciesRespected ==
    \A j \in Job : (hw_fence[j] # "none") =>
        \A f \in JobDeps[j] : IF f[1] = "foreign" THEN f \in signaled
                                                  ELSE Scheduled(f[2]) \in signaled

\* Every job that is submitted runs, and is freed.
EveryJobFreed == \A j \in Job : push[j] = "in" ~> finish[j] = "freed"

\* amd_sched_entity_fini returns.
FiniReturns == \A e \in Entity : fini[e] = "wait" ~> fini[e] = "gone"

\* amd_sched_fini stops the thread.
WorkerExits == should_stop ~> wpc = "exited"
=============================================================================
