------------------------- MODULE GpuSchedulerProofs -------------------------
(***************************************************************************)
(* How jobs go through the kfifos and the worker of GpuScheduler, for      *)
(* every set of entities and jobs, every dependency relation, queue size   *)
(* and hardware limit.                                                     *)
(***************************************************************************)
EXTENDS GpuSchedulerTypes

\* The provers of a leaf that names none, and the time each of them has.
USE ZenonT(20), SMTT(30)

\* A job has no hardware fence before the worker runs it, and the worker runs the
\* head of a kfifo, once.
RunOnce ==
    /\ \A j \in Job : push[j] \in {"new", "in"} => hw_fence[j] = "none"
    /\ \A e \in Entity : \A i \in 1..Len(job_queue[e]) :
          hw_fence[job_queue[e][i]] # "none" =>
              i = 1 /\ wentity = e /\ wpc \in {"scheduled", "attach", "process", "out"}
    /\ wpc \in {"scheduled", "attach"} => hw_fence[wjob] \in {"emitted", "signaled", "failed"}

\* The worker begins a job only after it saw room on the ring, and it alone adds
\* to the counter.
Limited ==
    /\ hw_rq_count <= HwLimit
    /\ wpc \in {"select_normal", "pop", "begin"} => hw_rq_count < HwLimit

LEMMA RunOnceStep ==
    ASSUME TypeInv, QueueDiscipline, RunOnce, [Next]_vars
    PROVE  RunOnce'
<1>0. /\ job_queue \in [Entity -> Seq(Job)]
      /\ push \in [Job -> {"new", "in", "add", "link", "wake", "done"}]
      /\ hw_fence \in [Job -> {"none", "emitted", "attached", "signaled", "failed"}]
      /\ JobEntity \in [Job -> Entity]
      /\ \A e \in Entity : \A i \in 1..Len(job_queue[e]) : job_queue[e][i] \in Job
  BY ConstantsAssumption, SMTT(30) DEF TypeInv, TypeOK, EntityTypes, ClientTypes, HwTypes
<1>1. ASSUME UNCHANGED <<job_queue, hw_fence, workerVars>>,
             \A j \in Job : push'[j] \in {"new", "in"} => push[j] \in {"new", "in"}
      PROVE  RunOnce'
  BY <1>0, <1>1 DEF RunOnce, workerVars
<1>2. ASSUME NEW j \in Job, amd_sched_job_init(j) PROVE RunOnce'
  BY <1>0, <1>1, <1>2 DEF amd_sched_job_init, entityVars, hwVars
<1>3. ASSUME NEW j \in Job, amd_sched_entity_in(j) PROVE RunOnce'
  <2>0. UNCHANGED <<hw_fence, workerVars>>
    BY <1>3 DEF amd_sched_entity_in, hwVars
  <2>1. CASE UNCHANGED <<job_queue, push>>
    BY <1>1, <2>0, <2>1
  <2> DEFINE e == JobEntity[j]
             q == job_queue[e]
  <2>2. CASE /\ push[j] = "in"
             /\ job_queue' = [job_queue EXCEPT ![e] = Append(q, j)]
             /\ push' \in {[push EXCEPT ![j] = "add"], [push EXCEPT ![j] = "done"]}
    <3>1. e \in Entity /\ q \in Seq(Job) /\ hw_fence[j] = "none"
      BY <1>0, <2>2 DEF RunOnce
    <3>2. \A k \in Job : push'[k] \in {"new", "in"} => push[k] \in {"new", "in"}
      BY <1>0, <2>2
    <3>3. ASSUME NEW d \in Entity, NEW i \in 1..Len(job_queue'[d]),
                 hw_fence[job_queue'[d][i]] # "none"
          PROVE  i \in 1..Len(job_queue[d]) /\ job_queue'[d][i] = job_queue[d][i]
      <4>1. CASE d # e
        BY <1>0, <2>2, <3>3, <4>1
      <4>2. CASE d = e
        <5>1. job_queue'[d] = Append(q, j)
          BY <1>0, <2>2, <3>1, <4>2
        <5>2. /\ Len(q) \in Nat
              /\ Len(Append(q, j)) = Len(q) + 1
              /\ \A k \in 1..Len(q) : Append(q, j)[k] = q[k]
              /\ Append(q, j)[Len(q) + 1] = j
          BY <3>1, AppendProps, SMTT(30)
        <5> HIDE DEF q
        <5>3. i \in 1..Len(q)
          BY <3>1, <3>3, <5>1, <5>2, SMTT(30)
        <5>4. QED
          BY <4>2, <5>1, <5>2, <5>3 DEF q
      <4>3. QED
        BY <4>1, <4>2
    <3>4. QED
      BY <2>0, <3>2, <3>3, SMTT(30) DEF RunOnce, workerVars
  <2>3. QED
    BY <1>3, <2>1, <2>2 DEF amd_sched_entity_in
<1>4. ASSUME NEW j \in Job,
             rq_add_entity_test(j) \/ rq_add_entity_link(j) \/ push_job_wakeup(j)
      PROVE  RunOnce'
  <2>1. /\ UNCHANGED <<job_queue, hw_fence, workerVars>>
        /\ \E pc \in {"wake", "link", "done"} : push' = [push EXCEPT ![j] = pc]
    BY <1>4 DEF rq_add_entity_test, rq_add_entity_link, push_job_wakeup, entityVars, hwVars
  <2>2. QED
    BY <1>0, <1>1, <2>1
\* The worker before it runs the job: no fence of a queued job exists.
<1>5. ASSUME wpc \notin {"scheduled", "attach", "process", "out"},
             wpc' \notin {"scheduled", "attach"},
             UNCHANGED <<push, job_queue, hw_fence>>
      PROVE  RunOnce'
  BY <1>0, <1>5, SMTT(30) DEF RunOnce
<1>6. CASE \/ main_wait \/ main_unparked \/ main_select \/ main_select_normal \/ main_sleep
           \/ amd_sched_entity_pop_job \/ amd_sched_job_begin \/ main_wake_up
  <2>1. UNCHANGED <<push, job_queue, hw_fence>>
    BY <1>6 DEF main_wait, main_unparked, main_select, main_select_normal, main_sleep,
         amd_sched_entity_pop_job, amd_sched_job_begin, main_wake_up,
         clientVars, entityVars, hwVars
  <2>2. wpc \notin {"scheduled", "attach", "process", "out"} /\ wpc' \notin {"scheduled", "attach"}
    BY <1>6 DEF main_wait, main_unparked, main_select, main_select_normal, main_sleep,
         amd_sched_entity_pop_job, amd_sched_job_begin, main_wake_up, Selected, NotSelected
  <2>3. QED
    BY <1>5, <2>1, <2>2
<1>7. CASE main_run_job
  <2>1. /\ wpc = "run" /\ wpc' = "scheduled"
        /\ wentity \in Entity /\ wjob \in Job
        /\ Len(job_queue[wentity]) >= 1
        /\ job_queue[wentity][1] = wjob
        /\ UNCHANGED <<push, job_queue, wentity, wjob>>
    BY <1>0, <1>7 DEF main_run_job, clientVars, entityVars, TypeInv, WorkerHolds, Holding
  <2>2. \E v \in {"emitted", "failed"} : hw_fence' = [hw_fence EXCEPT ![wjob] = v]
    BY <1>7 DEF main_run_job, RunJob
  <2>3. push[wjob] \notin {"new", "in"}
    BY <2>1, SMTT(30) DEF QueueDiscipline
  <2>4. ASSUME NEW e \in Entity, NEW i \in 1..Len(job_queue[e]), job_queue[e][i] = wjob
        PROVE  e = wentity /\ i = 1
    BY <1>0, <2>1, <2>4, SMTT(30) DEF QueueDiscipline
  <2>5. QED
    BY <1>0, <2>1, <2>2, <2>3, <2>4, SMTT(30) DEF RunOnce
<1>8. CASE amd_sched_fence_scheduled \/ main_attach
  <2>1. /\ wpc \in {"scheduled", "attach"}
        /\ wpc = "scheduled" => wpc' = "attach" /\ UNCHANGED hw_fence
        /\ wpc = "attach" => wpc' \in {"process", "out"}
        /\ UNCHANGED <<push, job_queue, wentity, wjob>>
    BY <1>8 DEF amd_sched_fence_scheduled, main_attach, clientVars, entityVars, hwVars
  <2>2. wjob \in Job
    BY <2>1 DEF TypeInv, WorkerHolds, Holding
  <2>3. \/ UNCHANGED hw_fence
        \/ hw_fence[wjob] = "emitted" /\ hw_fence' = [hw_fence EXCEPT ![wjob] = "attached"]
    BY <1>8 DEF amd_sched_fence_scheduled, main_attach, AttachFence, hwVars
  <2>4. \A j \in Job : (hw_fence'[j] = "none") <=> (hw_fence[j] = "none")
    BY <1>0, <2>2, <2>3
  <2>5. QED
    BY <1>0, <2>1, <2>4, SMTT(30) DEF RunOnce
<1>9. CASE main_kfifo_out
  <2>1. /\ wpc \in {"out", "process"} /\ wpc' = "wakeup"
        /\ wentity \in Entity
        /\ Len(job_queue[wentity]) >= 1
        /\ job_queue' = [job_queue EXCEPT ![wentity] = Tail(@)]
        /\ UNCHANGED <<push, hw_fence>>
    BY <1>9 DEF main_kfifo_out, clientVars, hwVars, TypeInv, WorkerHolds, Holding
  <2> DEFINE q == job_queue[wentity]
  <2>2. /\ Len(q) \in Nat
        /\ Len(Tail(q)) = Len(q) - 1
        /\ \A i \in 1..Len(Tail(q)) : Tail(q)[i] = q[i + 1]
    BY <1>0, <2>1, TailProps, SMTT(30)
  <2>3. ASSUME NEW d \in Entity, NEW i \in 1..Len(job_queue'[d])
        PROVE  hw_fence[job_queue'[d][i]] = "none"
    <3>1. CASE d # wentity
      BY <1>0, <2>1, <3>1 DEF RunOnce
    <3>2. CASE d = wentity
      <4>1. job_queue'[d] = Tail(q)
        BY <1>0, <2>1, <3>2
      <4>2. \A k \in 1..Len(q) : hw_fence[q[k]] # "none" => k = 1
        BY <2>1 DEF RunOnce
      <4> HIDE DEF q
      <4>3. QED
        BY <2>2, <4>1, <4>2, SMTT(30)
    <3>3. QED
      BY <3>1, <3>2
  <2>4. QED
    BY <2>1, <2>3 DEF RunOnce
<1>10. CASE HwExecute
  <2>1. UNCHANGED <<push, job_queue, workerVars>>
    BY <1>10 DEF HwExecute, clientVars, entityVars
  <2>2. PICK j \in Job : /\ hw_fence[j] \in {"attached", "emitted"}
                         /\ hw_fence' = [hw_fence EXCEPT ![j] = "signaled"]
    <3>1. Head(hw_ring) \in Job
      BY <1>10, SMTT(30) DEF HwExecute, TypeInv, TypeOK, HwTypes
    <3>2. QED
      BY <1>10, <3>1 DEF HwExecute
  <2>3. wpc \in {"scheduled", "attach"} => wjob \in Job
    BY DEF TypeInv, WorkerHolds, Holding
  <2>4. /\ \A k \in Job : (hw_fence'[k] = "none") <=> (hw_fence[k] = "none")
        /\ \A k \in Job : hw_fence[k] \in {"emitted", "signaled", "failed"} =>
              hw_fence'[k] \in {"emitted", "signaled", "failed"}
    BY <1>0, <2>2
  <2>5. \A k \in Job : push[k] \in {"new", "in"} => hw_fence'[k] = "none"
    BY <2>4 DEF RunOnce
  <2>6. \A e \in Entity : \A i \in 1..Len(job_queue[e]) :
           hw_fence'[job_queue[e][i]] # "none" =>
               i = 1 /\ wentity = e /\ wpc \in {"scheduled", "attach", "process", "out"}
    <3>1. ASSUME NEW e \in Entity, NEW i \in 1..Len(job_queue[e]),
                 hw_fence'[job_queue[e][i]] # "none"
          PROVE  hw_fence[job_queue[e][i]] # "none"
      BY <1>0, <2>4, <3>1
    <3>2. QED
      BY <3>1 DEF RunOnce
  <2>7. wpc \in {"scheduled", "attach"} => hw_fence'[wjob] \in {"emitted", "signaled", "failed"}
    BY <2>3, <2>4 DEF RunOnce
  <2>8. QED
    BY <2>1, <2>5, <2>6, <2>7 DEF RunOnce, workerVars
<1>11. QED
  BY <1>1, <1>2, <1>3, <1>4, <1>6, <1>7, <1>8, <1>9, <1>10, HwFrame DEF amd_sched_main

LEMMA LimitedStep ==
    ASSUME TypeInv, Limited, [Next]_vars
    PROVE  Limited'
<1>0. hw_rq_count \in Int /\ HwLimit \in Nat
  BY ConstantsAssumption DEF TypeInv, TypeOK, HwTypes
<1>1. ASSUME hw_rq_count' \in {hw_rq_count, hw_rq_count - 1},
             wpc' \in {"select_normal", "pop", "begin"} =>
                 wpc \in {"select_normal", "pop", "begin"} \/ hw_rq_count < HwLimit
      PROVE  Limited'
  BY <1>0, <1>1, SMTT(30) DEF Limited
<1>2. ASSUME NEW j \in Job,
             \/ amd_sched_job_init(j) \/ amd_sched_entity_in(j) \/ rq_add_entity_test(j)
             \/ rq_add_entity_link(j) \/ push_job_wakeup(j)
      PROVE  Limited'
  <2>1. UNCHANGED <<hw_rq_count, wpc>>
    BY <1>2 DEF amd_sched_job_init, amd_sched_entity_in, rq_add_entity_test,
         rq_add_entity_link, push_job_wakeup, hwVars, workerVars
  <2>2. QED
    BY <1>1, <2>1
<1>3. CASE \/ main_wait \/ main_unparked \/ main_select_normal \/ main_sleep
           \/ amd_sched_entity_pop_job \/ main_run_job \/ amd_sched_fence_scheduled
           \/ main_kfifo_out \/ main_wake_up
  <2>1. UNCHANGED hw_rq_count
    BY <1>3 DEF main_wait, main_unparked, main_select_normal, main_sleep,
         amd_sched_entity_pop_job, main_run_job, amd_sched_fence_scheduled, main_kfifo_out,
         main_wake_up, hwVars
  <2>2. wpc' \in {"select_normal", "pop", "begin"} => wpc \in {"select_normal", "pop", "begin"}
    <3>1. CASE main_wait \/ main_unparked \/ main_sleep \/ main_run_job \/ main_wake_up
      BY <3>1 DEF main_wait, main_unparked, main_sleep, main_run_job, main_wake_up
    <3>2. CASE amd_sched_entity_pop_job \/ amd_sched_fence_scheduled \/ main_kfifo_out
      BY <3>2 DEF amd_sched_entity_pop_job, amd_sched_fence_scheduled, main_kfifo_out
    <3>3. CASE main_select_normal
      BY <3>3 DEF main_select_normal
    <3>4. QED
      BY <1>3, <3>1, <3>2, <3>3
  <2>3. QED
    BY <1>1, <2>1, <2>2
<1>4. CASE main_select
  <2>1. UNCHANGED hw_rq_count
    BY <1>4 DEF main_select, hwVars
  <2>2. wpc' = "sleep" \/ hw_rq_count < HwLimit
    BY <1>4 DEF main_select, NotSelected, amd_sched_ready
  <2>3. QED
    BY <1>1, <2>1, <2>2
<1>5. CASE amd_sched_job_begin
  BY <1>0, <1>5, SMTT(30) DEF amd_sched_job_begin, Limited
<1>6. CASE main_attach
  BY <1>1, <1>6 DEF main_attach, AttachFence, ProcessJob
<1>7. CASE HwExecute
  BY <1>1, <1>7 DEF HwExecute, ProcessJob, workerVars
<1>8. CASE UNCHANGED <<hw_rq_count, workerVars>>
  BY <1>1, <1>8 DEF workerVars
<1>9. QED
  BY <1>2, <1>3, <1>4, <1>5, <1>6, <1>7, <1>8, HwFrame DEF amd_sched_main

\* The steps that have to be looked at; the others change no more than the mirror
\* list, the timeouts and the work items, stop or park the worker, or wake it.
Quiet ==
    /\ UNCHANGED <<push, fini, job_queue, dependency, sync, rq, current_entity, wpc, wentity, wjob,
                   hw_rq_count, hw_fence, process, signaled, depwake>>
    /\ wake_up_worker' \in {wake_up_worker, FALSE}

LEMMA StepCases ==
    ASSUME [Next]_vars
    PROVE  \/ \E j \in Job : \/ amd_sched_job_init(j) \/ amd_sched_entity_in(j)
                             \/ rq_add_entity_test(j) \/ rq_add_entity_link(j)
                             \/ push_job_wakeup(j)
                             \/ amd_sched_fence_finished(j) \/ process_job_wakeup(j)
           \/ \E e \in Entity : \/ entity_fini_start(e) \/ entity_fini_wait(e)
                                \/ amd_sched_rq_remove_entity(e) \/ amd_sched_entity_wakeup(e)
           \/ \E x \in Foreign : ForeignSignal(x)
           \/ amd_sched_main
           \/ HwExecute
           \/ Quiet
<1> USE DEF Quiet, clientVars, entityVars, rqVars, workerVars, hwVars, fenceVars
<1>1. ASSUME NEW j \in Job, amd_sched_job_finish(j) PROVE Quiet
  BY <1>1 DEF amd_sched_job_finish, job_finish_del, job_finish_cancel, job_finish_arm
<1>2. ASSUME NEW j \in Job, TdrExpire(j) \/ TdrNoHang(j) PROVE Quiet
  BY <1>2 DEF TdrExpire, TdrNoHang
<1>3. CASE amd_sched_fini
  BY <1>3 DEF amd_sched_fini
<1>4. CASE kthread_park \/ kthread_unpark
  BY <1>4 DEF kthread_park, kthread_unpark
<1>5. CASE UNCHANGED vars
  BY <1>5 DEF vars
<1>6. QED
  BY <1>1, <1>2, <1>3, <1>4, <1>5
  DEF Next, SchedulerStep, push_job_step, amd_sched_process_job, entity_fini_step, Terminated

-----------------------------------------------------------------------------
(* The fences of the jobs, and the order of the kfifos.                    *)

\* Fences of a job are signaled in order, scheduled before finished, and finished once.
FenceOrder ==
    /\ \A j \in Job :
          /\ Finished(j) \in signaled => Scheduled(j) \in signaled
          /\ hw_fence[j] = "attached" \/ process[j] # "none" => Scheduled(j) \in signaled
          /\ process[j] \in {"none", "finish"} => Finished(j) \notin signaled
          /\ hw_fence[j] \in {"none", "emitted", "attached"} => process[j] = "none"
          /\ Scheduled(j) \in signaled => push[j] \notin {"new", "in"}
    /\ wpc \in {"attach", "process", "out"} => Scheduled(wjob) \in signaled
    /\ wpc \in {"scheduled", "attach"} => process[wjob] = "none"

\* A job that has been pushed waits in its kfifo until it is scheduled, and the
\* jobs of its own entity that it depends on are before it.
QueuedUntilScheduled ==
    /\ \A k \in Job : push[k] \notin {"new", "in"} =>
          Scheduled(k) \in signaled \/ InList(job_queue[JobEntity[k]], k)
    /\ \A j, k \in Job :
          (push[j] # "new" /\ JobEntity[k] = JobEntity[j] /\ Scheduled(k) \in JobDeps[j]) =>
              /\ push[k] = "done"
              /\ \/ Scheduled(k) \in signaled
                 \/ LET q == job_queue[JobEntity[j]] IN
                    \E i \in 1..Len(q) : q[i] = k /\ \A m \in 1..Len(q) : q[m] = j => i < m

\* The fences of the jobs and of other rings are all different.
LEMMA FenceNames ==
    /\ \A j, k : Scheduled(j) # Finished(k)
    /\ \A j, x : Scheduled(j) # ForeignFence(x) /\ Finished(j) # ForeignFence(x)
    /\ \A j, k : Scheduled(j) = Scheduled(k) => j = k
    /\ \A j, k : Finished(j) = Finished(k) => j = k
    /\ \A x, y : ForeignFence(x) = ForeignFence(y) => x = y
BY DEF Scheduled, Finished, ForeignFence

\* The fences of a job are signaled in order.
LEMMA FenceOrderStep ==
    ASSUME TypeInv, QueueDiscipline, RunOnce, FenceOrder, [Next]_vars
    PROVE  FenceOrder'
<1>0. /\ hw_fence \in [Job -> {"none", "emitted", "attached", "signaled", "failed"}]
      /\ process \in [Job -> {"none", "finish", "wakeup", "done"}]
      /\ push \in [Job -> {"new", "in", "add", "link", "wake", "done"}]
      /\ hw_ring \in Seq(Job)
  BY DEF TypeInv, TypeOK, HwTypes, ClientTypes
<1>a. wpc \in Holding => /\ wjob \in Job /\ wentity \in Entity
                         /\ 1 \in 1..Len(job_queue[wentity]) /\ job_queue[wentity][1] = wjob
  BY SMTT(30) DEF TypeInv, TypeOK, EntityTypes, WorkerHolds
<1> USE DEF clientVars, entityVars, rqVars, workerVars, hwVars, fenceVars
<1>b. ASSUME UNCHANGED <<hw_fence, process, signaled>>,
             \A j \in Job : push'[j] \in {"new", "in"} => push[j] \in {"new", "in"},
             \/ UNCHANGED <<wpc, wjob>>
             \/ wpc' \notin {"scheduled", "attach", "process", "out"}
      PROVE  FenceOrder'
  BY <1>b DEF FenceOrder
\* Submission and teardown.
<1>1. ASSUME NEW j \in Job, \/ amd_sched_job_init(j) \/ rq_add_entity_test(j)
                            \/ rq_add_entity_link(j) \/ push_job_wakeup(j)
      PROVE  FenceOrder'
  <2>1. UNCHANGED <<hw_fence, process, signaled, wpc, wjob>>
    BY <1>1 DEF amd_sched_job_init, rq_add_entity_test, rq_add_entity_link, push_job_wakeup
  <2>2. /\ \E pc \in {"in", "wake", "link", "done"} : push' = [push EXCEPT ![j] = pc]
        /\ push[j] = "new" \/ push'[j] # "in"
    BY <1>0, <1>1 DEF amd_sched_job_init, rq_add_entity_test, rq_add_entity_link, push_job_wakeup
  <2>3. \A k \in Job : push'[k] \in {"new", "in"} => push[k] \in {"new", "in"}
    BY <1>0, <2>2
  <2>4. QED
    BY <1>b, <2>1, <2>3
<1>2. ASSUME NEW j \in Job, amd_sched_entity_in(j) PROVE FenceOrder'
  <2>1. /\ UNCHANGED <<hw_fence, process, signaled, wpc, wjob>>
        /\ \/ UNCHANGED push
           \/ \E pc \in {"add", "done"} : push' = [push EXCEPT ![j] = pc]
    BY <1>2 DEF amd_sched_entity_in
  <2>2. \A k \in Job : push'[k] \in {"new", "in"} => push[k] \in {"new", "in"}
    BY <1>0, <2>1
  <2>3. QED
    BY <1>b, <2>1, <2>2
<1>3. CASE UNCHANGED <<push, hw_fence, process, signaled, wpc, wjob>>
  BY <1>b, <1>3
<1>4. ASSUME NEW e \in Entity, \/ entity_fini_start(e) \/ entity_fini_wait(e)
                               \/ amd_sched_rq_remove_entity(e) \/ amd_sched_entity_wakeup(e)
      PROVE  FenceOrder'
  BY <1>3, <1>4 DEF entity_fini_start, entity_fini_wait, amd_sched_rq_remove_entity,
     amd_sched_entity_wakeup
\* The worker.
<1>5. CASE \/ main_wait \/ main_unparked \/ main_select \/ main_select_normal \/ main_sleep
           \/ amd_sched_entity_pop_job \/ amd_sched_job_begin \/ main_kfifo_out \/ main_wake_up
  <2>1. CASE main_wait
    BY <1>b, <2>1 DEF main_wait
  <2>2. CASE main_unparked \/ main_sleep \/ main_kfifo_out \/ main_wake_up
    BY <1>b, <2>2 DEF main_unparked, main_sleep, main_kfifo_out, main_wake_up
  <2>3. CASE amd_sched_entity_pop_job \/ amd_sched_job_begin
    BY <1>b, <2>3 DEF amd_sched_entity_pop_job, amd_sched_job_begin
  <2>4. CASE main_select \/ main_select_normal
    BY <1>b, <2>4 DEF main_select, main_select_normal, Selected, NotSelected
  <2>5. QED
    BY <1>5, <2>1, <2>2, <2>3, <2>4
<1>6. CASE main_run_job
  <2>1. /\ wpc = "run" /\ wpc' = "scheduled" /\ UNCHANGED <<push, process, signaled, wjob>>
        /\ \E h \in {"emitted", "failed"} : hw_fence' = [hw_fence EXCEPT ![wjob] = h]
    BY <1>6 DEF main_run_job, RunJob
  <2>2. wjob \in Job /\ hw_fence[wjob] = "none"
    BY <1>a, <2>1, SMTT(30) DEF Holding, RunOnce
  <2>3. process[wjob] = "none"
    BY <2>2 DEF FenceOrder
  <2>4. \A j \in Job : hw_fence'[j] \in {"none", "emitted", "attached"} => process[j] = "none"
    BY <1>0, <2>1, <2>3 DEF FenceOrder
  <2>5. \A j \in Job : hw_fence'[j] = "attached" => hw_fence[j] = "attached"
    BY <1>0, <2>1
  <2>6. QED
    BY <2>1, <2>3, <2>4, <2>5 DEF FenceOrder
<1>7. CASE amd_sched_fence_scheduled
  <2>1. /\ wpc = "scheduled" /\ wpc' = "attach" /\ UNCHANGED <<push, process, hw_fence, wjob>>
        /\ signaled' = signaled \cup {Scheduled(wjob)}
    BY <1>7 DEF amd_sched_fence_scheduled
  <2>2. wjob \in Job /\ push[wjob] \notin {"new", "in"}
    BY <1>a, <2>1 DEF Holding, QueueDiscipline
  <2>3. \A j \in Job : /\ Finished(j) \in signaled' <=> Finished(j) \in signaled
                       /\ Scheduled(j) \in signaled' <=> Scheduled(j) \in signaled \/ j = wjob
    BY <2>1, FenceNames
  <2>4. QED
    BY <2>1, <2>2, <2>3 DEF FenceOrder
<1>8. CASE main_attach
  <2>1. /\ wpc = "attach" /\ wpc' \in {"out", "process"} /\ UNCHANGED <<push, signaled, wjob>>
        /\ AttachFence(wjob)
    BY <1>8 DEF main_attach
  <2>2. /\ wjob \in Job /\ process[wjob] = "none" /\ Scheduled(wjob) \in signaled
        /\ Finished(wjob) \notin signaled
    BY <1>a, <2>1 DEF Holding, FenceOrder
  <2>3. CASE UNCHANGED process /\ hw_fence' = [hw_fence EXCEPT ![wjob] = "attached"]
    BY <1>0, <2>1, <2>2, <2>3 DEF FenceOrder
  <2>4. CASE /\ UNCHANGED hw_fence /\ process' = [process EXCEPT ![wjob] = "finish"]
             /\ hw_fence[wjob] \in {"signaled", "failed"}
    BY <1>0, <2>1, <2>2, <2>4 DEF FenceOrder
  <2>5. QED
    BY <2>1, <2>3, <2>4 DEF AttachFence, ProcessJob
\* The ring, the fence callbacks and the fences of other rings.
<1>9. CASE HwExecute
  <2>1. /\ UNCHANGED <<push, signaled, wpc, wjob>>
        /\ \E j \in Job :
             /\ hw_fence' = [hw_fence EXCEPT ![j] = "signaled"]
             /\ \/ hw_fence[j] = "attached" /\ process' = [process EXCEPT ![j] = "finish"]
                \/ hw_fence[j] = "emitted" /\ UNCHANGED process
    <3>1. hw_ring # <<>> => Head(hw_ring) \in Job
      BY <1>0, SMTT(30)
    <3>2. QED
      BY <1>9, <3>1 DEF HwExecute, ProcessJob
  <2>2. PICK j \in Job :
             /\ hw_fence' = [hw_fence EXCEPT ![j] = "signaled"]
             /\ \/ hw_fence[j] = "attached" /\ process' = [process EXCEPT ![j] = "finish"]
                \/ hw_fence[j] = "emitted" /\ UNCHANGED process
    BY <2>1
  <2>3. wpc \in {"scheduled", "attach"} => hw_fence[wjob] # "attached" /\ wjob \in Job
    BY <1>a DEF Holding, RunOnce
  <2>4. CASE hw_fence[j] = "emitted" /\ UNCHANGED process
    BY <1>0, <2>1, <2>2, <2>4 DEF FenceOrder
  <2>5. CASE hw_fence[j] = "attached" /\ process' = [process EXCEPT ![j] = "finish"]
    <3>1. Scheduled(j) \in signaled /\ Finished(j) \notin signaled
      BY <2>5 DEF FenceOrder
    <3>2. wpc \in {"scheduled", "attach"} => wjob # j /\ wjob \in Job
      BY <2>3, <2>5
    <3>3. /\ \A k \in Job : k # j => process'[k] = process[k] /\ hw_fence'[k] = hw_fence[k]
          /\ process'[j] = "finish" /\ hw_fence'[j] = "signaled"
      BY <1>0, <2>2, <2>5
    <3>4. QED
      BY <2>1, <3>1, <3>2, <3>3 DEF FenceOrder
  <2>6. QED
    BY <2>2, <2>4, <2>5
<1>10. ASSUME NEW j \in Job, amd_sched_fence_finished(j) PROVE FenceOrder'
  <2>1. /\ UNCHANGED <<push, hw_fence, wpc, wjob>>
        /\ process[j] = "finish" /\ process' = [process EXCEPT ![j] = "wakeup"]
        /\ signaled' = signaled \cup {Finished(j)}
    BY <1>10 DEF amd_sched_fence_finished
  <2>2. \A k \in Job : /\ Finished(k) \in signaled' <=> Finished(k) \in signaled \/ k = j
                       /\ Scheduled(k) \in signaled' <=> Scheduled(k) \in signaled
    BY <2>1, FenceNames
  <2>3. Scheduled(wjob) \in signaled' <=> Scheduled(wjob) \in signaled
    BY <2>1, FenceNames
  <2>4. wpc \in {"scheduled", "attach"} => wjob \in Job /\ wjob # j
    BY <1>a, <2>1 DEF Holding, FenceOrder
  <2>5. /\ \A k \in Job : k # j => process'[k] = process[k]
        /\ process'[j] = "wakeup"
    BY <1>0, <2>1
  <2>6. QED
    BY <2>1, <2>2, <2>3, <2>4, <2>5 DEF FenceOrder
<1>11. ASSUME NEW j \in Job, process_job_wakeup(j) PROVE FenceOrder'
  <2>1. /\ UNCHANGED <<push, hw_fence, signaled, wpc, wjob>>
        /\ process[j] = "wakeup" /\ process' = [process EXCEPT ![j] = "done"]
    BY <1>11 DEF process_job_wakeup
  <2>2. wpc \in {"scheduled", "attach"} => wjob \in Job /\ wjob # j
    BY <1>a, <2>1 DEF Holding, FenceOrder
  <2>3. QED
    BY <1>0, <2>1, <2>2 DEF FenceOrder
<1>12. ASSUME NEW x \in Foreign, ForeignSignal(x) PROVE FenceOrder'
  <2>1. /\ UNCHANGED <<push, hw_fence, process, wpc, wjob>>
        /\ signaled' = signaled \cup {ForeignFence(x)}
    BY <1>12 DEF ForeignSignal
  <2>2. \A k : /\ Finished(k) \in signaled' <=> Finished(k) \in signaled
               /\ Scheduled(k) \in signaled' <=> Scheduled(k) \in signaled
    BY <2>1, FenceNames
  <2>3. QED
    BY <2>1, <2>2 DEF FenceOrder
<1>13. CASE Quiet
  BY <1>3, <1>13 DEF Quiet
<1>14. QED
  BY <1>1, <1>2, <1>4, <1>5, <1>6, <1>7, <1>8, <1>9, <1>10, <1>11, <1>12, <1>13, StepCases
  DEF amd_sched_main

\* A job waits in its kfifo, behind the jobs of its entity that it depends on.
LEMMA QueuedStep ==
    ASSUME TypeInv, QueueDiscipline, RunOnce, FenceOrder, QueuedUntilScheduled, [Next]_vars
    PROVE  QueuedUntilScheduled'
<1>0. /\ push \in [Job -> {"new", "in", "add", "link", "wake", "done"}]
      /\ job_queue \in [Entity -> Seq(Job)]
      /\ JobEntity \in [Job -> Entity]
  BY ConstantsAssumption DEF TypeInv, TypeOK, EntityTypes, ClientTypes
<1>a. wpc \in Holding => /\ wjob \in Job /\ wentity \in Entity
                         /\ Len(job_queue[wentity]) >= 1 /\ job_queue[wentity][1] = wjob
  BY DEF TypeInv, WorkerHolds
<1>q. \A j \in Job : push[j] \in {"new", "in"} => ~InList(job_queue[JobEntity[j]], j)
  BY <1>0 DEF QueueDiscipline, InList
<1> DEFINE First(q, k, j) == \E i \in 1..Len(q) : q[i] = k /\ \A m \in 1..Len(q) : q[m] = j => i < m
<1>d. /\ \A k \in Job : push[k] \notin {"new", "in"} =>
            Scheduled(k) \in signaled \/ InList(job_queue[JobEntity[k]], k)
      /\ \A j, k \in Job :
            (push[j] # "new" /\ JobEntity[k] = JobEntity[j] /\ Scheduled(k) \in JobDeps[j]) =>
                /\ push[k] = "done"
                /\ Scheduled(k) \in signaled \/ First(job_queue[JobEntity[j]], k, j)
  BY DEF QueuedUntilScheduled
<1>e. ASSUME /\ \A k \in Job : push'[k] \notin {"new", "in"} =>
                  Scheduled(k) \in signaled' \/ InList(job_queue'[JobEntity[k]], k)
             /\ \A j, k \in Job :
                  (push'[j] # "new" /\ JobEntity[k] = JobEntity[j] /\ Scheduled(k) \in JobDeps[j]) =>
                      /\ push'[k] = "done"
                      /\ Scheduled(k) \in signaled' \/ First(job_queue'[JobEntity[j]], k, j)
      PROVE  QueuedUntilScheduled'
  BY <1>e DEF QueuedUntilScheduled, InList, Scheduled
<1> USE DEF clientVars, entityVars, rqVars, workerVars, hwVars, fenceVars
<1> HIDE DEF First
<1>b. ASSUME UNCHANGED job_queue, signaled \subseteq signaled',
             \A j \in Job : /\ push'[j] \in {"new", "in"} <=> push[j] \in {"new", "in"}
                            /\ push'[j] # "new" => push[j] # "new"
                            /\ push[j] = "done" => push'[j] = "done"
      PROVE  QueuedUntilScheduled'
  <2>1. \A k \in Job : push'[k] \notin {"new", "in"} =>
           Scheduled(k) \in signaled' \/ InList(job_queue'[JobEntity[k]], k)
    BY <1>b, <1>d
  <2>2. \A j, k \in Job :
           (push'[j] # "new" /\ JobEntity[k] = JobEntity[j] /\ Scheduled(k) \in JobDeps[j]) =>
               /\ push'[k] = "done"
               /\ Scheduled(k) \in signaled' \/ First(job_queue'[JobEntity[j]], k, j)
    BY <1>b, <1>d
  <2>3. QED
    BY <1>e, <2>1, <2>2
<1>1. ASSUME NEW j \in Job, amd_sched_job_init(j) PROVE QueuedUntilScheduled'
  <2>1. /\ push[j] = "new" /\ push' = [push EXCEPT ![j] = "in"] /\ DependenciesExist(j)
        /\ UNCHANGED <<job_queue, signaled>>
    BY <1>1 DEF amd_sched_job_init
  <2>2. push'[j] = "in" /\ \A k \in Job : k # j => push'[k] = push[k]
    BY <1>0, <2>1
  <2>3. ASSUME NEW k \in Job, push'[k] \notin {"new", "in"}
        PROVE  Scheduled(k) \in signaled' \/ InList(job_queue'[JobEntity[k]], k)
    <3>1. push[k] \notin {"new", "in"}
      BY <2>2, <2>3
    <3>2. QED
      BY <1>d, <2>1, <3>1
  <2>4. ASSUME NEW k \in Job, JobEntity[k] = JobEntity[j], Scheduled(k) \in JobDeps[j]
        PROVE  /\ push'[k] = "done"
               /\ Scheduled(k) \in signaled \/ First(job_queue[JobEntity[j]], k, j)
    <3>1. push[k] = "done" /\ push'[k] = "done"
      BY <2>1, <2>2, <2>4 DEF DependenciesExist
    <3>2. Scheduled(k) \in signaled \/ InList(job_queue[JobEntity[j]], k)
      BY <1>d, <2>4, <3>1
    <3>3. ~InList(job_queue[JobEntity[j]], j)
      BY <1>q, <2>1
    <3>4. QED
      BY <3>1, <3>2, <3>3 DEF InList, First
  <2>5. ASSUME NEW i \in Job, NEW k \in Job, push'[i] # "new", JobEntity[k] = JobEntity[i],
               Scheduled(k) \in JobDeps[i]
        PROVE  /\ push'[k] = "done"
               /\ Scheduled(k) \in signaled' \/ First(job_queue'[JobEntity[i]], k, i)
    <3>1. CASE i = j
      BY <2>1, <2>4, <2>5, <3>1
    <3>2. CASE i # j
      <4>1. push[i] # "new"
        BY <2>2, <2>5, <3>2
      <4>2. push[k] = "done" /\ (Scheduled(k) \in signaled \/ First(job_queue[JobEntity[i]], k, i))
        BY <1>d, <2>5, <4>1
      <4>3. QED
        BY <2>1, <2>2, <4>2
    <3>3. QED
      BY <3>1, <3>2
  <2>6. QED
    BY <1>e, <2>3, <2>5
<1>2. ASSUME NEW j \in Job, amd_sched_entity_in(j) PROVE QueuedUntilScheduled'
  <2> DEFINE e == JobEntity[j]
             q == job_queue[e]
  <2>1. CASE UNCHANGED <<job_queue, push>>
    BY <1>2, <1>b, <2>1 DEF amd_sched_entity_in
  <2>2. CASE /\ push[j] = "in"
             /\ job_queue' = [job_queue EXCEPT ![e] = Append(@, j)]
             /\ \E pc \in {"add", "done"} : push' = [push EXCEPT ![j] = pc]
             /\ UNCHANGED signaled
    <3>1. /\ e \in Entity /\ q \in Seq(Job)
          /\ job_queue'[e] = Append(q, j)
          /\ \A d \in Entity : d # e => job_queue'[d] = job_queue[d]
      BY <1>0, <2>2
    <3>2. /\ Len(q) \in Nat /\ Len(Append(q, j)) = Len(q) + 1
          /\ Append(q, j)[Len(q) + 1] = j
          /\ \A i \in 1..Len(q) : Append(q, j)[i] = q[i]
      BY <3>1, AppendProps, SMTT(30)
    <3>3. \A i \in 1..Len(q) : q[i] # j
      BY <1>q, <2>2 DEF InList
    <3>4. push'[j] # "new" /\ push[j] # "done" /\ \A k \in Job : k # j => push'[k] = push[k]
      BY <1>0, <2>2
    <3> HIDE DEF q
    <3>5. \A m \in 1..Len(Append(q, j)) : m \in 1..Len(q) \/ m = Len(q) + 1
      BY <3>2, SMTT(30)
    <3>6. /\ \A k : InList(q, k) \/ k = j => InList(Append(q, j), k)
          /\ \A k, i : First(q, k, i) => First(Append(q, j), k, i)
      <4>1. Len(q) + 1 \in 1..Len(Append(q, j)) /\ \A m \in 1..Len(q) : m \in 1..Len(Append(q, j))
        BY <3>2, SMTT(30)
      <4>2. \A k : InList(q, k) \/ k = j => InList(Append(q, j), k)
        BY <3>2, <4>1 DEF InList
      <4>3. ASSUME NEW k, NEW i, First(q, k, i) PROVE First(Append(q, j), k, i)
        <5>1. PICK a \in 1..Len(q) : q[a] = k /\ \A m \in 1..Len(q) : q[m] = i => a < m
          BY <4>3 DEF First
        <5>2. a \in 1..Len(Append(q, j)) /\ Append(q, j)[a] = k /\ a < Len(q) + 1
          BY <3>2, <5>1, SMTT(30)
        <5>3. \A m \in 1..Len(Append(q, j)) : Append(q, j)[m] = i => a < m
          BY <3>2, <3>5, <5>1, <5>2
        <5>4. QED
          BY <5>2, <5>3 DEF First
      <4>4. QED
        BY <4>2, <4>3
    <3>7. ASSUME NEW k \in Job
          PROVE  /\ InList(job_queue[JobEntity[k]], k) => InList(job_queue'[JobEntity[k]], k)
                 /\ \A i : First(job_queue[JobEntity[k]], i, k) => First(job_queue'[JobEntity[k]], i, k)
      <4>1. CASE JobEntity[k] = e
        <5>1. job_queue[JobEntity[k]] = q /\ job_queue'[JobEntity[k]] = Append(q, j)
          BY <3>1, <4>1 DEF q
        <5>2. QED
          BY <3>6, <5>1
      <4>2. CASE JobEntity[k] # e
        <5>1. job_queue'[JobEntity[k]] = job_queue[JobEntity[k]]
          BY <1>0, <3>1, <4>2
        <5>2. QED
          BY <5>1
      <4>3. QED
        BY <4>1, <4>2
    <3>8. ASSUME NEW k \in Job, push'[k] \notin {"new", "in"}
          PROVE  Scheduled(k) \in signaled' \/ InList(job_queue'[JobEntity[k]], k)
      <4>1. CASE k = j
        BY <3>1, <3>6, <4>1
      <4>2. CASE k # j
        <5>1. push[k] \notin {"new", "in"}
          BY <3>4, <3>8, <4>2
        <5>2. QED
          BY <1>d, <2>2, <3>7, <5>1
      <4>3. QED
        BY <4>1, <4>2
    <3>9. ASSUME NEW i \in Job, NEW k \in Job, push'[i] # "new", JobEntity[k] = JobEntity[i],
                 Scheduled(k) \in JobDeps[i]
          PROVE  /\ push'[k] = "done"
                 /\ Scheduled(k) \in signaled' \/ First(job_queue'[JobEntity[i]], k, i)
      <4>1. push[i] # "new"
        BY <2>2, <3>4, <3>9
      <4>2. push[k] = "done" /\ (Scheduled(k) \in signaled \/ First(job_queue[JobEntity[i]], k, i))
        BY <1>d, <3>9, <4>1
      <4>3. push'[k] = "done"
        BY <3>4, <4>2
      <4>4. QED
        BY <2>2, <3>7, <4>2, <4>3
    <3>10. QED
      BY <1>e, <3>8, <3>9
  <2>3. QED
    BY <1>2, <2>1, <2>2 DEF amd_sched_entity_in
<1>3. ASSUME NEW j \in Job, rq_add_entity_test(j) \/ rq_add_entity_link(j) \/ push_job_wakeup(j)
      PROVE  QueuedUntilScheduled'
  <2>1. /\ UNCHANGED <<job_queue, signaled>>
        /\ push[j] \in {"add", "link", "wake"}
        /\ \E pc \in {"wake", "link", "done"} : push' = [push EXCEPT ![j] = pc]
    BY <1>3 DEF rq_add_entity_test, rq_add_entity_link, push_job_wakeup
  <2>2. push'[j] \in {"wake", "link", "done"} /\ \A k \in Job : k # j => push'[k] = push[k]
    BY <1>0, <2>1
  <2>3. QED
    BY <1>b, <2>1, <2>2
<1>4. CASE UNCHANGED <<push, job_queue>> /\ signaled \subseteq signaled'
  BY <1>b, <1>4
<1>5. ASSUME NEW j \in Job, amd_sched_fence_finished(j) \/ process_job_wakeup(j)
      PROVE  QueuedUntilScheduled'
  BY <1>4, <1>5 DEF amd_sched_fence_finished, process_job_wakeup
<1>6. ASSUME NEW e \in Entity, \/ entity_fini_start(e) \/ entity_fini_wait(e)
                               \/ amd_sched_rq_remove_entity(e) \/ amd_sched_entity_wakeup(e)
      PROVE  QueuedUntilScheduled'
  BY <1>4, <1>6 DEF entity_fini_start, entity_fini_wait, amd_sched_rq_remove_entity,
     amd_sched_entity_wakeup
<1>7. ASSUME NEW x \in Foreign, ForeignSignal(x) PROVE QueuedUntilScheduled'
  BY <1>4, <1>7 DEF ForeignSignal
<1>8. CASE \/ main_wait \/ main_unparked \/ main_select \/ main_select_normal \/ main_sleep
           \/ amd_sched_entity_pop_job \/ amd_sched_job_begin \/ main_run_job
           \/ amd_sched_fence_scheduled \/ main_attach \/ main_wake_up
  <2>1. CASE main_wait \/ main_unparked \/ main_sleep \/ main_wake_up
    BY <1>4, <2>1 DEF main_wait, main_unparked, main_sleep, main_wake_up
  <2>2. CASE main_select \/ main_select_normal \/ amd_sched_entity_pop_job
    BY <1>4, <2>2 DEF main_select, main_select_normal, amd_sched_entity_pop_job
  <2>3. CASE amd_sched_job_begin \/ main_run_job \/ main_attach
    BY <1>4, <2>3 DEF amd_sched_job_begin, main_run_job, main_attach
  <2>4. CASE amd_sched_fence_scheduled
    BY <1>4, <2>4 DEF amd_sched_fence_scheduled
  <2>5. QED
    BY <1>8, <2>1, <2>2, <2>3, <2>4
<1>9. CASE main_kfifo_out
  <2> DEFINE q == job_queue[wentity]
  <2>1. /\ wpc \in {"process", "out"} /\ UNCHANGED <<push, signaled>>
        /\ job_queue' = [job_queue EXCEPT ![wentity] = Tail(@)]
    BY <1>9 DEF main_kfifo_out
  <2>2. /\ wentity \in Entity /\ q \in Seq(Job) /\ Len(q) >= 1 /\ q[1] = wjob
        /\ job_queue'[wentity] = Tail(q)
        /\ \A d \in Entity : d # wentity => job_queue'[d] = job_queue[d]
    BY <1>0, <1>a, <2>1 DEF Holding
  <2>3. Scheduled(wjob) \in signaled
    BY <2>1 DEF FenceOrder
  <2>4. /\ Len(q) \in Nat /\ Len(Tail(q)) = Len(q) - 1
        /\ \A i \in 1..Len(Tail(q)) : Tail(q)[i] = q[i + 1]
    BY <2>2, TailProps
  <2>5. \A k \in Job : JobEntity[k] = wentity => job_queue[JobEntity[k]] = q
    OBVIOUS
  <2> HIDE DEF q
  <2>6. \A i \in 1..Len(q) : i = 1 \/ (i - 1 \in 1..Len(Tail(q)) /\ Tail(q)[i - 1] = q[i])
    BY <2>4, SMTT(30)
  <2>7. \A k : InList(q, k) => Scheduled(k) \in signaled \/ InList(Tail(q), k)
    BY <2>2, <2>3, <2>6 DEF InList
  <2>8. ASSUME NEW k, NEW j, First(q, k, j)
        PROVE  Scheduled(k) \in signaled \/ First(Tail(q), k, j)
    <3>1. PICK i \in 1..Len(q) : q[i] = k /\ \A m \in 1..Len(q) : q[m] = j => i < m
      BY <2>8 DEF First
    <3>2. CASE i = 1
      BY <2>2, <2>3, <3>1, <3>2
    <3>3. CASE i # 1
      <4>1. i - 1 \in 1..Len(Tail(q)) /\ Tail(q)[i - 1] = k
        BY <2>6, <3>1, <3>3
      <4>2. ASSUME NEW m \in 1..Len(Tail(q)), Tail(q)[m] = j PROVE i - 1 < m
        <5>1. m + 1 \in 1..Len(q) /\ q[m + 1] = j
          BY <2>4, <4>2, SMTT(30)
        <5>2. i < m + 1
          BY <3>1, <5>1
        <5>3. QED
          BY <5>2, SMTT(30)
      <4>3. QED
        BY <4>1, <4>2 DEF First
    <3>4. QED
      BY <3>2, <3>3
  <2>9. ASSUME NEW j \in Job
        PROVE  /\ InList(job_queue[JobEntity[j]], j) =>
                      Scheduled(j) \in signaled \/ InList(job_queue'[JobEntity[j]], j)
               /\ \A k : First(job_queue[JobEntity[j]], k, j) =>
                      Scheduled(k) \in signaled \/ First(job_queue'[JobEntity[j]], k, j)
    <3>1. CASE JobEntity[j] = wentity
      BY <2>2, <2>5, <2>7, <2>8, <3>1
    <3>2. CASE JobEntity[j] # wentity
      <4>1. job_queue'[JobEntity[j]] = job_queue[JobEntity[j]]
        BY <1>0, <2>2, <3>2
      <4>2. QED
        BY <4>1
    <3>3. QED
      BY <3>1, <3>2
  <2>10. \A k \in Job : push'[k] \notin {"new", "in"} =>
           Scheduled(k) \in signaled' \/ InList(job_queue'[JobEntity[k]], k)
    BY <1>d, <2>1, <2>9
  <2>11. \A j, k \in Job :
           (push'[j] # "new" /\ JobEntity[k] = JobEntity[j] /\ Scheduled(k) \in JobDeps[j]) =>
               /\ push'[k] = "done"
               /\ Scheduled(k) \in signaled' \/ First(job_queue'[JobEntity[j]], k, j)
    BY <1>d, <2>1, <2>9
  <2>12. QED
    BY <1>e, <2>10, <2>11
<1>10. CASE HwExecute \/ Quiet
  BY <1>4, <1>10 DEF HwExecute, Quiet
<1>11. QED
  BY <1>1, <1>2, <1>3, <1>5, <1>6, <1>7, <1>8, <1>9, <1>10, StepCases DEF amd_sched_main
=============================================================================
