-------------------------- MODULE GpuSchedulerTypes -------------------------
(***************************************************************************)
(* Type correctness of GpuScheduler and the discipline of its kfifos, for  *)
(* every set of entities and jobs, every dependency relation, queue size   *)
(* and hardware limit.                                                     *)
(***************************************************************************)
EXTENDS GpuScheduler, TLAPS

\* The provers of a leaf that names none, and the time each of them has.
USE ZenonT(20), SMTT(30)

\* What list_del_init returns is a list of the same elements.
LEMMA ListDelType ==
    ASSUME NEW S, NEW l \in Seq(S), NEW x
    PROVE  list_del_init(l, x) \in Seq(S)
<1>1. CASE ~InList(l, x)
  BY <1>1 DEF list_del_init
<1>2. CASE InList(l, x)
  <2>1. PICK at \in 1..Len(l) : at = CHOOSE k \in 1..Len(l) : l[k] = x
    BY <1>2 DEF InList
  <2>2. list_del_init(l, x) = [i \in 1..(Len(l) - 1) |-> IF i < at THEN l[i] ELSE l[i + 1]]
    BY <1>2, <2>1 DEF list_del_init
  <2>3. Len(l) - 1 \in Nat /\ \A i \in 1..(Len(l) - 1) : l[i] \in S /\ l[i + 1] \in S
    BY SMTT(30)
  <2>4. QED
    BY <2>2, <2>3, SMTT(30)
<1>3. QED
  BY <1>1, <1>2

\* Appending to a kfifo keeps what is in it.
LEMMA AppendProps ==
    ASSUME NEW S, NEW q \in Seq(S), NEW x \in S
    PROVE  /\ Append(q, x) \in Seq(S)
           /\ Len(Append(q, x)) = Len(q) + 1
           /\ Append(q, x)[Len(q) + 1] = x
           /\ \A i \in 1..Len(q) : Append(q, x)[i] = q[i]
BY SMTT(30)

\* kfifo_out removes the first element.
LEMMA TailProps ==
    ASSUME NEW S, NEW q \in Seq(S), Len(q) >= 1
    PROVE  /\ Tail(q) \in Seq(S)
           /\ Len(q) \in Nat
           /\ Len(Tail(q)) = Len(q) - 1
           /\ \A i \in 1..Len(Tail(q)) : Tail(q)[i] = q[i + 1]
BY SMTT(30)

-----------------------------------------------------------------------------
(* Type correctness.                                                        *)

\* Program points of amd_sched_main between selecting an entity and kfifo_out.
Holding == {"pop", "begin", "run", "scheduled", "attach", "process", "out"}

\* There sched_job is the head of the kfifo of the selected entity.
WorkerHolds ==
    /\ wpc \in Holding => /\ wentity \in Entity
                          /\ wjob \in Job
                          /\ Len(job_queue[wentity]) >= 1
                          /\ job_queue[wentity][1] = wjob
    /\ wpc = "wakeup" => wentity \in Entity /\ wjob \in Job

TypeInv == TypeOK /\ WorkerHolds

\* amd_sched_rq_select_entity returns an entity that is ready.
LEMMA SelectReady ==
    ASSUME TypeOK, NEW p \in Priority, NEW e \in amd_sched_rq_select_entity(p)
    PROVE  /\ e \in Entity
           /\ Len(job_queue[e]) >= 1
           /\ job_queue[e][1] \in Job
           /\ Head(job_queue[e]) = job_queue[e][1]
<1>1. PICK i \in ReadyAt(p) : e = rq[p][i]
  BY DEF amd_sched_rq_select_entity
<1>2. e \in Entity /\ job_queue[e] \in Seq(Job) /\ job_queue[e] # <<>>
  BY <1>1, SMTT(30) DEF ReadyAt, amd_sched_entity_is_ready, TypeOK, RqTypes, EntityTypes
<1>3. QED
  BY <1>2, SMTT(30)

\* The initial state satisfies it.
LEMMA TypeInvInit == Init => TypeInv
<1> SUFFICES ASSUME Init PROVE TypeInv
  OBVIOUS
<1>1. ClientTypes /\ SleepTypes /\ FenceTypes
  BY DEF Init, ClientTypes, SleepTypes, FenceTypes
<1>2. EntityTypes
  BY ConstantsAssumption, SMTT(30) DEF Init, EntityTypes
<1>3. RqTypes /\ HwTypes /\ ListTypes
  BY SMTT(30) DEF Init, RqTypes, HwTypes, ListTypes
<1>4. StopTypes
  <2>1. parks \in 0..MaxParks
    BY ConstantsAssumption, SMTT(30) DEF Init
  <2>2. QED
    BY <2>1 DEF Init, StopTypes
<1>5. WorkerTypes /\ WorkerHolds
  BY DEF Init, WorkerTypes, WorkerHolds, Holding
<1>6. QED
  BY <1>1, <1>2, <1>3, <1>4, <1>5 DEF TypeInv, TypeOK

\* A step that leaves a group of variables alone keeps its types.
LEMMA TypeFrame ==
    ASSUME TypeInv
    PROVE  /\ UNCHANGED clientVars => ClientTypes'
           /\ UNCHANGED entityVars => EntityTypes'
           /\ UNCHANGED rqVars => RqTypes'
           /\ UNCHANGED <<wake_up_worker, job_scheduled>> => SleepTypes'
           /\ UNCHANGED workerVars => WorkerTypes'
           /\ UNCHANGED hwVars => HwTypes'
           /\ UNCHANGED fenceVars => FenceTypes'
           /\ UNCHANGED listVars => ListTypes'
           /\ UNCHANGED stopVars => StopTypes'
           /\ UNCHANGED <<entityVars, workerVars>> => WorkerHolds'
<1>1. UNCHANGED clientVars => ClientTypes'
  BY DEF TypeInv, TypeOK, ClientTypes, clientVars
<1>2. UNCHANGED entityVars => EntityTypes'
  BY DEF TypeInv, TypeOK, EntityTypes, entityVars
<1>3. UNCHANGED rqVars => RqTypes'
  BY DEF TypeInv, TypeOK, RqTypes, rqVars
<1>4. UNCHANGED <<wake_up_worker, job_scheduled>> => SleepTypes'
  BY DEF TypeInv, TypeOK, SleepTypes
<1>5. UNCHANGED workerVars => WorkerTypes'
  BY DEF TypeInv, TypeOK, WorkerTypes, workerVars
<1>6. UNCHANGED hwVars => HwTypes'
  BY DEF TypeInv, TypeOK, HwTypes, hwVars
<1>7. UNCHANGED fenceVars => FenceTypes'
  BY DEF TypeInv, TypeOK, FenceTypes, fenceVars
<1>8. UNCHANGED listVars => ListTypes'
  BY DEF TypeInv, TypeOK, ListTypes, listVars
<1>9. UNCHANGED stopVars => StopTypes'
  BY DEF TypeInv, TypeOK, StopTypes, stopVars
<1>10. UNCHANGED <<entityVars, workerVars>> => WorkerHolds'
  BY DEF TypeInv, WorkerHolds, entityVars, workerVars
<1>11. QED
  BY <1>1, <1>2, <1>3, <1>4, <1>5, <1>6, <1>7, <1>8, <1>9, <1>10

LEMMA TypeInvStep == TypeInv /\ [Next]_vars => TypeInv'
<1> SUFFICES ASSUME TypeInv, [Next]_vars
             PROVE  TypeInv'
  OBVIOUS
<1>0. /\ ClientTypes /\ EntityTypes /\ RqTypes /\ SleepTypes /\ WorkerTypes
      /\ HwTypes /\ FenceTypes /\ ListTypes /\ StopTypes /\ WorkerHolds
  BY DEF TypeInv, TypeOK
<1> USE ConstantsAssumption
<1>1. ASSUME NEW j \in Job, amd_sched_job_init(j) PROVE TypeInv'
  <2>1. ClientTypes'
    BY <1>0, <1>1 DEF amd_sched_job_init, ClientTypes
  <2>2. QED
    BY <1>1, <2>1, TypeFrame DEF amd_sched_job_init, TypeInv, TypeOK
<1>2. ASSUME NEW j \in Job, amd_sched_entity_in(j) PROVE TypeInv'
  <2>1. ClientTypes' /\ SleepTypes'
    BY <1>0, <1>2 DEF amd_sched_entity_in, ClientTypes, SleepTypes
  <2>2. EntityTypes' /\ WorkerHolds'
    <3> DEFINE e == JobEntity[j]
               q == job_queue[e]
    <3>1. CASE /\ kfifo_has_room(e)
               /\ job_queue' = [job_queue EXCEPT ![e] = Append(q, j)]
      <4>1. e \in Entity /\ q \in Seq(Job) /\ Len(q) < QueueSize
        BY <1>0, <3>1 DEF kfifo_has_room, EntityTypes
      <4>2. /\ Append(q, j) \in Seq(Job)
            /\ Len(Append(q, j)) = Len(q) + 1
            /\ \A i \in 1..Len(q) : Append(q, j)[i] = q[i]
        BY <4>1, AppendProps, SMTT(30)
      <4>3. EntityTypes'
        BY <1>0, <1>2, <3>1, <4>1, <4>2, SMTT(30) DEF amd_sched_entity_in, EntityTypes
      <4>4. \A d \in Entity : Len(job_queue[d]) >= 1 =>
                Len(job_queue'[d]) >= 1 /\ job_queue'[d][1] = job_queue[d][1]
        BY <1>0, <3>1, <4>1, <4>2, SMTT(30) DEF EntityTypes
      <4>5. WorkerHolds'
        BY <1>0, <1>2, <4>4 DEF amd_sched_entity_in, WorkerHolds, Holding, workerVars
      <4>6. QED
        BY <4>3, <4>5
    <3>2. CASE UNCHANGED job_queue
      BY <1>0, <1>2, <3>2 DEF amd_sched_entity_in, EntityTypes, WorkerHolds, workerVars
    <3>3. QED
      BY <1>2, <3>1, <3>2 DEF amd_sched_entity_in
  <2>3. QED
    BY <1>2, <2>1, <2>2, TypeFrame DEF amd_sched_entity_in, TypeInv, TypeOK
<1>3. ASSUME NEW j \in Job, rq_add_entity_test(j) PROVE TypeInv'
  <2>1. ClientTypes'
    BY <1>0, <1>3 DEF rq_add_entity_test, ClientTypes
  <2>2. QED
    BY <1>3, <2>1, TypeFrame DEF rq_add_entity_test, TypeInv, TypeOK
<1>4. ASSUME NEW j \in Job, rq_add_entity_link(j) PROVE TypeInv'
  <2>1. ClientTypes'
    BY <1>0, <1>4 DEF rq_add_entity_link, ClientTypes, RqOf, Priority
  <2>2. RqTypes'
    BY <1>0, <1>4, SMTT(30) DEF rq_add_entity_link, RqTypes, RqOf, Priority
  <2>3. QED
    BY <1>4, <2>1, <2>2, TypeFrame DEF rq_add_entity_link, TypeInv, TypeOK
<1>5. ASSUME NEW j \in Job, push_job_wakeup(j) PROVE TypeInv'
  <2>1. ClientTypes'
    BY <1>0, <1>5 DEF push_job_wakeup, ClientTypes, amd_sched_wakeup
  <2>2. SleepTypes'
    BY <1>0, <1>5 DEF push_job_wakeup, SleepTypes, amd_sched_wakeup
  <2>3. QED
    BY <1>5, <2>1, <2>2, TypeFrame DEF push_job_wakeup, TypeInv, TypeOK
<1>6. ASSUME NEW j \in Job, amd_sched_fence_finished(j) PROVE TypeInv'
  <2>1. HwTypes'
    BY <1>0, <1>6 DEF amd_sched_fence_finished, HwTypes, Finished, Fence
  <2>2. FenceTypes'
    BY <1>0, <1>6, SMTT(30) DEF amd_sched_fence_finished, FenceTypes, Finished, Fence
  <2>3. ListTypes'
    BY <1>0, <1>6 DEF amd_sched_fence_finished, ListTypes, Finished, Fence
  <2>4. QED
    BY <1>6, <2>1, <2>2, <2>3, TypeFrame DEF amd_sched_fence_finished, TypeInv, TypeOK
<1>7. ASSUME NEW j \in Job, process_job_wakeup(j) PROVE TypeInv'
  <2>1. HwTypes'
    BY <1>0, <1>7 DEF process_job_wakeup, HwTypes
  <2>2. SleepTypes'
    BY <1>0, <1>7 DEF process_job_wakeup, SleepTypes
  <2>3. QED
    BY <1>7, <2>1, <2>2, TypeFrame DEF process_job_wakeup, TypeInv, TypeOK
<1>8. ASSUME NEW j \in Job, job_finish_del(j) PROVE TypeInv'
  <2>1. ListTypes'
    BY <1>0, <1>8, ListDelType DEF job_finish_del, ListTypes
  <2>2. QED
    BY <1>8, <2>1, TypeFrame DEF job_finish_del, TypeInv, TypeOK
<1>9. ASSUME NEW j \in Job, job_finish_cancel(j) PROVE TypeInv'
  <2>1. ListTypes'
    BY <1>0, <1>9 DEF job_finish_cancel, ListTypes
  <2>2. QED
    BY <1>9, <2>1, TypeFrame DEF job_finish_cancel, TypeInv, TypeOK
<1>10. ASSUME NEW j \in Job, job_finish_arm(j) PROVE TypeInv'
  <2>1. ListTypes'
    BY <1>0, <1>10, SMTT(30) DEF job_finish_arm, ListTypes, ArmHead
  <2>2. QED
    BY <1>10, <2>1, TypeFrame DEF job_finish_arm, TypeInv, TypeOK
<1>11. ASSUME NEW j \in Job, TdrExpire(j) PROVE TypeInv'
  <2>1. ListTypes'
    BY <1>0, <1>11 DEF TdrExpire, ListTypes
  <2>2. QED
    BY <1>11, <2>1, TypeFrame DEF TdrExpire, TypeInv, TypeOK
<1>12. ASSUME NEW j \in Job, TdrNoHang(j) PROVE TypeInv'
  <2>1. ListTypes'
    BY <1>0, <1>12 DEF TdrNoHang, ListTypes
  <2>2. QED
    BY <1>12, <2>1, TypeFrame DEF TdrNoHang, TypeInv, TypeOK
<1>13. ASSUME NEW e \in Entity, entity_fini_start(e) PROVE TypeInv'
  <2>1. ClientTypes'
    BY <1>0, <1>13 DEF entity_fini_start, ClientTypes
  <2>2. QED
    BY <1>13, <2>1, TypeFrame DEF entity_fini_start, TypeInv, TypeOK
<1>14. ASSUME NEW e \in Entity, entity_fini_wait(e) PROVE TypeInv'
  <2>1. ClientTypes'
    BY <1>0, <1>14 DEF entity_fini_wait, ClientTypes
  <2>2. SleepTypes'
    BY <1>0, <1>14 DEF entity_fini_wait, SleepTypes
  <2>3. QED
    BY <1>14, <2>1, <2>2, TypeFrame DEF entity_fini_wait, TypeInv, TypeOK
<1>15. ASSUME NEW e \in Entity, amd_sched_rq_remove_entity(e) PROVE TypeInv'
  <2>1. ClientTypes'
    BY <1>0, <1>15, ListDelType DEF amd_sched_rq_remove_entity, ClientTypes, RqOf, Priority
  <2>2. RqTypes'
    BY <1>0, <1>15, ListDelType DEF amd_sched_rq_remove_entity, RqTypes, RqOf, Priority
  <2>3. QED
    BY <1>15, <2>1, <2>2, TypeFrame DEF amd_sched_rq_remove_entity, TypeInv, TypeOK
<1>16. ASSUME NEW e \in Entity, amd_sched_entity_wakeup(e) PROVE TypeInv'
  <2>1. FenceTypes'
    BY <1>0, <1>16 DEF amd_sched_entity_wakeup, FenceTypes, amd_sched_wakeup
  <2>2. SleepTypes'
    BY <1>0, <1>16 DEF amd_sched_entity_wakeup, SleepTypes, amd_sched_wakeup
  <2>3. QED
    BY <1>16, <2>1, <2>2, TypeFrame DEF amd_sched_entity_wakeup, TypeInv, TypeOK
<1>17. ASSUME NEW x \in Foreign, ForeignSignal(x) PROVE TypeInv'
  <2>1. FenceTypes'
    BY <1>0, <1>17, SMTT(30) DEF ForeignSignal, FenceTypes, ForeignFence, Fence
  <2>2. EntityTypes' /\ WorkerHolds'
    BY <1>0, <1>17 DEF ForeignSignal, EntityTypes, WorkerHolds, workerVars, ForeignFence, Fence
  <2>3. QED
    BY <1>17, <2>1, <2>2, TypeFrame DEF ForeignSignal, TypeInv, TypeOK
<1>18. CASE amd_sched_fini
  <2>1. StopTypes'
    BY <1>0, <1>18 DEF amd_sched_fini, StopTypes
  <2>2. SleepTypes'
    BY <1>0, <1>18 DEF amd_sched_fini, SleepTypes
  <2>3. QED
    BY <1>18, <2>1, <2>2, TypeFrame DEF amd_sched_fini, TypeInv, TypeOK
<1>19. CASE kthread_park
  <2>1. StopTypes'
    BY <1>0, <1>19, SMTT(30) DEF kthread_park, StopTypes
  <2>2. SleepTypes'
    BY <1>0, <1>19 DEF kthread_park, SleepTypes
  <2>3. QED
    BY <1>19, <2>1, <2>2, TypeFrame DEF kthread_park, TypeInv, TypeOK
<1>20. CASE kthread_unpark
  <2>1. StopTypes'
    BY <1>0, <1>20 DEF kthread_unpark, StopTypes
  <2>2. QED
    BY <1>20, <2>1, TypeFrame DEF kthread_unpark, TypeInv, TypeOK
<1>21. CASE HwExecute
  <2>0. Head(hw_ring) \in Job /\ Tail(hw_ring) \in Seq(Job)
    BY <1>0, <1>21, SMTT(30) DEF HwExecute, HwTypes
  <2>1. HwTypes'
    BY <1>0, <1>21, <2>0, SMTT(30) DEF HwExecute, HwTypes, ProcessJob
  <2>2. QED
    BY <1>21, <2>1, TypeFrame DEF HwExecute, TypeInv, TypeOK
<1>22. CASE main_wait
  <2>1. WorkerTypes' /\ WorkerHolds'
    BY <1>0, <1>22 DEF main_wait, WorkerTypes, WorkerHolds, Holding, entityVars
  <2>2. SleepTypes'
    BY <1>0, <1>22 DEF main_wait, SleepTypes, WorkerHolds, Holding
  <2>3. QED
    BY <1>22, <2>1, <2>2, TypeFrame DEF main_wait, TypeInv, TypeOK
<1>23. CASE main_unparked
  <2>1. WorkerTypes' /\ WorkerHolds'
    BY <1>0, <1>23 DEF main_unparked, WorkerTypes, WorkerHolds, Holding, entityVars
  <2>2. QED
    BY <1>23, <2>1, TypeFrame DEF main_unparked, TypeInv, TypeOK
<1>24. CASE main_select
  <2>1. RqTypes' /\ SleepTypes' /\ WorkerTypes' /\ WorkerHolds'
    <3>1. ASSUME NEW e \in amd_sched_rq_select_entity("KERNEL"), Selected("KERNEL", e)
          PROVE  RqTypes' /\ SleepTypes' /\ WorkerTypes' /\ WorkerHolds'
      <4>1. /\ e \in Entity /\ Len(job_queue[e]) >= 1
            /\ Head(job_queue[e]) \in Job /\ Head(job_queue[e]) = job_queue[e][1]
        BY SelectReady, SMTT(30) DEF Priority, TypeInv
      <4>2. RqTypes' /\ SleepTypes'
        BY <1>0, <1>24, <3>1, <4>1 DEF main_select, Selected, RqTypes, SleepTypes
      <4>3. WorkerTypes' /\ WorkerHolds'
        BY <1>0, <1>24, <3>1, <4>1 DEF main_select, Selected, WorkerTypes, WorkerHolds, entityVars
      <4>4. QED
        BY <4>2, <4>3
    <3>2. ASSUME NEW pc \in {"sleep", "select_normal"}, NotSelected(pc)
          PROVE  RqTypes' /\ SleepTypes' /\ WorkerTypes' /\ WorkerHolds'
      BY <1>0, <1>24, <3>2
      DEF main_select, NotSelected, RqTypes, SleepTypes, WorkerTypes, WorkerHolds, Holding
    <3>3. QED
      BY <1>24, <3>1, <3>2 DEF main_select
  <2>2. QED
    BY <1>24, <2>1, TypeFrame DEF main_select, TypeInv, TypeOK
<1>25. CASE main_select_normal
  <2>1. RqTypes' /\ SleepTypes' /\ WorkerTypes' /\ WorkerHolds'
    <3>1. ASSUME NEW e \in amd_sched_rq_select_entity("NORMAL"), Selected("NORMAL", e)
          PROVE  RqTypes' /\ SleepTypes' /\ WorkerTypes' /\ WorkerHolds'
      <4>1. /\ e \in Entity /\ Len(job_queue[e]) >= 1
            /\ Head(job_queue[e]) \in Job /\ Head(job_queue[e]) = job_queue[e][1]
        BY SelectReady, SMTT(30) DEF Priority, TypeInv
      <4>2. RqTypes' /\ SleepTypes'
        BY <1>0, <1>25, <3>1, <4>1 DEF main_select_normal, Selected, RqTypes, SleepTypes
      <4>3. WorkerTypes' /\ WorkerHolds'
        BY <1>0, <1>25, <3>1, <4>1 DEF main_select_normal, Selected, WorkerTypes, WorkerHolds, entityVars
      <4>4. QED
        BY <4>2, <4>3
    <3>2. ASSUME NEW pc \in {"sleep", "select_normal"}, NotSelected(pc)
          PROVE  RqTypes' /\ SleepTypes' /\ WorkerTypes' /\ WorkerHolds'
      BY <1>0, <1>25, <3>2
      DEF main_select_normal, NotSelected, RqTypes, SleepTypes, WorkerTypes, WorkerHolds, Holding
    <3>3. QED
      BY <1>25, <3>1, <3>2 DEF main_select_normal
  <2>2. QED
    BY <1>25, <2>1, TypeFrame DEF main_select_normal, TypeInv, TypeOK
<1>26. CASE main_sleep
  <2>1. WorkerTypes' /\ WorkerHolds'
    BY <1>0, <1>26 DEF main_sleep, WorkerTypes, WorkerHolds, Holding, entityVars
  <2>2. QED
    BY <1>26, <2>1, TypeFrame DEF main_sleep, TypeInv, TypeOK
<1>27. CASE amd_sched_entity_pop_job
  <2>1. wpc = "pop" /\ wentity \in Entity /\ wjob \in Job
    BY <1>0, <1>27 DEF amd_sched_entity_pop_job, WorkerHolds, Holding
  <2>2. ASSUME NEW f \in Fence
        PROVE  amd_sched_entity_add_dependency_cb(wentity, f) \in Fence \cup {None}
    BY DEF amd_sched_entity_add_dependency_cb, Scheduled, Fence
  <2>3. EntityTypes'
    <3>1. CASE /\ sync' = [sync EXCEPT ![wjob] = {}]
               /\ dependency' = [dependency EXCEPT ![wentity] = None]
               /\ UNCHANGED job_queue
      BY <1>0, <2>1, <3>1 DEF EntityTypes
    <3>2. ASSUME NEW f \in sync[wjob],
                 sync' = [sync EXCEPT ![wjob] = (@ \ signaled) \ {f}],
                 dependency' = [dependency EXCEPT
                     ![wentity] = amd_sched_entity_add_dependency_cb(wentity, f)],
                 UNCHANGED job_queue
          PROVE  EntityTypes'
      BY <1>0, <2>1, <2>2, <3>2 DEF EntityTypes
    <3>3. QED
      BY <1>27, <3>1, <3>2 DEF amd_sched_entity_pop_job, amdgpu_job_dependency
  <2>4. /\ wpc' \in {"begin", "pop", "wait"}
        /\ wentity' = IF wpc' = "wait" THEN None ELSE wentity
        /\ wjob' = IF wpc' = "wait" THEN None ELSE wjob
        /\ UNCHANGED job_queue
    BY <1>27 DEF amd_sched_entity_pop_job, LoopLocals
  <2>5. WorkerTypes' /\ WorkerHolds'
    BY <1>0, <2>1, <2>4 DEF WorkerTypes, WorkerHolds, Holding
  <2>6. QED
    BY <1>27, <2>3, <2>5, TypeFrame DEF amd_sched_entity_pop_job, TypeInv, TypeOK
<1>28. CASE amd_sched_job_begin
  <2>0. wentity \in Entity /\ wjob \in Job /\ Len(job_queue[wentity]) >= 1
    BY <1>0, <1>28 DEF amd_sched_job_begin, WorkerHolds, Holding
  <2>1. HwTypes'
    BY <1>0, <2>0, <1>28, SMTT(30) DEF amd_sched_job_begin, HwTypes
  <2>2. ListTypes'
    BY <1>0, <2>0, <1>28, SMTT(30) DEF amd_sched_job_begin, ListTypes
  <2>3. WorkerTypes' /\ WorkerHolds'
    BY <1>0, <1>28 DEF amd_sched_job_begin, WorkerTypes, WorkerHolds, Holding, entityVars
  <2>4. QED
    BY <1>28, <2>1, <2>2, <2>3, TypeFrame DEF amd_sched_job_begin, TypeInv, TypeOK
<1>29. CASE main_run_job
  <2>0. wentity \in Entity /\ wjob \in Job /\ Len(job_queue[wentity]) >= 1
    BY <1>0, <1>29 DEF main_run_job, WorkerHolds, Holding
  <2>1. HwTypes'
    <3>1. Append(hw_ring, wjob) \in Seq(Job)
      BY <1>0, <2>0, SMTT(30) DEF HwTypes
    <3>2. hw_ring' \in Seq(Job)
      BY <1>0, <1>29, <3>1 DEF main_run_job, HwTypes, RunJob
    <3>3. hw_fence' \in [Job -> {"none", "emitted", "attached", "signaled", "failed"}]
      BY <1>0, <1>29, <2>0 DEF main_run_job, HwTypes, RunJob
    <3>4. QED
      BY <1>0, <1>29, <3>2, <3>3 DEF main_run_job, HwTypes
  <2>2. WorkerTypes' /\ WorkerHolds'
    BY <1>0, <1>29 DEF main_run_job, WorkerTypes, WorkerHolds, Holding, entityVars, RunJob
  <2>3. QED
    BY <1>29, <2>1, <2>2, TypeFrame DEF main_run_job, TypeInv, TypeOK
<1>30. CASE amd_sched_fence_scheduled
  <2>0. wentity \in Entity /\ wjob \in Job /\ Len(job_queue[wentity]) >= 1
    BY <1>0, <1>30 DEF amd_sched_fence_scheduled, WorkerHolds, Holding
  <2>1. FenceTypes'
    <3>1. Scheduled(wjob) \in Fence
      BY <2>0 DEF Scheduled, Fence
    <3>2. QED
      BY <1>0, <1>30, <3>1 DEF amd_sched_fence_scheduled, FenceTypes
  <2>2. EntityTypes'
    BY <1>0, <1>30 DEF amd_sched_fence_scheduled, EntityTypes
  <2>3. WorkerTypes' /\ WorkerHolds'
    BY <1>0, <1>30 DEF amd_sched_fence_scheduled, WorkerTypes, WorkerHolds, Holding
  <2>4. QED
    BY <1>30, <2>1, <2>2, <2>3, TypeFrame DEF amd_sched_fence_scheduled, TypeInv, TypeOK
<1>31. CASE main_attach
  <2>0. wentity \in Entity /\ wjob \in Job /\ Len(job_queue[wentity]) >= 1
    BY <1>0, <1>31 DEF main_attach, WorkerHolds, Holding
  <2>1. HwTypes'
    <3>1. CASE hw_fence[wjob] = "emitted"
      BY <1>0, <1>31, <2>0, <3>1 DEF main_attach, HwTypes, AttachFence
    <3>2. CASE hw_fence[wjob] # "emitted"
      BY <1>0, <1>31, <2>0, <3>2, SMTT(30) DEF main_attach, HwTypes, AttachFence, ProcessJob
    <3>3. QED
      BY <3>1, <3>2
  <2>2. WorkerTypes' /\ WorkerHolds'
    BY <1>0, <1>31 DEF main_attach, WorkerTypes, WorkerHolds, Holding, entityVars
  <2>3. QED
    BY <1>31, <2>1, <2>2, TypeFrame DEF main_attach, TypeInv, TypeOK
<1>32. CASE main_kfifo_out
  <2>0. wentity \in Entity /\ wjob \in Job /\ Len(job_queue[wentity]) >= 1
    BY <1>0, <1>32 DEF main_kfifo_out, WorkerHolds, Holding
  <2>1. EntityTypes'
    <3>1. job_queue' = [job_queue EXCEPT ![wentity] = Tail(job_queue[wentity])]
          /\ UNCHANGED <<dependency, sync>>
      BY <1>32 DEF main_kfifo_out
    <3>2. Tail(job_queue[wentity]) \in Seq(Job) /\ Len(Tail(job_queue[wentity])) <= QueueSize
      <4>1. job_queue[wentity] \in Seq(Job) /\ Len(job_queue[wentity]) <= QueueSize
        BY <1>0, <2>0 DEF EntityTypes
      <4>2. QED
        BY <2>0, <4>1, TailProps, ConstantsAssumption, SMTT(30)
    <3>3. QED
      BY <1>0, <2>0, <3>1, <3>2 DEF EntityTypes
  <2>2. WorkerTypes' /\ WorkerHolds'
    BY <1>0, <1>32 DEF main_kfifo_out, WorkerTypes, WorkerHolds, Holding, entityVars
  <2>3. QED
    BY <1>32, <2>1, <2>2, TypeFrame DEF main_kfifo_out, TypeInv, TypeOK
<1>33. CASE main_wake_up
  <2>1. SleepTypes'
    BY <1>0, <1>33 DEF main_wake_up, SleepTypes, WorkerHolds, Holding, LoopLocals
  <2>2. WorkerTypes' /\ WorkerHolds'
    BY <1>0, <1>33 DEF main_wake_up, WorkerTypes, WorkerHolds, Holding, entityVars, LoopLocals
  <2>3. QED
    BY <1>33, <2>1, <2>2, TypeFrame DEF main_wake_up, TypeInv, TypeOK
<1>34. CASE UNCHANGED vars
  BY <1>34, TypeFrame DEF vars, TypeInv, TypeOK
<1>35. QED
  BY <1>1, <1>2, <1>3, <1>4, <1>5, <1>6, <1>7, <1>8, <1>9, <1>10, <1>11, <1>12,
     <1>13, <1>14, <1>15, <1>16, <1>17, <1>18, <1>19, <1>20, <1>21, <1>22, <1>23,
     <1>24, <1>25, <1>26, <1>27, <1>28, <1>29, <1>30, <1>31, <1>32, <1>33, <1>34
  DEF Next, SchedulerStep, push_job_step, amd_sched_process_job, amd_sched_job_finish,
      entity_fini_step, amd_sched_main, Terminated

\* Every variable keeps to the values the code gives it; no kfifo exceeds its
\* capacity.
THEOREM TypeCorrect == Spec => []TypeOK
<1>1. TypeInv => TypeOK
  BY DEF TypeInv
<1>2. QED
  BY <1>1, TypeInvInit, TypeInvStep, PTL DEF Spec

-----------------------------------------------------------------------------
(* The discipline of the kfifos.                                           *)

\* A job is in at most one place of the kfifo of its entity, and only after its
\* thread has put it there.
QueueDiscipline ==
    \A e \in Entity : \A i \in 1..Len(job_queue[e]) :
        /\ JobEntity[job_queue[e][i]] = e
        /\ push[job_queue[e][i]] \notin {"new", "in"}
        /\ \A k \in 1..Len(job_queue[e]) : job_queue[e][k] = job_queue[e][i] => k = i

\* The frame conditions of Next: which actions write a thread's program counter,
\* the kfifos, the hardware fences, the worker's variables and the counter.
LEMMA HwFrame ==
    ASSUME [Next]_vars
    PROVE  \/ \E j \in Job : \/ amd_sched_job_init(j) \/ amd_sched_entity_in(j)
                             \/ rq_add_entity_test(j) \/ rq_add_entity_link(j)
                             \/ push_job_wakeup(j)
           \/ amd_sched_main
           \/ HwExecute
           \/ UNCHANGED <<push, job_queue, workerVars, hw_rq_count, hw_fence>>
<1> DEFINE Frame == UNCHANGED <<push, job_queue, workerVars, hw_rq_count, hw_fence>>
<1> USE DEF clientVars, entityVars, workerVars, hwVars
<1>1. ASSUME NEW j \in Job, amd_sched_process_job(j) PROVE Frame
  BY <1>1 DEF amd_sched_process_job, amd_sched_fence_finished, process_job_wakeup
<1>2. ASSUME NEW j \in Job, amd_sched_job_finish(j) PROVE Frame
  BY <1>2 DEF amd_sched_job_finish, job_finish_del, job_finish_cancel, job_finish_arm
<1>3. ASSUME NEW j \in Job, TdrExpire(j) \/ TdrNoHang(j) PROVE Frame
  BY <1>3 DEF TdrExpire, TdrNoHang
<1>4. ASSUME NEW e \in Entity, entity_fini_start(e) \/ entity_fini_step(e) PROVE Frame
  BY <1>4 DEF entity_fini_start, entity_fini_step, entity_fini_wait, amd_sched_rq_remove_entity
<1>5. ASSUME NEW e \in Entity, amd_sched_entity_wakeup(e) PROVE Frame
  BY <1>5 DEF amd_sched_entity_wakeup
<1>6. ASSUME NEW x \in Foreign, ForeignSignal(x) PROVE Frame
  BY <1>6 DEF ForeignSignal
<1>7. CASE amd_sched_fini
  BY <1>7 DEF amd_sched_fini
<1>8. CASE kthread_park \/ kthread_unpark
  BY <1>8 DEF kthread_park, kthread_unpark
<1>9. CASE UNCHANGED vars
  BY <1>9 DEF vars
<1>10. QED
  BY <1>1, <1>2, <1>3, <1>4, <1>5, <1>6, <1>7, <1>8, <1>9
  DEF Next, SchedulerStep, push_job_step, Terminated

LEMMA QueueDisciplineStep ==
    ASSUME TypeInv, QueueDiscipline, [Next]_vars
    PROVE  QueueDiscipline'
<1>0. /\ job_queue \in [Entity -> Seq(Job)]
      /\ push \in [Job -> {"new", "in", "add", "link", "wake", "done"}]
      /\ JobEntity \in [Job -> Entity]
  BY ConstantsAssumption DEF TypeInv, TypeOK, EntityTypes, ClientTypes
<1>1. ASSUME UNCHANGED job_queue,
             \A j \in Job : push'[j] \in {"new", "in"} => push[j] \in {"new", "in"}
      PROVE  QueueDiscipline'
  <2>1. \A e \in Entity : \A i \in 1..Len(job_queue[e]) : job_queue[e][i] \in Job
    BY <1>0, SMTT(30)
  <2>2. \A e \in Entity : \A i \in 1..Len(job_queue[e]) : push'[job_queue[e][i]] \notin {"new", "in"}
    BY <1>1, <2>1 DEF QueueDiscipline
  <2>3. QED
    BY <1>1, <2>2, SMTT(30) DEF QueueDiscipline
<1>2. ASSUME NEW j \in Job, amd_sched_job_init(j) PROVE QueueDiscipline'
  BY <1>0, <1>1, <1>2 DEF amd_sched_job_init, entityVars
<1>3. ASSUME NEW j \in Job, amd_sched_entity_in(j) PROVE QueueDiscipline'
  <2>1. CASE UNCHANGED <<job_queue, push>>
    BY <1>1, <2>1
  <2> DEFINE e == JobEntity[j]
             q == job_queue[e]
  <2>2. CASE /\ push[j] = "in"
             /\ job_queue' = [job_queue EXCEPT ![e] = Append(q, j)]
             /\ push' \in {[push EXCEPT ![j] = "add"], [push EXCEPT ![j] = "done"]}
    <3>1. e \in Entity /\ q \in Seq(Job)
      BY <1>0
    <3>2. \A i \in 1..Len(q) : q[i] # j
      BY <2>2, <3>1, SMTT(30) DEF QueueDiscipline
    <3>3. /\ Len(Append(q, j)) = Len(q) + 1
          /\ \A i \in 1..Len(q) : Append(q, j)[i] = q[i]
          /\ Append(q, j)[Len(q) + 1] = j
      BY <3>1, AppendProps, SMTT(30)
    <3>4. /\ push'[j] \notin {"new", "in"}
          /\ \A k \in Job : push'[k] \in {"new", "in"} => push[k] \in {"new", "in"}
      BY <1>0, <2>2
    <3>5. ASSUME NEW d \in Entity, d # e PROVE job_queue'[d] = job_queue[d]
      BY <1>0, <2>2, <3>5
    <3>6. job_queue'[e] = Append(q, j)
      BY <1>0, <2>2, <3>1
    <3>7. SUFFICES ASSUME NEW d \in Entity, NEW i \in 1..Len(job_queue'[d])
                   PROVE  /\ JobEntity[job_queue'[d][i]] = d
                          /\ push'[job_queue'[d][i]] \notin {"new", "in"}
                          /\ \A k \in 1..Len(job_queue'[d]) :
                                job_queue'[d][k] = job_queue'[d][i] => k = i
      BY DEF QueueDiscipline
    <3>8. CASE d # e
      BY <1>0, <3>4, <3>5, <3>8, SMTT(30) DEF QueueDiscipline
    <3>9. CASE d = e
      <4>1. Len(q) \in Nat /\ \A k \in 1..Len(q) : q[k] \in Job
        BY <3>1, SMTT(30)
      <4> HIDE DEF q
      <4>2. \A k \in 1..(Len(q) + 1) : k \in 1..Len(q) \/ k = Len(q) + 1
        BY <4>1, SMTT(30)
      <4>3. \A k \in 1..Len(q) : /\ JobEntity[q[k]] = e
                                 /\ push[q[k]] \notin {"new", "in"}
                                 /\ \A m \in 1..Len(q) : q[m] = q[k] => m = k
        BY <3>1 DEF QueueDiscipline, q
      <4>4. /\ job_queue'[d] = Append(q, j) /\ i \in 1..(Len(q) + 1)
            /\ Append(q, j)[i] = IF i \in 1..Len(q) THEN q[i] ELSE j
        BY <3>3, <3>6, <3>9, <4>1, <4>2
      <4>5. JobEntity[job_queue'[d][i]] = d /\ push'[job_queue'[d][i]] \notin {"new", "in"}
        BY <3>4, <3>9, <4>1, <4>3, <4>4, SMTT(30)
      <4>6. ASSUME NEW k \in 1..Len(job_queue'[d]), job_queue'[d][k] = job_queue'[d][i]
            PROVE  k = i
        <5>1. /\ k \in 1..(Len(q) + 1)
              /\ Append(q, j)[k] = IF k \in 1..Len(q) THEN q[k] ELSE j
          BY <3>3, <4>1, <4>2, <4>4
        <5>2. QED
          BY <3>2, <4>1, <4>2, <4>3, <4>4, <4>6, <5>1, SMTT(30)
      <4>7. QED
        BY <4>5, <4>6
    <3>10. QED
      BY <3>8, <3>9
  <2>3. QED
    BY <1>3, <2>1, <2>2 DEF amd_sched_entity_in
<1>4. ASSUME NEW j \in Job,
             rq_add_entity_test(j) \/ rq_add_entity_link(j) \/ push_job_wakeup(j)
      PROVE  QueueDiscipline'
  <2>1. /\ UNCHANGED job_queue
        /\ \E pc \in {"wake", "link", "done"} : push' = [push EXCEPT ![j] = pc]
    BY <1>4 DEF rq_add_entity_test, rq_add_entity_link, push_job_wakeup, entityVars
  <2>2. QED
    BY <1>0, <1>1, <2>1
<1>5. CASE amd_sched_main /\ ~main_kfifo_out
  <2>1. UNCHANGED <<push, job_queue>>
    BY <1>5 DEF amd_sched_main, main_wait, main_unparked, main_select, main_select_normal,
         main_sleep, amd_sched_entity_pop_job, amd_sched_job_begin, main_run_job,
         amd_sched_fence_scheduled, main_attach, main_wake_up, clientVars, entityVars
  <2>2. QED
    BY <1>1, <2>1
<1>6. CASE main_kfifo_out
  <2>1. /\ wentity \in Entity
        /\ Len(job_queue[wentity]) >= 1
        /\ job_queue' = [job_queue EXCEPT ![wentity] = Tail(@)]
        /\ UNCHANGED push
    BY <1>6 DEF main_kfifo_out, clientVars, TypeInv, WorkerHolds, Holding
  <2> DEFINE q == job_queue[wentity]
  <2>2. /\ Len(q) \in Nat
        /\ Len(Tail(q)) = Len(q) - 1
        /\ \A i \in 1..Len(Tail(q)) : Tail(q)[i] = q[i + 1]
    BY <1>0, <2>1, TailProps
  <2>3. SUFFICES ASSUME NEW d \in Entity, NEW i \in 1..Len(job_queue'[d])
                 PROVE  /\ JobEntity[job_queue'[d][i]] = d
                        /\ push[job_queue'[d][i]] \notin {"new", "in"}
                        /\ \A k \in 1..Len(job_queue'[d]) :
                              job_queue'[d][k] = job_queue'[d][i] => k = i
    BY <2>1, SMTT(30) DEF QueueDiscipline
  <2>4. CASE d # wentity
    BY <1>0, <2>1, <2>4 DEF QueueDiscipline
  <2>5. CASE d = wentity
    <3>1. job_queue'[d] = Tail(q)
      BY <1>0, <2>1, <2>5
    <3>2. \A k \in 1..Len(q) : /\ JobEntity[q[k]] = d
                               /\ push[q[k]] \notin {"new", "in"}
                               /\ \A m \in 1..Len(q) : q[m] = q[k] => m = k
      BY <2>1, <2>5 DEF QueueDiscipline
    <3> HIDE DEF q
    <3>3. QED
      BY <2>2, <3>1, <3>2, SMTT(30)
  <2>6. QED
    BY <2>4, <2>5
<1>7. CASE HwExecute
  BY <1>1, <1>7 DEF HwExecute, clientVars, entityVars
<1>8. QED
  BY <1>1, <1>2, <1>3, <1>4, <1>5, <1>6, <1>7, HwFrame
=============================================================================
