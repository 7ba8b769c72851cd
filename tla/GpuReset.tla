------------------------------ MODULE GpuReset ------------------------------
(***************************************************************************)
(* GPU reset as one ring and its scheduler live through it: hardware that  *)
(* hangs, the timeout handler that starts a reset (amdgpu_gpu_reset, or    *)
(* amdgpu_sriov_gpu_reset on a virtual function), amd_sched_hw_job_reset,  *)
(* amd_sched_job_kickout and amd_sched_job_recovery, interleaved with      *)
(* every step of the scheduler (module GpuScheduler).                      *)
(***************************************************************************)
EXTENDS GpuScheduler

CONSTANTS
    Devices,        \* the devices to look at, each a record of
                    \*   sriov: the device is a virtual function
                    \*   bad: jobs the hardware hangs on whenever it runs them
                    \*   maxhangs: bound on the hangs of other jobs
                    \*   slow: a timeout may expire although the ring has not hung
    HangLimit,      \* amdgpu_job_hang_limit
    MaxOther,       \* bound: resets that a hang of another ring starts
    MayFail,        \* amdgpu_asic_reset or the resume may fail
    PromptFinish    \* fence callbacks and finish_work that have begun are done
                    \* by the time amd_sched_job_recovery runs

ASSUME ResetAssumption ==
    /\ {MayFail, PromptFinish} \subseteq BOOLEAN
    /\ HangLimit \in Nat /\ MaxOther \in Nat
    /\ Devices \subseteq [sriov : BOOLEAN, bad : SUBSET Job, maxhangs : Nat, slow : BOOLEAN]

VARIABLES
    dev,            \* the device, which never changes
    hung,           \* the ring executes nothing until it is reset
    hangs, others,  \* counters for the bounds
    karma,          \* s_job->karma
    rst,            \* where the reset is
    rowner,         \* the job whose timeout handler runs it
    rjob, rnext     \* s_job and tmp of amd_sched_job_recovery

resetVars == <<dev, hung, hangs, others, karma, rst, rowner, rjob, rnext>>
allVars == <<vars, resetVars>>

InitReset ==
    /\ Init
    /\ dev \in Devices
    /\ hung = FALSE
    /\ hangs = 0
    /\ others = 0
    /\ karma = [j \in Job |-> 0]
    /\ rst = "none"
    /\ rowner = None
    /\ rjob = None
    /\ rnext = None

-----------------------------------------------------------------------------
(* Hardware.                                                               *)

HwHang ==
    /\ ~hung
    /\ hw_ring # <<>>
    /\ hung' = TRUE
    /\ \/ Head(hw_ring) \in dev.bad /\ UNCHANGED hangs
       \/ hangs < dev.maxhangs /\ hangs' = hangs + 1
    /\ UNCHANGED <<vars, dev, others, karma, rst, rowner, rjob, rnext>>

HwRuns ==
    /\ ~hung
    /\ hw_ring # <<>>
    /\ Head(hw_ring) \notin dev.bad
    /\ HwExecute
    /\ UNCHANGED resetVars

\* The ring gets to a job whose callback the reset has taken off its fence.
HwRunsDetached ==
    /\ ~hung
    /\ hw_ring # <<>>
    /\ hw_fence[Head(hw_ring)] = "detached"
    /\ Head(hw_ring) \notin dev.bad
    /\ hw_ring' = Tail(hw_ring)
    /\ UNCHANGED <<clientVars, entityVars, rqVars, wake_up_worker, job_scheduled, workerVars,
                   hw_rq_count, hw_fence, process, fenceVars, listVars, stopVars, resetVars>>

-----------------------------------------------------------------------------
(* The timeout handler.                                                    *)

TimeoutExpires(j) ==
    /\ dev.slow \/ hung
    /\ TdrExpire(j)
    /\ UNCHANGED resetVars

\* amdgpu_check_soft_reset finds no hang; a virtual function does not ask.
NoHangDetected(j) ==
    /\ ~dev.sriov
    /\ ~hung
    /\ rowner # j
    /\ TdrNoHang(j)
    /\ UNCHANGED resetVars

\* kthread_park: ask the worker to park and wake it.
Park ==
    /\ should_park' = TRUE
    /\ wake_up_worker' = FALSE
    /\ UNCHANGED <<clientVars, entityVars, rqVars, job_scheduled, workerVars, hwVars,
                   fenceVars, listVars, parks, should_stop>>

gpu_reset_start(j) ==
    /\ rst = "none"
    /\ ~should_stop
    /\ j \in tdr_running
    /\ hung \/ dev.sriov
    /\ Park
    /\ rst' = "park"
    /\ rowner' = j
    /\ UNCHANGED <<dev, hung, hangs, others, karma, rjob, rnext>>

\* Another ring of the device has hung: this one goes on until the ASIC is reset.
gpu_reset_other ==
    /\ rst = "none"
    /\ ~dev.sriov
    /\ ~should_stop
    /\ others < MaxOther
    /\ others' = others + 1
    /\ Park
    /\ rst' = "park"
    /\ UNCHANGED <<dev, hung, hangs, karma, rowner, rjob, rnext>>

\* kthread_park has returned.
gpu_reset_parked ==
    /\ rst = "park"
    /\ wpc = "parked"
    /\ rst' = IF dev.sriov THEN "last_chance" ELSE "hw_job_reset"
    /\ UNCHANGED <<vars, dev, hung, hangs, others, karma, rowner, rjob, rnext>>

\* atomic_inc_return(&s_job->karma) > threshold
amd_sched_invalidate_job(j) == karma[j] + 1 > HangLimit

amd_sched_job_kickout(j) ==
    ring_mirror_list' = list_del_init(ring_mirror_list, j)

last_chance_without_karma ==
    /\ rst = "last_chance"
    /\ rst' = IF InList(ring_mirror_list, rowner) THEN "hw_job_reset" ELSE "unpark"
    /\ UNCHANGED <<vars, dev, hung, hangs, others, karma, rowner, rjob, rnext>>

\* "here give the last chance to check if job removed from mirror-list": give up,
\* or take the job off the list when it has hung the ring too often.
sriov_last_chance ==
    /\ rst = "last_chance"
    /\ IF ~InList(ring_mirror_list, rowner)
       THEN rst' = "unpark" /\ UNCHANGED <<karma, ring_mirror_list>>
       ELSE /\ rst' = "hw_job_reset"
            /\ karma' = [karma EXCEPT ![rowner] = @ + 1]
            /\ IF amd_sched_invalidate_job(rowner)
               THEN amd_sched_job_kickout(rowner)
               ELSE UNCHANGED ring_mirror_list
    /\ UNCHANGED <<clientVars, entityVars, rqVars, wake_up_worker, job_scheduled, workerVars,
                   hwVars, fenceVars, tdr_pending, tdr_running, tdr_expired, finish, stopVars,
                   dev, hung, hangs, others, rowner, rjob, rnext>>

\* Jobs on the mirror list whose callback is still on their hardware fence.
Attached == {j \in Job : InList(ring_mirror_list, j) /\ hw_fence[j] = "attached"}

reset_without_dec ==
    /\ rst = "hw_job_reset"
    /\ hw_fence' = [j \in Job |-> IF j \in Attached THEN "detached" ELSE hw_fence[j]]
    /\ rst' = "force"
    /\ UNCHANGED <<clientVars, entityVars, rqVars, wake_up_worker, job_scheduled, workerVars,
                   hw_rq_count, hw_ring, process, fenceVars, listVars, stopVars,
                   dev, hung, hangs, others, karma, rowner, rjob, rnext>>

amd_sched_hw_job_reset ==
    /\ rst = "hw_job_reset"
    /\ hw_fence' = [j \in Job |-> IF j \in Attached THEN "detached" ELSE hw_fence[j]]
    /\ hw_rq_count' = hw_rq_count - Cardinality(Attached)
    /\ rst' = "force"
    /\ UNCHANGED <<clientVars, entityVars, rqVars, wake_up_worker, job_scheduled, workerVars,
                   hw_ring, process, fenceVars, listVars, stopVars,
                   dev, hung, hangs, others, karma, rowner, rjob, rnext>>

\* amdgpu_fence_driver_force_completion: a job that was kicked out still has its
\* callback, which now runs.
force_completion ==
    /\ rst = "force"
    /\ LET kicked == {j \in Job : hw_fence[j] = "attached" /\ InList(hw_ring, j)} IN
       /\ hw_rq_count' = hw_rq_count - Cardinality(kicked)
       /\ process' = [j \in Job |-> IF j \in kicked THEN "finish" ELSE process[j]]
       /\ hw_fence' = [j \in Job |-> IF j \in kicked THEN "signaled" ELSE hw_fence[j]]
       /\ hw_ring' = SelectSeq(hw_ring, LAMBDA j : j \notin kicked)
    /\ rst' = "asic"
    /\ UNCHANGED <<clientVars, entityVars, rqVars, wake_up_worker, job_scheduled, workerVars,
                   fenceVars, listVars, stopVars, dev, hung, hangs, others, karma, rowner, rjob, rnext>>

asic_reset_keeps_ring ==
    /\ rst = "asic"
    /\ hung' = FALSE
    /\ rst' = "recover"
    /\ UNCHANGED <<clientVars, entityVars, rqVars, wake_up_worker, job_scheduled, workerVars,
                   hwVars, fenceVars, listVars, stopVars,
                   dev, hangs, others, karma, rowner, rjob, rnext>>

\* amdgpu_asic_reset and the resume of the blocks.  (On bare metal this is the full
\* reset; what a soft reset does to a healthy ring is looked at in AmdgpuFence.)
asic_reset ==
    /\ rst = "asic"
    /\ hw_ring' = <<>>
    /\ \/ rst' = "recover" /\ hung' = FALSE
       \/ MayFail /\ ~dev.sriov /\ rst' = "unpark" /\ UNCHANGED hung
    /\ UNCHANGED <<clientVars, entityVars, rqVars, wake_up_worker, job_scheduled, workerVars,
                   hw_rq_count, hw_fence, process, fenceVars, listVars, stopVars,
                   dev, hangs, others, karma, rowner, rjob, rnext>>

-----------------------------------------------------------------------------
(* amd_sched_job_recovery.                                                 *)

\* The node after x of list l; a node that was removed with list_del_init points
\* to itself.
NodeAfter(l, x) ==
    IF ~InList(l, x) THEN x
    ELSE LET at == CHOOSE i \in 1..Len(l) : l[i] = x
         IN  IF at = Len(l) THEN None ELSE l[at + 1]

CallbacksDone ==
    \A j \in Job : process[j] \notin {"finish", "wakeup"} /\ finish[j] # "queued"

job_recovery_first ==
    /\ rst = "recover"
    /\ PromptFinish => CallbacksDone
    /\ ArmHead(ring_mirror_list)
    /\ rjob' = IF ring_mirror_list = <<>> THEN None ELSE Head(ring_mirror_list)
    /\ rnext' = IF ring_mirror_list = <<>> THEN None
                ELSE NodeAfter(ring_mirror_list, Head(ring_mirror_list))
    /\ rst' = IF ring_mirror_list = <<>> THEN "unpark" ELSE "run"
    /\ UNCHANGED <<clientVars, entityVars, rqVars, wake_up_worker, job_scheduled, workerVars,
                   hwVars, fenceVars, ring_mirror_list, tdr_running, tdr_expired, finish,
                   stopVars, dev, hung, hangs, others, karma, rowner>>

\* run_job, then atomic_inc(&sched->hw_rq_count), with the lock dropped.
job_recovery_run ==
    /\ rst = "run"
    /\ RunJob(rjob)
    /\ hw_rq_count' = hw_rq_count + 1
    /\ rst' = "attach"
    /\ UNCHANGED <<clientVars, entityVars, rqVars, wake_up_worker, job_scheduled, workerVars,
                   process, fenceVars, listVars, stopVars,
                   dev, hung, hangs, others, karma, rowner, rjob, rnext>>

job_recovery_attach ==
    /\ rst = "attach"
    /\ AttachFence(rjob)
    /\ rst' = IF hw_fence[rjob] = "emitted" THEN "next" ELSE "process"
    /\ UNCHANGED <<clientVars, entityVars, rqVars, wake_up_worker, job_scheduled, workerVars,
                   hw_ring, fenceVars, listVars, stopVars,
                   dev, hung, hangs, others, karma, rowner, rjob, rnext>>

stop_after_first ==
    /\ rst = "next" \/ (rst = "process" /\ process[rjob] = "done")
    /\ rjob' = None
    /\ rnext' = None
    /\ rst' = "unpark"
    /\ UNCHANGED <<vars, dev, hung, hangs, others, karma, rowner>>

\* The loop takes the lock and goes on to the node it remembered.
job_recovery_next ==
    /\ rst = "next" \/ (rst = "process" /\ process[rjob] = "done")
    /\ rjob' = rnext
    /\ rnext' = IF rnext = None THEN None ELSE NodeAfter(ring_mirror_list, rnext)
    /\ rst' = IF rnext = None THEN "unpark" ELSE "run"
    /\ UNCHANGED <<vars, dev, hung, hangs, others, karma, rowner>>

unpark_keeps_parked ==
    /\ rst = "unpark"
    /\ tdr_running' = tdr_running \ {rowner}
    /\ rst' = "none"
    /\ rowner' = None
    /\ UNCHANGED <<clientVars, entityVars, rqVars, wake_up_worker, job_scheduled, workerVars,
                   hwVars, fenceVars, ring_mirror_list, tdr_pending, tdr_expired, finish,
                   stopVars, dev, hung, hangs, others, karma, rjob, rnext>>

\* kthread_unpark, and the timeout handler returns.
gpu_reset_unpark ==
    /\ rst = "unpark"
    /\ should_park' = FALSE
    /\ tdr_running' = tdr_running \ {rowner}
    /\ rst' = "none"
    /\ rowner' = None
    /\ UNCHANGED <<clientVars, entityVars, rqVars, wake_up_worker, job_scheduled, workerVars,
                   hwVars, fenceVars, ring_mirror_list, tdr_pending, tdr_expired, finish,
                   parks, should_stop, dev, hung, hangs, others, karma, rjob, rnext>>

-----------------------------------------------------------------------------
amdgpu_gpu_reset ==
    \/ gpu_reset_parked \/ sriov_last_chance \/ amd_sched_hw_job_reset
    \/ force_completion \/ asic_reset \/ gpu_reset_unpark
    \/ job_recovery_first \/ job_recovery_run \/ job_recovery_attach \/ job_recovery_next

\* The driver is unloaded when the ring has drained (amdgpu_fence_driver_fini waits
\* for that) and its jobs are freed, so not during a reset.
Unloadable == rst = "none" /\ \A j \in Job : push[j] = "new" \/ finish[j] = "freed"

SchedulerRuns ==
    /\ SchedulerStep
    /\ should_stop' => should_stop \/ Unloadable
    /\ UNCHANGED resetVars

NextReset ==
    \/ SchedulerRuns
    \/ HwHang \/ HwRuns \/ HwRunsDetached
    \/ \E j \in Job : TimeoutExpires(j) \/ NoHangDetected(j) \/ gpu_reset_start(j)
    \/ gpu_reset_other
    \/ amdgpu_gpu_reset
    \/ Terminated /\ UNCHANGED resetVars

SpecReset == InitReset /\ [][NextReset]_allVars

\* On top of the scheduler's fairness: a pending timeout expires, the handler and
\* the reset go on, and the hardware executes unless it has hung.
FairnessReset ==
    /\ SchedulerFairness
    /\ WF_allVars(HwRuns \/ HwHang \/ HwRunsDetached)
    /\ WF_allVars(\E j \in Job : TimeoutExpires(j))
    /\ WF_allVars(\E j \in Job : NoHangDetected(j) \/ gpu_reset_start(j))
    /\ WF_allVars(amdgpu_gpu_reset)

FairSpecReset == SpecReset /\ FairnessReset

-----------------------------------------------------------------------------
(* Properties.                                                             *)

ResetPhase == {"none", "park", "last_chance", "hw_job_reset", "force", "asic", "recover",
               "run", "attach", "process", "next", "unpark"}

\* Every variable keeps to the values the code gives it.
ResetTypeOK ==
    /\ ClientTypes /\ EntityTypes /\ RqTypes /\ SleepTypes /\ WorkerTypes
    /\ FenceTypes /\ ListTypes /\ StopTypes
    /\ hw_rq_count \in Int
    /\ hw_ring \in Seq(Job)
    /\ hw_fence \in [Job -> {"none", "emitted", "attached", "signaled", "failed", "detached"}]
    /\ process \in [Job -> {"none", "finish", "wakeup", "done"}]
    /\ hung \in BOOLEAN /\ hangs \in 0..dev.maxhangs /\ others \in 0..MaxOther
    /\ karma \in [Job -> 0..(HangLimit + 1)]
    /\ rst \in ResetPhase
    /\ {rowner, rjob, rnext} \subseteq Job \cup {None}

ResetInFlight ==
    {j \in Job : \/ j \in InFlight
                 \/ j = rjob /\ rst = "attach"}

\* hw_rq_count stays the number of jobs in flight through hw_job_reset, which
\* decrements it for every callback it takes off, and recovery, which increments
\* it for every job it runs again; it never passes hw_submission_limit.
ResetCountExact ==
    /\ hw_rq_count = Cardinality(ResetInFlight)
    /\ hw_rq_count <= HwLimit

\* "the job had already been deleted from ring_mirror_list" when finish_work frees
\* it: recovery never runs a job that is freed, nor one whose finished fence has
\* been signaled.
RecoveredJobUnfinished ==
    rst = "run" => finish[rjob] # "freed" /\ Finished(rjob) \notin signaled

\* A job is blamed for a hang only if it hung the ring, or if it had been processed
\* and its finish_work came too late to stop its timeout: an innocent job that the
\* ring has yet to execute is never kicked out.
InnocentNeverBlamed ==
    \A j \in Job : karma[j] > 0 => j \in dev.bad \/ process[j] # "none"

\* No job is on the hardware ring twice: recovery runs the jobs on the mirror list
\* again only after the reset has emptied the ring.
RunsOnce ==
    \A i, k \in DOMAIN hw_ring : hw_ring[i] = hw_ring[k] => i = k

\* After a reset that succeeded the mirror list holds no job the ring has lost:
\* what is on it is in flight, or on its way to be finished.
NoJobStranded ==
    (rst = "none" /\ ~hung) =>
        \A j \in Job : InList(ring_mirror_list, j) => hw_fence[j] # "detached"

\* Outside a reset the oldest job of the mirror list has its timeout, also after one
\* that kicked out the job that was timed: job_recovery starts the timeout of the
\* job that is now the first.
ResetOldestTimed == rst = "none" => OldestJobTimed

\* Every job that is submitted finishes, although the hardware hangs: the timeout
\* resets it and runs the job again, or kicks it out.
EveryJobFinishes ==
    <>[](\A j \in Job : push[j] = "new" \/ Finished(j) \in signaled)

\* Every reset ends and lets the worker go on: kthread_park returns although the
\* hardware hangs, and every path through the reset reaches kthread_unpark.
ResetEnds == <>[](rst = "none" /\ ~should_park)
=============================================================================
