-------------------------- MODULE CommandSubmission --------------------------
(***************************************************************************)
(* amdgpu_cs_ioctl (amdgpu/amdgpu_cs.c) by several threads at once: the    *)
(* reservation of the buffers (TtmReserve), the pages of userptr buffers   *)
(* (amdgpu_ttm.c) and the MMU notifier that invalidates them (MnLock), the *)
(* implicit synchronisation with the jobs that use the same buffers        *)
(* (amdgpu_sync.c), and the fences of a context (amdgpu_ctx.c).            *)
(*                                                                         *)
(* A file has one context, one ring and one VM, whose page directory every *)
(* submission reserves along with its list.  A thread submits with a list  *)
(* of its own, so the mutex of the list is free; a list names at most one  *)
(* userptr buffer, once.  A job is the n-th of its thread.  Page table     *)
(* updates, buffer moves and explicit dependencies are left out.           *)
(***************************************************************************)
EXTENDS TtmReserve, MnLock

CONSTANTS
    Userptr,        \* the userptr buffers
    Workloads,      \* what a behaviour may contain, see load
    MaxCs,          \* bound: submissions of a thread
    MaxTries,       \* tries of amdgpu_cs_parser_bos, 10 in the code
    SchedJobs       \* amdgpu_sched_jobs: the fences a context keeps, a power of 2

ASSUME SubmissionAssumption ==
    /\ Submitter = Thread
    /\ Userptr \subseteq Bo
    /\ None \notin Thread \cup Bo
    /\ MaxCs \in Nat
    /\ MaxTries \in Nat \ {0}
    /\ SchedJobs \in Nat \ {0}

\* What the program makes of its files, threads and lists: the threads of a file share
\* its page directory, the first buffer of every list.
ASSUME WorkloadsAssumption ==
    \A w \in Workloads :
        /\ w.bos \in [Thread -> Seq(Bo)]
        /\ \A t \in Thread : w.bos[t] # <<>> /\ w.bos[t][1] \notin Userptr
        /\ \A s, t \in Thread : w.file[s] = w.file[t] => w.bos[s][1] = w.bos[t][1]
        /\ \A t \in Thread : \A i, k \in DOMAIN w.bos[t] :
              (w.bos[t][i] \in Userptr /\ w.bos[t][k] \in Userptr) => i = k
        /\ w.cs \in [Thread -> 0..MaxCs]
        /\ w.signal \in Nat /\ w.nomem \in Nat /\ w.error \in Nat

VARIABLES
    load,           \* file, bos (page directory and list) and cs (how many submissions)
                    \* of every thread; inv (the invalidations that happen), nested (the
                    \* ones a task makes within another one), mmap_sem (they hold it for
                    \* writing, as munmap does); bounds on signals, allocation failures
                    \* and other errors
    pc,             \* where a thread is in amdgpu_cs_ioctl
    num,            \* how many submissions a thread has begun
    tries,          \* amdgpu_cs_parser_bos: tries
    user_pages, user_invalidated,       \* of the userptr entry of a thread's list
    sync,           \* job->sync: the fences a job waits for
    seq, other,     \* amdgpu_ctx_add_fence: seq and other
    mmu_invalidations, last_set_pages,  \* of the ttm of a userptr buffer
    pages,          \* and its pages: the mapping they were taken from
    mapping,        \* which pages the user's addresses map to
    sequence, fences,   \* of a file's context: cring->sequence, cring->fences
    handle,         \* the handle given out for a job, 0 before
    queue,          \* of a file's context: jobs pushed and not finished
    finished,       \* the jobs whose fence is signaled
    faults          \* signals, allocation failures and errors so far

parserVars == <<pc, num, tries, user_pages, user_invalidated, seq, other>>
pageVars   == <<mmu_invalidations, last_set_pages, pages, mapping>>
ctxVars    == <<sequence, fences, handle>>
gpuVars    == <<sync, queue, finished>>
csVars == <<load, parserVars, pageVars, ctxVars, gpuVars, faults>>
vars == <<ttmVars, mnVars, csVars>>

File == {load.file[t] : t \in Thread}

Job == Thread \X (1..MaxCs)

\* The job a thread is submitting, the file of a job, the jobs of a file (their fences
\* share a context), the userptr buffers of a list.
JobOf(t) == <<t, num[t]>>
FileOf(j) == load.file[j[1]]
FencesOf(f) == {j \in Job : FileOf(j) = f}
Userptrs(t) == Bos(load.bos[t]) \cap Userptr

Init ==
    /\ InitTtm /\ InitMn
    /\ load \in Workloads
    /\ pc = [t \in Thread |-> "idle"]
    /\ num = [t \in Thread |-> 0]
    /\ tries = [t \in Thread |-> 0]
    /\ user_pages = [t \in Thread |-> None]
    /\ user_invalidated = [t \in Thread |-> 0]
    /\ seq = [t \in Thread |-> 0]
    /\ other = [t \in Thread |-> None]
    /\ mmu_invalidations = [u \in Userptr |-> 0]
    /\ last_set_pages = [u \in Userptr |-> 0]
    /\ pages = [u \in Userptr |-> 0]
    /\ mapping = [u \in Userptr |-> 0]
    /\ sequence = [f \in File |-> 1]
    /\ fences = [f \in File |-> [k \in 0..(SchedJobs - 1) |-> None]]
    /\ handle = [j \in Job |-> 0]
    /\ sync = [j \in Job |-> {}]
    /\ queue = [f \in File |-> <<>>]
    /\ finished = {}
    /\ faults = [signal |-> 0, nomem |-> 0, error |-> 0]

Goto(t, l) == pc' = [pc EXCEPT ![t] = l]

Fault(k) ==
    /\ faults[k] < load[k]
    /\ faults' = [faults EXCEPT ![k] = @ + 1]

-----------------------------------------------------------------------------
(* amdgpu_cs_parser_bos.                                                   *)

reserve_without_pd(t) ==
    /\ pc[t] = "idle"
    /\ num[t] < load.cs[t]
    /\ num' = [num EXCEPT ![t] = @ + 1]
    /\ tries' = [tries EXCEPT ![t] = MaxTries]
    /\ user_pages' = [user_pages EXCEPT ![t] = None]
    /\ ttm_eu_reserve_buffers(t, Tail(load.bos[t]), {})
    /\ Goto(t, "reserve")
    /\ UNCHANGED <<mnVars, load, user_invalidated, seq, other, pageVars, ctxVars, gpuVars, faults>>

\* amdgpu_bo_list_get_list, amdgpu_vm_get_pd_bo, the first reservation.
parser_bos_call(t) ==
    /\ pc[t] = "idle"
    /\ num[t] < load.cs[t]
    /\ num' = [num EXCEPT ![t] = @ + 1]
    /\ tries' = [tries EXCEPT ![t] = MaxTries]
    /\ user_pages' = [user_pages EXCEPT ![t] = None]
    /\ ttm_eu_reserve_buffers(t, load.bos[t], {})
    /\ Goto(t, "reserve")
    /\ UNCHANGED <<mnVars, load, user_invalidated, seq, other, pageVars, ctxVars, gpuVars, faults>>

parser_bos_reserve(t) ==
    /\ pc[t] = "reserve"
    /\ \/ ttm_eu_step(t) /\ UNCHANGED faults
       \/ reserve_interrupted(t) /\ Fault("signal")
       \/ reserve_shared_fails(t) /\ Fault("nomem")
    /\ UNCHANGED <<mnVars, load, parserVars, pageVars, ctxVars, gpuVars>>

\* error_free_pages: nothing is reserved, as far as the caller knows.
parser_bos_failed(t) ==
    /\ pc[t] = "reserve"
    /\ rpc[t] = "failed"
    /\ reserve_returned(t)
    /\ Goto(t, "idle")
    /\ UNCHANGED <<list, mnVars, load, num, tries, user_pages, user_invalidated, seq, other,
                   pageVars, ctxVars, gpuVars, faults>>

needs_pages(u) == mmu_invalidations[u] # last_set_pages[u]

\* amdgpu_ttm_tt_userptr_invalidated: a page array that was invalidated is freed.
userptr_invalidated(t) ==
    /\ pc[t] = "reserve"
    /\ rpc[t] = "reserved"
    /\ \/ Userptrs(t) = {} /\ Goto(t, "sync") /\ UNCHANGED <<user_pages, user_invalidated>>
       \/ \E u \in Userptrs(t) :
             /\ user_pages' = [user_pages EXCEPT
                                 ![t] = IF user_invalidated[t] = mmu_invalidations[u] THEN @ ELSE None]
             /\ user_invalidated' = [user_invalidated EXCEPT ![t] = mmu_invalidations[u]]
             /\ Goto(t, "needs_pages")
    /\ UNCHANGED <<ttmVars, mnVars, load, num, tries, seq, other, pageVars, ctxVars, gpuVars, faults>>

\* amdgpu_ttm_tt_userptr_needs_pages: unreserve everything to get the pages, unless
\* this was the last try.
userptr_needs_pages(t) ==
    /\ pc[t] = "needs_pages"
    /\ \E u \in Userptrs(t) :
          \/ /\ ~needs_pages(u) \/ user_pages[t] # None
             /\ Goto(t, "validate")
             /\ UNCHANGED <<ttmVars, tries>>
          \/ /\ needs_pages(u) /\ user_pages[t] = None
             /\ ttm_eu_backoff_reservation(t)
             /\ list' = [list EXCEPT ![t] = list_del(@, u)]
             /\ tries' = [tries EXCEPT ![t] = @ - 1]
             /\ Goto(t, IF tries[t] = 1 THEN "idle" ELSE "get_pages")
    /\ UNCHANGED <<mnVars, load, num, user_pages, user_invalidated, seq, other, pageVars,
                   ctxVars, gpuVars, faults>>

\* amdgpu_ttm_tt_get_user_pages, which reads the mapping with mmap_sem held, and try
\* again; or it fails.
get_user_pages(t) ==
    /\ pc[t] = "get_pages"
    /\ load.mmap_sem => \A i \in Inv : ipc[i] \in {"out", "done"}
    /\ \E u \in Userptrs(t) :
          \/ /\ user_pages' = [user_pages EXCEPT ![t] = mapping[u]]
             /\ ttm_eu_reserve_buffers(t, <<u>> \o list[t], dups[t])
             /\ Goto(t, "reserve")
             /\ UNCHANGED faults
          \/ /\ Fault("error")
             /\ Goto(t, "idle")
             /\ UNCHANGED <<ttmVars, user_pages>>
    /\ UNCHANGED <<mnVars, load, num, tries, user_invalidated, seq, other, pageVars, ctxVars, gpuVars>>

\* amdgpu_cs_list_validate: somebody may have bound the pages meanwhile.
list_validate(t) ==
    /\ pc[t] = "validate"
    /\ \E u \in Userptrs(t) :
          Goto(t, IF needs_pages(u) /\ user_pages[t] # None THEN "set_pages" ELSE "sync")
    /\ UNCHANGED <<ttmVars, mnVars, load, num, tries, user_pages, user_invalidated, seq, other,
                   pageVars, ctxVars, gpuVars, faults>>

\* amdgpu_ttm_tt_set_user_pages
set_user_pages(t) ==
    /\ pc[t] = "set_pages"
    /\ \E u \in Userptrs(t) :
          /\ last_set_pages' = [last_set_pages EXCEPT ![u] = mmu_invalidations[u]]
          /\ pages' = [pages EXCEPT ![u] = user_pages[t]]
    /\ user_pages' = [user_pages EXCEPT ![t] = None]
    /\ Goto(t, "sync")
    /\ UNCHANGED <<ttmVars, mnVars, load, num, tries, user_invalidated, seq, other,
                   mmu_invalidations, mapping, ctxVars, gpuVars, faults>>

-----------------------------------------------------------------------------
(* amdgpu_cs_sync_rings, amdgpu_cs_submit, amdgpu_cs_parser_fini.          *)

sync_same_owner(t, b) == {j \in resv[b] : FileOf(j) = load.file[t]}

\* amdgpu_sync_resv ignores the shared fences of the same owner.
amdgpu_sync_resv(t, b) == {j \in resv[b] : FileOf(j) # load.file[t]}

\* ... and then amdgpu_mn_lock, if the list has userptr buffers.
amdgpu_cs_sync_rings(t) ==
    /\ pc[t] = "sync"
    /\ sync' = [sync EXCEPT ![JobOf(t)] = UNION {amdgpu_sync_resv(t, b) : b \in Bos(list[t])}]
    /\ \/ Userptrs(t) = {} /\ Goto(t, "job_init") /\ UNCHANGED mnVars
       \/ Userptrs(t) # {} /\ Goto(t, "mn_lock") /\ mn_lock_call(t)
    /\ UNCHANGED <<ttmVars, load, num, tries, user_pages, user_invalidated, seq, other, pageVars,
                   ctxVars, queue, finished, faults>>

\* Validation, parsing or the dependencies fail.
parser_error(t) ==
    /\ pc[t] \in {"validate", "sync"}
    /\ Fault("error")
    /\ Goto(t, "fini")
    /\ UNCHANGED <<ttmVars, mnVars, load, num, tries, user_pages, user_invalidated, seq, other,
                   pageVars, ctxVars, gpuVars>>

cs_submit_lock(t) ==
    /\ pc[t] = "mn_lock"
    /\ amdgpu_mn_lock(t)
    /\ Goto(t, "check")
    /\ UNCHANGED <<ttmVars, load, num, tries, user_pages, user_invalidated, seq, other, pageVars,
                   ctxVars, gpuVars, faults>>

\* -ERESTARTSYS if pages were invalidated since they were set.
cs_submit_check(t) ==
    /\ pc[t] = "check"
    /\ \/ /\ \E u \in Userptrs(t) : needs_pages(u)
          /\ amdgpu_mn_unlock(t)
          /\ Goto(t, "fini")
       \/ /\ \A u \in Userptrs(t) : ~needs_pages(u)
          /\ Goto(t, "job_init")
          /\ UNCHANGED mnVars
    /\ UNCHANGED <<ttmVars, load, num, tries, user_pages, user_invalidated, seq, other, pageVars,
                   ctxVars, gpuVars, faults>>

\* amd_sched_job_init; amdgpu_ctx_add_fence reads the slot of the next fence.
ctx_add_fence_read(t) ==
    /\ pc[t] = "job_init"
    /\ LET f == load.file[t] IN
       \/ /\ seq' = [seq EXCEPT ![t] = sequence[f]]
          /\ other' = [other EXCEPT ![t] = fences[f][sequence[f] % SchedJobs]]
          /\ Goto(t, "add_fence")
          /\ UNCHANGED <<mnVars, faults>>
       \/ /\ Fault("error")
          /\ amdgpu_mn_unlock(t)
          /\ Goto(t, "fini")
          /\ UNCHANGED <<seq, other>>
    /\ UNCHANGED <<ttmVars, load, num, tries, user_pages, user_invalidated, pageVars, ctxVars, gpuVars>>

\* It waits for the fence there and puts the new one in its place.
ctx_add_fence_store(t) ==
    /\ pc[t] = "add_fence"
    /\ other[t] = None \/ other[t] \in finished
    /\ LET f == load.file[t] IN
       /\ fences' = [fences EXCEPT ![f][seq[t] % SchedJobs] = JobOf(t)]
       /\ sequence' = [sequence EXCEPT ![f] = @ + 1]
    /\ handle' = [handle EXCEPT ![JobOf(t)] = seq[t]]
    /\ other' = [other EXCEPT ![t] = None]
    /\ Goto(t, "push")
    /\ UNCHANGED <<ttmVars, mnVars, load, num, tries, user_pages, user_invalidated, seq, pageVars,
                   gpuVars, faults>>

push_unlocked(t) ==
    /\ pc[t] = "push"
    /\ queue' = [queue EXCEPT ![load.file[t]] = Append(@, JobOf(t))]
    /\ amdgpu_mn_unlock(t)
    /\ Goto(t, "fence")
    /\ UNCHANGED <<ttmVars, load, num, tries, user_pages, user_invalidated, seq, other,
                   pageVars, ctxVars, sync, finished, faults>>

\* amd_sched_entity_push_job
cs_submit_push(t) ==
    /\ pc[t] = "push"
    /\ queue' = [queue EXCEPT ![load.file[t]] = Append(@, JobOf(t))]
    /\ Goto(t, "fence")
    /\ UNCHANGED <<ttmVars, mnVars, load, num, tries, user_pages, user_invalidated, seq, other,
                   pageVars, ctxVars, sync, finished, faults>>

cs_submit_fence(t) ==
    /\ pc[t] = "fence"
    /\ ttm_eu_fence_buffer_objects(t, JobOf(t), FencesOf(load.file[t]))
    /\ list' = [list EXCEPT ![t] = <<>>]
    /\ Goto(t, IF Userptrs(t) = {} THEN "idle" ELSE "mn_unlock")
    /\ UNCHANGED <<mnVars, load, num, tries, user_pages, user_invalidated, seq, other, pageVars,
                   ctxVars, gpuVars, faults>>

cs_submit_unlock(t) ==
    /\ pc[t] = "mn_unlock"
    /\ amdgpu_mn_unlock(t)
    /\ Goto(t, "idle")
    /\ UNCHANGED <<ttmVars, load, num, tries, user_pages, user_invalidated, seq, other, pageVars,
                   ctxVars, gpuVars, faults>>

\* amdgpu_cs_parser_fini after an error with the buffers reserved.
amdgpu_cs_parser_fini(t) ==
    /\ pc[t] = "fini"
    /\ ttm_eu_backoff_reservation(t)
    /\ list' = [list EXCEPT ![t] = <<>>]
    /\ Goto(t, "idle")
    /\ UNCHANGED <<mnVars, load, num, tries, user_pages, user_invalidated, seq, other, pageVars,
                   ctxVars, gpuVars, faults>>

\* amdgpu_ctx_get_fence: what a handle stands for.
amdgpu_ctx_get_fence(f, h) ==
    IF h >= sequence[f] THEN "EINVAL"
    ELSE IF h + SchedJobs < sequence[f] THEN None
    ELSE fences[f][h % SchedJobs]

-----------------------------------------------------------------------------
(* The scheduler and the ring run the jobs of a context in order, each one *)
(* once the fences it waits for are signaled.                              *)

Runs(j) == \E f \in File : queue[f] # <<>> /\ j = Head(queue[f]) /\ sync[j] \subseteq finished

JobFinishes(f) ==
    /\ queue[f] # <<>>
    /\ Runs(Head(queue[f]))
    /\ finished' = finished \cup {Head(queue[f])}
    /\ queue' = [queue EXCEPT ![f] = Tail(@)]
    /\ UNCHANGED <<ttmVars, mnVars, load, parserVars, pageVars, ctxVars, sync, faults>>

-----------------------------------------------------------------------------
(* amdgpu_mn_invalidate_range_start_gfx and _range_end, and in between the *)
(* memory management changes the mapping.                                  *)

range_start_lock(i) ==
    /\ i \in load.inv
    /\ \A o \in Inv : <<o, i>> \in load.nested => ipc[o] = "change"
    /\ amdgpu_mn_read_lock(i)
    /\ UNCHANGED <<ttmVars, csVars>>

\* amdgpu_mn_invalidate_node: amdgpu_ttm_tt_affect_userptr ...
affect_userptr(i) ==
    /\ ipc[i] = "start"
    /\ mmu_invalidations' = [u \in Userptr |-> mmu_invalidations[u] + 1]
    /\ invalidate(i, "wait")
    /\ UNCHANGED <<ttmVars, load, parserVars, last_set_pages, pages, mapping, ctxVars, gpuVars, faults>>

\* ... and the wait for the fences of the buffer.
invalidate_node_wait(i) ==
    /\ ipc[i] = "wait"
    /\ \A u \in Userptr : resv[u] \subseteq finished
    /\ invalidate(i, "change")
    /\ UNCHANGED <<ttmVars, csVars>>

change_mapping(i) ==
    /\ ipc[i] = "change"
    /\ \A k \in Inv : <<i, k>> \in load.nested => ipc[k] = "done"
    /\ mapping' = [u \in Userptr |-> mapping[u] + 1]
    /\ invalidate(i, "end")
    /\ UNCHANGED <<ttmVars, load, parserVars, mmu_invalidations, last_set_pages, pages, ctxVars,
                   gpuVars, faults>>

end_drops(i) ==
    /\ ipc[i] = "end"
    /\ readers' = readers - 1
    /\ GotoInv(i, "done")
    /\ UNCHANGED <<read_lock, recursion, writers, waiting, ttmVars, csVars>>

amdgpu_mn_invalidate_range_end(i) ==
    /\ amdgpu_mn_read_unlock(i)
    /\ UNCHANGED <<ttmVars, csVars>>

-----------------------------------------------------------------------------
cs_step(t) ==
    \/ parser_bos_reserve(t) \/ parser_bos_failed(t)
    \/ userptr_invalidated(t) \/ userptr_needs_pages(t) \/ get_user_pages(t)
    \/ list_validate(t) \/ set_user_pages(t) \/ amdgpu_cs_sync_rings(t)
    \/ cs_submit_lock(t) \/ cs_submit_check(t)
    \/ ctx_add_fence_read(t) \/ ctx_add_fence_store(t)
    \/ cs_submit_push(t) \/ cs_submit_fence(t) \/ cs_submit_unlock(t)
    \/ amdgpu_cs_parser_fini(t)

inv_step(i) ==
    \/ range_start_lock(i) \/ affect_userptr(i) \/ invalidate_node_wait(i)
    \/ change_mapping(i) \/ amdgpu_mn_invalidate_range_end(i)

Next ==
    \/ \E t \in Thread : parser_bos_call(t) \/ parser_error(t) \/ cs_step(t)
    \/ \E f \in File : JobFinishes(f)
    \/ \E i \in Inv : inv_step(i)

Spec == Init /\ [][Next]_vars

\* Threads and invalidations that can go on do, except that a reader may stay out
\* of the semaphore while a writer waits; the ring finishes its jobs.
Fairness ==
    /\ \A t \in Thread : WF_vars(cs_step(t))
    /\ \A i \in Inv : WF_vars((ipc[i] = "down" => waiting = {}) /\ inv_step(i))
    /\ WF_vars(\E f \in File : JobFinishes(f))

FairSpec == Spec /\ Fairness

-----------------------------------------------------------------------------
(* Properties.                                                             *)

ParserPhase == {"idle", "reserve", "needs_pages", "get_pages", "validate", "set_pages", "sync",
                "mn_lock", "check", "job_init", "add_fence", "push", "fence", "mn_unlock", "fini"}

\* Every variable keeps to the values the code gives it.
TypeOK ==
    /\ TtmTypes /\ MnTypes
    /\ recursion \in Nat /\ readers \in Nat
    /\ pc \in [Thread -> ParserPhase]
    /\ num \in [Thread -> 0..MaxCs]
    /\ tries \in [Thread -> 0..MaxTries]
    /\ \A t \in Thread : other[t] \in Job \cup {None} /\ user_pages[t] \in Nat \cup {None}
    /\ \A f \in File : Bos(queue[f]) \subseteq Job
    /\ sync \in [Job -> SUBSET Job]
    /\ finished \subseteq Job

Pending == UNION {Bos(queue[f]) : f \in File}

\* Submissions and invalidations use the lock of the MMU notifier in no other way
\* than MnLock says, so what is proved of it holds here.
UsesMnLock == SpecMn

\* A handle that amdgpu_cs_ioctl gave out stands for the fence of its own job, or
\* for none once that job is finished.  amdgpu_ctx_add_fence reads the sequence
\* number and the old fence without the lock under which it stores the new one:
\* that two threads of a context never do so at once is due to the reservation of
\* the page directory.
HandleNamesFence ==
    \A j \in Job : handle[j] # 0 =>
        LET f == amdgpu_ctx_get_fence(FileOf(j), handle[j]) IN
        f = j \/ (f = None /\ j \in finished)

\* Jobs of two files that use the same buffer never run at the same time: whoever
\* reserves the buffer later finds the other's fence.
ImplicitSync ==
    \A j, k \in Pending :
        (Runs(j) /\ Runs(k) /\ FileOf(j) # FileOf(k)) =>
            Bos(load.bos[j[1]]) \cap Bos(load.bos[k[1]]) = {}

\* While the memory management may change the pages of a userptr buffer, between
\* range_start and range_end, no job that uses the buffer is on its way.
InvalidationExcludesJobs ==
    (\E i \in Inv : ipc[i] \in {"change", "end"}) =>
        \A j \in Pending : Userptrs(j[1]) = {}

\* A thread that has left amdgpu_cs_ioctl holds no reservation, on whatever path it
\* left, unless reserve_shared failed.
ReservationsReleased ==
    \A t \in Thread : (pc[t] \in {"idle", "get_pages", "mn_unlock"} /\ faults.nomem = 0) =>
        \A b \in Bo : owner[b] # t

\* "We acquired a page array, but somebody invalidated it. Free it and try again":
\* the pages a job runs with are the ones the user's addresses map to.
NoStalePages ==
    \A j \in Pending : \A u \in Userptrs(j[1]) : pages[u] = mapping[u]

\* Every submission returns, also when threads reserve the same buffers in different
\* orders, when pages are invalidated again and again and when the context's fences
\* run out, unless reserve_shared failed, which leaves a buffer reserved: in the end
\* (a thread makes finitely many) no thread is in amdgpu_cs_ioctl.
EveryCsReturns ==
    <>[](faults.nomem > 0 \/ \A t \in Thread : pc[t] = "idle")

\* Every invalidation ends, although it waits for jobs and for submissions.
InvalidationsEnd == <>[](\A i \in Inv : ipc[i] \in {"out", "done"})
=============================================================================
