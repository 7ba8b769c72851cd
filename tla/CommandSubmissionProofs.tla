---------------------- MODULE CommandSubmissionProofs -----------------------
(***************************************************************************)
(* Any number of threads submit with any lists of buffers: what a thread   *)
(* has reserved, how the jobs of a context are found by whoever reserves   *)
(* one of their buffers later, and that user pages are not invalidated     *)
(* under a job.                                                            *)
(*                                                                         *)
(* All of it is about the time before reservation_object_reserve_shared    *)
(* fails (faults.nomem = 0): afterwards a thread leaves amdgpu_cs_ioctl    *)
(* with a buffer reserved, and none of it is true any more.                *)
(***************************************************************************)
EXTENDS CommandSubmission, LockProofs

\* The provers of a leaf that names none, and the time each of them has.
USE ZenonT(20), SMTT(30)

-----------------------------------------------------------------------------
(* Types.                                                                  *)

ParserTypes ==
    /\ load \in Workloads
    /\ pc \in [Thread -> ParserPhase]
    /\ num \in [Thread -> 0..MaxCs]
    /\ \A t \in Thread : pc[t] # "idle" => JobOf(t) \in Job
    /\ seq \in [Thread -> Nat]
    /\ other \in [Thread -> Job \cup {None}]
    /\ DOMAIN faults = {"signal", "nomem", "error"} /\ faults.nomem \in Nat

ReserveTypes ==
    /\ owner \in [Bo -> Thread \cup {None}]
    /\ resv \in [Bo -> SUBSET Job]
    /\ list \in [Thread -> Seq(Bo)]
    /\ entry \in [Thread -> Nat]
    /\ rpc \in [Thread -> ReservePhase]
    /\ \A t \in Thread : rpc[t] \in {"reserve", "slow"} => entry[t] \in 1..Len(list[t])

JobTypes ==
    /\ sync \in [Job -> SUBSET Job]
    /\ queue \in [File -> Seq(Job)]
    /\ finished \subseteq Job

CtxTypes ==
    /\ sequence \in [File -> Nat \ {0}]
    /\ fences \in [File -> [0..(SchedJobs - 1) -> Job \cup {None}]]
    /\ handle \in [Job -> Nat]

CsTypes == ParserTypes /\ ReserveTypes /\ JobTypes /\ CtxTypes

-----------------------------------------------------------------------------
(* Reservations.                                                           *)

Held(t) == {b \in Bo : owner[b] = t}

\* Where amdgpu_cs_ioctl has everything reserved, and where nothing.
Reserved == {"needs_pages", "validate", "set_pages", "sync", "mn_lock", "check", "job_init",
             "add_fence", "push", "fence", "fini"}
Unreserved == {"idle", "get_pages", "mn_unlock"}

\* What a thread holds that is at entry n of list l in phase r of ttm_eu_reserve_buffers:
\* ReservedPrefix, with the entries in front being distinct.
Prefix(r, l, n, held) ==
    /\ r = "reserve" =>
          /\ held = {l[i] : i \in 1..(n - 1)}
          /\ \A i, k \in 1..(n - 1) : l[i] = l[k] => i = k
    /\ r = "reserved" =>
          /\ held = Bos(l)
          /\ \A i, k \in 1..Len(l) : l[i] = l[k] => i = k
    /\ r \in {"slow", "failed", "out"} => held = {}

\* How far it is where amdgpu_cs_ioctl is at p, and that its list, of buffers B, still names
\* all buffers S of the submission, with the userptr buffers U.
Matches(p, r, B, S, U) ==
    /\ p = "reserve" => r # "out" /\ B = S
    /\ p \in Reserved => r = "reserved" /\ B = S
    /\ p \in Unreserved => r = "out"
    /\ p = "get_pages" => B \cup U = S

Reservation(t) ==
    /\ Prefix(rpc[t], list[t], entry[t], Held(t))
    /\ Matches(pc[t], rpc[t], Bos(list[t]), Bos(load.bos[t]), Userptrs(t))

ReservationInv == faults.nomem = 0 => \A t \in Thread : Reservation(t)

-----------------------------------------------------------------------------
(* Jobs.                                                                   *)

Distinct(l) == \A p, q \in DOMAIN l : l[p] = l[q] => p = q

\* One of the fences F is of the p-th job of a queue l, or of a later one.
Covers(l, p, F) == \E q \in DOMAIN l : q >= p /\ l[q] \in F

\* A job that was pushed.
Gone(j) ==
    \/ j[2] < num[j[1]]
    \/ j[2] = num[j[1]] /\ pc[j[1]] \in {"fence", "mn_unlock", "idle"}

\* A job is pushed once, to the queue of its context, and finished once it has left it.
OnItsWay(f, j) == FileOf(j) = f /\ j \notin finished /\ Gone(j)

Pushed ==
    /\ \A f \in File : Distinct(queue[f])
    /\ \A f \in File : \A p \in DOMAIN queue[f] : OnItsWay(f, queue[f][p])
    /\ \A j \in finished : Gone(j)

\* A job that is pushed while its fence is not yet in the reservation objects.
AtFence(j) == pc[j[1]] = "fence" /\ j = JobOf(j[1])

\* The reservation objects of all its buffers know a job that is not finished, or a later
\* one of its context, as soon as the buffers are unreserved.
Known(l, p) == AtFence(l[p]) \/ \A b \in Bos(load.bos[l[p][1]]) : Covers(l, p, resv[b])

LastIs(l, j) == l # <<>> => l[Len(l)] = j

Fenced ==
    /\ \A t \in Thread : pc[t] = "fence" => LastIs(queue[load.file[t]], JobOf(t))
    /\ \A f \in File : \A p \in DOMAIN queue[f] : Known(queue[f], p)

\* A submission with userptr buffers holds the lock of the MMU notifier while it ...
Locking == {"check", "job_init", "add_fence", "push", "fence", "mn_unlock"}

WriterInv == \A t \in Thread : (pc[t] \in Locking /\ Userptrs(t) # {}) => t \in writers

JobInv == WriterInv /\ Pushed /\ (faults.nomem = 0 => Fenced)

-----------------------------------------------------------------------------
(* The types are kept.                                                     *)

\* What a behaviour may contain does not change.
LEMMA LoadKept == [Next]_vars => UNCHANGED load
<1> USE DEF vars, csVars
<1>1. ASSUME NEW t \in Thread, parser_bos_call(t) \/ parser_error(t) \/ cs_step(t) PROVE UNCHANGED load
  BY <1>1 DEF parser_bos_call, parser_error, cs_step, parser_bos_reserve, parser_bos_failed,
     userptr_invalidated, userptr_needs_pages, get_user_pages, list_validate, set_user_pages,
     amdgpu_cs_sync_rings, cs_submit_lock, cs_submit_check, ctx_add_fence_read, ctx_add_fence_store,
     cs_submit_push, cs_submit_fence, cs_submit_unlock, amdgpu_cs_parser_fini
<1>2. ASSUME NEW i \in Inv, inv_step(i) PROVE UNCHANGED load
  BY <1>2 DEF inv_step, range_start_lock, affect_userptr, invalidate_node_wait, change_mapping,
     amdgpu_mn_invalidate_range_end
<1>3. QED
  BY <1>1, <1>2 DEF Next, JobFinishes

LEMMA CsTypesInit == Init => CsTypes
<1> SUFFICES ASSUME Init PROVE CsTypes
  OBVIOUS
<1>1. ParserTypes
  BY SubmissionAssumption, SMTT(30) DEF Init, ParserTypes, ParserPhase
<1>2. ReserveTypes
  BY SMTT(30) DEF Init, InitTtm, ReserveTypes, ReservePhase
<1>3. JobTypes
  BY SMTT(30) DEF Init, JobTypes
<1>4. CtxTypes
  BY SMTT(30) DEF Init, CtxTypes
<1>5. QED
  BY <1>1, <1>2, <1>3, <1>4 DEF CsTypes

\* Thread t goes on with list l at position n.
LEMMA ReserveTypesNext ==
    ASSUME ReserveTypes, NEW t \in Thread, NEW l \in Seq(Bo), NEW n \in Nat, NEW p \in ReservePhase,
           p \in {"reserve", "slow"} => n \in 1..Len(l),
           list' = [list EXCEPT ![t] = l], entry' = [entry EXCEPT ![t] = n], rpc' = [rpc EXCEPT ![t] = p],
           owner' \in [Bo -> Thread \cup {None}], resv' \in [Bo -> SUBSET Job]
    PROVE  ReserveTypes'
<1>1. /\ list' \in [Thread -> Seq(Bo)] /\ list'[t] = l
      /\ entry' \in [Thread -> Nat] /\ entry'[t] = n
      /\ rpc' \in [Thread -> ReservePhase] /\ rpc'[t] = p
      /\ \A s \in Thread : s # t => list'[s] = list[s] /\ entry'[s] = entry[s] /\ rpc'[s] = rpc[s]
  BY DEF ReserveTypes
<1>2. \A s \in Thread : rpc'[s] \in {"reserve", "slow"} => entry'[s] \in 1..Len(list'[s])
  BY <1>1 DEF ReserveTypes
<1>3. QED
  BY <1>1, <1>2 DEF ReserveTypes

\* The steps of ttm_eu_reserve_buffers.
LEMMA ReserveTypesStep ==
    ASSUME ReserveTypes, NEW t \in Thread,
           ttm_eu_step(t) \/ reserve_interrupted(t) \/ reserve_shared_fails(t)
    PROVE  ReserveTypes'
<1> DEFINE l == list[t]
           n == entry[t]
<1>0. /\ l \in Seq(Bo) /\ n \in 1..Len(l) /\ Len(l) \in Nat /\ rpc[t] \in {"reserve", "slow"}
      /\ list = [list EXCEPT ![t] = l] /\ entry = [entry EXCEPT ![t] = n]
  BY SMTT(30) DEF ReserveTypes, ttm_eu_step, reserve_free, reserve_already, reserve_deadlk, reserve_slow,
     reserve_interrupted, reserve_shared_fails
<1>1. owner' \in [Bo -> Thread \cup {None}] /\ resv' \in [Bo -> SUBSET Job]
  BY DEF ReserveTypes, ttm_eu_step, reserve_free, reserve_already, reserve_deadlk, reserve_slow,
     reserve_interrupted, reserve_shared_fails, Unreserve, Fail
<1>2. ASSUME NEW k \in Seq(Bo), NEW m \in Nat, Continue(t, k, m), m >= 1 PROVE ReserveTypes'
  <2>1. Len(k) \in Nat /\ (IF m > Len(k) THEN "reserved" ELSE "reserve") \in ReservePhase
    BY SMTT(30) DEF ReservePhase
  <2>2. (IF m > Len(k) THEN "reserved" ELSE "reserve") \in {"reserve", "slow"} => m \in 1..Len(k)
    BY <1>2, <2>1, SMTT(30)
  <2>3. QED
    BY <1>1, <1>2, <2>1, <2>2, ReserveTypesNext DEF Continue
<1>3. CASE reserve_free(t)
  BY <1>0, <1>2, <1>3, SMTT(30) DEF reserve_free
<1>4. CASE reserve_already(t)
  BY <1>0, <1>2, <1>4, WithoutProps, SMTT(30) DEF reserve_already
<1>5. CASE reserve_slow(t)
  <2>1. MoveToFront(l, n) \in Seq(Bo)
    BY <1>0, MoveToFrontProps
  <2>2. Continue(t, MoveToFront(l, n), 2) /\ 2 >= 1 /\ 2 \in Nat
    BY <1>5, SMTT(30) DEF reserve_slow
  <2>3. QED
    BY <1>2, <2>1, <2>2
<1>6. CASE reserve_deadlk(t)
  <2>1. /\ list' = [list EXCEPT ![t] = l] /\ entry' = [entry EXCEPT ![t] = n]
        /\ rpc' = [rpc EXCEPT ![t] = "slow"] /\ n \in Nat /\ "slow" \in ReservePhase
    BY <1>0, <1>6, SMTT(30) DEF reserve_deadlk, ReservePhase
  <2>2. QED
    BY <1>0, <1>1, <2>1, ReserveTypesNext
<1>7. CASE reserve_interrupted(t) \/ reserve_shared_fails(t)
  <2>1. /\ list' = [list EXCEPT ![t] = l] /\ entry' = [entry EXCEPT ![t] = n]
        /\ rpc' = [rpc EXCEPT ![t] = "failed"] /\ n \in Nat /\ "failed" \in ReservePhase
    BY <1>0, <1>7, SMTT(30) DEF reserve_interrupted, reserve_shared_fails, Fail, ReservePhase
  <2>2. QED
    BY <1>0, <1>1, <2>1, ReserveTypesNext
<1>8. QED
  BY <1>3, <1>4, <1>5, <1>6, <1>7 DEF ttm_eu_step

\* What the program makes of its files, threads and lists.
LEMMA LoadProps ==
    ASSUME ParserTypes
    PROVE  /\ load.bos \in [Thread -> Seq(Bo)]
           /\ \A t \in Thread : load.bos[t] # <<>> /\ load.bos[t][1] \notin Userptr
           /\ \A s, t \in Thread : load.file[s] = load.file[t] => load.bos[s][1] = load.bos[t][1]
           /\ \A t \in Thread : \A u, v \in Userptrs(t) : u = v
           /\ load.cs \in [Thread -> 0..MaxCs]
           /\ \A t \in Thread : load.file[t] \in File /\ Userptrs(t) \subseteq Bo
<1>1. load \in Workloads
  BY DEF ParserTypes
<1>2. ASSUME NEW t \in Thread, NEW u \in Userptrs(t), NEW v \in Userptrs(t) PROVE u = v
  BY <1>1, WorkloadsAssumption, SMTT(30) DEF Userptrs, Bos
<1>3. QED
  BY <1>1, <1>2, WorkloadsAssumption, SubmissionAssumption DEF File, Userptrs

LEMMA ParserTypesStep == ASSUME CsTypes, [Next]_vars PROVE ParserTypes'
<1> USE DEF parserVars, Goto
<1>0. /\ ParserTypes /\ UNCHANGED load
      /\ \A t \in Thread : load.file[t] \in File
  BY LoadKept, LoadProps DEF CsTypes
<1>1. ASSUME UNCHANGED <<pc, num, seq, other>>,
             faults' = faults \/ \E k \in {"signal", "nomem", "error"} : Fault(k)
      PROVE  ParserTypes'
  BY <1>0, <1>1, SMTT(30) DEF ParserTypes, Fault, JobOf
<1>2. ASSUME NEW t \in Thread, NEW l \in ParserPhase, pc' = [pc EXCEPT ![t] = l], pc[t] # "idle",
             UNCHANGED <<num, seq, other>>, faults' = faults \/ Fault("error")
      PROVE  ParserTypes'
  BY <1>0, <1>2 DEF ParserTypes, Fault, JobOf
<1>3. ASSUME NEW t \in Thread, parser_bos_call(t) PROVE ParserTypes'
  <2>1. num[t] + 1 \in 1..MaxCs /\ num[t] + 1 \in 0..MaxCs
    BY <1>0, <1>3, LoadProps, SubmissionAssumption, SMTT(30) DEF parser_bos_call, ParserTypes
  <2>2. QED
    BY <1>0, <1>3, <2>1 DEF parser_bos_call, ParserTypes, ParserPhase, JobOf, Job
<1>4. ASSUME NEW t \in Thread, parser_bos_reserve(t) PROVE ParserTypes'
  BY <1>1, <1>4 DEF parser_bos_reserve
<1>5. ASSUME NEW t \in Thread, parser_error(t) \/ parser_bos_failed(t) \/ userptr_invalidated(t)
                               \/ userptr_needs_pages(t) \/ get_user_pages(t)
      PROVE  ParserTypes'
  <2>1. /\ pc[t] # "idle" /\ UNCHANGED <<num, seq, other>> /\ (faults' = faults \/ Fault("error"))
        /\ \E l \in ParserPhase : pc' = [pc EXCEPT ![t] = l]
    BY <1>5 DEF parser_error, parser_bos_failed, userptr_invalidated, userptr_needs_pages,
       get_user_pages, ParserPhase
  <2>2. QED
    BY <1>2, <2>1
<1>6. ASSUME NEW t \in Thread, list_validate(t) \/ set_user_pages(t) \/ amdgpu_cs_sync_rings(t)
                               \/ cs_submit_lock(t) \/ cs_submit_check(t) \/ cs_submit_push(t)
                               \/ cs_submit_fence(t) \/ cs_submit_unlock(t) \/ amdgpu_cs_parser_fini(t)
      PROVE  ParserTypes'
  <2>1. /\ pc[t] # "idle" /\ UNCHANGED <<num, seq, other, faults>>
        /\ \E l \in ParserPhase : pc' = [pc EXCEPT ![t] = l]
    BY <1>6 DEF list_validate, set_user_pages, amdgpu_cs_sync_rings, cs_submit_lock, cs_submit_check,
       cs_submit_push, cs_submit_fence, cs_submit_unlock, amdgpu_cs_parser_fini, ParserPhase
  <2>2. QED
    BY <1>2, <2>1
<1>7. ASSUME NEW t \in Thread, ctx_add_fence_read(t) PROVE ParserTypes'
  <2>0. pc[t] = "job_init" /\ num' = num
    BY <1>7 DEF ctx_add_fence_read
  <2>1. CASE Fault("error") /\ Goto(t, "fini") /\ UNCHANGED <<seq, other>>
    BY <1>2, <2>0, <2>1 DEF ParserPhase
  <2>2. CASE /\ seq' = [seq EXCEPT ![t] = sequence[load.file[t]]]
             /\ other' = [other EXCEPT ![t] = fences[load.file[t]][sequence[load.file[t]] % SchedJobs]]
             /\ Goto(t, "add_fence") /\ UNCHANGED faults
    <3>1. /\ sequence[load.file[t]] \in Nat
          /\ sequence[load.file[t]] % SchedJobs \in 0..(SchedJobs - 1)
      BY <1>0, SubmissionAssumption, SMTT(30) DEF CsTypes, CtxTypes
    <3>2. fences[load.file[t]][sequence[load.file[t]] % SchedJobs] \in Job \cup {None}
      BY <1>0, <3>1 DEF CsTypes, CtxTypes
    <3>3. QED
      BY <1>0, <2>0, <2>2, <3>1, <3>2 DEF ParserTypes, ParserPhase, JobOf
  <2>3. QED
    BY <1>7, <2>1, <2>2 DEF ctx_add_fence_read
<1>8. ASSUME NEW t \in Thread, ctx_add_fence_store(t) PROVE ParserTypes'
  BY <1>0, <1>8 DEF ctx_add_fence_store, ParserTypes, ParserPhase, JobOf
<1>9. CASE UNCHANGED <<parserVars, faults>>
  BY <1>1, <1>9
<1>10. ASSUME NEW i \in Inv, inv_step(i) PROVE ParserTypes'
  BY <1>9, <1>10 DEF inv_step, range_start_lock, affect_userptr, invalidate_node_wait,
     change_mapping, amdgpu_mn_invalidate_range_end, csVars
<1>11. QED
  BY <1>3, <1>4, <1>5, <1>6, <1>7, <1>8, <1>9, <1>10
  DEF Next, cs_step, JobFinishes, vars, csVars

LEMMA JobTypesStep == ASSUME CsTypes, [Next]_vars PROVE JobTypes' /\ CtxTypes'
<1> USE DEF gpuVars, ctxVars
<1>0. /\ ParserTypes /\ ReserveTypes /\ JobTypes /\ CtxTypes /\ UNCHANGED load /\ File' = File
      /\ \A t \in Thread : load.file[t] \in File
  BY LoadKept, LoadProps DEF CsTypes, File
<1>1. UNCHANGED gpuVars => JobTypes'
  BY <1>0 DEF JobTypes
<1>2. UNCHANGED ctxVars => CtxTypes'
  BY <1>0 DEF CtxTypes
<1>3. ASSUME NEW t \in Thread, amdgpu_cs_sync_rings(t) PROVE JobTypes' /\ CtxTypes'
  <2>1. JobOf(t) \in Job
    BY <1>0, <1>3 DEF amdgpu_cs_sync_rings, ParserTypes
  <2>2. \A b \in Bos(list[t]) : amdgpu_sync_resv(t, b) \subseteq Job
    <3>1. Bos(list[t]) \subseteq Bo
      BY <1>0, BosOf DEF ReserveTypes
    <3>2. QED
      BY <1>0, <3>1 DEF ReserveTypes, amdgpu_sync_resv
  <2>3. UNION {amdgpu_sync_resv(t, b) : b \in Bos(list[t])} \in SUBSET Job
    BY <2>2
  <2>4. QED
    BY <1>0, <1>2, <1>3, <2>1, <2>3 DEF amdgpu_cs_sync_rings, JobTypes
<1>4. ASSUME NEW t \in Thread, cs_submit_push(t) PROVE JobTypes' /\ CtxTypes'
  <2>1. JobOf(t) \in Job
    BY <1>0, <1>4 DEF cs_submit_push, ParserTypes
  <2>2. QED
    BY <1>0, <1>2, <1>4, <2>1, SMTT(30) DEF cs_submit_push, JobTypes
<1>5. ASSUME NEW t \in Thread, ctx_add_fence_store(t) PROVE JobTypes' /\ CtxTypes'
  <2> DEFINE f == load.file[t]
             k == seq[t] % SchedJobs
  <2>1. JobOf(t) \in Job /\ seq[t] \in Nat /\ f \in File
    BY <1>0, <1>5 DEF ctx_add_fence_store, ParserTypes
  <2>2. k \in 0..(SchedJobs - 1)
    BY <2>1, SubmissionAssumption, SMTT(30)
  <2> HIDE DEF f, k
  <2>3. fences' = [fences EXCEPT ![f] = [fences[f] EXCEPT ![k] = JobOf(t)]]
    BY <1>5 DEF ctx_add_fence_store, f, k
  <2>4. [fences[f] EXCEPT ![k] = JobOf(t)] \in [0..(SchedJobs - 1) -> Job \cup {None}]
    BY <1>0, <2>1, <2>2 DEF CtxTypes
  <2>5. fences' \in [File -> [0..(SchedJobs - 1) -> Job \cup {None}]]
    BY <1>0, <2>1, <2>3, <2>4 DEF CtxTypes
  <2>6. sequence' \in [File -> Nat \ {0}] /\ handle' \in [Job -> Nat]
    BY <1>0, <1>5, <2>1, SMTT(30) DEF ctx_add_fence_store, CtxTypes
  <2>7. QED
    BY <1>0, <1>1, <1>5, <2>5, <2>6 DEF ctx_add_fence_store, CtxTypes
<1>6. ASSUME NEW f \in File, JobFinishes(f) PROVE JobTypes' /\ CtxTypes'
  <2>1. queue[f] \in Seq(Job) /\ queue[f] # <<>>
    BY <1>0, <1>6 DEF JobFinishes, JobTypes
  <2>2. Head(queue[f]) \in Job /\ Tail(queue[f]) \in Seq(Job)
    BY <2>1, SMTT(30)
  <2>3. QED
    BY <1>0, <1>2, <1>6, <2>2 DEF JobFinishes, JobTypes
<1>7. CASE UNCHANGED <<gpuVars, ctxVars>>
  BY <1>1, <1>2, <1>7
<1>8. ASSUME NEW t \in Thread, \/ parser_bos_call(t) \/ parser_error(t) \/ parser_bos_reserve(t)
                               \/ parser_bos_failed(t) \/ userptr_invalidated(t)
                               \/ userptr_needs_pages(t) \/ get_user_pages(t) \/ list_validate(t)
                               \/ set_user_pages(t) \/ cs_submit_lock(t) \/ cs_submit_check(t)
                               \/ ctx_add_fence_read(t) \/ cs_submit_fence(t)
                               \/ cs_submit_unlock(t) \/ amdgpu_cs_parser_fini(t)
      PROVE  JobTypes' /\ CtxTypes'
  BY <1>7, <1>8 DEF parser_bos_call, parser_error, parser_bos_reserve, parser_bos_failed,
     userptr_invalidated, userptr_needs_pages, get_user_pages, list_validate, set_user_pages,
     cs_submit_lock, cs_submit_check, ctx_add_fence_read, cs_submit_fence, cs_submit_unlock,
     amdgpu_cs_parser_fini
<1>9. ASSUME NEW i \in Inv, inv_step(i) PROVE JobTypes' /\ CtxTypes'
  BY <1>7, <1>9 DEF inv_step, range_start_lock, affect_userptr, invalidate_node_wait,
     change_mapping, amdgpu_mn_invalidate_range_end, csVars
<1>10. QED
  BY <1>3, <1>4, <1>5, <1>6, <1>7, <1>8, <1>9 DEF Next, cs_step, vars, csVars

\* The steps between the reservation and the fence, and the last one.
Moves(t) ==
    /\ UNCHANGED <<ttmVars, faults>> \/ (UNCHANGED ttmVars /\ Fault("error"))
    /\ \/ /\ pc[t] \in Reserved \ {"fence", "fini"} \/ (pc[t] = "reserve" /\ rpc[t] = "reserved")
          /\ \E l \in Reserved : Goto(t, l)
       \/ pc[t] = "mn_unlock" /\ Goto(t, "idle")

\* The steps that change what is reserved.
LEMMA ReserveCases ==
    ASSUME [Next]_vars
    PROVE  \/ \E t \in Thread : \/ parser_bos_call(t) \/ parser_bos_reserve(t) \/ parser_bos_failed(t)
                                \/ userptr_needs_pages(t) \/ get_user_pages(t)
                                \/ cs_submit_fence(t) \/ amdgpu_cs_parser_fini(t)
                                \/ Moves(t)
           \/ UNCHANGED <<ttmVars, pc, faults>>
<1> USE DEF Goto, Reserved
<1>1. ASSUME NEW t \in Thread, parser_error(t) \/ userptr_invalidated(t) \/ list_validate(t)
      PROVE  Moves(t)
  BY <1>1 DEF parser_error, userptr_invalidated, list_validate, Moves
<1>2. ASSUME NEW t \in Thread, set_user_pages(t) \/ amdgpu_cs_sync_rings(t) \/ cs_submit_lock(t)
      PROVE  Moves(t)
  <2>1. /\ pc[t] \in {"set_pages", "sync", "mn_lock"} /\ UNCHANGED <<ttmVars, faults>>
        /\ \E l \in {"sync", "job_init", "mn_lock", "check"} : Goto(t, l)
    BY <1>2 DEF set_user_pages, amdgpu_cs_sync_rings, cs_submit_lock
  <2>2. QED
    BY <2>1 DEF Moves
<1>3. ASSUME NEW t \in Thread, cs_submit_check(t) \/ ctx_add_fence_store(t) \/ cs_submit_push(t)
                               \/ cs_submit_unlock(t)
      PROVE  Moves(t)
  BY <1>3 DEF cs_submit_check, ctx_add_fence_store, cs_submit_push, cs_submit_unlock, Moves
<1>4. ASSUME NEW t \in Thread, ctx_add_fence_read(t) PROVE Moves(t)
  <2>1. /\ pc[t] = "job_init" /\ UNCHANGED ttmVars
        /\ \/ Goto(t, "add_fence") /\ UNCHANGED faults
           \/ Fault("error") /\ Goto(t, "fini")
    BY <1>4 DEF ctx_add_fence_read
  <2>2. QED
    BY <2>1 DEF Moves
<1>5. CASE UNCHANGED vars
  BY <1>5 DEF vars, csVars, parserVars
<1>6. ASSUME NEW f \in File, JobFinishes(f) PROVE UNCHANGED <<ttmVars, pc, faults>>
  BY <1>6 DEF JobFinishes, parserVars
<1>7. ASSUME NEW i \in Inv, inv_step(i) PROVE UNCHANGED <<ttmVars, pc, faults>>
  BY <1>7 DEF inv_step, range_start_lock, affect_userptr, invalidate_node_wait,
     change_mapping, amdgpu_mn_invalidate_range_end, csVars, parserVars
<1>8. QED
  BY <1>1, <1>2, <1>3, <1>4, <1>5, <1>6, <1>7 DEF Next, cs_step

LEMMA ReserveTypesAll == ASSUME CsTypes, [Next]_vars PROVE ReserveTypes'
<1> USE DEF ttmVars
<1>0. /\ ParserTypes /\ ReserveTypes
      /\ \A t \in Thread : list = [list EXCEPT ![t] = list[t]] /\ list[t] \in Seq(Bo)
      /\ {"out", "reserve"} \subseteq ReservePhase /\ 0 \in Nat /\ 1 \in Nat /\ <<>> \in Seq(Bo)
  BY SMTT(30) DEF CsTypes, ReserveTypes, ReservePhase
<1>1. CASE UNCHANGED ttmVars
  BY <1>0, <1>1 DEF ReserveTypes
<1>2. ASSUME NEW t \in Thread, NEW l \in Seq(Bo), NEW d, l # <<>>, ttm_eu_reserve_buffers(t, l, d)
      PROVE  ReserveTypes'
  <2>1. 1 \in 1..Len(l) /\ UNCHANGED <<owner, resv>>
    BY <1>2, SMTT(30) DEF ttm_eu_reserve_buffers
  <2>2. owner' \in [Bo -> Thread \cup {None}] /\ resv' \in [Bo -> SUBSET Job]
    BY <1>0, <2>1 DEF ReserveTypes
  <2>3. QED
    BY <1>0, <1>2, <2>1, <2>2, ReserveTypesNext DEF ttm_eu_reserve_buffers
<1>3. ASSUME NEW t \in Thread, NEW l \in Seq(Bo), ttm_eu_backoff_reservation(t) \/ reserve_returned(t),
             list' = [list EXCEPT ![t] = l]
      PROVE  ReserveTypes'
  <2>1. owner' \in [Bo -> Thread \cup {None}] /\ resv' \in [Bo -> SUBSET Job]
    BY <1>0, <1>3 DEF ReserveTypes, ttm_eu_backoff_reservation, reserve_returned, Unreserve
  <2>2. entry' = [entry EXCEPT ![t] = 0] /\ rpc' = [rpc EXCEPT ![t] = "out"]
    BY <1>3 DEF ttm_eu_backoff_reservation, reserve_returned
  <2>3. QED
    BY <1>0, <1>3, <2>1, <2>2, ReserveTypesNext
<1>4. ASSUME NEW t \in Thread, parser_bos_call(t) PROVE ReserveTypes'
  BY <1>0, <1>2, <1>4, LoadProps DEF parser_bos_call
<1>5. ASSUME NEW t \in Thread, parser_bos_reserve(t) PROVE ReserveTypes'
  BY <1>0, <1>5, ReserveTypesStep DEF parser_bos_reserve
<1>6. ASSUME NEW t \in Thread, parser_bos_failed(t) PROVE ReserveTypes'
  BY <1>0, <1>3, <1>6 DEF parser_bos_failed
<1>7. ASSUME NEW t \in Thread, userptr_needs_pages(t) PROVE ReserveTypes'
  <2>1. ASSUME NEW u PROVE list_del(list[t], u) \in Seq(Bo)
    BY <1>0, ListDelProps
  <2>2. QED
    BY <1>1, <1>3, <1>7, <2>1 DEF userptr_needs_pages
<1>8. ASSUME NEW t \in Thread, get_user_pages(t) PROVE ReserveTypes'
  <2>1. ASSUME NEW u \in Userptrs(t) PROVE <<u>> \o list[t] \in Seq(Bo) /\ <<u>> \o list[t] # <<>>
    <3>1. u \in Bo /\ list[t] \in Seq(Bo)
      BY <1>0, LoadProps
    <3>2. QED
      BY <3>1, SMTT(30)
  <2>2. QED
    BY <1>1, <1>2, <1>8, <2>1 DEF get_user_pages
<1>9. ASSUME NEW t \in Thread, cs_submit_fence(t) PROVE ReserveTypes'
  <2> DEFINE j == JobOf(t)
             F == FencesOf(load.file[t])
  <2>1. j \in Job
    BY <1>0, <1>9 DEF cs_submit_fence, ParserTypes
  <2> HIDE DEF j, F
  <2>2. ttm_eu_fence_buffer_objects(t, j, F) /\ list' = [list EXCEPT ![t] = <<>>]
    BY <1>9 DEF cs_submit_fence, j, F
  <2>3. owner' \in [Bo -> Thread \cup {None}] /\ resv' \in [Bo -> SUBSET Job]
    BY <1>0, <2>1, <2>2 DEF ReserveTypes, ttm_eu_fence_buffer_objects, Unreserve, AddShared
  <2>4. entry' = [entry EXCEPT ![t] = 0] /\ rpc' = [rpc EXCEPT ![t] = "out"]
    BY <2>2 DEF ttm_eu_fence_buffer_objects
  <2>5. QED
    BY <1>0, <2>2, <2>3, <2>4, ReserveTypesNext
<1>10. ASSUME NEW t \in Thread, amdgpu_cs_parser_fini(t) PROVE ReserveTypes'
  BY <1>0, <1>3, <1>10 DEF amdgpu_cs_parser_fini
<1>11. ASSUME NEW t \in Thread, Moves(t) PROVE ReserveTypes'
  BY <1>1, <1>11 DEF Moves
<1>12. QED
  BY <1>1, <1>4, <1>5, <1>6, <1>7, <1>8, <1>9, <1>10, <1>11, ReserveCases

LEMMA CsTypesStep == ASSUME CsTypes, [Next]_vars PROVE CsTypes'
BY ParserTypesStep, JobTypesStep, ReserveTypesAll DEF CsTypes

-----------------------------------------------------------------------------
(* A thread holds the entries in front of the one it is at.                *)

\* A step of thread t leaves the others where they are, and their buffers.
Local(t) ==
    /\ \A s \in Thread : s # t => /\ list'[s] = list[s] /\ entry'[s] = entry[s]
                                  /\ rpc'[s] = rpc[s] /\ pc'[s] = pc[s]
    /\ \A b \in Bo : owner'[b] = owner[b] \/ (owner[b] \in {None, t} /\ owner'[b] \in {None, t})

LEMMA ReservationFrame ==
    ASSUME UNCHANGED load, NEW t \in Thread, Local(t), \A s \in Thread : Reservation(s), Reservation(t)'
    PROVE  \A s \in Thread : Reservation(s)'
<1> SUFFICES ASSUME NEW s \in Thread, s # t PROVE Reservation(s)'
  OBVIOUS
<1>1. Held(s)' = Held(s)
  BY SubmissionAssumption DEF Held, Local
<1>2. QED
  BY <1>1 DEF Local, Reservation, Userptrs

\* Thread t arrives somewhere.
LEMMA ReservationAt ==
    ASSUME UNCHANGED load, NEW t \in Thread, NEW p, NEW r, NEW l, NEW n, NEW held,
           pc'[t] = p, rpc'[t] = r, list'[t] = l, entry'[t] = n, Held(t)' = held,
           Prefix(r, l, n, held), Matches(p, r, Bos(l), Bos(load.bos[t]), Userptrs(t))
    PROVE  Reservation(t)'
BY DEF Reservation, Userptrs

\* It goes on at position n of list l, and holds what is in front of it.
LEMMA PrefixOf ==
    ASSUME NEW l \in Seq(Bo), NEW n \in 1..(Len(l) + 1),
           \A i, k \in 1..(n - 1) : l[i] = l[k] => i = k
    PROVE  Prefix(IF n > Len(l) THEN "reserved" ELSE "reserve", l, n, {l[i] : i \in 1..(n - 1)})
<1>1. CASE n > Len(l)
  <2>1. n - 1 = Len(l) /\ Bos(l) = {l[i] : i \in 1..Len(l)}
    BY <1>1, BosOf, SMTT(30)
  <2>2. QED
    BY <1>1, <2>1 DEF Prefix
<1>2. CASE ~(n > Len(l))
  BY <1>2 DEF Prefix
<1>3. QED
  BY <1>1, <1>2

LEMMA ContinueReservation ==
    ASSUME ReserveTypes, UNCHANGED <<load, pc>>, NEW t \in Thread, pc[t] = "reserve",
           NEW l \in Seq(Bo), NEW n \in 1..(Len(l) + 1), Continue(t, l, n),
           Held(t)' = {l[i] : i \in 1..(n - 1)},
           \A i, k \in 1..(n - 1) : l[i] = l[k] => i = k,
           Bos(l) = Bos(load.bos[t])
    PROVE  Reservation(t)'
<1> DEFINE r == IF n > Len(l) THEN "reserved" ELSE "reserve"
<1>1. list'[t] = l /\ entry'[t] = n /\ rpc'[t] = r /\ pc'[t] = "reserve" /\ load' = load
  BY DEF Continue, ReserveTypes
<1>2. Prefix(r, l, n, Held(t)')
  BY PrefixOf
<1>3. r # "out"
  OBVIOUS
<1> HIDE DEF r
<1>4. Matches("reserve", r, Bos(l), Bos(load.bos[t]), Userptrs(t))
  BY <1>3 DEF Matches, Reserved, Unreserved
<1>5. QED
  BY <1>1, <1>2, <1>4, ReservationAt

\* A thread takes buffer c, or drops what it holds.
LEMMA HeldTaken ==
    ASSUME owner \in [Bo -> Thread \cup {None}], NEW t \in Thread, t # None, NEW c \in Bo,
           owner[c] = None, owner' = [owner EXCEPT ![c] = t]
    PROVE  Held(t)' = Held(t) \cup {c} /\ c \notin Held(t)
BY DEF Held

LEMMA HeldDropped ==
    ASSUME NEW t \in Thread, t # None, Unreserve(Held(t)) \/ (UNCHANGED owner /\ Held(t) = {})
    PROVE  Held(t)' = {} /\ \A b \in Bo : owner'[b] = owner[b] \/ (owner[b] = t /\ owner'[b] = None)
BY DEF Held, Unreserve

\* The steps of ttm_eu_reserve_buffers.
LEMMA ReservationStep ==
    ASSUME ReserveTypes, UNCHANGED <<load, pc>>, NEW t \in Thread, pc[t] = "reserve", Reservation(t),
           ttm_eu_step(t) \/ reserve_interrupted(t)
    PROVE  Local(t) /\ Reservation(t)'
<1> DEFINE l == list[t]
           n == entry[t]
           c == Current(t)
<1>1. rpc[t] \in {"reserve", "slow"}
  BY DEF ttm_eu_step, reserve_free, reserve_already, reserve_deadlk, reserve_slow,
     reserve_interrupted
<1>2. /\ l \in Seq(Bo) /\ n \in 1..Len(l) /\ c = l[n] /\ c \in Bo
      /\ owner \in [Bo -> Thread \cup {None}] /\ t # None
  BY <1>1, SubmissionAssumption, SMTT(30) DEF ReserveTypes, Current
<1>3. Bos(l) = Bos(load.bos[t]) /\ Prefix(rpc[t], l, n, Held(t))
  BY DEF Reservation, Matches
<1>4. /\ rpc[t] = "reserve" => /\ Held(t) = {l[i] : i \in 1..(n - 1)} /\ Held(t) = Visited(t)
                               /\ \A i, k \in 1..(n - 1) : l[i] = l[k] => i = k
      /\ rpc[t] = "slow" => Held(t) = {}
  BY <1>2, <1>3, VisitedProps DEF Prefix, Visited
<1>5. ASSUME NEW k, NEW m, Continue(t, k, m),
             UNCHANGED owner \/ (owner[c] = None /\ owner' = [owner EXCEPT ![c] = t])
      PROVE  Local(t)
  <2>1. \A s \in Thread : s # t => list'[s] = list[s] /\ entry'[s] = entry[s] /\ rpc'[s] = rpc[s]
    BY <1>5 DEF Continue, ReserveTypes
  <2>2. \A b \in Bo : owner'[b] = owner[b] \/ (owner[b] \in {None, t} /\ owner'[b] \in {None, t})
    BY <1>2, <1>5
  <2>3. QED
    BY <2>1, <2>2 DEF Local
<1>6. ASSUME NEW r \in {"slow", "failed"}, Unreserve(Held(t)), rpc' = [rpc EXCEPT ![t] = r],
             UNCHANGED <<list, entry>>
      PROVE  Local(t) /\ Reservation(t)'
  <2>1. Held(t)' = {} /\ \A b \in Bo : owner'[b] = owner[b] \/ (owner[b] = t /\ owner'[b] = None)
    BY <1>2, <1>6, HeldDropped
  <2>2. rpc'[t] = r /\ \A s \in Thread : s # t => rpc'[s] = rpc[s]
    BY <1>6 DEF ReserveTypes
  <2>3. Prefix(r, l, n, {}) /\ Matches("reserve", r, Bos(l), Bos(load.bos[t]), Userptrs(t))
    BY <1>3 DEF Prefix, Matches, Reserved, Unreserved
  <2>4. Local(t)
    BY <1>6, <2>1, <2>2 DEF Local
  <2>5. QED
    BY <1>6, <2>1, <2>2, <2>3, <2>4, ReservationAt
<1> HIDE DEF l, n, c
<1>7. CASE reserve_free(t)
  <2> DEFINE m == n + 1
  <2>1. /\ rpc[t] = "reserve" /\ owner[c] = None /\ owner' = [owner EXCEPT ![c] = t]
        /\ Continue(t, l, m)
    BY <1>7 DEF reserve_free, l, n, c
  <2>0. m = n + 1
    OBVIOUS
  <2> HIDE DEF m
  <2>2. Held(t)' = Held(t) \cup {l[n]} /\ l[n] \notin Held(t)
    BY <1>2, <2>1, HeldTaken
  <2>3. Held(t) = {l[i] : i \in 1..(n - 1)} /\ \A i, k \in 1..(n - 1) : l[i] = l[k] => i = k
    BY <1>4, <2>1
  <2>4. /\ m \in 1..(Len(l) + 1)
        /\ Held(t)' = {l[i] : i \in 1..(m - 1)}
        /\ \A i, k \in 1..(m - 1) : l[i] = l[k] => i = k
    <3>1. /\ m \in 1..(Len(l) + 1) /\ Held(t) \cup {l[n]} = {l[i] : i \in 1..(m - 1)}
          /\ \A i, k \in 1..(m - 1) : l[i] = l[k] => i = k
      BY <1>2, <2>0, <2>2, <2>3, TakeEntry, SMTT(30)
    <3>2. QED
      BY <2>2, <3>1
  <2>5. Reservation(t)'
    BY <1>2, <1>3, <2>1, <2>4, ContinueReservation
  <2>6. QED
    BY <1>5, <2>1, <2>5
<1>8. CASE reserve_already(t)
  <2> DEFINE k == Without(l, n)
  <2>1. rpc[t] = "reserve" /\ owner[c] = t /\ UNCHANGED owner /\ Continue(t, k, n)
    BY <1>8 DEF reserve_already, l, n, c
  <2>2. Held(t)' = Held(t) /\ c \in Held(t)
    BY <1>2, <2>1 DEF Held
  <2>3. /\ k \in Seq(Bo) /\ n \in 1..(Len(k) + 1)
        /\ Held(t)' = {k[i] : i \in 1..(n - 1)}
        /\ \A i, h \in 1..(n - 1) : k[i] = k[h] => i = h
        /\ Bos(k) = Bos(l)
    BY <1>2, <1>4, <2>1, <2>2, DropEntry
  <2> HIDE DEF k
  <2>4. Reservation(t)'
    BY <1>3, <2>1, <2>3, ContinueReservation
  <2>5. QED
    BY <1>5, <2>1, <2>4
<1>9. CASE reserve_deadlk(t)
  BY <1>4, <1>6, <1>9 DEF reserve_deadlk
<1>10. CASE reserve_slow(t)
  <2> DEFINE k == MoveToFront(l, n)
  <2>1. rpc[t] = "slow" /\ owner[c] = None /\ owner' = [owner EXCEPT ![c] = t] /\ Continue(t, k, 2)
    BY <1>10 DEF reserve_slow, l, n, c
  <2>2. /\ k \in Seq(Bo) /\ Bos(k) = Bos(l) /\ {l[n]} = {k[i] : i \in 1..(2 - 1)}
        /\ 2 \in 1..(Len(k) + 1) /\ \A i, h \in 1..(2 - 1) : k[i] = k[h] => i = h
    BY <1>2, FrontEntry
  <2> HIDE DEF k
  <2>3. Held(t)' = {} \cup {l[n]}
    BY <1>2, <1>4, <2>1, HeldTaken
  <2>4. Held(t)' = {k[i] : i \in 1..(2 - 1)}
    BY <2>2, <2>3
  <2>5. Reservation(t)'
    BY <1>3, <2>1, <2>2, <2>4, ContinueReservation
  <2>6. QED
    BY <1>5, <2>1, <2>5
<1>11. CASE reserve_interrupted(t)
  <2>1. (IF rpc[t] = "reserve" THEN Visited(t) ELSE {}) = Held(t)
    BY <1>1, <1>4
  <2>2. QED
    BY <1>6, <1>11, <2>1 DEF reserve_interrupted, Fail
<1>12. QED
  BY <1>7, <1>8, <1>9, <1>10, <1>11 DEF ttm_eu_step

LEMMA PrefixOut == ASSUME NEW l, NEW n, NEW h, Prefix("out", l, n, h) PROVE h = {}
BY DEF Prefix

LEMMA PrefixCall ==
    ASSUME NEW l, NEW S, NEW U
    PROVE  Prefix("reserve", l, 1, {}) /\ Matches("reserve", "reserve", S, S, U)
<1>1. 1..(1 - 1) = {}
  BY SMTT(30)
<1>2. QED
  BY <1>1 DEF Prefix, Matches, Reserved, Unreserved

\* Thread t begins to reserve list l.
LEMMA ReservationCall ==
    ASSUME ReserveTypes, pc \in [Thread -> ParserPhase], UNCHANGED load,
           NEW t \in Thread, NEW l \in Seq(Bo), NEW d, Reservation(t), l # <<>>,
           Bos(l) = Bos(load.bos[t]), ttm_eu_reserve_buffers(t, l, d), Goto(t, "reserve")
    PROVE  Local(t) /\ Reservation(t)'
<1>1. /\ list'[t] = l /\ entry'[t] = 1 /\ rpc'[t] = "reserve" /\ pc'[t] = "reserve"
      /\ rpc[t] = "out" /\ UNCHANGED owner
      /\ \A s \in Thread : s # t => /\ list'[s] = list[s] /\ entry'[s] = entry[s]
                                    /\ rpc'[s] = rpc[s] /\ pc'[s] = pc[s]
  BY DEF ttm_eu_reserve_buffers, Goto, ReserveTypes
<1>2. Held(t) = {}
  BY <1>1, PrefixOut DEF Reservation
<1>3. Held(t)' = {}
  BY <1>1, <1>2 DEF Held
<1>4. Prefix("reserve", l, 1, {}) /\ Matches("reserve", "reserve", Bos(l), Bos(load.bos[t]), Userptrs(t))
  BY PrefixCall
<1>5. Reservation(t)'
  BY <1>1, <1>3, <1>4, ReservationAt
<1>6. QED
  BY <1>1, <1>5 DEF Local

\* Thread t drops what it holds.
LEMMA ReservationReturn ==
    ASSUME ReserveTypes, pc \in [Thread -> ParserPhase], UNCHANGED load,
           NEW t \in Thread, NEW l, NEW p \in Unreserved, Reservation(t),
           Unreserve(Held(t)) \/ (UNCHANGED owner /\ Held(t) = {}),
           rpc' = [rpc EXCEPT ![t] = "out"], entry' = [entry EXCEPT ![t] = 0],
           list' = [list EXCEPT ![t] = l], Goto(t, p),
           p = "get_pages" => Bos(l) \cup Userptrs(t) = Bos(load.bos[t])
    PROVE  Local(t) /\ Reservation(t)'
<1>a. /\ list'[t] = l /\ entry'[t] = 0
      /\ \A s \in Thread : s # t => list'[s] = list[s] /\ entry'[s] = entry[s]
  BY DEF ReserveTypes
<1>b. /\ rpc'[t] = "out" /\ pc'[t] = p
      /\ \A s \in Thread : s # t => rpc'[s] = rpc[s] /\ pc'[s] = pc[s]
  BY DEF Goto, ReserveTypes
<1>1. /\ list'[t] = l /\ entry'[t] = 0 /\ rpc'[t] = "out" /\ pc'[t] = p
      /\ \A s \in Thread : s # t => /\ list'[s] = list[s] /\ entry'[s] = entry[s]
                                    /\ rpc'[s] = rpc[s] /\ pc'[s] = pc[s]
  BY <1>a, <1>b
<1>2. Held(t)' = {} /\ \A b \in Bo : owner'[b] = owner[b] \/ (owner[b] = t /\ owner'[b] = None)
  BY SubmissionAssumption, HeldDropped
<1>3. Prefix("out", l, 0, {}) /\ Matches(p, "out", Bos(l), Bos(load.bos[t]), Userptrs(t))
  BY DEF Prefix, Matches, Reserved, Unreserved
<1>4. Reservation(t)'
  BY <1>1, <1>2, <1>3, ReservationAt
<1>5. QED
  BY <1>1, <1>2, <1>4 DEF Local

\* Thread t goes on in amdgpu_cs_ioctl and keeps what it holds.
LEMMA ReservationMove ==
    ASSUME pc \in [Thread -> ParserPhase], UNCHANGED <<load, owner, list, entry, rpc>>,
           NEW t \in Thread, Reservation(t), NEW q, Goto(t, q),
           Matches(q, rpc[t], Bos(list[t]), Bos(load.bos[t]), Userptrs(t))
    PROVE  Local(t) /\ Reservation(t)'
<1>1. pc'[t] = q /\ (\A s \in Thread : s # t => pc'[s] = pc[s]) /\ Held(t)' = Held(t)
  BY DEF Goto, Held
<1>2. Prefix(rpc[t], list[t], entry[t], Held(t))
  BY DEF Reservation
<1>3. Reservation(t)'
  BY <1>1, <1>2, ReservationAt
<1>4. QED
  BY <1>1, <1>3 DEF Local

\* amdgpu_cs_parser_bos with userptr buffers that need pages: unreserve, and try again.
LEMMA ReservationRetry ==
    ASSUME ParserTypes, ReserveTypes, UNCHANGED load, NEW t \in Thread, Reservation(t),
           userptr_needs_pages(t) \/ get_user_pages(t)
    PROVE  Local(t) /\ Reservation(t)'
<1>0. /\ pc \in [Thread -> ParserPhase] /\ list[t] \in Seq(Bo)
      /\ \A u \in Userptrs(t) : Userptrs(t) = {u} /\ u \in Bo /\ u \in Bos(load.bos[t])
  <2>1. /\ pc \in [Thread -> ParserPhase] /\ list[t] \in Seq(Bo)
        /\ Userptrs(t) \subseteq Bos(load.bos[t])
    BY DEF ParserTypes, ReserveTypes, Userptrs
  <2>2. /\ \A u, v \in Userptrs(t) : u = v
        /\ Userptrs(t) \subseteq Bo
    BY LoadProps
  <2>3. QED
    BY <2>1, <2>2
<1>1. /\ Prefix(rpc[t], list[t], entry[t], Held(t))
      /\ Matches(pc[t], rpc[t], Bos(list[t]), Bos(load.bos[t]), Userptrs(t))
  BY DEF Reservation
<1>2. CASE userptr_needs_pages(t)
  <2>1. pc[t] = "needs_pages" /\ rpc[t] = "reserved"
    BY <1>1, <1>2 DEF userptr_needs_pages, Matches, Reserved
  <2>2. Held(t) = Bos(list[t]) /\ Bos(list[t]) = Bos(load.bos[t])
    BY <1>1, <2>1 DEF Prefix, Matches, Reserved
  <2>3. PICK u \in Userptrs(t) :
           \/ Goto(t, "validate") /\ UNCHANGED ttmVars
           \/ /\ ttm_eu_backoff_reservation(t)
              /\ list' = [list EXCEPT ![t] = list_del(list[t], u)]
              /\ Goto(t, IF tries[t] = 1 THEN "idle" ELSE "get_pages")
    BY <1>2 DEF userptr_needs_pages
  <2>4. CASE Goto(t, "validate") /\ UNCHANGED ttmVars
    <3>1. Matches("validate", rpc[t], Bos(list[t]), Bos(load.bos[t]), Userptrs(t))
      BY <1>1, <2>1 DEF Matches, Reserved, Unreserved
    <3>2. UNCHANGED <<owner, list, entry, rpc>>
      BY <2>4 DEF ttmVars
    <3>3. QED
      BY <1>0, <2>1, <2>4, <3>1, <3>2, ReservationMove
  <2>5. CASE /\ ttm_eu_backoff_reservation(t)
             /\ list' = [list EXCEPT ![t] = list_del(list[t], u)]
             /\ Goto(t, IF tries[t] = 1 THEN "idle" ELSE "get_pages")
    <3>0. PICK p \in Unreserved : p = IF tries[t] = 1 THEN "idle" ELSE "get_pages"
      BY DEF Unreserved
    <3>1. Bos(list_del(list[t], u)) \cup {u} = Bos(list[t]) \cup {u}
      BY <1>0, ListDelProps
    <3>2. Bos(list_del(list[t], u)) \cup Userptrs(t) = Bos(load.bos[t])
      BY <1>0, <2>2, <3>1
    <3>3. Unreserve(Held(t)) /\ rpc' = [rpc EXCEPT ![t] = "out"] /\ entry' = [entry EXCEPT ![t] = 0]
      BY <2>2, <2>5 DEF ttm_eu_backoff_reservation
    <3>4. QED
      BY <1>0, <2>5, <3>0, <3>2, <3>3, ReservationReturn
  <2>6. QED
    BY <2>3, <2>4, <2>5
<1>3. CASE get_user_pages(t)
  <2>1. pc[t] = "get_pages" /\ rpc[t] = "out" /\ Bos(list[t]) \cup Userptrs(t) = Bos(load.bos[t])
    BY <1>1, <1>3 DEF get_user_pages, Matches, Unreserved
  <2>2. PICK u \in Userptrs(t) :
           \/ ttm_eu_reserve_buffers(t, <<u>> \o list[t], dups[t]) /\ Goto(t, "reserve")
           \/ UNCHANGED ttmVars /\ Goto(t, "idle")
    BY <1>3 DEF get_user_pages
  <2>3. CASE UNCHANGED ttmVars /\ Goto(t, "idle")
    <3>1. Matches("idle", rpc[t], Bos(list[t]), Bos(load.bos[t]), Userptrs(t))
      BY <1>1, <2>1 DEF Matches, Reserved, Unreserved
    <3>2. UNCHANGED <<owner, list, entry, rpc>>
      BY <2>3 DEF ttmVars
    <3>3. QED
      BY <1>0, <2>1, <2>3, <3>1, <3>2, ReservationMove
  <2>4. CASE ttm_eu_reserve_buffers(t, <<u>> \o list[t], dups[t]) /\ Goto(t, "reserve")
    <3> DEFINE k == <<u>> \o list[t]
    <3>1. k \in Seq(Bo) /\ k # <<>> /\ Bos(k) = {u} \cup Bos(list[t])
      BY <1>0, ConsBos
    <3>2. Bos(k) = Bos(load.bos[t])
      BY <1>0, <2>1, <3>1
    <3>3. QED
      BY <1>0, <2>4, <3>1, <3>2, ReservationCall
  <2>5. QED
    BY <2>2, <2>3, <2>4
<1>4. QED
  BY <1>2, <1>3

\* reserve_shared does not unfail.
LEMMA NomemKept == ASSUME ParserTypes, [Next]_vars, faults'.nomem = 0 PROVE faults.nomem = 0
<1>1. UNCHANGED faults \/ \E k \in {"signal", "nomem", "error"} : Fault(k)
  BY ReserveCases DEF Moves, parser_bos_call, parser_bos_reserve, parser_bos_failed,
     userptr_needs_pages, get_user_pages, cs_submit_fence, amdgpu_cs_parser_fini
<1>2. QED
  BY <1>1, SMTT(30) DEF Fault, ParserTypes

LEMMA ReservationNext ==
    ASSUME CsTypes, ReservationInv, [Next]_vars
    PROVE  ReservationInv'
<1>0. /\ ParserTypes /\ ReserveTypes /\ pc \in [Thread -> ParserPhase] /\ UNCHANGED load
      /\ \A t \in Thread : list = [list EXCEPT ![t] = list[t]]
  BY LoadKept DEF CsTypes, ParserTypes, ReserveTypes
<1> SUFFICES ASSUME faults.nomem = 0, faults'.nomem = 0, \A s \in Thread : Reservation(s)
             PROVE  \A s \in Thread : Reservation(s)'
  BY <1>0, NomemKept DEF ReservationInv
<1>2. ASSUME NEW t \in Thread, Local(t), Reservation(t)' PROVE \A s \in Thread : Reservation(s)'
  BY <1>0, <1>2, ReservationFrame
<1>3. CASE UNCHANGED <<ttmVars, pc, faults>>
  BY <1>0, <1>3 DEF Reservation, Held, Userptrs, ttmVars
<1>4. ASSUME NEW t \in Thread, parser_bos_call(t) PROVE Local(t) /\ Reservation(t)'
  BY <1>0, <1>4, LoadProps, ReservationCall DEF parser_bos_call
<1>5. ASSUME NEW t \in Thread, parser_bos_reserve(t) PROVE Local(t) /\ Reservation(t)'
  <2>1. ~Fault("nomem")
    BY <1>0, SMTT(30) DEF Fault, ParserTypes
  <2>2. pc[t] = "reserve" /\ (ttm_eu_step(t) \/ reserve_interrupted(t)) /\ UNCHANGED pc
    BY <1>5, <2>1 DEF parser_bos_reserve, parserVars
  <2>3. QED
    BY <1>0, <2>2, ReservationStep
<1>6. ASSUME NEW t \in Thread, parser_bos_failed(t) PROVE Local(t) /\ Reservation(t)'
  <2>1. /\ rpc' = [rpc EXCEPT ![t] = "out"] /\ entry' = [entry EXCEPT ![t] = 0]
        /\ list' = [list EXCEPT ![t] = list[t]] /\ Goto(t, "idle") /\ UNCHANGED owner
        /\ rpc[t] = "failed"
    BY <1>0, <1>6 DEF parser_bos_failed, reserve_returned
  <2>2. Held(t) = {} /\ "idle" \in Unreserved /\ "idle" # "get_pages"
    BY <2>1 DEF Unreserved, Reservation, Prefix
  <2>3. QED
    BY <1>0, <2>1, <2>2, ReservationReturn
<1>7. ASSUME NEW t \in Thread, userptr_needs_pages(t) \/ get_user_pages(t)
      PROVE  Local(t) /\ Reservation(t)'
  BY <1>0, <1>7, ReservationRetry
<1>8. ASSUME NEW t \in Thread, cs_submit_fence(t) \/ amdgpu_cs_parser_fini(t)
      PROVE  Local(t) /\ Reservation(t)'
  <2>1. pc[t] \in Reserved
    BY <1>8 DEF cs_submit_fence, amdgpu_cs_parser_fini, Reserved
  <2>2. Held(t) = Bos(list[t])
    BY <2>1 DEF Reservation, Matches, Prefix
  <2>3. /\ Unreserve(Held(t)) /\ rpc' = [rpc EXCEPT ![t] = "out"] /\ entry' = [entry EXCEPT ![t] = 0]
        /\ list' = [list EXCEPT ![t] = <<>>]
    BY <1>8, <2>2 DEF cs_submit_fence, amdgpu_cs_parser_fini, ttm_eu_fence_buffer_objects,
       ttm_eu_backoff_reservation
  <2>4. PICK p \in Unreserved : Goto(t, p) /\ p # "get_pages"
    BY <1>8 DEF cs_submit_fence, amdgpu_cs_parser_fini, Unreserved
  <2>5. QED
    BY <1>0, <2>3, <2>4, ReservationReturn
<1>9. ASSUME NEW t \in Thread, Moves(t) PROVE Local(t) /\ Reservation(t)'
  <2>1. UNCHANGED <<owner, list, entry, rpc>>
    BY <1>9 DEF Moves, ttmVars
  <2>2. PICK q : /\ Goto(t, q)
                 /\ \/ /\ q \in Reserved
                       /\ pc[t] \in Reserved \/ (pc[t] = "reserve" /\ rpc[t] = "reserved")
                    \/ pc[t] = "mn_unlock" /\ q = "idle"
    BY <1>9 DEF Moves
  <2>3. Matches(pc[t], rpc[t], Bos(list[t]), Bos(load.bos[t]), Userptrs(t))
    BY DEF Reservation
  <2>4. Matches(q, rpc[t], Bos(list[t]), Bos(load.bos[t]), Userptrs(t))
    BY <2>2, <2>3 DEF Matches, Reserved, Unreserved
  <2>5. QED
    BY <1>0, <2>1, <2>2, <2>4, ReservationMove
<1>10. QED
  BY <1>2, <1>3, <1>4, <1>5, <1>6, <1>7, <1>8, <1>9, ReserveCases

LEMMA ReservationInit == Init => ReservationInv
<1> SUFFICES ASSUME Init, NEW t \in Thread PROVE Reservation(t)
  BY DEF ReservationInv
<1>1. /\ rpc[t] = "out" /\ pc[t] = "idle" /\ \A b \in Bo : owner[b] = None
  BY DEF Init, InitTtm
<1>2. Held(t) = {}
  BY <1>1, SubmissionAssumption DEF Held
<1>3. QED
  BY <1>1, <1>2 DEF Reservation, Prefix, Matches, Reserved, Unreserved

LEMMA ReservationInvariant == Spec => []CsTypes /\ []ReservationInv
<1>1. Init => CsTypes /\ ReservationInv
  BY CsTypesInit, ReservationInit
<1>2. CsTypes /\ ReservationInv /\ [Next]_vars => CsTypes' /\ ReservationInv'
  BY CsTypesStep, ReservationNext
<1>3. QED
  BY <1>1, <1>2, PTL DEF Spec

\* ttm_eu_reserve_buffers: as long as reserve_shared has not failed, every thread holds
\* exactly the entries in front of the one it is at, with any lists, in any order and
\* with any duplicates, so that backing off in reverse releases what was taken.
THEOREM ReservesPrefix == Spec => [](faults.nomem = 0 => ReservedPrefix)
<1>1. ASSUME CsTypes, ReservationInv, faults.nomem = 0 PROVE ReservedPrefix
  <2> SUFFICES ASSUME NEW t \in Thread
               PROVE  /\ rpc[t] = "reserve"  => Held(t) = Visited(t)
                      /\ rpc[t] = "slow"     => Held(t) = {}
                      /\ rpc[t] = "reserved" => Held(t) = Bos(list[t]) /\ IsInjective(list[t])
    BY DEF ReservedPrefix, Held
  <2>1. Reservation(t) /\ ReserveTypes /\ list[t] \in Seq(Bo)
    BY <1>1 DEF ReservationInv, CsTypes, ReserveTypes
  <2>2. rpc[t] = "reserve" => Visited(t) = {list[t][i] : i \in 1..(entry[t] - 1)}
    BY <2>1, VisitedProps DEF Visited, ReserveTypes
  <2>3. DOMAIN list[t] = 1..Len(list[t])
    BY <2>1, SMTT(30)
  <2>4. QED
    BY <2>1, <2>2, <2>3 DEF Reservation, Prefix, IsInjective
<1>2. QED
  BY <1>1, ReservationInvariant, PTL

\* amdgpu_cs_ioctl: a thread that has left it, on whatever path, holds no reservation.
THEOREM ReservationsEnd == Spec => []ReservationsReleased
<1>1. ASSUME ReservationInv PROVE ReservationsReleased
  <2> SUFFICES ASSUME NEW t \in Thread, pc[t] \in {"idle", "get_pages", "mn_unlock"}, faults.nomem = 0,
                      NEW b \in Bo
               PROVE  owner[b] # t
    BY DEF ReservationsReleased
  <2>1. Held(t) = {}
    BY <1>1 DEF ReservationInv, Reservation, Prefix, Matches, Unreserved
  <2>2. QED
    BY <2>1 DEF Held
<1>2. QED
  BY <1>1, ReservationInvariant, PTL

-----------------------------------------------------------------------------
(* Submissions and the lock of the MMU notifier.                           *)

\* What a step of thread t does to the lock, and where it gets to.
Notifies(t) ==
    \E l \in ParserPhase :
        /\ Goto(t, l)
        /\ \/ UNCHANGED mnVars /\ (l \in Locking /\ Userptrs(t) # {} => pc[t] \in Locking)
           \/ mn_lock_call(t) /\ l \notin Locking
           \/ amdgpu_mn_lock(t)
           \/ amdgpu_mn_unlock(t) /\ l \notin Locking

LEMMA NotifierCases ==
    ASSUME [Next]_vars
    PROVE  \/ UNCHANGED <<mnVars, pc>>
           \/ \E t \in Thread : Notifies(t)
           \/ \E i \in Inv : inv_step(i) /\ UNCHANGED pc
<1> USE DEF Locking, ParserPhase
<1>1. ASSUME NEW t \in Thread, parser_bos_call(t) \/ parser_error(t) \/ parser_bos_failed(t)
                               \/ userptr_invalidated(t) \/ userptr_needs_pages(t) \/ get_user_pages(t)
      PROVE  Notifies(t)
  <2>1. /\ UNCHANGED mnVars
        /\ \E l \in {"reserve", "fini", "idle", "sync", "needs_pages", "validate", "get_pages"} : Goto(t, l)
    BY <1>1 DEF parser_bos_call, parser_error, parser_bos_failed, userptr_invalidated,
       userptr_needs_pages, get_user_pages
  <2>2. QED
    BY <2>1 DEF Notifies
<1>2. ASSUME NEW t \in Thread, list_validate(t) \/ set_user_pages(t) \/ amdgpu_cs_parser_fini(t)
      PROVE  Notifies(t)
  <2>1. UNCHANGED mnVars /\ \E l \in {"set_pages", "sync", "idle"} : Goto(t, l)
    BY <1>2 DEF list_validate, set_user_pages, amdgpu_cs_parser_fini
  <2>2. QED
    BY <2>1 DEF Notifies
<1>3. ASSUME NEW t \in Thread, ctx_add_fence_store(t) \/ cs_submit_push(t) \/ cs_submit_fence(t)
      PROVE  Notifies(t)
  <2>1. UNCHANGED mnVars /\ pc[t] \in Locking /\ \E l \in {"push", "fence", "idle", "mn_unlock"} : Goto(t, l)
    BY <1>3 DEF ctx_add_fence_store, cs_submit_push, cs_submit_fence
  <2>2. QED
    BY <2>1 DEF Notifies
<1>4. ASSUME NEW t \in Thread, amdgpu_cs_sync_rings(t) \/ cs_submit_lock(t) PROVE Notifies(t)
  BY <1>4 DEF amdgpu_cs_sync_rings, cs_submit_lock, Notifies
<1>5. ASSUME NEW t \in Thread, cs_submit_check(t) \/ ctx_add_fence_read(t) \/ cs_submit_unlock(t)
      PROVE  Notifies(t)
  BY <1>5 DEF cs_submit_check, ctx_add_fence_read, cs_submit_unlock, Notifies
<1>6. CASE UNCHANGED vars
  BY <1>6 DEF vars, csVars, parserVars
<1>7. ASSUME NEW t \in Thread, parser_bos_reserve(t) PROVE UNCHANGED <<mnVars, pc>>
  BY <1>7 DEF parser_bos_reserve, parserVars
<1>8. ASSUME NEW f \in File, JobFinishes(f) PROVE UNCHANGED <<mnVars, pc>>
  BY <1>8 DEF JobFinishes, parserVars
<1>9. ASSUME NEW i \in Inv, inv_step(i) PROVE UNCHANGED pc
  BY <1>9 DEF inv_step, range_start_lock, affect_userptr, invalidate_node_wait,
     change_mapping, amdgpu_mn_invalidate_range_end, csVars, parserVars
<1>10. QED
  BY <1>1, <1>2, <1>3, <1>4, <1>5, <1>6, <1>7, <1>8, <1>9 DEF Next, cs_step

\* amdgpu_mn.c: submissions and invalidations use the lock as MnLock says, whatever they
\* do between; an unlock by a submission that has not locked changes nothing.
THEOREM NotifierLockUsed == Spec => UsesMnLock
<1>1. Init => InitMn
  BY DEF Init
<1>2. ASSUME [Next]_vars PROVE NextMn \/ UNCHANGED mnVars
  <2>1. ASSUME NEW t \in Thread, Notifies(t) PROVE NextMn \/ UNCHANGED mnVars
    <3>1. t \in Submitter
      BY SubmissionAssumption
    <3>2. CASE amdgpu_mn_unlock(t) /\ t \notin writers
      BY <3>2 DEF amdgpu_mn_unlock, mnVars
    <3>3. QED
      BY <2>1, <3>1, <3>2 DEF Notifies, NextMn
  <2>2. ASSUME NEW i \in Inv, inv_step(i) PROVE NextMn
    <3>1. CASE range_start_lock(i) \/ amdgpu_mn_invalidate_range_end(i)
      BY <3>1 DEF range_start_lock, amdgpu_mn_invalidate_range_end, NextMn
    <3>2. CASE affect_userptr(i) \/ invalidate_node_wait(i) \/ change_mapping(i)
      <4>1. ipc[i] \in Between /\ \E l \in Between : invalidate(i, l)
        BY <3>2 DEF affect_userptr, invalidate_node_wait, change_mapping, Between
      <4>2. QED
        BY <4>1 DEF NextMn
    <3>3. QED
      BY <2>2, <3>1, <3>2 DEF inv_step
  <2>3. QED
    BY <1>2, <2>1, <2>2, NotifierCases
<1>3. QED
  BY <1>1, <1>2, PTL DEF Spec, UsesMnLock, SpecMn

\* A submission with userptr buffers keeps the lock until its fence is in the buffers.
LEMMA WriterInvStep == ASSUME ParserTypes, WriterInv, [Next]_vars PROVE WriterInv'
<1>1. /\ pc \in [Thread -> ParserPhase] /\ UNCHANGED load /\ \A t \in Thread : Userptrs(t)' = Userptrs(t)
  BY LoadKept DEF ParserTypes, Userptrs
<1>2. CASE UNCHANGED <<pc, writers>>
  BY <1>1, <1>2 DEF WriterInv
<1>3. ASSUME NEW i \in Inv, inv_step(i) PROVE UNCHANGED writers
  BY <1>3 DEF inv_step, range_start_lock, affect_userptr, invalidate_node_wait, change_mapping,
     amdgpu_mn_invalidate_range_end, amdgpu_mn_read_lock, amdgpu_mn_read_unlock, read_lock_mutex,
     read_lock_inc, read_lock_down, read_lock_unlock, read_unlock_dec, read_unlock_up, invalidate
<1>4. ASSUME NEW t \in Thread, Notifies(t) PROVE WriterInv'
  <2>1. PICK l \in ParserPhase :
           /\ Goto(t, l)
           /\ \/ UNCHANGED mnVars /\ (l \in Locking /\ Userptrs(t) # {} => pc[t] \in Locking)
              \/ mn_lock_call(t) /\ l \notin Locking
              \/ amdgpu_mn_lock(t)
              \/ amdgpu_mn_unlock(t) /\ l \notin Locking
    BY <1>4 DEF Notifies
  <2>2. pc'[t] = l /\ \A s \in Thread : s # t => pc'[s] = pc[s]
    BY <1>1, <2>1 DEF Goto
  <2>3. CASE UNCHANGED mnVars /\ (l \in Locking /\ Userptrs(t) # {} => pc[t] \in Locking)
    <3>1. UNCHANGED writers
      BY <2>3 DEF mnVars
    <3>2. QED
      BY <1>1, <2>2, <2>3, <3>1 DEF WriterInv
  <2>4. CASE mn_lock_call(t) /\ l \notin Locking
    BY <1>1, <2>2, <2>4 DEF mn_lock_call, WriterInv
  <2>5. CASE amdgpu_mn_lock(t)
    BY <1>1, <2>2, <2>5 DEF amdgpu_mn_lock, WriterInv
  <2>6. CASE amdgpu_mn_unlock(t) /\ l \notin Locking
    BY <1>1, <2>2, <2>6 DEF amdgpu_mn_unlock, WriterInv
  <2>7. QED
    BY <2>1, <2>3, <2>4, <2>5, <2>6
<1>5. QED
  BY <1>2, <1>3, <1>4, NotifierCases DEF mnVars

-----------------------------------------------------------------------------
(* The queue of a context.                                                 *)

LEMMA QueueAppend ==
    ASSUME NEW l \in Seq(Job), NEW j \in Job
    PROVE  LET k == Append(l, j) IN
           /\ k # <<>> /\ k[Len(k)] = j
           /\ \A p \in DOMAIN k : (p \in DOMAIN l /\ k[p] = l[p]) \/ k[p] = j
           /\ Distinct(l) /\ (\A p \in DOMAIN l : l[p] # j) => Distinct(k)
           /\ \A p, F : Covers(l, p, F) => Covers(k, p, F)
<1> DEFINE k == Append(l, j)
           n == Len(l) + 1
<1>1. /\ k # <<>> /\ Len(k) = n /\ DOMAIN k = 1..n /\ DOMAIN l = 1..Len(l) /\ k[n] = j
      /\ \A p \in 1..Len(l) : k[p] = l[p] /\ p \in 1..n
      /\ \A p \in 1..n : p \in 1..Len(l) \/ p = n
  BY SMTT(30)
<1> HIDE DEF k, n
<1>2. \A p \in DOMAIN k : (p \in DOMAIN l /\ k[p] = l[p]) \/ (p = n /\ k[p] = j)
  BY <1>1
<1>3. ASSUME Distinct(l), \A p \in DOMAIN l : l[p] # j PROVE Distinct(k)
  BY <1>2, <1>3 DEF Distinct
<1>4. ASSUME NEW p, NEW F, Covers(l, p, F) PROVE Covers(k, p, F)
  BY <1>1, <1>4 DEF Covers
<1>5. QED
  BY <1>1, <1>2, <1>3, <1>4 DEF k

LEMMA QueueTail ==
    ASSUME NEW l \in Seq(Job), l # <<>>, Distinct(l)
    PROVE  LET k == Tail(l) IN
           /\ \E p \in DOMAIN l : l[p] = Head(l)
           /\ k # <<>> => k[Len(k)] = l[Len(l)]
           /\ Distinct(k)
           /\ \A p \in DOMAIN k : \E r \in DOMAIN l :
                 k[p] = l[r] /\ k[p] # Head(l) /\ \A F : Covers(l, r, F) => Covers(k, p, F)
<1> DEFINE k == Tail(l)
<1>1. /\ k \in Seq(Job) /\ Len(l) \in Nat /\ Len(k) = Len(l) - 1 /\ 1 \in DOMAIN l /\ Head(l) = l[1]
      /\ DOMAIN k = 1..Len(k) /\ DOMAIN l = 1..Len(l)
      /\ \A p \in DOMAIN k : k[p] = l[p + 1] /\ p + 1 \in DOMAIN l /\ p + 1 # 1
  BY SMTT(30)
<1> HIDE DEF k
<1>2. k # <<>> => Len(k) \in DOMAIN k /\ Len(k) + 1 = Len(l)
  BY <1>1, SMTT(30)
<1>3. ASSUME NEW p \in DOMAIN k, NEW q \in DOMAIN k, k[p] = k[q] PROVE p = q
  <2>1. p + 1 = q + 1
    BY <1>1, <1>3 DEF Distinct
  <2>2. QED
    BY <1>1, <2>1, SMTT(30)
<1>4. ASSUME NEW p \in DOMAIN k
      PROVE  k[p] = l[p + 1] /\ p + 1 \in DOMAIN l /\ l[p + 1] # l[1]
  BY <1>1 DEF Distinct
<1>5. ASSUME NEW p \in DOMAIN k, NEW F, Covers(l, p + 1, F) PROVE Covers(k, p, F)
  <2>1. PICK q \in DOMAIN l : q >= p + 1 /\ l[q] \in F
    BY <1>5 DEF Covers
  <2>2. PICK m \in DOMAIN k : m + 1 = q
    <3>1. q - 1 \in DOMAIN k /\ q - 1 + 1 = q
      BY <1>1, <2>1, SMTT(30)
    <3>2. QED
      BY <3>1
  <2>3. m >= p
    BY <1>1, <2>1, <2>2, SMTT(30)
  <2>4. QED
    BY <1>1, <2>1, <2>2, <2>3 DEF Covers
<1>6. Distinct(k)
  BY <1>3 DEF Distinct
<1>7. \A p \in DOMAIN k : \E r \in DOMAIN l :
         k[p] = l[r] /\ k[p] # Head(l) /\ \A F : Covers(l, r, F) => Covers(k, p, F)
  BY <1>1, <1>4, <1>5
<1>8. QED
  BY <1>1, <1>2, <1>6, <1>7 DEF k

LEMMA QueueCovers ==
    ASSUME NEW l \in Seq(Job), NEW p \in DOMAIN l, NEW F, l[p] \in F \/ l[Len(l)] \in F
    PROVE  l # <<>> /\ Covers(l, p, F)
<1>1. p >= p /\ Len(l) >= p /\ Len(l) \in DOMAIN l /\ l # <<>>
  BY SMTT(30)
<1>2. QED
  BY <1>1 DEF Covers

\* What the types say of queues and submissions.
LEMMA QueueTypes ==
    ASSUME CsTypes, UNCHANGED load
    PROVE  /\ ParserTypes /\ resv \in [Bo -> SUBSET Job] /\ File' = File
           /\ queue \in [File -> Seq(Job)] /\ finished \subseteq Job
           /\ \A f \in File : queue[f] \in Seq(Job) /\ \A p \in DOMAIN queue[f] : queue[f][p] \in Job
           /\ \A s \in Thread : load.file[s] \in File /\ Bos(load.bos[s]) \subseteq Bo
<1>1. /\ ParserTypes /\ resv \in [Bo -> SUBSET Job] /\ File' = File
      /\ queue \in [File -> Seq(Job)] /\ finished \subseteq Job
  BY DEF CsTypes, ReserveTypes, JobTypes, File
<1>2. \A l \in Seq(Job) : \A p \in DOMAIN l : l[p] \in Job
  BY SMTT(30)
<1>3. \A f \in File : queue[f] \in Seq(Job)
  BY <1>1
<1>4. \A s \in Thread : load.file[s] \in File /\ load.bos[s] \in Seq(Bo)
  BY <1>1, LoadProps
<1>5. QED
  BY <1>1, <1>2, <1>3, <1>4, BosOf

LEMMA JobOfProps ==
    ASSUME ParserTypes, NEW t \in Thread
    PROVE  /\ JobOf(t)[1] = t /\ JobOf(t)[2] = num[t] /\ FileOf(JobOf(t)) = load.file[t]
           /\ num[t] \in Int
<1>1. JobOf(t) = <<t, num[t]>>
  BY DEF JobOf
<1>2. num[t] \in Int
  BY SubmissionAssumption, SMTT(30) DEF ParserTypes
<1>3. QED
  BY <1>1, <1>2, SMTT(30) DEF FileOf

LEMMA JobThread == \A j \in Job : j[1] \in Thread
BY DEF Job

\* The steps that change the queues, the fences of the buffers or how far a job is.
Elsewhere(t) ==
    /\ UNCHANGED <<num, queue, finished, resv>>
    /\ \E l \in ParserPhase \ {"fence"} :
          /\ Goto(t, l) /\ pc[t] # "fence"
          /\ pc[t] \in {"mn_unlock", "idle"} => l = "idle"

LEMMA JobCases ==
    ASSUME [Next]_vars
    PROVE  \/ \E t \in Thread : parser_bos_call(t) \/ cs_submit_push(t) \/ cs_submit_fence(t) \/ Elsewhere(t)
           \/ \E f \in File : JobFinishes(f)
           \/ UNCHANGED <<num, pc, queue, finished, resv>>
<1> USE DEF ParserPhase, gpuVars
<1>1. ASSUME NEW t \in Thread, parser_bos_failed(t) \/ parser_error(t) \/ userptr_invalidated(t)
                               \/ userptr_needs_pages(t) \/ get_user_pages(t)
      PROVE  Elsewhere(t)
  <2>1. /\ UNCHANGED <<num, queue, finished, resv>> /\ pc[t] \notin {"mn_unlock", "idle", "fence"}
        /\ \E l \in {"reserve", "fini", "idle", "sync", "needs_pages", "validate", "get_pages"} : Goto(t, l)
    BY <1>1 DEF parser_bos_failed, parser_error, userptr_invalidated, userptr_needs_pages,
       get_user_pages, ttmVars, ttm_eu_backoff_reservation, reserve_returned, ttm_eu_reserve_buffers
  <2>2. QED
    BY <2>1 DEF Elsewhere
<1>2. ASSUME NEW t \in Thread, list_validate(t) \/ set_user_pages(t) \/ amdgpu_cs_parser_fini(t)
                               \/ amdgpu_cs_sync_rings(t) \/ cs_submit_lock(t)
      PROVE  Elsewhere(t)
  <2>1. /\ UNCHANGED <<num, queue, finished, resv>> /\ pc[t] \notin {"mn_unlock", "idle", "fence"}
        /\ \E l \in {"set_pages", "sync", "idle", "job_init", "mn_lock", "check"} : Goto(t, l)
    BY <1>2 DEF list_validate, set_user_pages, amdgpu_cs_parser_fini, amdgpu_cs_sync_rings,
       cs_submit_lock, ttmVars, ttm_eu_backoff_reservation
  <2>2. QED
    BY <2>1 DEF Elsewhere
<1>3. ASSUME NEW t \in Thread, cs_submit_check(t) \/ ctx_add_fence_read(t) \/ ctx_add_fence_store(t)
                               \/ cs_submit_unlock(t)
      PROVE  Elsewhere(t)
  <2>1. /\ UNCHANGED <<num, queue, finished, resv>>
        /\ \/ /\ pc[t] \notin {"mn_unlock", "idle", "fence"}
              /\ \E l \in {"fini", "job_init", "add_fence", "push"} : Goto(t, l)
           \/ pc[t] = "mn_unlock" /\ Goto(t, "idle")
    BY <1>3 DEF cs_submit_check, ctx_add_fence_read, ctx_add_fence_store, cs_submit_unlock, ttmVars
  <2>2. QED
    BY <2>1 DEF Elsewhere
<1>4. CASE UNCHANGED vars
  BY <1>4 DEF vars, csVars, parserVars, ttmVars
<1>5. ASSUME NEW t \in Thread, parser_bos_reserve(t) PROVE UNCHANGED <<num, pc, queue, finished, resv>>
  BY <1>5 DEF parser_bos_reserve, parserVars, ttm_eu_step, reserve_free, reserve_already,
     reserve_deadlk, reserve_slow, reserve_interrupted, reserve_shared_fails, Fail
<1>6. ASSUME NEW i \in Inv, inv_step(i) PROVE UNCHANGED <<num, pc, queue, finished, resv>>
  BY <1>6 DEF inv_step, range_start_lock, affect_userptr, invalidate_node_wait,
     change_mapping, amdgpu_mn_invalidate_range_end, csVars, parserVars, ttmVars
<1>7. QED
  BY <1>1, <1>2, <1>3, <1>4, <1>5, <1>6 DEF Next, cs_step

\* Only a push or a finished job changes which jobs were pushed.
LEMMA GoneKept ==
    ASSUME ParserTypes, [Next]_vars, NEW j \in Job, Gone(j)
    PROVE  Gone(j)'
<1> DEFINE s == j[1]
<1>0. /\ pc \in [Thread -> ParserPhase] /\ num \in [Thread -> 0..MaxCs] /\ s \in Thread
      /\ j[2] \in Int /\ num[s] \in Int
  BY SubmissionAssumption, SMTT(30) DEF ParserTypes, Job
<1> HIDE DEF s
<1>1. CASE pc'[s] = pc[s] /\ num'[s] = num[s]
  BY <1>1 DEF Gone, s
<1>2. ASSUME NEW t \in Thread, parser_bos_call(t) PROVE Gone(j)'
  <2>1. num' = [num EXCEPT ![t] = @ + 1] /\ \E l : Goto(t, l)
    BY <1>2 DEF parser_bos_call
  <2>2. CASE s = t
    <3>1. num'[s] = num[s] + 1
      BY <1>0, <2>1, <2>2
    <3>2. j[2] <= num[s]
      BY <1>0, SMTT(30) DEF Gone, s
    <3>3. QED
      BY <1>0, <3>1, <3>2, SMTT(30) DEF Gone, s
  <2>3. QED
    BY <1>0, <1>1, <2>1, <2>2 DEF Goto
<1>3. ASSUME NEW t \in Thread, num' = num, NEW l, Goto(t, l),
             pc[t] \in {"fence", "mn_unlock", "idle"} => l \in {"mn_unlock", "idle"}
      PROVE  Gone(j)'
  <2>1. pc'[t] = l /\ \A r \in Thread : r # t => pc'[r] = pc[r]
    BY <1>0, <1>3 DEF Goto
  <2>2. QED
    BY <1>0, <1>3, <2>1 DEF Gone, s
<1>4. ASSUME NEW t \in Thread, cs_submit_push(t) \/ cs_submit_fence(t) \/ Elsewhere(t) PROVE Gone(j)'
  <2>1. /\ num' = num
        /\ \E l : Goto(t, l) /\ (pc[t] \in {"fence", "mn_unlock", "idle"} => l \in {"mn_unlock", "idle"})
    BY <1>4 DEF cs_submit_push, cs_submit_fence, Elsewhere
  <2>2. QED
    BY <1>3, <2>1
<1>5. ASSUME NEW f \in File, JobFinishes(f) PROVE UNCHANGED <<num, pc>>
  BY <1>5 DEF JobFinishes, parserVars
<1>6. QED
  BY <1>1, <1>2, <1>4, <1>5, JobCases

LEMMA PushedStep == ASSUME CsTypes, Pushed, [Next]_vars PROVE Pushed'
<1>0. /\ ParserTypes /\ UNCHANGED load /\ File' = File /\ \A j : FileOf(j)' = FileOf(j)
      /\ queue \in [File -> Seq(Job)] /\ finished \subseteq Job
      /\ \A f \in File : queue[f] \in Seq(Job)
  BY LoadKept, QueueTypes DEF FileOf
<1>1. /\ \A f \in File : \A p \in DOMAIN queue[f] : queue[f][p] \in Job /\ OnItsWay(f, queue[f][p])
      /\ \A j \in Job : Gone(j) => Gone(j)'
  BY <1>0, GoneKept, SMTT(30) DEF Pushed
<1>2. ASSUME \A f \in File : Distinct(queue'[f]),
             \A f \in File : \A p \in DOMAIN queue'[f] : \E j \in Job : queue'[f][p] = j /\ OnItsWay(f, j)',
             \A j \in finished' : Gone(j)'
      PROVE  Pushed'
  BY <1>0, <1>2 DEF Pushed
<1>3. ASSUME NEW f \in File, NEW j \in Job, OnItsWay(f, j), j \notin finished' PROVE OnItsWay(f, j)'
  BY <1>0, <1>1, <1>3 DEF OnItsWay
<1>4. CASE UNCHANGED <<queue, finished>>
  <2>1. \A f \in File : \A p \in DOMAIN queue'[f] : \E j \in Job : queue'[f][p] = j /\ OnItsWay(f, j)'
    BY <1>1, <1>3, <1>4 DEF OnItsWay
  <2>2. QED
    BY <1>0, <1>1, <1>2, <1>4, <2>1 DEF Pushed
<1>5. ASSUME NEW t \in Thread, cs_submit_push(t) PROVE Pushed'
  <2>1. PICK f \in File, j \in Job : f = load.file[t] /\ j = JobOf(t)
    BY <1>0, <1>5, LoadProps DEF ParserTypes, cs_submit_push
  <2> DEFINE k == Append(queue[f], j)
  <2>2. /\ pc[t] = "push" /\ queue' = [queue EXCEPT ![f] = k] /\ num' = num /\ finished' = finished
        /\ Goto(t, "fence")
    BY <1>5, <2>1 DEF cs_submit_push
  <2>3. j[1] = t /\ j[2] = num[t] /\ num[t] \in Int /\ FileOf(j) = f
    BY <1>0, <2>1, JobOfProps
  <2>4. ~Gone(j) /\ Gone(j)'
    BY <1>0, <2>2, <2>3, SMTT(30) DEF Gone, Goto, ParserTypes
  <2>5. queue'[f] = k /\ \A g \in File : g # f => queue'[g] = queue[g]
    BY <1>0, <2>2
  <2>6. /\ \A p \in DOMAIN k : (p \in DOMAIN queue[f] /\ k[p] = queue[f][p]) \/ k[p] = j
        /\ Distinct(queue[f]) /\ (\A p \in DOMAIN queue[f] : queue[f][p] # j) => Distinct(k)
    BY <1>0, QueueAppend
  <2> HIDE DEF k
  <2>7. j \notin finished /\ Distinct(k)
    BY <2>4, <2>6 DEF Pushed, OnItsWay
  <2>8. OnItsWay(f, j)'
    BY <1>0, <2>2, <2>3, <2>4, <2>7 DEF OnItsWay
  <2>9. ASSUME NEW g \in File, NEW p \in DOMAIN queue[g]
        PROVE  \E i \in Job : queue[g][p] = i /\ OnItsWay(g, i)'
    BY <1>1, <1>3, <2>2 DEF OnItsWay
  <2>10. ASSUME NEW g \in File, NEW p \in DOMAIN queue'[g]
         PROVE  \E i \in Job : queue'[g][p] = i /\ OnItsWay(g, i)'
    <3>1. CASE g = f
      <4>1. p \in DOMAIN k /\ queue'[g] = k
        BY <2>5, <2>10, <3>1
      <4>2. QED
        BY <2>6, <2>8, <2>9, <3>1, <4>1
    <3>2. CASE g # f
      BY <2>5, <2>9, <2>10, <3>2
    <3>3. QED
      BY <3>1, <3>2
  <2>11. \A g \in File : Distinct(queue'[g])
    BY <2>5, <2>7 DEF Pushed
  <2>12. \A h \in finished' : Gone(h)'
    BY <1>0, <1>1, <2>2 DEF Pushed
  <2>13. QED
    BY <1>2, <2>10, <2>11, <2>12
<1>6. ASSUME NEW f \in File, JobFinishes(f) PROVE Pushed'
  <2> DEFINE l == queue[f]
             k == Tail(l)
  <2>1. /\ l # <<>> /\ finished' = finished \cup {Head(l)} /\ queue' = [queue EXCEPT ![f] = k]
        /\ l \in Seq(Job) /\ Distinct(l)
    BY <1>0, <1>6 DEF JobFinishes, Pushed
  <2>2. queue'[f] = k /\ \A g \in File : g # f => queue'[g] = queue[g]
    BY <1>0, <2>1
  <2>3. /\ \E p \in DOMAIN l : l[p] = Head(l)
        /\ Distinct(k)
        /\ \A p \in DOMAIN k : \E r \in DOMAIN l : k[p] = l[r] /\ k[p] # Head(l)
    BY <2>1, QueueTail
  <2> HIDE DEF k
  <2>4. PICK h \in Job : h = Head(l) /\ FileOf(h) = f /\ Gone(h)
    BY <1>1, <2>3 DEF OnItsWay
  <2>5. ASSUME NEW g \in File, NEW p \in DOMAIN queue[g], queue[g][p] # h
        PROVE  \E i \in Job : queue[g][p] = i /\ OnItsWay(g, i)'
    BY <1>1, <1>3, <2>1, <2>4, <2>5 DEF OnItsWay
  <2>6. ASSUME NEW g \in File, NEW p \in DOMAIN queue'[g]
        PROVE  \E i \in Job : queue'[g][p] = i /\ OnItsWay(g, i)'
    <3>1. CASE g = f
      <4>1. p \in DOMAIN k /\ queue'[g] = k
        BY <2>2, <2>6, <3>1
      <4>2. PICK r \in DOMAIN l : k[p] = l[r] /\ k[p] # Head(l)
        BY <2>3, <4>1
      <4>3. \E i \in Job : l[r] = i /\ OnItsWay(f, i)'
        BY <2>4, <2>5, <4>2
      <4>4. QED
        BY <3>1, <4>1, <4>2, <4>3
    <3>2. CASE g # f
      <4>1. queue'[g] = queue[g] /\ p \in DOMAIN queue[g]
        BY <2>2, <2>6, <3>2
      <4>2. queue[g][p] # h
        BY <1>1, <2>4, <3>2, <4>1 DEF OnItsWay
      <4>3. QED
        BY <2>5, <4>1, <4>2
    <3>3. QED
      BY <3>1, <3>2
  <2>7. \A j \in finished' : Gone(j)'
    BY <1>0, <1>1, <2>1, <2>4 DEF Pushed
  <2>8. \A g \in File : Distinct(queue'[g])
    BY <2>2, <2>3 DEF Pushed
  <2>9. QED
    BY <1>2, <2>6, <2>7, <2>8
<1>7. ASSUME NEW t \in Thread, parser_bos_call(t) \/ cs_submit_fence(t) \/ Elsewhere(t)
      PROVE  Pushed'
  BY <1>4, <1>7 DEF parser_bos_call, cs_submit_fence, Elsewhere, gpuVars
<1>8. QED
  BY <1>4, <1>5, <1>6, <1>7, JobCases

LEMMA PrefixReserved == ASSUME NEW l, NEW n, NEW h, Prefix("reserved", l, n, h) PROVE h = Bos(l)
BY DEF Prefix

\* Two threads of a file do not have their buffers reserved at the same time: both lists
\* begin with the page directory.
LEMMA Exclusive ==
    ASSUME CsTypes, ReservationInv, faults.nomem = 0, NEW s \in Thread, NEW t \in Thread,
           pc[s] \in Reserved, pc[t] \in Reserved, load.file[s] = load.file[t]
    PROVE  s = t
<1>1. /\ load.bos[s] \in Seq(Bo) /\ load.bos[s] # <<>> /\ load.bos[t] \in Seq(Bo) /\ load.bos[t] # <<>>
      /\ load.bos[s][1] = load.bos[t][1]
  BY LoadProps DEF CsTypes
<1>2. ASSUME NEW r \in Thread, pc[r] \in Reserved, load.bos[r] \in Seq(Bo), load.bos[r] # <<>>
      PROVE  owner[load.bos[r][1]] = r
  <2>1. Prefix("reserved", list[r], entry[r], Held(r)) /\ Bos(list[r]) = Bos(load.bos[r])
    BY <1>2 DEF ReservationInv, Reservation, Matches
  <2>2. Held(r) = Bos(load.bos[r])
    BY <2>1, PrefixReserved
  <2>3. load.bos[r][1] \in Bos(load.bos[r])
    BY <1>2, SMTT(30) DEF Bos
  <2>4. QED
    BY <2>2, <2>3 DEF Held
<1>3. QED
  BY <1>1, <1>2

\* A job stays known while the reservation objects stay as they are.
LEMMA KnownKept ==
    ASSUME UNCHANGED <<load, resv>>, NEW l, NEW k, NEW p, NEW r, k[p] = l[r], Known(l, r),
           AtFence(l[r]) => AtFence(l[r])', \A F : Covers(l, r, F) => Covers(k, p, F)
    PROVE  Known(k, p)'
BY DEF Known

\* The steps that leave the queues and the reservation objects alone.
LEMMA FencedKept ==
    ASSUME CsTypes, UNCHANGED <<load, queue, resv>>, Fenced,
           \A s \in Thread : /\ pc'[s] = "fence" <=> pc[s] = "fence"
                             /\ pc[s] = "fence" => num'[s] = num[s]
    PROVE  Fenced'
<1>1. File' = File /\ \A f \in File : \A p \in DOMAIN queue[f] : queue[f][p] \in Job
  BY SMTT(30) DEF CsTypes, JobTypes, File
<1>2. ASSUME NEW j \in Job, AtFence(j) PROVE AtFence(j)'
  BY <1>2 DEF AtFence, JobOf, Job
<1>3. \A f \in File : \A p \in DOMAIN queue[f] : Known(queue[f], p)'
  BY <1>1, <1>2 DEF Fenced, Known
<1>4. \A t \in Thread : pc'[t] = "fence" => LastIs(queue[load.file[t]], JobOf(t)')
  BY DEF Fenced, JobOf
<1>5. QED
  BY <1>1, <1>3, <1>4 DEF Fenced

LEMMA FencedPush ==
    ASSUME CsTypes, ReservationInv, faults.nomem = 0, UNCHANGED load, Pushed, Fenced,
           NEW t \in Thread, cs_submit_push(t)
    PROVE  Fenced'
<1>0. /\ ParserTypes /\ queue \in [File -> Seq(Job)] /\ File' = File
      /\ \A f \in File : queue[f] \in Seq(Job) /\ \A p \in DOMAIN queue[f] : queue[f][p] \in Job
  BY QueueTypes
<1>1. PICK f \in File, j \in Job : f = load.file[t] /\ j = JobOf(t)
  BY <1>0, LoadProps DEF ParserTypes, cs_submit_push
<1>2. PICK l \in Seq(Job) : l = queue[f]
  BY <1>0
<1> DEFINE k == Append(l, j)
<1>3. /\ pc[t] = "push" /\ queue' = [queue EXCEPT ![f] = k] /\ num' = num /\ resv' = resv
      /\ Goto(t, "fence")
  BY <1>1, <1>2 DEF cs_submit_push, ttmVars
<1>4. j[1] = t /\ pc'[t] = "fence" /\ \A s \in Thread : s # t => pc'[s] = pc[s]
  BY <1>0, <1>1, <1>3 DEF Goto, ParserTypes, JobOf
<1>5. queue'[f] = k /\ \A g \in File : g # f => queue'[g] = queue[g]
  BY <1>0, <1>3
<1>6. /\ k # <<>> /\ k[Len(k)] = j
      /\ \A p \in DOMAIN k : (p \in DOMAIN l /\ k[p] = l[p]) \/ k[p] = j
      /\ \A p, F : Covers(l, p, F) => Covers(k, p, F)
  BY QueueAppend
<1> HIDE DEF k
<1>7. ASSUME NEW i \in Job, AtFence(i) PROVE AtFence(i)'
  <2>1. i[1] \in Thread /\ i[1] # t
    BY <1>3, <1>7 DEF AtFence, Job
  <2>2. QED
    BY <1>3, <1>4, <1>7, <2>1 DEF AtFence, JobOf
<1>8. AtFence(j)'
  BY <1>1, <1>3, <1>4 DEF AtFence, JobOf
<1>9. ASSUME NEW p \in DOMAIN k PROVE Known(k, p)'
  <2>1. CASE k[p] = j
    BY <1>8, <2>1 DEF Known
  <2>2. CASE p \in DOMAIN l /\ k[p] = l[p]
    <3>1. Known(l, p) /\ l[p] \in Job
      BY <1>0, <1>2, <2>2 DEF Fenced
    <3>2. QED
      BY <1>3, <1>6, <1>7, <2>2, <3>1, KnownKept
  <2>3. QED
    BY <1>6, <2>1, <2>2
<1>10. ASSUME NEW g \in File, g # f, NEW p \in DOMAIN queue[g] PROVE Known(queue[g], p)'
  <2>1. PICK q : q = queue[g]
    OBVIOUS
  <2>2. Known(q, p) /\ q[p] \in Job
    BY <1>0, <1>10, <2>1 DEF Fenced
  <2>3. Known(q, p)'
    BY <1>3, <1>7, <2>2 DEF Known
  <2>4. QED
    BY <1>5, <1>10, <2>1, <2>3
<1>11. ASSUME NEW s \in Thread, pc'[s] = "fence" PROVE LastIs(queue'[load.file[s]], JobOf(s)')
  <2>1. CASE s = t
    BY <1>1, <1>3, <1>5, <1>6, <2>1 DEF LastIs, JobOf
  <2>2. CASE s # t
    <3>1. pc[s] = "fence" /\ pc[s] \in Reserved /\ pc[t] \in Reserved
      BY <1>3, <1>4, <1>11, <2>2 DEF Reserved
    <3>2. load.file[s] # f /\ load.file[s] \in File
      BY <1>0, <1>1, <2>2, <3>1, Exclusive, LoadProps
    <3>3. QED
      BY <1>3, <1>5, <3>1, <3>2 DEF Fenced, JobOf
  <2>3. QED
    BY <2>1, <2>2
<1>12. \A g \in File : \A p \in DOMAIN queue'[g] : Known(queue[g], p)'
  BY <1>5, <1>9, <1>10
<1>13. QED
  BY <1>0, <1>11, <1>12 DEF Fenced

LEMMA FencedFence ==
    ASSUME CsTypes, ReservationInv, faults.nomem = 0, UNCHANGED load, Pushed, Fenced,
           NEW t \in Thread, cs_submit_fence(t)
    PROVE  Fenced'
<1>0. /\ ParserTypes /\ resv \in [Bo -> SUBSET Job] /\ File' = File
      /\ \A f \in File : queue[f] \in Seq(Job) /\ \A p \in DOMAIN queue[f] : queue[f][p] \in Job
  BY QueueTypes
<1>1. PICK f \in File, j \in Job : f = load.file[t] /\ j = JobOf(t)
  BY <1>0, LoadProps DEF ParserTypes, cs_submit_fence
<1> DEFINE B == Bos(load.bos[t])
<1>2. /\ pc[t] = "fence" /\ num' = num /\ queue' = queue
      /\ ttm_eu_fence_buffer_objects(t, j, FencesOf(f))
      /\ \E l : l # "fence" /\ Goto(t, l)
  BY <1>1 DEF cs_submit_fence, gpuVars
<1>3. Bos(list[t]) = B
  BY <1>2 DEF ReservationInv, Reservation, Matches, Reserved
<1>4. \A b \in Bo : resv'[b] = IF b \in B THEN (resv[b] \ FencesOf(f)) \cup {j} ELSE resv[b]
  BY <1>2, <1>3 DEF ttm_eu_fence_buffer_objects, AddShared
<1>5. j[1] = t /\ pc'[t] # "fence" /\ \A s \in Thread : s # t => pc'[s] = pc[s]
  BY <1>0, <1>1, <1>2 DEF Goto, ParserTypes, JobOf
<1> HIDE DEF B
<1>6. ASSUME NEW s \in Thread, pc'[s] = "fence" PROVE LastIs(queue'[load.file[s]], JobOf(s)')
  BY <1>2, <1>5, <1>6 DEF Fenced, JobOf
<1>7. ASSUME NEW g \in File, NEW p \in DOMAIN queue[g] PROVE Known(queue[g], p)'
  <2>1. PICK q \in Seq(Job) : q = queue[g]
    BY <1>0
  <2>2. PICK i \in Job : i = q[p]
    BY <1>0, <2>1
  <2>3. Known(q, p) /\ i[1] \in Thread
    BY <2>1, <2>2, JobThread DEF Fenced
  <2>4. CASE AtFence(i) /\ i # j
    <3>1. i[1] # t
      BY <1>1, <2>4 DEF AtFence
    <3>2. AtFence(i)'
      BY <1>2, <1>5, <2>3, <2>4, <3>1 DEF AtFence, JobOf
    <3>3. QED
      BY <1>2, <2>1, <2>2, <3>2 DEF Known
  <2>5. ASSUME NEW b \in Bos(load.bos[i[1]]), i = j \/ Covers(q, p, resv[b]) PROVE Covers(q, p, resv'[b])
    <3>1. b \in Bo
      BY <2>3, QueueTypes
    <3>2. CASE i = j
      <4>1. b \in B
        BY <1>5, <3>2 DEF B
      <4>2. q[p] \in resv'[b]
        BY <1>4, <2>2, <3>1, <3>2, <4>1
      <4>3. QED
        BY <2>1, <4>2, QueueCovers
    <3>3. CASE i # j /\ b \notin B
      BY <1>4, <2>5, <3>1, <3>3
    <3>4. CASE i # j /\ b \in B /\ g = f
      <4>0. q # <<>>
        BY <2>1, SMTT(30)
      <4>1. LastIs(q, j) /\ q # <<>>
        BY <1>1, <1>2, <2>1, <3>4, <4>0 DEF Fenced
      <4>2. q[Len(q)] \in resv'[b]
        BY <1>4, <3>1, <3>4, <4>1 DEF LastIs
      <4>3. QED
        BY <2>1, <4>2, QueueCovers
    <3>5. CASE i # j /\ b \in B /\ g # f
      <4>1. PICK n \in DOMAIN q : n >= p /\ q[n] \in resv[b]
        BY <2>5, <3>5 DEF Covers
      <4>2. FileOf(q[n]) = g
        BY <2>1 DEF Pushed, OnItsWay
      <4>3. q[n] \in resv'[b]
        BY <1>4, <3>1, <3>5, <4>1, <4>2 DEF FencesOf
      <4>4. QED
        BY <4>1, <4>3 DEF Covers
    <3>6. QED
      BY <3>2, <3>3, <3>4, <3>5
  <2>6. CASE ~(AtFence(i) /\ i # j)
    <3>1. i = j \/ \A b \in Bos(load.bos[i[1]]) : Covers(q, p, resv[b])
      BY <2>2, <2>3, <2>6 DEF Known
    <3>2. \A b \in Bos(load.bos[i[1]]) : Covers(q, p, resv'[b])
      BY <2>5, <3>1
    <3>3. QED
      BY <1>2, <2>1, <2>2, <3>2 DEF Known
  <2>7. QED
    BY <2>4, <2>6
<1>8. QED
  BY <1>0, <1>2, <1>6, <1>7 DEF Fenced

LEMMA FencedFinish ==
    ASSUME CsTypes, UNCHANGED load, Pushed, Fenced, NEW f \in File, JobFinishes(f)
    PROVE  Fenced'
<1>0. /\ queue \in [File -> Seq(Job)] /\ File' = File /\ \A s \in Thread : load.file[s] \in File
      /\ \A g \in File : queue[g] \in Seq(Job) /\ \A p \in DOMAIN queue[g] : queue[g][p] \in Job
  BY QueueTypes
<1>1. PICK l \in Seq(Job) : l = queue[f]
  BY <1>0
<1> DEFINE k == Tail(l)
<1>2. /\ l # <<>> /\ Distinct(l) /\ queue' = [queue EXCEPT ![f] = k]
      /\ num' = num /\ pc' = pc /\ resv' = resv
  BY <1>1 DEF JobFinishes, Pushed, ttmVars, parserVars
<1>3. queue'[f] = k /\ \A g \in File : g # f => queue'[g] = queue[g]
  BY <1>0, <1>2
<1>4. /\ k # <<>> => k[Len(k)] = l[Len(l)]
      /\ \A p \in DOMAIN k : \E r \in DOMAIN l : k[p] = l[r] /\ \A F : Covers(l, r, F) => Covers(k, p, F)
  BY <1>2, QueueTail
<1> HIDE DEF k
<1>5. ASSUME NEW i, AtFence(i) PROVE AtFence(i)'
  BY <1>2, <1>5 DEF AtFence, JobOf
<1>6. ASSUME NEW p \in DOMAIN k PROVE Known(k, p)'
  <2>1. PICK r \in DOMAIN l : k[p] = l[r] /\ \A F : Covers(l, r, F) => Covers(k, p, F)
    BY <1>4
  <2>2. Known(l, r)
    BY <1>1 DEF Fenced
  <2>3. QED
    BY <1>2, <1>5, <2>1, <2>2, KnownKept
<1>7. ASSUME NEW g \in File, g # f, NEW p \in DOMAIN queue[g] PROVE Known(queue[g], p)'
  <2>1. PICK q : q = queue[g]
    OBVIOUS
  <2>2. Known(q, p)'
    BY <1>2, <1>5, <2>1 DEF Fenced, Known
  <2>3. QED
    BY <1>3, <1>7, <2>1, <2>2
<1>8. ASSUME NEW s \in Thread, pc'[s] = "fence" PROVE LastIs(queue'[load.file[s]], JobOf(s)')
  <2>1. LastIs(queue[load.file[s]], JobOf(s)')
    BY <1>2, <1>8 DEF Fenced, JobOf
  <2>2. CASE load.file[s] = f
    BY <1>1, <1>2, <1>3, <1>4, <2>1, <2>2 DEF LastIs
  <2>3. CASE load.file[s] # f
    BY <1>0, <1>3, <2>1, <2>3
  <2>4. QED
    BY <2>2, <2>3
<1>9. \A g \in File : \A p \in DOMAIN queue'[g] : Known(queue[g], p)'
  BY <1>3, <1>6, <1>7
<1>10. QED
  BY <1>0, <1>8, <1>9 DEF Fenced

LEMMA FencedStep ==
    ASSUME CsTypes, ReservationInv, faults.nomem = 0, Pushed, Fenced, [Next]_vars
    PROVE  Fenced'
<1>0. UNCHANGED load /\ pc \in [Thread -> ParserPhase] /\ num \in [Thread -> 0..MaxCs]
  BY LoadKept DEF CsTypes, ParserTypes
<1>1. ASSUME NEW t \in Thread, parser_bos_call(t) \/ Elsewhere(t) PROVE Fenced'
  <2>1. /\ UNCHANGED <<queue, resv>> /\ pc[t] # "fence" /\ \E l : l # "fence" /\ Goto(t, l)
        /\ num' = num \/ num' = [num EXCEPT ![t] = @ + 1]
    BY <1>1 DEF parser_bos_call, Elsewhere, gpuVars, ttm_eu_reserve_buffers
  <2>2. \A s \in Thread : /\ pc'[s] = "fence" <=> pc[s] = "fence"
                          /\ pc[s] = "fence" => num'[s] = num[s]
    BY <1>0, <2>1 DEF Goto
  <2>3. QED
    BY <1>0, <2>1, <2>2, FencedKept
<1>2. CASE UNCHANGED <<num, pc, queue, finished, resv>>
  BY <1>0, <1>2, FencedKept
<1>3. QED
  BY <1>0, <1>1, <1>2, JobCases, FencedPush, FencedFence, FencedFinish

LEMMA JobInvariant == Spec => [](CsTypes /\ ReservationInv /\ JobInv)
<1> USE DEF JobInv
<1>1. ASSUME Init PROVE CsTypes /\ ReservationInv /\ JobInv
  <2>0. pc = [t \in Thread |-> "idle"] /\ queue = [f \in File |-> <<>>] /\ finished = {}
    BY <1>1 DEF Init
  <2>1. WriterInv
    BY <2>0 DEF WriterInv, Locking
  <2>2. \A f \in File : queue[f] = <<>> /\ DOMAIN queue[f] = {}
    BY <2>0, SMTT(30)
  <2>3. Pushed
    BY <2>0, <2>2 DEF Pushed, Distinct
  <2>4. Fenced
    BY <2>0, <2>2 DEF Fenced
  <2>5. QED
    BY <1>1, <2>1, <2>3, <2>4, CsTypesInit, ReservationInit
<1>2. ASSUME CsTypes, ReservationInv, JobInv, [Next]_vars PROVE CsTypes' /\ ReservationInv' /\ JobInv'
  <2>1. ParserTypes
    BY <1>2 DEF CsTypes
  <2>2. QED
    BY <1>2, <2>1, CsTypesStep, ReservationNext, WriterInvStep, PushedStep, FencedStep, NomemKept
<1>3. QED
  BY <1>1, <1>2, PTL DEF Spec

\* The steps that let an invalidation into its critical part, and a job into a queue.
LEMMA ChangeCases ==
    ASSUME [Next]_vars
    PROVE  \/ \A i \in Inv : ipc'[i] \in {"change", "end"} => \E k \in Inv : ipc[k] \in {"change", "end"}
           \/ \E i \in Inv : invalidate_node_wait(i)
<1> SUFFICES ASSUME NEW i \in Inv, ipc'[i] \in {"change", "end"},
                    ~\E k \in Inv : ipc[k] \in {"change", "end"}
             PROVE  \E k \in Inv : invalidate_node_wait(k)
  OBVIOUS
<1>1. ipc'[i] # ipc[i]
  OBVIOUS
<1>2. ASSUME NEW t \in Thread, Notifies(t) PROVE FALSE
  BY <1>1, <1>2 DEF Notifies, mnVars, mn_lock_call, amdgpu_mn_lock, amdgpu_mn_unlock
<1>3. PICK k \in Inv : inv_step(k)
  BY <1>1, <1>2, NotifierCases DEF mnVars
<1>4. ASSUME NEW l, l \notin {"change", "end"}, GotoInv(k, l) PROVE FALSE
  BY <1>1, <1>4, SMTT(30) DEF GotoInv
<1>5. ~amdgpu_mn_read_lock(k)
  BY <1>4 DEF amdgpu_mn_read_lock, read_lock_mutex, read_lock_inc, read_lock_down, read_lock_unlock
<1>6. ~amdgpu_mn_read_unlock(k)
  BY <1>4 DEF amdgpu_mn_read_unlock, read_unlock_dec, read_unlock_up
<1>7. ~affect_userptr(k) /\ ~change_mapping(k)
  BY <1>4 DEF affect_userptr, change_mapping, invalidate
<1>8. QED
  BY <1>3, <1>5, <1>6, <1>7 DEF inv_step, range_start_lock, amdgpu_mn_invalidate_range_end

LEMMA InvalidationStep ==
    ASSUME CsTypes, ReservationInv, JobInv, faults.nomem = 0, InvalidationExcludesSubmission,
           InvalidationExcludesJobs, [Next]_vars
    PROVE  InvalidationExcludesJobs'
<1>0. /\ UNCHANGED load /\ File' = File /\ \A t : Userptrs(t)' = Userptrs(t)
      /\ queue \in [File -> Seq(Job)] /\ \A f \in File : queue[f] \in Seq(Job)
  BY LoadKept, QueueTypes DEF Userptrs
<1>1. ASSUME NEW i \in Inv, invalidate_node_wait(i), NEW f \in File, NEW p \in DOMAIN queue[f]
      PROVE  Userptrs(queue[f][p][1]) = {}
  <2> SUFFICES ASSUME NEW u \in Userptrs(queue[f][p][1]) PROVE FALSE
    OBVIOUS
  <2>1. writers = {} /\ resv[u] \subseteq finished /\ u \in Bos(load.bos[queue[f][p][1]])
    BY <1>1 DEF invalidate_node_wait, Between, InvalidationExcludesSubmission, Userptrs
  <2>2. queue[f][p][1] \in Thread
    BY <1>0, SMTT(30) DEF Job
  <2>3. ~AtFence(queue[f][p])
    BY <2>1, <2>2 DEF AtFence, JobInv, WriterInv, Locking
  <2>4. Covers(queue[f], p, resv[u])
    BY <2>1, <2>3 DEF JobInv, Fenced, Known
  <2>5. PICK q \in DOMAIN queue[f] : queue[f][q] \in resv[u]
    BY <2>4 DEF Covers
  <2>6. OnItsWay(f, queue[f][q])
    BY DEF JobInv, Pushed
  <2>7. QED
    BY <2>1, <2>5, <2>6 DEF OnItsWay
<1>2. ASSUME NEW t \in Thread, cs_submit_push(t), NEW i \in Inv, ipc[i] \in Between PROVE Userptrs(t) = {}
  BY <1>2 DEF cs_submit_push, JobInv, WriterInv, Locking, InvalidationExcludesSubmission
<1>3. ASSUME NEW f \in File, NEW p \in DOMAIN queue'[f]
      PROVE  \/ \E r \in DOMAIN queue[f] : queue'[f][p] = queue[f][r]
             \/ \E t \in Thread : cs_submit_push(t) /\ queue'[f][p][1] = t
  <2>1. ASSUME queue'[f] = queue[f] PROVE \E r \in DOMAIN queue[f] : queue'[f][p] = queue[f][r]
    BY <1>3, <2>1
  <2>2. ASSUME NEW t \in Thread, parser_bos_call(t) \/ cs_submit_fence(t) \/ Elsewhere(t)
        PROVE  \E r \in DOMAIN queue[f] : queue'[f][p] = queue[f][r]
    BY <2>1, <2>2 DEF parser_bos_call, cs_submit_fence, Elsewhere, gpuVars
  <2>3. ASSUME NEW t \in Thread, cs_submit_push(t), f = load.file[t]
        PROVE  (\E r \in DOMAIN queue[f] : queue'[f][p] = queue[f][r]) \/ queue'[f][p][1] = t
    <3>1. JobOf(t) \in Job
      BY <2>3 DEF cs_submit_push, CsTypes, ParserTypes
    <3>2. queue'[f] = Append(queue[f], JobOf(t))
      BY <1>0, <2>3 DEF cs_submit_push
    <3>3. \A q \in DOMAIN Append(queue[f], JobOf(t)) :
             \/ q \in DOMAIN queue[f] /\ Append(queue[f], JobOf(t))[q] = queue[f][q]
             \/ Append(queue[f], JobOf(t))[q] = JobOf(t)
      BY <1>0, <3>1, QueueAppend
    <3>4. JobOf(t)[1] = t
      BY <1>0, JobOfProps DEF CsTypes
    <3>5. QED
      BY <1>3, <3>2, <3>3, <3>4
  <2>4. ASSUME JobFinishes(f) PROVE \E r \in DOMAIN queue[f] : queue'[f][p] = queue[f][r]
    <3>1. queue'[f] = Tail(queue[f]) /\ queue[f] # <<>> /\ Distinct(queue[f])
      BY <1>0, <2>4 DEF JobFinishes, JobInv, Pushed
    <3>2. \A q \in DOMAIN Tail(queue[f]) : \E n \in DOMAIN queue[f] :
             Tail(queue[f])[q] = queue[f][n] /\ Tail(queue[f])[q] # Head(queue[f])
      BY <1>0, <3>1, QueueTail
    <3>3. QED
      BY <1>3, <3>1, <3>2
  <2>5. ASSUME NEW t \in Thread, cs_submit_push(t), f # load.file[t]
        PROVE  \E r \in DOMAIN queue[f] : queue'[f][p] = queue[f][r]
    BY <1>0, <2>1, <2>5 DEF cs_submit_push
  <2>6. ASSUME NEW g \in File, JobFinishes(g), f # g
        PROVE  \E r \in DOMAIN queue[f] : queue'[f][p] = queue[f][r]
    BY <1>0, <2>1, <2>6 DEF JobFinishes
  <2>7. QED
    BY <2>1, <2>2, <2>3, <2>4, <2>5, <2>6, JobCases
<1>4. ASSUME NEW j, NEW i \in Inv, ipc'[i] \in {"change", "end"}, NEW f \in File, NEW p \in DOMAIN queue'[f],
             j = queue'[f][p]
      PROVE  Userptrs(j[1]) = {}
  <2>1. CASE \E k \in Inv : invalidate_node_wait(k)
    <3>1. UNCHANGED queue
      BY <2>1 DEF invalidate_node_wait, csVars, gpuVars
    <3>2. QED
      BY <1>1, <1>4, <2>1, <3>1
  <2>2. ASSUME NEW k \in Inv, ipc[k] \in {"change", "end"} PROVE Userptrs(j[1]) = {}
    <3>1. ipc[k] \in Between
      BY <2>2 DEF Between
    <3>2. ASSUME NEW r \in DOMAIN queue[f] PROVE Userptrs(queue[f][r][1]) = {}
      <4>1. queue[f][r] \in Pending
        BY SMTT(30) DEF Pending, Bos
      <4>2. QED
        BY <2>2, <4>1 DEF InvalidationExcludesJobs
    <3>3. QED
      BY <1>2, <1>3, <1>4, <3>1, <3>2
  <2>3. QED
    BY <1>4, <2>1, <2>2, ChangeCases
<1>5. SUFFICES ASSUME NEW i \in Inv, ipc'[i] \in {"change", "end"}, NEW j \in Pending' PROVE Userptrs(j[1])' = {}
  BY DEF InvalidationExcludesJobs
<1>6. PICK f \in File : \E p \in DOMAIN queue'[f] : j = queue'[f][p]
  BY <1>0 DEF Pending, Bos
<1>7. QED
  BY <1>0, <1>4, <1>5, <1>6

\* amdgpu_mn.c, amdgpu_cs.c: as long as reserve_shared has not failed, whatever lists the
\* threads of any files submit and however invalidations overlap, no job with userptr
\* buffers is on its way while the memory management may change their pages.
THEOREM NoJobsWhileInvalid == Spec => [](faults.nomem = 0 => InvalidationExcludesJobs)
<1> DEFINE I == faults.nomem = 0 => InvalidationExcludesJobs
<1>1. Init => I
  BY DEF Init, InitMn, InvalidationExcludesJobs
<1>2. ASSUME CsTypes, ReservationInv, JobInv, InvalidationExcludesSubmission, I, [Next]_vars PROVE I'
  BY <1>2, InvalidationStep, NomemKept DEF CsTypes
<1>3. Spec => []InvalidationExcludesSubmission
  BY NotifierLockUsed, MnLockExcludes, PTL DEF UsesMnLock
<1> HIDE DEF I
<1>4. Spec => []I
  BY <1>1, <1>2, <1>3, JobInvariant, PTL DEF Spec
<1>5. QED
  BY <1>4, PTL DEF I
=============================================================================
