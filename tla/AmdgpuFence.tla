---------------------------- MODULE AmdgpuFence ----------------------------
(***************************************************************************)
(* The hardware fences of one ring (amdgpu/amdgpu_fence.c) and the         *)
(* submission that emits them (amdgpu_ib_schedule, amdgpu_vm_flush).       *)
(*                                                                         *)
(* Actors: the one thread that submits to the ring, the hardware, the      *)
(* threads in amdgpu_fence_process (the interrupt handler, the fallback    *)
(* timer, and whoever calls amdgpu_fence_count_emitted), a thread in       *)
(* amdgpu_fence_wait_empty, and a GPU reset that forces completion.        *)
(*                                                                         *)
(* A fence is identified by the number of fences emitted before it and     *)
(* itself; the code only sees its 32-bit seqno, here modulo SeqModulus.    *)
(***************************************************************************)
EXTENDS Integers, Sequences, FiniteSets

CONSTANTS
    NumFences,      \* num_fences_mask + 1: twice num_hw_submission
    SeqModulus,     \* 2^32 in the code
    StartSeq,       \* the seqno the idle ring has reached
    Proc,           \* the threads that call amdgpu_fence_process
    Workloads,      \* what a behaviour may contain: who calls amdgpu_fence_process
                    \* and, as bounds, calls of amdgpu_fence_wait_empty, failed
                    \* allocations of a fence and GPU resets
    MaxEmit,        \* bound: fences emitted
    ResetKind,      \* how a GPU reset meets this ring: it hung and executes nothing
                    \* ("hung"), it runs until the whole ASIC is reset ("full"), or
                    \* it runs on while another block is soft-reset ("soft")
    None

ASSUME ConstantsAssumption ==
    /\ NumFences \in Nat \ {0, 1}
    /\ SeqModulus \in Nat \ {0}
    /\ SeqModulus % NumFences = 0
    /\ SeqModulus > 2 * NumFences
    /\ StartSeq \in 0..(SeqModulus - 1)
    /\ {"timer"} \subseteq Proc /\ Proc \subseteq {"irq", "timer", "cpu"}
    /\ Workloads \subseteq [callers : SUBSET Proc, waits : {0, 1}, fails : Nat, resets : Nat]
    /\ MaxEmit \in Nat
    /\ ResetKind \in {"hung", "full", "soft"}
    /\ None \notin Nat

VARIABLES
    load,           \* the workload of this behaviour
    sync_seq,       \* fence_drv.sync_seq
    last_seq,       \* fence_drv.last_seq
    mem,            \* *fence_drv.cpu_addr
    fences,         \* fence_drv.fences
    timer,          \* fallback_timer is pending
    irq,            \* an interrupt of this ring is to be handled
    emitted,        \* how many fences have been emitted
    signaled,       \* fences signaled
    armed,          \* fences whose signaling somebody enabled
    bug,            \* BUG() was reached
    epc,            \* where the submitting thread is
    eleft,          \* fences the submission still has to emit
    ewait,          \* the old fence amdgpu_fence_emit waits for
    ring_buf,       \* fence commands written to the ring and not committed
    hw_ring,        \* fence commands the hardware has yet to execute
    executed,       \* the newest fence whose command has been executed
    forced,         \* the newest fence when completion was forced
    fails, resets,  \* counters for the bounds
    rpc,            \* where the GPU reset is
    pc,             \* where each amdgpu_fence_process is
    plast, pseq,    \* its variables last_seq and seq
    pfence,         \* its variable fence
    wpc,            \* where amdgpu_fence_wait_empty is
    wseq, wfence,   \* its variables seq and fence
    wseen,          \* fences committed when it was called
    walone          \* no emission has overlapped the call

seqVars  == <<sync_seq, emitted>>
drvVars  == <<last_seq, mem, fences, timer, irq>>
sigVars  == <<signaled, armed, bug>>
emitVars == <<epc, eleft, ewait, ring_buf, fails>>
hwVars   == <<hw_ring, executed, forced>>
rstVars  == <<rpc, resets>>
procVars == <<pc, plast, pseq, pfence>>
waitVars == <<wpc, wseq, wfence, wseen, walone>>
vars == <<load, seqVars, drvVars, sigVars, emitVars, hwVars, rstVars, procVars, waitVars>>

Seqno(f) == (StartSeq + f) % SeqModulus

Slot(seq) == seq % NumFences

Init ==
    /\ load \in Workloads
    /\ sync_seq = StartSeq
    /\ last_seq = StartSeq
    /\ mem = StartSeq
    /\ fences = [i \in 0..(NumFences - 1) |-> None]
    /\ timer = FALSE
    /\ irq = FALSE
    /\ emitted = 0
    /\ signaled = {}
    /\ armed = {}
    /\ bug = FALSE
    /\ epc = "idle"
    /\ eleft = 0
    /\ ewait = None
    /\ ring_buf = <<>>
    /\ hw_ring = <<>>
    /\ executed = 0
    /\ forced = 0
    /\ fails = 0
    /\ resets = 0
    /\ rpc = "none"
    /\ pc = [p \in Proc |-> "idle"]
    /\ plast = [p \in Proc |-> 0]
    /\ pseq = [p \in Proc |-> 0]
    /\ pfence = [p \in Proc |-> None]
    /\ wpc = "idle"
    /\ wseq = 0
    /\ wfence = None
    /\ wseen = {}
    /\ walone = TRUE

-----------------------------------------------------------------------------
(* The submitting thread: amdgpu_ib_schedule.                              *)

\* amdgpu_ring_alloc; a job that needs a VM flush emits a fence for the flush
\* and one for its IBs.
amdgpu_ib_schedule ==
    /\ epc = "idle"
    /\ rpc = "none"
    /\ \E n \in {1, 2} : emitted + n <= MaxEmit /\ eleft' = n
    /\ epc' = "emit"
    /\ UNCHANGED <<load, seqVars, drvVars, sigVars, ewait, ring_buf, fails, hwVars, rstVars,
                   procVars, waitVars>>

\* amdgpu_fence_emit: the fence gets its seqno and its command is written ...
fence_emit_seq ==
    /\ epc = "emit"
    /\ emitted' = emitted + 1
    /\ sync_seq' = (sync_seq + 1) % SeqModulus
    /\ ring_buf' = Append(ring_buf, emitted')
    /\ epc' = "slot"
    /\ walone' = FALSE
    /\ UNCHANGED <<load, drvVars, sigVars, eleft, ewait, fails, hwVars, rstVars, procVars,
                   wpc, wseq, wfence, wseen>>

\* ... or there is no memory for it: amdgpu_ring_undo takes back what the
\* submission wrote.
fence_emit_fails ==
    /\ epc = "emit"
    /\ fails < load.fails
    /\ fails' = fails + 1
    /\ ring_buf' = <<>>
    /\ eleft' = 0
    /\ epc' = "idle"
    /\ UNCHANGED <<load, seqVars, drvVars, sigVars, ewait, hwVars, rstVars, procVars, waitVars>>

\* The first waiter of fence f enables its signaling, which starts the timer.
EnableSignaling(f) ==
    /\ armed' = armed \cup {f}
    /\ timer' = (timer \/ f \notin armed)

\* The slot takes the fence; then the next fence of the submission, or
\* amdgpu_ring_commit.
StoreFence ==
    /\ fences' = [fences EXCEPT ![Slot(sync_seq)] = emitted]
    /\ ewait' = None
    /\ eleft' = eleft - 1
    /\ IF eleft = 1
       THEN /\ epc' = "idle"
            /\ hw_ring' = hw_ring \o ring_buf
            /\ ring_buf' = <<>>
       ELSE epc' = "emit" /\ UNCHANGED <<hw_ring, ring_buf>>

store_without_wait ==
    /\ epc = "slot"
    /\ StoreFence
    /\ UNCHANGED <<load, seqVars, last_seq, mem, timer, irq, sigVars, fails, executed, forced,
                   rstVars, procVars, waitVars>>

\* An old fence in the slot that is not signaled has to be waited for.
fence_emit_slot ==
    /\ epc = "slot"
    /\ LET old == fences[Slot(sync_seq)] IN
       \/ /\ old = None \/ old \in signaled
          /\ StoreFence
          /\ UNCHANGED <<armed, timer>>
       \/ /\ old # None /\ old \notin signaled
          /\ EnableSignaling(old)
          /\ ewait' = old
          /\ epc' = "wait"
          /\ UNCHANGED <<fences, eleft, ring_buf, hw_ring>>
    /\ UNCHANGED <<load, seqVars, last_seq, mem, irq, signaled, bug, fails, executed, forced,
                   rstVars, procVars, waitVars>>

fence_emit_wait ==
    /\ epc = "wait"
    /\ ewait \in signaled
    /\ StoreFence
    /\ UNCHANGED <<load, seqVars, last_seq, mem, timer, irq, sigVars, fails, executed, forced,
                   rstVars, procVars, waitVars>>

\* Fences the submitter has handed out: all but the one it is emitting.
Published == 1..(IF epc \in {"slot", "wait"} THEN emitted - 1 ELSE emitted)

\* dma_fence_add_callback or dma_fence_wait on a fence somebody holds.
amdgpu_fence_enable_signaling(f) ==
    /\ f \in Published
    /\ f \notin signaled \cup armed
    /\ EnableSignaling(f)
    /\ UNCHANGED <<load, seqVars, last_seq, mem, fences, irq, signaled, bug, emitVars, hwVars,
                   rstVars, procVars, waitVars>>

-----------------------------------------------------------------------------
(* The hardware executes the fence commands in order; the interrupt it     *)
(* raises may be lost.                                                     *)

HwWrite ==
    /\ hw_ring # <<>>
    /\ ~(rpc = "forced" /\ ResetKind = "hung")
    /\ mem' = Seqno(Head(hw_ring))
    /\ executed' = Head(hw_ring)
    /\ hw_ring' = Tail(hw_ring)
    /\ irq' \in {irq, "irq" \in load.callers}
    /\ UNCHANGED <<load, seqVars, last_seq, fences, timer, sigVars, emitVars, forced, rstVars,
                   procVars, waitVars>>

-----------------------------------------------------------------------------
(* amdgpu_fence_process.                                                   *)

Goto(p, l) == pc' = [pc EXCEPT ![p] = l]

\* Where amdgpu_fence_process returns to: amdgpu_fence_count_emitted reads the
\* counters after it.
Return(p) == IF p = "cpu" THEN "count_last" ELSE "idle"

\* The interrupt handler, amdgpu_fence_fallback, amdgpu_fence_count_emitted.
process_call(p) ==
    /\ p \in load.callers
    /\ pc[p] = "idle"
    /\ p = "irq" => irq
    /\ p = "timer" => timer
    /\ irq' = (irq /\ p # "irq")
    /\ timer' = (timer /\ p # "timer")
    /\ Goto(p, "read_last")
    /\ UNCHANGED <<load, seqVars, last_seq, mem, fences, sigVars, emitVars, hwVars, rstVars,
                   plast, pseq, pfence, waitVars>>

process_read_last(p) ==
    /\ pc[p] = "read_last"
    /\ plast' = [plast EXCEPT ![p] = last_seq]
    /\ Goto(p, "read_mem")
    /\ UNCHANGED <<load, seqVars, drvVars, sigVars, emitVars, hwVars, rstVars, pseq, pfence, waitVars>>

read_sync_seq(p) ==
    /\ pc[p] = "read_mem"
    /\ pseq' = [pseq EXCEPT ![p] = sync_seq]
    /\ Goto(p, "cmpxchg")
    /\ UNCHANGED <<load, seqVars, drvVars, sigVars, emitVars, hwVars, rstVars, plast, pfence, waitVars>>

\* amdgpu_fence_read
process_read_mem(p) ==
    /\ pc[p] = "read_mem"
    /\ pseq' = [pseq EXCEPT ![p] = mem]
    /\ Goto(p, "cmpxchg")
    /\ UNCHANGED <<load, seqVars, drvVars, sigVars, emitVars, hwVars, rstVars, plast, pfence, waitVars>>

store_last_seq(p) ==
    /\ pc[p] = "cmpxchg"
    /\ last_seq' = pseq[p]
    /\ Goto(p, "check")
    /\ UNCHANGED <<load, seqVars, mem, fences, timer, irq, sigVars, emitVars, hwVars, rstVars,
                   plast, pseq, pfence, waitVars>>

\* atomic_cmpxchg(&drv->last_seq, last_seq, seq)
process_cmpxchg(p) ==
    /\ pc[p] = "cmpxchg"
    /\ IF last_seq = plast[p]
       THEN last_seq' = pseq[p] /\ Goto(p, "check")
       ELSE Goto(p, "read_last") /\ UNCHANGED last_seq
    /\ UNCHANGED <<load, seqVars, mem, fences, timer, irq, sigVars, emitVars, hwVars, rstVars,
                   plast, pseq, pfence, waitVars>>

no_fallback(p) ==
    /\ pc[p] = "check"
    /\ Goto(p, IF pseq[p] = plast[p] THEN Return(p) ELSE "walk")
    /\ UNCHANGED <<load, seqVars, drvVars, sigVars, emitVars, hwVars, rstVars, plast, pseq, pfence,
                   waitVars>>

\* amdgpu_fence_schedule_fallback if fences are outstanding; return if nothing
\* has changed.
process_check(p) ==
    /\ pc[p] = "check"
    /\ timer' = (timer \/ pseq[p] # sync_seq)
    /\ Goto(p, IF pseq[p] = plast[p] THEN Return(p) ELSE "walk")
    /\ UNCHANGED <<load, seqVars, last_seq, mem, fences, irq, sigVars, emitVars, hwVars, rstVars,
                   plast, pseq, pfence, waitVars>>

\* The loop over the slots between last_seq and seq: read the slot ...
process_walk(p) ==
    /\ pc[p] = "walk"
    /\ plast' = [plast EXCEPT ![p] = Slot(@ + 1)]
    /\ pfence' = [pfence EXCEPT ![p] = fences[Slot(plast[p] + 1)]]
    /\ Goto(p, "clear")
    /\ UNCHANGED <<load, seqVars, drvVars, sigVars, emitVars, hwVars, rstVars, pseq, waitVars>>

walk_one_slot_more(p) == IF Slot(plast[p]) = Slot(pseq[p] + 1) THEN Return(p) ELSE "walk"

\* The condition of the do ... while loop.
WalkOn(p) == IF Slot(plast[p]) = Slot(pseq[p]) THEN Return(p) ELSE "walk"

\* ... clear it ...
process_clear(p) ==
    /\ pc[p] = "clear"
    /\ fences' = [fences EXCEPT ![Slot(plast[p])] = None]
    /\ Goto(p, IF pfence[p] = None THEN WalkOn(p) ELSE "signal")
    /\ UNCHANGED <<load, seqVars, last_seq, mem, timer, irq, sigVars, emitVars, hwVars, rstVars,
                   plast, pseq, pfence, waitVars>>

\* ... and signal the fence it held.
process_signal(p) ==
    /\ pc[p] = "signal"
    /\ signaled' = signaled \cup {pfence[p]}
    /\ bug' = (bug \/ pfence[p] \in signaled)
    /\ pfence' = [pfence EXCEPT ![p] = None]
    /\ Goto(p, WalkOn(p))
    /\ UNCHANGED <<load, seqVars, drvVars, armed, emitVars, hwVars, rstVars, plast, pseq, waitVars>>

\* The end of amdgpu_fence_count_emitted: read last_seq ...
count_emitted_last ==
    /\ "cpu" \in Proc
    /\ pc["cpu"] = "count_last"
    /\ plast' = [plast EXCEPT !["cpu"] = last_seq]
    /\ Goto("cpu", "count_sync")
    /\ UNCHANGED <<load, seqVars, drvVars, sigVars, emitVars, hwVars, rstVars, pseq, pfence, waitVars>>

\* ... then sync_seq: the result is their difference.
CountEmitted == (SeqModulus - plast["cpu"] + sync_seq) % SeqModulus

count_emitted_sync ==
    /\ "cpu" \in Proc
    /\ pc["cpu"] = "count_sync"
    /\ Goto("cpu", "idle")
    /\ UNCHANGED <<load, seqVars, drvVars, sigVars, emitVars, hwVars, rstVars, plast, pseq, pfence,
                   waitVars>>

-----------------------------------------------------------------------------
(* amdgpu_fence_wait_empty.                                                *)

wait_empty_call ==
    /\ wpc = "idle"
    /\ load.waits = 1
    /\ wseq' = sync_seq
    /\ wseen' = 1..executed \cup {hw_ring[i] : i \in DOMAIN hw_ring}
    /\ walone' = (epc = "idle")
    /\ wfence' = None
    /\ wpc' = IF sync_seq = 0 THEN "returned" ELSE "lookup"
    /\ UNCHANGED <<load, seqVars, drvVars, sigVars, emitVars, hwVars, rstVars, procVars>>

lookup_next_slot ==
    /\ wpc = "lookup"
    /\ LET f == fences[Slot(wseq + 1)] IN
       /\ wfence' = f
       /\ \/ f = None /\ wpc' = "returned" /\ UNCHANGED <<armed, timer>>
          \/ f # None /\ wpc' = "wait" /\ EnableSignaling(f)
    /\ UNCHANGED <<load, seqVars, last_seq, mem, fences, irq, signaled, bug, emitVars, hwVars, rstVars,
                   procVars, wseq, wseen, walone>>

wait_empty_lookup ==
    /\ wpc = "lookup"
    /\ LET f == fences[Slot(wseq)] IN
       /\ wfence' = f
       /\ \/ f = None /\ wpc' = "returned" /\ UNCHANGED <<armed, timer>>
          \/ f # None /\ wpc' = "wait" /\ EnableSignaling(f)
    /\ UNCHANGED <<load, seqVars, last_seq, mem, fences, irq, signaled, bug, emitVars, hwVars, rstVars,
                   procVars, wseq, wseen, walone>>

wait_empty_wait ==
    /\ wpc = "wait"
    /\ wfence \in signaled
    /\ wpc' = "returned"
    /\ UNCHANGED <<load, seqVars, drvVars, sigVars, emitVars, hwVars, rstVars, procVars, wseq, wfence,
                   wseen, walone>>

-----------------------------------------------------------------------------
(* A GPU reset, once the scheduler is parked.                              *)

amdgpu_fence_driver_force_completion ==
    /\ rpc = "none"
    /\ resets < load.resets
    /\ epc = "idle"
    /\ resets' = resets + 1
    /\ mem' = sync_seq
    /\ forced' = emitted
    /\ rpc' = "forced"
    /\ UNCHANGED <<load, seqVars, last_seq, fences, timer, irq, sigVars, emitVars, hw_ring, executed,
                   procVars, waitVars>>

\* amdgpu_asic_reset empties the ring; a soft reset of another block does not.
asic_reset ==
    /\ rpc = "forced"
    /\ rpc' = "none"
    /\ hw_ring' = IF ResetKind = "soft" THEN hw_ring ELSE <<>>
    /\ UNCHANGED <<load, seqVars, drvVars, sigVars, emitVars, executed, forced, resets, procVars,
                   waitVars>>

-----------------------------------------------------------------------------
submit_step ==
    fence_emit_seq \/ fence_emit_fails \/ fence_emit_slot \/ fence_emit_wait

amdgpu_fence_process(p) ==
    \/ process_read_last(p) \/ process_read_mem(p) \/ process_cmpxchg(p)
    \/ process_check(p) \/ process_walk(p) \/ process_clear(p) \/ process_signal(p)

amdgpu_fence_count_emitted == count_emitted_last \/ count_emitted_sync

amdgpu_fence_wait_empty == wait_empty_lookup \/ wait_empty_wait

\* The ring is idle and nobody submits.
Idle ==
    /\ epc = "idle" /\ rpc = "none" /\ hw_ring = <<>>
    /\ \A p \in Proc : pc[p] = "idle"
    /\ wpc # "lookup" /\ UNCHANGED vars

Next ==
    \/ amdgpu_ib_schedule
    \/ submit_step
    \/ \E f \in 1..emitted : amdgpu_fence_enable_signaling(f)
    \/ HwWrite
    \/ \E p \in Proc : process_call(p) \/ amdgpu_fence_process(p)
    \/ amdgpu_fence_count_emitted
    \/ wait_empty_call
    \/ amdgpu_fence_wait_empty
    \/ amdgpu_fence_driver_force_completion
    \/ asic_reset
    \/ Idle

Spec == Init /\ [][Next]_vars

\* Threads that can run do run, a pending timer expires, an interrupt that is
\* not lost is handled, and the hardware executes its commands.  Nobody has to
\* submit, to wait, to count the fences or to reset the GPU.
Fairness ==
    /\ WF_vars(submit_step)
    /\ WF_vars(HwWrite)
    /\ \A p \in Proc : WF_vars(p # "cpu" /\ process_call(p)) /\ WF_vars(amdgpu_fence_process(p))
    /\ WF_vars(amdgpu_fence_count_emitted)
    /\ WF_vars(amdgpu_fence_wait_empty)
    /\ WF_vars(asic_reset)

FairSpec == Spec /\ Fairness

-----------------------------------------------------------------------------
(* Properties.                                                             *)

FenceId == 1..MaxEmit

Seq32 == 0..(SeqModulus - 1)

\* Every variable keeps to the values the code gives it.
TypeOK ==
    /\ sync_seq \in Seq32 /\ last_seq \in Seq32 /\ mem \in Seq32
    /\ fences \in [0..(NumFences - 1) -> FenceId \cup {None}]
    /\ timer \in BOOLEAN /\ irq \in BOOLEAN /\ bug \in BOOLEAN
    /\ emitted \in 0..MaxEmit
    /\ signaled \subseteq FenceId /\ armed \subseteq FenceId
    /\ epc \in {"idle", "emit", "slot", "wait"}
    /\ eleft \in 0..2
    /\ ewait \in FenceId \cup {None}
    /\ ring_buf \in Seq(FenceId) /\ hw_ring \in Seq(FenceId)
    /\ executed \in 0..MaxEmit /\ forced \in 0..MaxEmit
    /\ fails \in 0..load.fails /\ resets \in 0..load.resets
    /\ rpc \in {"none", "forced"}
    /\ pc \in [Proc -> {"idle", "read_last", "read_mem", "cmpxchg", "check", "walk", "clear",
                        "signal", "count_last", "count_sync"}]
    /\ plast \in [Proc -> Seq32] /\ pseq \in [Proc -> Seq32]
    /\ pfence \in [Proc -> FenceId \cup {None}]
    /\ wpc \in {"idle", "lookup", "wait", "returned"}
    /\ wseq \in Seq32
    /\ wfence \in FenceId \cup {None}
    /\ wseen \subseteq FenceId
    /\ walone \in BOOLEAN

\* BUG() in amdgpu_fence_process is unreachable: of the threads that process
\* fences at once, exactly one signals the fence of a slot, and it does so once.
SignaledOnce ==
    /\ ~bug
    /\ \A p \in Proc : pfence[p] # None =>
          /\ pfence[p] \notin signaled
          /\ \A q \in Proc : pfence[q] = pfence[p] => q = p

\* A fence signals only after the hardware has executed its command or a later
\* one, or a reset has forced completion: the walk over slots that a counter
\* modulo 2^32 selects never reaches the fence of a command still to execute.
SignaledOnlyExecuted == \A f \in signaled : f <= executed \/ f <= forced

\* A fence that was handed out and is not signaled is in its slot, or in the
\* hands of the one thread about to signal it: no emission overwrites it.
FenceReachable ==
    \A f \in Published \ signaled :
        fences[Slot(Seqno(f))] = f \/ \E p \in Proc : pfence[p] = f

\* The sequence number amdgpu_fence_process moves last_seq to is between the old
\* one and the last one emitted: it wakes waiters only when the sequence number
\* has increased.
WakesOnIncrease ==
    [][(last_seq' - last_seq) % SeqModulus <= (sync_seq - last_seq) % SeqModulus]_vars

\* When amdgpu_fence_count_emitted returns 0, nothing is left on the ring, so the
\* idle handlers of UVD, VCE and VCN may power the block down.
CountZeroMeansIdle ==
    ("cpu" \in Proc /\ pc["cpu"] = "count_sync" /\ CountEmitted = 0) => hw_ring = <<>> /\ ring_buf = <<>>

\* When amdgpu_fence_wait_empty returns and nobody emitted a fence meanwhile, the
\* hardware has executed what had been committed (unless the counter was 0).
WaitEmptyExecuted ==
    (wpc = "returned" /\ walone /\ wseq # 0) =>
        \A f \in wseen : f <= executed \/ f <= forced

Committed(f) == f <= executed \/ \E i \in DOMAIN hw_ring : hw_ring[i] = f

\* A fence that somebody waits for is signaled once its command is committed,
\* even if every interrupt is lost: the fallback timer is pending, or a thread is
\* processing fences, as long as one is outstanding.
ArmedFenceSignaled ==
    \A f \in FenceId : (f \in armed /\ Committed(f)) ~> f \in signaled

\* amdgpu_fence_emit does not wait forever for a slot.
EmitReturns == epc = "wait" ~> epc # "wait"
=============================================================================
