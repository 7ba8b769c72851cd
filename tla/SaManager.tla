----------------------------- MODULE SaManager ------------------------------
(***************************************************************************)
(* The suballocator of indirect buffers (amdgpu/amdgpu_sa.c): one buffer   *)
(* from which threads allocate ranges, and to which a range returns once   *)
(* the fence it was freed with is signaled.  All is done under wq.lock;    *)
(* fences are signaled at any time.  A thread has one range at a time.     *)
(***************************************************************************)
EXTENDS Integers, Sequences, SequencesExt, FiniteSetsExt

CONSTANTS
    Owner,          \* the threads
    MaxAlloc,       \* bound: ranges a thread allocates, at most
    SaSize,         \* sa_manager->size
    SaLoads,        \* what the threads ask for, how often, and the list of the ring
                    \* they submit to: functions from Owner to [size, align, list, n]
    SaList,         \* 0 .. AMDGPU_SA_NUM_FENCE_LISTS - 1
    SaTries,        \* tries of a ring in next_hole, 2 in the code
    SaNone

SaBo == Owner \X (1..MaxAlloc)

ASSUME SaAssumption ==
    /\ MaxAlloc \in Nat /\ SaSize \in Nat /\ SaTries \in Nat
    /\ SaLoads \subseteq [Owner -> [size : 1..SaSize, align : 1..SaSize, list : SaList,
                              n : 0..MaxAlloc]]
    /\ SaNone \notin Owner \cup SaBo

VARIABLES
    sa,             \* olist, the ranges in order; hole, the one before the hole (0 is the
                    \* head); flist, the freed ranges of a list of rings
    sa_lock,        \* who holds wq.lock across steps
    tries,          \* of a list of rings, the lock holder's
    request,        \* what the threads ask for, one of SaLoads
    sapc,           \* where a thread is
    nalloc,         \* its ranges so far
    sa_fences,      \* the fences it found, by list
    woken,          \* the waiters on wq that were woken
    soffset, eoffset, fence

saVars == <<sa, sa_lock, tries, sapc, request, nalloc, sa_fences, woken, soffset, eoffset, fence>>

InitSa ==
    /\ sa = [olist |-> <<>>, hole |-> 0, flist |-> [l \in SaList |-> <<>>]]
    /\ sa_lock = SaNone
    /\ tries = [l \in SaList |-> 0]
    /\ sapc = [t \in Owner |-> "out"]
    /\ request \in SaLoads
    /\ nalloc = [t \in Owner |-> 0]
    /\ sa_fences = [t \in Owner |-> [l \in SaList |-> SaNone]]
    /\ woken = {}
    /\ soffset = [b \in SaBo |-> 0]
    /\ eoffset = [b \in SaBo |-> 0]
    /\ fence = [b \in SaBo |-> "none"]

SaGoto(t, l) == sapc' = [sapc EXCEPT ![t] = l]
Bo(t) == <<t, nalloc[t]>>

-----------------------------------------------------------------------------
(* The lists: m is the value of sa.                                        *)

remove_locked(m, b) ==
    LET k == CHOOSE i \in DOMAIN m.olist : m.olist[i] = b IN
    [olist |-> RemoveAt(m.olist, k),
     hole  |-> IF m.hole >= k THEN m.hole - 1 ELSE m.hole,
     flist |-> [l \in SaList |-> SelectSeq(m.flist[l], LAMBDA c : c # b)]]

free_unfenced(m) ==
    IF m.hole = Len(m.olist) THEN m ELSE remove_locked(m, m.olist[m.hole + 1])

\* The ranges that follow the hole, up to the first one in use.
try_free(m) ==
    LET kept == {k \in m.hole + 1 .. Len(m.olist) : fence[m.olist[k]] # "signaled"}
        next == Min(kept \cup {Len(m.olist) + 1})
        olist == SubSeq(m.olist, 1, m.hole) \o SubSeq(m.olist, next, Len(m.olist))
    IN  [olist |-> olist, hole |-> m.hole,
         flist |-> [l \in SaList |-> SelectSeq(m.flist[l], LAMBDA b : Contains(olist, b))]]

hole_soffset(m) == IF m.hole = 0 THEN 0 ELSE eoffset[m.olist[m.hole]]

hole_eoffset(m) == IF m.hole = Len(m.olist) THEN SaSize ELSE soffset[m.olist[m.hole + 1]]

wasted(m, r) == (r.align - (hole_soffset(m) % r.align)) % r.align

Fits(m, r) == hole_eoffset(m) - hole_soffset(m) >= r.size + wasted(m, r)

sa_event(m, r) == (\E l \in SaList : m.flist[l] # <<>>) \/ Fits(m, r)

\* Of the lists whose first range is free, the one with the range closest to the hole.
Closest(m) ==
    LET free == {l \in SaList : /\ m.flist[l] # <<>>
                                /\ fence[m.flist[l][1]] = "signaled"
                                /\ tries[l] <= SaTries}
        after(l) == (soffset[m.flist[l][1]] - hole_soffset(m)) % SaSize
    IN  {l \in free : \A k \in free : after(l) <= after(k)}

-----------------------------------------------------------------------------
(* amdgpu_sa_bo_new.                                                       *)

\* The lock is taken, or held on to, and the search begins.
Search(t) ==
    /\ sa_lock' = t
    /\ tries' = [l \in SaList |-> 0]
    /\ sa_fences' = [sa_fences EXCEPT ![t] = [l \in SaList |-> SaNone]]
    /\ SaGoto(t, "search")

sa_bo_new(t) ==
    /\ sapc[t] = "out" /\ nalloc[t] < request[t].n
    /\ sa_lock = SaNone
    /\ nalloc' = [nalloc EXCEPT ![t] = @ + 1]
    /\ Search(t)
    /\ UNCHANGED <<sa, request, woken, soffset, eoffset, fence>>

\* amdgpu_sa_bo_try_alloc, after try_free, succeeds.
try_alloc(t) ==
    /\ sapc[t] = "search"
    /\ LET m == try_free(sa) IN
          /\ Fits(m, request[t])
          /\ soffset' = [soffset EXCEPT ![Bo(t)] = hole_soffset(m) + wasted(m, request[t])]
          /\ eoffset' = [eoffset EXCEPT ![Bo(t)] = soffset'[Bo(t)] + request[t].size]
          /\ sa' = [m EXCEPT !.olist = InsertAt(@, m.hole + 1, Bo(t)), !.hole = @ + 1]
    /\ sa_lock' = SaNone
    /\ SaGoto(t, "held")
    /\ UNCHANGED <<tries, request, nalloc, sa_fences, woken, fence>>

\* It does not, and amdgpu_sa_bo_next_hole goes back to the beginning ...
next_hole_wrap(t) ==
    /\ sapc[t] = "search"
    /\ LET m == try_free(sa) IN
          /\ ~ Fits(m, request[t])
          /\ m.hole = Len(m.olist)
          /\ sa' = [m EXCEPT !.hole = 0]
    /\ UNCHANGED <<sa_lock, tries, sapc, request, nalloc, sa_fences, woken, soffset, eoffset, fence>>

\* ... or looks at the first range of every list: it removes the closest free one,
\* and when there is none, the thread waits for one of the fences it found, or on wq.
next_hole(t) ==
    /\ sapc[t] = "search"
    /\ LET m == try_free(sa)
           found == [l \in SaList |->
                        IF m.flist[l] # <<>> /\ fence[m.flist[l][1]] # "signaled"
                        THEN m.flist[l][1] ELSE sa_fences[t][l]]
       IN /\ ~ Fits(m, request[t])
          /\ m.hole < Len(m.olist)
          /\ \/ \E l \in Closest(m) :
                   LET b == m.flist[l][1] IN
                   /\ tries' = [tries EXCEPT ![l] = @ + 1]
                   /\ sa' = remove_locked([m EXCEPT !.hole = (CHOOSE i \in DOMAIN m.olist : m.olist[i] = b) - 1], b)
                   /\ sa_fences' = [sa_fences EXCEPT ![t] = found]
                   /\ UNCHANGED <<sa_lock, sapc, woken>>
             \/ /\ Closest(m) = {}
                /\ sa' = m
                /\ \/ /\ \E l \in SaList : found[l] # SaNone
                      /\ sa_fences' = [sa_fences EXCEPT ![t] = found]
                      /\ sa_lock' = SaNone
                      /\ SaGoto(t, "fences")
                      /\ UNCHANGED <<tries, woken>>
                   \/ /\ \A l \in SaList : found[l] = SaNone
                      /\ IF sa_event(m, request[t])
                         THEN Search(t) /\ UNCHANGED woken
                         ELSE /\ sa_lock' = SaNone
                              /\ woken' = woken \ {t}
                              /\ SaGoto(t, "event")
                              /\ UNCHANGED <<tries, sa_fences>>
    /\ UNCHANGED <<request, nalloc, soffset, eoffset, fence>>

\* fence_wait_any_timeout returns.
fence_wait_any(t) ==
    /\ sapc[t] = "fences"
    /\ sa_lock = SaNone
    /\ \E l \in SaList : sa_fences[t][l] # SaNone /\ fence[sa_fences[t][l]] = "signaled"
    /\ Search(t)
    /\ UNCHANGED <<sa, request, nalloc, woken, soffset, eoffset, fence>>

\* wait_event_interruptible_locked: a waiter that was woken looks at the condition ...
event_check(t) ==
    /\ sapc[t] = "event" /\ t \in woken
    /\ sa_lock = SaNone
    /\ woken' = woken \ {t}
    /\ IF sa_event(sa, request[t]) THEN Search(t)
       ELSE UNCHANGED <<sa_lock, tries, sapc, sa_fences>>
    /\ UNCHANGED <<sa, request, nalloc, soffset, eoffset, fence>>

\* ... and one that a signal interrupts gives up.
event_interrupted(t) ==
    /\ sapc[t] = "event"
    /\ sa_lock = SaNone
    /\ SaGoto(t, "out")
    /\ UNCHANGED <<sa, sa_lock, tries, request, nalloc, sa_fences, woken, soffset, eoffset, fence>>

-----------------------------------------------------------------------------
(* amdgpu_sa_bo_free, and the fences.                                      *)

free_silently(t) ==
    /\ sapc[t] = "held"
    /\ sa_lock = SaNone
    /\ \/ /\ fence' = [fence EXCEPT ![Bo(t)] = "pending"]
          /\ sa' = [sa EXCEPT !.flist[request[t].list] = Append(@, Bo(t))]
       \/ sa' = remove_locked(sa, Bo(t)) /\ UNCHANGED fence
    /\ SaGoto(t, "out")
    /\ UNCHANGED <<sa_lock, tries, request, nalloc, sa_fences, woken, soffset, eoffset>>

\* With a fence that is not signaled, or with none (or one that is).
sa_bo_free(t) ==
    /\ sapc[t] = "held"
    /\ sa_lock = SaNone
    /\ \/ /\ fence' = [fence EXCEPT ![Bo(t)] = "pending"]
          /\ sa' = [sa EXCEPT !.flist[request[t].list] = Append(@, Bo(t))]
       \/ sa' = remove_locked(sa, Bo(t)) /\ UNCHANGED fence
    /\ woken' = {o \in Owner : sapc[o] = "event"}
    /\ SaGoto(t, "out")
    /\ UNCHANGED <<sa_lock, tries, request, nalloc, sa_fences, soffset, eoffset>>

FenceSignals(b) ==
    /\ fence[b] = "pending"
    /\ fence' = [fence EXCEPT ![b] = "signaled"]
    /\ UNCHANGED <<sa, sa_lock, tries, sapc, request, nalloc, sa_fences, woken, soffset, eoffset>>

-----------------------------------------------------------------------------
SaStep(t) ==
    \/ try_alloc(t) \/ next_hole_wrap(t) \/ next_hole(t)
    \/ fence_wait_any(t) \/ event_check(t) \/ sa_bo_free(t)

NextSa ==
    \/ \E t \in Owner : sa_bo_new(t) \/ SaStep(t) \/ event_interrupted(t)
    \/ \E b \in SaBo : FenceSignals(b)

SpecSa == InitSa /\ [][NextSa]_saVars

\* A thread that can go on does, and frees what it has; the GPU signals its fences.
FairnessSa ==
    /\ \A t \in Owner : WF_saVars(SaStep(t))
    /\ WF_saVars(\E b \in SaBo : FenceSignals(b))

-----------------------------------------------------------------------------
(* Properties.                                                             *)

SaTypes ==
    /\ ToSet(sa.olist) \subseteq SaBo
    /\ sa.hole \in 0..Len(sa.olist)
    /\ \A l \in SaList : ToSet(sa.flist[l]) \subseteq ToSet(sa.olist)
    /\ sa_lock \in Owner \cup {SaNone}
    /\ sapc \in [Owner -> {"out", "search", "held", "fences", "event"}]
    /\ fence \in [SaBo -> {"none", "pending", "signaled"}]

\* The ranges that a thread has, or that the GPU still uses.
InUse == {b \in SaBo : fence[b] = "pending" \/ (sapc[b[1]] = "held" /\ nalloc[b[1]] = b[2])}

\* No two ranges in use share memory, and each lies within the buffer, however
\* allocations wrap around and skip ranges that are not free yet (try_alloc, next_hole).
RangesDisjoint ==
    \A b \in InUse :
        /\ soffset[b] < eoffset[b] /\ eoffset[b] <= SaSize
        /\ \A c \in InUse \ {b} : eoffset[b] <= soffset[c] \/ eoffset[c] <= soffset[b]

\* Every call of amdgpu_sa_bo_new returns: a thread does not sleep on while there is
\* nobody left to wake it, nor search without end (a thread makes finitely many).
AllocationsReturn == <>[](\A t \in Owner : sapc[t] = "out")
=============================================================================
