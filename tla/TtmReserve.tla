----------------------------- MODULE TtmReserve -----------------------------
(***************************************************************************)
(* The reservation of buffer objects by ttm/ttm_execbuf_util.c: a thread   *)
(* locks the buffers of its list one by one, and backs off when an older   *)
(* ticket holds one of them.                                               *)
(*                                                                         *)
(* The ww_mutex of a buffer is the kernel's: a thread that holds locks and *)
(* meets an older holder gets -EDEADLK, any other one waits.  Of tv.shared *)
(* only the value TRUE is modelled (buffers that are not exported).        *)
(***************************************************************************)
EXTENDS Integers, Sequences, Functions

CONSTANTS
    Thread,
    Bo,
    None

VARIABLES
    owner,      \* who holds the ww_mutex of a buffer's reservation object
    resv,       \* the shared fences of the reservation object
    tickets,    \* the acquire contexts in use, oldest first
    list,       \* the validation list of a thread
    dups,       \* its list of duplicates
    entry,      \* the position in the list ttm_eu_reserve_buffers is at
    rpc         \* where ttm_eu_reserve_buffers is

ttmVars == <<owner, resv, tickets, list, dups, entry, rpc>>

InitTtm ==
    /\ owner = [b \in Bo |-> None]
    /\ resv = [b \in Bo |-> {}]
    /\ tickets = <<>>
    /\ list = [t \in Thread |-> <<>>]
    /\ dups = [t \in Thread |-> {}]
    /\ entry = [t \in Thread |-> 0]
    /\ rpc = [t \in Thread |-> "out"]

Older(s, t) ==
    \E i, k \in DOMAIN tickets : tickets[i] = s /\ tickets[k] = t /\ i < k

\* The buffers of a list.
Bos(l) == {l[i] : i \in DOMAIN l}

\* list_del, of the n-th entry and of the entry of buffer b.
Without(l, n) == [i \in 1..(Len(l) - 1) |-> IF i < n THEN l[i] ELSE l[i + 1]]
list_del(l, b) == IF b \in Bos(l) THEN Without(l, CHOOSE k \in DOMAIN l : l[k] = b) ELSE l

Unreserve(B) == owner' = [b \in Bo |-> IF b \in B THEN None ELSE owner[b]]

ww_acquire_fini(t) == tickets' = SelectSeq(tickets, LAMBDA s : s # t)

\* The entries in front of the one the loop is at.
Visited(t) == Bos(SubSeq(list[t], 1, entry[t] - 1))

\* The call: ww_acquire_init and the first entry of the list l.
ttm_eu_reserve_buffers(t, l, d) ==
    /\ rpc[t] = "out"
    /\ tickets' = Append(tickets, t)
    /\ list' = [list EXCEPT ![t] = l]
    /\ entry' = [entry EXCEPT ![t] = 1]
    /\ dups' = [dups EXCEPT ![t] = d]
    /\ rpc' = [rpc EXCEPT ![t] = "reserve"]
    /\ UNCHANGED <<owner, resv>>

\* The loop goes on at position n of list l, or is through.
Continue(t, l, n) ==
    /\ list' = [list EXCEPT ![t] = l]
    /\ entry' = [entry EXCEPT ![t] = n]
    /\ rpc' = [rpc EXCEPT ![t] = IF n > Len(l) THEN "reserved" ELSE "reserve"]

\* Return an error: the acquire context ends.
Fail(t) ==
    /\ ww_acquire_fini(t)
    /\ rpc' = [rpc EXCEPT ![t] = "failed"]
    /\ UNCHANGED <<resv, list, dups, entry>>

\* The buffer the loop is at.
Current(t) == list[t][entry[t]]

\* __ttm_bo_reserve takes the buffer ...
reserve_free(t) ==
    /\ rpc[t] = "reserve"
    /\ owner[Current(t)] = None
    /\ owner' = [owner EXCEPT ![Current(t)] = t]
    /\ Continue(t, list[t], entry[t] + 1)
    /\ UNCHANGED <<resv, tickets, dups>>

\* ... or it finds that this list holds it already (-EALREADY) ...
reserve_already(t) ==
    /\ rpc[t] = "reserve"
    /\ owner[Current(t)] = t
    /\ dups' = [dups EXCEPT ![t] = @ \cup {Current(t)}]
    /\ Continue(t, Without(list[t], entry[t]), entry[t])
    /\ UNCHANGED <<owner, resv, tickets>>

wait_for_older(t) ==
    /\ rpc[t] = "reserve"
    /\ owner[Current(t)] \notin {None, t}
    /\ Visited(t) # {}
    /\ Older(owner[Current(t)], t)
    /\ rpc' = [rpc EXCEPT ![t] = "slow"]
    /\ UNCHANGED <<owner, resv, tickets, list, dups, entry>>

\* ... or an older ticket does (-EDEADLK), and the thread drops what it holds.
reserve_deadlk(t) ==
    /\ rpc[t] = "reserve"
    /\ owner[Current(t)] \notin {None, t}
    /\ Visited(t) # {}
    /\ Older(owner[Current(t)], t)
    /\ Unreserve(Visited(t))
    /\ rpc' = [rpc EXCEPT ![t] = "slow"]
    /\ UNCHANGED <<resv, tickets, list, dups, entry>>

MoveToFront(l, n) == <<l[n]>> \o Without(l, n)

slow_in_place(t) ==
    /\ rpc[t] = "slow"
    /\ owner[Current(t)] = None
    /\ owner' = [owner EXCEPT ![Current(t)] = t]
    /\ Continue(t, list[t], entry[t] + 1)
    /\ UNCHANGED <<resv, tickets, dups>>

\* ww_mutex_lock_slow_interruptible: the lock that lost comes first, then all the
\* others again.
reserve_slow(t) ==
    /\ rpc[t] = "slow"
    /\ owner[Current(t)] = None
    /\ owner' = [owner EXCEPT ![Current(t)] = t]
    /\ Continue(t, MoveToFront(list[t], entry[t]), 2)
    /\ UNCHANGED <<resv, tickets, dups>>

interrupted_reserved(t) ==
    /\ rpc[t] \in {"reserve", "slow"}
    /\ owner[Current(t)] \notin {None, t}
    /\ UNCHANGED owner
    /\ Fail(t)

\* A signal ends the wait for a buffer.
reserve_interrupted(t) ==
    /\ rpc[t] \in {"reserve", "slow"}
    /\ owner[Current(t)] \notin {None, t}
    /\ Unreserve(IF rpc[t] = "reserve" THEN Visited(t) ELSE {})
    /\ Fail(t)

\* reservation_object_reserve_shared has no memory: what was reserved before is
\* dropped, the buffer just reserved is not.
reserve_shared_fails(t) ==
    /\ rpc[t] \in {"reserve", "slow"}
    /\ owner[Current(t)] = None
    /\ owner' = [b \in Bo |-> IF b = Current(t) THEN t
                              ELSE IF rpc[t] = "reserve" /\ b \in Visited(t) THEN None
                              ELSE owner[b]]
    /\ Fail(t)

ttm_eu_step(t) ==
    reserve_free(t) \/ reserve_already(t) \/ reserve_deadlk(t) \/ reserve_slow(t)

\* ttm_eu_backoff_reservation, with the buffers the caller has unreserved itself.
ttm_eu_backoff_reservation(t) ==
    /\ Unreserve(Bos(list[t]))
    /\ ww_acquire_fini(t)
    /\ rpc' = [rpc EXCEPT ![t] = "out"]
    /\ entry' = [entry EXCEPT ![t] = 0]
    /\ UNCHANGED <<resv, dups>>

\* The caller has seen the error.
reserve_returned(t) ==
    /\ rpc' = [rpc EXCEPT ![t] = "out"]
    /\ entry' = [entry EXCEPT ![t] = 0]
    /\ UNCHANGED <<owner, resv, tickets, dups>>

\* reservation_object_add_shared_fence replaces the fence of the same context.
AddShared(F, f, context) == (F \ context) \cup {f}

\* context: the fences of the context of f
ttm_eu_fence_buffer_objects(t, f, context) ==
    /\ resv' = [b \in Bo |-> IF b \in Bos(list[t]) THEN AddShared(resv[b], f, context) ELSE resv[b]]
    /\ Unreserve(Bos(list[t]))
    /\ ww_acquire_fini(t)
    /\ rpc' = [rpc EXCEPT ![t] = "out"]
    /\ entry' = [entry EXCEPT ![t] = 0]
    /\ UNCHANGED dups

-----------------------------------------------------------------------------
(* Properties.                                                             *)

ReservePhase == {"out", "reserve", "slow", "reserved", "failed"}

TtmTypes ==
    /\ owner \in [Bo -> Thread \cup {None}]
    /\ Bos(tickets) \subseteq Thread
    /\ \A t \in Thread : Bos(list[t]) \subseteq Bo /\ entry[t] \in 0..(Len(list[t]) + 1)
    /\ dups \in [Thread -> SUBSET Bo]
    /\ rpc \in [Thread -> ReservePhase]

\* While a thread reserves, it holds exactly the entries in front of the one it is
\* at, each once, although entries move to the front and to the duplicates; when
\* it waits for the buffer it lost it holds none, and in the end it holds all.
\* Backing off in reverse from an entry depends on it.
ReservedPrefix ==
    \A t \in Thread :
        LET held == {b \in Bo : owner[b] = t} IN
        /\ rpc[t] = "reserve"  => held = Visited(t)
        /\ rpc[t] = "slow"     => held = {}
        /\ rpc[t] = "reserved" => held = Bos(list[t]) /\ IsInjective(list[t])
=============================================================================
