---------------------------- MODULE MCServices -----------------------------
(***************************************************************************)
(* Instances for TLC of four components that share no state: the           *)
(* suballocator, an interrupt source, the lock of TTM and the events of    *)
(* amdkfd.  One of them, comp, runs; the others stay in their initial      *)
(* state, and with them their fairness conditions are void.                *)
(***************************************************************************)
EXTENDS SaManager, IrqSource, TtmLock, KfdEvents, TLC

VARIABLE comp

First(S) == CHOOSE x \in S : TRUE

Init ==
    /\ comp \in {"sa", "irq", "ttm", "kfd"}
    /\ InitSa /\ InitIrq /\ InitTtmLock /\ InitKfd
    /\ comp = "sa" \/ request = First(SaLoads)
    /\ comp = "kfd" \/ kfdLoad = First(KfdLoads)

Next ==
    /\ UNCHANGED comp
    /\ \/ comp = "sa"  /\ NextSa      /\ UNCHANGED <<irqVars, ttmLockVars, kfdVars>>
       \/ comp = "irq" /\ NextIrq     /\ UNCHANGED <<saVars, ttmLockVars, kfdVars>>
       \/ comp = "ttm" /\ NextTtmLock /\ UNCHANGED <<saVars, irqVars, kfdVars>>
       \/ comp = "kfd" /\ NextKfd     /\ UNCHANGED <<saVars, irqVars, ttmLockVars>>

Spec ==
    /\ Init /\ [][Next]_<<comp, saVars, irqVars, ttmLockVars, kfdVars>>
    /\ FairnessSa /\ FairnessTtmLock /\ FairnessKfd

\* The values that the variables of the four components range over.
ServicesTypes == SaTypes /\ IrqTypes /\ TtmLockTypes /\ KfdTypes

-----------------------------------------------------------------------------
(* The suballocator: three threads and four units of memory.               *)

Alloc(size, align, list, n) == [size |-> size, align |-> align, list |-> list, n |-> n]

Allocations ==
    {<<Alloc(1, 1, 0, 2), Alloc(2, 2, 0, 1), Alloc(3, 1, 1, 1)>>,
     <<Alloc(1, 1, 0, 3), Alloc(4, 1, 1, 1), Alloc(1, 1, 1, 0)>>,
     <<Alloc(1, 1, 0, 3), Alloc(2, 2, 1, 2), Alloc(1, 1, 1, 0)>>}

(* The lock of TTM: a reader, and two threads of two kinds each.           *)

LockKinds == <<{"read", "try"}, {"write", "suspend"}, {"write", "vt"}>>

(* Events: two of process p and one of q, and up to two threads of p.      *)

ProcessOf == "e1" :> "p" @@ "e2" :> "p" @@ "e3" :> "q"

WaitOn(events, all, timeout, n) ==
    [events |-> events, all |-> all, timeout |-> timeout, n |-> n]

Nothing == WaitOn(<<"e1">>, FALSE, "zero", 0)

KfdLoad(w1, w2, signals, sets) == [wait |-> <<w1, w2>>, signals |-> signals, sets |-> sets]

Loads ==
    {KfdLoad(WaitOn(<<"e1", "e2">>, TRUE, "infinite", 1), Nothing, 2, 1),
     KfdLoad(WaitOn(<<"e2">>, FALSE, "infinite", 1), Nothing, 3, 0),
     KfdLoad(WaitOn(<<"e1", "e2">>, TRUE, "infinite", 1),
             WaitOn(<<"e1">>, FALSE, "finite", 1), 0, 2),
     KfdLoad(WaitOn(<<"e2", "e1">>, FALSE, "infinite", 2),
             WaitOn(<<"e2">>, FALSE, "zero", 1), 0, 2)}
=============================================================================
