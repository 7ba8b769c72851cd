------------------------ MODULE MCCommandSubmission ------------------------
(* Instances of CommandSubmission for TLC. *)
EXTENDS CommandSubmission, TLC

CONSTANTS t1, t2, t3, f1, f2, f3, pd1, pd2, pd3, b1, b2, b3, u1, i1, i2

Nobody == [file |-> f3, bos |-> <<pd3>>, cs |-> 0]

Work(w1, w2, w3, inv, nested, mmap_sem, signal, nomem, error) ==
    LET w == t1 :> w1 @@ t2 :> w2 @@ t3 :> w3 IN
    [file |-> [t \in Thread |-> w[t].file], bos |-> [t \in Thread |-> w[t].bos],
     cs |-> [t \in Thread |-> w[t].cs],
     inv |-> inv, nested |-> nested, mmap_sem |-> mmap_sem,
     signal |-> signal, nomem |-> nomem, error |-> error]

\* Two threads of one context, which submit more jobs than it keeps fences.
OneContext ==
    Work([file |-> f1, bos |-> <<pd1, b1>>, cs |-> 2],
         [file |-> f1, bos |-> <<pd1, b2, b2>>, cs |-> 2], Nobody, {}, {}, FALSE, 0, 0, 1)

\* Three files that share buffers, each naming them in an order of its own.
Cycle(signal, nomem) ==
    Work([file |-> f1, bos |-> <<pd1, b1, b2>>, cs |-> 1],
         [file |-> f2, bos |-> <<pd2, b2, b3, b2>>, cs |-> 1],
         [file |-> f3, bos |-> <<pd3, b3, b1>>, cs |-> 1], {}, {}, FALSE, signal, nomem, 0)

\* Two threads with lists that name a userptr buffer, and two invalidations of it.
Invalidated(m, n, nested, mmap_sem, error) ==
    Work([file |-> f1, bos |-> <<pd1, u1>>, cs |-> m],
         [file |-> f1, bos |-> <<pd1, b1, u1>>, cs |-> n], Nobody,
         {i1, i2}, nested, mmap_sem, 0, 0, error)

SafeWorkloads ==
    {OneContext, Cycle(1, 0), Cycle(0, 1),
     Invalidated(1, 1, {}, FALSE, 0), Invalidated(2, 0, {<<i1, i2>>}, FALSE, 0),
     Invalidated(2, 0, {}, TRUE, 1)}

StaleWorkloads == {Invalidated(2, 0, {}, TRUE, 0)}
=============================================================================
