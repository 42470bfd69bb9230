----------------------------- MODULE BatchQueue -----------------------------
(***************************************************************************)
(* What the ring promises: a FIFO to which batches are added, and from     *)
(* which batches are taken, in one step each.                              *)
(***************************************************************************)
EXTENDS Naturals, Sequences

CONSTANTS Threads, Cap

VARIABLES q,     (* the queue                                              *)
          got    (* per thread: the last batch it took                     *)

Init == q = <<>> /\ got = [t \in Threads |-> <<>>]

Begins(s, t) == Len(s) <= Len(t) /\ SubSeq(s, 1, Len(s)) = SubSeq(t, 1, Len(s))

Put == /\ q # q' /\ Begins(q, q') /\ Len(q') <= Cap
       /\ UNCHANGED got

Take(t) == \E n \in 1 .. Len(q) :
             /\ got' = [got EXCEPT ![t] = SubSeq(q, 1, n)]
             /\ q' = SubSeq(q, n + 1, Len(q))

Forget(t) == got' = [got EXCEPT ![t] = <<>>] /\ UNCHANGED q

Next == Put \/ \E t \in Threads : Take(t) \/ Forget(t)

Spec == Init /\ [][Next]_<<q, got>>
=============================================================================
