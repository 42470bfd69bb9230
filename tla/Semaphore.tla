----------------------------- MODULE Semaphore -----------------------------
(***************************************************************************)
(* What a counting semaphore promises: sem_wait passes when the count is   *)
(* positive and takes one, sem_trywait refuses only at a count of zero,    *)
(* and somebody passes as long as there are a positive count and a waiter. *)
(***************************************************************************)
EXTENDS Naturals

CONSTANTS Threads, Initial

VARIABLES count,
          waiting,   (* threads inside sem_wait, not yet passed            *)
          res        (* per thread: answer of its last sem_trywait         *)

sem == <<count, waiting, res>>

Init == count = Initial /\ waiting = {} /\ res = [t \in Threads |-> "none"]

Arrive(t) == t \notin waiting /\ waiting' = waiting \cup {t} /\ UNCHANGED <<count, res>>

Pass(t) ==
  /\ t \in waiting /\ count > 0
  /\ count' = count - 1 /\ waiting' = waiting \ {t} /\ UNCHANGED res

Post == count' = count + 1 /\ UNCHANGED <<waiting, res>>

Try(t) ==
  /\ t \notin waiting /\ UNCHANGED waiting
  /\ \/ count > 0 /\ count' = count - 1 /\ res' = [res EXCEPT ![t] = "ok"]
     \/ count = 0 /\ UNCHANGED count /\ res' = [res EXCEPT ![t] = "again"]

PassSome == \E t \in Threads : Pass(t)
Next == PassSome \/ Post \/ \E t \in Threads : Arrive(t) \/ Try(t)

Safe == Init /\ [][Next]_sem
Spec == Safe /\ WF_sem(PassSome)
=============================================================================
