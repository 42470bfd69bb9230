-------------------------------- MODULE SyncQ --------------------------------
(***************************************************************************)
(* inc/fast/syncq.h: bounded blocking queues.  notfull and notempty count  *)
(* free slots and elements; a mutex protects the ring indices.  Queues is  *)
(* the set of queues of the program; a thread works on one at a time.      *)
(*                                                                         *)
(* POSIX semaphores and mutexes are external.  sem_post is two steps: the  *)
(* increment, after which a waiter may run, and the rest of the call (the  *)
(* Darwin semaphore of src/posix/darwin_sem.c wakes its waiters there).    *)
(***************************************************************************)
EXTENDS Naturals, Sequences, FiniteSets

CONSTANTS Queues, Threads,
          Sz,        (* slots of each queue                                *)
          Value,     (* what the queues hold                               *)
          NoThread   (* the owner of a free mutex                          *)

ASSUME SyncQAssumption ==
  Sz \in Nat \ {0} /\ NoThread \notin Threads /\ IsFiniteSet(Threads) /\ Queues # {}

VARIABLES rd, wr, e,          (* per queue: the ring                       *)
          lock,               (* per queue: owner of the mutex             *)
          notempty, notfull,  (* per queue: semaphore values               *)
          pc,                 (* per thread: place in ENQ or DEQ           *)
          on,                 (* per thread: queue in use                  *)
          ix,                 (* per thread: w_ or r_                      *)
          val,                (* per thread: obj to enqueue, z_ dequeued   *)
          log, out            (* per queue, history: written, read         *)

ring == <<rd, wr, e>>
hist == <<log, out>>
syncq == <<rd, wr, e, lock, notempty, notfull, pc, on, ix, val, log, out>>

Slots == 0 .. Sz - 1
Succ(i) == IF i + 1 = Sz THEN 0 ELSE i + 1

(* SYNCQ_INIT of every queue; no thread is in an operation. *)
QInit ==
  /\ rd = [q \in Queues |-> 0] /\ wr = [q \in Queues |-> 0]
  /\ e = [q \in Queues |-> [s \in Slots |-> NoThread]]
  /\ lock = [q \in Queues |-> NoThread]
  /\ notempty = [q \in Queues |-> 0] /\ notfull = [q \in Queues |-> Sz]
  /\ pc = [t \in Threads |-> "out"]
  /\ on \in [Threads -> {CHOOSE q \in Queues : TRUE}]
  /\ ix = [t \in Threads |-> 0]
  /\ val = [t \in Threads |-> NoThread]
  /\ log = [q \in Queues |-> <<>>] /\ out = [q \in Queues |-> <<>>]

Goto(t, l) == pc' = [pc EXCEPT ![t] = l]
Set(f, x, v) == [f EXCEPT ![x] = v]
-----------------------------------------------------------------------------
(* A thread calls SYNCQ_ENQ(q, v) or SYNCQ_DEQ(q). *)
EnqCall(t, q, v) ==
  /\ pc[t] = "out" /\ Goto(t, "notfull")
  /\ on' = Set(on, t, q) /\ val' = Set(val, t, v)
  /\ UNCHANGED <<ring, lock, notempty, notfull, ix, hist>>

DeqCall(t, q) ==
  /\ pc[t] = "out" /\ Goto(t, "notempty")
  /\ on' = Set(on, t, q) /\ val' = Set(val, t, NoThread)
  /\ UNCHANGED <<ring, lock, notempty, notfull, ix, hist>>

WaitNotFullFault(t) ==                   \* fault: does not wait for a slot
  /\ pc[t] = "notfull"
  /\ Goto(t, "enqlock")
  /\ UNCHANGED <<ring, lock, notempty, notfull, on, ix, val, hist>>

(* sem_wait *)
WaitNotFull(t) ==
  /\ pc[t] = "notfull" /\ notfull[on[t]] > 0
  /\ notfull' = [notfull EXCEPT ![on[t]] = @ - 1]
  /\ Goto(t, "enqlock")
  /\ UNCHANGED <<ring, lock, notempty, on, ix, val, hist>>

WaitNotEmpty(t) ==
  /\ pc[t] = "notempty" /\ notempty[on[t]] > 0
  /\ notempty' = [notempty EXCEPT ![on[t]] = @ - 1]
  /\ Goto(t, "deqlock")
  /\ UNCHANGED <<ring, lock, notfull, on, ix, val, hist>>

LockFault(t) ==                          \* fault: the mutex is not taken
  /\ pc[t] \in {"enqlock", "deqlock"}
  /\ Goto(t, IF pc[t] = "enqlock" THEN "advwr" ELSE "advrd")
  /\ UNCHANGED <<ring, lock, notempty, notfull, on, ix, val, hist>>

(* pthread_mutex_lock *)
Lock(t) ==
  /\ pc[t] \in {"enqlock", "deqlock"} /\ lock[on[t]] = NoThread
  /\ lock' = Set(lock, on[t], t)
  /\ Goto(t, IF pc[t] = "enqlock" THEN "advwr" ELSE "advrd")
  /\ UNCHANGED <<ring, notempty, notfull, on, ix, val, hist>>

(* w_ = wr++, with wraparound *)
AdvanceWr(t) ==
  /\ pc[t] = "advwr"
  /\ ix' = Set(ix, t, wr[on[t]])
  /\ wr' = [wr EXCEPT ![on[t]] = Succ(@)]
  /\ Goto(t, "store")
  /\ UNCHANGED <<rd, e, lock, notempty, notfull, on, val, hist>>

Store(t) ==
  /\ pc[t] = "store"
  /\ e' = [e EXCEPT ![on[t]][ix[t]] = val[t]]
  /\ log' = [log EXCEPT ![on[t]] = Append(@, val[t])]
  /\ Goto(t, "enqunlock")
  /\ UNCHANGED <<rd, wr, lock, notempty, notfull, on, ix, val, out>>

(* r_ = rd++, with wraparound *)
AdvanceRd(t) ==
  /\ pc[t] = "advrd"
  /\ ix' = Set(ix, t, rd[on[t]])
  /\ rd' = [rd EXCEPT ![on[t]] = Succ(@)]
  /\ Goto(t, "fetch")
  /\ UNCHANGED <<wr, e, lock, notempty, notfull, on, val, hist>>

Fetch(t) ==
  /\ pc[t] = "fetch"
  /\ val' = Set(val, t, e[on[t]][ix[t]])
  /\ out' = [out EXCEPT ![on[t]] = Append(@, e[on[t]][ix[t]])]
  /\ Goto(t, "dequnlock")
  /\ UNCHANGED <<ring, lock, notempty, notfull, on, ix, log>>

Unlock(t) ==
  /\ pc[t] \in {"enqunlock", "dequnlock"}
  /\ lock' = Set(lock, on[t], NoThread)
  /\ Goto(t, IF pc[t] = "enqunlock" THEN "postfull" ELSE "postfree")
  /\ UNCHANGED <<ring, notempty, notfull, on, ix, val, hist>>

PostFault(t) ==                          \* fault: DEQ does not return the slot
  /\ pc[t] \in {"postfull", "postfree"}
  /\ notempty' = IF pc[t] = "postfull" THEN [notempty EXCEPT ![on[t]] = @ + 1] ELSE notempty
  /\ Goto(t, "wake")
  /\ UNCHANGED <<ring, lock, notfull, on, ix, val, hist>>

(* sem_post(notempty) by ENQ, sem_post(notfull) by DEQ *)
Post(t) ==
  /\ \/ /\ pc[t] = "postfull"
        /\ notempty' = [notempty EXCEPT ![on[t]] = @ + 1]
        /\ UNCHANGED notfull
     \/ /\ pc[t] = "postfree"
        /\ notfull' = [notfull EXCEPT ![on[t]] = @ + 1]
        /\ UNCHANGED notempty
  /\ Goto(t, "wake")
  /\ UNCHANGED <<ring, lock, on, ix, val, hist>>

Wake(t) ==
  /\ pc[t] = "wake" /\ Goto(t, "out")
  /\ UNCHANGED <<ring, lock, notempty, notfull, on, ix, val, hist>>

(* The steps inside SYNCQ_ENQ and SYNCQ_DEQ, up to their return. *)
QStep(t) ==
  \/ WaitNotFull(t) \/ WaitNotEmpty(t) \/ Lock(t)
  \/ AdvanceWr(t) \/ Store(t) \/ AdvanceRd(t) \/ Fetch(t)
  \/ Unlock(t) \/ Post(t) \/ Wake(t)
-----------------------------------------------------------------------------
(* Indices and semaphores stay in range: no semaphore exceeds Sz. *)
QTypeOK ==
  /\ rd \in [Queues -> Slots] /\ wr \in [Queues -> Slots]
  /\ e \in [Queues -> [Slots -> Value \cup {NoThread}]]
  /\ lock \in [Queues -> Threads \cup {NoThread}]
  /\ notempty \in [Queues -> 0 .. Sz] /\ notfull \in [Queues -> 0 .. Sz]
  /\ pc \in [Threads -> {"out", "notfull", "notempty", "enqlock", "deqlock", "advwr",
                         "store", "advrd", "fetch", "enqunlock", "dequnlock",
                         "postfull", "postfree", "wake"}]
  /\ on \in [Threads -> Queues] /\ ix \in [Threads -> Slots]
  /\ val \in [Threads -> Value \cup {NoThread}]
  /\ log \in [Queues -> Seq(Value)] /\ out \in [Queues -> Seq(Value)]

(* Each queue is a FIFO of Sz elements: what ENQ stored comes out once, in *)
(* order, and is not overwritten before it was fetched.                    *)
Stored(q) ==
  IF \E t \in Threads : on[t] = q /\ pc[t] = "enqunlock" THEN Len(log[q]) - 1 ELSE Len(log[q])
Fifo(q) == INSTANCE TicketFifo WITH
             Size <- Sz, log <- log[q], ready <- 0 .. Stored(q) - 1,
             got <- [t \in 0 .. Len(out[q]) - 1 |-> out[q][t + 1]]
FifoSpec ==
  /\ \A q \in Queues : Fifo(q)!Init
  /\ [][\A q \in Queues : Fifo(q)!Next \/ UNCHANGED Fifo(q)!fifo]_syncq
-----------------------------------------------------------------------------
(* A program whose threads use the queues through SYNCQ_ENQ and SYNCQ_DEQ  *)
(* only, and call them with values.                                        *)
QCall(t) == \E q \in Queues : DeqCall(t, q) \/ \E v \in Value : EnqCall(t, q, v)
QNext == \E t \in Threads : QCall(t) \/ QStep(t)
QSpec == QInit /\ [][QNext]_syncq

(* Places inside SYNCQ_ENQ and SYNCQ_DEQ: before and after the element has *)
(* gone into the ring, or come out of it; the end of both.                 *)
Bringing == {"notfull", "enqlock", "advwr", "store"}
Brought == {"enqunlock", "postfull"}
Asking == {"notempty", "deqlock", "advrd", "fetch"}
Handed == {"dequnlock", "postfree"}
Leaving == {"wake", "out"}
Quietly(l, m) ==
  \/ l \in Bringing /\ m \in Bringing
  \/ l \in Brought /\ m \in Brought \cup Leaving
  \/ l \in Asking /\ m \in Asking
  \/ l \in Handed /\ m \in Handed \cup Leaving
  \/ l \in Leaving /\ m \in Leaving

(* What such a program sees of a step inside an operation: nothing, or its *)
(* element is behind the others, or it has the oldest one that is left.    *)
Seen(t) ==
  /\ pc[t] # "out" /\ UNCHANGED on
  /\ \/ (\E l : Goto(t, l) /\ Quietly(pc[t], l)) /\ UNCHANGED <<val, hist>>
     \/ /\ pc[t] \in Bringing /\ Goto(t, "enqunlock") /\ UNCHANGED <<val, out>>
        /\ log' = [log EXCEPT ![on[t]] = Append(@, val[t])]
     \/ /\ pc[t] \in Asking /\ Goto(t, "dequnlock") /\ UNCHANGED log
        /\ Len(out[on[t]]) + 1 \in 1 .. Len(log[on[t]])
        /\ val' = [val EXCEPT ![t] = log[on[t]][Len(out[on[t]]) + 1]]
        /\ out' = [out EXCEPT ![on[t]] = Append(@, log[on[t]][Len(out[on[t]]) + 1])]

(* What it finds of the queues: what came out is what went in, in order.   *)
InOrder ==
  /\ QTypeOK
  /\ \A t \in Threads : pc[t] \in Bringing => val[t] \in Value
  /\ \A q \in Queues : \A k \in 1 .. Len(out[q]) : k <= Len(log[q]) /\ out[q][k] = log[q][k]
=============================================================================
