----------------------------- MODULE DarwinSem -----------------------------
(***************************************************************************)
(* src/posix/darwin_sem.c: POSIX semaphores from a mutex and a condition   *)
(* variable (both external).  pthread_cond_wait may wake spuriously, and   *)
(* a woken thread must take the mutex again before it tests s_val.         *)
(***************************************************************************)
EXTENDS Naturals

CONSTANTS Threads, NoThread,
          Initial,   (* val of sem_init                                    *)
          MaxOps     (* bound: calls made in all                           *)

ASSUME DarwinAssumption == Initial \in Nat /\ MaxOps \in Nat /\ NoThread \notin Threads

VARIABLES s_val, s_lock,
          pc,        (* per thread; "asleep" is on s_cond                  *)
          res, ops

semVars == <<s_val, s_lock, pc, res, ops>>

SemInit ==
  /\ s_val = Initial /\ s_lock = NoThread
  /\ pc = [t \in Threads |-> "out"]
  /\ res = [t \in Threads |-> "none"]
  /\ ops = 0

Goto(t, l) == pc' = [pc EXCEPT ![t] = l]
-----------------------------------------------------------------------------
Call(t) ==
  /\ pc[t] = "out" /\ ops < MaxOps
  /\ ops' = ops + 1
  /\ \E l \in {"wait", "post", "try"} : Goto(t, l)
  /\ UNCHANGED <<s_val, s_lock, res>>

(* pthread_mutex_lock on entry, or inside pthread_cond_wait once woken. *)
Locked(l) == CASE l = "wait" -> "test" [] l = "woken" -> "test"
               [] l = "post" -> "inc" [] l = "try" -> "tryval"

Lock(t) ==
  /\ pc[t] \in {"wait", "woken", "post", "try"} /\ s_lock = NoThread
  /\ s_lock' = t /\ Goto(t, Locked(pc[t]))
  /\ UNCHANGED <<s_val, res, ops>>

TestFault(t) ==                      \* fault: the mutex is released before the return
  /\ pc[t] = "test"
  /\ IF s_val = 0 THEN Goto(t, "asleep") /\ s_lock' = NoThread /\ UNCHANGED s_val
                  ELSE Goto(t, "unlock") /\ s_val' = s_val - 1 /\ s_lock' = NoThread
  /\ UNCHANGED <<res, ops>>

(* while (s_val == 0) pthread_cond_wait, which releases the mutex and      *)
(* sleeps in one step; else s_val--.                                       *)
Test(t) ==
  /\ pc[t] = "test"
  /\ IF s_val = 0 THEN Goto(t, "asleep") /\ s_lock' = NoThread /\ UNCHANGED s_val
                  ELSE Goto(t, "unlock") /\ s_val' = s_val - 1 /\ UNCHANGED s_lock
  /\ UNCHANGED <<res, ops>>

Spurious(t) ==
  /\ pc[t] = "asleep" /\ Goto(t, "woken")
  /\ UNCHANGED <<s_val, s_lock, res, ops>>

Increment(t) ==
  /\ pc[t] = "inc" /\ s_val' = s_val + 1 /\ Goto(t, "postunlock")
  /\ UNCHANGED <<s_lock, res, ops>>

TryVal(t) ==
  /\ pc[t] = "tryval" /\ Goto(t, "unlock")
  /\ s_val' = IF s_val > 0 THEN s_val - 1 ELSE s_val
  /\ res' = [res EXCEPT ![t] = IF s_val > 0 THEN "ok" ELSE "again"]
  /\ UNCHANGED <<s_lock, ops>>

Unlock(t) ==
  /\ pc[t] \in {"unlock", "postunlock"} /\ s_lock' = NoThread
  /\ Goto(t, IF pc[t] = "postunlock" THEN "broadcast" ELSE "out")
  /\ UNCHANGED <<s_val, res, ops>>

BroadcastFault(t) ==                 \* fault: no wake up call
  /\ pc[t] = "broadcast" /\ Goto(t, "out")
  /\ UNCHANGED <<s_val, s_lock, res, ops>>

(* pthread_cond_broadcast, after the unlock: every sleeper wakes. *)
Broadcast(t) ==
  /\ pc[t] = "broadcast"
  /\ pc' = [u \in Threads |-> IF u = t THEN "out"
                              ELSE IF pc[u] = "asleep" THEN "woken" ELSE pc[u]]
  /\ UNCHANGED <<s_val, s_lock, res, ops>>

SemStep(t) == Lock(t) \/ Test(t) \/ Increment(t) \/ TryVal(t) \/ Unlock(t) \/ Broadcast(t)

SemNext == \E t \in Threads : Call(t) \/ SemStep(t) \/ Spurious(t)

DarwinSpec == SemInit /\ [][SemNext]_semVars
-----------------------------------------------------------------------------
(* Types, and the mutex: it is held exactly by the thread that is between  *)
(* a lock and the unlock that follows.                                     *)
SemTypeOK ==
  /\ s_val \in Nat /\ ops \in 0 .. MaxOps
  /\ res \in [Threads -> {"none", "ok", "again"}]
  /\ pc \in [Threads -> {"out", "wait", "post", "try", "test", "inc", "tryval", "asleep",
                         "woken", "unlock", "postunlock", "broadcast"}]
  /\ s_lock \in Threads \cup {NoThread}
  /\ \A t \in Threads :
       pc[t] \in {"test", "inc", "tryval", "unlock", "postunlock"} <=> s_lock = t

(* While the count is positive and a thread sleeps in sem_wait, a sem_post *)
(* has still to broadcast: no sleeper is forgotten, although sem_post      *)
(* broadcasts after it has released the mutex.                             *)
NoLostWakeup ==
  (\E t \in Threads : pc[t] = "asleep") /\ s_val > 0 =>
    \E u \in Threads : pc[u] \in {"postunlock", "broadcast"}

(* The implementation is a semaphore: no count is lost or taken twice, and *)
(* no waiter sleeps on while the count is positive: a post that falls      *)
(* between a waiter's test and its sleep, or whose broadcast comes late,   *)
(* still gets a waiter through.                                            *)
Sem == INSTANCE Semaphore WITH
         count <- s_val,
         waiting <- {t \in Threads : pc[t] \in {"wait", "test", "asleep", "woken"}}
SemaphoreSpec == Sem!Spec
=============================================================================
