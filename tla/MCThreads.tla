----------------------------- MODULE MCThreads -----------------------------
(***************************************************************************)
(* Thread primitives for systems that lack them: the parts of              *)
(* inc/win32/winpthreads.h and the semaphores for Darwin, each on an       *)
(* instance of its own: part says which one a behaviour is about, and the  *)
(* others stand still.                                                     *)
(***************************************************************************)
EXTENDS WinSync, WinThread, DarwinSem

VARIABLE part

vars == <<part, onceVars, barVars, rwVars, thrVars, keyVars, attrVars, mxVars,
          semVars>>

Init ==
  /\ part \in {"once", "barrier", "rwlock", "thread", "keys", "attrs", "mutex",
              "semaphore"}
  /\ OnceInit /\ BarInit /\ RwInit /\ ThrInit /\ KeyInit /\ AttrInit /\ MxInit /\ SemInit

(* All but the part of this behaviour. *)
Others ==
  /\ UNCHANGED part
  /\ IF part = "once" THEN TRUE ELSE UNCHANGED onceVars
  /\ IF part = "barrier" THEN TRUE ELSE UNCHANGED barVars
  /\ IF part = "rwlock" THEN TRUE ELSE UNCHANGED rwVars
  /\ IF part = "thread" THEN TRUE ELSE UNCHANGED thrVars
  /\ IF part = "keys" THEN TRUE ELSE UNCHANGED keyVars
  /\ IF part = "attrs" THEN TRUE ELSE UNCHANGED attrVars
  /\ IF part = "mutex" THEN TRUE ELSE UNCHANGED mxVars
  /\ IF part = "semaphore" THEN TRUE ELSE UNCHANGED semVars

Next ==
  \/ part = "once" /\ OnceNext /\ Others
  \/ part = "barrier" /\ BarNext /\ Others
  \/ part = "rwlock" /\ RwNext /\ Others
  \/ part = "thread" /\ ThrNext /\ Others
  \/ part = "keys" /\ KeyNext /\ Others
  \/ part = "attrs" /\ AttrNext /\ Others
  \/ part = "mutex" /\ MxNext /\ Others
  \/ part = "semaphore" /\ SemNext /\ Others

(* A thread inside a call goes on, and time passes.  A thread asleep in a  *)
(* barrier needs its wake-up: a spurious one is not to be relied on, nor   *)
(* is one in a semaphore.  A thread that wants the barrier's critical      *)
(* section again and again finds it free gets it.                          *)
Fairness ==
  /\ \A t \in OnceThreads : WF_onceVars(part = "once" /\ OnceStep(t))
  /\ \A t \in BarThreads : WF_barVars(part = "barrier" /\ BarStep(t))
                          /\ SF_barVars(part = "barrier" /\ BarLock(t))
  /\ \A t \in RwThreads : WF_rwVars(part = "rwlock" /\ RwStep(t))
  /\ WF_rwVars(part = "rwlock" /\ Clock)
  /\ \A t \in Threads : WF_semVars(part = "semaphore" /\ SemStep(t))

Spec == Init /\ [][Next]_vars /\ Fairness
-----------------------------------------------------------------------------
(* The objects that threads synchronise on keep what their names promise:  *)
(* once, barriers, reader-writer locks, mutexes and spin locks; the mutex    *)
(* inside a semaphore is held by whoever is between its lock and unlock.   *)
Synchronised == OnceRuns /\ BarrierTogether /\ RwExclusion /\ MutexHeldByOne /\ SemTypeOK /\ NoLostWakeup

(* What belongs to a thread is its own for as long as it is used: record,  *)
(* cancellation requests, values under its keys, attributes.               *)
ThreadsOwn == RecordLives /\ CancelNoticed /\ KeyValues /\ FieldsApart

(* No caller of pthread_once, of a barrier or of a timed lock is forgotten.*)
WinCallsReturn == OnceReturns /\ BarrierOpens /\ TimedReturns
=============================================================================
