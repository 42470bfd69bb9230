------------------------------- MODULE WinSync ------------------------------
(***************************************************************************)
(* Synchronisation in inc/win32/winpthreads.h: once, barriers,             *)
(* reader-writer locks, mutexes and the rest. Each section has its own     *)
(* state.                                                                  *)
(***************************************************************************)
EXTENDS Naturals, FiniteSets
-----------------------------------------------------------------------------
(***************************************************************************)
(* inc/win32/winpthreads.h: pthread_once, and pthread_self, which gets its *)
(* index for thread-local storage through _pthread_once_raw.  Only the     *)
(* function of a pthread_once can be cancelled.                            *)
(***************************************************************************)

CONSTANT OnceThreads

VARIABLES o,       (* the pthread_once_t of the user and _pthread_tls_once *)
          opc, obj,(* where a thread is, and in the call for which object  *)
          ran,     (* history: how often each function ran to its end      *)
          self     (* threads with a struct _pthread_v in their storage    *)

onceVars == <<o, opc, obj, ran, self>>

OnceInit ==
  /\ o = [x \in {"user", "tls"} |-> 0]
  /\ opc = [t \in OnceThreads |-> "out"] /\ obj = [t \in OnceThreads |-> "user"]
  /\ ran = [x \in {"user", "tls"} |-> 0] /\ self = {}

OGoto(t, l) == opc' = [opc EXCEPT ![t] = l]

(* A call of pthread_once, or of pthread_self.                             *)
OnceCall(t) ==
  /\ opc[t] = "out" /\ OGoto(t, "load")
  /\ \E x \in {"user", "tls"} : obj' = [obj EXCEPT ![t] = x]
  /\ UNCHANGED <<o, ran, self>>

(* state = *o: done, try to be the one, or spin while somebody runs.       *)
LoadState(t) ==
  /\ opc[t] = "load" /\ o[obj[t]] # 2
  /\ OGoto(t, IF o[obj[t]] = 0 THEN "cas" ELSE "ret")
  /\ UNCHANGED <<o, obj, ran, self>>

TakeFault(t) ==              \* fault: stores 2 without comparing
  /\ opc[t] = "cas" /\ OGoto(t, "func") /\ o' = [o EXCEPT ![obj[t]] = 2]
  /\ UNCHANGED <<obj, ran, self>>

(* _InterlockedCompareExchange(o, 2, 0), then the function.                *)
Take(t) ==
  /\ opc[t] = "cas"
  /\ IF o[obj[t]] = 0 THEN OGoto(t, "func") /\ o' = [o EXCEPT ![obj[t]] = 2]
                      ELSE OGoto(t, "load") /\ UNCHANGED o
  /\ UNCHANGED <<obj, ran, self>>

(* func() returns; the cleanup handler is popped.                          *)
FuncReturns(t) ==
  /\ opc[t] = "func" /\ OGoto(t, "mark") /\ ran' = [ran EXCEPT ![obj[t]] = @ + 1]
  /\ UNCHANGED <<o, obj, self>>

CancelInFuncFault(t) ==      \* fault: the thread goes, and nobody may retry
  /\ opc[t] = "func" /\ obj[t] = "user" /\ OGoto(t, "gone")
  /\ UNCHANGED <<o, obj, ran, self>>

(* The thread is cancelled in func: _pthread_once_cleanup.                 *)
CancelInFunc(t) ==
  /\ opc[t] = "func" /\ obj[t] = "user" /\ OGoto(t, "gone")
  /\ o' = [o EXCEPT !["user"] = 0] /\ UNCHANGED <<obj, ran, self>>

(* Mark as done: *o = 1.                                                   *)
Mark(t) ==
  /\ opc[t] = "mark" /\ OGoto(t, "ret") /\ o' = [o EXCEPT ![obj[t]] = 1]
  /\ UNCHANGED <<obj, ran, self>>

(* Back in the caller; pthread_self makes a record on the first call.      *)
OnceReturn(t) ==
  /\ opc[t] = "ret" /\ OGoto(t, "out")
  /\ self' = IF obj[t] = "tls" THEN self \cup {t} ELSE self
  /\ UNCHANGED <<o, obj, ran>>

OnceLoop(t) == LoadState(t) \/ Take(t) \/ FuncReturns(t) \/ Mark(t)
PthreadOnce(t) == obj[t] = "user" /\ OnceLoop(t)
PthreadOnceRaw(t) == obj[t] = "tls" /\ OnceLoop(t)
OnceStep(t) == PthreadOnce(t) \/ PthreadOnceRaw(t) \/ OnceReturn(t)

OnceNext == \E t \in OnceThreads : OnceCall(t) \/ OnceStep(t) \/ CancelInFunc(t)
-----------------------------------------------------------------------------
(* The function of pthread_once runs to its end at most once, and nobody   *)
(* returns before it has, whoever was cancelled in it before: this is also *)
(* why thread-local storage has its index before anybody uses it.          *)
OnceRuns ==
  /\ \A x \in {"user", "tls"} : ran[x] <= 1 /\ (o[x] = 1 => ran[x] = 1)
  /\ \A t \in OnceThreads : opc[t] = "ret" => ran[obj[t]] = 1
  /\ self # {} => ran["tls"] = 1

(* A cancelled call lets the others try again: no call spins for ever.     *)
OnceReturns == \A t \in OnceThreads : opc[t] = "load" ~> opc[t] \in {"out", "gone"}
-----------------------------------------------------------------------------
(***************************************************************************)
(* inc/win32/winpthreads.h: barriers from a critical section and a         *)
(* condition variable (both external).  total counts the threads that came *)
(* in; from Flag on it counts those that still have to go out.  Waiting    *)
(* leaves the critical section; a wake-up may be spurious.                 *)
(***************************************************************************)

CONSTANTS BarThreads, BarNone, BarCount,   (* count of pthread_barrier_init *)
          BarMax                           (* waits per thread (bound)      *)

Flag == 1000                               \* _PTHREAD_BARRIER_FLAG

ASSUME BarAssumption ==
  IsFiniteSet(BarThreads) /\ BarNone \notin BarThreads /\ BarCount \in 1 .. Flag /\ BarMax \in Nat

VARIABLES total, bm,     (* b->total; the owner of b->m                     *)
          bpc, bops,     (* where a thread is; waits it has made            *)
          came, left,    (* history: waits begun and returned               *)
          serial, dead   (* history: waits that returned 1; b->m is deleted *)

barVars == <<total, bm, bpc, bops, came, left, serial, dead>>

(* pthread_barrier_init *)
BarInit ==
  /\ total = 0 /\ bm = BarNone /\ came = 0 /\ left = 0 /\ serial = 0 /\ dead = FALSE
  /\ bpc = [t \in BarThreads |-> "out"] /\ bops = [t \in BarThreads |-> 0]

BGoto(t, l) == bpc' = [bpc EXCEPT ![t] = l]
Awake == [drain |-> "drainCS", fill |-> "fillCS", last |-> "lastCS"]
Owner == [drainCS |-> "entering", fillCS |-> "leaving", lastCS |-> "deleting"]
WakeAll(p) == [u \in BarThreads |-> IF p[u] \in DOMAIN Awake THEN Awake[p[u]] ELSE p[u]]

(* pthread_barrier_wait: EnterCriticalSection, here or after a wake-up.    *)
BarCall(t) ==
  /\ bpc[t] = "out" /\ bops[t] < BarMax /\ ~ dead
  /\ BGoto(t, "drainCS") /\ bops' = [bops EXCEPT ![t] = @ + 1]
  /\ UNCHANGED <<total, bm, came, left, serial, dead>>

BarLock(t) ==
  /\ bm = BarNone /\ bm' = t /\ bpc[t] \in DOMAIN Owner /\ BGoto(t, Owner[bpc[t]])
  /\ UNCHANGED <<total, bops, came, left, serial, dead>>

EnterFault(t) ==             \* fault: does not wait for the last round to drain
  /\ bpc[t] = "entering"
  /\ LET n == IF total = Flag THEN 1 ELSE total + 1
     IN  IF n = BarCount
         THEN total' = n + Flag - 1 /\ bpc' = [WakeAll(bpc) EXCEPT ![t] = "out"]
              /\ bm' = BarNone /\ left' = left + 1 /\ serial' = serial + 1
         ELSE total' = n /\ BGoto(t, "leaving") /\ UNCHANGED <<bm, left, serial>>
  /\ came' = came + 1 /\ UNCHANGED <<bops, dead>>

(* Wait until everyone exits the barrier; be counted; the last one in      *)
(* starts the way out, wakes all and returns 1.                            *)
BarEnter(t) ==
  /\ bpc[t] = "entering"
  /\ \/ total > Flag /\ BGoto(t, "drain") /\ bm' = BarNone
        /\ UNCHANGED <<total, came, left, serial>>
     \/ /\ total <= Flag /\ came' = came + 1
        /\ LET n == IF total = Flag THEN 1 ELSE total + 1
           IN  IF n = BarCount
               THEN total' = n + Flag - 1 /\ bpc' = [WakeAll(bpc) EXCEPT ![t] = "out"]
                    /\ bm' = BarNone /\ left' = left + 1 /\ serial' = serial + 1
               ELSE total' = n /\ BGoto(t, "leaving") /\ UNCHANGED <<bm, left, serial>>
  /\ UNCHANGED <<bops, dead>>

LeaveFault(t) ==             \* fault: the last one out wakes nobody
  /\ bpc[t] = "leaving"
  /\ IF total < Flag THEN BGoto(t, "fill") /\ UNCHANGED <<total, left>>
     ELSE total' = total - 1 /\ left' = left + 1 /\ BGoto(t, "out")
  /\ bm' = BarNone /\ UNCHANGED <<bops, came, serial, dead>>

(* Wait until enough threads entered; go out; the last one out wakes those *)
(* that want to come in for the next round.                                *)
BarLeave(t) ==
  /\ bpc[t] = "leaving"
  /\ IF total < Flag THEN BGoto(t, "fill") /\ UNCHANGED <<total, left>>
     ELSE /\ total' = total - 1 /\ left' = left + 1
          /\ bpc' = [IF total - 1 = Flag THEN WakeAll(bpc) ELSE bpc EXCEPT ![t] = "out"]
  /\ bm' = BarNone /\ UNCHANGED <<bops, came, serial, dead>>

(* pthread_barrier_destroy, by one thread that is out when all waits have  *)
(* been counted and the last round is full (to destroy a barrier on which  *)
(* a thread is blocked is undefined): others may still be on their way out.*)
BarDestroyCall(t) ==
  /\ bpc[t] = "out" /\ came % BarCount = 0 /\ ~ dead
  /\ \A u \in BarThreads :
       bops[u] = BarMax /\ bpc[u] \in {"out", "leaving", "fill", "fillCS"}
  /\ BGoto(t, "lastCS") /\ UNCHANGED <<total, bm, bops, came, left, serial, dead>>

BarDestroy(t) ==
  /\ bpc[t] = "deleting" /\ bm' = BarNone
  /\ IF total > Flag THEN BGoto(t, "last") /\ UNCHANGED dead
                     ELSE BGoto(t, "gone") /\ dead' = TRUE
  /\ UNCHANGED <<total, bops, came, left, serial>>

BarSpurious(t) ==
  /\ bpc[t] \in DOMAIN Awake /\ BGoto(t, Awake[bpc[t]])
  /\ UNCHANGED <<total, bm, bops, came, left, serial, dead>>

BarStep(t) == BarLock(t) \/ BarEnter(t) \/ BarLeave(t) \/ BarDestroy(t)
BarNext == \E t \in BarThreads : BarCall(t) \/ BarStep(t) \/ BarDestroyCall(t) \/ BarSpurious(t)
-----------------------------------------------------------------------------
(* Nobody goes out before count threads came in, round by round, exactly   *)
(* one thread per round gets PTHREAD_BARRIER_SERIAL_THREAD, and nobody is  *)
(* inside when pthread_barrier_destroy deletes the critical section.       *)
BarrierTogether ==
  /\ left <= BarCount * (came \div BarCount)
  /\ serial = came \div BarCount
  /\ dead => \A t \in BarThreads : bpc[t] \in {"out", "gone"}

(* Those of a full round get out, and the ones that found the barrier      *)
(* draining come in when it has: no wake-up is lost.                       *)
BarrierOpens ==
  /\ []<>(left = BarCount * (came \div BarCount))
  /\ \A t \in BarThreads : bpc[t] = "drainCS" ~> bpc[t] \in {"leaving", "fill", "out", "gone"}
-----------------------------------------------------------------------------
(***************************************************************************)
(* inc/win32/winpthreads.h: reader-writer locks on an SRWLOCK whose word   *)
(* the header looks into.  The word is abstracted to what it tells apart:  *)
(* x, held exclusively; n, the readers; q, somebody queued (word & 14).    *)
(* Acquire and Release of SRWLOCK are external.                            *)
(***************************************************************************)

CONSTANTS RwThreads, RwMax,     (* locks taken in all (bound)              *)
          RwClock               (* last value of the clock (bound)         *)

ASSUME RwAssumption == IsFiniteSet(RwThreads)

VARIABLES word, rpc, seen, want, hold, till, now, locks

rwVars == <<word, rpc, seen, want, hold, till, now, locks>>

Free == [x |-> FALSE, n |-> 0, q |-> FALSE]
Exclusive == [x |-> TRUE, n |-> 0, q |-> FALSE]         \* (void *) 1

(* pthread_rwlock_init *)
RwInit ==
  /\ word = Free /\ now = 0 /\ locks = 0
  /\ rpc = [t \in RwThreads |-> "out"] /\ seen = [t \in RwThreads |-> Free]
  /\ want = [t \in RwThreads |-> "rd"] /\ till = [t \in RwThreads |-> 0]
  /\ hold = [t \in RwThreads |-> "no"]

RGoto(t, l) == rpc' = [rpc EXCEPT ![t] = l]
Holds(t, h) == hold' = [hold EXCEPT ![t] = h]

(* A call: lock, try or timed with a deadline, for reading or writing.     *)
RwCall(t) ==
  /\ rpc[t] = "out" /\ hold[t] = "no" /\ locks < RwMax /\ locks' = locks + 1
  /\ \E k \in {"acquire", "try", "timed"}, m \in {"rd", "wr"}, d \in 0 .. 1 :
        now + d < RwClock /\ RGoto(t, k) /\ want' = [want EXCEPT ![t] = m]
        /\ till' = [till EXCEPT ![t] = now + d]
  /\ UNCHANGED <<word, seen, hold, now>>

(* AcquireSRWLockShared/Exclusive: get the lock, or queue for it.          *)
Acquire(t) ==
  /\ rpc[t] \in {"acquire", "queued"}
  /\ IF IF want[t] = "rd" THEN ~ word.x ELSE ~ word.x /\ word.n = 0
     THEN /\ RGoto(t, "out") /\ Holds(t, want[t])
          /\ word' = [x |-> want[t] = "wr", n |-> IF want[t] = "rd" THEN word.n + 1 ELSE 0,
                      q |-> \E u \in RwThreads \ {t} : rpc[u] = "queued"]
     ELSE RGoto(t, "queued") /\ word' = [word EXCEPT !.q = TRUE] /\ UNCHANGED hold
  /\ UNCHANGED <<seen, want, till, now, locks>>

(* pthread_rwlock_tryrdlock reads the word and decides; trywrlock compares *)
(* and exchanges at once.                                                  *)
Peek(t) ==
  /\ rpc[t] \in {"try", "timed"} /\ want[t] = "rd"
  /\ seen' = [seen EXCEPT ![t] = word]
  /\ RGoto(t, IF ~ word.x /\ ~ word.q
              THEN (IF rpc[t] = "try" THEN "cas" ELSE "casT")
              ELSE (IF rpc[t] = "try" THEN "out" ELSE "clock"))
  /\ UNCHANGED <<word, want, hold, till, now, locks>>

TryRdFault(t) ==             \* fault: adds a reader to whatever the word is by now
  /\ rpc[t] \in {"cas", "casT"} /\ word' = [word EXCEPT !.n = @ + 1]
  /\ RGoto(t, "out") /\ Holds(t, "rd") /\ UNCHANGED <<seen, want, till, now, locks>>

TryRd(t) ==
  /\ rpc[t] \in {"cas", "casT"}
  /\ IF word = seen[t]
     THEN word' = [word EXCEPT !.n = @ + 1] /\ RGoto(t, "out") /\ Holds(t, "rd")
     ELSE RGoto(t, IF rpc[t] = "cas" THEN "out" ELSE "clock") /\ UNCHANGED <<word, hold>>
  /\ UNCHANGED <<seen, want, till, now, locks>>

TryWr(t) ==
  /\ rpc[t] \in {"try", "timed"} /\ want[t] = "wr"
  /\ IF word = Free
     THEN word' = Exclusive /\ RGoto(t, "out") /\ Holds(t, "wr")
     ELSE RGoto(t, IF rpc[t] = "try" THEN "out" ELSE "clock") /\ UNCHANGED <<word, hold>>
  /\ UNCHANGED <<seen, want, till, now, locks>>

TimedFault(t) ==             \* fault: waits for the deadline to be hit exactly
  /\ rpc[t] = "clock" /\ RGoto(t, IF now = till[t] + 1 THEN "out" ELSE "timed")
  /\ UNCHANGED <<word, seen, want, hold, till, now, locks>>

(* pthread_rwlock_timedrdlock, timedwrlock: "Have we waited long enough?"  *)
Timed(t) ==
  /\ rpc[t] = "clock" /\ RGoto(t, IF now > till[t] THEN "out" ELSE "timed")
  /\ UNCHANGED <<word, seen, want, hold, till, now, locks>>

(* pthread_rwlock_unlock chooses the release by what the word shows: 1 is  *)
(* "known to be an exclusive lock", for all else a shared release works.   *)
UnlockPeek(t) ==
  /\ rpc[t] = "out" /\ hold[t] # "no"
  /\ RGoto(t, IF word = Exclusive THEN "relX" ELSE "relS")
  /\ UNCHANGED <<word, seen, want, hold, till, now, locks>>

Release(t) ==
  /\ rpc[t] \in {"relX", "relS"} /\ RGoto(t, "out") /\ Holds(t, "no")
  /\ word' = IF rpc[t] = "relX" \/ word.x THEN [word EXCEPT !.x = FALSE]
                                          ELSE [word EXCEPT !.n = @ - 1]
  /\ UNCHANGED <<seen, want, till, now, locks>>

Clock == now < RwClock /\ now' = now + 1 /\ UNCHANGED <<word, rpc, seen, want, hold, till, locks>>

RwStep(t) == Acquire(t) \/ Peek(t) \/ TryRd(t) \/ TryWr(t) \/ Timed(t) \/ Release(t)
RwNext == Clock \/ \E t \in RwThreads : RwCall(t) \/ RwStep(t) \/ UnlockPeek(t)
-----------------------------------------------------------------------------
(* The word is the holds: a writer is alone, the readers are counted, and  *)
(* a release takes away the caller's own hold, although try reads the word *)
(* before it changes it and unlock decides on what it read.                *)
RwExclusion ==
  LET H(m) == {t \in RwThreads : hold[t] = m}
  IN  /\ word.x = (H("wr") # {}) /\ word.n = Cardinality(H("rd"))
      /\ Cardinality(H("wr")) <= 1 /\ (H("wr") # {} => H("rd") = {})

(* A timed lock that busy-loops against a holder gives up once the clock   *)
(* has passed its deadline.                                                *)
TimedReturns == \A t \in RwThreads : rpc[t] = "timed" ~> rpc[t] = "out"
-----------------------------------------------------------------------------
(***************************************************************************)
(* inc/win32/winpthreads.h: mutexes on a critical section, condition       *)
(* variables, timed waits, and the spin lock.  The critical section m and  *)
(* the condition variable are external.  Time is a clock of milliseconds.  *)
(***************************************************************************)

CONSTANTS MxThreads, MxNone, MxMax, MxClock     \* calls and clock (bounds)

ASSUME MxAssumption == MxNone \notin MxThreads /\ MxClock \in Nat

VARIABLES m, spin,          (* owner of the critical section; *l           *)
          mpc, mtill,       (* where a thread is; its deadline             *)
          mres,             (* what its last call returned                 *)
          mhold, shold,     (* threads inside the mutex, the spin lock     *)
          mnow, mops

mxVars == <<m, spin, mpc, mtill, mres, mhold, shold, mnow, mops>>

MxInit ==
  /\ m = MxNone /\ spin = 0 /\ mnow = 0 /\ mops = 0 /\ mhold = {} /\ shold = {}
  /\ mpc = [t \in MxThreads |-> "out"] /\ mtill = [t \in MxThreads |-> 0]
  /\ mres = [t \in MxThreads |-> "none"]

MGoto(t, l) == mpc' = [mpc EXCEPT ![t] = l]
Returns(t, r) == mres' = [mres EXCEPT ![t] = r] /\ MGoto(t, "out")

(* A call; cond_timedwait is made with the mutex held.                     *)
MxCall(t) ==
  /\ mpc[t] = "out" /\ mops < MxMax /\ mops' = mops + 1 /\ t \notin shold
  /\ \E d \in 0 .. 1 : mnow + d < MxClock /\ mtill' = [mtill EXCEPT ![t] = mnow + d]
  /\ \E c \in {"lock", "timedlock", "spinlock", "spintry", "condwait"} :
       MGoto(t, c) /\ ((c = "condwait") = (t \in mhold))
  /\ UNCHANGED <<m, spin, mres, mhold, shold, mnow>>

(* pthread_mutex_lock, pthread_mutex_trylock when it succeeds.             *)
MutexLock(t) ==
  /\ mpc[t] \in {"lock", "timedlock", "timedtry", "relock", "relockT"} /\ m = MxNone
  /\ m' = t /\ mhold' = mhold \cup {t}
  /\ Returns(t, IF mpc[t] = "relockT" \/ (mpc[t] = "relock" /\ mtill[t] <= mnow)
                THEN "ETIMEDOUT" ELSE "0")
  /\ UNCHANGED <<spin, mtill, shold, mnow, mops>>

(* pthread_mutex_timedlock: the trylock fails...                           *)
TryFails(t) ==
  /\ mpc[t] \in {"timedlock", "timedtry"} /\ m # MxNone /\ MGoto(t, "timedclock")
  /\ UNCHANGED <<m, spin, mtill, mres, mhold, shold, mnow, mops>>

TimedLockFault(t) ==         \* fault: a timeout returns like a success
  /\ mpc[t] = "timedclock"
  /\ IF mnow > mtill[t] THEN Returns(t, "0") ELSE MGoto(t, "timedtry") /\ UNCHANGED mres
  /\ UNCHANGED <<m, spin, mtill, mhold, shold, mnow, mops>>

(* ... then, whoever has the mutex by now, the time is read: give up once  *)
(* the deadline has passed, else wait on the section's semaphore, which    *)
(* ends by a signal or in time, and try again.                             *)
TimedLock(t) ==
  /\ mpc[t] = "timedclock"
  /\ IF mnow > mtill[t] THEN Returns(t, "ETIMEDOUT") ELSE MGoto(t, "timedtry") /\ UNCHANGED mres
  /\ UNCHANGED <<m, spin, mtill, mhold, shold, mnow, mops>>

(* pthread_mutex_unlock *)
MutexUnlock(t) ==
  /\ mpc[t] = "out" /\ t \in mhold /\ m' = MxNone /\ mhold' = mhold \ {t}
  /\ mres' = [mres EXCEPT ![t] = "none"] /\ UNCHANGED <<spin, mpc, mtill, shold, mnow, mops>>

(* pthread_cond_timedwait: SleepConditionVariableCS lets go of m; it comes *)
(* back by a signal (or spuriously), or when the deadline has come.        *)
CondSleep(t) ==
  /\ mpc[t] = "condwait" /\ MGoto(t, "asleep") /\ m' = MxNone /\ mhold' = mhold \ {t}
  /\ UNCHANGED <<spin, mtill, mres, shold, mnow, mops>>
CondWake(t) ==
  /\ mpc[t] = "asleep" /\ MGoto(t, "relock")
  /\ UNCHANGED <<m, spin, mtill, mres, mhold, shold, mnow, mops>>
CondTimeout(t) ==
  /\ mpc[t] = "asleep" /\ mnow >= mtill[t] /\ MGoto(t, "relockT")
  /\ UNCHANGED <<m, spin, mtill, mres, mhold, shold, mnow, mops>>

(* pthread_spin_lock: exchange, and only look until it seems free; trylock *)
(* is one exchange.                                                        *)
SpinLock(t) ==
  /\ mpc[t] \in {"spinlock", "spintry"} /\ spin' = 1
  /\ IF spin = 0 THEN shold' = shold \cup {t} /\ Returns(t, "got")
     ELSE /\ UNCHANGED shold
          /\ IF mpc[t] = "spintry" THEN Returns(t, "EBUSY") ELSE MGoto(t, "spinning") /\ UNCHANGED mres
  /\ UNCHANGED <<m, mtill, mhold, mnow, mops>>
SpinLook(t) ==
  /\ mpc[t] = "spinning" /\ spin = 0 /\ MGoto(t, "spinlock")
  /\ UNCHANGED <<m, spin, mtill, mres, mhold, shold, mnow, mops>>
SpinUnlock(t) ==
  /\ mpc[t] = "out" /\ t \in shold /\ spin' = 0 /\ shold' = shold \ {t}
  /\ UNCHANGED <<m, mpc, mtill, mres, mhold, mnow, mops>>

MxTick == mnow < MxClock /\ mnow' = mnow + 1
          /\ UNCHANGED <<m, spin, mpc, mtill, mres, mhold, shold, mops>>

MxNext == MxTick \/ \E t \in MxThreads :
  \/ MxCall(t) \/ MutexLock(t) \/ TryFails(t) \/ TimedLock(t) \/ MutexUnlock(t)
  \/ CondSleep(t) \/ CondWake(t) \/ CondTimeout(t) \/ SpinLock(t) \/ SpinLook(t) \/ SpinUnlock(t)
-----------------------------------------------------------------------------
(* The mutex and the spin lock have one holder at a time; whoever gets 0   *)
(* from a timed call holds the mutex, as does whoever comes back from a    *)
(* condition variable; and a call times out only when its deadline came.   *)
MutexHeldByOne ==
  /\ Cardinality(mhold) <= 1 /\ Cardinality(shold) <= 1
  /\ (m # MxNone) = (mhold # {}) /\ (spin = 0 => shold = {})
  /\ \A t \in MxThreads : mpc[t] = "out" =>
       /\ mres[t] = "0" => t \in mhold
       /\ mres[t] = "ETIMEDOUT" => mnow >= mtill[t]
=============================================================================
