------------------------------ MODULE WinThread -----------------------------
(***************************************************************************)
(* Threads in inc/win32/winpthreads.h: their records and cancellation,     *)
(* thread-specific data, attribute words. Each section has its own state.  *)
(***************************************************************************)
EXTENDS Integers, FiniteSets, Naturals
-----------------------------------------------------------------------------
(***************************************************************************)
(* inc/win32/winpthreads.h: the life of a struct _pthread_v (create,       *)
(* wrapper, join, detach, exit) and deferred cancellation.  Each thread of *)
(* Kids has a parent that creates it, may cancel it and joins or detaches  *)
(* it; a kid may have a value with a destructor in thread-local storage,   *)
(* whose clean-up is a cancellation point of its own.                      *)
(***************************************************************************)

CONSTANTS Kids,
          CancelMax           (* calls of pthread_cancel (bound)           *)

ASSUME ThrAssumption == IsFiniteSet(Kids)

VARIABLES
  keyed,         (* the kids with a value in a key                         *)
  mem, h,        (* tv: "none", "live" or "freed"; tv->h: -1, 0, a handle 1*)
  kpc, ppc,      (* where the kid is, and its parent                       *)
  detached,      (* p_state & PTHREAD_CREATE_DETACHED                      *)
  cancelled, enabled,         (* tv->cancelled, p_state & CANCEL_ENABLE    *)
  cancelling, cancels,        (* _pthread_cancelling; history: calls       *)
  handlers, ret               (* history: runs of the handlers; tv->ret_arg*)

thrVars == <<keyed, mem, h, kpc, ppc, detached, cancelled, enabled, cancelling, cancels, handlers, ret>>
life == <<mem, h, kpc, ppc, detached, handlers, ret>>
canc == <<cancelled, enabled, cancelling, cancels>>

ThrInit ==
  /\ keyed = {}
  /\ mem = [k \in Kids |-> "none"] /\ h = [k \in Kids |-> -1]
  /\ kpc = [k \in Kids |-> "no"] /\ ppc = [k \in Kids |-> "create"]
  /\ detached = [k \in Kids |-> FALSE] /\ cancelled = [k \in Kids |-> FALSE]
  /\ enabled = [k \in Kids |-> TRUE] /\ cancelling = 0 /\ cancels = 0
  /\ handlers = [k \in Kids |-> 0] /\ ret = [k \in Kids |-> "none"]

KGoto(k, l) == kpc' = [kpc EXCEPT ![k] = l]
PGoto(k, l) == ppc' = [ppc EXCEPT ![k] = l]
Handle(k, v) == h' = [h EXCEPT ![k] = v]
SetFreed(k) == mem' = [mem EXCEPT ![k] = "freed"]

(* pthread_create: fill in the record (or fail for want of memory), then   *)
(* _beginthreadex: the kid runs from here on, or there is no thread.  K is *)
(* for a kid that will have a value, or none.                              *)
Create(k) ==
  /\ ppc[k] = "create"
  /\ \/ PGoto(k, "failed") /\ UNCHANGED <<keyed, mem, h, kpc, detached>>
     \/ /\ mem' = [mem EXCEPT ![k] = "live"]
        /\ \E d \in BOOLEAN : detached' = [detached EXCEPT ![k] = d]
        /\ \E K \in {{}, {k}} : keyed' = keyed \cup K
        /\ \/ KGoto(k, "run") /\ PGoto(k, "begun") /\ UNCHANGED h
           \/ Handle(k, 0) /\ PGoto(k, "failed") /\ UNCHANGED kpc
  /\ UNCHANGED <<handlers, ret>> /\ UNCHANGED canc

(* tv->h = the handle.                                                     *)
SetHandle(k) ==
  /\ ppc[k] = "begun" /\ Handle(k, 1) /\ PGoto(k, IF detached[k] THEN "detach" ELSE "own")
  /\ UNCHANGED <<mem, kpc, detached, handlers, ret>> /\ UNCHANGED canc

(* CloseHandle; tv->h = 0, in pthread_create or in pthread_detach.         *)
ClearHandle(k) ==
  /\ ppc[k] = "detach" /\ Handle(k, 0) /\ PGoto(k, "done")
  /\ UNCHANGED <<mem, kpc, detached, handlers, ret>> /\ UNCHANGED canc

(* pthread_detach, of a thread that runs ("undefined on a dead thread").   *)
Detach(k) ==
  /\ ppc[k] = "own" /\ kpc[k] = "run" /\ PGoto(k, "detach")
  /\ detached' = [detached EXCEPT ![k] = TRUE]
  /\ UNCHANGED <<mem, h, kpc, handlers, ret>> /\ UNCHANGED canc

(* pthread_join: wait for the thread, take its result, free the record.    *)
JoinThread(k) ==
  /\ ppc[k] = "own" /\ kpc[k] = "ended" /\ PGoto(k, "joined") /\ SetFreed(k)
  /\ UNCHANGED <<h, kpc, detached, handlers, ret>> /\ UNCHANGED canc

(* pthread_cancel, deferred: mark the record, then tell everyone to look.  *)
Cancel(k) ==
  /\ ppc[k] = "own" /\ cancels < CancelMax /\ PGoto(k, "notify")
  /\ cancelled' = [cancelled EXCEPT ![k] = TRUE] /\ cancels' = cancels + 1
  /\ UNCHANGED <<mem, h, kpc, detached, handlers, ret, enabled, cancelling>>

Notify(k) ==
  /\ ppc[k] = "notify" /\ PGoto(k, "own") /\ cancelling' = cancelling + 1
  /\ UNCHANGED <<mem, h, kpc, detached, handlers, ret, cancelled, enabled, cancels>>

(* pthread_setcancelstate by the kid, as it runs.                          *)
SetCancelState(k) ==
  /\ kpc[k] = "run" /\ enabled' = [enabled EXCEPT ![k] = ~ @]
  /\ UNCHANGED life /\ UNCHANGED <<cancelled, cancelling, cancels>>

Looks(k) == cancelling # 0 /\ cancelled[k] /\ enabled[k]
AtCancelPoint(k) == kpc[k] = "run"   \* any of the wrapped system calls
InCleanup(k) == kpc[k] = "exit" /\ k \in keyed   \* pthread_rwlock_rdlock

TestCancelFault(k) ==                \* fault: does not look at the cancel state
  /\ AtCancelPoint(k) \/ InCleanup(k)
  /\ cancelling # 0 /\ cancelled[k] /\ KGoto(k, "cancel")
  /\ cancelling' = cancelling - 1
  /\ UNCHANGED <<mem, h, ppc, detached, handlers, ret, cancelled, enabled, cancels>>

(* pthread_testcancel, in front of every cancellation point; the first     *)
(* thing _pthread_invoke_cancel does is to count itself off.               *)
TestCancel(k) ==
  /\ AtCancelPoint(k) \/ InCleanup(k)
  /\ Looks(k) /\ KGoto(k, "cancel") /\ cancelling' = cancelling - 1
  /\ UNCHANGED <<mem, h, ppc, detached, handlers, ret, cancelled, enabled, cancels>>

(* _pthread_invoke_cancel: the handlers, then pthread_exit.                *)
InvokeCancel(k) ==
  /\ kpc[k] = "cancel" /\ KGoto(k, "exit") /\ handlers' = [handlers EXCEPT ![k] = @ + 1]
  /\ ret' = [ret EXCEPT ![k] = "PTHREAD_CANCELED"]
  /\ UNCHANGED <<mem, h, ppc, detached>> /\ UNCHANGED canc

(* The function returns, or calls pthread_exit.                            *)
FuncEnds(k) ==
  /\ kpc[k] = "run" /\ KGoto(k, "exit") /\ ret' = [ret EXCEPT ![k] = "value"]
  /\ UNCHANGED <<mem, h, ppc, detached, handlers>> /\ UNCHANGED canc

(* _pthread_cleanup_dest, when no cancellation cuts in.                    *)
CleanupDest(k) ==
  /\ kpc[k] = "exit" /\ (k \in keyed => ~ Looks(k)) /\ KGoto(k, "wrapper")
  /\ UNCHANGED <<mem, h, ppc, detached, handlers, ret>> /\ UNCHANGED canc

WrapperEndsFault(k) ==       \* fault: does not wait for pthread_create
  /\ kpc[k] = "wrapper" /\ KGoto(k, "ended")
  /\ IF h[k] # 1 THEN SetFreed(k) ELSE UNCHANGED mem
  /\ UNCHANGED <<h, ppc, detached, handlers, ret>> /\ UNCHANGED canc

(* The end of pthread_create_wrapper: wait while h is -1, free if it is 0. *)
WrapperEnds(k) ==
  /\ kpc[k] = "wrapper" /\ h[k] # -1 /\ KGoto(k, "ended")
  /\ IF h[k] = 0 THEN SetFreed(k) ELSE UNCHANGED mem
  /\ UNCHANGED <<h, ppc, detached, handlers, ret>> /\ UNCHANGED canc

KidStep(k) == TestCancel(k) \/ InvokeCancel(k) \/ FuncEnds(k) \/ CleanupDest(k) \/ WrapperEnds(k)
ParentStep(k) == SetHandle(k) \/ ClearHandle(k) \/ Notify(k) \/ JoinThread(k)
ThrNext == \E k \in Kids :
  \/ Create(k)
  \/ /\ KidStep(k) \/ ParentStep(k) \/ Detach(k) \/ Cancel(k) \/ SetCancelState(k)
     /\ UNCHANGED keyed
-----------------------------------------------------------------------------
(* The record is there whenever kid or parent uses it, although either may *)
(* be the one that frees it: the kid once h is 0, pthread_join otherwise.  *)
RecordLives ==
  \A k \in Kids : mem[k] = "freed" =>
    /\ kpc[k] = "ended" /\ ppc[k] \in {"done", "joined"}
    /\ (ppc[k] = "done") = detached[k]

(* "Make sure we free ourselves if we are detached" (the wrapper): when    *)
(* kid and parent are through, a detached thread's record is freed.        *)
DetachedFreed ==
  \A k \in Kids : kpc[k] = "ended" /\ ppc[k] = "done" => mem[k] = "freed"

(* Every pending request keeps _pthread_cancelling above zero, so that no  *)
(* cancellation point overlooks it, once those who are inside              *)
(* pthread_cancel have counted their request: between its mark and its     *)
(* count a thread may already go, on the count of another.  The handlers   *)
(* run once, and only for a thread that was asked to go while it allowed   *)
(* it.  A second request may not be on its way when a thread with key      *)
(* values goes: its clean-up is a cancellation point that takes the other  *)
(* request for its own.                                                    *)
CancelNoticed ==
  (cancels <= 1 \/ \A k \in keyed : ~ cancelled[k]) =>
  /\ cancelling + Cardinality({k \in Kids : ppc[k] = "notify"}) >=
       Cardinality({k \in Kids : cancelled[k] /\ handlers[k] = 0 /\ kpc[k] # "cancel"})
  /\ \A k \in Kids : handlers[k] <= 1 /\ (handlers[k] = 1 => cancelled[k] /\ enabled[k])
-----------------------------------------------------------------------------
(***************************************************************************)
(* inc/win32/winpthreads.h: thread-specific data.  The keys are common to  *)
(* all threads (_pthread_key_dest under a lock, so one step per call); the *)
(* values are the thread's own.  What malloc leaves in slot 0 is any value.*)
(***************************************************************************)

CONSTANTS KeyThreads, KeysMax,     (* PTHREAD_KEYS_MAX                     *)
          KeyOps                   (* calls (bound)                        *)

ASSUME KeyAssumption == KeysMax \in Nat /\ KeysMax > 1

VARIABLES dest,     (* slot -> 0 (free), 1 (no destructor), 2 (one)   *)
          sch,      (* _pthread_key_sch                                    *)
          keyval,   (* thread -> its array of values, 0 for NULL           *)
          inuse,    (* history: keys created and not deleted               *)
          stored,   (* history: <<thread, key>> -> the value set last      *)
          beyond,   (* history: <<thread, key>> set at key = keymax        *)
          kmem,     (* "null": _pthread_key_max is 1, _pthread_key_dest    *)
                    (* NULL; "crashed": that was read through; else "ok"   *)
          kops

keyVars == <<dest, sch, keyval, inuse, stored, beyond, kmem, kops>>

KeyInit ==
  /\ dest = << >> /\ sch = 0 /\ inuse = {} /\ kops = 0 /\ beyond = {} /\ kmem = "ok"
  /\ keyval = [t \in KeyThreads |-> << >>] /\ stored = << >>

KTick == kops < KeyOps /\ kops' = kops + 1 /\ kmem # "crashed"
Slots == DOMAIN dest
LowestOf(S) == CHOOSE i \in S : \A j \in S : i <= j

RoomFor == LET max == IF Slots = {} THEN 1 ELSE Cardinality(Slots)
           IN  0 .. (IF max * 2 > KeysMax THEN KeysMax ELSE max * 2) - 1

KeyRoomFault ==              \* fault: clears the whole array
  {[i \in RoomFor |-> 0]}

(* realloc to twice as many slots, the new ones clear; the first time slot *)
(* 0 is there and not cleared.                                             *)
KeyRoom ==
  {[i \in RoomFor |-> IF i \in Slots THEN dest[i] ELSE IF i = 0 THEN g ELSE 0]
     : g \in IF Slots = {} THEN {0, 1} ELSE {0}}

SlotFor == LET F(lo, hi) == {i \in Slots : lo <= i /\ i < hi /\ dest[i] = 0}
               up == F(sch, Cardinality(Slots))
           IN  IF up # {} THEN up ELSE F(0, sch)

(* pthread_key_create: from sch up, then below it, then in more room.      *)
KeyCreate(d) ==
  /\ KTick /\ kmem = "ok" /\ UNCHANGED <<keyval, beyond, kmem>>
  /\ \/ SlotFor # {} /\ LET i == LowestOf(SlotFor)
        IN dest' = [dest EXCEPT ![i] = d] /\ inuse' = inuse \cup {i} /\ UNCHANGED sch
           /\ stored' = [x \in {x \in DOMAIN stored : x[2] # i} |-> stored[x]]
     \/ /\ SlotFor = {} /\ Cardinality(Slots) < KeysMax
        /\ LET k == IF Slots = {} THEN 1 ELSE Cardinality(Slots)
           IN  /\ \E r \in KeyRoom : dest' = [r EXCEPT ![k] = d]
               /\ sch' = k + 1 /\ inuse' = inuse \cup {k} /\ UNCHANGED stored

(* pthread_key_create has no room left, or realloc fails: ENOMEM.  By then *)
(* _pthread_key_max is 1 even if there is no array yet.                    *)
KeyCreateNoMem ==
  /\ KTick /\ kmem = "ok" /\ SlotFor = {}
  /\ kmem' = IF Slots = {} THEN "null" ELSE "ok"
  /\ UNCHANGED <<dest, sch, keyval, inuse, stored, beyond>>

(* The call after that one looks for a free slot below _pthread_key_max.   *)
KeyCreateNull ==
  /\ KTick /\ kmem = "null" /\ kmem' = "crashed"
  /\ UNCHANGED <<dest, sch, keyval, inuse, stored, beyond>>

(* pthread_key_delete: the next search starts from here.                   *)
KeyDelete(k) ==
  /\ KTick /\ k \in inuse /\ dest' = [dest EXCEPT ![k] = 0] /\ inuse' = inuse \ {k}
  /\ sch' = IF sch > k THEN k ELSE sch
  /\ UNCHANGED <<keyval, stored, beyond, kmem>>

(* pthread_setspecific: grow to 2 (key + 1) values if key > keymax; a key  *)
(* equal to keymax is stored one past the array.                           *)
SetSpecific(t, k, v) ==
  LET max == Cardinality(DOMAIN keyval[t])
      new == IF k > max THEN 2 * (k + 1) ELSE max
  IN  /\ KTick /\ k \in inuse
      /\ keyval' = [keyval EXCEPT ![t] = [i \in 0 .. new - 1 |->
                      IF i = k THEN v ELSE IF i < max THEN keyval[t][i] ELSE 0]]
      /\ beyond' = IF k = max THEN beyond \cup {<<t, k>>} ELSE beyond
      /\ stored' = [x \in DOMAIN stored \cup {<<t, k>>} |-> IF x = <<t, k>> THEN v ELSE stored[x]]
      /\ UNCHANGED <<dest, sch, inuse, kmem>>

(* realloc of the values fails: ENOMEM, and the old array stays.           *)
SetSpecificNoMem(t, k) ==
  /\ KTick /\ k \in inuse /\ k > Cardinality(DOMAIN keyval[t])
  /\ UNCHANGED <<dest, sch, keyval, inuse, stored, beyond, kmem>>

(* pthread_getspecific *)
GetSpecific(t, k) == IF k \in DOMAIN keyval[t] THEN keyval[t][k] ELSE 0

(* _pthread_cleanup_dest at the end of a thread: the values with a         *)
(* destructor are cleared and passed to it.                                *)
RunDestructors(t) ==
  /\ KTick /\ UNCHANGED <<dest, sch, inuse, beyond, kmem>>
  /\ LET gone == {k \in DOMAIN keyval[t] : keyval[t][k] # 0 /\ k \in Slots /\ dest[k] = 2}
     IN  /\ keyval' = [keyval EXCEPT ![t] = [i \in DOMAIN @ |-> IF i \in gone THEN 0 ELSE @[i]]]
         /\ stored' = [x \in {x \in DOMAIN stored : ~ (x[1] = t /\ x[2] \in gone)} |-> stored[x]]

KeyNext ==
  \/ (\E d \in {1, 2} : KeyCreate(d)) \/ KeyCreateNoMem \/ KeyCreateNull
  \/ \E k \in inuse : KeyDelete(k)
  \/ \E t \in KeyThreads : RunDestructors(t)
       \/ \E k \in inuse : SetSpecificNoMem(t, k) \/ \E v \in {7} : SetSpecific(t, k, v)
-----------------------------------------------------------------------------
(* A key handed out is nobody else's, and a thread reads back what it last *)
(* stored under it, whatever keys came, went and moved the arrays, and     *)
(* whichever allocations failed; except where setspecific compares         *)
(* key > keymax and not key >= keymax.  A call reads through NULL only if  *)
(* the process could not get its very first key: no key is in use then.    *)
KeyValues ==
  /\ inuse \subseteq Slots /\ \A k \in Slots \ {0} : (dest[k] # 0) = (k \in inuse)
  /\ \A x \in DOMAIN stored : x[2] \in inuse /\ x \notin beyond => GetSpecific(x[1], x[2]) = stored[x]
  /\ kmem # "ok" => Slots = {} /\ inuse = {}
-----------------------------------------------------------------------------
(***************************************************************************)
(* inc/win32/winpthreads.h: the attribute words.  A mutex attribute packs  *)
(* type (bits 0-1), pshared (2), protocol (3-4) and priority ceiling (from *)
(* 5 on); a thread attribute packs cancel state and type, detach state,    *)
(* scheduling and scope in single bits.                                    *)
(***************************************************************************)

VARIABLES a, p_state,   (* the words                                       *)
          mset, pset    (* history: what the last good call stored         *)

attrVars == <<a, p_state, mset, pset>>

Field(w, lo, n) == ((w \div lo) % n) * lo               \* w & mask
Clear(w, lo, n) == w - Field(w, lo, n)                  \* w & ~mask

(* pthread_mutexattr_init, pthread_attr_init (PTHREAD_DEFAULT_ATTR)        *)
AttrInit ==
  /\ a = 0 /\ p_state = 1
  /\ mset = [type |-> 0, pshared |-> 0, protocol |-> 0, ceiling |-> 0]
  /\ pset = [x \in {1, 2, 4, 8, 16} |-> IF x = 1 THEN 1 ELSE 0]

(* pthread_mutexattr_gettype, getpshared, getprotocol, getprioceiling      *)
GetType == Field(a, 1, 4)
GetPshared == Field(a, 4, 2)
GetProtocol == Field(a, 8, 4)
GetPrioceiling == a \div 32

(* pthread_mutexattr_settype, setpshared: EINVAL leaves the word alone.    *)
SetType(v) == v <= 3 /\ a' = Clear(a, 1, 4) + v /\ mset' = [mset EXCEPT !.type = v]
SetPshared(v) == Field(v, 4, 2) = v /\ a' = Clear(a, 4, 2) + v /\ mset' = [mset EXCEPT !.pshared = v]

SetProtocolFault(v) ==       \* fault: or-s into the old protocol
  Field(v, 8, 4) = 24 /\ a' = a + 24 /\ mset' = [mset EXCEPT !.protocol = v]

(* pthread_mutexattr_setprotocol takes nothing but inherit and protect     *)
(* together.                                                               *)
SetProtocol(v) == Field(v, 8, 4) = 24 /\ a' = Clear(a, 8, 4) + v
                  /\ mset' = [mset EXCEPT !.protocol = v]

(* pthread_mutexattr_setprioceiling *)
SetPrioceiling(v) == a' = (a % 32) + v * 32 /\ mset' = [mset EXCEPT !.ceiling = v]

(* _pthread_set_state, for detach state, scheduling and scope; also what   *)
(* pthread_setcancelstate and pthread_setcanceltype do to their thread.    *)
SetState(flag, v) ==
  /\ v \in {0, flag} /\ p_state' = Clear(p_state, flag, 2) + v
  /\ pset' = [pset EXCEPT ![flag] = v]

(* _pthread_get_state *)
GetState(flag) == Field(p_state, flag, 2)

AttrNext ==
  \/ /\ UNCHANGED <<p_state, pset>>
     /\ \E v \in {0, 1, 2, 3, 4, 8, 24} :
          SetType(v) \/ SetPshared(v) \/ SetProtocol(v) \/ (v <= 2 /\ SetPrioceiling(v))
  \/ /\ UNCHANGED <<a, mset>>
     /\ \E f \in {1, 2, 4, 8, 16}, v \in {0, 1, 2, 4, 8, 16} : SetState(f, v)
-----------------------------------------------------------------------------
(* What a getter returns is what its setter stored last: the fields of a   *)
(* word do not run into each other, in whatever order they were set.       *)
FieldsApart ==
  /\ mset = [type |-> GetType, pshared |-> GetPshared, protocol |-> GetProtocol,
             ceiling |-> GetPrioceiling]
  /\ \A f \in DOMAIN pset : pset[f] = GetState(f)
=============================================================================
