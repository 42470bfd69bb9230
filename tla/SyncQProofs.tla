----------------------------- MODULE SyncQProofs -----------------------------
(***************************************************************************)
(* Proofs about SyncQ, for any finite set of threads, any queues and any   *)
(* number of slots: the queues of a program whose threads only use them    *)
(* through SYNCQ_ENQ and SYNCQ_DEQ.  Then what such a program may rely on: *)
(* a step inside an operation changes nothing but the thread's place, or   *)
(* puts its element behind the others, or gives it the oldest one left;    *)
(* and every queue is a FIFO.                                              *)
(***************************************************************************)
EXTENDS SyncQ, FiniteSetTheorems, TLAPS

(* A leaf goes to Zenon first, and to the SMT solver when Zenon does not   *)
(* find its proof.                                                         *)
USE ZenonT(20), SMTT(60)

-----------------------------------------------------------------------------
(* The threads in an operation on q, at one of the places L. *)
In(L, q) == {t \in Threads : on[t] = q /\ pc[t] \in L}
N(L, q) == Cardinality(In(L, q))

(* Places of a thread that has a slot, free to fill or with an element to  *)
(* take; and those of them at which wr is past the slot and rd is not.     *)
Busy == {"enqlock", "advwr", "store", "enqunlock", "postfull",
         "deqlock", "advrd", "fetch", "dequnlock", "postfree"}
Ahead == {"store", "enqunlock", "postfull", "deqlock", "advrd"}
Held == {"advwr", "store", "advrd", "fetch", "enqunlock", "dequnlock"}

(* Tickets up to which wr and rd have moved, and the slot of ticket k >= R. *)
W(q) == IF In({"store"}, q) = {} THEN Len(log[q]) ELSE Len(log[q]) + 1
R(q) == IF In({"fetch"}, q) = {} THEN Len(out[q]) ELSE Len(out[q]) + 1
Slot(q, k) == IF rd[q] + (k - R(q)) < Sz THEN rd[q] + (k - R(q)) ELSE rd[q] + (k - R(q)) - Sz

Types ==
  /\ rd \in [Queues -> Slots] /\ wr \in [Queues -> Slots]
  /\ e \in [Queues -> [Slots -> Value \cup {NoThread}]]
  /\ lock \in [Queues -> Threads \cup {NoThread}]
  /\ notempty \in [Queues -> Nat] /\ notfull \in [Queues -> Nat]
  /\ pc \in [Threads -> {"out", "notfull", "notempty", "enqlock", "deqlock", "advwr",
                         "store", "advrd", "fetch", "enqunlock", "dequnlock",
                         "postfull", "postfree", "wake"}]
  /\ on \in [Threads -> Queues] /\ ix \in [Threads -> Slots]
  /\ val \in [Threads -> Value \cup {NoThread}]
  /\ log \in [Queues -> Seq(Value)] /\ out \in [Queues -> Seq(Value)]
  /\ \A t \in Threads : pc[t] \in {"notfull", "enqlock", "advwr", "store"} => val[t] \in Value

(* The mutex of a queue is held by the thread that works on its ring. *)
Mutex == \A t \in Threads : pc[t] \in Held => lock[on[t]] = t

(* Every slot is free, or with a thread, or has an element; wr is ahead of *)
(* rd by the elements announced, about to be announced, and claimed.       *)
Balance(q) ==
  /\ notfull[q] + N(Busy, q) + notempty[q] = Sz
  /\ W(q) - R(q) = N(Ahead, q) + notempty[q]

(* What is in the ring and what came out. *)
Contents(q) ==
  /\ R(q) <= Len(log[q]) /\ wr[q] = Slot(q, W(q))
  /\ \A k \in R(q) .. Len(log[q]) - 1 : e[q][Slot(q, k)] = log[q][k + 1]
  /\ \A k \in 1 .. Len(out[q]) : out[q][k] = log[q][k]
  /\ \A t \in In({"store"}, q) : ix[t] = Slot(q, Len(log[q]))
  /\ \A t \in In({"fetch"}, q) : e[q][ix[t]] = log[q][Len(out[q]) + 1]

QInv == Types /\ Mutex /\ \A q \in Queues : Balance(q) /\ Contents(q)
-----------------------------------------------------------------------------
(* The counts of threads are numbers. *)
LEMMA InFinite ==
  ASSUME NEW L, NEW q
  PROVE  IsFiniteSet(In(L, q)) /\ N(L, q) \in Nat
<1>1. In(L, q) \subseteq Threads /\ IsFiniteSet(Threads)
  BY SyncQAssumption DEF In
<1>2. IsFiniteSet(In(L, q))
  BY <1>1, FS_Subset
<1> QED  BY <1>2, FS_CardinalityType DEF N

(* A thread inside an operation that goes on to place l: what becomes of   *)
(* the number of threads at the places L.                                  *)
LEMMA InStep ==
  ASSUME Types, NEW t \in Threads, NEW l, Goto(t, l), UNCHANGED on, NEW L, NEW q
  PROVE  /\ on[t] # q => In(L, q)' = In(L, q) /\ N(L, q)' = N(L, q)
         /\ on[t] = q /\ (pc[t] \in L <=> l \in L) => In(L, q)' = In(L, q) /\ N(L, q)' = N(L, q)
         /\ on[t] = q /\ pc[t] \in L /\ l \notin L => In(L, q)' = In(L, q) \ {t} /\ N(L, q)' = N(L, q) - 1
         /\ on[t] = q /\ pc[t] \notin L /\ l \in L => In(L, q)' = In(L, q) \cup {t} /\ N(L, q)' = N(L, q) + 1
<1>1. pc' = [pc EXCEPT ![t] = l] /\ on' = on /\ DOMAIN pc = Threads
  BY DEF Types, Goto
<1>2. /\ on[t] # q => In(L, q)' = In(L, q)
      /\ on[t] = q /\ (pc[t] \in L <=> l \in L) => In(L, q)' = In(L, q)
      /\ on[t] = q /\ pc[t] \in L /\ l \notin L => In(L, q)' = In(L, q) \ {t}
      /\ on[t] = q /\ pc[t] \notin L /\ l \in L => In(L, q)' = In(L, q) \cup {t}
  BY <1>1 DEF In
<1>3. Cardinality(In(L, q) \cup {t}) = IF t \in In(L, q) THEN N(L, q) ELSE N(L, q) + 1
  BY InFinite, FS_AddElement, Zenon DEF N
<1>4. Cardinality(In(L, q) \ {t}) = IF t \in In(L, q) THEN N(L, q) - 1 ELSE N(L, q)
  BY InFinite, FS_RemoveElement, Zenon DEF N
<1>5. t \in In(L, q) <=> on[t] = q /\ pc[t] \in L
  BY DEF In
<1> QED  BY <1>2, <1>3, <1>4, <1>5 DEF N

(* Where the thread goes on makes no difference to those at the places L.  *)
LEMMA Stays ==
  ASSUME Types, NEW t \in Threads, NEW l, Goto(t, l), UNCHANGED on, NEW L, NEW q,
         on[t] # q \/ (pc[t] \in L <=> l \in L)
  PROVE  In(L, q)' = In(L, q) /\ N(L, q)' = N(L, q)
  BY InStep, SMTT(60)

(* An element behind a sequence. *)
LEMMA AppendIs ==
  ASSUME NEW S, NEW s \in Seq(S), NEW v \in S
  PROVE  /\ Len(s) \in Nat /\ Len(Append(s, v)) = Len(s) + 1 /\ Append(s, v)[Len(s) + 1] = v
         /\ \A k \in 1 .. Len(s) : Append(s, v)[k] = s[k]
  BY SMTT(60)

(* A call begins where none of the counts looks. *)
LEMMA InCall ==
  ASSUME Types, NEW t \in Threads, QCall(t), NEW L, L \cap {"out", "notfull", "notempty"} = {}, NEW q
  PROVE  In(L, q)' = In(L, q) /\ N(L, q)' = N(L, q)
<1>1. /\ pc[t] = "out" /\ pc' \in {[pc EXCEPT ![t] = "notfull"], [pc EXCEPT ![t] = "notempty"]}
      /\ \E r \in Queues : on' = [on EXCEPT ![t] = r]
      /\ DOMAIN pc = Threads /\ DOMAIN on = Threads
  BY DEF QCall, EnqCall, DeqCall, Goto, Set, Types
<1>2. In(L, q)' = In(L, q)
  BY <1>1 DEF In
<1> QED  BY <1>2 DEF N

(* Two threads are not both between lock and unlock of a queue. *)
LEMMA OnlyHolder ==
  ASSUME Mutex, NEW t \in Threads, pc[t] \in Held, NEW u \in Threads, pc[u] \in Held, on[u] = on[t]
  PROVE  u = t
  BY DEF Mutex

(* A step that leaves a queue's ring and the threads that work on it       *)
(* alone, keeps its contents.                                              *)
LEMMA ContentsSame ==
  ASSUME NEW q \in Queues, Contents(q),
         rd'[q] = rd[q], wr'[q] = wr[q], e'[q] = e[q], log'[q] = log[q], out'[q] = out[q],
         In({"store"}, q)' = In({"store"}, q), In({"fetch"}, q)' = In({"fetch"}, q),
         \A u \in In({"store"}, q) \cup In({"fetch"}, q) : ix'[u] = ix[u]
  PROVE  Contents(q)' /\ W(q)' = W(q) /\ R(q)' = R(q)
<1>1. W(q)' = W(q) /\ R(q)' = R(q)
  BY DEF W, R
<1>2. \A k : Slot(q, k)' = Slot(q, k)
  BY <1>1 DEF Slot
<1> QED  BY <1>1, <1>2 DEF Contents

(* Fewer threads are ahead than busy, when one of the busy is not ahead.   *)
LEMMA Fewer ==
  ASSUME NEW q
  PROVE  /\ N(Ahead, q) \in Nat /\ N(Busy, q) \in Nat /\ N(Ahead, q) <= N(Busy, q)
         /\ In(Busy \ Ahead, q) # {} => N(Ahead, q) < N(Busy, q)
         /\ In(Ahead, q) # {} => N(Ahead, q) > 0
<1>1. In(Ahead, q) \subseteq In(Busy, q) /\ IsFiniteSet(In(Busy, q))
  <2>1. IsFiniteSet(In(Busy, q))
    BY InFinite
  <2>2. In(Ahead, q) \subseteq In(Busy, q)
    BY DEF In, Ahead, Busy
  <2> QED  BY <2>1, <2>2
<1>2. N(Ahead, q) \in Nat /\ N(Busy, q) \in Nat
  BY InFinite
<1>3. N(Ahead, q) <= N(Busy, q) /\ (N(Ahead, q) = N(Busy, q) => In(Ahead, q) = In(Busy, q))
  BY <1>1, FS_Subset DEF N
<1>4. In(Busy \ Ahead, q) # {} => In(Ahead, q) # In(Busy, q)
  BY DEF In
<1>5. In(Ahead, q) # {} => N(Ahead, q) # 0
  BY InFinite, FS_EmptySet DEF N
<1> QED  BY <1>2, <1>3, <1>4, <1>5, SMTT(60)

(* The numbers of a balanced queue, as numbers. *)
LEMMA Numbers ==
  ASSUME Types, NEW q \in Queues, Balance(q)
  PROVE  \E f, n, b, a, w, r \in Nat :
           /\ f = notfull[q] /\ n = notempty[q] /\ w = W(q) /\ r = R(q)
           /\ b = N(Busy, q) /\ a = N(Ahead, q) /\ a <= b
           /\ f + b + n = Sz /\ w - r = a + n
<1>1. W(q) \in Nat /\ R(q) \in Nat /\ notfull[q] \in Nat /\ notempty[q] \in Nat
  BY SMTT(60) DEF Types, W, R
<1>2. N(Busy, q) \in Nat /\ N(Ahead, q) \in Nat /\ N(Ahead, q) <= N(Busy, q)
  BY Fewer
<1> QED  BY <1>1, <1>2, Zenon DEF Balance

(* How far the indices of a queue are apart. *)
LEMMA Apart ==
  ASSUME Types, NEW q \in Queues, Balance(q)
  PROVE  /\ W(q) \in Nat /\ R(q) \in Nat /\ R(q) <= W(q) /\ W(q) - R(q) <= Sz
         /\ In(Busy \ Ahead, q) # {} => W(q) - R(q) < Sz
         /\ In(Ahead, q) # {} => R(q) < W(q)
<1>1. PICK f, n, b, a, w, r \in Nat :
           /\ f = notfull[q] /\ n = notempty[q] /\ w = W(q) /\ r = R(q)
           /\ b = N(Busy, q) /\ a = N(Ahead, q) /\ a <= b
           /\ f + b + n = Sz /\ w - r = a + n
  BY Numbers, Zenon
<1>2. (In(Busy \ Ahead, q) # {} => a < b) /\ (In(Ahead, q) # {} => a > 0)
  BY <1>1, Fewer, Zenon
<1>3. r <= w /\ w - r <= Sz /\ (a < b => w - r < Sz) /\ (a > 0 => r < w)
  BY <1>1, SyncQAssumption, SMTT(60)
<1> QED  BY <1>1, <1>2, <1>3, Zenon
-----------------------------------------------------------------------------
(* The element that SYNCQ_DEQ is about to read was stored. *)
LEMMA Fetched ==
  ASSUME Types, NEW t \in Threads, pc[t] = "fetch", Contents(on[t])
  PROVE  /\ R(on[t]) = Len(out[on[t]]) + 1 /\ Len(out[on[t]]) \in Nat /\ Len(log[on[t]]) \in Nat
         /\ Len(out[on[t]]) < Len(log[on[t]])
         /\ e[on[t]][ix[t]] = log[on[t]][Len(out[on[t]]) + 1] /\ e[on[t]][ix[t]] \in Value
<1>1. on[t] \in Queues /\ t \in In({"fetch"}, on[t])
  BY DEF Types, In
<1>2. log[on[t]] \in Seq(Value) /\ Len(out[on[t]]) \in Nat /\ Len(log[on[t]]) \in Nat
  BY <1>1, SMTT(60) DEF Types
<1>3. R(on[t]) = Len(out[on[t]]) + 1
  BY <1>1 DEF R
<1>4. Len(out[on[t]]) < Len(log[on[t]])
  BY <1>2, <1>3, SMTT(60) DEF Contents
<1>5. e[on[t]][ix[t]] = log[on[t]][Len(out[on[t]]) + 1]
  BY <1>1 DEF Contents
<1> QED  BY <1>2, <1>3, <1>4, <1>5, SMTT(60)

(* The successor of an index is an index. *)
LEMMA SuccType == \A j \in Slots : Succ(j) \in Slots
  BY SyncQAssumption, SMTT(60) DEF Slots, Succ

(* Every step keeps the types. *)
LEMMA TypesStep ==
  ASSUME QInv, NEW t \in Threads, QCall(t) \/ QStep(t)
  PROVE  Types'
<1> USE SyncQAssumption DEF Types, Goto, Set, ring, hist
<1>0. Types /\ on[t] \in Queues
  BY DEF QInv
<1>1. CASE QCall(t)
  <2>1. ASSUME NEW q \in Queues, DeqCall(t, q) PROVE Types'
    BY <1>0, <2>1 DEF DeqCall
  <2>2. ASSUME NEW q \in Queues, NEW v \in Value, EnqCall(t, q, v) PROVE Types'
    BY <1>0, <2>2 DEF EnqCall
  <2> QED  BY <1>1, <2>1, <2>2 DEF QCall
<1>2. CASE WaitNotFull(t)
  BY <1>0, <1>2, SMTT(60) DEF WaitNotFull
<1>3. CASE WaitNotEmpty(t)
  BY <1>0, <1>3, SMTT(60) DEF WaitNotEmpty
<1>4. CASE Lock(t)
  BY <1>0, <1>4 DEF Lock
<1>5. CASE AdvanceWr(t)
  <2>1. Succ(wr[on[t]]) \in Slots /\ wr[on[t]] \in Slots
    BY <1>0, SuccType
  <2> QED  BY <1>0, <1>5, <2>1 DEF AdvanceWr
<1>6. CASE Store(t)
  BY <1>0, <1>6, SMTT(60) DEF Store
<1>7. CASE AdvanceRd(t)
  <2>1. Succ(rd[on[t]]) \in Slots /\ rd[on[t]] \in Slots
    BY <1>0, SuccType
  <2> QED  BY <1>0, <1>7, <2>1 DEF AdvanceRd
<1>8. CASE Unlock(t)
  BY <1>0, <1>8 DEF Unlock
<1>9. CASE Post(t)
  <2>1. notempty' \in [Queues -> Nat] /\ notfull' \in [Queues -> Nat]
    <3>0. notempty[on[t]] \in Nat /\ notfull[on[t]] \in Nat
      BY <1>0
    <3>1. PICK m, n \in Nat : m = notempty[on[t]] + 1 /\ n = notfull[on[t]] + 1
      BY <3>0, SMTT(60)
    <3>2. \/ notempty' = [notempty EXCEPT ![on[t]] = m] /\ notfull' = notfull
          \/ notfull' = [notfull EXCEPT ![on[t]] = n] /\ notempty' = notempty
      BY <1>9, <3>1 DEF Post
    <3>3. notempty \in [Queues -> Nat] /\ notfull \in [Queues -> Nat]
      BY <1>0
    <3> HIDE DEF Types
    <3> QED  BY <1>0, <3>2, <3>3
  <2>2. pc' = [pc EXCEPT ![t] = "wake"] /\ UNCHANGED <<rd, wr, e, lock, on, ix, val, log, out>>
    BY <1>9 DEF Post
  <2> QED  BY <1>0, <2>1, <2>2
<1>10. CASE Wake(t)
  BY <1>0, <1>10 DEF Wake
<1>11. CASE Fetch(t)
  <2>1. e[on[t]][ix[t]] \in Value
    BY <1>0, <1>11, Fetched DEF Fetch, QInv
  <2> QED  BY <1>0, <1>11, <2>1, SMTT(60) DEF Fetch
<1> QED  BY <1>1, <1>2, <1>3, <1>4, <1>5, <1>6, <1>7, <1>8, <1>9, <1>10, <1>11 DEF QStep

(* Every step keeps the mutexes exclusive. *)
LEMMA MutexStep ==
  ASSUME QInv, NEW t \in Threads, QCall(t) \/ QStep(t)
  PROVE  Mutex'
<1> USE SyncQAssumption DEF Mutex, Held, Goto, Set
<1>0. /\ lock \in [Queues -> Threads \cup {NoThread}] /\ on \in [Threads -> Queues] /\ DOMAIN pc = Threads
      /\ Mutex
  BY DEF QInv, Types
<1>1. CASE QCall(t)
  BY <1>0, <1>1 DEF QCall, EnqCall, DeqCall
<1>2. CASE WaitNotFull(t)
  BY <1>0, <1>2 DEF WaitNotFull
<1>3. CASE WaitNotEmpty(t)
  BY <1>0, <1>3 DEF WaitNotEmpty
<1>4. CASE Lock(t)
  BY <1>0, <1>4 DEF Lock
<1>5. CASE AdvanceWr(t)
  BY <1>0, <1>5 DEF AdvanceWr
<1>6. CASE Store(t)
  BY <1>0, <1>6 DEF Store
<1>7. CASE AdvanceRd(t)
  BY <1>0, <1>7 DEF AdvanceRd
<1>8. CASE Fetch(t)
  BY <1>0, <1>8 DEF Fetch
<1>9. CASE Unlock(t)
  BY <1>0, <1>9 DEF Unlock
<1>10. CASE Post(t)
  BY <1>0, <1>10 DEF Post
<1>11. CASE Wake(t)
  BY <1>0, <1>11 DEF Wake
<1> QED  BY <1>1, <1>2, <1>3, <1>4, <1>5, <1>6, <1>7, <1>8, <1>9, <1>10, <1>11 DEF QStep
-----------------------------------------------------------------------------
(* The places at which the counts look. *)
Places == {Busy, Ahead, {"store"}, {"fetch"}}

(* A step after which the counts, the ring and its threads are as before. *)
LEMMA Same ==
  ASSUME NEW q \in Queues, Balance(q), Contents(q),
         rd'[q] = rd[q], wr'[q] = wr[q], e'[q] = e[q], log'[q] = log[q], out'[q] = out[q],
         notempty'[q] = notempty[q], notfull'[q] = notfull[q],
         \A L \in Places : In(L, q)' = In(L, q) /\ N(L, q)' = N(L, q),
         \A u \in In({"store"}, q) \cup In({"fetch"}, q) : ix'[u] = ix[u]
  PROVE  Balance(q)' /\ Contents(q)'
<1>1. /\ In({"store"}, q)' = In({"store"}, q) /\ In({"fetch"}, q)' = In({"fetch"}, q)
      /\ N(Busy, q)' = N(Busy, q) /\ N(Ahead, q)' = N(Ahead, q)
  BY DEF Places
<1>2. Contents(q)' /\ W(q)' = W(q) /\ R(q)' = R(q)
  BY <1>1, ContentsSame
<1>3. Balance(q)'
  BY <1>1, <1>2 DEF Balance
<1> QED  BY <1>2, <1>3

(* Steps that touch no ring and no semaphore: the begin and the end of a   *)
(* call, and taking and releasing the mutex.                               *)
LEMMA IdleStep ==
  ASSUME QInv, NEW t \in Threads, QCall(t) \/ Lock(t) \/ Unlock(t) \/ Wake(t), NEW q \in Queues
  PROVE  Balance(q)' /\ Contents(q)'
<1>1. Types /\ Balance(q) /\ Contents(q)
  BY DEF QInv
<1>2. UNCHANGED <<rd, wr, e, log, out, notempty, notfull, ix>>
  BY DEF QCall, EnqCall, DeqCall, Lock, Unlock, Wake, ring, hist
<1>3. ASSUME NEW L \in Places PROVE In(L, q)' = In(L, q) /\ N(L, q)' = N(L, q)
  <2>1. CASE QCall(t)
    <3>1. L \cap {"out", "notfull", "notempty"} = {}
      BY DEF Places, Busy, Ahead
    <3> QED  BY <1>1, <2>1, <3>1, InCall
  <2>2. CASE Lock(t) \/ Unlock(t) \/ Wake(t)
    <3>1. PICK l : Goto(t, l) /\ UNCHANGED on /\ (pc[t] \in L <=> l \in L)
      BY <2>2, SMTT(60) DEF Lock, Unlock, Wake, Places, Busy, Ahead
    <3> QED  BY <1>1, <3>1, InStep, SMTT(60)
  <2> QED  BY <2>1, <2>2
<1> QED  BY <1>1, <1>2, <1>3, Same

(* By how much a thread that goes from l to m changes the number of those  *)
(* at the places L, and what it has to do to the semaphores and the        *)
(* indices for the numbers to stay in balance.                             *)
Gain(L, l, m) == (IF m \in L THEN 1 ELSE 0) - (IF l \in L THEN 1 ELSE 0)
(* The number at L changes by the gain of the thread that moves.           *)
LEMMA GainIs ==
  ASSUME Types, NEW t \in Threads, NEW l, Goto(t, l), UNCHANGED on, NEW L
  PROVE  N(L, on[t])' = N(L, on[t]) + Gain(L, pc[t], l)
<1>1. N(L, on[t]) \in Nat
  BY InFinite
<1>2. CASE pc[t] \in L <=> l \in L
  BY <1>1, <1>2, InStep, SMTT(60) DEF Gain
<1>3. CASE pc[t] \in L /\ l \notin L
  BY <1>1, <1>3, InStep, SMTT(60) DEF Gain
<1>4. CASE pc[t] \notin L /\ l \in L
  BY <1>1, <1>4, InStep, SMTT(60) DEF Gain
<1> QED  BY <1>2, <1>3, <1>4

Evens(q, l, m) ==
  /\ notfull'[q] \in Nat /\ notempty'[q] \in Nat /\ W(q)' \in Nat /\ R(q)' \in Nat
  /\ (notfull'[q] - notfull[q]) + Gain(Busy, l, m) + (notempty'[q] - notempty[q]) = 0
  /\ (W(q)' - W(q)) - (R(q)' - R(q)) = Gain(Ahead, l, m) + (notempty'[q] - notempty[q])
(* A step that evens out keeps the balance.                                *)
LEMMA BalanceStep ==
  ASSUME Types, NEW t \in Threads, NEW q \in Queues, on[t] = q, Balance(q),
         NEW l, Goto(t, l), UNCHANGED on, Evens(q, pc[t], l)
  PROVE  Balance(q)'
<1>1. PICK f0, n0, b0, a0, w0, r0 \in Nat :
           /\ f0 = notfull[q] /\ n0 = notempty[q] /\ w0 = W(q) /\ r0 = R(q)
           /\ b0 = N(Busy, q) /\ a0 = N(Ahead, q) /\ a0 <= b0
           /\ f0 + b0 + n0 = Sz /\ w0 - r0 = a0 + n0
  BY Numbers, Zenon
<1>2. Gain(Busy, pc[t], l) \in Int /\ Gain(Ahead, pc[t], l) \in Int
  BY SMTT(60) DEF Gain
<1>3. N(Busy, q)' = b0 + Gain(Busy, pc[t], l) /\ N(Ahead, q)' = a0 + Gain(Ahead, pc[t], l)
  BY <1>1, GainIs
<1> QED  BY <1>1, <1>2, <1>3, SMTT(60) DEF Balance, Evens

(* Steps that only move a token: sem_wait and sem_post.  A queue that the  *)
(* thread does not work on is as before.                                   *)
LEMMA TokenStep ==
  ASSUME QInv, NEW t \in Threads, WaitNotFull(t) \/ WaitNotEmpty(t) \/ Post(t), NEW q \in Queues
  PROVE  Balance(q)' /\ Contents(q)'
<1>1. Types /\ Balance(q) /\ Contents(q) /\ on[t] \in Queues
  BY DEF QInv, Types
<1>2. UNCHANGED <<rd, wr, e, log, out, ix, on>>
  BY DEF WaitNotFull, WaitNotEmpty, Post, ring, hist
<1>3. PICK l \in {"enqlock", "deqlock", "wake"} : Goto(t, l)
  BY DEF WaitNotFull, WaitNotEmpty, Post
<1>4. pc[t] \in {"notfull", "notempty", "postfull", "postfree"}
  BY DEF WaitNotFull, WaitNotEmpty, Post
<1>5. In({"store"}, q)' = In({"store"}, q) /\ In({"fetch"}, q)' = In({"fetch"}, q)
  BY <1>1, <1>2, <1>3, <1>4, InStep, SMTT(60)
<1>6. Contents(q)' /\ W(q)' = W(q) /\ R(q)' = R(q)
  BY <1>1, <1>2, <1>5, ContentsSame
<1>7. CASE on[t] # q
  <2>1. notempty'[q] = notempty[q] /\ notfull'[q] = notfull[q]
    BY <1>1, <1>7 DEF WaitNotFull, WaitNotEmpty, Post, Types
  <2>2. \A L \in Places : In(L, q)' = In(L, q) /\ N(L, q)' = N(L, q)
    BY <1>1, <1>2, <1>3, <1>7, InStep, SMTT(60)
  <2> QED  BY <1>1, <1>2, <2>1, <2>2, Same
<1>8. ASSUME on[t] = q PROVE Balance(q)'
  <2>0. notempty[q] \in Nat /\ notfull[q] \in Nat /\ W(q) \in Nat /\ R(q) \in Nat
    BY <1>1, Apart DEF Types
  <2>1. W(q)' \in Nat /\ R(q)' \in Nat /\ (W(q)' - W(q)) - (R(q)' - R(q)) = 0
    BY <1>6, <2>0, SMTT(60)
  <2>2. CASE WaitNotFull(t)
    <3>1. /\ notfull[q] > 0 /\ notfull'[q] = notfull[q] - 1 /\ notempty'[q] = notempty[q]
          /\ Goto(t, "enqlock") /\ pc[t] = "notfull"
      BY <1>1, <1>8, <2>2 DEF WaitNotFull, Types
    <3>2. Gain(Busy, pc[t], "enqlock") = 1 /\ Gain(Ahead, pc[t], "enqlock") = 0
      BY <2>2, <3>1, SMTT(60) DEF Gain, Busy, Ahead
    <3>3. Evens(q, pc[t], "enqlock")
      BY <2>0, <2>1, <3>1, <3>2, SMTT(60) DEF Evens
    <3> QED  BY <1>1, <1>2, <1>8, <3>1, <3>3, BalanceStep, Zenon
  <2>3. CASE WaitNotEmpty(t)
    <3>1. /\ notempty[q] > 0 /\ notfull'[q] = notfull[q] /\ notempty'[q] = notempty[q] - 1
          /\ Goto(t, "deqlock") /\ pc[t] = "notempty"
      BY <1>1, <1>8, <2>3 DEF WaitNotEmpty, Types
    <3>2. Gain(Busy, pc[t], "deqlock") = 1 /\ Gain(Ahead, pc[t], "deqlock") = 1
      BY <2>3, <3>1, SMTT(60) DEF Gain, Busy, Ahead
    <3>3. Evens(q, pc[t], "deqlock")
      BY <2>0, <2>1, <3>1, <3>2, SMTT(60) DEF Evens
    <3> QED  BY <1>1, <1>2, <1>8, <3>1, <3>3, BalanceStep, Zenon
  <2>4. CASE Post(t) /\ pc[t] = "postfull"
    <3>1. notfull'[q] = notfull[q] /\ notempty'[q] = notempty[q] + 1 /\ Goto(t, "wake")
      BY <1>1, <1>8, <2>4 DEF Post, Types
    <3>2. Gain(Busy, pc[t], "wake") = -1 /\ Gain(Ahead, pc[t], "wake") = -1
      BY <2>4, <3>1, SMTT(60) DEF Gain, Busy, Ahead
    <3>3. Evens(q, pc[t], "wake")
      BY <2>0, <2>1, <3>1, <3>2, SMTT(60) DEF Evens
    <3> QED  BY <1>1, <1>2, <1>8, <3>1, <3>3, BalanceStep, Zenon
  <2>5. CASE Post(t) /\ pc[t] = "postfree"
    <3>1. notfull'[q] = notfull[q] + 1 /\ notempty'[q] = notempty[q] /\ Goto(t, "wake")
      BY <1>1, <1>8, <2>5 DEF Post, Types
    <3>2. Gain(Busy, pc[t], "wake") = -1 /\ Gain(Ahead, pc[t], "wake") = 0
      BY <2>5, <3>1, SMTT(60) DEF Gain, Busy, Ahead
    <3>3. Evens(q, pc[t], "wake")
      BY <2>0, <2>1, <3>1, <3>2, SMTT(60) DEF Evens
    <3> QED  BY <1>1, <1>2, <1>8, <3>1, <3>3, BalanceStep, Zenon
  <2> QED  BY <1>4, <2>2, <2>3, <2>4, <2>5 DEF Post
<1> QED  BY <1>6, <1>7, <1>8

(* Steps on a ring leave the other queues alone. *)
LEMMA OtherQueue ==
  ASSUME QInv, NEW t \in Threads, AdvanceWr(t) \/ Store(t) \/ AdvanceRd(t) \/ Fetch(t),
         NEW q \in Queues, on[t] # q
  PROVE  Balance(q)' /\ Contents(q)'
<1>1. Types /\ Balance(q) /\ Contents(q) /\ on[t] \in Queues
  BY DEF QInv, Types
<1>2. /\ rd'[q] = rd[q] /\ wr'[q] = wr[q] /\ e'[q] = e[q] /\ log'[q] = log[q] /\ out'[q] = out[q]
      /\ UNCHANGED <<on, notempty, notfull>>
  BY <1>1 DEF AdvanceWr, Store, AdvanceRd, Fetch, ring, hist, Types
<1>3. \A u \in Threads : u # t => ix'[u] = ix[u]
  BY <1>1 DEF AdvanceWr, Store, AdvanceRd, Fetch, Set, Types
<1>4. PICK l : Goto(t, l)
  BY DEF AdvanceWr, Store, AdvanceRd, Fetch
<1>5. \A L \in Places : In(L, q)' = In(L, q) /\ N(L, q)' = N(L, q)
  BY <1>1, <1>2, <1>4, InStep, SMTT(60)
<1>6. \A u \in In({"store"}, q) \cup In({"fetch"}, q) : u \in Threads /\ u # t
  BY DEF In
<1> QED  BY <1>1, <1>2, <1>3, <1>5, <1>6, Same

(* The thread that holds the mutex is alone on the ring. *)
LEMMA Alone ==
  ASSUME QInv, NEW t \in Threads, pc[t] \in Held
  PROVE  /\ pc[t] # "store" => In({"store"}, on[t]) = {}
         /\ pc[t] = "store" => In({"store"}, on[t]) = {t}
         /\ pc[t] # "fetch" => In({"fetch"}, on[t]) = {}
         /\ pc[t] = "fetch" => In({"fetch"}, on[t]) = {t}
<1>1. \A u \in Threads : pc[u] \in {"store", "fetch"} /\ on[u] = on[t] => u = t
  BY OnlyHolder DEF QInv, Held
<1> QED  BY <1>1 DEF In

(* wr++ in SYNCQ_ENQ: the thread's free slot becomes a claimed one. *)
LEMMA AdvanceWrStep ==
  ASSUME QInv, NEW t \in Threads, NEW q \in Queues, on[t] = q, AdvanceWr(t)
  PROVE  Balance(q)' /\ Contents(q)'
<1>1. Types /\ Balance(q) /\ Contents(q) /\ pc[t] = "advwr" /\ Goto(t, "store")
  BY DEF QInv, AdvanceWr
<1>2. /\ UNCHANGED <<rd, e, log, out, on, notempty, notfull>> /\ wr'[q] = Succ(wr[q]) /\ ix'[t] = wr[q]
  BY <1>1 DEF AdvanceWr, hist, Set, Types
<1>3. In({"store"}, q) = {} /\ In({"fetch"}, q) = {}
  BY <1>1, Alone, Zenon DEF Held
<1>4. In({"store"}, q)' = {t} /\ In({"fetch"}, q)' = {}
  BY <1>1, <1>2, <1>3, InStep, SMTT(60)
<1>5. Len(log[q]) \in Nat /\ Len(out[q]) \in Nat /\ notfull[q] \in Nat /\ notempty[q] \in Nat
  BY <1>1, SMTT(60) DEF Types
<1>6. W(q) = Len(log[q]) /\ W(q)' = W(q) + 1 /\ R(q)' = R(q)
  BY <1>2, <1>3, <1>4, <1>5, Zenon DEF W, R
<1>7. Balance(q)'
  <2>1. Gain(Busy, pc[t], "store") = 0 /\ Gain(Ahead, pc[t], "store") = 1
    BY <1>1, SMTT(60) DEF Gain, Busy, Ahead
  <2>2. UNCHANGED <<on, notempty, notfull>> /\ W(q) \in Nat /\ R(q) \in Nat
    BY <1>1, <1>2, Apart
  <2>3. Evens(q, pc[t], "store")
    BY <1>5, <1>6, <2>1, <2>2, SMTT(60) DEF Evens
  <2> QED  BY <1>1, <2>2, <2>3, BalanceStep, Zenon
<1>8. PICK w, r \in Nat : w = W(q) /\ r = R(q) /\ w - r < Sz /\ r <= w
  <2>1. t \in In(Busy \ Ahead, q)
    BY <1>1 DEF In, Busy, Ahead
  <2> QED  BY <1>1, <2>1, Apart, Zenon
<1>9. W(q)' = w + 1 /\ R(q)' = r
  BY <1>6, <1>8
<1>11. \A k : Slot(q, k)' = Slot(q, k)
  BY <1>2, <1>6 DEF Slot
<1>12. wr[q] = Slot(q, W(q)) /\ rd[q] \in 0 .. Sz - 1 /\ Sz \in Nat
  BY <1>1, SyncQAssumption DEF Contents, Types, Slots
<1>13. wr'[q] = Slot(q, W(q))'
  <2>1. wr[q] = IF rd[q] + (w - r) < Sz THEN rd[q] + (w - r) ELSE rd[q] + (w - r) - Sz
    BY <1>8, <1>12 DEF Slot
  <2>2. Succ(wr[q]) = IF rd[q] + (w + 1 - r) < Sz THEN rd[q] + (w + 1 - r) ELSE rd[q] + (w + 1 - r) - Sz
    BY <1>8, <1>12, <2>1, SMTT(60) DEF Succ
  <2>3. rd'[q] = rd[q]
    BY <1>2
  <2> QED  BY <1>2, <1>9, <2>2, <2>3, SMTT(60) DEF Slot
<1>14. Contents(q)'
  <2>1. R(q)' <= Len(log'[q])
    BY <1>1, <1>2, <1>6 DEF Contents
  <2>2. (\A k \in R(q) .. Len(log[q]) - 1 : e[q][Slot(q, k)] = log[q][k + 1])'
    BY <1>1, <1>2, <1>6, <1>11, SMTT(60) DEF Contents
  <2>3. \A k \in 1 .. Len(out'[q]) : out'[q][k] = log'[q][k]
    BY <1>1, <1>2 DEF Contents
  <2>4. ix'[t] = Slot(q, Len(log[q]))'
    BY <1>2, <1>6, <1>11, <1>12
  <2> QED  BY <1>4, <1>13, <2>1, <2>2, <2>3, <2>4 DEF Contents
<1> QED  BY <1>7, <1>14

(* Slots less than a ring's length apart differ. *)
LEMMA SlotsDiffer ==
  ASSUME Types, NEW q \in Queues, R(q) \in Nat, NEW j \in Nat, NEW k \in Nat,
         R(q) <= j, j < k, k < R(q) + Sz
  PROVE  Slot(q, j) \in Slots /\ Slot(q, k) \in Slots /\ Slot(q, j) # Slot(q, k)
<1>1. PICK r \in Nat, d \in 0 .. Sz - 1 : r = R(q) /\ d = rd[q]
  BY DEF Types, Slots
<1>2. Sz \in Nat \ {0} /\ r <= j /\ j < k /\ k < r + Sz
  BY <1>1, SyncQAssumption
<1>3. /\ Slot(q, j) = IF d + (j - r) < Sz THEN d + (j - r) ELSE d + (j - r) - Sz
      /\ Slot(q, k) = IF d + (k - r) < Sz THEN d + (k - r) ELSE d + (k - r) - Sz
  BY <1>1 DEF Slot
<1> QED  BY <1>2, <1>3, SMTT(60) DEF Slots

(* The store of the element: it gets its ticket. *)
LEMMA StoreStep ==
  ASSUME QInv, NEW t \in Threads, NEW q \in Queues, on[t] = q, Store(t)
  PROVE  Balance(q)' /\ Contents(q)'
<1>1. Types /\ Balance(q) /\ Contents(q) /\ pc[t] = "store" /\ Goto(t, "enqunlock")
  BY DEF QInv, Store
<1>2. /\ UNCHANGED <<rd, wr, out, on, ix, notempty, notfull>> /\ log'[q] = Append(log[q], val[t])
      /\ log[q] \in Seq(Value) /\ val[t] \in Value
  BY <1>1 DEF Store, Types
<1>3. In({"store"}, q) = {t} /\ In({"fetch"}, q) = {}
  BY <1>1, Alone, Zenon DEF Held
<1>4. In({"store"}, q)' = {} /\ In({"fetch"}, q)' = {}
  <2>0. pc[t] \in {"store"} /\ "enqunlock" \notin {"store"} /\ UNCHANGED on
    BY <1>1, <1>2
  <2>1. In({"store"}, q)' = In({"store"}, q) \ {t}
    BY <1>1, <2>0, InStep, SMTT(60)
  <2>2. In({"fetch"}, q)' = In({"fetch"}, q)
    BY <1>1, <1>2, InStep, SMTT(60)
  <2> QED  BY <1>3, <2>1, <2>2
<1>5. /\ Len(log'[q]) = Len(log[q]) + 1 /\ log'[q][Len(log[q]) + 1] = val[t] /\ Len(log[q]) \in Nat
      /\ \A k \in 1 .. Len(log[q]) : log'[q][k] = log[q][k]
  BY <1>2, AppendIs, SMTT(60)
<1>6. W(q) = Len(log[q]) + 1 /\ W(q)' = W(q) /\ R(q)' = R(q)
  BY <1>2, <1>3, <1>4, <1>5, Zenon DEF W, R
<1>8. Balance(q)'
  <2>1. \A L \in {Busy, Ahead} : pc[t] \in L <=> "enqunlock" \in L
    BY <1>1 DEF Busy, Ahead
  <2>2. UNCHANGED on
    BY <1>2
  <2>3. N(Busy, q)' = N(Busy, q) /\ N(Ahead, q)' = N(Ahead, q)
    BY <1>1, <2>1, <2>2, Stays, SMTT(60)
  <2> QED  BY <1>1, <1>2, <1>6, <2>3 DEF Balance
<1>9. \A k : Slot(q, k)' = Slot(q, k)
  BY <1>2, <1>6 DEF Slot
<1>10. PICK r, m \in Nat : r = R(q) /\ m = Len(log[q]) /\ r <= m /\ m < r + Sz
  <2>1. PICK r, m \in Nat : r = R(q) /\ m = Len(log[q])
    BY <1>1, <1>5, Apart, Zenon
  <2>2. r <= m /\ (m + 1) - r <= Sz /\ Sz \in Nat
    BY <1>1, <1>6, <2>1, Apart, SyncQAssumption DEF Contents
  <2>3. m < r + Sz
    BY <2>2, SMTT(60)
  <2> QED  BY <2>1, <2>2, <2>3
<1>11. ix[t] = Slot(q, m) /\ e'[q][ix[t]] = val[t] /\ \A j \in Slots : j # ix[t] => e'[q][j] = e[q][j]
  <2>1. ix[t] = Slot(q, m)
    BY <1>1, <1>3, <1>10 DEF Contents
  <2>2. e' = [e EXCEPT ![q] = [e[q] EXCEPT ![ix[t]] = val[t]]]
    BY DEF Store
  <2>3. e \in [Queues -> [Slots -> Value \cup {NoThread}]] /\ ix[t] \in Slots
    BY <1>1 DEF Types
  <2> QED  BY <2>1, <2>2, <2>3
<1>12. ASSUME NEW k \in r .. m PROVE e'[q][Slot(q, k)] = log'[q][k + 1]
  <2>1. CASE k = m
    BY <1>5, <1>10, <1>11, <2>1
  <2>2. CASE k < m
    <3>1. k \in Nat /\ k \in r .. m - 1 /\ k + 1 \in 1 .. m
      BY <2>2, SMTT(60)
    <3>2. Slot(q, k) \in Slots /\ Slot(q, k) # Slot(q, m)
      BY <1>1, <1>10, <2>2, <3>1, SlotsDiffer, SMTT(60)
    <3>3. e[q][Slot(q, k)] = log[q][k + 1]
      BY <1>1, <1>10, <3>1 DEF Contents
    <3>4. log'[q][k + 1] = log[q][k + 1]
      BY <1>5, <1>10, <3>1
    <3> QED  BY <1>11, <3>2, <3>3, <3>4
  <2> QED  BY <2>1, <2>2, SMTT(60)
<1>13. Contents(q)'
  <2>1. R(q)' = r /\ Len(log'[q]) = m + 1 /\ wr'[q] = Slot(q, W(q))'
    <3>1. wr[q] = Slot(q, W(q)) /\ wr' = wr
      BY <1>1, <1>2 DEF Contents
    <3>2. wr'[q] = Slot(q, W(q))'
      BY <1>6, <1>9, <3>1
    <3> QED  BY <1>5, <1>6, <1>10, <3>2
  <2>2. (\A k \in R(q) .. Len(log[q]) - 1 : e[q][Slot(q, k)] = log[q][k + 1])'
    BY <1>9, <1>12, <2>1, SMTT(60)
  <2>3. \A k \in 1 .. Len(out'[q]) : out'[q][k] = log'[q][k]
    <3>1. R(q) = Len(out[q]) /\ Len(out[q]) \in Nat
      BY <1>1, <1>3, SMTT(60) DEF R, Types
    <3> QED  BY <1>1, <1>2, <1>5, <1>10, <3>1, SMTT(60) DEF Contents
  <2>4. R(q)' <= Len(log'[q])
    BY <1>10, <2>1, SMTT(60)
  <2> QED  BY <1>4, <2>1, <2>2, <2>3, <2>4 DEF Contents
<1> QED  BY <1>8, <1>13

(* rd++ in SYNCQ_DEQ: the thread's element is the one at the old rd. *)
LEMMA AdvanceRdStep ==
  ASSUME QInv, NEW t \in Threads, NEW q \in Queues, on[t] = q, AdvanceRd(t)
  PROVE  Balance(q)' /\ Contents(q)'
<1>1. Types /\ Balance(q) /\ Contents(q) /\ pc[t] = "advrd" /\ Goto(t, "fetch")
  BY DEF QInv, AdvanceRd
<1>2. /\ UNCHANGED <<wr, e, log, out, on, notempty, notfull>> /\ rd'[q] = Succ(rd[q]) /\ ix'[t] = rd[q]
  BY <1>1 DEF AdvanceRd, hist, Set, Types
<1>3. In({"store"}, q) = {} /\ In({"fetch"}, q) = {}
  BY <1>1, Alone, Zenon DEF Held
<1>4. In({"store"}, q)' = {} /\ In({"fetch"}, q)' = {t}
  BY <1>1, <1>2, <1>3, InStep, SMTT(60)
<1>5. Len(log[q]) \in Nat /\ Len(out[q]) \in Nat /\ notfull[q] \in Nat /\ notempty[q] \in Nat
  BY <1>1, SMTT(60) DEF Types
<1>6. W(q) = Len(log[q]) /\ W(q)' = W(q) /\ R(q) = Len(out[q]) /\ R(q)' = R(q) + 1
  BY <1>2, <1>3, <1>4, <1>5, Zenon DEF W, R
<1>7. Balance(q)'
  <2>1. Gain(Busy, pc[t], "fetch") = 0 /\ Gain(Ahead, pc[t], "fetch") = -1
    BY <1>1, SMTT(60) DEF Gain, Busy, Ahead
  <2>2. UNCHANGED <<on, notempty, notfull>> /\ W(q) \in Nat /\ R(q) \in Nat
    BY <1>1, <1>2, Apart
  <2>3. Evens(q, pc[t], "fetch")
    BY <1>5, <1>6, <2>1, <2>2, SMTT(60) DEF Evens
  <2> QED  BY <1>1, <2>2, <2>3, BalanceStep, Zenon
<1>8. PICK w, r \in Nat : w = W(q) /\ r = R(q) /\ w - r <= Sz /\ r < w
  <2>1. t \in In(Ahead, q)
    BY <1>1 DEF In, Ahead
  <2> QED  BY <1>1, <2>1, Apart, Zenon
<1>9. W(q)' = w /\ R(q)' = r + 1
  BY <1>6, <1>8
<1>10. w - r <= Sz /\ r < w /\ r + 1 <= w
  BY <1>8, SMTT(60)
<1>11. PICK d \in 0 .. Sz - 1 : d = rd[q]
  BY <1>1 DEF Types, Slots
<1>12. ASSUME NEW k \in Nat, r < k, k <= w PROVE Slot(q, k)' = Slot(q, k)
  <2>1. Slot(q, k) = IF d + (k - r) < Sz THEN d + (k - r) ELSE d + (k - r) - Sz
    BY <1>8, <1>11 DEF Slot
  <2>2. Slot(q, k)' = IF Succ(d) + (k - (r + 1)) < Sz THEN Succ(d) + (k - (r + 1))
                                                      ELSE Succ(d) + (k - (r + 1)) - Sz
    BY <1>2, <1>9, <1>11 DEF Slot
  <2>3. (IF Succ(d) + (k - (r + 1)) < Sz THEN Succ(d) + (k - (r + 1)) ELSE Succ(d) + (k - (r + 1)) - Sz)
          = IF d + (k - r) < Sz THEN d + (k - r) ELSE d + (k - r) - Sz
    BY <1>10, <1>12, SyncQAssumption, SMTT(60) DEF Succ
  <2> QED  BY <2>1, <2>2, <2>3
<1>13. rd[q] = Slot(q, R(q))
  BY <1>8, <1>11, SyncQAssumption, SMTT(60) DEF Slot
<1>14. Len(log[q]) = w /\ Len(out[q]) = r /\ Len(log'[q]) = w /\ Len(out'[q]) = r
  BY <1>2, <1>6, <1>8
<1>15. \A k \in r .. w - 1 : e[q][Slot(q, k)] = log[q][k + 1]
  BY <1>1, <1>8, <1>14 DEF Contents
<1>16. Contents(q)'
  <2>1. R(q)' <= Len(log'[q])
    BY <1>9, <1>10, <1>14
  <2>2. wr'[q] = Slot(q, W(q))'
    <3>1. wr[q] = Slot(q, w)
      BY <1>1, <1>8 DEF Contents
    <3>2. Slot(q, w)' = Slot(q, w)
      BY <1>8, <1>12, SMTT(60)
    <3>3. Slot(q, W(q))' = Slot(q, w)'
      BY <1>9 DEF Slot
    <3> QED  BY <1>2, <3>1, <3>2, <3>3
  <2>3. (\A k \in R(q) .. Len(log[q]) - 1 : e[q][Slot(q, k)] = log[q][k + 1])'
    <3>1. ASSUME NEW k \in r + 1 .. w - 1 PROVE e[q][Slot(q, k)] = log[q][k + 1] /\ Slot(q, k)' = Slot(q, k)
      <4>1. k \in Nat /\ r < k /\ k <= w /\ k \in r .. w - 1
        BY SMTT(60)
      <4> QED  BY <1>12, <1>15, <4>1
    <3> QED  BY <1>2, <1>9, <1>14, <3>1
  <2>4. \A k \in 1 .. Len(out'[q]) : out'[q][k] = log'[q][k]
    BY <1>1, <1>2 DEF Contents
  <2>5. e'[q][ix'[t]] = log'[q][Len(out'[q]) + 1]
    <3>1. r \in r .. w - 1
      BY <1>8, SMTT(60)
    <3>2. e[q][Slot(q, r)] = log[q][r + 1] /\ rd[q] = Slot(q, r)
      BY <1>8, <1>13, <1>15, <3>1
    <3> QED  BY <1>2, <1>14, <3>2
  <2> QED  BY <1>4, <2>1, <2>2, <2>3, <2>4, <2>5 DEF Contents
<1> QED  BY <1>7, <1>16

(* The element leaves the ring with the next ticket. *)
LEMMA FetchStep ==
  ASSUME QInv, NEW t \in Threads, NEW q \in Queues, on[t] = q, Fetch(t)
  PROVE  Balance(q)' /\ Contents(q)'
<1>1. Types /\ Balance(q) /\ Contents(q) /\ pc[t] = "fetch" /\ Goto(t, "dequnlock")
  BY DEF QInv, Fetch
<1>2. /\ UNCHANGED <<rd, wr, e, log, on, ix, notempty, notfull>>
      /\ out'[q] = Append(out[q], e[q][ix[t]]) /\ out[q] \in Seq(Value)
  BY <1>1 DEF Fetch, Types, ring
<1>3. In({"store"}, q) = {} /\ In({"fetch"}, q) = {t}
  BY <1>1, Alone, Zenon DEF Held
<1>4. In({"store"}, q)' = {} /\ In({"fetch"}, q)' = {}
  <2>0. pc[t] \in {"fetch"} /\ "dequnlock" \notin {"fetch"} /\ UNCHANGED on
    BY <1>1, <1>2
  <2>1. In({"fetch"}, q)' = In({"fetch"}, q) \ {t}
    BY <1>1, <2>0, InStep, SMTT(60)
  <2>2. In({"store"}, q)' = In({"store"}, q)
    BY <1>1, <1>2, InStep, SMTT(60)
  <2> QED  BY <1>3, <2>1, <2>2
<1>5. /\ R(q) = Len(out[q]) + 1 /\ Len(out[q]) \in Nat /\ Len(log[q]) \in Nat /\ Len(out[q]) < Len(log[q])
      /\ e[q][ix[t]] = log[q][Len(out[q]) + 1] /\ e[q][ix[t]] \in Value
  BY <1>1, Fetched
<1>6. /\ Len(out'[q]) = Len(out[q]) + 1 /\ out'[q][Len(out[q]) + 1] = log[q][Len(out[q]) + 1]
      /\ \A k \in 1 .. Len(out[q]) : out'[q][k] = out[q][k]
  BY <1>2, <1>5, AppendIs, SMTT(60)
<1>7. W(q)' = W(q) /\ R(q)' = R(q)
  BY <1>2, <1>3, <1>4, <1>5, <1>6 DEF W, R
<1>9. Balance(q)'
  <2>1. \A L \in {Busy, Ahead} : pc[t] \in L <=> "dequnlock" \in L
    BY <1>1 DEF Busy, Ahead
  <2>2. UNCHANGED on
    BY <1>2
  <2>3. N(Busy, q)' = N(Busy, q) /\ N(Ahead, q)' = N(Ahead, q)
    BY <1>1, <2>1, <2>2, Stays, SMTT(60)
  <2> QED  BY <1>1, <1>2, <1>7, <2>3 DEF Balance
<1>10. \A k : Slot(q, k)' = Slot(q, k)
  BY <1>2, <1>7 DEF Slot
<1>11. Contents(q)'
  <2>1. R(q)' <= Len(log'[q]) /\ wr'[q] = Slot(q, W(q))'
    BY <1>1, <1>2, <1>7, <1>10 DEF Contents
  <2>2. (\A k \in R(q) .. Len(log[q]) - 1 : e[q][Slot(q, k)] = log[q][k + 1])'
    BY <1>1, <1>2, <1>7, <1>10, SMTT(60) DEF Contents
  <2>3. ASSUME NEW k \in 1 .. Len(out'[q]) PROVE out'[q][k] = log'[q][k]
    <3>1. log' = log /\ Len(out[q]) \in Nat
      BY <1>2, <1>5
    <3>2. k = Len(out[q]) + 1 \/ k \in 1 .. Len(out[q])
      BY <1>6, <3>1, SMTT(60)
    <3>3. \A j \in 1 .. Len(out[q]) : out[q][j] = log[q][j]
      BY <1>1 DEF Contents
    <3> QED  BY <1>6, <3>1, <3>2, <3>3
  <2> QED  BY <1>4, <2>1, <2>2, <2>3 DEF Contents
<1> QED  BY <1>9, <1>11
-----------------------------------------------------------------------------
(* SYNCQ_INIT establishes the invariant. *)
LEMMA QInvInit == QInit => QInv
<1> SUFFICES ASSUME QInit PROVE QInv
  OBVIOUS
<1>1. 0 \in Slots /\ Sz \in Nat \ {0}
  BY SyncQAssumption, SMTT(60) DEF Slots
<1>2. Types
  <2>1. on \in [Threads -> Queues]
    BY SyncQAssumption DEF QInit
  <2> QED  BY <1>1, <2>1, SMTT(60) DEF QInit, Types
<1>3. Mutex
  BY DEF QInit, Mutex, Held
<1>4. ASSUME NEW q \in Queues PROVE Balance(q) /\ Contents(q)
  <2>1. ASSUME NEW L, "out" \notin L PROVE In(L, q) = {} /\ N(L, q) = 0
    <3>1. In(L, q) = {}
      BY <2>1 DEF QInit, In
    <3> QED  BY <3>1, FS_EmptySet DEF N
  <2>2. In({"store"}, q) = {} /\ In({"fetch"}, q) = {}
    BY <2>1
  <2>3. N(Busy, q) = 0 /\ N(Ahead, q) = 0
    BY <2>1 DEF Busy, Ahead
  <2>4. /\ log[q] = <<>> /\ out[q] = <<>> /\ rd[q] = 0 /\ wr[q] = 0
        /\ notfull[q] = Sz /\ notempty[q] = 0
    BY DEF QInit
  <2>5. W(q) = 0 /\ R(q) = 0
    BY <2>2, <2>4 DEF W, R
  <2>6. Balance(q)
    BY <1>1, <2>3, <2>4, <2>5, SMTT(60) DEF Balance
  <2>7. Slot(q, W(q)) = 0
    BY <1>1, <2>4, <2>5, SMTT(60) DEF Slot
  <2> QED  BY <2>2, <2>4, <2>5, <2>6, <2>7, SMTT(60) DEF Contents
<1> QED  BY <1>2, <1>3, <1>4 DEF QInv

(* Every step of every thread keeps the invariant. *)
LEMMA QInvStep == QInv /\ [QNext]_syncq => QInv'
<1>1. ASSUME QInv, NEW t \in Threads, QCall(t) \/ QStep(t) PROVE QInv'
  <2>1. Types' /\ Mutex'
    BY <1>1, TypesStep, MutexStep
  <2>2. ASSUME NEW q \in Queues PROVE Balance(q)' /\ Contents(q)'
    <3>1. CASE QCall(t) \/ Lock(t) \/ Unlock(t) \/ Wake(t)
      BY <1>1, <3>1, IdleStep
    <3>2. CASE WaitNotFull(t) \/ WaitNotEmpty(t) \/ Post(t)
      BY <1>1, <3>2, TokenStep
    <3>3. CASE AdvanceWr(t)
      BY <1>1, <3>3, OtherQueue, AdvanceWrStep
    <3>4. CASE Store(t)
      BY <1>1, <3>4, OtherQueue, StoreStep
    <3>5. CASE AdvanceRd(t)
      BY <1>1, <3>5, OtherQueue, AdvanceRdStep
    <3>6. CASE Fetch(t)
      BY <1>1, <3>6, OtherQueue, FetchStep
    <3> QED  BY <1>1, <3>1, <3>2, <3>3, <3>4, <3>5, <3>6 DEF QStep
  <2> QED  BY <2>1, <2>2 DEF QInv
<1>2. ASSUME QInv, UNCHANGED syncq PROVE QInv'
  <2>1. \A L, q : In(L, q)' = In(L, q) /\ N(L, q)' = N(L, q)
    BY <1>2 DEF syncq, In, N
  <2>2. Types' /\ Mutex'
    BY <1>2 DEF QInv, syncq, Types, Mutex
  <2>3. ASSUME NEW q \in Queues PROVE Balance(q)' /\ Contents(q)'
    BY <1>2, <2>1, Same DEF QInv, syncq
  <2> QED  BY <2>2, <2>3 DEF QInv
<1> QED  BY <1>1, <1>2 DEF QNext

(* The invariant holds in every reachable state. *)
LEMMA QInvariance == QSpec => []QInv
  BY QInvInit, QInvStep, PTL DEF QSpec

-----------------------------------------------------------------------------
(* Whatever the threads do, no index leaves the ring and no semaphore       *)
(* exceeds the number of slots.                                             *)
THEOREM QTypeCorrect == QSpec => []QTypeOK
<1>1. QInv => QTypeOK
  <2> SUFFICES ASSUME QInv PROVE QTypeOK
    OBVIOUS
  <2>1. ASSUME NEW q \in Queues PROVE notempty[q] \in 0 .. Sz /\ notfull[q] \in 0 .. Sz
    <3>0. Types /\ Balance(q)
      BY DEF QInv
    <3>1. PICK f, n, b, a, w, r \in Nat :
           /\ f = notfull[q] /\ n = notempty[q] /\ w = W(q) /\ r = R(q)
           /\ b = N(Busy, q) /\ a = N(Ahead, q) /\ a <= b
           /\ f + b + n = Sz /\ w - r = a + n
      BY <3>0, Numbers
    <3>2. f <= Sz /\ n <= Sz /\ Sz \in Nat
      BY <3>1, SyncQAssumption, SMTT(60)
    <3>3. f \in 0 .. Sz /\ n \in 0 .. Sz
      BY <3>2, SMTT(60)
    <3>4. f = notfull[q] /\ n = notempty[q]
      BY <3>1
    <3> QED  BY <3>3, <3>4
  <2>2. DOMAIN notempty = Queues /\ DOMAIN notfull = Queues
    BY DEF QInv, Types
  <2>3. notempty \in [Queues -> 0 .. Sz] /\ notfull \in [Queues -> 0 .. Sz]
    BY <2>1, <2>2 DEF QInv, Types
  <2> QED  BY <2>3 DEF QInv, Types, QTypeOK
<1> QED  BY <1>1, QInvariance, PTL

(* SYNCQ_ENQ and SYNCQ_DEQ hold the mutex of the queue whose ring they      *)
(* touch, so no two threads are between lock and unlock of one queue.       *)
THEOREM QMutualExclusion == QSpec => []Mutex
  BY QInvariance, PTL DEF QInv
-----------------------------------------------------------------------------
(* What a user of the queue sees of a step inside an operation.            *)
LEMMA InsideStep ==
  ASSUME QInv, NEW t \in Threads, QStep(t)
  PROVE  Seen(t)
<1>1. CASE Store(t)
  BY <1>1 DEF Store, Bringing, Seen
<1>2. CASE Fetch(t)
  <2>1. on[t] \in Queues /\ t \in In({"fetch"}, on[t])
    BY <1>2 DEF Fetch, QInv, Types, In
  <2>2. R(on[t]) = Len(out[on[t]]) + 1
    BY <2>1 DEF R
  <2>3. /\ Len(out[on[t]]) + 1 <= Len(log[on[t]])
        /\ e[on[t]][ix[t]] = log[on[t]][Len(out[on[t]]) + 1]
    BY <2>1, <2>2 DEF QInv, Contents
  <2>4. Len(out[on[t]]) \in Nat /\ Len(log[on[t]]) \in Nat
    BY <2>1, SMTT(60) DEF QInv, Types
  <2>5. Len(out[on[t]]) + 1 \in 1 .. Len(log[on[t]])
    BY <2>3, <2>4, SMTT(60)
  <2>6. pc[t] = "fetch" /\ pc[t] \in Asking
    BY <1>2 DEF Fetch, Asking
  <2> QED  BY <1>2, <2>3, <2>5, <2>6 DEF Fetch, Set, ring, Seen
<1>3. CASE WaitNotFull(t) \/ WaitNotEmpty(t)
  BY <1>3 DEF WaitNotFull, WaitNotEmpty, hist, Quietly, Seen, Bringing, Asking
<1>4. CASE Lock(t)
  BY <1>4 DEF Lock, hist, Quietly, Seen, Bringing, Asking
<1>5. CASE AdvanceWr(t) \/ AdvanceRd(t)
  BY <1>5 DEF AdvanceWr, AdvanceRd, hist, Quietly, Seen, Bringing, Asking
<1>6. CASE Unlock(t)
  BY <1>6 DEF Unlock, hist, Quietly, Seen, Brought, Handed
<1>7. CASE Post(t) \/ Wake(t)
  BY <1>7 DEF Post, Wake, hist, Quietly, Seen, Brought, Handed, Leaving
<1> QED  BY <1>1, <1>2, <1>3, <1>4, <1>5, <1>6, <1>7 DEF QStep

-----------------------------------------------------------------------------
(* A thread that holds a queue's mutex and is not about to release it, is  *)
(* the only one past Store: every stored element but its own is published. *)
LEMMA StoredIs ==
  ASSUME QInv, NEW t \in Threads, pc[t] \in Held
  PROVE  Stored(on[t]) = IF pc[t] = "enqunlock" THEN Len(log[on[t]]) - 1 ELSE Len(log[on[t]])
<1>1. \A u \in Threads : on[u] = on[t] /\ pc[u] = "enqunlock" => u = t
  BY OnlyHolder DEF QInv, Held
<1> QED  BY <1>1 DEF Stored

(* A step that does not store, fetch or release after a store is not seen  *)
(* from outside the queue.                                                 *)
LEMMA Unseen ==
  ASSUME NEW q \in Queues, log'[q] = log[q], out'[q] = out[q],
         In({"enqunlock"}, q)' = In({"enqunlock"}, q)
  PROVE  UNCHANGED Fifo(q)!fifo
<1>1. Stored(q)' = Stored(q)
  BY DEF Stored, In
<1> QED  BY <1>1 DEF Fifo!fifo

(* Store accepts an element. *)
LEMMA StoreAccepts ==
  ASSUME QInv, NEW t \in Threads, NEW q \in Queues, on[t] = q, Store(t)
  PROVE  Fifo(q)!Next
<1>1. /\ pc[t] = "store" /\ Goto(t, "enqunlock") /\ UNCHANGED <<on, out>> /\ val[t] \in Value
      /\ log'[q] = Append(log[q], val[t]) /\ log[q] \in Seq(Value)
  BY DEF Store, QInv, Types
<1>2. Stored(q) = Len(log[q])
  BY <1>1, StoredIs DEF Held
<1>3. pc'[t] = "enqunlock" /\ on'[t] = q
  BY <1>1 DEF Goto, QInv, Types
<1>4. Stored(q)' = Len(log'[q]) - 1
  BY <1>3 DEF Stored
<1>5. Stored(q)' = Stored(q)
  BY <1>1, <1>2, <1>4, SMTT(60)
<1>6. Fifo(q)!Accept(val[t])
  BY <1>1, <1>5 DEF Fifo!Accept
<1> QED  BY <1>1, <1>6 DEF Fifo!Next

(* The unlock of SYNCQ_ENQ publishes it; its slot is vacant. *)
LEMMA UnlockPublishes ==
  ASSUME QInv, NEW t \in Threads, NEW q \in Queues, on[t] = q, Unlock(t), pc[t] = "enqunlock"
  PROVE  Fifo(q)!Next
<1>1. /\ Goto(t, "postfull") /\ UNCHANGED <<on, out, log>> /\ log[q] \in Seq(Value) /\ pc[t] \in Held
      /\ DOMAIN pc = Threads /\ Types /\ Balance(q) /\ Contents(q) /\ Mutex
  BY DEF Unlock, hist, QInv, Types, Held
<1>2. In({"store"}, q) = {} /\ In({"fetch"}, q) = {}
  BY <1>1, Alone
<1>3. PICK w, r \in Nat : w = Len(log[q]) /\ r = Len(out[q]) /\ w - r <= Sz /\ r < w /\ Sz \in Nat
  <2>1. W(q) = Len(log[q]) /\ R(q) = Len(out[q])
    BY <1>2 DEF W, R
  <2>2. t \in In(Ahead, q)
    BY DEF In, Ahead
  <2> QED  BY <1>1, <2>1, <2>2, Apart, SyncQAssumption
<1>4. Stored(q) = w - 1
  BY <1>1, <1>3, StoredIs
<1>5. Stored(q)' = w
  <2>1. \A u \in Threads : on[u] = q /\ pc[u] = "enqunlock" => u = t
    BY <1>1, OnlyHolder DEF Held
  <2>2. \A u \in Threads : ~(on'[u] = q /\ pc'[u] = "enqunlock")
    BY <1>1, <2>1 DEF Goto
  <2> QED  BY <1>1, <1>3, <2>2 DEF Stored
<1>6. w > 0
  BY <1>3, SMTT(60)
<1>7. PICK k \in 0 .. Len(log[q]) : k = w - 1
  <2>1. w - 1 \in 0 .. w
    BY <1>6, SMTT(60)
  <2> QED  BY <1>3, <2>1, Zenon
<1>8. 0 .. w - 1 = (0 .. (w - 1) - 1) \cup {k}
  BY <1>6, <1>7, SMTT(60)
<1>9. k >= Sz => k - Sz \in 0 .. r - 1
  BY <1>3, <1>6, <1>7, SMTT(60)
<1>10. k < w /\ k \notin 0 .. (w - 1) - 1
  BY <1>6, <1>7, SMTT(60)
<1>11. Fifo(q)!Publish(k)
  BY <1>1, <1>3, <1>4, <1>5, <1>8, <1>9, <1>10 DEF Fifo!Publish
<1> QED  BY <1>7, <1>11 DEF Fifo!Next

(* Fetch delivers the oldest element that has not left. *)
LEMMA FetchDelivers ==
  ASSUME QInv, NEW t \in Threads, NEW q \in Queues, on[t] = q, Fetch(t)
  PROVE  Fifo(q)!Next
<1>1. /\ pc[t] = "fetch" /\ Goto(t, "dequnlock") /\ UNCHANGED <<on, log>> /\ out[q] \in Seq(Value)
      /\ out'[q] = Append(out[q], e[q][ix[t]]) /\ Types /\ Contents(q) /\ pc[t] \in Held
  BY DEF Fetch, QInv, Types, Held
<1>2. /\ Len(out[q]) \in Nat /\ Len(log[q]) \in Nat /\ Len(out[q]) < Len(log[q])
      /\ e[q][ix[t]] = log[q][Len(out[q]) + 1] /\ e[q][ix[t]] \in Value
  BY <1>1, Fetched
<1>3. Stored(q) = Len(log[q])
  BY <1>1, StoredIs
<1>4. Stored(q)' = Stored(q)
  <2>1. pc[t] \in {"enqunlock"} <=> "dequnlock" \in {"enqunlock"}
    BY <1>1
  <2>2. In({"enqunlock"}, q)' = In({"enqunlock"}, q)
    BY <1>1, <2>1, Stays, SMTT(60)
  <2> QED  BY <1>1, <2>2 DEF Stored, In
<1>5. PICK n \in 0 .. Len(log[q]) : n = Len(out[q]) /\ n \in Nat /\ n < Len(log[q])
  BY <1>2, SMTT(60)
<1>6. /\ Len(out'[q]) = n + 1 /\ out'[q][n + 1] = log[q][n + 1]
      /\ \A k \in 1 .. n : out'[q][k] = out[q][k]
  BY <1>1, <1>2, <1>5, AppendIs, SMTT(60)
<1>7. 0 .. Len(out'[q]) - 1 = (0 .. n - 1) \cup {n}
  BY <1>5, <1>6, SMTT(60)
<1>8. [u \in 0 .. Len(out'[q]) - 1 |-> out'[q][u + 1]]
        = [u \in (0 .. n - 1) \cup {n} |->
             IF u = n THEN log[q][n + 1] ELSE [j \in 0 .. Len(out[q]) - 1 |-> out[q][j + 1]][u]]
  BY <1>5, <1>6, <1>7, SMTT(60)
<1>9. n \in 0 .. Stored(q) - 1 /\ n \notin 0 .. Len(out[q]) - 1
  BY <1>2, <1>3, <1>5, SMTT(60)
<1>10. Fifo(q)!Deliver(n)
  BY <1>1, <1>4, <1>5, <1>8, <1>9, Zenon DEF Fifo!Deliver
<1> QED  BY <1>5, <1>10 DEF Fifo!Next

(* Seen from outside, a step is one step of one queue. *)
LEMMA QueueSteps ==
  ASSUME QInv, NEW t \in Threads, QCall(t) \/ QStep(t), NEW q \in Queues
  PROVE  Fifo(q)!Next \/ UNCHANGED Fifo(q)!fifo
<1>1. Types
  BY DEF QInv
<1>2. CASE QCall(t)
  <2>1. In({"enqunlock"}, q)' = In({"enqunlock"}, q)
    BY <1>1, <1>2, InCall
  <2>2. UNCHANGED <<log, out>>
    BY <1>2 DEF QCall, EnqCall, DeqCall, hist
  <2> QED  BY <2>1, <2>2, Unseen
<1>3. CASE Store(t) /\ on[t] = q
  BY <1>3, StoreAccepts
<1>4. CASE Unlock(t) /\ on[t] = q /\ pc[t] = "enqunlock"
  BY <1>4, UnlockPublishes
<1>5. CASE Fetch(t) /\ on[t] = q
  BY <1>5, FetchDelivers
<1>6. CASE QStep(t) /\ ~(on[t] = q /\ (Store(t) \/ Fetch(t) \/ (Unlock(t) /\ pc[t] = "enqunlock")))
  <2>1. UNCHANGED on /\ log'[q] = log[q] /\ out'[q] = out[q]
    <3>1. CASE Store(t) \/ Fetch(t)
      BY <1>1, <1>6, <3>1 DEF Store, Fetch, Types
    <3>2. CASE ~(Store(t) \/ Fetch(t))
      BY <1>6, <3>2 DEF QStep, WaitNotFull, WaitNotEmpty, Lock, AdvanceWr, AdvanceRd, Unlock, Post, Wake, hist
    <3> QED  BY <3>1, <3>2
  <2>2. \E l : Goto(t, l) /\ (on[t] = q => (pc[t] = "enqunlock" <=> l = "enqunlock"))
    <3>1. CASE Store(t)
      BY <1>6, <3>1 DEF Store
    <3>2. CASE Unlock(t)
      BY <1>6, <3>2, SMTT(60) DEF Unlock
    <3>3. CASE Lock(t)
      BY <3>3, SMTT(60) DEF Lock
    <3>4. CASE WaitNotFull(t) \/ WaitNotEmpty(t)
      BY <3>4, SMTT(60) DEF WaitNotFull, WaitNotEmpty
    <3>5. CASE AdvanceWr(t) \/ AdvanceRd(t)
      BY <3>5, SMTT(60) DEF AdvanceWr, AdvanceRd
    <3>6. CASE Fetch(t)
      BY <3>6, SMTT(60) DEF Fetch
    <3>7. CASE Post(t) \/ Wake(t)
      BY <3>7, SMTT(60) DEF Post, Wake
    <3> QED  BY <1>6, <3>1, <3>2, <3>3, <3>4, <3>5, <3>6, <3>7 DEF QStep
  <2>3. PICK l : Goto(t, l) /\ (on[t] = q => (pc[t] \in {"enqunlock"} <=> l \in {"enqunlock"}))
    BY <2>2
  <2>4. In({"enqunlock"}, q)' = In({"enqunlock"}, q)
    BY <1>1, <2>1, <2>3, Stays, SMTT(60)
  <2> QED  BY <2>1, <2>4, Unseen
<1> QED  BY <1>2, <1>3, <1>4, <1>5, <1>6

(* Every queue is a FIFO of Sz places, for any number of threads, queues    *)
(* and slots: what SYNCQ_ENQ stored leaves once, in order, and is not       *)
(* overwritten before it was fetched.                                       *)
THEOREM QImplementsFifo == QSpec => FifoSpec
<1>1. QInit => \A q \in Queues : Fifo(q)!Init
  <2> SUFFICES ASSUME QInit, NEW q \in Queues PROVE Fifo(q)!Init
    OBVIOUS
  <2>1. log[q] = <<>> /\ out[q] = <<>> /\ Stored(q) = 0
    BY DEF QInit, Stored
  <2>2. 0 .. Stored(q) - 1 = {} /\ [u \in 0 .. Len(out[q]) - 1 |-> out[q][u + 1]] = [u \in {} |-> 0]
    BY <2>1, SMTT(60)
  <2> QED  BY <2>1, <2>2 DEF Fifo!Init
<1>2. QInv /\ [QNext]_syncq => [\A q \in Queues : Fifo(q)!Next \/ UNCHANGED Fifo(q)!fifo]_syncq
  <2> SUFFICES ASSUME QInv, QNext PROVE \A q \in Queues : Fifo(q)!Next \/ UNCHANGED Fifo(q)!fifo
    OBVIOUS
  <2>1. PICK t \in Threads : QCall(t) \/ QStep(t)
    BY DEF QNext
  <2> QED  BY <2>1, QueueSteps
<1> QED  BY <1>1, <1>2, QInvariance, PTL DEF QSpec, FifoSpec
-----------------------------------------------------------------------------
(* To a program that uses them the queues are as SyncQ says: what came out *)
(* is what went in, in order, and a step inside an operation changes       *)
(* nothing else that the program sees.                                     *)
THEOREM QServes == QSpec => []InOrder /\ [][\A t \in Threads : QStep(t) => Seen(t)]_syncq
<1>1. QInv => \A t \in Threads : pc[t] \in Bringing => val[t] \in Value
  BY DEF QInv, Types, Bringing
<1>2. QInv => \A q \in Queues : \A k \in 1 .. Len(out[q]) : k <= Len(log[q]) /\ out[q][k] = log[q][k]
  <2> SUFFICES ASSUME QInv, NEW q \in Queues, NEW k \in 1 .. Len(out[q]) PROVE k <= Len(log[q]) /\ out[q][k] = log[q][k]
    OBVIOUS
  <2>1. Len(out[q]) \in Nat /\ Len(log[q]) \in Nat /\ R(q) <= Len(log[q]) /\ out[q][k] = log[q][k]
    BY SMTT(60) DEF QInv, Types, Contents
  <2>2. Len(out[q]) <= R(q) /\ R(q) \in Nat
    BY <2>1, SMTT(60) DEF R
  <2> QED  BY <2>1, <2>2, SMTT(60)
<1>3. QInv /\ QTypeOK => InOrder
  BY <1>1, <1>2 DEF InOrder
<1>4. QInv => [\A t \in Threads : QStep(t) => Seen(t)]_syncq
  BY InsideStep
<1> QED  BY <1>3, <1>4, QInvariance, QTypeCorrect, PTL
-----------------------------------------------------------------------------
(* A step inside a queue operation: the thread was in one. *)
LEMMA QStepMoves ==
  ASSUME NEW t \in Threads, QStep(t)
  PROVE  pc[t] # "out" /\ \E l : Goto(t, l)
<1>1. CASE WaitNotFull(t) \/ WaitNotEmpty(t)
  BY <1>1 DEF WaitNotFull, WaitNotEmpty
<1>2. CASE Lock(t) \/ Unlock(t)
  BY <1>2 DEF Lock, Unlock
<1>3. CASE AdvanceWr(t) \/ AdvanceRd(t)
  BY <1>3 DEF AdvanceWr, AdvanceRd
<1>4. CASE Store(t) \/ Fetch(t)
  BY <1>4 DEF Store, Fetch
<1>5. CASE Post(t) \/ Wake(t)
  BY <1>5 DEF Post, Wake
<1> QED  BY <1>1, <1>2, <1>3, <1>4, <1>5 DEF QStep

(* What occurs in a sequence when an element is put behind it. *)
Occurs(x, s) == \E a \in 1 .. Len(s) : s[a] = x
(* What was there, or the new element.                                     *)
LEMMA OccursAppend ==
  ASSUME NEW S, NEW s \in Seq(S), NEW v \in S, NEW x
  PROVE  Occurs(x, Append(s, v)) <=> Occurs(x, s) \/ x = v
<1>1. /\ Len(s) \in Nat /\ Len(Append(s, v)) = Len(s) + 1 /\ Append(s, v)[Len(s) + 1] = v
      /\ \A k \in 1 .. Len(s) : Append(s, v)[k] = s[k]
  BY SMTT(60)
<1>2. 1 .. Len(s) + 1 = (1 .. Len(s)) \cup {Len(s) + 1}
  BY <1>1, SMTT(60)
<1> QED  BY <1>1, <1>2 DEF Occurs
=============================================================================
