------------------------- MODULE HashtabLocksProofs -------------------------
(***************************************************************************)
(* Proofs about the locking of the hash table, for any finite sets of      *)
(* threads and keys, any hash, size and calls: locks are left behind by    *)
(* error returns only, however the table is used; and under the usage for  *)
(* which the table is right (Careful) nothing is lost.                     *)
(***************************************************************************)
EXTENDS HashtabLocks, FiniteSetTheorems, TLAPS

(* A leaf goes to Zenon first, and to the SMT solver when Zenon does not   *)
(* find its proof.                                                         *)
USE ZenonT(20), SMTT(60)

Places == {"out", "lock", "insert", "lookup", "remove", "fillread", "fillwrite", "unlock",
           "statlock", "stat", "move", "statunlock", "walklock", "relock", "walk"}
AtBucket == {"lock", "insert", "lookup", "remove", "fillread", "fillwrite", "unlock",
             "statlock", "stat"}
Slot(k, n) == Hash[k] % n

(* Types; a thread's place goes with its operation.                        *)
LTypes ==
  /\ use \in DOMAIN Usage /\ locker = Usage[use].locker /\ gen \in Nat /\ size \in Nat \ {0}
  /\ pc \in [Threads -> Places] /\ key \in [Threads -> Keys] /\ calls \in [Threads -> Nat]
  /\ op \in [Threads -> {"none", "insert", "lookup", "remove", "removeif", "apply", "sorted"}]
  /\ i \in [Threads -> Nat] /\ f \in [Threads -> Int] /\ b \in [Threads -> Nat \X Nat]
  /\ inserted \subseteq Keys
Going ==
  \A t \in Threads :
    /\ pc[t] = "lock" => op[t] \in {"insert", "lookup", "remove"}
    /\ pc[t] \in {"insert", "statlock", "stat", "move", "statunlock"} => op[t] = "insert"
    /\ pc[t] = "lookup" => op[t] = "lookup"
    /\ pc[t] \in {"remove", "fillread", "fillwrite"} => op[t] \in {"remove", "removeif"}
    /\ pc[t] = "unlock" => op[t] \in {"insert", "lookup", "remove", "removeif"}
    /\ pc[t] \in {"walklock", "walk"} => op[t] \in {"removeif", "apply", "sorted"}
    /\ pc[t] = "relock" => op[t] = "sorted"
    /\ pc[t] # "out" => key[t] \in KeysOf(t)

(* Which bucket a thread is at.                                            *)
AtHome ==
  \A t \in Threads : pc[t] \in AtBucket =>
    /\ b[t][1] = gen /\ b[t][2] \in Indices(size)
    /\ op[t] # "removeif" => b[t][2] = Slot(key[t], size)

(* With mutexes nobody removes or resizes, and what is to be inserted is   *)
(* not there; without them there is one thread.                            *)
Modes ==
  /\ locker = "mutex" => \A t \in Threads :
       /\ op[t] \in {"none", "insert", "lookup", "apply"}
       /\ pc[t] # "move"
       /\ pc[t] \in {"lock", "insert"} /\ op[t] = "insert" => key[t] \notin inserted
  /\ locker = "null" =>
       /\ tablock = NoThread /\ \A n \in DOMAIN mutex : mutex[n] = NoThread
       /\ \A t, u \in Threads : calls[t] # 0 /\ calls[u] # 0 => t = u
       /\ \A t \in Threads : pc[t] # "out" => calls[t] # 0

(* A lock is held where the code holds it.                                 *)
LocksHeld ==
  /\ DOMAIN mutex = Indices(size)
  /\ \A t \in Threads :
       /\ tablock = t => pc[t] \in {"stat", "statunlock", "walk"}
       /\ \A n \in DOMAIN mutex : mutex[n] = t => pc[t] \in {"insert", "lookup", "unlock"} /\ b[t][2] = n

(* Threads that put a node into bucket n and have not counted it yet;      *)
(* buckets counted as filled, and threads that have yet to take one off.   *)
Late(n) == {t \in Threads : op[t] = "insert" /\ pc[t] \in {"unlock", "statlock", "stat"} /\ b[t][2] = n}
Filled == {n \in Indices(size) : count[gen][n] # 0}
Emptying == {t \in Threads : pc[t] \in {"fillread", "fillwrite"}}

Content ==
  /\ DOMAIN chain = 0 .. gen /\ DOMAIN count = 0 .. gen
  /\ chain[gen] \in [Indices(size) -> SUBSET Keys] /\ count[gen] \in [Indices(size) -> Nat]
  /\ \A k \in Keys : k \in inserted <=> k \in chain[gen][Slot(k, size)]
  /\ \A n \in Indices(size) : \A k \in chain[gen][n] : Slot(k, size) = n
  /\ \A n \in Indices(size) : count[gen][n] + Cardinality(Late(n)) = Cardinality(chain[gen][n])
  /\ fill \in Int /\ fill = Cardinality(Filled) + Cardinality(Emptying)
  /\ \A t \in Threads : pc[t] = "fillwrite" => f[t] = fill
  /\ failed = FALSE

(* What a resize has moved so far.                                         *)
Moving ==
  \A t \in Threads : pc[t] = "move" =>
    /\ i[t] \in 0 .. size
    /\ moved = [n \in Indices(2 * size) |->
                  {k \in inserted : Slot(k, size) < i[t] /\ Slot(k, 2 * size) = n}]

LInv == LTypes /\ Going /\ AtHome /\ Modes /\ LocksHeld /\ Content /\ Moving

-----------------------------------------------------------------------------
(* The bucket of a key is a bucket.                                        *)
LEMMA SlotIsBucket ==
  ASSUME NEW k \in Keys, NEW n \in Nat \ {0}
  PROVE  Slot(k, n) \in Indices(n) /\ Slot(k, n) \in Nat
<1>1. Hash[k] \in Nat  BY LocksAssumption
<1>2. \A h \in Nat : h % n \in 0 .. n - 1  BY Z3T(30)
<1> QED BY <1>1, <1>2, SMTT(60) DEF Slot, Indices

(* There are as many buckets as the table's size says.                     *)
LEMMA Buckets ==
  ASSUME NEW n \in Nat \ {0}
  PROVE  IsFiniteSet(Indices(n)) /\ Cardinality(Indices(n)) = n
<1>1. 0 \in Int /\ n - 1 \in Int  BY SMTT(60)
<1>2. IsFiniteSet(0 .. n - 1) /\ Cardinality(0 .. n - 1) = IF 0 > n - 1 THEN 0 ELSE n - 1 - 0 + 1
  BY <1>1, FS_Interval
<1>3. (IF 0 > n - 1 THEN 0 ELSE n - 1 - 0 + 1) = n  BY SMTT(60)
<1> QED BY <1>2, <1>3 DEF Indices

(* Exchanging one value of a function.                                     *)
LEMMA Exchanged ==
  ASSUME NEW D, NEW R, NEW g \in [D -> R], NEW s \in D, NEW v \in R
  PROVE  /\ [g EXCEPT ![s] = v] \in [D -> R] /\ [g EXCEPT ![s] = v][s] = v
         /\ \A n \in D : n # s => [g EXCEPT ![s] = v][n] = g[n]
OBVIOUS

(* Who is late is counted: what one count loses the other gains.           *)
LEMMA CountedLate ==
  ASSUME NEW x \in Nat, NEW y \in Nat
  PROVE  (x + 1) + (y - 1) = x + y
BY SMTT(60)

(* A bucket that loses as many as it has is left with none.                *)
LEMMA AllGone ==
  ASSUME NEW x \in Nat, NEW y \in Nat, y <= x, x \in 1 .. y
  PROVE  x = y /\ x # 0 /\ x - y = 0
BY SMTT(60)

(* A count is what it is, and an integer, with nothing to add.             *)
LEMMA NothingMore ==
  ASSUME NEW x \in Nat
  PROVE  x \in Int /\ x = x + 0
BY SMTT(60)

(* The actions of a thread.                                                *)
Action(t) ==
  \/ Call(t) \/ Lock(t) \/ Insert(t) \/ Lookup(t) \/ Remove(t) \/ FillRead(t) \/ FillWrite(t)
  \/ Unlock(t) \/ StatLock(t) \/ Stat(t) \/ Move(t) \/ Swap(t) \/ StatUnlock(t)
  \/ WalkLock(t) \/ Relock(t) \/ Walk(t) \/ WalkRemove(t) \/ WalkUnlock(t)
(* A step is one action of one thread and leaves usage and locker alone.   *)
LEMMA OneAction ==
  ASSUME Next
  PROVE  use' = use /\ locker' = locker /\ \E t \in Threads : Action(t)
BY DEF Next, Step, Action

-----------------------------------------------------------------------------
(* Locks, however the table is used *)
WithBucket == {"insert", "lookup", "remove", "fillread", "fillwrite", "unlock"}
OpNamed == {"none", "insert", "lookup", "remove", "removeif", "apply", "sorted"}
UTypes ==
  /\ pc \in [Threads -> Places] /\ op \in [Threads -> OpNamed] /\ b = [t \in Threads |-> b[t]]
  /\ use \in DOMAIN Usage /\ size \in Nat /\ DOMAIN mutex = Indices(size)

(* Where thread t may hold the table lock, or the lock of bucket n; a      *)
(* table without locks has none held.                                      *)
MayTable(t) ==
  \/ pc[t] \in {"stat", "move", "statunlock", "relock", "walk"}
  \/ op[t] = "removeif" /\ pc[t] \in {"remove", "fillread", "fillwrite", "unlock"}
MayBucket(t, n) == (pc[t] \in WithBucket /\ b[t][2] = n) \/ <<t, n>> \in leaked
Holder(t) ==
  /\ pc[t] = "lock" => op[t] \in {"insert", "lookup", "remove"}
  /\ tablock = t => MayTable(t)
  /\ \A n \in Indices(size) : mutex[n] = t => MayBucket(t, n)
Unlocked == locker = "null" => tablock = NoThread /\ \A n \in Indices(size) : mutex[n] = NoThread
UInv == UTypes /\ Unlocked /\ \A t \in Threads : Holder(t)

(* A step of t, that gives no lock to another thread, is looked at for t.  *)
USame(u) ==
  /\ pc'[u] = pc[u] /\ op'[u] = op[u] /\ b'[u] = b[u] /\ (tablock' = u => tablock = u)
  /\ \A n \in Indices(size') : mutex'[n] = u => n \in Indices(size) /\ mutex[n] = u
LEMMA UOne ==
  ASSUME UInv, NEW t \in Threads, UTypes', Unlocked', leaked \subseteq leaked',
         \A u \in Threads : u # t => USame(u), Holder(t)'
  PROVE  UInv'
<1>1. ASSUME NEW u \in Threads, u # t  PROVE Holder(u)'
  <2>1. Holder(u) /\ USame(u)  BY <1>1 DEF UInv
  <2> QED BY <2>1 DEF Holder, USame, MayTable, MayBucket
<1> QED BY <1>1 DEF UInv

(* The places from which a thread goes on with the locks it has.           *)
LEMMA UQuiet ==
  ASSUME UInv, NEW t \in Threads, NEW l \in Places, pc' = [pc EXCEPT ![t] = l],
         UNCHANGED <<use, locker, size, mutex, tablock, op, b, leaked>>,
         l # "lock", pc[t] \in WithBucket => l \in WithBucket, MayTable(t) => MayTable(t)'
  PROVE  UInv'
<1>1. UTypes'  BY DEF UInv, UTypes
<1>2. pc'[t] = l /\ \A u \in Threads : u # t => pc'[u] = pc[u]  BY DEF UInv, UTypes
<1>3. Unlocked'  BY DEF UInv, Unlocked
<1>4. \A u \in Threads : u # t => USame(u)  BY <1>2 DEF USame
<1>5. Holder(t)'
  <2>1. Holder(t)  BY DEF UInv
  <2>2. \A n : MayBucket(t, n) => MayBucket(t, n)'  BY <1>2 DEF MayBucket
  <2> QED BY <1>2, <2>1, <2>2 DEF Holder
<1> QED BY <1>1, <1>3, <1>4, <1>5, UOne

(* A thread takes the lock of a bucket, or gives it back.                  *)
LEMMA UBucket ==
  ASSUME UInv, NEW t \in Threads, NEW l \in Places, pc' = [pc EXCEPT ![t] = l],
         UNCHANGED <<use, locker, size, tablock, op, leaked>>, UTypes',
         NEW n, b'[t][2] = n, \A u \in Threads : u # t => b'[u] = b[u],
         l # "lock", MayTable(t) => MayTable(t)',
         \/ pc[t] \notin WithBucket /\ l \in WithBucket /\ LockB(t, n)
         \/ n = b[t][2] /\ UnlockB(n)
  PROVE  UInv'
<1>1. pc'[t] = l /\ \A u \in Threads : u # t => pc'[u] = pc[u]  BY DEF UInv, UTypes
<1>2. NoThread \notin Threads  BY LocksAssumption
<1>3. \/ locker = "null" /\ mutex' = mutex
      \/ /\ pc[t] \notin WithBucket /\ l \in WithBucket /\ locker # "null"
         /\ mutex' = [mutex EXCEPT ![n] = t]
      \/ n = b[t][2] /\ locker # "null" /\ mutex' = [mutex EXCEPT ![n] = NoThread]
  BY DEF LockB, UnlockB
<1>4. Unlocked'  BY <1>3 DEF UInv, Unlocked
<1>5. \A m \in Indices(size) : \/ mutex'[m] = mutex[m]
                               \/ m = n /\ mutex'[m] \in {t, NoThread}
  BY <1>3 DEF UInv, UTypes
<1>6. \A u \in Threads : u # t => USame(u)  BY <1>1, <1>2, <1>5 DEF USame
<1>7. Holder(t)'
  <2>1. Holder(t)  BY DEF UInv
  <2>2. ASSUME NEW m \in Indices(size), mutex'[m] = t  PROVE MayBucket(t, m)'
    <3>1. CASE locker = "null"  BY <1>2, <1>3, <2>2, <3>1 DEF UInv, Unlocked
    <3>2. CASE /\ pc[t] \notin WithBucket /\ l \in WithBucket
               /\ mutex' = [mutex EXCEPT ![n] = t]
      <4>1. CASE m = n  BY <1>1, <3>2, <4>1 DEF MayBucket
      <4>2. CASE m # n
        <5>1. mutex[m] = t  BY <2>2, <3>2, <4>2, SMTT(60)
        <5> QED BY <2>1, <3>2, <5>1 DEF Holder, MayBucket
      <4> QED BY <4>1, <4>2
    <3>3. CASE n = b[t][2] /\ mutex' = [mutex EXCEPT ![n] = NoThread]
      <4>1. m # n /\ mutex[m] = t  BY <1>2, <2>2, <3>3 DEF UInv, UTypes
      <4> QED BY <2>1, <3>3, <4>1 DEF Holder, MayBucket
    <3> QED BY <1>3, <3>1, <3>2, <3>3
  <2> QED BY <1>1, <2>1, <2>2 DEF Holder
<1> QED BY <1>4, <1>6, <1>7, UOne

(* A thread without a bucket takes the table lock, or gives it back.       *)
LEMMA UTable ==
  ASSUME UInv, NEW t \in Threads, NEW l \in Places, pc' = [pc EXCEPT ![t] = l],
         UNCHANGED <<use, locker, size, mutex, op, b, leaked>>,
         pc[t] \notin WithBucket, l # "lock",
         (LockT(t) /\ MayTable(t)') \/ UnlockT
  PROVE  UInv'
<1>1. UTypes'  BY DEF UInv, UTypes
<1>2. pc'[t] = l /\ \A u \in Threads : u # t => pc'[u] = pc[u]  BY DEF UInv, UTypes
<1>3. NoThread \notin Threads  BY LocksAssumption
<1>4. \/ locker = "null" /\ tablock' = tablock
      \/ locker # "null" /\ tablock' = t /\ MayTable(t)'
      \/ locker # "null" /\ tablock' = NoThread
  BY DEF LockT, UnlockT
<1>5. Unlocked'  BY <1>4 DEF UInv, Unlocked
<1>6. \A u \in Threads : u # t => USame(u)  BY <1>2, <1>3, <1>4 DEF USame
<1>7. Holder(t)'
  <2>1. Holder(t)  BY DEF UInv
  <2>2. \A n : MayBucket(t, n) => MayBucket(t, n)'  BY DEF MayBucket
  <2>3. tablock' = t => MayTable(t)'  BY <1>3, <1>4 DEF UInv, Unlocked
  <2> QED BY <1>2, <2>1, <2>2, <2>3 DEF Holder
<1> QED BY <1>1, <1>5, <1>6, <1>7, UOne

(* Every action of a thread keeps it.                                      *)
LEMMA UAction ==
  ASSUME UInv, use' = use, locker' = locker, NEW t \in Threads, Action(t)
  PROVE  UInv'
<1> USE DEF Goto, Places
<1>0. UTypes /\ Holder(t) /\ pc[t] \in Places  BY DEF UInv, UTypes
<1>1. CASE Call(t)
  <2>1. PICK o \in Ops, k \in KeysOf(t) :
          /\ op' = [op EXCEPT ![t] = o] /\ b' = [b EXCEPT ![t] = Home(k)]
          /\ pc' = [pc EXCEPT ![t] = IF o \in {"insert", "lookup", "remove"} THEN "lock" ELSE "walklock"]
    BY <1>1 DEF Call
  <2>2. pc[t] = "out" /\ UNCHANGED <<size, mutex, tablock, leaked>>  BY <1>1 DEF Call, table, locks
  <2>3. o \in OpNamed  BY <1>0, LocksAssumption DEF UTypes, Ops, OpNamed
  <2>4. UTypes'  BY <1>0, <2>1, <2>2, <2>3 DEF UTypes
  <2>5. /\ pc'[t] = IF o \in {"insert", "lookup", "remove"} THEN "lock" ELSE "walklock"
        /\ op'[t] = o /\ \A u \in Threads : u # t => pc'[u] = pc[u] /\ op'[u] = op[u] /\ b'[u] = b[u]
    BY <1>0, <2>1 DEF UTypes
  <2>6. Unlocked'  BY <2>2 DEF UInv, Unlocked
  <2>7. \A u \in Threads : u # t => USame(u)  BY <2>2, <2>5 DEF USame
  <2>8. ~ MayTable(t) /\ \A n : MayBucket(t, n) => <<t, n>> \in leaked
    BY <2>2 DEF MayTable, MayBucket, WithBucket
  <2>9. Holder(t)'  BY <1>0, <2>2, <2>5, <2>8 DEF Holder, MayBucket
  <2> QED BY <2>2, <2>4, <2>6, <2>7, <2>9, UOne
<1>2. CASE Lock(t)
  <2>1. /\ pc[t] = "lock" /\ LockB(t, b[t][2]) /\ pc' = [pc EXCEPT ![t] = op[t]]
        /\ UNCHANGED <<size, tablock, op, b, leaked>>
    BY <1>2 DEF Lock, table, frame
  <2>2. op[t] \in WithBucket \cap Places /\ op[t] # "lock" /\ pc[t] \notin WithBucket /\ ~ MayTable(t)
    BY <1>0, <2>1 DEF Holder, WithBucket, MayTable
  <2>3. DOMAIN mutex' = DOMAIN mutex  BY <2>1 DEF LockB
  <2>4. UTypes'  BY <1>0, <2>1, <2>2, <2>3 DEF UTypes
  <2> QED BY <2>1, <2>2, <2>4, UBucket
<1>3. CASE Insert(t)
  <2>1. pc[t] = "insert" /\ UNCHANGED <<size, mutex, tablock, op, b>>  BY <1>3 DEF Insert, locks, frame
  <2>3. ~ MayTable(t)  BY <2>1 DEF MayTable
  <2>4. CASE pc' = [pc EXCEPT ![t] = "unlock"] /\ leaked' = leaked
    BY <2>1, <2>3, <2>4, UQuiet DEF WithBucket
  <2>5. CASE pc' = [pc EXCEPT ![t] = "out"] /\ leaked' = leaked \cup {<<t, b[t][2]>>}
    <3>1. UTypes' /\ Unlocked'  BY <1>0, <2>1, <2>5 DEF UInv, UTypes, Unlocked
    <3>2. pc'[t] = "out" /\ \A u \in Threads : u # t => pc'[u] = pc[u]  BY <1>0, <2>5 DEF UTypes
    <3>3. \A u \in Threads : u # t => USame(u)  BY <2>1, <3>2 DEF USame
    <3>4. \A n : MayBucket(t, n) => MayBucket(t, n)'  BY <2>5 DEF MayBucket
    <3>5. Holder(t)'  BY <1>0, <2>1, <2>3, <3>2, <3>4 DEF Holder
    <3> QED BY <2>5, <3>1, <3>3, <3>5, UOne
  <2> QED BY <1>3, <2>4, <2>5 DEF Insert
<1>4. CASE Lookup(t)
  BY <1>4, UQuiet DEF Lookup, table, frame, locks, WithBucket, MayTable
<1>5. CASE Remove(t)
  <2>1. /\ pc[t] = "remove" /\ UNCHANGED <<size, mutex, tablock, op, b, leaked>>
        /\ (pc' = [pc EXCEPT ![t] = "fillread"] \/ pc' = [pc EXCEPT ![t] = "unlock"])
    BY <1>5 DEF Remove, locks, frame
  <2>2. PICK l \in {"fillread", "unlock"} : pc' = [pc EXCEPT ![t] = l]  BY <2>1
  <2>3. pc'[t] = l  BY <1>0, <2>2 DEF UTypes
  <2>4. MayTable(t) => MayTable(t)'  BY <2>1, <2>3 DEF MayTable
  <2> QED BY <2>1, <2>2, <2>4, UQuiet DEF WithBucket
<1>6. CASE FillRead(t)
  <2>1. /\ pc[t] = "fillread" /\ UNCHANGED <<size, mutex, tablock, op, b, leaked>>
        /\ pc' = [pc EXCEPT ![t] = "fillwrite"]
    BY <1>6 DEF FillRead, table, locks
  <2>2. MayTable(t) => MayTable(t)'  BY <1>0, <2>1 DEF MayTable, UTypes
  <2> QED BY <2>1, <2>2, UQuiet DEF WithBucket
<1>7. CASE FillWrite(t)
  <2>1. /\ pc[t] = "fillwrite" /\ UNCHANGED <<size, mutex, tablock, op, b, leaked>>
        /\ pc' = [pc EXCEPT ![t] = "unlock"]
    BY <1>7 DEF FillWrite, locks, frame
  <2>2. MayTable(t) => MayTable(t)'  BY <1>0, <2>1 DEF MayTable, UTypes
  <2> QED BY <2>1, <2>2, UQuiet DEF WithBucket
<1>8. CASE Unlock(t)
  <2>1. /\ pc[t] = "unlock" /\ UnlockB(b[t][2]) /\ UNCHANGED <<size, tablock, op, b, leaked>>
        /\ pc' = [pc EXCEPT ![t] = CASE op[t] = "insert" -> "statlock"
                                     [] op[t] = "removeif" -> "walk" [] OTHER -> "out"]
    BY <1>8 DEF Unlock, table, frame
  <2>2. PICK l \in {"statlock", "walk", "out"} :
          pc' = [pc EXCEPT ![t] = l] /\ (op[t] = "removeif" => l = "walk")
    BY <2>1
  <2>3. DOMAIN mutex' = DOMAIN mutex  BY <2>1 DEF UnlockB
  <2>4. UTypes'  BY <1>0, <2>1, <2>2, <2>3 DEF UTypes
  <2>5. MayTable(t) => MayTable(t)'  BY <1>0, <2>1, <2>2 DEF MayTable, UTypes
  <2> QED BY <2>1, <2>2, <2>4, <2>5, UBucket
<1>9. CASE StatLock(t)
  <2>1. MayTable(t)'  BY <1>0, <1>9 DEF StatLock, MayTable, UTypes
  <2> QED BY <1>9, <2>1, UTable DEF StatLock, table, frame, WithBucket
<1>10. CASE Stat(t)
  <2>1. /\ pc[t] = "stat" /\ UNCHANGED <<size, mutex, tablock, op, b, leaked>>
        /\ (pc' = [pc EXCEPT ![t] = "move"] \/ pc' = [pc EXCEPT ![t] = "statunlock"])
    BY <1>10 DEF Stat, locks
  <2>2. PICK l \in {"move", "statunlock"} : pc' = [pc EXCEPT ![t] = l]  BY <2>1
  <2>3. MayTable(t)'  BY <1>0, <2>2 DEF MayTable, UTypes
  <2> QED BY <2>1, <2>2, <2>3, UQuiet DEF WithBucket
<1>11. CASE Move(t) \/ Walk(t)
  <2>1. UNCHANGED <<size, mutex, tablock, op, b, leaked, pc>>  BY <1>11 DEF Move, Walk, table, locks
  <2> QED BY <2>1 DEF UInv, UTypes, Unlocked, Holder, MayTable, MayBucket
<1>12. CASE Swap(t)
  <2>1. /\ pc[t] = "move" /\ pc' = [pc EXCEPT ![t] = "statunlock"] /\ size' = 2 * size
        /\ mutex' = [n \in Indices(2 * size) |-> IF n < size THEN mutex[n] ELSE NoThread]
        /\ UNCHANGED <<tablock, op, b, leaked>>
    BY <1>12 DEF Swap, frame
  <2>2. NoThread \notin Threads  BY LocksAssumption
  <2>3. 2 * size \in Nat /\ \A n \in Indices(2 * size) : n < size => n \in Indices(size)
    <3>1. size \in Nat  BY <1>0 DEF UTypes
    <3> QED BY <3>1, SMTT(60) DEF Indices
  <2>4. UTypes'  BY <1>0, <2>1, <2>3 DEF UTypes
  <2>5. \A n \in Indices(size') : mutex'[n] = NoThread \/ (n \in Indices(size) /\ mutex'[n] = mutex[n])
    BY <2>1, <2>3
  <2>6. Unlocked'  BY <2>1, <2>5 DEF UInv, Unlocked
  <2>7. pc'[t] = "statunlock" /\ \A u \in Threads : u # t => pc'[u] = pc[u]  BY <1>0, <2>1 DEF UTypes
  <2>8. \A u \in Threads : u # t => USame(u)  BY <2>1, <2>2, <2>5, <2>7 DEF USame
  <2>9. MayTable(t)' /\ \A n : MayBucket(t, n) => MayBucket(t, n)'
    BY <2>1, <2>7 DEF MayTable, MayBucket, WithBucket
  <2>10. Holder(t)'  BY <1>0, <2>2, <2>5, <2>7, <2>9 DEF Holder
  <2> QED BY <2>1, <2>4, <2>6, <2>8, <2>10, UOne
<1>13. CASE StatUnlock(t)
  BY <1>13, UTable DEF StatUnlock, table, frame, WithBucket
<1>14. CASE WalkLock(t)
  <2>1. /\ pc[t] = "walklock" /\ LockT(t) /\ UNCHANGED <<size, mutex, op, b, leaked>>
        /\ pc' = [pc EXCEPT ![t] = IF op[t] = "sorted" THEN "relock" ELSE "walk"]
    BY <1>14 DEF WalkLock, table, frame
  <2>2. PICK l \in {"relock", "walk"} : pc' = [pc EXCEPT ![t] = l]  BY <2>1
  <2>3. MayTable(t)'  BY <1>0, <2>2 DEF MayTable, UTypes
  <2> QED BY <2>1, <2>2, <2>3, UTable DEF WithBucket
<1>15. CASE Relock(t)
  <2>1. MayTable(t)'  BY <1>0, <1>15 DEF Relock, MayTable, UTypes
  <2> QED BY <1>15, <2>1, UTable DEF Relock, table, frame, WithBucket
<1>16. CASE WalkRemove(t)
  <2>1. /\ pc[t] = "walk" /\ op[t] = "removeif" /\ LockB(t, i[t])
        /\ pc' = [pc EXCEPT ![t] = "remove"] /\ b' = [b EXCEPT ![t] = <<gen, i[t]>>]
        /\ UNCHANGED <<size, tablock, op, leaked>>
    BY <1>16 DEF WalkRemove, table
  <2>2. b'[t][2] = i[t] /\ \A u \in Threads : u # t => b'[u] = b[u]  BY <1>0, <2>1 DEF UTypes
  <2>3. DOMAIN mutex' = DOMAIN mutex  BY <2>1 DEF LockB
  <2>4. UTypes'  BY <1>0, <2>1, <2>3 DEF UTypes
  <2>5. MayTable(t)'  BY <1>0, <2>1 DEF MayTable, UTypes
  <2> QED BY <2>1, <2>2, <2>4, <2>5, UBucket DEF WithBucket
<1>17. CASE WalkUnlock(t)
  BY <1>17, UTable DEF WalkUnlock, table, frame, WithBucket
<1> QED BY <1>1, <1>2, <1>3, <1>4, <1>5, <1>6, <1>7, <1>8, <1>9, <1>10, <1>11, <1>12, <1>13, <1>14,
           <1>15, <1>16, <1>17 DEF Action

(* However the table is used, by any threads, with growth, duplicates and  *)
(* failing allocations: the functions of hashtab.c and hashtab_iter.c give *)
(* the table lock back, and the lock of a bucket unless insert_internal    *)
(* returned an error.                                                      *)
THEOREM LocksLeakByErrorsOnly == Spec => []OnlyErrorsLeak
<1>1. Init => UInv
  <2> SUFFICES ASSUME Init  PROVE UInv
    OBVIOUS
  <2>1. NoThread \notin Threads /\ Size0 \in Nat  BY LocksAssumption
  <2>2. UTypes  BY <2>1 DEF Init, UTypes, Places, OpNamed
  <2>3. Unlocked /\ \A t \in Threads : Holder(t)  BY <2>1 DEF Init, Unlocked, Holder
  <2> QED BY <2>2, <2>3 DEF UInv
<1>2. UInv /\ [Next]_vars => UInv'
  <2> SUFFICES ASSUME UInv, [Next]_vars  PROVE UInv'
    OBVIOUS
  <2>1. CASE Next  BY <2>1, OneAction, UAction
  <2>2. CASE UNCHANGED vars
    BY <2>2 DEF vars, UInv, UTypes, Unlocked, Holder, MayTable, MayBucket
  <2> QED BY <2>1, <2>2
<1>3. UInv => OnlyErrorsLeak
  BY DEF UInv, UTypes, Holder, MayTable, MayBucket, WithBucket, OnlyErrorsLeak
<1> QED BY <1>1, <1>2, <1>3, PTL DEF Spec
-----------------------------------------------------------------------------
(* Content, of a table used with care *)

(* Without locks a thread inside the table's functions is there alone.     *)
LEMMA Alone ==
  ASSUME LInv, locker = "null", NEW t \in Threads, NEW u \in Threads, u # t,
         pc[t] # "out" \/ Call(t)
  PROVE  pc[u] = "out" /\ calls[u] = 0
BY DEF LInv, LTypes, Modes, Call

(* With mutexes nobody is where only removals, resizes and sorted          *)
(* iterators go.                                                           *)
LEMMA NotThere ==
  ASSUME LInv, locker = "mutex", NEW t \in Threads
  PROVE  pc[t] \notin {"remove", "fillread", "fillwrite", "move", "relock"}
BY DEF LInv, Going, Modes

(* There are the two lockers.                                              *)
LEMMA TwoLockers ==
  ASSUME LInv
  PROVE  locker = "mutex" \/ locker = "null"
BY LocksAssumption DEF LInv, LTypes

(* The operations called are the table's.                                  *)
LEMMA OpNames ==
  ASSUME Careful, LInv
  PROVE  /\ Ops \subseteq {"insert", "lookup", "remove", "removeif", "apply", "sorted"}
         /\ locker = "mutex" => Ops \subseteq {"insert", "lookup", "apply"}
BY LocksAssumption DEF LInv, LTypes, Ops, Careful

(* Types are kept.                                                         *)
LEMMA TypesKept ==
  ASSUME Careful, LInv, use' = use, locker' = locker, NEW t \in Threads, Action(t)
  PROVE  LTypes'
<1> USE DEF LInv, LTypes, Goto, Places
<1>0. \A u \in Threads : KeysOf(u) \subseteq Keys  BY LocksAssumption DEF KeysOf
<1>1. CASE Call(t)
  <2>1. PICK o \in Ops, k \in KeysOf(t) :
          /\ op' = [op EXCEPT ![t] = o] /\ key' = [key EXCEPT ![t] = k]
          /\ b' = [b EXCEPT ![t] = Home(k)]
          /\ Goto(t, IF o \in {"insert", "lookup", "remove"} THEN "lock" ELSE "walklock")
    BY <1>1 DEF Call
  <2>2. Home(k) \in Nat \X Nat  BY <1>0, SlotIsBucket DEF Home, Slot
  <2>3. op' \in [Threads -> {"none", "insert", "lookup", "remove", "removeif", "apply", "sorted"}]
    BY <2>1, OpNames
  <2>4. key' \in [Threads -> Keys] /\ b' \in [Threads -> Nat \X Nat] /\ pc' \in [Threads -> Places]
    BY <1>0, <2>1, <2>2
  <2>5. calls' \in [Threads -> Nat] /\ i' \in [Threads -> Nat] /\ f' = f /\ gen' = gen
        /\ size' = size /\ inserted' = inserted
    BY <1>1, SMTT(60) DEF Call, table
  <2> QED BY <2>3, <2>4, <2>5
<1>2. CASE Lock(t)  BY <1>2 DEF Lock, table, frame, Going
<1>3. CASE Insert(t)  BY <1>3, SMTT(60) DEF Insert, frame
<1>4. CASE Lookup(t)  BY <1>4 DEF Lookup, table, frame
<1>5. CASE Remove(t)  BY <1>5 DEF Remove, frame
<1>6. CASE FillRead(t)  BY <1>6 DEF FillRead, table, Content
<1>7. CASE FillWrite(t)  BY <1>7 DEF FillWrite, frame
<1>8. CASE Unlock(t)  BY <1>8 DEF Unlock, table, frame
<1>9. CASE StatLock(t)  BY <1>9 DEF StatLock, table, frame
<1>10. CASE Stat(t)  BY <1>10 DEF Stat
<1>11. CASE Move(t)  BY <1>11, SMTT(60) DEF Move
<1>12. CASE Swap(t)  BY <1>12, SMTT(60) DEF Swap, frame
<1>13. CASE StatUnlock(t)  BY <1>13 DEF StatUnlock, table, frame
<1>14. CASE WalkLock(t)  BY <1>14 DEF WalkLock, table, frame
<1>15. CASE Relock(t)  BY <1>15 DEF Relock, table, frame
<1>16. CASE Walk(t)  BY <1>16, SMTT(60) DEF Walk, table
<1>17. CASE WalkRemove(t)
  <2>1. <<gen, i[t]>> \in Nat \X Nat  OBVIOUS
  <2> QED BY <1>17, <2>1, SMTT(60) DEF WalkRemove, table
<1>18. CASE WalkUnlock(t)  BY <1>18 DEF WalkUnlock, table, frame
<1> QED BY <1>1, <1>2, <1>3, <1>4, <1>5, <1>6, <1>7, <1>8, <1>9, <1>10, <1>11, <1>12, <1>13, <1>14,
           <1>15, <1>16, <1>17, <1>18 DEF Action

(* Place and operation go together.                                       *)
LEMMA GoingKept ==
  ASSUME Careful, LInv, use' = use, locker' = locker, NEW t \in Threads, Action(t)
  PROVE  Going'
<1> USE DEF LInv, LTypes, Going, Goto, KeysOf
<1>1. CASE Call(t)
  <2>1. PICK o \in Ops, k \in KeysOf(t) :
          /\ op' = [op EXCEPT ![t] = o] /\ key' = [key EXCEPT ![t] = k]
          /\ Goto(t, IF o \in {"insert", "lookup", "remove"} THEN "lock" ELSE "walklock")
    BY <1>1 DEF Call
  <2> QED BY <2>1, OpNames
<1>2. CASE Lock(t)  BY <1>2 DEF Lock, table, frame
<1>3. CASE Insert(t)  BY <1>3, SMTT(60) DEF Insert, frame
<1>4. CASE Lookup(t)  BY <1>4 DEF Lookup, table, frame
<1>5. CASE Remove(t)  BY <1>5 DEF Remove, frame
<1>6. CASE FillRead(t)  BY <1>6 DEF FillRead, table
<1>7. CASE FillWrite(t)  BY <1>7 DEF FillWrite, frame
<1>8. CASE Unlock(t)  BY <1>8 DEF Unlock, table, frame
<1>9. CASE StatLock(t)  BY <1>9 DEF StatLock, table, frame
<1>10. CASE Stat(t)
  <2>1. \/ pc' = [pc EXCEPT ![t] = "move"]
        \/ pc' = [pc EXCEPT ![t] = "statunlock"]
    BY <1>10 DEF Stat
  <2>2. pc[t] = "stat" /\ op' = op /\ key' = key  BY <1>10 DEF Stat
  <2> QED BY <2>1, <2>2, SMTT(60)
<1>11. CASE Move(t)  BY <1>11 DEF Move
<1>12. CASE Swap(t)  BY <1>12 DEF Swap, frame
<1>13. CASE StatUnlock(t)  BY <1>13 DEF StatUnlock, table, frame
<1>14. CASE WalkLock(t)  BY <1>14 DEF WalkLock, table, frame
<1>15. CASE Relock(t)  BY <1>15 DEF Relock, table, frame
<1>16. CASE Walk(t)  BY <1>16 DEF Walk, table
<1>17. CASE WalkRemove(t)  BY <1>17 DEF WalkRemove, table
<1>18. CASE WalkUnlock(t)  BY <1>18 DEF WalkUnlock, table, frame
<1> QED BY <1>1, <1>2, <1>3, <1>4, <1>5, <1>6, <1>7, <1>8, <1>9, <1>10, <1>11, <1>12, <1>13, <1>14,
           <1>15, <1>16, <1>17, <1>18 DEF Action

(* A thread stays at its bucket of the array in use.                       *)
LEMMA HomeKept ==
  ASSUME Careful, LInv, use' = use, locker' = locker, NEW t \in Threads, Action(t)
  PROVE  AtHome'
<1> USE DEF LInv, LTypes, AtHome, AtBucket, Goto
<1>1. CASE Call(t)
  <2>1. PICK o \in Ops, k \in KeysOf(t) :
          /\ key' = [key EXCEPT ![t] = k] /\ b' = [b EXCEPT ![t] = Home(k)]
          /\ op' = [op EXCEPT ![t] = o]
          /\ Goto(t, IF o \in {"insert", "lookup", "remove"} THEN "lock" ELSE "walklock")
    BY <1>1 DEF Call
  <2>2. k \in Keys  BY LocksAssumption DEF KeysOf
  <2>3. Slot(k, size) \in Indices(size) /\ Home(k) = <<gen, Slot(k, size)>>
    BY <2>2, SlotIsBucket DEF Home, Slot
  <2>4. gen' = gen /\ size' = size  BY <1>1 DEF Call, table
  <2> QED BY <2>1, <2>3, <2>4, SMTT(60)
<1>2. CASE Lock(t)  BY <1>2 DEF Lock, table, frame, Going
<1>3. CASE Insert(t)  BY <1>3 DEF Insert, frame
<1>4. CASE Lookup(t)  BY <1>4 DEF Lookup, table, frame
<1>5. CASE Remove(t)  BY <1>5 DEF Remove, frame
<1>6. CASE FillRead(t)  BY <1>6 DEF FillRead, table
<1>7. CASE FillWrite(t)  BY <1>7 DEF FillWrite, frame
<1>8. CASE Unlock(t)  BY <1>8 DEF Unlock, table, frame
<1>9. CASE StatLock(t)  BY <1>9 DEF StatLock, table, frame
<1>10. CASE Stat(t)  BY <1>10 DEF Stat
<1>11. CASE Move(t)  BY <1>11 DEF Move
<1>12. CASE Swap(t)
  <2>1. locker = "null"  BY <1>12, TwoLockers, NotThere DEF Swap
  <2>2. \A u \in Threads : u # t => pc[u] = "out"  BY <2>1, <1>12, Alone DEF Swap
  <2>3. \A u \in Threads : pc'[u] \notin AtBucket  BY <1>12, <2>2 DEF Swap
  <2> QED BY <2>3
<1>13. CASE StatUnlock(t)  BY <1>13 DEF StatUnlock, table, frame
<1>14. CASE WalkLock(t)  BY <1>14 DEF WalkLock, table, frame
<1>15. CASE Relock(t)  BY <1>15 DEF Relock, table, frame
<1>16. CASE Walk(t)  BY <1>16 DEF Walk, table
<1>17. CASE WalkRemove(t)
  <2>1. gen' = gen /\ size' = size /\ i[t] \in Indices(size)  BY <1>17, SMTT(60) DEF WalkRemove, table, Indices
  <2> QED BY <1>17, <2>1 DEF WalkRemove
<1>18. CASE WalkUnlock(t)  BY <1>18 DEF WalkUnlock, table, frame
<1> QED BY <1>1, <1>2, <1>3, <1>4, <1>5, <1>6, <1>7, <1>8, <1>9, <1>10, <1>11, <1>12, <1>13, <1>14,
           <1>15, <1>16, <1>17, <1>18 DEF Action

(* A bucket less than all of them: the average is under the limit.         *)
LEMMA NotFull ==
  ASSUME NEW x \in Int, NEW n \in Nat, x <= n
  PROVE  (x * 100) \div (n + 1) <= 99
<1>1. n + 1 > 0 /\ x * 100 < 100 * (n + 1)  BY SMTT(60)
<1>2. \A y \in Int, d \in Nat : d > 0 /\ y < 100 * d => y \div d <= 99  BY Z3T(30)
<1> QED BY <1>1, <1>2, SMTT(60)

(* With mutexes an insertion does not make the table grow.                 *)
LEMMA NoGrowth ==
  ASSUME Careful, LInv, locker = "mutex", NEW t \in Threads, Stat(t)
  PROVE  pc' = [pc EXCEPT ![t] = "statunlock"]
<1> DEFINE n == b[t][2]
           c == count[b[t][1]][b[t][2]] + 1
           fl == IF c = 1 THEN fill + 1 ELSE fill
<1>1. n \in Indices(size) /\ c = count[gen][n] + 1 /\ size \in Nat \ {0}
  BY DEF LInv, AtHome, AtBucket, Stat, LTypes
<1>2. SUFFICES ASSUME c = 1 /\ (fl * 100) \div (size + 1) > FillMax
               PROVE  FALSE
  BY DEF Stat, Goto
<1>3. IsFiniteSet(Indices(size)) /\ Cardinality(Indices(size)) = size
  BY <1>1, Buckets
<1>4. /\ IsFiniteSet(Indices(size) \ {n})
      /\ Cardinality(Indices(size) \ {n}) = Cardinality(Indices(size)) - 1
  BY <1>1, <1>3, FS_RemoveElement
<1>5. Filled \subseteq Indices(size) \ {n}
  <2>1. count[gen][n] \in Nat  BY <1>1 DEF LInv, Content
  <2>2. count[gen][n] = 0  BY <1>1, <1>2, <2>1, SMTT(60)
  <2> QED BY <2>2 DEF Filled
<1>6. Cardinality(Filled) <= size - 1 /\ Cardinality(Filled) \in Nat
  BY <1>3, <1>4, <1>5, FS_Subset, FS_CardinalityType, SMTT(60)
<1>7. Emptying = {}  BY NotThere DEF Emptying
<1>8. fill <= size - 1 /\ fill \in Int  BY <1>6, <1>7, FS_EmptySet, SMTT(60) DEF LInv, Content
<1>9. FillMax = 99  BY DEF Careful
<1>10. fl \in Int /\ fl <= size  BY <1>1, <1>2, <1>8, SMTT(60)
<1> HIDE DEF c, fl
<1> QED BY <1>1, <1>2, <1>9, <1>10, NotFull, SMTT(60)

(* What is known of each locker stays so.                                  *)
LEMMA ModesKept ==
  ASSUME Careful, LInv, use' = use, locker' = locker, NEW t \in Threads, Action(t)
  PROVE  Modes'
<1> USE DEF LInv, LTypes, Modes, Goto, LockB, UnlockB, LockT, UnlockT
<1>1. CASE Call(t)
  <2>1. PICK o \in Ops, k \in KeysOf(t) :
          /\ FreshOnly /\ o = "insert" => k \notin inserted
          /\ op' = [op EXCEPT ![t] = o] /\ key' = [key EXCEPT ![t] = k]
          /\ Goto(t, IF o \in {"insert", "lookup", "remove"} THEN "lock" ELSE "walklock")
    BY <1>1 DEF Call
  <2>2. inserted' = inserted /\ tablock' = tablock /\ mutex' = mutex
        /\ calls' = [calls EXCEPT ![t] = calls[t] + 1]
    BY <1>1 DEF Call, locks
  <2>3. ASSUME locker = "mutex"
        PROVE  \A u \in Threads :
                 /\ op'[u] \in {"none", "insert", "lookup", "apply"} /\ pc'[u] # "move"
                 /\ pc'[u] \in {"lock", "insert"} /\ op'[u] = "insert" => key'[u] \notin inserted'
    <3>1. FreshOnly = TRUE /\ o \in {"insert", "lookup", "apply"}
      BY <2>3, OpNames DEF NoErrors, Careful
    <3> QED BY <2>1, <2>2, <2>3, <3>1
  <2>4. ASSUME locker = "null"
        PROVE  /\ \A u, v \in Threads : calls'[u] # 0 /\ calls'[v] # 0 => u = v
               /\ \A u \in Threads : pc'[u] # "out" => calls'[u] # 0
    BY <2>1, <2>2, <2>4, <1>1, Alone, SMTT(60)
  <2> QED BY <2>2, <2>3, <2>4
<1>2. CASE Lock(t)  BY <1>2 DEF Lock, table, frame, Going
<1>3. CASE Insert(t)
  <2>1. inserted' \subseteq inserted \cup {key[t]} /\ UNCHANGED <<mutex, tablock, op, key, calls>>
        /\ (pc' = [pc EXCEPT ![t] = "out"] \/ pc' = [pc EXCEPT ![t] = "unlock"])
        /\ pc[t] = "insert"
    BY <1>3 DEF Insert, locks, frame
  <2>2. ASSUME locker = "mutex", NEW u \in Threads, u # t, pc[u] \in {"lock", "insert"}
        PROVE  key[u] # key[t]
    <3>1. key[u] \in KeysOf(u) /\ key[t] \in KeysOf(t)  BY <2>1, <2>2 DEF Going
    <3> QED BY <3>1, <2>2 DEF NoErrors, Careful
  <2> QED BY <2>1, <2>2, SMTT(60)
<1>4. CASE Lookup(t)  BY <1>4 DEF Lookup, table, frame, locks
<1>5. CASE Remove(t)
  <2>1. locker = "null"  BY <1>5, NotThere, TwoLockers DEF Remove
  <2>2. pc[t] = "remove" /\ UNCHANGED <<mutex, tablock, calls>>  BY <1>5 DEF Remove, locks, frame
  <2>3. \A u \in Threads : u # t => pc'[u] = pc[u]  BY <1>5 DEF Remove
  <2> QED BY <2>1, <2>2, <2>3
<1>6. CASE FillRead(t)  BY <1>6 DEF FillRead, table, locks
<1>7. CASE FillWrite(t)  BY <1>7 DEF FillWrite, frame, locks
<1>8. CASE Unlock(t)  BY <1>8 DEF Unlock, table, frame
<1>9. CASE StatLock(t)  BY <1>9 DEF StatLock, table, frame
<1>10. CASE Stat(t)
  <2>1. /\ UNCHANGED <<mutex, tablock, op, key, calls, inserted>> /\ pc[t] = "stat"
        /\ (pc' = [pc EXCEPT ![t] = "move"] \/ pc' = [pc EXCEPT ![t] = "statunlock"])
    BY <1>10 DEF Stat, locks
  <2>2. locker = "mutex" => pc' = [pc EXCEPT ![t] = "statunlock"]  BY <1>10, NoGrowth
  <2> QED BY <2>1, <2>2
<1>11. CASE Move(t)  BY <1>11 DEF Move, locks
<1>12. CASE Swap(t)
  <2>1. locker = "null"  BY <1>12, NotThere, TwoLockers DEF Swap
  <2>2. \A n \in DOMAIN mutex' : mutex'[n] = NoThread  BY <1>12, <2>1, SMTT(60) DEF Swap, LocksHeld, Indices
  <2> QED BY <1>12, <2>1, <2>2 DEF Swap, frame
<1>13. CASE StatUnlock(t)  BY <1>13 DEF StatUnlock, table, frame
<1>14. CASE WalkLock(t)  BY <1>14 DEF WalkLock, table, frame
<1>15. CASE Relock(t)  BY <1>15 DEF Relock, table, frame
<1>16. CASE Walk(t)  BY <1>16 DEF Walk, table, locks
<1>17. CASE WalkRemove(t)  BY <1>17 DEF WalkRemove, table
<1>18. CASE WalkUnlock(t)  BY <1>18 DEF WalkUnlock, table, frame
<1> QED BY <1>1, <1>2, <1>3, <1>4, <1>5, <1>6, <1>7, <1>8, <1>9, <1>10, <1>11, <1>12, <1>13, <1>14,
           <1>15, <1>16, <1>17, <1>18 DEF Action

(* Locks are held only where the code holds them.                         *)
LEMMA LocksKept ==
  ASSUME Careful, LInv, use' = use, locker' = locker, NEW t \in Threads, Action(t)
  PROVE  LocksHeld'
<1> USE DEF LInv, LTypes, LocksHeld, Modes, Goto, LockB, UnlockB, LockT, UnlockT
<1>0. \A u \in Threads : u # NoThread  BY LocksAssumption, SMTT(60)
<1>1. CASE Call(t)
  <2>1. \A u \in Threads : u # t => b'[u] = b[u] /\ pc'[u] = pc[u]  BY <1>1 DEF Call
  <2>2. pc[t] = "out" /\ mutex' = mutex /\ tablock' = tablock /\ size' = size
    BY <1>1 DEF Call, locks, table
  <2> QED BY <2>1, <2>2, SMTT(60)
<1>2. CASE Lock(t)
  <2>1. /\ pc[t] = "lock" /\ pc' = [pc EXCEPT ![t] = op[t]] /\ b' = b /\ size' = size
        /\ tablock' = tablock
    BY <1>2 DEF Lock, frame, table
  <2>2. CASE locker = "null"
    <3>1. mutex' = mutex  BY <1>2, <2>2 DEF Lock
    <3> QED BY <2>1, <2>2, <3>1, <1>0
  <2>3. CASE locker = "mutex"
    <3>1. mutex' = [mutex EXCEPT ![b[t][2]] = t]  BY <1>2, <2>3 DEF Lock
    <3>2. op[t] \in {"insert", "lookup"}  BY <2>1, <2>3 DEF Going
    <3> QED BY <2>1, <3>1, <3>2, SMTT(60)
  <2> QED BY <2>2, <2>3, TwoLockers
<1>3. CASE Insert(t)
  <2>1. pc[t] = "insert" /\ UNCHANGED <<mutex, tablock, b, size>>  BY <1>3 DEF Insert, locks, frame
  <2>2. CASE locker = "null"  BY <1>0, <2>1, <2>2, SMTT(60)
  <2>3. CASE locker = "mutex"
    <3>1. key[t] \notin inserted /\ op[t] = "insert" /\ key[t] \in Keys  BY <2>1, <2>3 DEF Going
    <3>2. b[t][1] = gen /\ b[t][2] = Slot(key[t], size)  BY <2>1, <3>1 DEF AtHome, AtBucket
    <3>3. key[t] \notin InB(t)  BY <3>1, <3>2 DEF InB, Content
    <3>4. NodeFails = FALSE  BY <2>3 DEF NoErrors, Careful
    <3>5. pc' = [pc EXCEPT ![t] = "unlock"]  BY <1>3, <3>3, <3>4 DEF Insert
    <3> QED BY <2>1, <3>5, SMTT(60)
  <2> QED BY <2>2, <2>3, TwoLockers
<1>4. CASE Lookup(t)  BY <1>4, <1>0, TwoLockers, SMTT(60) DEF Lookup, table, frame, locks
<1>5. CASE Remove(t)
  <2>1. locker = "null"  BY <1>5, NotThere, TwoLockers DEF Remove
  <2> QED BY <1>5, <1>0, <2>1 DEF Remove, locks
<1>6. CASE FillRead(t)  BY <1>6, <1>0, TwoLockers, SMTT(60) DEF FillRead, table, locks
<1>7. CASE FillWrite(t)  BY <1>7, <1>0, TwoLockers, SMTT(60) DEF FillWrite, frame, locks
<1>8. CASE Unlock(t)  BY <1>8, <1>0, TwoLockers, SMTT(60) DEF Unlock, table, frame
<1>9. CASE StatLock(t)  BY <1>9, <1>0, TwoLockers DEF StatLock, table, frame
<1>10. CASE Stat(t)
  <2>1. /\ UNCHANGED <<mutex, tablock, b, size>> /\ pc[t] = "stat"
        /\ (pc' = [pc EXCEPT ![t] = "move"] \/ pc' = [pc EXCEPT ![t] = "statunlock"])
    BY <1>10 DEF Stat, locks
  <2>2. locker = "mutex" => pc' = [pc EXCEPT ![t] = "statunlock"]  BY <1>10, NoGrowth
  <2> QED BY <1>0, <2>1, <2>2, TwoLockers, SMTT(60)
<1>11. CASE Move(t)  BY <1>11, <1>0, TwoLockers DEF Move, locks
<1>12. CASE Swap(t)
  <2>1. locker = "null"  BY <1>12, NotThere, TwoLockers DEF Swap
  <2>2. \A n \in DOMAIN mutex' : mutex'[n] = NoThread  BY <1>12, <2>1, SMTT(60) DEF Swap, Indices
  <2>3. DOMAIN mutex' = Indices(size')  BY <1>12 DEF Swap
  <2> QED BY <1>12, <1>0, <2>1, <2>2, <2>3, SMTT(60) DEF Swap
<1>13. CASE StatUnlock(t)  BY <1>13, <1>0, TwoLockers, SMTT(60) DEF StatUnlock, table, frame
<1>14. CASE WalkLock(t)  BY <1>14, <1>0, TwoLockers DEF WalkLock, table, frame
<1>15. CASE Relock(t)
  <2>1. locker = "null"  BY <1>15, NotThere, TwoLockers DEF Relock
  <2> QED BY <1>15, <1>0, <2>1 DEF Relock, table, frame
<1>16. CASE Walk(t)  BY <1>16, <1>0, TwoLockers DEF Walk, table, locks
<1>17. CASE WalkRemove(t)
  <2>1. locker = "null"  BY <1>17, TwoLockers DEF WalkRemove
  <2> QED BY <1>17, <1>0, <2>1, SMTT(60) DEF WalkRemove, table
<1>18. CASE WalkUnlock(t)  BY <1>18, <1>0, TwoLockers, SMTT(60) DEF WalkUnlock, table, frame
<1> QED BY <1>1, <1>2, <1>3, <1>4, <1>5, <1>6, <1>7, <1>8, <1>9, <1>10, <1>11, <1>12, <1>13, <1>14,
           <1>15, <1>16, <1>17, <1>18 DEF Action

(* A resize has moved the keys of the buckets it has done.                 *)
LEMMA MovingKept ==
  ASSUME Careful, LInv, use' = use, locker' = locker, NEW t \in Threads, Action(t)
  PROVE  Moving'
<1> USE DEF LInv, LTypes, Moving, Goto
<1>0. ASSUME pc[t] # "out" \/ Call(t), pc'[t] # "move",
             \A u \in Threads : u # t => pc'[u] = pc[u]
      PROVE  Moving'
  <2>1. ASSUME NEW u \in Threads, pc'[u] = "move"  PROVE FALSE
    <3>1. u # t /\ pc[u] = "move"  BY <1>0, <2>1
    <3>2. locker = "null"  BY <3>1, NotThere, TwoLockers
    <3> QED BY <1>0, <3>1, <3>2, Alone
  <2> QED BY <2>1
<1>1. CASE Call(t)  BY <1>1, <1>0 DEF Call
<1>2. CASE Lock(t)  BY <1>2, <1>0 DEF Lock, Going
<1>3. CASE Insert(t)  BY <1>3, <1>0 DEF Insert, frame
<1>4. CASE Lookup(t)  BY <1>4, <1>0 DEF Lookup, table, frame
<1>5. CASE Remove(t)  BY <1>5, <1>0 DEF Remove, frame
<1>6. CASE FillRead(t)  BY <1>6, <1>0 DEF FillRead, table
<1>7. CASE FillWrite(t)  BY <1>7, <1>0 DEF FillWrite, frame
<1>8. CASE Unlock(t)
  <2>1. /\ pc[t] = "unlock" /\ pc'[t] \in {"statlock", "walk", "out"}
        /\ \A u \in Threads : u # t => pc'[u] = pc[u]
    BY <1>8 DEF Unlock
  <2> QED BY <1>0, <2>1
<1>9. CASE StatLock(t)  BY <1>9, <1>0 DEF StatLock, table, frame
<1>10. CASE Stat(t)
  <2>1. CASE pc'[t] = "move"
    <3>1. i'[t] = 0 /\ size' = size /\ moved' = [n \in Indices(2 * size) |-> {}] /\ inserted' = inserted
      BY <1>10 DEF Stat
    <3>2. \A k \in inserted : ~ (Slot(k, size) < 0)  BY SlotIsBucket, SMTT(60)
    <3>3. locker = "null"
      <4>1. ASSUME locker = "mutex"  PROVE FALSE  BY <1>10, <2>1, <4>1, NoGrowth
      <4> QED BY <4>1, TwoLockers
    <3>4. \A u \in Threads : u # t => pc'[u] = "out"  BY <1>10, <3>3, Alone DEF Stat
    <3>5. moved' = [n \in Indices(2 * size) |->
                      {k \in inserted : Slot(k, size) < 0 /\ Slot(k, 2 * size) = n}]
      BY <3>1, <3>2
    <3> QED BY <3>1, <3>4, <3>5, SMTT(60)
  <2>2. CASE pc'[t] # "move"  BY <1>10, <1>0, <2>2 DEF Stat
  <2> QED BY <2>1, <2>2
<1>11. CASE Move(t)
  <2>1. locker = "null"  BY <1>11, NotThere, TwoLockers DEF Move
  <2>2. \A u \in Threads : u # t => pc'[u] = "out"  BY <1>11, <2>1, Alone DEF Move
  <2>3. /\ i'[t] = i[t] + 1 /\ i[t] < size /\ i[t] \in Nat /\ pc[t] = "move"
        /\ UNCHANGED <<size, inserted>>
    BY <1>11 DEF Move
  <2>4. \A k \in Keys : k \in chain[gen][i[t]] <=> k \in inserted /\ Slot(k, size) = i[t]
    BY <2>3, SMTT(60) DEF Content, Indices
  <2>5. chain[gen][i[t]] \subseteq Keys  BY <2>3, SMTT(60) DEF Content, Indices
  <2>6. \A k \in Keys : Slot(k, size) \in Nat  BY SlotIsBucket
  <2>7. \A k \in Keys : Slot(k, size) < i[t] + 1 <=> Slot(k, size) < i[t] \/ Slot(k, size) = i[t]
    <3>1. \A x, y \in Nat : x < y + 1 <=> x < y \/ x = y  BY SMTT(60)
    <3> QED BY <2>3, <2>6, <3>1
  <2>8. \A n \in Indices(2 * size) :
          moved[n] \cup {k \in chain[gen][i[t]] : Slot(k, 2 * size) = n}
            = {k \in inserted : Slot(k, size) < i[t] + 1 /\ Slot(k, 2 * size) = n}
    BY <2>3, <2>4, <2>5, <2>7, SMTT(60)
  <2>9. moved' = [n \in Indices(2 * size) |->
                    {k \in inserted : Slot(k, size) < i[t] + 1 /\ Slot(k, 2 * size) = n}]
    BY <1>11, <2>8 DEF Move, Slot
  <2> QED BY <2>2, <2>3, <2>9, SMTT(60)
<1>12. CASE Swap(t)  BY <1>12, <1>0 DEF Swap, frame
<1>13. CASE StatUnlock(t)  BY <1>13, <1>0 DEF StatUnlock, table, frame
<1>14. CASE WalkLock(t)  BY <1>14, <1>0 DEF WalkLock, table, frame
<1>15. CASE Relock(t)  BY <1>15, <1>0 DEF Relock, table, frame
<1>16. CASE Walk(t)
  <2>1. ASSUME NEW u \in Threads, pc[u] = "move"  PROVE FALSE
    <3>1. locker = "null" /\ u # t  BY <1>16, <2>1, NotThere, TwoLockers DEF Walk
    <3> QED BY <1>16, <2>1, <3>1, Alone DEF Walk
  <2> QED BY <1>16, <2>1 DEF Walk
<1>17. CASE WalkRemove(t)  BY <1>17, <1>0 DEF WalkRemove, table
<1>18. CASE WalkUnlock(t)  BY <1>18, <1>0 DEF WalkUnlock, table, frame
<1> QED BY <1>1, <1>2, <1>3, <1>4, <1>5, <1>6, <1>7, <1>8, <1>9, <1>10, <1>11, <1>12, <1>13, <1>14,
           <1>15, <1>16, <1>17, <1>18 DEF Action

(* Sets of threads, of keys and of buckets are finite.                     *)
LEMMA Finite ==
  ASSUME LInv
  PROVE  /\ \A n : IsFiniteSet(Late(n)) /\ Cardinality(Late(n)) \in Nat
         /\ IsFiniteSet(Emptying) /\ IsFiniteSet(Filled)
         /\ \A n \in Indices(size) : IsFiniteSet(chain[gen][n])
<1>1. \A n : Late(n) \subseteq Threads  BY DEF Late
<1>2. Emptying \subseteq Threads  BY DEF Emptying
<1>3. Filled \subseteq Indices(size) /\ IsFiniteSet(Indices(size))
  BY Buckets DEF Filled, LInv, LTypes
<1>4. \A n \in Indices(size) : chain[gen][n] \subseteq Keys  BY DEF LInv, Content
<1> QED BY <1>1, <1>2, <1>3, <1>4, FS_Subset, FS_CardinalityType, LocksAssumption

(* Steps that leave the contents, and the threads that count, alone.       *)
LEMMA ContentSame ==
  ASSUME LInv, UNCHANGED <<gen, size, chain, count, fill, inserted, failed>>,
         \A n : Late(n)' = Late(n), Emptying' = Emptying,
         \A t \in Threads : pc'[t] = "fillwrite" => f'[t] = fill
  PROVE  Content'
<1>1. Filled' = Filled  BY DEF Filled
<1>2. \A n \in Indices(size) : count'[gen][n] + Cardinality(Late(n)') = Cardinality(chain'[gen][n])
  BY DEF LInv, Content
<1> HIDE DEF Late, Filled, Emptying
<1> QED BY <1>1, <1>2 DEF LInv, Content

(* Who counts stays the same where a thread goes between other places.     *)
LEMMA CountersSame ==
  ASSUME LInv, NEW t \in Threads, \A u \in Threads : u # t => pc'[u] = pc[u] /\ b'[u] = b[u] /\ op'[u] = op[u],
         pc[t] \in {"fillread", "fillwrite"} <=> pc'[t] \in {"fillread", "fillwrite"},
         \/ pc[t] \notin {"unlock", "statlock", "stat"} /\ pc'[t] \notin {"unlock", "statlock", "stat"}
         \/ op[t] # "insert" /\ op'[t] # "insert"
         \/ /\ pc[t] \in {"unlock", "statlock", "stat"} /\ pc'[t] \in {"unlock", "statlock", "stat"}
            /\ op'[t] = op[t] /\ b'[t] = b[t]
  PROVE  (\A n : Late(n)' = Late(n)) /\ Emptying' = Emptying
BY SMTT(60) DEF Late, Emptying


(* One element more.                                                       *)
LEMMA OneIn ==
  ASSUME NEW S, NEW T, NEW x, IsFiniteSet(S), x \notin S, T = S \cup {x}
  PROVE  Cardinality(T) = Cardinality(S) + 1
BY FS_AddElement
(* One element less.                                                       *)
LEMMA OneOut ==
  ASSUME NEW S, NEW T, NEW x, IsFiniteSet(S), x \in S, T = S \ {x}
  PROVE  Cardinality(T) = Cardinality(S) - 1
BY FS_RemoveElement
(* An entry of a function changed.                                         *)
LEMMA Entry ==
  ASSUME NEW F, NEW g \in DOMAIN F, NEW v
  PROVE  DOMAIN [F EXCEPT ![g] = v] = DOMAIN F /\ [F EXCEPT ![g] = v][g] = v
OBVIOUS

(* insert_internal puts a node in: one more key, and one more to count.    *)
LEMMA InsertContent ==
  ASSUME Careful, LInv, NEW t \in Threads, Insert(t)
  PROVE  Content'
<1> DEFINE s == b[t][2]
           k == key[t]
<1>1. /\ pc[t] = "insert" /\ op[t] = "insert" /\ k \in Keys
      /\ UNCHANGED <<gen, size, count, fill, failed, op, b, f>>
  BY DEF LInv, LTypes, Going, Insert, frame
<1>2. b[t][1] = gen /\ s \in Indices(size) /\ s = Slot(k, size)
  BY <1>1 DEF LInv, AtHome, AtBucket
<1>3. CASE Goto(t, "out") /\ UNCHANGED <<chain, inserted>>
  <2>1. \A u \in Threads : u # t => pc'[u] = pc[u]  BY <1>3 DEF Goto, LInv, LTypes
  <2>2. pc'[t] = "out"  BY <1>3 DEF Goto, LInv, LTypes
  <2>3. (\A n : Late(n)' = Late(n)) /\ Emptying' = Emptying  BY <1>1, <2>1, <2>2, CountersSame
  <2>4. \A u \in Threads : pc'[u] = "fillwrite" => f'[u] = fill
    BY <1>1, <2>1, <2>2 DEF LInv, Content
  <2> QED BY <1>1, <1>3, <2>3, <2>4, ContentSame
<1>4. CASE /\ k \notin InB(t) /\ Goto(t, "unlock")
           /\ chain' = [chain EXCEPT ![b[t][1]][b[t][2]] = @ \cup {k}]
           /\ inserted' = inserted \cup {k}
  <2>1. (\A u \in Threads : u # t => pc'[u] = pc[u]) /\ pc'[t] = "unlock"
    BY <1>4 DEF Goto, LInv, LTypes
  <2>2. /\ DOMAIN chain' = 0 .. gen /\ DOMAIN count' = 0 .. gen
        /\ chain'[gen] = [chain[gen] EXCEPT ![s] = @ \cup {k}]
    <3>1. gen \in DOMAIN chain /\ DOMAIN chain = 0 .. gen /\ DOMAIN count = 0 .. gen
      BY SMTT(60) DEF LInv, LTypes, Content
    <3>2. chain' = [chain EXCEPT ![gen] = [chain[gen] EXCEPT ![s] = @ \cup {k}]]  BY <1>2, <1>4
    <3> QED BY <1>1, <3>1, <3>2, Entry
  <2>3. /\ chain'[gen] \in [Indices(size) -> SUBSET Keys] /\ count'[gen] \in [Indices(size) -> Nat]
        /\ chain'[gen][s] = chain[gen][s] \cup {k}
        /\ \A n \in Indices(size) : n # s => chain'[gen][n] = chain[gen][n]
    BY <1>1, <1>2, <2>2, SMTT(60) DEF LInv, Content
  <2>4. \A j \in Keys : Slot(j, size) \in Indices(size)  BY SlotIsBucket DEF LInv, LTypes
  <2>5. \A j \in Keys : j \in inserted' <=> j \in chain'[gen][Slot(j, size)]
    BY <1>2, <1>4, <2>3, <2>4, SMTT(60) DEF LInv, Content
  <2>6. \A n \in Indices(size) : \A j \in chain'[gen][n] : Slot(j, size) = n
    BY <1>2, <2>3 DEF LInv, Content
  <2>7. Emptying' = Emptying  BY <1>1, <2>1 DEF Emptying
  <2>8. Late(s)' = Late(s) \cup {t} /\ t \notin Late(s)  BY <1>1, <2>1 DEF Late
  <2>9. \A n : n # s => Late(n)' = Late(n)  BY <1>1, <2>1 DEF Late
  <2>10. Cardinality(Late(s)') = Cardinality(Late(s)) + 1  BY <2>8, Finite, OneIn
  <2>11. Cardinality(chain'[gen][s]) = Cardinality(chain[gen][s]) + 1
    <3>1. k \notin chain[gen][s] /\ IsFiniteSet(chain[gen][s])  BY <1>2, <1>4, Finite DEF InB
    <3> QED BY <2>3, <3>1, OneIn
  <2>12. ASSUME NEW n \in Indices(size)
         PROVE  count'[gen][n] + Cardinality(Late(n)') = Cardinality(chain'[gen][n])
    <3>1. /\ count[gen][n] + Cardinality(Late(n)) = Cardinality(chain[gen][n])
          /\ count[gen][n] \in Nat /\ Cardinality(Late(n)) \in Nat
      BY Finite DEF LInv, Content
    <3>2. CASE n = s  BY <1>1, <2>10, <2>11, <3>1, <3>2, SMTT(60)
    <3>3. CASE n # s
      <4>1. chain'[gen][n] = chain[gen][n] /\ Late(n)' = Late(n) /\ count' = count
        BY <1>1, <2>3, <2>9, <3>3
      <4> QED BY <3>1, <4>1
    <3> QED BY <3>2, <3>3
  <2>13. Filled' = Filled  BY <1>1 DEF Filled
  <2>14. \A u \in Threads : pc'[u] = "fillwrite" => f'[u] = fill
    BY <1>1, <2>1 DEF LInv, Content
  <2>15. fill \in Int /\ fill = Cardinality(Filled) + Cardinality(Emptying) /\ failed = FALSE
    BY DEF LInv, Content
  <2> QED BY <1>1, <2>2, <2>3, <2>5, <2>6, <2>7, <2>12, <2>13, <2>14, <2>15 DEF Content
<1> QED BY <1>3, <1>4 DEF Insert

(* The statistics after an insertion: one more counted.                    *)
LEMMA StatContent ==
  ASSUME Careful, LInv, NEW t \in Threads, Stat(t)
  PROVE  Content'
<1> DEFINE s == b[t][2]
           c == count[gen][s] + 1
<1>1. pc[t] = "stat" /\ op[t] = "insert" /\ UNCHANGED <<gen, size, chain, inserted, failed, op, b, f>>
  BY DEF LInv, Going, Stat
<1>2. b[t][1] = gen /\ s \in Indices(size)  BY <1>1 DEF LInv, AtHome, AtBucket
<1>3. /\ count' = [count EXCEPT ![gen][s] = c]
      /\ fill' = IF c = 1 THEN fill + 1 ELSE fill
      /\ (\A u \in Threads : u # t => pc'[u] = pc[u]) /\ pc'[t] \in {"move", "statunlock"}
  BY <1>2 DEF Stat, Goto, LInv, LTypes
<1>4. count[gen][s] \in Nat /\ c \in Nat /\ c # 0  BY <1>2, SMTT(60) DEF LInv, Content
<1>5. /\ DOMAIN count' = 0 .. gen /\ count'[gen] = [count[gen] EXCEPT ![s] = c]
  <2>1. gen \in DOMAIN count /\ DOMAIN count = 0 .. gen  BY SMTT(60) DEF LInv, LTypes, Content
  <2>2. count' = [count EXCEPT ![gen] = [count[gen] EXCEPT ![s] = c]]  BY <1>3
  <2> QED BY <2>1, <2>2, Entry
<1>6. /\ count'[gen] \in [Indices(size) -> Nat] /\ count'[gen][s] = c
      /\ \A n \in Indices(size) : n # s => count'[gen][n] = count[gen][n]
  <2>1. count[gen] \in [Indices(size) -> Nat]  BY DEF LInv, Content
  <2> HIDE DEF s, c
  <2> QED BY <1>2, <1>4, <1>5, <2>1, Exchanged
<1>7. Emptying' = Emptying  BY <1>1, <1>3 DEF Emptying
<1>8. Late(s)' = Late(s) \ {t} /\ t \in Late(s)  BY <1>1, <1>3 DEF Late
<1>9. \A n : n # s => Late(n)' = Late(n)  BY <1>1, <1>3 DEF Late
<1>10. Cardinality(Late(s)') = Cardinality(Late(s)) - 1  BY <1>8, Finite, OneOut
<1>11. ASSUME NEW n \in Indices(size)
       PROVE  count'[gen][n] + Cardinality(Late(n)') = Cardinality(chain'[gen][n])
  <2>1. /\ count[gen][n] + Cardinality(Late(n)) = Cardinality(chain[gen][n])
        /\ count[gen][n] \in Nat /\ Cardinality(Late(n)) \in Nat
    BY Finite DEF LInv, Content
  <2>2. CASE n = s
    <3>1. /\ count'[gen][n] = count[gen][n] + 1 /\ Cardinality(Late(n)') = Cardinality(Late(n)) - 1
          /\ chain'[gen][n] = chain[gen][n]
      BY <1>1, <1>6, <1>10, <2>2
    <3>2. (count[gen][n] + 1) + (Cardinality(Late(n)) - 1) = count[gen][n] + Cardinality(Late(n))
      BY <2>1, CountedLate
    <3> QED BY <2>1, <3>1, <3>2
  <2>3. CASE n # s
    <3>1. count'[gen][n] = count[gen][n] /\ Late(n)' = Late(n) /\ chain' = chain
      BY <1>1, <1>6, <1>9, <2>3
    <3> QED BY <2>1, <3>1
  <2> QED BY <2>2, <2>3
<1>12. fill \in Int /\ fill = Cardinality(Filled) + Cardinality(Emptying) /\ failed = FALSE
       /\ Cardinality(Filled) \in Nat /\ Cardinality(Emptying) \in Nat
  BY Finite, FS_CardinalityType DEF LInv, Content
<1>13. Filled' = Filled \cup {s}  BY <1>1, <1>2, <1>4, <1>6 DEF Filled
<1>14. c = 1 <=> s \notin Filled  BY <1>2, <1>4, SMTT(60) DEF Filled
<1>15. fill' \in Int /\ fill' = Cardinality(Filled') + Cardinality(Emptying')
  <2>1. CASE s \in Filled
    <3>1. Filled' = Filled /\ fill' = fill  BY <1>3, <1>13, <1>14, <2>1
    <3> QED BY <1>7, <1>12, <3>1
  <2>2. CASE s \notin Filled
    <3>1. Cardinality(Filled') = Cardinality(Filled) + 1  BY <1>13, <2>2, Finite, OneIn
    <3>2. fill' = fill + 1  BY <1>3, <1>14, <2>2
    <3> QED BY <1>7, <1>12, <3>1, <3>2, SMTT(60)
  <2> QED BY <2>1, <2>2
<1>16. \A u \in Threads : pc'[u] = "fillwrite" => f'[u] = fill'
  <2>1. ASSUME NEW u \in Threads, pc'[u] = "fillwrite"  PROVE FALSE
    <3>1. u # t /\ pc[u] = "fillwrite"  BY <1>3, <2>1
    <3>2. locker = "null"  BY <3>1, NotThere, TwoLockers
    <3> QED BY <1>1, <3>1, <3>2, Alone
  <2> QED BY <2>1
<1> HIDE DEF s, c
<1> QED BY <1>1, <1>5, <1>6, <1>11, <1>12, <1>15, <1>16 DEF LInv, Content

(* A removal, or a resize, without locks: nobody else is there, so nobody  *)
(* is yet to count.                                                        *)
LEMMA NobodyCounts ==
  ASSUME LInv, NEW t \in Threads, pc[t] \in {"remove", "fillread", "fillwrite", "move"}
  PROVE  /\ locker = "null" /\ \A u \in Threads : u # t => pc[u] = "out"
         /\ \A n : Late(n) = {}
         /\ Emptying = IF pc[t] \in {"fillread", "fillwrite"} THEN {t} ELSE {}
<1>1. locker = "null"  BY NotThere, TwoLockers
<1>2. \A u \in Threads : u # t => pc[u] = "out"  BY <1>1, Alone
<1> QED BY <1>1, <1>2 DEF Late, Emptying

(* remove_node, for every node that goes: the asserts hold, and a bucket   *)
(* that becomes empty is yet to be taken off the fill count.               *)
LEMMA RemoveContent ==
  ASSUME Careful, LInv, NEW t \in Threads, Remove(t)
  PROVE  Content'
<1> DEFINE s == b[t][2]
           gone == InB(t) \cap (IF op[t] = "removeif" THEN KeysOf(t) ELSE {key[t]})
           m == Cardinality(gone)
           c == count[gen][s]
<1>1. pc[t] = "remove" /\ UNCHANGED <<gen, size, fill, op, b, f>>  BY DEF Remove, frame
<1>2. b[t][1] = gen /\ s \in Indices(size)  BY <1>1 DEF LInv, AtHome, AtBucket
<1>3. /\ chain' = [chain EXCEPT ![gen] = [chain[gen] EXCEPT ![s] = @ \ gone]]
      /\ count' = [count EXCEPT ![gen] = [count[gen] EXCEPT ![s] = c - m]]
      /\ failed' = (failed \/ \E j \in 1 .. m : (c = j) # (Cardinality(InB(t)) = j))
      /\ inserted' = inserted \ gone
      /\ pc' = [pc EXCEPT ![t] = IF c \in 1 .. m THEN "fillread" ELSE "unlock"]
  BY <1>2 DEF Remove, Goto
<1>4. InB(t) = chain[gen][s] /\ IsFiniteSet(chain[gen][s])  BY <1>2, Finite DEF InB
<1>5. gone \subseteq chain[gen][s]  BY <1>4
<1>6. \A n : Late(n) = {}  BY <1>1, NobodyCounts
<1>7. \A n \in Indices(size) : count[gen][n] = Cardinality(chain[gen][n]) /\ count[gen][n] \in Nat
  <2>1. \A n \in Indices(size) : /\ count[gen][n] + Cardinality(Late(n)) = Cardinality(chain[gen][n])
                                 /\ count[gen][n] \in Nat
    BY DEF LInv, Content
  <2> QED BY <1>6, <2>1, FS_EmptySet, SMTT(60)
<1>8. /\ c = Cardinality(chain[gen][s]) /\ c \in Nat /\ m \in Nat /\ m <= c
      /\ Cardinality(chain[gen][s] \ gone) = c - m
  <2>1. IsFiniteSet(gone) /\ m <= Cardinality(chain[gen][s]) /\ m \in Nat
    BY <1>4, <1>5, FS_Subset, FS_CardinalityType
  <2>2. chain[gen][s] \cap gone = gone  BY <1>5
  <2>3. Cardinality(chain[gen][s] \ gone) = Cardinality(chain[gen][s]) - Cardinality(chain[gen][s] \cap gone)
    BY <1>4, <2>1, FS_Difference
  <2> QED BY <1>2, <1>7, <2>1, <2>2, <2>3
<1> HIDE DEF gone, m
<1>9. failed' = FALSE
  <2>1. failed = FALSE  BY DEF LInv, Content
  <2>2. \A j \in 1 .. m : (c = j) = (Cardinality(InB(t)) = j)  BY <1>4, <1>8
  <2> QED BY <1>3, <2>1, <2>2
<1>10. /\ DOMAIN chain' = 0 .. gen /\ DOMAIN count' = 0 .. gen
       /\ chain'[gen] = [chain[gen] EXCEPT ![s] = @ \ gone]
       /\ count'[gen] = [count[gen] EXCEPT ![s] = c - m]
  <2>1. /\ gen \in DOMAIN chain /\ DOMAIN chain = 0 .. gen
        /\ gen \in DOMAIN count /\ DOMAIN count = 0 .. gen
    BY SMTT(60) DEF LInv, LTypes, Content
  <2> QED BY <1>3, <2>1, Entry
<1>11. /\ chain'[gen] \in [Indices(size) -> SUBSET Keys]
       /\ chain'[gen][s] = chain[gen][s] \ gone
       /\ \A n \in Indices(size) : n # s => chain'[gen][n] = chain[gen][n]
  BY <1>2, <1>10, SMTT(60) DEF LInv, Content
<1>12. /\ count'[gen] \in [Indices(size) -> Nat] /\ count'[gen][s] = c - m
       /\ \A n \in Indices(size) : n # s => count'[gen][n] = count[gen][n]
  <2>1. c - m \in Nat  BY <1>8, SMTT(60)
  <2>2. count[gen] \in [Indices(size) -> Nat]  BY DEF LInv, Content
  <2> QED BY <1>2, <1>10, <2>1, <2>2, Exchanged
<1>13. \A j \in Keys : Slot(j, size) \in Indices(size)  BY SlotIsBucket DEF LInv, LTypes
<1>14. \A j \in gone : Slot(j, size) = s  BY <1>2, <1>5 DEF LInv, Content
<1>15. \A j \in Keys : j \in inserted' <=> j \in chain'[gen][Slot(j, size)]
  BY <1>3, <1>11, <1>13, <1>14 DEF LInv, Content
<1>16. \A n \in Indices(size) : \A j \in chain'[gen][n] : Slot(j, size) = n
  BY <1>2, <1>11 DEF LInv, Content
<1>17. \A u \in Threads : u # t => pc[u] = "out" /\ pc'[u] = "out"  BY <1>1, <1>3, NobodyCounts, SMTT(60)
<1>18. \A n : Late(n)' = {}
  <2>1. op[t] # "insert"  BY <1>1 DEF LInv, Going
  <2> QED BY <1>1, <1>17, <2>1 DEF Late
<1>19. \A n \in Indices(size) : count'[gen][n] + Cardinality(Late(n)') = Cardinality(chain'[gen][n])
  <2>1. \A n \in Indices(size) : count'[gen][n] = Cardinality(chain'[gen][n]) /\ count'[gen][n] \in Nat
    BY <1>7, <1>8, <1>11, <1>12
  <2>2. \A n : Cardinality(Late(n)') = 0  BY <1>18, FS_EmptySet
  <2> QED BY <2>1, <2>2, SMTT(60)
<1>20. Emptying = {} /\ fill = Cardinality(Filled) /\ fill \in Int
  <2>1. Emptying = {}  BY <1>1, NobodyCounts
  <2>2. Cardinality(Filled) \in Nat  BY Finite, FS_CardinalityType
  <2> QED BY <2>1, <2>2, FS_EmptySet, SMTT(60) DEF LInv, Content
<1>21. fill' = Cardinality(Filled') + Cardinality(Emptying')
  <2>0. \A n \in Indices(size) : n # s => (n \in Filled' <=> n \in Filled)
    BY <1>1, <1>12 DEF Filled
  <2>1. CASE c \in 1 .. m
    <3>1. c = m /\ c # 0 /\ count'[gen][s] = 0
      <4>1. c = m /\ c # 0 /\ c - m = 0  BY <1>8, <2>1, AllGone
      <4> QED BY <1>12, <4>1
    <3>2. Filled' = Filled \ {s} /\ s \in Filled
      <4>1. s \in Filled /\ s \notin Filled'  BY <1>1, <1>2, <3>1 DEF Filled
      <4>2. Filled \subseteq Indices(size) /\ Filled' \subseteq Indices(size)  BY <1>1 DEF Filled
      <4> QED BY <2>0, <4>1, <4>2
    <3>3. Emptying' = {t}
      <4>1. pc'[t] = "fillread"  BY <1>3, <2>1 DEF LInv, LTypes
      <4> QED BY <1>17, <4>1 DEF Emptying
    <3>4. Cardinality(Filled') = Cardinality(Filled) - 1  BY <3>2, Finite, OneOut
    <3>5. Cardinality(Emptying') = 1  BY <3>3, FS_Singleton
    <3> QED BY <1>1, <1>20, <3>4, <3>5, SMTT(60)
  <2>2. CASE c \notin 1 .. m
    <3>1. c = 0 <=> count'[gen][s] = 0  BY <1>8, <1>12, <2>2, SMTT(60)
    <3>2. Filled' = Filled
      <4>1. s \in Filled <=> s \in Filled'  BY <1>1, <1>2, <3>1 DEF Filled
      <4>2. Filled \subseteq Indices(size) /\ Filled' \subseteq Indices(size)  BY <1>1 DEF Filled
      <4> QED BY <2>0, <4>1, <4>2, SMTT(60)
    <3>3. Emptying' = {}
      <4>1. pc'[t] = "unlock"  BY <1>3, <2>2 DEF LInv, LTypes
      <4> QED BY <1>17, <4>1 DEF Emptying
    <3> QED BY <1>1, <1>20, <3>2, <3>3, FS_EmptySet, SMTT(60)
  <2> QED BY <2>1, <2>2
<1>22. \A u \in Threads : pc'[u] # "fillwrite"
  <2>1. pc'[t] # "fillwrite"  BY <1>3 DEF LInv, LTypes
  <2> QED BY <1>17, <2>1
<1> QED BY <1>1, <1>9, <1>10, <1>11, <1>12, <1>15, <1>16, <1>19, <1>20, <1>21, <1>22 DEF Content

(* The fill count is decremented: the bucket is off the count.             *)
LEMMA FillWriteContent ==
  ASSUME Careful, LInv, NEW t \in Threads, FillWrite(t)
  PROVE  Content'
<1>1. /\ pc[t] = "fillwrite" /\ pc' = [pc EXCEPT ![t] = "unlock"] /\ fill' = f[t] - 1
      /\ UNCHANGED <<gen, size, chain, count, inserted, failed, op, b, f>>
  BY DEF FillWrite, Goto, frame
<1>2. f[t] = fill /\ fill \in Int  BY <1>1 DEF LInv, Content
<1>3. \A u \in Threads : u # t => pc[u] = "out" /\ pc'[u] = "out"  BY <1>1, NobodyCounts, SMTT(60)
<1>4. pc'[t] = "unlock" /\ op[t] # "insert"  BY <1>1 DEF LInv, LTypes, Going
<1>5. \A n : Late(n)' = Late(n)  BY <1>1, <1>3, <1>4 DEF Late
<1>6. Emptying = {t} /\ Emptying' = {}
  <2>1. Emptying' = {}  BY <1>3, <1>4 DEF Emptying
  <2> QED BY <1>1, <2>1, NobodyCounts
<1>7. Filled' = Filled  BY <1>1 DEF Filled
<1>8. fill' = Cardinality(Filled') + Cardinality(Emptying') /\ fill' \in Int
  <2>1. Cardinality(Emptying) = 1 /\ Cardinality(Emptying') = 0  BY <1>6, FS_Singleton, FS_EmptySet
  <2>2. Cardinality(Filled) \in Nat  BY Finite, FS_CardinalityType
  <2>3. fill = Cardinality(Filled) + Cardinality(Emptying)  BY DEF LInv, Content
  <2> QED BY <1>1, <1>2, <1>7, <2>1, <2>2, <2>3, SMTT(60)
<1>9. \A u \in Threads : pc'[u] # "fillwrite"  BY <1>3, <1>4
<1>10. \A n \in Indices(size) : count'[gen][n] + Cardinality(Late(n)') = Cardinality(chain'[gen][n])
  BY <1>1, <1>5 DEF LInv, Content
<1> QED BY <1>1, <1>8, <1>9, <1>10 DEF LInv, Content

(* The new array of a resize: every key in its bucket, counted.            *)
LEMMA SwapContent ==
  ASSUME Careful, LInv, NEW t \in Threads, Swap(t)
  PROVE  Content'
<1>1. /\ pc[t] = "move" /\ i[t] = size /\ pc' = [pc EXCEPT ![t] = "statunlock"]
      /\ gen' = gen + 1 /\ size' = 2 * size /\ UNCHANGED <<inserted, failed, op, b, f>>
  BY DEF Swap, Goto, frame
<1>2. gen' \in Nat /\ gen' \in 0 .. gen + 1 /\ size' \in Nat \ {0}  BY <1>1, SMTT(60) DEF LInv, LTypes
<1>3. /\ DOMAIN chain' = 0 .. gen' /\ DOMAIN count' = 0 .. gen' /\ chain'[gen'] = moved
      /\ count'[gen'] = [n \in Indices(size') |-> Cardinality(moved[n])]
      /\ fill' = Cardinality({n \in Indices(size') : moved[n] # {}})
  BY <1>1, <1>2 DEF Swap
<1>4. \A k \in Keys : Slot(k, size) < size /\ Slot(k, size') \in Indices(size')
  <2>1. \A k \in Keys : Slot(k, size) \in 0 .. size - 1  BY SlotIsBucket DEF LInv, LTypes, Indices
  <2>2. \A x \in 0 .. size - 1 : x < size  BY SMTT(60) DEF LInv, LTypes
  <2> QED BY <1>2, <2>1, <2>2, SlotIsBucket
<1>5. moved = [n \in Indices(size') |-> {k \in inserted : Slot(k, size') = n}]
  <2>1. moved = [n \in Indices(2 * size) |->
                   {k \in inserted : Slot(k, size) < i[t] /\ Slot(k, 2 * size) = n}]
    BY <1>1 DEF LInv, Moving
  <2>2. \A k \in inserted : Slot(k, size) < i[t]  BY <1>1, <1>4 DEF LInv, LTypes
  <2> QED BY <1>1, <2>1, <2>2
<1>6. inserted \subseteq Keys  BY DEF LInv, LTypes
<1>7. \A n \in Indices(size') : moved[n] \subseteq Keys /\ IsFiniteSet(moved[n]) /\ Cardinality(moved[n]) \in Nat
  <2>1. \A n \in Indices(size') : moved[n] \subseteq Keys  BY <1>5, <1>6
  <2> QED BY <2>1, FS_Subset, FS_CardinalityType, LocksAssumption
<1>8. /\ chain'[gen'] \in [Indices(size') -> SUBSET Keys] /\ count'[gen'] \in [Indices(size') -> Nat]
  <2>1. chain'[gen'] \in [Indices(size') -> SUBSET Keys]  BY <1>3, <1>5, <1>6
  <2> QED BY <1>3, <1>7, <2>1
<1>9. \A k \in Keys : k \in inserted' <=> k \in chain'[gen'][Slot(k, size')]
  BY <1>1, <1>3, <1>4, <1>5
<1>10. \A n \in Indices(size') : \A k \in chain'[gen'][n] : Slot(k, size') = n
  BY <1>3, <1>5
<1>11. pc'[t] = "statunlock" /\ \A u \in Threads : u # t => pc'[u] = "out"
  BY <1>1, NobodyCounts DEF LInv, LTypes
<1>12. Emptying' = {} /\ \A n : Late(n)' = {}  BY <1>11 DEF Emptying, Late
<1>13. \A n \in Indices(size') : count'[gen'][n] + Cardinality(Late(n)') = Cardinality(chain'[gen'][n])
  <2>1. \A n : Cardinality(Late(n)') = 0  BY <1>12, FS_EmptySet
  <2>2. \A n \in Indices(size') : count'[gen'][n] = Cardinality(chain'[gen'][n]) /\ count'[gen'][n] \in Nat
    BY <1>3, <1>7
  <2> QED BY <2>1, <2>2, SMTT(60)
<1>14. Filled' = {n \in Indices(size') : moved[n] # {}}
  <2>1. \A n \in Indices(size') : count'[gen'][n] # 0 <=> moved[n] # {}
    BY <1>3, <1>7, FS_EmptySet
  <2> QED BY <2>1 DEF Filled
<1>15. fill' \in Int /\ fill' = Cardinality(Filled') + Cardinality(Emptying')
  <2>1. IsFiniteSet(Indices(size'))  BY <1>2, FS_Interval, SMTT(60) DEF Indices
  <2>2. Cardinality(Filled') \in Nat  BY <1>14, <2>1, FS_Subset, FS_CardinalityType
  <2>3. Cardinality(Emptying') = 0  BY <1>12, FS_EmptySet
  <2>4. fill' = Cardinality(Filled')  BY <1>3, <1>14
  <2> QED BY <2>2, <2>3, <2>4, NothingMore
<1>16. \A u \in Threads : pc'[u] # "fillwrite"  BY <1>11
<1>17. failed' = FALSE  BY <1>1 DEF LInv, Content
<1> QED BY <1>3, <1>8, <1>9, <1>10, <1>13, <1>15, <1>16, <1>17 DEF Content

(* The contents, and what is yet to be counted.                            *)
LEMMA ContentKept ==
  ASSUME Careful, LInv, use' = use, locker' = locker, NEW t \in Threads, Action(t)
  PROVE  Content'
<1> USE DEF LInv, LTypes, Goto
<1>0. ASSUME UNCHANGED <<gen, size, chain, count, fill, inserted, failed, f>>,
             \A u \in Threads : u # t => pc'[u] = pc[u] /\ b'[u] = b[u] /\ op'[u] = op[u],
             pc[t] \notin {"fillread", "fillwrite"}, pc'[t] \notin {"fillread", "fillwrite"},
             \/ pc[t] \notin {"unlock", "statlock", "stat"} /\ pc'[t] \notin {"unlock", "statlock", "stat"}
             \/ op[t] # "insert" /\ op'[t] # "insert"
             \/ /\ pc[t] \in {"unlock", "statlock", "stat"} /\ pc'[t] \in {"unlock", "statlock", "stat"}
                /\ op'[t] = op[t] /\ b'[t] = b[t]
      PROVE  Content'
  <2>1. (\A n : Late(n)' = Late(n)) /\ Emptying' = Emptying  BY <1>0, CountersSame
  <2>2. \A u \in Threads : pc'[u] = "fillwrite" => f'[u] = fill  BY <1>0 DEF Content
  <2> QED BY <1>0, <2>1, <2>2, ContentSame
<1>1. CASE Call(t)
  <2>1. \A u \in Threads : u # t => op'[u] = op[u] /\ b'[u] = b[u] /\ pc'[u] = pc[u]  BY <1>1 DEF Call
  <2>2. pc[t] = "out" /\ pc'[t] \in {"lock", "walklock"}  BY <1>1 DEF Call
  <2>3. UNCHANGED <<gen, size, chain, count, fill, inserted, failed, f>>  BY <1>1 DEF Call, table
  <2> QED BY <1>0, <2>1, <2>2, <2>3
<1>2. CASE Lock(t)  BY <1>2, <1>0 DEF Lock, table, frame, Going
<1>3. CASE Insert(t)  BY <1>3, InsertContent
<1>4. CASE Lookup(t)  BY <1>4, <1>0 DEF Lookup, table, frame, Going
<1>5. CASE Remove(t)  BY <1>5, RemoveContent
<1>6. CASE FillRead(t)
  <2>1. /\ pc[t] = "fillread" /\ pc' = [pc EXCEPT ![t] = "fillwrite"] /\ f' = [f EXCEPT ![t] = fill]
        /\ UNCHANGED <<gen, size, chain, count, fill, inserted, failed, op, b>>
    BY <1>6 DEF FillRead, table
  <2>2. (\A n : Late(n)' = Late(n)) /\ Emptying' = Emptying  BY <2>1, CountersSame
  <2>3. \A u \in Threads : pc'[u] = "fillwrite" => f'[u] = fill  BY <2>1 DEF Content
  <2> QED BY <2>1, <2>2, <2>3, ContentSame
<1>7. CASE FillWrite(t)  BY <1>7, FillWriteContent
<1>8. CASE Unlock(t)
  <2>1. /\ pc[t] = "unlock" /\ \A u \in Threads : u # t => pc'[u] = pc[u]
        /\ pc'[t] = CASE op[t] = "insert" -> "statlock" [] op[t] = "removeif" -> "walk" [] OTHER -> "out"
        /\ UNCHANGED <<gen, size, chain, count, fill, inserted, failed, op, b, f>>
    BY <1>8 DEF Unlock, table, frame
  <2>2. \/ op[t] = "insert" /\ pc'[t] = "statlock"
        \/ op[t] # "insert" /\ pc'[t] \in {"walk", "out"}
    BY <2>1
  <2> QED BY <1>0, <2>1, <2>2
<1>9. CASE StatLock(t)  BY <1>9, <1>0 DEF StatLock, table, frame
<1>10. CASE Stat(t)  BY <1>10, StatContent
<1>11. CASE Move(t)
  <2>1. UNCHANGED <<gen, size, chain, count, fill, inserted, failed, pc, op, b, f>>  BY <1>11 DEF Move
  <2>2. (\A n : Late(n)' = Late(n)) /\ Emptying' = Emptying  BY <2>1 DEF Late, Emptying
  <2>3. \A u \in Threads : pc'[u] = "fillwrite" => f'[u] = fill  BY <2>1 DEF Content
  <2> QED BY <2>1, <2>2, <2>3, ContentSame
<1>12. CASE Swap(t)  BY <1>12, SwapContent
<1>13. CASE StatUnlock(t)  BY <1>13, <1>0 DEF StatUnlock, table, frame
<1>14. CASE WalkLock(t)  BY <1>14, <1>0 DEF WalkLock, table, frame
<1>15. CASE Relock(t)  BY <1>15, <1>0 DEF Relock, table, frame
<1>16. CASE Walk(t)
  <2>1. UNCHANGED <<gen, size, chain, count, fill, inserted, failed, pc, op, b, f>>  BY <1>16 DEF Walk, table
  <2>2. (\A n : Late(n)' = Late(n)) /\ Emptying' = Emptying  BY <2>1 DEF Late, Emptying
  <2>3. \A u \in Threads : pc'[u] = "fillwrite" => f'[u] = fill  BY <2>1 DEF Content
  <2> QED BY <2>1, <2>2, <2>3, ContentSame
<1>17. CASE WalkRemove(t)  BY <1>17, <1>0 DEF WalkRemove, table
<1>18. CASE WalkUnlock(t)  BY <1>18, <1>0 DEF WalkUnlock, table, frame
<1> QED BY <1>1, <1>2, <1>3, <1>4, <1>5, <1>6, <1>7, <1>8, <1>9, <1>10, <1>11, <1>12, <1>13, <1>14,
           <1>15, <1>16, <1>17, <1>18 DEF Action

(* The invariant holds initially.                                          *)
LEMMA LInit ==
  ASSUME Init
  PROVE  LInv
<1> USE DEF Init
<1>1. LTypes
  <2>1. (CHOOSE k \in Keys : TRUE) \in Keys  BY LocksAssumption
  <2>2. <<0, 0>> \in Nat \X Nat  OBVIOUS
  <2> QED BY <2>1, <2>2, LocksAssumption, SMTT(60) DEF LTypes, Places
<1>2. Going /\ AtHome /\ Moving  BY DEF Going, AtHome, AtBucket, Moving
<1>3. Modes /\ LocksHeld  BY LocksAssumption DEF Modes, LocksHeld
<1>4. Emptying = {} /\ Filled = {} /\ \A n : Late(n) = {}  BY DEF Emptying, Filled, Late
<1>5. Cardinality(Emptying) = 0 /\ Cardinality(Filled) = 0 /\ \A n : Cardinality(Late(n)) = 0
  BY <1>4, FS_EmptySet
<1>6. \A k \in Keys : Slot(k, size) \in Indices(size)  BY SlotIsBucket, LocksAssumption
<1>7. /\ DOMAIN chain = 0 .. 0 /\ DOMAIN count = 0 .. 0
      /\ chain[0] = [n \in Indices(size) |-> {}] /\ count[0] = [n \in Indices(size) |-> 0]
  BY SMTT(60)
<1>8. \A n \in Indices(size) : count[0][n] + Cardinality(Late(n)) = Cardinality(chain[0][n])
  BY <1>5, <1>7, FS_EmptySet, SMTT(60)
<1>9. Content  BY <1>5, <1>6, <1>7, <1>8, SMTT(60) DEF Content
<1> QED BY <1>1, <1>2, <1>3, <1>9 DEF LInv

(* Every step keeps the invariant.                                         *)
LEMMA LStep ==
  ASSUME Careful, LInv, [Next]_vars
  PROVE  LInv'
<1>1. CASE Next
  <2>1. use' = use /\ locker' = locker /\ \E t \in Threads : Action(t)  BY <1>1, OneAction
  <2> QED BY <2>1, TypesKept, GoingKept, HomeKept, ModesKept, LocksKept, MovingKept, ContentKept DEF LInv
<1>2. CASE UNCHANGED vars
  <2> USE <1>2 DEF vars, LInv
  <2>1. LTypes'  BY DEF LTypes
  <2>2. Going'  BY DEF Going, KeysOf
  <2>3. AtHome'  BY DEF AtHome
  <2>4. Modes'  BY DEF Modes
  <2>5. LocksHeld'  BY DEF LocksHeld
  <2>6. Content'
    <3>1. (\A n : Late(n)' = Late(n)) /\ Filled' = Filled /\ Emptying' = Emptying
      BY DEF Late, Filled, Emptying
    <3> QED BY <3>1 DEF Content
  <2>7. Moving'  BY DEF Moving
  <2> QED BY <2>1, <2>2, <2>3, <2>4, <2>5, <2>6, <2>7
<1> QED BY <1>1, <1>2

(* Care is taken for good.                                                 *)
LEMMA CarefulStays ==
  ASSUME [Next]_vars
  PROVE  Careful' = Careful
<1>1. use' = use /\ locker' = locker  BY OneAction DEF vars
<1> QED BY <1>1 DEF Careful, NoErrors, Ops, KeysOf, FreshOnly, NodeFails, FillMax

(* Of a table used with care the invariant always holds.                   *)
LEMMA LHolds == Spec => [](Careful => LInv)
<1>1. Init => (Careful => LInv)  BY LInit
<1>2. (Careful => LInv) /\ [Next]_vars => (Careful => LInv)'  BY LStep, CarefulStays
<1> QED BY <1>1, <1>2, PTL DEF Spec

(* Of a table used with care: between calls it holds what was inserted and *)
(* not removed, each key in the bucket where lookups look, the counts of   *)
(* insert_internal, remove_node and resize agree with the chains, and the  *)
(* asserts of remove_node hold.                                            *)
THEOREM TableKeepsAll == Spec => []NothingLost
<1>1. ASSUME Careful => LInv, Careful  PROVE NothingLost
  <2>0. LInv  BY <1>1
  <2>1. ~ failed  BY <2>0 DEF LInv, Content
  <2>2. ASSUME Quiet
        PROVE  /\ \A k \in Keys : k \in inserted <=> k \in chain[gen][Hash[k] % size]
               /\ \A n \in Indices(size) : count[gen][n] = Cardinality(chain[gen][n])
               /\ fill = Cardinality({n \in Indices(size) : chain[gen][n] # {}})
    <3>1. \A k \in Keys : k \in inserted <=> k \in chain[gen][Hash[k] % size]
      BY <2>0 DEF LInv, Content, Slot
    <3>2. Emptying = {} /\ \A n : Late(n) = {}  BY <2>2 DEF Quiet, Emptying, Late
    <3>3. Cardinality(Emptying) = 0 /\ \A n : Cardinality(Late(n)) = 0  BY <3>2, FS_EmptySet
    <3>4. \A n \in Indices(size) : count[gen][n] = Cardinality(chain[gen][n])
      <4>1. \A n \in Indices(size) : /\ count[gen][n] + Cardinality(Late(n)) = Cardinality(chain[gen][n])
                                     /\ count[gen][n] \in Nat
        BY <2>0 DEF LInv, Content
      <4> QED BY <3>3, <4>1, SMTT(60)
    <3>5. Filled = {n \in Indices(size) : chain[gen][n] # {}}
      <4>1. \A n \in Indices(size) : count[gen][n] # 0 <=> chain[gen][n] # {}
        BY <2>0, <3>4, Finite, FS_EmptySet
      <4> QED BY <4>1 DEF Filled
    <3>6. fill = Cardinality(Filled)
      <4>1. fill = Cardinality(Filled) + Cardinality(Emptying)  BY <2>0 DEF LInv, Content
      <4>2. Cardinality(Filled) \in Nat  BY <2>0, Finite, FS_CardinalityType
      <4> QED BY <3>3, <4>1, <4>2, SMTT(60)
    <3> QED BY <3>1, <3>4, <3>5, <3>6
  <2> QED BY <2>1, <2>2 DEF NothingLost
<1>2. (Careful => LInv) => NothingLost  BY <1>1 DEF NothingLost
<1> QED BY <1>2, LHolds, PTL
=============================================================================
