---------------------------- MODULE HashtabLocks ----------------------------
(***************************************************************************)
(* The locking of src/hashtable/hashtab.c and hashtab_iter.c: one lock per *)
(* bucket, one for the table, and a resize that replaces the bucket array. *)
(* Resize hands the mutex of bucket i on to bucket i of the new array, so  *)
(* a bucket mutex is named by its index; an array is named by its number.  *)
(* Chains are sets of keys.                                                *)
(***************************************************************************)
EXTENDS Integers, FiniteSets

CONSTANTS Threads, NoThread, Keys,
          Hash,        (* key -> hash                                      *)
          Usage,       (* name -> a way to use a table: see below          *)
          Size0,
          MaxGen       (* bound: no resize past array MaxGen               *)

ASSUME LocksAssumption ==
  /\ Size0 \in Nat \ {0}
  /\ \A u \in DOMAIN Usage :
       /\ Usage[u].locker \in {"mutex", "null"} /\ Usage[u].fillmax \in 1 .. 99
       /\ Usage[u].ops \subseteq {"insert", "lookup", "remove", "removeif", "apply", "sorted"}
       /\ \A t \in Threads : Usage[u].keys[t] \subseteq Keys
  /\ IsFiniteSet(Threads) /\ NoThread \notin Threads
  /\ IsFiniteSet(Keys) /\ Keys # {} /\ Hash \in [Keys -> Nat]

VARIABLES use, locker, (* the usage; "mutex" or "null": Mutex_locker,     *)
                       (* Null_locker                                      *)
          gen, size,   (* tab->buckets: the array in use; tab->size        *)
          freed,       (* arrays given back                                *)
          chain, count,            (* per array and bucket                 *)
          fill,
          mutex, tablock,          (* owners                               *)
          pc, op, key, b, i,       (* per thread; b is <<array, index>>    *)
          f,           (* per thread: fill as read, to be decremented      *)
          moved,       (* chains of the array that a resize is filling     *)
          calls, inserted, failed, (* history; failed: an assert failed    *)
          leaked       (* history: <<t, n>>, t's insertion into bucket n   *)
                       (* returned an error                                *)

vars == <<use, locker, gen, size, freed, chain, count, fill, mutex, tablock, pc, op, key, b, i, f,
          moved, calls, inserted, failed, leaked>>
table == <<gen, size, freed, chain, count, fill, moved>>
locks == <<mutex, tablock>>
frame == <<op, key, b, i, f, calls>>

Ops == Usage[use].ops                \* operations called
KeysOf(t) == Usage[use].keys[t]      \* keys that the calls of t use
FreshOnly == Usage[use].fresh        \* callers insert no key that is present
NodeFails == Usage[use].nomem        \* the allocation of a node or array may fail
FillMax == Usage[use].fillmax        \* tab->fillmax
MaxOps == Usage[use].calls           \* bound: calls of one thread

(* Every thread inserts keys of its own that are not there yet, and memory *)
(* does not run out: no call meets an error.                               *)
NoErrors ==
  /\ FreshOnly = TRUE /\ NodeFails = FALSE
  /\ \A s, t \in Threads : s # t => KeysOf(s) \cap KeysOf(t) = {}

(* Threads that share a table insert without errors, look up and walk, and *)
(* it does not grow before every bucket is in use; one thread alone may do *)
(* anything.                                                               *)
Careful ==
  locker = "mutex" => Ops \subseteq {"insert", "lookup", "apply"} /\ NoErrors /\ FillMax = 99

Indices(n) == 0 .. n - 1
Home(k) == <<gen, Hash[k] % size>>

Init ==
  /\ use \in DOMAIN Usage /\ locker = Usage[use].locker
  /\ gen = 0 /\ size = Size0 /\ freed = {} /\ fill = 0
  /\ chain = [g \in {0} |-> [n \in Indices(Size0) |-> {}]]
  /\ count = [g \in {0} |-> [n \in Indices(Size0) |-> 0]]
  /\ moved = << >>
  /\ mutex = [n \in Indices(Size0) |-> NoThread] /\ tablock = NoThread
  /\ pc = [t \in Threads |-> "out"] /\ op = [t \in Threads |-> "none"]
  /\ key = [t \in Threads |-> CHOOSE k \in Keys : TRUE]
  /\ b = [t \in Threads |-> <<0, 0>>] /\ i = [t \in Threads |-> 0]
  /\ f = [t \in Threads |-> 0]
  /\ calls = [t \in Threads |-> 0] /\ inserted = {} /\ failed = FALSE
  /\ leaked = {}

Goto(t, l) == pc' = [pc EXCEPT ![t] = l]

(* lockmgr_lock, lockmgr_unlock; nothing happens with the null locker. *)
LockB(t, n) == IF locker = "null" THEN UNCHANGED mutex
               ELSE mutex[n] = NoThread /\ mutex' = [mutex EXCEPT ![n] = t]
UnlockB(n) == IF locker = "null" THEN UNCHANGED mutex ELSE mutex' = [mutex EXCEPT ![n] = NoThread]
LockT(t) == IF locker = "null" THEN UNCHANGED tablock ELSE tablock = NoThread /\ tablock' = t
UnlockT == IF locker = "null" THEN UNCHANGED tablock ELSE tablock' = NoThread
-----------------------------------------------------------------------------
(* insert, lookup and remove hash their key and pick the bucket without    *)
(* a lock; the walks and iterators take the table lock first.  A table     *)
(* without locks is used by one thread.                                    *)
Call(t) ==
  /\ pc[t] = "out" /\ calls[t] < MaxOps
  /\ locker = "null" => \A u \in Threads \ {t} : calls[u] = 0
  /\ calls' = [calls EXCEPT ![t] = @ + 1]
  /\ \E o \in Ops, k \in KeysOf(t) :
       /\ FreshOnly /\ o = "insert" => k \notin inserted
       /\ op' = [op EXCEPT ![t] = o] /\ key' = [key EXCEPT ![t] = k]
       /\ b' = [b EXCEPT ![t] = Home(k)]
       /\ Goto(t, IF o \in {"insert", "lookup", "remove"} THEN "lock" ELSE "walklock")
  /\ i' = [i EXCEPT ![t] = 0]
  /\ UNCHANGED <<table, locks, f, inserted, failed, leaked>>

Lock(t) ==
  /\ pc[t] = "lock" /\ LockB(t, b[t][2]) /\ Goto(t, op[t])
  /\ UNCHANGED <<table, tablock, frame, inserted, failed, leaked>>

InB(t) == chain[b[t][1]][b[t][2]]

(* insert_internal: the collision and out-of-memory paths go to _done,     *)
(* which is past the unlock.                                               *)
Insert(t) ==
  /\ pc[t] = "insert"
  /\ \/ /\ key[t] \in InB(t) \/ NodeFails
        /\ Goto(t, "out") /\ leaked' = leaked \cup {<<t, b[t][2]>>} /\ UNCHANGED <<chain, inserted>>
     \/ /\ key[t] \notin InB(t) /\ Goto(t, "unlock")
        /\ chain' = [chain EXCEPT ![b[t][1]][b[t][2]] = @ \cup {key[t]}]
        /\ inserted' = inserted \cup {key[t]} /\ UNCHANGED leaked
  /\ UNCHANGED <<gen, size, freed, count, fill, moved, locks, frame, failed>>

Lookup(t) ==
  /\ pc[t] = "lookup" /\ Goto(t, "unlock")
  /\ UNCHANGED <<table, locks, frame, inserted, failed, leaked>>

(* hash_table_remove, a bucket of hash_table_remove_if (whose predicate is *)
(* true of the thread's keys), and remove_node with its asserts, for every *)
(* node that goes.  The fill count is decremented without the table lock.  *)
Remove(t) ==
  /\ pc[t] = "remove"
  /\ LET gone == InB(t) \cap (IF op[t] = "removeif" THEN KeysOf(t) ELSE {key[t]})
         n == Cardinality(gone)
         c == count[b[t][1]][b[t][2]]
     IN  /\ chain' = [chain EXCEPT ![b[t][1]][b[t][2]] = @ \ gone]
         /\ count' = [count EXCEPT ![b[t][1]][b[t][2]] = c - n]
         /\ failed' = (failed \/ \E j \in 1 .. n : (c = j) # (Cardinality(InB(t)) = j))
         /\ inserted' = inserted \ gone
         /\ Goto(t, IF c \in 1 .. n THEN "fillread" ELSE "unlock")
  /\ UNCHANGED <<gen, size, freed, fill, moved, locks, frame, leaked>>

(* --tab->stats.fill of remove_node: a load and a store *)
FillRead(t) ==
  /\ pc[t] = "fillread" /\ Goto(t, "fillwrite") /\ f' = [f EXCEPT ![t] = fill]
  /\ UNCHANGED <<table, locks, op, key, b, i, calls, inserted, failed, leaked>>

FillWrite(t) ==
  /\ pc[t] = "fillwrite" /\ Goto(t, "unlock") /\ fill' = f[t] - 1
  /\ UNCHANGED <<gen, size, freed, chain, count, moved, locks, frame, inserted, failed, leaked>>

UnlockLate(t) ==             \* fault: an insertion unlocks after it has the table
  /\ pc[t] = "unlock" /\ UnlockB(b[t][2])
  /\ IF op[t] = "insert" THEN LockT(t) /\ Goto(t, "stat")
     ELSE UNCHANGED tablock /\ Goto(t, IF op[t] = "removeif" THEN "walk" ELSE "out")
  /\ UNCHANGED <<table, frame, inserted, failed, leaked>>

UnlockFault(t) ==            \* fault: a lookup forgets to unlock
  /\ pc[t] = "unlock" /\ Goto(t, IF op[t] = "insert" THEN "statlock" ELSE "out")
  /\ IF op[t] = "lookup" THEN UNCHANGED mutex ELSE UnlockB(b[t][2])
  /\ UNCHANGED <<table, tablock, frame, inserted, failed, leaked>>

Unlock(t) ==
  /\ pc[t] = "unlock" /\ UnlockB(b[t][2])
  /\ Goto(t, CASE op[t] = "insert" -> "statlock" [] op[t] = "removeif" -> "walk"
               [] OTHER -> "out")
  /\ UNCHANGED <<table, tablock, frame, inserted, failed, leaked>>
-----------------------------------------------------------------------------
(* insert_internal: statistics under the table lock, and maybe a resize,   *)
(* which gives up at once if there is no memory.                           *)
StatLock(t) ==
  /\ pc[t] = "statlock" /\ LockT(t) /\ Goto(t, "stat")
  /\ UNCHANGED <<table, mutex, frame, inserted, failed, leaked>>

StatFault(t) ==              \* fault: fill counts nodes, not buckets
  /\ pc[t] = "stat"
  /\ LET c == count[b[t][1]][b[t][2]] + 1
         fl == fill + 1
         grow == c = 1 /\ (fl * 100) \div (size + 1) > FillMax
     IN  /\ grow => gen < MaxGen
         /\ count' = [count EXCEPT ![b[t][1]][b[t][2]] = c] /\ fill' = fl
         /\ \/ grow /\ Goto(t, "move")
            \/ (grow => NodeFails) /\ Goto(t, "statunlock")
  /\ i' = [i EXCEPT ![t] = 0] /\ moved' = [n \in Indices(2 * size) |-> {}]
  /\ UNCHANGED <<gen, size, freed, chain, locks, op, key, b, f, calls, inserted, failed, leaked>>

Stat(t) ==
  /\ pc[t] = "stat"
  /\ LET c == count[b[t][1]][b[t][2]] + 1
         fl == IF c = 1 THEN fill + 1 ELSE fill
         grow == c = 1 /\ (fl * 100) \div (size + 1) > FillMax
     IN  /\ grow => gen < MaxGen
         /\ count' = [count EXCEPT ![b[t][1]][b[t][2]] = c] /\ fill' = fl
         /\ \/ grow /\ Goto(t, "move")
            \/ (grow => NodeFails) /\ Goto(t, "statunlock")
  /\ i' = [i EXCEPT ![t] = 0] /\ moved' = [n \in Indices(2 * size) |-> {}]
  /\ UNCHANGED <<gen, size, freed, chain, locks, op, key, b, f, calls, inserted, failed, leaked>>

(* resize: bucket i of the old array, under its lock *)
Move(t) ==
  /\ pc[t] = "move" /\ i[t] < size
  /\ locker = "mutex" => mutex[i[t]] = NoThread
  /\ moved' = [n \in Indices(2 * size) |->
                 moved[n] \cup {k \in chain[gen][i[t]] : Hash[k] % (2 * size) = n}]
  /\ i' = [i EXCEPT ![t] = @ + 1]
  /\ UNCHANGED <<gen, size, freed, chain, count, fill, locks, pc, op, key, b, f, calls, inserted, failed, leaked>>

SwapFault(t) ==              \* fault: the new array's counts are left at zero
  /\ pc[t] = "move" /\ i[t] = size
  /\ gen' = gen + 1 /\ size' = 2 * size /\ freed' = freed \cup {gen}
  /\ chain' = [g \in 0 .. gen + 1 |-> IF g = gen + 1 THEN moved ELSE chain[g]]
  /\ count' = [g \in 0 .. gen + 1 |->
                 IF g = gen + 1 THEN [n \in Indices(2 * size) |-> 0] ELSE count[g]]
  /\ fill' = Cardinality({n \in Indices(2 * size) : moved[n] # {}})
  /\ mutex' = [n \in Indices(2 * size) |-> IF n < size THEN mutex[n] ELSE NoThread]
  /\ Goto(t, "statunlock")
  /\ UNCHANGED <<moved, tablock, frame, inserted, failed, leaked>>

(* resize: more locks; install the new array, free the old one *)
Swap(t) ==
  /\ pc[t] = "move" /\ i[t] = size
  /\ gen' = gen + 1 /\ size' = 2 * size /\ freed' = freed \cup {gen}
  /\ chain' = [g \in 0 .. gen + 1 |-> IF g = gen + 1 THEN moved ELSE chain[g]]
  /\ count' = [g \in 0 .. gen + 1 |->
                 IF g = gen + 1 THEN [n \in Indices(2 * size) |-> Cardinality(moved[n])]
                 ELSE count[g]]
  /\ fill' = Cardinality({n \in Indices(2 * size) : moved[n] # {}})
  /\ mutex' = [n \in Indices(2 * size) |-> IF n < size THEN mutex[n] ELSE NoThread]
  /\ Goto(t, "statunlock")
  /\ UNCHANGED <<moved, tablock, frame, inserted, failed, leaked>>

StatUnlock(t) ==
  /\ pc[t] = "statunlock" /\ UnlockT /\ Goto(t, "out")
  /\ UNCHANGED <<table, mutex, frame, inserted, failed, leaked>>
-----------------------------------------------------------------------------
(* hash_table_apply, _remove_if: table lock, then bucket by bucket.        *)
(* hash_table_iter_new of a sorted iterator ("sorted"): _mk_iter takes the *)
(* table lock, sorted_iter_init takes and releases it once more.           *)
WalkLock(t) ==
  /\ pc[t] = "walklock" /\ LockT(t)
  /\ Goto(t, IF op[t] = "sorted" THEN "relock" ELSE "walk")
  /\ UNCHANGED <<table, mutex, frame, inserted, failed, leaked>>

Relock(t) ==
  /\ pc[t] = "relock" /\ LockT(t) /\ Goto(t, "walk")
  /\ UNCHANGED <<table, mutex, frame, inserted, failed, leaked>>

Walk(t) ==
  /\ pc[t] = "walk" /\ i[t] < size /\ op[t] # "removeif"
  /\ locker = "mutex" => mutex[i[t]] = NoThread
  /\ i' = [i EXCEPT ![t] = @ + 1]
  /\ UNCHANGED <<table, locks, pc, op, key, b, f, calls, inserted, failed, leaked>>

(* hash_table_remove_if: lock the next bucket *)
WalkRemove(t) ==
  /\ pc[t] = "walk" /\ i[t] < size /\ op[t] = "removeif"
  /\ LockB(t, i[t]) /\ Goto(t, "remove")
  /\ b' = [b EXCEPT ![t] = <<gen, i[t]>>] /\ i' = [i EXCEPT ![t] = @ + 1]
  /\ UNCHANGED <<table, tablock, op, key, f, calls, inserted, failed, leaked>>

WalkUnlock(t) ==
  /\ pc[t] = "walk" /\ i[t] = size /\ UnlockT /\ Goto(t, "out")
  /\ UNCHANGED <<table, mutex, frame, inserted, failed, leaked>>

(* An assert that fails has ended the process.                             *)
Step(t) ==
  /\ ~ failed /\ UNCHANGED <<use, locker>>
  /\ \/ Lock(t) \/ Insert(t) \/ Lookup(t) \/ Remove(t) \/ FillRead(t) \/ FillWrite(t) \/ Unlock(t)
     \/ StatLock(t) \/ Stat(t) \/ Move(t) \/ Swap(t) \/ StatUnlock(t)
     \/ WalkLock(t) \/ Relock(t) \/ Walk(t) \/ WalkRemove(t) \/ WalkUnlock(t)

Next == \E t \in Threads : (~ failed /\ Call(t) /\ UNCHANGED <<use, locker>>) \/ Step(t)

(* A thread that can go on does.                                           *)
Spec == Init /\ [][Next]_vars /\ \A t \in Threads : WF_vars(Step(t))
-----------------------------------------------------------------------------
Quiet == \A t \in Threads : pc[t] = "out"

(* A thread outside the table's functions holds none of its locks.         *)
LocksReleased ==
  \A t \in Threads : pc[t] = "out" => tablock # t /\ \A n \in DOMAIN mutex : mutex[n] # t

(* However a table is used, by whatever threads, through growth and with   *)
(* failing allocations: a thread outside the table's functions does not    *)
(* hold the table lock, and holds the lock of a bucket only if one of its  *)
(* insertions into that bucket came back with an error.                    *)
OnlyErrorsLeak ==
  \A t \in Threads : pc[t] = "out" =>
    tablock # t /\ \A n \in DOMAIN mutex : mutex[n] = t => <<t, n>> \in leaked

(* Between calls a table that is used with care holds exactly what was     *)
(* inserted and not removed, where lookups look, and the counts agree with *)
(* the chains; the asserts of remove_node have held.                       *)
NothingLost ==
  Careful =>
    /\ ~ failed
    /\ Quiet => /\ \A k \in Keys : k \in inserted <=> k \in chain[gen][Hash[k] % size]
                /\ \A n \in Indices(size) : count[gen][n] = Cardinality(chain[gen][n])
                /\ fill = Cardinality({n \in Indices(size) : chain[gen][n] # {}})

(* No operation goes on using a bucket of an array that a resize freed.    *)
NoFreedBucket ==
  \A t \in Threads :
    pc[t] \in {"lock", "insert", "lookup", "remove", "unlock", "statlock", "stat"} =>
      b[t][1] \notin freed

(* Where no call meets an error and no sorted iterator is made, every call *)
(* returns, whoever waits for a lock that others hold while they wait for  *)
(* another one; unless an assert has ended the process.                    *)
CallsReturn ==
  \A t \in Threads : []<>(pc[t] = "out" \/ failed \/ ~ (NoErrors /\ "sorted" \notin Ops))
=============================================================================
