------------------------------ MODULE RteRing ------------------------------
(***************************************************************************)
(* inc/fast/ringbuf.h: a ring of object pointers with bulk and burst       *)
(* operations.  Each side (producers, consumers) claims a range of slots   *)
(* by moving its head, copies, and publishes by moving its tail once all   *)
(* earlier claims of its side are published.  An index wraps at IndexMod   *)
(* and is masked only to access a slot.                                    *)
(***************************************************************************)
EXTENDS Integers, Sequences, FiniteSetsExt, Functions, TLC, TypeUtils

CONSTANTS Producers, Consumers,
          Count,      (* the count rte_ring_create is given                *)
          IndexMod,   (* 2^w for the width of uint_fast32_t                *)
          Start,      (* index of an empty ring that has been in use       *)
          Counts,     (* values of n                                       *)
          MaxOps,     (* bound: calls by each side                         *)
          MaxObjects  (* bound: objects each side moves                    *)

Threads == Producers \cup Consumers
(* rte_ring_create rounds up to a power of two *)
Size == NEXTPOW2(Count)
Mask == Size - 1

(* An index does not come round to a value that a thread still holds.      *)
ASSUME RingAssumption ==
  /\ Size \in Nat \ {0} /\ IndexMod \in Nat /\ IndexMod % Size = 0 /\ Start \in 0 .. IndexMod - 1
  /\ Counts \subseteq Nat \ {0} /\ MaxObjects \in Nat /\ MaxObjects + Size <= IndexMod
  /\ Producers \cap Consumers = {}

VARIABLES multi,        (* sides that use the mp/mc functions; others sp/sc *)
          head, tail,   (* r->prod and r->cons                             *)
          ring,
          pc, beh,      (* per thread: place in the call, its behavior     *)
          max, n, h,    (* per thread: locals; h is prod_head or cons_head *)
          obj,          (* per thread: obj_table of a dequeue              *)
          ret,          (* per thread: value returned                      *)
          ops,
          log,          (* history: every object claimed a slot for        *)
          pub, taken,   (* history: how many published; claimed to dequeue *)
          released,     (* history: how many a dequeue is done with        *)
          claim         (* per thread, history: h, as a count of objects   *)

vars == <<multi, head, tail, ring, pc, beh, max, n, h, obj, ret, ops, log, pub, taken, released, claim>>
local == <<beh, max, obj, ops>>
moved == <<log, pub, taken, released>>
hist == <<moved, claim>>

Side(t) == IF t \in Producers THEN "prod" ELSE "cons"
Other(t) == IF t \in Producers THEN "cons" ELSE "prod"
Add(i, k) == (i + k) % IndexMod

(* __rte_ring_init; Start as after Start enqueues and dequeues. *)
Init ==
  /\ multi \in SUBSET {"prod", "cons"}
  /\ head = [s \in {"prod", "cons"} |-> Start] /\ tail = head
  /\ ring = [i \in 0 .. Mask |-> <<>>]
  /\ pc = [t \in Threads |-> "out"] /\ beh = [t \in Threads |-> "fixed"]
  /\ max = [t \in Threads |-> 0] /\ n = max /\ h = max /\ ops = max /\ claim = max
  /\ obj = [t \in Threads |-> <<>>] /\ ret = [t \in Threads |-> 0]
  /\ log = <<>> /\ pub = 0 /\ taken = 0 /\ released = 0

(* How many objects have passed a head, a tail. *)
HeadPos(s) == IF s = "prod" THEN Len(log) ELSE taken
TailPos(s) == IF s = "prod" THEN pub ELSE released

Goto(t, l) == pc' = [pc EXCEPT ![t] = l]
Return(t, v) == Goto(t, "out") /\ ret' = [ret EXCEPT ![t] = v]
-----------------------------------------------------------------------------
(* A call with n in ks.  A side that is not multi is used by one thread.   *)
Peers(t) == {u \in Threads : Side(u) = Side(t)}
Call(t, side, ks, behavior) ==
  /\ Side(t) = side /\ pc[t] = "out" /\ SumFunctionOnSet(ops, Peers(t)) < MaxOps
  /\ side \in multi \/ \A u \in Peers(t) \ {t} : ops[u] = 0
  /\ Goto(t, "head") /\ ops' = [ops EXCEPT ![t] = @ + 1]
  /\ \E k \in ks : max' = [max EXCEPT ![t] = k]
  /\ beh' = [beh EXCEPT ![t] = behavior] /\ obj' = [obj EXCEPT ![t] = <<>>]
  /\ UNCHANGED <<head, tail, ring, n, h, ret, hist>>

(* The flags of the ring choose between the mp and sp, the mc and sc ones. *)
rte_ring_mp_enqueue_bulk(t) == "prod" \in multi /\ Call(t, "prod", Counts, "fixed")
rte_ring_sp_enqueue_bulk(t) == "prod" \notin multi /\ Call(t, "prod", Counts, "fixed")
rte_ring_mp_enqueue(t) == "prod" \in multi /\ Call(t, "prod", {1}, "fixed")
rte_ring_sp_enqueue(t) == "prod" \notin multi /\ Call(t, "prod", {1}, "fixed")
rte_ring_mp_enqueue_burst(t) == "prod" \in multi /\ Call(t, "prod", Counts, "variable")
rte_ring_sp_enqueue_burst(t) == "prod" \notin multi /\ Call(t, "prod", Counts, "variable")
rte_ring_mc_dequeue_bulk(t) == "cons" \in multi /\ Call(t, "cons", Counts, "fixed")
rte_ring_sc_dequeue_bulk(t) == "cons" \notin multi /\ Call(t, "cons", Counts, "fixed")
rte_ring_mc_dequeue(t) == "cons" \in multi /\ Call(t, "cons", {1}, "fixed")
rte_ring_sc_dequeue(t) == "cons" \notin multi /\ Call(t, "cons", {1}, "fixed")
rte_ring_mc_dequeue_burst(t) == "cons" \in multi /\ Call(t, "cons", Counts, "variable")
rte_ring_sc_dequeue_burst(t) == "cons" \notin multi /\ Call(t, "cons", Counts, "variable")

rte_ring_enqueue_bulk(t) == rte_ring_mp_enqueue_bulk(t) \/ rte_ring_sp_enqueue_bulk(t)
rte_ring_enqueue(t) == rte_ring_mp_enqueue(t) \/ rte_ring_sp_enqueue(t)
rte_ring_enqueue_burst(t) == rte_ring_mp_enqueue_burst(t) \/ rte_ring_sp_enqueue_burst(t)
rte_ring_dequeue_bulk(t) == rte_ring_mc_dequeue_bulk(t) \/ rte_ring_sc_dequeue_bulk(t)
rte_ring_dequeue(t) == rte_ring_mc_dequeue(t) \/ rte_ring_sc_dequeue(t)
rte_ring_dequeue_burst(t) == rte_ring_mc_dequeue_burst(t) \/ rte_ring_sc_dequeue_burst(t)

(* n = max; load the head of one's own side *)
ReadHead(t) ==
  /\ pc[t] = "head" /\ Goto(t, "other")
  /\ n' = [n EXCEPT ![t] = max[t]] /\ h' = [h EXCEPT ![t] = head[Side(t)]]
  /\ claim' = [claim EXCEPT ![t] = HeadPos(Side(t))]
  /\ UNCHANGED <<head, tail, ring, local, ret, moved>>

AvailShort(t) ==                      \* fault: one slot too few
  (IF t \in Producers THEN Mask - 1 + tail["cons"] - h[t] ELSE tail["prod"] - h[t]) % IndexMod

(* free_entries, entries *)
Avail(t) ==
  (IF t \in Producers THEN Mask + tail["cons"] - h[t] ELSE tail["prod"] - h[t]) % IndexMod

(* Load the other side's tail; -ENOBUFS or -ENOENT, 0, or a claim. *)
ReadTailFault(t) ==                   \* fault: a burst does not shrink to what is there
  /\ pc[t] = "other"
  /\ \/ max[t] > Avail(t) /\ beh[t] = "fixed" /\ Return(t, -1)
     \/ max[t] > Avail(t) /\ beh[t] = "variable" /\ Avail(t) = 0 /\ Return(t, 0)
     \/ (max[t] <= Avail(t) \/ (beh[t] = "variable" /\ Avail(t) > 0))
        /\ Goto(t, "cas") /\ UNCHANGED ret
  /\ UNCHANGED <<head, tail, ring, n, h, local, hist>>

ReadTail(t) ==
  /\ pc[t] = "other"
  /\ \/ max[t] > Avail(t) /\ beh[t] = "fixed" /\ Return(t, -1) /\ UNCHANGED n
     \/ max[t] > Avail(t) /\ beh[t] = "variable" /\ Avail(t) = 0 /\ Return(t, 0) /\ UNCHANGED n
     \/ /\ max[t] <= Avail(t) \/ (beh[t] = "variable" /\ Avail(t) > 0)
        /\ n' = [n EXCEPT ![t] = IF max[t] > Avail(t) THEN Avail(t) ELSE max[t]]
        /\ Goto(t, "cas") /\ UNCHANGED ret
  /\ UNCHANGED <<head, tail, ring, h, local, hist>>

(* The range becomes t's; the objects of an enqueue enter the history. *)
Claimed(t) ==
  /\ HeadPos(Side(t)) + n[t] <= MaxObjects
  /\ head' = [head EXCEPT ![Side(t)] = Add(h[t], n[t])]
  /\ Goto(t, "copy")
  /\ IF t \in Producers
     THEN log' = log \o [j \in 1 .. n[t] |-> <<t, ops[t], j>>] /\ UNCHANGED taken
     ELSE taken' = taken + n[t] /\ UNCHANGED log
  /\ UNCHANGED <<tail, ring, n, h, local, ret, pub, released, claim>>

CasFault(t) ==                        \* fault: the claim is not a compare-and-swap
  /\ pc[t] = "cas" /\ Side(t) \in multi /\ Claimed(t)

(* atomic_compare_exchange_weak, which may fail at any time: then retry. *)
Cas(t) ==
  /\ pc[t] = "cas" /\ Side(t) \in multi
  /\ \/ head[Side(t)] = h[t] /\ Claimed(t)
     \/ Goto(t, "head") /\ UNCHANGED <<head, tail, ring, n, h, local, ret, hist>>

(* the sp/sc store of the head *)
StoreHead(t) == pc[t] = "cas" /\ Side(t) \notin multi /\ Claimed(t)

(* __store_ring, __load_ring *)
Copy(t) ==
  /\ pc[t] = "copy" /\ Goto(t, "publish")
  /\ IF t \in Producers
     THEN /\ ring' = [i \in 0 .. Mask |->
                        LET j == (i - h[t]) % Size IN
                        IF j < n[t] THEN <<t, ops[t], j + 1>> ELSE ring[i]]
          /\ UNCHANGED obj
     ELSE /\ obj' = [obj EXCEPT ![t] = [j \in 1 .. n[t] |-> ring[(h[t] + j - 1) % Size]]]
          /\ UNCHANGED ring
  /\ UNCHANGED <<head, tail, n, h, beh, max, ops, ret, hist>>

PublishFault(t) ==                    \* fault: does not wait for earlier claims
  /\ pc[t] = "publish"
  /\ tail' = [tail EXCEPT ![Side(t)] = Add(h[t], n[t])]
  /\ IF t \in Producers THEN pub' = pub + n[t] /\ UNCHANGED released
                       ELSE released' = released + n[t] /\ UNCHANGED pub
  /\ Return(t, n[t])
  /\ UNCHANGED <<head, ring, n, h, local, log, taken, claim>>

PublishStall(t) ==                    \* fault: publishes what was asked for, not claimed
  /\ pc[t] = "publish" /\ (Side(t) \in multi => tail[Side(t)] = h[t])
  /\ tail' = [tail EXCEPT ![Side(t)] = Add(h[t], max[t])]
  /\ IF t \in Producers THEN pub' = pub + n[t] /\ UNCHANGED released
                       ELSE released' = released + n[t] /\ UNCHANGED pub
  /\ Return(t, n[t])
  /\ UNCHANGED <<head, ring, n, h, local, log, taken, claim>>

(* mp/mc wait until the tail reaches their range; sp/sc only assert it.    *)
Publish(t) ==
  /\ pc[t] = "publish"
  /\ Side(t) \in multi => tail[Side(t)] = h[t]
  /\ tail' = [tail EXCEPT ![Side(t)] = Add(h[t], n[t])]
  /\ IF t \in Producers THEN pub' = pub + n[t] /\ UNCHANGED released
                       ELSE released' = released + n[t] /\ UNCHANGED pub
  /\ Return(t, n[t])
  /\ UNCHANGED <<head, ring, n, h, local, log, taken, claim>>

mp_do_enqueue(t) == /\ t \in Producers /\ "prod" \in multi
                    /\ ReadHead(t) \/ ReadTail(t) \/ Cas(t) \/ Copy(t) \/ Publish(t)
sp_do_enqueue(t) == /\ t \in Producers /\ "prod" \notin multi
                    /\ ReadHead(t) \/ ReadTail(t) \/ StoreHead(t) \/ Copy(t) \/ Publish(t)
mc_do_dequeue(t) == /\ t \in Consumers /\ "cons" \in multi
                    /\ ReadHead(t) \/ ReadTail(t) \/ Cas(t) \/ Copy(t) \/ Publish(t)
sc_do_dequeue(t) == /\ t \in Consumers /\ "cons" \notin multi
                    /\ ReadHead(t) \/ ReadTail(t) \/ StoreHead(t) \/ Copy(t) \/ Publish(t)

Next ==
  /\ UNCHANGED multi
  /\ \E t \in Threads :
       \/ rte_ring_enqueue_bulk(t) \/ rte_ring_enqueue(t) \/ rte_ring_enqueue_burst(t)
       \/ rte_ring_dequeue_bulk(t) \/ rte_ring_dequeue(t) \/ rte_ring_dequeue_burst(t)
       \/ mp_do_enqueue(t) \/ sp_do_enqueue(t) \/ mc_do_dequeue(t) \/ sc_do_dequeue(t)

rte_ring_count == (tail["prod"] - tail["cons"]) % Size
rte_ring_free_count == Mask - rte_ring_count
rte_ring_full == rte_ring_free_count = 0
rte_ring_empty == rte_ring_count = 0

Spec == Init /\ [][Next]_vars
-----------------------------------------------------------------------------
(* Types; the four indices follow the history, so that the ring counts,    *)
(* and is full and empty with, the objects published and not yet released. *)
TypeOK ==
  /\ \A s \in {"prod", "cons"} : head[s] = Add(Start, HeadPos(s)) /\ tail[s] = Add(Start, TailPos(s))
  /\ rte_ring_count = pub - released
  /\ (rte_ring_full <=> pub - released = Mask) /\ (rte_ring_empty <=> pub = released)
  /\ n \in [Threads -> Nat] /\ h \in [Threads -> 0 .. IndexMod - 1]
  /\ pc \in [Threads -> {"out", "head", "other", "cas", "copy", "publish"}]
  /\ ret \in [Threads -> Nat \cup {-1}]

(* Concurrent bulk and burst operations on the ring act as operations on a *)
(* FIFO of Size - 1 objects, one at a time: nothing is lost, duplicated,   *)
(* overwritten or reordered, and a batch stays together.                   *)
Batch == INSTANCE BatchQueue WITH
           Cap <- Mask,
           q <- SubSeq(log, taken + 1, pub),
           got <- [t \in Threads |-> IF pc[t] = "copy" /\ t \in Consumers
                                     THEN SubSeq(log, claim[t] + 1, claim[t] + n[t]) ELSE obj[t]]
BatchSpec == Batch!Spec

(* No slot is written by one thread while another reads or writes it, and  *)
(* the indices and counts are what TypeOK says.                            *)
Slots(t) == {(h[t] + j) % Size : j \in 0 .. n[t] - 1}
SlotsApart ==
  /\ TypeOK
  /\ \A t, u \in Threads : t # u /\ pc[t] = "copy" /\ pc[u] = "copy" => Slots(t) \cap Slots(u) = {}

(* -ENOBUFS and -ENOENT are true when returned: the slots that are not     *)
(* free (or the objects that are there) at that moment are too many (few), *)
(* although the head was read earlier.                                     *)
HonestRefusal ==
  [][\A t \in Threads : pc[t] = "other" /\ pc'[t] = "out" /\ beh[t] = "fixed" =>
       max[t] > (IF t \in Producers THEN Mask + tail["cons"] - head["prod"]
                                    ELSE tail["prod"] - head["cons"]) % IndexMod]_vars

(* mp/mc threads that wait to publish never all wait for each other: the   *)
(* one whose range starts at the tail exists and is not done.  On a side   *)
(* that one thread uses it is that thread: assert(prod.tail == prod_head). *)
SomeoneCanPublish ==
  \A t \in Threads : pc[t] = "publish" =>
    \E u \in Peers(t) : pc[u] \in {"copy", "publish"} /\ h[u] = tail[Side(t)]
-----------------------------------------------------------------------------
(* For model checking: threads of one side are interchangeable.            *)
Sym == Permutations(Producers) \cup Permutations(Consumers)
=============================================================================
