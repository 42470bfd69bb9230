------------------------------- MODULE FastHt -------------------------------
(***************************************************************************)
(* src/hashtable/fast-ht.c: buckets are lists of bags; a bag has BagSz     *)
(* slots, a fingerprint with the low byte of each slot's key, and control  *)
(* bits that say which slots are free.  The salt of __hash is a choice     *)
(* among the functions of Salts, made anew by every resize.                *)
(***************************************************************************)
EXTENDS Integers, Sequences, FiniteSets, SequencesExt, Bitwise

CONSTANTS Keys,        (* 64-bit hash values                               *)
          Vals, NULL,
          BagSz,       (* FASTHT_BAGSZ                                     *)
          Byte,        (* 256: a fingerprint is a key modulo Byte          *)
          Salts,       (* functions from Keys to Nat                       *)
          Size, MaxFill,
          MaxN         (* bound: the table does not grow past MaxN buckets *)

Slots == 0 .. BagSz - 1

VARIABLES b,           (* 0 .. n-1 -> [bags, nodes]                        *)
          salt, fill, nodes,
          call, ret    (* the last operation, and its answer               *)

htVars == <<b, salt, fill, nodes, call, ret>>

n == Cardinality(DOMAIN b)
Home(k) == salt[k] % n
NewBag == [fp |-> [s \in Slots |-> 0], free |-> {}, hk |-> [s \in Slots |-> 0],
           hv |-> [s \in Slots |-> NULL]]

(* ht_init *)
HtInit ==
  /\ b = [i \in 0 .. Size - 1 |-> [bags |-> <<>>, nodes |-> 0]]
  /\ salt \in Salts /\ fill = 0 /\ nodes = 0 /\ call = <<>> /\ ret = [err |-> "none"]

(* __update_fp: of the old fingerprints only the low byte is kept. *)
update_fp(g, k, s) ==
  [g EXCEPT !.free = @ \ {s},
            !.fp = [x \in Slots |-> IF x = s THEN (IF s = 0 THEN (k % Byte) | g.fp[0] ELSE k % Byte)
                                    ELSE IF x = 0 THEN g.fp[0] ELSE 0]]

(* __clear_fp *)
clear_fp(g, s) ==
  [g EXCEPT !.free = @ \cup {s},
            !.fp = [x \in Slots |-> IF x = 0 /\ s # 0 THEN g.fp[0] ELSE 0]]

put(g, k, v, s) == [update_fp(g, k, s) EXCEPT !.hk[s] = k, !.hv[s] = v]

FoundFault(g, k) ==          \* fault: a matching fingerprint is taken for the key
  {s \in Slots : g.fp[s] = k % Byte /\ s \notin g.free /\ g.hk[s] # 0}

(* __find_matches, __find_key: slots whose byte, control bit and key match *)
Found(g, k) == {s \in Slots : g.fp[s] = k % Byte /\ s \notin g.free /\ g.hk[s] = k}
Least(S) == CHOOSE x \in S : \A y \in S : x <= y
First(bags, P(_)) == {i \in 1 .. Len(bags) : P(bags[i]) /\ \A j \in 1 .. i - 1 : ~ P(bags[j])}

(* __findx: the bag and slot of k *)
Bags(k) == b[Home(k)].bags
findx(k) == First(Bags(k), LAMBDA g : Found(g, k) # {})
BagOf(k) == CHOOSE i \in findx(k) : TRUE
SlotOf(k) == Least(Found(Bags(k)[BagOf(k)], k))
ValueOf(k) == Bags(k)[BagOf(k)].hv[SlotOf(k)]

(* __insert, when k was not found: the first free slot, or a new bag *)
Inserted(k, v) ==
  LET open == First(Bags(k), LAMBDA g : g.free # {})
      bags == IF open = {} THEN <<put(NewBag, k, v, 0)>> \o Bags(k)
              ELSE LET i == CHOOSE x \in open : TRUE
                   IN  [Bags(k) EXCEPT ![i] = put(@, k, v, Least(@.free))]
  IN  [b EXCEPT ![Home(k)] = [bags |-> bags, nodes |-> @.nodes + 1]]

(* __insert_quick: the first bag, or a new one *)
QuickFault(x, e) ==          \* fault: a bag with no free slot is replaced
  [bags |-> IF x.bags # <<>> /\ x.bags[1].free # {}
            THEN [x.bags EXCEPT ![1] = put(@, e.key, e.val, Least(@.free))]
            ELSE <<put(NewBag, e.key, e.val, 0)>>,
   nodes |-> x.nodes + 1]

Quick(x, e) ==
  [bags |-> IF x.bags # <<>> /\ x.bags[1].free # {}
            THEN [x.bags EXCEPT ![1] = put(@, e.key, e.val, Least(@.free))]
            ELSE <<put(NewBag, e.key, e.val, 0)>> \o x.bags,
   nodes |-> x.nodes + 1]

(* resize: occupied slots with a non-zero key, bucket by bucket, bag by    *)
(* bag, slot by slot                                                       *)
Items(g) == SelectSeq([s \in 1 .. BagSz |-> [key |-> g.hk[s - 1], val |-> g.hv[s - 1], in |-> s - 1]],
                      LAMBDA e : e.in \notin g.free /\ e.key # 0)
ItemsOf(bags) == FlattenSeq([i \in 1 .. Len(bags) |-> Items(bags[i])])
Resized(old, s) ==
  LET m == Cardinality(DOMAIN old)
      all == FlattenSeq([i \in 1 .. m |-> ItemsOf(old[i - 1].bags)])
      Mine(i) == SelectSeq(all, LAMBDA e : s[e.key] % (2 * m) = i)
  IN  [i \in 0 .. 2 * m - 1 |-> FoldLeft(Quick, [bags |-> <<>>, nodes |-> 0], Mine(i))]

Occupied(t) == Cardinality({i \in DOMAIN t : t[i].nodes > 0})
-----------------------------------------------------------------------------
ht_probe(k, v) ==
  \/ /\ findx(k) # {} /\ ValueOf(k) # NULL
     /\ ret' = [err |-> "ok", val |-> ValueOf(k)] /\ UNCHANGED <<b, salt, fill, nodes>>
  \/ LET t == IF findx(k) # {} THEN b ELSE Inserted(k, v)
         f == IF t[Home(k)].nodes = 1 THEN fill + 1 ELSE fill
         split == t[Home(k)].nodes = 1 /\ (f * 100) \div n > MaxFill
     IN  /\ findx(k) # {} => ValueOf(k) = NULL
         /\ ret' = [err |-> "new"] /\ nodes' = nodes + 1
         /\ \/ /\ split /\ n < MaxN
               /\ salt' \in Salts /\ b' = Resized(t, salt') /\ fill' = Occupied(b')
            \/ ~ split /\ b' = t /\ fill' = f /\ UNCHANGED salt

ht_find(k) ==
  /\ ret' = IF findx(k) # {} THEN [err |-> "ok", val |-> ValueOf(k)] ELSE [err |-> "ENOENT"]
  /\ UNCHANGED <<b, salt, fill, nodes>>

ht_replace(k, v) ==
  /\ IF findx(k) = {} THEN ret' = [err |-> "ENOENT"] /\ UNCHANGED b
     ELSE /\ ret' = [err |-> "ok"]
          /\ b' = [b EXCEPT ![Home(k)].bags[BagOf(k)].hv[SlotOf(k)] = v]
  /\ UNCHANGED <<salt, fill, nodes>>

ht_removeFault(k) ==         \* fault: the slot is freed with its key left in it
  /\ IF findx(k) = {} THEN ret' = [err |-> "ENOENT"] /\ UNCHANGED <<b, nodes>>
     ELSE /\ ret' = [err |-> "ok", val |-> ValueOf(k)] /\ nodes' = nodes - 1
          /\ b' = [b EXCEPT ![Home(k)].nodes = @ - 1,
                            ![Home(k)].bags[BagOf(k)] = clear_fp(@, SlotOf(k))]
  /\ UNCHANGED <<salt, fill>>

ht_remove(k) ==
  /\ IF findx(k) = {} THEN ret' = [err |-> "ENOENT"] /\ UNCHANGED <<b, nodes>>
     ELSE LET s == SlotOf(k) IN
          /\ ret' = [err |-> "ok", val |-> ValueOf(k)] /\ nodes' = nodes - 1
          /\ b' = [b EXCEPT ![Home(k)].nodes = @ - 1,
                            ![Home(k)].bags[BagOf(k)] =
                               [clear_fp(@, s) EXCEPT !.hk[s] = 0, !.hv[s] = NULL]]
  /\ UNCHANGED <<salt, fill>>

HtNext ==
  \/ \E k \in Keys, v \in Vals :
       \/ call' = <<"probe", k, v>> /\ ht_probe(k, v)
       \/ call' = <<"replace", k, v>> /\ ht_replace(k, v)
  \/ \E k \in Keys :
       \/ call' = <<"lookup", k>> /\ ht_find(k)
       \/ call' = <<"remove", k>> /\ ht_remove(k)

-----------------------------------------------------------------------------
Entries == UNION {UNION {{<<g.hk[s], g.hv[s]>> : s \in {x \in Slots : g.hk[x] # 0}}
                          : g \in {b[i].bags[j] : j \in 1 .. Len(b[i].bags)}} : i \in DOMAIN b}

(* The table is a dictionary: fingerprints never hide a key, and a resize  *)
(* with a new salt loses none.                                             *)
Dict == INSTANCE Dictionary WITH
          map <- [k \in {e[1] : e \in Entries} |-> (CHOOSE e \in Entries : e[1] = k)[2]]
DictionarySpec == Dict!HtSpec

(* The counts of elements agree with the slots in use.                     *)
CountsExact ==
  /\ nodes = Cardinality(Entries)
  /\ \A i \in DOMAIN b : b[i].nodes = Len(ItemsOf(b[i].bags))

(* assert(!g->hk[j]) of __insert_quick and the slots handed out by         *)
(* __insert: a slot marked free holds no key, and one that holds a key is  *)
(* not marked free.                                                        *)
FreeIsEmpty ==
  \A i \in DOMAIN b : \A j \in 1 .. Len(b[i].bags) : \A s \in b[i].bags[j].free :
    b[i].bags[j].hk[s] = 0

(* As the control byte is described: a slot is occupied (0) or free (1).   *)
ControlBits ==
  \A i \in DOMAIN b : \A j \in 1 .. Len(b[i].bags) : \A s \in Slots :
    s \notin b[i].bags[j].free => b[i].bags[j].hk[s] # 0

(* No value is NULL, so a found key never comes with a NULL value: what a  *)
(* search finds was put there by an insertion.                             *)
AnswersInserted == "val" \in DOMAIN ret => ret.val # NULL

(* As struct ht says: fill is the number of buckets occupied.              *)
FillExact == fill = Occupied(b)
=============================================================================
