------------------------------ MODULE Hashtab ------------------------------
(***************************************************************************)
(* src/hashtable/hashtab.c and hashtab_iter.c with one thread: chained     *)
(* buckets, doubling when too many buckets are in use, and iterators.      *)
(* HashtabLocks is about the same code with several threads.               *)
(***************************************************************************)
EXTENDS Integers, Sequences, SequencesExt, Bitwise

CONSTANTS Keys, Vals,
          RawHash,     (* the user's hash function                         *)
          Random,      (* tab->random                                      *)
          LogSize, FillMax,
          AllocFails   (* allocations that may fail: "node", "table"       *)

VARIABLES buckets,     (* 0 .. size-1 -> [chain, count]                    *)
          nodes, fill, maxchainlen,      (* tab->stats                     *)
          call, ret,   (* the last operation, and its answer               *)
          iter         (* an iterator: see NoIter                          *)

stats == <<nodes, fill, maxchainlen>>
vars == <<buckets, nodes, fill, maxchainlen, call, ret, iter>>

(* rest: the nodes from the current one on, in the chain of the bucket or, *)
(* of a sorted iterator, in its array all; seen: the items it has returned *)
NoIter == [kind |-> "none", bucket |-> 0, rest |-> <<>>, all |-> <<>>, seen |-> <<>>, begun |-> FALSE]

size == Cardinality(DOMAIN buckets)
hashfunc(k) == RawHash[k] ^^ Random
Home(k) == hashfunc(k) % size
Bucket(c) == [chain |-> c, count |-> Len(c)]

EmptyTable == [i \in 0 .. 2 ^ LogSize - 1 |-> Bucket(<<>>)]

(* hash_table_new *)
Init ==
  /\ buckets = EmptyTable
  /\ nodes = 0 /\ fill = 0 /\ maxchainlen = 0
  /\ call = <<>> /\ ret = [err |-> "none"] /\ iter = NoIter

Node(k, v) == [key |-> k, val |-> v]
AllNodes == FlattenSeq([i \in 1 .. size |-> buckets[i - 1].chain])
Chain(k) == buckets[Home(k)].chain
Matches(k) == SelectSeq(Chain(k), LAMBDA e : e.key = k)
Hit(k) == Matches(k) # <<>>
-----------------------------------------------------------------------------
GrownFault(b) ==             \* fault: rehashes for the old size
  LET n == Cardinality(DOMAIN b)
      all == FlattenSeq([i \in 1 .. n |-> b[i - 1].chain])
      In(i) == Reverse(SelectSeq(all, LAMBDA e : hashfunc(e.key) % n = i))
  IN  [i \in 0 .. 2 * n - 1 |-> Bucket(In(i))]

(* resize: the nodes of the old buckets, in order, pushed on their chains. *)
Grown(b) ==
  LET n == Cardinality(DOMAIN b)
      all == FlattenSeq([i \in 1 .. n |-> b[i - 1].chain])
      In(i) == Reverse(SelectSeq(all, LAMBDA e : hashfunc(e.key) % (2 * n) = i))
  IN  [i \in 0 .. 2 * n - 1 |-> Bucket(In(i))]

FillOf(b) == Cardinality({i \in DOMAIN b : b[i].count > 0})
MaxChain(b) == CHOOSE m \in {b[i].count : i \in DOMAIN b} :
                 \A i \in DOMAIN b : b[i].count <= m

TooFull(f) == (f * 100) \div (size + 1) > FillMax

(* The part of insert_internal that adds a node; ok is what it returns.    *)
AddNode(k, v, ok) ==
  LET h == Home(k)
      b == [buckets EXCEPT ![h] = [chain |-> <<Node(k, v)>> \o @.chain, count |-> @.count + 1]]
      f == IF b[h].count = 1 THEN fill + 1 ELSE fill
  IN  \/ "node" \in AllocFails /\ ret' = [err |-> "ENOMEM"] /\ UNCHANGED <<buckets, stats>>
      \/ /\ b[h].count = 1 /\ TooFull(f)
         /\ \/ /\ buckets' = Grown(b) /\ fill' = FillOf(Grown(b))
               /\ maxchainlen' = MaxChain(Grown(b)) /\ ret' = ok
            \/ /\ "table" \in AllocFails
               /\ buckets' = b /\ fill' = f /\ ret' = [err |-> "ENOMEM"]
               /\ maxchainlen' = IF b[h].count > maxchainlen THEN b[h].count ELSE maxchainlen
         /\ nodes' = nodes + 1
      \/ /\ ~ (b[h].count = 1 /\ TooFull(f))
         /\ buckets' = b /\ nodes' = nodes + 1 /\ fill' = f /\ ret' = ok
         /\ maxchainlen' = IF b[h].count > maxchainlen THEN b[h].count ELSE maxchainlen

(* insert_internal: TAB_NODUP *)
Insert(k, v) ==
  \/ Hit(k) /\ ret' = [err |-> "EEXIST"] /\ UNCHANGED <<buckets, stats>>
  \/ ~ Hit(k) /\ AddNode(k, v, [err |-> "ok"])

(* TAB_REPLACE: the first match gets the new data. *)
ReplaceFault(k, v) ==        \* fault: adds a second node for the key
  AddNode(k, v, [err |-> "ok"])

Replace(k, v) ==
  \/ /\ Hit(k) /\ ret' = [err |-> "ok"] /\ UNCHANGED stats
     /\ LET i == CHOOSE j \in 1 .. Len(Chain(k)) :
                   Chain(k)[j].key = k /\ \A m \in 1 .. j - 1 : Chain(k)[m].key # k
        IN  buckets' = [buckets EXCEPT ![Home(k)].chain[i] = Node(k, v)]
  \/ ~ Hit(k) /\ AddNode(k, v, [err |-> "ok"])

(* TAB_PROBE *)
Probe(k, v) ==
  \/ Hit(k) /\ ret' = [err |-> "ok", val |-> Matches(k)[1].val] /\ UNCHANGED <<buckets, stats>>
  \/ ~ Hit(k) /\ AddNode(k, v, [err |-> "ok", val |-> v])

(* hash_table_lookup *)
Lookup(k) ==
  /\ ret' = IF Hit(k) THEN [err |-> "ok", val |-> Matches(k)[1].val] ELSE [err |-> "ENOENT"]
  /\ UNCHANGED <<buckets, stats>>

(* unlink and remove_node every node of S, adjusting counts *)
Drop(S) ==
  [i \in DOMAIN buckets |->
     LET c == SelectSeq(buckets[i].chain, LAMBDA e : e.key \notin S)
     IN  [chain |-> c, count |-> buckets[i].count - (Len(buckets[i].chain) - Len(c))]]

Gone(S) == Len(SelectSeq(AllNodes, LAMBDA e : e.key \in S))
Dropped(S) ==
  /\ buckets' = Drop(S) /\ nodes' = nodes - Gone(S)
  /\ fill' = fill - Cardinality({i \in DOMAIN buckets :
                                   buckets[i].count > 0 /\ buckets'[i].count = 0})
  /\ UNCHANGED maxchainlen

(* hash_table_remove *)
RemoveKey(k) ==
  /\ Dropped({k})
  /\ ret' = IF Hit(k) THEN [err |-> "ok", val |-> Last(Matches(k)).val] ELSE [err |-> "ENOENT"]

(* hash_table_remove_if, for a predicate that holds on S *)
RemoveIf(S) ==
  /\ Dropped(S)
  /\ ret' = [err |-> "ok", num |-> Gone(S)]
-----------------------------------------------------------------------------
(* hash_table_apply: the nodes in the order in which the function gets them *)
Apply == ret' = [err |-> "ok", seen |-> AllNodes] /\ UNCHANGED <<buckets, stats>>

Stats == /\ ret' = [err |-> "ok", nodes |-> nodes, fill |-> fill, max |-> maxchainlen, size |-> size]
         /\ UNCHANGED <<buckets, stats>>

(* hash_table_delete, which hands every node to the destructor; a new table *)
(* takes its place.                                                         *)
DeleteTable ==
  /\ ret' = [err |-> "ok", seen |-> AllNodes]
  /\ buckets' = EmptyTable /\ nodes' = 0 /\ fill' = 0 /\ maxchainlen' = 0
-----------------------------------------------------------------------------
(* No operation but those of the iterator is called while there is one.    *)
quiet == UNCHANGED <<buckets, stats, call, ret>>

(* _mk_iter: its memset, and the init function of the kind *)
Made(kind, bucket, all) ==
  /\ iter.kind = "none" /\ call' = <<"iter">> /\ ret' = [err |-> "ok"] /\ UNCHANGED <<buckets, stats>>
  /\ iter' = [NoIter EXCEPT !.kind = kind, !.bucket = bucket, !.all = all]

(* hash_table_iter_new of an unsorted iterator *)
IterNewVanilla == Made("vanilla", 0, <<>>)

(* sorted_iter_init.  qsort_cmp gives the caller's comparison the address  *)
(* of the data pointer of a node, not the data, so the order is any.       *)
IterNewSorted == \E all \in SetToSeqs(Range(AllNodes)) : Made("sorted", 0, all)

(* hash_table_bucket_iter_new: the bucket by the user's hash function *)
IterNewBucket == \E k \in Keys : Made("bucket", RawHash[k] % size, buckets[RawHash[k] % size].chain)

(* The position, and the item that hash_table_iter_item returns there. *)
At(f) == [iter EXCEPT !.bucket = f.bucket, !.rest = f.rest, !.begun = TRUE,
                      !.seen = IF f.rest = <<>> THEN @ ELSE Append(@, f.rest[1])]
Rest(r) == [bucket |-> iter.bucket, rest |-> r]

(* find_next_node from bucket i on *)
FindFrom(i) ==
  LET later == {j \in DOMAIN buckets : j >= i /\ buckets[j].chain # <<>>}
  IN  IF later = {} THEN Rest(<<>>)
      ELSE LET j == CHOOSE x \in later : \A y \in later : x <= y
           IN  [bucket |-> j, rest |-> buckets[j].chain]

vanilla_iter_begin == FindFrom(0)
sorted_iter_begin == Rest(iter.all)
bucket_iter_begin == Rest(buckets[iter.bucket].chain)

(* hash_table_iter_first *)
IterFirst ==
  /\ iter.kind # "none" /\ ~ iter.begun /\ quiet
  /\ \/ iter.kind = "vanilla" /\ iter' = At(vanilla_iter_begin)
     \/ iter.kind = "sorted" /\ iter' = At(sorted_iter_begin)
     \/ iter.kind = "bucket" /\ iter' = At(bucket_iter_begin)

vanilla_iter_nextFault ==    \* fault: skips a bucket
  IF Len(iter.rest) > 1 THEN Rest(Tail(iter.rest)) ELSE FindFrom(iter.bucket + 2)

vanilla_iter_next ==
  IF Len(iter.rest) > 1 THEN Rest(Tail(iter.rest)) ELSE FindFrom(iter.bucket + 1)
sorted_iter_next == Rest(Tail(iter.rest))
bucket_iter_next == Rest(Tail(iter.rest))

(* hash_table_iter_next *)
IterNext ==
  /\ iter.rest # <<>> /\ quiet
  /\ \/ iter.kind = "vanilla" /\ iter' = At(vanilla_iter_next)
     \/ iter.kind = "sorted" /\ iter' = At(sorted_iter_next)
     \/ iter.kind = "bucket" /\ iter' = At(bucket_iter_next)

(* hash_table_iter_delete *)
IterDelete == iter.kind # "none" /\ iter' = NoIter /\ quiet

Mutate ==
  \/ \E k \in Keys, v \in Vals :
       \/ call' = <<"insert", k, v>> /\ Insert(k, v)
       \/ call' = <<"replace", k, v>> /\ Replace(k, v)
       \/ call' = <<"probe", k, v>> /\ Probe(k, v)
  \/ \E k \in Keys :
       \/ call' = <<"lookup", k>> /\ Lookup(k)
       \/ call' = <<"remove", k>> /\ RemoveKey(k)
  \/ \E S \in SUBSET Keys : call' = <<"remove_if", S>> /\ RemoveIf(S)
  \/ call' = <<"apply">> /\ Apply
  \/ call' = <<"stats">> /\ Stats
  \/ call' = <<"delete">> /\ DeleteTable

Next ==
  \/ iter.kind = "none" /\ Mutate /\ UNCHANGED iter
  \/ IterNewVanilla \/ IterNewSorted \/ IterNewBucket
  \/ IterFirst \/ IterNext \/ IterDelete

Spec == Init /\ [][Next]_vars
-----------------------------------------------------------------------------
(* The statistics that decide when to grow, and the asserts of remove_node *)
(* depend on: they agree with the chains after any sequence of operations; *)
(* every node is in the chain where a lookup searches for it.              *)
TableOK ==
  /\ \A i \in DOMAIN buckets : buckets[i].count = Len(buckets[i].chain)
  /\ nodes = Len(AllNodes)
  /\ fill = FillOf(buckets) /\ maxchainlen >= MaxChain(buckets)
  /\ \A i \in DOMAIN buckets : \A j \in 1 .. Len(buckets[i].chain) :
       Home(buckets[i].chain[j].key) = i

(* The table as a function from keys to values.                            *)
Contents == UNION {{buckets[i].chain[j] : j \in 1 .. Len(buckets[i].chain)} : i \in DOMAIN buckets}
Held == [k \in {e.key : e \in Contents} |-> (CHOOSE e \in Contents : e.key = k).val]
Dict == INSTANCE Dictionary WITH map <- Held

(* The one call that is not the dictionary's: the item is in, but a larger *)
(* table could not be had, and the answer is -ENOMEM.                      *)
InsertedAllTheSame ==
  \E k \in Keys \ DOMAIN Held, v \in Vals :
    /\ call' \in {<<o, k, v>> : o \in {"insert", "replace", "probe"}} /\ ret' = [err |-> "ENOMEM"]
    /\ Held' = [x \in DOMAIN Held \cup {k} |-> IF x = k THEN v ELSE Held[x]]
    /\ size' = size /\ TooFull(fill')

(* The table is the dictionary that hashtab.h describes, across growth and *)
(* failed allocations, but for one call: an insertion after which the      *)
(* table should have grown and could not.                                  *)
DictionarySpec == Dict!Init /\ [][Dict!Next \/ InsertedAllTheSame]_<<Held, call, ret>>

(* As hashtab.h says: -ENOMEM is a failure to insert, and leaves the table *)
(* as it was.                                                              *)
ErrorChangesNothing == [][ret'.err = "ENOMEM" => Contents' = Contents]_vars

(* A traversal that reaches the end has returned every node exactly once:  *)
(* every node of the table, or of the bucket.                              *)
VisitsAll ==
  iter.begun /\ iter.rest = <<>> =>
    IF iter.kind = "bucket" THEN iter.seen = buckets[iter.bucket].chain
    ELSE Len(iter.seen) = nodes /\ Range(iter.seen) = Contents

(* hash_table_bucket_iter_new finds the chain of a key that is present.    *)
BucketIterFinds ==
  \A k \in Keys : Hit(k) => \E e \in Range(buckets[RawHash[k] % size].chain) : e.key = k
-----------------------------------------------------------------------------
(* For model checking: keys are numbers, and 0 and 4 collide in tables of  *)
(* up to four buckets.                                                     *)
KeyHash == [k \in Keys |-> k]
=============================================================================
