----------------------------- MODULE Dictionary -----------------------------
(***************************************************************************)
(* What a hash table promises: a partial function from keys to values, and *)
(* for each operation the answer that its header documents.                *)
(***************************************************************************)
EXTENDS FiniteSets, Naturals, Sequences

CONSTANTS Keys, Vals

VARIABLES map,    (* the contents                                          *)
          call,   (* the last operation and its arguments                  *)
          ret     (* answer of the last operation                          *)

NoAnswer == [err |-> "none"]
Empty == [k \in {} |-> 0]
Without(S) == [k \in DOMAIN map \ S |-> map[k]]
With(k, v) == [x \in DOMAIN map \cup {k} |-> IF x = k THEN v ELSE map[x]]

Init == map = Empty /\ call = <<>> /\ ret = NoAnswer

(* -ENOMEM is a failure: nothing has changed.                              *)
NoMemory == ret' = [err |-> "ENOMEM"] /\ UNCHANGED map

Insert(k, v) ==
  \/ k \in DOMAIN map /\ ret' = [err |-> "EEXIST"] /\ UNCHANGED map
  \/ k \notin DOMAIN map /\ ret' = [err |-> "ok"] /\ map' = With(k, v)
  \/ k \notin DOMAIN map /\ NoMemory

Replace(k, v) ==
  \/ ret' = [err |-> "ok"] /\ map' = With(k, v)
  \/ k \notin DOMAIN map /\ NoMemory

Probe(k, v) ==
  \/ k \in DOMAIN map /\ ret' = [err |-> "ok", val |-> map[k]] /\ UNCHANGED map
  \/ k \notin DOMAIN map /\ ret' = [err |-> "ok", val |-> v] /\ map' = With(k, v)
  \/ k \notin DOMAIN map /\ NoMemory

Lookup(k) ==
  /\ ret' = IF k \in DOMAIN map THEN [err |-> "ok", val |-> map[k]] ELSE [err |-> "ENOENT"]
  /\ UNCHANGED map

Remove(k) ==
  /\ ret' = IF k \in DOMAIN map THEN [err |-> "ok", val |-> map[k]] ELSE [err |-> "ENOENT"]
  /\ map' = Without({k})

RemoveIf(S) ==
  /\ ret' = [err |-> "ok", num |-> Cardinality(S \cap DOMAIN map)] /\ map' = Without(S)

(* The items in some order, each once *)
Items(s) ==
  /\ Len(s) = Cardinality(DOMAIN map)
  /\ {<<s[i].key, s[i].val>> : i \in DOMAIN s} = {<<k, map[k]>> : k \in DOMAIN map}

Apply == Items(ret'.seen) /\ UNCHANGED map
Stats == ret'.nodes = Cardinality(DOMAIN map) /\ UNCHANGED map
Delete == Items(ret'.seen) /\ map' = Empty

Next ==
  \/ \E k \in Keys, v \in Vals :
       \/ call' = <<"insert", k, v>> /\ Insert(k, v)
       \/ call' = <<"replace", k, v>> /\ Replace(k, v)
       \/ call' = <<"probe", k, v>> /\ Probe(k, v)
  \/ \E k \in Keys :
       \/ call' = <<"lookup", k>> /\ Lookup(k)
       \/ call' = <<"remove", k>> /\ Remove(k)
  \/ \E S \in SUBSET Keys : call' = <<"remove_if", S>> /\ RemoveIf(S)
  \/ call' = <<"apply">> /\ Apply
  \/ call' = <<"stats">> /\ Stats
  \/ call' = <<"delete">> /\ Delete
  \/ call' = <<"iter">> /\ UNCHANGED map

Spec == Init /\ [][Next]_<<map, call, ret>>

(* The interface of the fast hash table: a probe answers with the value    *)
(* that was there, or with none; a replacement needs a key that is there.  *)
HtProbe(k, v) ==
  \/ k \in DOMAIN map /\ ret' = [err |-> "ok", val |-> map[k]] /\ UNCHANGED map
  \/ k \notin DOMAIN map /\ ret' = [err |-> "new"] /\ map' = With(k, v)

HtReplace(k, v) ==
  \/ k \in DOMAIN map /\ ret' = [err |-> "ok"] /\ map' = With(k, v)
  \/ k \notin DOMAIN map /\ ret' = [err |-> "ENOENT"] /\ UNCHANGED map

HtNext ==
  \/ \E k \in Keys, v \in Vals :
       \/ call' = <<"probe", k, v>> /\ HtProbe(k, v)
       \/ call' = <<"replace", k, v>> /\ HtReplace(k, v)
  \/ \E k \in Keys :
       \/ call' = <<"lookup", k>> /\ Lookup(k)
       \/ call' = <<"remove", k>> /\ Remove(k)

HtSpec == Init /\ [][HtNext]_<<map, call, ret>>
=============================================================================
