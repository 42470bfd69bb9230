--------------------------- MODULE MCHashtabLocks ---------------------------
EXTENDS HashtabLocks
CONSTANT t1
MCHash == [k \in Keys |-> k]

(* Every thread uses the same keys; or each its own, where every bucket of *)
(* a table of two is home to keys of both.                                 *)
AnyKey == [t \in Threads |-> {k \in Keys : k < 3}]
OwnKey == [t \in Threads |-> {k \in Keys : (k < 2) <=> (t = t1)}]

(* One thread without locks may do anything.                               *)
Alone == [locker |-> "null",
          ops |-> {"insert", "lookup", "remove", "removeif", "apply", "sorted"},
          keys |-> AnyKey, fresh |-> FALSE, nomem |-> TRUE, fillmax |-> 60, calls |-> 5]

(* Several use the whole interface, with growth and failing allocations.   *)
Wild == [Alone EXCEPT !.locker = "mutex", !.calls = 2]

(* They insert keys of their own, each once, and look up, remove and walk, *)
(* in a table that does not grow; or insert, look up and walk only.        *)
Crowd == [Wild EXCEPT !.ops = @ \ {"sorted"}, !.keys = OwnKey, !.fresh = TRUE, !.nomem = FALSE,
                      !.fillmax = 99]
Shared == [Crowd EXCEPT !.ops = {"insert", "lookup", "apply"}, !.calls = 3]

AllUsages == [alone |-> Alone, wild |-> Wild, crowd |-> Crowd, shared |-> Shared]

(* Several threads use the whole interface of a table that does not grow;  *)
(* or insert and look up in one that grows.                                *)
Unrestricted == [unrestricted |-> [Wild EXCEPT !.fillmax = 99, !.nomem = FALSE]]
Growing == [growing |-> [Wild EXCEPT !.ops = {"insert", "lookup"}, !.nomem = FALSE]]
=============================================================================
