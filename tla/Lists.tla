-------------------------------- MODULE Lists -------------------------------
(***************************************************************************)
(* The linked lists and small queues of inc/fast: llist.h, list.h, queue.h *)
(* and mpmc_list.h. Each section has its own state.                        *)
(***************************************************************************)
EXTENDS Integers, Sequences, SequencesExt, FiniteSets
-----------------------------------------------------------------------------
(***************************************************************************)
(* The list heads and the nodes the list modules work on, and the null     *)
(* pointer.                                                                *)
(***************************************************************************)

CONSTANTS LHeads, LNodes, LNull
-----------------------------------------------------------------------------
(***************************************************************************)
(* inc/fast/llist.h, doubly linked circular lists: the links of two heads  *)
(* and some nodes, and the sequences the heads should stand for.  A head   *)
(* that a call leaves undefined (splice without init) has no sequence      *)
(* until it is initialised again.                                          *)
(***************************************************************************)

VARIABLES ll, lseq           \* ll.nx, ll.pv: next, prev

llistVars == <<ll, lseq>>

Joined(L, a, b) == [nx |-> [L.nx EXCEPT ![a] = b], pv |-> [L.pv EXCEPT ![b] = a]]

list_init(L, h) == Joined(L, h, h)
list_addB(L, n, p, q) == Joined(Joined(L, n, q), p, n)               \* __list_add
list_delB(L, p, q) == Joined(L, p, q)                                \* __list_del
list_delE(L, n) == list_delB(L, L.pv[n], L.nx[n])                    \* __list_del_entry
list_replace(L, o, n) == LET M == Joined(L, n, L.nx[o]) IN Joined(M, M.pv[o], n)
INIT_LIST_HEAD(L, h) == list_init(L, h)
Cleared(L, n) == [nx |-> [L.nx EXCEPT ![n] = LNull], pv |-> [L.pv EXCEPT ![n] = LNull]]
list_empty(L, h) == L.nx[h] = h

LListInit ==
  LET self == [x \in LHeads \cup LNodes |-> IF x \in LHeads THEN x ELSE LNull]
  IN  ll = [nx |-> self, pv |-> self] /\ lseq = [h \in LHeads |-> << >>]

Undefined == <<LNull>>
Defd(h) == lseq[h] # Undefined
Loose(n) == \A h \in LHeads : ~ Contains(lseq[h], n)
Known == \A h \in LHeads : Defd(h)

(* list_add, list_add_tail, hence a stack and a queue *)
list_add(n, h) == /\ Known /\ Loose(n) /\ ll' = list_addB(ll, n, h, ll.nx[h])
                  /\ lseq' = [lseq EXCEPT ![h] = <<n>> \o @]
list_add_tail(n, h) == /\ Known /\ Loose(n) /\ ll' = list_addB(ll, n, ll.pv[h], h)
                       /\ lseq' = [lseq EXCEPT ![h] = Append(@, n)]

Without(n) == [h \in LHeads |-> SelectSeq(lseq[h], LAMBDA x : x # n)]

list_del(n) == /\ Known /\ ~ Loose(n) /\ ll' = Cleared(list_delE(ll, n), n) /\ lseq' = Without(n)
list_del_init(n) == /\ Known /\ ~ Loose(n) /\ ll' = INIT_LIST_HEAD(list_delE(ll, n), n)
                    /\ lseq' = Without(n)

(* list_move, list_move_tail *)
list_move(n, h) ==
  /\ Known /\ ~ Loose(n) /\ lseq' = [Without(n) EXCEPT ![h] = <<n>> \o @]
  /\ LET L == list_delE(ll, n) IN ll' = list_addB(L, n, h, L.nx[h])
list_move_tail(n, h) ==
  /\ Known /\ ~ Loose(n) /\ lseq' = [Without(n) EXCEPT ![h] = Append(@, n)]
  /\ LET L == list_delE(ll, n) IN ll' = list_addB(L, n, L.pv[h], h)

(* list_replace(_init), of a node in a list and of a head with its list    *)
ReplaceNode(o, n) ==
  /\ Known /\ ~ Loose(o) /\ Loose(n) /\ ll' = INIT_LIST_HEAD(list_replace(ll, o, n), o)
  /\ lseq' = [h \in LHeads |-> [i \in DOMAIN lseq[h] |-> IF lseq[h][i] = o THEN n ELSE lseq[h][i]]]
ReplaceHead(g, h) ==
  /\ Known /\ g # h /\ lseq[h] = << >> /\ ll' = INIT_LIST_HEAD(list_replace(ll, g, h), g)
  /\ lseq' = [lseq EXCEPT ![h] = lseq[g], ![g] = << >>]

list_rotate_left(h) ==
  /\ Known /\ ~ list_empty(ll, h) /\ lseq' = [lseq EXCEPT ![h] = Append(Tail(@), Head(@))]
  /\ LET n == ll.nx[h]
         L == list_delE(ll, n)
     IN  ll' = list_addB(L, n, L.pv[h], h)

(* __list_cut_position *)
Cut(L, g, h, e) ==
  LET first == L.nx[e] IN Joined(Joined(Joined(L, g, L.nx[h]), e, g), h, first)

(* list_cut_position: what is up to entry e moves to the empty list g      *)
list_cut_position(g, h, e) ==
  /\ Known /\ g # h /\ lseq[g] = << >> /\ ~ list_empty(ll, h) /\ (e = h \/ Contains(lseq[h], e))
  /\ IF e = h THEN ll' = INIT_LIST_HEAD(ll, g) /\ UNCHANGED lseq
     ELSE LET i == CHOOSE i \in DOMAIN lseq[h] : lseq[h][i] = e
          IN  /\ ll' = Cut(ll, g, h, e)
              /\ lseq' = [lseq EXCEPT ![g] = SubSeq(lseq[h], 1, i),
                                      ![h] = SubSeq(lseq[h], i + 1, Len(lseq[h]))]

SpliceFault(L, g, p, q) == Joined(Joined(L, p, L.nx[g]), L.nx[g], q)  \* fault: last = first

(* __list_splice *)
Splice(L, g, p, q) == LET last == L.pv[g] IN Joined(Joined(L, p, L.nx[g]), last, q)

(* list_splice, list_splice_tail: nothing initialises g, whose links go    *)
(* on pointing into the joined list; the _init variants do.                *)
list_splice(g, h, tail) ==
  /\ Known /\ g # h
  /\ IF list_empty(ll, g) THEN UNCHANGED llistVars
     ELSE /\ ll' = IF tail THEN Splice(ll, g, ll.pv[h], h) ELSE Splice(ll, g, h, ll.nx[h])
          /\ lseq' = [lseq EXCEPT ![g] = Undefined, ![h] = IF tail THEN @ \o lseq[g] ELSE lseq[g] \o @]
list_splice_init(g, h, tail) ==
  /\ Known /\ g # h /\ ~ list_empty(ll, g)
  /\ ll' = INIT_LIST_HEAD(IF tail THEN Splice(ll, g, ll.pv[h], h) ELSE Splice(ll, g, h, ll.nx[h]), g)
  /\ lseq' = [lseq EXCEPT ![g] = << >>, ![h] = IF tail THEN @ \o lseq[g] ELSE lseq[g] \o @]
ReInit(h) == ~ Defd(h) /\ ll' = list_init(ll, h) /\ lseq' = [lseq EXCEPT ![h] = << >>]

(* list_for_each_entry_from and the other loops: along next, along prev.   *)
RECURSIVE Along(_, _, _)
Along(f, p, h) == IF p = h THEN << >> ELSE <<p>> \o Along(f, f[p], h)
list_for_each(h) == Along(ll.nx, ll.nx[h], h)
list_for_each_prev(h) == Along(ll.pv, ll.pv[h], h)
list_for_each_entry_from(p, h) == Along(ll.nx, p, h)
list_for_each_entry_continue(p, h) == Along(ll.nx, ll.nx[p], h)
list_for_each_entry_continue_reverse(p, h) == Along(ll.pv, ll.pv[p], h)

(* list_for_each_safe over a loop body that deletes every node of S.       *)
RECURSIVE SafeDel(_, _, _, _)
SafeDel(L, p, h, S) ==
  IF p = h THEN L
  ELSE LET n == L.nx[p] IN SafeDel(IF p \in S THEN Cleared(list_delE(L, p), p) ELSE L, n, h, S)
list_for_each_safe(h, S) ==
  /\ Known /\ ll' = SafeDel(ll, ll.nx[h], h, S)
  /\ lseq' = [lseq EXCEPT ![h] = SelectSeq(@, LAMBDA x : x \notin S)]

LListNext ==
  \/ \E n \in LNodes, h \in LHeads :
       \/ list_add(n, h) \/ list_add_tail(n, h) \/ list_move(n, h) \/ list_move_tail(n, h)
  \/ \E n \in LNodes : list_del(n) \/ list_del_init(n) \/ \E m \in LNodes : ReplaceNode(m, n)
  \/ \E h \in LHeads : \/ list_rotate_left(h) \/ ReInit(h)
                       \/ \E S \in SUBSET LNodes : S # {} /\ list_for_each_safe(h, S)
  \/ \E g, h \in LHeads : \/ ReplaceHead(g, h) \/ \E e \in LNodes \cup {h} : list_cut_position(g, h, e)
                          \/ \E t \in BOOLEAN : list_splice(g, h, t) \/ list_splice_init(g, h, t)
-----------------------------------------------------------------------------
(* Walking a list, forwards or backwards, from its head or from any node,  *)
(* visits what the calls put there, in order, and comes back to the head.  *)
LinksAreList ==
  \A h \in LHeads : Defd(h) =>
    LET s == lseq[h] IN
    /\ list_for_each(h) = s /\ list_for_each_prev(h) = Reverse(s)
    /\ list_empty(ll, h) = (s = << >>)
    /\ \A i \in DOMAIN s :
         /\ list_for_each_entry_from(s[i], h) = SubSeq(s, i, Len(s))
         /\ list_for_each_entry_continue(s[i], h) = SubSeq(s, i + 1, Len(s))
         /\ list_for_each_entry_continue_reverse(s[i], h) = Reverse(SubSeq(s, 1, i - 1))
-----------------------------------------------------------------------------
(***************************************************************************)
(* inc/fast/llist.h, the hlist half: a head with one pointer, and nodes    *)
(* with next and pprev, the place that points to the node.  A place is a   *)
(* head (its first) or a node (its next).                                  *)
(***************************************************************************)

VARIABLES hl, hlseq          \* hl.to[place], hl.pprev[node]

hlistVars == <<hl, hlseq>>

HlistInit == /\ hl = [to |-> [p \in LHeads \cup LNodes |-> LNull], pprev |-> [n \in LNodes |-> LNull]]
             /\ hlseq = [h \in LHeads |-> << >>]

(* *place = n, and n->pprev = place if there is an n                       *)
Points(H, p, n) == [to |-> [H.to EXCEPT ![p] = n],
                    pprev |-> IF n = LNull THEN H.pprev ELSE [H.pprev EXCEPT ![n] = p]]

hlist_unhashed(n) == hl.pprev[n] = LNull
INIT_HLIST_NODE(H, n) == [to |-> [H.to EXCEPT ![n] = LNull], pprev |-> [H.pprev EXCEPT ![n] = LNull]]
hlist_delB(H, n) == Points(H, H.pprev[n], H.to[n])                    \* __hlist_del
HWithout(n) == [h \in LHeads |-> SelectSeq(hlseq[h], LAMBDA x : x # n)]

hlist_del(n) == ~ hlist_unhashed(n) /\ hl' = INIT_HLIST_NODE(hlist_delB(hl, n), n) /\ hlseq' = HWithout(n)
hlist_del_init(n) ==
  IF hlist_unhashed(n) THEN UNCHANGED hlistVars
  ELSE hl' = INIT_HLIST_NODE(hlist_delB(hl, n), n) /\ hlseq' = HWithout(n)

hlist_add_head(n, h) ==
  /\ hlist_unhashed(n) /\ hl' = Points(Points(hl, n, hl.to[h]), h, n)
  /\ hlseq' = [hlseq EXCEPT ![h] = <<n>> \o @]

(* n goes in at distance d (0 before, 1 after) from x in its list          *)
Beside(x, n, d) ==
  [h \in LHeads |-> IF ~ Contains(hlseq[h], x) THEN hlseq[h]
                    ELSE InsertAt(hlseq[h], d + CHOOSE i \in DOMAIN hlseq[h] : hlseq[h][i] = x, n)]
hlist_add_before(n, x) ==
  /\ hlist_unhashed(n) /\ \E h \in LHeads : Contains(hlseq[h], x)
  /\ hl' = Points(Points(hl, hl.pprev[x], n), n, x) /\ hlseq' = Beside(x, n, 0)

AddAfterFault(H, x, n) ==                         \* fault: pprev of the node that follows is kept
  [to |-> [H.to EXCEPT ![n] = H.to[x], ![x] = n], pprev |-> [H.pprev EXCEPT ![n] = x]]
AddAfter(H, x, n) == Points(Points(H, n, H.to[x]), x, n)
hlist_add_after(x, n) ==
  /\ hlist_unhashed(n) /\ \E h \in LHeads : Contains(hlseq[h], x)
  /\ hl' = AddAfter(hl, x, n) /\ hlseq' = Beside(x, n, 1)

(* on no list, and yet hlist_del will work on it                           *)
hlist_add_fake(n) == hlist_unhashed(n) /\ hl' = [hl EXCEPT !.pprev[n] = n] /\ UNCHANGED hlseq

hlist_move_list(g, h) ==
  /\ g # h /\ hlseq[h] = << >> /\ hlseq' = [hlseq EXCEPT ![h] = hlseq[g], ![g] = << >>]
  /\ hl' = [Points(hl, h, hl.to[g]) EXCEPT !.to[g] = LNull]

RECURSIVE hlist_for_each_entry_from(_)
hlist_for_each_entry_from(n) == IF n = LNull THEN << >> ELSE <<n>> \o hlist_for_each_entry_from(hl.to[n])
hlist_for_each_entry_continue(n) == hlist_for_each_entry_from(hl.to[n])
hlist_for_each(h) == hlist_for_each_entry_from(hl.to[h])

(* hlist_for_each_safe over a loop body that deletes the nodes of S        *)
RECURSIVE HSafeDel(_, _, _)
HSafeDel(H, n, S) ==
  IF n = LNull THEN H
  ELSE LET m == H.to[n] IN HSafeDel(IF n \in S THEN INIT_HLIST_NODE(hlist_delB(H, n), n) ELSE H, m, S)
hlist_for_each_safe(h, S) ==
  /\ hl' = HSafeDel(hl, hl.to[h], S)
  /\ hlseq' = [hlseq EXCEPT ![h] = SelectSeq(@, LAMBDA x : x \notin S)]

HlistNext ==
  \/ \E n \in LNodes : \/ hlist_del(n) \/ hlist_del_init(n) \/ hlist_add_fake(n)
                       \/ \E m \in LNodes : hlist_add_before(n, m) \/ hlist_add_after(m, n)
  \/ \E h \in LHeads : \/ \E n \in LNodes : hlist_add_head(n, h)
                       \/ \E g \in LHeads : hlist_move_list(g, h)
                       \/ \E S \in SUBSET LNodes : hlist_for_each_safe(h, S)
-----------------------------------------------------------------------------
(* A walk visits what the calls put on the list; pprev of every node is    *)
(* the one place that points to it, so that a node is unlinked in place.   *)
PprevIsPlace ==
  /\ \A h \in LHeads : LET s == hlseq[h] IN
       /\ hlist_for_each(h) = s
       /\ \A i \in DOMAIN s : /\ hlist_for_each_entry_continue(s[i]) = SubSeq(s, i + 1, Len(s))
                              /\ hl.pprev[s[i]] = IF i = 1 THEN h ELSE s[i - 1]
  /\ \A n \in LNodes : hlist_unhashed(n) => \A p \in LHeads \cup LNodes : hl.to[p] # n
-----------------------------------------------------------------------------
(***************************************************************************)
(* inc/fast/list.h: the singly linked lists SL_* and the doubly linked     *)
(* ones DL_*, with a head of two pointers and null-terminated chains.      *)
(* Removed nodes keep their stale links.                                   *)
(***************************************************************************)

VARIABLES dl, dlseq,         \* first, last of the heads; next, prev of the nodes
          sl, slseq          \* slh_first and sle_next

dlistVars == <<dl, dlseq, sl, slseq>>

DListInit == /\ dl = [first |-> [h \in LHeads |-> LNull], last |-> [h \in LHeads |-> LNull],
                      nx |-> [n \in LNodes |-> LNull], pv |-> [n \in LNodes |-> LNull]]
             /\ dlseq = [h \in LHeads |-> << >>]
             /\ sl = [p \in LNodes \cup {"head"} |-> LNull] /\ slseq = << >>

(* The links from a to b, where a null end stands for the head's pointer.  *)
Chain(D, h, a, b) ==
  LET E == IF b = LNull THEN [D EXCEPT !.last[h] = a] ELSE [D EXCEPT !.pv[b] = a]
  IN  IF a = LNull THEN [E EXCEPT !.first[h] = b] ELSE [E EXCEPT !.nx[a] = b]

DFree(n) == \A h \in LHeads : ~ Contains(dlseq[h], n)
DAt(h, x) == CHOOSE i \in DOMAIN dlseq[h] : dlseq[h][i] = x

DL_INSERT_HEAD(h, n) ==
  /\ DFree(n) /\ dl' = Chain(Chain(dl, h, n, dl.first[h]), h, LNull, n)
  /\ dlseq' = [dlseq EXCEPT ![h] = <<n>> \o @]
DL_INSERT_TAIL(h, n) ==
  /\ DFree(n) /\ dl' = Chain(Chain(dl, h, dl.last[h], n), h, n, LNull)
  /\ dlseq' = [dlseq EXCEPT ![h] = Append(@, n)]
DL_INSERT_AFTER(h, x, n) ==
  /\ DFree(n) /\ Contains(dlseq[h], x) /\ dl' = Chain(Chain(dl, h, n, dl.nx[x]), h, x, n)
  /\ dlseq' = [dlseq EXCEPT ![h] = InsertAt(@, DAt(h, x) + 1, n)]
DL_INSERT_BEFORE(h, x, n) ==
  /\ DFree(n) /\ Contains(dlseq[h], x) /\ dl' = Chain(Chain(dl, h, dl.pv[x], n), h, n, x)
  /\ dlseq' = [dlseq EXCEPT ![h] = InsertAt(@, DAt(h, x), n)]
DL_REMOVE(h, x) ==
  /\ Contains(dlseq[h], x) /\ dl' = Chain(dl, h, dl.pv[x], dl.nx[x])
  /\ dlseq' = [dlseq EXCEPT ![h] = RemoveAt(@, DAt(h, x))]

DL_REMOVE_HEAD(h) ==
  LET z == dl.first[h] IN
  IF z = LNull THEN UNCHANGED <<dl, dlseq>>
  ELSE dl' = Chain(dl, h, LNull, dl.nx[z]) /\ dlseq' = [dlseq EXCEPT ![h] = Tail(@)]

RemoveTailFault(D, h) ==                          \* fault: the new last one keeps its next
  LET p == D.pv[D.last[h]]
  IN  IF p = LNull THEN Chain(D, h, LNull, LNull) ELSE [D EXCEPT !.last[h] = p]
RemoveTail(D, h) == Chain(D, h, D.pv[D.last[h]], LNull)
DL_REMOVE_TAIL(h) ==
  IF dl.last[h] = LNull THEN UNCHANGED <<dl, dlseq>>
  ELSE dl' = RemoveTail(dl, h) /\ dlseq' = [dlseq EXCEPT ![h] = Front(@)]

Emptied(D, g) == [D EXCEPT !.first[g] = LNull, !.last[g] = LNull]

DL_APPEND_LIST(h, g) ==
  LET l == dl.last[h]
      D == IF l = LNull THEN [dl EXCEPT !.first[h] = dl.first[g]]
           ELSE IF dl.first[g] = LNull THEN [dl EXCEPT !.nx[l] = LNull]
           ELSE [dl EXCEPT !.nx[l] = dl.first[g], !.pv[dl.first[g]] = l]
  IN  /\ h # g /\ dlseq' = [dlseq EXCEPT ![h] = @ \o dlseq[g], ![g] = << >>]
      /\ dl' = Emptied(IF dl.last[g] = LNull THEN D ELSE [D EXCEPT !.last[h] = dl.last[g]], g)
DL_PREPEND_LIST(h, g) ==
  LET f == dl.first[h]
      D == IF f = LNull THEN [dl EXCEPT !.last[h] = dl.last[g]]
           ELSE IF dl.last[g] = LNull THEN [dl EXCEPT !.pv[f] = LNull]
           ELSE [dl EXCEPT !.pv[f] = dl.last[g], !.nx[dl.last[g]] = f]
  IN  /\ h # g /\ dlseq' = [dlseq EXCEPT ![h] = dlseq[g] \o @, ![g] = << >>]
      /\ dl' = Emptied(IF dl.first[g] = LNull THEN D ELSE [D EXCEPT !.first[h] = dl.first[g]], g)
DL_INIT(h) == dl' = Emptied(dl, h) /\ dlseq' = [dlseq EXCEPT ![h] = << >>]

RECURSIVE ChainFrom(_, _)
ChainFrom(f, n) == IF n = LNull THEN << >> ELSE <<n>> \o ChainFrom(f, f[n])
DL_FOREACH(h) == ChainFrom(dl.nx, dl.first[h])
DL_FOREACH_REVERSE(h) == ChainFrom(dl.pv, dl.last[h])
SL_FOREACH == ChainFrom(sl, sl["head"])

SL_INIT == sl' = [sl EXCEPT !["head"] = LNull] /\ slseq' = << >>
SL_INSERT_HEAD(n) == /\ ~ Contains(slseq, n) /\ sl' = [sl EXCEPT ![n] = sl["head"], !["head"] = n]
                     /\ slseq' = <<n>> \o slseq
SL_INSERT_AFTER(x, n) ==
  /\ Contains(slseq, x) /\ ~ Contains(slseq, n) /\ sl' = [sl EXCEPT ![n] = sl[x], ![x] = n]
  /\ slseq' = InsertAt(slseq, 1 + CHOOSE i \in DOMAIN slseq : slseq[i] = x, n)
SL_REMOVE_HEAD == /\ slseq # << >> /\ sl' = [sl EXCEPT !["head"] = sl[sl["head"]]] /\ slseq' = Tail(slseq)

DListNext ==
  \/ /\ UNCHANGED <<sl, slseq>>
     /\ \E h \in LHeads : \/ DL_INIT(h) \/ DL_REMOVE_HEAD(h) \/ DL_REMOVE_TAIL(h)
                          \/ \E g \in LHeads : DL_APPEND_LIST(h, g) \/ DL_PREPEND_LIST(h, g)
                          \/ \E n \in LNodes : DL_INSERT_HEAD(h, n) \/ DL_INSERT_TAIL(h, n) \/ DL_REMOVE(h, n)
                          \/ \E x, n \in LNodes : DL_INSERT_AFTER(h, x, n) \/ DL_INSERT_BEFORE(h, x, n)
  \/ /\ UNCHANGED <<dl, dlseq>> /\ \A h \in LHeads : dlseq[h] = << >>
     /\ \/ SL_INIT \/ SL_REMOVE_HEAD
        \/ \E n \in LNodes : SL_INSERT_HEAD(n) \/ \E x \in LNodes : SL_INSERT_AFTER(x, n)
-----------------------------------------------------------------------------
(* The chains, walked either way, hold what the calls put there in order,  *)
(* whatever stale links the nodes carried when they went in.               *)
ChainsAreLists ==
  /\ \A h \in LHeads : /\ DL_FOREACH(h) = dlseq[h] /\ DL_FOREACH_REVERSE(h) = Reverse(dlseq[h])
  /\ SL_FOREACH = slseq
-----------------------------------------------------------------------------
(***************************************************************************)
(* inc/fast/queue.h: a bounded queue in a circular array of sz elements,   *)
(* one of which stays empty so that rd = wr says empty.                    *)
(***************************************************************************)

CONSTANTS QSizes, QElems
ASSUME QAssumption == QSizes \subseteq (Nat \ {0})

VARIABLES fq, felem, fseq, fres   \* fq = [rd, wr, sz]; fseq: what is in it; fres: the last result

fastqVars == <<fq, felem, fseq, fres>>

FastQueueInit == /\ fq = [rd |-> 0, wr |-> 0, sz |-> 1] /\ felem = [i \in {0} |-> 0]
                 /\ fseq = << >> /\ fres = <<0, 0>>

(* FQ_INIT, FQ_DYN_INIT, of a queue not in use *)
FQ_INIT(sz) == /\ fseq = << >> /\ fres = <<0, 0>>
               /\ fq' = [rd |-> 0, wr |-> 0, sz |-> sz] /\ felem' = [i \in 0..sz-1 |-> 0]
               /\ UNCHANGED <<fseq, fres>>

StepFault(i) == IF i + 1 > fq.sz THEN 0 ELSE i + 1          \* fault: wraps one too late
Step(i) == IF i + 1 = fq.sz THEN 0 ELSE i + 1
q_full_p == fq.rd = Step(fq.wr)
q_empty_p == fq.rd = fq.wr
q_size == CASE fq.rd < fq.wr -> fq.wr - fq.rd
            [] fq.rd > fq.wr -> fq.sz - fq.rd + fq.wr
            [] OTHER -> 0
next_wr == Step(fq.wr)
next_rd == Step(fq.rd)

FQ_ENQ(e) ==
  IF next_wr # fq.rd
  THEN /\ fq' = [fq EXCEPT !.wr = next_wr] /\ felem' = (fq.wr :> e) @@ felem
       /\ fseq' = Append(fseq, e) /\ fres' = <<1, e>>
  ELSE fres' = <<0, 0>> /\ UNCHANGED <<fq, felem, fseq>>
FQ_DEQ ==
  IF fq.rd # fq.wr
  THEN /\ fq' = [fq EXCEPT !.rd = next_rd] /\ fseq' = Tail(fseq)
       /\ fres' = <<1, felem[fq.rd]>> /\ UNCHANGED felem
  ELSE fres' = <<0, 0>> /\ UNCHANGED <<fq, felem, fseq>>
FQ_RESET == fq' = [fq EXCEPT !.rd = 0, !.wr = 0] /\ fseq' = << >> /\ UNCHANGED <<felem, fres>>

FastQueueNext == (\E sz \in QSizes : FQ_INIT(sz)) \/ FQ_DEQ \/ FQ_RESET \/ \E e \in QElems : FQ_ENQ(e)
-----------------------------------------------------------------------------
(* The slots from rd up to wr, around the end of the array, hold the queue *)
(* in order; it refuses only when it holds sz - 1 elements, and the        *)
(* predicates and the size say what is in it.                              *)
SlotsAreQueue ==
  /\ \A i \in 1..Len(fseq) : felem[(fq.rd + i - 1) % fq.sz] = fseq[i]
  /\ q_size = Len(fseq) /\ q_full_p = (Len(fseq) = fq.sz - 1) /\ q_empty_p = (fseq = << >>)
  /\ fq.wr \in 0..fq.sz-1 /\ fq.rd \in 0..fq.sz-1
-----------------------------------------------------------------------------
(***************************************************************************)
(* inc/fast/mpmc_list.h: a linked queue that producers extend by an atomic *)
(* exchange of head and a later store of the link.  One consumer: deq      *)
(* reads and writes tail in separate steps.                                *)
(***************************************************************************)

CONSTANTS MProducers, MNodes, MNull

VARIABLES mq,        \* head, tail, and next of the stub and of the nodes
          mlpc,       \* a producer: << >>, <<"xchg", n>>, <<"link", n, prev>>; "cons" likewise
          morder,    \* nodes in the order of their exchanges, and
          mout,      \* how many of these deq has returned
          mret       \* what it returned last, and whether by a return statement

mlistVars == <<mq, mlpc, morder, mout, mret>>

(* mpmc_list_queue_init *)
MpmcListInit == /\ mq = [head |-> "stub", tail |-> "stub", next |-> [n \in MNodes \cup {"stub"} |-> MNull]]
                /\ mlpc = [p \in MProducers \cup {"cons"} |-> << >>] /\ morder = << >> /\ mout = 0
                /\ mret = <<MNull, TRUE>>

MFresh(n) == ~ Contains(morder, n) /\ \A p \in MProducers : IF mlpc[p] = << >> THEN TRUE ELSE mlpc[p][2] # n

EnqClear(p, n) == /\ mlpc[p] = << >> /\ MFresh(n) /\ mq' = [mq EXCEPT !.next[n] = MNull]
                  /\ mlpc' = [mlpc EXCEPT ![p] = <<"xchg", n>>] /\ UNCHANGED <<morder, mout, mret>>
EnqExchange(p) == /\ mlpc[p] # << >> /\ mlpc[p][1] = "xchg"
                  /\ mq' = [mq EXCEPT !.head = mlpc[p][2]] /\ morder' = Append(morder, mlpc[p][2])
                  /\ mlpc' = [mlpc EXCEPT ![p] = <<"link", @[2], mq.head>>] /\ UNCHANGED <<mout, mret>>
EnqLink(p) == /\ mlpc[p] # << >> /\ mlpc[p][1] = "link"
              /\ mq' = [mq EXCEPT !.next[mlpc[p][3]] = mlpc[p][2]]
              /\ mlpc' = [mlpc EXCEPT ![p] = << >>] /\ UNCHANGED <<morder, mout, mret>>

(* tail and tail->next are read; a stub without a successor returns 0 *)
DeqRead == /\ mlpc["cons"] = << >> /\ UNCHANGED <<mq, morder, mout>>
           /\ LET t == mq.tail
                  n == mq.next[t]
              IN  /\ mlpc' = [mlpc EXCEPT !["cons"] = CASE t # "stub" -> <<"take", t, n>>
                                                       [] t = "stub" /\ n = MNull -> << >>
                                                       [] OTHER -> <<"skip", n>>]
                  /\ mret' = IF t = "stub" /\ n = MNull THEN <<MNull, TRUE>> ELSE mret
DeqSkip == /\ mlpc["cons"] # << >> /\ mlpc["cons"][1] = "skip" /\ UNCHANGED <<morder, mout, mret>>
           /\ LET t == mlpc["cons"][2]
              IN  /\ mq' = [mq EXCEPT !.tail = t]
                  /\ mlpc' = [mlpc EXCEPT !["cons"] = <<"take", t, mq.next[t]>>]

DeqTakeFault == /\ mlpc["cons"] # << >> /\ mlpc["cons"][1] = "take"
                /\ mq' = [mq EXCEPT !.tail = mlpc["cons"][3]]      \* fault: no test of next
                /\ mret' = <<mlpc["cons"][2], TRUE>>
                /\ mout' = mout + 1 /\ mlpc' = [mlpc EXCEPT !["cons"] = << >>] /\ UNCHANGED morder
(* Without a next, control falls off the end of the function: the caller   *)
(* gets whatever is in the place of the result.                            *)
DeqTake == /\ mlpc["cons"] # << >> /\ mlpc["cons"][1] = "take"
           /\ IF mlpc["cons"][3] = MNull
              THEN UNCHANGED <<mq, mout>> /\ \E any \in MNodes \cup {MNull} : mret' = <<any, FALSE>>
              ELSE /\ mq' = [mq EXCEPT !.tail = mlpc["cons"][3]] /\ mout' = mout + 1
                   /\ mret' = <<mlpc["cons"][2], TRUE>>
           /\ mlpc' = [mlpc EXCEPT !["cons"] = << >>] /\ UNCHANGED morder

MpmcListNext == \/ DeqRead \/ DeqSkip \/ DeqTake
                \/ \E p \in MProducers : EnqExchange(p) \/ EnqLink(p) \/ \E n \in MNodes : EnqClear(p, n)
-----------------------------------------------------------------------------
(* What deq returns is the oldest node not yet returned, also while a      *)
(* producer has exchanged head and not yet linked its node.  The last node *)
(* stays inside until a later one arrives; a call that finds only this one *)
(* leaves the queue as it is, and what it returns is not defined           *)
(* (mpmc_list.h:82): a node then may be any node, or none.                 *)
OldestFirst ==
  /\ mout <= Len(morder) /\ (mout > 0 => mout < Len(morder))
  /\ mlpc["cons"] # << >> => mlpc["cons"][2] = morder[mout + 1]
  /\ mret[2] /\ mret[1] # MNull => mout > 0 /\ mret[1] = morder[mout]
  /\ ~ mret[2] => mq.tail = morder[mout + 1]
  /\ mq.tail = IF mout = 0 /\ mq.tail = "stub" THEN "stub" ELSE morder[mout + 1]
  /\ mq.head = IF morder = << >> THEN "stub" ELSE Last(morder)
=============================================================================
