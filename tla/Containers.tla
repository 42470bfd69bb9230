----------------------------- MODULE Containers -----------------------------
(***************************************************************************)
(* Containers over one allocation: vectors, buffers, the heap, bit sets    *)
(* and growable strings. Each section has its own state.                   *)
(***************************************************************************)
EXTENDS Integers, Sequences, SequencesExt, FiniteSets, TypeUtils
-----------------------------------------------------------------------------
(***************************************************************************)
(* inc/fast/vect.h: two vectors, and the sequences they should be.  arr is *)
(* the whole allocation: cap cells, of which size count.  A call may be    *)
(* the last: growing doubles cap until it is large enough, which never     *)
(* ends from zero, and VECT_SAMPLE may write where the array used to be.   *)
(***************************************************************************)

CONSTANTS VElems, VMax, VOps         \* elements; bounds on size and calls

VARIABLES vec, vseq, vops,
          vempty,     \* history: made by VECT_INIT_FROM of an empty vector
          vend        \* <<>>, or <<"hangs" or "stale", vector, want>> of the last call

vectVars == <<vec, vseq, vempty, vend, vops>>

VArr(n) == [k \in 0 .. n - 1 |-> 0]                            \* NEWZA
VNew(n) == LET c == IF n = 0 THEN 16 ELSE n IN [size |-> 0, cap |-> c, arr |-> VArr(c)]

VectInit == vec = [i \in 1 .. 2 |-> VNew(2)] /\ vseq = [i \in 1 .. 2 |-> << >>]
            /\ vempty = [i \in 1 .. 2 |-> FALSE] /\ vend = << >> /\ vops = 0

VGrow(c, want) == LET n == CHOOSE k \in 1 .. 8 : c * 2^k >= want /\ (k = 1 \/ c * 2^(k-1) < want)
                  IN  c * 2^n

VReserveFault(v, want) ==        \* fault: grows only when want is past the end
  IF want <= v.cap + 1 THEN v
  ELSE LET n == VGrow(v.cap, want)
       IN  [v EXCEPT !.cap = n, !.arr = [k \in 0 .. n - 1 |-> IF k < v.cap THEN v.arr[k] ELSE 0]]

(* __vect_RESERVE: realloc keeps the old cells; the memset clears n - cap  *)
(* cells from size on.                                                     *)
VReserve(v, want) ==
  IF want < v.cap THEN v
  ELSE LET n == VGrow(v.cap, want)
       IN  [v EXCEPT !.cap = n, !.arr = [k \in 0 .. n - 1 |-> IF k < v.size THEN v.arr[k] ELSE 0]]

VPut(v, k, e) == [v EXCEPT !.arr = [@ EXCEPT ![k] = e]]
VTick == vend = << >> /\ vops < VOps /\ vops' = vops + 1
VSet(i, v, s) == /\ v.size <= VMax /\ vec' = [vec EXCEPT ![i] = v] /\ vseq' = [vseq EXCEPT ![i] = s]
                 /\ UNCHANGED <<vempty, vend>>
VEnds(why, i, want) == vend' = <<why, i, want>> /\ UNCHANGED <<vec, vseq, vempty>>

(* A call that first reserves want cells; the loop of __vect_RESERVE does  *)
(* not end for a vector without cells.                                     *)
VGrowing(i, want, v, s) ==
  VTick /\ IF vec[i].cap = 0 /\ want > 0 THEN VEnds("hangs", i, want) ELSE VSet(i, v, s)

(* VECT_INIT_FROM *)
InitFrom(i, j) == LET w == vec[j] IN
  /\ i # j /\ VTick /\ vempty' = [vempty EXCEPT ![i] = (w.size = 0)] /\ UNCHANGED vend
  /\ vec' = [vec EXCEPT ![i] = [size |-> w.size, cap |-> w.size, arr |-> [k \in 0 .. w.size - 1 |-> w.arr[k]]]]
  /\ vseq' = [vseq EXCEPT ![i] = vseq[j]]

(* VECT_SWAP, VECT_RESET, VECT_RESERVE, VECT_ENSURE *)
VSwap == /\ VTick /\ vec' = <<vec[2], vec[1]>> /\ vseq' = <<vseq[2], vseq[1]>>
         /\ vempty' = <<vempty[2], vempty[1]>> /\ UNCHANGED vend
VReset(i) == VTick /\ VSet(i, [vec[i] EXCEPT !.size = 0], << >>)
VReserveCall(i, n) == VGrowing(i, n, VReserve(vec[i], n), vseq[i])
Ensure(i, x) == VReserveCall(i, x + vec[i].size)

(* VECT_PUSH_BACK; also VECT_ENSURE(v, 1) and then VECT_GET_NEXT(v) = e    *)
VPushBack(i, e) == LET r == VReserve(vec[i], vec[i].size + 1) IN
  VGrowing(i, vec[i].size + 1, [VPut(r, r.size, e) EXCEPT !.size = @ + 1], Append(vseq[i], e))

(* VECT_POP_BACK, VECT_POP *)
VPopBack(i) == vec[i].size > 0 /\ VTick /\ VSet(i, [vec[i] EXCEPT !.size = @ - 1], Front(vseq[i]))

(* VECT_PUSH_FRONT moves every cell up by one, from the end.               *)
VPushFront(i, e) == LET r == VReserve(vec[i], vec[i].size + 1) IN
  VGrowing(i, vec[i].size + 1, [r EXCEPT !.size = @ + 1, !.arr = [k \in DOMAIN @ |->
       IF k = 0 THEN e ELSE IF k <= r.size THEN @[k - 1] ELSE @[k]]], <<e>> \o vseq[i])

(* VECT_POP_FRONT moves the cells down; the last one stays where it was.   *)
VPopFront(i) == LET v == vec[i] IN
  /\ v.size > 0 /\ VTick
  /\ VSet(i, [v EXCEPT !.size = @ - 1, !.arr = [k \in DOMAIN @ |->
       IF k < v.size - 1 THEN @[k + 1] ELSE @[k]]], Tail(vseq[i]))

VCopyIn(r, at, w) == [r EXCEPT !.size = at + w.size, !.arr = [k \in DOMAIN @ |->
                        IF at <= k /\ k < at + w.size THEN w.arr[k - at] ELSE @[k]]]

(* VECT_COPY, VECT_APPEND_VECT *)
VCopy(i, j) == VGrowing(i, vec[j].size, VCopyIn(VReserve(vec[i], vec[j].size), 0, vec[j]), vseq[j])
AppendVect(i, j) == LET n == vec[i].size + vec[j].size IN
  VGrowing(i, n, VCopyIn(VReserve(vec[i], n), vec[i].size, vec[j]), vseq[i] \o vseq[j])

(* One round of VECT_SHUFFLE, and of the qsort of VECT_SORT: an exchange.  *)
Exchange(i, a, b) ==
  /\ a < vec[i].size /\ b < vec[i].size /\ VTick
  /\ VSet(i, VPut(VPut(vec[i], a, vec[i].arr[b]), b, vec[i].arr[a]),
         [vseq[i] EXCEPT ![a + 1] = vseq[i][b + 1], ![b + 1] = vseq[i][a + 1]])

(* VECT_SAMPLE: the first k elements, some replaced by later ones.  They   *)
(* are stored through the address the array had before it was grown; if    *)
(* realloc has moved it, into memory that is no longer the vector's.       *)
Sample(i, j, k) ==
  LET w == vec[j]
      r == VReserve(vec[i], k)
  IN  /\ k < w.size /\ i # j
      /\ \/ vec[i].cap > 0 /\ k >= vec[i].cap /\ VTick /\ VEnds("stale", i, k)
         \/ \E pick \in [0 .. k - 1 -> 0 .. w.size - 1] :
              /\ \A x \in DOMAIN pick : pick[x] = x \/ pick[x] >= k
              /\ \A x, y \in DOMAIN pick : pick[x] = pick[y] => x = y
              /\ VGrowing(i, k, [r EXCEPT !.size = k, !.arr = [x \in DOMAIN @ |->
                   IF x < k THEN w.arr[pick[x]] ELSE @[x]]], [x \in 1 .. k |-> vseq[j][pick[x - 1] + 1]])

VectNext ==
  \/ VSwap
  \/ \E i \in 1 .. 2 :
       \/ VReset(i) \/ VPopBack(i) \/ VPopFront(i)
       \/ \E e \in VElems : VPushBack(i, e) \/ VPushFront(i, e)
       \/ \E n \in {1, 3} : VReserveCall(i, n) \/ Ensure(i, n)
       \/ \E a, b \in 0 .. 1 : a # b /\ Exchange(i, a, b)
       \/ \E j \in 1 .. 2 : InitFrom(i, j) \/ VCopy(i, j) \/ AppendVect(i, j) \/ \E k \in 1 .. 2 : Sample(i, j, k)
-----------------------------------------------------------------------------
(* A vector is the sequence its calls built, inside its allocation.  Two   *)
(* calls do not come back with one, and these are all: the first element   *)
(* put into a vector that VECT_INIT_FROM made of an empty one, which stays *)
(* empty for ever (vect.h:116), and VECT_SAMPLE of as many elements as the *)
(* destination has cells, or more (vect.h:286).                            *)
VectIsSequence ==
  /\ \A i \in 1 .. 2 : LET v == vec[i] IN
       /\ v.size <= v.cap /\ v.cap = Cardinality(DOMAIN v.arr)
       /\ vseq[i] = [k \in 1 .. v.size |-> v.arr[k - 1]]
       /\ v.cap = 0 <=> vempty[i]
       /\ vempty[i] => vseq[i] = << >>
  /\ vend # << >> => IF vend[1] = "hangs" THEN vempty[vend[2]] ELSE vend[3] >= vec[vend[2]].cap
-----------------------------------------------------------------------------
(* inc/fast/buf.h: a growable buffer of bytes; buf is the allocation.      *)

CONSTANTS BElems, BMax                  \* bytes; bound on the size

VARIABLES buf, bsize, bcap, bseq        \* bseq: history, the bytes appended

bufVars == <<buf, bsize, bcap, bseq>>

(* fast_buf_init(b, 2) *)
BufInit == buf = [k \in 0 .. 1 |-> 0] /\ bsize = 0 /\ bcap = 2 /\ bseq = << >>

GrownCapFault(want) == IF want > bcap THEN bcap * 2 ELSE bcap    \* fault: doubles once
GrownCap(want) ==
  IF want < bcap THEN bcap
  ELSE bcap * 2^(CHOOSE k \in 1 .. 8 : bcap * 2^k >= want /\ (k = 1 \/ bcap * 2^(k-1) < want))

(* fast_buf_reserve: realloc, the new bytes are arbitrary (0 here).        *)
Reserved(c) == [k \in 0 .. c - 1 |-> IF k < bcap THEN buf[k] ELSE 0]
BufReserve(want) == /\ want <= BMax /\ bcap' = GrownCap(want) /\ buf' = Reserved(bcap')
                    /\ UNCHANGED <<bsize, bseq>>

(* fast_buf_append_buf, fast_buf_append_byte; the latter for one byte.     *)
AppendBuf(s) ==
  /\ bsize + Len(s) <= BMax /\ bcap' = GrownCap(bsize + Len(s))
  /\ buf' = [k \in DOMAIN Reserved(bcap') |->
               IF bsize <= k /\ k < bsize + Len(s) THEN s[k - bsize + 1] ELSE Reserved(bcap')[k]]
  /\ bsize' = bsize + Len(s) /\ bseq' = bseq \o s

(* fast_buf_advance over bytes that the caller wrote at buf + size, after  *)
(* fast_buf_grow by as many.                                               *)
BufAdvance(e) ==
  /\ bsize + 1 <= BMax /\ bcap' = GrownCap(bsize + 1)
  /\ buf' = [Reserved(bcap') EXCEPT ![bsize] = e]
  /\ bsize' = bsize + 1 /\ bseq' = Append(bseq, e)

BufReset == bsize' = 0 /\ bseq' = << >> /\ UNCHANGED <<buf, bcap>>

BufNext ==
  \/ \E n \in {1, 3, 5} : BufReserve(n)
  \/ \E e \in BElems : BufAdvance(e) \/ AppendBuf(<<e>>) \/ AppendBuf(<<e, e, 7>>)
  \/ BufReset
-----------------------------------------------------------------------------
(* What was appended is in the buffer, in order, within its capacity.      *)
BufHolds == bsize <= bcap /\ bseq = [k \in 1 .. bsize |-> buf[k - 1]]
-----------------------------------------------------------------------------
(***************************************************************************)
(* inc/utils/minheap.h: the n cells of Heap in use.  remove(pos) pushes    *)
(* the value that fills the gap up by one level only, as it does not move  *)
(* pos, and sifts from a cell that is no longer in the heap when pos was   *)
(* the last: it compares with memory outside the heap, perhaps outside the *)
(* array, may exchange with it, and returns either value.                  *)
(***************************************************************************)

CONSTANTS HArrays, HValues, HSize, HOps  \* arrays to build from; values; room; calls

VARIABLES heap, hcount, hops,
          hlow,     \* cells that remove may have left too low: the one cell at
                    \* first, every cell once another call has moved values
          hres      \* the last removal: [got, want, last]

heapVars == <<heap, hcount, hlow, hres, hops>>

Cells(H) == Cardinality(DOMAIN H)                           \* n
HUp(i) == (i - 1) \div 2                                     \* parent, i > 0
IsLeaf(H, i) == i >= Cells(H) \div 2 /\ i < Cells(H)
Swapped(H, i, j) == [H EXCEPT ![i] = H[j], ![j] = H[i]]
Shorter(H) == [i \in 0 .. Cells(H) - 2 |-> H[i]]            \* --n

RECURSIVE siftdown(_, _)
siftdown(H, pos) ==
  LET l == 2 * pos + 1
      j == IF l + 1 < Cells(H) /\ H[l] > H[l + 1] THEN l + 1 ELSE l
  IN  IF IsLeaf(H, pos) THEN H
      ELSE IF H[pos] <= H[j] THEN H ELSE siftdown(Swapped(H, pos, j), j)

RECURSIVE SiftUp(_, _)
SiftUp(H, i) == IF i # 0 /\ H[i] < H[HUp(i)] THEN SiftUp(Swapped(H, i, HUp(i)), HUp(i)) ELSE H

RECURSIVE buildHeap(_, _)
buildHeap(H, i) == IF i < 0 THEN H ELSE buildHeap(siftdown(H, i), i - 1)

HeapInit == /\ heap = << >> /\ hlow = {} /\ hres = [got |-> 0, want |-> 0, last |-> FALSE] /\ hops = 0
            /\ hcount = [v \in HValues |-> 0]

HTick == hops > 0 /\ hops < HOps /\ hops' = hops + 1
HCount(v, d) == hcount' = [hcount EXCEPT ![v] = @ + d]
Moved == hlow' = IF hlow = {} THEN {} ELSE 0 .. HSize

(* The constructor, over what the caller put into the array.               *)
Build(s) ==
  /\ hops = 0 /\ hops' = 1
  /\ heap' = buildHeap([i \in 0 .. Len(s) - 1 |-> s[i + 1]], Len(s) \div 2 - 1)
  /\ hcount' = [v \in HValues |-> Cardinality({i \in 1 .. Len(s) : s[i] = v})]
  /\ UNCHANGED <<hlow, hres>>

HInsertFault(v) ==           \* fault: the new value stays at the end
  /\ HTick /\ Cells(heap) < HSize /\ HCount(v, 1)
  /\ heap' = [i \in 0 .. Cells(heap) |-> IF i < Cells(heap) THEN heap[i] ELSE v]
  /\ Moved /\ UNCHANGED hres

HInsert(v) ==
  /\ HTick /\ Cells(heap) < HSize /\ HCount(v, 1)
  /\ heap' = SiftUp([i \in 0 .. Cells(heap) |-> IF i < Cells(heap) THEN heap[i] ELSE v], Cells(heap))
  /\ Moved /\ UNCHANGED hres

removemin ==
  /\ HTick /\ heap # << >> /\ Moved
  /\ LET S == Swapped(heap, 0, Cells(heap) - 1)
         H == Shorter(S)
     IN  /\ heap' = IF H = << >> THEN H ELSE siftdown(H, 0)
         /\ hres' = [got |-> S[Cells(H)], want |-> Min({heap[i] : i \in DOMAIN heap}), last |-> FALSE]
         /\ HCount(S[Cells(H)], -1)

(* the cell that is left out, n, still takes part in the loop that pushes up *)
remove(pos) ==
  LET n == Cells(heap) - 1
      S == Swapped(heap, pos, n)
      up == pos # 0 /\ S[pos] < S[HUp(pos)]
      U == IF up THEN Swapped(S, pos, HUp(pos)) ELSE S
      low == up /\ HUp(pos) # 0 /\ S[pos] < S[HUp(HUp(pos))]
  IN  /\ HTick /\ HCount(U[n], -1)
      /\ heap' = IF pos = n THEN Shorter(U) ELSE siftdown(Shorter(U), pos)
      /\ IF low /\ hlow = {} THEN hlow' = {HUp(pos)} ELSE Moved
      /\ \E v \in IF pos = n THEN HValues ELSE {U[n]} : hres' = [got |-> v, want |-> heap[pos], last |-> (pos = n)]

HeapNext ==
  \/ \E s \in HArrays : Build(s)
  \/ \E v \in HValues : HInsert(v)
  \/ removemin
  \/ \E pos \in DOMAIN heap : remove(pos)
-----------------------------------------------------------------------------
(* The cells hold what was put in and not taken, and the least of them is  *)
(* at the top of every subtree and what removemin returns, as long as no   *)
(* removal has moved a value that belonged more than one level up: that    *)
(* value is then below a greater one, alone at first (minheap.h:139).      *)
(* remove returns the value at its position unless this was the last one   *)
(* (minheap.h:141).                                                        *)
HeapOrdered ==
  /\ \A v \in HValues : hcount[v] = Cardinality({i \in DOMAIN heap : heap[i] = v})
  /\ \A i \in DOMAIN heap \ ({0} \cup hlow) : heap[HUp(i)] <= heap[i]
  /\ \A i \in hlow : hlow = {i} => heap[HUp(i)] > heap[i]
  /\ hlow = {} /\ ~ hres.last => hres.got = hres.want
-----------------------------------------------------------------------------
(***************************************************************************)
(* inc/fast/bitset.h: two bit sets, each an array of words of BWidth bits  *)
(* (64 in the code); a word is the set of its bits that are on.            *)
(***************************************************************************)

CONSTANTS BWidth, BBits                 \* bits per word; bits asked for

VARIABLES bs, bset                      \* history: the sets they stand for

bitVars == <<bs, bset>>

BITSIZE_W(n) == (n + BWidth - 1) \div BWidth
Word == 0 .. BWidth - 1
AllBits == 0 .. BWidth * BITSIZE_W(BBits) - 1

(* bitset_new(BBits), twice *)
BitInit == /\ bs = [i \in 1 .. 2 |-> [w \in 0 .. BITSIZE_W(BBits) - 1 |-> {}]]
           /\ bset = [i \in 1 .. 2 |-> {}]

Assign(i, w, s) == bs' = [bs EXCEPT ![i] = w] /\ bset' = [bset EXCEPT ![i] = s]

bitset_set(i, x) ==
  Assign(i, [bs[i] EXCEPT ![x \div BWidth] = @ \cup {x % BWidth}], bset[i] \cup {x})

bitset_clrFault(i, x) ==     \* fault: the bit of the first word
  Assign(i, [bs[i] EXCEPT ![0] = @ \ {x % BWidth}], bset[i] \ {x})

bitset_clr(i, x) ==
  Assign(i, [bs[i] EXCEPT ![x \div BWidth] = @ \ {x % BWidth}], bset[i] \ {x})

bitset_isset(i, x) == x % BWidth \in bs[i][x \div BWidth]

bitset_copy(i, j) == Assign(i, bs[j], bset[j])         \* bitset_dup as well
bitset_or(i, j) == Assign(i, [w \in DOMAIN bs[i] |-> bs[i][w] \cup bs[j][w]], bset[i] \cup bset[j])
bitset_and(i, j) == Assign(i, [w \in DOMAIN bs[i] |-> bs[i][w] \cap bs[j][w]], bset[i] \cap bset[j])
bitset_xor(i, j) == Assign(i, [w \in DOMAIN bs[i] |-> (bs[i][w] \ bs[j][w]) \cup (bs[j][w] \ bs[i][w])],
                           (bset[i] \ bset[j]) \cup (bset[j] \ bset[i]))
bitset_andnot(i, j) == Assign(i, [w \in DOMAIN bs[i] |-> bs[i][w] \ bs[j][w]], bset[i] \ bset[j])
bitset_not(i) == Assign(i, [w \in DOMAIN bs[i] |-> Word \ bs[i][w]], AllBits \ bset[i])

BitNext == \E i \in 1 .. 2 :
  \/ bitset_not(i)
  \/ \E x \in AllBits : bitset_set(i, x) \/ bitset_clr(i, x)
  \/ \E j \in 1 .. 2 : \/ bitset_copy(i, j) \/ bitset_or(i, j) \/ bitset_and(i, j)
                       \/ bitset_xor(i, j) \/ bitset_andnot(i, j)
-----------------------------------------------------------------------------
(* Bit by bit, across words and up to the last bit of the last word, the   *)
(* operations are those of sets.                                           *)
BitsAreSets == \A i \in 1 .. 2, x \in AllBits : bitset_isset(i, x) = (x \in bset[i])
-----------------------------------------------------------------------------
(***************************************************************************)
(* src/gstring.c and src/gstring_var.c: growable strings.  The allocation  *)
(* is a sequence of bytes, NUL the end; a write past it is out of bounds   *)
(* and shows as an allocation longer than cap.                             *)
(***************************************************************************)

CONSTANTS GStrings, GChars, GKeys, GMax, GOps      \* C strings, characters, known variables

VARIABLES gs, gval, gops,   \* gs = [mem, len, cap]; gval: what the string should be
          gok               \* "" or what the last call has left: "length" (a wrong one),
                            \* "open" (no terminator) or "past" (a write behind the
                            \* memory); it is then used again only after gstr_init

gstrVars == <<gs, gval, gok, gops>>

NUL == "nul"
IsSpace(c) == c \in {" ", "\n", "\r"}
Zeros(n) == [i \in 1 .. n |-> NUL]
(* memcpy of the bytes b to str + at *)
Put(m, at, b) == [i \in 1 .. (IF at + Len(b) > Len(m) THEN at + Len(b) ELSE Len(m)) |->
                    IF at < i /\ i <= at + Len(b) THEN b[i - at] ELSE IF i <= Len(m) THEN m[i] ELSE NUL]
CStr(m) == LET Z == {i \in DOMAIN m : m[i] = NUL}
           IN  IF Z = {} THEN m ELSE SubSeq(m, 1, (CHOOSE i \in Z : \A j \in Z : i <= j) - 1)

GrowFault(g, n) == IF g.cap < g.len + n THEN LET c == NEXTPOW2(g.len + n)   \* fault: no room for
                   IN [g EXCEPT !.cap = c, !.mem = @ \o Zeros(c - g.cap)] ELSE g   \*        the null
grow_if(g, n) == LET want == g.len + n + 1
                     c == NEXTPOW2(want)
                 IN  IF g.cap < want THEN [g EXCEPT !.cap = c, !.mem = @ \o Zeros(c - g.cap)] ELSE g
init_gstr(n, s) == LET c == NEXTPOW2((IF n = 0 THEN 63 ELSE n) + 1)          \* __init_gstr
                   IN  [mem |-> Put(Zeros(c), 0, Append(s, NUL)), len |-> Len(s), cap |-> c]
append(g, s) == LET h == grow_if(g, Len(s) + 1)                             \* __append
                IN  [h EXCEPT !.mem = Put(@, h.len, Append(s, NUL)), !.len = @ + Len(s)]
append_ch(g, c) == LET h == grow_if(g, 1)
                   IN  [h EXCEPT !.mem = Put(@, h.len, <<c, NUL>>), !.len = @ + 1]
PopCh(g) == [g EXCEPT !.len = @ - 1, !.mem[g.len] = NUL]
LastCh(g) == IF g.len = 0 THEN NUL ELSE g.mem[g.len]

GstringInit == gs = init_gstr(1, << >>) /\ gval = << >> /\ gok = "" /\ gops = 0

(* gstr_fini followed by gstr_init or gstr_init_from, of a null pointer too; gstr_dup *)
gstr_init(n) == gs' = init_gstr(n, << >>) /\ gval' = << >>
gstr_init_from(s) == gs' = init_gstr(Len(s), s) /\ gval' = s
(* gstr_append_str, and gstr_append of another string with the value s *)
gstr_append_str(s) == gs' = append(gs, s) /\ gval' = gval \o s
gstr_append_ch(c) == gs' = append_ch(gs, c) /\ gval' = Append(gval, c)
gstr_truncate(n) == /\ gs' = IF gs.len > n THEN [gs EXCEPT !.len = n, !.mem[n + 1] = NUL] ELSE gs
                    /\ gval' = IF n < Len(gval) THEN SubSeq(gval, 1, n) ELSE gval

(* the last newline, then the last carriage return *)
gstr_chop ==
  LET g1 == IF LastCh(gs) = "\n" THEN PopCh(gs) ELSE gs
      cr == LastCh(g1) = "\r"
  IN  /\ gs' = (IF cr THEN PopCh(g1) ELSE g1)
      /\ LET v == IF gval # << >> /\ Last(gval) = "\n" THEN Front(gval) ELSE gval
         IN  gval' = IF v # << >> /\ Last(v) = "\r" THEN Front(v) ELSE v
gstr_chop_if(S) ==
  /\ gs' = IF LastCh(gs) \in S THEN PopCh(gs) ELSE gs
  /\ gval' = IF gval # << >> /\ Last(gval) \in S THEN Front(gval) ELSE gval

RECURSIVE StripLeft(_)
StripLeft(s) == IF s # << >> /\ IsSpace(s[1]) THEN StripLeft(Tail(s)) ELSE s
(* what is left of the first other character is closed up, and the string  *)
(* ends behind the last                                                    *)
gstr_trim ==
  LET s == CStr(gs.mem)
      NS == {i \in DOMAIN s : ~ IsSpace(s[i])}
      a == CHOOSE i \in NS : \A j \in NS : i <= j
      b == CHOOSE i \in NS : \A j \in NS : i >= j
  IN  /\ gs' = IF NS = {} THEN [gs EXCEPT !.mem[1] = NUL, !.len = 0]
               ELSE [gs EXCEPT !.mem = Put(Put(@, 0, Append(SubSeq(s, a, Len(s)), NUL)), b - a + 1, <<NUL>>),
                               !.len = b - a + 1]
      /\ gval' = Reverse(StripLeft(Reverse(StripLeft(gval))))

(* bytes up to a delimiter or the end of the file, doubling the room when  *)
(* a byte comes that has none; the terminator has no such test, so a last  *)
(* line that fills the room puts it behind the end.  Without memory the    *)
(* bytes so far stay, with no terminator and the length 0.                 *)
gstr_readline(line, D) ==
  LET Cut == {i \in DOMAIN line : line[i] \in D}
      n == IF Cut = {} THEN Len(line) ELSE (CHOOSE i \in Cut : \A j \in Cut : i <= j) - 1
      got == n + (IF Cut = {} THEN 0 ELSE 1)                    \* bytes read
      c == CHOOSE k \in {gs.cap * 2 ^ e : e \in 0 .. 8} : k >= got /\ (k = gs.cap \/ k \div 2 < got)
      m == gs.mem \o Zeros(c - gs.cap)
  IN  \/ /\ gs' = [mem |-> Put(m, 0, Append(SubSeq(line, 1, n), NUL)), len |-> n, cap |-> c]
         /\ gval' = SubSeq(line, 1, n) /\ gok' = IF n = c THEN "past" ELSE ""
      \/ \E k \in {gs.cap * 2 ^ e : e \in 0 .. 8} :
           /\ k < got /\ gval' = SubSeq(line, 1, k) /\ gok' = "open"
           /\ gs' = [mem |-> Put(gs.mem \o Zeros(k - gs.cap), 0, SubSeq(line, 1, k)), len |-> 0, cap |-> k]

(* getvar: the name after a dollar sign and the characters consumed        *)
getvar(s) ==
  LET Close == {i \in DOMAIN s : s[i] = "}"}
      Stop == {i \in DOMAIN s : s[i] \in {" ", "\n", "\r", "{", "}", "\\", "'"}}
      k == CHOOSE i \in Close : \A j \in Close : i <= j
      e == IF Stop = {} THEN Len(s) ELSE (CHOOSE i \in Stop : \A j \in Stop : i <= j) - 1
  IN  CASE s = << >> -> <<<< >>, 0>>
        [] s # << >> /\ s[1] = "{" /\ Len(s) = 1 -> <<<< >>, 1>>
        [] s # << >> /\ s[1] = "{" /\ Len(s) > 1 ->
             IF Close = {} THEN <<<< >>, Len(s) + 1>> ELSE <<SubSeq(s, 2, k - 1), k>>
        [] OTHER -> <<SubSeq(s, 1, e), e>>

(* gstr_varexp from *s on; prev is the character before, and of an         *)
(* expansion the dollar sign                                               *)
RECURSIVE VarExp(_, _, _)
VarExp(g, prev, s) ==
  IF s = << >> THEN [ok |-> TRUE, g |-> g]
  ELSE IF s[1] # "$" THEN VarExp(append_ch(g, s[1]), s[1], Tail(s))
  ELSE IF prev = "\\" THEN VarExp([g EXCEPT !.mem[g.len] = "$"], "$", Tail(s))
  ELSE LET v == getvar(Tail(s))
       IN  IF v[1] \notin DOMAIN GKeys THEN [ok |-> FALSE, g |-> g]
           ELSE VarExp(append(g, GKeys[v[1]]), "$", SubSeq(s, v[2] + 2, Len(s)))
(* The meaning: replace $name, ${name} and \$, left to right, or fail.     *)
RECURSIVE Expanded(_)
Expanded(s) ==
  IF s = << >> THEN << << >> >>
  ELSE IF Len(s) > 1 /\ s[1] = "\\" /\ s[2] = "$"
       THEN LET r == Expanded(SubSeq(s, 3, Len(s))) IN [i \in DOMAIN r |-> <<"$">> \o r[i]]
  ELSE IF s[1] # "$" THEN LET r == Expanded(Tail(s)) IN [i \in DOMAIN r |-> <<s[1]>> \o r[i]]
  ELSE LET v == getvar(Tail(s))
       IN  IF v[1] \notin DOMAIN GKeys THEN << >>
           ELSE LET r == Expanded(SubSeq(s, v[2] + 2, Len(s))) IN [i \in DOMAIN r |-> GKeys[v[1]] \o r[i]]
gstr_varexp ==
  LET r == VarExp(init_gstr(gs.len, << >>), NUL, CStr(gs.mem))
      x == Expanded(gval)
  IN  /\ gs' = IF r.ok THEN r.g ELSE [gs EXCEPT !.mem[1] = NUL, !.len = 0]
      /\ gval' = IF x = << >> THEN << >> ELSE x[1]

(* gstr_copy leaves the length of dest at zero, gstr_unquote one too large *)
gstr_copy(s) == /\ gs' = [grow_if([gs EXCEPT !.len = 0], Len(s) + 1) EXCEPT !.mem = Put(@, 0, Append(s, NUL))]
                /\ gval' = s /\ gok' = IF s = << >> THEN "" ELSE "length"
gstr_unquote ==
  LET q == gs.mem[1]
      h == PopCh(gs)
  IN  IF q # "'" \/ LastCh(gs) # q THEN UNCHANGED <<gs, gval, gok>>
      ELSE /\ gs' = [h EXCEPT !.mem = Put(@, 0, SubSeq(h.mem, 2, h.len + 1))]
           /\ gval' = IF Len(gval) = 1 THEN << >> ELSE SubSeq(gval, 2, Len(gval) - 1)
           /\ gok' = IF h.len = 0 THEN "" ELSE "length"

GstringNext ==
  /\ gops < GOps /\ gops' = gops + 1 /\ gs.len <= GMax
  /\ \/ gok' = "" /\ gok # "past" /\ \E n \in 0 .. 1 : gstr_init(n)
     \/ gok' = "" /\ gok # "past" /\ \E s \in GStrings : gstr_init_from(s)
     \/ gok = "" /\ (gstr_unquote \/ \E s \in GStrings : gstr_copy(s) \/ gstr_readline(s, {"\n"}))
     \/ /\ gok = "" /\ UNCHANGED gok
        /\ \/ \E s \in GStrings : gstr_append_str(s)
           \/ \E c \in GChars : gstr_append_ch(c) \/ gstr_chop_if({c})
           \/ \E n \in 0 .. 2 : gstr_truncate(n)
           \/ gstr_chop \/ gstr_trim \/ gstr_varexp
-----------------------------------------------------------------------------
(* Through any sequence of calls the string is what the calls make of it,  *)
(* ends inside the allocation and has the length of its terminator.  Three *)
(* answers differ: gstr_copy leaves the length 0 and gstr_unquote one too  *)
(* many; gstr_readline out of memory leaves no terminator; and at the end  *)
(* of a file whose last line fills the memory it writes one byte past it   *)
(* (gstring.c:405).  Other calls never do.                                 *)
StringIsValue ==
  /\ CStr(gs.mem) = gval
  /\ Len(gs.mem) = gs.cap + (IF gok = "past" THEN 1 ELSE 0)
  /\ gok \in {"", "length"} => Len(gval) < gs.cap
  /\ gok \in {"past", "open"} => Len(gval) = gs.cap
  /\ gok = "length" \/ gs.len = IF gok = "open" THEN 0 ELSE Len(gval)
=============================================================================
