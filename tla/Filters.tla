------------------------------- MODULE Filters ------------------------------
(***************************************************************************)
(* Bloom and xor filters, in memory and in files. Each section has its own *)
(* state.                                                                  *)
(***************************************************************************)
EXTENDS Integers, Sequences, FiniteSets, TypeUtils, SequencesExt, FiniteSetsExt
-----------------------------------------------------------------------------
(***************************************************************************)
(* src/hashtable/bloom.c, bloom_internal.h and bloom_marshal.c: standard,  *)
(* counting and scalable Bloom filters, and their images in files.  An     *)
(* error rate e is kept as the integer -1000 * log2(e); a bitmap maps a    *)
(* slot to its bit or counter.  A file is [len, hdr, dir, at, ck]: header  *)
(* and directory, what lies at which offset, and what the checksum was     *)
(* computed over.                                                          *)
(***************************************************************************)

CONSTANTS BVals, BSalts, BHash,      \* values, salts; hash_val: [v, salt] -> <<h1, h2>>
          BSlots,                    \* values of a counter (256)
          BN, BE,                    \* n and e of a new filter
          NFILT,                     \* filters a scalable one has room for at first (8)
          BJunk,                     \* what uninitialised memory holds
          BOps                       \* operations on a filter

VARIABLES bl,       \* the Bloom in memory, or NoBloom
          bgot,     \* how often each value was put in and not removed
          bexact,   \* every value removed was in, and found
          bstep, btmp, bfile, bsaved, bops

bloomVars == <<bl, bgot, bexact, bstep, btmp, bfile, bsaved, bops>>

CeilDiv(a, b) == (a + b - 1) \div b
make_k(e) == CeilDiv(e, 1000)
make_m(n, e) == n * CeilDiv(e * 1443, 1000000)
make_n(m, e) == CeilDiv(m * 693, e)
make_e(k) == 1000 * k
(* 1 - exp(-size / m) > 1/2, that is size > m * ln 2                       *)
HalfFull(f) == f.size * 1000 > f.m * 693

Slot(f, v, i) == ((BHash[v, f.salt][1] + i * BHash[v, f.salt][2]) % f.m) + i * f.m
SlotsOf(f, v) == {Slot(f, v, i) : i \in 0 .. f.k - 1}

standard_bloom_probe(f, v) ==
  [f EXCEPT !.map = [j \in DOMAIN @ |-> IF j \in SlotsOf(f, v) THEN 1 ELSE @[j]], !.size = @ + 1]
standard_bloom_find(f, v) == \A j \in SlotsOf(f, v) : f.map[j] = 1
counting_bloom_probe(f, v) ==
  [f EXCEPT !.map = [j \in DOMAIN @ |-> IF j \in SlotsOf(f, v) THEN (@[j] + 1) % BSlots ELSE @[j]],
            !.size = @ + 1]
counting_bloom_remove(f, v) ==
  [f EXCEPT !.map = [j \in DOMAIN @ |-> IF j \in SlotsOf(f, v) /\ @[j] > 0 THEN @[j] - 1 ELSE @[j]],
            !.size = @ - 1]
counting_bloom_find(f, v) == \A j \in SlotsOf(f, v) : f.map[j] > 0

(* size is not set: it is what the memory of the filter held               *)
counting_bloom_init(n, e, salt, size) ==
  LET s == CeilDiv(make_m(n, e), make_k(e))
  IN  [m |-> s, k |-> make_k(e), salt |-> salt, size |-> size, bmsize |-> s * make_k(e), e |-> e,
       map |-> [j \in 0 .. s * make_k(e) - 1 |-> 0], mm |-> FALSE]
standard_bloom_init(n, e, salt, size) ==
  LET s == CeilDiv(make_m(n, e), make_k(e))
  IN  [m |-> s, k |-> make_k(e), salt |-> salt, size |-> size,
       bmsize |-> ALIGN_UP(s * make_k(e), 64) \div 8, e |-> e,
       map |-> [j \in 0 .. s * make_k(e) - 1 |-> 0], mm |-> FALSE]

NoBloom == [typ |-> "none"]
setup_standard_bloom(n, e, f) == [typ |-> "QUICK", n |-> n, e |-> e, fs |-> <<f>>]
setup_counting_bloom(n, e, f) == [typ |-> "COUNTING", n |-> n, e |-> e, fs |-> <<f>>]
(* zeroed is how many filters of the array came from calloc                *)
setup_scalable_bloom(n, e, nfilt, fs) ==
  [typ |-> "SCALE", n |-> n, e |-> e, fs |-> fs, cap |-> nfilt, zeroed |-> nfilt, scale |-> 2, r |-> 152]
scalable_new(n, e, salt) == setup_scalable_bloom(n, e, NFILT, <<standard_bloom_init(n, e, salt, 0)>>)

Standard_bloom_init(n, e, scalable, salt) ==
  IF scalable THEN scalable_new(n, e, salt)
  ELSE setup_standard_bloom(n, e, standard_bloom_init(n, e, salt, 0))
Counting_bloom_init(n, e, salt) == setup_counting_bloom(n, e, counting_bloom_init(n, e, salt, 0))

maybe_grow_filter(b) == IF Len(b.fs) = b.cap THEN [b EXCEPT !.cap = 2 * @] ELSE b
scalable_probe(b, v, salt, junk) ==
  LET f == b.fs[Len(b.fs)]
      e == f.e + b.r
      n == make_n(f.m * f.k * b.scale, e)
      size == IF Len(b.fs) < b.zeroed THEN 0 ELSE junk
  IN  IF HalfFull(f)
      THEN [maybe_grow_filter(b) EXCEPT !.fs = Append(@, standard_bloom_probe(standard_bloom_init(n, e, salt, size), v))]
      ELSE [b EXCEPT !.fs[Len(b.fs)] = standard_bloom_probe(f, v)]
(* fault: only the newest filter is asked *)
scalable_findFault(b, v) == standard_bloom_find(b.fs[Len(b.fs)], v)
scalable_find(b, v) == \E i \in DOMAIN b.fs : standard_bloom_find(b.fs[i], v)

Bloom_find(b, v) == CASE b.typ = "SCALE" -> scalable_find(b, v)
                      [] b.typ = "QUICK" -> standard_bloom_find(b.fs[1], v)
                      [] b.typ = "COUNTING" -> counting_bloom_find(b.fs[1], v)

bloom_eq(f, g) == f.m = g.m /\ f.k = g.k /\ f.salt = g.salt /\ f.size = g.size /\ f.bmsize = g.bmsize /\ f.map = g.map
scaled_bloom_eq(a, b) == /\ Len(a.fs) = Len(b.fs) /\ a.scale = b.scale /\ a.r = b.r
                         /\ \A i \in DOMAIN a.fs : bloom_eq(a.fs[i], b.fs[i])
Bloom_eq(a, b) == a.typ = b.typ /\ IF a.typ = "SCALE" THEN scaled_bloom_eq(a, b) ELSE bloom_eq(a.fs[1], b.fs[1])
-----------------------------------------------------------------------------
Idle == bstep = "idle"
Same == UNCHANGED <<bstep, btmp, bfile, bsaved>>
Fresh == bgot' = [v \in BVals |-> 0] /\ bexact' = TRUE

Standard_bloom_new == \E scalable \in BOOLEAN, salt \in BSalts :
  /\ Idle /\ bl = NoBloom /\ bl' = Standard_bloom_init(BN, BE, scalable, salt) /\ Fresh /\ Same /\ UNCHANGED bops
Counting_bloom_new == \E salt \in BSalts :
  /\ Idle /\ bl = NoBloom /\ bl' = Counting_bloom_init(BN, BE, salt) /\ Fresh /\ Same /\ UNCHANGED bops
Bloom_delete == Idle /\ bl # NoBloom /\ bl' = NoBloom /\ Fresh /\ Same /\ UNCHANGED bops

(* a bitmap mapped from a file is read-only                                *)
Writable == Idle /\ bl # NoBloom /\ bops < BOps /\ bops' = bops + 1 /\ ~ bl.fs[1].mm
Bloom_probe == \E v \in BVals, salt \in BSalts, junk \in BJunk :
  /\ Writable /\ Same /\ bgot' = [bgot EXCEPT ![v] = @ + 1]
  /\ bl' = CASE bl.typ = "SCALE" -> scalable_probe(bl, v, salt, junk)
             [] bl.typ = "QUICK" -> [bl EXCEPT !.fs[1] = standard_bloom_probe(@, v)]
             [] bl.typ = "COUNTING" -> [bl EXCEPT !.fs[1] = counting_bloom_probe(@, v)]
  /\ UNCHANGED bexact
Bloom_remove == \E v \in BVals :
  /\ Writable /\ Same /\ bl.typ = "COUNTING" /\ bl.fs[1].size > 0
  /\ bl' = [bl EXCEPT !.fs[1] = counting_bloom_remove(@, v)]
  /\ bexact' = (bexact /\ bgot[v] > 0 /\ Bloom_find(bl, v)) /\ bgot' = [bgot EXCEPT ![v] = IF @ = 0 THEN 0 ELSE @ - 1]
-----------------------------------------------------------------------------
HDRSIZ == 64
FILT_HDRSIZ == 40
CKSIZE == 32

Pair(sz) == [hdroff |-> sz, dataoff |-> ALIGN_UP(sz + FILT_HDRSIZ, 64)]
(* the offsets of the filters, and behind them the size of the data        *)
calc_marshal_size(b) ==
  LET start == ALIGN_UP(HDRSIZ + 16 + 8 * Len(b.fs), 64)
      next[i \in 1 .. Len(b.fs) + 1] ==
        IF i = 1 THEN start ELSE ALIGN_UP(Pair(next[i - 1]).dataoff + b.fs[i - 1].bmsize, 64)
  IN  [offs |-> [i \in DOMAIN b.fs |-> Pair(next[i])], size |-> next[Len(b.fs) + 1]]

wrhdr(b, sz) == [magic |-> "BLOM", version |-> 0, typ |-> b.typ, hash |-> 0, cktype |-> 0, n |-> b.n, e |-> b.e,
                 datasize |-> sz]
wrdir(b, offs) == [n |-> Len(b.fs), scale |-> IF b.typ = "SCALE" THEN b.scale ELSE 0,
                   r |-> IF b.typ = "SCALE" THEN b.r ELSE 0, offs |-> [i \in DOMAIN offs |-> offs[i].hdroff]]
(* fault: the salt is left out *)
wrfilterFault(f) == [m |-> f.m, k |-> f.k, salt |-> 0, size |-> f.size, bmsize |-> f.bmsize]
wrfilter(f) == [m |-> f.m, k |-> f.k, salt |-> f.salt, size |-> f.size, bmsize |-> f.bmsize]
Image(b) ==
  LET c == calc_marshal_size(b)
      data == [hdr |-> wrhdr(b, c.size), dir |-> wrdir(b, c.offs),
               heads |-> {<<c.offs[i].hdroff, wrfilter(b.fs[i])>> : i \in DOMAIN b.fs},
               maps |-> {<<c.offs[i].dataoff, b.fs[i].map>> : i \in DOMAIN b.fs}]
  IN  [there |-> TRUE, len |-> c.size + CKSIZE, data |-> data, ck |-> data]
NoFile == [there |-> FALSE]

At(set, off) == (CHOOSE x \in set : x[1] = off)[2]
rdfilter(data, off, mm) ==
  LET h == At(data.heads, off)
  IN  [m |-> h.m, k |-> h.k, salt |-> h.salt, size |-> h.size, bmsize |-> h.bmsize, e |-> make_e(h.k),
       map |-> At(data.maps, Pair(off).dataoff), mm |-> mm]
rdhdr(data, sz) ==
  /\ sz >= HDRSIZ + 16 /\ data.hdr.magic = "BLOM" /\ data.hdr.version = 0
  /\ data.hdr.typ \in {"SCALE", "COUNTING", "QUICK"} /\ data.hdr.hash = 0 /\ data.hdr.datasize = sz
  /\ IF data.hdr.typ = "SCALE" THEN data.dir.n <= 1048576 /\ sz - HDRSIZ - 16 >= 8 * data.dir.n ELSE data.dir.n = 1
  /\ \A i \in 1 .. data.dir.n : data.dir.offs[i] < sz /\ Pair(data.dir.offs[i]).dataoff < sz
alloc_bloom(data, fs) ==
  CASE data.hdr.typ = "SCALE" -> [setup_scalable_bloom(data.hdr.n, data.hdr.e, NEXTPOW2(data.dir.n), fs) EXCEPT
                                    !.scale = data.dir.scale, !.r = data.dir.r]
    [] data.hdr.typ = "QUICK" -> setup_standard_bloom(data.hdr.n, data.hdr.e, fs[1])
    [] data.hdr.typ = "COUNTING" -> setup_counting_bloom(data.hdr.n, data.hdr.e, fs[1])
(* what Bloom_unmarshal makes of file f: NoBloom when it is refused        *)
Load(f, mm) ==
  IF ~ f.there \/ f.len < HDRSIZ + 16 + CKSIZE \/ f.ck # f.data \/ ~ rdhdr(f.data, f.len - CKSIZE) THEN NoBloom
  ELSE alloc_bloom(f.data, [i \in 1 .. f.data.dir.n |-> rdfilter(f.data, f.data.dir.offs[i], mm)])

(* Bloom_marshal: a temporary file that takes the name only when complete; *)
(* the process may fail or die at each step.                               *)
Rest == UNCHANGED <<bl, bgot, bexact, bops>>
MarshalOpen == Idle /\ bl # NoBloom /\ bstep' = "open" /\ btmp' = NoFile /\ UNCHANGED <<bfile, bsaved>> /\ Rest
MarshalWrite == bstep = "open" /\ bstep' = "written" /\ btmp' = Image(bl) /\ UNCHANGED <<bfile, bsaved>> /\ Rest
MarshalRename == /\ bstep = "written" /\ bstep' = "idle" /\ btmp' = NoFile /\ bfile' = btmp
                 /\ bsaved' = [b |-> bl, got |-> bgot, exact |-> bexact, bad |-> FALSE] /\ Rest
MarshalFails == bstep # "idle" /\ bstep' = "idle" /\ btmp' = NoFile /\ UNCHANGED <<bfile, bsaved>> /\ Rest
Dies == bstep # "idle" /\ bstep' = "idle" /\ bl' = NoBloom /\ Fresh /\ UNCHANGED <<btmp, bfile, bsaved, bops>>
Bloom_unmarshal == \E mm \in BOOLEAN :
  /\ Idle /\ bl = NoBloom /\ bfile.there /\ bl' = Load(bfile, mm) /\ bl' # NoBloom
  /\ bgot' = bsaved.got /\ bexact' = bsaved.exact /\ Same /\ UNCHANGED bops
(* the disk alters a part of the file                                      *)
Damage == \E bad \in {"hdr", "dir", "head", "map", "len"} :
  /\ Idle /\ bl = NoBloom /\ bfile.there /\ ~ bsaved.bad
  /\ bfile' = CASE bad = "hdr" -> [bfile EXCEPT !.data.hdr.n = @ + 1] [] bad = "dir" -> [bfile EXCEPT !.data.dir.n = @ + 1]
                [] bad = "head" -> [bfile EXCEPT !.data.heads = {<<x[1], [x[2] EXCEPT !.size = @ + 1]>> : x \in @}]
                [] bad = "map" -> [bfile EXCEPT !.data.maps = {<<x[1], [j \in DOMAIN x[2] |-> 0]>> : x \in @},
                                               !.data.hdr.e = @ + 1]
                [] bad = "len" -> [bfile EXCEPT !.len = 100]
  /\ bsaved' = [bsaved EXCEPT !.bad = TRUE] /\ UNCHANGED <<bl, bgot, bexact, bstep, btmp, bops>>

BloomInit == /\ bl = NoBloom /\ bgot = [v \in BVals |-> 0] /\ bexact = TRUE /\ bstep = "idle" /\ btmp = NoFile
             /\ bfile = NoFile /\ bsaved = [bad |-> FALSE] /\ bops = 0
BloomNext == \/ Standard_bloom_new \/ Counting_bloom_new \/ Bloom_delete \/ Bloom_probe \/ Bloom_remove
             \/ MarshalOpen \/ MarshalWrite \/ MarshalRename \/ MarshalFails \/ Dies \/ Bloom_unmarshal \/ Damage
-----------------------------------------------------------------------------
(* A value put into a filter is found, in every filter it may have come to *)
(* lie in and after a save and a load.  With one exception, which is all:  *)
(* a counter wraps, so a value of a counting filter is denied when the     *)
(* values at one of its counters come to a multiple of BSlots              *)
(* (bloom.c:252); and callers remove nothing that they could not find.     *)
Members(f, j) == MapThenSumSet(LAMBDA v : IF j \in SlotsOf(f, v) THEN bgot[v] ELSE 0, BVals)
NoFalseNegatives ==
  bl # NoBloom /\ bexact => \A v \in BVals : bgot[v] > 0 =>
    (Bloom_find(bl, v) <=> (bl.typ = "COUNTING" => \A j \in SlotsOf(bl.fs[1], v) : Members(bl.fs[1], j) % BSlots # 0))
(* The file holds, whatever step a save failed or died at, a whole image:  *)
(* it loads as a filter equal to the one saved; once altered it is refused.*)
FileWhole == bfile.there => LET b == Load(bfile, FALSE)
                            IN  IF bsaved.bad THEN b = NoBloom ELSE Bloom_eq(b, bsaved.b)
-----------------------------------------------------------------------------
(***************************************************************************)
(* src/hashtable/xorfilter.c, xorfilt_internal.h and xorfilter_marshal.c.  *)
(* A hash value is known by the key it belongs to, so that a mask, the     *)
(* exclusive or of hash values, is a set of keys; a fingerprint is a set   *)
(* of bits.  The fingerprint array is made for 3 * n of them and indexed   *)
(* up to 3 * size, which is more for a few keys (RoomNeeded): an access    *)
(* behind its end is the end of the behaviour (xstep is "past"), and what  *)
(* is copied from there arbitrary.                                         *)
(***************************************************************************)

CONSTANTS XKeys, XSeeds,             \* sequences of keys; seeds rand64 returns
          XIndex, XFp,               \* [key, seed] -> the three hashes; -> the fingerprint
          XSlack,                    \* slots beside those for the keys (32)
          XTries, XPage              \* tries before giving up (1000000); page size

VARIABLES xf, xkeys, xtries, xstep, xfile, xsaved

xorVars == <<xf, xkeys, xtries, xstep, xfile, xsaved>>

xorfilter_calc_size(n) == (XSlack + ((123 * n + 99) \div 100)) \div 3
xorfilter_size(x) == IF x.is_16 THEN 6 * x.size ELSE 3 * x.size
RoomNeeded(n) == 3 * xorfilter_calc_size(n) <= 3 * n

hash3(key, seed, size) == <<XIndex[key, seed][1] % size, (XIndex[key, seed][2] % size) + size,
                            (XIndex[key, seed][3] % size) + 2 * size>>
NoSet == [mask |-> {}, n |-> 0]
Counted(keys, seed, size) ==
  FoldLeft(LAMBDA H, key : [i \in DOMAIN H |->
             IF \E p \in 1 .. 3 : hash3(key, seed, size)[p] = i
             THEN [mask |-> SymDiff(H[i].mask, {key}), n |-> H[i].n + 1] ELSE H[i]],
           [i \in 0 .. 3 * size - 1 |-> NoSet], keys)

(* the loop of xorfilter_init that peels off slots with a single key; the  *)
(* counters are unsigned, so one that is zero stays away from one          *)
update_q(w, i, mask) ==
  LET x == [mask |-> SymDiff(w.H[i].mask, mask), n |-> w.H[i].n - 1]
  IN  [w EXCEPT !.H[i] = x, !.q = IF x.n = 1 THEN Append(@, [hash |-> x.mask, idx |-> i]) ELSE @]
RECURSIVE Peel(_, _, _)
Peel(w, seed, size) ==
  IF w.q = << >> THEN w.stack
  ELSE LET ki == Last(w.q)
           v == [w EXCEPT !.q = Front(@)]
           z == hash3(CHOOSE key \in ki.hash : TRUE, seed, size)
       IN  IF w.H[ki.idx].n # 1 THEN Peel(v, seed, size)
           ELSE Peel(update_q(update_q(update_q([v EXCEPT !.stack = Append(@, ki)], z[1], ki.hash),
                                       z[2], ki.hash), z[3], ki.hash), seed, size)
(* one turn of the outer loop of xorfilter_init                            *)
TryStack(keys, seed) ==
  LET size == xorfilter_calc_size(Len(keys))
      H == Counted(keys, seed, size)
      ones == SelectSeq([i \in 1 .. 3 * size |-> i - 1], LAMBDA i : H[i].n = 1)
  IN  Peel([H |-> H, q |-> [i \in DOMAIN ones |-> [hash |-> H[ones[i]].mask, idx |-> ones[i]]], stack |-> << >>],
           seed, size)

(* The slots that the keys on the stack are looked up in.                  *)
Touched(stack, seed, size) ==
  UNION {{hash3(CHOOSE k \in stack[a].hash : TRUE, seed, size)[p] : p \in 1 .. 3} : a \in DOMAIN stack}
Entry(fp, ki, seed, size) ==
  LET key == CHOOSE k \in ki.hash : TRUE
      z == hash3(key, seed, size)
  IN  SymDiff(XFp[key, seed], SymDiff(fp[z[1]], SymDiff(fp[z[2]], fp[z[3]])))
(* fault: in the order the slots were peeled, not the reverse *)
FillFault(stack, seed, size) ==
  FoldLeft(LAMBDA fp, ki : [fp EXCEPT ![ki.idx] = Entry(fp, ki, seed, size)],
           [i \in 0 .. 3 * Len(stack) - 1 |-> {}], stack)
Fill(stack, seed, size) ==
  FoldRight(LAMBDA ki, fp : [fp EXCEPT ![ki.idx] = Entry(fp, ki, seed, size)],
            stack, [i \in 0 .. 3 * Len(stack) - 1 |-> {}])

NoFilter == [there |-> FALSE]
Built(keys, seed, is_16, stack) ==
  LET size == xorfilter_calc_size(Len(keys))
  IN  [there |-> TRUE, seed |-> seed, size |-> size, n |-> Len(keys), is_16 |-> is_16, is_mmap |-> FALSE,
       fp |-> Fill(stack, seed, size)]
Xorfilter_contains(x, key) ==
  LET z == hash3(key, x.seed, x.size)
  IN  XFp[key, x.seed] = SymDiff(x.fp[z[1]], SymDiff(x.fp[z[2]], x.fp[z[3]]))
-----------------------------------------------------------------------------
(* Xorfilter_new8 and Xorfilter_new16, a try at a time; an empty stack, as *)
(* for no keys, makes no filter                                            *)
NewStart(keys) == /\ xstep = "idle" /\ ~ xf.there /\ xstep' = "try" /\ xkeys' = keys /\ xtries' = 0
                  /\ UNCHANGED <<xf, xfile, xsaved>>
NewTry(seed, is_16) ==
  LET stack == TryStack(xkeys, seed)
  IN  /\ xstep = "try" /\ UNCHANGED <<xkeys, xfile, xsaved>>
      /\ IF Len(stack) = Len(xkeys)
         THEN LET past == ~ Touched(stack, seed, xorfilter_calc_size(Len(xkeys))) \subseteq 0 .. 3 * Len(stack) - 1
              IN  /\ xstep' = (IF past THEN "past" ELSE "idle") /\ xtries' = 0
                  /\ xf' = IF past \/ stack = << >> THEN NoFilter ELSE Built(xkeys, seed, is_16, stack)
         ELSE /\ xtries' = xtries + 1 /\ xf' = xf /\ xstep' = IF xtries' > XTries THEN "idle" ELSE "try"
Xorfilter_delete == xstep = "idle" /\ xf.there /\ xf' = NoFilter /\ UNCHANGED <<xkeys, xtries, xstep, xfile, xsaved>>

NoImage == [there |-> FALSE]
SHASIZE == 32
Xwrhdr(x) == [magic |-> "XORF", version |-> 1, is_16 |-> x.is_16, seed |-> x.seed, size |-> x.size, n |-> x.n]
Xrdhdr(h) == h.magic = "XORF" /\ h.version = 1
(* size slots are copied, whatever lies behind the array included          *)
XImage(x, junk) ==
  LET data == [hdr |-> Xwrhdr(x), len |-> xorfilter_size(x) + XPage + SHASIZE,
               fp |-> [i \in 0 .. 3 * x.size - 1 |-> IF i \in DOMAIN x.fp THEN x.fp[i] ELSE junk]]
  IN  [there |-> TRUE, data |-> data, sha |-> data]
XLoad(f, mm) ==
  LET h == f.data.hdr
      x == [there |-> TRUE, seed |-> h.seed, size |-> h.size, n |-> h.n, is_16 |-> h.is_16, is_mmap |-> mm, fp |-> f.data.fp]
  IN  IF ~ f.there \/ f.data.len < SHASIZE + XPage \/ f.sha # f.data \/ ~ Xrdhdr(h)
         \/ f.data.len - SHASIZE < xorfilter_size(x) \/ h.size # xorfilter_calc_size(h.n)
      THEN NoFilter ELSE x
(* Xorfilter_marshal: the image is made under a temporary name             *)
XMarshalOpen == xstep = "idle" /\ xf.there /\ xstep' = "open" /\ UNCHANGED <<xf, xkeys, xtries, xfile, xsaved>>
XMarshalRename == /\ xstep = "open" /\ xstep' = "idle" /\ \E junk \in {{}, {0, 1}} : xfile' = XImage(xf, junk)
                  /\ xsaved' = [x |-> xf, keys |-> xkeys, bad |-> FALSE] /\ UNCHANGED <<xf, xkeys, xtries>>
XMarshalFails == xstep = "open" /\ xstep' = "idle" /\ UNCHANGED <<xf, xkeys, xtries, xfile, xsaved>>
XUnmarshal(mm) == /\ xstep = "idle" /\ ~ xf.there /\ xfile.there /\ xf' = XLoad(xfile, mm) /\ xf'.there
                  /\ xkeys' = xsaved.keys /\ UNCHANGED <<xtries, xstep, xfile, xsaved>>
XDamage == /\ xstep = "idle" /\ xfile.there /\ ~ xsaved.bad /\ xsaved' = [xsaved EXCEPT !.bad = TRUE]
           /\ \/ xfile' = [xfile EXCEPT !.data.hdr.n = @ + 1]
              \/ xfile' = [xfile EXCEPT !.data.len = @ - 1]
           /\ UNCHANGED <<xf, xkeys, xtries, xstep>>

XorInit == xf = NoFilter /\ xkeys = << >> /\ xtries = 0 /\ xstep = "idle" /\ xfile = NoImage /\ xsaved = [bad |-> FALSE]
XorNext == \/ \E keys \in XKeys : NewStart(keys)
           \/ \E seed \in XSeeds, is_16 \in BOOLEAN : NewTry(seed, is_16)
           \/ Xorfilter_delete \/ XMarshalOpen \/ XMarshalRename \/ XMarshalFails
           \/ \E mm \in BOOLEAN : XUnmarshal(mm)
           \/ XDamage
-----------------------------------------------------------------------------
(* A filter holds every key it was made of, however its slots were peeled, *)
(* also after a save and a load; keys given twice never make a filter; an  *)
(* image that was altered makes none.  Memory behind the fingerprint array *)
(* is used only for so few keys that the array is smaller than the filter  *)
(* (below 17 with the code's slack of 32; xorfilter.c:284, 308).  With     *)
(* more keys the lookup of any key stays inside.                           *)
XorHoldsKeys ==
  /\ xstep = "past" => ~ RoomNeeded(Len(xkeys))
  /\ xf.there => /\ \A i \in DOMAIN xkeys : Xorfilter_contains(xf, xkeys[i])
                 /\ IsInjective(xkeys) /\ xkeys # << >>
                 /\ RoomNeeded(Len(xkeys)) => \A key \in 1 .. 4, p \in 1 .. 3 :
                      hash3(key, xf.seed, xf.size)[p] \in DOMAIN xf.fp
  /\ xfile.there => LET x == XLoad(xfile, FALSE)
                    IN  IF xsaved.bad THEN ~ x.there
                        ELSE /\ [x EXCEPT !.fp = 0] = [xsaved.x EXCEPT !.fp = 0, !.is_mmap = FALSE]
                             /\ \A i \in DOMAIN x.fp \cap DOMAIN xsaved.x.fp : x.fp[i] = xsaved.x.fp[i]
                             /\ \A i \in DOMAIN xsaved.keys : Xorfilter_contains(x, xsaved.keys[i])
=============================================================================
