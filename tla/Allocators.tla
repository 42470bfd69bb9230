----------------------------- MODULE Allocators -----------------------------
(***************************************************************************)
(* Allocators that carve what they hand out from larger pieces. Each       *)
(* section has its own state.                                              *)
(***************************************************************************)
EXTENDS TypeUtils, Sequences, FiniteSets
-----------------------------------------------------------------------------
(***************************************************************************)
(* src/mempool.c: a pool of fixed-size blocks carved from chunks that the  *)
(* lower allocator provides, or from one zone the caller provides.         *)
(* Addresses are integers; memory is handed out upwards from brk, any      *)
(* allocation may fail.                                                    *)
(***************************************************************************)

CONSTANTS MINALIGNMENT, SizeofChunk, SizeofPool, MIN_OBJ_SIZE, DefaultUnits,
          PoolBlocks, PoolMax, PoolUnits, PoolZones, PoolOps
(* sizes of the types; the block sizes, limits, units and zones <<address, size>> tried; calls *)

VARIABLES mp,      \* block_size, max_blocks, min_units, chunks; all zero when not initialised
          mru,     \* mru_head, last freed first
          mused,   \* blocks handed out
          mown,    \* what the lower allocator gave the pool: [lo, hi) ranges
          mpops

poolVars == <<mp, mru, mused, mown, mpops>>

Zeroed == [bs |-> 0, max |-> 0, units |-> 0, chunks |-> << >>]
Aborted == [Zeroed EXCEPT !.bs = -1]              \* an assertion failed

MempoolInit == mp = Zeroed /\ mru = << >> /\ mused = {} /\ mown = << >> /\ mpops = 0

brk == 16 + IF mown = << >> THEN 0 ELSE mown[1][2]
AlignP(p) == IF p < MINALIGNMENT THEN p ELSE ALIGN_UP(p, MINALIGNMENT)   \* _Align, as _Isaligned_p reads
BlockSize(n) == AlignP(IF n < MIN_OBJ_SIZE THEN MIN_OBJ_SIZE ELSE n)

(* new_chunk: at brk, put before the other chunks; an assertion refuses    *)
(* a chunk of one block.                                                   *)
new_chunk(a) == LET size == a.bs * a.units
                    f == AlignP(brk + SizeofChunk)
                IN  [a EXCEPT !.chunks = <<[lo |-> brk, free |-> f, end |-> f + size]>> \o @]
alloc_size(a) == SizeofChunk + a.bs * a.units + MINALIGNMENT
Asserts(a) == a.bs * a.units > a.bs /\ a.bs * a.units > a.units

(* mempool_init, mempool_new: __real_init *)
real_init(bs, max, units) ==
  LET a == [bs |-> BlockSize(bs), max |-> max, chunks |-> << >>,
            units |-> CASE max > 0 -> max [] units = 0 -> DefaultUnits [] OTHER -> units]
  IN  /\ mp = Zeroed /\ UNCHANGED <<mru, mused>>
      /\ \/ mp' = Aborted /\ ~ Asserts(a) /\ UNCHANGED mown
         \/ Asserts(a) /\ mp' = new_chunk(a) /\ mown' = <<<<brk, brk + alloc_size(a)>>>> \o mown
         \/ Asserts(a) /\ UNCHANGED <<mp, mown>>                       \* -ENOMEM

(* mempool_init_from_mem: the header and as many whole blocks as fit       *)
InZone(bs0, addr, size) ==
  LET bs == BlockSize(bs0)
      p == AlignP(addr)
      room == size - (p - addr)
      f == AlignP(p + SizeofChunk)
      n == (p + room - f) \div bs
  IN  IF size = 0 \/ room < bs + MINALIGNMENT + SizeofChunk THEN Zeroed
      ELSE [bs |-> bs, max |-> n, units |-> n,
            chunks |-> <<[lo |-> p, free |-> f, end |-> f + n * bs]>>]
init_from_mem(bs, z) == /\ mp = Zeroed /\ mp' = InZone(bs, z[1], z[2])
                        /\ mown' = <<<<z[1], z[1] + z[2]>>>> /\ UNCHANGED <<mru, mused>>
(* mempool_new_from_mem: the pool itself comes first; for a zone smaller   *)
(* than that the size wraps around, so such zones are not tried.           *)
new_from_mem(bs, z) ==
  LET p == AlignP(z[1])
  IN  /\ mp = Zeroed /\ z[2] >= p - z[1] + SizeofPool
      /\ mp' = InZone(bs, p + SizeofPool, z[2] - (p - z[1]) - SizeofPool)
      /\ mown' = <<<<z[1], z[1] + z[2]>>>> /\ UNCHANGED <<mru, mused>>

Live == mp.bs > 0
CarveFault(a) == [a EXCEPT !.chunks[1].free = @ + MIN_OBJ_SIZE]   \* fault: steps by the least size
Carve(a) == [a EXCEPT !.chunks[1].free = @ + a.bs]
Hot(a) == a.chunks[1]

mempool_alloc ==
  /\ Live
  /\ \/ /\ mru # << >> /\ mused' = mused \cup {mru[Len(mru)]}        \* DL_REMOVE_TAIL
        /\ mru' = SubSeq(mru, 1, Len(mru) - 1) /\ UNCHANGED <<mp, mown>>
     \/ /\ mru = << >> /\ Hot(mp).free < Hot(mp).end                 \* alloc_from_chunk
        /\ mused' = mused \cup {Hot(mp).free} /\ mp' = Carve(mp) /\ UNCHANGED <<mru, mown>>
     \/ /\ mru = << >> /\ Hot(mp).free >= Hot(mp).end /\ mp.max = 0
        /\ LET a == new_chunk(mp) IN mp' = Carve(a) /\ mused' = mused \cup {Hot(a).free}
        /\ mown' = <<<<brk, brk + alloc_size(mp)>>>> \o mown /\ UNCHANGED mru
     \/ /\ mru = << >> /\ Hot(mp).free >= Hot(mp).end                \* returns 0
        /\ UNCHANGED <<mp, mru, mused, mown>>

mempool_free(b) == /\ Live /\ b \in mused /\ mused' = mused \ {b} /\ mru' = <<b>> \o mru
                   /\ UNCHANGED <<mp, mown>>
(* mempool_fini, mempool_delete: every chunk goes back; a zone is kept     *)
mempool_fini == /\ Live /\ mp' = Zeroed /\ mru' = << >> /\ mused' = {} /\ mown' = << >>

MempoolNext ==
  /\ mpops < PoolOps /\ mpops' = mpops + 1
  /\ \/ \E n \in PoolBlocks, m \in PoolMax, u \in PoolUnits : real_init(n, m, u)
     \/ \E n \in PoolBlocks, z \in PoolZones : init_from_mem(n, z) \/ new_from_mem(n, z)
     \/ mempool_alloc \/ mempool_fini \/ \E b \in mused : mempool_free(b)
-----------------------------------------------------------------------------
(* Every block, handed out or freed, is aligned, lies in memory the pool   *)
(* owns behind a chunk's header, and overlaps no other block nor the part  *)
(* not carved yet; a limited pool never has more blocks than its limit.    *)
valid_blk_p(b) == \E c \in 1 .. Len(mp.chunks) : mp.chunks[c].lo + SizeofChunk <= b /\ b < mp.chunks[c].end
BlocksApart ==
  Live =>
    LET out == mused \cup {mru[i] : i \in DOMAIN mru}
        free == {[lo |-> mp.chunks[c].free, hi |-> mp.chunks[c].end] : c \in DOMAIN mp.chunks}
        blk == {[lo |-> b, hi |-> b + mp.bs] : b \in out}
        whole == free \cup blk
    IN  /\ \A x, y \in whole : x = y \/ x.hi <= y.lo \/ y.hi <= x.lo
        /\ \A x \in whole : \E o \in DOMAIN mown : mown[o][1] + SizeofChunk <= x.lo /\ x.hi <= mown[o][2]
        /\ \A b \in out : b % MINALIGNMENT = 0 /\ valid_blk_p(b)
        /\ Cardinality(out) = Cardinality(mused) + Len(mru)
        /\ (mp.max > 0 => Cardinality(out) <= mp.max)
-----------------------------------------------------------------------------
(***************************************************************************)
(* src/arena.c: memory handed out from nodes (chunks of malloc) and given  *)
(* back all at once.  Addresses are integers, malloc is aligned and may    *)
(* fail; size_t is taken to be unbounded.                                  *)
(***************************************************************************)

CONSTANTS SYS_ALIGNMENT, SizeofNode, ArenaChunks, ArenaSizes, ArenaOps, DEFAULT_CHUNK_SIZE

VARIABLES ar,      \* chunk_size and the nodes, the newest first; NoArena if there is none
          aout,    \* regions <<address, size>> handed out
          abrk, arops

arenaVars == <<ar, aout, abrk, arops>>

NoArena == [chunk |-> 0, nodes |-> << >>]

ArenaInit == ar = NoArena /\ aout = {} /\ abrk = SYS_ALIGNMENT /\ arops = 0

arena_new(chunk) == /\ ar = NoArena /\ UNCHANGED <<aout, abrk>>
                    /\ \/ ar' = [nodes |-> << >>, chunk |-> IF chunk = 0 THEN DEFAULT_CHUNK_SIZE ELSE chunk]
                       \/ UNCHANGED ar

availFault(n) == n.end - n.lo                     \* fault: the whole chunk counts as available
avail(n) == n.end - n.free
RoundUp(n) == ALIGN_UP(n, SYS_ALIGNMENT)

(* the first node with room, or a new one of the chunk size or of 16       *)
(* requests if these are larger                                            *)
arena_alloc(nbytes) ==
  LET n == RoundUp(nbytes)
      Room == {i \in DOMAIN ar.nodes : avail(ar.nodes[i]) >= n}
      chunk == IF n < ar.chunk THEN ar.chunk ELSE n * 16
      lo == abrk + SizeofNode
      all == IF Room # {} THEN ar.nodes
             ELSE <<[lo |-> lo, free |-> lo, end |-> lo + chunk]>> \o ar.nodes
      i == IF Room = {} THEN 1 ELSE CHOOSE i \in Room : \A j \in Room : i <= j
      mem == RoundUp(all[i].free)
  IN  /\ ar # NoArena
      /\ \/ /\ ar' = [ar EXCEPT !.nodes = [all EXCEPT ![i].free = mem + n]]
            /\ aout' = aout \cup {<<mem, n>>}
            /\ abrk' = IF Room # {} THEN abrk ELSE RoundUp(lo + chunk)
         \/ Room = {} /\ UNCHANGED <<ar, aout, abrk>>                  \* malloc fails
arena_delete == ar # NoArena /\ ar' = NoArena /\ aout' = {} /\ UNCHANGED abrk

ArenaNext == /\ arops < ArenaOps /\ arops' = arops + 1
             /\ \/ arena_delete \/ \E c \in ArenaChunks : arena_new(c)
                \/ ar # NoArena /\ \E s \in ArenaSizes : arena_alloc(s)
-----------------------------------------------------------------------------
(* What an arena hands out is aligned, lies inside one of its nodes below  *)
(* that node's free mark, and overlaps nothing it handed out before.       *)
RegionsApart ==
  /\ \A x, y \in aout : x = y \/ x[1] + x[2] <= y[1] \/ y[1] + y[2] <= x[1]
  /\ \A x \in aout : /\ x[1] % SYS_ALIGNMENT = 0
                     /\ \E i \in DOMAIN ar.nodes : LET n == ar.nodes[i] IN
                          n.lo <= x[1] /\ x[1] + x[2] <= n.free /\ n.free <= n.end
=============================================================================
