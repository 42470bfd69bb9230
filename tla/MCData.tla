------------------------------- MODULE MCData -------------------------------
(***************************************************************************)
(* Containers, allocators, lookup structures and the smaller queues, each  *)
(* on an instance of its own: part says which one a behaviour is about,    *)
(* and the others stand still.                                             *)
(***************************************************************************)
EXTENDS Containers, Lists, Allocators, DataFiles, Filters, FastHt, SpscQueue, TLC

(* An array that is no heap, and one whose last element is removed far     *)
(* from its place.                                                         *)
MCHArrays == {<<>>, <<3, 2, 1>>, <<0, 2, 1, 2, 2, 1, 1, 3, 3, 3, 3, 1, 1>>}
MCPoolZones == {<<5, 13>>, <<6, 20>>, <<8, 33>>, <<7, 41>>}

MCQuote == "'"
MCGStrings == {<<>>, <<MCQuote>>, <<" ", "a", " ">>, <<"a", "\r", "\n">>, <<"$", "{", "a", "}">>,
               <<"\\", "$", "a">>, <<"$", "a", "{">>, <<MCQuote, "a", MCQuote>>}
MCGChars == {"a", "$", "\n"}
MCGKeys == (<<"a">> :> <<"b", "a", "b">>) @@ (<<"$">> :> <<>>)

(* Two keys that share a hash, others whose probes meet.                   *)
MCCdbHash == <<2, 7, 11, 11, 15, 27>>
MCBHash == [x \in {1, 2} \X {0, 1} |-> <<x[1] + 3 * x[2], 2 * x[1] + x[2] + 1>>]

(* A seed that fails for any two keys, one that fails for some, a good one *)
(* that puts the third slot of every key first: three keys have room there *)
(* with it and not with the others, four always, one never.                *)
MCXKeys == {<<>>, <<1>>, <<1, 2, 3>>, <<1, 2, 3, 4>>, <<1, 2, 1>>}
MCXIndex == [x \in (1 .. 4) \X (0 .. 2) |-> CASE x[2] = 0 -> <<0, 5, 9>>
                                              [] x[2] = 1 -> <<x[1] \div 2, x[1] % 2, 3>>
                                              [] x[2] = 2 -> <<(x[1] + 1) \div 2, x[1] \div 2, 4>>]
MCXFp == [x \in (1 .. 4) \X (0 .. 2) |-> CASE x[1] = 1 -> {0} [] x[1] = 2 -> {1} [] x[1] = 3 -> {0, 1}
                                           [] OTHER -> {x[2]}]

(* Two salts; keys that differ by Byte share a fingerprint.                *)
MCSalts == {[k \in Keys |-> k], [k \in Keys |-> k \div 2]}

(* The chained hash table: the user's hash of a key is the key.            *)
CONSTANTS TKeys, TVals, TRandom, TLogSize, TFillMax, TAllocFails
VARIABLES tbuckets, tnodes, tfill, tmaxchain, tcall, tret, titer
tabVars == <<tbuckets, tnodes, tfill, tmaxchain, tcall, tret, titer>>
Table == INSTANCE Hashtab WITH
           Keys <- TKeys, Vals <- TVals, RawHash <- [k \in TKeys |-> k], Random <- TRandom,
           LogSize <- TLogSize, FillMax <- TFillMax, AllocFails <- TAllocFails,
           buckets <- tbuckets, nodes <- tnodes, fill <- tfill, maxchainlen <- tmaxchain,
           call <- tcall, ret <- tret, iter <- titer

VARIABLE part

vars == <<part, vectVars, bufVars, heapVars, bitVars, llistVars, hlistVars, dlistVars, fastqVars,
          gstrVars, poolVars, arenaVars, mmapVars, cdbin, bloomVars, xorVars, htVars, spscVars,
          mlistVars, tabVars>>

Init ==
  /\ part \in {"vect", "buf", "minheap", "bitset", "llist", "hlist", "dlist", "queue", "gstring",
               "mempool", "arena", "mmap", "cdb", "bloom", "xorfilter", "fastht", "spsc",
               "mpmc_list", "hashtab"}
  /\ VectInit /\ BufInit /\ HeapInit /\ BitInit /\ LListInit /\ HlistInit /\ DListInit
  /\ FastQueueInit /\ GstringInit /\ MempoolInit /\ ArenaInit /\ MmapInit /\ CdbInit /\ BloomInit
  /\ XorInit /\ HtInit /\ SpscInit /\ MpmcListInit /\ Table!Init
  /\ part = "mmap" \/ ~ dfcreate
  /\ part = "fastht" \/ salt = CHOOSE s \in Salts : TRUE

(* All but the part of this behaviour. *)
Others ==
  /\ UNCHANGED part
  /\ IF part = "vect" THEN TRUE ELSE UNCHANGED vectVars
  /\ IF part = "buf" THEN TRUE ELSE UNCHANGED bufVars
  /\ IF part = "minheap" THEN TRUE ELSE UNCHANGED heapVars
  /\ IF part = "bitset" THEN TRUE ELSE UNCHANGED bitVars
  /\ IF part = "llist" THEN TRUE ELSE UNCHANGED llistVars
  /\ IF part = "hlist" THEN TRUE ELSE UNCHANGED hlistVars
  /\ IF part = "dlist" THEN TRUE ELSE UNCHANGED dlistVars
  /\ IF part = "queue" THEN TRUE ELSE UNCHANGED fastqVars
  /\ IF part = "gstring" THEN TRUE ELSE UNCHANGED gstrVars
  /\ IF part = "mempool" THEN TRUE ELSE UNCHANGED poolVars
  /\ IF part = "arena" THEN TRUE ELSE UNCHANGED arenaVars
  /\ IF part = "mmap" THEN TRUE ELSE UNCHANGED mmapVars
  /\ IF part = "cdb" THEN TRUE ELSE UNCHANGED cdbin
  /\ IF part = "bloom" THEN TRUE ELSE UNCHANGED bloomVars
  /\ IF part = "xorfilter" THEN TRUE ELSE UNCHANGED xorVars
  /\ IF part = "fastht" THEN TRUE ELSE UNCHANGED htVars
  /\ IF part = "spsc" THEN TRUE ELSE UNCHANGED spscVars
  /\ IF part = "mpmc_list" THEN TRUE ELSE UNCHANGED mlistVars
  /\ IF part = "hashtab" THEN TRUE ELSE UNCHANGED tabVars

Next ==
  \/ part = "vect" /\ VectNext /\ Others
  \/ part = "buf" /\ BufNext /\ Others
  \/ part = "minheap" /\ HeapNext /\ Others
  \/ part = "bitset" /\ BitNext /\ Others
  \/ part = "llist" /\ LListNext /\ Others
  \/ part = "hlist" /\ HlistNext /\ Others
  \/ part = "dlist" /\ DListNext /\ Others
  \/ part = "queue" /\ FastQueueNext /\ Others
  \/ part = "gstring" /\ GstringNext /\ Others
  \/ part = "mempool" /\ MempoolNext /\ Others
  \/ part = "arena" /\ ArenaNext /\ Others
  \/ part = "mmap" /\ MmapNext /\ Others
  \/ part = "cdb" /\ CdbNext /\ Others
  \/ part = "bloom" /\ BloomNext /\ Others
  \/ part = "xorfilter" /\ XorNext /\ Others
  \/ part = "fastht" /\ HtNext /\ Others
  \/ part = "spsc" /\ SpscNext /\ Others
  \/ part = "mpmc_list" /\ MpmcListNext /\ Others
  \/ part = "hashtab" /\ Table!Next /\ Others

Spec == Init /\ [][Next]_vars
-----------------------------------------------------------------------------
(* The containers hold what the calls put in, in their order, through      *)
(* calls that make them grow, wrap, be spliced or be cut: vectors,         *)
(* buffers, heaps, bit sets, the three kinds of linked list, the ring      *)
(* queue, strings and the linked queue.  Where calls of the code break     *)
(* this (a vector without cells, a sample that grows its destination, a    *)
(* value removed from the middle of a heap, a last line that fills its     *)
(* string, the last node of the linked queue) the component's property     *)
(* says exactly which calls these are and what is left after them.         *)
ContainersHold ==
  /\ VectIsSequence /\ BufHolds /\ HeapOrdered /\ BitsAreSets /\ LinksAreList /\ PprevIsPlace
  /\ ChainsAreLists /\ SlotsAreQueue /\ StringIsValue /\ OldestFirst

(* What is handed out is inside what the system gave, apart from all else  *)
(* that is handed out, and known to whoever must give it back: blocks of a *)
(* pool, regions of an arena, mappings of a file.                          *)
StorageApart == BlocksApart /\ RegionsApart /\ MappingsKnown

(* What was put in is found: in a Bloom filter, also from a file that was  *)
(* damaged or written half, in an xor filter, in a constant database; the  *)
(* counts of the fast hash table are exact.  NoFalseNegatives and          *)
(* XorHoldsKeys say when counters that wrap, and xor filters of few keys,  *)
(* break this.                                                             *)
MembersFound == NoFalseNegatives /\ FileWhole /\ XorHoldsKeys /\ CdbFinds /\ CountsExact /\ FreeIsEmpty

(* The chained hash table: what its statistics say, what a whole traversal *)
(* returns, and that it is a dictionary; see Hashtab.                      *)
TableOK == part = "hashtab" => Table!TableOK
VisitsAll == part = "hashtab" => Table!VisitsAll
TableIsDictionary == Table!DictionarySpec
=============================================================================
