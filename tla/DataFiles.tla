----------------------------- MODULE DataFiles -----------------------------
(***************************************************************************)
(* Files in memory.  mmap_file (src/posix/mmap.cpp, inc/utils/mmap.h)      *)
(* keeps a list of the mappings it has made of one file, answers a request *)
(* for the same bytes with the same mapping, and extends the file.  The    *)
(* reader of constant databases (src/cdb_read.c) looks keys up in hash     *)
(* tables that another program wrote; that program is modelled by the      *)
(* layout that the reader relies on.                                       *)
(***************************************************************************)
EXTENDS Integers, Sequences, SequencesExt

CONSTANTS DfOffs, DfSizes,     (* places and sizes asked for               *)
          DfFile,              (* size of the file at first                *)
          DfCreate,            (* values of MMAP_CREATE                    *)
          DfMaps,              (* bound: mappings made                     *)
          CdbKeys,             (* keys                                     *)
          CdbHash,             (* key -> its hash, none of them 0          *)
          CdbTables,           (* tables in the first index, a power of 2  *)
          CdbMax               (* bound: keys stored                       *)

VARIABLES m_filesize, m_mappings,      (* the object                       *)
          dfkernel,            (* ptr -> bytes mapped: [off, size]         *)
          dfreal,              (* the size of the file                     *)
          dfnext,              (* the next address                         *)
          dfcreate,            (* MMAP_CREATE was given                    *)
          dfans,               (* the last answer: [ptr, off, size]        *)
          cdbin                (* the keys in the order they were stored   *)

mmapVars == <<m_filesize, m_mappings, dfkernel, dfreal, dfnext, dfcreate, dfans>>

NoAnswer == [ptr |-> 0, off |-> 0, size |-> 0]

(* The constructor *)
MmapInit ==
  /\ m_filesize = DfFile /\ dfreal = DfFile /\ m_mappings = <<>> /\ dfkernel = {} /\ dfnext = 1
  /\ dfcreate \in DfCreate /\ dfans = NoAnswer

find_mappingFault(off, size) ==            \* fault: any mapping at the same offset
  LET i == SelectInSeq(m_mappings, LAMBDA m : m.off = off)
  IN  IF i = 0 THEN 0 ELSE m_mappings[i].ptr
find_mapping(off, size) ==
  LET i == SelectInSeq(m_mappings, LAMBDA m : m.off = off /\ m.size = size)
  IN  IF i = 0 THEN 0 ELSE m_mappings[i].ptr

(* mmap: found; out of bounds; the file extended; refused by the system *)
mmap(off, size) ==
  LET p == find_mapping(off, size)
      newsz == off + size
      fits == newsz <= m_filesize
      m == [ptr |-> dfnext, off |-> off, size |-> size]
      Grow == /\ m_filesize' = (IF fits THEN m_filesize ELSE newsz)
              /\ dfreal' = IF fits THEN dfreal ELSE newsz
  IN  /\ UNCHANGED dfcreate
      /\ \/ /\ p # 0 /\ dfans' = [ptr |-> p, off |-> off, size |-> size]
            /\ UNCHANGED <<m_filesize, m_mappings, dfkernel, dfreal, dfnext>>
         \/ /\ p = 0 /\ (fits \/ dfcreate) /\ dfnext <= DfMaps /\ Grow
            /\ m_mappings' = Append(m_mappings, m) /\ dfkernel' = dfkernel \cup {m}
            /\ dfnext' = dfnext + 1 /\ dfans' = m
         \/ /\ p = 0 /\ (fits \/ dfcreate) /\ Grow /\ dfans' = NoAnswer
            /\ UNCHANGED <<m_mappings, dfkernel, dfnext>>
         \/ /\ p = 0 /\ ~ fits /\ dfans' = NoAnswer
            /\ UNCHANGED <<m_filesize, m_mappings, dfkernel, dfreal, dfnext>>

(* maybe_erase and munmap; an address that is not in the list is left alone *)
unmap(p) ==
  LET i == SelectInSeq(m_mappings, LAMBDA m : m.ptr = p)
  IN  /\ UNCHANGED <<m_filesize, dfreal, dfnext, dfcreate>> /\ dfans' = NoAnswer
      /\ IF i = 0 THEN UNCHANGED <<m_mappings, dfkernel>>
         ELSE m_mappings' = RemoveAt(m_mappings, i) /\ dfkernel' = dfkernel \ {m_mappings[i]}

(* The destructor unmaps the rest; a new object on the same file follows. *)
Destroy ==
  /\ dfkernel' = dfkernel \ Range(m_mappings) /\ m_mappings' = <<>> /\ dfans' = NoAnswer
  /\ m_filesize' = dfreal /\ UNCHANGED <<dfreal, dfnext, dfcreate>>

MmapNext ==
  \/ \E o \in DfOffs, n \in DfSizes : mmap(o, n)
  \/ \E p \in 1 .. DfMaps : unmap(p)
  \/ Destroy

(* The list is what the kernel has mapped for the object, so that nothing  *)
(* stays mapped behind the destructor; every mapping lies inside the file, *)
(* whose size the object knows; and an answer is a mapping of the bytes    *)
(* asked for.                                                              *)
MappingsKnown ==
  /\ Range(m_mappings) = dfkernel
  /\ m_filesize = dfreal /\ \A m \in dfkernel : m.off + m.size <= dfreal
  /\ \A m, n \in dfkernel : m.off = n.off /\ m.size = n.size => m = n
  /\ dfans # NoAnswer => dfans \in dfkernel
-----------------------------------------------------------------------------
CdbInit == cdbin = <<>>
CdbStore(k) == k \notin Range(cdbin) /\ Len(cdbin) < CdbMax /\ cdbin' = Append(cdbin, k)
CdbNext == \E k \in CdbKeys : CdbStore(k)

TableOf(k) == CdbHash[k] % CdbTables
Start(k, len) == (CdbHash[k] \div CdbTables) % len

(* The first slot from s on that holds one of wanted, -1 if there is none *)
FirstFrom(tab, s, wanted) ==
  LET len == Len(tab)
      hits == {d \in 0 .. len - 1 : tab[((s + d) % len) + 1] \in wanted}
  IN  IF hits = {} THEN -1 ELSE (s + (CHOOSE d \in hits : \A e \in hits : d <= e)) % len

(* What the writer leaves: twice as many slots as keys in each table, a    *)
(* key in the first free slot from its start on.  0 is a free slot.        *)
Written(t) ==
  LET ks == SelectSeq(cdbin, LAMBDA k : TableOf(k) = t)
      Put(tab, k) == [tab EXCEPT ![FirstFrom(tab, Start(k, Len(tab)), {0}) + 1] = k]
  IN  FoldLeft(Put, [i \in 1 .. 2 * Len(ks) |-> 0], ks)

cdb_findFault(k) ==                \* fault: gives up at the end of the table
  LET tab == Written(TableOf(k))
      s == Start(k, Len(tab))
      at == {i \in s + 1 .. Len(tab) : tab[i] = 0 \/ tab[i] = k}
  IN  IF tab = <<>> \/ at = {} THEN 0 ELSE tab[CHOOSE i \in at : \A j \in at : i <= j]
(* cdb_find: the key found, 0 for -ENOENT.  The probe ends at a free slot, *)
(* at a slot with the same hash, whatever its key, or back at its start.   *)
cdb_find(k) ==
  LET tab == Written(TableOf(k))
      same == {j \in Range(cdbin) : CdbHash[j] = CdbHash[k]}
      i == FirstFrom(tab, Start(k, Len(tab)), {0} \cup same)
  IN  IF tab = <<>> \/ i = -1 THEN 0 ELSE IF tab[i + 1] = k THEN k ELSE 0

(* A stored key is found and no other key is, wherever the hashes send the *)
(* probes, as long as no two keys share all bits of their hash.            *)
CdbFinds ==
  \A k \in CdbKeys :
    /\ cdb_find(k) # 0 => k \in Range(cdbin)
    /\ k \in Range(cdbin) /\ (\A j \in Range(cdbin) \ {k} : CdbHash[j] # CdbHash[k]) => cdb_find(k) = k
=============================================================================
