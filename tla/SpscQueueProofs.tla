-------------------------- MODULE SpscQueueProofs --------------------------
(***************************************************************************)
(* Proofs about SpscQueue, for every number of slots and any elements.     *)
(***************************************************************************)
EXTENDS SpscQueue, SequenceTheorems, TLAPS

(* A leaf goes to Zenon first, and to the SMT solver when Zenon does not   *)
(* find its proof.                                                         *)
USE ZenonT(20), SMTT(60)

(* The slot of ticket t, counted from rd, the slot of ticket Released. *)
Slot(t) == IF rd + (t - Released) < Sz THEN rd + (t - Released) ELSE rd + (t - Released) - Sz

(* How far each side has come, in tickets. *)
Counts ==
  /\ Released \in Nat /\ Released <= Len(out) /\ Len(out) <= Published /\ Published <= Len(log)
  /\ Published - Released <= Sz - 1
  /\ wr = Slot(Published)
  /\ cp = "read" => Released < Published
  /\ pp \in {"write", "publish"} => Published - Released < Sz - 1
  /\ pp = "write" => pv \in Value

(* What is in the slots and what was read. *)
Data ==
  /\ \A t \in Released .. Len(log) - 1 : elem[Slot(t)] = log[t + 1]
  /\ \A t \in 0 .. Len(out) - 1 : out[t + 1] = log[t + 1]

(* The answers that the sides have and not yet used. *)
Answers ==
  /\ room => ~ Full /\ pp # "refused"
  /\ some => ~ Empty /\ cp # "refused"

SpscInv == SpscTypeOK /\ Counts /\ Data /\ Answers

(* A new queue satisfies the invariant. *)
LEMMA SpscInitInv == SpscInit => SpscInv
<1> SUFFICES ASSUME SpscInit PROVE SpscInv
  OBVIOUS
<1>1. Len(log) = 0 /\ Len(out) = 0 /\ Published = 0 /\ Released = 0
  BY DEF SpscInit, Published, Released
<1>2. SpscTypeOK
  BY SpscAssumption, SMTT(60) DEF SpscInit, SpscTypeOK, SpscSlots
<1>3. Counts
  BY <1>1, SpscAssumption, SMTT(60) DEF SpscInit, Counts, Slot
<1>4. Data
  BY <1>1, SMTT(60) DEF Data
<1>5. Answers
  BY DEF SpscInit, Answers
<1> QED  BY <1>2, <1>3, <1>4, <1>5 DEF SpscInv

(* FULL_P and EMPTY_P compare the counts. *)
LEMMA FullEmpty ==
  ASSUME SpscTypeOK, Counts
  PROVE  /\ Full <=> Published - Released = Sz - 1
         /\ Empty <=> Published = Released
         /\ Published \in Nat /\ Released \in Nat
<1>1. /\ rd \in 0 .. Sz - 1 /\ wr \in 0 .. Sz - 1 /\ Released \in Nat /\ Sz \in Nat \ {0, 1}
      /\ Published - Released <= Sz - 1 /\ Released <= Published
      /\ wr = Slot(Published)
      /\ Published \in Nat
  BY SpscAssumption, SMTT(60) DEF SpscTypeOK, Counts, Published, SpscSlots
<1> QED  BY <1>1, SMTT(60) DEF Slot, Full, Empty, Succ

(* The same in the state after a step. *)
LEMMA FullEmptyNext ==
  (SpscTypeOK /\ Counts)' => ((Full <=> Published - Released = Sz - 1) /\ (Empty <=> Published = Released))'
<1>1. SpscTypeOK /\ Counts => (Full <=> Published - Released = Sz - 1) /\ (Empty <=> Published = Released)
  BY FullEmpty
<1> QED  BY <1>1, PTL

(* Slots of the tickets in a ring's length apart differ. *)
LEMMA SlotsApart ==
  ASSUME SpscTypeOK, Counts, NEW t \in Int, NEW u \in Int,
         Released <= t, t < Released + Sz, Released <= u, u < Released + Sz, t # u
  PROVE  Slot(t) \in SpscSlots /\ Slot(u) \in SpscSlots /\ Slot(t) # Slot(u)
<1>1. rd \in 0 .. Sz - 1 /\ Released \in Nat /\ Sz \in Nat \ {0, 1}
  BY SpscAssumption DEF SpscTypeOK, Counts, SpscSlots
<1> QED  BY <1>1, SMTT(60) DEF Slot, SpscSlots

(* A step that leaves the indices, the slots and the history alone. *)
LEMMA Quiet ==
  ASSUME Counts, Data, UNCHANGED <<rd, wr, elem, log, out>>,
         Published' = Published, Released' = Released
  PROVE  /\ Slot(Published)' = Slot(Published) /\ Data' /\ Full' = Full /\ Empty' = Empty
         /\ Released' \in Nat /\ Released' <= Len(out') /\ Len(out') <= Published' /\ Published' <= Len(log')
         /\ Published' - Released' <= Sz - 1
         /\ wr' = Slot(Published)'
  BY DEF Counts, Data, Slot, Full, Empty, Succ

(* SPSCQ_ENQ's test: the producer goes on only where there is room, and    *)
(* only the producer can take that room away.                              *)
LEMMA EnqCheckInv ==
  ASSUME SpscInv, NEW v \in Value, EnqCheck(v)
  PROVE  SpscInv'
<1> USE DEF SpscInv
<1>1. Published' = Published /\ Released' = Released
  BY DEF EnqCheck, Published, Released
<1>2. UNCHANGED <<rd, wr, elem, log, out, cp, some, room>> /\ pv' = v /\ pp' \in {"refused", "write"}
  BY DEF EnqCheck
<1>3. SpscTypeOK'
  BY <1>2 DEF SpscTypeOK, EnqCheck
<1>4. pp' = "write" <=> ~ Full
  BY DEF EnqCheck
<1>5. Counts'
  <2>1. Published - Released # Sz - 1 => Published - Released < Sz - 1
    BY FullEmpty, SpscAssumption, SMTT(60) DEF Counts
  <2> QED  BY <1>1, <1>2, <1>4, <2>1, FullEmpty, Quiet DEF Counts
<1>6. Answers'
  BY <1>1, <1>2, <1>4, Quiet, SMTT(60) DEF Answers
<1> QED  BY <1>1, <1>2, <1>3, <1>5, <1>6, Quiet

(* The element is written into a slot that the consumer cannot read. *)
LEMMA EnqWriteInv ==
  ASSUME SpscInv, EnqWrite
  PROVE  SpscInv'
<1> USE DEF SpscInv
<1>1. /\ UNCHANGED <<rd, wr, out, cp, some, room, pv>> /\ log' = Append(log, pv) /\ pp' = "publish"
      /\ pp = "write" /\ pv \in Value /\ log \in Seq(Value) /\ elem' = [elem EXCEPT ![wr] = pv]
  BY DEF EnqWrite, SpscTypeOK, Counts
<1>2. /\ log' \in Seq(Value) /\ Len(log') = Len(log) + 1 /\ log'[Len(log) + 1] = pv
      /\ \A i \in 1 .. Len(log) : log'[i] = log[i]
      /\ Len(log) \in Nat
  BY <1>1, SMTT(60)
<1>3. Published' = Published /\ Released' = Released /\ Published = Len(log)
  BY <1>1, <1>2, SMTT(60) DEF Published, Released
<1>4. SpscTypeOK'
  BY <1>1, <1>2 DEF SpscTypeOK
<1>5. Counts'
  BY <1>1, <1>2, <1>3, SMTT(60) DEF Counts, Slot
<1>6. Data'
  <2>1. \A t \in Released .. Len(log) - 1 : elem'[Slot(t)] = log[t + 1]
    <3> SUFFICES ASSUME NEW t \in Released .. Len(log) - 1
                 PROVE  elem'[Slot(t)] = log[t + 1]
      OBVIOUS
    <3>1. Slot(t) \in SpscSlots /\ Slot(t) # Slot(Published)
      BY <1>1, <1>2, <1>3, SlotsApart, SpscAssumption, SMTT(60) DEF Counts
    <3>2. wr = Slot(Published)
      BY DEF Counts
    <3> QED  BY <1>1, <3>1, <3>2 DEF Data, SpscTypeOK
  <2>2. elem'[Slot(Len(log))] = pv
    BY <1>1, <1>3 DEF SpscTypeOK, Counts
  <2>3. \A t \in Int : Slot(t)' = Slot(t)
    BY <1>1, <1>3 DEF Slot
  <2>4. Len(out) <= Len(log) /\ Len(out) \in Nat /\ Released \in Nat
    BY <1>3, SMTT(60) DEF Counts, SpscTypeOK
  <2>5. \A t \in 0 .. Len(out) - 1 : out'[t + 1] = log'[t + 1]
    BY <1>1, <1>2, <2>4, SMTT(60) DEF Data
  <2>6. ASSUME NEW t \in Released' .. Len(log') - 1
        PROVE  (elem[Slot(t)])' = log'[t + 1]
    <3>1. CASE t = Len(log)
      BY <1>2, <2>2, <2>3, <3>1, <2>4, SMTT(60)
    <3>2. CASE t \in Released .. Len(log) - 1
      BY <1>2, <2>1, <2>3, <3>2, <2>4, SMTT(60)
    <3> QED  BY <3>1, <3>2, <1>2, <1>3, <2>4, SMTT(60)
  <2> QED  BY <2>5, <2>6, <1>1 DEF Data
<1>7. Answers'
  BY <1>1 DEF Answers, Full, Empty, Succ
<1> QED  BY <1>4, <1>5, <1>6, <1>7

(* Storing wr gives the consumer one more ticket. *)
LEMMA EnqPublishInv ==
  ASSUME SpscInv, EnqPublish
  PROVE  SpscInv'
<1> USE DEF SpscInv
<1>1. /\ UNCHANGED <<rd, elem, out, log, cp, some, pv>> /\ wr' = Succ(wr) /\ pp' = "idle" /\ room' = FALSE
      /\ pp = "publish"
  BY DEF EnqPublish
<1>2. /\ Published' = Published + 1 /\ Released' = Released /\ Published + 1 = Len(log)
      /\ Published \in Nat /\ Released \in Nat /\ Len(out) \in Nat /\ Sz \in Nat \ {0, 1}
      /\ rd \in 0 .. Sz - 1 /\ wr \in 0 .. Sz - 1
  BY <1>1, FullEmpty, SpscAssumption, SMTT(60) DEF Published, Released, SpscTypeOK, SpscSlots
<1>3. SpscTypeOK'
  <2>1. wr' \in SpscSlots
    BY <1>1, <1>2, SMTT(60) DEF SpscSlots, Succ
  <2> QED  BY <1>1, <2>1 DEF SpscTypeOK
<1>4. Counts'
  <2>1. /\ Released <= Len(out) /\ Len(out) <= Published /\ Published - Released < Sz - 1
        /\ wr = Slot(Published) /\ (cp = "read" => Released < Published)
    BY <1>1 DEF Counts
  <2>2. wr' = Slot(Published)'
    BY <1>1, <1>2, <2>1, SMTT(60) DEF Slot, Succ
  <2> QED  BY <1>1, <1>2, <2>1, <2>2, SMTT(60) DEF Counts
<1>5. Data'
  BY <1>1, <1>2 DEF Data, Slot
<1>6. Answers'
  <2>1. Published' # Released'
    BY <1>2, SMTT(60) DEF Counts
  <2> QED  BY <1>1, <1>3, <1>4, <2>1, FullEmptyNext DEF Answers
<1> QED  BY <1>3, <1>4, <1>5, <1>6

(* A refused SPSCQ_ENQ and SPSCQ_FULL_P. *)
LEMMA ProducerAsksInv ==
  ASSUME SpscInv, EnqRefused \/ FullP
  PROVE  SpscInv'
<1> USE DEF SpscInv
<1>1. UNCHANGED <<rd, wr, elem, log, out, cp, some, pv>> /\ pp' = "idle" /\ pp \in {"idle", "refused"}
  BY DEF EnqRefused, FullP
<1>2. Published' = Published /\ Released' = Released
  BY <1>1 DEF Published, Released
<1>3. SpscTypeOK'
  BY <1>1 DEF SpscTypeOK, EnqRefused, FullP
<1>4. Counts'
  BY <1>1, <1>2, Quiet DEF Counts
<1>5. Answers'
  <2>1. room' => ~ Full
    BY DEF EnqRefused, FullP
  <2> QED  BY <1>1, <1>2, <2>1, Quiet, SMTT(60) DEF Answers
<1> QED  BY <1>1, <1>2, <1>3, <1>4, <1>5, Quiet

(* SPSCQ_DEQ's test, a refused SPSCQ_DEQ and SPSCQ_EMPTY_P. *)
LEMMA ConsumerAsksInv ==
  ASSUME SpscInv, DeqCheck \/ DeqRefused \/ EmptyP
  PROVE  SpscInv'
<1> USE DEF SpscInv
<1>1. /\ UNCHANGED <<rd, wr, elem, log, out, pp, room, pv>>
      /\ cp \in {"idle", "refused"} /\ cp' \in {"idle", "refused", "read"} /\ (cp' = "read" => ~ Empty)
  BY DEF DeqCheck, DeqRefused, EmptyP
<1>2. Published' = Published /\ Released' = Released
  BY <1>1 DEF Published, Released
<1>3. SpscTypeOK'
  BY <1>1 DEF SpscTypeOK, DeqCheck, DeqRefused, EmptyP
<1>4. Counts'
  <2>1. Published # Released => Released < Published
    BY FullEmpty, SMTT(60) DEF Counts
  <2> QED  BY <1>1, <1>2, <2>1, Quiet, FullEmpty DEF Counts
<1>5. Answers'
  <2>1. some' => ~ Empty /\ cp' # "refused"
    <3>1. CASE DeqCheck
      BY <3>1 DEF DeqCheck, Answers
    <3>2. CASE DeqRefused
      BY <3>2 DEF DeqRefused
    <3>3. CASE EmptyP
      BY <3>3 DEF EmptyP
    <3> QED  BY <3>1, <3>2, <3>3
  <2>2. room' => ~ Full /\ pp' # "refused"
    BY <1>1 DEF Answers
  <2> QED  BY <1>1, <1>2, <2>1, <2>2, Quiet, SMTT(60) DEF Answers
<1> QED  BY <1>1, <1>2, <1>3, <1>4, <1>5, Quiet

(* The element that DEQ takes is the one accepted with its ticket. *)
LEMMA NextElement ==
  ASSUME SpscInv, cp = "read"
  PROVE  /\ Released = Len(out) /\ Len(out) < Published /\ Len(out) < Len(log) /\ Len(out) \in Nat
         /\ Len(log) \in Nat
         /\ elem[rd] = log[Len(out) + 1] /\ elem[rd] \in Value
<1> USE DEF SpscInv
<1>1. /\ Released = Len(out) /\ Len(out) < Published /\ Len(out) < Len(log) /\ Len(out) \in Nat
      /\ Len(log) \in Nat /\ Published \in Nat
  BY FullEmpty, SMTT(60) DEF Released, Counts, SpscTypeOK
<1>2. Slot(Released) = rd
  BY <1>1, SpscAssumption, SMTT(60) DEF Slot, SpscTypeOK, SpscSlots
<1>3. elem[rd] = log[Len(out) + 1]
  BY <1>1, <1>2, SMTT(60) DEF Data
<1>4. log[Len(out) + 1] \in Value
  BY <1>1, SMTT(60) DEF SpscTypeOK
<1> QED  BY <1>1, <1>3, <1>4

(* Reading the slot of the oldest ticket. *)
LEMMA DeqFetchInv ==
  ASSUME SpscInv, DeqFetch
  PROVE  SpscInv'
<1> USE DEF SpscInv
<1>1. /\ UNCHANGED <<rd, wr, elem, log, pp, pv, room, some>> /\ cp' = "publish" /\ cp = "read"
      /\ out' = Append(out, elem[rd]) /\ out \in Seq(Value)
  BY DEF DeqFetch, SpscTypeOK
<1>2. /\ out' \in Seq(Value) /\ Len(out') = Len(out) + 1 /\ out'[Len(out) + 1] = log[Len(out) + 1]
      /\ \A i \in 1 .. Len(out) : out'[i] = out[i]
  BY <1>1, NextElement, SMTT(60)
<1>3. Published' = Published /\ Released' = Released /\ Published \in Nat
  BY <1>1, <1>2, NextElement, FullEmpty, SMTT(60) DEF Published, Released
<1>4. SpscTypeOK'
  BY <1>1, <1>2 DEF SpscTypeOK
<1>5. Counts'
  BY <1>1, <1>2, <1>3, NextElement, SMTT(60) DEF Counts, Slot
<1>6. Data'
  <2>1. \A t \in Released .. Len(log) - 1 : Slot(t)' = Slot(t)
    BY <1>1, <1>3 DEF Slot
  <2>2. ASSUME NEW t \in 0 .. Len(out') - 1
        PROVE  out'[t + 1] = log[t + 1]
    <3>1. CASE t = Len(out)
      BY <1>2, <3>1
    <3>2. CASE t \in 0 .. Len(out) - 1
      BY <1>2, <3>2, NextElement, <1>1, SMTT(60) DEF Data
    <3> QED  BY <3>1, <3>2, <1>2, NextElement, <1>1, SMTT(60)
  <2> QED  BY <1>1, <1>3, <2>1, <2>2 DEF Data
<1>7. Answers'
  BY <1>1 DEF Answers, Full, Empty, Succ
<1> QED  BY <1>4, <1>5, <1>6, <1>7

(* Storing rd gives the slot back: the tickets still in the queue keep     *)
(* their slots.                                                            *)
LEMMA DeqPublishInv ==
  ASSUME SpscInv, DeqPublish
  PROVE  SpscInv'
<1> USE DEF SpscInv
<1>1. /\ UNCHANGED <<wr, elem, log, out, pp, pv, room>> /\ cp' = "idle" /\ cp = "publish"
      /\ rd' = Succ(rd) /\ some' = FALSE
  BY DEF DeqPublish
<1>2. /\ Published' = Published /\ Released' = Released + 1 /\ Len(out) = Released + 1
      /\ Published \in Nat /\ Released \in Nat /\ Sz \in Nat \ {0, 1} /\ Len(log) \in Nat
      /\ rd \in 0 .. Sz - 1 /\ wr \in 0 .. Sz - 1
  BY <1>1, FullEmpty, SpscAssumption, SMTT(60) DEF Published, Released, SpscTypeOK, SpscSlots
<1>3. SpscTypeOK'
  BY <1>1, <1>2, SMTT(60) DEF SpscTypeOK, SpscSlots, Succ
<1>5. /\ Len(out) <= Published /\ Published <= Len(log) /\ Published - Released <= Sz - 1
      /\ wr = Slot(Published) /\ Released + 1 <= Published
  BY <1>2 DEF Counts
<1>6. Len(log) <= Published + 1 /\ (Len(log) = Published + 1 => Published - Released < Sz - 1)
  BY <1>1, <1>2, SMTT(60) DEF Published, Counts
<1>7. Counts'
  <2>1. wr' = Slot(Published)'
    BY <1>1, <1>2, <1>5, SMTT(60) DEF Slot, Succ
  <2> QED  BY <1>1, <1>2, <1>5, <2>1, SMTT(60) DEF Counts
<1>8. Data'
  <2>1. \A t \in Released + 1 .. Len(log) - 1 : Slot(t)' = Slot(t)
    BY <1>1, <1>2, <1>5, <1>6, SMTT(60) DEF Slot, Succ
  <2> QED  BY <1>1, <1>2, <2>1, SMTT(60) DEF Data
<1>9. Answers'
  <2>1. Published' - Released' # Sz - 1
    BY <1>2, <1>5, SMTT(60)
  <2> QED  BY <1>1, <1>3, <1>7, <2>1, FullEmptyNext DEF Answers
<1> QED  BY <1>3, <1>7, <1>8, <1>9

(* SPSCQ_RESET forgets every element. *)
LEMMA ResetInv ==
  ASSUME SpscInv, Reset
  PROVE  SpscInv'
<1> USE DEF SpscInv
<1>1. /\ rd' = 0 /\ wr' = 0 /\ log' = <<>> /\ out' = <<>> /\ room' = FALSE /\ some' = FALSE
      /\ UNCHANGED <<elem, pp, pv, cp>> /\ pp = "idle" /\ cp = "idle"
  BY DEF Reset
<1>2. Len(log') = 0 /\ Len(out') = 0 /\ Published' = 0 /\ Released' = 0
  BY <1>1 DEF Published, Released
<1>3. SpscTypeOK'
  <2>1. rd' \in SpscSlots /\ wr' \in SpscSlots
    BY <1>1, SpscAssumption, SMTT(60) DEF SpscSlots
  <2>2. log' \in Seq(Value) /\ out' \in Seq(Value)
    BY <1>1, SMTT(60)
  <2> QED  BY <1>1, <2>1, <2>2 DEF SpscTypeOK
<1>4. Counts'
  BY <1>1, <1>2, SpscAssumption, SMTT(60) DEF Counts, Slot
<1>5. Data'
  BY <1>1, <1>2, SMTT(60) DEF Data
<1>6. Answers'
  BY <1>1 DEF Answers
<1> QED  BY <1>3, <1>4, <1>5, <1>6

(* Every step of either side keeps the invariant. *)
LEMMA SpscStep == SpscInv /\ [SpscNext]_spscVars => SpscInv'
<1> SUFFICES ASSUME SpscInv, [SpscNext]_spscVars PROVE SpscInv'
  OBVIOUS
<1>1. CASE Producer
  BY <1>1, EnqCheckInv, EnqWriteInv, EnqPublishInv, ProducerAsksInv DEF Producer
<1>2. CASE Consumer
  BY <1>2, ConsumerAsksInv, DeqFetchInv, DeqPublishInv DEF Consumer
<1>3. CASE Reset
  BY <1>3, ResetInv
<1>4. CASE UNCHANGED spscVars
  <2>1. UNCHANGED <<rd, wr, elem, pp, pv, room, cp, some, log, out>>
    BY <1>4 DEF spscVars
  <2>2. Published' = Published /\ Released' = Released
    BY <2>1 DEF Published, Released
  <2>3. Full' = Full /\ Empty' = Empty
    BY <2>1 DEF Full, Empty, Succ
  <2>4. SpscTypeOK'
    BY <2>1 DEF SpscInv, SpscTypeOK
  <2>5. Counts'
    BY <2>1, <2>2 DEF SpscInv, Counts, Slot
  <2>6. Data'
    BY <2>1, <2>2, Quiet DEF SpscInv
  <2>7. Answers'
    BY <2>1, <2>3 DEF SpscInv, Answers
  <2> QED  BY <2>4, <2>5, <2>6, <2>7 DEF SpscInv
<1> QED  BY <1>1, <1>2, <1>3, <1>4 DEF SpscNext

(* The invariant holds in every reachable state. *)
LEMMA SpscInvariance == SpscSpec => []SpscInv
  BY SpscInitInv, SpscStep, PTL DEF SpscSpec

(* Both indices stay inside the ring, only elements are ever read, and the *)
(* answers of SPSCQ_FULL_P and SPSCQ_EMPTY_P stay good for the side that   *)
(* asked, whatever the other side does: for every number of slots.         *)
THEOREM SpscAnswersKept == SpscSpec => []SpscAnswers
<1>1. SpscInv => SpscAnswers
  BY DEF SpscInv, Answers, SpscAnswers
<1> QED  BY <1>1, SpscInvariance, PTL

(* Every step of either side is a step of the FIFO or changes nothing of   *)
(* it: writing the slot accepts, storing wr publishes, reading delivers.   *)
LEMMA SpscImplements == SpscInv /\ [SpscNext]_spscVars => [Fifo!Next \/ Fifo!Clear]_Fifo!fifo
<1> SUFFICES ASSUME SpscInv, [SpscNext]_spscVars PROVE [Fifo!Next \/ Fifo!Clear]_Fifo!fifo
  OBVIOUS
<1>0. /\ Sz \in Nat \ {0, 1} /\ Published \in Nat /\ Released \in Nat /\ Len(log) \in Nat /\ Len(out) \in Nat
      /\ Released <= Len(out) /\ Len(out) <= Published /\ Published <= Len(log)
  BY FullEmpty, SpscAssumption, SMTT(60) DEF SpscInv, SpscTypeOK, Counts
<1>1. ASSUME UNCHANGED <<log, out>>, Published' = Published PROVE [Fifo!Next \/ Fifo!Clear]_Fifo!fifo
  BY <1>1 DEF Fifo!fifo
<1>2. CASE EnqWrite
  <2>1. /\ log' = Append(log, pv) /\ out' = out /\ pv \in Value /\ pp = "write" /\ pp' = "publish"
        /\ log \in Seq(Value)
    BY <1>2 DEF EnqWrite, SpscInv, Counts, SpscTypeOK
  <2>2. Published' = Published
    BY <2>1, SMTT(60) DEF Published
  <2>3. Fifo!Accept(pv)
    BY <2>1, <2>2 DEF Fifo!Accept
  <2> QED  BY <2>1, <2>3 DEF Fifo!Next
<1>3. CASE EnqPublish
  <2>1. /\ UNCHANGED <<log, out>> /\ Published + 1 = Len(log) /\ Published' = Published + 1
        /\ Published - Released < Sz - 1
    BY <1>0, <1>3, SMTT(60) DEF EnqPublish, Published, SpscInv, Counts
  <2>2. 0 .. Published' - 1 = (0 .. Published - 1) \cup {Published}
    BY <1>0, <2>1, SMTT(60)
  <2>3. Published >= Sz - 1 => Published - (Sz - 1) \in 0 .. Len(out) - 1
    BY <1>0, <2>1, SMTT(60)
  <2>4. Fifo!Publish(Published)
    BY <1>0, <2>1, <2>2, <2>3, SMTT(60) DEF Fifo!Publish
  <2> QED  BY <1>0, <2>1, <2>4, SMTT(60) DEF Fifo!Next
<1>4. CASE DeqFetch
  <2>1. /\ UNCHANGED <<log, pp>> /\ out' = Append(out, log[Len(out) + 1]) /\ Len(out) < Published
        /\ log[Len(out) + 1] \in Value /\ out \in Seq(Value) /\ Len(out) < Len(log)
    BY <1>4, NextElement DEF DeqFetch, SpscInv, SpscTypeOK
  <2>2. Published' = Published
    BY <2>1 DEF Published
  <2>3. /\ Len(out') = Len(out) + 1 /\ out'[Len(out) + 1] = log[Len(out) + 1]
        /\ \A i \in 1 .. Len(out) : out'[i] = out[i]
    BY <2>1, SMTT(60)
  <2>4. 0 .. Len(out') - 1 = (0 .. Len(out) - 1) \cup {Len(out)}
    BY <1>0, <2>3, SMTT(60)
  <2>5. [t \in 0 .. Len(out') - 1 |-> out'[t + 1]]
          = [u \in (0 .. Len(out) - 1) \cup {Len(out)} |->
               IF u = Len(out) THEN log[Len(out) + 1] ELSE [t \in 0 .. Len(out) - 1 |-> out[t + 1]][u]]
    <3>1. ASSUME NEW u \in 0 .. Len(out) - 1
          PROVE  u # Len(out) /\ out'[u + 1] = out[u + 1]
      <4>1. u # Len(out) /\ u + 1 \in 1 .. Len(out)
        BY <1>0, SMTT(60)
      <4> QED  BY <2>3, <4>1
    <3>2. \A u \in (0 .. Len(out) - 1) \cup {Len(out)} :
            out'[u + 1] = IF u = Len(out) THEN log[Len(out) + 1] ELSE [t \in 0 .. Len(out) - 1 |-> out[t + 1]][u]
      BY <2>3, <3>1
    <3> QED  BY <2>4, <3>2
  <2>6. PICK n \in 0 .. Len(log) : n = Len(out)
    BY <1>0, <2>1, SMTT(60)
  <2>7. Fifo!Deliver(n)
    BY <1>0, <2>1, <2>2, <2>5, <2>6, SMTT(60) DEF Fifo!Deliver
  <2> QED  BY <2>7 DEF Fifo!Next
<1>5. CASE Reset
  <2>1. log' = <<>> /\ out' = <<>> /\ pp' = "idle"
    BY <1>5 DEF Reset
  <2>2. Published' = 0 /\ Len(out') = 0
    BY <2>1 DEF Published
  <2>3. 0 .. Published' - 1 = {} /\ [t \in 0 .. Len(out') - 1 |-> out'[t + 1]] = [t \in {} |-> 0]
    BY <2>2, SMTT(60)
  <2> QED  BY <2>1, <2>3 DEF Fifo!Clear
<1>6. CASE EnqRefused \/ FullP \/ \E v \in Value : EnqCheck(v)
  BY <1>1, <1>6 DEF EnqRefused, FullP, EnqCheck, Published
<1>7. CASE DeqCheck \/ DeqRefused \/ DeqPublish \/ EmptyP
  BY <1>1, <1>7 DEF DeqCheck, DeqRefused, DeqPublish, EmptyP, Published
<1>8. CASE UNCHANGED spscVars
  BY <1>1, <1>8 DEF spscVars, Published
<1> QED
  BY <1>2, <1>3, <1>4, <1>5, <1>6, <1>7, <1>8 DEF SpscNext, Producer, Consumer

(* The queue is a FIFO of Sz - 1 places for every Sz > 1: the elements come *)
(* out once each, in the order in which they went in, until a reset.       *)
THEOREM SpscImplementsFifo == SpscSpec => SpscFifo
<1>1. SpscInit => Fifo!Init
  <2> SUFFICES ASSUME SpscInit PROVE Fifo!Init
    OBVIOUS
  <2>1. log = <<>> /\ Published = 0 /\ Len(out) = 0
    BY DEF SpscInit, Published
  <2>2. 0 .. Published - 1 = {} /\ [t \in 0 .. Len(out) - 1 |-> out[t + 1]] = [t \in {} |-> 0]
    BY <2>1, SMTT(60)
  <2> QED  BY <2>1, <2>2 DEF Fifo!Init
<1> QED  BY <1>1, SpscInvariance, SpscImplements, PTL DEF SpscSpec, SpscFifo, Fifo!ResetSpec
=============================================================================
