------------------------------ MODULE SpscQueue ------------------------------
(***************************************************************************)
(* inc/fast/spsc_bounded_queue.h: a ring of Sz slots shared by one         *)
(* producer and one consumer.  rd and wr are indices into the ring; the    *)
(* slot before rd is never used, so that rd = wr means empty.              *)
(*                                                                         *)
(* One action is one access to the other side's index or to a slot; a      *)
(* thread's load of its own index is folded into the step that uses it     *)
(* (nobody else writes it).                                                *)
(***************************************************************************)
EXTENDS Naturals, Sequences

CONSTANTS Sz,        (* slots, SPSCQ_INIT's sz_                            *)
          Value,     (* elements                                           *)
          MaxEnq     (* bound: elements accepted between two resets        *)

ASSUME SpscAssumption == Sz \in Nat \ {0, 1} /\ MaxEnq \in Nat

VARIABLES rd, wr, elem,  (* the queue                                      *)
          pp, pv, room,  (* producer: program counter, e_, FULL_P was false*)
          cp, some,      (* consumer: program counter, EMPTY_P was false   *)
          log, out       (* history: elements written; elements read       *)

spscVars == <<rd, wr, elem, pp, pv, room, cp, some, log, out>>

SpscSlots == 0 .. Sz - 1
Succ(i) == IF i + 1 = Sz THEN 0 ELSE i + 1
Full == Succ(wr) = rd
Empty == rd = wr

SpscInit ==
  /\ rd = 0 /\ wr = 0 /\ elem \in [SpscSlots -> {<<>>}]
  /\ pp = "idle" /\ pv = <<>> /\ room = FALSE
  /\ cp = "idle" /\ some = FALSE
  /\ log = <<>> /\ out = <<>>
-----------------------------------------------------------------------------
EnqCheckFault(v) ==                       \* fault: the last slot is used too
  /\ pp = "idle" /\ Len(log) < MaxEnq
  /\ pv' = v /\ pp' = "write" /\ room' = FALSE
  /\ UNCHANGED <<rd, wr, elem, cp, some, log, out>>

(* SPSCQ_ENQ: a full queue refuses the element. *)
EnqCheck(v) ==
  /\ pp = "idle" /\ Len(log) < MaxEnq
  /\ pv' = v
  /\ pp' = IF Full THEN "refused" ELSE "write"
  /\ UNCHANGED <<rd, wr, elem, room, cp, some, log, out>>

EnqRefused ==
  /\ pp = "refused"
  /\ pp' = "idle" /\ room' = FALSE
  /\ UNCHANGED <<rd, wr, elem, pv, cp, some, log, out>>

EnqWrite ==
  /\ pp = "write"
  /\ elem' = [elem EXCEPT ![wr] = pv]
  /\ log' = Append(log, pv)
  /\ pp' = "publish"
  /\ UNCHANGED <<rd, wr, pv, room, cp, some, out>>

EnqPublish ==
  /\ pp = "publish"
  /\ wr' = Succ(wr)
  /\ pp' = "idle" /\ room' = FALSE
  /\ UNCHANGED <<rd, elem, pv, cp, some, log, out>>

(* SPSCQ_FULL_P, called by the producer. *)
FullP ==
  /\ pp = "idle" /\ room' = ~ Full
  /\ UNCHANGED <<rd, wr, elem, pp, pv, cp, some, log, out>>
-----------------------------------------------------------------------------
(* SPSCQ_DEQ: an empty queue has nothing to give. *)
DeqCheck ==
  /\ cp = "idle"
  /\ cp' = IF Empty THEN "refused" ELSE "read"
  /\ UNCHANGED <<rd, wr, elem, pp, pv, room, some, log, out>>

DeqRefused ==
  /\ cp = "refused"
  /\ cp' = "idle" /\ some' = FALSE
  /\ UNCHANGED <<rd, wr, elem, pp, pv, room, log, out>>

DeqFetch ==
  /\ cp = "read"
  /\ out' = Append(out, elem[rd])
  /\ cp' = "publish"
  /\ UNCHANGED <<rd, wr, elem, pp, pv, room, some, log>>

DeqPublishFault ==                        \* fault: no wrap at the end
  /\ cp = "publish"
  /\ rd' = rd + 1
  /\ cp' = "idle" /\ some' = FALSE
  /\ UNCHANGED <<wr, elem, pp, pv, room, log, out>>

DeqPublish ==
  /\ cp = "publish"
  /\ rd' = Succ(rd)
  /\ cp' = "idle" /\ some' = FALSE
  /\ UNCHANGED <<wr, elem, pp, pv, room, log, out>>

EmptyPFault ==                            \* fault: compares with the wrong end
  /\ cp = "idle" /\ some' = (Succ(rd) # wr)
  /\ UNCHANGED <<rd, wr, elem, pp, pv, room, cp, log, out>>

(* SPSCQ_EMPTY_P, called by the consumer. *)
EmptyP ==
  /\ cp = "idle" /\ some' = ~ Empty
  /\ UNCHANGED <<rd, wr, elem, pp, pv, room, cp, log, out>>

(* SPSCQ_RESET, called while neither side is in an operation. *)
Reset ==
  /\ pp = "idle" /\ cp = "idle"
  /\ rd' = 0 /\ wr' = 0
  /\ room' = FALSE /\ some' = FALSE
  /\ log' = <<>> /\ out' = <<>>
  /\ UNCHANGED <<elem, pp, pv, cp>>

Producer == (\E v \in Value : EnqCheck(v)) \/ EnqRefused \/ EnqWrite \/ EnqPublish \/ FullP
Consumer == DeqCheck \/ DeqRefused \/ DeqFetch \/ DeqPublish \/ EmptyP
SpscNext == Producer \/ Consumer \/ Reset

SpscSpec == SpscInit /\ [][SpscNext]_spscVars
-----------------------------------------------------------------------------
Published == IF pp = "publish" THEN Len(log) - 1 ELSE Len(log)
Released == IF cp = "publish" THEN Len(out) - 1 ELSE Len(out)

(* The indices stay inside the ring; what was read are elements. *)
SpscTypeOK ==
  /\ rd \in SpscSlots /\ wr \in SpscSlots
  /\ elem \in [SpscSlots -> Value \cup {<<>>}]
  /\ pp \in {"idle", "refused", "write", "publish"} /\ pv \in Value \cup {<<>>}
  /\ cp \in {"idle", "refused", "read", "publish"}
  /\ room \in BOOLEAN /\ some \in BOOLEAN
  /\ log \in Seq(Value) /\ out \in Seq(Value)

(* The elements come out once each, in the order they went in, and at most *)
(* Sz - 1 are in the queue; SPSCQ_RESET starts afresh.                     *)
Fifo == INSTANCE TicketFifo WITH
          Size <- Sz - 1,
          ready <- 0 .. Published - 1,
          got <- [t \in 0 .. Len(out) - 1 |-> out[t + 1]]
SpscFifo == Fifo!ResetSpec

(* Only written slots are read, and the answers of FULL_P and EMPTY_P stay *)
(* good: an ENQ after FULL_P was false, or a DEQ after EMPTY_P was false,  *)
(* succeeds whatever the other side does in between.                       *)
SpscAnswers == SpscTypeOK /\ (room => pp # "refused") /\ (some => cp # "refused")
=============================================================================
