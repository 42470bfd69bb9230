----------------------------- MODULE TicketFifo -----------------------------
(***************************************************************************)
(* What a bounded multi-producer, multi-consumer FIFO promises its users.  *)
(*                                                                         *)
(* Every accepted element gets the next ticket; every dequeue that will    *)
(* return an element gets the next ticket of its own side.  The dequeue    *)
(* holding ticket t returns the element that was accepted with ticket t,   *)
(* after it was published, once; and ticket t is published only when the   *)
(* element Size places ahead of it has left the queue.                     *)
(***************************************************************************)
EXTENDS Naturals, Sequences

CONSTANTS Value,    (* the elements                                        *)
          Size      (* the number of elements the queue has room for       *)

VARIABLES log,      (* the accepted elements; log[t + 1] has ticket t      *)
          ready,    (* the tickets whose element has been published        *)
          got       (* ticket -> element, for the tickets delivered        *)

fifo == <<log, ready, got>>

Init == log = <<>> /\ ready = {} /\ got = [t \in {} |-> 0]

(* An element is accepted: it takes the next ticket. *)
Accept(v) ==
  /\ log' = Append(log, v)
  /\ UNCHANGED <<ready, got>>

(* The element of ticket t becomes available; its slot must be vacant. *)
Publish(t) ==
  /\ t < Len(log) /\ t \notin ready
  /\ t >= Size => t - Size \in DOMAIN got
  /\ ready' = ready \cup {t}
  /\ UNCHANGED <<log, got>>

(* The element of ticket t leaves the queue, exactly once. *)
Deliver(t) ==
  /\ t \in ready /\ t \notin DOMAIN got
  /\ got' = [u \in DOMAIN got \cup {t} |-> IF u = t THEN log[t + 1] ELSE got[u]]
  /\ UNCHANGED <<log, ready>>

Next ==
  \/ \E v \in Value : Accept(v)
  \/ \E t \in 0 .. Len(log) : Publish(t) \/ Deliver(t)

Spec == Init /\ [][Next]_fifo

(* A queue whose owner may also empty it between operations. *)
Clear == log' = <<>> /\ ready' = {} /\ got' = [t \in {} |-> 0]

ResetSpec == Init /\ [][Next \/ Clear]_fifo
=============================================================================
