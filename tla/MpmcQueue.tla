------------------------------ MODULE MpmcQueue ------------------------------
(***************************************************************************)
(* inc/fast/mpmc_bounded_queue.h: a bounded queue of Size slots shared by  *)
(* any number of producer and consumer threads, without locks.  A slot's   *)
(* turn says whose move it is: 2*r for the producer of round r, 2*r + 1    *)
(* for the consumer of round r.                                            *)
(*                                                                         *)
(* One action is one access to shared memory.  head and tail are 64 bits   *)
(* wide in the code; they count elements, so they do not wrap in the life  *)
(* of a process and are naturals here.  The code rounds Size up to a power *)
(* of two, so that `i & mask' is i % Size.                                 *)
(***************************************************************************)
EXTENDS Naturals, Sequences, FiniteSets

CONSTANTS Producers, Consumers,  (* the threads                            *)
          Size,                  (* slots                                  *)
          Modes,                 (* operations used: "try" (ENQ, DEQ),     *)
                                 (* "wait" (ENQ_WAIT, DEQ_WAIT)            *)
          MaxOps                 (* bound: successes of one thread         *)

ASSUME MpmcAssumption ==
  /\ Size \in Nat \ {0}
  /\ MaxOps \in Nat
  /\ Modes \subseteq {"try", "wait"}
  /\ Producers \cap Consumers = {}
ASSUME FiniteThreads == IsFiniteSet(Producers) /\ IsFiniteSet(Consumers)

Threads == Producers \cup Consumers

(* The n-th element a producer offers; elements are distinguishable. *)
Value == Producers \X (0 .. MaxOps)

VARIABLES head, tail,  (* struct __mpmc_q                                  *)
          turn, data,  (* the fields of slot[0 .. Size-1]                  *)
          pc,          (* where each thread is in its operation            *)
          pos,         (* _hd or _tl of each thread                        *)
          ops,         (* successful operations of each thread             *)
          log, got     (* history: claimed elements; ticket -> result      *)

vars == <<head, tail, turn, data, pc, pos, ops, log, got>>

Slots == 0 .. Size - 1
Idx(i) == i % Size
ProdTurn(i) == 2 * (i \div Size)
ConsTurnFault(i) == 2 * (i \div Size)             \* fault: the 1 + is missing
ConsTurn(i) == 1 + 2 * (i \div Size)

Init ==
  /\ head = 0 /\ tail = 0
  /\ turn = [s \in Slots |-> 0]
  /\ data = [s \in Slots |-> <<>>]
  /\ pc = [t \in Threads |-> "idle"]
  /\ pos = [t \in Threads |-> 0]
  /\ ops = [t \in Threads |-> 0]
  /\ log = <<>>
  /\ got = [t \in {} |-> <<>>]

Goto(t, l) == pc' = [pc EXCEPT ![t] = l]
MyTurn(t) == IF t \in Producers THEN ProdTurn(pos[t]) ELSE ConsTurn(pos[t])
SlotOpenFault(t) == turn[Idx(pos[t])] # MyTurn(t)  \* fault: inverted test
SlotOpen(t) == turn[Idx(pos[t])] = MyTurn(t)
Elem(p) == <<p, ops[p]>>
-----------------------------------------------------------------------------
(* Both MPMC_QUEUE_ENQ and _DEQ: load the counter of one's side. *)
Counter(t) == IF t \in Producers THEN head ELSE tail

Load(t) ==
  /\ pc[t] = "idle" /\ "try" \in Modes /\ ops[t] < MaxOps
  /\ pos' = [pos EXCEPT ![t] = Counter(t)]
  /\ Goto(t, "check")
  /\ UNCHANGED <<head, tail, turn, data, ops, log, got>>

(* Compare the slot's turn with the one expected at pos. *)
Check(t) ==
  /\ pc[t] = "check"
  /\ Goto(t, IF SlotOpen(t) THEN "cas" ELSE "recheck")
  /\ UNCHANGED <<head, tail, turn, data, pos, ops, log, got>>

RecheckFault(t) ==                                 \* fault: no break
  /\ pc[t] = "recheck"
  /\ pos' = [pos EXCEPT ![t] = Counter(t)]
  /\ Goto(t, "check")
  /\ UNCHANGED <<head, tail, turn, data, ops, log, got>>

(* The slot was not open: give up if the counter has not moved. *)
Recheck(t) ==
  /\ pc[t] = "recheck"
  /\ pos' = [pos EXCEPT ![t] = Counter(t)]
  /\ Goto(t, IF pos[t] = Counter(t) THEN "idle" ELSE "check")
  /\ UNCHANGED <<head, tail, turn, data, ops, log, got>>

(* Advance the counter of one's side, claiming ticket Counter(t). *)
Claim(t) ==
  IF t \in Producers
  THEN head' = head + 1 /\ tail' = tail /\ log' = Append(log, Elem(t))
  ELSE tail' = tail + 1 /\ UNCHANGED <<head, log>>

CasFault(t) ==                                     \* fault: add without compare
  /\ pc[t] = "cas"
  /\ Claim(t)
  /\ Goto(t, "access")
  /\ UNCHANGED <<turn, data, pos, ops, got>>

(* atomic_compare_exchange_strong; failure reloads pos. *)
Cas(t) ==
  /\ pc[t] = "cas"
  /\ \/ /\ Counter(t) = pos[t]
        /\ Claim(t)
        /\ Goto(t, "access")
        /\ UNCHANGED pos
     \/ /\ Counter(t) # pos[t]
        /\ pos' = [pos EXCEPT ![t] = Counter(t)]
        /\ Goto(t, "check")
        /\ UNCHANGED <<head, tail, log>>
  /\ UNCHANGED <<turn, data, ops, got>>

(* MPMC_QUEUE_ENQ_WAIT and _DEQ_WAIT: atomic_fetch_add, then spin. *)
FetchAdd(t) ==
  /\ pc[t] = "idle" /\ "wait" \in Modes /\ ops[t] < MaxOps
  /\ pos' = [pos EXCEPT ![t] = Counter(t)]
  /\ Claim(t)
  /\ Goto(t, "spin")
  /\ UNCHANGED <<turn, data, ops, got>>

Spin(t) ==
  /\ pc[t] = "spin" /\ SlotOpen(t)
  /\ Goto(t, "access")
  /\ UNCHANGED <<head, tail, turn, data, pos, ops, log, got>>

(* Copy the element into the claimed slot, or out of it. *)
Access(t) ==
  /\ pc[t] = "access"
  /\ \/ /\ t \in Producers
        /\ data' = [data EXCEPT ![Idx(pos[t])] = Elem(t)]
        /\ UNCHANGED got
     \/ /\ t \in Consumers
        /\ got' = [u \in DOMAIN got \cup {pos[t]} |->
                     IF u = pos[t] THEN data[Idx(pos[t])] ELSE got[u]]
        /\ UNCHANGED data
  /\ Goto(t, "release")
  /\ UNCHANGED <<head, tail, turn, pos, ops, log>>

ReleaseFault(t) ==                                 \* fault: turn not advanced
  /\ pc[t] = "release"
  /\ ops' = [ops EXCEPT ![t] = @ + 1]
  /\ Goto(t, "idle")
  /\ UNCHANGED <<head, tail, turn, data, pos, log, got>>

(* Hand the slot to the other side. *)
Release(t) ==
  /\ pc[t] = "release"
  /\ turn' = [turn EXCEPT ![Idx(pos[t])] = MyTurn(t) + 1]
  /\ ops' = [ops EXCEPT ![t] = @ + 1]
  /\ Goto(t, "idle")
  /\ UNCHANGED <<head, tail, data, pos, log, got>>

Step(t) == \/ Load(t) \/ Check(t) \/ Recheck(t) \/ Cas(t)
           \/ FetchAdd(t) \/ Spin(t) \/ Access(t) \/ Release(t)

Next == \E t \in Threads : Step(t)

Spec == Init /\ [][Next]_vars
-----------------------------------------------------------------------------
(* Every counter, slot and program counter stays in its range; in          *)
(* particular no dequeue ever returns the content of an unwritten slot.    *)
TypeOK ==
  /\ head \in Nat /\ tail \in Nat
  /\ turn \in [Slots -> Nat]
  /\ data \in [Slots -> Value \cup {<<>>}]
  /\ pc \in [Threads -> {"idle", "check", "recheck", "cas", "spin", "access", "release"}]
  /\ pos \in [Threads -> Nat]
  /\ ops \in [Threads -> Nat]
  /\ log \in Seq(Value)
  /\ got \in [DOMAIN got -> Value] /\ DOMAIN got \subseteq Nat

Holding(t) == pc[t] \in {"access", "release"}
Claimed(t) == pc[t] \in {"spin", "access", "release"}

(* No data race: between winning a slot and handing it over, a thread is   *)
(* the only one that reads or writes the slot's data.                      *)
SlotExclusive ==
  \A t, u \in Threads :
    t # u /\ Holding(t) /\ Holding(u) => Idx(pos[t]) # Idx(pos[u])

(* A dequeue returns exactly the element enqueued with its own ticket:     *)
(* nothing is lost, duplicated, reordered, torn or overwritten unread.     *)
Fifo == INSTANCE TicketFifo WITH
          ready <- {i \in 0 .. head - 1 : turn[Idx(i)] > ProdTurn(i)}
FifoSpec == Fifo!Spec

(* "False" is honest: when ENQ (DEQ) finds its slot closed and the counter *)
(* has not moved, the element Size tickets back has not left the queue     *)
(* (the element it would take has not been published).                     *)
HonestRefusal ==
  [][\A t \in Threads :
       pc[t] = "check" /\ pc'[t] = "recheck" /\ pos[t] = Counter(t) =>
         IF t \in Producers
         THEN /\ pos[t] >= Size
              /\ turn[Idx(pos[t])] <= ConsTurn(pos[t] - Size)
         ELSE turn[Idx(pos[t])] < ConsTurn(pos[t])]_vars

(* Lock freedom: an ENQ or DEQ of a thread that keeps running returns,     *)
(* even if every other thread stops for good at the worst place.           *)
TryReturns ==
  \A t \in Threads :
    WF_vars(Step(t)) => (pc[t] = "check" ~> pc[t] \in {"idle", "release"})

(* Every ENQ_WAIT and DEQ_WAIT completes when all threads keep running,    *)
(* make no other calls, and both sides make the same number of them.       *)
AllComplete ==
  /\ \A t \in Threads : WF_vars(Step(t))
  /\ [](\A t \in Threads : pc[t] # "check")
  => <>(\A t \in Threads : ops[t] = MaxOps)
-----------------------------------------------------------------------------
(* The inductive invariant, for the tickets in the set T.                  *)
TicketInv(T) ==
  /\ head = Len(log)
  /\ \A t \in Threads : pc[t] # "idle" => ops[t] < MaxOps
  /\ \A t \in Threads : pos[t] <= Counter(t)
  /\ \A t \in Threads : Claimed(t) => pos[t] < Counter(t)
  /\ \A t, u \in Threads :
       t # u /\ Claimed(t) /\ Claimed(u) /\ (t \in Producers <=> u \in Producers)
         => pos[t] # pos[u]
  \* a slot never runs ahead of the tickets handed out
  /\ \A i \in T : i >= head => turn[Idx(i)] <= ProdTurn(i)
  /\ \A i \in T : i >= tail => turn[Idx(i)] <= ConsTurn(i)
  \* nor past the thread that holds the ticket it waits for
  /\ \A t \in Threads : Claimed(t) => turn[Idx(pos[t])] <= MyTurn(t)
  /\ \A t \in Threads : Holding(t) \/ pc[t] = "cas" => turn[Idx(pos[t])] >= MyTurn(t)

DataInv(T) ==
  /\ \A p \in Producers :
       Claimed(p) => /\ log[pos[p] + 1] = Elem(p)
                     /\ pc[p] = "release" => data[Idx(pos[p])] = Elem(p)
  /\ \A i \in T : turn[Idx(i)] = ConsTurn(i) => i < head /\ data[Idx(i)] = log[i + 1]
  /\ \A i \in T : turn[Idx(i)] > ConsTurn(i) => i \in DOMAIN got
  /\ \A i \in DOMAIN got : i < tail /\ i < head /\ got[i] = log[i + 1]
  /\ \A c \in Consumers : pc[c] \in {"spin", "access"} => pos[c] \notin DOMAIN got
  /\ \A c \in Consumers : pc[c] = "release" => pos[c] \in DOMAIN got

(* No counter, slot or ticket strays: the inductive invariant of the proof *)
(* holds in every reachable state, for all the tickets that the calls can  *)
(* hand out and one round more.                                            *)
IndInv ==
  LET T == 0 .. MaxOps * Cardinality(Threads) + Size
  IN  TypeOK /\ TicketInv(T) /\ DataInv(T)
=============================================================================
