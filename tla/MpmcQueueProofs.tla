--------------------------- MODULE MpmcQueueProofs ---------------------------
(***************************************************************************)
(* Proofs about MpmcQueue, for any finite sets of producers and consumers, *)
(* any number of slots and of calls.                                       *)
(***************************************************************************)
EXTENDS MpmcQueue, FiniteSetTheorems, TLAPS

(* A leaf goes to Zenon first, and to the SMT solver when Zenon does not   *)
(* find its proof.                                                         *)
USE ZenonT(20), SMTT(60)

(* The slot of a ticket is a slot; its turns are numbers, one apart.       *)
LEMMA IdxType ==
  \A i \in Nat : /\ Idx(i) \in Slots
                 /\ ProdTurn(i) \in Nat
                 /\ ConsTurn(i) \in Nat /\ ConsTurn(i) = ProdTurn(i) + 1
  BY MpmcAssumption, Z3T(60) DEF Idx, Slots, ProdTurn, ConsTurn

(* A slot and a turn determine the ticket.                                 *)
LEMMA TicketOfTurn ==
  \A i, j \in Nat :
    /\ ProdTurn(i) = ProdTurn(j) /\ Idx(i) = Idx(j) => i = j
    /\ ConsTurn(i) = ConsTurn(j) /\ Idx(i) = Idx(j) => i = j
    /\ ProdTurn(i) # ConsTurn(j) /\ ConsTurn(i) + 1 # ConsTurn(j)
  BY MpmcAssumption, Z3T(60) DEF Idx, Slots, ProdTurn, ConsTurn

(* Division of a ticket by the size.                                       *)
LEMMA Euclid ==
  \A i \in Nat : /\ i \div Size \in Nat /\ i % Size \in Nat /\ i % Size < Size
                 /\ i = Size * (i \div Size) + (i % Size)
  BY MpmcAssumption, Z3T(60)

(* Different multiples of the size are at least the size apart.            *)
LEMMA MulMono ==
  ASSUME NEW a \in Nat, NEW b \in Nat, a < b
  PROVE  Size * b >= Size * a + Size
<1>1. b - a - 1 \in Nat
  BY SMTT(60)
<1>2. Size * (b - a - 1) \in Nat
  BY <1>1, MpmcAssumption, Z3T(30)
<1>3. Size * b = Size * (b - a - 1) + Size * a + Size
  BY MpmcAssumption, Z3T(30)
<1> QED  BY <1>2, <1>3, MpmcAssumption, SMTT(60)

(* Quotient and remainder determine the number.                            *)
LEMMA EuclidUnique ==
  ASSUME NEW a \in Nat, NEW b \in Nat, NEW r \in Nat, NEW s \in Nat,
         r < Size, s < Size, Size * a + r = Size * b + s
  PROVE  a = b /\ r = s
<1>1. CASE a < b
  <2>1. Size * b >= Size * a + Size
    BY <1>1, MulMono
  <2>2. Size * a \in Nat /\ Size * b \in Nat
    BY MpmcAssumption, Z3T(30)
  <2> QED  BY <2>1, <2>2, MpmcAssumption, SMTT(60)
<1>2. CASE b < a
  <2>1. Size * a >= Size * b + Size
    BY <1>2, MulMono
  <2>2. Size * a \in Nat /\ Size * b \in Nat
    BY MpmcAssumption, Z3T(30)
  <2> QED  BY <2>1, <2>2, MpmcAssumption, SMTT(60)
<1>3. CASE a = b
  BY <1>3, MpmcAssumption, Z3T(30)
<1> QED  BY <1>1, <1>2, <1>3, SMTT(60)

(* The ticket one round earlier has the same slot, two turns before.       *)
LEMMA OneRoundBack ==
  ASSUME NEW i \in Nat, i >= Size
  PROVE  /\ i - Size \in Nat
         /\ Idx(i - Size) = Idx(i)
         /\ ProdTurn(i) = ProdTurn(i - Size) + 2
<1> DEFINE j == i - Size
<1>1. j \in Nat
  BY MpmcAssumption, SMTT(60)
<1>2. /\ j \div Size \in Nat /\ j % Size \in Nat /\ j % Size < Size
      /\ j = Size * (j \div Size) + (j % Size)
  BY <1>1, Euclid
<1>3. /\ i \div Size \in Nat /\ i % Size \in Nat /\ i % Size < Size
      /\ i = Size * (i \div Size) + (i % Size)
  BY Euclid
<1> DEFINE q == j \div Size
<1>4. Size * (q + 1) = Size * q + Size
  BY <1>2, MpmcAssumption, Z3T(30)
<1>5. Size * (q + 1) + (j % Size) = Size * (i \div Size) + (i % Size)
  <2> HIDE DEF q
  <2>1. Size * q \in Nat /\ j = Size * q + (j % Size)
    BY <1>2, MpmcAssumption, Z3T(30) DEF q
  <2> QED  BY <1>2, <1>3, <1>4, <2>1, MpmcAssumption, SMTT(60)
<1>6. q + 1 = i \div Size /\ j % Size = i % Size
  BY <1>2, <1>3, <1>5, EuclidUnique, SMTT(60)
<1> QED  BY <1>1, <1>2, <1>3, <1>6, SMTT(60) DEF Idx, ProdTurn

(* The tickets of the first round have turn 0.                             *)
LEMMA FirstRound == \A i \in Nat : i < Size => ProdTurn(i) = 0
  BY MpmcAssumption, Z3T(60) DEF ProdTurn
-----------------------------------------------------------------------------
Inv == TypeOK /\ TicketInv(Nat) /\ DataInv(Nat)

(* The inductive invariant holds of the empty queue.                       *)
LEMMA InitInv == Init => Inv
<1> SUFFICES ASSUME Init PROVE Inv
  OBVIOUS
<1>1. TypeOK
  BY MpmcAssumption, SMTT(60) DEF Init, TypeOK, Threads
<1>2. TicketInv(Nat)
  BY IdxType, SMTT(60) DEF Init, TicketInv, Counter, Claimed, Holding, Threads
<1>3. DataInv(Nat)
  BY IdxType, SMTT(60) DEF Init, DataInv, Claimed, Threads
<1> QED  BY <1>1, <1>2, <1>3 DEF Inv

(* What Append does to a sequence.                                         *)
LEMMA AppendSeq ==
  ASSUME NEW S, NEW s \in Seq(S), NEW e \in S
  PROVE  /\ Append(s, e) \in Seq(S)
         /\ Len(Append(s, e)) = Len(s) + 1
         /\ Append(s, e)[Len(s) + 1] = e
         /\ \A i \in 1 .. Len(s) : Append(s, e)[i] = s[i]
  BY SMTT(60)

(* What a producer offers is an element.                                   *)
LEMMA ElemInValue ==
  ASSUME NEW t \in Producers, ops[t] \in Nat, ops[t] < MaxOps
  PROVE  Elem(t) \in Value
  BY MpmcAssumption, SMTT(60) DEF Elem, Value

(* What the successful compare-and-swap of ENQ or DEQ does to the indices. *)
LEMMA ClaimStep ==
  ASSUME Inv, NEW t \in Threads, Claim(t), ops[t] < MaxOps
  PROVE  /\ head' \in Nat /\ tail' \in Nat /\ log' \in Seq(Value)
         /\ head' = Len(log')
         /\ \A i \in Nat : i < head => log'[i + 1] = log[i + 1]
         /\ t \in Producers => /\ head' = head + 1 /\ tail' = tail
                               /\ log'[head + 1] = Elem(t)
         /\ t \notin Producers => head' = head /\ tail' = tail + 1 /\ log' = log
<1>1. CASE t \in Producers
  <2>1. Elem(t) \in Value
    BY <1>1, ElemInValue DEF Inv, TypeOK
  <2>2. log' = Append(log, Elem(t)) /\ head' = head + 1 /\ tail' = tail
    BY <1>1 DEF Claim
  <2>3. /\ log \in Seq(Value) /\ head \in Nat /\ tail \in Nat /\ head = Len(log)
        /\ Producers \cap Consumers = {}
    BY MpmcAssumption DEF Inv, TypeOK, TicketInv
  <2>4. /\ Append(log, Elem(t)) \in Seq(Value)
        /\ Len(Append(log, Elem(t))) = Len(log) + 1
        /\ Append(log, Elem(t))[Len(log) + 1] = Elem(t)
        /\ \A i \in 1 .. Len(log) : Append(log, Elem(t))[i] = log[i]
    BY <2>1, <2>3, AppendSeq, SMTT(60)
  <2>5. /\ log' \in Seq(Value) /\ Len(log') = Len(log) + 1
        /\ log'[Len(log) + 1] = Elem(t)
        /\ \A i \in 1 .. Len(log) : log'[i] = log[i]
    BY <2>2, <2>4, Zenon
  <2> HIDE <2>4
  <2> QED  BY <1>1, <2>2, <2>3, <2>5, SMTT(60)
<1>2. CASE t \notin Producers
  BY <1>2, SMTT(60) DEF Claim, Inv, TypeOK, TicketInv
<1> QED  BY <1>1, <1>2

(* Types are kept.                                                         *)
LEMMA StepType == Inv /\ [Next]_vars => TypeOK'
<1> SUFFICES ASSUME Inv, [Next]_vars PROVE TypeOK'
  OBVIOUS
<1> USE DEF Inv, TypeOK, Goto
<1>1. ASSUME NEW t \in Threads, Load(t) PROVE TypeOK'
  BY <1>1 DEF Load, Counter
<1>2. ASSUME NEW t \in Threads, Check(t) PROVE TypeOK'
  BY <1>2 DEF Check
<1>3. ASSUME NEW t \in Threads, Recheck(t) PROVE TypeOK'
  BY <1>3 DEF Recheck, Counter
<1>4. ASSUME NEW t \in Threads, Cas(t) PROVE TypeOK'
  <2>1. ops[t] < MaxOps
    BY <1>4 DEF Cas, TicketInv
  <2>2. head' \in Nat /\ tail' \in Nat /\ log' \in Seq(Value)
    BY <1>4, <2>1, ClaimStep DEF Cas
  <2>3. Counter(t) \in Nat
    BY DEF Counter
  <2> QED  BY <1>4, <2>2, <2>3, ZenonT(30) DEF Cas
<1>5. ASSUME NEW t \in Threads, FetchAdd(t) PROVE TypeOK'
  <2>1. ops[t] < MaxOps
    BY <1>5 DEF FetchAdd, TicketInv
  <2>2. head' \in Nat /\ tail' \in Nat /\ log' \in Seq(Value)
    BY <1>5, <2>1, ClaimStep DEF FetchAdd
  <2>3. Counter(t) \in Nat
    BY DEF Counter
  <2> QED  BY <1>5, <2>2, <2>3 DEF FetchAdd
<1>6. ASSUME NEW t \in Threads, Spin(t) PROVE TypeOK'
  BY <1>6 DEF Spin
<1>7. ASSUME NEW t \in Threads, Access(t) PROVE TypeOK'
  <2>1. t \in Producers => Elem(t) \in Value
    BY <1>7, ElemInValue DEF Access, TicketInv
  <2>2. pos[t] \in Nat /\ Idx(pos[t]) \in Slots
    BY IdxType
  <2>3. ASSUME t \in Consumers PROVE data[Idx(pos[t])] \in Value
    <3>1. t \notin Producers
      BY <2>3, MpmcAssumption
    <3>2. turn[Idx(pos[t])] = ConsTurn(pos[t])
      BY <1>7, <3>1, IdxType, SMTT(60) DEF Access, TicketInv, Holding, Claimed, MyTurn
    <3>3. pos[t] < Len(log) /\ data[Idx(pos[t])] = log[pos[t] + 1]
      BY <2>2, <3>2 DEF DataInv, TicketInv
    <3> QED  BY <2>2, <3>3, SMTT(60)
  <2> QED  BY <1>7, <2>1, <2>2, <2>3, ZenonT(30) DEF Access
<1>8. ASSUME NEW t \in Threads, Release(t) PROVE TypeOK'
  <2>1. Idx(pos[t]) \in Slots /\ MyTurn(t) \in Nat
    BY IdxType DEF MyTurn
  <2> QED  BY <1>8, <2>1, SMTT(60) DEF Release
<1>9. CASE UNCHANGED vars
  BY <1>9, SMTT(60) DEF vars
<1> QED
  BY <1>1, <1>2, <1>3, <1>4, <1>5, <1>6, <1>7, <1>8, <1>9, SMTT(60) DEF Next, Step
(* Claims, turns and tickets go on agreeing.                               *)
LEMMA StepTicket == Inv /\ [Next]_vars => TicketInv(Nat)'
<1> SUFFICES ASSUME Inv, [Next]_vars PROVE TicketInv(Nat)'
  OBVIOUS
<1>0. TypeOK'
  BY StepType
<1> USE DEF Inv, TypeOK, TicketInv, Goto, Claimed, Holding, Counter, MyTurn
<1>1. ASSUME NEW t \in Threads, Load(t) PROVE TicketInv(Nat)'
  BY <1>1, SMTT(60) DEF Load
<1>2. ASSUME NEW t \in Threads, Check(t) PROVE TicketInv(Nat)'
  BY <1>2, IdxType, SMTT(60) DEF Check, SlotOpen
<1>3. ASSUME NEW t \in Threads, Recheck(t) PROVE TicketInv(Nat)'
  BY <1>3, SMTT(60) DEF Recheck
<1>4. ASSUME NEW t \in Threads, Cas(t) PROVE TicketInv(Nat)'
  <2>1. CASE Counter(t) # pos[t]
    <3>1. /\ pc' = [pc EXCEPT ![t] = "check"]
          /\ pos' = [pos EXCEPT ![t] = Counter(t)]
          /\ UNCHANGED <<head, tail, turn, ops, log>>
      BY <1>4, <2>1 DEF Cas
    <3> QED  BY <1>4, <3>1, SMTT(60) DEF Cas
  <2>2. CASE Counter(t) = pos[t]
    <3>1. Claim(t) /\ ops[t] < MaxOps /\ UNCHANGED <<turn, pos, ops>>
      BY <1>4, <2>2 DEF Cas
    <3>2. /\ head' \in Nat /\ tail' \in Nat /\ head' = Len(log')
          /\ t \in Producers => head' = head + 1 /\ tail' = tail
          /\ t \notin Producers => head' = head /\ tail' = tail + 1
      BY <3>1, ClaimStep
    <3>3. pc' = [pc EXCEPT ![t] = "access"]
      BY <1>4, <2>2 DEF Cas
    <3>4. turn[Idx(pos[t])] = MyTurn(t)
      BY <1>4, <2>2, IdxType, SMTT(60) DEF Cas
    <3> QED  BY <2>2, <3>1, <3>2, <3>3, <3>4, IdxType, SMTT(60)
  <2> QED  BY <2>1, <2>2
<1>5. ASSUME NEW t \in Threads, FetchAdd(t) PROVE TicketInv(Nat)'
  <2>1. Claim(t) /\ ops[t] < MaxOps /\ UNCHANGED <<turn, ops>>
    BY <1>5 DEF FetchAdd
  <2>2. /\ head' \in Nat /\ tail' \in Nat /\ head' = Len(log')
        /\ t \in Producers => head' = head + 1 /\ tail' = tail
        /\ t \notin Producers => head' = head /\ tail' = tail + 1
    BY <2>1, ClaimStep
  <2>3. /\ pc' = [pc EXCEPT ![t] = "spin"]
        /\ pos' = [pos EXCEPT ![t] = Counter(t)]
    BY <1>5 DEF FetchAdd
  <2>4. turn[Idx(Counter(t))] <= IF t \in Producers THEN ProdTurn(Counter(t))
                                 ELSE ConsTurn(Counter(t))
    BY SMTT(60)
  <2> QED  BY <2>1, <2>2, <2>3, <2>4, SMTT(60)
<1>6. ASSUME NEW t \in Threads, Spin(t) PROVE TicketInv(Nat)'
  BY <1>6, IdxType, SMTT(60) DEF Spin, SlotOpen
<1>7. ASSUME NEW t \in Threads, Access(t) PROVE TicketInv(Nat)'
  BY <1>7, SMTT(60) DEF Access
<1>8. ASSUME NEW t \in Threads, Release(t) PROVE TicketInv(Nat)'
  <2> DEFINE s == Idx(pos[t])
  <2>1. /\ s \in Slots /\ MyTurn(t) \in Nat /\ turn[s] = MyTurn(t)
        /\ turn' = [turn EXCEPT ![s] = MyTurn(t) + 1]
        /\ UNCHANGED <<head, tail, pos, log>>
    BY <1>8, IdxType, SMTT(60) DEF Release
  <2>2. ASSUME NEW i \in Nat, i >= head PROVE turn'[Idx(i)] <= ProdTurn(i)
    <3>1. Idx(i) \in Slots /\ ProdTurn(i) \in Nat /\ turn[Idx(i)] <= ProdTurn(i)
      BY <2>2, IdxType
    <3>2. Idx(i) = s => MyTurn(t) # ProdTurn(i)
      BY <1>8, <2>2, TicketOfTurn, SMTT(60) DEF Release
    <3> HIDE DEF MyTurn
    <3> QED  BY <2>1, <3>1, <3>2, SMTT(60)
  <2>3. ASSUME NEW i \in Nat, i >= tail PROVE turn'[Idx(i)] <= ConsTurn(i)
    <3>1. Idx(i) \in Slots /\ ConsTurn(i) \in Nat /\ turn[Idx(i)] <= ConsTurn(i)
      BY <2>3, IdxType
    <3>2. Idx(i) = s => MyTurn(t) # ConsTurn(i)
      BY <1>8, <2>3, TicketOfTurn, SMTT(60) DEF Release
    <3> HIDE DEF MyTurn
    <3> QED  BY <2>1, <3>1, <3>2, SMTT(60)
  <2>4. ASSUME NEW u \in Threads, Claimed(u)' PROVE turn'[Idx(pos'[u])] <= MyTurn(u)'
    <3>1. u # t /\ Claimed(u) /\ MyTurn(u)' = MyTurn(u) /\ pos'[u] = pos[u]
      BY <1>8, <2>4 DEF Release
    <3>2. s = Idx(pos[u]) => MyTurn(t) # MyTurn(u)
      BY <1>8, <3>1, TicketOfTurn DEF Release
    <3>3. MyTurn(u) \in Nat /\ turn[Idx(pos[u])] <= MyTurn(u)
      BY <3>1, IdxType
    <3> HIDE DEF MyTurn
    <3> QED  BY <2>1, <3>1, <3>2, <3>3, SMTT(60)
  <2>5. ASSUME NEW u \in Threads, Holding(u)' \/ pc'[u] = "cas"
        PROVE  turn'[Idx(pos'[u])] >= MyTurn(u)'
    <3>1. (Holding(u) \/ pc[u] = "cas") /\ MyTurn(u)' = MyTurn(u) /\ pos'[u] = pos[u]
      BY <1>8, <2>5 DEF Release
    <3>2. MyTurn(u) \in Nat /\ turn[Idx(pos[u])] >= MyTurn(u) /\ Idx(pos[u]) \in Slots
      BY <3>1, IdxType
    <3> HIDE DEF MyTurn
    <3> QED  BY <2>1, <3>1, <3>2, SMTT(60)
  <2> QED  BY <1>8, <2>1, <2>2, <2>3, <2>4, <2>5, SMTT(60) DEF Release
<1>9. CASE UNCHANGED vars
  BY <1>9 DEF vars
<1> QED
  BY <1>1, <1>2, <1>3, <1>4, <1>5, <1>6, <1>7, <1>8, <1>9 DEF Next, Step
(* Two threads that hold slots hold different ones.                        *)
LEMMA HoldersApart == Inv => SlotExclusive
<1> SUFFICES ASSUME Inv, NEW t \in Threads, NEW u \in Threads, t # u,
                    Holding(t), Holding(u), Idx(pos[t]) = Idx(pos[u])
             PROVE  FALSE
  BY DEF SlotExclusive
<1>1. MyTurn(t) = MyTurn(u)
  BY IdxType, SMTT(60) DEF Inv, TypeOK, TicketInv, Holding, Claimed, MyTurn
<1>2. (t \in Producers <=> u \in Producers) /\ pos[t] = pos[u]
  BY <1>1, TicketOfTurn DEF Inv, TypeOK, MyTurn
<1> QED  BY <1>2 DEF Inv, TicketInv, Holding, Claimed

(* A published slot keeps the element of its ticket.                       *)
LEMMA StepData == Inv /\ [Next]_vars => DataInv(Nat)'
<1> SUFFICES ASSUME Inv, [Next]_vars PROVE DataInv(Nat)'
  OBVIOUS
<1>0. TypeOK' /\ Producers \subseteq Threads /\ Consumers \subseteq Threads
  BY StepType DEF Threads
<1>a. \A t \in Threads : t \in Consumers <=> t \notin Producers
  BY MpmcAssumption DEF Threads
<1> USE DEF Inv, TypeOK, DataInv, Goto, Claimed, Elem
<1>1. ASSUME NEW t \in Threads, Load(t) PROVE DataInv(Nat)'
  BY <1>0, <1>1, ZenonT(30) DEF Load
<1>2. ASSUME NEW t \in Threads, Check(t) PROVE DataInv(Nat)'
  BY <1>0, <1>2, ZenonT(30) DEF Check
<1>3. ASSUME NEW t \in Threads, Recheck(t) PROVE DataInv(Nat)'
  BY <1>0, <1>3, ZenonT(30) DEF Recheck
<1>b. ASSUME NEW t \in Threads, Claim(t), ops[t] < MaxOps, ~ Claimed(t),
             pos'[t] = Counter(t), Claimed(t)', pc'[t] # "release",
             \A u \in Threads : u # t => pos'[u] = pos[u] /\ pc'[u] = pc[u],
             UNCHANGED <<turn, data, ops, got>>
      PROVE  DataInv(Nat)'
  <2>1. /\ head' \in Nat /\ tail' \in Nat
        /\ \A i \in Nat : i < head => log'[i + 1] = log[i + 1]
        /\ t \in Producers => head' = head + 1 /\ tail' = tail /\ log'[head + 1] = Elem(t)
        /\ t \notin Producers => head' = head /\ tail' = tail + 1 /\ log' = log
    BY <1>b, ClaimStep, ZenonT(30) DEF Inv
  <2>2. ASSUME NEW p \in Producers, Claimed(p)'
        PROVE  /\ log'[pos'[p] + 1] = Elem(p)'
               /\ pc'[p] = "release" => data'[Idx(pos'[p])] = Elem(p)'
    <3>1. Elem(p)' = Elem(p) /\ p \in Threads
      BY <1>0, <1>b
    <3> HIDE DEF Elem
    <3>2. CASE p = t
      BY <1>b, <2>1, <3>1, <3>2 DEF Counter
    <3>3. CASE p # t
      <4>1. Claimed(p) /\ pos'[p] = pos[p] /\ pc'[p] = pc[p] /\ data' = data
        BY <1>b, <2>2, <3>1, <3>3
      <4>2. pos[p] \in Nat /\ pos[p] < head
        BY <3>1, <4>1 DEF TicketInv, Counter
      <4>3. log[pos[p] + 1] = Elem(p) /\ (pc[p] = "release" => data[Idx(pos[p])] = Elem(p))
        BY <4>1
      <4> QED  BY <2>1, <3>1, <4>1, <4>2, <4>3
    <3> QED  BY <3>2, <3>3
  <2>3. ASSUME NEW c \in Consumers
        PROVE  /\ pc'[c] \in {"spin", "access"} => pos'[c] \notin DOMAIN got'
               /\ pc'[c] = "release" => pos'[c] \in DOMAIN got'
    <3>1. CASE c = t
      <4>1. pos'[c] = tail
        BY <1>0, <1>a, <1>b, <3>1 DEF Counter
      <4> QED  BY <1>b, <3>1, <4>1, SMTT(60)
    <3>2. CASE c # t
      BY <1>0, <1>b, <3>2
    <3> QED  BY <3>1, <3>2
  <2>4. ASSUME NEW i \in DOMAIN got'
        PROVE  i < tail' /\ i < head' /\ got'[i] = log'[i + 1]
    BY <1>b, <2>1, SMTT(60)
  <2>5. ASSUME NEW i \in Nat
        PROVE  /\ turn'[Idx(i)] = ConsTurn(i) => i < head' /\ data'[Idx(i)] = log'[i + 1]
               /\ turn'[Idx(i)] > ConsTurn(i) => i \in DOMAIN got'
    BY <1>b, <2>1, SMTT(60)
  <2> QED  BY <2>2, <2>3, <2>4, <2>5, ZenonT(30)
<1>4. ASSUME NEW t \in Threads, Cas(t) PROVE DataInv(Nat)'
  <2>1. CASE Counter(t) # pos[t]
    <3>1. /\ pc' = [pc EXCEPT ![t] = "check"] /\ pos' = [pos EXCEPT ![t] = Counter(t)]
          /\ pc[t] = "cas"
          /\ UNCHANGED <<head, tail, turn, data, ops, log, got>>
      BY <1>4, <2>1 DEF Cas
    <3> QED  BY <1>0, <3>1, ZenonT(30)
  <2>2. CASE Counter(t) = pos[t]
    BY <1>4, <1>b, <2>2, ZenonT(30) DEF Cas, TicketInv
  <2> QED  BY <2>1, <2>2, ZenonT(30)
<1>5. ASSUME NEW t \in Threads, FetchAdd(t) PROVE DataInv(Nat)'
  BY <1>5, <1>b, ZenonT(30) DEF FetchAdd
<1>6. ASSUME NEW t \in Threads, Spin(t) PROVE DataInv(Nat)'
  BY <1>0, <1>6, ZenonT(30) DEF Spin
<1>7. ASSUME NEW t \in Threads, Access(t) PROVE DataInv(Nat)'
  <2> DEFINE s == Idx(pos[t])
  <2>1. /\ s \in Slots /\ turn[s] = MyTurn(t)
        /\ pc' = [pc EXCEPT ![t] = "release"]
        /\ UNCHANGED <<head, tail, turn, pos, ops, log>>
    BY <1>7, IdxType, SMTT(60) DEF Access, TicketInv, Holding, MyTurn
  <2>2. CASE t \in Producers
    <3>1. data' = [data EXCEPT ![s] = Elem(t)] /\ got' = got
      BY <1>7, <1>a, <2>2 DEF Access
    <3>2. \A i \in Nat : Idx(i) = s => turn[Idx(i)] # ConsTurn(i)
      BY <2>1, <2>2, TicketOfTurn DEF MyTurn
    <3>3. \A p \in Producers : p # t /\ pc[p] = "release" => Idx(pos[p]) # s
      BY <1>0, <1>7, HoldersApart, ZenonT(30) DEF SlotExclusive, Holding, Access
    <3>4. \A i \in Nat : Idx(i) \in Slots
      BY IdxType
    <3>5. ASSUME NEW p \in Producers, Claimed(p)'
          PROVE  /\ log'[pos'[p] + 1] = Elem(p)'
                 /\ pc'[p] = "release" => data'[Idx(pos'[p])] = Elem(p)'
      <4>1. /\ Elem(p)' = Elem(p) /\ p \in Threads /\ Claimed(p)
            /\ p # t => pc'[p] = pc[p]
        BY <1>0, <1>7, <2>1, <3>5 DEF Access
      <4>2. log[pos[p] + 1] = Elem(p) /\ (pc[p] = "release" => data[Idx(pos[p])] = Elem(p))
        BY <4>1, ZenonT(30)
      <4> HIDE DEF Elem
      <4> QED  BY <2>1, <3>1, <3>3, <3>4, <4>1, <4>2, ZenonT(30)
    <3>6. ASSUME NEW i \in Nat, turn'[Idx(i)] = ConsTurn(i)
          PROVE  i < head' /\ data'[Idx(i)] = log'[i + 1]
      BY <2>1, <3>1, <3>2, <3>4, <3>6
    <3>7. ASSUME NEW c \in Consumers PROVE pc'[c] = pc[c] /\ pos'[c] = pos[c]
      BY <1>0, <1>a, <2>1, <2>2, SMTT(60)
    <3> HIDE DEF Elem
    <3> QED  BY <2>1, <3>1, <3>5, <3>6, <3>7
  <2>3. CASE t \in Consumers
    <3>1. /\ data' = data /\ t \notin Producers
          /\ got' = [u \in DOMAIN got \cup {pos[t]} |-> IF u = pos[t] THEN data[s] ELSE got[u]]
      BY <1>0, <1>7, <1>a, <2>3 DEF Access
    <3>2. pos[t] \in Nat /\ pos[t] < head /\ pos[t] < tail /\ data[s] = log[pos[t] + 1]
      BY <1>7, <2>1, <3>1 DEF MyTurn, TicketInv, Access, Counter
    <3>3. ASSUME NEW i \in DOMAIN got'
          PROVE  i < tail' /\ i < head' /\ got'[i] = log'[i + 1]
      BY <2>1, <3>1, <3>2, <3>3
    <3>4. ASSUME NEW c \in Consumers
          PROVE  /\ pc'[c] \in {"spin", "access"} => pos'[c] \notin DOMAIN got'
                 /\ pc'[c] = "release" => pos'[c] \in DOMAIN got'
      BY <1>0, <1>7, <1>a, <2>1, <2>3, <3>1, SMTT(60) DEF Access, TicketInv
    <3>5. ASSUME NEW p \in Producers
          PROVE  pc'[p] = pc[p] /\ pos'[p] = pos[p] /\ Elem(p)' = Elem(p)
      BY <1>0, <2>1, <3>1
    <3>6. data' = data /\ DOMAIN got \subseteq DOMAIN got'
      BY <3>1
    <3> HIDE DEF Elem
    <3> QED  BY <2>1, <3>3, <3>4, <3>5, <3>6, SMTT(60)
  <2> QED  BY <1>a, <2>2, <2>3, ZenonT(30)
<1>8. ASSUME NEW t \in Threads, Release(t) PROVE DataInv(Nat)'
  <2> DEFINE s == Idx(pos[t])
  <2>1. /\ s \in Slots /\ turn[s] = MyTurn(t) /\ MyTurn(t) \in Nat
        /\ turn' = [turn EXCEPT ![s] = MyTurn(t) + 1]
        /\ pc' = [pc EXCEPT ![t] = "idle"] /\ ops' = [ops EXCEPT ![t] = @ + 1]
        /\ UNCHANGED <<head, tail, data, pos, log, got>>
    BY <1>8, IdxType, SMTT(60) DEF Release, TicketInv, Holding, MyTurn
  <2>2. ASSUME NEW i \in Nat, turn'[Idx(i)] = ConsTurn(i)
        PROVE  i < head /\ data[Idx(i)] = log[i + 1]
    <3>1. CASE Idx(i) = s
      <4>1. t \in Producers /\ i = pos[t]
        BY <1>8, <2>1, <2>2, <3>1, IdxType, TicketOfTurn DEF MyTurn
      <4>2. pc[t] = "release"
        BY <1>8 DEF Release
      <4>3. log[pos[t] + 1] = Elem(t) /\ data[Idx(pos[t])] = Elem(t)
        BY <4>1, <4>2, Zenon
      <4>4. pos[t] < head
        BY <4>1, <4>2 DEF TicketInv, Counter
      <4> QED  BY <4>1, <4>3, <4>4
    <3>2. CASE Idx(i) # s
      BY <2>1, <2>2, <3>2, IdxType
    <3> QED  BY <3>1, <3>2
  <2>3. ASSUME NEW i \in Nat, turn'[Idx(i)] > ConsTurn(i)
        PROVE  i \in DOMAIN got
    <3>1. CASE Idx(i) = s /\ MyTurn(t) = ConsTurn(i)
      <4>1. t \in Consumers /\ i = pos[t]
        BY <1>a, <2>1, <3>1, TicketOfTurn DEF MyTurn
      <4> QED  BY <1>8, <4>1 DEF Release
    <3>2. CASE ~ (Idx(i) = s /\ MyTurn(t) = ConsTurn(i))
      <4>1. Idx(i) \in Slots /\ ConsTurn(i) \in Nat
        BY IdxType
      <4> HIDE DEF MyTurn
      <4>2. turn[Idx(i)] > ConsTurn(i)
        BY <2>1, <2>3, <3>2, <4>1, SMTT(60)
      <4> QED  BY <4>2
    <3> QED  BY <3>1, <3>2
  <2>4. ASSUME NEW p \in Producers, Claimed(p)'
        PROVE  /\ log'[pos'[p] + 1] = Elem(p)'
               /\ pc'[p] = "release" => data'[Idx(pos'[p])] = Elem(p)'
    BY <1>0, <2>1, <2>4, ZenonT(30)
  <2> QED  BY <1>0, <2>1, <2>2, <2>3, <2>4, ZenonT(30)
<1>9. CASE UNCHANGED vars
  BY <1>9, ZenonT(30) DEF vars
<1> QED
  BY <1>1, <1>2, <1>3, <1>4, <1>5, <1>6, <1>7, <1>8, <1>9, ZenonT(30) DEF Next, Step
-----------------------------------------------------------------------------
(* The inductive invariant holds throughout.                               *)
LEMMA Invariance == Spec => []Inv
<1>1. Inv /\ [Next]_vars => Inv'
  BY StepType, StepTicket, StepData DEF Inv
<1> QED  BY InitInv, <1>1, PTL DEF Spec

(* Type correctness of the queue, for all thread sets, sizes and bounds. *)
THEOREM TypeCorrect == Spec => []TypeOK
<1>1. Inv => TypeOK
  BY DEF Inv
<1> QED  BY <1>1, Invariance, PTL

(* The counters, turns and slots keep to the tickets in every reachable    *)
(* state: TLC checks this invariant for the tickets a small instance hands *)
(* out, the induction runs over all of them.                               *)
THEOREM TicketsKept == Spec => []IndInv
<1>1. Inv => IndInv
  <2> SUFFICES ASSUME Inv PROVE IndInv
    OBVIOUS
  <2> DEFINE N == MaxOps * Cardinality(Threads) + Size
             T == 0 .. N
  <2>1. Cardinality(Threads) \in Nat
    BY FiniteThreads, FS_Union, FS_CardinalityType DEF Threads
  <2>2. N \in Nat
    BY <2>1, MpmcAssumption, Z3T(30)
  <2>3. T \subseteq Nat
    BY <2>2, SMTT(60)
  <2> HIDE DEF T
  <2>4. TicketInv(T)
    BY <2>3, Zenon DEF Inv, TicketInv
  <2>5. DataInv(T)
    BY <2>3, Zenon DEF Inv, DataInv
  <2> QED  BY <2>4, <2>5 DEF IndInv, Inv, T
<1> QED  BY <1>1, Invariance, PTL

(* No two threads ever access the data of one slot at the same time. *)
THEOREM NoDataRace == Spec => []SlotExclusive
  BY Invariance, HoldersApart, PTL

(* ENQ reports "full" and DEQ reports "empty" only when that was so. *)
THEOREM RefusalIsHonest == Spec => HonestRefusal
<1>1. ASSUME Inv, [Next]_vars, NEW t \in Threads,
             pc[t] = "check", pc'[t] = "recheck", pos[t] = Counter(t)
      PROVE  IF t \in Producers
             THEN /\ pos[t] >= Size
                  /\ turn[Idx(pos[t])] <= ConsTurn(pos[t] - Size)
             ELSE turn[Idx(pos[t])] < ConsTurn(pos[t])
  <2>1. turn[Idx(pos[t])] # MyTurn(t)
    <3>1. ~ UNCHANGED vars
      BY <1>1 DEF vars
    <3>2. PICK u \in Threads : Step(u)
      BY <1>1, <3>1 DEF Next
    <3>3. u = t /\ Check(u)
      BY <1>1, <3>2 DEF Step, Load, Check, Recheck, Cas, FetchAdd, Spin, Access,
                        Release, Goto, Inv, TypeOK
    <3> QED  BY <1>1, <3>3 DEF Check, SlotOpen, Goto, Inv, TypeOK
  <2>2. /\ pos[t] \in Nat /\ turn[Idx(pos[t])] \in Nat
        /\ ProdTurn(pos[t]) \in Nat /\ ConsTurn(pos[t]) = ProdTurn(pos[t]) + 1
    BY IdxType, <1>1, SMTT(60) DEF Inv, TypeOK
  <2>3. turn[Idx(pos[t])] < MyTurn(t)
    BY <1>1, <2>1, <2>2, SMTT(60) DEF Inv, TicketInv, Counter, MyTurn
  <2>4. CASE t \in Producers
    <3>1. pos[t] >= Size
      BY <2>2, <2>3, <2>4, FirstRound, MpmcAssumption, SMTT(60) DEF MyTurn
    <3>2. ProdTurn(pos[t]) = ProdTurn(pos[t] - Size) + 2 /\ pos[t] - Size \in Nat
      BY <2>2, <3>1, OneRoundBack
    <3>3. ConsTurn(pos[t] - Size) = ProdTurn(pos[t] - Size) + 1
          /\ ProdTurn(pos[t] - Size) \in Nat
      BY <3>2, IdxType
    <3> QED  BY <2>2, <2>3, <2>4, <3>1, <3>2, <3>3, SMTT(60) DEF MyTurn
  <2> QED  BY <2>3, <2>4 DEF MyTurn
<1>2. Inv /\ [Next]_vars =>
      [\A t \in Threads :
         pc[t] = "check" /\ pc'[t] = "recheck" /\ pos[t] = Counter(t) =>
           IF t \in Producers
           THEN /\ pos[t] >= Size
                /\ turn[Idx(pos[t])] <= ConsTurn(pos[t] - Size)
           ELSE turn[Idx(pos[t])] < ConsTurn(pos[t])]_vars
  BY <1>1
<1> QED  BY <1>2, Invariance, PTL DEF Spec, HonestRefusal
-----------------------------------------------------------------------------
Ready == {i \in 0 .. head - 1 : turn[Idx(i)] > ProdTurn(i)}

(* A step is one of the abstract FIFO, or invisible to it.                 *)
LEMMA StepImplements == Inv /\ [Next]_vars => [Fifo!Next]_Fifo!fifo
<1> SUFFICES ASSUME Inv, [Next]_vars PROVE [Fifo!Next]_Fifo!fifo
  OBVIOUS
<1>0. ASSUME UNCHANGED <<log, got>>, Ready' = Ready PROVE [Fifo!Next]_Fifo!fifo
  BY <1>0 DEF Fifo!fifo, Ready
<1>a. Inv'
  BY StepType, StepTicket, StepData DEF Inv
<1>t. \A t \in Threads : t \in Consumers <=> t \notin Producers
  BY MpmcAssumption DEF Threads
<1>b. ASSUME NEW t \in Threads, Claim(t), ops[t] < MaxOps, UNCHANGED <<turn, got>>
      PROVE  [Fifo!Next]_Fifo!fifo
  <2>1. CASE t \in Producers
    <3>1. head \in Nat /\ head' = head + 1 /\ log' = Append(log, Elem(t))
      BY <1>b, <2>1 DEF Claim, Inv, TypeOK
    <3>2. turn[Idx(head)] <= ProdTurn(head) /\ turn[Idx(head)] \in Nat /\ ProdTurn(head) \in Nat
      BY <3>1, IdxType, SMTT(60) DEF Inv, TypeOK, TicketInv
    <3>3. Ready' = Ready
      BY <1>b, <3>1, <3>2, SMTT(60) DEF Ready
    <3>4. Elem(t) \in Value
      BY <1>b, <2>1, ElemInValue DEF Inv, TypeOK
    <3>5. Fifo!Accept(Elem(t))
      BY <1>b, <3>1, <3>3 DEF Fifo!Accept, Ready
    <3> QED  BY <3>4, <3>5 DEF Fifo!Next
  <2>2. CASE t \notin Producers
    BY <1>0, <1>b, <2>2 DEF Claim, Ready
  <2> QED  BY <2>1, <2>2
<1>1. ASSUME NEW t \in Threads, Load(t) \/ Check(t) \/ Recheck(t) \/ Spin(t)
      PROVE [Fifo!Next]_Fifo!fifo
  BY <1>0, <1>1 DEF Load, Check, Recheck, Spin, Ready
<1>2. ASSUME NEW t \in Threads, Cas(t) PROVE [Fifo!Next]_Fifo!fifo
  <2>1. CASE Counter(t) # pos[t]
    BY <1>0, <1>2, <2>1, SMTT(60) DEF Cas, Ready
  <2>2. CASE Counter(t) = pos[t]
    BY <1>2, <1>b, <2>2 DEF Cas, Inv, TicketInv
  <2> QED  BY <2>1, <2>2
<1>3. ASSUME NEW t \in Threads, FetchAdd(t) PROVE [Fifo!Next]_Fifo!fifo
  BY <1>3, <1>b DEF FetchAdd
<1>4. ASSUME NEW t \in Threads, Access(t) PROVE [Fifo!Next]_Fifo!fifo
  <2>1. CASE t \in Producers
    BY <1>0, <1>4, <1>t, <2>1 DEF Access, Ready
  <2>2. CASE t \in Consumers
    <3>1. /\ UNCHANGED <<head, turn, log>> /\ t \notin Producers
          /\ got' = [u \in DOMAIN got \cup {pos[t]} |->
                       IF u = pos[t] THEN data[Idx(pos[t])] ELSE got[u]]
      BY <1>4, <1>t, <2>2 DEF Access
    <3>2. /\ pos[t] \in Nat /\ pos[t] \notin DOMAIN got
          /\ turn[Idx(pos[t])] = ConsTurn(pos[t])
      BY <1>4, <2>2, <3>1, IdxType, SMTT(60)
         DEF Access, Inv, TypeOK, TicketInv, DataInv, MyTurn, Holding, Claimed
    <3>3. /\ pos[t] < head /\ head = Len(log) /\ head \in Nat
          /\ data[Idx(pos[t])] = log[pos[t] + 1]
      BY <3>2, SMTT(60) DEF Inv, TypeOK, TicketInv, DataInv
    <3>4. pos[t] \in Ready /\ Ready' = Ready
      <4>1. UNCHANGED <<head, turn>>
        BY <3>1
      <4>2. turn[Idx(pos[t])] > ProdTurn(pos[t])
        BY <3>2, IdxType, SMTT(60)
      <4>3. pos[t] \in 0 .. head - 1
        BY <3>2, <3>3, SMTT(60)
      <4> QED  BY <4>1, <4>2, <4>3 DEF Ready
    <3>5. Fifo!Deliver(pos[t])
      BY <3>1, <3>2, <3>3, <3>4 DEF Fifo!Deliver, Ready
    <3> QED  BY <3>2, <3>3, <3>5, SMTT(60) DEF Fifo!Next
  <2> QED  BY <1>t, <2>1, <2>2
<1>5. ASSUME NEW t \in Threads, Release(t) PROVE [Fifo!Next]_Fifo!fifo
  <2> DEFINE s == Idx(pos[t])
  <2>1. /\ s \in Slots /\ turn[s] = MyTurn(t) /\ MyTurn(t) \in Nat
        /\ turn' = [turn EXCEPT ![s] = MyTurn(t) + 1]
        /\ pos[t] \in Nat /\ UNCHANGED <<head, log, got>>
        /\ turn \in [Slots -> Nat] /\ head \in Nat
    BY <1>5, IdxType, SMTT(60) DEF Release, Inv, TypeOK, TicketInv, Holding, Claimed, MyTurn
  <2>2. ASSUME NEW i \in Nat, ~ (Idx(i) = s /\ ProdTurn(i) = MyTurn(t))
        PROVE  turn'[Idx(i)] > ProdTurn(i) <=> turn[Idx(i)] > ProdTurn(i)
    <3>1. Idx(i) \in Slots /\ ProdTurn(i) \in Nat
      BY IdxType
    <3> QED  BY <2>1, <2>2, <3>1, SMTT(60)
  <2>3. CASE t \in Producers
    <3>1. MyTurn(t) = ProdTurn(pos[t])
      BY <2>3 DEF MyTurn
    <3>2. \A i \in Nat : Idx(i) = s /\ ProdTurn(i) = MyTurn(t) <=> i = pos[t]
      BY <2>1, <3>1, TicketOfTurn, SMTT(60)
    <3>3. pos[t] < head /\ head = Len(log)
      BY <1>5, <2>3 DEF Release, Inv, TicketInv, Claimed, Counter
    <3>4. pos[t] \notin Ready /\ turn'[s] > ProdTurn(pos[t])
      BY <2>1, <3>1, SMTT(60) DEF Ready
    <3>5. Ready' = Ready \cup {pos[t]}
      BY <2>1, <2>2, <3>2, <3>3, <3>4, SMTT(60) DEF Ready
    <3>6. ASSUME pos[t] >= Size PROVE pos[t] - Size \in DOMAIN got
      <4>1. /\ pos[t] - Size \in Nat /\ Idx(pos[t] - Size) = s
            /\ ProdTurn(pos[t]) = ProdTurn(pos[t] - Size) + 2
        BY <2>1, <3>6, OneRoundBack
      <4>2. /\ ConsTurn(pos[t] - Size) = ProdTurn(pos[t] - Size) + 1
            /\ ProdTurn(pos[t] - Size) \in Nat
        BY <4>1, IdxType
      <4> HIDE DEF s
      <4>3. turn[Idx(pos[t] - Size)] > ConsTurn(pos[t] - Size)
        BY <2>1, <3>1, <4>1, <4>2, SMTT(60)
      <4> QED  BY <4>1, <4>3 DEF Inv, DataInv
    <3>7. Fifo!Publish(pos[t])
      BY <2>1, <3>3, <3>4, <3>5, <3>6 DEF Fifo!Publish, Ready
    <3> QED  BY <2>1, <3>3, <3>7, SMTT(60) DEF Fifo!Next
  <2>4. CASE t \notin Producers
    <3>1. \A i \in Nat : ProdTurn(i) # MyTurn(t)
      BY <2>1, <2>4, TicketOfTurn DEF MyTurn
    <3>2. Ready' = Ready
      BY <2>1, <2>2, <3>1, SMTT(60) DEF Ready
    <3> QED  BY <1>0, <2>1, <3>2
  <2> QED  BY <2>3, <2>4
<1>6. CASE UNCHANGED vars
  BY <1>0, <1>6 DEF vars, Ready
<1> QED
  BY <1>1, <1>2, <1>3, <1>4, <1>5, <1>6 DEF Next, Step

(* The queue implements the ticketed FIFO: elements leave exactly once, in *)
(* the order in which the queue accepted them, within the capacity.        *)
THEOREM ImplementsFifo == Spec => FifoSpec
<1>1. Init => Fifo!Init
  BY SMTT(60) DEF Init, Fifo!Init
<1> QED  BY <1>1, Invariance, StepImplements, PTL DEF Spec, FifoSpec, Fifo!Spec
=============================================================================
