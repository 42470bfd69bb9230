---------------------------- MODULE ThreadProofs ----------------------------
(***************************************************************************)
(* Proofs about the thread primitives of MCThreads: what they promise, for *)
(* any number of threads, counts, keys and calls.                          *)
(***************************************************************************)
EXTENDS MCThreads, FiniteSetTheorems, TLAPS

(* A leaf goes to Zenon first, and to the SMT solver when Zenon does not   *)
(* find its proof.                                                         *)
USE ZenonT(20), SMTT(60)

(* An interval that grows has room for what lies past the smaller one.     *)
LEMMA Longer ==
  ASSUME NEW n \in Nat, NEW z \in Nat, NEW k \in Nat, z > n, z > k, k >= n
  PROVE  0 .. n - 1 \subseteq 0 .. z - 1 /\ k \in 0 .. z - 1 /\ k \notin 0 .. n - 1
  BY SMTT(60)

(* A step of the harness is a step of each part, or none of it. *)
LEMMA PartSteps ==
  [Next]_vars => /\ [OnceNext]_onceVars /\ [BarNext]_barVars /\ [RwNext]_rwVars /\ [MxNext]_mxVars
                 /\ [ThrNext]_thrVars /\ [KeyNext]_keyVars /\ [AttrNext]_attrVars
                 /\ [SemNext]_semVars
<1>1. CASE Next
  BY <1>1 DEF Next, Others
<1>2. CASE UNCHANGED vars
  BY <1>2 DEF vars
<1> QED  BY <1>1, <1>2
-----------------------------------------------------------------------------
(* pthread_once *)
Onces == {"user", "tls"}
Inside(t) == opc[t] \in {"func", "mark"}

(* The word of an object is 2 exactly while one thread is inside; its      *)
(* function has run when the word is 1 or that thread is past it.          *)
OnceInv ==
  /\ o \in [Onces -> 0 .. 2] /\ ran \in [Onces -> 0 .. 1] /\ self \subseteq OnceThreads
  /\ opc \in [OnceThreads -> {"out", "load", "cas", "func", "mark", "ret", "gone"}]
  /\ obj \in [OnceThreads -> Onces]
  /\ \A t \in OnceThreads :
       /\ Inside(t) => o[obj[t]] = 2
       /\ opc[t] = "func" => ran[obj[t]] = 0
       /\ opc[t] = "mark" => ran[obj[t]] = 1
       /\ opc[t] = "ret" => o[obj[t]] = 1
  /\ \A t, u \in OnceThreads : Inside(t) /\ Inside(u) /\ obj[t] = obj[u] => t = u
  /\ \A x \in Onces : /\ o[x] = 1 => ran[x] = 1
                      /\ ran[x] = 1 => o[x] # 0
  /\ self # {} => o["tls"] = 1

(* Every step keeps it. *)
LEMMA OnceStepKeeps == OnceInv /\ [OnceNext]_onceVars => OnceInv'
<1> SUFFICES ASSUME OnceInv, [OnceNext]_onceVars PROVE OnceInv'
  OBVIOUS
<1> USE DEF OnceInv, Inside, Onces, OGoto
<1>1. ASSUME NEW t \in OnceThreads, OnceCall(t) PROVE OnceInv'
  BY <1>1, SMTT(60) DEF OnceCall
<1>2. ASSUME NEW t \in OnceThreads, LoadState(t) PROVE OnceInv'
  BY <1>2, SMTT(60) DEF LoadState
<1>3. ASSUME NEW t \in OnceThreads, Take(t) PROVE OnceInv'
  BY <1>3, SMTT(60) DEF Take
<1>4. ASSUME NEW t \in OnceThreads, FuncReturns(t) PROVE OnceInv'
  BY <1>4, SMTT(60) DEF FuncReturns
<1>5. ASSUME NEW t \in OnceThreads, CancelInFunc(t) PROVE OnceInv'
  BY <1>5, SMTT(60) DEF CancelInFunc
<1>6. ASSUME NEW t \in OnceThreads, Mark(t) PROVE OnceInv'
  BY <1>6, SMTT(60) DEF Mark
<1>7. ASSUME NEW t \in OnceThreads, OnceReturn(t) PROVE OnceInv'
  BY <1>7 DEF OnceReturn
<1>8. CASE UNCHANGED onceVars
  BY <1>8 DEF onceVars
<1> QED  BY <1>1, <1>2, <1>3, <1>4, <1>5, <1>6, <1>7, <1>8
         DEF OnceNext, OnceStep, PthreadOnce, PthreadOnceRaw, OnceLoop

(* It is what OnceRuns says, and more. *)
LEMMA OnceHolds == (OnceInit => OnceInv) /\ (OnceInv => OnceRuns)
<1>1. OnceInit => OnceInv
  BY SMTT(60) DEF OnceInit, OnceInv, Inside, Onces
<1>2. OnceInv => OnceRuns
  BY SMTT(60) DEF OnceInv, OnceRuns, Onces
<1> QED  BY <1>1, <1>2
-----------------------------------------------------------------------------
(* Counting: a member more, a member less.                                 *)
LEMMA OneMore ==
  ASSUME NEW S, IsFiniteSet(S), NEW A, A \subseteq S, NEW x \in S
  PROVE  /\ Cardinality(A) \in Nat
         /\ x \notin A => Cardinality(A \cup {x}) = Cardinality(A) + 1
         /\ x \in A => Cardinality(A \ {x}) = Cardinality(A) - 1
<1>1. IsFiniteSet(A)
  BY FS_Subset
<1> QED  BY <1>1, FS_AddElement, FS_RemoveElement, FS_CardinalityType

(* A bound is kept when both sides lose one.                               *)
LEMMA BothLess ==
  ASSUME NEW x \in Nat, NEW n \in Nat, NEW p \in Nat, x + n >= p
  PROVE  x - 1 + n >= p - 1
  BY SMTT(60)

(* Quotients: a whole number of rounds and a part of one.                  *)
LEMMA Quotient ==
  ASSUME NEW d \in Nat \ {0}, NEW q \in Nat, NEW r \in 0 .. d - 1, NEW x, x = d * q + r
  PROVE  x \div d = q /\ x % d = r
<1>1. d * q \in Nat
  BY Z3T(30)
<1>2. x \in Nat
  BY <1>1, SMTT(60)
<1>3. x \div d \in Nat /\ x % d \in 0 .. d - 1 /\ x = d * (x \div d) + (x % d)
  BY <1>2, Z3T(60)
<1>4. ASSUME NEW i \in Nat, NEW k \in Nat, i < k PROVE d * k >= d * i + d
  <2>1. d * (k - i - 1) \in Nat
    BY <1>4, Z3T(30)
  <2>2. d * k = d * (k - i - 1) + d * i + d
    BY <1>4, Z3T(30)
  <2>3. d * i \in Nat /\ d * k \in Nat
    BY Z3T(30)
  <2> QED  BY <2>1, <2>2, <2>3, SMTT(60)
<1> DEFINE p == x \div d
           y == x % d
<1>5. p \in Nat /\ y \in 0 .. d - 1 /\ d * q + r = d * p + y
  BY <1>3
<1> HIDE DEF p, y
<1>6. d * p \in Nat
  BY <1>5, Z3T(30)
<1>7. p = q
  <2>1. CASE p < q
    <3>1. d * q >= d * p + d
      BY <1>4, <1>5, <2>1
    <3> QED  BY <1>1, <1>5, <1>6, <3>1, SMTT(60)
  <2>2. CASE q < p
    <3>1. d * p >= d * q + d
      BY <1>4, <1>5, <2>2
    <3> QED  BY <1>1, <1>5, <1>6, <3>1, SMTT(60)
  <2> QED  BY <1>5, <2>1, <2>2, SMTT(60)
<1>8. y = r
  BY <1>1, <1>5, <1>7, SMTT(60)
<1> QED  BY <1>7, <1>8 DEF p, y
-----------------------------------------------------------------------------
(* Barriers *)
BarLabels == {"out", "drainCS", "entering", "drain", "leaving", "fill", "fillCS",
              "last", "lastCS", "deleting", "gone"}
Held == {t \in BarThreads : bpc[t] \in {"leaving", "fill", "fillCS"}}
Ender(t) == bpc[t] \in {"last", "lastCS", "deleting", "gone"}
Coming == IF total < Flag THEN total ELSE 0
Going == IF total < Flag THEN 0 ELSE total - Flag

BarTypes ==
  /\ total \in Nat /\ came \in Nat /\ left \in Int /\ serial \in Nat /\ dead \in BOOLEAN
  /\ bpc \in [BarThreads -> BarLabels] /\ bops \in [BarThreads -> 0 .. BarMax]

(* total says how many of a round are held, and whether they came or go.   *)
BarRound ==
  /\ total < BarCount \/ total \in Flag .. Flag + BarCount - 1
  /\ came = BarCount * serial + Coming /\ left = BarCount * serial - Going
  /\ Cardinality(Held) = Coming + Going

(* Whoever destroys the barrier is alone in that, and after all waits of a *)
(* last full round.                                                        *)
BarEnd ==
  /\ \A t, u \in BarThreads : Ender(t) /\ Ender(u) => t = u
  /\ \A t \in BarThreads : Ender(t) =>
       /\ Coming = 0
       /\ \A u \in BarThreads : bops[u] = BarMax /\ bpc[u] \notin {"drainCS", "entering", "drain"}
  /\ dead => \A t \in BarThreads : bpc[t] \in {"out", "gone"}

BarInv == BarTypes /\ BarRound /\ BarEnd

(* What a round is made of, in linear terms.                               *)
LEMMA RoundFacts ==
  ASSUME BarTypes, BarRound
  PROVE  /\ BarCount \in Nat /\ BarCount > 0 /\ BarCount <= Flag /\ Flag \in Nat
         /\ Coming \in Nat /\ Going \in Nat /\ Coming < BarCount /\ Going < BarCount
         /\ total < Flag => Coming = total /\ Going = 0
         /\ total >= Flag => Coming = 0 /\ Going = total - Flag
         /\ BarCount * serial \in Nat
<1>1. BarCount \in Nat /\ BarCount > 0 /\ BarCount <= Flag /\ Flag \in Nat
  BY BarAssumption, SMTT(60) DEF Flag
<1>2. total \in Nat /\ serial \in Nat
  BY DEF BarTypes
<1>3. BarCount * serial \in Nat
  BY <1>1, <1>2, Z3T(30)
<1>4. total < BarCount \/ total \in Flag .. Flag + BarCount - 1
  BY DEF BarRound
<1> HIDE DEF Flag
<1> QED  BY <1>1, <1>2, <1>3, <1>4, SMTT(60) DEF Coming, Going

(* Steps that neither come in nor go out.                                  *)
LEMMA BarStays ==
  ASSUME BarInv, UNCHANGED <<total, came, left, serial>>, Held' = Held, BarTypes', BarEnd'
  PROVE  BarInv'
<1>1. BarRound'
  BY DEF BarInv, BarRound, Coming, Going
<1> QED  BY <1>1 DEF BarInv

(* Every step but coming in and going out keeps the invariant.             *)
LEMMA BarOthers ==
  ASSUME BarInv, NEW t \in BarThreads,
         BarCall(t) \/ BarLock(t) \/ BarDestroyCall(t) \/ BarSpurious(t)
  PROVE  BarInv'
<1> USE DEF BGoto, Ender, BarLabels, Coming
<1>1. CASE BarCall(t)
  <2>1. BarTypes'
    BY <1>1, BarAssumption, SMTT(60) DEF BarCall, BarInv, BarTypes
  <2>2. Held' = Held
    BY <1>1 DEF BarCall, BarInv, BarTypes, Held
  <2>3. \A u \in BarThreads : ~ Ender(u)
    BY <1>1, BarAssumption, SMTT(60) DEF BarCall, BarInv, BarTypes, BarEnd
  <2>4. BarEnd'
    BY <1>1, <2>3 DEF BarCall, BarInv, BarTypes, BarEnd
  <2> QED  BY <1>1, <2>1, <2>2, <2>4, BarStays DEF BarCall
<1>2. CASE BarLock(t)
  <2>0. \/ bpc[t] = "drainCS" /\ bpc' = [bpc EXCEPT ![t] = "entering"]
        \/ bpc[t] = "fillCS" /\ bpc' = [bpc EXCEPT ![t] = "leaving"]
        \/ bpc[t] = "lastCS" /\ bpc' = [bpc EXCEPT ![t] = "deleting"]
    <3>1. bpc[t] \in DOMAIN Owner /\ bpc' = [bpc EXCEPT ![t] = Owner[bpc[t]]]
      BY <1>2 DEF BarLock
    <3>2. DOMAIN Owner = {"drainCS", "fillCS", "lastCS"}
      BY DEF Owner
    <3>3. /\ Owner["drainCS"] = "entering" /\ Owner["fillCS"] = "leaving"
          /\ Owner["lastCS"] = "deleting"
      BY DEF Owner
    <3> QED  BY <3>1, <3>2, <3>3
  <2>1. BarTypes'
    BY <1>2, <2>0 DEF BarLock, BarInv, BarTypes
  <2>2. Held' = Held
    BY <2>0 DEF BarInv, BarTypes, Held
  <2>4. BarEnd'
    BY <1>2, <2>0 DEF BarLock, BarInv, BarTypes, BarEnd
  <2> QED  BY <1>2, <2>1, <2>2, <2>4, BarStays DEF BarLock
<1>3. CASE BarDestroyCall(t)
  <2>1. BarTypes'
    BY <1>3 DEF BarDestroyCall, BarInv, BarTypes
  <2>2. Held' = Held
    BY <1>3 DEF BarDestroyCall, BarInv, BarTypes, Held
  <2>3. Coming = 0
    <3>1. /\ BarCount \in Nat \ {0} /\ serial \in Nat /\ Coming \in 0 .. BarCount - 1
          /\ came = BarCount * serial + Coming
      BY RoundFacts, SMTT(60) DEF BarInv, BarTypes, BarRound
    <3> HIDE DEF Coming
    <3>2. came % BarCount = Coming
      BY <3>1, Quotient
    <3> QED  BY <1>3, <3>2 DEF BarDestroyCall
  <2>4. BarEnd'
    BY <1>3, <2>3, SMTT(60) DEF BarDestroyCall, BarInv, BarTypes, BarEnd
  <2> QED  BY <1>3, <2>1, <2>2, <2>4, BarStays DEF BarDestroyCall
<1>4. CASE BarSpurious(t)
  <2>0. \/ bpc[t] = "drain" /\ bpc' = [bpc EXCEPT ![t] = "drainCS"]
        \/ bpc[t] = "fill" /\ bpc' = [bpc EXCEPT ![t] = "fillCS"]
        \/ bpc[t] = "last" /\ bpc' = [bpc EXCEPT ![t] = "lastCS"]
    <3>1. bpc[t] \in DOMAIN Awake /\ bpc' = [bpc EXCEPT ![t] = Awake[bpc[t]]]
      BY <1>4 DEF BarSpurious
    <3>2. DOMAIN Awake = {"drain", "fill", "last"}
      BY DEF Awake
    <3>3. /\ Awake["drain"] = "drainCS" /\ Awake["fill"] = "fillCS"
          /\ Awake["last"] = "lastCS"
      BY DEF Awake
    <3> QED  BY <3>1, <3>2, <3>3
  <2>1. BarTypes'
    BY <1>4, <2>0 DEF BarSpurious, BarInv, BarTypes
  <2>2. Held' = Held
    BY <2>0 DEF BarInv, BarTypes, Held
  <2>4. BarEnd'
    BY <1>4, <2>0 DEF BarSpurious, BarInv, BarTypes, BarEnd
  <2> QED  BY <1>4, <2>1, <2>2, <2>4, BarStays DEF BarSpurious
<1> QED  BY <1>1, <1>2, <1>3, <1>4

(* WakeConditionVariable for all: who it moves, and where to.              *)
LEMMA Woken ==
  ASSUME BarTypes
  PROVE  /\ WakeAll(bpc) \in [BarThreads -> BarLabels]
         /\ \A u \in BarThreads :
              /\ bpc[u] = "drain" => WakeAll(bpc)[u] = "drainCS"
              /\ bpc[u] = "fill" => WakeAll(bpc)[u] = "fillCS"
              /\ bpc[u] = "last" => WakeAll(bpc)[u] = "lastCS"
              /\ bpc[u] \notin {"drain", "fill", "last"} => WakeAll(bpc)[u] = bpc[u]
<1>1. DOMAIN Awake = {"drain", "fill", "last"}
  BY DEF Awake
<1>2. /\ Awake["drain"] = "drainCS" /\ Awake["fill"] = "fillCS"
      /\ Awake["last"] = "lastCS"
  BY DEF Awake
<1> QED  BY <1>1, <1>2 DEF WakeAll, BarTypes, BarLabels

(* Coming in, last of a round or not, keeps the invariant.                 *)
LEMMA BarEnters ==
  ASSUME BarInv, NEW t \in BarThreads, BarEnter(t)
  PROVE  BarInv'
<1> USE DEF BGoto, Ender, BarLabels
<1>0. BarTypes /\ BarRound /\ BarEnd /\ bpc[t] = "entering"
  BY DEF BarInv, BarEnter
<1>1. ~ dead /\ \A u \in BarThreads : ~ Ender(u)
  BY <1>0 DEF BarEnd
<1>2. CASE total > Flag
  <2>1. /\ bpc' = [bpc EXCEPT ![t] = "drain"]
        /\ UNCHANGED <<total, came, left, serial, bops, dead>>
    BY <1>2, <1>0, SMTT(60) DEF BarEnter, BarTypes, Flag
  <2>2. BarTypes'
    BY <1>0, <2>1 DEF BarTypes
  <2>3. Held' = Held
    BY <1>0, <2>1 DEF BarTypes, Held
  <2>4. BarEnd'
    BY <1>0, <1>1, <2>1 DEF BarTypes, BarEnd
  <2> QED  BY <2>1, <2>2, <2>3, <2>4, BarStays
<1>3. CASE ~ (total > Flag)
  <2> DEFINE n == IF total = Flag THEN 1 ELSE total + 1
  <2>1. total <= Flag /\ came' = came + 1 /\ bops' = bops /\ dead' = dead
    BY <1>3, <1>0, SMTT(60) DEF BarEnter, BarTypes, Flag
  <2>2. n = Coming + 1 /\ Going = 0
    BY <1>0, <2>1, RoundFacts, SMTT(60) DEF BarTypes, Coming, Going
  <2>3. CASE n = BarCount
    <3>1. /\ total' = n + Flag - 1 /\ bpc' = [WakeAll(bpc) EXCEPT ![t] = "out"]
          /\ left' = left + 1 /\ serial' = serial + 1
      BY <1>3, <2>3 DEF BarEnter
    <3>2. BarTypes'
      BY <1>0, <2>1, <2>3, <3>1, Woken, RoundFacts, SMTT(60) DEF BarTypes
    <3>3. Held' = Held
      BY <1>0, <3>1, Woken DEF BarTypes, Held
    <3>4. BarEnd'
      <4>1. \A u \in BarThreads : ~ Ender(u)'
        BY <1>0, <1>1, <3>1, Woken DEF BarTypes
      <4> QED  BY <1>1, <2>1, <4>1 DEF BarEnd
    <3>5. total' = Flag + (BarCount - 1) /\ Coming + 1 = BarCount
      BY <1>0, <2>2, <2>3, <3>1, RoundFacts, SMTT(60)
    <3>6. Coming' = 0 /\ Going' = BarCount - 1 /\ total' \in Flag .. Flag + BarCount - 1
      <4>1. BarCount \in Nat /\ BarCount > 0 /\ Flag \in Nat /\ total' >= Flag
        BY <1>0, <3>5, RoundFacts, SMTT(60)
      <4>2. Flag' = Flag
        BY DEF Flag
      <4> QED  BY <3>5, <4>1, <4>2, SMTT(60) DEF Coming, Going
    <3>7. BarCount * (serial + 1) = BarCount * serial + BarCount
      <4>1. BarCount \in Nat /\ serial \in Nat
        BY <1>0, RoundFacts DEF BarTypes
      <4> QED  BY <4>1, Z3T(30)
    <3>8. came' = BarCount * serial' + Coming'
      BY <1>0, <2>1, <3>1, <3>5, <3>6, <3>7, RoundFacts, SMTT(60) DEF BarRound
    <3>9. left' = BarCount * serial' - Going'
      BY <1>0, <2>2, <3>1, <3>6, <3>7, RoundFacts, SMTT(60) DEF BarRound
    <3>10. Cardinality(Held') = Coming' + Going'
      BY <1>0, <2>2, <3>3, <3>5, <3>6, RoundFacts, SMTT(60) DEF BarRound
    <3> QED  BY <3>2, <3>4, <3>6, <3>8, <3>9, <3>10, SMTT(60) DEF BarInv, BarRound, Flag
  <2>4. CASE n # BarCount
    <3>1. /\ total' = n /\ bpc' = [bpc EXCEPT ![t] = "leaving"]
          /\ left' = left /\ serial' = serial
      BY <1>3, <2>4 DEF BarEnter
    <3>2. BarTypes'
      BY <1>0, <2>1, <3>1, SMTT(60) DEF BarTypes
    <3>3. Held' = Held \cup {t} /\ t \notin Held
      BY <1>0, <3>1 DEF BarTypes, Held
    <3>4. BarEnd'
      <4>1. \A u \in BarThreads : ~ Ender(u)'
        BY <1>0, <1>1, <3>1 DEF BarTypes
      <4> QED  BY <1>1, <2>1, <4>1 DEF BarEnd
    <3>5. total' = Coming + 1 /\ total' < BarCount /\ total' < Flag
      BY <1>0, <2>2, <2>4, <3>1, RoundFacts, SMTT(60)
    <3>6. Coming' = Coming + 1 /\ Going' = 0
      BY <3>5, SMTT(60) DEF Coming, Going, Flag
    <3>7. Cardinality(Held') = Cardinality(Held) + 1
      BY <3>3, OneMore, BarAssumption, SMTT(60) DEF Held
    <3>8. Cardinality(Held') = Coming' + Going'
      BY <1>0, <2>2, <3>6, <3>7, RoundFacts, SMTT(60) DEF BarRound
    <3>9. came' = BarCount * serial' + Coming' /\ left' = BarCount * serial' - Going'
      BY <1>0, <2>1, <2>2, <3>1, <3>6, RoundFacts, SMTT(60) DEF BarRound
    <3> QED  BY <3>2, <3>4, <3>5, <3>8, <3>9 DEF BarInv, BarRound
  <2> QED  BY <2>3, <2>4
<1> QED  BY <1>2, <1>3

(* Going out, or to wait for the round to fill, keeps the invariant.       *)
LEMMA BarLeaves ==
  ASSUME BarInv, NEW t \in BarThreads, BarLeave(t)
  PROVE  BarInv'
<1> USE DEF BGoto, Ender, BarLabels
<1>0. /\ BarTypes /\ BarRound /\ BarEnd /\ bpc[t] = "leaving" /\ ~ dead
      /\ UNCHANGED <<bops, came, serial, dead>>
  BY DEF BarInv, BarLeave, BarEnd
<1>2. CASE total < Flag
  <2>1. bpc' = [bpc EXCEPT ![t] = "fill"] /\ UNCHANGED <<total, left>>
    BY <1>2 DEF BarLeave
  <2>2. BarTypes'
    BY <1>0, <2>1 DEF BarTypes
  <2>3. Held' = Held
    BY <1>0, <2>1 DEF BarTypes, Held
  <2>4. BarEnd'
    BY <1>0, <2>1 DEF BarTypes, BarEnd, Coming
  <2> QED  BY <1>0, <2>1, <2>2, <2>3, <2>4, BarStays
<1>3. CASE ~ (total < Flag)
  <2>1. /\ total' = total - 1 /\ left' = left + 1
        /\ \/ bpc' = [bpc EXCEPT ![t] = "out"]
           \/ bpc' = [WakeAll(bpc) EXCEPT ![t] = "out"]
    BY <1>3 DEF BarLeave
  <2>2. Held' = Held \ {t} /\ t \in Held
    BY <1>0, <2>1, Woken DEF BarTypes, Held
  <2>3. /\ Cardinality(Held) \in Nat /\ Cardinality(Held) > 0
        /\ Cardinality(Held') = Cardinality(Held) - 1
    <3>1. IsFiniteSet(BarThreads) /\ Held \subseteq BarThreads /\ t \in BarThreads
      BY BarAssumption DEF Held
    <3>2. Cardinality(Held) \in Nat /\ Cardinality(Held') = Cardinality(Held) - 1
      BY <2>2, <3>1, OneMore
    <3>3. Held # {} /\ IsFiniteSet(Held)
      BY <2>2, <3>1, FS_Subset
    <3>4. Cardinality(Held) # 0
      BY <3>3, FS_EmptySet
    <3> QED  BY <3>2, <3>4, SMTT(60)
  <2>4. Coming = 0 /\ Going = total - Flag /\ Going > 0 /\ Going < BarCount
    BY <1>0, <1>3, <2>3, RoundFacts, SMTT(60) DEF BarRound, BarTypes
  <2>5. Coming' = 0 /\ Going' = Going - 1 /\ total' \in Flag .. Flag + BarCount - 1
    <3>1. total' >= Flag /\ total' - Flag = Going - 1 /\ total' \in Nat
      BY <1>0, <2>1, <2>4, RoundFacts, SMTT(60) DEF BarTypes
    <3>2. Flag' = Flag
      BY DEF Flag
    <3> QED  BY <1>0, <2>4, <3>1, <3>2, RoundFacts, SMTT(60) DEF Coming, Going
  <2>6. BarTypes'
    BY <1>0, <2>1, <2>5, Woken, SMTT(60) DEF BarTypes, Flag
  <2>7. BarEnd'
    <3>1. \A u \in BarThreads : Ender(u)' => Ender(u)
      BY <1>0, <2>1, Woken DEF BarTypes
    <3>2. ASSUME NEW u \in BarThreads, bpc[u] \notin {"drainCS", "entering", "drain"}
          PROVE  bpc'[u] \notin {"drainCS", "entering", "drain"}
      BY <1>0, <2>1, <3>2, Woken DEF BarTypes
    <3> QED  BY <1>0, <2>5, <3>1, <3>2 DEF BarEnd
  <2>8. Cardinality(Held') = Coming' + Going'
    BY <1>0, <2>3, <2>4, <2>5, RoundFacts, SMTT(60) DEF BarRound
  <2>9. came' = BarCount * serial' + Coming' /\ left' = BarCount * serial' - Going'
    BY <1>0, <2>1, <2>4, <2>5, RoundFacts, SMTT(60) DEF BarRound
  <2> QED  BY <2>5, <2>6, <2>7, <2>8, <2>9, SMTT(60) DEF BarInv, BarRound, Flag
<1> QED  BY <1>2, <1>3

(* Deleting the barrier, or waiting for the last to leave, keeps it.       *)
LEMMA BarDestroys ==
  ASSUME BarInv, NEW t \in BarThreads, BarDestroy(t)
  PROVE  BarInv'
<1> USE DEF BGoto, Ender, BarLabels
<1>0. /\ BarTypes /\ BarRound /\ BarEnd /\ bpc[t] = "deleting" /\ Coming = 0
      /\ UNCHANGED <<total, bops, came, left, serial>>
  BY DEF BarInv, BarDestroy, BarEnd
<1>1. \/ total > Flag /\ bpc' = [bpc EXCEPT ![t] = "last"] /\ dead' = dead
      \/ ~ (total > Flag) /\ bpc' = [bpc EXCEPT ![t] = "gone"] /\ dead' = TRUE
  BY DEF BarDestroy
<1>2. BarTypes'
  BY <1>0, <1>1 DEF BarTypes
<1>3. Held' = Held
  BY <1>0, <1>1 DEF BarTypes, Held
<1>4. ASSUME ~ (total > Flag) PROVE Held = {}
  <2>1. Cardinality(Held) = 0
    BY <1>0, <1>4, RoundFacts, SMTT(60) DEF BarRound, BarTypes
  <2>2. IsFiniteSet(Held)
    BY FS_Subset, BarAssumption DEF Held
  <2> QED  BY <2>1, <2>2, FS_EmptySet
<1>5. \A u \in BarThreads : Ender(u)' => Ender(u)
  BY <1>0, <1>1 DEF BarTypes
<1>6. \A u \in BarThreads : bpc[u] \notin {"drainCS", "entering", "drain"}
  BY <1>0 DEF BarEnd
<1>7. \A u \in BarThreads : bpc'[u] \notin {"drainCS", "entering", "drain"}
  BY <1>0, <1>1, <1>6 DEF BarTypes
<1>8. dead' => \A u \in BarThreads : bpc'[u] \in {"out", "gone"}
  <2>1. CASE total > Flag
    BY <1>0, <1>1, <2>1 DEF BarTypes, BarEnd
  <2>2. CASE ~ (total > Flag)
    <3>1. \A u \in BarThreads : Ender(u) => u = t
      BY <1>0 DEF BarEnd
    <3>2. \A u \in BarThreads : bpc[u] \notin {"leaving", "fill", "fillCS"}
      BY <1>4, <2>2 DEF Held
    <3> QED  BY <1>0, <1>1, <1>6, <2>2, <3>1, <3>2 DEF BarTypes
  <2> QED  BY <2>1, <2>2
<1>9. BarEnd'
  BY <1>0, <1>5, <1>7, <1>8 DEF BarEnd, Coming
<1> QED  BY <1>0, <1>2, <1>3, <1>9, BarStays

(* Every step keeps it. *)
LEMMA BarStepKeeps == BarInv /\ [BarNext]_barVars => BarInv'
<1> SUFFICES ASSUME BarInv, [BarNext]_barVars PROVE BarInv'
  OBVIOUS
<1>1. CASE BarNext
  BY <1>1, BarOthers, BarEnters, BarLeaves, BarDestroys DEF BarNext, BarStep
<1>2. CASE UNCHANGED barVars
  BY <1>2 DEF barVars, BarInv, BarTypes, BarRound, BarEnd, Held, Ender, Coming, Going
<1> QED  BY <1>1, <1>2

(* It holds at first, and says that a round goes out when it is full.      *)
LEMMA BarHolds == (BarInit => BarInv) /\ (BarInv => BarrierTogether)
<1>1. ASSUME BarInit PROVE BarInv
  <2>0. BarCount \in Nat /\ BarCount > 0 /\ BarMax \in Nat
    BY BarAssumption, SMTT(60) DEF Flag
  <2>1. BarTypes /\ BarEnd
    <3>1. BarTypes
      <4>1. bpc \in [BarThreads -> BarLabels] /\ total \in Nat /\ came \in Nat /\ serial \in Nat
        BY <1>1 DEF BarInit, BarLabels
      <4>2. 0 \in 0 .. BarMax
        BY <2>0, SMTT(60)
      <4>3. bops \in [BarThreads -> 0 .. BarMax]
        BY <1>1, <4>2 DEF BarInit
      <4>4. left \in Int
        BY <1>1, SMTT(60) DEF BarInit
      <4>5. dead \in BOOLEAN
        BY <1>1 DEF BarInit
      <4> QED  BY <4>1, <4>3, <4>4, <4>5 DEF BarTypes
    <3>2. BarEnd
      BY <1>1 DEF BarInit, BarEnd, Ender
    <3> QED  BY <3>1, <3>2
  <2>2. Held = {} /\ Cardinality(Held) = 0
    BY <1>1, FS_EmptySet DEF BarInit, Held
  <2>3. Coming = 0 /\ Going = 0
    BY <1>1, SMTT(60) DEF BarInit, Coming, Going, Flag
  <2>4. BarCount * 0 = 0
    BY <2>0, SMTT(60)
  <2>5. BarRound
    BY <1>1, <2>0, <2>2, <2>3, <2>4, SMTT(60) DEF BarInit, BarRound
  <2> QED  BY <2>1, <2>5 DEF BarInv
<1>2. ASSUME BarInv PROVE BarrierTogether
  <2>1. /\ BarCount \in Nat \ {0} /\ serial \in Nat /\ Coming \in 0 .. BarCount - 1
        /\ came = BarCount * serial + Coming
    BY <1>2, RoundFacts, SMTT(60) DEF BarInv, BarTypes, BarRound
  <2>2. came \div BarCount = serial
    BY <2>1, Quotient
  <2>3. left <= BarCount * serial
    BY <1>2, RoundFacts, SMTT(60) DEF BarInv, BarRound
  <2> QED  BY <1>2, <2>2, <2>3 DEF BarrierTogether, BarInv, BarEnd
<1> QED  BY <1>1, <1>2
-----------------------------------------------------------------------------
(* Reader-writer locks *)
Words == [x : BOOLEAN, n : Nat, q : BOOLEAN]
Writers == {t \in RwThreads : hold[t] = "wr"}
Readers == {t \in RwThreads : hold[t] = "rd"}

RwTypes ==
  /\ word \in Words /\ seen \in [RwThreads -> Words]
  /\ rpc \in [RwThreads -> {"out", "acquire", "queued", "try", "timed", "cas", "casT",
                            "clock", "relX", "relS"}]
  /\ want \in [RwThreads -> {"rd", "wr"}] /\ hold \in [RwThreads -> {"no", "rd", "wr"}]

(* Nobody asks who holds, nobody releases who does not; a release chosen   *)
(* by the word is still the right one, and a word that try wants to change *)
(* was not exclusive when it was read.                                     *)
RwCallers ==
  \A t \in RwThreads :
    /\ rpc[t] \in {"acquire", "queued", "try", "timed", "cas", "casT", "clock"} => hold[t] = "no"
    /\ rpc[t] \in {"relX", "relS"} => hold[t] # "no"
    /\ rpc[t] = "relX" => hold[t] = "wr"
    /\ rpc[t] \in {"cas", "casT"} => ~ seen[t].x

(* The word is the holds. *)
RwInv ==
  /\ RwTypes /\ RwCallers
  /\ word.x = (Writers # {}) /\ word.n = Cardinality(Readers)
  /\ \A t, u \in Writers : t = u
  /\ Writers # {} => Readers = {}

(* How the holders change with one thread's hold.                          *)
LEMMA HoldsOne ==
  ASSUME RwTypes, NEW t \in RwThreads, NEW g \in {"no", "rd", "wr"}, Holds(t, g)
  PROVE  /\ Writers' = IF g = "wr" THEN Writers \cup {t} ELSE Writers \ {t}
         /\ Readers' = IF g = "rd" THEN Readers \cup {t} ELSE Readers \ {t}
         /\ Cardinality(Readers) \in Nat
         /\ hold[t] # "rd" /\ g = "rd" => Cardinality(Readers') = Cardinality(Readers) + 1
         /\ hold[t] = "rd" /\ g # "rd" => Cardinality(Readers') = Cardinality(Readers) - 1
         /\ hold[t] # "rd" /\ g # "rd" => Readers' = Readers
         /\ hold[t] # "wr" /\ g # "wr" => Writers' = Writers
<1>1. Writers' = IF g = "wr" THEN Writers \cup {t} ELSE Writers \ {t}
  BY DEF Holds, RwTypes, Writers
<1>2. Readers' = IF g = "rd" THEN Readers \cup {t} ELSE Readers \ {t}
  BY DEF Holds, RwTypes, Readers
<1>3. IsFiniteSet(RwThreads) /\ Readers \subseteq RwThreads
  BY RwAssumption DEF Readers
<1>4. t \in Readers <=> hold[t] = "rd"
  BY DEF Readers
<1>5. t \in Writers <=> hold[t] = "wr"
  BY DEF Writers
<1> QED  BY <1>1, <1>2, <1>3, <1>4, <1>5, OneMore

(* Steps that change no hold and leave the word but for its queue.         *)
LEMMA RwQuiet ==
  ASSUME RwInv, RwTypes', hold' = hold, word'.x = word.x, word'.n = word.n,
         RwCallers'
  PROVE  RwInv'
<1>1. Writers' = Writers /\ Readers' = Readers
  BY DEF Writers, Readers
<1> QED  BY <1>1 DEF RwInv

(* A thread that held nothing gets the lock, to read or to write.          *)
LEMMA RwGets ==
  ASSUME RwInv, NEW t \in RwThreads, NEW g \in {"rd", "wr"}, hold[t] = "no",
         Holds(t, g), RGoto(t, "out"), UNCHANGED <<seen, want>>,
         ~ word.x, g = "wr" => word.n = 0,
         word' \in Words, word'.x = (g = "wr"), word'.n = IF g = "rd" THEN word.n + 1 ELSE 0
  PROVE  RwInv'
<1> USE DEF RGoto
<1>0. RwTypes /\ Writers = {} /\ word.n = Cardinality(Readers)
  BY DEF RwInv
<1>1. RwTypes'
  BY <1>0 DEF RwTypes, Holds
<1>2. /\ Writers' = IF g = "wr" THEN {t} ELSE {}
      /\ Readers' = IF g = "rd" THEN Readers \cup {t} ELSE Readers
      /\ g = "rd" => Cardinality(Readers') = Cardinality(Readers) + 1
  <2>1. Writers \cup {t} = {t} /\ Writers \ {t} = {}
    BY <1>0
  <2> QED  BY <1>0, <2>1, HoldsOne
<1>3. g = "wr" => Readers = {} /\ Cardinality(Readers) = 0
  <2>1. IsFiniteSet(Readers)
    BY FS_Subset, RwAssumption DEF Readers
  <2> QED  BY <1>0, <2>1, FS_EmptySet
<1>4. word'.x = (Writers' # {}) /\ word'.n = Cardinality(Readers')
  BY <1>0, <1>2, <1>3
<1>5. (\A u, v \in Writers' : u = v) /\ (Writers' # {} => Readers' = {})
  BY <1>2, <1>3
<1>6. RwCallers'
  BY <1>0 DEF RwInv, RwCallers, RwTypes, Holds
<1> QED  BY <1>1, <1>4, <1>5, <1>6 DEF RwInv

(* A release takes away the caller's own hold.                             *)
LEMMA RwReleases ==
  ASSUME RwInv, NEW t \in RwThreads, Release(t)
  PROVE  RwInv'
<1> USE DEF RGoto
<1>0. RwTypes /\ Holds(t, "no") /\ word \in Words /\ hold[t] \in {"rd", "wr"}
  BY DEF RwInv, RwTypes, RwCallers, Release
<1>1. word.x => hold[t] = "wr"
  BY <1>0 DEF RwInv, Readers
<1>2. ~ word.x => hold[t] = "rd" /\ rpc[t] = "relS"
  BY <1>0 DEF RwInv, RwCallers, Writers, Release
<1>3. CASE word.x
  <2>1. word' = [word EXCEPT !.x = FALSE] /\ Writers = {t} /\ Readers = {}
    BY <1>0, <1>1, <1>3 DEF RwInv, Release, Writers
  <2>2. Writers' = {} /\ Readers' = {}
    <3>1. hold[t] # "rd" /\ "no" # "rd" /\ "no" # "wr"
      BY <1>1, <1>3
    <3>2. Writers' = Writers \ {t} /\ Readers' = Readers \ {t}
      BY <1>0, HoldsOne
    <3> QED  BY <2>1, <3>2
  <2>3. word' \in Words /\ ~ word'.x /\ word'.n = word.n
    BY <1>0, <2>1 DEF Words
  <2>4. RwTypes'
    BY <1>0, <2>3 DEF Release, RwTypes, Holds
  <2>5. word.n = Cardinality(Readers)
    BY DEF RwInv
  <2>6. word'.n = Cardinality(Readers')
    BY <2>1, <2>2, <2>3, <2>5
  <2>7. RwCallers'
    BY <1>0 DEF RwInv, RwCallers, RwTypes, Holds, Release
  <2>8. word'.x = (Writers' # {})
    BY <2>2, <2>3 DEF Words
  <2> QED  BY <2>2, <2>4, <2>6, <2>7, <2>8 DEF RwInv
<1>4. CASE ~ word.x
  <2>1. word' = [word EXCEPT !.n = @ - 1] /\ Writers = {}
    BY <1>2, <1>4 DEF RwInv, Release
  <2>2. /\ Writers' = {} /\ Cardinality(Readers) \in Nat
        /\ Cardinality(Readers') = Cardinality(Readers) - 1
    <3>1. Writers' = Writers \ {t}
      BY <1>0, HoldsOne
    <3>2. Cardinality(Readers) \in Nat /\ Cardinality(Readers') = Cardinality(Readers) - 1
      BY <1>0, <1>2, <1>4, HoldsOne
    <3> QED  BY <2>1, <3>1, <3>2
  <2>3. Cardinality(Readers) > 0
    <3>1. IsFiniteSet(Readers) /\ Readers # {}
      BY <1>2, <1>4, FS_Subset, RwAssumption DEF Readers
    <3>2. Cardinality(Readers) # 0
      BY <3>1, FS_EmptySet
    <3> QED  BY <2>2, <3>2, SMTT(60)
  <2>4. word.n = Cardinality(Readers)
    BY DEF RwInv
  <2>5. word' \in Words /\ ~ word'.x /\ word'.n = word.n - 1
    BY <1>0, <1>4, <2>1, <2>2, <2>3, <2>4, SMTT(60) DEF Words
  <2>6. RwTypes'
    BY <1>0, <2>5 DEF Release, RwTypes, Holds
  <2>7. RwCallers'
    BY <1>0 DEF RwInv, RwCallers, RwTypes, Holds, Release
  <2>8. word'.x = (Writers' # {}) /\ word'.n = Cardinality(Readers')
    BY <2>2, <2>4, <2>5 DEF Words
  <2> QED  BY <2>2, <2>6, <2>7, <2>8 DEF RwInv
<1> QED  BY <1>3, <1>4

(* Every step keeps it. *)
LEMMA RwStepKeeps == RwInv /\ [RwNext]_rwVars => RwInv'
<1> SUFFICES ASSUME RwInv, [RwNext]_rwVars PROVE RwInv'
  OBVIOUS
<1> USE DEF RGoto
<1>0. RwTypes /\ RwCallers /\ word \in Words /\ word.x \in BOOLEAN /\ word.n \in Nat
  BY DEF RwInv, RwTypes, Words
<1>1. ASSUME NEW t \in RwThreads, RwCall(t) PROVE RwInv'
  <2>1. hold[t] = "no" /\ UNCHANGED <<word, seen, hold>>
    BY <1>1 DEF RwCall
  <2>2. \E c \in {"acquire", "try", "timed"}, g \in {"rd", "wr"} :
          rpc' = [rpc EXCEPT ![t] = c] /\ want' = [want EXCEPT ![t] = g]
    BY <1>1 DEF RwCall
  <2>3. RwTypes' /\ RwCallers'
    BY <1>0, <2>1, <2>2, SMTT(60) DEF RwTypes, RwCallers
  <2> QED  BY <2>1, <2>3, RwQuiet
<1>2. ASSUME NEW t \in RwThreads, Acquire(t) PROVE RwInv'
  <2>0. hold[t] = "no" /\ UNCHANGED <<seen, want>> /\ want[t] \in {"rd", "wr"}
    BY <1>0, <1>2 DEF Acquire, RwTypes, RwCallers
  <2> DEFINE can == IF want[t] = "rd" THEN ~ word.x ELSE ~ word.x /\ word.n = 0
             new == [x |-> want[t] = "wr", n |-> IF want[t] = "rd" THEN word.n + 1 ELSE 0,
                     q |-> \E u \in RwThreads \ {t} : rpc[u] = "queued"]
  <2>1. CASE can
    <3>1. rpc' = [rpc EXCEPT ![t] = "out"] /\ Holds(t, want[t]) /\ word' = new
      BY <1>2, <2>1 DEF Acquire
    <3>2. new \in Words
      BY <1>0, <2>0, SMTT(60) DEF Words
    <3>3. new.x = (want[t] = "wr") /\ new.n = IF want[t] = "rd" THEN word.n + 1 ELSE 0
      OBVIOUS
    <3>4. ~ word.x /\ (want[t] = "wr" => word.n = 0)
      BY <2>0, <2>1
    <3> HIDE DEF new, can
    <3> QED  BY <2>0, <3>1, <3>2, <3>3, <3>4, RwGets
  <2>2. CASE ~ can
    <3>1. rpc' = [rpc EXCEPT ![t] = "queued"] /\ word' = [word EXCEPT !.q = TRUE] /\ hold' = hold
      BY <1>2, <2>2 DEF Acquire
    <3>2. word' \in Words /\ word'.x = word.x /\ word'.n = word.n
      BY <1>0, <3>1 DEF Words
    <3>3. RwTypes' /\ RwCallers'
      BY <1>0, <2>0, <3>1, <3>2 DEF RwTypes, RwCallers
    <3> QED  BY <3>1, <3>2, <3>3, RwQuiet
  <2> QED  BY <2>1, <2>2
<1>3. ASSUME NEW t \in RwThreads, Peek(t) PROVE RwInv'
  <2>1. /\ UNCHANGED <<word, want, hold>> /\ seen' = [seen EXCEPT ![t] = word] /\ hold[t] = "no"
        /\ \E c \in {"cas", "casT", "out", "clock"} :
             rpc' = [rpc EXCEPT ![t] = c] /\ (c \in {"cas", "casT"} => ~ word.x)
    BY <1>0, <1>3 DEF Peek, RwCallers
  <2>2. RwTypes' /\ RwCallers'
    BY <1>0, <2>1, SMTT(60) DEF RwTypes, RwCallers
  <2> QED  BY <2>1, <2>2, RwQuiet
<1>4. ASSUME NEW t \in RwThreads, TryRd(t) PROVE RwInv'
  <2>0. hold[t] = "no" /\ ~ seen[t].x /\ UNCHANGED <<seen, want>>
    BY <1>0, <1>4 DEF TryRd, RwCallers
  <2>1. CASE word = seen[t]
    <3>1. /\ word' = [word EXCEPT !.n = @ + 1] /\ rpc' = [rpc EXCEPT ![t] = "out"]
          /\ Holds(t, "rd") /\ ~ word.x
      BY <1>4, <2>0, <2>1 DEF TryRd
    <3>2. word' \in Words /\ word'.x = word.x /\ word'.n = word.n + 1
      BY <1>0, <3>1, SMTT(60) DEF Words
    <3>3. word'.x = ("rd" = "wr")
      BY <1>0, <3>1, <3>2
    <3> QED  BY <2>0, <3>1, <3>2, <3>3, RwGets
  <2>2. CASE word # seen[t]
    <3>1. /\ UNCHANGED <<word, hold>>
          /\ \E c \in {"out", "clock"} : rpc' = [rpc EXCEPT ![t] = c]
      BY <1>4, <2>2 DEF TryRd
    <3>2. RwTypes' /\ RwCallers'
      BY <1>0, <2>0, <3>1 DEF RwTypes, RwCallers
    <3> QED  BY <3>1, <3>2, RwQuiet
  <2> QED  BY <2>1, <2>2
<1>5. ASSUME NEW t \in RwThreads, TryWr(t) PROVE RwInv'
  <2>0. hold[t] = "no" /\ UNCHANGED <<seen, want>>
    BY <1>0, <1>5 DEF TryWr, RwCallers
  <2>1. CASE word = Free
    <3>1. word' = Exclusive /\ rpc' = [rpc EXCEPT ![t] = "out"] /\ Holds(t, "wr")
      BY <1>5, <2>1 DEF TryWr
    <3>2. word' \in Words /\ word'.x = TRUE /\ word'.n = 0 /\ ~ word.x /\ word.n = 0
      BY <2>1, <3>1 DEF Words, Exclusive, Free
    <3>3. word'.x = ("wr" = "wr")
      BY <3>2
    <3> QED  BY <2>0, <3>1, <3>2, <3>3, RwGets
  <2>2. CASE word # Free
    <3>1. /\ UNCHANGED <<word, hold>>
          /\ \E c \in {"out", "clock"} : rpc' = [rpc EXCEPT ![t] = c]
      BY <1>5, <2>2 DEF TryWr
    <3>2. RwTypes' /\ RwCallers'
      BY <1>0, <2>0, <3>1, SMTT(60) DEF RwTypes, RwCallers
    <3> QED  BY <3>1, <3>2, RwQuiet
  <2> QED  BY <2>1, <2>2
<1>6. ASSUME NEW t \in RwThreads, Timed(t) PROVE RwInv'
  <2>1. /\ UNCHANGED <<word, hold, seen, want>> /\ hold[t] = "no"
        /\ \E c \in {"out", "timed"} : rpc' = [rpc EXCEPT ![t] = c]
    BY <1>0, <1>6 DEF Timed, RwCallers
  <2>2. RwTypes' /\ RwCallers'
    BY <1>0, <2>1, SMTT(60) DEF RwTypes, RwCallers
  <2> QED  BY <2>1, <2>2, RwQuiet
<1>7. ASSUME NEW t \in RwThreads, UnlockPeek(t) PROVE RwInv'
  <2>1. /\ UNCHANGED <<word, hold, seen, want>> /\ hold[t] # "no"
        /\ \E c \in {"relX", "relS"} : rpc' = [rpc EXCEPT ![t] = c] /\ (c = "relX" => word = Exclusive)
    BY <1>7 DEF UnlockPeek
  <2>2. word = Exclusive => word.x
    BY SMTT(60) DEF Exclusive
  <2>3. word.x => hold[t] = "wr"
    BY <1>0, <2>1 DEF RwInv, RwTypes, Readers
  <2>4. RwTypes' /\ RwCallers'
    BY <1>0, <2>1, <2>2, <2>3, SMTT(60) DEF RwTypes, RwCallers
  <2> QED  BY <2>1, <2>4, RwQuiet
<1>8. CASE Clock \/ UNCHANGED rwVars
  <2>1. UNCHANGED <<word, rpc, seen, want, hold>>
    BY <1>8 DEF Clock, rwVars
  <2>2. RwTypes' /\ RwCallers'
    BY <1>0, <2>1 DEF RwTypes, RwCallers
  <2> QED  BY <2>1, <2>2, RwQuiet
<1> QED  BY <1>1, <1>2, <1>3, <1>4, <1>5, <1>6, <1>7, <1>8, RwReleases DEF RwNext, RwStep

(* It holds at first, and is what RwExclusion says, and more.              *)
LEMMA RwHolds == (RwInit => RwInv) /\ (RwInv => RwExclusion)
<1>1. ASSUME RwInit PROVE RwInv
  <2>1. Writers = {} /\ Readers = {} /\ Cardinality(Readers) = 0
    BY <1>1, FS_EmptySet DEF RwInit, Writers, Readers
  <2>2. word \in Words /\ word.x = FALSE /\ word.n = 0
    BY <1>1 DEF RwInit, Free, Words
  <2>3. RwTypes
    BY <1>1, <2>2 DEF RwInit, RwTypes
  <2>4. RwCallers
    BY <1>1 DEF RwInit, RwCallers
  <2> QED  BY <2>1, <2>2, <2>3, <2>4 DEF RwInv
<1>2. ASSUME RwInv PROVE RwExclusion
  <2>1. Cardinality(Writers) <= 1
    <3>1. CASE Writers = {}
      BY <3>1, FS_EmptySet, SMTT(60)
    <3>2. CASE Writers # {}
      <4>1. PICK w \in Writers : TRUE
        BY <3>2
      <4>2. Writers = {w}
        BY <1>2, <4>1 DEF RwInv
      <4> QED  BY <4>2, FS_Singleton, SMTT(60)
    <3> QED  BY <3>1, <3>2
  <2> QED  BY <1>2, <2>1 DEF RwInv, RwExclusion, Writers, Readers
<1> QED  BY <1>1, <1>2
-----------------------------------------------------------------------------
(* Mutexes and spin locks *)
MxTypes ==
  /\ mpc \in [MxThreads -> {"out", "lock", "timedlock", "timedtry", "timedclock", "condwait", "asleep",
                            "relock", "relockT", "spinlock", "spintry", "spinning"}]
  /\ mtill \in [MxThreads -> Nat] /\ mnow \in Nat /\ spin \in {0, 1}
  /\ mres \in [MxThreads -> {"none", "0", "ETIMEDOUT", "got", "EBUSY"}]
  /\ m \in MxThreads \cup {MxNone} /\ shold \subseteq MxThreads

(* The critical section's owner is the one inside; who waits on a          *)
(* condition holds the mutex when the wait begins; who comes back late has *)
(* passed the deadline.                                                    *)
MxOwner == mhold = IF m = MxNone THEN {} ELSE {m}
MxSpin == (spin = 0 => shold = {}) /\ \A t, u \in shold : t = u
MxCaller(t) ==
  /\ mpc[t] = "condwait" => m = t
  /\ mpc[t] = "relockT" => mnow >= mtill[t]
  /\ mpc[t] = "out" /\ mres[t] = "0" => m = t
  /\ mpc[t] = "out" /\ mres[t] = "ETIMEDOUT" => mnow >= mtill[t]
MxInv == MxTypes /\ MxOwner /\ MxSpin /\ \A t \in MxThreads : MxCaller(t)

(* A step of one thread, that takes the mutex from nobody else, leaves the *)
(* other callers as they are.                                              *)
MxAlike(u) ==
  mpc'[u] = mpc[u] /\ mres'[u] = mres[u] /\ mtill'[u] = mtill[u] /\ (m = u => m' = u)

(* So there is one caller to look at.                                      *)
LEMMA MxOne ==
  ASSUME MxInv, NEW t \in MxThreads, MxTypes', MxOwner', MxSpin', mnow' = mnow,
         \A u \in MxThreads : u # t => MxAlike(u), MxCaller(t)'
  PROVE  MxInv'
<1>1. ASSUME NEW u \in MxThreads, u # t PROVE MxCaller(u)'
  <2>1. MxCaller(u) /\ MxAlike(u)
    BY <1>1 DEF MxInv
  <2> QED  BY <2>1 DEF MxCaller, MxAlike
<1> QED  BY <1>1 DEF MxInv

(* Every step keeps it. *)
LEMMA MxStepKeeps == MxInv /\ [MxNext]_mxVars => MxInv'
<1> SUFFICES ASSUME MxInv, [MxNext]_mxVars PROVE MxInv'
  OBVIOUS
<1>0. MxTypes /\ MxOwner /\ MxSpin /\ \A t \in MxThreads : MxCaller(t)
  BY DEF MxInv
<1> USE DEF MGoto, Returns
<1>1. ASSUME NEW t \in MxThreads, MxCall(t) PROVE MxInv'
  <2>0. mpc[t] = "out" /\ UNCHANGED <<m, spin, mres, mhold, shold, mnow>>
    BY <1>1 DEF MxCall
  <2>1. PICK d \in 0 .. 1 : mtill' = [mtill EXCEPT ![t] = mnow + d]
    BY <1>1 DEF MxCall
  <2>2. PICK c \in {"lock", "timedlock", "spinlock", "spintry", "condwait"} :
          mpc' = [mpc EXCEPT ![t] = c] /\ ((c = "condwait") = (t \in mhold))
    BY <1>1 DEF MxCall
  <2>3. mnow + d \in Nat
    <3>1. mnow \in Nat
      BY <1>0 DEF MxTypes
    <3> QED  BY <3>1, SMTT(60)
  <2>4. MxTypes'
    BY <1>0, <2>0, <2>1, <2>2, <2>3 DEF MxTypes
  <2>5. MxOwner' /\ MxSpin'
    BY <1>0, <2>0 DEF MxOwner, MxSpin
  <2>6. \A u \in MxThreads : u # t => MxAlike(u)
    BY <1>0, <2>0, <2>1, <2>2 DEF MxTypes, MxAlike
  <2>7. mpc'[t] = c
    BY <1>0, <2>2 DEF MxTypes
  <2>8. c = "condwait" => m = t
    BY <1>0, <2>2 DEF MxOwner
  <2>9. MxCaller(t)'
    BY <2>0, <2>7, <2>8 DEF MxCaller
  <2> QED  BY <2>0, <2>4, <2>5, <2>6, <2>9, MxOne
<1>2. ASSUME NEW t \in MxThreads, MutexLock(t) PROVE MxInv'
  <2>0. m = MxNone /\ m' = t /\ mhold' = mhold \cup {t} /\ UNCHANGED <<spin, mtill, shold, mnow>>
    BY <1>2 DEF MutexLock
  <2>1. PICK r \in {"0", "ETIMEDOUT"} :
          /\ mres' = [mres EXCEPT ![t] = r] /\ mpc' = [mpc EXCEPT ![t] = "out"]
          /\ r = "ETIMEDOUT" => mpc[t] = "relockT" \/ mtill[t] <= mnow
    BY <1>2 DEF MutexLock
  <2>2. r = "ETIMEDOUT" => mnow >= mtill[t]
    <3>1. mnow \in Nat /\ mtill[t] \in Nat
      BY <1>0 DEF MxTypes
    <3>2. mtill[t] <= mnow => mnow >= mtill[t]
      BY <3>1, SMTT(60)
    <3> QED  BY <1>0, <2>1, <3>2 DEF MxCaller
  <2>3. MxTypes'
    BY <1>0, <2>0, <2>1 DEF MxTypes
  <2>4. MxOwner' /\ MxSpin'
    BY <1>0, <2>0, MxAssumption DEF MxOwner, MxSpin
  <2>5. \A u \in MxThreads : u # t => MxAlike(u)
    BY <1>0, <2>0, <2>1, MxAssumption DEF MxTypes, MxAlike
  <2>6. mpc'[t] = "out" /\ mres'[t] = r
    BY <1>0, <2>1 DEF MxTypes
  <2>7. MxCaller(t)'
    BY <2>0, <2>1, <2>2, <2>6 DEF MxCaller
  <2> QED  BY <2>0, <2>3, <2>4, <2>5, <2>7, MxOne
<1>3. ASSUME NEW t \in MxThreads, TimedLock(t) PROVE MxInv'
  <2>0. mpc[t] = "timedclock" /\ UNCHANGED <<m, spin, mtill, mhold, shold, mnow>>
    BY <1>3 DEF TimedLock
  <2>1. MxOwner' /\ MxSpin'
    BY <1>0, <2>0 DEF MxOwner, MxSpin
  <2>2. CASE mnow > mtill[t]
    <3>1. mres' = [mres EXCEPT ![t] = "ETIMEDOUT"] /\ mpc' = [mpc EXCEPT ![t] = "out"]
      BY <1>3, <2>2 DEF TimedLock
    <3>2. mnow >= mtill[t]
      <4>1. mnow \in Nat /\ mtill[t] \in Nat
        BY <1>0 DEF MxTypes
      <4> QED  BY <2>2, <4>1, SMTT(60)
    <3>3. MxTypes' /\ mpc'[t] = "out" /\ mres'[t] = "ETIMEDOUT"
      BY <1>0, <2>0, <3>1 DEF MxTypes
    <3>4. \A u \in MxThreads : u # t => MxAlike(u)
      BY <1>0, <2>0, <3>1 DEF MxTypes, MxAlike
    <3>5. MxCaller(t)'
      BY <2>0, <3>2, <3>3 DEF MxCaller
    <3> QED  BY <2>0, <2>1, <3>3, <3>4, <3>5, MxOne
  <2>3. CASE ~ (mnow > mtill[t])
    <3>1. UNCHANGED mres /\ mpc' = [mpc EXCEPT ![t] = "timedtry"]
      BY <1>3, <2>3 DEF TimedLock
    <3>2. MxTypes' /\ mpc'[t] = "timedtry"
      BY <1>0, <2>0, <3>1 DEF MxTypes
    <3>3. \A u \in MxThreads : u # t => MxAlike(u)
      BY <1>0, <2>0, <3>1 DEF MxTypes, MxAlike
    <3>4. MxCaller(t)'
      BY <3>2 DEF MxCaller
    <3> QED  BY <2>0, <2>1, <3>2, <3>3, <3>4, MxOne
  <2> QED  BY <2>2, <2>3
<1>4. ASSUME NEW t \in MxThreads, MutexUnlock(t) PROVE MxInv'
  <2>1. /\ mpc[t] = "out" /\ t \in mhold /\ m' = MxNone /\ mhold' = mhold \ {t}
        /\ mres' = [mres EXCEPT ![t] = "none"] /\ UNCHANGED <<spin, mpc, mtill, shold, mnow>>
    BY <1>4 DEF MutexUnlock
  <2>2. m = t /\ mhold = {t}
    BY <1>0, <2>1 DEF MxOwner
  <2>3. MxTypes' /\ mres'[t] = "none"
    BY <1>0, <2>1 DEF MxTypes
  <2>4. MxOwner' /\ MxSpin'
    BY <1>0, <2>1, <2>2 DEF MxOwner, MxSpin
  <2>5. \A u \in MxThreads : u # t => MxAlike(u)
    BY <1>0, <2>1, <2>2 DEF MxTypes, MxAlike
  <2>6. MxCaller(t)'
    BY <2>1, <2>3 DEF MxCaller
  <2> QED  BY <2>1, <2>3, <2>4, <2>5, <2>6, MxOne
<1>5. ASSUME NEW t \in MxThreads, CondSleep(t) PROVE MxInv'
  <2>1. /\ mpc[t] = "condwait" /\ mpc' = [mpc EXCEPT ![t] = "asleep"] /\ m' = MxNone
        /\ mhold' = mhold \ {t} /\ UNCHANGED <<spin, mtill, mres, shold, mnow>>
    BY <1>5 DEF CondSleep
  <2>2. m = t
    BY <1>0, <2>1 DEF MxCaller
  <2>3. MxTypes' /\ mpc'[t] = "asleep"
    BY <1>0, <2>1 DEF MxTypes
  <2>4. MxOwner' /\ MxSpin'
    BY <1>0, <2>1, <2>2, MxAssumption DEF MxOwner, MxSpin
  <2>5. \A u \in MxThreads : u # t => MxAlike(u)
    BY <1>0, <2>1, <2>2 DEF MxTypes, MxAlike
  <2>6. MxCaller(t)'
    BY <2>3 DEF MxCaller
  <2> QED  BY <2>1, <2>3, <2>4, <2>5, <2>6, MxOne
<1>6. ASSUME NEW t \in MxThreads, CondWake(t) \/ CondTimeout(t) \/ SpinLook(t) \/ TryFails(t) PROVE MxInv'
  <2>1. PICK c \in {"relock", "relockT", "spinlock", "timedclock"} :
          mpc' = [mpc EXCEPT ![t] = c] /\ (c = "relockT" => mnow >= mtill[t])
    BY <1>6 DEF CondWake, CondTimeout, SpinLook, TryFails
  <2>2. UNCHANGED <<m, spin, mtill, mres, mhold, shold, mnow>>
    BY <1>6 DEF CondWake, CondTimeout, SpinLook, TryFails
  <2>3. MxTypes' /\ mpc'[t] = c
    BY <1>0, <2>1, <2>2 DEF MxTypes
  <2>4. MxOwner' /\ MxSpin'
    BY <1>0, <2>2 DEF MxOwner, MxSpin
  <2>5. \A u \in MxThreads : u # t => MxAlike(u)
    BY <1>0, <2>1, <2>2 DEF MxTypes, MxAlike
  <2>6. MxCaller(t)'
    BY <2>1, <2>2, <2>3 DEF MxCaller
  <2> QED  BY <2>2, <2>3, <2>4, <2>5, <2>6, MxOne
<1>7. ASSUME NEW t \in MxThreads, SpinLock(t) PROVE MxInv'
  <2>0. spin' = 1 /\ UNCHANGED <<m, mtill, mhold, mnow>>
    BY <1>7 DEF SpinLock
  <2>1. PICK c \in {"out", "spinning"}, r \in {"got", "EBUSY", mres[t]} :
          /\ mpc' = [mpc EXCEPT ![t] = c] /\ mres' = [mres EXCEPT ![t] = r]
          /\ c = "out" => r \in {"got", "EBUSY"}
    <3>1. mres = [mres EXCEPT ![t] = mres[t]]
      BY <1>0 DEF MxTypes
    <3> QED  BY <1>7, <3>1 DEF SpinLock
  <2>2. (spin = 0 /\ shold' = shold \cup {t}) \/ shold' = shold
    BY <1>7 DEF SpinLock
  <2>3. mres[t] \in {"none", "0", "ETIMEDOUT", "got", "EBUSY"}
    BY <1>0 DEF MxTypes
  <2>4. MxTypes'
    BY <1>0, <2>0, <2>1, <2>2, <2>3 DEF MxTypes
  <2>5. MxOwner'
    BY <1>0, <2>0 DEF MxOwner
  <2>6. MxSpin'
    <3>1. 1 # 0
      BY SMTT(60)
    <3> QED  BY <1>0, <2>0, <2>2, <3>1 DEF MxSpin
  <2>7. \A u \in MxThreads : u # t => MxAlike(u)
    BY <1>0, <2>0, <2>1 DEF MxTypes, MxAlike
  <2>8. mpc'[t] = c /\ mres'[t] = r
    BY <1>0, <2>1 DEF MxTypes
  <2>9. MxCaller(t)'
    BY <2>1, <2>8 DEF MxCaller
  <2> QED  BY <2>0, <2>4, <2>5, <2>6, <2>7, <2>9, MxOne
<1>8. ASSUME NEW t \in MxThreads, SpinUnlock(t) PROVE MxInv'
  <2>1. t \in shold /\ spin' = 0 /\ shold' = shold \ {t} /\ UNCHANGED <<m, mpc, mtill, mres, mhold, mnow>>
    BY <1>8 DEF SpinUnlock
  <2>2. MxTypes'
    BY <1>0, <2>1 DEF MxTypes
  <2>3. MxOwner' /\ MxSpin'
    BY <1>0, <2>1 DEF MxOwner, MxSpin
  <2>4. \A u \in MxThreads : MxCaller(u)'
    BY <1>0, <2>1 DEF MxCaller
  <2> QED  BY <2>2, <2>3, <2>4 DEF MxInv
<1>9. CASE MxTick
  <2>1. mnow' = mnow + 1 /\ UNCHANGED <<m, spin, mpc, mtill, mres, mhold, shold>>
    BY <1>9 DEF MxTick
  <2>2. mnow' \in Nat /\ \A x \in Nat : mnow >= x => mnow' >= x
    <3>1. mnow \in Nat
      BY <1>0 DEF MxTypes
    <3> QED  BY <2>1, <3>1, SMTT(60)
  <2>3. MxTypes' /\ \A u \in MxThreads : mtill[u] \in Nat
    BY <1>0, <2>1, <2>2 DEF MxTypes
  <2>4. MxOwner' /\ MxSpin'
    BY <1>0, <2>1 DEF MxOwner, MxSpin
  <2>5. \A u \in MxThreads : MxCaller(u)'
    BY <1>0, <2>1, <2>2, <2>3 DEF MxCaller
  <2> QED  BY <2>3, <2>4, <2>5 DEF MxInv
<1>10. CASE UNCHANGED mxVars
  BY <1>0, <1>10 DEF mxVars, MxInv, MxTypes, MxOwner, MxSpin, MxCaller
<1> QED  BY <1>1, <1>2, <1>3, <1>4, <1>5, <1>6, <1>7, <1>8, <1>9, <1>10 DEF MxNext

(* It holds at first, and is what MutexHeldByOne says, and more.           *)
LEMMA MxHolds == (MxInit => MxInv) /\ (MxInv => MutexHeldByOne)
<1>n. 0 <= 1 /\ 1 <= 1 /\ 0 \in Nat
  BY SMTT(60)
<1>1. ASSUME MxInit PROVE MxInv
  <2>1. MxTypes
    BY <1>1, <1>n DEF MxInit, MxTypes
  <2>2. MxOwner /\ MxSpin
    BY <1>1 DEF MxInit, MxOwner, MxSpin
  <2>3. \A t \in MxThreads : mpc[t] = "out" /\ mres[t] = "none"
    BY <1>1 DEF MxInit
  <2>4. \A t \in MxThreads : MxCaller(t)
    BY <2>3 DEF MxCaller
  <2> QED  BY <2>1, <2>2, <2>4 DEF MxInv
<1>2. ASSUME MxInv PROVE MutexHeldByOne
  <2>0. MxTypes /\ MxOwner /\ MxSpin /\ \A t \in MxThreads : MxCaller(t)
    BY <1>2 DEF MxInv
  <2>1. Cardinality(mhold) <= 1
    <3>1. mhold = {} \/ mhold = {m}
      BY <2>0 DEF MxOwner
    <3>2. Cardinality(mhold) = 0 \/ Cardinality(mhold) = 1
      BY <3>1, FS_EmptySet, FS_Singleton
    <3> QED  BY <1>n, <3>2
  <2>2. Cardinality(shold) <= 1
    <3>1. shold = {} \/ \E w \in shold : shold = {w}
      BY <2>0 DEF MxSpin
    <3>2. Cardinality(shold) = 0 \/ Cardinality(shold) = 1
      BY <3>1, FS_EmptySet, FS_Singleton
    <3> QED  BY <1>n, <3>2
  <2>3. (m # MxNone) = (mhold # {}) /\ (spin = 0 => shold = {})
    BY <2>0 DEF MxOwner, MxSpin
  <2>4. \A t \in MxThreads : mpc[t] = "out" =>
          (mres[t] = "0" => t \in mhold) /\ (mres[t] = "ETIMEDOUT" => mnow >= mtill[t])
    BY <2>0, MxAssumption DEF MxOwner, MxCaller
  <2> QED  BY <2>1, <2>2, <2>3, <2>4 DEF MutexHeldByOne
<1> QED  BY <1>1, <1>2
-----------------------------------------------------------------------------
(* Semaphores for Darwin *)

(* Every step keeps the types, and the mutex with the thread that is       *)
(* between its lock and its unlock.                                        *)
LEMMA SemTypeStep == SemTypeOK /\ [SemNext]_semVars => SemTypeOK'
<1> SUFFICES ASSUME SemTypeOK, [SemNext]_semVars PROVE SemTypeOK'
  OBVIOUS
<1> USE DarwinAssumption DEF SemTypeOK, Goto
<1>1. ASSUME NEW t \in Threads, Call(t) PROVE SemTypeOK'
  BY <1>1, SMTT(60) DEF Call
<1>2. ASSUME NEW t \in Threads, Lock(t) PROVE SemTypeOK'
  BY <1>2 DEF Lock, Locked
<1>3. ASSUME NEW t \in Threads, Test(t) PROVE SemTypeOK'
  BY <1>3, SMTT(60) DEF Test
<1>4. ASSUME NEW t \in Threads, Increment(t) PROVE SemTypeOK'
  BY <1>4, SMTT(60) DEF Increment
<1>5. ASSUME NEW t \in Threads, TryVal(t) PROVE SemTypeOK'
  BY <1>5, SMTT(60) DEF TryVal
<1>6. ASSUME NEW t \in Threads, Unlock(t) PROVE SemTypeOK'
  BY <1>6 DEF Unlock
<1>7. ASSUME NEW t \in Threads, Broadcast(t) PROVE SemTypeOK'
  BY <1>7 DEF Broadcast
<1>8. ASSUME NEW t \in Threads, Spurious(t) PROVE SemTypeOK'
  BY <1>8 DEF Spurious
<1>9. CASE UNCHANGED semVars
  BY <1>9 DEF semVars
<1> QED  BY <1>1, <1>2, <1>3, <1>4, <1>5, <1>6, <1>7, <1>8, <1>9 DEF SemNext, SemStep

(* The mutex of the semaphore is held exactly by the thread between its    *)
(* pthread_mutex_lock and the unlock that follows, and s_val never falls   *)
(* below zero.                                                             *)
THEOREM SemTypeCorrect == DarwinSpec => []SemTypeOK
<1>1. SemInit => SemTypeOK
  BY DarwinAssumption, SMTT(60) DEF SemInit, SemTypeOK
<1> QED  BY <1>1, SemTypeStep, PTL DEF DarwinSpec

(* Every step keeps a broadcast ahead of every sleeper that could pass. *)
LEMMA WakeupStep == SemTypeOK /\ NoLostWakeup /\ [SemNext]_semVars => NoLostWakeup'
<1> SUFFICES ASSUME SemTypeOK, NoLostWakeup, [SemNext]_semVars PROVE NoLostWakeup'
  OBVIOUS
<1> USE DEF SemTypeOK, NoLostWakeup, Goto
<1>1. ASSUME NEW t \in Threads, Call(t) PROVE NoLostWakeup'
  BY <1>1 DEF Call
<1>2. ASSUME NEW t \in Threads, Lock(t) PROVE NoLostWakeup'
  BY <1>2 DEF Lock, Locked
<1>3. ASSUME NEW t \in Threads, Test(t) PROVE NoLostWakeup'
  BY <1>3, SMTT(60) DEF Test
<1>4. ASSUME NEW t \in Threads, Increment(t) PROVE NoLostWakeup'
  BY <1>4 DEF Increment
<1>5. ASSUME NEW t \in Threads, TryVal(t) PROVE NoLostWakeup'
  BY <1>5 DEF TryVal
<1>6. ASSUME NEW t \in Threads, Unlock(t) PROVE NoLostWakeup'
  BY <1>6 DEF Unlock
<1>7. ASSUME NEW t \in Threads, Broadcast(t) PROVE NoLostWakeup'
  BY <1>7 DEF Broadcast
<1>8. ASSUME NEW t \in Threads, Spurious(t) PROVE NoLostWakeup'
  BY <1>8 DEF Spurious
<1>9. CASE UNCHANGED semVars
  BY <1>9 DEF semVars
<1> QED  BY <1>1, <1>2, <1>3, <1>4, <1>5, <1>6, <1>7, <1>8, <1>9 DEF SemNext, SemStep

(* No sem_post is missed: as long as a thread sleeps at a positive count,  *)
(* a broadcast that will wake it is on its way.                            *)
THEOREM WakeupKept == DarwinSpec => []NoLostWakeup
<1>1. SemInit => NoLostWakeup
  BY DEF SemInit, NoLostWakeup
<1> QED  BY <1>1, SemTypeCorrect, WakeupStep, PTL DEF DarwinSpec

(* The threads inside sem_wait that have not passed. *)
Waiting == {t \in Threads : pc[t] \in {"wait", "test", "asleep", "woken"}}

(* Every step is a step of the abstract semaphore or changes none of it:   *)
(* the decrement in sem_wait is Pass, the increment in sem_post is Post.   *)
LEMMA SemStepImplements == SemTypeOK /\ [SemNext]_semVars => [Sem!Next]_Sem!sem
<1> SUFFICES ASSUME SemTypeOK, [SemNext]_semVars PROVE [Sem!Next]_Sem!sem
  OBVIOUS
<1> USE DEF SemTypeOK, Goto
<1>0. ASSUME UNCHANGED <<s_val, res>>, Waiting' = Waiting PROVE [Sem!Next]_Sem!sem
  BY <1>0 DEF Sem!sem, Waiting
<1>1. ASSUME NEW t \in Threads, Call(t) PROVE [Sem!Next]_Sem!sem
  <2>1. CASE pc'[t] = "wait"
    <3>1. t \notin Waiting /\ Waiting' = Waiting \cup {t} /\ UNCHANGED <<s_val, res>>
      BY <1>1, <2>1 DEF Call, Waiting
    <3>2. Sem!Arrive(t)
      BY <3>1 DEF Sem!Arrive, Waiting
    <3> QED  BY <3>2 DEF Sem!Next
  <2>2. CASE pc'[t] # "wait"
    <3>1. Waiting' = Waiting /\ UNCHANGED <<s_val, res>>
      BY <1>1, <2>2 DEF Call, Waiting
    <3> QED  BY <1>0, <3>1
  <2> QED  BY <2>1, <2>2
<1>2. ASSUME NEW t \in Threads, Lock(t) PROVE [Sem!Next]_Sem!sem
  <2>1. Waiting' = Waiting /\ UNCHANGED <<s_val, res>>
    BY <1>2 DEF Lock, Locked, Waiting
  <2> QED  BY <1>0, <2>1
<1>3. ASSUME NEW t \in Threads, Test(t) PROVE [Sem!Next]_Sem!sem
  <2>1. CASE s_val = 0
    <3>1. Waiting' = Waiting /\ UNCHANGED <<s_val, res>>
      BY <1>3, <2>1 DEF Test, Waiting
    <3> QED  BY <1>0, <3>1
  <2>2. CASE s_val # 0
    <3>1. t \in Waiting /\ Waiting' = Waiting \ {t} /\ s_val > 0 /\ s_val' = s_val - 1 /\ UNCHANGED res
      BY <1>3, <2>2, SMTT(60) DEF Test, Waiting
    <3>2. Sem!Pass(t)
      BY <3>1 DEF Sem!Pass, Waiting
    <3> QED  BY <3>2 DEF Sem!Next, Sem!PassSome
  <2> QED  BY <2>1, <2>2
<1>4. ASSUME NEW t \in Threads, Increment(t) PROVE [Sem!Next]_Sem!sem
  <2>1. Waiting' = Waiting /\ s_val' = s_val + 1 /\ UNCHANGED res
    BY <1>4 DEF Increment, Waiting
  <2>2. Sem!Post
    BY <2>1 DEF Sem!Post, Waiting
  <2> QED  BY <2>2 DEF Sem!Next
<1>5. ASSUME NEW t \in Threads, TryVal(t) PROVE [Sem!Next]_Sem!sem
  <2>1. t \notin Waiting /\ Waiting' = Waiting
    BY <1>5 DEF TryVal, Waiting
  <2>2. \/ s_val > 0 /\ s_val' = s_val - 1 /\ res' = [res EXCEPT ![t] = "ok"]
        \/ s_val = 0 /\ UNCHANGED s_val /\ res' = [res EXCEPT ![t] = "again"]
    <3>1. CASE s_val > 0
      BY <1>5, <3>1 DEF TryVal
    <3>2. CASE ~ (s_val > 0)
      <4>1. s_val = 0
        BY <3>2, SMTT(60)
      <4> QED  BY <1>5, <3>2, <4>1 DEF TryVal
    <3> QED  BY <3>1, <3>2
  <2>3. Sem!Try(t)
    BY <2>1, <2>2 DEF Sem!Try, Waiting
  <2> QED  BY <2>3 DEF Sem!Next
<1>6. ASSUME NEW t \in Threads, Unlock(t) PROVE [Sem!Next]_Sem!sem
  <2>1. Waiting' = Waiting /\ UNCHANGED <<s_val, res>>
    BY <1>6 DEF Unlock, Waiting
  <2> QED  BY <1>0, <2>1
<1>7. ASSUME NEW t \in Threads, Broadcast(t) PROVE [Sem!Next]_Sem!sem
  <2>1. Waiting' = Waiting /\ UNCHANGED <<s_val, res>>
    BY <1>7 DEF Broadcast, Waiting
  <2> QED  BY <1>0, <2>1
<1>8. ASSUME NEW t \in Threads, Spurious(t) PROVE [Sem!Next]_Sem!sem
  <2>1. Waiting' = Waiting /\ UNCHANGED <<s_val, res>>
    BY <1>8 DEF Spurious, Waiting
  <2> QED  BY <1>0, <2>1
<1>9. CASE UNCHANGED semVars
  BY <1>0, <1>9 DEF semVars, Waiting
<1> QED  BY <1>1, <1>2, <1>3, <1>4, <1>5, <1>6, <1>7, <1>8, <1>9 DEF SemNext, SemStep

(* The mutex and condition variable implement the safety part of a         *)
(* semaphore: no count is lost, or taken twice, and sem_trywait is refused *)
(* at zero only.  (That somebody passes is checked with TLC.)              *)
THEOREM SemImplements == DarwinSpec => Sem!Safe
<1>1. SemInit => Sem!Init
  BY DEF SemInit, Sem!Init
<1> QED  BY <1>1, SemTypeCorrect, SemStepImplements, PTL DEF DarwinSpec, Sem!Safe
-----------------------------------------------------------------------------
(* Threads: their records *)
ThrTypes ==
  /\ mem \in [Kids -> {"none", "live", "freed"}] /\ h \in [Kids -> {-1, 0, 1}]
  /\ kpc \in [Kids -> {"no", "run", "cancel", "exit", "wrapper", "ended"}]
  /\ ppc \in [Kids -> {"create", "failed", "begun", "own", "notify", "detach", "done", "joined"}]
  /\ detached \in [Kids -> BOOLEAN] /\ cancelled \in [Kids -> BOOLEAN] /\ enabled \in [Kids -> BOOLEAN]
  /\ cancelling \in Nat /\ cancels \in Nat /\ handlers \in [Kids -> Nat]

(* What the parent's place says of handle, record and kid; tv->h is the    *)
(* word that tells them apart which of the two frees.                      *)
RecordIs(kid, parent, record, handle, apart) ==
  /\ parent = "create" => kid = "no" /\ record = "none" /\ handle = -1
  /\ parent = "failed" => kid = "no" /\ record # "freed"
  /\ parent = "begun" => handle = -1 /\ kid \notin {"no", "ended"} /\ record = "live"
  /\ parent \in {"own", "notify"} => handle = 1 /\ record = "live" /\ ~ apart
  /\ parent = "detach" => handle = 1 /\ record = "live" /\ apart
  /\ parent = "done" => handle = 0 /\ apart
  /\ parent = "joined" => handle = 1 /\ kid = "ended" /\ ~ apart
  /\ record = "freed" => kid = "ended" /\ parent \in {"done", "joined"}
Record(k) == RecordIs(kpc[k], ppc[k], mem[k], h[k], detached[k])

RecInv == ThrTypes /\ \A k \in Kids : Record(k)

(* A step at one kid leaves the records of the others alone.               *)
Alike(j) ==
  kpc'[j] = kpc[j] /\ ppc'[j] = ppc[j] /\ mem'[j] = mem[j] /\ h'[j] = h[j] /\ detached'[j] = detached[j]

(* So its own record is what there is to look at.                          *)
LEMMA OneKid ==
  ASSUME RecInv, NEW k \in Kids, ThrTypes', \A j \in Kids : j # k => Alike(j), Record(k)'
  PROVE  RecInv'
<1>1. ASSUME NEW j \in Kids, j # k PROVE Record(j)'
  BY <1>1 DEF RecInv, Record, Alike
<1> QED  BY <1>1 DEF RecInv

(* Every step keeps it. *)
LEMMA RecStepKeeps == RecInv /\ [ThrNext]_thrVars => RecInv'
<1> SUFFICES ASSUME RecInv, [ThrNext]_thrVars PROVE RecInv'
  OBVIOUS
<1>0. ThrTypes /\ \A k \in Kids : Record(k)
  BY DEF RecInv
<1> USE DEF KGoto, PGoto, Handle, SetFreed, canc, life
<1>1. ASSUME NEW k \in Kids, Create(k) PROVE RecInv'
  <2>a. ppc[k] = "create" /\ UNCHANGED <<handlers, cancelled, enabled, cancelling, cancels>>
    BY <1>1 DEF Create
  <2>b. kpc[k] = "no" /\ mem[k] = "none" /\ h[k] = -1
    BY <1>0, <2>a DEF Record, RecordIs
  <2>c. PICK kid \in {"no", "run"}, parent \in {"failed", "begun"}, record \in {"none", "live"},
             handle \in {-1, 0}, apart \in BOOLEAN :
          /\ kpc' = [kpc EXCEPT ![k] = kid] /\ ppc' = [ppc EXCEPT ![k] = parent]
          /\ mem' = [mem EXCEPT ![k] = record] /\ h' = [h EXCEPT ![k] = handle]
          /\ detached' = [detached EXCEPT ![k] = apart]
          /\ parent = "failed" => kid = "no"
          /\ parent = "begun" => kid = "run" /\ record = "live" /\ handle = -1
    <3>1. /\ kpc = [kpc EXCEPT ![k] = "no"] /\ mem = [mem EXCEPT ![k] = "none"]
          /\ h = [h EXCEPT ![k] = -1] /\ detached = [detached EXCEPT ![k] = detached[k]]
          /\ detached[k] \in BOOLEAN
      BY <1>0, <2>b DEF ThrTypes
    <3>2. CASE PGoto(k, "failed") /\ UNCHANGED <<keyed, mem, h, kpc, detached>>
      BY <3>1, <3>2
    <3>3. CASE /\ mem' = [mem EXCEPT ![k] = "live"]
               /\ \E d \in BOOLEAN : detached' = [detached EXCEPT ![k] = d]
               /\ KGoto(k, "run") /\ PGoto(k, "begun") /\ UNCHANGED h
      BY <3>1, <3>3
    <3>4. CASE /\ mem' = [mem EXCEPT ![k] = "live"]
               /\ \E d \in BOOLEAN : detached' = [detached EXCEPT ![k] = d]
               /\ Handle(k, 0) /\ PGoto(k, "failed") /\ UNCHANGED kpc
      BY <3>1, <3>4
    <3> QED  BY <1>1, <3>2, <3>3, <3>4 DEF Create
  <2>1. ThrTypes'
    BY <1>0, <2>a, <2>c DEF ThrTypes
  <2>2. \A j \in Kids : j # k => Alike(j)
    BY <1>0, <2>c DEF ThrTypes, Alike
  <2>d. kpc'[k] = kid /\ ppc'[k] = parent /\ mem'[k] = record /\ h'[k] = handle /\ detached'[k] = apart
    BY <1>0, <2>c DEF ThrTypes
  <2>e. RecordIs(kid, parent, record, handle, apart)
    BY <2>c DEF RecordIs
  <2>3. Record(k)'
    BY <2>d, <2>e DEF Record
  <2> QED  BY <2>1, <2>2, <2>3, OneKid
<1>2. ASSUME NEW k \in Kids, SetHandle(k) PROVE RecInv'
  <2>1. ThrTypes'
    BY <1>0, <1>2 DEF SetHandle, ThrTypes
  <2>2. \A j \in Kids : j # k => Alike(j)
    BY <1>0, <1>2 DEF SetHandle, ThrTypes, Alike
  <2>3. Record(k)'
    BY <1>0, <1>2 DEF SetHandle, ThrTypes, Record, RecordIs
  <2> QED  BY <2>1, <2>2, <2>3, OneKid
<1>3. ASSUME NEW k \in Kids, ClearHandle(k) PROVE RecInv'
  <2>1. ThrTypes'
    BY <1>0, <1>3 DEF ClearHandle, ThrTypes
  <2>2. \A j \in Kids : j # k => Alike(j)
    BY <1>0, <1>3 DEF ClearHandle, ThrTypes, Alike
  <2>3. Record(k)'
    <3>1. ppc[k] = "detach" /\ h' = [h EXCEPT ![k] = 0] /\ ppc' = [ppc EXCEPT ![k] = "done"] /\ UNCHANGED <<kpc, mem, detached>>
      BY <1>3 DEF ClearHandle
    <3>2. mem[k] = "live" /\ detached[k]
      BY <1>0, <3>1 DEF Record, RecordIs
    <3>3. h'[k] = 0 /\ ppc'[k] = "done" /\ mem'[k] = "live" /\ detached'[k]
      BY <1>0, <3>1, <3>2 DEF ThrTypes
    <3> QED  BY <3>3 DEF Record, RecordIs
  <2> QED  BY <2>1, <2>2, <2>3, OneKid
<1>4. ASSUME NEW k \in Kids, Detach(k) PROVE RecInv'
  <2>1. ThrTypes'
    BY <1>0, <1>4 DEF Detach, ThrTypes
  <2>2. \A j \in Kids : j # k => Alike(j)
    BY <1>0, <1>4 DEF Detach, ThrTypes, Alike
  <2>3. Record(k)'
    BY <1>0, <1>4 DEF Detach, ThrTypes, Record, RecordIs
  <2> QED  BY <2>1, <2>2, <2>3, OneKid
<1>5. ASSUME NEW k \in Kids, JoinThread(k) PROVE RecInv'
  <2>1. ThrTypes'
    BY <1>0, <1>5 DEF JoinThread, ThrTypes
  <2>2. \A j \in Kids : j # k => Alike(j)
    BY <1>0, <1>5 DEF JoinThread, ThrTypes, Alike
  <2>3. Record(k)'
    BY <1>0, <1>5 DEF JoinThread, ThrTypes, Record, RecordIs
  <2> QED  BY <2>1, <2>2, <2>3, OneKid
<1>6. ASSUME NEW k \in Kids, Cancel(k) PROVE RecInv'
  <2>1. ThrTypes'
    <3>1. cancels' \in Nat
      BY <1>0, <1>6, SMTT(60) DEF Cancel, ThrTypes
    <3> QED  BY <1>0, <1>6, <3>1 DEF Cancel, ThrTypes
  <2>2. \A j \in Kids : j # k => Alike(j)
    BY <1>0, <1>6 DEF Cancel, ThrTypes, Alike
  <2>3. Record(k)'
    BY <1>0, <1>6 DEF Cancel, ThrTypes, Record, RecordIs
  <2> QED  BY <2>1, <2>2, <2>3, OneKid
<1>7. ASSUME NEW k \in Kids, Notify(k) PROVE RecInv'
  <2>1. ThrTypes'
    <3>1. cancelling' \in Nat
      BY <1>0, <1>7, SMTT(60) DEF Notify, ThrTypes
    <3> QED  BY <1>0, <1>7, <3>1 DEF Notify, ThrTypes
  <2>2. \A j \in Kids : j # k => Alike(j)
    BY <1>0, <1>7 DEF Notify, ThrTypes, Alike
  <2>3. Record(k)'
    BY <1>0, <1>7 DEF Notify, ThrTypes, Record, RecordIs
  <2> QED  BY <2>1, <2>2, <2>3, OneKid
<1>8. ASSUME NEW k \in Kids, SetCancelState(k) PROVE RecInv'
  <2>1. ThrTypes'
    BY <1>0, <1>8 DEF SetCancelState, ThrTypes
  <2>2. \A j \in Kids : j # k => Alike(j)
    BY <1>0, <1>8 DEF SetCancelState, ThrTypes, Alike
  <2>3. Record(k)'
    BY <1>0, <1>8 DEF SetCancelState, ThrTypes, Record, RecordIs
  <2> QED  BY <2>1, <2>2, <2>3, OneKid
<1>9. ASSUME NEW k \in Kids, TestCancel(k) PROVE RecInv'
  <2>1. ThrTypes'
    <3>1. cancelling' \in Nat
      BY <1>0, <1>9, SMTT(60) DEF TestCancel, Looks, ThrTypes
    <3> QED  BY <1>0, <1>9, <3>1 DEF TestCancel, ThrTypes
  <2>2. \A j \in Kids : j # k => Alike(j)
    BY <1>0, <1>9 DEF TestCancel, ThrTypes, Alike
  <2>3. Record(k)'
    BY <1>0, <1>9 DEF TestCancel, AtCancelPoint, InCleanup, ThrTypes, Record, RecordIs
  <2> QED  BY <2>1, <2>2, <2>3, OneKid
<1>10. ASSUME NEW k \in Kids, InvokeCancel(k) PROVE RecInv'
  <2>1. ThrTypes'
    <3>1. handlers' \in [Kids -> Nat]
      BY <1>0, <1>10, SMTT(60) DEF InvokeCancel, ThrTypes
    <3> QED  BY <1>0, <1>10, <3>1 DEF InvokeCancel, ThrTypes
  <2>2. \A j \in Kids : j # k => Alike(j)
    BY <1>0, <1>10 DEF InvokeCancel, ThrTypes, Alike
  <2>3. Record(k)'
    BY <1>0, <1>10 DEF InvokeCancel, ThrTypes, Record, RecordIs
  <2> QED  BY <2>1, <2>2, <2>3, OneKid
<1>11. ASSUME NEW k \in Kids, FuncEnds(k) PROVE RecInv'
  <2>1. ThrTypes'
    BY <1>0, <1>11 DEF FuncEnds, ThrTypes
  <2>2. \A j \in Kids : j # k => Alike(j)
    BY <1>0, <1>11 DEF FuncEnds, ThrTypes, Alike
  <2>3. Record(k)'
    BY <1>0, <1>11 DEF FuncEnds, ThrTypes, Record, RecordIs
  <2> QED  BY <2>1, <2>2, <2>3, OneKid
<1>12. ASSUME NEW k \in Kids, CleanupDest(k) PROVE RecInv'
  <2>1. ThrTypes'
    BY <1>0, <1>12 DEF CleanupDest, ThrTypes
  <2>2. \A j \in Kids : j # k => Alike(j)
    BY <1>0, <1>12 DEF CleanupDest, ThrTypes, Alike
  <2>3. Record(k)'
    BY <1>0, <1>12 DEF CleanupDest, ThrTypes, Record, RecordIs
  <2> QED  BY <2>1, <2>2, <2>3, OneKid
<1>13. ASSUME NEW k \in Kids, WrapperEnds(k) PROVE RecInv'
  <2>1. ThrTypes'
    BY <1>0, <1>13 DEF WrapperEnds, ThrTypes
  <2>2. \A j \in Kids : j # k => Alike(j)
    BY <1>0, <1>13 DEF WrapperEnds, ThrTypes, Alike
  <2>3. Record(k)'
    <3>1. /\ kpc[k] = "wrapper" /\ h[k] # -1 /\ kpc' = [kpc EXCEPT ![k] = "ended"] /\ UNCHANGED <<h, ppc, detached>>
          /\ mem' = mem \/ (h[k] = 0 /\ mem' = [mem EXCEPT ![k] = "freed"])
      BY <1>13 DEF WrapperEnds
    <3>2. RecordIs(kpc[k], ppc[k], mem[k], h[k], detached[k])
      BY <1>0 DEF Record
    <3>3. kpc'[k] = "ended" /\ (mem'[k] = mem[k] \/ (h[k] = 0 /\ mem'[k] = "freed"))
      BY <1>0, <3>1 DEF ThrTypes
    <3>4. ppc[k] \in {"own", "notify", "detach", "done"}
      <4>1. ppc[k] \in {"create", "failed", "begun", "own", "notify", "detach", "done", "joined"}
        BY <1>0 DEF ThrTypes
      <4> QED  BY <3>1, <3>2, <4>1 DEF RecordIs
    <3>5. h[k] = 0 => ppc[k] = "done"
      <4>1. 0 # 1
        BY SMTT(60)
      <4> QED  BY <3>2, <3>4, <4>1 DEF RecordIs
    <3>6. RecordIs("ended", ppc[k], mem'[k], h[k], detached[k])
      BY <3>2, <3>3, <3>4, <3>5 DEF RecordIs
    <3> QED  BY <3>1, <3>3, <3>6 DEF Record
  <2> QED  BY <2>1, <2>2, <2>3, OneKid
<1>14. CASE UNCHANGED thrVars
  BY <1>0, <1>14 DEF thrVars, RecInv, ThrTypes, Record, RecordIs
<1> QED  BY <1>1, <1>2, <1>3, <1>4, <1>5, <1>6, <1>7, <1>8, <1>9, <1>10, <1>11, <1>12, <1>13, <1>14
         DEF ThrNext, KidStep, ParentStep

(* It holds at first, and is what RecordLives says, and more.              *)
LEMMA RecHolds == (ThrInit => RecInv) /\ (RecInv => RecordLives)
<1>1. ThrInit => RecInv
  <2>1. -1 \in {-1, 0, 1} /\ 0 \in Nat
    BY SMTT(60)
  <2>2. ThrInit => ThrTypes
    BY <2>1, SMTT(60) DEF ThrInit, ThrTypes
  <2>3. ThrInit => \A k \in Kids : kpc[k] = "no" /\ ppc[k] = "create" /\ mem[k] = "none" /\ h[k] = -1
    BY SMTT(60) DEF ThrInit
  <2>4. ASSUME NEW d PROVE RecordIs("no", "create", "none", -1, d)
    BY DEF RecordIs
  <2> QED  BY <2>2, <2>3, <2>4 DEF RecInv, Record
<1>2. RecInv => RecordLives
  BY DEF RecInv, ThrTypes, Record, RecordIs, RecordLives
<1> QED  BY <1>1, <1>2
-----------------------------------------------------------------------------
(* Threads: cancellation *)
Pending == {k \in Kids : cancelled[k] /\ handlers[k] = 0 /\ kpc[k] # "cancel"}
Notifying == {k \in Kids : ppc[k] = "notify"}
Used == cancels <= 1 \/ \A k \in keyed : ~ cancelled[k]
Counted == cancelling + Cardinality(Notifying) >= Cardinality(Pending)

(* Who goes was asked to, and allowed it; nobody went before the first     *)
(* request, and a single request is in one place at a time.                *)
Goers ==
  \A k \in Kids :
    /\ kpc[k] \in {"no", "run"} => handlers[k] = 0
    /\ handlers[k] # 0 \/ kpc[k] = "cancel" => cancelled[k] /\ enabled[k] /\ kpc[k] \notin {"no", "run"}
NoneYet == cancels = 0 => cancelling = 0 /\ \A k \in Kids : ~ cancelled[k] /\ ppc[k] # "notify"
Single ==
  cancels <= 1 =>
    /\ cancelling <= 1
    /\ \A k \in Kids : ppc[k] = "notify" => cancelling = 0 /\ \A l \in Kids : ppc[l] = "notify" => l = k
    /\ \A k, l \in Kids : cancelling = 1 \/ ppc[k] = "notify" => handlers[l] = 0 /\ kpc[l] # "cancel"
Asked == Goers /\ NoneYet /\ Single

Once == \A k \in Kids : handlers[k] <= 1 /\ (kpc[k] = "cancel" => handlers[k] = 0)

CancelInv == Asked /\ (Used => Counted /\ Once)

(* Steps that have nothing to do with requests keep it.                    *)
LEMMA AskedStays ==
  ASSUME Asked, UNCHANGED <<handlers, cancelled, enabled, cancelling, cancels>>,
         \A l \in Kids : ppc'[l] = "notify" <=> ppc[l] = "notify",
         \A l \in Kids : kpc'[l] = "cancel" <=> kpc[l] = "cancel",
         \A l \in Kids : kpc'[l] \in {"no", "run"} => kpc[l] \in {"no", "run"}
  PROVE  Asked'
<1>1. Goers'  BY DEF Asked, Goers
<1>2. NoneYet'  BY DEF Asked, NoneYet
<1>3. Single'  BY DEF Asked, Single
<1> QED  BY <1>1, <1>2, <1>3 DEF Asked

(* Every step keeps what single requests do.                               *)
LEMMA AskedKeeps == RecInv /\ Asked /\ [ThrNext]_thrVars => Asked'
<1> SUFFICES ASSUME RecInv, Asked, [ThrNext]_thrVars PROVE Asked'
  OBVIOUS
<1>0. ThrTypes /\ Goers /\ NoneYet /\ Single
  BY DEF RecInv, Asked
<1> USE DEF KGoto, PGoto, canc, life
<1>1. ASSUME NEW k \in Kids, Create(k) PROVE Asked'
  <2>1. /\ kpc[k] = "no" /\ ppc[k] = "create"
        /\ UNCHANGED <<handlers, cancelled, enabled, cancelling, cancels>>
    BY <1>1 DEF Create, RecInv, Record, RecordIs
  <2>2. kpc' = kpc \/ kpc' = [kpc EXCEPT ![k] = "run"]
    BY <1>1 DEF Create
  <2>3. ppc' = [ppc EXCEPT ![k] = "failed"] \/ ppc' = [ppc EXCEPT ![k] = "begun"]
    BY <1>1 DEF Create
  <2>4. \A l \in Kids : ppc'[l] = "notify" <=> ppc[l] = "notify"
    BY <1>0, <2>1, <2>3 DEF ThrTypes
  <2>5. \A l \in Kids : kpc'[l] = kpc[l] \/ (kpc[l] = "no" /\ kpc'[l] = "run")
    BY <1>0, <2>1, <2>2 DEF ThrTypes
  <2> QED  BY <2>1, <2>4, <2>5, AskedStays
<1>2. ASSUME NEW k \in Kids, SetHandle(k) \/ ClearHandle(k) \/ Detach(k) \/ JoinThread(k) PROVE Asked'
  <2>1. /\ ppc[k] # "notify" /\ \E c : c # "notify" /\ ppc' = [ppc EXCEPT ![k] = c]
        /\ UNCHANGED <<kpc, handlers, cancelled, enabled, cancelling, cancels>>
    BY <1>2 DEF SetHandle, ClearHandle, Detach, JoinThread
  <2>2. \A l \in Kids : ppc'[l] = "notify" <=> ppc[l] = "notify"
    BY <1>0, <2>1 DEF ThrTypes
  <2> QED  BY <2>1, <2>2, AskedStays
<1>6. ASSUME NEW k \in Kids, Cancel(k) PROVE Asked'
  <2>1. /\ ppc[k] = "own" /\ ppc' = [ppc EXCEPT ![k] = "notify"]
        /\ cancelled' = [cancelled EXCEPT ![k] = TRUE] /\ cancels' = cancels + 1
        /\ UNCHANGED <<kpc, handlers, enabled, cancelling>>
    BY <1>6 DEF Cancel
  <2>2. cancels' # 0 /\ (cancels' <= 1 => cancels = 0) /\ 0 <= 1 /\ 0 # 1
    <3>1. cancels \in Nat /\ cancels' = cancels + 1
      BY <1>0, <2>1 DEF ThrTypes
    <3> QED  BY <3>1, SMTT(60)
  <2>3. \A l \in Kids : cancelled[l] => cancelled'[l]
    BY <1>0, <2>1 DEF ThrTypes
  <2>4. Goers'
    BY <1>0, <2>1, <2>3 DEF Goers
  <2>5. NoneYet'
    BY <2>2 DEF NoneYet
  <2>6. ASSUME cancels' <= 1
        PROVE  /\ cancelling = 0 /\ \A l \in Kids : handlers[l] = 0 /\ kpc[l] # "cancel"
               /\ \A l \in Kids : ppc'[l] = "notify" => l = k
    <3>1. cancelling = 0 /\ \A l \in Kids : ~ cancelled[l] /\ ppc[l] # "notify"
      BY <1>0, <2>2, <2>6 DEF NoneYet
    <3>2. \A l \in Kids : handlers[l] = 0 /\ kpc[l] # "cancel"
      BY <1>0, <3>1 DEF Goers
    <3>3. \A l \in Kids : ppc'[l] = "notify" => l = k
      BY <1>0, <2>1, <3>1 DEF ThrTypes
    <3> QED  BY <3>1, <3>2, <3>3
  <2>7. Single'
    BY <2>1, <2>2, <2>6 DEF Single
  <2> QED  BY <2>4, <2>5, <2>7 DEF Asked
<1>7. ASSUME NEW k \in Kids, Notify(k) PROVE Asked'
  <2>1. /\ ppc[k] = "notify" /\ ppc' = [ppc EXCEPT ![k] = "own"] /\ cancelling' = cancelling + 1
        /\ UNCHANGED <<kpc, handlers, cancelled, enabled, cancels>>
    BY <1>7 DEF Notify
  <2>2. Goers'
    BY <1>0, <2>1 DEF Goers
  <2>3. NoneYet'
    BY <1>0, <2>1 DEF NoneYet
  <2>4. ASSUME cancels <= 1
        PROVE  /\ cancelling = 0 /\ \A l \in Kids : handlers[l] = 0 /\ kpc[l] # "cancel"
               /\ \A l \in Kids : ppc'[l] # "notify"
    <3>1. /\ cancelling = 0 /\ \A l \in Kids : ppc[l] = "notify" => l = k
          /\ \A l \in Kids : handlers[l] = 0 /\ kpc[l] # "cancel"
      BY <1>0, <2>1, <2>4 DEF Single
    <3>2. \A l \in Kids : ppc'[l] # "notify"
      BY <1>0, <2>1, <3>1 DEF ThrTypes
    <3> QED  BY <3>1, <3>2
  <2>5. cancelling = 0 => cancelling' <= 1
    BY <2>1, SMTT(60)
  <2>6. Single'
    BY <2>1, <2>4, <2>5 DEF Single
  <2> QED  BY <2>2, <2>3, <2>6 DEF Asked
<1>8. ASSUME NEW k \in Kids, SetCancelState(k) PROVE Asked'
  <2>1. /\ kpc[k] = "run" /\ enabled' = [enabled EXCEPT ![k] = ~ @]
        /\ UNCHANGED <<ppc, kpc, handlers, cancelled, cancelling, cancels>>
    BY <1>8 DEF SetCancelState
  <2>2. \A l \in Kids : enabled'[l] = enabled[l] \/ kpc[l] = "run"
    BY <1>0, <2>1 DEF ThrTypes
  <2>3. Goers'
    BY <1>0, <2>1, <2>2 DEF Goers
  <2>4. NoneYet' /\ Single'
    BY <1>0, <2>1 DEF NoneYet, Single
  <2> QED  BY <2>3, <2>4 DEF Asked
<1>9. ASSUME NEW k \in Kids, TestCancel(k) PROVE Asked'
  <2>1. /\ kpc' = [kpc EXCEPT ![k] = "cancel"] /\ cancelling' = cancelling - 1
        /\ cancelling # 0 /\ cancelled[k] /\ enabled[k]
        /\ UNCHANGED <<ppc, handlers, cancelled, enabled, cancels>>
    BY <1>9 DEF TestCancel, Looks
  <2>2. kpc'[k] = "cancel" /\ \A l \in Kids : l # k => kpc'[l] = kpc[l]
    BY <1>0, <2>1 DEF ThrTypes
  <2>3. Goers'
    BY <1>0, <2>1, <2>2 DEF Goers
  <2>4. NoneYet'
    BY <1>0, <2>1 DEF NoneYet
  <2>5. (cancelling <= 1 => cancelling = 1 /\ cancelling' = 0) /\ 0 <= 1 /\ 0 # 1
    <3>1. cancelling \in Nat /\ cancelling # 0 /\ cancelling' = cancelling - 1
      BY <1>0, <2>1 DEF ThrTypes
    <3> QED  BY <3>1, SMTT(60)
  <2>6. ASSUME cancels <= 1 PROVE cancelling' = 0 /\ \A l \in Kids : ppc[l] # "notify"
    BY <1>0, <2>1, <2>5, <2>6 DEF Single
  <2>7. Single'
    BY <2>1, <2>5, <2>6 DEF Single
  <2> QED  BY <2>3, <2>4, <2>7 DEF Asked
<1>10. ASSUME NEW k \in Kids, InvokeCancel(k) PROVE Asked'
  <2>1. /\ kpc[k] = "cancel" /\ kpc' = [kpc EXCEPT ![k] = "exit"]
        /\ handlers' = [handlers EXCEPT ![k] = @ + 1]
        /\ UNCHANGED <<ppc, cancelled, enabled, cancelling, cancels>>
    BY <1>10 DEF InvokeCancel
  <2>2. kpc'[k] = "exit" /\ \A l \in Kids : l # k => kpc'[l] = kpc[l] /\ handlers'[l] = handlers[l]
    BY <1>0, <2>1 DEF ThrTypes
  <2>3. cancelled[k] /\ enabled[k]
    BY <1>0, <2>1 DEF Goers
  <2>4. Goers'
    BY <1>0, <2>1, <2>2, <2>3 DEF Goers
  <2>5. NoneYet'
    BY <1>0, <2>1 DEF NoneYet
  <2>6. ASSUME cancels <= 1 PROVE cancelling # 1 /\ \A l \in Kids : ppc[l] # "notify"
    BY <1>0, <2>1, <2>6 DEF Single
  <2>7. Single'
    BY <1>0, <2>1, <2>6 DEF Single
  <2> QED  BY <2>4, <2>5, <2>7 DEF Asked
<1>11. ASSUME NEW k \in Kids, FuncEnds(k) \/ CleanupDest(k) \/ WrapperEnds(k) PROVE Asked'
  <2>1. /\ kpc[k] \in {"run", "exit", "wrapper"} /\ \E c \in {"exit", "wrapper", "ended"} : kpc' = [kpc EXCEPT ![k] = c]
        /\ UNCHANGED <<ppc, handlers, cancelled, enabled, cancelling, cancels>>
    BY <1>11 DEF FuncEnds, CleanupDest, WrapperEnds
  <2>2. \A l \in Kids : kpc'[l] = kpc[l] \/ (kpc[l] # "cancel" /\ kpc'[l] \notin {"no", "run", "cancel"})
    BY <1>0, <2>1 DEF ThrTypes
  <2> QED  BY <2>1, <2>2, AskedStays
<1>14. CASE UNCHANGED thrVars
  BY <1>14, AskedStays DEF thrVars
<1> QED  BY <1>1, <1>2, <1>6, <1>7, <1>8, <1>9, <1>10, <1>11, <1>14
         DEF ThrNext, KidStep, ParentStep

(* Whoever looks and goes, goes for the first time.                        *)
LEMMA FirstTime ==
  ASSUME RecInv, Asked, Used, NEW k \in Kids, TestCancel(k)
  PROVE  handlers[k] = 0 /\ kpc[k] # "cancel" /\ cancelled[k] /\ cancelling \in Nat /\ cancelling > 0
<1>0. /\ cancelling \in Nat /\ cancelling # 0 /\ cancelled[k] /\ kpc[k] # "cancel"
      /\ kpc[k] = "run" \/ k \in keyed
  BY DEF TestCancel, Looks, AtCancelPoint, InCleanup, RecInv, ThrTypes
<1>1. cancelling > 0 /\ (cancelling <= 1 => cancelling = 1)
  BY <1>0, SMTT(60)
<1>2. CASE cancels <= 1
  BY <1>0, <1>1, <1>2 DEF Asked, Single
<1>3. CASE \A l \in keyed : ~ cancelled[l]
  BY <1>0, <1>1, <1>3 DEF Asked, Goers
<1> QED  BY <1>0, <1>1, <1>2, <1>3 DEF Used

(* Every step keeps the count ahead of the requests, and the handlers at   *)
(* one run.                                                                *)
LEMMA CancelStepKeeps == RecInv /\ CancelInv /\ [ThrNext]_thrVars => CancelInv'
<1> SUFFICES ASSUME RecInv, CancelInv, [ThrNext]_thrVars, Used' PROVE Counted' /\ Once'
  BY AskedKeeps DEF CancelInv
<1>0. ThrTypes /\ Asked
  BY DEF RecInv, CancelInv
<1> USE DEF KGoto, PGoto, canc, life
<1>a. ASSUME Used PROVE Counted /\ Once
  BY <1>a DEF CancelInv
<1>b. /\ Cardinality(Pending) \in Nat /\ Cardinality(Notifying) \in Nat /\ cancelling \in Nat
      /\ Pending \subseteq Kids /\ Notifying \subseteq Kids /\ IsFiniteSet(Kids)
  <2>1. Pending \subseteq Kids /\ Notifying \subseteq Kids /\ IsFiniteSet(Kids)
    BY ThrAssumption DEF Pending, Notifying
  <2> QED  BY <1>0, <2>1, FS_Subset, FS_CardinalityType DEF ThrTypes
<1>c. ASSUME Pending' = Pending, Notifying' = Notifying, cancelling' = cancelling, Used PROVE Counted'
  BY <1>a, <1>c DEF Counted
<1>1. ASSUME NEW k \in Kids, Create(k) PROVE Counted' /\ Once'
  <2>1. Used
    BY <1>1 DEF Create, Used
  <2>2. kpc[k] = "no"
    BY <1>1 DEF Create, RecInv, Record, RecordIs
  <2>3. (kpc' = kpc \/ kpc' = [kpc EXCEPT ![k] = "run"]) /\ UNCHANGED <<handlers, cancelled, cancelling>>
    BY <1>1 DEF Create
  <2>4. Pending' = Pending
    BY <1>0, <2>2, <2>3 DEF ThrTypes, Pending
  <2>5. Notifying' = Notifying
    BY <1>0, <1>1 DEF ThrTypes, Create, Notifying
  <2>6. Once'
    BY <1>0, <1>a, <2>1, <2>2, <2>3 DEF ThrTypes, Once
  <2> QED  BY <1>c, <2>1, <2>3, <2>4, <2>5, <2>6
<1>2. ASSUME NEW k \in Kids, keyed' = keyed, SetHandle(k) \/ ClearHandle(k) \/ Detach(k) \/ JoinThread(k)
      PROVE  Counted' /\ Once'
  <2>1. Notifying' = Notifying /\ UNCHANGED <<kpc, handlers, cancelled, enabled, cancelling, cancels>>
    BY <1>0, <1>2 DEF SetHandle, ClearHandle, Detach, JoinThread, Notifying, ThrTypes
  <2>2. Used /\ Pending' = Pending
    BY <1>2, <2>1 DEF Used, Pending
  <2> QED  BY <1>a, <1>c, <2>1, <2>2 DEF Once
<1>6. ASSUME NEW k \in Kids, keyed' = keyed, Cancel(k) PROVE Counted' /\ Once'
  <2>1. Used
    BY <1>0, <1>6, SMTT(60) DEF Cancel, Used, ThrTypes
  <2>2. Notifying' = Notifying \cup {k} /\ k \notin Notifying /\ cancelling' = cancelling
    BY <1>0, <1>6 DEF Cancel, Notifying, ThrTypes
  <2>3. Pending' = Pending \/ (k \notin Pending /\ Pending' = Pending \cup {k})
    BY <1>0, <1>6, SMTT(60) DEF Cancel, Pending, ThrTypes
  <2>4. Cardinality(Notifying') = Cardinality(Notifying) + 1
    BY <1>b, <2>2, OneMore
  <2>5. Cardinality(Pending') = Cardinality(Pending) \/ Cardinality(Pending') = Cardinality(Pending) + 1
    BY <1>b, <2>3, OneMore, SMTT(60)
  <2>6. Counted'
    <3>1. cancelling + Cardinality(Notifying) >= Cardinality(Pending)
      BY <1>a, <2>1 DEF Counted
    <3>2. cancelling' + Cardinality(Notifying') >= Cardinality(Pending')
      BY <1>b, <2>2, <2>4, <2>5, <3>1, SMTT(60)
    <3> QED  BY <3>2 DEF Counted
  <2> QED  BY <1>6, <1>a, <2>1, <2>6 DEF Cancel, Once
<1>7. ASSUME NEW k \in Kids, keyed' = keyed, Notify(k) PROVE Counted' /\ Once'
  <2>1. Used
    BY <1>7 DEF Notify, Used
  <2>2. Notifying' = Notifying \ {k} /\ k \in Notifying /\ cancelling' = cancelling + 1
    BY <1>0, <1>7 DEF Notify, Notifying, ThrTypes
  <2>3. Pending' = Pending
    BY <1>7 DEF Notify, Pending
  <2>4. Cardinality(Notifying') = Cardinality(Notifying) - 1
    BY <1>b, <2>2, OneMore
  <2>5. Counted'
    <3>1. cancelling + Cardinality(Notifying) >= Cardinality(Pending)
      BY <1>a, <2>1 DEF Counted
    <3>2. cancelling' + Cardinality(Notifying') >= Cardinality(Pending)
      BY <1>b, <2>2, <2>4, <3>1, SMTT(60)
    <3> QED  BY <2>3, <3>2 DEF Counted
  <2> QED  BY <1>7, <1>a, <2>1, <2>5 DEF Notify, Once
<1>8. ASSUME NEW k \in Kids, keyed' = keyed, SetCancelState(k) PROVE Counted' /\ Once'
  <2>1. Used /\ Pending' = Pending /\ Notifying' = Notifying /\ UNCHANGED <<cancelling, handlers, kpc>>
    BY <1>8 DEF SetCancelState, Used, Pending, Notifying
  <2> QED  BY <1>a, <1>c, <2>1 DEF Once
<1>9. ASSUME NEW k \in Kids, keyed' = keyed, TestCancel(k) PROVE Counted' /\ Once'
  <2>1. Used
    BY <1>9 DEF TestCancel, Used
  <2>2. handlers[k] = 0 /\ kpc[k] # "cancel" /\ cancelled[k] /\ cancelling > 0
    BY <1>0, <1>9, <2>1, FirstTime
  <2>3. kpc' = [kpc EXCEPT ![k] = "cancel"] /\ cancelling' = cancelling - 1 /\ UNCHANGED <<ppc, handlers, cancelled>>
    BY <1>9 DEF TestCancel
  <2>4. Pending' = Pending \ {k} /\ k \in Pending
    BY <1>0, <2>2, <2>3 DEF Pending, ThrTypes
  <2>5. Notifying' = Notifying
    BY <2>3 DEF Notifying
  <2>6. Cardinality(Pending') = Cardinality(Pending) - 1
    BY <1>b, <2>4, OneMore
  <2>7. Counted'
    <3>1. cancelling + Cardinality(Notifying) >= Cardinality(Pending)
      BY <1>a, <2>1 DEF Counted
    <3>2. cancelling' + Cardinality(Notifying) >= Cardinality(Pending')
      BY <1>b, <2>3, <2>6, <3>1, BothLess
    <3> QED  BY <2>5, <3>2 DEF Counted
  <2>8. Once'
    BY <1>0, <1>a, <2>1, <2>2, <2>3 DEF Once, ThrTypes
  <2> QED  BY <2>7, <2>8
<1>10. ASSUME NEW k \in Kids, keyed' = keyed, InvokeCancel(k) PROVE Counted' /\ Once'
  <2>1. Used /\ UNCHANGED <<ppc, cancelled, cancelling>>
    BY <1>10 DEF InvokeCancel, Used
  <2>2. kpc[k] = "cancel" /\ kpc' = [kpc EXCEPT ![k] = "exit"] /\ handlers' = [handlers EXCEPT ![k] = @ + 1]
    BY <1>10 DEF InvokeCancel
  <2>3. Pending' = Pending
    BY <1>0, <2>1, <2>2, SMTT(60) DEF Pending, ThrTypes
  <2>4. Notifying' = Notifying
    BY <2>1 DEF Notifying
  <2>5. Once'
    BY <1>0, <1>a, <2>1, <2>2, SMTT(60) DEF Once, ThrTypes
  <2> QED  BY <1>c, <2>1, <2>3, <2>4, <2>5
<1>11. ASSUME NEW k \in Kids, keyed' = keyed, FuncEnds(k) \/ CleanupDest(k) \/ WrapperEnds(k)
       PROVE  Counted' /\ Once'
  <2>1. /\ kpc[k] \in {"run", "exit", "wrapper"} /\ \E c \in {"exit", "wrapper", "ended"} : kpc' = [kpc EXCEPT ![k] = c]
        /\ UNCHANGED <<ppc, handlers, cancelled, enabled, cancelling, cancels>>
    BY <1>11 DEF FuncEnds, CleanupDest, WrapperEnds
  <2>2. Used /\ Notifying' = Notifying
    BY <1>11, <2>1 DEF Used, Notifying
  <2>3. Pending' = Pending
    BY <1>0, <2>1 DEF Pending, ThrTypes
  <2>4. Once'
    BY <1>0, <1>a, <2>1, <2>2 DEF Once, ThrTypes
  <2> QED  BY <1>c, <2>1, <2>2, <2>3, <2>4
<1>12. CASE UNCHANGED thrVars
  <2>1. Used /\ Pending' = Pending /\ Notifying' = Notifying /\ UNCHANGED <<cancelling, handlers, kpc>>
    BY <1>12 DEF thrVars, Used, Pending, Notifying
  <2> QED  BY <1>a, <1>c, <2>1 DEF Once
<1> QED  BY <1>1, <1>2, <1>6, <1>7, <1>8, <1>9, <1>10, <1>11, <1>12
         DEF ThrNext, KidStep, ParentStep

(* It holds at first, and is what CancelNoticed says, and more.            *)
LEMMA CancelHolds == (ThrInit => CancelInv) /\ (RecInv /\ CancelInv => CancelNoticed)
<1>1. ASSUME ThrInit PROVE CancelInv
  <2>1. Pending = {} /\ Notifying = {}
    BY <1>1 DEF ThrInit, Pending, Notifying
  <2>2. Cardinality(Pending) = 0 /\ Cardinality(Notifying) = 0
    BY <2>1, FS_EmptySet
  <2>n. 0 + 0 >= 0 /\ 0 <= 1 /\ 0 # 1
    BY SMTT(60)
  <2>3. Counted
    BY <1>1, <2>2, <2>n DEF ThrInit, Counted
  <2>4. Asked /\ Once
    <3>1. /\ cancelling = 0
          /\ \A k \in Kids : handlers[k] = 0 /\ kpc[k] = "no" /\ ppc[k] = "create" /\ ~ cancelled[k]
      BY <1>1 DEF ThrInit
    <3>2. Goers /\ NoneYet /\ Once
      BY <2>n, <3>1 DEF Goers, NoneYet, Once
    <3>3. Single
      BY <2>n, <3>1 DEF Single
    <3> QED  BY <3>2, <3>3 DEF Asked
  <2> QED  BY <2>3, <2>4 DEF CancelInv
<1>2. ASSUME RecInv, CancelInv, Used PROVE Counted /\ \A k \in Kids : handlers[k] <= 1 /\ (handlers[k] = 1 => cancelled[k] /\ enabled[k])
  <2>1. 1 # 0
    BY SMTT(60)
  <2>2. Counted /\ Once /\ Goers
    BY <1>2 DEF CancelInv, Asked
  <2> QED  BY <2>1, <2>2 DEF Once, Goers
<1> QED  BY <1>1, <1>2 DEF CancelNoticed, Used, Counted, Pending, Notifying
-----------------------------------------------------------------------------
(* Thread-specific data *)

(* An array of n slots starts at 0, and n is what its cardinality says.    *)
IsArray(D) == \E n \in Nat : D = 0 .. n - 1

(* A set of naturals that is not empty has a least member.                 *)
LEMMA Lowest ==
  ASSUME NEW S, S \subseteq Nat, S # {}
  PROVE  LowestOf(S) \in S
<1>1. IsWellFoundedOn(OpToRel(<, Nat), Nat)
  BY NatLessThanWellFounded
<1>2. PICK x \in S : \A y \in S : ~ (<<y, x>> \in OpToRel(<, Nat))
  BY <1>1, WFMin
<1>3. \A y \in S : ~ (y < x)
  BY <1>2 DEF OpToRel
<1>4. \A y \in S : x <= y
  BY <1>3, SMTT(60)
<1> QED  BY <1>4 DEF LowestOf

(* The size of an array is its cardinality.                                *)
LEMMA ArraySize ==
  ASSUME NEW D, IsArray(D)
  PROVE  /\ Cardinality(D) \in Nat /\ D = 0 .. Cardinality(D) - 1 /\ D \subseteq Nat
         /\ D # {} => Cardinality(D) > 0
<1>1. PICK n \in Nat : D = 0 .. n - 1
  BY DEF IsArray
<1>2. Cardinality(0 .. n - 1) = n
  BY FS_Interval, SMTT(60)
<1> QED  BY <1>1, <1>2, SMTT(60)

(* Keys have slots, values are kept under keys that had one, and a value   *)
(* is read back as it was stored.                                          *)
KeyInv ==
  /\ IsArray(Slots) /\ inuse \subseteq Slots
  /\ \A k \in Slots \ {0} : (dest[k] # 0) = (k \in inuse)
  /\ DOMAIN stored \subseteq KeyThreads \X Slots
  /\ keyval = [t \in KeyThreads |-> keyval[t]] /\ \A t \in KeyThreads : IsArray(DOMAIN keyval[t])
  /\ \A x \in DOMAIN stored : x[2] \in inuse /\ x \notin beyond => GetSpecific(x[1], x[2]) = stored[x]
  /\ kmem # "ok" => Slots = {}

(* The slots that pthread_key_create finds are slots.                      *)
LEMMA FoundSlots == SlotFor \subseteq Slots
  BY DEF SlotFor

(* A key in a slot that was free: what was stored under it is forgotten.   *)
LEMMA KeyReuses ==
  ASSUME KeyInv, NEW d \in {1, 2}, NEW i \in Slots, kmem' = "ok", UNCHANGED <<keyval, beyond>>,
         dest' = [dest EXCEPT ![i] = d], inuse' = inuse \cup {i},
         stored' = [x \in {x \in DOMAIN stored : x[2] # i} |-> stored[x]]
  PROVE  KeyInv'
<1>1. Slots' = Slots
  BY DEF Slots
<1>2. \A k \in Slots' \ {0} : (dest'[k] # 0) = (k \in inuse')
  BY <1>1, SMTT(60) DEF KeyInv, Slots
<1>3. DOMAIN stored' = {x \in DOMAIN stored : x[2] # i}
  OBVIOUS
<1>4. ASSUME NEW x \in DOMAIN stored', x[2] \in inuse', x \notin beyond'
      PROVE  GetSpecific(x[1], x[2])' = stored'[x]
  <2>1. x \in DOMAIN stored /\ x[2] # i /\ stored'[x] = stored[x]
    BY <1>3
  <2>2. x[2] \in inuse /\ x \notin beyond
    BY <1>4, <2>1
  <2>3. GetSpecific(x[1], x[2]) = stored[x]
    BY <2>1, <2>2 DEF KeyInv
  <2> QED  BY <2>1, <2>3 DEF GetSpecific
<1> QED  BY <1>1, <1>2, <1>3, <1>4 DEF KeyInv

(* More room: the old slots keep what they hold, and the key is a new one. *)
LEMMA KeyExtends ==
  ASSUME KeyInv, NEW d \in {1, 2}, kmem' = "ok", UNCHANGED <<keyval, beyond, stored>>,
         Cardinality(Slots) < KeysMax,
         NEW k, k = IF Slots = {} THEN 1 ELSE Cardinality(Slots),
         NEW r \in KeyRoom, dest' = [r EXCEPT ![k] = d], inuse' = inuse \cup {k}
  PROVE  KeyInv'
<1> DEFINE n == Cardinality(Slots)
<1>0. n \in Nat /\ Slots = 0 .. n - 1 /\ (Slots # {} => n > 0) /\ KeysMax \in Nat /\ KeysMax > 1 /\ n < KeysMax
  BY ArraySize, KeyAssumption DEF KeyInv
<1>1. PICK z \in Nat : RoomFor = 0 .. z - 1 /\ z > n /\ z > k /\ k >= n /\ k \in Nat
  <2>1. CASE Slots = {}
    <3>1. RoomFor = 0 .. 1 /\ k = 1
      BY <1>0, <2>1, SMTT(60) DEF RoomFor
    <3>2. n = 0
      BY <2>1, FS_EmptySet
    <3> HIDE DEF n
    <3>3. 2 - 1 = 1
      BY SMTT(60)
    <3> QED  BY <3>1, <3>2, <3>3, SMTT(60)
  <2>2. CASE Slots # {}
    <3> DEFINE z == IF n * 2 > KeysMax THEN KeysMax ELSE n * 2
    <3>1. RoomFor = 0 .. z - 1 /\ k = n /\ n > 0
      BY <1>0, <2>2 DEF RoomFor
    <3> HIDE DEF n
    <3>2. z \in Nat /\ z > n
      BY <1>0, <3>1, SMTT(60)
    <3> HIDE DEF z
    <3>3. n >= n
      BY <1>0, SMTT(60)
    <3> QED  BY <1>0, <3>1, <3>2, <3>3
  <2> QED  BY <2>1, <2>2
<1>2. PICK g : r = [i \in RoomFor |-> IF i \in Slots THEN dest[i] ELSE IF i = 0 THEN g ELSE 0]
  BY DEF KeyRoom
<1>3. Slots' = 0 .. z - 1
  BY <1>1, <1>2 DEF Slots
<1> HIDE DEF n
<1>4. Slots \subseteq Slots' /\ k \in Slots' /\ k \notin Slots /\ IsArray(Slots') /\ k # 0
  <2>1. Slots \subseteq Slots' /\ k \in Slots' /\ k \notin Slots
    <3>1. n \in Nat /\ Slots = 0 .. n - 1 /\ k \in Nat /\ z > n /\ z > k /\ k >= n
      BY <1>0, <1>1
    <3>2. 0 .. n - 1 \subseteq 0 .. z - 1 /\ k \in 0 .. z - 1 /\ k \notin 0 .. n - 1
      BY <3>1, Longer
    <3> QED  BY <1>3, <3>1, <3>2
  <2>2. k # 0
    BY <1>0, SMTT(60) DEF n
  <2> QED  BY <1>3, <2>1, <2>2 DEF IsArray
<1>5. ASSUME NEW i \in Slots' \ {0} PROVE (dest'[i] # 0) = (i \in inuse')
  <2>1. i \in RoomFor
    BY <1>1, <1>3
  <2>2. CASE i = k
    BY <1>2, <2>1, <2>2, SMTT(60)
  <2>3. CASE i # k /\ i \in Slots
    <3>1. dest'[i] = dest[i]
      BY <1>2, <2>1, <2>3
    <3> QED  BY <2>3, <3>1, SMTT(60) DEF KeyInv
  <2>4. CASE i # k /\ i \notin Slots
    <3>1. dest'[i] = 0
      BY <1>2, <2>1, <2>4
    <3> QED  BY <2>4, <3>1, SMTT(60) DEF KeyInv
  <2> QED  BY <2>2, <2>3, <2>4
<1>6. ASSUME NEW x \in DOMAIN stored', x[2] \in inuse', x \notin beyond'
      PROVE  GetSpecific(x[1], x[2])' = stored'[x]
  <2>1. x[2] \in Slots
    BY DEF KeyInv
  <2>2. x[2] \in inuse
    BY <1>4, <1>6, <2>1
  <2> QED  BY <1>6, <2>2 DEF KeyInv, GetSpecific
<1> QED  BY <1>4, <1>5, <1>6 DEF KeyInv

(* pthread_setspecific: the value is read back, unless it went one past    *)
(* the array; all others stay.                                             *)
LEMMA KeySets ==
  ASSUME KeyInv, NEW t \in KeyThreads, NEW k \in inuse, NEW v, SetSpecific(t, k, v)
  PROVE  KeyInv'
<1> DEFINE max == Cardinality(DOMAIN keyval[t])
           new == IF k > max THEN 2 * (k + 1) ELSE max
           vals == [i \in 0 .. new - 1 |-> IF i = k THEN v ELSE IF i < max THEN keyval[t][i] ELSE 0]
<1>0. /\ UNCHANGED <<dest, sch, inuse, kmem>> /\ keyval' = [keyval EXCEPT ![t] = vals]
      /\ beyond' = IF k = max THEN beyond \cup {<<t, k>>} ELSE beyond
      /\ stored' = [x \in DOMAIN stored \cup {<<t, k>>} |-> IF x = <<t, k>> THEN v ELSE stored[x]]
  BY DEF SetSpecific
<1>1. max \in Nat /\ DOMAIN keyval[t] = 0 .. max - 1 /\ k \in Nat /\ k \in Slots
  <2>1. k \in Slots /\ Slots \subseteq Nat
    BY ArraySize DEF KeyInv
  <2> QED  BY <2>1, ArraySize DEF KeyInv
<1> HIDE DEF max
<1>2. new \in Nat /\ new >= max /\ (k # max => k \in 0 .. new - 1)
  BY <1>1, SMTT(60)
<1> HIDE DEF new
<1>3. keyval'[t] = vals /\ \A u \in KeyThreads \ {t} : keyval'[u] = keyval[u]
  BY <1>0 DEF KeyInv
<1>4. keyval' = [u \in KeyThreads |-> keyval'[u]] /\ \A u \in KeyThreads : IsArray(DOMAIN keyval'[u])
  <2>1. IsArray(0 .. new - 1)
    BY <1>2 DEF IsArray
  <2>2. DOMAIN vals = 0 .. new - 1
    OBVIOUS
  <2>3. keyval' = [u \in KeyThreads |-> keyval'[u]]
    BY <1>0 DEF KeyInv
  <2> HIDE DEF vals
  <2> QED  BY <1>3, <2>1, <2>2, <2>3 DEF KeyInv
<1>5. \A i \in 0 .. new - 1 : vals[i] = IF i = k THEN v ELSE IF i < max THEN keyval[t][i] ELSE 0
  OBVIOUS
<1>6. DOMAIN vals = 0 .. new - 1
  OBVIOUS
<1> HIDE DEF vals
<1>7. ASSUME NEW x \in DOMAIN stored', x[2] \in inuse', x \notin beyond'
      PROVE  GetSpecific(x[1], x[2])' = stored'[x]
  <2>1. CASE x = <<t, k>>
    <3>1. k # max
      BY <1>0, <1>7, <2>1
    <3>2. k \in DOMAIN keyval'[t] /\ keyval'[t][k] = v
      BY <1>2, <1>3, <1>5, <1>6, <3>1
    <3>3. stored'[x] = v
      BY <1>0, <2>1
    <3> QED  BY <2>1, <3>2, <3>3 DEF GetSpecific
  <2>2. CASE x # <<t, k>>
    <3>1. x \in DOMAIN stored /\ x \in KeyThreads \X Slots /\ stored'[x] = stored[x]
      BY <1>0, <2>2 DEF KeyInv
    <3>2. GetSpecific(x[1], x[2]) = stored[x]
      BY <1>0, <1>7, <3>1 DEF KeyInv
    <3>3. CASE x[1] # t
      BY <1>3, <3>1, <3>2, <3>3 DEF GetSpecific
    <3>4. CASE x[1] = t
      <4>1. x[2] # k /\ x[2] \in Nat
        BY <2>2, <3>1, <3>4, ArraySize, SMTT(60) DEF KeyInv
      <4> DEFINE j == x[2]
      <4>2. j # k /\ j \in Nat
        BY <4>1
      <4> HIDE DEF j
      <4>3. (IF j \in DOMAIN keyval'[t] THEN keyval'[t][j] ELSE 0) = IF j \in DOMAIN keyval[t] THEN keyval[t][j] ELSE 0
        <5>1. CASE j < max
          <6>1. j \in 0 .. new - 1 /\ j \in 0 .. max - 1
            BY <1>1, <1>2, <4>2, <5>1, SMTT(60)
          <6> QED  BY <1>1, <1>3, <1>5, <1>6, <4>2, <5>1, <6>1
        <5>2. CASE ~ (j < max)
          <6>1. j \notin 0 .. max - 1
            BY <1>1, <4>2, <5>2, SMTT(60)
          <6> QED  BY <1>1, <1>3, <1>5, <1>6, <4>2, <5>2, <6>1
        <5> QED  BY <5>1, <5>2
      <4> QED  BY <3>1, <3>2, <3>4, <4>3 DEF GetSpecific, j
    <3> QED  BY <3>3, <3>4
  <2> QED  BY <2>1, <2>2
<1>8. DOMAIN stored' \subseteq KeyThreads \X Slots
  BY <1>0, <1>1, SMTT(60) DEF KeyInv
<1> QED  BY <1>0, <1>4, <1>7, <1>8 DEF KeyInv, Slots

(* The destructors of a thread: what they take is forgotten, all else      *)
(* stays.                                                                  *)
LEMMA KeyDestructs ==
  ASSUME KeyInv, NEW t \in KeyThreads, RunDestructors(t)
  PROVE  KeyInv'
<1> DEFINE gone == {k \in DOMAIN keyval[t] : keyval[t][k] # 0 /\ k \in Slots /\ dest[k] = 2}
           vals == [i \in DOMAIN keyval[t] |-> IF i \in gone THEN 0 ELSE keyval[t][i]]
<1>0. /\ UNCHANGED <<dest, sch, inuse, beyond, kmem>> /\ keyval' = [keyval EXCEPT ![t] = vals]
      /\ stored' = [x \in {x \in DOMAIN stored : ~ (x[1] = t /\ x[2] \in gone)} |-> stored[x]]
  BY DEF RunDestructors
<1>1. keyval'[t] = vals /\ \A u \in KeyThreads \ {t} : keyval'[u] = keyval[u]
  BY <1>0 DEF KeyInv
<1>2. DOMAIN vals = DOMAIN keyval[t] /\ \A i \in DOMAIN keyval[t] \ gone : vals[i] = keyval[t][i]
  OBVIOUS
<1>3. keyval' = [u \in KeyThreads |-> keyval'[u]]
  BY <1>0 DEF KeyInv
<1> HIDE DEF vals, gone
<1>4. \A u \in KeyThreads : IsArray(DOMAIN keyval'[u])
  BY <1>1, <1>2 DEF KeyInv
<1>5. ASSUME NEW x \in DOMAIN stored', x[2] \in inuse', x \notin beyond'
      PROVE  GetSpecific(x[1], x[2])' = stored'[x]
  <2>1. /\ x \in DOMAIN stored /\ x \in KeyThreads \X Slots /\ stored'[x] = stored[x]
        /\ ~ (x[1] = t /\ x[2] \in gone)
    BY <1>0 DEF KeyInv
  <2>2. GetSpecific(x[1], x[2]) = stored[x]
    BY <1>0, <1>5, <2>1 DEF KeyInv
  <2>3. CASE x[1] # t
    BY <1>1, <2>1, <2>2, <2>3 DEF GetSpecific
  <2>4. CASE x[1] = t
    BY <1>1, <1>2, <2>1, <2>2, <2>4 DEF GetSpecific
  <2> QED  BY <2>3, <2>4
<1>6. DOMAIN stored' \subseteq KeyThreads \X Slots
  BY <1>0 DEF KeyInv
<1> QED  BY <1>0, <1>3, <1>4, <1>5, <1>6 DEF KeyInv, Slots

(* Every step keeps it. *)
LEMMA KeyStepKeeps == KeyInv /\ [KeyNext]_keyVars => KeyInv'
<1> SUFFICES ASSUME KeyInv, [KeyNext]_keyVars PROVE KeyInv'
  OBVIOUS
<1>1. ASSUME NEW d \in {1, 2}, KeyCreate(d) PROVE KeyInv'
  <2>1. CASE SlotFor # {}
    <3>1. LowestOf(SlotFor) \in Slots
      BY <2>1, Lowest, FoundSlots, ArraySize DEF KeyInv
    <3> QED  BY <1>1, <2>1, <3>1, KeyReuses DEF KeyCreate
  <2>2. CASE SlotFor = {}
    <3> DEFINE k == IF Slots = {} THEN 1 ELSE Cardinality(Slots)
    <3>1. /\ UNCHANGED <<keyval, beyond, stored>> /\ Cardinality(Slots) < KeysMax /\ kmem' = "ok"
          /\ inuse' = inuse \cup {k}
      BY <1>1, <2>2 DEF KeyCreate
    <3>2. PICK r \in KeyRoom : dest' = [r EXCEPT ![k] = d]
      BY <1>1, <2>2 DEF KeyCreate
    <3> QED  BY <3>1, <3>2, KeyExtends
  <2> QED  BY <2>1, <2>2
<1>2. ASSUME NEW k \in inuse, KeyDelete(k) PROVE KeyInv'
  <2>1. dest' = [dest EXCEPT ![k] = 0] /\ inuse' = inuse \ {k} /\ UNCHANGED <<keyval, stored, beyond, kmem>>
    BY <1>2 DEF KeyDelete
  <2>2. Slots' = Slots
    BY <2>1 DEF Slots
  <2>3. \A i \in Slots' \ {0} : (dest'[i] # 0) = (i \in inuse')
    BY <2>1, <2>2, SMTT(60) DEF KeyInv, Slots
  <2> QED  BY <2>1, <2>2, <2>3 DEF KeyInv, GetSpecific
<1>3. CASE KeyCreateNoMem
  <2>1. UNCHANGED <<dest, keyval, inuse, stored, beyond>> /\ (kmem' # "ok" => Slots = {})
    BY <1>3 DEF KeyCreateNoMem
  <2> QED  BY <2>1 DEF KeyInv, Slots, GetSpecific
<1>4. CASE KeyCreateNull
  <2>1. UNCHANGED <<dest, keyval, inuse, stored, beyond>> /\ kmem = "null"
    BY <1>4 DEF KeyCreateNull
  <2>2. Slots = {}
    BY <2>1 DEF KeyInv
  <2> QED  BY <2>1, <2>2 DEF KeyInv, Slots, GetSpecific
<1>5. ASSUME NEW t \in KeyThreads, NEW k \in inuse, SetSpecificNoMem(t, k) PROVE KeyInv'
  BY <1>5 DEF SetSpecificNoMem, KeyInv, Slots, GetSpecific
<1>6. CASE UNCHANGED keyVars
  BY <1>6 DEF keyVars, KeyInv, Slots, GetSpecific
<1> QED  BY <1>1, <1>2, <1>3, <1>4, <1>5, <1>6, KeySets, KeyDestructs DEF KeyNext

(* It holds at first, and is what KeyValues says, and more.                *)
LEMMA KeyHolds == (KeyInit => KeyInv) /\ (KeyInv => KeyValues)
<1>1. ASSUME KeyInit PROVE KeyInv
  <2>1. DOMAIN << >> = {}
    BY SMTT(60)
  <2>2. IsArray({})
    <3>1. {} = 0 .. 0 - 1
      BY SMTT(60)
    <3> QED  BY <3>1 DEF IsArray
  <2>3. Slots = {} /\ inuse = {} /\ DOMAIN stored = {} /\ keyval = [t \in KeyThreads |-> << >>]
    BY <1>1, <2>1 DEF KeyInit, Slots
  <2> QED  BY <2>1, <2>2, <2>3 DEF KeyInv
<1>2. KeyInv => KeyValues
  BY DEF KeyInv, KeyValues
<1> QED  BY <1>1, <1>2
-----------------------------------------------------------------------------
(* Attribute words *)

(* A word put together from its fields.                                    *)
MWord(t, p, q, c) == t + 4 * p + 8 * q + 32 * c
TWord(b1, b2, b3, b4, b5) == b1 + 2 * b2 + 4 * b3 + 8 * b4 + 16 * b5

(* The getters' fields of a word.                                          *)
MFields(w, t, p, q, c) ==
  /\ Field(w, 1, 4) = t /\ Field(w, 4, 2) = 4 * p /\ Field(w, 8, 4) = 8 * q
  /\ w \div 32 = c /\ w % 32 = t + 4 * p + 8 * q
TFields(w, b1, b2, b3, b4, b5) ==
  /\ Field(w, 1, 2) = b1 /\ Field(w, 2, 2) = 2 * b2 /\ Field(w, 4, 2) = 4 * b3
  /\ Field(w, 8, 2) = 8 * b4 /\ Field(w, 16, 2) = 16 * b5

(* A word gives back what it was made of: that of a mutex attribute,       *)
LEMMA MutexWord ==
  ASSUME NEW t \in 0 .. 3, NEW p \in 0 .. 1, NEW q \in 0 .. 3, NEW c \in Nat
  PROVE  MFields(MWord(t, p, q, c), t, p, q, c)
<1> SUFFICES ASSUME NEW w, w = MWord(t, p, q, c) PROVE MFields(w, t, p, q, c)
  OBVIOUS
<1> USE DEF MWord
<1>1. w \in Nat /\ w % 4 = t /\ w \div 1 = w
  BY Z3T(30)
<1>2. w \div 4 = p + 2 * q + 8 * c
  BY Z3T(30)
<1>3. (p + 2 * q + 8 * c) % 2 = p
  BY Z3T(30)
<1>4. w \div 8 = q + 4 * c
  BY Z3T(30)
<1>5. (q + 4 * c) % 4 = q
  BY Z3T(30)
<1>6. w \div 32 = c /\ w % 32 = t + 4 * p + 8 * q
  BY Z3T(30)
<1> QED  BY <1>1, <1>2, <1>3, <1>4, <1>5, <1>6, SMTT(60) DEF Field, MFields

(* and the word of a thread attribute.                                     *)
LEMMA ThreadWord ==
  ASSUME NEW b1 \in 0 .. 1, NEW b2 \in 0 .. 1, NEW b3 \in 0 .. 1, NEW b4 \in 0 .. 1, NEW b5 \in 0 .. 1
  PROVE  TFields(TWord(b1, b2, b3, b4, b5), b1, b2, b3, b4, b5)
<1> SUFFICES ASSUME NEW w, w = TWord(b1, b2, b3, b4, b5) PROVE TFields(w, b1, b2, b3, b4, b5)
  OBVIOUS
<1> USE DEF TWord
<1>1. w \in Nat /\ w % 2 = b1 /\ w \div 1 = w
  BY Z3T(30)
<1>2. w \div 2 = b2 + 2 * b3 + 4 * b4 + 8 * b5 /\ (b2 + 2 * b3 + 4 * b4 + 8 * b5) % 2 = b2
  BY Z3T(30)
<1>3. w \div 4 = b3 + 2 * b4 + 4 * b5 /\ (b3 + 2 * b4 + 4 * b5) % 2 = b3
  BY Z3T(30)
<1>4. w \div 8 = b4 + 2 * b5 /\ (b4 + 2 * b5) % 2 = b4
  BY Z3T(30)
<1>5. w \div 16 = b5 /\ b5 % 2 = b5
  BY Z3T(30)
<1> QED  BY <1>1, <1>2, <1>3, <1>4, <1>5, SMTT(60) DEF Field, TFields

(* The words are what was stored last, field by field.                     *)
MutexAttr(t, p, q, c) ==
  /\ t \in 0 .. 3 /\ p \in 0 .. 1 /\ q \in 0 .. 3 /\ c \in Nat
  /\ a = MWord(t, p, q, c)
  /\ mset = [type |-> t, pshared |-> 4 * p, protocol |-> 8 * q, ceiling |-> c]
ThreadAttr(b1, b2, b3, b4, b5) ==
  /\ b1 \in 0 .. 1 /\ b2 \in 0 .. 1 /\ b3 \in 0 .. 1 /\ b4 \in 0 .. 1 /\ b5 \in 0 .. 1
  /\ p_state = TWord(b1, b2, b3, b4, b5)
  /\ pset = [x \in {1, 2, 4, 8, 16} |-> pset[x]]
  /\ pset[1] = b1 /\ pset[2] = 2 * b2 /\ pset[4] = 4 * b3 /\ pset[8] = 8 * b4 /\ pset[16] = 16 * b5

AttrInv == /\ \E t, p, q, c : MutexAttr(t, p, q, c)
           /\ \E b1, b2, b3, b4, b5 : ThreadAttr(b1, b2, b3, b4, b5)

(* A setter of a mutex attribute exchanges its own field.                  *)
LEMMA MutexAttrSet ==
  ASSUME NEW t, NEW p, NEW q, NEW c, MutexAttr(t, p, q, c), NEW v \in {0, 1, 2, 3, 4, 8, 24},
         SetType(v) \/ SetPshared(v) \/ SetProtocol(v) \/ (v <= 2 /\ SetPrioceiling(v))
  PROVE  \E t1, p1, q1, c1 : MutexAttr(t1, p1, q1, c1)'
<1>0. /\ t \in 0 .. 3 /\ p \in 0 .. 1 /\ q \in 0 .. 3 /\ c \in Nat /\ v \in Nat
      /\ a = MWord(t, p, q, c)
      /\ mset = [type |-> t, pshared |-> 4 * p, protocol |-> 8 * q, ceiling |-> c]
  BY SMTT(60) DEF MutexAttr
<1>1. /\ Field(a, 1, 4) = t /\ Field(a, 4, 2) = 4 * p /\ Field(a, 8, 4) = 8 * q
      /\ a \div 32 = c /\ a % 32 = t + 4 * p + 8 * q
  <2>1. MFields(a, t, p, q, c)
    BY <1>0, MutexWord
  <2> QED  BY <2>1 DEF MFields
<1>2. CASE SetType(v)
  <2>1. v <= 3 /\ a' = a - t + v /\ mset' = [mset EXCEPT !.type = v]
    BY <1>1, <1>2 DEF SetType, Clear
  <2>2. v \in 0 .. 3 /\ a' = MWord(v, p, q, c)
    BY <1>0, <2>1, SMTT(60) DEF MWord
  <2>3. mset' = [type |-> v, pshared |-> 4 * p, protocol |-> 8 * q, ceiling |-> c]
    BY <1>0, <2>1
  <2>4. MutexAttr(v, p, q, c)'
    BY <1>0, <2>2, <2>3 DEF MutexAttr
  <2> QED  BY <2>4
<1>3. CASE SetPshared(v)
  <2>1. Field(v, 4, 2) = v /\ a' = a - 4 * p + v /\ mset' = [mset EXCEPT !.pshared = v]
    BY <1>1, <1>3 DEF SetPshared, Clear
  <2>2. PICK e \in 0 .. 1 : v = 4 * e
    <3>1. ((v \div 4) % 2) * 4 = v
      BY <2>1 DEF Field
    <3>2. (v \div 4) % 2 \in 0 .. 1
      BY <1>0, Z3T(30)
    <3> QED  BY <3>1, <3>2, SMTT(60)
  <2>3. a' = MWord(t, e, q, c)
    BY <1>0, <2>1, <2>2, SMTT(60) DEF MWord
  <2>4. mset' = [type |-> t, pshared |-> 4 * e, protocol |-> 8 * q, ceiling |-> c]
    BY <1>0, <2>1, <2>2
  <2>5. MutexAttr(t, e, q, c)'
    BY <1>0, <2>2, <2>3, <2>4 DEF MutexAttr
  <2> QED  BY <2>5
<1>4. CASE SetProtocol(v)
  <2>1. Field(v, 8, 4) = 24 /\ a' = a - 8 * q + v /\ mset' = [mset EXCEPT !.protocol = v]
    BY <1>1, <1>4 DEF SetProtocol, Clear
  <2>2. v = 8 * 3
    <3>1. ((v \div 8) % 4) * 8 = 24
      BY <2>1 DEF Field
    <3> QED  BY <1>0, <3>1, Z3T(30)
  <2>3. a' = MWord(t, p, 3, c) /\ 3 \in 0 .. 3
    BY <1>0, <2>1, <2>2, SMTT(60) DEF MWord
  <2>4. mset' = [type |-> t, pshared |-> 4 * p, protocol |-> 8 * 3, ceiling |-> c]
    BY <1>0, <2>1, <2>2
  <2>5. MutexAttr(t, p, 3, c)'
    BY <1>0, <2>3, <2>4 DEF MutexAttr
  <2> QED  BY <2>5
<1>5. CASE SetPrioceiling(v)
  <2>1. a' = (t + 4 * p + 8 * q) + v * 32 /\ mset' = [mset EXCEPT !.ceiling = v]
    BY <1>1, <1>5 DEF SetPrioceiling
  <2>2. a' = MWord(t, p, q, v)
    BY <1>0, <2>1, SMTT(60) DEF MWord
  <2>3. mset' = [type |-> t, pshared |-> 4 * p, protocol |-> 8 * q, ceiling |-> v]
    BY <1>0, <2>1
  <2>4. MutexAttr(t, p, q, v)'
    BY <1>0, <2>2, <2>3 DEF MutexAttr
  <2> QED  BY <2>4
<1> QED  BY <1>2, <1>3, <1>4, <1>5

(* A setter of a thread attribute exchanges its own bit.                   *)
LEMMA ThreadAttrSet ==
  ASSUME NEW b1, NEW b2, NEW b3, NEW b4, NEW b5, ThreadAttr(b1, b2, b3, b4, b5),
         NEW f \in {1, 2, 4, 8, 16}, NEW v, SetState(f, v)
  PROVE  \E c1, c2, c3, c4, c5 : ThreadAttr(c1, c2, c3, c4, c5)'
<1>0. /\ b1 \in 0 .. 1 /\ b2 \in 0 .. 1 /\ b3 \in 0 .. 1 /\ b4 \in 0 .. 1 /\ b5 \in 0 .. 1
      /\ p_state = TWord(b1, b2, b3, b4, b5)
      /\ pset = [x \in {1, 2, 4, 8, 16} |-> pset[x]]
      /\ pset[1] = b1 /\ pset[2] = 2 * b2 /\ pset[4] = 4 * b3 /\ pset[8] = 8 * b4 /\ pset[16] = 16 * b5
  BY DEF ThreadAttr
<1>1. /\ Field(p_state, 1, 2) = b1 /\ Field(p_state, 2, 2) = 2 * b2 /\ Field(p_state, 4, 2) = 4 * b3
      /\ Field(p_state, 8, 2) = 8 * b4 /\ Field(p_state, 16, 2) = 16 * b5
  <2>1. TFields(p_state, b1, b2, b3, b4, b5)
    BY <1>0, ThreadWord
  <2> QED  BY <2>1 DEF TFields
<1>2. PICK e \in 0 .. 1 : v = f * e
  BY SMTT(60) DEF SetState
<1>3. p_state' = p_state - Field(p_state, f, 2) + v /\ pset' = [pset EXCEPT ![f] = v]
  BY DEF SetState, Clear
<1>4. pset' = [x \in {1, 2, 4, 8, 16} |-> pset'[x]] /\ pset'[f] = v
  BY <1>0, <1>3
<1>5. \A x \in {1, 2, 4, 8, 16} : x # f => pset'[x] = pset[x]
  BY <1>0, <1>3
<1>6. CASE f = 1
  <2>1. p_state' = TWord(e, b2, b3, b4, b5)
    BY <1>0, <1>1, <1>2, <1>3, <1>6, SMTT(60) DEF TWord
  <2>2. pset'[1] = e /\ pset'[2] = 2 * b2 /\ pset'[4] = 4 * b3 /\ pset'[8] = 8 * b4 /\ pset'[16] = 16 * b5
    BY <1>0, <1>2, <1>4, <1>5, <1>6, SMTT(60)
  <2>3. ThreadAttr(e, b2, b3, b4, b5)'
    BY <1>0, <1>4, <2>1, <2>2 DEF ThreadAttr
  <2> QED  BY <2>3
<1>7. CASE f = 2
  <2>1. p_state' = TWord(b1, e, b3, b4, b5)
    BY <1>0, <1>1, <1>2, <1>3, <1>7, SMTT(60) DEF TWord
  <2>2. pset'[1] = b1 /\ pset'[2] = 2 * e /\ pset'[4] = 4 * b3 /\ pset'[8] = 8 * b4 /\ pset'[16] = 16 * b5
    BY <1>0, <1>2, <1>4, <1>5, <1>7, SMTT(60)
  <2>3. ThreadAttr(b1, e, b3, b4, b5)'
    BY <1>0, <1>4, <2>1, <2>2 DEF ThreadAttr
  <2> QED  BY <2>3
<1>8. CASE f = 4
  <2>1. p_state' = TWord(b1, b2, e, b4, b5)
    BY <1>0, <1>1, <1>2, <1>3, <1>8, SMTT(60) DEF TWord
  <2>2. pset'[1] = b1 /\ pset'[2] = 2 * b2 /\ pset'[4] = 4 * e /\ pset'[8] = 8 * b4 /\ pset'[16] = 16 * b5
    BY <1>0, <1>2, <1>4, <1>5, <1>8, SMTT(60)
  <2>3. ThreadAttr(b1, b2, e, b4, b5)'
    BY <1>0, <1>4, <2>1, <2>2 DEF ThreadAttr
  <2> QED  BY <2>3
<1>9. CASE f = 8
  <2>1. p_state' = TWord(b1, b2, b3, e, b5)
    BY <1>0, <1>1, <1>2, <1>3, <1>9, SMTT(60) DEF TWord
  <2>2. pset'[1] = b1 /\ pset'[2] = 2 * b2 /\ pset'[4] = 4 * b3 /\ pset'[8] = 8 * e /\ pset'[16] = 16 * b5
    BY <1>0, <1>2, <1>4, <1>5, <1>9, SMTT(60)
  <2>3. ThreadAttr(b1, b2, b3, e, b5)'
    BY <1>0, <1>4, <2>1, <2>2 DEF ThreadAttr
  <2> QED  BY <2>3
<1>10. CASE f = 16
  <2>1. p_state' = TWord(b1, b2, b3, b4, e)
    BY <1>0, <1>1, <1>2, <1>3, <1>10, SMTT(60) DEF TWord
  <2>2. pset'[1] = b1 /\ pset'[2] = 2 * b2 /\ pset'[4] = 4 * b3 /\ pset'[8] = 8 * b4 /\ pset'[16] = 16 * e
    BY <1>0, <1>2, <1>4, <1>5, <1>10, SMTT(60)
  <2>3. ThreadAttr(b1, b2, b3, b4, e)'
    BY <1>0, <1>4, <2>1, <2>2 DEF ThreadAttr
  <2> QED  BY <2>3
<1> QED  BY <1>6, <1>7, <1>8, <1>9, <1>10

(* Every step keeps the words apart. *)
LEMMA AttrStepKeeps == AttrInv /\ [AttrNext]_attrVars => AttrInv'
<1> SUFFICES ASSUME AttrInv, [AttrNext]_attrVars PROVE AttrInv'
  OBVIOUS
<1>0. PICK t, p, q, c, b1, b2, b3, b4, b5 : MutexAttr(t, p, q, c) /\ ThreadAttr(b1, b2, b3, b4, b5)
  BY DEF AttrInv
<1>1. UNCHANGED <<a, mset>> => MutexAttr(t, p, q, c)'
  BY <1>0 DEF MutexAttr
<1>2. UNCHANGED <<p_state, pset>> => ThreadAttr(b1, b2, b3, b4, b5)'
  BY <1>0 DEF ThreadAttr
<1>3. CASE UNCHANGED attrVars
  BY <1>1, <1>2, <1>3 DEF attrVars, AttrInv
<1>4. ASSUME UNCHANGED <<p_state, pset>>, NEW v \in {0, 1, 2, 3, 4, 8, 24},
             SetType(v) \/ SetPshared(v) \/ SetProtocol(v) \/ (v <= 2 /\ SetPrioceiling(v))
      PROVE  AttrInv'
  <2>1. \E t1, p1, q1, c1 : MutexAttr(t1, p1, q1, c1)'
    BY <1>0, <1>4, MutexAttrSet
  <2> QED  BY <1>2, <1>4, <2>1 DEF AttrInv
<1>5. ASSUME UNCHANGED <<a, mset>>, NEW f \in {1, 2, 4, 8, 16}, NEW v, SetState(f, v)
      PROVE  AttrInv'
  <2>1. \E c1, c2, c3, c4, c5 : ThreadAttr(c1, c2, c3, c4, c5)'
    BY <1>0, <1>5, ThreadAttrSet
  <2> QED  BY <1>1, <1>5, <2>1 DEF AttrInv
<1> QED  BY <1>3, <1>4, <1>5 DEF AttrNext

(* It holds at first, and is what FieldsApart says.                        *)
LEMMA AttrHolds == (AttrInit => AttrInv) /\ (AttrInv => FieldsApart)
<1>1. ASSUME AttrInit PROVE AttrInv
  <2>1. MutexAttr(0, 0, 0, 0)
    BY <1>1, SMTT(60) DEF AttrInit, MutexAttr, MWord
  <2>2. pset = [x \in {1, 2, 4, 8, 16} |-> pset[x]]
    BY <1>1 DEF AttrInit
  <2>3. pset[1] = 1 /\ pset[2] = 0 /\ pset[4] = 0 /\ pset[8] = 0 /\ pset[16] = 0
    BY <1>1, SMTT(60) DEF AttrInit
  <2>4. p_state = TWord(1, 0, 0, 0, 0)
    BY <1>1, SMTT(60) DEF AttrInit, TWord
  <2>5. ThreadAttr(1, 0, 0, 0, 0)
    BY <2>2, <2>3, <2>4, SMTT(60) DEF ThreadAttr
  <2> QED  BY <2>1, <2>5 DEF AttrInv
<1>2. ASSUME AttrInv PROVE FieldsApart
  <2>0. PICK t, p, q, c, b1, b2, b3, b4, b5 : MutexAttr(t, p, q, c) /\ ThreadAttr(b1, b2, b3, b4, b5)
    BY <1>2 DEF AttrInv
  <2>1. /\ Field(a, 1, 4) = t /\ Field(a, 4, 2) = 4 * p /\ Field(a, 8, 4) = 8 * q
        /\ a \div 32 = c
    <3>1. MFields(a, t, p, q, c)
      BY <2>0, MutexWord DEF MutexAttr
    <3> QED  BY <3>1 DEF MFields
  <2>2. mset = [type |-> GetType, pshared |-> GetPshared, protocol |-> GetProtocol, ceiling |-> GetPrioceiling]
    BY <2>0, <2>1 DEF MutexAttr, GetType, GetPshared, GetProtocol, GetPrioceiling
  <2>3. /\ Field(p_state, 1, 2) = b1 /\ Field(p_state, 2, 2) = 2 * b2 /\ Field(p_state, 4, 2) = 4 * b3
        /\ Field(p_state, 8, 2) = 8 * b4 /\ Field(p_state, 16, 2) = 16 * b5
    <3>1. TFields(p_state, b1, b2, b3, b4, b5)
      BY <2>0, ThreadWord DEF ThreadAttr
    <3> QED  BY <3>1 DEF TFields
  <2>4. DOMAIN pset = {1, 2, 4, 8, 16}
    BY <2>0 DEF ThreadAttr
  <2>5. \A f \in {1, 2, 4, 8, 16} : pset[f] = GetState(f)
    BY <2>0, <2>3 DEF ThreadAttr, GetState
  <2> QED  BY <2>2, <2>4, <2>5 DEF FieldsApart
<1> QED  BY <1>1, <1>2
-----------------------------------------------------------------------------
(* The objects that threads synchronise on keep what their names promise,  *)
(* for any finite sets of threads, any count of a barrier up to the flag   *)
(* and any number of calls: pthread_once runs its function once, a barrier *)
(* opens round by round, a reader-writer lock's word is its holders,       *)
(* mutexes and spin locks have one holder, and no semaphore forgets a      *)
(* sleeper.                                                                *)
THEOREM StaySynchronised == Spec => []Synchronised
<1>1. Spec => []OnceRuns
  <2>1. OnceInv /\ [Next]_vars => OnceInv'
    BY PartSteps, OnceStepKeeps
  <2> QED  BY <2>1, OnceHolds, PTL DEF Spec, Init
<1>2. Spec => []BarrierTogether
  <2>1. BarInv /\ [Next]_vars => BarInv'
    BY PartSteps, BarStepKeeps
  <2> QED  BY <2>1, BarHolds, PTL DEF Spec, Init
<1>3. Spec => []RwExclusion
  <2>1. RwInv /\ [Next]_vars => RwInv'
    BY PartSteps, RwStepKeeps
  <2> QED  BY <2>1, RwHolds, PTL DEF Spec, Init
<1>4. Spec => []MutexHeldByOne
  <2>1. MxInv /\ [Next]_vars => MxInv'
    BY PartSteps, MxStepKeeps
  <2> QED  BY <2>1, MxHolds, PTL DEF Spec, Init
<1>5. Spec => [](SemTypeOK /\ NoLostWakeup)
  <2>1. Spec => DarwinSpec
    BY PartSteps, PTL DEF Spec, Init, DarwinSpec
  <2> QED  BY <2>1, SemTypeCorrect, WakeupKept, PTL
<1> QED  BY <1>1, <1>2, <1>3, <1>4, <1>5, PTL DEF Synchronised

(* What belongs to a thread stays its own: nobody uses a record that was   *)
(* freed, whichever of kid and parent frees it; no request to cancel goes  *)
(* unnoticed or is answered twice, under the usage CancelNoticed states; a *)
(* thread reads back what it stored under a key; and no attribute runs     *)
(* into another.  For any finite number of threads, any keys and calls.    *)
THEOREM ThreadsKeepTheirOwn == Spec => []ThreadsOwn
<1>1. Spec => [](RecordLives /\ CancelNoticed)
  <2>1. RecInv /\ CancelInv /\ [Next]_vars => RecInv' /\ CancelInv'
    BY PartSteps, RecStepKeeps, CancelStepKeeps
  <2> QED  BY <2>1, RecHolds, CancelHolds, PTL DEF Spec, Init
<1>2. Spec => []KeyValues
  <2>1. KeyInv /\ [Next]_vars => KeyInv'
    BY PartSteps, KeyStepKeeps
  <2> QED  BY <2>1, KeyHolds, PTL DEF Spec, Init
<1>3. Spec => []FieldsApart
  <2>1. AttrInv /\ [Next]_vars => AttrInv'
    BY PartSteps, AttrStepKeeps
  <2> QED  BY <2>1, AttrHolds, PTL DEF Spec, Init
<1> QED  BY <1>1, <1>2, <1>3, PTL DEF ThreadsOwn
=============================================================================
