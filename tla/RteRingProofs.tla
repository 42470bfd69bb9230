--------------------------- MODULE RteRingProofs ---------------------------
(***************************************************************************)
(* Proofs about RteRing, for any number of producers and consumers, any    *)
(* size of the ring and of the batches, and any starting index, as long as *)
(* fewer objects go through than an index has values.                      *)
(***************************************************************************)
EXTENDS RteRing, SequenceTheorems, TLAPS

(* A leaf goes to Zenon first, and to the SMT solver when Zenon does not   *)
(* find its proof.                                                         *)
USE ZenonT(20), SMTT(60)

(* Division with remainder: the quotient and the remainder of an integer.  *)
LEMMA Euclid ==
  ASSUME NEW m \in Nat \ {0}, NEW x \in Int
  PROVE  x \div m \in Int /\ x % m \in 0 .. m - 1 /\ x = m * (x \div m) + (x % m)
  BY Z3T(60)

(* Positions relative to a thread's head.                                  *)
LEMMA Relative ==
  ASSUME NEW m \in Int, NEW i \in Int, NEW hd \in Int
  PROVE  i - hd \in Int /\ (m + i) - hd = (i - hd) + m /\ (m + i) - hd \in Int
  BY SMTT(60)

(* The same position seen from the head and from the claim.                *)
LEMMA FromClaim ==
  ASSUME NEW s \in Int, NEW p \in Int, NEW hd \in Int, NEW c \in Int
  PROVE  p - c \in Int /\ hd + ((p - c) - hd) = p - c /\ s + c + ((p - c) - hd) = (s + p) - hd
  BY SMTT(60)

(* Multiples of m that are less than m apart are equal.                    *)
LEMMA MultiplesApart ==
  ASSUME NEW m \in Nat \ {0}, NEW a \in Int, NEW b \in Int, m * a - m * b < m, m * b - m * a < m
  PROVE  a = b
<1>1. \A c \in Nat \ {0} : m * c >= m
  BY Z3T(30)
<1>2. m * (a - b) = m * a - m * b /\ m * (b - a) = m * b - m * a
  BY Z3T(30)
<1>3. a - b \in Int /\ b - a \in Int /\ m * a \in Int /\ m * b \in Int
  BY Z3T(30)
<1>4. ~ (a - b > 0)
  <2> SUFFICES ASSUME a - b > 0 PROVE FALSE
    OBVIOUS
  <2>1. a - b \in Nat \ {0}
    BY <1>3, SMTT(60)
  <2>2. m * (a - b) >= m
    BY <1>1, <2>1
  <2> QED  BY <1>2, <1>3, <2>2, SMTT(60)
<1>5. ~ (b - a > 0)
  <2> SUFFICES ASSUME b - a > 0 PROVE FALSE
    OBVIOUS
  <2>1. b - a \in Nat \ {0}
    BY <1>3, SMTT(60)
  <2>2. m * (b - a) >= m
    BY <1>1, <2>1
  <2> QED  BY <1>2, <1>3, <2>2, SMTT(60)
<1> QED  BY <1>3, <1>4, <1>5, SMTT(60)

(* Integers with the same remainder that are less than m apart are equal.  *)
LEMMA SameRemainder ==
  ASSUME NEW m \in Nat \ {0}, NEW x \in Int, NEW y \in Int, x % m = y % m, x - y < m, y - x < m
  PROVE  x = y
<1> DEFINE a == x \div m
           b == y \div m
           r == x % m
<1>1. a \in Int /\ b \in Int /\ r \in Int /\ x = m * a + r /\ y = m * b + r
  BY Euclid, SMTT(60)
<1> HIDE DEF a, b, r
<1>2. m * a \in Int /\ m * b \in Int
  BY <1>1, Z3T(30)
<1>3. m * a - m * b < m /\ m * b - m * a < m
  BY <1>1, <1>2, SMTT(60)
<1>4. a = b
  BY <1>1, <1>3, MultiplesApart
<1> QED  BY <1>1, <1>4

(* Adding a multiple of m does not change the remainder. *)
LEMMA ShiftRemainder ==
  ASSUME NEW m \in Nat \ {0}, NEW x \in Int, NEW k \in Int
  PROVE  (x + m * k) % m = x % m
<1> DEFINE y == x + m * k
           a == x \div m
           b == y \div m
<1>0. y \in Int /\ m * k \in Int
  BY Z3T(30)
<1>1. a \in Int /\ x % m \in 0 .. m - 1 /\ x = m * a + (x % m)
  BY Euclid
<1>2. b \in Int /\ y % m \in 0 .. m - 1 /\ y = m * b + (y % m)
  BY <1>0, Euclid
<1>3. y = x + m * k
  OBVIOUS
<1> HIDE DEF y, a, b
<1>4. m * a \in Int /\ m * b \in Int /\ m * (a + k) = m * a + m * k /\ a + k \in Int
  BY <1>1, <1>2, Z3T(30)
<1>5. m * (a + k) - m * b < m /\ m * b - m * (a + k) < m
  BY <1>0, <1>1, <1>2, <1>3, <1>4, SMTT(60)
<1>6. a + k = b
  BY <1>2, <1>4, <1>5, MultiplesApart
<1>7. y % m = x % m
  BY <1>0, <1>1, <1>2, <1>3, <1>4, <1>6, SMTT(60)
<1> QED  BY <1>3, <1>7

(* The remainder of an integer in the first turn, and one turn off it.     *)
LEMMA OneTurn ==
  ASSUME NEW m \in Nat \ {0}, NEW d \in 0 .. m - 1
  PROVE  d % m = d /\ (d + m) % m = d /\ (d - m) % m = d
<1>1. d % m = d
  BY Z3T(30)
<1> DEFINE j == -1
<1>i. d \in Int /\ 1 \in Int /\ j \in Int
  BY SMTT(60)
<1>j. j = -1
  OBVIOUS
<1> HIDE DEF j
<1>2. (d + m * 1) % m = d % m /\ (d + m * j) % m = d % m
  BY <1>i, ShiftRemainder
<1>3. d + m * 1 = d + m /\ d + m * j = d - m
  BY <1>j, Z3T(30)
<1> QED  BY <1>1, <1>2, <1>3
-----------------------------------------------------------------------------
(* What an index says of a count of objects: it wraps at most once.        *)
LEMMA IndexOf ==
  ASSUME NEW p \in 0 .. IndexMod - 1
  PROVE  /\ Add(Start, p) = IF Start + p < IndexMod THEN Start + p ELSE Start + p - IndexMod
         /\ Add(Start, p) \in 0 .. IndexMod - 1
<1>1. IndexMod \in Nat \ {0} /\ Start \in 0 .. IndexMod - 1
  BY RingAssumption, SMTT(60)
<1>2. CASE Start + p < IndexMod
  <2>1. Start + p \in 0 .. IndexMod - 1
    BY <1>1, <1>2, SMTT(60)
  <2> QED  BY <1>1, <1>2, <2>1, OneTurn DEF Add
<1>3. CASE ~ (Start + p < IndexMod)
  <2> DEFINE d == Start + p - IndexMod
  <2>1. d \in 0 .. IndexMod - 1 /\ d + IndexMod = Start + p
    BY <1>1, <1>3, SMTT(60)
  <2>2. (d + IndexMod) % IndexMod = d
    BY <1>1, <2>1, OneTurn
  <2> QED  BY <1>1, <1>3, <2>1, <2>2 DEF Add
<1> QED  BY <1>2, <1>3

(* Different counts have different indices; an index moves with its count. *)
LEMMA IndexMoves ==
  ASSUME NEW p \in 0 .. IndexMod - 1, NEW q \in 0 .. IndexMod - 1
  PROVE  /\ Add(Start, p) = Add(Start, q) => p = q
         /\ p <= q => Add(Add(Start, p), q - p) = Add(Start, q)
         /\ q >= p => (Add(Start, q) - Add(Start, p)) % IndexMod = q - p
<1>0. IndexMod \in Nat \ {0} /\ Start \in 0 .. IndexMod - 1
  BY RingAssumption, SMTT(60)
<1>1. /\ Add(Start, p) = IF Start + p < IndexMod THEN Start + p ELSE Start + p - IndexMod
      /\ Add(Start, q) = IF Start + q < IndexMod THEN Start + q ELSE Start + q - IndexMod
  BY IndexOf
<1>2. Add(Start, p) = Add(Start, q) => p = q
  BY <1>0, <1>1, SMTT(60)
<1>3. ASSUME p <= q PROVE Add(Add(Start, p), q - p) = Add(Start, q)
  <2>1. Start + p < IndexMod => Add(Start, p) + (q - p) = Start + q
    BY <1>0, <1>1, SMTT(60)
  <2>2. ~ (Start + p < IndexMod) => Add(Start, p) + (q - p) = Start + q - IndexMod /\ ~ (Start + q < IndexMod)
    BY <1>0, <1>1, <1>3, SMTT(60)
  <2>3. Add(Start, q) \in 0 .. IndexMod - 1
    BY IndexOf
  <2>4. Add(Start, q) % IndexMod = Add(Start, q)
    BY <1>0, <2>3, OneTurn
  <2> QED  BY <1>1, <2>1, <2>2, <2>4 DEF Add
<1>4. ASSUME q >= p PROVE (Add(Start, q) - Add(Start, p)) % IndexMod = q - p
  <2>1. q - p \in 0 .. IndexMod - 1
    BY <1>0, <1>4, SMTT(60)
  <2>2. Add(Start, q) - Add(Start, p) \in {q - p, q - p - IndexMod}
    BY <1>0, <1>1, <1>4, SMTT(60)
  <2>3. (q - p) % IndexMod = q - p /\ (q - p - IndexMod) % IndexMod = q - p
    BY <1>0, <2>1, OneTurn
  <2> QED  BY <2>2, <2>3
<1> QED  BY <1>2, <1>3, <1>4
-----------------------------------------------------------------------------
(* The inductive invariant.  Types of the variables. *)
Ends == {"prod", "cons"}
Objects == Threads \X Nat \X Nat
Types ==
  /\ head \in [Ends -> Int] /\ tail \in [Ends -> Int]
  /\ pc \in [Threads -> {"out", "head", "other", "cas", "copy", "publish"}]
  /\ max \in [Threads -> Nat] /\ n \in [Threads -> Nat] /\ ops \in [Threads -> Nat]
  /\ claim \in [Threads -> Nat] /\ h \in [Threads -> 0 .. IndexMod - 1]
  /\ ret \in [Threads -> Nat \cup {-1}] /\ DOMAIN obj = Threads
  /\ log \in Seq(Objects) /\ pub \in Nat /\ taken \in Nat /\ released \in Nat

(* The counts of objects: what is claimed and not yet released fits.       *)
Ordered ==
  /\ released <= taken /\ taken <= pub /\ pub <= Len(log)
  /\ Len(log) <= released + Mask /\ Len(log) <= MaxObjects

(* An index in the ring, or that a thread holds, stands for a count.       *)
Held(t) == pc[t] \in {"other", "cas", "copy", "publish"}
Indices ==
  /\ \A s \in Ends : head[s] = Add(Start, HeadPos(s)) /\ tail[s] = Add(Start, TailPos(s))
  /\ \A t \in Threads : Held(t) => h[t] = Add(Start, claim[t])

(* How far a side may move its head. *)
Limit(s) == IF s = "prod" THEN released + Mask ELSE pub

(* Before the claim: the head read is not ahead, and the range fits.       *)
Reading(t) == pc[t] \in {"other", "cas"}
Pending ==
  \A t \in Threads :
    /\ pc[t] # "out" => max[t] > 0
    /\ Reading(t) => claim[t] <= HeadPos(Side(t))
    /\ pc[t] = "cas" => n[t] > 0 /\ claim[t] + n[t] <= Limit(Side(t))

(* The ranges claimed and not yet published tile what is between the tail  *)
(* and the head of their side.                                             *)
Active(t) == pc[t] \in {"copy", "publish"}
Covers(t, p) == Active(t) /\ claim[t] <= p /\ p < claim[t] + n[t]
Within(t) == n[t] > 0 /\ TailPos(Side(t)) <= claim[t] /\ claim[t] + n[t] <= HeadPos(Side(t))
Claims ==
  /\ \A t \in Threads : Active(t) => Within(t)
  /\ \A t, u \in Threads :
       t # u /\ Side(t) = Side(u) /\ Active(t) /\ Active(u) =>
         claim[t] + n[t] <= claim[u] \/ claim[u] + n[u] <= claim[t]
  /\ \A s \in Ends : \A p \in Nat :
       TailPos(s) <= p /\ p < HeadPos(s) => \E t \in Threads : Side(t) = s /\ Covers(t, p)

(* A side that does not use the mp/mc functions has one thread at work.    *)
Alone ==
  /\ \A t \in Threads : pc[t] # "out" => ops[t] > 0
  /\ \A t, u \in Threads :
       Side(t) = Side(u) /\ Side(t) \notin multi /\ ops[t] > 0 /\ ops[u] > 0 => t = u
  /\ \A t \in Threads : Side(t) \notin multi /\ Reading(t) => claim[t] = HeadPos(Side(t))

RingInv == Types /\ Ordered /\ Indices /\ Pending /\ Claims /\ Alone
-----------------------------------------------------------------------------
(* The constants, and the side of a thread. *)
LEMMA Constants ==
  /\ Size \in Nat \ {0} /\ Mask \in Nat /\ Size = Mask + 1 /\ IndexMod \in Nat \ {0} /\ Start \in 0 .. IndexMod - 1
  /\ MaxObjects \in Nat /\ MaxObjects + Mask < IndexMod /\ 0 \in 0 .. IndexMod - 1
  /\ \A k \in Counts : k \in Nat /\ k > 0
  BY RingAssumption, SMTT(60) DEF Mask

(* A thread is on the producers' side or on the consumers'. *)
LEMMA Sides ==
  ASSUME NEW t \in Threads
  PROVE  /\ Side(t) \in Ends
         /\ t \in Producers => Side(t) = "prod"
         /\ t \notin Producers => Side(t) = "cons"
  BY DEF Side, Ends

(* The counts behind the head and the tail of a side. *)
LEMMA Positions ==
  ASSUME Types, Ordered, NEW s \in Ends
  PROVE  /\ HeadPos(s) \in Nat /\ TailPos(s) \in Nat /\ Limit(s) \in Nat
         /\ TailPos(s) <= HeadPos(s) /\ HeadPos(s) <= Limit(s)
         /\ HeadPos(s) <= MaxObjects /\ HeadPos(s) \in 0 .. IndexMod - 1 /\ TailPos(s) \in 0 .. IndexMod - 1
<1>1. Len(log) \in Nat /\ pub \in Nat /\ taken \in Nat /\ released \in Nat
  BY SMTT(60) DEF Types
<1>2. CASE s = "prod"
  BY <1>1, <1>2, Constants, SMTT(60) DEF Ordered, HeadPos, TailPos, Limit
<1>3. CASE s = "cons"
  BY <1>1, <1>3, Constants, SMTT(60) DEF Ordered, HeadPos, TailPos, Limit
<1> QED  BY <1>2, <1>3 DEF Ends

(* The count behind the index that a thread holds. *)
LEMMA ClaimBound ==
  ASSUME RingInv, NEW t \in Threads, Held(t)
  PROVE  /\ claim[t] \in 0 .. IndexMod - 1 /\ claim[t] <= HeadPos(Side(t)) /\ h[t] = Add(Start, claim[t])
         /\ Active(t) => claim[t] + n[t] \in 0 .. IndexMod - 1
<1>1. /\ HeadPos(Side(t)) \in Nat /\ HeadPos(Side(t)) <= MaxObjects
  BY Positions, Sides DEF RingInv
<1>2. claim[t] \in Nat /\ n[t] \in Nat
  BY DEF RingInv, Types
<1>3. Reading(t) \/ Active(t)
  BY DEF Held, Reading, Active
<1>4. Reading(t) => claim[t] <= HeadPos(Side(t))
  BY DEF RingInv, Pending
<1>5. Active(t) => claim[t] + n[t] <= HeadPos(Side(t))
  BY DEF RingInv, Claims, Within
<1>6. h[t] = Add(Start, claim[t])
  BY DEF RingInv, Indices
<1> QED  BY <1>1, <1>2, <1>3, <1>4, <1>5, <1>6, Constants, SMTT(60)

(* The room (the objects) for one side, from an index that stands for c.   *)
RoomFrom(s, i) == (IF s = "prod" THEN Mask + tail["cons"] - i ELSE tail["prod"] - i) % IndexMod

(* It is counted exactly, when the head of the side is at c or beyond.     *)
LEMMA RoomIs ==
  ASSUME Types, Ordered, Indices, NEW s \in Ends, NEW c \in Nat, c <= HeadPos(s)
  PROVE  RoomFrom(s, Add(Start, c)) = Limit(s) - c /\ Limit(s) - c \in Nat
<1>1. /\ \A e \in Ends : tail[e] = Add(Start, TailPos(e)) /\ TailPos(e) \in 0 .. IndexMod - 1
      /\ HeadPos(s) \in Nat /\ Limit(s) \in Nat /\ HeadPos(s) <= Limit(s) /\ HeadPos(s) \in 0 .. IndexMod - 1
  BY Positions DEF Indices
<1>2. c \in 0 .. IndexMod - 1
  BY <1>1, Constants, SMTT(60)
<1>4. CASE s = "prod"
  <2>1. tail["cons"] = Add(Start, released) /\ released \in 0 .. IndexMod - 1 /\ Limit(s) = released + Mask
    BY <1>1, <1>4 DEF TailPos, Ends, Limit
  <2>2. released <= MaxObjects
    <3>1. /\ released <= taken /\ taken <= pub /\ pub <= Len(log) /\ Len(log) <= MaxObjects
          /\ taken \in Nat /\ pub \in Nat /\ Len(log) \in Nat
      BY SMTT(60) DEF Types, Ordered
    <3> QED  BY <2>1, <3>1, Constants, SMTT(60)
  <2> DEFINE d == Limit(s) - c
  <2>3. d \in 0 .. IndexMod - 1
    BY <1>1, <1>2, <2>1, <2>2, Constants, SMTT(60)
  <2>4. /\ Add(Start, released) = IF Start + released < IndexMod THEN Start + released ELSE Start + released - IndexMod
        /\ Add(Start, c) = IF Start + c < IndexMod THEN Start + c ELSE Start + c - IndexMod
    BY <1>2, <2>1, IndexOf
  <2>5. Mask + tail["cons"] - Add(Start, c) \in {d, d + IndexMod, d - IndexMod}
    BY <1>2, <2>1, <2>4, Constants, SMTT(60)
  <2>6. d % IndexMod = d /\ (d + IndexMod) % IndexMod = d /\ (d - IndexMod) % IndexMod = d
    BY <2>3, Constants, OneTurn
  <2>7. RoomFrom(s, Add(Start, c)) = d
    BY <1>4, <2>5, <2>6 DEF RoomFrom
  <2> HIDE DEF d
  <2>8. d \in Nat
    BY <2>3, Constants, SMTT(60)
  <2> QED  BY <2>7, <2>8 DEF d
<1>5. CASE s = "cons"
  <2>1. tail["prod"] = Add(Start, pub) /\ pub \in 0 .. IndexMod - 1 /\ Limit(s) = pub
    BY <1>1, <1>5 DEF TailPos, Ends, Limit
  <2>2. pub >= c
    BY <1>1, <1>2, <2>1, SMTT(60)
  <2>3. (tail["prod"] - Add(Start, c)) % IndexMod = pub - c
    BY <1>2, <2>1, <2>2, IndexMoves, SMTT(60)
  <2>4. RoomFrom(s, Add(Start, c)) = pub - c
    BY <1>5, <2>3 DEF RoomFrom
  <2> QED  BY <1>2, <2>1, <2>2, <2>4, SMTT(60)
<1> QED  BY <1>4, <1>5 DEF Ends

(* What a thread finds is counted from the head it read. *)
LEMMA AvailIs ==
  ASSUME RingInv, NEW t \in Threads, pc[t] = "other"
  PROVE  Avail(t) = Limit(Side(t)) - claim[t] /\ Avail(t) \in Nat
<1>1. Held(t)
  BY DEF Held
<1>2. claim[t] <= HeadPos(Side(t)) /\ h[t] = Add(Start, claim[t])
  BY <1>1, ClaimBound
<1>3. claim[t] \in Nat /\ Types /\ Ordered /\ Indices /\ Side(t) \in Ends
  BY Sides DEF RingInv, Types
<1>4. /\ RoomFrom(Side(t), h[t]) = Limit(Side(t)) - claim[t]
      /\ Limit(Side(t)) - claim[t] \in Nat
  BY <1>2, <1>3, RoomIs
<1>5. Avail(t) = RoomFrom(Side(t), h[t])
  BY DEF Avail, RoomFrom, Side
<1> QED  BY <1>4, <1>5
-----------------------------------------------------------------------------
(* A step of t before its claim, or between its claim and its publication, *)
(* moves no object.                                                        *)
Still == UNCHANGED <<head, tail, log, pub, taken, released, multi>>

(* ... so that the counts stay. *)
LEMMA StillCounts ==
  ASSUME Still, NEW s
  PROVE  HeadPos(s)' = HeadPos(s) /\ TailPos(s)' = TailPos(s) /\ Limit(s)' = Limit(s)
  BY DEF Still, HeadPos, TailPos, Limit

(* The claims stay with a step after which the same threads hold the same  *)
(* ranges.                                                                 *)
LEMMA ClaimsStay ==
  ASSUME Claims, Still,
         \A u \in Threads : /\ Active(u)' <=> Active(u)
                            /\ Active(u) => n'[u] = n[u] /\ claim'[u] = claim[u]
  PROVE  Claims'
<1>1. \A s \in Ends : HeadPos(s)' = HeadPos(s) /\ TailPos(s)' = TailPos(s)
  BY StillCounts
<1>2. \A u \in Threads : Side(u) \in Ends
  BY Sides
<1>3. ASSUME NEW u \in Threads, Active(u)' PROVE Within(u)'
  <2>1. Within(u) /\ n'[u] = n[u] /\ claim'[u] = claim[u]
    BY <1>3 DEF Claims
  <2> QED  BY <1>1, <1>2, <2>1 DEF Within
<1>4. ASSUME NEW t \in Threads, NEW u \in Threads, t # u, Side(t) = Side(u), Active(t)', Active(u)'
      PROVE  claim'[t] + n'[t] <= claim'[u] \/ claim'[u] + n'[u] <= claim'[t]
  <2>1. Active(t) /\ Active(u) /\ n'[t] = n[t] /\ claim'[t] = claim[t] /\ n'[u] = n[u] /\ claim'[u] = claim[u]
    BY <1>4
  <2>2. claim[t] + n[t] <= claim[u] \/ claim[u] + n[u] <= claim[t]
    BY <1>4, <2>1 DEF Claims
  <2> QED  BY <2>1, <2>2
<1>5. ASSUME NEW s \in Ends, NEW p \in Nat, TailPos(s)' <= p, p < HeadPos(s)'
      PROVE  \E t \in Threads : Side(t) = s /\ Covers(t, p)'
  <2>1. TailPos(s) <= p /\ p < HeadPos(s)
    BY <1>1, <1>5
  <2>2. PICK t \in Threads : Side(t) = s /\ Covers(t, p)
    BY <2>1 DEF Claims
  <2>3. Covers(t, p)'
    BY <2>2 DEF Covers
  <2> QED  BY <2>2, <2>3
<1> QED  BY <1>3, <1>4, <1>5 DEF Claims

(* A step that moves no object, of a thread t that is as Pending and Alone *)
(* say, keeps the invariant.                                               *)
LEMMA StillStep ==
  ASSUME RingInv, Still, Types', NEW t \in Threads,
         Active(t)' <=> Active(t),
         Active(t) => n'[t] = n[t] /\ claim'[t] = claim[t],
         Held(t)' => h'[t] = Add(Start, claim'[t]),
         pc'[t] # "out" => max'[t] > 0 /\ ops'[t] > 0,
         Reading(t)' => /\ claim'[t] <= HeadPos(Side(t))
                        /\ Side(t) \notin multi => claim'[t] = HeadPos(Side(t)),
         pc'[t] = "cas" => n'[t] > 0 /\ claim'[t] + n'[t] <= Limit(Side(t)),
         \/ ops'[t] = ops[t]
         \/ Side(t) \in multi
         \/ \A u \in Threads \ {t} : Side(u) = Side(t) => ops[u] = 0,
         \A u \in Threads \ {t} : /\ pc'[u] = pc[u] /\ max'[u] = max[u] /\ n'[u] = n[u] /\ h'[u] = h[u]
                                  /\ claim'[u] = claim[u] /\ ops'[u] = ops[u]
  PROVE  RingInv'
<1>1. \A s \in Ends : HeadPos(s)' = HeadPos(s) /\ TailPos(s)' = TailPos(s) /\ Limit(s)' = Limit(s)
  BY StillCounts
<1>2. \A u \in Threads : Side(u) \in Ends
  BY Sides
<1>s. head' = head /\ tail' = tail /\ multi' = multi
  BY DEF Still
<1>3. Ordered'
  BY DEF RingInv, Ordered, Still
<1>4. Indices'
  <2>1. ASSUME NEW s \in Ends PROVE head'[s] = Add(Start, HeadPos(s)') /\ tail'[s] = Add(Start, TailPos(s)')
    BY <1>1, <1>s DEF RingInv, Indices
  <2>2. ASSUME NEW u \in Threads, Held(u)' PROVE h'[u] = Add(Start, claim'[u])
    BY <2>2 DEF RingInv, Indices, Held
  <2> QED  BY <2>1, <2>2 DEF Indices, Add
<1>5. Pending'
  <2> SUFFICES ASSUME NEW u \in Threads
               PROVE  /\ pc'[u] # "out" => max'[u] > 0
                      /\ Reading(u)' => claim'[u] <= HeadPos(Side(u))'
                      /\ pc'[u] = "cas" => n'[u] > 0 /\ claim'[u] + n'[u] <= Limit(Side(u))'
    BY DEF Pending
  <2>1. CASE u = t
    BY <1>1, <1>2, <2>1
  <2>2. CASE u # t
    BY <1>1, <1>2, <2>2 DEF RingInv, Pending, Reading
  <2> QED  BY <2>1, <2>2
<1>6. Claims'
  <2>1. ASSUME NEW u \in Threads
        PROVE /\ Active(u)' <=> Active(u)
              /\ Active(u) => n'[u] = n[u] /\ claim'[u] = claim[u]
    BY DEF Active
  <2> QED  BY <2>1, ClaimsStay DEF RingInv
<1>7. Alone'
  <2>1. ASSUME NEW u \in Threads, pc'[u] # "out" PROVE ops'[u] > 0
    BY <2>1 DEF RingInv, Alone
  <2>2. ASSUME NEW u \in Threads, NEW v \in Threads, Side(u) = Side(v), Side(u) \notin multi, ops'[u] > 0, ops'[v] > 0
        PROVE  u = v
    <3>0. ~ (0 > 0)
      BY SMTT(60)
    <3>1. CASE ops'[t] = ops[t]
      BY <2>2, <3>1 DEF RingInv, Alone
    <3>2. CASE \A w \in Threads \ {t} : Side(w) = Side(t) => ops[w] = 0
      BY <2>2, <3>0, <3>2, SMTT(60) DEF RingInv, Alone
    <3>3. CASE Side(t) \in multi
      BY <2>2, <3>3 DEF RingInv, Alone
    <3> QED  BY <3>1, <3>2, <3>3
  <2>3. ASSUME NEW u \in Threads, Side(u) \notin multi, Reading(u)' PROVE claim'[u] = HeadPos(Side(u))'
    <3>1. CASE u = t
      BY <1>1, <1>2, <2>3, <3>1
    <3>2. CASE u # t
      BY <1>1, <1>2, <2>3, <3>2 DEF RingInv, Alone, Reading
    <3> QED  BY <3>1, <3>2
  <2> QED  BY <1>s, <2>1, <2>2, <2>3 DEF Alone
<1> QED  BY <1>3, <1>4, <1>5, <1>6, <1>7 DEF RingInv
-----------------------------------------------------------------------------
(* A call of any of the enqueue and dequeue functions. *)
LEMMA CallStep ==
  ASSUME RingInv, UNCHANGED multi, NEW t \in Threads, NEW side, NEW ks, NEW b, Call(t, side, ks, b),
         \A k \in ks : k \in Nat /\ k > 0
  PROVE  RingInv'
<1>1. /\ pc \in [Threads -> {"out", "head", "other", "cas", "copy", "publish"}]
      /\ max \in [Threads -> Nat] /\ ops \in [Threads -> Nat]
      /\ DOMAIN pc = Threads /\ DOMAIN max = Threads /\ DOMAIN ops = Threads /\ DOMAIN obj = Threads
  BY DEF RingInv, Types
<1>2. PICK k \in ks : max' = [max EXCEPT ![t] = k]
  BY DEF Call
<1>3. /\ pc' = [pc EXCEPT ![t] = "head"] /\ ops' = [ops EXCEPT ![t] = @ + 1] /\ obj' = [obj EXCEPT ![t] = <<>>]
      /\ head' = head /\ tail' = tail /\ n' = n /\ h' = h /\ ret' = ret /\ claim' = claim
      /\ log' = log /\ pub' = pub /\ taken' = taken /\ released' = released
  BY DEF Call, Goto, hist, moved
<1>4. Side(t) \in multi \/ \A u \in Peers(t) \ {t} : ops[u] = 0
  BY DEF Call
<1>5. Types'
  <2>1. pc' \in [Threads -> {"out", "head", "other", "cas", "copy", "publish"}] /\ DOMAIN obj' = Threads
    BY <1>1, <1>3
  <2>2. max' \in [Threads -> Nat]
    BY <1>1, <1>2
  <2>3. ops' \in [Threads -> Nat]
    BY <1>1, <1>3, SMTT(60)
  <2> QED  BY <1>3, <2>1, <2>2, <2>3 DEF RingInv, Types
<1>6. Still
  BY <1>3 DEF Still
<1>7. pc[t] = "out" /\ pc'[t] = "head" /\ max'[t] > 0 /\ ops'[t] > 0
  <2>1. pc[t] = "out" /\ pc'[t] = "head" /\ max'[t] = k
    BY <1>1, <1>2, <1>3 DEF Call
  <2>2. ops'[t] = ops[t] + 1 /\ ops[t] \in Nat
    BY <1>1, <1>3
  <2> QED  BY <2>1, <2>2, SMTT(60)
<1>8. ~ Active(t) /\ ~ Active(t)' /\ ~ Held(t)' /\ ~ Reading(t)'
  BY <1>7 DEF Active, Held, Reading
<1>9. \A u \in Threads \ {t} : /\ pc'[u] = pc[u] /\ max'[u] = max[u] /\ n'[u] = n[u] /\ h'[u] = h[u]
                               /\ claim'[u] = claim[u] /\ ops'[u] = ops[u]
  BY <1>1, <1>2, <1>3
<1>10. Side(t) \in multi \/ \A u \in Threads \ {t} : Side(u) = Side(t) => ops[u] = 0
  BY <1>4 DEF Peers
<1>11. pc'[t] # "cas"
  BY <1>7
<1> QED  BY <1>5, <1>6, <1>7, <1>8, <1>9, <1>10, <1>11, StillStep, Zenon

(* The load of one's own head. *)
LEMMA ReadHeadStep ==
  ASSUME RingInv, UNCHANGED multi, NEW t \in Threads, ReadHead(t)
  PROVE  RingInv'
<1>0. Types /\ Ordered /\ Indices /\ Pending /\ Alone
  BY DEF RingInv
<1>1. /\ pc \in [Threads -> {"out", "head", "other", "cas", "copy", "publish"}]
      /\ n \in [Threads -> Nat] /\ h \in [Threads -> 0 .. IndexMod - 1] /\ claim \in [Threads -> Nat] /\ max \in [Threads -> Nat]
      /\ DOMAIN pc = Threads /\ DOMAIN n = Threads /\ DOMAIN h = Threads /\ DOMAIN claim = Threads
  BY <1>0 DEF Types
<1>2. /\ Side(t) \in Ends
      /\ HeadPos(Side(t)) \in Nat /\ HeadPos(Side(t)) \in 0 .. IndexMod - 1 /\ HeadPos(Side(t)) <= HeadPos(Side(t))
  <2>1. HeadPos(Side(t)) \in Nat /\ HeadPos(Side(t)) \in 0 .. IndexMod - 1
    BY <1>0, Positions, Sides
  <2> QED  BY <2>1, Sides, SMTT(60)
<1>3. head[Side(t)] = Add(Start, HeadPos(Side(t))) /\ head[Side(t)] \in 0 .. IndexMod - 1
  BY <1>0, <1>2, IndexOf DEF Indices
<1>4. /\ pc[t] = "head" /\ pc' = [pc EXCEPT ![t] = "other"]
      /\ n' = [n EXCEPT ![t] = max[t]] /\ h' = [h EXCEPT ![t] = head[Side(t)]]
      /\ claim' = [claim EXCEPT ![t] = HeadPos(Side(t))]
      /\ head' = head /\ tail' = tail /\ max' = max /\ obj' = obj /\ ops' = ops /\ ret' = ret
      /\ log' = log /\ pub' = pub /\ taken' = taken /\ released' = released
  BY DEF ReadHead, Goto, local, moved
<1>5. Types'
  <2>1. pc' \in [Threads -> {"out", "head", "other", "cas", "copy", "publish"}] /\ n' \in [Threads -> Nat]
    BY <1>1, <1>4
  <2>2. h' \in [Threads -> 0 .. IndexMod - 1] /\ claim' \in [Threads -> Nat]
    BY <1>1, <1>2, <1>3, <1>4
  <2> QED  BY <1>0, <1>4, <2>1, <2>2 DEF Types
<1>6. Still
  BY <1>4 DEF Still
<1>7. pc'[t] = "other" /\ h'[t] = head[Side(t)] /\ claim'[t] = HeadPos(Side(t)) /\ max'[t] = max[t] /\ ops'[t] = ops[t]
  BY <1>1, <1>4
<1>8. ~ Active(t) /\ ~ Active(t)' /\ pc'[t] # "cas"
  BY <1>4, <1>7 DEF Active
<1>9. max'[t] > 0 /\ ops'[t] > 0
  BY <1>0, <1>4, <1>7 DEF Pending, Alone
<1>10. \A u \in Threads \ {t} : /\ pc'[u] = pc[u] /\ max'[u] = max[u] /\ n'[u] = n[u] /\ h'[u] = h[u]
                                /\ claim'[u] = claim[u] /\ ops'[u] = ops[u]
  BY <1>1, <1>4
<1>11. h'[t] = Add(Start, claim'[t]) /\ claim'[t] <= HeadPos(Side(t))
  BY <1>2, <1>3, <1>7
<1> QED  BY <1>5, <1>6, <1>7, <1>8, <1>9, <1>10, <1>11, StillStep, Zenon

(* The load of the other side's tail: a refusal, or a range that fits.     *)
LEMMA ReadTailStep ==
  ASSUME RingInv, UNCHANGED multi, NEW t \in Threads, ReadTail(t)
  PROVE  RingInv'
<1>0. Types /\ Ordered /\ Indices /\ Pending /\ Alone
  BY DEF RingInv
<1>1. /\ pc \in [Threads -> {"out", "head", "other", "cas", "copy", "publish"}]
      /\ n \in [Threads -> Nat] /\ claim \in [Threads -> Nat] /\ max \in [Threads -> Nat] /\ ret \in [Threads -> Nat \cup {-1}]
      /\ DOMAIN pc = Threads /\ DOMAIN n = Threads /\ DOMAIN ret = Threads
  BY <1>0 DEF Types
<1>2. /\ pc[t] = "other"
      /\ head' = head /\ tail' = tail /\ h' = h /\ max' = max /\ obj' = obj /\ ops' = ops /\ claim' = claim
      /\ log' = log /\ pub' = pub /\ taken' = taken /\ released' = released
  BY DEF ReadTail, local, hist, moved
<1>3. Avail(t) = Limit(Side(t)) - claim[t] /\ Avail(t) \in Nat
  BY <1>2, AvailIs
<1>4. Limit(Side(t)) \in Nat
  BY <1>0, Positions, Sides
<1>5. /\ max[t] > 0 /\ ops[t] > 0 /\ claim[t] <= HeadPos(Side(t)) /\ h[t] = Add(Start, claim[t])
      /\ Side(t) \notin multi => claim[t] = HeadPos(Side(t))
  BY <1>0, <1>2 DEF Pending, Alone, Indices, Reading, Held
<1>6. Still
  BY <1>2 DEF Still
<1>7. ~ Active(t)
  BY <1>2 DEF Active
<1>8. CASE \E v \in {-1, 0} : Return(t, v) /\ UNCHANGED n
  <2>1. PICK v \in {-1, 0} : Return(t, v) /\ UNCHANGED n
    BY <1>8
  <2>2. pc' = [pc EXCEPT ![t] = "out"] /\ ret' = [ret EXCEPT ![t] = v] /\ n' = n
    BY <2>1 DEF Return, Goto
  <2>3. pc' \in [Threads -> {"out", "head", "other", "cas", "copy", "publish"}] /\ v \in Nat \cup {-1}
    BY <1>1, <2>2, SMTT(60)
  <2>4. ret' \in [Threads -> Nat \cup {-1}]
    BY <1>1, <2>2, <2>3
  <2>5. Types'
    BY <1>0, <1>2, <2>2, <2>3, <2>4 DEF Types
  <2>6. pc'[t] = "out" /\ \A u \in Threads \ {t} : pc'[u] = pc[u]
    BY <1>1, <2>2
  <2>7. ~ Active(t)' /\ ~ Held(t)' /\ ~ Reading(t)' /\ pc'[t] # "cas"
    BY <2>6 DEF Active, Held, Reading
  <2> QED  BY <1>2, <1>6, <1>7, <2>2, <2>5, <2>6, <2>7, StillStep, Zenon
<1>9. CASE /\ max[t] <= Avail(t) \/ Avail(t) > 0
           /\ n' = [n EXCEPT ![t] = IF max[t] > Avail(t) THEN Avail(t) ELSE max[t]]
           /\ Goto(t, "cas") /\ UNCHANGED ret
  <2> DEFINE k == IF max[t] > Avail(t) THEN Avail(t) ELSE max[t]
  <2>1. k \in Nat /\ k > 0 /\ claim[t] + k <= Limit(Side(t))
    <3>1. claim[t] \in Nat /\ max[t] \in Nat
      BY <1>1
    <3> QED  BY <1>3, <1>4, <1>5, <1>9, <3>1, SMTT(60)
  <2>2. n' = [n EXCEPT ![t] = k] /\ pc' = [pc EXCEPT ![t] = "cas"]
    BY <1>9 DEF Goto
  <2> HIDE DEF k
  <2>3. n' \in [Threads -> Nat] /\ pc' \in [Threads -> {"out", "head", "other", "cas", "copy", "publish"}]
    BY <1>1, <2>1, <2>2
  <2>4. Types'
    BY <1>0, <1>2, <1>9, <2>3 DEF Types
  <2>5. pc'[t] = "cas" /\ n'[t] = k /\ \A u \in Threads \ {t} : pc'[u] = pc[u] /\ n'[u] = n[u]
    BY <1>1, <2>2
  <2>6. ~ Active(t)'
    BY <2>5 DEF Active
  <2> QED  BY <1>2, <1>5, <1>6, <1>7, <2>1, <2>4, <2>5, <2>6, StillStep, Zenon
<1> QED  BY <1>8, <1>9 DEF ReadTail

(* A compare-and-swap that fails. *)
LEMMA RetryStep ==
  ASSUME RingInv, UNCHANGED multi, NEW t \in Threads, pc[t] = "cas",
         Goto(t, "head") /\ UNCHANGED <<head, tail, ring, n, h, local, ret, hist>>
  PROVE  RingInv'
<1>0. Types /\ Pending /\ Alone
  BY DEF RingInv
<1>1. pc \in [Threads -> {"out", "head", "other", "cas", "copy", "publish"}] /\ DOMAIN pc = Threads
  BY <1>0 DEF Types
<1>2. /\ pc' = [pc EXCEPT ![t] = "head"]
      /\ head' = head /\ tail' = tail /\ n' = n /\ h' = h /\ max' = max /\ obj' = obj /\ ops' = ops /\ claim' = claim
      /\ ret' = ret /\ log' = log /\ pub' = pub /\ taken' = taken /\ released' = released
  BY DEF Goto, local, hist, moved
<1>3. pc' \in [Threads -> {"out", "head", "other", "cas", "copy", "publish"}]
  BY <1>1, <1>2
<1>4. Types'
  BY <1>0, <1>2, <1>3 DEF Types
<1>5. pc'[t] = "head" /\ \A u \in Threads \ {t} : pc'[u] = pc[u]
  BY <1>1, <1>2
<1>6. max[t] > 0 /\ ops[t] > 0
  BY <1>0 DEF Pending, Alone
<1>7. ~ Active(t) /\ ~ Active(t)' /\ ~ Held(t)' /\ ~ Reading(t)' /\ pc'[t] # "cas"
  BY <1>5 DEF Active, Held, Reading
<1>8. Still
  BY <1>2 DEF Still
<1> QED  BY <1>2, <1>4, <1>5, <1>6, <1>7, <1>8, StillStep, Zenon

(* The copy between the ring and the caller's table. *)
LEMMA CopyStep ==
  ASSUME RingInv, UNCHANGED multi, NEW t \in Threads, Copy(t)
  PROVE  RingInv'
<1>0. Types /\ Pending /\ Alone /\ Indices
  BY DEF RingInv
<1>1. /\ pc \in [Threads -> {"out", "head", "other", "cas", "copy", "publish"}] /\ DOMAIN pc = Threads
      /\ DOMAIN obj = Threads
  BY <1>0 DEF Types
<1>2. /\ pc[t] = "copy" /\ pc' = [pc EXCEPT ![t] = "publish"] /\ DOMAIN obj' = DOMAIN obj
      /\ head' = head /\ tail' = tail /\ n' = n /\ h' = h /\ max' = max /\ ops' = ops /\ claim' = claim
      /\ ret' = ret /\ log' = log /\ pub' = pub /\ taken' = taken /\ released' = released
  BY DEF Copy, Goto, hist, moved
<1>3. pc' \in [Threads -> {"out", "head", "other", "cas", "copy", "publish"}]
  BY <1>1, <1>2
<1>4. Types'
  BY <1>0, <1>1, <1>2, <1>3 DEF Types
<1>5. pc'[t] = "publish" /\ \A u \in Threads \ {t} : pc'[u] = pc[u]
  BY <1>1, <1>2
<1>6. max[t] > 0 /\ ops[t] > 0 /\ h[t] = Add(Start, claim[t])
  BY <1>0, <1>2 DEF Pending, Alone, Indices, Held
<1>7. Active(t) /\ Active(t)' /\ ~ Reading(t)' /\ pc'[t] # "cas"
  BY <1>2, <1>5 DEF Active, Reading
<1>8. Still
  BY <1>2 DEF Still
<1> QED  BY <1>2, <1>4, <1>5, <1>6, <1>7, <1>8, StillStep, Zenon
-----------------------------------------------------------------------------
(* A table of k entries, as a sequence. *)
LEMMA Table ==
  ASSUME NEW S, NEW k \in Nat, NEW f \in [1 .. k -> S]
  PROVE  f \in Seq(S) /\ Len(f) = k
<1>1. f \in Seq(S)
  BY SeqDef, Zenon
<1>2. DOMAIN f = 1 .. Len(f) /\ Len(f) \in Nat /\ DOMAIN f = 1 .. k
  BY <1>1, LenProperties
<1>3. 1 .. Len(f) = 1 .. k
  BY <1>2
<1> QED  BY <1>1, <1>2, <1>3, SMTT(60)

(* r is s, and then f. *)
FollowedBy(r, s, f) ==
  /\ Len(r) = Len(s) + Len(f)
  /\ \A i \in 1 .. Len(s) : r[i] = s[i]
  /\ \A j \in 1 .. Len(f) : r[Len(s) + j] = f[j]

(* A table added to the end of a sequence. *)
LEMMA Joined ==
  ASSUME NEW S, NEW s \in Seq(S), NEW f \in Seq(S), NEW r, r = s \o f
  PROVE  r \in Seq(S) /\ FollowedBy(r, s, f)
<1>1. Len(f) \in Nat /\ Len(s) \in Nat
  BY LenProperties
<1>2. /\ s \o f \in Seq(S) /\ Len(s \o f) = Len(s) + Len(f)
      /\ \A i \in 1 .. Len(s) + Len(f) : (s \o f)[i] = IF i <= Len(s) THEN s[i] ELSE f[i - Len(s)]
  BY <1>1, ConcatProperties
<1>3. \A i \in 1 .. Len(s) : i \in 1 .. Len(s) + Len(f) /\ i <= Len(s)
  BY <1>1, SMTT(60)
<1>4. \A j \in 1 .. Len(f) : Len(s) + j \in 1 .. Len(s) + Len(f) /\ ~ (Len(s) + j <= Len(s)) /\ (Len(s) + j) - Len(s) = j
  BY <1>1, SMTT(60)
<1>5. \A i \in 1 .. Len(s) : r[i] = s[i]
  BY <1>2, <1>3, Zenon
<1>6. \A j \in 1 .. Len(f) : r[Len(s) + j] = f[j]
  BY <1>2, <1>4, Zenon
<1> QED  BY <1>2, <1>5, <1>6 DEF FollowedBy

(* An enqueue's objects at the end of the history. *)
Batched(t) == [j \in 1 .. n[t] |-> <<t, ops[t], j>>]
(* The claim of an enqueue puts its batch behind the history.              *)
LEMMA Enqueued ==
  ASSUME Types, NEW t \in Threads, log' = log \o Batched(t)
  PROVE  /\ log' \in Seq(Objects) /\ Len(log') = Len(log) + n[t]
         /\ \A k \in 1 .. Len(log) : log'[k] = log[k]
         /\ \A j \in 1 .. n[t] : log'[Len(log) + j] = <<t, ops[t], j>>
<1>1. n[t] \in Nat /\ ops[t] \in Nat /\ log \in Seq(Objects)
  BY DEF Types
<1>2. /\ \A j \in 1 .. n[t] : Batched(t)[j] \in Objects /\ Batched(t)[j] = <<t, ops[t], j>>
      /\ Batched(t) \in [1 .. n[t] -> Objects]
  BY <1>1, SMTT(60) DEF Objects, Batched
<1>3. Batched(t) \in Seq(Objects) /\ Len(Batched(t)) = n[t]
  BY <1>1, <1>2, Table
<1>4. log' \in Seq(Objects) /\ FollowedBy(log', log, Batched(t))
  BY <1>1, <1>3, Joined
<1> QED  BY <1>2, <1>3, <1>4, Zenon DEF FollowedBy

(* How a claim moves the counts. *)
LEMMA ClaimCounts ==
  ASSUME Types, NEW t \in Threads, Claimed(t)
  PROVE  /\ log' \in Seq(Objects) /\ taken' \in Nat /\ pub' = pub /\ released' = released
         /\ HeadPos(Side(t))' = HeadPos(Side(t)) + n[t]
         /\ \A s \in Ends : s # Side(t) => HeadPos(s)' = HeadPos(s)
         /\ \A s \in Ends : TailPos(s)' = TailPos(s) /\ Limit(s)' = Limit(s)
         /\ \A k \in 1 .. Len(log) : log'[k] = log[k]
<1>1. n[t] \in Nat /\ taken \in Nat /\ log \in Seq(Objects)
  BY DEF Types
<1>2. pub' = pub /\ released' = released
  BY DEF Claimed
<1>3. CASE t \in Producers
  <2>1. log' = log \o Batched(t) /\ taken' = taken
    BY <1>3 DEF Claimed, Batched
  <2>2. /\ log' \in Seq(Objects) /\ Len(log') = Len(log) + n[t]
        /\ \A k \in 1 .. Len(log) : log'[k] = log[k]
    BY <2>1, Enqueued
  <2>3. Side(t) = "prod"
    BY <1>3, Sides
  <2> QED  BY <1>1, <1>2, <2>1, <2>2, <2>3 DEF HeadPos, TailPos, Limit, Ends
<1>4. CASE t \notin Producers
  <2>1. taken' = taken + n[t] /\ log' = log /\ taken' \in Nat
    BY <1>1, <1>4, SMTT(60) DEF Claimed
  <2>3. Side(t) = "cons"
    BY <1>4, Sides
  <2> QED  BY <1>1, <1>2, <2>1, <2>3 DEF HeadPos, TailPos, Limit, Ends
<1> QED  BY <1>3, <1>4

(* A claim from the head of the side: the range of t is added at its end.  *)
LEMMA ClaimsGrow ==
  ASSUME Types, Claims, NEW t \in Threads, Types', ~ Active(t), Active(t)', n[t] > 0,
         claim[t] = HeadPos(Side(t)), n' = n, claim' = claim,
         \A s \in Ends : HeadPos(s) \in Nat /\ TailPos(s) \in Nat /\ TailPos(s) <= HeadPos(s),
         HeadPos(Side(t))' = HeadPos(Side(t)) + n[t],
         \A s \in Ends : s # Side(t) => HeadPos(s)' = HeadPos(s),
         \A s \in Ends : TailPos(s)' = TailPos(s),
         \A u \in Threads \ {t} : Active(u)' <=> Active(u)
  PROVE  Claims'
<1>0. /\ \A u \in Threads : n[u] \in Nat /\ claim[u] \in Nat /\ Side(u) \in Ends
      /\ HeadPos(Side(t)) \in Nat
  BY Sides DEF Types
<1>1. ASSUME NEW u \in Threads, Active(u)' PROVE Within(u)'
  <2>1. CASE u = t
    <3>1. /\ TailPos(Side(t))' <= claim'[t] /\ claim'[t] + n'[t] <= HeadPos(Side(t))' /\ n'[t] > 0
      <4>1. TailPos(Side(t)) <= claim[t] /\ TailPos(Side(t))' = TailPos(Side(t))
        BY <1>0
      <4>2. claim[t] + n[t] = HeadPos(Side(t))' /\ claim[t] + n[t] <= claim[t] + n[t]
        BY <1>0, SMTT(60)
      <4> QED  BY <4>1, <4>2
    <3> QED  BY <2>1, <3>1 DEF Within
  <2>2. CASE u # t
    <3>1. n[u] > 0 /\ TailPos(Side(u)) <= claim[u] /\ claim[u] + n[u] <= HeadPos(Side(u))
      BY <1>1, <2>2 DEF Claims, Within
    <3>2. HeadPos(Side(u)) <= HeadPos(Side(u))' /\ HeadPos(Side(u)) \in Nat /\ HeadPos(Side(u))' \in Nat
      <4>1. CASE Side(u) = Side(t)
        BY <1>0, <4>1, SMTT(60)
      <4>2. CASE Side(u) # Side(t)
        <5>1. HeadPos(Side(u))' = HeadPos(Side(u)) /\ HeadPos(Side(u)) \in Nat
          BY <1>0, <4>2
        <5> QED  BY <5>1, SMTT(60)
      <4> QED  BY <4>1, <4>2
    <3>3. claim[u] + n[u] <= HeadPos(Side(u))'
      BY <1>0, <3>1, <3>2, SMTT(60)
    <3>4. TailPos(Side(u))' = TailPos(Side(u))
      BY <1>0
    <3> QED  BY <3>1, <3>3, <3>4 DEF Within
  <2> QED  BY <2>1, <2>2
<1>2. ASSUME NEW u \in Threads, u # t, Side(u) = Side(t), Active(u)' PROVE claim[u] + n[u] <= claim[t]
  BY <1>2 DEF Claims, Within
<1>3. ASSUME NEW v \in Threads, NEW u \in Threads, v # u, Side(v) = Side(u), Active(v)', Active(u)'
      PROVE  claim'[v] + n'[v] <= claim'[u] \/ claim'[u] + n'[u] <= claim'[v]
  <2>1. CASE v = t
    BY <1>2, <1>3, <2>1
  <2>2. CASE u = t
    BY <1>2, <1>3, <2>2
  <2>3. CASE v # t /\ u # t
    <3>1. Active(v) /\ Active(u)
      BY <1>3, <2>3
    <3>2. claim[v] + n[v] <= claim[u] \/ claim[u] + n[u] <= claim[v]
      BY <1>3, <3>1 DEF Claims
    <3> QED  BY <3>2
  <2> QED  BY <2>1, <2>2, <2>3
<1>4. ASSUME NEW s \in Ends, NEW p \in Nat, TailPos(s)' <= p, p < HeadPos(s)'
      PROVE  \E u \in Threads : Side(u) = s /\ Covers(u, p)'
  <2>1. CASE p < HeadPos(s)
    <3>1. TailPos(s) <= p
      BY <1>4
    <3>2. PICK u \in Threads : Side(u) = s /\ Covers(u, p)
      BY <2>1, <3>1 DEF Claims
    <3>3. u # t /\ Covers(u, p)'
      BY <3>2 DEF Covers
    <3> QED  BY <3>2, <3>3
  <2>2. CASE ~ (p < HeadPos(s))
    <3>1. s = Side(t)
      BY <1>4, <2>2
    <3>2. claim[t] <= p /\ p < claim[t] + n[t]
      BY <1>0, <1>4, <2>2, <3>1, SMTT(60)
    <3>3. Covers(t, p)'
      BY <3>2 DEF Covers
    <3> QED  BY <3>1, <3>3
  <2> QED  BY <2>1, <2>2
<1> QED  BY <1>1, <1>3, <1>4 DEF Claims

(* A claim, by compare-and-swap or by the store of a side's only thread,   *)
(* from the head that the side has.                                        *)
LEMMA ClaimStep ==
  ASSUME RingInv, UNCHANGED multi, NEW t \in Threads, pc[t] = "cas", Claimed(t),
         claim[t] = HeadPos(Side(t))
  PROVE  RingInv'
<1> DEFINE s == Side(t)
<1>0. Types /\ Ordered /\ Indices /\ Pending /\ Claims /\ Alone
  BY DEF RingInv
<1>1. /\ pc \in [Threads -> {"out", "head", "other", "cas", "copy", "publish"}] /\ DOMAIN pc = Threads
      /\ head \in [Ends -> Int] /\ DOMAIN head = Ends /\ claim[t] \in Nat /\ n[t] \in Nat
  BY <1>0 DEF Types
<1>2. /\ s \in Ends
      /\ \A e \in Ends : /\ HeadPos(e) \in Nat /\ TailPos(e) \in Nat /\ TailPos(e) <= HeadPos(e)
                         /\ Limit(e) \in Nat
  BY <1>0, Sides, Positions
<1>3. /\ pc' = [pc EXCEPT ![t] = "copy"] /\ head' = [head EXCEPT ![s] = Add(h[t], n[t])]
      /\ tail' = tail /\ n' = n /\ h' = h /\ max' = max /\ obj' = obj /\ ops' = ops /\ claim' = claim /\ ret' = ret
      /\ HeadPos(s) + n[t] <= MaxObjects
  BY DEF Claimed, Goto, local
<1>4. /\ log' \in Seq(Objects) /\ taken' \in Nat /\ pub' = pub /\ released' = released
      /\ HeadPos(s)' = HeadPos(s) + n[t]
      /\ \A e \in Ends : e # s => HeadPos(e)' = HeadPos(e)
      /\ \A e \in Ends : TailPos(e)' = TailPos(e) /\ Limit(e)' = Limit(e)
  BY <1>0, ClaimCounts
<1>5. n[t] > 0 /\ claim[t] + n[t] <= Limit(s) /\ max[t] > 0 /\ ops[t] > 0 /\ h[t] = Add(Start, claim[t])
  BY <1>0 DEF Pending, Alone, Indices, Held
<1>6. Add(h[t], n[t]) = Add(Start, HeadPos(s)') /\ Add(h[t], n[t]) \in Int
  <2> DEFINE q == claim[t] + n[t]
  <2>1. /\ claim[t] \in 0 .. IndexMod - 1 /\ q \in 0 .. IndexMod - 1 /\ claim[t] <= q /\ q - claim[t] = n[t]
    BY <1>1, <1>2, <1>3, Constants, SMTT(60)
  <2>2. q = HeadPos(s)'
    BY <1>4
  <2> HIDE DEF q
  <2>3. Add(Add(Start, claim[t]), q - claim[t]) = Add(Start, q) /\ Add(Start, q) \in 0 .. IndexMod - 1
    BY <2>1, IndexMoves, IndexOf
  <2>4. Add(h[t], n[t]) = Add(Start, q)
    BY <1>5, <2>1, <2>3
  <2> QED  BY <2>2, <2>3, <2>4, Constants, SMTT(60)
<1>7. pc'[t] = "copy" /\ \A u \in Threads \ {t} : pc'[u] = pc[u]
  BY <1>1, <1>3
<1>8. ~ Active(t) /\ Active(t)' /\ \A u \in Threads \ {t} : Active(u)' <=> Active(u)
  BY <1>7 DEF Active
<1>9. Types'
  <2>1. /\ pc' \in [Threads -> {"out", "head", "other", "cas", "copy", "publish"}]
        /\ head' \in [Ends -> Int]
    BY <1>1, <1>2, <1>3, <1>6
  <2> QED  BY <1>0, <1>3, <1>4, <2>1 DEF Types
<1>10. Ordered'
  <2>1. Len(log) \in Nat /\ taken \in Nat /\ pub \in Nat /\ released \in Nat
    BY <1>0, SMTT(60) DEF Types
  <2>2. CASE t \in Producers
    <3>1. taken' = taken /\ s = "prod" /\ Len(log') = Len(log) + n[t] /\ claim[t] = Len(log) /\ Limit(s) = released + Mask
      BY <1>4, <2>2, Sides DEF Claimed, HeadPos, Limit
    <3> QED  BY <1>0, <1>1, <1>3, <1>4, <1>5, <2>1, <3>1, Constants, SMTT(60) DEF Ordered, HeadPos
  <2>3. CASE t \notin Producers
    <3>1. log' = log /\ s = "cons" /\ taken' = taken + n[t] /\ claim[t] = taken /\ Limit(s) = pub
      BY <1>4, <2>3, Sides DEF Claimed, HeadPos, Limit
    <3> QED  BY <1>0, <1>1, <1>4, <1>5, <2>1, <3>1, Constants, SMTT(60) DEF Ordered
  <2> QED  BY <2>2, <2>3
<1>11. Indices'
  <2>1. ASSUME NEW e \in Ends PROVE head'[e] = Add(Start, HeadPos(e)') /\ tail'[e] = Add(Start, TailPos(e)')
    <3>1. CASE e = s
      BY <1>0, <1>1, <1>2, <1>3, <1>4, <1>6, <3>1 DEF Indices
    <3>2. CASE e # s
      BY <1>0, <1>1, <1>2, <1>3, <1>4, <3>2 DEF Indices
    <3> QED  BY <3>1, <3>2
  <2>2. ASSUME NEW u \in Threads, Held(u)' PROVE h'[u] = Add(Start, claim'[u])
    BY <1>0, <1>3, <1>5, <1>7, <2>2 DEF Indices, Held
  <2> QED  BY <2>1, <2>2 DEF Indices, Add
<1>12. Claims'
  BY <1>0, <1>2, <1>3, <1>4, <1>5, <1>8, <1>9, ClaimsGrow
<1>13. Pending'
  <2> SUFFICES ASSUME NEW u \in Threads
               PROVE  /\ pc'[u] # "out" => max'[u] > 0
                      /\ Reading(u)' => claim'[u] <= HeadPos(Side(u))'
                      /\ pc'[u] = "cas" => n'[u] > 0 /\ claim'[u] + n'[u] <= Limit(Side(u))'
    BY DEF Pending
  <2>1. CASE u = t
    BY <1>3, <1>5, <1>7, <2>1 DEF Reading
  <2>2. CASE u # t
    <3>1. pc'[u] = pc[u] /\ (Reading(u)' <=> Reading(u)) /\ Limit(Side(u))' = Limit(Side(u))
      BY <1>4, <1>7, <2>2, Sides DEF Reading
    <3>2. HeadPos(Side(u)) <= HeadPos(Side(u))' /\ HeadPos(Side(u)) \in Nat /\ HeadPos(Side(u))' \in Nat
      <4>0. HeadPos(Side(u)) \in Nat /\ Side(u) \in Ends
        BY <1>2, Sides
      <4>1. CASE Side(u) = s
        BY <1>1, <1>4, <4>0, <4>1, SMTT(60)
      <4>2. CASE Side(u) # s
        <5>1. HeadPos(Side(u))' = HeadPos(Side(u))
          BY <1>4, <4>0, <4>2
        <5> QED  BY <4>0, <5>1, SMTT(60)
      <4> QED  BY <4>1, <4>2
    <3>3. claim[u] \in Nat /\ (Reading(u) => claim[u] <= HeadPos(Side(u)))
      BY <1>0 DEF Types, Pending
    <3>4. Reading(u) => claim[u] <= HeadPos(Side(u))'
      BY <3>2, <3>3, SMTT(60)
    <3>5. /\ pc[u] # "out" => max[u] > 0
          /\ pc[u] = "cas" => n[u] > 0 /\ claim[u] + n[u] <= Limit(Side(u))
      BY <1>0 DEF Pending
    <3> QED  BY <1>3, <3>1, <3>4, <3>5
  <2> QED  BY <2>1, <2>2
<1>14. Alone'
  <2>1. ASSUME NEW u \in Threads, pc'[u] # "out" PROVE ops'[u] > 0
    BY <1>0, <1>3, <1>5, <1>7, <2>1 DEF Alone
  <2>2. ASSUME NEW u \in Threads, NEW v \in Threads, Side(u) = Side(v), Side(u) \notin multi, ops'[u] > 0, ops'[v] > 0
        PROVE  u = v
    BY <1>0, <1>3, <2>2 DEF Alone
  <2>3. ASSUME NEW u \in Threads, Side(u) \notin multi, Reading(u)' PROVE claim'[u] = HeadPos(Side(u))'
    <3>1. u # t /\ Reading(u) /\ pc[u] # "out"
      BY <1>7, <2>3 DEF Reading
    <3>2. ops[u] > 0
      BY <1>0, <3>1 DEF Alone
    <3>3. Side(u) # s
      BY <1>0, <1>5, <2>3, <3>1, <3>2 DEF Alone
    <3>4. HeadPos(Side(u))' = HeadPos(Side(u))
      BY <1>4, <3>3, Sides
    <3> QED  BY <1>0, <1>3, <2>3, <3>1, <3>4 DEF Alone
  <2> QED  BY <2>1, <2>2, <2>3 DEF Alone
<1> QED  BY <1>9, <1>10, <1>11, <1>12, <1>13, <1>14 DEF RingInv
-----------------------------------------------------------------------------
(* When a side has claims, one of them starts at its tail. *)
LEMMA FirstInLine ==
  ASSUME RingInv, NEW t \in Threads, Active(t)
  PROVE  \E u \in Threads : Side(u) = Side(t) /\ Active(u) /\ claim[u] = TailPos(Side(t))
<1>0. Types /\ Ordered /\ Claims
  BY DEF RingInv
<1>1. Side(t) \in Ends /\ HeadPos(Side(t)) \in Nat /\ TailPos(Side(t)) \in Nat /\ claim[t] \in Nat /\ n[t] \in Nat
  BY <1>0, Sides, Positions DEF Types
<1>2. Within(t)
  BY <1>0 DEF Claims
<1>3. TailPos(Side(t)) < HeadPos(Side(t)) /\ TailPos(Side(t)) <= TailPos(Side(t))
  BY <1>1, <1>2, SMTT(60) DEF Within
<1>4. PICK u \in Threads : Side(u) = Side(t) /\ Covers(u, TailPos(Side(t)))
  BY <1>0, <1>1, <1>3 DEF Claims
<1>5. Active(u) /\ claim[u] <= TailPos(Side(t)) /\ claim[u] \in Nat
  BY <1>0, <1>4 DEF Covers, Types
<1>6. TailPos(Side(u)) <= claim[u]
  BY <1>0, <1>5 DEF Claims, Within
<1>7. claim[u] = TailPos(Side(t))
  BY <1>1, <1>4, <1>5, <1>6, SMTT(60)
<1> QED  BY <1>4, <1>5, <1>7

(* A thread publishes from the tail: it waits for it, or is alone.         *)
LEMMA PublishesAtTail ==
  ASSUME RingInv, NEW t \in Threads, pc[t] = "publish", Side(t) \in multi => tail[Side(t)] = h[t]
  PROVE  claim[t] = TailPos(Side(t))
<1>0. Types /\ Ordered /\ Indices /\ Alone
  BY DEF RingInv
<1>1. Active(t) /\ Held(t)
  BY DEF Active, Held
<1>2. CASE Side(t) \in multi
  <2>1. claim[t] \in 0 .. IndexMod - 1 /\ h[t] = Add(Start, claim[t])
    BY <1>1, ClaimBound
  <2>2. tail[Side(t)] = Add(Start, TailPos(Side(t))) /\ TailPos(Side(t)) \in 0 .. IndexMod - 1
    BY <1>0, Sides, Positions DEF Indices
  <2>3. Add(Start, claim[t]) = Add(Start, TailPos(Side(t)))
    BY <1>2, <2>1, <2>2
  <2> QED  BY <2>1, <2>2, <2>3, IndexMoves
<1>3. CASE Side(t) \notin multi
  <2>1. PICK u \in Threads : Side(u) = Side(t) /\ Active(u) /\ claim[u] = TailPos(Side(t))
    BY <1>1, FirstInLine
  <2>2. ops[u] > 0 /\ ops[t] > 0
    BY <1>0, <2>1 DEF Alone, Active
  <2>3. u = t
    BY <1>0, <1>3, <2>1, <2>2 DEF Alone
  <2> QED  BY <2>1, <2>3
<1> QED  BY <1>2, <1>3

(* A publication from the tail: the range of t is removed at its start.    *)
LEMMA ClaimsShrink ==
  ASSUME Types, Claims, NEW t \in Threads, Active(t), ~ Active(t)',
         claim[t] = TailPos(Side(t)), n' = n, claim' = claim,
         \A s \in Ends : TailPos(s) \in Nat /\ HeadPos(s)' = HeadPos(s),
         TailPos(Side(t))' = TailPos(Side(t)) + n[t],
         \A s \in Ends : s # Side(t) => TailPos(s)' = TailPos(s),
         \A u \in Threads \ {t} : Active(u)' <=> Active(u)
  PROVE  Claims'
<1>0. \A u \in Threads : n[u] \in Nat /\ claim[u] \in Nat /\ Side(u) \in Ends
  BY Sides DEF Types
<1>1. ASSUME NEW u \in Threads, Active(u)' PROVE Within(u)'
  <2>1. u # t /\ Active(u) /\ HeadPos(Side(u))' = HeadPos(Side(u))
    BY <1>0, <1>1
  <2>2. n[u] > 0 /\ TailPos(Side(u)) <= claim[u] /\ claim[u] + n[u] <= HeadPos(Side(u))
    BY <2>1 DEF Claims, Within
  <2>3. TailPos(Side(u))' <= claim[u]
    <3>1. CASE Side(u) = Side(t)
      <4>1. claim[t] + n[t] <= claim[u] \/ claim[u] + n[u] <= claim[t]
        BY <2>1, <3>1 DEF Claims
      <4>2. ~ (claim[u] + n[u] <= claim[t])
        BY <1>0, <2>2, <3>1, SMTT(60)
      <4>3. TailPos(Side(u))' = claim[t] + n[t]
        BY <3>1
      <4> QED  BY <4>1, <4>2, <4>3
    <3>2. CASE Side(u) # Side(t)
      BY <1>0, <2>2, <3>2
    <3> QED  BY <3>1, <3>2
  <2> QED  BY <2>1, <2>2, <2>3 DEF Within
<1>3. ASSUME NEW v \in Threads, NEW u \in Threads, v # u, Side(v) = Side(u), Active(v)', Active(u)'
      PROVE  claim'[v] + n'[v] <= claim'[u] \/ claim'[u] + n'[u] <= claim'[v]
  <2>1. Active(v) /\ Active(u)
    BY <1>3
  <2>2. claim[v] + n[v] <= claim[u] \/ claim[u] + n[u] <= claim[v]
    BY <1>3, <2>1 DEF Claims
  <2> QED  BY <2>2
<1>4. ASSUME NEW s \in Ends, NEW p \in Nat, TailPos(s)' <= p, p < HeadPos(s)'
      PROVE  \E u \in Threads : Side(u) = s /\ Covers(u, p)'
  <2>0. TailPos(s) \in Nat /\ p < HeadPos(s)
    BY <1>4
  <2>1. TailPos(s) <= p /\ (s = Side(t) => ~ (p < claim[t] + n[t]))
    <3>1. CASE s = Side(t)
      BY <1>0, <1>4, <2>0, <3>1, SMTT(60)
    <3>2. CASE s # Side(t)
      BY <1>4, <3>2
    <3> QED  BY <3>1, <3>2
  <2>2. PICK u \in Threads : Side(u) = s /\ Covers(u, p)
    BY <2>0, <2>1 DEF Claims
  <2>3. u # t
    BY <2>1, <2>2 DEF Covers
  <2>4. Covers(u, p)'
    BY <2>2, <2>3 DEF Covers
  <2> QED  BY <2>2, <2>4
<1> QED  BY <1>1, <1>3, <1>4 DEF Claims

(* The store of the tail. *)
LEMMA PublishStep ==
  ASSUME RingInv, UNCHANGED multi, NEW t \in Threads, Publish(t)
  PROVE  RingInv'
<1> DEFINE s == Side(t)
<1>0. Types /\ Ordered /\ Indices /\ Pending /\ Claims /\ Alone
  BY DEF RingInv
<1>1. /\ pc \in [Threads -> {"out", "head", "other", "cas", "copy", "publish"}] /\ DOMAIN pc = Threads
      /\ tail \in [Ends -> Int] /\ DOMAIN tail = Ends /\ claim[t] \in Nat /\ n[t] \in Nat
      /\ ret \in [Threads -> Nat \cup {-1}] /\ DOMAIN ret = Threads
  BY <1>0 DEF Types
<1>2. /\ s \in Ends
      /\ \A e \in Ends : /\ HeadPos(e) \in Nat /\ TailPos(e) \in Nat /\ TailPos(e) <= HeadPos(e)
                         /\ Limit(e) \in Nat
  BY <1>0, Sides, Positions
<1>3. /\ pc[t] = "publish" /\ pc' = [pc EXCEPT ![t] = "out"] /\ tail' = [tail EXCEPT ![s] = Add(h[t], n[t])]
      /\ ret' = [ret EXCEPT ![t] = n[t]]
      /\ head' = head /\ n' = n /\ h' = h /\ max' = max /\ obj' = obj /\ ops' = ops /\ claim' = claim
      /\ log' = log /\ taken' = taken
  BY DEF Publish, Return, Goto, local
<1>4. claim[t] = TailPos(s)
  BY <1>3, PublishesAtTail DEF Publish
<1>5. Active(t) /\ Held(t)
  BY <1>3 DEF Active, Held
<1>6. /\ n[t] > 0 /\ claim[t] + n[t] <= HeadPos(s) /\ h[t] = Add(Start, claim[t])
  BY <1>0, <1>5 DEF Claims, Within, Indices
<1>7. Len(log) \in Nat /\ taken \in Nat /\ pub \in Nat /\ released \in Nat
  BY <1>0, SMTT(60) DEF Types
<1>8. /\ pub' \in Nat /\ released' \in Nat
      /\ TailPos(s)' = TailPos(s) + n[t]
      /\ \A e \in Ends : e # s => TailPos(e)' = TailPos(e)
      /\ \A e \in Ends : HeadPos(e)' = HeadPos(e)
      /\ \A e \in Ends : Limit(e)' \in Nat /\ Limit(e) <= Limit(e)'
      /\ Ordered'
  <2>1. CASE t \in Producers
    <3>1. pub' = pub + n[t] /\ released' = released /\ s = "prod" /\ HeadPos(s) = Len(log) /\ claim[t] = pub
      BY <1>4, <2>1, Sides DEF Publish, HeadPos, TailPos
    <3>2. pub' \in Nat /\ pub <= pub' /\ released + Mask \in Nat /\ released + Mask <= released + Mask
      BY <1>1, <1>7, <3>1, Constants, SMTT(60)
    <3>3. Ordered'
      BY <1>0, <1>1, <1>3, <1>6, <1>7, <3>1, SMTT(60) DEF Ordered
    <3> QED  BY <1>3, <1>7, <3>1, <3>2, <3>3 DEF HeadPos, TailPos, Limit, Ends
  <2>2. CASE t \notin Producers
    <3>1. released' = released + n[t] /\ pub' = pub /\ s = "cons" /\ HeadPos(s) = taken /\ claim[t] = released
      BY <1>4, <2>2, Sides DEF Publish, HeadPos, TailPos
    <3>2. released' \in Nat /\ released' + Mask \in Nat /\ released + Mask <= released' + Mask /\ pub <= pub
      BY <1>1, <1>7, <3>1, Constants, SMTT(60)
    <3>3. Ordered'
      BY <1>0, <1>1, <1>3, <1>6, <1>7, <3>1, Constants, SMTT(60) DEF Ordered
    <3> QED  BY <1>3, <1>7, <3>1, <3>2, <3>3 DEF HeadPos, TailPos, Limit, Ends
  <2> QED  BY <2>1, <2>2
<1>9. Add(h[t], n[t]) = Add(Start, TailPos(s)') /\ Add(h[t], n[t]) \in Int
  <2> DEFINE q == claim[t] + n[t]
  <2>0. claim[t] \in 0 .. IndexMod - 1 /\ q \in 0 .. IndexMod - 1
    BY <1>5, ClaimBound
  <2>1. /\ claim[t] <= q /\ q - claim[t] = n[t]
    BY <1>1, SMTT(60)
  <2>2. q = TailPos(s)'
    BY <1>4, <1>8
  <2> HIDE DEF q
  <2>3. Add(Add(Start, claim[t]), q - claim[t]) = Add(Start, q) /\ Add(Start, q) \in 0 .. IndexMod - 1
    BY <2>0, <2>1, IndexMoves, IndexOf
  <2>4. Add(h[t], n[t]) = Add(Start, q)
    BY <1>6, <2>1, <2>3
  <2> QED  BY <2>2, <2>3, <2>4, Constants, SMTT(60)
<1>10. pc'[t] = "out" /\ \A u \in Threads \ {t} : pc'[u] = pc[u]
  BY <1>1, <1>3
<1>11. ~ Active(t)' /\ \A u \in Threads \ {t} : Active(u)' <=> Active(u)
  BY <1>10 DEF Active
<1>12. Types'
  <2>1. /\ pc' \in [Threads -> {"out", "head", "other", "cas", "copy", "publish"}]
        /\ tail' \in [Ends -> Int] /\ ret' \in [Threads -> Nat \cup {-1}]
    BY <1>1, <1>2, <1>3, <1>9
  <2> QED  BY <1>0, <1>3, <1>8, <2>1 DEF Types
<1>13. Indices'
  <2>1. ASSUME NEW e \in Ends PROVE head'[e] = Add(Start, HeadPos(e)') /\ tail'[e] = Add(Start, TailPos(e)')
    <3>1. CASE e = s
      BY <1>0, <1>1, <1>2, <1>3, <1>8, <1>9, <3>1 DEF Indices
    <3>2. CASE e # s
      BY <1>0, <1>1, <1>2, <1>3, <1>8, <3>2 DEF Indices
    <3> QED  BY <3>1, <3>2
  <2>2. ASSUME NEW u \in Threads, Held(u)' PROVE h'[u] = Add(Start, claim'[u])
    BY <1>0, <1>3, <1>6, <1>10, <2>2 DEF Indices, Held
  <2> QED  BY <2>1, <2>2 DEF Indices, Add
<1>14. Claims'
  BY <1>0, <1>2, <1>3, <1>4, <1>5, <1>8, <1>11, ClaimsShrink
<1>15. Pending'
  <2> SUFFICES ASSUME NEW u \in Threads
               PROVE  /\ pc'[u] # "out" => max'[u] > 0
                      /\ Reading(u)' => claim'[u] <= HeadPos(Side(u))'
                      /\ pc'[u] = "cas" => n'[u] > 0 /\ claim'[u] + n'[u] <= Limit(Side(u))'
    BY DEF Pending
  <2>1. CASE u = t
    BY <1>10, <2>1 DEF Reading
  <2>2. CASE u # t
    <3>0. Side(u) \in Ends
      BY Sides
    <3>1. /\ pc'[u] = pc[u] /\ (Reading(u)' <=> Reading(u)) /\ HeadPos(Side(u))' = HeadPos(Side(u))
      BY <1>8, <1>10, <2>2, <3>0 DEF Reading
    <3>2. /\ pc[u] # "out" => max[u] > 0
          /\ Reading(u) => claim[u] <= HeadPos(Side(u))
          /\ pc[u] = "cas" => n[u] > 0 /\ claim[u] + n[u] <= Limit(Side(u))
          /\ n[u] \in Nat /\ claim[u] \in Nat
      BY <1>0 DEF Pending, Types
    <3>3. Limit(Side(u)) \in Nat /\ Limit(Side(u))' \in Nat /\ Limit(Side(u)) <= Limit(Side(u))'
      BY <1>2, <1>8, <3>0
    <3>4. pc[u] = "cas" => claim[u] + n[u] <= Limit(Side(u))'
      BY <3>2, <3>3, SMTT(60)
    <3> QED  BY <1>3, <3>1, <3>2, <3>4
  <2> QED  BY <2>1, <2>2
<1>16. Alone'
  <2>1. ASSUME NEW u \in Threads, pc'[u] # "out" PROVE ops'[u] > 0
    BY <1>0, <1>3, <1>10, <2>1 DEF Alone
  <2>2. ASSUME NEW u \in Threads, NEW v \in Threads, Side(u) = Side(v), Side(u) \notin multi, ops'[u] > 0, ops'[v] > 0
        PROVE  u = v
    BY <1>0, <1>3, <2>2 DEF Alone
  <2>3. ASSUME NEW u \in Threads, Side(u) \notin multi, Reading(u)' PROVE claim'[u] = HeadPos(Side(u))'
    <3>1. u # t /\ Reading(u)
      BY <1>10, <2>3 DEF Reading
    <3>2. HeadPos(Side(u))' = HeadPos(Side(u))
      BY <1>8, Sides
    <3> QED  BY <1>0, <1>3, <2>3, <3>1, <3>2 DEF Alone
  <2> QED  BY <2>1, <2>2, <2>3 DEF Alone
<1> QED  BY <1>8, <1>12, <1>13, <1>14, <1>15, <1>16 DEF RingInv
-----------------------------------------------------------------------------
(* A ring that is empty, and that no thread uses. *)
LEMMA RingInit ==
  ASSUME Init
  PROVE  RingInv
<1>1. /\ head = [s \in Ends |-> Start] /\ tail = head
      /\ pc = [t \in Threads |-> "out"]
      /\ max = [t \in Threads |-> 0] /\ n = max /\ h = max /\ ops = max /\ claim = max
      /\ obj = [t \in Threads |-> <<>>] /\ ret = [t \in Threads |-> 0]
      /\ log = <<>> /\ pub = 0 /\ taken = 0 /\ released = 0
  BY DEF Init, Ends
<1>2. Types
  <2>1. Start \in Int /\ 0 \in 0 .. IndexMod - 1 /\ 0 \in Nat
    BY Constants, SMTT(60)
  <2>2. log \in Seq(Objects)
    BY <1>1, EmptySeq
  <2>3. /\ head \in [Ends -> Int] /\ tail \in [Ends -> Int]
        /\ pc \in [Threads -> {"out", "head", "other", "cas", "copy", "publish"}]
        /\ max \in [Threads -> Nat] /\ max \in [Threads -> 0 .. IndexMod - 1]
        /\ ret \in [Threads -> Nat \cup {-1}] /\ DOMAIN obj = Threads
    BY <1>1, <2>1
  <2> QED  BY <1>1, <2>1, <2>2, <2>3 DEF Types
<1>3. Len(log) = 0
  BY <1>1, EmptySeq
<1>4. \A s \in Ends : HeadPos(s) = 0 /\ TailPos(s) = 0
  BY <1>1, <1>3 DEF HeadPos, TailPos
<1>5. Ordered
  BY <1>1, <1>3, Constants, SMTT(60) DEF Ordered
<1>6. \A t \in Threads : pc[t] = "out"
  BY <1>1
<1>7. Indices
  <2>1. Add(Start, 0) = Start
    BY Constants, IndexOf, SMTT(60)
  <2>2. \A s \in Ends : head[s] = Start /\ tail[s] = Start
    BY <1>1
  <2> QED  BY <1>4, <1>6, <2>1, <2>2 DEF Indices, Held
<1>8. Pending
  BY <1>6 DEF Pending, Reading
<1>9. Claims
  <2>1. \A p \in Nat : ~ (p < 0)
    BY SMTT(60)
  <2> QED  BY <1>4, <1>6, <2>1 DEF Claims, Active
<1>10. Alone
  <2>1. \A t \in Threads : ~ (ops[t] > 0)
    BY <1>1, SMTT(60)
  <2> QED  BY <1>6, <2>1 DEF Alone, Reading
<1> QED  BY <1>2, <1>5, <1>7, <1>8, <1>9, <1>10 DEF RingInv

(* A claim is made from the head that the side has: the compare-and-swap   *)
(* succeeds only then, and no other thread moves the head of a side that   *)
(* one thread uses.                                                        *)
LEMMA ClaimsAtHead ==
  ASSUME RingInv, NEW t \in Threads, pc[t] = "cas", head[Side(t)] = h[t] \/ Side(t) \notin multi
  PROVE  claim[t] = HeadPos(Side(t))
<1>1. Held(t) /\ Reading(t)
  BY DEF Held, Reading
<1>2. CASE head[Side(t)] = h[t]
  <2>1. claim[t] \in 0 .. IndexMod - 1 /\ h[t] = Add(Start, claim[t])
    BY <1>1, ClaimBound
  <2>2. head[Side(t)] = Add(Start, HeadPos(Side(t))) /\ HeadPos(Side(t)) \in 0 .. IndexMod - 1
    BY Sides, Positions DEF RingInv, Indices
  <2>3. Add(Start, claim[t]) = Add(Start, HeadPos(Side(t)))
    BY <1>2, <2>1, <2>2
  <2> QED  BY <2>1, <2>2, <2>3, IndexMoves
<1>3. CASE Side(t) \notin multi
  BY <1>1, <1>3 DEF RingInv, Alone
<1> QED  BY <1>2, <1>3

(* The steps of a thread, by what they do to the ring. *)
Step(t) ==
  \/ \E side \in Ends, b \in {"fixed", "variable"} : Call(t, side, Counts, b) \/ Call(t, side, {1}, b)
  \/ ReadHead(t)
  \/ ReadTail(t)
  \/ pc[t] = "cas" /\ Goto(t, "head") /\ UNCHANGED <<head, tail, ring, n, h, local, ret, hist>>
  \/ pc[t] = "cas" /\ (head[Side(t)] = h[t] \/ Side(t) \notin multi) /\ Claimed(t)
  \/ Copy(t)
  \/ Publish(t)

(* Every function of the interface is one of these steps. *)
LEMMA StepOf ==
  ASSUME Next
  PROVE  UNCHANGED multi /\ \E t \in Threads : Step(t)
<1>1. PICK t \in Threads :
        \/ rte_ring_enqueue_bulk(t) \/ rte_ring_enqueue(t) \/ rte_ring_enqueue_burst(t)
        \/ rte_ring_dequeue_bulk(t) \/ rte_ring_dequeue(t) \/ rte_ring_dequeue_burst(t)
        \/ mp_do_enqueue(t) \/ sp_do_enqueue(t) \/ mc_do_dequeue(t) \/ sc_do_dequeue(t)
  BY DEF Next
<1>2. CASE rte_ring_enqueue_bulk(t) \/ rte_ring_enqueue(t) \/ rte_ring_enqueue_burst(t)
  BY <1>2 DEF rte_ring_enqueue_bulk, rte_ring_enqueue, rte_ring_enqueue_burst, rte_ring_mp_enqueue_bulk,
     rte_ring_sp_enqueue_bulk, rte_ring_mp_enqueue, rte_ring_sp_enqueue, rte_ring_mp_enqueue_burst,
     rte_ring_sp_enqueue_burst, Step, Ends, Next
<1>3. CASE rte_ring_dequeue_bulk(t) \/ rte_ring_dequeue(t) \/ rte_ring_dequeue_burst(t)
  BY <1>3 DEF rte_ring_dequeue_bulk, rte_ring_dequeue, rte_ring_dequeue_burst, rte_ring_mc_dequeue_bulk,
     rte_ring_sc_dequeue_bulk, rte_ring_mc_dequeue, rte_ring_sc_dequeue, rte_ring_mc_dequeue_burst,
     rte_ring_sc_dequeue_burst, Step, Ends, Next
<1>4. CASE mp_do_enqueue(t) \/ sp_do_enqueue(t) \/ mc_do_dequeue(t) \/ sc_do_dequeue(t)
  BY <1>4 DEF mp_do_enqueue, sp_do_enqueue, mc_do_dequeue, sc_do_dequeue, Cas, StoreHead, Step, Next
<1> QED  BY <1>1, <1>2, <1>3, <1>4

(* Every step keeps the invariant. *)
LEMMA RingStep ==
  ASSUME RingInv, [Next]_vars
  PROVE  RingInv'
<1>1. CASE UNCHANGED vars
  BY <1>1 DEF vars, RingInv, Types, Ordered, Indices, Held, Pending, Reading, Limit, Claims, Active, Covers, Within,
     Alone, HeadPos, TailPos, Add
<1>2. CASE Next
  <2>0. UNCHANGED multi
    BY <1>2, StepOf
  <2>1. PICK t \in Threads : Step(t)
    BY <1>2, StepOf
  <2>2. CASE \E side \in Ends, b \in {"fixed", "variable"} : Call(t, side, Counts, b) \/ Call(t, side, {1}, b)
    <3>1. /\ \A k \in Counts : k \in Nat /\ k > 0
          /\ \A k \in {1} : k \in Nat /\ k > 0
      BY Constants, SMTT(60)
    <3> QED  BY <2>0, <2>2, <3>1, CallStep
  <2>3. CASE ReadHead(t)
    BY <2>0, <2>3, ReadHeadStep
  <2>4. CASE ReadTail(t)
    BY <2>0, <2>4, ReadTailStep
  <2>5. CASE pc[t] = "cas" /\ Goto(t, "head") /\ UNCHANGED <<head, tail, ring, n, h, local, ret, hist>>
    BY <2>0, <2>5, RetryStep
  <2>6. CASE pc[t] = "cas" /\ (head[Side(t)] = h[t] \/ Side(t) \notin multi) /\ Claimed(t)
    BY <2>0, <2>6, ClaimsAtHead, ClaimStep
  <2>7. CASE Copy(t)
    BY <2>0, <2>7, CopyStep
  <2>8. CASE Publish(t)
    BY <2>0, <2>8, PublishStep
  <2> QED  BY <2>1, <2>2, <2>3, <2>4, <2>5, <2>6, <2>7, <2>8 DEF Step
<1> QED  BY <1>1, <1>2

(* The invariant holds always. *)
LEMMA RingKept == Spec => []RingInv
<1>1. Init => RingInv
  BY RingInit
<1>2. RingInv /\ [Next]_vars => RingInv'
  BY RingStep
<1> QED  BY <1>1, <1>2, PTL DEF Spec
-----------------------------------------------------------------------------
(* A slot is found from the count, whether or not the index has wrapped:   *)
(* the size of the ring divides the range of an index.                     *)
LEMMA SlotOf ==
  ASSUME NEW p \in 0 .. IndexMod - 1, NEW j \in Int
  PROVE  (Add(Start, p) + j) % Size = (Start + p + j) % Size
<1>1. PICK k \in Int : IndexMod = Size * k
  <2>2. IndexMod % Size = 0 /\ IndexMod \in Int /\ Size \in Int /\ Size \in Nat \ {0}
    BY RingAssumption, SMTT(60)
  <2>1. IndexMod \div Size \in Int /\ IndexMod = Size * (IndexMod \div Size) + (IndexMod % Size)
    BY <2>2, Euclid, Zenon
  <2> DEFINE k == IndexMod \div Size
  <2>3. k \in Int /\ IndexMod = Size * k + 0
    BY <2>1, <2>2
  <2> HIDE DEF k
  <2>4. IndexMod = Size * k
    BY <2>2, <2>3, Z3T(30)
  <2> QED  BY <2>3, <2>4
<1>2. Add(Start, p) = Start + p \/ Add(Start, p) = Start + p - IndexMod
  BY IndexOf
<1>3. CASE Add(Start, p) = Start + p
  BY <1>3
<1>4. CASE Add(Start, p) = Start + p - IndexMod
  <2> DEFINE x == Add(Start, p) + j
  <2>1. x \in Int /\ x + IndexMod = Start + p + j
    BY <1>4, Constants, SMTT(60)
  <2> HIDE DEF x
  <2>2. (x + Size * k) % Size = x % Size
    BY <2>1, Constants, ShiftRemainder
  <2>3. (Start + p + j) % Size = x % Size
    BY <1>1, <2>1, <2>2
  <2> QED  BY <2>3 DEF x
<1> QED  BY <1>2, <1>3, <1>4

(* What a thread claimed is among what is not released, and a producer's   *)
(* is not published while a consumer's is.                                 *)
LEMMA InWindow ==
  ASSUME RingInv, NEW t \in Threads, Active(t), NEW p \in Nat, claim[t] <= p, p < claim[t] + n[t]
  PROVE  /\ released <= p /\ p < Len(log) /\ p \in 0 .. IndexMod - 1
         /\ t \in Producers => pub <= p
         /\ t \notin Producers => p < pub
<1>0. Types /\ Ordered /\ Claims
  BY DEF RingInv
<1>1. /\ Len(log) \in Nat /\ pub \in Nat /\ taken \in Nat /\ released \in Nat
      /\ claim[t] \in Nat /\ n[t] \in Nat
  BY <1>0, SMTT(60) DEF Types
<1>2. TailPos(Side(t)) <= claim[t] /\ claim[t] + n[t] <= HeadPos(Side(t))
  BY <1>0 DEF Claims, Within
<1>3. CASE t \in Producers
  <2>1. pub <= claim[t] /\ claim[t] + n[t] <= Len(log)
    BY <1>2, <1>3, Sides DEF TailPos, HeadPos
  <2> QED  BY <1>0, <1>1, <1>3, <2>1, Constants, SMTT(60) DEF Ordered
<1>4. CASE t \notin Producers
  <2>1. released <= claim[t] /\ claim[t] + n[t] <= taken
    BY <1>2, <1>4, Sides DEF TailPos, HeadPos
  <2> QED  BY <1>0, <1>1, <1>4, <2>1, Constants, SMTT(60) DEF Ordered
<1> QED  BY <1>3, <1>4

(* Two counts in that window have the same slot only if they are equal.    *)
LEMMA OneSlot ==
  ASSUME Types, Ordered, NEW p \in Nat, NEW q \in Nat, released <= p, p < Len(log), released <= q, q < Len(log),
         (Start + p) % Size = (Start + q) % Size
  PROVE  p = q
<1>1. Len(log) \in Nat /\ released \in Nat /\ Len(log) <= released + Mask
  BY SMTT(60) DEF Types, Ordered
<1>2. /\ Start + p \in Int /\ Start + q \in Int
      /\ (Start + p) - (Start + q) < Size /\ (Start + q) - (Start + p) < Size
  BY <1>1, Constants, SMTT(60)
<1>3. Start + p = Start + q
  BY <1>2, Constants, SameRemainder
<1> QED  BY <1>3, Constants, SMTT(60)

(* The slots that a thread holds, by count. *)
LEMMA SlotsAre ==
  ASSUME RingInv, NEW t \in Threads, Active(t), NEW x \in Slots(t)
  PROVE  \E p \in Nat : /\ claim[t] <= p /\ p < claim[t] + n[t]
                        /\ x = (Start + p) % Size
<1>1. PICK j \in 0 .. n[t] - 1 : x = (h[t] + j) % Size
  BY DEF Slots
<1>2. claim[t] \in Nat /\ n[t] \in Nat
  BY DEF RingInv, Types
<1>3. Held(t)
  BY DEF Active, Held
<1>4. claim[t] \in 0 .. IndexMod - 1 /\ h[t] = Add(Start, claim[t])
  BY <1>3, ClaimBound
<1>5. (h[t] + j) % Size = (Start + claim[t] + j) % Size
  BY <1>4, SlotOf, SMTT(60)
<1>6. /\ claim[t] + j \in Nat /\ claim[t] <= claim[t] + j /\ claim[t] + j < claim[t] + n[t]
      /\ Start + (claim[t] + j) = Start + claim[t] + j
  BY <1>2, Constants, SMTT(60)
<1> QED  BY <1>1, <1>5, <1>6

(* The indices follow the history, and so do the counts. *)
LEMMA RingCounts == RingInv => TypeOK
<1> SUFFICES ASSUME RingInv PROVE TypeOK
  OBVIOUS
<1>0. Types /\ Ordered /\ Indices
  BY DEF RingInv
<1>1. Len(log) \in Nat /\ pub \in Nat /\ taken \in Nat /\ released \in Nat
  BY <1>0, SMTT(60) DEF Types
<1>2. pub - released \in 0 .. Mask /\ pub \in 0 .. IndexMod - 1 /\ released \in 0 .. IndexMod - 1
  BY <1>0, <1>1, Constants, SMTT(60) DEF Ordered
<1>3. tail["prod"] = Add(Start, pub) /\ tail["cons"] = Add(Start, released)
  BY <1>0 DEF Indices, TailPos, Ends
<1>4. rte_ring_count = pub - released
  <2> DEFINE x == Add(Start, released)
  <2>1. x \in 0 .. IndexMod - 1 /\ Add(Start, pub) \in 0 .. IndexMod - 1
    BY <1>2, IndexOf
  <2>2. (Add(Start, pub) + (-x)) % Size = (Start + pub + (-x)) % Size
    BY <1>2, <2>1, SlotOf, SMTT(60)
  <2>3. (x + (pub - released - x)) % Size = (Start + released + (pub - released - x)) % Size
    BY <1>2, <2>1, SlotOf, SMTT(60)
  <2>4. /\ Add(Start, pub) + (-x) = Add(Start, pub) - x
        /\ x + (pub - released - x) = pub - released
        /\ Start + released + (pub - released - x) = Start + pub + (-x)
    BY <1>1, <2>1, Constants, SMTT(60)
  <2>5. (pub - released) % Size = pub - released
    BY <1>2, Constants, OneTurn, SMTT(60)
  <2> QED  BY <1>3, <2>2, <2>3, <2>4, <2>5 DEF rte_ring_count
<1>5. (rte_ring_full <=> pub - released = Mask) /\ (rte_ring_empty <=> pub = released)
  BY <1>1, <1>4, Constants, SMTT(60) DEF rte_ring_full, rte_ring_empty, rte_ring_free_count
<1> QED  BY <1>0, <1>4, <1>5 DEF TypeOK, Indices, Types, Ends

(* No slot is written by one thread while another reads or writes it: what *)
(* two threads hold are different counts in a window of Size - 1.  For any *)
(* number of threads, any size of the ring and of the batches, and indices *)
(* that wrap.                                                              *)
THEOREM SlotsStayApart == Spec => []SlotsApart
<1>1. RingInv => SlotsApart
  <2> SUFFICES ASSUME RingInv PROVE SlotsApart
    OBVIOUS
  <2>1. ASSUME NEW t \in Threads, NEW u \in Threads, t # u, pc[t] = "copy", pc[u] = "copy",
               NEW x, x \in Slots(t), x \in Slots(u)
        PROVE  FALSE
    <3>0. Active(t) /\ Active(u) /\ Types /\ Ordered /\ Claims
      BY <2>1 DEF Active, RingInv
    <3>1. PICK p \in Nat : claim[t] <= p /\ p < claim[t] + n[t] /\ x = (Start + p) % Size
      BY <2>1, <3>0, SlotsAre
    <3>2. PICK q \in Nat : claim[u] <= q /\ q < claim[u] + n[u] /\ x = (Start + q) % Size
      BY <2>1, <3>0, SlotsAre
    <3>3. /\ released <= p /\ p < Len(log)
          /\ t \in Producers => pub <= p
          /\ t \notin Producers => p < pub
      BY <3>0, <3>1, InWindow
    <3>4. /\ released <= q /\ q < Len(log)
          /\ u \in Producers => pub <= q
          /\ u \notin Producers => q < pub
      BY <3>0, <3>2, InWindow
    <3>5. p = q
      BY <3>0, <3>1, <3>2, <3>3, <3>4, OneSlot
    <3>6. /\ claim[t] \in Nat /\ n[t] \in Nat /\ claim[u] \in Nat /\ n[u] \in Nat /\ pub \in Nat
      BY <3>0 DEF Types
    <3>7. t \in Producers <=> u \in Producers
      BY <3>3, <3>4, <3>5, <3>6, SMTT(60)
    <3>8. Side(t) = Side(u)
      BY <3>7 DEF Side
    <3>9. claim[t] + n[t] <= claim[u] \/ claim[u] + n[u] <= claim[t]
      BY <2>1, <3>0, <3>8 DEF Claims
    <3> QED  BY <3>1, <3>2, <3>5, <3>6, <3>9, SMTT(60)
  <2>2. \A t, u \in Threads : t # u /\ pc[t] = "copy" /\ pc[u] = "copy" => Slots(t) \cap Slots(u) = {}
    BY <2>1
  <2>3. TypeOK
    BY RingCounts
  <2> QED  BY <2>2, <2>3 DEF SlotsApart
<1> QED  BY <1>1, RingKept, PTL

(* Threads that wait to publish never all wait for each other, and the     *)
(* assertions on the tail in the sp and sc functions hold.                 *)
THEOREM AlwaysOneFirst == Spec => []SomeoneCanPublish
<1>1. RingInv => SomeoneCanPublish
  <2> SUFFICES ASSUME RingInv, NEW t \in Threads, pc[t] = "publish"
               PROVE  \E u \in Peers(t) : pc[u] \in {"copy", "publish"} /\ h[u] = tail[Side(t)]
    BY DEF SomeoneCanPublish
  <2>1. Active(t)
    BY DEF Active
  <2>2. PICK u \in Threads : Side(u) = Side(t) /\ Active(u) /\ claim[u] = TailPos(Side(t))
    BY <2>1, FirstInLine
  <2>3. h[u] = Add(Start, claim[u]) /\ tail[Side(t)] = Add(Start, TailPos(Side(t)))
    BY <2>2, Sides DEF RingInv, Indices, Held, Active
  <2> QED  BY <2>2, <2>3 DEF Peers, Active
<1> QED  BY <1>1, RingKept, PTL

(* A step moves only the thread that takes it. *)
LEMMA OneMoves ==
  ASSUME NEW t \in Threads, Step(t)
  PROVE  \E l : pc' = [pc EXCEPT ![t] = l]
  BY DEF Step, Call, ReadHead, ReadTail, Claimed, Copy, Publish, Return, Goto

(* A refusal is true at the moment it is returned, although the head that  *)
(* the thread read may be behind.                                          *)
THEOREM RefusalsAreHonest == Spec => HonestRefusal
<1>1. ASSUME RingInv, [Next]_vars, NEW t \in Threads, pc[t] = "other", pc'[t] = "out"
      PROVE  max[t] > RoomFrom(Side(t), head[Side(t)])
  <2>1. Next
    BY <1>1 DEF vars
  <2>2. PICK u \in Threads : Step(u)
    BY <2>1, StepOf
  <2>3. DOMAIN pc = Threads
    BY <1>1 DEF RingInv, Types
  <2>4. u = t
    <3>1. PICK l : pc' = [pc EXCEPT ![u] = l]
      BY <2>2, OneMoves
    <3> QED  BY <1>1, <2>3, <3>1
  <2>5. ReadTail(t)
    BY <1>1, <2>2, <2>4 DEF Step, Call, ReadHead, Copy, Publish
  <2>6. ~ Goto(t, "cas")
    BY <1>1, <2>3 DEF Goto
  <2>7. max[t] > Avail(t)
    BY <2>5, <2>6 DEF ReadTail
  <2>8. Avail(t) = Limit(Side(t)) - claim[t]
    BY <1>1, AvailIs
  <2>9. /\ Types /\ Ordered /\ Indices /\ Side(t) \in Ends /\ HeadPos(Side(t)) \in Nat /\ Limit(Side(t)) \in Nat
        /\ HeadPos(Side(t)) <= HeadPos(Side(t)) /\ claim[t] \in Nat /\ max[t] \in Nat
    <3>1. Types /\ Ordered /\ Indices /\ Side(t) \in Ends
      BY <1>1, Sides DEF RingInv
    <3>2. HeadPos(Side(t)) \in Nat /\ Limit(Side(t)) \in Nat /\ claim[t] \in Nat /\ max[t] \in Nat
      BY <3>1, Positions DEF Types
    <3>3. HeadPos(Side(t)) <= HeadPos(Side(t))
      BY <3>2, SMTT(60)
    <3> QED  BY <3>1, <3>2, <3>3
  <2>10. RoomFrom(Side(t), Add(Start, HeadPos(Side(t)))) = Limit(Side(t)) - HeadPos(Side(t))
    BY <2>9, RoomIs
  <2>11. head[Side(t)] = Add(Start, HeadPos(Side(t)))
    BY <2>9 DEF Indices
  <2>12. claim[t] <= HeadPos(Side(t))
    BY <1>1 DEF RingInv, Pending, Reading
  <2>13. max[t] > Limit(Side(t)) - HeadPos(Side(t))
    BY <2>7, <2>8, <2>9, <2>12, SMTT(60)
  <2> QED  BY <2>10, <2>11, <2>13
<1>2. ASSUME NEW t \in Threads
      PROVE  RoomFrom(Side(t), head[Side(t)]) =
               (IF t \in Producers THEN Mask + tail["cons"] - head["prod"] ELSE tail["prod"] - head["cons"]) % IndexMod
  BY DEF RoomFrom, Side
<1>3. RingInv /\ [Next]_vars =>
        [\A t \in Threads : pc[t] = "other" /\ pc'[t] = "out" /\ beh[t] = "fixed" =>
           max[t] > (IF t \in Producers THEN Mask + tail["cons"] - head["prod"]
                                        ELSE tail["prod"] - head["cons"]) % IndexMod]_vars
  BY <1>1, <1>2
<1> QED  BY <1>3, RingKept, PTL DEF Spec, HonestRefusal
-----------------------------------------------------------------------------
(* A part of a sequence, after its first a elements and up to b. *)
IsSlice(r, s, a, b) == Len(r) = b - a /\ \A i \in 1 .. b - a : r[i] = s[a + i]

(* SubSeq gives it. *)
LEMMA Slice ==
  ASSUME NEW S, NEW s \in Seq(S), NEW a \in Nat, NEW b \in Nat, a <= b, b <= Len(s)
  PROVE  SubSeq(s, a + 1, b) \in Seq(S) /\ IsSlice(SubSeq(s, a + 1, b), s, a, b)
<1> DEFINE l == a + 1
<1>1. Len(s) \in Nat /\ s \in [1 .. Len(s) -> S]
  BY LenProperties
<1>2. l \in Int /\ b \in Int /\ \A i \in l .. b : i \in 1 .. Len(s)
  BY <1>1, SMTT(60)
<1>3. \A i \in l .. b : s[i] \in S
  BY <1>1, <1>2
<1>4. \A i \in 1 .. b - a : i \in 1 .. b - l + 1 /\ l + i - 1 = a + i
  BY SMTT(60)
<1>5. (IF l <= b THEN b - l + 1 ELSE 0) = b - a
  BY SMTT(60)
<1> HIDE DEF l
<1>6. /\ SubSeq(s, l, b) \in Seq(S)
      /\ Len(SubSeq(s, l, b)) = IF l <= b THEN b - l + 1 ELSE 0
      /\ \A i \in 1 .. b - l + 1 : SubSeq(s, l, b)[i] = s[l + i - 1]
  <2>1. SubSeq(s, l, b) \in Seq(S)
    BY <1>2, <1>3, SubSeqProperties
  <2>2. Len(SubSeq(s, l, b)) = IF l <= b THEN b - l + 1 ELSE 0
    BY <1>2, <1>3, SubSeqProperties, SMTT(60)
  <2>3. \A i \in 1 .. b - l + 1 : SubSeq(s, l, b)[i] = s[l + i - 1]
    BY <1>2, <1>3, SubSeqProperties, SMTT(60)
  <2> QED  BY <2>1, <2>2, <2>3
<1>7. \A i \in 1 .. b - a : SubSeq(s, l, b)[i] = s[a + i]
  BY <1>4, <1>6, Zenon
<1>8. SubSeq(s, l, b) \in Seq(S) /\ IsSlice(SubSeq(s, l, b), s, a, b)
  BY <1>5, <1>6, <1>7, SMTT(60) DEF IsSlice
<1> QED  BY <1>8 DEF l

(* There is one such part. *)
LEMMA SliceUnique ==
  ASSUME NEW S, NEW r \in Seq(S), NEW s, NEW a \in Nat, NEW b \in Nat, a <= b, IsSlice(r, s, a, b),
         NEW q \in Seq(S), IsSlice(q, s, a, b)
  PROVE  r = q
<1>1. Len(r) = Len(q) /\ \A i \in 1 .. Len(r) : r[i] = q[i]
  BY DEF IsSlice
<1> QED  BY <1>1, SeqEqual

(* It does not depend on what follows it. *)
LEMMA SliceSame ==
  ASSUME NEW S, NEW s \in Seq(S), NEW r \in Seq(S), NEW a \in Nat, NEW b \in Nat, a <= b, b <= Len(s), b <= Len(r),
         \A k \in 1 .. Len(s) : r[k] = s[k]
  PROVE  SubSeq(r, a + 1, b) = SubSeq(s, a + 1, b)
<1>0. Len(s) \in Nat
  BY LenProperties
<1>1. SubSeq(r, a + 1, b) \in Seq(S) /\ SubSeq(s, a + 1, b) \in Seq(S)
  BY Slice
<1>2. IsSlice(SubSeq(r, a + 1, b), r, a, b) /\ IsSlice(SubSeq(s, a + 1, b), s, a, b)
  BY Slice
<1>3. \A i \in 1 .. b - a : a + i \in 1 .. Len(s)
  BY <1>0, SMTT(60)
<1>4. IsSlice(SubSeq(r, a + 1, b), s, a, b)
  BY <1>2, <1>3 DEF IsSlice
<1> QED  BY <1>1, <1>2, <1>4, SliceUnique, SMTT(60)

(* A part of a part. *)
LEMMA SliceOfSlice ==
  ASSUME NEW S, NEW s \in Seq(S), NEW a \in Nat, NEW b \in Nat, NEW c \in Nat, NEW d \in Nat,
         a <= c, c <= d, d <= b, b <= Len(s)
  PROVE  SubSeq(SubSeq(s, a + 1, b), c - a + 1, d - a) = SubSeq(s, c + 1, d)
<1> DEFINE q == SubSeq(s, a + 1, b)
           x == c - a
           y == d - a
<1>0. Len(s) \in Nat
  BY LenProperties
<1>1. q \in Seq(S) /\ IsSlice(q, s, a, b) /\ a <= b
  <2>1. a <= b
    BY SMTT(60)
  <2> QED  BY <2>1, Slice
<1>2. Len(q) = b - a /\ \A i \in 1 .. b - a : q[i] = s[a + i]
  BY <1>1 DEF IsSlice
<1>3. x \in Nat /\ y \in Nat /\ x <= y /\ y <= b - a /\ y - x = d - c /\ d <= Len(s) /\ c = a + x
  BY <1>0, SMTT(60)
<1> HIDE DEF q, x, y
<1>4. SubSeq(q, x + 1, y) \in Seq(S) /\ IsSlice(SubSeq(q, x + 1, y), q, x, y)
  BY <1>1, <1>2, <1>3, Slice
<1>5. \A i \in 1 .. d - c : x + i \in 1 .. b - a /\ a + (x + i) = c + i
  BY <1>3, SMTT(60)
<1>6. IsSlice(SubSeq(q, x + 1, y), s, c, d)
  BY <1>2, <1>3, <1>4, <1>5, SMTT(60) DEF IsSlice
<1>7. SubSeq(s, c + 1, d) \in Seq(S) /\ IsSlice(SubSeq(s, c + 1, d), s, c, d)
  BY <1>3, Slice
<1>8. SubSeq(q, x + 1, y) = SubSeq(s, c + 1, d)
  <2> DEFINE f == SubSeq(q, x + 1, y)
             g == SubSeq(s, c + 1, d)
  <2>1. f \in Seq(S) /\ g \in Seq(S) /\ IsSlice(f, s, c, d) /\ IsSlice(g, s, c, d)
    BY <1>4, <1>6, <1>7
  <2> HIDE DEF f, g
  <2>2. f = g
    BY <2>1, SliceUnique
  <2> QED  BY <2>2 DEF f, g
<1> QED  BY <1>8 DEF q, x, y
-----------------------------------------------------------------------------
(* What is in the ring: the objects that were published, or that a         *)
(* producer has copied and is about to publish, until they are released.   *)
Written(p) == p < pub \/ \E t \in Producers : pc[t] = "publish" /\ Covers(t, p)
Logged(t) == \A j \in 1 .. n[t] : log[claim[t] + j] = <<t, ops[t], j>>
InPlace(p) == ring[(Start + p) % Size] = log[p + 1]
Stored ==
  /\ DOMAIN ring = 0 .. Mask
  /\ \A t \in Producers : Active(t) => Logged(t)
  /\ \A p \in Nat : released <= p /\ p < Len(log) /\ Written(p) => InPlace(p)

(* A step after which the same producers hold the same ranges, as far in.  *)
LEMMA StoredStays ==
  ASSUME RingInv, Stored, UNCHANGED <<ring, log, pub, released>>,
         \A t \in Producers : /\ pc'[t] = "copy" <=> pc[t] = "copy"
                              /\ pc'[t] = "publish" <=> pc[t] = "publish"
                              /\ Active(t) => n'[t] = n[t] /\ claim'[t] = claim[t] /\ ops'[t] = ops[t]
  PROVE  Stored'
<1>1. ASSUME NEW t \in Producers, Active(t)' PROVE Logged(t)'
  <2>1. Active(t)
    BY <1>1 DEF Active
  <2>2. Logged(t) /\ n'[t] = n[t] /\ claim'[t] = claim[t] /\ ops'[t] = ops[t] /\ log' = log
    BY <2>1 DEF Stored
  <2> QED  BY <2>2 DEF Logged
<1>2. ASSUME NEW p \in Nat, Written(p)' PROVE Written(p)
  <2>1. ASSUME NEW t \in Producers, pc'[t] = "publish", Covers(t, p)' PROVE pc[t] = "publish" /\ Covers(t, p)
    BY <2>1 DEF Covers, Active
  <2> QED  BY <1>2, <2>1 DEF Written
<1>3. ASSUME NEW p \in Nat, released' <= p, p < Len(log'), Written(p)' PROVE InPlace(p)'
  BY <1>2, <1>3 DEF Stored, InPlace
<1> QED  BY <1>1, <1>3 DEF Stored

(* A producer's claim: the objects enter the history and are not yet in    *)
(* the ring.                                                               *)
LEMMA StoredClaim ==
  ASSUME RingInv, Stored, NEW t \in Threads, pc[t] = "cas", Claimed(t), claim[t] = HeadPos(Side(t)), t \in Producers
  PROVE  Stored'
<1>0. Types /\ Ordered /\ Claims
  BY DEF RingInv
<1>1. /\ Len(log) \in Nat /\ pub \in Nat /\ released \in Nat /\ n[t] \in Nat /\ DOMAIN pc = Threads
      /\ \A u \in Threads : n[u] \in Nat /\ claim[u] \in Nat
  BY <1>0, SMTT(60) DEF Types
<1>2. /\ pc' = [pc EXCEPT ![t] = "copy"] /\ ring' = ring /\ n' = n /\ claim' = claim /\ ops' = ops
      /\ pub' = pub /\ released' = released /\ log' = log \o Batched(t)
  BY DEF Claimed, Goto, local, Batched
<1>3. /\ Len(log') = Len(log) + n[t]
      /\ \A k \in 1 .. Len(log) : log'[k] = log[k]
      /\ \A j \in 1 .. n[t] : log'[Len(log) + j] = <<t, ops[t], j>>
  BY <1>0, <1>2, Enqueued
<1>4. claim[t] = Len(log)
  BY Sides DEF HeadPos
<1>5. pc'[t] = "copy" /\ \A u \in Threads \ {t} : pc'[u] = pc[u]
  BY <1>1, <1>2
<1>6. ASSUME NEW u \in Producers, Active(u), u # t PROVE claim[u] + n[u] <= Len(log)
  <2>1. u \in Threads
    BY DEF Threads
  <2> QED  BY <1>0, <1>6, <2>1, Sides DEF Claims, Within, HeadPos
<1>7. ASSUME NEW u \in Producers, Active(u)' PROVE Logged(u)'
  <2>0. u \in Threads
    BY DEF Threads
  <2>1. CASE u = t
    BY <1>2, <1>3, <1>4, <2>1 DEF Logged
  <2>2. CASE u # t
    <3>1. Active(u)
      BY <1>5, <1>7, <2>0, <2>2 DEF Active
    <3>2. claim[u] + n[u] <= Len(log) /\ n[u] \in Nat /\ claim[u] \in Nat
      BY <1>1, <1>6, <2>0, <2>2, <3>1
    <3>3. \A j \in 1 .. n[u] : claim[u] + j \in 1 .. Len(log)
      BY <1>1, <3>2, SMTT(60)
    <3>4. Logged(u)
      BY <3>1 DEF Stored
    <3> QED  BY <1>2, <1>3, <3>3, <3>4 DEF Logged
  <2> QED  BY <2>1, <2>2
<1>8. ASSUME NEW p \in Nat, released' <= p, p < Len(log'), Written(p)' PROVE InPlace(p)'
  <2>1. Written(p) /\ p < Len(log)
    <3>1. CASE p < pub
      <4>1. pub <= Len(log)
        BY <1>0 DEF Ordered
      <4>2. p < Len(log)
        BY <1>1, <3>1, <4>1, SMTT(60)
      <4> QED  BY <3>1, <4>2 DEF Written
    <3>2. CASE ~ (p < pub)
      <4>1. PICK u \in Producers : pc'[u] = "publish" /\ Covers(u, p)'
        BY <1>2, <1>8, <3>2 DEF Written
      <4>2. u \in Threads /\ u # t /\ pc[u] = "publish" /\ Covers(u, p) /\ Active(u)
        BY <1>2, <1>5, <4>1 DEF Threads, Covers, Active
      <4>3. p < claim[u] + n[u] /\ claim[u] + n[u] <= Len(log)
        BY <1>6, <4>2 DEF Covers
      <4>4. p < Len(log)
        BY <1>1, <4>2, <4>3, SMTT(60)
      <4> QED  BY <4>2, <4>4 DEF Written
    <3> QED  BY <3>1, <3>2
  <2>2. InPlace(p)
    BY <1>2, <1>8, <2>1 DEF Stored
  <2>3. p + 1 \in 1 .. Len(log)
    BY <1>1, <2>1, SMTT(60)
  <2> QED  BY <1>2, <1>3, <2>2, <2>3 DEF InPlace
<1> QED  BY <1>2, <1>7, <1>8 DEF Stored

(* The place of a slot in the range of a producer that copies: it tells    *)
(* the counts of the range from all others in the window.                  *)
LEMMA PlaceInRange ==
  ASSUME RingInv, NEW t \in Threads, t \in Producers, Active(t), NEW p \in Nat, released <= p, p < Len(log)
  PROVE  LET j == (((Start + p) % Size) - h[t]) % Size IN
         /\ Covers(t, p) => j = p - claim[t]
         /\ j < n[t] => Covers(t, p)
<1> DEFINE i == (Start + p) % Size
           j == (i - h[t]) % Size
           a == (Start + p) \div Size
<1>0. Types /\ Ordered
  BY DEF RingInv
<1>1. /\ Len(log) \in Nat /\ released \in Nat /\ claim[t] \in Nat /\ n[t] \in Nat /\ Len(log) <= released + Mask
  BY <1>0, SMTT(60) DEF Types, Ordered
<1>2. Held(t)
  BY DEF Held, Active
<1>3. claim[t] \in 0 .. IndexMod - 1 /\ h[t] = Add(Start, claim[t])
  BY <1>2, ClaimBound
<1>4. h[t] \in Int
  BY <1>3, IndexOf, Constants, SMTT(60)
<1>5. a \in Int /\ i \in Int /\ Start + p = Size * a + i
  <2>1. Start + p \in Int /\ Size \in Nat \ {0}
    BY Constants, SMTT(60)
  <2>2. a \in Int /\ i \in 0 .. Size - 1 /\ Start + p = Size * a + i
    BY <2>1, Euclid
  <2> HIDE DEF a, i
  <2> QED  BY <2>1, <2>2, SMTT(60)
<1>6. j = (p - claim[t]) % Size
  <2>0. Size \in Nat \ {0} /\ Start \in Int
    BY Constants, SMTT(60)
  <2> DEFINE x == i - h[t]
             y == (Start + p) - h[t]
             z == p - claim[t]
             m == Size * a
  <2>1. m \in Int
    BY <1>5, <2>0, Z3T(30)
  <2>2. Start + p = m + i /\ i \in Int
    BY <1>5
  <2> HIDE DEF i, a, m
  <2>a. p \in Int /\ claim[t] \in Int
    BY <1>1, SMTT(60)
  <2>3. x \in Int /\ y = x + m /\ y \in Int /\ z \in Int
    <3>1. z \in Int
      BY <1>4, <2>0, <2>a, FromClaim
    <3>2. x \in Int /\ (m + i) - h[t] = x + m /\ (m + i) - h[t] \in Int
      BY <1>4, <2>1, <2>2, Relative
    <3>3. y = (m + i) - h[t]
      BY <2>2
    <3> QED  BY <3>1, <3>2, <3>3
  <2>4. (x + Size * a) % Size = x % Size
    BY <1>5, <2>0, <2>3, ShiftRemainder
  <2>5. y % Size = x % Size
    BY <2>3, <2>4 DEF m
  <2>6. (Add(Start, claim[t]) + (z - h[t])) % Size = (Start + claim[t] + (z - h[t])) % Size
    <3>1. z - h[t] \in Int
      BY <1>4, <2>3, SMTT(60)
    <3> QED  BY <1>3, <3>1, SlotOf
  <2>7. h[t] + (z - h[t]) = z /\ Start + claim[t] + (z - h[t]) = y
    BY <1>4, <2>0, <2>a, FromClaim
  <2>8. z % Size = y % Size
    BY <1>3, <2>6, <2>7
  <2> QED  BY <2>5, <2>8
<1>7. claim[t] <= claim[t] /\ claim[t] < claim[t] + n[t] /\ n[t] > 0 /\ claim[t] + n[t] <= Len(log)
  <2>1. Within(t)
    BY DEF RingInv, Claims
  <2>2. n[t] > 0 /\ claim[t] + n[t] <= Len(log)
    BY <2>1, Sides DEF Within, HeadPos
  <2> QED  BY <1>1, <2>2, SMTT(60)
<1>8. released <= claim[t]
  BY <1>1, <1>7, InWindow
<1> HIDE DEF j
<1>9. CASE claim[t] <= p
  <2>1. p - claim[t] \in 0 .. Size - 1
    BY <1>1, <1>8, <1>9, Constants, SMTT(60)
  <2>2. j = p - claim[t]
    BY <1>6, <2>1, Constants, OneTurn
  <2>3. j < n[t] => p < claim[t] + n[t]
    BY <1>1, <2>2, SMTT(60)
  <2> QED  BY <1>9, <2>2, <2>3 DEF Covers, j
<1>10. CASE ~ (claim[t] <= p)
  <2> DEFINE d == p - claim[t] + Size
  <2>1. d \in 0 .. Size - 1 /\ d - Size = p - claim[t]
    BY <1>1, <1>7, <1>10, Constants, SMTT(60)
  <2>2. j = d
    BY <1>6, <2>1, Constants, OneTurn
  <2>3. ~ (j < n[t])
    BY <1>1, <1>7, <2>2, Constants, SMTT(60)
  <2> QED  BY <1>10, <2>3 DEF Covers, j
<1> QED  BY <1>9, <1>10

(* A producer's copy puts its objects in place, and no other object out.   *)
LEMMA StoredCopy ==
  ASSUME RingInv, Stored, NEW t \in Threads, t \in Producers, Copy(t)
  PROVE  Stored'
<1>0. Types /\ Ordered
  BY DEF RingInv
<1>1. /\ pc[t] = "copy" /\ DOMAIN pc = Threads /\ Len(log) \in Nat /\ n[t] \in Nat /\ claim[t] \in Nat
      /\ Len(log) <= released + Mask /\ released \in Nat
  BY <1>0, SMTT(60) DEF Copy, Types, Ordered
<1>2. /\ pc' = [pc EXCEPT ![t] = "publish"] /\ n' = n /\ claim' = claim /\ ops' = ops
      /\ pub' = pub /\ released' = released /\ log' = log
      /\ ring' = [i \in 0 .. Mask |-> LET j == (i - h[t]) % Size IN
                                      IF j < n[t] THEN <<t, ops[t], j + 1>> ELSE ring[i]]
  BY DEF Copy, Goto, hist, moved
<1>3. pc'[t] = "publish" /\ \A u \in Threads \ {t} : pc'[u] = pc[u]
  BY <1>1, <1>2
<1>4. Active(t) /\ \A u \in Threads : Active(u)' <=> Active(u)
  BY <1>1, <1>3 DEF Active
<1>5. \A u \in Producers : Active(u)' => Logged(u)'
  <2> SUFFICES ASSUME NEW u \in Producers, Active(u)' PROVE Logged(u)'
    OBVIOUS
  <2>1. Logged(u)
    BY <1>4 DEF Stored, Threads
  <2> QED  BY <1>2, <2>1 DEF Logged
<1>6. ASSUME NEW p \in Nat, released' <= p, p < Len(log'), Written(p)' PROVE InPlace(p)'
  <2> DEFINE i == (Start + p) % Size
             j == (i - h[t]) % Size
  <2>0. released <= p /\ p < Len(log)
    BY <1>2, <1>6
  <2>1. i \in 0 .. Mask
    <3>1. Start + p \in Int /\ Size \in Nat \ {0} /\ Size - 1 = Mask
      BY Constants, SMTT(60)
    <3> QED  BY <3>1, Euclid
  <2>2. (Covers(t, p) => j = p - claim[t]) /\ (j < n[t] => Covers(t, p))
    BY <1>4, <2>0, PlaceInRange
  <2>3. ring'[i] = IF j < n[t] THEN <<t, ops[t], j + 1>> ELSE ring[i]
    BY <1>2, <2>1
  <2> HIDE DEF i, j
  <2>4. CASE Covers(t, p)
    <3>1. j = p - claim[t] /\ claim[t] <= p /\ p < claim[t] + n[t]
      BY <2>2, <2>4 DEF Covers
    <3>2. j < n[t] /\ j + 1 \in 1 .. n[t] /\ claim[t] + (j + 1) = p + 1
      BY <1>1, <3>1, SMTT(60)
    <3>3. Logged(t)
      BY <1>4 DEF Stored
    <3>4. log[p + 1] = <<t, ops[t], j + 1>>
      BY <3>2, <3>3 DEF Logged
    <3> QED  BY <1>2, <2>3, <3>2, <3>4 DEF InPlace, i
  <2>5. CASE ~ Covers(t, p)
    <3>1. Written(p)
      <4>1. ASSUME NEW u \in Producers, pc'[u] = "publish", Covers(u, p)' PROVE pc[u] = "publish" /\ Covers(u, p)
        <5>1. u \in Threads /\ Covers(u, p)
          BY <1>2, <1>4, <4>1 DEF Threads, Covers
        <5>2. u # t
          BY <2>5, <5>1
        <5> QED  BY <1>3, <4>1, <5>1, <5>2
      <4> QED  BY <1>2, <1>6, <4>1 DEF Written
    <3>2. InPlace(p)
      BY <2>0, <3>1 DEF Stored
    <3>3. ring'[i] = ring[i]
      BY <2>2, <2>3, <2>5
    <3> QED  BY <1>2, <3>2, <3>3 DEF InPlace, i
  <2> QED  BY <2>4, <2>5
<1>7. DOMAIN ring' = 0 .. Mask
  BY <1>2
<1> QED  BY <1>5, <1>6, <1>7 DEF Stored

(* A producer's publication: what it copied is published. *)
LEMMA StoredPublish ==
  ASSUME RingInv, Stored, NEW t \in Threads, t \in Producers, Publish(t)
  PROVE  Stored'
<1>1. /\ pc[t] = "publish" /\ DOMAIN pc = Threads /\ pub \in Nat /\ n[t] \in Nat
  BY DEF Publish, RingInv, Types
<1>2. /\ pc' = [pc EXCEPT ![t] = "out"] /\ n' = n /\ claim' = claim /\ ops' = ops /\ ring' = ring
      /\ pub' = pub + n[t] /\ released' = released /\ log' = log
  BY DEF Publish, Return, Goto, local
<1>3. claim[t] = pub
  <2>1. claim[t] = TailPos(Side(t))
    BY <1>1, PublishesAtTail DEF Publish
  <2> QED  BY <2>1, Sides DEF TailPos
<1>4. pc'[t] = "out" /\ \A u \in Threads \ {t} : pc'[u] = pc[u]
  BY <1>1, <1>2
<1>5. \A u \in Threads : Active(u)' => Active(u) /\ u # t
  BY <1>4 DEF Active
<1>6. \A u \in Producers : Active(u)' => Logged(u)'
  <2> SUFFICES ASSUME NEW u \in Producers, Active(u)' PROVE Logged(u)'
    OBVIOUS
  <2>1. Logged(u)
    BY <1>5 DEF Stored, Threads
  <2> QED  BY <1>2, <2>1 DEF Logged
<1>7. ASSUME NEW p \in Nat, Written(p)' PROVE Written(p)
  <2>1. CASE p < pub'
    <3>1. p < pub \/ (claim[t] <= p /\ p < claim[t] + n[t])
      BY <1>1, <1>2, <1>3, <2>1, SMTT(60)
    <3>2. Active(t)
      BY <1>1 DEF Active
    <3> QED  BY <1>1, <3>1, <3>2 DEF Written, Covers
  <2>2. ASSUME NEW u \in Producers, pc'[u] = "publish", Covers(u, p)' PROVE pc[u] = "publish" /\ Covers(u, p)
    <3>1. u \in Threads /\ u # t
      BY <1>4, <2>2 DEF Threads
    <3> QED  BY <1>2, <1>4, <2>2, <3>1 DEF Covers, Active
  <2> QED  BY <1>7, <2>1, <2>2 DEF Written
<1>8. ASSUME NEW p \in Nat, released' <= p, p < Len(log'), Written(p)' PROVE InPlace(p)'
  BY <1>2, <1>7, <1>8 DEF Stored, InPlace
<1> QED  BY <1>2, <1>6, <1>8 DEF Stored

(* A consumer's publication: what it released is no longer of account.     *)
LEMMA StoredRelease ==
  ASSUME RingInv, Stored, NEW t \in Threads, t \notin Producers, Publish(t)
  PROVE  Stored'
<1>1. /\ DOMAIN pc = Threads /\ released \in Nat /\ n[t] \in Nat
  BY DEF RingInv, Types
<1>2. /\ pc' = [pc EXCEPT ![t] = "out"] /\ n' = n /\ claim' = claim /\ ops' = ops /\ ring' = ring
      /\ released' = released + n[t] /\ pub' = pub /\ log' = log
  BY DEF Publish, Return, Goto, local
<1>3. \A u \in Producers : pc'[u] = pc[u]
  BY <1>1, <1>2 DEF Threads
<1>4. ASSUME NEW u \in Producers, Active(u)' PROVE Logged(u)'
  BY <1>2, <1>3, <1>4 DEF Stored, Active, Logged
<1>5. ASSUME NEW p \in Nat, Written(p)' PROVE Written(p)
  BY <1>2, <1>3, <1>5 DEF Written, Covers, Active
<1>6. ASSUME NEW p \in Nat, released' <= p, p < Len(log'), Written(p)' PROVE InPlace(p)'
  <2>1. released <= p
    BY <1>1, <1>2, <1>6, SMTT(60)
  <2> QED  BY <1>2, <1>5, <1>6, <2>1 DEF Stored, InPlace
<1> QED  BY <1>2, <1>4, <1>6 DEF Stored

(* The steps of a thread that has no range, and gets none. *)
Quiet(t) ==
  \/ \E side \in Ends, b \in {"fixed", "variable"} : Call(t, side, Counts, b) \/ Call(t, side, {1}, b)
  \/ ReadHead(t)
  \/ ReadTail(t)
  \/ pc[t] = "cas" /\ Goto(t, "head") /\ UNCHANGED <<head, tail, ring, n, h, local, ret, hist>>

(* They leave the ring, the history and the other threads as they are.     *)
LEMMA QuietStep ==
  ASSUME RingInv, NEW t \in Threads, Quiet(t)
  PROVE  /\ UNCHANGED <<ring, log, pub, taken, released>> /\ ~ Active(t) /\ ~ Active(t)'
         /\ \A u \in Threads \ {t} : /\ pc'[u] = pc[u] /\ n'[u] = n[u] /\ claim'[u] = claim[u]
                                     /\ ops'[u] = ops[u] /\ obj'[u] = obj[u]
         /\ obj' = obj \/ obj' = [obj EXCEPT ![t] = <<>>]
<1>0. /\ DOMAIN pc = Threads /\ DOMAIN n = Threads /\ DOMAIN claim = Threads /\ DOMAIN ops = Threads
      /\ DOMAIN obj = Threads
  BY DEF RingInv, Types
<1>1. ASSUME NEW side, NEW ks, NEW b, Call(t, side, ks, b)
      PROVE  /\ UNCHANGED <<ring, log, pub, taken, released, n, claim>> /\ pc[t] = "out"
             /\ pc' = [pc EXCEPT ![t] = "head"] /\ ops' = [ops EXCEPT ![t] = @ + 1] /\ obj' = [obj EXCEPT ![t] = <<>>]
  BY <1>1 DEF Call, Goto, hist, moved
<1>2. CASE \E side \in Ends, b \in {"fixed", "variable"} : Call(t, side, Counts, b) \/ Call(t, side, {1}, b)
  <2>1. /\ UNCHANGED <<ring, log, pub, taken, released, n, claim>> /\ pc[t] = "out"
        /\ pc' = [pc EXCEPT ![t] = "head"] /\ ops' = [ops EXCEPT ![t] = @ + 1] /\ obj' = [obj EXCEPT ![t] = <<>>]
    BY <1>1, <1>2
  <2> QED  BY <1>0, <2>1 DEF Active
<1>3. CASE ReadHead(t)
  <2>1. /\ UNCHANGED <<ring, log, pub, taken, released, ops, obj>> /\ pc[t] = "head"
        /\ pc' = [pc EXCEPT ![t] = "other"] /\ n' = [n EXCEPT ![t] = max[t]]
        /\ claim' = [claim EXCEPT ![t] = HeadPos(Side(t))]
    BY <1>3 DEF ReadHead, Goto, local, moved
  <2> QED  BY <1>0, <2>1 DEF Active
<1>4. CASE ReadTail(t)
  <2>1. /\ UNCHANGED <<ring, log, pub, taken, released, ops, obj, claim>> /\ pc[t] = "other"
        /\ pc' = [pc EXCEPT ![t] = "out"] \/ pc' = [pc EXCEPT ![t] = "cas"]
        /\ n' = n \/ n' = [n EXCEPT ![t] = IF max[t] > Avail(t) THEN Avail(t) ELSE max[t]]
    BY <1>4 DEF ReadTail, Return, Goto, local, hist, moved
  <2>2. pc'[t] \in {"out", "cas"} /\ \A u \in Threads \ {t} : pc'[u] = pc[u]
    BY <1>0, <2>1
  <2>3. \A u \in Threads \ {t} : n'[u] = n[u]
    BY <1>0, <2>1
  <2> QED  BY <2>1, <2>2, <2>3 DEF Active
<1>5. CASE pc[t] = "cas" /\ Goto(t, "head") /\ UNCHANGED <<head, tail, ring, n, h, local, ret, hist>>
  <2>1. /\ UNCHANGED <<ring, log, pub, taken, released, ops, obj, n, claim>> /\ pc[t] = "cas"
        /\ pc' = [pc EXCEPT ![t] = "head"]
    BY <1>5 DEF Goto, local, hist, moved
  <2> QED  BY <1>0, <2>1 DEF Active
<1> QED  BY <1>2, <1>3, <1>4, <1>5 DEF Quiet

(* The six kinds of step. *)
LEMMA Kinds ==
  ASSUME NEW t \in Threads, Step(t)
  PROVE  \/ Quiet(t)
         \/ pc[t] = "cas" /\ (head[Side(t)] = h[t] \/ Side(t) \notin multi) /\ Claimed(t)
         \/ Copy(t)
         \/ Publish(t)
  BY DEF Step, Quiet

(* An empty ring holds nothing. *)
LEMMA StoredInit == Init => Stored
<1> SUFFICES ASSUME Init PROVE Stored
  OBVIOUS
<1>1. /\ ring = [i \in 0 .. Mask |-> <<>>] /\ \A t \in Threads : pc[t] = "out"
      /\ log = <<>>
  BY DEF Init
<1>2. Len(log) = 0
  BY <1>1, EmptySeq
<1>3. \A p \in Nat : ~ (p < Len(log))
  BY <1>2, SMTT(60)
<1>4. \A t \in Producers : ~ Active(t)
  BY <1>1 DEF Active, Threads
<1> QED  BY <1>1, <1>3, <1>4 DEF Stored

(* Every step keeps what is in the ring. *)
LEMMA StoredStep ==
  ASSUME RingInv, Stored, [Next]_vars
  PROVE  Stored'
<1>0. DOMAIN pc = Threads
  BY DEF RingInv, Types
<1>1. CASE UNCHANGED vars
  BY <1>1 DEF vars, Stored, Active, Logged, Written, InPlace, Covers
<1>2. ASSUME NEW t \in Threads, Step(t) PROVE Stored'
  <2>1. CASE Quiet(t)
    <3>1. /\ UNCHANGED <<ring, log, pub, released>> /\ ~ Active(t) /\ ~ Active(t)'
          /\ \A u \in Threads \ {t} : /\ pc'[u] = pc[u] /\ n'[u] = n[u] /\ claim'[u] = claim[u]
                                      /\ ops'[u] = ops[u]
      BY <2>1, QuietStep
    <3>2. \A u \in Producers : /\ pc'[u] = "copy" <=> pc[u] = "copy"
                               /\ pc'[u] = "publish" <=> pc[u] = "publish"
                               /\ Active(u) => n'[u] = n[u] /\ claim'[u] = claim[u] /\ ops'[u] = ops[u]
      BY <3>1 DEF Active, Threads
    <3> QED  BY <3>1, <3>2, StoredStays
  <2>2. CASE pc[t] = "cas" /\ (head[Side(t)] = h[t] \/ Side(t) \notin multi) /\ Claimed(t)
    <3>1. CASE t \in Producers
      <4>1. claim[t] = HeadPos(Side(t))
        BY <2>2, ClaimsAtHead
      <4> QED  BY <2>2, <3>1, <4>1, StoredClaim
    <3>2. CASE t \notin Producers
      <4>1. /\ UNCHANGED <<ring, log, pub, released>> /\ pc' = [pc EXCEPT ![t] = "copy"]
            /\ n' = n /\ claim' = claim /\ ops' = ops
        BY <2>2, <3>2 DEF Claimed, Goto, local
      <4>2. \A u \in Producers : pc'[u] = pc[u]
        BY <1>0, <3>2, <4>1 DEF Threads
      <4> QED  BY <4>1, <4>2, StoredStays
    <3> QED  BY <3>1, <3>2
  <2>3. CASE Copy(t)
    <3>1. CASE t \in Producers
      BY <2>3, <3>1, StoredCopy
    <3>2. CASE t \notin Producers
      <4>1. /\ UNCHANGED <<ring, log, pub, released>> /\ pc' = [pc EXCEPT ![t] = "publish"]
            /\ n' = n /\ claim' = claim /\ ops' = ops
        BY <2>3, <3>2 DEF Copy, Goto, hist, moved
      <4>2. \A u \in Producers : pc'[u] = pc[u]
        BY <1>0, <3>2, <4>1 DEF Threads
      <4> QED  BY <4>1, <4>2, StoredStays
    <3> QED  BY <3>1, <3>2
  <2>4. CASE Publish(t)
    BY <2>4, StoredPublish, StoredRelease
  <2> QED  BY <1>2, <2>1, <2>2, <2>3, <2>4, Kinds
<1> QED  BY <1>1, <1>2, StepOf

(* Both invariants hold always. *)
LEMMA StoredKept == Spec => [](RingInv /\ Stored)
<1>1. Init => RingInv /\ Stored
  BY RingInit, StoredInit
<1>2. RingInv /\ Stored /\ [Next]_vars => RingInv' /\ Stored'
  BY RingStep, StoredStep
<1> QED  BY <1>1, <1>2, PTL DEF Spec
-----------------------------------------------------------------------------
(* The queue and the batches that the ring stands for. *)
Queue == SubSeq(log, taken + 1, pub)
Got(t) == IF pc[t] = "copy" /\ t \in Consumers THEN SubSeq(log, claim[t] + 1, claim[t] + n[t]) ELSE obj[t]
Gots == [t \in Threads |-> Got(t)]

(* A step in which both stay. *)
LEMMA BatchStutters ==
  ASSUME Queue' = Queue, Gots' = Gots
  PROVE  [Batch!Next]_<<SubSeq(log, taken + 1, pub),
                        [t \in Threads |-> IF pc[t] = "copy" /\ t \in Consumers
                                           THEN SubSeq(log, claim[t] + 1, claim[t] + n[t]) ELSE obj[t]]>>
  BY DEF Queue, Gots, Got

(* A step in which t gives up the batch that it took. *)
LEMMA BatchForgets ==
  ASSUME Queue' = Queue, NEW t \in Threads, Gots' = [Gots EXCEPT ![t] = <<>>]
  PROVE  Batch!Next
  BY DEF Queue, Gots, Got, Batch!Next, Batch!Forget

(* A step in which a batch is added. *)
LEMMA BatchPuts ==
  ASSUME Queue # Queue', Len(Queue) <= Len(Queue'),
         SubSeq(Queue, 1, Len(Queue)) = SubSeq(Queue', 1, Len(Queue)), Len(Queue') <= Mask, Gots' = Gots
  PROVE  Batch!Next
<1>1. Batch!Begins(Queue, Queue')
  BY DEF Batch!Begins
<1> QED  BY <1>1 DEF Queue, Gots, Got, Batch!Next, Batch!Put

(* A step in which t takes a batch of k. *)
LEMMA BatchTakes ==
  ASSUME NEW t \in Threads, NEW k \in 1 .. Len(Queue), Gots' = [Gots EXCEPT ![t] = SubSeq(Queue, 1, k)],
         Queue' = SubSeq(Queue, k + 1, Len(Queue))
  PROVE  Batch!Next
  BY DEF Queue, Gots, Got, Batch!Next, Batch!Take

(* The batch of a thread that does not move stays, while the history grows *)
(* at its end.                                                             *)
LEMMA GotStays ==
  ASSUME RingInv, NEW u \in Threads, pc'[u] = pc[u], n'[u] = n[u], claim'[u] = claim[u], obj'[u] = obj[u],
         log' \in Seq(Objects), Len(log) <= Len(log'), \A k \in 1 .. Len(log) : log'[k] = log[k]
  PROVE  Got(u)' = Got(u)
<1>0. Types /\ Ordered /\ Claims
  BY DEF RingInv
<1>1. CASE pc[u] = "copy" /\ u \in Consumers
  <2> DEFINE a == claim[u]
             b == claim[u] + n[u]
  <2>1. Active(u) /\ u \notin Producers
    BY <1>1, RingAssumption DEF Active
  <2>2. claim[u] + n[u] <= taken
    BY <1>0, <2>1, Sides DEF Claims, Within, HeadPos
  <2>3. claim[u] \in Nat /\ n[u] \in Nat /\ taken \in Nat /\ pub \in Nat /\ Len(log) \in Nat /\ Len(log') \in Nat
        /\ log \in Seq(Objects)
    BY <1>0, LenProperties DEF Types
  <2>4. a \in Nat /\ b \in Nat /\ a <= b /\ b <= Len(log) /\ b <= Len(log')
    BY <1>0, <2>2, <2>3, SMTT(60) DEF Ordered
  <2> HIDE DEF a, b
  <2>5. SubSeq(log', a + 1, b) = SubSeq(log, a + 1, b)
    BY <2>3, <2>4, SliceSame, SMTT(60)
  <2> QED  BY <1>1, <2>5 DEF Got, a, b
<1>2. CASE ~ (pc[u] = "copy" /\ u \in Consumers)
  BY <1>2 DEF Got
<1> QED  BY <1>1, <1>2

(* What a thread that is not copying has is in its table. *)
LEMMA GotTable ==
  ASSUME NEW t, pc[t] # "copy" \/ t \in Producers
  PROVE  Got(t) = obj[t]
  BY RingAssumption DEF Got

(* The same after a step. *)
LEMMA GotTableNext ==
  ASSUME NEW t, pc'[t] # "copy" \/ t \in Producers
  PROVE  Got(t)' = obj'[t]
  BY RingAssumption DEF Got

(* The counts that bound the queue. *)
LEMMA QueueBounds ==
  ASSUME RingInv
  PROVE  /\ taken \in Nat /\ pub \in Nat /\ Len(log) \in Nat /\ log \in Seq(Objects) /\ released \in Nat
         /\ taken <= pub /\ pub <= Len(log) /\ released <= taken /\ Len(log) <= released + Mask
         /\ Queue \in Seq(Objects) /\ Len(Queue) = pub - taken
<1>1. Types /\ Ordered
  BY DEF RingInv
<1>2. /\ taken \in Nat /\ pub \in Nat /\ Len(log) \in Nat /\ log \in Seq(Objects) /\ released \in Nat
  BY <1>1, LenProperties DEF Types
<1>3. taken <= pub /\ pub <= Len(log) /\ released <= taken /\ Len(log) <= released + Mask
  BY <1>1 DEF Ordered
<1>4. SubSeq(log, taken + 1, pub) \in Seq(Objects) /\ IsSlice(SubSeq(log, taken + 1, pub), log, taken, pub)
  BY <1>2, <1>3, Slice
<1>5. Queue \in Seq(Objects) /\ Len(Queue) = pub - taken
  BY <1>4 DEF Queue, IsSlice
<1> QED  BY <1>2, <1>3, <1>5

(* A step of a thread without a range: nothing, or Forget. *)
LEMMA QuietImplements ==
  ASSUME RingInv, NEW t \in Threads, Quiet(t)
  PROVE  Queue' = Queue /\ (Gots' = Gots \/ Gots' = [Gots EXCEPT ![t] = <<>>])
<1>1. /\ log' = log /\ pub' = pub /\ taken' = taken /\ ~ Active(t) /\ ~ Active(t)'
      /\ \A u \in Threads \ {t} : pc'[u] = pc[u] /\ n'[u] = n[u] /\ claim'[u] = claim[u] /\ obj'[u] = obj[u]
      /\ obj' = obj \/ obj' = [obj EXCEPT ![t] = <<>>]
  BY QuietStep
<1>2. Queue' = Queue
  BY <1>1 DEF Queue
<1>3. \A u \in Threads \ {t} : Got(u)' = Got(u)
  BY <1>1 DEF Got
<1>4. pc[t] # "copy" /\ pc'[t] # "copy"
  BY <1>1 DEF Active
<1>5. Got(t)' = obj'[t] /\ Got(t) = obj[t]
  BY <1>4, GotTable, GotTableNext
<1>6. CASE obj' = obj
  <2>1. \A u \in Threads : Got(u)' = Got(u)
    BY <1>3, <1>5, <1>6
  <2> QED  BY <1>2, <2>1 DEF Gots
<1>7. CASE obj' = [obj EXCEPT ![t] = <<>>]
  <2>1. Got(t)' = <<>>
    BY <1>5, <1>7 DEF RingInv, Types
  <2> QED  BY <1>2, <1>3, <2>1 DEF Gots
<1> QED  BY <1>1, <1>6, <1>7

(* A producer's claim: nothing. *)
LEMMA EnqueueImplements ==
  ASSUME RingInv, NEW t \in Threads, t \in Producers, Claimed(t)
  PROVE  Queue' = Queue /\ Gots' = Gots
<1>1. /\ pc' = [pc EXCEPT ![t] = "copy"] /\ n' = n /\ claim' = claim /\ obj' = obj /\ pub' = pub /\ taken' = taken
      /\ log' = log \o Batched(t)
  BY DEF Claimed, Goto, local, Batched
<1>2. /\ taken \in Nat /\ pub \in Nat /\ Len(log) \in Nat /\ log \in Seq(Objects) /\ taken <= pub /\ pub <= Len(log)
  BY QueueBounds
<1>3. Types /\ DOMAIN pc = Threads /\ n[t] \in Nat
  BY DEF RingInv, Types
<1>4. log' \in Seq(Objects) /\ Len(log') = Len(log) + n[t] /\ \A k \in 1 .. Len(log) : log'[k] = log[k]
  BY <1>1, <1>3, Enqueued
<1>5. Len(log) <= Len(log') /\ pub <= Len(log')
  BY <1>2, <1>3, <1>4, SMTT(60)
<1>6. SubSeq(log', taken + 1, pub) = SubSeq(log, taken + 1, pub)
  BY <1>2, <1>4, <1>5, SliceSame
<1>7. Queue' = Queue
  BY <1>1, <1>6 DEF Queue
<1>8. ASSUME NEW u \in Threads PROVE Got(u)' = Got(u)
  <2>1. CASE u = t
    BY <1>1, <2>1, GotTable, GotTableNext
  <2>2. CASE u # t
    <3>1. pc'[u] = pc[u] /\ n'[u] = n[u] /\ claim'[u] = claim[u] /\ obj'[u] = obj[u]
      BY <1>1, <1>3, <2>2
    <3> QED  BY <1>4, <1>5, <3>1, GotStays
  <2> QED  BY <2>1, <2>2
<1> QED  BY <1>7, <1>8 DEF Gots

(* A consumer's claim: Take. *)
LEMMA DequeueImplements ==
  ASSUME RingInv, NEW t \in Threads, t \notin Producers, pc[t] = "cas", Claimed(t), claim[t] = HeadPos(Side(t))
  PROVE  /\ n[t] \in 1 .. Len(Queue)
         /\ Gots' = [Gots EXCEPT ![t] = SubSeq(Queue, 1, n[t])]
         /\ Queue' = SubSeq(Queue, n[t] + 1, Len(Queue))
<1>1. /\ pc' = [pc EXCEPT ![t] = "copy"] /\ n' = n /\ claim' = claim /\ obj' = obj /\ pub' = pub
      /\ taken' = taken + n[t] /\ log' = log
  BY DEF Claimed, Goto, local
<1>2. /\ taken \in Nat /\ pub \in Nat /\ Len(log) \in Nat /\ log \in Seq(Objects) /\ taken <= pub /\ pub <= Len(log)
      /\ Len(Queue) = pub - taken
  BY QueueBounds
<1>3. DOMAIN pc = Threads /\ n[t] \in Nat /\ t \in Consumers
  BY DEF RingInv, Types, Threads
<1>4. claim[t] = taken /\ n[t] > 0 /\ claim[t] + n[t] <= pub
  <2>1. Side(t) = "cons"
    BY Sides
  <2>2. n[t] > 0 /\ claim[t] + n[t] <= Limit(Side(t))
    BY DEF RingInv, Pending
  <2> QED  BY <2>1, <2>2 DEF HeadPos, Limit
<1> DEFINE k == taken + n[t]
<1>5. /\ k \in Nat /\ taken <= k /\ k <= pub /\ taken <= taken /\ pub <= pub
      /\ taken \in Nat /\ pub \in Nat /\ pub <= Len(log) /\ log \in Seq(Objects)
  BY <1>2, <1>3, <1>4, SMTT(60)
<1>e. /\ taken - taken + 1 = 1 /\ k - taken = n[t] /\ k - taken + 1 = n[t] + 1 /\ pub - taken = Len(Queue)
      /\ n[t] \in 1 .. Len(Queue)
  BY <1>2, <1>3, <1>4, SMTT(60)
<1>6. k = taken' /\ k = claim[t] + n[t]
  BY <1>1, <1>4
<1> HIDE DEF k
<1>7. SubSeq(SubSeq(log, taken + 1, pub), taken - taken + 1, k - taken) = SubSeq(log, taken + 1, k)
  BY <1>5, SliceOfSlice, SMTT(60)
<1>8. SubSeq(SubSeq(log, taken + 1, pub), k - taken + 1, pub - taken) = SubSeq(log, k + 1, pub)
  BY <1>5, SliceOfSlice, SMTT(60)
<1>9. SubSeq(Queue, 1, n[t]) = SubSeq(log, taken + 1, k)
  BY <1>7, <1>e DEF Queue
<1>10. SubSeq(Queue, n[t] + 1, Len(Queue)) = SubSeq(log, k + 1, pub)
  BY <1>8, <1>e DEF Queue
<1>11. Queue' = SubSeq(Queue, n[t] + 1, Len(Queue))
  BY <1>1, <1>6, <1>10 DEF Queue
<1>12. Got(t)' = SubSeq(Queue, 1, n[t])
  <2>1. pc'[t] = "copy"
    BY <1>1, <1>3
  <2>2. Got(t)' = SubSeq(log', claim'[t] + 1, claim'[t] + n'[t])
    BY <1>3, <2>1 DEF Got
  <2>3. claim'[t] = taken /\ claim'[t] + n'[t] = k /\ log' = log
    BY <1>1, <1>4, <1>6
  <2> QED  BY <1>9, <2>2, <2>3
<1>13. \A u \in Threads \ {t} : Got(u)' = Got(u)
  BY <1>1, <1>3 DEF Got
<1>14. Gots' = [Gots EXCEPT ![t] = SubSeq(Queue, 1, n[t])]
  BY <1>12, <1>13 DEF Gots
<1> QED  BY <1>11, <1>14, <1>e

(* What a consumer reads from the ring is what it claimed. *)
LEMMA CopiesBatch ==
  ASSUME RingInv, Stored, NEW t \in Threads, t \notin Producers, pc[t] = "copy",
         NEW f, f = [j \in 1 .. n[t] |-> ring[(h[t] + j - 1) % Size]]
  PROVE  f = SubSeq(log, claim[t] + 1, claim[t] + n[t])
<1> DEFINE a == claim[t]
           b == claim[t] + n[t]
<1>0. Active(t) /\ Held(t)
  BY DEF Active, Held
<1>1. /\ log \in Seq(Objects) /\ Len(log) \in Nat /\ claim[t] \in Nat /\ n[t] \in Nat /\ pub \in Nat /\ taken \in Nat
      /\ pub <= Len(log) /\ taken <= pub /\ log \in [1 .. Len(log) -> Objects]
  BY QueueBounds, LenProperties DEF RingInv, Types
<1>2. claim[t] \in 0 .. IndexMod - 1 /\ h[t] = Add(Start, claim[t]) /\ h[t] \in Int
  <2>1. claim[t] \in 0 .. IndexMod - 1 /\ h[t] = Add(Start, claim[t])
    BY <1>0, ClaimBound
  <2>2. h[t] \in 0 .. IndexMod - 1
    BY <2>1, IndexOf
  <2> QED  BY <2>1, <2>2, Constants, SMTT(60)
<1>3. ASSUME NEW j \in 1 .. n[t] PROVE f[j] = log[claim[t] + j] /\ log[claim[t] + j] \in Objects
  <2> DEFINE p == claim[t] + (j - 1)
  <2>1. /\ p \in Nat /\ claim[t] <= p /\ p < claim[t] + n[t] /\ p + 1 = claim[t] + j /\ j - 1 \in Int
        /\ Start + claim[t] + (j - 1) = Start + p /\ h[t] + j - 1 = h[t] + (j - 1)
    <3>1. j \in Int /\ 1 <= j /\ j <= n[t] /\ Start \in Int
      BY <1>1, Constants, SMTT(60)
    <3>2. p \in Nat /\ claim[t] <= p /\ p < claim[t] + n[t] /\ p + 1 = claim[t] + j /\ j - 1 \in Int
      BY <1>1, <3>1, SMTT(60)
    <3>3. Start + claim[t] + (j - 1) = Start + p
      BY <1>1, <3>1, SMTT(60)
    <3>4. h[t] + j - 1 = h[t] + (j - 1)
      BY <1>2, <3>1, SMTT(60)
    <3> QED  BY <3>2, <3>3, <3>4
  <2>2. (h[t] + (j - 1)) % Size = (Start + claim[t] + (j - 1)) % Size
    BY <1>2, <2>1, SlotOf
  <2>3. f[j] = ring[(h[t] + j - 1) % Size]
    OBVIOUS
  <2> HIDE DEF p
  <2>4. released <= p /\ p < Len(log) /\ p < pub
    BY <1>0, <2>1, InWindow
  <2>5. InPlace(p)
    BY <2>1, <2>4 DEF Stored, Written
  <2>6. p + 1 \in 1 .. Len(log)
    BY <1>1, <2>1, <2>4, SMTT(60)
  <2>7. log[p + 1] \in Objects
    BY <1>1, <2>6
  <2> QED  BY <2>1, <2>2, <2>3, <2>5, <2>7 DEF InPlace
<1>4. f \in [1 .. n[t] -> Objects]
  BY <1>3
<1>5. f \in Seq(Objects) /\ Len(f) = n[t]
  BY <1>1, <1>4, Table
<1>6. a \in Nat /\ b \in Nat /\ a <= b /\ b <= Len(log) /\ b - a = n[t]
  <2>1. b <= taken
    BY <1>0, Sides DEF RingInv, Claims, Within, HeadPos
  <2> QED  BY <1>1, <2>1, SMTT(60)
<1>7. IsSlice(f, log, a, b)
  BY <1>3, <1>5, <1>6 DEF IsSlice
<1> HIDE DEF a, b
<1>8. SubSeq(log, a + 1, b) \in Seq(Objects) /\ IsSlice(SubSeq(log, a + 1, b), log, a, b)
  BY <1>1, <1>6, Slice
<1>9. f = SubSeq(log, a + 1, b)
  <2> DEFINE g == SubSeq(log, a + 1, b)
  <2>1. f \in Seq(Objects) /\ g \in Seq(Objects) /\ IsSlice(f, log, a, b) /\ IsSlice(g, log, a, b)
        /\ a \in Nat /\ b \in Nat /\ a <= b
    BY <1>5, <1>6, <1>7, <1>8
  <2> HIDE DEF g
  <2>2. f = g
    BY <2>1, SliceUnique
  <2> QED  BY <2>2 DEF g
<1> QED  BY <1>9 DEF a, b

(* A copy: nothing. *)
LEMMA CopyImplements ==
  ASSUME RingInv, Stored, NEW t \in Threads, Copy(t)
  PROVE  Queue' = Queue /\ Gots' = Gots
<1>1. /\ pc[t] = "copy" /\ pc' = [pc EXCEPT ![t] = "publish"] /\ n' = n /\ claim' = claim
      /\ log' = log /\ pub' = pub /\ taken' = taken
  BY DEF Copy, Goto, hist, moved
<1>2. DOMAIN pc = Threads /\ DOMAIN obj = Threads
  BY DEF RingInv, Types
<1>3. Queue' = Queue
  BY <1>1 DEF Queue
<1>4. pc'[t] # "copy" /\ \A u \in Threads \ {t} : pc'[u] = pc[u]
  BY <1>1, <1>2
<1>5. \A u \in Threads \ {t} : obj'[u] = obj[u]
  BY <1>2 DEF Copy
<1>6. \A u \in Threads \ {t} : Got(u)' = Got(u)
  BY <1>1, <1>4, <1>5 DEF Got
<1>7. Got(t)' = Got(t)
  <2>1. Got(t)' = obj'[t]
    BY <1>4, GotTableNext
  <2>2. CASE t \in Producers
    <3>1. obj' = obj /\ Got(t) = obj[t]
      BY <2>2, GotTable DEF Copy
    <3> QED  BY <2>1, <3>1
  <2>3. CASE t \notin Producers
    <3>1. obj' = [obj EXCEPT ![t] = [j \in 1 .. n[t] |-> ring[(h[t] + j - 1) % Size]]]
      BY <2>3 DEF Copy
    <3>2. obj'[t] = [j \in 1 .. n[t] |-> ring[(h[t] + j - 1) % Size]]
      BY <1>2, <3>1
    <3>3. obj'[t] = SubSeq(log, claim[t] + 1, claim[t] + n[t])
      BY <1>1, <2>3, <3>2, CopiesBatch
    <3>4. Got(t) = SubSeq(log, claim[t] + 1, claim[t] + n[t])
      BY <1>1, <2>3 DEF Got, Threads
    <3> QED  BY <2>1, <3>3, <3>4
  <2> QED  BY <2>2, <2>3
<1> QED  BY <1>3, <1>6, <1>7 DEF Gots

(* A publication leaves the batches as they are. *)
LEMMA PublishGots ==
  ASSUME RingInv, NEW t \in Threads, Publish(t)
  PROVE  Gots' = Gots
<1>1. /\ pc[t] = "publish" /\ pc' = [pc EXCEPT ![t] = "out"] /\ n' = n /\ claim' = claim /\ obj' = obj /\ log' = log
  BY DEF Publish, Return, Goto, local
<1>2. DOMAIN pc = Threads
  BY DEF RingInv, Types
<1>3. pc[t] # "copy" /\ pc'[t] # "copy" /\ \A u \in Threads \ {t} : pc'[u] = pc[u]
  BY <1>1, <1>2
<1>4. \A u \in Threads : Got(u)' = Got(u)
  BY <1>1, <1>3 DEF Got
<1> QED  BY <1>4 DEF Gots

(* A producer's publication: Put. *)
LEMMA PutImplements ==
  ASSUME RingInv, NEW t \in Threads, t \in Producers, Publish(t)
  PROVE  /\ Queue # Queue' /\ Len(Queue) <= Len(Queue') /\ Len(Queue') <= Mask
         /\ SubSeq(Queue, 1, Len(Queue)) = SubSeq(Queue', 1, Len(Queue))
<1>1. pc[t] = "publish" /\ pub' = pub + n[t] /\ taken' = taken /\ log' = log
  BY DEF Publish
<1>2. /\ taken \in Nat /\ pub \in Nat /\ Len(log) \in Nat /\ log \in Seq(Objects) /\ released \in Nat
      /\ taken <= pub /\ pub <= Len(log) /\ released <= taken /\ Len(log) <= released + Mask
      /\ Len(Queue) = pub - taken
  BY QueueBounds
<1>3. claim[t] = pub /\ n[t] > 0 /\ claim[t] + n[t] <= Len(log) /\ n[t] \in Nat
  <2>1. claim[t] = TailPos(Side(t))
    BY <1>1, PublishesAtTail DEF Publish
  <2>2. Active(t) /\ Side(t) = "prod"
    BY <1>1, Sides DEF Active
  <2>3. n[t] > 0 /\ claim[t] + n[t] <= HeadPos(Side(t)) /\ n[t] \in Nat
    BY <2>2 DEF RingInv, Claims, Within, Types
  <2> QED  BY <2>1, <2>2, <2>3 DEF TailPos, HeadPos
<1> DEFINE k == pub + n[t]
<1>4. /\ k \in Nat /\ taken <= k /\ k <= Len(log) /\ taken <= taken /\ taken <= pub /\ pub <= k /\ pub <= pub
      /\ taken \in Nat /\ pub \in Nat /\ pub <= Len(log) /\ log \in Seq(Objects)
  BY <1>2, <1>3, SMTT(60)
<1>5. k = pub' /\ k > pub /\ k - taken <= Mask /\ taken - taken + 1 = 1
  BY <1>1, <1>2, <1>3, Constants, SMTT(60)
<1> HIDE DEF k
<1>6. SubSeq(log, taken + 1, k) \in Seq(Objects) /\ IsSlice(SubSeq(log, taken + 1, k), log, taken, k)
  BY <1>4, Slice
<1>7. Queue' = SubSeq(log, taken + 1, k)
  BY <1>1, <1>5 DEF Queue
<1>8. Len(Queue') = k - taken
  BY <1>6, <1>7 DEF IsSlice
<1>9. Len(Queue) < Len(Queue') /\ Len(Queue) <= Len(Queue') /\ Len(Queue') <= Mask /\ Len(Queue) # Len(Queue')
  <2>1. taken \in Nat /\ pub \in Nat /\ k \in Nat /\ Mask \in Nat /\ pub < k /\ k - taken <= Mask
    BY <1>4, <1>5, Constants
  <2>2. pub - taken < k - taken /\ pub - taken <= k - taken /\ pub - taken # k - taken
    BY <2>1, SMTT(60)
  <2>3. Len(Queue) = pub - taken
    BY <1>2
  <2> QED  BY <1>8, <2>1, <2>2, <2>3
<1>10. SubSeq(SubSeq(log, taken + 1, pub), taken - taken + 1, pub - taken) = SubSeq(log, taken + 1, pub)
  BY <1>4, SliceOfSlice, SMTT(60)
<1>11. SubSeq(SubSeq(log, taken + 1, k), taken - taken + 1, pub - taken) = SubSeq(log, taken + 1, pub)
  BY <1>4, SliceOfSlice, SMTT(60)
<1>12. SubSeq(Queue, 1, Len(Queue)) = SubSeq(log, taken + 1, pub)
  BY <1>2, <1>5, <1>10 DEF Queue
<1>13. SubSeq(Queue', 1, Len(Queue)) = SubSeq(log, taken + 1, pub)
  BY <1>2, <1>5, <1>7, <1>11
<1>14. Queue # Queue'
  BY <1>9
<1> QED  BY <1>9, <1>12, <1>13, <1>14

(* Every step of the ring is a step of the queue of batches, or none.      *)
LEMMA BatchStep ==
  ASSUME RingInv, Stored, [Next]_vars
  PROVE  Batch!Next \/ (Queue' = Queue /\ Gots' = Gots)
<1>1. CASE UNCHANGED vars
  BY <1>1 DEF vars, Queue, Gots, Got
<1>2. ASSUME NEW t \in Threads, Step(t) PROVE Batch!Next \/ (Queue' = Queue /\ Gots' = Gots)
  <2>1. CASE Quiet(t)
    BY <2>1, QuietImplements, BatchForgets
  <2>2. CASE pc[t] = "cas" /\ (head[Side(t)] = h[t] \/ Side(t) \notin multi) /\ Claimed(t)
    <3>1. claim[t] = HeadPos(Side(t))
      BY <2>2, ClaimsAtHead
    <3>2. CASE t \in Producers
      BY <2>2, <3>2, EnqueueImplements
    <3>3. CASE t \notin Producers
      <4>1. /\ n[t] \in 1 .. Len(Queue)
            /\ Gots' = [Gots EXCEPT ![t] = SubSeq(Queue, 1, n[t])]
            /\ Queue' = SubSeq(Queue, n[t] + 1, Len(Queue))
        BY <2>2, <3>1, <3>3, DequeueImplements
      <4> QED  BY <4>1, BatchTakes
    <3> QED  BY <3>2, <3>3
  <2>3. CASE Copy(t)
    BY <2>3, CopyImplements
  <2>4. CASE Publish(t)
    <3>1. Gots' = Gots
      BY <2>4, PublishGots
    <3>2. CASE t \in Producers
      <4>1. /\ Queue # Queue' /\ Len(Queue) <= Len(Queue') /\ Len(Queue') <= Mask
            /\ SubSeq(Queue, 1, Len(Queue)) = SubSeq(Queue', 1, Len(Queue))
        BY <2>4, <3>2, PutImplements
      <4> QED  BY <3>1, <4>1, BatchPuts
    <3>3. CASE t \notin Producers
      <4>1. Queue' = Queue
        BY <2>4, <3>3 DEF Publish, Queue
      <4> QED  BY <3>1, <4>1
    <3> QED  BY <3>2, <3>3
  <2> QED  BY <1>2, <2>1, <2>2, <2>3, <2>4, Kinds
<1> QED  BY <1>1, <1>2, StepOf

(* Concurrent bulk and burst operations act as operations on a FIFO of     *)
(* Size - 1 objects, one at a time: nothing is lost, duplicated,           *)
(* overwritten or reordered, and a batch stays together.  For any number   *)
(* of threads, any size of the ring and of the batches.                    *)
THEOREM RingIsBatchQueue == Spec => BatchSpec
<1>1. Init => Batch!Init
  <2> SUFFICES ASSUME Init PROVE Batch!Init
    OBVIOUS
  <2>1. /\ log = <<>> /\ taken = 0 /\ pub = 0 /\ obj = [t \in Threads |-> <<>>] /\ pc = [t \in Threads |-> "out"]
    BY DEF Init
  <2>2. SubSeq(log, taken + 1, pub) = <<>>
    <3>1. taken + 1 \in Int /\ pub \in Int /\ pub < taken + 1
      BY <2>1, SMTT(60)
    <3> QED  BY <3>1, SubSeqEmpty
  <2> QED  BY <2>1, <2>2 DEF Batch!Init
<1>2. RingInv /\ Stored /\ [Next]_vars =>
        [Batch!Next]_<<SubSeq(log, taken + 1, pub),
                       [t \in Threads |-> IF pc[t] = "copy" /\ t \in Consumers
                                          THEN SubSeq(log, claim[t] + 1, claim[t] + n[t]) ELSE obj[t]]>>
  BY BatchStep, BatchStutters
<1> QED  BY <1>1, <1>2, StoredKept, PTL DEF Spec, BatchSpec, Batch!Spec
=============================================================================
