------------------------------ MODULE StrMatch ------------------------------
(***************************************************************************)
(* inc/utils/strmatch.h: the searches of Knuth, Morris and Pratt, of       *)
(* Boyer and Moore (plain and turbo) and of Rabin and Karp, for a pattern  *)
(* of at least one symbol.  A symbol is a number; indices are the C ones.  *)
(***************************************************************************)
EXTENDS Integers, Sequences, SequencesExt, FiniteSetsExt

CONSTANTS Symbols,
          PatMax, TextMax,   (* bounds: lengths                            *)
          HashBits           (* width of the int that holds a hash         *)

VARIABLES pat, text

matchVars == <<pat, text>>
MatchInit == pat = <<>> /\ text = <<>>

m == Len(pat)
P(i) == pat[i + 1]
T(i) == IF i < Len(text) THEN text[i + 1] ELSE 0    \* behind the text: what is there
-----------------------------------------------------------------------------
RECURSIVE FallBack(_, _, _)
(* The inner loop of both KMP passes: the longest border that c extends.   *)
FallBack(tab, k, c) == IF k > 0 /\ P(k) # c THEN FallBack(tab, tab[k], c) ELSE k
Advance(tab, k, c) == LET f == FallBack(tab, k, c) IN IF P(f) = c THEN f + 1 ELSE f

calc_prefix_tableFault ==                     \* fault: k starts over for every symbol
  FoldLeft(LAMBDA tab, c : Append(tab, Advance(tab, 0, c)), <<0>>, Tail(pat))

calc_prefix_table ==
  FoldLeft(LAMBDA tab, c : Append(tab, Advance(tab, Last(tab), c)), <<0>>, Tail(pat))

RECURSIVE ScanFrom(_, _, _), AllFrom(_, _)
ScanFrom(tab, i, q) ==
  IF q = m THEN i - m ELSE IF i = Len(text) THEN -1 ELSE ScanFrom(tab, i + 1, Advance(tab, q, T(i)))

(* kmp_search::match from an offset on; -1: no match *)
kmp_match(tab, off) == ScanFrom(tab, off, 0)

(* kmp_search::matchall: goes on behind the match *)
AllFrom(tab, off) ==
  LET j == kmp_match(tab, off)
  IN  IF off >= Len(text) \/ j = -1 THEN <<>> ELSE <<j>> \o AllFrom(tab, j + m)
kmp_matchall == AllFrom(calc_prefix_table, 0)
-----------------------------------------------------------------------------
calc_bad_char ==
  [c \in Symbols |-> LET at == {i \in 0 .. m - 2 : P(i) = c}
                     IN  IF at = {} THEN m ELSE m - 1 - Max(at)]

RECURSIVE SuffixLoop(_, _, _, _), Extend(_, _), TryAt(_, _), TurboAt(_, _, _), Slide(_, _)
Extend(g, q) == IF g >= 0 /\ P(g) = P(g + q) THEN Extend(g - 1, q) ELSE g

SuffixLoop(i, f, g, suff) ==
  IF i < 0 THEN suff
  ELSE LET j == i + m - 1 - f
           s == Extend(IF i < g THEN i ELSE g, m - 1 - i)
       IN  IF i > g /\ suff[j] < i - g
           THEN SuffixLoop(i - 1, f, g, [suff EXCEPT ![i] = suff[j]])
           ELSE SuffixLoop(i - 1, i, s, [suff EXCEPT ![i] = i - s])

(* suff[i]: how much of the end of the pattern also ends at i *)
calc_suffixes == SuffixLoop(m - 2, 0, m - 1, [i \in 0 .. m - 1 |-> IF i = m - 1 THEN m ELSE 0])

calc_good_shift ==
  LET suff == calc_suffixes
      borders(j) == {m - 1 - i : i \in {x \in 0 .. m - 1 : suff[x] = x + 1 /\ m - 1 - x > j}}
      ends(j) == {i \in 0 .. m - 2 : m - 1 - suff[i] = j}
  IN  [j \in 0 .. m - 1 |->
         IF ends(j) # {} THEN m - 1 - Max(ends(j)) ELSE Min(borders(j) \cup {m})]

(* compare from the right, at j: where the loop over i stops *)
Mismatch(j) == Max({-1} \cup {i \in 0 .. m - 1 : P(i) # T(i + j)})

TryAt(gs, j) ==
  IF j > Len(text) - m THEN <<>>
  ELSE LET i == Mismatch(j)
       IN  IF i < 0 THEN <<j>> \o TryAt(gs, j + gs[0])
           ELSE TryAt(gs, j + Max({gs[i], calc_bad_char[T(i + j)] - m + 1 + i}))
bm_matchall == TryAt(calc_good_shift, 0)

(* Turbo: compare from the right, and jump over the factor u that the last *)
(* attempt matched; us is <<u, shift>>.                                    *)
RECURSIVE TurboMismatch(_, _, _)
TurboMismatch(j, i, us) ==
  IF i < 0 \/ P(i) # T(i + j) THEN i
  ELSE TurboMismatch(j, IF us[1] # 0 /\ i - 1 = m - 1 - us[2] THEN i - 1 - us[1] ELSE i - 1, us)

TurboStepFault(gs, j, i, u) ==                \* fault: remembers more than matched
  LET s == Max({u - (m - 1 - i), calc_bad_char[T(i + j)] - m + 1 + i, gs[i]})
  IN  IF s = gs[i] THEN <<m - s, s>> ELSE <<0, s>>

TurboStep(gs, j, i, u) ==
  LET v == m - 1 - i
      turbo == u - v
      bc == calc_bad_char[T(i + j)] - m + 1 + i
      s == Max({turbo, bc, gs[i]})
  IN  IF s = gs[i] THEN <<Min({m - s, v}), s>>
      ELSE <<0, IF turbo < bc THEN Max({s, u + 1}) ELSE s>>

TurboAt(gs, j, us) ==
  IF j > Len(text) - m THEN <<>>
  ELSE LET i == TurboMismatch(j, m - 1, us)
           w == IF i < 0 THEN <<m - gs[0], gs[0]>> ELSE TurboStep(gs, j, i, us[1])
       IN  (IF i < 0 THEN <<j>> ELSE <<>>) \o TurboAt(gs, j + w[2], w)
turbo_matchall == TurboAt(calc_good_shift, 0, <<0, m>>)
-----------------------------------------------------------------------------
Wrap(x) == x % 2 ^ HashBits
HashOf(s) == FoldLeft(LAMBDA h, c : Wrap(2 * h + c), 0, s)

_rehashFault(a, b, h) == Wrap(2 * (h - a * 2 ^ m) + b)      \* fault: d = 2^m
_rehash(a, b, h) == Wrap(2 * (h - a * 2 ^ (m - 1)) + b)

Slide(j, h) ==
  IF j > Len(text) - m THEN <<>>
  ELSE (IF h = HashOf(pat) /\ SubSeq(text, j + 1, j + m) = pat THEN <<j>> ELSE <<>>)
       \o Slide(j + 1, _rehash(T(j), T(j + m), h))
rk_matchall == Slide(0, HashOf([i \in 1 .. m |-> T(i - 1)]))
-----------------------------------------------------------------------------
AddPattern == m < PatMax /\ text = <<>> /\ \E c \in Symbols : pat' = Append(pat, c) /\ UNCHANGED text
AddText == pat # <<>> /\ Len(text) < TextMax /\ \E c \in Symbols : text' = Append(text, c) /\ UNCHANGED pat
MatchNext == AddPattern \/ AddText
-----------------------------------------------------------------------------
Occurs(j) == j + m <= Len(text) /\ SubSeq(text, j + 1, j + m) = pat
Occurrences == SelectSeq([i \in 1 .. Len(text) |-> i - 1], Occurs)
Apart == FoldLeft(LAMBDA s, j : IF s # <<>> /\ j < Last(s) + m THEN s ELSE Append(s, j), <<>>, Occurrences)

(* The shift tables, the factor that turbo mode jumps over and the rolling *)
(* hash that wraps lose no occurrence and invent none: Boyer-Moore and     *)
(* Rabin-Karp "Return all the matching offsets" (strmatch.h).  The KMP     *)
(* class, of which strmatch.h:55 says the same, does not: it goes on       *)
(* behind a match, so it finds the leftmost ones that do not overlap.      *)
SearchesAgree ==
  pat # <<>> =>
    /\ kmp_matchall = Apart
    /\ bm_matchall = Occurrences /\ turbo_matchall = Occurrences
    /\ rk_matchall = Occurrences
=============================================================================
