------------------------------- MODULE Strings ------------------------------
(***************************************************************************)
(* Strings and the functions that take them apart or turn them into        *)
(* numbers. Each section has its own text.                                 *)
(***************************************************************************)
EXTENDS Integers, Sequences, SequencesExt, FiniteSetsExt
-----------------------------------------------------------------------------
(***************************************************************************)
(* Characters and C strings, for the modules that model conversions: a     *)
(* string is a sequence of one-character strings, without its NUL.         *)
(***************************************************************************)

EINVAL == -22      \* results of the functions that return -errno
ENOSPC == -28
ENOMEM == -12
ERANGE == -34

Decimal == <<"0", "1", "2", "3", "4", "5", "6", "7", "8", "9">>
LowerCase == <<"a", "b", "c", "d", "e", "f", "g", "h", "i", "j", "k", "l", "m",
               "n", "o", "p", "q", "r", "s", "t", "u", "v", "w", "x", "y", "z">>
UpperCase == <<"A", "B", "C", "D", "E", "F", "G", "H", "I", "J", "K", "L", "M",
               "N", "O", "P", "Q", "R", "S", "T", "U", "V", "W", "X", "Y", "Z">>

Ascii == <<" ", "'", ",", "-", "/">> \o Decimal \o <<"=">> \o UpperCase \o <<"\\">> \o LowerCase

IndexIn(c, s) == CHOOSE i \in DOMAIN s : s[i] = c
(* <ctype.h> of the C locale                                               *)
isdigit(c) == c \in Range(Decimal)
isalpha(c) == c \in Range(LowerCase) \cup Range(UpperCase)
isspace(c) == c \in {" ", "\t", "\n", "\r", "\f"}
DigitOf(c) == IndexIn(c, Decimal) - 1
(* the value of a digit in the bases up to 36                              *)
DigitOf36(c) == IF isdigit(c) THEN DigitOf(c)
                ELSE 9 + IndexIn(c, IF c \in Range(UpperCase) THEN UpperCase ELSE LowerCase)
Numeral(s) == FoldLeft(LAMBDA n, c : 10 * n + DigitOf(c), 0, s)

(* the order of the character codes, NUL first                             *)
Rank(c) == IF c = "nul" THEN 0 ELSE IndexIn(c, Ascii)

(* the string of decimal digits of n                                       *)
RECURSIVE Dec(_)
Dec(n) == (IF n < 10 THEN << >> ELSE Dec(n \div 10)) \o <<Decimal[(n % 10) + 1]>>
(* strchr: the first place of one of the characters C, 0 for none          *)
Strchr(s, C) == LET P == {i \in DOMAIN s : s[i] \in C} IN IF P = {} THEN 0 ELSE Min(P)
From(s, i) == SubSeq(s, i, Len(s))
(* the pieces of s between the characters C, empty ones included           *)
Pieces(s, C) == LET P == SelectSeq([i \in DOMAIN s |-> i], LAMBDA i : s[i] \in C)
                    E == <<0>> \o P \o <<Len(s) + 1>>
                IN  [i \in 1 .. Len(E) - 1 |-> SubSeq(s, E[i] + 1, E[i + 1] - 1)]
(* the strings ss one after the other with t between each two              *)
Joined(ss, t) == IF ss = << >> THEN << >> ELSE FoldLeft(LAMBDA r, s : r \o t \o s, Head(ss), Tail(ss))
-----------------------------------------------------------------------------
(***************************************************************************)
(* The string helpers of src/: strtrim.c, strsplit.c, strsplit_csv.c,      *)
(* splitargs.c, strcopy.c, strlcpy.c, dirname.c and strcasecmp.c, as       *)
(* functions of their string arguments.  The text sbuf takes every value   *)
(* over SChars up to SMax characters.                                      *)
(***************************************************************************)

CONSTANTS SChars, SMax, STRA_CAP      \* STRA_CAP: the first capacity of strsplit's array

VARIABLE sbuf

StrInit == sbuf = << >>
StrNext == Len(sbuf) < SMax /\ \E c \in SChars : sbuf' = Append(sbuf, c)

-----------------------------------------------------------------------------
strtrim(s) == LET NS == {i \in DOMAIN s : ~ isspace(s[i])}
              IN  IF NS = {} THEN << >> ELSE SubSeq(s, Min(NS), Max(NS))

(* struct stra: a growing array, or one of the caller's (cap < 0); ok is   *)
(* FALSE once a string found no room                                       *)
stra_init == [arr |-> << >>, cap |-> STRA_CAP, ok |-> TRUE]
stra_init_from(n) == [arr |-> << >>, cap |-> -n, ok |-> TRUE]
stra_resize(a) == [a EXCEPT !.cap = 2 * @]
stra_resize_ifFault(a, n) == LET want == Len(a.arr) + n
  IN  IF a.cap < 0 THEN [a EXCEPT !.ok = want <= 1 - a.cap]           \* fault: one too many
      ELSE IF want >= a.cap THEN stra_resize(a) ELSE a
stra_resize_if(a, n) == LET want == Len(a.arr) + n
  IN  IF a.cap < 0 THEN [a EXCEPT !.ok = want <= - a.cap]
      ELSE IF want >= a.cap THEN stra_resize(a) ELSE a
(* nothing is stored, or looked at, after the first failure                *)
Push(a, p) == IF ~ a.ok THEN a ELSE LET b == stra_resize_if(a, 1)
              IN  IF b.ok THEN [b EXCEPT !.arr = Append(@, p)] ELSE b

Flushed(S) == IF S.piece # << >> THEN Push(S.a, S.piece) ELSE S.a
split(a, s, d) ==
  Flushed(FoldLeft(LAMBDA S, c : IF c \in d THEN [a |-> Push(S.a, S.piece), piece |-> << >>]
                                 ELSE [S EXCEPT !.piece = Append(@, c)],
                   [a |-> a, piece |-> << >>], s))
(* a piece ends where a character follows a delimiter                      *)
split_sqz(a, s, d) ==
  Flushed(FoldLeft(LAMBDA S, c :
            IF c \in d THEN [S EXCEPT !.prev = c]
            ELSE IF S.prev \in d THEN [a |-> Push(S.a, S.piece), piece |-> <<c>>, prev |-> c]
            ELSE [S EXCEPT !.piece = Append(@, c), !.prev = c],
            [a |-> a, piece |-> << >>, prev |-> "nul"], strtrim(s)))
split_common(a, s, tok, sqz) == IF sqz THEN split_sqz(a, s, tok) ELSE split(a, s, tok)
Counted(a) == [ret |-> IF a.ok THEN Len(a.arr) ELSE -1, arr |-> a.arr]
strsplit_quick(n, s, tok, sqz) == Counted(split_common(stra_init_from(n), s, tok, sqz))
strsplit(s, tok, sqz) == split_common(stra_init, s, tok, sqz)

(* q: the open quote; a quote after a backslash replaces the backslash     *)
CsvPut(S, c) == [S EXCEPT !.piece = Append(@, c)]
csv_quoteFault(S, c) ==
  IF S.q = c THEN [S EXCEPT !.q = "nul"]                     \* fault: escapes ignored
  ELSE IF S.q # "nul" THEN CsvPut(S, c) ELSE [S EXCEPT !.q = c]
csv_quote(S, c) ==
  IF S.q = c THEN IF S.prev = "\\" THEN [S EXCEPT !.piece = Append(Front(@), c)]
                  ELSE [S EXCEPT !.q = "nul"]
  ELSE IF S.q # "nul" THEN CsvPut(S, c) ELSE [S EXCEPT !.q = c]
csv_end(S, n) == IF Len(S.arr) = n THEN [S EXCEPT !.err = ENOSPC]
                 ELSE [S EXCEPT !.arr = Append(@, S.piece), !.piece = << >>]
csv_char(S, c, n, sep) ==
  IF S.err # 0 THEN S
  ELSE [(IF c \in {"'", "\""} THEN csv_quote(S, c)
         ELSE IF c \in sep /\ S.q = "nul" THEN csv_end(S, n)
         ELSE CsvPut(S, c)) EXCEPT !.prev = c]
strsplit_csv(n, s, sep) ==
  LET r == FoldLeft(LAMBDA S, c : csv_char(S, c, n, sep),
                    [arr |-> << >>, piece |-> << >>, q |-> "nul", prev |-> "nul", err |-> 0], s)
      z == IF r.err # 0 \/ r.piece = << >> THEN r
           ELSE IF r.q # "nul" THEN [r EXCEPT !.err = EINVAL] ELSE csv_end(r, n)
  IN  [ret |-> IF z.err # 0 THEN z.err ELSE Len(z.arr), arr |-> z.arr]

(* m: the text with the NULs written so far, p the start of the word       *)
CString(m, p) == LET Z == {i \in p .. Len(m) : m[i] = "nul"}
                 IN  SubSeq(m, p, IF Z = {} THEN Len(m) ELSE Min(Z) - 1)
ADDARG(S, w, n) == IF Len(S.args) = n THEN [S EXCEPT !.err = ENOSPC] ELSE [S EXCEPT !.args = Append(@, w)]
word(S, n) == LET w == CString(S.m, S.p) IN IF w # << >> THEN ADDARG(S, w, n) ELSE S
argchar(S, i, n) ==
  LET c == S.m[i] IN
  IF S.err # 0 THEN S
  ELSE IF S.inquote # "nul"
       THEN IF c = S.inquote
            THEN LET m == [S.m EXCEPT ![i] = "nul"]
                 IN  [ADDARG(S, CString(m, S.p + 1), n) EXCEPT !.m = m, !.p = i + 1, !.inquote = "nul"]
            ELSE S
  ELSE IF isspace(c) THEN [S EXCEPT !.m[i] = "nul", !.eow = TRUE]
  ELSE LET T == IF c \in {"'", "\""} THEN [S EXCEPT !.inquote = c] ELSE S
       IN  IF T.eow THEN [word(T, n) EXCEPT !.p = i, !.eow = FALSE] ELSE T
strsplitargs(n, s) ==
  LET r == FoldLeft(LAMBDA S, i : argchar(S, i, n),
                    [m |-> s, p |-> 1, inquote |-> "nul", eow |-> FALSE, args |-> << >>, err |-> 0],
                    [i \in DOMAIN s |-> i])
      z == IF r.err # 0 THEN r ELSE IF r.inquote # "nul" THEN [r EXCEPT !.err = EINVAL] ELSE word(r, n)
  IN  [ret |-> IF z.err # 0 THEN z.err ELSE Len(z.args), arr |-> z.args]

(* the last quote is looked for one place too early                        *)
strunquote(s) ==
  LET n == Len(s) - 1
  IN  IF s = << >> \/ s[1] \notin {"'", "\""} THEN [ret |-> "0", str |-> << >>]
      ELSE IF s[n] # s[1] THEN [ret |-> "-1", str |-> << >>]
      ELSE [ret |-> s[1], str |-> CString([s EXCEPT ![n] = "nul"], 2)]

RECURSIVE strcopy(_, _)
strcopy(sz, src) ==
  IF src = << >> THEN [ret |-> 0, dst |-> << >>]
  ELSE IF sz = 1 THEN [ret |-> -1, dst |-> << >>]
  ELSE LET r == strcopy(sz - 1, Tail(src))
       IN  [ret |-> IF r.ret < 0 THEN -1 ELSE r.ret + 1, dst |-> <<Head(src)>> \o r.dst]
strlcpy(src, siz) == [ret |-> Len(src), dst |-> SubSeq(src, 1, Min({Len(src), siz - 1}))]
(* safe_strcpy of parse-ip.c                                               *)
safe_strcpy(sz, src) == LET n == Min({sz - 1, Len(src)})
                        IN  [ret |-> IF n < Len(src) THEN -1 ELSE n, dst |-> SubSeq(src, 1, n)]

dirnameFault(p) ==               \* fault: cuts at a trailing slash
  LET Sl == {i \in 2 .. Len(p) : p[i] = "/"}
  IN  IF Sl # {} THEN SubSeq(p, 1, Max(Sl) - 1)
      ELSE IF p # << >> /\ p[1] = "/" THEN <<"/">> ELSE <<".">>
(* s: the last place but the first that is not a slash                     *)
dirname(p) ==
  LET NotSl == {i \in 2 .. Len(p) : p[i] # "/"}
      Sl == {i \in 2 .. Max(NotSl) : p[i] = "/"}
  IN  IF NotSl # {} /\ Sl # {} THEN SubSeq(p, 1, Max(Sl) - 1)
      ELSE IF p # << >> /\ p[1] = "/" THEN <<"/">> ELSE <<".">>

(* _case_independent_map                                                   *)
CaseMap(c) == IF c \in Range(UpperCase) THEN LowerCase[IndexIn(c, UpperCase)] ELSE c
CharAt(s, i) == IF i > Len(s) THEN "nul" ELSE CaseMap(s[i])
Differ(s, t, n) == {i \in 1 .. n : CharAt(s, i) # CharAt(t, i)}
(* the sign of the result; the operands of strcasecmp's are the other way round *)
strcasecmp(s, t) == LET D == Differ(s, t, Max({Len(s), Len(t)}))
                    IN  IF D = {} THEN 0 ELSE IF Rank(CharAt(t, Min(D))) > Rank(CharAt(s, Min(D))) THEN 1 ELSE -1
strncasecmp(s, t, n) == LET D == Differ(s, t, n)
                        IN  IF D = {} THEN 0 ELSE IF Rank(CharAt(s, Min(D))) > Rank(CharAt(t, Min(D))) THEN 1 ELSE -1

-----------------------------------------------------------------------------
NonEmpty(ss) == SelectSeq(ss, LAMBDA s : s # << >>)
NoLast(ss) == IF ss # << >> /\ Last(ss) = << >> THEN Front(ss) ELSE ss
(* what the tokens of sbuf are, said without the loop                      *)
Tokens(sqz) == IF ~ sqz THEN NoLast(Pieces(sbuf, {",", "/"}))
               ELSE LET t == strtrim(sbuf)
                        w == NonEmpty(Pieces(t, {",", "/"}))
                    IN  IF w # << >> /\ t[1] \in {",", "/"} THEN << << >> >> \o w ELSE w

(* strsplit and strsplit_quick (strsplit.c) give the text between the      *)
(* delimiters, the array they fill never holds more than its capacity, and *)
(* the array of the caller is refused exactly when it is too small.        *)
SplitsAtDelimiters ==
  \A sqz \in BOOLEAN : LET a == strsplit(sbuf, {",", "/"}, sqz) IN
    /\ a.arr = Tokens(sqz) /\ Len(a.arr) <= a.cap
    /\ \A n \in 1 .. 3 : LET q == strsplit_quick(n, sbuf, {",", "/"}, sqz) IN
         /\ Len(q.arr) <= n /\ (q.ret = -1) = (Len(Tokens(sqz)) > n)
         /\ q.ret # -1 => q.arr = Tokens(sqz)

(* fields for the quoting functions: sbuf read as a list                   *)
Fields == Pieces(sbuf, {"/"})
CsvQuoted(f) == <<"'">> \o FlattenSeq([i \in DOMAIN f |-> IF f[i] = "'" THEN <<"\\", "'">> ELSE <<f[i]>>]) \o <<"'">>
ArgQuoted(f) == <<"'">> \o f \o <<"'">>
Has(f, C) == Range(f) \cap C # {}

(* A list of fields, each in quotes with its quotes escaped, is read back  *)
(* by strsplit_csv (strsplit_csv.c) as it was, but for an empty last field;*)
(* a list of words in quotes, or bare where they need none, by             *)
(* strsplitargs (splitargs.c).  Neither fills more of the array than n.    *)
QuotingReadBack ==
  /\ (\A i \in DOMAIN Fields : Fields[i] = << >> \/ Last(Fields[i]) # "\\") =>
       LET t == Joined([i \in DOMAIN Fields |-> CsvQuoted(Fields[i])], <<",">>)
           want == NoLast(Fields)
       IN  \A n \in 1 .. 4 : LET r == strsplit_csv(n, t, {","}) IN
             IF Len(want) > n THEN r.ret = ENOSPC /\ Len(r.arr) = n ELSE r.ret = Len(want) /\ r.arr = want
  /\ (\A i \in DOMAIN Fields : ~ Has(Fields[i], {"'"})) =>
       LET t == Joined([i \in DOMAIN Fields |->
                          IF Fields[i] = << >> \/ Has(Fields[i], {" "}) THEN ArgQuoted(Fields[i]) ELSE Fields[i]],
                       <<" ">>)
       IN  \A n \in 1 .. 4 : LET r == strsplitargs(n, t) IN
             IF Len(Fields) > n THEN r.ret = ENOSPC ELSE r.ret = Len(Fields) /\ r.arr = Fields
  /\ \A n \in 1 .. 2 : LET r == strsplit_csv(n, sbuf, {","})
                           a == strsplitargs(n, sbuf)
                       IN  Len(r.arr) <= n /\ Len(a.arr) <= n

(* The three copy functions agree on the text and on truncation; a         *)
(* directory's name is the path without its last part (dirname.c); the two *)
(* comparisons (strcasecmp.c) agree on equality, on prefixes too.          *)
CopiesAgree ==
  /\ \A n \in 1 .. SMax + 1 :
       /\ strcopy(n, sbuf) = safe_strcpy(n, sbuf) /\ strcopy(n, sbuf).dst = strlcpy(sbuf, n).dst
       /\ (strcopy(n, sbuf).ret = -1) = (strlcpy(sbuf, n).ret >= n)
  /\ LET d == dirname(sbuf)
         w == NonEmpty(Pieces(sbuf, {"/"}))
     IN  /\ NonEmpty(Pieces(d, {"/"})) = IF Len(w) > 1 \/ (w # << >> /\ sbuf[1] = "/") THEN Front(w)
                                         ELSE IF d[1] = "/" THEN << >> ELSE << <<".">> >>
         /\ (sbuf # << >> /\ sbuf[1] = "/") = (d[1] = "/")
  /\ \A i \in DOMAIN Fields : LET s == Fields[1]
                                 t == Fields[i]
                             IN  /\ (strcasecmp(s, t) = 0) = (strncasecmp(s, t, SMax) = 0)
                                 /\ strcasecmp(s, t) = - strcasecmp(t, s)
                                 /\ strcasecmp(s, t) = 0 => Len(s) = Len(t)
                                 /\ strncasecmp(s, t, 1) # 0 => strncasecmp(s, t, 2) = strncasecmp(s, t, 1)
-----------------------------------------------------------------------------
(***************************************************************************)
(* Numbers in strings: strtosize.c, str2hex.c and parse-ip.c.  A uint64_t  *)
(* has NBits bits here, a kilobyte 2^KBits bytes and a byte 2^BBits bits.  *)
(* The text nbuf takes every value over NChars up to NMax characters, the  *)
(* address nip every list of the octets NOctets.                           *)
(***************************************************************************)

CONSTANTS NChars, NMax, NBits, KBits, BBits, NOctets

VARIABLES nbuf, nip

numVars == <<nbuf, nip>>
NumInit == nbuf = << >> /\ nip = << >>
NumNext == \/ /\ nip = << >> /\ Len(nbuf) < NMax
              /\ \E c \in NChars : nbuf' = Append(nbuf, c)
              /\ UNCHANGED nip
           \/ /\ nbuf = << >> /\ Len(nip) < 4
              /\ \E o \in NOctets : nip' = Append(nip, o)
              /\ UNCHANGED nbuf

Top == 2 ^ NBits
NoNum(e, s) == [ret |-> e, end |-> s, val |-> 0]
Digit(c) == IF isdigit(c) \/ isalpha(c) THEN DigitOf36(c) ELSE -1

(* the digits of s in base mult: val so far; what is left of s             *)
RECURSIVE DigitsFault(_, _, _)
DigitsFault(s, mult, val) ==
  LET d == IF s = << >> THEN -1 ELSE Digit(s[1])
      cutoff == (Top - 1) \div mult
  IN  IF s = << >> THEN [ret |-> 0, end |-> s, val |-> val]
      ELSE IF d < 0 THEN NoNum(EINVAL, s)
      ELSE IF d >= mult THEN [ret |-> 0, end |-> s, val |-> val]
      ELSE IF val > cutoff THEN NoNum(ERANGE, s)             \* fault: last digit not looked at
      ELSE DigitsFault(Tail(s), mult, (val * mult + d) % Top)
RECURSIVE Digits(_, _, _)
Digits(s, mult, val) ==
  LET d == IF s = << >> THEN -1 ELSE Digit(s[1])
      cutoff == (Top - 1) \div mult
      cutchar == (Top - 1) % mult
  IN  IF s = << >> THEN [ret |-> 0, end |-> s, val |-> val]
      ELSE IF d < 0 THEN NoNum(EINVAL, s)
      ELSE IF d >= mult THEN [ret |-> 0, end |-> s, val |-> val]
      ELSE IF val > cutoff \/ (val = cutoff /\ d > cutchar) THEN NoNum(ERANGE, s)
      ELSE Digits(Tail(s), mult, val * mult + d)
Unspaced(s) == LET P == {i \in DOMAIN s : ~ isspace(s[i])} IN IF P = {} THEN << >> ELSE From(s, Min(P))
(* the digits after the sign, in the base that a prefix may choose         *)
Unsigned(s, base) ==
  LET hex == base \in {0, 16} /\ Len(s) > 1 /\ s[1] = "0" /\ s[2] \in {"x", "X"}
  IN  IF hex THEN Digits(From(s, 3), 16, 0)
      ELSE Digits(s, IF base # 0 THEN base ELSE IF s # << >> /\ s[1] = "0" THEN 8 ELSE 10, 0)
Negated(r) == IF r.ret = 0 THEN [r EXCEPT !.val = (Top - @) % Top] ELSE r
SignedText(w, base) ==
  IF w = << >> THEN [ret |-> 0, end |-> w, val |-> 0]
  ELSE IF w[1] = "-" THEN Negated(Unsigned(Tail(w), base))
  ELSE Unsigned(IF w[1] = "+" THEN Tail(w) ELSE w, base)
strtou64(str, base) == SignedText(Unspaced(str), base)

Units == <<"K", "M", "G", "T", "P", "E">>
InRange(r, res, mult) == IF r.val > 0 /\ (res < r.val \/ res < mult) THEN NoNum(ERANGE, r.end)
                         ELSE [ret |-> 0, end |-> r.end, val |-> res]
Scaled(r, mult) == InRange(r, (r.val * mult) % Top, mult)
(* the unit e that follows the digits: K or k, M, ... and then B, b, blank *)
WithUnit(r, e) ==
  LET sfx == IF e[1] = "k" THEN "K" ELSE e[1]
      mult == IF e = << >> \/ sfx = " " THEN 1 ELSE 2 ^ (KBits * IndexIn(sfx, Units))
  IN  IF e # << >> /\ sfx \notin {" "} \cup Range(Units) THEN NoNum(EINVAL, e)
      ELSE IF Len(e) > 1 /\ ~ (e[2] \in {"B", "b"} \/ isspace(e[2])) THEN NoNum(EINVAL, e)
      ELSE Scaled(r, IF Len(e) > 1 /\ e[2] = "b" THEN mult \div 2 ^ BBits ELSE mult)
Sized(r) == IF r.ret # 0 THEN r ELSE WithUnit(r, r.end)
strtosize(str, base) == Sized(strtou64(str, base))

(* two digits to a byte, the high one first; one over is a high one        *)
Hex(c) == isdigit(c) \/ (isalpha(c) /\ DigitOf36(c) < 16)
str2hex(n, s) ==
  LET nib(i) == IF i > Len(s) THEN 0 ELSE DigitOf36(s[i])
  IN  IF n < (Len(s) + 1) \div 2 THEN [ret |-> ENOMEM, out |-> << >>]
      ELSE IF \E i \in DOMAIN s : ~ Hex(s[i]) THEN [ret |-> EINVAL, out |-> << >>]
      ELSE [ret |-> 0, out |-> [j \in 1 .. (Len(s) + 1) \div 2 |-> 16 * nib(2 * j - 1) + nib(2 * j)]]

-----------------------------------------------------------------------------
NoIp == << >>                                                      \* return 0
dtoi(s) == IF \A i \in DOMAIN s : isdigit(s[i]) THEN Numeral(s) ELSE -1
(* one octet's text x; 256 stands for a refusal                            *)
octet(x) == IF dtoi(x) \in 0 .. 255 THEN dtoi(x) ELSE 256
(* the text of an octet has at most 3 characters, but for the last's 4; an *)
(* empty last one is none                                                  *)
parse_ipv4Fault(s) ==
  LET x == Pieces(s, {"."})
      q == IF Last(x) = << >> THEN Front(x) ELSE x
  IN  IF Len(q) < 4                                                  \* fault: a fifth octet accepted
         \/ \E i \in DOMAIN q : Len(q[i]) > (IF i = Len(x) THEN 4 ELSE 3) \/ octet(q[i]) = 256 THEN NoIp
      ELSE [i \in 1 .. 4 |-> octet(q[i])]
parse_ipv4(s) ==
  LET x == Pieces(s, {"."})
      q == IF Last(x) = << >> THEN Front(x) ELSE x
  IN  IF Len(q) # 4 \/ \E i \in DOMAIN q : Len(q[i]) > (IF i = Len(x) THEN 4 ELSE 3) \/ octet(q[i]) = 256 THEN NoIp
      ELSE [i \in 1 .. 4 |-> octet(q[i])]
(* 0xffffffff << (32 - z), octet by octet                                  *)
Mask(z) == [i \in 1 .. 4 |-> LET ones == Max({0, Min({8, z - 8 * (i - 1)})}) IN 256 - 2 ^ (8 - ones)]
(* a shift by 32 is undefined: the processor's shift leaves all ones, the  *)
(* compiler's arithmetic may give none                                     *)
Masks(z) == IF z = 0 THEN {Mask(0), Mask(32)} ELSE {Mask(z)}
(* the addresses with the masks that a call may return                     *)
parse_ipv4_and_mask(str) ==
  LET sl == Strchr(str, {"/"})
      as == IF sl = 0 THEN str ELSE SubSeq(str, 1, sl - 1)
      ms == IF sl = 0 THEN << >> ELSE SubSeq(str, sl + 1, Min({Len(str), sl + 31}))
      a == parse_ipv4(as)
      m == IF Strchr(ms, {"."}) > 0 THEN {parse_ipv4(ms)}
           ELSE IF ms = << >> THEN {Mask(32)}
           ELSE IF dtoi(ms) \in 0 .. 32 THEN Masks(dtoi(ms)) ELSE {NoIp}
  IN  IF Len(as) > (IF sl = 0 THEN 31 ELSE 15) \/ a = NoIp \/ m = {NoIp} THEN {} ELSE {<<a, x>> : x \in m}
str_ipv4(a) == Joined([i \in 1 .. 4 |-> Dec(a[i])], <<".">>)
(* leading ones of an octet, 9 if other ones follow them                   *)
Ones(v) == LET P == {n \in 0 .. 8 : v = 256 - 2 ^ (8 - n)} IN IF P = {} THEN 9 ELSE Max(P)
RECURSIVE mask_to_cidr4(_)
mask_to_cidr4(mask) ==                                             \* -1: not a prefix
  IF \A i \in DOMAIN mask : mask[i] = 0 THEN 0
  ELSE IF mask[1] = 255 THEN LET r == mask_to_cidr4(Tail(mask)) IN IF r < 0 THEN -1 ELSE 8 + r
  ELSE IF Ones(mask[1]) = 9 \/ \E i \in 2 .. Len(mask) : mask[i] # 0 THEN -1 ELSE Ones(mask[1])

-----------------------------------------------------------------------------
AllDigits(s, base) == s # << >> /\ \A i \in DOMAIN s : Digit(s[i]) \in 0 .. base - 1
TrueVal(s, base) == FoldLeft(LAMBDA n, c : n * base + Digit(c), 0, s)

Exact(r, n, v) == /\ (r.ret = 0) = (v < Top) /\ (r.ret = 0 => r.val = v /\ r.end = << >>)
                  /\ (r.ret # 0 => r.ret = ERANGE)
                  /\ n.ret = r.ret /\ (n.val + r.val) % Top = 0
FitsExact(z, v) == v < Top => z.ret = 0 /\ z.val = v
(* strtou64 (strtosize.c) gives the value of the digits, or ERANGE exactly *)
(* when it needs more than the bits of a uint64_t; strtosize multiplies it *)
(* by the unit and refuses no size that fits; a refused text is one with a *)
(* character that cannot stand there.                                      *)
NumbersExact ==
  /\ \A base \in {8, 10, 16} : AllDigits(nbuf, base) =>
       Exact(strtou64(nbuf, base), strtou64(<<" ", "-">> \o nbuf, base), TrueVal(nbuf, base))
  /\ AllDigits(nbuf, 10) /\ TrueVal(nbuf, 10) < Top => \A k \in 1 .. 6 : \A u \in {<< >>, <<"B">>, <<"b">>} :
       FitsExact(strtosize(nbuf \o <<Units[k]>> \o u, 10),
                 TrueVal(nbuf, 10) * 2 ^ (KBits * k - (IF u = <<"b">> THEN BBits ELSE 0)))
  /\ strtou64(nbuf, 16).ret = EINVAL => \E i \in DOMAIN nbuf : Digit(nbuf[i]) = -1
  /\ LET h == str2hex(NMax, nbuf) IN
       /\ (h.ret = EINVAL) = ~ (nbuf = << >> \/ AllDigits(nbuf, 16))
       /\ h.ret = 0 => TrueVal(nbuf, 16) = FoldLeft(LAMBDA n, b : n * 256 + b, 0, h.out) \div
                                              (IF Len(nbuf) % 2 = 1 THEN 16 ELSE 1)

(* An address printed by str_ipv4 is read back by parse_ipv4, with its mask*)
(* as a number or as an address (parse-ip.c); mask_to_cidr4 is the inverse *)
(* of the mask of a prefix and refuses every other mask; addresses of      *)
(* three or five octets are refused.                                       *)
AddressesReadBack ==
  /\ Len(nip) = 4 =>
       LET s == str_ipv4(nip) IN
       /\ parse_ipv4(s) = nip
       /\ \A z \in 1 .. 32 : /\ parse_ipv4_and_mask(s \o <<"/">> \o Dec(z)) = {<<nip, Mask(z)>>}
                             /\ parse_ipv4_and_mask(s \o <<"/">> \o str_ipv4(Mask(z))) = {<<nip, Mask(z)>>}
       /\ parse_ipv4_and_mask(s) = {<<nip, Mask(32)>>}
       /\ parse_ipv4(s \o <<".", "7">>) = NoIp /\ parse_ipv4_and_mask(s \o <<"/", "3", "3">>) = {}
       /\ mask_to_cidr4(nip) = LET Z == {z \in 0 .. 32 : Mask(z) = nip} IN IF Z = {} THEN -1 ELSE Max(Z)
  /\ Len(nip) = 3 => parse_ipv4(Joined([i \in 1 .. 3 |-> Dec(nip[i])], <<".">>)) = NoIp
  /\ \A z \in 0 .. 32 : mask_to_cidr4(Mask(z)) = z
=============================================================================
