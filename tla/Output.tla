------------------------------- MODULE Output -------------------------------
(***************************************************************************)
(* Formatted printing, and what is written to and read from a terminal.    *)
(* Each section has its own state.                                         *)
(***************************************************************************)
EXTENDS Integers, Sequences, SequencesExt, FiniteSetsExt, Strings
-----------------------------------------------------------------------------
(***************************************************************************)
(* src/emb-printf.c: printf for small targets.  A long has LongBits bits   *)
(* and a short ShortBits.  An argument is a number, four bytes, characters *)
(* or, for %s, a pointer: [at, str].  Output is a sequence of characters,  *)
(* or EUndef when the code leaves its buffer or follows a cut pointer.     *)
(***************************************************************************)

CONSTANTS LongBits, ShortBits,
          DEFAULT_P,                          \* digits of a number without a precision: 6
          DecEnd, HexEnd, EBufs,              \* 19, 15 and the values of 4 * sizeof(unsigned long)
          EFlags, EWidths, EPrecs, EMods,     \* parts of a conversion, as characters
          ENums, EStrs, EStar                 \* arguments; arguments for a star

VARIABLES efmt, eargs, ebuf

printfVars == <<efmt, eargs, ebuf>>
EUndef == <<"undefined">>

HexChars == <<"0", "1", "2", "3", "4", "5", "6", "7", "8", "9", "a", "b", "c", "d", "e", "f">>
HEXChars == <<"0", "1", "2", "3", "4", "5", "6", "7", "8", "9", "A", "B", "C", "D", "E", "F">>
eisdigit(c) == \E i \in 1 .. 10 : HexChars[i] = c
EDigitOf(c) == (CHOOSE i \in 1 .. 16 : HexChars[i] = c \/ HEXChars[i] = c) - 1
Rep(c, n) == [i \in 1 .. n |-> c]
Ulong(v) == v % 2 ^ LongBits
Ushort(v) == v % 2 ^ ShortBits
Signed(v, bits) == LET u == v % 2 ^ bits IN IF u < 2 ^ (bits - 1) THEN u ELSE u - 2 ^ bits

(* characters of str up to a terminator                                    *)
Upto(str) == SelectInSeq(str, LAMBDA c : c = "nul")
Cstr(str) == IF Upto(str) = 0 THEN str ELSE SubSeq(str, 1, Upto(str) - 1)
strout(info, str) ==
  LET fill == Rep(" ", Max({info.width, Len(str)}) - Len(str))
  IN  IF info.right THEN fill \o Cstr(str) ELSE Cstr(str) \o fill

charout(info, arg) == strout(info, arg)
NullStr == <<"(", "n", "u", "l", "l", ")">>
(* the pointer is fetched as an int, which cuts one that lies high         *)
stringout(info, arg) ==
  IF arg.at = "high" THEN EUndef ELSE strout(info, IF arg.at = "null" THEN NullStr ELSE arg.str)

RECURSIVE write_u(_)
write_u(v) == (IF v < 10 THEN << >> ELSE write_u(v \div 10)) \o <<HexChars[(v % 10) + 1]>>
RECURSIVE write_x(_, _)
write_x(v, d) == (IF v < 16 THEN << >> ELSE write_x(v \div 16, d)) \o <<d[(v % 16) + 1]>>

Filled(s, n) == Rep("0", Max({0, n - Len(s)})) \o s

(* an address is a sequence of four bytes, least significant first         *)
write_oct(v) == write_u(v)
ipout(info, is_netorder, ip) ==
  LET b == IF is_netorder THEN Reverse(ip) ELSE ip
  IN  strout(info, write_oct(b[1]) \o <<".">> \o write_oct(b[2]) \o <<".">> \o write_oct(b[3]) \o <<".">> \o write_oct(b[4]))

(* a number is written from buf[end] downwards                             *)
numout(info, end, str) == IF Len(str) > end \/ end >= ebuf THEN EUndef ELSE strout(info, str)

(* fault: no room is kept for the sign *)
decoutFault(info, do_unsigned, arg) ==
  LET val == Signed(arg, IF info.mod = "h" THEN ShortBits ELSE LongBits)
      uval == IF do_unsigned THEN (IF info.mod = "h" THEN Ushort(arg) ELSE Ulong(arg)) ELSE Ulong(IF val < 0 THEN 0 - val ELSE val)
      digits == Filled(write_u(uval), info.precision)
      padded == IF info.zero THEN Filled(digits, info.width) ELSE digits
      sign == IF ~ do_unsigned /\ val < 0 THEN <<"-">> ELSE IF info.plus THEN <<"+">> ELSE << >>
  IN  numout(info, DecEnd, sign \o padded)
decout(info, do_unsigned, arg) ==
  LET val == Signed(arg, IF info.mod = "h" THEN ShortBits ELSE LongBits)
      uval == IF do_unsigned THEN (IF info.mod = "h" THEN Ushort(arg) ELSE Ulong(arg)) ELSE Ulong(IF val < 0 THEN 0 - val ELSE val)
      digits == Filled(write_u(uval), info.precision)
      padded == IF info.zero THEN Filled(digits, info.width - 1) ELSE digits       \* room for a sign
      sign == IF ~ do_unsigned /\ val < 0 THEN <<"-">>
              ELSE IF info.plus THEN <<"+">>
              ELSE IF info.space THEN <<" ">>
              ELSE IF info.zero /\ info.width > Len(padded) THEN <<"0">> ELSE << >>
  IN  numout(info, DecEnd, sign \o padded)

hexout(info, arg) ==
  LET val == IF info.mod = "h" THEN Ushort(arg) ELSE Ulong(arg)
      digits == Filled(write_x(val, IF info.type = "X" THEN HEXChars ELSE HexChars), info.precision)
      padded == IF info.zero THEN Filled(digits, info.width - (IF info.alter THEN 2 ELSE 0)) ELSE digits
      prefix == IF info.alter \/ info.type = "p"
                THEN <<"0", IF info.type = "X" THEN "X" ELSE "x">> ELSE << >>
  IN  numout(info, HexEnd, prefix \o padded)

EHas(f, c) == f # << >> /\ f[1] = c
Drop1(f, c) == IF EHas(f, c) THEN Tail(f) ELSE f
RECURSIVE Num(_, _)
Num(f, n) == IF f # << >> /\ eisdigit(f[1]) THEN Num(Tail(f), 10 * n + EDigitOf(f[1])) ELSE [n |-> n, f |-> f]

(* the width, the precision and the modifier that f starts with, and what  *)
(* they leave of the format and of the arguments; of the precision only    *)
(* that there is one counts                                                *)
EWidth(f, args) ==
  IF EHas(f, "*") THEN [star |-> TRUE, n |-> args[1], f |-> Tail(f), args |-> Tail(args)]
  ELSE IF f # << >> /\ eisdigit(f[1]) THEN Num(f, 0) @@ [star |-> FALSE, args |-> args]
  ELSE [star |-> FALSE, n |-> -1, f |-> f, args |-> args]
EPrecision(w) ==
  IF ~ EHas(w.f, ".") THEN [dot |-> FALSE, f |-> w.f, args |-> w.args]
  ELSE IF EHas(Tail(w.f), "*") THEN [dot |-> TRUE, f |-> Tail(Tail(w.f)), args |-> Tail(w.args)]
  ELSE [dot |-> TRUE, f |-> Num(Tail(w.f), 0).f, args |-> w.args]
EModifier(f) == IF f # << >> /\ f[1] \in {"h", "l", "L"} THEN [mod |-> f[1], f |-> Tail(f)] ELSE [mod |-> "", f |-> f]
EInfo(flags, w, dot, m) ==
  [width |-> IF w.star /\ w.n < 0 THEN 0 - w.n ELSE w.n, precision |-> IF dot THEN 0 ELSE DEFAULT_P,
   right |-> ~ flags.minus /\ ~ (w.star /\ w.n < 0), plus |-> flags.plus, space |-> flags.plus /\ flags.space,
   alter |-> flags.alter, zero |-> flags.zero /\ ~ flags.minus, mod |-> m.mod, type |-> m.f[1]]

(* percent: what the conversion at f says, the format from its type on, and*)
(* the arguments that stars leave                                          *)
EParsed(flags, w, p, m) == [info |-> EInfo(flags, w, p.dot, m), f |-> m.f, args |-> p.args]
PercentP(flags, w, p) == EParsed(flags, w, p, EModifier(p.f))
PercentW(flags, w) == PercentP(flags, w, EPrecision(w))
percent(f, args) ==
  LET f1 == Drop1(f, "-")
      f2 == Drop1(f1, "+")
      f3 == Drop1(f2, " ")
      f4 == Drop1(f3, "#")
  IN  PercentW([minus |-> EHas(f, "-"), plus |-> EHas(f1, "+"), space |-> EHas(f2, " "),
                alter |-> EHas(f3, "#"), zero |-> EHas(f4, "0")],
               EWidth(Drop1(f4, "0"), args))

EConverted(info, a) ==
  CASE info.type = "c" -> charout(info, a[1])
    [] info.type = "H" -> ipout(info, FALSE, a[1])
    [] info.type = "N" -> ipout(info, TRUE, a[1])
    [] info.type = "d" -> decout(info, FALSE, a[1])
    [] info.type = "u" -> decout(info, TRUE, a[1])
    [] info.type \in {"x", "X", "p"} -> hexout(info, a[1])
    [] info.type = "s" -> stringout(info, a[1])
    [] OTHER -> <<info.type>>
ETaken(type) == type \in {"c", "H", "N", "d", "u", "x", "X", "p", "s"}
EJoin(a, b) == IF EUndef \in {a, b} THEN EUndef ELSE a \o b
RECURSIVE print_internal(_, _)
print_internal(f, args) ==
  IF f = << >> THEN << >>
  ELSE IF f[1] # "%" THEN EJoin(<<f[1]>>, print_internal(Tail(f), args))
  ELSE LET p == percent(Tail(f), args)
       IN  EJoin(EConverted(p.info, p.args),
                 print_internal(Tail(p.f), IF ETaken(p.info.type) THEN Tail(p.args) ELSE p.args))

PrintfInit == efmt = << >> /\ eargs = << >> /\ ebuf = 0
EStars(w, p) == (IF w = <<"*">> THEN <<EStar>> ELSE << >>) \o (IF p = <<".", "*">> THEN <<0>> ELSE << >>)
EPlaces(s) == IF s = << >> THEN {"null", "low"} ELSE {"low", "high"}
(* a conversion of any form, with text around it                           *)
PrintfNext == \E fl \in EFlags, w \in EWidths, p \in EPrecs, m \in EMods, lit \in {<< >>, <<"a">>} :
  /\ efmt = << >> /\ ebuf' \in EBufs
  /\ \/ \E ty \in {"d", "u", "x", "X", "p"}, v \in ENums :
          /\ efmt' = lit \o <<"%">> \o fl \o w \o p \o m \o <<ty>>
          /\ eargs' = Append(EStars(w, p), v)
     \/ /\ m = << >> /\ ebuf' = Max(EBufs)
        /\ \E ty \in {"s", "c", "H", "N", "%"}, s \in EStrs :
             /\ (ty = "c" => Len(s) = 1) /\ (ty \in {"H", "N"} <=> Len(s) = 4) /\ (ty = "s" => Upto(s) = 0)
             /\ efmt' = lit \o <<"%">> \o fl \o w \o p \o <<ty>>
             /\ \/ ty = "%" /\ eargs' = EStars(w, p)
                \/ ty = "s" /\ \E at \in EPlaces(s) : eargs' = Append(EStars(w, p), [at |-> at, str |-> s])
                \/ ty \in {"c", "H", "N"} /\ eargs' = Append(EStars(w, p), s)
-----------------------------------------------------------------------------
ReadBack(s, base) == FoldLeft(LAMBDA n, c : n * base + EDigitOf(c), 0, s)
NonSp(s) == SelectSeq(s, LAMBDA c : c # " ")
Conv == percent(IF efmt[1] = "%" THEN Tail(efmt) ELSE Tail(Tail(efmt)), eargs)
DotParts(t, dots) == [k \in 1 .. 4 |-> ReadBack(SubSeq(t, IF k = 1 THEN 1 ELSE dots[k - 1] + 1, IF k = 4 THEN Len(t) ELSE dots[k] - 1), 10)]
ShowsAddress(i, v, t) ==
  \E dots \in {SelectSeq([k \in DOMAIN t |-> k], LAMBDA k : t[k] = ".")} :
    Len(dots) = 3 /\ DotParts(t, dots) = (IF i.type = "N" THEN Reverse(v) ELSE v)
EDotted == \E k \in DOMAIN efmt : efmt[k] = "."
(* digits d of a number: DEFAULT_P or as many as it needs; with a precision*)
(* as many as it needs, whatever the precision; more for the flag 0 only   *)
ShowsDigits(i, out, d) ==
  LET least == IF EDotted THEN 1 ELSE DEFAULT_P
  IN  /\ Len(d) >= least
      /\ Len(d) > least /\ d[1] = "0" =>
           i.zero /\ Len(out) = i.width + (IF i.type = "p" /\ ~ i.alter THEN 2 ELSE 0)
ShowsSigned(i, val, out, t) ==
  LET sign == IF t[1] \in {"-", "+"} THEN t[1] ELSE ""
      d == IF sign = "" THEN t ELSE Tail(t)
  IN  /\ ReadBack(d, 10) = IF sign = "-" THEN 0 - val ELSE val
      /\ (sign = "+" <=> i.plus /\ val >= 0)
      /\ ShowsDigits(i, out, d)
ShowsHex(i, val, out, t) ==
  LET hex == i.alter \/ i.type = "p"
      d == IF hex THEN SubSeq(t, 3, Len(t)) ELSE t
  IN  /\ hex => t[1] = "0" /\ t[2] = (IF i.type = "X" THEN "X" ELSE "x")
      /\ ReadBack(d, 16) = val /\ ShowsDigits(i, out, d)
(* out shows v as the conversion i says, and t is out without its blanks   *)
Shows(i, v, out, t) ==
  LET bits == IF i.mod = "h" THEN ShortBits ELSE LongBits
  IN  CASE i.type = "d" -> ShowsSigned(i, Signed(v, bits), out, t)
        [] i.type = "u" -> ShowsSigned(i, v % 2 ^ bits, out, t)
        [] i.type \in {"x", "X", "p"} -> ShowsHex(i, v % 2 ^ bits, out, t)
        [] i.type = "%" -> out = <<"%">>
        [] i.type \in {"H", "N"} -> ShowsAddress(i, v, t)
        [] i.type = "s" -> t = IF v.at = "null" THEN NullStr ELSE v.str
        [] OTHER -> t = Cstr(v)
(* the characters a number takes: the value, a sign or 0x, and zeros up to *)
(* the width                                                               *)
ENeeds(i, v) ==
  LET hex == i.type \in {"x", "X", "p"}
      val == IF i.type = "d" THEN Signed(v, IF i.mod = "h" THEN ShortBits ELSE LongBits)
             ELSE v % 2 ^ (IF i.mod = "h" THEN ShortBits ELSE LongBits)
      sign == IF hex THEN (IF i.alter \/ i.type = "p" THEN 2 ELSE 0) ELSE IF val < 0 \/ i.plus THEN 1 ELSE 0
      d == 1 + Cardinality({k \in 1 .. DecEnd : (IF hex THEN 16 ELSE 10) ^ k <= IF val < 0 THEN 0 - val ELSE val})
  IN  Max({sign + d, sign + (IF EDotted THEN 1 ELSE DEFAULT_P),
           IF i.zero THEN i.width + (IF i.type = "p" /\ ~ i.alter THEN 2 ELSE 0) ELSE 0})
PaddedOnOneSide(i, v, out, t) ==
  /\ Len(out) >= i.width \/ (i.type = "c" /\ v = <<"nul">> /\ Len(out) = i.width - 1)
  /\ out \in {Rep(" ", Len(out) - Len(t)) \o t, t \o Rep(" ", Len(out) - Len(t))}
  /\ (Len(out) > Len(t) => Len(out) <= i.width)
(* What print_internal (emb-printf.c) prints for one conversion: blanks on *)
(* one side only, as many as the width asks for; between them the value:   *)
(* read back in its base it is the argument, cut to its width, with its    *)
(* sign; a string or character is itself; an address reads back as its     *)
(* bytes in either order.  The precision that emb-printf.c:45 speaks of    *)
(* only takes the least of DEFAULT_P digits away.  Nothing is promised     *)
(* for exactly these: a string whose address an int does not hold, and a   *)
(* number of more characters than lie below the end of its buffer, or any  *)
(* decimal where a long is so small that this end is outside of it.        *)
PrintsValue ==
  efmt # << >> =>
    \A c \in {Conv}, o \in {print_internal(efmt, eargs)} : LET i == c.info IN
      /\ (o = EUndef) = \/ i.type = "s" /\ c.args[1].at = "high"
                        \/ i.type \in {"d", "u"} /\ (DecEnd >= ebuf \/ ENeeds(i, c.args[1]) > DecEnd)
                        \/ i.type \in {"x", "X", "p"} /\ (HexEnd >= ebuf \/ ENeeds(i, c.args[1]) > HexEnd)
      /\ efmt[1] = "%" \/ o[1] = "a" \/ o = EUndef
      /\ o # EUndef => \A out \in {IF efmt[1] = "%" THEN o ELSE Tail(o)} :
           /\ i.type # "%" => PaddedOnOneSide(i, c.args[1], out, NonSp(out))
           /\ Shows(i, IF i.type = "%" THEN "%" ELSE c.args[1], out, NonSp(out))
-----------------------------------------------------------------------------
(***************************************************************************)
(* What is written to and read from a terminal: src/progbar.c with         *)
(* src/humanize.c, src/readpass.c, src/error.c.                            *)
(***************************************************************************)

CONSTANTS TCols, TTotals, TIncrs, TUpdates,   \* terminal widths, totals, increments; bound on updates
          HKB,                                \* a kilobyte
          PLines,                             \* lines typed: [txt, end]
          MsgChars, MsgMax, ErrBuf            \* messages, and the size of error.c's buffer

VARIABLES tp, tscr, tops,      \* struct progress; the buffers on the line of the screen; calls
          pst,                 \* portable_readpass
          msg                  \* a formatted message

barVars == <<tp, tscr, tops>>

-----------------------------------------------------------------------------
Divisors == [i \in 1 .. 6 |-> HKB ^ (7 - i)]                   \* EB .. kB
(* the two digits after the point are the first of the remainder in bytes  *)
humanize_size(n) ==
  LET P == {i \in 1 .. 6 : n > Divisors[i]}
      d == Divisors[Min(P)]
      m == Dec(n % d)
  IN  IF P = {} THEN [n |-> n, frac |-> << >>, unit |-> 7]
      ELSE [n |-> n \div d, frac |-> IF n % d > 0 THEN SubSeq(m, 1, Min({2, Len(m)})) ELSE << >>, unit |-> Min(P)]
Shown(p, n) == IF p.human THEN humanize_size(n) ELSE [n |-> n, frac |-> << >>, unit |-> 7]

(* "dead": an assertion fails or a division by zero                        *)
NoBar == [fd |-> "none", cur |-> 0, total |-> 0, width |-> 0, step |-> 0, human |-> FALSE, buf |-> << >>, lines |-> 0]
BarInit == tp = NoBar /\ tscr = << >> /\ tops = 0
(* what is no terminal gets no bar                                         *)
progressbar_init ==
  /\ tops = 0
  /\ \/ tp' = NoBar
     \/ \E cols \in TCols, total \in TTotals, human \in BOOLEAN :
          LET w == IF cols > 50 THEN 50 ELSE cols \div 2
          IN  tp' = IF w = 0 THEN [NoBar EXCEPT !.fd = "dead"]
                    ELSE [NoBar EXCEPT !.fd = "tty", !.total = total, !.human = human, !.width = w, !.step = 100 \div w]
  /\ tops' = 1 /\ UNCHANGED tscr
update_total_progressFault(p) ==                                \* fault: the percentage not capped
  LET pct == (100 * p.cur) \div p.total
      done == pct \div p.step
  IN  [cur |-> Shown(p, p.cur), tot |-> Shown(p, p.total), fill |-> done, blank |-> p.width - done, pct |-> pct]
update_total_progress(p) ==
  LET pct == Min({100, (100 * p.cur) \div p.total})
      done == pct \div p.step
  IN  [cur |-> Shown(p, p.cur), tot |-> Shown(p, p.total), fill |-> done, blank |-> p.width - done, pct |-> pct]
update_incr_progress(p) == [cur |-> Shown(p, p.cur)]
(* the line is cleared but for the first time; only a change is written    *)
progressbar_update ==
  /\ tops > 0 /\ tops < TUpdates /\ tp.fd # "dead" /\ tops' = tops + 1
  /\ \E incr \in TIncrs :
       LET p == [tp EXCEPT !.cur = @ + incr]
           b == IF p.total > 0 THEN update_total_progress(p) ELSE update_incr_progress(p)
       IN  IF tp.fd = "none" THEN UNCHANGED <<tp, tscr>>
           ELSE IF p.total > 0 /\ (b.blank < 0 \/ b.fill >= 2 * p.width - 1)
                THEN tp' = [p EXCEPT !.fd = "dead"] /\ UNCHANGED tscr
           ELSE IF <<b>> = p.buf THEN tp' = p /\ UNCHANGED tscr
           ELSE /\ tp' = [p EXCEPT !.buf = <<b>>, !.lines = @ + 1]
                /\ tscr' = IF p.lines > 0 THEN <<b>> ELSE Append(tscr, b)
progressbar_finish ==
  /\ tops > 0 /\ tops < TUpdates /\ tp.fd # "dead" /\ tops' = tops + 1
  /\ \E clr, newln \in BOOLEAN :
       IF tp.fd = "none" THEN UNCHANGED <<tp, tscr>>
       ELSE /\ tscr' = (IF clr \/ newln THEN << >> ELSE tscr)
            /\ tp' = [tp EXCEPT !.cur = 0, !.buf = << >>]
BarNext == progressbar_init \/ progressbar_update \/ progressbar_finish

(* On a terminal whose bar has a width that divides 100, as on every one   *)
(* wider than 50 columns (progbar.c): no call aborts, the line on the      *)
(* screen is the last state alone, bar and blanks fill the width, and the  *)
(* shown percentage and units are those of the count.  Where there is no   *)
(* terminal nothing is counted or written.                                 *)
BarOnScreen ==
  /\ tp.fd = "none" => tp = NoBar /\ tscr = << >>
  /\ (tp.width > 0 /\ 100 % tp.width = 0) =>
    /\ tp.fd # "dead" /\ Len(tscr) <= 1 /\ (tp.buf # << >> => tscr = tp.buf)
    /\ tp.buf # << >> =>
         LET b == tp.buf[1]
             val(s) == s.n * (IF s.unit = 7 THEN 1 ELSE Divisors[s.unit])
         IN  /\ val(b.cur) <= tp.cur /\ tp.cur < val(b.cur) + (IF b.cur.unit = 7 THEN 1 ELSE Divisors[b.cur.unit])
             /\ tp.total > 0 => /\ b.fill + b.blank = tp.width /\ b.fill * tp.step <= b.pct
                                /\ (b.pct = 100) = (tp.cur >= tp.total)
(* "assert(rem  < (sizeof blank)-1)" (progbar.c:56), with rem unsigned.    *)
NeverAborts == tp.fd # "dead"

-----------------------------------------------------------------------------
(* portable_readpass: echo of the terminal, the stream, what was read.     *)
(* History: eof, a read found the end of the file while errno was 0;       *)
(* stuck, the terminal could not be set back; out, a character before      *)
(* passbuf was looked at                                                   *)
PassInit == pst = [pc |-> "open", echo |-> TRUE, usingtty |-> FALSE, from |-> "none", tries |-> 3, confirm |-> FALSE,
                   pass |-> << >>, conf |-> << >>, r |-> "none", passwd |-> << >>,
                   eof |-> FALSE, stuck |-> FALSE, out |-> FALSE]
PGo(pc) == [pst EXCEPT !.pc = pc]
POpen == pst.pc = "open" /\ \E from \in {"tty", "stdin"}, c \in BOOLEAN : pst' = [PGo("isatty") EXCEPT !.from = from, !.confirm = c]
PIsatty == /\ pst.pc = "isatty"
           /\ pst' \in {[PGo("getattr") EXCEPT !.usingtty = TRUE], PGo("read")}
PGetattr == pst.pc = "getattr" /\ pst' \in {PGo("setattr"), [PGo("err1") EXCEPT !.r = "errno"]}
PSetattr == /\ pst.pc = "setattr"
            /\ pst' \in {[PGo("read") EXCEPT !.echo = FALSE], [PGo("err1") EXCEPT !.r = "errno"]}
(* at the end of the file errno is what it was, perhaps 0                  *)
PEof == pst.pc \in {"read", "confirm"} /\ pst' \in {[PGo("err2") EXCEPT !.r = "0", !.eof = TRUE], [PGo("err2") EXCEPT !.r = "errno"]}
PRead == /\ pst.pc = "read"
         /\ \E l \in PLines : pst' = [PGo(IF pst.confirm THEN "confirm" ELSE "ok") EXCEPT !.pass = <<l>>]
PConfirmFault == /\ pst.pc = "confirm"                              \* fault: the last try counts as a match
            /\ \E l \in PLines :
                 pst' = IF <<l>> = pst.pass \/ pst.tries = 1 THEN [PGo("ok") EXCEPT !.conf = <<l>>]
                        ELSE [PGo("read") EXCEPT !.conf = <<l>>, !.tries = @ - 1]
PConfirm == /\ pst.pc = "confirm"
            /\ \E l \in PLines :
                 pst' = IF <<l>> = pst.pass THEN [PGo("ok") EXCEPT !.conf = <<l>>]
                        ELSE IF pst.tries > 1 THEN [PGo("read") EXCEPT !.conf = <<l>>, !.tries = @ - 1]
                        ELSE [PGo("err2") EXCEPT !.conf = <<l>>, !.tries = 0, !.r = "EINVAL"]
(* a line feed, then a carriage return are taken off: of an empty line the *)
(* character before the buffer is looked at, and cleared if it is the      *)
(* carriage return                                                         *)
PTrim == /\ pst.pc = "ok"
         /\ LET p == [PGo("err2") EXCEPT !.out = pst.pass[1] = [txt |-> << >>, end |-> "lf"]]
            IN  pst' \in {[p EXCEPT !.r = "0", !.passwd = <<pst.pass[1].txt>>], [p EXCEPT !.r = "ENOMEM"]}
(* the result of tcsetattr is not looked at                                *)
PErr2 == /\ pst.pc = "err2"
         /\ pst' \in {[PGo("err1") EXCEPT !.echo = @ \/ pst.usingtty]}
                     \cup (IF pst.usingtty THEN {[PGo("err1") EXCEPT !.stuck = TRUE]} ELSE {})
PErr1 == pst.pc = "err1" /\ pst' = [PGo("done") EXCEPT !.from = IF @ = "stdin" THEN @ ELSE "closed"]
PassNext == POpen \/ PIsatty \/ PGetattr \/ PSetattr \/ PEof \/ PRead \/ PConfirm \/ PTrim \/ PErr2 \/ PErr1

(* When portable_readpass (readpass.c) returns, by whichever path, the     *)
(* terminal echoes again, unless setting it back failed, and /dev/tty is   *)
(* closed; a password it hands out was typed, and typed twice the same     *)
(* when it is confirmed; EINVAL comes only after three mismatches.  It     *)
(* hands one out when it returns 0, "on success" (readpass.c:51), with one *)
(* exception: the end of the file, when errno was 0.  Nothing is said of   *)
(* an empty line, for which it leaves its buffer (readpass.c:121).         *)
PassConfirmed ==
  pst.pc = "done" /\ ~ pst.out =>
    /\ pst.echo = ~ pst.stuck /\ pst.from # "tty"
    /\ pst.r = "0" => (pst.passwd = << >>) = pst.eof
    /\ pst.passwd # << >> => /\ pst.r = "0" /\ pst.passwd = <<pst.pass[1].txt>>
                             /\ pst.confirm => pst.conf = pst.pass
    /\ pst.r = "EINVAL" => pst.tries = 0 /\ pst.conf # pst.pass
    /\ pst.r \in {"errno", "ENOMEM", "EINVAL"} => pst.passwd = << >>

-----------------------------------------------------------------------------
(* error.c: messages in a buffer of ErrBuf bytes                           *)
MsgInit == msg = << >>
MsgNext == Len(msg) < MsgMax /\ \E c \in MsgChars : msg' = Append(msg, c)
vsnprintf(max, s) == SubSeq(s, 1, Min({Len(s), max - 1}))
(* one line feed at the end is taken off, unless the message was cut       *)
error(err, s) ==
  LET max == ErrBuf - 1
      b == vsnprintf(max, s)
      body == IF Len(s) < max /\ s # << >> /\ Last(s) = "\n" THEN Front(b) ELSE b
  IN  body \o (IF err # 0 THEN <<":", "E">> ELSE << >>) \o <<"\n">>
(* the line feed goes behind the NUL of a message that was cut; before an  *)
(* empty one stands whatever was on the stack                              *)
vprintFault(s) ==
  LET max == ErrBuf - 2
      b == vsnprintf(max, s)
  IN  IF Len(s) >= max THEN {b}
      ELSE IF s = << >> THEN {b, <<"\n">>} ELSE {Append(b, "\n")}           \* fault: a second line feed
vprint(s) ==
  LET max == ErrBuf - 2
      b == vsnprintf(max, s)
  IN  IF Len(s) >= max THEN {b}
      ELSE IF s = << >> THEN {b, <<"\n">>}
      ELSE {IF Last(s) # "\n" THEN Append(b, "\n") ELSE b}
(* die is warn and exit                                                    *)
warn(s) == vprint(s)

(* error (error.c) ends its line, once, whatever the message; so do warn   *)
(* and die unless the message was empty or cut.                            *)
LinesEnd ==
  /\ \A e \in {0, 5} : LET o == error(e, msg)
                           plain == Len(msg) < ErrBuf - 1
                       IN  /\ Last(o) = "\n"
                           /\ plain /\ e = 0 => o = IF msg # << >> /\ Last(msg) = "\n" THEN msg ELSE Append(msg, "\n")
  /\ msg # << >> /\ Len(msg) < ErrBuf - 2 =>
       warn(msg) = {IF Last(msg) = "\n" THEN msg ELSE Append(msg, "\n")}
=============================================================================
