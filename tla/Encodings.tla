------------------------------ MODULE Encodings -----------------------------
(***************************************************************************)
(* Encodings of bytes, numbers and records, and back. Each section has its *)
(* own inputs.                                                             *)
(***************************************************************************)
EXTENDS Strings, Integers, Sequences, SequencesExt
-----------------------------------------------------------------------------
(***************************************************************************)
(* Encodings of bytes as text and back: escape.c and unescape.c, base64    *)
(* (b64_encode.c, b64_decode.c) with its blocks in any division, uuid.c,   *)
(* uuid2str.c and ulid.c.  A character is its code, but in base64 the      *)
(* value it stands for.                                                    *)
(***************************************************************************)

CONSTANTS XCodes, XMax,                  \* characters of the text to escape, its length
          PlainBytes, PlainMax,          \* bytes of the plain text, its length
          CHARS_PER_LINE,                \* of base64
          IdBytes                        \* bytes of an identifier

VARIABLES xbuf,                          \* the text
          plain, enc, code,              \* given to the encoder, its state, its output
          dec, fed, back,                \* state of the decoder, characters fed to it, its output
          id                             \* a uuid or ulid as it is filled

codecVars == <<xbuf, plain, enc, code, dec, fed, back, id>>

-----------------------------------------------------------------------------
(* escape.c and unescape.c                                                 *)
ESC == 92
Named == (7 :> 97) @@ (8 :> 98) @@ (12 :> 102) @@ (10 :> 110) @@ (13 :> 114) @@ (9 :> 116) @@ (11 :> 118)
Octal3(c) == <<48 + c \div 64, 48 + ((c \div 8) % 8), 48 + (c % 8)>>
(* a character without a name gets the escape character twice              *)
EscapeOne(c, set) == IF c = ESC THEN <<c, c>>
                     ELSE IF c \notin set THEN <<c>>
                     ELSE IF c \in DOMAIN Named THEN <<ESC, Named[c]>>
                     ELSE <<ESC, ESC, 48>> \o Octal3(c)
gstr_escape(s, set) == FlattenSeq([i \in DOMAIN s |-> EscapeOne(s[i], set)])

(* the longest prefix of s of at most n characters from C                  *)
RECURSIVE Run(_, _, _)
Run(s, n, C) == IF n = 0 \/ s = << >> \/ s[1] \notin C THEN 0 ELSE 1 + Run(Tail(s), n - 1, C)
Extract(s, n, C, base, val) ==
  [v |-> FoldLeft(LAMBDA a, i : a * base + val[s[i]], 0, [i \in 1 .. Run(s, n, C) |-> i]) % 256,
   n |-> Run(s, n, C)]
extract_octal(s) == Extract(s, 3, 48 .. 55, 8, [c \in 48 .. 55 |-> c - 48])
extract_decimal(s) == Extract(s, 3, 48 .. 57, 10, [c \in 48 .. 57 |-> c - 48])
(* the letters count from 0                                                *)
extract_hex(s) == Extract(s, 2, (48 .. 57) \cup (97 .. 102) \cup (65 .. 70), 16,
                          [c \in (48 .. 57) \cup (97 .. 102) \cup (65 .. 70) |->
                             IF c < 58 THEN c - 48 ELSE IF c < 71 THEN c - 65 ELSE c - 97])
(* the character an escape stands for, and how many characters it takes    *)
parse_escFault(s) ==
  LET c == s[1] IN
  IF s = << >> THEN [v |-> ESC, n |-> 0]
  ELSE IF \E k \in DOMAIN Named : Named[k] = c THEN [v |-> CHOOSE k \in DOMAIN Named : Named[k] = c, n |-> 1]
  ELSE [v |-> 27, n |-> 1]                                   \* fault: the escape itself lost
parse_esc(s) ==
  LET c == s[1] IN
  IF s = << >> THEN [v |-> ESC, n |-> 0]
  ELSE IF \E k \in DOMAIN Named : Named[k] = c THEN [v |-> CHOOSE k \in DOMAIN Named : Named[k] = c, n |-> 1]
  ELSE IF c \in {101, 69} THEN [v |-> 27, n |-> 1]
  ELSE IF c = 48 THEN LET r == extract_octal(Tail(s)) IN [r EXCEPT !.n = @ + 1]
  ELSE IF c = 120 THEN LET r == extract_hex(Tail(s)) IN [r EXCEPT !.n = @ + 1]
  ELSE IF c \in 49 .. 57 THEN extract_decimal(s)
  ELSE [v |-> c, n |-> 1]
RECURSIVE gstr_unescape(_)
gstr_unescape(s) == IF s = << >> THEN << >>
                    ELSE IF s[1] # ESC THEN <<s[1]>> \o gstr_unescape(Tail(s))
                    ELSE LET r == parse_esc(Tail(s)) IN <<r.v>> \o gstr_unescape(From(s, 2 + r.n))

-----------------------------------------------------------------------------
(* base64: values 0 .. 63, then the padding and the line feed              *)
PAD == 64
LF == 65
base64_encode_init == [step |-> "A", result |-> 0, stepcount |-> 0]
(* one byte; the third of a group ends it, and perhaps the line            *)
EncodeByte(S, b) ==
  CASE S.st.step = "A" -> [st |-> [S.st EXCEPT !.step = "B", !.result = (b % 4) * 16], out |-> Append(S.out, b \div 4)]
    [] S.st.step = "B" -> [st |-> [S.st EXCEPT !.step = "C", !.result = (b % 16) * 4],
                           out |-> Append(S.out, S.st.result + b \div 16)]
    [] S.st.step = "C" ->
         LET k == S.st.stepcount + 1
             eol == k = CHARS_PER_LINE \div 4
         IN  [st |-> [step |-> "A", result |-> b % 64, stepcount |-> IF eol THEN 0 ELSE k],
              out |-> S.out \o <<S.st.result + b \div 64, b % 64>> \o (IF eol THEN <<LF>> ELSE << >>)]
base64_encode_block(st, bytes) == FoldLeft(EncodeByte, [st |-> st, out |-> << >>], bytes)
base64_encode_finish(st) == (CASE st.step = "A" -> << >>
                               [] st.step = "B" -> <<st.result, PAD, PAD>>
                               [] st.step = "C" -> <<st.result, PAD>>) \o <<LF>>
(* used bytes of the destlen that buf has: the room is guessed beforehand  *)
Within(destlen, used, out) == IF used > destlen THEN "past the end" ELSE out
(* the code and its terminator                                             *)
base64_encode_buf(destlen, src) ==
  LET r == base64_encode_block(base64_encode_init, src)
      out == r.out \o base64_encode_finish(r.st)
  IN  IF destlen < 2 * Len(src) THEN "ENOMEM" ELSE Within(destlen, Len(out) + 1, out)

base64_decode_value(c) == IF c < 64 THEN c ELSE IF c = PAD THEN -2 ELSE -1
base64_decode_init == [step |-> "a", plainchar |-> 0]
(* characters without a value are passed over                              *)
DecodeChar(S, c) ==
  LET f == base64_decode_value(c)
      p == S.st.plainchar
      Next4(s, v, o) == [st |-> [step |-> s, plainchar |-> v], out |-> S.out \o o]
  IN  IF f < 0 THEN S
      ELSE CASE S.st.step = "a" -> Next4("b", f * 4, << >>)
             [] S.st.step = "b" -> Next4("c", (f % 16) * 16, <<p + f \div 16>>)
             [] S.st.step = "c" -> Next4("d", (f % 4) * 64, <<p + f \div 4>>)
             [] S.st.step = "d" -> Next4("a", p + f, <<p + f>>)
base64_decode_blockFault(st, s) ==            \* fault: the bits of the last block forgotten
  FoldLeft(DecodeChar, [st |-> [st EXCEPT !.plainchar = 0], out |-> << >>], s)
base64_decode_block(st, s) == FoldLeft(DecodeChar, [st |-> st, out |-> << >>], s)
(* the bytes, and the place where the next would be put together           *)
base64_decode_buf(destlen, src) ==
  LET out == base64_decode_block(base64_decode_init, src).out
  IN  IF destlen < Len(src) \div 2 THEN "ENOMEM" ELSE Within(destlen, Len(out) + 1, out)

EncodeBlock == /\ enc.step # "done"
               /\ \E n \in 1 .. 2 : \E bytes \in [1 .. n -> PlainBytes] :
                    /\ Len(plain) + n <= PlainMax
                    /\ plain' = plain \o bytes
                    /\ LET r == base64_encode_block(enc, bytes) IN enc' = r.st /\ code' = code \o r.out
               /\ UNCHANGED <<dec, fed, back>>
EncodeFinish == /\ enc.step # "done" /\ code' = code \o base64_encode_finish(enc)
                /\ enc' = [enc EXCEPT !.step = "done"]
                /\ UNCHANGED <<plain, dec, fed, back>>
DecodeBlock == /\ \E n \in {1, 4} : /\ fed + n <= Len(code)
                                    /\ LET r == base64_decode_block(dec, SubSeq(code, fed + 1, fed + n))
                                       IN  dec' = r.st /\ back' = back \o r.out
                                    /\ fed' = fed + n
               /\ UNCHANGED <<plain, enc, code>>

-----------------------------------------------------------------------------
(* identifiers: 16 bytes                                                   *)
chunk(b) == FlattenSeq([i \in DOMAIN b |-> <<b[i] \div 16, b[i] % 16>>])
DASH == 16
(* uuid2str is the same function                                           *)
uuid_tostring(u) == chunk(SubSeq(u, 1, 4)) \o <<DASH>> \o chunk(SubSeq(u, 5, 6)) \o <<DASH>>
                    \o chunk(SubSeq(u, 7, 8)) \o <<DASH>> \o chunk(SubSeq(u, 9, 10)) \o <<DASH>>
                    \o chunk(SubSeq(u, 11, 16))
(* dashes are passed over wherever they stand                              *)
uuid_fromstring(s) ==
  LET d == SelectSeq(s, LAMBDA c : c # DASH)
  IN  IF Len(s) # 36 \/ (\E i \in DOMAIN d : d[i] > 15) \/ Len(d) # 32 THEN << >>
      ELSE [j \in 1 .. 16 |-> 16 * d[2 * j - 1] + d[2 * j]]
(* version and variant over the random bytes                               *)
uuid_generate(r) == [r EXCEPT ![7] = 64 + (@ % 16), ![9] = 128 + (@ % 64)]

(* t: the bytes of the time in milliseconds.  && where & is meant: a byte  *)
(* of the identifier is 0 or 1                                             *)
ulid_generate(t, r) == [i \in 1 .. 6 |-> IF \E j \in 1 .. i : t[j] > 0 THEN 1 ELSE 0] \o SubSeq(r, 7, 16)
(* the characters of the five bytes a .. e, from the second bit of a on    *)
Quint(a, b, c, d, e) == <<a \div 8, (a % 8) * 4 + b \div 64, (b % 64) \div 2, (b % 2) * 16 + c \div 16,
                          (c % 16) * 2 + d \div 128, (d % 128) \div 4, (d % 4) * 8 + e \div 32, e % 32>>
(* the sixth character takes a bit of byte 3 for one of byte 2             *)
ulid_tostring(u) ==
  LET q == Quint(u[2], u[3], u[4], u[5], u[6])
  IN  <<u[1] \div 32, u[1] % 32>> \o [q EXCEPT ![4] = (u[4] % 2) * 16 + u[4] \div 16]
      \o Quint(u[7], u[8], u[9], u[10], u[11]) \o Quint(u[12], u[13], u[14], u[15], u[16])
(* the bytes of eight characters from place k on                           *)
Bytes5(v, k) == <<(v[k] * 8 + v[k + 1] \div 4) % 256, (v[k + 1] * 64 + v[k + 2] * 2 + v[k + 3] \div 16) % 256,
                  (v[k + 3] * 16 + v[k + 4] \div 2) % 256,
                  (v[k + 4] * 128 + v[k + 5] * 4 + v[k + 6] \div 8) % 256, (v[k + 6] * 32 + v[k + 7]) % 256>>
ulid_fromstringFault(s) ==
  IF Len(s) # 26 \/ \E i \in DOMAIN s : s[i] > 31 THEN << >>
  ELSE <<(s[1] * 32 + s[2]) % 256>> \o Bytes5(s, 3) \o Bytes5(s, 11) \o Bytes5(s, 18)    \* fault: a place early
ulid_fromstring(s) ==
  IF Len(s) # 26 \/ \E i \in DOMAIN s : s[i] > 31 THEN << >>
  ELSE <<(s[1] * 32 + s[2]) % 256>> \o Bytes5(s, 3) \o Bytes5(s, 11) \o Bytes5(s, 19)

-----------------------------------------------------------------------------
CodecInit == /\ xbuf = << >> /\ id = << >>
             /\ plain = << >> /\ enc = base64_encode_init /\ code = << >>
             /\ dec = base64_decode_init /\ fed = 0 /\ back = << >>
TypeText == /\ Len(xbuf) < XMax /\ id = << >> /\ plain = << >> /\ code = << >>
            /\ \E c \in XCodes : xbuf' = Append(xbuf, c)
            /\ UNCHANGED <<plain, enc, code, dec, fed, back, id>>
(* an identifier of 16 bytes, four at a time                               *)
FillId == /\ Len(id) < 16 /\ xbuf = << >> /\ plain = << >> /\ code = << >>
          /\ \E a, b, c, d \in IdBytes : id' = id \o <<a, b, c, d>>
          /\ UNCHANGED <<xbuf, plain, enc, code, dec, fed, back>>
Base64 == xbuf = << >> /\ id = << >> /\ (EncodeBlock \/ EncodeFinish \/ DecodeBlock) /\ UNCHANGED <<xbuf, id>>
CodecNext == TypeText \/ FillId \/ Base64

(* What gstr_escape escapes, gstr_unescape gives back, for the characters  *)
(* with a name (escape.c); a text is never longer unescaped, so the work   *)
(* in place does not overtake its reading (unescape.c).                    *)
EscapeReadBack == /\ gstr_unescape(gstr_escape(xbuf, {10, 9})) = xbuf
                  /\ Len(gstr_unescape(xbuf)) <= Len(xbuf)

(* However the plain text and then the code are cut into blocks, the       *)
(* decoder gives the bytes the encoder was given (b64_encode.c,            *)
(* b64_decode.c), and the code is that of the whole text at once.  The     *)
(* room that the functions for whole buffers ask for is not enough: the    *)
(* encoder needs up to 4 bytes more than twice the text (b64_encode.c:128; *)
(* short texts run past the end), the decoder, which asks for half of the  *)
(* code (b64_decode.c:109), as many bytes as the text has and one.         *)
Base64ReadBack ==
  /\ IsPrefix(back, plain)
  /\ enc.step = "done" =>
       /\ fed = Len(code) => back = plain
       /\ base64_encode_buf(2 * Len(plain) + 4, plain) = code
       /\ base64_encode_buf(2 * Len(plain), plain) = IF Len(code) < 2 * Len(plain) THEN code ELSE "past the end"
       /\ base64_decode_buf(Len(code), code) = plain
       /\ base64_decode_buf(Len(code) \div 2, code) = IF Len(plain) < Len(code) \div 2 THEN plain ELSE "past the end"

(* A uuid printed is read back, with the version and variant of a random   *)
(* one (uuid.c); a ulid too where the bit that ulid_tostring mistakes is   *)
(* the same in both bytes, as in every one ulid_generate makes after the   *)
(* first hours of 1970 (ulid.c).                                           *)
IdsReadBack == Len(id) = 16 =>
  /\ LET u == uuid_generate(id)
     IN  uuid_fromstring(uuid_tostring(u)) = u /\ u[7] \div 16 = 4 /\ u[9] \div 64 = 2
  /\ id[3] % 2 = id[4] % 2 => ulid_fromstring(ulid_tostring(id)) = id
  /\ (\E j \in 1 .. 3 : id[j] > 0) => LET u == ulid_generate(SubSeq(id, 1, 6), id)
                                      IN  ulid_fromstring(ulid_tostring(u)) = u
-----------------------------------------------------------------------------
(***************************************************************************)
(* inc/fast/encdec.h: integers as bytes.  A byte has BYTE values, so that  *)
(* the widths of the code (2, 4 and 8 bytes) stay within TLC's integers.   *)
(***************************************************************************)

CONSTANT BYTE
ASSUME ByteAssumption == BYTE \in Nat \ {0, 1}

LE(w, v) == [i \in 1 .. w |-> (v \div BYTE ^ (i - 1)) % BYTE]
BE(w, v) == Reverse(LE(w, v))
UnLE(w, p) == FoldFunction(LAMBDA x, y : x + y, 0, [i \in 1 .. w |-> p[i] * BYTE ^ (i - 1)])
UnBE(w, p) == FoldFunction(LAMBDA x, y : x + y, 0, [i \in 1 .. w |-> p[i] * BYTE ^ (w - i)])

enc_LE_u16(v) == LE(2, v)
enc_BE_u16(v) == BE(2, v)
enc_LE_u32(v) == LE(4, v)
enc_BE_u32(v) == BE(4, v)
enc_LE_u64(v) == LE(8, v)
enc_BE_u64(v) == BE(8, v)
dec_LE_u16(p) == UnLE(2, p)
dec_BE_u16(p) == UnBE(2, p)
dec_LE_u32(p) == UnLE(4, p)
dec_BE_u32(p) == UnBE(4, p)
dec_LE_u64(p) == UnLE(8, p)
dec_BE_u64(p) == UnBE(8, p)
-----------------------------------------------------------------------------
(***************************************************************************)
(* src/pack.c: packing arguments into bytes after a template, and back.    *)
(* A template is a sequence of characters.  An argument of Pack is         *)
(* [v, a]: the value it has as an integer (the address, for a pointer) and *)
(* the elements it points to; a string points to its characters, without   *)
(* the terminator; v = 0 is the null pointer.  Unpack gives back, per      *)
(* argument, the elements it wrote.  The error "abort" is a failed         *)
(* assertion, "past" a read behind the end of the buffer.  Characters      *)
(* above 'z', for which getpacker reads behind its table, are left out.    *)
(***************************************************************************)

CONSTANTS PkItems, PkCaps, PkMax     \* <<characters, arguments>> of an item; buffer sizes; items

VARIABLES pkfmt, pkargs, pkbe, pkcap

packVars == <<pkfmt, pkargs, pkbe, pkcap>>

PkDigits == <<"0", "1", "2", "3", "4", "5", "6", "7", "8", "9">>
IsDigit(c) == \E i \in 1 .. 10 : PkDigits[i] = c
DigitVal(c) == (CHOOSE i \in 1 .. 10 : PkDigits[i] = c) - 1

Flat(ss) == FoldLeft(LAMBDA x, y : x \o y, << >>, ss)
(* an argument used for one element is the element                         *)
b_pack(num, arg) == IF num = 1 THEN <<arg.v % BYTE>> ELSE SubSeq(arg.a, 1, num)
le_s_pack(num, arg) == IF num = 1 THEN enc_LE_u16(arg.v) ELSE Flat([i \in 1 .. num |-> enc_LE_u16(arg.a[i])])
be_s_pack(num, arg) == IF num = 1 THEN enc_BE_u16(arg.v) ELSE Flat([i \in 1 .. num |-> enc_BE_u16(arg.a[i])])
le_i_pack(num, arg) == IF num = 1 THEN enc_LE_u32(arg.v) ELSE Flat([i \in 1 .. num |-> enc_LE_u32(arg.a[i])])
be_i_pack(num, arg) == IF num = 1 THEN enc_BE_u32(arg.v) ELSE Flat([i \in 1 .. num |-> enc_BE_u32(arg.a[i])])
le_l_pack(num, arg) == IF num = 1 THEN enc_LE_u64(arg.v) ELSE Flat([i \in 1 .. num |-> enc_LE_u64(arg.a[i])])
be_l_pack(num, arg) == IF num = 1 THEN enc_BE_u64(arg.v) ELSE Flat([i \in 1 .. num |-> enc_BE_u64(arg.a[i])])
x_pack(num) == [i \in 1 .. num |-> 0]
z_pack(num, arg) == [i \in 1 .. num |-> IF i <= Len(arg.a) THEN arg.a[i] ELSE 0]

Slice(p, i, w) == SubSeq(p, w * (i - 1) + 1, w * i)
b_unpack(num, p) == SubSeq(p, 1, num)
le_s_unpack(num, p) == [i \in 1 .. num |-> dec_LE_u16(Slice(p, i, 2))]
be_s_unpack(num, p) == [i \in 1 .. num |-> dec_BE_u16(Slice(p, i, 2))]
le_i_unpack(num, p) == [i \in 1 .. num |-> dec_LE_u32(Slice(p, i, 4))]
(* fault: the little-endian decoder *)
be_i_unpackFault(num, p) == [i \in 1 .. num |-> dec_LE_u32(Slice(p, i, 4))]
be_i_unpack(num, p) == [i \in 1 .. num |-> dec_BE_u32(Slice(p, i, 4))]
le_l_unpack(num, p) == [i \in 1 .. num |-> dec_LE_u64(Slice(p, i, 8))]
be_l_unpack(num, p) == [i \in 1 .. num |-> dec_BE_u64(Slice(p, i, 8))]

(* le_packers, be_packers and getpacker: the size of a type                *)
Sizes == [b |-> 1, B |-> 1, x |-> 0, z |-> 1, Z |-> 1, s |-> 2, S |-> 2, i |-> 4, I |-> 4,
          l |-> 8, L |-> 8, f |-> 4, D |-> 8]
(* the entry for the end of a template is there, but packs nothing         *)
getpacker(c) == c \in DOMAIN Sizes \cup {"nul"}
IntPack(c, be, num, arg) ==
  CASE Sizes[c] = 1 -> b_pack(num, arg)
    [] Sizes[c] = 2 -> IF be THEN be_s_pack(num, arg) ELSE le_s_pack(num, arg)
    [] Sizes[c] = 4 -> IF be THEN be_i_pack(num, arg) ELSE le_i_pack(num, arg)
    [] Sizes[c] = 8 -> IF be THEN be_l_pack(num, arg) ELSE le_l_pack(num, arg)
IntUnpack(c, be, num, p) ==
  CASE Sizes[c] = 1 -> b_unpack(num, p)
    [] Sizes[c] = 2 -> IF be THEN be_s_unpack(num, p) ELSE le_s_unpack(num, p)
    [] Sizes[c] = 4 -> IF be THEN be_i_unpack(num, p) ELSE le_i_unpack(num, p)
    [] Sizes[c] = 8 -> IF be THEN be_l_unpack(num, p) ELSE le_l_unpack(num, p)

(* __len_prefix: the loop does not fetch the character it advances to, so  *)
(* a second digit is taken again and again until the count overflows.      *)
len_prefix(f) == IF Len(f) > 1 /\ IsDigit(f[2]) THEN [big |-> TRUE] ELSE [big |-> FALSE, n |-> DigitVal(f[1])]

Fail(e) == [err |-> e, out |-> << >>]
Str(c) == c \in {"z", "Z"}

(* pack, from format f and arguments a on, with the bytes so far           *)
RECURSIVE pack(_, _, _, _, _, _, _)
pack(f, a, out, have, vnum, be, cap) ==
  IF f = << >> THEN [err |-> "", out |-> out]
  ELSE IF f[1] = " " THEN pack(Tail(f), a, out, have, vnum, be, cap)
  ELSE IF f[1] = "*"
  THEN IF have THEN Fail("EILSEQ")
       ELSE IF Len(out) + 4 > cap THEN Fail("ENOSPC")
       ELSE pack(Tail(f), Tail(a), out \o IntPack("I", be, 1, a[1]), TRUE, a[1].v, be, cap)
  ELSE
    LET lp == IF IsDigit(f[1]) THEN len_prefix(f) ELSE [big |-> FALSE, n |-> 0]
        g == IF IsDigit(f[1]) THEN Tail(f) ELSE f
        c == IF g = << >> THEN "nul" ELSE g[1]
        arg == a[1]
        num == CASE c = "x" -> lp.n
                 [] c # "x" /\ have -> vnum
                 [] c # "x" /\ ~ have /\ lp.n = 0 -> IF ~ Str(c) THEN 1 ELSE IF arg.v = 0 THEN 0 ELSE 1 + Len(arg.a)
                 [] OTHER -> lp.n
        rest == IF c = "x" THEN a ELSE Tail(a)
        bytes == CASE c = "x" -> x_pack(num) [] Str(c) -> z_pack(num, arg)
                   [] OTHER -> IntPack(c, be, num, arg)
    IN  IF lp.big THEN Fail("E2BIG")
        ELSE IF lp.n > 0 /\ have THEN Fail("EINVAL")
        ELSE IF ~ getpacker(c) THEN Fail("ENOENT")
        ELSE IF c = "nul" THEN Fail("abort")
        ELSE IF have /\ c # "x" /\ vnum = 0 THEN pack(Tail(g), rest, out, FALSE, 0, be, cap)
        ELSE IF Len(out) + num * Sizes[c] > cap THEN Fail("ENOSPC")
        ELSE IF c = "x" /\ Len(out) + num > cap THEN Fail("EINVAL")
        ELSE IF Str(c) /\ num = 0 THEN Fail("abort")
        ELSE pack(Tail(g), rest, out \o bytes, FALSE, 0, be, cap)

(* unpack of the bytes b; at is how many are consumed, out what the        *)
(* arguments received                                                      *)
RECURSIVE unpack(_, _, _, _, _, _, _)
unpack(f, b, at, out, have, vnum, be) ==
  IF f = << >> THEN IF have THEN Fail("EINVAL") ELSE [err |-> "", out |-> out, n |-> at]
  ELSE IF f[1] = " " THEN unpack(Tail(f), b, at, out, have, vnum, be)
  ELSE IF f[1] = "*"
  THEN IF have THEN Fail("EILSEQ")
       ELSE IF at + 4 > Len(b) THEN Fail("ENOSPC")
       ELSE LET v == IntUnpack("I", be, 1, SubSeq(b, at + 1, Len(b)))
            IN  unpack(Tail(f), b, at + 4, Append(out, v), TRUE, v[1], be)
  ELSE
    LET lp == IF IsDigit(f[1]) THEN len_prefix(f) ELSE [big |-> FALSE, n |-> 0]
        g == IF IsDigit(f[1]) THEN Tail(f) ELSE f
        c == IF g = << >> THEN "nul" ELSE g[1]
        num == CASE c = "x" -> lp.n
                 [] c # "x" /\ have -> vnum
                 [] c # "x" /\ ~ have /\ lp.n = 0 -> IF Str(c) THEN 0 ELSE 1
                 [] OTHER -> lp.n
        p == SubSeq(b, at + 1, Len(b))
        Z == {i \in DOMAIN p : p[i] = 0}
        n == IF num = 0 THEN CHOOSE i \in Z : \A j \in Z : i <= j ELSE num           \* z_unpack
    IN  IF lp.big THEN Fail("E2BIG")
        ELSE IF lp.n > 0 /\ have THEN Fail("EINVAL")
        ELSE IF ~ getpacker(c) THEN Fail("ENOENT")
        ELSE IF c = "nul" THEN Fail("abort")
        ELSE IF have /\ c # "x" /\ vnum = 0 THEN unpack(Tail(g), b, at, Append(out, << >>), FALSE, 0, be)
        ELSE IF at + num * Sizes[c] > Len(b) THEN Fail("ENOSPC")
        ELSE IF c = "x" THEN IF at + num > Len(b) THEN Fail("EINVAL")
                             ELSE unpack(Tail(g), b, at + num, out, FALSE, 0, be)
        ELSE IF Str(c) THEN IF num = 0 /\ p = << >> THEN Fail("past")
                            ELSE IF num = 0 /\ Z = {} THEN Fail("EINVAL")
                            ELSE unpack(Tail(g), b, at + n, Append(out, SubSeq(p, 1, n)), FALSE, 0, be)
        ELSE unpack(Tail(g), b, at + num * Sizes[c], Append(out, IntUnpack(c, be, num, p)), FALSE, 0, be)

Packed == pack(pkfmt, pkargs, << >>, FALSE, 0, pkbe, pkcap)
Unpacked(b) == unpack(pkfmt, b, 0, << >>, FALSE, 0, pkbe)

PackInit == pkfmt = << >> /\ pkargs = << >> /\ pkbe \in BOOLEAN /\ pkcap \in PkCaps
Starred == pkfmt # << >> /\ Last(pkfmt) = "*"       \* what follows must be an array, or refused
EndsInCount == pkfmt # << >> /\ IsDigit(Last(pkfmt)) \* and a count without a type
PackNext == \E it \in PkItems :
  /\ Len(pkfmt) < PkMax /\ (Starred \/ EndsInCount => it[1][1] = "*" \/ IsDigit(it[1][1]))
  /\ pkfmt' = pkfmt \o it[1] /\ pkargs' = pkargs \o it[2]
  /\ UNCHANGED <<pkbe, pkcap>>
-----------------------------------------------------------------------------
SameValue(u, arg) ==
  \/ Len(u) = 1 /\ arg.a = << >> /\ \E w \in {1, 2, 4, 8} : u[1] = arg.v % (BYTE ^ w)
  \/ Len(u) = 0 /\ arg.a # << >>
  \/ Len(u) > 0 /\ \A i \in DOMAIN u : u[i] = IF i <= Len(arg.a) THEN arg.a[i] ELSE 0
(* where a string that ends with its terminator starts in the bytes        *)
StringsAt == {Len(pack(SubSeq(pkfmt, 1, i - 1), pkargs, << >>, FALSE, 0, pkbe, pkcap).out) :
                i \in {j \in DOMAIN pkfmt : Str(pkfmt[j]) /\ (j = 1 \/ (pkfmt[j - 1] # "*" /\ ~ IsDigit(pkfmt[j - 1])))}}
(* What Pack has put into the buffer is within its capacity, and Unpack    *)
(* with the same template consumes exactly those bytes and gives back the  *)
(* arguments: integers cut to their width, strings cut or filled to their  *)
(* count; of fewer bytes it makes nothing, though it reads behind their    *)
(* end for a string that would start there (pack.c:822).  A template one   *)
(* of them refuses, the other refuses too, unless it ends in a star; both  *)
(* abort over one that ends in a count (pack.c:256, 864), and Pack over a  *)
(* null string without a count, which pack.c:248 calls an empty one.  (A   *)
(* counted array of one element is packed as if its address were the       *)
(* element, so such arguments are not tried.)                              *)
RoundTrip ==
  LET p == Packed
      u == Unpacked(p.out)
      zeros == Unpacked([i \in 1 .. 100 |-> 0])
      noString == \E i \in DOMAIN pkargs : pkargs[i].v = 0 /\ pkargs[i].a = << >>
  IN  IF p.err = ""
      THEN /\ Len(p.out) <= pkcap
           /\ IF Starred THEN u.err = "EINVAL"
              ELSE /\ u.err = "" /\ u.n = Len(p.out) /\ Len(u.out) = Len(pkargs)
                   /\ \A i \in DOMAIN u.out : SameValue(u.out[i], pkargs[i])
           /\ \A k \in 0 .. Len(p.out) - 1 :
                LET e == Unpacked(SubSeq(p.out, 1, k)).err
                IN  e \in {"ENOSPC", "EINVAL", "past"} /\ (e = "past" <=> k \in StringsAt)
      ELSE /\ p.err \in {"ENOSPC", "EINVAL"} \/ zeros.err = p.err \/ (p.err = "abort" /\ noString)
           /\ p.err = "abort" => EndsInCount \/ noString
=============================================================================
