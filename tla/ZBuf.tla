-------------------------------- MODULE ZBuf --------------------------------
(***************************************************************************)
(* src/zbuf_c.c and zbuf_unc.c: zlib streams between a caller that feeds   *)
(* chunks and a callback that drains the output buffer, maybe only a part  *)
(* of it.  zlib is modelled by its contract: a call goes on until the      *)
(* input is used up or the output buffer is full, deflate may hold output  *)
(* back until Z_FINISH, and inflate stops behind the end of the stream.    *)
(***************************************************************************)
EXTENDS Integers, Sequences, SequencesExt

CONSTANTS ZChunks,     (* chunks of input, sequences of symbols            *)
          ZCode,       (* what zlib makes of a symbol                      *)
          ZEnd,        (* the last symbol of a compressed stream           *)
          ZSize,       (* outbuf_size                                      *)
          ZFeeds       (* bound: chunks                                    *)

VARIABLES zdir,        (* "compress", "uncompress"                         *)
          zin,         (* the input from next_in on: avail_in is its length *)
          zheld,       (* output inside zlib                               *)
          zdone,       (* zlib has reached the end of its stream           *)
          outbuf,      (* output buffer up to next_out                     *)
          sink,        (* what the callback has processed                  *)
          zpc,         (* where in a call: see the actions                 *)
          zend,        (* the call is z_buf_(un)compress_end               *)
          zerr,        (* answer of the last call                          *)
          zused, zfeeds            (* history: input that zlib took; chunks *)

zbufVars == <<zdir, zin, zheld, zdone, outbuf, sink, zpc, zend, zerr, zused, zfeeds>>
callerVars == <<zdir, zend, zfeeds>>

avail_out == ZSize - Len(outbuf)
Coded(s) == FlattenSeq([i \in 1 .. Len(s) |-> ZCode[s[i]]])

(* z_buf_context_init and z_buf_compress_init or z_buf_uncompress_init *)
ZBufInit ==
  /\ zdir = "compress" /\ zin = <<>> /\ zheld = <<>> /\ zdone = FALSE /\ outbuf = <<>> /\ sink = <<>>
  /\ zpc = "out" /\ zend = FALSE /\ zerr = "Z_OK" /\ zused = <<>> /\ zfeeds = 0

ZChoose == /\ zfeeds = 0 /\ zpc = "out" /\ zdir' = "uncompress" /\ zdir # zdir'
           /\ UNCHANGED <<zin, zheld, zdone, outbuf, sink, zpc, zend, zerr, zused, zfeeds>>

Return(e) == zpc' = "out" /\ zerr' = e
Took(n) == zin' = SubSeq(zin, n + 1, Len(zin)) /\ zused' = zused \o SubSeq(zin, 1, n)
Emit(h, e) == outbuf' = outbuf \o SubSeq(h, 1, e) /\ zheld' = SubSeq(h, e + 1, Len(h))
-----------------------------------------------------------------------------
(* z_buf_compress, z_buf_uncompress: a chunk, while the session goes on.   *)
z_buf_feed ==
  /\ zpc = "out" /\ zerr = "Z_OK" /\ ~ zend /\ zin = <<>> /\ zfeeds < ZFeeds
  /\ \E c \in ZChunks : zin' = c
  /\ zpc' = "loop" /\ zfeeds' = zfeeds + 1
  /\ UNCHANGED <<zdir, zheld, zdone, outbuf, sink, zend, zerr, zused>>

MakeRoomFault ==             \* fault: what the callback left is overwritten
  /\ zpc = "loop" /\ zin # <<>> /\ avail_out = 0 /\ UNCHANGED <<callerVars, zin, zheld, zdone, zused>>
  /\ \E used \in 0 .. ZSize :
       IF used = 0 THEN Return("Z_MEM_ERROR") /\ UNCHANGED <<outbuf, sink>>
       ELSE /\ outbuf' = <<>> /\ sink' = sink \o SubSeq(outbuf, 1, used)
            /\ zpc' = "code" /\ UNCHANGED zerr

(* The loop, with a full buffer: the callback takes some of it, and the    *)
(* rest moves to the front.                                                *)
MakeRoom ==
  /\ zpc = "loop" /\ zin # <<>> /\ avail_out = 0 /\ UNCHANGED <<callerVars, zin, zheld, zdone, zused>>
  /\ \E used \in 0 .. ZSize :
       IF used = 0 THEN Return("Z_MEM_ERROR") /\ UNCHANGED <<outbuf, sink>>
       ELSE /\ outbuf' = SubSeq(outbuf, used + 1, ZSize) /\ sink' = sink \o SubSeq(outbuf, 1, used)
            /\ zpc' = "code" /\ UNCHANGED zerr

HasRoom == /\ zpc = "loop" /\ zin # <<>> /\ avail_out > 0 /\ zpc' = "code"
           /\ UNCHANGED <<callerVars, zin, zheld, zdone, outbuf, sink, zerr, zused>>

(* deflate(Z_NO_FLUSH) *)
deflate ==
  /\ zpc = "code" /\ zdir = "compress" /\ UNCHANGED <<callerVars, sink, zerr, zdone>>
  /\ \E n \in 0 .. Len(zin) :
       LET h == zheld \o Coded(SubSeq(zin, 1, n))
       IN  \E e \in 0 .. IF avail_out < Len(h) THEN avail_out ELSE Len(h) :
             /\ n = Len(zin) \/ e = avail_out
             /\ n + e > 0 /\ Took(n) /\ Emit(h, e)
  /\ zpc' = "loop"

(* inflate, and the tests behind it *)
inflate ==
  /\ zpc = "code" /\ zdir = "uncompress" /\ UNCHANGED <<callerVars, sink>>
  /\ LET stop == SelectInSeq(zin, LAMBDA x : x = ZEnd)
         most == IF zdone THEN 0 ELSE IF stop = 0 THEN Len(zin) ELSE stop
     IN  \E n \in 0 .. most :
           LET h == zheld \o Coded(SubSeq(zin, 1, n))
               e == IF avail_out < Len(h) THEN avail_out ELSE Len(h)
               ended == zdone \/ (n = stop /\ n > 0)
           IN  /\ n = most \/ e = avail_out
               /\ n + e > 0 \/ zdone
               /\ Took(n) /\ Emit(h, e) /\ zdone' = ended
               /\ IF ended /\ e = Len(h) THEN zpc' = "return" /\ zerr' = "Z_STREAM_END"
                  ELSE zpc' = "loop" /\ UNCHANGED zerr

(* The input is used up. *)
LoopEnds ==
  /\ zpc = "loop" /\ zin = <<>> /\ zpc' = "return"
  /\ UNCHANGED <<callerVars, zin, zheld, zdone, outbuf, sink, zerr, zused>>

(* Back in the caller, or in z_buf_compress_end; z_buf_uncompress_end      *)
(* returns here, as its test is true of every value (zbuf_unc.c:83).       *)
LoopReturns ==
  /\ zpc = "return"
  /\ zpc' = IF zend /\ zdir = "compress" THEN "drain" ELSE "out"
  /\ UNCHANGED <<callerVars, zin, zheld, zdone, outbuf, sink, zerr, zused>>
-----------------------------------------------------------------------------
(* z_buf_compress_end, z_buf_uncompress_end: pending input first *)
z_buf_end ==
  /\ zpc = "out" /\ ~ zend /\ zend' = TRUE /\ zpc' = IF zin # <<>> THEN "loop" ELSE "drain"
  /\ UNCHANGED <<zdir, zin, zheld, zdone, outbuf, sink, zerr, zused, zfeeds>>

(* The callback is given what is left, until it has taken all. *)
Drain ==
  /\ zpc = "drain" /\ outbuf # <<>> /\ UNCHANGED <<callerVars, zin, zheld, zdone, zused>>
  /\ \E used \in 0 .. Len(outbuf) :
       IF used = 0 THEN Return("Z_MEM_ERROR") /\ UNCHANGED <<outbuf, sink>>
       ELSE /\ sink' = sink \o SubSeq(outbuf, 1, used) /\ outbuf' = SubSeq(outbuf, used + 1, Len(outbuf))
            /\ UNCHANGED <<zpc, zerr>>

deflate_finishFault ==       \* fault: taken for finished when the buffer is full
  /\ zpc = "drain" /\ outbuf = <<>> /\ zdir = "compress" /\ ~ zdone
  /\ LET h == Append(zheld, "end")
         e == IF avail_out < Len(h) THEN avail_out ELSE Len(h)
     IN  Emit(h, e) /\ zdone' = TRUE
  /\ UNCHANGED <<callerVars, zin, sink, zpc, zerr, zused>>

(* deflate(Z_FINISH): the trailer, as far as there is room.  It is done    *)
(* when room is left or the stream has ended.                              *)
deflate_finish ==
  /\ zpc = "drain" /\ outbuf = <<>> /\ zdir = "compress" /\ ~ zdone
  /\ LET h == IF Len(zheld) > 0 /\ Last(zheld) = "end" THEN zheld ELSE Append(zheld, "end")
         e == IF avail_out < Len(h) THEN avail_out ELSE Len(h)
     IN  Emit(h, e) /\ zdone' = (e = Len(h))
  /\ UNCHANGED <<callerVars, zin, sink, zpc, zerr, zused>>

(* inflateEnd, deflateEnd *)
EndReturns ==
  /\ zpc = "drain" /\ outbuf = <<>> /\ (zdir = "compress" => zdone)
  /\ Return("Z_OK") /\ UNCHANGED <<callerVars, zin, zheld, zdone, outbuf, sink, zused>>

ZBufNext ==
  \/ ZChoose \/ z_buf_feed \/ MakeRoom \/ HasRoom \/ deflate \/ inflate \/ LoopEnds \/ LoopReturns
  \/ z_buf_end \/ Drain \/ deflate_finish \/ EndReturns
-----------------------------------------------------------------------------
Ended == zend /\ zpc = "out" /\ zerr = "Z_OK"
Strip(s) == SelectSeq(s, LAMBDA x : x # "end")

(* Whatever the chunks, and however little the callback takes at a time,   *)
(* it sees the output of zlib once and in order ("the impression of a      *)
(* contiguous output buffer from call-to-call", zbuf_c.c); and when        *)
(* z_buf_compress_end succeeds it has seen all of it, the trailer included.*)
StreamWhole ==
  /\ Strip(sink \o outbuf \o zheld) = Coded(zused)
  /\ Ended /\ zdir = "compress" => sink = Coded(zused) \o <<"end">> /\ zin = <<>>

(* "Finalize uncompression by draining all pending output." (zbuf.h)       *)
UncompressDrains == Ended /\ zdir = "uncompress" => sink = Coded(zused)
=============================================================================
