----------------------------- MODULE Arc4Random -----------------------------
(***************************************************************************)
(* src/arc4random.c (the variant with a thread-local state): a keystream   *)
(* that is cut into buffers, keys that are replaced by the start of their  *)
(* own keystream, fresh entropy after a while, and processes that fork.    *)
(* The keystream is symbolic: byte i of the g-th key that comes from       *)
(* entropy e.  A process that has the state of another computes the same   *)
(* bytes.                                                                  *)
(***************************************************************************)
EXTENDS Integers, Sequences, FiniteSets, SequencesExt

CONSTANTS ABuf,        (* bytes of keystream made at a time: ARC4R_RSBUFSZ *)
          AKey,        (* bytes that become the next key and IV            *)
          REKEY_BASE,
          ALens,       (* lengths asked for                                *)
          AProcs,      (* bound: processes, numbered by their pids         *)
          ACalls,      (* bound: calls of one process                      *)
          AWidth       (* width of size_t and uint32_t                     *)

VARIABLES ast,         (* pid -> the state of the process's thread         *)
          aent,        (* blocks of entropy taken from the kernel so far   *)
          agiven,      (* history: the bytes handed out                    *)
          atwice,      (* history: a byte was handed out a second time     *)
          acalls       (* pid -> calls so far                              *)

arcVars == <<ast, aent, agiven, atwice, acalls>>

Word == 2 ^ AWidth

(* The static initialiser: rs_count = 0, rs_pid = -1, rs_have = 0 *)
ARaw == [rs_count |-> 0, rs_pid |-> -1, rs_have |-> 0, ent |-> 0, gen |-> 0]

ArcInit ==
  /\ ast = <<ARaw>> /\ aent = 0 /\ agiven = {} /\ atwice = FALSE /\ acalls = <<0>>

(* _rs_rekey without data: the key and IV are the first AKey bytes that    *)
(* the old key makes, so gen counts the keys in a row.                     *)
_rs_rekey(s) == [s EXCEPT !.gen = @ + 1, !.rs_have = ABuf - AKey]

(* _rs_setup, given a fresh block of entropy *)
_rs_setup(s, e) == _rs_rekey([s EXCEPT !.ent = e, !.gen = 0])

(* _rs_stir: the same with entropy mixed in, the buffer invalidated, and a *)
(* count that is made from the keystream.                                  *)
_rs_stir(s, e, fuzz) == [s EXCEPT !.ent = e, !.gen = 1, !.rs_have = 0, !.rs_count = REKEY_BASE + fuzz]

_rs_consumeFault(s, n) ==    \* fault: does not count the last byte
  LET m == IF n < s.rs_have THEN n ELSE s.rs_have
  IN  [st |-> [s EXCEPT !.rs_have = IF m > 1 THEN @ - (m - 1) ELSE @ - m],
       got |-> {<<s.ent, s.gen, i>> : i \in ABuf - s.rs_have + 1 .. ABuf - s.rs_have + m}, n |-> m]

(* _rs_consume: the bytes at the end of the buffer that are left *)
_rs_consume(s, n) ==
  LET m == IF n < s.rs_have THEN n ELSE s.rs_have
  IN  [st |-> [s EXCEPT !.rs_have = @ - m],
       got |-> {<<s.ent, s.gen, i>> : i \in ABuf - s.rs_have + 1 .. ABuf - s.rs_have + m}, n |-> m]

RECURSIVE Fill(_, _)
(* The loop of _rs_random_buf: [st, got], got being a sequence of sets *)
Fill(s, n) ==
  IF n = 0 THEN [st |-> s, got |-> <<>>]
  ELSE IF s.rs_have = 0 THEN Fill(_rs_rekey(s), n)
  ELSE LET c == _rs_consume(s, n)
           r == Fill(c.st, n - c.n)
       IN  [st |-> r.st, got |-> <<c.got>> \o r.got]

sgetFault(p, s) == s.rs_count = 0                       \* fault: forgets the fork
(* sget: the state has to be set up, at first and in a new process *)
sget(p, s) == s.rs_count = 0 \/ p # s.rs_pid

_rs_stir_if_needed(s, n) == s.rs_count <= n

(* arc4random_buf, arc4random *)
arc4random_buf(p, n) ==
  /\ acalls[p] < ACalls /\ acalls' = [acalls EXCEPT ![p] = @ + 1]
  /\ \E fuzz \in 0 .. REKEY_BASE - 1 :
       LET fresh == sget(p, ast[p])
           s == IF fresh THEN [_rs_setup(ast[p], aent + 1) EXCEPT !.rs_pid = p] ELSE ast[p]
           e == IF fresh THEN aent + 1 ELSE aent
           stir == _rs_stir_if_needed(s, n)
           t == IF stir THEN _rs_stir(s, e + 1, fuzz) ELSE s
           r == Fill([t EXCEPT !.rs_count = (@ - n) % Word], n)
           got == UNION Range(r.got)
       IN  /\ (~ stir => fuzz = 0)
           /\ ast' = [ast EXCEPT ![p] = r.st]
           /\ aent' = IF stir THEN e + 1 ELSE e
           /\ agiven' = agiven \cup got
           /\ atwice' = (atwice \/ got \cap agiven # {} \/ Cardinality(got) # n)

(* The process forks. *)
AFork(p) ==
  /\ Len(ast) < AProcs /\ ast' = Append(ast, ast[p]) /\ acalls' = Append(acalls, 0)
  /\ UNCHANGED <<aent, agiven, atwice>>

ArcNext == \E p \in 1 .. Len(ast) : AFork(p) \/ \E n \in ALens : arc4random_buf(p, n)
-----------------------------------------------------------------------------
RejectFault(bound) == (Word % bound) + 1        \* fault: one too many
(* min: -upper_bound % upper_bound, in unsigned arithmetic *)
Reject(bound) == ((Word - bound) % bound)

(* What arc4random_uniform may return, and from which words *)
arc4random_uniform(bound) ==
  [v \in 0 .. bound - 1 |-> {r \in Reject(bound) .. Word - 1 : r % bound = v}]

(* No byte of keystream is given out twice, whatever the lengths asked     *)
(* for, the moments at which buffers run out and keys are replaced, and    *)
(* the processes that fork in between ("Detect if a fork has happened",    *)
(* arc4random.c); and every number below the bound of arc4random_uniform   *)
(* has as many words ("avoiding "modulo bias"").                           *)
NeverTwice ==
  /\ ~ atwice
  /\ \A b \in 2 .. Word - 1 : \A v \in 0 .. b - 1 :
       Cardinality(arc4random_uniform(b)[v]) = Cardinality(arc4random_uniform(b)[0])
=============================================================================
