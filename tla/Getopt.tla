------------------------------- MODULE Getopt -------------------------------
(***************************************************************************)
(* src/getopt_long.c: getopt and getopt_long keep their place in a cluster *)
(* of option letters, and the block of operands they have skipped, in      *)
(* static variables, and move operands behind the options as they go.      *)
(* Strings are sequences of characters; argv[i] is the i-th argument after *)
(* the program name, so indices are the C ones.                            *)
(***************************************************************************)
EXTENDS Integers, Sequences, SequencesExt, FiniteSetsExt

CONSTANTS GoArgs,      (* arguments that a command line is made of         *)
          GoMax,       (* bound: arguments                                 *)
          GoModes,     (* [long, options, posix] of a program              *)
          GoLong       (* long_options: [name, has_arg, flag, val]         *)

VARIABLES go,          (* the static variables: see GoFresh                *)
          goargs,      (* argv as the program was given it                 *)
          gomode,      (* getopt_long or getopt, and its option string     *)
          gotten       (* the answers so far: <<retval, optarg>>           *)

goVars == <<go, goargs, gomode, gotten>>

Nil == <<"NULL">>
GoFresh(v) == [optind |-> 1, place |-> <<>>, start |-> -1, end |-> -1, argv |-> v,
               optarg |-> Nil, optopt |-> "?", ret |-> "none", optreset |-> FALSE, flag |-> "none"]
options == gomode.options
Opt(i) == IF i <= Len(options) THEN options[i] ELSE "NUL"

IGNORE_FIRST == Opt(1) \in {"-", "+"}
PERMUTE == ~ gomode.posix /\ ~ IGNORE_FIRST
IN_ORDER == ~ gomode.posix /\ Opt(1) = "-"
BADARG == IF (IGNORE_FIRST /\ Opt(2) = ":") \/ Opt(1) = ":" THEN ":" ELSE "?"
-----------------------------------------------------------------------------
RECURSIVE gcd(_, _)
gcd(a, b) == IF a % b = 0 THEN b ELSE gcd(b, a % b)

permute_argsFault(a, b, e, v) ==             \* fault: one cycle only
  LET Turn(s, j) == LET p == IF s[2] >= b THEN s[2] - (b - a) ELSE s[2] + (e - b)
                    IN  <<[s[1] EXCEPT ![p] = s[1][b], ![b] = s[1][p]], p>>
  IN  FoldLeft(Turn, <<v, b>>, [j \in 1 .. e - a |-> j])[1]

(* gcd(...) cycles, each of which moves every element it passes to its     *)
(* place: the block a .. b-1 goes behind the block b .. e-1.               *)
permute_args(a, b, e, v) ==
  LET nonopts == b - a
      opts == e - b
      n == gcd(nonopts, opts)
      Cycle(w, i) ==
        LET c == b + i - 1
            Turn(s, j) == LET p == IF s[2] >= b THEN s[2] - nonopts ELSE s[2] + opts
                          IN  <<[s[1] EXCEPT ![p] = s[1][c], ![c] = s[1][p]], p>>
        IN  FoldLeft(Turn, <<w, c>>, [j \in 1 .. (e - a) \div n |-> j])[1]
  IN  FoldLeft(Cycle, v, [i \in 1 .. n |-> i])

(* Skipped operands go behind the options before optind. *)
Permuted(g) ==
  IF g.end = -1 THEN g
  ELSE [g EXCEPT !.argv = permute_args(g.start, g.end, g.optind, g.argv),
                 !.optind = @ - (g.end - g.start)]
Forget(g) == [g EXCEPT !.start = -1, !.end = -1]

(* optind >= nargc *)
AtEnd(g) ==
  Forget([(IF g.end # -1 THEN Permuted(g)
           ELSE IF g.start # -1 THEN [g EXCEPT !.optind = g.start] ELSE g)
          EXCEPT !.place = <<>>, !.ret = "END"])

IsOperand(s) == s = <<>> \/ s[1] # "-" \/ Len(s) = 1

SkipOperandFault(g) ==                       \* fault: keeps the end of the old block
  IF g.start = -1 THEN [g EXCEPT !.start = g.optind, !.optind = @ + 1] ELSE [g EXCEPT !.optind = @ + 1]

(* An operand to be moved: exchange the block skipped before, if options   *)
(* followed it.                                                            *)
SkipOperand(g) ==
  [(IF g.start = -1 THEN [g EXCEPT !.start = g.optind]
    ELSE IF g.end # -1
         THEN [g EXCEPT !.argv = permute_args(g.start, g.end, g.optind, g.argv),
                        !.start = g.optind - (g.end - g.start), !.end = -1]
         ELSE g)
   EXCEPT !.optind = @ + 1]

(* The rest of getopt_internal: the letter at place. *)
Letter(g) ==
  LET c == g.place[1]
      rest == Tail(g.place)
      from == IF IGNORE_FIRST THEN 2 ELSE 1
      hits == {i \in from .. Len(options) : options[i] = c}
      oli == Min(hits)
      next == IF rest = <<>> THEN g.optind + 1 ELSE g.optind
      last == g.optind + 1 > Len(g.argv)
      Missing == [g EXCEPT !.place = <<>>, !.optind = @ + 1, !.optopt = c, !.ret = BADARG]
  IN  CASE c = ":" \/ hits = {} ->
             [g EXCEPT !.place = rest, !.optind = next, !.optopt = c, !.ret = "?"]
        [] c = "W" /\ Opt(oli + 1) = ";" /\ c # ":" /\ hits # {} ->
             IF rest # <<>> THEN [g EXCEPT !.place = rest, !.ret = "LONG"]
             ELSE IF last THEN Missing
             ELSE [g EXCEPT !.optind = @ + 1, !.place = g.argv[g.optind + 1], !.ret = "LONG"]
        [] OTHER ->
             IF Opt(oli + 1) # ":" THEN [g EXCEPT !.place = rest, !.optind = next, !.ret = c]
             ELSE IF rest # <<>> THEN [g EXCEPT !.optarg = rest, !.place = <<>>, !.optind = @ + 1, !.ret = c]
             ELSE IF Opt(oli + 2) = ":" THEN [g EXCEPT !.place = <<>>, !.optind = @ + 1, !.ret = c]
             ELSE IF last THEN Missing
             ELSE [g EXCEPT !.optarg = g.argv[g.optind + 1], !.place = <<>>, !.optind = @ + 2, !.ret = c]

RECURSIVE Scan(_)
(* From the label start on. *)
Scan(g) ==
  IF g.place # <<>> /\ ~ g.optreset THEN Letter(g)
  ELSE LET h == [g EXCEPT !.optreset = FALSE, !.place = <<>>]
       IN  IF h.optind > Len(h.argv) THEN AtEnd(h)
           ELSE LET s == h.argv[h.optind]
                    k == IF h.start # -1 /\ h.end = -1 THEN [h EXCEPT !.end = h.optind] ELSE h
                IN  IF IsOperand(s)
                    THEN CASE IN_ORDER -> [h EXCEPT !.optarg = s, !.optind = @ + 1, !.ret = "INORDER"]
                           [] ~ IN_ORDER /\ ~ PERMUTE -> [h EXCEPT !.ret = "END"]
                           [] PERMUTE -> Scan(SkipOperand(h))
                    ELSE IF s[2] = "-" THEN [k EXCEPT !.place = SubSeq(s, 3, Len(s)), !.ret = "LONG"]
                    ELSE Letter([k EXCEPT !.place = Tail(s)])

getopt_internal(g) ==
  Scan([(IF g.optreset THEN Forget(g) ELSE g)
        EXCEPT !.optarg = Nil, !.optind = IF @ = 0 THEN 1 ELSE @])

(* "--": what was skipped goes behind it. *)
Finish(g) == Forget([Permuted(g) EXCEPT !.ret = "END"])

getopt(g) ==
  LET h == getopt_internal(g) IN IF h.ret = "LONG" THEN Finish([h EXCEPT !.optind = @ + 1]) ELSE h

(* The long option that a word names: 0 for none, -1 when the table has    *)
(* two abbreviations before an exact match.                                *)
Match(w) ==
  LET hit == {i \in 1 .. Len(GoLong) : IsPrefix(w, GoLong[i].name)}
      exact == {i \in hit : GoLong[i].name = w}
      partial == {i \in hit \ exact : \A e \in exact : i < e}
  IN  IF Cardinality(partial) > 1 THEN -1
      ELSE IF exact # {} THEN Min(exact) ELSE IF partial # {} THEN Min(partial) ELSE 0

LongOption(g) ==
  LET eq == SelectInSeq(g.place, LAMBDA c : c = "=")
      i == Match(IF eq = 0 THEN g.place ELSE SubSeq(g.place, 1, eq - 1))
      o == GoLong[i]
      val == IF eq # 0 THEN SubSeq(g.place, eq + 1, Len(g.place)) ELSE Nil
      h == [g EXCEPT !.place = <<>>]
      next == o.has_arg = "required" /\ eq = 0
      arg == IF o.has_arg = "no" THEN Nil
             ELSE IF next /\ g.optind <= Len(g.argv) THEN g.argv[g.optind] ELSE val
      bad == [h EXCEPT !.optopt = IF o.flag THEN "0" ELSE o.val, !.ret = BADARG]
  IN  IF i < 1 THEN [h EXCEPT !.optopt = "0", !.ret = "?"]
      ELSE IF o.has_arg = "no" /\ eq # 0 THEN bad
      ELSE IF o.has_arg = "required" /\ arg = Nil THEN bad
      ELSE [h EXCEPT !.optarg = arg, !.optind = IF next THEN @ + 1 ELSE @,
                     !.flag = IF o.flag THEN o.val ELSE @, !.ret = IF o.flag THEN "0" ELSE o.val]

getopt_long(g) ==
  LET h == getopt_internal(g)
      k == [h EXCEPT !.optind = @ + 1]
  IN  IF h.ret # "LONG" THEN h
      ELSE IF h.place = <<>> THEN Finish(k) ELSE LongOption(k)
-----------------------------------------------------------------------------
GoInit ==
  /\ go = GoFresh(<<>>) /\ goargs = <<>> /\ gotten = <<>>
  /\ gomode = [long |-> TRUE, options |-> <<>>, posix |-> FALSE]

(* The program is started. *)
Command ==
  /\ go.ret = "none" /\ Len(goargs) < GoMax /\ UNCHANGED gotten
  /\ \E w \in GoArgs : goargs' = Append(goargs, w)
  /\ IF goargs = <<>> THEN gomode' \in GoModes ELSE UNCHANGED gomode
  /\ go' = GoFresh(goargs')

Call ==
  /\ goargs # <<>> /\ go.ret # "END" /\ UNCHANGED <<goargs, gomode>>
  /\ go' = IF gomode.long THEN getopt_long(go) ELSE getopt(go)
  /\ gotten' = Append(gotten, <<go'.ret, go'.optarg>>)

(* It parses argv again, as it now is: with optreset at any time, or by    *)
(* setting optind to 0 once the end was reached.                           *)
Restart ==
  /\ go.ret # "none" /\ UNCHANGED gomode
  /\ \/ go' = [go EXCEPT !.optreset = TRUE, !.optind = 1, !.ret = "again"]
     \/ go.ret = "END" /\ go' = [go EXCEPT !.optind = 0, !.ret = "again"]
  /\ goargs' = go.argv /\ gotten' = <<>>

GoNext == Command \/ Call \/ Restart
-----------------------------------------------------------------------------
(* What a command line means, word by word and with nothing moved: the     *)
(* answers, the words that belong to options, and the operands.            *)
Said(a, o, r) == [answers |-> a, opts |-> o, operands |-> r]
Plus(x, y) == Said(x.answers \o y.answers, x.opts \o y.opts, x.operands \o y.operands)

LetterArg(c) ==
  LET i == Min({j \in 1 .. Len(options) : options[j] = c /\ ~ (j = 1 /\ IGNORE_FIRST)})
  IN  IF Opt(i + 1) # ":" THEN "no" ELSE IF Opt(i + 2) = ":" THEN "optional" ELSE "required"
Known(c) == c # ":" /\ \E j \in 1 .. Len(options) : options[j] = c /\ ~ (j = 1 /\ IGNORE_FIRST)

RECURSIVE MeantCluster(_, _), Meant(_)
Before(a, more) == << <<a>> \o more[1], more[2]>>
(* <<answers, TRUE if the next word is taken>> *)
MeantCluster(s, next) ==
  IF s = <<>> THEN <<<<>>, FALSE>>
  ELSE LET c == s[1] r == Tail(s) arg == IF Known(c) THEN LetterArg(c) ELSE "no"
       IN  IF arg = "no" THEN Before(<<IF Known(c) THEN c ELSE "?", Nil>>, MeantCluster(r, next))
           ELSE IF r # <<>> THEN << <<<<c, r>>>>, FALSE>>
           ELSE IF arg = "optional" THEN << <<<<c, Nil>>>>, FALSE>>
           ELSE IF next = Nil THEN << <<<<BADARG, Nil>>>>, FALSE>> ELSE << <<<<c, next>>>>, TRUE>>

(* o: the long option named; eq: where s has its =, or 0 *)
MeantAs(o, s, eq, next) ==
  LET ans(a) == << <<IF o.flag THEN "0" ELSE o.val, a>> >>
  IN  CASE o.has_arg = "no" -> <<IF eq = 0 THEN ans(Nil) ELSE << <<BADARG, Nil>> >>, FALSE>>
        [] o.has_arg # "no" /\ eq # 0 -> <<ans(SubSeq(s, eq + 1, Len(s))), FALSE>>
        [] o.has_arg = "optional" /\ eq = 0 -> <<ans(Nil), FALSE>>
        [] o.has_arg = "required" /\ eq = 0 ->
             IF next = Nil THEN << << <<BADARG, Nil>> >>, FALSE>> ELSE <<ans(next), TRUE>>
MeantLong(s, next) ==
  LET eq == SelectInSeq(s, LAMBDA c : c = "=")
      i == Match(IF eq = 0 THEN s ELSE SubSeq(s, 1, eq - 1))
  IN  IF i < 1 THEN << << <<"?", Nil>> >>, FALSE>> ELSE MeantAs(GoLong[i], s, eq, next)
MeantOption(s, next) ==
  IF Len(s) > 2 /\ (s[2] = "-" \/ (s[2] = "W" /\ Known("W"))) THEN MeantLong(SubSeq(s, 3, Len(s)), next)
  ELSE MeantCluster(Tail(s), next)

(* ws goes on with the words of an option, of which r is what they mean *)
MeantFrom(ws, r) ==
  LET n == IF r[2] THEN 2 ELSE 1
  IN  Plus(Said(r[1], SubSeq(ws, 1, n), <<>>), Meant(SubSeq(ws, n + 1, Len(ws))))
Meant(ws) ==
  IF ws = <<>> THEN Said(<<>>, <<>>, <<>>)
  ELSE LET s == ws[1]
       IN  IF s = <<"-", "-">> THEN Said(<<>>, <<s>>, Tail(ws))
           ELSE IF ~ IsOperand(s) THEN MeantFrom(ws, MeantOption(s, IF Len(ws) > 1 THEN ws[2] ELSE Nil))
           ELSE IF ~ IN_ORDER /\ ~ PERMUTE THEN Said(<<>>, <<>>, ws)
           ELSE Plus(IF IN_ORDER THEN Said(<< <<"INORDER", s>> >>, <<s>>, <<>>) ELSE Said(<<>>, <<>>, <<s>>), Meant(Tail(ws)))

(* permute_args exchanges two neighbouring blocks whatever their lengths,  *)
(* gcd of the lengths 1 or more, and moves no other word: here all blocks  *)
(* in up to nine words, checked before the first command.                  *)
BlocksExchanged ==
  goargs = <<>> => \A e \in 3 .. 9 : \A b \in 2 .. e - 1 : \A a \in 1 .. b - 1 :
    LET v == [i \in 1 .. e |-> i]
    IN  permute_args(a, b, e, v) = SubSeq(v, 1, a - 1) \o SubSeq(v, b, e - 1) \o SubSeq(v, a, b - 1) \o <<e>>

(* However options and operands are mixed, and however often the program   *)
(* starts over: every option is reported once, in order and with its       *)
(* argument, and when the end is reported argv holds the words of the      *)
(* options and then, from optind on, the operands, each in their order     *)
(* ("keeping the same order of arguments in each block", getopt_long.c).   *)
(* Not claimed of getopt with a word that begins a long option: it takes   *)
(* that for the end, and goes on in the middle of it when called again.    *)
OptionsThenOperands ==
  \A said \in {Meant(goargs)} :
  LET n == Len(gotten) - (IF go.ret = "END" THEN 1 ELSE 0)
  IN  (gomode.long \/ \A i \in 1 .. Len(goargs) : IsPrefix(<<"-", "-">>, goargs[i]) => Len(goargs[i]) = 2) =>
      /\ SubSeq(gotten, 1, n) = SubSeq(said.answers, 1, n)
      /\ go.ret = "END" => /\ n = Len(said.answers) /\ go.argv = said.opts \o said.operands
                           /\ go.optind = Len(said.opts) + 1
=============================================================================
