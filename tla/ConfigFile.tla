------------------------------ MODULE ConfigFile ----------------------------
(***************************************************************************)
(* src/configfile.c: a tree of sections from an indented text, and the     *)
(* lookups in it; src/freadline.c, which reads lines the same way.  The    *)
(* text ftext takes every sequence of up to CfMax of the lines CfLines.    *)
(***************************************************************************)
EXTENDS Strings

CONSTANTS CfLines, CfMax

VARIABLES ftext, flines        \* the characters of the file, how many lines went into it

cfVars == <<ftext, flines>>
CfInit == ftext = << >> /\ flines = 0
CfNext == flines < CfMax /\ flines' = flines + 1 /\ \E l \in CfLines : ftext' = ftext \o l

TABSZ == 4
(* the column of the first character that is no blank, and its place       *)
cols(g) == LET P == {i \in DOMAIN g : g[i] \notin {" ", "\t"}}
               i == IF P = {} THEN Len(g) + 1 ELSE Min(P)
           IN  [i |-> i, c |-> FoldLeft(LAMBDA c, x : IF x = " " THEN c + 1 ELSE (c \div TABSZ + 1) * TABSZ,
                                        0, SubSeq(g, 1, i - 1))]

(* a line, what follows it, and whether there was one                      *)
readline(f) ==
  LET e == Strchr(f, {"\r", "\n"})
      n == IF f[e] = "\r" /\ e < Len(f) /\ f[e + 1] = "\n" THEN e + 2 ELSE e + 1
  IN  IF e = 0 THEN [g |-> f, rest |-> << >>, more |-> f # << >>]
      ELSE [g |-> SubSeq(f, 1, e - 1), rest |-> From(f, n), more |-> TRUE]

LineRead(ret, str, rest, past) == [ret |-> ret, str |-> str, rest |-> rest, past |-> past]
freadlineFault(f, n) ==          \* fault: takes CR LF for two breaks
  LET r == readline(f) IN
  IF Len(r.g) > n THEN LineRead(ENOSPC, SubSeq(r.g, 1, n), From(f, n + 2), FALSE)
  ELSE IF Strchr(f, {"\r", "\n"}) = 0 THEN LineRead(0, << >>, << >>, FALSE)
  ELSE LineRead(Len(r.g), r.g, From(f, Len(r.g) + 2), Len(r.g) = n)
(* into a buffer of n: the end of the file, or an error that looks like it,*)
(* hides a line without a break; past: the terminator is put at str[n]     *)
freadline(f, n) ==
  LET r == readline(f) IN
  IF Len(r.g) > n THEN LineRead(ENOSPC, SubSeq(r.g, 1, n), From(f, n + 2), FALSE)
  ELSE IF Strchr(f, {"\r", "\n"}) = 0 THEN LineRead(0, << >>, << >>, FALSE)
  ELSE LineRead(Len(r.g), r.g, r.rest, Len(r.g) = n)

(* P: the tree as a sequence of sections with their entries and subtrees,  *)
(* and the variables of parse; prev is 0 for an entry, dead: error() exits *)
Section(name, col) == [name |-> name, col |-> col, values |-> << >>, subtree |-> << >>]
ParseInit == [nodes |-> <<Section(<<"R">>, -1)>>, st |-> << >>, top |-> 1, prev |-> 1, prevcol |-> 0,
              l |-> << >>, dead |-> FALSE]

(* key and value at the first = or else the first blank; "1" for no value  *)
keyval(s) == LET e == IF Strchr(s, {"="}) > 0 THEN Strchr(s, {"="}) ELSE Strchr(s, {" "})
             IN  IF e = 0 THEN <<strtrim(s), <<"1">> >>
                 ELSE <<strtrim(SubSeq(s, 1, e - 1)), strtrim(From(s, e + 1))>>
(* defined nowhere in the repository: taken for a copy                     *)
gstr_init2(g) == g
newnode(P, g, col) ==
  LET t == strtrim(g)
      new == Len(P.nodes) + 1
  IN  IF t # << >> /\ Last(t) = ":"
      THEN [P EXCEPT !.nodes = Append([@ EXCEPT ![P.top].subtree = Append(@, new)], Section(gstr_init2(Front(t)), col)),
                     !.prev = new, !.prevcol = col, !.l = << >>]
      ELSE [P EXCEPT !.nodes[P.top].values = Append(@, keyval(t)), !.prev = 0, !.prevcol = col, !.l = << >>]

(* back to the innermost section on the stack that starts left of c        *)
DedentFault(P, c) == LET J == {j \in DOMAIN P.st : P.nodes[P.st[j]].col <= c}    \* fault: or at c
                     IN  IF J = {} THEN [P EXCEPT !.dead = TRUE]
                         ELSE [P EXCEPT !.top = P.st[Max(J)], !.st = SubSeq(@, 1, Max(J) - 1)]
Dedent(P, c) == LET J == {j \in DOMAIN P.st : P.nodes[P.st[j]].col < c}
                IN  IF J = {} THEN [P EXCEPT !.dead = TRUE]
                    ELSE [P EXCEPT !.top = P.st[Max(J)], !.st = SubSeq(@, 1, Max(J) - 1)]
Indent(P) == IF P.prev = 0 THEN [P EXCEPT !.dead = TRUE]
             ELSE [P EXCEPT !.st = Append(@, P.top), !.top = P.prev]
AtColumn(P, c) == IF c > P.prevcol THEN Indent(P) ELSE IF c < P.prevcol THEN Dedent(P, c) ELSE P
Placed(Q, l, c) == IF Q.dead THEN Q ELSE newnode(Q, l, c)
LogicalLine(P, l, k) == IF k.i <= Len(l) /\ l[k.i] = "#" THEN [P EXCEPT !.l = << >>] ELSE Placed(AtColumn(P, k.c), l, k.c)
ParseLine(P, g) ==
  IF g = << >> THEN P
  ELSE IF Last(g) = "\\" THEN [P EXCEPT !.l = @ \o Front(g)]
  ELSE LogicalLine(P, P.l \o g, cols(P.l \o g))
RECURSIVE parse(_, _)
parse(P, f) == LET r == readline(f) IN IF ~ r.more \/ P.dead THEN P ELSE parse(ParseLine(P, r.g), r.rest)
(* fopen's failure and a bad indentation end the process                   *)
config_open(f) == parse(ParseInit, f)

(* xfree: every entry of the tree below n, and the sections it frees       *)
RECURSIVE xfree(_, _)
xfree(nodes, n) == UNION {{c} \cup xfree(nodes, c) : c \in Range(nodes[n].subtree)}
config_close(P) == xfree(P.nodes, 1) \cup {1}

-----------------------------------------------------------------------------
(* lookups: 0 is no node                                                   *)
NoEntry == <<"none">>
find_subtree(nodes, n, name) ==
  LET C == SelectSeq(nodes[n].subtree, LAMBDA c : nodes[c].name = name) IN IF C = << >> THEN 0 ELSE C[1]
find(nodes, start, p) == FoldLeft(LAMBDA n, name : IF n = 0 THEN 0 ELSE find_subtree(nodes, n, name), start, p)
Walked(nodes, start, r) == IF r.ret <= 0 THEN 0 ELSE find(nodes, start, r.arr)
walk(nodes, start, path) == Walked(nodes, start, strsplit_quick(32, path, {"/"}, TRUE))
Relative(path) == IF path # << >> /\ path[1] = "/" THEN Tail(path) ELSE path
config_get_section(nodes, path) == IF path = <<"/">> THEN 1 ELSE walk(nodes, 1, Relative(path))
config_get_subsection(nodes, start, path) == walk(nodes, start, Relative(path))
FirstOf(nodes, n, key) ==
  LET V == SelectSeq(nodes[n].values, LAMBDA kv : kv[1] = key)
  IN  IF n = 0 \/ V = << >> THEN NoEntry ELSE V[1][2]
LeafOf(nodes, start, r) ==
  IF r.ret <= 0 THEN NoEntry ELSE FirstOf(nodes, find(nodes, start, Front(r.arr)), Last(r.arr))
find_leaf(nodes, start, path) == LeafOf(nodes, start, strsplit_quick(32, path, {"/"}, TRUE))
config_section_get_entry(nodes, start, path) ==
  IF Relative(path) = << >> THEN NoEntry ELSE find_leaf(nodes, start, Relative(path))
config_get_entry(nodes, path) == find_leaf(nodes, 1, path)
config_parse_bool(s) == \E t \in {<<"o", "n">>, <<"t", "r", "u", "e">>, <<"1">>} : strcasecmp(s, t) = 0

-----------------------------------------------------------------------------
(* The text said again without the parser: lines at the breaks, joined at  *)
(* backslashes, without the empty ones and the comments.                   *)
RECURSIVE Broken(_, _)
Broken(f, l) ==
  IF f = << >> THEN (IF l = << >> THEN << >> ELSE <<l>>)
  ELSE IF f[1] = "\n" THEN <<l>> \o Broken(Tail(f), << >>)
  ELSE IF f[1] = "\r" THEN <<l>> \o Broken(From(f, IF Len(f) > 1 /\ f[2] = "\n" THEN 3 ELSE 2), << >>)
  ELSE Broken(Tail(f), Append(l, f[1]))
Comment(g, k) == k.i <= Len(g) /\ g[k.i] = "#"
Whole == LET B == NonEmpty(Broken(ftext, << >>))
             join == FoldLeft(LAMBDA S, g : IF Last(g) = "\\" THEN [S EXCEPT !.l = @ \o Front(g)]
                                            ELSE [out |-> Append(S.out, S.l \o g), l |-> << >>],
                              [out |-> << >>, l |-> << >>], B)
         IN  SelectSeq(join.out, LAMBDA g : ~ Comment(g, cols(g)))
Col(g, i) == cols(g[i]).c
IsSection(g, i) == LET t == strtrim(g[i]) IN t # << >> /\ Last(t) = ":"
(* the nearest line above that starts further left, 0 for the root         *)
MaxOr0(J) == IF J = {} THEN 0 ELSE Max(J)
Above(g, i) == MaxOr0({j \in 1 .. i - 1 : Col(g, j) < Col(g, i)})
WellNested(g) == \A i \in DOMAIN g, a \in {[k \in DOMAIN g |-> Above(g, k)]} :
  /\ a[i] = 0 \/ IsSection(g, a[i])
  /\ \A j \in 1 .. i - 1 : a[j] = a[i] => Col(g, j) = Col(g, i)
RECURSIVE PathTo(_, _)
PathTo(g, i) == IF i = 0 THEN << >> ELSE PathTo(g, Above(g, i)) \o <<Front(strtrim(g[i]))>>
Twins(g) == \E i, j \in DOMAIN g : i < j /\ Above(g, i) = Above(g, j) /\ strtrim(g[i]) = strtrim(g[j])
                                   /\ IsSection(g, i)
Slashed(p) == FlattenSeq([i \in DOMAIN p |-> <<"/">> \o p[i]])

SectionFound(nodes, path) == config_get_section(nodes, path) # 0 /\ config_get_section(nodes, <<"/">>) = 1
EntryFound(nodes, p, key, val) ==
  /\ config_section_get_entry(nodes, 1, p \o <<"/">> \o key) = val
  /\ config_get_entry(nodes, Tail(p \o <<"/">> \o key)) = val
  /\ p # << >> => config_section_get_entry(nodes, config_get_subsection(nodes, 1, p), key) = val
(* i is the first entry of its section with its key                        *)
FirstEntry(g, i, key) == \A j \in 1 .. i - 1 : ~ IsSection(g, j) /\ Above(g, j) = Above(g, i) => keyval(strtrim(g[j]))[1] # key

(* A text whose lines are indented under a section, siblings alike, is     *)
(* accepted by parse (configfile.c), each section and entry lands under    *)
(* the nearest line above that starts further left, and the lookups find   *)
(* each by its path; config_close frees every section.                     *)
FoundByPath == \A g \in {Whole} : WellNested(g) => \A P \in {config_open(ftext)} :
  /\ ~ P.dead
  /\ config_close(P) = DOMAIN P.nodes
  /\ ~ Twins(g) => \A i \in DOMAIN g :
       IF IsSection(g, i) THEN SectionFound(P.nodes, Slashed(PathTo(g, i)))
       ELSE \A kv \in {keyval(strtrim(g[i]))} :
              kv[1] # << >> /\ FirstEntry(g, i, kv[1]) => EntryFound(P.nodes, Slashed(PathTo(g, Above(g, i))), kv[1], kv[2])

(* freadline (freadline.c) gives the lines of the text that end in a break *)
(* one after the other, whatever the break is, into a buffer that is large *)
(* enough.  One more character than the line is: in a smaller buffer the   *)
(* line is refused, but in one of just its length the terminator goes      *)
(* behind the end, where strutils.h:169 promises -ENOSPC.  An empty line   *)
(* returns 0, which strutils.h:168 gives for the end of the file.          *)
RECURSIVE AllLines(_, _)
AllLines(f, n) == LET r == freadline(f, n)
                  IN  IF r.ret < 0 \/ r.past \/ Strchr(f, {"\r", "\n"}) = 0 THEN << >>
                      ELSE <<r.str>> \o AllLines(r.rest, n)
LinesRead == LET B == Broken(ftext, << >>)
                 open == ftext # << >> /\ Last(ftext) \notin {"\r", "\n"}
             IN  /\ AllLines(ftext, Len(ftext)) = IF open THEN Front(B) ELSE B
                 /\ IsPrefix(AllLines(ftext, 2), B)
                 /\ B # << >> => \A n \in 0 .. Len(B[1]) : LET r == freadline(ftext, n) IN
                      /\ (r.ret = ENOSPC) = (n < Len(B[1]))
                      /\ r.past = (n = Len(B[1]) /\ (Len(B) > 1 \/ ~ open))

(* "Get a leaf node by traversing a path that looks like "/a/b/c""         *)
(* (configfile.c:433): an entry at the root is found by its absolute path. *)
AbsolutePathFinds ==
  LET P == config_open(ftext)
      V == P.nodes[1].values
  IN  \A i \in DOMAIN V : V[i][1] # << >> => config_get_entry(P.nodes, <<"/">> \o V[i][1]) # NoEntry
=============================================================================
