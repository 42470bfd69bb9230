---------------------------------- MODULE Fts ------------------------------
(***************************************************************************)
(* src/fts.c: walking a file hierarchy.  The hierarchy is constant: a      *)
(* kind, a device, a target and children for every node; opening or        *)
(* entering a directory may fail.  The stack holds, per level, the entry   *)
(* the walk is at and its later siblings (fts_link); its last frame is     *)
(* fts_cur.  cwd is the process's directory, path what fts_path spells.    *)
(* Descriptors and memory are taken to suffice.                            *)
(***************************************************************************)
EXTENDS Integers, Sequences, SequencesExt

CONSTANTS FRoots, FStart,            \* fts_open's argv, and the directory it is called in
          FKind, FChildren, FTarget, FUp, FDev, FNlink,
          FOptions, FCalls           \* the option sets tried, bound on the calls between reads

VARIABLES fsp, fopt, fcwd, fcalls, fseen, fodd
(* the stream; options; directory; other calls; entries returned; "odd" if  *)
(* the caller or the system has interfered with the plain walk, "stale" if *)
(* FTS_AGAIN met a directory that was not entered, or was through a link   *)

ftsVars == <<fsp, fopt, fcwd, fcalls, fseen, fodd>>

ISSET(o) == o \in fopt
(* fts_accpath: the node it names (acc) and the directory it is good from  *)
Entry(n, dot, from) == [n |-> n, dot |-> dot, acc |-> n, from |-> from, ino |-> n, info |-> "INIT", instr |-> "NO",
                        err |-> FALSE, symf |-> FALSE, back |-> FStart, dontcd |-> FALSE]

fts_statFault(e, follow, anc, cwd) ==           \* fault: no cycle is noticed
  LET t == IF FKind[e.acc] = "link" /\ (ISSET("LOGICAL") \/ follow) THEN FTarget[e.acc] ELSE e.acc
  IN  IF ~ ISSET("NOCHDIR") /\ cwd # e.from THEN [e EXCEPT !.info = "NS", !.err = TRUE]
      ELSE IF t = 0 THEN [e EXCEPT !.info = "SLNONE"]
      ELSE IF FKind[t] = "dir" THEN [e EXCEPT !.ino = t, !.info = IF e.dot THEN "DOT" ELSE "D"]
      ELSE [e EXCEPT !.info = IF FKind[t] = "link" THEN "SL" ELSE "F"]
(* fts_stat, for an entry whose name is looked up from fts_accpath         *)
fts_stat(e, follow, anc, cwd) ==
  LET t == IF FKind[e.acc] = "link" /\ (ISSET("LOGICAL") \/ follow) THEN FTarget[e.acc] ELSE e.acc
  IN  IF ~ ISSET("NOCHDIR") /\ cwd # e.from THEN [e EXCEPT !.info = "NS", !.err = TRUE]
      ELSE IF t = 0 THEN [e EXCEPT !.info = "SLNONE"]
      ELSE IF FKind[t] = "dir"
      THEN [e EXCEPT !.ino = t, !.info = CASE e.dot -> "DOT"
                                           [] ~ e.dot /\ t \in anc -> "DC"
                                           [] OTHER -> "D"]
      ELSE [e EXCEPT !.info = IF FKind[t] = "link" THEN "SL" ELSE "F"]

Inos(stk) == {stk[i].e.ino : i \in DOMAIN stk}
Cur(S) == S.stk[Len(S.stk)].e
Level(S) == Len(S.stk) - 1                                  \* FTS_ROOTLEVEL is 0
SetCur(S, e) == [S EXCEPT !.stk[Len(S.stk)].e = e]

(* fts_sort: by the caller's comparison, here on the nodes, the last first *)
fts_sort(list) == IF ISSET("compar") THEN SortSeq(list, LAMBDA a, b : a.n > b.n) ELSE list

(* fts_open: the roots are looked at from the starting directory           *)
fts_open(opt) ==
  LET Root(n) == LET e == fts_stat(Entry(n, FALSE, FStart), ISSET("COMFOLLOW"), {}, FStart)
                 IN  IF e.info = "DOT" THEN [e EXCEPT !.info = "D"] ELSE e
  IN  fsp = [stk |-> << [e |-> Entry(FStart, FALSE, FStart),
                         link |-> fts_sort([i \in DOMAIN FRoots |-> Root(FRoots[i])])] >>,
             child |-> << >>, nameonly |-> FALSE, stop |-> FALSE, path |-> << >>, dev |-> 0, ended |-> FALSE]

FtsInit == /\ fopt \in {o \cup (IF "LOGICAL" \in o THEN {"NOCHDIR"} ELSE {}) : o \in FOptions}
           /\ fts_open(fopt) /\ fcwd = FStart /\ fcalls = 0 /\ fseen = << >> /\ fodd = {}

(* fts_safe_changedir to the directory e stands for, found as node `at`    *)
safe_changedir(e, at) == ISSET("NOCHDIR") \/ at = e.ino
Moved(cwd, to) == IF ISSET("NOCHDIR") THEN cwd ELSE to

(* fts_build, in the steps of the code: opendir may fail (~ od), entering  *)
(* the directory may fail (~ cd).  The result is the stream, the directory *)
(* and the list.                                                           *)
Names(d) == (IF ISSET("SEEDOT") THEN << <<d, TRUE>>, <<FUp[d], TRUE>> >> ELSE << >>)
            \o [i \in DOMAIN FChildren[d] |-> <<FChildren[d][i], FALSE>>]

RECURSIVE FScan(_, _, _, _, _, _, _)
FScan(names, cur, cwd, anc, nlinks, nostat, cderr) ==
  IF names = << >> THEN << >>
  ELSE LET n == names[1][1]
           e0 == Entry(n, names[1][2], cur.ino)
           e == IF cderr THEN [e0 EXCEPT !.info = IF nlinks # 0 THEN "NS" ELSE "NSOK", !.err = nlinks # 0,
                                         !.acc = cur.acc, !.from = cur.from]
                ELSE IF nlinks = 0 \/ (nostat /\ FKind[n] # "dir") THEN [e0 EXCEPT !.info = "NSOK"]
                ELSE fts_stat(e0, FALSE, anc, cwd)
       IN  <<e>> \o FScan(Tail(names), cur, cwd, anc,
                         IF nlinks > 0 /\ e.info \in {"D", "DC", "DOT"} THEN nlinks - 1 ELSE nlinks,
                         nostat, cderr)

Opened(e) == IF FKind[e.acc] = "link" THEN FTarget[e.acc] ELSE e.acc
CanOpen(e, cwd) == (ISSET("NOCHDIR") \/ cwd = e.from) /\ Opened(e) # 0 /\ FKind[Opened(e)] = "dir"

(* the way back from the directory that was read: by descriptor to where   *)
(* the roots are, else by ".." if that is the parent                       *)
GetBack(S, in, goback) ==
  LET root == Level(S) = 1
      stuck == goback /\ ~ root /\ ~ safe_changedir(S.stk[Len(S.stk) - 1].e, FUp[in])
  IN  [stuck |-> stuck, cwd |-> IF ~ goback \/ stuck THEN in ELSE Moved(in, IF root THEN FStart ELSE FUp[in])]

fts_build(S, cwd, type, may, cd) ==
  LET cur == Cur(S)
      d == Opened(cur)
      od == may /\ CanOpen(cur, cwd)
      cheat == ISSET("NOSTAT") /\ ISSET("PHYSICAL")
      nlinks == CASE type = "NAMES" -> 0
                  [] type # "NAMES" /\ cheat -> FNlink[d] - (IF ISSET("SEEDOT") THEN 0 ELSE 2)
                  [] OTHER -> -1
      enter == nlinks # 0 \/ type = "READ"
      descend == enter /\ (ISSET("NOCHDIR") \/ (cd /\ safe_changedir(cur, d)))
      cderr == enter /\ ~ descend
      in == IF descend THEN Moved(cwd, d) ELSE cwd
      e1 == IF cderr THEN [cur EXCEPT !.err = @ \/ (nlinks # 0 /\ type = "READ"), !.dontcd = TRUE] ELSE cur
      list == FScan(Names(d), cur, in, Inos(S.stk), nlinks, type = "NAMES" \/ cheat, cderr)
      back == GetBack(S, in, descend /\ (type = "CHILD" \/ list = << >>))
      stuck == back.stuck
  IN  CASE ~ od -> [s |-> SetCur(S, IF type = "READ" THEN [cur EXCEPT !.info = "DNR", !.err = TRUE] ELSE cur),
                    cwd |-> cwd, list |-> << >>]
        [] od /\ stuck -> [s |-> [SetCur(S, [e1 EXCEPT !.info = "ERR"]) EXCEPT !.stop = TRUE],
                           cwd |-> in, list |-> << >>]
        [] od /\ ~ stuck -> [s |-> SetCur(S, IF list = << >> /\ type = "READ" THEN [e1 EXCEPT !.info = "DP"] ELSE e1),
                             cwd |-> back.cwd, list |-> fts_sort(list)]

(* Following a symbolic link keeps the way back (fts_symfd)                *)
Follow(e, anc) == LET f == fts_stat(e, TRUE, anc, fcwd)
                  IN  IF f.info = "D" /\ ~ ISSET("NOCHDIR") THEN [f EXCEPT !.symf = TRUE, !.back = fcwd] ELSE f

(* fts_read returns: the new stream, the directory, the entry returned     *)
Ret(S, cwd) == fsp' = S /\ fcwd' = cwd /\ fseen' = Append(fseen, <<S.path, Cur(S).info>>)
Stop(S, cwd) == fsp' = [S EXCEPT !.stop = TRUE] /\ fcwd' = cwd /\ UNCHANGED fseen

(* label "name": fts_path gets the entry's name behind its parent's        *)
Name(S, up) == [S EXCEPT !.path = Append(SubSeq(@, 1, up), Cur(S).n)]

PreOrder(S, p, skip) ==
  \/ /\ skip \/ (ISSET("XDEV") /\ FDev[p.ino] # S.dev)
     /\ Ret([SetCur(S, [p EXCEPT !.info = "DP"]) EXCEPT !.child = << >>], fcwd)
     /\ fodd' = fodd \cup {"odd"}
  \/ /\ ~ skip /\ ~ (ISSET("XDEV") /\ FDev[p.ino] # S.dev)
     /\ LET S1 == IF S.nameonly THEN [S EXCEPT !.nameonly = FALSE, !.child = << >>] ELSE S
            Down(S2, list, cwd) == Ret(Name([S2 EXCEPT !.child = << >>,
              !.stk = Append(@, [e |-> list[1], link |-> Tail(list)])], Level(S2)), cwd)
        IN  \E od, cd \in BOOLEAN :
              /\ fodd' = IF od /\ cd THEN fodd ELSE fodd \cup {"odd"}
              /\ IF S1.child # << >>
                 THEN /\ od
                      /\ IF ISSET("NOCHDIR") \/ (cd /\ CanOpen(p, fcwd) /\ Opened(p) = p.ino) THEN Down(S1, S1.child, Moved(fcwd, p.ino))
                         ELSE Down(SetCur(S1, [p EXCEPT !.err = TRUE, !.dontcd = TRUE]),
                                   [i \in DOMAIN S1.child |-> [S1.child[i] EXCEPT !.acc = p.acc, !.from = p.from]], fcwd)
                 ELSE LET b == fts_build(S1, fcwd, "READ", od, cd)
                      IN  IF b.s.stop THEN Stop(b.s, b.cwd)
                          ELSE IF b.list = << >> THEN Ret(b.s, b.cwd)
                          ELSE Down(b.s, b.list, b.cwd)

fts_load(S) == [S EXCEPT !.path = <<Cur(S).n>>, !.dev = FDev[Cur(S).ino]]

RECURSIVE SkipSkipped(_)
SkipSkipped(l) == IF l # << >> /\ l[1].instr = "SKIP" THEN SkipSkipped(Tail(l)) ELSE l

(* label "next": a sibling, the next root, or up to the parent             *)
UpFault(S) == FUp[fcwd]                              \* fault: also through a followed link
Up(S) == IF Cur(S).symf THEN Cur(S).back ELSE IF Cur(S).dontcd THEN fcwd ELSE FUp[fcwd]
NextNode(S) ==
  LET top == S.stk[Len(S.stk)]
      atRoot == Len(S.stk) <= 2
      l == IF atRoot THEN top.link ELSE SkipSkipped(top.link)
      below == IF top.e.info = "INIT" THEN S.stk ELSE SubSeq(S.stk, 1, Len(S.stk) - 1)
  IN  IF l # << >>
      THEN LET e == IF ~ atRoot /\ l[1].instr = "FOLLOW"
                    THEN [Follow(l[1], Inos(below)) EXCEPT !.instr = "NO"] ELSE l[1]
               S1 == [S EXCEPT !.stk = Append(below, [e |-> e, link |-> Tail(l)])]
           IN  IF atRoot THEN Ret(fts_load(S1), Moved(fcwd, FStart)) ELSE Ret(Name(S1, Level(S1) - 1), fcwd)
      ELSE IF atRoot
      THEN fsp' = [S EXCEPT !.ended = TRUE, !.stk = SubSeq(@, 1, 1)] /\ UNCHANGED <<fcwd, fseen>>
      ELSE LET S1 == [S EXCEPT !.stk = below, !.path = SubSeq(@, 1, Len(below) - 1)]
               p == Cur(S1)
               post == SetCur(S1, [p EXCEPT !.info = IF p.err THEN "ERR" ELSE "DP"])
           IN  IF Level(S1) = 1 THEN Ret(post, Moved(fcwd, FStart))
               ELSE IF p.symf \/ p.dontcd \/ safe_changedir(below[Len(below) - 1].e, FUp[fcwd])
               THEN Ret(post, Moved(fcwd, Up(S1)))
               ELSE Stop(S1, fcwd)

fts_read ==
  LET p == Cur(fsp)
      S == SetCur(fsp, [p EXCEPT !.instr = "NO"])
      q == Cur(S)
      anc == Inos(SubSeq(S.stk, 1, Len(S.stk) - 1))
  IN  /\ ~ fsp.ended /\ ~ fsp.stop /\ UNCHANGED fopt
      /\ \/ p.instr = "AGAIN" /\ Ret(SetCur(S, fts_stat(q, FALSE, anc, fcwd)), fcwd)
            /\ fodd' = fodd \cup {"odd"} \cup (IF p.dontcd \/ p.symf THEN {"stale"} ELSE {})
         \/ p.instr = "FOLLOW" /\ p.info \in {"SL", "SLNONE"} /\ Ret(SetCur(S, Follow(q, anc)), fcwd) /\ UNCHANGED fodd
         \/ /\ p.instr # "AGAIN" /\ ~ (p.instr = "FOLLOW" /\ p.info \in {"SL", "SLNONE"})
            /\ IF p.info = "D" THEN PreOrder(S, q, p.instr = "SKIP") ELSE NextNode(S) /\ UNCHANGED fodd

(* fts_set on the current entry or on one of its children                  *)
Visiting == Len(fsp.stk) > 1 /\ ~ fsp.stop /\ ~ fsp.ended
fts_set(i, instr) ==
  /\ Visiting /\ i <= Len(fsp.child)
  /\ fsp' = IF i = 0 THEN SetCur(fsp, [Cur(fsp) EXCEPT !.instr = instr])
            ELSE [fsp EXCEPT !.child[i].instr = instr]
  /\ fodd' = fodd \cup (IF instr = "SKIP" THEN {"odd"} ELSE {}) /\ UNCHANGED <<fopt, fcwd, fseen>>

(* fts_children; at a root it goes back to where it was called             *)
fts_children(type) ==
  /\ Visiting /\ Cur(fsp).info = "D"
  /\ LET b == fts_build([fsp EXCEPT !.nameonly = @ \/ type = "NAMES"], fcwd, type, TRUE, TRUE)
     IN  /\ fsp' = [b.s EXCEPT !.child = b.list]
         /\ fcwd' = IF Level(fsp) = 1 THEN fcwd ELSE b.cwd
  /\ UNCHANGED <<fopt, fseen, fodd>>

fts_close == /\ ~ fsp.ended /\ fsp' = [fsp EXCEPT !.ended = TRUE, !.stop = TRUE, !.stk = SubSeq(@, 1, 1)]
             /\ fcwd' = Moved(fcwd, FStart) /\ UNCHANGED <<fopt, fseen, fodd>>

FtsNext ==
  \/ fts_read /\ UNCHANGED fcalls
  \/ /\ fcalls < FCalls /\ fcalls' = fcalls + 1
     /\ \/ fts_close
        \/ \E t \in {"CHILD", "NAMES"} : fts_children(t)
        \/ \E i \in 0 .. 1, x \in {"SKIP", "FOLLOW", "AGAIN"} : fts_set(i, x)
-----------------------------------------------------------------------------
(* The entry returned can be reached as fts_accpath says from the current  *)
(* directory, and fts_path spells the way to it; after the walk the        *)
(* process is back in the directory where it began.  Excepted: a directory *)
(* that could not be entered, whose children are reported as not stat'ed,  *)
(* and FTS_AGAIN on such a directory or a followed link, whose flags stay. *)
AccessPath ==
  /\ (Visiting /\ "stale" \notin fodd) => /\ fsp.path = [i \in 1 .. Len(fsp.stk) - 1 |-> fsp.stk[i + 1].e.n]
                 /\ (ISSET("NOCHDIR") \/ fcwd = Cur(fsp).from)
  /\ (fsp.ended => fcwd = FStart)

(* No walk enters a directory inside itself; one that is left alone visits *)
(* each entry once, and a directory once more after all that is under it;  *)
(* at the end every node under the roots has been seen.                    *)
RECURSIVE Under(_)
Under(p) == LET n == p[Len(p)]
                t == IF FKind[n] = "link" /\ ISSET("LOGICAL") /\ FTarget[n] # 0 THEN FTarget[n] ELSE n
                up == {IF FKind[p[i]] = "link" THEN FTarget[p[i]] ELSE p[i] : i \in 1 .. Len(p) - 1}
            IN  {p} \cup IF FKind[t] # "dir" \/ t \in up \/ (ISSET("XDEV") /\ FDev[t] # FDev[p[1]]) THEN {}
                         ELSE UNION {Under(Append(p, FChildren[t][i])) : i \in DOMAIN FChildren[t]}
VisitsAllOnce ==
  /\ \A i, j \in DOMAIN fsp.stk : i < j /\ fsp.stk[j].e.info = "D" => fsp.stk[i].e.ino # fsp.stk[j].e.ino
  /\ fodd = {} =>
       /\ \A i, j \in DOMAIN fseen : (i < j /\ fseen[i][1] = fseen[j][1]) =>
            /\ fseen[j][2] \in {"DP", "D", "DC"} /\ fseen[i][2] \in {"D", "SL", "SLNONE"}
            /\ \A k \in i + 1 .. j - 1 : IsPrefix(fseen[i][1], fseen[k][1])
       /\ (fsp.ended /\ ~ fsp.stop /\ ~ ISSET("SEEDOT")) =>
            \A r \in DOMAIN FRoots : \A p \in Under(<<FRoots[r]>>) : \E i \in DOMAIN fseen : fseen[i][1] = p
=============================================================================
