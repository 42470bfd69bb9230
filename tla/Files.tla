-------------------------------- MODULE Files -------------------------------
(***************************************************************************)
(* Rotated files, directory paths, globbing. Each section has its own      *)
(* state.                                                                  *)
(***************************************************************************)
EXTENDS Integers, Sequences, SequencesExt, FiniteSets
-----------------------------------------------------------------------------
(***************************************************************************)
(* src/rotatefile.c, call by call, with system calls that fail and a       *)
(* process that may die between any two of them; src/mkdirhier.c, in       *)
(* several processes at once.  A copy of the rotated file is its version number; 0 is no     *)
(* file, and -1 something that is not a regular file.                      *)
(***************************************************************************)

CONSTANTS RSaved,        \* the values of nsaved
          RExtra,        \* how many older files delete_old looks for
          RVersions,     \* bound on the versions written
          MProcs, MPaths, MPATH_MAX    \* processes, the paths [parts, slash] they make, the longest

VARIABLES rbase, rnum,                \* the file and its copies name.0, name.1, ...
          rnext, rsaved, rpc, ri, rret,
          rkept,                      \* history: copies that this rotation failed to unlink
          mdirs, mfiles, mst          \* directories and other files; the processes

rotVars == <<rbase, rnum, rnext, rsaved, rpc, ri, rret, rkept>>
mkVars == <<mdirs, mfiles, mst>>
RTop == 3 + RExtra
RSet(pc, i) == rpc' = pc /\ ri' = i

(* copies of an earlier time with a larger nsaved may be there, also more  *)
(* than delete_old looks for                                               *)
RotInit == /\ rsaved = 0 /\ rbase = 0 /\ rnum = [i \in 0 .. RTop |-> 0] /\ rnext = 1
           /\ rpc = "off" /\ ri = 0 /\ rret = "none" /\ rkept = {}
RotSetup == /\ rpc = "off" /\ rpc' = "idle" /\ rsaved' \in RSaved
            /\ \E n \in 0 .. RTop + 1 :
                 /\ rnum' = [i \in 0 .. RTop |-> IF i < n THEN n - i ELSE 0]
                 /\ rnext' = n + 1
            /\ UNCHANGED <<rbase, ri, rret, rkept>>
(* the program that owns the file writes a new one                         *)
WriteFile == /\ rpc = "idle" /\ rbase = 0 /\ rnext <= RVersions
             /\ rbase' \in {rnext, -1} /\ rnext' = IF rbase' = -1 THEN rnext ELSE rnext + 1
             /\ UNCHANGED <<rnum, rsaved, rpc, ri, rret, rkept>>
RemoveOdd == /\ rpc = "idle" /\ rbase = -1 /\ rbase' = 0
             /\ UNCHANGED <<rnum, rnext, rsaved, rpc, ri, rret, rkept>>

rotate_filename == /\ rpc = "idle" /\ RSet("delete", rsaved) /\ rret' = "none" /\ rkept' = {}
                   /\ UNCHANGED <<rbase, rnum, rnext, rsaved>>
(* the size is looked at first: a file that is missing or small is left,   *)
(* and one that cannot be looked at is an error                            *)
rotate_filename_by_size ==
  \/ /\ rpc = "idle" /\ UNCHANGED <<rpc, ri, rkept, rbase, rnum, rnext, rsaved>>
     /\ rret' \in {"errno"} \cup (IF rbase = -1 THEN {"EINVAL"} ELSE {"left"})
  \/ rbase > 0 /\ rotate_filename

(* the result of unlink is not looked at                                   *)
delete_old == /\ rpc = "delete"
              /\ IF ri < rsaved + RExtra
                 THEN /\ RSet("delete", ri + 1)
                      /\ \/ rnum' = [rnum EXCEPT ![ri] = 0] /\ UNCHANGED rkept
                         \/ rnum[ri] > 0 /\ rkept' = rkept \cup {ri} /\ UNCHANGED rnum
                 ELSE RSet("loop", rsaved - 1) /\ UNCHANGED <<rnum, rkept>>
              /\ UNCHANGED <<rbase, rnext, rsaved, rret>>
(* while (--nsaved > 0): is there an i-1 to move to i?                     *)
ShiftLook == /\ rpc = "loop"
             /\ IF ri <= 0 THEN RSet("base", 0)
                ELSE IF rnum[ri - 1] > 0 THEN RSet("rename", ri) ELSE RSet("loop", ri - 1)
             /\ UNCHANGED <<rbase, rnum, rnext, rsaved, rret, rkept>>
ShiftFault == /\ rpc = "rename"                                   \* fault: the copy stays where it was
              /\ rnum' = [rnum EXCEPT ![ri] = rnum[ri - 1]] /\ RSet("loop", ri - 1)
              /\ UNCHANGED <<rbase, rnext, rsaved, rret, rkept>>
Shift == /\ rpc = "rename"
         /\ rnum' = [rnum EXCEPT ![ri] = rnum[ri - 1], ![ri - 1] = 0] /\ RSet("loop", ri - 1)
         /\ UNCHANGED <<rbase, rnext, rsaved, rret, rkept>>
exists == /\ rpc = "base"                                         \* __exists of the file itself
          /\ IF rbase > 0 THEN rpc' = "last" /\ UNCHANGED rret
             ELSE rpc' = "idle" /\ rret' = (IF rbase = 0 THEN "0" ELSE "EINVAL")
          /\ UNCHANGED <<rbase, rnum, rnext, rsaved, ri, rkept>>
MoveBase == /\ rpc = "last" /\ rnum' = [rnum EXCEPT ![0] = rbase] /\ rbase' = 0
            /\ rpc' = "idle" /\ rret' = "0"
            /\ UNCHANGED <<rnext, rsaved, ri, rkept>>
(* a rename or a stat fails and the call returns; or the process dies      *)
RenameFails == /\ rpc \in {"rename", "last", "loop", "base"} /\ rpc' = "idle" /\ rret' = "errno"
               /\ UNCHANGED <<rbase, rnum, rnext, rsaved, ri, rkept>>
RDies == /\ rpc \notin {"off", "idle"} /\ rpc' = "idle" /\ rret' = "died"
         /\ UNCHANGED <<rbase, rnum, rnext, rsaved, ri, rkept>>
RotNext == \/ RotSetup \/ WriteFile \/ RemoveOdd \/ rotate_filename \/ rotate_filename_by_size \/ delete_old
           \/ ShiftLook \/ Shift \/ exists \/ MoveBase \/ RenameFails \/ RDies

(* A copy is lost only when no older one is left among the saved ones,     *)
(* copies get older as their numbers grow, and none is there twice, at     *)
(* every point of a rotation that fails or dies and is tried again         *)
(* (rotatefile.c).  After a whole rotation the newest copy is there, and   *)
(* beyond the nsaved that the header promises (rotatefile.h:28) only such  *)
(* copies as could not be unlinked, as have numbers that delete_old does   *)
(* not come to, and, for nsaved = 0, the one just made.                    *)
NewestKept ==
  /\ \A i, j \in 0 .. RTop : i < j /\ rnum[j] > 0 => rnum[i] = 0 \/ rnum[i] > rnum[j]
  /\ \A v \in 1 .. rnext - 1 : (rbase # v /\ \A i \in 0 .. RTop : rnum[i] # v) =>
       \A j \in 0 .. rsaved - 1 : rnum[j] = 0 \/ rnum[j] > v
  /\ rret = "0" => \A j \in rsaved .. rsaved + RExtra - 1 : rnum[j] = 0 \/ j \in rkept \/ rsaved + j = 0
  /\ rret = "0" /\ rpc = "idle" /\ rbase = 0 /\ rnext > 1 /\ rsaved > 0 =>
       \E i \in 0 .. RTop : rnum[i] = rnext - 1

-----------------------------------------------------------------------------
(* mkdirhier: the directories above a path are made one by one; a slash at *)
(* the end makes the path itself one of them                               *)
PartsAbove(p, i) == SubSeq(p.parts, 1, i)
Levels(p) == Len(p.parts) - (IF p.slash THEN 0 ELSE 1)
MkInit == mdirs = {<< >>} /\ mfiles = {<<"a">>}
          /\ mst = [x \in MProcs |-> [pc |-> "idle", path |-> << >>, i |-> 0, ret |-> "none", blind |-> FALSE]]
MRet(x, r) == mst' = [mst EXCEPT ![x].pc = "done", ![x].ret = r]
MkStart(x) == /\ mst[x].pc = "idle"
              /\ \E p \in MPaths : mst' = [mst EXCEPT ![x].pc = "stat", ![x].path = p]
              /\ UNCHANGED <<mdirs, mfiles>>
(* the whole path is there already, or is too long; a stat that fails for  *)
(* some other reason counts as a path that is not there                    *)
MkWhole(x) == LET p == mst[x].path IN
  /\ mst[x].pc = "stat"
  /\ \E blind \in BOOLEAN :
       IF p.parts \in mdirs /\ ~ blind THEN MRet(x, "0")
       ELSE IF Len(p.parts) >= MPATH_MAX THEN MRet(x, "ENAMETOOLONG")
       ELSE mst' = [mst EXCEPT ![x].pc = "above", ![x].i = 1, ![x].blind = blind]
  /\ UNCHANGED <<mdirs, mfiles>>
MkAboveFault(x) == LET p == mst[x].path IN                          \* fault: another's directory is an error
  /\ mst[x].pc = "above"
  /\ IF mst[x].i > Levels(p) THEN mst' = [mst EXCEPT ![x].pc = "last"]
     ELSE IF PartsAbove(p, mst[x].i) \in mdirs \cup mfiles THEN MRet(x, "ENOTDIR")
     ELSE mst' = [mst EXCEPT ![x].pc = "make"]
  /\ UNCHANGED <<mdirs, mfiles>>
MkAbove(x) == LET p == mst[x].path IN
  /\ mst[x].pc = "above"
  /\ IF mst[x].i > Levels(p) THEN mst' = [mst EXCEPT ![x].pc = "last"]
     ELSE IF PartsAbove(p, mst[x].i) \in mfiles THEN MRet(x, "ENOTDIR")
     ELSE IF PartsAbove(p, mst[x].i) \in mdirs THEN mst' = [mst EXCEPT ![x].i = @ + 1]
     ELSE mst' = [mst EXCEPT ![x].pc = "make"]
  /\ UNCHANGED <<mdirs, mfiles>>
(* a stat or a mkdir that fails for a reason of its own: EACCES, ENOSPC... *)
MkFails(x) == /\ \/ mst[x].pc = "above" /\ mst[x].i <= Levels(mst[x].path)
                 \/ mst[x].pc \in {"make", "last"}
              /\ MRet(x, "errno") /\ UNCHANGED <<mdirs, mfiles>>
(* mkdir(2): of something that is there, or below something that is not    *)
Mkdir(x, d, then) ==
  IF d \in mdirs \cup mfiles THEN MRet(x, "EEXIST") /\ UNCHANGED mdirs
  ELSE IF Front(d) \notin mdirs THEN MRet(x, "ENOENT") /\ UNCHANGED mdirs
  ELSE mdirs' = mdirs \cup {d} /\ mst' = then
MkMake(x) == LET d == PartsAbove(mst[x].path, mst[x].i) IN
  /\ mst[x].pc = "make"
  /\ Mkdir(x, d, [mst EXCEPT ![x].pc = "above", ![x].i = @ + 1])
  /\ UNCHANGED mfiles
MkLast(x) == /\ mst[x].pc = "last"
             /\ Mkdir(x, mst[x].path.parts, [mst EXCEPT ![x].pc = "done", ![x].ret = "0"])
             /\ UNCHANGED mfiles
mkdirhier(x) == MkWhole(x) \/ MkAbove(x) \/ MkMake(x) \/ MkLast(x) \/ MkFails(x)
MkNext == \E x \in MProcs : MkStart(x) \/ mkdirhier(x)

(* mkdirhier that returns 0 has made the directory, whatever the others do;*)
(* all that was made is reachable from the top.  One that fails found a    *)
(* file in the way, a path too long or a system call that failed.  Unlike  *)
(* mkdir -p, which mkdirhier.h:3 likens it to, it also fails with EEXIST   *)
(* over a directory that is there: exactly when another process made it in *)
(* between, its own path ends in a slash, or its first look failed.        *)
MadeWhole ==
  /\ \A d \in mdirs \ {<< >>} : Front(d) \in mdirs
  /\ \A x \in MProcs : LET s == mst[x]
                           Other == {y \in MProcs \ {x} : mst[y].pc # "idle"}
                           n == IF s.i < Len(s.path.parts) THEN s.i ELSE Len(s.path.parts)
                       IN  /\ s.ret = "0" => s.path.parts \in mdirs
                           /\ s.ret = "EEXIST" => \/ s.path.parts \in mfiles
                                                  \/ /\ PartsAbove(s.path, n) \in mdirs
                                                     /\ Other # {} \/ s.path.slash \/ s.blind
                           /\ s.ret = "ENOTDIR" => \E f \in mfiles : IsPrefix(f, s.path.parts)
                           /\ s.ret # "ENOENT"
-----------------------------------------------------------------------------
(***************************************************************************)
(* src/win32/glob.c and ndir.c: pathname matching and directory streams on *)
(* top of a search that the system does.  A search gives the entries of a  *)
(* directory one by one; names are sequences of characters.  glob collects *)
(* the names in one buffer that grows, and puts the pointers in front of   *)
(* them at the end; every realloc may fail.                                *)
(***************************************************************************)

CONSTANTS GlLists,     (* what a search may find: sequences of [name, dir] *)
          GlPatterns,  (* patterns                                         *)
          GlHome,      (* %HOMEDRIVE%%HOMEPATH%                            *)
          GlFlags,     (* sets of flags                                    *)
          GlLimits,    (* values of gl_matchc given with GLOB_LIMIT        *)
          GlSeeks      (* bound: calls on a directory stream               *)

VARIABLES glarg,       (* flags, list; pat: the pattern, text: expanded,   *)
                       (* rel: its directories, magic, magic0: it and its  *)
                       (* leaf's first character are wild; limit; offs     *)
          glpc,        (* "out", "find", "collect", "check"                *)
          gli,         (* entries looked at                                *)
          glbuf,       (* the names in the buffer                          *)
          glroom,      (* cbAlloc                                          *)
          glob_t,      (* [pathc, matchc, offs, magchar, pathv]            *)
          glres,       (* result                                           *)
          gldir        (* a directory stream: [list, off, got, told, ops]  *)

globVars == <<glarg, glpc, gli, glbuf, glroom, glob_t, glres, gldir>>
callVars == <<glarg, gldir>>

NoPath == <<"null">>
GlNone == [pathc |-> 0, matchc |-> 0, offs |-> 0, magchar |-> FALSE, pathv |-> <<>>]
GlArg0 == [flags |-> {}, pat |-> <<>>, text |-> <<>>, rel |-> <<>>, list |-> <<>>, limit |-> -1, offs |-> 0,
           magic |-> FALSE, magic0 |-> FALSE]
NoDir == [list |-> <<>>, off |-> 0, got |-> NoPath, told |-> 0, ops |-> 0]

GlobInit ==
  /\ glarg = GlArg0 /\ glpc = "out" /\ gli = 0 /\ glbuf = <<>> /\ glroom = 0 /\ glob_t = GlNone
  /\ glres = "none" /\ gldir = NoDir

Magic == {"?", "*"}
(* strrpbrk: how far the directories of the pattern reach *)
strrpbrk(t) == SelectLastInSeq(t, LAMBDA c : c \in {"/", "\\"})

(* A lone tilde in front of the path becomes the home directory. *)
HasTilde(p) == p[1] = "~" /\ (Len(p) = 1 \/ p[2] \in {"/", "\\"})
GlExpanded(p, fl) == IF "TILDE" \in fl /\ HasTilde(p) THEN GlHome \o Tail(p) ELSE p

(* glob up to FindFirstFile: gl_offs is the caller's with GLOB_DOOFFS only *)
GlStart(p, fl, limit, offs, list) ==
  /\ glpc = "out" /\ glres = "none" /\ gldir.ops = 0
  /\ LET t == GlExpanded(p, fl)
         n == strrpbrk(t)
     IN  glarg' = [flags |-> fl, pat |-> p, text |-> t, rel |-> SubSeq(t, 1, n), list |-> list,
                   magic |-> Range(p) \cap Magic # {}, magic0 |-> n < Len(t) /\ t[n + 1] \in Magic,
                   limit |-> IF "LIMIT" \in fl THEN limit ELSE -1, offs |-> IF "DOOFFS" \in fl THEN offs ELSE 0]
  /\ glob_t' = [GlNone EXCEPT !.matchc = limit, !.offs = glarg'.offs]
  /\ gli' = 0 /\ glbuf' = <<>> /\ glroom' = 0 /\ UNCHANGED gldir
  /\ IF list = <<>> THEN glpc' = "check" /\ glres' = "NOMATCH" ELSE glpc' = "find" /\ glres' = "0"

SkipsFault(e, m0, fl) ==            \* fault: hidden files are hidden from any pattern
  \/ "PERIOD" \notin fl /\ e.name[1] = "."
  \/ e.dir /\ "ONLYFILE" \in fl
  \/ e.dir /\ m0 /\ "NODOTSDIRS" \in fl /\ e.name \in {<<".">>, <<".", ".">>}
  \/ ~ e.dir /\ "ONLYDIR" \in fl
(* The entry is passed over. *)
Skips(e, m0, fl) ==
  \/ m0 /\ "PERIOD" \notin fl /\ e.name[1] = "."
  \/ e.dir /\ "ONLYFILE" \in fl
  \/ e.dir /\ m0 /\ "NODOTSDIRS" \in fl /\ e.name \in {<<".">>, <<".", ".">>}
  \/ ~ e.dir /\ "ONLYDIR" \in fl

Marked(e, fl) == IF e.dir /\ "MARK" \in fl THEN Append(e.name, "/") ELSE e.name

(* Bytes of the strings in the buffer: cbCurr *)
Bytes(b) == FoldLeft(LAMBDA n, s : n + Len(s) + 1, 0, b)
RoundedFault(n) == ((2 * n) \div 32) * 32            \* fault: rounds down
Rounded(n) == ((2 * n + 31) \div 32) * 32

(* One turn of the do loop and the test at its end *)
GlEntry ==
  /\ glpc = "find"
  /\ LET e == glarg.list[gli + 1]
         s == glarg.rel \o Marked(e, glarg.flags)
         need == Bytes(glbuf) + Len(s) + 1
         Go(b) == /\ glbuf' = b /\ gli' = gli + 1
                  /\ glpc' = IF gli' < Len(glarg.list) /\ Len(b) # glarg.limit THEN "find" ELSE "collect"
     IN  IF Skips(e, glarg.magic0, glarg.flags) THEN Go(glbuf) /\ UNCHANGED <<glroom, glres>>
         ELSE \/ /\ glroom' = (IF need > glroom THEN Rounded(need) ELSE glroom)
                 /\ Go(Append(glbuf, s)) /\ UNCHANGED glres
              \/ /\ need > glroom /\ glres' = (IF glbuf = <<>> THEN "NOMATCH" ELSE "NOSPACE")
                 /\ glpc' = "check" /\ glbuf' = <<>> /\ UNCHANGED <<gli, glroom>>
  /\ UNCHANGED <<callVars, glob_t>>

Nulls(n) == [i \in 1 .. n |-> NoPath]
(* The pointers in front of the names: reversed with GLOB_NOSORT *)
GlCollect ==
  /\ glpc = "collect" /\ glpc' = "check" /\ UNCHANGED <<callVars, gli, glbuf, glroom>>
  /\ \/ /\ glob_t' = [pathc |-> Len(glbuf), matchc |-> Len(glbuf), offs |-> glob_t.offs, magchar |-> glarg.magic,
                      pathv |-> Nulls(glob_t.offs) \o (IF "NOSORT" \in glarg.flags THEN Reverse(glbuf) ELSE glbuf)
                                \o <<NoPath>>]
        /\ glres' = IF glbuf = <<>> THEN "NOMATCH" ELSE "0"
     \/ glres' = (IF glbuf = <<>> THEN "NOMATCH" ELSE "NOSPACE") /\ UNCHANGED glob_t

PatternItself == /\ ~ ({"TILDE_CHECK", "TILDE"} \subseteq glarg.flags /\ HasTilde(glarg.pat))
                 /\ "NOCHECK" \in glarg.flags \/ ("NOMAGIC" \in glarg.flags /\ ~ glarg.magic)

(* The pattern may stand for itself, and a full limit is an error. *)
GlCheck ==
  /\ glpc = "check" /\ glpc' = "out" /\ UNCHANGED <<callVars, gli, glbuf, glroom>>
  /\ IF glres = "NOMATCH" /\ PatternItself
     THEN \/ /\ glres' = "0"
             /\ glob_t' = [pathc |-> 1, matchc |-> 1, offs |-> glob_t.offs, magchar |-> glarg.magic,
                           pathv |-> Nulls(glob_t.offs) \o <<glarg.text, NoPath>>]
          \/ glres' = "NOSPACE" /\ UNCHANGED glob_t
     ELSE /\ glres' = (IF glres = "0" /\ glob_t.matchc = glarg.limit THEN "NOSPACE" ELSE glres) /\ UNCHANGED glob_t

globfree ==
  /\ glpc = "out" /\ glres \notin {"none", "freed"} /\ glob_t' = [glob_t EXCEPT !.pathc = 0, !.pathv = <<>>]
  /\ glres' = "freed" /\ glarg' = GlArg0 /\ gli' = 0 /\ glbuf' = <<>> /\ glroom' = 0 /\ UNCHANGED <<glpc, gldir>>
-----------------------------------------------------------------------------
(* opendir keeps what the search finds. *)
opendir == /\ gldir.ops = 0 /\ glpc = "out" /\ glres = "none" /\ UNCHANGED <<glarg, glpc, gli, glbuf, glroom, glob_t, glres>>
           /\ \E l \in GlLists : gldir' = [NoDir EXCEPT !.list = l, !.ops = 1] /\ l # <<>>

InDir == gldir.ops \in 1 .. GlSeeks /\ UNCHANGED <<glarg, glpc, gli, glbuf, glroom, glob_t, glres>>

readdir ==
  /\ InDir
  /\ gldir' = IF Len(gldir.list) <= gldir.off THEN [gldir EXCEPT !.got = NoPath, !.ops = @ + 1]
              ELSE [gldir EXCEPT !.got = gldir.list[gldir.off + 1].name, !.off = @ + 1, !.ops = @ + 1]

telldir == InDir /\ gldir' = [gldir EXCEPT !.told = gldir.off, !.ops = @ + 1]

(* seekdir to a place that telldir gave, or to the start: not to the end *)
seekdir == /\ InDir
           /\ \E o \in {0, gldir.told} :
                gldir' = [gldir EXCEPT !.off = IF Len(gldir.list) > o THEN o ELSE @, !.ops = @ + 1]

closedir == InDir /\ gldir' = NoDir

GlobNext ==
  \/ \E p \in GlPatterns, fl \in GlFlags, l \in GlLists, n \in GlLimits, o \in {0, 2} : GlStart(p, fl, n, o, l)
  \/ GlEntry \/ GlCollect \/ GlCheck \/ globfree
  \/ opendir \/ readdir \/ telldir \/ seekdir \/ closedir
-----------------------------------------------------------------------------
GlWanted ==
  LET kept == SelectSeq(glarg.list, LAMBDA e :
                /\ ("ONLYFILE" \in glarg.flags => ~ e.dir) /\ ("ONLYDIR" \in glarg.flags => e.dir)
                /\ e.name[1] = "." /\ glarg.magic0 => "PERIOD" \in glarg.flags
                /\ e.name \in {<<".">>, <<".", ".">>} /\ e.dir /\ glarg.magic0 => "NODOTSDIRS" \notin glarg.flags)
  IN  [i \in 1 .. Len(kept) |-> glarg.rel \o Marked(kept[i], glarg.flags)]

(* The strings that glob collects always fit the buffer it has; and an     *)
(* answer of 0 gives, behind gl_offs null pointers and with another one at *)
(* the end, either every name that the flags let through, once and with    *)
(* the directories in front, or the pattern for want of any.  A directory  *)
(* stream never points behind its entries, wherever seekdir sends it.      *)
GlobAnswers ==
  /\ Bytes(glbuf) <= glroom
  /\ glpc = "out" /\ glres = "0" =>
       LET v == glob_t.pathv
           paths == SubSeq(v, glarg.offs + 1, Len(v) - 1)
       IN  /\ \A i \in 1 .. glarg.offs : v[i] = NoPath
           /\ Last(v) = NoPath /\ Len(paths) = glob_t.pathc /\ glob_t.matchc = glob_t.pathc
           /\ IF glbuf # <<>> THEN (IF "NOSORT" \in glarg.flags THEN Reverse(paths) ELSE paths) = GlWanted
              ELSE paths = <<glarg.text>>
  /\ gldir.off <= Len(gldir.list)
=============================================================================
