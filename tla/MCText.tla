------------------------------- MODULE MCText -------------------------------
(***************************************************************************)
(* Text, files and what stands between a program and its terminal, each on *)
(* an instance of its own: part says which one a behaviour is about, and   *)
(* the others stand still.                                                 *)
(***************************************************************************)
EXTENDS Strings, ConfigFile, StrMatch, Encodings, Output, Getopt, ZBuf, Files, Fts,
        Resolve, Arc4Random, TLC

MCSChars == {"a", "A", " ", ",", "'", "\\", "/"}
(* Sections, entries, comments and blank lines at several depths, with     *)
(* every kind of line break, a continuation and a line without a break.    *)
MCCfLines == {<<"a", ":", "\n">>, <<" ", " ", "a", ":", "\r", "\n">>, <<"\t", "b", ":", "\n">>,
              <<" ", " ", " ", " ", "a", ":", "\r">>, <<"k", "=", "v", "\n">>, <<" ", " ", "k", " ", "=", "w", "\r", "\n">>,
              <<"\t", "k", "\n">>, <<" ", " ", "#", "x", "\n">>, <<"\r">>, <<" ", " ", "k", "=", "\\", "\n">>, <<"k">>}
MCNChars == {"0", "8", "1", "9", "f", "F", "-", " ", "k", "."}

(* Every conversion of pack, alone, counted and with a count from the      *)
(* arguments, and formats that must be refused.                            *)
MCV(n) == [v |-> n, a |-> <<>>]
MCA(s) == [v |-> 99, a |-> s]
MCPkItems ==
  {<<<<"B">>, <<MCV(2)>>>>, <<<<"S">>, <<MCV(7)>>>>, <<<<"i">>, <<MCV(50)>>>>, <<<<"L">>, <<MCV(3000)>>>>,
   <<<<"2", "s">>, <<MCA(<<3, 8>>)>>>>, <<<<"*", "I">>, <<MCV(2), MCA(<<80, 1>>)>>>>,
   <<<<"*", " ", "b">>, <<MCV(0), MCA(<<1, 2>>)>>>>, <<<<"Z">>, <<MCA(<<1, 2>>)>>>>,
   <<<<"3", "Z">>, <<MCA(<<1, 2>>)>>>>, <<<<"*", "z">>, <<MCV(1), MCA(<<1, 2>>)>>>>, <<<<"2", "x">>, <<>>>>,
   <<<<"*">>, <<MCV(2)>>>>, <<<<"1", "0", "B">>, <<MCA(<<1>>)>>>>, <<<<"q">>, <<>>>>, <<<<"4">>, <<>>>>,
   <<<<"Z">>, <<MCV(0)>>>>, <<<<"3", "Z">>, <<MCV(0)>>>>}

MCEFlags == {<<>>, <<"-">>, <<"0">>, <<"+", " ">>, <<"#", "0">>, <<"-", "0">>, <<"+", "0">>}
MCEWidths == {<<>>, <<"3">>, <<"6">>, <<"*">>}
MCEPrecs == {<<>>, <<".", "4">>, <<".", "*">>}
MCEMods == {<<>>, <<"h">>}
MCEStar == -5
MCENums == {0, 5, 200, 4660, 99999, -1, -37, -131072}
MCEStrs == {<<>>, <<"b">>, <<"nul">>, <<"b", "c">>, <<192, 168, 1, 10>>, <<0, 1, 255, 9>>}

MCOption(n, h, f, v) == [name |-> n, has_arg |-> h, flag |-> f, val |-> v]
MCGoLong == <<MCOption(<<"f", "o">>, "no", FALSE, "f"), MCOption(<<"f", "i">>, "required", FALSE, "i"),
              MCOption(<<"g">>, "optional", TRUE, "z")>>
MCGoArgs == {<<"x">>, <<"-">>, <<"-", "a", "b">>, <<"-", "b", "y">>, <<"-", "-">>, <<"-", "-", "f">>,
             <<"-", "-", "f", "i">>, <<"-", "W", "f", "o">>, <<"-", "-", "g", "=", "y">>}
MCMode(l, o, p) == [long |-> l, options |-> o, posix |-> p]
MCGoModes == {MCMode(TRUE, <<"a", "b", ":", "c", ":", ":", "W", ";">>, FALSE), MCMode(TRUE, <<"-", ":", "a", "b", ":">>, FALSE),
              MCMode(FALSE, <<"a", "b", ":">>, FALSE), MCMode(TRUE, <<"+", "a", "b", ":">>, FALSE),
              MCMode(TRUE, <<":", "a", "b", ":">>, TRUE)}

MCZChunks == {<<"a">>, <<"b", "a", "b">>, <<"c", "b", "b", "Z">>, <<"Z", "a">>}
MCZCode == [s \in {"a", "b", "c", "Z"} |-> CASE s = "a" -> <<"p">> [] s = "b" -> <<"q", "r">> [] s = "c" -> <<>>
                                             [] OTHER -> <<"s">>]

MCPLines == {[txt |-> t, end |-> e] : t \in {<<>>, <<"p">>, <<"q">>}, e \in {"lf", "crlf", "eof"}}
            \ {[txt |-> <<>>, end |-> "eof"]}
MCMsgChars == {"m", "\n"}

MCPath(s, l) == [parts |-> s, slash |-> l]
MCMPaths == {MCPath(<<"a">>, FALSE), MCPath(<<"b">>, TRUE), MCPath(<<"a", "b">>, FALSE), MCPath(<<"b", "c", "d">>, FALSE),
             MCPath(<<"b", "a">>, TRUE), MCPath(<<"b", "c", "d", "e">>, FALSE)}

(* 1, where the walk starts, holds the directory 2, the link 6 to it and   *)
(* the empty directory 8 on another device; 2 holds the directory 3, the   *)
(* file 4 and the link 5 to 8; 3 holds the file 7 and the link 9 to 2.     *)
MCFRoots == <<2, 6>>
MCFKind == <<"dir", "dir", "dir", "file", "link", "link", "file", "dir", "link">>
MCFChildren == <<<<2, 6, 8>>, <<3, 4, 5>>, <<7, 9>>, <<>>, <<>>, <<>>, <<>>, <<>>, <<>>>>
MCFTarget == <<0, 0, 0, 0, 8, 2, 0, 0, 2>>
MCFUp == <<1, 1, 2, 2, 2, 1, 3, 1, 3>>
MCFDev == <<1, 1, 1, 1, 1, 1, 1, 2, 1>>
MCFNlink == <<5, 3, 2, 1, 1, 1, 1, 2, 1>>
MCFOptions == {{"PHYSICAL"}, {"LOGICAL"}, {"PHYSICAL", "NOCHDIR", "compar"}, {"PHYSICAL", "NOSTAT", "SEEDOT"},
               {"PHYSICAL", "COMFOLLOW", "NOSTAT"}, {"LOGICAL", "XDEV"}}

MCFile(n, d) == [name |-> n, dir |-> d]
MCLong(k) == [i \in 1 .. k |-> "w"]
MCGlLists == {<<>>, <<MCFile(<<".", "a">>, FALSE)>>,
              <<MCFile(<<".">>, TRUE), MCFile(<<".", ".">>, TRUE), MCFile(<<".", "a">>, FALSE), MCFile(<<"b">>, TRUE),
                MCFile(<<"c">>, FALSE)>>,
              <<MCFile(MCLong(14), FALSE), MCFile(MCLong(30), TRUE), MCFile(MCLong(14), TRUE)>>}
MCGlPatterns == {<<"d", "/", "*">>, <<"~", "/", ".", "*">>, <<"~">>}
MCGlHome == <<"C", "/", "h">>
MCGlFlags == {{}, {"LIMIT"}, {"MARK", "DOOFFS"}, {"NOCHECK", "ONLYDIR", "NODOTSDIRS", "PERIOD"},
              {"TILDE", "TILDE_CHECK", "NOCHECK", "ONLYFILE"}, {"TILDE", "NOMAGIC", "NOSORT"}, {"NOMAGIC", "LIMIT", "DOOFFS"}}

MCIf(n, f, a) == [name |-> n, fam |-> f, a |-> a]
MCReNames == <<"eth", "lo", "wl">>
MCReLists == {<<MCIf("lo", "link", "0"), MCIf("eth", "link", "1"), MCIf("lo", "inet", "2"), MCIf("eth", "inet", "3"),
                MCIf("lo", "inet6", "4"), MCIf("eth", "inet6", "5"), MCIf("wl", "none", "6")>>,
              <<MCIf("lo", "inet", "2"), MCIf("eth", "can", "7")>>,
              <<MCIf("wl", "inet6", "8"), MCIf("lo", "inet", "2"), MCIf("wl", "inet", "9")>>}
MCReHosts == [h \in {"host", "wl"} |-> <<MCIf(h, "inet6", "11"), MCIf(h, "inet", "12")>>]
MCReMasks == {{}, {"F_LINK"}, {"F_INET"}, {"F_INET6", "F_INET"}, {"F_LINK", "F_INET", "F_INET6"}}

VARIABLE part

vars == <<part, sbuf, cfVars, numVars, matchVars, codecVars, packVars, printfVars, goVars, zbufVars,
          barVars, pst, msg, rotVars, mkVars, ftsVars, globVars, resolveVars, arcVars>>

Init ==
  /\ part \in {"strings", "config", "numbers", "strmatch", "codec", "pack", "printf", "getopt",
               "zbuf", "progress", "password", "message", "rotate", "mkdirhier", "fts", "glob",
               "resolve", "random"}
  /\ StrInit /\ CfInit /\ NumInit /\ MatchInit /\ CodecInit /\ PackInit /\ PrintfInit /\ GoInit
  /\ ZBufInit /\ BarInit /\ PassInit /\ MsgInit /\ RotInit /\ MkInit /\ FtsInit /\ GlobInit
  /\ ResolveInit /\ ArcInit
  /\ part = "pack" \/ (pkbe /\ pkcap = CHOOSE c \in PkCaps : TRUE)
  /\ part = "fts" \/ fopt = {"PHYSICAL"}

(* All but the part of this behaviour. *)
Others ==
  /\ UNCHANGED part
  /\ IF part = "strings" THEN TRUE ELSE UNCHANGED sbuf
  /\ IF part = "config" THEN TRUE ELSE UNCHANGED cfVars
  /\ IF part = "numbers" THEN TRUE ELSE UNCHANGED numVars
  /\ IF part = "strmatch" THEN TRUE ELSE UNCHANGED matchVars
  /\ IF part = "codec" THEN TRUE ELSE UNCHANGED codecVars
  /\ IF part = "pack" THEN TRUE ELSE UNCHANGED packVars
  /\ IF part = "printf" THEN TRUE ELSE UNCHANGED printfVars
  /\ IF part = "getopt" THEN TRUE ELSE UNCHANGED goVars
  /\ IF part = "zbuf" THEN TRUE ELSE UNCHANGED zbufVars
  /\ IF part = "progress" THEN TRUE ELSE UNCHANGED barVars
  /\ IF part = "password" THEN TRUE ELSE UNCHANGED pst
  /\ IF part = "message" THEN TRUE ELSE UNCHANGED msg
  /\ IF part = "rotate" THEN TRUE ELSE UNCHANGED rotVars
  /\ IF part = "mkdirhier" THEN TRUE ELSE UNCHANGED mkVars
  /\ IF part = "fts" THEN TRUE ELSE UNCHANGED ftsVars
  /\ IF part = "glob" THEN TRUE ELSE UNCHANGED globVars
  /\ IF part = "resolve" THEN TRUE ELSE UNCHANGED resolveVars
  /\ IF part = "random" THEN TRUE ELSE UNCHANGED arcVars

Next ==
  \/ part = "strings" /\ StrNext /\ Others
  \/ part = "config" /\ CfNext /\ Others
  \/ part = "numbers" /\ NumNext /\ Others
  \/ part = "strmatch" /\ MatchNext /\ Others
  \/ part = "codec" /\ CodecNext /\ Others
  \/ part = "pack" /\ PackNext /\ Others
  \/ part = "printf" /\ PrintfNext /\ Others
  \/ part = "getopt" /\ GoNext /\ Others
  \/ part = "zbuf" /\ ZBufNext /\ Others
  \/ part = "progress" /\ BarNext /\ Others
  \/ part = "password" /\ PassNext /\ Others
  \/ part = "message" /\ MsgNext /\ Others
  \/ part = "rotate" /\ RotNext /\ Others
  \/ part = "mkdirhier" /\ MkNext /\ Others
  \/ part = "fts" /\ FtsNext /\ Others
  \/ part = "glob" /\ GlobNext /\ Others
  \/ part = "resolve" /\ ResolveNext /\ Others
  \/ part = "random" /\ ArcNext /\ Others

Spec == Init /\ [][Next]_vars
-----------------------------------------------------------------------------
(* Files and directories: a walk comes by every entry once, by a path that *)
(* leads there, and ends where it began; glob answers with what the flags  *)
(* let through; a rotation keeps the newest copies and mkdirhier leaves    *)
(* whole paths, also when two processes make them at once.                 *)
FilesWhole ==
  /\ part = "fts" => AccessPath /\ VisitsAllOnce
  /\ part = "glob" => GlobAnswers
  /\ part = "rotate" => NewestKept
  /\ part = "mkdirhier" => MadeWhole

(* What one function writes the other reads back: quoted fields, escapes,  *)
(* base64, identifiers, addresses, packed structures, numbers, and streams *)
(* that are compressed piece by piece.                                     *)
WrittenReadBack ==
  /\ part = "strings" => QuotingReadBack
  /\ part = "codec" => EscapeReadBack /\ Base64ReadBack /\ IdsReadBack
  /\ part = "numbers" => AddressesReadBack /\ NumbersExact
  /\ part = "pack" => RoundTrip
  /\ part = "printf" => PrintsValue
  /\ part = "zbuf" => StreamWhole

(* Text is taken apart where it should be: at delimiters, at line breaks,  *)
(* at sections of a configuration, at the options of a command line, at    *)
(* the places of a pattern; the lists of addresses are whole.              *)
TakenApart ==
  /\ part = "strings" => SplitsAtDelimiters /\ CopiesAgree
  /\ part = "config" => LinesRead /\ FoundByPath
  /\ part = "strmatch" => SearchesAgree
  /\ part = "getopt" => OptionsThenOperands /\ BlocksExchanged
  /\ part = "resolve" => AnswersWhole

(* On the terminal: the progress bar is drawn once and in full, a password *)
(* is confirmed and the echo comes back on every path, messages end in one *)
(* line feed.                                                              *)
ShownRight == BarOnScreen /\ PassConfirmed /\ LinesEnd
=============================================================================
