------------------------------ MODULE Resolve ------------------------------
(***************************************************************************)
(* src/c_resolve.c: the addresses of the interfaces, grouped by name, and  *)
(* of a name that is an address, an interface or a host.  The interfaces   *)
(* may change between the system calls of one operation.                   *)
(* An address is [name, fam, a]; fam is "none" where ifa_addr is null.     *)
(***************************************************************************)
EXTENDS Integers, Sequences, SequencesExt, FiniteSetsExt

CONSTANTS ReNames,     (* sequence of names in the order of strcmp         *)
          ReLists,     (* what getifaddrs may return: sequences of address *)
          ReHosts,     (* host name -> addresses of getaddrinfo            *)
          ReLiterals,  (* names that inet_aton accepts                     *)
          ReMasks,     (* sets of "F_INET", "F_INET6", "F_LINK"            *)
          ReChanges    (* bound: changes of the interfaces                 *)

VARIABLES ifs,         (* the interfaces now                               *)
          rop,         (* the call: [op, name, mask]                       *)
          repc,
          addrv,       (* the vector that is filled                        *)
          reret,
          ifseen,      (* history: the interfaces as getifaddrs saw them   *)
          changes

resolveVars == <<ifs, rop, repc, addrv, reret, ifseen, changes>>

ResolveInit ==
  /\ ifs = <<>> /\ repc = "idle" /\ addrv = <<>> /\ reret = 0 /\ ifseen = <<>> /\ changes = 0
  /\ rop = [op |-> "none", name |-> "", mask |-> {}]

ReMask(s) == IF s = {} THEN {"F_INET", "F_INET6"} ELSE s

(* The switch on sa_family: what is not IPv6 or a link address is taken    *)
(* for IPv4.                                                               *)
Wanted(x, s) ==
  CASE x.fam = "inet6" -> "F_INET6" \in s
    [] x.fam = "link" -> "F_LINK" \in s
    [] x.fam \notin {"inet6", "link"} -> "F_INET" \in s

RankOf(x) == CHOOSE i \in 1 .. Len(ReNames) : ReNames[i] = x.name

(* iftmp_cmp and qsort, which may leave equal names in any order: the      *)
(* addresses of the first name in some order, then those of the next       *)
Sorted(s) ==
  FoldLeft(LAMBDA ts, n : {t \o u : t \in ts, u \in SetToSeqs({x \in Range(s) : x.name = n})},
           {<<>>}, ReNames)

GroupedFault(t) ==             \* fault: prev stays at the first
  FoldLeft(LAMBDA g, x : IF g # <<>> /\ x.name = t[1].name
                         THEN [g EXCEPT ![Len(g)].addrs = Append(@, x)]
                         ELSE Append(g, [name |-> x.name, addrs |-> <<x>>]), <<>>, t)

(* The loop over the sorted addresses: a new entry where the name changes. *)
Grouped(t) ==
  FoldLeft(LAMBDA g, x : IF g # <<>> /\ Last(g).name = x.name
                         THEN [g EXCEPT ![Len(g)].addrs = Append(@, x)]
                         ELSE Append(g, [name |-> x.name, addrs |-> <<x>>]), <<>>, t)

(* get_all_if_address, when getifaddrs succeeds: what it may return *)
get_all_if_address(list, s) ==
  {Grouped(t) : t \in Sorted(SelectSeq(list, LAMBDA x : x.fam # "none" /\ Wanted(x, ReMask(s))))}
-----------------------------------------------------------------------------
Begin(op, n, s) ==
  /\ repc \in {"idle", "done"} /\ rop' = [op |-> op, name |-> n, mask |-> s]
  /\ reret' = 0 /\ UNCHANGED <<ifs, ifseen, changes>>

CallAll == \E s \in ReMasks : Begin("all", "", s) /\ repc' = "list" /\ addrv' = <<>>
CallInterface(n) == \E s \in ReMasks : Begin("interface", n, s) /\ repc' = "isif" /\ UNCHANGED addrv

AnyAddr == [name |-> "any", fam |-> "inet", a |-> "INADDR_ANY"]
Literal(n) == [name |-> n, fam |-> "inet", a |-> n]

(* resolve_host_or_ifname, up to the first question it asks the system *)
resolve_host_or_ifname(n) ==
  \E s \in ReMasks :
    /\ Begin("resolve", n, s)
    /\ \/ n \in {"", "*"} /\ addrv' = <<AnyAddr>> /\ repc' = "done"
       \/ n \in ReLiterals /\ addrv' = <<Literal(n)>> /\ repc' = "done"
       \/ n \notin {"", "*"} \cup ReLiterals /\ addrv' = <<>> /\ repc' = "isif"

(* get_interface_address did not succeed *)
NoInterface(e) ==
  /\ repc' = IF rop.op = "resolve" THEN "host" ELSE "done"
  /\ reret' = IF rop.op = "resolve" THEN 0 ELSE e
  /\ UNCHANGED addrv

(* is_ifname; its socket may fail *)
is_ifname ==
  /\ repc = "isif" /\ UNCHANGED <<ifs, rop, ifseen, changes>>
  /\ \/ (\E i \in 1 .. Len(ifs) : ifs[i].name = rop.name) /\ repc' = "list" /\ UNCHANGED <<addrv, reret>>
     \/ NoInterface(-2)

(* getifaddrs and the rest of get_interface_address, or of                 *)
(* get_all_if_address when that is called directly                         *)
get_interface_address ==
  /\ repc = "list" /\ UNCHANGED <<ifs, rop, changes>>
  /\ \/ /\ ifseen' = ifs /\ repc' = "done" /\ reret' = 0
        /\ \E g \in get_all_if_address(ifs, rop.mask) :
             LET mine == SelectSeq(g, LAMBDA e : e.name = rop.name)
             IN  addrv' = IF rop.op = "all" THEN g ELSE IF mine = <<>> THEN <<>> ELSE mine[1].addrs
     \/ /\ UNCHANGED ifseen
        /\ IF rop.op = "all" THEN repc' = "done" /\ reret' = -1 /\ UNCHANGED addrv ELSE NoInterface(-1)

(* getaddrinfo and the loop over its answers *)
getaddrinfo ==
  /\ repc = "host" /\ repc' = "done" /\ UNCHANGED <<ifs, rop, ifseen, changes>>
  /\ \/ /\ rop.name \in DOMAIN ReHosts /\ reret' = 0
        /\ addrv' = addrv \o SelectSeq(ReHosts[rop.name], LAMBDA x : Wanted(x, ReMask(rop.mask)))
     \/ reret' = -3 /\ UNCHANGED addrv

(* The system: interfaces come and go. *)
Reconfigure ==
  /\ changes < ReChanges /\ changes' = changes + 1 /\ ifs' \in ReLists \ {ifs}
  /\ UNCHANGED <<rop, repc, addrv, reret, ifseen>>

ReAllNames == {"", "*"} \cup ReLiterals \cup DOMAIN ReHosts \cup Range(ReNames)
ResolveNext ==
  \/ CallAll
  \/ \E n \in ReAllNames : CallInterface(n) \/ resolve_host_or_ifname(n)
  \/ is_ifname \/ get_interface_address \/ getaddrinfo \/ Reconfigure
-----------------------------------------------------------------------------
Asked(x) == x.fam # "none" /\ Wanted(x, ReMask(rop.mask))
Listed(n) == {x \in Range(ifseen) : x.name = n /\ Asked(x)}

(* A call that succeeds reports what the system said at one moment, though *)
(* interfaces change while it runs: get_all_if_address has one entry per   *)
(* interface with an address of the families asked for, in order, and each *)
(* address in one entry; a name stands for an interface, all of whose      *)
(* addresses are reported, or else for a host.                             *)
AnswersWhole ==
  repc = "done" /\ reret = 0 =>
    IF rop.op = "all"
    THEN /\ \A i \in 1 .. Len(addrv) :
              /\ Range(addrv[i].addrs) = Listed(addrv[i].name) /\ addrv[i].addrs # <<>>
              /\ i > 1 => RankOf(addrv[i - 1]) < RankOf(addrv[i])
         /\ {x \in Range(ifseen) : Asked(x)} = UNION {Range(addrv[i].addrs) : i \in 1 .. Len(addrv)}
    ELSE \/ Range(addrv) = Listed(rop.name)
         \/ rop.op = "resolve" /\ rop.name \in {"", "*"} /\ addrv = <<AnyAddr>>
         \/ rop.op = "resolve" /\ rop.name \in ReLiterals /\ addrv = <<Literal(rop.name)>>
         \/ rop.op = "resolve" /\ rop.name \in DOMAIN ReHosts
            /\ addrv = SelectSeq(ReHosts[rop.name], Asked)
=============================================================================
