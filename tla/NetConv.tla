------------------------------ MODULE NetConv ------------------------------
(***************************************************************************)
(* The conversions of network.cpp 33-357 between bionic's socket numbers   *)
(* and the host's, as compiled on macOS.  A conversion the code rejects    *)
(* with handle_runtime_error has the value Throws.  Flag words are sets of *)
(* flag names: both directions test the same names one after the other.    *)
(***************************************************************************)
EXTENDS Integers, Sequences, SequencesExt

Throws == -1  \* no number of either system is negative

(* AF_UNSPEC, AF_UNIX, AF_INET, AF_INET6; macOS has no AF_NETLINK. *)
Family == [f \in {0, 1, 2, 10} |-> IF f = 10 THEN 30 ELSE f]

to_host_af_family(f) == IF f \in DOMAIN Family THEN Family[f] ELSE 0

from_host_af_family(h) ==
  IF \E f \in DOMAIN Family : Family[f] = h
  THEN CHOOSE f \in DOMAIN Family : Family[f] = h ELSE 0

(* SOCK_STREAM, SOCK_DGRAM and SOCK_RAW are 1, 2 and 3 on both systems; the *)
(* bits above them (SOCK_NONBLOCK, SOCK_CLOEXEC) are masked away.           *)
to_host_socktype(t)   == IF t % 4 \in 1 .. 3 THEN t % 4 ELSE Throws
from_host_socktype(t) == IF t \in 1 .. 3 THEN t ELSE Throws

(* IP, TCP, UDP and IPv6 are the IANA numbers on both systems. *)
Protocols == {0, 6, 17, 41}
to_host_ipproto(p)   == IF p \in Protocols THEN p ELSE Throws
from_host_ipproto(p) == IF p \in Protocols THEN p ELSE Throws

(* Both directions drop what they do not know. *)
convert_ai_flags(flags) == flags \cap {"PASSIVE", "CANONNAME", "NUMERICHOST"}

to_host_nameinfo_flags(flags) ==
  flags \cap {"NOFQDN", "NUMERICHOST", "NAMEREQD", "NUMERICSERV", "DGRAM"}

(* sizeof the structures of network.h 80-95, and of the host's. *)
HostLen   == [f \in {1, 2, 10} |-> CASE f = 1 -> 106 [] f = 2 -> 16 [] OTHER -> 28]
BionicLen == [h \in {1, 2, 30} |-> CASE h = 1 -> 110 [] h = 2 -> 16 [] OTHER -> 28]

(* An address is its family and the rest, or absent (a null pointer). *)
get_host_len(a) ==
  IF ~a.present THEN 0
  ELSE IF a.family \in DOMAIN HostLen THEN HostLen[a.family] ELSE Throws

get_bionic_len(h) ==
  IF ~h.present THEN 0
  ELSE IF h.family \in DOMAIN BionicLen THEN BionicLen[h.family] ELSE Throws

(* from_host and to_host of a sockaddr copy every field of a known family;  *)
(* AF_UNSPEC has none.  The family is Throws when the address is rejected.  *)
sockaddr_from_host(h) ==
  [present |-> h.present,
   family  |-> IF h.family \in DOMAIN BionicLen \cup {0}
               THEN from_host_af_family(h.family) ELSE Throws,
   rest    |-> IF h.family \in DOMAIN BionicLen THEN h.rest ELSE "unset"]

(* A Unix path of more than the 104 bytes of macOS's sun_path: the copy     *)
(* takes 108, the length handed to the host cuts it.                        *)
TooLong(a) == a.family = 1 /\ a.rest = "long path"

sockaddr_to_host(a) ==
  [present |-> a.present,
   family  |-> IF a.family \in DOMAIN HostLen \cup {0}
               THEN to_host_af_family(a.family) ELSE Throws,
   rest    |-> IF TooLong(a) THEN "cut path"
               ELSE IF a.family \in DOMAIN HostLen THEN a.rest ELSE "unset"]

(* The constructor of sockaddr_in: to_host, then get_host_len, which rejects *)
(* AF_UNSPEC.                                                                *)
ConvertsToHost(a) == get_host_len(a) # Throws

(* apply of sockaddr_out: the address must be of a known family and its      *)
(* bionic form fit the application's buffer.                                 *)
Fits(family, room) ==
  LET len == get_bionic_len([present |-> TRUE, family |-> family])
  IN  len # Throws /\ len <= room

-----------------------------------------------------------------------------
(* addrinfo lists.  An entry is a record [flags, family, socktype, proto,   *)
(* addr, name]; name says whether there is a canonical name.                *)

(* from_host_alloc, the try block: the conversions that may throw. *)
EntryFromHostOK(e) ==
  /\ from_host_socktype(e.socktype) # Throws
  /\ from_host_ipproto(e.proto) # Throws
  /\ get_bionic_len(e.addr) # Throws

EntryFromHost(e) ==
  [flags |-> convert_ai_flags(e.flags), family |-> from_host_af_family(e.family),
   socktype |-> from_host_socktype(e.socktype), proto |-> from_host_ipproto(e.proto),
   addr |-> IF e.addr.present THEN sockaddr_from_host(e.addr) ELSE e.addr,
   name |-> e.name]

(* from_host_alloc: an entry that cannot be converted is left out.  The     *)
(* entries of the new list keep their positions in the host's.              *)
from_host_alloc(list) ==
  [i \in {j \in DOMAIN list : EntryFromHostOK(list[j])} |-> EntryFromHost(list[i])]

(* to_host_alloc: a hint of socket type 0 is kept, everything else must     *)
(* convert, or the exception leaves the function.                           *)
EntryToHostOK(e) ==
  /\ e.socktype = 0 \/ to_host_socktype(e.socktype) # Throws
  /\ to_host_ipproto(e.proto) # Throws
  /\ get_host_len(e.addr) # Throws

(* The heap blocks of an entry: the node, its address and its name, which   *)
(* free_bionic_list frees; a list's are named by their entry's position.    *)
Parts == {"node", "addr", "name"}
PartsOf(e) ==
  {"node"} \cup (IF e.addr.present THEN {"addr"} ELSE {}) \cup (IF e.name THEN {"name"} ELSE {})
Blocks(list) == {b \in (DOMAIN list) \X Parts : b[2] \in PartsOf(list[b[1]])}

(* Mutant: the catch block forgets the node. *)
Allocated_Leak(list) ==
  {b \in (DOMAIN list) \X Parts :
     b[2] \in IF EntryFromHostOK(list[b[1]]) THEN PartsOf(list[b[1]]) ELSE {"node"}}

(* What from_host_alloc leaves allocated: the catch block deletes the node  *)
(* of an entry it leaves out, and the conversions throw before the address  *)
(* and the name are copied.                                                 *)
Allocated(list) ==
  {b \in (DOMAIN list) \X Parts :
     b[2] \in IF EntryFromHostOK(list[b[1]]) THEN PartsOf(list[b[1]]) ELSE {}}

-----------------------------------------------------------------------------
(* Socket options: what to_host_sockopt_so, _ip and _ipv6 make of a number. *)
SoOpt ==
  { <<1, "DEBUG">>, <<2, "REUSEADDR">>, <<3, "TYPE">>, <<4, "ERROR">>,
    <<5, "DONTROUTE">>, <<6, "BROADCAST">>, <<7, "SNDBUF">>, <<8, "RCVBUF">>,
    <<9, "KEEPALIVE">>, <<10, "OOBINLINE">>, <<13, "LINGER">>,
    <<15, "REUSEPORT">>, <<29, "TIMESTAMP">> }

IpOpt ==
  { <<1, "TOS">>, <<2, "TTL">>, <<3, "HDRINCL">>, <<4, "OPTIONS">>,
    <<6, "RECVOPTS">>, <<7, "RETOPTS">>, <<16, "IPSEC_POLICY">>,
    <<32, "MULTICAST_IF">>, <<33, "MULTICAST_TTL">>, <<34, "MULTICAST_LOOP">>,
    <<35, "ADD_MEMBERSHIP">>, <<36, "DROP_MEMBERSHIP">> }

Ipv6Opt ==
  { <<2, "2292PKTINFO">>, <<3, "2292HOPOPTS">>, <<4, "2292DSTOPTS">>,
    <<5, "2292RTHDR">>, <<6, "2292PKTOPTIONS">>, <<7, "CHECKSUM">>,
    <<8, "2292HOPLIMIT">>, <<16, "UNICAST_HOPS">>, <<17, "MULTICAST_IF">>,
    <<18, "MULTICAST_HOPS">>, <<19, "MULTICAST_LOOP">>, <<20, "JOIN_GROUP">>,
    <<21, "LEAVE_GROUP">>, <<26, "V6ONLY">>, <<34, "IPSEC_POLICY">> }

(* SOL_SOCKET is 1 for bionic; the other levels are protocols. *)
to_host_sockopt_level(l) == IF l = 1 THEN 65535 ELSE to_host_ipproto(l)

(* The option of a level, by name; "raw" is handed on as the number it is. *)
OptTable(h) == CASE h = 65535 -> SoOpt [] h = 0 -> IpOpt [] h = 41 -> Ipv6Opt [] OTHER -> {}

to_host_sockopt(l, opt) ==
  LET h     == to_host_sockopt_level(l)
      names == {p[2] : p \in {q \in OptTable(h) : q[1] = opt}}
  IN  IF h = 6 THEN "raw" ELSE IF names = {} THEN "throws" ELSE CHOOSE name \in names : TRUE
=============================================================================
