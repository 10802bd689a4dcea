------------------------------ MODULE NetCalls ------------------------------
(***************************************************************************)
(* Socket options, addresses and address lists (network.cpp 359-593,       *)
(* 723-780), as compiled on macOS, with the conversions of NetConv.        *)
(***************************************************************************)
EXTENDS Calls, NetConv

CONSTANTS Options,    \* pairs <<level, option>> the application sets
          Addresses,  \* addresses it binds to: [present, family, rest]
          Hints,      \* lists of hints it gives
          HostLists,  \* what the host's getaddrinfo finds
          HostIfs     \* what the host's getifaddrs finds: sequences of
                      \* [family, mask, name, flags], 0 for no address

ASSUME SocketsAssumption ==
  /\ \A o \in Options : o = <<o[1], o[2]>> /\ o[1] \in Nat
  /\ \A a \in Addresses : a = [present |-> a.present, family |-> a.family, rest |-> a.rest]

-----------------------------------------------------------------------------
(* socket, and socketpair, which gives two of them.  On: the options the    *)
(* host has set; asked: those the application has.                          *)
Socket(domain, type, proto, e) ==
  LET ok == to_host_socktype(type) # Throws /\ to_host_ipproto(proto) # Throws IN
  /\ Is("none")
  /\ Wrapped(ok, e)
  /\ OnSuccess(ok, e, [kind |-> "sock", on |-> {}, asked |-> {},
                       local |-> [present |-> TRUE, family |-> to_host_af_family(domain),
                                  rest |-> "unset"],
                       bound |-> [present |-> FALSE]])
  /\ UNCHANGED heap

CloseSocket(e) ==
  /\ Is("sock")
  /\ Wrapped(TRUE, e) /\ OnSuccess(TRUE, e, Nothing)
  /\ UNCHANGED heap

(* The option the host's call is about, where "raw" is the number itself. *)
HostOption(level, opt) ==
  LET h == to_host_sockopt(level, opt)
  IN  <<to_host_sockopt_level(level), h, IF h = "raw" THEN opt ELSE 0>>

OptionOK(level, opt) ==
  to_host_sockopt_level(level) # Throws /\ to_host_sockopt(level, opt) # "throws"

setsockopt(level, opt, value, e) ==
  LET ok == OptionOK(level, opt)
      Put(set, x) == IF value THEN set \cup {x} ELSE set \ {x}
  IN  /\ Is("sock")
      /\ Wrapped(ok, e)
      /\ OnSuccess(ok, e, [obj EXCEPT !.on = Put(@, HostOption(level, opt)),
                                      !.asked = Put(@, <<level, opt>>)])
      /\ UNCHANGED heap

(* What getsockopt answers for an option of the application. *)
getsockopt(level, opt) == HostOption(level, opt) \in obj.on

(* bind; connect converts its address in the same way. *)
bind(a, e) ==
  LET ok == ConvertsToHost(a) IN
  /\ Is("sock") /\ ~obj.bound.present
  /\ Wrapped(ok, e)
  /\ OnSuccess(ok /\ a.present, e, [obj EXCEPT !.local = sockaddr_to_host(a), !.bound = a])
  /\ UNCHANGED heap

connect(a, e) ==
  /\ Is("sock")
  /\ Wrapped(ConvertsToHost(a), e)
  /\ UNCHANGED <<obj, heap>>

(* What getsockname answers for the socket's own address; getpeername does  *)
(* the same with the peer's.  A buffer that is too small throws.            *)
getsockname(room, e) ==
  /\ Is("sock")
  /\ IF e # 0 THEN Wrapped(TRUE, e) ELSE Wrapped(Fits(obj.local.family, room), 0)
  /\ UNCHANGED <<obj, heap>>

(* 0, 1 and 2 are the host's SHUT_RD, SHUT_WR and SHUT_RDWR too. *)
shutdown(how, e) ==
  /\ Is("sock")
  /\ Wrapped(how \in 0 .. 2, e)
  /\ UNCHANGED <<obj, heap>>

-----------------------------------------------------------------------------
(* getaddrinfo is exported as it is: hints that do not convert raise an      *)
(* exception that leaves it, and no step follows.  Its own error numbers are *)
(* the host's.                                                               *)
getaddrinfo(hints, list, e) ==
  /\ Is("none")
  /\ \A i \in DOMAIN hints : EntryToHostOK(hints[i])
  /\ RawCall(0)
  /\ IF e # 0 THEN UNCHANGED <<obj, heap>>
     ELSE /\ obj' = [kind |-> "addrinfo", list |-> from_host_alloc(list)]
          /\ heap' = heap \cup Allocated(list)

freeaddrinfo ==
  /\ Is("addrinfo")
  /\ obj' = Nothing
  /\ heap' = heap \ Blocks(obj.list)
  /\ UNCHANGED vars

(* IFF names macOS has too. *)
IFF == {"UP", "BROADCAST", "DEBUG", "LOOPBACK", "POINTOPOINT", "NOTRAILERS",
        "RUNNING", "NOARP", "PROMISC", "ALLMULTI", "MULTICAST"}

(* Interfaces with an IPv4 or IPv6 address are kept; a netmask of another    *)
(* family is left out.                                                       *)
Inet == {2, 30}
IfKept(c) == c.family \in Inet
IfEntry(c) ==
  [flags |-> c.flags \cap IFF, family |-> from_host_af_family(c.family),
   socktype |-> 0, proto |-> 0,  \* an ifaddrs entry has neither
   addr |-> [present |-> TRUE, family |-> c.family, rest |-> "port"],
   mask |-> c.mask \in Inet, name |-> c.name]
IfList(ifs) ==
  [i \in {j \in DOMAIN ifs : IfKept(ifs[j])} |-> IfEntry(ifs[i])]

IfBlocks(list) == Blocks(list) \cup {<<i, "mask">> : i \in {j \in DOMAIN list : list[j].mask}}

getifaddrs(ifs, e) ==
  /\ Is("none")
  /\ RawCall(e)
  /\ IF e # 0 THEN UNCHANGED <<obj, heap>>
     ELSE /\ obj' = [kind |-> "ifaddrs", list |-> IfList(ifs)]
          /\ heap' = heap \cup IfBlocks(IfList(ifs))

freeifaddrs ==
  /\ Is("ifaddrs")
  /\ obj' = Nothing
  /\ heap' = heap \ IfBlocks(obj.list)
  /\ UNCHANGED vars

(* ioctl SIOCGIFCONF on some socket: the host is given room for max rows,   *)
(* of any family, and the IPv4 ones are kept (the next row writes over the  *)
(* name of another).  The buffer for the host's rows is no list's block; it *)
(* is not freed when the host fails.                                        *)
IfRows(ifs, max) ==
  LET hostRows == SubSeq(ifs, 1, IF Len(ifs) < max THEN Len(ifs) ELSE max)
  IN  SelectSeq(hostRows, LAMBDA c : c.family = 2)

ifconf(ifs, max, e) ==
  /\ Is("none")
  /\ Wrapped(TRUE, e)
  /\ OnSuccess(TRUE, e, [kind |-> "rows", rows |-> Len(IfRows(ifs, max))])
  /\ UNCHANGED heap

(* ioctl SIOCGIFNETMASK: the address in the request and in the answer must  *)
(* be of a known family.                                                    *)
ifnetmask(family, hostFamily, e) ==
  LET ok == /\ family \in DOMAIN HostLen \cup {0}
            /\ e # 0 \/ hostFamily \in DOMAIN BionicLen \cup {0}
  IN  /\ Is("sock")
      /\ Wrapped(ok, e)
      /\ UNCHANGED <<obj, heap>>

(* getnameinfo returns EAI_FAMILY instead of throwing; inet_pton and        *)
(* inet_ntop hand an unknown family on as AF_UNSPEC.  None copies errno.    *)
EAI_FAMILY == 5
getnameinfo(a, e) ==
  /\ IF ConvertsToHost(a) THEN RawCall(e) ELSE Own(EAI_FAMILY)
  /\ UNCHANGED <<obj, heap>>

inet_pton(family, e) ==
  /\ RawCall(IF to_host_af_family(family) = 0 THEN EINVAL ELSE e)
  /\ UNCHANGED <<obj, heap>>

NetNext ==
  \/ \E e \in Results :
       \/ \E domain \in {0, 10}, type \in {1, 2050, 4}, proto \in {0, 17, 99} :
            Socket(domain, type, proto, e)
       \/ CloseSocket(e)
       \/ \E o \in Options, value \in BOOLEAN : setsockopt(o[1], o[2], value, e)
       \/ \E a \in Addresses : 
            bind(a, e) \/ connect(a, e) \/ (Is("none") /\ getnameinfo(a, e))
       \/ \E room \in {16, 110} : getsockname(room, e)
       \/ \E how \in 0 .. 3 : shutdown(how, e)
       \/ \E hints \in Hints, list \in HostLists : getaddrinfo(hints, list, e)
       \/ \E ifs \in HostIfs : getifaddrs(ifs, e) \/ ifconf(ifs, 2, e)
       \/ \E f \in {0, 2, 99}, h \in {2, 18} : ifnetmask(f, h, e)
       \/ Is("none") /\ \E f \in {2, 99} : inet_pton(f, e)
  \/ freeaddrinfo \/ freeifaddrs
=============================================================================
