------------------------------- MODULE Zperf -------------------------------
(***************************************************************************)
(* samples/net/zperf: the UDP test, the TCP test and the shell's commands   *)
(* of one device.  The two tests share the code of zperf_session.c and no   *)
(* state - each has its own rows of sessions[][] - and the sessions know    *)
(* nothing of where the shell has its contexts from, so that their steps    *)
(* commute: a behaviour here is of one of the three.                       *)
(*                                                                         *)
(* The commands of zperf_shell.c and the two receivers they start           *)
(* (zperf_udp_receiver_init, zperf_tcp_receiver_init) are modelled here:    *)
(* the addresses of the interface and the contexts of the stack's pool that  *)
(* a command takes, uses and puts.  IPv6 and IPv4 are both on, as prj.conf  *)
(* has them, so that every command takes one context of each.              *)
(***************************************************************************)
EXTENDS ZperfUdp, ZperfTcp, Integers, FiniteSets, FiniteSetsExt

CONSTANTS
  MAX_CONTEXTS,  \* CONFIG_NET_MAX_CONTEXTS
  ADDRESSES      \* of each family, the unicast addresses an interface has room for

Family == {"v6", "v4"}

ASSUME ZperfShellAssumption ==
  MAX_CONTEXTS \in Nat \ {0} /\ ADDRESSES \in [Family -> Nat \ {0}]

VARIABLES
  static,     \* the flags the commands keep: init_ok, udp_stopped, init_done, tcp_running
  iface,      \* of each family, the addresses of the interface
  addr_my,    \* families of which in6_addr_my, in4_addr_my is not unspecified
  used,       \* contexts in use
  serving,    \* those a receiver's callback is installed on, with their family and protocol
  accepted,   \* those of connections a listening context accepted
  closing,    \* those of connections whose context was put, and that the stack still closes
  command,    \* the command the shell's thread is in, with its local variables
  abandoned   \* history: contexts a command had taken when it returned for a failure

shellVars == <<static, iface, addr_my, used, serving, accepted, closing, command, abandoned>>

(* The program's own address of a family, and one set by hand; those after  *)
(* them are the stack's.                                                   *)
Own == 1
Given == 2

None == 0
Prompt == [at |-> "prompt"]
Other(f) == IF f = "v6" THEN "v4" ELSE "v6"

(* A command from its first net_context_get on: what it is for, the family  *)
(* it is to use, and the context it has of each family.                    *)
Started(kind, proto, f) ==
  [at |-> "get", kind |-> kind, proto |-> proto, family |-> f, context |-> [g \in Family |-> None]]

Held == IF command = Prompt THEN {} ELSE {command.context[f] : f \in Family} \ {None}
Servers(proto) == {s.context : s \in {t \in serving : t.proto = proto}}

(* The network set-up has given the interface its own addresses, or not yet, *)
(* and router advertisements may have filled its table of IPv6 addresses.   *)
ShellInit ==
  /\ static = [init_ok |-> FALSE, udp_stopped |-> TRUE, init_done |-> FALSE, tcp_running |-> FALSE]
  /\ \E own \in BOOLEAN, full \in BOOLEAN :
       iface = [f \in Family |-> IF own THEN {Own}
                                 ELSE IF full /\ f = "v6" THEN {Given + i : i \in 1..ADDRESSES[f]} ELSE {}]
  /\ addr_my = {}
  /\ used = {} /\ serving = {} /\ accepted = {} /\ closing = {}
  /\ command = Prompt
  /\ abandoned = {}

-----------------------------------------------------------------------------
(* Addresses *)

HasRoom(f, a) == a \in iface[f] \/ Cardinality(iface[f]) < ADDRESSES[f]

(* zperf_get_ipv6_addr, zperf_get_ipv4_addr: the address is there or added, *)
(* and an IPv6 one stays when its prefix cannot be.                        *)
WithAddress(f, a) == IF HasRoom(f, a) THEN iface[f] \cup {a} ELSE iface[f]
Outcomes(f, a) == IF ~ HasRoom(f, a) THEN {FALSE} ELSE IF f = "v6" THEN BOOLEAN ELSE {TRUE}

(* do_init, zperf_init: the first command sets the program's own addresses; *)
(* in*_addr_my is only written when that succeeds.                         *)
do_init ==
  IF static.init_ok THEN UNCHANGED <<iface, addr_my>>
  ELSE \E ok6 \in Outcomes("v6", Own), ok4 \in Outcomes("v4", Own) :
         /\ iface' = [f \in Family |-> WithAddress(f, Own)]
         /\ addr_my' = addr_my \cup {f \in Family : IF f = "v6" THEN ok6 ELSE ok4}

AtPrompt == command = Prompt /\ UNCHANGED <<used, serving, accepted, closing, abandoned>>

(* A command that gives its help, or finds its arguments wrong: cmd_udp,    *)
(* cmd_tcp, an upload without an address or with one it cannot parse.      *)
Refuse ==
  /\ AtPrompt
  /\ do_init
  /\ static' = [static EXCEPT !.init_ok = TRUE]
  /\ UNCHANGED command

(* The first command of all is "setip", or it is a later one. *)
cmd_setip(f) ==
  /\ AtPrompt
  /\ static.init_ok
  /\ iface' = [iface EXCEPT ![f] = WithAddress(f, Given)]
  /\ UNCHANGED <<static, addr_my, command>>

-----------------------------------------------------------------------------
(* Commands that take contexts *)

(* cmd_udp_upload, cmd_tcp_upload: IPv6 when the address parses as one. *)
shell_cmd_upload(proto, f) ==
  /\ AtPrompt
  /\ do_init
  /\ static' = [static EXCEPT !.init_ok = TRUE]
  /\ command' = Started("upload", proto, f)

(* cmd_udp_upload2, cmd_tcp_upload2: to the configured destination, from an *)
(* own address that must not be unspecified.                               *)
shell_cmd_upload2(proto, f) ==
  /\ AtPrompt
  /\ do_init
  /\ static' = [static EXCEPT !.init_ok = TRUE]
  /\ command' = IF f \in addr_my' THEN Started("upload", proto, f) ELSE Prompt

(* Started once, for good, whatever becomes of zperf_udp_receiver_init. *)
shell_udp_download ==
  /\ AtPrompt
  /\ do_init
  /\ static' = [static EXCEPT !.init_ok = TRUE, !.udp_stopped = FALSE]
  /\ command' = IF static.udp_stopped THEN Started("download", "udp", "v4") ELSE Prompt

(* After a first session's end only the flag is set again. *)
shell_tcp_download ==
  /\ AtPrompt
  /\ do_init
  /\ static' = [static EXCEPT !.init_ok = TRUE, !.tcp_running = @ \/ static.init_done]
  /\ command' = IF static.tcp_running \/ static.init_done THEN Prompt ELSE Started("download", "tcp", "v4")

(* A command returns for a failure: nothing puts what it has taken. *)
Abandon ==
  /\ command' = Prompt
  /\ abandoned' = abandoned \cup Held

(* net_context_get, in the order of the command: setup_contexts takes IPv6   *)
(* first, the receivers IPv4 first.                                        *)
Order(kind) == IF kind = "upload" THEN <<"v6", "v4">> ELSE <<"v4", "v6">>
NextToGet == IF command.context[Order(command.kind)[1]] = None THEN Order(command.kind)[1] ELSE Order(command.kind)[2]

(* A receiver also sets its own address - in*_addr_my is written before the *)
(* interface refuses it - and the UDP one binds at once.                   *)
GetContext ==
  LET f == NextToGet
      free == (1..MAX_CONTEXTS) \ used
  IN
  /\ command.at = "get"
  /\ IF free = {}
     THEN Abandon /\ UNCHANGED <<used, iface, addr_my>>
     ELSE
       LET taken == [command EXCEPT !.context[f] = Min(free),
                                    !.at = IF f = Order(command.kind)[2] THEN "bind" ELSE "get"]
       IN
       /\ used' = used \cup {Min(free)}
       /\ IF command.kind = "upload"
          THEN command' = taken /\ UNCHANGED <<iface, addr_my, abandoned>>
          ELSE /\ iface' = [iface EXCEPT ![f] = WithAddress(f, Own)]
               /\ addr_my' = addr_my \cup {f}
               /\ \E ok \in Outcomes(f, Own) \cup (IF command.proto = "udp" THEN {FALSE} ELSE {}) :
                    IF ok THEN command' = taken /\ UNCHANGED abandoned
                    ELSE command' = Prompt /\ abandoned' = abandoned \cup Held \cup {Min(free)}
  /\ UNCHANGED <<static, serving, accepted, closing>>

(* setup_contexts binds the context of the family in use; a receiver        *)
(* listens, or registers its callback, on both, IPv6 first.                *)
Bind ==
  /\ command.at = "bind"
  /\ \/ Abandon /\ UNCHANGED <<static, serving>>
     \/ /\ command.kind = "upload"
        /\ command' = [command EXCEPT !.at = "connect"]
        /\ UNCHANGED <<static, serving, abandoned>>
     \/ LET On(f) == [context |-> command.context[f], proto |-> command.proto, family |-> f] IN
        /\ command.kind = "download"
        /\ \/ Abandon /\ serving' = serving \cup {On("v6")} /\ UNCHANGED static
           \/ /\ command' = Prompt
              /\ serving' = serving \cup {On(f) : f \in Family}
              /\ static' = IF command.proto = "tcp"
                           THEN [static EXCEPT !.init_done = TRUE, !.tcp_running = TRUE] ELSE static
              /\ UNCHANGED abandoned
  /\ UNCHANGED <<iface, addr_my, used, accepted, closing>>

-----------------------------------------------------------------------------
(* execute_upload *)

(* The label out: *)
PutBoth ==
  /\ used' = used \ Held
  /\ command' = Prompt

(* The connect fails; or a UDP test has run and has printed its statistics. *)
UploadEnds ==
  /\ command.at = "connect"
  /\ PutBoth
  /\ UNCHANGED <<static, iface, addr_my, serving, accepted, closing, abandoned>>

(* "We either upload using IPv4 or IPv6, not both": the other one is put. *)
TcpConnected ==
  /\ command.at = "connect" /\ command.proto = "tcp"
  /\ used' = used \ {command.context[Other(command.family)]}
  /\ command' = [command EXCEPT !.at = "upload", !.context[Other(command.family)] = None]
  /\ UNCHANGED <<static, iface, addr_my, serving, accepted, closing, abandoned>>

(* zperf_tcp_upload ends with a net_context_put of its own; the stack keeps  *)
(* the context until the connection is closed.                             *)
TcpUploadEnds ==
  /\ command.at = "upload"
  /\ closing' = closing \cup Held
  /\ command' = Prompt
  /\ UNCHANGED <<static, iface, addr_my, used, serving, accepted, abandoned>>

-----------------------------------------------------------------------------
(* The stack *)

(* A connection is closed; tcp_received clears the flag at the end of one.  *)
Closes(c) ==
  /\ c \in closing \cup accepted
  /\ used' = used \ {c}
  /\ closing' = closing \ {c} /\ accepted' = accepted \ {c}
  /\ \E running \in {static.tcp_running, static.tcp_running /\ c \notin accepted} :
       static' = [static EXCEPT !.tcp_running = running]
  /\ UNCHANGED <<iface, addr_my, serving, command, abandoned>>

(* A connection to a listening context takes one of the pool. *)
Accepts ==
  LET free == (1..MAX_CONTEXTS) \ used IN
  /\ Servers("tcp") # {} /\ free # {}
  /\ used' = used \cup {Min(free)}
  /\ accepted' = accepted \cup {Min(free)}
  /\ UNCHANGED <<static, iface, addr_my, serving, closing, command, abandoned>>

Upload == \E proto \in {"udp", "tcp"}, f \in Family : shell_cmd_upload(proto, f) \/ shell_cmd_upload2(proto, f)

ShellNext ==
  \/ Refuse \/ (\E f \in Family : cmd_setip(f))
  \/ Upload \/ shell_udp_download \/ shell_tcp_download
  \/ command # Prompt /\ (GetContext \/ Bind \/ UploadEnds \/ TcpConnected \/ TcpUploadEnds)
  \/ (\E c \in 1..MAX_CONTEXTS : Closes(c)) \/ Accepts

-----------------------------------------------------------------------------
(* Properties of the commands *)

(* execute_upload and the two receivers: a context in use is one a receiver *)
(* serves, a connection's, or held by the running command, or it was left   *)
(* behind by a command that failed to set up its contexts: an upload that   *)
(* got past its set-up puts both exactly once, however it ends, and nobody  *)
(* works on a context that is free again.                                  *)
ContextsComeBack ==
  /\ used = Servers("udp") \cup Servers("tcp") \cup accepted \cup closing \cup Held \cup abandoned
  /\ (Held \cup closing) \cap (Servers("udp") \cup Servers("tcp") \cup accepted \cup abandoned) = {}
  /\ static.init_done => {s.family : s \in {t \in serving : t.proto = "tcp"}} = Family

(* do_init comes before every command's own work: the one address an        *)
(* interface has room for is the program's, whatever is set by hand, so     *)
(* that an upload over IPv4 never lacks a local address.                   *)
OwnAddressFirst == static.init_ok => Own \in iface["v4"] /\ "v4" \in addr_my

-----------------------------------------------------------------------------
(* The program *)

CONSTANTS h1, h2  \* the two hosts of the run

vars == <<udpVars, tcpVars, shellVars>>

Init == UdpInit /\ TcpInit /\ ShellInit

UdpRests == server = "stopped" /\ (\A h \in Host : upload[h] = Idle(0))
ShellRests == ~ static.init_ok /\ \A f \in Family : iface[f] = {}

Udp == ~ init_done /\ ShellRests /\ UdpNext /\ UNCHANGED <<tcpVars, shellVars>>
Tcp == UdpRests /\ ShellRests /\ TcpNext /\ UNCHANGED <<udpVars, shellVars>>
Shell == UdpRests /\ ~ init_done /\ ShellNext /\ UNCHANGED <<udpVars, tcpVars>>

Next == Udp \/ Tcp \/ Shell

Spec == Init /\ [][Next]_vars

(* The rows of the TCP test and the contexts of the shell's commands        *)
(* (tcp_received, execute_upload) come back, but for what its history or a  *)
(* failed set-up explains, and the program's own address is set first       *)
(* (do_init).                                                              *)
ResourcesComeBack == RowsComeBack /\ ContextsComeBack /\ OwnAddressFirst

(* One source runs two uploads of up to two datagrams, another one upload   *)
(* of a single datagram.                                                   *)
Packets == [h \in Host |-> IF h = h1 THEN 2 ELSE 1]
Uploads == [h \in Host |-> IF h = h1 THEN 2 ELSE 1]

(* prj.conf has room for four IPv6 addresses and one IPv4 address. *)
Addresses == [f \in Family |-> IF f = "v6" THEN 2 ELSE 1]
=============================================================================
