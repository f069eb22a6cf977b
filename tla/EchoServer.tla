----------------------------- MODULE EchoServer -----------------------------
(***************************************************************************)
(* samples/net/sockets/echo_server and, further down, echo_client.          *)
(*                                                                         *)
(* The server has an accept thread, a handler thread per connection, and     *)
(* main, which may stop them all.  One of IPv4 and IPv6; they share nothing   *)
(* but main.                                                               *)
(*                                                                         *)
(* The threads are cooperative: each runs from one blocking call to the     *)
(* next.  main is preemptible, so its steps are the reads of what they       *)
(* write.                                                                  *)
(***************************************************************************)
EXTENDS Integers, Sequences, FiniteSets, SequencesExt, FiniteSetsExt

CONSTANTS
  HANDLERS,    \* CONFIG_NET_SAMPLE_NUM_HANDLERS
  RECV_BUF,    \* RECV_BUFFER_SIZE
  PEERS,       \* bound: clients that connect, once each
  PEER_BYTES   \* bound: bytes a client sends

ASSUME EchoServerAssumption == HANDLERS \in Nat \ {0} /\ RECV_BUF \in Nat \ {0} /\ PEERS \in Nat /\ PEER_BYTES \in Nat

Slots == 1 .. HANDLERS
Peers == 1 .. PEERS
Nobody == 0

VARIABLES
  network,     \* connected, want_to_quit and quit_lock
  srv_main,    \* where main is: its step, and the slot it stops next
  acceptor,    \* tcp4_thread: "created", "accept", "close", "ended"
  udp_thread,  \* udp4_thread: "created", "recv", "ended"
  backlog,     \* connections that wait for accept
  accepted,    \* accepted[slot].sock
  in_use,      \* tcp4_handler_in_use
  handler,     \* tcp4_handler_thread: its blocking call, client, offset and what it has to send
  sent,        \* bytes each client has sent
  received,    \* bytes of each client that recv has returned
  echoed,      \* bytes each client has been sent
  hung_up,     \* clients that closed their end or reset
  closed       \* history: how many times close was called for each client

srvVars == <<network, srv_main, acceptor, udp_thread, backlog, accepted, in_use, handler,
             sent, received, echoed, hung_up, closed>>
peerVars == <<sent, hung_up>>
stopVars == <<network, srv_main>>

NoThread == [at |-> "none", client |-> Nobody, offset |-> 0, rest |-> 0]

EchoServerInit ==
  /\ network = [connected |-> FALSE, want_to_quit |-> FALSE, quit_lock |-> 0]
  /\ srv_main = [at |-> "run_app", slot |-> 1]
  /\ acceptor = "created" /\ udp_thread = "created" /\ backlog = <<>>
  /\ accepted = [s \in Slots |-> Nobody] /\ in_use = [s \in Slots |-> FALSE]
  /\ handler = [s \in Slots |-> NoThread]
  /\ sent = [c \in Peers |-> 0] /\ received = sent /\ echoed = sent /\ closed = sent
  /\ hung_up = {}

-----------------------------------------------------------------------------
(* Clients *)

Known(c) == c \in Range(backlog) \/ \E s \in Slots : handler[s].client = c

PeerConnects(c) ==
  /\ acceptor \in {"accept", "close"} /\ Len(backlog) < HANDLERS
  /\ ~ Known(c) /\ closed[c] = 0 /\ received[c] = 0 /\ c \notin hung_up
  /\ \A b \in Peers : b < c => Known(b) \/ closed[b] > 0 \/ b \in hung_up
  /\ backlog' = Append(backlog, c)
  /\ UNCHANGED <<stopVars, acceptor, udp_thread, accepted, in_use, handler, peerVars, received, echoed, closed>>

PeerSends(c) ==
  /\ Known(c) /\ c \notin hung_up /\ sent[c] < PEER_BYTES
  /\ sent' = [sent EXCEPT ![c] = @ + 1]
  /\ UNCHANGED <<stopVars, acceptor, udp_thread, backlog, accepted, in_use, handler, received, echoed, hung_up, closed>>

PeerHangsUp(c) ==
  /\ Known(c) /\ c \notin hung_up /\ hung_up' = hung_up \cup {c}
  /\ UNCHANGED <<stopVars, acceptor, udp_thread, backlog, accepted, in_use, handler, sent, received, echoed, closed>>

-----------------------------------------------------------------------------
(* The accept thread and get_free_slot *)

FreeSlots == {s \in Slots : accepted[s] = Nobody}

process_tcp ==
  /\ acceptor = "accept" /\ backlog # <<>> /\ backlog' = Tail(backlog)
  /\ LET c == Head(backlog)  s == Min(FreeSlots) IN
     IF FreeSlots = {}
     THEN /\ closed' = [closed EXCEPT ![c] = @ + 1] /\ acceptor' = "close"
          /\ UNCHANGED <<accepted, in_use, handler>>
     ELSE /\ accepted' = [accepted EXCEPT ![s] = c]
          /\ in_use' = [in_use EXCEPT ![s] = TRUE]
          /\ handler' = [handler EXCEPT ![s] = [at |-> "recv", client |-> c, offset |-> 0, rest |-> 0]]
          /\ UNCHANGED <<closed, acceptor>>
  /\ UNCHANGED <<stopVars, udp_thread, peerVars, received, echoed>>

(* The close of a connection there is no slot for returns. *)
acceptor_closes ==
  /\ acceptor = "close" /\ acceptor' = "accept"
  /\ UNCHANGED <<stopVars, udp_thread, backlog, accepted, in_use, handler, peerVars, received, echoed, closed>>

-----------------------------------------------------------------------------
(* handle_data *)

(* The end of handle_data, up to its close, which may block. *)
Break(s) ==
  /\ in_use' = [in_use EXCEPT ![s] = FALSE]
  /\ closed' = [closed EXCEPT ![handler[s].client] = @ + 1]
  /\ handler' = [handler EXCEPT ![s].at = "close"]
  /\ UNCHANGED accepted

(* recv returns up to what has come; with room left, a second recv only      *)
(* looks whether there is more: data, or the end of the connection.        *)
recv_data(s) ==
  LET c == handler[s].client  wire == sent[c] - received[c] IN
  /\ handler[s].at = "recv"
  /\ \/ /\ \E n \in 1 .. Min({wire, RECV_BUF - handler[s].offset}) :
             LET offset == handler[s].offset + n  more == wire > n \/ c \in hung_up IN
             /\ received' = [received EXCEPT ![c] = @ + n]
             /\ handler' = [handler EXCEPT ![s] =
                  IF offset = RECV_BUF \/ ~ more
                  THEN [@ EXCEPT !.at = "send", !.offset = offset, !.rest = offset]
                  ELSE [@ EXCEPT !.offset = offset]]
        /\ UNCHANGED <<accepted, in_use, closed>>
     \/ c \in hung_up /\ Break(s) /\ UNCHANGED received
  /\ UNCHANGED <<stopVars, acceptor, udp_thread, backlog, peerVars, echoed>>

sendall(s) ==
  LET c == handler[s].client IN
  /\ handler[s].at = "send"
  /\ \/ /\ \E n \in 1 .. handler[s].rest :
             /\ echoed' = [echoed EXCEPT ![c] = @ + n]
             /\ handler' = [handler EXCEPT ![s] =
                  IF n < @.rest THEN [@ EXCEPT !.rest = handler[s].rest - n]
                  ELSE [@ EXCEPT !.at = "recv", !.offset = 0, !.rest = 0]]
        /\ UNCHANGED <<accepted, in_use, closed>>
     \/ c \in hung_up /\ Break(s) /\ UNCHANGED echoed
  /\ UNCHANGED <<stopVars, acceptor, udp_thread, backlog, peerVars, received>>

(* close returns. *)
handler_ends(s) ==
  /\ handler[s].at = "close"
  /\ accepted' = [accepted EXCEPT ![s] = Nobody]
  /\ handler' = [handler EXCEPT ![s] = NoThread]
  /\ UNCHANGED <<stopVars, acceptor, udp_thread, backlog, in_use, peerVars, received, echoed, closed>>

(* process_udp answers each datagram; it ends with its first error. *)
process_udp ==
  /\ udp_thread = "recv" /\ udp_thread' = "ended"
  /\ network' = [network EXCEPT !.quit_lock = 1]
  /\ UNCHANGED <<srv_main, acceptor, backlog, accepted, in_use, handler, peerVars, received, echoed, closed>>

(* socket, bind or listen fails when a thread starts. *)
start_proto_fails ==
  /\ \/ acceptor = "starts" /\ acceptor' = "ended" /\ UNCHANGED udp_thread
     \/ udp_thread = "starts" /\ udp_thread' = "ended" /\ UNCHANGED acceptor
  /\ network' = [network EXCEPT !.quit_lock = 1]
  /\ UNCHANGED <<srv_main, backlog, accepted, in_use, handler, peerVars, received, echoed, closed>>

start_proto ==
  /\ \/ acceptor = "starts" /\ acceptor' = "accept" /\ UNCHANGED udp_thread
     \/ udp_thread = "starts" /\ udp_thread' = "recv" /\ UNCHANGED acceptor
  /\ UNCHANGED <<stopVars, backlog, accepted, in_use, handler, peerVars, received, echoed, closed>>

-----------------------------------------------------------------------------
(* The network, the shell, main *)

event_handler ==
  /\ \E up \in BOOLEAN :
       /\ up # network.connected \/ network.want_to_quit
       /\ network' = [network EXCEPT !.connected = up, !.want_to_quit = FALSE]
       /\ srv_main' = IF srv_main.at = "run_app" /\ (up \/ network.want_to_quit)
                      THEN [srv_main EXCEPT !.at = "start"] ELSE srv_main
  /\ UNCHANGED <<acceptor, udp_thread, backlog, accepted, in_use, handler, peerVars, received, echoed, closed>>

(* The status is sent again, and main told, whatever the event finds. *)
cmd_sample_quit ==
  /\ ~ network.want_to_quit
  /\ network' = [network EXCEPT !.want_to_quit = TRUE, !.quit_lock = 1]
  /\ UNCHANGED <<srv_main, acceptor, udp_thread, backlog, accepted, in_use, handler, peerVars, received, echoed, closed>>

start_udp_and_tcp ==
  /\ srv_main.at = "start" /\ srv_main' = [srv_main EXCEPT !.at = "quit_lock"]
  /\ acceptor' = "starts" /\ udp_thread' = "starts"
  /\ UNCHANGED <<network, backlog, accepted, in_use, handler, peerVars, received, echoed, closed>>

main_quits ==
  /\ srv_main.at = "quit_lock" /\ network.quit_lock = 1
  /\ srv_main' = [srv_main EXCEPT !.at = IF network.connected THEN "stop_udp" ELSE "end"]
  /\ UNCHANGED <<network, acceptor, udp_thread, backlog, accepted, in_use, handler, peerVars, received, echoed, closed>>

stop_udp ==
  /\ srv_main.at = "stop_udp" /\ udp_thread' = "ended"
  /\ srv_main' = [srv_main EXCEPT !.at = "stop_accept"]
  /\ UNCHANGED <<network, acceptor, backlog, accepted, in_use, handler, peerVars, received, echoed, closed>>

(* The accept thread goes first, and with it who could fill a slot. *)
stop_tcp_accept ==
  /\ srv_main.at = "stop_accept" /\ acceptor' = "ended" /\ backlog' = <<>>
  /\ srv_main' = [srv_main EXCEPT !.at = "look", !.slot = 1]
  /\ UNCHANGED <<network, udp_thread, accepted, in_use, handler, peerVars, received, echoed, closed>>

stop_tcp_look ==
  /\ srv_main.at = "look"
  /\ srv_main' = [srv_main EXCEPT !.at = IF srv_main.slot > HANDLERS THEN "end"
                                          ELSE IF in_use[srv_main.slot] THEN "abort" ELSE "close"]
  /\ UNCHANGED <<network, acceptor, udp_thread, backlog, accepted, in_use, handler, peerVars, received, echoed, closed>>

(* An aborted handler is taken to have closed its socket. *)
stop_tcp_abort_only ==
  /\ srv_main.at = "abort" /\ srv_main' = [at |-> "look", slot |-> srv_main.slot + 1]
  /\ handler' = [handler EXCEPT ![srv_main.slot] = NoThread]
  /\ UNCHANGED <<network, acceptor, udp_thread, backlog, accepted, in_use, peerVars, received, echoed, closed>>

stop_tcp_abort ==
  /\ srv_main.at = "abort" /\ srv_main' = [srv_main EXCEPT !.at = "close"]
  /\ handler' = [handler EXCEPT ![srv_main.slot] = NoThread]
  /\ UNCHANGED <<network, acceptor, udp_thread, backlog, accepted, in_use, peerVars, received, echoed, closed>>

stop_tcp_close ==
  LET s == srv_main.slot IN
  /\ srv_main.at = "close" /\ srv_main' = [at |-> "look", slot |-> s + 1]
  /\ closed' = (IF accepted[s] = Nobody THEN closed ELSE [closed EXCEPT ![accepted[s]] = @ + 1])
  /\ UNCHANGED <<network, acceptor, udp_thread, backlog, accepted, in_use, handler, peerVars, received, echoed>>

EchoServerNext ==
  \/ \E c \in Peers : PeerConnects(c) \/ PeerSends(c) \/ PeerHangsUp(c)
  \/ \E s \in Slots : recv_data(s) \/ sendall(s) \/ handler_ends(s)
  \/ process_tcp \/ acceptor_closes \/ process_udp \/ start_proto_fails \/ start_proto
  \/ event_handler \/ cmd_sample_quit \/ start_udp_and_tcp \/ main_quits
  \/ stop_udp \/ stop_tcp_accept \/ stop_tcp_look \/ stop_tcp_abort \/ stop_tcp_close

-----------------------------------------------------------------------------
(* Properties *)

(* handle_data and sendall: of what was received, a handler has sent back    *)
(* everything but what is in its buffer, in as many pieces as send makes;    *)
(* it waits for more with data in its buffer only when recv cannot block;    *)
(* and no two connections share a slot, which is their buffer and thread.   *)
EchoesAll ==
  \A s \in Slots : LET h == handler[s]  c == h.client IN h # NoThread =>
    /\ h.at # "close" => echoed[c] + (IF h.at = "send" THEN h.rest ELSE h.offset) = received[c]
    /\ h.at = "recv" /\ h.offset > 0 => sent[c] > received[c] \/ c \in hung_up
    /\ accepted[s] = c

(* stop_tcp, which looks at what the handlers change while it looks: when    *)
(* main has stopped the servers each connection that was accepted is closed, *)
(* or its handler is about to, and no thread waits for data.                 *)
StopLeavesNothing ==
  srv_main.at = "end" /\ acceptor = "ended" /\ srv_main.slot > HANDLERS =>
    /\ \A s \in Slots : handler[s].at \in {"none", "close"} /\ (accepted[s] # Nobody => closed[accepted[s]] > 0)
    /\ \A c \in Peers : received[c] > 0 => closed[c] > 0

(* Both, while it runs and when it stops.                                   *)
ServerKeepsOrder == EchoesAll /\ StopLeavesNothing

-----------------------------------------------------------------------------
(***************************************************************************)
(* samples/net/sockets/echo_client, for IPv4: main polls its two sockets,   *)
(* while the system workqueue sends the UDP datagrams of both delayed works *)
(* and may preempt main between any two of its steps.                      *)
(***************************************************************************)

CONSTANTS
  FDS,         \* the size of fds
  TCP_LEN,     \* bytes of lorem_ipsum
  DATAGRAMS,   \* bound: datagrams sent
  CHANGES,     \* bound: changes of the network
  ITERATIONS   \* CONFIG_NET_SAMPLE_SEND_ITERATIONS, when it is not 0

ASSUME EchoClientAssumption ==
  FDS \in Nat /\ TCP_LEN \in Nat \ {0} /\ DATAGRAMS \in Nat /\ CHANGES \in Nat /\ ITERATIONS \in Nat \ {0}

Works == {"recv", "transmit"}

VARIABLES
  echo_main,   \* main: its step, ret, and what it has received
  link,        \* connected, run_app, and the changes so far
  rounds,      \* iterations and i
  nfds,
  tcp_data,    \* conf.ipv4.tcp: expecting, received, and the bytes under way
  udp_data,    \* conf.ipv4.udp: open, expecting; datagrams are counted
  udp_work,    \* the delayed works: "idle", "timer", "queued"
  workq,       \* what the workqueue does: "idle" or "send"
  answers,     \* datagrams that have come back
  restless     \* history: a send of the workqueue overlapped with the cancels of stop_udp

echoVars == <<echo_main, link, rounds, nfds, tcp_data, udp_data, udp_work, workq, answers, restless>>
udpVars == <<udp_data, udp_work, workq, answers>>

Stopped(at) == [at |-> at, ret |-> "ok", got |-> 0]

EchoClientInit ==
  /\ echo_main = Stopped("run_app") /\ nfds = 0
  /\ link = [connected |-> FALSE, run_app |-> 0, changes |-> 0]
  /\ \E n \in {0, ITERATIONS} : rounds = [iterations |-> n, i |-> 0]
  /\ tcp_data = [expecting |-> 0, received |-> 0, wire |-> 0]
  /\ udp_data = [open |-> FALSE, expecting |-> 0]
  /\ udp_work = [w \in Works |-> "idle"] /\ workq = "idle" /\ answers = {} /\ restless = FALSE

-----------------------------------------------------------------------------
(* TCP.  The server sends back what it gets, in order.                      *)

send_tcp_data ==
  \E n \in 1 .. TCP_LEN : tcp_data' = [expecting |-> n, received |-> 0, wire |-> n]

(* recv, again and again, up to what has come; compare_tcp_data; and when     *)
(* the response is complete the next request.                              *)
process_tcp_data ==
  \/ \E n \in 0 .. tcp_data.wire :
       LET got == tcp_data.received + n IN
       CASE got < tcp_data.expecting ->
              /\ tcp_data' = [tcp_data EXCEPT !.received = got, !.wire = @ - n]
              /\ echo_main' = [echo_main EXCEPT !.at = "udp"]
         [] got = tcp_data.expecting ->
              send_tcp_data /\ echo_main' = [echo_main EXCEPT !.at = "udp"]
         [] got > tcp_data.expecting ->
              /\ echo_main' = [echo_main EXCEPT !.at = "next", !.ret = "too much"] /\ UNCHANGED tcp_data
  \/ echo_main' = [echo_main EXCEPT !.at = "next", !.ret = "error"] /\ UNCHANGED tcp_data

-----------------------------------------------------------------------------
(* UDP *)

(* k_delayed_work_cancel: a queued work is taken off the queue. *)
Cancel(w) == udp_work' = [udp_work EXCEPT ![w] = "idle"]

UdpExpires(w) ==
  /\ udp_work[w] = "timer" /\ udp_work' = [udp_work EXCEPT ![w] = "queued"]
  /\ UNCHANGED <<echo_main, link, rounds, nfds, tcp_data, udp_data, workq, answers, restless>>

(* wait_reply and wait_transmit: send_udp_data up to its send, which may     *)
(* block and may fail.                                                     *)
wait_reply(w) ==
  /\ workq = "idle" /\ udp_work[w] = "queued" /\ udp_data.expecting < DATAGRAMS
  /\ Cancel(w) /\ workq' = "send" /\ udp_data' = [udp_data EXCEPT !.expecting = @ + 1]
  /\ UNCHANGED <<echo_main, link, rounds, nfds, tcp_data, answers, restless>>

send_udp_data_ends ==
  /\ workq = "send" /\ workq' = "idle"
  /\ udp_work' = [udp_work EXCEPT !["recv"] = "timer"]
  /\ restless' = (restless \/ echo_main.at = "stop_transmit")
  /\ UNCHANGED <<echo_main, link, rounds, nfds, tcp_data, udp_data, answers>>

(* A datagram may come back late, twice, or never. *)
AnswerComes ==
  /\ udp_data.open /\ \E d \in (1 .. udp_data.expecting) \ answers : answers' = answers \cup {d}
  /\ UNCHANGED <<echo_main, link, rounds, nfds, tcp_data, udp_data, udp_work, workq, restless>>

process_udp_recv ==
  /\ echo_main.at = "udp"
  /\ \/ \E d \in answers : answers' = answers \ {d} /\ echo_main' = [echo_main EXCEPT !.at = "compare", !.got = d]
     \/ answers = {} /\ echo_main' = [echo_main EXCEPT !.at = "next"] /\ UNCHANGED answers
     \/ echo_main' = [echo_main EXCEPT !.at = "next", !.ret = "error"] /\ UNCHANGED answers
  /\ UNCHANGED <<link, rounds, nfds, tcp_data, udp_data, udp_work, workq, restless>>

(* compare_udp_data compares lengths and a common text: a datagram of        *)
(* another length is not what is expected, and the timer runs on.            *)
compare_udp_data ==
  /\ echo_main.at = "compare"
  /\ \E same \in BOOLEAN :
       /\ same \/ echo_main.got # udp_data.expecting
       /\ echo_main' = [echo_main EXCEPT !.at = IF same THEN "transmit" ELSE "next", !.got = 0]
       /\ IF same THEN Cancel("recv") ELSE UNCHANGED udp_work
  /\ UNCHANGED <<link, rounds, nfds, tcp_data, udp_data, workq, answers, restless>>

process_udp_transmit ==
  /\ echo_main.at = "transmit" /\ echo_main' = [echo_main EXCEPT !.at = "next"]
  /\ udp_work' = [udp_work EXCEPT !["transmit"] = "timer"]
  /\ UNCHANGED <<link, rounds, nfds, tcp_data, udp_data, workq, answers, restless>>

-----------------------------------------------------------------------------
(* main and the network *)

link_event ==
  /\ link.changes < CHANGES
  /\ LET up == ~ link.connected  waits == echo_main.at = "run_app" IN
     /\ link' = [connected |-> up, changes |-> link.changes + 1, run_app |-> IF up /\ ~ waits THEN 1 ELSE 0]
     /\ echo_main' = IF up /\ waits THEN Stopped("start_tcp") ELSE echo_main
  /\ UNCHANGED <<rounds, nfds, tcp_data, udpVars, restless>>

(* The stop leaves the numbers of the sockets; they are not used until they  *)
(* are set again, or closed once more.                                     *)
StartFails == echo_main' = [echo_main EXCEPT !.at = "stop", !.ret = "error"]

start_tcp ==
  /\ echo_main.at = "start_tcp"
  /\ \/ send_tcp_data /\ echo_main' = [echo_main EXCEPT !.at = "start_udp"]
     \/ StartFails /\ UNCHANGED tcp_data
  /\ UNCHANGED <<link, rounds, nfds, udpVars, restless>>

(* start_udp: a work that waits for its timer, or in the queue, is           *)
(* initialised under it, and what follows is undefined.                      *)
start_udp ==
  /\ echo_main.at = "start_udp" /\ udp_data.expecting < DATAGRAMS
  /\ IF \E w \in Works : udp_work[w] # "idle"
     THEN echo_main' = [echo_main EXCEPT !.at = "undefined"] /\ UNCHANGED udp_data
     ELSE \/ /\ udp_data' = [open |-> TRUE, expecting |-> udp_data.expecting + 1]
             /\ echo_main' = [echo_main EXCEPT !.at = "sent"]
          \/ StartFails /\ UNCHANGED udp_data
  /\ UNCHANGED <<link, rounds, nfds, tcp_data, udp_work, workq, answers, restless>>

(* The end of start_udp, and prepare_fds, which never starts again at 0. *)
prepare_fds ==
  /\ echo_main.at = "sent"
  /\ udp_work' = [udp_work EXCEPT !["recv"] = "timer"]
  /\ \/ nfds' = nfds + 2 /\ echo_main' = [echo_main EXCEPT !.at = IF nfds + 2 > FDS THEN "undefined" ELSE "loop"]
     \/ StartFails /\ UNCHANGED nfds
  /\ UNCHANGED <<link, rounds, tcp_data, udp_data, workq, answers, restless>>

main_loop ==
  /\ echo_main.at = "loop"
  /\ echo_main' = [echo_main EXCEPT !.at = IF link.connected /\ echo_main.ret = "ok" THEN "poll" ELSE "stop"]
  /\ UNCHANGED <<link, rounds, nfds, tcp_data, udpVars, restless>>

(* poll returns when something has come, and process_tcp is first. *)
run_udp_and_tcp ==
  /\ echo_main.at = "poll" /\ (tcp_data.wire > 0 \/ answers # {})
  /\ process_tcp_data
  /\ UNCHANGED <<link, rounds, nfds, udpVars, restless>>

NextRound ==
  /\ echo_main.at = "next"
  /\ LET i == IF rounds.iterations > 0 THEN rounds.i + 1 ELSE 0 IN
     /\ rounds' = [rounds EXCEPT !.i = i]
     /\ echo_main' = [echo_main EXCEPT !.at = IF rounds.iterations > 0 /\ i >= rounds.iterations THEN "stop" ELSE "loop"]
  /\ UNCHANGED <<link, nfds, tcp_data, udpVars, restless>>

stop_cancels_recv ==
  /\ echo_main.at = "stop" /\ Cancel("recv") /\ echo_main' = [echo_main EXCEPT !.at = "stop_transmit"]
  /\ restless' = (restless \/ workq = "send")
  /\ UNCHANGED <<link, rounds, nfds, tcp_data, udp_data, workq, answers>>

(* The sockets are closed, and main waits for the network or exits. *)
stop_udp_and_tcp ==
  LET exits == rounds.iterations > 0 /\ rounds.i >= rounds.iterations IN
  /\ echo_main.at = "stop_transmit" /\ Cancel("transmit")
  /\ restless' = (restless \/ workq = "send")
  /\ udp_data' = [udp_data EXCEPT !.open = FALSE] /\ answers' = {}
  /\ tcp_data' = [tcp_data EXCEPT !.wire = 0]
  /\ echo_main' = Stopped(IF exits THEN "exit" ELSE IF link.run_app = 1 THEN "start_tcp" ELSE "run_app")
  /\ link' = [link EXCEPT !.run_app = IF exits THEN @ ELSE 0]
  /\ UNCHANGED <<rounds, nfds, workq>>

EchoClientNext ==
  \/ \E w \in Works : UdpExpires(w) \/ wait_reply(w)
  \/ send_udp_data_ends \/ AnswerComes \/ process_udp_recv \/ compare_udp_data \/ process_udp_transmit
  \/ link_event \/ start_tcp \/ start_udp \/ prepare_fds \/ main_loop \/ run_udp_and_tcp \/ NextRound
  \/ stop_cancels_recv \/ stop_udp_and_tcp

-----------------------------------------------------------------------------
(* Properties *)

(* process_udp_proto and the two works: whatever is lost, late or repeated,  *)
(* and wherever the workqueue preempts main, a session that polls will send *)
(* another datagram: one of the works is under way.  process_tcp_proto:      *)
(* with a server that sends back what it gets, the client never sees too     *)
(* much, and what is missing of a response is under way.                     *)
ExchangeGoesOn ==
  /\ echo_main.at \in {"poll", "loop", "udp", "compare", "next"} =>
       workq = "send" \/ \E w \in Works : udp_work[w] # "idle"
  /\ echo_main.ret # "too much"
  /\ echo_main.at \in {"poll", "udp"} => tcp_data.wire = tcp_data.expecting - tcp_data.received

(* stop_udp: between two sessions nothing is sent and no work is             *)
(* initialised while it waits, unless a send was under way when main          *)
(* cancelled the works, or between the two: its end submits one again.      *)
QuietBetweenSessions ==
  \/ restless
  \/ /\ echo_main.at \in {"run_app", "start_tcp", "exit"} => workq = "idle" /\ \A w \in Works : udp_work[w] = "idle"
     /\ echo_main.at = "undefined" => nfds > FDS

(* Both, within a session and between two.                                  *)
SessionsInOrder == ExchangeGoesOn /\ QuietBetweenSessions
=============================================================================
