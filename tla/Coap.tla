-------------------------------- MODULE Coap --------------------------------
(***************************************************************************)
(* samples/net/sockets/coap_client against samples/net/sockets/coap_server *)
(* (CoapServer): each client sends four simple requests, fetches the large *)
(* resource block by block, observes /obs for some notifications and sends *)
(* a RESET to unregister.  It never sends anything twice and waits without *)
(* a time-out: what arrives next is taken for the reply.                   *)
(***************************************************************************)
EXTENDS CoapServer

CONSTANT REPLIES  \* replies of the observing phase before the client unregisters

ASSUME CoapClientAssumption == REPLIES \in Nat \ {0}

VARIABLES
  phase,    \* of each client: what main() is at
  sent,     \* whether it waits for a reply
  blk_ctx,  \* the block it asks for
  got,      \* history: the blocks it has received
  counter   \* replies in the observing phase

clientVars == <<phase, sent, blk_ctx, got, counter>>
coapVars == <<network, serverVars, clientVars>>

(* send_simple_coap_msgs_and_wait_for_reply, get_large_coap_msgs, register_observer. *)
Order == <<"get", "put", "post", "delete", "large", "obs", "done">>
Simples == {"get", "put", "post", "delete"}
After(p) == Order[1 + CHOOSE i \in DOMAIN Order : Order[i] = p]

CoapInit ==
  /\ ServerInit
  /\ phase = [c \in Client |-> "get"] /\ sent = [c \in Client |-> FALSE]
  /\ blk_ctx = [c \in Client |-> 0] /\ got = [c \in Client |-> {}]
  /\ counter = [c \in Client |-> 0]

-----------------------------------------------------------------------------
(* The client *)

NextRequest(c) ==
  CASE phase[c] \in Simples -> Datagram(c, "CON", phase[c], "test", None, FALSE, phase[c] \in {"put", "post"}, 0)
    [] phase[c] = "large"   -> Datagram(c, "CON", "get", "large", blk_ctx[c], FALSE, FALSE, 0)
    [] phase[c] = "obs"     -> Datagram(c, "CON", "observe", "obs", None, FALSE, FALSE, 0)

(* send_simple_coap_request, send_large_coap_request, send_obs_coap_request *)
SendRequest(c) ==
  /\ phase[c] # "done" /\ ~ sent[c]
  /\ Send(net, {NextRequest(c)})
  /\ sent' = [sent EXCEPT ![c] = TRUE]
  /\ UNCHANGED <<open, strays, serverVars, phase, blk_ctx, got, counter>>

(* wait, recv *)
Take(c, d) == phase[c] # "done" /\ sent[c] /\ d \in net /\ d.to = c

process_simple_coap_reply(c, d) ==
  /\ Take(c, d) /\ phase[c] \in Simples
  /\ phase' = [phase EXCEPT ![c] = After(phase[c])]
  /\ sent' = [sent EXCEPT ![c] = FALSE]
  /\ net' = net \ {d}
  /\ UNCHANGED <<open, lossy, strays, serverVars, blk_ctx, got, counter>>

(* coap_update_from_block, coap_next_block: on to the block after the one   *)
(* that came, until one comes without "more".                              *)
process_large_coap_reply(c, d) ==
  /\ Take(c, d) /\ phase[c] = "large"
  /\ got' = [got EXCEPT ![c] = @ \cup {d.block}]
  /\ blk_ctx' = [blk_ctx EXCEPT ![c] = IF d.more THEN d.block + 1 ELSE 0]
  /\ phase' = IF d.more THEN phase ELSE [phase EXCEPT ![c] = After("large")]
  /\ sent' = [sent EXCEPT ![c] = FALSE]
  /\ net' = net \ {d}
  /\ UNCHANGED <<open, lossy, strays, serverVars, counter>>

(* The reply and the notifications count alike; a CON is acknowledged.  The *)
(* last one is followed by the RESET, with an id of its own, and the socket *)
(* is closed.                                                              *)
process_obs_coap_reply(c, d) ==
  /\ Take(c, d) /\ phase[c] = "obs"
  /\ counter' = [counter EXCEPT ![c] = @ + 1]
  /\ LET last == counter[c] + 1 = REPLIES
         ack == IF d.type = "CON" THEN {Ack(c, d.id)} ELSE {}
         reset == IF last THEN {Datagram(c, "RST", "none", "none", None, FALSE, FALSE, 0)} ELSE {}
         rest == net \ IF last THEN Waiting(c, net) ELSE {d}
         out == ack \cup reset
     IN /\ phase' = IF last THEN [phase EXCEPT ![c] = "done"] ELSE phase
        /\ open' = IF last THEN open \ {c} ELSE open
        /\ Send(rest, out)
  /\ UNCHANGED <<strays, serverVars, sent, blk_ctx, got>>

ClientStep(c) == \/ SendRequest(c)
                 \/ \E d \in net : \/ process_simple_coap_reply(c, d)
                                   \/ process_large_coap_reply(c, d)
                                   \/ process_obs_coap_reply(c, d)

-----------------------------------------------------------------------------

Server == (Main \/ HandleStray \/ retransmit_request \/ update_counter) /\ UNCHANGED clientVars

CoapNext == \/ Server
            \/ \E c \in Client : ClientStep(c)
            \/ Lose /\ UNCHANGED clientVars

CoapSpec == CoapInit /\ [][CoapNext]_coapVars

(* Threads run and timers expire; nothing keeps the network from losing.   *)
CoapFairness ==
  /\ WF_coapVars(Main /\ UNCHANGED clientVars)
  /\ WF_coapVars(retransmit_request /\ UNCHANGED clientVars)
  /\ WF_coapVars(update_counter /\ UNCHANGED clientVars)
  /\ \A c \in Client : WF_coapVars(ClientStep(c))

CoapFairSpec == CoapSpec /\ CoapFairness

-----------------------------------------------------------------------------
(* Properties *)

(* When get_large_coap_msgs returns, the client has every block, whatever   *)
(* other transfers share the server's block context.                       *)
EveryBlockFetched == \A c \in Client : phase[c] \in {"obs", "done"} => got[c] = 0 .. BLOCKS - 1

ResetUnderWay(c) == \/ \E d \in net : d.to = "server" /\ d.from = c
                    \/ main.pc = "remove"

(* Once the RESET of a client is handled it is off the observer list: "client *)
(* shouldn't receive any notifications" (coap-client.c).  Not when the RESET  *)
(* was lost, or its id was that of a pending notification.                   *)
ResetUnregisters ==
  \A c \in Client : phase[c] = "done" /\ ~ lossy /\ c \notin dropped /\ ~ ResetUnderWay(c)
    => \A i \in DOMAIN list : observers[list[i]] # c

(* As long as somebody observes, notifications go out again and again,      *)
(* though nobody may acknowledge them (not to everybody: the first on the  *)
(* list may take every entry that becomes free).                           *)
NotificationsGoOn == []<>(list = <<>>) \/ []<><<update_counter /\ pendings' # pendings>>_coapVars

(* Every client finishes, unless a datagram was lost, the observer table was *)
(* full, a request was taken for the answer to a notification, or a host    *)
(* that acknowledges nothing observes too.                                 *)
ClientsFinish ==
  \A c \in Client : <>(\/ phase[c] = "done" \/ c \in dropped \/ lossy \/ clashes > 0
                       \/ \E o \in Slot : observers[o] = Stranger)

(* Both: the observers and the clients are served.                          *)
EverybodyServed == NotificationsGoOn /\ ClientsFinish

-----------------------------------------------------------------------------
(* For TLC: the stranger asks for every resource, with and without a block     *)
(* number, observes, unregisters, and uploads blocks of either kind.          *)

Ask(type, method, path, block) == Datagram(Stranger, type, method, path, block, FALSE, FALSE, 0)

Asked ==
  {Ask("NON", r.method, r.path, None) : r \in Plain} \cup {Ask("CON", "get", "separate", None)}
  \cup {Ask("CON", "get", "large", b) : b \in {None, 0}}
  \cup {Ask("CON", m, "obs", None) : m \in {"get", "observe"}}
  \cup {Ask("RST", "none", "none", None)}
  \cup {Datagram(Stranger, "CON", r[1], r[2], b, TRUE, payload, 0) :
          r \in {<<"put", "large-update">>, <<"post", "large-create">>},
          b \in {None, 0}, payload \in BOOLEAN}
=============================================================================
