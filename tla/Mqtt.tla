-------------------------------- MODULE Mqtt --------------------------------
(***************************************************************************)
(* samples/net/mqtt_publisher, samples/net/cloud/google_iot_mqtt and, further *)
(* down, samples/net/cloud/mqtt_azure: clients of an MQTT broker.  The first  *)
(* two have one thread; the events of the library arrive in calls of          *)
(* mqtt_input() and of everything that sends, and the broker answers,         *)
(* refuses, closes, or is late, at any time.                                *)
(*                                                                         *)
(* The library (external): a client is idle, has a TCP connection, or is      *)
(* connected; whatever fails on the socket closes it and tells the           *)
(* application MQTT_EVT_DISCONNECT; mqtt_disconnect() refuses to work        *)
(* before the CONNACK; mqtt_client_init() forgets a socket that is open.     *)
(***************************************************************************)
EXTENDS Integers, Sequences, FiniteSets

CONSTANTS
  CONNECT_TRIES,  \* APP_CONNECT_TRIES
  MAX_ITERATIONS, \* CONFIG_NET_SAMPLE_APP_MAX_ITERATIONS
  MESSAGE_IDS,    \* what sys_rand32_get() gives, in u16; 0 is not a message id
  G_RETRIES,      \* google: attempts to connect (5)
  MQTT_WINDOW,    \* bound: google's requests and answers under way
  ID_MOD          \* 2^16, where google's message_id wraps

ASSUME MqttAssumption ==
  /\ CONNECT_TRIES \in Nat \ {0} /\ MAX_ITERATIONS \in Nat \ {0} /\ MESSAGE_IDS \subseteq Nat
  /\ G_RETRIES \in Nat \ {0} /\ MQTT_WINDOW \in Nat \ {0} /\ ID_MOD \in Nat \ {0}

VARIABLES
  q_kind,          \* "publisher" or "google"
  q_at, q_count,   \* main thread: its place; its loop counter
  lib,             \* the client: "idle", "tcp" or "connected"
  q_connected,     \* the program's connected
  poll_nfds,       \* publisher: what wait() polls
  message_id,      \* google: pub_data.message_id
  broker,          \* todo: requests under way; inq: answers; open ids; closed
  q_lost,          \* sockets nobody can close any more
  qos2             \* history of a connection: sent, delivered, unanswered ids, clash

clientVars == <<lib, q_connected, poll_nfds, broker, qos2>>
mqttVars == <<q_kind, q_at, q_count, message_id, q_lost, clientVars>>

NoBroker == [todo |-> <<>>, inq |-> <<>>, ids |-> {}, closed |-> FALSE]
NoQos2 == [sent |-> 0, delivered |-> {}, unanswered |-> {}, clash |-> FALSE]

MqttInit ==
  /\ q_kind \in {"publisher", "google"}
  /\ q_at = IF q_kind = "publisher" THEN "try" ELSE "dhcp"
  /\ q_count = 0 /\ lib = "idle" /\ q_connected = FALSE /\ poll_nfds = 0
  /\ message_id = 1 /\ broker = NoBroker /\ q_lost = 0 /\ qos2 = NoQos2

-----------------------------------------------------------------------------
(* The broker, in the order of the connection *)

Answer(packet) == [broker EXCEPT !.todo = Tail(@), !.inq = Append(@, packet)]

BrokerServes ==
  /\ lib # "idle" /\ ~ broker.closed /\ broker.todo # <<>>
  /\ LET packet == Head(broker.todo)
     IN CASE packet.type = "connect" ->
               \E ok \in BOOLEAN : broker' = Answer([type |-> "connack", ok |-> ok]) /\ UNCHANGED qos2
          [] packet.type = "ping" -> broker' = Answer([type |-> "pingresp"]) /\ UNCHANGED qos2
          [] packet.type \in {"pub0", "puback"} ->
               broker' = [broker EXCEPT !.todo = Tail(@)] /\ UNCHANGED qos2
          [] packet.type = "pub1" ->
               broker' = Answer([type |-> "puback"]) /\ UNCHANGED qos2
          [] packet.type = "pub2" ->   \* an id it knows is a repetition
               /\ broker' = [Answer([type |-> "pubrec", id |-> packet.id]) EXCEPT !.ids = @ \union {packet.id}]
               /\ qos2' = IF packet.id \in broker.ids THEN qos2
                         ELSE [qos2 EXCEPT !.delivered = @ \union {packet.serial}]
          [] packet.type = "pubrel" ->
               /\ broker' = [Answer([type |-> "pubcomp"]) EXCEPT !.ids = @ \ {packet.id}]
               /\ UNCHANGED qos2
  /\ UNCHANGED <<q_kind, q_at, q_count, message_id, q_lost, lib, q_connected, poll_nfds>>

BrokerCloses ==
  /\ lib # "idle" /\ ~ broker.closed /\ broker' = [broker EXCEPT !.closed = TRUE]
  /\ UNCHANGED <<q_kind, q_at, q_count, message_id, q_lost, lib, q_connected, poll_nfds, qos2>>

(* google: a configuration is published to the client, in one piece or more.  *)
BrokerPublishes ==
  /\ q_kind = "google" /\ lib = "connected" /\ ~ broker.closed
  /\ broker.inq = <<>> /\ Len(broker.todo) < MQTT_WINDOW
  /\ \E whole \in BOOLEAN : broker' = [broker EXCEPT !.inq = <<[type |-> "publish", whole |-> whole]>>]
  /\ UNCHANGED <<q_kind, q_at, q_count, message_id, q_lost, lib, q_connected, poll_nfds, qos2>>

-----------------------------------------------------------------------------
(* The library and the programs' mqtt_evt_handler() *)

(* The socket is closed; MQTT_EVT_DISCONNECT.                                *)
Disconnect ==
  /\ lib' = "idle" /\ broker' = NoBroker /\ qos2' = NoQos2
  /\ q_connected' = FALSE
  /\ poll_nfds' = IF q_kind = "publisher" THEN 0 ELSE poll_nfds

(* A write to a broker that has closed may be noticed or not.                *)
Sends(packet) ==
  /\ broker' = [broker EXCEPT !.todo = Append(@, packet)]
  /\ UNCHANGED <<lib, q_connected, poll_nfds>>

(* MQTT_EVT_PUBREC: the release goes out at once.                            *)
Pubrel(rest) ==
  \/ /\ broker' = [rest EXCEPT !.todo = Append(@, [type |-> "pubrel", id |-> Head(broker.inq).id])]
     /\ qos2' = [qos2 EXCEPT !.unanswered = @ \ {Head(broker.inq).id}]
     /\ UNCHANGED <<lib, q_connected, poll_nfds>>
  \/ broker.closed /\ Disconnect

(* mqtt_input() with something to read.                                      *)
mqtt_input ==
  IF broker.inq = <<>>
  THEN broker.closed /\ Disconnect /\ UNCHANGED message_id
  ELSE LET packet == Head(broker.inq)
           rest == [broker EXCEPT !.inq = Tail(@)]
       IN CASE packet.type = "connack" ->
                 /\ broker' = rest
                 /\ lib' = IF packet.ok THEN "connected" ELSE lib
                 /\ q_connected' = (q_connected \/ packet.ok)
                 /\ UNCHANGED <<poll_nfds, message_id, qos2>>
            [] packet.type = "pubrec" -> Pubrel(rest) /\ UNCHANGED message_id
            [] packet.type = "puback" ->
                 /\ broker' = rest
                 /\ message_id' = IF q_kind = "google" THEN (message_id + 1) % ID_MOD ELSE message_id
                 /\ UNCHANGED <<lib, q_connected, poll_nfds, qos2>>
            [] packet.type = "publish" ->
                 /\ broker' = [rest EXCEPT !.todo = Append(@, [type |-> "puback"])]
                 /\ UNCHANGED <<lib, q_connected, poll_nfds, message_id, qos2>>
            [] OTHER -> broker' = rest /\ UNCHANGED <<lib, q_connected, poll_nfds, message_id, qos2>>

InputWaits == lib # "idle" /\ (broker.inq # <<>> \/ broker.closed)

(* A payload that is not whole: -EAGAIN is an index and a length.            *)
Garbled == broker.inq # <<>> /\ Head(broker.inq) = [type |-> "publish", whole |-> FALSE]

(* mqtt_client_init(): client_init() of the one, the loop of the other.      *)
Forget == q_lost' = q_lost + (IF lib = "idle" THEN 0 ELSE 1)

Unchanged == UNCHANGED <<q_kind, message_id, q_lost>>

-----------------------------------------------------------------------------
(* mqtt_publisher: try_to_connect() *)

client_connect ==
  /\ q_at = "try" /\ q_count < CONNECT_TRIES /\ ~ q_connected
  /\ q_count' = q_count + 1 /\ Forget
  /\ \/ /\ lib' = "tcp" /\ poll_nfds' = 1 /\ q_at' = "connack"
        /\ broker' = [NoBroker EXCEPT !.todo = <<[type |-> "connect"]>>]
     \/ UNCHANGED <<lib, poll_nfds, broker, q_at>>
  /\ UNCHANGED <<q_kind, message_id, q_connected, qos2>>

tried ==
  /\ q_at = "try" /\ (q_count = CONNECT_TRIES \/ q_connected)
  /\ q_at' = IF q_connected THEN "ping" ELSE "over"
  /\ q_count' = 0
  /\ UNCHANGED clientVars /\ Unchanged

(* wait(): the answer, or the time is over.                                 *)
await_connack ==
  /\ q_at = "connack" /\ q_at' = "check"
  /\ \/ poll_nfds = 1 /\ InputWaits /\ mqtt_input
     \/ UNCHANGED <<clientVars, message_id>>
  /\ UNCHANGED <<q_kind, q_count, q_lost>>

(* mqtt_abort(), unless it is connected.                                    *)
check_connack ==
  /\ q_at = "check" /\ q_at' = "try"
  /\ IF q_connected \/ lib = "idle" THEN UNCHANGED clientVars ELSE Disconnect
  /\ UNCHANGED q_count /\ Unchanged

-----------------------------------------------------------------------------
(* mqtt_publisher: publisher() *)

After == [ping |-> "sleep0", sleep0 |-> "pub0", pub0 |-> "sleep1", sleep1 |-> "pub1",
          pub1 |-> "sleep2", sleep2 |-> "pub2", pub2 |-> "sleep3", sleep3 |-> "ping"]

Publish2(id) ==
  qos2' = [sent |-> qos2.sent + 1, delivered |-> qos2.delivered,
           unanswered |-> qos2.unanswered \union {id},
           clash |-> qos2.clash \/ id \in qos2.unanswered]

(* mqtt_ping() and publish(), each under a new random id.                        *)
publish_qos ==
  /\ q_at \in {"ping", "pub0", "pub1", "pub2"}
  /\ IF q_at = "ping" /\ (q_count = MAX_ITERATIONS \/ ~ q_connected)
     THEN q_at' = "bye" /\ UNCHANGED <<clientVars, q_count>>
     ELSE /\ q_count' = IF q_at = "ping" THEN q_count + 1 ELSE q_count
          /\ \E id \in MESSAGE_IDS :
               IF lib # "connected" \/ (q_at \in {"pub1", "pub2"} /\ id = 0)
               THEN q_at' = "bye" /\ UNCHANGED clientVars
               ELSE \/ /\ q_at' = After[q_at]
                       /\ Sends([type |-> q_at, id |-> id, serial |-> qos2.sent + 1])
                       /\ IF q_at = "pub2" THEN Publish2(id) ELSE UNCHANGED qos2
                    \/ broker.closed /\ Disconnect /\ q_at' = "bye"
  /\ Unchanged

(* process_mqtt_and_sleep(): an answer; or mqtt_live(), which pings when it is *)
(* time and has mqtt_input() look for the answer; or the time is over.        *)
process_mqtt_and_sleep ==
  /\ q_at \in {"sleep0", "sleep1", "sleep2", "sleep3"}
  /\ \/ /\ poll_nfds = 1 /\ InputWaits /\ mqtt_input
        /\ q_at' = IF lib' = "idle" THEN "bye" ELSE q_at
     \/ q_at' = After[q_at] /\ UNCHANGED <<clientVars, message_id>>
  /\ UNCHANGED <<q_kind, q_count, q_lost>>

mqtt_disconnect ==
  /\ q_at = "bye" /\ q_at' = "over"
  /\ IF lib = "connected" THEN Disconnect ELSE UNCHANGED clientVars
  /\ UNCHANGED q_count /\ Unchanged

(* main(): the next connection.                                             *)
again ==
  /\ q_at = "over" /\ q_at' = "try" /\ q_count' = 0
  /\ UNCHANGED clientVars /\ Unchanged

PublisherNext ==
  client_connect \/ tried \/ await_connack \/ check_connack \/ publish_qos
    \/ process_mqtt_and_sleep \/ mqtt_disconnect \/ again

-----------------------------------------------------------------------------
(* google_iot_mqtt *)

(* handler() gives got_address for an address that came by DHCP.             *)
app_dhcpv4_startup ==
  /\ q_at = "dhcp" /\ q_at' = "sntp"
  /\ UNCHANGED <<clientVars, q_count>> /\ Unchanged

(* main(), do_sntp(): without a name, or without the time, main() returns.   *)
do_sntp ==
  /\ q_at = "sntp"
  /\ \/ q_at' = "resolve" /\ q_count' = G_RETRIES
     \/ q_at' = "end" /\ UNCHANGED q_count
  /\ UNCHANGED clientVars /\ Unchanged

(* mqtt_startup(), one attempt: the name and the token, which must do, and    *)
(* the connection.  The mqtt_disconnect() of a failure refuses.              *)
g_connect ==
  /\ q_at = "resolve" /\ q_count > 0
  /\ \/ q_at' = "end" /\ UNCHANGED <<clientVars, q_count, q_lost>>
     \/ /\ Forget /\ lib' = "tcp" /\ q_at' = "await"
        /\ broker' = [NoBroker EXCEPT !.todo = <<[type |-> "connect"]>>]
        /\ UNCHANGED <<q_count, q_connected, poll_nfds, qos2>>
     \/ /\ Forget /\ lib' = "idle" /\ broker' = NoBroker /\ q_count' = q_count - 1
        /\ UNCHANGED <<q_at, q_connected, poll_nfds, qos2>>
  /\ UNCHANGED <<q_kind, message_id>>

g_await ==
  /\ q_at = "await"
  /\ \/ InputWaits /\ mqtt_input
     \/ UNCHANGED <<clientVars, message_id>>
  /\ IF q_connected' THEN q_at' = "publish" /\ UNCHANGED q_count
     ELSE q_at' = "resolve" /\ q_count' = q_count - 1
  /\ UNCHANGED <<q_kind, q_lost>>

g_aborted ==
  /\ q_at = "resolve" /\ q_count = 0 /\ q_at' = "end"
  /\ UNCHANGED <<clientVars, q_count>> /\ Unchanged

(* The first error of mqtt_publish() ends the program.                       *)
g_publish ==
  /\ q_at = "publish" /\ Len(broker.todo) + Len(broker.inq) < MQTT_WINDOW
  /\ IF lib # "connected" \/ message_id = 0
     THEN q_at' = "end" /\ UNCHANGED clientVars
     ELSE \/ q_at' = "idle" /\ Sends([type |-> "pub1"]) /\ UNCHANGED qos2
          \/ broker.closed /\ Disconnect /\ q_at' = "end"
  /\ UNCHANGED q_count /\ Unchanged

(* Idling until next_alive, and mqtt_live().                                *)
g_idle ==
  /\ q_at = "idle"
  /\ \/ InputWaits /\ Garbled /\ q_at' = "wild" /\ UNCHANGED <<clientVars, message_id>>
     \/ InputWaits /\ ~ Garbled /\ mqtt_input /\ UNCHANGED q_at
     \/ q_at' = "publish" /\ UNCHANGED <<clientVars, message_id>>
  /\ UNCHANGED <<q_kind, q_count, q_lost>>

GoogleNext == app_dhcpv4_startup \/ do_sntp \/ g_connect \/ g_await \/ g_aborted \/ g_publish \/ g_idle

MqttNext ==
  \/ (q_kind = "publisher" /\ PublisherNext) \/ (q_kind = "google" /\ GoogleNext)
  \/ BrokerServes \/ BrokerCloses \/ BrokerPublishes

-----------------------------------------------------------------------------
(* Properties *)

(* The program's connected is the library's, whoever ended the connection,    *)
(* and wait() polls the socket of an open connection only.                  *)
ConnectedAgrees ==
  /\ q_connected <=> lib = "connected"
  /\ poll_nfds = 1 => lib # "idle"

(* mqtt_publisher closes every socket before it opens the next; google loses  *)
(* the one of an attempt that got no CONNACK, five at most.                  *)
SocketsKept == q_lost <= IF q_kind = "publisher" THEN 0 ELSE G_RETRIES - q_count

(* A message of QoS 2 reaches the broker's subscribers once, the answers to    *)
(* earlier ones being late or not, unless its random id is that of one the    *)
(* broker has not answered.                                                *)
Qos2Once ==
  LET underWay == {p \in {broker.todo[k] : k \in DOMAIN broker.todo} : p.type = "pub2"}
  IN lib = "connected" /\ ~ qos2.clash =>
       qos2.delivered \union {p.serial : p \in underWay} = 1 .. qos2.sent

MqttAgrees == ConnectedAgrees /\ SocketsKept /\ Qos2Once

-----------------------------------------------------------------------------
(***************************************************************************)
(* samples/net/cloud/mqtt_azure, with DHCP: main connects and publishes,     *)
(* the network's events end the connection from another thread, and two      *)
(* delayed works wake main.                                                *)
(*                                                                         *)
(* A call of the MQTT library holds the client's mutex: when it is under way *)
(* mqtt_abort waits for its end, and main for the end of mqtt_abort.         *)
(***************************************************************************)

CONSTANTS
  L4_EVENTS,   \* bound: changes of the network
  RETRIES      \* retries of try_to_connect

ASSUME AzureAssumption == L4_EVENTS \in Nat /\ RETRIES \in Nat \ {0}

VARIABLES
  az,           \* main: its step and the retries left
  mqtt,         \* mqtt_connected, nfds, and whether the library has a connection
  sems,         \* mqtt_start and publish_msg
  works,        \* pub_message and check_network_conn: is the timer running
  l4,           \* the network: up, bound by DHCP, the events, and l4_event_handler
  dropped       \* history: the connection ended without l4_event_handler since mqtt_start was taken

azVars == <<az, mqtt, sems, works, l4, dropped>>

NoConnection == [connected |-> FALSE, nfds |-> 0, open |-> FALSE]

AzureInit ==
  /\ az = [at |-> "mqtt_start", retries |-> 0] /\ mqtt = NoConnection
  /\ sems = [mqtt_start |-> 0, publish_msg |-> 0]
  /\ works = [pub_message |-> FALSE, check |-> FALSE]
  /\ l4 = [up |-> FALSE, bound |-> FALSE, events |-> 0, at |-> "idle"] /\ dropped = FALSE

-----------------------------------------------------------------------------
(* main *)

Calls == {"connect", "input", "subscribe", "abort", "publish", "read"}

(* One step of main: it stands still while mqtt_abort of the handler runs,   *)
(* but for the end of a call that was under way.                           *)
Step(from, to) ==
  /\ az.at = from /\ az' = [az EXCEPT !.at = to]
  /\ l4.at = "idle" \/ (l4.at = "abort" /\ from \in Calls)
  /\ l4' = (IF l4.at = "abort" THEN [l4 EXCEPT !.at = "aborting"] ELSE l4)

Ends == mqtt' = NoConnection /\ dropped' = (dropped \/ mqtt.open)

connect_to_cloud ==
  /\ sems.mqtt_start = 1 /\ sems' = [sems EXCEPT !.mqtt_start = 0] /\ dropped' = FALSE
  /\ Step("mqtt_start", "resolve") /\ UNCHANGED <<mqtt, works>>

get_mqtt_broker_addrinfo ==
  /\ az.at = "resolve" /\ l4.at = "idle"
  /\ \E found \in BOOLEAN :
       az' = [at |-> IF found THEN "connect" ELSE "returned", retries |-> RETRIES]
  /\ UNCHANGED <<mqtt, sems, works, l4, dropped>>

mqtt_connect ==
  /\ az.at = "connect" /\ l4.at = "idle"
  /\ IF az.retries = 0 THEN az' = [az EXCEPT !.at = "returned"] /\ UNCHANGED mqtt
     ELSE \E ok \in {FALSE, l4.up} :
            /\ az' = [at |-> IF ok THEN "wait" ELSE "connect", retries |-> az.retries - 1]
            /\ mqtt' = (IF ok THEN [connected |-> FALSE, nfds |-> 1, open |-> TRUE] ELSE mqtt)
  /\ UNCHANGED <<sems, works, l4, dropped>>

(* The answer of the broker comes, or poll fails and main gives up. *)
connect_wait ==
  \/ Step("wait", "input") /\ UNCHANGED <<mqtt, sems, works, dropped>>
  \/ Step("wait", "returned") /\ Ends /\ UNCHANGED <<sems, works>>

connect_input ==
  /\ Step("input", "check")
  /\ \/ mqtt.open /\ mqtt' = [mqtt EXCEPT !.connected = TRUE] /\ UNCHANGED dropped
     \/ UNCHANGED <<mqtt, dropped>>
     \/ Ends
  /\ UNCHANGED <<sems, works>>

connect_check ==
  /\ Step("check", IF mqtt.connected THEN "subscribe" ELSE "abort")
  /\ UNCHANGED <<mqtt, sems, works, dropped>>

subscribe ==
  /\ Step("subscribe", "loop") /\ (Ends \/ UNCHANGED <<mqtt, dropped>>) /\ UNCHANGED <<sems, works>>

(* mqtt_abort, and the wait of up to ten seconds behind it. *)
connect_abort ==
  /\ Step("abort", "connect") /\ mqtt' = NoConnection /\ UNCHANGED <<sems, works, dropped>>

publish_message ==
  /\ Step("loop", IF mqtt.connected THEN "publish" ELSE "mqtt_start")
  /\ UNCHANGED <<mqtt, sems, works, dropped>>

(* A message whose random id is 0 is refused, and the connection stays.      *)
publish ==
  \/ mqtt.open /\ Step("publish", "poll") /\ UNCHANGED <<mqtt, sems, works, dropped>>
  \/ Step("publish", "submit") /\ (Ends \/ UNCHANGED <<mqtt, dropped>>) /\ UNCHANGED <<sems, works>>

publish_wait ==
  /\ \E answer \in BOOLEAN : Step("poll", IF answer /\ mqtt.nfds > 0 THEN "read" ELSE "submit")
  /\ UNCHANGED <<mqtt, sems, works, dropped>>

publish_input ==
  /\ Step("read", "submit") /\ (Ends \/ UNCHANGED <<mqtt, dropped>>) /\ UNCHANGED <<sems, works>>

publish_submit ==
  /\ Step("submit", "publish_msg") /\ works' = [works EXCEPT !.pub_message = TRUE]
  /\ UNCHANGED <<mqtt, sems, dropped>>

publish_taken ==
  /\ sems.publish_msg = 1 /\ sems' = [sems EXCEPT !.publish_msg = 0]
  /\ Step("publish_msg", "loop") /\ UNCHANGED <<mqtt, works, dropped>>

-----------------------------------------------------------------------------
(* The works and the network *)

publish_timeout ==
  /\ works.pub_message /\ works' = [works EXCEPT !.pub_message = FALSE]
  /\ sems' = [sems EXCEPT !.publish_msg = 1]
  /\ UNCHANGED <<az, mqtt, l4, dropped>>

(* The address may not be there yet when the work looks. *)
dhcp_bound ==
  /\ l4.up /\ ~ l4.bound /\ l4' = [l4 EXCEPT !.bound = TRUE]
  /\ UNCHANGED <<az, mqtt, sems, works, dropped>>

(* The work is not submitted again when there is no address yet. *)
check_network_connection_once ==
  /\ works.check /\ works' = [works EXCEPT !.check = FALSE]
  /\ sems' = (IF ~ mqtt.connected /\ l4.bound THEN [sems EXCEPT !.mqtt_start = 1] ELSE sems)
  /\ UNCHANGED <<az, mqtt, l4, dropped>>

check_network_connection ==
  /\ works.check
  /\ works' = [works EXCEPT !.check = ~ mqtt.connected /\ ~ l4.bound]
  /\ sems' = (IF ~ mqtt.connected /\ l4.bound THEN [sems EXCEPT !.mqtt_start = 1] ELSE sems)
  /\ UNCHANGED <<az, mqtt, l4, dropped>>

l4_connected ==
  /\ ~ l4.up /\ l4.at = "idle" /\ l4.events < L4_EVENTS
  /\ \E bound \in BOOLEAN : l4' = [l4 EXCEPT !.up = TRUE, !.bound = bound, !.events = @ + 1]
  /\ works' = [works EXCEPT !.check = TRUE]
  /\ UNCHANGED <<az, mqtt, sems, dropped>>

(* abort_mqtt_connection up to mqtt_abort. *)
l4_disconnected ==
  /\ l4.up /\ l4.at = "idle" /\ l4.events < L4_EVENTS
  /\ sems' = [sems EXCEPT !.publish_msg = 1]
  /\ l4' = [up |-> FALSE, bound |-> FALSE, events |-> l4.events + 1,
            at |-> IF mqtt.connected THEN "abort" ELSE "idle"]
  /\ mqtt' = [mqtt EXCEPT !.connected = FALSE]
  /\ works' = (IF mqtt.connected THEN works ELSE [works EXCEPT !.check = FALSE])
  /\ UNCHANGED <<az, dropped>>

abort_mqtt_connection ==
  /\ l4.at \in {"abort", "aborting"} /\ l4' = [l4 EXCEPT !.at = "idle"]
  /\ mqtt' = NoConnection
  /\ works' = [pub_message |-> FALSE, check |-> FALSE]
  /\ UNCHANGED <<az, sems, dropped>>

AzureNext ==
  \/ connect_to_cloud \/ get_mqtt_broker_addrinfo \/ mqtt_connect \/ connect_wait \/ connect_input
  \/ connect_check \/ subscribe \/ connect_abort \/ publish_message \/ publish \/ publish_wait
  \/ publish_input \/ publish_submit \/ publish_taken \/ publish_timeout \/ dhcp_bound
  \/ check_network_connection \/ l4_connected \/ l4_disconnected \/ abort_mqtt_connection

-----------------------------------------------------------------------------
(* Properties *)

(* l4_event_handler and the works: whenever main waits there is who wakes it: *)
(* for its next message always, and for the network, once this is up, unless *)
(* the broker or a failing call ended the connection, of which nobody tells. *)
CloudWakesMain ==
  /\ az.at = "publish_msg" => sems.publish_msg = 1 \/ works.pub_message
  /\ az.at = "mqtt_start" /\ l4.up => sems.mqtt_start = 1 \/ works.check \/ dropped
=============================================================================
