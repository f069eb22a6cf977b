----------------------------- MODULE CoapServer -----------------------------
(***************************************************************************)
(* samples/net/sockets/coap_server: the CoAP server.  Two threads share    *)
(* the tables: main receives a datagram and handles it; the system         *)
(* workqueue runs retransmit_request and update_counter when their timers  *)
(* expire.  The workqueue's thread is cooperative and preempts main at any *)
(* of its steps; main never runs within a work item.                       *)
(*                                                                         *)
(* A datagram is a record.  Identifiers: a notification gets an id that no *)
(* pending entry and no datagram under way carries (the ids are 16 bits    *)
(* wide); the ids of requests, which other hosts choose, may clash with    *)
(* that of a pending notification.  The heap never runs out: 2048 bytes    *)
(* hold a block for each pending entry and for both threads.               *)
(***************************************************************************)
EXTENDS Integers, Sequences, FiniteSets, SequencesExt

CONSTANTS
  Client,          \* hosts that run samples/net/sockets/coap_client
  Stranger,        \* another host, which sends any request
  NUM_OBSERVERS, NUM_PENDINGS,
  MAX_CYCLES,      \* time-outs of a pending entry before the library gives it up
  BLOCKS,          \* blocks of the large resource
  IDS,             \* bound: the ids of notifications
  CLASHES,         \* bound: requests whose id is that of a pending notification
  QUEUE,           \* the datagrams a socket holds, further ones are dropped
  Strays, STRAYS,  \* what the stranger may send, and bound: how often it does
  None

Host == Client \cup {Stranger}

ASSUME CoapAssumption ==
  /\ NUM_OBSERVERS \in Nat \ {0} /\ NUM_PENDINGS \in Nat \ {0} /\ MAX_CYCLES \in Nat \ {0}
  /\ BLOCKS \in Nat \ {0} /\ IDS \in Nat /\ CLASHES \in Nat /\ QUEUE \in Nat /\ STRAYS \in Nat
  /\ Stranger \notin Client /\ "server" \notin Host
  /\ None \notin Host \cup Nat

Slot == 1 .. NUM_OBSERVERS
Entry == 1 .. NUM_PENDINGS

VARIABLES
  observers,           \* the host in each slot, None when unused
  list,                \* the slots on the observer list of the resource /obs
  resource_to_notify,  \* whether it is set
  pendings,            \* the id of each entry and how often it was cycled, 0 when unused
  retransmit_work, observer_work, \* whether the delayed work is submitted
  ctx,                 \* ctx.current of large_get
  main,                \* where main is, and with what
  net,                 \* the datagrams under way, to the server and from it
  open,                \* the hosts whose socket is open
  lossy,               \* history: a datagram was lost
  strays,              \* datagrams of the stranger left
  clashes,             \* clashes so far
  dropped              \* history: the clients with a request that was not answered

network == <<net, open, lossy, strays>>
tables == <<observers, list, resource_to_notify, pendings>>
works == <<retransmit_work, observer_work>>
serverVars == <<tables, works, ctx, main, clashes, dropped>>

Receiving == [pc |-> "recv"]

ServerInit ==
  /\ observers = [o \in Slot |-> None] /\ list = <<>> /\ resource_to_notify = FALSE
  /\ pendings = [e \in Entry |-> [id |-> 0, n |-> 0]]
  /\ retransmit_work = FALSE /\ observer_work = FALSE
  /\ ctx = 0 /\ main = Receiving
  /\ net = {} /\ open = Client /\ lossy = FALSE /\ strays = STRAYS /\ clashes = 0 /\ dropped = {} 

-----------------------------------------------------------------------------
(* Datagrams *)

(* What a host sends; an ACK or a RESET has no path. *)
Datagram(from, type, method, path, block, more, payload, id) ==
  [to |-> "server", from |-> from, type |-> type, method |-> method, path |-> path,
   block |-> block, more |-> more, payload |-> payload, id |-> id]

Ack(from, id) == Datagram(from, "ACK", "none", "none", None, FALSE, FALSE, id)

(* What the server sends; id 0 is the id of the request. *)
Reply(m, type, code, block, more) ==
  [to |-> m.from, type |-> type, code |-> code, block |-> block, more |-> more, id |-> 0]

Notification(host, id) ==
  [to |-> host, type |-> "CON", code |-> "content", block |-> None, more |-> FALSE, id |-> id]

-----------------------------------------------------------------------------
(* The handlers that only reply: the replies they send *)

Piggybacked(m) == IF m.type = "CON" THEN "ACK" ELSE "NON"

piggyback_get(m) == {Reply(m, Piggybacked(m), "content", None, FALSE)}

test_del(m) == {Reply(m, Piggybacked(m), "deleted", None, FALSE)}

test_put(m) == {Reply(m, Piggybacked(m), "changed", None, FALSE)}

test_post(m) == {Reply(m, Piggybacked(m), "created", None, FALSE)}

location_query_post(m) == {Reply(m, Piggybacked(m), "created", None, FALSE)}

(* These acknowledge whatever the type of the request was. *)
query_get(m) == {Reply(m, "ACK", "content", None, FALSE)}

core_get(m) == {Reply(m, "ACK", "content", None, FALSE)}

(* Not entered in pendings: the response is sent once. *)
separate_get(m) == IF m.type = "ACK" THEN {}
                   ELSE {Reply(m, "ACK", "empty", None, FALSE), Reply(m, m.type, "content", None, FALSE)}

(* The entry of resources that coap_handle_request finds. *)
Plain == [path : {"test"}, method : {"get", "put", "post", "delete"}]
         \cup [path : {"seg", "query", "separate", "core"}, method : {"get"}]
         \cup [path : {"location-query"}, method : {"post"}]

(* The methods that these resources have: of the other ones the stranger     *)
(* asks for none.                                                          *)
ASSUME StraysAssumption ==
  \A m \in Strays : /\ m.to = "server" /\ m.from = Stranger
                    /\ m.path \in {r.path : r \in Plain} => [path |-> m.path, method |-> m.method] \in Plain

RepliesTo(m) == CASE m.path = "test" /\ m.method = "put" -> test_put(m)
                   [] m.path = "test" /\ m.method = "post" -> test_post(m)
                   [] m.path = "test" /\ m.method = "delete" -> test_del(m)
                   [] m.path \in {"test", "seg"} /\ m.method = "get" -> piggyback_get(m)
                   [] m.path = "query" -> query_get(m)
                   [] m.path = "core" -> core_get(m)
                   [] m.path = "separate" -> separate_get(m)
                   [] m.path = "location-query" -> location_query_post(m)

-----------------------------------------------------------------------------
(* coap_pending_*, coap_observer_* (library) *)

Used == {e \in Entry : pendings[e].n > 0}

coap_pending_next_unused == {e \in Entry : pendings[e].n = 0}

coap_pending_next_to_expire == {e \in Used : \A f \in Used : pendings[e].n <= pendings[f].n}

coap_pending_clear(e) == pendings' = [pendings EXCEPT ![e] = [id |-> 0, n |-> 0]]

coap_observer_next_unused == {o \in Slot : observers[o] = None}

coap_find_observer_by_addr(host) == {o \in Slot : observers[o] = host}

LowestOf(S) == CHOOSE x \in S : \A y \in S : x <= y

(* The ids that neither an entry nor a datagram under way carries, and the  *)
(* k-th that is taken of them.                                             *)
FreeIds == (1 .. IDS) \ ({pendings[e].id : e \in Entry} \cup {d.id : d \in net})

coap_next_id(k) == CHOOSE id \in FreeIds : Cardinality({i \in FreeIds : i <= id}) = k

-----------------------------------------------------------------------------
(* The network: datagrams are lost or overtake each other, also when the   *)
(* receiver's socket is full; a closed socket drops them, and the          *)
(* stranger's replies are not followed.                                    *)

Waiting(host, ds) == {d \in ds : d.to = host}

Listening == open \cup {"server"}

Fits(ds, ms) == \A h \in Listening : Cardinality(Waiting(h, ds \cup ms)) <= QUEUE

(* The datagrams ds are under way and ms are sent as well. *)
Send(ds, ms) ==
  LET heard == {m \in ms : m.to \in Listening}
  IN /\ net' = IF Fits(ds, heard) THEN ds \cup heard ELSE ds
     /\ lossy' = (lossy \/ ~ Fits(ds, heard))

(* One datagram is lost. *)
Lose == /\ ~ lossy
        /\ \E d \in net : net' = net \ {d}
        /\ lossy' = TRUE
        /\ UNCHANGED <<open, strays, serverVars>>

Arrived == Waiting("server", net)

-----------------------------------------------------------------------------
(* main: process_client_request, process_coap_request.  A handler that uses *)
(* none of the tables is one step with the receipt.                        *)

(* The entries whose id the datagram carries; a request may carry any id.   *)
Matching(m) == {e \in Used : pendings[e].id = m.id}

(* recvfrom takes m, and ms are sent. *)
Answers(m, ms) == /\ Send(net \ {m}, ms)
                  /\ strays' = IF m \in net THEN strays ELSE strays - 1
                  /\ UNCHANGED open

(* A request of a client is not answered.                                   *)
Unanswered(m) == dropped' = dropped \cup ({m.from} \cap Client)

Recv(m) == main = Receiving /\ m.to = "server"

(* coap_pending_received: what matches a pending entry is not handled as a  *)
(* request; only an ACK clears the entry.                                  *)
ForPending(m) ==
  /\ Recv(m)
  /\ \/ /\ m.type = "ACK"
        /\ \E e \in Matching(m) : main' = [pc |-> "ack", e |-> e]
        /\ UNCHANGED <<clashes, dropped>>
     \/ /\ m.id = 0 /\ clashes < CLASHES /\ Used # {}
        /\ clashes' = clashes + 1 /\ Unanswered(m)
        /\ UNCHANGED main
  /\ Answers(m, {})
  /\ UNCHANGED <<tables, works, ctx>>

Request(m, type, path) == /\ Recv(m) /\ Matching(m) = {}
                          /\ m.type \in type /\ m.path \in path

(* k_free, coap_pending_clear: if the workqueue has given the entry up in   *)
(* between, its data is freed twice, or those of the next notification are. *)
ClearAcked ==
  /\ main.pc = "ack"
  /\ coap_pending_clear(main.e)
  /\ main' = Receiving
  /\ UNCHANGED <<network, observers, list, resource_to_notify, works, ctx, clashes, dropped>>

(* A RESET takes the first slot of its sender off the list.  Without such a *)
(* slot, or when that one is off already, it is handled as a request, which *)
(* no resource answers; neither does one answer an ACK.                    *)
Reset(m) ==
  /\ Request(m, {"RST", "ACK"}, {"none"})
  /\ Answers(m, {})
  /\ LET slots == coap_find_observer_by_addr(m.from)
     IN main' = IF m.type = "RST" /\ slots # {} /\ Contains(list, LowestOf(slots))
                THEN [pc |-> "remove", o |-> LowestOf(slots)]
                ELSE Receiving
  /\ UNCHANGED <<tables, works, ctx, clashes, dropped>>

RemoveObserver_list_kept ==
  /\ main.pc = "remove"
  /\ main' = Receiving
  /\ UNCHANGED <<network, tables, works, ctx, clashes, dropped>>

(* coap_remove_observer.  The sample leaves the slot as it is; whether the   *)
(* library empties it the sources do not tell: both are possible.          *)
RemoveObserver ==
  /\ main.pc = "remove"
  /\ list' = RemoveFirst(list, main.o)
  /\ observers' \in {observers, [observers EXCEPT ![main.o] = None]}
  /\ main' = Receiving
  /\ UNCHANGED <<network, resource_to_notify, pendings, works, ctx, clashes, dropped>>

Simple(m) ==
  /\ Request(m, {"CON", "NON"}, {r.path : r \in Plain})
  /\ Answers(m, RepliesTo(m))
  /\ UNCHANGED <<tables, works, ctx, main, clashes, dropped>>

large_get_own_context(m) ==
  /\ Request(m, {"CON"}, {"large"})
  /\ LET more == ctx < BLOCKS - 1
     IN /\ Answers(m, {Reply(m, "ACK", "content", ctx, more)})
        /\ ctx' = IF more THEN ctx + 1 ELSE 0
  /\ UNCHANGED <<tables, works, main, clashes, dropped>>

(* One context for all clients: a request with a block number moves it      *)
(* there, one without (None) gets the block it is at.                       *)
large_get(m) ==
  /\ Request(m, {"CON"}, {"large"})
  /\ LET block == IF m.block = None THEN ctx ELSE m.block
         more == block < BLOCKS - 1
     IN /\ Answers(m, {Reply(m, "ACK", "content", block, more)})
        /\ ctx' = IF more THEN block + 1 ELSE 0
  /\ UNCHANGED <<tables, works, main, clashes, dropped>>

(* The context of an upload is set from each request before it is used.  No *)
(* answer (-EINVAL) without a block number, and to a "Packet without        *)
(* payload".                                                               *)
Upload(m, no_payload, last) ==
  /\ IF m.block = None \/ no_payload
     THEN Answers(m, {}) /\ Unanswered(m)
     ELSE /\ Answers(m, {Reply(m, "ACK", IF m.more THEN "continue" ELSE last, m.block, m.more)})
          /\ UNCHANGED dropped
  /\ UNCHANGED <<tables, works, ctx, main, clashes>>

update_without_payload(m) == m.more /\ ~ m.payload

large_update_put(m) == /\ Request(m, {"CON"}, {"large-update"})
                       /\ Upload(m, update_without_payload(m), "changed")

large_create_post(m) == /\ Request(m, {"CON"}, {"large-create"})
                        /\ Upload(m, m.more /\ m.payload, "created")

(* obs_get: a slot, or no answer when all are taken; the host may hold      *)
(* several slots already.                                                  *)
ObserverInit(m) ==
  /\ Request(m, {"CON"}, {"obs"})
  /\ Answers(m, {})
  /\ IF m.method = "observe" /\ coap_observer_next_unused = {}
     THEN Unanswered(m) /\ UNCHANGED <<main, observers>>
     ELSE IF m.method = "observe"
     THEN LET o == LowestOf(coap_observer_next_unused)
          IN /\ observers' = [observers EXCEPT ![o] = m.from]
             /\ main' = [pc |-> "register", m |-> m, o |-> o]
             /\ UNCHANGED dropped
     ELSE main' = [pc |-> "reply", m |-> m] /\ UNCHANGED <<observers, dropped>>
  /\ UNCHANGED <<list, resource_to_notify, pendings, works, ctx, clashes>>

Register ==
  /\ main.pc = "register"
  /\ list' = Append(list, main.o)
  /\ resource_to_notify' = TRUE
  /\ main' = [pc |-> "reply", m |-> main.m]
  /\ UNCHANGED <<network, observers, pendings, works, ctx, clashes, dropped>>

ObserveReply_timer_forgotten ==
  /\ main.pc = "reply"
  /\ Send(net, {Reply(main.m, "ACK", "content", None, FALSE)})
  /\ main' = Receiving
  /\ UNCHANGED <<open, strays, tables, works, ctx, clashes, dropped>>

(* send_notification_packet as the response, which also restarts the timer. *)
ObserveReply ==
  /\ main.pc = "reply"
  /\ observer_work' = TRUE
  /\ Send(net, {Reply(main.m, "ACK", "content", None, FALSE)})
  /\ main' = Receiving
  /\ UNCHANGED <<open, strays, tables, retransmit_work, ctx, clashes, dropped>>

Handle(m) == \/ ForPending(m) \/ Reset(m) \/ Simple(m) \/ large_get(m)
             \/ large_update_put(m) \/ large_create_post(m) \/ ObserverInit(m)

Main == \/ \E m \in Arrived : Handle(m)
        \/ ClearAcked \/ RemoveObserver \/ Register \/ ObserveReply

(* A datagram of the stranger, which may come at any time. *)
HandleStray == /\ strays > 0 /\ main = Receiving
               /\ \E m \in Strays : Handle(m)

-----------------------------------------------------------------------------
(* The system workqueue *)

(* Cycles the entry to expire next, but sends nothing; when it gives one up *)
(* it does not submit the work again.                                      *)
retransmit_request ==
  /\ retransmit_work
  /\ \/ /\ Used = {}
        /\ retransmit_work' = FALSE /\ UNCHANGED pendings
     \/ \E e \in coap_pending_next_to_expire :
          IF pendings[e].n = MAX_CYCLES
          THEN coap_pending_clear(e) /\ retransmit_work' = FALSE
          ELSE pendings' = [pendings EXCEPT ![e].n = @ + 1] /\ UNCHANGED retransmit_work
  /\ UNCHANGED <<network, observers, list, resource_to_notify, observer_work, ctx, main, clashes,
                 dropped>>

(* The places on the list whose observers are notified: those for which     *)
(* there is an unused entry; the other notifications are not sent.  (The   *)
(* bound IDS is to be large enough for the second limit to be no other.)   *)
Notified == {k \in DOMAIN list : /\ resource_to_notify
                                /\ k <= Cardinality(coap_pending_next_unused)
                                /\ k <= Cardinality(FreeIds)}

(* What becomes of the entry e: the k-th unused one is for the k-th place.   *)
create_pending_request(e) ==
  LET k == Cardinality({f \in coap_pending_next_unused : f <= e})
  IN IF e \in coap_pending_next_unused /\ k \in Notified THEN [id |-> coap_next_id(k), n |-> 1]
     ELSE pendings[e]

update_counter ==
  /\ observer_work
  /\ pendings' = [e \in Entry |-> create_pending_request(e)]
  /\ retransmit_work' = (retransmit_work \/ Notified # {})
  /\ Send(net, {Notification(observers[list[k]], coap_next_id(k)) : k \in Notified})
  /\ UNCHANGED <<open, strays, observer_work, observers, list, resource_to_notify, ctx, main, clashes, dropped>>
=============================================================================
