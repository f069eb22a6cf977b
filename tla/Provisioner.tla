---------------------------- MODULE Provisioner ----------------------------
(***************************************************************************)
(* bluetooth/mesh_provisioner: main() takes unprovisioned devices into a mesh *)
(* network and configures them; beacons and added nodes come from the        *)
(* stack's thread; the configuration database (CDB) is kept in flash.        *)
(*                                                                         *)
(* External: a link provisions one device at a time and goes on after main()  *)
(* has stopped waiting for it; a device in the network no longer beacons,     *)
(* but a beacon may be reported late; an acknowledged request fails, or is    *)
(* answered, maybe with an error status.                                    *)
(***************************************************************************)
EXTENDS Integers, FiniteSets

CONSTANTS
  DEVICES,      \* around the provisioner
  NODE_COUNT,   \* CONFIG_BT_MESH_CDB_NODE_COUNT (3), the provisioner being one
  P_FAULTS,     \* bound: failures
  P_REBOOTS     \* bound: restarts

ASSUME ProvisionerAssumption ==
  IsFiniteSet(DEVICES) /\ NODE_COUNT \in Nat \ {0} /\ P_FAULTS \in Nat /\ P_REBOOTS \in Nat

Self == "self"
None == "none"
NoRequest == [of |-> None, answered |-> 0]
Requests == <<"app_key_add", "mod_app_bind", "mod_pub_set">>

VARIABLES
  v_at,        \* main(): its place
  v_todo,      \* the CDB nodes that bt_mesh_cdb_node_foreach() has yet to visit
  v_req,       \* the node being configured and how many requests it answered
  node_uuid,   \* of the last beacon
  sem_unprov_beacon, sem_node_added,   \* BOOLEAN, a semaphore of limit 1
  v_link,      \* the device being provisioned, or None
  cdb,         \* flash: valid, net_key, app_key, nodes, configured (a subset of nodes)
  v_device,    \* of each device: member of the network, its net_key, requests it accepted
  v_left,      \* what the bounds leave: faults, reboots
  v_seen       \* history: bare, rekeyed, refused

provisionVars == <<v_at, v_todo, v_req, node_uuid, sem_unprov_beacon, sem_node_added, v_link,
                   cdb, v_device, v_left, v_seen>>

(* v_seen: did the power fail between the creation of the database and its     *)
(* application key; was there a restart between its creation and the            *)
(* provisioner's own provisioning, which takes a key drawn anew at each boot;   *)
(* the nodes that answered a request with an error status.                     *)
ProvisionerInit ==
  /\ v_at = "bt_ready" /\ v_todo = {} /\ v_req = NoRequest /\ node_uuid = None
  /\ sem_unprov_beacon = FALSE /\ sem_node_added = FALSE /\ v_link = None
  /\ cdb = [valid |-> FALSE, net_key |-> 0, app_key |-> FALSE, nodes |-> {}, configured |-> {}]
  /\ v_device = [d \in DEVICES \union {Self} |-> [member |-> FALSE, net_key |-> 0, accepted |-> {}]]
  /\ v_left = [faults |-> P_FAULTS, reboots |-> P_REBOOTS]
  /\ v_seen = [bare |-> FALSE, rekeyed |-> FALSE, refused |-> {}]

(* bt_rand(net_key): another one at each boot.                                *)
NetKey == P_REBOOTS + 1 - v_left.reboots

Fault == v_left.faults > 0 /\ v_left' = [v_left EXCEPT !.faults = @ - 1]

-----------------------------------------------------------------------------
(* bt_ready(), whose result main() does not look at *)

bt_mesh_cdb_create ==
  /\ v_at = "bt_ready"
  /\ IF cdb.valid THEN v_at' = "provision_self" /\ UNCHANGED <<cdb, v_left>>
     ELSE \/ /\ v_at' = "setup_cdb" /\ UNCHANGED v_left
             /\ cdb' = [cdb EXCEPT !.valid = TRUE, !.net_key = NetKey]
          \/ Fault /\ v_at' = "top" /\ UNCHANGED cdb
  /\ UNCHANGED <<v_todo, v_req, node_uuid, sem_unprov_beacon, sem_node_added, v_link, v_device, v_seen>>

setup_cdb ==
  /\ v_at = "setup_cdb" /\ v_at' = "provision_self"
  /\ cdb' = [cdb EXCEPT !.app_key = TRUE]
  /\ UNCHANGED <<v_todo, v_req, node_uuid, sem_unprov_beacon, sem_node_added, v_link, v_device,
                 v_left, v_seen>>

(* bt_mesh_provision(): -EALREADY with settings; otherwise with this boot's    *)
(* key, which is the database's only if that was created in this boot too.    *)
provision_self ==
  /\ v_at = "provision_self" /\ v_at' = "top"
  /\ \/ Self \in cdb.nodes /\ UNCHANGED <<cdb, v_device, v_left>>
     \/ /\ Self \notin cdb.nodes /\ UNCHANGED v_left
        /\ cdb' = [cdb EXCEPT !.nodes = @ \union {Self}]
        /\ v_device' = [v_device EXCEPT ![Self].member = TRUE, ![Self].net_key = NetKey]
     \/ Self \notin cdb.nodes /\ Fault /\ UNCHANGED <<cdb, v_device>>
  /\ UNCHANGED <<v_todo, v_req, node_uuid, sem_unprov_beacon, sem_node_added, v_link, v_seen>>

-----------------------------------------------------------------------------
(* The loop of main() *)

top ==
  /\ v_at = "top" /\ v_at' = "foreach"
  /\ sem_unprov_beacon' = FALSE /\ sem_node_added' = FALSE
  /\ v_todo' = cdb.nodes /\ v_req' = NoRequest
  /\ UNCHANGED <<node_uuid, v_link, cdb, v_device, v_left, v_seen>>

(* check_unconfigured() passes over a node.                                  *)
configured ==
  /\ v_at = "foreach"
  /\ \E n \in v_todo : n \in cdb.configured /\ v_todo' = v_todo \ {n}
  /\ UNCHANGED <<v_at, v_req, node_uuid, sem_unprov_beacon, sem_node_added, v_link, cdb, v_device,
                 v_left, v_seen>>

(* configure_self() does not publish.                                       *)
LastRequest(n) == IF n = Self THEN 2 ELSE 3

(* A request is heard by the nodes of the provisioner's own network key.      *)
Hears(n) == cdb.app_key /\ v_device[n].net_key = v_device[Self].net_key

(* configure_node(): a request fails and the node is left for the next round;  *)
(* an answer is not looked into; after the last the node is marked.           *)
configure_node ==
  /\ v_at = "foreach"
  /\ \E n \in v_todo \ cdb.configured :
       /\ v_req.of \in {n, None}
       /\ \/ /\ IF Hears(n) THEN Fault ELSE UNCHANGED v_left
             /\ v_todo' = v_todo \ {n} /\ v_req' = NoRequest
             /\ UNCHANGED <<cdb, v_device, v_seen>>
          \/ /\ Hears(n)
             /\ \/ /\ v_device' = [v_device EXCEPT ![n].accepted = @ \union {Requests[v_req.answered + 1]}]
                   /\ UNCHANGED <<v_left, v_seen>>
                \/ /\ Fault /\ UNCHANGED v_device
                   /\ v_seen' = [v_seen EXCEPT !.refused = @ \union {n}]
             /\ IF v_req.answered + 1 < LastRequest(n)
                THEN v_req' = [of |-> n, answered |-> v_req.answered + 1] /\ UNCHANGED <<v_todo, cdb>>
                ELSE /\ v_req' = NoRequest /\ v_todo' = v_todo \ {n}
                     /\ cdb' = [cdb EXCEPT !.configured = @ \union {n}]
  /\ UNCHANGED <<v_at, node_uuid, sem_unprov_beacon, sem_node_added, v_link>>

wait_beacon ==
  /\ \/ v_at = "foreach" /\ v_todo = {} /\ v_at' = "beacon" /\ UNCHANGED sem_unprov_beacon
     \/ v_at = "beacon" /\ sem_unprov_beacon /\ v_at' = "provision" /\ sem_unprov_beacon' = FALSE
     \/ v_at = "beacon" /\ ~ sem_unprov_beacon /\ v_at' = "top" /\ UNCHANGED sem_unprov_beacon
  /\ UNCHANGED <<v_todo, v_req, node_uuid, sem_node_added, v_link, cdb, v_device, v_left, v_seen>>

(* node_uuid is copied while a beacon may overwrite it: a mixture of two is    *)
(* nobody's.  A link that is open is a refusal.                              *)
bt_mesh_provision_adv ==
  /\ v_at = "provision"
  /\ IF v_link # None THEN v_at' = "top" /\ UNCHANGED <<v_link, v_left>>
     ELSE /\ v_at' = "added"
          /\ \/ v_link' = node_uuid /\ UNCHANGED v_left
             \/ v_link' = "mixture" /\ Fault
  /\ UNCHANGED <<v_todo, v_req, node_uuid, sem_unprov_beacon, sem_node_added, cdb, v_device, v_seen>>

wait_added ==
  /\ v_at = "added" /\ v_at' = "top"
  /\ sem_node_added' = FALSE    \* taken, or it timed out
  /\ UNCHANGED <<v_todo, v_req, node_uuid, sem_unprov_beacon, v_link, cdb, v_device, v_left, v_seen>>

Main ==
  \/ bt_mesh_cdb_create \/ setup_cdb \/ provision_self \/ top \/ configured \/ configure_node
  \/ wait_beacon \/ bt_mesh_provision_adv \/ wait_added

-----------------------------------------------------------------------------
(* The stack's thread; a device is given the database's key. *)

unprovisioned_beacon ==
  /\ Self \in cdb.nodes
  /\ \E d \in DEVICES :
       /\ \/ ~ v_device[d].member /\ UNCHANGED v_left
          \/ v_device[d].member /\ Fault
       /\ node_uuid' = d
  /\ sem_unprov_beacon' = TRUE
  /\ UNCHANGED <<v_at, v_todo, v_req, sem_node_added, v_link, cdb, v_device, v_seen>>

node_added ==
  /\ v_link \in DEVICES /\ ~ v_device[v_link].member /\ Cardinality(cdb.nodes) < NODE_COUNT
  /\ cdb' = [cdb EXCEPT !.nodes = @ \union {v_link}]
  /\ v_device' = [v_device EXCEPT ![v_link].member = TRUE, ![v_link].net_key = cdb.net_key]
  /\ v_link' = None /\ sem_node_added' = TRUE
  /\ \/ UNCHANGED v_todo
     \/ v_at = "foreach" /\ v_todo' = v_todo \union {v_link}   \* its slot is yet to come
  /\ UNCHANGED <<v_at, v_req, node_uuid, sem_unprov_beacon, v_left, v_seen>>

(* The link closes: no such device, no room for it, or a failure.             *)
LinkCloses ==
  /\ v_link # None /\ v_link' = None
  /\ IF v_link \in DEVICES /\ ~ v_device[v_link].member /\ Cardinality(cdb.nodes) < NODE_COUNT
     THEN Fault ELSE UNCHANGED v_left
  /\ UNCHANGED <<v_at, v_todo, v_req, node_uuid, sem_unprov_beacon, sem_node_added, cdb, v_device, v_seen>>

-----------------------------------------------------------------------------

v_reboot ==
  /\ v_left.reboots > 0 /\ v_left' = [v_left EXCEPT !.reboots = @ - 1]
  /\ v_at' = "bt_ready" /\ v_todo' = {} /\ v_req' = NoRequest /\ node_uuid' = None
  /\ sem_unprov_beacon' = FALSE /\ sem_node_added' = FALSE /\ v_link' = None
  /\ v_seen' = [v_seen EXCEPT !.bare = @ \/ v_at = "setup_cdb",
                              !.rekeyed = @ \/ (cdb.valid /\ Self \notin cdb.nodes)]
  /\ UNCHANGED <<cdb, v_device>>

ProvisionerNext == Main \/ unprovisioned_beacon \/ node_added \/ LinkCloses \/ v_reboot

-----------------------------------------------------------------------------
(* Properties *)

(* A node marked in the database has accepted every request of its            *)
(* configuration, after failures, late nodes and restarts too, unless it      *)
(* answered one with an error status.                                       *)
MarkedIsConfigured ==
  \A n \in cdb.configured \ v_seen.refused :
    \A k \in 1 .. LastRequest(n) : Requests[k] \in v_device[n].accepted

(* A device that joined is in the database, once the link is over.            *)
MembersAreKnown == \A d \in DEVICES : v_device[d].member <=> d \in cdb.nodes

(* A provisioner that has joined its network has an application key, unless    *)
(* the power failed before the new database got one; and all are on one        *)
(* network key, the database's, unless it joined in a later boot than that      *)
(* which created the database: then it and its nodes are strangers for ever.  *)
KeysAreThere ==
  Self \in cdb.nodes =>
    /\ v_seen.bare \/ cdb.app_key
    /\ v_seen.rekeyed \/ \A n \in cdb.nodes : v_device[n].net_key = cdb.net_key

ProvisionerAgrees == MarkedIsConfigured /\ MembersAreKnown /\ KeysAreThere

(* Every node is configured in the end, however late it was added and however   *)
(* often a request failed, unless there is no application key to configure it  *)
(* with, or the provisioner and its nodes do not share a network key.         *)
NodesGetConfigured ==
  \A n \in DEVICES \union {Self} :
    n \in cdb.nodes ~> (n \in cdb.configured \/ v_seen.bare \/ v_seen.rekeyed)
=============================================================================
