------------------------------- MODULE Protect -------------------------------
(***************************************************************************)
(* samples/bluetooth/protect: a Bluetooth central that scans for a "Tended *)
(* Protect" device, connects, discovers its primary services one after the *)
(* other and then reads its characteristics over and over.                 *)
(*                                                                         *)
(* Two contexts share the static variables of ble.c: main(), a polling     *)
(* state machine, and the callbacks the Bluetooth stack runs on its        *)
(* receive thread.  The stack is external: scanning, link, disc and reads  *)
(* are its state as far as the callbacks show it.  A link may be lost at   *)
(* any moment ("dying"); the stack then fails the requests under way, or   *)
(* forgets them, before it calls disconnected_cb.                          *)
(*                                                                         *)
(* main() never leaves the for(;;) of READ_FLAGS_STATE, so the states      *)
(* after it (write_flag, disconnect, reconnect) are unreachable and have   *)
(* no actions here.                                                        *)
(***************************************************************************)
EXTENDS Naturals, FiniteSets

CONSTANTS
  READ_TYPE_SIZE,   \* number of entries of flags[]
  NUM_SERVICES,     \* number of entries of services[], 5 in discover_cb
  U8                \* 2^8: the counter `discovered' is a uint8_t

ASSUME ProtectAssumption ==
  /\ READ_TYPE_SIZE \in Nat \ {0}
  /\ NUM_SERVICES \in Nat \ {0} /\ U8 \in Nat /\ NUM_SERVICES < U8

VARIABLES
  state,          \* main.c: state, with the place inside read_flags()
  bt_state,       \* ble.c: bt_state
  default_conn,   \* TRUE when default_conn is not NULL
  refs,           \* references the application holds on connections
  done, flag,     \* ble.c: done; read_next_flag(): flag
  uuid,           \* read_params: the entry of flags[] its uuid was taken from
  discovered,     \* discover_cb(): discovered
  params,         \* discover_params: "ok", or "zero" after the memset
  scanning,       \* stack: a scan is running
  link,           \* stack: "none", "connecting", "up", "dying"
  disc,           \* stack: the service being discovered, 0 when none
  reads,          \* stack: read requests under way on the static read_params
  issued,         \* history: reads issued in the present pass over flags[]
  troubles,       \* history: the kinds of failure that have occurred
  fault           \* the program has dereferenced NULL: nothing runs any more

stack == <<scanning, link, disc, reads>>
vars == <<state, bt_state, default_conn, refs, done, flag, uuid, discovered, params,
          stack, issued, troubles, fault>>

Trouble == {"init", "scan", "create", "discover", "read", "link"}

Init ==
  /\ state = "INIT_STATE" /\ bt_state = "BT_DOWN_STATE"
  /\ default_conn = FALSE /\ refs = 0
  /\ done = FALSE /\ flag = 0 /\ uuid = 0
  /\ discovered = 0 /\ params = "ok"
  /\ scanning = FALSE /\ link = "none" /\ disc = 0 /\ reads = 0
  /\ issued = 0 /\ troubles = {} /\ fault = FALSE

(* A call into the stack succeeds, or fails and leaves a trace in troubles. *)
Fails(kind) == troubles' = troubles \cup {kind}
Works == UNCHANGED troubles

-----------------------------------------------------------------------------
(* ble.c: functions called from both contexts *)

(* bt_le_scan_start; a failure is only logged. *)
start_scan == \/ scanning' = TRUE /\ Works
              \/ scanning' = scanning /\ Fails("scan")

(* bt_gatt_read on the static read_params, with `pending' reads already     *)
(* under way and `sofar' issued in this pass: a fault when default_conn is *)
(* NULL, an error that is only logged when the link is going down or the   *)
(* stack has no buffer.                                                    *)
bt_gatt_read(pending, sofar) ==
  /\ fault' = ~ default_conn
  /\ \/ /\ default_conn /\ link = "up"
        /\ reads' = pending + 1 /\ issued' = sofar + 1 /\ Works
     \/ reads' = pending /\ issued' = sofar /\ Fails("read")

read_next_flag_no_done(pending, sofar, d) ==
  /\ uuid' = flag
  /\ IF flag < READ_TYPE_SIZE
     THEN flag' = flag + 1 /\ done' = d /\ bt_gatt_read(pending, sofar)
     ELSE /\ flag' = 0 /\ done' = d
          /\ reads' = pending /\ issued' = sofar
          /\ UNCHANGED <<troubles, fault>>

(* Reads the next entry of flags[], or ends the pass; d is the value the    *)
(* caller leaves in done.  The uuid is taken from flags[] before the bound  *)
(* is tested: at the end of a pass, from one past the end.                *)
read_next_flag(pending, sofar, d) ==
  /\ uuid' = flag
  /\ IF flag < READ_TYPE_SIZE
     THEN flag' = flag + 1 /\ done' = d /\ bt_gatt_read(pending, sofar)
     ELSE /\ flag' = 0 /\ done' = TRUE
          /\ reads' = pending /\ issued' = sofar
          /\ UNCHANGED <<troubles, fault>>

-----------------------------------------------------------------------------
(* main.c *)

(* ble_initialise(), then start_scan(). *)
init_state ==
  /\ state = "INIT_STATE"
  /\ \/ /\ state' = "FAIL_STATE" /\ Fails("init")
        /\ UNCHANGED <<bt_state, scanning>>
     \/ /\ state' = "SCANNING_STATE" /\ bt_state' = "BT_IDLE_STATE"
        /\ start_scan
  /\ UNCHANGED <<default_conn, refs, done, flag, uuid, discovered, params, link, disc,
                 reads, issued, fault>>

scanning_state_too_early ==
  /\ state = "SCANNING_STATE"
  /\ bt_state # "BT_DOWN_STATE"
  /\ state' = "CONNECTED_STATE"
  /\ UNCHANGED <<bt_state, default_conn, refs, done, flag, uuid, discovered, params,
                 stack, issued, troubles, fault>>

(* Looks at bt_state once a second. *)
scanning_state ==
  /\ state = "SCANNING_STATE"
  /\ bt_state = "BT_FOUND_PROTECT_STATE"
  /\ state' = "CONNECTED_STATE"
  /\ UNCHANGED <<bt_state, default_conn, refs, done, flag, uuid, discovered, params,
                 stack, issued, troubles, fault>>

connected_state ==
  /\ state = "CONNECTED_STATE"
  /\ state' = "READ_FLAGS_STATE"
  /\ UNCHANGED <<bt_state, default_conn, refs, done, flag, uuid, discovered, params,
                 stack, issued, troubles, fault>>

(* read_flags(): done = false and the first read of a pass ... *)
read_flags ==
  /\ state = "READ_FLAGS_STATE"
  /\ state' = "polling"
  /\ read_next_flag(reads, 0, FALSE)
  /\ UNCHANGED <<bt_state, default_conn, refs, discovered, params, scanning, link, disc>>

read_flags_poll_gives_up ==
  /\ state = "polling"
  /\ done' = FALSE
  /\ state' = "READ_FLAGS_STATE"
  /\ UNCHANGED <<bt_state, default_conn, refs, flag, uuid, discovered, params, stack,
                 issued, troubles, fault>>

(* ... then the poll every 10 ms until a callback has set done. *)
read_flags_poll ==
  /\ state = "polling"
  /\ done
  /\ done' = FALSE
  /\ state' = "READ_FLAGS_STATE"
  /\ UNCHANGED <<bt_state, default_conn, refs, flag, uuid, discovered, params, stack,
                 issued, troubles, fault>>

-----------------------------------------------------------------------------
(* ble.c: callbacks on the stack's receive thread *)

(* An advertisement of the device that carries 16-bit UUIDs: device_found,  *)
(* is_tended_protect, eir_found.  The scan is stopped (with an error       *)
(* nothing more happens) and a connection is created; when that fails the  *)
(* scan is not restarted.                                                  *)
device_found ==
  /\ scanning
  /\ scanning' = FALSE
  /\ \/ default_conn' = TRUE /\ refs' = refs + 1 /\ link' = "connecting" /\ Works
     \/ Fails("create") /\ UNCHANGED <<default_conn, refs, link>>
  /\ UNCHANGED <<state, bt_state, done, flag, uuid, discovered, params, disc, reads, issued, fault>>

(* discover_primary: bt_gatt_discover on discover_params.  The parameters   *)
(* the memset of discover_cb has cleared have no callback any more: a      *)
(* fault.  An error is only logged.                                        *)
discover_primary(service) ==
  /\ fault' = (params = "zero")
  /\ \/ params = "ok" /\ disc' = service /\ Works
     \/ disc' = 0 /\ Fails("discover")

connected_cb_err_no_scan ==
  /\ link = "connecting"
  /\ refs' = refs - 1
  /\ default_conn' = FALSE
  /\ link' = "none"
  /\ UNCHANGED <<state, bt_state, done, flag, uuid, discovered, params, scanning, disc, reads,
                 issued, troubles, fault>>

(* connected_cb with conn_err: the attempt failed. *)
connected_cb_err ==
  /\ link = "connecting"
  /\ refs' = refs - 1
  /\ default_conn' = FALSE
  /\ link' = "none"
  /\ start_scan
  /\ UNCHANGED <<state, bt_state, done, flag, uuid, discovered, params, disc, reads, issued, fault>>

connected_cb ==
  /\ link = "connecting"
  /\ link' = "up"
  /\ discover_primary(1)
  /\ UNCHANGED <<state, bt_state, default_conn, refs, done, flag, uuid, discovered, params,
                 scanning, reads, issued>>

(* discover_cb with an attribute: the service asked for is there; the next  *)
(* one of services[] is asked for, if there is one.                        *)
discover_cb ==
  /\ disc # 0 /\ link = "up"
  /\ discovered' = (discovered + 1) % U8
  /\ bt_state' = IF discovered' = NUM_SERVICES THEN "BT_FOUND_PROTECT_STATE" ELSE bt_state
  /\ IF disc < NUM_SERVICES
     THEN discover_primary(disc + 1)
     ELSE disc' = 0 /\ UNCHANGED <<troubles, fault>>
  /\ UNCHANGED <<state, default_conn, refs, done, flag, uuid, params, scanning, link, reads, issued>>

(* discover_cb without an attribute: the peer lacks the service, or the     *)
(* link is going down.                                                     *)
discover_cb_null ==
  /\ disc # 0
  /\ params' = "zero"
  /\ discovered' = 0
  /\ disc' = 0
  /\ Fails("discover")
  /\ UNCHANGED <<state, bt_state, default_conn, refs, done, flag, uuid, scanning, link, reads,
                 issued, fault>>

(* read_flag_cb, with the value, or with an error when the peer refuses or  *)
(* the link is going down: in either case the next flag is read.           *)
read_flag_cb ==
  /\ reads > 0
  /\ read_next_flag(reads - 1, issued, done)
  /\ UNCHANGED <<state, bt_state, default_conn, refs, discovered, params, scanning, link, disc>>

LinkLost ==
  /\ link = "up"
  /\ link' = "dying"
  /\ Fails("link")
  /\ UNCHANGED <<state, bt_state, default_conn, refs, done, flag, uuid, discovered, params,
                 scanning, disc, reads, issued, fault>>

(* Requests still under way are forgotten by the stack. *)
disconnected_cb ==
  /\ link = "dying"
  /\ link' = "none" /\ disc' = 0 /\ reads' = 0
  /\ bt_state' = "BT_DOWN_STATE"
  /\ refs' = refs - 1
  /\ default_conn' = FALSE
  /\ start_scan
  /\ UNCHANGED <<state, done, flag, uuid, discovered, params, issued, fault>>

main == ~ fault /\ (init_state \/ scanning_state \/ connected_state \/ read_flags \/ read_flags_poll)

(* The stack answers what it was asked. *)
Answer == ~ fault /\ (connected_cb \/ discover_cb \/ read_flag_cb)

Callback == ~ fault /\ (\/ device_found \/ connected_cb_err \/ discover_cb_null
                        \/ LinkLost \/ disconnected_cb)

Next == main \/ Answer \/ Callback

Spec == Init /\ [][Next]_vars

(* main() polls for ever, and a request on a live link is answered.         *)
Fairness == WF_vars(main) /\ WF_vars(Answer)

FairSpec == Spec /\ Fairness

-----------------------------------------------------------------------------
(* Properties *)

TypeOK ==
  /\ state \in {"INIT_STATE", "SCANNING_STATE", "CONNECTED_STATE", "READ_FLAGS_STATE",
                "polling", "FAIL_STATE"}
  /\ bt_state \in {"BT_DOWN_STATE", "BT_IDLE_STATE", "BT_FOUND_PROTECT_STATE"}
  /\ default_conn \in BOOLEAN /\ refs \in Nat
  /\ done \in BOOLEAN /\ flag \in 0 .. READ_TYPE_SIZE /\ uuid \in 0 .. READ_TYPE_SIZE
  /\ discovered \in 0 .. U8 - 1 /\ params \in {"ok", "zero"}
  /\ scanning \in BOOLEAN /\ link \in {"none", "connecting", "up", "dying"}
  /\ disc \in 0 .. NUM_SERVICES /\ reads \in Nat
  /\ issued \in 0 .. READ_TYPE_SIZE /\ troubles \subseteq Trouble /\ fault \in BOOLEAN

(* The static read_params of read_next_flag() is shared by main() and the   *)
(* receive thread: it never serves two requests at a time.                 *)
OneReadAtATime == reads <= 1

(* main() leaves the poll only after a pass that issued a read for every    *)
(* entry of flags[], although the callbacks, not main(), count the flags;  *)
(* the reads a failing link refuses are the exception.                     *)
PassIsComplete == done /\ "read" \notin troubles => issued = READ_TYPE_SIZE

(* The uuid taken from one past the end of flags[] is never asked for: no    *)
(* request on the one read_params is under way when it is put there.       *)
AsksForAFlag == reads > 0 => uuid < READ_TYPE_SIZE

(* The discipline of main() and the callbacks, which share flag, done and    *)
(* the one read_params: all flags are read, one by one, and nothing else.  *)
EveryFlagOneByOne == OneReadAtATime /\ PassIsComplete /\ AsksForAFlag

(* The application holds exactly one reference for a non-NULL default_conn  *)
(* and none otherwise, over failed attempts, connections and disconnections*)
ReferencesBalance == refs = IF default_conn THEN 1 ELSE 0

(* The radio is never left idle by the callbacks: there is a scan or a      *)
(* connection, unless the stack refused to start one.                      *)
ScanningOrConnected ==
  state \notin {"INIT_STATE", "FAIL_STATE"} /\ ~ scanning /\ ~ default_conn
     => troubles \cap {"scan", "create"} # {}

(* Over failed attempts, connections and disconnections, in whichever order  *)
(* the callbacks come: references balance, and the radio is not left idle. *)
ConnectionKept == ReferencesBalance /\ ScanningOrConnected

(* A NULL dereference takes a lost link: as long as the first connection    *)
(* lasts, default_conn and discover_params are valid when they are used.   *)
FaultOnlyAfterLinkLoss == fault => "link" \in troubles

(* While nothing has gone wrong, main() only reads after every service was  *)
(* discovered, on a live connection, and no discovery runs meanwhile.      *)
ReadsAfterDiscovery ==
  troubles = {} /\ state \in {"READ_FLAGS_STATE", "polling"}
     => link = "up" /\ disc = 0 /\ discovered = NUM_SERVICES

(* A pass that has begun ends, unless the stack refused a read or the link  *)
(* was lost.                                                               *)
PassEnds == state = "polling" ~> (state = "READ_FLAGS_STATE" \/ troubles \cap {"read", "link"} # {})
=============================================================================
