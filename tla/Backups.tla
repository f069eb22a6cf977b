------------------------------- MODULE Backups -------------------------------
(***************************************************************************)
(* samples/bluetooth/protect_backup2 and protect_backup4: two earlier stages *)
(* of the central of Protect, which still build.                           *)
(*                                                                         *)
(* backup2 reads its characteristics from main(): the flag `wait' is set    *)
(* before a read is asked for, read_flag_cb clears it, and main() polls it  *)
(* before the next one.  backup4 stops at discovery: its discover_cb no     *)
(* longer sets BT_FOUND_PROTECT_STATE, so main() stays in SCANNING_STATE    *)
(* and what comes after it in main.c is unreachable, as is what backup2     *)
(* does when count2 reaches 10 (its increment is commented out).           *)
(*                                                                         *)
(* main() and the callbacks of the stack's receive thread share ble.c's     *)
(* statics.  b_scanning, b_link, b_disc and b_asked are the stack's state   *)
(* as far as the callbacks show it; a lost link ("dying") fails or forgets  *)
(* the requests under way before disconnected_cb.                          *)
(***************************************************************************)
EXTENDS Naturals

CONSTANTS
  FLAGS,       \* READ_TYPE_SIZE: number of entries of flags[]
  SERVICES,    \* number of entries of services[] in discover_cts_fn
  U8           \* 2^8: `discovered' is a uint8_t

ASSUME BackupsAssumption ==
  FLAGS \in Nat \ {0} /\ SERVICES \in Nat \ {0} /\ U8 \in Nat /\ SERVICES < U8

VARIABLES
  b_version,   \* 2 or 4: which of the two programs
  b_state,     \* main.c: state
  b_bt,        \* ble.c: bt_state, without its prefix
  b_count,     \* read_flags(): count
  b_wait,      \* backup2: wait
  b_flag,      \* backup2: g_flag
  b_conn,      \* default_conn is not NULL
  b_refs,      \* references the application holds on connections
  b_found,     \* discover_cts_fn(): discovered
  b_params,    \* discover_params: "ok", or "zero" after the memset
  b_scanning, b_link, b_disc,
  b_asked,     \* stack: the set of flags whose read is under way
  b_troubles,  \* history: the kinds of failure that have occurred
  b_fault      \* the program has dereferenced NULL: nothing runs any more

b_main == <<b_state, b_count>>
b_reading == <<b_wait, b_flag, b_asked>>
b_central == <<b_conn, b_refs, b_scanning, b_link>>
b_discovery == <<b_found, b_params, b_disc>>
backupVars == <<b_version, b_main, b_bt, b_reading, b_central, b_discovery, b_troubles, b_fault>>

BackupsInit ==
  /\ b_version \in {2, 4} /\ b_state = "INIT" /\ b_bt = "DOWN" /\ b_count = 0
  /\ b_wait = FALSE /\ b_flag = 0 /\ b_conn = FALSE /\ b_refs = 0
  /\ b_found = 0 /\ b_params = "ok"
  /\ b_scanning = FALSE /\ b_link = "none" /\ b_disc = 0 /\ b_asked = {}
  /\ b_troubles = {} /\ b_fault = FALSE

(* A call into the stack succeeds, or fails and leaves a trace.             *)
b_Fails(kind) == b_troubles' = b_troubles \cup {kind}
b_Works == UNCHANGED b_troubles

-----------------------------------------------------------------------------
(* Both programs: the connection *)

b_start_scan == \/ b_scanning' = TRUE /\ b_Works
                \/ b_scanning' = b_scanning /\ b_Fails("scan")

(* eir_found: the connection is created; on an error no scan runs any more. *)
create_connection ==
  \/ b_conn' = TRUE /\ b_refs' = b_refs + 1 /\ b_link' = "connecting" /\ b_Works
  \/ b_Fails("create") /\ UNCHANGED <<b_conn, b_refs, b_link>>

(* An advertisement of the device: the scan is stopped first.               *)
b_device_found ==
  /\ b_scanning
  /\ b_scanning' = FALSE
  /\ create_connection
  /\ UNCHANGED <<b_version, b_main, b_bt, b_reading, b_discovery, b_fault>>

b_connected_err ==
  /\ b_link = "connecting"
  /\ b_link' = "none" /\ b_conn' = FALSE /\ b_refs' = b_refs - 1
  /\ b_start_scan
  /\ UNCHANGED <<b_version, b_main, b_bt, b_reading, b_discovery, b_fault>>

b_LinkLost ==
  /\ b_link = "up"
  /\ b_link' = "dying"
  /\ b_Fails("link")
  /\ UNCHANGED <<b_version, b_main, b_bt, b_reading, b_conn, b_refs, b_scanning,
                 b_discovery, b_fault>>

(* What is still under way is forgotten by the stack; wait is not cleared.  *)
b_disconnected ==
  /\ b_link = "dying"
  /\ b_link' = "none" /\ b_disc' = 0 /\ b_asked' = {}
  /\ b_bt' = "DOWN" /\ b_conn' = FALSE /\ b_refs' = b_refs - 1
  /\ b_start_scan
  /\ UNCHANGED <<b_version, b_main, b_wait, b_flag, b_found, b_params, b_fault>>

-----------------------------------------------------------------------------
(* protect_backup2 *)

b_discover_primary(service) ==
  /\ b_fault' = (b_params = "zero")
  /\ \/ b_params = "ok" /\ b_disc' = service /\ b_Works
     \/ b_disc' = 0 /\ b_Fails("discover")

connected_2 ==
  /\ b_version = 2 /\ b_link = "connecting"
  /\ b_link' = "up"
  /\ b_discover_primary(1)
  /\ UNCHANGED <<b_version, b_main, b_bt, b_reading, b_conn, b_refs, b_scanning,
                 b_found, b_params>>

(* The service asked for is there: the next of services[] is asked for.     *)
discover_cts_fn ==
  /\ b_version = 2 /\ b_disc # 0 /\ b_link = "up"
  /\ b_found' = (b_found + 1) % U8
  /\ b_bt' = IF b_found' = SERVICES THEN "FOUND_PROTECT" ELSE b_bt
  /\ IF b_disc < SERVICES
     THEN b_discover_primary(b_disc + 1)
     ELSE b_disc' = 0 /\ UNCHANGED <<b_troubles, b_fault>>
  /\ UNCHANGED <<b_version, b_main, b_reading, b_central, b_params>>

(* The peer lacks it, or the link is going down.                            *)
discover_cts_fn_null ==
  /\ b_version = 2 /\ b_disc # 0
  /\ b_params' = "zero" /\ b_found' = 0 /\ b_disc' = 0
  /\ b_Fails("discover")
  /\ UNCHANGED <<b_version, b_main, b_bt, b_reading, b_central, b_fault>>

(* INIT, INIT2: bt_enable is tried again every 100 ms until it works, then  *)
(* the scan is started.                                                    *)
INIT2 ==
  /\ b_version = 2 /\ b_state = "INIT"
  /\ \/ /\ b_bt = "DOWN"
        /\ \/ b_bt' = "IDLE" /\ b_Works
           \/ b_bt' = "DOWN" /\ b_Fails("init")
        /\ UNCHANGED <<b_state, b_scanning>>
     \/ /\ b_bt = "IDLE"
        /\ b_state' = "SCAN" /\ b_start_scan /\ UNCHANGED b_bt
  /\ UNCHANGED <<b_version, b_count, b_reading, b_conn, b_refs, b_link, b_discovery, b_fault>>

(* SCAN looks at bt_state once a second and asks the user; CONNECTED only   *)
(* passes on to READ_FLAGS.                                                *)
SCAN ==
  /\ b_version = 2 /\ b_state = "SCAN" /\ b_bt = "FOUND_PROTECT"
  /\ b_state' = "READ_FLAGS" /\ b_count' = 0
  /\ UNCHANGED <<b_version, b_bt, b_reading, b_central, b_discovery, b_troubles, b_fault>>

(* bt_gatt_read on the static read_params of read_flag().                   *)
read_flag(flag) ==
  /\ b_fault' = ~ b_conn
  /\ \/ b_conn /\ b_link = "up" /\ b_asked' = b_asked \cup {flag} /\ b_Works
     \/ b_asked' = b_asked /\ b_Fails("read")

read_flags_2_unguarded ==
  /\ b_version = 2 /\ b_state = "READ_FLAGS"
  /\ b_wait' = TRUE /\ b_flag' = b_count
  /\ read_flag(b_count)
  /\ b_count' = (b_count + 1) % FLAGS
  /\ UNCHANGED <<b_version, b_state, b_bt, b_central, b_discovery>>

(* read_flags(): the poll of wait, and the next read when it is clear.      *)
read_flags_2 ==
  /\ b_version = 2 /\ b_state = "READ_FLAGS" /\ ~ b_wait
  /\ b_wait' = TRUE /\ b_flag' = b_count
  /\ read_flag(b_count)
  /\ b_count' = (b_count + 1) % FLAGS
  /\ UNCHANGED <<b_version, b_state, b_bt, b_central, b_discovery>>

read_flag_cb_2_waits ==
  /\ \E flag \in b_asked : b_asked' = b_asked \ {flag}
  /\ UNCHANGED <<b_version, b_main, b_bt, b_wait, b_flag, b_central, b_discovery, b_troubles, b_fault>>

(* The value, or an error: in either case wait is cleared.                  *)
read_flag_cb_2 ==
  /\ \E flag \in b_asked : b_asked' = b_asked \ {flag}
  /\ b_wait' = FALSE
  /\ UNCHANGED <<b_version, b_main, b_bt, b_flag, b_central, b_discovery, b_troubles, b_fault>>

-----------------------------------------------------------------------------
(* protect_backup4 *)

init_state_4 ==
  /\ b_version = 4 /\ b_state = "INIT"
  /\ \/ b_state' = "FAIL" /\ b_Fails("init") /\ UNCHANGED <<b_bt, b_scanning>>
     \/ b_state' = "SCAN" /\ b_bt' = "IDLE" /\ b_start_scan
  /\ UNCHANGED <<b_version, b_count, b_reading, b_conn, b_refs, b_link, b_discovery, b_fault>>

(* connected_cb: one discovery of every primary service.                    *)
connected_4 ==
  /\ b_version = 4 /\ b_link = "connecting"
  /\ b_link' = "up"
  /\ b_discover_primary(1)
  /\ UNCHANGED <<b_version, b_main, b_bt, b_reading, b_conn, b_refs, b_scanning,
                 b_found, b_params>>

(* discover_cb: BT_GATT_ITER_CONTINUE for every attribute; at the end the   *)
(* parameters are left as they are.                                        *)
discover_cb_4 ==
  /\ b_version = 4 /\ b_disc # 0
  /\ \/ b_link = "up" /\ b_disc' = IF b_disc < SERVICES THEN b_disc + 1 ELSE 0
     \/ b_disc' = 0
  /\ UNCHANGED <<b_version, b_main, b_bt, b_reading, b_central, b_found, b_params,
                 b_troubles, b_fault>>

-----------------------------------------------------------------------------
b_polls == ~ b_fault /\ (INIT2 \/ SCAN \/ read_flags_2 \/ init_state_4)

b_Answer == ~ b_fault /\ (connected_2 \/ discover_cts_fn \/ read_flag_cb_2)

b_Callback == ~ b_fault /\ (\/ b_device_found \/ b_connected_err \/ b_LinkLost
                            \/ b_disconnected \/ discover_cts_fn_null
                            \/ connected_4 \/ discover_cb_4)

BackupsNext == b_polls \/ b_Answer \/ b_Callback

-----------------------------------------------------------------------------
(* Properties *)

(* g_flag, through which read_flag_cb finds the name and the length of what *)
(* it prints, is the flag of the one read under way, over lost links and    *)
(* refused reads (protect_backup2, `wait').                                *)
AnswersHaveTheirName == b_asked \subseteq {b_flag} /\ (b_asked # {} => b_wait)

(* One reference for a connection and none without; a scan or a connection, *)
(* unless the stack refused to start one (both programs).                  *)
BackupsKeepConnection ==
  /\ b_refs = IF b_conn THEN 1 ELSE 0
  /\ b_state \notin {"INIT", "FAIL"} /\ ~ b_scanning /\ ~ b_conn
       => b_troubles \cap {"scan", "create"} # {}

(* backup4 keeps discover_params whole, so no sequence of connections makes *)
(* it use NULL; backup2 does only once a link was lost.                    *)
BackupsFault == b_fault => b_version = 2 /\ "link" \in b_troubles

(* Every read is followed by the next one, unless a read was refused or the *)
(* link was lost: then backup2 may poll wait for ever.                     *)
ReadingGoesOn ==
  \A flag \in 0 .. FLAGS - 1 :
    (b_wait /\ b_flag = flag) ~> (\/ b_wait /\ b_flag = (flag + 1) % FLAGS
                                  \/ b_troubles \cap {"read", "link"} # {})
=============================================================================
