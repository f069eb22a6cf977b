----------------------------- MODULE Peripherals -----------------------------
(***************************************************************************)
(* samples/bluetooth/peripheral, peripheral_csc, peripheral_hr and            *)
(* hci_pwr_ctrl: in each, a thread wakes up once a second and notifies or     *)
(* sets the transmit power, and the stack's receive thread runs the handlers  *)
(* on the same statics.  p_at is the place inside the first thread's loop.   *)
(*                                                                         *)
(*   peripheral      the current time, told after a peer wrote it, and a     *)
(*                   vendor indication, one at a time                       *)
(*   peripheral_csc  wheel and crank revolutions, in u16 event times, and a  *)
(*                   control point that sets the wheel's count              *)
(*   peripheral_hr   is itself a client: it looks for the peer's current     *)
(*                   time and subscribes to it                              *)
(*   hci_pwr_ctrl    steps the advertising power down a staircase, or sets    *)
(*                   the connection's by its RSSI, through commands that      *)
(*                   block until the controller has answered                 *)
(*                                                                         *)
(* Battery level and heart rate, which nothing else touches, and reads,      *)
(* which change nothing, are left out.                                      *)
(***************************************************************************)
EXTENDS Naturals

CONSTANTS
  WRITES,       \* bound: writes of the current time
  PERIOD,       \* the event times start again when i is a multiple of it (64)
  WHEEL, CRANK, \* the most an event time grows by
  U16,          \* 2^16
  U32,          \* 2^32, for the wheel's count
  COUNTS,       \* what a client may set the wheel's count to
  TXP_NUM,      \* DEVICE_BEACON_TXPOWER_NUM, the steps of the staircase
  H_FAULTS      \* bound: commands the controller or the buffers refuse

ASSUME PeripheralsAssumption ==
  /\ WRITES \in Nat /\ PERIOD \in Nat \ {0} /\ WHEEL \in Nat /\ CRANK \in Nat
  /\ U16 \in Nat \ {0} /\ U32 \in Nat \ {0} /\ COUNTS \subseteq 0 .. U32 - 1
  /\ TXP_NUM \in Nat \ {0} /\ H_FAULTS \in Nat

VARIABLES
  p_kind,          \* "vnd", "csc", "hr" or "pwr"
  p_at,            \* main(): "sleep", or the place reached in this turn
  p_link,          \* a peer is connected
  ct, ct_update,   \* peripheral: the time, as a version; it was written
  ct_told,         \* history: the version last notified
  simulate,        \* the CCC value: the peer has subscribed
  indicating,      \* peripheral: indicating
  p_pending,       \* stack: indications on ind_params not yet answered
  p_outran,        \* history: an answer came before indicating was set
  csc,             \* i, lwet, lcet, cwr; loaded: main()'s copy of cwr
  cwr_due,         \* history: what cwr is when no update is lost
  cwr_lost,        \* history: a control point write fell into main()'s update
  hr,              \* discover_params, subscription: see PeripheralsInit
  pwr              \* hci_pwr_ctrl: see PeripheralsInit

timeVars0 == <<ct, ct_update, ct_told>>
vndVars == <<indicating, p_pending, p_outran>>
cscVars == <<csc, cwr_due, cwr_lost>>
peripheralVars == <<p_kind, p_at, p_link, timeVars0, simulate, vndVars, cscVars, hr, pwr>>

(* hr.seek is the uuid in discover_params ("zero" after the memset), at the  *)
(* stage the discovery has reached; hr.value is the connection whose handle  *)
(* subscribe_params holds, hr.subscribed the one it is registered for.       *)
(* pwr: conn, default_conn is set; refs, the references on it; cb, what the   *)
(* receive thread has to do for the link; idx, rssi, the locals of            *)
(* modulate_tx_power, rssi by where it was read; adv, the advertising power   *)
(* in the controller; level, where the link's power comes from; churned, a    *)
(* new link came up between reading and setting; excused, when level was set.*)
PeripheralsInit ==
  /\ p_kind \in {"vnd", "csc", "hr", "pwr"} /\ p_at = "sleep" /\ p_link = FALSE
  /\ ct = 0 /\ ct_update = FALSE /\ ct_told = 0
  /\ simulate = FALSE /\ indicating = FALSE /\ p_pending = 0 /\ p_outran = FALSE
  /\ csc = [i |-> 0, lwet |-> 0, lcet |-> 0, cwr |-> 0, loaded |-> 0]
  /\ cwr_due = 0 /\ cwr_lost = FALSE
  /\ hr = [seek |-> "zero", busy |-> FALSE, value |-> "none", subscribed |-> "none", refs |-> 0]
  /\ pwr = [conn |-> FALSE, refs |-> 0, cb |-> "none", idx |-> 0, rssi |-> "failed", adv |-> 0,
            level |-> "default", churned |-> FALSE, excused |-> FALSE, faults |-> H_FAULTS]

-----------------------------------------------------------------------------
(* peripheral: main() *)

(* cts_notify(): ct_update is cleared before the time is notified.           *)
cts_notify_check ==
  /\ p_kind = "vnd" /\ p_at = "sleep"
  /\ p_at' = IF ct_update THEN "cts" ELSE "vnd"
  /\ ct_update' = FALSE
  /\ UNCHANGED <<p_kind, p_link, ct, ct_told, simulate, vndVars, cscVars, hr, pwr>>

cts_notify ==
  /\ p_kind = "vnd" /\ p_at = "cts"
  /\ ct_told' = ct /\ p_at' = "vnd"
  /\ UNCHANGED <<p_kind, p_link, ct, ct_update, simulate, vndVars, cscVars, hr, pwr>>

(* An indication is sent when the peer has subscribed and the last one is     *)
(* answered; an error of bt_gatt_indicate leaves indicating clear.           *)
vnd_indicate ==
  /\ p_kind = "vnd" /\ p_at = "vnd"
  /\ \/ /\ simulate /\ ~ indicating /\ p_link
        /\ p_pending' = p_pending + 1 /\ p_at' = "indicated"
     \/ p_at' = "sleep" /\ UNCHANGED p_pending
  /\ UNCHANGED <<p_kind, p_link, timeVars0, simulate, indicating, p_outran, cscVars, hr, pwr>>

(* ... and indicating is set when bt_gatt_indicate has returned.             *)
vnd_indicated ==
  /\ p_at = "indicated"
  /\ indicating' = TRUE /\ p_at' = "sleep"
  /\ UNCHANGED <<p_kind, p_link, timeVars0, simulate, p_pending, p_outran, cscVars, hr, pwr>>

(* peripheral: the receive thread *)

(* The peer confirms, or the stack gives up with an error.                   *)
indicate_cb ==
  /\ p_pending > 0
  /\ p_pending' = p_pending - 1
  /\ indicating' = FALSE
  /\ p_outran' = (p_outran \/ p_at = "indicated")
  /\ UNCHANGED <<p_kind, p_at, p_link, timeVars0, simulate, cscVars, hr, pwr>>

write_ct ==
  /\ p_kind = "vnd" /\ p_link /\ ct < WRITES
  /\ ct' = ct + 1 /\ ct_update' = TRUE
  /\ UNCHANGED <<p_kind, p_at, p_link, ct_told, simulate, vndVars, cscVars, hr, pwr>>

-----------------------------------------------------------------------------
(* peripheral_csc *)

(* csc_simulation(), first half: main() adds two to a copy of cwr ...        *)
csc_load ==
  /\ p_kind = "csc" /\ p_at = "sleep" /\ simulate
  /\ IF csc.i % 2 = 0
     THEN /\ csc' = [csc EXCEPT !.loaded = csc.cwr, !.lwet = (@ + WHEEL) % U16]
          /\ p_at' = "add"
     ELSE p_at' = "crank" /\ UNCHANGED csc
  /\ UNCHANGED <<p_kind, p_link, timeVars0, simulate, vndVars, cwr_due, cwr_lost, hr, pwr>>

(* ... and stores it: what a client has set meanwhile is overwritten.        *)
csc_add ==
  /\ p_kind = "csc" /\ p_at = "add"
  /\ csc' = [csc EXCEPT !.cwr = (csc.loaded + 2) % U32]
  /\ cwr_due' = (cwr_due + 2) % U32
  /\ p_at' = "crank"
  /\ UNCHANGED <<p_kind, p_link, timeVars0, simulate, vndVars, cwr_lost, hr, pwr>>

(* The crank, the notification, and the end of a period.                     *)
csc_report ==
  /\ p_kind = "csc" /\ p_at = "crank"
  /\ LET lcet == IF csc.i % 3 = 0 THEN (csc.lcet + CRANK) % U16 ELSE csc.lcet
     IN csc' = IF csc.i % PERIOD = 0
               THEN [csc EXCEPT !.lcet = 0, !.lwet = 0, !.i = 1]
               ELSE [csc EXCEPT !.lcet = lcet, !.i = @ + 1]
  /\ p_at' = "sleep"
  /\ UNCHANGED <<p_kind, p_link, timeVars0, simulate, vndVars, cwr_due, cwr_lost, hr, pwr>>

(* SC_CP_OP_SET_CWR on the receive thread; the location is left out.         *)
write_ctrl_point ==
  /\ p_kind = "csc" /\ p_link
  /\ \E count \in COUNTS : csc' = [csc EXCEPT !.cwr = count] /\ cwr_due' = count
  /\ cwr_lost' = (cwr_lost \/ p_at = "add")
  /\ UNCHANGED <<p_kind, p_at, p_link, timeVars0, simulate, vndVars, hr, pwr>>

(* vnd_ccc_cfg_changed, csc_meas_ccc_cfg_changed: the peer subscribes or not.*)
ccc_cfg_changed ==
  /\ p_kind \in {"vnd", "csc"} /\ p_link
  /\ simulate' = ~ simulate
  /\ UNCHANGED <<p_kind, p_at, p_link, timeVars0, vndVars, cscVars, hr, pwr>>

-----------------------------------------------------------------------------
(* peripheral_hr: the receive thread *)

(* connected_cb sets every field of discover_params and starts the search;   *)
(* the other programs only print.                                          *)
connected_cb ==
  /\ ~ p_link /\ p_kind # "pwr"
  /\ p_link' = TRUE
  /\ IF p_kind # "hr" THEN UNCHANGED hr
     ELSE \/ hr' = [hr EXCEPT !.seek = "service", !.busy = TRUE, !.refs = @ + 1]
          \/ hr' = [hr EXCEPT !.seek = "service", !.refs = @ + 1]
  /\ UNCHANGED <<p_kind, p_at, timeVars0, simulate, vndVars, cscVars, pwr>>

(* discover_cts_cb with an attribute: the service, its characteristic, whose *)
(* handle is kept, its CCC, which is subscribed to.  Either request may fail.*)
discover_cts_cb ==
  /\ hr.busy /\ p_link
  /\ LET go(next) == \E works \in BOOLEAN : hr' = [next EXCEPT !.busy = works]
     IN \/ hr.seek = "service" /\ go([hr EXCEPT !.seek = "characteristic"])
        \/ hr.seek = "characteristic" /\ go([hr EXCEPT !.seek = "ccc", !.value = "this"])
        \/ /\ hr.seek = "ccc"
           /\ \E works \in BOOLEAN :
                hr' = [hr EXCEPT !.busy = FALSE,
                                 !.subscribed = IF works THEN hr.value ELSE @]
  /\ UNCHANGED <<p_kind, p_at, p_link, timeVars0, simulate, vndVars, cscVars, pwr>>

(* Without one: discover_params is cleared.                                 *)
discover_cts_cb_null ==
  /\ hr.busy
  /\ hr' = [hr EXCEPT !.busy = FALSE, !.seek = "zero"]
  /\ UNCHANGED <<p_kind, p_at, p_link, timeVars0, simulate, vndVars, cscVars, pwr>>

(* disconnected_cb: the reference is given back; what subscribe_params holds  *)
(* belongs to a connection that is gone.                                    *)
hr_gone == [hr EXCEPT !.value = IF @ = "this" THEN "old" ELSE @, !.subscribed = "none",
                      !.refs = IF @ > 0 THEN @ - 1 ELSE @]

(* The stack has answered what was under way, and clears the CCC.            *)
disconnected_cb ==
  /\ p_link /\ p_pending = 0 /\ ~ hr.busy /\ p_kind # "pwr"
  /\ p_link' = FALSE /\ simulate' = FALSE
  /\ hr' = IF p_kind = "hr" THEN hr_gone ELSE hr
  /\ UNCHANGED <<p_kind, p_at, timeVars0, vndVars, cscVars, pwr>>

-----------------------------------------------------------------------------
(* hci_pwr_ctrl *)

Power(next) == /\ p_kind = "pwr" /\ next
               /\ UNCHANGED <<p_kind, timeVars0, simulate, vndVars, cscVars, hr>>

(* A command for which there is no buffer, or that the controller refuses.   *)
Refused == pwr.faults > 0 /\ pwr' = [pwr EXCEPT !.faults = @ - 1]

(* modulate_tx_power: the branch, by default_conn.                           *)
modulate_tx_power ==
  /\ p_at = "sleep"
  /\ p_at' = IF pwr.conn THEN "read" ELSE "adv"
  /\ pwr' = IF pwr.conn THEN [pwr EXCEPT !.idx = 0, !.rssi = "failed", !.churned = FALSE] ELSE pwr
  /\ UNCHANGED p_link

(* set_tx_power of the advertising; after five seconds, the next step.       *)
set_adv_power ==
  /\ p_at = "adv" /\ p_at' = "adv_slept"
  /\ \/ pwr' = [pwr EXCEPT !.adv = pwr.idx]
     \/ Refused
  /\ UNCHANGED p_link

next_adv_power ==
  /\ p_at = "adv_slept" /\ p_at' = "sleep"
  /\ pwr' = [pwr EXCEPT !.idx = (@ + 1) % TXP_NUM]
  /\ UNCHANGED p_link

(* read_conn_rssi: without an answer, rssi keeps what it was declared with.   *)
read_conn_rssi ==
  /\ p_at = "read" /\ p_at' = "set"
  /\ \/ p_link /\ pwr' = [pwr EXCEPT !.rssi = "this"]
     \/ ~ p_link /\ UNCHANGED pwr
     \/ Refused
  /\ UNCHANGED p_link

(* set_tx_power of the handle, which the next link has again.                *)
set_conn_power ==
  /\ p_at = "set" /\ p_at' = "sleep"
  /\ \/ p_link /\ pwr' = [pwr EXCEPT !.level = pwr.rssi, !.excused = pwr.churned]
     \/ ~ p_link /\ UNCHANGED pwr
     \/ Refused
  /\ UNCHANGED p_link

pwr_thread == \/ modulate_tx_power \/ set_adv_power \/ next_adv_power
              \/ read_conn_rssi \/ set_conn_power

(* The link comes up when the callbacks of the last one are through ...      *)
pwr_link_up ==
  /\ ~ p_link /\ pwr.cb = "none" /\ p_link' = TRUE
  /\ pwr' = [pwr EXCEPT !.cb = "connected", !.level = "default",
                         !.churned = @ \/ p_at \in {"read", "set"}]
  /\ UNCHANGED p_at

(* ... and goes down at any time.                                           *)
pwr_link_down ==
  /\ p_link /\ p_link' = FALSE
  /\ pwr' = [pwr EXCEPT !.rssi = IF @ = "this" THEN "old" ELSE @, !.level = "default"]
  /\ UNCHANGED p_at

(* connected: the reference, and the power without preference when there is   *)
(* a handle, after a command that blocks.                                   *)
pwr_connected ==
  /\ pwr.cb = "connected"
  /\ pwr' = [pwr EXCEPT !.conn = TRUE, !.refs = @ + 1, !.cb = IF p_link THEN "no_pref" ELSE "up"]
  /\ UNCHANGED <<p_at, p_link>>

pwr_no_pref ==
  /\ pwr.cb = "no_pref"
  /\ \/ pwr' = [pwr EXCEPT !.cb = "up", !.level = "default"]
     \/ pwr.faults > 0 /\ pwr' = [pwr EXCEPT !.cb = "up", !.faults = @ - 1]
  /\ UNCHANGED <<p_at, p_link>>

pwr_disconnected ==
  /\ ~ p_link /\ pwr.cb = "up"
  /\ pwr' = [pwr EXCEPT !.conn = FALSE, !.refs = IF pwr.conn THEN @ - 1 ELSE @, !.cb = "none"]
  /\ UNCHANGED <<p_at, p_link>>

pwr_rx == pwr_connected \/ pwr_no_pref \/ pwr_disconnected

-----------------------------------------------------------------------------
p_main == \/ cts_notify_check \/ cts_notify \/ vnd_indicate \/ vnd_indicated
          \/ csc_load \/ csc_add \/ csc_report \/ Power(pwr_thread)

PeripheralsNext ==
  \/ p_main \/ indicate_cb \/ write_ct \/ write_ctrl_point \/ ccc_cfg_changed
  \/ connected_cb \/ discover_cts_cb \/ discover_cts_cb_null \/ disconnected_cb
  \/ Power(pwr_link_up \/ pwr_link_down \/ pwr_rx)

-----------------------------------------------------------------------------
(* Properties *)

(* The static ind_params serves one indication at a time, and indicating is   *)
(* left set for nothing only when the answer outran main() (main.c of        *)
(* peripheral, where it is set after the call).                             *)
OneIndication ==
  /\ p_pending <= 1
  /\ indicating => p_pending = 1 \/ p_outran

(* No written time goes untold: what was written before or while main()       *)
(* notifies is notified, or still marked (ct_update).                       *)
TimeIsTold == ct_update \/ p_at = "cts" \/ ct_told = ct

(* The wheel's count is what was last set plus what was added since, unless   *)
(* the setting fell between main()'s load and store of cwr.                  *)
CountIsDue == csc.cwr = cwr_due \/ cwr_lost

(* The u16 event times never wrap: the start of a new period comes first      *)
(* (csc_simulation, i % 64).                                               *)
TimesDoNotWrap ==
  [][\/ csc'.lwet >= csc.lwet /\ csc'.lcet >= csc.lcet
     \/ csc'.lwet = 0 /\ csc'.lcet = 0 /\ csc'.i = 1]_csc

(* peripheral_hr subscribes with the handle it found on this connection, and  *)
(* keeps one reference for it.                                              *)
SubscribedHere ==
  /\ hr.subscribed \in {"none", "this"}
  /\ hr.refs = IF p_link /\ p_kind = "hr" THEN 1 ELSE 0
  /\ hr.busy => hr.seek # "zero"

(* A link's power comes from its own RSSI, unless the link is a new one since  *)
(* the RSSI was read or a command was refused; default_conn holds one         *)
(* reference (hci_pwr_ctrl).                                                *)
PowerFitsLink ==
  /\ pwr.level = "old" => pwr.excused
  /\ pwr.level = "failed" => pwr.excused \/ pwr.faults < H_FAULTS
  /\ pwr.refs = IF pwr.conn THEN 1 ELSE 0

(* A link that stays ends up with a power set by its RSSI; without one, the   *)
(* staircase goes on.                                                      *)
PowerIsModulated ==
  /\ <>[]p_link => <>[](p_kind = "pwr" => pwr.level = "this")
  /\ <>[](~ p_link) => []<>(p_kind = "pwr" => p_at = "adv")

(* A written time is told in the end.                                      *)
TimeToldInTheEnd == ct_update ~> ~ ct_update
=============================================================================
