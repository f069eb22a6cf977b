------------------------------ MODULE Eddystone ------------------------------
(***************************************************************************)
(* samples/bluetooth/eddystone: a beacon with one slot.  It starts in       *)
(* configuration mode (connectable advertising); after an idle time, or     *)
(* after the configuring peer has gone, it switches to beacon mode.         *)
(*                                                                         *)
(* idle_work runs on the system work queue, the connection callbacks and    *)
(* the attribute handlers on the stack's receive thread: k_delayed_work_-   *)
(* cancel cannot stop a work item whose time has come.  e_adv and e_link    *)
(* are the stack's: connectable advertising pauses while a peer is          *)
(* connected and resumes afterwards, unless it was stopped.                 *)
(*                                                                         *)
(* The lengths checked are kept as the verdict, the contents of values are  *)
(* left out.  write_unlock always fails: a lock is for ever.  NUMBER_OF_-   *)
(* SLOTS is 1, so that write_slot changes nothing.                          *)
(*                                                                         *)
(* A URL frame is copied to &data + 4, sixteen bytes behind a pointer that  *)
(* ends eds_slots: over whatever the linker has put there, which is        *)
(* e_overrun.  It is never a field of the slot; what else it is, and what   *)
(* the program does with it then, is not modelled.                          *)
(***************************************************************************)
EXTENDS Naturals

CONSTANTS
  URL_LEN,       \* data_len of the slot's third advertising element at start
  URL_LENGTHS    \* data lengths a client's URL frame may ask for

ASSUME EddystoneAssumption == URL_LEN \in Nat /\ URL_LENGTHS \subseteq Nat

VARIABLES
  e_slot,       \* eds_slots[0]: the fields the handlers write, and data_len
  e_work,       \* idle_work: "idle", "waiting" or "due"
  e_restart,    \* eds_slot_restart on the work queue, for the peer: at, type
  e_adv,        \* stack: what is advertised: "off", "config" or "beacon"
  e_link,       \* a peer is connected
  e_ready,      \* bt_ready() has been called
  e_broken,     \* history: advertising could not be started
  e_outran,     \* history: idle_work was due when the peer connected
  e_crossed,    \* history: a restart went on in the wait of the other's start
  e_overrun     \* history: bytes behind eds_slots were overwritten

e_rest == <<e_ready, e_overrun>>
eddyVars == <<e_slot, e_work, e_restart, e_adv, e_link, e_broken, e_outran, e_crossed, e_rest>>

NoRestart == [at |-> "no", type |-> "NONE"]

EddystoneInit ==
  /\ e_slot = [type |-> "NONE", state |-> "UNLOCKED", connectable |-> FALSE,
               data_len |-> URL_LEN, tx_power |-> 0, adv_tx_power |-> 0]
  /\ e_work = "idle" /\ e_restart = [queue |-> NoRestart, peer |-> NoRestart]
  /\ e_adv = "off" /\ e_link = FALSE /\ e_ready = FALSE
  /\ e_broken = FALSE /\ e_outran = FALSE /\ e_crossed = FALSE /\ e_overrun = FALSE

(* bt_le_adv_start of a stopped advertiser works or fails.                  *)
adv_start(mode) == \/ e_adv' = mode /\ UNCHANGED e_broken
                   \/ UNCHANGED e_adv /\ e_broken' = TRUE

(* idle_work is submitted only when the advertising was started.            *)
eds_bt_ready ==
  /\ ~ e_ready
  /\ e_ready' = TRUE
  /\ adv_start("config")
  /\ e_work' = IF e_broken' THEN e_work ELSE "waiting"
  /\ UNCHANGED <<e_slot, e_restart, e_link, e_outran, e_crossed, e_overrun>>

Other(who) == IF who = "queue" THEN "peer" ELSE "queue"

(* who goes on while the other waits in its bt_le_adv_start, or has not yet  *)
(* come back from there.                                                   *)
Crosses(who) == e_restart[Other(who)].at \in {"start", "started"}

(* eds_slot_restart: bt_le_adv_stop waits for the controller, so that the    *)
(* other context may run, ...                                              *)
eds_slot_stop(who, type) ==
  /\ e_restart[who].at = "no"
  /\ e_adv' = "off"
  /\ e_restart' = [e_restart EXCEPT ![who] = [at |-> "stop", type |-> type]]
  /\ e_crossed' = (Crosses(who) \/ (e_crossed /\ e_restart[Other(who)].at # "no"))

(* ... and so does bt_le_adv_start, unless it refuses to start what is on.   *)
eds_slot_start(who) ==
  /\ e_restart[who].at = "stop"
  /\ IF e_adv = "off"
     THEN /\ e_restart' = [e_restart EXCEPT ![who].at = "start"]
          /\ e_crossed' = (e_crossed \/ Crosses(who))
     ELSE e_restart' = [e_restart EXCEPT ![who] = NoRestart] /\ UNCHANGED e_crossed
  /\ UNCHANGED <<e_slot, e_work, e_adv, e_link, e_broken, e_outran, e_rest>>

(* The controller starts, or fails.  When the other start was faster, this    *)
(* one fails, or goes as well with the data of either.                      *)
AdvStarts(who) ==
  LET mode == IF e_restart[who].type = "NONE" THEN "config" ELSE "beacon"
  IN /\ e_restart[who].at = "start"
     /\ \/ /\ e_adv' \in {mode} \cup (IF e_adv = "off" THEN {} ELSE {e_adv})
           /\ e_restart' = [e_restart EXCEPT ![who].at = "started"] /\ UNCHANGED e_broken
        \/ /\ e_restart' = [e_restart EXCEPT ![who] = NoRestart] /\ UNCHANGED e_adv
           /\ e_broken' = (e_broken \/ e_adv = "off")
     /\ UNCHANGED <<e_slot, e_work, e_link, e_outran, e_crossed, e_rest>>

(* Only a start that worked sets the type; the thread may be late to do so.  *)
eds_slot_restart(who) ==
  /\ e_restart[who].at = "started"
  /\ e_slot' = [e_slot EXCEPT !.type = e_restart[who].type]
  /\ e_restart' = [e_restart EXCEPT ![who] = NoRestart]
  /\ UNCHANGED <<e_work, e_adv, e_link, e_broken, e_outran, e_crossed, e_rest>>

Restart(who) == eds_slot_start(who) \/ AdvStarts(who) \/ eds_slot_restart(who)

(* EDS_IDLE_TIMEOUT has passed: the system work queue holds idle_work.      *)
IdleTimeout ==
  /\ e_work = "waiting"
  /\ e_work' = "due"
  /\ UNCHANGED <<e_slot, e_restart, e_adv, e_link, e_broken, e_outran, e_crossed, e_rest>>

idle_timeout ==
  /\ e_work = "due" /\ e_restart.queue.at = "no"
  /\ e_work' = "idle"
  /\ IF e_slot.type = "NONE"
     THEN eds_slot_stop("queue", "URL")
     ELSE UNCHANGED <<e_restart, e_adv, e_crossed>>
  /\ UNCHANGED <<e_slot, e_link, e_broken, e_outran, e_rest>>

-----------------------------------------------------------------------------
(* The stack's receive thread: one callback or handler at a time, each only  *)
(* when the restart an earlier one waits for is over.                       *)

Served == e_restart.peer.at = "no"

(* Only connectable advertising is answered; the delay is cancelled, a due  *)
(* work item is not.                                                       *)
eds_connected ==
  /\ Served /\ ~ e_link /\ e_adv = "config"
  /\ e_link' = TRUE
  /\ e_work' = IF e_work = "waiting" THEN "idle" ELSE e_work
  /\ e_outran' = (e_work = "due" \/ e_restart.queue.at # "no")
  /\ UNCHANGED <<e_slot, e_restart, e_adv, e_broken, e_crossed, e_rest>>

(* The idle work is due at once, unless the slot is to stay connectable.    *)
eds_disconnected ==
  /\ Served /\ e_link
  /\ e_link' = FALSE
  /\ e_work' = IF e_slot.connectable THEN e_work ELSE "due"
  /\ UNCHANGED <<e_slot, e_restart, e_adv, e_broken, e_outran, e_crossed, e_rest>>

(* LOCKED, UNLOCKED or UNLOCKED_NO_RELOCKING, in an unlocked slot.          *)
write_lock ==
  /\ Served /\ e_link /\ e_slot.state # "LOCKED"
  /\ \E state \in {"LOCKED", "UNLOCKED", "NO_RELOCKING"} : e_slot' = [e_slot EXCEPT !.state = state]
  /\ UNCHANGED <<e_work, e_restart, e_adv, e_link, e_broken, e_outran, e_crossed, e_rest>>

write_connectable ==
  /\ Served /\ e_link /\ e_slot.state # "LOCKED"
  /\ \E connectable \in BOOLEAN : e_slot' = [e_slot EXCEPT !.connectable = connectable]
  /\ UNCHANGED <<e_work, e_restart, e_adv, e_link, e_broken, e_outran, e_crossed, e_rest>>

(* write_tx_power, write_adv_tx_power: some power is stored, in an unlocked  *)
(* slot.                                                                   *)
write_tx_power ==
  /\ Served /\ e_link /\ e_slot.state # "LOCKED"
  /\ \E power \in {0, 1} : \/ e_slot' = [e_slot EXCEPT !.tx_power = power]
                          \/ e_slot' = [e_slot EXCEPT !.adv_tx_power = power]
  /\ UNCHANGED <<e_work, e_restart, e_adv, e_link, e_broken, e_outran, e_crossed, e_rest>>

Shorter(a, b) == IF a < b THEN a ELSE b

(* Nothing clears the slot; a URL frame shortens its data to the length     *)
(* written, but is itself copied elsewhere; then the advertising is          *)
(* restarted.  Other types and lengths are refused.                        *)
write_adv_data ==
  /\ Served /\ e_link /\ e_slot.state # "LOCKED"
  /\ \/ eds_slot_stop("peer", "NONE") /\ UNCHANGED <<e_slot, e_overrun>>
     \/ \E len \in URL_LENGTHS : /\ e_slot' = [e_slot EXCEPT !.data_len = Shorter(@, len)]
                                  /\ e_overrun' = TRUE /\ eds_slot_stop("peer", "URL")
  /\ UNCHANGED <<e_work, e_link, e_ready, e_broken, e_outran>>

-----------------------------------------------------------------------------
WorkQueue == idle_timeout \/ Restart("queue")

EddystoneNext == \/ eds_bt_ready \/ IdleTimeout \/ WorkQueue \/ Restart("peer")
                 \/ eds_connected \/ eds_disconnected
                 \/ write_lock \/ write_connectable \/ write_tx_power \/ write_adv_data

-----------------------------------------------------------------------------
(* Properties *)

(* The work queue and the peer's writes restart the advertising in one       *)
(* another's waits (main.c, eds_slot_restart): for all that, the beacon is    *)
(* never left silent, unless a start failed; and what is on the air is what  *)
(* the slot says it is, unless one stopped or started what the other was     *)
(* just starting: then the type may be the one's and the air the other's.     *)
SlotIsOnAir ==
  ~ e_overrun =>
    /\ e_ready /\ e_adv = "off" => e_broken \/ \E who \in {"queue", "peer"} : e_restart[who].at # "no"
    /\ e_adv # "off" /\ ~ e_crossed /\ (\A who \in {"queue", "peer"} : e_restart[who].at # "started")
         => e_adv = IF e_slot.type = "NONE" THEN "config" ELSE "beacon"

(* A locked slot keeps what its owner set (write_lock and the other          *)
(* handlers): after the restart it was locked in, only the idle work        *)
(* changes its type.                                                       *)
LockHolds ==
  [][e_slot.state = "LOCKED"
       => /\ e_slot' = [e_slot EXCEPT !.type = e_slot'.type]
          /\ e_slot'.type # e_slot.type => e_restart.queue.at # "no"]_eddyVars

(* The peer that configures the beacon is not cut off by the idle time,     *)
(* unless the work was due before it connected.                            *)
NotBeaconMeanwhile == e_link /\ e_restart.queue.at # "no" => e_outran \/ e_overrun

(* A beacon nobody configures ends up broadcasting, unless advertising      *)
(* could not be started, the slot was left connectable, or restarts have     *)
(* crossed: one that is a beacon by its type only stays connectable.        *)
EndsUpBroadcasting ==
  (e_ready /\ ~ e_link)
    ~> (e_adv = "beacon" \/ e_link \/ e_broken \/ e_slot.connectable \/ e_crossed \/ e_overrun)
=============================================================================
