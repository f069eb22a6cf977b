----------------------------- MODULE MeshSwitch -----------------------------
(***************************************************************************)
(* boards/nrf/mesh/onoff-app: a mesh node of several buttons and lamps.  The  *)
(* button interrupt counts presses for a window of one second, the timer's    *)
(* interrupt turns the count into a command, the system work queue obeys it,  *)
(* and the stack's thread serves the on/off models of the lamps.             *)
(***************************************************************************)
EXTENDS Integers, Sequences

CONSTANTS
  SWITCHES,     \* buttons, each with a lamp and a pair of models (4)
  DEBOUNCE,     \* BUTTON_DEBOUNCE_DELAY_MS, in ticks
  WINDOW,       \* the second of button_timer, in ticks
  UPTIME_MOD,   \* where k_uptime_get_32() wraps (2^32 ms)
  STARTS,       \* bound: the uptimes a behaviour may begin at
  COUNT_MOD,    \* where button_press_cnt and trans_id wrap (2^8)
  LOAD          \* bound: interrupts of the buttons and operations of the mesh

ASSUME SwitchAssumption ==
  /\ DEBOUNCE \in Nat /\ WINDOW \in Nat \ {0} /\ UPTIME_MOD \in Nat \ {0}
  /\ STARTS \subseteq 0 .. UPTIME_MOD - 1 /\ COUNT_MOD \in Nat \ {0}
  /\ LOAD \in Nat

VARIABLES
  s_time, last_time,  \* k_uptime_get_32(), and at the last edge
  button_press_cnt,
  button_timer,       \* ticks to go; -1: stopped
  button_work,        \* BOOLEAN: pending
  sw,                 \* sw_num, onoff_state
  s_node,             \* primary: primary_addr # 0; member: of a network; trans_id
  s_pub,              \* the client and the server models with a publish address
  onoff_state,        \* of each lamp: current, previous
  s_sent,             \* the last command published by a client model, or <<>>
  s_left,             \* what the bounds leave: edges, ops
  s_seen              \* history, see SwitchInit

switchVars == <<s_time, last_time, button_press_cnt, button_timer, button_work, sw, s_node,
                s_pub, onoff_state, s_sent, s_left, s_seen>>

(* s_seen: ticks since the last edge and did the clock wrap in them; the       *)
(* presses of the window that came after quiet time, the last of their        *)
(* buttons, did the clock's wrap confuse them; the command that is owed and    *)
(* was it overtaken; of each lamp, the last status told, and is a set untold.  *)
SwitchInit ==
  /\ s_time \in STARTS /\ last_time = s_time
  /\ button_press_cnt = 0 /\ button_timer = -1 /\ button_work = FALSE
  /\ sw = [sw_num |-> CHOOSE b \in SWITCHES : TRUE, onoff_state |-> 0]
  /\ s_node = [primary |-> FALSE, member |-> FALSE, trans_id |-> 0]
  /\ s_pub = [client |-> {}, server |-> {}]
  /\ onoff_state = [b \in SWITCHES |-> [current |-> 0, previous |-> 0]]
  /\ s_sent = <<>>
  /\ s_left \in {[edges |-> n, ops |-> LOAD - n] : n \in 0 .. LOAD}
  /\ s_seen = [quiet |-> 0, lapped |-> FALSE, presses |-> 0, button |-> sw.sw_num,
               wrapped |-> FALSE, owed |-> <<>>, overtaken |-> FALSE,
               told |-> [b \in SWITCHES |-> 0], untold |-> [b \in SWITCHES |-> FALSE]]

-----------------------------------------------------------------------------
(* Interrupts *)

(* time < last_time + BUTTON_DEBOUNCE_DELAY_MS, in u32.                      *)
Bounces == s_time < (last_time + DEBOUNCE) % UPTIME_MOD

(* The clock has wrapped since the last edge, or will before that is debounced. *)
ClockWraps == s_seen.lapped \/ last_time + DEBOUNCE >= UPTIME_MOD

button_pressed(b) ==
  /\ s_left.edges > 0 /\ s_left' = [s_left EXCEPT !.edges = @ - 1]
  /\ last_time' = s_time
  /\ IF Bounces THEN UNCHANGED <<button_timer, button_press_cnt, sw>>
     ELSE /\ button_timer' = IF button_press_cnt = 0 THEN WINDOW ELSE button_timer
          /\ button_press_cnt' = (button_press_cnt + 1) % COUNT_MOD
          /\ sw' = [sw EXCEPT !.sw_num = b]
  /\ LET press == IF ClockWraps THEN ~ Bounces ELSE s_seen.quiet >= DEBOUNCE
     IN s_seen' = [s_seen EXCEPT
          !.quiet = 0, !.lapped = FALSE,
          !.presses = IF press THEN @ + 1 ELSE @,
          !.button = IF press THEN b ELSE @,
          !.wrapped = ClockWraps \/ (button_timer >= 0 /\ @),
          !.overtaken = @ \/ (button_work /\ press)]
  /\ UNCHANGED <<s_time, button_work, s_node, s_pub, onoff_state, s_sent>>

(* A millisecond or more; a timer that is due interrupts first.               *)
s_tick ==
  /\ button_timer # 0
  /\ button_timer > 0 \/ s_seen.quiet < DEBOUNCE \/ ~ s_seen.lapped \/ s_time < last_time
  /\ s_time' = (s_time + 1) % UPTIME_MOD
  /\ button_timer' = IF button_timer > 0 THEN button_timer - 1 ELSE button_timer
  /\ s_seen' = [s_seen EXCEPT !.quiet = IF @ < DEBOUNCE THEN @ + 1 ELSE @,
                                  !.lapped = @ \/ s_time' = 0]
  /\ UNCHANGED <<last_time, button_press_cnt, button_work, sw, s_node, s_pub, onoff_state,
                 s_sent, s_left>>

(* A work item that is pending is not queued again.                          *)
button_cnt_timer ==
  /\ button_timer = 0 /\ button_timer' = -1
  /\ sw' = [sw EXCEPT !.onoff_state = IF button_press_cnt = 1 THEN 1 ELSE 0]
  /\ button_press_cnt' = 0 /\ button_work' = TRUE
  /\ s_seen' = [s_seen EXCEPT
       !.owed = <<[button |-> s_seen.button, on |-> IF s_seen.presses = 1 THEN 1 ELSE 0]>>,
       !.presses = 0, !.wrapped = FALSE, !.overtaken = button_work \/ s_seen.wrapped]
  /\ UNCHANGED <<s_time, last_time, s_node, s_pub, onoff_state, s_sent, s_left>>

-----------------------------------------------------------------------------
(* The lamps *)

(* Only a change is published, and only to an address; a publication fails in  *)
(* a node that has no key for it.                                           *)
gen_onoff_set_unack(b, on) ==
  LET changed == onoff_state[b].previous # on
  IN IF b \in s_pub.server /\ changed
     THEN /\ onoff_state' = [onoff_state EXCEPT ![b] = [current |-> on, previous |-> on]]
          /\ \E failed \in BOOLEAN :
               s_seen' = [s_seen EXCEPT
                 !.untold[b] = failed, !.told[b] = IF failed THEN @ ELSE on,
                 !.owed = IF button_work' THEN @ ELSE <<>>]
     ELSE /\ onoff_state' = [onoff_state EXCEPT ![b].current = on]
          /\ s_seen' = [s_seen EXCEPT
               !.untold[b] = @ \/ b \notin s_pub.server,
               !.owed = IF button_work' THEN @ ELSE <<>>]

(* A node of the mesh sets a lamp; the answer of gen_onoff_set_lamp() changes      *)
(* nothing here.                                                           *)
gen_onoff_set_lamp ==
  /\ s_left.ops > 0 /\ s_left' = [s_left EXCEPT !.ops = @ - 1] /\ s_node.member
  /\ UNCHANGED button_work
  /\ \E b \in SWITCHES, on \in {0, 1} : gen_onoff_set_unack(b, on)
  /\ UNCHANGED <<s_time, last_time, button_press_cnt, button_timer, sw, s_node, s_pub, s_sent>>

-----------------------------------------------------------------------------
(* The work queue *)

button_pressed_worker ==
  /\ button_work /\ button_work' = FALSE
  /\ LET b == sw.sw_num
     IN IF ~ s_node.primary
        THEN gen_onoff_set_unack(b, sw.onoff_state) /\ UNCHANGED <<s_node, s_sent>>
        ELSE /\ s_seen' = [s_seen EXCEPT !.owed = <<>>]
             /\ UNCHANGED onoff_state
             /\ IF b \in s_pub.client
                THEN /\ s_sent' = <<[button |-> b, on |-> sw.onoff_state, tid |-> s_node.trans_id]>>
                     /\ s_node' = [s_node EXCEPT !.trans_id = (@ + 1) % COUNT_MOD]
                ELSE UNCHANGED <<s_node, s_sent>>
  /\ UNCHANGED <<s_time, last_time, button_press_cnt, button_timer, sw, s_pub, s_left>>

-----------------------------------------------------------------------------
(* Provisioning and configuration *)

MeshOp ==
  /\ s_left.ops > 0 /\ s_left' = [s_left EXCEPT !.ops = @ - 1]
  /\ UNCHANGED <<s_time, last_time, button_press_cnt, button_timer, button_work, sw,
                 onoff_state, s_sent, s_seen>>

prov_complete ==
  /\ MeshOp /\ ~ s_node.member
  /\ s_node' = [s_node EXCEPT !.primary = TRUE, !.member = TRUE]
  /\ UNCHANGED s_pub

(* The stack has forgotten the publications; primary_addr stays.              *)
prov_reset ==
  /\ MeshOp /\ s_node.member
  /\ s_node' = [s_node EXCEPT !.member = FALSE]
  /\ s_pub' = [client |-> {}, server |-> {}]

ModelPublication ==
  /\ MeshOp /\ s_node.member
  /\ \E model \in {"client", "server"}, b \in SWITCHES, set \in BOOLEAN :
       s_pub' = [s_pub EXCEPT ![model] = IF set THEN @ \union {b} ELSE @ \ {b}]
  /\ UNCHANGED s_node

SwitchNext ==
  \/ \E b \in SWITCHES : button_pressed(b)
  \/ s_tick \/ button_cnt_timer \/ button_pressed_worker \/ gen_onoff_set_lamp
  \/ prov_complete \/ prov_reset \/ ModelPublication

-----------------------------------------------------------------------------
(* Properties *)

(* The presses of a window are those edges that come after quiet time, however *)
(* contacts bounce, unless the clock wraps; the timer runs while there are.    *)
PressesCounted ==
  button_timer >= 0 /\ ~ s_seen.wrapped =>
    button_press_cnt = s_seen.presses /\ s_seen.presses > 0

(* What a lamp's server told its subscribers last is the lamp's state, unless  *)
(* a set found no publish address or a publication failed.                   *)
StatusIsTold == \A b \in SWITCHES : ~ s_seen.untold[b] => s_seen.told[b] = onoff_state[b].current

SwitchAgrees == PressesCounted /\ StatusIsTold

(* One press turns on, more turn off: the lamp of the button while the node    *)
(* was never provisioned, then what its client model publishes to, under a    *)
(* new tid; unless a later press or window overtakes the work queue.  That is  *)
(* what the code and the sample's README do; the head of main.c says instead   *)
(* that the button of an unprovisioned node "inverts the state of the        *)
(* corresponding LED": it does not, one press of a lit lamp leaves it lit.    *)
ObeyedStep ==
  \A c \in {s_seen.owed[k] : k \in DOMAIN s_seen.owed} :
    ~ button_work' /\ ~ s_seen.overtaken =>
      IF ~ s_node.primary THEN onoff_state'[c.button].current = c.on
      ELSE c.button \in s_pub.client =>
             /\ s_sent' # s_sent /\ s_sent'[1].button = c.button /\ s_sent'[1].on = c.on

PressIsObeyed == [][ObeyedStep]_switchVars
=============================================================================
