----------------------------- MODULE MeshControl -----------------------------
(***************************************************************************)
(* The lighting node of MeshLight with what surrounds it in                 *)
(* onoff_level_lighting_vnd_app: another board that runs the same program    *)
(* and is used as a switch (app_gpio.c, publisher.c), a phone that sends     *)
(* acknowledged requests, and the statuses the node answers and publishes.   *)
(*                                                                         *)
(* The mesh below delivers what the board sends in order, or loses it (a     *)
(* network message is never delivered twice).  A model's publication may be  *)
(* configured to be sent RETRANSMITS more times with the same tid; the next  *)
(* publication of the same model puts an end to it, one of another model     *)
(* does not: that is what the node tells repetitions apart for.              *)
(*                                                                         *)
(* "tt" stands for every setting that is stored, answered and published at   *)
(* once: default transition time, power-up behaviour, ranges, defaults.      *)
(* The vendor model does the same for one value.                            *)
(***************************************************************************)
EXTENDS MeshLight

CONSTANTS
  TIDS,         \* 2^8: the board's tid is a u8_t
  RETRANSMITS,  \* the publication's retransmit count
  PRESSED,      \* the buttons that are pressed, 1 .. 4
  PRESSES,      \* bound: publications of the board
  ASKS,         \* bound: what the phone sends, repetitions included
  REBOOTS       \* bound: restarts of the board

(* Who sends: MeshLight's identities. *)
Sources == ({"board"} \X (0 .. TIDS - 1)) \cup {<<"phone", 0>>}

ASSUME MeshControlAssumption ==
  /\ Id = Sources /\ PRESSED \subseteq 1 .. 4 /\ TIDS \in Nat \ {0} /\ {RETRANSMITS, PRESSES, ASKS, REBOOTS} \subseteq Nat

VARIABLES
  tid,                 \* publisher.c: tid
  pubs,                \* of each client model: the publication, copies left
  air,                 \* the board's messages on their way to the node
  presses, asks, reboots, \* counters of the bounded events
  told,                \* what the node last published of each kind of status
  unsolicited,         \* unsolicitedly_publish_states_timer is running
  answer,              \* the phone's last answer, None when a later set was accepted
  newest, shown,       \* history: the board's messages last arrived, last obeyed
  overtaken,           \* history: an older publication was repeated after a newer
  hushed               \* history: a transition was ended without a status

boardVars == <<tid, pubs, presses, reboots>>
statusVars == <<told, unsolicited, answer, hushed>>
orderVars == <<newest, shown, overtaken>>
netVars == <<air, asks>>
controlVars == <<vars, boardVars, statusVars, orderVars, netVars>>

-----------------------------------------------------------------------------
(* Statuses: value, target and counter are arguments, so that a handler can  *)
(* report what it has just set.                                            *)

(* An answer leaves the target out when the values it is about have reached  *)
(* it; a publication does so only when no transition runs.                   *)
Heading(form, chans, v, g, n) == n # 0 /\ (form = "publish" \/ \E c \in chans : v[c] # g[c])

Report(now, goal, heading) == IF heading THEN goal ELSE now

(* On, when the light is, or will be. *)
gen_onoff_report(form, v, g, n) ==
  Report(v["light"] # 0 \/ g["light"] # 0, g["light"] # 0, Heading(form, {"light"}, v, g, n))

gen_level_report(form, v, g, n) ==
  Report(v["light"] - HALF, g["light"] - HALF, Heading(form, {"light"}, v, g, n))

(* A level that stands for the temperature. *)
gen_level_report_temp(form, v, g, n) ==
  Report(v["temp"], g["temp"], Heading(form, {"temp"}, v, g, n))

light_lightness_report(form, v, g, n) ==
  Report(v["light"], g["light"], Heading(form, {"light"}, v, g, n))

light_ctl_report(form, v, g, n) ==
  Report(<<v["light"], v["temp"]>>, <<g["light"], g["temp"]>>, Heading(form, {"light", "temp"}, v, g, n))

light_ctl_temp_report(form, v, g, n) ==
  Report(<<v["temp"], v["duv"]>>, <<g["temp"], g["duv"]>>, Heading(form, {"temp", "duv"}, v, g, n))

Status(form, v, g, n) ==
  [onoff |-> gen_onoff_report(form, v, g, n), level |-> gen_level_report(form, v, g, n),
   level_temp |-> gen_level_report_temp(form, v, g, n),
   lightness |-> light_lightness_report(form, v, g, n), ctl |-> light_ctl_report(form, v, g, n),
   ctl_temp |-> light_ctl_temp_report(form, v, g, n)]

(* None when the node had values that no transition was taking to their       *)
(* target.                                                                 *)
Answer(v, g, n) == IF n = 0 /\ v # g THEN None ELSE Status("get", v, g, n)

ControlInit ==
  /\ Booted(RESOLUTION)
  /\ tid = 0
  /\ pubs = [model \in {"onoff", "level"} |-> [m |-> None, left |-> 0]]
  /\ air = <<>>
  /\ presses = 0 /\ asks = 0 /\ reboots = 0
  /\ told = Status("publish", cur, tgt, counter) /\ unsolicited = FALSE /\ answer = None
  /\ newest = 0 /\ shown = 0 /\ overtaken = FALSE /\ hushed = FALSE

-----------------------------------------------------------------------------
(* The board *)

(* What the buttons send: on, off, LEVEL_S25, LEVEL_S100. *)
Buttons == <<[kind |-> "onoff", v |-> 1], [kind |-> "onoff", v |-> 0],
             [kind |-> "level", v |-> 1 - HALF], [kind |-> "level", v |-> HALF - 1]>>

(* The network carries it to the node, or loses it. *)
Sent(m) == air' \in {air, Append(air, m)}

ButtonMessage(b) == [kind |-> b.kind, v |-> b.v, id |-> <<"board", tid>>, n |-> presses + 1]

Publish_tid_kept(m) ==
  \/ pubs' = [pubs EXCEPT ![m.kind] = [m |-> m, left |-> RETRANSMITS]] /\ Sent(m) /\ UNCHANGED tid
  \/ UNCHANGED <<pubs, air, tid>>

(* The tid is used up although bt_mesh_model_publish may fail. *)
Publish(m) ==
  /\ tid' = (tid + 1) % TIDS
  /\ \/ pubs' = [pubs EXCEPT ![m.kind] = [m |-> m, left |-> RETRANSMITS]] /\ Sent(m)
     \/ UNCHANGED <<pubs, air>>

(* button_pressed submits the work; the pins are read when it runs: any      *)
(* button may be down by then (or none any more, and nothing happens).      *)
publish ==
  /\ presses < PRESSES /\ presses' = presses + 1
  /\ \E b \in PRESSED : Publish(ButtonMessage(Buttons[b]))
  /\ UNCHANGED <<vars, reboots, statusVars, orderVars, asks>>

(* The mesh repeats a publication. *)
Retransmit ==
  /\ \E model \in DOMAIN pubs :
       /\ pubs[model].left > 0
       /\ pubs' = [pubs EXCEPT ![model].left = @ - 1]
       /\ Sent(pubs[model].m)
       /\ overtaken' = (overtaken \/ \E other \in DOMAIN pubs :
                          pubs[other].m # None /\ pubs[other].m.n > pubs[model].m.n)
  /\ UNCHANGED <<vars, tid, presses, reboots, statusVars, newest, shown, asks>>

(* The board restarts: the tid starts again, publications are forgotten. *)
BoardReboots ==
  /\ reboots < REBOOTS /\ reboots' = reboots + 1
  /\ tid' = 0
  /\ pubs' = [model \in DOMAIN pubs |-> [m |-> None, left |-> 0]]
  /\ UNCHANGED <<vars, presses, statusVars, orderVars, netVars>>

-----------------------------------------------------------------------------
(* The node *)

(* What comes in: the board's messages in order; at any time the phone asks,  *)
(* sets, or repeats itself with the same tid.                              *)
FromPhone == {[kind |-> "get", v |-> 0, id |-> <<"phone", 0>>, n |-> 0],
              [kind |-> "ctl_temp", v |-> TEMP_MIN, id |-> <<"phone", 0>>, n |-> 0],
              [kind |-> "tt", v |-> 0, id |-> <<"phone", 0>>, n |-> 0]}

Incoming == {air[i] : i \in {1} \cap DOMAIN air} \cup (IF asks < ASKS THEN FromPhone ELSE {})

Acknowledged(m) == m \in FromPhone

Receive(m) ==
  /\ IF Acknowledged(m) THEN asks' = asks + 1 /\ UNCHANGED air
                        ELSE air' = Tail(air) /\ UNCHANGED asks
  /\ newest' = IF m.n > newest THEN m.n ELSE newest
  /\ UNCHANGED <<boardVars, overtaken>>

(* The board leaves the optional fields out; the phone wants it at once. *)
Timed(m) == [id |-> m.id, tt |-> IF Acknowledged(m) THEN 0 ELSE tt, delay |-> FALSE]

Handles(m) ==
  /\ \/ m.kind = "onoff" /\ gen_onoff_set(Timed(m))
     \/ m.kind = "level" /\ gen_level_set(Timed(m))
     \/ m.kind = "ctl_temp" /\ light_ctl_temp_set(Timed(m))
  /\ msg'[2] = m.v

(* After a set: a transition that starts is published by the model that was  *)
(* addressed; when its values are there already nothing is.                  *)
Addressed(m) == IF m.kind = "ctl_temp" THEN {"temp", "duv"} ELSE {"light"}

Publishes(m) ==
  IF \A c \in Addressed(m) : tgt'[c] = cur[c]
  THEN hushed' = (hushed \/ timer # "off" \/ raced) /\ UNCHANGED told
  ELSE told' = [told EXCEPT ![m.kind] = Status("publish", cur', tgt', counter')[m.kind]]
       /\ UNCHANGED hushed

(* A set that is not a repetition; an acknowledged one is answered.          *)
Accepted ==
  \E m \in Incoming :
    /\ Receive(m)
    /\ Handles(m)
    /\ Publishes(m)
    /\ answer' = IF Acknowledged(m) THEN Answer(cur', tgt', counter') ELSE None
    /\ shown' = IF Acknowledged(m) THEN shown ELSE m.n
    /\ UNCHANGED unsolicited

(* A repetition changes nothing; an acknowledged one is answered again, like  *)
(* a question.                                                             *)
Repeated ==
  \E m \in Incoming :
    /\ Receive(m)
    /\ m.kind = "get" \/ (m.kind # "tt" /\ Duplicate(m))
    /\ answer' = IF Acknowledged(m) THEN Answer(cur, tgt, counter) ELSE answer
    /\ UNCHANGED <<vars, told, unsolicited, hushed, shown>>

(* gen_def_trans_time_set and its like: stored, answered, published. *)
Stored ==
  \E m \in Incoming :
    /\ m.kind = "tt" /\ Receive(m)
    /\ \/ tt # m.v /\ gen_def_trans_time_set /\ tt' = m.v
       \/ tt = m.v /\ UNCHANGED vars
    /\ UNCHANGED <<statusVars, shown>>

NodeWorks_unannounced ==
  /\ (SixSeconds \/ Tick \/ work_handler \/ no_transition_work_handler) /\ UNCHANGED unsolicited
  /\ UNCHANGED <<boardVars, told, answer, hushed, orderVars, netVars>>

(* The work items of MeshLight; no_transition_work starts the five seconds   *)
(* after which every status is published.                                   *)
NodeWorks ==
  /\ \/ (SixSeconds \/ Tick \/ work_handler) /\ UNCHANGED unsolicited
     \/ no_transition_work_handler /\ unsolicited' = TRUE
  /\ UNCHANGED <<boardVars, told, answer, hushed, orderVars, netVars>>

unsolicitedly_publish_states_timer_handler ==
  /\ unsolicited /\ unsolicited' = FALSE
  /\ works' = Submit(works, "publish")
  /\ UNCHANGED <<values, settings, last, transition, last_id, last_level, history,
                 boardVars, told, answer, hushed, orderVars, netVars>>

unsolicitedly_publish_states_work_handler ==
  /\ works # <<>> /\ Head(works) = "publish"
  /\ works' = Tail(works)
  /\ told' = Status("publish", cur, tgt, counter) /\ hushed' = FALSE
  /\ UNCHANGED <<values, settings, last, transition, last_id, last_level, history,
                 boardVars, unsolicited, answer, orderVars, netVars>>

NodeSchedule == NodeWorks \/ unsolicitedly_publish_states_timer_handler
                \/ unsolicitedly_publish_states_work_handler

ControlNext ==
  \/ publish \/ Retransmit \/ BoardReboots
  \/ Accepted \/ Repeated \/ Stored \/ NodeSchedule

(* A running timer expires and the workqueue thread gets the CPU. *)
ControlSpec == ControlInit /\ [][ControlNext]_controlVars /\ WF_controlVars(NodeSchedule)

-----------------------------------------------------------------------------
(* Properties *)

Quiet == air = <<>> /\ \A model \in DOMAIN pubs : pubs[model].left = 0

(* When all repetitions have come in, the node has obeyed the newest press    *)
(* of the board that reached it.  Not when a repetition of an older press    *)
(* from the other client model came after it, and not when the board began   *)
(* its tids again within six seconds (publisher.c, tid).                     *)
LastPressWins == Quiet => shown = newest \/ overtaken \/ reboots > 0

Rest == timer = "off" /\ works = <<>>

(* What the phone was answered comes true, when nothing else was accepted     *)
(* since: the values come to rest where the answer said.  Not when the       *)
(* message was handled among left-over work items, and not when another      *)
(* message had stopped the transition of a value on its way and the work     *)
(* that takes it to its target was still queued.                            *)
AnswersComeTrue ==
  Rest /\ answer # None /\ ~ raced => answer = Status("get", cur, tgt, 0)

(* Both: what people and programs ask of the node is what it does. *)
NodeObeys == LastPressWins /\ AnswersComeTrue

(* Those who only listen know the light in the end, from the statuses         *)
(* published on a change or five seconds later.  Not when a message asked    *)
(* for the values that a running transition, or a left-over step, had        *)
(* reached just then: they stay there, and nothing is published.            *)
ListenersKnow ==
  <>[](told = Status("get", cur, tgt, 0) \/ hushed \/ raced)
=============================================================================
