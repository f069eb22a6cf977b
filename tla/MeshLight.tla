------------------------------ MODULE MeshLight ------------------------------
(***************************************************************************)
(* samples/boards/nrf/mesh/onoff_level_lighting_vnd_app: the light of a    *)
(* mesh node.  Lightness, colour temperature and delta UV each have a      *)
(* current and a target value; the three share one transition, driven by   *)
(* one k_timer.                                                            *)
(*                                                                         *)
(* Mesh messages are handled in the receive thread: a new message stops    *)
(* the timer, sets targets and starts the timer again.  The timer's expiry *)
(* (interrupt) submits a work item; the system workqueue runs the items in *)
(* order, later, so that an item may still be queued when the next message *)
(* is handled.  Both threads are cooperative: a handler is one step, and   *)
(* only the interrupt comes in between.                                    *)
(*                                                                         *)
(* 16-bit values are scaled down: 0 .. LMAX stands for 0 .. 65535 (and     *)
(* wraps the same way), levels are the signed values -HALF .. HALF - 1, a  *)
(* transition time is its number of 100 ms steps, the acknowledged and the *)
(* unacknowledged form of a message differ only in the answer.  A message  *)
(* with an invalid value, transition time or length changes nothing, but   *)
(* for a delta message (delta_refused).                                    *)
(* What is saved in flash, and the reboot, are in MeshStorage.             *)
(***************************************************************************)
EXTENDS Integers, Sequences, FiniteSets

CONSTANTS
  LMAX,            \* UINT16_MAX and LIGHTNESS_MAX
  TEMP_MIN, TEMP_MAX,
  Duv,             \* the delta UV values used
  Kinds,           \* the messages the network sends
  Form,            \* "ack", "unack": the forms a message comes in
  Id,              \* message identities: (source, destination, tid)
  TT,              \* transition times, in steps of 100 ms
  RESOLUTION,      \* DEVICE_SPECIFIC_RESOLUTION: the most steps of a transition
  U32,             \* the modulus of the transition counter
  MSGS,            \* bound: messages accepted in one behaviour
  None

HALF == (LMAX + 1) \div 2
Level == -HALF .. HALF - 1
Signed == -LMAX .. LMAX

ASSUME MeshLightAssumption ==
  /\ LMAX \in Nat /\ LMAX % 2 = 1 /\ TEMP_MIN \in 1 .. LMAX /\ TEMP_MAX \in TEMP_MIN .. LMAX
  /\ TT \subseteq Nat /\ RESOLUTION \in Nat \ {0} /\ U32 \in Nat /\ U32 > RESOLUTION
  /\ MSGS \in Nat /\ None \notin Id /\ 0 \in Duv /\ Duv \subseteq Level

Channel == {"light", "temp", "duv"}
Ranged == {"light", "temp"}

VARIABLES
  cur, tgt, delta,     \* of each channel: current, target, and the step size
  rmin, rmax,          \* range_min, range_max of lightness and temperature
  def, last,           \* light->def, light->last
  tt,                  \* ctl->tt, the default transition time
  counter, just_started, type, delay, \* ctl->transition
  timer,               \* the work its expiry submits, "off" when stopped
  works,               \* items queued for the system workqueue, oldest first
  last_id,             \* last_tid, src and dst, None once 6 s have passed
  last_level,          \* the static variable of each of the four delta handlers
  msg,                 \* history: the message being carried out
  raced,               \* history: it came, or an interrupt hit, while work was queued
  aim,                 \* history: the delta transaction it is part of, or None
  msgs                 \* messages left

values == <<cur, tgt, delta>>
settings == <<rmin, rmax, def, tt>>
transition == <<counter, just_started, type, delay, timer>>
history == <<msg, raced, aim, msgs>>
vars == <<values, settings, last, transition, works, last_id, last_level, history>>

(* The work items of transition.c and the values each one steps. *)
Touches == [onoff |-> {"light"}, level_lightness |-> {"light"}, level_temp |-> {"temp"},
            light_lightness_actual |-> {"light"}, light_lightness_linear |-> {"light"},
            light_ctl |-> Channel, light_ctl_temp |-> {"temp", "duv"}]
Work == DOMAIN Touches

(* After boot: light_default_status_init made every target current, and    *)
(* update_light_state has submitted no_transition_work; the default         *)
(* transition time is what is stored.                                      *)
Booted(stored) ==
  /\ cur = [light |-> LMAX, temp |-> TEMP_MAX, duv |-> 0] /\ tgt = cur
  /\ delta = [c \in Channel |-> 0]
  /\ rmin = [light |-> 1, temp |-> TEMP_MIN] /\ rmax = [light |-> LMAX, temp |-> TEMP_MAX]
  /\ def = LMAX /\ last = LMAX /\ tt = stored
  /\ counter = 0 /\ just_started = FALSE /\ type = "NON_MOVE" /\ delay = FALSE /\ timer = "off"
  /\ works = <<"no_transition">>
  /\ last_id = None /\ last_level = [f \in Form |-> [c \in Ranged |-> 0]]
  /\ msg = <<None, 0>> /\ raced = FALSE /\ aim = None /\ msgs = MSGS

Init == Booted(0)

-----------------------------------------------------------------------------
(* Arithmetic of C: division truncates, 16-bit variables wrap *)

Abs(n) == IF n < 0 THEN -n ELSE n
TruncDiv(a, b) == IF a < 0 THEN -(Abs(a) \div b) ELSE a \div b
Wrap(c, v) == IF c = "duv" THEN ((v + HALF) % (LMAX + 1)) - HALF ELSE v % (LMAX + 1)
Clamp(v, lo, hi) == IF v < lo THEN lo ELSE IF v > hi THEN hi ELSE v

(* k_work_submit: an item that is queued already stays where it is. *)
Submit(q, w) == IF \E i \in DOMAIN q : q[i] = w THEN q ELSE Append(q, w)

update_light_state(q) == Submit(q, "no_transition")

-----------------------------------------------------------------------------
(* state_binding.c *)

constrain_lightness(v) == IF v > 0 /\ v < rmin["light"] THEN rmin["light"]
                          ELSE IF v > rmax["light"] THEN rmax["light"] ELSE v

(* The sign it looks at is that of the step left by an earlier transition. *)
constrain_target_lightness2(v) ==
  IF v > 0 /\ v < rmin["light"] THEN IF delta["light"] < 0 THEN 0 ELSE rmin["light"]
  ELSE IF v > rmax["light"] THEN rmax["light"] ELSE v

constrain_temperature(v) == Clamp(v, rmin["temp"], rmax["temp"])

(* The largest r with r/LMAX <= sqrt(v/LMAX). *)
linear_to_actual(v) == CHOOSE r \in 0 .. LMAX : r * r <= v * LMAX /\ (r + 1) * (r + 1) > v * LMAX

level_to_light_ctl_temp(l) == rmin["temp"] + ((l + HALF) * (rmax["temp"] - rmin["temp"])) \div LMAX

(* Outside the range, or in a range of one value (a division by zero), the  *)
(* float does not fit an s16: any level may come out.                      *)
light_ctl_temp_to_level(t) ==
  LET width == rmax["temp"] - rmin["temp"]
  IN IF width = 0 \/ t < rmin["temp"] \/ t > rmax["temp"] THEN Level
     ELSE {((t - rmin["temp"]) * LMAX) \div width - HALF}

(* get_current(LEVEL_LIGHT), get_current(LEVEL_TEMP): the possible results. *)
get_current_level(c) == IF c = "light" THEN {cur["light"] - HALF} ELSE light_ctl_temp_to_level(cur["temp"])

-----------------------------------------------------------------------------
(* What the set handlers of device_composition.c have in common *)

(* Identity, transition time and delay of a message; without the optional   *)
(* fields the default time and no delay.                                   *)
Fields == [id : Id, tt : TT, delay : BOOLEAN] \cup [id : Id, tt : {tt}, delay : {FALSE}]

Duplicate(m) == m.id = last_id

(* set_transition_counter *)
Steps(t) == IF t > RESOLUTION THEN RESOLUTION ELSE t

(* Every accepted message stops the transition that runs and is remembered; *)
(* the work items it finds in the queue stay there.                        *)
Accept(m, kind, v) ==
  /\ msgs > 0 /\ msgs' = msgs - 1
  /\ last_id' = m.id /\ delay' = m.delay
  /\ msg' = <<kind, v>> /\ raced' = (works # <<>>)

(* set_transition_values for a transition that is not a move. *)
set_transition_values(chans, goal, n) ==
  delta' = [c \in Channel |-> IF c \in chans /\ n > 0 THEN TruncDiv(cur[c] - goal[c], n) ELSE delta[c]]

(* The message changes nothing visible: its values are reached already (or, *)
(* for a move, it takes no time).                                          *)
NoTransition == /\ counter' = 0 /\ timer' = "off"
                /\ UNCHANGED <<cur, just_started, works>>

(* The *_handler of transition.c: at once, or by the timer. *)
StartTransition(kind, n, d) ==
  /\ counter' = n /\ just_started' = TRUE
  /\ IF n = 0 /\ ~ d THEN timer' = "off" /\ works' = update_light_state(works)
                      ELSE timer' = kind /\ UNCHANGED works

Fade_looks_at_one_channel(m, kind, v, goal) ==
  LET chans == Touches[kind]
      n == Steps(m.tt)
  IN /\ Accept(m, kind, v)
     /\ type' = "NON_MOVE" /\ tgt' = goal
     /\ IF \E c \in Ranged : goal[c] = cur[c]
        THEN NoTransition /\ UNCHANGED delta
        ELSE /\ set_transition_values(chans, goal, n)
             /\ cur' = [c \in Channel |-> IF n = 0 /\ c \in chans THEN goal[c] ELSE cur[c]]
             /\ StartTransition(kind, n, m.delay)

Fade(m, kind, v, goal) ==
  LET chans == Touches[kind]
      n == Steps(m.tt)
  IN /\ Accept(m, kind, v)
     /\ type' = "NON_MOVE" /\ tgt' = goal
     /\ IF \A c \in chans : goal[c] = cur[c]
        THEN NoTransition /\ UNCHANGED delta
        ELSE /\ set_transition_values(chans, goal, n)
             /\ cur' = [c \in Channel |-> IF n = 0 /\ c \in chans THEN goal[c] ELSE cur[c]]
             /\ StartTransition(kind, n, m.delay)

Move(m, kind, c, v) ==
  LET goal == IF v < 0 THEN rmin[c] ELSE IF v > 0 THEN rmax[c] ELSE cur[c]
      n == Steps(m.tt)
  IN /\ Accept(m, kind, v)
     /\ type' = "MOVE" /\ delta' = [delta EXCEPT ![c] = v] /\ tgt' = [tgt EXCEPT ![c] = goal]
     /\ IF goal = cur[c] \/ n = 0
        THEN NoTransition
        ELSE UNCHANGED cur /\ StartTransition(kind, n, m.delay)

(* A message that is no delta ends the transaction. *)
NoDelta == UNCHANGED last_level /\ aim' = None

(* A new delta begins a transaction; a further one of the same form and      *)
(* channel belongs to it.  "meant" is the target that the transaction's      *)
(* first level and this delta ask for.                                     *)
Begun(m, f, c, l) ==
  IF ~ Duplicate(m) THEN {l}
  ELSE IF aim # None /\ aim.form = f /\ aim.chan = c THEN {aim.from} ELSE {}

Aims(m, f, c, v, l, goal) ==
  LET begun == Begun(m, f, c, l)
      meant(from) == goal[Clamp(from + v, -HALF, HALF - 1)]
  IN IF begun = {} THEN aim' = None
     ELSE \E from \in begun : aim' = [form |-> f, chan |-> c, from |-> from, meant |-> meant(from)]

Delta_from_current_level(m, kind, c, v, goal) ==
  /\ Duplicate(m) => delta[c] # v
  /\ \E f \in Form : \E l \in get_current_level(c) :
        /\ last_level' = [last_level EXCEPT ![f][c] = l]
        /\ Fade(m, kind, v, [tgt EXCEPT ![c] = goal[Clamp(l + v, -HALF, HALF - 1)]])
        /\ Aims(m, f, c, v, l, goal)

(* Deltas of one transaction (same identity) all start from its first level; *)
(* goal[l] is the target that level l asks for.                            *)
Delta(m, kind, c, v, goal) ==
  /\ Duplicate(m) => delta[c] # v
  /\ \E f \in Form : \E l \in IF Duplicate(m) THEN {last_level[f][c]} ELSE get_current_level(c) :
        /\ last_level' = [last_level EXCEPT ![f][c] = l]
        /\ Fade(m, kind, v, [tgt EXCEPT ![c] = goal[Clamp(l + v, -HALF, HALF - 1)]])
        /\ Aims(m, f, c, v, l, goal)

-----------------------------------------------------------------------------
(* The messages that change the light *)

gen_onoff_set(m) ==
  \E v \in {0, 1} :
    /\ "onoff" \in Kinds /\ ~ Duplicate(m)
    /\ Fade(m, "onoff", v,
            [tgt EXCEPT !["light"] = IF v = 0 THEN 0 ELSE IF def = 0 THEN last ELSE def])
    /\ NoDelta /\ UNCHANGED <<settings, last>>

gen_level_set(m) ==
  \E l \in Level :
    /\ "level" \in Kinds /\ ~ Duplicate(m)
    /\ Fade(m, "level_lightness", l, [tgt EXCEPT !["light"] = constrain_lightness(l + HALF)])
    /\ NoDelta /\ UNCHANGED <<settings, last>>

gen_delta_set(m) ==
  \E v \in Signed :
    /\ "delta" \in Kinds
    /\ Delta(m, "level_lightness", "light", v, [l \in Level |-> constrain_target_lightness2(l + HALF)])
    /\ UNCHANGED <<settings, last>>

gen_move_set(m) ==
  \E v \in Level :
    /\ "move" \in Kinds /\ ~ Duplicate(m)
    /\ Move(m, "level_lightness", "light", v)
    /\ NoDelta /\ UNCHANGED <<settings, last>>

light_lightness_set(m) ==
  \E v \in 0 .. LMAX :
    /\ "actual" \in Kinds /\ ~ Duplicate(m)
    /\ Fade(m, "light_lightness_actual", v, [tgt EXCEPT !["light"] = constrain_lightness(v)])
    /\ NoDelta /\ UNCHANGED <<settings, last>>

light_lightness_linear_set(m) ==
  \E v \in 0 .. LMAX :
    /\ "linear" \in Kinds /\ ~ Duplicate(m)
    /\ Fade(m, "light_lightness_linear", v,
            [tgt EXCEPT !["light"] = constrain_lightness(linear_to_actual(v))])
    /\ NoDelta /\ UNCHANGED <<settings, last>>

light_ctl_set(m) ==
  \E v \in 0 .. LMAX, t \in TEMP_MIN .. TEMP_MAX, d \in Duv :
    /\ "ctl" \in Kinds /\ ~ Duplicate(m)
    /\ Fade(m, "light_ctl", v,
            [light |-> constrain_lightness(v), temp |-> constrain_temperature(t), duv |-> d])
    /\ NoDelta /\ UNCHANGED <<settings, last>>

light_ctl_temp_set(m) ==
  \E t \in TEMP_MIN .. TEMP_MAX, d \in Duv :
    /\ "ctl_temp" \in Kinds /\ ~ Duplicate(m)
    /\ Fade(m, "light_ctl_temp", t, [tgt EXCEPT !["temp"] = constrain_temperature(t), !["duv"] = d])
    /\ NoDelta /\ UNCHANGED <<settings, last>>

gen_level_set_temp(m) ==
  \E l \in Level :
    /\ "level_temp" \in Kinds /\ ~ Duplicate(m)
    /\ Fade(m, "level_temp", l, [tgt EXCEPT !["temp"] = level_to_light_ctl_temp(l)])
    /\ NoDelta /\ UNCHANGED <<settings, last>>

gen_delta_set_temp(m) ==
  \E v \in Signed :
    /\ "delta_temp" \in Kinds
    /\ Delta(m, "level_temp", "temp", v, [l \in Level |-> level_to_light_ctl_temp(l)])
    /\ UNCHANGED <<settings, last>>

gen_move_set_temp(m) ==
  \E v \in Level :
    /\ "move_temp" \in Kinds /\ ~ Duplicate(m)
    /\ Move(m, "level_temp", "temp", v)
    /\ NoDelta /\ UNCHANGED <<settings, last>>

(* A delta of another identity, refused for its length or transition time:   *)
(* the level is taken before the checks, the identity is not.  From then on  *)
(* the transaction that was under way starts from the wrong level.  Bounds:  *)
(* while messages are left and a transaction is under way; at other times    *)
(* the next transaction replaces what it took.                              *)
delta_refused ==
  \E c \in Ranged, f \in Form : \E l \in get_current_level(c) :
    /\ (IF c = "light" THEN "delta" ELSE "delta_temp") \in Kinds
    /\ aim # None
    /\ last_level' = [last_level EXCEPT ![f][c] = l]
    /\ aim' = IF aim.form = f /\ aim.chan = c THEN None ELSE aim
    /\ UNCHANGED <<values, settings, last, transition, works, last_id, msg, raced, msgs>>

(* The messages that change a setting leave values and transition alone: a  *)
(* new range does not constrain what is already set.                       *)

light_lightness_range_set ==
  \E lo, hi \in 1 .. LMAX :
    /\ "range" \in Kinds /\ msgs > 0 /\ lo <= hi
    /\ rmin' = [rmin EXCEPT !["light"] = lo] /\ rmax' = [rmax EXCEPT !["light"] = hi]
    /\ msgs' = msgs - 1
    /\ UNCHANGED <<values, def, last, tt, transition, works, last_id, last_level, msg, raced, aim>>

light_ctl_temp_range_set ==
  \E lo, hi \in TEMP_MIN .. TEMP_MAX :
    /\ "range" \in Kinds /\ msgs > 0 /\ lo <= hi
    /\ rmin' = [rmin EXCEPT !["temp"] = lo] /\ rmax' = [rmax EXCEPT !["temp"] = hi]
    /\ msgs' = msgs - 1
    /\ UNCHANGED <<values, def, last, tt, transition, works, last_id, last_level, msg, raced, aim>>

light_lightness_default_set ==
  \E v \in 0 .. LMAX :
    /\ "default" \in Kinds /\ msgs > 0 /\ def # constrain_lightness(v)
    /\ def' = constrain_lightness(v)
    /\ msgs' = msgs - 1
    /\ UNCHANGED <<values, rmin, rmax, last, tt, transition, works, last_id, last_level, msg, raced, aim>>

gen_def_trans_time_set ==
  \E t \in TT :
    /\ "default" \in Kinds /\ msgs > 0 /\ tt # t
    /\ tt' = t /\ msgs' = msgs - 1
    /\ UNCHANGED <<values, rmin, rmax, def, last, transition, works, last_id, last_level, msg, raced, aim>>

Message ==
  /\ msgs > 0
  /\ \/ \E m \in Fields :
          \/ gen_onoff_set(m) \/ gen_level_set(m) \/ gen_delta_set(m) \/ gen_move_set(m)
          \/ light_lightness_set(m) \/ light_lightness_linear_set(m)
          \/ light_ctl_set(m) \/ light_ctl_temp_set(m)
          \/ gen_level_set_temp(m) \/ gen_delta_set_temp(m) \/ gen_move_set_temp(m)
     \/ delta_refused
     \/ light_lightness_range_set \/ light_ctl_temp_range_set
     \/ light_lightness_default_set \/ gen_def_trans_time_set

(* Six seconds pass: the message is no longer taken for a duplicate, and a   *)
(* transaction is over.                                                    *)
SixSeconds == /\ last_id # None
              /\ last_id' = None /\ aim' = None
              /\ UNCHANGED <<values, settings, last, transition, works, last_level, msg, raced, msgs>>

-----------------------------------------------------------------------------
(* The timer interrupt and the system workqueue *)

(* The *_tt_handler of the running transition. *)
Tick == /\ timer # "off"
        /\ works' = Submit(works, timer)
        /\ UNCHANGED <<values, settings, last, transition, last_id, last_level, history>>

(* The timer is stopped.  Its last expiry may have come while the handler   *)
(* ran, after the item was taken from the queue.                           *)
StopTimer(q) == /\ timer' = "off"
                /\ \/ works' = q /\ UNCHANGED raced
                   \/ timer # "off" /\ works' = Submit(q, timer) /\ raced' = TRUE

KeepTimer(q) == works' = q /\ UNCHANGED <<timer, raced>>

(* The first expiry, after the delay. *)
FirstStep(q) ==
  /\ just_started
  /\ just_started' = FALSE
  /\ IF counter = 0 THEN StopTimer(update_light_state(q)) ELSE KeepTimer(q)
  /\ UNCHANGED <<values, counter>>

(* level_move_lightness_work_handler, level_move_temp_work_handler: from    *)
(* zero a move continues at the other end.                                 *)
MoveStep(c, q) ==
  LET v == IF cur[c] = 0 /\ delta[c] < 0 THEN LMAX + delta[c] ELSE cur[c] + delta[c]
      new == Clamp(v, rmin[c], rmax[c])
  IN /\ cur' = [cur EXCEPT ![c] = new]
     /\ IF tgt[c] = new
        THEN counter' = 0 /\ StopTimer(IF counter = 0 THEN update_light_state(q) ELSE q)
        ELSE UNCHANGED counter /\ KeepTimer(IF counter = 0 THEN update_light_state(q) ELSE q)

FadeStep_not_counted(chans, q) ==
  LET n == counter
  IN /\ counter' = n
     /\ cur' = [c \in Channel |-> IF c \notin chans THEN cur[c]
                                  ELSE IF n = 0 THEN tgt[c] ELSE Wrap(c, cur[c] - delta[c])]
     /\ IF n = 0 THEN StopTimer(update_light_state(q)) ELSE KeepTimer(q)

(* The counter is unsigned: an item left over from a stopped transition     *)
(* takes it below zero.                                                    *)
FadeStep(chans, q) ==
  LET n == (counter - 1) % U32
  IN /\ counter' = n
     /\ cur' = [c \in Channel |-> IF c \notin chans THEN cur[c]
                                  ELSE IF n = 0 THEN tgt[c] ELSE Wrap(c, cur[c] - delta[c])]
     /\ IF n = 0 THEN StopTimer(update_light_state(q)) ELSE KeepTimer(q)

work_handler ==
  /\ works # <<>> /\ Head(works) \in Work
  /\ LET w == Head(works)
         q == Tail(works)
     IN \/ FirstStep(q)
        \/ /\ ~ just_started
           /\ IF type = "MOVE" /\ w \in {"level_lightness", "level_temp"}
              THEN MoveStep(IF w = "level_temp" THEN "temp" ELSE "light", q)
              ELSE FadeStep(Touches[w], q)
           /\ UNCHANGED <<tgt, delta, just_started>>
  /\ UNCHANGED <<settings, last, type, delay, last_id, last_level, msg, aim, msgs>>

(* The values settle on their targets, those of an abandoned transition too. *)
no_transition_work_handler ==
  /\ works # <<>> /\ Head(works) = "no_transition"
  /\ works' = Tail(works)
  /\ cur' = tgt
  /\ last' = IF tgt["light"] # 0 THEN tgt["light"] ELSE last
  /\ UNCHANGED <<tgt, delta, settings, transition, last_id, last_level, history>>

Workqueue == work_handler \/ no_transition_work_handler

Next == Message \/ SixSeconds \/ Tick \/ Workqueue

Spec == Init /\ [][Next]_vars

(* A running timer expires and the workqueue thread gets the CPU. *)
Fairness == WF_vars(Tick) /\ WF_vars(Workqueue)

FairSpec == Spec /\ Fairness

-----------------------------------------------------------------------------
(* Properties *)

Fading == type = "NON_MOVE" /\ timer # "off" /\ counter > 0

(* The remaining steps of a fade never carry a value past its target, so     *)
(* that no 16-bit value wraps: the light does not flash when it is dimmed.  *)
(* Unless the message was handled while work items were queued:            *)
(* no_transition_work would then jump to the target and the steps go on.   *)
NoOvershoot ==
  Fading /\ ~ raced =>
    \A c \in Touches[timer] :
       /\ delta[c] > 0 => cur[c] - tgt[c] >= delta[c] * counter
       /\ delta[c] < 0 => cur[c] - tgt[c] <= delta[c] * counter

(* When the timer is stopped and the queue is empty, the values the last    *)
(* message set are reached.  Not after a move of no duration, which leaves *)
(* a target behind, nor when a left-over item took one step more.          *)
SettledAtRest ==
  timer = "off" /\ works = <<>> /\ ~ raced /\ type = "NON_MOVE" /\ msg[1] # None
    => \A c \in Touches[msg[1]] : cur[c] = tgt[c]

(* The transition counter goes below zero only through an item left over    *)
(* from a transition that a message, or the last step, had stopped.        *)
CounterWrapsOnlyAfterRace == counter > RESOLUTION => raced

(* All: lightness, temperature and delta UV go where a message sends them,   *)
(* and no further.                                                         *)
NeitherPastNorShort == NoOvershoot /\ SettledAtRest /\ CounterWrapsOnlyAfterRace

(* The delta messages of one transaction never add up: each asks for the     *)
(* level at its begin plus its own value, whatever the light did since, and  *)
(* that is the target until the next message, or six seconds.  A transaction *)
(* is kept in one form and on one channel, as last_level is; a refused delta *)
(* of the same form (delta_refused), or another message with its identity,   *)
(* breaks it, and what is sent on is not covered.                           *)
DeltaNotAddedTwice == aim # None => tgt[aim.chan] = aim.meant

(* A range message moved the bound a move is heading for.                   *)
BoundMovedAway == type = "MOVE" /\ \E c \in Ranged : tgt[c] \notin rmin[c] .. rmax[c]

(* Left alone, the light comes to rest: the timer is stopped and the queue  *)
(* runs empty, whatever messages interrupted each other.  Only a move whose *)
(* range is changed under way may never end: its steps are clamped to the   *)
(* new range, its target is the old bound.                                 *)
ComesToRest == <>[]((timer = "off" /\ works = <<>>) \/ BoundMovedAway)
=============================================================================
