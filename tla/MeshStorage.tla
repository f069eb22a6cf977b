----------------------------- MODULE MeshStorage -----------------------------
(***************************************************************************)
(* samples/boards/nrf/mesh/onoff_level_lighting_vnd_app: what the node     *)
(* keeps in flash, and what a reboot makes of it.                          *)
(*                                                                         *)
(* save_on_flash(id) notes id in the one variable storage_id and submits   *)
(* the one work item storage_work.  The system workqueue later runs it: it *)
(* writes the keys of the id that storage_id then holds, one after the     *)
(* other, with the values the variables then have.  Writing flash blocks,  *)
(* so that message handlers, main and the timer interrupt run in between.  *)
(* Power may fail at any time; on boot the defaults are set, the keys      *)
(* found in flash are loaded over them, in an order the settings backend   *)
(* chooses, and light_default_status_init picks the values to start with.  *)
(*                                                                         *)
(* The transitions are in MeshLight; here a message sets targets, and some *)
(* time later no_transition_work makes them current.  Lightness is         *)
(* 0 .. LMAX, the colour temperature stands for everything whose range is  *)
(* not changed, and the transition time for the plain settings.            *)
(***************************************************************************)
EXTENDS Naturals, Sequences

CONSTANTS
  LMAX,         \* LIGHTNESS_MAX
  TMAX,         \* TEMP_MAX, above TEMP_MIN = 1
  MULTIRESET,   \* quick boots after which the next one resets the mesh
  MSGS,         \* bound: messages in one behaviour
  BOOTS,        \* bound: boots in one behaviour
  Absent        \* what flash holds for a key never saved

ASSUME MeshStorageAssumption ==
  /\ LMAX \in Nat \ {0} /\ TMAX \in Nat \ {0} /\ MULTIRESET \in Nat \ {0}
  /\ MSGS \in Nat /\ BOOTS \in Nat \ {0} /\ Absent \notin Nat

VARIABLES
  ram,          \* the variables the keys are saved from
  light, temp,  \* light->current, temp->current
  flash,        \* the saved value of each key
  ll_later,     \* the settings backend loads "ll" after "llt"
  storage_id,   \* the id of the last call of save_on_flash (before one: any)
  works,        \* items queued for the system workqueue
  writing,      \* the keys the running storage_work still has to write
  main,         \* "boot" before short_time_multireset..., then "counting", "up"
  provisioned,  \* bt_mesh_is_provisioned()
  overlap,      \* history: save_on_flash replaced an id that was not yet served
  quick,        \* history: boots since the last zero of rc reached flash
  msgs, boots   \* messages and boots left

vars == <<ram, light, temp, flash, ll_later, storage_id, works, writing, main, provisioned,
          overlap, quick, msgs, boots>>

OFF == 0
DEFAULT == 1
RESTORE == 2
Lightness == 0 .. LMAX
Temp == 1 .. TMAX
Ranges == {<<lo, hi>> \in (1 .. LMAX) \X (1 .. LMAX) : lo <= hi}

(* The keys each id saves, in order. *)
KeysOf == [RESET_COUNTER |-> <<"rc">>, GEN_DEF_TRANS_TIME_STATE |-> <<"gdtt">>,
           GEN_ONPOWERUP_STATE |-> <<"gpo">>, DEF_STATES |-> <<"ld", "td">>,
           LIGHTNESS_LAST_STATE |-> <<"ll">>, LAST_TARGET_STATES |-> <<"llt", "tlt">>,
           LIGHTNESS_RANGE |-> <<"lr">>]
Key == {"rc", "gdtt", "gpo", "ld", "td", "ll", "llt", "tlt", "lr"}

Values == [rc |-> 0 .. MULTIRESET, gdtt |-> {0, 1}, gpo |-> {OFF, DEFAULT, RESTORE},
           ld |-> Lightness, td |-> Temp, ll |-> Lightness \ {0}, llt |-> Lightness,
           tlt |-> Temp, lr |-> Ranges]

(* light_default_var_init, and the static initial value of reset_counter. *)
Defaults == [rc |-> 0, gdtt |-> 0, gpo |-> DEFAULT, ld |-> LMAX, td |-> TMAX, ll |-> LMAX,
             llt |-> LMAX, tlt |-> TMAX, lr |-> <<1, LMAX>>]

constrain_lightness(v, range) == IF v > 0 /\ v < range[1] THEN range[1]
                                 ELSE IF v > range[2] THEN range[2] ELSE v

-----------------------------------------------------------------------------
(* Booting *)

Load(f) == [k \in Key |-> IF f[k] = Absent THEN Defaults[k] ELSE f[k]]

(* ps_set compares the stored key with each name over the length of the     *)
(* stored key only: "ll" also matches "llt", and the one loaded later wins. *)
ps_set(f) ==
  IF f["ll"] # Absent /\ (f["llt"] = Absent \/ ll_later)
  THEN [Load(f) EXCEPT !["llt"] = f["ll"]] ELSE Load(f)

(* light_default_status_init: r are the variables as loaded.  Every target  *)
(* becomes what the light starts with.                                     *)
StartLight(r) ==
  IF r["gpo"] = OFF THEN 0
  ELSE IF r["gpo"] = RESTORE THEN r["llt"]
  ELSE IF r["ld"] = 0 THEN r["ll"] ELSE r["ld"]

StartTemp_default(r) == r["td"]

StartTemp(r) == IF r["gpo"] = RESTORE THEN r["tlt"] ELSE r["td"]

light_default_status_init(loaded) ==
  LET fit(k) == constrain_lightness(loaded[k], loaded["lr"])
      r == [loaded EXCEPT !["ll"] = fit("ll"), !["ld"] = fit("ld"), !["llt"] = fit("llt")]
  IN /\ light' = StartLight(r) /\ temp' = StartTemp(r)
     /\ ram' = [r EXCEPT !["llt"] = StartLight(r), !["tlt"] = StartTemp(r)]

Init ==
  /\ ram = Defaults /\ light = LMAX /\ temp = TMAX
  /\ flash = [k \in Key |-> Absent] /\ ll_later \in BOOLEAN
  /\ storage_id = "RESET_COUNTER" /\ works = <<"no_transition">> /\ writing = <<>>
  /\ main = "boot" /\ provisioned = TRUE
  /\ overlap = FALSE /\ quick = 0 /\ msgs = MSGS /\ boots = BOOTS - 1

(* Power fails, and comes back: main() up to update_light_state. *)
Reboot ==
  /\ boots > 0 /\ boots' = boots - 1
  /\ light_default_status_init(ps_set(flash))
  /\ works' = <<"no_transition">> /\ writing' = <<>> /\ storage_id' = "RESET_COUNTER"
  /\ main' = "boot" /\ overlap' = FALSE
  /\ UNCHANGED <<flash, ll_later, provisioned, quick, msgs>>

-----------------------------------------------------------------------------
(* save_on_flash *)

Submit(q, w) == IF \E i \in DOMAIN q : q[i] = w THEN q ELSE Append(q, w)
Queued(w) == \E i \in DOMAIN works : works[i] = w

save_on_flash_into(q, id) ==
  /\ storage_id' = id
  /\ works' = Submit(q, "storage")
  /\ overlap' = (overlap \/ (Queued("storage") /\ storage_id # id))

save_on_flash(id) == save_on_flash_into(works, id)

NoSave == UNCHANGED <<storage_id, works, overlap>>

(* short_time_multireset_bt_mesh_unprovisioning.  main is preempted by the  *)
(* workqueue and goes on when that is idle or waits for the flash.         *)
short_time_multireset ==
  /\ main = "boot" /\ (works = <<>> \/ writing # <<>>)
  /\ main' = "counting"
  /\ IF ram["rc"] >= MULTIRESET
     THEN ram' = [ram EXCEPT !["rc"] = 0] /\ provisioned' = FALSE
     ELSE ram' = [ram EXCEPT !["rc"] = @ + 1] /\ UNCHANGED provisioned
  /\ quick' = quick + 1
  /\ save_on_flash("RESET_COUNTER")
  /\ UNCHANGED <<light, temp, flash, ll_later, writing, msgs, boots>>

(* The timer interrupt seven seconds after boot. *)
reset_counter_timer_handler ==
  /\ main = "counting" /\ main' = "up"
  /\ ram' = [ram EXCEPT !["rc"] = 0]
  /\ save_on_flash("RESET_COUNTER")
  /\ UNCHANGED <<light, temp, flash, ll_later, writing, provisioned, quick, msgs, boots>>

(* A provisioner adds the node to a network again. *)
Provision ==
  /\ ~ provisioned /\ provisioned' = TRUE
  /\ UNCHANGED <<ram, light, temp, flash, ll_later, storage_id, works, writing, main, overlap, quick, msgs, boots>>

-----------------------------------------------------------------------------
(* Mesh messages, for what they save *)

Handle == /\ provisioned /\ msgs > 0 /\ msgs' = msgs - 1
          /\ UNCHANGED <<light, temp, flash, ll_later, writing, main, provisioned, quick, boots>>

(* set_target, by any of the messages that set lightness or temperature. *)
set_target ==
  \E v \in Lightness, t \in Temp :
    /\ Handle
    /\ ram' = [ram EXCEPT !["llt"] = constrain_lightness(v, ram["lr"]), !["tlt"] = t]
    /\ IF ram["gpo"] = RESTORE THEN save_on_flash("LAST_TARGET_STATES") ELSE NoSave

light_ctl_default_set_wrong_id ==
  \E v \in Lightness, t \in Temp :
    /\ Handle
    /\ ram' = [ram EXCEPT !["ld"] = constrain_lightness(v, ram["lr"]), !["td"] = t]
    /\ ram' # ram
    /\ save_on_flash("LIGHTNESS_LAST_STATE")

(* light_lightness_default_set too: it leaves the temperature alone. *)
light_ctl_default_set ==
  \E v \in Lightness, t \in Temp :
    /\ Handle
    /\ ram' = [ram EXCEPT !["ld"] = constrain_lightness(v, ram["lr"]), !["td"] = t]
    /\ ram' # ram
    /\ save_on_flash("DEF_STATES")

light_lightness_range_set ==
  \E range \in Ranges \ {ram["lr"]} :
    /\ Handle
    /\ ram' = [ram EXCEPT !["lr"] = range]
    /\ save_on_flash("LIGHTNESS_RANGE")

gen_onpowerup_set ==
  \E p \in Values["gpo"] \ {ram["gpo"]} :
    /\ Handle
    /\ ram' = [ram EXCEPT !["gpo"] = p]
    /\ save_on_flash("GEN_ONPOWERUP_STATE")

gen_def_trans_time_set ==
  \E t \in Values["gdtt"] \ {ram["gdtt"]} :
    /\ Handle
    /\ ram' = [ram EXCEPT !["gdtt"] = t]
    /\ save_on_flash("GEN_DEF_TRANS_TIME_STATE")

Message == \/ set_target \/ light_ctl_default_set \/ light_lightness_range_set
           \/ gen_onpowerup_set \/ gen_def_trans_time_set

-----------------------------------------------------------------------------
(* The system workqueue *)

(* A transition is over: update_light_state. *)
update_light_state ==
  /\ <<light, temp>> # <<ram["llt"], ram["tlt"]>> /\ ~ Queued("no_transition")
  /\ works' = Append(works, "no_transition")
  /\ UNCHANGED <<ram, light, temp, flash, ll_later, storage_id, writing, main, provisioned,
                 overlap, quick, msgs, boots>>

no_transition_work_handler ==
  /\ writing = <<>> /\ works # <<>> /\ Head(works) = "no_transition"
  /\ IF ~ provisioned
     THEN UNCHANGED <<ram, light, temp, storage_id, overlap>> /\ works' = Tail(works)
     ELSE /\ light' = ram["llt"] /\ temp' = ram["tlt"]
          /\ IF light' # 0
             THEN /\ ram' = [ram EXCEPT !["ll"] = light']
                  /\ save_on_flash_into(Tail(works), "LIGHTNESS_LAST_STATE")
             ELSE works' = Tail(works) /\ UNCHANGED <<ram, storage_id, overlap>>
  /\ UNCHANGED <<flash, ll_later, writing, main, provisioned, quick, msgs, boots>>

storage_work_handler ==
  /\ writing = <<>> /\ works # <<>> /\ Head(works) = "storage"
  /\ works' = Tail(works)
  /\ writing' = KeysOf[storage_id]
  /\ UNCHANGED <<ram, light, temp, flash, ll_later, storage_id, main, provisioned, overlap, quick, msgs, boots>>

(* settings_save_one for the next key; after "gpo" save_gen_onpowerup_state  *)
(* asks for the targets as well when they are to be restored.              *)
settings_save_one ==
  /\ writing # <<>>
  /\ LET k == Head(writing)
     IN /\ flash' = [flash EXCEPT ![k] = ram[k]]
        /\ quick' = IF k = "rc" /\ ram["rc"] = 0 THEN 0 ELSE quick
        /\ IF k = "gpo" /\ ram["gpo"] = RESTORE THEN save_on_flash("LAST_TARGET_STATES") ELSE NoSave
  /\ writing' = Tail(writing)
  /\ UNCHANGED <<ram, light, temp, ll_later, main, provisioned, msgs, boots>>

Workqueue == no_transition_work_handler \/ storage_work_handler \/ settings_save_one

Next == \/ Reboot \/ short_time_multireset \/ reset_counter_timer_handler \/ Provision
        \/ Message \/ update_light_state \/ Workqueue

Spec == Init /\ [][Next]_vars

-----------------------------------------------------------------------------
(* Properties *)

AtRest == works = <<>> /\ writing = <<>> /\ main # "boot"

(* The keys that are to survive a reboot.  The targets, only when they are  *)
(* restored, and then up to the mistake of ps_set; the lightness keys, as  *)
(* long as no range but the factory's was saved: booting constrains them.  *)
Kept == {"rc", "gdtt", "gpo", "td", "lr"}
        \cup (IF ram["gpo"] = RESTORE THEN {"tlt"} ELSE {})
        \cup (IF flash["lr"] = Absent THEN {"ld", "ll"} ELSE {})

Saved(k) == ram[k] = IF flash[k] = Absent THEN Defaults[k] ELSE flash[k]

(* When nothing is queued, every setting is in flash as it is in RAM, so    *)
(* that a power failure loses nothing - unless save_on_flash was called    *)
(* again, with another id, before storage_work had served the first.       *)
NothingLost == AtRest /\ ~ overlap => \A k \in Kept : Saved(k)

(* A light that restores its state comes back, after a power failure at     *)
(* rest, with the lightness it was set to, or with the last one that was   *)
(* not zero.                                                               *)
RestoresTarget ==
  [][boots' < boots /\ AtRest /\ ~ overlap /\ ram["gpo"] = RESTORE /\ flash["lr"] = Absent
       => light' \in {ram["llt"], ram["ll"]} /\ temp' = ram["tlt"]]_vars

(* The mesh is only reset by a boot that follows MULTIRESET boots none of   *)
(* which ran long enough to save a zero counter.                           *)
ResetNeedsQuickBoots == [][provisioned /\ ~ provisioned' => quick >= MULTIRESET]_vars

(* Both, over boots that interrupt anything.                                *)
BootsAreRight == RestoresTarget /\ ResetNeedsQuickBoots
=============================================================================
