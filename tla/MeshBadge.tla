------------------------------ MODULE MeshBadge ------------------------------
(***************************************************************************)
(* samples/boards/reel_board/mesh_badge: a badge with a name that a phone    *)
(* writes over GATT; when the phone leaves, the badge joins the mesh, says   *)
(* hello at a press of its button and counts who else did.  Texts, screens,  *)
(* LEDs and sleep are works of the system queue; the stack's thread, the     *)
(* accelerometer's and the button's interrupt come in between.              *)
(*                                                                         *)
(* Drawing is one step.  shown is what the display says: the name, sensors,  *)
(* stats, passkey, connected, blank, or a note, a text with a duration.      *)
(***************************************************************************)
EXTENDS Integers, Sequences, SequencesExt, FiniteSets

CONSTANTS
  STAT_COUNT, TOP,   \* entries in stats[] and in top[]
  COUNT_MAX,         \* 0xffff, where the counters stop
  LEDS, ROUNDS,      \* LEDs, and iterations of the blinking (5)
  BAD,               \* quick presses that are ignored (5)
  SENDERS, HOPS,     \* addresses heard, 1 is the badge's own; hops they are away
  BUDGETS,           \* bound: records of moves of the button, other events, messages
  BADGE_REBOOTS      \* bound: restarts

ASSUME BadgeAssumption ==
  /\ STAT_COUNT \in Nat \ {0} /\ TOP \in Nat \ {0} /\ COUNT_MAX \in Nat \ {0}
  /\ LEDS \in Nat \ {0} /\ ROUNDS \in Nat \ {0} /\ BAD \in Nat
  /\ SENDERS \subseteq Nat \ {0} /\ HOPS \subseteq Nat \ {0} /\ BADGE_REBOOTS \in Nat

BT_MESH_TTL_MAX == 127
OWN == 1

VARIABLES
  m_disp,   \* shown; timer: epd_work is submitted
  m_btn,    \* level of the pin; irq, an edge not yet seen; pressed; long: the work is
            \* submitted, run: being served; screen; bad_count
  m_work,   \* which of hello_work, baduser_work and mesh_start_work are submitted
  m_node,   \* up, name set, addr, prov, adv, conn, asleep; motion: motion_work is
            \* submitted, run: being served
  m_led,    \* chain: led_timer submitted; cntr, lit; current, previous, told
  stats,    \* the entries in use
  m_left,   \* the bounds: moves, events, msgs, reboots still to come
  m_hist    \* history: see BadgeInit

badgeVars == <<m_disp, m_btn, m_work, m_node, m_led, stats, m_left, m_hist>>

(* did: what the press under way has done; raced: it ended as the long press  *)
(* was being served; pairing, hurried: a passkey waits, and something was     *)
(* about to replace it; failed: mesh did not start; heard: the hops of each;  *)
(* nodata: sensors failed; blinked: LEDs blinked since the last on/off.       *)
BadgeInit ==
  /\ m_disp = [shown |-> "blank", timer |-> FALSE]
  /\ m_btn = [level |-> FALSE, irq |-> FALSE, pressed |-> FALSE, long |-> FALSE,
              run |-> FALSE, screen |-> 0, bad |-> 0]
  /\ m_work = {}
  /\ \E inMesh \in BOOLEAN :
       m_node = [up |-> FALSE, name |-> inMesh, addr |-> IF inMesh THEN OWN ELSE 0,
                 prov |-> inMesh, adv |-> FALSE, conn |-> FALSE, asleep |-> FALSE,
                 motion |-> FALSE, run |-> FALSE]
  /\ m_led = [chain |-> FALSE, cntr |-> 0, lit |-> {}, current |-> 0, previous |-> 0, told |-> 0]
  /\ stats = <<>>
  /\ m_left \in {[moves |-> b.moves, events |-> b.events, msgs |-> b.msgs, reboots |-> BADGE_REBOOTS] : b \in BUDGETS}
  /\ m_hist = [did |-> {}, raced |-> FALSE, pairing |-> FALSE, hurried |-> FALSE,
               failed |-> FALSE, heard |-> <<>>, nodata |-> FALSE, blinked |-> FALSE]

SCREEN_MAIN == 0
SCREEN_SENSORS == 1
SCREEN_STATS == 2

mesh_is_initialized == m_node.addr # 0

Event == m_left.events > 0 /\ m_left' = [m_left EXCEPT !.events = @ - 1]
MeshMessage ==
  /\ m_node.up /\ m_node.prov /\ mesh_is_initialized /\ ~ m_node.asleep
  /\ m_left.msgs > 0 /\ m_left' = [m_left EXCEPT !.msgs = @ - 1]

-----------------------------------------------------------------------------
(* The display *)

(* board_show_text(): a text for ever leaves an earlier timer running.        *)
board_show_text(text, forever) ==
  m_disp' = [shown |-> text, timer |-> m_disp.timer \/ ~ forever]

Note == board_show_text("note", FALSE)

board_refresh_display == m_disp' = [m_disp EXCEPT !.timer = TRUE]

(* epd_update(); the sensors' screen comes again after 2 s, but when a sensor *)
(* fails it neither changes the display nor comes again.                    *)
epd_update ==
  /\ m_disp.timer
  /\ \/ /\ m_btn.screen = SCREEN_MAIN
        /\ m_disp' = [shown |-> "name", timer |-> FALSE]
        /\ m_hist' = [m_hist EXCEPT !.nodata = FALSE]
     \/ /\ m_btn.screen = SCREEN_STATS
        /\ m_disp' = [shown |-> "stats", timer |-> FALSE]
        /\ m_hist' = [m_hist EXCEPT !.nodata = FALSE]
     \/ /\ m_btn.screen = SCREEN_SENSORS
        /\ \E fails \in BOOLEAN :
             /\ m_disp' = IF fails THEN [m_disp EXCEPT !.timer = FALSE]
                         ELSE [shown |-> "sensors", timer |-> TRUE]
             /\ m_hist' = [m_hist EXCEPT !.nodata = fails]
  /\ UNCHANGED <<m_btn, m_work, m_node, m_led, stats, m_left>>

-----------------------------------------------------------------------------
(* The button *)

ButtonMoves ==
  /\ m_node.up /\ m_left.moves > 0 /\ m_left' = [m_left EXCEPT !.moves = @ - 1]
  /\ m_btn' = [m_btn EXCEPT !.level = ~ @, !.irq = TRUE]
  /\ UNCHANGED <<m_disp, m_work, m_node, m_led, stats, m_hist>>

(* The interrupt, of one edge or of several.  A short press on the main       *)
(* screen says hello; of presses within 500 ms of one another (quick), five   *)
(* are ignored and the next calls this a bad user.                          *)
button_interrupt ==
  /\ m_btn.irq
  /\ IF m_btn.level = m_btn.pressed
     THEN /\ m_btn' = [m_btn EXCEPT !.irq = FALSE]
          /\ UNCHANGED <<m_work, m_hist>>
     ELSE IF m_btn.level
     THEN /\ m_btn' = [m_btn EXCEPT !.irq = FALSE, !.pressed = TRUE, !.long = TRUE]
          /\ m_hist' = [m_hist EXCEPT !.did = {}, !.raced = m_btn.run]
          /\ UNCHANGED m_work
     ELSE \E quick \in BOOLEAN :
            LET bad == IF ~ (mesh_is_initialized /\ m_btn.screen = SCREEN_MAIN) THEN m_btn.bad
                       ELSE IF quick THEN m_btn.bad + 1 ELSE 0
                job == CASE ~ (mesh_is_initialized /\ m_btn.screen = SCREEN_MAIN) -> {}
                         [] bad = 0 -> {"hello"}
                         [] bad > BAD -> {"baduser"}
                         [] OTHER -> {}
            IN /\ m_btn' = [m_btn EXCEPT !.irq = FALSE, !.pressed = FALSE, !.long = FALSE,
                                         !.bad = IF bad > BAD THEN 0 ELSE bad]
               /\ m_work' = m_work \union job
               /\ m_hist' = [m_hist EXCEPT !.did = @ \union (IF job = {} THEN {} ELSE {"sent"}),
                                           !.raced = @ \/ m_btn.run]
  /\ UNCHANGED <<m_disp, m_node, m_led, stats, m_left>>

(* The system queue takes long_press_work, which can no longer be cancelled.  *)
LongPressTaken ==
  /\ m_btn.long /\ ~ m_btn.run /\ m_btn' = [m_btn EXCEPT !.long = FALSE, !.run = TRUE]
  /\ UNCHANGED <<m_disp, m_work, m_node, m_led, stats, m_left, m_hist>>

(* long_press(): the release that follows sends nothing.                     *)
long_press ==
  /\ m_btn.run
  /\ m_btn' = [m_btn EXCEPT !.run = FALSE, !.pressed = FALSE, !.screen = (@ + 1) % 3]
  /\ board_refresh_display
  /\ m_hist' = [m_hist EXCEPT !.did = @ \union {"screen"}, !.hurried = TRUE]
  /\ UNCHANGED <<m_work, m_node, m_led, stats, m_left>>

-----------------------------------------------------------------------------
(* Works: messages out, and the LEDs *)

(* send_hello() and send_baduser(), sent or not.  The badge hears itself.     *)
send_note ==
  /\ \E w \in {"hello", "baduser"} \intersect m_work : m_work' = m_work \ {w}
  /\ Note
  /\ UNCHANGED <<m_btn, m_node, m_led, stats, m_left, m_hist>>

(* start_mesh().  The address is a random number other than 0, of which the   *)
(* highest bit is dropped then; what fails is only told.                    *)
start_mesh ==
  /\ "start" \in m_work /\ m_work' = m_work \ {"start"}
  /\ \/ /\ ~ m_node.prov
        /\ \E a \in {OWN, 0} : m_node' = [m_node EXCEPT !.prov = TRUE, !.addr = a]
        /\ UNCHANGED m_hist
     \/ m_hist' = [m_hist EXCEPT !.failed = TRUE] /\ UNCHANGED m_node
  /\ Note
  /\ UNCHANGED <<m_btn, m_led, stats, m_left>>

(* led_timeout(): all LEDs off, and the next one on.                         *)
led_timeout ==
  /\ m_led.chain
  /\ m_led' = IF m_led.cntr >= LEDS * ROUNDS
              THEN [m_led EXCEPT !.chain = FALSE, !.cntr = 0, !.lit = {}]
              ELSE [m_led EXCEPT !.cntr = @ + 1, !.lit = {m_led.cntr % LEDS}]
  /\ UNCHANGED <<m_disp, m_btn, m_work, m_node, stats, m_left, m_hist>>

-----------------------------------------------------------------------------
(* Messages in *)

Index(a) == SelectInSeq(stats, LAMBDA s : s.addr = a)
Saturated(n) == IF n < COUNT_MAX THEN n + 1 ELSE n

(* add_hello(): a new entry keeps the initial hops.                          *)
add_hello(a) ==
  IF Index(a) # 0 THEN [stats EXCEPT ![Index(a)].hello = Saturated(@)]
  ELSE IF Len(stats) = STAT_COUNT THEN stats
  ELSE Append(stats, [addr |-> a, hello |-> 1, beats |-> 0, min |-> BT_MESH_TTL_MAX, max |-> 0])

(* add_heartbeat(): of a known entry, either the minimum or the maximum.      *)
add_heartbeat(a, hops) ==
  IF Index(a) # 0
  THEN [stats EXCEPT ![Index(a)] =
          [@ EXCEPT !.min = IF hops < @ THEN hops ELSE @,
                    !.max = IF hops >= stats[Index(a)].min /\ hops > @ THEN hops ELSE @,
                    !.beats = Saturated(@)]]
  ELSE IF Len(stats) = STAT_COUNT THEN stats
  ELSE Append(stats, [addr |-> a, hello |-> 0, beats |-> 1, min |-> hops, max |-> hops])

(* vnd_hello() and vnd_baduser(): a note and the LEDs.                       *)
vnd_hello ==
  /\ MeshMessage
  /\ \E a \in SENDERS :
       IF a = OWN THEN UNCHANGED <<m_disp, m_led, stats, m_hist>>
       ELSE /\ Note /\ m_led' = [m_led EXCEPT !.chain = TRUE]
            /\ m_hist' = [m_hist EXCEPT !.blinked = TRUE]
            /\ \/ stats' = add_hello(a)
               \/ UNCHANGED stats        \* vnd_baduser
  /\ UNCHANGED <<m_btn, m_work, m_node>>

LowersOnly(a, hops) == Index(a) # 0 /\ hops < stats[Index(a)].min /\ stats[Index(a)].max = 0

vnd_heartbeat ==
  /\ MeshMessage
  /\ \E a \in SENDERS, hops \in HOPS :
       IF a = OWN THEN UNCHANGED <<stats, m_hist>>
       ELSE /\ stats' = add_heartbeat(a, hops)
            /\ m_hist' = [m_hist EXCEPT !.heard = Append(@, <<a, hops, LowersOnly(a, hops)>>)]
  /\ UNCHANGED <<m_disp, m_btn, m_work, m_node, m_led>>

(* heartbeat() and attention_on(), or attention_off().                       *)
attention ==
  /\ MeshMessage /\ (Note \/ board_refresh_display)
  /\ UNCHANGED <<m_btn, m_work, m_node, m_led, stats, m_hist>>

(* gen_onoff_set_unack(), which also serves a repetition; get, which changes   *)
(* nothing, follows in gen_onoff_set().  assigned: a client has set pub.addr. *)
gen_onoff_set ==
  /\ MeshMessage
  /\ \E onoff \in {0, 1}, assigned \in BOOLEAN :
       LET tell == m_led.previous # onoff /\ assigned
       IN m_led' = [m_led EXCEPT !.current = onoff,
                                 !.lit = (@ \ {0}) \union (IF onoff = 1 THEN {0} ELSE {}),
                                 !.previous = IF tell THEN onoff ELSE @,
                                 !.told = IF tell THEN onoff ELSE @]
  /\ m_hist' = [m_hist EXCEPT !.blinked = m_led.chain]
  /\ UNCHANGED <<m_disp, m_btn, m_work, m_node, stats>>

-----------------------------------------------------------------------------
(* The phone *)

connected ==
  /\ m_node.up /\ m_node.adv /\ Event
  /\ \/ /\ m_node' = [m_node EXCEPT !.adv = FALSE, !.conn = TRUE]
        /\ board_show_text("connected", TRUE)
     \/ Note /\ UNCHANGED m_node
  /\ UNCHANGED <<m_btn, m_work, m_led, stats, m_hist>>

(* passkey_display(), until pairing_complete() or pairing_failed(); cancel    *)
(* only prints.                                                            *)
passkey_display ==
  /\ m_node.conn /\ ~ m_hist.pairing /\ Event
  /\ board_show_text("passkey", TRUE)
  /\ m_hist' = [m_hist EXCEPT !.pairing = TRUE, !.hurried = m_disp.timer \/ m_btn.run]
  /\ UNCHANGED <<m_btn, m_work, m_node, m_led, stats>>

pairing_complete ==
  /\ m_hist.pairing /\ Note
  /\ m_hist' = [m_hist EXCEPT !.pairing = FALSE]
  /\ UNCHANGED <<m_btn, m_work, m_node, m_led, stats, m_left>>

(* write_name(), which needs the pairing; it may write the default name.      *)
write_name ==
  /\ m_node.conn /\ ~ m_hist.pairing /\ Event
  /\ \E name \in BOOLEAN : m_node' = [m_node EXCEPT !.name = name]
  /\ board_refresh_display
  /\ UNCHANGED <<m_btn, m_work, m_led, stats, m_hist>>

(* disconnected(): with a name, the badge stops being a peripheral; otherwise  *)
(* the stack advertises again.                                             *)
disconnected ==
  /\ m_node.conn
  /\ IF m_node.name /\ ~ mesh_is_initialized
     THEN /\ m_node' = [m_node EXCEPT !.conn = FALSE, !.adv = FALSE]
          /\ m_work' = m_work \union {"start"}
          /\ UNCHANGED m_disp
     ELSE /\ m_node' = [m_node EXCEPT !.conn = FALSE, !.adv = TRUE]
          /\ Note /\ UNCHANGED m_work
  /\ m_hist' = [m_hist EXCEPT !.pairing = FALSE]
  /\ UNCHANGED <<m_btn, m_led, stats, m_left>>

-----------------------------------------------------------------------------
(* Sleep *)

MotionTaken ==
  /\ m_node.motion /\ ~ m_node.run
  /\ m_node' = [m_node EXCEPT !.motion = FALSE, !.run = TRUE]
  /\ UNCHANGED <<m_disp, m_btn, m_work, m_led, stats, m_left, m_hist>>

(* motion_timeout(): the mesh is suspended, or there is none yet.            *)
motion_timeout ==
  /\ m_node.run
  /\ m_node' = IF mesh_is_initialized THEN [m_node EXCEPT !.run = FALSE, !.asleep = TRUE]
               ELSE [m_node EXCEPT !.run = FALSE, !.motion = TRUE]
  /\ UNCHANGED <<m_disp, m_btn, m_work, m_led, stats, m_left, m_hist>>

(* motion_handler(), on the accelerometer's thread.                          *)
motion_handler ==
  /\ m_node.up /\ mesh_is_initialized /\ Event
  /\ m_node' = [m_node EXCEPT !.asleep = FALSE, !.motion = TRUE]
  /\ UNCHANGED <<m_disp, m_btn, m_work, m_led, stats, m_hist>>

-----------------------------------------------------------------------------
(* Start *)

(* bt_ready() and periphs_init(); settings_load() has brought the mesh back.  *)
bt_ready ==
  /\ ~ m_node.up
  /\ m_node' = [m_node EXCEPT !.up = TRUE, !.adv = ~ mesh_is_initialized, !.motion = TRUE]
  /\ board_refresh_display
  /\ UNCHANGED <<m_btn, m_work, m_led, stats, m_left, m_hist>>

(* board_init(), with the button held or not: held, it erases the storage.    *)
board_init ==
  /\ m_node.up /\ m_left.reboots > 0 /\ m_left' = [m_left EXCEPT !.reboots = @ - 1]
  /\ \E held \in BOOLEAN :
       /\ m_disp' = [shown |-> IF held THEN "note" ELSE "blank", timer |-> held]
       /\ m_btn' = [level |-> held, irq |-> FALSE, pressed |-> held, long |-> FALSE,
                    run |-> FALSE, screen |-> 0, bad |-> 0]
       /\ m_node' = [up |-> FALSE, name |-> m_node.name /\ ~ held,
                     addr |-> IF held THEN 0 ELSE m_node.addr, prov |-> m_node.prov /\ ~ held,
                     adv |-> FALSE, conn |-> FALSE, asleep |-> FALSE, motion |-> FALSE, run |-> FALSE]
  /\ m_work' = {} /\ stats' = <<>>
  /\ m_led' = [chain |-> FALSE, cntr |-> 0, lit |-> {}, current |-> 0, previous |-> 0, told |-> 0]
  /\ m_hist' = [did |-> {}, raced |-> FALSE, pairing |-> FALSE, hurried |-> FALSE,
                failed |-> FALSE, heard |-> <<>>, nodata |-> FALSE, blinked |-> FALSE]

BadgeWorks == epd_update \/ LongPressTaken \/ long_press \/ send_note \/ start_mesh \/ led_timeout

BadgeNext ==
  \/ BadgeWorks \/ button_interrupt \/ MotionTaken \/ motion_timeout \/ bt_ready
  \/ ButtonMoves \/ vnd_hello \/ vnd_heartbeat \/ attention \/ gen_onoff_set
  \/ connected \/ passkey_display \/ pairing_complete \/ write_name \/ disconnected
  \/ motion_handler \/ board_init

-----------------------------------------------------------------------------
(* show_statistics(): the senders of most hellos *)

(* A sender goes before the first that has fewer; who falls off is lost.      *)
Insert(top, i) ==
  LET j == SelectInSeq(top, LAMBDA k : stats[i].hello > stats[k].hello)
  IN IF stats[i].hello = 0 THEN top
     ELSE IF j # 0 THEN SubSeq(InsertAt(top, j, i), 1, IF Len(top) < TOP THEN Len(top) + 1 ELSE TOP)
     ELSE IF Len(top) < TOP THEN Append(top, i) ELSE top

Top == FoldLeft(Insert, <<>>, [i \in DOMAIN stats |-> i])

-----------------------------------------------------------------------------
(* Properties *)

(* The passkey stays on the display while the phone waits for it, unless the  *)
(* time of an earlier note was running, or the screen is changed.            *)
PasskeyStays == m_hist.pairing /\ ~ m_hist.hurried => m_disp.shown = "passkey"

(* A note, and the sensors' values, are shown for a time, except that a       *)
(* failing sensor leaves what was there.                                    *)
NotesAreTimed ==
  m_disp.shown \in {"note", "sensors"} /\ m_node.up /\ ~ m_hist.nodata => m_disp.timer

(* A press that turns the screen sends nothing, unless its release came while *)
(* long_press() was about to run.                                          *)
OnePressOneThing == {"screen", "sent"} \subseteq m_hist.did => m_hist.raced

(* LED 0 shows the on/off state until LEDs blink; then they end up dark.      *)
LampShows ==
  IF m_hist.blinked THEN m_led.chain \/ m_led.lit = {} ELSE (0 \in m_led.lit) <=> m_led.current = 1

(* The badge is connected, connectable or in the mesh, or will be, except     *)
(* when the mesh did not start: the badge is then neither.                  *)
Reachable ==
  m_node.up => m_node.conn \/ m_node.adv \/ m_node.prov \/ "start" \in m_work \/ m_hist.failed

(* The hops in the statistics are those heard; of an entry that began with a  *)
(* hello, a heartbeat that lowers the minimum does not raise the maximum.     *)
HopsAreHeard ==
  \A i \in DOMAIN stats :
    LET heard == {h \in ToSet(m_hist.heard) : h[1] = stats[i].addr}
    IN /\ \A h \in heard : stats[i].min <= h[2]
       /\ \A h \in heard : ~ h[3] => h[2] <= stats[i].max
       /\ stats[i].max \in {0} \union {h[2] : h \in heard}

(* No one outside the list of top senders has sent more than one in it.       *)
TopAreTop ==
  /\ \A j, k \in DOMAIN Top : j < k => stats[Top[j]].hello >= stats[Top[k]].hello /\ Top[j] # Top[k]
  /\ \A i \in DOMAIN stats :
       \/ i \in ToSet(Top) \/ stats[i].hello = 0
       \/ Len(Top) = TOP /\ stats[i].hello <= stats[Top[TOP]].hello

(* In the mesh, a badge that is awake will fall asleep when it is left alone.  *)
SleepIsDue == m_node.up /\ ~ m_node.asleep => m_node.motion \/ m_node.run

BadgeAgrees ==
  /\ PasskeyStays /\ NotesAreTimed /\ OnePressOneThing /\ LampShows
  /\ Reachable /\ HopsAreHeard /\ TopAreTop /\ SleepIsDue
=============================================================================
