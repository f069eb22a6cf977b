-------------------------------- MODULE Pong --------------------------------
(***************************************************************************)
(* samples/boards/bbc_microbit/pong: two micro:bits that play against each  *)
(* other, and ble.c, by which they find each other, connect,     *)
(* subscribe and hand over the ball.  On each board the system work queue   *)
(* runs game_refresh and ble_timeout, the Bluetooth thread the callbacks,  *)
(* and the buttons interrupt both.                                         *)
(***************************************************************************)
EXTENDS Naturals, Sequences, TLC

-----------------------------------------------------------------------------
(***************************************************************************)
(* samples/boards/bbc_microbit/pong, main.c: the game on one micro:bit.     *)
(* Every operator takes the state p of a board and gives its next state;   *)
(* the rest joins them with the radio and with the other board.                *)
(*                                                                         *)
(* The ball is "here" or "gone" (above the display), and heads "up", "down" *)
(* or nowhere; where exactly is left out.  It moves with each game_refresh  *)
(* whether a game was started or not.                                      *)
(***************************************************************************)

(* The static variables; select says whether the menu is shown, refresh     *)
(* whether game_refresh is due.                                            *)
Board == [state |-> "INIT", select |-> TRUE, started |-> FALSE, ended |-> FALSE, remote_lost |-> FALSE,
          ball |-> "here", heads |-> "none", refresh |-> FALSE]

pong_select(p) == [p EXCEPT !.select = TRUE]

game_init(p, initiator) ==
  [p EXCEPT !.started = FALSE, !.ended = FALSE, !.ball = IF initiator THEN "here" ELSE "gone"]

(* A mutant: the ball goes to whoever lost it. *)
restart_loser(p) == game_init(p, p.state = "SINGLE" \/ ~ p.remote_lost)

(* Whoever lost gives the ball to the other. *)
restart(p) == game_init(p, p.state = "SINGLE" \/ p.remote_lost)

game_ended(p, won) ==
  [p EXCEPT !.remote_lost = won, !.ended = TRUE, !.started = FALSE, !.refresh = TRUE]

(* check_start, both buttons pressed within START_THRESHOLD: nothing asks   *)
(* whether the ball is here, or whether the last game is still shown.      *)
launch(p) == [p EXCEPT !.heads = "up", !.started = TRUE, !.remote_lost = FALSE, !.refresh = TRUE]

pong_ball_received(p) == [p EXCEPT !.ball = "here", !.heads = "down", !.refresh = TRUE]
pong_remote_lost(p) == game_ended(p, TRUE)
pong_conn_ready(p, initiator) == game_init([p EXCEPT !.state = "CONNECTED"], initiator)
pong_remote_disconnected(p) == [p EXCEPT !.state = "INIT", !.refresh = TRUE]

(* game_refresh in a game: what may become of the ball in one frame, and    *)
(* what is told the other board.  Off the top it bounces back when playing  *)
(* alone, and is the other's otherwise; at the paddle it is hit or lost.   *)
Still(p) == [next |-> [p EXCEPT !.refresh = TRUE], tell |-> {}]

Frame(p) ==
  CASE p.heads = "none" -> {Still(p)}
    [] p.heads = "up" /\ p.state = "SINGLE" ->
         {Still(p), Still([p EXCEPT !.ball = "here", !.heads = "down"])}
    [] p.heads = "up" ->
         {[next |-> [p EXCEPT !.ball = "gone", !.refresh = FALSE], tell |-> {"ball"}]}
           \cup {Still(q) : q \in {x \in {p} : x.ball = "here"}}
    [] p.heads = "down" /\ p.ball = "gone" -> {Still(p), Still([p EXCEPT !.ball = "here"])}
    [] OTHER ->
         {Still(p), Still([p EXCEPT !.heads = "up"]),
          [next |-> game_ended(p, FALSE), tell |-> IF p.state = "CONNECTED" THEN {"lost"} ELSE {}]}

(* game_refresh *)
Refreshed(p) ==
  LET q == [p EXCEPT !.refresh = FALSE] IN
  IF p.state = "INIT" THEN {[next |-> pong_select(q), tell |-> {}]}
  ELSE IF p.ended THEN {[next |-> restart(q), tell |-> {}]}
  ELSE Frame(q)
-----------------------------------------------------------------------------

CONSTANTS
  Player,  \* the two boards
  FAULTS,  \* bound: links lost, and calls to the stack that fail
  PRESSES  \* bound: what the players do with their buttons

ASSUME PongAssumption ==
  FAULTS \in Nat /\ PRESSES \in Nat /\ \A d \in Player : \E e \in Player : Player = {d, e} /\ d # e

VARIABLES
  game,    \* of each board: main.c
  ble,     \* of each board: ble.c
  link,    \* the radio link: "none", "creating" or "up", and who created it
  events,  \* of each board: what its Bluetooth thread has yet to call back
  left,    \* the faults and presses still to come
  blame    \* history: what a board has run into

vars == <<game, ble, link, events, left, blame>>

Other(d) == CHOOSE e \in Player : e # d
NoLink == [st |-> "none", master |-> "nobody"]

(* ble.c's static variables - conn is default_conn: "null", or the object   *)
(* of an attempt or link, "stale" when that one is over - and whether the  *)
(* controller scans, advertises or discovers.                              *)
Radio == [state |-> "DISCONNECTED", conn |-> "null", handle |-> FALSE, ready |-> FALSE, initiator |-> FALSE,
          work |-> FALSE, canceled |-> FALSE, scanning |-> FALSE, advertising |-> FALSE, discovering |-> FALSE]

(* main, ble_init *)
Init ==
  /\ game = [d \in Player |-> Board] /\ ble = [d \in Player |-> Radio]
  /\ link = NoLink /\ events = [d \in Player |-> <<>>]
  /\ left = [faults |-> FAULTS, presses |-> PRESSES] /\ blame = [d \in Player |-> {}]

Fault == left.faults > 0 /\ left' = [left EXCEPT !.faults = @ - 1]
Fine == UNCHANGED left
Press == left.presses > 0 /\ left' = [left EXCEPT !.presses = @ - 1]

Blamed(d, why) == blame' = [blame EXCEPT ![d] = @ \cup why]

-----------------------------------------------------------------------------
(* The stack, as ble.c uses it *)

(* bt_gatt_notify: the other board gets it if the link is up. *)
Tell(d, messages) ==
  LET reaches == link.st = "up" /\ ble[d].conn = "live" /\ ble[d].ready IN
  /\ events' = IF messages # {} /\ reaches
               THEN [events EXCEPT ![Other(d)] = Append(@, CHOOSE m \in messages : TRUE)] ELSE events
  /\ Blamed(d, IF messages # {} /\ ~ reaches THEN {"untold"} ELSE {})

Attempting(d) == link.st = "creating" /\ link.master = d

(* bt_conn_disconnect of default_conn ends a link for both.  An attempt     *)
(* ends with an error to connected(), which returns and leaves default_conn *)
(* as it is.                                                               *)
Disconnect(d) ==
  IF ble[d].conn = "live" /\ (link.st = "up" \/ Attempting(d))
  THEN /\ link' = NoLink
       /\ events' = IF link.st = "up" THEN [e \in Player |-> Append(events[e], "disconnected")] ELSE events
  ELSE UNCHANGED <<link, events>>

ConnAfterDisconnect(d) == IF ble[d].conn = "live" /\ Attempting(d) THEN "stale" ELSE ble[d].conn

(* The connection is made when the other advertises, and both Bluetooth     *)
(* threads are done with the link before.                                  *)
LinkUp ==
  LET d == link.master IN
  /\ link.st = "creating" /\ ble[Other(d)].advertising
  /\ \A e \in Player : events[e] = <<>>
  /\ link' = [link EXCEPT !.st = "up"]
  /\ events' = [e \in Player |-> Append(events[e], IF e = d THEN "master" ELSE "slave")]
  /\ ble' = [ble EXCEPT ![Other(d)].advertising = FALSE]
  /\ UNCHANGED <<game, left, blame>>

LinkLost ==
  /\ link.st = "up" /\ Fault /\ link' = NoLink
  /\ events' = [e \in Player |-> Append(events[e], "disconnected")]
  /\ UNCHANGED <<game, ble, blame>>

-----------------------------------------------------------------------------
(* ble.c *)

ble_connect(b) == IF b.state = "DISCONNECTED" THEN [b EXCEPT !.state = "SCAN_START", !.work = TRUE] ELSE b

(* A mutant: a connection is not ended. *)
ble_cancel_connect_link_kept(b) ==
  IF b.state \in {"SCAN", "ADVERTISING"} THEN [b EXCEPT !.work = TRUE, !.canceled = TRUE]
  ELSE [b EXCEPT !.work = FALSE, !.state = IF @ = "CONNECTED" THEN @ ELSE "DISCONNECTED"]

(* A pending ble_work is cancelled, and the cancelling itself left to it -  *)
(* in BLE_CONNECT_CANCEL, which falls through, with nothing to end there.  *)
ble_cancel_connect(b) ==
  CASE b.state = "DISCONNECTED" -> [b EXCEPT !.work = FALSE]
    [] b.state \in {"SCAN_START", "ADV_START"} -> [b EXCEPT !.work = FALSE, !.state = "DISCONNECTED"]
    [] b.state \in {"SCAN", "ADVERTISING", "CONNECTED"} -> [b EXCEPT !.work = TRUE, !.canceled = TRUE]
    [] b.state = "CONNECT_CREATE" -> [b EXCEPT !.work = TRUE, !.canceled = TRUE, !.state = "CONNECT_CANCEL"]
    [] b.state = "CONNECT_CANCEL" -> [b EXCEPT !.work = FALSE]

(* device_found, create_conn: the advertisement of the other was heard. *)
device_found(d) ==
  /\ ble[d].scanning /\ ble[Other(d)].advertising
  /\ IF ble[d].conn = "null" /\ link.st = "none"
     THEN /\ link' = [st |-> "creating", master |-> d]
          /\ ble' = [ble EXCEPT ![d] = [@ EXCEPT !.scanning = FALSE, !.conn = "live",
                                                 !.state = "CONNECT_CREATE", !.work = TRUE]]
     ELSE ble' = [ble EXCEPT ![d].scanning = FALSE] /\ UNCHANGED link
  /\ UNCHANGED <<game, events, left, blame>>

(* cancel_connect, from ble_timeout *)
cancel_connect(d) ==
  LET b == ble[d] IN
  /\ b.work /\ b.canceled
  /\ IF b.state \in {"CONNECT_CREATE", "CONNECTED"} THEN Disconnect(d) ELSE UNCHANGED <<link, events>>
  /\ ble' = [ble EXCEPT ![d] =
       [@ EXCEPT !.work = FALSE, !.canceled = FALSE,
                 !.conn = IF b.state = "CONNECT_CREATE" THEN ConnAfterDisconnect(d) ELSE b.conn,
                 !.scanning = b.scanning /\ b.state # "SCAN",
                 !.advertising = b.advertising /\ b.state # "ADVERTISING",
                 !.state = IF b.state = "CONNECTED" THEN "CONNECTED" ELSE "DISCONNECTED"]]
  /\ UNCHANGED <<game, left, blame>>

(* ble_timeout *)
ble_timeout(d) ==
  LET b == ble[d]
      To(state, work) == [b EXCEPT !.state = state, !.work = work]
      Set(next) == ble' = [ble EXCEPT ![d] = next]
      Alone == UNCHANGED <<link, events>> IN
  /\ b.work /\ ~ b.canceled
  /\ \/ /\ b.state \in {"DISCONNECTED", "CONNECT_CANCEL"}
        /\ Set(To(b.state, FALSE)) /\ Alone /\ UNCHANGED blame /\ Fine
     \/ /\ b.state = "SCAN_START"
        /\ \/ Set([To("SCAN", TRUE) EXCEPT !.scanning = TRUE]) /\ Fine
           \/ Set(To("SCAN", TRUE)) /\ Fault
        /\ Alone /\ UNCHANGED blame
     \/ /\ b.state = "CONNECT_CREATE"
        /\ Disconnect(d) /\ Set([To("ADV_START", TRUE) EXCEPT !.conn = ConnAfterDisconnect(d)])
        /\ UNCHANGED blame /\ Fine
     \/ /\ b.state = "SCAN"
        /\ Set([To("ADV_START", TRUE) EXCEPT !.scanning = FALSE]) /\ Alone /\ UNCHANGED blame /\ Fine
     \/ /\ b.state = "ADV_START"
        /\ \/ Set([To("ADVERTISING", TRUE) EXCEPT !.advertising = TRUE]) /\ Fine /\ UNCHANGED blame
           \/ Set(To("ADV_START", FALSE)) /\ Fault /\ Blamed(d, {"silent"})
        /\ Alone
     \/ /\ b.state = "ADVERTISING"
        /\ Set([To("SCAN_START", TRUE) EXCEPT !.advertising = FALSE]) /\ Alone /\ UNCHANGED blame /\ Fine
     \/ /\ b.state = "CONNECTED"
        /\ Set([To("CONNECTED", FALSE) EXCEPT !.discovering = (b.conn = "live" /\ link.st = "up")])
        /\ Alone /\ UNCHANGED blame /\ Fine
  /\ UNCHANGED game

(* Subscribed both ways: pong_conn_ready, which leaves a game_refresh that  *)
(* is due from before, and the velocity, to the new game.                  *)
Ready(d) ==
  /\ game' = [game EXCEPT ![d] = pong_conn_ready(@, ble[d].initiator)]
  /\ blame' = [blame EXCEPT ![d] = (@ \cap {"late"}) \cup (IF game[d].refresh THEN {"leftover"} ELSE {})]

(* The last round of discover_func, after those that found the service and  *)
(* its characteristic: bt_gatt_subscribe, which may fail.                  *)
discover_func(d) ==
  /\ ble[d].discovering /\ link.st = "up"
  /\ ble' = [ble EXCEPT ![d].discovering = FALSE, ![d].handle = TRUE]
  /\ \/ events' = [events EXCEPT ![Other(d)] = Append(@, "ccc")] /\ Fine
     \/ UNCHANGED events /\ Fault
  /\ IF ble[d].ready THEN Ready(d) ELSE UNCHANGED <<game, blame>>
  /\ UNCHANGED link

Delivered(d, event) == events[d] # <<>> /\ Head(events[d]) = event /\ events' = [events EXCEPT ![d] = Tail(@)]

connected(d, role) ==
  /\ Delivered(d, role)
  /\ ble' = [ble EXCEPT ![d] =
       [@ EXCEPT !.advertising = ble[d].advertising /\ ble[d].state # "ADVERTISING",
                 !.conn = IF ble[d].conn = "null" THEN "live" ELSE ble[d].conn,
                 !.initiator = (role = "master"), !.ready = FALSE, !.handle = FALSE,
                 !.state = "CONNECTED", !.work = TRUE]]
  /\ Blamed(d, IF game[d].state = "MULTI" THEN {} ELSE {"late"})
  /\ UNCHANGED <<game, link, left>>

(* A mutant: main.c is not told. *)
disconnected_untold(d) ==
  /\ Delivered(d, "disconnected")
  /\ ble' = [ble EXCEPT ![d] =
       [@ EXCEPT !.conn = "null", !.handle = FALSE, !.discovering = FALSE,
                 !.state = IF ble[d].state = "CONNECTED" THEN "DISCONNECTED" ELSE ble[d].state]]
  /\ UNCHANGED <<game, link, left, blame>>

disconnected(d) ==
  /\ Delivered(d, "disconnected")
  /\ ble' = [ble EXCEPT ![d] =
       [@ EXCEPT !.conn = "null", !.handle = FALSE, !.discovering = FALSE,
                 !.state = IF ble[d].state = "CONNECTED" THEN "DISCONNECTED" ELSE ble[d].state]]
  /\ game' = IF ble[d].state = "CONNECTED" THEN [game EXCEPT ![d] = pong_remote_disconnected(@)] ELSE game
  /\ UNCHANGED <<link, left, blame>>

(* The other has subscribed. *)
pong_ccc_cfg_changed(d) ==
  /\ Delivered(d, "ccc")
  /\ ble' = [ble EXCEPT ![d].ready = TRUE]
  /\ IF ble[d].handle THEN Ready(d) ELSE UNCHANGED <<game, blame>>
  /\ UNCHANGED <<link, left>>

notify_func(d) ==
  /\ \/ Delivered(d, "ball") /\ game' = [game EXCEPT ![d] = pong_ball_received(@)]
     \/ Delivered(d, "lost") /\ game' = [game EXCEPT ![d] = pong_remote_lost(@)]
  /\ UNCHANGED <<ble, link, left, blame>>

-----------------------------------------------------------------------------
(* main.c: the work and the buttons *)

(* Both show the end of a game for RESTART_THRESHOLD; whoever won learns of *)
(* it after the other, and so is done with it after the other.             *)
StillShown(d) ==
  /\ game[d].ended /\ game[d].remote_lost
  /\ LET q == game[Other(d)] IN q.state = "CONNECTED" /\ q.ended /\ ~ q.remote_lost /\ q.refresh

game_refresh(d) ==
  /\ game[d].refresh /\ ~ StillShown(d)
  /\ \E r \in Refreshed(game[d]) : game' = [game EXCEPT ![d] = r.next] /\ Tell(d, r.tell)
  /\ UNCHANGED <<ble, link, left>>

(* button_pressed when the last game is over for RESTART_THRESHOLD. *)
PressToRestart(d) ==
  /\ Press /\ game[d].ended /\ ~ StillShown(d)
  /\ game' = [game EXCEPT ![d] = [restart(@) EXCEPT !.refresh = FALSE]]
  /\ UNCHANGED <<ble, link, events, blame>>

PressToCancel(d) ==
  /\ Press /\ game[d].state = "MULTI"
  /\ ble' = [ble EXCEPT ![d] = ble_cancel_connect(@)]
  /\ game' = [game EXCEPT ![d] = pong_select([@ EXCEPT !.state = "INIT"])]
  /\ UNCHANGED <<link, events, blame>>

(* pong_select_complete, mode_selected *)
PressToSelect(d) ==
  LET p == [game[d] EXCEPT !.select = FALSE] IN
  /\ Press /\ game[d].state # "MULTI" /\ game[d].select
  /\ \/ /\ game' = [game EXCEPT ![d] = game_init([p EXCEPT !.state = "SINGLE"], TRUE)]
        /\ UNCHANGED ble
     \/ /\ game' = [game EXCEPT ![d] = [p EXCEPT !.state = "MULTI"]]
        /\ ble' = [ble EXCEPT ![d] = ble_connect(@)]
  /\ blame' = [blame EXCEPT ![d] = IF ble[d].state = "DISCONNECTED" /\ ~ ble[d].canceled THEN {} ELSE {"hasty"}]
  /\ UNCHANGED <<link, events>>

(* check_start; otherwise a press only moves the paddle. *)
PressToLaunch(d) ==
  LET p == game[d] IN
  /\ Press /\ p.state # "MULTI" /\ ~ p.select /\ ~ p.started
  /\ game' = [game EXCEPT ![d] = launch(@)]
  /\ Blamed(d, IF p.ended \/ p.ball = "gone" THEN {"cheated"} ELSE {})
  /\ UNCHANGED <<ble, link, events>>

Step(d) ==
  \/ game_refresh(d) \/ PressToRestart(d) \/ PressToCancel(d) \/ PressToSelect(d) \/ PressToLaunch(d)
  \/ device_found(d) \/ cancel_connect(d) \/ ble_timeout(d) \/ discover_func(d)
  \/ (\E role \in {"master", "slave"} : connected(d, role)) \/ disconnected(d)
  \/ pong_ccc_cfg_changed(d) \/ notify_func(d)

Next == LinkUp \/ LinkLost \/ \E d \in Player : Step(d)

Spec == Init /\ [][Next]_vars

-----------------------------------------------------------------------------
(* Properties *)

Clean == \A d \in Player : blame[d] \cap {"cheated", "untold", "leftover"} = {}

BallHere(d) == IF game[d].ended THEN game[d].remote_lost ELSE game[d].ball = "here" \/ game[d].refresh
OnTheWay(d) == Len(SelectSeq(events[d], LAMBDA m : m \in {"ball", "lost"}))

(* ble_send_ball, ble_send_lost, game_init: while both play there is exactly *)
(* one ball - on one board, under way, or due to the one that won - as long *)
(* as nobody launches one that is not his and no message fails.            *)
OneBall ==
  (Clean /\ \A d \in Player : game[d].state = "CONNECTED") =>
    \E d \in Player : LET e == Other(d) IN
      \/ BallHere(d) /\ ~ BallHere(e) /\ OnTheWay(d) + OnTheWay(e) = 0
      \/ ~ BallHere(d) /\ ~ BallHere(e) /\ OnTheWay(d) + OnTheWay(e) = 1

(* ble_timeout: a board that shows "Connecting..." has its next step due or *)
(* is connected - except that advertising failed to start, or that the     *)
(* player asked again while the previous attempt was being cancelled.      *)
StillLooking ==
  \A d \in Player : game[d].state = "MULTI" =>
    ble[d].work \/ ble[d].state = "CONNECTED" \/ blame[d] \cap {"silent", "hasty"} # {}

(* ble_cancel_connect, cancel_connect: a connection the player cancels after *)
(* it was made ends, so that a game goes on behind the menu only until then *)
(* - or if it was made after the cancelling, which nothing looks for.      *)
NoGameBehindTheMenu ==
  \A d \in Player : (game[d].state = "CONNECTED" /\ game[d].select) =>
    \/ ble[d].canceled \/ link.st # "up" \/ "late" \in blame[d]

-----------------------------------------------------------------------------
(* For TLC: the boards run the same program and may be swapped.              *)
Symmetry == Permutations(Player)
=============================================================================
