------------------------------- MODULE HidCdc -------------------------------
(***************************************************************************)
(* samples/subsys/usb/hid-cdc: a mouse, a keyboard and two serial ports on  *)
(* one USB device.  Buttons and the ports' handlers, which interrupt main()  *)
(* anywhere, queue events; main() turns each into reports and a line of      *)
(* text, and queues more.  A byte of port 0 is a whole word of it, or "CR".  *)
(*                                                                         *)
(* Both HID devices share usb_sem; the host fetches the report that is in    *)
(* the endpoint when it likes.  A report that the driver refuses is lost,    *)
(* and nobody gives usb_sem back.                                          *)
(***************************************************************************)
EXTENDS Integers, Sequences, SequencesExt, TLC

CONSTANTS
  ELEMS,       \* FIFO_ELEM_COUNT
  ROOM_CDC,    \* bytes in data_buf_mouse, data_buf_kbd and string
  HID_INPUTS,  \* bound: presses of buttons, words on port 0, texts on port 1
  TEXTS,       \* what the host may send on port 1
  REFUSALS     \* bound: reports refused

ASSUME HidAssumption ==
  /\ ELEMS \in Nat \ {0} /\ ROOM_CDC \in Nat \ {0}
  /\ HID_INPUTS \in Nat /\ REFUSALS \in Nat

VARIABLES
  evt_fifo, evt_sem, usb_sem,
  elems,           \* free blocks of event_elem_pool
  h_at, ev,        \* main(): its place, the event it serves ("none")
  mouse_rx, kbd_rx,\* per port: sent, the bytes under way; buf, those read so far
  string,          \* as the memory it is: old bytes stay behind the NUL
  str_pointer, ch, \* ch: of the report being made, the key and the modifier
  endpoint,        \* the report the host has not fetched, if any
  h_host,          \* the host's view: button, key held, moves, text typed
  h_fault,         \* app_evt_alloc returned NULL and the caller wrote through it
  h_left,          \* the inputs and refusals still to come
  h_goal           \* history: the string at BUTTON_2; mixed: others came into it;
                   \* strayed: a new string did, or the pointer left
                   \* the string; commands: the moves asked for

inputVars == <<mouse_rx, kbd_rx>>
textVars == <<string, str_pointer, ch>>
hidVars == <<evt_fifo, evt_sem, usb_sem, elems, h_at, ev, inputVars, textVars, endpoint,
             h_host, h_fault, h_left, h_goal>>

NUL == 0
CR == 13
Length == CHOOSE n \in 0 .. ROOM_CDC :
            /\ n < ROOM_CDC => string[n + 1] = NUL
            /\ \A k \in 1 .. n : string[k] # NUL

Moves == {"up", "down", "left", "right"}
Clears == {"HID_MOUSE_CLEAR", "HID_KBD_CLEAR"}
Buttons == {"GPIO_BUTTON_0", "GPIO_BUTTON_1", "GPIO_BUTTON_2", "GPIO_BUTTON_3"}

HidInit ==
  /\ evt_fifo = <<>> /\ evt_sem = 0 /\ usb_sem = 1 /\ elems = ELEMS
  /\ h_at = "boot" /\ ev = "none"
  /\ mouse_rx = [sent |-> <<>>, buf |-> <<>>] /\ kbd_rx = mouse_rx
  /\ string = [k \in 1 .. ROOM_CDC |-> NUL] /\ str_pointer = 0 /\ ch = [key |-> -1, shift |-> FALSE]
  /\ endpoint = <<>>
  /\ h_host = [button |-> FALSE, key |-> 0, moves |-> <<>>, text |-> <<>>]
  /\ h_fault = FALSE
  /\ h_left = [inputs |-> HID_INPUTS, refusals |-> REFUSALS]
  /\ h_goal = [text |-> <<>>, mixed |-> FALSE, strayed |-> FALSE, commands |-> <<>>]

-----------------------------------------------------------------------------
(* The keyboard's table *)

(* Keys that have no letter or digit.                                       *)
Key == [SPACE |-> 44, MINUS |-> 45, EQUAL |-> 46, LEFTBRACE |-> 47, RIGHTBRACE |-> 48,
        BACKSLASH |-> 49, SEMICOLON |-> 51, APOSTROPHE |-> 52, GRAVE |-> 53, COMMA |-> 54,
        DOT |-> 55, SLASH |-> 56, CAPSLOCK |-> 57, DELETE |-> 76]
Digit(d) == IF d = 0 THEN 39 ELSE 29 + d

ascii_to_hid(ascii) ==
  CASE ascii \in 32 .. 47 ->
         <<Key.SPACE, Digit(1), Key.APOSTROPHE, Digit(3), Digit(4), Digit(5), Digit(7),
           Key.APOSTROPHE, Digit(9), Digit(0), Digit(8), Key.EQUAL, Key.COMMA, Key.MINUS,
           Key.DOT, Key.SLASH>>[ascii - 31]
    [] ascii = 48 -> Digit(0)
    [] ascii \in 49 .. 57 -> ascii - 19
    [] ascii \in 58 .. 64 ->
         <<Key.SEMICOLON, Key.SEMICOLON, Key.COMMA, Key.EQUAL, Key.DOT, Key.SLASH,
           Digit(2)>>[ascii - 57]
    [] ascii \in 65 .. 90 -> ascii - 61
    [] ascii \in 91 .. 96 ->
         <<Key.LEFTBRACE, Key.BACKSLASH, Key.RIGHTBRACE, Digit(6), Key.MINUS,
           Key.GRAVE>>[ascii - 90]
    [] ascii \in 97 .. 122 -> ascii - 93
    [] ascii \in 123 .. 127 ->
         <<Key.LEFTBRACE, Key.BACKSLASH, Key.RIGHTBRACE, Key.GRAVE, Key.DELETE>>[ascii - 122]
    [] OTHER -> -1

(* The chain of conditions, first match.                                    *)
needs_shift(ascii) ==
  CASE ascii < 33 \/ ascii = 39 -> FALSE
    [] ascii \in 33 .. 43 -> TRUE
    [] ascii \in 44 .. 57 \/ ascii \in {59, 61} -> FALSE
    [] ascii \in 58 .. 90 -> TRUE
    [] ascii \in 91 .. 93 -> FALSE
    [] ascii \in {94, 95} -> TRUE
    [] ascii \in 96 .. 122 -> FALSE
    [] ascii \in 123 .. 126 -> TRUE
    [] OTHER -> FALSE

-----------------------------------------------------------------------------
(* Events *)

(* app_evt_alloc, app_evt_put and k_sem_give.  When the pool is empty the    *)
(* queue is flushed, one block is taken and forgotten, and the caller writes  *)
(* through NULL.                                                           *)
QueueEvent(event) ==
  IF elems > 0
  THEN /\ elems' = elems - 1
       /\ evt_fifo' = Append(evt_fifo, event)
       /\ evt_sem' = 1 /\ UNCHANGED h_fault
  ELSE /\ elems' = IF evt_fifo = <<>> THEN 0 ELSE Len(evt_fifo) - 1
       /\ evt_fifo' = <<>> /\ h_fault' = TRUE /\ UNCHANGED evt_sem

(* Something of the keyboard is queued, served or on its way.               *)
KeyboardBusy ==
  \/ \E e \in {"HID_KBD_STRING", "HID_KBD_CLEAR", "GPIO_BUTTON_3"} : e = ev \/ Contains(evt_fifo, e)
  \/ \E k \in DOMAIN endpoint : endpoint[k].dev = "kbd"

Input == h_left.inputs > 0 /\ h_left' = [h_left EXCEPT !.inputs = @ - 1]

(* btn0() to btn3().                                                        *)
btn(button) ==
  /\ Input
  /\ QueueEvent(button)
  /\ h_goal' = [h_goal EXCEPT !.mixed = @ \/ (button = "GPIO_BUTTON_3" /\ KeyboardBusy)]
  /\ UNCHANGED <<usb_sem, h_at, ev, inputVars, textVars, endpoint, h_host>>

(* The host sends on a port, after main() has enabled it.                   *)
PortReceives ==
  /\ h_at # "boot"
  /\ Input
  /\ \/ /\ \E w \in {"up", "left", "junk", "CR"} :
             mouse_rx' = [mouse_rx EXCEPT !.sent = Append(@, w)]
        /\ UNCHANGED kbd_rx
     \/ /\ \E t \in TEXTS : kbd_rx' = [kbd_rx EXCEPT !.sent = @ \o Append(t, CR)]
        /\ UNCHANGED mouse_rx
  /\ UNCHANGED <<evt_fifo, evt_sem, usb_sem, elems, h_at, ev, textVars, endpoint, h_host,
                 h_fault, h_goal>>

(* cdc_mouse_int_handler(), one uart_fifo_read(): as much as came and fits.   *)
(* A line that came whole in the buffer is a command; a buffer that is full   *)
(* without one is flushed.                                                 *)
cdc_mouse_int_handler ==
  /\ mouse_rx.sent # <<>>
  /\ LET room == ROOM_CDC - Len(mouse_rx.buf)
         read == SubSeq(mouse_rx.sent, 1, IF room < Len(mouse_rx.sent) THEN room ELSE Len(mouse_rx.sent))
         buf == mouse_rx.buf \o read
         line == Front(buf)
         command == IF Len(line) = 1 /\ line[1] \in Moves THEN line[1] ELSE "CDC_UNKNOWN"
     IN /\ mouse_rx' = [sent |-> SubSeq(mouse_rx.sent, Len(read) + 1, Len(mouse_rx.sent)),
                        buf |-> IF Last(buf) = "CR" \/ Len(buf) >= ROOM_CDC THEN <<>> ELSE buf]
        /\ IF Last(buf) = "CR"
           THEN /\ QueueEvent(command)
                /\ h_goal' = IF command \in Moves
                             THEN [h_goal EXCEPT !.commands = Append(@, command)]
                             ELSE h_goal
           ELSE UNCHANGED <<elems, evt_fifo, evt_sem, h_fault, h_goal>>
  /\ UNCHANGED <<usb_sem, h_at, ev, kbd_rx, textVars, endpoint, h_host, h_left>>

(* cdc_kbd_int_handler(), likewise, of the bytes that came; strcpy() leaves   *)
(* what lies behind the NUL.  A full buffer without a line reads 0 bytes.    *)
cdc_kbd_int_handler ==
  /\ \E n \in 1 .. Len(kbd_rx.sent) :
       LET buf == kbd_rx.buf \o SubSeq(kbd_rx.sent, 1, n)
       IN /\ Len(buf) <= ROOM_CDC
          /\ kbd_rx' = [sent |-> SubSeq(kbd_rx.sent, n + 1, Len(kbd_rx.sent)),
                        buf |-> IF Last(buf) = CR THEN <<>> ELSE buf]
          /\ IF Last(buf) = CR
             THEN /\ string' = [k \in 1 .. ROOM_CDC |->
                                 IF k < Len(buf) THEN buf[k]
                                 ELSE IF k = Len(buf) THEN NUL ELSE string[k]]
                  /\ QueueEvent("CDC_STRING")
                  /\ h_goal' = [h_goal EXCEPT !.mixed = @ \/ KeyboardBusy, !.strayed = @ \/ KeyboardBusy]
             ELSE UNCHANGED <<string, elems, evt_fifo, evt_sem, h_fault, h_goal>>
  /\ UNCHANGED <<usb_sem, h_at, ev, mouse_rx, str_pointer, ch, endpoint, h_host, h_left>>

(* The host fetches the report; in_ready_cb() gives usb_sem.  A key counts    *)
(* when it was not held before, a move with every report.                   *)
in_ready_cb ==
  /\ endpoint # <<>> /\ endpoint' = <<>> /\ usb_sem' = 1
  /\ LET rep == Head(endpoint)
     IN h_host' =
          IF rep.dev = "mouse"
          THEN [h_host EXCEPT !.button = rep.button,
                              !.moves = IF rep.move = "none" THEN @ ELSE Append(@, rep.move)]
          ELSE [h_host EXCEPT !.key = rep.key,
                              !.text = IF rep.key \in {0, Key.CAPSLOCK, h_host.key} THEN @
                                       ELSE Append(@, <<rep.key, rep.shift>>)]
  /\ UNCHANGED <<evt_fifo, evt_sem, elems, h_at, ev, inputVars, textVars, h_fault, h_left, h_goal>>

-----------------------------------------------------------------------------
(* main() *)

eventVars == <<evt_fifo, evt_sem, elems, h_fault>>
cdcVars == <<usb_sem, endpoint, h_host, h_left>>

(* Up to the loop: the devices, DTR on both ports, the banners.              *)
h_ready ==
  /\ h_at = "boot" /\ h_at' = "wait"
  /\ UNCHANGED <<eventVars, cdcVars, ev, inputVars, textVars, h_goal>>

h_wait ==
  /\ h_at = "wait" /\ evt_sem = 1
  /\ evt_sem' = 0 /\ h_at' = "get"
  /\ UNCHANGED <<evt_fifo, elems, h_fault, cdcVars, ev, inputVars, textVars, h_goal>>

h_get ==
  /\ h_at = "get"
  /\ IF evt_fifo = <<>> THEN h_at' = "wait" /\ UNCHANGED <<evt_fifo, ev>>
     ELSE h_at' = "serve" /\ ev' = Head(evt_fifo) /\ evt_fifo' = Tail(evt_fifo)
  /\ UNCHANGED <<evt_sem, elems, h_fault, cdcVars, inputVars, textVars, h_goal>>

(* k_sem_take(&usb_sem) and hid_int_ep_write(), whose result is ignored.      *)
Write(rep) ==
  /\ usb_sem = 1 /\ usb_sem' = 0
  /\ \/ endpoint' = <<rep>> /\ UNCHANGED h_left
     \/ /\ h_left.refusals > 0 /\ h_left' = [h_left EXCEPT !.refusals = @ - 1]
        /\ UNCHANGED endpoint

Mouse(button, move) == [dev |-> "mouse", button |-> button, move |-> move]
Kbd(key, shift) == [dev |-> "kbd", key |-> key, shift |-> shift]

ReportOf(e) ==
  CASE e = "GPIO_BUTTON_0" -> Mouse(FALSE, "random")
    [] e = "GPIO_BUTTON_1" -> Mouse(TRUE, "none")
    [] e = "GPIO_BUTTON_3" -> Kbd(Key.CAPSLOCK, FALSE)
    [] e \in Moves -> Mouse(FALSE, e)
    [] e = "HID_MOUSE_CLEAR" -> Mouse(FALSE, "none")
    [] e = "HID_KBD_CLEAR" -> Kbd(0, FALSE)

(* The events that begin with a report.                                     *)
h_report ==
  /\ h_at = "serve" /\ ev \notin {"GPIO_BUTTON_2", "CDC_UNKNOWN", "CDC_STRING", "HID_KBD_STRING"}
  /\ Write(ReportOf(ev))
  /\ h_at' = IF ev \in Clears THEN "free" ELSE "tx"
  /\ UNCHANGED <<eventVars, ev, inputVars, textVars, h_host, h_goal>>

(* string[str_pointer]; behind the array is what the linker put there.       *)
CharsAtPointer == IF str_pointer < ROOM_CDC THEN {string[str_pointer + 1]} ELSE {NUL, 97}

(* HID_KBD_STRING: the key and the modifier are read one after the other,     *)
(* both before the wait for usb_sem.                                         *)
h_key ==
  /\ h_at = "serve" /\ ev = "HID_KBD_STRING"
  /\ \E c \in CharsAtPointer : ch' = [key |-> ascii_to_hid(c), shift |-> FALSE]
  /\ h_at' = IF ch'.key = -1 THEN "next" ELSE "shift"
  /\ h_goal' = [h_goal EXCEPT !.strayed = @ \/ str_pointer >= ROOM_CDC]
  /\ UNCHANGED <<eventVars, cdcVars, ev, inputVars, string, str_pointer>>

h_shift ==
  /\ h_at = "shift" /\ h_at' = "write"
  /\ \E c \in CharsAtPointer : ch' = [ch EXCEPT !.shift = needs_shift(c)]
  /\ UNCHANGED <<eventVars, cdcVars, ev, inputVars, string, str_pointer, h_goal>>

h_type ==
  /\ h_at = "write"
  /\ Write(Kbd(ch.key, ch.shift))
  /\ h_at' = "next"
  /\ UNCHANGED <<eventVars, ev, inputVars, textVars, h_host, h_goal>>

(* The rest of the string, or its end; neither when it became shorter.       *)
h_next ==
  /\ h_at = "next" /\ h_at' = "free"
  /\ str_pointer' = str_pointer + 1
  /\ CASE Length > str_pointer' -> QueueEvent("HID_KBD_STRING")
       [] Length = str_pointer' -> QueueEvent("HID_KBD_CLEAR")
       [] OTHER -> UNCHANGED eventVars
  /\ UNCHANGED <<cdcVars, ev, inputVars, string, ch, h_goal>>

(* write_data() to the port: until the host has taken it.                    *)
h_told ==
  /\ \/ h_at = "tx"
     \/ h_at = "serve" /\ ev \in {"GPIO_BUTTON_2", "CDC_UNKNOWN", "CDC_STRING"}
  /\ h_at' = IF ev \in {"CDC_UNKNOWN", "CDC_STRING"} THEN "free" ELSE "queue"
  /\ UNCHANGED <<eventVars, cdcVars, ev, inputVars, textVars, h_goal>>

(* clear_mouse_report() and clear_kbd_report(), or the start of the string.  *)
h_queue ==
  /\ h_at = "queue" /\ h_at' = "free"
  /\ IF ev = "GPIO_BUTTON_2"
     THEN IF Length > 0
          THEN /\ QueueEvent("HID_KBD_STRING") /\ str_pointer' = 0
               /\ h_goal' = [h_goal EXCEPT !.text = SubSeq(string, 1, Length), !.mixed = KeyboardBusy \/ h_host.key # 0]
               /\ h_host' = [h_host EXCEPT !.text = <<>>]
          ELSE UNCHANGED <<eventVars, str_pointer, h_goal, h_host>>
     ELSE /\ QueueEvent(IF ev = "GPIO_BUTTON_3" THEN "HID_KBD_CLEAR" ELSE "HID_MOUSE_CLEAR")
          /\ UNCHANGED <<str_pointer, h_goal, h_host>>
  /\ UNCHANGED <<usb_sem, endpoint, h_left, ev, inputVars, string, ch>>

(* app_evt_free().                                                          *)
h_free ==
  /\ h_at = "free" /\ h_at' = "get"
  /\ elems' = elems + 1 /\ ev' = "none"
  /\ UNCHANGED <<evt_fifo, evt_sem, h_fault, cdcVars, inputVars, textVars, h_goal>>

HidNext ==
  /\ ~ h_fault
  /\ \/ (\E b \in Buttons : btn(b)) \/ PortReceives \/ in_ready_cb
     \/ cdc_mouse_int_handler \/ cdc_kbd_int_handler
     \/ h_ready \/ h_wait \/ h_get \/ h_report \/ h_key \/ h_shift \/ h_type \/ h_next
     \/ h_told \/ h_queue \/ h_free

-----------------------------------------------------------------------------
(* Properties *)

Refused == h_left.refusals < REFUSALS
Rest == h_at = "wait" /\ evt_fifo = <<>> /\ endpoint = <<>> /\ ~ h_fault /\ ~ Refused

(* What a US keyboard means by a key; the rows are the keys from 44 to 56.    *)
Layout(key, shift) ==
  CASE key \in 4 .. 29 -> key + (IF shift THEN 61 ELSE 93)
    [] key \in 30 .. 39 -> (IF shift THEN <<33, 64, 35, 36, 37, 94, 38, 42, 40, 41>>
                           ELSE <<49, 50, 51, 52, 53, 54, 55, 56, 57, 48>>)[key - 29]
    [] key \in 44 .. 56 ->
         (IF shift THEN <<32, 95, 43, 123, 125, 124, 0, 58, 34, 126, 60, 62, 63>>
          ELSE <<32, 45, 61, 91, 93, 92, 0, 59, 39, 96, 44, 46, 47>>)[key - 43]
    [] OTHER -> 127

(* Every character of the table is the one a US keyboard gives for its key.  *)
TableIsRight == \A a \in 32 .. 127 : Layout(ascii_to_hid(a), needs_shift(a)) = a

(* What the host has read when all is served is the string of BUTTON_2,       *)
(* without the characters that have no key, unless other keys were typed into *)
(* it or still held, or two neighbours share a key, which is not released in  *)
(* between.                                                                *)
TypedAsEntered ==
  LET meant == SelectSeq(h_goal.text, LAMBDA c : ascii_to_hid(c) # -1)
      repeats == \E k \in 2 .. Len(meant) : ascii_to_hid(meant[k]) = ascii_to_hid(meant[k - 1])
      read == [k \in DOMAIN h_host.text |-> Layout(h_host.text[k][1], h_host.text[k][2])]
  IN Rest /\ ~ h_goal.mixed /\ ~ repeats => read = meant

(* When all is served, no button and no key is held, unless the string was    *)
(* replaced while it was typed, or, with two runs through it, read past its    *)
(* end; and every command has moved the mouse once.                         *)
ReleasedAtRest ==
  Rest => /\ ~ h_host.button
          /\ h_host.key = 0 \/ h_goal.strayed
          /\ SelectSeq(h_host.moves, LAMBDA m : m # "random") = h_goal.commands

(* evt_sem counts to one only, so main() drains the queue: it never sleeps    *)
(* on an event.  Every block of the pool is free, queued or being served.    *)
EventsServed ==
  /\ h_at = "wait" /\ evt_fifo # <<>> => evt_sem = 1
  /\ ~ h_fault => elems + Len(evt_fifo) + (IF ev = "none" THEN 0 ELSE 1) = ELEMS

(* The two devices hand usb_sem round; a refused report keeps it for ever.    *)
ReportsHandedOver == usb_sem + Len(endpoint) = IF Refused THEN 0 ELSE 1

HidServed == TableIsRight /\ TypedAsEntered /\ ReleasedAtRest /\ EventsServed /\ ReportsHandedOver
=============================================================================
