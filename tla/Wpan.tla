-------------------------------- MODULE Wpan --------------------------------
(***************************************************************************)
(* samples/net/wpan_serial and wpanusb: a radio for a host behind a serial  *)
(* line, on which packets are framed by SLIP, or behind USB.               *)
(***************************************************************************)
EXTENDS Integers, Sequences, FiniteSets, SequencesExt

CONSTANTS
  FRAMES,      \* bound: frames, or requests, that the host sends
  PKT_COUNT,   \* packets of the pool
  PKT_ROOM     \* bytes that fit into a packet

ASSUME WpanAssumption == FRAMES \in Nat /\ PKT_COUNT \in Nat /\ PKT_ROOM \in Nat \ {0}

VARIABLES
  serial,      \* wpan_serial: the bytes on the line
  slip,        \* slip_state and pkt_curr
  wpan_rx,     \* rx_queue: packets for rx_thread
  wpan_tx,     \* tx_queue: packets for the host, or of wpanusb for tx_thread
  pkts,        \* packets left in the pool
  framed,      \* frames, or requests, so far
  spoilt,      \* history: frames with a bad escape, or a byte without a place
  usb,         \* wpanusb: what tx_thread is doing
  incoming,    \* wpanusb: net_recv_data is in its transfer
  air,         \* history of wpanusb: requests that the radio has sent
  told,        \* history of wpanusb: <<request, the seq the host was told>>
  untold       \* history of wpanusb: requests whose report was not sent

serialVars == <<serial, slip, wpan_rx, spoilt>>
usbVars == <<usb, incoming, air, told, untold>>
wpanVars == <<serialVars, wpan_tx, pkts, framed, usbVars>>

Waits == [at |-> "get", req |-> 0, tries |-> 0]

WpanInit ==
  /\ serial = <<>> /\ slip = [state |-> "OK", curr |-> <<>>] /\ wpan_rx = <<>> /\ wpan_tx = <<>>
  /\ pkts = PKT_COUNT /\ framed = 0 /\ spoilt = {}
  /\ usb = Waits /\ incoming = FALSE /\ air = {} /\ told = {} /\ untold = {}

-----------------------------------------------------------------------------
(* wpan_serial.  A byte is plain, or ESC, or what follows an ESC, or END; a  *)
(* byte is kept with its frame and its place in it.                        *)

Clean == {<<>>, <<"plain">>, <<"plain", "plain">>, <<"ESC", "code", "plain", "plain">>}
Noisy == {<<"plain", "ESC", "plain">>, <<"plain", "ESC">>}

(* In a noisy frame an escape is followed by what it does not allow. *)
HostFrames ==
  /\ framed < FRAMES /\ framed' = framed + 1
  /\ \E f \in Clean \cup Noisy :
       serial' = serial \o
         [k \in 1 .. Len(f) + 1 |->
            [kind |-> IF k > Len(f) THEN "END" ELSE f[k], frame |-> framed', at |-> k,
             bytes |-> Cardinality({j \in DOMAIN f : f[j] # "ESC"})]]
  /\ UNCHANGED <<slip, wpan_rx, spoilt, wpan_tx, pkts, usbVars>>

(* The end of slip_process_byte: a byte to be stored. *)
Store(c, state) ==
  IF \/ slip.curr = <<>> /\ pkts = 0
     \/ Len(slip.curr) = PKT_ROOM
  THEN /\ slip' = [state |-> state, curr |-> <<>>]
       /\ pkts' = (IF slip.curr = <<>> THEN pkts ELSE pkts + 1)
       /\ spoilt' = spoilt \cup {c.frame} /\ UNCHANGED wpan_rx
  ELSE /\ slip' = [state |-> state, curr |-> Append(slip.curr, c)]
       /\ pkts' = (IF slip.curr = <<>> THEN pkts - 1 ELSE pkts)
       /\ UNCHANGED <<spoilt, wpan_rx>>

(* interrupt_handler at the end of a frame: the packet, if there is one, is *)
(* for rx_thread.                                                          *)
FullPacket ==
  /\ wpan_rx' = (IF slip.curr = <<>> THEN wpan_rx ELSE Append(wpan_rx, slip.curr))
  /\ slip' = [slip EXCEPT !.curr = <<>>]
  /\ UNCHANGED <<spoilt, pkts>>

slip_process_byte ==
  /\ serial # <<>> /\ serial' = Tail(serial)
  /\ LET c == Head(serial) IN
     CASE slip.state = "GARBAGE" ->
            /\ slip' = [slip EXCEPT !.state = IF c.kind = "END" THEN "OK" ELSE @]
            /\ UNCHANGED <<wpan_rx, spoilt, pkts>>
       [] slip.state = "ESC" /\ c.kind = "code" -> Store(c, "OK")
       [] slip.state = "ESC" /\ c.kind # "code" ->
            /\ slip' = [slip EXCEPT !.state = "GARBAGE"]
            /\ spoilt' = spoilt \cup {c.frame} /\ UNCHANGED <<wpan_rx, pkts>>
       [] slip.state = "OK" /\ c.kind = "ESC" ->
            slip' = [slip EXCEPT !.state = "ESC"] /\ UNCHANGED <<wpan_rx, spoilt, pkts>>
       [] slip.state = "OK" /\ c.kind = "END" -> FullPacket
       [] OTHER -> Store(c, "OK")
  /\ UNCHANGED <<wpan_tx, framed, usbVars>>

(* process_request, process_config, process_data: an address or a report is *)
(* sent, if there is a packet for it; other packets are not answered.      *)
rx_thread ==
  /\ wpan_rx # <<>> /\ wpan_rx' = Tail(wpan_rx)
  /\ \/ pkts > 0 /\ wpan_tx' = Append(wpan_tx, "answer") /\ UNCHANGED pkts
     \/ pkts' = pkts + 1 /\ UNCHANGED wpan_tx
  /\ UNCHANGED <<serial, slip, spoilt, framed, usbVars>>

net_recv_data ==
  /\ pkts > 0 /\ pkts' = pkts - 1 /\ wpan_tx' = Append(wpan_tx, "received")
  /\ UNCHANGED <<serialVars, framed, usbVars>>

serial_tx_thread ==
  /\ wpan_tx # <<>> /\ wpan_tx' = Tail(wpan_tx) /\ pkts' = pkts + 1
  /\ UNCHANGED <<serialVars, framed, usbVars>>

SerialNext == HostFrames \/ slip_process_byte \/ rx_thread \/ net_recv_data \/ serial_tx_thread

-----------------------------------------------------------------------------
(* wpanusb.  Requests other than TX only set up the radio. *)

wpanusb_vendor_handler ==
  /\ framed < FRAMES /\ framed' = framed + 1
  /\ IF pkts = 0 THEN UNCHANGED <<pkts, wpan_tx>>
     ELSE pkts' = pkts - 1 /\ \E tx \in BOOLEAN : wpan_tx' = Append(wpan_tx, [tx |-> tx, req |-> framed'])
  /\ UNCHANGED <<serialVars, usbVars>>

usb_tx_thread ==
  /\ usb = Waits /\ wpan_tx # <<>> /\ wpan_tx' = Tail(wpan_tx)
  /\ IF Head(wpan_tx).tx
     THEN usb' = [at |-> "radio", req |-> Head(wpan_tx).req, tries |-> 3] /\ UNCHANGED pkts
     ELSE pkts' = pkts + 1 /\ UNCHANGED usb
  /\ UNCHANGED <<serialVars, framed, incoming, air, told, untold>>

tx_ignores_last_try ==
  /\ usb.at = "radio"
  /\ \/ air' = air \cup {usb.req} /\ usb' = [usb EXCEPT !.at = "report"]
     \/ /\ UNCHANGED air
        /\ usb' = IF usb.tries = 0 THEN [usb EXCEPT !.at = "report"]
                  ELSE [usb EXCEPT !.tries = @ - 1]
  /\ UNCHANGED <<serialVars, wpan_tx, pkts, framed, incoming, told, untold>>

(* tx: the radio takes the frame, or fails and is asked three times more;    *)
(* the report then has the sequence number 0.                              *)
tx ==
  /\ usb.at = "radio"
  /\ \/ air' = air \cup {usb.req} /\ usb' = [usb EXCEPT !.at = "report"]
     \/ /\ UNCHANGED air
        /\ usb' = IF usb.tries = 0 THEN [usb EXCEPT !.at = "failed"]
                  ELSE [usb EXCEPT !.tries = @ - 1]
  /\ UNCHANGED <<serialVars, wpan_tx, pkts, framed, incoming, told, untold>>

(* usb_transfer_sync fails when the endpoint carries another transfer, and   *)
(* otherwise waits for the host.                                           *)
ReportSeq ==
  LET seq == IF usb.at = "report" THEN usb.req ELSE 0 IN
  /\ usb.at \in {"report", "failed"}
  /\ IF incoming
     THEN untold' = untold \cup {usb.req} /\ usb' = Waits /\ pkts' = pkts + 1 /\ UNCHANGED told
     ELSE told' = told \cup {<<usb.req, seq>>} /\ usb' = [usb EXCEPT !.at = "transfer"] /\ UNCHANGED <<untold, pkts>>
  /\ UNCHANGED <<serialVars, wpan_tx, framed, incoming, air>>

HostTakesReport ==
  /\ usb.at = "transfer" /\ usb' = Waits /\ pkts' = pkts + 1
  /\ UNCHANGED <<serialVars, wpan_tx, framed, incoming, air, told, untold>>

(* net_recv_data of wpanusb, from its packet to its transfer, and the end.   *)
usb_recv_data ==
  /\ ~ incoming /\ pkts > 0 /\ usb.at # "transfer"
  /\ incoming' = TRUE /\ pkts' = pkts - 1
  /\ UNCHANGED <<serialVars, wpan_tx, framed, usb, air, told, untold>>

HostTakesData ==
  /\ incoming /\ incoming' = FALSE /\ pkts' = pkts + 1
  /\ UNCHANGED <<serialVars, wpan_tx, framed, usb, air, told, untold>>

UsbNext ==
  \/ wpanusb_vendor_handler \/ usb_tx_thread \/ tx \/ ReportSeq \/ HostTakesReport
  \/ usb_recv_data \/ HostTakesData

-----------------------------------------------------------------------------
(* Properties *)

WholeFrame(p) == (\A c \in {p[k] : k \in DOMAIN p} : c.frame = p[1].frame) /\ Len(p) = p[1].bytes

(* slip_process_byte: a packet for rx_thread is a frame as the host sent it, *)
(* or it holds a byte of a frame that noise, the room, or the pool spoilt:  *)
(* what is wrong with one frame reaches at most the next that comes through,*)
(* onto which its beginning is put.                                        *)
DamageStaysClose ==
  \A k \in DOMAIN wpan_rx : LET p == wpan_rx[k] IN
    WholeFrame(p) \/ \E j \in DOMAIN p : p[j].frame \in spoilt

(* tx of wpanusb: what the host is told of a request is true, whichever of   *)
(* the four tries failed, and it is told once, or never when its endpoint   *)
(* was busy with a received frame; and no packet is lost on any of the ways.*)
ReportsAreTrue ==
  /\ \A r \in told : r[2] = (IF r[1] \in air THEN r[1] ELSE 0) /\ r[1] \notin untold
  /\ pkts + Len(wpan_tx) + Len(wpan_rx) + (IF slip.curr = <<>> THEN 0 ELSE 1)
       + (IF usb = Waits THEN 0 ELSE 1) + (IF incoming THEN 1 ELSE 0) = PKT_COUNT

(* Both bridges to the radio.                                               *)
RadioServed == DamageStaysClose /\ ReportsAreTrue
=============================================================================
