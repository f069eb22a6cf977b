----------------------------- MODULE HciBridge -----------------------------
(***************************************************************************)
(* samples/bluetooth/hci_uart and hci_rpmsg: a controller whose host sits   *)
(* behind a UART, or behind shared memory.  Both take the host's packets   *)
(* into two pools of buffers and give them to the controller in tx_thread; *)
(* they differ in how a packet comes in: byte by byte in an interrupt, or  *)
(* as a message that a work item picks up.                                 *)
(***************************************************************************)
EXTENDS Integers, Sequences, FiniteSets, SequencesExt

CONSTANTS
  BUF_COUNT,    \* buffers of cmd_tx_pool and of acl_tx_pool
  LEN, ROOM,    \* bound: payload bytes of a packet, and how many fit into a buffer
  PACKETS,      \* bound: packets of the host
  LINE          \* bound: bytes on the wire when the host begins a packet

Pool == {"cmd", "acl"}

ASSUME HciAssumption ==
  /\ BUF_COUNT \in [Pool -> Nat \ {0}] /\ LEN \in Nat /\ ROOM \in Nat /\ PACKETS \in Nat /\ LINE \in Nat

VARIABLES
  bufs,       \* free buffers of each pool
  tx_queue,   \* buffers for the controller
  given,      \* of each pool: buffers that the controller has yet to free
  hci_sent,   \* packets the host has sent
  hci_last,   \* history: the last packet the controller was given
  line,       \* hci_uart: bytes on the wire and in the UART's FIFO
  isr,        \* hci_uart: the static buf and remaining of bt_uart_isr
  unknown,    \* history: bt_uart_isr has seen an unknown type
  overrun,    \* history: hci_rpmsg has written past the end of a buffer
  ring,       \* hci_rpmsg: messages in the virtqueue
  ipm         \* hci_rpmsg: whether the interrupt, the work item, is pending, or runs

poolVars == <<bufs, tx_queue, given, hci_sent, hci_last>>
uartVars == <<line, isr, unknown>>
rpmsgVars == <<overrun, ring, ipm>>
hciVars == <<poolVars, uartVars, rpmsgVars>>

NoBuf == [type |-> "none", bytes |-> <<>>]

HciInit ==
  /\ bufs = BUF_COUNT /\ tx_queue = <<>> /\ given = [t \in Pool |-> 0]
  /\ hci_sent = 0 /\ hci_last = 0
  /\ line = <<>> /\ isr = [buf |-> NoBuf, remaining |-> 0] /\ unknown = FALSE
  /\ overrun = FALSE /\ ring = <<>> /\ ipm = [irq |-> FALSE, pending |-> FALSE, runs |-> FALSE]

-----------------------------------------------------------------------------
(* Buffers.  A buffer holds what came in for it: the header, then the data. *)

Alloc(t) == bufs' = [bufs EXCEPT ![t] = @ - 1]
Unref(t) == bufs' = [bufs EXCEPT ![t] = @ + 1]

(* bt_send takes the buffer, or fails and tx_thread frees it. *)
tx_thread ==
  /\ tx_queue # <<>> /\ tx_queue' = Tail(tx_queue)
  /\ LET buf == Head(tx_queue) IN
       \/ /\ given' = [given EXCEPT ![buf.type] = @ + 1]
          /\ hci_last' = Head(buf.bytes).of.id /\ UNCHANGED bufs
       \/ Unref(buf.type) /\ UNCHANGED <<given, hci_last>>
  /\ UNCHANGED hci_sent

ControllerFrees ==
  \E t \in Pool : /\ given[t] > 0 /\ given' = [given EXCEPT ![t] = @ - 1] /\ Unref(t)
                  /\ UNCHANGED <<tx_queue, hci_sent, hci_last>>

-----------------------------------------------------------------------------
(* hci_uart.  On the wire a packet is its type, its header, and its payload. *)

Packet(type, len) == [id |-> hci_sent + 1, type |-> type, len |-> len]
Byte(kind, p) == [kind |-> kind, of |-> p]
OnWire(p) == <<Byte("type", p), Byte("head", p)>> \o [k \in 1 .. p.len |-> Byte("data", p)]

HostSends ==
  /\ hci_sent < PACKETS /\ Len(line) <= LINE /\ hci_sent' = hci_sent + 1
  /\ \E type \in Pool \cup {"sco"}, len \in 0 .. LEN : line' = line \o OnWire(Packet(type, len))
  /\ UNCHANGED <<bufs, tx_queue, given, hci_last, isr, unknown, rpmsgVars>>

(* What a byte says when it is read as a type, or with those that follow as *)
(* a header, which once the boundaries are lost it need not be.            *)
AsType(b) == IF b.kind = "type" THEN {b.of.type} ELSE Pool \cup {"sco"}
AsLength(b) == IF b.kind = "head" THEN {b.of.len} ELSE 0 .. LEN

(* h4_cmd_recv, h4_acl_recv: the header is waited for; a packet for which   *)
(* there is no buffer, or too small a one, is to be discarded.             *)
h4_recv(t, head, len) ==
  LET buf == [type |-> t, bytes |-> <<head>>] IN
  IF bufs[t] = 0 \/ len > ROOM
  THEN /\ isr' = [buf |-> NoBuf, remaining |-> len]
       /\ UNCHANGED <<bufs, tx_queue>>
  ELSE /\ Alloc(t)
       /\ IF len = 0 THEN tx_queue' = Append(tx_queue, buf) /\ UNCHANGED isr
          ELSE isr' = [buf |-> buf, remaining |-> len] /\ UNCHANGED tx_queue

(* bt_uart_isr at the beginning of a packet. *)
isr_begin ==
  /\ isr.remaining = 0 /\ line # <<>>
  /\ \E type \in AsType(Head(line)) :
       \/ /\ type \notin Pool
          /\ unknown' = TRUE /\ line' = Tail(line) /\ UNCHANGED <<isr, bufs, tx_queue>>
       \/ /\ type \in Pool /\ Len(line) > 1
          /\ \E len \in AsLength(line[2]) : h4_recv(type, line[2], len)
          /\ line' = Tail(Tail(line)) /\ UNCHANGED unknown
  /\ UNCHANGED <<given, hci_sent, hci_last, rpmsgVars>>

(* A byte of a discarded packet that is left on the wire. *)
isr_data_kept ==
  /\ isr.remaining > 0 /\ line # <<>>
  /\ LET buf == [isr.buf EXCEPT !.bytes = Append(@, Head(line))] IN
     CASE isr.buf = NoBuf ->
            isr' = [isr EXCEPT !.remaining = 0] /\ UNCHANGED <<line, tx_queue>>
       [] isr.buf # NoBuf /\ isr.remaining > 1 ->
            /\ isr' = [buf |-> buf, remaining |-> isr.remaining - 1]
            /\ line' = Tail(line) /\ UNCHANGED tx_queue
       [] OTHER ->
            /\ isr' = [buf |-> NoBuf, remaining |-> 0]
            /\ line' = Tail(line) /\ tx_queue' = Append(tx_queue, buf)
  /\ UNCHANGED <<bufs, given, hci_sent, hci_last, unknown, rpmsgVars>>

(* bt_uart_isr within a packet, for one of the bytes that have come. *)
isr_data ==
  /\ isr.remaining > 0 /\ line # <<>> /\ line' = Tail(line)
  /\ LET buf == [isr.buf EXCEPT !.bytes = Append(@, Head(line))] IN
     CASE isr.buf = NoBuf ->
            isr' = [isr EXCEPT !.remaining = @ - 1] /\ UNCHANGED tx_queue
       [] isr.buf # NoBuf /\ isr.remaining > 1 ->
            isr' = [buf |-> buf, remaining |-> isr.remaining - 1] /\ UNCHANGED tx_queue
       [] OTHER ->
            /\ isr' = [buf |-> NoBuf, remaining |-> 0]
            /\ tx_queue' = Append(tx_queue, buf)
  /\ UNCHANGED <<bufs, given, hci_sent, hci_last, unknown, rpmsgVars>>

UartNext ==
  \/ HostSends \/ isr_begin \/ isr_data
  \/ (tx_thread \/ ControllerFrees) /\ UNCHANGED <<uartVars, rpmsgVars>>

-----------------------------------------------------------------------------
(* hci_rpmsg.  The remote core puts a message into the ring and rings.  Its   *)
(* length is that of its header, or another; the payload of the latter and   *)
(* of an unknown type is not looked at.                                     *)

RemoteSends ==
  /\ hci_sent < PACKETS /\ hci_sent' = hci_sent + 1
  /\ \E type \in Pool \cup {"sco"}, len \in 0 .. LEN, fits \in {"right", "wrong", "short"} :
       /\ len = 0 \/ (type \in Pool /\ fits = "right")
       /\ ring' = Append(ring, [of |-> Packet(type, len), fits |-> fits])
  /\ ipm' = [ipm EXCEPT !.irq = TRUE]
  /\ UNCHANGED <<bufs, tx_queue, given, hci_last, uartVars, overrun>>

ipm_callback ==
  /\ ipm.irq /\ ipm' = [ipm EXCEPT !.irq = FALSE, !.pending = TRUE]
  /\ UNCHANGED <<poolVars, uartVars, overrun, ring>>

(* The work queue takes the item off before it calls the handler. *)
ipm_callback_process ==
  /\ ipm.pending /\ ~ ipm.runs
  /\ ipm' = [ipm EXCEPT !.pending = FALSE, !.runs = TRUE]
  /\ UNCHANGED <<poolVars, uartVars, overrun, ring>>

ProcessEnds ==
  /\ ipm.runs /\ ring = <<>> /\ ipm' = [ipm EXCEPT !.runs = FALSE]
  /\ UNCHANGED <<poolVars, uartVars, overrun, ring>>

(* hci_rpmsg_cmd_recv, hci_rpmsg_acl_recv: the length is compared with the    *)
(* header's when the buffer has been taken already, which is then given     *)
(* back; with the buffer's room it is not compared.  What lies behind the    *)
(* data of a buffer is that of another of its pool, which may be queued, or  *)
(* something else.                                                         *)
hci_rpmsg_rx(m) ==
  IF m.of.type \in Pool /\ m.fits = "right" /\ bufs[m.of.type] > 0
  THEN /\ Alloc(m.of.type)
       /\ overrun' = (overrun \/ m.of.len > ROOM)
       /\ \E behind \in SUBSET {k \in DOMAIN tx_queue : tx_queue[k].type = m.of.type} :
            /\ Cardinality(behind) <= (IF m.of.len > ROOM THEN 1 ELSE 0)
            /\ tx_queue' =
                 Append([k \in DOMAIN tx_queue |->
                           IF k \in behind
                           THEN [tx_queue[k] EXCEPT !.bytes = <<Byte("data", m.of)>>]
                           ELSE tx_queue[k]],
                        [type |-> m.of.type, bytes |-> Tail(OnWire(m.of))])
  ELSE UNCHANGED <<bufs, tx_queue, overrun>>

endpoint_cb ==
  /\ ipm.runs /\ ring # <<>> /\ ring' = Tail(ring)
  /\ hci_rpmsg_rx(Head(ring))
  /\ UNCHANGED <<given, hci_sent, hci_last, uartVars, ipm>>

(* tx_thread does not run while the work queue's thread, which has a higher *)
(* priority, is at work.                                                   *)
RpmsgNext ==
  \/ RemoteSends \/ ipm_callback \/ ipm_callback_process \/ endpoint_cb \/ ProcessEnds
  \/ ~ ipm.runs /\ tx_thread /\ UNCHANGED <<uartVars, rpmsgVars>>
  \/ ControllerFrees /\ UNCHANGED <<uartVars, rpmsgVars>>

-----------------------------------------------------------------------------
(* Properties *)

Whole(buf) == \E p \in {Head(buf.bytes).of} : buf.type = p.type /\ buf.bytes = Tail(OnWire(p))

Ids == [k \in DOMAIN tx_queue |-> Head(tx_queue[k].bytes).of.id]

(* bt_uart_isr, hci_rpmsg_rx: what the controller is given are whole packets *)
(* of the host, each once and in order, whichever had to be discarded: by     *)
(* hci_uart for want of a buffer or of room in it, until a type is unknown    *)
(* and it loses the boundaries; by hci_rpmsg for want of a buffer only, until *)
(* a message is longer than the buffer, and overruns it.                     *)
PacketsWhole ==
  ~ unknown /\ ~ overrun =>
    /\ \A k \in DOMAIN tx_queue : Whole(tx_queue[k]) /\ Ids[k] > hci_last
    /\ \A j, k \in DOMAIN tx_queue : j < k => Ids[j] < Ids[k]

(* h4_recv: nothing of hci_uart is ever written past the end of a buffer, not  *)
(* even when the boundaries are lost and any byte is taken for a length; of   *)
(* hci_rpmsg, not before it is sent a message that does not fit.             *)
BuffersHold ==
  ~ overrun =>
    /\ \A k \in DOMAIN tx_queue : Len(tx_queue[k].bytes) <= 1 + ROOM
    /\ isr.buf # NoBuf => Len(isr.buf.bytes) + isr.remaining <= 1 + ROOM

(* Every buffer is free, being filled, queued, or with the controller; and  *)
(* no message waits in the ring without something pending to look there.   *)
NothingForgotten ==
  /\ \A t \in Pool :
       bufs[t] + given[t] + Len(SelectSeq(tx_queue, LAMBDA b : b.type = t))
         + (IF isr.buf.type = t THEN 1 ELSE 0) = BUF_COUNT[t]
  /\ ring = <<>> \/ ipm.irq \/ ipm.pending \/ ipm.runs

(* The way from the host to the controller, both.                           *)
PacketsArrive == PacketsWhole /\ BuffersHold /\ NothingForgotten
=============================================================================
