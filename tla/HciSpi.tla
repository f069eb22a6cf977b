------------------------------- MODULE HciSpi -------------------------------
(***************************************************************************)
(* samples/bluetooth/hci_spi: a controller that is the slave on an SPI bus. *)
(* bt_tx_thread receives the host's packets and main sends events; both    *)
(* use the bus, the static tx and rx, and hand it over by two semaphores.  *)
(*                                                                         *)
(* The host is the master: it reads when the interrupt pin is high, until a *)
(* header says how much there is, and otherwise writes what it has; between *)
(* the header and the data it does nothing else.  A transfer takes place   *)
(* when both are in it, and a fault is one that fails on the slave's side. *)
(* The pin falls only some time after the event's last byte, and the host   *)
(* may have begun to read once more by then.                               *)
(***************************************************************************)
EXTENDS Integers, Sequences

CONSTANTS
  EVENTS,     \* bound: events, after the one main itself announces
  COMMANDS,   \* bound: packets of the host
  SPI_FAULTS  \* bound: transfers that fail

ASSUME SpiAssumption == EVENTS \in Nat /\ COMMANDS \in Nat /\ SPI_FAULTS \in Nat

VARIABLES
  spi_irq,                  \* the pin
  sem_spi_tx, sem_spi_rx,
  tx_at, header_master,  \* bt_tx_thread: where it is, header_master[STATUS_HEADER_READY]
  main_at, main_event,   \* main: where it is in spi_send, and with which event
  spi_rx_queue, \* the events for main; 0 is too long, or of a type it does not know
  made,    \* how many events there were
  master,  \* the host: what it is doing
  wrote,   \* the commands it has written
  handled, \* history: those handed to bt_send, or dropped for want of a buffer
  seen,    \* history: the events the host has read
  faults   \* the faults still to come

txVars == <<tx_at, header_master>>
mainVars == <<main_at, main_event>>
spiVars == <<spi_irq, sem_spi_tx, sem_spi_rx, txVars, mainVars, spi_rx_queue, made, master,
             wrote, handled, seen, faults>>
hostVars == <<wrote, seen>>

(* header_master is a local variable that nothing initialises. *)
SpiInit ==
  /\ spi_irq = FALSE /\ sem_spi_tx = 0 /\ sem_spi_rx = 0
  /\ tx_at = "header" /\ header_master \in {"READ", "WRITE", "junk"}
  /\ main_at = "idle" /\ main_event = 0 /\ spi_rx_queue = <<1>> /\ made = 1
  /\ master = "idle" /\ wrote = 0 /\ handled = <<>> /\ seen = <<>> /\ faults = SPI_FAULTS

-----------------------------------------------------------------------------
(* main *)

ControllerReports ==
  /\ made < EVENTS /\ made' = made + 1
  /\ \E e \in {0, made'} : spi_rx_queue' = Append(spi_rx_queue, e)
  /\ UNCHANGED <<spi_irq, sem_spi_tx, sem_spi_rx, txVars, mainVars, master, hostVars, handled, faults>>

(* spi_send up to the semaphore; main is back at once with what it cannot send. *)
spi_send ==
  /\ main_at = "idle" /\ spi_rx_queue # <<>> /\ spi_rx_queue' = Tail(spi_rx_queue)
  /\ IF Head(spi_rx_queue) = 0 THEN UNCHANGED <<spi_irq, mainVars>>
     ELSE spi_irq' = TRUE /\ main_at' = "wait" /\ main_event' = Head(spi_rx_queue)
  /\ UNCHANGED <<sem_spi_tx, sem_spi_rx, txVars, made, master, hostVars, handled, faults>>

main_takes_bus_at_once ==
  /\ main_at = "wait"
  /\ sem_spi_tx' = 0 /\ main_at' = "header"
  /\ UNCHANGED <<spi_irq, sem_spi_rx, txVars, main_event, spi_rx_queue, made, master, hostVars, handled, faults>>

main_takes_bus ==
  /\ main_at = "wait" /\ sem_spi_tx = 1
  /\ sem_spi_tx' = 0 /\ main_at' = "header"
  /\ UNCHANGED <<spi_irq, sem_spi_rx, txVars, main_event, spi_rx_queue, made, master, hostVars, handled, faults>>

(* The end of spi_send, when spi_write has returned. *)
main_releases_bus ==
  /\ main_at = "release" /\ main_at' = "idle" /\ main_event' = 0
  /\ spi_irq' = FALSE /\ sem_spi_rx' = 1
  /\ UNCHANGED <<sem_spi_tx, txVars, spi_rx_queue, made, master, hostVars, handled, faults>>

-----------------------------------------------------------------------------
(* bt_tx_thread *)

tx_thread_resumes ==
  /\ tx_at = "wait" /\ sem_spi_rx = 1
  /\ sem_spi_rx' = 0 /\ tx_at' = "header"
  /\ UNCHANGED <<spi_irq, sem_spi_tx, header_master, mainVars, spi_rx_queue, made, master, hostVars, handled, faults>>

(* What bt_tx_thread does with the header it finds in header_master. *)
AfterHeader(h) ==
  /\ header_master' = h
  /\ tx_at' = CASE h = "READ" -> "wait" [] h = "WRITE" -> "data" [] OTHER -> "header"
  /\ sem_spi_tx' = IF h = "READ" THEN 1 ELSE sem_spi_tx

-----------------------------------------------------------------------------
(* The host and the bus *)

HostReads ==
  /\ master = "idle" /\ spi_irq /\ master' = "read"
  /\ UNCHANGED <<spi_irq, sem_spi_tx, sem_spi_rx, txVars, mainVars, spi_rx_queue, made, hostVars, handled, faults>>

HostWrites ==
  /\ master = "idle" /\ wrote < COMMANDS /\ master' = "write"
  /\ UNCHANGED <<spi_irq, sem_spi_tx, sem_spi_rx, txVars, mainVars, spi_rx_queue, made, hostVars, handled, faults>>

Says == IF master = "read" THEN "READ" ELSE "WRITE"

(* The five bytes at the beginning, with either thread: bt_tx_thread has     *)
(* nothing to read, main has its event's length.                           *)
HeaderToTxThread ==
  /\ tx_at = "header" /\ master \in {"read", "write"}
  /\ AfterHeader(Says)
  /\ master' = IF master = "write" THEN "writing" ELSE "read"
  /\ UNCHANGED <<spi_irq, sem_spi_rx, mainVars, spi_rx_queue, made, hostVars, handled, faults>>

HeaderToMain ==
  /\ main_at = "header" /\ master \in {"read", "write"}
  /\ main_at' = (IF master = "read" THEN "data" ELSE "header")
  /\ master' = IF master = "read" THEN "reading" ELSE "writing"
  /\ UNCHANGED <<spi_irq, sem_spi_tx, sem_spi_rx, txVars, main_event, spi_rx_queue, made, hostVars, handled, faults>>

(* bt_send, or no buffer *)
DataToTxThread ==
  /\ tx_at = "data" /\ master = "writing"
  /\ wrote' = wrote + 1 /\ handled' = Append(handled, wrote')
  /\ tx_at' = "header" /\ master' = "idle"
  /\ UNCHANGED <<spi_irq, sem_spi_tx, sem_spi_rx, header_master, mainVars, spi_rx_queue, made, seen, faults>>

DataFromMain ==
  /\ main_at = "data" /\ master = "reading"
  /\ seen' = Append(seen, main_event) /\ master' = "idle"
  /\ main_at' = "release"
  /\ UNCHANGED <<spi_irq, sem_spi_tx, sem_spi_rx, txVars, main_event, spi_rx_queue, made, wrote, handled, faults>>

(* The host is in a header and bt_tx_thread in the data, which then begin   *)
(* with no packet's type; or the other way round.                          *)
HeaderTakenForData ==
  /\ tx_at = "data" /\ master \in {"read", "write"}
  /\ tx_at' = "header"
  /\ UNCHANGED <<spi_irq, sem_spi_tx, sem_spi_rx, header_master, mainVars, spi_rx_queue, made, master, hostVars, handled, faults>>

DataTakenForHeader ==
  /\ master \in {"writing", "reading"}
  /\ \/ tx_at = "header" /\ AfterHeader("junk") /\ UNCHANGED mainVars
     \/ main_at = "header" /\ UNCHANGED <<mainVars, txVars, sem_spi_tx>>
  /\ wrote' = (IF master = "writing" THEN wrote + 1 ELSE wrote)
  /\ master' = "idle"
  /\ UNCHANGED <<spi_irq, sem_spi_rx, spi_rx_queue, made, seen, handled, faults>>

(* A transfer fails: the slave goes on with the header it had, or without  *)
(* the data; the host, which got none of it, begins again.                *)
TransferFails ==
  /\ faults > 0 /\ faults' = faults - 1
  /\ \/ /\ tx_at = "header" /\ AfterHeader(header_master)
        /\ UNCHANGED <<spi_irq, sem_spi_rx, mainVars>>
     \/ /\ tx_at = "data" /\ tx_at' = "header"
        /\ UNCHANGED <<spi_irq, sem_spi_tx, sem_spi_rx, header_master, mainVars>>
     \/ /\ main_at = "data" /\ main_at' = "release"
        /\ UNCHANGED <<spi_irq, sem_spi_tx, sem_spi_rx, main_event, txVars>>
  /\ wrote' = (IF master = "writing" THEN wrote + 1 ELSE wrote)
  /\ master' = (IF master \in {"writing", "reading"} THEN "idle" ELSE master)
  /\ UNCHANGED <<spi_rx_queue, made, seen, handled>>

SpiNext ==
  \/ ControllerReports \/ spi_send \/ main_takes_bus \/ main_releases_bus \/ tx_thread_resumes
  \/ HostReads \/ HostWrites
  \/ HeaderToTxThread \/ HeaderToMain \/ DataToTxThread \/ DataFromMain
  \/ HeaderTakenForData \/ DataTakenForHeader \/ TransferFails

-----------------------------------------------------------------------------
(* Properties *)

OnTheBus == {t \in {"tx", "main"} : IF t = "tx" THEN tx_at # "wait" ELSE main_at \in {"header", "data"}}

(* "Coordinate transfer lock with the spi rx thread": the two threads never *)
(* use the bus and the static buffers at once; and as long as no transfer   *)
(* fails every command of the host is handled and the host reads the events *)
(* in their order.  bt_tx_thread waits for an event that main has in hand;   *)
(* or, when the host has read once more between the event's last byte and    *)
(* the fall of the pin, for one that is still to come, to which it has given *)
(* the bus and which alone the host, still reading, waits for as well.       *)
BusHandover ==
  /\ OnTheBus # {"tx", "main"}
  /\ faults = SPI_FAULTS =>
       /\ handled = [k \in 1 .. wrote |-> k]
       /\ tx_at = "wait" /\ sem_spi_rx = 0 /\ main_at = "idle" =>
            master = "read" /\ sem_spi_tx = 1
       /\ \A j, k \in DOMAIN seen : j < k => seen[j] < seen[k]
=============================================================================
