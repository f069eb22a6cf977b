---------------------------- MODULE PacketProofs ----------------------------
(***************************************************************************)
(* Proofs about Bridges, for any number of events, commands and faults:     *)
(* the bus of hci_spi is handed over from thread to thread, as one token.  *)
(* And about Coap, for any number of clients, slots, blocks and datagrams:  *)
(* a client has one request or answer under way, and one slot at most.     *)
(***************************************************************************)
EXTENDS Bridges, Coap, TLAPS, FiniteSetTheorems, SequenceTheorems, WellFoundedInduction

-----------------------------------------------------------------------------
(* hci_spi: the invariant *)

Places ==
  /\ sem_spi_tx \in {0, 1} /\ sem_spi_rx \in {0, 1}
  /\ tx_at \in {"header", "wait", "data"} /\ header_master \in {"READ", "WRITE", "junk"}
  /\ main_at \in {"idle", "wait", "header", "data", "release"} /\ main_event \in Nat
  /\ master \in {"idle", "read", "write", "reading", "writing"}
  /\ faults \in 0 .. SPI_FAULTS

Messages ==
  /\ spi_rx_queue \in Seq(Nat) /\ made \in Nat
  /\ wrote \in Nat /\ handled \in Seq(Nat) /\ seen \in Seq(Nat)

TxOnBus == tx_at # "wait"
MainHasBus == main_at \in {"header", "data", "release"}

(* The bus is one token: it is with one of the threads, or in the semaphore  *)
(* one of them waits for.                                                  *)
OneToken ==
  /\ TxOnBus => ~ MainHasBus /\ sem_spi_tx = 0 /\ sem_spi_rx = 0
  /\ MainHasBus => sem_spi_tx = 0 /\ sem_spi_rx = 0
  /\ sem_spi_tx = 1 => sem_spi_rx = 0
  /\ TxOnBus \/ MainHasBus \/ sem_spi_tx = 1 \/ sem_spi_rx = 1

(* As long as no transfer failed, slave and host agree on what the next     *)
(* transfer is; main gets the bus only while the host reads.               *)
InPhase ==
  faults = SPI_FAULTS =>
    /\ master = "writing" <=> tx_at = "data"
    /\ master = "reading" <=> main_at = "data"
    /\ sem_spi_tx = 1 \/ main_at = "header" => master = "read"

(* main has an event in hand that the host has not read.                    *)
Sending == main_at \in {"wait", "header", "data"}

(* Events are read, sent and queued in the order in which they were made.   *)
EventsInOrder ==
  /\ Sending => main_event \in 1 .. made
  /\ \A j \in DOMAIN seen : seen[j] <= made /\ (Sending => seen[j] < main_event)
  /\ \A j, k \in DOMAIN seen : j < k => seen[j] < seen[k]
  /\ \A i \in DOMAIN spi_rx_queue : spi_rx_queue[i] # 0 =>
       /\ spi_rx_queue[i] <= made
       /\ Sending => main_event < spi_rx_queue[i]
       /\ \A j \in DOMAIN seen : seen[j] < spi_rx_queue[i]
       /\ \A k \in DOMAIN spi_rx_queue :
            i < k /\ spi_rx_queue[k] # 0 => spi_rx_queue[i] < spi_rx_queue[k]

Handled == faults = SPI_FAULTS => handled = [k \in 1 .. wrote |-> k]

SpiInv == Places /\ Messages /\ OneToken /\ InPhase /\ EventsInOrder /\ Handled

LEMMA SpiInitKeeps == SpiInit => SpiInv
<1> SUFFICES ASSUME SpiInit PROVE SpiInv
  OBVIOUS
<1>1. Places
  BY SpiAssumption DEF SpiInit, Places
<1>2. Messages
  <2>1. <<1>> \in Seq(Nat)
    OBVIOUS
  <2> QED BY <2>1 DEF SpiInit, Messages
<1>3. OneToken /\ InPhase
  BY DEF SpiInit, OneToken, InPhase, TxOnBus, MainHasBus
<1>4. EventsInOrder
  BY DEF SpiInit, EventsInOrder, Sending
<1>5. Handled
  BY DEF SpiInit, Handled
<1> QED BY <1>1, <1>2, <1>3, <1>4, <1>5 DEF SpiInv

(* The queues only grow at their end and shrink at their beginning.         *)
LEMMA MessagesKeep == SpiInv /\ SpiNext => Messages'
<1> SUFFICES ASSUME SpiInv, SpiNext PROVE Messages'
  OBVIOUS
<1>1. /\ spi_rx_queue \in Seq(Nat) /\ handled \in Seq(Nat) /\ seen \in Seq(Nat)
      /\ made \in Nat /\ wrote \in Nat /\ main_event \in Nat
  BY DEF SpiInv, Messages, Places
<1>2. \A s \in Seq(Nat) : \A e \in Nat : Append(s, e) \in Seq(Nat)
  BY AppendProperties
<1>3. CASE ControllerReports
  <2>1. PICK e \in {0, made'} : spi_rx_queue' = Append(spi_rx_queue, e)
    BY <1>3 DEF ControllerReports
  <2>2. made' \in Nat /\ e \in Nat /\ UNCHANGED <<wrote, handled, seen>>
    BY <1>1, <1>3 DEF ControllerReports, hostVars
  <2> QED BY ONLY <1>1, <1>2, <2>1, <2>2 DEF Messages
<1>4. CASE spi_send
  <2>1. spi_rx_queue' \in Seq(Nat)
    BY <1>1, <1>4, HeadTailProperties DEF spi_send
  <2>2. UNCHANGED <<made, wrote, handled, seen>>
    BY <1>4 DEF spi_send, hostVars
  <2> QED BY ONLY <1>1, <2>1, <2>2 DEF Messages
<1>5. CASE DataToTxThread
  <2>1. wrote' = wrote + 1 /\ handled' = Append(handled, wrote') /\ UNCHANGED <<spi_rx_queue, made, seen>>
    BY <1>5 DEF DataToTxThread
  <2>2. wrote' \in Nat
    BY <1>1, <2>1
  <2> QED BY ONLY <1>1, <1>2, <2>1, <2>2 DEF Messages
<1>6. CASE DataFromMain
  <2>1. seen' = Append(seen, main_event) /\ UNCHANGED <<spi_rx_queue, made, wrote, handled>>
    BY <1>6 DEF DataFromMain
  <2> QED BY ONLY <1>1, <1>2, <2>1 DEF Messages
<1>7. CASE DataTakenForHeader \/ TransferFails
  <2>1. UNCHANGED <<spi_rx_queue, made, handled, seen>>
    BY ONLY <1>7 DEF DataTakenForHeader, TransferFails
  <2>2. wrote' = wrote + 1 \/ wrote' = wrote
    BY ONLY <1>7 DEF DataTakenForHeader, TransferFails
  <2>3. wrote' \in Nat
    <3>1. wrote \in Nat
      BY <1>1
    <3> QED BY ONLY <2>2, <3>1
  <2> QED BY ONLY <1>1, <2>1, <2>3 DEF Messages
<1>8. CASE \/ main_takes_bus \/ main_releases_bus \/ tx_thread_resumes \/ HostReads \/ HostWrites
           \/ HeaderToTxThread \/ HeaderToMain \/ HeaderTakenForData
  <2>1. UNCHANGED <<spi_rx_queue, made, wrote, handled, seen>>
    BY <1>8 DEF main_takes_bus, main_releases_bus, tx_thread_resumes, HostReads, HostWrites,
                HeaderToTxThread, HeaderToMain, HeaderTakenForData, hostVars
  <2> QED BY ONLY <1>1, <2>1 DEF Messages
<1> QED BY <1>3, <1>4, <1>5, <1>6, <1>7, <1>8 DEF SpiNext

(* Where the threads and the host are.                                      *)
LEMMA PlacesKeep == SpiInv /\ SpiNext => Places'
<1> SUFFICES ASSUME SpiInv, SpiNext PROVE Places'
  OBVIOUS
<1> USE DEF SpiInv, Places, Messages, hostVars, txVars, mainVars
<1>1. CASE spi_send
  <2>1. spi_rx_queue # <<>> => Head(spi_rx_queue) \in Nat
    BY HeadTailProperties
  <2> QED BY <1>1, <2>1 DEF spi_send
<1>2. CASE main_takes_bus \/ main_releases_bus \/ tx_thread_resumes
  BY <1>2 DEF main_takes_bus, main_releases_bus, tx_thread_resumes
<1>3. CASE ControllerReports \/ HostReads \/ HostWrites
  BY <1>3 DEF ControllerReports, HostReads, HostWrites
<1>4. ASSUME NEW h \in {"READ", "WRITE", "junk"}, AfterHeader(h)
      PROVE  /\ tx_at' \in {"header", "wait", "data"} /\ header_master' = h
             /\ sem_spi_tx' \in {0, 1}
  BY <1>4 DEF AfterHeader
<1>5. CASE HeaderToTxThread
  BY <1>4, <1>5 DEF HeaderToTxThread, Says
<1>6. CASE HeaderToMain
  BY <1>6 DEF HeaderToMain
<1>7. CASE DataToTxThread \/ HeaderTakenForData
  BY <1>7 DEF DataToTxThread, HeaderTakenForData
<1>8. CASE DataFromMain
  BY <1>8 DEF DataFromMain
<1>9. CASE DataTakenForHeader
  BY <1>4, <1>9 DEF DataTakenForHeader
<1>10. CASE TransferFails
  <2>1. /\ header_master \in {"READ", "WRITE", "junk"} /\ tx_at \in {"header", "wait", "data"}
        /\ main_at \in {"idle", "wait", "header", "data", "release"} /\ main_event \in Nat
        /\ sem_spi_tx \in {0, 1} /\ sem_spi_rx \in {0, 1} /\ faults \in 0 .. SPI_FAULTS
    OBVIOUS
  <2>2. faults' \in 0 .. SPI_FAULTS
    <3>1. faults > 0 /\ faults' = faults - 1
      BY ONLY <1>10 DEF TransferFails
    <3> QED BY ONLY <2>1, <3>1, SpiAssumption
  <2>3. master' \in {"idle", "read", "write", "reading", "writing"}
    BY <1>10 DEF TransferFails
  <2>4. CASE tx_at = "header" /\ AfterHeader(header_master) /\ UNCHANGED <<spi_irq, sem_spi_rx, mainVars>>
    BY <1>4, <2>1, <2>2, <2>3, <2>4
  <2>5. CASE tx_at' = "header" /\ UNCHANGED <<spi_irq, sem_spi_tx, sem_spi_rx, header_master, mainVars>>
    BY <2>1, <2>2, <2>3, <2>5
  <2>6. CASE main_at' = "release" /\ UNCHANGED <<spi_irq, sem_spi_tx, sem_spi_rx, main_event, txVars>>
    BY <2>1, <2>2, <2>3, <2>6
  <2> QED BY ONLY <1>10, <2>4, <2>5, <2>6 DEF TransferFails
<1> QED BY <1>1, <1>2, <1>3, <1>5, <1>6, <1>7, <1>8, <1>9, <1>10 DEF SpiNext

(* One takes the token only where the other has put it.                     *)
LEMMA TokenKeeps == SpiInv /\ SpiNext => OneToken'
<1> SUFFICES ASSUME SpiInv, SpiNext PROVE OneToken'
  OBVIOUS
<1>0. /\ sem_spi_tx \in {0, 1} /\ sem_spi_rx \in {0, 1} /\ tx_at \in {"header", "wait", "data"}
      /\ main_at \in {"idle", "wait", "header", "data", "release"} /\ OneToken
  BY DEF SpiInv, Places
<1> USE DEF OneToken, TxOnBus, MainHasBus, hostVars, txVars, mainVars
<1>1. CASE ControllerReports
  BY ONLY <1>0, <1>1 DEF ControllerReports
<1>2. CASE spi_send
  BY ONLY <1>0, <1>2 DEF spi_send
<1>3. CASE main_takes_bus
  BY ONLY <1>0, <1>3 DEF main_takes_bus
<1>4. CASE tx_thread_resumes
  BY ONLY <1>0, <1>4 DEF tx_thread_resumes
<1>5. CASE HostReads
  BY ONLY <1>0, <1>5 DEF HostReads
<1>6. CASE HostWrites
  BY ONLY <1>0, <1>6 DEF HostWrites
<1>7. CASE HeaderToTxThread
  BY ONLY <1>0, <1>7 DEF HeaderToTxThread, AfterHeader, Says
<1>8. CASE HeaderToMain
  BY ONLY <1>0, <1>8 DEF HeaderToMain
<1>9. CASE DataToTxThread
  BY ONLY <1>0, <1>9 DEF DataToTxThread
<1>10. CASE DataFromMain
  BY ONLY <1>0, <1>10 DEF DataFromMain
<1>11. CASE HeaderTakenForData
  BY ONLY <1>0, <1>11 DEF HeaderTakenForData
<1>12. CASE DataTakenForHeader
  BY ONLY <1>0, <1>12 DEF DataTakenForHeader, AfterHeader
<1>13. CASE TransferFails
  BY ONLY <1>0, <1>13 DEF TransferFails, AfterHeader
<1>14. CASE main_releases_bus
  BY ONLY <1>0, <1>14 DEF main_releases_bus
<1> QED BY <1>1, <1>2, <1>3, <1>4, <1>5, <1>6, <1>7, <1>8, <1>9, <1>10, <1>11, <1>12, <1>13, <1>14 DEF SpiNext

(* Without a fault the two sides agree: the host reads for as long as main  *)
(* has, or may take, the token.                                            *)
LEMMA PhaseKeeps == SpiInv /\ SpiNext => InPhase'
<1> SUFFICES ASSUME SpiInv, SpiNext PROVE InPhase'
  OBVIOUS
<1>0. /\ sem_spi_tx \in {0, 1} /\ sem_spi_rx \in {0, 1} /\ tx_at \in {"header", "wait", "data"}
      /\ main_at \in {"idle", "wait", "header", "data", "release"} /\ OneToken /\ InPhase
      /\ master \in {"idle", "read", "write", "reading", "writing"}
  BY DEF SpiInv, Places
<1> USE DEF OneToken, InPhase, TxOnBus, MainHasBus, hostVars, txVars, mainVars
<1>1. CASE ControllerReports
  BY ONLY <1>0, <1>1 DEF ControllerReports
<1>2. CASE spi_send
  BY ONLY <1>0, <1>2 DEF spi_send
<1>3. CASE main_takes_bus
  BY ONLY <1>0, <1>3 DEF main_takes_bus
<1>4. CASE tx_thread_resumes
  BY ONLY <1>0, <1>4 DEF tx_thread_resumes
<1>5. CASE HostReads
  BY ONLY <1>0, <1>5 DEF HostReads
<1>6. CASE HostWrites
  BY ONLY <1>0, <1>6 DEF HostWrites
<1>7. CASE HeaderToTxThread
  BY ONLY <1>0, <1>7 DEF HeaderToTxThread, AfterHeader, Says
<1>8. CASE HeaderToMain
  BY ONLY <1>0, <1>8 DEF HeaderToMain
<1>9. CASE DataToTxThread
  BY ONLY <1>0, <1>9 DEF DataToTxThread
<1>10. CASE DataFromMain
  BY ONLY <1>0, <1>10 DEF DataFromMain
<1>11. CASE HeaderTakenForData
  BY ONLY <1>0, <1>11 DEF HeaderTakenForData
<1>12. CASE DataTakenForHeader
  BY ONLY <1>0, <1>12 DEF DataTakenForHeader, AfterHeader
<1>13. CASE TransferFails
  <2>1. faults' # SPI_FAULTS
    <3>1. faults \in 0 .. SPI_FAULTS
      BY DEF SpiInv, Places
    <3>2. faults > 0 /\ faults' = faults - 1
      BY ONLY <1>13 DEF TransferFails
    <3> QED BY ONLY <3>1, <3>2, SpiAssumption
  <2> QED BY ONLY <2>1
<1>14. CASE main_releases_bus
  BY ONLY <1>0, <1>14 DEF main_releases_bus
<1> QED BY <1>1, <1>2, <1>3, <1>4, <1>5, <1>6, <1>7, <1>8, <1>9, <1>10, <1>11, <1>12, <1>13, <1>14 DEF SpiNext

(* An event is numbered above all before it, goes to the end of the queue,  *)
(* and is taken from its front only when main has sent the last.           *)
LEMMA OrderKeeps == SpiInv /\ SpiNext => EventsInOrder'
<1> SUFFICES ASSUME SpiInv, SpiNext PROVE EventsInOrder'
  OBVIOUS
<1>0. /\ spi_rx_queue \in Seq(Nat) /\ seen \in Seq(Nat) /\ made \in Nat /\ main_event \in Nat
      /\ EventsInOrder
  BY DEF SpiInv, Messages, Places
<1>1. CASE ControllerReports
  <2>1. PICK e \in {0, made + 1} : spi_rx_queue' = Append(spi_rx_queue, e)
    BY <1>1 DEF ControllerReports
  <2>2. made' = made + 1 /\ UNCHANGED <<main_at, main_event, seen>>
    BY <1>1 DEF ControllerReports, hostVars, mainVars
  <2>10. Sending' = Sending
    BY <2>2 DEF Sending
  <2> DEFINE q == spi_rx_queue
             q1 == spi_rx_queue'
  <2>3. \A i \in DOMAIN q1 : (i \in DOMAIN q /\ q1[i] = q[i]) \/ (i = Len(q) + 1 /\ q1[i] = e)
    <3>1. e \in Nat
      BY <1>0
    <3> QED BY <1>0, <2>1, <3>1, AppendProperties
  <2>4. DOMAIN q = 1 .. Len(q) /\ Len(q) \in Nat /\ \A i \in DOMAIN q : q[i] \in Nat
    BY <1>0
  <2>5. DOMAIN q1 \subseteq Nat
    BY <2>3, <2>4
  <2>6. \A j \in DOMAIN seen : seen[j] \in Nat
    BY <1>0
  <2>7. ASSUME NEW i \in DOMAIN q1, q1[i] # 0
        PROVE  /\ q1[i] <= made'
               /\ Sending => main_event < q1[i]
               /\ \A j \in DOMAIN seen : seen[j] < q1[i]
               /\ \A k \in DOMAIN q1 : i < k /\ q1[k] # 0 => q1[i] < q1[k]
    <3> HIDE DEF q, q1
    <3>0. /\ Sending => main_event <= made
          /\ \A j \in DOMAIN seen : seen[j] <= made
          /\ \A n \in DOMAIN q : q[n] # 0 =>
               /\ q[n] <= made
               /\ Sending => main_event < q[n]
               /\ \A j \in DOMAIN seen : seen[j] < q[n]
               /\ \A k \in DOMAIN q : n < k /\ q[k] # 0 => q[n] < q[k]
      BY ONLY <1>0 DEF EventsInOrder, q
    <3>1. CASE i \in DOMAIN q /\ q1[i] = q[i]
      <4>1. q[i] <= made /\ q[i] \in Nat /\ q[i] # 0
        BY ONLY <2>4, <2>7, <3>0, <3>1
      <4>2. /\ Sending => main_event < q1[i]
            /\ \A j \in DOMAIN seen : seen[j] < q1[i]
        BY ONLY <3>0, <3>1, <4>1
      <4>3. ASSUME NEW k \in DOMAIN q1, i < k, q1[k] # 0 PROVE q1[i] < q1[k]
        <5>1. CASE k \in DOMAIN q /\ q1[k] = q[k]
          BY ONLY <3>0, <3>1, <4>1, <4>3, <5>1
        <5>2. CASE q1[k] = e
          <6>1. e = made + 1
            BY <4>3, <5>2
          <6> QED BY ONLY <1>0, <3>1, <4>1, <5>2, <6>1
        <5> QED BY <2>3, <5>1, <5>2
      <4>4. q1[i] <= made'
        BY ONLY <1>0, <2>2, <3>1, <4>1
      <4> QED BY <4>2, <4>3, <4>4
    <3>2. CASE i = Len(q) + 1 /\ q1[i] = e
      <4>1. q1[i] = made + 1
        BY <2>7, <3>2
      <4>2. \A k \in DOMAIN q1 : ~ (i < k)
        BY ONLY <2>3, <2>4, <3>2
      <4> QED BY ONLY <1>0, <2>2, <2>6, <3>0, <4>1, <4>2
    <3> QED BY <2>3, <2>7, <3>1, <3>2
  <2>8. \A j \in DOMAIN seen : seen[j] <= made + 1
    BY ONLY <1>0, <2>6 DEF EventsInOrder
  <2>9. Sending => main_event \in 1 .. made + 1
    BY ONLY <1>0 DEF EventsInOrder
  <2> QED BY ONLY <1>0, <2>2, <2>7, <2>8, <2>9, <2>10 DEF EventsInOrder
<1>2. CASE spi_send
  <2> DEFINE q == spi_rx_queue
             q1 == spi_rx_queue'
  <2>1. /\ ~ Sending /\ q # <<>> /\ q1 = Tail(q)
        /\ \/ Head(q) = 0 /\ ~ Sending'
           \/ Head(q) # 0 /\ main_event' = Head(q)
        /\ UNCHANGED <<made, seen>>
    BY <1>2 DEF spi_send, hostVars, mainVars, Sending
  <2>2. /\ Len(q) \in Nat /\ Len(q) > 0 /\ DOMAIN q = 1 .. Len(q) /\ Head(q) = q[1]
        /\ DOMAIN q1 = 1 .. Len(q) - 1 /\ \A i \in DOMAIN q1 : q1[i] = q[i + 1]
    <3>1. Len(q1) = Len(q) - 1 /\ q1 \in Seq(Nat) /\ \A i \in 1 .. Len(q1) : q1[i] = q[i + 1]
      BY <1>0, <2>1, HeadTailProperties
    <3>2. Len(q) \in Nat /\ Len(q) > 0 /\ DOMAIN q = 1 .. Len(q) /\ Head(q) = q[1]
      BY <1>0, <2>1, EmptySeq
    <3> QED BY <3>1, <3>2
  <2> HIDE DEF q, q1
  <2>3. \A i \in DOMAIN q1 : i + 1 \in DOMAIN q /\ q1[i] = q[i + 1] /\ i \in Nat /\ 1 < i + 1
    BY ONLY <2>2
  <2>4. 1 \in DOMAIN q /\ Head(q) = q[1]
    BY ONLY <2>2
  <2>5. \A n \in DOMAIN q : q[n] # 0 =>
          /\ q[n] <= made
          /\ \A j \in DOMAIN seen : seen[j] < q[n]
          /\ \A k \in DOMAIN q : n < k /\ q[k] # 0 => q[n] < q[k]
    BY ONLY <1>0 DEF EventsInOrder, q
  <2>6. \A n \in DOMAIN q : q[n] \in Nat
    BY <1>0 DEF q
  <2>7. ASSUME NEW i \in DOMAIN q1, q1[i] # 0
        PROVE  /\ q1[i] <= made'
               /\ Sending' => main_event' < q1[i]
               /\ \A j \in DOMAIN seen' : seen'[j] < q1[i]
               /\ \A k \in DOMAIN q1 : i < k /\ q1[k] # 0 => q1[i] < q1[k]
    <3>1. i + 1 \in DOMAIN q /\ q1[i] = q[i + 1] /\ q[i + 1] # 0 /\ i \in Nat /\ 1 < i + 1
      BY ONLY <2>3, <2>7
    <3>2. q1[i] <= made' /\ \A j \in DOMAIN seen' : seen'[j] < q1[i]
      BY ONLY <2>1, <2>5, <3>1
    <3>3. Sending' => main_event' < q1[i]
      <4>1. CASE Head(q) = 0
        BY ONLY <2>1, <4>1
      <4>2. CASE Head(q) # 0
        BY ONLY <2>1, <2>4, <2>5, <3>1, <4>2
      <4> QED BY <4>1, <4>2
    <3>4. ASSUME NEW k \in DOMAIN q1, i < k, q1[k] # 0 PROVE q1[i] < q1[k]
      <4>1. k + 1 \in DOMAIN q /\ q1[k] = q[k + 1] /\ k \in Nat /\ i + 1 < k + 1
        BY ONLY <2>3, <3>1, <3>4
      <4> QED BY ONLY <2>5, <3>1, <3>4, <4>1
    <3> QED BY <3>2, <3>3, <3>4
  <2>8. Sending' => main_event' \in 1 .. made' /\ \A j \in DOMAIN seen : seen[j] < main_event'
    <3>1. CASE Head(q) = 0
      BY ONLY <2>1, <3>1
    <3>2. CASE Head(q) # 0
      <4>1. q[1] \in Nat /\ q[1] # 0 /\ q[1] <= made /\ \A j \in DOMAIN seen : seen[j] < q[1]
        BY ONLY <2>4, <2>5, <2>6, <3>2
      <4> QED BY ONLY <1>0, <2>1, <2>4, <3>2, <4>1
    <3> QED BY <3>1, <3>2
  <2>9. \A i \in DOMAIN spi_rx_queue' : spi_rx_queue'[i] # 0 =>
          /\ spi_rx_queue'[i] <= made'
          /\ Sending' => main_event' < spi_rx_queue'[i]
          /\ \A j \in DOMAIN seen' : seen'[j] < spi_rx_queue'[i]
          /\ \A k \in DOMAIN spi_rx_queue' :
               i < k /\ spi_rx_queue'[k] # 0 => spi_rx_queue'[i] < spi_rx_queue'[k]
    BY ONLY <2>7 DEF q1
  <2> QED BY ONLY <1>0, <2>1, <2>8, <2>9 DEF EventsInOrder
<1>3. CASE DataFromMain
  <2> DEFINE s1 == seen'
  <2>1. /\ Sending /\ s1 = Append(seen, main_event) /\ ~ Sending'
        /\ UNCHANGED <<spi_rx_queue, made>>
    BY <1>3 DEF DataFromMain, Sending
  <2>2. \A j \in DOMAIN s1 : \/ j \in DOMAIN seen /\ s1[j] = seen[j]
                             \/ j = Len(seen) + 1 /\ s1[j] = main_event
    BY <1>0, <2>1, AppendProperties
  <2>3. DOMAIN seen = 1 .. Len(seen) /\ Len(seen) \in Nat /\ \A j \in DOMAIN seen : seen[j] \in Nat
    BY <1>0
  <2> HIDE DEF s1
  <2>4. /\ main_event \in 1 .. made
        /\ \A j \in DOMAIN seen : seen[j] <= made /\ seen[j] < main_event
        /\ \A j, k \in DOMAIN seen : j < k => seen[j] < seen[k]
    BY ONLY <1>0, <2>1 DEF EventsInOrder
  <2>5. \A j \in DOMAIN s1 : s1[j] <= made
    BY ONLY <1>0, <2>2, <2>4
  <2>6. ASSUME NEW j \in DOMAIN s1, NEW k \in DOMAIN s1, j < k PROVE s1[j] < s1[k]
    <3>1. j \in DOMAIN seen /\ s1[j] = seen[j]
      BY ONLY <2>2, <2>3, <2>6
    <3> QED BY ONLY <2>2, <2>4, <2>6, <3>1
  <2>7. ASSUME NEW i \in DOMAIN spi_rx_queue, spi_rx_queue[i] # 0
        PROVE  \A j \in DOMAIN s1 : s1[j] < spi_rx_queue[i]
    BY ONLY <1>0, <2>1, <2>2, <2>7 DEF EventsInOrder
  <2>8. /\ \A j \in DOMAIN seen' : seen'[j] <= made
        /\ \A j, k \in DOMAIN seen' : j < k => seen'[j] < seen'[k]
        /\ \A i \in DOMAIN spi_rx_queue : spi_rx_queue[i] # 0 =>
             \A j \in DOMAIN seen' : seen'[j] < spi_rx_queue[i]
    BY ONLY <2>5, <2>6, <2>7 DEF s1
  <2> QED BY ONLY <1>0, <2>1, <2>8 DEF EventsInOrder
<1>4. CASE TransferFails
  <2>1. UNCHANGED <<spi_rx_queue, made, seen>>
    BY ONLY <1>4 DEF TransferFails
  <2>2. ~ Sending' \/ UNCHANGED <<Sending, main_event>>
    BY ONLY <1>4 DEF TransferFails, mainVars, Sending
  <2> QED BY ONLY <1>0, <2>1, <2>2 DEF EventsInOrder
<1>5. CASE \/ main_takes_bus \/ main_releases_bus \/ tx_thread_resumes \/ HostReads \/ HostWrites \/ HeaderToTxThread
           \/ HeaderToMain \/ DataToTxThread \/ HeaderTakenForData \/ DataTakenForHeader
  <2>1. UNCHANGED <<spi_rx_queue, made, seen>>
    BY ONLY <1>5 DEF main_takes_bus, main_releases_bus, tx_thread_resumes, HostReads, HostWrites, HeaderToTxThread, HeaderToMain,
                DataToTxThread, HeaderTakenForData, DataTakenForHeader, hostVars, mainVars
  <2>2. Sending' => Sending /\ UNCHANGED main_event
    BY ONLY <1>5 DEF main_takes_bus, main_releases_bus, tx_thread_resumes, HostReads, HostWrites, HeaderToTxThread, HeaderToMain,
                DataToTxThread, HeaderTakenForData, DataTakenForHeader, hostVars, mainVars, Sending
  <2> QED BY ONLY <1>0, <2>1, <2>2 DEF EventsInOrder
<1> QED BY <1>1, <1>2, <1>3, <1>4, <1>5 DEF SpiNext

(* The next command goes to the end of those handled.                       *)
LEMMA HandledKeeps == SpiInv /\ SpiNext => Handled'
<1> SUFFICES ASSUME SpiInv, SpiNext, faults' = SPI_FAULTS
             PROVE  handled' = [k \in 1 .. wrote' |-> k]
  BY DEF Handled
<1>0. faults \in 0 .. SPI_FAULTS /\ wrote \in Nat /\ handled \in Seq(Nat) /\ OneToken /\ InPhase
  BY DEF SpiInv, Places, Messages
<1>1. faults = SPI_FAULTS /\ ~ TransferFails
  <2>1. CASE TransferFails
    <3>1. faults > 0 /\ faults' = faults - 1
      BY ONLY <2>1 DEF TransferFails
    <3> QED BY ONLY <1>0, <3>1, SpiAssumption, faults' = SPI_FAULTS
  <2>2. CASE ~ TransferFails
    <3>1. faults' = faults
      BY <2>2 DEF SpiNext, ControllerReports, spi_send, main_takes_bus, main_releases_bus, tx_thread_resumes, HostReads,
                  HostWrites, HeaderToTxThread, HeaderToMain, DataToTxThread, DataFromMain,
                  HeaderTakenForData, DataTakenForHeader
    <3> QED BY <2>2, <3>1
  <2> QED BY <2>1, <2>2
<1>2. handled = [k \in 1 .. wrote |-> k]
  BY <1>1 DEF SpiInv, Handled
<1>3. CASE DataToTxThread
  <2>1. wrote' = wrote + 1 /\ handled' = Append(handled, wrote + 1)
    BY <1>3 DEF DataToTxThread
  <2>2. Len(handled) = wrote
    BY <1>0, <1>2
  <2>3. /\ handled' \in Seq(Nat) /\ Len(handled') = wrote + 1
        /\ \A k \in 1 .. wrote : handled'[k] = handled[k]
        /\ handled'[wrote + 1] = wrote + 1
    <3>1. wrote + 1 \in Nat
      BY <1>0
    <3> QED BY <1>0, <2>1, <2>2, <3>1, AppendProperties
  <2>4. DOMAIN handled' = 1 .. wrote + 1
    BY <2>3
  <2>5. \A k \in 1 .. wrote + 1 : handled'[k] = k
    BY <1>0, <1>2, <2>3
  <2>6. handled' = [k \in DOMAIN handled' |-> handled'[k]]
    BY <2>3
  <2> QED BY <2>1, <2>4, <2>5, <2>6
<1>4. CASE DataTakenForHeader
  <2>1. master # "writing"
    BY ONLY <1>0, <1>1, <1>4 DEF DataTakenForHeader, InPhase, OneToken, TxOnBus, MainHasBus
  <2>2. wrote' = wrote /\ handled' = handled
    BY ONLY <1>4, <2>1 DEF DataTakenForHeader
  <2> QED BY <1>2, <2>2
<1>5. CASE ~ DataToTxThread /\ ~ DataTakenForHeader
  <2>1. wrote' = wrote /\ handled' = handled
    BY <1>1, <1>5 DEF SpiNext, ControllerReports, spi_send, main_takes_bus, main_releases_bus, tx_thread_resumes, HostReads,
                HostWrites, HeaderToTxThread, HeaderToMain, DataFromMain, HeaderTakenForData, hostVars
  <2> QED BY <1>2, <2>1
<1> QED BY <1>3, <1>4, <1>5

(* What the invariant says of the bus, and of a thread that waits for it.   *)
LEMMA InvariantHandsOver == SpiInv => BusHandover
<1> SUFFICES ASSUME SpiInv PROVE BusHandover
  OBVIOUS
<1>0. OneToken /\ InPhase
  BY DEF SpiInv
<1>1. OnTheBus # {"tx", "main"}
  <2>1. ~ ("tx" \in OnTheBus /\ "main" \in OnTheBus)
    BY <1>0 DEF OnTheBus, OneToken, TxOnBus, MainHasBus
  <2> QED BY <2>1
<1>2. faults = SPI_FAULTS =>
        (tx_at = "wait" /\ sem_spi_rx = 0 /\ main_at = "idle" => master = "read" /\ sem_spi_tx = 1)
  BY ONLY <1>0 DEF InPhase, OneToken, TxOnBus, MainHasBus
<1>3. \A j, k \in DOMAIN seen : j < k => seen[j] < seen[k]
  BY DEF SpiInv, EventsInOrder
<1>4. faults = SPI_FAULTS => handled = [k \in 1 .. wrote |-> k]
  BY DEF SpiInv, Handled
<1> QED BY <1>1, <1>2, <1>3, <1>4 DEF BusHandover

LEMMA SpiUnchanged == SpiInv /\ UNCHANGED spiVars => SpiInv'
BY DEF SpiInv, Places, Messages, OneToken, InPhase, EventsInOrder, Handled, TxOnBus, MainHasBus, Sending,
       spiVars, txVars, mainVars

LEMMA SpiKeeps == SpiInv /\ SpiNext => SpiInv'
BY MessagesKeep, PlacesKeep, TokenKeeps, PhaseKeeps, OrderKeeps, HandledKeeps DEF SpiInv

-----------------------------------------------------------------------------
(* The samples together: the other programs leave the SPI bus alone.        *)

LEMMA StepKeepsBus == SpiInv /\ [Next]_vars => SpiInv'
<1> SUFFICES ASSUME SpiInv, [Next]_vars PROVE SpiInv'
  OBVIOUS
<1>1. CASE SpiNext
  BY <1>1, SpiKeeps
<1>2. CASE UNCHANGED spiVars
  BY <1>2, SpiUnchanged
<1>3. SpiNext \/ UNCHANGED spiVars
  <2>1. CASE UNCHANGED vars
    BY ONLY <2>1 DEF vars
  <2>2. CASE Next
    BY ONLY <2>2 DEF Next, Hci, Spi, Radio, Desk, Sound
  <2> QED BY <2>1, <2>2
<1> QED BY <1>1, <1>2, <1>3

(* BusHandover of any number of events and commands, with any number of     *)
(* failing transfers: spi_send and bt_tx_thread of hci_spi never use the bus *)
(* and its static buffers at once; and until a transfer fails every command  *)
(* is handled once and in order, the host reads the events in the order they *)
(* were made, and bt_tx_thread waits for a main that has nothing to send only *)
(* when the host has begun to read again before the pin fell, and the bus is *)
(* then main's for the next event.                                         *)
THEOREM BusIsHandedOver == Spec => []BusHandover
<1>1. Init => SpiInv
  BY SpiInitKeeps DEF Init
<1>2. SpiInv /\ [Next]_vars => SpiInv'
  BY StepKeepsBus
<1>3. SpiInv => BusHandover
  BY InvariantHandsOver
<1> QED BY <1>1, <1>2, <1>3, PTL DEF Spec

-----------------------------------------------------------------------------
(* coap_client and coap_server *)

(* Datagrams under way to and from a client.                                *)
In(c) == {d \in net : d.to = c}
Out(c) == {d \in net : d.to = "server" /\ d.from = c}

Obs(c) == Datagram(c, "CON", "observe", "obs", None, FALSE, FALSE, 0)
Rst(c) == Datagram(c, "RST", "none", "none", None, FALSE, FALSE, 0)
IsAck(d, c) == \E id : d = Ack(c, id)

On(o) == \E i \in DOMAIN list : list[i] = o
Fetching(c) == phase[c] \notin {"obs", "done"}

(* The tables of the server: no slot is on the list twice, and none that is  *)
(* unused; the one that is being registered is not on it yet.                *)
ServerTables ==
  /\ observers \in [Slot -> Host \cup {None}] /\ list \in Seq(Slot)
  /\ \A i, j \in DOMAIN list : list[i] = list[j] => i = j
  /\ \A i \in DOMAIN list : observers[list[i]] # None
  /\ main.pc \in {"recv", "ack", "remove", "register", "reply"}
  /\ main.pc = "recv" => main = Receiving
  /\ main.pc = "reply" => main.m.from \in Host
  /\ main.pc = "register" =>
       main.o \in Slot /\ ~ On(main.o) /\ observers[main.o] = main.m.from /\ main.m.from \in Host
  /\ \A d \in net : d.to = "server" => d.from \in Client

(* The blocks a client has.                                                 *)
Blocks(c) ==
  /\ phase[c] \in Simples \cup {"large", "obs", "done"} /\ sent[c] \in BOOLEAN
  /\ phase[c] \in Simples => blk_ctx[c] = 0 /\ got[c] = {}
  /\ phase[c] = "large" => blk_ctx[c] \in 0 .. BLOCKS - 1 /\ got[c] = 0 .. blk_ctx[c] - 1
  /\ phase[c] \in {"obs", "done"} => got[c] = 0 .. BLOCKS - 1

(* Until it observes, a client has one request or the answer to it under way *)
(* at most, so that what it takes for the answer is the answer.             *)
OneAtATime(c) ==
  Fetching(c) =>
    /\ ~ sent[c] => Out(c) = {} /\ In(c) = {}
    /\ Out(c) \subseteq {NextRequest(c)} /\ (Out(c) = {} \/ In(c) = {})
    /\ \A d, e \in In(c) : d = e
    /\ phase[c] = "large" => \A d \in In(c) : d.block = blk_ctx[c] /\ (d.more <=> blk_ctx[c] < BLOCKS - 1)

(* Until its request to observe is handled a client has no slot and is told  *)
(* nothing; it has one then, which is registered before it is told anything. *)
NotYet(c) == Fetching(c) \/ (phase[c] = "obs" /\ (~ sent[c] \/ Obs(c) \in net))

Observing(c) ==
  /\ NotYet(c) => /\ \A o \in Slot : observers[o] # c
                  /\ ~ (main.pc \in {"register", "reply"} /\ main.m.from = c)
  /\ \A o, p \in Slot : observers[o] = c /\ observers[p] = c => o = p
  /\ phase[c] = "obs" => /\ ~ sent[c] => Out(c) = {} /\ In(c) = {}
                         /\ Obs(c) \in net => In(c) = {}
                         /\ \A d \in Out(c) : d = Obs(c) \/ IsAck(d, c)
  /\ main.pc = "register" /\ main.m.from = c =>
       phase[c] = "obs" /\ sent[c] /\ Obs(c) \notin net /\ In(c) = {}

(* A client that is done is off the list, or its RESET is on its way.        *)
Unregistering(c) ==
  phase[c] = "done" =>
    /\ \A d \in Out(c) : d = Rst(c) \/ IsAck(d, c)
    /\ \/ lossy \/ c \in dropped \/ Rst(c) \in net
       \/ main.pc = "remove" /\ main.o \in Slot /\ observers[main.o] = c
       \/ \A o \in Slot : On(o) => observers[o] # c

CoapInv ==
  ServerTables /\ \A c \in Client : Blocks(c) /\ OneAtATime(c) /\ Observing(c) /\ Unregistering(c)
LEMMA MinIsIn ==
  ASSUME NEW S, S \subseteq Nat, S # {}
  PROVE  Min(S) \in S
<1>1. PICK x \in S : \A y \in S : ~ (<<y, x>> \in OpToRel(<, Nat))
  BY NatLessThanWellFounded, WFMin
<1>2. \A y \in S : x =< y
  <2> SUFFICES ASSUME NEW y \in S PROVE x =< y
    OBVIOUS
  <2>1. x \in Nat /\ y \in Nat
    OBVIOUS
  <2>2. ~ (y < x)
    BY <1>1, <2>1 DEF OpToRel
  <2> QED BY <2>1, <2>2
<1>3. \E z \in S : \A y \in S : z =< y
  BY <1>2
<1> QED BY <1>3 DEF Min


(* What is under way after something was sent.                              *)
LEMMA SendEffect ==
  ASSUME NEW ds, NEW ms, Send(ds, ms)
  PROVE  /\ ds \subseteq net' /\ net' \subseteq ds \cup ms /\ (lossy => lossy')
         /\ \A m \in ms : m.to \in Listening => m \in net' \/ lossy'
<1> DEFINE heard == {m \in ms : m.to \in Listening}
<1>1. net' = IF Fits(ds, heard) THEN ds \cup heard ELSE ds
  BY Zenon DEF Send
<1>2. lossy' = (lossy \/ ~ Fits(ds, heard))
  BY Zenon DEF Send
<1>3. (lossy => lossy') /\ (~ Fits(ds, heard) => lossy')
  BY <1>2, Zenon
<1>4. CASE Fits(ds, heard)
  BY <1>1, <1>3, <1>4
<1>5. CASE ~ Fits(ds, heard)
  BY <1>1, <1>3, <1>5
<1> QED BY <1>4, <1>5

LEMMA Names ==
  ASSUME NEW c \in Client
  PROVE  /\ c # "server" /\ c # None /\ c # Stranger /\ c \in Host /\ "server" \notin Host /\ None \notin Host
         /\ \A d : (d.to = "server") => d \notin In(c)
BY CoapAssumption DEF Host, In

LEMMA Parts ==
  ASSUME CoapInv, NEW c \in Client
  PROVE  ServerTables /\ Blocks(c) /\ OneAtATime(c) /\ Observing(c) /\ Unregistering(c)
BY DEF CoapInv

(* A step that a client c takes no notice of: it may lose what concerns c,   *)
(* but a RESET only for a reason.                                           *)
KeepsClient(c) ==
  phase'[c] = phase[c] /\ sent'[c] = sent[c] /\ blk_ctx'[c] = blk_ctx[c] /\ got'[c] = got[c]

KeepsMail(c) ==
  /\ In(c)' \subseteq In(c) /\ Out(c)' \subseteq Out(c) /\ (lossy => lossy') /\ dropped \subseteq dropped'
  /\ (Rst(c) \in net) => (Rst(c) \in net' \/ lossy' \/ c \in dropped')

KeepsPlace(c) ==
  /\ \A o \in Slot : (observers'[o] = c) => (observers[o] = c)
  /\ (main'.pc \in {"register", "reply"} /\ main'.m.from = c) =>
       (main.pc \in {"register", "reply"} /\ main.m.from = c)
  /\ (main'.pc = "register" /\ main'.m.from = c) => (main.pc = "register")
  /\ (main.pc = "remove" /\ main.o \in Slot /\ observers[main.o] = c) =>
       \/ main' = main /\ observers' = observers
       \/ \A o \in Slot : (observers'[o] = c) => ~ On(o)'
  /\ \A o \in Slot : (observers'[o] = c /\ On(o)') => On(o)

LEMMA OutFacts ==
  ASSUME NEW c \in Client
  PROVE  /\ (Obs(c) \in net) <=> (Obs(c) \in Out(c))
         /\ (Rst(c) \in net) <=> (Rst(c) \in Out(c))
         /\ (Obs(c) \in net') <=> (Obs(c) \in Out(c)')
         /\ (Rst(c) \in net') <=> (Rst(c) \in Out(c)')
BY DEF Out, Obs, Rst, Datagram

LEMMA Calm ==
  ASSUME CoapInv, NEW c \in Client, KeepsClient(c), KeepsMail(c), KeepsPlace(c)
  PROVE  Blocks(c)' /\ OneAtATime(c)' /\ Observing(c)' /\ Unregistering(c)'
<1>1. Blocks(c) /\ OneAtATime(c) /\ Observing(c) /\ Unregistering(c)
  BY Parts
<1>2. Blocks(c)'
  BY <1>1 DEF Blocks, KeepsClient
<1>3. OneAtATime(c)'
  <2>1. NextRequest(c)' = NextRequest(c)
    BY DEF NextRequest, KeepsClient
  <2>2. In(c)' \subseteq In(c) /\ Out(c)' \subseteq Out(c)
    BY DEF KeepsMail
  <2> QED BY <1>1, <2>1, <2>2 DEF OneAtATime, Fetching, KeepsClient
<1>4. In(c)' \subseteq In(c) /\ Out(c)' \subseteq Out(c) /\ ((Obs(c) \in net') => (Obs(c) \in net))
  BY OutFacts DEF KeepsMail
<1>5. NotYet(c)' => NotYet(c)
  BY <1>4 DEF NotYet, Fetching, KeepsClient
<1>6. Observing(c)'
  <2>1. NotYet(c)' => /\ \A o \in Slot : observers'[o] # c
                      /\ ~ (main'.pc \in {"register", "reply"} /\ main'.m.from = c)
    BY <1>1, <1>5 DEF Observing, KeepsPlace
  <2>2. \A o, p \in Slot : observers'[o] = c /\ observers'[p] = c => o = p
    BY <1>1 DEF Observing, KeepsPlace
  <2>3. phase'[c] = "obs" => /\ ~ sent'[c] => Out(c)' = {} /\ In(c)' = {}
                             /\ Obs(c) \in net' => In(c)' = {}
                             /\ \A d \in Out(c)' : d = Obs(c) \/ IsAck(d, c)
    BY <1>1, <1>4 DEF Observing, KeepsClient
  <2>4. main'.pc = "register" /\ main'.m.from = c =>
          phase'[c] = "obs" /\ sent'[c] /\ Obs(c) \notin net' /\ In(c)' = {}
    BY <1>1, <1>4 DEF Observing, KeepsPlace, KeepsClient
  <2> QED BY <2>1, <2>2, <2>3, <2>4 DEF Observing
<1>7. Unregistering(c)'
  <2> SUFFICES ASSUME phase'[c] = "done" PROVE Unregistering(c)'
    BY DEF Unregistering
  <2>1. phase[c] = "done"
    BY DEF KeepsClient
  <2>2. \A d \in Out(c)' : d = Rst(c) \/ IsAck(d, c)
    BY <1>1, <1>4, <2>1 DEF Unregistering
  <2>3. \/ lossy' \/ c \in dropped' \/ Rst(c) \in net'
        \/ main'.pc = "remove" /\ main'.o \in Slot /\ observers'[main'.o] = c
        \/ \A o \in Slot : On(o)' => observers'[o] # c
    <3>1. CASE lossy \/ c \in dropped \/ Rst(c) \in net
      BY <3>1 DEF KeepsMail
    <3>2. CASE main.pc = "remove" /\ main.o \in Slot /\ observers[main.o] = c
      BY <3>2 DEF KeepsPlace
    <3>3. CASE \A o \in Slot : On(o) => observers[o] # c
      BY <3>3 DEF KeepsPlace
    <3> QED BY <1>1, <2>1, <3>1, <3>2, <3>3 DEF Unregistering
  <2> QED BY <2>2, <2>3 DEF Unregistering
<1> QED BY <1>2, <1>3, <1>6, <1>7

(* A client whose slot is registered is told something.                     *)
LEMMA Told ==
  ASSUME CoapInv, NEW c \in Client, KeepsClient(c), Out(c)' = Out(c), (lossy => lossy'),
         UNCHANGED <<observers, list, dropped>>, ~ NotYet(c),
         ~ (main.pc = "register" /\ main.m.from = c),
         main' = main \/ (main.pc = "reply" /\ main' = Receiving)
  PROVE  Blocks(c)' /\ OneAtATime(c)' /\ Observing(c)' /\ Unregistering(c)'
<1>1. Blocks(c) /\ OneAtATime(c) /\ Observing(c) /\ Unregistering(c)
  BY Parts
<1>2. Blocks(c)'
  BY <1>1 DEF Blocks, KeepsClient
<1>3. ~ NotYet(c)' /\ ((Obs(c) \in net') <=> (Obs(c) \in net)) /\ ((Rst(c) \in net') <=> (Rst(c) \in net))
  BY OutFacts DEF NotYet, Fetching, KeepsClient
<1>4. OneAtATime(c)'
  BY <1>3 DEF OneAtATime, NotYet
<1>5. ~ (main'.pc = "register" /\ main'.m.from = c)
  BY DEF Receiving
<1>6. Observing(c)'
  <2>1. \A o, p \in Slot : observers'[o] = c /\ observers'[p] = c => o = p
    BY <1>1 DEF Observing
  <2>2. phase'[c] = "obs" => /\ sent'[c] /\ Obs(c) \notin net'
                             /\ \A d \in Out(c)' : d = Obs(c) \/ IsAck(d, c)
    BY <1>1, <1>3 DEF Observing, KeepsClient, NotYet
  <2> QED BY <1>3, <1>5, <2>1, <2>2 DEF Observing
<1>7. Unregistering(c)'
  <2>1. \A o : On(o)' <=> On(o)
    BY DEF On
  <2>2. main.pc = "remove" => main' = main
    OBVIOUS
  <2> QED BY <1>1, <1>3, <2>1, <2>2 DEF Unregistering, KeepsClient
<1> QED BY <1>2, <1>4, <1>6, <1>7

(***************************************************************************)
(* The network and the work queue.                                          *)
(***************************************************************************)
LEMMA LoseKeeps ==
  ASSUME CoapInv, Lose, UNCHANGED clientVars
  PROVE  CoapInv'
<1>1. /\ UNCHANGED <<observers, list, main, dropped, phase, sent, blk_ctx, got>> /\ lossy' /\ net' \subseteq net
  BY DEF Lose, serverVars, tables, clientVars
<1>2. ServerTables'
  BY <1>1 DEF CoapInv, ServerTables, On
<1>3. ASSUME NEW c \in Client PROVE KeepsClient(c) /\ KeepsMail(c) /\ KeepsPlace(c)
  BY <1>1 DEF KeepsClient, KeepsMail, KeepsPlace, In, Out, On
<1> QED BY <1>2, <1>3, Calm DEF CoapInv

LEMMA RetransmitKeeps ==
  ASSUME CoapInv, retransmit_request, UNCHANGED clientVars
  PROVE  CoapInv'
<1>1. UNCHANGED <<observers, list, main, dropped, phase, sent, blk_ctx, got, net, lossy>>
  BY DEF retransmit_request, network, clientVars
<1>2. ServerTables'
  BY <1>1 DEF CoapInv, ServerTables, On
<1>3. ASSUME NEW c \in Client PROVE KeepsClient(c) /\ KeepsMail(c) /\ KeepsPlace(c)
  BY <1>1 DEF KeepsClient, KeepsMail, KeepsPlace, In, Out, On
<1> QED BY <1>2, <1>3, Calm DEF CoapInv

(* The notifications go to the hosts on the list.                           *)
LEMMA CounterKeeps ==
  ASSUME CoapInv, update_counter, UNCHANGED clientVars
  PROVE  CoapInv'
<1>1. UNCHANGED <<observers, list, main, dropped, phase, sent, blk_ctx, got>>
  BY DEF update_counter, clientVars
<1>2. PICK ms : ms = {Notification(observers[list[k]], coap_next_id(k)) : k \in Notified} /\ Send(net, ms)
  BY DEF update_counter
<1>3. \A m \in ms : \E k \in DOMAIN list : m.to = observers[list[k]]
  BY <1>2 DEF Notification, Notified
<1>4. net \subseteq net' /\ net' \subseteq net \cup ms /\ (lossy => lossy')
  BY <1>2, SendEffect
<1>5. ServerTables
  BY DEF CoapInv
<1>6. \A m \in ms : m.to \in Host
  <2>1. \A k \in DOMAIN list : list[k] \in Slot
    BY <1>5 DEF ServerTables
  <2>2. \A k \in DOMAIN list : observers[list[k]] \in Host
    BY <1>5, <2>1 DEF ServerTables
  <2> QED BY <1>3, <2>2
<1>7. \A m \in ms : m.to # "server"
  BY <1>6, CoapAssumption
<1>8. ServerTables'
  <2>1. \A d \in net' : d.to = "server" => d.from \in Client
    BY <1>4, <1>5, <1>7 DEF ServerTables
  <2> QED BY <1>1, <1>5, <2>1 DEF ServerTables, On
<1>9. ASSUME NEW c \in Client
      PROVE  Blocks(c)' /\ OneAtATime(c)' /\ Observing(c)' /\ Unregistering(c)'
  <2>1. Out(c)' = Out(c)
    BY <1>4, <1>7 DEF Out
  <2>2. KeepsClient(c)
    BY <1>1 DEF KeepsClient
  <2>3. CASE \A k \in DOMAIN list : observers[list[k]] # c
    <3>1. In(c)' = In(c)
      BY <1>3, <1>4, <2>3 DEF In
    <3>2. KeepsMail(c)
      BY <1>1, <1>4, <2>1, <3>1 DEF KeepsMail
    <3>3. KeepsPlace(c)
      BY <1>1 DEF KeepsPlace, On
    <3> QED BY <2>2, <3>2, <3>3, Calm
  <2>4. CASE \E k \in DOMAIN list : observers[list[k]] = c
    <3>1. PICK k \in DOMAIN list : observers[list[k]] = c
      BY <2>4
    <3>2. list[k] \in Slot /\ On(list[k])
      BY <1>5 DEF ServerTables, On
    <3>3. Observing(c)
      BY Parts
    <3>4. ~ NotYet(c)
      BY <3>1, <3>2, <3>3 DEF Observing
    <3>5. ~ (main.pc = "register" /\ main.m.from = c)
      BY <1>5, <3>1, <3>2, <3>3 DEF Observing, ServerTables
    <3> QED BY <1>1, <1>4, <2>1, <2>2, <3>4, <3>5, Told
  <2> QED BY <2>3, <2>4
<1> QED BY <1>8, <1>9 DEF CoapInv

(***************************************************************************)
(* main, between two datagrams.                                             *)
(***************************************************************************)
LEMMA ClearAckedKeeps ==
  ASSUME CoapInv, ClearAcked, UNCHANGED clientVars
  PROVE  CoapInv'
<1>1. /\ UNCHANGED <<observers, list, dropped, phase, sent, blk_ctx, got, net, lossy>>
      /\ main.pc = "ack" /\ main' = Receiving
  BY DEF ClearAcked, network, clientVars
<1>2. main'.pc = "recv"
  BY <1>1 DEF Receiving
<1>3. ServerTables'
  BY <1>1, <1>2 DEF CoapInv, ServerTables, On
<1>4. ASSUME NEW c \in Client PROVE KeepsClient(c) /\ KeepsMail(c) /\ KeepsPlace(c)
  BY <1>1, <1>2 DEF KeepsClient, KeepsMail, KeepsPlace, In, Out, On
<1> QED BY <1>3, <1>4, Calm DEF CoapInv

(* coap_remove_observer: the list without one element.                      *)
LEMMA RemoveFirstFact ==
  ASSUME NEW S, NEW s \in Seq(S), NEW x, \A i, j \in DOMAIN s : s[i] = s[j] => i = j
  PROVE  LET t == RemoveFirst(s, x) IN
         /\ t \in Seq(S)
         /\ \A i \in DOMAIN t : t[i] # x /\ \E j \in DOMAIN s : t[i] = s[j]
         /\ \A i, j \in DOMAIN t : t[i] = t[j] => i = j
<1> DEFINE I == {i \in 1 .. Len(s) : s[i] = x}
           n == SelectInSeq(s, LAMBDA v : v = x)
<1>0. Len(s) \in Nat /\ DOMAIN s = 1 .. Len(s)
  BY LenProperties
<1>1. CASE I = {}
  <2>1. RemoveFirst(s, x) = s
    BY <1>1 DEF RemoveFirst
  <2> QED BY <1>0, <1>1, <2>1
<1>2. CASE I # {}
  <2>1. n = Min(I)
    BY <1>2 DEF SelectInSeq
  <2>2. I \subseteq Nat
    BY <1>0
  <2>3. n \in I
    BY <1>2, <2>1, <2>2, MinIsIn
  <2>4. RemoveFirst(s, x) = SubSeq(s, 1, n - 1) \o SubSeq(s, n + 1, Len(s))
    BY <1>2, <2>1 DEF RemoveFirst, RemoveAt
  <2> HIDE DEF n, I
  <2>5. n \in 1 .. Len(s) /\ s[n] = x
    BY <2>3 DEF I
  <2> DEFINE t == RemoveFirst(s, x)
  <2>6. PICK u, v : u = SubSeq(s, 1, n - 1) /\ v = SubSeq(s, n + 1, Len(s))
    OBVIOUS
  <2>7. /\ u \in Seq(S) /\ Len(u) = n - 1 /\ \A i \in 1 .. n - 1 : u[i] = s[i]
        /\ v \in Seq(S) /\ Len(v) = Len(s) - n /\ \A i \in 1 .. Len(s) - n : v[i] = s[n + i]
    <3>1. \A i \in 1 .. Len(s) : s[i] \in S
      BY <1>0, ElementOfSeq
    <3>2. \A i \in 1 .. n - 1 : s[i] \in S
      BY <1>0, <2>5, <3>1
    <3>3. \A i \in n + 1 .. Len(s) : s[i] \in S
      BY <1>0, <2>5, <3>1
    <3>4. /\ u \in Seq(S) /\ Len(u) = (IF 1 <= n - 1 THEN n - 1 - 1 + 1 ELSE 0)
          /\ \A i \in 1 .. n - 1 - 1 + 1 : u[i] = s[1 + i - 1]
      <4>1. n - 1 \in Int /\ 1 \in Int
        BY <1>0, <2>5
      <4> QED BY <2>6, <3>2, <4>1, SubSeqProperties
    <3>5. /\ v \in Seq(S) /\ Len(v) = (IF n + 1 <= Len(s) THEN Len(s) - (n + 1) + 1 ELSE 0)
          /\ \A i \in 1 .. Len(s) - (n + 1) + 1 : v[i] = s[n + 1 + i - 1]
      <4>1. n + 1 \in Int /\ Len(s) \in Int
        BY <1>0, <2>5
      <4> QED BY <2>6, <3>3, <4>1, SubSeqProperties
    <3>6. n \in Int /\ 1 <= n /\ n <= Len(s)
      BY <1>0, <2>5
    <3>7. Len(u) = n - 1 /\ Len(v) = Len(s) - n
      <4>1. Len(u) = (IF 1 <= n - 1 THEN n - 1 - 1 + 1 ELSE 0)
        BY <3>4
      <4>2. Len(v) = (IF n + 1 <= Len(s) THEN Len(s) - (n + 1) + 1 ELSE 0)
        BY <3>5
      <4>3. PICK l \in Nat : l = Len(s)
        BY <1>0
      <4> QED BY ONLY <3>6, <4>1, <4>2, <4>3
    <3>8. ASSUME NEW i \in 1 .. n - 1 PROVE u[i] = s[i]
      <4>1. i \in 1 .. n - 1 - 1 + 1 /\ 1 + i - 1 = i
        BY ONLY <3>6, <3>8
      <4> QED BY <3>4, <4>1
    <3>9. ASSUME NEW i \in 1 .. Len(s) - n PROVE v[i] = s[n + i]
      <4>1. i \in 1 .. Len(s) - (n + 1) + 1 /\ n + 1 + i - 1 = n + i
        BY ONLY <1>0, <3>6, <3>9
      <4> QED BY <3>5, <4>1
    <3> QED BY <3>4, <3>5, <3>7, <3>8, <3>9
  <2>10. t = u \o v
    BY <2>4, <2>6
  <2> HIDE DEF t
  <2>11. /\ t \in Seq(S) /\ Len(t) = Len(s) - 1
         /\ \A i \in 1 .. Len(s) - 1 : t[i] = IF i < n THEN s[i] ELSE s[i + 1]
    <3>1. /\ t \in Seq(S) /\ Len(t) = Len(u) + Len(v)
          /\ \A i \in 1 .. Len(u) + Len(v) : t[i] = IF i <= Len(u) THEN u[i] ELSE v[i - Len(u)]
      BY <2>7, <2>10, ConcatProperties
    <3>2. n \in Int /\ 1 <= n /\ n <= Len(s) /\ Len(u) + Len(v) = Len(s) - 1
      BY <1>0, <2>5, <2>7
    <3>3. ASSUME NEW i \in 1 .. Len(s) - 1 PROVE t[i] = IF i < n THEN s[i] ELSE s[i + 1]
      <4>1. t[i] = IF i <= n - 1 THEN u[i] ELSE v[i - (n - 1)]
        BY <2>7, <3>1, <3>2
      <4>2. CASE i < n
        <5>1. i <= n - 1 /\ i \in 1 .. n - 1
          BY ONLY <1>0, <3>2, <3>3, <4>2
        <5> QED BY <2>7, <4>1, <4>2, <5>1
      <4>3. CASE ~ (i < n)
        <5>1. ~ (i <= n - 1) /\ i - (n - 1) \in 1 .. Len(s) - n /\ n + (i - (n - 1)) = i + 1
          BY ONLY <1>0, <3>2, <3>3, <4>3
        <5> QED BY <2>7, <4>1, <4>3, <5>1
      <4> QED BY <4>2, <4>3
    <3> QED BY <3>1, <3>2, <3>3
  <2>12. DOMAIN t = 1 .. Len(s) - 1
    BY <2>11, LenProperties
  <2>8. ASSUME NEW i \in DOMAIN t
        PROVE  \E j \in DOMAIN s : t[i] = s[j] /\ j # n /\ (IF i < n THEN j = i ELSE j = i + 1)
    <3>1. i \in DOMAIN s /\ i + 1 \in DOMAIN s /\ (IF i < n THEN i # n ELSE i + 1 # n)
      BY <1>0, <2>5, <2>12
    <3>2. t[i] = IF i < n THEN s[i] ELSE s[i + 1]
      BY <2>11, <2>12
    <3> QED BY <3>1, <3>2
  <2>9. \A i \in DOMAIN t : t[i] # x /\ \E j \in DOMAIN s : t[i] = s[j]
    BY <1>0, <2>5, <2>8
  <2>13. \A i, j \in DOMAIN t : t[i] = t[j] => i = j
    <3> SUFFICES ASSUME NEW i \in DOMAIN t, NEW j \in DOMAIN t, t[i] = t[j] PROVE i = j
      OBVIOUS
    <3>1. PICK a \in DOMAIN s : t[i] = s[a] /\ (IF i < n THEN a = i ELSE a = i + 1)
      BY <2>8
    <3>2. PICK b \in DOMAIN s : t[j] = s[b] /\ (IF j < n THEN b = j ELSE b = j + 1)
      BY <2>8
    <3>3. a = b
      BY <3>1, <3>2
    <3>4. i \in Int /\ j \in Int /\ n \in Int
      BY <1>0, <2>5, <2>12
    <3> QED BY ONLY <3>1, <3>2, <3>3, <3>4
  <2> QED BY <2>9, <2>11, <2>13 DEF t
<1> QED BY <1>1, <1>2

LEMMA RemoveKeeps ==
  ASSUME CoapInv, RemoveObserver, UNCHANGED clientVars
  PROVE  CoapInv'
<1>1. /\ UNCHANGED <<dropped, phase, sent, blk_ctx, got, net, lossy>>
      /\ main.pc = "remove" /\ main' = Receiving /\ list' = RemoveFirst(list, main.o)
      /\ observers' \in {observers, [observers EXCEPT ![main.o] = None]}
  BY DEF RemoveObserver, network, clientVars
<1>2. ServerTables /\ main'.pc = "recv"
  BY <1>1 DEF Receiving, CoapInv
<1>3. /\ list' \in Seq(Slot)
      /\ \A i \in DOMAIN list' : list'[i] # main.o /\ \E j \in DOMAIN list : list'[i] = list[j]
      /\ \A i, j \in DOMAIN list' : list'[i] = list'[j] => i = j
  BY <1>1, <1>2, RemoveFirstFact DEF ServerTables
<1>4. /\ observers' \in [Slot -> Host \cup {None}]
      /\ \A o \in Slot : observers'[o] = observers[o] \/ (o = main.o /\ observers'[o] = None)
  BY <1>1, <1>2 DEF ServerTables
<1>5. \A i \in DOMAIN list' : observers'[list'[i]] # None
  <2>1. \A i \in DOMAIN list' : list'[i] \in Slot
    BY <1>3
  <2> QED BY <1>2, <1>3, <1>4, <2>1 DEF ServerTables
<1>6. ServerTables'
  BY <1>1, <1>2, <1>3, <1>4, <1>5 DEF ServerTables
<1>7. ASSUME NEW c \in Client PROVE KeepsClient(c) /\ KeepsMail(c) /\ KeepsPlace(c)
  <2>1. \A o : On(o)' => On(o) /\ o # main.o
    BY <1>3 DEF On
  <2>2. \A o \in Slot : observers'[o] = c => observers[o] = c
    BY <1>4, Names
  <2>3. (observers[main.o] = c /\ main.o \in Slot) => \A o \in Slot : observers'[o] = c => ~ On(o)'
    BY <2>1, <2>2, Parts DEF Observing
  <2>4. KeepsPlace(c)
    BY <1>1, <1>2, <2>1, <2>2, <2>3 DEF KeepsPlace
  <2> QED BY <1>1, <2>4 DEF KeepsClient, KeepsMail, In, Out
<1> QED BY <1>6, <1>7, Calm DEF CoapInv

LEMMA LowestIsIn ==
  ASSUME NEW S, S \subseteq Slot, S # {}
  PROVE  LowestOf(S) \in S
<1>1. S \subseteq Nat
  BY CoapAssumption DEF Slot
<1>2. Min(S) \in S
  BY <1>1, MinIsIn
<1>3. Min(S) = LowestOf(S)
  BY Zenon DEF Min, LowestOf
<1> QED BY <1>2, <1>3

(* The new observer is on the list, ...                                      *)
LEMMA RegisterKeeps ==
  ASSUME CoapInv, Register, UNCHANGED clientVars
  PROVE  CoapInv'
<1>1. /\ UNCHANGED <<observers, dropped, phase, sent, blk_ctx, got, net, lossy>>
      /\ main.pc = "register" /\ main' = [pc |-> "reply", m |-> main.m] /\ list' = Append(list, main.o)
  BY DEF Register, network, clientVars
<1>2. ServerTables /\ main'.pc = "reply" /\ main'.m = main.m
  BY <1>1 DEF CoapInv
<1>3. list \in Seq(Slot) /\ main.o \in Slot /\ ~ On(main.o) /\ observers[main.o] = main.m.from /\ main.m.from \in Host
  BY <1>1, <1>2 DEF ServerTables
<1>4. /\ list' \in Seq(Slot) /\ DOMAIN list' = DOMAIN list \cup {Len(list) + 1} /\ Len(list) + 1 \notin DOMAIN list
      /\ \A i \in DOMAIN list : list'[i] = list[i]
      /\ list'[Len(list) + 1] = main.o
  <2>1. list' \in Seq(Slot) /\ Len(list') = Len(list) + 1 /\ \A i \in 1 .. Len(list) : list'[i] = list[i]
    BY <1>1, <1>3, AppendProperties
  <2>2. list'[Len(list) + 1] = main.o
    BY <1>1, <1>3, AppendProperties
  <2>3. DOMAIN list = 1 .. Len(list) /\ DOMAIN list' = 1 .. Len(list') /\ Len(list) \in Nat
    BY <1>3, <2>1, LenProperties
  <2> QED BY <2>1, <2>2, <2>3
<1>5. \A i, j \in DOMAIN list' : list'[i] = list'[j] => i = j
  BY <1>2, <1>3, <1>4 DEF ServerTables, On
<1>6. observers[main.o] # None
  BY <1>3, CoapAssumption
<1>7. ServerTables'
  BY <1>1, <1>2, <1>3, <1>4, <1>5, <1>6 DEF ServerTables
<1>8. \A o : On(o)' <=> (On(o) \/ o = main.o)
  BY <1>4 DEF On
<1>9. ASSUME NEW c \in Client
      PROVE  Blocks(c)' /\ OneAtATime(c)' /\ Observing(c)' /\ Unregistering(c)'
  <2>1. KeepsClient(c) /\ KeepsMail(c) /\ In(c)' = In(c) /\ Out(c)' = Out(c)
    BY <1>1 DEF KeepsClient, KeepsMail, In, Out
  <2>2. CASE main.m.from # c
    <3>1. KeepsPlace(c)
      BY <1>1, <1>2, <1>3, <1>8, <2>2 DEF KeepsPlace
    <3> QED BY <2>1, <3>1, Calm
  <2>3. CASE main.m.from = c
    <3>1. Blocks(c) /\ Observing(c)
      BY Parts
    <3>2. phase[c] = "obs" /\ sent[c] /\ Obs(c) \notin net
      BY <1>1, <2>3, <3>1 DEF Observing
    <3>3. Blocks(c)'
      BY <2>1, <3>1 DEF Blocks, KeepsClient
    <3>4. phase'[c] = "obs" /\ sent'[c] /\ Obs(c) \notin net' /\ ~ NotYet(c)'
      BY <1>1, <3>2 DEF NotYet, Fetching
    <3>5. Observing(c)'
      BY <1>1, <1>2, <2>1, <3>1, <3>4 DEF Observing
    <3> QED BY <3>3, <3>4, <3>5 DEF OneAtATime, Fetching, Unregistering
  <2> QED BY <2>2, <2>3
<1> QED BY <1>7, <1>9 DEF CoapInv

(* ... and gets its answer.                                                  *)
LEMMA ObserveReplyKeeps ==
  ASSUME CoapInv, ObserveReply, UNCHANGED clientVars
  PROVE  CoapInv'
<1>1. /\ UNCHANGED <<observers, list, dropped, phase, sent, blk_ctx, got>>
      /\ main.pc = "reply" /\ main' = Receiving
  BY DEF ObserveReply, tables, clientVars
<1>2. PICK x : x = Reply(main.m, "ACK", "content", None, FALSE) /\ Send(net, {x})
  BY DEF ObserveReply
<1>3. x.to = main.m.from
  BY <1>2 DEF Reply
<1>4. net \subseteq net' /\ net' \subseteq net \cup {x} /\ (lossy => lossy')
  BY <1>2, SendEffect
<1>5. ServerTables /\ main'.pc = "recv"
  BY <1>1 DEF CoapInv, Receiving
<1>6. main.m.from \in Host /\ main.m.from # "server"
  BY <1>1, <1>5, CoapAssumption DEF ServerTables
<1>7. ServerTables'
  BY <1>1, <1>3, <1>4, <1>5, <1>6 DEF ServerTables
<1>8. ASSUME NEW c \in Client
      PROVE  Blocks(c)' /\ OneAtATime(c)' /\ Observing(c)' /\ Unregistering(c)'
  <2>1. KeepsClient(c) /\ Out(c)' = Out(c)
    BY <1>1, <1>3, <1>4, <1>6 DEF KeepsClient, Out
  <2>2. CASE main.m.from # c
    <3>1. In(c)' = In(c)
      BY <1>3, <1>4, <2>2 DEF In
    <3>2. KeepsMail(c)
      BY <1>1, <1>4, <2>1, <3>1 DEF KeepsMail
    <3>3. KeepsPlace(c)
      BY <1>1, <1>5 DEF KeepsPlace, On
    <3> QED BY <2>1, <3>2, <3>3, Calm
  <2>3. CASE main.m.from = c
    <3>1. ~ NotYet(c)
      BY <1>1, <2>3, Parts DEF Observing
    <3> QED BY <1>1, <1>4, <2>1, <3>1, Told
  <2> QED BY <2>2, <2>3
<1> QED BY <1>7, <1>8 DEF CoapInv

(***************************************************************************)
(* main handles a datagram.                                                 *)
(***************************************************************************)
PlainPath == {"test", "seg", "query", "separate", "core", "location-query"}

LEMMA PlainPaths == {r.path : r \in Plain} \subseteq PlainPath
<1> SUFFICES ASSUME NEW r \in Plain PROVE r.path \in PlainPath
  OBVIOUS
<1> QED BY DEF Plain, PlainPath

(* The requests of a client.                                                *)
LEMMA Requests ==
  ASSUME CoapInv, NEW c \in Client, Fetching(c)
  PROVE  LET m == NextRequest(c) IN
         /\ m.to = "server" /\ m.from = c /\ m.type = "CON" /\ ~ IsAck(m, c)
         /\ phase[c] \in Simples => /\ m.path = "test" /\ [path |-> m.path, method |-> m.method] \in Plain
         /\ phase[c] \notin Simples => phase[c] = "large" /\ m.path = "large" /\ m.block = blk_ctx[c]
<1>1. phase[c] \in Simples \cup {"large"}
  BY Parts DEF Blocks, Fetching
<1> DEFINE m == NextRequest(c)
<1>2. CASE phase[c] \in Simples
  <2>1. PICK p : m = Datagram(c, "CON", phase[c], "test", None, FALSE, p, 0)
    <3>1. \E p : p = (phase[c] \in {"put", "post"})
      OBVIOUS
    <3>2. m = Datagram(c, "CON", phase[c], "test", None, FALSE, phase[c] \in {"put", "post"}, 0)
      <4>1. phase[c] # "large" /\ phase[c] # "obs"
        BY <1>2 DEF Simples
      <4> QED BY <1>2, <4>1, Zenon DEF NextRequest
    <3> QED BY <3>1, <3>2, Zenon
  <2>2. [path |-> "test", method |-> phase[c]] \in Plain
    BY <1>2 DEF Plain, Simples
  <2> HIDE DEF m
  <2>3. m.to = "server" /\ m.from = c /\ m.type = "CON" /\ m.path = "test" /\ m.method = phase[c]
    BY <2>1 DEF Datagram
  <2>4. ~ IsAck(m, c)
    BY <2>3 DEF Datagram, IsAck, Ack
  <2> QED BY <1>2, <2>2, <2>3, <2>4 DEF m
<1>3. CASE phase[c] = "large"
  <2>1. m = Datagram(c, "CON", "get", "large", blk_ctx[c], FALSE, FALSE, 0)
    BY <1>3 DEF NextRequest, Simples
  <2> HIDE DEF m
  <2>2. m.to = "server" /\ m.from = c /\ m.type = "CON" /\ m.path = "large" /\ m.block = blk_ctx[c]
    BY <2>1 DEF Datagram
  <2>3. ~ IsAck(m, c)
    BY <2>2 DEF Datagram, IsAck, Ack
  <2>4. phase[c] \notin Simples
    BY <1>3 DEF Simples
  <2> QED BY <1>3, <2>2, <2>3, <2>4 DEF m
<1> QED BY <1>1, <1>2, <1>3

(* What a client may have sent to the server.                               *)
LEMMA Sender ==
  ASSUME CoapInv, NEW m \in net, m.to = "server"
  PROVE  /\ m.from \in Client /\ m \in Out(m.from)
         /\ \/ /\ Fetching(m.from) /\ m = NextRequest(m.from) /\ sent[m.from]
               /\ In(m.from) = {} /\ Out(m.from) = {m}
            \/ phase[m.from] = "obs" /\ sent[m.from] /\ (m = Obs(m.from) \/ IsAck(m, m.from))
            \/ phase[m.from] = "done" /\ (m = Rst(m.from) \/ IsAck(m, m.from))
<1>1. m.from \in Client
  BY DEF CoapInv, ServerTables
<1>2. PICK c \in Client : c = m.from
  BY <1>1
<1>3. m \in Out(c)
  BY <1>2 DEF Out
<1>4. OneAtATime(c) /\ Observing(c) /\ Unregistering(c)
  BY Parts
<1>5. CASE Fetching(c)
  <2>1. sent[c] /\ Out(c) \subseteq {NextRequest(c)} /\ In(c) = {}
    BY <1>3, <1>4, <1>5 DEF OneAtATime
  <2> QED BY <1>2, <1>3, <1>5, <2>1
<1>6. CASE phase[c] = "obs"
  BY <1>2, <1>3, <1>4, <1>6 DEF Observing
<1>7. CASE phase[c] = "done"
  BY <1>2, <1>3, <1>4, <1>7 DEF Unregistering
<1> QED BY <1>5, <1>6, <1>7 DEF Fetching

(* Datagrams that main may find.                                            *)
Known(m) ==
  /\ m.to = "server" /\ m.from \in Host
  /\ (m.path \in {r.path : r \in Plain}) => [path |-> m.path, method |-> m.method] \in Plain

LEMMA KnownDatagrams ==
  ASSUME CoapInv, NEW m, m \in Arrived \/ m \in Strays
  PROVE  Known(m) /\ (m \in net => m.from \in Client) /\ (m \notin net => m.from = Stranger)
<1>1. CASE m \in Arrived
  <2>1. m \in net /\ m.to = "server"
    BY <1>1 DEF Arrived, Waiting
  <2>2. PICK c \in Client : c = m.from
    BY <2>1, Sender
  <2>3. CASE Fetching(c) /\ m = NextRequest(c)
    BY <2>1, <2>2, <2>3, Requests, PlainPaths, Names DEF Known, PlainPath
  <2>4. CASE m = Obs(c) \/ m = Rst(c) \/ IsAck(m, c)
    <3>1. m.path \in {"obs", "none"}
      BY <2>4 DEF Obs, Rst, IsAck, Ack, Datagram
    <3> QED BY <2>1, <2>2, <3>1, PlainPaths, Names DEF Known, PlainPath
  <2> QED BY <2>1, <2>2, <2>3, <2>4, Sender
<1>2. CASE m \in Strays
  <2>1. Known(m) /\ m.from = Stranger
    BY <1>2, StraysAssumption DEF Known, Host
  <2>2. m \notin net
    <3>1. Stranger \notin Client
      BY CoapAssumption
    <3> QED BY <2>1, <3>1 DEF CoapInv, ServerTables, Known
  <2> QED BY <2>1, <2>2
<1> QED BY <1>1, <1>2

(* The handlers that only reply, reply to the sender; but for separate_get   *)
(* they reply once.                                                         *)
LEMMA RepliesToFact ==
  ASSUME NEW m, Known(m), m.path \in {r.path : r \in Plain}
  PROVE  /\ \A x \in RepliesTo(m) : x.to = m.from
         /\ m.path = "test" => \A x, y \in RepliesTo(m) : x = y
<1>1. [path |-> m.path, method |-> m.method] \in Plain
  BY DEF Known
<1>2. \/ m.path = "test" /\ m.method \in {"get", "put", "post", "delete"}
      \/ m.path \in {"seg", "query", "separate", "core"} /\ m.method = "get"
      \/ m.path = "location-query" /\ m.method = "post"
  <2> DEFINE r == [path |-> m.path, method |-> m.method]
  <2>1. r \in Plain /\ r.path = m.path /\ r.method = m.method
    BY <1>1
  <2> HIDE DEF r
  <2>2. \/ r.path = "test" /\ r.method \in {"get", "put", "post", "delete"}
        \/ r.path \in {"seg", "query", "separate", "core"} /\ r.method = "get"
        \/ r.path = "location-query" /\ r.method = "post"
    BY <2>1 DEF Plain
  <2> QED BY <2>1, <2>2
<1> DEFINE One(S) == \E type, code : S = {Reply(m, type, code, None, FALSE)}
<1>3. /\ One(piggyback_get(m)) /\ One(test_del(m)) /\ One(test_put(m)) /\ One(test_post(m))
      /\ One(location_query_post(m)) /\ One(query_get(m)) /\ One(core_get(m))
  BY Zenon DEF piggyback_get, test_del, test_put, test_post, location_query_post, query_get, core_get
<1>4. CASE m.path = "separate"
  <2>1. RepliesTo(m) = separate_get(m)
    BY <1>4 DEF RepliesTo
  <2>2. \A x \in separate_get(m) : x.to = m.from
    BY DEF separate_get, Reply
  <2> QED BY <1>4, <2>1, <2>2
<1>5. CASE m.path # "separate"
  <2> HIDE DEF One
  <2>1. One(RepliesTo(m))
    <3>1. CASE m.path = "test" /\ m.method = "put"
      <4>1. RepliesTo(m) = test_put(m)
        BY <3>1 DEF RepliesTo
      <4> QED BY <1>3, <4>1
    <3>2. CASE m.path = "test" /\ m.method = "post"
      <4>1. RepliesTo(m) = test_post(m)
        BY <3>2 DEF RepliesTo
      <4> QED BY <1>3, <4>1
    <3>3. CASE m.path = "test" /\ m.method = "delete"
      <4>1. RepliesTo(m) = test_del(m)
        BY <3>3 DEF RepliesTo
      <4> QED BY <1>3, <4>1
    <3>4. CASE m.path \in {"test", "seg"} /\ m.method = "get"
      <4>1. RepliesTo(m) = piggyback_get(m)
        BY <3>4 DEF RepliesTo
      <4> QED BY <1>3, <4>1
    <3>5. CASE m.path = "query"
      <4>1. RepliesTo(m) = query_get(m)
        BY <3>5 DEF RepliesTo
      <4> QED BY <1>3, <4>1
    <3>6. CASE m.path = "core"
      <4>1. RepliesTo(m) = core_get(m)
        BY <3>6 DEF RepliesTo
      <4> QED BY <1>3, <4>1
    <3>7. CASE m.path = "location-query"
      <4>1. RepliesTo(m) = location_query_post(m)
        BY <3>7 DEF RepliesTo
      <4> QED BY <1>3, <4>1
    <3> QED BY <1>2, <1>5, <3>1, <3>2, <3>3, <3>4, <3>5, <3>6, <3>7
  <2> USE DEF One
  <2>2. PICK type, code : RepliesTo(m) = {Reply(m, type, code, None, FALSE)}
    BY <2>1
  <2> QED BY <2>2 DEF Reply
<1> QED BY <1>4, <1>5

(* Where main goes on with m, and the slot m gets if it asks to observe.     *)
Continues(m) ==
  \/ main'.pc \in {"recv", "ack"} /\ observers' = observers
  \/ /\ main'.pc = "remove" /\ observers' = observers
     /\ m.type = "RST" /\ main'.o \in Slot /\ observers[main'.o] = m.from
  \/ main'.pc = "reply" /\ main'.m = m /\ observers' = observers
  \/ /\ main'.pc = "register" /\ main'.m = m /\ main'.o \in Slot
     /\ observers[main'.o] = None /\ observers' = [observers EXCEPT ![main'.o] = m.from]

Takes(m, ms) ==
  /\ main = Receiving /\ UNCHANGED list /\ dropped \subseteq dropped' /\ Send(net \ {m}, ms)
  /\ main'.pc = "recv" => main' = Receiving
  /\ Continues(m)

LEMMA ForPendingTakes ==
  ASSUME NEW m, ForPending(m)
  PROVE  Takes(m, {}) /\ observers' = observers /\ main'.pc \in {"recv", "ack"}
         /\ (m.type = "ACK" \/ dropped' = dropped \cup ({m.from} \cap Client))
<1>1. main = Receiving /\ UNCHANGED <<list, observers>> /\ Send(net \ {m}, {})
  BY DEF ForPending, Recv, Answers, tables
<1>2. /\ main'.pc = "recv" => main' = Receiving
      /\ main'.pc \in {"recv", "ack"} /\ dropped \subseteq dropped'
      /\ (m.type = "ACK" \/ dropped' = dropped \cup ({m.from} \cap Client))
  BY <1>1 DEF ForPending, Unanswered, Receiving
<1> QED BY <1>1, <1>2 DEF Takes, Continues

LEMMA ResetTakes ==
  ASSUME CoapInv, NEW m, Reset(m)
  PROVE  /\ Takes(m, {}) /\ m.type \in {"RST", "ACK"} /\ observers' = observers /\ main'.pc \in {"recv", "remove"}
         /\ (m.type = "RST" /\ main'.pc = "recv") =>
              \/ \A o \in Slot : observers[o] # m.from
              \/ \E o \in Slot : observers[o] = m.from /\ ~ On(o)
<1> DEFINE slots == coap_find_observer_by_addr(m.from)
<1>1. /\ main = Receiving /\ UNCHANGED <<list, observers, dropped>> /\ Send(net \ {m}, {}) /\ m.type \in {"RST", "ACK"}
      /\ main' = IF m.type = "RST" /\ slots # {} /\ Contains(list, LowestOf(slots))
                 THEN [pc |-> "remove", o |-> LowestOf(slots)] ELSE Receiving
  BY DEF Reset, Request, Recv, Answers, tables
<1>2. slots # {} => LowestOf(slots) \in Slot /\ observers[LowestOf(slots)] = m.from
  <2>1. slots \subseteq Slot /\ \A o \in slots : observers[o] = m.from
    BY DEF coap_find_observer_by_addr
  <2> QED BY <2>1, LowestIsIn
<1>3. CASE m.type = "RST" /\ slots # {} /\ Contains(list, LowestOf(slots))
  <2>1. main'.pc = "remove" /\ main'.o = LowestOf(slots)
    BY <1>1, <1>3
  <2> QED BY <1>1, <1>2, <1>3, <2>1 DEF Takes, Continues
<1>4. CASE ~ (m.type = "RST" /\ slots # {} /\ Contains(list, LowestOf(slots)))
  <2>1. main' = Receiving /\ main'.pc = "recv"
    BY <1>1, <1>4 DEF Receiving
  <2>2. m.type = "RST" => \/ \A o \in Slot : observers[o] # m.from
                          \/ \E o \in Slot : observers[o] = m.from /\ ~ On(o)
    <3>1. CASE slots = {}
      BY <3>1 DEF coap_find_observer_by_addr
    <3>2. CASE m.type = "RST" /\ slots # {}
      <4>1. ~ On(LowestOf(slots))
        <5>1. list \in Seq(Slot)
          BY DEF CoapInv, ServerTables
        <5>2. DOMAIN list = 1 .. Len(list)
          BY <5>1, LenProperties
        <5> QED BY <1>4, <3>2, <5>2 DEF On, Contains
      <4> QED BY <1>2, <3>2, <4>1
    <3> QED BY <3>1, <3>2
  <2> QED BY <1>1, <2>1, <2>2 DEF Takes, Continues
<1> QED BY <1>3, <1>4

LEMMA SimpleTakes ==
  ASSUME NEW m, Simple(m)
  PROVE  /\ Takes(m, RepliesTo(m)) /\ observers' = observers /\ main' = Receiving
         /\ m.type \in {"CON", "NON"} /\ m.path \in {r.path : r \in Plain}
<1>1. /\ main = Receiving /\ UNCHANGED <<list, observers, main, dropped>> /\ Send(net \ {m}, RepliesTo(m))
      /\ m.type \in {"CON", "NON"} /\ m.path \in {r.path : r \in Plain}
  BY DEF Simple, Request, Recv, Answers, tables
<1>2. main'.pc = "recv"
  BY <1>1 DEF Receiving
<1> QED BY <1>1, <1>2 DEF Takes, Continues

LargeReply(m, ms, block, more) ==
  /\ ms = {Reply(m, "ACK", "content", block, more)}
  /\ (more <=> (block < BLOCKS - 1)) /\ (m.block # None => block = m.block)

LEMMA LargeTakes ==
  ASSUME NEW m, large_get(m)
  PROVE  /\ \E ms, block, more : Takes(m, ms) /\ LargeReply(m, ms, block, more)
         /\ observers' = observers /\ main' = Receiving /\ m.type = "CON" /\ m.path = "large"
<1>1. /\ main = Receiving /\ UNCHANGED <<list, observers, main, dropped>> /\ m.type = "CON" /\ m.path = "large"
  BY DEF large_get, Request, Recv, tables
<1>2. PICK block : block = (IF m.block = None THEN ctx ELSE m.block)
  OBVIOUS
<1>3. PICK more : more = (block < BLOCKS - 1)
  OBVIOUS
<1>4. PICK ms : ms = {Reply(m, "ACK", "content", block, more)}
  OBVIOUS
<1>5. Send(net \ {m}, ms)
  <2>1. Answers(m, {Reply(m, "ACK", "content", block, more)})
    BY <1>2, <1>3, Zenon DEF large_get
  <2> QED BY <1>4, <2>1, Zenon DEF Answers
<1>6. Takes(m, ms) /\ observers' = observers /\ main' = Receiving
  BY <1>1, <1>5 DEF Takes, Continues, Receiving
<1>7. LargeReply(m, ms, block, more)
  <2>1. m.block # None => block = m.block
    BY <1>2
  <2> QED BY <1>3, <1>4, <2>1, Zenon DEF LargeReply
<1> QED BY <1>1, <1>6, <1>7, Zenon

(* An upload is answered or dropped.                                        *)
LEMMA UploadTakes ==
  ASSUME NEW m, large_update_put(m) \/ large_create_post(m)
  PROVE  /\ \E ms : Takes(m, ms) /\ (\A x \in ms : x.to = m.from) /\ observers' = observers /\ main' = Receiving
         /\ m.type = "CON" /\ m.path \in {"large-update", "large-create"}
<1>1. /\ main = Receiving /\ m.type = "CON" /\ m.path \in {"large-update", "large-create"}
      /\ \E no_payload, last : Upload(m, no_payload, last)
  BY Zenon DEF large_update_put, large_create_post, Request, Recv
<1>2. PICK no_payload, last : Upload(m, no_payload, last)
  BY <1>1
<1>3. UNCHANGED <<list, observers, main>>
  BY <1>2 DEF Upload, tables
<1>4. CASE m.block = None \/ no_payload
  <2>1. Answers(m, {}) /\ Unanswered(m)
    BY <1>2, <1>4, Zenon DEF Upload
  <2>2. Takes(m, {})
    BY <1>1, <1>3, <2>1 DEF Takes, Continues, Answers, Unanswered, Receiving
  <2> QED BY <1>1, <1>3, <2>2
<1>5. CASE ~ (m.block = None \/ no_payload)
  <2>1. PICK code, more : /\ Answers(m, {Reply(m, "ACK", code, m.block, more)})
                          /\ UNCHANGED dropped
    BY <1>2, <1>5, Zenon DEF Upload
  <2>2. PICK ms : ms = {Reply(m, "ACK", code, m.block, more)}
    OBVIOUS
  <2>3. \A x \in ms : x.to = m.from
    BY <2>2 DEF Reply
  <2>4. Send(net \ {m}, ms)
    BY <2>1, <2>2, Zenon DEF Answers
  <2>5. Takes(m, ms)
    BY <1>1, <1>3, <2>1, <2>4 DEF Takes, Continues, Receiving
  <2> QED BY <1>1, <1>3, <2>3, <2>5
<1> QED BY <1>4, <1>5

LEMMA ObserverTakes ==
  ASSUME NEW m, ObserverInit(m)
  PROVE  /\ Takes(m, {}) /\ m.type = "CON" /\ m.path = "obs"
         /\ m.method = "observe" => \/ main' = Receiving /\ observers' = observers
                                    \/ main'.pc = "register"
<1>1. /\ main = Receiving /\ UNCHANGED list /\ m.type = "CON" /\ m.path = "obs" /\ Send(net \ {m}, {})
  BY DEF ObserverInit, Request, Recv, Answers
<1>2. CASE m.method = "observe" /\ coap_observer_next_unused = {}
  <2>1. Unanswered(m) /\ UNCHANGED <<main, observers>>
    BY <1>2 DEF ObserverInit
  <2> QED BY <1>1, <1>2, <2>1 DEF Takes, Continues, Unanswered, Receiving
<1>3. CASE m.method = "observe" /\ coap_observer_next_unused # {}
  <2>1. PICK o : o = LowestOf(coap_observer_next_unused)
    OBVIOUS
  <2>2. o \in Slot /\ observers[o] = None
    BY <1>3, <2>1, LowestIsIn DEF coap_observer_next_unused
  <2>3. /\ observers' = [observers EXCEPT ![o] = m.from] /\ main' = [pc |-> "register", m |-> m, o |-> o]
        /\ UNCHANGED dropped
    BY <1>3, <2>1, Zenon DEF ObserverInit
  <2>4. main'.pc = "register" /\ main'.m = m /\ main'.o = o
    BY <2>3
  <2> QED BY <1>1, <1>3, <2>2, <2>3, <2>4 DEF Takes, Continues
<1>4. CASE m.method # "observe"
  <2>1. main' = [pc |-> "reply", m |-> m] /\ UNCHANGED <<observers, dropped>>
    BY <1>4 DEF ObserverInit
  <2>2. main'.pc = "reply" /\ main'.m = m
    BY <2>1
  <2> QED BY <1>1, <1>4, <2>1, <2>2 DEF Takes, Continues
<1> QED BY <1>2, <1>3, <1>4

LEMMA HandleTakes ==
  ASSUME CoapInv, NEW m, Known(m), Handle(m)
  PROVE  \E ms : Takes(m, ms) /\ \A x \in ms : x.to = m.from
<1>1. CASE ForPending(m) \/ Reset(m) \/ ObserverInit(m)
  <2>1. Takes(m, {})
    BY <1>1, ForPendingTakes, ResetTakes, ObserverTakes
  <2> QED BY <2>1
<1>2. CASE Simple(m)
  BY <1>2, SimpleTakes, RepliesToFact
<1>3. CASE large_get(m)
  <2>1. PICK ms, block, more : Takes(m, ms) /\ LargeReply(m, ms, block, more)
    BY <1>3, LargeTakes
  <2>2. \A x \in ms : x.to = m.from
    BY <2>1 DEF LargeReply, Reply
  <2> QED BY <2>1, <2>2
<1>4. CASE large_update_put(m) \/ large_create_post(m)
  BY <1>4, UploadTakes
<1> QED BY <1>1, <1>2, <1>3, <1>4 DEF Handle

LEMMA TakesMail ==
  ASSUME NEW m, NEW ms, Known(m), Takes(m, ms), \A x \in ms : x.to = m.from
  PROVE  /\ net \ {m} \subseteq net' /\ net' \subseteq (net \ {m}) \cup ms /\ (lossy => lossy')
         /\ \A x \in ms : x.to # "server"
<1>1. Send(net \ {m}, ms)
  BY DEF Takes
<1>2. m.from # "server"
  BY Names, CoapAssumption DEF Known
<1> QED BY <1>1, <1>2, SendEffect

LEMMA TakesTables ==
  ASSUME CoapInv, NEW m, NEW ms, Known(m), Takes(m, ms), \A x \in ms : x.to = m.from
  PROVE  ServerTables'
<1>1. ServerTables
  BY DEF CoapInv
<1>2. \A d \in net' : d.to = "server" => d.from \in Client
  BY <1>1, TakesMail DEF ServerTables
<1>3. m.from \in Host /\ UNCHANGED list /\ Continues(m) /\ (main'.pc = "recv" => main' = Receiving) /\ None \notin Host
  BY CoapAssumption DEF Takes, Known
<1>4. \A o : On(o)' <=> On(o)
  BY <1>3 DEF On
<1>5. CASE observers' = observers /\ main'.pc # "register"
  <2>1. main'.pc \in {"recv", "ack", "remove", "reply"} /\ (main'.pc = "reply" => main'.m = m)
    BY <1>3, <1>5 DEF Continues
  <2> QED BY <1>1, <1>2, <1>3, <1>5, <2>1 DEF ServerTables
<1>6. CASE /\ main'.pc = "register" /\ main'.m = m /\ main'.o \in Slot
           /\ observers[main'.o] = None /\ observers' = [observers EXCEPT ![main'.o] = m.from]
  <2>1. PICK o \in Slot : o = main'.o
    BY <1>6
  <2>2. ~ On(o)
    BY <1>1, <1>6, <2>1 DEF ServerTables, On
  <2>3. /\ observers' \in [Slot -> Host \cup {None}] /\ observers'[o] = m.from
        /\ \A p \in Slot : p # o => observers'[p] = observers[p]
    BY <1>1, <1>3, <1>6, <2>1 DEF ServerTables
  <2>4. \A i \in DOMAIN list : observers'[list[i]] # None
    <3>1. \A i \in DOMAIN list : list[i] \in Slot
      BY <1>1 DEF ServerTables
    <3> QED BY <1>1, <2>2, <2>3, <3>1 DEF ServerTables, On
  <2> QED BY <1>1, <1>2, <1>3, <1>4, <1>6, <2>1, <2>2, <2>3, <2>4 DEF ServerTables
<1> QED BY <1>3, <1>5, <1>6 DEF Continues

(* Whom the datagram is not from takes no notice.                           *)
LEMMA OthersCalm ==
  ASSUME CoapInv, UNCHANGED clientVars, NEW c \in Client,
         NEW m, NEW ms, Known(m), Takes(m, ms), \A x \in ms : x.to = m.from, m.from # c
  PROVE  Blocks(c)' /\ OneAtATime(c)' /\ Observing(c)' /\ Unregistering(c)'
<1>1. KeepsClient(c)
  BY DEF KeepsClient, clientVars
<1>2. KeepsMail(c)
  <2>1. In(c)' \subseteq In(c) /\ Out(c)' \subseteq Out(c)
    BY TakesMail DEF In, Out
  <2>2. Rst(c) # m
    BY DEF Rst, Datagram
  <2>3. (lossy => lossy') /\ (Rst(c) \in net => Rst(c) \in net')
    BY <2>2, TakesMail
  <2> QED BY <2>1, <2>3 DEF KeepsMail, Takes
<1>3. KeepsPlace(c)
  <2>1. main = Receiving /\ UNCHANGED list /\ Continues(m) /\ main.pc = "recv"
    BY DEF Takes, Receiving
  <2>2. \A o : On(o)' <=> On(o)
    BY <2>1 DEF On
  <2>3. observers \in [Slot -> Host \cup {None}]
    BY DEF CoapInv, ServerTables
  <2>4. \A o \in Slot : observers'[o] = c => observers[o] = c
    BY <2>1, <2>3 DEF Continues
  <2>5. ~ (main'.pc \in {"register", "reply"} /\ main'.m.from = c)
    BY <2>1 DEF Continues
  <2> QED BY <2>1, <2>2, <2>4, <2>5 DEF KeepsPlace
<1> QED BY <1>1, <1>2, <1>3, Calm

(* Nor does its sender when it is taken without any effect.                 *)
LEMMA TakenCalm ==
  ASSUME CoapInv, UNCHANGED clientVars, NEW c \in Client,
         NEW m, Known(m), m.from = c, Takes(m, {}), observers' = observers,
         main'.pc \in {"recv", "ack"}, m = Rst(c) => c \in dropped'
  PROVE  Blocks(c)' /\ OneAtATime(c)' /\ Observing(c)' /\ Unregistering(c)'
<1>1. KeepsClient(c)
  BY DEF KeepsClient, clientVars
<1>2. net \ {m} \subseteq net' /\ net' \subseteq net /\ (lossy => lossy')
  <2>1. \A x \in {} : x.to = m.from
    OBVIOUS
  <2> QED BY <2>1, TakesMail
<1>3. KeepsMail(c)
  BY <1>2 DEF KeepsMail, In, Out, Takes
<1>4. KeepsPlace(c)
  <2>1. main = Receiving /\ UNCHANGED list /\ main.pc = "recv"
    BY DEF Takes, Receiving
  <2> QED BY <2>1 DEF KeepsPlace, On
<1> QED BY <1>1, <1>3, <1>4, Calm

(* The answer to a request: it is the only datagram then.                   *)
LEMMA Answered ==
  ASSUME CoapInv, UNCHANGED clientVars, NEW c \in Client, Fetching(c),
         NEW m \in net, NEW ms, Known(m), m.from = c, Takes(m, ms), \A x \in ms : x.to = m.from,
         observers' = observers, main' = Receiving,
         \A x, y \in ms : x = y,
         phase[c] = "large" => \A x \in ms : x.block = blk_ctx[c] /\ (x.more <=> blk_ctx[c] < BLOCKS - 1)
  PROVE  Blocks(c)' /\ OneAtATime(c)' /\ Observing(c)' /\ Unregistering(c)'
<1>1. KeepsClient(c) /\ Blocks(c) /\ OneAtATime(c) /\ Observing(c)
  BY Parts DEF KeepsClient, clientVars
<1>2. net' \subseteq (net \ {m}) \cup ms /\ \A x \in ms : x.to # "server"
  BY TakesMail
<1>3. m \in Out(c) /\ sent[c] /\ Out(c) = {m} /\ In(c) = {}
  BY <1>1 DEF Known, Out, OneAtATime
<1>4. Out(c)' = {} /\ In(c)' \subseteq ms
  BY <1>2, <1>3 DEF Out, In
<1>5. Fetching(c)' /\ main'.pc = "recv" /\ phase'[c] \notin {"obs", "done"}
  BY DEF Fetching, clientVars, Receiving
<1>6. Blocks(c)'
  BY <1>1 DEF Blocks, KeepsClient
<1>7. OneAtATime(c)'
  BY <1>1, <1>3, <1>4 DEF OneAtATime, KeepsClient
<1>8. Observing(c)'
  BY <1>1, <1>5 DEF Observing, NotYet
<1> QED BY <1>5, <1>6, <1>7, <1>8 DEF Unregistering

(* The request to observe is taken: the client has its only slot.            *)
LEMMA Registered ==
  ASSUME CoapInv, UNCHANGED clientVars, NEW c \in Client, phase[c] = "obs",
         NEW m \in net, Known(m), m.from = c, m = Obs(c), Takes(m, {}), main'.pc = "register"
  PROVE  Blocks(c)' /\ OneAtATime(c)' /\ Observing(c)' /\ Unregistering(c)'
<1>1. KeepsClient(c) /\ Blocks(c) /\ Observing(c) /\ ServerTables
  BY Parts DEF KeepsClient, clientVars
<1>2. net' \subseteq net \ {m}
  <2>1. \A x \in {} : x.to = m.from
    OBVIOUS
  <2> QED BY <2>1, TakesMail
<1>3. m \in Out(c) /\ sent[c] /\ In(c) = {} /\ NotYet(c)
  BY <1>1 DEF Known, Out, Observing, NotYet
<1>4. PICK o \in Slot : /\ main'.o = o /\ observers' = [observers EXCEPT ![o] = c]
                        /\ main'.m = m
  BY DEF Takes, Continues
<1>5. \A p \in Slot : observers'[p] = c <=> p = o
  BY <1>1, <1>3, <1>4 DEF Observing, ServerTables
<1>6. Out(c)' \subseteq Out(c) /\ In(c)' = {} /\ Obs(c) \notin net'
  BY <1>2, <1>3 DEF Out, In
<1>7. phase'[c] = "obs" /\ sent'[c] /\ ~ NotYet(c)'
  BY <1>3, <1>6 DEF clientVars, NotYet, Fetching
<1>8. Blocks(c)'
  BY <1>1 DEF Blocks, KeepsClient
<1>9. Observing(c)'
  BY <1>1, <1>4, <1>5, <1>6, <1>7 DEF Observing
<1> QED BY <1>7, <1>8, <1>9 DEF OneAtATime, Fetching, Unregistering

(* The RESET is taken: the client is off the list, or about to be.           *)
LEMMA Unregistered ==
  ASSUME CoapInv, UNCHANGED clientVars, NEW c \in Client, phase[c] = "done",
         NEW m \in net, Known(m), m.from = c, m = Rst(c), Takes(m, {}), observers' = observers,
         main'.pc \in {"recv", "remove"},
         main'.pc = "recv" => \/ \A o \in Slot : observers[o] # c
                              \/ \E o \in Slot : observers[o] = c /\ ~ On(o)
  PROVE  Blocks(c)' /\ OneAtATime(c)' /\ Observing(c)' /\ Unregistering(c)'
<1>1. KeepsClient(c) /\ Blocks(c) /\ Observing(c) /\ Unregistering(c)
  BY Parts DEF KeepsClient, clientVars
<1>2. net' \subseteq net \ {m}
  <2>1. \A x \in {} : x.to = m.from
    OBVIOUS
  <2> QED BY <2>1, TakesMail
<1>3. phase'[c] = "done" /\ ~ NotYet(c)' /\ Out(c)' \subseteq Out(c) /\ UNCHANGED list
  BY <1>2 DEF clientVars, NotYet, Fetching, Out, Takes
<1>4. Blocks(c)'
  BY <1>1 DEF Blocks, KeepsClient
<1>5. Observing(c)'
  BY <1>1, <1>3 DEF Observing
<1>6. \/ main'.pc = "remove" /\ main'.o \in Slot /\ observers'[main'.o] = c
      \/ \A o \in Slot : On(o)' => observers'[o] # c
  <2>1. CASE main'.pc = "remove"
    BY <2>1 DEF Takes, Continues
  <2>2. CASE main'.pc = "recv"
    <3>1. \A o : On(o)' <=> On(o)
      BY <1>3 DEF On
    <3> QED BY <1>1, <2>2, <3>1 DEF Observing
  <2> QED BY <2>1, <2>2
<1> QED BY <1>1, <1>3, <1>4, <1>5, <1>6 DEF Unregistering, OneAtATime, Fetching

LEMMA SenderKeeps ==
  ASSUME CoapInv, UNCHANGED clientVars, NEW m \in net, m.to = "server", Known(m), Handle(m), NEW c \in Client, m.from = c
  PROVE  Blocks(c)' /\ OneAtATime(c)' /\ Observing(c)' /\ Unregistering(c)'
<1>1. CASE ForPending(m)
  <2>1. /\ Takes(m, {}) /\ observers' = observers /\ main'.pc \in {"recv", "ack"}
        /\ (m.type = "ACK" \/ dropped' = dropped \cup ({m.from} \cap Client))
    BY <1>1, ForPendingTakes
  <2>2. m = Rst(c) => c \in dropped'
    BY <2>1 DEF Rst, Datagram
  <2> QED BY <2>1, <2>2, TakenCalm
<1>2. CASE Fetching(c) /\ ~ ForPending(m)
  <2>1. m = NextRequest(c) /\ m.type = "CON"
    <3>1. phase[c] # "obs" /\ phase[c] # "done"
      BY <1>2 DEF Fetching
    <3>2. m = NextRequest(m.from)
      BY <3>1, Sender
    <3>3. NextRequest(c).type = "CON"
      BY <1>2, Requests
    <3>4. m = NextRequest(c)
      BY <3>2
    <3> QED BY <3>3, <3>4
  <2>2. CASE phase[c] \in Simples
    <3>1. m.path = "test"
      BY <1>2, <2>1, <2>2, Requests
    <3>2. Simple(m)
      BY <1>2, <2>1, <3>1, ResetTakes, LargeTakes, UploadTakes, ObserverTakes DEF Handle
    <3>3. /\ Takes(m, RepliesTo(m)) /\ observers' = observers /\ main' = Receiving
          /\ m.path \in {r.path : r \in Plain}
      BY <3>2, SimpleTakes
    <3>4. (\A x \in RepliesTo(m) : x.to = m.from) /\ (\A x, y \in RepliesTo(m) : x = y)
      BY <3>1, <3>3, RepliesToFact
    <3>5. phase[c] # "large"
      BY <2>2 DEF Simples
    <3> QED BY <1>2, <3>3, <3>4, <3>5, Answered
  <2>3. CASE phase[c] \notin Simples
    <3>1. phase[c] = "large" /\ m.path = "large" /\ m.block = blk_ctx[c] /\ m.path \notin PlainPath
      BY <1>2, <2>1, <2>3, Requests DEF PlainPath
    <3>2. large_get(m)
      BY <1>2, <2>1, <3>1, PlainPaths, ResetTakes, SimpleTakes, UploadTakes, ObserverTakes DEF Handle
    <3>3. observers' = observers /\ main' = Receiving
      BY <3>2, LargeTakes
    <3>4. PICK ms, block, more : Takes(m, ms) /\ LargeReply(m, ms, block, more)
      BY <3>2, LargeTakes
    <3>5. blk_ctx[c] \in Nat /\ blk_ctx[c] # None
      <4>1. Blocks(c) /\ BLOCKS \in Nat
        BY Parts, CoapAssumption
      <4>2. blk_ctx[c] \in Nat
        BY <3>1, <4>1 DEF Blocks
      <4> QED BY <4>2, CoapAssumption
    <3>6. /\ \A x \in ms : x.to = m.from /\ x.block = block /\ x.more = more
          /\ \A x, y \in ms : x = y
      <4>1. \A x \in ms : x = Reply(m, "ACK", "content", block, more)
        BY <3>4 DEF LargeReply
      <4> QED BY <4>1 DEF Reply
    <3>7. block = blk_ctx[c] /\ (more <=> block < BLOCKS - 1)
      BY <3>1, <3>4, <3>5 DEF LargeReply
    <3> QED BY <1>2, <3>3, <3>4, <3>6, <3>7, Answered
  <2> QED BY <2>2, <2>3
<1>3. CASE ~ Fetching(c) /\ ~ ForPending(m) /\ IsAck(m, c)
  <2>1. m.type = "ACK" /\ m # Rst(c)
    BY <1>3 DEF IsAck, Ack, Rst, Datagram
  <2>2. m.path \notin {r.path : r \in Plain}
    <3>1. m.path = "none"
      BY <1>3 DEF IsAck, Ack, Datagram
    <3> QED BY <3>1, PlainPaths DEF PlainPath
  <2>3. Reset(m)
    BY <1>3, <2>1, <2>2, SimpleTakes, LargeTakes, UploadTakes, ObserverTakes DEF Handle
  <2>4. Takes(m, {}) /\ observers' = observers /\ main'.pc \in {"recv", "remove"}
    BY <2>3, ResetTakes
  <2>5. main'.pc = "recv"
    BY <2>1, <2>4 DEF Takes, Continues
  <2> QED BY <2>1, <2>4, <2>5, TakenCalm
<1>4. CASE ~ Fetching(c) /\ ~ ForPending(m) /\ ~ IsAck(m, c) /\ phase[c] = "obs"
  <2>1. m = Obs(c)
    BY <1>4, Sender DEF Fetching
  <2>2. m.type = "CON" /\ m.path = "obs" /\ m.method = "observe" /\ m # Rst(c)
    BY <2>1 DEF Obs, Rst, Datagram
  <2>3. m.path \notin {r.path : r \in Plain}
    BY <2>2, PlainPaths DEF PlainPath
  <2>4. ObserverInit(m)
    BY <1>4, <2>2, <2>3, ResetTakes, SimpleTakes, LargeTakes, UploadTakes DEF Handle
  <2>5. Takes(m, {}) /\ \/ main' = Receiving /\ observers' = observers
                        \/ main'.pc = "register"
    BY <2>2, <2>4, ObserverTakes
  <2>6. CASE main'.pc = "register"
    BY <1>4, <2>1, <2>5, <2>6, Registered
  <2>7. CASE main' = Receiving /\ observers' = observers
    <3>1. main'.pc = "recv"
      BY <2>7 DEF Receiving
    <3> QED BY <2>2, <2>5, <2>7, <3>1, TakenCalm
  <2> QED BY <2>5, <2>6, <2>7
<1>5. CASE ~ Fetching(c) /\ ~ ForPending(m) /\ ~ IsAck(m, c) /\ phase[c] # "obs"
  <2>1. m = Rst(c) /\ phase[c] = "done"
    BY <1>5, Sender DEF Fetching
  <2>2. m.type = "RST" /\ m.path = "none"
    BY <2>1 DEF Rst, Datagram
  <2>3. m.path \notin {r.path : r \in Plain}
    BY <2>2, PlainPaths DEF PlainPath
  <2>4. Reset(m)
    BY <1>5, <2>2, <2>3, SimpleTakes, LargeTakes, UploadTakes, ObserverTakes DEF Handle
  <2>5. /\ Takes(m, {}) /\ observers' = observers /\ main'.pc \in {"recv", "remove"}
        /\ main'.pc = "recv" => \/ \A o \in Slot : observers[o] # c
                                \/ \E o \in Slot : observers[o] = c /\ ~ On(o)
    BY <2>2, <2>4, ResetTakes
  <2> QED BY <2>1, <2>5, Unregistered
<1> QED BY <1>1, <1>2, <1>3, <1>4, <1>5

(* main takes a datagram, of a client or of the stranger.                    *)
LEMMA HandleKeeps ==
  ASSUME CoapInv, UNCHANGED clientVars, NEW m, m \in Arrived \/ m \in Strays, Handle(m)
  PROVE  CoapInv'
<1>1. Known(m) /\ (m \in net => m.from \in Client) /\ (m \notin net => m.from = Stranger)
  BY KnownDatagrams
<1>2. PICK ms : Takes(m, ms) /\ \A x \in ms : x.to = m.from
  BY <1>1, HandleTakes
<1>3. ServerTables'
  BY <1>1, <1>2, TakesTables
<1>4. ASSUME NEW c \in Client
      PROVE  Blocks(c)' /\ OneAtATime(c)' /\ Observing(c)' /\ Unregistering(c)'
  <2>1. CASE m.from # c
    BY <1>1, <1>2, <2>1, OthersCalm
  <2>2. CASE m.from = c
    <3>1. m \in net /\ m.to = "server"
      BY <1>1, <2>2, Names DEF Known
    <3> QED BY <1>1, <2>2, <3>1, SenderKeeps
  <2> QED BY <2>1, <2>2
<1> QED BY <1>3, <1>4 DEF CoapInv

(***************************************************************************)
(* The steps of a client.                                                   *)
(***************************************************************************)
LEMMA AfterFact ==
  /\ After("get") = "put" /\ After("put") = "post" /\ After("post") = "delete"
  /\ After("delete") = "large" /\ After("large") = "obs"
<1>1. DOMAIN Order = 1 .. 7
  BY DEF Order
<1>2. /\ Order[1] = "get" /\ Order[2] = "put" /\ Order[3] = "post" /\ Order[4] = "delete"
      /\ Order[5] = "large" /\ Order[6] = "obs" /\ Order[7] = "done"
  BY DEF Order
<1>3. \A i \in DOMAIN Order : i \in {1, 2, 3, 4, 5, 6, 7}
  BY <1>1
<1>4. ASSUME NEW i \in DOMAIN Order, NEW p, Order[i] = p, \A j \in DOMAIN Order : Order[j] = p => j = i
      PROVE  After(p) = Order[1 + i]
  <2>1. (CHOOSE j \in DOMAIN Order : Order[j] = p) = i
    BY <1>4
  <2> QED BY <2>1 DEF After
<1>5. After("get") = Order[1 + 1]
  BY <1>1, <1>2, <1>3, <1>4
<1>6. After("put") = Order[1 + 2]
  BY <1>1, <1>2, <1>3, <1>4
<1>7. After("post") = Order[1 + 3]
  BY <1>1, <1>2, <1>3, <1>4
<1>8. After("delete") = Order[1 + 4]
  BY <1>1, <1>2, <1>3, <1>4
<1>9. After("large") = Order[1 + 5]
  BY <1>1, <1>2, <1>3, <1>4
<1> QED BY <1>2, <1>5, <1>6, <1>7, <1>8, <1>9

(* What c sends and what it takes is no concern of the others.              *)
ClientTables ==
  DOMAIN phase = Client /\ DOMAIN sent = Client /\ DOMAIN blk_ctx = Client /\ DOMAIN got = Client

Exchanges(c) ==
  /\ \A d \in net : d.to # c => d \in net'
  /\ \A d \in net' : d \in net \/ (d.to = "server" /\ d.from = c)
  /\ UNCHANGED <<observers, list, main, dropped>> /\ (lossy => lossy')
  /\ \A e \in Client : e # c => KeepsClient(e)

LEMMA OtherClients ==
  ASSUME CoapInv, NEW c \in Client, Exchanges(c)
  PROVE  /\ ServerTables'
         /\ \A e \in Client : e # c => Blocks(e)' /\ OneAtATime(e)' /\ Observing(e)' /\ Unregistering(e)'
<1>1. ServerTables'
  BY DEF CoapInv, ServerTables, On, Exchanges
<1>2. ASSUME NEW e \in Client, e # c PROVE Blocks(e)' /\ OneAtATime(e)' /\ Observing(e)' /\ Unregistering(e)'
  <2>1. In(e)' \subseteq In(e) /\ Out(e)' \subseteq Out(e)
    BY <1>2, Names DEF In, Out, Exchanges
  <2>2. Rst(e) \in net => Rst(e) \in net'
    BY <1>2, Names DEF Rst, Datagram, Exchanges
  <2>3. KeepsMail(e)
    BY <2>1, <2>2 DEF KeepsMail, Exchanges
  <2>4. KeepsPlace(e)
    BY DEF KeepsPlace, On, Exchanges
  <2> QED BY <1>2, <2>3, <2>4, Calm DEF Exchanges
<1> QED BY <1>1, <1>2

LEMMA SendRequestKeeps ==
  ASSUME ClientTables, CoapInv, NEW c \in Client, SendRequest(c)
  PROVE  CoapInv'
<1>1. /\ UNCHANGED <<observers, list, main, dropped, phase, blk_ctx, got>>
      /\ phase[c] # "done" /\ ~ sent[c] /\ sent' = [sent EXCEPT ![c] = TRUE] /\ Send(net, {NextRequest(c)})
  BY DEF SendRequest, serverVars, tables
<1>2. PICK m : m = NextRequest(c)
  OBVIOUS
<1>3. m.to = "server" /\ m.from = c /\ (phase[c] = "obs" => m = Obs(c))
  <2>1. CASE phase[c] = "obs"
    <3>1. m = Datagram(c, "CON", "observe", "obs", None, FALSE, FALSE, 0)
      <4>1. phase[c] # "large" /\ phase[c] \notin Simples
        BY <2>1 DEF Simples
      <4> QED BY <1>2, <2>1, <4>1 DEF NextRequest
    <3> QED BY <3>1 DEF Datagram, Obs
  <2>2. CASE phase[c] # "obs"
    <3>1. Fetching(c)
      BY <1>1, <2>2 DEF Fetching
    <3>2. NextRequest(c).to = "server" /\ NextRequest(c).from = c
      BY <3>1, Requests
    <3> QED BY <1>2, <2>2, <3>2
  <2> QED BY <2>1, <2>2
<1>4. net \subseteq net' /\ net' \subseteq net \cup {m} /\ (lossy => lossy')
  BY <1>1, <1>2, SendEffect
<1>5. Blocks(c) /\ OneAtATime(c) /\ Observing(c) /\ Unregistering(c)
  BY Parts
<1>6. sent'[c] = TRUE /\ \A e \in Client : e # c => sent'[e] = sent[e]
  BY <1>1 DEF ClientTables
<1>7. \A e \in Client : e # c => KeepsClient(e)
  BY <1>1, <1>6 DEF KeepsClient
<1>8. /\ ServerTables'
      /\ \A e \in Client : e # c => Blocks(e)' /\ OneAtATime(e)' /\ Observing(e)' /\ Unregistering(e)'
  <2>1. Exchanges(c)
    BY <1>1, <1>3, <1>4, <1>7 DEF Exchanges
  <2> QED BY <2>1, OtherClients
<1>9. Out(c) = {} /\ In(c) = {} /\ NotYet(c) /\ (Fetching(c) \/ phase[c] = "obs")
  <2>1. Fetching(c) \/ phase[c] = "obs"
    BY <1>1 DEF Fetching
  <2> QED BY <1>1, <1>5, <2>1 DEF OneAtATime, Observing, NotYet
<1>10. In(c)' = {} /\ Out(c)' \subseteq {m}
  BY <1>3, <1>4, <1>9, Names DEF In, Out
<1>11. Blocks(c)'
  BY <1>1, <1>5, <1>6 DEF Blocks
<1>12. OneAtATime(c)'
  <2>1. NextRequest(c)' = NextRequest(c)
    BY <1>1 DEF NextRequest
  <2> QED BY <1>2, <1>6, <1>10, <2>1 DEF OneAtATime
<1>13. Observing(c)'
  <2>1. ~ (main.pc \in {"register", "reply"} /\ main.m.from = c)
    BY <1>5, <1>9 DEF Observing
  <2>2. \A d \in Out(c)' : phase[c] = "obs" => d = Obs(c)
    BY <1>3, <1>10
  <2> QED BY <1>1, <1>5, <1>6, <1>9, <1>10, <2>1, <2>2 DEF Observing
<1>14. Unregistering(c)'
  BY <1>1 DEF Unregistering
<1> QED BY <1>8, <1>11, <1>12, <1>13, <1>14 DEF CoapInv

(* A client that has taken its answer goes on with nothing under way.        *)
LEMMA TookAnswer ==
  ASSUME ClientTables, CoapInv, NEW c \in Client, NEW d, Take(c, d), Fetching(c), net' = net \ {d}
  PROVE  Out(c)' = {} /\ In(c)' = {} /\ In(c) = {d} /\ \A x \in net : x.to # c => x \in net'
<1>1. d \in In(c)
  BY DEF Take, In
<1>2. Out(c) = {} /\ In(c) = {d}
  <2>1. OneAtATime(c)
    BY Parts
  <2> QED BY <1>1, <2>1 DEF OneAtATime
<1>3. In(c)' \subseteq In(c) \ {d} /\ Out(c)' \subseteq Out(c)
  BY DEF In, Out
<1> QED BY <1>2, <1>3 DEF Take

LEMMA WaitsNoMore ==
  ASSUME CoapInv, NEW c \in Client, Fetching(c), UNCHANGED <<observers, main>>, ~ sent'[c],
         Out(c)' = {}, In(c)' = {}, phase'[c] # "done", Blocks(c)'
  PROVE  OneAtATime(c)' /\ Observing(c)' /\ Unregistering(c)'
<1>1. OneAtATime(c)'
  BY DEF OneAtATime
<1>2. Observing(c) /\ NotYet(c)
  BY Parts DEF NotYet
<1>3. Observing(c)'
  BY <1>2 DEF Observing
<1> QED BY <1>1, <1>3 DEF Unregistering

LEMMA SimpleReplyKeeps ==
  ASSUME ClientTables, CoapInv, NEW c \in Client, NEW d, process_simple_coap_reply(c, d)
  PROVE  CoapInv'
<1>1. /\ UNCHANGED <<observers, list, main, dropped, lossy, blk_ctx, got>>
      /\ Take(c, d) /\ phase[c] \in Simples /\ net' = net \ {d}
      /\ sent' = [sent EXCEPT ![c] = FALSE] /\ phase' = [phase EXCEPT ![c] = After(phase[c])]
  BY DEF process_simple_coap_reply, serverVars, tables
<1>2. Fetching(c)
  BY <1>1 DEF Fetching, Simples
<1>3. Out(c)' = {} /\ In(c)' = {} /\ \A x \in net : x.to # c => x \in net'
  BY <1>1, <1>2, TookAnswer
<1>4. /\ sent'[c] = FALSE /\ phase'[c] = After(phase[c])
      /\ \A e \in Client : e # c => sent'[e] = sent[e] /\ phase'[e] = phase[e]
  BY <1>1 DEF ClientTables
<1>5. phase'[c] \in {"put", "post", "delete", "large"}
  BY <1>1, <1>4, AfterFact DEF Simples
<1>6. Blocks(c)'
  <2>1. blk_ctx[c] = 0 /\ got[c] = {} /\ BLOCKS \in Nat \ {0}
    BY <1>1, Parts, CoapAssumption DEF Blocks
  <2>2. 0 \in 0 .. BLOCKS - 1 /\ 0 .. 0 - 1 = {}
    BY <2>1
  <2>3. blk_ctx'[c] = 0 /\ got'[c] = {}
    BY <1>1, <2>1
  <2> QED BY <1>4, <1>5, <2>2, <2>3 DEF Blocks, Simples
<1>7. Exchanges(c)
  BY <1>1, <1>3, <1>4 DEF Exchanges, KeepsClient
<1>8. OneAtATime(c)' /\ Observing(c)' /\ Unregistering(c)'
  BY <1>1, <1>2, <1>3, <1>4, <1>5, <1>6, WaitsNoMore
<1> QED BY <1>6, <1>7, <1>8, OtherClients DEF CoapInv

LEMMA LargeReplyKeeps ==
  ASSUME ClientTables, CoapInv, NEW c \in Client, NEW d, process_large_coap_reply(c, d)
  PROVE  CoapInv'
<1>1. /\ UNCHANGED <<observers, list, main, dropped, lossy>>
      /\ Take(c, d) /\ phase[c] = "large" /\ net' = net \ {d}
      /\ sent' = [sent EXCEPT ![c] = FALSE]
  BY DEF process_large_coap_reply, serverVars, tables
<1>2. Fetching(c)
  BY <1>1 DEF Fetching
<1>3. Out(c)' = {} /\ In(c)' = {} /\ In(c) = {d} /\ \A x \in net : x.to # c => x \in net'
  BY <1>1, <1>2, TookAnswer
<1>4. d.block = blk_ctx[c] /\ (d.more <=> blk_ctx[c] < BLOCKS - 1)
  BY <1>1, <1>2, <1>3, Parts DEF OneAtATime
<1>5. PICK n : n = blk_ctx[c] /\ n \in 0 .. BLOCKS - 1 /\ got[c] = 0 .. n - 1
  BY <1>1, Parts DEF Blocks
<1>6. /\ sent'[c] = FALSE /\ got'[c] = (0 .. n - 1) \cup {n}
      /\ blk_ctx'[c] = (IF d.more THEN n + 1 ELSE 0)
      /\ phase'[c] = (IF d.more THEN "large" ELSE "obs")
      /\ \A e \in Client : e # c => /\ sent'[e] = sent[e] /\ phase'[e] = phase[e]
                                    /\ got'[e] = got[e] /\ blk_ctx'[e] = blk_ctx[e]
  <2>1. /\ got' = [got EXCEPT ![c] = got[c] \cup {d.block}]
        /\ blk_ctx' = [blk_ctx EXCEPT ![c] = IF d.more THEN d.block + 1 ELSE 0]
        /\ phase' = IF d.more THEN phase ELSE [phase EXCEPT ![c] = After("large")]
    BY Zenon DEF process_large_coap_reply
  <2> QED BY <1>1, <1>4, <1>5, <2>1, AfterFact DEF ClientTables
<1>7. Blocks(c)'
  <2>1. BLOCKS \in Nat \ {0} /\ n \in 0 .. BLOCKS - 1 /\ (d.more <=> n < BLOCKS - 1)
    BY <1>4, <1>5, CoapAssumption
  <2>2. got'[c] = 0 .. n
    BY <1>6, <2>1
  <2>3. CASE d.more
    <3>1. n + 1 \in 0 .. BLOCKS - 1 /\ 0 .. n = 0 .. (n + 1) - 1
      BY <2>1, <2>3
    <3> QED BY <1>6, <2>2, <2>3, <3>1 DEF Blocks, Simples
  <2>4. CASE ~ d.more
    <3>1. n = BLOCKS - 1
      BY <2>1, <2>4
    <3> QED BY <1>6, <2>2, <2>4, <3>1 DEF Blocks, Simples
  <2> QED BY <2>3, <2>4
<1>8. Exchanges(c)
  BY <1>1, <1>3, <1>6 DEF Exchanges, KeepsClient
<1>9. OneAtATime(c)' /\ Observing(c)' /\ Unregistering(c)'
  BY <1>1, <1>2, <1>3, <1>6, <1>7, WaitsNoMore
<1> QED BY <1>7, <1>8, <1>9, OtherClients DEF CoapInv

(* A client that observes takes a reply; with the last one it unregisters.   *)
LEMMA ObsReplyKeeps ==
  ASSUME ClientTables, CoapInv, NEW c \in Client, NEW d, process_obs_coap_reply(c, d)
  PROVE  CoapInv'
<1>1. /\ UNCHANGED <<observers, list, main, dropped, sent, blk_ctx, got>>
      /\ Take(c, d) /\ phase[c] = "obs"
  BY DEF process_obs_coap_reply, serverVars, tables
<1>2. PICK ack : ack = (IF d.type = "CON" THEN {Ack(c, d.id)} ELSE {})
  OBVIOUS
<1>3. /\ \A x \in ack : IsAck(x, c) /\ x.to = "server" /\ x.from = c /\ x # Obs(c)
      /\ Rst(c) # Obs(c) /\ Rst(c).to = "server" /\ Rst(c).from = c
  BY <1>2 DEF IsAck, Ack, Obs, Rst, Datagram
<1>4. /\ blk_ctx[c] = blk_ctx[c] /\ sent[c] /\ d \in In(c) /\ Observing(c) /\ Blocks(c)
  BY <1>1, Parts DEF Take, In
<1>5. Obs(c) \notin net /\ ~ NotYet(c) /\ (main.pc = "register" => main.m.from # c)
  BY <1>1, <1>4 DEF Observing, NotYet, Fetching
<1>6. \A o, p \in Slot : observers[o] = c /\ observers[p] = c => o = p
  BY <1>4 DEF Observing
<1>7. \A x \in Out(c) : IsAck(x, c)
  <2>1. \A x \in Out(c) : x = Obs(c) \/ IsAck(x, c)
    BY <1>1, <1>4 DEF Observing
  <2> QED BY <1>5, <2>1 DEF Out
<1>8. CASE counter[c] + 1 # REPLIES
  <2>1. phase' = phase /\ Send(net \ {d}, ack)
    <3>1. PICK reset : reset = {}
      OBVIOUS
    <3>2. Send(net \ {d}, ack \cup reset)
      BY <1>2, <1>8, <3>1, Zenon DEF process_obs_coap_reply
    <3> QED BY <1>8, <3>1, <3>2 DEF process_obs_coap_reply
  <2>2. net \ {d} \subseteq net' /\ net' \subseteq (net \ {d}) \cup ack /\ (lossy => lossy')
    BY <2>1, SendEffect
  <2>3. Exchanges(c)
    BY <1>1, <1>3, <2>1, <2>2 DEF Exchanges, KeepsClient, Take
  <2>4. phase'[c] = "obs" /\ sent'[c] /\ Obs(c) \notin net' /\ ~ NotYet(c)'
    BY <1>1, <1>3, <1>4, <1>5, <2>1, <2>2 DEF NotYet, Fetching
  <2>5. \A x \in Out(c)' : IsAck(x, c)
    BY <1>3, <1>7, <2>2 DEF Out
  <2>6. Observing(c)'
    BY <1>1, <1>5, <1>6, <2>4, <2>5 DEF Observing
  <2>7. Blocks(c)'
    BY <1>1, <1>4, <2>1 DEF Blocks
  <2> QED BY <2>3, <2>4, <2>6, <2>7, OtherClients DEF CoapInv, OneAtATime, Fetching, Unregistering
<1>9. CASE counter[c] + 1 = REPLIES
  <2>1. phase' = [phase EXCEPT ![c] = "done"]
    BY <1>9 DEF process_obs_coap_reply
  <2>2. Send(net \ Waiting(c, net), ack \cup {Rst(c)})
    BY <1>2, <1>9, Zenon DEF process_obs_coap_reply, Rst
  <2>3. PICK rest : rest = net \ Waiting(c, net)
    OBVIOUS
  <2>4. /\ rest \subseteq net' /\ net' \subseteq rest \cup (ack \cup {Rst(c)}) /\ (lossy => lossy')
        /\ \A x \in ack \cup {Rst(c)} : x.to \in Listening => x \in net' \/ lossy'
    BY <2>2, <2>3, SendEffect
  <2>5. rest \subseteq net /\ \A x \in net : x.to # c => x \in rest
    BY <2>3 DEF Waiting
  <2>6. phase'[c] = "done" /\ \A e \in Client : e # c => phase'[e] = phase[e]
    BY <2>1 DEF ClientTables
  <2>7. Exchanges(c)
    BY <1>1, <1>3, <2>4, <2>5, <2>6 DEF Exchanges, KeepsClient
  <2>8. Obs(c) \notin net' /\ ~ NotYet(c)' /\ \A x \in Out(c)' : x = Rst(c) \/ IsAck(x, c)
    BY <1>3, <1>5, <1>7, <2>4, <2>5, <2>6 DEF Out, NotYet, Fetching
  <2>9. Rst(c) \in net' \/ lossy'
    BY <1>3, <2>4 DEF Listening
  <2>10. Observing(c)'
    BY <1>1, <1>5, <1>6, <2>6, <2>8 DEF Observing
  <2>11. Blocks(c)'
    BY <1>1, <1>4, <2>6 DEF Blocks, Simples
  <2>12. Unregistering(c)'
    BY <2>8, <2>9 DEF Unregistering
  <2> QED BY <2>6, <2>7, <2>10, <2>11, <2>12, OtherClients DEF CoapInv, OneAtATime, Fetching
<1> QED BY <1>8, <1>9

(***************************************************************************)
(* The whole.                                                               *)
(***************************************************************************)
LEMMA TablesKeep ==
  ASSUME ClientTables, [CoapNext]_coapVars
  PROVE  ClientTables'
<1>1. CASE UNCHANGED clientVars
  BY <1>1 DEF ClientTables, clientVars
<1>2. ASSUME NEW c \in Client, ClientStep(c) PROVE ClientTables'
  BY <1>2 DEF ClientStep, SendRequest, process_simple_coap_reply, process_large_coap_reply,
              process_obs_coap_reply, ClientTables
<1>3. CASE UNCHANGED coapVars
  BY <1>1, <1>3 DEF coapVars
<1> QED BY <1>1, <1>2, <1>3 DEF CoapNext, Server

LEMMA CoapStep ==
  ASSUME ClientTables, CoapInv, [CoapNext]_coapVars
  PROVE  CoapInv'
<1>1. CASE Main /\ UNCHANGED clientVars
  BY <1>1, HandleKeeps, ClearAckedKeeps, RemoveKeeps, RegisterKeeps, ObserveReplyKeeps DEF Main
<1>2. CASE HandleStray /\ UNCHANGED clientVars
  BY <1>2, HandleKeeps DEF HandleStray
<1>3. CASE (retransmit_request \/ update_counter \/ Lose) /\ UNCHANGED clientVars
  BY <1>3, RetransmitKeeps, CounterKeeps, LoseKeeps
<1>4. ASSUME NEW c \in Client, ClientStep(c) PROVE CoapInv'
  BY <1>4, SendRequestKeeps, SimpleReplyKeeps, LargeReplyKeeps, ObsReplyKeeps DEF ClientStep
<1>5. CASE UNCHANGED coapVars
  <2>1. UNCHANGED <<observers, list, main, dropped, phase, sent, blk_ctx, got, net, lossy>>
    BY <1>5 DEF coapVars, network, serverVars, tables, clientVars
  <2>2. ServerTables'
    BY <2>1 DEF CoapInv, ServerTables, On
  <2>3. ASSUME NEW c \in Client PROVE KeepsClient(c) /\ KeepsMail(c) /\ KeepsPlace(c)
    BY <2>1 DEF KeepsClient, KeepsMail, KeepsPlace, In, Out, On
  <2> QED BY <2>2, <2>3, Calm DEF CoapInv
<1> QED BY <1>1, <1>2, <1>3, <1>4, <1>5 DEF CoapNext, Server

LEMMA CoapStart ==
  ASSUME CoapInit
  PROVE  ClientTables /\ CoapInv
<1>1. /\ observers = [o \in Slot |-> None] /\ list = <<>> /\ main = Receiving /\ net = {}
      /\ phase = [c \in Client |-> "get"] /\ sent = [c \in Client |-> FALSE]
      /\ blk_ctx = [c \in Client |-> 0] /\ got = [c \in Client |-> {}]
  BY DEF CoapInit, ServerInit
<1>2. ClientTables
  BY <1>1 DEF ClientTables
<1>3. list \in Seq(Slot) /\ DOMAIN list = {}
  BY <1>1
<1>4. ServerTables
  BY <1>1, <1>3 DEF ServerTables, Receiving
<1>5. ASSUME NEW c \in Client PROVE Blocks(c) /\ OneAtATime(c) /\ Observing(c) /\ Unregistering(c)
  <2>1. Blocks(c) /\ Unregistering(c)
    BY <1>1 DEF Blocks, Unregistering, Simples
  <2>2. In(c) = {} /\ Out(c) = {}
    BY <1>1 DEF In, Out
  <2>3. OneAtATime(c)
    BY <1>1, <2>2 DEF OneAtATime
  <2>4. Observing(c)
    BY <1>1, Names DEF Observing, Receiving
  <2> QED BY <2>1, <2>3, <2>4
<1> QED BY <1>2, <1>4, <1>5 DEF CoapInv

LEMMA CoapAlways == CoapSpec => [](ClientTables /\ CoapInv)
<1>1. CoapInit => ClientTables /\ CoapInv
  BY CoapStart
<1>2. ClientTables /\ CoapInv /\ [CoapNext]_coapVars => (ClientTables /\ CoapInv)'
  BY TablesKeep, CoapStep
<1> QED BY <1>1, <1>2, PTL DEF CoapSpec

(* Every client that has gone through get_large_coap_msgs has every block,   *)
(* whatever the other clients and the stranger asked of the one block        *)
(* context of the server, and whatever was lost or overtaken: the number of  *)
(* the block is in every request, and one request or one answer of a client  *)
(* is under way.                                                            *)
THEOREM BlocksAreFetched == CoapSpec => []EveryBlockFetched
<1>1. CoapInv => EveryBlockFetched
  BY DEF CoapInv, Blocks, EveryBlockFetched
<1> QED BY <1>1, CoapAlways, PTL

(* A client whose RESET was handled is off the observer list for good: it    *)
(* never holds a second slot, and it is on the list before it is told        *)
(* anything it could answer with a RESET.                                   *)
THEOREM ResetTakesOffTheList == CoapSpec => []ResetUnregisters
<1>1. CoapInv => ResetUnregisters
  <2> SUFFICES ASSUME CoapInv, NEW c \in Client, phase[c] = "done", ~ lossy, c \notin dropped, ~ ResetUnderWay(c),
                      NEW i \in DOMAIN list
               PROVE  observers[list[i]] # c
    BY DEF ResetUnregisters
  <2>1. list[i] \in Slot /\ On(list[i])
    <3>1. list \in Seq(Slot)
      BY DEF CoapInv, ServerTables
    <3> QED BY <3>1 DEF On
  <2>2. Rst(c) \notin net /\ main.pc # "remove"
    BY DEF ResetUnderWay, Rst, Datagram
  <2> QED BY <2>1, <2>2, Parts DEF Unregistering
<1> QED BY <1>1, CoapAlways, PTL
=============================================================================
