------------------------------ MODULE ZperfUdp ------------------------------
(***************************************************************************)
(* samples/net/zperf, the UDP test: uploaders (zperf_udp_uploader.c)       *)
(* number their datagrams 0, 1, ... and close with the negated count; the  *)
(* receiver (zperf_udp_receiver.c) keeps a table of sessions by source     *)
(* (zperf_session.c) and answers the closing datagram with what it counted.*)
(* The network loses and reorders.                                         *)
(***************************************************************************)
EXTENDS Integers, FiniteSets, FiniteSetsExt

CONSTANTS
  Host,         \* source addresses with their ports, each running one upload at a time
  Nobody,       \* the zeroed address of a session never used
  NoStat,       \* the null pointer for a statistics packet
  SESSION_MAX,  \* rows of the session table
  PACKETS,      \* bound: datagrams in one upload of each host
  UPLOADS,      \* bound: uploads of each host
  QUEUE         \* bound: datagrams in flight

ASSUME ZperfUdpAssumption ==
  /\ SESSION_MAX \in Nat \ {0} /\ PACKETS \in [Host -> Nat \ {0}] /\ UPLOADS \in [Host -> Nat]
  /\ QUEUE \in Nat /\ Nobody \notin Host

VARIABLES
  server,      \* the receiver: "stopped", "listening", or "failed" for good
  net,         \* datagrams and replies in flight
  sessions,    \* sessions[SESSION_UDP], with what each has seen since its reset
  upload,      \* of each host: where zperf_udp_upload is, and its local variables
  heard,       \* history: <<host, run, closing>> of which a session took a datagram
  overtaken,   \* history: hosts of which one came after the closing one, or an upload too late
  unanswered,   \* history: hosts an upload of which ended without a report
  dead_frame   \* history: hosts whose callback wrote to a frame already left

netVars == <<server, net>>
udpVars == <<server, net, sessions, upload, heard, overtaken, unanswered, dead_frame>>

Row == 1..SESSION_MAX

(* struct zperf_server_hdr; of and run, whose upload it counts, are history. *)
ZeroStat == [error_cnt |-> 0, outorder_cnt |-> 0, datagrams |-> 0, of |-> Nobody, run |-> 0]

(* zperf_reset_session_stats.  got and twice are history: the ids counted,  *)
(* and whether one of them was counted again.                              *)
Fresh == [counter |-> 0, next_id |-> 0, outorder |-> 0, error |-> 0, got |-> {}, twice |-> FALSE]

Datagram(h, run, id) == [from |-> h, run |-> run, id |-> id]
Reply(m, stat, known) == [to |-> m.from, run |-> m.run, id |-> m.id, stat |-> stat, known |-> known]

Idle(run) == [at |-> "idle", run |-> run, nb_packets |-> 0, loop |-> 0, stat |-> NoStat]

(* zperf_session_init *)
UdpInit ==
  /\ server = "stopped"
  /\ net = {}
  /\ sessions = [i \in Row |-> [host |-> Nobody, state |-> "NULL", count |-> Fresh, stat |-> ZeroStat]]
  /\ upload = [h \in Host |-> Idle(0)]
  /\ heard = {} /\ overtaken = {} /\ unanswered = {} /\ dead_frame = {}

(* What a send makes of the network: the datagram may be lost. *)
Carry(from, sent) ==
  \/ net' = from
  \/ Cardinality(from \cup sent) <= QUEUE /\ net' = from \cup sent

ToServer(sent) == IF server = "listening" THEN Carry(net, sent) ELSE UNCHANGED net

(* A datagram reaches its callback. *)
Arrive(m, answer) == m \in net /\ Carry(net \ {m}, answer) /\ UNCHANGED server

-----------------------------------------------------------------------------
(* The receiver *)

(* zperf_udp_receiver_init may return early; the command does not notice,   *)
(* says that the server has started and refuses every later start.         *)
cmd_udp_download ==
  /\ server = "stopped"
  /\ server' \in {"listening", "failed"}
  /\ UNCHANGED <<net, sessions, upload, heard, overtaken, unanswered, dead_frame>>

(* Mutant: stops at a free row, as the TCP test does. *)
get_session_first_free(h) ==
  LET usable == {i \in Row : sessions[i].host = h \/ sessions[i].state # "ONGOING"}
  IN IF usable = {} THEN 0 ELSE Min(usable)

(* The row of this source, whatever its state, else the first that is not  *)
(* in use; 0 when all are.                                                 *)
get_session(h) ==
  LET active == {i \in Row : sessions[i].host = h}
      free == {i \in Row : sessions[i].state \in {"NULL", "COMPLETED"}}
  IN IF active # {} THEN Min(active) ELSE IF free # {} THEN Min(free) ELSE 0

(* The header id against the next one expected: a gap is taken for losses,  *)
(* a smaller id for a datagram out of order.                               *)
Counted(c, id) ==
  [counter  |-> c.counter + 1,
   outorder |-> IF id < c.next_id THEN c.outorder + 1 ELSE c.outorder,
   error    |-> IF id > c.next_id THEN c.error + (id - c.next_id) ELSE c.error,
   next_id  |-> IF id < c.next_id THEN c.next_id ELSE id + 1,
   got      |-> c.got \cup {id},
   twice    |-> c.twice \/ id \in c.got]

Filled(c, m) == [error_cnt |-> c.error, outorder_cnt |-> c.outorder, datagrams |-> c.counter,
                 of |-> m.from, run |-> m.run]

(* Mutant: zperf_reset_session_stats forgets next_id. *)
Updated_next_id_kept(s, m) ==
  IF s.state = "ONGOING"
  THEN IF m.id < 0
       THEN [s EXCEPT !.host = m.from, !.state = "COMPLETED", !.stat = Filled(s.count, m)]
       ELSE [s EXCEPT !.host = m.from, !.count = Counted(@, m.id)]
  ELSE IF m.id < 0
       THEN [s EXCEPT !.host = m.from]
       ELSE [s EXCEPT !.host = m.from, !.state = "ONGOING", !.count = [Fresh EXCEPT !.next_id = s.count.next_id]]

(* The session after datagram m, or FIN m, is taken in row i: the row keeps *)
(* the state and the statistics it had under another source.  The datagram *)
(* that opens a session is not counted.                                    *)
Updated(s, m) ==
  IF s.state = "ONGOING"
  THEN IF m.id < 0
       THEN [s EXCEPT !.host = m.from, !.state = "COMPLETED", !.stat = Filled(s.count, m)]
       ELSE [s EXCEPT !.host = m.from, !.count = Counted(@, m.id)]
  ELSE IF m.id < 0
       THEN [s EXCEPT !.host = m.from]
       ELSE [s EXCEPT !.host = m.from, !.state = "ONGOING", !.count = Fresh]

udp_received(m) ==
  LET i == get_session(m.from)
      s == Updated(sessions[i], m)
      answer == IF i # 0 /\ m.id < 0
                THEN {Reply(m, s.stat, <<m.from, m.run, FALSE>> \in heard)} ELSE {}
  IN /\ Arrive(m, answer)
     /\ sessions' = IF i = 0 THEN sessions ELSE [sessions EXCEPT ![i] = s]
     /\ heard' = IF i = 0 THEN heard ELSE heard \cup {<<m.from, m.run, m.id < 0>>}
     /\ overtaken' = IF m.run < upload[m.from].run \/ <<m.from, m.run, TRUE>> \in heard
                     THEN overtaken \cup {m.from} ELSE overtaken
     /\ UNCHANGED <<upload, unanswered, dead_frame>>

-----------------------------------------------------------------------------
(* The uploader *)

Begin(h) ==
  /\ upload[h].at = "idle" /\ upload[h].run < UPLOADS[h]
  /\ upload' = [upload EXCEPT ![h].at = "send", ![h].run = @ + 1]
  /\ UNCHANGED <<netVars, sessions, heard, overtaken, unanswered, dead_frame>>

(* One turn of the send loop; it may be the last. *)
SendDatagram(h) ==
  /\ upload[h].at = "send"
  /\ ToServer({Datagram(h, upload[h].run, upload[h].nb_packets)})
  /\ \E over \in BOOLEAN :
       /\ upload[h].nb_packets + 1 < PACKETS[h] \/ over
       /\ upload' = [upload EXCEPT ![h].nb_packets = @ + 1,
                                   ![h].at = IF over THEN "fin" ELSE "send",
                                   ![h].loop = IF over THEN 2 ELSE 0]
  /\ UNCHANGED <<server, sessions, heard, overtaken, unanswered, dead_frame>>

(* net_context_send fails: the loop ends, perhaps before anything was sent. *)
SendFails(h) ==
  /\ upload[h].at = "send"
  /\ upload' = [upload EXCEPT ![h].at = "fin", ![h].loop = 2]
  /\ UNCHANGED <<netVars, sessions, heard, overtaken, unanswered, dead_frame>>

(* zperf_upload_fin: while (!stat && loop-- > 0).  Nothing sent makes the   *)
(* closing id 0, which is no closing id.                                   *)
SendFin(h) ==
  /\ upload[h].at = "fin" /\ upload[h].loop > 0
  /\ \/ /\ ToServer({Datagram(h, upload[h].run, - upload[h].nb_packets)})
        /\ upload' = [upload EXCEPT ![h].loop = @ - 1, ![h].at = "wait", ![h].stat = NoStat]
     \/ /\ upload' = [upload EXCEPT ![h].loop = @ - 1]
        /\ UNCHANGED net
  /\ UNCHANGED <<server, sessions, heard, overtaken, unanswered, dead_frame>>

(* No FIN could be sent, and none was waited on: the context is put. *)
GiveUp(h) ==
  /\ upload[h].at = "fin" /\ upload[h].loop = 0
  /\ upload' = [upload EXCEPT ![h] = Idle(@.run)]
  /\ unanswered' = unanswered \cup {h}
  /\ UNCHANGED <<netVars, sessions, heard, overtaken, dead_frame>>

(* stat_received stores the packet through its user data, a local variable  *)
(* of zperf_upload_fin; it stays registered until the context is put.      *)
stat_received(m) ==
  /\ Arrive(m, {})
  /\ upload' = IF upload[m.to].at \in {"wait", "drain"} THEN [upload EXCEPT ![m.to].stat = m] ELSE upload
  /\ dead_frame' = IF upload[m.to].at = "print" THEN dead_frame \cup {m.to} ELSE dead_frame
  /\ UNCHANGED <<sessions, heard, overtaken, unanswered>>

(* net_context_recv returns, with a packet or after two seconds without:    *)
(* zperf_upload_decode_stat.  A time-out is not followed by another FIN.   *)
RecvReturns(h) ==
  /\ upload[h].at = "wait"
  /\ upload' = [upload EXCEPT ![h].at = IF upload[h].stat = NoStat THEN "print" ELSE "drain",
                              ![h].stat = NoStat, ![h].loop = 0]
  /\ unanswered' = IF upload[h].stat = NoStat THEN unanswered \cup {h} ELSE unanswered
  /\ UNCHANGED <<netVars, sessions, heard, overtaken, dead_frame>>

(* Drain RX, until a receive without waiting brings nothing. *)
Drain(h) ==
  /\ upload[h].at = "drain"
  /\ upload' = [upload EXCEPT ![h].at = IF upload[h].stat = NoStat THEN "print" ELSE "drain", ![h].stat = NoStat]
  /\ UNCHANGED <<netVars, sessions, heard, overtaken, unanswered, dead_frame>>

(* execute_upload: shell_udp_upload_print_stats, then net_context_put. *)
Put(h) ==
  /\ upload[h].at = "print"
  /\ upload' = [upload EXCEPT ![h] = Idle(@.run)]
  /\ UNCHANGED <<netVars, sessions, heard, overtaken, unanswered, dead_frame>>

Uploader(h) == Begin(h) \/ SendDatagram(h) \/ SendFails(h) \/ SendFin(h) \/ GiveUp(h)
               \/ RecvReturns(h) \/ Drain(h) \/ Put(h)

UdpNext ==
  \/ cmd_udp_download
  \/ \E h \in Host : Uploader(h)
  \/ \E m \in {d \in net : "from" \in DOMAIN d} : udp_received(m)
  \/ \E m \in {d \in net : "to" \in DOMAIN d} : stat_received(m)

-----------------------------------------------------------------------------
(* Properties *)

(* What udp_received reports lost, less what came out of order, is what has *)
(* not arrived of the ids below the next one - whatever was lost, delayed,  *)
(* or left over in the row by another upload.  The datagram that opened the *)
(* session is not counted, so id 0 is always among the missing.            *)
LossIsWhatIsMissing ==
  \A i \in Row : LET c == sessions[i].count IN
    ~ c.twice =>
      /\ c.counter = Cardinality(c.got)
      /\ c.error - c.outorder = Cardinality((0 .. (c.next_id - 1)) \ c.got)

(* get_session and the states of a session: an uploader of whose data some  *)
(* came through is answered with the counts of that very upload, never a    *)
(* row's previous ones, and they stay below what it sent - unless one of    *)
(* its datagrams came after a closing one, or an upload gave up waiting.   *)
(* zperf_upload_fin leaves its stack variable registered as user data: the  *)
(* callback writes to the frame after the return only when the wait timed   *)
(* out before, for each upload asks once more only if a send failed.       *)
ReportsAreOfTheUpload ==
  /\ \A m \in net : ("to" \in DOMAIN m /\ m.known) =>
       \/ m.to \in overtaken \cup unanswered
       \/ m.stat.of = m.to /\ m.stat.run = m.run /\ m.stat.datagrams < - m.id
  /\ dead_frame \subseteq unanswered
=============================================================================
