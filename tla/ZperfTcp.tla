------------------------------ MODULE ZperfTcp ------------------------------
(***************************************************************************)
(* samples/net/zperf, the TCP test: the "tcp download" command             *)
(* (zperf_shell.c), the receiver's callbacks (zperf_tcp_receiver.c), its    *)
(* sessions, found by connection (zperf_session.c), and the uploader's loop *)
(* (zperf_tcp_uploader.c).  Connections come from the stack's pool, which  *)
(* hands a closed one out again.                                           *)
(***************************************************************************)
EXTENDS Integers, FiniteSets, FiniteSetsExt

CONSTANTS
  Context,  \* struct net_context: the pool connections are taken from
  Null,     \* no context
  ROWS,     \* SESSION_MAX
  LEAKS     \* bound: segments dropped without a session, which are never freed

ASSUME ZperfTcpAssumption ==
  /\ ROWS \in Nat \ {0} /\ LEAKS \in Nat /\ Null \notin Context

VARIABLES
  init_done, tcp_running,  \* the static flags
  table,       \* sessions[SESSION_TCP]: context and state
  conn,        \* of each context: its connection, and its uploader's loop
  leaked,      \* segments returned from without net_pkt_unref
  blamed       \* history: rows whose connection was reset, or got a lower row

tcpVars == <<init_done, tcp_running, table, conn, leaked, blamed>>

Slot == 1..ROWS
Closed == [at |-> "closed", time_elapsed |-> FALSE]

TcpInit ==
  /\ init_done = FALSE /\ tcp_running = FALSE
  /\ table = [i \in Slot |-> [ctx |-> Null, state |-> "NULL"]]
  /\ conn = [c \in Context |-> Closed]
  /\ leaked = 0 /\ blamed = {}

(* The row that holds this context or is free, whichever comes first: a    *)
(* free row hides the one in use behind it.                                *)
get_tcp_session(c) ==
  LET usable == {i \in Slot : table[i].ctx = c \/ table[i].state \in {"NULL", "COMPLETED"}}
  IN IF usable = {} THEN 0 ELSE Min(usable)

(* zperf_tcp_receiver_init may return early, before anything listens. *)
cmd_tcp_download ==
  /\ ~ tcp_running
  /\ \/ init_done' = TRUE /\ tcp_running' = TRUE
     \/ ~ init_done /\ UNCHANGED <<init_done, tcp_running>>
  /\ UNCHANGED <<table, conn, leaked, blamed>>

tcp_accepted(c) ==
  /\ init_done /\ conn[c].at = "closed"
  /\ conn' = [conn EXCEPT ![c].at = "open"]
  /\ UNCHANGED <<init_done, tcp_running, table, leaked, blamed>>

(* tcp_received: what it makes of row i; the statistics are left out. *)
Take(i, c, eof) == table' = [table EXCEPT ![i] = [ctx |-> c, state |-> IF eof THEN "NULL" ELSE "ONGOING"]]

(* Rows other than i with a session of c that has not ended. *)
LeftBehind(c, i) == {j \in Slot \ {i} : table[j].ctx = c /\ table[j].state = "ONGOING"}

(* One turn of zperf_tcp_upload whose send succeeds - the last one once the *)
(* time is over - and the segment's tcp_received.                          *)
Segment(c) ==
  LET i == get_tcp_session(c) IN
  /\ conn[c].at = "open"
  /\ conn' = [conn EXCEPT ![c].at = IF conn[c].time_elapsed THEN "closing" ELSE "open"]
  /\ IF i = 0
     THEN leaked' = Min({leaked + 1, LEAKS}) /\ UNCHANGED <<table, blamed>>
     ELSE Take(i, c, FALSE) /\ blamed' = blamed \cup LeftBehind(c, i) /\ UNCHANGED leaked
  /\ UNCHANGED <<init_done, tcp_running>>

(* A turn after which the time is over; a send that lacks memory is retried. *)
TimeElapses(c) ==
  /\ conn[c].at = "open" /\ ~ conn[c].time_elapsed
  /\ conn' = [conn EXCEPT ![c].time_elapsed = TRUE]
  /\ UNCHANGED <<init_done, tcp_running, table, leaked, blamed>>

(* Any other error leaves the loop; either way the context is put. *)
TcpSendFails(c) ==
  /\ conn[c].at = "open"
  /\ conn' = [conn EXCEPT ![c].at = "closing"]
  /\ UNCHANGED <<init_done, tcp_running, table, leaked, blamed>>

(* Mutant: the session is not ended. *)
Eof_not_ended(c) ==
  LET i == get_tcp_session(c) IN
  /\ conn[c].at = "closing" /\ i # 0
  /\ conn' = [conn EXCEPT ![c] = Closed]
  /\ Take(i, c, FALSE)
  /\ tcp_running' = FALSE
  /\ blamed' = blamed \cup LeftBehind(c, i)
  /\ UNCHANGED <<init_done, leaked>>

(* tcp_received without a packet and status 0.  Without a session it returns *)
(* before net_context_unref.                                               *)
Eof(c) ==
  LET i == get_tcp_session(c) IN
  /\ conn[c].at = "closing"
  /\ IF i = 0
     THEN conn' = [conn EXCEPT ![c] = [Closed EXCEPT !.at = "kept"]] /\ UNCHANGED <<table, tcp_running, blamed>>
     ELSE /\ conn' = [conn EXCEPT ![c] = Closed]
          /\ Take(i, c, TRUE)
          /\ tcp_running' = FALSE
          /\ blamed' = blamed \cup LeftBehind(c, i)
  /\ UNCHANGED <<init_done, leaked>>

(* tcp_received without a packet and an error: it only counts. *)
Reset(c) ==
  LET i == get_tcp_session(c) IN
  /\ conn[c].at \in {"open", "closing"}
  /\ conn' = [conn EXCEPT ![c] = Closed]
  /\ IF i = 0 THEN UNCHANGED <<table, blamed>>
     ELSE Take(i, c, FALSE) /\ blamed' = blamed \cup {i} \cup LeftBehind(c, i)
  /\ UNCHANGED <<init_done, tcp_running, leaked>>

TcpNext ==
  \/ cmd_tcp_download
  \/ \E c \in Context : tcp_accepted(c) \/ Segment(c) \/ TimeElapses(c) \/ TcpSendFails(c) \/ Eof(c) \/ Reset(c)

-----------------------------------------------------------------------------
(* tcp_received and get_tcp_session: a row stays in use after its connection *)
(* is gone only if the connection was reset, or if it had moved to a row    *)
(* before it that became free; every other end gives its row back.         *)
RowsComeBack ==
  \A i \in Slot :
    (table[i].state = "ONGOING" /\ conn[table[i].ctx].at = "closed") => i \in blamed
=============================================================================
