----------------------------- MODULE AsyncEcho -----------------------------
(***************************************************************************)
(* samples/net/sockets/echo_async and echo_async_select: one thread serves   *)
(* all connections from what poll, or select, has said of them.  One server  *)
(* socket, with descriptor 0, stands for both.                              *)
(*                                                                         *)
(* A pass over the results handles sockets that earlier steps of the same    *)
(* pass opened and closed; the kernel hands out the lowest free descriptor.  *)
(***************************************************************************)
EXTENDS Integers, Sequences, FiniteSets, SequencesExt, FiniteSetsExt

CONSTANTS
  NUM_FDS,       \* entries of pollfds
  CALLERS,       \* bound: connections, one after the other
  CALLER_BYTES   \* bound: pieces of data a connection sends

ASSUME AsyncEchoAssumption == NUM_FDS \in Nat \ {0} /\ CALLERS \in Nat /\ CALLER_BYTES \in Nat

Descriptors == 1 .. CALLERS

VARIABLES
  select,      \* echo_async_select; a descriptor is then its own entry
  pollfds,     \* entries behind the server's: a descriptor, or -1
  revents,     \* entries found readable by the last poll
  cursor,      \* the entry the pass has come to, and what it does there
  owner,       \* connection of each descriptor; 0 when it is free
  queue,       \* connections that wait for accept
  calls,       \* connections so far
  unread,      \* data of each connection that has not been read
  left,        \* connections whose peer closed or reset
  turned_away, \* history: connections there was no entry for
  shut         \* history: connections the server closed

asyncVars == <<select, pollfds, revents, cursor, owner, queue, calls, unread, left, turned_away, shut>>
callerVars == <<queue, calls, unread, left>>

Polling == [at |-> "poll", i |-> 0, fd |-> 0]

AsyncInit ==
  /\ select \in BOOLEAN /\ pollfds = <<>> /\ revents = {} /\ cursor = Polling
  /\ owner = [d \in Descriptors |-> 0] /\ queue = <<>> /\ calls = 0
  /\ unread = [c \in 1 .. CALLERS |-> 0] /\ left = {} /\ turned_away = {} /\ shut = {}

-----------------------------------------------------------------------------
(* Peers *)

OnTheLine(c) == c <= calls /\ c \notin shut \cup turned_away \cup left

CallerConnects ==
  /\ calls < CALLERS /\ calls' = calls + 1 /\ queue' = Append(queue, calls')
  /\ UNCHANGED <<select, pollfds, revents, cursor, owner, unread, left, turned_away, shut>>

CallerSends(c) ==
  /\ OnTheLine(c) /\ unread[c] < CALLER_BYTES /\ unread' = [unread EXCEPT ![c] = @ + 1]
  /\ UNCHANGED <<select, pollfds, revents, cursor, owner, queue, calls, left, turned_away, shut>>

CallerLeaves(c) ==
  /\ OnTheLine(c) /\ left' = left \cup {c}
  /\ UNCHANGED <<select, pollfds, revents, cursor, owner, queue, calls, unread, turned_away, shut>>

-----------------------------------------------------------------------------
(* The server *)

Readable(d) == d > 0 /\ owner[d] # 0 /\ (unread[owner[d]] > 0 \/ owner[d] \in left)

(* poll and select return when there is something to do, and say of every    *)
(* entry whether it is readable.                                           *)
poll ==
  LET ready == {i \in DOMAIN pollfds : Readable(pollfds[i])} \cup (IF queue # <<>> THEN {0} ELSE {}) IN
  /\ cursor = Polling /\ ready # {} /\ revents' = ready
  /\ cursor' = [Polling EXCEPT !.at = "pass"]
  /\ UNCHANGED <<select, pollfds, owner, callerVars, turned_away, shut>>

Advance == cursor' = [cursor EXCEPT !.at = "pass", !.i = @ + 1, !.fd = 0]

pass_skips ==
  /\ cursor.at = "pass" /\ cursor.i \notin revents
  /\ IF cursor.i > Len(pollfds) THEN cursor' = Polling ELSE Advance
  /\ UNCHANGED <<select, pollfds, revents, owner, callerVars, turned_away, shut>>

(* pollfds_add: a new entry, then one that is free, then none; FD_SET.       *)
FreeEntries == {i \in DOMAIN pollfds : pollfds[i] < 0}

pollfds_add(d) ==
  CASE select -> [i \in 1 .. Max({d, Len(pollfds)}) |-> IF i = d THEN d ELSE IF i \in DOMAIN pollfds THEN pollfds[i] ELSE -1]
    [] ~ select /\ Len(pollfds) + 1 < NUM_FDS -> Append(pollfds, d)
    [] ~ select /\ Len(pollfds) + 1 >= NUM_FDS /\ FreeEntries # {} -> [pollfds EXCEPT ![Min(FreeEntries)] = d]
    [] OTHER -> pollfds

(* The connection there is no entry for is told so, and closed. *)
pass_accepts ==
  LET d == Min({f \in Descriptors : owner[f] = 0})  c == Head(queue) IN
  /\ cursor.at = "pass" /\ cursor.i = 0 /\ 0 \in revents /\ Advance
  /\ queue' = Tail(queue)
  /\ pollfds' = pollfds_add(d)
  /\ IF d \in Range(pollfds') THEN owner' = [owner EXCEPT ![d] = c] /\ UNCHANGED turned_away
     ELSE turned_away' = turned_away \cup {c} /\ UNCHANGED owner
  /\ UNCHANGED <<select, revents, calls, unread, left, shut>>

(* accept fails: the peer has left the queue, or no descriptor is free.       *)
(* echo_async says so and goes on; echo_async_select makes an entry of -1, *)
(* and ends with the program when that cannot be set not to block.           *)
accept_fails ==
  /\ cursor.at = "pass" /\ cursor.i = 0 /\ 0 \in revents
  /\ \/ UNCHANGED queue
     \/ Head(queue) \in left /\ queue' = Tail(queue)
  /\ \/ ~ select /\ Advance /\ UNCHANGED <<pollfds, owner, shut>>
     \/ /\ select /\ cursor' = [cursor EXCEPT !.at = "exited"]
        /\ pollfds' = <<>> /\ owner' = [d \in Descriptors |-> 0]
        /\ shut' = shut \cup {owner[d] : d \in {e \in Descriptors : owner[e] # 0}}
  /\ UNCHANGED <<select, revents, calls, unread, left, turned_away>>

(* The entry of a socket that is closed stays. *)
pollfds_del_forgets(d) == pollfds

(* pollfds_del, FD_CLR *)
pollfds_del(d) ==
  [i \in DOMAIN pollfds |-> IF i = Min({j \in DOMAIN pollfds : pollfds[j] = d}) THEN -1 ELSE pollfds[i]]

Close(d) ==
  /\ pollfds' = (IF d \in Range(pollfds) THEN pollfds_del(d) ELSE pollfds)
  /\ owner' = [owner EXCEPT ![d] = 0] /\ shut' = shut \cup {owner[d]} /\ Advance

(* recv does not block: with nothing to read it fails, like at the end. *)
pass_receives ==
  LET d == pollfds[cursor.i] IN
  /\ cursor.at = "pass" /\ cursor.i > 0 /\ cursor.i \in revents
  /\ IF d > 0 /\ owner[d] # 0 /\ unread[owner[d]] > 0
     THEN /\ \E n \in 1 .. unread[owner[d]] : unread' = [unread EXCEPT ![owner[d]] = @ - n]
          /\ cursor' = [cursor EXCEPT !.at = "send", !.fd = d]
          /\ UNCHANGED <<pollfds, owner, shut>>
     ELSE /\ UNCHANGED unread
          /\ IF d > 0 /\ owner[d] # 0 THEN Close(d) ELSE Advance /\ UNCHANGED <<pollfds, owner, shut>>
  /\ UNCHANGED <<select, revents, queue, calls, left, turned_away>>

(* The sends are blocking: all others wait for this peer, or for its end.   *)
pass_sends ==
  /\ cursor.at = "send"
  /\ \/ Advance /\ UNCHANGED <<pollfds, owner, shut>>
     \/ owner[cursor.fd] \in left /\ Close(cursor.fd)
  /\ UNCHANGED <<select, revents, callerVars, turned_away>>

AsyncNext ==
  /\ cursor.at # "exited"
  /\ \/ CallerConnects \/ \E c \in 1 .. CALLERS : CallerSends(c) \/ CallerLeaves(c)
     \/ poll \/ pass_skips \/ pass_accepts \/ accept_fails \/ pass_receives \/ pass_sends

-----------------------------------------------------------------------------
(* Properties *)

(* The pass of main: however connections come and go while it works off the  *)
(* results of one poll, and whichever descriptors and entries they take      *)
(* over, each open connection has one entry of its own, no entry is of a      *)
(* socket that is closed, and echo_async keeps to its NUM_FDS of them.  None   *)
(* is closed that its peer has not left, until an accept fails in            *)
(* echo_async_select, which takes all down with it.  That one takes callers   *)
(* without limit: "NUM_FDS be minus 2", as it says, does not bind it.        *)
HealthyStayConnected ==
  /\ \/ shut \subseteq left
     \/ select /\ cursor.at = "exited"
  /\ \A d \in Descriptors : owner[d] # 0 => Cardinality({i \in DOMAIN pollfds : pollfds[i] = d}) = 1
  /\ \A i \in DOMAIN pollfds : pollfds[i] > 0 => owner[pollfds[i]] # 0
  /\ ~ select => Len(pollfds) < NUM_FDS
=============================================================================
