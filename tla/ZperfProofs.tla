---------------------------- MODULE ZperfProofs ----------------------------
(***************************************************************************)
(* Proofs about Zperf: the UDP test counts losses right, its reports are of  *)
(* the upload they answer, and sessions, contexts and addresses come back,  *)
(* for any number of hosts, rows, datagrams, connections and contexts.      *)
(***************************************************************************)
EXTENDS Zperf, TLAPS, FiniteSetTheorems, WellFoundedInduction

-----------------------------------------------------------------------------
(* The invariant *)

Counts == [counter : Nat, next_id : Nat, outorder : Nat, error : Nat, got : SUBSET Nat, twice : BOOLEAN]
Stats == [error_cnt : Nat, outorder_cnt : Nat, datagrams : Nat, of : Host \cup {Nobody}, run : Nat]
Sessions == [host : Host \cup {Nobody}, state : {"NULL", "ONGOING", "COMPLETED"}, count : Counts, stat : Stats]
Datagrams == [from : Host, run : Nat, id : Int]
Replies == [to : Host, run : Nat, id : Int, stat : Stats, known : BOOLEAN]
UploadStates == [at : {"idle", "send", "fin", "wait", "drain", "print"}, run : Nat, nb_packets : Nat,
                 loop : 0 .. 2, stat : Replies \cup {NoStat}]

UdpTypes ==
  /\ net \subseteq Datagrams \cup Replies
  /\ sessions \in [Row -> Sessions]
  /\ upload \in [Host -> UploadStates]

Missing(c) == (0 .. (c.next_id - 1)) \ c.got

(* The ids counted lie below the next one expected.                         *)
CountsRight(c) ==
  /\ c.got \subseteq 0 .. (c.next_id - 1)
  /\ ~ c.twice => /\ c.counter = Cardinality(c.got)
                  /\ c.error - c.outorder = Cardinality(Missing(c))

LossInv == UdpTypes /\ \A i \in Row : CountsRight(sessions[i].count)

-----------------------------------------------------------------------------
(* Counting *)

LEMMA BelowNext ==
  ASSUME NEW n \in Nat, NEW S, S \subseteq 0 .. (n - 1)
  PROVE  /\ IsFiniteSet(S) /\ Cardinality(S) \in Nat
         /\ IsFiniteSet((0 .. (n - 1)) \ S) /\ Cardinality((0 .. (n - 1)) \ S) \in Nat
<1>1. IsFiniteSet(0 .. (n - 1))
  BY FS_Interval
<1>2. IsFiniteSet(S) /\ IsFiniteSet((0 .. (n - 1)) \ S)
  BY <1>1, FS_Subset
<1> QED BY <1>2, FS_CardinalityType

(* One more id, below the next one, just so, or beyond it.                  *)
LEMMA CountedRight ==
  ASSUME NEW c \in Counts, CountsRight(c), NEW id \in Nat
  PROVE  CountsRight(Counted(c, id)) /\ Counted(c, id) \in Counts
<1> DEFINE n == c.next_id
           g == c.got
           k == Counted(c, id)
           full == 0 .. (n - 1)
<1>1. /\ n \in Nat /\ c.counter \in Nat /\ c.outorder \in Nat /\ c.error \in Nat /\ g \subseteq full
      /\ ~ c.twice => c.counter = Cardinality(g) /\ c.error - c.outorder = Cardinality(full \ g)
  BY DEF Counts, CountsRight, Missing
<1>2. /\ k.counter = c.counter + 1
      /\ k.outorder = IF id < n THEN c.outorder + 1 ELSE c.outorder
      /\ k.error = IF id > n THEN c.error + (id - n) ELSE c.error
      /\ k.next_id = IF id < n THEN n ELSE id + 1
      /\ k.got = g \cup {id}
      /\ ~ k.twice => ~ c.twice /\ id \notin g
  BY DEF Counted
<1>3. k \in Counts
  BY DEF Counted, Counts
<1> HIDE DEF n, g, k
<1>4. k.got \subseteq 0 .. (k.next_id - 1)
  <2> DEFINE last == k.next_id - 1
  <2>1. \A x \in g : x \in Nat /\ x < n
    BY ONLY <1>1
  <2>2. CASE id < n
    <3>1. last = n - 1 /\ k.got = g \cup {id}
      BY ONLY <1>2, <2>2
    <3>2. \A x \in g \cup {id} : x \in 0 .. (n - 1)
      BY ONLY <1>1, <2>1, <2>2, id \in Nat
    <3> HIDE DEF last
    <3>3. k.got \subseteq 0 .. last
      BY ONLY <3>1, <3>2
    <3> QED BY ONLY <3>3 DEF last
  <2>3. CASE ~ (id < n)
    <3>1. k.next_id - 1 = id /\ n <= id
      BY ONLY <1>1, <1>2, <2>3, id \in Nat
    <3>2. \A x \in g \cup {id} : x \in 0 .. id
      BY ONLY <1>1, <2>1, <3>1, id \in Nat
    <3>3. k.got = g \cup {id} /\ last = id
      BY ONLY <1>2, <3>1
    <3> HIDE DEF last
    <3>4. k.got \subseteq 0 .. last
      BY ONLY <3>2, <3>3
    <3> QED BY ONLY <3>4 DEF last
  <2> QED BY <2>2, <2>3
<1>5. ASSUME ~ k.twice
      PROVE  /\ k.counter = Cardinality(k.got)
             /\ k.error - k.outorder = Cardinality((0 .. (k.next_id - 1)) \ k.got)
  <2>1. id \notin g /\ c.counter = Cardinality(g) /\ c.error - c.outorder = Cardinality(full \ g)
    BY <1>1, <1>2, <1>5
  <2>2. IsFiniteSet(g) /\ Cardinality(g) \in Nat /\ IsFiniteSet(full \ g) /\ Cardinality(full \ g) \in Nat
    BY ONLY <1>1, BelowNext
  <2>3. k.counter = Cardinality(k.got)
    <3>1. Cardinality(g \cup {id}) = Cardinality(g) + 1
      BY ONLY <2>1, <2>2, FS_AddElement
    <3> QED BY ONLY <1>2, <2>1, <3>1
  <2>4. CASE id < n
    <3>1. (0 .. (k.next_id - 1)) \ k.got = (full \ g) \ {id} /\ id \in full \ g
      BY ONLY <1>1, <1>2, <2>1, <2>4, id \in Nat
    <3>2. Cardinality((full \ g) \ {id}) = Cardinality(full \ g) - 1
      BY ONLY <2>2, <3>1, FS_RemoveElement
    <3>3. k.error = c.error /\ k.outorder = c.outorder + 1
      BY ONLY <1>1, <1>2, <2>4, id \in Nat
    <3> DEFINE m == Cardinality(full \ g)
    <3>4. m \in Nat /\ c.error - c.outorder = m /\ Cardinality((0 .. (k.next_id - 1)) \ k.got) = m - 1
      BY ONLY <2>1, <2>2, <3>1, <3>2
    <3> HIDE DEF m
    <3> QED BY ONLY <1>1, <2>3, <3>3, <3>4
  <2>5. CASE ~ (id < n)
    <3> DEFINE gap == n .. (id - 1)
    <3>1. (0 .. (k.next_id - 1)) \ k.got = (full \ g) \cup gap
      <4>1. 0 .. (k.next_id - 1) = 0 .. id
        BY ONLY <1>2, <2>5, id \in Nat
      <4>2. \A x \in Nat : x \in gap => x \notin g
        BY ONLY <1>1
      <4> QED BY ONLY <1>1, <1>2, <2>1, <2>5, <4>1, <4>2, id \in Nat
    <3>2. (full \ g) \cap gap = {}
      BY ONLY <1>1
    <3>3. IsFiniteSet(gap) /\ Cardinality(gap) = id - n
      <4>1. id - 1 \in Int /\ n \in Int
        BY ONLY <1>1, id \in Nat
      <4>2. /\ IsFiniteSet(gap)
            /\ Cardinality(gap) = IF n > id - 1 THEN 0 ELSE (id - 1) - n + 1
        BY ONLY <4>1, FS_Interval
      <4> QED BY ONLY <1>1, <2>5, <4>2, id \in Nat
    <3> HIDE DEF gap, full
    <3>4. Cardinality((full \ g) \cup gap) = Cardinality(full \ g) + Cardinality(gap)
      <4>1. Cardinality((full \ g) \cup gap)
              = Cardinality(full \ g) + Cardinality(gap) - Cardinality((full \ g) \cap gap)
        BY ONLY <2>2, <3>3, FS_Union
      <4>2. Cardinality((full \ g) \cap gap) = 0
        BY ONLY <3>2, FS_EmptySet
      <4>3. Cardinality(gap) \in Nat
        BY ONLY <3>3, FS_CardinalityType
      <4> QED BY ONLY <2>2, <4>1, <4>2, <4>3
    <3>5. k.error = c.error + (id - n) /\ k.outorder = c.outorder
      BY ONLY <1>1, <1>2, <2>5, id \in Nat
    <3> DEFINE m == Cardinality(full \ g)
    <3>6. /\ m \in Nat /\ c.error - c.outorder = m
          /\ Cardinality((0 .. (k.next_id - 1)) \ k.got) = m + (id - n)
      BY ONLY <2>1, <2>2, <3>1, <3>3, <3>4
    <3> HIDE DEF m
    <3> QED BY ONLY <1>1, <2>3, <3>5, <3>6, id \in Nat
  <2> QED BY <2>4, <2>5
<1>6. CountsRight(k)
  BY ONLY <1>4, <1>5 DEF CountsRight, Missing
<1> QED BY <1>3, <1>6 DEF k

-----------------------------------------------------------------------------
(* The receiver *)

LEMMA FreshRight == Fresh \in Counts /\ CountsRight(Fresh)
<1>1. 0 .. (0 - 1) = {}
  OBVIOUS
<1>2. {} \ {} = {} /\ Cardinality({}) = 0
  BY FS_EmptySet
<1>3. Fresh \in Counts
  BY DEF Fresh, Counts
<1>4. Fresh.got = {} /\ Fresh.next_id = 0 /\ Fresh.counter = 0 /\ Fresh.error = 0 /\ Fresh.outorder = 0
  BY DEF Fresh
<1>5. Missing(Fresh) = {}
  BY <1>1, <1>4 DEF Missing
<1> QED BY <1>2, <1>3, <1>4, <1>5 DEF CountsRight

(* get_session takes the first row it can.                                  *)
LEMMA MinIsIn ==
  ASSUME NEW S, S \subseteq Nat, S # {}
  PROVE  Min(S) \in S
<1>1. PICK x \in S : \A y \in S : ~ (<<y, x>> \in OpToRel(<, Nat))
  BY NatLessThanWellFounded, WFMin
<1>2. \A y \in S : x =< y
  <2> SUFFICES ASSUME NEW y \in S PROVE x =< y
    OBVIOUS
  <2>1. x \in Nat /\ y \in Nat
    OBVIOUS
  <2>2. ~ (y < x)
    BY <1>1, <2>1 DEF OpToRel
  <2> QED BY <2>1, <2>2
<1>3. \E z \in S : \A y \in S : z =< y
  BY <1>2
<1> QED BY <1>3 DEF Min

(* A datagram, and what the rows are filled with from one.                  *)
LEMMA UpdatedRight ==
  ASSUME NEW s \in Sessions, CountsRight(s.count), NEW m \in Datagrams
  PROVE  Updated(s, m) \in Sessions /\ CountsRight(Updated(s, m).count)
<1>1. /\ s.host \in Host \cup {Nobody} /\ s.state \in {"NULL", "ONGOING", "COMPLETED"}
      /\ s.count \in Counts /\ s.stat \in Stats
      /\ s = [host |-> s.host, state |-> s.state, count |-> s.count, stat |-> s.stat]
      /\ m.from \in Host /\ m.run \in Nat /\ m.id \in Int
  BY DEF Sessions, Datagrams
<1>2. CASE s.state = "ONGOING" /\ m.id < 0
  <2>1. Filled(s.count, m) \in Stats
    BY <1>1 DEF Filled, Counts, Stats
  <2>2. Updated(s, m) = [host |-> m.from, state |-> "COMPLETED", count |-> s.count, stat |-> Filled(s.count, m)]
    BY <1>1, <1>2 DEF Updated
  <2> QED BY <1>1, <2>1, <2>2 DEF Sessions
<1>3. CASE s.state = "ONGOING" /\ ~ (m.id < 0)
  <2>1. m.id \in Nat
    BY <1>1, <1>3
  <2>2. CountsRight(Counted(s.count, m.id)) /\ Counted(s.count, m.id) \in Counts
    BY <1>1, <2>1, CountedRight
  <2>3. Updated(s, m) = [host |-> m.from, state |-> s.state, count |-> Counted(s.count, m.id), stat |-> s.stat]
    BY <1>1, <1>3 DEF Updated
  <2> QED BY <1>1, <2>2, <2>3 DEF Sessions
<1>4. CASE s.state # "ONGOING" /\ m.id < 0
  <2>1. Updated(s, m) = [host |-> m.from, state |-> s.state, count |-> s.count, stat |-> s.stat]
    BY <1>1, <1>4 DEF Updated
  <2> QED BY <1>1, <2>1 DEF Sessions
<1>5. CASE s.state # "ONGOING" /\ ~ (m.id < 0)
  <2>1. Updated(s, m) = [host |-> m.from, state |-> "ONGOING", count |-> Fresh, stat |-> s.stat]
    BY <1>1, <1>5 DEF Updated
  <2> QED BY <1>1, <2>1, FreshRight DEF Sessions
<1> QED BY <1>2, <1>3, <1>4, <1>5

LEMMA InFlight ==
  ASSUME UdpTypes, NEW m \in net
  PROVE  /\ "from" \in DOMAIN m => m \in Datagrams
         /\ "to" \in DOMAIN m => m \in Replies
<1>1. m \in Datagrams \cup Replies
  BY DEF UdpTypes
<1>2. m \in Datagrams => DOMAIN m = {"from", "run", "id"}
  BY DEF Datagrams
<1>3. m \in Replies => DOMAIN m = {"to", "run", "id", "stat", "known"}
  BY DEF Replies
<1> QED BY ONLY <1>1, <1>2, <1>3

LEMMA Carried ==
  ASSUME UdpTypes, NEW from, from \subseteq net, NEW sent, sent \subseteq Datagrams \cup Replies,
         Carry(from, sent)
  PROVE  net' \subseteq Datagrams \cup Replies
BY DEF UdpTypes, Carry

LEMMA ReceivedKeeps ==
  ASSUME LossInv, NEW m \in net, "from" \in DOMAIN m, udp_received(m)
  PROVE  LossInv'
<1> DEFINE i == get_session(m.from)
           s == Updated(sessions[i], m)
           answer == IF i # 0 /\ m.id < 0
                     THEN {Reply(m, s.stat, <<m.from, m.run, FALSE>> \in heard)} ELSE {}
<1>1. /\ Arrive(m, answer) /\ UNCHANGED upload
      /\ sessions' = IF i = 0 THEN sessions ELSE [sessions EXCEPT ![i] = s]
  BY DEF udp_received
<1>2. m \in Datagrams /\ UdpTypes /\ sessions \in [Row -> Sessions] /\ \A r \in Row : CountsRight(sessions[r].count)
  BY InFlight DEF LossInv, UdpTypes
<1>3. i = 0 \/ i \in Row
  <2> DEFINE active == {r \in Row : sessions[r].host = m.from}
             free == {r \in Row : sessions[r].state \in {"NULL", "COMPLETED"}}
  <2>1. active \subseteq Nat /\ free \subseteq Nat
    BY DEF Row
  <2>2. active # {} => Min(active) \in active
    BY <2>1, MinIsIn
  <2>3. free # {} => Min(free) \in free
    BY <2>1, MinIsIn
  <2>4. i = IF active # {} THEN Min(active) ELSE IF free # {} THEN Min(free) ELSE 0
    BY DEF get_session
  <2> HIDE DEF i
  <2> QED BY <2>2, <2>3, <2>4
<1> HIDE DEF i
<1>4. i \in Row => s \in Sessions /\ CountsRight(s.count)
  BY <1>2, UpdatedRight
<1>5. net' \subseteq Datagrams \cup Replies
  <2>1. answer \subseteq Replies
    <3>1. i \in Row => Reply(m, s.stat, <<m.from, m.run, FALSE>> \in heard) \in Replies
      BY <1>2, <1>4 DEF Reply, Replies, Datagrams, Sessions
    <3> QED BY <1>3, <3>1
  <2> HIDE DEF answer
  <2>2. Carry(net \ {m}, answer)
    BY <1>1 DEF Arrive
  <2> QED BY <1>2, <2>1, <2>2, Carried
<1> HIDE DEF s
<1>6. sessions' \in [Row -> Sessions] /\ \A r \in Row : CountsRight(sessions'[r].count)
  <2>1. CASE i = 0
    BY <1>1, <1>2, <2>1
  <2>2. CASE i # 0
    <3>1. i \in Row /\ s \in Sessions /\ CountsRight(s.count) /\ sessions' = [sessions EXCEPT ![i] = s]
      BY <1>1, <1>3, <1>4, <2>2
    <3>2. \A r \in Row : sessions'[r] = IF r = i THEN s ELSE sessions[r]
      BY <1>2, <3>1
    <3> QED BY <1>2, <3>1, <3>2
  <2> QED BY <2>1, <2>2
<1> QED BY <1>1, <1>2, <1>5, <1>6 DEF LossInv, UdpTypes, CountsRight, Missing

-----------------------------------------------------------------------------
(* The uploaders, and the specification *)

(* An upload is replaced by one of its states. *)
LEMMA UploadSet ==
  ASSUME UdpTypes, NEW h \in Host, NEW u \in UploadStates, upload' = [upload EXCEPT ![h] = u]
  PROVE  upload' \in [Host -> UploadStates]
BY DEF UdpTypes

LEMMA UploadChanges ==
  ASSUME NEW u \in UploadStates, NEW a \in {"idle", "send", "fin", "wait", "drain", "print"},
         NEW n \in Nat, NEW l \in 0 .. 2
  PROVE  /\ [u EXCEPT !.at = a, !.loop = l] \in UploadStates
         /\ [u EXCEPT !.at = a, !.stat = NoStat] \in UploadStates
         /\ [u EXCEPT !.at = a, !.stat = NoStat, !.loop = l] \in UploadStates
         /\ [u EXCEPT !.nb_packets = n, !.at = a, !.loop = l] \in UploadStates
BY DEF UploadStates

LEMMA UploaderKeeps ==
  ASSUME LossInv, NEW h \in Host, Uploader(h)
  PROVE  LossInv'
<1> DEFINE u == upload[h]
           Sent == Datagrams \cup Replies
           State(a, r, n, l, st) == [at |-> a, run |-> r, nb_packets |-> n, loop |-> l, stat |-> st]
<1>1. /\ UdpTypes /\ net \subseteq Sent /\ upload \in [Host -> UploadStates] /\ u \in UploadStates
      /\ u.run \in Nat /\ u.nb_packets \in Nat /\ u.loop \in 0 .. 2 /\ u.stat \in Replies \cup {NoStat}
      /\ u.at \in {"idle", "send", "fin", "wait", "drain", "print"}
      /\ u = State(u.at, u.run, u.nb_packets, u.loop, u.stat)
  BY DEF LossInv, UdpTypes, UploadStates
<1>2. sessions' = sessions
  BY DEF Uploader, Begin, SendDatagram, SendFails, SendFin, GiveUp, RecvReturns, Drain, Put
<1>3. \A n \in Int : Datagram(h, u.run, n) \in Datagrams
  BY <1>1 DEF Datagram, Datagrams
<1>4. Idle(u.run) \in UploadStates
  BY <1>1 DEF Idle, UploadStates
<1>5. ASSUME NEW n \in Int, ToServer({Datagram(h, u.run, n)}) PROVE net' \subseteq Sent
  <2>1. {Datagram(h, u.run, n)} \subseteq Sent
    BY <1>3
  <2> QED BY <1>1, <1>5, <2>1, Carried DEF ToServer
<1>6. \A a \in {"idle", "send", "fin", "wait", "drain", "print"}, r \in Nat, n \in Nat, l \in 0 .. 2,
        st \in Replies \cup {NoStat} : State(a, r, n, l, st) \in UploadStates
  BY DEF UploadStates
<1>7. net' \subseteq Sent /\ upload' \in [Host -> UploadStates]
  <2>1. CASE Begin(h)
    <3>1. upload' = [upload EXCEPT ![h] = State("send", u.run + 1, u.nb_packets, u.loop, u.stat)] /\ net' = net
      BY <1>1, <2>1 DEF Begin, netVars
    <3>2. State("send", u.run + 1, u.nb_packets, u.loop, u.stat) \in UploadStates
      BY <1>1, <1>6
    <3> QED BY <1>1, <3>1, <3>2, UploadSet
  <2>2. CASE SendDatagram(h)
    <3>1. net' \subseteq Sent
      BY <1>1, <1>5, <2>2 DEF SendDatagram
    <3>2. PICK over \in BOOLEAN :
             upload' = [upload EXCEPT ![h].nb_packets = @ + 1,
                                      ![h].at = IF over THEN "fin" ELSE "send",
                                      ![h].loop = IF over THEN 2 ELSE 0]
      BY <2>2 DEF SendDatagram
    <3> DEFINE at == IF over THEN "fin" ELSE "send"
               turns == IF over THEN 2 ELSE 0
    <3>3. upload' = [upload EXCEPT ![h] = [u EXCEPT !.nb_packets = u.nb_packets + 1, !.at = at, !.loop = turns]]
      BY <1>1, <3>2
    <3>4. at \in {"send", "fin"} /\ turns \in 0 .. 2 /\ u.nb_packets + 1 \in Nat
      BY <1>1
    <3> HIDE DEF at, turns, u
    <3>5. [u EXCEPT !.nb_packets = u.nb_packets + 1, !.at = at, !.loop = turns] \in UploadStates
      BY ONLY <1>1, <3>4, UploadChanges
    <3> QED BY ONLY <1>1, <3>1, <3>3, <3>5, UploadSet, h \in Host
  <2>3. CASE SendFails(h)
    <3>1. upload' = [upload EXCEPT ![h] = [u EXCEPT !.at = "fin", !.loop = 2]] /\ net' = net
      BY <1>1, <2>3 DEF SendFails, netVars
    <3> HIDE DEF u
    <3>2. [u EXCEPT !.at = "fin", !.loop = 2] \in UploadStates
      <4>1. 2 \in 0 .. 2
        OBVIOUS
      <4> QED BY ONLY <1>1, <4>1, UploadChanges
    <3> QED BY ONLY <1>1, <3>1, <3>2, UploadSet, h \in Host
  <2>4. CASE SendFin(h)
    <3>1. u.loop > 0 /\ - u.nb_packets \in Int
      BY <1>1, <2>4 DEF SendFin
    <3> DEFINE sent == State("wait", u.run, u.nb_packets, u.loop - 1, NoStat)
               failed == State(u.at, u.run, u.nb_packets, u.loop - 1, u.stat)
    <3>2. \/ ToServer({Datagram(h, u.run, - u.nb_packets)}) /\ upload' = [upload EXCEPT ![h] = sent]
          \/ upload' = [upload EXCEPT ![h] = failed] /\ net' = net
      BY <1>1, <2>4 DEF SendFin
    <3>3. u.loop - 1 \in 0 .. 2
      BY <1>1, <3>1
    <3>4. sent \in UploadStates /\ failed \in UploadStates
      BY <1>1, <1>6, <3>3
    <3>5. CASE ToServer({Datagram(h, u.run, - u.nb_packets)}) /\ upload' = [upload EXCEPT ![h] = sent]
      BY <1>1, <1>5, <3>1, <3>4, <3>5, UploadSet
    <3>6. CASE upload' = [upload EXCEPT ![h] = failed] /\ net' = net
      BY <1>1, <3>4, <3>6, UploadSet
    <3> QED BY <3>2, <3>5, <3>6
  <2>5. CASE GiveUp(h) \/ Put(h)
    <3>1. upload' = [upload EXCEPT ![h] = Idle(u.run)] /\ net' = net
      BY <1>1, <2>5 DEF GiveUp, Put, netVars
    <3> QED BY <1>1, <1>4, <3>1, UploadSet
  <2>6. CASE RecvReturns(h)
    <3> DEFINE at == IF u.stat = NoStat THEN "print" ELSE "drain"
    <3>1. upload' = [upload EXCEPT ![h] = [u EXCEPT !.at = at, !.stat = NoStat, !.loop = 0]] /\ net' = net
      BY <1>1, <2>6 DEF RecvReturns, netVars
    <3>2. at \in {"print", "drain"}
      OBVIOUS
    <3> HIDE DEF at, u
    <3>3. [u EXCEPT !.at = at, !.stat = NoStat, !.loop = 0] \in UploadStates
      <4>1. 0 \in 0 .. 2
        OBVIOUS
      <4> QED BY ONLY <1>1, <3>2, <4>1, UploadChanges
    <3> QED BY ONLY <1>1, <3>1, <3>3, UploadSet, h \in Host
  <2>7. CASE Drain(h)
    <3> DEFINE at == IF u.stat = NoStat THEN "print" ELSE "drain"
    <3>1. upload' = [upload EXCEPT ![h] = [u EXCEPT !.at = at, !.stat = NoStat]] /\ net' = net
      BY <1>1, <2>7 DEF Drain, netVars
    <3>2. at \in {"print", "drain"}
      OBVIOUS
    <3> HIDE DEF at, u
    <3>3. [u EXCEPT !.at = at, !.stat = NoStat] \in UploadStates
      BY ONLY <1>1, <3>2, UploadChanges
    <3> QED BY ONLY <1>1, <3>1, <3>3, UploadSet, h \in Host
  <2> QED BY <2>1, <2>2, <2>3, <2>4, <2>5, <2>6, <2>7 DEF Uploader
<1> QED BY <1>2, <1>7 DEF LossInv, UdpTypes, CountsRight, Missing

LEMMA StatKeeps ==
  ASSUME LossInv, NEW m \in net, "to" \in DOMAIN m, stat_received(m)
  PROVE  LossInv'
<1>1. /\ UdpTypes /\ m \in Replies /\ m.to \in Host /\ upload \in [Host -> UploadStates]
      /\ upload[m.to] \in UploadStates
  BY InFlight DEF LossInv, UdpTypes, Replies
<1>2. net' \subseteq Datagrams \cup Replies
  <2>1. Carry(net \ {m}, {})
    BY DEF stat_received, Arrive
  <2> QED BY <1>1, <2>1, Carried
<1>3. [upload[m.to] EXCEPT !.stat = m] \in UploadStates
  BY <1>1 DEF UploadStates
<1>4. upload' = upload \/ upload' = [upload EXCEPT ![m.to] = [upload[m.to] EXCEPT !.stat = m]]
  BY <1>1 DEF stat_received
<1>5. upload' \in [Host -> UploadStates]
  BY <1>1, <1>3, <1>4, UploadSet
<1>6. sessions' = sessions
  BY DEF stat_received
<1> QED BY <1>2, <1>5, <1>6 DEF LossInv, UdpTypes, CountsRight, Missing

LEMMA LossInitially == UdpInit => LossInv
<1> SUFFICES ASSUME UdpInit PROVE LossInv
  OBVIOUS
<1>1. ZeroStat \in Stats
  BY DEF ZeroStat, Stats
<1>2. [host |-> Nobody, state |-> "NULL", count |-> Fresh, stat |-> ZeroStat] \in Sessions
  BY <1>1, FreshRight DEF Sessions
<1>3. /\ net = {} /\ upload = [h \in Host |-> Idle(0)]
      /\ sessions = [i \in Row |-> [host |-> Nobody, state |-> "NULL", count |-> Fresh, stat |-> ZeroStat]]
  BY DEF UdpInit
<1>4. Idle(0) \in UploadStates
  BY DEF Idle, UploadStates
<1>5. UdpTypes
  BY ONLY <1>2, <1>3, <1>4 DEF UdpTypes
<1>6. \A i \in Row : sessions[i].count = Fresh
  BY <1>3
<1> QED BY <1>5, <1>6, FreshRight DEF LossInv

LEMMA LossKept == LossInv /\ [Next]_vars => LossInv'
<1> SUFFICES ASSUME LossInv, [Next]_vars PROVE LossInv'
  OBVIOUS
<1>1. UdpNext \/ UNCHANGED udpVars
  BY DEF Next, Udp, Tcp, Shell, vars
<1>2. CASE UdpNext
  <2>1. CASE cmd_udp_download
    BY <2>1 DEF cmd_udp_download, LossInv, UdpTypes, CountsRight, Missing
  <2> QED BY <1>2, <2>1, UploaderKeeps, ReceivedKeeps, StatKeeps DEF UdpNext
<1>3. CASE UNCHANGED udpVars
  BY <1>3 DEF udpVars, LossInv, UdpTypes, CountsRight, Missing
<1> QED BY <1>1, <1>2, <1>3

(* udp_received: whatever the network loses, delays and reorders, and        *)
(* whichever upload a row served before, the errors a session counts less    *)
(* what came out of order are the ids below the next one it has not had.    *)
THEOREM LossIsRight == Spec => []LossIsWhatIsMissing
<1>1. Init => LossInv
  BY LossInitially DEF Init
<1>2. LossInv /\ [Next]_vars => LossInv'
  BY LossKept
<1>3. LossInv => LossIsWhatIsMissing
  BY DEF LossInv, CountsRight, Missing, LossIsWhatIsMissing
<1> QED BY <1>1, <1>2, <1>3, PTL DEF Spec

-----------------------------------------------------------------------------
(* The invariant of the reports *)

Took(h, r) == <<h, r, FALSE>> \in heard
Ended(h, r) == <<h, r, TRUE>> \in heard

(* Nothing is of a run that has not begun.                                  *)
RunsInOrder ==
  /\ \A h \in Host : upload[h].at # "idle" => upload[h].run >= 1
  /\ \A m \in net : m \in Datagrams => 1 <= m.run /\ m.run <= upload[m.from].run
  /\ \A h \in Host, r \in Nat : Took(h, r) \/ Ended(h, r) => 1 <= r /\ r <= upload[h].run

(* No two rows are of one source.                                          *)
OneRowEach ==
  /\ \A i \in Row : sessions[i].state = "ONGOING" => sessions[i].host \in Host
  /\ \A i, j \in Row : sessions[i].host \in Host /\ sessions[i].host = sessions[j].host => i = j

(* What h may be waiting for: its closing datagram, or the report.          *)
Fin(m, h) == m \in Datagrams /\ m.from = h /\ m.id < 0
Report(m, h) == m \in Replies /\ m.to = h

(* An upload sends one closing datagram and waits for its report; it goes    *)
(* on without one only if it has given up.                                 *)
Waits(h) ==
  LET u == upload[h] IN
  /\ \A m \in net : Fin(m, h) \/ Report(m, h) =>
       /\ u.at = "wait" /\ u.stat = NoStat /\ m.run = u.run
       /\ Fin(m, h) => m.id = - u.nb_packets
       /\ Report(m, h) => Ended(h, m.run)
       /\ \A n \in net : Fin(n, h) \/ Report(n, h) => n = m
  /\ u.at \in {"idle", "send", "fin"} => u.stat = NoStat
  /\ u.stat # NoStat \/ u.at \in {"drain", "print"} \/ (u.at = "idle" /\ u.run > 0) => Ended(h, u.run)

(* The session counts each datagram of this run once, but for the first it   *)
(* had.                                                                    *)
Tally(c, h, r, n) ==
  /\ ~ c.twice /\ c.got \subseteq 0 .. (n - 1)
  /\ \A id \in c.got : Datagram(h, r, id) \notin net
  /\ \E first \in 0 .. (n - 1) : first \notin c.got /\ Datagram(h, r, first) \notin net

(* The row of h is in use between the first datagram of its run and the      *)
(* closing one.                                                            *)
InSession(h) ==
  LET u == upload[h]
      r == u.run
      n == u.nb_packets
      open == Took(h, r) /\ ~ Ended(h, r)
      Serves(i) == sessions[i].host = h /\ sessions[i].state = "ONGOING"
  IN
  /\ \A i \in Row : Serves(i) => open /\ (n > 0 => Tally(sessions[i].count, h, r, n))
  /\ open => (\E i \in Row : Serves(i)) /\ (n > 0 \/ u.at = "wait")
  /\ ~ Ended(h, r) => \A id \in Nat : Datagram(h, r, id) \in net => id < n \/ (n = 0 /\ u.at = "wait")

ReportsRight ==
  \A m \in net : m \in Replies /\ m.known =>
    \/ m.to \in overtaken \cup unanswered
    \/ m.stat.of = m.to /\ m.stat.run = m.run /\ m.stat.datagrams < - m.id

ReportInv ==
  /\ LossInv /\ RunsInOrder /\ OneRowEach /\ ReportsRight /\ dead_frame \subseteq unanswered
  /\ \A h \in Host : /\ h \notin unanswered => Waits(h)
                     /\ h \notin overtaken \cup unanswered => InSession(h)

-----------------------------------------------------------------------------
(* The reports: what the steps of an upload leave alone                     *)

LEMMA KindsApart == \A m \in Datagrams : m \notin Replies
<1>1. \A m \in Datagrams : DOMAIN m = {"from", "run", "id"}
  BY DEF Datagrams
<1>2. \A m \in Replies : DOMAIN m = {"to", "run", "id", "stat", "known"}
  BY DEF Replies
<1> QED BY ONLY <1>1, <1>2

LEMMA DatagramIs ==
  ASSUME NEW h \in Host, NEW r \in Nat, NEW id \in Int
  PROVE  /\ Datagram(h, r, id) \in Datagrams /\ Datagram(h, r, id) \notin Replies
         /\ Datagram(h, r, id).from = h /\ Datagram(h, r, id).run = r /\ Datagram(h, r, id).id = id
BY KindsApart DEF Datagram, Datagrams

(* Who waits goes on waiting for what is left in flight for it.             *)
LEMMA StillWaits ==
  ASSUME NEW g \in Host, Waits(g), upload'[g] = upload[g], heard \subseteq heard',
         \A m \in net' : Fin(m, g) \/ Report(m, g) => m \in net
  PROVE  Waits(g)'
BY DEF Waits, Fin, Report, Ended

(* A session goes on while nothing of its run is added to what is in flight. *)
LEMMA StillInSession ==
  ASSUME NEW g \in Host, InSession(g), UNCHANGED <<sessions, heard>>, upload[g].run \in Nat,
         upload'[g].run = upload[g].run, upload'[g].nb_packets = upload[g].nb_packets,
         upload[g].at = "wait" => upload'[g].at = "wait" \/ Ended(g, upload[g].run),
         \A id \in Nat : Datagram(g, upload[g].run, id) \in net' => Datagram(g, upload[g].run, id) \in net,
         upload[g].nb_packets \in Nat
  PROVE  InSession(g)'
<1> DEFINE u == upload[g]
           r == u.run
           n == u.nb_packets
           Serves(i) == sessions[i].host = g /\ sessions[i].state = "ONGOING"
           open == Took(g, r) /\ ~ Ended(g, r)
<1>1. /\ \A i \in Row : Serves(i) => open /\ (n > 0 => Tally(sessions[i].count, g, r, n))
      /\ open => (\E i \in Row : Serves(i)) /\ (n > 0 \/ u.at = "wait")
      /\ ~ Ended(g, r) => \A id \in Nat : Datagram(g, r, id) \in net => id < n \/ (n = 0 /\ u.at = "wait")
  BY DEF InSession
<1>2. /\ upload'[g].run = r /\ upload'[g].nb_packets = n /\ sessions' = sessions
      /\ \A b : Took(g, b)' <=> Took(g, b)
      /\ \A b : Ended(g, b)' <=> Ended(g, b)
  BY DEF Took, Ended
<1>3. \A i \in Row : n > 0 /\ Tally(sessions[i].count, g, r, n) => Tally(sessions[i].count, g, r, n)'
  <2> SUFFICES ASSUME NEW i \in Row, n > 0, Tally(sessions[i].count, g, r, n)
               PROVE  Tally(sessions[i].count, g, r, n)'
    OBVIOUS
  <2> DEFINE c == sessions[i].count
  <2>1. /\ ~ c.twice /\ c.got \subseteq 0 .. (n - 1)
        /\ \A id \in c.got : Datagram(g, r, id) \notin net
        /\ \E first \in 0 .. (n - 1) : first \notin c.got /\ Datagram(g, r, first) \notin net
    BY DEF Tally
  <2> HIDE DEF c
  <2>2. \A id \in 0 .. (n - 1) : Datagram(g, r, id) \notin net => Datagram(g, r, id) \notin net'
    OBVIOUS
  <2> HIDE DEF r, n
  <2>3. /\ ~ c.twice /\ c.got \subseteq 0 .. (n - 1)
        /\ \A id \in c.got : Datagram(g, r, id) \notin net'
        /\ \E first \in 0 .. (n - 1) : first \notin c.got /\ Datagram(g, r, first) \notin net'
    BY ONLY <2>1, <2>2
  <2>4. c' = c /\ r' = r /\ n' = n
    BY <1>2 DEF c, r, n
  <2> QED BY <2>3, <2>4 DEF Tally, Datagram, c
<1> QED BY <1>1, <1>2, <1>3 DEF InSession, Took, Ended, Datagram

-----------------------------------------------------------------------------
(* The reports: the steps of an upload                                      *)

(* What all of an uploader's steps have in common.                          *)
LEMMA UploaderFrame ==
  ASSUME LossInv, NEW h \in Host, Uploader(h)
  PROVE  /\ UNCHANGED <<sessions, heard, overtaken, dead_frame>>
         /\ unanswered' = unanswered \/ unanswered' = unanswered \cup {h}
         /\ \A g \in Host : g # h => upload'[g] = upload[g]
         /\ \/ net' = net
            \/ /\ upload[h].at # "idle"
               /\ \E id \in Int : net' = net \cup {Datagram(h, upload[h].run, id)}
         /\ upload[h].run \in Nat /\ upload'[h].run \in Nat /\ upload[h].run <= upload'[h].run
         /\ upload'[h].at # "idle" => upload'[h].run >= 1 \/ upload[h].at # "idle"
<1> DEFINE u == upload[h]
<1>1. /\ upload \in [Host -> UploadStates] /\ upload[h] \in UploadStates
      /\ u.run \in Nat /\ u.nb_packets \in Nat /\ - u.nb_packets \in Int
  BY DEF LossInv, UdpTypes, UploadStates
<1>2. ASSUME NEW id \in Int, ToServer({Datagram(h, u.run, id)})
      PROVE  net' = net \/ net' = net \cup {Datagram(h, u.run, id)}
  BY <1>2 DEF ToServer, Carry
<1>3. CASE Begin(h)
  BY <1>1, <1>3 DEF Begin, netVars, UploadStates
<1>4. CASE SendDatagram(h)
  <2>1. net' = net \/ \E id \in Int : net' = net \cup {Datagram(h, u.run, id)}
    BY <1>1, <1>2, <1>4 DEF SendDatagram
  <2>2. PICK over \in BOOLEAN :
           upload' = [upload EXCEPT ![h].nb_packets = @ + 1,
                                    ![h].at = IF over THEN "fin" ELSE "send",
                                    ![h].loop = IF over THEN 2 ELSE 0]
    BY <1>4 DEF SendDatagram
  <2>3. /\ \A g \in Host : g # h => upload'[g] = upload[g]
        /\ upload'[h].run = u.run
    BY <1>1, <2>2 DEF UploadStates
  <2> QED BY <1>1, <1>4, <2>1, <2>3 DEF SendDatagram
<1>5. CASE SendFails(h)
  BY <1>1, <1>5 DEF SendFails, netVars, UploadStates
<1>6. CASE SendFin(h)
  <2>1. net' = net \/ \E id \in Int : net' = net \cup {Datagram(h, u.run, id)}
    BY <1>1, <1>2, <1>6 DEF SendFin
  <2>2. /\ \A g \in Host : g # h => upload'[g] = upload[g]
        /\ upload'[h].run = u.run
    BY <1>1, <1>6 DEF SendFin, UploadStates
  <2> QED BY <1>1, <1>6, <2>1, <2>2 DEF SendFin
<1>7. CASE GiveUp(h) \/ Put(h)
  BY <1>1, <1>7 DEF GiveUp, Put, netVars, Idle
<1>8. CASE RecvReturns(h)
  BY <1>1, <1>8 DEF RecvReturns, netVars, UploadStates
<1>9. CASE Drain(h)
  BY <1>1, <1>9 DEF Drain, netVars, UploadStates
<1> QED BY <1>3, <1>4, <1>5, <1>6, <1>7, <1>8, <1>9 DEF Uploader

(* All that does not concern the upload itself.                            *)
LEMMA UploaderLeaves ==
  ASSUME ReportInv, NEW h \in Host, Uploader(h)
  PROVE  /\ RunsInOrder' /\ OneRowEach' /\ ReportsRight' /\ dead_frame' \subseteq unanswered'
         /\ \A g \in Host : g # h =>
              /\ g \notin unanswered' => Waits(g)'
              /\ g \notin overtaken' \cup unanswered' => InSession(g)'
<1>1. /\ LossInv /\ UdpTypes /\ RunsInOrder /\ OneRowEach /\ ReportsRight /\ dead_frame \subseteq unanswered
      /\ \A g \in Host : /\ g \notin unanswered => Waits(g)
                         /\ g \notin overtaken \cup unanswered => InSession(g)
  BY DEF ReportInv, LossInv
<1>2. /\ UNCHANGED <<sessions, heard, overtaken, dead_frame>>
      /\ unanswered \subseteq unanswered'
      /\ \A g \in Host : g # h => upload'[g] = upload[g]
      /\ \/ net' = net
         \/ upload[h].at # "idle" /\ \E id \in Int : net' = net \cup {Datagram(h, upload[h].run, id)}
      /\ upload[h].run \in Nat /\ upload'[h].run \in Nat /\ upload[h].run <= upload'[h].run
      /\ upload'[h].at # "idle" => upload'[h].run >= 1 \/ upload[h].at # "idle"
  BY <1>1, UploaderFrame
<1>3. ASSUME NEW m \in net', m \notin net
      PROVE  /\ m \in Datagrams /\ m \notin Replies /\ m.from = h /\ m.run = upload[h].run
             /\ upload[h].at # "idle"
  <2>1. PICK id \in Int : m = Datagram(h, upload[h].run, id)
    BY <1>2, <1>3
  <2> QED BY <1>2, <1>3, <2>1, DatagramIs
<1>4. \A g \in Host : upload[g] \in UploadStates /\ upload[g].run \in Nat /\ upload[g].nb_packets \in Nat
  BY <1>1 DEF UdpTypes, UploadStates
<1>5. \A m \in net : m \in Datagrams => m.run \in Nat /\ m.from \in Host
  BY DEF Datagrams
<1>6. RunsInOrder'
  <2>1. /\ \A g \in Host : upload[g].at # "idle" => upload[g].run >= 1
        /\ \A m \in net : m \in Datagrams => 1 <= m.run /\ m.run <= upload[m.from].run
        /\ \A g \in Host, r \in Nat : Took(g, r) \/ Ended(g, r) => 1 <= r /\ r <= upload[g].run
    BY <1>1 DEF RunsInOrder
  <2>2. \A g \in Host : upload[g].run <= upload'[g].run /\ upload'[g].run \in Nat
    BY <1>2, <1>4
  <2>3. \A g \in Host : upload'[g].at # "idle" => upload'[g].run >= 1
    BY ONLY <1>2, <1>4, <2>1, <2>2
  <2>4. \A m \in net' : m \in Datagrams => 1 <= m.run /\ m.run <= upload'[m.from].run
    <3> SUFFICES ASSUME NEW m \in net', m \in Datagrams
                 PROVE  1 <= m.run /\ m.run <= upload'[m.from].run
      OBVIOUS
    <3>1. CASE m \in net
      <4>1. m.run \in Nat /\ 1 <= m.run /\ m.run <= upload[m.from].run /\ m.from \in Host
        BY <1>5, <2>1, <3>1
      <4> QED BY ONLY <1>4, <2>2, <4>1
    <3>2. CASE m \notin net
      BY <1>2, <1>3, <2>1, <3>2
    <3> QED BY <3>1, <3>2
  <2>5. \A g \in Host, r \in Nat : Took(g, r)' \/ Ended(g, r)' => 1 <= r /\ r <= upload'[g].run
    <3> SUFFICES ASSUME NEW g \in Host, NEW r \in Nat, Took(g, r)' \/ Ended(g, r)'
                 PROVE  1 <= r /\ r <= upload'[g].run
      OBVIOUS
    <3>1. 1 <= r /\ r <= upload[g].run
      BY <1>2, <2>1 DEF Took, Ended
    <3> QED BY ONLY <1>4, <2>2, <3>1, g \in Host, r \in Nat
  <2> QED BY <2>3, <2>4, <2>5 DEF RunsInOrder
<1>7. OneRowEach' /\ dead_frame' \subseteq unanswered'
  BY <1>1, <1>2 DEF OneRowEach
<1>8. ReportsRight'
  BY <1>1, <1>2, <1>3 DEF ReportsRight
<1>9. ASSUME NEW g \in Host, g # h
      PROVE  /\ g \notin unanswered' => Waits(g)'
             /\ g \notin overtaken' \cup unanswered' => InSession(g)'
  <2>1. \A m \in net' : Fin(m, g) \/ Report(m, g) => m \in net
    BY <1>3, <1>9 DEF Fin, Report
  <2>2. \A id \in Nat : Datagram(g, upload[g].run, id) \in net' => Datagram(g, upload[g].run, id) \in net
    <3> SUFFICES ASSUME NEW id \in Nat PROVE Datagram(g, upload[g].run, id).from = g
      BY <1>3, <1>9
    <3> QED BY DEF Datagram
  <2>3. g \notin unanswered' => Waits(g)'
    BY <1>1, <1>2, <1>9, <2>1, StillWaits
  <2>4. g \notin overtaken' \cup unanswered' => InSession(g)'
    BY <1>1, <1>2, <1>4, <1>9, <2>2, StillInSession
  <2> QED BY <2>3, <2>4
<1> QED BY <1>6, <1>7, <1>8, <1>9

(* With nothing in flight that h waits for.                                 *)
LEMMA NothingAwaited ==
  ASSUME NEW h \in Host, \A m \in net' : ~ Fin(m, h) /\ ~ Report(m, h),
         (upload[h].at \in {"idle", "send", "fin"} => upload[h].stat = NoStat)',
         (upload[h].stat # NoStat \/ upload[h].at \in {"drain", "print"}
            \/ (upload[h].at = "idle" /\ upload[h].run > 0) => Ended(h, upload[h].run))'
  PROVE  Waits(h)'
BY DEF Waits, Fin, Report

(* The session of a run that has ended is not open.                         *)
LEMMA EndedSession ==
  ASSUME NEW h \in Host, InSession(h), UNCHANGED <<sessions, heard>>, upload'[h].run = upload[h].run,
         Ended(h, upload[h].run)
  PROVE  InSession(h)'
BY DEF InSession, Ended, Took

LEMMA UploaderGoesOn ==
  ASSUME ReportInv, NEW h \in Host, Uploader(h)
  PROVE  /\ h \notin unanswered' => Waits(h)'
         /\ h \notin overtaken' \cup unanswered' => InSession(h)'
<1> DEFINE u == upload[h]
<1>0. PICK r, n : r = u.run /\ n = u.nb_packets
  OBVIOUS
<1>1. /\ LossInv /\ UdpTypes /\ RunsInOrder
      /\ h \notin unanswered => Waits(h)
      /\ h \notin overtaken \cup unanswered => InSession(h)
      /\ upload \in [Host -> UploadStates] /\ u \in UploadStates /\ r \in Nat /\ n \in Nat /\ - n \in Int
      /\ net \subseteq Datagrams \cup Replies /\ r = u.run /\ n = u.nb_packets
  BY <1>0 DEF ReportInv, LossInv, UdpTypes, UploadStates
<1>2. /\ UNCHANGED <<sessions, heard, overtaken>> /\ unanswered \subseteq unanswered'
      /\ \A b : Ended(h, b)' <=> Ended(h, b)
      /\ \A b : Took(h, b)' <=> Took(h, b)
  BY <1>1, UploaderFrame DEF Ended, Took
<1>3. ASSUME h \notin unanswered', u.at # "wait" \/ u.stat # NoStat
      PROVE  \A m \in net : ~ Fin(m, h) /\ ~ Report(m, h)
  BY <1>1, <1>2, <1>3 DEF Waits
<1>4. ASSUME h \notin unanswered', u.stat # NoStat \/ u.at \in {"drain", "print"}
      PROVE  Ended(h, r)
  BY <1>0, <1>1, <1>2, <1>4 DEF Waits
<1>5. h \notin unanswered' /\ u.at \in {"idle", "send", "fin"} => u.stat = NoStat
  BY <1>1, <1>2 DEF Waits
<1>6. CASE Begin(h)
  <2>1. /\ u.at = "idle" /\ net' = net /\ upload'[h].at = "send" /\ upload'[h].run = r + 1
        /\ upload'[h].stat = u.stat
    BY <1>1, <1>6 DEF Begin, netVars, UploadStates
  <2>2. h \notin unanswered' => Waits(h)'
    BY <1>3, <1>5, <2>1, NothingAwaited
  <2>3. ASSUME h \notin overtaken' \cup unanswered' PROVE InSession(h)'
    <3>1. ~ Took(h, r + 1) /\ ~ Ended(h, r + 1)
      <4>1. r + 1 \in Nat /\ ~ (r + 1 <= r)
        BY ONLY <1>1
      <4> QED BY <1>1, <4>1 DEF RunsInOrder
    <3>2. \A i \in Row : ~ (sessions[i].host = h /\ sessions[i].state = "ONGOING")
      <4>1. ~ (Took(h, r) /\ ~ Ended(h, r))
        <5>1. Took(h, r) => 1 <= r
          BY <1>1 DEF RunsInOrder
        <5>2. r > 0 => Ended(h, r)
          BY <1>1, <1>2, <2>1, <2>3 DEF Waits
        <5> QED BY ONLY <1>1, <5>1, <5>2
      <4>2. InSession(h)
        BY <1>1, <1>2, <2>3
      <4> QED BY <1>1, <4>1, <4>2 DEF InSession
    <3>3. \A id \in Nat : Datagram(h, r + 1, id) \notin net
      <4> SUFFICES ASSUME NEW id \in Nat, Datagram(h, r + 1, id) \in net PROVE FALSE
        OBVIOUS
      <4>1. /\ Datagram(h, r + 1, id) \in Datagrams /\ Datagram(h, r + 1, id).from = h
            /\ Datagram(h, r + 1, id).run = r + 1
        BY <1>1, DatagramIs
      <4>2. r + 1 <= r
        BY <1>1, <4>1 DEF RunsInOrder
      <4> QED BY ONLY <1>1, <4>2
    <3>4. ~ Took(h, r + 1)'
      BY <1>2, <3>1
    <3> QED BY <1>2, <2>1, <3>2, <3>3, <3>4 DEF InSession, Datagram
  <2> QED BY <2>2, <2>3
<1>7. CASE SendDatagram(h)
  <2> DEFINE d == Datagram(h, r, n)
  <2>1. u.at = "send" /\ (net' = net \/ net' = net \cup {d})
    BY <1>1, <1>7 DEF SendDatagram, ToServer, Carry
  <2>2. /\ upload'[h].at \in {"send", "fin"} /\ upload'[h].run = r
        /\ upload'[h].nb_packets = n + 1 /\ upload'[h].stat = u.stat
    <3>1. PICK over \in BOOLEAN :
             upload' = [upload EXCEPT ![h].nb_packets = @ + 1,
                                      ![h].at = IF over THEN "fin" ELSE "send",
                                      ![h].loop = IF over THEN 2 ELSE 0]
      BY <1>7 DEF SendDatagram
    <3> QED BY <1>1, <3>1 DEF UploadStates
  <2>3. d \in Datagrams /\ d \notin Replies /\ d.id = n
    BY <1>1, DatagramIs
  <2>4. h \notin unanswered' => Waits(h)'
    <3> SUFFICES ASSUME h \notin unanswered' PROVE Waits(h)'
      OBVIOUS
    <3>1. ~ Fin(d, h) /\ ~ Report(d, h)
      BY ONLY <1>1, <2>3 DEF Fin, Report
    <3>2. \A m \in net' : ~ Fin(m, h) /\ ~ Report(m, h)
      BY <1>3, <2>1, <3>1
    <3> QED BY <1>5, <2>1, <2>2, <3>2, NothingAwaited
  <2>5. ASSUME h \notin overtaken' \cup unanswered' PROVE InSession(h)'
    <3> DEFINE open == Took(h, r) /\ ~ Ended(h, r)
               Serves(i) == sessions[i].host = h /\ sessions[i].state = "ONGOING"
    <3>1. /\ \A i \in Row : Serves(i) => open /\ (n > 0 => Tally(sessions[i].count, h, r, n))
          /\ open => (\E i \in Row : Serves(i)) /\ n > 0
          /\ ~ Ended(h, r) => \A id \in Nat : Datagram(h, r, id) \in net => id < n
      BY <1>1, <1>2, <2>1, <2>5 DEF InSession
    <3>2. \A id \in Int : Datagram(h, r, id) \in net' => Datagram(h, r, id) \in net \/ id = n
      <4> SUFFICES ASSUME NEW id \in Int, Datagram(h, r, id) = d PROVE id = n
        BY <2>1
      <4> QED BY <1>1, <2>3, DatagramIs
    <3>3. ASSUME NEW i \in Row, Serves(i) PROVE Tally(sessions[i].count, h, r, n + 1)'
      <4> DEFINE c == sessions[i].count
      <4>1. Tally(c, h, r, n) /\ n > 0
        BY <3>1, <3>3
      <4>2. /\ ~ c.twice /\ c.got \subseteq 0 .. (n - 1)
            /\ \A id \in c.got : Datagram(h, r, id) \notin net
            /\ \E first \in 0 .. (n - 1) : first \notin c.got /\ Datagram(h, r, first) \notin net
        BY <4>1 DEF Tally
      <4>3. c' = c
        BY <1>2
      <4> HIDE DEF c
      <4>4. \A id \in 0 .. (n - 1) : id \in Int /\ id # n /\ id \in 0 .. ((n + 1) - 1)
        BY ONLY <1>1
      <4>5. \A id \in 0 .. (n - 1) : Datagram(h, r, id) \notin net => Datagram(h, r, id) \notin net'
        BY ONLY <3>2, <4>4
      <4>6. /\ ~ c.twice /\ c.got \subseteq 0 .. ((n + 1) - 1)
            /\ \A id \in c.got : Datagram(h, r, id) \notin net'
            /\ \E first \in 0 .. ((n + 1) - 1) : first \notin c.got /\ Datagram(h, r, first) \notin net'
        BY ONLY <4>2, <4>4, <4>5
      <4> QED BY <1>2, <4>3, <4>6 DEF Tally, Datagram, c
    <3>4. ~ Ended(h, r) => \A id \in Nat : Datagram(h, r, id) \in net' => id < n + 1
      BY <1>1, <3>1, <3>2
    <3> QED BY <1>1, <1>2, <2>2, <3>1, <3>3, <3>4 DEF InSession, Datagram
  <2> QED BY <2>4, <2>5
<1>8. CASE SendFails(h) \/ Drain(h) \/ (RecvReturns(h) /\ h \notin unanswered')
  <2>1. /\ net' = net /\ upload'[h].run = r /\ upload'[h].nb_packets = n
        /\ \/ u.at = "send" /\ upload'[h].at = "fin" /\ upload'[h].stat = u.stat
           \/ u.at = "drain" /\ upload'[h].at \in {"drain", "print"} /\ upload'[h].stat = NoStat
           \/ u.at = "wait" /\ upload'[h].at = "drain" /\ upload'[h].stat = NoStat /\ u.stat # NoStat
    <3>1. CASE SendFails(h)
      BY <1>1, <3>1 DEF SendFails, netVars, UploadStates
    <3>2. CASE Drain(h)
      BY <1>1, <3>2 DEF Drain, netVars, UploadStates
    <3>3. CASE RecvReturns(h) /\ h \notin unanswered'
      BY <1>1, <3>3 DEF RecvReturns, netVars, UploadStates
    <3> QED BY <1>8, <3>1, <3>2, <3>3
  <2>2. h \notin unanswered' => Waits(h)'
    <3> SUFFICES ASSUME h \notin unanswered' PROVE Waits(h)'
      OBVIOUS
    <3>1. \A m \in net' : ~ Fin(m, h) /\ ~ Report(m, h)
      BY <1>3, <2>1
    <3>2. upload'[h].stat = NoStat
      BY <1>5, <2>1
    <3>3. upload'[h].at \in {"drain", "print"} => Ended(h, r)'
      BY <1>2, <1>4, <2>1
    <3> QED BY <2>1, <3>1, <3>2, <3>3, NothingAwaited
  <2>3. ASSUME h \notin overtaken' \cup unanswered' PROVE InSession(h)'
    <3>1. u.at = "wait" => Ended(h, r)
      BY <1>4, <2>1, <2>3
    <3> QED BY <1>1, <1>2, <2>1, <2>3, <3>1, StillInSession
  <2> QED BY <2>2, <2>3
<1>9. CASE GiveUp(h) \/ (RecvReturns(h) /\ h \in unanswered')
  BY <1>9 DEF GiveUp
<1>10. CASE Put(h)
  <2>1. /\ net' = net /\ u.at = "print" /\ upload'[h].run = r /\ upload'[h].at = "idle"
        /\ upload'[h].stat = NoStat
    BY <1>1, <1>10 DEF Put, netVars, Idle
  <2>2. h \notin unanswered' => Waits(h)'
    BY <1>1, <1>2, <1>3, <1>4, <2>1, NothingAwaited
  <2>3. h \notin overtaken' \cup unanswered' => InSession(h)'
    BY <1>1, <1>2, <1>4, <2>1, EndedSession
  <2> QED BY <2>2, <2>3
<1>11. CASE SendFin(h)
  <2> DEFINE d == Datagram(h, r, - n)
  <2>1. /\ u.at = "fin" /\ upload'[h].run = r /\ upload'[h].nb_packets = n
        /\ \/ net' = net /\ upload'[h].at = "fin" /\ upload'[h].stat = u.stat
           \/ (net' = net \/ net' = net \cup {d}) /\ upload'[h].at = "wait" /\ upload'[h].stat = NoStat
    BY <1>1, <1>11 DEF SendFin, ToServer, Carry, UploadStates
  <2>2. d \in Datagrams /\ d \notin Replies /\ d.id = - n /\ d.run = r
    BY <1>1, DatagramIs
  <2>3. ASSUME h \notin unanswered' PROVE Waits(h)'
    <3>1. \A m \in net : ~ Fin(m, h) /\ ~ Report(m, h)
      BY <1>3, <2>1, <2>3
    <3>2. CASE net' = net
      BY <1>5, <2>1, <2>3, <3>1, <3>2, NothingAwaited
    <3>3. CASE net' = net \cup {d} /\ upload'[h].at = "wait" /\ upload'[h].stat = NoStat
      <4>1. \A m \in net' : Fin(m, h) \/ Report(m, h) => m = d
        BY <3>1, <3>3
      <4>2. ~ Report(d, h)
        BY <2>2 DEF Report
      <4> HIDE DEF d
      <4> QED BY <2>1, <2>2, <3>3, <4>1, <4>2 DEF Waits, Fin, Report
    <3> QED BY <2>1, <3>2, <3>3
  <2>4. ASSUME h \notin overtaken' \cup unanswered' PROVE InSession(h)'
    <3>1. InSession(h)
      BY <1>1, <1>2, <2>4
    <3>2. \A id \in Nat : Datagram(h, r, id) \in net' => Datagram(h, r, id) \in net \/ (id = 0 /\ n = 0 /\ upload'[h].at = "wait")
      <4> SUFFICES ASSUME NEW id \in Nat, Datagram(h, r, id) = d PROVE id = 0 /\ n = 0
        BY <2>1
      <4>1. id = - n
        BY <1>1, <2>2, DatagramIs
      <4> QED BY ONLY <1>1, <4>1, id \in Nat
    <3>3. CASE n > 0
      <4>1. \A id \in Nat : Datagram(h, r, id) \in net' => Datagram(h, r, id) \in net
        BY ONLY <3>2, <3>3
      <4> QED BY <1>1, <1>2, <2>1, <3>1, <4>1, StillInSession
    <3>4. CASE n = 0
      <4>1. ~ (Took(h, r) /\ ~ Ended(h, r))
        BY <1>1, <2>1, <3>1, <3>4 DEF InSession
      <4>2. \A i \in Row : ~ (sessions[i].host = h /\ sessions[i].state = "ONGOING")
        BY <1>1, <3>1, <4>1 DEF InSession
      <4>3. ~ Ended(h, r) => \A id \in Nat : Datagram(h, r, id) \in net => id < 0
        BY <1>1, <2>1, <3>1, <3>4 DEF InSession
      <4>4. ~ Ended(h, r) => \A id \in Nat : Datagram(h, r, id) \in net' => id = 0 /\ upload'[h].at = "wait"
        BY ONLY <3>2, <4>3
      <4> QED BY <1>2, <2>1, <3>4, <4>1, <4>2, <4>4 DEF InSession, Datagram
    <3> QED BY <1>1, <3>3, <3>4
  <2> QED BY <2>3, <2>4
<1> QED BY <1>6, <1>7, <1>8, <1>9, <1>10, <1>11 DEF Uploader

-----------------------------------------------------------------------------
(* The reports: what arrives                                               *)

LEMMA StatReports ==
  ASSUME ReportInv, NEW m \in net, "to" \in DOMAIN m, stat_received(m)
  PROVE  ReportInv'
<1> DEFINE h == m.to
<1>1. /\ LossInv /\ UdpTypes /\ RunsInOrder /\ OneRowEach /\ ReportsRight /\ dead_frame \subseteq unanswered
      /\ \A g \in Host : /\ g \notin unanswered => Waits(g)
                         /\ g \notin overtaken \cup unanswered => InSession(g)
  BY DEF ReportInv, LossInv
<1>2. m \in Replies /\ h \in Host /\ m \notin Datagrams /\ Report(m, h)
  <2>1. m \in Replies
    BY <1>1, InFlight
  <2> QED BY <2>1, KindsApart DEF Report, Replies
<1>3. /\ net' = net \ {m} /\ UNCHANGED <<sessions, heard, overtaken, unanswered>>
      /\ dead_frame' = IF upload[h].at = "print" THEN dead_frame \cup {h} ELSE dead_frame
      /\ upload' = IF upload[h].at \in {"wait", "drain"} THEN [upload EXCEPT ![h].stat = m] ELSE upload
  BY DEF stat_received, Arrive, Carry
<1>4. /\ \A g \in Host : upload[g] \in UploadStates /\ upload[g].run \in Nat /\ upload[g].nb_packets \in Nat
      /\ upload \in [Host -> UploadStates]
  BY <1>1 DEF UdpTypes, UploadStates
<1>5. \A g \in Host : /\ upload'[g].at = upload[g].at /\ upload'[g].run = upload[g].run
                      /\ upload'[g].nb_packets = upload[g].nb_packets
                      /\ g # h => upload'[g] = upload[g]
  <2>1. CASE upload' = upload
    BY <2>1
  <2>2. CASE upload' = [upload EXCEPT ![h].stat = m]
    BY <1>2, <1>4, <2>2 DEF UploadStates
  <2> QED BY <1>3, <2>1, <2>2
<1>6. LossInv'
  BY <1>1, StatKeeps
<1>7. RunsInOrder' /\ OneRowEach' /\ ReportsRight'
  <2>1. RunsInOrder'
    <3>1. \A d \in net : d \in Datagrams => d.from \in Host
      BY DEF Datagrams
    <3> QED BY <1>1, <1>3, <1>5, <3>1 DEF RunsInOrder, Took, Ended
  <2>2. OneRowEach' /\ ReportsRight'
    BY <1>1, <1>3 DEF OneRowEach, ReportsRight
  <2> QED BY <2>1, <2>2
<1>8. ASSUME h \notin unanswered
      PROVE  /\ upload[h].at = "wait" /\ Ended(h, upload[h].run)
             /\ \A n \in net : Fin(n, h) \/ Report(n, h) => n = m
  BY <1>1, <1>2, <1>8 DEF Waits
<1>9. dead_frame' \subseteq unanswered'
  BY <1>1, <1>3, <1>8
<1>10. ASSUME NEW g \in Host
       PROVE  /\ g \notin unanswered' => Waits(g)'
              /\ g \notin overtaken' \cup unanswered' => InSession(g)'
  <2>1. g \notin overtaken' \cup unanswered' => InSession(g)'
    BY <1>1, <1>3, <1>4, <1>5, StillInSession
  <2>2. CASE g # h
    <3>1. g \notin unanswered' => Waits(g)'
      BY <1>1, <1>3, <1>5, <2>2, StillWaits
    <3> QED BY <2>1, <3>1
  <2>3. CASE g = h /\ h \notin unanswered
    <3>1. \A n \in net' : ~ Fin(n, h) /\ ~ Report(n, h)
      BY <1>3, <1>8, <2>3
    <3>2. upload'[h].at = "wait" /\ Ended(h, upload[h].run)' /\ h \in Host
      BY <1>2, <1>3, <1>5, <1>8, <2>3 DEF Ended
    <3>3. Waits(h)'
      BY <3>1, <3>2, NothingAwaited
    <3> QED BY <2>1, <2>3, <3>3
  <2> QED BY <1>3, <2>1, <2>2, <2>3
<1> QED BY <1>6, <1>7, <1>9, <1>10 DEF ReportInv

(* The first datagram of a session is not counted: fewer are than were sent. *)
LEMMA FewerCounted ==
  ASSUME NEW c \in Counts, CountsRight(c), NEW h, NEW r, NEW n \in Nat, Tally(c, h, r, n)
  PROVE  c.counter < n
<1>1. PICK first \in 0 .. (n - 1) : first \notin c.got
  BY DEF Tally
<1>2. c.got \subseteq (0 .. (n - 1)) \ {first} /\ c.counter = Cardinality(c.got)
  BY <1>1 DEF Tally, CountsRight
<1>3. IsFiniteSet(0 .. (n - 1)) /\ Cardinality(0 .. (n - 1)) = n
  <2>1. n > 0 /\ n - 1 \in Int
    BY <1>1
  <2>2. /\ IsFiniteSet(0 .. (n - 1))
        /\ Cardinality(0 .. (n - 1)) = IF 0 > n - 1 THEN 0 ELSE (n - 1) - 0 + 1
    BY ONLY <2>1, FS_Interval
  <2> QED BY ONLY <2>1, <2>2, n \in Nat
<1> DEFINE below == (0 .. (n - 1)) \ {first}
           g == c.got
<1>4. IsFiniteSet(below) /\ Cardinality(below) = n - 1
  BY ONLY <1>1, <1>3, FS_RemoveElement
<1> HIDE DEF below, g
<1>5. g \subseteq below /\ c.counter = Cardinality(g)
  BY ONLY <1>2 DEF below, g
<1>6. Cardinality(g) <= Cardinality(below) /\ Cardinality(g) \in Nat
  <2>1. IsFiniteSet(g) /\ Cardinality(g) <= Cardinality(below)
    BY ONLY <1>4, <1>5, FS_Subset
  <2> QED BY ONLY <2>1, FS_CardinalityType
<1> QED BY ONLY <1>4, <1>5, <1>6, n \in Nat

(* get_session: the row of this source if there is one, else one that is     *)
(* not in use.                                                             *)
LEMMA SessionOf ==
  ASSUME NEW h \in Host, sessions \in [Row -> Sessions], NEW i, i = get_session(h)
  PROVE  \/ i = 0 /\ \A j \in Row : sessions[j].host # h
         \/ i \in Row /\ sessions[i].host = h
         \/ i \in Row /\ sessions[i].state # "ONGOING" /\ \A j \in Row : sessions[j].host # h
<1> DEFINE active == {r \in Row : sessions[r].host = h}
           free == {r \in Row : sessions[r].state \in {"NULL", "COMPLETED"}}
<1>1. active \subseteq Nat /\ free \subseteq Nat
  BY DEF Row
<1>2. active # {} => Min(active) \in active
  BY <1>1, MinIsIn
<1>3. free # {} => Min(free) \in free
  BY <1>1, MinIsIn
<1>4. i = IF active # {} THEN Min(active) ELSE IF free # {} THEN Min(free) ELSE 0
  BY DEF get_session
<1>5. active = {} => \A j \in Row : sessions[j].host # h
  OBVIOUS
<1>6. CASE active # {}
  <2>1. i \in active
    BY ONLY <1>2, <1>4, <1>6
  <2> QED BY <2>1
<1>7. CASE active = {} /\ free # {}
  <2>1. i \in free
    BY ONLY <1>3, <1>4, <1>7
  <2>2. i \in Row /\ sessions[i].state # "ONGOING"
    BY <2>1
  <2> QED BY <1>5, <1>7, <2>2
<1>8. CASE active = {} /\ free = {}
  BY <1>4, <1>5, <1>8
<1> QED BY <1>6, <1>7, <1>8

(* What a datagram makes of its row.                                        *)
LEMMA UpdatedIs ==
  ASSUME NEW s \in Sessions, NEW m \in Datagrams
  PROVE  /\ Updated(s, m).host = m.from
         /\ s.state = "ONGOING" /\ m.id < 0 =>
              Updated(s, m).state = "COMPLETED" /\ Updated(s, m).stat = Filled(s.count, m)
         /\ s.state = "ONGOING" /\ ~ (m.id < 0) =>
              Updated(s, m).state = "ONGOING" /\ Updated(s, m).count = Counted(s.count, m.id)
         /\ s.state # "ONGOING" /\ m.id < 0 => Updated(s, m).state # "ONGOING"
         /\ s.state # "ONGOING" /\ ~ (m.id < 0) =>
              Updated(s, m).state = "ONGOING" /\ Updated(s, m).count = Fresh
BY DEF Updated, Sessions

(* Only a closing datagram that has a row adds to what is in flight, one     *)
(* reply with the statistics of that row.                                  *)
LEMMA Answers ==
  ASSUME LossInv, NEW m \in net, m \in Datagrams, udp_received(m),
         NEW i, i = get_session(m.from), NEW s, s = Updated(sessions[i], m),
         NEW d \in net', ~ (d \in net /\ d # m)
  PROVE  /\ i \in Row /\ m.id < 0 /\ d \in Replies /\ d.to = m.from /\ d.run = m.run
         /\ d.id = m.id /\ d.stat = s.stat /\ d.known = (<<m.from, m.run, FALSE>> \in heard)
         /\ \A e \in net' : e \in net \/ e = d
<1> DEFINE rep == Reply(m, s.stat, <<m.from, m.run, FALSE>> \in heard)
           answer == IF i # 0 /\ m.id < 0 THEN {rep} ELSE {}
<1>1. net' = net \ {m} \/ net' = (net \ {m}) \cup answer
  BY DEF udp_received, Arrive, Carry
<1>2. answer = {} \/ (answer = {rep} /\ i # 0 /\ m.id < 0)
  OBVIOUS
<1> HIDE DEF answer, rep
<1>3. d = rep /\ i # 0 /\ m.id < 0 /\ \A e \in net' : e \in net \/ e = d
  BY ONLY <1>1, <1>2, d \in net', ~ (d \in net /\ d # m)
<1>4. /\ sessions \in [Row -> Sessions] /\ m.from \in Host /\ m.run \in Nat /\ m.id \in Int
      /\ \A j \in Row : CountsRight(sessions[j].count)
  BY DEF LossInv, UdpTypes, Datagrams
<1>5. i \in Row
  BY <1>3, <1>4, SessionOf
<1>6. s.stat \in Stats
  <2>1. s \in Sessions
    BY <1>4, <1>5, UpdatedRight
  <2> QED BY ONLY <2>1 DEF Sessions
<1>7. rep \in Replies /\ rep.to = m.from /\ rep.run = m.run /\ rep.id = m.id /\ rep.stat = s.stat
      /\ rep.known = (<<m.from, m.run, FALSE>> \in heard)
  BY ONLY <1>4, <1>6 DEF rep, Reply, Replies
<1> QED BY ONLY <1>3, <1>5, <1>7

(* udp_received step by step: the row, what is in flight and the history.    *)
LEMMA Receives ==
  ASSUME ReportInv, NEW m \in net, m \in Datagrams, udp_received(m),
         NEW i, i = get_session(m.from), NEW s, s = Updated(sessions[i], m)
  PROVE  /\ \/ i = 0 /\ \A j \in Row : sessions[j].host # m.from
            \/ i \in Row /\ sessions[i].host = m.from
            \/ i \in Row /\ sessions[i].state # "ONGOING" /\ \A j \in Row : sessions[j].host # m.from
         /\ i = 0 => UNCHANGED <<sessions, heard>>
         /\ i \in Row => /\ s = Updated(sessions[i], m) /\ s.host = m.from
                         /\ \A j \in Row : sessions'[j] = IF j = i THEN s ELSE sessions[j]
                         /\ heard' = heard \cup {<<m.from, m.run, m.id < 0>>}
         /\ \A d \in net' : (d \in net /\ d # m) \/ d \in Replies
         /\ UNCHANGED <<upload, unanswered, dead_frame>> /\ overtaken \subseteq overtaken'
         /\ m.from \notin overtaken' => ~ (m.run < upload[m.from].run) /\ ~ Ended(m.from, m.run)
<1>1. /\ UdpTypes /\ sessions \in [Row -> Sessions] /\ m.from \in Host /\ m.run \in Nat /\ m.id \in Int
      /\ LossInv /\ \A j \in Row : CountsRight(sessions[j].count)
  BY DEF ReportInv, LossInv, UdpTypes, Datagrams
<1>2. /\ sessions' = (IF i = 0 THEN sessions ELSE [sessions EXCEPT ![i] = s])
      /\ heard' = (IF i = 0 THEN heard ELSE heard \cup {<<m.from, m.run, m.id < 0>>})
      /\ overtaken' = (IF m.run < upload[m.from].run \/ <<m.from, m.run, TRUE>> \in heard
                       THEN overtaken \cup {m.from} ELSE overtaken)
      /\ UNCHANGED <<upload, unanswered, dead_frame>>
  BY DEF udp_received
<1>3. \/ i = 0 /\ \A j \in Row : sessions[j].host # m.from
      \/ i \in Row /\ sessions[i].host = m.from
      \/ i \in Row /\ sessions[i].state # "ONGOING" /\ \A j \in Row : sessions[j].host # m.from
  BY <1>1, SessionOf
<1>4. i = 0 => UNCHANGED <<sessions, heard>>
  BY ONLY <1>2
<1>5. 0 \notin Row
  BY DEF Row
<1>6. ASSUME i \in Row
      PROVE  /\ s = Updated(sessions[i], m) /\ s.host = m.from /\ s \in Sessions
             /\ \A j \in Row : sessions'[j] = IF j = i THEN s ELSE sessions[j]
             /\ heard' = heard \cup {<<m.from, m.run, m.id < 0>>}
  <2>1. s.host = m.from /\ s \in Sessions
    BY <1>1, <1>6, UpdatedIs, UpdatedRight
  <2>2. i # 0 /\ sessions' = [sessions EXCEPT ![i] = s] /\ heard' = heard \cup {<<m.from, m.run, m.id < 0>>}
    BY ONLY <1>2, <1>5, <1>6
  <2> QED BY <1>1, <2>1, <2>2
<1>7. m.from \notin overtaken' => ~ (m.run < upload[m.from].run) /\ ~ Ended(m.from, m.run)
  BY ONLY <1>2 DEF Ended
<1>8. \A d \in net' : (d \in net /\ d # m) \/ d \in Replies
  <2> SUFFICES ASSUME NEW d \in net', ~ (d \in net /\ d # m) PROVE d \in Replies
    OBVIOUS
  <2> QED BY <1>1, Answers
<1>9. overtaken \subseteq overtaken' /\ UNCHANGED <<upload, unanswered, dead_frame>>
  BY ONLY <1>2
<1> QED BY ONLY <1>3, <1>4, <1>6, <1>7, <1>8, <1>9

(* The session of the source itself.                                        *)
LEMMA SessionGoesOn ==
  ASSUME ReportInv, NEW m \in net, m \in Datagrams, udp_received(m), m.from \notin overtaken' \cup unanswered'
  PROVE  /\ InSession(m.from)'
         /\ m.id < 0 /\ Took(m.from, m.run) /\ get_session(m.from) \in Row =>
              LET stat == Updated(sessions[get_session(m.from)], m).stat
              IN  stat.of = m.from /\ stat.run = m.run /\ stat.datagrams < - m.id
<1> DEFINE h == m.from
           id == m.id
<1>0. PICK i : i = get_session(h)
  OBVIOUS
<1>1. PICK s : s = Updated(sessions[i], m)
  OBVIOUS
<1>2. PICK r, n : r = upload[h].run /\ n = upload[h].nb_packets
  OBVIOUS
<1>3. /\ h \in Host /\ id \in Int /\ m.run \in Nat /\ r \in Nat /\ n \in Nat
      /\ sessions \in [Row -> Sessions] /\ \A j \in Row : CountsRight(sessions[j].count)
      /\ upload[h].run = r /\ upload[h].nb_packets = n
      /\ LossInv /\ RunsInOrder /\ OneRowEach
      /\ h \notin unanswered => Waits(h)
      /\ h \notin overtaken \cup unanswered => InSession(h)
  <2>1. h \in Host /\ id \in Int /\ m.run \in Nat
    BY DEF Datagrams
  <2> QED BY <1>2, <2>1 DEF ReportInv, LossInv, UdpTypes, UploadStates
<1>4. /\ \/ i = 0 /\ \A j \in Row : sessions[j].host # h
         \/ i \in Row /\ sessions[i].host = h
         \/ i \in Row /\ sessions[i].state # "ONGOING" /\ \A j \in Row : sessions[j].host # h
      /\ i = 0 => UNCHANGED <<sessions, heard>>
      /\ i \in Row => /\ s = Updated(sessions[i], m) /\ s.host = h
                      /\ \A j \in Row : sessions'[j] = IF j = i THEN s ELSE sessions[j]
                      /\ heard' = heard \cup {<<h, m.run, id < 0>>}
      /\ \A d \in net' : (d \in net /\ d # m) \/ d \in Replies
      /\ UNCHANGED <<upload, unanswered>> /\ overtaken \subseteq overtaken'
      /\ ~ (m.run < r) /\ ~ Ended(h, m.run)
  <2>1. /\ \/ i = 0 /\ \A j \in Row : sessions[j].host # h
           \/ i \in Row /\ sessions[i].host = h
           \/ i \in Row /\ sessions[i].state # "ONGOING" /\ \A j \in Row : sessions[j].host # h
        /\ i = 0 => UNCHANGED <<sessions, heard>>
    BY <1>0, <1>1, Receives
  <2>4. i \in Row => /\ s = Updated(sessions[i], m) /\ s.host = h
                     /\ \A j \in Row : sessions'[j] = IF j = i THEN s ELSE sessions[j]
    <3>1. ASSUME i \in Row
          PROVE  s.host = h /\ \A j \in Row : sessions'[j] = IF j = i THEN s ELSE sessions[j]
      <4>1. sessions[i] \in Sessions
        BY <1>3, <3>1
      <4>2. s.host = h
        BY <1>1, <4>1, UpdatedIs
      <4>3. sessions' = IF i = 0 THEN sessions ELSE [sessions EXCEPT ![i] = s]
        BY <1>0, <1>1 DEF udp_received
      <4>4. i # 0
        BY <3>1 DEF Row
      <4> QED BY ONLY <1>3, <3>1, <4>2, <4>3, <4>4
    <3> QED BY <1>1, <3>1
  <2>5. i \in Row => heard' = heard \cup {<<h, m.run, id < 0>>}
    BY <1>0, <1>1, Receives
  <2>2. \A d \in net' : (d \in net /\ d # m) \/ d \in Replies
    BY <1>0, <1>1, Receives
  <2>3. /\ UNCHANGED <<upload, unanswered>> /\ overtaken \subseteq overtaken'
        /\ ~ (m.run < upload[h].run) /\ ~ Ended(h, m.run)
    BY <1>0, <1>1, Receives
  <2> QED BY ONLY <1>2, <2>1, <2>2, <2>3, <2>4, <2>5
<1>5. m.run = r /\ m = Datagram(h, r, id) /\ ~ Ended(h, r) /\ InSession(h) /\ Waits(h)
  <2>1. m.run <= r
    BY <1>3 DEF RunsInOrder
  <2>2. m.run = r
    BY ONLY <1>3, <1>4, <2>1
  <2>3. m = Datagram(h, m.run, id)
    BY DEF Datagram, Datagrams
  <2> QED BY <1>3, <1>4, <2>2, <2>3
<1> DEFINE Serves(j) == sessions[j].host = h /\ sessions[j].state = "ONGOING"
           open == Took(h, r)
<1>6. /\ \A j \in Row : Serves(j) => open /\ (n > 0 => Tally(sessions[j].count, h, r, n))
      /\ open => (\E j \in Row : Serves(j)) /\ (n > 0 \/ upload[h].at = "wait")
      /\ \A k \in Nat : Datagram(h, r, k) \in net => k < n \/ (n = 0 /\ upload[h].at = "wait")
  BY <1>3, <1>5 DEF InSession
<1>7. ASSUME NEW j \in Row, sessions[j].host = h
      PROVE  i = j
  <2>1. i \in Row /\ sessions[i].host = h
    BY <1>4, <1>7
  <2> QED BY <1>3, <1>7, <2>1 DEF OneRowEach
<1>8. open => i \in Row /\ Serves(i)
  BY <1>6, <1>7
<1>9. i \in Row /\ ~ open => sessions[i].state # "ONGOING"
  <2>1. i \in Row /\ ~ open => ~ Serves(i)
    BY <1>6
  <2> QED BY <1>4, <2>1
<1>10. \A k \in Int : Datagram(h, r, k) \in net' => Datagram(h, r, k) \in net /\ k # id
  <2> SUFFICES ASSUME NEW k \in Int, Datagram(h, r, k) \in net'
               PROVE  Datagram(h, r, k) \in net /\ k # id
    OBVIOUS
  <2>1. Datagram(h, r, k) \notin Replies
    BY <1>3, DatagramIs
  <2> QED BY <1>4, <1>5, <2>1
<1>11. upload'[h].run = r /\ upload'[h].nb_packets = n /\ upload'[h].at = upload[h].at
  BY <1>3, <1>4
<1>12. i \in Row => sessions[i] \in Sessions /\ sessions[i].count \in Counts /\ CountsRight(sessions[i].count)
  BY <1>3 DEF Sessions
<1>13. \A k \in Nat : Datagram(h, r, k) \in net' => k < n \/ (n = 0 /\ upload[h].at = "wait")
  BY <1>6, <1>10
<1>14. ASSUME i \in Row, NEW j \in Row, sessions'[j].host = h, j # i
       PROVE  FALSE
  BY <1>4, <1>7, <1>14
<1>15. CASE i = 0
  <2>1. \A k \in Nat : Datagram(h, r, k) \in net' => Datagram(h, r, k) \in net
    BY <1>10
  <2>2. InSession(h)'
    BY <1>3, <1>4, <1>5, <1>11, <1>15, <2>1, StillInSession
  <2> QED BY <1>0, <1>15, <2>2 DEF Row
<1>16. CASE i \in Row /\ id < 0
  <2>1. s.state # "ONGOING"
    BY <1>4, <1>12, <1>16, UpdatedIs
  <2>2. Ended(h, r)'
    BY <1>4, <1>5, <1>16 DEF Ended
  <2>3. \A j \in Row : ~ (sessions'[j].host = h /\ sessions'[j].state = "ONGOING")
    BY <1>4, <1>14, <1>16, <2>1
  <2>4. InSession(h)'
    BY <1>11, <2>2, <2>3 DEF InSession
  <2>5. ASSUME open PROVE s.stat.of = h /\ s.stat.run = r /\ s.stat.datagrams < - id
    <3>1. Fin(m, h)
      BY <1>16 DEF Fin
    <3>2. id = - n /\ n > 0
      <4>1. id = - n
        BY <1>3, <1>5, <3>1 DEF Waits
      <4> QED BY ONLY <1>3, <1>16, <4>1
    <3>3. Tally(sessions[i].count, h, r, n)
      BY <1>6, <1>8, <2>5, <3>2
    <3>4. sessions[i].count.counter < n
      BY <1>3, <1>12, <1>16, <3>3, FewerCounted
    <3>5. s.stat = Filled(sessions[i].count, m)
      BY <1>4, <1>8, <1>12, <1>16, <2>5, UpdatedIs
    <3>6. s.stat.of = h /\ s.stat.run = r /\ s.stat.datagrams = sessions[i].count.counter
      BY <1>5, <3>5 DEF Filled
    <3>7. - id = n
      BY ONLY <1>3, <3>2
    <3> QED BY ONLY <3>4, <3>6, <3>7
  <2> QED BY <1>0, <1>1, <1>5, <2>4, <2>5
<1>17. CASE i \in Row /\ ~ (id < 0)
  <2>1. id \in Nat
    BY ONLY <1>3, <1>17
  <2>2. Took(h, r)' /\ ~ Ended(h, r)'
    <3>1. (id < 0) = FALSE
      BY ONLY <1>17
    <3>2. heard' = heard \cup {<<h, r, FALSE>>}
      BY ONLY <1>4, <1>5, <1>17, <3>1
    <3>3. <<h, r, TRUE>> \notin heard
      BY <1>5 DEF Ended
    <3>4. <<h, r, FALSE>> # <<h, r, TRUE>>
      OBVIOUS
    <3> QED BY <3>2, <3>3, <3>4 DEF Took, Ended
  <2>3. s.state = "ONGOING" /\ sessions'[i] = s /\ s.host = h
    BY <1>4, <1>12, <1>17, UpdatedIs
  <2>4. n > 0 \/ upload[h].at = "wait"
    <3>1. Datagram(h, r, id) \in net
      BY <1>5
    <3> QED BY ONLY <1>3, <1>6, <2>1, <3>1
  <2>5. ASSUME n > 0 PROVE Tally(s.count, h, r, n)'
    <3>1. id \in 0 .. (n - 1)
      <4>1. id < n
        BY <1>5, <1>6, <2>1, <2>5
      <4> QED BY ONLY <1>3, <2>1, <4>1
    <3>2. Datagram(h, r, id) \notin net'
      BY <1>3, <1>10
    <3>3. CASE open
      <4> DEFINE c == sessions[i].count
      <4>1. Tally(c, h, r, n)
        BY <1>6, <1>8, <2>5, <3>3
      <4>2. PICK first \in 0 .. (n - 1) : first \notin c.got /\ Datagram(h, r, first) \notin net
        BY <4>1 DEF Tally
      <4>3. ~ c.twice /\ c.got \subseteq 0 .. (n - 1) /\ \A k \in c.got : Datagram(h, r, k) \notin net
        BY <4>1 DEF Tally
      <4>4. s.count = Counted(c, id)
        BY <1>4, <1>8, <1>12, <1>17, <3>3, UpdatedIs
      <4>5. s.count.twice = (c.twice \/ id \in c.got) /\ s.count.got = c.got \cup {id}
        BY <4>4 DEF Counted
      <4> HIDE DEF c
      <4>6. id \notin c.got /\ first # id
        BY <1>5, <4>2, <4>3
      <4>7. ~ s.count.twice /\ s.count.got \subseteq 0 .. (n - 1) /\ first \notin s.count.got
        BY ONLY <3>1, <4>2, <4>3, <4>5, <4>6
      <4>8. \A k \in 0 .. (n - 1) : Datagram(h, r, k) \notin net => Datagram(h, r, k) \notin net'
        BY ONLY <1>10
      <4>9. \A k \in s.count.got : Datagram(h, r, k) \notin net'
        BY ONLY <3>2, <4>3, <4>5, <4>8
      <4>10. Datagram(h, r, first) \notin net'
        BY ONLY <4>2, <4>8
      <4> QED BY <4>7, <4>9, <4>10 DEF Tally, Datagram
    <3>4. CASE ~ open
      <4>1. s.count = Fresh
        BY <1>4, <1>9, <1>12, <1>17, <3>4, UpdatedIs
      <4>2. ~ s.count.twice /\ s.count.got = {}
        BY <4>1 DEF Fresh
      <4> QED BY <3>1, <3>2, <4>2 DEF Tally, Datagram
    <3> QED BY <3>3, <3>4
  <2>6. \A j \in Row : sessions'[j].host = h /\ sessions'[j].state = "ONGOING" =>
                         (n > 0 => Tally(sessions[j].count, h, r, n)')
    <3> SUFFICES ASSUME NEW j \in Row, sessions'[j].host = h, n > 0
                 PROVE  Tally(sessions[j].count, h, r, n)'
      OBVIOUS
    <3>1. j = i
      BY <1>14, <1>17
    <3> QED BY <2>3, <2>5, <3>1 DEF Tally
  <2>7. InSession(h)'
    BY <1>11, <1>13, <1>17, <2>2, <2>3, <2>4, <2>6 DEF InSession, Datagram
  <2> QED BY <1>17, <2>7
<1> QED BY <1>4, <1>15, <1>16, <1>17

-----------------------------------------------------------------------------
(* The reports: the other sources, and the whole of udp_received            *)

LEMMA TallyKept ==
  ASSUME NEW c, NEW g \in Host, NEW r \in Nat, NEW n \in Nat, Tally(c, g, r, n),
         \A id \in Nat : Datagram(g, r, id) \in net' => Datagram(g, r, id) \in net
  PROVE  Tally(c, g, r, n)'
<1>1. /\ ~ c.twice /\ c.got \subseteq 0 .. (n - 1)
      /\ \A id \in c.got : Datagram(g, r, id) \notin net
      /\ \E first \in 0 .. (n - 1) : first \notin c.got /\ Datagram(g, r, first) \notin net
  BY DEF Tally
<1>2. \A id \in 0 .. (n - 1) : Datagram(g, r, id) \notin net => Datagram(g, r, id) \notin net'
  OBVIOUS
<1>3. /\ ~ c.twice /\ c.got \subseteq 0 .. (n - 1)
      /\ \A id \in c.got : Datagram(g, r, id) \notin net'
      /\ \E first \in 0 .. (n - 1) : first \notin c.got /\ Datagram(g, r, first) \notin net'
  BY ONLY <1>1, <1>2
<1> QED BY <1>3 DEF Tally, Datagram

(* A datagram of m.from disturbs no other source's session: the row it takes *)
(* is its own or not in use.                                               *)
LEMMA OtherSession ==
  ASSUME ReportInv, NEW m \in net, m \in Datagrams, udp_received(m), NEW g \in Host, g # m.from, InSession(g)
  PROVE  InSession(g)'
<1>0. PICK i : i = get_session(m.from)
  OBVIOUS
<1>1. PICK s : s = Updated(sessions[i], m)
  OBVIOUS
<1>2. PICK r, n : r = upload[g].run /\ n = upload[g].nb_packets
  OBVIOUS
<1>3. /\ r \in Nat /\ n \in Nat /\ m.from \in Host /\ sessions \in [Row -> Sessions]
      /\ upload'[g] = upload[g]
  <2>1. UNCHANGED upload /\ m.from \in Host
    BY DEF udp_received, Datagrams
  <2> QED BY <1>2, <2>1 DEF ReportInv, LossInv, UdpTypes, UploadStates
<1>4. /\ \/ i = 0
         \/ i \in Row /\ sessions[i].host = m.from
         \/ i \in Row /\ sessions[i].state # "ONGOING"
      /\ i = 0 => UNCHANGED <<sessions, heard>>
  BY <1>0, <1>1, Receives
<1>5. i \in Row => /\ s.host = m.from /\ sessions' = [sessions EXCEPT ![i] = s]
                   /\ heard' = heard \cup {<<m.from, m.run, m.id < 0>>}
  <2> SUFFICES ASSUME i \in Row
               PROVE  /\ s.host = m.from /\ sessions' = [sessions EXCEPT ![i] = s]
                      /\ heard' = heard \cup {<<m.from, m.run, m.id < 0>>}
    OBVIOUS
  <2>1. sessions[i] \in Sessions /\ i # 0
    BY <1>3 DEF Row
  <2>2. s.host = m.from
    BY <1>1, <2>1, UpdatedIs
  <2> QED BY <1>0, <1>1, <2>1, <2>2 DEF udp_received
<1> DEFINE Serves(j) == sessions[j].host = g /\ sessions[j].state = "ONGOING"
           open == Took(g, r) /\ ~ Ended(g, r)
<1>6. \A j \in Row : /\ Serves(j) => sessions'[j] = sessions[j]
                     /\ sessions'[j].host = g => sessions'[j] = sessions[j]
  <2> SUFFICES ASSUME NEW j \in Row
               PROVE  /\ Serves(j) => sessions'[j] = sessions[j]
                      /\ sessions'[j].host = g => sessions'[j] = sessions[j]
    OBVIOUS
  <2>1. CASE i = 0
    BY <1>4, <2>1
  <2>2. CASE i \in Row
    <3>1. sessions'[j] = IF j = i THEN s ELSE sessions[j]
      BY <1>3, <1>5, <2>2
    <3> QED BY <1>4, <1>5, <2>2, <3>1
  <2> QED BY <1>4, <2>1, <2>2
<1>7. /\ \A b : Took(g, b)' <=> Took(g, b)
      /\ \A b : Ended(g, b)' <=> Ended(g, b)
  <2>1. \A b, over : <<g, b, over>> \in heard' <=> <<g, b, over>> \in heard
    BY <1>4, <1>5
  <2> QED BY <2>1 DEF Took, Ended
<1>8. \A id \in Nat : Datagram(g, r, id) \in net' => Datagram(g, r, id) \in net
  <2> SUFFICES ASSUME NEW id \in Nat, Datagram(g, r, id) \in net'
               PROVE  Datagram(g, r, id) \in net
    OBVIOUS
  <2>1. Datagram(g, r, id) \notin Replies
    BY <1>3, DatagramIs
  <2>2. \A d \in net' : d \in net \/ d \in Replies
    BY <1>0, <1>1, Receives
  <2> QED BY <2>1, <2>2
<1>9. /\ \A j \in Row : Serves(j) => open /\ (n > 0 => Tally(sessions[j].count, g, r, n))
      /\ open => (\E j \in Row : Serves(j)) /\ (n > 0 \/ upload[g].at = "wait")
      /\ ~ Ended(g, r) => \A id \in Nat : Datagram(g, r, id) \in net => id < n \/ (n = 0 /\ upload[g].at = "wait")
  BY <1>2 DEF InSession
<1>10. ASSUME NEW j \in Row, sessions'[j].host = g, sessions'[j].state = "ONGOING"
       PROVE  open' /\ (n > 0 => Tally(sessions[j].count, g, r, n)')
  <2>1. sessions'[j] = sessions[j] /\ Serves(j)
    BY <1>6, <1>10
  <2>2. open'
    BY <1>7, <1>9, <2>1
  <2>3. ASSUME n > 0 PROVE Tally(sessions[j].count, g, r, n)'
    <3>1. PICK c : c = sessions[j].count
      OBVIOUS
    <3>2. Tally(c, g, r, n)
      BY <1>9, <2>1, <2>3, <3>1
    <3>3. Tally(c, g, r, n)'
      BY <1>3, <1>8, <3>2, TallyKept
    <3>4. sessions'[j].count = c
      BY <2>1, <3>1
    <3> QED BY <3>3, <3>4 DEF Tally
  <2> QED BY <2>2, <2>3
<1>11. open' => (\E j \in Row : sessions'[j].host = g /\ sessions'[j].state = "ONGOING")
                /\ (n > 0 \/ upload[g].at = "wait")
  BY <1>6, <1>7, <1>9
<1>12. ~ Ended(g, r)' => \A id \in Nat : Datagram(g, r, id) \in net' => id < n \/ (n = 0 /\ upload[g].at = "wait")
  BY <1>7, <1>8, <1>9
<1>13. upload'[g].run = r /\ upload'[g].nb_packets = n /\ upload'[g].at = upload[g].at
  BY <1>2, <1>3
<1> QED BY <1>10, <1>11, <1>12, <1>13 DEF InSession, Took, Ended, Datagram

(* Who waits for a report has it sent by the closing datagram.               *)
LEMMA WaitGoesOn ==
  ASSUME ReportInv, NEW m \in net, m \in Datagrams, udp_received(m), NEW g \in Host, g \notin unanswered
  PROVE  Waits(g)'
<1>0. PICK i : i = get_session(m.from)
  OBVIOUS
<1>1. PICK s : s = Updated(sessions[i], m)
  OBVIOUS
<1>2. /\ Waits(g) /\ upload'[g] = upload[g] /\ heard \subseteq heard' /\ m.from \in Host /\ m.id \in Int
  BY DEF ReportInv, udp_received, Datagrams
<1>3. \A d \in net' : \/ d \in net /\ d # m
                      \/ /\ i \in Row /\ m.id < 0 /\ d \in Replies /\ d.to = m.from /\ d.run = m.run
                         /\ \A e \in net' : e \in net \/ e = d
  <2> SUFFICES ASSUME NEW d \in net', ~ (d \in net /\ d # m)
               PROVE  /\ i \in Row /\ m.id < 0 /\ d \in Replies /\ d.to = m.from /\ d.run = m.run
                      /\ \A e \in net' : e \in net \/ e = d
    OBVIOUS
  <2>1. LossInv
    BY DEF ReportInv
  <2> QED BY <1>0, <1>1, <2>1, Answers
<1>4. CASE g # m.from \/ ~ (m.id < 0)
  <2>1. \A d \in net' : Fin(d, g) \/ Report(d, g) => d \in net
    BY <1>3, <1>4, KindsApart DEF Fin, Report
  <2> QED BY <1>2, <2>1, StillWaits
<1>5. CASE g = m.from /\ m.id < 0
  <2>1. Fin(m, g)
    BY <1>5 DEF Fin
  <2>2. /\ upload[g].at = "wait" /\ upload[g].stat = NoStat /\ m.run = upload[g].run
        /\ \A d \in net : Fin(d, g) \/ Report(d, g) => d = m
    BY <1>2, <2>1 DEF Waits
  <2>3. ASSUME NEW d \in net', Fin(d, g) \/ Report(d, g)
        PROVE  /\ i \in Row /\ d \in Replies /\ d.to = m.from /\ d.run = m.run
               /\ \A e \in net' : e \in net \/ e = d
    BY <1>3, <2>2, <2>3
  <2>4. ASSUME NEW d \in net', Fin(d, g) \/ Report(d, g), NEW e \in net', Fin(e, g) \/ Report(e, g)
        PROVE  e = d
    <3>1. e \in net => e = m
      BY <2>2, <2>4
    <3>2. e \in Replies /\ m \notin Replies
      BY <2>3, <2>4, KindsApart
    <3> QED BY <2>3, <2>4, <3>1, <3>2
  <2>5. \A d \in net' : ~ Fin(d, g)
    <3> SUFFICES ASSUME NEW d \in net', Fin(d, g) PROVE FALSE
      OBVIOUS
    <3> QED BY <2>3, KindsApart DEF Fin
  <2>6. i \in Row => Ended(g, m.run)'
    <3>1. (m.id < 0) = TRUE
      BY <1>5
    <3>2. i \in Row => heard' = heard \cup {<<m.from, m.run, m.id < 0>>}
      BY <1>0, <1>1, Receives
    <3> QED BY <1>5, <3>1, <3>2 DEF Ended
  <2>7. \A d \in net' : Report(d, g) => d.run = m.run /\ Ended(g, m.run)'
    BY <2>3, <2>6
  <2>8. upload'[g].at = "wait" /\ upload'[g].stat = NoStat /\ upload'[g].run = m.run
    BY <1>2, <2>2
  <2> QED BY <2>4, <2>5, <2>7, <2>8 DEF Waits, Fin, Report, Ended
<1> QED BY <1>4, <1>5

LEMMA ReceivedReports ==
  ASSUME ReportInv, NEW m \in net, "from" \in DOMAIN m, udp_received(m)
  PROVE  ReportInv'
<1>0. PICK i : i = get_session(m.from)
  OBVIOUS
<1>1. PICK s : s = Updated(sessions[i], m)
  OBVIOUS
<1>2. /\ m \in Datagrams /\ LossInv /\ UdpTypes /\ RunsInOrder /\ OneRowEach /\ ReportsRight
      /\ dead_frame \subseteq unanswered
  BY InFlight DEF ReportInv, LossInv
<1>3. /\ m.from \in Host /\ m.run \in Nat /\ m.id \in Int /\ sessions \in [Row -> Sessions]
      /\ upload \in [Host -> UploadStates]
  BY <1>2 DEF Datagrams, UdpTypes
<1>4. /\ \/ i = 0 /\ \A j \in Row : sessions[j].host # m.from
         \/ i \in Row /\ sessions[i].host = m.from
         \/ i \in Row /\ sessions[i].state # "ONGOING" /\ \A j \in Row : sessions[j].host # m.from
      /\ i = 0 => UNCHANGED <<sessions, heard>>
      /\ UNCHANGED <<upload, unanswered, dead_frame>> /\ overtaken \subseteq overtaken'
  BY <1>0, <1>1, <1>2, Receives
<1>5. i \in Row => /\ s.host = m.from /\ sessions' = [sessions EXCEPT ![i] = s]
                   /\ heard' = heard \cup {<<m.from, m.run, m.id < 0>>}
  <2> SUFFICES ASSUME i \in Row
               PROVE  /\ s.host = m.from /\ sessions' = [sessions EXCEPT ![i] = s]
                      /\ heard' = heard \cup {<<m.from, m.run, m.id < 0>>}
    OBVIOUS
  <2>1. sessions[i] \in Sessions /\ i # 0
    BY <1>3 DEF Row
  <2>2. s.host = m.from
    BY <1>1, <1>2, <2>1, UpdatedIs
  <2> QED BY <1>0, <1>1, <2>1, <2>2 DEF udp_received
<1>6. \A d \in net' : \/ d \in net /\ d # m
                      \/ /\ i \in Row /\ m.id < 0 /\ d \in Replies /\ d.to = m.from /\ d.run = m.run
                         /\ d.id = m.id /\ d.stat = s.stat /\ d.known = (<<m.from, m.run, FALSE>> \in heard)
                         /\ \A e \in net' : e \in net \/ e = d
  <2> SUFFICES ASSUME NEW d \in net', ~ (d \in net /\ d # m)
               PROVE  /\ i \in Row /\ m.id < 0 /\ d \in Replies /\ d.to = m.from /\ d.run = m.run
                      /\ d.id = m.id /\ d.stat = s.stat /\ d.known = (<<m.from, m.run, FALSE>> \in heard)
                      /\ \A e \in net' : e \in net \/ e = d
    OBVIOUS
  <2>1. /\ i \in Row /\ m.id < 0 /\ d \in Replies /\ d.to = m.from /\ d.run = m.run /\ d.id = m.id
        /\ d.known = (<<m.from, m.run, FALSE>> \in heard)
        /\ \A e \in net' : e \in net \/ e = d
    BY <1>0, <1>1, <1>2, Answers
  <2>2. d.stat = s.stat
    <3>1. d = Reply(m, s.stat, <<m.from, m.run, FALSE>> \in heard)
      BY <1>0, <1>1 DEF udp_received, Arrive, Carry
    <3> QED BY ONLY <3>1 DEF Reply
  <2> QED BY <2>1, <2>2
<1>7. LossInv'
  BY <1>2, ReceivedKeeps
<1>8. RunsInOrder'
  <2>1. \A d \in net' : d \in Datagrams => d \in net
    BY <1>6, KindsApart
  <2>2. 1 <= m.run /\ m.run <= upload[m.from].run
    BY <1>2 DEF RunsInOrder
  <2>3. \A h \in Host, r \in Nat : \A over : <<h, r, over>> \in heard' =>
           <<h, r, over>> \in heard \/ (h = m.from /\ r = m.run)
    BY <1>4, <1>5
  <2>4. \A h \in Host, r \in Nat : (Took(h, r) \/ Ended(h, r))' => 1 <= r /\ r <= upload[h].run
    BY <1>2, <2>2, <2>3 DEF RunsInOrder, Took, Ended
  <2> QED BY <1>2, <1>4, <2>1, <2>4 DEF RunsInOrder
<1>9. OneRowEach'
  <2>1. CASE i = 0
    BY <1>2, <1>4, <2>1 DEF OneRowEach
  <2>2. CASE i \in Row
    <3>1. \A j \in Row : sessions'[j] = IF j = i THEN s ELSE sessions[j]
      BY <1>3, <1>5, <2>2
    <3>2. \A j \in Row : sessions[j].host = m.from => j = i
      BY <1>2, <1>3, <1>4, <2>2 DEF OneRowEach
    <3> QED BY <1>2, <1>3, <1>5, <2>2, <3>1, <3>2 DEF OneRowEach
  <2> QED BY <1>4, <2>1, <2>2
<1>10. ReportsRight'
  <2> SUFFICES ASSUME NEW d \in net', d \in Replies, d.known, d.to \notin overtaken' \cup unanswered'
               PROVE  d.stat.of = d.to /\ d.stat.run = d.run /\ d.stat.datagrams < - d.id
    BY DEF ReportsRight, Replies, Stats
  <2>1. CASE d \in net
    BY <1>2, <1>4, <2>1 DEF ReportsRight
  <2>2. CASE /\ i \in Row /\ m.id < 0 /\ d.to = m.from /\ d.run = m.run
             /\ d.id = m.id /\ d.stat = s.stat /\ d.known = (<<m.from, m.run, FALSE>> \in heard)
    <3>1. Took(m.from, m.run)
      BY <2>2 DEF Took
    <3>2. s.stat.of = m.from /\ s.stat.run = m.run /\ s.stat.datagrams < - m.id
      BY <1>0, <1>1, <1>2, <2>2, <3>1, SessionGoesOn
    <3> QED BY <2>2, <3>2
  <2> QED BY <1>6, <2>1, <2>2
<1>11. ASSUME NEW g \in Host
       PROVE  /\ g \notin unanswered' => Waits(g)'
              /\ g \notin overtaken' \cup unanswered' => InSession(g)'
  <2>1. g \notin unanswered' => Waits(g)'
    BY <1>2, <1>4, WaitGoesOn
  <2>2. ASSUME g \notin overtaken' \cup unanswered' PROVE InSession(g)'
    <3>1. CASE g = m.from
      BY <1>2, <2>2, <3>1, SessionGoesOn
    <3>2. CASE g # m.from
      <4>1. InSession(g)
        BY <1>4, <2>2 DEF ReportInv
      <4> QED BY <1>2, <3>2, <4>1, OtherSession
    <3> QED BY <3>1, <3>2
  <2> QED BY <2>1, <2>2
<1>12. (dead_frame \subseteq unanswered)'
  BY <1>2, <1>4
<1> QED BY <1>7, <1>8, <1>9, <1>10, <1>11, <1>12 DEF ReportInv

-----------------------------------------------------------------------------
(* The reports: the specification                                           *)

LEMMA ReportsInitially == UdpInit => ReportInv
<1> SUFFICES ASSUME UdpInit PROVE ReportInv
  OBVIOUS
<1>1. /\ net = {} /\ heard = {} /\ overtaken = {} /\ unanswered = {} /\ dead_frame = {}
      /\ \A i \in Row : sessions[i].host = Nobody /\ sessions[i].state = "NULL"
      /\ \A h \in Host : upload[h] = Idle(0)
  BY DEF UdpInit
<1>2. RunsInOrder
  BY <1>1 DEF RunsInOrder, Took, Ended, Idle
<1>3. Nobody \notin Host
  BY ZperfUdpAssumption
<1>4. OneRowEach /\ ReportsRight
  BY <1>1, <1>3 DEF OneRowEach, ReportsRight
<1>5. ASSUME NEW h \in Host PROVE Waits(h) /\ InSession(h)
  <2>1. upload[h].at = "idle" /\ upload[h].run = 0 /\ upload[h].nb_packets = 0 /\ upload[h].stat = NoStat
    BY <1>1 DEF Idle
  <2>2. Waits(h)
    BY <1>1, <2>1 DEF Waits
  <2>3. ~ Took(h, 0)
    BY <1>1 DEF Took
  <2>4. InSession(h)
    BY <1>1, <2>1, <2>3 DEF InSession
  <2> QED BY <2>2, <2>4
<1> QED BY <1>1, <1>2, <1>4, <1>5, LossInitially DEF ReportInv

LEMMA ReportsStay ==
  ASSUME ReportInv, UNCHANGED <<net, sessions, upload, heard, overtaken, unanswered, dead_frame>>
  PROVE  ReportInv'
<1>1. LossInv'
  BY DEF ReportInv, LossInv, UdpTypes, CountsRight, Missing
<1>2. RunsInOrder' /\ OneRowEach' /\ ReportsRight' /\ (dead_frame \subseteq unanswered)'
  BY DEF ReportInv, RunsInOrder, OneRowEach, ReportsRight, Took, Ended
<1>3. ASSUME NEW h \in Host
      PROVE  /\ h \notin unanswered' => Waits(h)'
             /\ h \notin overtaken' \cup unanswered' => InSession(h)'
  <2>1. upload[h].run \in Nat /\ upload[h].nb_packets \in Nat
    BY DEF ReportInv, LossInv, UdpTypes, UploadStates
  <2>2. /\ h \notin unanswered => Waits(h)
        /\ h \notin overtaken \cup unanswered => InSession(h)
    BY DEF ReportInv
  <2>3. Waits(h) => Waits(h)'
    BY StillWaits
  <2>4. InSession(h) => InSession(h)'
    BY <2>1, StillInSession
  <2> QED BY <2>2, <2>3, <2>4
<1> QED BY <1>1, <1>2, <1>3 DEF ReportInv

LEMMA ReportsKept == ReportInv /\ [Next]_vars => ReportInv'
<1> SUFFICES ASSUME ReportInv, [Next]_vars PROVE ReportInv'
  OBVIOUS
<1>1. UdpNext \/ UNCHANGED udpVars
  BY DEF Next, Udp, Tcp, Shell, vars
<1>2. CASE UdpNext
  <2>1. CASE cmd_udp_download
    BY <2>1, ReportsStay DEF cmd_udp_download
  <2>2. ASSUME NEW h \in Host, Uploader(h) PROVE ReportInv'
    <3>1. LossInv'
      BY <2>2, UploaderKeeps DEF ReportInv
    <3>2. /\ RunsInOrder' /\ OneRowEach' /\ ReportsRight' /\ dead_frame' \subseteq unanswered'
          /\ \A g \in Host : /\ g \notin unanswered' => Waits(g)'
                             /\ g \notin overtaken' \cup unanswered' => InSession(g)'
      BY <2>2, UploaderLeaves, UploaderGoesOn
    <3> QED BY <3>1, <3>2 DEF ReportInv
  <2> QED BY <1>2, <2>1, <2>2, ReceivedReports, StatReports DEF UdpNext
<1>3. CASE UNCHANGED udpVars
  BY <1>3, ReportsStay DEF udpVars
<1> QED BY <1>1, <1>2, <1>3

(* udp_received, zperf_upload_fin: however late and in whatever order the    *)
(* datagrams of however many sources arrive, a report that answers an upload *)
(* of which some data was taken is of that very upload, and counts less than *)
(* it sent - but for those overtaken or given up; and the callback writes to *)
(* a frame already left only after a wait that timed out.                   *)
THEOREM ReportsAreRight == Spec => []ReportsAreOfTheUpload
<1>1. Init => ReportInv
  BY ReportsInitially DEF Init
<1>2. ReportInv /\ [Next]_vars => ReportInv'
  BY ReportsKept
<1>3. ReportInv => ReportsAreOfTheUpload
  <2> SUFFICES ASSUME ReportInv PROVE ReportsAreOfTheUpload
    OBVIOUS
  <2>1. \A m \in net : "to" \in DOMAIN m => m \in Replies
    BY InFlight DEF ReportInv, LossInv
  <2> QED BY <2>1 DEF ReportInv, ReportsRight, ReportsAreOfTheUpload
<1> QED BY <1>1, <1>2, <1>3, PTL DEF Spec

-----------------------------------------------------------------------------
(* Rows, contexts and addresses come back *)

TcpTypes ==
  /\ table \in [Slot -> [ctx : Context \cup {Null}, state : {"NULL", "ONGOING", "COMPLETED"}]]
  /\ conn \in [Context -> [at : {"closed", "open", "closing", "kept"}, time_elapsed : BOOLEAN]]
  /\ \A i \in Slot : table[i].state = "ONGOING" => table[i].ctx \in Context

RowInv == TcpTypes /\ RowsComeBack

(* A command past the prompt, and the contexts it has taken so far.          *)
Commands == [at : {"get", "bind", "connect", "upload"}, kind : {"upload", "download"}, proto : {"udp", "tcp"},
             family : Family, context : [Family -> 0 .. MAX_CONTEXTS]]

ShellTypes ==
  /\ static \in [init_ok : BOOLEAN, udp_stopped : BOOLEAN, init_done : BOOLEAN, tcp_running : BOOLEAN]
  /\ command \in {Prompt} \cup Commands
  /\ serving \subseteq [context : 1 .. MAX_CONTEXTS, proto : {"udp", "tcp"}, family : Family]

(* What a command holds at each place: while it still gets, nothing for the  *)
(* family it gets last; then one of each; an upload over TCP only its own.   *)
HoldsWhatItGot ==
  command # Prompt =>
    /\ command.at = "get" => command.context[Order(command.kind)[2]] = None
    /\ command.at \in {"bind", "connect"} => \A f \in Family : command.context[f] # None
    /\ command.at = "upload" => command.context[Other(command.family)] = None /\ command.context[command.family] # None
    /\ command.context["v6"] = command.context["v4"] => command.context["v6"] = None

(* Each context in use has one owner, but that a receiver whose set-up       *)
(* failed half-way goes on serving one of those it left behind.              *)
Owned ==
  /\ used = {s.context : s \in serving} \cup accepted \cup closing \cup Held \cup abandoned
  /\ Held \cap closing = {}
  /\ (Held \cup closing \cup accepted) \cap ({s.context : s \in serving} \cup abandoned) = {}
  /\ (Held \cup closing) \cap accepted = {}
  /\ static.init_done => {s.family : s \in {t \in serving : t.proto = "tcp"}} = Family

ContextInv == ShellTypes /\ HoldsWhatItGot /\ Owned

AddressInv ==
  /\ DOMAIN iface = Family
  /\ ~ static.init_ok => command = Prompt /\ (iface["v4"] = {} \/ Own \in iface["v4"])
  /\ OwnAddressFirst

(* get_tcp_session returns a row, unless every row has another session.      *)
LEMMA TcpSession ==
  ASSUME TcpTypes, NEW c \in Context
  PROVE  /\ get_tcp_session(c) \in Slot \cup {0}
         /\ get_tcp_session(c) = 0 => \A i \in Slot : ~ (table[i].ctx = c)
<1> DEFINE usable == {i \in Slot : table[i].ctx = c \/ table[i].state \in {"NULL", "COMPLETED"}}
<1>1. usable \subseteq Slot /\ usable \subseteq Nat
  BY ZperfTcpAssumption DEF Slot
<1>2. CASE usable = {}
  BY <1>2 DEF get_tcp_session
<1>3. CASE usable # {}
  <2>1. Min(usable) \in usable
    BY <1>1, <1>3, MinIsIn
  <2>2. get_tcp_session(c) = Min(usable)
    BY <1>3 DEF get_tcp_session
  <2>3. 0 \notin Slot
    BY ZperfTcpAssumption DEF Slot
  <2> QED BY <1>1, <2>1, <2>2, <2>3
<1> QED BY <1>2, <1>3

(* A row is taken for a context: the others keep what they have.            *)
LEMMA RowTaken ==
  ASSUME TcpTypes, NEW i \in Slot, NEW c \in Context, NEW eof \in BOOLEAN, Take(i, c, eof)
  PROVE  /\ table' \in [Slot -> [ctx : Context \cup {Null}, state : {"NULL", "ONGOING", "COMPLETED"}]]
         /\ \A j \in Slot : table'[j].state = "ONGOING" => table'[j].ctx \in Context
         /\ \A j \in Slot \ {i} : table'[j] = table[j]
         /\ table'[i].ctx = c
         /\ table'[i].state = IF eof THEN "NULL" ELSE "ONGOING"
<1> DEFINE row == [ctx |-> c, state |-> IF eof THEN "NULL" ELSE "ONGOING"]
<1>1. row \in [ctx : Context \cup {Null}, state : {"NULL", "ONGOING", "COMPLETED"}]
  OBVIOUS
<1>2. row.ctx = c /\ row.state = IF eof THEN "NULL" ELSE "ONGOING"
  OBVIOUS
<1> HIDE DEF row
<1>3. table' = [table EXCEPT ![i] = row]
  BY DEF Take, row
<1> QED BY <1>1, <1>2, <1>3 DEF TcpTypes

(* A callback that takes a row closes no connection but its own, and blames  *)
(* the rows it leaves behind.                                              *)
LEMMA RowsOf ==
  ASSUME RowInv, NEW i \in Slot, NEW c \in Context, NEW eof \in BOOLEAN, NEW more,
         Take(i, c, eof), blamed' = blamed \cup more \cup LeftBehind(c, i),
         conn' \in [Context -> [at : {"closed", "open", "closing", "kept"}, time_elapsed : BOOLEAN]],
         \A d \in Context \ {c} : conn'[d] = conn[d],
         ~ eof /\ conn'[c].at = "closed" => i \in more
  PROVE  RowInv'
<1>1. /\ table' \in [Slot -> [ctx : Context \cup {Null}, state : {"NULL", "ONGOING", "COMPLETED"}]]
      /\ \A j \in Slot : table'[j].state = "ONGOING" => table'[j].ctx \in Context
      /\ \A j \in Slot \ {i} : table'[j] = table[j]
      /\ table'[i].ctx = c
      /\ table'[i].state = IF eof THEN "NULL" ELSE "ONGOING"
  BY RowTaken DEF RowInv
<1>2. TcpTypes'
  BY <1>1 DEF TcpTypes
<1>3. ASSUME NEW j \in Slot, table'[j].state = "ONGOING", conn'[table'[j].ctx].at = "closed"
      PROVE  j \in blamed'
  <2>1. CASE j = i
    BY <1>1, <1>3, <2>1
  <2>2. CASE j # i /\ table[j].ctx = c
    BY <1>1, <1>3, <2>2 DEF LeftBehind
  <2>3. CASE j # i /\ table[j].ctx # c
    <3>1. table[j].state = "ONGOING" /\ table[j].ctx \in Context \ {c}
      BY <1>1, <1>3, <2>3
    <3>2. conn[table[j].ctx].at = "closed"
      BY <1>1, <1>3, <2>3, <3>1
    <3> QED BY <3>1, <3>2 DEF RowInv, RowsComeBack
  <2> QED BY <2>1, <2>2, <2>3
<1> QED BY <1>2, <1>3 DEF RowInv, RowsComeBack

(* The others open a connection or work on an open one.                     *)
LEMMA RowsStay ==
  ASSUME RowInv, UNCHANGED <<table, blamed>>,
         conn' \in [Context -> [at : {"closed", "open", "closing", "kept"}, time_elapsed : BOOLEAN]],
         \A d \in Context : conn'[d].at = "closed" =>
           conn[d].at = "closed" \/ \A i \in Slot : ~ (table[i].ctx = d)
  PROVE  RowInv'
<1>1. TcpTypes'
  BY DEF RowInv, TcpTypes
<1>2. RowsComeBack'
  BY DEF RowInv, TcpTypes, RowsComeBack
<1> QED BY <1>1, <1>2 DEF RowInv

LEMMA RowsInitially == TcpInit => RowInv
  BY DEF TcpInit, RowInv, TcpTypes, RowsComeBack, Closed

LEMMA RowsKept == RowInv /\ TcpNext => RowInv'
<1> SUFFICES ASSUME RowInv, TcpNext PROVE RowInv'
  OBVIOUS
<1> DEFINE Conn == [at : {"closed", "open", "closing", "kept"}, time_elapsed : BOOLEAN]
<1>1. conn \in [Context -> Conn] /\ Closed \in Conn /\ [Closed EXCEPT !.at = "kept"] \in Conn
  BY DEF RowInv, TcpTypes, Closed
<1>2. CASE cmd_tcp_download
  BY <1>1, <1>2, RowsStay DEF cmd_tcp_download
<1>3. ASSUME NEW c \in Context,
             tcp_accepted(c) \/ Segment(c) \/ TimeElapses(c) \/ TcpSendFails(c) \/ Eof(c) \/ Reset(c)
      PROVE  RowInv'
  <2> DEFINE i == get_tcp_session(c)
  <2>1. i \in Slot \cup {0} /\ (i = 0 => \A j \in Slot : ~ (table[j].ctx = c)) /\ 0 \notin Slot
    BY TcpSession, ZperfTcpAssumption DEF RowInv, Slot
  <2>2. CASE tcp_accepted(c)
    <3>1. conn' \in [Context -> Conn] /\ \A d \in Context : conn'[d].at = "closed" => conn[d].at = "closed"
      BY <1>1, <2>2 DEF tcp_accepted
    <3> QED BY <2>2, <3>1, RowsStay DEF tcp_accepted
  <2>3. CASE TimeElapses(c)
    <3>1. conn' \in [Context -> Conn] /\ \A d \in Context : conn'[d].at = "closed" => conn[d].at = "closed"
      BY <1>1, <2>3 DEF TimeElapses
    <3> QED BY <2>3, <3>1, RowsStay DEF TimeElapses
  <2>4. CASE TcpSendFails(c)
    <3>1. conn' \in [Context -> Conn] /\ \A d \in Context : conn'[d].at = "closed" => conn[d].at = "closed"
      BY <1>1, <2>4 DEF TcpSendFails
    <3> QED BY <2>4, <3>1, RowsStay DEF TcpSendFails
  <2>5. CASE Segment(c)
    <3>1. /\ conn' \in [Context -> Conn] /\ \A d \in Context \ {c} : conn'[d] = conn[d]
          /\ conn'[c].at \in {"open", "closing"}
      BY <1>1, <2>5 DEF Segment
    <3>2. CASE i = 0
      BY <2>5, <3>1, <3>2, RowsStay DEF Segment
    <3>3. CASE i # 0
      <4>1. Take(i, c, FALSE) /\ blamed' = blamed \cup {} \cup LeftBehind(c, i)
        BY <2>5, <3>3 DEF Segment
      <4>2. i \in Slot
        BY <2>1, <3>3
      <4> QED BY <3>1, <4>1, <4>2, RowsOf
    <3> QED BY <3>2, <3>3
  <2>6. CASE Eof(c)
    <3>1. CASE i = 0
      <4>1. conn' = [conn EXCEPT ![c] = [Closed EXCEPT !.at = "kept"]] /\ UNCHANGED <<table, blamed>>
        BY <2>6, <3>1 DEF Eof
      <4>2. conn' \in [Context -> Conn] /\ \A d \in Context : conn'[d].at = "closed" => conn[d].at = "closed"
        BY <1>1, <4>1 DEF Closed
      <4> QED BY <4>1, <4>2, RowsStay
    <3>2. CASE i # 0
      <4>1. /\ conn' = [conn EXCEPT ![c] = Closed]
            /\ Take(i, c, TRUE) /\ blamed' = blamed \cup {} \cup LeftBehind(c, i)
        BY <2>6, <3>2 DEF Eof
      <4>2. conn' \in [Context -> Conn] /\ \A d \in Context \ {c} : conn'[d] = conn[d]
        BY <1>1, <4>1
      <4>3. i \in Slot
        BY <2>1, <3>2
      <4> QED BY <4>1, <4>2, <4>3, RowsOf
    <3> QED BY <3>1, <3>2
  <2>7. CASE Reset(c)
    <3>1. conn' = [conn EXCEPT ![c] = Closed]
      BY <2>7 DEF Reset
    <3>2. conn' \in [Context -> Conn] /\ \A d \in Context \ {c} : conn'[d] = conn[d]
      BY <1>1, <3>1
    <3>3. CASE i = 0
      BY <2>1, <2>7, <3>2, <3>3, RowsStay DEF Reset
    <3>4. CASE i # 0
      <4>1. Take(i, c, FALSE) /\ blamed' = blamed \cup {i} \cup LeftBehind(c, i)
        BY <2>7, <3>4 DEF Reset
      <4>2. i \in Slot
        BY <2>1, <3>4
      <4> QED BY <3>2, <4>1, <4>2, RowsOf
    <3> QED BY <3>3, <3>4
  <2> QED BY <1>3, <2>2, <2>3, <2>4, <2>5, <2>6, <2>7
<1> QED BY <1>2, <1>3 DEF TcpNext

(* net_context_get hands out a context nobody has.                          *)
LEMMA FreeOne ==
  ASSUME (1 .. MAX_CONTEXTS) \ used # {}
  PROVE  Min((1 .. MAX_CONTEXTS) \ used) \in (1 .. MAX_CONTEXTS) \ used
<1>1. (1 .. MAX_CONTEXTS) \ used \subseteq Nat
  BY ZperfShellAssumption
<1> QED BY <1>1, MinIsIn

LEMMA HeldBy ==
  ASSUME command \in Commands
  PROVE  Held = {command.context["v6"], command.context["v4"]} \ {None} /\ command # Prompt
<1>1. command # Prompt
  BY DEF Commands, Prompt
<1> QED BY <1>1 DEF Held, Family

LEMMA ServersAll ==
  ASSUME ShellTypes
  PROVE  Servers("udp") \cup Servers("tcp") = {s.context : s \in serving}
  BY DEF ShellTypes, Servers

(* A command begins: it holds nothing yet.                                  *)
LEMMA BeginsWithNothing ==
  ASSUME ContextInv, command = Prompt, UNCHANGED <<used, serving, accepted, closing, abandoned>>,
         static' \in [init_ok : BOOLEAN, udp_stopped : BOOLEAN, init_done : BOOLEAN, tcp_running : BOOLEAN],
         static'.init_done = static.init_done,
         \/ command' = Prompt
         \/ \E kind \in {"upload", "download"}, proto \in {"udp", "tcp"}, f \in Family :
              command' = Started(kind, proto, f)
  PROVE  ContextInv'
<1>1. Held = {}
  BY DEF Held
<1>2. CASE command' = Prompt
  BY <1>1, <1>2 DEF ContextInv, ShellTypes, HoldsWhatItGot, Owned, Held
<1>3. ASSUME NEW kind \in {"upload", "download"}, NEW proto \in {"udp", "tcp"}, NEW f \in Family,
             command' = Started(kind, proto, f)
      PROVE  ContextInv'
  <2>1. command' \in Commands
    BY <1>3, ZperfShellAssumption DEF Started, Commands, None
  <2>2. command'.at = "get" /\ \A g \in Family : command'.context[g] = None
    BY <1>3 DEF Started
  <2>3. Held' = {}
    BY <2>2 DEF Held
  <2>4. command'.context[Order(command'.kind)[2]] = None
    <3>1. Order(command'.kind)[2] \in Family
      BY <2>1 DEF Commands, Order, Family
    <3> QED BY <2>2, <3>1
  <2>5. HoldsWhatItGot'
    BY <2>2, <2>4 DEF HoldsWhatItGot, Family
  <2> QED BY <1>1, <2>1, <2>3, <2>5 DEF ContextInv, ShellTypes, Owned
<1> QED BY <1>2, <1>3

(* A command returns, and puts none of what it holds.                        *)
LEMMA LeavesItBehind ==
  ASSUME ContextInv, command' = Prompt, NEW more \in SUBSET (1 .. MAX_CONTEXTS), more \cap used = {},
         used' = used \cup more, abandoned' = abandoned \cup Held \cup more,
         UNCHANGED <<static, serving, accepted, closing>>
  PROVE  ContextInv'
<1>1. Held' = {}
  BY DEF Held
<1> QED BY <1>1 DEF ContextInv, ShellTypes, HoldsWhatItGot, Owned

(* The next one of the command's two.                                       *)
LEMMA Gets ==
  ASSUME ContextInv, command \in Commands, GetContext PROVE ContextInv'
<1> DEFINE first == Order(command.kind)[1]
           last == Order(command.kind)[2]
           f == NextToGet
           free == (1 .. MAX_CONTEXTS) \ used
           c == Min(free)
           taken == [command EXCEPT !.context[f] = c, !.at = IF f = last THEN "bind" ELSE "get"]
<1>1. /\ first \in Family /\ last \in Family /\ first # last /\ Family = {first, last}
      /\ f = IF command.context[first] = None THEN first ELSE last
      /\ command.at = "get" /\ command # Prompt
      /\ UNCHANGED <<static, serving, accepted, closing>>
  BY HeldBy DEF Commands, Order, Family, NextToGet, GetContext
<1>2. command.context[last] = None
  BY <1>1 DEF ContextInv, HoldsWhatItGot
<1>3. CASE free = {}
  <2>1. command' = Prompt /\ abandoned' = abandoned \cup Held /\ used' = used
    BY <1>3 DEF GetContext, Abandon
  <2>2. used' = used \cup {} /\ abandoned' = abandoned \cup Held \cup {}
    BY <2>1
  <2> QED BY ONLY <1>1, <2>1, <2>2, ContextInv, LeavesItBehind
<1>4. CASE free # {}
  <2>1. c \in free
    BY <1>4, FreeOne
  <2>2. used' = used \cup {c}
    BY <1>4 DEF GetContext
  <2>3. \/ command' = taken /\ UNCHANGED abandoned
        \/ command' = Prompt /\ abandoned' = abandoned \cup Held \cup {c}
    BY <1>4 DEF GetContext
  <2>4. CASE command' = Prompt /\ abandoned' = abandoned \cup Held \cup {c}
    <3>1. {c} \cap used = {} /\ {c} \in SUBSET (1 .. MAX_CONTEXTS)
      BY <2>1
    <3> QED BY ONLY <1>1, <2>2, <2>4, <3>1, ContextInv, LeavesItBehind
  <2>5. CASE command' = taken /\ UNCHANGED abandoned
    <3>0. c \in 1 .. MAX_CONTEXTS /\ c # None /\ c \in 0 .. MAX_CONTEXTS
      BY <2>1, ZperfShellAssumption DEF None
    <3>1. f \in Family
      BY <1>1
    <3> DEFINE cx == [command.context EXCEPT ![f] = c]
               at == IF f = last THEN "bind" ELSE "get"
    <3>2. /\ command' = [at |-> at, kind |-> command.kind, proto |-> command.proto,
                         family |-> command.family, context |-> cx]
          /\ cx \in [Family -> 0 .. MAX_CONTEXTS]
      BY <2>5, <3>0, <3>1 DEF Commands
    <3>3. cx[f] = c /\ \A g \in Family \ {f} : cx[g] = command.context[g]
      BY <3>1 DEF Commands
    <3> HIDE DEF cx, at
    <3>4. /\ command' \in Commands /\ command'.at = at /\ command'.kind = command.kind
          /\ command'.family = command.family /\ command'.context = cx
      BY <3>2 DEF at, Commands
    <3>5. Held' = Held \cup {c}
      <4>1. Held = {command.context["v6"], command.context["v4"]} \ {None}
        BY HeldBy
      <4>2. command' # Prompt
        BY <3>4 DEF Commands, Prompt
      <4>3. Held' = {cx["v6"], cx["v4"]} \ {None}
        BY <3>4, <4>2 DEF Held, Family
      <4>4. command.context[f] = None
        BY <1>1, <1>2
      <4> QED BY <3>0, <3>1, <3>3, <4>1, <4>3, <4>4 DEF Family
    <3>6. HoldsWhatItGot'
      <4>1. CASE f = first
        <5>1. at = "get" /\ cx[last] = None /\ cx[first] = c
          BY <1>1, <1>2, <3>3, <4>1 DEF at
        <5>2. Order(command'.kind)[2] = last
          BY <3>4
        <5>3. cx["v6"] # cx["v4"]
          BY <1>1, <3>0, <5>1 DEF Family
        <5> QED BY <3>4, <5>1, <5>2, <5>3 DEF HoldsWhatItGot
      <4>2. CASE f # first
        <5>1. f = last /\ at = "bind" /\ cx[last] = c /\ cx[first] = command.context[first]
          BY <1>1, <3>3, <4>2 DEF at
        <5>2. command.context[first] # None
          BY <1>1, <4>2
        <5>3. command.context[first] \in Held
          BY <1>1, <5>2 DEF Held
        <5>4. command.context[first] # c
          BY <2>1, <5>3 DEF ContextInv, Owned
        <5>5. cx["v6"] # cx["v4"] /\ \A g \in Family : cx[g] # None
          BY <1>1, <3>0, <5>1, <5>2, <5>4 DEF Family
        <5> QED BY <3>4, <5>1, <5>5 DEF HoldsWhatItGot
      <4> QED BY <4>1, <4>2
    <3>7. ShellTypes'
      BY <1>1, <3>4 DEF ContextInv, ShellTypes
    <3>8. Owned'
      <4> DEFINE Serving == {s.context : s \in serving}
      <4>1. /\ used = Serving \cup accepted \cup closing \cup Held \cup abandoned
            /\ Held \cap closing = {}
            /\ (Held \cup closing \cup accepted) \cap (Serving \cup abandoned) = {}
            /\ (Held \cup closing) \cap accepted = {}
            /\ static.init_done => {s.family : s \in {t \in serving : t.proto = "tcp"}} = Family
        BY DEF ContextInv, Owned
      <4>2. serving' = serving /\ accepted' = accepted /\ closing' = closing /\ static' = static
        BY <1>1
      <4>3. used' = used \cup {c} /\ c \notin used /\ abandoned' = abandoned
        BY <2>1, <2>2, <2>5
      <4>4. Serving' = Serving
        BY ONLY <4>2
      <4> HIDE DEF Serving
      <4>5. /\ used' = Serving' \cup accepted' \cup closing' \cup Held' \cup abandoned'
            /\ Held' \cap closing' = {}
            /\ (Held' \cup closing' \cup accepted') \cap (Serving' \cup abandoned') = {}
            /\ (Held' \cup closing') \cap accepted' = {}
        BY ONLY <3>5, <4>1, <4>2, <4>3, <4>4
      <4> QED BY ONLY <4>1, <4>2, <4>5 DEF Owned, Serving
    <3> QED BY <3>6, <3>7, <3>8 DEF ContextInv
  <2> QED BY <2>3, <2>4, <2>5
<1> QED BY <1>3, <1>4

(* The command goes on with the contexts it has.                             *)
LEMMA Binds ==
  ASSUME ContextInv, command \in Commands, Bind PROVE ContextInv'
<1>1. command.at = "bind" /\ UNCHANGED <<iface, addr_my, used, accepted, closing>> /\ command # Prompt
  BY HeldBy DEF Bind
<1> DEFINE On(f) == [context |-> command.context[f], proto |-> command.proto, family |-> f]
<1>2. \A f \in Family : /\ On(f) \in [context : 1 .. MAX_CONTEXTS, proto : {"udp", "tcp"}, family : Family]
                        /\ On(f).context \in Held /\ On(f).family = f /\ On(f).proto = command.proto
  <2>1. \A f \in Family : command.context[f] # None /\ command.context[f] \in 0 .. MAX_CONTEXTS
    BY <1>1 DEF ContextInv, HoldsWhatItGot, Commands
  <2>2. \A f \in Family : command.context[f] \in 1 .. MAX_CONTEXTS
    BY <2>1, ZperfShellAssumption DEF None
  <2> QED BY <1>1, <2>1, <2>2 DEF Held, Commands
<1>3. CASE Abandon /\ UNCHANGED <<static, serving>>
  <2>1. used' = used \cup {} /\ abandoned' = abandoned \cup Held \cup {} /\ command' = Prompt
    BY <1>1, <1>3 DEF Abandon
  <2> QED BY ONLY <1>1, <1>3, <2>1, ContextInv, LeavesItBehind
<1>4. CASE command.kind = "upload" /\ command' = [command EXCEPT !.at = "connect"]
           /\ UNCHANGED <<static, serving, abandoned>>
  <2>1. /\ command' \in Commands /\ command'.at = "connect" /\ command'.context = command.context
    BY <1>4 DEF Commands
  <2>2. command' # Prompt
    BY <2>1 DEF Prompt, Commands
  <2>3. Held' = Held
    BY <1>1, <2>1, <2>2 DEF Held
  <2>4. HoldsWhatItGot'
    BY <1>1, <2>1 DEF ContextInv, HoldsWhatItGot
  <2> QED BY <1>1, <1>4, <2>1, <2>3, <2>4 DEF ContextInv, ShellTypes, Owned
<1>5. CASE Abandon /\ serving' = serving \cup {On("v6")} /\ UNCHANGED static
  <2>1. Held' = {} /\ command' = Prompt /\ abandoned' = abandoned \cup Held
    BY <1>5 DEF Held, Abandon
  <2>2. {s.context : s \in serving'} = {s.context : s \in serving} \cup {On("v6").context}
    BY <1>5
  <2>3. On("v6").context \in Held /\ On("v6") \in [context : 1 .. MAX_CONTEXTS, proto : {"udp", "tcp"}, family : Family]
    BY <1>2 DEF Family
  <2>4. {s.family : s \in {t \in serving : t.proto = "tcp"}} = Family => {s.family : s \in {t \in serving' : t.proto = "tcp"}} = Family
    BY <1>5, <1>2 DEF ContextInv, ShellTypes, Family
  <2>5. Owned'
    BY <1>1, <1>5, <2>1, <2>2, <2>3, <2>4 DEF ContextInv, Owned
  <2>6. ShellTypes' /\ HoldsWhatItGot'
    BY <1>5, <2>1, <2>3 DEF ContextInv, ShellTypes, HoldsWhatItGot
  <2> QED BY <2>5, <2>6 DEF ContextInv
<1>6. CASE /\ command' = Prompt
           /\ serving' = serving \cup {On(f) : f \in Family}
           /\ static' = IF command.proto = "tcp"
                        THEN [static EXCEPT !.init_done = TRUE, !.tcp_running = TRUE] ELSE static
           /\ UNCHANGED abandoned
  <2>1. Held' = {}
    BY <1>6 DEF Held
  <2>2. Held = {On("v6").context, On("v4").context}
    <3>1. Held = {command.context["v6"], command.context["v4"]} \ {None}
      BY HeldBy
    <3>2. On("v6").context \in Held /\ On("v4").context \in Held
      BY <1>2 DEF Family
    <3> QED BY <3>1, <3>2
  <2>3. {s.context : s \in serving'} = {s.context : s \in serving} \cup Held
    BY <1>6, <2>2 DEF Family
  <2>4. \A s \in serving' \ serving : s.proto = command.proto
    BY <1>2, <1>6
  <2>7. static'.init_done => {s.family : s \in {t \in serving' : t.proto = "tcp"}} = Family
    <3>1. CASE command.proto = "tcp"
      <4>1. {s.family : s \in {t \in serving' : t.proto = "tcp"}} = Family
        <5>1. On("v6") \in serving' /\ On("v4") \in serving' /\ On("v6").proto = "tcp" /\ On("v4").proto = "tcp"
          BY <1>6, <3>1 DEF Family
        <5>2. On("v6").family = "v6" /\ On("v4").family = "v4"
          OBVIOUS
        <5>3. \A s \in serving' : s.family \in Family
          BY <1>2, <1>6 DEF ContextInv, ShellTypes
        <5> QED BY <5>1, <5>2, <5>3 DEF Family
      <4> QED BY <4>1
    <3>2. CASE command.proto # "tcp"
      <4>1. static' = static
        BY <1>6, <3>2
      <4>2. {s.family : s \in {t \in serving' : t.proto = "tcp"}} = {s.family : s \in {t \in serving : t.proto = "tcp"}}
        BY <1>6, <2>4, <3>2
      <4> QED BY <4>1, <4>2 DEF ContextInv, Owned
    <3> QED BY <3>1, <3>2
  <2>8. Owned'
    BY <1>1, <1>6, <2>1, <2>3, <2>7 DEF ContextInv, Owned
  <2>9. ShellTypes' /\ HoldsWhatItGot'
    <3>1. static' \in [init_ok : BOOLEAN, udp_stopped : BOOLEAN, init_done : BOOLEAN, tcp_running : BOOLEAN]
      BY <1>6 DEF ContextInv, ShellTypes
    <3>2. serving' \subseteq [context : 1 .. MAX_CONTEXTS, proto : {"udp", "tcp"}, family : Family]
      BY <1>2, <1>6 DEF ContextInv, ShellTypes
    <3> QED BY <1>6, <3>1, <3>2 DEF ShellTypes, HoldsWhatItGot
  <2> QED BY <2>8, <2>9 DEF ContextInv
<1> QED BY <1>3, <1>4, <1>5, <1>6 DEF Bind

(* An upload past its set-up puts what it holds, and nobody else had it.     *)
LEMMA UploadPuts ==
  ASSUME ContextInv, command \in Commands, UploadEnds \/ TcpConnected \/ TcpUploadEnds PROVE ContextInv'
<1>1. command # Prompt
  BY HeldBy
<1>2. CASE UploadEnds
  <2>1. command' = Prompt /\ Held' = {} /\ used' = used \ Held
        /\ UNCHANGED <<static, iface, addr_my, serving, accepted, closing, abandoned>>
    BY <1>2 DEF UploadEnds, PutBoth, Held
  <2>2. Owned'
    <3>1. used' = {s.context : s \in serving'} \cup accepted' \cup closing' \cup Held' \cup abandoned'
      BY <2>1 DEF ContextInv, Owned
    <3> QED BY <2>1, <3>1 DEF ContextInv, Owned
  <2> QED BY <2>1, <2>2 DEF ContextInv, ShellTypes, HoldsWhatItGot
<1>3. CASE TcpConnected
  <2> DEFINE g == Other(command.family)
             f == command.family
             c == command.context[g]
             cx == [command.context EXCEPT ![g] = None]
  <2>1. f \in Family /\ g \in Family /\ f # g /\ Family = {f, g} /\ Other(f) = g
    BY DEF Commands, Other, Family
  <2>2. /\ command' = [at |-> "upload", kind |-> command.kind, proto |-> command.proto,
                       family |-> f, context |-> cx]
        /\ cx \in [Family -> 0 .. MAX_CONTEXTS]
        /\ used' = used \ {c} /\ UNCHANGED <<static, serving, accepted, closing, abandoned>>
    <3>1. None \in 0 .. MAX_CONTEXTS
      BY ZperfShellAssumption DEF None
    <3>2. /\ command = [at |-> command.at, kind |-> command.kind, proto |-> command.proto,
                        family |-> f, context |-> command.context]
          /\ command.context \in [Family -> 0 .. MAX_CONTEXTS]
      BY DEF Commands
    <3>3. command' = [command EXCEPT !.at = "upload", !.context[g] = None]
      BY <1>3 DEF TcpConnected
    <3>4. command' = [command EXCEPT !.at = "upload", !.context = cx]
      BY <3>2, <3>3
    <3>5. /\ used' = used \ {c} /\ UNCHANGED <<static, serving, accepted, closing, abandoned>>
      BY <1>3 DEF TcpConnected
    <3> QED BY <2>1, <3>1, <3>2, <3>4, <3>5
  <2>3. cx[g] = None /\ cx[f] = command.context[f] /\ cx[f] # None /\ c # None /\ c # cx[f]
    <3>1. command.context[f] # None /\ command.context[g] # None
      BY <1>1, <1>3, <2>1 DEF TcpConnected, ContextInv, HoldsWhatItGot
    <3>2. command.context["v6"] # command.context["v4"]
      BY <1>1, <3>1, <2>1 DEF ContextInv, HoldsWhatItGot, Family
    <3>3. cx[g] = None /\ cx[f] = command.context[f]
      BY <2>1 DEF Commands
    <3> QED BY <2>1, <3>1, <3>2, <3>3 DEF Family
  <2> HIDE DEF cx
  <2>4. /\ command' \in Commands /\ command'.at = "upload" /\ command'.family = f /\ command'.context = cx
        /\ command' # Prompt
    BY <2>2 DEF Commands, Prompt
  <2>5. Held' = Held \ {c} /\ c \in Held
    <3>1. Held' = {cx["v6"], cx["v4"]} \ {None} /\ Held = {command.context["v6"], command.context["v4"]} \ {None}
      BY <1>1, <2>4 DEF Held, Family
    <3> QED BY <2>1, <2>3, <3>1 DEF Family
  <2>6. HoldsWhatItGot'
    BY <2>1, <2>3, <2>4 DEF HoldsWhatItGot, Family
  <2>7. Owned'
    BY <2>2, <2>5 DEF ContextInv, Owned
  <2> QED BY <2>2, <2>4, <2>6, <2>7 DEF ContextInv, ShellTypes
<1>4. CASE TcpUploadEnds
  <2>1. command' = Prompt /\ Held' = {} /\ closing' = closing \cup Held
        /\ UNCHANGED <<static, iface, addr_my, used, serving, accepted, abandoned>>
    BY <1>4 DEF TcpUploadEnds, Held
  <2> QED BY <2>1 DEF ContextInv, ShellTypes, HoldsWhatItGot, Owned
<1> QED BY <1>2, <1>3, <1>4

(* The stack frees a connection's context, or takes one for a connection.    *)
LEMMA StackPuts ==
  ASSUME ContextInv, (\E c \in 1 .. MAX_CONTEXTS : Closes(c)) \/ Accepts PROVE ContextInv'
<1>1. ASSUME NEW c \in 1 .. MAX_CONTEXTS, Closes(c) PROVE ContextInv'
  <2>1. /\ c \in closing \cup accepted /\ used' = used \ {c}
        /\ closing' = closing \ {c} /\ accepted' = accepted \ {c}
        /\ UNCHANGED <<iface, addr_my, serving, command, abandoned>>
    BY <1>1 DEF Closes
  <2>2. Held' = Held
    BY <2>1 DEF Held
  <2>3. /\ static' \in [init_ok : BOOLEAN, udp_stopped : BOOLEAN, init_done : BOOLEAN, tcp_running : BOOLEAN]
        /\ static'.init_done = static.init_done
    BY <1>1 DEF Closes, ContextInv, ShellTypes
  <2>4. Owned'
    BY <2>1, <2>2, <2>3 DEF ContextInv, Owned
  <2> QED BY <2>1, <2>3, <2>4 DEF ContextInv, ShellTypes, HoldsWhatItGot
<1>2. CASE Accepts
  <2> DEFINE c == Min((1 .. MAX_CONTEXTS) \ used)
  <2>1. /\ c \in (1 .. MAX_CONTEXTS) \ used
        /\ used' = used \cup {c} /\ accepted' = accepted \cup {c}
        /\ UNCHANGED <<static, iface, addr_my, serving, closing, command, abandoned>>
    BY <1>2, FreeOne DEF Accepts
  <2> HIDE DEF c
  <2>2. Held' = Held
    BY <2>1 DEF Held
  <2> QED BY <2>1, <2>2 DEF ContextInv, ShellTypes, HoldsWhatItGot, Owned
<1> QED BY <1>1, <1>2

-----------------------------------------------------------------------------
(* Addresses *)

(* do_init sets the IPv4 address before any command's own work: there is     *)
(* room for it.                                                            *)
LEMMA InitSetsOwn ==
  ASSUME AddressInv, do_init, static'.init_ok
  PROVE  /\ DOMAIN iface' = Family
         /\ Own \in iface'["v4"] /\ "v4" \in addr_my'
<1>1. CASE static.init_ok
  BY <1>1 DEF do_init, AddressInv, OwnAddressFirst
<1>2. CASE ~ static.init_ok
  <2>1. Cardinality({}) = 0 /\ 0 < ADDRESSES["v4"]
    BY FS_EmptySet, ZperfShellAssumption DEF Family
  <2>2. HasRoom("v4", Own)
    BY <1>2, <2>1 DEF AddressInv, HasRoom
  <2>3. Outcomes("v4", Own) = {TRUE}
    BY <2>2 DEF Outcomes
  <2>4. /\ iface' = [f \in Family |-> WithAddress(f, Own)]
        /\ "v4" \in addr_my'
    BY <1>2, <2>3 DEF do_init, Family
  <2> QED BY <2>2, <2>4 DEF WithAddress, Family
<1> QED BY <1>1, <1>2

LEMMA AddressKept ==
  ASSUME AddressInv, ShellNext,
         static \in [init_ok : BOOLEAN, udp_stopped : BOOLEAN, init_done : BOOLEAN, tcp_running : BOOLEAN]
  PROVE  AddressInv'
<1>1. ASSUME do_init, static'.init_ok PROVE AddressInv'
  BY <1>1, InitSetsOwn DEF AddressInv, OwnAddressFirst
<1>2. CASE Refuse \/ Upload \/ shell_udp_download \/ shell_tcp_download
  <2>1. do_init /\ static'.init_ok
    BY <1>2 DEF Refuse, Upload, shell_cmd_upload, shell_cmd_upload2, shell_udp_download, shell_tcp_download
  <2> QED BY <1>1, <2>1
<1>3. ASSUME NEW f \in Family, cmd_setip(f) PROVE AddressInv'
  <2>1. iface' = [iface EXCEPT ![f] = WithAddress(f, Given)] /\ static.init_ok /\ UNCHANGED <<static, addr_my, command>>
    BY <1>3 DEF cmd_setip
  <2>2. iface[f] \subseteq WithAddress(f, Given)
    BY DEF WithAddress
  <2>3. DOMAIN iface' = Family /\ iface["v4"] \subseteq iface'["v4"]
    BY <2>1, <2>2 DEF AddressInv, Family
  <2> QED BY <2>1, <2>3 DEF AddressInv, OwnAddressFirst
<1>4. CASE command # Prompt /\ GetContext
  <2>1. static.init_ok /\ static' = static
    BY <1>4 DEF AddressInv, GetContext
  <2>2. \/ iface' = iface /\ addr_my' = addr_my
        \/ \E f : iface' = [iface EXCEPT ![f] = WithAddress(f, Own)] /\ addr_my' = addr_my \cup {f}
    BY <1>4 DEF GetContext
  <2>3. \A f : iface[f] \subseteq WithAddress(f, Own)
    BY DEF WithAddress
  <2>4. DOMAIN iface' = Family /\ iface["v4"] \subseteq iface'["v4"] /\ addr_my \subseteq addr_my'
    BY <2>2, <2>3 DEF AddressInv, Family
  <2> QED BY <2>1, <2>4 DEF AddressInv, OwnAddressFirst
<1>5. CASE command # Prompt /\ (Bind \/ UploadEnds \/ TcpConnected \/ TcpUploadEnds)
  <2>1. static.init_ok /\ UNCHANGED <<iface, addr_my>>
    BY <1>5 DEF AddressInv, Bind, UploadEnds, TcpConnected, TcpUploadEnds
  <2>2. static'.init_ok
    BY <1>5, <2>1 DEF Bind, UploadEnds, TcpConnected, TcpUploadEnds
  <2> QED BY <2>1, <2>2 DEF AddressInv, OwnAddressFirst
<1>6. CASE (\E c \in 1 .. MAX_CONTEXTS : Closes(c)) \/ Accepts
  <2>1. UNCHANGED <<iface, addr_my, command>> /\ static'.init_ok = static.init_ok
    BY <1>6 DEF Closes, Accepts
  <2> QED BY <2>1 DEF AddressInv, OwnAddressFirst
<1> QED BY <1>2, <1>3, <1>4, <1>5, <1>6 DEF ShellNext

-----------------------------------------------------------------------------
(* The program *)

LEMMA ContextsKept ==
  ASSUME ContextInv, ShellNext PROVE ContextInv'
<1> DEFINE Flags == [init_ok : BOOLEAN, udp_stopped : BOOLEAN, init_done : BOOLEAN, tcp_running : BOOLEAN]
<1>1. static \in Flags /\ (command = Prompt \/ command \in Commands)
  BY DEF ContextInv, ShellTypes
<1>2. CASE Refuse \/ (\E f \in Family : cmd_setip(f)) \/ shell_udp_download \/ shell_tcp_download
  <2>1. /\ command = Prompt /\ UNCHANGED <<used, serving, accepted, closing, abandoned>>
        /\ static' \in Flags /\ static'.init_done = static.init_done
    BY <1>1, <1>2 DEF Refuse, cmd_setip, shell_udp_download, shell_tcp_download, AtPrompt
  <2>2. \/ command' = Prompt
        \/ command' = Started("download", "udp", "v4") \/ command' = Started("download", "tcp", "v4")
    BY <1>2, <2>1 DEF Refuse, cmd_setip, shell_udp_download, shell_tcp_download
  <2>3. \/ command' = Prompt
        \/ \E kind \in {"upload", "download"}, proto \in {"udp", "tcp"}, f \in Family :
             command' = Started(kind, proto, f)
    BY <2>2 DEF Family
  <2> QED BY ONLY <2>1, <2>3, ContextInv, BeginsWithNothing
<1>3. CASE Upload
  <2>1. PICK proto \in {"udp", "tcp"}, f \in Family : shell_cmd_upload(proto, f) \/ shell_cmd_upload2(proto, f)
    BY <1>3 DEF Upload
  <2>2. /\ command = Prompt /\ UNCHANGED <<used, serving, accepted, closing, abandoned>>
        /\ static' \in Flags /\ static'.init_done = static.init_done
    BY <1>1, <2>1 DEF shell_cmd_upload, shell_cmd_upload2, AtPrompt
  <2>3. command' = Prompt \/ command' = Started("upload", proto, f)
    BY <2>1 DEF shell_cmd_upload, shell_cmd_upload2
  <2>4. \/ command' = Prompt
        \/ \E kind \in {"upload", "download"}, p \in {"udp", "tcp"}, g \in Family :
             command' = Started(kind, p, g)
    BY <2>3
  <2> QED BY ONLY <2>2, <2>4, ContextInv, BeginsWithNothing
<1>4. CASE command # Prompt /\ (GetContext \/ Bind \/ UploadEnds \/ TcpConnected \/ TcpUploadEnds)
  BY <1>1, <1>4, Gets, Binds, UploadPuts
<1>5. CASE (\E c \in 1 .. MAX_CONTEXTS : Closes(c)) \/ Accepts
  BY <1>5, StackPuts
<1> QED BY <1>2, <1>3, <1>4, <1>5 DEF ShellNext

LEMMA ShellInitially == ShellInit => ContextInv /\ AddressInv
<1> SUFFICES ASSUME ShellInit PROVE ContextInv /\ AddressInv
  OBVIOUS
<1>1. ContextInv
  <2>1. Held = {}
    BY DEF ShellInit, Held
  <2> QED BY <2>1 DEF ShellInit, ContextInv, ShellTypes, HoldsWhatItGot, Owned
<1>2. AddressInv
  BY DEF ShellInit, AddressInv, OwnAddressFirst, Family
<1> QED BY <1>1, <1>2

LEMMA ResourcesKept ==
  RowInv /\ ContextInv /\ AddressInv /\ [Next]_vars => (RowInv /\ ContextInv /\ AddressInv)'
<1> SUFFICES ASSUME RowInv, ContextInv, AddressInv, [Next]_vars PROVE (RowInv /\ ContextInv /\ AddressInv)'
  OBVIOUS
<1>1. TcpNext \/ UNCHANGED tcpVars
  BY DEF Next, Udp, Tcp, Shell, vars
<1>2. ShellNext \/ UNCHANGED shellVars
  BY DEF Next, Udp, Tcp, Shell, vars
<1>3. ASSUME UNCHANGED tcpVars PROVE RowInv'
  <2>1. UNCHANGED <<table, conn, blamed>>
    BY <1>3 DEF tcpVars
  <2> QED BY <2>1 DEF RowInv, TcpTypes, RowsComeBack
<1>4. RowInv'
  BY <1>1, <1>3, RowsKept
<1>5. CASE UNCHANGED shellVars
  <2>1. UNCHANGED <<static, iface, addr_my, used, serving, accepted, closing, command, abandoned>>
    BY <1>5 DEF shellVars
  <2>2. Held' = Held
    BY <2>1 DEF Held
  <2>3. ContextInv'
    BY <2>1, <2>2 DEF ContextInv, ShellTypes, HoldsWhatItGot, Owned
  <2>4. AddressInv'
    BY <2>1 DEF AddressInv, OwnAddressFirst
  <2> QED BY <1>4, <2>3, <2>4
<1>6. CASE ShellNext
  <2>1. ContextInv'
    BY <1>6, ContextsKept
  <2>2. AddressInv'
    BY <1>6, AddressKept DEF ContextInv, ShellTypes
  <2> QED BY <1>4, <2>1, <2>2
<1> QED BY <1>2, <1>5, <1>6

(* tcp_received, execute_upload, do_init, for any number of connections,     *)
(* rows, contexts and addresses: a row outlives its connection only after a  *)
(* reset or behind a freed row; every context in use has an owner, a failed  *)
(* command counted as one, and no command frees another's; and the program's *)
(* own IPv4 address is set before any command's own work.                    *)
THEOREM ResourcesDoComeBack == Spec => []ResourcesComeBack
<1>1. Init => RowInv /\ ContextInv /\ AddressInv
  BY RowsInitially, ShellInitially DEF Init
<1>2. RowInv /\ ContextInv /\ AddressInv /\ [Next]_vars => (RowInv /\ ContextInv /\ AddressInv)'
  BY ResourcesKept
<1>3. RowInv /\ ContextInv /\ AddressInv => ResourcesComeBack
  <2> SUFFICES ASSUME RowInv, ContextInv, AddressInv PROVE ResourcesComeBack
    OBVIOUS
  <2>1. Servers("udp") \cup Servers("tcp") = {s.context : s \in serving}
    BY ServersAll DEF ContextInv
  <2>2. ContextsComeBack
    BY <2>1 DEF ContextInv, Owned, ContextsComeBack
  <2> QED BY <2>2 DEF RowInv, AddressInv, ResourcesComeBack
<1> QED BY <1>1, <1>2, <1>3, PTL DEF Spec
=============================================================================
