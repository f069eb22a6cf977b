--------------------------- MODULE SocketsProofs ---------------------------
(***************************************************************************)
(* Proofs about Sockets, for any number of connections, slots, retries and    *)
(* data: echo_async and echo_async_select serve each connection through one  *)
(* entry of its own, echo_server and echo_client keep the order of what they  *)
(* echo, and the clients of an MQTT broker know their connection and are      *)
(* woken.                                                                  *)
(***************************************************************************)
EXTENDS Sockets, TLAPS, FiniteSetTheorems, SequenceTheorems, WellFoundedInduction

-----------------------------------------------------------------------------
(* echo_async and echo_async_select                                         *)

Entry == DOMAIN pollfds

AsyncTypes ==
  /\ pollfds \in Seq({-1} \cup Descriptors)
  /\ revents \subseteq Nat
  /\ cursor \in [at : {"poll", "pass", "send"}, i : Nat, fd : 0 .. CALLERS]
  /\ owner \in [Descriptors -> 0 .. CALLERS]
  /\ queue \in Seq(1 .. CALLERS)
  /\ calls \in 0 .. CALLERS
  /\ unread \in [1 .. CALLERS -> Nat]
  /\ left \subseteq 1 .. CALLERS

(* A connection waits to be accepted, has a descriptor, or is done with.    *)
Callers ==
  /\ \A d \in Descriptors : owner[d] # 0 => owner[d] \notin shut \cup turned_away
  /\ \A d, e \in Descriptors : owner[d] # 0 /\ owner[d] = owner[e] => d = e
  /\ \A j \in DOMAIN queue : /\ queue[j] \notin shut \cup turned_away
                             /\ queue[j] <= calls
                             /\ \A d \in Descriptors : owner[d] # queue[j]
  /\ \A j, k \in DOMAIN queue : queue[j] = queue[k] => j = k
  /\ \A c \in 1 .. CALLERS : c > calls => /\ c \notin shut \cup turned_away
                                          /\ \A d \in Descriptors : owner[d] # c

(* Open descriptors and entries are one to one.                             *)
OwnEntry ==
  /\ \A i \in Entry : pollfds[i] > 0 => owner[pollfds[i]] # 0
  /\ \A i, j \in Entry : pollfds[i] > 0 /\ pollfds[i] = pollfds[j] => i = j
  /\ \A d \in Descriptors : owner[d] # 0 => \E i \in Entry : pollfds[i] = d

(* echo_async_select: a descriptor is its own entry.                        *)
Selected == select => turned_away = {} /\ \A i \in Entry : pollfds[i] \in {-1, i}

Ready(c) == unread[c] > 0 \/ c \in left

(* What poll said of the entries the pass has yet to come to is still so.   *)
StillReadable(i) == i \in Entry /\ pollfds[i] > 0 /\ Ready(owner[pollfds[i]])

PassIsFresh ==
  /\ cursor.at = "pass" /\ cursor.i = 0 /\ 0 \in revents => queue # <<>>
  /\ cursor.at = "pass" => \A i \in revents : i > 0 /\ i >= cursor.i => StillReadable(i)
  /\ cursor.at = "send" =>
       /\ \A i \in revents : i > 0 /\ i > cursor.i => StillReadable(i)
       /\ cursor.fd \in Descriptors /\ owner[cursor.fd] # 0
       /\ cursor.i \in Entry /\ pollfds[cursor.i] = cursor.fd

AsyncInv ==
  /\ AsyncTypes /\ Callers /\ OwnEntry /\ Selected /\ PassIsFresh /\ shut \subseteq left

(* echo_async has entries for as many connections as there is room for.     *)
Limited == ~ select => Len(pollfds) < NUM_FDS

(* echo_async_select after an accept has failed: nothing is open.           *)
Exited ==
  /\ select /\ cursor.at = "exited" /\ pollfds = <<>>
  /\ \A d \in Descriptors : owner[d] = 0

ServesOrExited == (AsyncInv /\ Limited) \/ Exited

-----------------------------------------------------------------------------
(* Smallest elements, and the operations on entries                         *)

(* The lowest descriptor, or entry, there is.                               *)
LEMMA MinIsIn ==
  ASSUME NEW S, S \subseteq Nat, S # {}
  PROVE  Min(S) \in S
<1>1. PICK x \in S : \A y \in S : ~ (<<y, x>> \in OpToRel(<, Nat))
  BY NatLessThanWellFounded, WFMin
<1>2. \A y \in S : x =< y
  <2> SUFFICES ASSUME NEW y \in S PROVE x =< y
    OBVIOUS
  <2>1. x \in Nat /\ y \in Nat
    OBVIOUS
  <2>2. ~ (y < x)
    BY <1>1, <2>1 DEF OpToRel
  <2> QED BY <2>1, <2>2
<1>3. \E z \in S : \A y \in S : z =< y
  BY <1>2
<1> QED BY <1>3 DEF Min

LEMMA MaxOfTwo ==
  ASSUME NEW a \in Nat, NEW b \in Nat
  PROVE  Max({a, b}) \in {a, b} /\ a <= Max({a, b}) /\ b <= Max({a, b})
<1>1. \E x \in {a, b} : \A y \in {a, b} : x >= y
  OBVIOUS
<1>2. Max({a, b}) \in {a, b} /\ \A y \in {a, b} : Max({a, b}) >= y
  BY <1>1 DEF Max
<1> QED BY <1>2

LEMMA NumFds == NUM_FDS \in Nat /\ CALLERS \in Nat
BY AsyncEchoAssumption

LEMMA EntriesTyped ==
  ASSUME NEW p \in Seq({-1} \cup Descriptors)
  PROVE  /\ Len(p) \in Nat /\ DOMAIN p = 1 .. Len(p)
         /\ \A i \in DOMAIN p : p[i] \in {-1} \cup Descriptors
BY LenProperties, ElementOfSeq

(* pollfds_add leaves the entries in use alone, and makes one of d if any.  *)
LEMMA AddsEntry ==
  ASSUME NEW d \in Descriptors, pollfds \in Seq({-1} \cup Descriptors), \A i \in Entry : pollfds[i] # d,
         select => \A i \in Entry : pollfds[i] \in {-1, i}
  PROVE  LET p == pollfds_add(d) IN
         /\ p \in Seq({-1} \cup Descriptors)
         /\ \A i \in Entry : pollfds[i] > 0 => i \in DOMAIN p /\ p[i] = pollfds[i]
         /\ \A i \in DOMAIN p : p[i] > 0 => p[i] = d \/ (i \in Entry /\ p[i] = pollfds[i])
         /\ \A i, j \in DOMAIN p : p[i] = d /\ p[j] = d => i = j
         /\ select => (\E i \in DOMAIN p : p[i] = d) /\ \A i \in DOMAIN p : p[i] \in {-1, i}
         /\ ~ select => Len(p) <= Len(pollfds) \/ Len(p) < NUM_FDS
<1> DEFINE T == {-1} \cup Descriptors
           n == Len(pollfds)
           p == pollfds_add(d)
<1>1. /\ n \in Nat /\ Entry = 1 .. n /\ \A i \in Entry : pollfds[i] \in T
      /\ d \in Nat /\ d > 0 /\ d \in T
  BY EntriesTyped, AsyncEchoAssumption DEF Entry, Descriptors
<1>2. CASE select
  <2> DEFINE m == Max({d, n})
             e == [i \in 1 .. m |-> IF i = d THEN d ELSE IF i \in Entry THEN pollfds[i] ELSE -1]
  <2>1. p = e
    BY ONLY <1>2 DEF pollfds_add, Entry
  <2>2. m \in Nat /\ d <= m /\ n <= m
    BY ONLY <1>1, MaxOfTwo
  <2> HIDE DEF m
  <2>3. e \in [1 .. m -> T]
    BY ONLY <1>1
  <2>4. DOMAIN e = 1 .. m /\ e \in Seq(T)
    BY ONLY <2>2, <2>3, SeqDef
  <2>5. \A i \in 1 .. m : e[i] = IF i = d THEN d ELSE IF i \in Entry THEN pollfds[i] ELSE -1
    OBVIOUS
  <2>6. \A i \in Entry : i \in 1 .. m
    BY ONLY <1>1, <2>2
  <2> HIDE DEF e
  <2>7. \A i \in 1 .. m : e[i] = d => i = d
    BY ONLY <1>1, <2>5, \A i \in Entry : pollfds[i] # d
  <2>8. d \in 1 .. m /\ e[d] = d
    BY ONLY <1>1, <2>2, <2>5
  <2>9. \A i \in 1 .. m : e[i] \in {-1, i}
    BY ONLY <1>2, <2>5, select => \A i \in Entry : pollfds[i] \in {-1, i}
  <2>10. \A i \in 1 .. m : e[i] > 0 => e[i] = d \/ (i \in Entry /\ e[i] = pollfds[i])
    BY ONLY <2>5
  <2>11. \A i \in Entry : pollfds[i] > 0 => e[i] = pollfds[i]
    <3> SUFFICES ASSUME NEW i \in Entry, pollfds[i] > 0 PROVE e[i] = pollfds[i]
      OBVIOUS
    <3>1. pollfds[i] # d /\ pollfds[i] \in {-1, i}
      BY <1>2
    <3>2. i # d
      BY ONLY <3>1, pollfds[i] > 0
    <3> QED BY ONLY <2>5, <2>6, <3>2, i \in Entry
  <2> HIDE DEF p
  <2> QED BY ONLY <1>2, <2>1, <2>4, <2>6, <2>7, <2>8, <2>9, <2>10, <2>11 DEF p
<1>3. CASE ~ select /\ Len(pollfds) + 1 < NUM_FDS
  <2>1. p = Append(pollfds, d)
    BY ONLY <1>1, <1>3, NumFds DEF pollfds_add
  <2>2. /\ p \in Seq(T) /\ Len(p) = n + 1 /\ \A i \in 1 .. n : p[i] = pollfds[i]
        /\ p[n + 1] = d
    BY ONLY <1>1, <2>1, AppendProperties, pollfds \in Seq(T)
  <2>3. DOMAIN p = 1 .. n + 1
    BY ONLY <2>2, LenProperties
  <2> HIDE DEF p
  <2>4. \A i \in DOMAIN p : (i \in Entry /\ p[i] = pollfds[i]) \/ (i = n + 1 /\ p[i] = d)
    BY ONLY <1>1, <2>2, <2>3
  <2>5. \A i \in Entry : i \in DOMAIN p /\ p[i] = pollfds[i]
    BY ONLY <1>1, <2>2, <2>3
  <2>6. \A i \in DOMAIN p : p[i] = d => i = n + 1
    BY ONLY <2>4, \A i \in Entry : pollfds[i] # d
  <2>7. Len(p) < NUM_FDS
    BY ONLY <1>3, <2>2
  <2> QED BY ONLY <1>3, <2>2, <2>4, <2>5, <2>6, <2>7 DEF p
<1>4. CASE ~ select /\ Len(pollfds) + 1 >= NUM_FDS /\ FreeEntries # {}
  <2> DEFINE f == Min(FreeEntries)
  <2>1. f \in Entry /\ pollfds[f] < 0
    <3>1. FreeEntries \subseteq Nat
      BY ONLY <1>1 DEF FreeEntries, Entry
    <3>2. f \in FreeEntries
      BY ONLY <1>4, <3>1, MinIsIn
    <3> QED BY ONLY <3>2 DEF FreeEntries, Entry
  <2>2. p = [pollfds EXCEPT ![f] = d]
    BY ONLY <1>1, <1>4, NumFds DEF pollfds_add
  <2> HIDE DEF f
  <2>3. p \in Seq(T) /\ Len(p) = n /\ \A i \in 1 .. n : p[i] = IF i = f THEN d ELSE pollfds[i]
    BY ONLY <1>1, <2>1, <2>2, ExceptSeq, pollfds \in Seq(T)
  <2>4. DOMAIN p = Entry
    BY ONLY <1>1, <2>3, LenProperties
  <2> HIDE DEF p
  <2>5. \A i \in Entry : p[i] = IF i = f THEN d ELSE pollfds[i]
    BY ONLY <1>1, <2>3
  <2>6. \A i \in Entry : p[i] = d => i = f
    BY ONLY <2>5, \A i \in Entry : pollfds[i] # d
  <2>7. \A i \in Entry : pollfds[i] > 0 => p[i] = pollfds[i]
    <3>1. pollfds[f] \in Int
      BY ONLY <1>1, <2>1 DEF Descriptors
    <3>2. ~ (pollfds[f] > 0)
      BY ONLY <2>1, <3>1
    <3> QED BY ONLY <2>5, <3>2
  <2>8. Len(p) <= Len(pollfds)
    BY ONLY <1>1, <2>3
  <2> QED BY ONLY <1>4, <2>3, <2>4, <2>5, <2>6, <2>7, <2>8 DEF p
<1>5. CASE ~ select /\ Len(pollfds) + 1 >= NUM_FDS /\ FreeEntries = {}
  <2>1. p = pollfds
    BY ONLY <1>1, <1>5, NumFds DEF pollfds_add
  <2>2. Len(p) <= Len(pollfds)
    BY ONLY <1>1, <2>1
  <2> HIDE DEF p
  <2> QED BY <1>5, <2>1, <2>2 DEF Entry, p
<1>6. Len(pollfds) + 1 < NUM_FDS \/ Len(pollfds) + 1 >= NUM_FDS
  BY ONLY <1>1, NumFds
<1> QED BY <1>2, <1>3, <1>4, <1>5, <1>6

(* pollfds_del frees the entry of d, which is the only one.                 *)
LEMMA FreesEntry ==
  ASSUME pollfds \in Seq({-1} \cup Descriptors), NEW e \in Entry, pollfds[e] > 0,
         \A i \in Entry : pollfds[i] = pollfds[e] => i = e
  PROVE  LET p == pollfds_del(pollfds[e]) IN
         /\ p \in Seq({-1} \cup Descriptors) /\ DOMAIN p = Entry
         /\ \A i \in Entry : p[i] = IF i = e THEN -1 ELSE pollfds[i]
<1> DEFINE T == {-1} \cup Descriptors
           n == Len(pollfds)
           p == pollfds_del(pollfds[e])
           S == {j \in DOMAIN pollfds : pollfds[j] = pollfds[e]}
<1>1. n \in Nat /\ Entry = 1 .. n /\ DOMAIN pollfds = 1 .. n /\ \A i \in Entry : pollfds[i] \in T
  BY EntriesTyped DEF Entry
<1>2. S = {e}
  BY DEF Entry
<1>3. Min(S) = e
  <2>1. S \subseteq Nat /\ S # {}
    BY ONLY <1>1, <1>2
  <2>2. Min(S) \in S
    BY ONLY <2>1, MinIsIn
  <2> QED BY ONLY <1>2, <2>2
<1>4. p = [i \in 1 .. n |-> IF i = e THEN -1 ELSE pollfds[i]]
  BY ONLY <1>1, <1>3 DEF pollfds_del
<1> HIDE DEF p
<1>5. p \in [1 .. n -> T]
  BY ONLY <1>1, <1>4
<1>6. p \in Seq(T) /\ DOMAIN p = 1 .. n
  BY ONLY <1>1, <1>5, SeqDef
<1>7. \A i \in 1 .. n : p[i] = IF i = e THEN -1 ELSE pollfds[i]
  BY ONLY <1>4
<1> QED BY ONLY <1>1, <1>6, <1>7 DEF p

(* The lowest free descriptor: there is one while a connection waits, since *)
(* those that have one are others, and no two share one.                    *)
LEMMA FreeDescriptor ==
  ASSUME owner \in [Descriptors -> 0 .. CALLERS], NEW c \in 1 .. CALLERS,
         \A d \in Descriptors : owner[d] # c,
         \A d, e \in Descriptors : owner[d] # 0 /\ owner[d] = owner[e] => d = e
  PROVE  LET d == Min({f \in Descriptors : owner[f] = 0}) IN d \in Descriptors /\ owner[d] = 0
<1> DEFINE F == {f \in Descriptors : owner[f] = 0}
<1>1. F # {}
  <2> SUFFICES ASSUME \A d \in Descriptors : owner[d] # 0 PROVE FALSE
    OBVIOUS
  <2> DEFINE U == (1 .. CALLERS) \ {c}
  <2>1. IsFiniteSet(1 .. CALLERS) /\ Cardinality(1 .. CALLERS) = CALLERS
    BY NumFds, FS_Interval
  <2>2. IsFiniteSet(U) /\ Cardinality(U) = CALLERS - 1
    BY ONLY <2>1, FS_RemoveElement, c \in 1 .. CALLERS
  <2>3. owner \in [1 .. CALLERS -> U]
    BY DEF Descriptors
  <2>4. CALLERS - 1 < CALLERS
    BY NumFds
  <2> HIDE DEF U
  <2>5. \E d, e \in 1 .. CALLERS : d # e /\ owner[d] = owner[e]
    BY ONLY <2>1, <2>2, <2>3, <2>4, FS_PigeonHole
  <2> QED BY <2>5 DEF Descriptors
<1>2. F \subseteq Nat
  BY DEF Descriptors
<1>3. Min(F) \in F
  <2> HIDE DEF F
  <2> QED BY ONLY <1>1, <1>2, MinIsIn
<1> QED BY <1>3

LEMMA QueueTyped ==
  ASSUME queue \in Seq(1 .. CALLERS)
  PROVE  /\ Len(queue) \in Nat /\ DOMAIN queue = 1 .. Len(queue)
         /\ \A j \in DOMAIN queue : queue[j] \in 1 .. CALLERS
         /\ queue # <<>> => 1 \in DOMAIN queue
<1>1. Len(queue) \in Nat /\ DOMAIN queue = 1 .. Len(queue)
  BY LenProperties
<1>2. \A j \in 1 .. Len(queue) : queue[j] \in 1 .. CALLERS
  BY ElementOfSeq
<1>3. queue # <<>> => Len(queue) \in Nat \ {0}
  BY EmptySeq
<1>4. queue # <<>> => 1 \in 1 .. Len(queue)
  BY ONLY <1>3
<1> QED BY ONLY <1>1, <1>2, <1>4

-----------------------------------------------------------------------------
(* The peers                                                                *)

LEMMA ConnectsKeeps == AsyncInv /\ CallerConnects => AsyncInv'
<1> SUFFICES ASSUME AsyncInv, CallerConnects PROVE AsyncInv'
  OBVIOUS
<1>1. /\ calls' = calls + 1 /\ calls' \in 1 .. CALLERS /\ calls \in Nat
      /\ queue' = Append(queue, calls')
      /\ UNCHANGED <<select, pollfds, revents, cursor, owner, unread, left, turned_away, shut>>
  BY NumFds DEF AsyncInv, AsyncTypes, CallerConnects
<1>2. /\ queue' \in Seq(1 .. CALLERS) /\ queue' # <<>>
      /\ DOMAIN queue = 1 .. Len(queue) /\ Len(queue) \in Nat
      /\ \A j \in DOMAIN queue' : (j \in DOMAIN queue /\ queue'[j] = queue[j])
                                  \/ (j = Len(queue) + 1 /\ queue'[j] = calls')
  <2>1. queue \in Seq(1 .. CALLERS)
    BY DEF AsyncInv, AsyncTypes
  <2>2. /\ queue' \in Seq(1 .. CALLERS) /\ queue' # <<>> /\ Len(queue') = Len(queue) + 1
        /\ \A j \in 1 .. Len(queue) : queue'[j] = queue[j]
        /\ queue'[Len(queue) + 1] = calls'
    BY ONLY <1>1, <2>1, AppendProperties
  <2>3. DOMAIN queue' = 1 .. Len(queue') /\ DOMAIN queue = 1 .. Len(queue) /\ Len(queue) \in Nat
    BY ONLY <2>1, <2>2, LenProperties
  <2> QED BY ONLY <2>2, <2>3
<1>3. AsyncTypes'
  BY <1>1, <1>2 DEF AsyncInv, AsyncTypes
<1>4. Callers'
  <2>1. /\ calls' \notin shut \cup turned_away
        /\ \A d \in Descriptors : owner[d] # calls'
        /\ \A j \in DOMAIN queue : queue[j] # calls' /\ queue[j] <= calls'
    <3>1. \A j \in DOMAIN queue : queue[j] \in 1 .. CALLERS /\ queue[j] <= calls
      BY QueueTyped DEF AsyncInv, AsyncTypes, Callers
    <3>2. calls' > calls /\ \A j \in DOMAIN queue : queue[j] # calls' /\ queue[j] <= calls'
      BY ONLY <1>1, <3>1
    <3> QED BY <1>1, <3>2 DEF AsyncInv, Callers
  <2>2. \A j \in DOMAIN queue' : /\ queue'[j] \notin shut \cup turned_away
                                /\ queue'[j] <= calls'
                                /\ \A d \in Descriptors : owner[d] # queue'[j]
    BY <1>1, <1>2, <2>1 DEF AsyncInv, Callers
  <2>3. \A j, k \in DOMAIN queue' : queue'[j] = queue'[k] => j = k
    BY <1>2, <2>1 DEF AsyncInv, Callers
  <2>4. \A c \in 1 .. CALLERS : c > calls' => c > calls
    BY ONLY <1>1
  <2> QED BY <1>1, <2>2, <2>3, <2>4 DEF AsyncInv, Callers
<1>5. OwnEntry' /\ Selected' /\ shut' \subseteq left'
  BY <1>1 DEF AsyncInv, OwnEntry, Selected, Entry
<1>6. PassIsFresh'
  BY <1>1, <1>2 DEF AsyncInv, PassIsFresh, StillReadable, Ready, Entry
<1> QED BY <1>3, <1>4, <1>5, <1>6 DEF AsyncInv

(* What a peer does leaves readable what was.                               *)
LEMMA SendsAndLeavesKeep ==
  ASSUME AsyncInv, NEW c \in 1 .. CALLERS, CallerSends(c) \/ CallerLeaves(c)
  PROVE  AsyncInv'
<1>1. UNCHANGED <<select, pollfds, revents, cursor, owner, queue, calls, turned_away, shut>>
  BY DEF CallerSends, CallerLeaves
<1>2. /\ unread' \in [1 .. CALLERS -> Nat] /\ \A b \in 1 .. CALLERS : unread'[b] >= unread[b]
      /\ left \subseteq left' /\ left' \subseteq 1 .. CALLERS
  <2>1. unread \in [1 .. CALLERS -> Nat] /\ left \subseteq 1 .. CALLERS
    BY DEF AsyncInv, AsyncTypes
  <2>2. CASE CallerSends(c)
    <3>1. unread' = [unread EXCEPT ![c] = @ + 1] /\ left' = left
      BY <2>2 DEF CallerSends
    <3> QED BY ONLY <2>1, <3>1, c \in 1 .. CALLERS
  <2>3. CASE CallerLeaves(c)
    <3>1. unread' = unread /\ left' = left \cup {c}
      BY <2>3 DEF CallerLeaves
    <3> QED BY ONLY <2>1, <3>1, c \in 1 .. CALLERS
  <2> QED BY <2>2, <2>3
<1>3. AsyncTypes'
  BY <1>1, <1>2 DEF AsyncInv, AsyncTypes
<1>4. Callers' /\ OwnEntry' /\ Selected' /\ shut' \subseteq left'
  BY <1>1, <1>2 DEF AsyncInv, Callers, OwnEntry, Selected, Entry
<1>5. ASSUME NEW i, StillReadable(i) PROVE StillReadable(i)'
  <2>1. pollfds[i] \in Descriptors /\ owner[pollfds[i]] \in 1 .. CALLERS
    <3>1. pollfds[i] \in {-1} \cup Descriptors
      BY <1>5, EntriesTyped DEF AsyncInv, AsyncTypes, StillReadable, Entry
    <3>2. pollfds[i] \in Descriptors
      BY <1>5, <3>1 DEF StillReadable
    <3>3. owner[pollfds[i]] \in 0 .. CALLERS /\ owner[pollfds[i]] # 0
      BY <1>5, <3>2 DEF AsyncInv, AsyncTypes, OwnEntry, StillReadable
    <3> QED BY <3>2, <3>3, NumFds
  <2> DEFINE b == owner[pollfds[i]]
  <2>2. unread[b] \in Nat /\ unread'[b] \in Nat /\ unread'[b] >= unread[b]
    BY <1>2, <2>1 DEF AsyncInv, AsyncTypes
  <2> HIDE DEF b
  <2>3. Ready(b) => unread'[b] > 0 \/ b \in left'
    <3>1. unread[b] > 0 => unread'[b] > 0
      BY ONLY <2>2
    <3>2. b \in left => b \in left'
      BY <1>2
    <3> QED BY <3>1, <3>2 DEF Ready
  <2> QED BY <1>1, <1>5, <2>3 DEF StillReadable, Ready, Entry, b
<1>6. PassIsFresh'
  BY <1>1, <1>5 DEF AsyncInv, PassIsFresh, Entry
<1> QED BY <1>3, <1>4, <1>5, <1>6 DEF AsyncInv

-----------------------------------------------------------------------------
(* The pass                                                                 *)

LEMMA Advances ==
  ASSUME AsyncInv, Advance
  PROVE  /\ cursor' \in [at : {"poll", "pass", "send"}, i : Nat, fd : 0 .. CALLERS]
         /\ cursor'.at = "pass" /\ cursor'.i = cursor.i + 1 /\ cursor.i \in Nat
<1>1. cursor \in [at : {"poll", "pass", "send"}, i : Nat, fd : 0 .. CALLERS]
  BY DEF AsyncInv, AsyncTypes
<1>2. cursor' = [at |-> "pass", i |-> cursor.i + 1, fd |-> 0]
  BY <1>1 DEF Advance
<1> QED BY ONLY <1>1, <1>2, NumFds

LEMMA PollKeeps == AsyncInv /\ poll => AsyncInv'
<1> SUFFICES ASSUME AsyncInv, poll PROVE AsyncInv'
  OBVIOUS
<1>1. /\ revents' = {i \in DOMAIN pollfds : Readable(pollfds[i])} \cup (IF queue # <<>> THEN {0} ELSE {})
      /\ cursor' = [Polling EXCEPT !.at = "pass"]
      /\ UNCHANGED <<select, pollfds, owner, queue, calls, unread, left, turned_away, shut>>
  BY DEF poll, callerVars
<1>2. cursor' = [at |-> "pass", i |-> 0, fd |-> 0]
  BY <1>1 DEF Polling
<1>3. DOMAIN pollfds = 1 .. Len(pollfds) /\ Len(pollfds) \in Nat
  BY LenProperties DEF AsyncInv, AsyncTypes
<1>4. AsyncTypes'
  <2>1. revents' \subseteq Nat
    BY <1>1, <1>3
  <2>2. cursor' \in [at : {"poll", "pass", "send"}, i : Nat, fd : 0 .. CALLERS]
    BY ONLY <1>2, NumFds
  <2> QED BY <1>1, <2>1, <2>2 DEF AsyncInv, AsyncTypes
<1>5. Callers' /\ OwnEntry' /\ Selected' /\ shut' \subseteq left'
  BY <1>1 DEF AsyncInv, Callers, OwnEntry, Selected, Entry
<1>6. PassIsFresh'
  <2>1. cursor'.at = "pass" /\ cursor'.i = 0
    BY ONLY <1>2
  <2>2. 0 \in revents' => queue' # <<>>
    BY <1>1, <1>3
  <2>3. ASSUME NEW i \in revents', i > 0 PROVE StillReadable(i)'
    <3>1. i \in DOMAIN pollfds /\ Readable(pollfds[i])
      BY <1>1, <2>3
    <3> QED BY <1>1, <3>1 DEF StillReadable, Ready, Readable, Entry
  <2> QED BY ONLY <2>1, <2>2, <2>3 DEF PassIsFresh
<1> QED BY <1>4, <1>5, <1>6 DEF AsyncInv

LEMMA SkipKeeps == AsyncInv /\ pass_skips => AsyncInv'
<1> SUFFICES ASSUME AsyncInv, pass_skips PROVE AsyncInv'
  OBVIOUS
<1>1. /\ UNCHANGED <<select, pollfds, revents, owner, queue, calls, unread, left, turned_away, shut>>
      /\ cursor.at = "pass" /\ cursor.i \notin revents
      /\ cursor' = Polling \/ Advance
  BY DEF pass_skips, callerVars
<1>2. Callers' /\ OwnEntry' /\ Selected' /\ shut' \subseteq left'
  BY <1>1 DEF AsyncInv, Callers, OwnEntry, Selected, Entry
<1>3. \A i : StillReadable(i) => StillReadable(i)'
  BY <1>1 DEF StillReadable, Ready, Entry
<1>4. CASE cursor' = Polling
  <2>1. cursor' \in [at : {"poll", "pass", "send"}, i : Nat, fd : 0 .. CALLERS] /\ cursor'.at = "poll"
    BY ONLY <1>4, NumFds DEF Polling
  <2>2. AsyncTypes'
    BY <1>1, <2>1 DEF AsyncInv, AsyncTypes
  <2>3. PassIsFresh'
    BY ONLY <2>1 DEF PassIsFresh
  <2> QED BY <1>2, <2>2, <2>3 DEF AsyncInv
<1>5. CASE Advance
  <2>1. /\ cursor' \in [at : {"poll", "pass", "send"}, i : Nat, fd : 0 .. CALLERS]
        /\ cursor'.at = "pass" /\ cursor'.i = cursor.i + 1 /\ cursor.i \in Nat
    BY <1>5, Advances
  <2>2. AsyncTypes'
    BY <1>1, <2>1 DEF AsyncInv, AsyncTypes
  <2>3. revents' = revents /\ revents \subseteq Nat
        /\ \A i \in revents : i > 0 /\ i >= cursor.i => StillReadable(i)
    BY <1>1 DEF AsyncInv, AsyncTypes, PassIsFresh
  <2>4. \A i \in revents' : i > 0 /\ i >= cursor'.i => StillReadable(i)'
    BY ONLY <1>3, <2>1, <2>3
  <2>5. cursor'.i # 0
    BY ONLY <2>1
  <2>6. PassIsFresh'
    BY ONLY <2>1, <2>4, <2>5 DEF PassIsFresh
  <2> QED BY <1>2, <2>2, <2>6 DEF AsyncInv
<1> QED BY <1>1, <1>4, <1>5

LEMMA AcceptKeeps == AsyncInv /\ pass_accepts => AsyncInv'
<1> SUFFICES ASSUME AsyncInv, pass_accepts PROVE AsyncInv'
  OBVIOUS
<1> DEFINE d == Min({f \in Descriptors : owner[f] = 0})
           c == Head(queue)
           p == pollfds_add(d)
<1>1. /\ cursor.at = "pass" /\ cursor.i = 0 /\ 0 \in revents /\ Advance
      /\ queue' = Tail(queue) /\ pollfds' = p
      /\ \/ d \in Range(pollfds') /\ owner' = [owner EXCEPT ![d] = c] /\ turned_away' = turned_away
         \/ d \notin Range(pollfds') /\ turned_away' = turned_away \cup {c} /\ owner' = owner
      /\ UNCHANGED <<select, revents, calls, unread, left, shut>>
  BY DEF pass_accepts
<1>2. /\ queue \in Seq(1 .. CALLERS) /\ queue # <<>> /\ c = queue[1] /\ 1 \in DOMAIN queue
      /\ c \in 1 .. CALLERS /\ queue' \in Seq(1 .. CALLERS)
      /\ \A j \in DOMAIN queue' : j + 1 \in DOMAIN queue /\ j + 1 # 1 /\ queue'[j] = queue[j + 1] /\ j \in Nat
  <2>1. queue \in Seq(1 .. CALLERS) /\ queue # <<>>
    BY <1>1 DEF AsyncInv, AsyncTypes, PassIsFresh
  <2>2. /\ Head(queue) \in 1 .. CALLERS /\ Tail(queue) \in Seq(1 .. CALLERS)
        /\ Len(Tail(queue)) = Len(queue) - 1
        /\ \A j \in 1 .. Len(Tail(queue)) : Tail(queue)[j] = queue[j + 1]
    BY ONLY <2>1, HeadTailProperties
  <2>3. Len(queue) \in Nat /\ DOMAIN queue = 1 .. Len(queue) /\ 1 \in DOMAIN queue
    BY ONLY <2>1, QueueTyped
  <2>4. DOMAIN Tail(queue) = 1 .. Len(queue) - 1
    BY ONLY <2>2, LenProperties
  <2>5. Head(queue) = queue[1]
    OBVIOUS
  <2>6. \A j \in 1 .. Len(queue) - 1 : j + 1 \in 1 .. Len(queue) /\ j + 1 # 1 /\ j \in Nat
    BY ONLY <2>3
  <2> QED BY ONLY <1>1, <2>1, <2>2, <2>3, <2>4, <2>5, <2>6
<1>3. /\ c <= calls /\ c \notin shut \cup turned_away /\ \A e \in Descriptors : owner[e] # c
      /\ \A j \in DOMAIN queue' : queue'[j] # c
  BY <1>2 DEF AsyncInv, Callers
<1> HIDE DEF c
<1>4. d \in Descriptors /\ owner[d] = 0
  <2>1. /\ owner \in [Descriptors -> 0 .. CALLERS]
        /\ \A a, b \in Descriptors : owner[a] # 0 /\ owner[a] = owner[b] => a = b
    BY DEF AsyncInv, AsyncTypes, Callers
  <2> QED BY ONLY <1>2, <1>3, <2>1, FreeDescriptor
<1> HIDE DEF d
<1>5. /\ pollfds \in Seq({-1} \cup Descriptors) /\ \A i \in Entry : pollfds[i] # d
      /\ select => \A i \in Entry : pollfds[i] \in {-1, i}
  <2>1. d > 0
    BY ONLY <1>4, NumFds DEF Descriptors
  <2> QED BY <1>4, <2>1 DEF AsyncInv, AsyncTypes, OwnEntry, Selected
<1>6. /\ p \in Seq({-1} \cup Descriptors)
      /\ \A i \in Entry : pollfds[i] > 0 => i \in DOMAIN p /\ p[i] = pollfds[i]
      /\ \A i \in DOMAIN p : p[i] > 0 => p[i] = d \/ (i \in Entry /\ p[i] = pollfds[i])
      /\ \A i, j \in DOMAIN p : p[i] = d /\ p[j] = d => i = j
      /\ select => (\E i \in DOMAIN p : p[i] = d) /\ \A i \in DOMAIN p : p[i] \in {-1, i}
  BY ONLY <1>4, <1>5, AddsEntry
<1> HIDE DEF p
<1>7. /\ cursor' \in [at : {"poll", "pass", "send"}, i : Nat, fd : 0 .. CALLERS]
      /\ cursor'.at = "pass" /\ cursor'.i = 1
  BY <1>1, Advances
<1>8. /\ owner' \in [Descriptors -> 0 .. CALLERS] /\ \A e \in Descriptors \ {d} : owner'[e] = owner[e]
      /\ d \in Range(pollfds') => owner'[d] = c /\ turned_away' = turned_away
      /\ d \notin Range(pollfds') => owner' = owner /\ turned_away' = turned_away \cup {c}
  <2>1. owner \in [Descriptors -> 0 .. CALLERS] /\ c \in 0 .. CALLERS
    BY <1>2, NumFds DEF AsyncInv, AsyncTypes
  <2>2. CASE d \in Range(pollfds')
    BY ONLY <1>1, <1>4, <2>1, <2>2
  <2>3. CASE d \notin Range(pollfds')
    BY ONLY <1>1, <1>4, <2>1, <2>3
  <2> QED BY <2>2, <2>3
<1>9. AsyncTypes'
  <2>1. /\ revents \subseteq Nat /\ calls \in 0 .. CALLERS /\ unread \in [1 .. CALLERS -> Nat]
        /\ left \subseteq 1 .. CALLERS
    BY DEF AsyncInv, AsyncTypes
  <2> QED BY ONLY <1>1, <1>2, <1>6, <1>7, <1>8, <2>1 DEF AsyncTypes
<1>10. d \in Range(pollfds') <=> \E i \in DOMAIN p : p[i] = d
  BY <1>1 DEF Range
<1>11. Callers'
  <2>1. /\ \A a \in Descriptors : owner[a] # 0 => owner[a] \notin shut \cup turned_away
        /\ \A a, b \in Descriptors : owner[a] # 0 /\ owner[a] = owner[b] => a = b
        /\ \A j \in DOMAIN queue : /\ queue[j] \notin shut \cup turned_away
                                   /\ queue[j] <= calls
                                   /\ \A a \in Descriptors : owner[a] # queue[j]
        /\ \A j, k \in DOMAIN queue : queue[j] = queue[k] => j = k
        /\ \A b \in 1 .. CALLERS : b > calls => /\ b \notin shut \cup turned_away
                                               /\ \A a \in Descriptors : owner[a] # b
    BY DEF AsyncInv, Callers
  <2>2. \A a \in Descriptors : owner'[a] = owner[a] \/ (a = d /\ owner'[a] = c /\ turned_away' = turned_away)
    BY ONLY <1>8
  <2>3. turned_away' = turned_away \/ (turned_away' = turned_away \cup {c} /\ owner' = owner)
    BY ONLY <1>8
  <2>4. \A a \in Descriptors : owner'[a] # 0 => owner'[a] \notin shut \cup turned_away'
    BY ONLY <1>3, <2>1, <2>2, <2>3
  <2>5. \A a, b \in Descriptors : owner'[a] # 0 /\ owner'[a] = owner'[b] => a = b
    BY ONLY <1>3, <2>1, <2>2
  <2>6. \A j \in DOMAIN queue' : /\ queue'[j] \notin shut \cup turned_away'
                                /\ queue'[j] <= calls
                                /\ \A a \in Descriptors : owner'[a] # queue'[j]
    <3> SUFFICES ASSUME NEW j \in DOMAIN queue'
                 PROVE  /\ queue'[j] \notin shut \cup turned_away' /\ queue'[j] <= calls
                        /\ \A a \in Descriptors : owner'[a] # queue'[j]
      OBVIOUS
    <3> DEFINE x == queue'[j]
    <3>1. x # c /\ x \notin shut \cup turned_away /\ x <= calls /\ \A a \in Descriptors : owner[a] # x
      BY <1>2, <1>3, <2>1
    <3> HIDE DEF x
    <3>2. \A a \in Descriptors : owner'[a] # x
      BY ONLY <2>2, <3>1
    <3>3. x \notin shut \cup turned_away'
      BY ONLY <2>3, <3>1
    <3> QED BY ONLY <3>1, <3>2, <3>3 DEF x
  <2>7. \A j, k \in DOMAIN queue' : queue'[j] = queue'[k] => j = k
    <3> SUFFICES ASSUME NEW j \in DOMAIN queue', NEW k \in DOMAIN queue', queue'[j] = queue'[k]
                 PROVE  j = k
      OBVIOUS
    <3>1. j + 1 = k + 1 /\ j \in Nat /\ k \in Nat
      BY <1>2, <2>1
    <3> QED BY ONLY <3>1
  <2>8. \A b \in 1 .. CALLERS : b > calls => /\ b \notin shut \cup turned_away'
                                            /\ \A a \in Descriptors : owner'[a] # b
    <3>1. \A b \in 1 .. CALLERS : b > calls => b # c
      <4>1. calls \in Int /\ c \in Int
        BY <1>2 DEF AsyncInv, AsyncTypes
      <4> QED BY ONLY <1>3, <4>1
    <3> QED BY ONLY <2>1, <2>2, <2>3, <3>1
  <2> QED BY ONLY <1>1, <2>4, <2>5, <2>6, <2>7, <2>8 DEF Callers
<1>12. /\ \A i \in Entry : pollfds[i] > 0 => owner[pollfds[i]] # 0
       /\ \A i, j \in Entry : pollfds[i] > 0 /\ pollfds[i] = pollfds[j] => i = j
       /\ \A a \in Descriptors : owner[a] # 0 => \E i \in Entry : pollfds[i] = a
       /\ \A i \in Entry : pollfds[i] \in {-1} \cup Descriptors
       /\ d > 0 /\ \A a \in Descriptors : a > 0
  <2>1. \A a \in Descriptors : a > 0
    BY NumFds DEF Descriptors
  <2> QED BY <1>4, <2>1, EntriesTyped DEF AsyncInv, AsyncTypes, OwnEntry, Entry
<1>13. \A i \in Entry : pollfds[i] > 0 => pollfds[i] \in Descriptors \ {d} /\ owner'[pollfds[i]] = owner[pollfds[i]]
  <2> SUFFICES ASSUME NEW i \in Entry, pollfds[i] > 0 PROVE pollfds[i] \in Descriptors \ {d}
    BY <1>8
  <2>1. pollfds[i] \in Descriptors
    BY <1>12
  <2> QED BY <1>5, <2>1
<1>14. OwnEntry'
  <2>1. \A i \in DOMAIN p : p[i] > 0 => owner'[p[i]] # 0
    <3> SUFFICES ASSUME NEW i \in DOMAIN p, p[i] > 0 PROVE owner'[p[i]] # 0
      OBVIOUS
    <3>1. CASE p[i] = d
      <4>1. owner'[d] = c /\ c # 0
        BY <1>2, <1>8, <1>10, <3>1
      <4> QED BY <3>1, <4>1
    <3>2. CASE i \in Entry /\ p[i] = pollfds[i]
      BY <1>12, <1>13, <3>2
    <3> QED BY <1>6, <3>1, <3>2
  <2>2. \A i, j \in DOMAIN p : p[i] > 0 /\ p[i] = p[j] => i = j
    BY ONLY <1>5, <1>6, <1>12
  <2>3. \A a \in Descriptors : owner'[a] # 0 => \E i \in DOMAIN p : p[i] = a
    <3> SUFFICES ASSUME NEW a \in Descriptors, owner'[a] # 0 PROVE \E i \in DOMAIN p : p[i] = a
      OBVIOUS
    <3>1. CASE a = d
      BY <1>4, <1>8, <1>10, <3>1
    <3>2. CASE a # d
      <4>1. PICK i \in Entry : pollfds[i] = a
        BY <1>8, <1>12, <3>2
      <4> QED BY <1>6, <1>12, <4>1
    <3> QED BY <3>1, <3>2
  <2> QED BY ONLY <1>1, <2>1, <2>2, <2>3 DEF OwnEntry, Entry
<1>15. Selected'
  <2>1. select => turned_away = {}
    BY DEF AsyncInv, Selected
  <2> QED BY ONLY <1>1, <1>6, <1>8, <1>10, <2>1 DEF Selected, Entry
<1>16. PassIsFresh'
  <2>1. ASSUME NEW i \in revents', i > 0 PROVE StillReadable(i)'
    <3>1. StillReadable(i)
      <4>1. i >= cursor.i
        BY <1>1, <2>1 DEF AsyncInv, AsyncTypes
      <4> QED BY <1>1, <2>1, <4>1 DEF AsyncInv, PassIsFresh
    <3>2. /\ i \in Entry /\ pollfds[i] > 0 /\ i \in DOMAIN p /\ p[i] = pollfds[i]
          /\ owner'[pollfds[i]] = owner[pollfds[i]]
      BY <1>6, <1>13, <3>1 DEF StillReadable
    <3> QED BY <1>1, <3>1, <3>2 DEF StillReadable, Ready, Entry
  <2> QED BY ONLY <1>7, <2>1 DEF PassIsFresh
<1>17. shut' \subseteq left'
  BY <1>1 DEF AsyncInv
<1> QED BY <1>9, <1>11, <1>14, <1>15, <1>16, <1>17 DEF AsyncInv

(* A failed accept changes the queue at most, or ends the program.          *)
LEMMA AcceptFailsKeeps == AsyncInv /\ accept_fails => AsyncInv' \/ Exited'
<1> SUFFICES ASSUME AsyncInv, accept_fails PROVE AsyncInv' \/ Exited'
  OBVIOUS
<1>1. /\ cursor.at = "pass" /\ cursor.i = 0 /\ 0 \in revents
      /\ queue' = queue \/ queue' = Tail(queue)
      /\ UNCHANGED <<select, revents, calls, unread, left, turned_away>>
  BY DEF accept_fails
<1>2. CASE select
  <2>1. /\ cursor' = [cursor EXCEPT !.at = "exited"] /\ pollfds' = <<>>
        /\ owner' = [d \in Descriptors |-> 0]
    BY <1>2 DEF accept_fails
  <2>2. cursor'.at = "exited"
    BY <2>1 DEF AsyncInv, AsyncTypes
  <2> QED BY <1>1, <1>2, <2>1, <2>2 DEF Exited
<1>3. CASE ~ select
  <2>1. Advance /\ UNCHANGED <<pollfds, owner, shut>>
    BY <1>3 DEF accept_fails
  <2>2. /\ cursor' \in [at : {"poll", "pass", "send"}, i : Nat, fd : 0 .. CALLERS]
        /\ cursor'.at = "pass" /\ cursor'.i = 1
    BY <1>1, <2>1, Advances
  <2>3. /\ queue \in Seq(1 .. CALLERS) /\ queue # <<>>
        /\ Len(queue) \in Nat /\ DOMAIN queue = 1 .. Len(queue)
    BY <1>1, LenProperties DEF AsyncInv, AsyncTypes, PassIsFresh
  <2>4. /\ queue' \in Seq(1 .. CALLERS)
        /\ \E k \in {0, 1} : \A j \in DOMAIN queue' : j \in Nat /\ j + k \in DOMAIN queue /\ queue'[j] = queue[j + k]
    <3>1. CASE queue' = queue
      <4>1. \A j \in DOMAIN queue' : j \in Nat /\ j + 0 \in DOMAIN queue /\ queue'[j] = queue[j + 0]
        <5>1. \A j \in 1 .. Len(queue) : j \in Nat /\ j + 0 = j
          BY ONLY <2>3
        <5> QED BY ONLY <2>3, <3>1, <5>1
      <4> QED BY ONLY <2>3, <3>1, <4>1
    <3>2. CASE queue' = Tail(queue)
      <4>1. /\ Tail(queue) \in Seq(1 .. CALLERS) /\ Len(Tail(queue)) = Len(queue) - 1
            /\ \A j \in 1 .. Len(Tail(queue)) : Tail(queue)[j] = queue[j + 1]
        BY ONLY <2>3, HeadTailProperties
      <4>2. DOMAIN Tail(queue) = 1 .. Len(queue) - 1
        BY ONLY <4>1, LenProperties
      <4>3. \A j \in 1 .. Len(queue) - 1 : j \in Nat /\ j + 1 \in 1 .. Len(queue)
        BY ONLY <2>3
      <4>4. \A j \in DOMAIN queue' : j \in Nat /\ j + 1 \in DOMAIN queue /\ queue'[j] = queue[j + 1]
        BY ONLY <2>3, <3>2, <4>1, <4>2, <4>3
      <4> QED BY ONLY <3>2, <4>1, <4>4
    <3> QED BY ONLY <1>1, <3>1, <3>2
  <2>5. AsyncTypes'
    BY <1>1, <2>1, <2>2, <2>4 DEF AsyncInv, AsyncTypes
  <2>6. Callers'
    <3>1. PICK k \in {0, 1} : \A j \in DOMAIN queue' : j \in Nat /\ j + k \in DOMAIN queue /\ queue'[j] = queue[j + k]
      BY <2>4
    <3>2. \A j \in DOMAIN queue' : /\ queue'[j] \notin shut \cup turned_away
                                  /\ queue'[j] <= calls
                                  /\ \A d \in Descriptors : owner[d] # queue'[j]
      BY <3>1 DEF AsyncInv, Callers
    <3>3. \A i, j \in DOMAIN queue' : queue'[i] = queue'[j] => i = j
      <4> SUFFICES ASSUME NEW i \in DOMAIN queue', NEW j \in DOMAIN queue', queue'[i] = queue'[j]
                   PROVE  i = j
        OBVIOUS
      <4>1. i + k = j + k /\ i \in Nat /\ j \in Nat
        BY <3>1 DEF AsyncInv, Callers
      <4> QED BY ONLY <4>1, k \in {0, 1}
    <3> QED BY <1>1, <2>1, <3>2, <3>3 DEF AsyncInv, Callers
  <2>7. OwnEntry' /\ Selected' /\ shut' \subseteq left'
    BY <1>1, <2>1 DEF AsyncInv, OwnEntry, Selected, Entry
  <2>8. PassIsFresh'
    <3>1. \A i \in revents : i > 0 => StillReadable(i)
      <4>1. \A i \in revents : i > 0 => i >= cursor.i
        BY <1>1 DEF AsyncInv, AsyncTypes
      <4> QED BY <1>1, <4>1 DEF AsyncInv, PassIsFresh
    <3>2. \A i \in revents' : i > 0 => StillReadable(i)'
      BY <1>1, <2>1, <3>1 DEF StillReadable, Ready, Entry
    <3> QED BY ONLY <2>2, <3>2 DEF PassIsFresh
  <2> QED BY <2>5, <2>6, <2>7, <2>8 DEF AsyncInv
<1> QED BY <1>2, <1>3

(* A connection whose peer has left is closed: its descriptor is free, and  *)
(* so is its entry; what else poll has found is not touched.                *)
LEMMA CloseKeeps ==
  ASSUME AsyncInv, NEW d \in Descriptors, owner[d] # 0, owner[d] \in left, Close(d),
         cursor.i \in Entry, pollfds[cursor.i] = d,
         \A i \in revents : i > 0 /\ i > cursor.i => StillReadable(i),
         UNCHANGED <<select, revents, queue, calls, unread, left, turned_away>>
  PROVE  AsyncInv'
<1> DEFINE e == cursor.i
<1>0. /\ pollfds \in Seq({-1} \cup Descriptors) /\ owner \in [Descriptors -> 0 .. CALLERS]
      /\ \A i \in Entry : pollfds[i] \in {-1} \cup Descriptors
  BY EntriesTyped DEF AsyncInv, AsyncTypes, Entry
<1>1. d > 0 /\ \A a \in Descriptors : a > 0
  BY NumFds DEF Descriptors
<1>2. \A i \in Entry : pollfds[i] = d => i = e
  BY <1>1 DEF AsyncInv, OwnEntry
<1>3. /\ pollfds' = pollfds_del(d) /\ owner' = [owner EXCEPT ![d] = 0]
      /\ shut' = shut \cup {owner[d]} /\ Advance
  <2>1. d \in Range(pollfds)
    BY DEF Range, Entry
  <2> QED BY <2>1 DEF Close
<1>4. /\ pollfds' \in Seq({-1} \cup Descriptors) /\ DOMAIN pollfds' = Entry
      /\ \A i \in Entry : pollfds'[i] = IF i = e THEN -1 ELSE pollfds[i]
  BY <1>0, <1>1, <1>2, <1>3, FreesEntry
<1>5. /\ cursor' \in [at : {"poll", "pass", "send"}, i : Nat, fd : 0 .. CALLERS]
      /\ cursor'.at = "pass" /\ cursor'.i = e + 1 /\ e \in Nat
  BY <1>3, Advances
<1> HIDE DEF e
<1>6. owner' \in [Descriptors -> 0 .. CALLERS] /\ \A a \in Descriptors : owner'[a] = IF a = d THEN 0 ELSE owner[a]
  BY ONLY <1>0, <1>3, NumFds
<1>7. AsyncTypes'
  <2>1. /\ revents \subseteq Nat /\ queue \in Seq(1 .. CALLERS) /\ calls \in 0 .. CALLERS
        /\ unread \in [1 .. CALLERS -> Nat] /\ left \subseteq 1 .. CALLERS
    BY DEF AsyncInv, AsyncTypes
  <2> QED BY <1>4, <1>5, <1>6, <2>1 DEF AsyncTypes
<1>8. Callers'
  <2>1. /\ \A a \in Descriptors : owner[a] # 0 => owner[a] \notin shut \cup turned_away
        /\ \A a, b \in Descriptors : owner[a] # 0 /\ owner[a] = owner[b] => a = b
        /\ \A j \in DOMAIN queue : /\ queue[j] \notin shut \cup turned_away
                                   /\ queue[j] <= calls
                                   /\ \A a \in Descriptors : owner[a] # queue[j]
        /\ \A j, k \in DOMAIN queue : queue[j] = queue[k] => j = k
        /\ \A b \in 1 .. CALLERS : b > calls => /\ b \notin shut \cup turned_away
                                               /\ \A a \in Descriptors : owner[a] # b
    BY DEF AsyncInv, Callers
  <2>2. \A a \in Descriptors : owner'[a] # 0 => a # d /\ owner'[a] = owner[a] /\ owner[a] # owner[d]
    BY ONLY <1>6, <2>1, owner[d] # 0
  <2>3. \A a \in Descriptors : owner'[a] # 0 => owner'[a] \notin shut' \cup turned_away
    BY ONLY <1>3, <2>1, <2>2
  <2>4. \A a, b \in Descriptors : owner'[a] # 0 /\ owner'[a] = owner'[b] => a = b
    BY ONLY <2>1, <2>2
  <2>5. \A j \in DOMAIN queue : queue[j] # 0
    BY QueueTyped DEF AsyncInv, AsyncTypes
  <2>6. \A j \in DOMAIN queue : /\ queue[j] \notin shut' \cup turned_away
                               /\ queue[j] <= calls
                               /\ \A a \in Descriptors : owner'[a] # queue[j]
    BY ONLY <1>3, <2>1, <2>2, <2>5, d \in Descriptors
  <2>7. \A b \in 1 .. CALLERS : b # 0
    BY NumFds
  <2>8. \A b \in 1 .. CALLERS : b > calls => /\ b \notin shut' \cup turned_away
                                            /\ \A a \in Descriptors : owner'[a] # b
    BY ONLY <1>3, <2>1, <2>2, <2>7, d \in Descriptors
  <2> QED BY <2>1, <2>3, <2>4, <2>6, <2>8 DEF Callers
<1>9. \A i \in Entry : pollfds'[i] > 0 => i # e /\ pollfds'[i] = pollfds[i] /\ pollfds[i] # d /\ pollfds[i] \in Descriptors
  BY ONLY <1>0, <1>2, <1>4
<1>10. OwnEntry'
  <2>1. /\ \A i \in Entry : pollfds[i] > 0 => owner[pollfds[i]] # 0
        /\ \A i, j \in Entry : pollfds[i] > 0 /\ pollfds[i] = pollfds[j] => i = j
        /\ \A a \in Descriptors : owner[a] # 0 => \E i \in Entry : pollfds[i] = a
    BY DEF AsyncInv, OwnEntry
  <2>2. \A i \in Entry : pollfds'[i] > 0 => owner'[pollfds'[i]] # 0
    BY ONLY <1>6, <1>9, <2>1
  <2>3. \A i, j \in Entry : pollfds'[i] > 0 /\ pollfds'[i] = pollfds'[j] => i = j
    BY ONLY <1>9, <2>1
  <2>4. \A a \in Descriptors : owner'[a] # 0 => \E i \in Entry : pollfds'[i] = a
    <3> SUFFICES ASSUME NEW a \in Descriptors, owner'[a] # 0 PROVE \E i \in Entry : pollfds'[i] = a
      OBVIOUS
    <3>1. a # d /\ owner[a] # 0
      BY <1>6
    <3>2. PICK i \in Entry : pollfds[i] = a
      BY <2>1, <3>1
    <3>3. i # e
      BY <3>1, <3>2 DEF e
    <3> QED BY <1>4, <3>2, <3>3
  <2> QED BY ONLY <1>4, <2>2, <2>3, <2>4 DEF OwnEntry, Entry
<1>11. Selected'
  <2>1. select => turned_away = {} /\ \A i \in Entry : pollfds[i] \in {-1, i}
    BY DEF AsyncInv, Selected
  <2>2. select => \A i \in Entry : pollfds'[i] \in {-1, i}
    BY ONLY <1>4, <2>1
  <2> QED BY <1>4, <2>1, <2>2 DEF Selected, Entry
<1>12. PassIsFresh'
  <2>1. ASSUME NEW i \in revents, i > 0, i >= e + 1 PROVE StillReadable(i)'
    <3>1. i \in Nat /\ i > e
      BY <1>5, <2>1 DEF AsyncInv, AsyncTypes
    <3>2. StillReadable(i) /\ i # e
      BY <1>5, <2>1, <3>1 DEF e
    <3>3. /\ i \in Entry /\ pollfds[i] > 0 /\ pollfds'[i] = pollfds[i] /\ Ready(owner[pollfds[i]])
      BY <1>4, <3>2 DEF StillReadable
    <3>4. owner'[pollfds[i]] = owner[pollfds[i]]
      BY <1>6, <1>9, <3>3
    <3> QED BY <1>4, <3>3, <3>4 DEF StillReadable, Ready, Entry
  <2>2. cursor'.i # 0
    BY ONLY <1>5
  <2> QED BY <1>5, <2>1, <2>2 DEF PassIsFresh
<1>13. shut' \subseteq left'
  BY <1>3 DEF AsyncInv
<1> QED BY <1>7, <1>8, <1>10, <1>11, <1>12, <1>13 DEF AsyncInv

LEMMA ReceiveKeeps == AsyncInv /\ pass_receives => AsyncInv'
<1> SUFFICES ASSUME AsyncInv, pass_receives PROVE AsyncInv'
  OBVIOUS
<1> DEFINE e == cursor.i
           d == pollfds[e]
<1>1. /\ cursor.at = "pass" /\ cursor.i > 0 /\ cursor.i \in revents
      /\ UNCHANGED <<select, revents, queue, calls, left, turned_away>>
  BY DEF pass_receives
<1>2. /\ e \in Nat /\ e \in Entry /\ d > 0 /\ Ready(owner[d])
      /\ \A i \in revents : i > 0 /\ i > e => StillReadable(i)
  <2>1. e \in Nat /\ revents \subseteq Nat
    BY DEF AsyncInv, AsyncTypes
  <2>2. \A i \in revents : i > 0 /\ i >= e => StillReadable(i)
    BY <1>1 DEF AsyncInv, PassIsFresh
  <2>3. StillReadable(e)
    BY <1>1, <2>1, <2>2
  <2>4. \A i \in revents : i > 0 /\ i > e => StillReadable(i)
    BY ONLY <2>1, <2>2
  <2> QED BY <2>1, <2>3, <2>4 DEF StillReadable
<1>3. /\ d \in Descriptors /\ owner[d] # 0 /\ owner[d] \in 1 .. CALLERS
      /\ unread \in [1 .. CALLERS -> Nat] /\ unread[owner[d]] \in Nat
  <2>1. /\ pollfds[e] \in {-1} \cup Descriptors /\ owner[d] # 0
        /\ owner \in [Descriptors -> 0 .. CALLERS] /\ unread \in [1 .. CALLERS -> Nat]
    BY <1>2, EntriesTyped DEF AsyncInv, AsyncTypes, OwnEntry, Entry
  <2>2. d \in Descriptors
    BY ONLY <1>2, <2>1
  <2> HIDE DEF d
  <2>3. owner[d] \in 1 .. CALLERS
    BY ONLY <2>1, <2>2, NumFds
  <2> QED BY ONLY <2>1, <2>2, <2>3
<1>4. CASE unread[owner[d]] > 0
  <2> DEFINE b == owner[d]
  <2>1. /\ \E n \in 1 .. unread[b] : unread' = [unread EXCEPT ![b] = @ - n]
        /\ cursor' = [cursor EXCEPT !.at = "send", !.fd = d]
        /\ UNCHANGED <<pollfds, owner, shut>>
    BY <1>2, <1>3, <1>4 DEF pass_receives
  <2>2. unread' \in [1 .. CALLERS -> Nat] /\ \A a \in 1 .. CALLERS : a # b => unread'[a] = unread[a]
    <3> HIDE DEF b
    <3>1. PICK n \in 1 .. unread[b] : unread' = [unread EXCEPT ![b] = @ - n]
      BY ONLY <2>1
    <3>2. unread[b] - n \in Nat /\ unread[b] \in Nat /\ b \in 1 .. CALLERS
      BY <1>3, <3>1 DEF b
    <3> QED BY ONLY <1>3, <3>1, <3>2
  <2>3. /\ cursor' \in [at : {"poll", "pass", "send"}, i : Nat, fd : 0 .. CALLERS]
        /\ cursor'.at = "send" /\ cursor'.i = e /\ cursor'.fd = d
    <3>1. cursor \in [at : {"poll", "pass", "send"}, i : Nat, fd : 0 .. CALLERS] /\ d \in 0 .. CALLERS
      BY <1>3, NumFds DEF AsyncInv, AsyncTypes, Descriptors
    <3> QED BY <2>1, <3>1
  <2>4. AsyncTypes'
    BY <1>1, <2>1, <2>2, <2>3 DEF AsyncInv, AsyncTypes
  <2>5. Callers' /\ OwnEntry' /\ Selected' /\ shut' \subseteq left'
    BY <1>1, <2>1 DEF AsyncInv, Callers, OwnEntry, Selected, Entry
  <2>6. ASSUME NEW i \in revents, i > 0, i > e PROVE StillReadable(i)'
    <3>1. StillReadable(i) /\ i # e
      BY <1>2, <2>6 DEF AsyncInv, AsyncTypes
    <3>2. i \in Entry /\ pollfds[i] > 0 /\ pollfds[i] # d /\ pollfds[i] \in {-1} \cup Descriptors
      BY <1>2, <3>1, EntriesTyped DEF StillReadable, AsyncInv, AsyncTypes, OwnEntry, Entry
    <3>3. owner[pollfds[i]] # b /\ owner[pollfds[i]] # 0
      <4>1. pollfds[i] \in Descriptors
        BY ONLY <3>2
      <4> QED BY <1>3, <3>2, <4>1 DEF AsyncInv, Callers, OwnEntry
    <3>4. owner[pollfds[i]] \in 1 .. CALLERS
      <4>1. pollfds[i] \in Descriptors /\ owner \in [Descriptors -> 0 .. CALLERS]
        BY <3>2 DEF AsyncInv, AsyncTypes
      <4> QED BY ONLY <3>3, <4>1, NumFds
    <3>5. unread'[owner[pollfds[i]]] = unread[owner[pollfds[i]]]
      BY ONLY <2>2, <3>3, <3>4
    <3> QED BY <1>1, <2>1, <3>1, <3>5 DEF StillReadable, Ready, Entry
  <2>7. PassIsFresh'
    BY <1>1, <1>2, <1>3, <2>1, <2>3, <2>6 DEF PassIsFresh, Entry
  <2> QED BY <2>4, <2>5, <2>7 DEF AsyncInv
<1>5. CASE ~ (unread[owner[d]] > 0)
  <2>1. owner[d] \in left
    BY <1>2, <1>5 DEF Ready
  <2>2. unread' = unread /\ Close(d)
    BY <1>2, <1>3, <1>5 DEF pass_receives
  <2> QED BY <1>1, <1>2, <1>3, <2>1, <2>2, CloseKeeps
<1> QED BY <1>4, <1>5

LEMMA SendKeeps == AsyncInv /\ pass_sends => AsyncInv'
<1> SUFFICES ASSUME AsyncInv, pass_sends PROVE AsyncInv'
  OBVIOUS
<1>1. cursor.at = "send" /\ UNCHANGED <<select, revents, queue, calls, unread, left, turned_away>>
  BY DEF pass_sends, callerVars
<1>2. /\ \A i \in revents : i > 0 /\ i > cursor.i => StillReadable(i)
      /\ cursor.fd \in Descriptors /\ owner[cursor.fd] # 0
      /\ cursor.i \in Entry /\ pollfds[cursor.i] = cursor.fd
  BY <1>1 DEF AsyncInv, PassIsFresh
<1>3. CASE Advance /\ UNCHANGED <<pollfds, owner, shut>>
  <2>1. /\ cursor' \in [at : {"poll", "pass", "send"}, i : Nat, fd : 0 .. CALLERS]
        /\ cursor'.at = "pass" /\ cursor'.i = cursor.i + 1 /\ cursor.i \in Nat
    BY <1>3, Advances
  <2>2. AsyncTypes'
    BY <1>1, <1>3, <2>1 DEF AsyncInv, AsyncTypes
  <2>3. Callers' /\ OwnEntry' /\ Selected' /\ shut' \subseteq left'
    BY <1>1, <1>3 DEF AsyncInv, Callers, OwnEntry, Selected, Entry
  <2>4. \A i : StillReadable(i) <=> StillReadable(i)'
    BY <1>1, <1>3 DEF StillReadable, Ready, Entry
  <2>5. revents' = revents /\ revents \subseteq Nat
    BY <1>1 DEF AsyncInv, AsyncTypes
  <2>6. \A i \in revents' : i > 0 /\ i >= cursor'.i => StillReadable(i)'
    BY ONLY <1>2, <2>1, <2>4, <2>5
  <2>7. cursor'.i # 0
    BY ONLY <2>1
  <2>8. PassIsFresh'
    BY ONLY <2>1, <2>6, <2>7 DEF PassIsFresh
  <2> QED BY <2>2, <2>3, <2>8 DEF AsyncInv
<1>4. CASE owner[cursor.fd] \in left /\ Close(cursor.fd)
  BY <1>1, <1>2, <1>4, CloseKeeps
<1> QED BY <1>3, <1>4 DEF pass_sends

-----------------------------------------------------------------------------
(* echo_server                                                              *)

(* What a thread of process_tcp holds: its place, its connection, what its   *)
(* buffer holds and what of it is still to be sent.                         *)
Handler == [at : {"none", "recv", "send", "close"}, client : 0 .. PEERS, offset : Nat, rest : Nat]

ServerTypes ==
  /\ srv_main \in [at : {"run_app", "start", "quit_lock", "stop_udp", "stop_accept", "look", "abort", "close", "end"},
                   slot : 1 .. HANDLERS + 1]
  /\ acceptor \in {"created", "starts", "accept", "close", "ended"}
  /\ backlog \in Seq(Peers)
  /\ accepted \in [Slots -> 0 .. PEERS] /\ in_use \in [Slots -> BOOLEAN] /\ handler \in [Slots -> Handler]
  /\ sent \in [Peers -> Nat] /\ received \in [Peers -> Nat] /\ echoed \in [Peers -> Nat] /\ closed \in [Peers -> Nat]

(* A slot has one connection, and a connection one slot; only main, when     *)
(* nobody accepts any more, takes the handler away and leaves the connection. *)
Holders ==
  /\ \A s \in Slots :
       /\ handler[s].at = "none" => handler[s] = NoThread
       /\ handler[s].at # "none" => handler[s].client \in Peers /\ accepted[s] = handler[s].client
       /\ handler[s].at = "none" /\ accepted[s] # Nobody => acceptor = "ended"
       /\ handler[s].at \in {"recv", "send"} => in_use[s]
       /\ handler[s].at = "close" => closed[handler[s].client] > 0
       /\ ~ in_use[s] /\ accepted[s] # Nobody => closed[accepted[s]] > 0
  /\ \A s, t \in Slots : accepted[s] # Nobody /\ accepted[s] = accepted[t] => s = t

(* What a handler has received it has echoed or has in its buffer.          *)
Bytes ==
  /\ \A s \in Slots : LET h == handler[s] IN
       /\ h.at = "recv" => /\ echoed[h.client] + h.offset = received[h.client]
                           /\ h.offset > 0 => sent[h.client] > received[h.client] \/ h.client \in hung_up
       /\ h.at = "send" => echoed[h.client] + h.rest = received[h.client]
  /\ \A c \in Peers : echoed[c] <= received[c] /\ received[c] <= sent[c]

(* Who waits for accept has not been served in any way.                      *)
Waiting ==
  /\ \A k \in 1 .. Len(backlog) :
       /\ received[backlog[k]] = 0 /\ closed[backlog[k]] = 0
       /\ \A s \in Slots : accepted[s] # backlog[k]
  /\ \A j, k \in 1 .. Len(backlog) : backlog[j] = backlog[k] => j = k

(* Who has been served is closed, or still has its slot.                     *)
Served == \A c \in Peers : received[c] > 0 /\ closed[c] = 0 => \E s \in Slots : accepted[s] = c

(* The slots main has come past.                                            *)
Stopping ==
  /\ srv_main.at \in {"run_app", "start"} => acceptor = "created"
  /\ srv_main.at \in {"run_app", "start", "quit_lock", "stop_udp", "stop_accept"} => srv_main.slot = 1
  /\ srv_main.at \in {"look", "abort", "close"} \/ srv_main.slot > 1 => acceptor = "ended"
  /\ srv_main.at \in {"abort", "close"} => srv_main.slot \in Slots
  /\ srv_main.at = "close" => handler[srv_main.slot].at \in {"none", "close"}
  /\ \A s \in Slots : s < srv_main.slot =>
       handler[s].at \in {"none", "close"} /\ (accepted[s] # Nobody => closed[accepted[s]] > 0)

ServerInv == ServerTypes /\ Holders /\ Bytes /\ Waiting /\ Served /\ Stopping

LEMMA Sizes == HANDLERS \in Nat \ {0} /\ RECV_BUF \in Nat \ {0} /\ PEERS \in Nat /\ PEER_BYTES \in Nat
BY EchoServerAssumption

LEMMA MinOfTwo ==
  ASSUME NEW a \in Int, NEW b \in Int
  PROVE  Min({a, b}) \in Int /\ Min({a, b}) <= a /\ Min({a, b}) <= b
<1>1. \E x \in {a, b} : \A y \in {a, b} : x =< y
  OBVIOUS
<1>2. Min({a, b}) \in {a, b} /\ \A y \in {a, b} : Min({a, b}) =< y
  BY <1>1 DEF Min
<1> QED BY <1>2

LEMMA BacklogTyped ==
  ASSUME backlog \in Seq(Peers)
  PROVE  /\ Len(backlog) \in Nat
         /\ \A k \in 1 .. Len(backlog) : backlog[k] \in Peers
         /\ Range(backlog) = {backlog[k] : k \in 1 .. Len(backlog)}
         /\ backlog # <<>> => /\ Head(backlog) = backlog[1] /\ Len(backlog) > 0
                              /\ Tail(backlog) \in Seq(Peers) /\ Len(Tail(backlog)) = Len(backlog) - 1
                              /\ \A k \in 1 .. Len(backlog) - 1 : Tail(backlog)[k] = backlog[k + 1]
<1>1. Len(backlog) \in Nat /\ DOMAIN backlog = 1 .. Len(backlog)
  BY LenProperties
<1>2. \A k \in 1 .. Len(backlog) : backlog[k] \in Peers
  BY ElementOfSeq
<1>3. Range(backlog) = {backlog[k] : k \in 1 .. Len(backlog)}
  BY ONLY <1>1 DEF Range
<1>4. backlog # <<>> => /\ Tail(backlog) \in Seq(Peers) /\ Len(Tail(backlog)) = Len(backlog) - 1
                        /\ \A k \in 1 .. Len(Tail(backlog)) : Tail(backlog)[k] = backlog[k + 1]
  BY ONLY backlog \in Seq(Peers), HeadTailProperties
<1>5. backlog # <<>> => Len(backlog) > 0 /\ Head(backlog) = backlog[1]
  BY <1>1, EmptySeq
<1> QED BY ONLY <1>1, <1>2, <1>3, <1>4, <1>5

LEMMA ServerInitially == EchoServerInit => ServerInv
<1> SUFFICES ASSUME EchoServerInit PROVE ServerInv
  OBVIOUS
<1>1. /\ srv_main = [at |-> "run_app", slot |-> 1] /\ acceptor = "created" /\ backlog = <<>>
      /\ \A s \in Slots : handler[s] = NoThread /\ accepted[s] = 0
      /\ \A c \in Peers : sent[c] = 0 /\ received[c] = 0 /\ echoed[c] = 0 /\ closed[c] = 0
  BY DEF EchoServerInit, Nobody
<1>2. ServerTypes
  <2>1. NoThread \in Handler /\ 0 \in 0 .. PEERS /\ 1 \in 1 .. HANDLERS + 1
    BY Sizes DEF NoThread, Handler, Nobody
  <2>2. srv_main \in [at : {"run_app", "start", "quit_lock", "stop_udp", "stop_accept", "look", "abort", "close", "end"},
                      slot : 1 .. HANDLERS + 1]
    BY <1>1, <2>1
  <2> QED BY <1>1, <2>1, <2>2 DEF ServerTypes, EchoServerInit, Nobody
<1>3. Len(backlog) = 0 /\ NoThread.at = "none" /\ Nobody = 0
  BY <1>1 DEF NoThread, Nobody
<1>4. Holders /\ Bytes /\ Waiting /\ Served
  BY <1>1, <1>3 DEF Holders, Bytes, Waiting, Served
<1>5. Stopping
  BY <1>1, <1>3 DEF Stopping, Slots
<1> QED BY <1>2, <1>4, <1>5 DEF ServerInv

LEMMA ServerKeepsOrderly == ServerInv => ServerKeepsOrder
<1> SUFFICES ASSUME ServerInv PROVE EchoesAll /\ StopLeavesNothing
  BY DEF ServerKeepsOrder
<1>1. EchoesAll
  <2> SUFFICES ASSUME NEW s \in Slots, handler[s] # NoThread
               PROVE  LET h == handler[s]  c == h.client IN
                        /\ h.at # "close" => echoed[c] + (IF h.at = "send" THEN h.rest ELSE h.offset) = received[c]
                        /\ h.at = "recv" /\ h.offset > 0 => sent[c] > received[c] \/ c \in hung_up
                        /\ accepted[s] = c
    BY DEF EchoesAll
  <2>1. handler[s].at \in {"recv", "send", "close"} /\ accepted[s] = handler[s].client
    BY DEF ServerInv, Holders, ServerTypes, Handler
  <2> QED BY <2>1 DEF ServerInv, Bytes
<1>2. StopLeavesNothing
  <2> SUFFICES ASSUME srv_main.slot > HANDLERS
               PROVE  /\ \A s \in Slots : handler[s].at \in {"none", "close"} /\ (accepted[s] # Nobody => closed[accepted[s]] > 0)
                      /\ \A c \in Peers : received[c] > 0 => closed[c] > 0
    BY DEF StopLeavesNothing
  <2>1. \A s \in Slots : s < srv_main.slot
    BY Sizes DEF Slots, ServerInv, ServerTypes
  <2>2. \A s \in Slots : handler[s].at \in {"none", "close"} /\ (accepted[s] # Nobody => closed[accepted[s]] > 0)
    BY <2>1 DEF ServerInv, Stopping
  <2>3. ASSUME NEW c \in Peers, received[c] > 0 PROVE closed[c] > 0
    <3>1. closed[c] \in Nat /\ c # Nobody
      BY Sizes DEF ServerInv, ServerTypes, Peers, Nobody
    <3> QED BY <2>2, <2>3, <3>1 DEF ServerInv, Served
  <2> QED BY <2>2, <2>3
<1> QED BY <1>1, <1>2

-----------------------------------------------------------------------------
(* What leaves the handlers and the slots alone                             *)

LEMMA PeersKeep ==
  ASSUME ServerInv, NEW c \in Peers, PeerConnects(c) \/ PeerSends(c) \/ PeerHangsUp(c)
  PROVE  ServerInv'
<1> USE DEF ServerInv
<1>1. CASE PeerConnects(c)
  <2>1. /\ acceptor # "ended" /\ backlog' = Append(backlog, c)
        /\ closed[c] = 0 /\ received[c] = 0 /\ c \notin Range(backlog) /\ \A s \in Slots : handler[s].client # c
        /\ UNCHANGED <<stopVars, acceptor, accepted, in_use, handler, peerVars, received, echoed, closed>>
    BY <1>1 DEF PeerConnects, Known
  <2>2. /\ backlog' \in Seq(Peers) /\ Len(backlog') = Len(backlog) + 1
        /\ \A k \in 1 .. Len(backlog) : backlog'[k] = backlog[k]
        /\ backlog'[Len(backlog) + 1] = c
    BY <2>1, AppendProperties DEF ServerTypes
  <2>3. \A s \in Slots : accepted[s] # c
    <3> SUFFICES ASSUME NEW s \in Slots, accepted[s] = c PROVE FALSE
      OBVIOUS
    <3>1. c # Nobody
      BY Sizes DEF Peers, Nobody
    <3> QED BY <2>1, <3>1 DEF Holders
  <2>4. Len(backlog) \in Nat /\ Range(backlog) = {backlog[k] : k \in 1 .. Len(backlog)}
    BY BacklogTyped DEF ServerTypes
  <2>5. Waiting'
    <3>1. ASSUME NEW k \in 1 .. Len(backlog) + 1
          PROVE  /\ received[backlog'[k]] = 0 /\ closed[backlog'[k]] = 0
                 /\ \A s \in Slots : accepted[s] # backlog'[k]
      <4>1. CASE k = Len(backlog) + 1
        BY <2>1, <2>2, <2>3, <4>1
      <4>2. CASE k \in 1 .. Len(backlog)
        BY <2>2, <4>2 DEF Waiting
      <4> QED BY <2>4, <4>1, <4>2
    <3>2. ASSUME NEW j \in 1 .. Len(backlog) + 1, NEW k \in 1 .. Len(backlog) + 1, backlog'[j] = backlog'[k]
          PROVE  j = k
      <4>1. \A i \in 1 .. Len(backlog) : backlog'[i] # c
        BY ONLY <2>1, <2>2, <2>4
      <4>2. CASE j \in 1 .. Len(backlog) /\ k \in 1 .. Len(backlog)
        BY <2>2, <3>2, <4>2 DEF Waiting
      <4>3. CASE j = Len(backlog) + 1 /\ k = Len(backlog) + 1
        BY <4>3
      <4> QED BY ONLY <2>2, <2>4, <3>2, <4>1, <4>2, <4>3, j \in 1 .. Len(backlog) + 1, k \in 1 .. Len(backlog) + 1
    <3> QED BY <2>1, <2>2, <3>1, <3>2 DEF Waiting
  <2>6. ServerTypes' /\ Holders' /\ Bytes' /\ Served' /\ Stopping'
    BY <2>1, <2>2 DEF ServerTypes, Holders, Bytes, Served, Stopping, peerVars, stopVars
  <2> QED BY <2>5, <2>6
<1>2. CASE PeerSends(c)
  <2>1. /\ sent' \in [Peers -> Nat] /\ \A d \in Peers : sent'[d] >= sent[d]
        /\ UNCHANGED <<stopVars, acceptor, backlog, accepted, in_use, handler, received, echoed, hung_up, closed>>
    BY <1>2 DEF PeerSends, ServerTypes
  <2>2. Bytes'
    <3>1. \A d \in Peers : echoed[d] <= received[d] /\ received[d] <= sent'[d]
      BY <2>1 DEF Bytes, ServerTypes
    <3>2. ASSUME NEW s \in Slots, handler[s].at = "recv", handler[s].offset > 0
          PROVE  sent'[handler[s].client] > received[handler[s].client] \/ handler[s].client \in hung_up
      <4>1. PICK peer : peer = handler[s].client
        OBVIOUS
      <4>2. peer \in Peers /\ (sent[peer] > received[peer] \/ peer \in hung_up)
        BY <3>2, <4>1 DEF Bytes, Holders
      <4>3. sent[peer] \in Nat /\ sent'[peer] \in Nat /\ received[peer] \in Nat /\ sent'[peer] >= sent[peer]
        BY <2>1, <4>2 DEF ServerTypes
      <4> QED BY ONLY <4>1, <4>2, <4>3
    <3> QED BY <2>1, <3>1, <3>2 DEF Bytes
  <2>3. ServerTypes' /\ Holders' /\ Waiting' /\ Served' /\ Stopping'
    BY <2>1 DEF ServerTypes, Holders, Waiting, Served, Stopping, stopVars
  <2> QED BY <2>2, <2>3
<1>3. CASE PeerHangsUp(c)
  BY <1>3 DEF PeerHangsUp, ServerTypes, Holders, Bytes, Waiting, Served, Stopping, stopVars
<1> QED BY <1>1, <1>2, <1>3

LEMMA OthersKeep ==
  ASSUME ServerInv,
         \/ acceptor_closes \/ process_udp \/ start_proto_fails \/ start_proto \/ event_handler \/ cmd_sample_quit
         \/ start_udp_and_tcp \/ main_quits \/ stop_udp
  PROVE  ServerInv'
<1> DEFINE Before == {"run_app", "start", "quit_lock", "stop_udp"}
<1> USE DEF ServerInv
<1>1. /\ srv_main = [at |-> srv_main.at, slot |-> srv_main.slot] /\ srv_main.slot \in 1 .. HANDLERS + 1
      /\ acceptor \in {"created", "starts", "accept", "close", "ended"}
  BY DEF ServerTypes
<1>2. /\ UNCHANGED <<backlog, accepted, in_use, handler, peerVars, received, echoed, closed>>
      /\ acceptor' \in {"created", "starts", "accept", "close", "ended"}
      /\ acceptor = "ended" => acceptor' = "ended"
      /\ \/ srv_main' = srv_main /\ (acceptor = "created" => acceptor' = "created")
         \/ srv_main.at = "run_app" /\ srv_main' = [at |-> "start", slot |-> srv_main.slot] /\ acceptor' = acceptor
         \/ /\ srv_main.at \in Before
            /\ \E at \in {"quit_lock", "stop_udp", "stop_accept", "end"} : srv_main' = [at |-> at, slot |-> srv_main.slot]
  <2>1. CASE start_udp_and_tcp
    <3>1. acceptor = "created"
      BY <2>1 DEF start_udp_and_tcp, Stopping
    <3> QED BY <1>1, <2>1, <3>1 DEF start_udp_and_tcp
  <2>2. CASE main_quits
    BY <1>1, <2>2 DEF main_quits
  <2>3. CASE stop_udp
    BY <1>1, <2>3 DEF stop_udp
  <2>4. CASE event_handler
    BY <1>1, <2>4 DEF event_handler
  <2>5. CASE acceptor_closes
    BY <1>1, <2>5 DEF acceptor_closes, stopVars
  <2>6. CASE start_proto
    BY <1>1, <2>6 DEF start_proto, stopVars
  <2>7. CASE start_proto_fails
    BY <1>1, <2>7 DEF start_proto_fails, stopVars
  <2>8. CASE process_udp \/ cmd_sample_quit
    BY <1>1, <2>8 DEF process_udp, cmd_sample_quit
  <2> QED BY <2>1, <2>2, <2>3, <2>4, <2>5, <2>6, <2>7, <2>8
<1>3. Holders' /\ Bytes' /\ Waiting' /\ Served'
  BY <1>2 DEF Holders, Bytes, Waiting, Served, peerVars
<1>4. ServerTypes' /\ Stopping'
  <2>1. CASE srv_main' = srv_main /\ (acceptor = "created" => acceptor' = "created")
    BY <1>1, <1>2, <2>1 DEF ServerTypes, Stopping, peerVars
  <2>2. CASE srv_main.at = "run_app" /\ srv_main' = [at |-> "start", slot |-> srv_main.slot] /\ acceptor' = acceptor
    BY <1>1, <1>2, <2>2, Sizes DEF ServerTypes, Stopping, peerVars, Slots
  <2>3. CASE /\ srv_main.at \in Before
             /\ \E at \in {"quit_lock", "stop_udp", "stop_accept", "end"} : srv_main' = [at |-> at, slot |-> srv_main.slot]
    <3>1. PICK at \in {"quit_lock", "stop_udp", "stop_accept", "end"} : srv_main' = [at |-> at, slot |-> srv_main.slot]
      BY <2>3
    <3>2. srv_main.slot = 1
      BY <2>3 DEF Stopping
    <3>3. ServerTypes'
      BY <1>1, <1>2, <3>1 DEF ServerTypes, peerVars
    <3>4. Stopping'
      BY <1>1, <1>2, <3>1, <3>2 DEF Stopping, Slots
    <3> QED BY <3>3, <3>4
  <2> QED BY <1>2, <2>1, <2>2, <2>3
<1> QED BY <1>3, <1>4

-----------------------------------------------------------------------------
(* The handlers and the accept thread                                       *)

(* A handler at recv or send keeps its connection c, and of all bytes changes *)
(* only those of its own.                                                   *)
Serves(s, c, h) ==
  /\ c = handler[s].client /\ handler[s].at \in {"recv", "send"} /\ h.client = c
  /\ handler' = [handler EXCEPT ![s] = h]
  /\ received' \in [Peers -> Nat] /\ echoed' \in [Peers -> Nat]
  /\ \A d \in Peers \ {c} : received'[d] = received[d] /\ echoed'[d] = echoed[d]
  /\ received'[c] >= received[c] /\ echoed'[c] <= received'[c] /\ received'[c] <= sent[c]
  /\ \/ /\ in_use' = [in_use EXCEPT ![s] = FALSE] /\ closed' = [closed EXCEPT ![c] = @ + 1] /\ h.at = "close"
     \/ /\ in_use' = in_use /\ closed' = closed
        /\ \/ /\ h.at = "recv" /\ echoed'[c] + h.offset = received'[c]
              /\ h.offset > 0 => sent[c] > received'[c] \/ c \in hung_up
           \/ h.at = "send" /\ echoed'[c] + h.rest = received'[c]
  /\ UNCHANGED <<stopVars, acceptor, backlog, accepted, sent, hung_up>>

LEMMA ServesKeeps ==
  ASSUME ServerInv, NEW s \in Slots, NEW c \in Peers, NEW h \in Handler, Serves(s, c, h)
  PROVE  ServerInv'
<1> USE DEF ServerInv, Serves
<1>1. /\ handler' \in [Slots -> Handler] /\ handler'[s] = h /\ \A t \in Slots \ {s} : handler'[t] = handler[t]
      /\ h.at \in {"recv", "send", "close"}
  BY DEF ServerTypes
<1>2. accepted[s] = c /\ c # Nobody /\ in_use[s]
  BY Sizes DEF Holders, Peers, Nobody
<1>3. \A t \in Slots \ {s} : accepted[t] # c /\ (accepted[t] # Nobody => accepted[t] \in Peers \ {c})
  <2>1. \A t \in Slots : accepted[t] = c => t = s
    BY <1>2 DEF Holders
  <2>2. \A t \in Slots : accepted[t] \in 0 .. PEERS
    BY DEF ServerTypes
  <2> QED BY <2>1, <2>2, Sizes DEF Peers, Nobody
<1>4. /\ closed' \in [Peers -> Nat] /\ \A d \in Peers : closed'[d] >= closed[d]
      /\ \A d \in Peers \ {c} : closed'[d] = closed[d]
      /\ h.at = "close" => closed'[c] > 0
      /\ in_use' \in [Slots -> BOOLEAN] /\ \A t \in Slots \ {s} : in_use'[t] = in_use[t]
      /\ h.at # "close" => in_use'[s] /\ UNCHANGED <<closed, in_use>>
  <2>1. closed \in [Peers -> Nat] /\ in_use \in [Slots -> BOOLEAN]
    BY DEF ServerTypes
  <2>2. CASE UNCHANGED <<in_use, closed>> /\ h.at \in {"recv", "send"}
    BY <1>2, <2>1, <2>2
  <2>3. CASE in_use' = [in_use EXCEPT ![s] = FALSE] /\ closed' = [closed EXCEPT ![c] = @ + 1] /\ h.at = "close"
    <3>1. closed' \in [Peers -> Nat] /\ closed'[c] = closed[c] + 1 /\ \A d \in Peers \ {c} : closed'[d] = closed[d]
      BY <2>1, <2>3
    <3>2. in_use' \in [Slots -> BOOLEAN] /\ \A t \in Slots \ {s} : in_use'[t] = in_use[t]
      BY <2>1, <2>3
    <3> QED BY <2>1, <2>3, <3>1, <3>2
  <2> QED BY <2>2, <2>3
<1>5. ServerTypes'
  BY <1>1, <1>4 DEF ServerTypes, stopVars
<1>6. Holders'
  <2>1. ASSUME NEW t \in Slots
        PROVE  /\ handler'[t].at = "none" => handler'[t] = NoThread
               /\ handler'[t].at # "none" => handler'[t].client \in Peers /\ accepted[t] = handler'[t].client
               /\ handler'[t].at = "none" /\ accepted[t] # Nobody => acceptor = "ended"
               /\ handler'[t].at \in {"recv", "send"} => in_use'[t]
               /\ handler'[t].at = "close" => closed'[handler'[t].client] > 0
               /\ ~ in_use'[t] /\ accepted[t] # Nobody => closed'[accepted[t]] > 0
    <3>1. CASE t = s
      BY <1>1, <1>2, <1>4, <3>1
    <3>2. CASE t # s
      <4>1. /\ handler'[t] = handler[t] /\ in_use'[t] = in_use[t] /\ accepted[t] # c
            /\ accepted[t] # Nobody => accepted[t] \in Peers \ {c}
        BY <1>1, <1>3, <1>4, <3>2
      <4>2. handler[t].at # "none" => handler[t].client \in Peers \ {c}
        BY <4>1 DEF Holders
      <4> QED BY <1>4, <4>1, <4>2 DEF Holders
    <3> QED BY <3>1, <3>2
  <2> QED BY <2>1 DEF Holders
<1>7. Bytes'
  <2>1. \A d \in Peers : echoed'[d] <= received'[d] /\ received'[d] <= sent[d]
    BY DEF Bytes
  <2>2. ASSUME NEW t \in Slots
        PROVE  LET g == handler'[t] IN
               /\ g.at = "recv" => /\ echoed'[g.client] + g.offset = received'[g.client]
                                   /\ g.offset > 0 => sent[g.client] > received'[g.client] \/ g.client \in hung_up
               /\ g.at = "send" => echoed'[g.client] + g.rest = received'[g.client]
    <3>1. CASE t = s
      BY <1>1, <3>1
    <3>2. CASE t # s /\ handler[t].at \in {"recv", "send"}
      <4>1. handler'[t] = handler[t] /\ handler[t].client \in Peers \ {c}
        BY <1>1, <1>3, <3>2 DEF Holders
      <4> QED BY <4>1 DEF Bytes
    <3>3. CASE t # s /\ handler[t].at \notin {"recv", "send"}
      BY <1>1, <3>3
    <3> QED BY <3>1, <3>2, <3>3
  <2> QED BY <2>1, <2>2 DEF Bytes
<1>8. Waiting'
  <2>1. \A k \in 1 .. Len(backlog) : backlog[k] \in Peers \ {c}
    <3>1. backlog \in Seq(Peers)
      BY DEF ServerTypes
    <3>2. \A k \in 1 .. Len(backlog) : backlog[k] \in Peers
      BY ONLY <3>1, ElementOfSeq
    <3>3. \A k \in 1 .. Len(backlog) : backlog[k] # c
      BY <1>2 DEF Waiting
    <3> QED BY <3>2, <3>3
  <2>2. \A k \in 1 .. Len(backlog) : received'[backlog[k]] = received[backlog[k]] /\ closed'[backlog[k]] = closed[backlog[k]]
    BY <1>4, <2>1
  <2>3. backlog' = backlog /\ accepted' = accepted
    OBVIOUS
  <2>4. Waiting
    OBVIOUS
  <2> QED BY ONLY <2>2, <2>3, <2>4 DEF Waiting
<1>9. Served'
  <2> SUFFICES ASSUME NEW d \in Peers, received'[d] > 0, closed'[d] = 0 PROVE \E t \in Slots : accepted[t] = d
    BY DEF Served
  <2>1. CASE d = c
    BY <1>2, <2>1
  <2>2. CASE d # c
    BY <1>4, <2>2 DEF Served
  <2> QED BY <2>1, <2>2
<1>10. Stopping'
  <2>1. ~ (s < srv_main.slot) /\ ~ (srv_main.at = "close" /\ srv_main.slot = s)
    BY DEF Stopping
  <2>2. ASSUME NEW t \in Slots, t < srv_main.slot
        PROVE  handler'[t].at \in {"none", "close"} /\ (accepted[t] # Nobody => closed'[accepted[t]] > 0)
    <3>1. t # s /\ handler'[t] = handler[t]
      BY <1>1, <2>1, <2>2
    <3>2. accepted[t] # Nobody => accepted[t] \in Peers \ {c}
      BY <1>3, <3>1
    <3> QED BY <1>4, <2>2, <3>1, <3>2 DEF Stopping
  <2>3. srv_main.at = "close" => srv_main.slot \in Slots \ {s} /\ handler'[srv_main.slot].at \in {"none", "close"}
    BY <1>1, <2>1 DEF Stopping
  <2> QED BY <2>2, <2>3 DEF Stopping, stopVars
<1> QED BY <1>5, <1>6, <1>7, <1>8, <1>9, <1>10

(* What a handler comes to.                                                 *)
ToSend(g, m) == [g EXCEPT !.at = "send", !.offset = m, !.rest = m]
ToFill(g, m) == [g EXCEPT !.offset = m]
ToSendOn(g, m) == [g EXCEPT !.rest = m]
ToRecv(g) == [g EXCEPT !.at = "recv", !.offset = 0, !.rest = 0]
ToClose(g) == [g EXCEPT !.at = "close"]

LEMMA HandlerMoves ==
  ASSUME NEW g \in Handler, NEW m \in Nat
  PROVE  /\ ToSend(g, m) \in Handler /\ ToSend(g, m).client = g.client /\ ToSend(g, m).at = "send" /\ ToSend(g, m).rest = m
         /\ ToFill(g, m) \in Handler /\ ToFill(g, m).client = g.client /\ ToFill(g, m).at = g.at /\ ToFill(g, m).offset = m
         /\ ToSendOn(g, m) \in Handler /\ ToSendOn(g, m).client = g.client /\ ToSendOn(g, m).at = g.at /\ ToSendOn(g, m).rest = m
         /\ ToRecv(g) \in Handler /\ ToRecv(g).client = g.client /\ ToRecv(g).at = "recv" /\ ToRecv(g).offset = 0
         /\ ToClose(g) \in Handler /\ ToClose(g).client = g.client /\ ToClose(g).at = "close"
<1>0. g = [at |-> g.at, client |-> g.client, offset |-> g.offset, rest |-> g.rest]
  BY DEF Handler
<1>1. ToSend(g, m) = [at |-> "send", client |-> g.client, offset |-> m, rest |-> m]
  <2>1. [g EXCEPT !.at = "send"] = [at |-> "send", client |-> g.client, offset |-> g.offset, rest |-> g.rest]
    BY ONLY <1>0
  <2>2. [[at |-> "send", client |-> g.client, offset |-> g.offset, rest |-> g.rest] EXCEPT !.offset = m]
        = [at |-> "send", client |-> g.client, offset |-> m, rest |-> g.rest]
    OBVIOUS
  <2>3. [[at |-> "send", client |-> g.client, offset |-> m, rest |-> g.rest] EXCEPT !.rest = m]
        = [at |-> "send", client |-> g.client, offset |-> m, rest |-> m]
    OBVIOUS
  <2>4. [[[g EXCEPT !.at = "send"] EXCEPT !.offset = m] EXCEPT !.rest = m]
        = [at |-> "send", client |-> g.client, offset |-> m, rest |-> m]
    BY ONLY <2>1, <2>2, <2>3, Zenon
  <2> QED BY ONLY <2>4, Zenon DEF ToSend
<1>2. ToFill(g, m) = [at |-> g.at, client |-> g.client, offset |-> m, rest |-> g.rest]
  BY ONLY <1>0 DEF ToFill
<1>3. ToSendOn(g, m) = [at |-> g.at, client |-> g.client, offset |-> g.offset, rest |-> m]
  BY ONLY <1>0 DEF ToSendOn
<1>4. ToRecv(g) = [at |-> "recv", client |-> g.client, offset |-> 0, rest |-> 0]
  <2>1. [g EXCEPT !.at = "recv"] = [at |-> "recv", client |-> g.client, offset |-> g.offset, rest |-> g.rest]
    BY ONLY <1>0
  <2>2. [[at |-> "recv", client |-> g.client, offset |-> g.offset, rest |-> g.rest] EXCEPT !.offset = 0]
        = [at |-> "recv", client |-> g.client, offset |-> 0, rest |-> g.rest]
    OBVIOUS
  <2>3. [[at |-> "recv", client |-> g.client, offset |-> 0, rest |-> g.rest] EXCEPT !.rest = 0]
        = [at |-> "recv", client |-> g.client, offset |-> 0, rest |-> 0]
    OBVIOUS
  <2>4. [[[g EXCEPT !.at = "recv"] EXCEPT !.offset = 0] EXCEPT !.rest = 0]
        = [at |-> "recv", client |-> g.client, offset |-> 0, rest |-> 0]
    BY ONLY <2>1, <2>2, <2>3, Zenon
  <2> QED BY ONLY <2>4, Zenon DEF ToRecv
<1>5. ToClose(g) = [at |-> "close", client |-> g.client, offset |-> g.offset, rest |-> g.rest]
  BY ONLY <1>0 DEF ToClose
<1> QED BY <1>1, <1>2, <1>3, <1>4, <1>5 DEF Handler

(* The connection of a handler at recv or send.                              *)
LEMMA Serving ==
  ASSUME ServerInv, NEW s \in Slots, handler[s].at \in {"recv", "send"}
  PROVE  /\ handler[s] \in Handler /\ handler[s].client \in Peers
         /\ handler \in [Slots -> Handler] /\ received \in [Peers -> Nat] /\ echoed \in [Peers -> Nat]
         /\ LET c == handler[s].client IN
            /\ received[c] \in Nat /\ echoed[c] \in Nat /\ sent[c] \in Nat
            /\ echoed[c] <= received[c] /\ received[c] <= sent[c]
            /\ handler[s].offset \in Nat /\ handler[s].rest \in Nat
            /\ handler[s].at = "recv" => echoed[c] + handler[s].offset = received[c]
            /\ handler[s].at = "send" => echoed[c] + handler[s].rest = received[c]
<1>1. handler[s] \in Handler /\ handler[s].client \in Peers
  BY DEF ServerInv, ServerTypes, Holders
<1>2. handler[s].offset \in Nat /\ handler[s].rest \in Nat
  BY <1>1 DEF Handler
<1> QED BY <1>1, <1>2 DEF ServerInv, ServerTypes, Bytes

LEMMA BreakKeeps ==
  ASSUME ServerInv, NEW s \in Slots, handler[s].at \in {"recv", "send"}, Break(s),
         UNCHANGED <<received, echoed, stopVars, acceptor, backlog, sent, hung_up>>
  PROVE  ServerInv'
<1> DEFINE c == handler[s].client
           h == ToClose(handler[s])
<1>1. h \in Handler /\ h.client = c /\ h.at = "close"
  BY Serving, HandlerMoves, 0 \in Nat
<1>2. handler' = [handler EXCEPT ![s] = h]
  BY Serving DEF Break, ToClose
<1>3. /\ received' \in [Peers -> Nat] /\ echoed' \in [Peers -> Nat] /\ c \in Peers
      /\ received[c] \in Nat /\ received'[c] = received[c] /\ echoed'[c] <= received'[c] /\ received'[c] <= sent[c]
  BY Serving
<1>4. in_use' = [in_use EXCEPT ![s] = FALSE] /\ closed' = [closed EXCEPT ![c] = @ + 1] /\ accepted' = accepted
  BY DEF Break
<1> HIDE DEF h
<1>5. Serves(s, c, h)
  BY <1>1, <1>2, <1>3, <1>4 DEF Serves
<1> QED BY ONLY <1>1, <1>3, <1>5, ServerInv, s \in Slots, ServesKeeps

LEMMA RecvKeeps == ASSUME ServerInv, NEW s \in Slots, recv_data(s) PROVE ServerInv'
<1> DEFINE c == handler[s].client
           g == handler[s]
<1>1. /\ g.at = "recv" /\ g \in Handler /\ c \in Peers /\ handler \in [Slots -> Handler]
      /\ received \in [Peers -> Nat] /\ echoed \in [Peers -> Nat]
      /\ received[c] \in Nat /\ echoed[c] \in Nat /\ sent[c] \in Nat /\ g.offset \in Nat
      /\ echoed[c] + g.offset = received[c]
  BY Serving DEF recv_data
<1>2. CASE c \in hung_up /\ Break(s) /\ UNCHANGED received
  BY <1>1, <1>2, BreakKeeps DEF recv_data, peerVars
<1>3. ASSUME NEW n \in 1 .. Min({sent[c] - received[c], RECV_BUF - g.offset}),
             received' = [received EXCEPT ![c] = @ + n],
             handler' = [handler EXCEPT ![s] =
               IF g.offset + n = RECV_BUF \/ ~ (sent[c] - received[c] > n \/ c \in hung_up)
               THEN [@ EXCEPT !.at = "send", !.offset = g.offset + n, !.rest = g.offset + n]
               ELSE [@ EXCEPT !.offset = g.offset + n]],
             accepted' = accepted, in_use' = in_use, closed' = closed, echoed' = echoed,
             UNCHANGED <<stopVars, acceptor, backlog, sent, hung_up>>
      PROVE  ServerInv'
  <2>1. n \in Nat /\ n > 0 /\ n <= sent[c] - received[c]
    <3>1. sent[c] - received[c] \in Int /\ RECV_BUF - g.offset \in Int
      BY <1>1, Sizes
    <3> DEFINE a == sent[c] - received[c]
               b == RECV_BUF - g.offset
    <3>2. n \in 1 .. Min({a, b})
      BY <1>3
    <3> HIDE DEF a, b
    <3>3. a \in Int /\ b \in Int
      BY <3>1 DEF a, b
    <3>4. Min({a, b}) \in Int /\ Min({a, b}) <= a
      BY ONLY <3>3, MinOfTwo
    <3>5. n \in Nat /\ n > 0 /\ n <= a
      BY ONLY <3>2, <3>3, <3>4
    <3> QED BY <3>5 DEF a
  <2>2. /\ received' \in [Peers -> Nat] /\ received'[c] = received[c] + n
        /\ \A d \in Peers \ {c} : received'[d] = received[d] /\ echoed'[d] = echoed[d]
    BY <1>1, <1>3, <2>1
  <2> DEFINE m == g.offset + n
             h == ToSend(g, m)
             r == ToFill(g, m)
  <2>3. m \in Nat /\ m = g.offset + n
    BY <1>1, <2>1
  <2> HIDE DEF m
  <2>4. /\ h \in Handler /\ h.client = c /\ h.at = "send" /\ h.rest = m
        /\ r \in Handler /\ r.client = c /\ r.at = "recv" /\ r.offset = m
    <3>1. g \in Handler /\ m \in Nat /\ g.at = "recv"
      BY <1>1, <2>3
    <3> QED BY ONLY <3>1, HandlerMoves
  <2>5. /\ echoed'[c] + m = received'[c] /\ received'[c] >= received[c] /\ received'[c] <= sent[c] /\ echoed'[c] <= received'[c]
        /\ sent[c] - received[c] > n => sent[c] > received'[c]
    BY <1>1, <1>3, <2>1, <2>2, <2>3
  <2>6. echoed' \in [Peers -> Nat] /\ c \in Peers
    BY <1>1, <1>3
  <2>7. CASE m = RECV_BUF \/ ~ (sent[c] - received[c] > n \/ c \in hung_up)
    <3>1. handler' = [handler EXCEPT ![s] = h]
      BY <1>1, <1>3, <2>7 DEF m, ToSend
    <3> HIDE DEF h
    <3>2. Serves(s, c, h)
      BY <1>1, <1>3, <2>2, <2>4, <2>5, <2>6, <3>1 DEF Serves
    <3> QED BY ONLY <2>4, <2>6, <3>2, ServerInv, s \in Slots, ServesKeeps
  <2>8. CASE ~ (m = RECV_BUF) /\ (sent[c] - received[c] > n \/ c \in hung_up)
    <3>1. handler' = [handler EXCEPT ![s] = r]
      BY <1>1, <1>3, <2>8 DEF m, ToFill
    <3> HIDE DEF r
    <3>2. Serves(s, c, r)
      BY <1>1, <1>3, <2>2, <2>4, <2>5, <2>6, <2>8, <3>1 DEF Serves
    <3> QED BY ONLY <2>4, <2>6, <3>2, ServerInv, s \in Slots, ServesKeeps
  <2> QED BY <2>7, <2>8
<1> QED BY <1>2, <1>3 DEF recv_data, peerVars

LEMMA SendKeepsBytes == ASSUME ServerInv, NEW s \in Slots, sendall(s) PROVE ServerInv'
<1> DEFINE c == handler[s].client
           g == handler[s]
<1>1. /\ g.at = "send" /\ g \in Handler /\ c \in Peers /\ handler \in [Slots -> Handler]
      /\ received \in [Peers -> Nat] /\ echoed \in [Peers -> Nat]
      /\ received[c] \in Nat /\ echoed[c] \in Nat /\ sent[c] \in Nat /\ g.rest \in Nat
      /\ echoed[c] + g.rest = received[c] /\ received[c] <= sent[c]
  BY Serving DEF sendall
<1>2. CASE c \in hung_up /\ Break(s) /\ UNCHANGED echoed
  BY <1>1, <1>2, BreakKeeps DEF sendall, peerVars
<1>3. ASSUME NEW n \in 1 .. g.rest,
             echoed' = [echoed EXCEPT ![c] = @ + n],
             handler' = [handler EXCEPT ![s] =
               IF n < g.rest THEN [g EXCEPT !.rest = g.rest - n]
               ELSE [g EXCEPT !.at = "recv", !.offset = 0, !.rest = 0]],
             accepted' = accepted, in_use' = in_use, closed' = closed, received' = received,
             UNCHANGED <<stopVars, acceptor, backlog, sent, hung_up>>
      PROVE  ServerInv'
  <2> DEFINE m == g.rest - n
             h == ToSendOn(g, m)
             r == ToRecv(g)
  <2>1. n \in Nat /\ m \in Nat /\ m = g.rest - n /\ (n < g.rest \/ m = 0)
    BY <1>1
  <2>2. /\ echoed' \in [Peers -> Nat] /\ echoed'[c] = echoed[c] + n
        /\ \A d \in Peers \ {c} : received'[d] = received[d] /\ echoed'[d] = echoed[d]
    BY <1>1, <1>3, <2>1
  <2>3. /\ n < g.rest => handler' = [handler EXCEPT ![s] = h]
        /\ ~ (n < g.rest) => handler' = [handler EXCEPT ![s] = r]
    <3>1. CASE n < g.rest
      <4>1. handler' = [handler EXCEPT ![s] = [g EXCEPT !.rest = g.rest - n]]
        BY <1>3, <3>1, Zenon
      <4> QED BY ONLY <4>1, <3>1 DEF ToSendOn
    <3>2. CASE ~ (n < g.rest)
      <4>1. handler' = [handler EXCEPT ![s] = [g EXCEPT !.at = "recv", !.offset = 0, !.rest = 0]]
        BY <1>3, <3>2, Zenon
      <4> QED BY ONLY <4>1, <3>2 DEF ToRecv
    <3> QED BY <3>1, <3>2
  <2> HIDE DEF m
  <2>4. /\ h \in Handler /\ h.client = c /\ h.at = "send" /\ h.rest = m
        /\ r \in Handler /\ r.client = c /\ r.at = "recv" /\ r.offset = 0
    BY ONLY <1>1, <2>1, HandlerMoves
  <2>5. /\ echoed'[c] + m = received'[c] /\ received'[c] >= received[c] /\ received'[c] <= sent[c] /\ echoed'[c] <= received'[c]
        /\ received' \in [Peers -> Nat]
    BY <1>1, <1>3, <2>1, <2>2
  <2> HIDE DEF h, r
  <2>6. CASE n < g.rest
    <3>1. Serves(s, c, h)
      BY <1>1, <1>3, <2>2, <2>3, <2>4, <2>5, <2>6 DEF Serves
    <3> QED BY ONLY <1>1, <2>4, <3>1, ServerInv, s \in Slots, ServesKeeps
  <2>7. CASE ~ (n < g.rest)
    <3>1. Serves(s, c, r)
      BY <1>1, <1>3, <2>1, <2>2, <2>3, <2>4, <2>5, <2>7 DEF Serves
    <3> QED BY ONLY <1>1, <2>4, <3>1, ServerInv, s \in Slots, ServesKeeps
  <2> QED BY <2>6, <2>7
<1> QED BY <1>2, <1>3 DEF sendall, peerVars

LEMMA EndsKeeps == ASSUME ServerInv, NEW s \in Slots, handler_ends(s) PROVE ServerInv'
<1> USE DEF ServerInv
<1>1. /\ handler[s].at = "close" /\ accepted' = [accepted EXCEPT ![s] = 0] /\ handler' = [handler EXCEPT ![s] = NoThread]
      /\ UNCHANGED <<srv_main, acceptor, backlog, in_use, sent, hung_up, received, echoed, closed>>
  BY DEF handler_ends, Nobody, stopVars, peerVars
<1>2. NoThread \in Handler /\ NoThread.at = "none" /\ Nobody = 0
  BY Sizes DEF NoThread, Handler, Nobody
<1>3. /\ handler' \in [Slots -> Handler] /\ handler'[s] = NoThread /\ \A t \in Slots \ {s} : handler'[t] = handler[t]
      /\ accepted' \in [Slots -> 0 .. PEERS] /\ accepted'[s] = 0 /\ \A t \in Slots \ {s} : accepted'[t] = accepted[t]
  BY <1>1, <1>2, Sizes DEF ServerTypes
<1>4. closed[accepted[s]] > 0
  BY <1>1 DEF Holders
<1>5. ServerTypes'
  BY <1>1, <1>3 DEF ServerTypes
<1>6. Holders'
  <2>1. ASSUME NEW t \in Slots
        PROVE  /\ handler'[t].at = "none" => handler'[t] = NoThread
               /\ handler'[t].at # "none" => handler'[t].client \in Peers /\ accepted'[t] = handler'[t].client
               /\ handler'[t].at = "none" /\ accepted'[t] # Nobody => acceptor = "ended"
               /\ handler'[t].at \in {"recv", "send"} => in_use[t]
               /\ handler'[t].at = "close" => closed[handler'[t].client] > 0
               /\ ~ in_use[t] /\ accepted'[t] # Nobody => closed[accepted'[t]] > 0
    <3>1. CASE t = s
      BY <1>2, <1>3, <3>1
    <3>2. CASE t # s
      BY <1>3, <3>2 DEF Holders
    <3> QED BY <3>1, <3>2
  <2>2. \A t, u \in Slots : accepted'[t] # Nobody /\ accepted'[t] = accepted'[u] => t = u
    BY <1>2, <1>3 DEF Holders
  <2> QED BY <1>1, <2>1, <2>2 DEF Holders
<1>7. Bytes'
  <2>1. ASSUME NEW t \in Slots
        PROVE  LET g == handler'[t] IN
               /\ g.at = "recv" => /\ echoed[g.client] + g.offset = received[g.client]
                                   /\ g.offset > 0 => sent[g.client] > received[g.client] \/ g.client \in hung_up
               /\ g.at = "send" => echoed[g.client] + g.rest = received[g.client]
    <3>1. CASE t = s
      BY <1>2, <1>3, <3>1
    <3>2. CASE t # s
      BY <1>3, <3>2 DEF Bytes
    <3> QED BY <3>1, <3>2
  <2> QED BY <1>1, <2>1 DEF Bytes
<1>8. Waiting'
  <2>1. backlog \in Seq(Peers)
    BY DEF ServerTypes
  <2>2. \A k \in 1 .. Len(backlog) : backlog[k] \in Peers
    BY ONLY <2>1, ElementOfSeq
  <2>3. \A k \in 1 .. Len(backlog) : backlog[k] # 0
    BY <2>2, Sizes DEF Peers
  <2> QED BY <1>1, <1>3, <2>3 DEF Waiting
<1>9. Served'
  <2> SUFFICES ASSUME NEW d \in Peers, received[d] > 0, closed[d] = 0 PROVE \E t \in Slots : accepted'[t] = d
    BY <1>1 DEF Served
  <2>1. PICK t \in Slots : accepted[t] = d
    BY DEF Served
  <2>2. t # s
    BY <1>4, <2>1
  <2> QED BY <1>3, <2>1, <2>2
<1>10. Stopping'
  <2>1. \A t \in Slots : handler'[t].at \in {"none", "close"} \/ handler'[t] = handler[t]
    BY <1>2, <1>3
  <2>2. \A t \in Slots : accepted'[t] = Nobody \/ accepted'[t] = accepted[t]
    BY <1>2, <1>3
  <2> QED BY <1>1, <2>1, <2>2 DEF Stopping
<1> QED BY <1>5, <1>6, <1>7, <1>8, <1>9, <1>10

LEMMA AcceptTcpKeeps == ServerInv /\ process_tcp => ServerInv'
<1> SUFFICES ASSUME ServerInv, process_tcp PROVE ServerInv'
  OBVIOUS
<1> USE DEF ServerInv
<1> DEFINE c == Head(backlog)
           s == Min(FreeSlots)
<1>1. /\ acceptor = "accept" /\ backlog # <<>> /\ backlog' = Tail(backlog)
      /\ UNCHANGED <<srv_main, sent, hung_up, received, echoed>>
  BY DEF process_tcp, stopVars, peerVars
<1>2. backlog \in Seq(Peers)
  BY DEF ServerTypes
<1>3. /\ Len(backlog) \in Nat /\ Len(backlog) > 0 /\ c = backlog[1] /\ c \in Peers
      /\ backlog' \in Seq(Peers) /\ Len(backlog') = Len(backlog) - 1
      /\ \A k \in 1 .. Len(backlog) - 1 : backlog'[k] = backlog[k + 1] /\ backlog'[k] \in Peers
  BY <1>1, <1>2, BacklogTyped
<1>4. received[c] = 0 /\ closed[c] = 0 /\ \A t \in Slots : accepted[t] # c
  BY <1>3 DEF Waiting
<1>5. \A k \in 1 .. Len(backlog) - 1 : backlog'[k] # c
  <2> SUFFICES ASSUME NEW k \in 1 .. Len(backlog) - 1, backlog'[k] = c PROVE FALSE
    OBVIOUS
  <2>1. k + 1 \in 1 .. Len(backlog) /\ 1 \in 1 .. Len(backlog) /\ k + 1 # 1
    BY <1>3
  <2>2. backlog[k + 1] = backlog[1]
    BY <1>3
  <2> QED BY <2>1, <2>2 DEF Waiting
<1>6. \A k \in 1 .. Len(backlog') :
        /\ received[backlog'[k]] = 0 /\ closed[backlog'[k]] = 0
        /\ \A t \in Slots : accepted[t] # backlog'[k]
  <2> SUFFICES ASSUME NEW k \in 1 .. Len(backlog) - 1
               PROVE  received[backlog'[k]] = 0 /\ closed[backlog'[k]] = 0 /\ \A t \in Slots : accepted[t] # backlog'[k]
    BY <1>3
  <2>1. k + 1 \in 1 .. Len(backlog) /\ backlog'[k] = backlog[k + 1]
    BY <1>3
  <2> QED BY <2>1 DEF Waiting
<1>7. \A j, k \in 1 .. Len(backlog') : backlog'[j] = backlog'[k] => j = k
  <2> SUFFICES ASSUME NEW j \in 1 .. Len(backlog) - 1, NEW k \in 1 .. Len(backlog) - 1, backlog'[j] = backlog'[k]
               PROVE  j = k
    BY <1>3
  <2>1. j + 1 \in 1 .. Len(backlog) /\ k + 1 \in 1 .. Len(backlog) /\ backlog[j + 1] = backlog[k + 1]
    BY <1>3
  <2>2. j + 1 = k + 1
    BY <2>1 DEF Waiting
  <2> QED BY <2>2
<1>8. srv_main.at \notin {"run_app", "start", "look", "abort", "close"} /\ srv_main.slot = 1
  BY <1>1, Sizes DEF Stopping, ServerTypes
<1>9. CASE FreeSlots = {}
  <2>1. closed' = [closed EXCEPT ![c] = @ + 1] /\ acceptor' = "close" /\ UNCHANGED <<accepted, in_use, handler>>
    BY <1>9 DEF process_tcp
  <2>2. closed' \in [Peers -> Nat] /\ \A d \in Peers : closed'[d] >= closed[d] /\ (d # c => closed'[d] = closed[d])
    <3>1. closed \in [Peers -> Nat]
      BY DEF ServerTypes
    <3> HIDE DEF c
    <3> QED BY ONLY <1>3, <2>1, <3>1
  <2>3. ServerTypes'
    BY <1>1, <1>3, <2>1, <2>2 DEF ServerTypes
  <2>4. Holders'
    <3>1. \A t \in Slots : accepted[t] \in 0 .. PEERS
      BY DEF ServerTypes
    <3>2. \A t \in Slots : accepted[t] # Nobody => closed'[accepted[t]] = closed[accepted[t]]
      BY <1>4, <2>2, <3>1, Sizes DEF Peers, Nobody
    <3>3. \A t \in Slots : handler[t].at # "none" => closed'[handler[t].client] = closed[handler[t].client]
      BY <1>4, <2>2 DEF Holders
    <3> QED BY <1>1, <2>1, <3>2, <3>3 DEF Holders
  <2>5. Bytes'
    BY <1>1, <2>1 DEF Bytes
  <2>6. Waiting'
    <3>1. \A k \in 1 .. Len(backlog') : closed'[backlog'[k]] = closed[backlog'[k]]
      BY <1>3, <1>5, <2>2
    <3> QED BY <1>1, <1>6, <1>7, <2>1, <3>1 DEF Waiting
  <2>7. Served'
    BY <1>1, <1>4, <2>1, <2>2 DEF Served
  <2>8. Stopping'
    BY <1>1, <1>8, <2>1, Sizes DEF Stopping, Slots
  <2> QED BY <2>3, <2>4, <2>5, <2>6, <2>7, <2>8
<1>10. CASE FreeSlots # {}
  <2> DEFINE h == [at |-> "recv", client |-> c, offset |-> 0, rest |-> 0]
  <2>1. s \in Slots /\ accepted[s] = 0
    <3>1. FreeSlots \subseteq Nat
      BY Sizes DEF FreeSlots, Slots
    <3>2. s \in FreeSlots
      BY ONLY <1>10, <3>1, MinIsIn
    <3> QED BY <3>2 DEF FreeSlots, Nobody
  <2>2. /\ accepted' = [accepted EXCEPT ![s] = c] /\ in_use' = [in_use EXCEPT ![s] = TRUE]
        /\ handler' = [handler EXCEPT ![s] = h] /\ closed' = closed /\ acceptor' = "accept"
    BY <1>1, <1>10 DEF process_tcp
  <2>3. h \in Handler /\ h.at = "recv" /\ h.client = c /\ h.offset = 0
    BY <1>3, Sizes DEF Handler, Peers
  <2> HIDE DEF h, s, c
  <2>4. /\ handler' \in [Slots -> Handler] /\ handler'[s] = h /\ \A t \in Slots \ {s} : handler'[t] = handler[t]
        /\ accepted' \in [Slots -> 0 .. PEERS] /\ accepted'[s] = c /\ \A t \in Slots \ {s} : accepted'[t] = accepted[t]
        /\ in_use' \in [Slots -> BOOLEAN] /\ in_use'[s] /\ \A t \in Slots \ {s} : in_use'[t] = in_use[t]
    <3>1. c \in 0 .. PEERS
      BY <1>3, Sizes DEF Peers
    <3>2. handler \in [Slots -> Handler] /\ accepted \in [Slots -> 0 .. PEERS] /\ in_use \in [Slots -> BOOLEAN]
      BY DEF ServerTypes
    <3> QED BY ONLY <2>1, <2>2, <2>3, <3>1, <3>2
  <2>5. ServerTypes'
    BY <1>1, <1>3, <2>2, <2>4 DEF ServerTypes
  <2>6. Holders'
    <3>1. ASSUME NEW t \in Slots
          PROVE  /\ handler'[t].at = "none" => handler'[t] = NoThread
                 /\ handler'[t].at # "none" => handler'[t].client \in Peers /\ accepted'[t] = handler'[t].client
                 /\ handler'[t].at = "none" /\ accepted'[t] # Nobody => acceptor' = "ended"
                 /\ handler'[t].at \in {"recv", "send"} => in_use'[t]
                 /\ handler'[t].at = "close" => closed[handler'[t].client] > 0
                 /\ ~ in_use'[t] /\ accepted'[t] # Nobody => closed[accepted'[t]] > 0
      <4>1. CASE t = s
        BY <1>3, <2>3, <2>4, <4>1
      <4>2. CASE t # s
        BY <1>1, <2>2, <2>4, <4>2 DEF Holders
      <4> QED BY <4>1, <4>2
    <3>2. \A t, u \in Slots : accepted'[t] # Nobody /\ accepted'[t] = accepted'[u] => t = u
      BY <1>4, <2>4 DEF Holders
    <3> QED BY <2>2, <3>1, <3>2 DEF Holders
  <2>7. Bytes'
    <3>1. echoed[c] + 0 = received[c]
      BY <1>3, <1>4 DEF Bytes, ServerTypes
    <3>2. ASSUME NEW t \in Slots
          PROVE  LET g == handler'[t] IN
                 /\ g.at = "recv" => /\ echoed[g.client] + g.offset = received[g.client]
                                     /\ g.offset > 0 => sent[g.client] > received[g.client] \/ g.client \in hung_up
                 /\ g.at = "send" => echoed[g.client] + g.rest = received[g.client]
      <4>1. CASE t = s
        BY <2>3, <2>4, <3>1, <4>1
      <4>2. CASE t # s
        BY <2>4, <4>2 DEF Bytes
      <4> QED BY <4>1, <4>2
    <3> QED BY <1>1, <3>2 DEF Bytes
  <2>8. Waiting'
    <3>1. ASSUME NEW k \in 1 .. Len(backlog'), NEW t \in Slots PROVE accepted'[t] # backlog'[k]
      <4>1. backlog'[k] # c /\ accepted[t] # backlog'[k]
        BY <1>3, <1>5, <1>6
      <4> QED BY ONLY <2>4, <4>1, t \in Slots
    <3> QED BY <1>1, <1>6, <1>7, <2>2, <3>1 DEF Waiting
  <2>9. Served'
    <3> SUFFICES ASSUME NEW d \in Peers, received[d] > 0, closed[d] = 0 PROVE \E t \in Slots : accepted'[t] = d
      BY <1>1, <2>2 DEF Served
    <3>1. PICK t \in Slots : accepted[t] = d
      BY DEF Served
    <3>2. t # s
      BY <2>1, <3>1, Sizes DEF Peers
    <3> QED BY <2>4, <3>1, <3>2
  <2>10. Stopping'
    BY <1>1, <1>8, <2>2, Sizes DEF Stopping, Slots
  <2> QED BY <2>5, <2>6, <2>7, <2>8, <2>9, <2>10
<1> QED BY <1>9, <1>10

-----------------------------------------------------------------------------
(* main stops the servers                                                   *)

LEMMA StopsKeep ==
  ASSUME ServerInv, stop_tcp_accept \/ stop_tcp_look \/ stop_tcp_abort \/ stop_tcp_close
  PROVE  ServerInv'
<1> USE DEF ServerInv
<1>1. srv_main = [at |-> srv_main.at, slot |-> srv_main.slot] /\ srv_main.slot \in 1 .. HANDLERS + 1
  BY DEF ServerTypes
<1> DEFINE s == srv_main.slot
<1>2. CASE stop_tcp_accept
  <2>1. /\ srv_main.at = "stop_accept" /\ srv_main' = [at |-> "look", slot |-> 1] /\ acceptor' = "ended" /\ backlog' = <<>>
        /\ UNCHANGED <<accepted, in_use, handler, sent, hung_up, received, echoed, closed>>
    BY <1>1, <1>2 DEF stop_tcp_accept, peerVars
  <2>2. backlog' \in Seq(Peers) /\ Len(backlog') = 0
    BY <2>1
  <2>3. ServerTypes'
    BY <2>1, <2>2, Sizes DEF ServerTypes
  <2>4. Holders' /\ Bytes' /\ Served'
    BY <2>1 DEF Holders, Bytes, Served
  <2>5. Waiting'
    BY <2>2 DEF Waiting
  <2>6. Stopping'
    BY <2>1, Sizes DEF Stopping, Slots
  <2> QED BY <2>3, <2>4, <2>5, <2>6
<1>3. CASE stop_tcp_look
  <2>1. /\ srv_main.at = "look"
        /\ UNCHANGED <<acceptor, backlog, accepted, in_use, handler, sent, hung_up, received, echoed, closed>>
    BY <1>3 DEF stop_tcp_look, peerVars
  <2>2. \/ srv_main' = [at |-> "end", slot |-> s] /\ s > HANDLERS
        \/ srv_main' = [at |-> "abort", slot |-> s] /\ s \in Slots
        \/ srv_main' = [at |-> "close", slot |-> s] /\ s \in Slots /\ ~ in_use[s]
    BY <1>1, <1>3, Sizes DEF stop_tcp_look, Slots
  <2>3. ServerTypes'
    BY <1>1, <2>1, <2>2 DEF ServerTypes
  <2>4. Holders' /\ Bytes' /\ Served' /\ Waiting'
    BY <2>1 DEF Holders, Bytes, Served, Waiting
  <2>5. s \in Slots /\ ~ in_use[s] => handler[s].at \in {"none", "close"}
    BY DEF Holders, ServerTypes, Handler
  <2>6. Stopping'
    BY <2>1, <2>2, <2>5 DEF Stopping
  <2> QED BY <2>3, <2>4, <2>6
<1>4. CASE stop_tcp_abort
  <2>1. /\ srv_main.at = "abort" /\ s \in Slots /\ acceptor = "ended" /\ srv_main' = [at |-> "close", slot |-> s]
        /\ handler' = [handler EXCEPT ![s] = NoThread]
        /\ UNCHANGED <<acceptor, backlog, accepted, in_use, sent, hung_up, received, echoed, closed>>
    BY <1>1, <1>4 DEF stop_tcp_abort, peerVars, Stopping
  <2>2. NoThread \in Handler /\ NoThread.at = "none"
    BY Sizes DEF NoThread, Handler, Nobody
  <2>3. handler' \in [Slots -> Handler] /\ handler'[s] = NoThread /\ \A t \in Slots \ {s} : handler'[t] = handler[t]
    BY <2>1, <2>2 DEF ServerTypes
  <2>4. ServerTypes'
    BY <1>1, <2>1, <2>3 DEF ServerTypes
  <2>5. Served' /\ Waiting'
    BY <2>1 DEF Served, Waiting
  <2>6. \A t \in Slots : handler'[t] = NoThread \/ handler'[t] = handler[t]
    BY <2>3
  <2>7. Holders'
    BY <2>1, <2>2, <2>6 DEF Holders
  <2>8. Bytes'
    BY <2>1, <2>2, <2>6 DEF Bytes
  <2>9. Stopping'
    BY <2>1, <2>2, <2>3, <2>6 DEF Stopping
  <2> QED BY <2>4, <2>5, <2>7, <2>8, <2>9
<1>5. CASE stop_tcp_close
  <2>1. /\ srv_main.at = "close" /\ s \in Slots /\ acceptor = "ended" /\ srv_main' = [at |-> "look", slot |-> s + 1]
        /\ closed' = (IF accepted[s] = Nobody THEN closed ELSE [closed EXCEPT ![accepted[s]] = @ + 1])
        /\ UNCHANGED <<acceptor, backlog, accepted, in_use, handler, sent, hung_up, received, echoed>>
    BY <1>1, <1>5 DEF stop_tcp_close, peerVars, Stopping
  <2>2. \A t \in Slots : accepted[t] # Nobody => accepted[t] \in Peers
    BY Sizes DEF ServerTypes, Peers, Nobody
  <2>3. closed' \in [Peers -> Nat] /\ \A d \in Peers : closed'[d] >= closed[d] /\ (d # accepted[s] => closed'[d] = closed[d])
    BY <2>1, <2>2 DEF ServerTypes
  <2>4. accepted[s] # Nobody => closed'[accepted[s]] > 0
    BY <2>1, <2>2 DEF ServerTypes
  <2>5. s + 1 \in 1 .. HANDLERS + 1
    BY <2>1, Sizes DEF Slots
  <2>6. ServerTypes'
    BY <2>1, <2>3, <2>5 DEF ServerTypes
  <2>7. \A d \in Peers : closed[d] \in Nat /\ closed'[d] \in Nat
    BY <2>3 DEF ServerTypes
  <2>8. Holders'
    <3>1. \A t \in Slots : handler[t].at # "none" => handler[t].client \in Peers
      BY DEF Holders
    <3> QED BY <2>1, <2>2, <2>3, <2>7, <3>1 DEF Holders
  <2>9. Bytes'
    BY <2>1 DEF Bytes
  <2>10. Served'
    BY <2>1, <2>3, <2>7 DEF Served
  <2>11. Waiting'
    <3>1. backlog \in Seq(Peers)
      BY DEF ServerTypes
    <3>2. \A k \in 1 .. Len(backlog) : backlog[k] \in Peers
      BY ONLY <3>1, ElementOfSeq
    <3>3. \A k \in 1 .. Len(backlog) : closed'[backlog[k]] = closed[backlog[k]]
      BY <2>1, <2>3, <3>2 DEF Waiting
    <3> QED BY <2>1, <3>3 DEF Waiting
  <2>12. Stopping'
    <3>1. ASSUME NEW t \in Slots, t < s + 1
          PROVE  handler[t].at \in {"none", "close"} /\ (accepted[t] # Nobody => closed'[accepted[t]] > 0)
      <4>1. CASE t = s
        BY <2>1, <2>4, <4>1 DEF Stopping
      <4>2. CASE t < s
        <5>1. handler[t].at \in {"none", "close"} /\ (accepted[t] # Nobody => closed[accepted[t]] > 0)
          BY <4>2 DEF Stopping
        <5> QED BY <2>2, <2>3, <2>7, <5>1
      <4>3. t = s \/ t < s
        BY <1>1, <3>1, Sizes DEF Slots
      <4> QED BY <4>1, <4>2, <4>3
    <3> QED BY <2>1, <3>1, Sizes DEF Stopping, Slots
  <2> QED BY <2>6, <2>8, <2>9, <2>10, <2>11, <2>12
<1> QED BY <1>2, <1>3, <1>4, <1>5

LEMMA ServerKeeps == ServerInv /\ EchoServerNext => ServerInv'
BY PeersKeep, RecvKeeps, SendKeepsBytes, EndsKeeps, AcceptTcpKeeps, OthersKeep, StopsKeep DEF EchoServerNext

-----------------------------------------------------------------------------
(* echo_client                                                              *)

(* Where main is between start_udp and the end of the session.               *)
Session == {"start_udp", "sent", "loop", "poll", "udp", "compare", "transmit", "next"}

EchoTypes ==
  /\ echo_main.at \in Session \cup {"run_app", "start_tcp", "stop", "stop_transmit", "exit", "undefined"}
  /\ echo_main = [at |-> echo_main.at, ret |-> echo_main.ret, got |-> echo_main.got]
  /\ echo_main.ret \in {"ok", "error"}
  /\ tcp_data \in [expecting : Nat, received : Nat, wire : Nat]
  /\ udp_work \in [Works -> {"idle", "timer", "queued"}] /\ workq \in {"idle", "send"}
  /\ restless \in BOOLEAN

(* In a session what is missing of a response is under way, so that there is *)
(* never too much.                                                          *)
NothingMissing ==
  echo_main.at \in Session => tcp_data.expecting = tcp_data.received + tcp_data.wire

(* A work, or its end, sends the next datagram.                              *)
SendsAgain ==
  echo_main.at \in {"poll", "loop", "udp", "compare", "next"} =>
    workq = "send" \/ \E w \in Works : udp_work[w] # "idle"

(* A send that neither began before a cancel of stop_udp nor ended between   *)
(* the two leaves no work behind: one that begins between them ends before   *)
(* the second or is still under way then, and either is recorded.            *)
Quiet ==
  ~ restless =>
    /\ echo_main.at = "stop_transmit" => udp_work["recv"] = "idle"
    /\ echo_main.at \in {"run_app", "start_tcp", "exit", "start_udp"} =>
         workq = "idle" /\ \A w \in Works : udp_work[w] = "idle"
    /\ echo_main.at = "undefined" => nfds > FDS

EchoInv == EchoTypes /\ NothingMissing /\ SendsAgain /\ Quiet

LEMMA EchoInitially == EchoClientInit => EchoInv
<1> SUFFICES ASSUME EchoClientInit PROVE EchoTypes /\ NothingMissing /\ SendsAgain /\ Quiet
  BY DEF EchoInv
<1> USE DEF EchoClientInit, Stopped, Session, Works
<1>1. EchoTypes
  <2>1. tcp_data \in [expecting : Nat, received : Nat, wire : Nat]
    OBVIOUS
  <2>2. udp_work \in [Works -> {"idle", "timer", "queued"}]
    OBVIOUS
  <2> QED BY <2>1, <2>2 DEF EchoTypes
<1>2. NothingMissing /\ SendsAgain /\ Quiet
  BY DEF NothingMissing, SendsAgain, Quiet
<1> QED BY <1>1, <1>2

(* What is asked for, what has come, and what is under way.                 *)
Response == [expecting : Nat, received : Nat, wire : Nat]

(* A request's response is all under way.                                   *)
LEMMA SendTcp ==
  ASSUME send_tcp_data
  PROVE  tcp_data' \in Response /\ tcp_data'.expecting = tcp_data'.received + tcp_data'.wire
<1>1. PICK n \in 1 .. TCP_LEN : tcp_data' = [expecting |-> n, received |-> 0, wire |-> n]
  BY DEF send_tcp_data
<1>2. n \in Nat
  BY EchoClientAssumption
<1> QED BY <1>1, <1>2 DEF Response

(* What main reads is missing no more, and never too much.                   *)
LEMMA ReadsResponse ==
  ASSUME EchoInv, echo_main.at = "poll", process_tcp_data
  PROVE  /\ tcp_data' \in Response /\ tcp_data'.expecting = tcp_data'.received + tcp_data'.wire
         /\ \E at \in {"udp", "next"}, ret \in {"ok", "error"} :
              echo_main' = [at |-> at, ret |-> ret, got |-> echo_main.got]
<1>1. tcp_data \in Response /\ tcp_data.expecting = tcp_data.received + tcp_data.wire
  BY DEF EchoInv, EchoTypes, NothingMissing, Session, Response
<1>2. echo_main = [at |-> echo_main.at, ret |-> echo_main.ret, got |-> echo_main.got] /\ echo_main.ret \in {"ok", "error"}
  BY DEF EchoInv, EchoTypes
<1>3. CASE echo_main' = [echo_main EXCEPT !.at = "next", !.ret = "error"] /\ UNCHANGED tcp_data
  <2>1. echo_main' = [at |-> "next", ret |-> "error", got |-> echo_main.got]
    BY <1>2, <1>3
  <2> QED BY <1>1, <1>3, <2>1
<1>4. ASSUME NEW n \in 0 .. tcp_data.wire, tcp_data.received + n < tcp_data.expecting,
             tcp_data' = [tcp_data EXCEPT !.received = tcp_data.received + n, !.wire = @ - n],
             echo_main' = [echo_main EXCEPT !.at = "udp"]
      PROVE  /\ tcp_data' \in Response /\ tcp_data'.expecting = tcp_data'.received + tcp_data'.wire
             /\ echo_main' = [at |-> "udp", ret |-> echo_main.ret, got |-> echo_main.got]
  <2>1. tcp_data' = [expecting |-> tcp_data.expecting, received |-> tcp_data.received + n, wire |-> tcp_data.wire - n]
    BY <1>1, <1>4 DEF Response
  <2> QED BY <1>1, <1>2, <1>4, <2>1 DEF Response
<1>5. ASSUME send_tcp_data, echo_main' = [echo_main EXCEPT !.at = "udp"]
      PROVE  /\ tcp_data' \in Response /\ tcp_data'.expecting = tcp_data'.received + tcp_data'.wire
             /\ echo_main' = [at |-> "udp", ret |-> echo_main.ret, got |-> echo_main.got]
  BY <1>2, <1>5, SendTcp
<1>6. ASSUME NEW n \in 0 .. tcp_data.wire
      PROVE  ~ (tcp_data.received + n > tcp_data.expecting)
  BY <1>1 DEF Response
<1>7. \/ echo_main' = [echo_main EXCEPT !.at = "next", !.ret = "error"] /\ UNCHANGED tcp_data
      \/ send_tcp_data /\ echo_main' = [echo_main EXCEPT !.at = "udp"]
      \/ \E n \in 0 .. tcp_data.wire :
           /\ tcp_data.received + n < tcp_data.expecting
           /\ tcp_data' = [tcp_data EXCEPT !.received = tcp_data.received + n, !.wire = @ - n]
           /\ echo_main' = [echo_main EXCEPT !.at = "udp"]
  <2> DEFINE tooMuch == echo_main' = [echo_main EXCEPT !.at = "next", !.ret = "too much"] /\ UNCHANGED tcp_data
             failed == echo_main' = [echo_main EXCEPT !.at = "next", !.ret = "error"] /\ UNCHANGED tcp_data
             complete == send_tcp_data /\ echo_main' = [echo_main EXCEPT !.at = "udp"]
             part(n) == /\ tcp_data' = [tcp_data EXCEPT !.received = tcp_data.received + n, !.wire = @ - n]
                        /\ echo_main' = [echo_main EXCEPT !.at = "udp"]
             less(n) == tcp_data.received + n < tcp_data.expecting
             equal(n) == tcp_data.received + n = tcp_data.expecting
             greater(n) == tcp_data.received + n > tcp_data.expecting
  <2>1. ASSUME NEW n \in 0 .. tcp_data.wire
        PROVE  (less(n) \/ equal(n)) /\ ~ greater(n)
    BY <1>1, <1>6 DEF Response
  <2>2. \/ failed
        \/ \E n \in 0 .. tcp_data.wire :
             CASE less(n) -> part(n) [] equal(n) -> complete [] greater(n) -> tooMuch
    BY DEF process_tcp_data
  <2> HIDE DEF tooMuch, failed, complete, part, less, equal, greater
  <2>3. failed \/ complete \/ \E n \in 0 .. tcp_data.wire : less(n) /\ part(n)
    BY ONLY <2>1, <2>2, Zenon
  <2> QED BY <2>3 DEF failed, complete, part, less
<1> QED BY <1>2, <1>3, <1>4, <1>5, <1>7

LEMMA EchoKeeps == EchoInv /\ EchoClientNext => EchoInv'
<1> SUFFICES ASSUME EchoInv, EchoClientNext PROVE EchoTypes' /\ NothingMissing' /\ SendsAgain' /\ Quiet'
  BY DEF EchoInv
<1> USE EchoClientAssumption DEF EchoInv, EchoTypes, Session, Works, udpVars
<1>1. CASE \E w \in Works : UdpExpires(w)
  <2>1. EchoTypes'
    BY <1>1 DEF UdpExpires
  <2>2. NothingMissing'
    BY <1>1 DEF NothingMissing, UdpExpires
  <2>3. SendsAgain'
    BY <1>1 DEF SendsAgain, UdpExpires
  <2>4. Quiet'
    BY <1>1 DEF Quiet, UdpExpires
  <2> QED BY <2>1, <2>2, <2>3, <2>4
<1>2. CASE \E w \in Works : wait_reply(w)
  <2>1. EchoTypes'
    BY <1>2 DEF wait_reply, Cancel
  <2>2. NothingMissing'
    BY <1>2 DEF NothingMissing, wait_reply, Cancel
  <2>3. SendsAgain'
    BY <1>2 DEF SendsAgain, wait_reply, Cancel
  <2>4. Quiet'
    BY <1>2 DEF Quiet, wait_reply, Cancel
  <2> QED BY <2>1, <2>2, <2>3, <2>4
<1>3. CASE send_udp_data_ends
  <2>1. EchoTypes'
    BY <1>3 DEF send_udp_data_ends
  <2>2. NothingMissing'
    BY <1>3 DEF NothingMissing, send_udp_data_ends
  <2>3. SendsAgain'
    BY <1>3 DEF SendsAgain, send_udp_data_ends
  <2>4. Quiet'
    BY <1>3 DEF Quiet, send_udp_data_ends
  <2> QED BY <2>1, <2>2, <2>3, <2>4
<1>4. CASE AnswerComes
  <2>1. EchoTypes'
    BY <1>4 DEF AnswerComes
  <2>2. NothingMissing'
    BY <1>4 DEF NothingMissing, AnswerComes
  <2>3. SendsAgain'
    BY <1>4 DEF SendsAgain, AnswerComes
  <2>4. Quiet'
    BY <1>4 DEF Quiet, AnswerComes
  <2> QED BY <2>1, <2>2, <2>3, <2>4
<1>5. CASE process_udp_recv
  <2>1. EchoTypes'
    BY <1>5 DEF process_udp_recv
  <2>2. NothingMissing'
    BY <1>5 DEF NothingMissing, process_udp_recv
  <2>3. SendsAgain'
    BY <1>5 DEF SendsAgain, process_udp_recv
  <2>4. Quiet'
    BY <1>5 DEF Quiet, process_udp_recv
  <2> QED BY <2>1, <2>2, <2>3, <2>4
<1>6. CASE compare_udp_data
  <2>1. EchoTypes'
    BY <1>6 DEF compare_udp_data, Cancel
  <2>2. NothingMissing'
    BY <1>6 DEF NothingMissing, compare_udp_data, Cancel
  <2>3. SendsAgain'
    BY <1>6 DEF SendsAgain, compare_udp_data, Cancel
  <2>4. Quiet'
    BY <1>6 DEF Quiet, compare_udp_data, Cancel
  <2> QED BY <2>1, <2>2, <2>3, <2>4
<1>7. CASE process_udp_transmit
  <2>1. EchoTypes'
    BY <1>7 DEF process_udp_transmit
  <2>2. NothingMissing'
    BY <1>7 DEF NothingMissing, process_udp_transmit
  <2>3. SendsAgain'
    BY <1>7 DEF SendsAgain, process_udp_transmit
  <2>4. Quiet'
    BY <1>7 DEF Quiet, process_udp_transmit
  <2> QED BY <2>1, <2>2, <2>3, <2>4
<1>8. CASE link_event
  <2>1. EchoTypes'
    BY <1>8 DEF link_event, Stopped
  <2>2. NothingMissing'
    BY <1>8 DEF NothingMissing, link_event, Stopped
  <2>3. SendsAgain'
    BY <1>8 DEF SendsAgain, link_event, Stopped
  <2>4. Quiet'
    BY <1>8 DEF Quiet, link_event, Stopped
  <2> QED BY <2>1, <2>2, <2>3, <2>4
<1>9. CASE start_tcp
  <2>1. EchoTypes'
    BY <1>9, SendTcp DEF Response, start_tcp, StartFails
  <2>2. NothingMissing'
    BY <1>9, SendTcp DEF NothingMissing, start_tcp, StartFails
  <2>3. SendsAgain'
    BY <1>9 DEF SendsAgain, start_tcp, send_tcp_data, StartFails
  <2>4. Quiet'
    BY <1>9 DEF Quiet, start_tcp, send_tcp_data, StartFails
  <2> QED BY <2>1, <2>2, <2>3, <2>4
<1>10. CASE start_udp
  <2>1. EchoTypes'
    BY <1>10 DEF start_udp, StartFails
  <2>2. NothingMissing'
    BY <1>10 DEF NothingMissing, start_udp, StartFails
  <2>3. SendsAgain'
    BY <1>10 DEF SendsAgain, start_udp, StartFails
  <2>4. Quiet'
    BY <1>10 DEF Quiet, start_udp, StartFails
  <2> QED BY <2>1, <2>2, <2>3, <2>4
<1>11. CASE prepare_fds
  <2>1. EchoTypes'
    BY <1>11 DEF prepare_fds, StartFails
  <2>2. NothingMissing'
    BY <1>11 DEF NothingMissing, prepare_fds, StartFails
  <2>3. SendsAgain'
    BY <1>11 DEF SendsAgain, prepare_fds, StartFails
  <2>4. Quiet'
    BY <1>11 DEF Quiet, prepare_fds, StartFails
  <2> QED BY <2>1, <2>2, <2>3, <2>4
<1>12. CASE main_loop
  <2>1. EchoTypes'
    BY <1>12 DEF main_loop
  <2>2. NothingMissing'
    BY <1>12 DEF NothingMissing, main_loop
  <2>3. SendsAgain'
    BY <1>12 DEF SendsAgain, main_loop
  <2>4. Quiet'
    BY <1>12 DEF Quiet, main_loop
  <2> QED BY <2>1, <2>2, <2>3, <2>4
<1>13. CASE run_udp_and_tcp
  <2>1. PICK at \in {"udp", "next"}, ret \in {"ok", "error"} :
          echo_main' = [at |-> at, ret |-> ret, got |-> echo_main.got]
    BY <1>13, ReadsResponse DEF run_udp_and_tcp
  <2>2. /\ tcp_data' \in Response /\ tcp_data'.expecting = tcp_data'.received + tcp_data'.wire
        /\ echo_main.at = "poll" /\ UNCHANGED <<nfds, udp_work, workq, restless>>
    BY <1>13, ReadsResponse DEF run_udp_and_tcp
  <2>3. EchoTypes'
    BY <2>1, <2>2 DEF Response
  <2>4. NothingMissing' /\ SendsAgain' /\ Quiet'
    BY <2>1, <2>2 DEF NothingMissing, SendsAgain, Quiet
  <2> QED BY <2>3, <2>4
<1>14. CASE NextRound
  <2>1. EchoTypes'
    BY <1>14 DEF NextRound
  <2>2. NothingMissing'
    BY <1>14 DEF NothingMissing, NextRound
  <2>3. SendsAgain'
    BY <1>14 DEF SendsAgain, NextRound
  <2>4. Quiet'
    BY <1>14 DEF Quiet, NextRound
  <2> QED BY <2>1, <2>2, <2>3, <2>4
<1>15. CASE stop_cancels_recv
  <2>1. EchoTypes'
    BY <1>15 DEF stop_cancels_recv, Cancel
  <2>2. NothingMissing'
    BY <1>15 DEF NothingMissing, stop_cancels_recv, Cancel
  <2>3. SendsAgain'
    BY <1>15 DEF SendsAgain, stop_cancels_recv, Cancel
  <2>4. Quiet'
    BY <1>15 DEF Quiet, stop_cancels_recv, Cancel
  <2> QED BY <2>1, <2>2, <2>3, <2>4
<1>16. CASE stop_udp_and_tcp
  <2>1. EchoTypes'
    BY <1>16 DEF stop_udp_and_tcp, Cancel, Stopped
  <2>2. NothingMissing'
    BY <1>16 DEF NothingMissing, stop_udp_and_tcp, Cancel, Stopped
  <2>3. SendsAgain'
    BY <1>16 DEF SendsAgain, stop_udp_and_tcp, Cancel, Stopped
  <2>4. Quiet'
    BY <1>16 DEF Quiet, stop_udp_and_tcp, Cancel, Stopped
  <2> QED BY <2>1, <2>2, <2>3, <2>4
<1> QED BY <1>1, <1>2, <1>3, <1>4, <1>5, <1>6, <1>7, <1>8,
           <1>9, <1>10, <1>11, <1>12, <1>13, <1>14, <1>15, <1>16
       DEF EchoClientNext

-----------------------------------------------------------------------------
(* mqtt_publisher and google_iot_mqtt                                       *)

(* What the clients send; publish() and mqtt_ping() give an id and, in the    *)
(* history, a serial.                                                      *)
Requests ==
  [type : {"connect", "pub1", "puback"}]
    \cup [type : {"ping", "pub0", "pub1", "pub2"}, id : MESSAGE_IDS, serial : Nat]
    \cup [type : {"pubrel"}, id : MESSAGE_IDS]

(* What the broker sends.                                                   *)
Answers ==
  [type : {"connack"}, ok : BOOLEAN] \cup [type : {"pingresp", "puback", "pubcomp"}]
    \cup [type : {"pubrec"}, id : MESSAGE_IDS] \cup [type : {"publish"}, whole : BOOLEAN]

BrokerStates == [todo : Seq(Requests), inq : Seq(Answers), ids : SUBSET MESSAGE_IDS, closed : BOOLEAN]

Qos2States == [sent : Nat, delivered : SUBSET Nat, unanswered : SUBSET MESSAGE_IDS, clash : BOOLEAN]

ClientTypes ==
  /\ lib \in {"idle", "tcp", "connected"} /\ q_connected \in BOOLEAN /\ poll_nfds \in {0, 1}
  /\ broker \in BrokerStates /\ qos2 \in Qos2States

(* A release of id under way behind the i-th request and before the k-th.    *)
Released(todo, id, i, k) == \E j \in i + 1 .. k - 1 : todo[j].type = "pubrel" /\ todo[j].id = id

(* The messages of QoS 2 under way, and their serials.                       *)
Pub2(todo) == {k \in 1 .. Len(todo) : todo[k].type = "pub2"}

Serials(todo) == {todo[k].serial : k \in Pub2(todo)}

(* While no id is taken that waits for its answer: before a message comes to  *)
(* the broker the release of its id does, if the broker has it open or another *)
(* message of the id is ahead; and an id without a release on the way behind  *)
(* it still waits for its answer.                                           *)
ReleasedInTime(todo, ids, unanswered) ==
  /\ \A k \in Pub2(todo) :
       /\ todo[k].id \in ids => Released(todo, todo[k].id, 0, k)
       /\ \A i \in Pub2(todo) : i < k /\ todo[i].id = todo[k].id => Released(todo, todo[k].id, i, k)
       /\ Released(todo, todo[k].id, k, Len(todo) + 1) \/ todo[k].id \in unanswered
  /\ \A id \in ids : Released(todo, id, 0, Len(todo) + 1) \/ id \in unanswered

(* Without a clash of ids every message has been delivered or is under way.   *)
DeliveredOnce(todo, ids, q) ==
  ~ q.clash =>
    /\ ReleasedInTime(todo, ids, q.unanswered)
    /\ q.delivered \cup Serials(todo) = 1 .. q.sent

(* The connection, whatever main does; before the CONNACK nothing of QoS 2 is  *)
(* under way.                                                               *)
ClientInv ==
  /\ ClientTypes /\ ConnectedAgrees
  /\ q_kind \in {"publisher", "google"} /\ (q_kind = "google" => poll_nfds = 0)
  /\ lib # "connected" => qos2 = NoQos2 /\ Pub2(broker.todo) = {}
  /\ DeliveredOnce(broker.todo, broker.ids, qos2)

(* The socket that main would lose if it connected now.                      *)
Held == IF lib = "idle" THEN 0 ELSE 1

(* Main: the publisher has closed its socket wherever it may connect, and an   *)
(* attempt of google loses one socket at most.                               *)
MainInv ==
  /\ q_count \in Nat /\ q_lost \in Nat
  /\ q_kind = "publisher" => q_lost = 0 /\ (q_at \notin {"connack", "check"} => lib # "tcp")
  /\ q_kind = "google" =>
       /\ q_lost <= G_RETRIES - q_count
       /\ q_at \in {"dhcp", "sntp"} => q_lost = 0 /\ lib = "idle"
       /\ q_at = "resolve" => q_lost + Held <= G_RETRIES - q_count /\ lib # "connected"
       /\ q_at = "await" => q_count > 0

MqttInv == ClientInv /\ MainInv

LEMMA RequestFields ==
  ASSUME NEW p \in Requests
  PROVE  /\ p.type \in {"connect", "pub1", "puback", "ping", "pub0", "pub2", "pubrel"}
         /\ p.type = "pub2" => p.id \in MESSAGE_IDS /\ p.serial \in Nat
         /\ p.type = "pubrel" => p.id \in MESSAGE_IDS
<1>1. CASE p \in [type : {"connect", "pub1", "puback"}]
  BY <1>1
<1>2. CASE p \in [type : {"ping", "pub0", "pub1", "pub2"}, id : MESSAGE_IDS, serial : Nat]
  BY <1>2
<1>3. CASE p \in [type : {"pubrel"}, id : MESSAGE_IDS]
  BY <1>3
<1> QED BY <1>1, <1>2, <1>3 DEF Requests

LEMMA Queued ==
  ASSUME NEW t \in Seq(Requests)
  PROVE  Len(t) \in Nat /\ (\A k \in 1 .. Len(t) : t[k] \in Requests) /\ Pub2(t) \subseteq 1 .. Len(t)
BY LenProperties, ElementOfSeq DEF Pub2

LEMMA QueuedLast ==
  ASSUME NEW t \in Seq(Requests), NEW p \in Requests
  PROVE  /\ Append(t, p) \in Seq(Requests) /\ Len(Append(t, p)) = Len(t) + 1
         /\ \A k \in 1 .. Len(t) : Append(t, p)[k] = t[k]
         /\ Append(t, p)[Len(t) + 1] = p
BY AppendProperties

LEMMA QueuedFirst ==
  ASSUME NEW t \in Seq(Requests), t # <<>>
  PROVE  /\ Tail(t) \in Seq(Requests) /\ Len(Tail(t)) = Len(t) - 1 /\ Len(t) > 0 /\ Len(t) \in Nat
         /\ \A k \in 1 .. Len(t) - 1 : Tail(t)[k] = t[k + 1]
         /\ Head(t) = t[1] /\ t[1] \in Requests
<1>1. Tail(t) \in Seq(Requests) /\ Len(Tail(t)) = Len(t) - 1 /\ \A k \in 1 .. Len(Tail(t)) : Tail(t)[k] = t[k + 1]
  BY HeadTailProperties
<1>2. Len(t) > 0 /\ Head(t) = t[1] /\ Len(t) \in Nat
  BY EmptySeq, LenProperties
<1>3. t[1] \in Requests
  BY <1>2, ElementOfSeq
<1> QED BY <1>1, <1>2, <1>3

LEMMA Pub2Last ==
  ASSUME NEW t \in Seq(Requests), NEW p \in Requests
  PROVE  /\ Pub2(Append(t, p)) = Pub2(t) \cup (IF p.type = "pub2" THEN {Len(t) + 1} ELSE {})
         /\ Serials(Append(t, p)) = Serials(t) \cup (IF p.type = "pub2" THEN {p.serial} ELSE {})
<1> DEFINE u == Append(t, p)
<1>1. Len(t) \in Nat /\ Len(u) = Len(t) + 1 /\ (\A k \in 1 .. Len(t) : u[k] = t[k]) /\ u[Len(t) + 1] = p
  BY Queued, QueuedLast
<1> HIDE DEF u
<1>2. Pub2(u) = Pub2(t) \cup (IF p.type = "pub2" THEN {Len(t) + 1} ELSE {})
  BY <1>1 DEF Pub2
<1>3. Pub2(t) \subseteq 1 .. Len(t)
  BY Queued
<1>4. Serials(u) = Serials(t) \cup (IF p.type = "pub2" THEN {p.serial} ELSE {})
  BY <1>1, <1>2, <1>3 DEF Serials
<1> QED BY <1>2, <1>4 DEF u

LEMMA Pub2First ==
  ASSUME NEW t \in Seq(Requests), t # <<>>
  PROVE  /\ \A k \in Pub2(Tail(t)) : k + 1 \in Pub2(t) /\ Tail(t)[k] = t[k + 1] /\ k \in 1 .. Len(t) - 1
         /\ t[1].type = "pub2" => 1 \in Pub2(t)
         /\ Serials(t) = Serials(Tail(t)) \cup (IF t[1].type = "pub2" THEN {t[1].serial} ELSE {})
<1> DEFINE u == Tail(t)
<1>1. Len(t) \in Nat /\ Len(t) > 0 /\ Len(u) = Len(t) - 1 /\ \A k \in 1 .. Len(t) - 1 : u[k] = t[k + 1]
  BY QueuedFirst
<1> HIDE DEF u
<1>2. \A k \in Pub2(u) : k + 1 \in Pub2(t) /\ u[k] = t[k + 1] /\ k \in 1 .. Len(t) - 1
  BY <1>1 DEF Pub2
<1>3. t[1].type = "pub2" => 1 \in Pub2(t)
  BY <1>1 DEF Pub2
<1>4. ASSUME NEW x PROVE x \in Serials(t) <=> x \in Serials(u) \/ (t[1].type = "pub2" /\ x = t[1].serial)
  <2>1. ASSUME x \in Serials(t) PROVE x \in Serials(u) \/ (t[1].type = "pub2" /\ x = t[1].serial)
    <3>1. PICK k \in Pub2(t) : x = t[k].serial
      BY <2>1 DEF Serials
    <3>2. k \in 1 .. Len(t) /\ t[k].type = "pub2"
      BY DEF Pub2
    <3>3. CASE k = 1
      BY <3>1, <3>2, <3>3
    <3>4. CASE k # 1
      <4>1. k - 1 \in 1 .. Len(t) - 1 /\ u[k - 1] = t[k]
        BY <1>1, <3>2, <3>4
      <4>2. k - 1 \in Pub2(u)
        BY <1>1, <3>2, <4>1 DEF Pub2
      <4> QED BY <3>1, <4>1, <4>2 DEF Serials
    <3> QED BY <3>3, <3>4
  <2>2. x \in Serials(u) => x \in Serials(t)
    BY <1>2 DEF Serials
  <2>3. t[1].type = "pub2" /\ x = t[1].serial => x \in Serials(t)
    BY <1>3 DEF Serials
  <2> QED BY <2>1, <2>2, <2>3
<1>5. Serials(t) = Serials(u) \cup (IF t[1].type = "pub2" THEN {t[1].serial} ELSE {})
  BY <1>4
<1> QED BY <1>2, <1>3, <1>5 DEF u

(* A request behind all others takes no release away, and may be one.        *)
LEMMA ReleasedLast ==
  ASSUME NEW t \in Seq(Requests), NEW p \in Requests, NEW id, NEW i \in Nat
  PROVE  /\ \A k \in 1 .. Len(t) + 1 : Released(t, id, i, k) => Released(Append(t, p), id, i, k)
         /\ Released(t, id, i, Len(t) + 1) => Released(Append(t, p), id, i, Len(Append(t, p)) + 1)
         /\ p.type = "pubrel" /\ p.id = id /\ i <= Len(t) => Released(Append(t, p), id, i, Len(Append(t, p)) + 1)
<1> DEFINE u == Append(t, p)
<1>1. Len(t) \in Nat /\ Len(u) = Len(t) + 1 /\ (\A k \in 1 .. Len(t) : u[k] = t[k]) /\ u[Len(t) + 1] = p
  BY Queued, QueuedLast
<1> HIDE DEF u
<1>2. \A k \in 1 .. Len(t) + 1 : Released(t, id, i, k) => Released(u, id, i, k)
  BY <1>1 DEF Released
<1>3. Released(t, id, i, Len(t) + 1) => Released(u, id, i, Len(u) + 1)
  BY <1>1 DEF Released
<1>4. p.type = "pubrel" /\ p.id = id /\ i <= Len(t) => Released(u, id, i, Len(u) + 1)
  <2>1. i <= Len(t) => Len(t) + 1 \in i + 1 .. Len(u) + 1 - 1
    BY <1>1
  <2> QED BY <1>1, <2>1 DEF Released
<1> QED BY <1>2, <1>3, <1>4 DEF u

(* With the first request gone, a release is where it was, one place ahead.  *)
LEMMA ReleasedFirst ==
  ASSUME NEW t \in Seq(Requests), t # <<>>, NEW id, NEW i \in Nat, NEW k \in 1 .. Len(t), NEW i1, NEW k1,
         i1 = i + 1, k1 = k + 1, Released(t, id, i1, k1)
  PROVE  Released(Tail(t), id, i, k)
<1>1. Len(t) \in Nat /\ \A j \in 1 .. Len(t) - 1 : Tail(t)[j] = t[j + 1]
  BY QueuedFirst
<1>2. PICK j \in i + 1 + 1 .. k + 1 - 1 : t[j].type = "pubrel" /\ t[j].id = id
  BY DEF Released
<1>3. j - 1 \in i + 1 .. k - 1 /\ j - 1 \in 1 .. Len(t) - 1 /\ (j - 1) + 1 = j
  BY <1>1, <1>2
<1>4. Tail(t)[j - 1] = t[j]
  BY ONLY <1>1, <1>3
<1> QED BY <1>2, <1>3, <1>4 DEF Released

(* A release ahead is not the first request, or is it.                       *)
LEMMA ReleasedByFirst ==
  ASSUME NEW t \in Seq(Requests), t # <<>>, NEW id, NEW k \in 1 .. Len(t) + 1, Released(t, id, 0, k),
         ~ (t[1].type = "pubrel" /\ t[1].id = id)
  PROVE  Released(t, id, 1, k)
<1>1. PICK j \in 0 + 1 .. k - 1 : t[j].type = "pubrel" /\ t[j].id = id
  BY DEF Released
<1>2. Len(t) \in Nat
  BY QueuedFirst
<1>3. j \in 1 + 1 .. k - 1
  BY <1>1, <1>2
<1> QED BY <1>1, <1>3 DEF Released

LEMMA ServedInTime ==
  ASSUME NEW t \in Seq(Requests), t # <<>>, NEW ids, NEW unanswered, ReleasedInTime(t, ids, unanswered), NEW ids2,
         ids2 = (IF t[1].type = "pub2" THEN ids \cup {t[1].id} ELSE IF t[1].type = "pubrel" THEN ids \ {t[1].id} ELSE ids)
  PROVE  ReleasedInTime(Tail(t), ids2, unanswered) /\ (t[1].type = "pub2" => t[1].id \notin ids)
<1> DEFINE u == Tail(t)
<1>1. /\ Len(t) \in Nat /\ Len(t) > 0 /\ Len(u) = Len(t) - 1
      /\ \A k \in Pub2(u) : k + 1 \in Pub2(t) /\ u[k] = t[k + 1] /\ k \in 1 .. Len(t) - 1
      /\ t[1].type = "pub2" => 1 \in Pub2(t)
  BY QueuedFirst, Pub2First
<1>2. ASSUME NEW id, NEW i \in Nat, NEW k \in 1 .. Len(t), NEW i1, NEW k1, i1 = i + 1, k1 = k + 1, Released(t, id, i1, k1)
      PROVE  Released(u, id, i, k)
  BY <1>2, ReleasedFirst
<1>3. ASSUME NEW id, NEW k \in 1 .. Len(t) + 1, Released(t, id, 0, k), ~ (t[1].type = "pubrel" /\ t[1].id = id)
      PROVE  Released(t, id, 1, k)
  BY <1>3, ReleasedByFirst
<1>4. /\ \A k \in Pub2(t) : t[k].id \in ids => Released(t, t[k].id, 0, k)
      /\ \A k, i \in Pub2(t) : i < k /\ t[i].id = t[k].id => Released(t, t[k].id, i, k)
      /\ \A k \in Pub2(t) : Released(t, t[k].id, k, Len(t) + 1) \/ t[k].id \in unanswered
      /\ \A id \in ids : Released(t, id, 0, Len(t) + 1) \/ id \in unanswered
  BY DEF ReleasedInTime
<1> HIDE DEF u
<1>5. t[1].type = "pub2" => t[1].id \notin ids
  <2>1. ~ Released(t, t[1].id, 0, 1)
    BY DEF Released
  <2> QED BY ONLY <1>1, <1>4, <2>1
<1>6. ASSUME NEW k \in Pub2(u), u[k].id \in ids2
      PROVE  Released(u, u[k].id, 0, k)
  <2>1. PICK k1 : k1 = k + 1 /\ k1 \in Pub2(t) /\ u[k] = t[k1] /\ k1 \in 1 .. Len(t) + 1 /\ k \in 1 .. Len(t)
    BY <1>1
  <2>2. PICK id : id = u[k].id /\ id = t[k1].id
    BY <2>1
  <2>3. Released(t, id, 1, k1)
    <3>1. CASE id \in ids /\ ~ (t[1].type = "pubrel" /\ t[1].id = id)
      <4>1. Released(t, id, 0, k1)
        BY ONLY <1>4, <2>1, <2>2, <3>1
      <4> QED BY ONLY <1>3, <2>1, <3>1, <4>1
    <3>2. CASE t[1].type = "pub2" /\ t[1].id = id
      <4>1. 1 \in Pub2(t) /\ 1 < k1 /\ t[1].id = t[k1].id
        BY <1>1, <2>1, <2>2, <3>2
      <4> QED BY ONLY <1>4, <2>1, <2>2, <4>1
    <3> QED BY <1>6, <2>2, <3>1, <3>2
  <2>4. Released(u, id, 0, k)
    <3>1. 1 = 0 + 1 /\ 0 \in Nat
      OBVIOUS
    <3> QED BY ONLY <1>2, <2>1, <2>3, <3>1
  <2> QED BY <2>2, <2>4
<1>7. ASSUME NEW k \in Pub2(u), NEW i \in Pub2(u), i < k, u[i].id = u[k].id
      PROVE  Released(u, u[k].id, i, k)
  <2>1. PICK k1 : k1 = k + 1 /\ k1 \in Pub2(t) /\ u[k] = t[k1] /\ k \in 1 .. Len(t)
    BY <1>1
  <2>2. PICK i1 : i1 = i + 1 /\ i1 \in Pub2(t) /\ u[i] = t[i1] /\ i \in Nat
    BY <1>1
  <2>3. i1 < k1 /\ t[i1].id = t[k1].id
    BY <1>1, <1>7, <2>1, <2>2
  <2>4. Released(t, t[k1].id, i1, k1)
    BY ONLY <1>4, <2>1, <2>2, <2>3
  <2>5. Released(u, t[k1].id, i, k)
    BY ONLY <1>2, <2>1, <2>2, <2>4
  <2> QED BY ONLY <2>1, <2>5
<1>8. ASSUME NEW id, NEW i \in Nat, Released(t, id, i + 1, Len(t) + 1) \/ id \in unanswered
      PROVE  Released(u, id, i, Len(u) + 1) \/ id \in unanswered
  <2>1. PICK i1, k, k1 : i1 = i + 1 /\ k = Len(t) /\ k1 = k + 1
    OBVIOUS
  <2>2. k \in 1 .. Len(t) /\ Len(u) + 1 = k
    BY <1>1, <2>1
  <2>3. Released(t, id, i1, k1) \/ id \in unanswered
    BY ONLY <1>8, <2>1
  <2>4. Released(u, id, i, k) \/ id \in unanswered
    <3>1. i \in Nat
      OBVIOUS
    <3> QED BY ONLY <1>2, <2>1, <2>2, <2>3, <3>1
  <2> QED BY ONLY <2>2, <2>4
<1>9. ASSUME NEW k \in Pub2(u)
      PROVE  Released(u, u[k].id, k, Len(u) + 1) \/ u[k].id \in unanswered
  <2>1. k + 1 \in Pub2(t) /\ u[k] = t[k + 1] /\ k \in Nat
    BY <1>1
  <2>2. Released(t, u[k].id, k + 1, Len(t) + 1) \/ u[k].id \in unanswered
    BY ONLY <1>4, <2>1
  <2> QED BY ONLY <1>8, <2>1, <2>2
<1>10. ASSUME NEW id \in ids2
      PROVE  Released(u, id, 0, Len(u) + 1) \/ id \in unanswered
  <2>1. Released(t, id, 1, Len(t) + 1) \/ id \in unanswered
    <3>1. CASE id \in ids /\ ~ (t[1].type = "pubrel" /\ t[1].id = id)
      <4>1. PICK k : k = Len(t) + 1 /\ k \in 1 .. Len(t) + 1
        BY <1>1
      <4>2. Released(t, id, 0, k) \/ id \in unanswered
        BY ONLY <1>4, <3>1, <4>1
      <4>3. Released(t, id, 1, k) \/ id \in unanswered
        BY ONLY <1>3, <3>1, <4>1, <4>2
      <4> QED BY ONLY <4>1, <4>3
    <3>2. CASE t[1].type = "pub2" /\ t[1].id = id
      BY ONLY <1>1, <1>4, <3>2
    <3> QED BY <1>10, <3>1, <3>2
  <2>2. 1 = 0 + 1 /\ 0 \in Nat
    OBVIOUS
  <2>3. Released(t, id, 0 + 1, Len(t) + 1) \/ id \in unanswered
    BY <2>1
  <2> QED BY ONLY <1>8, <2>2, <2>3
<1>11. ReleasedInTime(u, ids2, unanswered)
  BY <1>6, <1>7, <1>9, <1>10 DEF ReleasedInTime
<1> QED BY <1>5, <1>11 DEF u

LEMMA SentInTime ==
  ASSUME NEW t \in Seq(Requests), NEW p \in Requests, NEW ids, NEW unanswered, ReleasedInTime(t, ids, unanswered),
         NEW unanswered2,
         \/ p.type = "pub2" /\ p.id \notin unanswered /\ unanswered2 = unanswered \cup {p.id}
         \/ p.type = "pubrel" /\ unanswered2 = unanswered \ {p.id}
         \/ p.type \notin {"pub2", "pubrel"} /\ unanswered2 = unanswered
  PROVE  ReleasedInTime(Append(t, p), ids, unanswered2)
<1> DEFINE u == Append(t, p)
<1>1. /\ Len(t) \in Nat /\ Len(u) = Len(t) + 1 /\ (\A k \in 1 .. Len(t) : u[k] = t[k]) /\ u[Len(t) + 1] = p
      /\ Pub2(u) = Pub2(t) \cup (IF p.type = "pub2" THEN {Len(t) + 1} ELSE {}) /\ Pub2(t) \subseteq 1 .. Len(t)
  BY Queued, QueuedLast, Pub2Last
<1>2. ASSUME NEW id, NEW i \in Nat, NEW k \in 1 .. Len(t) + 1, Released(t, id, i, k)
      PROVE  Released(u, id, i, k)
  BY <1>2, ReleasedLast
<1>3. ASSUME NEW id, NEW i \in Nat, i <= Len(t), Released(t, id, i, Len(t) + 1) \/ id \in unanswered
      PROVE  Released(u, id, i, Len(u) + 1) \/ id \in unanswered2
  <2>1. /\ Released(t, id, i, Len(t) + 1) => Released(u, id, i, Len(u) + 1)
        /\ p.type = "pubrel" /\ p.id = id /\ i <= Len(t) => Released(u, id, i, Len(u) + 1)
    BY ReleasedLast
  <2>2. id \in unanswered => id \in unanswered2 \/ (p.type = "pubrel" /\ p.id = id)
    OBVIOUS
  <2> QED BY ONLY <1>3, <2>1, <2>2
<1>4. /\ \A k \in Pub2(t) : t[k].id \in ids => Released(t, t[k].id, 0, k)
      /\ \A k, i \in Pub2(t) : i < k /\ t[i].id = t[k].id => Released(t, t[k].id, i, k)
      /\ \A k \in Pub2(t) : Released(t, t[k].id, k, Len(t) + 1) \/ t[k].id \in unanswered
      /\ \A id \in ids : Released(t, id, 0, Len(t) + 1) \/ id \in unanswered
  BY DEF ReleasedInTime
<1> HIDE DEF u
<1>5. 0 \in Nat /\ 0 <= Len(t)
  BY <1>1
<1>6. ASSUME NEW k \in Pub2(t)
      PROVE  /\ k \in 1 .. Len(t) /\ u[k] = t[k]
             /\ u[k].id \in ids => Released(u, u[k].id, 0, k)
             /\ \A i \in Pub2(t) : i < k /\ u[i].id = u[k].id => Released(u, u[k].id, i, k)
             /\ Released(u, u[k].id, k, Len(u) + 1) \/ u[k].id \in unanswered2
  <2>1. k \in 1 .. Len(t) /\ u[k] = t[k] /\ k \in Nat /\ k <= Len(t) /\ k \in 1 .. Len(t) + 1
    BY <1>1
  <2>2. u[k].id \in ids => Released(u, u[k].id, 0, k)
    BY ONLY <1>2, <1>4, <1>5, <1>6, <2>1
  <2>3. ASSUME NEW i \in Pub2(t), i < k, u[i].id = u[k].id PROVE Released(u, u[k].id, i, k)
    <3>1. i \in Nat /\ u[i] = t[i] /\ i \in Pub2(t)
      BY <1>1
    <3>2. Released(t, t[k].id, i, k)
      BY ONLY <1>4, <1>6, <2>1, <2>3, <3>1
    <3>3. Released(u, t[k].id, i, k)
      BY ONLY <1>2, <2>1, <3>1, <3>2
    <3> QED BY ONLY <2>1, <3>3
  <2>4. Released(t, t[k].id, k, Len(t) + 1) \/ t[k].id \in unanswered
    BY ONLY <1>4, <1>6
  <2>5. Released(u, t[k].id, k, Len(u) + 1) \/ t[k].id \in unanswered2
    BY ONLY <1>3, <2>1, <2>4
  <2> QED BY <2>1, <2>2, <2>3, <2>5
<1>7. ASSUME p.type = "pub2"
      PROVE  /\ p.id \in ids => Released(u, p.id, 0, Len(t) + 1)
             /\ \A i \in Pub2(t) : u[i].id = p.id => Released(u, p.id, i, Len(t) + 1)
             /\ p.id \in unanswered2
  <2>1. p.id \notin unanswered /\ p.id \in unanswered2 /\ Len(t) + 1 \in 1 .. Len(t) + 1
    BY <1>1, <1>7
  <2>2. ASSUME p.id \in ids PROVE Released(u, p.id, 0, Len(t) + 1)
    <3>1. Released(t, p.id, 0, Len(t) + 1)
      BY ONLY <1>4, <2>1, <2>2
    <3> QED BY ONLY <1>2, <1>5, <2>1, <3>1
  <2>3. ASSUME NEW i \in Pub2(t), u[i].id = p.id PROVE Released(u, p.id, i, Len(t) + 1)
    <3>1. i \in Nat /\ u[i] = t[i] /\ i \in Pub2(t)
      BY <1>1
    <3>2. Released(t, p.id, i, Len(t) + 1)
      BY ONLY <1>4, <2>1, <2>3, <3>1
    <3> QED BY ONLY <1>2, <2>1, <3>1, <3>2
  <2> QED BY <2>1, <2>2, <2>3
<1>8. ASSUME NEW k \in Pub2(u)
      PROVE  /\ u[k].id \in ids => Released(u, u[k].id, 0, k)
             /\ \A i \in Pub2(u) : i < k /\ u[i].id = u[k].id => Released(u, u[k].id, i, k)
             /\ Released(u, u[k].id, k, Len(u) + 1) \/ u[k].id \in unanswered2
  <2>1. \A i \in Pub2(u) : i < k => i \in Pub2(t)
    BY <1>1
  <2>2. CASE k \in Pub2(t)
    BY <1>6, <2>1, <2>2
  <2>3. CASE p.type = "pub2" /\ k = Len(t) + 1
    BY <1>1, <1>7, <2>1, <2>3
  <2> QED BY <1>1, <2>2, <2>3
<1>9. ASSUME NEW id \in ids PROVE Released(u, id, 0, Len(u) + 1) \/ id \in unanswered2
  <2>1. Released(t, id, 0, Len(t) + 1) \/ id \in unanswered
    BY ONLY <1>4, <1>9
  <2> QED BY ONLY <1>3, <1>5, <2>1
<1>10. ReleasedInTime(u, ids, unanswered2)
  BY <1>8, <1>9 DEF ReleasedInTime
<1> QED BY <1>10 DEF u

(* The broker delivers what the request at the head says, once per serial.   *)
LEMMA ServedOnce ==
  ASSUME NEW t \in Seq(Requests), t # <<>>, NEW ids, NEW q \in Qos2States, DeliveredOnce(t, ids, q), NEW ids2, NEW q2,
         ids2 = (IF t[1].type = "pub2" THEN ids \cup {t[1].id} ELSE IF t[1].type = "pubrel" THEN ids \ {t[1].id} ELSE ids),
         q2 = (IF t[1].type = "pub2" /\ t[1].id \notin ids
               THEN [q EXCEPT !.delivered = q.delivered \cup {t[1].serial}] ELSE q)
  PROVE  DeliveredOnce(Tail(t), ids2, q2) /\ q2 \in Qos2States
<1>1. t[1] \in Requests
  BY QueuedFirst
<1>2. t[1].type = "pub2" => t[1].id \in MESSAGE_IDS /\ t[1].serial \in Nat
  BY <1>1, RequestFields
<1>3. ASSUME NEW d \in SUBSET Nat
      PROVE  /\ [q EXCEPT !.delivered = d] \in Qos2States /\ [q EXCEPT !.delivered = d].delivered = d
             /\ [q EXCEPT !.delivered = d].sent = q.sent /\ [q EXCEPT !.delivered = d].unanswered = q.unanswered
             /\ [q EXCEPT !.delivered = d].clash = q.clash
  BY DEF Qos2States
<1>4. t[1].type = "pub2" => q.delivered \cup {t[1].serial} \in SUBSET Nat
  BY <1>2 DEF Qos2States
<1>5. /\ q2 \in Qos2States /\ q2.clash = q.clash /\ q2.sent = q.sent /\ q2.unanswered = q.unanswered
      /\ q2.delivered = IF t[1].type = "pub2" /\ t[1].id \notin ids THEN q.delivered \cup {t[1].serial} ELSE q.delivered
  BY <1>3, <1>4
<1>6. ASSUME ~ q.clash
      PROVE  ReleasedInTime(Tail(t), ids2, q.unanswered) /\ q2.delivered \cup Serials(Tail(t)) = 1 .. q.sent
  <2>1. ReleasedInTime(t, ids, q.unanswered) /\ q.delivered \cup Serials(t) = 1 .. q.sent
    BY <1>6 DEF DeliveredOnce
  <2>2. ReleasedInTime(Tail(t), ids2, q.unanswered) /\ (t[1].type = "pub2" => t[1].id \notin ids)
    BY <2>1, ServedInTime
  <2>3. Serials(t) = Serials(Tail(t)) \cup (IF t[1].type = "pub2" THEN {t[1].serial} ELSE {})
    BY Pub2First
  <2> QED BY ONLY <1>5, <2>1, <2>2, <2>3
<1> QED BY <1>5, <1>6 DEF DeliveredOnce

(* The client sends: a message of QoS 2, the release of one, something else.  *)
LEMMA SentOnce ==
  ASSUME NEW t \in Seq(Requests), NEW p \in Requests, NEW ids, NEW q \in Qos2States, DeliveredOnce(t, ids, q), NEW q2,
         \/ /\ p.type = "pub2" /\ p.serial = q.sent + 1
            /\ q2 = [sent |-> q.sent + 1, delivered |-> q.delivered, unanswered |-> q.unanswered \cup {p.id},
                     clash |-> q.clash \/ p.id \in q.unanswered]
         \/ p.type = "pubrel" /\ q2 = [q EXCEPT !.unanswered = q.unanswered \ {p.id}]
         \/ p.type \notin {"pub2", "pubrel"} /\ q2 = q
  PROVE  DeliveredOnce(Append(t, p), ids, q2) /\ q2 \in Qos2States
<1>1. p.type = "pub2" => p.id \in MESSAGE_IDS
  BY RequestFields
<1>2. /\ [q EXCEPT !.unanswered = q.unanswered \ {p.id}] \in Qos2States
      /\ [q EXCEPT !.unanswered = q.unanswered \ {p.id}].delivered = q.delivered
      /\ [q EXCEPT !.unanswered = q.unanswered \ {p.id}].sent = q.sent
      /\ [q EXCEPT !.unanswered = q.unanswered \ {p.id}].unanswered = q.unanswered \ {p.id}
      /\ [q EXCEPT !.unanswered = q.unanswered \ {p.id}].clash = q.clash
  BY DEF Qos2States
<1> DEFINE added == [sent |-> q.sent + 1, delivered |-> q.delivered, unanswered |-> q.unanswered \cup {p.id},
                    clash |-> q.clash \/ p.id \in q.unanswered]
<1>3. p.type = "pub2" => /\ added \in Qos2States /\ added.sent = q.sent + 1 /\ added.delivered = q.delivered
                         /\ added.unanswered = q.unanswered \cup {p.id} /\ (added.clash <=> q.clash \/ p.id \in q.unanswered)
  <2>1. p.id \in MESSAGE_IDS => added \in Qos2States
    BY DEF Qos2States
  <2>2. added.sent = q.sent + 1 /\ added.delivered = q.delivered /\ added.unanswered = q.unanswered \cup {p.id}
    BY DEF Qos2States
  <2>3. added.clash = (q.clash \/ p.id \in q.unanswered)
    BY Zenon
  <2> HIDE DEF added
  <2>4. added.clash <=> q.clash \/ p.id \in q.unanswered
    BY <2>3, Zenon
  <2> QED BY <1>1, <2>1, <2>2, <2>4
<1> HIDE DEF added
<1>4. /\ q2 \in Qos2States
      /\ \/ /\ p.type = "pub2" /\ p.serial = q.sent + 1
            /\ q2.sent = q.sent + 1 /\ q2.delivered = q.delivered /\ q2.unanswered = q.unanswered \cup {p.id}
            /\ q2.clash <=> q.clash \/ p.id \in q.unanswered
         \/ /\ p.type = "pubrel" /\ q2.sent = q.sent /\ q2.delivered = q.delivered
            /\ q2.unanswered = q.unanswered \ {p.id} /\ (q2.clash <=> q.clash)
         \/ /\ p.type \notin {"pub2", "pubrel"} /\ q2.sent = q.sent /\ q2.delivered = q.delivered
            /\ q2.unanswered = q.unanswered /\ (q2.clash <=> q.clash)
  <2>1. \/ p.type = "pub2" /\ p.serial = q.sent + 1 /\ q2 = added
        \/ p.type = "pubrel" /\ q2 = [q EXCEPT !.unanswered = q.unanswered \ {p.id}]
        \/ p.type \notin {"pub2", "pubrel"} /\ q2 = q
    BY DEF added
  <2> QED BY <1>2, <1>3, <2>1
<1>5. ASSUME ~ q2.clash
      PROVE  ReleasedInTime(Append(t, p), ids, q2.unanswered) /\ q2.delivered \cup Serials(Append(t, p)) = 1 .. q2.sent
  <2>1. /\ ~ q.clash /\ q2.delivered = q.delivered
        /\ q2.sent = (IF p.type = "pub2" THEN q.sent + 1 ELSE q.sent) /\ (p.type = "pub2" => p.serial = q.sent + 1)
    BY <1>4, <1>5
  <2>2. \/ p.type = "pub2" /\ p.id \notin q.unanswered /\ q2.unanswered = q.unanswered \cup {p.id}
        \/ p.type = "pubrel" /\ q2.unanswered = q.unanswered \ {p.id}
        \/ p.type \notin {"pub2", "pubrel"} /\ q2.unanswered = q.unanswered
    BY <1>4, <1>5
  <2>3. ReleasedInTime(t, ids, q.unanswered) /\ q.delivered \cup Serials(t) = 1 .. q.sent /\ q.sent \in Nat
    BY <2>1 DEF DeliveredOnce, Qos2States
  <2>4. ReleasedInTime(Append(t, p), ids, q2.unanswered)
    BY <2>2, <2>3, SentInTime
  <2>5. Serials(Append(t, p)) = Serials(t) \cup (IF p.type = "pub2" THEN {p.serial} ELSE {})
    BY Pub2Last
  <2> QED BY ONLY <2>1, <2>3, <2>4, <2>5
<1> QED BY <1>4, <1>5 DEF DeliveredOnce

LEMMA BrokerFields ==
  ASSUME NEW b \in BrokerStates
  PROVE  /\ b.todo \in Seq(Requests) /\ b.inq \in Seq(Answers) /\ b.ids \in SUBSET MESSAGE_IDS
         /\ \A t \in Seq(Requests) :
              /\ [b EXCEPT !.todo = t] \in BrokerStates /\ [b EXCEPT !.todo = t].todo = t
              /\ [b EXCEPT !.todo = t].ids = b.ids /\ [b EXCEPT !.todo = t].inq = b.inq
         /\ \A a \in Seq(Answers) :
              /\ [b EXCEPT !.inq = a] \in BrokerStates /\ [b EXCEPT !.inq = a].inq = a
              /\ [b EXCEPT !.inq = a].ids = b.ids /\ [b EXCEPT !.inq = a].todo = b.todo
         /\ \A t \in Seq(Requests), a \in Seq(Answers) :
              /\ [b EXCEPT !.todo = t, !.inq = a] \in BrokerStates /\ [b EXCEPT !.todo = t, !.inq = a].todo = t
              /\ [b EXCEPT !.todo = t, !.inq = a].ids = b.ids
         /\ \A i \in SUBSET MESSAGE_IDS :
              /\ [b EXCEPT !.ids = i] \in BrokerStates /\ [b EXCEPT !.ids = i].ids = i
              /\ [b EXCEPT !.ids = i].todo = b.todo
         /\ [b EXCEPT !.closed = TRUE] \in BrokerStates /\ [b EXCEPT !.closed = TRUE].ids = b.ids
         /\ [b EXCEPT !.closed = TRUE].todo = b.todo
<1>1. b.todo \in Seq(Requests) /\ b.inq \in Seq(Answers) /\ b.ids \in SUBSET MESSAGE_IDS
  BY DEF BrokerStates
<1>2. ASSUME NEW t \in Seq(Requests)
      PROVE  /\ [b EXCEPT !.todo = t] \in BrokerStates /\ [b EXCEPT !.todo = t].todo = t
             /\ [b EXCEPT !.todo = t].ids = b.ids /\ [b EXCEPT !.todo = t].inq = b.inq
  BY DEF BrokerStates
<1>3. ASSUME NEW a \in Seq(Answers)
      PROVE  /\ [b EXCEPT !.inq = a] \in BrokerStates /\ [b EXCEPT !.inq = a].inq = a
             /\ [b EXCEPT !.inq = a].ids = b.ids /\ [b EXCEPT !.inq = a].todo = b.todo
  BY DEF BrokerStates
<1>4. ASSUME NEW t \in Seq(Requests), NEW a \in Seq(Answers)
      PROVE  /\ [b EXCEPT !.todo = t, !.inq = a] \in BrokerStates /\ [b EXCEPT !.todo = t, !.inq = a].todo = t
             /\ [b EXCEPT !.todo = t, !.inq = a].ids = b.ids
  BY DEF BrokerStates
<1>5. ASSUME NEW i \in SUBSET MESSAGE_IDS
      PROVE  /\ [b EXCEPT !.ids = i] \in BrokerStates /\ [b EXCEPT !.ids = i].ids = i
             /\ [b EXCEPT !.ids = i].todo = b.todo
  BY DEF BrokerStates
<1>6. /\ [b EXCEPT !.closed = TRUE] \in BrokerStates /\ [b EXCEPT !.closed = TRUE].ids = b.ids
      /\ [b EXCEPT !.closed = TRUE].todo = b.todo
  BY DEF BrokerStates
<1> QED BY <1>1, <1>2, <1>3, <1>4, <1>5, <1>6

LEMMA Answered ==
  ASSUME NEW a \in Answers, broker \in BrokerStates, broker.todo # <<>>
  PROVE  /\ Answer(a) \in BrokerStates /\ Answer(a).todo = Tail(broker.todo) /\ Answer(a).ids = broker.ids
         /\ \A i \in SUBSET MESSAGE_IDS :
              /\ [Answer(a) EXCEPT !.ids = i] \in BrokerStates /\ [Answer(a) EXCEPT !.ids = i].ids = i
              /\ [Answer(a) EXCEPT !.ids = i].todo = Tail(broker.todo)
<1>1. Tail(broker.todo) \in Seq(Requests) /\ Append(broker.inq, a) \in Seq(Answers)
  BY BrokerFields, QueuedFirst, AppendProperties
<1>2. Answer(a) = [broker EXCEPT !.todo = Tail(broker.todo), !.inq = Append(broker.inq, a)]
  BY DEF Answer
<1>3. PICK t, q : t = Tail(broker.todo) /\ q = Append(broker.inq, a)
  OBVIOUS
<1>4. PICK b : b = [broker EXCEPT !.todo = t, !.inq = q]
  OBVIOUS
<1>5. t \in Seq(Requests) /\ q \in Seq(Answers) /\ broker \in BrokerStates
  BY <1>1, <1>3
<1>6. b \in BrokerStates /\ b.todo = t /\ b.ids = broker.ids
  BY ONLY <1>4, <1>5 DEF BrokerStates
<1>7. Answer(a) = b
  BY ONLY <1>2, <1>3, <1>4
<1>8. ASSUME NEW i \in SUBSET MESSAGE_IDS
      PROVE  /\ [b EXCEPT !.ids = i] \in BrokerStates /\ [b EXCEPT !.ids = i].ids = i
             /\ [b EXCEPT !.ids = i].todo = b.todo
  BY ONLY <1>6, <1>8, BrokerFields
<1> QED BY ONLY <1>3, <1>6, <1>7, <1>8

LEMMA BrokerServesKeeps == ASSUME ClientInv, BrokerServes PROVE ClientInv'
<1> DEFINE t == broker.todo
           p == t[1]
           isConnect == p.type = "connect"
           isPing == p.type = "ping"
           isQuiet == p.type \in {"pub0", "puback"}
           isPub1 == p.type = "pub1"
           isPub2 == p.type = "pub2"
           isPubrel == p.type = "pubrel"
           connect == \E ok \in BOOLEAN : broker' = Answer([type |-> "connack", ok |-> ok]) /\ UNCHANGED qos2
           ping == broker' = Answer([type |-> "pingresp"]) /\ UNCHANGED qos2
           quiet == broker' = [broker EXCEPT !.todo = Tail(@)] /\ UNCHANGED qos2
           pub1 == broker' = Answer([type |-> "puback"]) /\ UNCHANGED qos2
           pub2 == /\ broker' = [Answer([type |-> "pubrec", id |-> p.id]) EXCEPT !.ids = @ \union {p.id}]
                   /\ qos2' = IF p.id \in broker.ids THEN qos2 ELSE [qos2 EXCEPT !.delivered = @ \union {p.serial}]
           pubrel == /\ broker' = [Answer([type |-> "pubcomp"]) EXCEPT !.ids = @ \ {p.id}]
                     /\ UNCHANGED qos2
           ids2 == IF p.type = "pub2" THEN broker.ids \cup {p.id}
                   ELSE IF p.type = "pubrel" THEN broker.ids \ {p.id} ELSE broker.ids
           q2 == IF p.type = "pub2" /\ p.id \notin broker.ids
                 THEN [qos2 EXCEPT !.delivered = qos2.delivered \cup {p.serial}] ELSE qos2
           served == broker' \in BrokerStates /\ broker'.todo = Tail(t) /\ broker'.ids = ids2 /\ qos2' = q2
<1>1. /\ t \in Seq(Requests) /\ t # <<>> /\ p = Head(t) /\ p \in Requests /\ broker \in BrokerStates
      /\ broker.ids \in SUBSET MESSAGE_IDS /\ qos2 \in Qos2States
  BY QueuedFirst, BrokerFields DEF ClientInv, ClientTypes, BrokerServes
<1>2. /\ isConnect \/ isPing \/ isQuiet \/ isPub1 \/ isPub2 \/ isPubrel
      /\ isPub2 => p.id \in MESSAGE_IDS /\ p.serial \in Nat
      /\ isPubrel => p.id \in MESSAGE_IDS
  BY <1>1, RequestFields
<1>4. \/ (isConnect /\ connect) \/ (isPing /\ ping) \/ (isQuiet /\ quiet) \/ (isPub1 /\ pub1)
      \/ (isPub2 /\ pub2) \/ (isPubrel /\ pubrel)
  <2>1. (CASE isConnect -> connect [] isPing -> ping [] isQuiet -> quiet [] isPub1 -> pub1
           [] isPub2 -> pub2 [] isPubrel -> pubrel)
    BY <1>1 DEF BrokerServes
  <2>2. isConnect \/ isPing \/ isQuiet \/ isPub1 \/ isPub2 \/ isPubrel
    BY <1>2
  <2> HIDE DEF isConnect, isPing, isQuiet, isPub1, isPub2, isPubrel, connect, ping, quiet, pub1, pub2, pubrel
  <2> QED BY ONLY <2>1, <2>2, Zenon
<1>5. ASSUME NEW ok \in BOOLEAN PROVE [type |-> "connack", ok |-> ok] \in Answers
  BY DEF Answers
<1>6. [type |-> "pingresp"] \in Answers /\ [type |-> "puback"] \in Answers /\ [type |-> "pubcomp"] \in Answers
  BY DEF Answers
<1>7. isPub2 => [type |-> "pubrec", id |-> p.id] \in Answers
  BY <1>2 DEF Answers
<1>8. served
  <2>1. CASE isConnect /\ connect
    BY <1>1, <1>5, <2>1, Answered
  <2>2. CASE isPing /\ ping
    BY <1>1, <1>6, <2>2, Answered
  <2>3. CASE isQuiet /\ quiet
    <3>1. Tail(t) \in Seq(Requests)
      BY <1>1, QueuedFirst
    <3>2. PICK u : u = Tail(t)
      OBVIOUS
    <3>3. broker' = [broker EXCEPT !.todo = u] /\ u \in Seq(Requests) /\ broker \in BrokerStates
      BY <1>1, <2>3, <3>1, <3>2
    <3>4. broker' \in BrokerStates /\ broker'.todo = u /\ broker'.ids = broker.ids
      BY ONLY <3>3 DEF BrokerStates
    <3> QED BY <2>3, <3>2, <3>4
  <2>4. CASE isPub1 /\ pub1
    BY <1>1, <1>6, <2>4, Answered
  <2>5. CASE isPub2 /\ pub2
    <3>1. broker.ids \cup {p.id} \in SUBSET MESSAGE_IDS
      BY <1>1, <1>2, <2>5
    <3>2. PICK a, i : a = [type |-> "pubrec", id |-> p.id] /\ i = broker.ids \cup {p.id}
      OBVIOUS
    <3>3. a \in Answers /\ i \in SUBSET MESSAGE_IDS /\ broker \in BrokerStates /\ broker.todo # <<>>
      BY <1>1, <1>7, <2>5, <3>1, <3>2
    <3>4. /\ Answer(a).ids = broker.ids
          /\ [Answer(a) EXCEPT !.ids = i] \in BrokerStates /\ [Answer(a) EXCEPT !.ids = i].ids = i
          /\ [Answer(a) EXCEPT !.ids = i].todo = Tail(broker.todo)
      BY ONLY <3>3, Answered
    <3>5. broker' = [Answer(a) EXCEPT !.ids = i]
      BY <2>5, <3>2, <3>4
    <3>6. broker' \in BrokerStates /\ broker'.todo = Tail(t) /\ broker'.ids = ids2
      BY ONLY <2>5, <3>2, <3>4, <3>5
    <3>7. qos2' = q2
      BY <2>5
    <3> QED BY <3>6, <3>7
  <2>6. CASE isPubrel /\ pubrel
    <3>1. broker.ids \ {p.id} \in SUBSET MESSAGE_IDS
      BY <1>1
    <3>2. PICK a, i : a = [type |-> "pubcomp"] /\ i = broker.ids \ {p.id}
      OBVIOUS
    <3>3. a \in Answers /\ i \in SUBSET MESSAGE_IDS /\ broker \in BrokerStates /\ broker.todo # <<>>
      BY <1>1, <1>6, <2>6, <3>1, <3>2
    <3>4. /\ Answer(a).ids = broker.ids
          /\ [Answer(a) EXCEPT !.ids = i] \in BrokerStates /\ [Answer(a) EXCEPT !.ids = i].ids = i
          /\ [Answer(a) EXCEPT !.ids = i].todo = Tail(broker.todo)
      BY ONLY <3>3, Answered
    <3>5. broker' = [Answer(a) EXCEPT !.ids = i]
      BY <2>6, <3>2, <3>4
    <3>6. broker' \in BrokerStates /\ broker'.todo = Tail(t) /\ broker'.ids = ids2
      BY ONLY <2>6, <3>2, <3>4, <3>5
    <3>7. qos2' = q2
      BY <2>6
    <3> QED BY <3>6, <3>7
  <2> HIDE DEF isConnect, isPing, isQuiet, isPub1, isPub2, isPubrel, connect, ping, quiet, pub1, pub2, pubrel, served
  <2> QED BY ONLY <1>4, <2>1, <2>2, <2>3, <2>4, <2>5, <2>6
<1>9. /\ UNCHANGED <<q_kind, lib, q_connected, poll_nfds>>
      /\ DeliveredOnce(t, broker.ids, qos2) /\ (lib # "connected" => qos2 = NoQos2 /\ Pub2(t) = {})
  BY DEF BrokerServes, ClientInv
<1>10. PICK i, q : i = ids2 /\ q = q2
  OBVIOUS
<1>11. DeliveredOnce(Tail(t), i, q) /\ q \in Qos2States
  <2> HIDE DEF t
  <2> QED BY <1>1, <1>9, <1>10, ServedOnce
<1>12. lib # "connected" => qos2' = NoQos2 /\ Pub2(Tail(t)) = {}
  <2>1. /\ \A k \in Pub2(Tail(t)) : k + 1 \in Pub2(t)
        /\ p.type = "pub2" => 1 \in Pub2(t)
    BY <1>1, Pub2First
  <2> QED BY <1>8, <1>9, <2>1
<1> HIDE DEF t, p, ids2, q2
<1> QED BY <1>8, <1>9, <1>10, <1>11, <1>12 DEF ClientInv, ClientTypes, ConnectedAgrees

LEMMA NoBrokerFields ==
  /\ NoBroker \in BrokerStates /\ NoBroker.todo = <<>> /\ NoBroker.ids = {} /\ Pub2(<<>>) = {} /\ Serials(<<>>) = {}
  /\ NoQos2 \in Qos2States /\ DeliveredOnce(<<>>, {}, NoQos2)
<1>1. NoBroker \in BrokerStates /\ NoBroker.todo = <<>> /\ NoBroker.ids = {}
  BY DEF NoBroker, BrokerStates
<1>2. Pub2(<<>>) = {} /\ Serials(<<>>) = {}
  BY DEF Pub2, Serials
<1>3. NoQos2 \in Qos2States /\ NoQos2.sent = 0 /\ NoQos2.delivered = {}
  BY DEF NoQos2, Qos2States
<1>4. DeliveredOnce(<<>>, {}, NoQos2)
  BY <1>2, <1>3 DEF DeliveredOnce, ReleasedInTime
<1> QED BY <1>1, <1>2, <1>3, <1>4

(* An open connection with nothing but the CONNECT on its way.               *)
LEMMA Connecting ==
  LET b == [NoBroker EXCEPT !.todo = <<[type |-> "connect"]>>]
  IN b \in BrokerStates /\ Pub2(b.todo) = {} /\ DeliveredOnce(b.todo, b.ids, NoQos2)
<1> DEFINE t == <<[type |-> "connect"]>>
<1>1. [type |-> "connect"] \in Requests
  BY DEF Requests
<1>2. t \in Seq(Requests) /\ Len(t) = 1 /\ t[1] = [type |-> "connect"]
  BY <1>1
<1>3. [NoBroker EXCEPT !.todo = t] \in BrokerStates /\ [NoBroker EXCEPT !.todo = t].todo = t
      /\ [NoBroker EXCEPT !.todo = t].ids = {}
  <2>1. PICK b, u : b = NoBroker /\ u = t
    OBVIOUS
  <2>2. b \in BrokerStates /\ b.ids = {} /\ u \in Seq(Requests)
    BY <1>2, <2>1, NoBrokerFields
  <2>3. [b EXCEPT !.todo = u] \in BrokerStates /\ [b EXCEPT !.todo = u].todo = u /\ [b EXCEPT !.todo = u].ids = {}
    BY ONLY <2>2 DEF BrokerStates
  <2> QED BY ONLY <2>1, <2>3
<1>4. Pub2(t) = {}
  BY <1>2 DEF Pub2
<1> HIDE DEF t
<1>5. Serials(t) = {}
  BY <1>4 DEF Serials
<1>6. DeliveredOnce(t, {}, NoQos2)
  BY <1>4, <1>5, NoBrokerFields DEF DeliveredOnce, ReleasedInTime, NoQos2
<1> QED BY <1>3, <1>4, <1>6 DEF t

LEMMA KeptKeeps ==
  ASSUME ClientInv, broker' \in BrokerStates, broker'.todo = broker.todo, broker'.ids = broker.ids,
         UNCHANGED <<qos2, q_kind, poll_nfds>>, lib' \in {"idle", "tcp", "connected"}, q_connected' \in BOOLEAN,
         q_connected' <=> lib' = "connected", lib' = "idle" => lib = "idle", lib = "connected" => lib' = "connected"
  PROVE  ClientInv'
BY DEF ClientInv, ClientTypes, ConnectedAgrees

LEMMA SentKeeps ==
  ASSUME ClientInv, NEW p \in Requests, broker' \in BrokerStates, broker'.todo = Append(broker.todo, p),
         broker'.ids = broker.ids, UNCHANGED <<lib, q_connected, poll_nfds, q_kind>>,
         \/ /\ p.type = "pub2" /\ p.serial = qos2.sent + 1 /\ lib = "connected" /\ Publish2(p.id)
         \/ p.type = "pubrel" /\ qos2' = [qos2 EXCEPT !.unanswered = qos2.unanswered \ {p.id}]
         \/ p.type \notin {"pub2", "pubrel"} /\ qos2' = qos2
  PROVE  ClientInv'
<1> DEFINE t == broker.todo
<1>1. t \in Seq(Requests) /\ qos2 \in Qos2States /\ DeliveredOnce(t, broker.ids, qos2)
  BY BrokerFields DEF ClientInv, ClientTypes
<1> HIDE DEF t
<1>2. PICK q2 : q2 = qos2'
  OBVIOUS
<1>3. \/ /\ p.type = "pub2" /\ p.serial = qos2.sent + 1
         /\ q2 = [sent |-> qos2.sent + 1, delivered |-> qos2.delivered, unanswered |-> qos2.unanswered \cup {p.id},
                  clash |-> qos2.clash \/ p.id \in qos2.unanswered]
      \/ p.type = "pubrel" /\ q2 = [qos2 EXCEPT !.unanswered = qos2.unanswered \ {p.id}]
      \/ p.type \notin {"pub2", "pubrel"} /\ q2 = qos2
  <2>1. CASE p.type = "pub2" /\ p.serial = qos2.sent + 1 /\ lib = "connected" /\ Publish2(p.id)
    BY <1>2, <2>1, Zenon DEF Publish2
  <2>2. CASE p.type = "pubrel" /\ qos2' = [qos2 EXCEPT !.unanswered = qos2.unanswered \ {p.id}]
    BY <1>2, <2>2
  <2>3. CASE p.type \notin {"pub2", "pubrel"} /\ qos2' = qos2
    BY <1>2, <2>3
  <2> QED BY <2>1, <2>2, <2>3
<1>4. DeliveredOnce(Append(t, p), broker.ids, q2) /\ q2 \in Qos2States
  BY ONLY <1>1, <1>3, SentOnce, p \in Requests
<1>5. lib # "connected" => qos2' = NoQos2 /\ Pub2(Append(t, p)) = {}
  <2> SUFFICES ASSUME lib # "connected" PROVE qos2' = NoQos2 /\ Pub2(Append(t, p)) = {}
    OBVIOUS
  <2>1. qos2 = NoQos2 /\ Pub2(t) = {} /\ p.type # "pub2"
    BY DEF ClientInv, t
  <2>2. [NoQos2 EXCEPT !.unanswered = NoQos2.unanswered \ {p.id}] = NoQos2
    <3>1. PICK q : q = NoQos2
      OBVIOUS
    <3>2. q \in Qos2States /\ q.unanswered = {}
      BY <3>1, NoBrokerFields DEF NoQos2
    <3>3. [q EXCEPT !.unanswered = {}] = q /\ q.unanswered \ {p.id} = {}
      BY ONLY <3>2 DEF Qos2States
    <3> QED BY ONLY <3>1, <3>3
  <2>3. Pub2(Append(t, p)) = {}
    BY <1>1, <2>1, Pub2Last
  <2> QED BY <2>1, <2>2, <2>3
<1> QED BY <1>2, <1>4, <1>5 DEF ClientInv, ClientTypes, ConnectedAgrees, t

LEMMA DisconnectKeeps ==
  ASSUME ClientInv, Disconnect, UNCHANGED q_kind
  PROVE  ClientInv' /\ lib' = "idle" /\ ~ q_connected'
<1>1. /\ lib' = "idle" /\ broker' = NoBroker /\ qos2' = NoQos2 /\ q_connected' = FALSE
      /\ poll_nfds' = IF q_kind = "publisher" THEN 0 ELSE poll_nfds
  BY DEF Disconnect
<1>2. poll_nfds' = 0
  BY <1>1 DEF ClientInv
<1>3. ClientTypes' /\ ConnectedAgrees'
  <2>1. q_connected' \in BOOLEAN /\ ~ q_connected'
    BY <1>1
  <2>2. ClientTypes'
    BY ONLY <1>1, <1>2, <2>1, NoBrokerFields DEF ClientTypes
  <2>3. ConnectedAgrees'
    BY ONLY <1>1, <1>2, <2>1 DEF ConnectedAgrees
  <2> QED BY <2>2, <2>3
<1>4. DeliveredOnce(broker.todo, broker.ids, qos2)' /\ Pub2(broker.todo)' = {}
  BY <1>1, NoBrokerFields
<1> QED BY <1>1, <1>2, <1>3, <1>4 DEF ClientInv

LEMMA SendsKeeps ==
  ASSUME ClientInv, NEW p \in Requests, Sends(p), UNCHANGED q_kind,
         \/ p.type = "pub2" /\ p.serial = qos2.sent + 1 /\ lib = "connected" /\ Publish2(p.id)
         \/ p.type \notin {"pub2", "pubrel"} /\ UNCHANGED qos2
  PROVE  ClientInv'
<1>1. PICK t : t = Append(broker.todo, p)
  OBVIOUS
<1>2. broker \in BrokerStates /\ t \in Seq(Requests)
  BY <1>1, BrokerFields, QueuedLast DEF ClientInv, ClientTypes
<1>3. broker' = [broker EXCEPT !.todo = t] /\ UNCHANGED <<lib, q_connected, poll_nfds>>
  BY <1>1 DEF Sends
<1>4. broker' \in BrokerStates /\ broker'.todo = t /\ broker'.ids = broker.ids
  BY <1>2, <1>3 DEF BrokerStates
<1> QED BY <1>1, <1>3, <1>4, SentKeeps

LEMMA ClosesKeeps == ASSUME ClientInv, BrokerCloses PROVE ClientInv'
<1>1. broker' \in BrokerStates /\ broker'.todo = broker.todo /\ broker'.ids = broker.ids
  BY DEF BrokerCloses, ClientInv, ClientTypes, BrokerStates
<1> QED BY <1>1, KeptKeeps DEF BrokerCloses, ClientInv, ClientTypes, ConnectedAgrees

LEMMA PublishesKeeps == ASSUME ClientInv, BrokerPublishes PROVE ClientInv'
<1>1. PICK whole \in BOOLEAN : broker' = [broker EXCEPT !.inq = <<[type |-> "publish", whole |-> whole]>>]
  BY DEF BrokerPublishes
<1>2. PICK a : a = <<[type |-> "publish", whole |-> whole]>>
  OBVIOUS
<1>3. a \in Seq(Answers)
  BY <1>2 DEF Answers
<1>4. broker' = [broker EXCEPT !.inq = a] /\ broker \in BrokerStates
  BY <1>1, <1>2 DEF ClientInv, ClientTypes
<1>5. broker' \in BrokerStates /\ broker'.todo = broker.todo /\ broker'.ids = broker.ids
  BY ONLY <1>3, <1>4 DEF BrokerStates
<1> QED BY <1>5, KeptKeeps DEF BrokerPublishes, ClientInv, ClientTypes, ConnectedAgrees

LEMMA AnswerFields ==
  ASSUME NEW a \in Answers
  PROVE  /\ a.type \in {"connack", "pingresp", "puback", "pubcomp", "pubrec", "publish"}
         /\ a.type = "connack" => a.ok \in BOOLEAN
         /\ a.type = "pubrec" => a.id \in MESSAGE_IDS
<1>1. CASE a \in [type : {"connack"}, ok : BOOLEAN]
  BY <1>1
<1>2. CASE a \in [type : {"pingresp", "puback", "pubcomp"}]
  BY <1>2
<1>3. CASE a \in [type : {"pubrec"}, id : MESSAGE_IDS]
  BY <1>3
<1>4. CASE a \in [type : {"publish"}, whole : BOOLEAN]
  BY <1>4
<1> QED BY <1>1, <1>2, <1>3, <1>4 DEF Answers

(* An answer is read: the requests and the open ids stay.                    *)
LEMMA Taken ==
  ASSUME ClientInv, broker.inq # <<>>
  PROVE  LET rest == [broker EXCEPT !.inq = Tail(@)]
         IN /\ rest \in BrokerStates /\ rest.todo = broker.todo /\ rest.ids = broker.ids
            /\ Head(broker.inq) \in Answers
<1>1. broker \in BrokerStates /\ broker.inq \in Seq(Answers)
  BY BrokerFields DEF ClientInv, ClientTypes
<1>2. Tail(broker.inq) \in Seq(Answers) /\ Head(broker.inq) \in Answers
  BY <1>1, HeadTailProperties
<1>3. PICK a : a = Tail(broker.inq)
  OBVIOUS
<1>4. a \in Seq(Answers) /\ [broker EXCEPT !.inq = Tail(@)] = [broker EXCEPT !.inq = a]
  BY <1>2, <1>3
<1>5. /\ [broker EXCEPT !.inq = a] \in BrokerStates /\ [broker EXCEPT !.inq = a].todo = broker.todo
      /\ [broker EXCEPT !.inq = a].ids = broker.ids
  BY ONLY <1>1, <1>4 DEF BrokerStates
<1> QED BY <1>2, <1>4, <1>5

(* The client answers an answer, and keeps the rest of them.                *)
LEMMA SentBack ==
  ASSUME ClientInv, NEW p \in Requests, NEW rest \in BrokerStates, rest.todo = broker.todo, rest.ids = broker.ids,
         broker' = [rest EXCEPT !.todo = Append(@, p)]
  PROVE  broker' \in BrokerStates /\ broker'.todo = Append(broker.todo, p) /\ broker'.ids = broker.ids
<1>1. PICK t : t = Append(rest.todo, p)
  OBVIOUS
<1>2. t \in Seq(Requests) /\ t = Append(broker.todo, p)
  BY <1>1, BrokerFields, QueuedLast
<1>3. broker' = [rest EXCEPT !.todo = t]
  BY <1>1
<1>4. broker' \in BrokerStates /\ broker'.todo = t /\ broker'.ids = rest.ids
  BY ONLY <1>2, <1>3, rest \in BrokerStates DEF BrokerStates
<1> QED BY <1>2, <1>4

LEMMA InputKeeps ==
  ASSUME ClientInv, lib # "idle", mqtt_input, UNCHANGED q_kind
  PROVE  ClientInv' /\ lib' \in {lib, "connected", "idle"}
<1> DEFINE a == Head(broker.inq)
           rest == [broker EXCEPT !.inq = Tail(@)]
           p == [type |-> "pubrel", id |-> a.id]
           isConnack == a.type = "connack"
           isPubrec == a.type = "pubrec"
           isPuback == a.type = "puback"
           isPublish == a.type = "publish"
           connack == /\ broker' = rest
                      /\ lib' = IF a.ok THEN "connected" ELSE lib
                      /\ q_connected' = (q_connected \/ a.ok)
                      /\ UNCHANGED <<poll_nfds, message_id, qos2>>
           pubrec == Pubrel(rest) /\ UNCHANGED message_id
           puback == /\ broker' = rest
                     /\ message_id' = IF q_kind = "google" THEN (message_id + 1) % ID_MOD ELSE message_id
                     /\ UNCHANGED <<lib, q_connected, poll_nfds, qos2>>
           config == /\ broker' = [rest EXCEPT !.todo = Append(@, [type |-> "puback"])]
                      /\ UNCHANGED <<lib, q_connected, poll_nfds, message_id, qos2>>
           other == broker' = rest /\ UNCHANGED <<lib, q_connected, poll_nfds, message_id, qos2>>
           outcome == CASE isConnack -> connack [] isPubrec -> pubrec [] isPuback -> puback
                         [] isPublish -> config [] OTHER -> other
<1>1. CASE broker.inq = <<>>
  <2>1. Disconnect
    BY <1>1 DEF mqtt_input
  <2> QED BY <2>1, DisconnectKeeps
<1>2. CASE broker.inq # <<>>
  <2>1. outcome
    BY <1>2 DEF mqtt_input
  <2>2. (isConnack /\ connack) \/ (isPubrec /\ pubrec) \/ puback \/ config \/ other
    <3> HIDE DEF isConnack, isPubrec, isPuback, isPublish, connack, pubrec, puback, config, other
    <3> QED BY ONLY <2>1, Zenon
  <2>3. rest \in BrokerStates /\ rest.todo = broker.todo /\ rest.ids = broker.ids /\ a \in Answers
    BY <1>2, Taken
  <2>4. lib \in {"idle", "tcp", "connected"} /\ q_connected \in BOOLEAN /\ (q_connected <=> lib = "connected")
    BY DEF ClientInv, ClientTypes, ConnectedAgrees
  <2> HIDE DEF rest, a
  <2>5. CASE isConnack /\ connack
    <3>1. a.ok \in BOOLEAN
      BY <2>3, <2>5, AnswerFields
    <3>2. /\ lib' \in {lib, "connected"} /\ lib' \in {"idle", "tcp", "connected"}
          /\ (lib' = "connected" <=> lib = "connected" \/ a.ok)
      BY <2>4, <2>5
    <3>3. q_connected' \in BOOLEAN /\ (q_connected' <=> q_connected \/ a.ok)
      BY <2>4, <2>5, <3>1
    <3> QED BY <2>3, <2>4, <2>5, <3>2, <3>3, KeptKeeps
  <2>6. CASE puback \/ other
    BY <2>3, <2>4, <2>6, KeptKeeps
  <2>7. CASE config
    <3>1. PICK b : b = [type |-> "puback"]
      OBVIOUS
    <3>2. b \in Requests /\ b.type \notin {"pub2", "pubrel"}
      BY <3>1 DEF Requests
    <3>3. broker' = [rest EXCEPT !.todo = Append(@, b)]
      BY <2>7, <3>1
    <3>4. broker' \in BrokerStates /\ broker'.todo = Append(broker.todo, b) /\ broker'.ids = broker.ids
      BY ONLY <2>3, <3>2, <3>3, SentBack, ClientInv
    <3>5. UNCHANGED <<lib, q_connected, poll_nfds, q_kind>> /\ qos2' = qos2
      BY <2>7
    <3>6. ClientInv'
      BY ONLY <3>2, <3>4, <3>5, SentKeeps, ClientInv
    <3> QED BY <3>5, <3>6
  <2>8. CASE isPubrec /\ Pubrel(rest)
    <3>1. a.id \in MESSAGE_IDS
      BY <2>3, <2>8, AnswerFields
    <3>2. CASE Disconnect
      BY <3>2, DisconnectKeeps
    <3>3. CASE ~ Disconnect
      <4>1. PICK b, x : x = a.id /\ b = [type |-> "pubrel", id |-> x]
        OBVIOUS
      <4>2. b \in Requests /\ b.type = "pubrel" /\ b.id = x
        BY <3>1, <4>1 DEF Requests
      <4>3. /\ broker' = [rest EXCEPT !.todo = Append(@, b)]
            /\ qos2' = [qos2 EXCEPT !.unanswered = @ \ {x}]
            /\ UNCHANGED <<lib, q_connected, poll_nfds, q_kind>>
        BY <2>8, <3>3, <4>1 DEF Pubrel, a
      <4>4. broker' \in BrokerStates /\ broker'.todo = Append(broker.todo, b) /\ broker'.ids = broker.ids
        BY ONLY <2>3, <4>2, <4>3, SentBack, ClientInv
      <4>5. qos2' = [qos2 EXCEPT !.unanswered = qos2.unanswered \ {b.id}]
        BY <4>2, <4>3
      <4>6. ClientInv'
        BY ONLY <4>2, <4>3, <4>4, <4>5, SentKeeps, ClientInv
      <4> QED BY <4>3, <4>6
    <3> QED BY <3>2, <3>3
  <2> QED BY <2>2, <2>5, <2>6, <2>7, <2>8
<1> QED BY <1>1, <1>2

LEMMA MqttInitially == MqttInit => MqttInv
<1> SUFFICES ASSUME MqttInit PROVE MqttInv
  OBVIOUS
<1>1. /\ q_kind \in {"publisher", "google"} /\ q_count = 0 /\ lib = "idle" /\ q_connected = FALSE /\ poll_nfds = 0
      /\ broker = NoBroker /\ q_lost = 0 /\ qos2 = NoQos2 /\ q_at = IF q_kind = "publisher" THEN "try" ELSE "dhcp"
  BY DEF MqttInit
<1>2. q_connected \in BOOLEAN /\ ~ q_connected
  BY <1>1
<1>3. ClientTypes /\ ConnectedAgrees
  BY ONLY <1>1, <1>2, NoBrokerFields DEF ClientTypes, ConnectedAgrees
<1>4. DeliveredOnce(broker.todo, broker.ids, qos2) /\ Pub2(broker.todo) = {}
  BY <1>1, NoBrokerFields
<1>5. ClientInv
  BY <1>1, <1>3, <1>4 DEF ClientInv
<1>6. MainInv
  BY <1>1, MqttAssumption DEF MainInv
<1> QED BY <1>5, <1>6 DEF MqttInv

LEMMA ClientStands == ClientInv /\ UNCHANGED clientVars /\ UNCHANGED q_kind => ClientInv'
BY DEF ClientInv, ClientTypes, ConnectedAgrees, clientVars

LEMMA ConnectKeeps ==
  ASSUME ClientInv, lib # "connected", lib' = "tcp", broker' = [NoBroker EXCEPT !.todo = <<[type |-> "connect"]>>],
         poll_nfds' \in {0, 1}, q_kind = "google" => poll_nfds' = 0, UNCHANGED <<q_kind, q_connected, qos2>>
  PROVE  ClientInv'
<1>1. broker' \in BrokerStates /\ Pub2(broker'.todo) = {} /\ DeliveredOnce(broker'.todo, broker'.ids, NoQos2)
  BY Connecting
<1> QED BY <1>1 DEF ClientInv, ClientTypes, ConnectedAgrees

LEMMA PublisherKeeps == ASSUME MqttInv, q_kind = "publisher", PublisherNext PROVE MqttInv'
<1>1. /\ ClientInv /\ lib \in {"idle", "tcp", "connected"} /\ (q_connected <=> lib = "connected")
      /\ q_count \in Nat /\ q_lost = 0 /\ (q_at \notin {"connack", "check"} => lib # "tcp") /\ poll_nfds \in {0, 1}
  BY DEF MqttInv, MainInv, ClientInv, ClientTypes, ConnectedAgrees
<1>2. q_kind' = "publisher"
  BY DEF PublisherNext, client_connect, tried, await_connack, check_connack, publish_qos, process_mqtt_and_sleep,
         mqtt_disconnect, again, Unchanged
<1>3. ASSUME ClientInv', q_count' \in Nat, q_lost' = q_lost, q_at' \notin {"connack", "check"} => lib' # "tcp"
      PROVE  MqttInv'
  BY <1>1, <1>2, <1>3 DEF MqttInv, MainInv
<1>4. ASSUME UNCHANGED clientVars PROVE ClientInv' /\ lib' = lib
  BY <1>1, <1>2, <1>4, ClientStands DEF clientVars
<1>5. CASE client_connect
  <2>1. lib = "idle"
    BY <1>1, <1>5 DEF client_connect
  <2>2. ClientInv'
    <3>1. CASE UNCHANGED <<lib, poll_nfds, broker, q_at>>
      BY <1>2, <1>4, <1>5, <3>1 DEF client_connect, clientVars
    <3>2. CASE lib' = "tcp" /\ poll_nfds' = 1 /\ broker' = [NoBroker EXCEPT !.todo = <<[type |-> "connect"]>>]
      BY <1>1, <1>2, <1>5, <2>1, <3>2, ConnectKeeps DEF client_connect
    <3> QED BY <1>5, <3>1, <3>2 DEF client_connect
  <2> QED BY <1>1, <1>3, <1>5, <2>1, <2>2 DEF client_connect, Forget
<1>6. CASE tried
  BY <1>1, <1>3, <1>4, <1>6 DEF tried, Unchanged
<1>7. CASE await_connack
  <2>1. ClientInv'
    <3>1. CASE InputWaits /\ mqtt_input
      BY <1>1, <1>2, <3>1, InputKeeps DEF InputWaits
    <3>2. CASE UNCHANGED <<clientVars, message_id>>
      BY <1>4, <3>2
    <3> QED BY <1>7, <3>1, <3>2 DEF await_connack
  <2> QED BY <1>1, <1>3, <1>7, <2>1 DEF await_connack
<1>8. CASE check_connack
  <2>1. ClientInv' /\ lib' # "tcp"
    <3>1. CASE q_connected \/ lib = "idle"
      BY <1>1, <1>4, <1>8, <3>1 DEF check_connack
    <3>2. CASE ~ (q_connected \/ lib = "idle")
      BY <1>1, <1>2, <1>8, <3>2, DisconnectKeeps DEF check_connack
    <3> QED BY <3>1, <3>2
  <2> QED BY <1>1, <1>3, <1>8, <2>1 DEF check_connack, Unchanged
<1>9. CASE publish_qos
  <2>1. q_at \in {"ping", "pub0", "pub1", "pub2"} /\ q_count' \in Nat /\ q_lost' = q_lost /\ lib # "tcp"
    BY <1>1, <1>9 DEF publish_qos, Unchanged
  <2>2. CASE UNCHANGED clientVars
    BY <1>1, <1>3, <1>4, <2>1, <2>2
  <2>3. CASE Disconnect
    BY <1>1, <1>2, <1>3, <2>1, <2>3, DisconnectKeeps
  <2>4. ASSUME NEW id \in MESSAGE_IDS, lib = "connected", Sends([type |-> q_at, id |-> id, serial |-> qos2.sent + 1]),
               IF q_at = "pub2" THEN Publish2(id) ELSE UNCHANGED qos2
        PROVE  MqttInv'
    <3>1. PICK p : p = [type |-> q_at, id |-> id, serial |-> qos2.sent + 1]
      OBVIOUS
    <3>2. qos2.sent + 1 \in Nat
      BY <1>1 DEF ClientInv, ClientTypes, Qos2States
    <3>3. p \in Requests /\ p.type = q_at /\ p.id = id /\ p.serial = qos2.sent + 1
      BY <2>1, <3>1, <3>2 DEF Requests
    <3>4. Sends(p)
      BY <2>4, <3>1
    <3>5. \/ p.type = "pub2" /\ p.serial = qos2.sent + 1 /\ lib = "connected" /\ Publish2(p.id)
          \/ p.type \notin {"pub2", "pubrel"} /\ UNCHANGED qos2
      BY <2>1, <2>4, <3>3
    <3>6. ClientInv'
      BY <1>1, <1>2, <3>3, <3>4, <3>5, SendsKeeps
    <3>7. lib' = lib
      BY <2>4 DEF Sends
    <3> QED BY <1>3, <2>1, <3>6, <3>7
  <2>5. \/ UNCHANGED clientVars \/ Disconnect
        \/ \E id \in MESSAGE_IDS : /\ lib = "connected" /\ Sends([type |-> q_at, id |-> id, serial |-> qos2.sent + 1])
                                  /\ IF q_at = "pub2" THEN Publish2(id) ELSE UNCHANGED qos2
    BY <1>9 DEF publish_qos
  <2> QED BY <2>2, <2>3, <2>4, <2>5
<1>10. CASE process_mqtt_and_sleep
  <2>1. ClientInv' /\ lib' # "tcp"
    <3>1. CASE InputWaits /\ mqtt_input
      BY <1>1, <1>2, <1>10, <3>1, InputKeeps DEF InputWaits, process_mqtt_and_sleep
    <3>2. CASE UNCHANGED <<clientVars, message_id>>
      BY <1>1, <1>4, <1>10, <3>2 DEF process_mqtt_and_sleep
    <3> QED BY <1>10, <3>1, <3>2 DEF process_mqtt_and_sleep
  <2> QED BY <1>1, <1>3, <1>10, <2>1 DEF process_mqtt_and_sleep
<1>11. CASE mqtt_disconnect
  <2>1. ClientInv' /\ lib' # "tcp"
    <3>1. CASE lib = "connected"
      BY <1>1, <1>2, <1>11, <3>1, DisconnectKeeps DEF mqtt_disconnect
    <3>2. CASE lib # "connected"
      BY <1>1, <1>4, <1>11, <3>2 DEF mqtt_disconnect
    <3> QED BY <3>1, <3>2
  <2> QED BY <1>1, <1>3, <1>11, <2>1 DEF mqtt_disconnect, Unchanged
<1>12. CASE again
  BY <1>1, <1>3, <1>4, <1>12 DEF again, Unchanged
<1> QED BY <1>5, <1>6, <1>7, <1>8, <1>9, <1>10, <1>11, <1>12 DEF PublisherNext

LEMMA GoogleKeeps == ASSUME MqttInv, q_kind = "google", GoogleNext PROVE MqttInv'
<1>1. /\ ClientInv /\ lib \in {"idle", "tcp", "connected"} /\ (q_connected <=> lib = "connected")
      /\ q_count \in Nat /\ q_lost \in Nat /\ poll_nfds = 0
      /\ q_lost <= G_RETRIES - q_count
      /\ q_at \in {"dhcp", "sntp"} => q_lost = 0 /\ lib = "idle"
      /\ q_at = "resolve" => q_lost + Held <= G_RETRIES - q_count /\ lib # "connected"
      /\ q_at = "await" => q_count > 0
  BY DEF MqttInv, MainInv, ClientInv, ClientTypes, ConnectedAgrees
<1>2. q_kind' = "google" /\ G_RETRIES \in Nat
  BY MqttAssumption DEF GoogleNext, app_dhcpv4_startup, do_sntp, g_connect, g_await, g_aborted, g_publish, g_idle, Unchanged
<1>3. ASSUME ClientInv', q_count' \in Nat, q_lost' \in Nat, q_lost' <= G_RETRIES - q_count',
             q_at' \in {"dhcp", "sntp"} => q_lost' = 0 /\ lib' = "idle",
             q_at' = "resolve" => q_lost' + Held' <= G_RETRIES - q_count' /\ lib' # "connected",
             q_at' = "await" => q_count' > 0
      PROVE  MqttInv'
  BY <1>1, <1>2, <1>3 DEF MqttInv, MainInv
<1>4. ASSUME UNCHANGED clientVars PROVE ClientInv' /\ lib' = lib
  BY <1>1, <1>2, <1>4, ClientStands DEF clientVars
<1>5. CASE app_dhcpv4_startup
  BY <1>1, <1>3, <1>4, <1>5 DEF app_dhcpv4_startup, Unchanged
<1>6. CASE do_sntp
  BY <1>1, <1>2, <1>3, <1>4, <1>6 DEF do_sntp, Unchanged, Held
<1>7. CASE g_connect
  <2>1. q_at = "resolve" /\ q_count > 0 /\ (q_lost' = q_lost \/ q_lost' = q_lost + Held)
    BY <1>7 DEF g_connect, Forget, Held
  <2>2. CASE q_at' = "end" /\ UNCHANGED <<clientVars, q_count, q_lost>>
    BY <1>1, <1>3, <1>4, <2>2
  <2>3. CASE /\ Forget /\ lib' = "tcp" /\ q_at' = "await"
             /\ broker' = [NoBroker EXCEPT !.todo = <<[type |-> "connect"]>>]
             /\ UNCHANGED <<q_count, q_connected, poll_nfds, qos2>>
    <3>1. ClientInv'
      BY <1>1, <1>2, <2>1, <2>3, ConnectKeeps
    <3>2. q_lost' = q_lost + Held /\ Held \in {0, 1}
      BY <2>3 DEF Forget, Held
    <3> QED BY <1>1, <1>3, <2>1, <2>3, <3>1, <3>2
  <2>4. CASE /\ Forget /\ lib' = "idle" /\ broker' = NoBroker /\ q_count' = q_count - 1
             /\ UNCHANGED <<q_at, q_connected, poll_nfds, qos2>>
    <3>1. qos2' = NoQos2 /\ q_connected' = q_connected /\ q_connected \in BOOLEAN /\ ~ q_connected /\ lib' = "idle"
          /\ poll_nfds' = 0 /\ broker' = NoBroker
      BY <1>1, <2>1, <2>4 DEF ClientInv, ClientTypes
    <3>2. ClientTypes' /\ ConnectedAgrees'
      BY ONLY <3>1, NoBrokerFields DEF ClientTypes, ConnectedAgrees
    <3>3. DeliveredOnce(broker.todo, broker.ids, qos2)' /\ Pub2(broker.todo)' = {}
      BY ONLY <3>1, NoBrokerFields
    <3>4. ClientInv'
      BY <1>2, <3>1, <3>2, <3>3 DEF ClientInv
    <3>5. q_lost' = q_lost + Held /\ Held \in {0, 1} /\ Held' = 0
      BY <2>4 DEF Forget, Held
    <3> QED BY <1>1, <1>2, <1>3, <2>1, <2>4, <3>4, <3>5
  <2> QED BY <1>7, <2>2, <2>3, <2>4 DEF g_connect
<1>8. CASE g_await
  <2>1. ClientInv'
    <3>1. CASE InputWaits /\ mqtt_input
      BY <1>1, <1>2, <3>1, InputKeeps DEF InputWaits
    <3>2. CASE UNCHANGED <<clientVars, message_id>>
      BY <1>4, <3>2
    <3> QED BY <1>8, <3>1, <3>2 DEF g_await
  <2>2. Held' \in {0, 1} /\ (q_connected' <=> lib' = "connected")
    BY <2>1 DEF Held, ClientInv, ConnectedAgrees
  <2>3. q_at = "await" /\ q_lost' = q_lost
    BY <1>8 DEF g_await
  <2>4. CASE q_connected'
    BY <1>1, <1>3, <1>8, <2>1, <2>3, <2>4 DEF g_await
  <2>5. CASE ~ q_connected'
    <3>1. q_at' = "resolve" /\ q_count' = q_count - 1
      BY <1>8, <2>5 DEF g_await
    <3>2. lib' # "connected"
      BY <2>2, <2>5
    <3>3. /\ q_count > 0 /\ q_count \in Nat /\ q_lost \in Nat /\ q_lost <= G_RETRIES - q_count /\ G_RETRIES \in Nat
          /\ Held' \in {0, 1}
      BY <1>1, <1>2, <2>2, <2>3
    <3>4. q_count' \in Nat /\ q_lost' <= G_RETRIES - q_count' /\ q_lost' + Held' <= G_RETRIES - q_count' /\ q_lost' \in Nat
      <4>1. PICK h, g : h = Held' /\ g = G_RETRIES
        OBVIOUS
      <4>2. h \in 0 .. 1 /\ g \in Nat /\ q_lost <= g - q_count
        BY <3>3, <4>1
      <4>3. q_count - 1 \in Nat /\ q_lost <= g - (q_count - 1) /\ q_lost + h <= g - (q_count - 1)
        BY ONLY <3>3, <4>2
      <4> QED BY ONLY <2>3, <3>1, <3>3, <4>1, <4>3
    <3>5. q_at' \notin {"dhcp", "sntp", "await"}
      BY <3>1
    <3> QED BY ONLY <1>3, <2>1, <3>2, <3>4, <3>5
  <2> QED BY <2>4, <2>5
<1>9. CASE g_aborted
  BY <1>1, <1>3, <1>4, <1>9 DEF g_aborted, Unchanged
<1>10. CASE g_publish
  <2>1. q_count' = q_count /\ q_lost' = q_lost /\ q_at' \in {"end", "idle"}
    BY <1>10 DEF g_publish, Unchanged
  <2>2. ASSUME ClientInv' PROVE MqttInv'
    BY <1>1, <1>3, <2>1, <2>2
  <2>3. CASE UNCHANGED clientVars
    BY <1>4, <2>2, <2>3
  <2>4. CASE Disconnect
    BY <1>1, <1>2, <2>2, <2>4, DisconnectKeeps
  <2>5. CASE Sends([type |-> "pub1"]) /\ UNCHANGED qos2
    <3>1. PICK p : p = [type |-> "pub1"]
      OBVIOUS
    <3>2. p \in Requests /\ p.type = "pub1" /\ Sends(p)
      BY <2>5, <3>1 DEF Requests
    <3> QED BY <1>1, <1>2, <2>2, <2>5, <3>2, SendsKeeps
  <2> QED BY <1>10, <2>3, <2>4, <2>5 DEF g_publish
<1>11. CASE g_idle
  <2>1. q_count' = q_count /\ q_lost' = q_lost /\ q_at' \in {"wild", "idle", "publish"}
    BY <1>11 DEF g_idle
  <2>2. ClientInv'
    <3>1. CASE InputWaits /\ mqtt_input
      BY <1>1, <1>2, <3>1, InputKeeps DEF InputWaits
    <3>2. CASE UNCHANGED <<clientVars, message_id>>
      BY <1>4, <3>2
    <3> QED BY <1>11, <3>1, <3>2 DEF g_idle
  <2> QED BY <1>1, <1>3, <2>1, <2>2
<1> QED BY <1>5, <1>6, <1>7, <1>8, <1>9, <1>10, <1>11 DEF GoogleNext

LEMMA MqttKeeps == MqttInv /\ MqttNext => MqttInv'
<1> SUFFICES ASSUME MqttInv, MqttNext PROVE MqttInv'
  OBVIOUS
<1>1. ASSUME ClientInv', UNCHANGED <<q_kind, q_at, q_count, q_lost, lib>> PROVE MqttInv'
  BY <1>1 DEF MqttInv, MainInv, Held
<1>2. CASE BrokerServes
  BY <1>1, <1>2, BrokerServesKeeps DEF BrokerServes, MqttInv
<1>3. CASE BrokerCloses
  BY <1>1, <1>3, ClosesKeeps DEF BrokerCloses, MqttInv
<1>4. CASE BrokerPublishes
  BY <1>1, <1>4, PublishesKeeps DEF BrokerPublishes, MqttInv
<1> QED BY <1>2, <1>3, <1>4, PublisherKeeps, GoogleKeeps DEF MqttNext

LEMMA MqttInvAgrees == MqttInv => MqttAgrees
<1> SUFFICES ASSUME MqttInv PROVE MqttAgrees
  OBVIOUS
<1>1. ConnectedAgrees /\ q_kind \in {"publisher", "google"}
  BY DEF MqttInv, ClientInv
<1>2. SocketsKept
  BY <1>1, MqttAssumption DEF MqttInv, MainInv, SocketsKept
<1>3. Qos2Once
  <2> DEFINE t == broker.todo
             underWay == {p \in {t[k] : k \in DOMAIN t} : p.type = "pub2"}
  <2> SUFFICES ASSUME ~ qos2.clash PROVE qos2.delivered \cup {p.serial : p \in underWay} = 1 .. qos2.sent
    BY DEF Qos2Once
  <2>1. t \in Seq(Requests) /\ DeliveredOnce(t, broker.ids, qos2)
    BY BrokerFields DEF MqttInv, ClientInv, ClientTypes
  <2>2. DOMAIN t = 1 .. Len(t)
    BY <2>1, LenProperties
  <2>3. qos2.delivered \cup Serials(t) = 1 .. qos2.sent
    BY <2>1 DEF DeliveredOnce
  <2> HIDE DEF t
  <2>4. {p.serial : p \in underWay} = Serials(t)
    BY <2>2 DEF Serials, Pub2
  <2> QED BY <2>3, <2>4
<1> QED BY <1>1, <1>2, <1>3 DEF MqttAgrees

-----------------------------------------------------------------------------
(* mqtt_azure                                                               *)

(* Where main is once it has been connected, until it waits for the network. *)
Publishing == {"subscribe", "loop", "publish", "poll", "read", "submit", "publish_msg"}

(* Every place of main.                                                     *)
Places == Publishing \cup {"mqtt_start", "resolve", "connect", "wait", "input", "check", "abort", "returned"}

(* What the program keeps of the connection, and whether the library has it. *)
Client == [connected : BOOLEAN, nfds : Int, open : BOOLEAN]

AzureTypes ==
  /\ az \in [at : Places, retries : Int]
  /\ mqtt \in Client
  /\ sems \in [mqtt_start : {0, 1}, publish_msg : {0, 1}]
  /\ works \in [pub_message : BOOLEAN, check : BOOLEAN]
  /\ l4 \in [up : BOOLEAN, bound : BOOLEAN, events : Nat, at : {"idle", "abort", "aborting"}]
  /\ dropped \in BOOLEAN

(* What somebody has yet to do, or has done, for main to go on: an abort has  *)
(* given publish_msg before it cancels the work, and the network is then     *)
(* down; an end of the connection that is not the handler's own is told, and *)
(* what the program takes for connected the library has open.                *)
WakeUp ==
  /\ l4.at # "idle" => ~ l4.up /\ sems.publish_msg = 1
  /\ az.at = "publish_msg" => sems.publish_msg = 1 \/ works.pub_message
  /\ az.at = "mqtt_start" => ~ mqtt.connected
  /\ mqtt.connected => mqtt.open
  /\ az.at \in Publishing \cup {"mqtt_start"} /\ l4.up /\ ~ mqtt.connected =>
       sems.mqtt_start = 1 \/ works.check \/ dropped

AzureInv == AzureTypes /\ WakeUp

LEMMA ClientsTyped ==
  /\ NoConnection \in Client /\ ~ NoConnection.connected
  /\ [connected |-> FALSE, nfds |-> 1, open |-> TRUE] \in Client
  /\ \A m \in Client, b \in BOOLEAN : [m EXCEPT !.connected = b] \in Client
BY DEF Client, NoConnection

LEMMA StepTyped ==
  ASSUME AzureTypes, NEW from, NEW to \in Places, Step(from, to)
  PROVE  /\ az' \in [at : Places, retries : Int]
         /\ l4' \in [up : BOOLEAN, bound : BOOLEAN, events : Nat, at : {"idle", "abort", "aborting"}]
<1>1. az' \in [at : Places, retries : Int]
  BY DEF AzureTypes, Step
<1>2. l4' \in [up : BOOLEAN, bound : BOOLEAN, events : Nat, at : {"idle", "abort", "aborting"}]
  BY DEF AzureTypes, Step
<1> QED BY <1>1, <1>2

LEMMA AzureInitially == AzureInit => AzureInv
<1> SUFFICES ASSUME AzureInit PROVE AzureInv
  OBVIOUS
<1> USE DEF AzureInit, Publishing
<1>1. AzureTypes
  <2>1. az \in [at : Places, retries : Int]
    BY DEF Places
  <2>5. dropped \in BOOLEAN
    OBVIOUS
  <2>2. mqtt \in Client
    BY ClientsTyped
  <2>3. sems \in [mqtt_start : {0, 1}, publish_msg : {0, 1}] /\ works \in [pub_message : BOOLEAN, check : BOOLEAN]
    OBVIOUS
  <2>4. l4 \in [up : BOOLEAN, bound : BOOLEAN, events : Nat, at : {"idle", "abort", "aborting"}]
    OBVIOUS
  <2> QED BY <2>1, <2>2, <2>3, <2>4, <2>5 DEF AzureTypes
<1>2. WakeUp
  BY ClientsTyped DEF WakeUp
<1> QED BY <1>1, <1>2 DEF AzureInv

LEMMA AzureKeeps == AzureInv /\ AzureNext => AzureInv'
<1> SUFFICES ASSUME AzureInv, AzureNext PROVE AzureTypes' /\ WakeUp'
  BY DEF AzureInv
<1> USE DEF AzureInv, AzureTypes, Publishing
<1>1. CASE connect_to_cloud
  <2>1. AzureTypes'
    BY <1>1 DEF Places, connect_to_cloud, Step, Calls
  <2>2. WakeUp'
    BY <1>1 DEF Places, WakeUp, connect_to_cloud, Step, Calls
  <2> QED BY <2>1, <2>2
<1>2. CASE get_mqtt_broker_addrinfo
  <2>1. AzureTypes'
    <3>1. az' \in [at : Places, retries : Int] /\ dropped' \in BOOLEAN
      <4>1. PICK at \in {"connect", "returned"} : az' = [at |-> at, retries |-> RETRIES]
        BY <1>2 DEF get_mqtt_broker_addrinfo
      <4>2. RETRIES \in Int /\ at \in Places
        BY AzureAssumption DEF Places
      <4>3. az' \in [at : Places, retries : Int]
        BY ONLY <4>1, <4>2
      <4> QED BY <1>2, <4>3 DEF get_mqtt_broker_addrinfo
    <3>2. mqtt' \in Client
      BY <1>2, ClientsTyped DEF get_mqtt_broker_addrinfo
    <3>3. sems' \in [mqtt_start : {0, 1}, publish_msg : {0, 1}] /\ works' \in [pub_message : BOOLEAN, check : BOOLEAN]
      BY <1>2 DEF get_mqtt_broker_addrinfo
    <3>4. l4' \in [up : BOOLEAN, bound : BOOLEAN, events : Nat, at : {"idle", "abort", "aborting"}]
      BY <1>2 DEF get_mqtt_broker_addrinfo
    <3> QED BY <3>1, <3>2, <3>3, <3>4
  <2>2. WakeUp'
    BY <1>2 DEF Places, WakeUp, get_mqtt_broker_addrinfo
  <2> QED BY <2>1, <2>2
<1>3. CASE mqtt_connect
  <2>1. AzureTypes'
    <3>1. az' \in [at : Places, retries : Int] /\ dropped' \in BOOLEAN
      BY <1>3, ClientsTyped DEF Places, mqtt_connect
    <3>2. mqtt' \in Client
      BY <1>3, ClientsTyped DEF mqtt_connect
    <3>3. sems' \in [mqtt_start : {0, 1}, publish_msg : {0, 1}] /\ works' \in [pub_message : BOOLEAN, check : BOOLEAN]
      BY <1>3, ClientsTyped DEF mqtt_connect
    <3>4. l4' \in [up : BOOLEAN, bound : BOOLEAN, events : Nat, at : {"idle", "abort", "aborting"}]
      BY <1>3, ClientsTyped DEF mqtt_connect
    <3> QED BY <3>1, <3>2, <3>3, <3>4
  <2>2. WakeUp'
    BY <1>3, ClientsTyped DEF Places, WakeUp, mqtt_connect
  <2> QED BY <2>1, <2>2
<1>4. CASE connect_wait
  <2>1. AzureTypes'
    <3>1. \E to \in Places : Step("wait", to)
      BY <1>4 DEF connect_wait, Places
    <3>2. /\ az' \in [at : Places, retries : Int]
          /\ l4' \in [up : BOOLEAN, bound : BOOLEAN, events : Nat, at : {"idle", "abort", "aborting"}]
      BY <3>1, StepTyped
    <3>3. mqtt' \in Client /\ dropped' \in BOOLEAN /\ UNCHANGED <<sems, works>>
      BY <1>4, ClientsTyped DEF connect_wait, Ends
    <3> QED BY <3>2, <3>3
  <2>2. WakeUp'
    BY <1>4, ClientsTyped DEF Places, WakeUp, connect_wait, Step, Calls, Ends
  <2> QED BY <2>1, <2>2
<1>5. CASE connect_input
  <2>1. AzureTypes'
    <3>1. az' \in [at : Places, retries : Int] /\ dropped' \in BOOLEAN
      BY <1>5, ClientsTyped DEF Places, connect_input, Step, Calls, Ends
    <3>2. mqtt' \in Client
      BY <1>5, ClientsTyped DEF connect_input, Step, Calls, Ends
    <3>3. sems' \in [mqtt_start : {0, 1}, publish_msg : {0, 1}] /\ works' \in [pub_message : BOOLEAN, check : BOOLEAN]
      BY <1>5, ClientsTyped DEF connect_input, Step, Calls, Ends
    <3>4. l4' \in [up : BOOLEAN, bound : BOOLEAN, events : Nat, at : {"idle", "abort", "aborting"}]
      BY <1>5, ClientsTyped DEF connect_input, Step, Calls, Ends
    <3> QED BY <3>1, <3>2, <3>3, <3>4
  <2>2. WakeUp'
    <3>1. /\ az.at = "input" /\ az'.at = "check" /\ UNCHANGED <<sems, works>>
          /\ l4.at # "idle" => ~ l4.up /\ sems.publish_msg = 1
          /\ l4'.up = l4.up /\ (l4.at = "idle" => l4'.at = "idle")
      BY <1>5 DEF WakeUp, connect_input, Step, Calls
    <3>2. mqtt'.connected => mqtt'.open
      BY <1>5, ClientsTyped DEF WakeUp, Client, connect_input, Ends
    <3> QED BY <3>1, <3>2 DEF WakeUp
  <2> QED BY <2>1, <2>2
<1>6. CASE connect_check
  <2>1. AzureTypes'
    BY <1>6 DEF Places, connect_check, Step, Calls
  <2>2. WakeUp'
    BY <1>6 DEF Places, WakeUp, connect_check, Step, Calls
  <2> QED BY <2>1, <2>2
<1>7. CASE subscribe
  <2>1. AzureTypes'
    <3>1. az' \in [at : Places, retries : Int] /\ dropped' \in BOOLEAN
      BY <1>7, ClientsTyped DEF Places, subscribe, Step, Calls, Ends
    <3>2. mqtt' \in Client
      BY <1>7, ClientsTyped DEF subscribe, Step, Calls, Ends
    <3>3. sems' \in [mqtt_start : {0, 1}, publish_msg : {0, 1}] /\ works' \in [pub_message : BOOLEAN, check : BOOLEAN]
      BY <1>7, ClientsTyped DEF subscribe, Step, Calls, Ends
    <3>4. l4' \in [up : BOOLEAN, bound : BOOLEAN, events : Nat, at : {"idle", "abort", "aborting"}]
      BY <1>7, ClientsTyped DEF subscribe, Step, Calls, Ends
    <3> QED BY <3>1, <3>2, <3>3, <3>4
  <2>2. WakeUp'
    BY <1>7, ClientsTyped DEF Places, WakeUp, subscribe, Step, Calls, Ends
  <2> QED BY <2>1, <2>2
<1>8. CASE connect_abort
  <2>1. AzureTypes'
    BY <1>8, ClientsTyped DEF Places, connect_abort, Step, Calls
  <2>2. WakeUp'
    BY <1>8, ClientsTyped DEF Places, WakeUp, connect_abort, Step, Calls
  <2> QED BY <2>1, <2>2
<1>9. CASE publish_message
  <2>1. AzureTypes'
    BY <1>9 DEF Places, publish_message, Step, Calls
  <2>2. WakeUp'
    BY <1>9 DEF Places, WakeUp, publish_message, Step, Calls
  <2> QED BY <2>1, <2>2
<1>10. CASE publish
  <2>1. AzureTypes'
    <3>1. az' \in [at : Places, retries : Int] /\ dropped' \in BOOLEAN
      <4>1. \E to \in Places : Step("publish", to)
        BY <1>10 DEF publish, Places
      <4>2. az' \in [at : Places, retries : Int]
        BY <4>1, StepTyped
      <4>3. dropped' \in BOOLEAN
        BY <1>10 DEF publish, Ends
      <4> QED BY <4>2, <4>3
    <3>2. mqtt' \in Client
      BY <1>10, ClientsTyped DEF publish, Step, Calls, Ends
    <3>3. sems' \in [mqtt_start : {0, 1}, publish_msg : {0, 1}] /\ works' \in [pub_message : BOOLEAN, check : BOOLEAN]
      BY <1>10, ClientsTyped DEF publish, Step, Calls, Ends
    <3>4. l4' \in [up : BOOLEAN, bound : BOOLEAN, events : Nat, at : {"idle", "abort", "aborting"}]
      BY <1>10, ClientsTyped DEF publish, Step, Calls, Ends
    <3> QED BY <3>1, <3>2, <3>3, <3>4
  <2>2. WakeUp'
    BY <1>10, ClientsTyped DEF Places, WakeUp, publish, Step, Calls, Ends
  <2> QED BY <2>1, <2>2
<1>11. CASE publish_wait
  <2>1. AzureTypes'
    BY <1>11 DEF Places, publish_wait, Step, Calls
  <2>2. WakeUp'
    BY <1>11 DEF Places, WakeUp, publish_wait, Step, Calls
  <2> QED BY <2>1, <2>2
<1>12. CASE publish_input
  <2>1. AzureTypes'
    <3>1. az' \in [at : Places, retries : Int] /\ dropped' \in BOOLEAN
      BY <1>12, ClientsTyped DEF Places, publish_input, Step, Calls, Ends
    <3>2. mqtt' \in Client
      BY <1>12, ClientsTyped DEF publish_input, Step, Calls, Ends
    <3>3. sems' \in [mqtt_start : {0, 1}, publish_msg : {0, 1}] /\ works' \in [pub_message : BOOLEAN, check : BOOLEAN]
      BY <1>12, ClientsTyped DEF publish_input, Step, Calls, Ends
    <3>4. l4' \in [up : BOOLEAN, bound : BOOLEAN, events : Nat, at : {"idle", "abort", "aborting"}]
      BY <1>12, ClientsTyped DEF publish_input, Step, Calls, Ends
    <3> QED BY <3>1, <3>2, <3>3, <3>4
  <2>2. WakeUp'
    BY <1>12, ClientsTyped DEF Places, WakeUp, publish_input, Step, Calls, Ends
  <2> QED BY <2>1, <2>2
<1>13. CASE publish_submit
  <2>1. AzureTypes'
    BY <1>13 DEF Places, publish_submit, Step, Calls
  <2>2. WakeUp'
    BY <1>13 DEF Places, WakeUp, publish_submit, Step, Calls
  <2> QED BY <2>1, <2>2
<1>14. CASE publish_taken
  <2>1. AzureTypes'
    BY <1>14 DEF Places, publish_taken, Step, Calls
  <2>2. WakeUp'
    BY <1>14 DEF Places, WakeUp, publish_taken, Step, Calls
  <2> QED BY <2>1, <2>2
<1>15. CASE publish_timeout
  <2>1. AzureTypes'
    BY <1>15 DEF Places, publish_timeout
  <2>2. WakeUp'
    BY <1>15 DEF Places, WakeUp, publish_timeout
  <2> QED BY <2>1, <2>2
<1>16. CASE dhcp_bound
  <2>1. AzureTypes'
    BY <1>16 DEF Places, dhcp_bound
  <2>2. WakeUp'
    BY <1>16 DEF Places, WakeUp, dhcp_bound
  <2> QED BY <2>1, <2>2
<1>17. CASE check_network_connection
  <2>1. AzureTypes'
    BY <1>17 DEF Places, check_network_connection
  <2>2. WakeUp'
    BY <1>17 DEF Places, WakeUp, check_network_connection
  <2> QED BY <2>1, <2>2
<1>18. CASE l4_connected
  <2>1. AzureTypes'
    <3>1. az' \in [at : Places, retries : Int] /\ dropped' \in BOOLEAN
      BY <1>18 DEF Places, l4_connected
    <3>2. mqtt' \in Client
      BY <1>18, ClientsTyped DEF l4_connected
    <3>3. sems' \in [mqtt_start : {0, 1}, publish_msg : {0, 1}] /\ works' \in [pub_message : BOOLEAN, check : BOOLEAN]
      BY <1>18 DEF l4_connected
    <3>4. l4' \in [up : BOOLEAN, bound : BOOLEAN, events : Nat, at : {"idle", "abort", "aborting"}]
      <4>1. PICK bound \in BOOLEAN : l4' = [l4 EXCEPT !.up = TRUE, !.bound = bound, !.events = @ + 1]
        BY <1>18 DEF l4_connected
      <4>2. l4' = [up |-> TRUE, bound |-> bound, events |-> l4.events + 1, at |-> l4.at]
        BY <4>1
      <4> QED BY ONLY <4>2, bound \in BOOLEAN, l4.events \in Nat, l4.at \in {"idle", "abort", "aborting"}, AzureTypes
    <3> QED BY <3>1, <3>2, <3>3, <3>4
  <2>2. WakeUp'
    BY <1>18 DEF Places, WakeUp, l4_connected
  <2> QED BY <2>1, <2>2
<1>19. CASE l4_disconnected
  <2>1. AzureTypes'
    <3>1. az' \in [at : Places, retries : Int] /\ dropped' \in BOOLEAN
      BY <1>19 DEF Places, l4_disconnected
    <3>2. mqtt' \in Client
      BY <1>19, ClientsTyped DEF l4_disconnected
    <3>3. sems' \in [mqtt_start : {0, 1}, publish_msg : {0, 1}] /\ works' \in [pub_message : BOOLEAN, check : BOOLEAN]
      BY <1>19 DEF l4_disconnected
    <3>4. l4' \in [up : BOOLEAN, bound : BOOLEAN, events : Nat, at : {"idle", "abort", "aborting"}]
      BY <1>19 DEF l4_disconnected
    <3> QED BY <3>1, <3>2, <3>3, <3>4
  <2>2. WakeUp'
    BY <1>19 DEF Places, WakeUp, l4_disconnected
  <2> QED BY <2>1, <2>2
<1>20. CASE abort_mqtt_connection
  <2>1. AzureTypes'
    <3>1. az' \in [at : Places, retries : Int] /\ dropped' \in BOOLEAN
      BY <1>20, ClientsTyped DEF Places, abort_mqtt_connection
    <3>2. mqtt' \in Client
      BY <1>20, ClientsTyped DEF abort_mqtt_connection
    <3>3. sems' \in [mqtt_start : {0, 1}, publish_msg : {0, 1}] /\ works' \in [pub_message : BOOLEAN, check : BOOLEAN]
      BY <1>20, ClientsTyped DEF abort_mqtt_connection
    <3>4. l4' \in [up : BOOLEAN, bound : BOOLEAN, events : Nat, at : {"idle", "abort", "aborting"}]
      BY <1>20, ClientsTyped DEF abort_mqtt_connection
    <3> QED BY <3>1, <3>2, <3>3, <3>4
  <2>2. WakeUp'
    BY <1>20, ClientsTyped DEF Places, WakeUp, abort_mqtt_connection
  <2> QED BY <2>1, <2>2
<1> QED BY <1>1, <1>2, <1>3, <1>4, <1>5, <1>6, <1>7, <1>8,
           <1>9, <1>10, <1>11, <1>12, <1>13, <1>14, <1>15, <1>16, <1>17, <1>18, <1>19, <1>20
       DEF AzureNext

-----------------------------------------------------------------------------
(* The specification *)

LEMMA AsyncInitKeeps == AsyncInit => AsyncInv
<1> SUFFICES ASSUME AsyncInit PROVE AsyncInv
  OBVIOUS
<1>1. /\ pollfds = <<>> /\ queue = <<>> /\ Entry = {} /\ DOMAIN queue = {}
      /\ revents = {} /\ cursor = Polling /\ calls = 0 /\ left = {} /\ turned_away = {} /\ shut = {}
      /\ owner = [d \in Descriptors |-> 0] /\ unread = [c \in 1 .. CALLERS |-> 0]
  BY DEF AsyncInit, Entry
<1>2. AsyncTypes
  BY <1>1, NumFds DEF AsyncTypes, Polling
<1>3. Callers /\ OwnEntry /\ Selected /\ PassIsFresh
  BY <1>1 DEF Callers, OwnEntry, Selected, PassIsFresh, Polling
<1> QED BY <1>1, <1>2, <1>3 DEF AsyncInv

LEMMA AsyncStutters == ServesOrExited /\ UNCHANGED asyncVars => ServesOrExited'
BY DEF ServesOrExited, Exited, Limited, AsyncInv, asyncVars, AsyncTypes, Callers, OwnEntry, Selected,
       PassIsFresh, StillReadable, Ready, Entry

(* Entries are added within the limit, and freed where they are.            *)
LEMMA LimitKeeps ==
  ASSUME AsyncInv, Limited, AsyncNext, AsyncInv'
  PROVE  Limited'
<1>1. pollfds \in Seq({-1} \cup Descriptors) /\ pollfds' \in Seq({-1} \cup Descriptors)
  BY DEF AsyncInv, AsyncTypes
<1>2. select' = select
  BY DEF AsyncNext, CallerConnects, CallerSends, CallerLeaves, poll, pass_skips, pass_accepts, accept_fails,
         pass_receives, pass_sends
<1>3. CASE pollfds' = pollfds
  BY <1>2, <1>3 DEF Limited
<1>4. CASE DOMAIN pollfds' = DOMAIN pollfds
  <2>1. /\ DOMAIN pollfds = 1 .. Len(pollfds) /\ Len(pollfds) \in Nat
        /\ DOMAIN pollfds' = 1 .. Len(pollfds') /\ Len(pollfds') \in Nat
    BY ONLY <1>1, LenProperties
  <2> DEFINE m == Len(pollfds)  n == Len(pollfds')
  <2>2. 1 .. m = 1 .. n /\ m \in Nat /\ n \in Nat
    BY ONLY <1>4, <2>1
  <2> HIDE DEF m, n
  <2>3. m = n
    <3>1. m > 0 => m \in 1 .. m
      BY ONLY <2>2
    <3>2. n > 0 => n \in 1 .. n
      BY ONLY <2>2
    <3>3. (m > 0 => m <= n) /\ (n > 0 => n <= m)
      BY ONLY <2>2, <3>1, <3>2
    <3> QED BY ONLY <2>2, <3>3
  <2> QED BY <1>2, <2>3 DEF Limited, m, n
<1>5. CASE pass_accepts
  <2> DEFINE d == Min({f \in Descriptors : owner[f] = 0})
  <2>1. pollfds' = pollfds_add(d)
    BY <1>5 DEF pass_accepts
  <2>2. d \in Descriptors
    <3>1. queue \in Seq(1 .. CALLERS) /\ queue # <<>>
      BY <1>5 DEF AsyncInv, AsyncTypes, PassIsFresh, pass_accepts
    <3>2. queue[1] \in 1 .. CALLERS /\ \A a \in Descriptors : owner[a] # queue[1]
      BY <3>1, QueueTyped DEF AsyncInv, Callers
    <3>3. /\ owner \in [Descriptors -> 0 .. CALLERS]
          /\ \A a, b \in Descriptors : owner[a] # 0 /\ owner[a] = owner[b] => a = b
      BY DEF AsyncInv, AsyncTypes, Callers
    <3> QED BY ONLY <3>2, <3>3, FreeDescriptor
  <2>3. owner[d] = 0 /\ d > 0
    <3>1. queue \in Seq(1 .. CALLERS) /\ queue # <<>>
      BY <1>5 DEF AsyncInv, AsyncTypes, PassIsFresh, pass_accepts
    <3>2. queue[1] \in 1 .. CALLERS /\ \A a \in Descriptors : owner[a] # queue[1]
      BY <3>1, QueueTyped DEF AsyncInv, Callers
    <3>3. /\ owner \in [Descriptors -> 0 .. CALLERS]
          /\ \A a, b \in Descriptors : owner[a] # 0 /\ owner[a] = owner[b] => a = b
      BY DEF AsyncInv, AsyncTypes, Callers
    <3>4. owner[d] = 0
      BY ONLY <3>2, <3>3, FreeDescriptor
    <3> HIDE DEF d
    <3> QED BY ONLY <2>2, <3>4, NumFds DEF Descriptors
  <2> HIDE DEF d
  <2>4. (\A i \in Entry : pollfds[i] # d) /\ (select => \A i \in Entry : pollfds[i] \in {-1, i})
    BY <2>3 DEF AsyncInv, OwnEntry, Selected
  <2> DEFINE p == pollfds_add(d)
  <2>5. ~ select => Len(p) <= Len(pollfds) \/ Len(p) < NUM_FDS
    BY ONLY <1>1, <2>2, <2>4, AddsEntry
  <2> HIDE DEF p
  <2>6. Len(p) \in Nat /\ Len(pollfds) \in Nat
    BY <1>1, <2>1, EntriesTyped DEF p
  <2>7. ~ select => Len(p) < NUM_FDS
    BY <2>5, <2>6, NumFds DEF Limited
  <2> QED BY <1>2, <2>1, <2>7 DEF Limited, p
<1>6. CASE pass_receives \/ pass_sends
  <2>1. pollfds' = pollfds \/ \E d : Close(d)
    BY <1>6 DEF pass_receives, pass_sends
  <2>2. pollfds' = pollfds \/ DOMAIN pollfds' = DOMAIN pollfds
    BY <2>1 DEF Close, pollfds_del
  <2> QED BY <1>3, <1>4, <2>2
<1>7. CASE accept_fails
  <2>1. ~ select => pollfds' = pollfds
    BY <1>7 DEF accept_fails
  <2> QED BY <1>2, <1>3, <2>1 DEF Limited
<1>8. CASE CallerConnects \/ (\E c \in 1 .. CALLERS : CallerSends(c) \/ CallerLeaves(c)) \/ poll \/ pass_skips
  <2>1. pollfds' = pollfds
    BY <1>8 DEF CallerConnects, CallerSends, CallerLeaves, poll, pass_skips
  <2> QED BY <1>3, <2>1
<1> QED BY <1>5, <1>6, <1>7, <1>8 DEF AsyncNext

LEMMA AsyncKeeps == ServesOrExited /\ AsyncNext => ServesOrExited'
<1> SUFFICES ASSUME ServesOrExited, AsyncNext PROVE ServesOrExited'
  OBVIOUS
<1>1. AsyncInv /\ Limited
  BY DEF ServesOrExited, Exited, AsyncNext
<1>2. AsyncInv' \/ Exited'
  BY <1>1, ConnectsKeeps, SendsAndLeavesKeep, PollKeeps, SkipKeeps, AcceptKeeps, AcceptFailsKeeps,
     ReceiveKeeps, SendKeeps DEF AsyncNext
<1> QED BY <1>1, <1>2, LimitKeeps DEF ServesOrExited

LEMMA InvariantKeepsConnected == ServesOrExited => HealthyStayConnected
<1>1. ASSUME AsyncInv, Limited PROVE HealthyStayConnected
  <2>1. ASSUME NEW d \in Descriptors, owner[d] # 0
        PROVE  Cardinality({i \in DOMAIN pollfds : pollfds[i] = d}) = 1
    <3>1. PICK e \in DOMAIN pollfds : pollfds[e] = d
      BY <1>1, <2>1 DEF AsyncInv, OwnEntry, Entry
    <3>2. d > 0
      BY NumFds DEF Descriptors
    <3>3. \A i \in DOMAIN pollfds : pollfds[i] = d => i = e
      BY <1>1, <3>1, <3>2 DEF AsyncInv, OwnEntry, Entry
    <3>4. {i \in DOMAIN pollfds : pollfds[i] = d} = {e}
      BY ONLY <3>1, <3>3
    <3> QED BY <3>4, FS_Singleton
  <2>2. /\ shut \subseteq left
        /\ \A i \in DOMAIN pollfds : pollfds[i] > 0 => owner[pollfds[i]] # 0
        /\ ~ select => Len(pollfds) < NUM_FDS
    BY <1>1 DEF AsyncInv, OwnEntry, Entry, Limited
  <2>3. \A d \in Descriptors : owner[d] # 0 => Cardinality({i \in DOMAIN pollfds : pollfds[i] = d}) = 1
    BY <2>1
  <2> QED BY ONLY <2>2, <2>3 DEF HealthyStayConnected
<1>2. ASSUME Exited PROVE HealthyStayConnected
  BY <1>2 DEF Exited, HealthyStayConnected
<1> QED BY <1>1, <1>2 DEF ServesOrExited

LEMMA StepKeepsEntries == ServesOrExited /\ [Next]_vars => ServesOrExited'
<1> SUFFICES ASSUME ServesOrExited, [Next]_vars PROVE ServesOrExited'
  OBVIOUS
<1>1. AsyncNext \/ UNCHANGED asyncVars
  BY DEF Next, EchoServerRuns, EchoClientRuns, AzureRuns, AsyncEchoRuns, MqttRuns, vars
<1> QED BY <1>1, AsyncKeeps, AsyncStutters

(* main of echo_async and echo_async_select, with pollfds_add and            *)
(* pollfds_del: open connections have one entry each, that no closed socket  *)
(* shares, in echo_async never more than there is room for; and none is       *)
(* closed that its peer has not left, unless an accept fails, which ends      *)
(* echo_async_select with all its connections, and echo_async not.           *)
THEOREM EachKeepsItsEntry == Spec => []HealthyStayConnected
<1>1. Init => ServesOrExited
  <2>1. AsyncInit => Limited
    <3>1. ASSUME AsyncInit PROVE Len(pollfds) = 0
      BY <3>1 DEF AsyncInit
    <3> QED BY <3>1, AsyncEchoAssumption DEF Limited
  <2> QED BY <2>1, AsyncInitKeeps DEF Init, ServesOrExited
<1>2. ServesOrExited /\ [Next]_vars => ServesOrExited'
  BY StepKeepsEntries
<1>3. ServesOrExited => HealthyStayConnected
  BY InvariantKeepsConnected
<1> QED BY <1>1, <1>2, <1>3, PTL DEF Spec

LEMMA ServerStutters == ServerInv /\ UNCHANGED srvVars => ServerInv'
BY DEF ServerInv, srvVars, peerVars, stopVars, ServerTypes, Holders, Bytes, Waiting, Served, Stopping

LEMMA EchoStutters == EchoInv /\ UNCHANGED echoVars => EchoInv'
BY DEF EchoInv, echoVars, udpVars, EchoTypes, NothingMissing, SendsAgain, Quiet

LEMMA AzureStutters == AzureInv /\ UNCHANGED azVars => AzureInv'
BY DEF AzureInv, azVars, AzureTypes, WakeUp

LEMMA MqttStutters == MqttInv /\ UNCHANGED mqttVars => MqttInv'
<1> SUFFICES ASSUME MqttInv, UNCHANGED mqttVars PROVE MqttInv'
  OBVIOUS
<1>1. UNCHANGED <<q_kind, q_at, q_count, q_lost, clientVars>>
  BY DEF mqttVars
<1>2. ClientInv' /\ lib' = lib
  BY <1>1, ClientStands DEF MqttInv, clientVars
<1> QED BY <1>1, <1>2 DEF MqttInv, MainInv, Held

LEMMA EchoInvKeepsOrder == EchoInv => SessionsInOrder
<1> SUFFICES ASSUME EchoInv PROVE ExchangeGoesOn /\ QuietBetweenSessions
  BY DEF SessionsInOrder
<1>1. ExchangeGoesOn
  <2>1. echo_main.ret # "too much"
    BY DEF EchoInv, EchoTypes
  <2>2. echo_main.at \in {"poll", "udp"} => tcp_data.wire = tcp_data.expecting - tcp_data.received
    BY DEF EchoInv, EchoTypes, NothingMissing, Session
  <2> QED BY <2>1, <2>2 DEF EchoInv, SendsAgain, ExchangeGoesOn
<1>2. QuietBetweenSessions
  BY DEF EchoInv, Quiet, QuietBetweenSessions
<1> QED BY <1>1, <1>2

(* echo_server's process_tcp, run_tcp and stop_tcp, and echo_client's        *)
(* process_tcp_proto, wait_reply and stop_udp: what the server received      *)
(* comes back once, in order and of the right connection; the client has a   *)
(* datagram under way as long as it waits, never more of a response than it   *)
(* asked for, and nothing left over from an earlier session.                *)
THEOREM BytesComeBackInOrder == Spec => []EchoesInOrder
<1>1. Init => ServerInv /\ EchoInv
  BY ServerInitially, EchoInitially DEF Init
<1>2. ServerInv /\ EchoInv /\ [Next]_vars => ServerInv' /\ EchoInv'
  <2> SUFFICES ASSUME ServerInv, EchoInv, [Next]_vars PROVE ServerInv' /\ EchoInv'
    OBVIOUS
  <2>1. (EchoServerNext \/ UNCHANGED srvVars) /\ (EchoClientNext \/ UNCHANGED echoVars)
    BY DEF Next, EchoServerRuns, EchoClientRuns, AzureRuns, AsyncEchoRuns, MqttRuns, vars
  <2> QED BY <2>1, ServerKeeps, ServerStutters, EchoKeeps, EchoStutters
<1>3. ServerInv /\ EchoInv => EchoesInOrder
  BY ServerKeepsOrderly, EchoInvKeepsOrder DEF EchoesInOrder
<1> QED BY <1>1, <1>2, <1>3, PTL DEF Spec

(* mqtt_azure's l4_event_handler, abort_mqtt_connection and its two works;    *)
(* try_to_connect, wait and mqtt_evt_handler of mqtt_publisher and           *)
(* google_iot_mqtt: whoever ends a connection leaves main somebody to wake    *)
(* it, connected is what the library says, the sockets lost are counted, and  *)
(* a message of QoS 2 is delivered once whatever answers are late.           *)
THEOREM ClientsAgreeWithTheirBroker == Spec => []BrokersAgree
<1>1. Init => AzureInv /\ MqttInv
  BY AzureInitially, MqttInitially DEF Init
<1>2. AzureInv /\ MqttInv /\ [Next]_vars => AzureInv' /\ MqttInv'
  <2> SUFFICES ASSUME AzureInv, MqttInv, [Next]_vars PROVE AzureInv' /\ MqttInv'
    OBVIOUS
  <2>1. (AzureNext \/ UNCHANGED azVars) /\ (MqttNext \/ UNCHANGED mqttVars)
    BY DEF Next, EchoServerRuns, EchoClientRuns, AzureRuns, AsyncEchoRuns, MqttRuns, vars
  <2> QED BY <2>1, AzureKeeps, AzureStutters, MqttKeeps, MqttStutters
<1>3. AzureInv => CloudWakesMain
  BY DEF AzureInv, WakeUp, CloudWakesMain, Publishing
<1>4. MqttInv => MqttAgrees
  BY MqttInvAgrees
<1> QED BY <1>1, <1>2, <1>3, <1>4, PTL DEF Spec, BrokersAgree
=============================================================================
