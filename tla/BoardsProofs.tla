---------------------------- MODULE BoardsProofs ----------------------------
(***************************************************************************)
(* Proofs about two of samples/boards: TransitionTime, for every set of     *)
(* times at which a status may be sent, and Pong, for any number of link    *)
(* losses, failing calls and presses.                                       *)
(***************************************************************************)
EXTENDS TransitionTime, Pong, TLAPS, SequenceTheorems

LONGEST == 37200000   \* 62 steps of ten minutes
IsDuration(d) == d \in Int /\ 100 <= d /\ d <= LONGEST

(* The encoding of a positive time that a transition can last.             *)
LEMMA EncodeFact ==
  ASSUME NEW d \in Int, d <= LONGEST
  PROVE  /\ Encode(d) \in (0 .. 3) \X (0 .. 62)
         /\ d >= 0 => /\ Time(Encode(d)) <= d
                      /\ d < Time(Encode(d)) + Unit(Encode(d)[1])
<1>1. CASE d > 620000
  <2>1. /\ d \div 600000 \in 1 .. 62
        /\ (d \div 600000) * 600000 <= d /\ d < (d \div 600000) * 600000 + 600000
    BY SMT, <1>1 DEF LONGEST
  <2>2. Encode(d) = <<3, d \div 600000>>
    BY SMT, <1>1 DEF Encode
  <2> QED BY SMT, <2>1, <2>2 DEF Time, Unit
<1>2. CASE d > 62000 /\ d <= 620000
  <2>1. /\ d \div 10000 \in 6 .. 62
        /\ (d \div 10000) * 10000 <= d /\ d < (d \div 10000) * 10000 + 10000
    BY SMT, <1>2
  <2>2. Encode(d) = <<2, d \div 10000>>
    BY SMT, <1>2 DEF Encode
  <2> QED BY SMT, <2>1, <2>2 DEF Time, Unit
<1>3. CASE d > 6200 /\ d <= 62000
  <2>1. /\ d \div 1000 \in 6 .. 62
        /\ (d \div 1000) * 1000 <= d /\ d < (d \div 1000) * 1000 + 1000
    BY SMT, <1>3
  <2>2. Encode(d) = <<1, d \div 1000>>
    BY SMT, <1>3 DEF Encode
  <2> QED BY SMT, <2>1, <2>2 DEF Time, Unit
<1>4. CASE d > 0 /\ d <= 6200
  <2>1. /\ d \div 100 \in 0 .. 62
        /\ (d \div 100) * 100 <= d /\ d < (d \div 100) * 100 + 100
    BY SMT, <1>4
  <2>2. Encode(d) = <<0, d \div 100>>
    BY SMT, <1>4 DEF Encode
  <2> QED BY SMT, <2>1, <2>2 DEF Time, Unit
<1>5. CASE d <= 0
  <2>1. Encode(d) = <<0, 0>>
    BY SMT, <1>5 DEF Encode
  <2> QED BY SMT, <1>5, <2>1 DEF Time, Unit
<1> QED BY SMT, <1>1, <1>2, <1>3, <1>4, <1>5

(* A transition lasts 100 ms at least and 62 * 10 minutes at most.          *)
LEMMA DurationFact ==
  ASSUME resolution \in 0 .. 3, steps \in 1 .. 62
  PROVE  IsDuration(total_duration)
BY SMT DEF total_duration, Unit, IsDuration, LONGEST

-----------------------------------------------------------------------------
Untouched == just_started => remaining = total_duration

(* A code is right for the remaining time d of the transition under way.    *)
Right(code, d) ==
  /\ code \in (0 .. 3) \X (0 .. UNKNOWN)
  /\ code[2] = UNKNOWN <=> type = "MOVE"
  /\ type = "NON_MOVE" /\ d >= 0 => Time(code) <= d /\ d < Time(code) + Unit(code[1])

Kinds == /\ resolution \in 0 .. 3 /\ steps \in 1 .. 62
         /\ type \in {"MOVE", "NON_MOVE"} /\ just_started \in BOOLEAN

IInv == /\ Kinds
        /\ remaining \in Int /\ remaining <= total_duration
        /\ Untouched
        /\ Right(rt, remaining)

LEMMA IInvMeans == IInv <=> TypeOK /\ OnlyMovesAreUnknown /\ ReportedTimeIsClose /\ Untouched
BY SMT DEF IInv, Kinds, Right, TypeOK, OnlyMovesAreUnknown, ReportedTimeIsClose

(* A status that is sent with the remaining time d is right.                *)
LEMMA StatusFact ==
  ASSUME Kinds, NEW d \in Int, d <= total_duration, just_started => d = total_duration
  PROVE  Right(calculate_rt(d), d)
<1> USE DEF Kinds
<1>1. CASE type = "MOVE"
  BY SMT, <1>1 DEF calculate_rt, UNKNOWN, Right
<1>2. CASE type = "NON_MOVE" /\ just_started
  <2>1. calculate_rt(d) = <<resolution, steps>>
    BY SMT, <1>2 DEF calculate_rt
  <2>2. Time(<<resolution, steps>>) = d
    BY SMT, <1>2 DEF Time, total_duration
  <2>3. Unit(resolution) \in Int /\ Unit(resolution) > 0
    BY SMT DEF Unit
  <2> QED BY SMT, <1>2, <2>1, <2>2, <2>3 DEF UNKNOWN, Right
<1>3. CASE type = "NON_MOVE" /\ ~ just_started
  <2>1. calculate_rt(d) = Encode(d)
    BY SMT, <1>3 DEF calculate_rt
  <2>2. d <= LONGEST
    BY SMT, DurationFact DEF IsDuration, LONGEST
  <2> QED BY SMT, <1>3, <2>1, <2>2, EncodeFact DEF UNKNOWN, Right
<1> QED BY SMT, <1>1, <1>2, <1>3

LEMMA InitIInv == TimeInit => IInv
<1> SUFFICES ASSUME TimeInit PROVE IInv
  BY SMT
<1>1. Kinds
  BY SMT DEF TimeInit, Kinds
<1>2. remaining = total_duration /\ rt = calculate_rt(remaining)
  BY SMT DEF TimeInit
<1>3. total_duration \in Int
  BY SMT, <1>1, DurationFact DEF Kinds, IsDuration
<1>4. Right(calculate_rt(remaining), remaining)
  BY SMT, <1>1, <1>2, <1>3, StatusFact
<1> QED BY SMT, <1>1, <1>2, <1>3, <1>4 DEF IInv, Untouched

LEMMA NextIInv == IInv /\ [TimeNext]_timeVars => IInv'
<1> SUFFICES ASSUME IInv, [TimeNext]_timeVars PROVE IInv'
  BY SMT
<1>1. CASE UNCHANGED timeVars \/ Started
  <2>1. /\ UNCHANGED <<resolution, steps, type, remaining, rt>>
        /\ just_started' \in BOOLEAN
        /\ just_started' => just_started
    <3>1. just_started \in BOOLEAN
      BY Zenon DEF IInv, Kinds
    <3>2. CASE UNCHANGED timeVars
      BY SMT, <3>1, <3>2 DEF timeVars
    <3>3. CASE Started
      BY Zenon, <3>3 DEF Started
    <3> QED BY Zenon, <1>1, <3>2, <3>3
  <2>2. total_duration' = total_duration
    BY SMT, <2>1 DEF total_duration
  <2>3. Kinds'
    BY SMT, <2>1 DEF IInv, Kinds
  <2>4. Right(rt, remaining)'
    BY SMT, <2>1 DEF IInv, Right
  <2>5. Untouched'
    BY SMT, <2>1, <2>2 DEF IInv, Untouched, Kinds
  <2>6. (remaining \in Int /\ remaining <= total_duration)'
    BY SMT, <2>1, <2>2 DEF IInv
  <2> QED BY SMT, <2>3, <2>4, <2>5, <2>6 DEF IInv
<1>2. CASE Status
  <2>1. PICK rest \in Polls :
           /\ IF just_started THEN rest = remaining ELSE rest < remaining
           /\ remaining' = rest
           /\ rt' = calculate_rt(rest)
           /\ UNCHANGED <<resolution, steps, type, just_started>>
    BY SMT, <1>2 DEF Status
  <2>2. rest \in Int
    BY SMT, TransitionTimeAssumption
  <2>3. total_duration \in Int /\ total_duration' = total_duration
    BY SMT, <2>1, DurationFact DEF total_duration, IInv, Kinds, IsDuration
  <2>4. rest <= total_duration /\ (just_started => rest = total_duration)
    BY SMT, <2>1, <2>2, <2>3 DEF IInv, Untouched
  <2>5. Right(calculate_rt(rest), rest)
    BY SMT, <2>2, <2>4, StatusFact DEF IInv
  <2>6. Right(rt, remaining)'
    BY SMT, <2>1, <2>5 DEF Right
  <2> QED BY SMT, <2>1, <2>2, <2>3, <2>4, <2>6 DEF IInv, Kinds, Untouched
<1> QED BY SMT, <1>1, <1>2 DEF TimeNext

LEMMA Invariance == TimeSpec => []IInv
BY InitIInv, NextIInv, PTL DEF TimeSpec

(* Type correctness, and no status counts more than the whole transition.   *)
THEOREM TypeCorrect == TimeSpec => []TypeOK
<1>1. IInv => TypeOK
  BY SMT, IInvMeans
<1> QED BY <1>1, Invariance, PTL

(* The remaining time that a status reports is right up to its unit, and     *)
(* every time but that of a move fits calculate_rt's encoding.             *)
THEOREM TimesAreRight == TimeSpec => []ReportedTimeIsRight
<1>1. IInv => ReportedTimeIsRight
  BY SMT, IInvMeans DEF ReportedTimeIsRight
<1> QED BY <1>1, Invariance, PTL

LEMMA QuotientFact ==
  ASSUME NEW d \in Int, NEW k \in 1 .. 10, k * 100 <= d
  PROVE  /\ d \div k \in Int /\ 100 <= d \div k
         /\ k * (d \div k) <= d /\ d < k * (d \div k) + k
<1>1. k \in {1, 2, 3, 4, 5, 6, 7, 8, 9, 10}
  BY SMT
<1>2. CASE k \in {1, 2, 3}
  BY SMT, <1>2
<1>3. CASE k \in {4, 5, 6}
  BY SMT, <1>3
<1>4. CASE k \in {7, 8}
  BY SMT, <1>4
<1>5. CASE k \in {9, 10}
  BY SMT, <1>5
<1> QED BY SMT, <1>1, <1>2, <1>3, <1>4, <1>5

LEMMA CapFact ==
  ASSUME NEW d \in Int, 100 <= d
  PROVE  Capped(d \div 100) \in 1 .. 10 /\ Capped(d \div 100) * 100 <= d
BY SMT DEF Capped, DEVICE_SPECIFIC_RESOLUTION

LEMMA PeriodsFact == TypeOK => PeriodsFillTheTime
<1> SUFFICES ASSUME TypeOK PROVE PeriodsFillTheTime
  BY SMT
<1>1. total_duration \in Int /\ 100 <= total_duration
  BY SMT, DurationFact DEF TypeOK, IsDuration
<1>2. counter \in 1 .. 10 /\ counter * 100 <= total_duration
  BY SMT, <1>1, CapFact DEF counter
<1>3. /\ total_duration \div counter \in Int /\ 100 <= total_duration \div counter
      /\ counter * (total_duration \div counter) <= total_duration
      /\ total_duration < counter * (total_duration \div counter) + counter
  BY SMT, <1>1, <1>2, QuotientFact
<1>4. 100 <= quo_tt
  BY SMT, <1>1, <1>3 DEF quo_tt
<1>5. type = "NON_MOVE" => quo_tt = total_duration \div counter
  BY SMT DEF quo_tt
<1> QED BY SMT, <1>2, <1>3, <1>4, <1>5 DEF PeriodsFillTheTime, DEVICE_SPECIFIC_RESOLUTION

(* The periods of the timer make up the transition time, and are not zero.  *)
THEOREM PeriodsAreRight == TimeSpec => []PeriodsFillTheTime
<1>1. IInv => TypeOK
  BY SMT, IInvMeans
<1> QED BY <1>1, Invariance, PeriodsFact, PTL

-----------------------------------------------------------------------------
(* Pong *)

(* The types of a board's variables.                                        *)
GameStates == {"INIT", "SINGLE", "MULTI", "CONNECTED"}
BoardRec == [state : GameStates, select : BOOLEAN, started : BOOLEAN, ended : BOOLEAN,
             remote_lost : BOOLEAN, ball : {"here", "gone"}, heads : {"none", "up", "down"},
             refresh : BOOLEAN]
RadioStates == {"DISCONNECTED", "SCAN_START", "SCAN", "ADV_START", "ADVERTISING", "CONNECT_CREATE",
                "CONNECT_CANCEL", "CONNECTED"}
RadioRec == [state : RadioStates, conn : {"null", "live", "stale"}, handle : BOOLEAN, ready : BOOLEAN,
             initiator : BOOLEAN, work : BOOLEAN, canceled : BOOLEAN, scanning : BOOLEAN,
             advertising : BOOLEAN, discovering : BOOLEAN]
LinkRec == [st : {"none", "creating", "up"}, master : Player \cup {"nobody"}]
Events == {"master", "slave", "disconnected", "ccc", "ball", "lost"}
Reasons == {"cheated", "untold", "leftover", "late", "silent", "hasty"}

PongTyped ==
  /\ game \in [Player -> BoardRec] /\ ble \in [Player -> RadioRec] /\ link \in LinkRec
  /\ events \in [Player -> Seq(Events)] /\ blame \in [Player -> SUBSET Reasons]

(* There are two boards.                                                    *)
LEMMA TwoBoards ==
  ASSUME NEW d \in Player
  PROVE  Other(d) \in Player /\ Other(d) # d /\ \A e \in Player : e = d \/ e = Other(d)
<1>1. PICK e \in Player : Player = {d, e} /\ d # e
  BY PongAssumption
<1>2. \E x \in Player : x # d
  BY <1>1
<1>3. Other(d) \in Player /\ Other(d) # d
  BY <1>2 DEF Other
<1> QED BY <1>1, <1>3

(* What game_refresh makes of a board.                                      *)
LEMMA RefreshedFacts ==
  ASSUME NEW p \in BoardRec, NEW r \in Refreshed(p)
  PROVE  /\ r.next \in BoardRec /\ r.next.state = p.state /\ r.tell \in {{}, {"ball"}, {"lost"}}
         /\ p.state # "INIT" => (r.next.select <=> p.select)
<1> DEFINE q == [p EXCEPT !.refresh = FALSE]
<1>1. /\ q \in BoardRec /\ q.state = p.state /\ (q.select <=> p.select)
  BY DEF BoardRec
<1>2. ASSUME NEW x \in BoardRec, x.state = p.state, (x.select <=> p.select)
      PROVE  /\ [x EXCEPT !.refresh = TRUE] \in BoardRec
             /\ [x EXCEPT !.refresh = TRUE].state = p.state
             /\ [x EXCEPT !.refresh = TRUE].select <=> p.select
  BY <1>2 DEF BoardRec
<1>3. CASE p.state = "INIT"
  <2>1. r = [next |-> pong_select(q), tell |-> {}]
    BY <1>3 DEF Refreshed
  <2>2. pong_select(q) \in BoardRec /\ pong_select(q).state = p.state
    BY <1>1 DEF pong_select, BoardRec
  <2> QED BY <1>3, <2>1, <2>2
<1>4. CASE p.state # "INIT" /\ p.ended
  <2>1. r = [next |-> restart(q), tell |-> {}]
    BY <1>4 DEF Refreshed
  <2>2. restart(q) \in BoardRec /\ restart(q).state = p.state /\ (restart(q).select <=> p.select)
    BY <1>1 DEF restart, game_init, BoardRec
  <2> QED BY <1>4, <2>1, <2>2
<1>5. CASE p.state # "INIT" /\ ~ p.ended
  <2>1. r \in Frame(q)
    BY <1>5 DEF Refreshed
  <2> HIDE DEF q
  <2>2. \/ \E x \in BoardRec : x.state = p.state /\ (x.select <=> p.select) /\ r = Still(x)
        \/ r = [next |-> [q EXCEPT !.ball = "gone", !.refresh = FALSE], tell |-> {"ball"}]
        \/ r = [next |-> game_ended(q, FALSE), tell |-> IF q.state = "CONNECTED" THEN {"lost"} ELSE {}]
    <3>1. /\ [q EXCEPT !.ball = "here"] \in BoardRec /\ [q EXCEPT !.heads = "up"] \in BoardRec
          /\ [q EXCEPT !.ball = "here", !.heads = "down"] \in BoardRec
      BY <1>1 DEF BoardRec
    <3>2. /\ [q EXCEPT !.ball = "here"].state = p.state /\ ([q EXCEPT !.ball = "here"].select <=> p.select)
          /\ [q EXCEPT !.heads = "up"].state = p.state /\ ([q EXCEPT !.heads = "up"].select <=> p.select)
          /\ [q EXCEPT !.ball = "here", !.heads = "down"].state = p.state
          /\ ([q EXCEPT !.ball = "here", !.heads = "down"].select <=> p.select)
      BY <1>1 DEF BoardRec
    <3>3. \/ r = Still(q) \/ r = Still([q EXCEPT !.ball = "here"]) \/ r = Still([q EXCEPT !.heads = "up"])
          \/ r = Still([q EXCEPT !.ball = "here", !.heads = "down"])
          \/ r = [next |-> [q EXCEPT !.ball = "gone", !.refresh = FALSE], tell |-> {"ball"}]
          \/ r = [next |-> game_ended(q, FALSE), tell |-> IF q.state = "CONNECTED" THEN {"lost"} ELSE {}]
      BY <2>1, Zenon DEF Frame
    <3> QED BY <1>1, <3>1, <3>2, <3>3
  <2>3. ASSUME NEW x \in BoardRec, x.state = p.state, (x.select <=> p.select), r = Still(x)
        PROVE  /\ r.next \in BoardRec /\ r.next.state = p.state /\ r.tell = {}
               /\ (r.next.select <=> p.select)
    <3>1. r.next = [x EXCEPT !.refresh = TRUE] /\ r.tell = {}
      BY <2>3 DEF Still
    <3> QED BY <1>2, <2>3, <3>1
  <2>4. CASE r = [next |-> [q EXCEPT !.ball = "gone", !.refresh = FALSE], tell |-> {"ball"}]
    BY <1>1, <2>4 DEF BoardRec
  <2>5. CASE r = [next |-> game_ended(q, FALSE), tell |-> IF q.state = "CONNECTED" THEN {"lost"} ELSE {}]
    BY <1>1, <2>5 DEF BoardRec, game_ended
  <2> QED BY <2>2, <2>3, <2>4, <2>5
<1> QED BY <1>3, <1>4, <1>5

(***************************************************************************)
(* A session, from the callback connected() to disconnected(): ble.c says    *)
(* CONNECTED exactly then, default_conn is the link's unless an earlier      *)
(* attempt has left it stale, and only then is anything discovered or        *)
(* subscribed, and a game with the other board possible.                    *)
(***************************************************************************)
InSession(d) ==
  /\ ble[d].handle \/ ble[d].discovering => ble[d].conn = "live" /\ ble[d].state = "CONNECTED"
  /\ ble[d].state = "CONNECTED" => ble[d].conn # "null"
  /\ game[d].state = "CONNECTED" => ble[d].conn = "live" /\ ble[d].state = "CONNECTED"
  /\ game[d].state \in {"SINGLE", "MULTI"} => ~ game[d].select

(* When there is no link the last that is called back is disconnected().    *)
EndComes(d) ==
  link.st # "up" => IF events[d] = <<>> THEN ble[d].state # "CONNECTED"
                    ELSE events[d][Len(events[d])] = "disconnected"

(* A connection that nobody wants any more is being cancelled, or came late. *)
Unwanted(d) ==
  (game[d].select \/ game[d].state = "INIT") /\ link.st = "up" /\ ble[d].state = "CONNECTED"
    /\ ble[d].conn = "live" => ble[d].canceled \/ "late" \in blame[d]

(* A board that shows "Connecting..." was not cancelled since, has work that *)
(* is due, or is connected.                                                 *)
Looking(d) ==
  game[d].state = "MULTI" /\ "hasty" \notin blame[d] =>
    /\ ~ ble[d].canceled /\ ble[d].state \notin {"DISCONNECTED", "CONNECT_CANCEL"}
    /\ ble[d].work \/ ble[d].state = "CONNECTED" \/ "silent" \in blame[d]

SessionOf(d) == InSession(d) /\ EndComes(d) /\ Unwanted(d) /\ Looking(d)

PongInv == PongTyped /\ \A d \in Player : SessionOf(d)

(* What a step does to the link and the callbacks still to come of x.       *)
Wire(x) ==
  \/ link.st = "up" /\ link'.st = "up"
  \/ link'.st = "up" /\ events[x] = <<>>
  \/ link.st = "up" /\ events'[x] = Append(events[x], "disconnected")
  \/ link.st # "up" /\ link'.st # "up" /\ events'[x] = events[x]

LEMMA WireKeepsEnd ==
  ASSUME PongTyped, NEW x \in Player, EndComes(x), Wire(x),
         ble'[x].state = "CONNECTED" => ble[x].state = "CONNECTED"
  PROVE  EndComes(x)'
<1>1. events[x] \in Seq(Events)
  BY DEF PongTyped
<1>2. CASE events'[x] = Append(events[x], "disconnected")
  <2>1. /\ events'[x] # <<>> /\ events'[x][Len(events'[x])] = "disconnected"
    BY <1>1, <1>2 DEF Events
  <2> QED BY <2>1 DEF EndComes
<1>3. CASE events'[x] # Append(events[x], "disconnected")
  BY <1>3 DEF EndComes, Wire
<1> QED BY <1>2, <1>3

(* The board that takes no part in a step.                                  *)
LEMMA BystanderKeeps ==
  ASSUME PongInv, NEW x \in Player, Wire(x),
         game'[x] = game[x], blame'[x] = blame[x],
         \/ ble'[x] = ble[x]
         \/ ble'[x] = [ble[x] EXCEPT !.advertising = FALSE]
  PROVE  SessionOf(x)'
<1>1. PongTyped /\ SessionOf(x) /\ ble[x] \in RadioRec
  BY DEF PongInv, PongTyped
<1>2. /\ ble'[x].state = ble[x].state /\ ble'[x].conn = ble[x].conn
      /\ (ble'[x].handle <=> ble[x].handle) /\ (ble'[x].discovering <=> ble[x].discovering)
      /\ (ble'[x].canceled <=> ble[x].canceled) /\ (ble'[x].work <=> ble[x].work)
  BY <1>1 DEF RadioRec
<1>3. InSession(x)' /\ Looking(x)'
  BY <1>1, <1>2 DEF SessionOf, InSession, Looking
<1>4. EndComes(x)'
  BY <1>1, <1>2, WireKeepsEnd DEF SessionOf
<1>5. Unwanted(x)'
  BY <1>1, <1>2 DEF SessionOf, Unwanted, Wire, EndComes, InSession
<1> QED BY <1>3, <1>4, <1>5 DEF SessionOf

(* A callback is taken from the queue.                                      *)
LEMMA DeliveredKeepsEnd ==
  ASSUME PongTyped, NEW d \in Player, NEW event \in Events, EndComes(d), Delivered(d, event),
         link' = link, event = "disconnected" => ble'[d].state # "CONNECTED"
  PROVE  /\ EndComes(d)' /\ events' \in [Player -> Seq(Events)]
         /\ \A x \in Player : x # d => Wire(x)
<1>1. /\ events \in [Player -> Seq(Events)] /\ events[d] \in Seq(Events) /\ events[d] # <<>>
      /\ Head(events[d]) = event /\ events' = [events EXCEPT ![d] = Tail(events[d])]
  BY DEF Delivered, PongTyped
<1>2. /\ events'[d] = Tail(events[d]) /\ Tail(events[d]) \in Seq(Events)
      /\ \A x \in Player : x # d => events'[x] = events[x]
  BY <1>1
<1>3. ASSUME Tail(events[d]) # <<>>
      PROVE  Tail(events[d])[Len(Tail(events[d]))] = events[d][Len(events[d])]
  BY <1>1, <1>3
<1>4. ASSUME Tail(events[d]) = <<>>
      PROVE  events[d][Len(events[d])] = event
  <2>1. Len(Tail(events[d])) = Len(events[d]) - 1 /\ Len(events[d]) \in Nat
    BY <1>1, HeadTailProperties, LenProperties
  <2>2. Len(Tail(events[d])) = 0
    BY ONLY <1>2, <1>4, EmptySeq
  <2>3. Len(events[d]) = 1
    BY ONLY <2>1, <2>2
  <2> QED BY <1>1, <2>3
<1>5. EndComes(d)'
  BY <1>1, <1>2, <1>3, <1>4 DEF EndComes
<1>6. events' \in [Player -> Seq(Events)]
  BY <1>1, <1>2
<1>7. \A x \in Player : x # d => Wire(x)
  BY <1>2 DEF Wire
<1> QED BY <1>5, <1>6, <1>7

(* What the actor of a step needs to show, besides the types.               *)
LEMMA ActorEnough ==
  ASSUME PongInv, PongTyped', NEW d \in Player, SessionOf(d)',
         \A x \in Player : x # d => SessionOf(x)'
  PROVE  PongInv'
BY DEF PongInv

LEMMA RadioFields ==
  ASSUME PongTyped, NEW d \in Player
  PROVE  ble[d] \in RadioRec /\ game[d] \in BoardRec /\ blame[d] \in SUBSET Reasons
BY DEF PongTyped

(* The steps of the link.                                                   *)
LEMMA LinkUpKeeps == PongInv /\ LinkUp => PongInv'
<1> SUFFICES ASSUME PongInv, LinkUp PROVE PongInv'
  OBVIOUS
<1> DEFINE d == link.master
<1>1. PongTyped /\ link \in LinkRec
  BY DEF PongInv, PongTyped
<1>2. link' = [link EXCEPT !.st = "up"] /\ link'.st = "up" /\ link' \in LinkRec
  BY <1>1 DEF LinkUp, LinkRec
<1>3. /\ events' = [e \in Player |-> Append(events[e], IF e = d THEN "master" ELSE "slave")]
      /\ ble' = [ble EXCEPT ![Other(d)].advertising = FALSE]
      /\ UNCHANGED <<game, blame>> /\ \A e \in Player : events[e] = <<>>
  BY DEF LinkUp
<1> HIDE DEF d
<1>4. events' \in [Player -> Seq(Events)]
  <2>1. \A e \in Player : events[e] \in Seq(Events)
    BY <1>1 DEF PongTyped
  <2>2. \A e \in Player : Append(events[e], IF e = d THEN "master" ELSE "slave") \in Seq(Events)
    BY <2>1, AppendProperties DEF Events
  <2> QED BY <1>3, <2>2
<1>5. \A x \in Player : ble'[x] = ble[x] \/ ble'[x] = [ble[x] EXCEPT !.advertising = FALSE]
  BY <1>1, <1>3 DEF PongTyped
<1>6. ble' \in [Player -> RadioRec]
  <2>1. \A x \in Player : [ble[x] EXCEPT !.advertising = FALSE] \in RadioRec
    BY <1>1, RadioFields DEF RadioRec
  <2> QED BY <1>1, <1>3, <2>1 DEF PongTyped
<1>7. PongTyped'
  BY <1>1, <1>2, <1>3, <1>4, <1>6 DEF PongTyped
<1>8. \A x \in Player : Wire(x)
  BY <1>2, <1>3 DEF Wire
<1>9. \A x \in Player : SessionOf(x)'
  BY <1>3, <1>5, <1>8, BystanderKeeps
<1> QED BY <1>7, <1>9 DEF PongInv

LEMMA AllAppendTyped ==
  ASSUME PongTyped, NEW event \in Events
  PROVE  [e \in Player |-> Append(events[e], event)] \in [Player -> Seq(Events)]
<1>1. \A e \in Player : events[e] \in Seq(Events)
  BY DEF PongTyped
<1>2. \A e \in Player : Append(events[e], event) \in Seq(Events)
  BY <1>1, AppendProperties
<1> QED BY <1>2

LEMMA LinkLostKeeps == PongInv /\ LinkLost => PongInv'
<1> SUFFICES ASSUME PongInv, LinkLost PROVE PongInv'
  OBVIOUS
<1>1. PongTyped
  BY DEF PongInv
<1>2. /\ link' = NoLink /\ link.st = "up" /\ UNCHANGED <<game, ble, blame>>
      /\ events' = [e \in Player |-> Append(events[e], "disconnected")]
  BY DEF LinkLost
<1>3. PongTyped'
  BY <1>1, <1>2, AllAppendTyped DEF PongTyped, NoLink, LinkRec, Events
<1>4. \A x \in Player : Wire(x)
  BY <1>2 DEF Wire
<1> QED BY <1>2, <1>3, <1>4, BystanderKeeps DEF PongInv

(* bt_conn_disconnect.                                                      *)
LEMMA DisconnectEffect ==
  ASSUME PongTyped, NEW d \in Player, Disconnect(d)
  PROVE  /\ link' \in LinkRec /\ events' \in [Player -> Seq(Events)]
         /\ \A x \in Player : Wire(x)
         /\ ble[d].conn = "live" => link'.st # "up"
         /\ link'.st = "up" => link.st = "up"
<1>1. CASE ble[d].conn = "live" /\ (link.st = "up" \/ Attempting(d))
  <2>1. /\ link' = NoLink
        /\ events' = IF link.st = "up" THEN [e \in Player |-> Append(events[e], "disconnected")]
                     ELSE events
    BY <1>1 DEF Disconnect
  <2>2. link' \in LinkRec /\ link'.st = "none"
    BY <2>1 DEF NoLink, LinkRec
  <2>3. events' \in [Player -> Seq(Events)]
    BY <2>1, AllAppendTyped DEF PongTyped, Events
  <2>4. \A x \in Player : Wire(x)
    BY <2>1, <2>2 DEF Wire
  <2> QED BY <2>2, <2>3, <2>4
<1>2. CASE ~ (ble[d].conn = "live" /\ (link.st = "up" \/ Attempting(d)))
  <2>1. UNCHANGED <<link, events>>
    BY <1>2 DEF Disconnect
  <2> QED BY <1>2, <2>1 DEF PongTyped, Wire
<1> QED BY <1>1, <1>2

(* A step of the game that leaves ble.c alone, and says something to the     *)
(* other board or not.                                                      *)
LEMMA GameKeeps ==
  ASSUME PongInv, NEW d \in Player, NEW g \in BoardRec, game' = [game EXCEPT ![d] = g],
         UNCHANGED <<ble, link>>, events' \in [Player -> Seq(Events)], \A x \in Player : Wire(x),
         blame' \in [Player -> SUBSET Reasons],
         \A x \in Player : x # d => blame'[x] = blame[x],
         g.state = game[d].state, game[d].state # "INIT" => (g.select <=> game[d].select),
         \A w \in {"late", "silent", "hasty"} : w \in blame'[d] <=> w \in blame[d]
  PROVE  PongInv'
<1>1. PongTyped /\ SessionOf(d)
  BY DEF PongInv
<1>2. game'[d] = g /\ \A x \in Player : x # d => game'[x] = game[x]
  BY <1>1 DEF PongTyped
<1>3. PongTyped'
  BY <1>1 DEF PongTyped
<1>4. InSession(d)'
  BY <1>1, <1>2 DEF SessionOf, InSession
<1>5. Looking(d)'
  BY <1>1, <1>2 DEF SessionOf, Looking
<1>6. EndComes(d)'
  BY <1>1, WireKeepsEnd DEF SessionOf
<1>7. Unwanted(d)'
  BY <1>1, <1>2 DEF SessionOf, Unwanted
<1>8. \A x \in Player : x # d => SessionOf(x)'
  BY <1>2, BystanderKeeps
<1> QED BY <1>3, <1>4, <1>5, <1>6, <1>7, <1>8, ActorEnough DEF SessionOf

(* bt_gatt_notify.                                                          *)
LEMMA TellEffect ==
  ASSUME PongTyped, NEW d \in Player, NEW messages \in {{}, {"ball"}, {"lost"}},
         Tell(d, messages), UNCHANGED link
  PROVE  /\ events' \in [Player -> Seq(Events)] /\ \A x \in Player : Wire(x)
         /\ blame' \in [Player -> SUBSET Reasons]
         /\ \A x \in Player : x # d => blame'[x] = blame[x]
         /\ blame'[d] \in {blame[d], blame[d] \cup {"untold"}}
<1>1. /\ events \in [Player -> Seq(Events)] /\ Other(d) \in Player
      /\ blame \in [Player -> SUBSET Reasons]
  BY TwoBoards DEF PongTyped
<1>2. PICK why \in {{}, {"untold"}} : blame' = [blame EXCEPT ![d] = blame[d] \cup why]
  BY DEF Tell, Blamed
<1>3. \/ events' = events
      \/ /\ link.st = "up"
         /\ \E m \in {"ball", "lost"} : events' = [events EXCEPT ![Other(d)] = Append(events[Other(d)], m)]
  BY Zenon DEF Tell
<1>4. events' \in [Player -> Seq(Events)]
  <2>1. ASSUME NEW m \in {"ball", "lost"}
        PROVE  [events EXCEPT ![Other(d)] = Append(events[Other(d)], m)] \in [Player -> Seq(Events)]
    <3>1. Append(events[Other(d)], m) \in Seq(Events)
      BY <1>1, AppendProperties DEF Events
    <3> QED BY <1>1, <3>1
  <2> QED BY <1>1, <1>3, <2>1
<1>5. \A x \in Player : Wire(x)
  BY <1>3 DEF Wire
<1>6. /\ blame' \in [Player -> SUBSET Reasons]
      /\ \A x \in Player : x # d => blame'[x] = blame[x]
      /\ blame'[d] \in {blame[d], blame[d] \cup {"untold"}}
  <2>1. "untold" \in Reasons
    BY DEF Reasons
  <2> QED BY <1>1, <1>2, <2>1
<1> QED BY <1>4, <1>5, <1>6

(* main.c: game_refresh, a restart, a launch, and what the other board tells. *)
LEMMA GamePlayed ==
  ASSUME PongInv, NEW d \in Player,
         game_refresh(d) \/ PressToRestart(d) \/ PressToLaunch(d) \/ notify_func(d)
  PROVE  PongInv'
<1>1. /\ PongTyped /\ game[d] \in BoardRec /\ blame \in [Player -> SUBSET Reasons]
      /\ events \in [Player -> Seq(Events)]
  BY RadioFields DEF PongInv, PongTyped
<1>2. CASE game_refresh(d)
  <2>1. PICK r \in Refreshed(game[d]) : game' = [game EXCEPT ![d] = r.next] /\ Tell(d, r.tell)
    BY <1>2 DEF game_refresh
  <2>2. /\ r.next \in BoardRec /\ r.next.state = game[d].state /\ r.tell \in {{}, {"ball"}, {"lost"}}
        /\ game[d].state # "INIT" => (r.next.select <=> game[d].select)
    BY <1>1, RefreshedFacts
  <2>3. UNCHANGED <<ble, link>>
    BY <1>2 DEF game_refresh
  <2>4. /\ events' \in [Player -> Seq(Events)] /\ \A x \in Player : Wire(x)
        /\ blame' \in [Player -> SUBSET Reasons]
        /\ \A x \in Player : x # d => blame'[x] = blame[x]
        /\ blame'[d] \in {blame[d], blame[d] \cup {"untold"}}
    BY <1>1, <2>1, <2>2, <2>3, TellEffect
  <2>5. \A w \in {"late", "silent", "hasty"} : w \in blame'[d] <=> w \in blame[d]
    BY <2>4
  <2> QED BY <2>1, <2>2, <2>3, <2>4, <2>5, GameKeeps
<1>3. CASE PressToRestart(d)
  <2>1. PICK g : g = [restart(game[d]) EXCEPT !.refresh = FALSE]
    OBVIOUS
  <2>2. game' = [game EXCEPT ![d] = g] /\ UNCHANGED <<ble, link, events, blame>>
    BY <1>3, <2>1 DEF PressToRestart
  <2>3. g \in BoardRec /\ g.state = game[d].state /\ (g.select <=> game[d].select)
    BY <1>1, <2>1 DEF restart, game_init, BoardRec
  <2>4. \A x \in Player : Wire(x)
    BY <2>2 DEF Wire
  <2> QED BY <1>1, <2>2, <2>3, <2>4, GameKeeps
<1>4. CASE PressToLaunch(d)
  <2>1. PICK g : g = launch(game[d])
    OBVIOUS
  <2>2. /\ game' = [game EXCEPT ![d] = g] /\ UNCHANGED <<ble, link, events>>
        /\ \E why \in {{}, {"cheated"}} : blame' = [blame EXCEPT ![d] = blame[d] \cup why]
    BY <1>4, <2>1 DEF PressToLaunch, Blamed
  <2>3. g \in BoardRec /\ g.state = game[d].state /\ (g.select <=> game[d].select)
    BY <1>1, <2>1 DEF launch, BoardRec
  <2>4. \A x \in Player : Wire(x)
    BY <2>2 DEF Wire
  <2>5. /\ blame' \in [Player -> SUBSET Reasons]
        /\ \A x \in Player : x # d => blame'[x] = blame[x]
        /\ \A w \in {"late", "silent", "hasty"} : w \in blame'[d] <=> w \in blame[d]
    BY <1>1, <2>2 DEF Reasons
  <2> QED BY <1>1, <2>2, <2>3, <2>4, <2>5, GameKeeps
<1>5. CASE notify_func(d)
  <2>1. /\ UNCHANGED <<ble, link, blame>>
        /\ \E event \in {"ball", "lost"} : Delivered(d, event)
        /\ game' \in {[game EXCEPT ![d] = pong_ball_received(game[d])],
                      [game EXCEPT ![d] = pong_remote_lost(game[d])]}
    BY <1>5 DEF notify_func
  <2>2. PICK g : g \in {pong_ball_received(game[d]), pong_remote_lost(game[d])}
                 /\ game' = [game EXCEPT ![d] = g]
    BY <2>1
  <2>3. g \in BoardRec /\ g.state = game[d].state /\ (g.select <=> game[d].select)
    BY <1>1, <2>2 DEF pong_ball_received, pong_remote_lost, game_ended, BoardRec
  <2>4. PICK event \in {"ball", "lost"} : Delivered(d, event)
    BY <2>1
  <2>5. EndComes(d)
    BY DEF PongInv, SessionOf
  <2>6. /\ EndComes(d)' /\ events' \in [Player -> Seq(Events)]
        /\ \A x \in Player : x # d => Wire(x)
    <3>1. event \in Events /\ event # "disconnected" /\ link' = link
      BY <2>1 DEF Events
    <3> QED BY <1>1, <2>4, <2>5, <3>1, DeliveredKeepsEnd
  <2>7. game'[d] = g /\ \A x \in Player : x # d => game'[x] = game[x]
    BY <1>1, <2>2 DEF PongTyped
  <2>8. PongTyped'
    BY <1>1, <2>1, <2>2, <2>3, <2>6 DEF PongTyped
  <2>9. InSession(d) /\ Unwanted(d) /\ Looking(d)
    BY DEF PongInv, SessionOf
  <2>10. InSession(d)' /\ Looking(d)' /\ Unwanted(d)'
    BY <2>1, <2>3, <2>7, <2>9 DEF InSession, Looking, Unwanted
  <2>11. \A x \in Player : x # d => SessionOf(x)'
    BY <2>1, <2>6, <2>7, BystanderKeeps
  <2> QED BY <2>6, <2>8, <2>10, <2>11, ActorEnough DEF SessionOf
<1> QED BY <1>2, <1>3, <1>4, <1>5

(* ble.c and the mode: a step of one board's Bluetooth.                     *)
LEMMA RadioTyped ==
  ASSUME PongTyped, NEW d \in Player, NEW b \in RadioRec, ble' = [ble EXCEPT ![d] = b]
  PROVE  /\ ble' \in [Player -> RadioRec] /\ ble'[d] = b
         /\ \A x \in Player : x # d => ble'[x] = ble[x]
BY DEF PongTyped

LEMMA DeviceFoundKeeps ==
  ASSUME PongInv, NEW d \in Player, device_found(d)
  PROVE  PongInv'
<1>1. PongTyped /\ SessionOf(d) /\ ble[d] \in RadioRec
  BY RadioFields DEF PongInv
<1>2. UNCHANGED <<game, events, blame>>
  BY DEF device_found
<1>3. CASE ble[d].conn = "null" /\ link.st = "none"
  <2>1. PICK b : b = [ble[d] EXCEPT !.scanning = FALSE, !.conn = "live",
                                    !.state = "CONNECT_CREATE", !.work = TRUE]
    OBVIOUS
  <2>2. ble' = [ble EXCEPT ![d] = b] /\ link' = [st |-> "creating", master |-> d]
    BY <1>3, <2>1 DEF device_found
  <2>3. /\ b \in RadioRec /\ b.conn = "live" /\ b.state = "CONNECT_CREATE" /\ b.work
        /\ (b.handle <=> ble[d].handle) /\ (b.discovering <=> ble[d].discovering)
        /\ (b.canceled <=> ble[d].canceled)
    BY <1>1, <2>1 DEF RadioRec, RadioStates
  <2>4. /\ ble' \in [Player -> RadioRec] /\ ble'[d] = b
        /\ \A x \in Player : x # d => ble'[x] = ble[x]
    BY <1>1, <2>2, <2>3, RadioTyped
  <2>5. PongTyped' /\ link'.st = "creating"
    BY <1>1, <1>2, <2>2, <2>4 DEF PongTyped, LinkRec
  <2>6. \A x \in Player : Wire(x)
    BY <1>2, <1>3, <2>5 DEF Wire
  <2>7. InSession(d)'
    BY <1>1, <1>2, <1>3, <2>3, <2>4 DEF SessionOf, InSession
  <2>8. EndComes(d)'
    BY <1>1, <2>3, <2>4, <2>6, WireKeepsEnd DEF SessionOf
  <2>9. Unwanted(d)'
    BY <2>5 DEF Unwanted
  <2>10. Looking(d)'
    BY <1>1, <1>2, <2>3, <2>4 DEF SessionOf, Looking
  <2>11. \A x \in Player : x # d => SessionOf(x)'
    BY <1>2, <2>4, <2>6, BystanderKeeps
  <2> QED BY <2>5, <2>7, <2>8, <2>9, <2>10, <2>11, ActorEnough DEF SessionOf
<1>4. CASE ~ (ble[d].conn = "null" /\ link.st = "none")
  <2>1. PICK b : b = [ble[d] EXCEPT !.scanning = FALSE]
    OBVIOUS
  <2>2. ble' = [ble EXCEPT ![d] = b] /\ link' = link
    BY <1>1, <1>4, <2>1 DEF device_found, PongTyped
  <2>3. /\ b \in RadioRec /\ b.conn = ble[d].conn /\ b.state = ble[d].state /\ (b.work <=> ble[d].work)
        /\ (b.handle <=> ble[d].handle) /\ (b.discovering <=> ble[d].discovering)
        /\ (b.canceled <=> ble[d].canceled)
    BY <1>1, <2>1 DEF RadioRec, RadioStates
  <2>4. /\ ble' \in [Player -> RadioRec] /\ ble'[d] = b
        /\ \A x \in Player : x # d => ble'[x] = ble[x]
    BY <1>1, <2>2, <2>3, RadioTyped
  <2>5. PongTyped'
    BY <1>1, <1>2, <2>2, <2>4 DEF PongTyped
  <2>6. \A x \in Player : Wire(x)
    BY <1>2, <2>2 DEF Wire
  <2>7. InSession(d)' /\ EndComes(d)' /\ Unwanted(d)' /\ Looking(d)'
    BY <1>1, <1>2, <2>2, <2>3, <2>4 DEF SessionOf, InSession, EndComes, Unwanted, Looking
  <2>8. \A x \in Player : x # d => SessionOf(x)'
    BY <1>2, <2>4, <2>6, BystanderKeeps
  <2> QED BY <2>5, <2>7, <2>8, ActorEnough DEF SessionOf
<1> QED BY <1>3, <1>4

(* The work cancels what the player has called off.                         *)
LEMMA CancelConnectKeeps ==
  ASSUME PongInv, NEW d \in Player, cancel_connect(d)
  PROVE  PongInv'
<1>1. PongTyped /\ SessionOf(d) /\ ble[d] \in RadioRec
  BY RadioFields DEF PongInv
<1>2. UNCHANGED <<game, blame>> /\ ble[d].canceled
  BY DEF cancel_connect
<1>3. PICK conn : conn = IF ble[d].state = "CONNECT_CREATE" THEN ConnAfterDisconnect(d) ELSE ble[d].conn
  OBVIOUS
<1>4. conn \in {ble[d].conn, "stale"} /\ (ble[d].state # "CONNECT_CREATE" => conn = ble[d].conn)
  BY <1>3 DEF ConnAfterDisconnect
<1>0. PICK sc, ad : /\ sc = (ble[d].scanning /\ ble[d].state # "SCAN")
                   /\ ad = (ble[d].advertising /\ ble[d].state # "ADVERTISING")
  BY Zenon
<1> sc \in BOOLEAN /\ ad \in BOOLEAN
  BY <1>0, Zenon
<1>5. PICK b : b = [ble[d] EXCEPT
                 !.work = FALSE, !.canceled = FALSE, !.conn = conn, !.scanning = sc, !.advertising = ad,
                 !.state = IF ble[d].state = "CONNECTED" THEN "CONNECTED" ELSE "DISCONNECTED"]
  OBVIOUS
<1>6. ble' = [ble EXCEPT ![d] = b]
  BY <1>0, <1>3, <1>5, Zenon DEF cancel_connect
<1>7. /\ b \in RadioRec /\ b.conn = conn
      /\ b.state = IF ble[d].state = "CONNECTED" THEN "CONNECTED" ELSE "DISCONNECTED"
      /\ (b.handle <=> ble[d].handle) /\ (b.discovering <=> ble[d].discovering)
  BY <1>1, <1>4, <1>5 DEF RadioRec, RadioStates
<1>8. /\ ble' \in [Player -> RadioRec] /\ ble'[d] = b
      /\ \A x \in Player : x # d => ble'[x] = ble[x]
  BY <1>1, <1>6, <1>7, RadioTyped
<1>9. /\ link' \in LinkRec /\ events' \in [Player -> Seq(Events)]
      /\ \A x \in Player : Wire(x)
      /\ ble[d].state = "CONNECTED" /\ ble[d].conn = "live" => link'.st # "up"
  <2>1. CASE ble[d].state \in {"CONNECT_CREATE", "CONNECTED"}
    <3>1. Disconnect(d)
      BY <2>1 DEF cancel_connect
    <3> QED BY <1>1, <3>1, DisconnectEffect
  <2>2. CASE ble[d].state \notin {"CONNECT_CREATE", "CONNECTED"}
    <3>1. UNCHANGED <<link, events>>
      BY <2>2 DEF cancel_connect
    <3> QED BY <1>1, <2>2, <3>1 DEF PongTyped, Wire
  <2> QED BY <2>1, <2>2
<1>10. PongTyped'
  BY <1>1, <1>2, <1>8, <1>9 DEF PongTyped
<1>11. InSession(d)'
  BY <1>1, <1>2, <1>4, <1>7, <1>8 DEF SessionOf, InSession
<1>12. EndComes(d)'
  BY <1>1, <1>7, <1>8, <1>9, WireKeepsEnd DEF SessionOf
<1>13. Unwanted(d)'
  <2>1. ble'[d].state = "CONNECTED" /\ ble'[d].conn = "live" => link'.st # "up"
    BY <1>4, <1>7, <1>8, <1>9
  <2> QED BY <2>1 DEF Unwanted
<1>14. Looking(d)'
  BY <1>1, <1>2 DEF SessionOf, Looking
<1>15. \A x \in Player : x # d => SessionOf(x)'
  BY <1>2, <1>8, <1>9, BystanderKeeps
<1> QED BY <1>10, <1>11, <1>12, <1>13, <1>14, <1>15, ActorEnough DEF SessionOf

(* Each time-out of ble_work: what becomes of the board's radio.             *)
TimedOut(d, b) ==
  /\ (b.handle <=> ble[d].handle) /\ (b.canceled <=> ble[d].canceled)
  /\ \/ b.conn = ble[d].conn
     \/ ble[d].state = "CONNECT_CREATE" /\ b.conn = "stale"
  /\ b.discovering => \/ ble[d].discovering
                      \/ ble[d].conn = "live" /\ ble[d].state = "CONNECTED"
  /\ (b.state = "CONNECTED") <=> (ble[d].state = "CONNECTED")
  /\ ble[d].state \notin {"DISCONNECTED", "CONNECT_CANCEL"} =>
       /\ b.state \notin {"DISCONNECTED", "CONNECT_CANCEL"}
       /\ b.work \/ b.state = "CONNECTED" \/ "silent" \in blame'[d]

LEMMA TimeoutEffect ==
  ASSUME PongTyped, NEW d \in Player, ble_timeout(d)
  PROVE  /\ \E b \in RadioRec : ble' = [ble EXCEPT ![d] = b] /\ TimedOut(d, b)
         /\ blame' \in {blame, [blame EXCEPT ![d] = blame[d] \cup {"silent"}]}
         /\ \/ UNCHANGED <<link, events>>
            \/ Disconnect(d) /\ ble[d].state = "CONNECT_CREATE"
         /\ UNCHANGED game /\ ble[d].work /\ ~ ble[d].canceled
<1> DEFINE b0 == ble[d]
           Done == /\ \E b \in RadioRec : ble' = [ble EXCEPT ![d] = b] /\ TimedOut(d, b)
                   /\ blame' \in {blame, [blame EXCEPT ![d] = blame[d] \cup {"silent"}]}
                   /\ \/ UNCHANGED <<link, events>>
                      \/ Disconnect(d) /\ ble[d].state = "CONNECT_CREATE"
                   /\ UNCHANGED game /\ ble[d].work /\ ~ ble[d].canceled
<1> SUFFICES Done
  OBVIOUS
<1>1. /\ b0 \in RadioRec /\ blame \in [Player -> SUBSET Reasons]
      /\ UNCHANGED game /\ b0.work /\ ~ b0.canceled
  BY RadioFields DEF ble_timeout, PongTyped
<1>2. CASE b0.state \in {"DISCONNECTED", "CONNECT_CANCEL"}
  <2>1. PICK b : b = [b0 EXCEPT !.state = b0.state, !.work = FALSE]
    OBVIOUS
  <2>2. ble' = [ble EXCEPT ![d] = b] /\ UNCHANGED <<link, events, blame>>
    BY <1>2, <2>1 DEF ble_timeout
  <2>3. b \in RadioRec /\ TimedOut(d, b)
    BY <1>1, <1>2, <2>1, <2>2 DEF TimedOut, RadioRec
  <2> QED BY <1>1, <2>2, <2>3
<1>3. CASE b0.state = "SCAN_START"
  <2>1. PICK b, c : /\ b = [b0 EXCEPT !.state = "SCAN", !.work = TRUE]
                    /\ c = [b EXCEPT !.scanning = TRUE]
    OBVIOUS
  <2>2. ble' \in {[ble EXCEPT ![d] = b], [ble EXCEPT ![d] = c]} /\ UNCHANGED <<link, events, blame>>
    BY <1>3, <2>1 DEF ble_timeout
  <2>3. ble' = [ble EXCEPT ![d] = b] => b \in RadioRec /\ TimedOut(d, b)
    BY <1>1, <1>3, <2>1, <2>2 DEF TimedOut, RadioRec, RadioStates
  <2>4. ble' = [ble EXCEPT ![d] = c] => c \in RadioRec /\ TimedOut(d, c)
    BY <1>1, <1>3, <2>1, <2>2 DEF TimedOut, RadioRec, RadioStates
  <2> QED BY <1>1, <2>2, <2>3, <2>4
<1>4. CASE b0.state = "CONNECT_CREATE"
  <2>1. PICK conn : conn = ConnAfterDisconnect(d)
    OBVIOUS
  <2>2. conn \in {b0.conn, "stale"}
    BY <2>1 DEF ConnAfterDisconnect
  <2>3. PICK a, b : /\ a = [b0 EXCEPT !.state = "ADV_START", !.work = TRUE]
                    /\ b = [a EXCEPT !.conn = conn]
    OBVIOUS
  <2>4. ble' = [ble EXCEPT ![d] = b] /\ Disconnect(d) /\ UNCHANGED blame
    BY <1>4, <2>1, <2>3 DEF ble_timeout
  <2>5. b \in RadioRec /\ TimedOut(d, b)
    BY <1>1, <1>4, <2>2, <2>3, <2>4 DEF TimedOut, RadioRec, RadioStates
  <2> QED BY <1>1, <1>4, <2>4, <2>5
<1>5. CASE b0.state = "SCAN"
  <2>1. PICK a, b : /\ a = [b0 EXCEPT !.state = "ADV_START", !.work = TRUE]
                    /\ b = [a EXCEPT !.scanning = FALSE]
    OBVIOUS
  <2>2. ble' = [ble EXCEPT ![d] = b] /\ UNCHANGED <<link, events, blame>>
    BY <1>5, <2>1 DEF ble_timeout
  <2>3. b \in RadioRec /\ TimedOut(d, b)
    BY <1>1, <1>5, <2>1, <2>2 DEF TimedOut, RadioRec, RadioStates
  <2> QED BY <1>1, <2>2, <2>3
<1>6. CASE b0.state = "ADV_START"
  <2>1. PICK a, b, c : /\ a = [b0 EXCEPT !.state = "ADVERTISING", !.work = TRUE]
                       /\ b = [a EXCEPT !.advertising = TRUE]
                       /\ c = [b0 EXCEPT !.state = "ADV_START", !.work = FALSE]
    OBVIOUS
  <2>2. /\ UNCHANGED <<link, events>>
        /\ \/ ble' = [ble EXCEPT ![d] = b] /\ UNCHANGED blame
           \/ ble' = [ble EXCEPT ![d] = c] /\ blame' = [blame EXCEPT ![d] = blame[d] \cup {"silent"}]
    BY <1>6, <2>1 DEF ble_timeout, Blamed
  <2>3. ble' = [ble EXCEPT ![d] = b] => b \in RadioRec /\ TimedOut(d, b)
    BY <1>1, <1>6, <2>1 DEF TimedOut, RadioRec, RadioStates
  <2>4. ble' = [ble EXCEPT ![d] = c] /\ "silent" \in blame'[d] => c \in RadioRec /\ TimedOut(d, c)
    BY <1>1, <1>6, <2>1 DEF TimedOut, RadioRec, RadioStates
  <2> QED BY <1>1, <2>2, <2>3, <2>4
<1>7. CASE b0.state = "ADVERTISING"
  <2>1. PICK a, b : /\ a = [b0 EXCEPT !.state = "SCAN_START", !.work = TRUE]
                    /\ b = [a EXCEPT !.advertising = FALSE]
    OBVIOUS
  <2>2. ble' = [ble EXCEPT ![d] = b] /\ UNCHANGED <<link, events, blame>>
    BY <1>7, <2>1 DEF ble_timeout
  <2>3. b \in RadioRec /\ TimedOut(d, b)
    BY <1>1, <1>7, <2>1, <2>2 DEF TimedOut, RadioRec, RadioStates
  <2> QED BY <1>1, <2>2, <2>3
<1>8. CASE b0.state = "CONNECTED"
  <2>0. PICK di : di = (b0.conn = "live" /\ link.st = "up")
    BY Zenon
  <2>1. di \in BOOLEAN /\ (di <=> b0.conn = "live" /\ link.st = "up")
    BY <2>0, Zenon
  <2>2. PICK a, b : /\ a = [b0 EXCEPT !.state = "CONNECTED", !.work = FALSE]
                    /\ b = [a EXCEPT !.discovering = di]
    OBVIOUS
  <2>3. ble' = [ble EXCEPT ![d] = b]
    BY <1>8, <2>0, <2>2, Zenon DEF ble_timeout
  <2>4. UNCHANGED <<link, events, blame>>
    BY <1>8 DEF ble_timeout
  <2>5. b \in RadioRec /\ TimedOut(d, b)
    BY <1>1, <1>8, <2>1, <2>2, <2>3 DEF TimedOut, RadioRec, RadioStates
  <2> QED BY <1>1, <2>3, <2>4, <2>5
<1>9. b0.state \in RadioStates
  BY <1>1 DEF RadioRec
<1>10. \/ b0.state \in {"DISCONNECTED", "CONNECT_CANCEL"} \/ b0.state = "SCAN_START"
       \/ b0.state = "CONNECT_CREATE" \/ b0.state = "SCAN" \/ b0.state = "ADV_START"
       \/ b0.state = "ADVERTISING" \/ b0.state = "CONNECTED"
  BY <1>9 DEF RadioStates
<1> HIDE DEF b0, Done
<1> QED BY <1>2, <1>3, <1>4, <1>5, <1>6, <1>7, <1>8, <1>10

LEMMA TimeoutKeeps ==
  ASSUME PongInv, NEW d \in Player, ble_timeout(d)
  PROVE  PongInv'
<1>1. PongTyped /\ SessionOf(d) /\ ble[d] \in RadioRec /\ blame \in [Player -> SUBSET Reasons]
  BY RadioFields DEF PongInv, PongTyped
<1>2. PICK b \in RadioRec : ble' = [ble EXCEPT ![d] = b] /\ TimedOut(d, b)
  BY <1>1, TimeoutEffect
<1>3. /\ blame' \in {blame, [blame EXCEPT ![d] = blame[d] \cup {"silent"}]}
      /\ \/ UNCHANGED <<link, events>>
         \/ Disconnect(d) /\ ble[d].state = "CONNECT_CREATE"
      /\ UNCHANGED game /\ ble[d].work /\ ~ ble[d].canceled
  BY <1>1, TimeoutEffect
<1>4. /\ ble' \in [Player -> RadioRec] /\ ble'[d] = b
      /\ \A x \in Player : x # d => ble'[x] = ble[x]
  BY <1>1, <1>2, RadioTyped
<1>5. /\ link' \in LinkRec /\ events' \in [Player -> Seq(Events)]
      /\ \A x \in Player : Wire(x)
      /\ link'.st = "up" => link.st = "up"
  <2>1. CASE UNCHANGED <<link, events>>
    BY <1>1, <2>1 DEF PongTyped, Wire
  <2>2. CASE Disconnect(d)
    BY <1>1, <2>2, DisconnectEffect
  <2> QED BY <1>3, <2>1, <2>2
<1>6. /\ blame' \in [Player -> SUBSET Reasons]
      /\ \A x \in Player : x # d => blame'[x] = blame[x]
      /\ blame[d] \subseteq blame'[d] /\ ("hasty" \in blame'[d] => "hasty" \in blame[d])
  <2>1. "silent" \in Reasons
    BY DEF Reasons
  <2> QED BY <1>1, <1>3, <2>1
<1>7. PongTyped'
  BY <1>1, <1>3, <1>4, <1>5, <1>6 DEF PongTyped
<1>8. InSession(d)'
  BY <1>1, <1>2, <1>3, <1>4 DEF SessionOf, InSession, TimedOut
<1>9. EndComes(d)'
  BY <1>1, <1>2, <1>4, <1>5, WireKeepsEnd DEF SessionOf, TimedOut
<1>10. Unwanted(d)'
  BY <1>1, <1>2, <1>3, <1>4, <1>5, <1>6 DEF SessionOf, Unwanted, TimedOut
<1>11. Looking(d)'
  BY <1>1, <1>2, <1>3, <1>4, <1>6 DEF SessionOf, Looking, TimedOut
<1>12. \A x \in Player : x # d => SessionOf(x)'
  BY <1>3, <1>4, <1>5, <1>6, BystanderKeeps
<1> QED BY <1>7, <1>8, <1>9, <1>10, <1>11, <1>12, ActorEnough DEF SessionOf

(* The game begins.                                                         *)
LEMMA ReadyEffect ==
  ASSUME PongTyped, NEW d \in Player, Ready(d)
  PROVE  /\ game' \in [Player -> BoardRec] /\ blame' \in [Player -> SUBSET Reasons]
         /\ \A x \in Player : x # d => game'[x] = game[x] /\ blame'[x] = blame[x]
         /\ game'[d].state = "CONNECTED" /\ (game'[d].select <=> game[d].select)
         /\ ("late" \in blame[d]) => ("late" \in blame'[d])
<1>1. /\ game[d] \in BoardRec /\ ble[d] \in RadioRec /\ game \in [Player -> BoardRec]
      /\ blame \in [Player -> SUBSET Reasons]
  BY RadioFields DEF PongTyped
<1>2. PICK p, g : p = [game[d] EXCEPT !.state = "CONNECTED"] /\ g = game_init(p, ble[d].initiator)
  OBVIOUS
<1>3. game' = [game EXCEPT ![d] = g]
  BY <1>2 DEF Ready, pong_conn_ready
<1>4. p \in BoardRec /\ p.state = "CONNECTED" /\ (p.select <=> game[d].select)
  BY <1>1, <1>2 DEF BoardRec, GameStates
<1>5. g \in BoardRec /\ g.state = "CONNECTED" /\ (g.select <=> p.select)
  BY <1>2, <1>4 DEF BoardRec, game_init
<1>6. PICK why \in {{}, {"leftover"}} : blame' = [blame EXCEPT ![d] = (blame[d] \cap {"late"}) \cup why]
  BY DEF Ready
<1>7. /\ game' \in [Player -> BoardRec] /\ game'[d] = g
      /\ \A x \in Player : x # d => game'[x] = game[x]
  BY <1>1, <1>3, <1>5
<1>8. /\ blame' \in [Player -> SUBSET Reasons] /\ blame'[d] = (blame[d] \cap {"late"}) \cup why
      /\ \A x \in Player : x # d => blame'[x] = blame[x]
  <2>1. (blame[d] \cap {"late"}) \cup why \in SUBSET Reasons
    BY <1>1 DEF Reasons
  <2> QED BY <1>1, <1>6, <2>1
<1> QED BY <1>4, <1>5, <1>7, <1>8

(* Both subscriptions: this board's ...                                     *)
LEMMA DiscoverKeeps ==
  ASSUME PongInv, NEW d \in Player, discover_func(d)
  PROVE  PongInv'
<1>1. /\ PongTyped /\ SessionOf(d) /\ ble[d] \in RadioRec /\ blame \in [Player -> SUBSET Reasons]
      /\ events \in [Player -> Seq(Events)] /\ Other(d) \in Player
  BY RadioFields, TwoBoards DEF PongInv, PongTyped
<1>2. ble[d].discovering /\ link.st = "up" /\ link' = link
  BY DEF discover_func
<1>3. ble[d].conn = "live" /\ ble[d].state = "CONNECTED"
  BY <1>1, <1>2 DEF SessionOf, InSession
<1>4. PICK a, b : a = [ble[d] EXCEPT !.discovering = FALSE] /\ b = [a EXCEPT !.handle = TRUE]
  OBVIOUS
<1>5. ble' = [ble EXCEPT ![d] = b]
  BY <1>1, <1>4 DEF discover_func, PongTyped
<1>6. /\ b \in RadioRec /\ b.conn = "live" /\ b.state = "CONNECTED"
      /\ (b.canceled <=> ble[d].canceled)
  BY <1>1, <1>3, <1>4 DEF RadioRec
<1>7. /\ ble' \in [Player -> RadioRec] /\ ble'[d] = b
      /\ \A x \in Player : x # d => ble'[x] = ble[x]
  BY <1>1, <1>5, <1>6, RadioTyped
<1>8. events' \in [Player -> Seq(Events)]
  <2>1. Append(events[Other(d)], "ccc") \in Seq(Events)
    BY <1>1, AppendProperties DEF Events
  <2>2. [events EXCEPT ![Other(d)] = Append(events[Other(d)], "ccc")] \in [Player -> Seq(Events)]
    BY <1>1, <2>1
  <2>3. events' = [events EXCEPT ![Other(d)] = Append(events[Other(d)], "ccc")] \/ events' = events
    BY DEF discover_func
  <2> QED BY <1>1, <2>2, <2>3
<1>9. \A x \in Player : Wire(x)
  BY <1>2 DEF Wire
<1>10. Ready(d) \/ UNCHANGED <<game, blame>>
  BY DEF discover_func
<1>11. /\ game' \in [Player -> BoardRec] /\ blame' \in [Player -> SUBSET Reasons]
       /\ \A x \in Player : x # d => game'[x] = game[x] /\ blame'[x] = blame[x]
       /\ (game'[d].select <=> game[d].select)
       /\ ("late" \in blame[d]) => ("late" \in blame'[d])
       /\ \/ game'[d].state = "CONNECTED"
          \/ game'[d] = game[d] /\ blame'[d] = blame[d]
  BY <1>1, <1>10, ReadyEffect DEF PongTyped
<1>12. PongTyped'
  BY <1>1, <1>2, <1>7, <1>8, <1>11 DEF PongTyped
<1>13. InSession(d)'
  BY <1>1, <1>6, <1>7, <1>11 DEF SessionOf, InSession
<1>14. EndComes(d)'
  BY <1>2 DEF EndComes
<1>15. Unwanted(d)'
  BY <1>1, <1>2, <1>3, <1>6, <1>7, <1>11 DEF SessionOf, Unwanted
<1>16. Looking(d)'
  BY <1>1, <1>6, <1>7, <1>11 DEF SessionOf, Looking
<1>17. \A x \in Player : x # d => SessionOf(x)'
  BY <1>7, <1>9, <1>11, BystanderKeeps
<1> QED BY <1>12, <1>13, <1>14, <1>15, <1>16, <1>17, ActorEnough DEF SessionOf

(* ... and the other's.                                                     *)
LEMMA SubscribedKeeps ==
  ASSUME PongInv, NEW d \in Player, pong_ccc_cfg_changed(d)
  PROVE  PongInv'
<1>1. /\ PongTyped /\ SessionOf(d) /\ ble[d] \in RadioRec /\ blame \in [Player -> SUBSET Reasons]
  BY RadioFields DEF PongInv, PongTyped
<1>2. Delivered(d, "ccc") /\ link' = link
  BY DEF pong_ccc_cfg_changed
<1>3. PICK b : b = [ble[d] EXCEPT !.ready = TRUE]
  OBVIOUS
<1>4. ble' = [ble EXCEPT ![d] = b]
  BY <1>1, <1>3 DEF pong_ccc_cfg_changed, PongTyped
<1>5. /\ b \in RadioRec /\ b.conn = ble[d].conn /\ b.state = ble[d].state
      /\ (b.handle <=> ble[d].handle) /\ (b.discovering <=> ble[d].discovering)
      /\ (b.canceled <=> ble[d].canceled) /\ (b.work <=> ble[d].work)
  BY <1>1, <1>3 DEF RadioRec
<1>6. /\ ble' \in [Player -> RadioRec] /\ ble'[d] = b
      /\ \A x \in Player : x # d => ble'[x] = ble[x]
  BY <1>1, <1>4, <1>5, RadioTyped
<1>7. /\ EndComes(d)' /\ events' \in [Player -> Seq(Events)]
      /\ \A x \in Player : x # d => Wire(x)
  <2>1. "ccc" \in Events
    BY DEF Events
  <2> QED BY <1>1, <1>2, <2>1, DeliveredKeepsEnd DEF SessionOf
<1>8. (Ready(d) /\ ble[d].handle) \/ UNCHANGED <<game, blame>>
  BY DEF pong_ccc_cfg_changed
<1>9. /\ game' \in [Player -> BoardRec] /\ blame' \in [Player -> SUBSET Reasons]
      /\ \A x \in Player : x # d => game'[x] = game[x] /\ blame'[x] = blame[x]
      /\ (game'[d].select <=> game[d].select)
      /\ ("late" \in blame[d]) => ("late" \in blame'[d])
      /\ \/ game'[d].state = "CONNECTED" /\ ble[d].handle
         \/ game'[d] = game[d] /\ blame'[d] = blame[d]
  BY <1>1, <1>8, ReadyEffect DEF PongTyped
<1>10. PongTyped'
  BY <1>1, <1>2, <1>6, <1>7, <1>9 DEF PongTyped
<1>11. InSession(d)'
  BY <1>1, <1>5, <1>6, <1>9 DEF SessionOf, InSession
<1>12. Unwanted(d)'
  BY <1>1, <1>2, <1>5, <1>6, <1>9 DEF SessionOf, Unwanted
<1>13. Looking(d)'
  BY <1>1, <1>5, <1>6, <1>9 DEF SessionOf, Looking
<1>14. \A x \in Player : x # d => SessionOf(x)'
  BY <1>6, <1>7, <1>9, BystanderKeeps
<1> QED BY <1>7, <1>10, <1>11, <1>12, <1>13, <1>14, ActorEnough DEF SessionOf

(* A connection begins, ...                                                 *)
LEMMA ConnectedKeeps ==
  ASSUME PongInv, NEW d \in Player, NEW role \in {"master", "slave"}, connected(d, role)
  PROVE  PongInv'
<1>1. PongTyped /\ SessionOf(d) /\ ble[d] \in RadioRec /\ blame \in [Player -> SUBSET Reasons]
  BY RadioFields DEF PongInv, PongTyped
<1>2. Delivered(d, role) /\ UNCHANGED <<game, link>>
  BY DEF connected
<1>3. PICK ad, in, conn :
        /\ ad = (ble[d].advertising /\ ble[d].state # "ADVERTISING") /\ in = (role = "master")
        /\ conn = IF ble[d].conn = "null" THEN "live" ELSE ble[d].conn
  BY Zenon
<1>4. ad \in BOOLEAN /\ in \in BOOLEAN
  BY <1>3, Zenon
<1>5. conn \in {"live", "stale"}
  BY <1>1, <1>3 DEF RadioRec
<1>6. PICK b : b = [ble[d] EXCEPT !.advertising = ad, !.conn = conn, !.initiator = in, !.ready = FALSE,
                                  !.handle = FALSE, !.state = "CONNECTED", !.work = TRUE]
  OBVIOUS
<1>7. ble' = [ble EXCEPT ![d] = b]
  BY <1>3, <1>6, Zenon DEF connected
<1>8. /\ b \in RadioRec /\ b.conn \in {"live", "stale"} /\ b.state = "CONNECTED"
      /\ ~ b.handle /\ (b.discovering <=> ble[d].discovering) /\ (b.canceled <=> ble[d].canceled)
  BY <1>1, <1>4, <1>5, <1>6 DEF RadioRec, RadioStates
<1>9. /\ ble' \in [Player -> RadioRec] /\ ble'[d] = b
      /\ \A x \in Player : x # d => ble'[x] = ble[x]
  BY <1>1, <1>7, <1>8, RadioTyped
<1>17. ble[d].conn = "live" => b.conn = "live"
  <2>1. ble[d].conn = "live" => conn = "live"
    BY <1>3
  <2>2. b.conn = conn
    BY <1>1, <1>6 DEF RadioRec
  <2> QED BY <2>1, <2>2
<1>10. /\ EndComes(d)' /\ events' \in [Player -> Seq(Events)]
       /\ \A x \in Player : x # d => Wire(x)
  <2>1. role \in Events /\ role # "disconnected"
    BY DEF Events
  <2> QED BY <1>1, <1>2, <2>1, DeliveredKeepsEnd DEF SessionOf
<1>11. /\ blame' \in [Player -> SUBSET Reasons]
       /\ \A x \in Player : x # d => blame'[x] = blame[x]
       /\ game[d].state # "MULTI" => "late" \in blame'[d]
       /\ ("hasty" \in blame[d]) => ("hasty" \in blame'[d])
  <2>1. PICK why : why = IF game[d].state = "MULTI" THEN {} ELSE {"late"}
    OBVIOUS
  <2>2. why \in SUBSET Reasons /\ (game[d].state # "MULTI" => "late" \in why)
    BY <2>1 DEF Reasons
  <2>3. blame' = [blame EXCEPT ![d] = blame[d] \cup why]
    BY <2>1 DEF connected, Blamed
  <2>4. blame'[d] = blame[d] \cup why /\ \A x \in Player : x # d => blame'[x] = blame[x]
    BY <1>1, <2>3
  <2>5. blame[d] \cup why \in SUBSET Reasons
    BY <1>1, <2>2
  <2>6. blame' \in [Player -> SUBSET Reasons]
    BY <1>1, <2>3, <2>5
  <2> QED BY <2>2, <2>4, <2>6
<1>12. PongTyped'
  BY <1>1, <1>2, <1>9, <1>10, <1>11 DEF PongTyped
<1>13. InSession(d)'
  BY <1>1, <1>2, <1>8, <1>9, <1>17 DEF SessionOf, InSession
<1>14. Unwanted(d)'
  <2>1. game[d].state = "MULTI" => ~ game[d].select
    BY <1>1 DEF SessionOf, InSession
  <2> QED BY <1>2, <1>11, <2>1 DEF Unwanted
<1>15. Looking(d)'
  BY <1>1, <1>2, <1>8, <1>9, <1>11 DEF SessionOf, Looking
<1>16. \A x \in Player : x # d => SessionOf(x)'
  BY <1>2, <1>9, <1>10, <1>11, BystanderKeeps
<1> QED BY <1>10, <1>12, <1>13, <1>14, <1>15, <1>16, ActorEnough DEF SessionOf

(* ... and ends.                                                            *)
LEMMA DisconnectedKeeps ==
  ASSUME PongInv, NEW d \in Player, disconnected(d)
  PROVE  PongInv'
<1>1. PongTyped /\ SessionOf(d) /\ ble[d] \in RadioRec /\ game[d] \in BoardRec
  BY RadioFields DEF PongInv
<1>2. Delivered(d, "disconnected") /\ UNCHANGED <<link, blame>>
  BY DEF disconnected
<1>3. PICK st : st = IF ble[d].state = "CONNECTED" THEN "DISCONNECTED" ELSE ble[d].state
  OBVIOUS
<1>4. PICK b : b = [ble[d] EXCEPT !.conn = "null", !.handle = FALSE, !.discovering = FALSE, !.state = st]
  OBVIOUS
<1>5. ble' = [ble EXCEPT ![d] = b]
  BY <1>3, <1>4 DEF disconnected
<1>6. /\ b \in RadioRec /\ b.conn = "null" /\ b.state = st /\ ~ b.handle /\ ~ b.discovering
      /\ (b.canceled <=> ble[d].canceled) /\ (b.work <=> ble[d].work) /\ st # "CONNECTED"
  BY <1>1, <1>3, <1>4 DEF RadioRec, RadioStates
<1>7. /\ ble' \in [Player -> RadioRec] /\ ble'[d] = b
      /\ \A x \in Player : x # d => ble'[x] = ble[x]
  BY <1>1, <1>5, <1>6, RadioTyped
<1>8. PICK g : g = IF ble[d].state = "CONNECTED" THEN pong_remote_disconnected(game[d]) ELSE game[d]
  OBVIOUS
<1>9. game' = [game EXCEPT ![d] = g]
  BY <1>1, <1>8 DEF disconnected, PongTyped
<1>10. /\ g \in BoardRec /\ (g.select <=> game[d].select)
       /\ IF ble[d].state = "CONNECTED" THEN g.state = "INIT" ELSE g.state = game[d].state
  BY <1>1, <1>8 DEF BoardRec, GameStates, pong_remote_disconnected
<1>11. /\ game' \in [Player -> BoardRec] /\ game'[d] = g
       /\ \A x \in Player : x # d => game'[x] = game[x]
  BY <1>1, <1>9, <1>10 DEF PongTyped
<1>12. /\ EndComes(d)' /\ events' \in [Player -> Seq(Events)]
       /\ \A x \in Player : x # d => Wire(x)
  <2>1. "disconnected" \in Events /\ ble'[d].state # "CONNECTED"
    BY <1>6, <1>7 DEF Events
  <2> QED BY <1>1, <1>2, <2>1, DeliveredKeepsEnd DEF SessionOf
<1>13. PongTyped'
  BY <1>1, <1>2, <1>7, <1>11, <1>12 DEF PongTyped
<1>14. InSession(d)'
  BY <1>1, <1>6, <1>7, <1>10, <1>11 DEF SessionOf, InSession
<1>15. Unwanted(d)'
  BY <1>6, <1>7 DEF Unwanted
<1>16. Looking(d)'
  BY <1>1, <1>2, <1>3, <1>6, <1>7, <1>10, <1>11 DEF SessionOf, Looking
<1>17. \A x \in Player : x # d => SessionOf(x)'
  BY <1>2, <1>7, <1>11, <1>12, BystanderKeeps
<1> QED BY <1>12, <1>13, <1>14, <1>15, <1>16, <1>17, ActorEnough DEF SessionOf

(* The player calls "Connecting..." off, ...                                *)
LEMMA PressToCancelKeeps ==
  ASSUME PongInv, NEW d \in Player, PressToCancel(d)
  PROVE  PongInv'
<1>1. PongTyped /\ SessionOf(d) /\ ble[d] \in RadioRec /\ game[d] \in BoardRec
  BY RadioFields DEF PongInv
<1>2. UNCHANGED <<link, events, blame>>
  BY DEF PressToCancel
<1>3. PICK b : b = ble_cancel_connect(ble[d])
  OBVIOUS
<1>4. ble' = [ble EXCEPT ![d] = b]
  BY <1>3 DEF PressToCancel
<1>5. /\ b \in RadioRec /\ b.conn = ble[d].conn
      /\ (b.state = "CONNECTED") <=> (ble[d].state = "CONNECTED")
      /\ (b.handle <=> ble[d].handle) /\ (b.discovering <=> ble[d].discovering)
      /\ b.state = "CONNECTED" => b.canceled
  <2>1. ble[d].state \in RadioStates
    BY <1>1 DEF RadioRec
  <2>2. CASE ble[d].state \in {"DISCONNECTED", "CONNECT_CANCEL"}
    <3>1. b = [ble[d] EXCEPT !.work = FALSE]
      BY <1>3, <2>2 DEF ble_cancel_connect
    <3> QED BY <1>1, <2>2, <3>1 DEF RadioRec
  <2>3. CASE ble[d].state \in {"SCAN_START", "ADV_START"}
    <3>1. b = [ble[d] EXCEPT !.work = FALSE, !.state = "DISCONNECTED"]
      BY <1>3, <2>3 DEF ble_cancel_connect
    <3> QED BY <1>1, <2>3, <3>1 DEF RadioRec, RadioStates
  <2>4. CASE ble[d].state \in {"SCAN", "ADVERTISING", "CONNECTED"}
    <3>1. b = [ble[d] EXCEPT !.work = TRUE, !.canceled = TRUE]
      BY <1>3, <2>4 DEF ble_cancel_connect
    <3> QED BY <1>1, <2>4, <3>1 DEF RadioRec
  <2>5. CASE ble[d].state = "CONNECT_CREATE"
    <3>1. b = [ble[d] EXCEPT !.work = TRUE, !.canceled = TRUE, !.state = "CONNECT_CANCEL"]
      BY <1>3, <2>5 DEF ble_cancel_connect
    <3> QED BY <1>1, <2>5, <3>1 DEF RadioRec, RadioStates
  <2>6. \/ ble[d].state \in {"DISCONNECTED", "CONNECT_CANCEL"} \/ ble[d].state \in {"SCAN_START", "ADV_START"}
        \/ ble[d].state \in {"SCAN", "ADVERTISING", "CONNECTED"} \/ ble[d].state = "CONNECT_CREATE"
    BY <2>1 DEF RadioStates
  <2> QED BY <2>2, <2>3, <2>4, <2>5, <2>6, Zenon
<1>6. /\ ble' \in [Player -> RadioRec] /\ ble'[d] = b
      /\ \A x \in Player : x # d => ble'[x] = ble[x]
  BY <1>1, <1>4, <1>5, RadioTyped
<1>7. PICK p, g : p = [game[d] EXCEPT !.state = "INIT"] /\ g = pong_select(p)
  OBVIOUS
<1>8. game' = [game EXCEPT ![d] = g]
  BY <1>7 DEF PressToCancel
<1>9. g \in BoardRec /\ g.state = "INIT"
  BY <1>1, <1>7 DEF BoardRec, GameStates, pong_select
<1>10. /\ game' \in [Player -> BoardRec] /\ game'[d] = g
       /\ \A x \in Player : x # d => game'[x] = game[x]
  BY <1>1, <1>8, <1>9 DEF PongTyped
<1>11. PongTyped'
  BY <1>1, <1>2, <1>6, <1>10 DEF PongTyped
<1>12. \A x \in Player : Wire(x)
  BY <1>2 DEF Wire
<1>13. InSession(d)'
  BY <1>1, <1>5, <1>6, <1>9, <1>10 DEF SessionOf, InSession
<1>14. EndComes(d)'
  BY <1>1, <1>5, <1>6, <1>12, WireKeepsEnd DEF SessionOf
<1>15. Unwanted(d)'
  BY <1>5, <1>6 DEF Unwanted
<1>16. Looking(d)'
  BY <1>9, <1>10 DEF Looking
<1>17. \A x \in Player : x # d => SessionOf(x)'
  BY <1>2, <1>6, <1>10, <1>12, BystanderKeeps
<1> QED BY <1>11, <1>13, <1>14, <1>15, <1>16, <1>17, ActorEnough DEF SessionOf

(* ... or chooses what to play.                                             *)
LEMMA PressToSelectKeeps ==
  ASSUME PongInv, NEW d \in Player, PressToSelect(d)
  PROVE  PongInv'
<1>1. /\ PongTyped /\ SessionOf(d) /\ ble[d] \in RadioRec /\ game[d] \in BoardRec
      /\ blame \in [Player -> SUBSET Reasons]
  BY RadioFields DEF PongInv, PongTyped
<1>2. UNCHANGED <<link, events>> /\ game[d].state # "MULTI" /\ game[d].select
  BY DEF PressToSelect
<1>3. PICK p, s, m : /\ p = [game[d] EXCEPT !.select = FALSE]
                     /\ s = game_init([p EXCEPT !.state = "SINGLE"], TRUE)
                     /\ m = [p EXCEPT !.state = "MULTI"]
  OBVIOUS
<1>4. PICK g, b : /\ game' = [game EXCEPT ![d] = g] /\ ble' = [ble EXCEPT ![d] = b]
                  /\ \/ g = s /\ b = ble[d]
                     \/ g = m /\ b = ble_connect(ble[d])
  <2>1. ble = [ble EXCEPT ![d] = ble[d]]
    BY <1>1 DEF PongTyped
  <2> QED BY <1>3, <2>1 DEF PressToSelect
<1>5. p \in BoardRec /\ ~ p.select
  BY <1>1, <1>3 DEF BoardRec
<1>6. s \in BoardRec /\ ~ s.select /\ s.state = "SINGLE" /\ m \in BoardRec /\ ~ m.select /\ m.state = "MULTI"
  <2>1. m \in BoardRec /\ ~ m.select /\ m.state = "MULTI"
    BY <1>3, <1>5 DEF BoardRec, GameStates
  <2>2. PICK p1 : p1 = [p EXCEPT !.state = "SINGLE"]
    OBVIOUS
  <2>3. p1 \in BoardRec /\ ~ p1.select /\ p1.state = "SINGLE"
    BY <1>5, <2>2 DEF BoardRec, GameStates
  <2>4. s = [p1 EXCEPT !.started = FALSE, !.ended = FALSE, !.ball = "here"]
    BY <1>3, <2>2 DEF game_init
  <2>5. s \in BoardRec /\ ~ s.select /\ s.state = "SINGLE"
    BY <2>3, <2>4 DEF BoardRec
  <2> QED BY <2>1, <2>5
<1>7. PICK c : c = ble_connect(ble[d])
  OBVIOUS
<1>8. /\ c \in RadioRec /\ c.conn = ble[d].conn /\ (c.canceled <=> ble[d].canceled)
      /\ (c.handle <=> ble[d].handle) /\ (c.discovering <=> ble[d].discovering)
      /\ (c.state = "CONNECTED") <=> (ble[d].state = "CONNECTED")
      /\ ble[d].state = "DISCONNECTED" => c.state = "SCAN_START" /\ c.work
  <2>1. CASE ble[d].state = "DISCONNECTED"
    <3>1. c = [ble[d] EXCEPT !.state = "SCAN_START", !.work = TRUE]
      BY <1>7, <2>1 DEF ble_connect
    <3> QED BY <1>1, <2>1, <3>1 DEF RadioRec, RadioStates
  <2>2. CASE ble[d].state # "DISCONNECTED"
    BY <1>1, <1>7, <2>2 DEF ble_connect
  <2> QED BY <2>1, <2>2
<1>9. /\ b \in RadioRec /\ b.conn = ble[d].conn /\ (b.canceled <=> ble[d].canceled)
      /\ (b.handle <=> ble[d].handle) /\ (b.discovering <=> ble[d].discovering)
      /\ (b.state = "CONNECTED") <=> (ble[d].state = "CONNECTED")
      /\ g \in BoardRec /\ ~ g.select /\ g.state \in {"SINGLE", "MULTI"}
      /\ g.state = "MULTI" /\ ble[d].state = "DISCONNECTED" => b.state = "SCAN_START" /\ b.work
  BY <1>1, <1>4, <1>6, <1>7, <1>8
<1>10. /\ ble' \in [Player -> RadioRec] /\ ble'[d] = b
       /\ \A x \in Player : x # d => ble'[x] = ble[x]
  BY <1>1, <1>4, <1>9, RadioTyped
<1>11. /\ game' \in [Player -> BoardRec] /\ game'[d] = g
       /\ \A x \in Player : x # d => game'[x] = game[x]
  BY <1>1, <1>4, <1>9 DEF PongTyped
<1>12. PICK why : /\ why = IF ble[d].state = "DISCONNECTED" /\ ~ ble[d].canceled THEN {} ELSE {"hasty"}
                  /\ blame' = [blame EXCEPT ![d] = why]
  BY DEF PressToSelect
<1>13. /\ why \in SUBSET Reasons
       /\ ("hasty" \notin why) => (ble[d].state = "DISCONNECTED" /\ ~ ble[d].canceled)
  BY <1>12 DEF Reasons
<1>14. /\ blame' \in [Player -> SUBSET Reasons] /\ blame'[d] = why
       /\ \A x \in Player : x # d => blame'[x] = blame[x]
  BY <1>1, <1>12, <1>13
<1>15. PongTyped'
  BY <1>1, <1>2, <1>10, <1>11, <1>14 DEF PongTyped
<1>16. \A x \in Player : Wire(x)
  BY <1>2 DEF Wire
<1>17. InSession(d)'
  BY <1>1, <1>9, <1>10, <1>11 DEF SessionOf, InSession
<1>18. EndComes(d)'
  BY <1>1, <1>9, <1>10, <1>16, WireKeepsEnd DEF SessionOf
<1>19. Unwanted(d)'
  BY <1>9, <1>11 DEF Unwanted
<1>20. Looking(d)'
  BY <1>9, <1>10, <1>11, <1>13, <1>14 DEF Looking
<1>21. \A x \in Player : x # d => SessionOf(x)'
  BY <1>10, <1>11, <1>14, <1>16, BystanderKeeps
<1> QED BY <1>15, <1>17, <1>18, <1>19, <1>20, <1>21, ActorEnough DEF SessionOf

LEMMA PongInitInv == Init => PongInv
<1> SUFFICES ASSUME Init PROVE PongInv
  OBVIOUS
<1>1. Board \in BoardRec /\ Radio \in RadioRec /\ NoLink \in LinkRec
  BY DEF Board, BoardRec, GameStates, Radio, RadioRec, RadioStates, NoLink, LinkRec
<1>2. <<>> \in Seq(Events) /\ {} \in SUBSET Reasons
  BY EmptySeq
<1>3. PongTyped
  BY <1>1, <1>2 DEF Init, PongTyped
<1>4. ASSUME NEW d \in Player PROVE SessionOf(d)
  <2>1. game[d] = Board /\ ble[d] = Radio /\ link = NoLink /\ events[d] = <<>>
    BY DEF Init
  <2> QED BY <2>1 DEF SessionOf, InSession, EndComes, Unwanted, Looking, Board, Radio, NoLink
<1> QED BY <1>3, <1>4 DEF PongInv

LEMMA PongIdleKeeps == PongInv /\ UNCHANGED vars => PongInv'
BY DEF PongInv, PongTyped, SessionOf, InSession, EndComes, Unwanted, Looking, vars

LEMMA PongStep == PongInv /\ [Next]_vars => PongInv'
<1> SUFFICES ASSUME PongInv, [Next]_vars PROVE PongInv'
  OBVIOUS
<1>1. CASE UNCHANGED vars
  BY <1>1, PongIdleKeeps
<1>2. CASE LinkUp
  BY <1>2, LinkUpKeeps
<1>3. CASE LinkLost
  BY <1>3, LinkLostKeeps
<1>4. ASSUME NEW d \in Player, Step(d) PROVE PongInv'
  <2>1. CASE game_refresh(d) \/ PressToRestart(d) \/ PressToLaunch(d) \/ notify_func(d)
    BY <2>1, GamePlayed
  <2>2. CASE PressToCancel(d)
    BY <2>2, PressToCancelKeeps
  <2>3. CASE PressToSelect(d)
    BY <2>3, PressToSelectKeeps
  <2>4. CASE device_found(d)
    BY <2>4, DeviceFoundKeeps
  <2>5. CASE cancel_connect(d)
    BY <2>5, CancelConnectKeeps
  <2>6. CASE ble_timeout(d)
    BY <2>6, TimeoutKeeps
  <2>7. CASE discover_func(d)
    BY <2>7, DiscoverKeeps
  <2>8. CASE \E role \in {"master", "slave"} : connected(d, role)
    BY <2>8, ConnectedKeeps
  <2>9. CASE disconnected(d)
    BY <2>9, DisconnectedKeeps
  <2>10. CASE pong_ccc_cfg_changed(d)
    BY <2>10, SubscribedKeeps
  <2> QED BY <1>4, <2>1, <2>2, <2>3, <2>4, <2>5, <2>6, <2>7, <2>8, <2>9, <2>10 DEF Step
<1> QED BY <1>1, <1>2, <1>3, <1>4 DEF Next

(* Everything a board's radio, its game and the link are said to agree on    *)
(* above holds throughout.                                                  *)
THEOREM SessionsAgree == Spec => []PongInv
BY PongInitInv, PongStep, PTL DEF Spec

(* ble_timeout: however often the players press and whatever fails, a board  *)
(* that shows "Connecting..." has its next step due or is connected, but for *)
(* the two ways in which it may stop: advertising that does not start, and   *)
(* asking again while the previous attempt is being cancelled.              *)
THEOREM ConnectingGoesOn == Spec => []StillLooking
<1>1. PongInv => StillLooking
  BY DEF PongInv, SessionOf, Looking, StillLooking
<1> QED BY <1>1, SessionsAgree, PTL

(* ble_cancel_connect, cancel_connect: a game goes on behind the menu only   *)
(* until the cancelled connection has ended, or when the connection came     *)
(* after the cancelling.                                                    *)
THEOREM MenuEndsTheGame == Spec => []NoGameBehindTheMenu
<1>1. PongInv => NoGameBehindTheMenu
  BY DEF PongInv, SessionOf, InSession, Unwanted, NoGameBehindTheMenu
<1> QED BY <1>1, SessionsAgree, PTL
=============================================================================
