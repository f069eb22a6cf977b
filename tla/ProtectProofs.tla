---------------------------- MODULE ProtectProofs ----------------------------
(***************************************************************************)
(* Proofs about Protect, for every number of flags and services.           *)
(***************************************************************************)
EXTENDS Protect, TLAPS

(* The type invariant in two parts, for different provers.                  *)
Flags == default_conn \in BOOLEAN /\ done \in BOOLEAN /\ scanning \in BOOLEAN /\ fault \in BOOLEAN

Others ==
  /\ state \in {"INIT_STATE", "SCANNING_STATE", "CONNECTED_STATE", "READ_FLAGS_STATE",
                "polling", "FAIL_STATE"}
  /\ bt_state \in {"BT_DOWN_STATE", "BT_IDLE_STATE", "BT_FOUND_PROTECT_STATE"}
  /\ refs \in Nat /\ flag \in 0 .. READ_TYPE_SIZE /\ uuid \in 0 .. READ_TYPE_SIZE
  /\ discovered \in 0 .. U8 - 1 /\ params \in {"ok", "zero"}
  /\ link \in {"none", "connecting", "up", "dying"}
  /\ disc \in 0 .. NUM_SERVICES /\ reads \in Nat
  /\ issued \in 0 .. READ_TYPE_SIZE /\ troubles \subseteq Trouble

LEMMA TypeParts == TypeOK <=> Flags /\ Others
BY DEF TypeOK, Flags, Others

(* The connection: held from the creation to the disconnection, and no scan *)
(* runs meanwhile.  Before the scan was started there is neither.          *)
Connection ==
  /\ default_conn <=> link # "none"
  /\ scanning => link = "none"
  /\ state \in {"INIT_STATE", "FAIL_STATE"} => link = "none" /\ ~ scanning
  /\ disc # 0 => link \in {"up", "dying"}

(* A read is under way only while main() polls and waits for it.            *)
Reading ==
  /\ reads \in 0 .. 1
  /\ done => state = "polling" /\ reads = 0
  /\ state # "polling" => reads = 0
  /\ reads = 1 => uuid < READ_TYPE_SIZE

(* The reads issued and the flags counted go together.                      *)
Pass ==
  /\ state = "polling" /\ ~ done => issued <= flag
  /\ "read" \notin troubles =>
       /\ state = "polling" /\ ~ done => issued = flag
       /\ done \/ state # "polling" => flag = 0
       /\ done => issued = READ_TYPE_SIZE

(* As long as no link was lost, main() goes on only with the link up, and   *)
(* cleared parameters belong to the first connection's last discovery.     *)
FirstLink ==
  "link" \notin troubles =>
    /\ link # "dying" /\ ~ fault
    /\ bt_state = "BT_FOUND_PROTECT_STATE" => link = "up"
    /\ state \in {"CONNECTED_STATE", "READ_FLAGS_STATE", "polling"} => link = "up"
    /\ params = "zero" => link = "up" /\ disc = 0

IInv == /\ Flags /\ Others /\ Connection /\ ReferencesBalance /\ ScanningOrConnected
        /\ Reading /\ Pass /\ FirstLink

LEMMA InitIInv == Init => IInv
<1> SUFFICES ASSUME Init PROVE IInv
  OBVIOUS
<1> USE DEF Init
<1>0. Flags
  BY DEF Flags
<1>1. Others
  BY ProtectAssumption DEF Others
<1>2. Connection /\ ReferencesBalance
  BY DEF Connection, ReferencesBalance
<1>3. ScanningOrConnected
  BY DEF ScanningOrConnected
<1>4. Reading /\ Pass
  BY DEF Reading, Pass
<1>5. FirstLink
  BY DEF FirstLink
<1> QED BY <1>0, <1>1, <1>2, <1>3, <1>4, <1>5 DEF IInv

-----------------------------------------------------------------------------
(* main()                                                                  *)
LEMMA InitState == IInv /\ init_state => IInv'
<1> SUFFICES ASSUME IInv, init_state PROVE IInv'
  OBVIOUS
<1> USE DEF IInv, init_state, start_scan, Works, Fails
<1>0. Flags'
  BY DEF Flags
<1>1. Others'
  BY ProtectAssumption DEF Others, Trouble, Flags, Connection, ReferencesBalance
<1>2. (Connection /\ ReferencesBalance)'
  BY DEF Flags, Others, Connection, ReferencesBalance
<1>3. ScanningOrConnected'
  BY DEF ScanningOrConnected
<1>4. (Reading /\ Pass)'
  BY DEF Flags, Others, Reading, Pass
<1>5. FirstLink'
  BY DEF Connection, FirstLink
<1> QED BY <1>0, <1>1, <1>2, <1>3, <1>4, <1>5

LEMMA PollStates == IInv /\ (scanning_state \/ connected_state \/ read_flags_poll) => IInv'
<1> SUFFICES ASSUME IInv, scanning_state \/ connected_state \/ read_flags_poll PROVE IInv'
  OBVIOUS
<1> USE DEF IInv, scanning_state, connected_state, read_flags_poll, stack
<1>0. Flags'
  BY DEF Flags
<1>1. Others'
  BY ProtectAssumption DEF Others, Trouble, Flags, Connection, ReferencesBalance
<1>2. (Connection /\ ReferencesBalance)'
  BY DEF Flags, Others, Connection, ReferencesBalance
<1>3. ScanningOrConnected'
  BY DEF ScanningOrConnected
<1>4. (Reading /\ Pass)'
  BY DEF Flags, Others, Reading, Pass
<1>5. FirstLink'
  BY DEF FirstLink
<1> QED BY <1>0, <1>1, <1>2, <1>3, <1>4, <1>5

(* What a call of read_next_flag() does when no other read is under way: it  *)
(* issues one, or ends the pass, or leaves a trace of the stack's refusal. *)
LEMMA ReadNextFlag ==
  ASSUME IInv, NEW sofar \in Nat, NEW d \in BOOLEAN, read_next_flag(0, sofar, d)
  PROVE  /\ flag' \in 0 .. READ_TYPE_SIZE /\ reads' \in 0 .. 1 /\ uuid' = flag
         /\ done' \in BOOLEAN /\ fault' \in BOOLEAN /\ issued' \in {sofar, sofar + 1}
         /\ troubles' \in {troubles, troubles \cup {"read"}}
         /\ flag < READ_TYPE_SIZE =>
              /\ flag' = flag + 1 /\ (done' <=> d)
              /\ "read" \in troubles' \/ issued' = sofar + 1
         /\ flag = READ_TYPE_SIZE => flag' = 0 /\ done' /\ reads' = 0 /\ issued' = sofar
         /\ fault' => fault \/ ~ default_conn
<1>1. flag \in 0 .. READ_TYPE_SIZE /\ READ_TYPE_SIZE \in Nat /\ default_conn \in BOOLEAN /\ fault \in BOOLEAN
  BY ProtectAssumption DEF IInv, Flags, Others
<1>2. CASE flag < READ_TYPE_SIZE
  BY <1>1, <1>2 DEF read_next_flag, bt_gatt_read, Works, Fails
<1>3. CASE ~ (flag < READ_TYPE_SIZE)
  BY <1>1, <1>3 DEF read_next_flag
<1> QED BY <1>2, <1>3

LEMMA ReadFlags == IInv /\ ~ fault /\ read_flags => IInv'
<1> SUFFICES ASSUME IInv, ~ fault, read_flags PROVE IInv'
  OBVIOUS
<1> USE DEF IInv
<1>1. /\ state = "READ_FLAGS_STATE" /\ state' = "polling" /\ reads = 0
      /\ UNCHANGED <<bt_state, default_conn, refs, discovered, params, scanning, link, disc>>
  BY DEF read_flags, Reading
<1>2. read_next_flag(0, 0, FALSE)
  BY <1>1 DEF read_flags
<1> HIDE DEF IInv
<1>3. /\ flag' \in 0 .. READ_TYPE_SIZE /\ reads' \in 0 .. 1 /\ uuid' = flag
      /\ done' \in BOOLEAN /\ fault' \in BOOLEAN /\ issued' \in {0, 1}
      /\ troubles' \in {troubles, troubles \cup {"read"}}
      /\ flag < READ_TYPE_SIZE =>
           flag' = flag + 1 /\ ~ done' /\ ("read" \in troubles' \/ issued' = 1)
      /\ flag = READ_TYPE_SIZE => flag' = 0 /\ done' /\ reads' = 0 /\ issued' = 0
      /\ fault' => ~ default_conn
  <2> DEFINE sofar == 0
  <2>1. sofar \in Nat /\ FALSE \in BOOLEAN /\ read_next_flag(0, sofar, FALSE)
    BY <1>2
  <2>2. sofar = 0 /\ sofar + 1 = 1
    OBVIOUS
  <2> HIDE DEF sofar
  <2> QED BY <1>1, <2>1, <2>2, ReadNextFlag
<1> USE DEF IInv
<1>4. READ_TYPE_SIZE \in Nat \ {0} /\ flag \in 0 .. READ_TYPE_SIZE
  BY ProtectAssumption DEF Others
<1>0. Flags'
  BY <1>1, <1>3 DEF Flags
<1>5. Others'
  BY <1>1, <1>3, <1>4 DEF Others, Trouble
<1>6. (Connection /\ ReferencesBalance)'
  BY <1>1 DEF Connection, ReferencesBalance
<1>7. ScanningOrConnected'
  BY <1>1, <1>3 DEF ScanningOrConnected
<1>8. (Reading /\ Pass)'
  BY <1>1, <1>3, <1>4 DEF Reading, Pass
<1>9. FirstLink'
  BY <1>1, <1>3 DEF Connection, FirstLink
<1> QED BY <1>0, <1>5, <1>6, <1>7, <1>8, <1>9

-----------------------------------------------------------------------------
(* The callbacks                                                           *)
LEMMA ReadFlagCb == IInv /\ ~ fault /\ read_flag_cb => IInv'
<1> SUFFICES ASSUME IInv, ~ fault, read_flag_cb PROVE IInv'
  OBVIOUS
<1> USE DEF IInv
<1>1. /\ reads = 1 /\ state = "polling" /\ ~ done /\ issued \in Nat /\ issued <= flag
      /\ UNCHANGED <<state, bt_state, default_conn, refs, discovered, params, scanning, link, disc>>
  BY DEF read_flag_cb, Flags, Others, Reading, Pass
<1>2. read_next_flag(0, issued, FALSE)
  <2>1. read_next_flag(reads - 1, issued, done) /\ reads - 1 = 0 /\ done = FALSE
    BY <1>1 DEF read_flag_cb, Flags, Others
  <2> QED BY <2>1
<1> HIDE DEF IInv
<1>3. /\ flag' \in 0 .. READ_TYPE_SIZE /\ reads' \in 0 .. 1 /\ uuid' = flag
      /\ done' \in BOOLEAN /\ fault' \in BOOLEAN /\ issued' \in {issued, issued + 1}
      /\ troubles' \in {troubles, troubles \cup {"read"}}
      /\ flag < READ_TYPE_SIZE =>
           flag' = flag + 1 /\ ~ done' /\ ("read" \in troubles' \/ issued' = issued + 1)
      /\ flag = READ_TYPE_SIZE => flag' = 0 /\ done' /\ reads' = 0 /\ issued' = issued
      /\ fault' => ~ default_conn
  BY <1>1, <1>2, ReadNextFlag
<1> USE DEF IInv
<1>4. READ_TYPE_SIZE \in Nat \ {0} /\ flag \in 0 .. READ_TYPE_SIZE
  BY ProtectAssumption DEF Others
<1>0. Flags'
  BY <1>1, <1>3 DEF Flags
<1>5. Others'
  BY <1>1, <1>3, <1>4 DEF Others, Trouble
<1>6. (Connection /\ ReferencesBalance)'
  BY <1>1 DEF Connection, ReferencesBalance
<1>7. ScanningOrConnected'
  BY <1>1, <1>3 DEF ScanningOrConnected
<1>8. (Reading /\ Pass)'
  BY <1>1, <1>3, <1>4 DEF Reading, Pass
<1>9. FirstLink'
  BY <1>1, <1>3 DEF Connection, FirstLink
<1> QED BY <1>0, <1>5, <1>6, <1>7, <1>8, <1>9

LEMMA DeviceFound == IInv /\ device_found => IInv'
<1> SUFFICES ASSUME IInv, device_found PROVE IInv'
  OBVIOUS
<1> USE DEF IInv, device_found, Works, Fails
<1>0. Flags'
  BY DEF Flags
<1>1. Others'
  <2>1. /\ refs' \in {refs, refs + 1} /\ link' \in {link, "connecting"}
        /\ troubles' \in {troubles, troubles \cup {"create"}}
        /\ UNCHANGED <<state, bt_state, flag, uuid, discovered, params, disc, reads, issued>>
    OBVIOUS
  <2> QED BY <2>1 DEF Others, Trouble
<1>2. (Connection /\ ReferencesBalance)'
  BY DEF Flags, Others, Connection, ReferencesBalance
<1>3. ScanningOrConnected'
  BY DEF ScanningOrConnected, Connection
<1>4. (Reading /\ Pass)'
  BY DEF Flags, Others, Reading, Pass
<1>5. FirstLink'
  BY DEF Flags, Others, Connection, FirstLink
<1> QED BY <1>0, <1>1, <1>2, <1>3, <1>4, <1>5

LEMMA ConnectedErr == IInv /\ connected_cb_err => IInv'
<1> SUFFICES ASSUME IInv, connected_cb_err PROVE IInv'
  OBVIOUS
<1> USE DEF IInv, connected_cb_err, start_scan, Works, Fails
<1>0. Flags'
  BY DEF Flags
<1>1. Others'
  <2>1. default_conn
    BY DEF Connection
  <2>2. refs = 1
    BY <2>1 DEF ReferencesBalance
  <2>3. /\ refs' = refs - 1 /\ link' = "none"
        /\ troubles' \in {troubles, troubles \cup {"scan"}}
        /\ UNCHANGED <<state, bt_state, flag, uuid, discovered, params, disc, reads, issued>>
    OBVIOUS
  <2> QED BY <2>2, <2>3 DEF Others, Trouble
<1>2. (Connection /\ ReferencesBalance)'
  BY DEF Flags, Others, Connection, ReferencesBalance
<1>3. ScanningOrConnected'
  BY DEF ScanningOrConnected, Connection
<1>4. (Reading /\ Pass)'
  BY DEF Flags, Others, Reading, Pass
<1>5. FirstLink'
  BY DEF Flags, Others, Connection, FirstLink
<1> QED BY <1>0, <1>1, <1>2, <1>3, <1>4, <1>5

LEMMA Connected == IInv /\ connected_cb => IInv'
<1> SUFFICES ASSUME IInv, connected_cb PROVE IInv'
  OBVIOUS
<1> USE DEF IInv, connected_cb, discover_primary, Works, Fails
<1>0. Flags'
  BY DEF Flags
<1>1. Others'
  <2>1. /\ link' = "up" /\ disc' \in {0, 1}
        /\ troubles' \in {troubles, troubles \cup {"discover"}}
        /\ UNCHANGED <<state, bt_state, refs, flag, uuid, discovered, params, reads, issued>>
    OBVIOUS
  <2> QED BY <2>1, ProtectAssumption DEF Others, Trouble
<1>2. (Connection /\ ReferencesBalance)'
  BY DEF Flags, Others, Connection, ReferencesBalance
<1>3. ScanningOrConnected'
  BY DEF ScanningOrConnected, Connection
<1>4. (Reading /\ Pass)'
  BY DEF Flags, Others, Reading, Pass
<1>5. FirstLink'
  BY DEF Flags, Others, Connection, FirstLink
<1> QED BY <1>0, <1>1, <1>2, <1>3, <1>4, <1>5

LEMMA Discover == IInv /\ discover_cb => IInv'
<1> SUFFICES ASSUME IInv, discover_cb PROVE IInv'
  OBVIOUS
<1> USE DEF IInv, discover_cb, discover_primary, Works, Fails
<1>0. Flags'
  BY DEF Flags
<1>1. Others'
  <2>1. /\ discovered' = (discovered + 1) % U8 /\ bt_state' \in {bt_state, "BT_FOUND_PROTECT_STATE"}
        /\ disc' = 0 \/ (disc < NUM_SERVICES /\ disc' = disc + 1)
        /\ troubles' \in {troubles, troubles \cup {"discover"}}
        /\ UNCHANGED <<state, refs, flag, uuid, params, link, reads, issued>>
    OBVIOUS
  <2>2. discovered' \in 0 .. U8 - 1
    <3>1. U8 \in Nat \ {0} /\ discovered + 1 \in Nat
      BY ProtectAssumption DEF Others
    <3> QED BY <2>1, <3>1
  <2>3. disc' \in 0 .. NUM_SERVICES
    BY <2>1, ProtectAssumption DEF Others
  <2> QED BY <2>1, <2>2, <2>3 DEF Others, Trouble
<1>2. (Connection /\ ReferencesBalance)'
  BY DEF Flags, Others, Connection, ReferencesBalance
<1>3. ScanningOrConnected'
  BY DEF ScanningOrConnected, Connection
<1>4. (Reading /\ Pass)'
  BY DEF Flags, Others, Reading, Pass
<1>5. FirstLink'
  BY DEF Flags, Others, Connection, FirstLink
<1> QED BY <1>0, <1>1, <1>2, <1>3, <1>4, <1>5

LEMMA DiscoverNull == IInv /\ discover_cb_null => IInv'
<1> SUFFICES ASSUME IInv, discover_cb_null PROVE IInv'
  OBVIOUS
<1> USE DEF IInv, discover_cb_null, Fails
<1>0. Flags'
  BY DEF Flags
<1>1. Others'
  BY ProtectAssumption DEF Others, Trouble, Flags, Connection, ReferencesBalance
<1>2. (Connection /\ ReferencesBalance)'
  BY DEF Flags, Others, Connection, ReferencesBalance
<1>3. ScanningOrConnected'
  BY DEF ScanningOrConnected, Connection
<1>4. (Reading /\ Pass)'
  BY DEF Flags, Others, Reading, Pass
<1>5. FirstLink'
  BY DEF Flags, Others, Connection, FirstLink
<1> QED BY <1>0, <1>1, <1>2, <1>3, <1>4, <1>5

LEMMA Lost == IInv /\ LinkLost => IInv'
<1> SUFFICES ASSUME IInv, LinkLost PROVE IInv'
  OBVIOUS
<1> USE DEF IInv, LinkLost, Fails, stack
<1>0. Flags'
  BY DEF Flags
<1>1. Others'
  BY ProtectAssumption DEF Others, Trouble, Flags, Connection, ReferencesBalance
<1>2. (Connection /\ ReferencesBalance)'
  BY DEF Flags, Others, Connection, ReferencesBalance
<1>3. ScanningOrConnected'
  BY DEF ScanningOrConnected, Connection
<1>4. (Reading /\ Pass)'
  BY DEF Flags, Others, Reading, Pass
<1>5. FirstLink'
  BY DEF Flags, Others, Connection, FirstLink
<1> QED BY <1>0, <1>1, <1>2, <1>3, <1>4, <1>5

LEMMA Disconnected == IInv /\ disconnected_cb => IInv'
<1> SUFFICES ASSUME IInv, disconnected_cb PROVE IInv'
  OBVIOUS
<1> USE DEF IInv, disconnected_cb, start_scan, Works, Fails
<1>0. Flags'
  BY DEF Flags
<1>1. Others'
  <2>1. default_conn
    BY DEF Connection
  <2>2. refs = 1
    BY <2>1 DEF ReferencesBalance
  <2>3. /\ refs' = refs - 1 /\ link' = "none" /\ disc' = 0 /\ reads' = 0
        /\ bt_state' = "BT_DOWN_STATE"
        /\ troubles' \in {troubles, troubles \cup {"scan"}}
        /\ UNCHANGED <<state, flag, uuid, discovered, params, issued>>
    OBVIOUS
  <2> QED BY <2>2, <2>3, ProtectAssumption DEF Others, Trouble
<1>2. (Connection /\ ReferencesBalance)'
  BY DEF Flags, Others, Connection, ReferencesBalance
<1>3. ScanningOrConnected'
  BY DEF ScanningOrConnected, Connection
<1>4. (Reading /\ Pass)'
  BY DEF Flags, Others, Reading, Pass
<1>5. FirstLink'
  BY DEF Flags, Others, Connection, FirstLink
<1> QED BY <1>0, <1>1, <1>2, <1>3, <1>4, <1>5

-----------------------------------------------------------------------------
(* Every step keeps IInv.                                                   *)
LEMMA NextIInv == IInv /\ [Next]_vars => IInv'
<1> SUFFICES ASSUME IInv, [Next]_vars PROVE IInv'
  OBVIOUS
<1>1. CASE UNCHANGED vars
  BY <1>1 DEF vars, stack, IInv, Flags, Others, Connection, ReferencesBalance,
     ScanningOrConnected, Reading, Pass, FirstLink
<1>2. CASE main
  BY <1>2, InitState, PollStates, ReadFlags DEF main
<1>3. CASE Answer
  BY <1>3, Connected, Discover, ReadFlagCb DEF Answer
<1>4. CASE Callback
  BY <1>4, DeviceFound, ConnectedErr, DiscoverNull, Lost, Disconnected DEF Callback
<1> QED BY <1>1, <1>2, <1>3, <1>4 DEF Next

LEMMA Invariance == Spec => []IInv
<1> QED BY InitIInv, NextIInv, PTL DEF Spec

(* Every variable of the two contexts keeps its type and its range.  That of  *)
(* flag is one larger than flags[]: read_next_flag() looks up the entry one *)
(* past the end once in every pass, before it tests the bound.  OneByOne    *)
(* says that what it finds there is never asked for.                       *)
THEOREM TypeCorrect == Spec => []TypeOK
<1>1. IInv => TypeOK
  BY TypeParts DEF IInv
<1> QED BY <1>1, Invariance, PTL

(* All flags are read in a pass, unless a read is refused, and never two at  *)
(* a time, although the callbacks and not main() count them; what lies one   *)
(* past the end of flags[] is looked up, but not asked for.                *)
THEOREM OneByOne == Spec => []EveryFlagOneByOne
<1>1. IInv => OneReadAtATime
  BY DEF IInv, Reading, OneReadAtATime
<1>2. IInv => PassIsComplete
  BY DEF IInv, Pass, PassIsComplete
<1>3. IInv => AsksForAFlag
  BY DEF IInv, Reading, AsksForAFlag
<1>4. IInv => EveryFlagOneByOne
  BY <1>1, <1>2, <1>3 DEF EveryFlagOneByOne
<1> QED BY <1>4, Invariance, PTL

(* The application's references to a connection balance, and the callbacks  *)
(* leave the radio scanning or connected, unless the stack refused to start*)
(* a scan or a connection.                                                 *)
THEOREM Kept == Spec => []ConnectionKept
<1>1. IInv => ConnectionKept
  BY DEF IInv, ConnectionKept
<1> QED BY <1>1, Invariance, PTL

(* default_conn and discover_params are valid whenever ble.c uses them, as   *)
(* long as no link was lost.                                               *)
THEOREM FaultNeedsLinkLoss == Spec => []FaultOnlyAfterLinkLoss
<1>1. IInv => FaultOnlyAfterLinkLoss
  BY DEF IInv, Flags, FirstLink, FaultOnlyAfterLinkLoss
<1> QED BY <1>1, Invariance, PTL

-----------------------------------------------------------------------------
(* A run without failures: discovery asks for the services in order, and     *)
(* bt_state tells main() when the last one was found.                       *)
Discovering ==
  /\ link \in {"none", "connecting"} => disc = 0 /\ discovered = 0
  /\ link = "up" => IF disc = 0 THEN discovered = NUM_SERVICES ELSE discovered = disc - 1
  /\ bt_state = "BT_FOUND_PROTECT_STATE" => link = "up" /\ disc = 0
  /\ state \in {"CONNECTED_STATE", "READ_FLAGS_STATE", "polling"}
       => bt_state = "BT_FOUND_PROTECT_STATE"
  /\ link # "dying" /\ params = "ok"

NoTrouble == troubles = {} => Discovering

LEMMA InitNoTrouble == Init => NoTrouble
BY DEF Init, NoTrouble, Discovering

(* A failure leaves its trace for good.                                      *)
LEMMA TroublesGrow == [Next]_vars => troubles \subseteq troubles'
<1> USE DEF Works, Fails, start_scan
<1>1. UNCHANGED vars => troubles \subseteq troubles'
  BY DEF vars
<1>2. init_state \/ scanning_state \/ connected_state \/ read_flags_poll => troubles \subseteq troubles'
  BY DEF init_state, scanning_state, connected_state, read_flags_poll
<1>3. read_flags \/ read_flag_cb => troubles \subseteq troubles'
  BY DEF read_flags, read_flag_cb, read_next_flag, bt_gatt_read
<1>4. connected_cb \/ discover_cb => troubles \subseteq troubles'
  BY DEF connected_cb, discover_cb, discover_primary
<1>5. device_found \/ connected_cb_err \/ discover_cb_null \/ LinkLost \/ disconnected_cb
        => troubles \subseteq troubles'
  BY DEF device_found, connected_cb_err, discover_cb_null, LinkLost, disconnected_cb
<1> QED BY <1>1, <1>2, <1>3, <1>4, <1>5 DEF Next, main, Answer, Callback

LEMMA NextNoTrouble == IInv /\ NoTrouble /\ [Next]_vars => NoTrouble'
<1> SUFFICES ASSUME IInv, Discovering, [Next]_vars, troubles = {}, troubles' = {}
             PROVE  Discovering'
  BY TroublesGrow DEF NoTrouble
<1> USE DEF Discovering
<1>0. /\ NUM_SERVICES \in Nat \ {0} /\ U8 \in Nat /\ NUM_SERVICES < U8
      /\ disc \in 0 .. NUM_SERVICES /\ default_conn \in BOOLEAN
      /\ default_conn <=> link # "none"
      /\ scanning => link = "none"
  BY ProtectAssumption DEF IInv, Flags, Others, Connection
<1>1. CASE UNCHANGED vars
  BY <1>1 DEF vars, stack
<1>2. CASE init_state
  BY <1>2 DEF init_state
<1>3. CASE scanning_state \/ connected_state \/ read_flags_poll
  BY <1>3 DEF scanning_state, connected_state, read_flags_poll, stack
<1>4. CASE read_flags \/ read_flag_cb
  <2>1. /\ state' = state \/ (state = "READ_FLAGS_STATE" /\ state' = "polling")
        /\ UNCHANGED <<bt_state, discovered, params, link, disc>>
    BY <1>4 DEF read_flags, read_flag_cb
  <2> QED BY <2>1
<1>5. CASE connected_cb
  <2>1. /\ link = "connecting" /\ link' = "up" /\ disc' \in {0, 1}
        /\ disc' = 1 \/ troubles' # {}
        /\ UNCHANGED <<state, bt_state, discovered, params>>
    BY <1>5 DEF connected_cb, discover_primary, Works, Fails
  <2> QED BY <1>0, <2>1
<1>6. CASE discover_cb
  <2>1. /\ disc # 0 /\ link = "up" /\ discovered' = (discovered + 1) % U8
        /\ bt_state' = IF discovered' = NUM_SERVICES THEN "BT_FOUND_PROTECT_STATE" ELSE bt_state
        /\ UNCHANGED <<state, params, link>>
    BY <1>6 DEF discover_cb
  <2>2. disc' = IF disc < NUM_SERVICES THEN disc + 1 ELSE 0
    <3>1. CASE disc < NUM_SERVICES
      <4>1. discover_primary(disc + 1)
        BY <1>6, <3>1 DEF discover_cb
      <4>2. disc' = disc + 1
        BY <4>1 DEF discover_primary, Fails
      <4> QED BY <3>1, <4>2
    <3>2. CASE ~ (disc < NUM_SERVICES)
      BY <1>6, <3>2 DEF discover_cb
    <3> QED BY <3>1, <3>2
  <2>3. discovered' = disc
    BY <1>0, <2>1
  <2> QED BY <1>0, <2>1, <2>2, <2>3
<1>7. CASE device_found
  BY <1>0, <1>7 DEF device_found, Fails
<1>8. CASE connected_cb_err
  BY <1>8 DEF connected_cb_err
<1>9. CASE discover_cb_null \/ LinkLost
  BY <1>9 DEF discover_cb_null, LinkLost, Fails
<1>10. CASE disconnected_cb
  BY <1>10 DEF disconnected_cb
<1> QED BY <1>1, <1>2, <1>3, <1>4, <1>5, <1>6, <1>7, <1>8, <1>9, <1>10
        DEF Next, main, Answer, Callback

(* Unless something fails, main() reads only once connected_cb and the whole *)
(* chain of discover_cb have run, and nothing is discovered meanwhile.     *)
THEOREM DiscoveryFirst == Spec => []ReadsAfterDiscovery
<1>1. NoTrouble => ReadsAfterDiscovery
  BY DEF NoTrouble, Discovering, ReadsAfterDiscovery
<1>2. Spec => []NoTrouble
  BY InitNoTrouble, NextNoTrouble, Invariance, PTL DEF Spec
<1> QED BY <1>1, <1>2, PTL
=============================================================================
