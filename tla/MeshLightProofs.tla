-------------------------- MODULE MeshLightProofs ---------------------------
(***************************************************************************)
(* Proofs about MeshLight, for all ranges, numbers of steps, transition     *)
(* times and messages: the light goes where it is sent, and no further.    *)
(***************************************************************************)
EXTENDS MeshLight, TLAPS, SequenceTheorems, WellFoundedInduction

-----------------------------------------------------------------------------
(* Arithmetic *)

(* C's division rounds towards zero: so many steps do not reach too far.    *)
LEMMA Truncates ==
  ASSUME NEW a \in Int, NEW n \in Nat \ {0}
  PROVE  LET d == TruncDiv(a, n) IN
         /\ d \in Int
         /\ d > 0 => a >= d * n
         /\ d < 0 => a <= d * n
<1>1. CASE a >= 0
  <2>1. TruncDiv(a, n) = a \div n /\ a \div n \in Nat
    BY <1>1 DEF TruncDiv
  <2>2. a >= (a \div n) * n
    BY <1>1
  <2> QED BY <2>1, <2>2
<1>2. CASE a < 0
  <2> DEFINE b == -a
             q == b \div n
  <2>1. b \in Nat /\ q \in Nat
    BY <1>2
  <2>2. TruncDiv(a, n) = -q
    BY <1>2 DEF TruncDiv, Abs
  <2>3. b >= q * n
    BY <2>1
  <2> HIDE DEF q
  <2>4. q * n \in Int /\ (-q) * n = -(q * n)
    BY <2>1
  <2> QED BY <2>1, <2>2, <2>3, <2>4
<1> QED BY <1>1, <1>2

(* One step less to go.                                                     *)
LEMMA OneStepLess ==
  ASSUME NEW d \in Int, NEW k \in Nat \ {0}
  PROVE  /\ d * k \in Int /\ d * (k - 1) \in Int /\ d * k = d * (k - 1) + d
         /\ d >= 0 => d * (k - 1) >= 0
         /\ d =< 0 => d * (k - 1) =< 0
<1>1. k - 1 \in Nat
  OBVIOUS
<1>2. d * k = d * (k - 1) + d
  OBVIOUS
<1>3. d >= 0 => d * (k - 1) >= 0
  BY <1>1
<1>4. d =< 0 => d * (k - 1) =< 0
  BY <1>1
<1> QED BY <1>1, <1>2, <1>3, <1>4

(* A level is a 16-bit value shifted by half the range.                     *)
LEMMA Halves == LMAX \in Nat /\ HALF \in Nat /\ HALF + HALF = LMAX + 1
BY MeshLightAssumption DEF HALF

(* A value in range does not wrap.                                          *)
LEMMA Modulo ==
  ASSUME NEW n \in Nat \ {0}, NEW x \in 0 .. n - 1
  PROVE  x % n = x
OBVIOUS

(* Wrapping brings every value into range.                                  *)
LEMMA WrapRange ==
  ASSUME NEW n \in Nat \ {0}, NEW x \in Int
  PROVE  x % n \in 0 .. n - 1
OBVIOUS

(* A part of the range is not more than the range.                          *)
LEMMA Scaled ==
  ASSUME NEW a \in 0 .. LMAX, NEW w \in Nat, LMAX # 0
  PROVE  (a * w) \div LMAX \in 0 .. w
<1>1. a * w \in Nat /\ LMAX * w \in Nat /\ a * w <= LMAX * w
  BY Halves
<1>2. (LMAX * w) \div LMAX = w
  BY Halves
<1> QED BY <1>1, <1>2, Halves

(* Every set of numbers has a least one.                                    *)
LEMMA LeastNatural ==
  ASSUME NEW T \in SUBSET Nat, T # {}
  PROVE  \E n \in T : \A m \in T : n <= m
<1>1. PICK n \in T : \A m \in T : ~ (<<m, n>> \in OpToRel(<, Nat))
  BY NatLessThanWellFounded, WFMin
<1>2. ASSUME NEW m \in T PROVE n <= m
  <2>1. <<m, n>> \notin {ss \in Nat \X Nat : ss[1] < ss[2]}
    BY <1>1, Zenon DEF OpToRel
  <2>2. m \in Nat /\ n \in Nat /\ <<m, n>> \in Nat \X Nat
    OBVIOUS
  <2>3. ~ (m < n)
    BY <2>1, <2>2
  <2> QED BY <2>2, <2>3
<1> QED BY <1>2

(* The root that linear_to_actual computes exists, and is in range.         *)
LEMMA Root ==
  ASSUME NEW v \in 0 .. LMAX
  PROVE  linear_to_actual(v) \in 0 .. LMAX
<1> DEFINE x == v * LMAX
           T == {r \in Nat : (r + 1) * (r + 1) > x}
<1>1. x \in Nat /\ LMAX \in T
  <2>1. x \in Nat /\ x <= LMAX * LMAX
    BY Halves
  <2>2. (LMAX + 1) * (LMAX + 1) > LMAX * LMAX
    BY Halves
  <2> QED BY <2>1, <2>2, Halves
<1>2. PICK r \in T : \A m \in T : r <= m
  BY <1>1, LeastNatural
<1> HIDE DEF x
<1>3. r * r <= x
  <2>1. CASE r = 0
    BY <1>1, <2>1
  <2>2. CASE r # 0
    <3>1. r - 1 \in Nat /\ r - 1 \notin T
      BY <1>2, <2>2
    <3>2. ~ (r * r > x)
      BY <3>1
    <3> QED BY <1>1, <1>2, <3>2
  <2> QED BY <2>1, <2>2
<1>4. r \in 0 .. LMAX /\ r * r <= x /\ (r + 1) * (r + 1) > x
  BY <1>1, <1>2, <1>3, Halves
<1>5. \E s \in 0 .. LMAX : s * s <= v * LMAX /\ (s + 1) * (s + 1) > v * LMAX
  BY <1>4 DEF x
<1> QED BY <1>5 DEF linear_to_actual
-----------------------------------------------------------------------------
(* Types *)

Value(c) == IF c = "duv" THEN Level ELSE 0 .. LMAX
Values == {f \in [Channel -> Int] : \A c \in Channel : f[c] \in Value(c)}

ValuesOK == cur \in Values /\ tgt \in Values /\ delta \in [Channel -> Int]

SettingsOK ==
  /\ rmin \in [Ranged -> 1 .. LMAX] /\ rmax \in [Ranged -> 1 .. LMAX]
  /\ \A c \in Ranged : rmin[c] <= rmax[c]
  /\ def \in 0 .. LMAX /\ last \in 0 .. LMAX /\ tt \in Nat
  /\ last_level \in [Form -> [Ranged -> Int]]

TransitionOK ==
  /\ counter \in 0 .. U32 - 1 /\ type \in {"MOVE", "NON_MOVE"}
  /\ timer \in Work \cup {"off"} /\ works \in Seq(Work \cup {"no_transition"})
  /\ msg[1] # None => msg[1] \in Work

(***************************************************************************)
(* As long as no message and no interrupt came while an item was queued,    *)
(* the queue holds at most the item of the timer that runs, or the one that*)
(* settles the values, and the steps still counted are steps still to go.  *)
(***************************************************************************)
InStep == ~ raced =>
  /\ \/ works = <<>>
     \/ works = <<timer>> /\ timer # "off"
     \/ works = <<"no_transition">> /\ timer = "off"
  /\ counter <= RESOLUTION
  /\ timer # "off" => counter > 0 \/ just_started
  /\ timer # "off" /\ type = "MOVE" => counter > 0 /\ timer \in {"level_lightness", "level_temp"}

IInv == ValuesOK /\ SettingsOK /\ TransitionOK /\ InStep /\ NoOvershoot /\ SettledAtRest

(* What the run checks follows from the invariant.                          *)
LEMMA IInvMeans == IInv => NeitherPastNorShort
BY MeshLightAssumption
DEF IInv, TransitionOK, InStep, NeitherPastNorShort, CounterWrapsOnlyAfterRace

(* The items of the workqueue.                                              *)
LEMMA WorkItems ==
  /\ Work = {"onoff", "level_lightness", "level_temp", "light_lightness_actual",
             "light_lightness_linear", "light_ctl", "light_ctl_temp"}
  /\ \A w \in Work : Touches[w] \subseteq Channel
  /\ Touches["level_lightness"] = {"light"} /\ Touches["level_temp"] = {"temp"}
  /\ "off" \notin Work /\ "no_transition" \notin Work
<1>1. Work = {"onoff", "level_lightness", "level_temp", "light_lightness_actual",
             "light_lightness_linear", "light_ctl", "light_ctl_temp"}
  BY DEF Work, Touches
<1>2. \A w \in Work : Touches[w] \subseteq Channel
  BY <1>1 DEF Touches, Channel
<1>3. Touches["level_lightness"] = {"light"} /\ Touches["level_temp"] = {"temp"}
  BY DEF Touches
<1> QED BY <1>1, <1>2, <1>3

(* What a fade does with the values of its message.                         *)
LEMMA FadeKeeps ==
  ASSUME IInv, NEW m \in Fields, NEW kind \in Work, NEW v, NEW goal \in Values,
         Fade(m, kind, v, goal), SettingsOK'
  PROVE  IInv'
<1> DEFINE chans == Touches[kind]
           n == Steps(m.tt)
           q == update_light_state(works)
<1> USE DEF IInv
<1>1. chans \subseteq Channel /\ n \in 0 .. RESOLUTION /\ n < U32
  <2>1. m.tt \in Nat
    BY MeshLightAssumption DEF Fields, SettingsOK
  <2> QED BY <2>1, WorkItems, MeshLightAssumption DEF Steps
<1>2. /\ msg' = <<kind, v>> /\ raced' = (works # <<>>) /\ type' = "NON_MOVE" /\ tgt' = goal
      /\ \/ (\A c \in chans : goal[c] = cur[c]) /\ NoTransition /\ UNCHANGED delta
         \/ /\ ~ (\A c \in chans : goal[c] = cur[c])
            /\ set_transition_values(chans, goal, n)
            /\ cur' = [c \in Channel |-> IF n = 0 /\ c \in chans THEN goal[c] ELSE cur[c]]
            /\ StartTransition(kind, n, m.delay)
  BY DEF Fade, Accept
<1>3. msg'[1] = kind /\ kind \in Work /\ kind # "off"
  BY <1>2, WorkItems
<1>4. CASE (\A c \in chans : goal[c] = cur[c]) /\ NoTransition /\ UNCHANGED delta
  <2>1. counter' = 0 /\ timer' = "off" /\ cur' = cur /\ works' = works
    BY <1>4 DEF NoTransition
  <2>2. ValuesOK'
    BY <1>2, <1>4, <2>1 DEF ValuesOK
  <2>3. TransitionOK'
    BY <1>2, <1>3, <2>1, MeshLightAssumption DEF TransitionOK
  <2>4. InStep'
    <3>1. ~ raced' => works' = <<>>
      BY ONLY <1>2, <2>1
    <3>2. counter' <= RESOLUTION
      BY ONLY <2>1, MeshLightAssumption
    <3> QED BY ONLY <2>1, <3>1, <3>2 DEF InStep
  <2>5. NoOvershoot'
    BY <2>1 DEF NoOvershoot, Fading
  <2>6. SettledAtRest'
    BY <1>2, <1>3, <1>4, <2>1 DEF SettledAtRest
  <2> QED BY <2>2, <2>3, <2>4, <2>5, <2>6
<1>5. CASE /\ set_transition_values(chans, goal, n)
           /\ cur' = [c \in Channel |-> IF n = 0 /\ c \in chans THEN goal[c] ELSE cur[c]]
           /\ StartTransition(kind, n, m.delay)
  <2>1. /\ delta' = [c \in Channel |-> IF c \in chans /\ n > 0 THEN TruncDiv(cur[c] - goal[c], n)
                                       ELSE delta[c]]
        /\ counter' = n /\ just_started' = TRUE
        /\ \/ n = 0 /\ timer' = "off" /\ works' = q
           \/ timer' = kind /\ works' = works
    BY <1>5 DEF set_transition_values, StartTransition
  <2>2. \A c \in Channel : cur[c] \in Int /\ goal[c] \in Int /\ delta[c] \in Int
    BY DEF ValuesOK, Values
  <2>3. ValuesOK'
    <3>1. delta' \in [Channel -> Int]
      BY <1>1, <2>1, <2>2, Truncates
    <3>2. cur' \in Values
      BY <1>5 DEF ValuesOK, Values
    <3> QED BY <1>2, <3>1, <3>2 DEF ValuesOK
  <2>4. works' \in Seq(Work \cup {"no_transition"})
    BY <2>1, AppendProperties DEF TransitionOK, update_light_state, Submit
  <2>5. TransitionOK'
    BY <1>1, <1>2, <1>3, <2>1, <2>4, MeshLightAssumption DEF TransitionOK
  <2>6. works = <<>> => q = <<"no_transition">>
    BY DEF update_light_state, Submit
  <2>7. InStep'
    <3>1. /\ counter' <= RESOLUTION /\ counter' = n /\ just_started' /\ type' = "NON_MOVE"
          /\ timer' \in {"off", kind}
      BY ONLY <1>1, <1>2, <2>1, MeshLightAssumption
    <3>2. ~ raced' => \/ works' = <<>>
                      \/ works' = <<"no_transition">> /\ timer' = "off"
      BY ONLY <1>2, <2>1, <2>6
    <3> QED BY ONLY <3>1, <3>2 DEF InStep
  <2>8. NoOvershoot'
    <3> SUFFICES ASSUME Fading', NEW c \in Touches[timer']
                 PROVE  /\ delta'[c] > 0 => cur'[c] - tgt'[c] >= delta'[c] * counter'
                        /\ delta'[c] < 0 => cur'[c] - tgt'[c] <= delta'[c] * counter'
      BY DEF NoOvershoot
    <3>1. timer' = kind /\ counter' = n /\ n > 0 /\ c \in chans /\ c \in Channel
      BY <1>1, <2>1 DEF Fading
    <3>2. delta'[c] = TruncDiv(cur[c] - goal[c], n) /\ cur'[c] = cur[c] /\ tgt'[c] = goal[c]
      BY <1>2, <1>5, <2>1, <3>1
    <3>3. cur[c] - goal[c] \in Int /\ n \in Nat \ {0}
      BY <1>1, <2>2, <3>1
    <3> QED BY <3>1, <3>2, <3>3, Truncates
  <2>9. SettledAtRest'
    <3>1. timer' = "off" => works' # <<>>
      BY <1>3, <2>1, <2>6, AppendProperties DEF update_light_state, Submit, TransitionOK
    <3> QED BY <3>1 DEF SettledAtRest
  <2> QED BY <2>3, <2>5, <2>7, <2>8, <2>9
<1> QED BY <1>2, <1>4, <1>5

(* A move starts from the values as they are, or does nothing.              *)
LEMMA MoveKeeps ==
  ASSUME IInv, NEW m \in Fields, NEW c \in Ranged, NEW v \in Int,
         NEW kind \in {"level_lightness", "level_temp"}, Move(m, kind, c, v), SettingsOK'
  PROVE  IInv'
<1> DEFINE goal == IF v < 0 THEN rmin[c] ELSE IF v > 0 THEN rmax[c] ELSE cur[c]
           n == Steps(m.tt)
           q == update_light_state(works)
<1> USE DEF IInv
<1>1. n \in 0 .. RESOLUTION /\ n < U32
  <2>1. m.tt \in Nat
    BY MeshLightAssumption DEF Fields, SettingsOK
  <2> QED BY <2>1, MeshLightAssumption DEF Steps
<1>2. /\ msg' = <<kind, v>> /\ raced' = (works # <<>>) /\ type' = "MOVE"
      /\ delta' = [delta EXCEPT ![c] = v] /\ tgt' = [tgt EXCEPT ![c] = goal]
      /\ \/ NoTransition
         \/ n # 0 /\ UNCHANGED cur /\ StartTransition(kind, n, m.delay)
  BY DEF Move, Accept
<1>3. msg'[1] = kind /\ kind \in Work /\ kind # "off"
  BY <1>2, WorkItems
<1>4. cur' = cur /\ counter' \in 0 .. n /\ works' = works
      /\ \/ timer' = "off"
         \/ timer' = kind /\ counter' = n /\ n # 0
  BY <1>1, <1>2 DEF NoTransition, StartTransition
<1>5. ValuesOK'
  <2>1. c \in Channel /\ c # "duv"
    BY DEF Channel, Ranged
  <2>2. goal \in Value(c)
    BY <2>1, Halves DEF ValuesOK, Values, Value, SettingsOK
  <2>3. goal \in Int
    BY <2>1, <2>2, Halves DEF Value
  <2> HIDE DEF goal
  <2>4. tgt' \in Values
    BY <1>2, <2>1, <2>2, <2>3 DEF ValuesOK, Values
  <2>5. delta' \in [Channel -> Int]
    BY <1>2 DEF ValuesOK
  <2> QED BY <1>4, <2>4, <2>5 DEF ValuesOK
<1>6. TransitionOK'
  BY <1>1, <1>2, <1>3, <1>4, MeshLightAssumption DEF TransitionOK
<1>7. InStep'
  <2>1. counter' <= RESOLUTION /\ (timer' # "off" => counter' > 0 /\ timer' = kind)
    BY <1>1, <1>4, MeshLightAssumption
  <2>2. ~ raced' => works' = <<>>
    BY ONLY <1>2, <1>4
  <2> QED BY ONLY <2>1, <2>2 DEF InStep
<1>8. NoOvershoot' /\ SettledAtRest'
  BY <1>2 DEF NoOvershoot, Fading, SettledAtRest
<1> QED BY <1>5, <1>6, <1>7, <1>8

-----------------------------------------------------------------------------
(* The messages: each has a goal in range.                                  *)

(* The bindings of state_binding.c stay in the range of a 16-bit value.     *)
LEMMA Constrained ==
  ASSUME SettingsOK, NEW v \in Int
  PROVE  /\ v \in 0 .. LMAX => constrain_lightness(v) \in 0 .. LMAX
         /\ v \in 0 .. LMAX => constrain_target_lightness2(v) \in 0 .. LMAX
         /\ constrain_temperature(v) \in 0 .. LMAX
         /\ v \in Level => level_to_light_ctl_temp(v) \in 0 .. LMAX
         /\ v \in Level <=> v + HALF \in 0 .. LMAX
<1>1. /\ rmin["light"] \in 1 .. LMAX /\ rmax["light"] \in 1 .. LMAX
      /\ rmin["temp"] \in 1 .. LMAX /\ rmax["temp"] \in 1 .. LMAX
      /\ rmin["temp"] <= rmax["temp"]
  BY DEF SettingsOK, Ranged
<1>2. /\ v \in 0 .. LMAX => constrain_lightness(v) \in 0 .. LMAX
      /\ v \in 0 .. LMAX => constrain_target_lightness2(v) \in 0 .. LMAX
  BY <1>1, Halves DEF constrain_lightness, constrain_target_lightness2
<1>3. constrain_temperature(v) \in 0 .. LMAX
  BY <1>1, Halves DEF constrain_temperature, Clamp
<1>4. v \in Level <=> v + HALF \in 0 .. LMAX
  BY Halves DEF Level
<1>5. ASSUME v \in Level PROVE level_to_light_ctl_temp(v) \in 0 .. LMAX
  <2> DEFINE a == v + HALF
             w == rmax["temp"] - rmin["temp"]
             s == (a * w) \div LMAX
  <2>1. a \in 0 .. LMAX /\ w \in Nat /\ LMAX # 0
    BY <1>1, <1>4, <1>5, Halves
  <2> HIDE DEF a, w
  <2>2. s \in 0 .. w
    BY ONLY <2>1, Scaled
  <2>3. level_to_light_ctl_temp(v) = rmin["temp"] + s
    BY DEF level_to_light_ctl_temp, a, w
  <2> HIDE DEF s
  <2> QED BY <1>1, <2>1, <2>2, <2>3, Halves DEF w
<1> QED BY <1>2, <1>3, <1>4, <1>5

(* What a message may set as targets.                                       *)
LEMMA Goals ==
  ASSUME IInv, NEW v \in 0 .. LMAX, NEW t \in 0 .. LMAX, NEW d \in Level
  PROVE  /\ [tgt EXCEPT !["light"] = v] \in Values
         /\ [tgt EXCEPT !["temp"] = t] \in Values
         /\ [tgt EXCEPT !["temp"] = t, !["duv"] = d] \in Values
         /\ [light |-> v, temp |-> t, duv |-> d] \in Values
<1>1. v \in Int /\ t \in Int /\ d \in Int
  BY Halves DEF Level
<1>2. tgt \in [Channel -> Int] /\ \A c \in Channel : tgt[c] \in Value(c)
  BY DEF IInv, ValuesOK, Values
<1>3. /\ [tgt EXCEPT !["light"] = v] \in Values
      /\ [tgt EXCEPT !["temp"] = t] \in Values
      /\ [tgt EXCEPT !["temp"] = t, !["duv"] = d] \in Values
  BY <1>1, <1>2 DEF Values, Value, Channel
<1>4. [light |-> v, temp |-> t, duv |-> d] \in Values
  BY <1>1 DEF Values, Value, Channel
<1> QED BY <1>3, <1>4

(* The levels that stand for the current values are numbers.                *)
LEMMA Levels ==
  ASSUME IInv, NEW c \in Ranged
  PROVE  get_current_level(c) \subseteq Int
<1> USE DEF IInv
<1>1. cur["light"] - HALF \in Int
  BY Halves DEF ValuesOK, Values, Channel
<1>2. light_ctl_temp_to_level(cur["temp"]) \subseteq Int
  <2>1. /\ rmin["temp"] \in Int /\ rmax["temp"] \in Int /\ rmin["temp"] <= rmax["temp"]
        /\ cur["temp"] \in Int
    BY DEF ValuesOK, Values, Channel, SettingsOK, Ranged
  <2> DEFINE width == rmax["temp"] - rmin["temp"]
             a == (cur["temp"] - rmin["temp"]) * LMAX
  <2>2. width \in Int /\ a \in Int /\ HALF \in Int
    BY ONLY <2>1, Halves
  <2>3. light_ctl_temp_to_level(cur["temp"]) =
          IF width = 0 \/ cur["temp"] < rmin["temp"] \/ cur["temp"] > rmax["temp"] THEN Level
          ELSE {a \div width - HALF}
    BY ONLY DEF light_ctl_temp_to_level
  <2> HIDE DEF a
  <2>4. width > 0 => a \div width \in Int
    BY ONLY <2>2
  <2>5. width = 0 \/ width > 0
    BY ONLY <2>1
  <2>6. Level \subseteq Int
    BY ONLY Halves DEF Level
  <2> HIDE DEF width
  <2>7. CASE light_ctl_temp_to_level(cur["temp"]) = Level
    BY ONLY <2>6, <2>7
  <2>8. CASE width # 0 /\ light_ctl_temp_to_level(cur["temp"]) = {a \div width - HALF}
    <3>1. a \div width - HALF \in Int
      BY ONLY <2>2, <2>4, <2>5, <2>8
    <3> QED BY ONLY <2>8, <3>1
  <2> QED BY ONLY <2>3, <2>7, <2>8
<1> QED BY <1>1, <1>2 DEF get_current_level

(* A delta is a fade to a level near the first one of its transaction.      *)
LEMMA DeltaKeeps ==
  ASSUME IInv, NEW m \in Fields, NEW kind \in Work, NEW c \in Ranged, NEW v \in Int,
         NEW goal \in [Level -> 0 .. LMAX], Delta(m, kind, c, v, goal), UNCHANGED <<settings, last>>
  PROVE  IInv'
<1> USE DEF IInv
<1>1. PICK f \in Form :
        \E l \in IF Duplicate(m) THEN {last_level[f][c]} ELSE get_current_level(c) :
           /\ last_level' = [last_level EXCEPT ![f][c] = l]
           /\ Fade(m, kind, v, [tgt EXCEPT ![c] = goal[Clamp(l + v, -HALF, HALF - 1)]])
  BY DEF Delta
<1>2. PICK l \in IF Duplicate(m) THEN {last_level[f][c]} ELSE get_current_level(c) :
        /\ last_level' = [last_level EXCEPT ![f][c] = l]
        /\ Fade(m, kind, v, [tgt EXCEPT ![c] = goal[Clamp(l + v, -HALF, HALF - 1)]])
  BY <1>1
<1>3. l \in Int
  BY <1>2, Levels DEF SettingsOK
<1>4. SettingsOK'
  BY <1>2, <1>3 DEF settings, SettingsOK
<1>5. Clamp(l + v, -HALF, HALF - 1) \in Level
  BY <1>3, Halves DEF Clamp, Level
<1>6. [tgt EXCEPT ![c] = goal[Clamp(l + v, -HALF, HALF - 1)]] \in Values
  <2> DEFINE g == goal[Clamp(l + v, -HALF, HALF - 1)]
  <2>1. g \in 0 .. LMAX /\ 0 \in Level
    BY <1>5, Halves, MeshLightAssumption DEF Level
  <2> HIDE DEF g
  <2>2. c = "light" \/ c = "temp"
    BY DEF Ranged
  <2>3. [tgt EXCEPT ![c] = g] \in Values
    BY ONLY IInv, <2>1, <2>2, Goals
  <2> QED BY <2>3 DEF g
<1> QED BY ONLY IInv, <1>2, <1>4, <1>6, FadeKeeps

(* The messages that set something else leave the values alone.             *)
LEMMA SettingKeeps ==
  ASSUME IInv, SettingsOK', UNCHANGED <<values, transition, works, msg, raced>>
  PROVE  IInv'
<1>1. UNCHANGED <<cur, tgt, delta, counter, just_started, type, timer, works, msg, raced>>
  BY DEF values, transition
<1>2. ValuesOK' /\ TransitionOK' /\ InStep'
  BY <1>1 DEF IInv, ValuesOK, TransitionOK, InStep
<1>3. NoOvershoot' /\ SettledAtRest'
  BY <1>1 DEF IInv, NoOvershoot, Fading, SettledAtRest
<1> QED BY <1>2, <1>3 DEF IInv

(* Every set handler of device_composition.c keeps the invariant.           *)
LEMMA MessageKeeps == IInv /\ Message => IInv'
<1> SUFFICES ASSUME IInv, Message PROVE IInv'
  OBVIOUS
<1>0. /\ SettingsOK /\ tgt["light"] \in 0 .. LMAX
      /\ \A v \in 0 .. LMAX : [tgt EXCEPT !["light"] = v] \in Values
      /\ \A v \in 0 .. LMAX : [tgt EXCEPT !["temp"] = v] \in Values
  <2>1. 0 \in Level
    BY MeshLightAssumption
  <2>2. \A v \in 0 .. LMAX : [tgt EXCEPT !["light"] = v] \in Values
    BY ONLY IInv, <2>1, Goals
  <2>3. \A v \in 0 .. LMAX : [tgt EXCEPT !["temp"] = v] \in Values
    BY ONLY IInv, <2>1, Goals
  <2> QED BY <2>2, <2>3 DEF IInv, ValuesOK, Values, Value, Channel
<1>1. UNCHANGED <<settings, last, last_level>> => SettingsOK'
  BY <1>0 DEF SettingsOK, settings
<1>2. ASSUME NEW m \in Fields,
             \/ gen_onoff_set(m) \/ gen_level_set(m) \/ gen_delta_set(m) \/ gen_move_set(m)
             \/ light_lightness_set(m) \/ light_lightness_linear_set(m)
             \/ light_ctl_set(m) \/ light_ctl_temp_set(m)
             \/ gen_level_set_temp(m) \/ gen_delta_set_temp(m) \/ gen_move_set_temp(m)
      PROVE  IInv'
  <2>1. CASE gen_onoff_set(m)
    <3>1. PICK v \in {0, 1} :
            Fade(m, "onoff", v, [tgt EXCEPT !["light"] = IF v = 0 THEN 0 ELSE IF def = 0 THEN last ELSE def])
      BY <2>1 DEF gen_onoff_set
    <3>2. (IF v = 0 THEN 0 ELSE IF def = 0 THEN last ELSE def) \in 0 .. LMAX
      BY <1>0, Halves DEF SettingsOK
    <3> QED BY <1>0, <1>1, <2>1, <3>1, <3>2, FadeKeeps, WorkItems DEF gen_onoff_set, NoDelta
  <2>2. CASE gen_level_set(m)
    <3>1. PICK l \in Level :
            Fade(m, "level_lightness", l, [tgt EXCEPT !["light"] = constrain_lightness(l + HALF)])
      BY <2>2 DEF gen_level_set
    <3>2. constrain_lightness(l + HALF) \in 0 .. LMAX
      <4>1. l \in Int /\ l + HALF \in 0 .. LMAX /\ l + HALF \in Int
        BY Halves DEF Level
      <4> QED BY <1>0, <4>1, Constrained
    <3> QED BY <1>0, <1>1, <2>2, <3>1, <3>2, FadeKeeps, WorkItems DEF gen_level_set, NoDelta
  <2>3. CASE gen_delta_set(m)
    <3> DEFINE goal == [l \in Level |-> constrain_target_lightness2(l + HALF)]
    <3>1. PICK v \in Signed : Delta(m, "level_lightness", "light", v, goal)
      BY <2>3 DEF gen_delta_set
    <3>2. goal \in [Level -> 0 .. LMAX]
      <4>1. ASSUME NEW l \in Level PROVE constrain_target_lightness2(l + HALF) \in 0 .. LMAX
        <5>1. l + HALF \in 0 .. LMAX /\ l + HALF \in Int
          BY Halves DEF Level
        <5> QED BY <1>0, <5>1, Constrained
      <4> QED BY <4>1
    <3>3. v \in Int /\ UNCHANGED <<settings, last>>
      BY <2>3, Halves DEF gen_delta_set, Signed
    <3> HIDE DEF goal
    <3> QED BY <3>1, <3>2, <3>3, DeltaKeeps, WorkItems DEF Ranged
  <2>4. CASE gen_move_set(m)
    <3>1. PICK v \in Level : Move(m, "level_lightness", "light", v)
      BY <2>4 DEF gen_move_set
    <3> QED BY <1>1, <2>4, <3>1, MoveKeeps, Halves DEF gen_move_set, NoDelta, Level, Ranged
  <2>5. CASE light_lightness_set(m)
    <3>1. PICK v \in 0 .. LMAX :
            Fade(m, "light_lightness_actual", v, [tgt EXCEPT !["light"] = constrain_lightness(v)])
      BY <2>5 DEF light_lightness_set
    <3>2. constrain_lightness(v) \in 0 .. LMAX
      BY <1>0, Constrained, Halves
    <3> QED BY <1>0, <1>1, <2>5, <3>1, <3>2, FadeKeeps, WorkItems DEF light_lightness_set, NoDelta
  <2>6. CASE light_lightness_linear_set(m)
    <3>1. PICK v \in 0 .. LMAX :
            Fade(m, "light_lightness_linear", v,
                 [tgt EXCEPT !["light"] = constrain_lightness(linear_to_actual(v))])
      BY <2>6 DEF light_lightness_linear_set
    <3>2. constrain_lightness(linear_to_actual(v)) \in 0 .. LMAX
      <4>1. linear_to_actual(v) \in 0 .. LMAX /\ linear_to_actual(v) \in Int
        BY Root, Halves
      <4> QED BY <1>0, <4>1, Constrained
    <3> QED BY <1>0, <1>1, <2>6, <3>1, <3>2, FadeKeeps, WorkItems DEF light_lightness_linear_set, NoDelta
  <2>7. CASE light_ctl_set(m)
    <3>1. PICK v \in 0 .. LMAX, t \in TEMP_MIN .. TEMP_MAX, d \in Duv :
            Fade(m, "light_ctl", v,
                 [light |-> constrain_lightness(v), temp |-> constrain_temperature(t), duv |-> d])
      BY <2>7 DEF light_ctl_set
    <3>2. v \in Int /\ t \in Int /\ d \in Level
      BY MeshLightAssumption
    <3>3. constrain_lightness(v) \in 0 .. LMAX /\ constrain_temperature(t) \in 0 .. LMAX
      BY <1>0, <3>2, Constrained
    <3>4. [light |-> constrain_lightness(v), temp |-> constrain_temperature(t), duv |-> d] \in Values
      BY ONLY IInv, <3>2, <3>3, Goals
    <3> QED BY <1>1, <2>7, <3>1, <3>4, FadeKeeps, WorkItems DEF light_ctl_set, NoDelta
  <2>8. CASE light_ctl_temp_set(m)
    <3>1. PICK t \in TEMP_MIN .. TEMP_MAX, d \in Duv :
            Fade(m, "light_ctl_temp", t, [tgt EXCEPT !["temp"] = constrain_temperature(t), !["duv"] = d])
      BY <2>8 DEF light_ctl_temp_set
    <3>2. t \in Int /\ d \in Level /\ 0 \in 0 .. LMAX
      BY MeshLightAssumption
    <3>3. constrain_temperature(t) \in 0 .. LMAX
      BY <1>0, <3>2, Constrained
    <3>4. [tgt EXCEPT !["temp"] = constrain_temperature(t), !["duv"] = d] \in Values
      BY ONLY IInv, <3>2, <3>3, Goals
    <3> QED BY <1>1, <2>8, <3>1, <3>4, FadeKeeps, WorkItems DEF light_ctl_temp_set, NoDelta
  <2>9. CASE gen_level_set_temp(m)
    <3>1. PICK l \in Level :
            Fade(m, "level_temp", l, [tgt EXCEPT !["temp"] = level_to_light_ctl_temp(l)])
      BY <2>9 DEF gen_level_set_temp
    <3>2. level_to_light_ctl_temp(l) \in 0 .. LMAX
      <4>1. l \in Int
        BY Halves DEF Level
      <4> QED BY <1>0, <4>1, Constrained
    <3> QED BY <1>0, <1>1, <2>9, <3>1, <3>2, FadeKeeps, WorkItems DEF gen_level_set_temp, NoDelta
  <2>10. CASE gen_delta_set_temp(m)
    <3> DEFINE goal == [l \in Level |-> level_to_light_ctl_temp(l)]
    <3>1. PICK v \in Signed : Delta(m, "level_temp", "temp", v, goal)
      BY <2>10 DEF gen_delta_set_temp
    <3>2. goal \in [Level -> 0 .. LMAX]
      <4>1. ASSUME NEW l \in Level PROVE level_to_light_ctl_temp(l) \in 0 .. LMAX
        <5>1. l \in Int
          BY Halves DEF Level
        <5> QED BY <1>0, <5>1, Constrained
      <4> QED BY <4>1
    <3>3. v \in Int /\ UNCHANGED <<settings, last>>
      BY <2>10, Halves DEF gen_delta_set_temp, Signed
    <3> HIDE DEF goal
    <3> QED BY <3>1, <3>2, <3>3, DeltaKeeps, WorkItems DEF Ranged
  <2>11. CASE gen_move_set_temp(m)
    <3>1. PICK v \in Level : Move(m, "level_temp", "temp", v)
      BY <2>11 DEF gen_move_set_temp
    <3> QED BY <1>1, <2>11, <3>1, MoveKeeps, Halves DEF gen_move_set_temp, NoDelta, Level, Ranged
  <2> QED
    BY <1>2, <2>1, <2>2, <2>3, <2>4, <2>5, <2>6, <2>7, <2>8, <2>9, <2>10, <2>11
<1>3. CASE light_lightness_range_set \/ light_ctl_temp_range_set
  <2>1. SettingsOK'
    <3>1. CASE light_lightness_range_set
      BY <1>0, <3>1 DEF light_lightness_range_set, SettingsOK, Ranged
    <3>2. CASE light_ctl_temp_range_set
      <4>1. TEMP_MIN .. TEMP_MAX \subseteq 1 .. LMAX
        BY MeshLightAssumption
      <4> QED BY <1>0, <3>2, <4>1 DEF light_ctl_temp_range_set, SettingsOK, Ranged
    <3> QED BY <1>3, <3>1, <3>2
  <2> QED BY <1>3, <2>1, SettingKeeps DEF light_lightness_range_set, light_ctl_temp_range_set
<1>4. CASE light_lightness_default_set \/ gen_def_trans_time_set
  <2>1. SettingsOK'
    <3>1. CASE light_lightness_default_set
      <4>1. def' \in 0 .. LMAX
        BY <1>0, <3>1, Constrained, Halves DEF light_lightness_default_set
      <4> QED BY <1>0, <3>1, <4>1 DEF light_lightness_default_set, SettingsOK
    <3>2. CASE gen_def_trans_time_set
      BY <1>0, <3>2, MeshLightAssumption DEF gen_def_trans_time_set, SettingsOK
    <3> QED BY <1>4, <3>1, <3>2
  <2> QED BY <1>4, <2>1, SettingKeeps DEF light_lightness_default_set, gen_def_trans_time_set
<1>5. CASE delta_refused
  <2>1. PICK c \in Ranged, f \in Form : \E l \in get_current_level(c) :
          last_level' = [last_level EXCEPT ![f][c] = l]
    BY <1>5 DEF delta_refused
  <2>2. last_level' \in [Form -> [Ranged -> Int]]
    BY <1>0, <2>1, Levels DEF SettingsOK
  <2>3. SettingsOK'
    BY <1>0, <1>5, <2>2 DEF delta_refused, settings, SettingsOK
  <2> QED BY <1>5, <2>3, SettingKeeps DEF delta_refused
<1> QED BY <1>2, <1>3, <1>4, <1>5 DEF Message
-----------------------------------------------------------------------------
(* The interrupt and the workqueue                                          *)

(* The expiry queues the item of the timer, which is not queued twice.      *)
LEMMA TickKeeps == IInv /\ Tick => IInv'
<1> SUFFICES ASSUME IInv, Tick PROVE IInv'
  OBVIOUS
<1> USE DEF IInv
<1>1. /\ UNCHANGED <<cur, tgt, delta, counter, just_started, type, timer, msg, raced>>
      /\ timer # "off" /\ works' = Submit(works, timer)
  BY DEF Tick, values, transition, history
<1>2. SettingsOK'
  BY DEF Tick, settings, SettingsOK
<1>3. works' \in Seq(Work \cup {"no_transition"}) /\ works' # <<>>
  <2>1. timer \in Work \cup {"no_transition"}
    BY <1>1 DEF TransitionOK
  <2> QED BY <1>1, <2>1, AppendProperties DEF TransitionOK, Submit
<1>4. ValuesOK' /\ TransitionOK'
  BY <1>1, <1>3 DEF ValuesOK, TransitionOK
<1>5. ~ raced => works' = <<timer>>
  <2>1. Submit(<<>>, timer) = <<timer>> /\ Submit(<<timer>>, timer) = <<timer>>
    BY DEF Submit
  <2> QED BY <1>1, <2>1 DEF InStep
<1>6. InStep'
  BY <1>1, <1>5 DEF InStep
<1>7. NoOvershoot' /\ SettledAtRest'
  BY <1>1, <1>3 DEF NoOvershoot, Fading, SettledAtRest
<1> QED BY <1>2, <1>4, <1>6, <1>7

(* The queue without its first item; and with the one that settles.         *)
LEMMA Queue ==
  ASSUME TransitionOK, works # <<>>
  PROVE  LET q == Tail(works) IN
         /\ q \in Seq(Work \cup {"no_transition"})
         /\ update_light_state(q) \in Seq(Work \cup {"no_transition"})
         /\ update_light_state(q) # <<>>
         /\ timer # "off" => Submit(q, timer) \in Seq(Work \cup {"no_transition"})
         /\ timer # "off" => Submit(update_light_state(q), timer) \in Seq(Work \cup {"no_transition"})
         /\ Head(works) \in Work \cup {"no_transition"}
         /\ \A w : works = <<w>> => Head(works) = w /\ q = <<>>
         /\ update_light_state(<<>>) = <<"no_transition">>
<1> DEFINE q == Tail(works)
           S == Work \cup {"no_transition"}
<1>1. q \in Seq(S) /\ Head(works) \in S /\ "no_transition" \in S
  BY HeadTailProperties DEF TransitionOK
<1>2. ASSUME NEW r \in Seq(S), NEW w \in S
      PROVE  Submit(r, w) \in Seq(S) /\ Submit(r, w) # <<>>
  BY AppendProperties DEF Submit
<1>3. update_light_state(q) \in Seq(S) /\ update_light_state(q) # <<>>
  BY <1>1, <1>2 DEF update_light_state
<1>4. timer # "off" => timer \in S
  BY DEF TransitionOK
<1>5. timer # "off" => Submit(q, timer) \in Seq(S) /\ Submit(update_light_state(q), timer) \in Seq(S)
  BY ONLY <1>1, <1>2, <1>3, <1>4
<1>6. \A w : works = <<w>> => Head(works) = w /\ q = <<>>
  OBVIOUS
<1>7. update_light_state(<<>>) = <<"no_transition">>
  BY DEF update_light_state, Submit
<1> QED BY <1>1, <1>3, <1>5, <1>6, <1>7

(* What a work item leaves in the timer and in the queue.                   *)
LEMMA TimerKeeps ==
  ASSUME TransitionOK, works # <<>>, NEW q \in {Tail(works), update_light_state(Tail(works))}
  PROVE  /\ StopTimer(q) => /\ timer' = "off" /\ works' \in Seq(Work \cup {"no_transition"})
                            /\ (raced' = raced /\ works' = q) \/ raced' = TRUE
         /\ KeepTimer(q) => /\ timer' = timer /\ works' \in Seq(Work \cup {"no_transition"})
                            /\ raced' = raced /\ works' = q
BY Queue DEF StopTimer, KeepTimer

(* The first item after the delay: no step is taken yet.                    *)
LEMMA FirstStepKeeps ==
  ASSUME IInv, works # <<>>, Head(works) \in Work, FirstStep(Tail(works)),
         UNCHANGED <<settings, last, type, last_level, msg>>
  PROVE  IInv'
<1> USE DEF IInv
<1> DEFINE q == Tail(works)
           r == update_light_state(q)
<1>1. UNCHANGED <<cur, tgt, delta, counter, type, msg>> /\ just_started /\ ~ just_started'
  BY DEF FirstStep, values
<1>2. SettingsOK'
  BY DEF settings, SettingsOK
<1>3. counter = 0 => StopTimer(r)
  BY DEF FirstStep
<1>4. counter # 0 => KeepTimer(q)
  BY DEF FirstStep
<1>5. /\ works' \in Seq(Work \cup {"no_transition"}) /\ (raced => raced')
      /\ timer' \in {timer, "off"}
      /\ counter = 0 => timer' = "off" /\ (~ raced' => works' = r)
      /\ counter # 0 => timer' = timer /\ works' = q
  BY <1>3, <1>4, TimerKeeps
<1>6. ValuesOK' /\ TransitionOK'
  BY <1>1, <1>5 DEF ValuesOK, TransitionOK
<1>7. ~ raced => works = <<timer>> /\ q = <<>> /\ r = <<"no_transition">>
  BY Queue, WorkItems DEF InStep
<1>8. InStep'
  BY <1>1, <1>5, <1>7, MeshLightAssumption DEF InStep, TransitionOK
<1>9. NoOvershoot'
  BY <1>1, <1>5 DEF NoOvershoot, Fading
<1>10. SettledAtRest'
  <2>1. timer' = "off" /\ ~ raced' => works' # <<>>
    BY <1>5, <1>7 DEF InStep
  <2> QED BY <2>1 DEF SettledAtRest
<1> QED BY <1>2, <1>6, <1>8, <1>9, <1>10

(* A step of a move stays in the range of its value.                        *)
LEMMA MoveStepKeeps ==
  ASSUME IInv, works # <<>>, Head(works) \in Work, ~ just_started, type = "MOVE",
         NEW c \in Ranged, MoveStep(c, Tail(works)),
         UNCHANGED <<tgt, delta, just_started, settings, last, type, last_level, msg>>
  PROVE  IInv'
<1> USE DEF IInv
<1> DEFINE q == Tail(works)
           r == update_light_state(q)
           v == IF cur[c] = 0 /\ delta[c] < 0 THEN LMAX + delta[c] ELSE cur[c] + delta[c]
           new == Clamp(v, rmin[c], rmax[c])
<1>1. SettingsOK'
  BY DEF settings, SettingsOK
<1>2. c \in Channel /\ c # "duv"
  BY DEF Ranged, Channel
<1>3. new \in 0 .. LMAX /\ new \in Int
  <2>1. v \in Int /\ rmin[c] \in 1 .. LMAX /\ rmax[c] \in 1 .. LMAX
    BY <1>2, Halves DEF ValuesOK, Values, SettingsOK
  <2> HIDE DEF v
  <2> QED BY <2>1, Halves DEF Clamp
<1>4. /\ cur' = [cur EXCEPT ![c] = new]
      /\ \/ counter' = 0 /\ (StopTimer(q) \/ (StopTimer(r) /\ counter = 0))
         \/ counter' = counter /\ (KeepTimer(q) \/ (KeepTimer(r) /\ counter = 0))
  BY DEF MoveStep
<1> HIDE DEF new, v
<1>5. ValuesOK'
  <2>1. new \in Value(c)
    BY <1>2, <1>3 DEF Value
  <2> QED BY <1>2, <1>3, <1>4, <2>1 DEF ValuesOK, Values
<1>6. /\ works' \in Seq(Work \cup {"no_transition"}) /\ (raced => raced')
      /\ \/ counter' = 0 /\ timer' = "off" /\ (~ raced' /\ counter # 0 => works' = q)
         \/ counter' = counter /\ timer' = timer /\ (counter # 0 => works' = q)
  BY <1>4, TimerKeeps
<1>7. TransitionOK'
  BY <1>6, MeshLightAssumption DEF TransitionOK
<1>8. ~ raced => counter > 0 /\ works = <<timer>> /\ q = <<>>
  BY Queue, WorkItems DEF InStep
<1>9. InStep'
  BY <1>6, <1>8, MeshLightAssumption DEF InStep, TransitionOK
<1>10. NoOvershoot' /\ SettledAtRest'
  BY DEF NoOvershoot, Fading, SettledAtRest
<1> QED BY <1>1, <1>5, <1>7, <1>9, <1>10

(* A step of a fade: with one step less to go, the value is still not past  *)
(* its target.                                                              *)
LEMMA FadeStepKeeps ==
  ASSUME IInv, works # <<>>, NEW w \in Work, Head(works) = w, ~ just_started,
         type = "NON_MOVE" \/ w \notin {"level_lightness", "level_temp"}, FadeStep(Touches[w], Tail(works)),
         UNCHANGED <<tgt, delta, just_started, settings, last, type, last_level, msg>>
  PROVE  IInv'
<1> USE DEF IInv
<1> DEFINE q == Tail(works)
           r == update_light_state(q)
           n == (counter - 1) % U32
           chans == Touches[w]
<1>1. SettingsOK'
  BY DEF settings, SettingsOK
<1>2. /\ counter' = n
      /\ cur' = [c \in Channel |-> IF c \notin chans THEN cur[c]
                                   ELSE IF n = 0 THEN tgt[c] ELSE Wrap(c, cur[c] - delta[c])]
      /\ n = 0 => StopTimer(r)
      /\ n # 0 => KeepTimer(q)
  BY DEF FadeStep
<1>3. /\ n \in 0 .. U32 - 1 /\ (counter > 0 => n = counter - 1)
      /\ chans \subseteq Channel
  <2>1. U32 \in Nat \ {0} /\ counter \in Int /\ counter < U32
    BY MeshLightAssumption DEF TransitionOK
  <2>2. n \in 0 .. U32 - 1
    BY <2>1, WrapRange
  <2>3. counter > 0 => n = counter - 1
    BY <2>1, Modulo
  <2> QED BY <2>2, <2>3, WorkItems
<1> HIDE DEF n, chans
<1>4. /\ works' \in Seq(Work \cup {"no_transition"}) /\ (raced => raced')
      /\ timer' \in {timer, "off"}
      /\ n = 0 => timer' = "off" /\ (~ raced' => works' = r)
      /\ n # 0 => timer' = timer /\ works' = q
  BY <1>2, TimerKeeps
<1>5. ASSUME NEW c \in Channel
      PROVE  /\ Wrap(c, cur[c] - delta[c]) \in Value(c)
             /\ cur[c] - delta[c] \in Value(c) => Wrap(c, cur[c] - delta[c]) = cur[c] - delta[c]
  <2> DEFINE x == cur[c] - delta[c]
             y == x + HALF
  <2>1. x \in Int /\ y \in Int /\ LMAX + 1 \in Nat \ {0}
    BY Halves DEF ValuesOK, Values
  <2>2. ASSUME NEW z \in Int
        PROVE  z % (LMAX + 1) \in 0 .. LMAX /\ (z \in 0 .. LMAX => z % (LMAX + 1) = z)
    <3> DEFINE k == LMAX + 1
    <3>1. k \in Nat \ {0} /\ 0 .. k - 1 = 0 .. LMAX
      BY Halves
    <3> HIDE DEF k
    <3>2. z % k \in 0 .. k - 1
      BY ONLY <2>2, <3>1, WrapRange
    <3>3. z \in 0 .. k - 1 => z % k = z
      BY ONLY <2>2, <3>1, Modulo
    <3> QED BY <3>1, <3>2, <3>3 DEF k
  <2>3. /\ x % (LMAX + 1) \in 0 .. LMAX /\ (x \in 0 .. LMAX => x % (LMAX + 1) = x)
        /\ y % (LMAX + 1) \in 0 .. LMAX /\ (y \in 0 .. LMAX => y % (LMAX + 1) = y)
    BY ONLY <2>1, <2>2
  <2> HIDE DEF x
  <2>4. CASE c = "duv"
    <3> DEFINE p == y % (LMAX + 1)
    <3>1. Wrap(c, x) = p - HALF /\ Value(c) = -HALF .. HALF - 1
      BY ONLY <2>4 DEF Wrap, Value, Level
    <3>2. p \in 0 .. LMAX /\ (y \in 0 .. LMAX => p = y)
      BY ONLY <2>3
    <3> HIDE DEF p
    <3>3. p - HALF \in -HALF .. HALF - 1
      BY ONLY <3>2, Halves
    <3>4. x \in -HALF .. HALF - 1 => y \in 0 .. LMAX /\ y - HALF = x
      BY ONLY <2>1, Halves
    <3>5. x \in -HALF .. HALF - 1 => p - HALF = x
      BY ONLY <3>2, <3>4
    <3>6. Wrap(c, x) \in Value(c) /\ (x \in Value(c) => Wrap(c, x) = x)
      BY ONLY <3>1, <3>3, <3>5
    <3> QED BY <3>6 DEF x
  <2>5. CASE c # "duv"
    <3>1. Wrap(c, x) = x % (LMAX + 1) /\ Value(c) = 0 .. LMAX
      BY ONLY <2>5 DEF Wrap, Value
    <3>2. Wrap(c, x) \in Value(c) /\ (x \in Value(c) => Wrap(c, x) = x)
      BY ONLY <2>3, <3>1
    <3> QED BY <3>2 DEF x
  <2> QED BY <2>4, <2>5
<1>6. ValuesOK'
  <2>1. \A c \in Channel : Value(c) \subseteq Int
    BY Halves DEF Value, Level
  <2>2. \A c \in Channel : cur'[c] \in Value(c)
    BY <1>2, <1>5 DEF ValuesOK, Values
  <2> QED BY <1>2, <2>1, <2>2 DEF ValuesOK, Values
<1>7. TransitionOK'
  BY <1>2, <1>3, <1>4 DEF TransitionOK
<1>8. ~ raced => /\ counter > 0 /\ works = <<timer>> /\ w = timer /\ timer # "off" /\ q = <<>>
                 /\ r = <<"no_transition">> /\ type = "NON_MOVE" /\ counter <= RESOLUTION
  BY Queue, WorkItems DEF InStep, TransitionOK
<1>9. InStep'
  BY <1>2, <1>3, <1>4, <1>8, MeshLightAssumption DEF InStep, TransitionOK
<1>10. NoOvershoot'
  <2> SUFFICES ASSUME Fading', ~ raced', NEW c \in Touches[timer']
               PROVE  /\ delta'[c] > 0 => cur'[c] - tgt'[c] >= delta'[c] * counter'
                      /\ delta'[c] < 0 => cur'[c] - tgt'[c] <= delta'[c] * counter'
    BY DEF NoOvershoot
  <2>1. /\ ~ raced /\ counter' = n /\ n > 0 /\ n # 0 /\ timer' = timer /\ w = timer
        /\ counter > 0 /\ n = counter - 1 /\ Fading /\ c \in chans /\ c \in Channel
    BY <1>2, <1>3, <1>4, <1>8 DEF Fading, chans
  <2>2. /\ delta[c] > 0 => cur[c] - tgt[c] >= delta[c] * counter
        /\ delta[c] < 0 => cur[c] - tgt[c] <= delta[c] * counter
    BY <2>1 DEF NoOvershoot, chans
  <2>3. /\ cur[c] \in Int /\ tgt[c] \in Int /\ delta[c] \in Int /\ counter \in Nat \ {0}
        /\ cur[c] \in Value(c) /\ tgt[c] \in Value(c)
    BY <2>1 DEF ValuesOK, Values, TransitionOK
  <2>4. /\ delta[c] * counter \in Int /\ delta[c] * n \in Int
        /\ delta[c] * counter = delta[c] * n + delta[c]
        /\ delta[c] >= 0 => delta[c] * n >= 0
        /\ delta[c] =< 0 => delta[c] * n =< 0
    BY <2>1, <2>3, OneStepLess
  <2>5. delta[c] # 0 => cur[c] - delta[c] \in Value(c)
    <3>1. \/ delta[c] > 0 /\ tgt[c] <= cur[c] - delta[c] /\ cur[c] - delta[c] <= cur[c]
          \/ delta[c] < 0 /\ cur[c] <= cur[c] - delta[c] /\ cur[c] - delta[c] <= tgt[c]
          \/ delta[c] = 0
      BY ONLY <2>2, <2>3, <2>4
    <3> QED BY ONLY <2>3, <3>1, Halves DEF Value, Level
  <2>6. cur'[c] = Wrap(c, cur[c] - delta[c])
    BY <1>2, <2>1
  <2>7. delta[c] # 0 => cur'[c] = cur[c] - delta[c]
    BY <1>5, <2>1, <2>5, <2>6
  <2>8. delta'[c] = delta[c] /\ tgt'[c] = tgt[c] /\ counter' = n
    BY <2>1
  <2> DEFINE left == delta[c] * n
             now == cur'[c]
  <2>9. left \in Int /\ delta'[c] * counter' = left
    BY ONLY <2>4, <2>8
  <2>10. ASSUME delta[c] > 0 PROVE now - tgt[c] >= left
    <3>1. cur[c] - tgt[c] >= left + delta[c] /\ now = cur[c] - delta[c]
      BY ONLY <2>2, <2>3, <2>4, <2>7, <2>10
    <3> HIDE DEF left, now
    <3> QED BY ONLY <2>3, <2>9, <3>1
  <2>11. ASSUME delta[c] < 0 PROVE now - tgt[c] <= left
    <3>1. cur[c] - tgt[c] <= left + delta[c] /\ now = cur[c] - delta[c]
      BY ONLY <2>2, <2>3, <2>4, <2>7, <2>11
    <3> HIDE DEF left, now
    <3> QED BY ONLY <2>3, <2>9, <3>1
  <2> QED BY ONLY <2>8, <2>9, <2>10, <2>11
<1>11. SettledAtRest'
  <2>1. timer' = "off" /\ ~ raced' => works' # <<>>
    BY <1>4, <1>8
  <2> QED BY <2>1 DEF SettledAtRest
<1> QED BY <1>1, <1>6, <1>7, <1>9, <1>10, <1>11

(* no_transition_work_handler makes the targets current.                    *)
LEMMA SettleKeeps == IInv /\ no_transition_work_handler => IInv'
<1> SUFFICES ASSUME IInv, no_transition_work_handler PROVE IInv'
  OBVIOUS
<1> USE DEF IInv
<1>1. /\ UNCHANGED <<tgt, delta, counter, just_started, type, timer, msg, raced>>
      /\ UNCHANGED <<rmin, rmax, def, tt, last_level>>
      /\ works # <<>> /\ Head(works) = "no_transition" /\ works' = Tail(works) /\ cur' = tgt
      /\ last' = IF tgt["light"] # 0 THEN tgt["light"] ELSE last
  BY DEF no_transition_work_handler, transition, settings, history
<1>2. ValuesOK' /\ SettingsOK'
  <2>1. last' \in 0 .. LMAX
    BY <1>1 DEF ValuesOK, Values, Value, Channel, SettingsOK
  <2> QED BY <1>1, <2>1 DEF ValuesOK, SettingsOK
<1>3. TransitionOK'
  BY <1>1, Queue DEF TransitionOK
<1>4. ~ raced => timer = "off" /\ works' = <<>>
  BY <1>1, Queue, WorkItems DEF InStep, TransitionOK
<1>5. InStep'
  BY <1>1, <1>4 DEF InStep
<1>6. NoOvershoot' /\ SettledAtRest'
  BY <1>1, <1>4 DEF NoOvershoot, Fading, SettledAtRest
<1> QED BY <1>2, <1>3, <1>5, <1>6
-----------------------------------------------------------------------------
(* The invariant                                                            *)

(* After boot.                                                              *)
LEMMA InitKeeps == Init => IInv
<1> SUFFICES ASSUME Init PROVE IInv
  OBVIOUS
<1> USE DEF Init, Booted
<1>1. /\ LMAX \in 1 .. LMAX /\ LMAX \in Nat /\ 0 \in Level
      /\ TEMP_MIN \in 1 .. LMAX /\ TEMP_MAX \in 1 .. LMAX /\ TEMP_MIN <= TEMP_MAX
  BY Halves, MeshLightAssumption
<1>2. ValuesOK
  BY <1>1 DEF ValuesOK, Values, Value, Channel
<1>3. SettingsOK
  BY <1>1 DEF SettingsOK, Ranged
<1>4. TransitionOK
  <2>1. <<"no_transition">> \in Seq(Work \cup {"no_transition"})
    OBVIOUS
  <2> QED BY <2>1, MeshLightAssumption DEF TransitionOK
<1>5. InStep
  BY MeshLightAssumption DEF InStep
<1>6. NoOvershoot /\ SettledAtRest
  BY DEF NoOvershoot, Fading, SettledAtRest
<1> QED BY <1>2, <1>3, <1>4, <1>5, <1>6 DEF IInv

(* work_handler takes a first step, a step of a move or one of a fade.      *)
LEMMA WorkKeeps == IInv /\ work_handler => IInv'
<1> SUFFICES ASSUME IInv, work_handler PROVE IInv'
  OBVIOUS
<1> DEFINE w == Head(works)
           q == Tail(works)
<1>1. /\ works # <<>> /\ w \in Work
      /\ UNCHANGED <<settings, last, type, last_level, msg>>
      /\ \/ FirstStep(q)
         \/ /\ ~ just_started
            /\ IF type = "MOVE" /\ w \in {"level_lightness", "level_temp"}
               THEN MoveStep(IF w = "level_temp" THEN "temp" ELSE "light", q)
               ELSE FadeStep(Touches[w], q)
            /\ UNCHANGED <<tgt, delta, just_started>>
  BY DEF work_handler
<1> HIDE DEF w
<1>2. CASE FirstStep(q)
  BY <1>1, <1>2, FirstStepKeeps DEF w
<1>3. CASE /\ ~ just_started /\ UNCHANGED <<tgt, delta, just_started>>
           /\ type = "MOVE" /\ w \in {"level_lightness", "level_temp"}
           /\ MoveStep(IF w = "level_temp" THEN "temp" ELSE "light", q)
  <2>1. (IF w = "level_temp" THEN "temp" ELSE "light") \in Ranged
    BY DEF Ranged
  <2> QED BY <1>1, <1>3, <2>1, MoveStepKeeps DEF w
<1>4. CASE /\ ~ just_started /\ UNCHANGED <<tgt, delta, just_started>>
           /\ ~ (type = "MOVE" /\ w \in {"level_lightness", "level_temp"})
           /\ FadeStep(Touches[w], q)
  <2>1. type = "NON_MOVE" \/ w \notin {"level_lightness", "level_temp"}
    BY <1>4 DEF IInv, TransitionOK
  <2> QED BY <1>1, <1>4, <2>1, FadeStepKeeps DEF w
<1> QED BY <1>1, <1>2, <1>3, <1>4

(* The invariant is inductive.                                              *)
LEMMA NextKeeps == IInv /\ [Next]_vars => IInv'
<1> SUFFICES ASSUME IInv, [Next]_vars PROVE IInv'
  OBVIOUS
<1>1. UNCHANGED <<settings, last, last_level>> => SettingsOK'
  BY DEF IInv, SettingsOK, settings
<1>2. CASE Message
  BY <1>2, MessageKeeps
<1>3. CASE SixSeconds
  BY <1>1, <1>3, SettingKeeps DEF SixSeconds, history
<1>4. CASE Tick
  BY <1>4, TickKeeps
<1>5. CASE work_handler
  BY <1>5, WorkKeeps
<1>6. CASE no_transition_work_handler
  BY <1>6, SettleKeeps
<1>7. CASE UNCHANGED vars
  BY <1>1, <1>7, SettingKeeps DEF vars, history
<1> QED BY <1>2, <1>3, <1>4, <1>5, <1>6, <1>7 DEF Next, Workqueue

(* It holds in every state of every behaviour.                              *)
LEMMA Invariance == Spec => []IInv
<1>1. Init => IInv
  BY InitKeeps
<1>2. IInv /\ [Next]_vars => IInv'
  BY NextKeeps
<1> QED BY <1>1, <1>2, PTL DEF Spec

-----------------------------------------------------------------------------
(* Transactions of deltas                                                   *)

(* While a transaction is under way the static variable of its handler      *)
(* still holds the level it began at.                                      *)
Kept == aim # None =>
  /\ aim.form \in Form /\ aim.chan \in Ranged
  /\ last_level[aim.form][aim.chan] = aim.from
  /\ tgt[aim.chan] = aim.meant

(* A delta begins a transaction or goes on with the one it belongs to.      *)
LEMMA DeltaGoesOn ==
  ASSUME IInv, Kept, NEW m, NEW kind, NEW c \in Ranged, NEW v, NEW goal, Delta(m, kind, c, v, goal)
  PROVE  Kept'
<1> DEFINE want(l) == goal[Clamp(l + v, -HALF, HALF - 1)]
<1>1. PICK f \in Form : \E l \in IF Duplicate(m) THEN {last_level[f][c]} ELSE get_current_level(c) :
        /\ last_level' = [last_level EXCEPT ![f][c] = l]
        /\ Fade(m, kind, v, [tgt EXCEPT ![c] = want(l)])
        /\ Aims(m, f, c, v, l, goal)
  BY DEF Delta
<1>2. PICK l \in IF Duplicate(m) THEN {last_level[f][c]} ELSE get_current_level(c) :
        /\ last_level' = [last_level EXCEPT ![f][c] = l]
        /\ Fade(m, kind, v, [tgt EXCEPT ![c] = want(l)])
        /\ Aims(m, f, c, v, l, goal)
  BY <1>1
<1>3. c \in DOMAIN tgt /\ f \in DOMAIN last_level /\ c \in DOMAIN last_level[f]
  BY DEF IInv, ValuesOK, Values, SettingsOK, Ranged, Channel
<1>4. last_level'[f][c] = l
  BY <1>2, <1>3
<1>5. tgt'[c] = want(l)
  BY <1>2, <1>3 DEF Fade
<1>6. \A from \in Begun(m, f, c, l) : from = l
  <2>1. CASE Duplicate(m)
    <3>1. l = last_level[f][c]
      BY <1>2, <2>1
    <3> QED BY <2>1, <3>1 DEF Begun, Kept
  <2>2. CASE ~ Duplicate(m)
    BY <2>2 DEF Begun
  <2> QED BY <2>1, <2>2
<1>7. CASE aim' = None
  BY <1>7 DEF Kept
<1>8. CASE aim' # None
  <2>1. aim' = [form |-> f, chan |-> c, from |-> l, meant |-> want(l)]
    BY <1>2, <1>6, <1>8 DEF Aims
  <2> HIDE DEF want
  <2> QED BY <1>4, <1>5, <2>1 DEF Kept
<1> QED BY <1>7, <1>8

(* A refused delta leaves the transactions of the other form, and of the    *)
(* other channel, as they are.                                             *)
LEMMA RefusedGoesOn == IInv /\ Kept /\ delta_refused => Kept'
<1> SUFFICES ASSUME IInv, Kept, delta_refused PROVE Kept'
  OBVIOUS
<1>1. PICK c \in Ranged, f \in Form : \E l \in get_current_level(c) :
        /\ last_level' = [last_level EXCEPT ![f][c] = l]
        /\ aim' = IF aim.form = f /\ aim.chan = c THEN None ELSE aim
        /\ aim # None /\ UNCHANGED values
  BY DEF delta_refused
<1>2. last_level \in [Form -> [Ranged -> Int]]
  BY DEF IInv, SettingsOK
<1>3. UNCHANGED tgt
  BY <1>1 DEF values
<1>4. CASE aim.form = f /\ aim.chan = c
  BY <1>1, <1>4 DEF Kept
<1>5. CASE ~ (aim.form = f /\ aim.chan = c)
  <2>1. UNCHANGED aim
    BY <1>1, <1>5
  <2>2. aim.form \in Form /\ aim.chan \in Ranged
    BY <1>1 DEF Kept
  <2>3. last_level'[aim.form][aim.chan] = last_level[aim.form][aim.chan]
    BY <1>1, <1>2, <1>5, <2>2
  <2> QED BY <1>3, <2>1, <2>3 DEF Kept
<1> QED BY <1>4, <1>5

(* Every step keeps it: other messages end the transaction, and nothing     *)
(* else touches target or level.                                           *)
LEMMA TransactionKeeps == IInv /\ Kept /\ [Next]_vars => Kept'
<1> SUFFICES ASSUME IInv, Kept, [Next]_vars PROVE Kept'
  OBVIOUS
<1>1. aim' = None => Kept'
  BY DEF Kept
<1>2. UNCHANGED <<tgt, last_level, aim>> => Kept'
  BY DEF Kept
<1>3. CASE \E m \in Fields : gen_delta_set(m) \/ gen_delta_set_temp(m)
  <2>1. "light" \in Ranged /\ "temp" \in Ranged
    BY DEF Ranged
  <2> QED BY <1>3, <2>1, DeltaGoesOn DEF gen_delta_set, gen_delta_set_temp
<1>4. CASE \E m \in Fields :
             \/ gen_onoff_set(m) \/ gen_level_set(m) \/ gen_move_set(m)
             \/ light_lightness_set(m) \/ light_lightness_linear_set(m)
             \/ light_ctl_set(m) \/ light_ctl_temp_set(m)
             \/ gen_level_set_temp(m) \/ gen_move_set_temp(m)
  BY <1>1, <1>4
  DEF gen_onoff_set, gen_level_set, gen_move_set, light_lightness_set, light_lightness_linear_set,
      light_ctl_set, light_ctl_temp_set, gen_level_set_temp, gen_move_set_temp, NoDelta
<1>5. CASE delta_refused
  BY <1>5, RefusedGoesOn
<1>6. CASE \/ light_lightness_range_set \/ light_ctl_temp_range_set
           \/ light_lightness_default_set \/ gen_def_trans_time_set
  BY <1>2, <1>6
  DEF light_lightness_range_set, light_ctl_temp_range_set, light_lightness_default_set,
      gen_def_trans_time_set, values
<1>7. CASE SixSeconds \/ Tick \/ no_transition_work_handler
  BY <1>1, <1>2, <1>7 DEF SixSeconds, Tick, no_transition_work_handler, values, history
<1>8. CASE work_handler
  BY <1>2, <1>8 DEF work_handler, FirstStep, values
<1>9. CASE UNCHANGED vars
  BY <1>2, <1>9 DEF vars, values, history
<1> QED BY <1>3, <1>4, <1>5, <1>6, <1>7, <1>8, <1>9 DEF Next, Message, Workqueue

-----------------------------------------------------------------------------
(* The results                                                              *)

(* Whatever messages, ticks and left-over work items follow one another:    *)
(* lightness, temperature and delta UV stay in the range of their 16-bit    *)
(* variables, the bounds of a range stay in order, and the queue holds work *)
(* items only.                                                             *)
THEOREM TypeCorrect == Spec => [](ValuesOK /\ SettingsOK /\ TransitionOK)
<1>1. IInv => ValuesOK /\ SettingsOK /\ TransitionOK
  BY DEF IInv
<1> QED BY <1>1, Invariance, PTL

(* The steps a fade has left never carry a value past its target, a light   *)
(* at rest is where the last message sent it, and the transition counter    *)
(* wraps only after a message or an interrupt came in between.             *)
THEOREM LightGoesWhereItIsSent == Spec => []NeitherPastNorShort
BY IInvMeans, Invariance, PTL

(* The deltas of one transaction do not add up: the target of each is what  *)
(* the level at the begin of the transaction and its own value ask for,     *)
(* whatever the light did in between and whatever messages of other kinds   *)
(* or forms were refused.                                                  *)
THEOREM DeltasDoNotAddUp == Spec => []DeltaNotAddedTwice
<1>1. Init => Kept
  BY DEF Init, Booted, Kept
<1>2. IInv /\ Kept /\ [Next]_vars => Kept'
  BY TransactionKeeps
<1>3. Kept => DeltaNotAddedTwice
  BY DEF Kept, DeltaNotAddedTwice
<1> QED BY <1>1, <1>2, <1>3, Invariance, PTL DEF Spec

=============================================================================
