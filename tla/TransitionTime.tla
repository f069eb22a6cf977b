--------------------------- MODULE TransitionTime ---------------------------
(***************************************************************************)
(* samples/boards/nrf/mesh/onoff_level_lighting_vnd_app: the time of a     *)
(* transition (transition.c).  A message asks for a time of 0 .. 62 steps  *)
(* in one of four resolutions; set_transition_values divides it into at    *)
(* most ten timer periods; a status message tells, in the same encoding,   *)
(* how long the transition still lasts.  All times are in milliseconds.    *)
(***************************************************************************)
EXTENDS Integers

CONSTANT Polls   \* the remaining times (from now on) at which a status is sent

ASSUME TransitionTimeAssumption == Polls \subseteq Int

VARIABLES resolution, steps,   \* transition->tt
          type, just_started,  \* of ctl->transition
          remaining,           \* total_duration less the time since start_timestamp
          rt                   \* the last remaining time sent, <<resolution, steps>>

timeVars == <<resolution, steps, type, just_started, remaining, rt>>

DEVICE_SPECIFIC_RESOLUTION == 10
UNKNOWN == 63

Unit(r) == IF r = 0 THEN 100 ELSE IF r = 1 THEN 1000 ELSE IF r = 2 THEN 10000 ELSE 600000

(* set_transition_counter *)
total_duration == steps * Unit(resolution)

Capped(n) == IF n > DEVICE_SPECIFIC_RESOLUTION THEN DEVICE_SPECIFIC_RESOLUTION ELSE n

counter == Capped(total_duration \div 100)

(* set_transition_values: the timer period, the whole time for a move. *)
quo_tt == IF type = "MOVE" THEN total_duration ELSE total_duration \div counter

Encode_rounded_up(d) ==
  IF d > 620000 THEN <<3, d \div 600000>>
  ELSE IF d > 62000 THEN <<2, d \div 10000>>
  ELSE IF d > 6200 THEN <<1, d \div 1000>>
  ELSE IF d > 0 THEN <<0, (d + 50) \div 100>> ELSE <<0, 0>>

(* The finest resolution in which 62 steps are enough. *)
Encode(d) ==
  IF d > 620000 THEN <<3, d \div 600000>>
  ELSE IF d > 62000 THEN <<2, d \div 10000>>
  ELSE IF d > 6200 THEN <<1, d \div 1000>>
  ELSE IF d > 0 THEN <<0, d \div 100>> ELSE <<0, 0>>

Time(code) == code[2] * Unit(code[1])

(* calculate_rt *)
calculate_rt(left) == IF type = "MOVE" THEN <<0, UNKNOWN>>
                      ELSE IF just_started THEN <<resolution, steps>> ELSE Encode(left)

(* A message starts a transition, and its status is sent at once. *)
TimeInit ==
  /\ resolution \in 0 .. 3 /\ steps \in 1 .. 62
  /\ type \in {"MOVE", "NON_MOVE"} /\ just_started = TRUE
  /\ remaining = total_duration
  /\ rt = calculate_rt(remaining)

(* The first expiry of the timer: start_timestamp is taken. *)
Started == /\ just_started /\ just_started' = FALSE
           /\ UNCHANGED <<resolution, steps, type, remaining, rt>>

(* Time passes, and a status is sent.  Late work makes the remainder < 0.  *)
Status == \E left \in Polls :
            /\ IF just_started THEN left = remaining ELSE left < remaining
            /\ remaining' = left
            /\ rt' = calculate_rt(left)
            /\ UNCHANGED <<resolution, steps, type, just_started>>

TimeNext == Started \/ Status

TimeSpec == TimeInit /\ [][TimeNext]_timeVars

-----------------------------------------------------------------------------
TypeOK == /\ resolution \in 0 .. 3 /\ steps \in 1 .. 62
          /\ type \in {"MOVE", "NON_MOVE"} /\ just_started \in BOOLEAN
          /\ remaining \in Int /\ remaining <= total_duration
          /\ rt \in (0 .. 3) \X (0 .. UNKNOWN)

(* Only a move is reported to last an unknown time: no remaining time is    *)
(* encoded with all six bits of the steps set.                             *)
OnlyMovesAreUnknown == rt[2] = UNKNOWN <=> type = "MOVE"

(* What is reported is the remaining time rounded down to the unit used.    *)
ReportedTimeIsClose ==
  type = "NON_MOVE" /\ remaining >= 0 =>
     Time(rt) <= remaining /\ remaining < Time(rt) + Unit(rt[1])

(* calculate_rt's answer, in every message that reports a running transition:*)
(* right up to its unit, and unknown only for a move.                      *)
ReportedTimeIsRight == OnlyMovesAreUnknown /\ ReportedTimeIsClose

(* The timer periods make up the transition time up to some milliseconds,   *)
(* and no period is zero, which would make the timer fire only once.       *)
PeriodsFillTheTime ==
  /\ 1 <= counter /\ counter <= DEVICE_SPECIFIC_RESOLUTION /\ 100 <= quo_tt
  /\ type = "NON_MOVE" => /\ counter * quo_tt <= total_duration
                          /\ total_duration < counter * quo_tt + counter
=============================================================================
