-------------------------------- MODULE Cmsis --------------------------------
(***************************************************************************)
(* samples/portability: the philosophers over CMSIS RTOS V2, in the build     *)
(* whose forks are semaphores, and timer_synchronization over V1 and V2,     *)
(* where main() writes to a message queue of one element that a periodic     *)
(* timer's callback reads.  The threads, semaphores, queues and timers are   *)
(* the kernel's.                                                            *)
(***************************************************************************)
EXTENDS Naturals, Sequences

CONSTANTS
  CMSIS_PHIL,  \* NUM_PHIL
  COUNTER      \* the initial counter of timer_synchronization's main()

ASSUME CmsisAssumption == CMSIS_PHIL \in Nat /\ CMSIS_PHIL >= 2 /\ COUNTER \in Nat \ {0}

VARIABLES
  seated,     \* osThreadNew has been called for the threads below it
  stands,      \* of each philosopher's thread
  tokens,      \* of each fork's semaphore
  sample,     \* which of the samples runs
  t_at,       \* where its main() is
  counter,    \* its loop counter
  data,       \* the value last written, or about to be
  messageq,   \* message queue
  last_read,  \* the value last read
  fired,      \* the timer has fired since main() went to sleep at the end
  bogus,      \* history: a callback found no message
  kept_away        \* history: the timer fired while main() could run

tableVars == <<seated, stands, tokens>>
syncVars == <<sample, t_at, counter, data, messageq, last_read, fired, bogus, kept_away>>
cmsisVars == <<tableVars, syncVars>>

Seat == 0 .. CMSIS_PHIL - 1

fork_init_of_two == 2

(* osSemaphoreNew(1, 1): one token. *)
fork_init == 1

CmsisInit ==
  /\ seated = 0 /\ stands = [p \in Seat |-> "unstarted"] /\ tokens = [f \in Seat |-> fork_init]
  /\ sample \in {"philosophers", "timer_v1", "timer_v2"} /\ t_at = "first" /\ counter = COUNTER
  /\ data = 5 /\ messageq = <<>> /\ last_read = 4 /\ fired = FALSE /\ bogus = FALSE /\ kept_away = FALSE

-----------------------------------------------------------------------------
(* The philosophers *)

(* The lowest numbered fork first. *)
LowFork(p) == IF p = CMSIS_PHIL - 1 THEN 0 ELSE p
HighFork(p) == IF p = CMSIS_PHIL - 1 THEN p ELSE p + 1

Waits(p, f) == \/ stands[p] = "wait_low" /\ f = LowFork(p)
               \/ stands[p] = "wait_high" /\ f = HighFork(p)

osThreadNew ==
  /\ seated < CMSIS_PHIL
  /\ stands' = [stands EXCEPT ![seated] = "starving"] /\ seated' = seated + 1
  /\ UNCHANGED <<tokens, syncVars>>

(* take: osSemaphoreAcquire(x, osWaitForever). *)
acquire(p, f, got, pended) ==
  /\ IF tokens[f] > 0
     THEN stands' = [stands EXCEPT ![p] = got] /\ tokens' = [tokens EXCEPT ![f] = @ - 1]
     ELSE stands' = [stands EXCEPT ![p] = pended] /\ UNCHANGED tokens
  /\ UNCHANGED <<seated, syncVars>>

(* drop: osSemaphoreRelease; a thread that waits has the token at once. *)
release(p, f, next) ==
  /\ \/ \E q \in Seat : /\ Waits(q, f)
                        /\ stands' = [stands EXCEPT ![p] = next,
                                                  ![q] = IF @ = "wait_low" THEN "holding" ELSE "eating"]
                        /\ UNCHANGED tokens
     \/ /\ \A q \in Seat : ~ Waits(q, f)
        /\ stands' = [stands EXCEPT ![p] = next] /\ tokens' = [tokens EXCEPT ![f] = @ + 1]
  /\ UNCHANGED <<seated, syncVars>>

Dines(p) ==
  \/ stands[p] = "starving" /\ acquire(p, LowFork(p), "holding", "wait_low")
  \/ stands[p] = "holding" /\ acquire(p, HighFork(p), "eating", "wait_high")
  \/ stands[p] = "eating" /\ release(p, HighFork(p), "dropped")
  \/ stands[p] = "dropped" /\ release(p, LowFork(p), "starving")

-----------------------------------------------------------------------------
(* timer_synchronization *)

(* The put at once, or the thread blocks until the callback makes room. *)
osMessagePut(next) ==
  IF messageq = <<>> THEN messageq' = <<data'>> /\ t_at' = next
  ELSE t_at' = "blocked" /\ UNCHANGED messageq

(* Before the timer runs. *)
send_first ==
  /\ t_at = "first"
  /\ UNCHANGED data
  /\ osMessagePut("loop")
  /\ UNCHANGED <<tableVars, sample, counter, last_read, fired, bogus, kept_away>>

(* while (--counter): data is written, or main() sleeps for a period. *)
send_next ==
  /\ t_at = "loop"
  /\ counter' = counter - 1
  /\ IF counter' = 0 THEN t_at' = "delay" /\ UNCHANGED <<data, messageq>>
     ELSE data' = data + 1 /\ osMessagePut("check")
  /\ UNCHANGED <<tableVars, sample, last_read, fired, bogus, kept_away>>

(* V2 looks whether one message is in the queue, and gives up if not. *)
check_count ==
  /\ t_at = "check"
  /\ t_at' = IF sample = "timer_v1" \/ Len(messageq) = 1 THEN "loop" ELSE "delay"
  /\ UNCHANGED <<tableVars, sample, counter, data, messageq, last_read, fired, bogus, kept_away>>

(* osDelay(TIMER_TICKS) is over: the timer is stopped and deleted. *)
timer_stop ==
  /\ t_at = "delay" /\ fired
  /\ t_at' = "exit"
  /\ UNCHANGED <<tableVars, sample, counter, data, messageq, last_read, fired, bogus, kept_away>>

(* The callback takes a message without waiting; that of a blocked put     *)
(* follows it into the queue.                                              *)
read_msg_callback ==
  /\ t_at \in {"loop", "check", "blocked", "delay"}
  /\ IF messageq = <<>> THEN bogus' = TRUE /\ UNCHANGED <<messageq, last_read, t_at>>
     ELSE /\ last_read' = Head(messageq)
          /\ bogus' = (bogus \/ Head(messageq) # last_read + 1)
          /\ messageq' = IF t_at = "blocked" THEN <<data>> ELSE <<>>
          /\ t_at' = IF t_at = "blocked" THEN "check" ELSE t_at
  /\ fired' = (t_at = "delay")
  /\ kept_away' = (kept_away \/ t_at \in {"loop", "check"} \/ fired)
  /\ UNCHANGED <<tableVars, sample, counter, data>>

TimerNext == send_first \/ send_next \/ check_count \/ timer_stop \/ read_msg_callback

CmsisNext ==
  \/ sample = "philosophers" /\ (osThreadNew \/ \E p \in Seat : Dines(p))
  \/ sample # "philosophers" /\ TimerNext

-----------------------------------------------------------------------------
(* Semaphores as forks keep neighbours apart and somebody can always move    *)
(* (philosopher).  What main() of timer_synchronization writes is read       *)
(* once, in order and before the end, and the sample is successful, unless   *)
(* main() was kept from running for a whole period of the timer: then V2     *)
(* takes the message that was read already for one that was not sent.       *)
CmsisAgrees ==
  /\ \A p \in Seat : stands[p] = "eating" =>
       \A q \in Seat \ {p} : stands[q] = "eating" => {LowFork(p), HighFork(p)} \cap {LowFork(q), HighFork(q)} = {}
  /\ \E p \in Seat : stands[p] \notin {"wait_low", "wait_high"}
  /\ ~ kept_away => ~ bogus
  /\ t_at = "exit" /\ ~ kept_away => counter = 0 /\ messageq = <<>> /\ last_read = data
  /\ t_at = "exit" /\ sample = "timer_v1" => counter = 0
=============================================================================
