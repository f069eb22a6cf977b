------------------------------- MODULE MetaIrq -------------------------------
(***************************************************************************)
(* scheduler/metairq_dispatch: a fake device whose interrupt makes         *)
(* messages, a thread of meta-interrupt priority that dispatches them, and *)
(* workers of falling priority, the first half of them cooperative, that   *)
(* handle them and keep statistics.                                        *)
(*                                                                         *)
(* One CPU.  The interrupt comes at any moment.  The dispatcher preempts   *)
(* every worker; a cooperative worker it has preempted goes on next, and   *)
(* otherwise the ready worker with the highest priority.                   *)
(***************************************************************************)
EXTENDS Naturals, Sequences, FiniteSets

CONSTANTS
  NUM_THREADS, MAX_EVENTS,
  QUEUE_DEPTH,    \* of each worker's queue
  HW_DEPTH,       \* of hw_msgs, 2 in msgdev.c
  QEMU            \* CONFIG_QEMU_TARGET: the first event is not counted

ASSUME MetaIrqAssumption ==
  /\ NUM_THREADS \in Nat \ {0} /\ QUEUE_DEPTH \in Nat \ {0} /\ HW_DEPTH \in Nat \ {0}
  /\ MAX_EVENTS \in Nat /\ MAX_EVENTS > 1 /\ QEMU \in BOOLEAN

Worker == 0 .. NUM_THREADS - 1

Cooperative(t) == t < NUM_THREADS \div 2

VARIABLES
  msg_seq, armed,    \* msgdev.c: the next number; the timeout is pending
  hw_msgs,           \* the device's queue
  dispatching,       \* the message in metairq_fn's hands, in a sequence of at most one
  msgq,              \* the workers' queues
  at, held,          \* thread_fn: place, and message (<<>> before the first)
  current,           \* the cooperative worker that holds the CPU, or NUM_THREADS
  num_mirq, nevt,    \* stats
  lidx,              \* each worker's slot of mirq_latencies
  stored,            \* the slots that have been written
  report_cookie, reports,
  lost               \* history: the messages that were dropped

device == <<msg_seq, armed, hw_msgs>>
stats == <<num_mirq, nevt, lidx, stored>>
workers == <<at, held, current>>
irqVars == <<device, dispatching, msgq, workers, stats, report_cookie, reports, lost>>

MetaIrqInit ==
  /\ msg_seq = 0 /\ armed = TRUE /\ hw_msgs = <<>> /\ dispatching = <<>>
  /\ msgq = [t \in Worker |-> <<>>]
  /\ at = [t \in Worker |-> IF Cooperative(t) THEN "pended" ELSE "get"]
  /\ held = [t \in Worker |-> <<>>]
  /\ current = NUM_THREADS
  /\ num_mirq = 0 /\ nevt = [t \in Worker |-> 0]
  /\ lidx = [t \in Worker |-> 0] /\ stored = {}
  /\ report_cookie = 1 /\ reports = 0 /\ lost = {}

-----------------------------------------------------------------------------
(* msgdev.c: the interrupt.  A dispatcher that waits is handed the message   *)
(* at once; otherwise the message is queued, or dropped.                   *)
dev_timer_expired ==
  /\ armed
  /\ \E t \in Worker :
       LET new == [seq |-> msg_seq, target |-> t]
       IN  /\ msg_seq' = msg_seq + 1
           /\ armed' = (msg_seq < MAX_EVENTS)
           /\ IF dispatching = <<>> THEN dispatching' = <<new>> /\ UNCHANGED <<hw_msgs, lost>>
              ELSE IF Len(hw_msgs) < HW_DEPTH
                   THEN hw_msgs' = Append(hw_msgs, new) /\ UNCHANGED <<dispatching, lost>>
                   ELSE lost' = lost \cup {msg_seq} /\ UNCHANGED <<dispatching, hw_msgs>>
  /\ UNCHANGED <<msgq, workers, stats, report_cookie, reports>>

metairq_fn ==
  /\ dispatching # <<>>
  /\ LET new == Head(dispatching)
         t == new.target
     IN  \/ /\ at[t] = "pended"
            /\ at' = [at EXCEPT ![t] = "handed"] /\ held' = [held EXCEPT ![t] = <<new>>]
            /\ UNCHANGED <<msgq, lost>>
         \/ /\ at[t] # "pended" /\ Len(msgq[t]) < QUEUE_DEPTH
            /\ msgq' = [msgq EXCEPT ![t] = Append(@, new)] /\ UNCHANGED <<at, held, lost>>
         \/ /\ at[t] # "pended" /\ Len(msgq[t]) = QUEUE_DEPTH
            /\ lost' = lost \cup {new.seq} /\ UNCHANGED <<at, held, msgq>>
  /\ IF hw_msgs = <<>> THEN dispatching' = <<>> /\ UNCHANGED hw_msgs
     ELSE dispatching' = <<Head(hw_msgs)>> /\ hw_msgs' = Tail(hw_msgs)
  /\ UNCHANGED <<msg_seq, armed, current, stats, report_cookie, reports>>

-----------------------------------------------------------------------------
(* The scheduler *)

Ready(t) == at[t] \notin {"pended", "asleep", "stuck"}

HasCPU_ignores_cooperation(t) ==
  /\ dispatching = <<>> /\ Ready(t)
  /\ \A u \in Worker : Ready(u) => t <= u

HasCPU(t) ==
  /\ dispatching = <<>> /\ Ready(t)
  /\ IF current = NUM_THREADS THEN \A u \in Worker : Ready(u) => t <= u ELSE t = current

(* A step of t to `there'; a cooperative worker keeps the CPU until it blocks. *)
WorkerStep(t, here, there) ==
  /\ HasCPU(t) /\ at[t] = here
  /\ at' = [at EXCEPT ![t] = there]
  /\ current' = IF Cooperative(t) /\ there \notin {"pended", "asleep", "stuck"}
                THEN t ELSE NUM_THREADS

(* thread_fn: k_msgq_get, after which the worker pends if there is nothing.  *)
Get(t) ==
  /\ IF msgq[t] = <<>>
     THEN WorkerStep(t, "get", "pended") /\ UNCHANGED <<held, msgq>>
     ELSE /\ WorkerStep(t, "get", "work")
          /\ held' = [held EXCEPT ![t] = <<Head(msgq[t])>>]
          /\ msgq' = [msgq EXCEPT ![t] = Tail(@)]
  /\ UNCHANGED <<device, dispatching, stats, report_cookie, reports, lost>>

(* It gets the CPU with the message it was handed. *)
Start(t) == WorkerStep(t, "handed", "work")
            /\ UNCHANGED <<device, dispatching, msgq, held, stats, report_cookie, reports, lost>>

seq(t) == held[t][1].seq

(* The busy loop ends, and record_latencies begins. *)
Work(t) ==
  /\ at[t] = "work"
  /\ IF QEMU /\ seq(t) = 0
     THEN WorkerStep(t, "work", "get") /\ UNCHANGED nevt
     ELSE WorkerStep(t, "work", "inc") /\ nevt' = [nevt EXCEPT ![t] = @ + 1]
  /\ UNCHANGED <<device, dispatching, msgq, held, num_mirq, lidx, stored, report_cookie, reports, lost>>

(* atomic_inc gives the worker its slot ... *)
Inc(t) ==
  /\ WorkerStep(t, "inc", "store")
  /\ lidx' = [lidx EXCEPT ![t] = num_mirq] /\ num_mirq' = num_mirq + 1
  /\ UNCHANGED <<device, dispatching, msgq, held, nevt, stored, report_cookie, reports, lost>>

(* ... which is written later: other workers may run in between.             *)
Store(t) ==
  /\ WorkerStep(t, "store", IF seq(t) = MAX_EVENTS - 1 THEN "cookie" ELSE "get")
  /\ stored' = stored \cup {lidx[t]}
  /\ UNCHANGED <<device, dispatching, msgq, held, num_mirq, nevt, lidx, report_cookie, reports, lost>>

(* The worker of the last event takes report_cookie, which nobody gives, and *)
(* sleeps.                                                                 *)
Cookie(t) ==
  /\ IF report_cookie > 0
     THEN WorkerStep(t, "cookie", "asleep") /\ report_cookie' = report_cookie - 1
     ELSE WorkerStep(t, "cookie", "stuck") /\ UNCHANGED report_cookie
  /\ UNCHANGED <<device, dispatching, msgq, held, stats, reports, lost>>

Wake(t) ==
  /\ at[t] = "asleep" /\ at' = [at EXCEPT ![t] = "report"]
  /\ UNCHANGED <<device, dispatching, msgq, held, current, stats, report_cookie, reports, lost>>

Report(t) ==
  /\ WorkerStep(t, "report", "get") /\ reports' = reports + 1
  /\ UNCHANGED <<device, dispatching, msgq, held, stats, report_cookie, lost>>

thread_fn(t) == Get(t) \/ Start(t) \/ Work(t) \/ Inc(t) \/ Store(t) \/ Cookie(t) \/ Wake(t) \/ Report(t)

MetaIrqNext == dev_timer_expired \/ metairq_fn \/ \E t \in Worker : thread_fn(t)

-----------------------------------------------------------------------------
(* Properties *)

(* Between atomic_inc and the store a worker may be preempted; still every   *)
(* slot of mirq_latencies that was given out is written once, and none is  *)
(* left out.  On QEMU all lie within the array; elsewhere the event number *)
(* MAX_EVENTS is counted too, and needs one slot more.                     *)
EverySlotOnce ==
  LET pending == {t \in Worker : at[t] = "store"}
  IN  /\ \A t, u \in pending : lidx[t] = lidx[u] => t = u
      /\ {lidx[t] : t \in pending} \cap stored = {}
      /\ {lidx[t] : t \in pending} \cup stored = 0 .. num_mirq - 1
      /\ num_mirq <= MAX_EVENTS + (IF QEMU THEN 0 ELSE 1)

(* What the report reads before it was written are slots of preemptible      *)
(* workers that the reporting one has preempted, nothing else.             *)
ReportMayMissOnlyLower ==
  [][\A t \in Worker : Report(t) => \A k \in (0 .. num_mirq - 1) \ stored :
       \E u \in Worker : ~ Cooperative(u) /\ t < u /\ at[u] = "store" /\ lidx[u] = k]_irqVars

(* One report is made, and nobody waits for the cookie that is never given   *)
(* back, unless the message that triggers it was dropped.                  *)
OneReportUnlessLost == /\ [](reports <= 1 /\ \A t \in Worker : at[t] # "stuck")
                       /\ <>(reports = 1 \/ MAX_EVENTS - 1 \in lost)
=============================================================================
