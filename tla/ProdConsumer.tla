---------------------------- MODULE ProdConsumer ----------------------------
(***************************************************************************)
(* samples/userspace/prod_consumer.  A driver's timer interrupt puts data  *)
(* into a bounded message queue (k_msgq, copying); the monitor thread of   *)
(* application A copies each datum into a block of the shared memory pool  *)
(* and appends the block to shared_queue_incoming; application B processes *)
(* blocks one by one and appends them to shared_queue_outgoing; the        *)
(* writeback thread of A writes them to the driver and frees the block.    *)
(* Each thread handles NUM_LOOPS data and ends.                            *)
(*                                                                         *)
(* The kernel's objects (timer, message queue, queues, pools) are external *)
(* and modelled by what the calls return.  k_queue_alloc_append takes a    *)
(* node from the resource pool of the calling thread and fails, unnoticed  *)
(* by its callers, when there is none; k_queue_get gives the node back.    *)
(* k_oops ends the calling user thread.  The two threads of application A  *)
(* are cooperative with equal priority, so neither is preempted by the     *)
(* other between two blocking calls; the interrupt comes anywhere.         *)
(***************************************************************************)
EXTENDS Naturals, Sequences, FiniteSets

CONSTANTS
  NUM_LOOPS,   \* data handled before the threads end
  MAX_MSGS,    \* capacity of mqueue
  Block,       \* the blocks of shared_pool
  NODES,       \* queue nodes a resource pool can hold
  STAMPS,      \* data->count is kept modulo STAMPS: it labels the payloads
  None         \* no block

ASSUME ProdConsumerAssumption ==
  /\ NUM_LOOPS \in Nat \ {0} /\ MAX_MSGS \in Nat \ {0} /\ STAMPS \in Nat \ {0}
  /\ None \notin Block
  /\ IsFiniteSet(Block) /\ NODES \in Nat /\ Cardinality(Block) <= NODES

VARIABLES
  cb, active, counted,       \* the driver: callback set, timer running, data->count
  mqueue,                  \* stamps of the data buffered for the monitor
  free, content,           \* the pool: free blocks, and the datum in each block
  incoming, outgoing,      \* shared_queue_incoming, shared_queue_outgoing
  pending_count,
  written,                 \* the datum last passed to sample_driver_write
  place,                      \* place[t]: where thread t stands
  hand,                    \* hand[t]: the block in t's local variable
  loops                    \* monitor_count, process_count, writeback_count

driver == <<cb, active, counted>>
pool == <<free, content>>
blockQueues == <<incoming, outgoing>>
blockVars == <<driver, mqueue, pool, blockQueues, pending_count, written, place, hand, loops>>

MAGIC_LIMIT == 42

AppThread == {"monitor", "processor", "writeback"}
Stamp == 0 .. STAMPS - 1

ProdConsumerInit ==
  /\ cb = FALSE /\ active = FALSE /\ counted = 0
  /\ mqueue = <<>> /\ incoming = <<>> /\ outgoing = <<>>
  /\ free = Block /\ content = [b \in Block |-> 0]
  /\ pending_count = 0 /\ written = 0
  /\ place = [monitor |-> "setup", processor |-> "sleep", writeback |-> "unborn"]
  /\ hand = [t \in AppThread |-> None]
  /\ loops = [t \in AppThread |-> 0]

(* A thread goes to another place, with block b in its hands. *)
Go(t, there, b) == /\ place' = [place EXCEPT ![t] = there]
                   /\ hand' = [hand EXCEPT ![t] = b]

(* The loop condition of each thread: another datum or the end of the loop. *)
Again(t, there) == IF loops'[t] < NUM_LOOPS THEN there ELSE "last"

(* k_queue_alloc_append: without a node the block is not queued (-ENOMEM).  *)
alloc_append(q, b) == IF Len(q) < NODES THEN Append(q, b) ELSE q

-----------------------------------------------------------------------------
(* The driver *)

(* The timer fires while it runs: sample_driver_foo_isr, which calls        *)
(* sample_callback when one is set; k_msgq_put with K_NO_WAIT drops the    *)
(* datum when the queue is full.                                           *)
sample_driver_foo_isr ==
  /\ active
  /\ mqueue' = IF cb /\ Len(mqueue) < MAX_MSGS THEN Append(mqueue, counted) ELSE mqueue
  /\ counted' = (counted + 1) % STAMPS
  /\ UNCHANGED <<cb, active, pool, blockQueues, pending_count, place, hand, loops, written>>

-----------------------------------------------------------------------------
(* Application A: set-up, and the monitor thread it turns into *)

app_a_entry ==
  /\ place["monitor"] = "setup"
  /\ cb' = TRUE
  /\ place' = [place EXCEPT !["monitor"] = "start", !["writeback"] = "get"]
  /\ UNCHANGED <<active, counted, mqueue, pool, blockQueues, pending_count, hand, loops, written>>

(* sample_driver_state_set(sample_device, true): k_timer_start. *)
MonitorStart ==
  /\ place["monitor"] = "start"
  /\ active' = TRUE
  /\ place' = [place EXCEPT !["monitor"] = "alloc"]
  /\ UNCHANGED <<cb, counted, mqueue, pool, blockQueues, pending_count, hand, loops, written>>

(* sys_mem_pool_alloc before there is a datum to store; NULL: k_oops. *)
MonitorAlloc ==
  /\ place["monitor"] = "alloc"
  /\ \/ \E b \in free : free' = free \ {b} /\ Go("monitor", "get", b)
     \/ free = {} /\ Go("monitor", "oops", None) /\ UNCHANGED free
  /\ UNCHANGED <<driver, mqueue, content, blockQueues, pending_count, loops, written>>

MonitorGet_peek ==
  /\ place["monitor"] = "get"
  /\ mqueue # <<>>
  /\ content' = [content EXCEPT ![hand["monitor"]] = Head(mqueue)]
  /\ place' = [place EXCEPT !["monitor"] = "append"]
  /\ UNCHANGED <<driver, mqueue, free, blockQueues, pending_count, hand, loops, written>>

(* k_msgq_get(&mqueue, payload, K_FOREVER). *)
MonitorGet ==
  /\ place["monitor"] = "get"
  /\ mqueue # <<>>
  /\ content' = [content EXCEPT ![hand["monitor"]] = Head(mqueue)]
  /\ mqueue' = Tail(mqueue)
  /\ place' = [place EXCEPT !["monitor"] = "append"]
  /\ UNCHANGED <<driver, free, blockQueues, pending_count, hand, loops, written>>

MonitorAppend ==
  /\ place["monitor"] = "append"
  /\ pending_count' = pending_count + 1
  /\ incoming' = alloc_append(incoming, hand["monitor"])
  /\ loops' = [loops EXCEPT !["monitor"] = @ + 1]
  /\ Go("monitor", Again("monitor", "alloc"), None)
  /\ UNCHANGED <<driver, mqueue, pool, outgoing, written>>

(* sample_driver_state_set(sample_device, false): k_timer_stop; the thread  *)
(* ends.                                                                   *)
MonitorStop_forgotten ==
  /\ place["monitor"] = "last"
  /\ place' = [place EXCEPT !["monitor"] = "done"]
  /\ UNCHANGED <<driver, mqueue, pool, blockQueues, pending_count, hand, loops, written>>

MonitorStop ==
  /\ place["monitor"] = "last"
  /\ active' = FALSE
  /\ place' = [place EXCEPT !["monitor"] = "done"]
  /\ UNCHANGED <<cb, counted, mqueue, pool, blockQueues, pending_count, hand, loops, written>>

-----------------------------------------------------------------------------
(* Application B *)

(* k_sleep(K_MSEC(4000)) is over. *)
ProcessorAwake ==
  /\ place["processor"] = "sleep"
  /\ place' = [place EXCEPT !["processor"] = "get"]
  /\ UNCHANGED <<driver, mqueue, pool, blockQueues, pending_count, hand, loops, written>>

ProcessorGet ==
  /\ place["processor"] = "get"
  /\ incoming # <<>>
  /\ Go("processor", "append", Head(incoming))
  /\ incoming' = Tail(incoming)
  /\ UNCHANGED <<driver, mqueue, pool, outgoing, pending_count, loops, written>>

(* process_count++ comes before the append; the thread ends after the last. *)
ProcessorAppend ==
  /\ place["processor"] = "append"
  /\ loops' = [loops EXCEPT !["processor"] = @ + 1]
  /\ outgoing' = alloc_append(outgoing, hand["processor"])
  /\ Go("processor", Again("processor", "get"), None)
  /\ UNCHANGED <<driver, mqueue, pool, incoming, pending_count, written>>

-----------------------------------------------------------------------------
(* Application A: the writeback thread *)

WritebackGet ==
  /\ place["writeback"] = "get"
  /\ outgoing # <<>>
  /\ Go("writeback", "write", Head(outgoing))
  /\ outgoing' = Tail(outgoing)
  /\ UNCHANGED <<driver, mqueue, pool, incoming, pending_count, loops, written>>

WritebackWrite_no_free ==
  /\ place["writeback"] = "write"
  /\ written' = content[hand["writeback"]]
  /\ pending_count' = pending_count - 1
  /\ loops' = [loops EXCEPT !["writeback"] = @ + 1]
  /\ Go("writeback", Again("writeback", "get"), None)
  /\ UNCHANGED <<driver, mqueue, pool, blockQueues>>

(* sample_driver_write, sys_mem_pool_free, then the two counters. *)
WritebackWrite ==
  /\ place["writeback"] = "write"
  /\ written' = content[hand["writeback"]]
  /\ free' = free \cup {hand["writeback"]}
  /\ pending_count' = pending_count - 1
  /\ loops' = [loops EXCEPT !["writeback"] = @ + 1]
  /\ Go("writeback", Again("writeback", "get"), None)
  /\ UNCHANGED <<driver, mqueue, content, blockQueues>>

(* z_impl_magic_syscall, through its verifier: a cookie above MAGIC_LIMIT is *)
(* refused, any other is copied back one larger.                           *)
Refused(cookie) == cookie > MAGIC_LIMIT

(* After the last datum: magic_syscall on writeback_count, and k_oops       *)
(* instead of SUCCESS when it refuses.                                     *)
WritebackSuccess ==
  /\ place["writeback"] = "last"
  /\ IF Refused(loops["writeback"])
     THEN place' = [place EXCEPT !["writeback"] = "oops"] /\ UNCHANGED loops
     ELSE /\ place' = [place EXCEPT !["writeback"] = "done"]
          /\ loops' = [loops EXCEPT !["writeback"] = @ + 1]
  /\ UNCHANGED <<driver, mqueue, pool, blockQueues, pending_count, hand, written>>

Monitor == app_a_entry \/ MonitorStart \/ MonitorAlloc \/ MonitorGet \/ MonitorAppend \/ MonitorStop
Processor == ProcessorAwake \/ ProcessorGet \/ ProcessorAppend
Writeback == WritebackGet \/ WritebackWrite \/ WritebackSuccess

ProdConsumerNext == sample_driver_foo_isr \/ Monitor \/ Processor \/ Writeback

-----------------------------------------------------------------------------
(* Properties *)

InQueue(q) == {q[i] : i \in DOMAIN q}
InHand == {hand[t] : t \in AppThread} \ {None}
HandCount == Cardinality({t \in AppThread : hand[t] # None})

(* Every block of shared_pool is in exactly one place: free, in one of the  *)
(* queues (once), or in one thread's hands - so there is no leak, no double*)
(* free and no append that k_queue_alloc_append refused; and pending_count, *)
(* which both threads of application A update, counts the blocks between   *)
(* the monitor's append and the writeback's free.                          *)
EveryBlockInOnePlace ==
  /\ free \cup InQueue(incoming) \cup InQueue(outgoing) \cup InHand = Block
  /\ Cardinality(free) + Len(incoming) + Len(outgoing) + HandCount = Cardinality(Block)
  /\ pending_count = Len(incoming) + Len(outgoing)
                     + Cardinality({t \in {"processor", "writeback"} : hand[t] # None})

(* The data on their way, oldest first: in the writeback thread's hands, in *)
(* outgoing, in the processor's hands, in incoming, in the monitor's hands *)
(* once it has read them, in mqueue.                                       *)
Data(q) == [i \in DOMAIN q |-> content[q[i]]]
DataInHand(t, there) == IF place[t] = there THEN <<content[hand[t]]>> ELSE <<>>

DataOnTheWay == DataInHand("writeback", "write") \o Data(outgoing)
            \o DataInHand("processor", "append") \o Data(incoming)
            \o DataInHand("monitor", "append") \o mqueue

Fifo == INSTANCE Pipeline WITH
          Datum <- Stamp, CAPACITY <- MAX_MSGS + Cardinality(Block),
          line <- DataOnTheWay, delivered <- written

(* Seen from the device, the three threads, two queues and the pool are one *)
(* bounded FIFO: what sample_callback queued is written back in order, once*)
(* and unaltered, although blocks are reused.                              *)
ImplementsPipeline == Fifo!Spec

(* Unless the pool runs out under the monitor, the program reaches SUCCESS,  *)
(* with every block back in the pool, and the timer off for good.          *)
SilentSuccessUnlessOops ==
  <>[](\/ place["writeback"] = "done" /\ ~ active /\ free = Block /\ pending_count = 0
       \/ place["monitor"] = "oops")
=============================================================================
