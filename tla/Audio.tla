------------------------------- MODULE Audio -------------------------------
(***************************************************************************)
(* boards/intel_s1000_crb/audio: frames go from the microphones to a host and *)
(* from the host to a speaker, in blocks of three slabs; a host starts and    *)
(* stops this over USB.  audio_drv_thread moves a frame under                *)
(* audio_drv_sync_sem; the USB thread puts commands together;                 *)
(* tun_drv_io_thread, which preempts it, carries them out;                   *)
(* framework_background_thread, which all others preempt, replies.           *)
(*                                                                         *)
(* External: the DMA completes a frame of every stream in each period, the    *)
(* playback streams first; a receiver takes its next block from the slab; a   *)
(* driver that is stopped keeps its queues or empties them.                  *)
(***************************************************************************)
EXTENDS Integers

CONSTANTS
  MIC_BUFS, SPK_BUFS, HOST_BUFS,  \* MIC_IN_BUF_COUNT, SPK_OUT_.., HOST_INOUT_.. (2, 2, 4)
  PACKETS_OF,     \* USB reports of a command
  HOST_COMMANDS,       \* bound: commands of the host
  A_FAULTS        \* bound: failures of the drivers and periods the thread misses

ASSUME AudioAssumption ==
  /\ MIC_BUFS \in Nat \ {0} /\ SPK_BUFS \in Nat \ {0} /\ HOST_BUFS \in Nat \ {0}
  /\ PACKETS_OF \in Nat \ {0} /\ HOST_COMMANDS \in Nat /\ A_FAULTS \in Nat

VARIABLES
  a_purges,        \* how the drivers stop: emptying their queues?
  a_at,            \* the places of "drv" (the driver's thread), "tun" and "bg"
  audio_io_started, audio_drv_sync_sem, a_streaming,
  a_free,          \* free blocks: mic, spk, host
  a_queue,         \* blocks of the streams: mic and in wait to be read (with one
                   \* more in the DMA of each), spk and out are being played
  a_dma,           \* has the DMA a block to fill: mic, in
  command_buffer,  \* command: what its first word says; got: packets of the next
  tun_drv_sem, tuning_reply_ready,
  a_host,          \* patient: it awaits each reply; sent, replies: how many; last: the
                   \* last reply; wanted: the last of its "start" and "stop"
  a_left,          \* what the bound leaves of faults
  a_seen           \* history: lost blocks, wild, boot, told

threadVars == <<a_at, audio_io_started, audio_drv_sync_sem, a_streaming>>
slabVars == <<a_free, a_queue, a_dma>>
tuningVars == <<command_buffer, tun_drv_sem, tuning_reply_ready, a_host>>
audioVars == <<a_purges, threadVars, slabVars, tuningVars, a_left, a_seen>>

NoCommand == "none"

(* a_seen: lost: blocks nobody will free; wild: the thread used a block it did  *)
(* not get; early: a command was carried out before audio_drv_thread started;  *)
(* kept: a frame of the microphones outlived a stop.                         *)
AudioInit ==
  /\ a_purges \in BOOLEAN
  /\ a_at = [drv |-> "check", tun |-> "wait", bg |-> "poll"]
  /\ audio_io_started = FALSE /\ audio_drv_sync_sem = 0 /\ a_streaming = FALSE
  /\ a_free = [mic |-> MIC_BUFS, spk |-> SPK_BUFS, host |-> HOST_BUFS]
  /\ a_queue = [mic |-> 0, in |-> 0, spk |-> 0, out |-> 0]
  /\ a_dma = [mic |-> FALSE, in |-> FALSE]
  /\ command_buffer = [command |-> NoCommand, got |-> 0]
  /\ tun_drv_sem = FALSE /\ tuning_reply_ready = FALSE
  /\ a_host \in [patient : BOOLEAN, sent : {0}, replies : {0}, last : {NoCommand},
                wanted : {NoCommand}]
  /\ a_left = A_FAULTS
  /\ a_seen = [lost |-> 0, wild |-> FALSE, early |-> FALSE, kept |-> FALSE]

Fails == a_left > 0 /\ a_left' = a_left - 1
Goes(thread, place) == a_at' = [a_at EXCEPT ![thread] = place]

-----------------------------------------------------------------------------
(* External: one period of the sample clock.  It finds the frame of the last   *)
(* period moved, or the thread is late.                                     *)

Moved == a_at.drv = "read" /\ a_queue.mic = 0

Played(q) == IF q > 0 THEN q - 1 ELSE 0

FrameTick ==
  /\ a_streaming /\ ~ a_seen.wild
  /\ IF Moved \/ (a_at.drv = "take" /\ a_queue.mic = 0) THEN UNCHANGED a_left ELSE Fails
  /\ LET host == a_free.host + a_queue.out - Played(a_queue.out)
         next == IF a_dma.in /\ host > 0 THEN 1 ELSE 0
         nextMic == IF a_dma.mic /\ a_free.mic > 0 THEN 1 ELSE 0
     IN /\ a_queue' = [mic |-> a_queue.mic + (IF a_dma.mic THEN 1 ELSE 0),
                       in |-> a_queue.in + (IF a_dma.in THEN 1 ELSE 0),
                       spk |-> Played(a_queue.spk), out |-> Played(a_queue.out)]
        /\ a_free' = [mic |-> a_free.mic - nextMic, host |-> host - next,
                      spk |-> a_free.spk + a_queue.spk - Played(a_queue.spk)]
        /\ a_dma' = [mic |-> nextMic = 1, in |-> next = 1]
  /\ UNCHANGED <<a_purges, threadVars, tuningVars, a_seen>>

-----------------------------------------------------------------------------
(* audio_driver_start(), in the driver's thread or in tun_drv_io_thread.  The   *)
(* former is preempted by the latter, not the other way round.                *)

Runs(thread) == thread = "tun" \/ a_at.tun \in {"wait", "take"}

start_check(thread) ==
  /\ a_at[thread] = "check" /\ Runs(thread)
  /\ Goes(thread, IF audio_io_started THEN "started" ELSE "zeros1")
  /\ UNCHANGED <<a_purges, audio_io_started, audio_drv_sync_sem, a_streaming, slabVars, tuningVars,
                 a_left, a_seen>>

(* audio_driver_send_zeros_frame(): without a host block the speaker's is lost. *)
send_zeros_frame(thread) ==
  /\ a_at[thread] \in {"zeros1", "zeros2"} /\ Runs(thread)
  /\ Goes(thread, IF a_at[thread] = "zeros1" THEN "zeros2" ELSE "streams")
  /\ IF a_free.spk = 0 THEN UNCHANGED <<slabVars, a_seen>>
     ELSE IF a_free.host = 0
     THEN /\ a_free' = [a_free EXCEPT !.spk = @ - 1]
          /\ a_seen' = [a_seen EXCEPT !.lost = @ + 1]
          /\ UNCHANGED <<a_queue, a_dma>>
     ELSE /\ a_free' = [a_free EXCEPT !.spk = @ - 1, !.host = @ - 1]
          /\ a_queue' = [a_queue EXCEPT !.spk = @ + 1, !.out = @ + 1]
          /\ UNCHANGED <<a_dma, a_seen>>
  /\ UNCHANGED <<a_purges, audio_io_started, audio_drv_sync_sem, a_streaming, tuningVars, a_left>>

(* Streams that run already refuse.                                         *)
start_streams(thread) ==
  /\ a_at[thread] = "streams" /\ Runs(thread)
  /\ Goes(thread, "give")
  /\ a_streaming' = TRUE
  /\ LET mic == IF a_dma.mic \/ a_free.mic = 0 THEN 0 ELSE 1
         in == IF a_dma.in \/ a_free.host = 0 THEN 0 ELSE 1
     IN /\ a_free' = [a_free EXCEPT !.mic = @ - mic, !.host = @ - in]
        /\ a_dma' = [mic |-> a_dma.mic \/ mic = 1, in |-> a_dma.in \/ in = 1]
  /\ UNCHANGED <<a_purges, audio_io_started, audio_drv_sync_sem, a_queue, tuningVars,
                 a_left, a_seen>>

start_done(thread) ==
  /\ a_at[thread] = "give" /\ Runs(thread)
  /\ Goes(thread, "started")
  /\ audio_io_started' = TRUE /\ audio_drv_sync_sem' = 1
  /\ UNCHANGED <<a_purges, a_streaming, slabVars, tuningVars, a_left, a_seen>>

audio_driver_start(thread) ==
  start_check(thread) \/ send_zeros_frame(thread) \/ start_streams(thread) \/ start_done(thread)

-----------------------------------------------------------------------------
(* audio_drv_thread() *)

drv_take ==
  /\ Runs("drv")
  /\ \/ a_at.drv = "started" /\ Goes("drv", "take") /\ UNCHANGED audio_drv_sync_sem
     \/ /\ a_at.drv = "take" /\ audio_drv_sync_sem = 1
        /\ Goes("drv", "read") /\ audio_drv_sync_sem' = 0
  /\ UNCHANGED <<a_purges, audio_io_started, a_streaming, slabVars, tuningVars, a_left, a_seen>>

(* dmic_read() waits for a frame; i2s_read() does not, and when it fails the   *)
(* frame of the microphones is never freed.                                 *)
process_audio_input ==
  /\ a_at.drv = "read" /\ Runs("drv") /\ Goes("drv", "write")
  /\ \/ Fails /\ UNCHANGED <<a_free, a_queue, a_seen>>
     \/ /\ a_queue.mic > 0
        /\ IF a_queue.in = 0 THEN UNCHANGED a_left ELSE Fails
        /\ a_queue' = [a_queue EXCEPT !.mic = @ - 1]
        /\ a_seen' = [a_seen EXCEPT !.lost = @ + 1]
        /\ UNCHANGED a_free
     \/ /\ a_queue.mic > 0 /\ a_queue.in > 0
        /\ a_queue' = [a_queue EXCEPT !.mic = @ - 1, !.in = @ - 1]
        /\ a_free' = [a_free EXCEPT !.mic = @ + 1, !.host = @ + 1]
        /\ UNCHANGED <<a_left, a_seen>>
  /\ UNCHANGED <<a_purges, audio_io_started, audio_drv_sync_sem, a_streaming, a_dma, tuningVars>>

(* A failed k_mem_slab_alloc() is only logged; a block that i2s_write() refuses *)
(* is never freed.                                                         *)
process_audio_output ==
  /\ a_at.drv = "write" /\ Runs("drv")
  /\ IF a_free.spk = 0 \/ a_free.host = 0
     THEN /\ a_seen' = [a_seen EXCEPT !.wild = TRUE] /\ Goes("drv", "wild")
          /\ UNCHANGED <<a_free, a_queue, a_left>>
     ELSE /\ Goes("drv", "give_frame")
          /\ a_free' = [a_free EXCEPT !.spk = @ - 1, !.host = @ - 1]
          /\ \/ /\ a_queue' = [a_queue EXCEPT !.spk = @ + 1, !.out = @ + 1]
                /\ UNCHANGED <<a_left, a_seen>>
             \/ /\ Fails /\ a_seen' = [a_seen EXCEPT !.lost = @ + 1]
                /\ \E stream \in {"spk", "out"} : a_queue' = [a_queue EXCEPT ![stream] = @ + 1]
  /\ UNCHANGED <<a_purges, audio_io_started, audio_drv_sync_sem, a_streaming, a_dma, tuningVars>>

(* The semaphore goes to tun_drv_io_thread if that waits for it.              *)
drv_give ==
  /\ a_at.drv = "give_frame" /\ Runs("drv")
  /\ IF a_at.tun = "take"
     THEN a_at' = [a_at EXCEPT !.drv = "take", !.tun = "stop"] /\ UNCHANGED audio_drv_sync_sem
     ELSE Goes("drv", "take") /\ audio_drv_sync_sem' = 1
  /\ UNCHANGED <<a_purges, audio_io_started, a_streaming, slabVars, tuningVars, a_left, a_seen>>

Driver ==
  audio_driver_start("drv") \/ drv_take \/ process_audio_input \/ process_audio_output \/ drv_give

-----------------------------------------------------------------------------
(* tun_drv_io_thread(): audio_core_notify_tuning_cmd() *)

AfterCommand == [start |-> "check", stop |-> "stop_check", other |-> "reply"]

notify_tuning_cmd ==
  /\ a_at.tun = "wait" /\ tun_drv_sem /\ tun_drv_sem' = FALSE
  /\ Goes("tun", AfterCommand[command_buffer.command])
  /\ a_seen' = [a_seen EXCEPT !.early = @ \/ a_at.drv \in {"check", "zeros1", "zeros2", "streams", "give"}]
  /\ UNCHANGED <<a_purges, audio_io_started, audio_drv_sync_sem, a_streaming, slabVars, command_buffer,
                 tuning_reply_ready, a_host, a_left>>

(* audio_driver_stop(): the frame under way is finished first.                *)
stop_check ==
  /\ \/ /\ a_at.tun = "stop_check"
        /\ Goes("tun", IF audio_io_started THEN "take" ELSE "reply")
        /\ UNCHANGED audio_drv_sync_sem
     \/ /\ a_at.tun = "take" /\ audio_drv_sync_sem = 1 /\ audio_drv_sync_sem' = 0
        /\ Goes("tun", "stop")
  /\ UNCHANGED <<a_purges, audio_io_started, a_streaming, slabVars, tuningVars, a_left, a_seen>>

stop_streams ==
  /\ a_at.tun = "stop" /\ Goes("tun", "reply")
  /\ a_streaming' = FALSE /\ audio_io_started' = FALSE
  /\ IF ~ a_purges THEN UNCHANGED slabVars
     ELSE /\ a_queue' = [mic |-> 0, in |-> 0, spk |-> 0, out |-> 0]
          /\ a_dma' = [mic |-> FALSE, in |-> FALSE]
          /\ a_free' = [mic |-> a_free.mic + a_queue.mic + (IF a_dma.mic THEN 1 ELSE 0),
                        spk |-> a_free.spk + a_queue.spk,
                        host |-> a_free.host + a_queue.out + a_queue.in + (IF a_dma.in THEN 1 ELSE 0)]
  /\ a_seen' = [a_seen EXCEPT !.kept = @ \/ (~ a_purges /\ a_queue.mic > 0)]
  /\ UNCHANGED <<a_purges, audio_drv_sync_sem, tuningVars, a_left>>

reply_ready ==
  /\ a_at.tun \in {"reply", "started"} /\ Goes("tun", "wait")
  /\ tuning_reply_ready' = TRUE
  /\ UNCHANGED <<a_purges, audio_io_started, audio_drv_sync_sem, a_streaming, slabVars, command_buffer,
                 tun_drv_sem, a_host, a_left, a_seen>>

Tuning ==
  notify_tuning_cmd \/ audio_driver_start("tun") \/ stop_check \/ stop_streams \/ reply_ready

-----------------------------------------------------------------------------
(* framework_background_thread(): tun_drv_packet_handler() *)

packet_handler ==
  /\ \/ a_at.bg = "poll" /\ tuning_reply_ready /\ Goes("bg", "clear")
        /\ UNCHANGED <<tuning_reply_ready, a_host>>
     \/ a_at.bg = "clear" /\ Goes("bg", "send") /\ tuning_reply_ready' = FALSE /\ UNCHANGED a_host
     \/ /\ a_at.bg = "send" /\ Goes("bg", "poll")
        /\ a_host' = [a_host EXCEPT !.replies = @ + 1, !.last = command_buffer.command]
        /\ UNCHANGED tuning_reply_ready
  /\ UNCHANGED <<a_purges, audio_io_started, audio_drv_sync_sem, a_streaming, slabVars, command_buffer,
                 tun_drv_sem, a_left, a_seen>>

-----------------------------------------------------------------------------
(* The USB thread: usb_transport_set_report(), tun_drv_process_command() *)

process_command ==
  /\ \/ /\ command_buffer.got = 0 /\ a_host.sent < HOST_COMMANDS
        /\ a_host.patient => a_host.replies = a_host.sent
        /\ \E c \in {"start", "stop", "other"} :
             /\ command_buffer' = [command |-> c, got |-> 1 % PACKETS_OF]
             /\ a_host' = [a_host EXCEPT !.sent = @ + 1, !.wanted = IF c = "other" THEN @ ELSE c]
     \/ /\ command_buffer.got > 0 /\ UNCHANGED a_host
        /\ command_buffer' = [command_buffer EXCEPT !.got = (@ + 1) % PACKETS_OF]
  /\ tun_drv_sem' = (tun_drv_sem \/ command_buffer'.got = 0)
  /\ UNCHANGED <<a_purges, threadVars, slabVars, tuning_reply_ready, a_left, a_seen>>

AudioNext == FrameTick \/ Driver \/ Tuning \/ packet_handler \/ process_command

-----------------------------------------------------------------------------
(* Properties *)

(* Two frames of zeros are enough: as long as no driver fails and the thread    *)
(* is on time no block is lost and none is missing, across stops and starts     *)
(* too, unless a driver kept a frame of the microphones over a stop: it is      *)
(* read before the first frame of zeros has left the speaker's slab.          *)
BlocksKept == a_left = A_FAULTS /\ ~ a_seen.kept => a_seen.lost = 0 /\ ~ a_seen.wild

(* Stopped is stopped: the streams rest and the driver's thread waits, between  *)
(* frames.                                                                 *)
RestsWhenStopped ==
  ~ audio_io_started /\ a_at.tun \in {"wait", "stop_check", "reply"}
    /\ a_at.drv \notin {"check", "zeros1", "zeros2", "streams", "give"} =>
      /\ ~ a_streaming /\ audio_drv_sync_sem = 0 /\ a_at.drv \in {"started", "take"}

(* A host that awaits each reply gets its own command back, and by then it has  *)
(* been carried out, unless that was before the thread's own start.            *)
RepliesAreMine ==
  a_host.patient /\ a_host.replies = a_host.sent /\ a_host.sent > 0 =>
    /\ a_host.last = command_buffer.command
    /\ ~ a_seen.early /\ a_host.wanted # NoCommand => (audio_io_started <=> a_host.wanted = "start")

AudioAgrees == BlocksKept /\ RestsWhenStopped /\ RepliesAreMine

(* A host that awaits replies gets them, unless the microphones have no block   *)
(* left and the driver's thread waits for a frame under the semaphore.          *)
Starved == a_seen.wild \/ (a_streaming /\ ~ a_dma.mic)

CommandsAreAnswered ==
  a_host.patient /\ a_host.replies < a_host.sent ~> (a_host.replies = a_host.sent \/ Starved)
=============================================================================
