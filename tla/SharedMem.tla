------------------------------ MODULE SharedMem ------------------------------
(***************************************************************************)
(* userspace/shared_mem: pt passes messages through a shared buffer to     *)
(* enc, which sends them through the wheels of an Enigma and passes the    *)
(* result through a second buffer to ct.                                   *)
(*                                                                         *)
(* The three threads have the same cooperative priority, above main's, and *)
(* one CPU: a thread runs until it pends on allforone or sleeps, and the   *)
(* kernel keeps both queues first-in first-out.  enc holds the semaphore   *)
(* while it waits for ct to empty the second buffer, although ct needs the *)
(* semaphore to do so: that it never has to wait rests on these queues.    *)
(***************************************************************************)
EXTENDS Naturals, Sequences

CONSTANTS
  WHEEL_SIZE, W1, W2, W3, R,   \* the wheels and the reflector
  ptMSG, ptMSG2    \* what pt sends: letters 0 .. WHEEL_SIZE - 1 and others

-----------------------------------------------------------------------------
(* enc.c: the wheels.  A letter is its index, 0 .. WHEEL_SIZE - 1. *)

Index == 0 .. WHEEL_SIZE - 1

IsWheel(w) == /\ w \in [Index -> Index]
              /\ \A i, j \in Index : w[i] = w[j] => i = j
              /\ \A c \in Index : \E i \in Index : w[i] = c

ASSUME EnigmaAssumption ==
  /\ WHEEL_SIZE \in Nat /\ WHEEL_SIZE > 7
  /\ IsWheel(W1) /\ IsWheel(W2) /\ IsWheel(W3)
  /\ R \in [Index -> Index] /\ \A c \in Index : R[R[c]] = c

(* <<IW1, IW2, IW3>>: how far each wheel has turned. *)
Position == Index \X Index \X Index

calc_rev_wheel_forward(wheel) == wheel

(* The way back through a wheel. *)
calc_rev_wheel(wheel) == [c \in Index |-> CHOOSE i \in Index : wheel[i] = c]

W1R == calc_rev_wheel(W1)
W2R == calc_rev_wheel(W2)
W3R == calc_rev_wheel(W3)

Through(wheel, iw, c) == (wheel[(iw + c) % WHEEL_SIZE] + WHEEL_SIZE - iw) % WHEEL_SIZE

Forth(iw, c) == Through(W3, iw[3], Through(W2, iw[2], Through(W1, iw[1], c)))

Back(iw, c) == Through(W1R, iw[1], Through(W2R, iw[2], Through(W3R, iw[3], c)))

(* The letter enig_enc makes of c when the wheels are at iw. *)
enig_enc(iw, c) == Back(iw, R[Forth(iw, c)])

(* Each wheel turns by one when the wheel before it has gone full circle. *)
update_wheel_index(iw) ==
  IF iw[1] + 1 < WHEEL_SIZE THEN <<iw[1] + 1, iw[2], iw[3]>>
  ELSE IF iw[2] + 1 < WHEEL_SIZE THEN <<0, iw[2] + 1, iw[3]>>
  ELSE <<0, 0, (iw[3] + 1) % WHEEL_SIZE>>

(* enc() sets the wheels before each message. *)
Reset == <<7, 2, 3>>

-----------------------------------------------------------------------------
(* The threads *)

VARIABLES
  begun,            \* main(): the number of its steps that are done
  ready,            \* the ready cooperative threads, the running one first
  waiting, count,   \* the semaphore allforone
  pc,               \* place in enc(), pt() and ct()
  fBUFIN, BUFIN, fBUFOUT, BUFOUT,   \* the shared buffers and their flags
  IW,               \* the wheels
  enc_pt, index, enc_ct,   \* enc(): the message, how far it is encoded, the result
  tbuf              \* ct(): the message printed last

buffers == <<fBUFIN, BUFIN, fBUFOUT, BUFOUT>>
encoder == <<IW, enc_pt, index, enc_ct>>
queues == <<ready, waiting, count>>
vars == <<begun, queues, pc, buffers, encoder, tbuf>>

Init ==
  /\ begun = 0 /\ ready = <<>> /\ waiting = <<>> /\ count = 0
  /\ pc = [enc |-> "take", pt |-> "sleep", ct |-> "take"]
  /\ fBUFIN = 0 /\ fBUFOUT = 0 /\ BUFIN = <<>> /\ BUFOUT = <<>>
  /\ IW = <<0, 0, 0>> /\ enc_pt = <<>> /\ index = 0 /\ enc_ct = <<>> /\ tbuf = <<>>

-----------------------------------------------------------------------------
(* The kernel *)

Running(t) == ready # <<>> /\ Head(ready) = t

At(t, here) == Running(t) /\ pc[t] = here

Goto(t, there) == pc' = [pc EXCEPT ![t] = there]

(* A thread that pends goes on at `there' once the semaphore is its own. *)
k_sem_take(t, there) ==
  /\ Goto(t, there)
  /\ IF count > 0
     THEN count' = count - 1 /\ UNCHANGED <<ready, waiting>>
     ELSE ready' = Tail(ready) /\ waiting' = Append(waiting, t) /\ UNCHANGED count

(* The limit of the semaphore is 3. *)
k_sem_give ==
  IF waiting # <<>>
  THEN ready' = Append(ready, Head(waiting)) /\ waiting' = Tail(waiting) /\ UNCHANGED count
  ELSE count' = (IF count < 3 THEN count + 1 ELSE count) /\ UNCHANGED <<ready, waiting>>

k_sleep(t) == Goto(t, "asleep") /\ ready' = Tail(ready) /\ UNCHANGED <<waiting, count>>

(* The timer's interrupt makes a sleeper ready again. *)
Expire(t, there) ==
  /\ pc[t] = "asleep"
  /\ Goto(t, there) /\ ready' = Append(ready, t)
  /\ UNCHANGED <<begun, waiting, count, buffers, encoder, tbuf>>

-----------------------------------------------------------------------------

(* main() has a lower priority than the threads it starts. *)
main ==
  /\ ready = <<>> /\ begun < 4
  /\ begun' = begun + 1
  /\ CASE begun = 0 -> ready' = <<"enc">> /\ UNCHANGED <<waiting, count>>
       [] begun = 1 -> ready' = <<"pt">> /\ UNCHANGED <<waiting, count>>
       [] begun = 2 -> ready' = <<"ct">> /\ UNCHANGED <<waiting, count>>
       [] begun = 3 -> k_sem_give
  /\ UNCHANGED <<pc, buffers, encoder, tbuf>>

Take(t, here, there) ==
  /\ At(t, here) /\ k_sem_take(t, there)
  /\ UNCHANGED <<begun, buffers, encoder, tbuf>>

Give(t, here, there) ==
  /\ At(t, here) /\ k_sem_give /\ Goto(t, there)
  /\ UNCHANGED <<begun, buffers, encoder, tbuf>>

EncRead_wheels_kept ==
  /\ At("enc", "read")
  /\ IF fBUFIN = 1
     THEN /\ enc_pt' = BUFIN /\ fBUFIN' = 0
          /\ IW' = IW /\ enc_ct' = <<>> /\ index' = 0
          /\ Goto("enc", "encode")
     ELSE Goto("enc", "give") /\ UNCHANGED <<fBUFIN, encoder>>
  /\ UNCHANGED <<begun, queues, BUFIN, fBUFOUT, BUFOUT, tbuf>>

(* enc() copies and clears a message, if there is one, and sets the wheels. *)
EncRead ==
  /\ At("enc", "read")
  /\ IF fBUFIN = 1
     THEN /\ enc_pt' = BUFIN /\ fBUFIN' = 0
          /\ IW' = Reset /\ enc_ct' = <<>> /\ index' = 0
          /\ Goto("enc", "encode")
     ELSE Goto("enc", "give") /\ UNCHANGED <<fBUFIN, encoder>>
  /\ UNCHANGED <<begun, queues, BUFIN, fBUFOUT, BUFOUT, tbuf>>

(* One turn of the loop: only letters are encoded, and only they turn the   *)
(* wheels.                                                                 *)
EncEncode ==
  /\ At("enc", "encode")
  /\ IF index = Len(enc_pt)
     THEN Goto("enc", "write") /\ UNCHANGED encoder
     ELSE /\ index' = index + 1
          /\ IF enc_pt[index + 1] \in Index
             THEN /\ enc_ct' = Append(enc_ct, enig_enc(IW, enc_pt[index + 1]))
                  /\ IW' = update_wheel_index(IW)
             ELSE UNCHANGED <<enc_ct, IW>>
          /\ UNCHANGED <<pc, enc_pt>>
  /\ UNCHANGED <<begun, queues, buffers, tbuf>>

(* enc() polls the flag every millisecond, the semaphore in its hands. *)
EncWrite ==
  /\ At("enc", "write")
  /\ IF fBUFOUT # 0
     THEN k_sleep("enc") /\ UNCHANGED <<fBUFOUT, BUFOUT>>
     ELSE BUFOUT' = enc_ct /\ fBUFOUT' = 1 /\ Goto("enc", "give") /\ UNCHANGED queues
  /\ UNCHANGED <<begun, fBUFIN, BUFIN, encoder, tbuf>>

enc == \/ Take("enc", "take", "read") \/ EncRead \/ EncEncode \/ EncWrite
       \/ Give("enc", "give", "take") \/ Expire("enc", "write")

PtWrite(here, there, message) ==
  /\ At("pt", here)
  /\ IF fBUFIN = 0 THEN BUFIN' = message /\ fBUFIN' = 1 ELSE UNCHANGED <<BUFIN, fBUFIN>>
  /\ Goto("pt", there)
  /\ UNCHANGED <<begun, queues, fBUFOUT, BUFOUT, encoder, tbuf>>

PtSleep ==
  /\ At("pt", "sleep") /\ k_sleep("pt")
  /\ UNCHANGED <<begun, buffers, encoder, tbuf>>

pt_one_turn ==
  \/ PtSleep \/ Expire("pt", "take1")
  \/ Take("pt", "take1", "write1") \/ PtWrite("write1", "write2", ptMSG)
  \/ PtWrite("write2", "give2", ptMSG2) \/ Give("pt", "give2", "sleep")

pt == \/ PtSleep \/ Expire("pt", "take1")
      \/ Take("pt", "take1", "write1") \/ PtWrite("write1", "give1", ptMSG)
      \/ Give("pt", "give1", "take2")
      \/ Take("pt", "take2", "write2") \/ PtWrite("write2", "give2", ptMSG2)
      \/ Give("pt", "give2", "sleep")

(* ct() copies, clears and prints a message, if there is one. *)
CtRead ==
  /\ At("ct", "read")
  /\ IF fBUFOUT = 1 THEN tbuf' = BUFOUT /\ fBUFOUT' = 0 ELSE UNCHANGED <<tbuf, fBUFOUT>>
  /\ Goto("ct", "give")
  /\ UNCHANGED <<begun, queues, fBUFIN, BUFIN, BUFOUT, encoder>>

ct == Take("ct", "take", "read") \/ CtRead \/ Give("ct", "give", "take")

Next == main \/ enc \/ pt \/ ct

Spec == Init /\ [][Next]_vars

-----------------------------------------------------------------------------
(* Properties *)

Thread == {"enc", "pt", "ct"}

Letters(m) == SelectSeq(m, LAMBDA c : c \in Index)

(* The wheels after k letters of a message, and what becomes of a message.   *)
Turned[k \in Nat] == IF k = 0 THEN Reset ELSE update_wheel_index(Turned[k - 1])

Encode(m) == [k \in 1 .. Len(Letters(m)) |-> enig_enc(Turned[k - 1], Letters(m)[k])]

(* What the machine makes of a letter it makes the letter of again, when     *)
(* the wheels are set as before: the sample's two messages are each other's*)
(* cipher because of this.                                                 *)
SelfInverse == \A c \in Index : enig_enc(IW, enig_enc(IW, c)) = c

(* The messages on their way, the oldest first, and the one printed last,    *)
(* deciphered.                                                             *)
Held == IF pc.enc \in {"encode", "write", "asleep"} THEN <<Letters(enc_pt)>> ELSE <<>>
OnTheWay == (IF fBUFOUT = 1 THEN <<Encode(BUFOUT)>> ELSE <<>>) \o Held
            \o (IF fBUFIN = 1 THEN <<Letters(BUFIN)>> ELSE <<>>)

Line == INSTANCE Pipeline WITH Datum <- {<<>>, Letters(ptMSG), Letters(ptMSG2)}, CAPACITY <- 2,
                               line <- OnTheWay, delivered <- Encode(tbuf)

(* Every message that pt() sends is printed once, enciphered, in its turn,   *)
(* although threads only look at flags and skip their turn when one is set.*)
ImplementsLine == Line!Spec

(* "The second message is the output of the first message, and the resulting *)
(* output is the first message without spaces" (README), again and again:  *)
(* pt() skips a message whose buffer is full, and never does so for good.  *)
BothPrinted == /\ []<>(tbuf = Letters(ptMSG2))
               /\ []<>(tbuf = Letters(ptMSG))
=============================================================================
