---------------------------- MODULE Philosophers ----------------------------
(***************************************************************************)
(* The dining philosophers of samples/philosophers.  main() initialises    *)
(* the NUM_PHIL forks (kernel mutexes in the default configuration), then  *)
(* creates the threads one by one, grants each of them access to two forks *)
(* and starts it; the threads already started run meanwhile.  Each thread  *)
(* takes its two forks, the lower numbered first, eats, drops them in the  *)
(* reverse order and thinks.                                               *)
(*                                                                         *)
(* k_mutex_lock and k_mutex_unlock belong to the kernel, which is not part *)
(* of this repository: Lock and Unlock below say what the sample relies    *)
(* on.  A thread that finds the mutex owned pends; an unlock hands the     *)
(* mutex to a pended thread at once, so no running thread can slip in      *)
(* between.  Thread priorities are left out: every interleaving is         *)
(* allowed, the ones of any priority assignment among them.                *)
(***************************************************************************)
EXTENDS Naturals, FiniteSets

CONSTANT NUM_PHIL   \* #define NUM_PHIL

ASSUME NumPhilAssumption == NUM_PHIL \in Nat /\ NUM_PHIL >= 2

Phil == 0 .. NUM_PHIL - 1
Fork == 0 .. NUM_PHIL - 1
NoOne == NUM_PHIL       \* the owner of a fork that lies on the table

VARIABLES
  pc,        \* pc[p]: where thread p stands in philosopher()
  owner,     \* owner[f]: the owner field of the mutex forks[f]
  granted,   \* granted[p]: the forks k_object_access_grant has opened to p
  mainPc,    \* where main() stands: "init", "start", "done"
  started    \* the loop counter i of start_threads

vars == <<pc, owner, granted, mainPc, started>>

(***************************************************************************)
(* The points of philosopher() at which its thread can be found.           *)
(***************************************************************************)
Place == {"unstarted",   \* k_thread_start has not been called for it
          "starving",    \* about to take(fork1)
          "wait1",       \* pended on fork1
          "holding",     \* holds fork1, about to take(fork2)
          "wait2",       \* pended on fork2
          "eating",      \* holds both, in the first k_msleep
          "dropped",     \* has dropped fork2, about to drop(fork1)
          "thinking",    \* in the second k_msleep
          "oops"}        \* the kernel has stopped it: no access to the fork

is_last_philosopher_off_by_one(p) == p = NUM_PHIL

is_last_philosopher(p) == p = NUM_PHIL - 1

(* Dijkstra's rule: the lower numbered fork first. *)
Forks(p) == IF is_last_philosopher(p) THEN <<0, p>> ELSE <<p, p + 1>>

Fork1(p) == Forks(p)[1]
Fork2(p) == Forks(p)[2]

WaitsFor(p, f) == \/ pc[p] = "wait1" /\ f = Fork1(p)
                  \/ pc[p] = "wait2" /\ f = Fork2(p)

Init == /\ pc = [p \in Phil |-> "unstarted"]
        /\ owner = [f \in Fork |-> NoOne]
        /\ granted = [p \in Phil |-> {}]
        /\ mainPc = "init"
        /\ started = 0

-----------------------------------------------------------------------------
(* The kernel's mutex. *)

(* k_mutex_lock(forks[f], K_FOREVER) called by the user thread p: it is     *)
(* stopped when it has no access to the object, owns a free mutex at once, *)
(* and otherwise pends.                                                    *)
Free(p, f) == f \in granted[p] /\ owner[f] = NoOne

Lock(p, f, got, pended) ==
  /\ pc' = [pc EXCEPT ![p] = IF f \notin granted[p] THEN "oops"
                             ELSE IF Free(p, f) THEN got ELSE pended]
  /\ owner' = IF Free(p, f) THEN [owner EXCEPT ![f] = p] ELSE owner

(* Where a thread pended in take() goes on when it is given the fork.       *)
Resumed(q) == IF pc[q] = "wait1" THEN "holding" ELSE "eating"

(* k_mutex_unlock(forks[f]) called by p, which goes on at next: an error    *)
(* the code ignores unless p is the owner; a pended thread becomes the     *)
(* owner and its k_mutex_lock returns; without one the mutex is free.      *)
Unlock(p, f, next) ==
  \/ \E q \in Phil :
       /\ owner[f] = p /\ WaitsFor(q, f)
       /\ pc' = [pc EXCEPT ![p] = next, ![q] = Resumed(q)]
       /\ owner' = [owner EXCEPT ![f] = q]
  \/ /\ owner[f] # p \/ \A q \in Phil : ~ WaitsFor(q, f)
     /\ pc' = [pc EXCEPT ![p] = next]
     /\ owner' = IF owner[f] = p THEN [owner EXCEPT ![f] = NoOne] ELSE owner

-----------------------------------------------------------------------------
(* main *)

init_objects == /\ mainPc = "init"
                /\ owner' = [f \in Fork |-> NoOne]
                /\ mainPc' = "start"
                /\ UNCHANGED <<pc, granted, started>>

GrantsOf(i) == {i, (i + 1) % NUM_PHIL}

(* One turn of the loop: create (K_FOREVER, so it does not run yet), grant  *)
(* both forks, start.  After the last turn main() returns.                 *)
start_threads == /\ mainPc = "start"
                 /\ started < NUM_PHIL
                 /\ granted' = [granted EXCEPT ![started] = GrantsOf(started)]
                 /\ pc' = [pc EXCEPT ![started] = "starving"]
                 /\ started' = started + 1
                 /\ mainPc' = IF started' = NUM_PHIL THEN "done" ELSE "start"
                 /\ UNCHANGED owner

-----------------------------------------------------------------------------
(* philosopher *)

TakeFork1(p) == /\ pc[p] = "starving"
                /\ Lock(p, Fork1(p), "holding", "wait1")
                /\ UNCHANGED <<granted, mainPc, started>>

TakeFork2_no_wait(p) == /\ pc[p] = "holding"
                        /\ Lock(p, Fork2(p), "eating", "eating")
                        /\ UNCHANGED <<granted, mainPc, started>>

TakeFork2(p) == /\ pc[p] = "holding"
                /\ Lock(p, Fork2(p), "eating", "wait2")
                /\ UNCHANGED <<granted, mainPc, started>>

(* The first k_msleep is over. *)
DropFork2(p) == /\ pc[p] = "eating"
                /\ Unlock(p, Fork2(p), "dropped")
                /\ UNCHANGED <<granted, mainPc, started>>

DropFork1_forgotten(p) == /\ pc[p] = "dropped"
                          /\ pc' = [pc EXCEPT ![p] = "thinking"]
                          /\ UNCHANGED <<owner, granted, mainPc, started>>

DropFork1(p) == /\ pc[p] = "dropped"
                /\ Unlock(p, Fork1(p), "thinking")
                /\ UNCHANGED <<granted, mainPc, started>>

(* The second k_msleep is over: the while (1) loop starts again. *)
Wake(p) == /\ pc[p] = "thinking"
           /\ pc' = [pc EXCEPT ![p] = "starving"]
           /\ UNCHANGED <<owner, granted, mainPc, started>>

philosopher(p) == \/ TakeFork1(p) \/ TakeFork2(p)
                  \/ DropFork2(p) \/ DropFork1(p)
                  \/ Wake(p)

main == init_objects \/ start_threads

Next == main \/ \E p \in Phil : philosopher(p)

Spec == Init /\ [][Next]_vars

(* Every thread that can run does: each philosopher() sleeps at least 25 ms *)
(* twice per turn and never spins, so no priority starves another thread.  *)
Fairness == WF_vars(main) /\ \A p \in Phil : WF_vars(philosopher(p))

FairSpec == Spec /\ Fairness

-----------------------------------------------------------------------------
(* Properties *)

TypeOK == /\ pc \in [Phil -> Place]
          /\ owner \in [Fork -> Phil \cup {NoOne}]
          /\ granted \in [Phil -> SUBSET Fork]
          /\ mainPc \in {"init", "start", "done"}
          /\ started \in 0 .. NUM_PHIL

Neighbours(p, q) == p # q /\ {Fork1(p), Fork2(p)} \cap {Fork1(q), Fork2(q)} # {}

(* Two philosophers that share a fork never eat at the same time, whatever  *)
(* the order in which main() starts them and the forks change hands.       *)
NeighboursDoNotEatTogether ==
  \A p, q \in Phil : Neighbours(p, q) => ~ (pc[p] = "eating" /\ pc[q] = "eating")

(* Never is everyone pended: the order in which philosopher() takes its     *)
(* forks rules out the circle in which each holds one fork and waits for   *)
(* the next.                                                               *)
SomeoneCanMove == (mainPc = "done") => \E p \in Phil : pc[p] \notin {"wait1", "wait2", "oops"}

(* The grants of start_threads cover the forks philosopher() picks, the     *)
(* last philosopher's fork 0 included: no thread is stopped by the kernel. *)
NoThreadOops == \A p \in Phil : pc[p] # "oops"

(* What the program counter of a thread says about its forks: the code only *)
(* drops what it owns, and k_mutex_unlock's ignored error never occurs.    *)
MustOwn(p, f) ==
  \/ f = Fork1(p) /\ pc[p] \in {"holding", "wait2", "eating", "dropped"}
  \/ f = Fork2(p) /\ pc[p] = "eating"

DropsOnlyWhatItOwns == \A p \in Phil, f \in Fork : owner[f] = p <=> MustOwn(p, f)

(* The forks implement the table of module Dining: each step starts a meal  *)
(* while no neighbour eats, ends one, or hands the last fork of a meal     *)
(* that ends to the neighbour whose meal it starts.                        *)
Table == INSTANCE Dining WITH Diner <- Phil, Adjacent <- Neighbours,
                              eating <- {p \in Phil : pc[p] = "eating"}

ImplementsDining == Table!Spec

(* Everyone who is starving eats eventually. *)
EveryoneEats == \A p \in Phil : pc[p] = "starving" ~> pc[p] = "eating"
=============================================================================
