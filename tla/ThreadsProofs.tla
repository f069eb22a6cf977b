---------------------------- MODULE ThreadsProofs ----------------------------
(***************************************************************************)
(* Proofs about the programs of kernel threads: Philosophers, for every     *)
(* NUM_PHIL >= 2; ProdConsumer, for every number of data, blocks and queue  *)
(* nodes - no block is lost, doubled or shared, and the pipeline is FIFO;   *)
(* and Cmsis, for every number of philosophers and every initial counter.   *)
(***************************************************************************)
EXTENDS Philosophers, ProdConsumer, Cmsis, TLAPS, FiniteSetTheorems, SequenceTheorems,
        WellFoundedInduction

-----------------------------------------------------------------------------
(* THE DINING PHILOSOPHERS *)

(* The two forks of a philosopher, the lower numbered one first; no third   *)
(* philosopher uses a fork that two others share.                          *)
LEMMA ForksFact ==
  \A p \in Phil : /\ Fork1(p) \in Fork /\ Fork2(p) \in Fork
                  /\ Fork1(p) < Fork2(p)
                  /\ {Fork1(p), Fork2(p)} \subseteq GrantsOf(p)
<1> SUFFICES ASSUME NEW p \in Phil
             PROVE  /\ Fork1(p) \in Fork /\ Fork2(p) \in Fork
                    /\ Fork1(p) < Fork2(p)
                    /\ {Fork1(p), Fork2(p)} \subseteq GrantsOf(p)
  OBVIOUS
<1>1. CASE p = NUM_PHIL - 1
  <2>1. Fork1(p) = 0 /\ Fork2(p) = p
    BY <1>1 DEF Fork1, Fork2, Forks, is_last_philosopher
  <2>2. (p + 1) % NUM_PHIL = 0
    BY <1>1, NumPhilAssumption DEF Phil
  <2> QED BY <1>1, <2>1, <2>2, NumPhilAssumption DEF GrantsOf, Fork, Phil
<1>2. CASE p # NUM_PHIL - 1
  <2>1. Fork1(p) = p /\ Fork2(p) = p + 1
    BY <1>2 DEF Fork1, Fork2, Forks, is_last_philosopher
  <2>2. (p + 1) % NUM_PHIL = p + 1
    BY <1>2, NumPhilAssumption DEF Phil
  <2> QED BY <1>2, <2>1, <2>2, NumPhilAssumption DEF GrantsOf, Fork, Phil
<1> QED BY <1>1, <1>2

-----------------------------------------------------------------------------
(* Type correctness: start_threads and the mutex calls keep every variable  *)
(* within its type.                                                        *)
LEMMA NextType == TypeOK /\ [Next]_vars => TypeOK'
<1> SUFFICES ASSUME TypeOK, [Next]_vars PROVE TypeOK'
  OBVIOUS
<1> USE NumPhilAssumption
<1>1. CASE init_objects
  BY <1>1 DEF TypeOK, init_objects
<1>2. CASE start_threads
  <2>1. started \in Phil
    BY <1>2 DEF TypeOK, start_threads, Phil
  <2>2. GrantsOf(started) \subseteq Fork
    BY <2>1 DEF GrantsOf, Phil, Fork
  <2> QED BY <1>2, <2>1, <2>2 DEF TypeOK, start_threads, Place, Phil
<1>3. ASSUME NEW p \in Phil, NEW f \in Fork, NEW x \in Place, NEW y \in Place,
             Lock(p, f, x, y)
      PROVE  pc' \in [Phil -> Place] /\ owner' \in [Fork -> Phil \cup {NoOne}]
  BY <1>3 DEF TypeOK, Lock, Place
<1>4. ASSUME NEW p \in Phil, NEW f \in Fork, NEW x \in Place, Unlock(p, f, x)
      PROVE  pc' \in [Phil -> Place] /\ owner' \in [Fork -> Phil \cup {NoOne}]
  BY <1>4 DEF TypeOK, Unlock, Resumed, Place
<1>5. ASSUME NEW p \in Phil, TakeFork1(p) PROVE TypeOK'
  BY <1>5, <1>3, ForksFact DEF TypeOK, TakeFork1, Place
<1>6. ASSUME NEW p \in Phil, TakeFork2(p) PROVE TypeOK'
  BY <1>6, <1>3, ForksFact DEF TypeOK, TakeFork2, Place
<1>7. ASSUME NEW p \in Phil, DropFork2(p) PROVE TypeOK'
  BY <1>7, <1>4, ForksFact DEF TypeOK, DropFork2, Place
<1>8. ASSUME NEW p \in Phil, DropFork1(p) PROVE TypeOK'
  BY <1>8, <1>4, ForksFact DEF TypeOK, DropFork1, Place
<1>9. ASSUME NEW p \in Phil, Wake(p) PROVE TypeOK'
  BY <1>9 DEF TypeOK, Wake, Place
<1>10. CASE UNCHANGED vars
  BY <1>10 DEF TypeOK, vars
<1> QED BY <1>1, <1>2, <1>5, <1>6, <1>7, <1>8, <1>9, <1>10 DEF Next, main, philosopher

(* TypeOK holds in every reachable state, for every number of philosophers. *)
THEOREM TypeCorrect == Spec => []TypeOK
<1>1. Init => TypeOK
  BY NumPhilAssumption DEF Init, TypeOK, Place, Phil
<1> QED BY <1>1, NextType, PTL DEF Spec

-----------------------------------------------------------------------------
(***************************************************************************)
(* The inductive invariant.  Exclusion alone is not inductive: it needs    *)
(* what each thread's place says about the mutexes it owns, that a pended  *)
(* thread waits for an owned fork (no wake-up is lost), and that the       *)
(* threads running so far were granted their forks.                        *)
(***************************************************************************)
NoLostWakeup == \A p \in Phil, f \in Fork : WaitsFor(p, f) => owner[f] # NoOne

Granted == \A p \in Phil : pc[p] # "unstarted" => granted[p] = GrantsOf(p)

StartOrder == /\ \A p \in Phil : pc[p] = "unstarted" <=> p >= started
              /\ mainPc = "init" => started = 0
              /\ mainPc = "done" => started = NUM_PHIL

IInv == /\ TypeOK
        /\ DropsOnlyWhatItOwns
        /\ NoLostWakeup
        /\ Granted
        /\ StartOrder
        /\ NoThreadOops

LEMMA InitIInv == Init => IInv
<1> SUFFICES ASSUME Init PROVE IInv
  OBVIOUS
<1>1. TypeOK
  BY NumPhilAssumption DEF Init, TypeOK, Place, Phil
<1> QED
  BY <1>1, NumPhilAssumption
  DEF Init, IInv, DropsOnlyWhatItOwns, MustOwn, NoLostWakeup, WaitsFor, Granted,
      StartOrder, NoThreadOops, NoOne, Phil

(* take(): the caller runs on as the owner, or pends on an owned fork.      *)
LEMMA LockStep ==
  ASSUME IInv, NEW p \in Phil,
         TakeFork1(p) \/ TakeFork2(p)
  PROVE  DropsOnlyWhatItOwns' /\ NoLostWakeup' /\ Granted' /\ StartOrder' /\ NoThreadOops'
<1> USE NumPhilAssumption DEF IInv, TypeOK
<1>1. Fork1(p) \in Fork /\ Fork2(p) \in Fork /\ Fork1(p) < Fork2(p)
  BY ForksFact
<1>2. Fork1(p) \in granted[p] /\ Fork2(p) \in granted[p]
  BY ForksFact DEF TakeFork1, TakeFork2, Granted
<1>3. UNCHANGED <<granted, mainPc, started>>
  BY DEF TakeFork1, TakeFork2
<1>4. PICK f \in Fork, x \in {"holding", "eating"}, y \in {"wait1", "wait2"} :
        /\ \/ f = Fork1(p) /\ x = "holding" /\ y = "wait1" /\ pc[p] = "starving"
           \/ f = Fork2(p) /\ x = "eating" /\ y = "wait2" /\ pc[p] = "holding"
        /\ Lock(p, f, x, y)
  BY <1>1 DEF TakeFork1, TakeFork2
<1>5. CASE owner[f] = NoOne
  <2>1. pc' = [pc EXCEPT ![p] = x] /\ owner' = [owner EXCEPT ![f] = p]
    BY <1>2, <1>4, <1>5 DEF Lock, Free
  <2>2. DropsOnlyWhatItOwns'
    BY <1>1, <1>4, <1>5, <2>1 DEF DropsOnlyWhatItOwns, MustOwn, NoOne, Phil, Fork
  <2>3. NoLostWakeup'
    BY <1>4, <2>1 DEF NoLostWakeup, WaitsFor, NoOne, Phil
  <2> QED BY <1>3, <1>4, <2>1, <2>2, <2>3 DEF Granted, StartOrder, NoThreadOops
<1>6. CASE owner[f] # NoOne
  <2>1. pc' = [pc EXCEPT ![p] = y] /\ owner' = owner
    BY <1>2, <1>4, <1>6 DEF Lock, Free
  <2>2. DropsOnlyWhatItOwns'
    BY <1>1, <1>4, <2>1 DEF DropsOnlyWhatItOwns, MustOwn
  <2>3. NoLostWakeup'
    BY <1>1, <1>4, <1>6, <2>1 DEF NoLostWakeup, WaitsFor
  <2> QED BY <1>3, <1>4, <2>1, <2>2, <2>3 DEF Granted, StartOrder, NoThreadOops
<1> QED BY <1>5, <1>6

(* drop(): the fork goes to the pended neighbour or back to the table.      *)
LEMMA UnlockStep ==
  ASSUME IInv, NEW p \in Phil,
         DropFork2(p) \/ DropFork1(p)
  PROVE  DropsOnlyWhatItOwns' /\ NoLostWakeup' /\ Granted' /\ StartOrder' /\ NoThreadOops'
<1> USE NumPhilAssumption DEF IInv, TypeOK
<1>1. Fork1(p) \in Fork /\ Fork2(p) \in Fork /\ Fork1(p) < Fork2(p)
  BY ForksFact
<1>3. UNCHANGED <<granted, mainPc, started>>
  BY DEF DropFork1, DropFork2
<1>4. PICK f \in Fork, x \in {"dropped", "thinking"} :
        /\ \/ f = Fork2(p) /\ x = "dropped" /\ pc[p] = "eating"
           \/ f = Fork1(p) /\ x = "thinking" /\ pc[p] = "dropped"
        /\ Unlock(p, f, x)
  BY <1>1 DEF DropFork1, DropFork2
<1>5. owner[f] = p
  BY <1>4 DEF DropsOnlyWhatItOwns, MustOwn
<1>6. ASSUME NEW q \in Phil, WaitsFor(q, f),
             pc' = [pc EXCEPT ![p] = x, ![q] = Resumed(q)],
             owner' = [owner EXCEPT ![f] = q]
      PROVE  DropsOnlyWhatItOwns' /\ NoLostWakeup' /\ Granted' /\ StartOrder' /\ NoThreadOops'
  <2>1. q # p /\ pc[q] \in {"wait1", "wait2"}
    BY <1>4, <1>6 DEF WaitsFor
  <2>2. Fork1(q) \in Fork /\ Fork2(q) \in Fork /\ Fork1(q) < Fork2(q)
    BY ForksFact
  <2>3. \/ pc[q] = "wait1" /\ f = Fork1(q) /\ pc'[q] = "holding"
        \/ pc[q] = "wait2" /\ f = Fork2(q) /\ pc'[q] = "eating"
    BY <1>6, <2>1 DEF WaitsFor, Resumed
  <2>4. DropsOnlyWhatItOwns'
    <3>1. \A g \in Fork : owner'[g] = p <=> MustOwn(p, g)'
      BY <1>1, <1>4, <1>5, <1>6, <2>1 DEF DropsOnlyWhatItOwns, MustOwn, Fork
    <3>2. \A g \in Fork : owner'[g] = q <=> MustOwn(q, g)'
      BY <1>5, <1>6, <2>1, <2>2, <2>3 DEF DropsOnlyWhatItOwns, MustOwn, Fork
    <3>3. \A r \in Phil \ {p, q}, g \in Fork : owner'[g] = r <=> MustOwn(r, g)'
      BY <1>5, <1>6 DEF DropsOnlyWhatItOwns, MustOwn
    <3> QED BY <3>1, <3>2, <3>3 DEF DropsOnlyWhatItOwns
  <2>5. NoLostWakeup'
    BY <1>4, <1>6, <2>1, <2>3 DEF NoLostWakeup, WaitsFor, NoOne, Phil
  <2> QED BY <1>3, <1>4, <1>6, <2>1, <2>3, <2>4, <2>5 DEF Granted, StartOrder, NoThreadOops
<1>7. ASSUME \A q \in Phil : ~ WaitsFor(q, f),
             pc' = [pc EXCEPT ![p] = x], owner' = [owner EXCEPT ![f] = NoOne]
      PROVE  DropsOnlyWhatItOwns' /\ NoLostWakeup' /\ Granted' /\ StartOrder' /\ NoThreadOops'
  <2>1. DropsOnlyWhatItOwns'
    BY <1>1, <1>4, <1>5, <1>7 DEF DropsOnlyWhatItOwns, MustOwn, NoOne, Phil, Fork
  <2>2. NoLostWakeup'
    BY <1>4, <1>7 DEF NoLostWakeup, WaitsFor
  <2> QED BY <1>3, <1>4, <1>7, <2>1, <2>2 DEF Granted, StartOrder, NoThreadOops
<1> QED BY <1>4, <1>5, <1>6, <1>7 DEF Unlock

LEMMA NextIInv == IInv /\ [Next]_vars => IInv'
<1> SUFFICES ASSUME IInv, [Next]_vars PROVE IInv'
  OBVIOUS
<1> USE NumPhilAssumption
<1>1. TypeOK'
  BY NextType DEF IInv
<1>2. CASE init_objects
  BY <1>1, <1>2 DEF IInv, init_objects, TypeOK, DropsOnlyWhatItOwns, MustOwn,
     NoLostWakeup, WaitsFor, Granted, StartOrder, NoThreadOops, NoOne, Phil, Fork
<1>3. CASE start_threads
  <2>1. started \in Phil /\ pc[started] = "unstarted"
    BY <1>3 DEF IInv, TypeOK, StartOrder, start_threads, Phil
  <2>2. DropsOnlyWhatItOwns' /\ NoLostWakeup'
    BY <1>3, <2>1 DEF IInv, TypeOK, start_threads, DropsOnlyWhatItOwns, MustOwn,
       NoLostWakeup, WaitsFor
  <2>3. Granted' /\ NoThreadOops'
    BY <1>3, <2>1 DEF IInv, TypeOK, start_threads, Granted, NoThreadOops, GrantsOf
  <2>4. StartOrder'
    BY <1>3, <2>1 DEF IInv, TypeOK, start_threads, StartOrder, Phil
  <2> QED BY <1>1, <2>2, <2>3, <2>4 DEF IInv
<1>4. ASSUME NEW p \in Phil, philosopher(p) PROVE IInv'
  <2>1. CASE TakeFork1(p) \/ TakeFork2(p)
    BY <1>1, <2>1, LockStep DEF IInv
  <2>2. CASE DropFork2(p) \/ DropFork1(p)
    BY <1>1, <2>2, UnlockStep DEF IInv
  <2>3. CASE Wake(p)
    BY <1>1, <2>3 DEF IInv, Wake, TypeOK, DropsOnlyWhatItOwns, MustOwn, NoLostWakeup,
       WaitsFor, Granted, StartOrder, NoThreadOops
  <2> QED BY <1>4, <2>1, <2>2, <2>3 DEF philosopher
<1>5. CASE UNCHANGED vars
  BY <1>5 DEF IInv, vars, TypeOK, DropsOnlyWhatItOwns, MustOwn, NoLostWakeup, WaitsFor,
     Granted, StartOrder, NoThreadOops
<1> QED BY <1>2, <1>3, <1>4, <1>5 DEF Next, main

LEMMA Invariance == Spec => []IInv
BY InitIInv, NextIInv, PTL DEF Spec

(* No thread is stopped for want of access, and drop() is only called by    *)
(* the owner, in every reachable state for every number of philosophers.   *)
THEOREM CodeUsesItsForks == Spec => [](NoThreadOops /\ DropsOnlyWhatItOwns)
<1>1. IInv => NoThreadOops /\ DropsOnlyWhatItOwns
  BY DEF IInv
<1> QED BY <1>1, Invariance, PTL

LEMMA Exclusion == IInv => NeighboursDoNotEatTogether
BY ForksFact DEF IInv, DropsOnlyWhatItOwns, MustOwn, NeighboursDoNotEatTogether, Neighbours

(* Two philosophers that share a fork never eat together.                   *)
THEOREM MutualExclusion == Spec => []NeighboursDoNotEatTogether
BY Exclusion, Invariance, PTL

-----------------------------------------------------------------------------
(***************************************************************************)
(* Deadlock freedom.  If everyone were pended, the owner of the fork that  *)
(* a thread waits for would itself wait for a higher numbered one; the     *)
(* thread that waits for the highest numbered fork refutes that.           *)
(***************************************************************************)
Awaited(p) == IF pc[p] = "wait1" THEN Fork1(p) ELSE Fork2(p)

LEMMA ChainAscends ==
  ASSUME IInv, \A p \in Phil : pc[p] \in {"wait1", "wait2"}, NEW p \in Phil
  PROVE  \E q \in Phil : Awaited(p) < Awaited(q)
<1>1. Awaited(p) \in Fork /\ WaitsFor(p, Awaited(p))
  BY ForksFact DEF Awaited, WaitsFor
<1>2. owner[Awaited(p)] \in Phil
  BY <1>1 DEF IInv, TypeOK, NoLostWakeup
<1>3. PICK q \in Phil : owner[Awaited(p)] = q
  BY <1>2
<1>4. Awaited(p) = Fork1(q) /\ pc[q] = "wait2"
  BY <1>1, <1>3 DEF IInv, DropsOnlyWhatItOwns, MustOwn
<1> QED BY <1>4, ForksFact DEF Awaited

LEMMA NotEveryonePends == IInv => SomeoneCanMove
<1> SUFFICES ASSUME IInv, \A p \in Phil : pc[p] \in {"wait1", "wait2"} PROVE FALSE
  BY DEF SomeoneCanMove, IInv, NoThreadOops
<1> USE NumPhilAssumption
<1> DEFINE T == {NUM_PHIL - Awaited(p) : p \in Phil}
<1>1. \A p \in Phil : Awaited(p) \in Fork
  BY ForksFact DEF Awaited
<1>2. T \subseteq Nat
  BY <1>1 DEF Fork
<1>3. T # {}
  <2>1. 0 \in Phil
    BY DEF Phil
  <2> QED BY <2>1
<1>4. PICK t \in T : \A u \in T : ~ (<<u, t>> \in OpToRel(<, Nat))
  <2> HIDE DEF T
  <2> QED BY <1>2, <1>3, NatLessThanWellFounded, WFMin
<1>5. PICK p \in Phil : t = NUM_PHIL - Awaited(p)
  BY <1>4
<1>6. PICK q \in Phil : Awaited(p) < Awaited(q)
  BY ChainAscends
<1>7. NUM_PHIL - Awaited(q) \in T /\ NUM_PHIL - Awaited(q) < t
  BY <1>1, <1>5, <1>6 DEF Fork
<1>8. <<NUM_PHIL - Awaited(q), t>> \in OpToRel(<, Nat)
  BY <1>2, <1>7 DEF OpToRel
<1> QED BY <1>4, <1>7, <1>8

(* Never is every philosopher pended, for every number of philosophers.     *)
THEOREM DeadlockFreedom == Spec => []SomeoneCanMove
BY NotEveryonePends, Invariance, PTL

-----------------------------------------------------------------------------
(***************************************************************************)
(* Refinement: the step that changes the set of philosophers who eat is a  *)
(* step of Dining.  Exclusion after the step gives Dining's guard.         *)
(***************************************************************************)
Eating == {p \in Phil : pc[p] = "eating"}

LEMMA StartsOneMeal ==
  ASSUME IInv, IInv', NEW q \in Phil, NEW gone \in SUBSET Eating,
         pc[q] # "eating", Eating' = (Eating \ gone) \cup {q}
  PROVE  \A e \in Eating \ gone : ~ Neighbours(q, e)
<1>1. NeighboursDoNotEatTogether'
  BY ForksFact DEF IInv, DropsOnlyWhatItOwns, MustOwn, NeighboursDoNotEatTogether,
     Neighbours
<1> QED BY <1>1 DEF NeighboursDoNotEatTogether, Eating, Neighbours

LEMMA StepRefines == IInv /\ IInv' /\ [Next]_vars => [Table!Next]_Eating
<1> SUFFICES ASSUME IInv, IInv', [Next]_vars, Eating' # Eating PROVE Table!Next
  BY DEF Eating
<1> USE DEF IInv, TypeOK
<1>1. ASSUME NEW p \in Phil, philosopher(p) PROVE Table!Next
  <2>1. CASE TakeFork1(p) \/ TakeFork2(p)
    <3>1. pc[p] = "holding" /\ pc' = [pc EXCEPT ![p] = "eating"]
      BY <2>1 DEF TakeFork1, TakeFork2, Lock, Eating
    <3>2. Eating' = (Eating \ {}) \cup {p}
      BY <3>1 DEF Eating
    <3>3. Table!Start(p)
      BY <3>1, <3>2, StartsOneMeal DEF Table!Start, Eating
    <3> QED BY <3>3 DEF Table!Next
  <2>2. CASE DropFork2(p)
    <3>1. CASE pc' = [pc EXCEPT ![p] = "dropped"]
      BY <2>2, <3>1 DEF DropFork2, Table!Next, Table!Stop, Eating
    <3>2. ASSUME NEW q \in Phil, WaitsFor(q, Fork2(p)),
                 pc' = [pc EXCEPT ![p] = "dropped", ![q] = Resumed(q)]
          PROVE  Table!Next
      <4>1. q # p /\ pc[q] # "eating" /\ pc[p] = "eating" /\ p \in Eating
        BY <2>2, <3>2 DEF DropFork2, WaitsFor, Eating
      <4>2. CASE pc[q] = "wait1"
        <5>1. Eating' = Eating \ {p}
          BY <3>2, <4>1, <4>2 DEF Resumed, Eating
        <5> QED BY <4>1, <5>1 DEF Table!Next, Table!Stop, Eating
      <4>3. CASE pc[q] # "wait1"
        <5>1. Eating' = (Eating \ {p}) \cup {q}
          BY <3>2, <4>1, <4>3 DEF Resumed, Eating
        <5>2. Table!HandOver(p, q)
          BY <4>1, <5>1, StartsOneMeal DEF Table!HandOver, Eating
        <5> QED BY <5>2 DEF Table!Next
      <4> QED BY <4>2, <4>3
    <3> QED BY <2>2, <3>1, <3>2 DEF DropFork2, Unlock
  <2>3. CASE DropFork1(p)
    <3>1. PICK q \in Phil : /\ WaitsFor(q, Fork1(p))
                            /\ pc' = [pc EXCEPT ![p] = "thinking", ![q] = Resumed(q)]
      BY <2>3 DEF DropFork1, Unlock, Eating
    <3>2. q # p /\ pc[q] = "wait2"
      BY <2>3, <3>1 DEF DropFork1, WaitsFor, Resumed, Eating
    <3>3. Eating' = (Eating \ {}) \cup {q}
      BY <2>3, <3>1, <3>2 DEF DropFork1, Resumed, Eating
    <3>4. Table!Start(q)
      BY <3>2, <3>3, StartsOneMeal DEF Table!Start, Eating
    <3> QED BY <3>4 DEF Table!Next
  <2>4. CASE Wake(p)
    BY <2>4 DEF Wake, Eating
  <2> QED BY <1>1, <2>1, <2>2, <2>3, <2>4 DEF philosopher
<1>2. CASE main
  BY <1>2 DEF main, init_objects, start_threads, Eating, StartOrder, Phil
<1>3. CASE UNCHANGED vars
  BY <1>3 DEF vars, Eating
<1> QED BY <1>1, <1>2, <1>3 DEF Next

(* The forks of philosopher() implement the table of module Dining.         *)
THEOREM Refinement == Spec => ImplementsDining
<1>1. Init => Table!Init
  BY DEF Init, Table!Init
<1>2. IInv /\ IInv' /\ [Next]_vars => [Table!Next]_{p \in Phil : pc[p] = "eating"}
  BY StepRefines DEF Eating
<1> QED BY <1>1, <1>2, Invariance, PTL DEF Spec, ImplementsDining, Table!Spec

-----------------------------------------------------------------------------
(* PRODUCER AND CONSUMER *)

-----------------------------------------------------------------------------
(* The queues of blocks *)

Distinct(q) == \A i, j \in DOMAIN q : i # j => q[i] # q[j]

(* A queue without repetitions holds as many blocks as it is long.          *)
LEMMA DistinctCount ==
  ASSUME NEW q \in Seq(Block), Distinct(q)
  PROVE  IsFiniteSet(InQueue(q)) /\ Cardinality(InQueue(q)) = Len(q)
<1>1. Len(q) \in Nat /\ q \in [1 .. Len(q) -> Block] /\ DOMAIN q = 1 .. Len(q)
  BY LenProperties
<1>2. q \in Bijection(1 .. Len(q), InQueue(q))
  BY <1>1 DEF Distinct, InQueue, Bijection, Injection, Surjection, IsInjective
<1>3. ExistsBijection(1 .. Len(q), InQueue(q))
  BY <1>2 DEF ExistsBijection
<1> QED BY <1>1, <1>3, FS_NatBijection, FS_CountingElements

(* k_queue_alloc_append at one end.                                         *)
LEMMA AppendQueue ==
  ASSUME NEW q \in Seq(Block), NEW b \in Block
  PROVE  /\ Append(q, b) \in Seq(Block) /\ Len(Append(q, b)) = Len(q) + 1
         /\ InQueue(Append(q, b)) = InQueue(q) \cup {b}
         /\ Distinct(q) /\ b \notin InQueue(q) => Distinct(Append(q, b))
         /\ Data(Append(q, b)) = Append(Data(q), content[b])
<1> DEFINE r == Append(q, b)
<1>1. /\ Len(q) \in Nat /\ DOMAIN q = 1 .. Len(q)
      /\ r \in Seq(Block) /\ Len(r) = Len(q) + 1 /\ DOMAIN r = 1 .. Len(q) + 1
      /\ \A i \in 1 .. Len(q) : r[i] = q[i]
      /\ r[Len(q) + 1] = b
  BY AppendProperties, LenProperties
<1>2. InQueue(r) = InQueue(q) \cup {b}
  BY <1>1 DEF InQueue
<1>3. Distinct(q) /\ b \notin InQueue(q) => Distinct(r)
  BY <1>1 DEF InQueue, Distinct
<1>4. Data(r) = Append(Data(q), content[b])
  BY <1>1 DEF Data
<1> QED BY <1>1, <1>2, <1>3, <1>4

(* k_queue_get at the other.                                                *)
LEMMA GetQueue ==
  ASSUME NEW q \in Seq(Block), q # <<>>
  PROVE  /\ Head(q) \in Block /\ Tail(q) \in Seq(Block) /\ Len(Tail(q)) + 1 = Len(q)
         /\ Len(q) \in Nat /\ Len(Tail(q)) \in Nat
         /\ InQueue(q) = InQueue(Tail(q)) \cup {Head(q)}
         /\ Distinct(q) => Head(q) \notin InQueue(Tail(q)) /\ Distinct(Tail(q))
         /\ Data(q) = <<content[Head(q)]>> \o Data(Tail(q))
<1> DEFINE r == Tail(q)
<1>1. /\ Len(q) \in Nat \ {0} /\ DOMAIN q = 1 .. Len(q) /\ Head(q) = q[1] /\ Head(q) \in Block
      /\ r \in Seq(Block) /\ Len(r) = Len(q) - 1 /\ DOMAIN r = 1 .. Len(q) - 1
      /\ \A i \in 1 .. Len(q) - 1 : r[i] = q[i + 1]
  BY HeadTailProperties, LenProperties, EmptySeq
<1>2. InQueue(q) = InQueue(r) \cup {q[1]}
  <2>1. ASSUME NEW i \in 1 .. Len(q) PROVE q[i] \in InQueue(r) \cup {q[1]}
    <3>1. CASE i # 1
      <4>1. i - 1 \in 1 .. Len(q) - 1 /\ q[i] = r[i - 1]
        BY <1>1, <3>1
      <4> QED BY <1>1, <4>1 DEF InQueue
    <3> QED BY <3>1
  <2>2. ASSUME NEW i \in 1 .. Len(q) - 1 PROVE r[i] \in InQueue(q)
    <3>1. i + 1 \in 1 .. Len(q) /\ r[i] = q[i + 1]
      BY <1>1
    <3> QED BY <1>1, <3>1 DEF InQueue
  <2>3. q[1] \in InQueue(q)
    BY <1>1 DEF InQueue
  <2>4. InQueue(q) \subseteq InQueue(r) \cup {q[1]}
    BY <1>1, <2>1 DEF InQueue
  <2>5. InQueue(r) \subseteq InQueue(q)
    BY <1>1, <2>2 DEF InQueue
  <2> QED BY <2>3, <2>4, <2>5
<1>3. Distinct(q) => q[1] \notin InQueue(r) /\ Distinct(r)
  BY <1>1 DEF InQueue, Distinct
<1>4. Data(q) = <<content[q[1]]>> \o Data(r)
  BY <1>1 DEF Data
<1> QED BY <1>1, <1>2, <1>3, <1>4
-----------------------------------------------------------------------------
(***************************************************************************)
(* The inductive invariant.  The counts of EveryBlockInOnePlace say too     *)
(* little about one step: it needs that the places of blocks are disjoint,  *)
(* that no queue holds a block twice, and that a thread has a block in its  *)
(* hands exactly where its place says so.                                   *)
(***************************************************************************)
Places == {"setup", "start", "alloc", "get", "append", "last", "done", "oops",
           "sleep", "unborn", "write"}

BlocksTyped ==
  /\ cb \in BOOLEAN /\ active \in BOOLEAN /\ counted \in Stamp /\ written \in Stamp
  /\ mqueue \in Seq(Stamp) /\ Len(mqueue) <= MAX_MSGS
  /\ free \in SUBSET Block /\ content \in [Block -> Stamp]
  /\ incoming \in Seq(Block) /\ outgoing \in Seq(Block)
  /\ place \in [AppThread -> Places] /\ hand \in [AppThread -> Block \cup {None}]
  /\ loops \in [AppThread -> Nat]

HandsFull ==
  /\ hand["monitor"] # None <=> place["monitor"] \in {"get", "append"}
  /\ hand["processor"] # None <=> place["processor"] = "append"
  /\ hand["writeback"] # None <=> place["writeback"] = "write"
  /\ place["monitor"] = "setup" => place["writeback"] = "unborn"

BlocksApart ==
  /\ Distinct(incoming) /\ Distinct(outgoing)
  /\ InQueue(incoming) \cap InQueue(outgoing) = {}
  /\ free \cap (InQueue(incoming) \cup InQueue(outgoing)) = {}
  /\ \A t \in AppThread : hand[t] # None =>
       hand[t] \notin free \cup InQueue(incoming) \cup InQueue(outgoing)
  /\ \A t, u \in AppThread : t # u /\ hand[t] # None => hand[t] # hand[u]

BlocksComplete == free \cup InQueue(incoming) \cup InQueue(outgoing) \cup InHand = Block

PendingThreads == {t \in {"processor", "writeback"} : hand[t] # None}

PendingCounted == pending_count = Len(incoming) + Len(outgoing) + Cardinality(PendingThreads)

BlocksInv == BlocksTyped /\ HandsFull /\ BlocksApart /\ BlocksComplete /\ PendingCounted

(* Two sets without a common element hold as many as both together.        *)
LEMMA DisjointUnion ==
  ASSUME NEW S, NEW T, IsFiniteSet(S), IsFiniteSet(T), S \cap T = {}
  PROVE  /\ IsFiniteSet(S \cup T)
         /\ Cardinality(S \cup T) = Cardinality(S) + Cardinality(T)
<1>1. Cardinality(S \cap T) = 0
  BY FS_EmptySet
<1>2. Cardinality(S) \in Nat /\ Cardinality(T) \in Nat
  BY FS_CardinalityType
<1>3. /\ IsFiniteSet(S \cup T)
      /\ Cardinality(S \cup T) = Cardinality(S) + Cardinality(T) - Cardinality(S \cap T)
  BY FS_Union
<1> QED BY <1>1, <1>2, <1>3

(* There are finitely many threads to count.                               *)
LEMMA AppThreadFinite ==
  ASSUME NEW T \in SUBSET AppThread
  PROVE  IsFiniteSet(T) /\ Cardinality(T) \in Nat
<1>1. IsFiniteSet({"monitor"})
  BY FS_Singleton
<1>2. IsFiniteSet({"monitor"} \cup {"processor"})
  BY <1>1, FS_AddElement
<1>3. IsFiniteSet(({"monitor"} \cup {"processor"}) \cup {"writeback"})
  BY <1>2, FS_AddElement
<1>4. AppThread = ({"monitor"} \cup {"processor"}) \cup {"writeback"}
  BY DEF AppThread
<1>5. IsFiniteSet(T)
  BY <1>3, <1>4, FS_Subset
<1> QED BY <1>5, FS_CardinalityType

(* Threads and the blocks in their hands are as many.                       *)
LEMMA HandsCounted ==
  ASSUME BlocksTyped, BlocksApart
  PROVE  IsFiniteSet(InHand) /\ Cardinality(InHand) = HandCount /\ HandCount \in Nat
<1> DEFINE T == {t \in AppThread : hand[t] # None}
           f == [t \in T |-> hand[t]]
<1>1. T \in SUBSET AppThread
  OBVIOUS
<1>2. IsFiniteSet(T) /\ Cardinality(T) \in Nat
  BY <1>1, AppThreadFinite
<1>3. f \in Bijection(T, InHand)
  BY DEF BlocksTyped, BlocksApart, InHand, Bijection, Injection, Surjection, IsInjective
<1>4. ExistsBijection(T, InHand)
  BY <1>3 DEF ExistsBijection
<1> QED BY <1>2, <1>4, FS_Bijection DEF HandCount

(* The counts follow from the places being disjoint.                        *)
LEMMA InOnePlace == BlocksInv => EveryBlockInOnePlace
<1> SUFFICES ASSUME BlocksInv PROVE EveryBlockInOnePlace
  OBVIOUS
<1> USE DEF BlocksInv, BlocksTyped, BlocksApart
<1> DEFINE I == InQueue(incoming)
           O == InQueue(outgoing)
<1>1. IsFiniteSet(I) /\ Cardinality(I) = Len(incoming) /\ Len(incoming) \in Nat
  BY DistinctCount, LenProperties
<1>2. IsFiniteSet(O) /\ Cardinality(O) = Len(outgoing) /\ Len(outgoing) \in Nat
  BY DistinctCount, LenProperties
<1>3. IsFiniteSet(InHand) /\ Cardinality(InHand) = HandCount /\ HandCount \in Nat
  BY HandsCounted
<1>4. IsFiniteSet(free) /\ Cardinality(free) \in Nat
  BY ProdConsumerAssumption, FS_Subset, FS_CardinalityType
<1>5. free \cap I = {} /\ (free \cup I) \cap O = {}
  OBVIOUS
<1>6. (free \cup I \cup O) \cap InHand = {}
  BY DEF InHand
<1>7. IsFiniteSet(free \cup I) /\ Cardinality(free \cup I) = Cardinality(free) + Len(incoming)
  BY <1>1, <1>4, <1>5, DisjointUnion
<1>8. /\ IsFiniteSet(free \cup I \cup O)
      /\ Cardinality(free \cup I \cup O) = Cardinality(free) + Len(incoming) + Len(outgoing)
  <2>1. /\ IsFiniteSet((free \cup I) \cup O)
        /\ Cardinality((free \cup I) \cup O) = Cardinality(free \cup I) + Cardinality(O)
    BY ONLY <1>2, <1>5, <1>7, DisjointUnion
  <2> QED BY <1>2, <1>7, <2>1
<1>9. Cardinality(free \cup I \cup O \cup InHand)
        = Cardinality(free) + Len(incoming) + Len(outgoing) + HandCount
  BY <1>1, <1>2, <1>3, <1>4, <1>6, <1>8, DisjointUnion
<1> QED BY <1>9 DEF EveryBlockInOnePlace, BlocksComplete, PendingCounted, PendingThreads

(* Every block has a node: k_queue_alloc_append never fails.                *)
LEMMA NodeForEveryBlock ==
  ASSUME BlocksInv, NEW t \in AppThread, hand[t] # None
  PROVE  /\ alloc_append(incoming, hand[t]) = Append(incoming, hand[t])
         /\ alloc_append(outgoing, hand[t]) = Append(outgoing, hand[t])
<1>1. /\ Len(incoming) \in Nat /\ Len(outgoing) \in Nat
      /\ Cardinality(free) \in Nat /\ Cardinality(Block) \in Nat
  BY ProdConsumerAssumption, LenProperties, FS_Subset, FS_CardinalityType DEF BlocksInv, BlocksTyped
<1>2. HandCount \in Nat /\ HandCount # 0
  <2>1. {u \in AppThread : hand[u] # None} \in SUBSET AppThread
    OBVIOUS
  <2>2. {u \in AppThread : hand[u] # None} # {}
    OBVIOUS
  <2> QED BY <2>1, <2>2, AppThreadFinite, FS_EmptySet DEF HandCount
<1>3. Cardinality(free) + Len(incoming) + Len(outgoing) + HandCount = Cardinality(Block)
  BY InOnePlace DEF EveryBlockInOnePlace
<1> QED BY <1>1, <1>2, <1>3, ProdConsumerAssumption DEF alloc_append

-----------------------------------------------------------------------------
(* Type correctness *)

(* Every step keeps the types.                                             *)
LEMMA NextBlocksTyped == BlocksInv /\ [ProdConsumerNext]_blockVars => BlocksTyped'
<1> SUFFICES ASSUME BlocksInv, [ProdConsumerNext]_blockVars PROVE BlocksTyped'
  OBVIOUS
<1> USE ProdConsumerAssumption DEF BlocksInv, BlocksTyped
<1>1. CASE sample_driver_foo_isr
  <2>1. counted' \in Stamp
    BY <1>1 DEF sample_driver_foo_isr, Stamp
  <2>2. mqueue' \in Seq(Stamp) /\ Len(mqueue') <= MAX_MSGS
    BY <1>1, AppendProperties DEF sample_driver_foo_isr
  <2> QED BY <1>1, <2>1, <2>2 DEF sample_driver_foo_isr, pool, blockQueues
<1>2. CASE app_a_entry
  BY <1>2 DEF app_a_entry, pool, blockQueues, Places
<1>3. CASE MonitorStart
  BY <1>3 DEF MonitorStart, pool, blockQueues, Places
<1>4. CASE MonitorAlloc
  BY <1>4 DEF MonitorAlloc, Go, driver, blockQueues, Places, AppThread
<1>5. CASE MonitorGet
  <2>1. /\ Head(mqueue) \in Stamp /\ Tail(mqueue) \in Seq(Stamp)
        /\ Len(Tail(mqueue)) <= MAX_MSGS
    BY <1>5, HeadTailProperties, LenProperties DEF MonitorGet
  <2> QED BY <1>5, <2>1 DEF MonitorGet, driver, blockQueues, Places
<1>6. CASE MonitorAppend
  <2>1. hand["monitor"] \in Block /\ "monitor" \in AppThread
    BY <1>6 DEF MonitorAppend, HandsFull, AppThread
  <2>2. incoming' \in Seq(Block)
    BY <1>6, <2>1, AppendProperties DEF MonitorAppend, alloc_append
  <2>3. Again("monitor", "alloc") \in Places
    BY DEF Again, Places
  <2> QED BY <1>6, <2>1, <2>2, <2>3 DEF MonitorAppend, Go, driver, pool
<1>7. CASE MonitorStop
  BY <1>7 DEF MonitorStop, pool, blockQueues, Places
<1>8. CASE ProcessorAwake
  BY <1>8 DEF ProcessorAwake, driver, pool, blockQueues, Places
<1>9. CASE ProcessorGet
  BY <1>9, GetQueue DEF ProcessorGet, Go, driver, pool, Places
<1>10. CASE ProcessorAppend
  <2>1. hand["processor"] \in Block /\ "processor" \in AppThread
    BY <1>10 DEF ProcessorAppend, HandsFull, AppThread
  <2>2. outgoing' \in Seq(Block)
    BY <1>10, <2>1, AppendProperties DEF ProcessorAppend, alloc_append
  <2>3. Again("processor", "get") \in Places
    BY DEF Again, Places
  <2> QED BY <1>10, <2>1, <2>2, <2>3 DEF ProcessorAppend, Go, driver, pool
<1>11. CASE WritebackGet
  BY <1>11, GetQueue DEF WritebackGet, Go, driver, pool, Places
<1>12. CASE WritebackWrite
  <2>1. hand["writeback"] \in Block /\ "writeback" \in AppThread
    BY <1>12 DEF WritebackWrite, HandsFull, AppThread
  <2>2. Again("writeback", "get") \in Places
    BY DEF Again, Places
  <2> QED BY <1>12, <2>1, <2>2 DEF WritebackWrite, Go, driver, blockQueues
<1>13. CASE WritebackSuccess
  BY <1>13 DEF WritebackSuccess, driver, pool, blockQueues, Places, AppThread
<1>14. CASE UNCHANGED blockVars
  BY <1>14 DEF blockVars, driver, pool, blockQueues
<1> QED
  BY <1>1, <1>2, <1>3, <1>4, <1>5, <1>6, <1>7, <1>8, <1>9, <1>10, <1>11, <1>12, <1>13, <1>14
  DEF ProdConsumerNext, Monitor, Processor, Writeback

-----------------------------------------------------------------------------
(* The blocks: one lemma per call that moves one.                           *)

Kept == HandsFull /\ BlocksApart /\ BlocksComplete /\ PendingCounted

(* sys_mem_pool_alloc in the monitor.                                       *)
LEMMA AllocKeeps == BlocksInv /\ MonitorAlloc => Kept'
<1> SUFFICES ASSUME BlocksInv, MonitorAlloc PROVE Kept'
  OBVIOUS
<1> USE DEF BlocksInv, BlocksTyped
<1>1. /\ hand["monitor"] = None /\ "monitor" \in AppThread
      /\ UNCHANGED <<incoming, outgoing, pending_count>>
  BY DEF MonitorAlloc, HandsFull, AppThread, blockQueues
<1>2. CASE free = {} /\ place' = [place EXCEPT !["monitor"] = "oops"]
           /\ hand' = [hand EXCEPT !["monitor"] = None] /\ UNCHANGED free
  <2>1. hand' = hand
    BY <1>1, <1>2
  <2>2. HandsFull'
    BY <1>1, <1>2, <2>1 DEF HandsFull, AppThread
  <2>3. UNCHANGED <<free, incoming, outgoing, hand, pending_count>>
    BY <1>1, <1>2, <2>1
  <2>4. BlocksApart'
    BY ONLY <2>3, BlocksApart DEF BlocksApart
  <2>5. BlocksComplete' /\ PendingCounted'
    BY <2>3 DEF BlocksComplete, PendingCounted, PendingThreads, InHand
  <2> QED BY <2>2, <2>4, <2>5 DEF Kept
<1>3. ASSUME NEW b \in free, free' = free \ {b},
             place' = [place EXCEPT !["monitor"] = "get"], hand' = [hand EXCEPT !["monitor"] = b]
      PROVE  Kept'
  <2>1. b # None
    BY ProdConsumerAssumption
  <2>2. HandsFull'
    BY <1>1, <1>3, <2>1 DEF HandsFull, AppThread
  <2>3. BlocksApart'
    BY <1>1, <1>3, <2>1 DEF BlocksApart
  <2>4. InHand' = InHand \cup {b}
    BY <1>1, <1>3, <2>1 DEF InHand
  <2>5. BlocksComplete'
    BY <1>1, <1>3, <2>4 DEF BlocksComplete
  <2>6. PendingThreads' = PendingThreads
    BY <1>3 DEF PendingThreads, AppThread
  <2> QED BY <1>1, <2>2, <2>3, <2>5, <2>6 DEF Kept, PendingCounted
<1> QED BY <1>2, <1>3 DEF MonitorAlloc, Go

(* A thread takes the first block of a queue ...                            *)
LEMMA GetKeeps == BlocksInv /\ (ProcessorGet \/ WritebackGet) => Kept'
<1> SUFFICES ASSUME BlocksInv, ProcessorGet \/ WritebackGet PROVE Kept'
  OBVIOUS
<1> USE DEF BlocksInv, BlocksTyped
<1>1. ASSUME NEW t \in {"processor", "writeback"}, NEW q \in Seq(Block), NEW other \in Seq(Block),
             q # <<>>, hand[t] = None, hand' = [hand EXCEPT ![t] = Head(q)],
             \/ q = incoming /\ other = outgoing /\ incoming' = Tail(q) /\ outgoing' = other
             \/ q = outgoing /\ other = incoming /\ outgoing' = Tail(q) /\ incoming' = other,
             UNCHANGED <<free, pending_count>>
      PROVE  BlocksApart' /\ BlocksComplete' /\ PendingCounted'
  <2>1. /\ Head(q) \in Block /\ Head(q) # None /\ Len(Tail(q)) + 1 = Len(q)
        /\ Len(q) \in Nat /\ Len(Tail(q)) \in Nat /\ Len(other) \in Nat
        /\ InQueue(q) = InQueue(Tail(q)) \cup {Head(q)}
        /\ Distinct(q) => Head(q) \notin InQueue(Tail(q)) /\ Distinct(Tail(q))
    <3>1. Len(other) \in Nat
      BY ONLY <1>1, LenProperties
    <3>2. /\ Head(q) \in Block /\ Len(Tail(q)) + 1 = Len(q)
          /\ Len(q) \in Nat /\ Len(Tail(q)) \in Nat
          /\ InQueue(q) = InQueue(Tail(q)) \cup {Head(q)}
          /\ Distinct(q) => Head(q) \notin InQueue(Tail(q)) /\ Distinct(Tail(q))
      BY ONLY <1>1, GetQueue
    <3>3. Head(q) # None
      BY ONLY <3>2, ProdConsumerAssumption
    <3> QED BY ONLY <3>1, <3>2, <3>3
  <2>2. t \in AppThread
    BY DEF AppThread
  <2>3. BlocksApart'
    BY <1>1, <2>1, <2>2 DEF BlocksApart
  <2>4. InHand' = InHand \cup {Head(q)}
    BY <1>1, <2>1, <2>2 DEF InHand
  <2>5. BlocksComplete'
    BY <1>1, <2>1, <2>4 DEF BlocksComplete
  <2>6. PendingThreads' = PendingThreads \cup {t} /\ t \notin PendingThreads
    BY <1>1, <2>1 DEF PendingThreads, AppThread
  <2>7. PendingThreads \in SUBSET AppThread
    BY DEF PendingThreads, AppThread
  <2>8. Cardinality(PendingThreads') = Cardinality(PendingThreads) + 1
        /\ Cardinality(PendingThreads) \in Nat
    BY <2>6, <2>7, AppThreadFinite, FS_AddElement
  <2>9. PendingCounted'
    <3> DEFINE n == Cardinality(PendingThreads)
    <3>1. pending_count' = Len(incoming) + Len(outgoing) + n
      BY <1>1 DEF PendingCounted
    <3>2. /\ Len(Tail(q)) + 1 = Len(q) /\ Len(q) \in Nat /\ Len(Tail(q)) \in Nat
          /\ Len(other) \in Nat /\ n \in Nat /\ Cardinality(PendingThreads') = n + 1
      BY ONLY <2>1, <2>8
    <3>3. /\ Len(incoming) + Len(outgoing) = Len(q) + Len(other)
          /\ Len(incoming') + Len(outgoing') = Len(Tail(q)) + Len(other)
          /\ Len(incoming') \in Nat /\ Len(outgoing') \in Nat
          /\ Len(incoming) \in Nat /\ Len(outgoing) \in Nat
      <4>1. CASE q = incoming /\ other = outgoing /\ incoming' = Tail(q) /\ outgoing' = other
        BY ONLY <3>2, <4>1
      <4>2. CASE q = outgoing /\ other = incoming /\ outgoing' = Tail(q) /\ incoming' = other
        BY ONLY <3>2, <4>2
      <4> QED BY <1>1, <4>1, <4>2
    <3> HIDE DEF n
    <3>4. Len(incoming) + Len(outgoing) + n = Len(incoming') + Len(outgoing') + (n + 1)
      <4> DEFINE a == Len(incoming)
                 b == Len(outgoing)
                 c == Len(incoming')
                 d == Len(outgoing')
                 e == Len(q)
                 f == Len(Tail(q))
                 g == Len(other)
      <4>1. /\ a \in Nat /\ b \in Nat /\ c \in Nat /\ d \in Nat /\ e \in Nat
            /\ f \in Nat /\ g \in Nat /\ n \in Nat
            /\ a + b = e + g /\ c + d = f + g /\ f + 1 = e
        BY ONLY <3>2, <3>3
      <4> HIDE DEF a, b, c, d, e, f, g
      <4>2. a + b + n = c + d + (n + 1)
        BY ONLY <4>1
      <4> QED BY ONLY <4>2 DEF a, b, c, d
    <3> QED BY ONLY <3>1, <3>2, <3>4 DEF PendingCounted
  <2> QED BY <2>3, <2>5, <2>9
<1>2. CASE ProcessorGet
  <2>1. hand["processor"] = None
    BY <1>2 DEF ProcessorGet, HandsFull
  <2>2. HandsFull'
    BY <1>2, <2>1, GetQueue, ProdConsumerAssumption DEF ProcessorGet, Go, HandsFull, AppThread
  <2>3. /\ incoming # <<>> /\ hand' = [hand EXCEPT !["processor"] = Head(incoming)]
        /\ incoming' = Tail(incoming) /\ UNCHANGED <<outgoing, free, pending_count>>
    BY <1>2 DEF ProcessorGet, Go, pool
  <2>4. BlocksApart' /\ BlocksComplete' /\ PendingCounted'
    BY <1>1, <2>1, <2>3
  <2> QED BY <2>2, <2>4 DEF Kept
<1>3. CASE WritebackGet
  <2>1. hand["writeback"] = None
    BY <1>3 DEF WritebackGet, HandsFull
  <2>2. HandsFull'
    BY <1>3, <2>1, GetQueue, ProdConsumerAssumption DEF WritebackGet, Go, HandsFull, AppThread
  <2>3. /\ outgoing # <<>> /\ hand' = [hand EXCEPT !["writeback"] = Head(outgoing)]
        /\ outgoing' = Tail(outgoing) /\ UNCHANGED <<incoming, free, pending_count>>
    BY <1>3 DEF WritebackGet, Go, pool
  <2>4. BlocksApart' /\ BlocksComplete' /\ PendingCounted'
    BY <1>1, <2>1, <2>3
  <2> QED BY <2>2, <2>4 DEF Kept
<1> QED BY <1>2, <1>3
(* ... and puts a block at the end of a queue; for every block there is a   *)
(* node.                                                                   *)
LEMMA AppendKeeps == BlocksInv /\ (MonitorAppend \/ ProcessorAppend) => Kept'
<1> SUFFICES ASSUME BlocksInv, MonitorAppend \/ ProcessorAppend PROVE Kept'
  OBVIOUS
<1> USE DEF BlocksInv, BlocksTyped
<1>1. ASSUME NEW t \in AppThread, NEW q \in Seq(Block), NEW other \in Seq(Block),
             hand[t] # None, hand' = [hand EXCEPT ![t] = None],
             \/ q = incoming /\ other = outgoing /\ incoming' = Append(q, hand[t]) /\ outgoing' = other
             \/ q = outgoing /\ other = incoming /\ outgoing' = Append(q, hand[t]) /\ incoming' = other,
             UNCHANGED free
      PROVE  BlocksApart' /\ BlocksComplete'
  <2> DEFINE b == hand[t]
  <2>1. b \in Block /\ b \notin InQueue(q)
    BY <1>1 DEF BlocksApart
  <2>2. /\ InQueue(Append(q, b)) = InQueue(q) \cup {b}
        /\ Distinct(q) => Distinct(Append(q, b))
    BY ONLY <1>1, <2>1, AppendQueue
  <2>3. BlocksApart'
    <3>1. /\ Distinct(incoming') /\ Distinct(outgoing')
          /\ InQueue(incoming') \cap InQueue(outgoing') = {}
      <4>1. /\ Distinct(q) /\ Distinct(other) /\ InQueue(q) \cap InQueue(other) = {}
            /\ b \notin InQueue(other)
        BY <1>1 DEF BlocksApart
      <4>2. /\ Distinct(Append(q, b)) /\ InQueue(Append(q, b)) \cap InQueue(other) = {}
        BY ONLY <2>2, <4>1
      <4> QED BY ONLY <1>1, <4>1, <4>2
    <3>2. /\ InQueue(incoming') \cup InQueue(outgoing')
               = InQueue(incoming) \cup InQueue(outgoing) \cup {b}
          /\ free' = free
      BY ONLY <1>1, <2>2
    <3>3. b \notin free
      BY <1>1 DEF BlocksApart
    <3>4. \A u \in AppThread : hand'[u] = IF u = t THEN None ELSE hand[u]
      BY <1>1
    <3>5. \A u \in AppThread : hand'[u] # None =>
            hand'[u] \notin free' \cup InQueue(incoming') \cup InQueue(outgoing')
      BY <1>1, <3>2, <3>4 DEF BlocksApart
    <3>6. \A u, v \in AppThread : u # v /\ hand'[u] # None => hand'[u] # hand'[v]
      BY <1>1, <3>4 DEF BlocksApart
    <3> QED BY <3>1, <3>2, <3>3, <3>5, <3>6, BlocksApart DEF BlocksApart
  <2>4. InHand' \cup {b} = InHand
    BY <1>1 DEF InHand, BlocksApart
  <2>5. BlocksComplete'
    <3>1. free \cup InQueue(q) \cup InQueue(other) \cup InHand = Block
      BY <1>1 DEF BlocksComplete
    <3>2. free \cup InQueue(Append(q, b)) \cup InQueue(other) \cup InHand' = Block
      BY ONLY <2>2, <2>4, <3>1
    <3> QED BY <1>1, <3>2 DEF BlocksComplete
  <2> QED BY <2>3, <2>5
<1>2. /\ "monitor" \in AppThread /\ "processor" \in AppThread
      /\ Len(incoming) \in Nat /\ Len(outgoing) \in Nat
  BY LenProperties DEF AppThread
<1>3. PendingThreads \in SUBSET AppThread
  BY DEF PendingThreads, AppThread
<1>4. IsFiniteSet(PendingThreads) /\ Cardinality(PendingThreads) \in Nat
  BY <1>3, AppThreadFinite
<1>5. CASE MonitorAppend
  <2>1. hand["monitor"] # None /\ hand["monitor"] \in Block
    BY <1>2, <1>5 DEF MonitorAppend, HandsFull
  <2>2. incoming' = Append(incoming, hand["monitor"])
    BY <1>2, <1>5, <2>1, NodeForEveryBlock DEF MonitorAppend
  <2>3. /\ hand' = [hand EXCEPT !["monitor"] = None] /\ pending_count' = pending_count + 1
        /\ UNCHANGED <<free, outgoing>>
    BY <1>5 DEF MonitorAppend, Go, pool
  <2>4. HandsFull'
    BY <1>5, <2>3 DEF MonitorAppend, Go, Again, HandsFull, AppThread
  <2>5. BlocksApart' /\ BlocksComplete'
    BY <1>1, <1>2, <2>1, <2>2, <2>3
  <2>6. Len(incoming') = Len(incoming) + 1
    BY ONLY <2>1, <2>2, BlocksInv, AppendProperties DEF BlocksInv, BlocksTyped
  <2>7. PendingThreads' = PendingThreads
    BY <2>3 DEF PendingThreads, AppThread
  <2>8. PendingCounted'
    BY <1>2, <1>4, <2>3, <2>6, <2>7 DEF PendingCounted
  <2> QED BY <2>4, <2>5, <2>8 DEF Kept
<1>6. CASE ProcessorAppend
  <2>1. hand["processor"] # None /\ hand["processor"] \in Block
    BY <1>2, <1>6 DEF ProcessorAppend, HandsFull
  <2>2. outgoing' = Append(outgoing, hand["processor"])
    BY <1>2, <1>6, <2>1, NodeForEveryBlock DEF ProcessorAppend
  <2>3. /\ hand' = [hand EXCEPT !["processor"] = None]
        /\ UNCHANGED <<free, incoming, pending_count>>
    BY <1>6 DEF ProcessorAppend, Go, pool
  <2>4. HandsFull'
    BY <1>6, <2>3 DEF ProcessorAppend, Go, Again, HandsFull, AppThread
  <2>5. BlocksApart' /\ BlocksComplete'
    BY <1>1, <1>2, <2>1, <2>2, <2>3
  <2>6. Len(outgoing') = Len(outgoing) + 1
    BY ONLY <2>1, <2>2, BlocksInv, AppendProperties DEF BlocksInv, BlocksTyped
  <2>7. PendingThreads' = PendingThreads \ {"processor"} /\ "processor" \in PendingThreads
    BY <2>1, <2>3 DEF PendingThreads, AppThread
  <2>8. Cardinality(PendingThreads') = Cardinality(PendingThreads) - 1
    BY ONLY <1>4, <2>7, FS_RemoveElement
  <2>9. PendingCounted'
    BY <1>2, <1>4, <2>3, <2>6, <2>8 DEF PendingCounted
  <2> QED BY <2>4, <2>5, <2>9 DEF Kept
<1> QED BY <1>5, <1>6

(* sys_mem_pool_free in the writeback thread.                               *)
LEMMA WriteKeeps == BlocksInv /\ WritebackWrite => Kept'
<1> SUFFICES ASSUME BlocksInv, WritebackWrite PROVE Kept'
  OBVIOUS
<1> USE DEF BlocksInv, BlocksTyped
<1> DEFINE b == hand["writeback"]
<1>1. /\ "writeback" \in AppThread /\ b # None /\ b \in Block
      /\ Len(incoming) \in Nat /\ Len(outgoing) \in Nat
  BY LenProperties DEF WritebackWrite, HandsFull, AppThread
<1>2. /\ hand' = [hand EXCEPT !["writeback"] = None] /\ free' = free \cup {b}
      /\ pending_count' = pending_count - 1 /\ UNCHANGED <<incoming, outgoing>>
  BY DEF WritebackWrite, Go, blockQueues
<1>3. HandsFull'
  BY <1>2 DEF WritebackWrite, Go, Again, HandsFull, AppThread
<1>4. BlocksApart'
  BY <1>1, <1>2 DEF BlocksApart
<1>5. InHand' \cup {b} = InHand
  BY <1>1, <1>2 DEF InHand, BlocksApart
<1>6. BlocksComplete'
  BY <1>1, <1>2, <1>5 DEF BlocksComplete
<1>7. PendingThreads \in SUBSET AppThread
  BY DEF PendingThreads, AppThread
<1>8. IsFiniteSet(PendingThreads) /\ Cardinality(PendingThreads) \in Nat
  BY <1>7, AppThreadFinite
<1>9. PendingThreads' = PendingThreads \ {"writeback"} /\ "writeback" \in PendingThreads
  BY <1>1, <1>2 DEF PendingThreads, AppThread
<1>10. Cardinality(PendingThreads') = Cardinality(PendingThreads) - 1
  BY ONLY <1>8, <1>9, FS_RemoveElement
<1>11. PendingCounted'
  BY <1>1, <1>2, <1>8, <1>10 DEF PendingCounted
<1> QED BY <1>3, <1>4, <1>6, <1>11 DEF Kept

(* The other actions move no block.                                         *)
LEMMA OthersKeep ==
  ASSUME BlocksInv, HandsFull', UNCHANGED <<free, incoming, outgoing, hand, pending_count>>
  PROVE  Kept'
<1>1. BlocksApart'
  BY DEF BlocksInv, BlocksApart
<1>2. BlocksComplete' /\ PendingCounted'
  BY DEF BlocksInv, BlocksComplete, PendingCounted, PendingThreads, InHand
<1> QED BY <1>1, <1>2 DEF Kept

(* Every step keeps the blocks in their places.                            *)
LEMMA NextKeeps == BlocksInv /\ [ProdConsumerNext]_blockVars => Kept'
<1> SUFFICES ASSUME BlocksInv, [ProdConsumerNext]_blockVars PROVE Kept'
  OBVIOUS
<1>1. CASE MonitorAlloc
  BY <1>1, AllocKeeps
<1>2. CASE ProcessorGet \/ WritebackGet
  BY <1>2, GetKeeps
<1>3. CASE MonitorAppend \/ ProcessorAppend
  BY <1>3, AppendKeeps
<1>4. CASE WritebackWrite
  BY <1>4, WriteKeeps
<1>5. CASE sample_driver_foo_isr \/ UNCHANGED blockVars
  BY <1>5, OthersKeep DEF sample_driver_foo_isr, blockVars, pool, blockQueues, BlocksInv, HandsFull
<1>6. CASE app_a_entry \/ MonitorStart \/ MonitorGet \/ MonitorStop
  <2>1. UNCHANGED <<free, incoming, outgoing, hand, pending_count>>
    BY <1>6 DEF app_a_entry, MonitorStart, MonitorGet, MonitorStop, pool, blockQueues
  <2>2. HandsFull'
    <3>1. CASE app_a_entry
      BY <2>1, <3>1 DEF app_a_entry, BlocksInv, BlocksTyped, HandsFull, AppThread
    <3>2. CASE MonitorStart
      BY <2>1, <3>2 DEF MonitorStart, BlocksInv, BlocksTyped, HandsFull, AppThread
    <3>3. CASE MonitorGet
      BY <2>1, <3>3 DEF MonitorGet, BlocksInv, BlocksTyped, HandsFull, AppThread
    <3>4. CASE MonitorStop
      BY <2>1, <3>4 DEF MonitorStop, BlocksInv, BlocksTyped, HandsFull, AppThread
    <3> QED BY <1>6, <3>1, <3>2, <3>3, <3>4
  <2> QED BY <2>1, <2>2, OthersKeep
<1>7. CASE ProcessorAwake \/ WritebackSuccess
  <2>1. UNCHANGED <<free, incoming, outgoing, hand, pending_count>>
    BY <1>7 DEF ProcessorAwake, WritebackSuccess, pool, blockQueues
  <2>2. HandsFull'
    BY <1>7, <2>1 DEF ProcessorAwake, WritebackSuccess, BlocksInv, BlocksTyped, HandsFull, AppThread
  <2> QED BY <2>1, <2>2, OthersKeep
<1> QED
  BY <1>1, <1>2, <1>3, <1>4, <1>5, <1>6, <1>7 DEF ProdConsumerNext, Monitor, Processor, Writeback

(* At the start every block is free.                                       *)
LEMMA InitBlocks == ProdConsumerInit => BlocksInv
<1> SUFFICES ASSUME ProdConsumerInit PROVE BlocksInv
  OBVIOUS
<1> USE ProdConsumerAssumption DEF ProdConsumerInit
<1>1. BlocksTyped
  <2>1. /\ mqueue \in Seq(Stamp) /\ Len(mqueue) = 0
        /\ incoming \in Seq(Block) /\ outgoing \in Seq(Block)
    BY EmptySeq
  <2>2. place \in [AppThread -> Places]
    BY DEF AppThread, Places
  <2>3. counted \in Stamp /\ written \in Stamp /\ content \in [Block -> Stamp]
    BY DEF Stamp
  <2>4. cb \in BOOLEAN /\ active \in BOOLEAN
    BY ONLY ProdConsumerInit DEF ProdConsumerInit
  <2>5. /\ free \in SUBSET Block /\ hand \in [AppThread -> Block \cup {None}]
        /\ loops \in [AppThread -> Nat] /\ Len(mqueue) <= MAX_MSGS
    BY <2>1
  <2> QED BY ONLY <2>1, <2>2, <2>3, <2>4, <2>5 DEF BlocksTyped
<1>2. HandsFull
  BY DEF HandsFull, AppThread
<1>3. InQueue(<<>>) = {} /\ Distinct(<<>>) /\ InHand = {}
  BY DEF InQueue, Distinct, InHand
<1>4. BlocksApart /\ BlocksComplete
  BY <1>3 DEF BlocksApart, BlocksComplete
<1>5. PendingThreads = {}
  BY DEF PendingThreads, AppThread
<1>6. PendingCounted
  BY <1>5, FS_EmptySet DEF PendingCounted
<1> QED BY <1>1, <1>2, <1>4, <1>6 DEF BlocksInv

(* The program without the fairness that only its liveness needs.           *)
BlocksSpec == ProdConsumerInit /\ [][ProdConsumerNext]_blockVars

(* So the invariant holds throughout.                                      *)
LEMMA BlocksInvariance == BlocksSpec => []BlocksInv
<1>1. BlocksInv /\ [ProdConsumerNext]_blockVars => BlocksInv'
  BY NextBlocksTyped, NextKeeps DEF BlocksInv, Kept
<1> QED BY InitBlocks, <1>1, PTL DEF BlocksSpec

(* Nothing is lost in the shared pool: whatever the interrupt and the three *)
(* threads do, every block is free, in one queue once, or in one thread's  *)
(* hands, and pending_count is the number of blocks appended by the monitor*)
(* and not yet freed.                                                      *)
THEOREM NoBlockLost == BlocksSpec => []EveryBlockInOnePlace
BY BlocksInvariance, InOnePlace, PTL
-----------------------------------------------------------------------------
(***************************************************************************)
(* The refinement.  A datum moves along the six parts of the line without   *)
(* changing its place in it: a part takes it where the next one gives it.  *)
(***************************************************************************)

(* From the head of the part behind into an empty part ...                  *)
LEMMA ShiftOut ==
  ASSUME NEW S, NEW x \in S, NEW A \in Seq(S), NEW B \in Seq(S)
  PROVE  (A \o <<>>) \o (<<x>> \o B) = (A \o <<x>>) \o B
<1>1. <<x>> \in Seq(S)
  OBVIOUS
<1>2. A \o <<>> = A /\ (A \o <<x>>) \o B = A \o (<<x>> \o B)
  BY ONLY <1>1, ConcatEmptySeq, ConcatAssociative
<1> QED BY ONLY <1>2

(* ... and from there to the end of the part in front.                      *)
LEMMA ShiftIn ==
  ASSUME NEW S, NEW x \in S, NEW A \in Seq(S), NEW B \in Seq(S)
  PROVE  (A \o Append(B, x)) \o <<>> = (A \o B) \o <<x>>
<1>1. <<x>> \in Seq(S)
  OBVIOUS
<1>2. B \o <<x>> \in Seq(S) /\ Append(B, x) = B \o <<x>>
  BY ONLY <1>1, ConcatProperties, AppendIsConcat
<1>3. A \o (B \o <<x>>) \in Seq(S)
  BY ONLY <1>2, ConcatProperties
<1>4. (A \o (B \o <<x>>)) \o <<>> = A \o (B \o <<x>>)
  BY ONLY <1>3, ConcatEmptySeq
<1>5. (A \o B) \o <<x>> = A \o (B \o <<x>>)
  BY ONLY <1>1, ConcatAssociative
<1> QED BY ONLY <1>2, <1>4, <1>5

(* At the two ends of the line.                                             *)
LEMMA ShiftEnds ==
  ASSUME NEW S, NEW x \in S, NEW A \in Seq(S), NEW B \in Seq(S)
  PROVE  /\ A \o Append(B, x) = Append(A \o B, x)
         /\ (<<x>> \o A) \o B = <<x>> \o (A \o B)
<1>1. <<x>> \in Seq(S)
  OBVIOUS
<1>2. A \o B \in Seq(S)
  BY ONLY ConcatProperties
<1>3. /\ Append(B, x) = B \o <<x>> /\ Append(A \o B, x) = (A \o B) \o <<x>>
      /\ (A \o B) \o <<x>> = A \o (B \o <<x>>)
  <2>1. Append(B, x) = B \o <<x>>
    BY ONLY AppendIsConcat
  <2>2. Append(A \o B, x) = (A \o B) \o <<x>>
    BY ONLY <1>2, AppendIsConcat
  <2>3. (A \o B) \o <<x>> = A \o (B \o <<x>>)
    BY ONLY <1>1, ConcatAssociative
  <2> QED BY ONLY <2>1, <2>2, <2>3
<1>4. (<<x>> \o A) \o B = <<x>> \o (A \o B)
  BY ONLY <1>1, ConcatAssociative
<1> QED BY ONLY <1>3, <1>4

(* The data of a queue of blocks.                                          *)
LEMMA DataTyped ==
  ASSUME BlocksTyped, NEW q \in Seq(Block)
  PROVE  Data(q) \in Seq(Stamp) /\ Len(Data(q)) = Len(q)
<1>1. Len(q) \in Nat /\ DOMAIN q = 1 .. Len(q) /\ \A i \in 1 .. Len(q) : q[i] \in Block
  BY LenProperties, ElementOfSeq
<1>2. Data(q) = [i \in 1 .. Len(q) |-> content[q[i]]]
  BY <1>1 DEF Data
<1> QED BY <1>1, <1>2 DEF BlocksTyped

WritebackHolds == DataInHand("writeback", "write")
ProcessorHolds == DataInHand("processor", "append")
MonitorHolds == DataInHand("monitor", "append")

PartsTyped ==
  /\ WritebackHolds \in Seq(Stamp) /\ ProcessorHolds \in Seq(Stamp) /\ MonitorHolds \in Seq(Stamp)
  /\ Data(outgoing) \in Seq(Stamp) /\ Data(incoming) \in Seq(Stamp) /\ mqueue \in Seq(Stamp)

(* The six parts of the line are sequences of data.                        *)
LEMMA LineTyped == BlocksInv => PartsTyped
<1> SUFFICES ASSUME BlocksInv PROVE PartsTyped
  OBVIOUS
<1> USE DEF BlocksInv, BlocksTyped
<1>1. Data(outgoing) \in Seq(Stamp) /\ Data(incoming) \in Seq(Stamp)
  BY DataTyped
<1>2. ASSUME NEW t \in AppThread, NEW there, place[t] = there => hand[t] # None
      PROVE  DataInHand(t, there) \in Seq(Stamp)
  BY <1>2 DEF DataInHand
<1>3. /\ WritebackHolds \in Seq(Stamp) /\ ProcessorHolds \in Seq(Stamp)
      /\ MonitorHolds \in Seq(Stamp)
  BY <1>2 DEF HandsFull, AppThread, WritebackHolds, ProcessorHolds, MonitorHolds
<1> QED BY <1>1, <1>3 DEF PartsTyped

(* The line is never longer than the message queue and the pool together.   *)
LEMMA RoomInTheLine ==
  ASSUME BlocksInv
  PROVE  /\ DataOnTheWay \in Seq(Stamp)
         /\ Len(DataOnTheWay) <= Len(mqueue) + Cardinality(Block)
<1> USE DEF BlocksInv, BlocksTyped
<1> DEFINE W == WritebackHolds
           P == ProcessorHolds
           M == MonitorHolds
           O == Data(outgoing)
           I == Data(incoming)
           Busy(t, there) == {u \in {t} : place[u] = there}
           A == Busy("writeback", "write")
           B == Busy("processor", "append")
           C == Busy("monitor", "append")
           Full == {t \in AppThread : hand[t] # None}
<1>1. PartsTyped
  BY LineTyped
<1>2. ASSUME NEW t, NEW there
      PROVE  /\ IsFiniteSet(Busy(t, there))
             /\ Cardinality(Busy(t, there)) = Len(DataInHand(t, there))
  <2>1. CASE place[t] = there
    <3>1. Busy(t, there) = {t} /\ Len(DataInHand(t, there)) = 1
      BY <2>1 DEF DataInHand
    <3> QED BY ONLY <3>1, FS_Singleton
  <2>2. CASE place[t] # there
    <3>1. Busy(t, there) = {} /\ Len(DataInHand(t, there)) = 0
      BY <2>2 DEF DataInHand
    <3> QED BY ONLY <3>1, FS_EmptySet
  <2> QED BY <2>1, <2>2
<1>3. /\ IsFiniteSet(A) /\ Cardinality(A) = Len(W) /\ IsFiniteSet(B) /\ Cardinality(B) = Len(P)
      /\ IsFiniteSet(C) /\ Cardinality(C) = Len(M)
  BY ONLY <1>2 DEF WritebackHolds, ProcessorHolds, MonitorHolds
<1>4. A \cap B = {} /\ (A \cup B) \cap C = {} /\ A \cup B \cup C \subseteq Full
  BY DEF AppThread, HandsFull
<1>5. Full \in SUBSET AppThread
  OBVIOUS
<1>6. IsFiniteSet(Full) /\ HandCount \in Nat /\ Cardinality(Full) = HandCount
  BY ONLY <1>5, AppThreadFinite DEF HandCount
<1> HIDE DEF A, B, C, Full
<1>7. /\ IsFiniteSet(A \cup B \cup C)
      /\ Cardinality(A \cup B \cup C) = Len(W) + Len(P) + Len(M)
  <2>1. IsFiniteSet(A) /\ IsFiniteSet(B) /\ IsFiniteSet(C) /\ A \cap B = {}
    BY ONLY <1>3, <1>4
  <2>2. IsFiniteSet(A \cup B) /\ Cardinality(A \cup B) = Cardinality(A) + Cardinality(B)
    BY ONLY <2>1, DisjointUnion
  <2>3. /\ Cardinality((A \cup B) \cup C) = Cardinality(A \cup B) + Cardinality(C)
        /\ IsFiniteSet((A \cup B) \cup C)
    BY ONLY <1>4, <2>1, <2>2, DisjointUnion
  <2> QED BY ONLY <1>3, <2>2, <2>3
<1>8. Len(W) + Len(P) + Len(M) <= HandCount
  BY ONLY <1>4, <1>6, <1>7, FS_Subset
<1>9. Len(O) = Len(outgoing) /\ Len(I) = Len(incoming)
  BY DataTyped
<1>10. /\ DataOnTheWay \in Seq(Stamp)
       /\ Len(DataOnTheWay) = Len(W) + Len(O) + Len(P) + Len(I) + Len(M) + Len(mqueue)
  <2> HIDE DEF W, O, P, I, M
  <2>1. /\ W \in Seq(Stamp) /\ P \in Seq(Stamp) /\ M \in Seq(Stamp)
        /\ O \in Seq(Stamp) /\ I \in Seq(Stamp) /\ mqueue \in Seq(Stamp)
    BY ONLY <1>1 DEF PartsTyped, W, O, P, I, M
  <2>2. W \o O \in Seq(Stamp) /\ Len(W \o O) = Len(W) + Len(O)
    BY ONLY <2>1, ConcatProperties
  <2>3. W \o O \o P \in Seq(Stamp) /\ Len(W \o O \o P) = Len(W \o O) + Len(P)
    BY ONLY <2>1, <2>2, ConcatProperties
  <2>4. W \o O \o P \o I \in Seq(Stamp) /\ Len(W \o O \o P \o I) = Len(W \o O \o P) + Len(I)
    BY ONLY <2>1, <2>3, ConcatProperties
  <2>5. /\ W \o O \o P \o I \o M \in Seq(Stamp)
        /\ Len(W \o O \o P \o I \o M) = Len(W \o O \o P \o I) + Len(M)
    BY ONLY <2>1, <2>4, ConcatProperties
  <2>6. /\ W \o O \o P \o I \o M \o mqueue \in Seq(Stamp)
        /\ Len(W \o O \o P \o I \o M \o mqueue) = Len(W \o O \o P \o I \o M) + Len(mqueue)
    BY ONLY <2>1, <2>5, ConcatProperties
  <2>7. DataOnTheWay = W \o O \o P \o I \o M \o mqueue
    BY DEF DataOnTheWay, WritebackHolds, ProcessorHolds, MonitorHolds, W, O, P, I, M
  <2> QED BY ONLY <2>2, <2>3, <2>4, <2>5, <2>6, <2>7
<1>11. /\ Cardinality(free) + Len(incoming) + Len(outgoing) + HandCount = Cardinality(Block)
       /\ Cardinality(free) \in Nat /\ Cardinality(Block) \in Nat
  BY InOnePlace, ProdConsumerAssumption, FS_Subset, FS_CardinalityType DEF EveryBlockInOnePlace
<1>12. /\ Len(W) \in Nat /\ Len(P) \in Nat /\ Len(M) \in Nat /\ Len(mqueue) \in Nat
       /\ Len(incoming) \in Nat /\ Len(outgoing) \in Nat
  BY <1>1, LenProperties DEF PartsTyped
<1> HIDE DEF W, P, M, O, I
<1>13. Len(W) + Len(O) + Len(P) + Len(I) + Len(M) <= Cardinality(Block)
  BY ONLY <1>6, <1>8, <1>9, <1>11, <1>12
<1>14. Len(DataOnTheWay) <= Len(mqueue) + Cardinality(Block)
  <2> DEFINE n == Len(W) + Len(O) + Len(P) + Len(I) + Len(M)
             all == Len(DataOnTheWay)
  <2>1. n \in Nat /\ all = n + Len(mqueue)
    BY ONLY <1>9, <1>10, <1>12
  <2> HIDE DEF n, all
  <2>2. n <= Cardinality(Block)
    BY ONLY <1>13 DEF n
  <2>3. all <= Len(mqueue) + Cardinality(Block)
    BY ONLY <1>11, <1>12, <2>1, <2>2
  <2> QED BY ONLY <2>3 DEF all
<1> QED BY ONLY <1>10, <1>14
(* Nothing in the line moves: a step that changes neither the data, nor the *)
(* queues, nor which threads hold a datum.                                 *)
Still == /\ UNCHANGED <<content, incoming, outgoing, mqueue, written>>
         /\ WritebackHolds' = WritebackHolds /\ ProcessorHolds' = ProcessorHolds
         /\ MonitorHolds' = MonitorHolds

LEMMA StillStutters == Still => UNCHANGED <<DataOnTheWay, written>>
BY DEF Still, DataOnTheWay, Data, WritebackHolds, ProcessorHolds, MonitorHolds

(* sample_callback lets a datum in, or drops it.                            *)
LEMMA InterruptEnters ==
  ASSUME BlocksInv, sample_driver_foo_isr
  PROVE  Fifo!Enter \/ UNCHANGED <<DataOnTheWay, written>>
<1> USE DEF BlocksInv, BlocksTyped
<1>1. /\ UNCHANGED <<content, incoming, outgoing, place, hand, written>>
      /\ counted \in Stamp
  BY DEF sample_driver_foo_isr, pool, blockQueues
<1>2. CASE mqueue' = mqueue
  <2>1. Still
    BY <1>1, <1>2 DEF Still, WritebackHolds, ProcessorHolds, MonitorHolds, DataInHand
  <2> QED BY <2>1, StillStutters
<1>3. CASE Len(mqueue) < MAX_MSGS /\ mqueue' = Append(mqueue, counted)
  <2> DEFINE A == WritebackHolds \o Data(outgoing) \o ProcessorHolds \o Data(incoming)
                    \o MonitorHolds
  <2>1. DataOnTheWay = A \o mqueue /\ DataOnTheWay' = A \o mqueue'
    BY <1>1 DEF DataOnTheWay, Data, DataInHand, WritebackHolds, ProcessorHolds, MonitorHolds
  <2>2. A \in Seq(Stamp) /\ mqueue \in Seq(Stamp)
    BY LineTyped, ConcatProperties DEF PartsTyped
  <2> HIDE DEF A
  <2>3. DataOnTheWay' = Append(DataOnTheWay, counted)
    <3>1. A \o Append(mqueue, counted) = Append(A \o mqueue, counted)
      BY ONLY <1>1, <2>2, ShiftEnds
    <3> QED BY ONLY <1>3, <2>1, <3>1
  <2>4. /\ Len(DataOnTheWay) \in Nat /\ Len(mqueue) \in Nat /\ Cardinality(Block) \in Nat
        /\ Len(DataOnTheWay) <= Len(mqueue) + Cardinality(Block)
    BY RoomInTheLine, LenProperties, ProdConsumerAssumption, FS_CardinalityType
  <2>5. Len(DataOnTheWay) < MAX_MSGS + Cardinality(Block)
    BY ONLY <1>3, <2>4, ProdConsumerAssumption
  <2> QED BY <1>1, <2>3, <2>5 DEF Fifo!Enter
<1> QED BY <1>2, <1>3 DEF sample_driver_foo_isr

(* The monitor moves a datum from the message queue into its block.         *)
LEMMA MonitorGetStutters ==
  ASSUME BlocksInv, BlocksInv', MonitorGet
  PROVE  UNCHANGED <<DataOnTheWay, written>>
<1> USE DEF BlocksInv, BlocksTyped
<1> DEFINE b == hand["monitor"]
           x == Head(mqueue)
           A == WritebackHolds \o Data(outgoing) \o ProcessorHolds \o Data(incoming)
<1>1. /\ UNCHANGED <<incoming, outgoing, hand, written>> /\ mqueue # <<>>
      /\ mqueue' = Tail(mqueue) /\ content' = [content EXCEPT ![b] = x]
      /\ place["monitor"] = "get" /\ place' = [place EXCEPT !["monitor"] = "append"]
      /\ "monitor" \in AppThread /\ b \in Block /\ b # None
  BY DEF MonitorGet, blockQueues, HandsFull, AppThread
<1>2. \A c \in Block : c # b => content'[c] = content[c]
  BY <1>1
<1>3. ASSUME NEW q \in Seq(Block), b \notin InQueue(q), q' = q
      PROVE  Data(q)' = Data(q)
  BY <1>2, <1>3, LenProperties DEF Data, InQueue
<1>4. Data(outgoing)' = Data(outgoing) /\ Data(incoming)' = Data(incoming)
  BY <1>1, <1>2, LenProperties DEF Data, InQueue, BlocksApart
<1>5. WritebackHolds' = WritebackHolds /\ ProcessorHolds' = ProcessorHolds
  BY <1>1, <1>2
  DEF WritebackHolds, ProcessorHolds, DataInHand, HandsFull, BlocksApart, AppThread
<1>6. MonitorHolds = <<>> /\ MonitorHolds' = <<x>>
  BY <1>1 DEF MonitorHolds, DataInHand
<1>7. /\ x \in Stamp /\ Tail(mqueue) \in Seq(Stamp) /\ mqueue = <<x>> \o Tail(mqueue)
  BY <1>1, HeadTailProperties
<1>8. A \in Seq(Stamp)
  BY LineTyped, ConcatProperties DEF PartsTyped
<1>9. DataOnTheWay = (A \o <<>>) \o (<<x>> \o Tail(mqueue))
  BY <1>6, <1>7 DEF DataOnTheWay, WritebackHolds, ProcessorHolds, MonitorHolds
<1>10. DataOnTheWay' = (A \o <<x>>) \o Tail(mqueue)
  BY <1>1, <1>4, <1>5, <1>6 DEF DataOnTheWay, WritebackHolds, ProcessorHolds, MonitorHolds
<1> HIDE DEF A, x
<1>11. DataOnTheWay' = DataOnTheWay
  <2> DEFINE B == Tail(mqueue)
  <2>1. B \in Seq(Stamp) /\ x \in Stamp
    BY ONLY <1>7
  <2> HIDE DEF B
  <2>2. (A \o <<>>) \o (<<x>> \o B) = (A \o <<x>>) \o B
    BY ONLY <1>8, <2>1, ShiftOut
  <2> QED BY ONLY <1>9, <1>10, <2>2 DEF B
<1> QED BY <1>1, <1>11
(* The monitor queues its block; the processor does the same at its end.    *)
LEMMA AppendStutters ==
  ASSUME BlocksInv, BlocksInv', MonitorAppend \/ ProcessorAppend
  PROVE  UNCHANGED <<DataOnTheWay, written>>
<1> USE DEF BlocksInv, BlocksTyped
<1>1. PartsTyped /\ "monitor" \in AppThread /\ "processor" \in AppThread
  BY LineTyped DEF AppThread
<1>2. ASSUME NEW t \in AppThread, NEW q \in Seq(Block), hand[t] # None, content' = content
      PROVE  /\ content[hand[t]] \in Stamp
             /\ Data(Append(q, hand[t]))= Append(Data(q), content[hand[t]])
  <2>1. hand[t] \in Block
    BY <1>2
  <2>2. Data(Append(q, hand[t])) = Append(Data(q), content[hand[t]])
    BY ONLY <1>2, <2>1, AppendQueue
  <2> QED BY <2>1, <2>2
<1>3. CASE MonitorAppend
  <2> DEFINE x == content[hand["monitor"]]
             A == WritebackHolds \o Data(outgoing) \o ProcessorHolds
             I == Data(incoming)
  <2>1. /\ UNCHANGED <<content, outgoing, mqueue, written>> /\ hand["monitor"] # None
        /\ place["monitor"] = "append" /\ place'["monitor"] # "append"
        /\ \A t \in AppThread : t # "monitor" => hand'[t] = hand[t] /\ place'[t] = place[t]
    BY <1>3 DEF MonitorAppend, Go, Again, pool, HandsFull, AppThread
  <2>2. incoming' = Append(incoming, hand["monitor"])
    BY <1>1, <1>3, <2>1, NodeForEveryBlock DEF MonitorAppend
  <2>3. x \in Stamp /\ Data(incoming)' = Append(I, x)
    BY <1>1, <1>2, <2>1, <2>2 DEF Data
  <2>4. Data(outgoing)' = Data(outgoing)
    BY <2>1 DEF Data
  <2>5. /\ WritebackHolds' = WritebackHolds /\ ProcessorHolds' = ProcessorHolds
        /\ MonitorHolds = <<x>> /\ MonitorHolds' = <<>>
    BY <2>1 DEF WritebackHolds, ProcessorHolds, MonitorHolds, DataInHand, AppThread
  <2>6. DataOnTheWay = ((A \o I) \o <<x>>) \o mqueue
    BY <2>5 DEF DataOnTheWay, WritebackHolds, ProcessorHolds, MonitorHolds
  <2>7. DataOnTheWay' = ((A \o Append(I, x)) \o <<>>) \o mqueue
    BY <2>1, <2>3, <2>4, <2>5 DEF DataOnTheWay, WritebackHolds, ProcessorHolds, MonitorHolds
  <2>8. A \in Seq(Stamp) /\ I \in Seq(Stamp)
    BY <1>1, ConcatProperties DEF PartsTyped
  <2> HIDE DEF A, I, x
  <2>9. (A \o Append(I, x)) \o <<>> = (A \o I) \o <<x>>
    BY ONLY <2>3, <2>8, ShiftIn
  <2> QED BY ONLY <2>1, <2>6, <2>7, <2>9
<1>4. CASE ProcessorAppend
  <2> DEFINE x == content[hand["processor"]]
             A == WritebackHolds
             O == Data(outgoing)
  <2>1. /\ UNCHANGED <<content, incoming, mqueue, written>> /\ hand["processor"] # None
        /\ place["processor"] = "append" /\ place'["processor"] # "append"
        /\ \A t \in AppThread : t # "processor" => hand'[t] = hand[t] /\ place'[t] = place[t]
    BY <1>4 DEF ProcessorAppend, Go, Again, pool, HandsFull, AppThread
  <2>2. outgoing' = Append(outgoing, hand["processor"])
    BY <1>1, <1>4, <2>1, NodeForEveryBlock DEF ProcessorAppend
  <2>3. x \in Stamp /\ Data(outgoing)' = Append(O, x)
    BY <1>1, <1>2, <2>1, <2>2 DEF Data
  <2>4. Data(incoming)' = Data(incoming)
    BY <2>1 DEF Data
  <2>5. /\ WritebackHolds' = WritebackHolds /\ MonitorHolds' = MonitorHolds
        /\ ProcessorHolds = <<x>> /\ ProcessorHolds' = <<>>
    BY <2>1 DEF WritebackHolds, ProcessorHolds, MonitorHolds, DataInHand, AppThread
  <2>6. DataOnTheWay = ((A \o O) \o <<x>>) \o Data(incoming) \o MonitorHolds \o mqueue
    BY <2>5 DEF DataOnTheWay, WritebackHolds, ProcessorHolds, MonitorHolds
  <2>7. DataOnTheWay' = ((A \o Append(O, x)) \o <<>>) \o Data(incoming) \o MonitorHolds \o mqueue
    BY <2>1, <2>3, <2>4, <2>5 DEF DataOnTheWay, WritebackHolds, ProcessorHolds, MonitorHolds
  <2>8. A \in Seq(Stamp) /\ O \in Seq(Stamp)
    BY <1>1 DEF PartsTyped
  <2> HIDE DEF A, O, x
  <2>9. (A \o Append(O, x)) \o <<>> = (A \o O) \o <<x>>
    BY ONLY <2>3, <2>8, ShiftIn
  <2> QED BY ONLY <2>1, <2>6, <2>7, <2>9
<1> QED BY <1>3, <1>4

(* The processor takes a block from the front of a queue; the writeback     *)
(* thread does the same at its end.                                        *)
LEMMA GetStutters ==
  ASSUME BlocksInv, BlocksInv', ProcessorGet \/ WritebackGet
  PROVE  UNCHANGED <<DataOnTheWay, written>>
<1> USE DEF BlocksInv, BlocksTyped
<1>1. PartsTyped
  BY LineTyped
<1>2. ASSUME NEW q \in Seq(Block), q # <<>>
      PROVE  /\ content[Head(q)] \in Stamp /\ Data(Tail(q)) \in Seq(Stamp)
             /\ Data(q) = <<content[Head(q)]>> \o Data(Tail(q))
  <2>1. /\ Head(q) \in Block /\ Tail(q) \in Seq(Block)
        /\ Data(q) = <<content[Head(q)]>> \o Data(Tail(q))
    BY ONLY <1>2, GetQueue
  <2> QED BY <2>1, DataTyped
<1>3. CASE ProcessorGet
  <2> DEFINE x == content[Head(incoming)]
             A == WritebackHolds \o Data(outgoing)
             R == Data(Tail(incoming))
  <2>1. /\ UNCHANGED <<content, outgoing, mqueue, written>> /\ incoming # <<>>
        /\ incoming' = Tail(incoming) /\ hand'["processor"] = Head(incoming)
        /\ place["processor"] = "get" /\ place'["processor"] = "append"
        /\ \A t \in AppThread : t # "processor" => hand'[t] = hand[t] /\ place'[t] = place[t]
    BY <1>3 DEF ProcessorGet, Go, pool, AppThread
  <2>2. x \in Stamp /\ R \in Seq(Stamp) /\ Data(incoming) = <<x>> \o R
    BY <1>2, <2>1
  <2>3. Data(incoming)' = R /\ Data(outgoing)' = Data(outgoing)
    BY <2>1 DEF Data
  <2>4. /\ WritebackHolds' = WritebackHolds /\ MonitorHolds' = MonitorHolds
        /\ ProcessorHolds = <<>> /\ ProcessorHolds' = <<x>>
    BY <2>1 DEF WritebackHolds, ProcessorHolds, MonitorHolds, DataInHand, AppThread
  <2>5. DataOnTheWay = ((A \o <<>>) \o (<<x>> \o R)) \o MonitorHolds \o mqueue
    BY <2>2, <2>4 DEF DataOnTheWay, WritebackHolds, ProcessorHolds, MonitorHolds
  <2>6. DataOnTheWay' = ((A \o <<x>>) \o R) \o MonitorHolds \o mqueue
    BY <2>1, <2>3, <2>4 DEF DataOnTheWay, WritebackHolds, ProcessorHolds, MonitorHolds
  <2>7. A \in Seq(Stamp)
    BY <1>1, ConcatProperties DEF PartsTyped
  <2> HIDE DEF A, R, x
  <2>8. (A \o <<>>) \o (<<x>> \o R) = (A \o <<x>>) \o R
    BY ONLY <2>2, <2>7, ShiftOut
  <2> QED BY ONLY <2>1, <2>5, <2>6, <2>8
<1>4. CASE WritebackGet
  <2> DEFINE x == content[Head(outgoing)]
             R == Data(Tail(outgoing))
  <2>1. /\ UNCHANGED <<content, incoming, mqueue, written>> /\ outgoing # <<>>
        /\ outgoing' = Tail(outgoing) /\ hand'["writeback"] = Head(outgoing)
        /\ place["writeback"] = "get" /\ place'["writeback"] = "write"
        /\ \A t \in AppThread : t # "writeback" => hand'[t] = hand[t] /\ place'[t] = place[t]
    BY <1>4 DEF WritebackGet, Go, pool, AppThread
  <2>2. x \in Stamp /\ R \in Seq(Stamp) /\ Data(outgoing) = <<x>> \o R
    BY <1>2, <2>1
  <2>3. Data(outgoing)' = R /\ Data(incoming)' = Data(incoming)
    BY <2>1 DEF Data
  <2>4. /\ ProcessorHolds' = ProcessorHolds /\ MonitorHolds' = MonitorHolds
        /\ WritebackHolds = <<>> /\ WritebackHolds' = <<x>>
    BY <2>1 DEF WritebackHolds, ProcessorHolds, MonitorHolds, DataInHand, AppThread
  <2>5. DataOnTheWay = (<<>> \o (<<x>> \o R)) \o ProcessorHolds \o Data(incoming)
                         \o MonitorHolds \o mqueue
    BY <2>2, <2>4 DEF DataOnTheWay, WritebackHolds, ProcessorHolds, MonitorHolds
  <2>6. DataOnTheWay' = (<<x>> \o R) \o ProcessorHolds \o Data(incoming) \o MonitorHolds \o mqueue
    BY <2>1, <2>3, <2>4 DEF DataOnTheWay, WritebackHolds, ProcessorHolds, MonitorHolds
  <2>7. <<x>> \o R \in Seq(Stamp)
    BY <2>2, ConcatProperties
  <2>8. <<>> \o (<<x>> \o R) = <<x>> \o R
    BY <2>7, ConcatEmptySeq
  <2> QED BY <2>1, <2>5, <2>6, <2>8
<1> QED BY <1>3, <1>4
(* What the writeback thread writes is the oldest datum.                    *)
LEMMA WriteLeaves ==
  ASSUME BlocksInv, BlocksInv', WritebackWrite
  PROVE  Fifo!Leave
<1> USE DEF BlocksInv, BlocksTyped
<1> DEFINE x == content[hand["writeback"]]
           O == Data(outgoing)
           P == ProcessorHolds
           I == Data(incoming)
           M == MonitorHolds
<1>1. /\ UNCHANGED <<content, incoming, outgoing, mqueue>> /\ written' = x
      /\ hand["writeback"] \in Block
      /\ place["writeback"] = "write" /\ place'["writeback"] # "write"
      /\ \A t \in AppThread : t # "writeback" => hand'[t] = hand[t] /\ place'[t] = place[t]
  BY DEF WritebackWrite, Go, Again, blockQueues, HandsFull, AppThread
<1>2. x \in Stamp
  BY <1>1
<1>3. /\ O \in Seq(Stamp) /\ P \in Seq(Stamp) /\ I \in Seq(Stamp) /\ M \in Seq(Stamp)
      /\ mqueue \in Seq(Stamp)
  BY LineTyped DEF PartsTyped
<1>4. /\ Data(outgoing)' = O /\ Data(incoming)' = I
      /\ ProcessorHolds' = P /\ MonitorHolds' = M
      /\ WritebackHolds = <<x>> /\ WritebackHolds' = <<>>
  BY <1>1 DEF Data, WritebackHolds, ProcessorHolds, MonitorHolds, DataInHand, AppThread
<1>5. DataOnTheWay = <<x>> \o O \o P \o I \o M \o mqueue
  BY <1>4 DEF DataOnTheWay, WritebackHolds, ProcessorHolds, MonitorHolds
<1>6. DataOnTheWay' = <<>> \o O \o P \o I \o M \o mqueue
  BY <1>1, <1>4 DEF DataOnTheWay, WritebackHolds, ProcessorHolds, MonitorHolds
<1> HIDE DEF x, O, P, I, M
<1> DEFINE R1 == O \o P
           R2 == R1 \o I
           R3 == R2 \o M
           R == R3 \o mqueue
<1>7. R1 \in Seq(Stamp) /\ R2 \in Seq(Stamp) /\ R3 \in Seq(Stamp) /\ <<>> \o O = O
  <2>1. R1 \in Seq(Stamp) /\ <<>> \o O = O
    BY ONLY <1>3, ConcatProperties, ConcatEmptySeq
  <2> HIDE DEF R1
  <2>2. R2 \in Seq(Stamp)
    BY ONLY <1>3, <2>1, ConcatProperties
  <2> HIDE DEF R2
  <2>3. R3 \in Seq(Stamp)
    BY ONLY <1>3, <2>2, ConcatProperties
  <2> QED BY ONLY <2>1, <2>2, <2>3
<1>8. <<x>> \o O \o P \o I \o M \o mqueue = <<x>> \o R
  <2>1. (<<x>> \o O) \o P = <<x>> \o R1
    BY ONLY <1>2, <1>3, ShiftEnds
  <2> HIDE DEF R1
  <2>2. (<<x>> \o R1) \o I = <<x>> \o R2
    <3>1. x \in Stamp /\ R1 \in Seq(Stamp) /\ I \in Seq(Stamp)
      BY ONLY <1>2, <1>3, <1>7
    <3> QED BY ONLY <3>1, ShiftEnds
  <2> HIDE DEF R2
  <2>3. (<<x>> \o R2) \o M = <<x>> \o R3
    <3>1. x \in Stamp /\ R2 \in Seq(Stamp) /\ M \in Seq(Stamp)
      BY ONLY <1>2, <1>3, <1>7
    <3> QED BY ONLY <3>1, ShiftEnds
  <2> HIDE DEF R3
  <2>4. (<<x>> \o R3) \o mqueue = <<x>> \o R
    <3>1. x \in Stamp /\ R3 \in Seq(Stamp) /\ mqueue \in Seq(Stamp)
      BY ONLY <1>2, <1>3, <1>7
    <3> QED BY ONLY <3>1, ShiftEnds
  <2> QED BY ONLY <2>1, <2>2, <2>3, <2>4
<1>9. DataOnTheWay = <<x>> \o R /\ DataOnTheWay' = R
  BY ONLY <1>5, <1>6, <1>7, <1>8
<1>10. R \in Seq(Stamp)
  <2> HIDE DEF R3
  <2> QED BY ONLY <1>3, <1>7, ConcatProperties
<1> HIDE DEF R
<1>11. <<x>> \o R # <<>> /\ Head(<<x>> \o R) = x /\ Tail(<<x>> \o R) = R
  BY ONLY <1>2, <1>10
<1> QED BY ONLY <1>1, <1>9, <1>11 DEF Fifo!Leave, x

(* A step of the program is a step of the line.                             *)
LEMMA BlockStepRefines ==
  ASSUME BlocksInv, BlocksInv', [ProdConsumerNext]_blockVars
  PROVE  [Fifo!Next]_<<DataOnTheWay, written>>
<1> USE DEF BlocksInv, BlocksTyped
<1> DEFINE Held == UNCHANGED <<WritebackHolds, ProcessorHolds, MonitorHolds>>
<1>1. CASE sample_driver_foo_isr
  BY <1>1, InterruptEnters DEF Fifo!Next
<1>2. CASE MonitorGet
  BY <1>2, MonitorGetStutters
<1>3. CASE MonitorAppend \/ ProcessorAppend
  BY <1>3, AppendStutters
<1>4. CASE ProcessorGet \/ WritebackGet
  BY <1>4, GetStutters
<1>5. CASE WritebackWrite
  BY <1>5, WriteLeaves DEF Fifo!Next
<1>6. CASE UNCHANGED blockVars
  BY <1>6, StillStutters
  DEF Still, blockVars, pool, blockQueues, WritebackHolds, ProcessorHolds, MonitorHolds, DataInHand
<1>7. ASSUME UNCHANGED <<content, incoming, outgoing, mqueue, written>>, Held
      PROVE  UNCHANGED <<DataOnTheWay, written>>
  BY <1>7, StillStutters DEF Still
<1>8. CASE app_a_entry \/ MonitorStart \/ MonitorAlloc \/ MonitorStop
  <2>1. UNCHANGED <<content, incoming, outgoing, mqueue, written>>
    BY <1>8 DEF app_a_entry, MonitorStart, MonitorAlloc, MonitorStop, driver, pool, blockQueues
  <2>2. Held
    <3>1. CASE app_a_entry
      BY <2>1, <3>1
      DEF app_a_entry, HandsFull, WritebackHolds, ProcessorHolds, MonitorHolds, DataInHand, AppThread
    <3>2. CASE MonitorStart
      BY <2>1, <3>2
      DEF MonitorStart, WritebackHolds, ProcessorHolds, MonitorHolds, DataInHand, AppThread
    <3>3. CASE MonitorAlloc
      BY <2>1, <3>3
      DEF MonitorAlloc, Go, WritebackHolds, ProcessorHolds, MonitorHolds, DataInHand, AppThread
    <3>4. CASE MonitorStop
      BY <2>1, <3>4
      DEF MonitorStop, WritebackHolds, ProcessorHolds, MonitorHolds, DataInHand, AppThread
    <3> QED BY <1>8, <3>1, <3>2, <3>3, <3>4
  <2> QED BY <1>7, <2>1, <2>2
<1>9. CASE ProcessorAwake \/ WritebackSuccess
  <2>1. UNCHANGED <<content, incoming, outgoing, mqueue, written>>
    BY <1>9 DEF ProcessorAwake, WritebackSuccess, pool, blockQueues
  <2>2. Held
    BY <1>9, <2>1
    DEF ProcessorAwake, WritebackSuccess, WritebackHolds, ProcessorHolds, MonitorHolds, DataInHand,
        AppThread
  <2> QED BY <1>7, <2>1, <2>2
<1> QED
  BY <1>1, <1>2, <1>3, <1>4, <1>5, <1>6, <1>8, <1>9 DEF ProdConsumerNext, Monitor, Processor, Writeback

(* The interrupt, the three threads, the two queues and the reused blocks   *)
(* of the pool are one bounded FIFO from the driver back to the driver.    *)
THEOREM PipelineImplemented == BlocksSpec => ImplementsPipeline
<1>1. ProdConsumerInit => Fifo!Init
  <2> SUFFICES ASSUME ProdConsumerInit PROVE Fifo!Init
    OBVIOUS
  <2>1. /\ WritebackHolds = <<>> /\ ProcessorHolds = <<>> /\ MonitorHolds = <<>>
        /\ Data(outgoing) = <<>> /\ Data(incoming) = <<>> /\ mqueue = <<>>
    BY DEF ProdConsumerInit, WritebackHolds, ProcessorHolds, MonitorHolds, DataInHand, Data
  <2>2. DataOnTheWay = <<>>
    BY <2>1 DEF DataOnTheWay, WritebackHolds, ProcessorHolds, MonitorHolds
  <2>3. written \in Stamp
    BY InitBlocks DEF BlocksInv, BlocksTyped
  <2> QED BY <2>2, <2>3 DEF Fifo!Init
<1>2. BlocksInv /\ BlocksInv' /\ [ProdConsumerNext]_blockVars => [Fifo!Next]_<<DataOnTheWay, written>>
  BY BlockStepRefines
<1> QED BY <1>1, <1>2, BlocksInvariance, PTL DEF BlocksSpec, ImplementsPipeline, Fifo!Spec

-----------------------------------------------------------------------------
(* THE SAMPLES OF CMSIS RTOS *)

(***************************************************************************)
(* The inductive invariant of the forks.  A philosopher has a fork exactly  *)
(* where its place says so; a fork lies on the table, a token in its        *)
(* semaphore, or one philosopher has it; nobody waits for a token that is   *)
(* there.                                                                  *)
(***************************************************************************)
Stands == {"unstarted", "starving", "wait_low", "holding", "wait_high", "eating", "dropped"}

HasFork(p, f) == \/ stands[p] \in {"holding", "wait_high", "eating", "dropped"} /\ f = LowFork(p)
                 \/ stands[p] = "eating" /\ f = HighFork(p)

ForksTyped == /\ seated \in 0 .. CMSIS_PHIL
              /\ stands \in [Seat -> Stands]
              /\ tokens \in [Seat -> {0, 1}]

OneHand == \A p, q \in Seat, f \in Seat : HasFork(p, f) /\ HasFork(q, f) => p = q

TokenOrHand == \A f \in Seat : tokens[f] = 0 <=> \E p \in Seat : HasFork(p, f)

WaitsForATakenFork == \A p, f \in Seat : Waits(p, f) => tokens[f] = 0

SeatedInOrder == \A p \in Seat : stands[p] = "unstarted" <=> p >= seated

ForksInv == ForksTyped /\ OneHand /\ TokenOrHand /\ WaitsForATakenFork /\ SeatedInOrder

(***************************************************************************)
(* The inductive invariant of timer_synchronization: where main() is says   *)
(* how far its writes are ahead of the callback's reads, as long as the     *)
(* timer was never early.                                                  *)
(***************************************************************************)
TimerPlaces == {"first", "loop", "check", "blocked", "delay", "exit"}

TimerTyped ==
  /\ sample \in {"philosophers", "timer_v1", "timer_v2"} /\ t_at \in TimerPlaces
  /\ counter \in Nat /\ data \in Nat /\ last_read \in Nat
  /\ messageq \in {<<>>} \cup {<<v>> : v \in Nat}
  /\ fired \in BOOLEAN /\ bogus \in BOOLEAN /\ kept_away \in BOOLEAN

StillCounting ==
  /\ t_at \in {"first", "loop", "check", "blocked"} => counter # 0 /\ ~ fired
  /\ t_at \in {"delay", "exit"} /\ sample = "timer_v1" => counter = 0

InStep ==
  /\ ~ bogus
  /\ t_at = "first" => messageq = <<>> /\ data = last_read + 1
  /\ t_at \in {"loop", "check"} => messageq = <<data>> /\ data = last_read + 1
  /\ t_at = "blocked" => messageq = <<last_read + 1>> /\ data = last_read + 2
  /\ t_at = "delay" => /\ counter = 0
                       /\ ~ fired => messageq = <<data>> /\ data = last_read + 1
                       /\ fired => messageq = <<>> /\ data = last_read
  /\ t_at = "exit" => counter = 0 /\ messageq = <<>> /\ data = last_read

TimerInv == TimerTyped /\ StillCounting /\ (~ kept_away => InStep)

(* The two forks of a philosopher, the lower numbered one first.            *)
LEMMA ForksOfASeat ==
  \A p \in Seat : LowFork(p) \in Seat /\ HighFork(p) \in Seat /\ LowFork(p) < HighFork(p)
BY CmsisAssumption DEF LowFork, HighFork, Seat

(* osThreadNew seats the next philosopher, who has no fork.                 *)
LEMMA ThreadNewKeeps ==
  ASSUME ForksInv, osThreadNew
  PROVE  ForksInv'
<1> USE DEF ForksInv, ForksTyped
<1>1. /\ seated \in Seat /\ stands[seated] = "unstarted" /\ seated' = seated + 1 /\ tokens' = tokens
      /\ stands' = [stands EXCEPT ![seated] = "starving"]
  BY CmsisAssumption DEF osThreadNew, SeatedInOrder, Seat
<1>2. ForksTyped'
  BY <1>1, CmsisAssumption DEF Stands, Seat
<1>3. \A p, f \in Seat : (HasFork(p, f)' <=> HasFork(p, f)) /\ (Waits(p, f)' <=> Waits(p, f))
  BY <1>1 DEF HasFork, Waits
<1>4. SeatedInOrder'
  BY <1>1, CmsisAssumption DEF SeatedInOrder, Seat
<1> QED BY <1>1, <1>2, <1>3, <1>4 DEF OneHand, TokenOrHand, WaitsForATakenFork

(* take(): the token at once, or the thread waits for one that is taken.    *)
LEMMA AcquireKeeps ==
  ASSUME ForksInv, NEW p \in Seat, NEW f \in Seat, NEW got, NEW pended,
         acquire(p, f, got, pended),
         \/ /\ stands[p] = "starving" /\ f = LowFork(p) /\ got = "holding" /\ pended = "wait_low"
         \/ /\ stands[p] = "holding" /\ f = HighFork(p) /\ got = "eating" /\ pended = "wait_high"
  PROVE  ForksInv'
<1> USE DEF ForksInv, ForksTyped
<1>1. LowFork(p) \in Seat /\ HighFork(p) \in Seat /\ LowFork(p) # HighFork(p)
  BY ForksOfASeat DEF Seat
<1>2. seated' = seated
  BY DEF acquire
<1>3. CASE tokens[f] = 0
  <2>1. stands' = [stands EXCEPT ![p] = pended] /\ tokens' = tokens
    BY <1>3 DEF acquire
  <2>2. ForksTyped'
    BY <1>2, <2>1 DEF Stands
  <2>3. \A q, g \in Seat : HasFork(q, g)' <=> HasFork(q, g)
    BY <1>1, <2>1 DEF HasFork
  <2>4. WaitsForATakenFork'
    BY <1>1, <1>3, <2>1 DEF WaitsForATakenFork, Waits
  <2>5. SeatedInOrder'
    BY <1>2, <2>1 DEF SeatedInOrder
  <2> QED BY <2>1, <2>2, <2>3, <2>4, <2>5 DEF OneHand, TokenOrHand
<1>4. CASE tokens[f] = 1
  <2>1. stands' = [stands EXCEPT ![p] = got] /\ tokens' = [tokens EXCEPT ![f] = 0]
    BY <1>4 DEF acquire
  <2>2. ForksTyped'
    BY <1>2, <2>1 DEF Stands
  <2>3. \A q, g \in Seat : HasFork(q, g)' <=> HasFork(q, g) \/ (q = p /\ g = f)
    BY <1>1, <2>1 DEF HasFork
  <2>4. \A q \in Seat : ~ HasFork(q, f)
    BY <1>4 DEF TokenOrHand
  <2>5. \A g \in Seat : tokens'[g] = IF g = f THEN 0 ELSE tokens[g]
    BY <2>1
  <2>6. OneHand'
    BY ONLY <2>3, <2>4, OneHand DEF OneHand
  <2>7. TokenOrHand'
    BY ONLY p \in Seat, <2>3, <2>5, TokenOrHand DEF TokenOrHand
  <2>8. WaitsForATakenFork'
    BY <1>1, <2>1 DEF WaitsForATakenFork, Waits
  <2>9. SeatedInOrder'
    BY <1>2, <2>1 DEF SeatedInOrder
  <2> QED BY <2>2, <2>6, <2>7, <2>8, <2>9
<1> QED BY <1>3, <1>4

(* drop(): the token goes to a thread that waits for it, or back to the      *)
(* semaphore if nobody does.                                               *)
LEMMA ReleaseKeeps ==
  ASSUME ForksInv, NEW p \in Seat, NEW f \in Seat, NEW next,
         release(p, f, next),
         \/ /\ stands[p] = "eating" /\ f = HighFork(p) /\ next = "dropped"
         \/ /\ stands[p] = "dropped" /\ f = LowFork(p) /\ next = "starving"
  PROVE  ForksInv'
<1> USE DEF ForksInv, ForksTyped
<1>1. LowFork(p) \in Seat /\ HighFork(p) \in Seat /\ LowFork(p) # HighFork(p)
  BY ForksOfASeat DEF Seat
<1>2. seated' = seated
  BY DEF release
<1>3. HasFork(p, f) /\ tokens[f] = 0
  BY DEF HasFork, TokenOrHand
<1>4. ASSUME NEW q \in Seat, Waits(q, f), tokens' = tokens,
             stands' = [stands EXCEPT ![p] = next,
                                      ![q] = IF stands[q] = "wait_low" THEN "holding" ELSE "eating"]
      PROVE  ForksInv'
  <2>1. q # p /\ stands[q] \in {"wait_low", "wait_high"}
    BY <1>4 DEF Waits
  <2>2. LowFork(q) \in Seat /\ HighFork(q) \in Seat /\ LowFork(q) # HighFork(q)
    BY ForksOfASeat DEF Seat
  <2>3. \A r \in Seat : stands'[r] = IF r = p THEN next
                                     ELSE IF r = q THEN IF stands[q] = "wait_low" THEN "holding" ELSE "eating"
                                     ELSE stands[r]
    BY <1>4, <2>1
  <2>4. ForksTyped'
    BY <1>2, <1>4 DEF Stands
  <2>5. \A r, g \in Seat : HasFork(r, g)' <=> (HasFork(r, g) /\ ~ (r = p /\ g = f)) \/ (r = q /\ g = f)
    <3>1. \A g \in Seat : HasFork(p, g)' <=> HasFork(p, g) /\ g # f
      BY <1>1, <2>1, <2>3 DEF HasFork
    <3>2. \A g \in Seat : HasFork(q, g)' <=> HasFork(q, g) \/ g = f
      BY <1>4, <2>1, <2>2, <2>3 DEF HasFork, Waits
    <3>3. \A r, g \in Seat : r # p /\ r # q => (HasFork(r, g)' <=> HasFork(r, g))
      BY <2>3 DEF HasFork
    <3> QED BY ONLY <2>1, <3>1, <3>2, <3>3
  <2>6. OneHand'
    BY ONLY p \in Seat, q \in Seat, f \in Seat, <1>3, <2>1, <2>5, OneHand DEF OneHand
  <2>7. TokenOrHand'
    BY ONLY p \in Seat, q \in Seat, f \in Seat, <1>3, <1>4, <2>5, TokenOrHand, OneHand DEF TokenOrHand, OneHand
  <2>8. WaitsForATakenFork'
    BY <1>4, <2>1, <2>3 DEF WaitsForATakenFork, Waits
  <2>9. SeatedInOrder'
    BY <1>2, <2>1, <2>3 DEF SeatedInOrder
  <2> QED BY <2>4, <2>6, <2>7, <2>8, <2>9
<1>5. ASSUME \A q \in Seat : ~ Waits(q, f),
             stands' = [stands EXCEPT ![p] = next], tokens' = [tokens EXCEPT ![f] = 1]
      PROVE  ForksInv'
  <2>1. ForksTyped'
    BY <1>2, <1>5 DEF Stands
  <2>2. \A r, g \in Seat : HasFork(r, g)' <=> HasFork(r, g) /\ ~ (r = p /\ g = f)
    BY <1>1, <1>5 DEF HasFork
  <2>3. \A g \in Seat : tokens'[g] = IF g = f THEN 1 ELSE tokens[g]
    BY <1>5
  <2>4. OneHand'
    BY ONLY <2>2, OneHand DEF OneHand
  <2>5. TokenOrHand'
    BY ONLY p \in Seat, f \in Seat, <1>3, <2>2, <2>3, TokenOrHand, OneHand DEF TokenOrHand, OneHand
  <2>6. WaitsForATakenFork'
    BY <1>5 DEF WaitsForATakenFork, Waits
  <2>7. SeatedInOrder'
    BY <1>2, <1>5 DEF SeatedInOrder
  <2> QED BY <2>1, <2>4, <2>5, <2>6, <2>7
<1>6. \/ \E q \in Seat : /\ Waits(q, f) /\ tokens' = tokens
                         /\ stands' = [stands EXCEPT ![p] = next,
                                          ![q] = IF stands[q] = "wait_low" THEN "holding" ELSE "eating"]
      \/ /\ \A q \in Seat : ~ Waits(q, f)
         /\ stands' = [stands EXCEPT ![p] = next] /\ tokens' = [tokens EXCEPT ![f] = 1]
  BY <1>3 DEF release, Waits
<1> QED BY <1>4, <1>5, <1>6

(* So says every step of the philosophers.                                 *)
LEMMA TableKeeps ==
  ASSUME ForksInv, osThreadNew \/ \E p \in Seat : Dines(p)
  PROVE  ForksInv'
<1>1. ASSUME NEW p \in Seat, Dines(p) PROVE ForksInv'
  <2>1. LowFork(p) \in Seat /\ HighFork(p) \in Seat
    BY ForksOfASeat
  <2> QED BY <1>1, <2>1, AcquireKeeps, ReleaseKeeps DEF Dines
<1> QED BY <1>1, ThreadNewKeeps

(* Two philosophers of one fork do not eat at once.                         *)
LEMMA NeighboursApart ==
  ASSUME ForksInv
  PROVE  \A p \in Seat : stands[p] = "eating" =>
           \A q \in Seat \ {p} : stands[q] = "eating" =>
             {LowFork(p), HighFork(p)} \cap {LowFork(q), HighFork(q)} = {}
BY ForksOfASeat DEF ForksInv, OneHand, HasFork

(***************************************************************************)
(* If everyone waited, whoever has the fork one waits for would wait for a  *)
(* higher numbered one; the highest fork that is waited for refutes that.   *)
(***************************************************************************)
WaitedFor(p) == IF stands[p] = "wait_low" THEN LowFork(p) ELSE HighFork(p)

LEMMA WaitingAscends ==
  ASSUME ForksInv, \A p \in Seat : stands[p] \in {"wait_low", "wait_high"}, NEW p \in Seat
  PROVE  \E q \in Seat : WaitedFor(p) < WaitedFor(q)
<1>1. WaitedFor(p) \in Seat /\ Waits(p, WaitedFor(p))
  BY ForksOfASeat DEF WaitedFor, Waits
<1>2. PICK q \in Seat : HasFork(q, WaitedFor(p))
  BY <1>1 DEF ForksInv, TokenOrHand, WaitsForATakenFork
<1>3. WaitedFor(p) = LowFork(q) /\ stands[q] = "wait_high"
  BY <1>2 DEF HasFork
<1> QED BY <1>3, ForksOfASeat DEF WaitedFor

LEMMA SomebodyDoesNotWait ==
  ASSUME ForksInv
  PROVE  \E p \in Seat : stands[p] \notin {"wait_low", "wait_high"}
<1> SUFFICES ASSUME \A p \in Seat : stands[p] \in {"wait_low", "wait_high"} PROVE FALSE
  OBVIOUS
<1> DEFINE T == {CMSIS_PHIL - WaitedFor(p) : p \in Seat}
<1>1. \A p \in Seat : WaitedFor(p) \in Seat
  BY ForksOfASeat DEF WaitedFor
<1>2. T \subseteq Nat
  BY <1>1, CmsisAssumption DEF Seat
<1>3. T # {}
  <2>1. 0 \in Seat
    BY CmsisAssumption DEF Seat
  <2> QED BY <2>1
<1>4. PICK t \in T : \A u \in T : ~ (<<u, t>> \in OpToRel(<, Nat))
  <2> HIDE DEF T
  <2> QED BY <1>2, <1>3, NatLessThanWellFounded, WFMin
<1>5. PICK p \in Seat : t = CMSIS_PHIL - WaitedFor(p)
  BY <1>4
<1>6. PICK q \in Seat : WaitedFor(p) < WaitedFor(q)
  BY WaitingAscends
<1>7. CMSIS_PHIL - WaitedFor(q) \in T /\ CMSIS_PHIL - WaitedFor(q) < t
  BY <1>1, <1>5, <1>6, CmsisAssumption DEF Seat
<1>8. <<CMSIS_PHIL - WaitedFor(q), t>> \in OpToRel(<, Nat)
  BY <1>2, <1>7 DEF OpToRel
<1> QED BY <1>4, <1>7, <1>8

-----------------------------------------------------------------------------
(* timer_synchronization: one lemma per step of main(), and the callback's.  *)

(* The first message, before the timer runs.                               *)
LEMMA FirstKeeps ==
  ASSUME TimerInv, send_first
  PROVE  TimerInv'
<1> USE DEF TimerInv, TimerTyped
<1>1. /\ t_at = "first" /\ data' = data
      /\ UNCHANGED <<sample, counter, last_read, fired, bogus, kept_away>>
  BY DEF send_first
<1>2. \/ messageq = <<>> /\ messageq' = <<data>> /\ t_at' = "loop"
      \/ messageq # <<>> /\ messageq' = messageq /\ t_at' = "blocked"
  BY <1>1 DEF send_first, osMessagePut
<1>3. TimerTyped'
  BY <1>1, <1>2 DEF TimerPlaces
<1>4. StillCounting'
  BY <1>1, <1>2 DEF StillCounting
<1>5. ~ kept_away' => InStep'
  BY <1>1, <1>2 DEF InStep
<1> QED BY <1>3, <1>4, <1>5

(* while (--counter): the next message, or the pause at the end.            *)
LEMMA LoopKeeps ==
  ASSUME TimerInv, send_next
  PROVE  TimerInv'
<1> USE DEF TimerInv, TimerTyped
<1>1. /\ t_at = "loop" /\ counter # 0 /\ ~ fired /\ counter' = counter - 1
      /\ UNCHANGED <<sample, last_read, fired, bogus, kept_away>>
  BY DEF send_next, StillCounting
<1>2. CASE counter' = 0
  <2>1. t_at' = "delay" /\ data' = data /\ messageq' = messageq
    BY <1>2 DEF send_next
  <2> QED BY <1>1, <1>2, <2>1 DEF TimerPlaces, StillCounting, InStep
<1>3. CASE counter' # 0
  <2>1. /\ data' = data + 1
        /\ \/ messageq = <<>> /\ messageq' = <<data'>> /\ t_at' = "check"
           \/ messageq # <<>> /\ messageq' = messageq /\ t_at' = "blocked"
    BY <1>3 DEF send_next, osMessagePut
  <2>2. TimerTyped'
    BY <1>1, <2>1 DEF TimerPlaces
  <2>3. StillCounting'
    BY <1>1, <1>3, <2>1 DEF StillCounting
  <2>4. ~ kept_away' => InStep'
    BY <1>1, <2>1 DEF InStep
  <2> QED BY <2>2, <2>3, <2>4
<1> QED BY <1>2, <1>3

(* V2 gives up only where the timer was early.                              *)
LEMMA CheckKeeps ==
  ASSUME TimerInv, check_count
  PROVE  TimerInv'
<1> USE DEF TimerInv, TimerTyped
<1>1. /\ t_at = "check"
      /\ UNCHANGED <<sample, counter, data, messageq, last_read, fired, bogus, kept_away>>
  BY DEF check_count
<1>2. \/ t_at' = "loop"
      \/ t_at' = "delay" /\ sample # "timer_v1" /\ Len(messageq) # 1
  BY DEF check_count
<1>3. ASSUME ~ kept_away PROVE t_at' = "loop"
  <2>1. messageq = <<data>>
    BY <1>1, <1>3 DEF InStep
  <2>2. Len(messageq) = 1
    BY <2>1
  <2> QED BY <1>2, <2>2
<1>4. TimerTyped'
  BY <1>1, <1>2 DEF TimerPlaces
<1>5. StillCounting'
  BY <1>1, <1>2 DEF StillCounting
<1>6. ~ kept_away' => InStep'
  BY <1>1, <1>3 DEF InStep
<1> QED BY <1>4, <1>5, <1>6

(* The end: the callback has had a period for the last message.             *)
LEMMA StopKeeps ==
  ASSUME TimerInv, timer_stop
  PROVE  TimerInv'
<1> USE DEF TimerInv, TimerTyped
<1>1. /\ t_at = "delay" /\ fired /\ t_at' = "exit"
      /\ UNCHANGED <<sample, counter, data, messageq, last_read, fired, bogus, kept_away>>
  BY DEF timer_stop
<1>2. TimerTyped'
  BY <1>1 DEF TimerPlaces
<1>3. StillCounting'
  BY <1>1 DEF StillCounting
<1>4. ~ kept_away' => InStep'
  BY <1>1 DEF InStep
<1> QED BY <1>2, <1>3, <1>4

(* The callback in time: main() is blocked in its put, or sleeps at the end *)
(* and this is its only firing.                                            *)
LEMMA CallbackInTime ==
  ASSUME TimerInv, read_msg_callback, ~ kept_away'
  PROVE  InStep'
<1> USE DEF TimerInv, TimerTyped
<1>1. ~ kept_away /\ t_at \in {"blocked", "delay"} /\ ~ fired
  BY Zenon DEF read_msg_callback
<1>2. InStep
  BY <1>1
<1>3. /\ UNCHANGED <<counter, data>> /\ (fired' <=> t_at = "delay")
  BY DEF read_msg_callback
<1>4. messageq = <<last_read + 1>> /\ messageq # <<>> /\ Head(messageq) = last_read + 1
  <2>1. messageq = <<last_read + 1>>
    BY <1>1, <1>2 DEF InStep
  <2> QED BY <2>1
<1>5. /\ last_read' = last_read + 1
      /\ messageq' = IF t_at = "blocked" THEN <<data>> ELSE <<>>
      /\ t_at' = IF t_at = "blocked" THEN "check" ELSE t_at
  BY <1>4 DEF read_msg_callback
<1>6. bogus' = (bogus \/ Head(messageq) # last_read + 1)
  BY <1>4, Zenon DEF read_msg_callback
<1>7. ~ bogus
  BY <1>2 DEF InStep
<1>8. ~ bogus'
  BY <1>4, <1>6, <1>7, Zenon
<1>9. CASE t_at = "blocked"
  BY <1>2, <1>3, <1>4, <1>5, <1>8, <1>9 DEF InStep
<1>10. CASE t_at = "delay"
  BY <1>1, <1>2, <1>3, <1>4, <1>5, <1>8, <1>10 DEF InStep
<1> QED BY <1>1, <1>9, <1>10

LEMMA CallbackKeeps ==
  ASSUME TimerInv, read_msg_callback
  PROVE  TimerInv'
<1> USE DEF TimerInv, TimerTyped
<1>1. /\ t_at \in {"loop", "check", "blocked", "delay"}
      /\ UNCHANGED <<sample, counter, data>>
      /\ (fired' <=> t_at = "delay")
  BY DEF read_msg_callback
<1>2. /\ t_at' \in TimerPlaces
      /\ t_at' \in {"loop", "check", "blocked", "delay"}
      /\ t_at' = "delay" <=> t_at = "delay"
  BY DEF read_msg_callback, TimerPlaces
<1>3. last_read' \in Nat /\ messageq' \in {<<>>} \cup {<<v>> : v \in Nat}
  <2>1. CASE messageq = <<>>
    BY <2>1 DEF read_msg_callback
  <2>2. CASE messageq # <<>>
    <3>1. PICK v \in Nat : messageq = <<v>>
      BY <2>2
    <3>2. Head(messageq) = v
      BY <3>1
    <3> QED BY <2>2, <3>1, <3>2 DEF read_msg_callback
  <2> QED BY <2>1, <2>2
<1>4. fired' \in BOOLEAN /\ bogus' \in BOOLEAN /\ kept_away' \in BOOLEAN
  BY Zenon DEF read_msg_callback
<1>5. TimerTyped'
  BY <1>1, <1>2, <1>3, <1>4
<1>6. StillCounting'
  BY <1>1, <1>2 DEF StillCounting
<1>7. ASSUME ~ kept_away' PROVE InStep'
  BY ONLY <1>7, TimerInv, read_msg_callback, CallbackInTime
<1> QED BY ONLY <1>5, <1>6, <1>7 DEF TimerInv

-----------------------------------------------------------------------------
(* Cmsis alone: what MCThreads runs when program is "cmsis".                 *)
CmsisSpec == CmsisInit /\ [][CmsisNext]_cmsisVars

LEMMA CmsisStarts == CmsisInit => ForksInv /\ TimerInv
<1> SUFFICES ASSUME CmsisInit PROVE ForksInv /\ TimerInv
  OBVIOUS
<1>1. ForksInv
  BY CmsisAssumption
  DEF CmsisInit, fork_init, ForksInv, ForksTyped, Stands, OneHand, TokenOrHand, HasFork,
      WaitsForATakenFork, Waits, SeatedInOrder, Seat
<1>2. TimerInv
  <2>1. /\ t_at = "first" /\ counter = COUNTER /\ data = 5 /\ messageq = <<>> /\ last_read = 4
        /\ sample \in {"philosophers", "timer_v1", "timer_v2"}
        /\ ~ fired /\ ~ bogus
    BY DEF CmsisInit
  <2>2. fired \in BOOLEAN /\ bogus \in BOOLEAN /\ kept_away \in BOOLEAN
    BY Zenon DEF CmsisInit
  <2>3. TimerTyped
    BY <2>1, <2>2, CmsisAssumption DEF TimerTyped, TimerPlaces
  <2>4. StillCounting
    BY <2>1, CmsisAssumption DEF StillCounting
  <2>5. InStep
    BY ONLY <2>1 DEF InStep
  <2> QED BY <2>3, <2>4, <2>5 DEF TimerInv
<1> QED BY <1>1, <1>2

LEMMA CmsisKeeps == ForksInv /\ TimerInv /\ [CmsisNext]_cmsisVars => ForksInv' /\ TimerInv'
<1> SUFFICES ASSUME ForksInv, TimerInv, [CmsisNext]_cmsisVars PROVE ForksInv' /\ TimerInv'
  OBVIOUS
<1>1. ASSUME UNCHANGED tableVars PROVE ForksInv'
  BY <1>1 DEF tableVars, ForksInv, ForksTyped, OneHand, TokenOrHand, HasFork,
     WaitsForATakenFork, Waits, SeatedInOrder
<1>2. ASSUME UNCHANGED syncVars PROVE TimerInv'
  BY <1>2 DEF syncVars, TimerInv, TimerTyped, StillCounting, InStep
<1>3. CASE osThreadNew \/ \E p \in Seat : Dines(p)
  <2>1. UNCHANGED syncVars
    BY <1>3 DEF osThreadNew, Dines, acquire, release
  <2> QED BY <1>2, <1>3, <2>1, TableKeeps
<1>4. CASE TimerNext
  <2>1. UNCHANGED tableVars
    BY <1>4 DEF TimerNext, send_first, send_next, check_count, timer_stop, read_msg_callback
  <2> QED BY <1>1, <1>4, <2>1, FirstKeeps, LoopKeeps, CheckKeeps, StopKeeps, CallbackKeeps DEF TimerNext
<1>5. CASE UNCHANGED cmsisVars
  BY <1>1, <1>2, <1>5 DEF cmsisVars
<1> QED BY <1>3, <1>4, <1>5 DEF CmsisNext

(* For every number of philosophers and every initial counter: neighbours   *)
(* never eat together and never does everyone wait for a fork; what main()  *)
(* of timer_synchronization writes is read once, in order and before the    *)
(* end, unless the timer fired while main() could run, and V1 always counts *)
(* down to the end.                                                        *)
THEOREM PortsAgree == CmsisSpec => []CmsisAgrees
<1>1. ForksInv /\ TimerInv => CmsisAgrees
  <2> SUFFICES ASSUME ForksInv, TimerInv PROVE CmsisAgrees
    OBVIOUS
  <2>1. ~ kept_away => ~ bogus
    BY DEF TimerInv, InStep
  <2>2. t_at = "exit" /\ ~ kept_away => counter = 0 /\ messageq = <<>> /\ last_read = data
    BY DEF TimerInv, InStep
  <2>3. t_at = "exit" /\ sample = "timer_v1" => counter = 0
    BY DEF TimerInv, StillCounting
  <2> QED BY <2>1, <2>2, <2>3, NeighboursApart, SomebodyDoesNotWait DEF CmsisAgrees
<1> QED BY <1>1, CmsisStarts, CmsisKeeps, PTL DEF CmsisSpec
=============================================================================
