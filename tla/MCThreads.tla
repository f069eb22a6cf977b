------------------------------ MODULE MCThreads ------------------------------
(* Samples of threads that share what the kernel guards, for TLC: a behaviour *)
(* is one of philosophers (Philosophers), of userspace/prod_consumer          *)
(* (ProdConsumer), or of a sample of portability (Cmsis).                    *)
EXTENDS Philosophers, ProdConsumer, Cmsis

VARIABLE program

ThreadsVars == <<vars, blockVars, cmsisVars, program>>

ThreadsInit == Init /\ ProdConsumerInit /\ CmsisInit
               /\ program \in {"philosophers", "prod_consumer", "cmsis"}
               /\ (program # "cmsis" => sample = "philosophers")

Dine(A) == program = "philosophers" /\ A /\ UNCHANGED <<blockVars, cmsisVars, program>>

Produce(A) == program = "prod_consumer" /\ A /\ UNCHANGED <<vars, cmsisVars, program>>

Port(A) == program = "cmsis" /\ A /\ UNCHANGED <<vars, blockVars, program>>

(* Philosophers!Fairness; a running timer keeps firing and no thread waits     *)
(* for ever for the CPU: every loop contains a call that blocks or sleeps.    *)
ThreadsFairness ==
  /\ WF_ThreadsVars(Dine(main)) /\ \A p \in Phil : WF_ThreadsVars(Dine(philosopher(p)))
  /\ WF_ThreadsVars(Produce(sample_driver_foo_isr)) /\ WF_ThreadsVars(Produce(Monitor))
  /\ WF_ThreadsVars(Produce(Processor)) /\ WF_ThreadsVars(Produce(Writeback))

ThreadsSpec ==
  ThreadsInit /\ [][Dine(Next) \/ Produce(ProdConsumerNext) \/ Port(CmsisNext)]_ThreadsVars /\ ThreadsFairness

(* prod_consumer: unless the pool runs out under the monitor, the program      *)
(* reaches SUCCESS, with every block back in the pool and the timer off.      *)
SuccessUnlessOops == program = "prod_consumer" => SilentSuccessUnlessOops
=============================================================================
