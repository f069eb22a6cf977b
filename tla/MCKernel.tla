------------------------------- MODULE MCKernel -------------------------------
(* Two samples whose subject is the kernel's scheduling, for TLC: a           *)
(* behaviour is one of userspace/shared_mem (SharedMem), with the wheels of   *)
(* main.h and the messages of main.c, or of scheduler/metairq_dispatch        *)
(* (MetaIrq).                                                              *)
EXTENDS SharedMem, MetaIrq

VARIABLE program

ArrayOf(s) == [i \in 0 .. Len(s) - 1 |-> s[i + 1]]

START_WHEEL == ArrayOf(<<0, 1, 2, 3, 4, 5, 6, 7, 8, 9, 10, 11, 12, 13, 14, 15, 16,
                         17, 18, 19, 20, 21, 22, 23, 24, 25>>)
START_WHEEL2 == ArrayOf(<<6, 7, 8, 9, 10, 11, 12, 13, 14, 15, 16, 17, 18, 19, 20, 21,
                          22, 23, 24, 25, 5, 0, 4, 1, 3, 2>>)
REFLECT == ArrayOf(<<1, 0, 3, 2, 5, 4, 7, 6, 9, 8, 11, 10, 13, 12, 15, 14, 17, 16,
                     19, 18, 21, 20, 23, 22, 25, 24>>)

(* Letters are their index, everything else is 26. *)
PT_MSG == <<26, 26, 26, 26, 12, 4, 18, 18, 0, 6, 4, 26, 19, 14, 26,
            4, 13, 2, 17, 24, 15, 19, 26>>
PT_MSG2 == <<14, 5, 19, 19, 1, 7, 5, 18, 15, 6, 12, 4, 16, 25, 14, 18, 26>>

KernelVars == <<vars, irqVars, program>>

KernelInit == Init /\ MetaIrqInit /\ program \in {"shared_mem", "metairq_dispatch"}

SharedMemRuns(A) == program = "shared_mem" /\ A /\ UNCHANGED <<irqVars, program>>

MetaIrqRuns(A) == program = "metairq_dispatch" /\ A /\ UNCHANGED <<vars, program>>

(* The CPU runs the thread the scheduler picks, sleeps end and timeouts expire. *)
Fairness ==
  /\ WF_KernelVars(SharedMemRuns(main)) /\ WF_KernelVars(SharedMemRuns(enc))
  /\ WF_KernelVars(SharedMemRuns(pt)) /\ WF_KernelVars(SharedMemRuns(ct))
  /\ WF_KernelVars(MetaIrqRuns(dev_timer_expired)) /\ WF_KernelVars(MetaIrqRuns(metairq_fn))
  /\ \A t \in Worker : WF_KernelVars(MetaIrqRuns(thread_fn(t)))

KernelSpec == KernelInit /\ [][SharedMemRuns(Next) \/ MetaIrqRuns(MetaIrqNext)]_KernelVars /\ Fairness

(* shared_mem: "the second message is the output of the first message, and    *)
(* the resulting output is the first message without spaces" (README), again *)
(* and again.                                                              *)
BothComeOut == program = "shared_mem" => BothPrinted

(* metairq_dispatch: no two events share a slot; record_latencies reports      *)
(* once, if the message that triggers it is not dropped, and the report lacks *)
(* nothing but what preemptible workers have not stored yet.                 *)
ReportedOnceAndWhole ==
  /\ []EverySlotOnce /\ ReportMayMissOnlyLower
  /\ program = "metairq_dispatch" => OneReportUnlessLost
=============================================================================
