------------------------------ MODULE Bluetooth ------------------------------
(***************************************************************************)
(* Bluetooth samples of one board each: the two older centrals of protect,   *)
(* the eddystone beacon, four peripherals, and a provisioner of a mesh.        *)
(* A behaviour is one of one program; which one of a module's, its first      *)
(* variable says.                                                          *)
(***************************************************************************)
EXTENDS Backups, Eddystone, Peripherals, Provisioner

VARIABLE program

vars == <<program, backupVars, eddyVars, peripheralVars, provisionVars>>

Init ==
  /\ program \in {"backup", "eddystone", "peripheral", "provisioner"}
  /\ BackupsInit /\ EddystoneInit /\ PeripheralsInit /\ ProvisionerInit
  /\ program # "backup" => b_version = 2
  /\ program # "peripheral" => p_kind = "vnd"

(* A step of one program leaves the others' state alone.                    *)
Backup(step) == /\ program = "backup" /\ step
                /\ UNCHANGED <<program, eddyVars, peripheralVars, provisionVars>>
Beacon(step) == /\ program = "eddystone" /\ step
                /\ UNCHANGED <<program, backupVars, peripheralVars, provisionVars>>
Peripheral(step) == /\ program = "peripheral" /\ step
                    /\ UNCHANGED <<program, backupVars, eddyVars, provisionVars>>
Provision(step) == /\ program = "provisioner" /\ step
                   /\ UNCHANGED <<program, backupVars, eddyVars, peripheralVars>>

Next ==
  \/ Backup(BackupsNext) \/ Beacon(EddystoneNext) \/ Peripheral(PeripheralsNext)
  \/ Provision(ProvisionerNext)

(* main() of backup polls for ever and a live link answers; the beacon's     *)
(* clock runs, and the controller answers both contexts of a restart; the     *)
(* thread of the peripherals wakes up every second, and the stack calls back  *)
(* and answers; main() of the provisioner loops.                            *)
Fairness ==
  /\ WF_vars(Backup(b_polls)) /\ WF_vars(Backup(b_Answer))
  /\ WF_vars(Beacon(IdleTimeout)) /\ WF_vars(Beacon(WorkQueue))
  /\ WF_vars(Beacon(Restart("peer")))
  /\ WF_vars(Peripheral(p_main)) /\ WF_vars(Peripheral(Power(pwr_rx)))
  /\ WF_vars(Provision(Main))

Spec == Init /\ [][Next]_vars /\ Fairness

-----------------------------------------------------------------------------
(* Properties: those of the modules, whose comments name the code.          *)

(* What main() or the work queue shares with the stack's thread stays        *)
(* consistent: the read under way, the connection's reference, the           *)
(* indication, the advertised slot, the told time, the wheel's count, the     *)
(* link's power, and the provisioner's database.                            *)
SharedStateAgrees ==
  /\ AnswersHaveTheirName /\ BackupsKeepConnection /\ BackupsFault
  /\ SlotIsOnAir /\ NotBeaconMeanwhile
  /\ OneIndication /\ TimeIsTold /\ CountIsDue /\ SubscribedHere /\ PowerFitsLink
  /\ ProvisionerAgrees

(* No step of any context undoes a lock or wraps an event time, reads follow  *)
(* one another, the beacon ends up broadcasting, a written time is told, the   *)
(* power is modulated, and nodes get configured.                            *)
WorkGetsDone == /\ LockHolds /\ TimesDoNotWrap
                /\ ReadingGoesOn /\ EndsUpBroadcasting /\ TimeToldInTheEnd
                /\ program = "peripheral" => PowerIsModulated
                /\ program = "provisioner" => NodesGetConfigured
=============================================================================
