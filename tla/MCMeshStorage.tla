---------------------------- MODULE MCMeshStorage ----------------------------
(***************************************************************************)
(* Four parts of mesh nodes, for TLC: what the lighting node keeps in flash  *)
(* (MeshStorage), how it reports the time of a transition (TransitionTime),  *)
(* the badge (MeshBadge) and the node of switches (MeshSwitch).  They share   *)
(* no variable, so a behaviour exercises one of them.                       *)
(***************************************************************************)
EXTENDS MeshStorage, TransitionTime, MeshBadge, MeshSwitch

VARIABLE exercised

(* Statuses are sent at, just before and just after every time at which the   *)
(* encoding changes.                                                       *)
Edges == {0, 100, 6100, 6200, 6300, 61000, 62000, 63000, 70000, 610000, 620000, 630000,
          1200000, 36600000, 37200000}
Samples == UNION {{e - 1, e, e + 1} : e \in Edges}

(* A badge whose button is played with, or whose phone and sensors are, or     *)
(* that hears the mesh.                                                    *)
Budgets == {[moves |-> 6, events |-> 0, msgs |-> 0], [moves |-> 2, events |-> 3, msgs |-> 1],
            [moves |-> 0, events |-> 0, msgs |-> 4]}

NodeVars == <<vars, timeVars, badgeVars, switchVars, exercised>>

NodeInit ==
  /\ exercised \in {"storage", "time", "badge", "switch"}
  /\ Init /\ TimeInit /\ BadgeInit /\ SwitchInit
  /\ exercised # "time" => resolution = 0 /\ steps = 1 /\ type = "MOVE"
  /\ exercised # "badge" => ~ m_node.name /\ m_left.moves = 0
  /\ exercised # "switch" => s_time = 0 /\ s_left.edges = 0

Storage == exercised = "storage" /\ Next /\ UNCHANGED <<timeVars, badgeVars, switchVars>>
TimeOfTransition == exercised = "time" /\ TimeNext /\ UNCHANGED <<vars, badgeVars, switchVars>>
Badge == exercised = "badge" /\ BadgeNext /\ UNCHANGED <<vars, timeVars, switchVars>>
Switch == exercised = "switch" /\ SwitchNext /\ UNCHANGED <<vars, timeVars, badgeVars>>

NodeSpec == NodeInit /\ [][(Storage \/ TimeOfTransition \/ Badge \/ Switch) /\ UNCHANGED exercised]_NodeVars

-----------------------------------------------------------------------------
(* Properties: those of the modules, whose comments name the code.          *)

(* What a node has been told is still there and is shown: the values that     *)
(* belong in flash, the badge's screens and lists, the presses of a window    *)
(* and the statuses of the lamps.                                          *)
NodesKeepState == NothingLost /\ BadgeAgrees /\ SwitchAgrees

(* A boot starts with the right values and resets the mesh when it should,     *)
(* and the command of a window of presses is the one that is obeyed.         *)
NodesStepRight == BootsAreRight /\ PressIsObeyed
=============================================================================
