------------------------------ MODULE Upgrade ------------------------------
(***************************************************************************)
(* The firmware upgrade: update_system and update_rsp of                   *)
(* app/upgrade/update.c, and the event of app/task/network_task.c that     *)
(* starts it.                                                              *)
(*                                                                         *)
(* The flash has two slots for firmware.  An image is linked for one of    *)
(* them.  The SDK's upgrade task writes the slot that is not running; the  *)
(* boot flag changes only in system_upgrade_reboot.  Nothing of the        *)
(* image's content is looked at by this code.                              *)
(***************************************************************************)
EXTENDS Naturals

CONSTANT MaxTries \* bound on the events that ask for an upgrade

VARIABLES
  boot,    \* the slot that boots and runs, or NoSlots
  slots,   \* the image in each slot: the file it was loaded from, and whether it is whole
  task,    \* the upgrade task of the SDK: "idle", "loading" or "done", with its file
  s_update_system, \* TRUE from the first event until the next restart
  lost_pespconn,   \* connections that nobody can free any more
  tries

upgradeVars == <<boot, slots, task, s_update_system, lost_pespconn, tries>>

UPGRADE_FW_BIN1 == 1
UPGRADE_FW_BIN2 == 2
Slots == {UPGRADE_FW_BIN1, UPGRADE_FW_BIN2}
NoSlots == 0  \* any other answer: not a build with two slots
Other(slot) == 3 - slot
Idle == [state |-> "idle", file |-> UPGRADE_FW_BIN1, upgrade_flag |-> FALSE]

\* user2.1024.new.2.bin while the first slot runs, user1.1024.new.2.bin otherwise:
\* the slot for which the file is linked.
File(userBin) == IF userBin = UPGRADE_FW_BIN1 THEN UPGRADE_FW_BIN2 ELSE UPGRADE_FW_BIN1

\* update_system, as far as the SDK starts its task: the first thing that does is to
\* erase the slot.
Started ==
  /\ boot \in Slots /\ task = Idle
  /\ task' = [Idle EXCEPT !.state = "loading", !.file = File(boot)]
  /\ slots' = [slots EXCEPT ![Other(boot)].whole = FALSE]

\* NW_UPGRADE_EVT in network_sta.  The SDK may refuse; then all is freed again.
UpgradeEvt ==
  /\ tries < MaxTries /\ tries' = tries + 1
  /\ s_update_system' = TRUE
  /\ \/ ~s_update_system /\ Started
     \/ UNCHANGED <<task, slots>>
  /\ UNCHANGED <<boot, lost_pespconn>>

\* The task ends: with the whole file, or with nothing, by an error or after 10 s.
LoadEnds ==
  /\ task.state = "loading"
  /\ \E whole \in BOOLEAN :
       /\ task' = [task EXCEPT !.state = "done", !.upgrade_flag = whole]
       /\ slots' = IF whole THEN [slots EXCEPT ![Other(boot)] = [file |-> task.file, whole |-> TRUE]] ELSE slots
  /\ UNCHANGED <<boot, s_update_system, lost_pespconn, tries>>

\* Mutant: a failed upgrade reboots as well.
RspReboots ==
  /\ task.state = "done"
  /\ boot' = Other(boot) /\ s_update_system' = FALSE /\ lost_pespconn' = 0
  /\ task' = Idle
  /\ UNCHANGED <<slots, tries>>

\* update_rsp: reboot into the new image, or free what is left but the connection.
UpdateRsp ==
  /\ task.state = "done"
  /\ IF task.upgrade_flag
     THEN boot' = Other(boot) /\ s_update_system' = FALSE /\ lost_pespconn' = 0
     ELSE lost_pespconn' = lost_pespconn + 1 /\ UNCHANGED <<boot, s_update_system>>
  /\ task' = Idle
  /\ UNCHANGED <<slots, tries>>

\* Power is lost and comes back.
Restart ==
  /\ s_update_system
  /\ task' = Idle /\ s_update_system' = FALSE /\ lost_pespconn' = 0
  /\ UNCHANGED <<boot, slots, tries>>

UpgradeInit ==
  /\ boot \in Slots \cup {NoSlots}
  /\ slots \in [Slots -> [file : Slots, whole : BOOLEAN]]
  /\ boot \in Slots => slots[boot] = [file |-> boot, whole |-> TRUE]
  /\ task = Idle /\ s_update_system = FALSE /\ lost_pespconn = 0 /\ tries = 0

UpgradeNext == UpgradeEvt \/ LoadEnds \/ UpdateRsp \/ Restart

UpgradeSpec == UpgradeInit /\ [][UpgradeNext]_upgradeVars

(***************************************************************************)
(* Properties.                                                             *)
(***************************************************************************)
\* A connection is lost at most once between two restarts.
UpgradeTypeOK ==
  /\ boot \in Slots \cup {NoSlots} /\ slots \in [Slots -> [file : Slots, whole : BOOLEAN]]
  /\ task \in [state : {"idle", "loading", "done"}, file : Slots, upgrade_flag : BOOLEAN]
  /\ s_update_system \in BOOLEAN /\ tries \in 0..MaxTries
  /\ lost_pespconn \in 0..1 /\ (lost_pespconn = 1 => s_update_system)

\* Whenever the device restarts, by itself or because power is lost, in the middle of a
\* download too, it boots a whole image that is linked for the slot it is in.
BootsWholeImage == boot \in Slots => slots[boot] = [file |-> boot, whole |-> TRUE]
=============================================================================
