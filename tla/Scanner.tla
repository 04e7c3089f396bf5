------------------------------ MODULE Scanner ------------------------------
(***************************************************************************)
(* scanner/src/scanner_fsm.c: one PAwR scanner.                            *)
(*                                                                         *)
(* The main thread runs the state machine.  The Bluetooth RX thread runs   *)
(* the callbacks, each to its end.  The data generator's timer fires in an *)
(* interrupt.  They meet in two binary semaphores and in fault_reason, a   *)
(* single cell that every event overwrites.                                *)
(*                                                                         *)
(* Left out: payloads, the slot that was picked, and the message counter:  *)
(* whether verify_message accepts is the environment's choice.  The state  *)
(* REGISTERING is not modelled, no state function returns it.              *)
(***************************************************************************)
EXTENDS Integers

CONSTANTS
    MAX_UNCONFIRMED_TICKS,   \* CONFIG_MAX_UNCONFIRMED_TICKS
    U8,                      \* 2^8: unconfirmed_ticks is a uint8_t
    Env                      \* what may go wrong, of Disturbances

\* A sync that is lost or cannot be established; errors of crypto and bt_enable
\* in init, of bt_le_scan_start, bt_le_scan_stop, bt_le_per_adv_sync_subevent and
\* bt_le_per_adv_sync_delete; a sync established while its creation is cancelled;
\* a CPU fault when a NULL default_sync is handed to the host.
Disturbances == {"sync_lost", "init_error", "scan_start_error", "scan_stop_error",
                 "subevent_error", "delete_error", "late_cancel", "null_fault"}

ASSUME ScannerAssumption ==
    /\ U8 \in Nat /\ MAX_UNCONFIRMED_TICKS \in 1 .. U8 - 1
    /\ Env \subseteq Disturbances

VARIABLES
    curr_state,        \* state of the FSM
    pc,                \* where its function is
    reason,            \* the event a state function has read and acts on
    fault_reason,      \* last event
    synced_evt_sem,    \* an event is waiting
    synced_sem,        \* a sync was created
    recv,              \* sync_callbacks.recv
    default_sync,      \* "NULL" or "sync"
    unconfirmed_ticks,
    timer,             \* the data generator's timer
    \* The Bluetooth host and the air.
    scan,              \* the radio scans for advertisements
    sync,              \* the host's periodic sync
    subevent,          \* whether it listens to the picked slot's subevent
    delivery,          \* whether its indications are passed on
    response           \* history: whether it ever sent a response

main == <<curr_state, pc, reason>>
evt  == <<fault_reason, synced_evt_sem>>
link == <<sync, subevent, delivery>>
host == <<scan, link, response>>
vars == <<main, evt, synced_sem, recv, default_sync, unconfirmed_ticks,
          timer, host>>
-----------------------------------------------------------------------------
Events == {"NO_FAULT", "BLE_ENABLE_FAILED", "BLE_SCAN_START_FAILED",
           "BLE_SYNC_TIMEOUT", "BLE_SYNC_DELETED", "CONFIRMATION_FAILED",
           "DIDNT_RECEIVE_ACK", "DATA_GENERATED", "GOT_ACK", "INVALID_HASH"}

Init ==
    /\ curr_state = "INITIALIZE" /\ pc = "entry" /\ reason = "NO_FAULT"
    /\ fault_reason = "NO_FAULT" /\ synced_evt_sem = 0 /\ synced_sem = 0
    /\ recv = "NULL" /\ default_sync = "NULL"
    /\ unconfirmed_ticks = 0 /\ timer = "stopped"
    /\ scan = "off" /\ sync = "none"
    /\ subevent = "unset" /\ delivery = "off" /\ response = "none"

NoLink == sync' = "none" /\ subevent' = "unset" /\ delivery' = "off"

\* sys_reboot, or the CPU fault handler.
Reboot ==
    /\ curr_state' = "INITIALIZE" /\ pc' = "entry" /\ reason' = "NO_FAULT"
    /\ fault_reason' = "NO_FAULT" /\ synced_evt_sem' = 0 /\ synced_sem' = 0
    /\ recv' = "NULL" /\ default_sync' = "NULL"
    /\ unconfirmed_ticks' = 0 /\ timer' = "stopped"
    /\ scan' = "off" /\ NoLink /\ UNCHANGED response

\* Mutant: the semaphore has no limit.
RaiseCounting(e) == fault_reason' = e /\ synced_evt_sem' = synced_evt_sem + 1

\* atomic_set(&fault_reason, e) and k_sem_give(&synced_evt_sem).
Raise(e) == fault_reason' = e /\ synced_evt_sem' = 1

At(state, label)  == curr_state = state /\ pc = label
Goto(state, label) == curr_state' = state /\ pc' = label
-----------------------------------------------------------------------------
(* The main thread.                                                        *)

init ==
    /\ At("INITIALIZE", "entry")
    /\ \/ Goto("SYNCING", "entry") /\ UNCHANGED fault_reason
       \/ /\ "init_error" \in Env
          /\ Goto("FAULT_HANDLING", "entry")
          /\ fault_reason' \in {fault_reason, "BLE_ENABLE_FAILED"}
    /\ UNCHANGED <<reason, synced_evt_sem, synced_sem, recv, default_sync,
                   unconfirmed_ticks, timer, host>>

syncing_entry ==
    /\ At("SYNCING", "entry")
    /\ Goto("SYNCING", IF default_sync # "NULL" THEN "delete" ELSE "scan")
    /\ UNCHANGED <<reason, evt, synced_sem, recv, default_sync,
                   unconfirmed_ticks, timer, host>>

\* Deleting an established sync runs term_cb in this thread with reason 22.
\* Deleting one that is still being created cancels it, unless it was just
\* established: then the cancel comes too late and sync_cb still runs.  When the
\* sync was lost since the test there is nothing to delete.
syncing_delete ==
    /\ At("SYNCING", "delete")
    /\ Goto("SYNCING", "forget")
    /\ \/ /\ sync = "synced"
          /\ NoLink /\ default_sync' = "NULL" /\ Raise("BLE_SYNC_DELETED")
       \/ /\ sync = "pending"
          /\ NoLink /\ UNCHANGED <<default_sync, evt>>
       \/ /\ \/ sync = "none"
             \/ sync = "pending" /\ "late_cancel" \in Env
             \/ "delete_error" \in Env
          /\ UNCHANGED <<link, default_sync, evt>>
    /\ UNCHANGED <<reason, synced_sem, recv, unconfirmed_ticks, timer,
                   scan, response>>

\* default_sync = NULL, whatever sync_cb stored in the meantime.
syncing_forget ==
    /\ At("SYNCING", "forget")
    /\ Goto("SYNCING", "scan")
    /\ default_sync' = "NULL"
    /\ UNCHANGED <<reason, evt, synced_sem, recv, unconfirmed_ticks, timer, host>>

syncing_scan ==
    /\ At("SYNCING", "scan")
    /\ \/ /\ Goto("SYNCING", "wait")
          /\ scan' = "on" /\ UNCHANGED fault_reason
       \/ /\ "scan_start_error" \in Env
          /\ Goto("FAULT_HANDLING", "entry")
          /\ fault_reason' = "BLE_SCAN_START_FAILED" /\ UNCHANGED scan
    /\ UNCHANGED <<reason, synced_evt_sem, synced_sem, recv, default_sync,
                   unconfirmed_ticks, timer, link, response>>

syncing_take ==
    /\ At("SYNCING", "wait") /\ synced_sem = 1
    /\ synced_sem' = 0
    /\ Goto("CONFIRMING", "entry")
    /\ UNCHANGED <<reason, evt, recv, default_sync, unconfirmed_ticks,
                   timer, host>>

\* The sleep of one interval lies between the two steps.
confirming_entry ==
    /\ At("CONFIRMING", "entry")
    /\ unconfirmed_ticks' = 0
    /\ Goto("CONFIRMING", "sleep")
    /\ UNCHANGED <<reason, evt, synced_sem, recv, default_sync, timer, host>>

confirming_awake ==
    /\ At("CONFIRMING", "sleep")
    /\ recv' = "confirm_recv_cb"
    /\ Goto("CONFIRMING", "wait")
    /\ UNCHANGED <<reason, evt, synced_sem, default_sync, unconfirmed_ticks,
                   timer, host>>

\* k_sem_take and k_sem_reset; the event is read in a later step.
take_event ==
    /\ curr_state \in {"CONFIRMING", "ENABLED"} /\ pc = "wait"
    /\ synced_evt_sem = 1 /\ synced_evt_sem' = 0
    /\ Goto(curr_state, "read")
    /\ UNCHANGED <<reason, fault_reason, synced_sem, recv, default_sync,
                   unconfirmed_ticks, timer, host>>

confirming_decide ==
    /\ At("CONFIRMING", "read")
    /\ \/ /\ fault_reason \in {"INVALID_HASH", "CONFIRMATION_FAILED",
                               "BLE_SYNC_DELETED", "BLE_SYNC_TIMEOUT"}
          /\ recv' = "NULL"
          /\ Goto("SYNCING", "entry") /\ UNCHANGED timer
       \/ /\ fault_reason = "NO_FAULT"
          /\ timer' = "running"
          /\ Goto("SLEEPING", "entry") /\ UNCHANGED recv
       \/ /\ fault_reason \in {"DATA_GENERATED", "GOT_ACK", "DIDNT_RECEIVE_ACK",
                               "BLE_ENABLE_FAILED", "BLE_SCAN_START_FAILED"}
          /\ Goto("FAULT_HANDLING", "entry") /\ UNCHANGED <<recv, timer>>
    /\ UNCHANGED <<reason, evt, synced_sem, default_sync, unconfirmed_ticks, host>>

\* bt_le_per_adv_sync_recv_enable and _disable on default_sync.  With NULL, as
\* with bt_le_per_adv_sync_delete when term_cb runs after the test, the
\* host reads through a null pointer: nothing happens, or the CPU faults.
set_recv(on) == delivery' = IF default_sync # "NULL" /\ sync = "synced" THEN on ELSE delivery

null_fault ==
    /\ "null_fault" \in Env /\ default_sync = "NULL"
    /\ \/ At("SYNCING", "delete") \/ At("SLEEPING", "entry") \/ At("ENABLED", "arm")
       \/ At("ENABLED", "read") /\ fault_reason = "GOT_ACK"
    /\ Reboot

sleeping_entry ==
    /\ At("SLEEPING", "entry")
    /\ set_recv("off")
    /\ Goto("SLEEPING", "wait")
    /\ UNCHANGED <<reason, evt, synced_sem, recv, default_sync,
                   unconfirmed_ticks, timer, scan, sync, subevent,
                   response>>

\* Here the event is read before the semaphore is cleared.
sleeping_take ==
    /\ At("SLEEPING", "wait") /\ synced_evt_sem = 1
    /\ synced_evt_sem' = 0
    /\ reason' = fault_reason
    /\ Goto("SLEEPING", "sem_init")
    /\ UNCHANGED <<fault_reason, synced_sem, recv, default_sync,
                   unconfirmed_ticks, timer, host>>

sleeping_sem_init ==
    /\ At("SLEEPING", "sem_init")
    /\ synced_evt_sem' = 0
    /\ Goto("SLEEPING", IF reason = "NO_FAULT" THEN "wait" ELSE "leave")
    /\ UNCHANGED <<reason, fault_reason, synced_sem, recv, default_sync,
                   unconfirmed_ticks, timer, host>>

\* ret_generator_stop and ret_default.
sleeping_leave ==
    /\ At("SLEEPING", "leave")
    /\ Goto(CASE reason = "DATA_GENERATED" -> "ENABLED"
              [] reason \in {"INVALID_HASH", "BLE_SYNC_TIMEOUT"} -> "SYNCING"
              [] OTHER -> "FAULT_HANDLING", "entry")
    /\ timer' = IF reason = "DATA_GENERATED" THEN timer ELSE "stopped"
    /\ recv' = "NULL"
    /\ UNCHANGED <<reason, evt, synced_sem, default_sync, unconfirmed_ticks, host>>

enabled_entry ==
    /\ At("ENABLED", "entry")
    /\ recv' = "ack_recv_cb"
    /\ Goto("ENABLED", "arm")
    /\ UNCHANGED <<reason, evt, synced_sem, default_sync, unconfirmed_ticks,
                   timer, host>>

enabled_arm ==
    /\ At("ENABLED", "arm")
    /\ unconfirmed_ticks' = 0
    /\ set_recv("on")
    /\ Goto("ENABLED", "wait")
    /\ UNCHANGED <<reason, evt, synced_sem, recv, default_sync, timer,
                   scan, sync, subevent, response>>

\* The generator goes on after an ack or new data, and is stopped otherwise.
enabled_decide ==
    /\ At("ENABLED", "read")
    /\ reason' = fault_reason
    /\ \/ /\ fault_reason = "GOT_ACK"
          /\ set_recv("off")
          /\ Goto("SLEEPING", "entry")
       \/ /\ fault_reason = "DATA_GENERATED"
          /\ Goto("ENABLED", "entry") /\ UNCHANGED delivery
       \/ /\ fault_reason \notin {"GOT_ACK", "DATA_GENERATED"}
          /\ Goto("ENABLED", "stop") /\ UNCHANGED delivery
    /\ UNCHANGED <<evt, synced_sem, recv, default_sync, unconfirmed_ticks,
                   timer, scan, sync, subevent, response>>

\* Mutant: the generator is left running.
enabled_stop_without_timer ==
    /\ At("ENABLED", "stop")
    /\ Goto(IF reason \in {"DIDNT_RECEIVE_ACK", "INVALID_HASH", "BLE_SYNC_TIMEOUT"}
            THEN "SYNCING" ELSE "FAULT_HANDLING", "entry")
    /\ UNCHANGED <<reason, evt, synced_sem, recv, default_sync, timer,
                   unconfirmed_ticks, host>>

\* ret_generator_stop.
enabled_stop ==
    /\ At("ENABLED", "stop")
    /\ timer' = "stopped"
    /\ Goto(IF reason \in {"DIDNT_RECEIVE_ACK", "INVALID_HASH", "BLE_SYNC_TIMEOUT"}
            THEN "SYNCING" ELSE "FAULT_HANDLING", "entry")
    /\ UNCHANGED <<reason, evt, synced_sem, recv, default_sync,
                   unconfirmed_ticks, host>>

handle_fault == curr_state = "FAULT_HANDLING" /\ Reboot
-----------------------------------------------------------------------------
(* Callbacks of the RX thread.                                             *)

\* Mutant: default_sync is left to sync_cb.
scan_recv_without_sync ==
    /\ scan = "on" /\ sync = "none"
    /\ sync' = "pending"
    /\ scan' = "off" /\ synced_sem' = 1
    /\ UNCHANGED <<main, evt, recv, default_sync, unconfirmed_ticks, timer,
                   subevent, delivery, response>>

\* An advertisement of the advertiser that verifies.  The host has room for
\* one sync, so a second bt_le_per_adv_sync_create fails.
scan_recv_cb ==
    /\ scan = "on" /\ sync = "none"
    /\ sync' = "pending" /\ default_sync' = "sync"
    /\ \/ scan' = "off" /\ synced_sem' = 1
       \/ "scan_stop_error" \in Env /\ UNCHANGED <<scan, synced_sem>>
    /\ UNCHANGED <<main, evt, recv, unconfirmed_ticks, timer,
                   subevent, delivery, response>>

\* The sync is established; the host passes indications on unless told not to.
sync_cb ==
    /\ sync = "pending"
    /\ sync' = "synced" /\ default_sync' = "sync" /\ delivery' = "on"
    /\ subevent' \in IF "subevent_error" \in Env THEN {"unset", "set"} ELSE {"set"}
    /\ UNCHANGED <<main, evt, synced_sem, recv, unconfirmed_ticks, timer,
                   scan, response>>

\* Mutant: the event is recorded but nobody is woken.
term_silently ==
    /\ "sync_lost" \in Env
    /\ sync # "none"
    /\ NoLink
    /\ default_sync' = "NULL"
    /\ fault_reason' = "BLE_SYNC_TIMEOUT"
    /\ UNCHANGED <<main, synced_evt_sem, synced_sem, recv, unconfirmed_ticks,
                   timer, scan, response>>

\* The host gives up a sync it could not establish or lost.
term_cb ==
    /\ "sync_lost" \in Env
    /\ sync # "none"
    /\ NoLink
    /\ default_sync' = "NULL"
    /\ Raise("BLE_SYNC_TIMEOUT")
    /\ UNCHANGED <<main, synced_sem, recv, unconfirmed_ticks, timer,
                   scan, response>>

\* A subevent's data arrives for callback cb.
Indication(cb) == sync = "synced" /\ subevent = "set" /\ delivery = "on" /\ recv = cb

\* unconfirmed_ticks += 1, past the limit too when the main thread does not run.
Tick == (unconfirmed_ticks + 1) % U8

recv_invalid ==
    /\ Indication("confirm_recv_cb") \/ Indication("ack_recv_cb")
    /\ Raise("INVALID_HASH")
    /\ UNCHANGED <<main, synced_sem, recv, default_sync, unconfirmed_ticks,
                   timer, host>>

LimitReached == Tick >= MAX_UNCONFIRMED_TICKS

\* Mutant: at the limit the event is recorded but nobody is woken.
confirm_recv_silently ==
    /\ Indication("confirm_recv_cb")
    /\ response' = "sent"
    /\ unconfirmed_ticks' = Tick
    /\ fault_reason' = IF LimitReached THEN "CONFIRMATION_FAILED" ELSE fault_reason
    /\ UNCHANGED <<main, synced_evt_sem, synced_sem, recv, default_sync, timer, scan, link>>

\* Registration: respond until acked, up to the limit.
confirm_recv_unacked ==
    /\ Indication("confirm_recv_cb")
    /\ response' = "sent"
    /\ unconfirmed_ticks' = Tick
    /\ IF LimitReached THEN Raise("CONFIRMATION_FAILED") ELSE UNCHANGED evt
    /\ UNCHANGED <<main, synced_sem, recv, default_sync, timer, scan, link>>

\* The ack of a response comes in the next indication or in a later one, or
\* never: the response may be lost, and so may the ack.
confirm_recv_acked ==
    /\ Indication("confirm_recv_cb") /\ response = "sent"
    /\ Raise("NO_FAULT")
    /\ UNCHANGED <<main, synced_sem, recv, default_sync, unconfirmed_ticks,
                   timer, host>>

\* Data: at the limit the scanner gives up instead of responding again.
ack_recv_unacked ==
    /\ Indication("ack_recv_cb")
    /\ unconfirmed_ticks' = Tick
    /\ IF LimitReached
       THEN Raise("DIDNT_RECEIVE_ACK") /\ UNCHANGED response
       ELSE UNCHANGED evt /\ response' = "sent"
    /\ UNCHANGED <<main, synced_sem, recv, default_sync, timer, scan, link>>

ack_recv_acked ==
    /\ Indication("ack_recv_cb") /\ response = "sent"
    /\ recv' = "NULL"
    /\ Raise("GOT_ACK")
    /\ UNCHANGED <<main, synced_sem, default_sync, unconfirmed_ticks,
                   timer, host>>

\* The generator's timer interrupt.
data_generated_cb ==
    /\ timer = "running"
    /\ Raise("DATA_GENERATED")
    /\ UNCHANGED <<main, synced_sem, recv, default_sync, unconfirmed_ticks,
                   timer, host>>
-----------------------------------------------------------------------------
syncing    == \/ syncing_entry \/ syncing_delete \/ syncing_forget
              \/ syncing_scan \/ syncing_take
confirming == confirming_entry \/ confirming_awake \/ confirming_decide
sleeping   == sleeping_entry \/ sleeping_take \/ sleeping_sem_init \/ sleeping_leave
enabled    == enabled_entry \/ enabled_arm \/ enabled_decide \/ enabled_stop

run_state == \/ init \/ syncing \/ confirming \/ sleeping \/ enabled
             \/ take_event \/ handle_fault

recv_cb == \/ confirm_recv_unacked \/ confirm_recv_acked
           \/ ack_recv_unacked \/ ack_recv_acked

Next == \/ run_state \/ null_fault
        \/ scan_recv_cb \/ sync_cb \/ term_cb
        \/ recv_cb \/ recv_invalid
        \/ data_generated_cb

Spec == Init /\ [][Next]_vars

\* The scheduler runs a ready thread and timers expire.  The controller
\* establishes a sync or gives it up, and while it is synced to a subevent it
\* reports indications.  Nothing says that an advertisement verifies, nor what an
\* indication holds.
Fairness ==
    /\ WF_vars(run_state)
    /\ WF_vars(sync = "pending" /\ (sync_cb \/ term_cb))
    /\ WF_vars(recv_cb \/ recv_invalid)
    /\ WF_vars(data_generated_cb)

FairSpec == Spec /\ Fairness

\* The same near an advertiser whose advertisements verify.
InRangeSpec == FairSpec /\ WF_vars(scan_recv_cb)
-----------------------------------------------------------------------------
(* Properties.                                                             *)

\* Every variable holds one of the values the code gives it.
TypeOK ==
    /\ curr_state \in {"INITIALIZE", "FAULT_HANDLING", "SYNCING", "CONFIRMING",
                       "SLEEPING", "ENABLED"}
    /\ pc \in {"entry", "delete", "forget", "scan", "wait", "sleep", "read", "sem_init", "leave",
               "arm", "stop"}
    /\ reason \in Events /\ fault_reason \in Events
    /\ synced_evt_sem \in {0, 1} /\ synced_sem \in {0, 1}
    /\ recv \in {"NULL", "confirm_recv_cb", "ack_recv_cb"}
    /\ default_sync \in {"NULL", "sync"}
    /\ unconfirmed_ticks \in 0 .. U8 - 1
    /\ timer \in {"stopped", "running"}
    /\ scan \in {"off", "on"}
    /\ sync \in {"none", "pending", "synced"}
    /\ subevent \in {"unset", "set"} /\ delivery \in {"off", "on"}
    /\ response \in {"none", "sent"}

\* Data is generated only while the scanner is registered: every way out of
\* SLEEPING and ENABLED stops the timer, so that EVT_DATA_GENERATED cannot be
\* raised anew in SYNCING or CONFIRMING.
GeneratorOnlyRegistered == timer = "running" => curr_state \in {"SLEEPING", "ENABLED"}

\* confirming() waits with K_FOREVER: when the sync is gone there is an event
\* to wake it.
ConfirmingWakes ==
    At("CONFIRMING", "wait") /\ sync = "none" => synced_evt_sem = 1

\* While the scanner registers or is registered, default_sync refers to the sync
\* the host keeps, so that recv_enable, recv_disable and the next syncing() reach
\* it.  syncing() may lose track of a sync when its delete fails or comes too
\* late; that sync takes the host's only place, bt_le_per_adv_sync_create fails,
\* and the scanner does not get past syncing() with it.
SyncHeld ==
    curr_state \in {"CONFIRMING", "SLEEPING", "ENABLED"} /\ sync # "none" =>
        default_sync # "NULL"

\* The K_FOREVER wait of confirming() ends whatever indications hold and whenever
\* the sync is lost.  The exception: bt_le_per_adv_sync_subevent failed, sync_cb
\* only logs that, and no indication ever comes.
ConfirmingEnds ==
    curr_state = "CONFIRMING" ~>
        \/ curr_state # "CONFIRMING"
        \/ sync = "synced" /\ subevent = "unset"
-----------------------------------------------------------------------------
(* Statements of the documentation that the code does not keep.            *)

\* term_cb: "When scan is terminated it set's the fault reason which is for
\* current state to handle properly"; scanner/Kconfig, NUM_FAILED_SYNC: "the
\* scanner will re enable ble scan".
LostSyncRescans ==
    sync = "none" /\ curr_state \in {"SLEEPING", "ENABLED"} ~>
       curr_state \notin {"SLEEPING", "ENABLED"}

\* unconfirmed_ticks: "If this number reaches CONFIG_MAX_UNCONFIRMED_TICKS, the
\* device will try to register again."
TriesToRegisterAgain ==
    curr_state = "SYNCING" /\ fault_reason = "CONFIRMATION_FAILED" ~>
       curr_state = "CONFIRMING" /\ recv = "confirm_recv_cb" /\ unconfirmed_ticks > 0
=============================================================================
