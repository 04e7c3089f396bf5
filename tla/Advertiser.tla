----------------------------- MODULE Advertiser -----------------------------
(***************************************************************************)
(* advertiser/src/advertiser_fsm.c: the PAwR advertiser.                   *)
(*                                                                         *)
(* Two threads and an interrupt share its RAM.  The main thread runs the   *)
(* state machine (init, advertising, soft_reboot, fault_handling).  The    *)
(* Bluetooth RX thread runs request_cb and response_cb, one at a time;     *)
(* request_cb blocks in HCI commands, so the main thread may run between   *)
(* its steps, but never another callback.  button_cb is the interrupt.     *)
(*                                                                         *)
(* A device is its dev_id, NoDev stands for dev_id = 0.  Payloads other    *)
(* than the counter, the register list and the acks are left out, and so   *)
(* are responses without a usable buffer: response_cb returns unchanged.   *)
(***************************************************************************)
EXTENDS Naturals, Sequences, FreeList, Transfer, SecureCounter

CONSTANTS
    NUM_RSP_SLOTS,       \* response slots per subevent
    MAX_NUM_SUBEVENTS,   \* subevents per periodic event
    NUM_REGISTER_SLOTS,  \* CONFIG_NUM_REGISTER_SLOTS
    EVENTS_PER_BLOCK,    \* periodic events per data block
    U8,                  \* 2^8: the range of a uint8_t
    Devices,             \* ids of the scanners
    NoDev,               \* dev_id 0
    Env,                 \* what the environment may do, of Disturbances
    AnsweredIn,          \* bound: response slots that responses come in
    MaxCounter,          \* bound: no new event once the counter is here
    MaxBoots             \* bound: number of reboots

\* Presses of Button 0, resets and power losses, errors of the calls of init
\* and of the two commits, of bt_le_ext_adv_set_data outside init, of
\* bt_le_per_adv_set_subevent_data, MACs the advertiser's keys reject, responses
\* in slots that were not handed out, and responses to earlier indications.
Disturbances ==
    {"button", "reset", "init_error", "adv_error", "subevent_error",
     "bad_mac", "stray", "late"}

ASSUME AdvertiserAssumption ==
    /\ Env \subseteq Disturbances
    /\ NUM_RSP_SLOTS \in Nat \ {0}
    /\ MAX_NUM_SUBEVENTS \in Nat \ {0}
    /\ NUM_REGISTER_SLOTS \in Nat \ {0}
    /\ 2 * NUM_REGISTER_SLOTS < NUM_RSP_SLOTS
    /\ EVENTS_PER_BLOCK \in Nat \ {0}
    /\ U8 \in Nat
    /\ 3 * EVENTS_PER_BLOCK + 1 < U8
    /\ MAX_NUM_SUBEVENTS + 1 < U8
    /\ NUM_RSP_SLOTS < U8
    /\ AnsweredIn \subseteq 0 .. NUM_RSP_SLOTS - 1
    /\ NoDev \notin Devices
    /\ MaxCounter \in Nat
    /\ MaxBoots \in Nat

VARIABLES
    curr_state,              \* state of the FSM
    step,                    \* how far the main thread is in that state
    reboot_sem,              \* binary semaphore given by the button
    per_adv,                 \* periodic advertising: callbacks come while "on"
    counter,                 \* counter.value
    rollover,                \* wraps not yet added to the counter
    key,                     \* persistent storage of the counter
    last_used,               \* first slot never handed out
    register_subevent_data,  \* slots offered to new devices
    free_list,
    rsp_slots,               \* owner and silence of every response slot
    rx,                      \* position of the RX thread in request_cb
    todo,                    \* subevents request_cb still has to fill
    subevent,                \* next subevent the controller asks data for
    j,                       \* loop index over the response slots
    ack_data,                \* acks collected for the subevent
    adv,                     \* payload of the extended advertisement
    adv_result,              \* of the last set_adv_data
    \* History: what other parts of the system can know.
    published,               \* counters sent in each subevent since boot
    heard,                   \* devices verified in a slot since its last event
    leaked,                  \* slots dropped because the free list was full
    strayed,                 \* a slot was taken or freed without reserve_slot
    promised,                \* counter when the button reboot began
    boots

main  == <<curr_state, step, reboot_sem, per_adv>>
count == <<counter, rollover>>
flash == <<key, promised, boots>>
table == <<last_used, register_subevent_data, free_list, rsp_slots>>
loop  == <<rx, todo, subevent, j, ack_data>>
air   == <<adv, adv_result>>
seen  == <<published, heard, leaked, strayed>>
vars  == <<main, count, flash, table, loop, air, seen>>
-----------------------------------------------------------------------------
Subevents == 0 .. MAX_NUM_SUBEVENTS - 1
RspSlots  == 0 .. NUM_RSP_SLOTS - 1
Regs      == 0 .. NUM_REGISTER_SLOTS - 1
DevIds    == Devices \cup {NoDev}

\* register_data_t: subevent is a uint8_t and may lie past the last subevent.
Slots     == [subevent: 0 .. U8 - 1, rsp_slot: RspSlots]
SlotData  == [dev_id: DevIds, inactive_for: 0 .. U8 - 1]

Slot(s, r)    == [subevent |-> s, rsp_slot |-> r]
Entries(list) == {list[i] : i \in DOMAIN list}
RegisterSlots == Entries(register_subevent_data)

\* RAM after a boot and after init_bufs, which calls reserve_slot
\* NUM_REGISTER_SLOTS times on an empty free list; nothing runs before it.
BootRegisterData == [i \in Regs |-> Slot(0, NUM_REGISTER_SLOTS + i)]
BootLastUsed     == Slot(0, 2 * NUM_REGISTER_SLOTS)
BootRspSlots     == [s \in Subevents |->
                       [r \in RspSlots |-> [dev_id |-> NoDev, inactive_for |-> 0]]]
NoAcks           == [r \in RspSlots |-> NoDev]

\* A cold reboot: RAM is lost, storage stays.
Reboot ==
    /\ boots < MaxBoots
    /\ boots' = boots + 1
    /\ UNCHANGED <<key, promised>>
    /\ curr_state' = "INITIALIZE" /\ step' = "entry"
    /\ reboot_sem' = 0 /\ per_adv' = "off"
    /\ counter' = 0 /\ rollover' = 0
    /\ last_used' = BootLastUsed
    /\ register_subevent_data' = BootRegisterData
    /\ free_list' = <<>>
    /\ rsp_slots' = BootRspSlots
    /\ rx' = "idle" /\ todo' = 0 /\ subevent' = 0 /\ j' = 0
    /\ ack_data' = NoAcks
    /\ adv' = [reg |-> BootRegisterData, counter |-> 0]
    /\ adv_result' = "error"
    /\ published' = [s \in Subevents |-> {}]
    /\ heard' = [s \in Subevents |-> [r \in RspSlots |-> {}]]
    /\ leaked' = {} /\ strayed' = FALSE

Init ==
    /\ curr_state = "INITIALIZE" /\ step = "entry"
    /\ reboot_sem = 0 /\ per_adv = "off"
    /\ counter = 0 /\ rollover = 0
    /\ key = 0                       \* crypto_flasher committed 0
    /\ last_used = BootLastUsed
    /\ register_subevent_data = BootRegisterData
    /\ free_list = <<>>
    /\ rsp_slots = BootRspSlots
    /\ rx = "idle" /\ todo = 0 /\ subevent = 0 /\ j = 0
    /\ ack_data = NoAcks
    /\ adv = [reg |-> BootRegisterData, counter |-> 0]
    /\ adv_result = "error"
    /\ published = [s \in Subevents |-> {}]
    /\ heard = [s \in Subevents |-> [r \in RspSlots |-> {}]]
    /\ leaked = {} /\ strayed = FALSE
    /\ promised = 0 /\ boots = 0
-----------------------------------------------------------------------------
\* Mutant: the counter in the buffer is not refreshed.
set_adv_data_stale(reg, value, ok) ==
    /\ ok \/ "adv_error" \in Env
    /\ adv' = IF ok THEN [adv EXCEPT !.reg = reg] ELSE adv
    /\ adv_result' = IF ok THEN "ok" ELSE "error"

\* set_adv_data: publishes the register list and the counter without rollover;
\* ok is the result of bt_le_ext_adv_set_data.
set_adv_data(reg, value, ok) ==
    /\ ok \/ "adv_error" \in Env
    /\ adv' = IF ok THEN [reg |-> reg, counter |-> value] ELSE adv
    /\ adv_result' = IF ok THEN "ok" ELSE "error"

\* reserve_slot: the slot handed out, and the two places it may come from.
reserve_slot ==
    IF free_list_empty(free_list) THEN last_used ELSE free_list_top(free_list)

reserve_slot_list ==
    IF free_list_empty(free_list) THEN free_list ELSE free_list_pop(free_list)

\* Mutant: the next subevent is not entered at the end of a row.
reserve_same_subevent ==
    IF ~free_list_empty(free_list) THEN last_used
    ELSE Slot(last_used.subevent, (last_used.rsp_slot + 1) % NUM_RSP_SLOTS)

\* Mutant: a row ends after the number of register slots.
reserve_short_rows ==
    IF ~free_list_empty(free_list) THEN last_used
    ELSE IF last_used.rsp_slot + 1 >= NUM_REGISTER_SLOTS
         THEN Slot((last_used.subevent + 1) % U8, 0)
         ELSE Slot(last_used.subevent, last_used.rsp_slot + 1)

reserve_slot_last ==
    IF ~free_list_empty(free_list) THEN last_used
    ELSE IF last_used.rsp_slot + 1 = NUM_RSP_SLOTS
         THEN Slot((last_used.subevent + 1) % U8, 0)
         ELSE Slot(last_used.subevent, last_used.rsp_slot + 1)

\* Mutant: the slot is not given back.
free_slot_forgotten(s) == UNCHANGED <<free_list, leaked>>

\* free_list_append with its result ignored: a full list loses the slot.
free_slot(s) ==
    /\ free_list' = free_list_append(free_list, s)
    /\ leaked' = IF free_list_full(free_list) THEN leaked \cup {s} ELSE leaked

\* Slots reserve_slot has handed out since boot: after the reserved prefix and
\* before last_used.
Below(s, t) == \/ s.subevent < t.subevent
               \/ s.subevent = t.subevent /\ s.rsp_slot < t.rsp_slot
Reserved(s) == s.subevent = 0 /\ s.rsp_slot < NUM_REGISTER_SLOTS
HandedOut(s) == Below(s, last_used) /\ ~Reserved(s)
-----------------------------------------------------------------------------
(* The main thread.                                                        *)

\* init up to crypto_secure_counter_init.  Without PSA every later PSA call
\* fails too, a commit included.
InitCryptoFails ==
    /\ "init_error" \in Env
    /\ curr_state = "INITIALIZE" /\ step = "entry"
    /\ curr_state' = "FAULT_HANDLING" /\ step' = "no_psa"
    /\ UNCHANGED <<reboot_sem, per_adv, count, flash, table, loop, air, seen>>

\* The counter is read, or drawn and committed when the key is missing.
InitCounter(value) ==
    /\ curr_state = "INITIALIZE" /\ step = "entry"
    /\ counter' = value
    /\ IF key = NoKey
       THEN key' = psa_import_key(value) /\ promised' = 0
       ELSE UNCHANGED <<key, promised>>
    /\ step' = "loaded"
    /\ UNCHANGED <<curr_state, reboot_sem, per_adv, rollover, boots,
                   table, loop, air, seen>>

\* A failing export leaves 0 in the counter, a failing import the random value.
InitCounterFails(value) ==
    /\ "init_error" \in Env
    /\ curr_state = "INITIALIZE" /\ step = "entry"
    /\ value \in (IF key = NoKey THEN RandomCounters ELSE {0})
    /\ counter' = value
    /\ curr_state' = "FAULT_HANDLING"
    /\ UNCHANGED <<step, reboot_sem, per_adv, rollover, flash,
                   table, loop, air, seen>>

\* bt_enable up to and including bt_le_per_adv_start.
InitPeriodicAdv ==
    /\ curr_state = "INITIALIZE" /\ step = "loaded"
    /\ set_adv_data(register_subevent_data, counter, TRUE)
    /\ per_adv' = "on"
    /\ step' = "started"
    /\ UNCHANGED <<curr_state, reboot_sem, count, flash, table, loop, seen>>

InitExtendedAdv ==
    /\ curr_state = "INITIALIZE" /\ step = "started"
    /\ curr_state' = "ADVERTISING" /\ step' = "entry"
    /\ UNCHANGED <<reboot_sem, per_adv, count, flash, table, loop, air, seen>>

\* Any of the Bluetooth calls of init fails; after bt_le_per_adv_start the
\* periodic train, and with it request_cb, keeps running.
InitBluetoothFails ==
    /\ "init_error" \in Env
    /\ curr_state = "INITIALIZE" /\ step \in {"loaded", "started"}
    /\ curr_state' = "FAULT_HANDLING" /\ step' = "entry"
    /\ UNCHANGED <<reboot_sem, per_adv, count, flash, table, loop, air, seen>>

advertising ==
    /\ curr_state = "ADVERTISING"
    /\ reboot_sem = 1
    /\ reboot_sem' = 0
    /\ curr_state' = "SOFT_REBOOT"
    /\ UNCHANGED <<step, per_adv, count, flash, table, loop, air, seen>>

\* crypto_secure_counter_commit of soft_reboot and fault_handling, first half.
\* A reboot by button promises the scanners to go on from this counter.
CommitDestroy ==
    /\ curr_state \in {"SOFT_REBOOT", "FAULT_HANDLING"} /\ step = "entry"
    /\ key' = psa_destroy_key(key)
    /\ promised' = IF curr_state = "SOFT_REBOOT" THEN counter ELSE 0
    /\ step' = "destroyed"
    /\ UNCHANGED <<curr_state, reboot_sem, per_adv, count, boots,
                   table, loop, air, seen>>

\* Second half, with the counter value of that moment.
CommitImport ==
    /\ step = "destroyed"
    /\ key' = psa_import_key(counter)
    /\ step' = "committed"
    /\ UNCHANGED <<curr_state, reboot_sem, per_adv, count, promised, boots,
                   table, loop, air, seen>>

\* sys_reboot: after a commit, or after one whose result is ignored when the
\* destroy ("entry", "no_psa") or the import ("destroyed") fails.
SysReboot ==
    /\ curr_state \in {"SOFT_REBOOT", "FAULT_HANDLING"}
    /\ step \in {"committed", "no_psa"} \/ "init_error" \in Env
    /\ Reboot

\* The reset button or a power loss, at any point.
HardReset == "reset" \in Env /\ Reboot

button_cb ==
    /\ "button" \in Env
    /\ reboot_sem' = 1
    /\ UNCHANGED <<curr_state, step, per_adv, count, flash, table, loop, air, seen>>
-----------------------------------------------------------------------------
(* request_cb.                                                             *)

\* Mutant: the wraps are forgotten instead of added.
drop_rollover == counter' = counter /\ rollover' = 0

add_rollover  == counter' = counter + rollover /\ rollover' = 0

\* Assumed of the controller: each request starts where the last one ended, so
\* no subevent, and in particular not subevent 0, is skipped or asked for twice.
\* The code relies on it: an event whose subevent 0 is never asked for would be
\* sent with the counter of the event before.
InSequence(start) == start = subevent

\* Entry: the controller asks for n subevents from start on.
RequestCb(start, n) ==
    /\ per_adv = "on" /\ rx = "idle"
    /\ InSequence(start)
    /\ counter + rollover < MaxCounter
    /\ add_rollover
    /\ subevent' = start
    /\ rx' = "subevent" /\ todo' = n
    /\ UNCHANGED <<j, ack_data, main, flash, table, air, seen>>

\* Head of the loop over the subevents: subevent 0 begins a new event.
RequestSubevent(ok) ==
    /\ rx = "subevent"
    /\ IF subevent = 0
       THEN /\ rollover' = rollover + 1
            /\ set_adv_data(register_subevent_data, counter, ok)
       ELSE ok /\ UNCHANGED <<rollover, air>>
    /\ rx' = "slots" /\ j' = 0
    /\ UNCHANGED <<counter, todo, subevent, ack_data, main, flash, table, seen>>

\* What one event of silence makes of a slot, and whether its device is gone.
Older(sd)  == (sd.inactive_for + 1) % U8

\* Mutant: the limit is compared before the increment.
TimesOutLate(sd) == sd.dev_id # NoDev /\ sd.inactive_for > 3 * EVENTS_PER_BLOCK

\* Mutant: one silent block instead of three.
TimesOutEarly(sd) == sd.dev_id # NoDev /\ Older(sd) > EVENTS_PER_BLOCK

TimesOut(sd) == sd.dev_id # NoDev /\ Older(sd) > 3 * EVENTS_PER_BLOCK
AgedSlot(sd) ==
    IF TimesOut(sd) THEN [dev_id |-> NoDev, inactive_for |-> 0]
                    ELSE [sd EXCEPT !.inactive_for = Older(sd)]

AckFor(sd) ==
    IF sd.inactive_for = 1 /\ sd.dev_id # NoDev THEN sd.dev_id ELSE NoDev

\* Body of the loop over the response slots.
RequestSlot ==
    LET sd == rsp_slots[subevent][j]
    IN  /\ rx = "slots" /\ j < NUM_RSP_SLOTS
        /\ rsp_slots' = [rsp_slots EXCEPT ![subevent][j] = AgedSlot(sd)]
        /\ IF TimesOut(sd) THEN free_slot(Slot(subevent, j))
                           ELSE UNCHANGED <<free_list, leaked>>
        /\ ack_data' = [ack_data EXCEPT ![j] = AckFor(AgedSlot(sd))]
        /\ heard' = [heard EXCEPT ![subevent][j] = {}]
        /\ j' = j + 1
        /\ UNCHANGED <<rx, todo, subevent, last_used, register_subevent_data,
                       published, strayed, main, count, flash, air>>

\* Mutant: the wraps of this request are left out.
SubeventCounterLate == counter

\* Tail: the subevent's data goes to the controller (ok) or is lost.
SubeventCounter == counter + rollover

RequestPublish(ok) ==
    /\ rx = "slots" /\ j = NUM_RSP_SLOTS
    /\ ok \/ "subevent_error" \in Env
    /\ published' = IF ok
                    THEN [published EXCEPT ![subevent] = @ \cup {SubeventCounter}]
                    ELSE published
    /\ subevent' = (subevent + 1) % MAX_NUM_SUBEVENTS
    /\ todo' = todo - 1
    /\ rx' = IF todo = 1 THEN "idle" ELSE "subevent"
    /\ j' = 0
    /\ ack_data' = IF todo = 1 THEN NoAcks ELSE ack_data
    /\ UNCHANGED <<heard, leaked, strayed, main, count, flash, table, air>>
-----------------------------------------------------------------------------
(* response_cb: device d answers in slot s with counter rc.                *)

\* Every response slot of every subevent is open (response_slot_start and
\* response_slot_count), whether it was handed out or not; a response carries
\* the counter of an indication of that subevent, usually of the last one.
AirSlots == [subevent: Subevents, rsp_slot: AnsweredIn]

Responds(s, rc) ==
    /\ curr_state \in {"ADVERTISING", "SOFT_REBOOT"}
    /\ rx = "idle"
    /\ s \in AirSlots /\ rc \in published[s.subevent]
    /\ "stray" \in Env \/ HandedOut(s)
    /\ "late" \in Env \/ \A c \in published[s.subevent] : c <= rc

Owner(s) == rsp_slots[s.subevent][s.rsp_slot].dev_id

\* With an intact MAC, which a response lacks only under "bad_mac".
Verified(rc) == verify_message(TRUE, rc, counter) = "TRANSFER_NO_ERROR"

\* The bookkeeping every verified response shares.
Hear(d, s, rc) ==
    /\ counter' = verified_counter(rc, counter)
    /\ heard' = [heard EXCEPT ![s.subevent][s.rsp_slot] = @ \cup {d}]

ResponseRejected(s, rc) ==
    /\ Responds(s, rc)
    /\ Verified(rc) => "bad_mac" \in Env
    /\ rsp_slots' = [rsp_slots EXCEPT ![s.subevent][s.rsp_slot] =
                        [@ EXCEPT !.dev_id = NoDev]]
    /\ free_slot(s)
    /\ strayed' = TRUE
    /\ UNCHANGED <<last_used, register_subevent_data, published, heard,
                   main, count, flash, loop, air>>

\* The register entries that name s; the code replaces the first.
Matching(s) == {i \in Regs : register_subevent_data[i] = s}
FirstMatching(s) == CHOOSE i \in Matching(s) : \A k \in Matching(s) : i <= k

\* An empty slot is taken; a register slot among them is replaced.  The first
\* set_adv_data still carries the old register list.
ResponseRegisters(d, s, rc, ok1, ok2) ==
    /\ Responds(s, rc) /\ Verified(rc)
    /\ Owner(s) = NoDev
    /\ (ok1 /\ ok2) \/ "adv_error" \in Env
    /\ Hear(d, s, rc)
    /\ rsp_slots' = [rsp_slots EXCEPT ![s.subevent][s.rsp_slot] =
                        [dev_id |-> d, inactive_for |-> 0]]
    /\ IF Matching(s) = {}
       THEN UNCHANGED <<register_subevent_data, free_list, last_used>>
       ELSE /\ register_subevent_data' =
                 [register_subevent_data EXCEPT ![FirstMatching(s)] = reserve_slot]
            /\ free_list' = reserve_slot_list
            /\ last_used' = reserve_slot_last
    /\ adv' = IF ok2 THEN [reg |-> register_subevent_data', counter |-> counter']
              ELSE IF ok1 THEN [reg |-> register_subevent_data, counter |-> counter']
              ELSE adv
    /\ adv_result' = IF ok2 THEN "ok" ELSE "error"
    /\ strayed' = (strayed \/ Matching(s) = {})
    /\ UNCHANGED <<rollover, published, leaked, main, flash, loop>>

\* Mutant: the slot goes to whoever answers.
RefreshedTakesOver(sd, d) == [dev_id |-> d, inactive_for |-> 0]

\* Mutant: any sender keeps the slot alive.
RefreshedByAny(sd, d) == [sd EXCEPT !.inactive_for = 0]

\* Only its owner keeps a slot alive.
Refreshed(sd, d) ==
    IF sd.dev_id = d THEN [sd EXCEPT !.inactive_for = 0] ELSE sd

\* The owner of the slot, or another device that is not answered.
ResponseInOwnedSlot(d, s, rc, ok) ==
    /\ Responds(s, rc) /\ Verified(rc)
    /\ Owner(s) # NoDev
    /\ Hear(d, s, rc)
    /\ set_adv_data(register_subevent_data, counter', ok)
    /\ rsp_slots' = [rsp_slots EXCEPT ![s.subevent][s.rsp_slot] = Refreshed(@, d)]
    /\ UNCHANGED <<rollover, last_used, register_subevent_data, free_list,
                   published, leaked, strayed, main, flash, loop>>
-----------------------------------------------------------------------------
MainThread ==
    \/ InitCryptoFails
    \/ \E value \in crypto_secure_counter_value(key) : InitCounter(value)
    \/ \E value \in RandomCounters \cup {0} : InitCounterFails(value)
    \/ InitPeriodicAdv \/ InitExtendedAdv \/ InitBluetoothFails
    \/ advertising
    \/ CommitDestroy \/ CommitImport \/ SysReboot

request_cb ==
    \/ \E start \in Subevents, n \in 1 .. MAX_NUM_SUBEVENTS : RequestCb(start, n)
    \/ \E ok \in BOOLEAN : RequestSubevent(ok)
    \/ RequestSlot
    \/ \E ok \in BOOLEAN : RequestPublish(ok)

ResponseVerified(d, s, rc) ==
    \/ \E ok1, ok2 \in BOOLEAN : ResponseRegisters(d, s, rc, ok1, ok2)
    \/ \E ok \in BOOLEAN : ResponseInOwnedSlot(d, s, rc, ok)

ResponseCb(d, s, rc) == ResponseRejected(s, rc) \/ ResponseVerified(d, s, rc)

response_cb ==
    \E s \in AirSlots, rc \in 0 .. counter + rollover :
       \/ ResponseRejected(s, rc)
       \/ \E d \in Devices : ResponseVerified(d, s, rc)

Next == MainThread \/ button_cb \/ HardReset \/ request_cb \/ response_cb

Spec == Init /\ [][Next]_vars
-----------------------------------------------------------------------------
(* Properties.                                                             *)

\* The advertiser implements the service its scanners rely on: a slot never passes
\* from one device to another directly, a device that was heard does not lose its
\* slot to the timeout, and the counters of a subevent grow.
owners  == [s \in Subevents |-> [r \in RspSlots |-> rsp_slots[s][r].dev_id]]
Service == INSTANCE SlotService WITH Subs <- Subevents, Rsp <- RspSlots, owner <- owners

ServiceSpec == Service!Spec

\* Every variable holds a value of its C type; the free list never overruns
\* its array.
TypeOK ==
    /\ curr_state \in {"INITIALIZE", "ADVERTISING", "FAULT_HANDLING", "SOFT_REBOOT"}
    /\ step \in {"entry", "no_psa", "loaded", "started", "destroyed", "committed"}
    /\ reboot_sem \in {0, 1}
    /\ per_adv \in {"off", "on"}
    /\ counter \in Nat /\ rollover \in Nat
    /\ key \in StoredKey /\ promised \in Nat /\ boots \in Nat
    /\ last_used \in Slots
    /\ register_subevent_data \in [Regs -> Slots]
    /\ free_list \in Seq(Slots) /\ Len(free_list) <= MAX_FREE_SLOTS
    /\ rsp_slots \in [Subevents -> [RspSlots -> SlotData]]
    /\ rx \in {"idle", "subevent", "slots"}
    /\ todo \in 0 .. MAX_NUM_SUBEVENTS /\ (rx # "idle" => todo > 0)
    /\ subevent \in Subevents
    /\ j \in 0 .. NUM_RSP_SLOTS
    /\ ack_data \in [RspSlots -> DevIds]
    /\ adv \in [reg: [Regs -> Slots], counter: Nat] /\ adv_result \in {"ok", "error"}
    /\ published \in [Subevents -> SUBSET Nat]
    /\ heard \in [Subevents -> [RspSlots -> SUBSET Devices]]
    /\ leaked \in SUBSET Slots /\ strayed \in BOOLEAN

\* The ack request_cb publishes for a slot (lines 149-157: "There was data in
\* prev slot, return ack") names the owner exactly when a response of that
\* owner was verified since the subevent's previous event.
AckExact ==
    [][j' = j + 1 =>
         LET owner == rsp_slots[subevent][j].dev_id
         IN  ack_data'[j] = IF owner \in heard[subevent][j] THEN owner ELSE NoDev
      ]_vars

\* A device keeps its slot through at most 3 * EVENTS_PER_BLOCK silent events:
\* inactive_for, a uint8_t, never wraps past the limit for an owned slot.
InactiveBounded ==
    \A s \in Subevents, r \in RspSlots :
       rsp_slots[s][r].dev_id # NoDev =>
          rsp_slots[s][r].inactive_for <= 3 * EVENTS_PER_BLOCK

Owned(s) == s.subevent \in Subevents /\ Owner(s) # NoDev

NoRepeats ==
    /\ \A a, b \in Regs : register_subevent_data[a] = register_subevent_data[b] => a = b
    /\ \A a, b \in DOMAIN free_list : free_list[a] = free_list[b] => a = b

InOnePlace(s) ==
    /\ s \in RegisterSlots => HandedOut(s) /\ s \notin Entries(free_list) \cup leaked
    /\ s \in Entries(free_list) => HandedOut(s) /\ s \notin leaked
    /\ s \in leaked => HandedOut(s)
    /\ Owned(s) => HandedOut(s) /\ s \notin RegisterSlots \cup Entries(free_list) \cup leaked

\* No slot is handed out twice: it is open for registration, owned, on the free
\* list or lost, and only one of these, and reserve_slot handed it out.  This
\* holds until a response makes response_cb free or give away a slot that
\* reserve_slot did not: a rejected response, or the first of a device in a slot
\* that is not a register slot (any more).
OneHome == ~strayed => NoRepeats /\ \A s \in Slots : InOnePlace(s)

\* No slot that was handed out disappears: it is open for registration, owned,
\* or free, unless the free list was full when it was released.
NoSlotLost ==
    \A s \in Slots :
       HandedOut(s) =>
          \/ s \in Entries(free_list) \cup RegisterSlots \cup leaked
          \/ Owned(s)

\* last_used.subevent, a uint8_t that reserve_slot increments without a check,
\* stops one past the last subevent and so never wraps around to live slots.
FrontierBounded == last_used.subevent <= MAX_NUM_SUBEVENTS

\* Counters published in one subevent grow from event to event by enough for a
\* scanner that answered the last one (and incremented its own counter in
\* set_rsp_data) to accept the next.
FreshCounter ==
    rx = "slots" /\ j = NUM_RSP_SLOTS =>
       \A c \in published[subevent] : SubeventCounter >= c + 1

\* While set_adv_data succeeds, a scanner that scans sees the current register
\* list, and a counter at most one behind the subevents'.
AdvertCurrent ==
    adv_result = "ok" =>
       /\ adv.reg = register_subevent_data
       /\ adv.counter + 1 >= counter + rollover

\* README.md, "Other notes": a reboot by Button 0 instead of the reset button
\* does not lose count.  The key it leaves is not below the counter at the
\* moment the reboot began.
ButtonKeepsCount == key # NoKey => key >= promised
-----------------------------------------------------------------------------
(* Statements of the documentation that the code does not keep.            *)

\* advertiser/Kconfig, NUM_REGISTER_SLOTS: register slots are kept "for allowing
\* new devices to inform about their presence".  As long as a slot is free, some
\* register slot lies in a subevent that scanners can synchronise to.
DiscoveryOpen ==
    free_list # <<>> => \E s \in RegisterSlots : s.subevent \in Subevents

\* advertiser/Kconfig, NUM_REGISTER_SLOTS: "slots reserved for new device
\* discovery".  No device owns a slot that is offered to new devices.
ReservedForDiscovery == \A s \in RegisterSlots : ~Owned(s)
=============================================================================
