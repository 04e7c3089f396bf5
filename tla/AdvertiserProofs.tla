------------------------- MODULE AdvertiserProofs -------------------------
(* The safety properties of Advertiser, for every number of devices,       *)
(* subevents, slots, events and reboots.                                   *)
EXTENDS Advertiser, SequenceTheorems, TLAPS

-----------------------------------------------------------------------------
(* The values the operators of the model take.                             *)

LEMMA SlotType ==
    ASSUME NEW s \in 0 .. U8 - 1, NEW r \in RspSlots
    PROVE  Slot(s, r) \in Slots
  BY DEF Slot, Slots

\* Changing one field of a slot's record leaves the other.
LEMMA SlotDataUpdate ==
    ASSUME NEW sd \in SlotData
    PROVE  /\ \A n \in 0 .. U8 - 1 :
                 /\ [sd EXCEPT !.inactive_for = n] \in SlotData
                 /\ [sd EXCEPT !.inactive_for = n].dev_id = sd.dev_id
                 /\ [sd EXCEPT !.inactive_for = n].inactive_for = n
           /\ [sd EXCEPT !.dev_id = NoDev] \in SlotData
           /\ [sd EXCEPT !.dev_id = NoDev].dev_id = NoDev
  BY DEF SlotData, DevIds

LEMMA SlotDataNew ==
    ASSUME NEW d \in DevIds, NEW n \in 0 .. U8 - 1
    PROVE  [dev_id |-> d, inactive_for |-> n] \in SlotData
  BY DEF SlotData

LEMMA SubeventIsU8 == Subevents \subseteq 0 .. U8 - 1
  BY AdvertiserAssumption DEF Subevents

LEMMA BootTypes ==
    /\ BootLastUsed \in Slots
    /\ BootRegisterData \in [Regs -> Slots]
    /\ BootRspSlots \in [Subevents -> [RspSlots -> SlotData]]
    /\ NoAcks \in [RspSlots -> DevIds]
  BY AdvertiserAssumption DEF BootLastUsed, BootRegisterData, BootRspSlots, NoAcks, Slot,
     Slots, RspSlots, Regs, SlotData, DevIds

\* (x + 1) % n without the division.
LEMMA NextModulo ==
    ASSUME NEW n \in Nat \ {0}, NEW x \in 0 .. n - 1
    PROVE  (x + 1) % n = IF x + 1 = n THEN 0 ELSE x + 1
  OBVIOUS

\* reserve_slot hands out a slot and keeps last_used and the free list typed.
LEMMA ReserveTypes ==
    ASSUME TypeOK
    PROVE  /\ reserve_slot \in Slots
           /\ reserve_slot_last \in Slots
           /\ reserve_slot_list \in Seq(Slots)
           /\ Len(reserve_slot_list) <= MAX_FREE_SLOTS
<1>1. reserve_slot \in Slots
  BY DEF TypeOK, reserve_slot, free_list_empty, free_list_top
<1>2. reserve_slot_last \in Slots
  <2>1. (last_used.subevent + 1) % U8 \in 0 .. U8 - 1
    BY NextModulo, AdvertiserAssumption DEF TypeOK, Slots
  <2> QED
    BY <2>1, AdvertiserAssumption DEF TypeOK, reserve_slot_last, Slot, Slots, RspSlots
<1>3. reserve_slot_list \in Seq(Slots) /\ Len(reserve_slot_list) <= MAX_FREE_SLOTS
  <2>1. CASE Len(free_list) = 0
    BY <2>1 DEF TypeOK, reserve_slot_list, free_list_empty
  <2>2. CASE Len(free_list) # 0
    <3> DEFINE n == Len(free_list) - 1
    <3>1. free_list \in Seq(Slots) /\ n \in Nat /\ n <= MAX_FREE_SLOTS
      BY <2>2, MaxFreeSlotsAssumption DEF TypeOK
    <3>2. \A i \in 1 .. n : free_list[i] \in Slots
      BY <3>1
    <3>3. SubSeq(free_list, 1, n) \in Seq(Slots) /\ Len(SubSeq(free_list, 1, n)) = n
      <4> HIDE DEF n
      <4>1. /\ SubSeq(free_list, 1, n) \in Seq(Slots)
            /\ Len(SubSeq(free_list, 1, n)) = IF 1 <= n THEN n - 1 + 1 ELSE 0
        <5>1. n \in Int /\ 1 \in Int
          BY <3>1
        <5> QED
          BY <5>1, <3>2, SubSeqProperties
      <4> QED
        BY <3>1, <4>1
    <3> QED
      BY <2>2, <3>1, <3>3 DEF reserve_slot_list, free_list_empty, free_list_pop
  <2> QED
    BY <2>1, <2>2
<1> QED
  BY <1>1, <1>2, <1>3

\* A slot that is given back keeps the free list within its array.
LEMMA FreeSlotType ==
    ASSUME TypeOK, NEW s \in Slots, free_slot(s)
    PROVE  /\ free_list' \in Seq(Slots)
           /\ Len(free_list') <= MAX_FREE_SLOTS
           /\ leaked' \in SUBSET Slots
  BY MaxFreeSlotsAssumption DEF TypeOK, free_slot, free_list_append, free_list_full
-----------------------------------------------------------------------------
(* Type correctness.                                                       *)

LEMMA InitTypeOK == Init => TypeOK
<1> SUFFICES ASSUME Init PROVE TypeOK
  OBVIOUS
<1>1. 0 \in Subevents
  BY AdvertiserAssumption DEF Subevents
<1>2. adv \in [reg: [Regs -> Slots], counter: Nat]
  BY BootTypes DEF Init
<1>3. published \in [Subevents -> SUBSET Nat]
      /\ heard \in [Subevents -> [RspSlots -> SUBSET Devices]]
  BY DEF Init
<1>4. free_list \in Seq(Slots) /\ Len(free_list) <= MAX_FREE_SLOTS
  BY MaxFreeSlotsAssumption DEF Init
<1>5. strayed \in BOOLEAN
  BY DEF Init
<1> QED
  BY <1>1, <1>2, <1>3, <1>4, <1>5, BootTypes, AdvertiserAssumption DEF Init, TypeOK, StoredKey

LEMMA RebootTypeOK == ASSUME TypeOK, Reboot PROVE TypeOK'
<1>1. 0 \in Subevents
  BY AdvertiserAssumption DEF Subevents
<1>2. adv' \in [reg: [Regs -> Slots], counter: Nat]
  BY BootTypes DEF Reboot
<1>3. published' \in [Subevents -> SUBSET Nat]
      /\ heard' \in [Subevents -> [RspSlots -> SUBSET Devices]]
  BY DEF Reboot
<1>4. free_list' \in Seq(Slots) /\ Len(free_list') <= MAX_FREE_SLOTS
  BY MaxFreeSlotsAssumption DEF Reboot
<1>5. strayed' \in BOOLEAN
  BY DEF Reboot
<1> QED
  BY <1>1, <1>2, <1>3, <1>4, <1>5, BootTypes, AdvertiserAssumption DEF Reboot, TypeOK

\* The counter that is loaded or drawn, and what a commit stores of it.
LEMMA CounterTypes ==
    /\ \A v \in Nat : psa_import_key(v) \in StoredKey
    /\ \A k \in StoredKey : crypto_secure_counter_value(k) \subseteq Nat
  BY CounterAssumption DEF psa_import_key, StoredKey, crypto_secure_counter_value

\* set_adv_data publishes a typed register list.
LEMMA SetAdvDataType ==
    ASSUME TypeOK, NEW reg \in [Regs -> Slots], NEW value \in Nat, NEW ok,
           set_adv_data(reg, value, ok)
    PROVE  /\ adv' \in [reg: [Regs -> Slots], counter: Nat]
           /\ adv_result' \in {"ok", "error"}
  BY DEF TypeOK, set_adv_data, Entries

LEMMA MainThreadTypeOK == ASSUME TypeOK, MainThread PROVE TypeOK'
<1> USE DEF TypeOK
<1>1. CASE InitCryptoFails \/ InitExtendedAdv \/ InitBluetoothFails \/ advertising
  BY <1>1 DEF InitCryptoFails, InitExtendedAdv, InitBluetoothFails, advertising,
              main, count, flash, table, loop, air, seen
<1>2. ASSUME NEW value \in crypto_secure_counter_value(key), InitCounter(value)
      PROVE  TypeOK'
  <2>1. value \in Nat /\ psa_import_key(value) \in StoredKey
    BY CounterTypes
  <2> QED
    BY <1>2, <2>1 DEF InitCounter, table, loop, air, seen
<1>3. ASSUME NEW value \in RandomCounters \cup {0}, InitCounterFails(value)
      PROVE  TypeOK'
  BY <1>3, CounterAssumption DEF InitCounterFails, flash, table, loop, air, seen
<1>4. CASE InitPeriodicAdv
  <2>1. set_adv_data(register_subevent_data, counter, TRUE)
    BY <1>4 DEF InitPeriodicAdv
  <2>2. /\ adv' \in [reg: [Regs -> Slots], counter: Nat]
        /\ adv_result' \in {"ok", "error"}
    BY <2>1, SetAdvDataType
  <2> QED
    BY <1>4, <2>2 DEF InitPeriodicAdv, count, flash, table, loop, seen
<1>5. CASE CommitDestroy
  BY <1>5 DEF CommitDestroy, psa_destroy_key, StoredKey, count, table, loop, air, seen
<1>6. CASE CommitImport
  BY <1>6, CounterTypes DEF CommitImport, count, table, loop, air, seen
<1>7. CASE SysReboot
  BY <1>7, RebootTypeOK DEF SysReboot
<1> QED
  BY <1>1, <1>2, <1>3, <1>4, <1>5, <1>6, <1>7 DEF MainThread

LEMMA RequestTypeOK == ASSUME TypeOK, request_cb PROVE TypeOK'
<1> USE DEF TypeOK
<1>1. ASSUME NEW start \in Subevents, NEW n \in 1 .. MAX_NUM_SUBEVENTS,
             RequestCb(start, n)
      PROVE  TypeOK'
  BY <1>1, AdvertiserAssumption DEF RequestCb, InSequence, add_rollover, main, flash, table, air, seen
<1>2. ASSUME NEW ok \in BOOLEAN, RequestSubevent(ok)
      PROVE  TypeOK'
  <2>1. /\ adv' \in [reg: [Regs -> Slots], counter: Nat]
        /\ adv_result' \in {"ok", "error"}
    <3>1. CASE subevent = 0
      <4>1. set_adv_data(register_subevent_data, counter, ok)
        BY <1>2, <3>1 DEF RequestSubevent
      <4> QED
        BY <4>1, SetAdvDataType
    <3>2. CASE subevent # 0
      BY <1>2, <3>2 DEF RequestSubevent, air
    <3> QED
      BY <3>1, <3>2
  <2>2. rollover' \in Nat
    BY <1>2 DEF RequestSubevent
  <2> QED
    BY <1>2, <2>1, <2>2, AdvertiserAssumption DEF RequestSubevent, main, flash, table, seen
<1>3. CASE RequestSlot
  <2> DEFINE sd == rsp_slots[subevent][j]
  <2>1. j \in RspSlots /\ j' \in 0 .. NUM_RSP_SLOTS
    BY <1>3, AdvertiserAssumption DEF RequestSlot, RspSlots
  <2>2. sd \in SlotData
    BY <2>1
  <2>3. AgedSlot(sd) \in SlotData
    <3>1. Older(sd) \in 0 .. U8 - 1
      BY <2>2, NextModulo, AdvertiserAssumption DEF Older, SlotData
    <3>2. [sd EXCEPT !.inactive_for = Older(sd)] \in SlotData
      BY <2>2, <3>1, SlotDataUpdate
    <3>3. [dev_id |-> NoDev, inactive_for |-> 0] \in SlotData
      BY SlotDataNew, AdvertiserAssumption DEF DevIds
    <3> QED
      BY <3>2, <3>3 DEF AgedSlot
  <2>4. AckFor(AgedSlot(sd)) \in DevIds
    BY <2>3 DEF AckFor, SlotData, DevIds
  <2>5. rsp_slots' \in [Subevents -> [RspSlots -> SlotData]]
    BY <1>3, <2>1, <2>3 DEF RequestSlot
  <2>6. /\ free_list' \in Seq(Slots)
        /\ Len(free_list') <= MAX_FREE_SLOTS
        /\ leaked' \in SUBSET Slots
    <3>1. Slot(subevent, j) \in Slots
      BY <2>1, SlotType, SubeventIsU8
    <3> QED
      BY <1>3, <3>1, FreeSlotType DEF RequestSlot
  <2>7. ack_data' \in [RspSlots -> DevIds]
    BY <1>3, <2>1, <2>4 DEF RequestSlot
  <2>8. heard' \in [Subevents -> [RspSlots -> SUBSET Devices]]
    BY <1>3, <2>1 DEF RequestSlot
  <2> QED
    BY <1>3, <2>1, <2>5, <2>6, <2>7, <2>8 DEF RequestSlot, main, count, flash, air
<1>4. ASSUME NEW ok \in BOOLEAN, RequestPublish(ok)
      PROVE  TypeOK'
  <2>1. (subevent + 1) % MAX_NUM_SUBEVENTS \in Subevents
    BY NextModulo, AdvertiserAssumption DEF Subevents
  <2>2. published' \in [Subevents -> SUBSET Nat]
    BY <1>4 DEF RequestPublish, SubeventCounter
  <2>3. todo' \in 0 .. MAX_NUM_SUBEVENTS /\ (rx' # "idle" => todo' > 0)
    BY <1>4, AdvertiserAssumption DEF RequestPublish
  <2> QED
    BY <1>4, <2>1, <2>2, <2>3, BootTypes, AdvertiserAssumption
    DEF RequestPublish, main, count, flash, table, air
<1> QED
  BY <1>1, <1>2, <1>3, <1>4 DEF request_cb

\* What every response brings along.
LEMMA ResponseTypes ==
    ASSUME TypeOK, NEW s \in AirSlots, NEW rc, Responds(s, rc)
    PROVE  /\ s \in Slots /\ s.subevent \in Subevents /\ s.rsp_slot \in RspSlots
           /\ rc \in Nat
           /\ rsp_slots[s.subevent][s.rsp_slot] \in SlotData
<1>1. s.subevent \in Subevents /\ s.rsp_slot \in RspSlots
  BY AdvertiserAssumption DEF AirSlots, RspSlots
<1>2. s \in Slots
  BY <1>1, SubeventIsU8 DEF AirSlots, Slots
<1> QED
  BY <1>1, <1>2 DEF TypeOK, Responds

LEMMA HearTypes ==
    ASSUME TypeOK, NEW s \in AirSlots, NEW rc, Responds(s, rc), NEW d \in Devices,
           Hear(d, s, rc)
    PROVE  /\ counter' \in Nat
           /\ heard' \in [Subevents -> [RspSlots -> SUBSET Devices]]
  BY ResponseTypes DEF TypeOK, Hear, verified_counter

LEMMA ResponseTypeOK == ASSUME TypeOK, response_cb PROVE TypeOK'
<1> USE DEF TypeOK
<1>1. ASSUME NEW s \in AirSlots, NEW rc, ResponseRejected(s, rc)
      PROVE  TypeOK'
  <2>1. Responds(s, rc) /\ free_slot(s)
    BY <1>1 DEF ResponseRejected
  <2>2. s \in Slots /\ s.subevent \in Subevents /\ s.rsp_slot \in RspSlots
    BY <2>1, ResponseTypes
  <2>3. rsp_slots' \in [Subevents -> [RspSlots -> SlotData]]
    <3>1. [rsp_slots[s.subevent][s.rsp_slot] EXCEPT !.dev_id = NoDev] \in SlotData
      BY <2>2, SlotDataUpdate
    <3> QED
      BY <1>1, <2>2, <3>1 DEF ResponseRejected
  <2>4. /\ free_list' \in Seq(Slots)
        /\ Len(free_list') <= MAX_FREE_SLOTS
        /\ leaked' \in SUBSET Slots
    BY <2>1, <2>2, FreeSlotType
  <2> QED
    BY <1>1, <2>3, <2>4 DEF ResponseRejected, main, count, flash, loop, air
<1>2. ASSUME NEW s \in AirSlots, NEW rc, NEW d \in Devices, NEW ok1, NEW ok2,
             ResponseRegisters(d, s, rc, ok1, ok2)
      PROVE  TypeOK'
  <2>1. Responds(s, rc) /\ Hear(d, s, rc)
    BY <1>2 DEF ResponseRegisters
  <2>2. s.subevent \in Subevents /\ s.rsp_slot \in RspSlots
    BY <2>1, ResponseTypes
  <2>3. counter' \in Nat /\ heard' \in [Subevents -> [RspSlots -> SUBSET Devices]]
    BY <2>1, HearTypes
  <2>4. rsp_slots' \in [Subevents -> [RspSlots -> SlotData]]
    BY <1>2, <2>2, AdvertiserAssumption DEF ResponseRegisters, SlotData, DevIds
  <2>5. /\ register_subevent_data' \in [Regs -> Slots]
        /\ free_list' \in Seq(Slots)
        /\ Len(free_list') <= MAX_FREE_SLOTS
        /\ last_used' \in Slots
    BY <1>2, ReserveTypes DEF ResponseRegisters
  <2>6. /\ adv' \in [reg: [Regs -> Slots], counter: Nat]
        /\ adv_result' \in {"ok", "error"}
    BY <1>2, <2>3, <2>5 DEF ResponseRegisters
  <2> QED
    BY <1>2, <2>3, <2>4, <2>5, <2>6 DEF ResponseRegisters, main, flash, loop
<1>3. ASSUME NEW s \in AirSlots, NEW rc, NEW d \in Devices, NEW ok,
             ResponseInOwnedSlot(d, s, rc, ok)
      PROVE  TypeOK'
  <2>1. /\ Responds(s, rc) /\ Hear(d, s, rc)
        /\ set_adv_data(register_subevent_data, counter', ok)
    BY <1>3 DEF ResponseInOwnedSlot
  <2>2. /\ s.subevent \in Subevents /\ s.rsp_slot \in RspSlots
        /\ rsp_slots[s.subevent][s.rsp_slot] \in SlotData
    BY <2>1, ResponseTypes
  <2>3. counter' \in Nat /\ heard' \in [Subevents -> [RspSlots -> SUBSET Devices]]
    BY <2>1, HearTypes
  <2>4. Refreshed(rsp_slots[s.subevent][s.rsp_slot], d) \in SlotData
    <3>1. 0 \in 0 .. U8 - 1
      BY AdvertiserAssumption
    <3>2. [rsp_slots[s.subevent][s.rsp_slot] EXCEPT !.inactive_for = 0] \in SlotData
      BY <2>2, <3>1, SlotDataUpdate
    <3> QED
      BY <2>2, <3>2 DEF Refreshed
  <2>5. rsp_slots' \in [Subevents -> [RspSlots -> SlotData]]
    BY <1>3, <2>2, <2>4 DEF ResponseInOwnedSlot
  <2>6. /\ adv' \in [reg: [Regs -> Slots], counter: Nat]
        /\ adv_result' \in {"ok", "error"}
    BY <2>1, <2>3, SetAdvDataType
  <2> QED
    BY <1>3, <2>3, <2>5, <2>6 DEF ResponseInOwnedSlot, main, flash, loop
<1> QED
  BY <1>1, <1>2, <1>3 DEF response_cb, ResponseVerified

LEMMA NextTypeOK == TypeOK /\ [Next]_vars => TypeOK'
<1> SUFFICES ASSUME TypeOK, [Next]_vars PROVE TypeOK'
  OBVIOUS
<1>1. CASE button_cb
  BY <1>1 DEF TypeOK, button_cb, count, flash, table, loop, air, seen
<1>2. CASE HardReset
  BY <1>2, RebootTypeOK DEF HardReset
<1>3. CASE UNCHANGED vars
  BY <1>3 DEF TypeOK, vars, main, count, flash, table, loop, air, seen
<1> QED
  BY <1>1, <1>2, <1>3, MainThreadTypeOK, RequestTypeOK, ResponseTypeOK DEF Next

\* Every variable of the advertiser stays within its C type, the free list
\* within its array and every index within the table it is used on.
THEOREM TypeCorrect == Spec => []TypeOK
  BY InitTypeOK, NextTypeOK, PTL DEF Spec
-----------------------------------------------------------------------------
(* Silence and acks.                                                       *)

\* A slot's owner has been silent for inactive_for events, and 0 means that it
\* was heard since the last one.
SlotInv(sd, devices) ==
    sd.dev_id # NoDev => /\ sd.inactive_for <= 3 * EVENTS_PER_BLOCK
                         /\ sd.inactive_for = 0 <=> sd.dev_id \in devices

SilenceInv == \A s \in Subevents, r \in RspSlots : SlotInv(rsp_slots[s][r], heard[s][r])

\* An event ages a slot without a wrap, and drops its owner at the limit.
LEMMA AgedSlotInv ==
    ASSUME NEW sd \in SlotData, NEW devices \in SUBSET Devices, SlotInv(sd, devices)
    PROVE  /\ SlotInv(AgedSlot(sd), {})
           /\ AckFor(AgedSlot(sd)) = IF sd.dev_id \in devices THEN sd.dev_id ELSE NoDev
<1>1. CASE sd.dev_id = NoDev
  <2>1. ~TimesOut(sd) /\ NoDev \notin devices
    BY <1>1, AdvertiserAssumption DEF TimesOut
  <2>2. Older(sd) \in 0 .. U8 - 1
    BY NextModulo, AdvertiserAssumption DEF Older, SlotData
  <2>3. AgedSlot(sd).dev_id = NoDev
    BY <1>1, <2>1, <2>2, SlotDataUpdate DEF AgedSlot
  <2> QED
    BY <1>1, <2>1, <2>3 DEF SlotInv, AckFor
<1>2. CASE sd.dev_id # NoDev
  <2>1. sd.inactive_for \in 0 .. 3 * EVENTS_PER_BLOCK
        /\ (sd.inactive_for = 0 <=> sd.dev_id \in devices)
    BY <1>2, AdvertiserAssumption DEF SlotInv, SlotData
  <2>2. Older(sd) = sd.inactive_for + 1
    BY <2>1, NextModulo, AdvertiserAssumption DEF Older
  <2>3. CASE TimesOut(sd)
    <3>1. sd.inactive_for = 3 * EVENTS_PER_BLOCK
      BY <2>1, <2>2, <2>3, AdvertiserAssumption DEF TimesOut
    <3>2. sd.dev_id \notin devices
      BY <2>1, <3>1, AdvertiserAssumption
    <3>3. AgedSlot(sd).dev_id = NoDev
      BY <2>3 DEF AgedSlot
    <3> QED
      BY <3>2, <3>3 DEF SlotInv, AckFor
  <2>4. CASE ~TimesOut(sd)
    <3>1. sd.inactive_for + 1 \in 0 .. U8 - 1 /\ sd.inactive_for + 1 <= 3 * EVENTS_PER_BLOCK
      BY <1>2, <2>1, <2>2, <2>4, AdvertiserAssumption DEF TimesOut
    <3>2. /\ AgedSlot(sd).dev_id = sd.dev_id
          /\ AgedSlot(sd).inactive_for = sd.inactive_for + 1
      BY <2>2, <2>4, <3>1, SlotDataUpdate DEF AgedSlot
    <3> QED
      BY <2>1, <3>1, <3>2 DEF SlotInv, AckFor
  <2> QED
    BY <2>3, <2>4
<1> QED
  BY <1>1, <1>2

LEMMA InitSilenceInv == Init => SilenceInv
  BY DEF Init, SilenceInv, SlotInv, BootRspSlots

\* A response leaves the invariant of the slot it arrived in, whoever sent it.
LEMMA ResponseSilenceInv == ASSUME TypeOK, SilenceInv, response_cb PROVE SilenceInv'
<1>1. ASSUME NEW s \in AirSlots, NEW rc, ResponseRejected(s, rc)
      PROVE  SilenceInv'
  <2>1. /\ s.subevent \in Subevents /\ s.rsp_slot \in RspSlots
        /\ rsp_slots[s.subevent][s.rsp_slot] \in SlotData
    BY <1>1, ResponseTypes DEF ResponseRejected
  <2>2. [rsp_slots[s.subevent][s.rsp_slot] EXCEPT !.dev_id = NoDev].dev_id = NoDev
    BY <2>1, SlotDataUpdate
  <2> QED
    BY <1>1, <2>1, <2>2 DEF ResponseRejected, SilenceInv, SlotInv, TypeOK
<1>2. ASSUME NEW s \in AirSlots, NEW rc, NEW d \in Devices, NEW ok1, NEW ok2,
             ResponseRegisters(d, s, rc, ok1, ok2)
      PROVE  SilenceInv'
  <2>1. s.subevent \in Subevents /\ s.rsp_slot \in RspSlots
    BY <1>2, ResponseTypes DEF ResponseRegisters
  <2> QED
    BY <1>2, <2>1, AdvertiserAssumption DEF ResponseRegisters, Hear, SilenceInv, SlotInv, TypeOK
<1>3. ASSUME NEW s \in AirSlots, NEW rc, NEW d \in Devices, NEW ok,
             ResponseInOwnedSlot(d, s, rc, ok)
      PROVE  SilenceInv'
  <2> DEFINE sd == rsp_slots[s.subevent][s.rsp_slot]
             hd == heard[s.subevent][s.rsp_slot]
  <2>1. /\ s.subevent \in Subevents /\ s.rsp_slot \in RspSlots
        /\ sd \in SlotData
    BY <1>3, ResponseTypes DEF ResponseInOwnedSlot
  <2>2. SlotInv(Refreshed(sd, d), hd \cup {d})
    <3>1. SlotInv(sd, hd)
      BY <2>1 DEF SilenceInv
    <3>2. CASE sd.dev_id = d
      <4>1. 0 \in 0 .. U8 - 1
        BY AdvertiserAssumption
      <4>2. Refreshed(sd, d).dev_id = d /\ Refreshed(sd, d).inactive_for = 0
        BY <2>1, <3>2, <4>1, SlotDataUpdate DEF Refreshed
      <4> QED
        BY <4>2, AdvertiserAssumption DEF SlotInv
    <3>3. CASE sd.dev_id # d
      BY <3>1, <3>3 DEF SlotInv, Refreshed
    <3> QED
      BY <3>2, <3>3
  <2>3. /\ rsp_slots' = [rsp_slots EXCEPT ![s.subevent][s.rsp_slot] = Refreshed(sd, d)]
        /\ heard' = [heard EXCEPT ![s.subevent][s.rsp_slot] = hd \cup {d}]
    BY <1>3 DEF ResponseInOwnedSlot, Hear
  <2> QED
    BY <2>1, <2>2, <2>3 DEF SilenceInv, TypeOK
<1> QED
  BY <1>1, <1>2, <1>3 DEF response_cb, ResponseVerified

LEMMA NextSilenceInv == TypeOK /\ SilenceInv /\ [Next]_vars => SilenceInv'
<1> SUFFICES ASSUME TypeOK, SilenceInv, [Next]_vars PROVE SilenceInv'
  OBVIOUS
<1>1. ASSUME Reboot PROVE SilenceInv'
  BY <1>1 DEF Reboot, SilenceInv, SlotInv, BootRspSlots
<1>2. ASSUME UNCHANGED <<rsp_slots, heard>> PROVE SilenceInv'
  BY <1>2 DEF SilenceInv
<1>3. CASE MainThread
  BY <1>1, <1>2, <1>3 DEF MainThread, InitCryptoFails, InitCounter, InitCounterFails,
     InitPeriodicAdv, InitExtendedAdv, InitBluetoothFails, advertising,
     CommitDestroy, CommitImport, SysReboot, table, seen
<1>4. CASE button_cb \/ HardReset
  BY <1>1, <1>2, <1>4 DEF button_cb, HardReset, table, seen
<1>5. CASE request_cb
  <2>1. CASE RequestSlot
    <3> DEFINE sd == rsp_slots[subevent][j]
    <3>1. j \in RspSlots /\ subevent \in Subevents
      BY <2>1, AdvertiserAssumption DEF RequestSlot, RspSlots, TypeOK
    <3>2. SlotInv(AgedSlot(sd), {})
      BY <3>1, AgedSlotInv DEF SilenceInv, TypeOK
    <3>3. /\ rsp_slots' = [rsp_slots EXCEPT ![subevent][j] = AgedSlot(sd)]
          /\ heard' = [heard EXCEPT ![subevent][j] = {}]
      BY <2>1 DEF RequestSlot
    <3> QED
      BY <3>1, <3>2, <3>3 DEF SilenceInv, TypeOK
  <2>2. CASE ~RequestSlot
    BY <1>2, <1>5, <2>2 DEF request_cb, RequestCb, InSequence, RequestSubevent, RequestPublish, table, seen
  <2> QED
    BY <2>1, <2>2
<1>6. CASE UNCHANGED vars
  BY <1>2, <1>6 DEF vars, table, seen
<1> QED
  BY <1>3, <1>4, <1>5, <1>6, ResponseSilenceInv DEF Next

\* An owner loses its slot after 3 * EVENTS_PER_BLOCK silent events at the
\* latest: inactive_for cannot wrap and start again.
THEOREM SilenceBounded == Spec => []InactiveBounded
<1>1. SilenceInv => InactiveBounded
  BY DEF SilenceInv, SlotInv, InactiveBounded
<1> QED
  BY <1>1, InitTypeOK, NextTypeOK, InitSilenceInv, NextSilenceInv, PTL DEF Spec

\* What response_cb never touches.
LEMMA ResponseFrame == response_cb => UNCHANGED <<main, flash, loop, rollover, published>>
<1>1. ASSUME NEW s, NEW rc, ResponseRejected(s, rc)
      PROVE  UNCHANGED <<main, flash, loop, rollover, published>>
  BY <1>1 DEF ResponseRejected, count
<1>2. ASSUME NEW s, NEW rc, NEW d, NEW ok1, NEW ok2, ResponseRegisters(d, s, rc, ok1, ok2)
      PROVE  UNCHANGED <<main, flash, loop, rollover, published>>
  BY <1>2 DEF ResponseRegisters
<1>3. ASSUME NEW s, NEW rc, NEW d, NEW ok, ResponseInOwnedSlot(d, s, rc, ok)
      PROVE  UNCHANGED <<main, flash, loop, rollover, published>>
  BY <1>3 DEF ResponseInOwnedSlot
<1> QED
  BY <1>1, <1>2, <1>3 DEF response_cb, ResponseVerified

\* The loop index moves on in RequestSlot alone.
LEMMA OnlyRequestSlotCounts ==
    ASSUME TypeOK, [Next]_vars, j' = j + 1
    PROVE  RequestSlot
<1>1. j \in Nat /\ j' # j /\ j' # 0
  BY AdvertiserAssumption DEF TypeOK
<1>2. ASSUME Reboot PROVE FALSE
  BY <1>1, <1>2 DEF Reboot
<1>3. ~MainThread
  BY <1>1, <1>2 DEF MainThread, InitCryptoFails, InitCounter, InitCounterFails,
     InitPeriodicAdv, InitExtendedAdv, InitBluetoothFails, advertising,
     CommitDestroy, CommitImport, SysReboot, loop
<1>4. ~button_cb /\ ~HardReset
  BY <1>1, <1>2 DEF button_cb, HardReset, loop
<1>5. ~response_cb
  BY <1>1, ResponseFrame DEF loop
<1>6. ~UNCHANGED vars
  BY <1>1 DEF vars, loop
<1> QED
  BY <1>1, <1>3, <1>4, <1>5, <1>6 DEF Next, request_cb, RequestCb, InSequence, RequestSubevent,
     RequestPublish

\* Every ack names the slot's owner if and only if a response of that owner was
\* verified since the previous event of the subevent.
THEOREM AcksAreExact == Spec => AckExact
<1> DEFINE A == j' = j + 1 =>
                 LET owner == rsp_slots[subevent][j].dev_id
                 IN  ack_data'[j] = IF owner \in heard[subevent][j] THEN owner ELSE NoDev
<1>1. TypeOK /\ SilenceInv /\ [Next]_vars => A
  <2> SUFFICES ASSUME TypeOK, SilenceInv, [Next]_vars, j' = j + 1
               PROVE  ack_data'[j] = IF rsp_slots[subevent][j].dev_id \in heard[subevent][j]
                                     THEN rsp_slots[subevent][j].dev_id ELSE NoDev
    OBVIOUS
  <2>1. RequestSlot
    BY OnlyRequestSlotCounts
  <2>2. j \in RspSlots /\ subevent \in Subevents
    BY <2>1, AdvertiserAssumption DEF RequestSlot, RspSlots, TypeOK
  <2>3. /\ rsp_slots[subevent][j] \in SlotData
        /\ heard[subevent][j] \in SUBSET Devices
        /\ SlotInv(rsp_slots[subevent][j], heard[subevent][j])
    BY <2>2 DEF SilenceInv, TypeOK
  <2>4. ack_data'[j] = AckFor(AgedSlot(rsp_slots[subevent][j]))
    BY <2>1, <2>2 DEF RequestSlot, TypeOK
  <2> QED
    BY <2>3, <2>4, AgedSlotInv
<1>2. AckExact <=> [][A]_vars
  BY PTL DEF AckExact
<1> QED
  BY <1>1, <1>2, InitTypeOK, NextTypeOK, InitSilenceInv, NextSilenceInv, PTL DEF Spec
-----------------------------------------------------------------------------
(* Freshness of the published counters.                                    *)

\* Subevents that have not been filled in the event that is under way.
NotFilled(s) == s >= subevent /\ (subevent > 0 \/ rx = "slots")

\* The counter of the current event is an upper bound of what was published,
\* and a strict one for the subevents still to be filled.
FreshInv ==
    \A s \in Subevents : \A c \in published[s] :
       /\ c <= SubeventCounter
       /\ NotFilled(s) => c + 1 <= SubeventCounter

LEMMA InitFreshInv == Init => FreshInv
  BY DEF Init, FreshInv

LEMMA RebootFreshInv == ASSUME Reboot PROVE FreshInv'
  BY DEF Reboot, FreshInv

\* A sum of two primed variables is more than the SMT encoding handles.
LEMMA Sums ==
    /\ \A a, b \in Nat : a + b \in Nat
    /\ \A a, b, c \in Nat : a >= b => a + c >= b + c
  OBVIOUS

LEMMA SubeventCounterType == TypeOK => SubeventCounter \in Nat
  BY DEF TypeOK, SubeventCounter

LEMMA SubeventCounterTypeNext == TypeOK' => SubeventCounter' \in Nat
<1> SUFFICES ASSUME TypeOK' PROVE SubeventCounter' \in Nat
  OBVIOUS
<1>1. counter' \in Nat /\ rollover' \in Nat
  BY DEF TypeOK
<1> QED
  BY <1>1, Sums, Zenon DEF SubeventCounter

\* Steps that move the counter up and leave the loop over the subevents alone.
LEMMA FreshInvFrame ==
    ASSUME TypeOK, TypeOK', FreshInv, UNCHANGED <<published, subevent>>,
           SubeventCounter' >= SubeventCounter,
           rx' = "slots" => rx = "slots" \/ subevent > 0
    PROVE  FreshInv'
<1> SUFFICES ASSUME NEW s \in Subevents, NEW c \in published[s]
             PROVE  c <= SubeventCounter' /\ (NotFilled(s)' => c + 1 <= SubeventCounter')
  BY DEF FreshInv
<1>1. SubeventCounter \in Nat /\ SubeventCounter' \in Nat
  BY SubeventCounterType, SubeventCounterTypeNext
<1>4. c \in Nat
  BY DEF TypeOK
<1>2. NotFilled(s)' => NotFilled(s)
  BY DEF NotFilled
<1>3. c <= SubeventCounter /\ (NotFilled(s) => c + 1 <= SubeventCounter)
  BY DEF FreshInv
<1> QED
  BY <1>1, <1>2, <1>3, <1>4

LEMMA ResponseFreshInv ==
    ASSUME TypeOK, TypeOK', FreshInv, response_cb PROVE FreshInv'
<1>1. ASSUME NEW s, NEW rc, ResponseRejected(s, rc) PROVE FreshInv'
  <2>1. UNCHANGED <<published, subevent, counter, rollover, rx>>
    BY <1>1 DEF ResponseRejected, loop, count
  <2>2. SubeventCounter' >= SubeventCounter
    BY <2>1 DEF SubeventCounter, TypeOK
  <2> QED
    BY <2>1, <2>2, FreshInvFrame
<1>2. ASSUME NEW s, NEW rc, NEW d, Hear(d, s, rc), rc \in Nat,
             UNCHANGED <<published, subevent, rollover, rx>>
      PROVE  FreshInv'
  <2>1. /\ counter \in Nat /\ counter' \in Nat /\ counter' >= counter
        /\ rollover \in Nat /\ rollover' = rollover
    BY <1>2 DEF Hear, verified_counter, TypeOK
  <2>2. SubeventCounter' >= SubeventCounter
    <3>1. counter' + rollover >= counter + rollover
      BY <2>1, Sums
    <3> QED
      BY <2>1, <3>1, Zenon DEF SubeventCounter
  <2> QED
    BY <1>2, <2>2, FreshInvFrame
<1>3. ASSUME NEW s \in AirSlots, NEW rc, NEW d, NEW ok1, NEW ok2,
             ResponseRegisters(d, s, rc, ok1, ok2)
      PROVE  FreshInv'
  BY <1>2, <1>3, ResponseTypes DEF ResponseRegisters, loop
<1>4. ASSUME NEW s \in AirSlots, NEW rc, NEW d, NEW ok, ResponseInOwnedSlot(d, s, rc, ok)
      PROVE  FreshInv'
  BY <1>2, <1>4, ResponseTypes DEF ResponseInOwnedSlot, loop
<1> QED
  BY <1>1, <1>3, <1>4 DEF response_cb, ResponseVerified

LEMMA RequestFreshInv ==
    ASSUME TypeOK, TypeOK', FreshInv, request_cb PROVE FreshInv'
<1>1. ASSUME NEW start, NEW n, RequestCb(start, n) PROVE FreshInv'
  <2>1. SubeventCounter' >= SubeventCounter
    BY <1>1 DEF RequestCb, InSequence, add_rollover, SubeventCounter, TypeOK
  <2>2. UNCHANGED <<published, subevent>> /\ rx' # "slots"
    BY <1>1 DEF RequestCb, InSequence, seen
  <2> QED
    BY <2>1, <2>2, FreshInvFrame
<1>2. ASSUME NEW ok, RequestSubevent(ok) PROVE FreshInv'
  <2>1. UNCHANGED <<published, subevent, counter>> /\ rx = "subevent" /\ rx' = "slots"
    BY <1>2 DEF RequestSubevent, seen
  <2>2. CASE subevent = 0
    <3>1. rollover' = rollover + 1
      BY <1>2, <2>2 DEF RequestSubevent
    <3> QED
      BY <2>1, <2>2, <3>1 DEF FreshInv, NotFilled, SubeventCounter, TypeOK
  <2>3. CASE subevent # 0
    <3>1. rollover' = rollover
      BY <1>2, <2>3 DEF RequestSubevent
    <3>2. SubeventCounter' >= SubeventCounter /\ subevent > 0
      BY <2>1, <2>3, <3>1, AdvertiserAssumption DEF SubeventCounter, TypeOK, Subevents
    <3> QED
      BY <2>1, <3>2, FreshInvFrame
  <2> QED
    BY <2>2, <2>3
<1>3. CASE RequestSlot
  BY <1>3, FreshInvFrame DEF RequestSlot, count, SubeventCounter, TypeOK
<1>4. ASSUME NEW ok, RequestPublish(ok) PROVE FreshInv'
  <2>1. /\ rx = "slots" /\ rx' # "slots"
        /\ UNCHANGED <<counter, rollover>>
        /\ subevent' = IF subevent + 1 = MAX_NUM_SUBEVENTS THEN 0 ELSE subevent + 1
    BY <1>4, NextModulo, AdvertiserAssumption
    DEF RequestPublish, count, TypeOK, Subevents
  <2>2. \A s \in Subevents : published'[s] \subseteq
                              published[s] \cup (IF s = subevent THEN {SubeventCounter} ELSE {})
    BY <1>4 DEF RequestPublish, TypeOK
  <2>3. SubeventCounter' = SubeventCounter /\ SubeventCounter \in Nat
    BY <2>1 DEF SubeventCounter, TypeOK
  <2>4. \A s \in Subevents : NotFilled(s)' => NotFilled(s) /\ s # subevent
    BY <2>1, AdvertiserAssumption DEF NotFilled, TypeOK, Subevents
  <2> SUFFICES ASSUME NEW s \in Subevents, NEW c \in published'[s]
               PROVE  /\ c <= SubeventCounter'
                      /\ NotFilled(s)' => c + 1 <= SubeventCounter'
    BY DEF FreshInv
  <2>5. c \in published[s] \/ (s = subevent /\ c = SubeventCounter)
    BY <2>2
  <2>6. CASE c \in published[s]
    BY <2>3, <2>4, <2>6 DEF FreshInv
  <2>7. CASE s = subevent /\ c = SubeventCounter
    BY <2>3, <2>4, <2>7
  <2> QED
    BY <2>5, <2>6, <2>7
<1> QED
  BY <1>1, <1>2, <1>3, <1>4 DEF request_cb

\* Nothing is published before the counter is loaded, so loading it cannot
\* invalidate what was.
BootInv ==
    curr_state = "INITIALIZE" /\ step \in {"entry", "loaded"} =>
       per_adv = "off" /\ rx = "idle" /\ \A s \in Subevents : published[s] = {}

LEMMA InitBootInv == Init => BootInv
  BY DEF Init, BootInv

LEMMA RebootBootInv == ASSUME Reboot PROVE BootInv'
  BY DEF Reboot, BootInv

LEMMA NextBootInv == BootInv /\ [Next]_vars => BootInv'
<1> SUFFICES ASSUME BootInv, [Next]_vars PROVE BootInv'
  OBVIOUS
<1> USE DEF BootInv
<1>1. CASE MainThread
  BY <1>1, RebootBootInv DEF MainThread, InitCryptoFails, InitCounter, InitCounterFails,
     InitPeriodicAdv, InitExtendedAdv, InitBluetoothFails, advertising,
     CommitDestroy, CommitImport, SysReboot, loop, seen
<1>2. CASE button_cb \/ HardReset
  BY <1>2, RebootBootInv DEF button_cb, HardReset, loop, seen
<1>3. CASE request_cb
  BY <1>3 DEF request_cb, RequestCb, InSequence, RequestSubevent, RequestSlot, RequestPublish, main
<1>4. CASE response_cb
  BY <1>4, ResponseFrame DEF main, loop
<1>5. CASE UNCHANGED vars
  BY <1>5 DEF vars, main, loop, seen
<1> QED
  BY <1>1, <1>2, <1>3, <1>4, <1>5 DEF Next

LEMMA NextFreshInv == TypeOK /\ BootInv /\ FreshInv /\ [Next]_vars => FreshInv'
<1> SUFFICES ASSUME TypeOK, BootInv, FreshInv, [Next]_vars PROVE FreshInv'
  OBVIOUS
<1>1. TypeOK'
  BY NextTypeOK
<1>2. ASSUME UNCHANGED <<published, subevent, counter, rollover, rx>> PROVE FreshInv'
  <2>1. SubeventCounter' >= SubeventCounter
    BY <1>2 DEF SubeventCounter, TypeOK
  <2> QED
    BY <1>1, <1>2, <2>1, FreshInvFrame
<1>3. CASE MainThread
  <2>1. ASSUME NEW value, InitCounter(value) \/ InitCounterFails(value) PROVE FreshInv'
    BY <2>1 DEF InitCounter, InitCounterFails, BootInv, FreshInv, seen
  <2>2. CASE SysReboot
    BY <2>2, RebootFreshInv DEF SysReboot
  <2>3. CASE \/ InitCryptoFails \/ InitPeriodicAdv \/ InitExtendedAdv \/ InitBluetoothFails
             \/ advertising \/ CommitDestroy \/ CommitImport
    BY <1>2, <2>3 DEF InitCryptoFails, InitPeriodicAdv, InitExtendedAdv, InitBluetoothFails,
       advertising, CommitDestroy, CommitImport, count, loop, seen
  <2> QED
    BY <1>3, <2>1, <2>2, <2>3 DEF MainThread
<1>4. CASE button_cb \/ HardReset
  BY <1>2, <1>4, RebootFreshInv DEF button_cb, HardReset, count, loop, seen
<1>5. CASE UNCHANGED vars
  BY <1>2, <1>5 DEF vars, count, loop, seen
<1> QED
  BY <1>1, <1>3, <1>4, <1>5, RequestFreshInv, ResponseFreshInv DEF Next

\* Whatever responses, commits and requests interleave, the counter of the next
\* indication in a subevent exceeds every earlier one there since boot.
THEOREM CounterIsFresh == Spec => []FreshCounter
<1>1. TypeOK /\ FreshInv => FreshCounter
  BY AdvertiserAssumption
  DEF FreshInv, FreshCounter, NotFilled, TypeOK, Subevents, SubeventCounter
<1> QED
  BY <1>1, InitTypeOK, NextTypeOK, InitBootInv, NextBootInv, InitFreshInv, NextFreshInv,
     PTL DEF Spec
=============================================================================
