--------------------------- MODULE CounterProofs ---------------------------
(* The counter outside the subevents: in the extended advertisement and in *)
(* persistent storage.                                                     *)
EXTENDS AdvertiserProofs

-----------------------------------------------------------------------------
(* One wrap at a time.                                                     *)

\* A request covers at most one event, so at most one wrap waits to be added; a
\* request that has counted one does not reach subevent 0 again.
RollInv ==
    /\ rollover \in {0, 1}
    /\ rx = "subevent" /\ rollover = 1 => subevent > 0
    /\ rx # "idle" /\ rollover = 1 => todo <= MAX_NUM_SUBEVENTS - subevent

LEMMA RequestRollInv == ASSUME TypeOK, RollInv, request_cb PROVE RollInv'
<1>1. ASSUME NEW start, NEW n, RequestCb(start, n) PROVE RollInv'
  BY <1>1 DEF RequestCb, InSequence, add_rollover, RollInv
<1>2. ASSUME NEW ok, RequestSubevent(ok) PROVE RollInv'
  <2>1. UNCHANGED <<todo, subevent>> /\ rx = "subevent" /\ rx' = "slots"
    BY <1>2 DEF RequestSubevent
  <2>2. CASE subevent = 0
    <3>1. rollover = 0 /\ rollover' = 1
      BY <1>2, <2>1, <2>2 DEF RequestSubevent, RollInv
    <3> QED
      BY <2>1, <2>2, <3>1, AdvertiserAssumption DEF RollInv, TypeOK
  <2>3. CASE subevent # 0
    <3>1. rollover' = rollover
      BY <1>2, <2>3 DEF RequestSubevent
    <3> QED
      BY <2>1, <3>1 DEF RollInv
  <2> QED
    BY <2>2, <2>3
<1>3. CASE RequestSlot
  BY <1>3 DEF RequestSlot, count, RollInv
<1>4. ASSUME NEW ok, RequestPublish(ok) PROVE RollInv'
  <2>1. /\ rx = "slots" /\ todo' = todo - 1
        /\ rx' = IF todo = 1 THEN "idle" ELSE "subevent"
        /\ rollover' = rollover
        /\ subevent' = IF subevent + 1 = MAX_NUM_SUBEVENTS THEN 0 ELSE subevent + 1
    BY <1>4, NextModulo, AdvertiserAssumption
    DEF RequestPublish, count, TypeOK, Subevents
  <2>2. todo \in 1 .. MAX_NUM_SUBEVENTS /\ subevent \in 0 .. MAX_NUM_SUBEVENTS - 1
    BY <2>1, AdvertiserAssumption DEF TypeOK, Subevents
  <2> QED
    BY <2>1, <2>2, AdvertiserAssumption DEF RollInv
<1> QED
  BY <1>1, <1>2, <1>3, <1>4 DEF request_cb

LEMMA NextRollInv == TypeOK /\ RollInv /\ [Next]_vars => RollInv'
<1> SUFFICES ASSUME TypeOK, RollInv, [Next]_vars PROVE RollInv'
  OBVIOUS
<1>1. ASSUME UNCHANGED <<rollover, rx, todo, subevent>> PROVE RollInv'
  BY <1>1 DEF RollInv
<1>2. ASSUME Reboot PROVE RollInv'
  BY <1>2 DEF Reboot, RollInv
<1>3. CASE MainThread
  BY <1>1, <1>2, <1>3 DEF MainThread, InitCryptoFails, InitCounter, InitCounterFails,
     InitPeriodicAdv, InitExtendedAdv, InitBluetoothFails, advertising,
     CommitDestroy, CommitImport, SysReboot, count, loop
<1>4. CASE button_cb \/ HardReset
  BY <1>1, <1>2, <1>4 DEF button_cb, HardReset, count, loop
<1>5. CASE response_cb
  BY <1>1, <1>5, ResponseFrame DEF loop
<1>6. CASE UNCHANGED vars
  BY <1>1, <1>6 DEF vars, count, loop
<1> QED
  BY <1>3, <1>4, <1>5, <1>6, RequestRollInv DEF Next
-----------------------------------------------------------------------------
(* The extended advertisement.                                             *)

\* Nothing was advertised before the counter is loaded.
AdvertInv ==
    /\ AdvertCurrent
    /\ curr_state = "INITIALIZE" /\ step = "entry" => adv_result = "error"

\* The advertisement was refreshed from the current list and counter, or failed.
LEMMA Advertised ==
    ASSUME TypeOK', RollInv', ~(curr_state' = "INITIALIZE" /\ step' = "entry"),
           adv_result' = "ok" => adv' = [reg |-> register_subevent_data', counter |-> counter']
    PROVE  AdvertInv'
<1> SUFFICES ASSUME adv_result' = "ok"
             PROVE  /\ adv'.reg = register_subevent_data'
                    /\ adv'.counter + 1 >= counter' + rollover'
  BY DEF AdvertInv, AdvertCurrent
<1>1. adv'.reg = register_subevent_data' /\ adv'.counter = counter'
  OBVIOUS
<1>2. counter' \in Nat /\ (rollover' = 0 \/ rollover' = 1)
  BY DEF TypeOK, RollInv
<1>3. \A a, b \in Nat : b = 0 \/ b = 1 => a + 1 >= a + b
  OBVIOUS
<1>4. counter' + 1 >= counter' + rollover'
  BY <1>2, <1>3, Zenon
<1> QED
  BY <1>1, <1>4

\* Steps that move wraps from rollover to the counter, or leave both alone.
LEMMA AdvertFrame ==
    ASSUME AdvertInv, UNCHANGED <<adv, adv_result, register_subevent_data>>,
           counter' + rollover' = counter + rollover,
           curr_state' = "INITIALIZE" /\ step' = "entry" =>
              curr_state = "INITIALIZE" /\ step = "entry"
    PROVE  AdvertInv'
<1> SUFFICES ASSUME adv_result = "ok"
             PROVE  adv.reg = register_subevent_data /\ adv.counter + 1 >= counter' + rollover'
  BY DEF AdvertInv, AdvertCurrent
<1>1. adv.reg = register_subevent_data /\ adv.counter + 1 >= counter + rollover
  BY DEF AdvertInv, AdvertCurrent
<1> QED
  BY <1>1, Zenon

LEMMA NextAdvertInv ==
    TypeOK /\ RollInv /\ BootInv /\ AdvertInv /\ [Next]_vars => AdvertInv'
<1> SUFFICES ASSUME TypeOK, RollInv, BootInv, AdvertInv, [Next]_vars PROVE AdvertInv'
  OBVIOUS
<1>1. TypeOK' /\ RollInv'
  BY NextTypeOK, NextRollInv
<1>2. ASSUME Reboot PROVE AdvertInv'
  BY <1>2 DEF Reboot, AdvertInv, AdvertCurrent
<1>3. ASSUME UNCHANGED <<adv, adv_result, register_subevent_data, counter, rollover>>,
             curr_state' = "INITIALIZE" /\ step' = "entry" =>
                curr_state = "INITIALIZE" /\ step = "entry"
      PROVE  AdvertInv'
  BY <1>3, AdvertFrame
<1>4. CASE MainThread
  <2>1. ASSUME NEW value, InitCounter(value) \/ InitCounterFails(value) PROVE AdvertInv'
    <3>1. adv_result' = "error"
      BY <2>1 DEF InitCounter, InitCounterFails, AdvertInv, air
    <3> QED
      BY <3>1 DEF AdvertInv, AdvertCurrent
  <2>2. CASE InitPeriodicAdv
    BY <1>1, <2>2, Advertised DEF InitPeriodicAdv, set_adv_data, count, table
  <2>3. CASE SysReboot
    BY <1>2, <2>3 DEF SysReboot
  <2>4. CASE \/ InitCryptoFails \/ InitExtendedAdv \/ InitBluetoothFails
             \/ advertising \/ CommitDestroy \/ CommitImport
    BY <1>3, <2>4 DEF InitCryptoFails, InitExtendedAdv, InitBluetoothFails, advertising,
       CommitDestroy, CommitImport, count, table, air
  <2> QED
    BY <1>4, <2>1, <2>2, <2>3, <2>4 DEF MainThread
<1>5. CASE button_cb \/ HardReset
  BY <1>2, <1>3, <1>5 DEF button_cb, HardReset, count, table, air
<1>6. CASE request_cb
  <2>1. ASSUME NEW start, NEW n, RequestCb(start, n) PROVE AdvertInv'
    <3>1. /\ counter' = counter + rollover /\ rollover' = 0
          /\ UNCHANGED <<adv, adv_result, register_subevent_data, curr_state, step>>
      BY <2>1 DEF RequestCb, InSequence, add_rollover, main, table, air
    <3>2. counter' + rollover' = counter + rollover
      <4>1. counter + rollover \in Nat
        BY DEF TypeOK
      <4>2. \A a \in Nat : a + 0 = a
        OBVIOUS
      <4> QED
        BY <3>1, <4>1, <4>2, Zenon
    <3> QED
      BY <3>1, <3>2, AdvertFrame
  <2>2. ASSUME NEW ok, RequestSubevent(ok) PROVE AdvertInv'
    <3>1. rx # "idle" /\ UNCHANGED <<register_subevent_data, counter, curr_state, step>>
      BY <2>2 DEF RequestSubevent, main, table
    <3>2. ~(curr_state = "INITIALIZE" /\ step = "entry")
      BY <3>1 DEF BootInv
    <3>3. CASE subevent = 0
      BY <1>1, <2>2, <3>1, <3>2, <3>3, Advertised DEF RequestSubevent, set_adv_data
    <3>4. CASE subevent # 0
      BY <1>3, <2>2, <3>1, <3>4 DEF RequestSubevent, air
    <3> QED
      BY <3>3, <3>4
  <2>3. CASE RequestSlot
    BY <1>3, <2>3 DEF RequestSlot, main, count, air
  <2>4. ASSUME NEW ok, RequestPublish(ok) PROVE AdvertInv'
    BY <1>3, <2>4 DEF RequestPublish, main, count, table, air
  <2> QED
    BY <1>6, <2>1, <2>2, <2>3, <2>4 DEF request_cb
<1>7. CASE response_cb
  <2>1. ASSUME NEW s, NEW rc, ResponseRejected(s, rc) PROVE AdvertInv'
    BY <1>3, <2>1 DEF ResponseRejected, main, count, air
  <2>2. ASSUME NEW s, NEW rc, NEW d, NEW ok1, NEW ok2, ResponseRegisters(d, s, rc, ok1, ok2)
        PROVE  AdvertInv'
    BY <1>1, <2>2, Advertised DEF ResponseRegisters, Responds, main
  <2>3. ASSUME NEW s, NEW rc, NEW d, NEW ok, ResponseInOwnedSlot(d, s, rc, ok)
        PROVE  AdvertInv'
    BY <1>1, <2>3, Advertised DEF ResponseInOwnedSlot, Responds, set_adv_data, main
  <2> QED
    BY <1>7, <2>1, <2>2, <2>3 DEF response_cb, ResponseVerified
<1>8. CASE UNCHANGED vars
  BY <1>3, <1>8 DEF vars, main, count, table, air
<1> QED
  BY <1>4, <1>5, <1>6, <1>7, <1>8 DEF Next

\* As long as bt_le_ext_adv_set_data succeeds, what a scanner reads in the extended
\* advertisement is the current register list and a counter at most one behind the
\* one it will meet in the subevents.
THEOREM AdvertIsCurrent == Spec => []AdvertCurrent
<1>1. Init => RollInv /\ AdvertInv
  BY DEF Init, RollInv, AdvertInv, AdvertCurrent
<1>2. AdvertInv => AdvertCurrent
  BY DEF AdvertInv
<1> QED
  BY <1>1, <1>2, InitTypeOK, NextTypeOK, InitBootInv, NextBootInv, NextRollInv,
     NextAdvertInv, PTL DEF Spec
-----------------------------------------------------------------------------
(* The counter in persistent storage.                                      *)

\* The counter still fits in the four bytes that a commit stores.
CounterFits == counter < U32

\* What a commit stores of the counter, and what a boot loads of the key.
LEMMA ImportKey ==
    ASSUME NEW v \in Nat
    PROVE  /\ psa_import_key(v) \in Nat /\ psa_import_key(v) < U32
           /\ v < U32 => psa_import_key(v) = v
<1>1. \A n \in Nat \ {0} : v % n \in 0 .. n - 1 /\ (v < n => v % n = v)
  OBVIOUS
<1> QED
  BY <1>1, CounterAssumption DEF psa_import_key

LEMMA LoadedCounter ==
    ASSUME TypeOK, NEW value \in crypto_secure_counter_value(key)
    PROVE  value \in Nat /\ (value \in RandomCounters \/ (key # NoKey /\ value = key))
  BY CounterAssumption DEF TypeOK, crypto_secure_counter_value, StoredKey

\* Between the two halves of a commit there is no key, and the counter is not
\* below what it was at the first.
KeepInv ==
    /\ ButtonKeepsCount
    /\ step = "destroyed" => key = NoKey /\ promised <= counter

\* A response or a request may move the counter up while a commit is under way.
LEMMA KeepFrame ==
    ASSUME TypeOK, TypeOK', KeepInv, UNCHANGED <<step, key, promised>>, counter' >= counter
    PROVE  KeepInv'
  BY DEF KeepInv, ButtonKeepsCount, TypeOK

\* A response leaves the counter, or takes one that was published.
LEMMA ResponseCounter ==
    ASSUME TypeOK, response_cb
    PROVE  /\ counter' >= counter
           /\ counter' = counter \/ \E s \in Subevents : counter' \in published[s]
<1>1. ASSUME NEW s, NEW rc, ResponseRejected(s, rc)
      PROVE  counter' = counter
  BY <1>1 DEF ResponseRejected, count
<1>2. ASSUME NEW s \in AirSlots, NEW rc, NEW d, Responds(s, rc), Hear(d, s, rc)
      PROVE  /\ counter' >= counter
             /\ counter' = counter \/ counter' \in published[s.subevent]
             /\ s.subevent \in Subevents
  <2>1. s.subevent \in Subevents /\ rc \in Nat /\ rc \in published[s.subevent]
    BY <1>2, ResponseTypes DEF Responds
  <2>2. counter \in Nat /\ counter' = verified_counter(rc, counter)
    BY <1>2 DEF Hear, TypeOK
  <2> QED
    BY <2>1, <2>2 DEF verified_counter
<1>3. ASSUME NEW s \in AirSlots, NEW rc, NEW d, NEW ok1, NEW ok2,
             ResponseRegisters(d, s, rc, ok1, ok2)
      PROVE  Responds(s, rc) /\ Hear(d, s, rc)
  BY <1>3 DEF ResponseRegisters
<1>4. ASSUME NEW s \in AirSlots, NEW rc, NEW d, NEW ok, ResponseInOwnedSlot(d, s, rc, ok)
      PROVE  Responds(s, rc) /\ Hear(d, s, rc)
  BY <1>4 DEF ResponseInOwnedSlot
<1>5. counter \in Nat
  BY DEF TypeOK
<1> QED
  BY <1>1, <1>2, <1>3, <1>4, <1>5 DEF response_cb, ResponseVerified

\* Callbacks come one at a time.
LEMMA ResponseWhileIdle == response_cb => rx = "idle"
<1>1. ASSUME NEW s, NEW rc, ResponseRejected(s, rc) PROVE rx = "idle"
  BY <1>1 DEF ResponseRejected, Responds
<1>2. ASSUME NEW s, NEW rc, NEW d, NEW ok1, NEW ok2, ResponseRegisters(d, s, rc, ok1, ok2)
      PROVE  rx = "idle"
  BY <1>2 DEF ResponseRegisters, Responds
<1>3. ASSUME NEW s, NEW rc, NEW d, NEW ok, ResponseInOwnedSlot(d, s, rc, ok) PROVE rx = "idle"
  BY <1>3 DEF ResponseInOwnedSlot, Responds
<1> QED
  BY <1>1, <1>2, <1>3 DEF response_cb, ResponseVerified

LEMMA NextKeepInv ==
    TypeOK /\ KeepInv /\ CounterFits /\ [Next]_vars => KeepInv'
<1> SUFFICES ASSUME TypeOK, KeepInv, CounterFits, [Next]_vars PROVE KeepInv'
  OBVIOUS
<1>1. TypeOK'
  BY NextTypeOK
<1>2. ASSUME Reboot PROVE KeepInv'
  BY <1>2 DEF Reboot, KeepInv, ButtonKeepsCount
<1>3. ASSUME UNCHANGED <<key, promised, counter>>, step' = "destroyed" => step = "destroyed"
      PROVE  KeepInv'
  BY <1>3 DEF KeepInv, ButtonKeepsCount
<1>4. CASE MainThread
  <2>1. ASSUME NEW value, InitCounterFails(value) PROVE KeepInv'
    BY <2>1 DEF InitCounterFails, flash, KeepInv, ButtonKeepsCount
  <2>2. ASSUME NEW value \in crypto_secure_counter_value(key), InitCounter(value)
        PROVE  KeepInv'
    <3>1. value \in Nat /\ psa_import_key(value) \in Nat
      BY LoadedCounter, ImportKey
    <3> QED
      BY <2>2, <3>1 DEF InitCounter, KeepInv, ButtonKeepsCount
  <2>3. CASE CommitDestroy
    BY <2>3 DEF CommitDestroy, psa_destroy_key, count, KeepInv, ButtonKeepsCount, TypeOK
  <2>4. CASE CommitImport
    <3>1. psa_import_key(counter) = counter
      BY ImportKey DEF CounterFits, TypeOK
    <3> QED
      BY <2>4, <3>1 DEF CommitImport, KeepInv, ButtonKeepsCount, TypeOK
  <2>5. CASE SysReboot
    BY <1>2, <2>5 DEF SysReboot
  <2>6. CASE \/ InitCryptoFails \/ InitPeriodicAdv \/ InitExtendedAdv \/ InitBluetoothFails
             \/ advertising
    BY <1>3, <2>6 DEF InitCryptoFails, InitPeriodicAdv, InitExtendedAdv, InitBluetoothFails,
       advertising, count, flash
  <2> QED
    BY <1>4, <2>1, <2>2, <2>3, <2>4, <2>5, <2>6 DEF MainThread
<1>5. CASE button_cb \/ HardReset
  BY <1>2, <1>3, <1>5 DEF button_cb, HardReset, count, flash
<1>6. CASE request_cb
  <2>1. UNCHANGED <<step, key, promised>>
    BY <1>6 DEF request_cb, RequestCb, InSequence, RequestSubevent, RequestSlot, RequestPublish, main, flash
  <2>2. counter' >= counter
    BY <1>6 DEF request_cb, RequestCb, InSequence, RequestSubevent, RequestSlot, RequestPublish,
       add_rollover, count, TypeOK
  <2> QED
    BY <1>1, <2>1, <2>2, KeepFrame
<1>7. CASE response_cb
  BY <1>1, <1>7, ResponseFrame, ResponseCounter, KeepFrame DEF main, flash
<1>8. CASE UNCHANGED vars
  BY <1>3, <1>8 DEF vars, main, count, flash
<1> QED
  BY <1>4, <1>5, <1>6, <1>7, <1>8 DEF Next

LEMMA KeepInvariance == Spec /\ []CounterFits => []KeepInv
<1>1. Init => KeepInv
  BY DEF Init, KeepInv, ButtonKeepsCount
<1> QED
  BY <1>1, InitTypeOK, NextTypeOK, NextKeepInv, PTL DEF Spec

\* As long as the counter fits in the four bytes that crypto_secure_counter_commit
\* stores, a key is never below the counter at which a reboot by button began,
\* whatever responses, requests, resets and failing commits come in between.
THEOREM ButtonRebootKeepsCount == Spec /\ []CounterFits => []ButtonKeepsCount
<1>1. KeepInv => ButtonKeepsCount
  BY DEF KeepInv
<1> QED
  BY <1>1, KeepInvariance, PTL

\* What keeps the counter narrow: a stored value to start from, narrow storage,
\* narrow published counters, and room for one more wrap while a request is under
\* way.
FitsInv ==
    /\ CounterFits
    /\ step # "no_psa" /\ (key = NoKey => step = "destroyed")
    /\ key # NoKey => key < U32
    /\ \A s \in Subevents : \A c \in published[s] : c < U32
    /\ rx # "idle" => counter < MaxCounter

LEMMA NextFitsInv ==
    ASSUME MaxCounter < U32, Env \cap {"reset", "init_error"} = {}
    PROVE  TypeOK /\ RollInv /\ BootInv /\ FitsInv /\ [Next]_vars => FitsInv'
<1> SUFFICES ASSUME TypeOK, RollInv, BootInv, FitsInv, [Next]_vars PROVE FitsInv'
  OBVIOUS
<1> USE DEF FitsInv, CounterFits
<1>0. /\ U32 \in Nat \ {0} /\ MaxCounter \in Nat /\ 0 < U32
      /\ \A v \in Nat : psa_import_key(v) \in Nat /\ psa_import_key(v) < U32
  BY CounterAssumption, AdvertiserAssumption, ImportKey
<1>1. "reset" \notin Env /\ "init_error" \notin Env
  OBVIOUS
<1>3. ASSUME UNCHANGED <<key, counter, published, rx>>,
             step' # "no_psa", step = "destroyed" => step' = "destroyed"
      PROVE  FitsInv'
  BY <1>3
<1>4. CASE MainThread
  <2>1. ASSUME NEW value, InitCounterFails(value) \/ InitCryptoFails \/ InitBluetoothFails
        PROVE  FALSE
    BY <1>1, <2>1 DEF InitCounterFails, InitCryptoFails, InitBluetoothFails
  <2>2. ASSUME NEW value \in crypto_secure_counter_value(key), InitCounter(value)
        PROVE  FitsInv'
    <3>1. key # NoKey /\ value = key
      BY <2>2 DEF InitCounter, crypto_secure_counter_value
    <3> QED
      BY <2>2, <3>1 DEF InitCounter, BootInv, loop, seen
  <2>3. CASE CommitDestroy
    BY <2>3 DEF CommitDestroy, psa_destroy_key, count, loop, seen
  <2>4. CASE CommitImport
    BY <1>0, <2>4, CounterAssumption DEF CommitImport, count, loop, seen, TypeOK
  <2>5. CASE SysReboot
    <3>1. step = "committed" /\ key # NoKey
      BY <1>1, <2>5 DEF SysReboot
    <3> QED
      BY <1>0, <2>5, <3>1 DEF SysReboot, Reboot
  <2>6. CASE InitPeriodicAdv \/ InitExtendedAdv \/ advertising
    BY <1>3, <2>6 DEF InitPeriodicAdv, InitExtendedAdv, advertising,
       count, flash, loop, seen
  <2> QED
    BY <1>4, <2>1, <2>2, <2>3, <2>4, <2>5, <2>6 DEF MainThread
<1>5. CASE button_cb \/ HardReset
  BY <1>1, <1>3, <1>5 DEF button_cb, HardReset, count, flash, loop, seen
<1>6. CASE request_cb
  <2>1. ASSUME NEW start, NEW n, RequestCb(start, n) PROVE FitsInv'
    BY <1>0, <2>1 DEF RequestCb, InSequence, add_rollover, main, flash, seen, TypeOK
  <2>2. ASSUME NEW ok, RequestSubevent(ok) PROVE FitsInv'
    BY <2>2 DEF RequestSubevent, main, flash, seen
  <2>3. CASE RequestSlot
    BY <2>3 DEF RequestSlot, main, count, flash
  <2>4. ASSUME NEW ok, RequestPublish(ok) PROVE FitsInv'
    <3>1. UNCHANGED <<key, counter, step>> /\ rx = "slots"
      BY <2>4 DEF RequestPublish, main, count, flash
    <3>2. SubeventCounter < U32
      BY <1>0, <3>1 DEF SubeventCounter, RollInv, TypeOK
    <3>3. \A s \in Subevents : published'[s] \subseteq published[s] \cup {SubeventCounter}
      BY <2>4 DEF RequestPublish, TypeOK
    <3> QED
      BY <3>1, <3>2, <3>3
  <2> QED
    BY <1>6, <2>1, <2>2, <2>3, <2>4 DEF request_cb
<1>7. CASE response_cb
  <2>1. UNCHANGED <<key, published, rx, step>> /\ rx = "idle"
    BY <1>7, ResponseFrame, ResponseWhileIdle DEF main, flash, loop
  <2>2. counter' < U32
    BY <1>7, ResponseCounter
  <2> QED
    BY <2>1, <2>2
<1>8. CASE UNCHANGED vars
  BY <1>3, <1>8 DEF vars, main, count, flash, loop, seen
<1> QED
  BY <1>4, <1>5, <1>6, <1>7, <1>8 DEF Next

\* A device whose calls do not fail and which is rebooted by Button 0 alone always
\* finds its key at boot and so never draws a counter: within 2^32 events, however
\* the presses fall between requests and responses, no reboot loses count.
THEOREM ButtonAloneKeepsCount ==
    ASSUME MaxCounter < U32, Env \cap {"reset", "init_error"} = {}
    PROVE  Spec => []CounterFits /\ []ButtonKeepsCount
<1>1. Init => RollInv /\ FitsInv
  BY CounterAssumption DEF Init, RollInv, FitsInv, CounterFits
<1>2. TypeOK /\ RollInv /\ BootInv /\ FitsInv /\ [Next]_vars => FitsInv'
  BY NextFitsInv
<1>3. FitsInv => CounterFits
  BY DEF FitsInv
<1>4. Spec => []CounterFits
  BY <1>1, <1>2, <1>3, InitTypeOK, NextTypeOK, InitBootInv, NextBootInv, NextRollInv,
     PTL DEF Spec
<1> QED
  BY <1>4, ButtonRebootKeepsCount, PTL
=============================================================================
