--------------------------- MODULE ScannerProofs ---------------------------
(* The safety invariants of Scanner, for every limit and every Env.        *)
EXTENDS Scanner, TLAPS

\* Where a sync may be announced: the radio scans, and synced_sem is given,
\* only while syncing() waits, and never both.
ScanInv ==
    /\ scan = "on" => At("SYNCING", "wait") /\ synced_sem = 0
    /\ synced_sem = 1 => At("SYNCING", "wait")

\* From the announcement until confirming() has taken an event, a sync that is
\* gone has left one.
Announced ==
    \/ synced_sem = 1
    \/ At("CONFIRMING", "entry") \/ At("CONFIRMING", "sleep") \/ At("CONFIRMING", "wait")

WakeInv == Announced /\ sync = "none" => synced_evt_sem = 1

\* A sync that default_sync does not refer to: syncing() forgot it, and as long as
\* it is there no other one is announced.
ForgottenInv ==
    sync # "none" /\ default_sync = "NULL" =>
        /\ synced_sem = 0
        /\ \/ At("SYNCING", "scan") \/ At("SYNCING", "wait")
           \/ curr_state = "FAULT_HANDLING"

IInv == TypeOK /\ ScanInv /\ GeneratorOnlyRegistered /\ WakeInv /\ ForgottenInv

USE DEF At, Goto, Raise

LEMMA InitIInv == Init => IInv
  BY ScannerAssumption DEF Init, IInv, TypeOK, Events, ScanInv, Announced, WakeInv,
        GeneratorOnlyRegistered, ForgottenInv

\* Every state and every callback keeps the types.
LEMMA NextTypeOK == TypeOK /\ [Next]_vars => TypeOK'
<1> SUFFICES ASSUME TypeOK, [Next]_vars PROVE TypeOK'
  OBVIOUS
<1> USE ScannerAssumption DEF TypeOK, Events
<1>1. CASE run_state
  <2>1. CASE init
    BY <2>1 DEF init, host, link
  <2>2. CASE syncing
    BY <2>2 DEF syncing, syncing_entry, syncing_delete, syncing_forget, syncing_scan,
                syncing_take, evt, host, link, NoLink
  <2>3. CASE confirming
    BY <2>3 DEF confirming, confirming_entry, confirming_awake, confirming_decide, evt, host, link
  <2>4. CASE sleeping
    BY <2>4 DEF sleeping, sleeping_entry, sleeping_take, sleeping_sem_init, sleeping_leave,
                set_recv, evt, host, link
  <2>5. CASE enabled
    BY <2>5 DEF enabled, enabled_entry, enabled_arm, enabled_decide, enabled_stop,
                set_recv, evt, host, link
  <2>6. CASE take_event
    BY <2>6 DEF take_event, host, link
  <2>7. CASE handle_fault
    BY <2>7 DEF handle_fault, Reboot, NoLink
  <2> QED
    BY <1>1, <2>1, <2>2, <2>3, <2>4, <2>5, <2>6, <2>7 DEF run_state
<1>2. CASE null_fault
  BY <1>2 DEF null_fault, Reboot, NoLink
<1>3. CASE scan_recv_cb \/ sync_cb \/ term_cb
  BY <1>3 DEF scan_recv_cb, sync_cb, term_cb, NoLink, main, evt
<1>4. CASE recv_cb \/ recv_invalid
  BY <1>4 DEF recv_cb, confirm_recv_unacked, confirm_recv_acked, ack_recv_unacked,
              ack_recv_acked, recv_invalid, Tick, LimitReached, main, evt, host, link
<1>5. CASE data_generated_cb
  BY <1>5 DEF data_generated_cb, main, evt, host, link
<1>6. CASE UNCHANGED vars
  BY <1>6 DEF vars, main, evt, host, link
<1> QED
  BY <1>1, <1>2, <1>3, <1>4, <1>5, <1>6 DEF Next

\* The rest of the invariant.
LEMMA NextIInv == IInv /\ [Next]_vars => IInv'
<1> SUFFICES ASSUME IInv, [Next]_vars PROVE IInv'
  OBVIOUS
<1>0. TypeOK'
  BY NextTypeOK DEF IInv
<1> SUFFICES ScanInv' /\ GeneratorOnlyRegistered' /\ WakeInv' /\ ForgottenInv'
  BY <1>0 DEF IInv
<1> USE DEF IInv, TypeOK, ScanInv, GeneratorOnlyRegistered, WakeInv, Announced, ForgottenInv
<1>1. CASE run_state
  <2>1. CASE init
    BY <2>1 DEF init, host, link
  <2>2. CASE syncing
    BY <2>2 DEF syncing, syncing_entry, syncing_delete, syncing_forget, syncing_scan,
                syncing_take, evt, host, link, NoLink
  <2>3. CASE confirming
    BY <2>3 DEF confirming, confirming_entry, confirming_awake, confirming_decide, evt, host, link
  <2>4. CASE sleeping
    BY <2>4 DEF sleeping, sleeping_entry, sleeping_take, sleeping_sem_init, sleeping_leave,
                set_recv, evt, host, link
  <2>5. CASE enabled
    BY <2>5 DEF enabled, enabled_entry, enabled_arm, enabled_decide, enabled_stop,
                set_recv, evt, host, link
  <2>6. CASE take_event
    BY <2>6 DEF take_event, host, link
  <2>7. CASE handle_fault
    BY <2>7 DEF handle_fault, Reboot, NoLink
  <2> QED
    BY <1>1, <2>1, <2>2, <2>3, <2>4, <2>5, <2>6, <2>7 DEF run_state
<1>2. CASE null_fault
  BY <1>2 DEF null_fault, Reboot, NoLink
<1>3. CASE scan_recv_cb \/ sync_cb \/ term_cb
  BY <1>3 DEF scan_recv_cb, sync_cb, term_cb, NoLink, main, evt
<1>4. CASE recv_cb \/ recv_invalid
  BY <1>4 DEF recv_cb, confirm_recv_unacked, confirm_recv_acked, ack_recv_unacked,
              ack_recv_acked, recv_invalid, Tick, LimitReached, main, evt, host, link
<1>5. CASE data_generated_cb
  BY <1>5 DEF data_generated_cb, main, evt, host, link
<1>6. CASE UNCHANGED vars
  BY <1>6 DEF vars, main, evt, host, link
<1> QED
  BY <1>1, <1>2, <1>3, <1>4, <1>5, <1>6 DEF Next

LEMMA Invariance == Spec => []IInv
  BY InitIInv, NextIInv, PTL DEF Spec

\* Every variable of the scanner keeps one of its values, whatever the order of
\* state functions, callbacks and timer.
THEOREM TypeCorrect == Spec => []TypeOK
<1>1. IInv => TypeOK
  BY DEF IInv
<1> QED
  BY <1>1, Invariance, PTL

\* The generator's timer never runs outside SLEEPING and ENABLED.
THEOREM GeneratorScope == Spec => []GeneratorOnlyRegistered
<1>1. IInv => GeneratorOnlyRegistered
  BY DEF IInv
<1> QED
  BY <1>1, Invariance, PTL

\* confirming() never waits for an event that a lost sync cannot bring any more.
THEOREM ConfirmingIsWoken == Spec => []ConfirmingWakes
<1>1. IInv => ConfirmingWakes
  BY DEF IInv, WakeInv, Announced, ConfirmingWakes
<1> QED
  BY <1>1, Invariance, PTL

\* A scanner that registers or is registered holds its sync through default_sync,
\* also when deletes fail or race sync_cb and when stopping the scan fails.
THEOREM SyncIsHeld == Spec => []SyncHeld
<1>1. IInv => SyncHeld
  BY DEF IInv, ForgottenInv, SyncHeld
<1> QED
  BY <1>1, Invariance, PTL

\* The same when the scanner may be reset at any moment, as its environment may do to
\* any board: the semaphores, the timer and the host all start anew.
THEOREM ResetIsSafe ==
    Init /\ [][Next \/ Reboot]_vars =>
        [](ConfirmingWakes /\ GeneratorOnlyRegistered /\ SyncHeld)
<1>1. IInv /\ Reboot => IInv'
  BY ScannerAssumption DEF IInv, Reboot, NoLink, TypeOK, Events, ScanInv, Announced, WakeInv,
     GeneratorOnlyRegistered, ForgottenInv
<1>2. IInv /\ [Next \/ Reboot]_vars => IInv'
  BY <1>1, NextIInv
<1>3. IInv => ConfirmingWakes /\ GeneratorOnlyRegistered /\ SyncHeld
  BY DEF IInv, WakeInv, Announced, ConfirmingWakes, ForgottenInv, SyncHeld
<1> QED
  BY <1>2, <1>3, InitIInv, PTL
=============================================================================
