-------------------------- MODULE PawrSystemProofs --------------------------
(* The advertiser and the scanner together, for every number of slots,     *)
(* subevents and devices, every bound and every loss.                      *)
EXTENDS AdvertiserProofs, PawrSystem, SequenceTheorems

\* Neither the button nor an error of init sends the advertiser to a commit.
CalmInv ==
    /\ curr_state \in {"INITIALIZE", "ADVERTISING"}
    /\ step \in {"entry", "loaded", "started"}
    /\ reboot_sem = 0

\* The extended advertisement is not ahead of the counter.
NotAheadInv ==
    /\ curr_state = "INITIALIZE" /\ step = "entry" =>
          counter = 0 /\ rollover = 0 /\ adv.counter = 0
    /\ adv.counter <= counter

DownMsg == [subevent: Subevents, slack: Int, counter: Nat, acks: [RspSlots -> DevIds]]
UpMsg   == [dev: Devices, slot: AirSlots, counter: Nat, slack: Int]

\* Types of what PawrSystem adds, and the order of the boots it remembers.
SysTypeOK ==
    /\ downlink \in Seq(DownMsg) /\ uplink \in Seq(UpMsg)
    /\ s_counter \in Nat /\ selected_slot \in Slots
    /\ train \in Nat /\ train <= boots
    /\ epoch \in Nat /\ epoch <= boots
    /\ others \in Nat

\* Everything under way was published since the advertiser's boot.
UnderWayInv ==
    /\ \A m \in Msgs(downlink) : m.counter \in published[m.subevent]
    /\ \A r \in Msgs(uplink) : r.counter \in published[r.slot.subevent]

\* The scanner's id gets into the advertiser only by a response.
SentInv ==
    \/ s_response = "sent"
    \/ /\ \A r \in Msgs(uplink) : r.dev # ID
       /\ \A s \in Subevents, r \in RspSlots : rsp_slots[s][r].dev_id # ID
       /\ \A r \in RspSlots : ack_data[r] # ID
       /\ \A m \in Msgs(downlink), r \in RspSlots : m.acks[r] # ID

\* The data of a subevent is under way in the order of its counters.
OrderInv ==
    \A i, k \in DOMAIN downlink :
       i < k /\ downlink[i].subevent = downlink[k].subevent =>
          downlink[i].counter < downlink[k].counter

\* What the scanner has counted to is at most one more than its subevent was sent.
Reached ==
    \/ s_counter <= SubeventCounter
    \/ /\ selected_slot.subevent \in Subevents
       /\ \E c \in published[selected_slot.subevent] : s_counter <= c + 1

CountInv ==
    epoch = boots =>
       /\ Reached
       /\ \A m \in Msgs(downlink) :
             m.subevent = selected_slot.subevent => s_counter <= m.counter

AdvInv == TypeOK /\ BootInv /\ FreshInv /\ CalmInv /\ NotAheadInv
SysInv == AdvInv /\ SysTypeOK /\ UnderWayInv /\ SentInv /\ OrderInv /\ CountInv
-----------------------------------------------------------------------------
(* Queues.                                                                 *)

LEMMA NoMsgs == Msgs(<<>>) = {}
  BY DEF Msgs

\* What is in a queue after a message is taken from it or put into it.
LEMMA MsgsTail ==
    ASSUME NEW Q, NEW q \in Seq(Q), q # <<>>
    PROVE  /\ Head(q) = q[1] /\ 1 \in DOMAIN q
           /\ Head(q) \in Msgs(q) /\ Head(q) \in Q
           /\ Tail(q) \in Seq(Q)
           /\ \A i \in DOMAIN Tail(q) : i \in Nat /\ i + 1 \in DOMAIN q /\ Tail(q)[i] = q[i + 1]
           /\ Msgs(Tail(q)) \subseteq Msgs(q)
<1>1. /\ Head(q) = q[1] /\ 1 \in DOMAIN q /\ Head(q) \in Q
      /\ Tail(q) \in Seq(Q)
      /\ \A i \in DOMAIN Tail(q) : i \in Nat /\ i + 1 \in DOMAIN q /\ Tail(q)[i] = q[i + 1]
  OBVIOUS
<1> QED
  BY <1>1 DEF Msgs

LEMMA MsgsAppend ==
    ASSUME NEW Q, NEW q \in Seq(Q), NEW e \in Q
    PROVE  /\ Append(q, e) \in Seq(Q)
           /\ Append(q, e) # <<>>
           /\ Msgs(Append(q, e)) = Msgs(q) \cup {e}
           /\ DOMAIN q = 1 .. Len(q) /\ Len(q) \in Nat
           /\ DOMAIN Append(q, e) = 1 .. Len(q) + 1
           /\ \A i \in DOMAIN q : Append(q, e)[i] = q[i]
           /\ Append(q, e)[Len(q) + 1] = e
<1>1. /\ Append(q, e) \in Seq(Q) /\ Append(q, e) # <<>>
      /\ DOMAIN q = 1 .. Len(q) /\ Len(q) \in Nat
      /\ DOMAIN Append(q, e) = 1 .. Len(q) + 1
      /\ \A i \in DOMAIN q : Append(q, e)[i] = q[i]
      /\ Append(q, e)[Len(q) + 1] = e
  OBVIOUS
<1>2. 1 .. Len(q) + 1 = (1 .. Len(q)) \cup {Len(q) + 1}
  BY <1>1
<1> QED
  BY <1>1, <1>2 DEF Msgs

\* A message in a queue has the type of the queue.
LEMMA MsgsType ==
    ASSUME NEW Q, NEW q \in Seq(Q)
    PROVE  Msgs(q) \subseteq Q
  BY DEF Msgs
-----------------------------------------------------------------------------
(* Steps of the scanner.                                                   *)

LEMMA IdIsADevice == ID \in Devices /\ ID # NoDev
  BY SystemAssumption, AdvertiserAssumption DEF ID

USE DEF S!At, S!Goto, S!Raise

\* The main thread, term_cb and the timer end a sync at most; they send nothing.
LEMMA ScannerQuiet ==
    ASSUME ScannerMain \/ ScannerEvent
    PROVE  /\ s_sync' = s_sync \/ s_sync' = "none"
           /\ s_response' = s_response
           /\ UNCHANGED <<vars, known, sky>>
<1>1. CASE ScannerEvent
  BY <1>1 DEF ScannerEvent, S!term_cb, S!data_generated_cb, S!NoLink, S!host, S!link
<1>2. CASE ScannerMain
  <2>1. UNCHANGED <<vars, known, sky>>
    BY <1>2 DEF ScannerMain
  <2>2. CASE S!init \/ S!take_event
    BY <2>1, <2>2 DEF S!init, S!take_event, S!host, S!link
  <2>3. CASE S!syncing
    BY <2>1, <2>3 DEF S!syncing, S!syncing_entry, S!syncing_delete, S!syncing_forget,
                      S!syncing_scan, S!syncing_take, S!NoLink, S!host, S!link
  <2>4. CASE S!confirming
    BY <2>1, <2>4 DEF S!confirming, S!confirming_entry, S!confirming_awake,
                      S!confirming_decide, S!host, S!link
  <2>5. CASE S!sleeping
    BY <2>1, <2>5 DEF S!sleeping, S!sleeping_entry, S!sleeping_take,
                      S!sleeping_sem_init, S!sleeping_leave, S!host, S!link
  <2>6. CASE S!enabled
    BY <2>1, <2>6 DEF S!enabled, S!enabled_entry, S!enabled_arm, S!enabled_decide,
                      S!enabled_stop, S!host, S!link
  <2> QED
    BY <1>2, <2>2, <2>3, <2>4, <2>5, <2>6 DEF ScannerMain
<1> QED
  BY <1>1, <1>2

\* A reboot loses the scanner's RAM and its sync.
LEMMA ScannerReboots ==
    ASSUME ScannerReboot
    PROVE  /\ s_sync' = "none" /\ s_response' = s_response
           /\ s_counter' = 0 /\ selected_slot' = Slot(0, 0)
           /\ train' = boots /\ epoch' = boots
           /\ UNCHANGED <<vars, queues, others>>
  BY DEF ScannerReboot, S!handle_fault, S!null_fault, S!Reboot, S!NoLink

\* What an indication does: it is rejected, it is read, or it is also answered.
Answer(m) == [dev |-> ID, slack |-> m.slack, counter |-> m.counter, slot |-> selected_slot]

LEMMA AcceptsMeans ==
    ASSUME SysTypeOK, NEW m \in DownMsg
    PROVE  /\ Accepts(m) <=> s_counter <= m.counter
           /\ Accepts(m) => verified_counter(m.counter, s_counter) = m.counter
           /\ m.subevent = selected_slot.subevent =>
                 Slot(m.subevent, selected_slot.rsp_slot) = selected_slot
<1>1. m.counter \in Nat /\ s_counter \in Nat /\ selected_slot \in Slots
  BY DEF SysTypeOK, DownMsg
<1> QED
  BY <1>1 DEF Accepts, verify_message, verified_counter, Slot, Slots

LEMMA ScannerReceives ==
    ASSUME SysTypeOK, ScannerRecv
    PROVE  /\ downlink # <<>> /\ downlink' = Tail(downlink)
           /\ train = boots /\ s_sync = "synced" /\ s_sync' = s_sync
           /\ Head(downlink).subevent = selected_slot.subevent
           /\ s_response' = s_response \/ s_response' = "sent"
           /\ UNCHANGED <<vars, selected_slot, train, epoch, others>>
           /\ \/ uplink' = uplink /\ s_counter' = s_counter
              \/ /\ s_counter <= Head(downlink).counter
                 /\ s_counter' = Head(downlink).counter /\ uplink' = uplink
              \/ /\ s_counter <= Head(downlink).counter
                 /\ s_counter' = Head(downlink).counter + 1 /\ s_response' = "sent"
                 /\ uplink' = Append(uplink, Answer(Head(downlink)))
<1> DEFINE m == Head(downlink)
<1>1. /\ downlink # <<>> /\ downlink' = Tail(downlink) /\ Hears(m)
      /\ UNCHANGED <<vars, selected_slot, train, epoch, others>>
  BY DEF ScannerRecv
<1>2. m \in DownMsg
  BY <1>1, MsgsTail DEF SysTypeOK
<1>3. /\ train = boots /\ m.subevent = selected_slot.subevent /\ s_sync = "synced"
  BY <1>1 DEF Hears, S!Indication
<1>4. /\ Accepts(m) => s_counter <= m.counter /\ verified_counter(m.counter, s_counter) = m.counter
      /\ Slot(m.subevent, selected_slot.rsp_slot) = selected_slot
  BY <1>2, <1>3, AcceptsMeans
<1>5. set_rsp_data(m) /\ Accepts(m) =>
         s_counter' = m.counter + 1 /\ uplink' = Append(uplink, Answer(m))
  BY <1>4 DEF set_rsp_data, Answer
<1> HIDE DEF m
<1>6. CASE ~Accepts(m) /\ S!recv_invalid /\ UNCHANGED <<s_counter, uplink>>
  BY <1>1, <1>3, <1>6 DEF S!recv_invalid, S!host, S!link, m
<1>7. CASE /\ Accepts(m) /\ (S!confirm_recv_acked \/ S!ack_recv_acked)
           /\ s_counter' = verified_counter(m.counter, s_counter)
           /\ UNCHANGED uplink
  BY <1>1, <1>3, <1>4, <1>7 DEF S!confirm_recv_acked, S!ack_recv_acked, S!host, S!link, m
<1>8. CASE Accepts(m) /\ S!confirm_recv_unacked /\ set_rsp_data(m)
  BY <1>1, <1>3, <1>4, <1>5, <1>8 DEF S!confirm_recv_unacked, S!link, m
<1>9. CASE /\ Accepts(m) /\ S!ack_recv_unacked
           /\ IF S!LimitReached
              THEN /\ s_counter' = verified_counter(m.counter, s_counter)
                   /\ UNCHANGED uplink
              ELSE set_rsp_data(m)
  <2>1. CASE S!LimitReached
    BY <1>1, <1>3, <1>4, <1>9, <2>1 DEF S!ack_recv_unacked, S!link, m
  <2>2. CASE ~S!LimitReached
    BY <1>1, <1>3, <1>4, <1>5, <1>9, <2>2 DEF S!ack_recv_unacked, S!link, m
  <2> QED
    BY <2>1, <2>2
<1> QED
  BY <1>6, <1>7, <1>8, <1>9 DEF ScannerRecv, m
-----------------------------------------------------------------------------
(* Steps of the advertiser.                                                *)

\* A response of this scanner or of another is one that Advertiser allows.
LEMMA ResponseIsCb ==
    ASSUME TypeOK, FreshInv, NEW d \in Devices, NEW s, NEW rc, ResponseCb(d, s, rc)
    PROVE  Responds(s, rc) /\ response_cb
<1>1. Responds(s, rc)
  BY DEF ResponseCb, ResponseVerified, ResponseRejected, ResponseRegisters, ResponseInOwnedSlot
<1>2. rc \in Nat /\ rc <= counter + rollover
  BY <1>1 DEF Responds, AirSlots, FreshInv, TypeOK, SubeventCounter
<1>3. s \in AirSlots /\ rc \in 0 .. counter + rollover
  BY <1>1, <1>2 DEF Responds, TypeOK
<1> QED
  BY <1>1, <1>3 DEF response_cb, ResponseCb

\* Every step of the system is a step of the advertiser, but never its button, or
\* leaves it alone.
LEMMA AdvertiserStep ==
    ASSUME TypeOK, FreshInv, SysTypeOK, [SysNext]_sysvars
    PROVE  MainThread \/ HardReset \/ request_cb \/ response_cb \/ UNCHANGED vars
<1>1. CASE AdvMain \/ AdvReset
  BY <1>1 DEF AdvMain, AdvReset
<1>2. CASE AdvRequest \/ AdvFill \/ \E ok \in BOOLEAN : AdvPublish(ok)
  BY <1>2 DEF AdvRequest, AdvFill, AdvPublish, request_cb
<1>3. CASE AdvResponse
  <2>1. Head(uplink) \in UpMsg
    BY <1>3, MsgsTail DEF AdvResponse, SysTypeOK
  <2>2. Head(uplink).dev \in Devices
    BY <2>1 DEF UpMsg
  <2> QED
    BY <1>3, <2>2, ResponseIsCb DEF AdvResponse
<1>4. CASE OtherResponse
  BY <1>4 DEF OtherResponse
<1>5. CASE LoseDownlink \/ LoseUplink \/ ScannerMain \/ ScannerReboot \/ ScannerScanRecv
           \/ ScannerSync \/ ScannerEvent \/ ScannerRecv
  BY <1>5 DEF LoseDownlink, LoseUplink, ScannerMain, ScannerReboot, ScannerScanRecv,
              ScannerSync, ScannerEvent, ScannerRecv
<1>6. CASE UNCHANGED sysvars
  BY <1>6 DEF sysvars
<1> QED
  BY <1>1, <1>2, <1>3, <1>4, <1>5, <1>6 DEF SysNext

LEMMA AdvertiserNext ==
    TypeOK /\ FreshInv /\ SysTypeOK /\ [SysNext]_sysvars => [Next]_vars
  BY AdvertiserStep DEF Next

\* The advertiser does nothing to the scanner that the scanner's model does not
\* allow, which only lacks the reset of a board at any moment.
THEOREM SystemRunsScanner == SysSpec => S!Init /\ [][S!Next \/ S!Reboot]_(S!vars)
<1>1. SysInit => S!Init
  BY DEF SysInit
<1>2. [SysNext]_sysvars => [S!Next \/ S!Reboot]_(S!vars)
  <2> SUFFICES ASSUME [SysNext]_sysvars PROVE S!Next \/ S!Reboot \/ UNCHANGED scanner
    BY DEF scanner, S!vars, S!main, S!evt, S!host, S!link
  <2>1. CASE AdvMain \/ AdvReset \/ AdvRequest \/ AdvFill \/ \E ok \in BOOLEAN : AdvPublish(ok)
    BY <2>1 DEF AdvMain, AdvReset, AdvRequest, AdvFill, AdvPublish
  <2>2. CASE AdvResponse \/ OtherResponse \/ LoseDownlink \/ LoseUplink
    BY <2>2 DEF AdvResponse, OtherResponse, LoseDownlink, LoseUplink
  <2>3. CASE ScannerMain
    BY <2>3 DEF ScannerMain, S!Next, S!run_state
  <2>4. CASE ScannerReboot
    BY <2>4 DEF ScannerReboot, S!Next, S!run_state
  <2>5. CASE ScannerScanRecv \/ ScannerSync \/ ScannerEvent
    BY <2>5 DEF ScannerScanRecv, ScannerSync, ScannerEvent, S!Next
  <2>6. CASE ScannerRecv
    BY <2>6 DEF ScannerRecv, S!Next, S!recv_cb
  <2>7. CASE UNCHANGED sysvars
    BY <2>7 DEF sysvars
  <2> QED
    BY <2>1, <2>2, <2>3, <2>4, <2>5, <2>6, <2>7 DEF SysNext
<1> QED
  BY <1>1, <1>2, PTL DEF SysSpec

\* The scanner of the system, with what is proved of Scanner.
SP == INSTANCE ScannerProofs
        WITH Env <- ScannerEnv,
             curr_state <- s_state, pc <- s_pc, reason <- s_reason,
             fault_reason <- s_fault, synced_evt_sem <- s_evt_sem,
             synced_sem <- s_sem, recv <- s_recv, default_sync <- s_sync_ptr,
             unconfirmed_ticks <- s_ticks, timer <- s_timer, scan <- s_scan,
             sync <- s_sync, subevent <- s_subevent, delivery <- s_delivery,
             response <- s_response

\* S and SP are one scanner.
LEMMA SameScanner ==
    /\ S!Init => SP!Init
    /\ [S!Next \/ S!Reboot]_(S!vars) => [SP!Next \/ SP!Reboot]_(SP!vars)
    /\ SP!ConfirmingWakes /\ SP!GeneratorOnlyRegistered /\ SP!SyncHeld =>
          S!ConfirmingWakes /\ S!GeneratorOnlyRegistered /\ S!SyncHeld
<1>1. S!Init => SP!Init
  BY DEF S!Init, SP!Init
<1>2. [S!Next \/ S!Reboot]_(S!vars) => [SP!Next \/ SP!Reboot]_(SP!vars)
  <2>1. S!run_state => SP!run_state
    BY DEF S!run_state, SP!run_state, S!init, SP!init, S!syncing, SP!syncing,
       S!syncing_entry, SP!syncing_entry, S!syncing_delete, SP!syncing_delete,
       S!syncing_forget, SP!syncing_forget, S!syncing_scan, SP!syncing_scan,
       S!syncing_take, SP!syncing_take, S!confirming, SP!confirming,
       S!confirming_entry, SP!confirming_entry, S!confirming_awake,
       SP!confirming_awake, S!confirming_decide, SP!confirming_decide, S!sleeping,
       SP!sleeping, S!sleeping_entry, SP!sleeping_entry, S!sleeping_take,
       SP!sleeping_take, S!sleeping_sem_init, SP!sleeping_sem_init,
       S!sleeping_leave, SP!sleeping_leave, S!set_recv, SP!set_recv, S!enabled,
       SP!enabled, S!enabled_entry, SP!enabled_entry, S!enabled_arm, SP!enabled_arm,
       S!enabled_decide, SP!enabled_decide, S!enabled_stop, SP!enabled_stop,
       S!take_event, SP!take_event, S!handle_fault, SP!handle_fault, S!Reboot,
       SP!Reboot, S!NoLink, SP!NoLink, S!main, SP!main, S!evt, SP!evt, S!host,
       SP!host, S!link, SP!link, S!Raise, SP!Raise, S!At, SP!At, S!Goto, SP!Goto
  <2>2. S!null_fault => SP!null_fault
    BY DEF S!null_fault, SP!null_fault, S!Reboot, SP!Reboot, S!NoLink, SP!NoLink,
       S!At, SP!At, S!Goto, SP!Goto
  <2>3. S!scan_recv_cb => SP!scan_recv_cb
    BY DEF S!scan_recv_cb, SP!scan_recv_cb, S!main, SP!main, S!evt, SP!evt
  <2>4. S!sync_cb => SP!sync_cb
    BY DEF S!sync_cb, SP!sync_cb, S!main, SP!main, S!evt, SP!evt
  <2>5. S!term_cb => SP!term_cb
    BY DEF S!term_cb, SP!term_cb, S!NoLink, SP!NoLink, S!Raise, SP!Raise, S!main,
       SP!main, S!evt, SP!evt
  <2>6. S!recv_cb => SP!recv_cb
    BY DEF S!recv_cb, SP!recv_cb, S!confirm_recv_unacked, SP!confirm_recv_unacked,
       S!confirm_recv_acked, SP!confirm_recv_acked, S!ack_recv_unacked,
       SP!ack_recv_unacked, S!ack_recv_acked, SP!ack_recv_acked, S!Indication,
       SP!Indication, S!Tick, SP!Tick, S!LimitReached, SP!LimitReached, S!Raise,
       SP!Raise, S!main, SP!main, S!evt, SP!evt, S!host, SP!host, S!link, SP!link
  <2>7. S!recv_invalid => SP!recv_invalid
    BY DEF S!recv_invalid, SP!recv_invalid, S!Indication, SP!Indication, S!Raise,
       SP!Raise, S!main, SP!main, S!evt, SP!evt, S!host, SP!host, S!link, SP!link
  <2>8. S!data_generated_cb => SP!data_generated_cb
    BY DEF S!data_generated_cb, SP!data_generated_cb, S!Raise, SP!Raise, S!main,
       SP!main, S!host, SP!host, S!link, SP!link
  <2>9. S!Reboot => SP!Reboot
    BY DEF S!Reboot, SP!Reboot, S!NoLink, SP!NoLink
  <2>10. S!vars' = S!vars => SP!vars' = SP!vars
    BY DEF S!vars, SP!vars, S!main, SP!main, S!evt, SP!evt, S!host, SP!host, S!link,
       SP!link
  <2> QED
    BY <2>1, <2>2, <2>3, <2>4, <2>5, <2>6, <2>7, <2>8, <2>9, <2>10 DEF S!Next, SP!Next
<1>3. SP!ConfirmingWakes /\ SP!GeneratorOnlyRegistered /\ SP!SyncHeld =>
         S!ConfirmingWakes /\ S!GeneratorOnlyRegistered /\ S!SyncHeld
  BY DEF S!ConfirmingWakes, SP!ConfirmingWakes, S!GeneratorOnlyRegistered,
     SP!GeneratorOnlyRegistered, S!SyncHeld, SP!SyncHeld, S!At, SP!At
<1> QED
  BY <1>1, <1>2, <1>3

\* In the system too, with advertiser, radio and resets doing their worst, confirming()
\* is not left waiting for a sync that is gone, data is generated only while the
\* scanner is registered, and a scanner that waits for indications holds its sync.
THEOREM ScannerIsSafe ==
    SysSpec => [](S!ConfirmingWakes /\ S!GeneratorOnlyRegistered /\ S!SyncHeld)
<1>1. /\ U8 \in Nat /\ MAX_UNCONFIRMED_TICKS \in 1 .. U8 - 1
      /\ ScannerEnv \subseteq SP!Disturbances
  BY AdvertiserAssumption, ScannerConstants DEF S!Disturbances, SP!Disturbances
<1>2. SP!Init /\ [][SP!Next \/ SP!Reboot]_(SP!vars) =>
         [](SP!ConfirmingWakes /\ SP!GeneratorOnlyRegistered /\ SP!SyncHeld)
  BY <1>1, SP!ResetIsSafe, PTL
<1> QED
  BY <1>2, SystemRunsScanner, SameScanner, PTL

\* While the advertiser is calm, its main thread only runs init to its end.
LEMMA CalmMain ==
    ASSUME CalmInv, MainThread
    PROVE  \/ \E value \in crypto_secure_counter_value(key) : InitCounter(value)
           \/ InitPeriodicAdv \/ InitExtendedAdv
  BY SystemAssumption
  DEF CalmInv, MainThread, InitCryptoFails, InitCounterFails, InitBluetoothFails,
      advertising, CommitDestroy, CommitImport, SysReboot

LEMMA CalmNext ==
    ASSUME CalmInv, MainThread \/ HardReset \/ request_cb \/ response_cb \/ UNCHANGED vars
    PROVE  CalmInv'
<1>1. CASE MainThread
  BY <1>1, CalmMain DEF CalmInv, InitCounter, InitPeriodicAdv, InitExtendedAdv
<1>2. CASE HardReset
  BY <1>2 DEF HardReset, Reboot, CalmInv
<1>3. CASE request_cb
  BY <1>3 DEF request_cb, RequestCb, RequestSubevent, RequestSlot, RequestPublish, main, CalmInv
<1>4. CASE response_cb
  BY <1>4, ResponseFrame DEF main, CalmInv
<1>5. CASE UNCHANGED vars
  BY <1>5 DEF vars, main, CalmInv
<1> QED
  BY <1>1, <1>2, <1>3, <1>4, <1>5

\* Between two boots the published counters only become more.
Grows ==
    /\ boots' = boots
    /\ \A s \in Subevents : published[s] \subseteq published'[s]
    /\ SubeventCounter <= SubeventCounter'

LEMMA SumsGrow == \A a, b, c, d \in Nat : a <= c /\ b <= d => a + b <= c + d
  OBVIOUS

LEMMA CounterGrows ==
    ASSUME TypeOK, TypeOK', counter <= counter', rollover <= rollover'
    PROVE  SubeventCounter <= SubeventCounter'
<1>1. counter \in Nat /\ rollover \in Nat /\ counter' \in Nat /\ rollover' \in Nat
  BY DEF TypeOK
<1> QED
  BY <1>1, SumsGrow, Zenon DEF SubeventCounter

LEMMA MainGrows ==
    ASSUME TypeOK, TypeOK', CalmInv, NotAheadInv, MainThread
    PROVE  Grows
<1>1. CASE \E value \in crypto_secure_counter_value(key) : InitCounter(value)
  <2>1. counter = 0 /\ rollover = 0 /\ UNCHANGED <<rollover, boots, published>>
    BY <1>1 DEF InitCounter, NotAheadInv, seen
  <2>2. SubeventCounter = 0
    BY <2>1 DEF SubeventCounter
  <2> QED
    BY <2>1, <2>2, SubeventCounterTypeNext DEF Grows
<1>2. CASE InitPeriodicAdv \/ InitExtendedAdv
  <2>1. UNCHANGED <<counter, rollover, boots, published>>
    BY <1>2 DEF InitPeriodicAdv, InitExtendedAdv, count, flash, seen
  <2>2. SubeventCounter' = SubeventCounter
    BY <2>1 DEF SubeventCounter
  <2> QED
    BY <2>1, <2>2, SubeventCounterType DEF Grows
<1> QED
  BY <1>1, <1>2, CalmMain

LEMMA RequestGrows ==
    ASSUME TypeOK, TypeOK', request_cb
    PROVE  Grows
<1>1. ASSUME NEW start, NEW n, RequestCb(start, n) PROVE Grows
  <2>1. UNCHANGED <<boots, published>>
    BY <1>1 DEF RequestCb, flash, seen
  <2>2. counter' = counter + rollover /\ rollover' = 0
    BY <1>1 DEF RequestCb, add_rollover
  <2>3. SubeventCounter' = SubeventCounter
    BY <2>2 DEF SubeventCounter, TypeOK
  <2> QED
    BY <2>1, <2>3, SubeventCounterType DEF Grows
<1>2. ASSUME NEW ok, RequestSubevent(ok) PROVE Grows
  <2>1. UNCHANGED <<boots, published, counter>>
    BY <1>2 DEF RequestSubevent, flash, seen
  <2>2. rollover' = rollover \/ rollover' = rollover + 1
    BY <1>2 DEF RequestSubevent
  <2>3. SubeventCounter <= SubeventCounter'
    BY <2>1, <2>2, CounterGrows DEF TypeOK
  <2> QED
    BY <2>1, <2>3 DEF Grows
<1>3. CASE RequestSlot
  <2>1. UNCHANGED <<counter, rollover, boots, published>>
    BY <1>3 DEF RequestSlot, count, flash
  <2>2. SubeventCounter' = SubeventCounter
    BY <2>1 DEF SubeventCounter
  <2> QED
    BY <2>1, <2>2, SubeventCounterType DEF Grows
<1>4. ASSUME NEW ok, RequestPublish(ok) PROVE Grows
  <2>1. UNCHANGED <<counter, rollover, boots>>
    BY <1>4 DEF RequestPublish, count, flash
  <2>2. SubeventCounter' = SubeventCounter
    BY <2>1 DEF SubeventCounter
  <2>3. \A s \in Subevents : published[s] \subseteq published'[s]
    BY <1>4 DEF RequestPublish, TypeOK
  <2> QED
    BY <2>1, <2>2, <2>3, SubeventCounterType DEF Grows
<1> QED
  BY <1>1, <1>2, <1>3, <1>4 DEF request_cb

\* A response moves the counter up or leaves it.
LEMMA ResponseCounts ==
    ASSUME TypeOK, NEW d, NEW s, NEW rc, ResponseCb(d, s, rc)
    PROVE  /\ counter <= counter'
           /\ counter' = counter \/ (counter' = rc /\ counter <= rc)
           /\ UNCHANGED <<rollover, boots, published>>
<1>0. Responds(s, rc)
  BY DEF ResponseCb, ResponseVerified, ResponseRejected, ResponseRegisters, ResponseInOwnedSlot
<1>1. rc \in Nat /\ counter \in Nat
  BY <1>0 DEF Responds, AirSlots, TypeOK
<1>2. ASSUME ResponseRejected(s, rc)
      PROVE  counter' = counter /\ UNCHANGED <<rollover, boots, published>>
  BY <1>2 DEF ResponseRejected, count, flash
<1>3. ASSUME Hear(d, s, rc)
      PROVE  counter <= counter' /\ (counter' = counter \/ (counter' = rc /\ counter <= rc))
  BY <1>1, <1>3 DEF Hear, verified_counter
<1>4. ASSUME NEW ok1, NEW ok2, ResponseRegisters(d, s, rc, ok1, ok2)
      PROVE  Hear(d, s, rc) /\ UNCHANGED <<rollover, boots, published>>
  BY <1>4 DEF ResponseRegisters, flash
<1>5. ASSUME NEW ok, ResponseInOwnedSlot(d, s, rc, ok)
      PROVE  Hear(d, s, rc) /\ UNCHANGED <<rollover, boots, published>>
  BY <1>5 DEF ResponseInOwnedSlot, flash
<1> QED
  BY <1>1, <1>2, <1>3, <1>4, <1>5 DEF ResponseCb, ResponseVerified

LEMMA ResponseGrows ==
    ASSUME TypeOK, TypeOK', response_cb
    PROVE  Grows
<1>1. PICK s \in AirSlots : \E d, rc : ResponseCb(d, s, rc)
  BY DEF response_cb, ResponseCb
<1>2. counter <= counter' /\ UNCHANGED <<rollover, boots, published>>
  BY <1>1, ResponseCounts
<1>3. SubeventCounter <= SubeventCounter'
  BY <1>2, CounterGrows DEF TypeOK
<1> QED
  BY <1>2, <1>3 DEF Grows

LEMMA NotAheadFrame ==
    ASSUME TypeOK, TypeOK', NotAheadInv, counter <= counter',
           ~(curr_state' = "INITIALIZE" /\ step' = "entry"),
           adv' = adv \/ adv'.counter = counter'
    PROVE  NotAheadInv'
<1>1. adv.counter \in Nat /\ counter \in Nat /\ counter' \in Nat
  BY DEF TypeOK
<1> QED
  BY <1>1 DEF NotAheadInv

LEMMA ResponseAdverts ==
    ASSUME TypeOK, NEW d, NEW s, NEW rc, ResponseCb(d, s, rc)
    PROVE  adv' = adv \/ adv'.counter = counter'
<1>1. ASSUME ResponseRejected(s, rc) PROVE adv' = adv
  BY <1>1 DEF ResponseRejected, air
<1>2. ASSUME NEW ok1, NEW ok2, ResponseRegisters(d, s, rc, ok1, ok2)
      PROVE  adv' = adv \/ adv'.counter = counter'
  BY <1>2 DEF ResponseRegisters
<1>3. ASSUME NEW ok, ResponseInOwnedSlot(d, s, rc, ok)
      PROVE  adv' = adv \/ adv'.counter = counter'
  BY <1>3 DEF ResponseInOwnedSlot, set_adv_data
<1> QED
  BY <1>1, <1>2, <1>3 DEF ResponseCb, ResponseVerified

LEMMA NotAheadNext ==
    ASSUME TypeOK, TypeOK', BootInv, CalmInv, CalmInv', NotAheadInv,
           MainThread \/ HardReset \/ request_cb \/ response_cb \/ UNCHANGED vars
    PROVE  NotAheadInv'
<1>0. counter <= counter
  BY DEF TypeOK
<1>1. CASE MainThread
  <2>1. ASSUME NEW value \in crypto_secure_counter_value(key), InitCounter(value)
        PROVE  NotAheadInv'
    <3>1. counter = 0 /\ adv' = adv /\ step' = "loaded"
      BY <2>1 DEF InitCounter, NotAheadInv, air
    <3>2. counter <= counter'
      BY <3>1 DEF TypeOK
    <3> QED
      BY <3>1, <3>2, NotAheadFrame
  <2>2. CASE InitPeriodicAdv
    BY <1>0, <2>2, NotAheadFrame DEF InitPeriodicAdv, set_adv_data, count
  <2>3. CASE InitExtendedAdv
    BY <1>0, <2>3, NotAheadFrame DEF InitExtendedAdv, air, count
  <2> QED
    BY <1>1, <2>1, <2>2, <2>3, CalmMain
<1>2. CASE HardReset
  BY <1>2 DEF HardReset, Reboot, NotAheadInv
<1>3. CASE request_cb
  <2>1. UNCHANGED <<curr_state, step>>
    BY <1>3 DEF request_cb, RequestCb, RequestSubevent, RequestSlot, RequestPublish, main
  <2>2. ~(curr_state = "INITIALIZE" /\ step = "entry")
    BY <1>3 DEF request_cb, RequestCb, RequestSubevent, RequestSlot, RequestPublish, BootInv
  <2>3. counter <= counter' /\ (adv' = adv \/ adv'.counter = counter')
    <3>1. ASSUME NEW start, NEW n, RequestCb(start, n) PROVE counter <= counter' /\ adv' = adv
      BY <3>1 DEF RequestCb, add_rollover, air, TypeOK
    <3>2. ASSUME NEW ok, RequestSubevent(ok)
          PROVE  counter' = counter /\ (adv' = adv \/ adv'.counter = counter')
      BY <3>2 DEF RequestSubevent, set_adv_data, air
    <3>3. ASSUME RequestSlot \/ \E ok \in BOOLEAN : RequestPublish(ok)
          PROVE  counter' = counter /\ adv' = adv
      BY <3>3 DEF RequestSlot, RequestPublish, count, air
    <3> QED
      BY <1>0, <1>3, <3>1, <3>2, <3>3 DEF request_cb
  <2> QED
    BY <2>1, <2>2, <2>3, NotAheadFrame
<1>4. CASE response_cb
  <2>1. PICK s \in AirSlots : \E d, rc : ResponseCb(d, s, rc)
    BY <1>4 DEF response_cb, ResponseCb
  <2>2. UNCHANGED <<curr_state, step>>
    BY <1>4, ResponseFrame DEF main
  <2>3. curr_state # "INITIALIZE"
    BY <2>1 DEF ResponseCb, ResponseVerified, ResponseRejected, ResponseRegisters, ResponseInOwnedSlot, Responds
  <2>4. counter <= counter' /\ (adv' = adv \/ adv'.counter = counter')
    BY <2>1, ResponseCounts, ResponseAdverts
  <2> QED
    BY <2>2, <2>3, <2>4, NotAheadFrame
<1>5. CASE UNCHANGED vars
  BY <1>5 DEF vars, main, count, air, NotAheadInv
<1> QED
  BY <1>1, <1>2, <1>3, <1>4, <1>5

LEMMA AdvInvNext ==
    ASSUME AdvInv, SysTypeOK, [SysNext]_sysvars
    PROVE  AdvInv' /\ (Grows \/ HardReset)
<1>1. MainThread \/ HardReset \/ request_cb \/ response_cb \/ UNCHANGED vars
  BY AdvertiserStep DEF AdvInv
<1>2. TypeOK' /\ BootInv' /\ FreshInv'
  BY AdvertiserNext, NextTypeOK, NextBootInv, NextFreshInv DEF AdvInv
<1>3. CalmInv'
  BY <1>1, CalmNext DEF AdvInv
<1>4. NotAheadInv'
  BY <1>1, <1>2, <1>3, NotAheadNext DEF AdvInv
<1>5. UNCHANGED vars => Grows
  <2> SUFFICES ASSUME UNCHANGED vars PROVE Grows
    OBVIOUS
  <2>1. UNCHANGED <<boots, published, counter, rollover>>
    BY DEF vars, flash, seen, count
  <2>2. SubeventCounter' = SubeventCounter
    BY <2>1 DEF SubeventCounter
  <2> QED
    BY <2>1, <2>2, SubeventCounterType DEF Grows, AdvInv
<1>6. Grows \/ HardReset
  BY <1>1, <1>2, <1>5, MainGrows, RequestGrows, ResponseGrows DEF AdvInv
<1> QED
  BY <1>2, <1>3, <1>4, <1>6 DEF AdvInv
-----------------------------------------------------------------------------
(* Steps that put nothing new on the air.                                  *)

\* The data and the responses under way are those of before, perhaps without the
\* first and perhaps with less slack.
DownFrom ==
    \E k \in {0, 1} : \A i \in DOMAIN downlink' :
       /\ i \in Nat /\ i + k \in DOMAIN downlink
       /\ downlink'[i].subevent = downlink[i + k].subevent
       /\ downlink'[i].counter = downlink[i + k].counter
       /\ downlink'[i].acks = downlink[i + k].acks

UpFrom ==
    \E k \in {0, 1} : \A i \in DOMAIN uplink' :
       /\ i \in Nat /\ i + k \in DOMAIN uplink
       /\ uplink'[i].dev = uplink[i + k].dev
       /\ uplink'[i].slot = uplink[i + k].slot
       /\ uplink'[i].counter = uplink[i + k].counter

LEMMA DownKept == ASSUME SysTypeOK, downlink' = downlink PROVE DownFrom
<1>1. \A i \in DOMAIN downlink : i \in Nat /\ i + 0 = i
  BY DEF SysTypeOK
<1> QED
  BY <1>1 DEF DownFrom

LEMMA UpKept == ASSUME SysTypeOK, uplink' = uplink PROVE UpFrom
<1>1. \A i \in DOMAIN uplink : i \in Nat /\ i + 0 = i
  BY DEF SysTypeOK
<1> QED
  BY <1>1 DEF UpFrom

LEMMA DownTaken ==
    ASSUME SysTypeOK, downlink # <<>>, downlink' = Tail(downlink)
    PROVE  DownFrom /\ downlink' \in Seq(DownMsg)
<1>1. /\ downlink' \in Seq(DownMsg)
      /\ \A i \in DOMAIN downlink' : i \in Nat /\ i + 1 \in DOMAIN downlink
                                     /\ downlink'[i] = downlink[i + 1]
  BY MsgsTail DEF SysTypeOK
<1> QED
  BY <1>1 DEF DownFrom

LEMMA UpTaken ==
    ASSUME SysTypeOK, uplink # <<>>, uplink' = Tail(uplink)
    PROVE  UpFrom /\ uplink' \in Seq(UpMsg)
<1>1. /\ uplink' \in Seq(UpMsg)
      /\ \A i \in DOMAIN uplink' : i \in Nat /\ i + 1 \in DOMAIN uplink
                                   /\ uplink'[i] = uplink[i + 1]
  BY MsgsTail DEF SysTypeOK
<1> QED
  BY <1>1 DEF UpFrom

\* request_cb takes from the slack of everything under way.
LEMMA LaterMsgs ==
    ASSUME SysTypeOK, NEW n \in Int
    PROVE  /\ Later(downlink, n) \in Seq(DownMsg) /\ Later(uplink, n) \in Seq(UpMsg)
           /\ DOMAIN Later(downlink, n) = DOMAIN downlink
           /\ DOMAIN Later(uplink, n) = DOMAIN uplink
           /\ \A i \in DOMAIN downlink :
                 /\ i \in Nat
                 /\ Later(downlink, n)[i].subevent = downlink[i].subevent
                 /\ Later(downlink, n)[i].counter = downlink[i].counter
                 /\ Later(downlink, n)[i].acks = downlink[i].acks
                 /\ Later(downlink, n)[i].slack = downlink[i].slack - n
           /\ \A i \in DOMAIN uplink :
                 /\ i \in Nat
                 /\ Later(uplink, n)[i].dev = uplink[i].dev
                 /\ Later(uplink, n)[i].slot = uplink[i].slot
                 /\ Later(uplink, n)[i].counter = uplink[i].counter
                 /\ Later(uplink, n)[i].slack = uplink[i].slack - n
<1>1. ASSUME NEW m \in DownMsg
      PROVE  LET o == [m EXCEPT !.slack = @ - n]
             IN  /\ o \in DownMsg /\ o.subevent = m.subevent /\ o.counter = m.counter
                 /\ o.acks = m.acks /\ o.slack = m.slack - n
  BY DEF DownMsg
<1>2. ASSUME NEW m \in UpMsg
      PROVE  LET o == [m EXCEPT !.slack = @ - n]
             IN  /\ o \in UpMsg /\ o.dev = m.dev /\ o.slot = m.slot
                 /\ o.counter = m.counter /\ o.slack = m.slack - n
  BY DEF UpMsg
<1>3. /\ downlink \in Seq(DownMsg) /\ uplink \in Seq(UpMsg)
      /\ Len(downlink) \in Nat /\ Len(uplink) \in Nat
      /\ DOMAIN downlink = 1 .. Len(downlink) /\ DOMAIN uplink = 1 .. Len(uplink)
      /\ \A i \in DOMAIN downlink : i \in Nat /\ downlink[i] \in DownMsg
      /\ \A i \in DOMAIN uplink : i \in Nat /\ uplink[i] \in UpMsg
  BY DEF SysTypeOK
<1>4. /\ DOMAIN Later(downlink, n) = DOMAIN downlink
      /\ \A i \in DOMAIN downlink :
            Later(downlink, n)[i] = [downlink[i] EXCEPT !.slack = @ - n]
      /\ DOMAIN Later(uplink, n) = DOMAIN uplink
      /\ \A i \in DOMAIN uplink : Later(uplink, n)[i] = [uplink[i] EXCEPT !.slack = @ - n]
  BY DEF Later
<1>5. Later(downlink, n) \in Seq(DownMsg)
  <2>1. Later(downlink, n) = [i \in 1 .. Len(downlink) |-> [downlink[i] EXCEPT !.slack = @ - n]]
    BY <1>3 DEF Later
  <2>2. \A i \in 1 .. Len(downlink) : [downlink[i] EXCEPT !.slack = @ - n] \in DownMsg
    BY <1>1, <1>3
  <2> QED
    BY ONLY <1>3, <2>1, <2>2
<1>6. Later(uplink, n) \in Seq(UpMsg)
  <2>1. Later(uplink, n) = [i \in 1 .. Len(uplink) |-> [uplink[i] EXCEPT !.slack = @ - n]]
    BY <1>3 DEF Later
  <2>2. \A i \in 1 .. Len(uplink) : [uplink[i] EXCEPT !.slack = @ - n] \in UpMsg
    BY <1>2, <1>3
  <2> QED
    BY ONLY <1>3, <2>1, <2>2
<1> QED
  BY <1>1, <1>2, <1>3, <1>4, <1>5, <1>6

LEMMA AllLater ==
    ASSUME SysTypeOK, NEW n \in Int,
           downlink' = Later(downlink, n), uplink' = Later(uplink, n)
    PROVE  /\ DownFrom /\ UpFrom
           /\ downlink' \in Seq(DownMsg) /\ uplink' \in Seq(UpMsg)
<1>1. \A i \in Nat : i + 0 = i
  OBVIOUS
<1> QED
  BY <1>1, LaterMsgs DEF DownFrom, UpFrom

\* Such steps keep what was published, the order, and what the scanner counted to.
LEMMA DownFromMsgs ==
    ASSUME DownFrom, NEW m \in Msgs(downlink)'
    PROVE  \E o \in Msgs(downlink) :
              m.subevent = o.subevent /\ m.counter = o.counter /\ m.acks = o.acks
<1>1. PICK i \in DOMAIN downlink' : m = downlink'[i]
  BY DEF Msgs
<1> QED
  BY <1>1 DEF DownFrom, Msgs

LEMMA UpFromMsgs ==
    ASSUME UpFrom, NEW r \in Msgs(uplink)'
    PROVE  \E o \in Msgs(uplink) : r.dev = o.dev /\ r.slot = o.slot /\ r.counter = o.counter
<1>1. PICK i \in DOMAIN uplink' : r = uplink'[i]
  BY DEF Msgs
<1> QED
  BY <1>1 DEF UpFrom, Msgs

LEMMA ReachedFrame ==
    ASSUME AdvInv, AdvInv', SysTypeOK, Reached, Grows, UNCHANGED <<s_counter, selected_slot>>
    PROVE  Reached'
<1>1. SubeventCounter \in Nat /\ SubeventCounter' \in Nat /\ s_counter \in Nat
  BY SubeventCounterType, SubeventCounterTypeNext DEF AdvInv, SysTypeOK
<1>2. CASE s_counter <= SubeventCounter
  <2>1. s_counter <= SubeventCounter'
    BY <1>1, <1>2 DEF Grows
  <2> QED
    BY <2>1 DEF Reached
<1>3. CASE s_counter > SubeventCounter
  BY <1>1, <1>3 DEF Reached, Grows
<1> QED
  BY <1>1, <1>2, <1>3

AirInv == SysTypeOK /\ UnderWayInv /\ OrderInv /\ CountInv

LEMMA DownMsgType == ASSUME SysTypeOK, NEW m \in Msgs(downlink) PROVE m \in DownMsg
  BY MsgsType DEF SysTypeOK

LEMMA UpMsgType == ASSUME SysTypeOK, NEW r \in Msgs(uplink) PROVE r \in UpMsg
  BY MsgsType DEF SysTypeOK

LEMMA OrderFrame == ASSUME OrderInv, DownFrom PROVE OrderInv'
<1>1. PICK k \in {0, 1} : \A i \in DOMAIN downlink' :
         /\ i \in Nat /\ i + k \in DOMAIN downlink
         /\ downlink'[i].subevent = downlink[i + k].subevent
         /\ downlink'[i].counter = downlink[i + k].counter
  BY DEF DownFrom
<1> QED
  BY <1>1 DEF OrderInv

\* The responses under way are published, whoever sends one more.
LEMMA AirFrame ==
    ASSUME AdvInv, AdvInv', AirInv, Grows, DownFrom, others' \in Nat,
           downlink' \in Seq(DownMsg), uplink' \in Seq(UpMsg),
           \A r \in Msgs(uplink)' : r.counter \in published[r.slot.subevent],
           UNCHANGED <<s_counter, selected_slot, train, epoch>>
    PROVE  AirInv'
<1>1. SysTypeOK'
  BY DEF AirInv, SysTypeOK, Grows
<1>2. ASSUME NEW r \in Msgs(uplink)' PROVE r.slot.subevent \in Subevents
  BY <1>1, MsgsType DEF SysTypeOK, UpMsg, AirSlots, Msgs
<1>3. UnderWayInv'
  <2>1. ASSUME NEW m \in Msgs(downlink)' PROVE m.counter \in published'[m.subevent]
    <3>1. PICK o \in Msgs(downlink) : m.subevent = o.subevent /\ m.counter = o.counter
      BY DownFromMsgs
    <3>2. o.subevent \in Subevents /\ o.counter \in published[o.subevent]
      BY DownMsgType DEF AirInv, UnderWayInv, DownMsg
    <3> QED
      BY <3>1, <3>2 DEF Grows
  <2>2. ASSUME NEW r \in Msgs(uplink)' PROVE r.counter \in published'[r.slot.subevent]
    BY <1>2 DEF Grows
  <2> QED
    BY <2>1, <2>2 DEF UnderWayInv
<1>4. OrderInv'
  BY OrderFrame DEF AirInv
<1>5. CountInv'
  <2> SUFFICES ASSUME epoch = boots
               PROVE  /\ Reached'
                      /\ \A m \in Msgs(downlink)' :
                            m.subevent = selected_slot.subevent => s_counter <= m.counter
    BY DEF CountInv, Grows
  <2>1. Reached'
    BY ReachedFrame DEF AirInv, CountInv
  <2>2. ASSUME NEW m \in Msgs(downlink)', m.subevent = selected_slot.subevent
        PROVE  s_counter <= m.counter
    <3>1. PICK o \in Msgs(downlink) : m.subevent = o.subevent /\ m.counter = o.counter
      BY DownFromMsgs
    <3> QED
      BY <2>2, <3>1 DEF AirInv, CountInv
  <2> QED
    BY <2>1, <2>2
<1> QED
  BY <1>1, <1>3, <1>4, <1>5 DEF AirInv

LEMMA UpFromPublished ==
    ASSUME UnderWayInv, UpFrom
    PROVE  \A r \in Msgs(uplink)' : r.counter \in published[r.slot.subevent]
<1> SUFFICES ASSUME NEW r \in Msgs(uplink)' PROVE r.counter \in published[r.slot.subevent]
  OBVIOUS
<1>1. PICK o \in Msgs(uplink) : r.slot = o.slot /\ r.counter = o.counter
  BY UpFromMsgs
<1> QED
  BY <1>1 DEF UnderWayInv
-----------------------------------------------------------------------------
(* Steps that do.                                                          *)

LEMMA ResetAir == ASSUME AdvInv, AirInv, AdvReset PROVE AirInv'
<1>1. /\ boots' = boots + 1 /\ downlink' = <<>> /\ uplink' = <<>>
      /\ UNCHANGED <<s_counter, selected_slot, train, epoch, others>>
  BY DEF AdvReset, HardReset, Reboot, known
<1>2. boots \in Nat
  BY DEF AdvInv, TypeOK
<1>3. SysTypeOK' /\ train' # boots' /\ epoch' # boots'
  BY <1>1, <1>2 DEF AirInv, SysTypeOK
<1>4. Msgs(downlink)' = {} /\ Msgs(uplink)' = {} /\ DOMAIN downlink' = {}
  BY <1>1 DEF Msgs
<1> QED
  BY <1>3, <1>4 DEF AirInv, UnderWayInv, OrderInv, CountInv

\* The data of the subevent that request_cb has filled.
Published == [subevent |-> subevent, slack |-> rollover,
              counter |-> SubeventCounter, acks |-> ack_data]

LEMMA PublishedIsNewest ==
    ASSUME AdvInv, RequestPublish(TRUE)
    PROVE  /\ Published \in DownMsg
           /\ \A c \in published[subevent] : c < SubeventCounter
           /\ \A s \in Subevents : \A c \in published[s] : c <= SubeventCounter
           /\ SubeventCounter \in published'[subevent]
           /\ subevent \in Subevents
<1>1. /\ subevent \in Subevents /\ ack_data \in [RspSlots -> DevIds] /\ rollover \in Int
      /\ SubeventCounter \in Nat /\ published \in [Subevents -> SUBSET Nat]
  BY SubeventCounterType DEF AdvInv, TypeOK
<1>2. Published \in DownMsg
  BY <1>1 DEF Published, DownMsg
<1>3. FreshCounter
  BY AdvertiserAssumption
  DEF AdvInv, FreshInv, FreshCounter, NotFilled, TypeOK, Subevents, SubeventCounter
<1>4. \A c \in published[subevent] : c < SubeventCounter
  BY <1>1, <1>3 DEF FreshCounter, RequestPublish
<1>5. \A s \in Subevents : \A c \in published[s] : c <= SubeventCounter
  BY DEF AdvInv, FreshInv
<1>6. SubeventCounter \in published'[subevent]
  BY <1>1 DEF RequestPublish
<1> QED
  BY <1>1, <1>2, <1>4, <1>5, <1>6

LEMMA PublishAir ==
    ASSUME AdvInv, AdvInv', AirInv, Grows, AdvPublish(TRUE)
    PROVE  AirInv'
<1>1. /\ RequestPublish(TRUE) /\ downlink' = Append(downlink, Published)
      /\ UNCHANGED <<uplink, s_counter, selected_slot, train, epoch, others>>
  BY DEF AdvPublish, Published, known
<1>2. /\ Published \in DownMsg
      /\ \A c \in published[subevent] : c < SubeventCounter
      /\ \A s \in Subevents : \A c \in published[s] : c <= SubeventCounter
      /\ SubeventCounter \in published'[subevent]
  BY <1>1, PublishedIsNewest
<1>3. Published.subevent = subevent /\ Published.counter = SubeventCounter
  BY DEF Published
<1>4. /\ downlink' \in Seq(DownMsg)
      /\ Msgs(downlink)' = Msgs(downlink) \cup {Published}
      /\ DOMAIN downlink = 1 .. Len(downlink) /\ Len(downlink) \in Nat
      /\ DOMAIN downlink' = 1 .. Len(downlink) + 1
      /\ \A i \in DOMAIN downlink : downlink'[i] = downlink[i]
      /\ downlink'[Len(downlink) + 1] = Published
  <2>1. downlink \in Seq(DownMsg) /\ Msgs(downlink)' = Msgs(Append(downlink, Published))
    BY <1>1 DEF AirInv, SysTypeOK, Msgs
  <2> QED
    BY <1>1, <1>2, <2>1, MsgsAppend
<1> HIDE DEF Published
<1>5. SysTypeOK'
  BY <1>1, <1>4 DEF AirInv, SysTypeOK, Grows
<1>7. UnderWayInv'
  <2>1. ASSUME NEW m \in Msgs(downlink)
        PROVE  m.counter \in published[m.subevent] /\ m.subevent \in Subevents
    BY DownMsgType DEF AirInv, UnderWayInv, DownMsg
  <2>2. \A m \in Msgs(downlink)' : m.counter \in published'[m.subevent]
    BY <1>2, <1>3, <1>4, <2>1 DEF Grows
  <2>3. Msgs(uplink)' = Msgs(uplink)
    BY <1>1 DEF Msgs
  <2>4. ASSUME NEW r \in Msgs(uplink) PROVE r.slot.subevent \in Subevents
    BY UpMsgType DEF AirInv, UpMsg, AirSlots
  <2> QED
    BY <2>2, <2>3, <2>4 DEF AirInv, UnderWayInv, Grows
<1>8. OrderInv'
  <2> SUFFICES ASSUME NEW i \in DOMAIN downlink', NEW k \in DOMAIN downlink', i < k,
                      downlink'[i].subevent = downlink'[k].subevent
               PROVE  downlink'[i].counter < downlink'[k].counter
    BY DEF OrderInv
  <2>1. CASE k \in DOMAIN downlink
    <3>1. i \in DOMAIN downlink
      BY <1>4, <2>1
    <3> QED
      BY <1>4, <2>1, <3>1 DEF AirInv, OrderInv
  <2>2. CASE k = Len(downlink) + 1
    <3>1. i \in DOMAIN downlink /\ downlink[i] \in Msgs(downlink)
      BY <1>4, <2>2 DEF Msgs
    <3>2. downlink[i].counter \in published[downlink[i].subevent]
      BY <3>1 DEF AirInv, UnderWayInv
    <3> QED
      BY <1>2, <1>3, <1>4, <2>2, <3>1, <3>2
  <2> QED
    BY <1>4, <2>1, <2>2
<1>9. CountInv'
  <2> SUFFICES ASSUME epoch = boots
               PROVE  /\ Reached'
                      /\ \A m \in Msgs(downlink)' :
                            m.subevent = selected_slot.subevent => s_counter <= m.counter
    BY <1>1 DEF CountInv, Grows
  <2>1. Reached'
    BY <1>1, ReachedFrame DEF AirInv, CountInv
  <2>2. subevent = selected_slot.subevent => s_counter <= SubeventCounter
    <3>1. /\ s_counter \in Nat /\ SubeventCounter \in Nat
          /\ published \in [Subevents -> SUBSET Nat] /\ subevent \in Subevents
      BY SubeventCounterType DEF AdvInv, TypeOK, AirInv, SysTypeOK
    <3>2. Reached
      BY DEF AirInv, CountInv
    <3> QED
      BY <1>2, <3>1, <3>2 DEF Reached
  <2> QED
    BY <1>3, <1>4, <2>1, <2>2 DEF AirInv, CountInv
<1> QED
  BY <1>5, <1>7, <1>8, <1>9 DEF AirInv

LEMMA ZeroSlot == Slot(0, 0) \in Slots
  BY AdvertiserAssumption, SlotType DEF RspSlots

LEMMA RebootAir == ASSUME AdvInv, AirInv, ScannerReboot PROVE AirInv'
<1>1. /\ s_sync' = "none" /\ s_counter' = 0 /\ selected_slot' = Slot(0, 0)
      /\ train' = boots /\ epoch' = boots
      /\ UNCHANGED <<boots, published, counter, rollover, downlink, uplink, others>>
  BY ScannerReboots DEF vars, flash, seen, count, queues
<1>2. boots \in Nat /\ SubeventCounter \in Nat
  BY SubeventCounterType DEF AdvInv, TypeOK
<1>3. SysTypeOK'
  BY <1>1, <1>2, ZeroSlot DEF AirInv, SysTypeOK
<1>4. UnderWayInv' /\ OrderInv'
  BY <1>1 DEF AirInv, UnderWayInv, OrderInv, Msgs
<1>5. SubeventCounter' = SubeventCounter /\ Msgs(downlink)' = Msgs(downlink)
  BY <1>1 DEF SubeventCounter, Msgs
<1>6. \A m \in Msgs(downlink) : m.counter \in Nat
  BY DownMsgType DEF AirInv, DownMsg
<1>7. CountInv'
  BY <1>1, <1>2, <1>5, <1>6 DEF CountInv, Reached
<1> QED
  BY <1>3, <1>4, <1>7 DEF AirInv

\* parse_adv_data: the counter of the advertisement is not ahead of the data that is
\* yet to come.
LEMMA ScanAir == ASSUME AdvInv, AirInv, ScannerScanRecv PROVE AirInv'
<1>1. /\ curr_state \in {"ADVERTISING", "SOFT_REBOOT"}
      /\ verify_message(TRUE, adv.counter, s_counter) = "TRANSFER_NO_ERROR"
      /\ s_counter' = verified_counter(adv.counter, s_counter)
      /\ selected_slot' \in Entries(adv.reg)
      /\ downlink' = <<>> /\ train' = boots
      /\ UNCHANGED <<boots, published, counter, rollover, uplink, epoch, others>>
  BY DEF ScannerScanRecv, vars, flash, seen, count
<1>2. /\ boots \in Nat /\ SubeventCounter \in Nat /\ adv.counter \in Nat
      /\ counter \in Nat /\ rollover \in Nat /\ s_counter \in Nat
      /\ adv.counter <= counter
      /\ Entries(adv.reg) \subseteq Slots
  BY <1>1, SubeventCounterType
  DEF AdvInv, TypeOK, AirInv, SysTypeOK, NotAheadInv, Entries
<1>3. s_counter' = adv.counter
  BY <1>1, <1>2 DEF verify_message, verified_counter
<1>4. s_counter' <= SubeventCounter /\ SubeventCounter' = SubeventCounter
  <2>1. adv.counter <= SubeventCounter
    BY <1>2 DEF SubeventCounter
  <2>2. SubeventCounter' = SubeventCounter
    BY <1>1 DEF SubeventCounter
  <2> QED
    BY <1>3, <2>1, <2>2
<1>5. SysTypeOK'
  BY <1>1, <1>2, <1>3 DEF AirInv, SysTypeOK
<1>6. Msgs(downlink)' = {} /\ DOMAIN downlink' = {} /\ Msgs(uplink)' = Msgs(uplink)
  BY <1>1 DEF Msgs
<1>7. UnderWayInv' /\ OrderInv'
  BY <1>1, <1>2, <1>6 DEF AirInv, UnderWayInv, OrderInv
<1>8. CountInv'
  BY <1>4, <1>6 DEF CountInv, Reached
<1> QED
  BY <1>5, <1>7, <1>8 DEF AirInv

\* An indication: an answer goes out in the scanner's slot, with the counter that was
\* published, and the scanner counts on to what the next data has at least.
LEMMA ReceiveAir == ASSUME AdvInv, AirInv, ScannerRecv PROVE AirInv'
<1> DEFINE m == Head(downlink)
<1>1. /\ downlink # <<>> /\ downlink' = Tail(downlink)
      /\ train = boots /\ s_sync = "synced" /\ s_sync' = s_sync
      /\ m.subevent = selected_slot.subevent
      /\ UNCHANGED <<boots, published, counter, rollover>>
      /\ UNCHANGED <<selected_slot, train, epoch, others>>
  BY ScannerReceives DEF AirInv, vars, flash, seen, count
<1>2. \/ uplink' = uplink /\ s_counter' = s_counter
      \/ s_counter' = m.counter /\ uplink' = uplink
      \/ s_counter' = m.counter + 1 /\ uplink' = Append(uplink, Answer(m))
  BY ScannerReceives DEF AirInv
<1>3. /\ m \in Msgs(downlink) /\ m \in DownMsg /\ m = downlink[1] /\ 1 \in DOMAIN downlink
      /\ downlink' \in Seq(DownMsg)
      /\ \A i \in DOMAIN downlink' : /\ i \in Nat /\ i + 1 \in DOMAIN downlink
                                     /\ downlink'[i] = downlink[i + 1]
  BY <1>1, MsgsTail DEF AirInv, SysTypeOK
<1>4. Msgs(downlink)' \subseteq Msgs(downlink)
  <2>1. Msgs(downlink)' = Msgs(Tail(downlink)) /\ downlink \in Seq(DownMsg)
    BY <1>1 DEF Msgs, AirInv, SysTypeOK
  <2> QED
    BY <1>1, <2>1, MsgsTail
<1> HIDE DEF m
<1>5. /\ m.counter \in Nat /\ m.slack \in Int /\ m.subevent \in Subevents
      /\ m.counter \in published[m.subevent]
      /\ selected_slot \in Slots
      /\ s_counter \in Nat /\ uplink \in Seq(UpMsg)
  BY <1>1, <1>3 DEF DownMsg, AirInv, UnderWayInv, SysTypeOK
<1>6. Answer(m) \in UpMsg /\ Answer(m).slot = selected_slot /\ Answer(m).counter = m.counter
  <2>1. selected_slot \in AirSlots
    BY <1>1, <1>5, SystemAssumption DEF Slots, AirSlots
  <2> QED
    BY <1>5, <2>1, IdIsADevice DEF Answer, UpMsg
<1>7. /\ uplink' \in Seq(UpMsg)
      /\ Msgs(uplink)' \subseteq Msgs(uplink) \cup {Answer(m)}
  <2>1. CASE uplink' = uplink
    BY <1>5, <2>1 DEF Msgs
  <2>2. CASE uplink' = Append(uplink, Answer(m))
    <3>1. Msgs(uplink)' = Msgs(Append(uplink, Answer(m)))
      BY <2>2 DEF Msgs
    <3> QED
      BY <1>5, <1>6, <2>2, <3>1, MsgsAppend
  <2> QED
    BY <1>2, <2>1, <2>2
<1>8. SysTypeOK'
  BY <1>1, <1>2, <1>3, <1>5, <1>7 DEF AirInv, SysTypeOK
<1>9. UnderWayInv'
  BY <1>1, <1>4, <1>5, <1>6, <1>7 DEF AirInv, UnderWayInv
<1>10. OrderInv'
  BY <1>1, DownTaken, OrderFrame DEF AirInv
<1>11. CountInv'
  <2> SUFFICES ASSUME epoch = boots
               PROVE  /\ Reached'
                      /\ \A n \in Msgs(downlink)' :
                            n.subevent = selected_slot.subevent => s_counter' <= n.counter
    BY <1>1 DEF CountInv
  <2>1. Reached'
    <3>1. CASE s_counter' = s_counter
      <4>1. SubeventCounter' = SubeventCounter
        BY <1>1 DEF SubeventCounter
      <4> QED
        BY <1>1, <3>1, <4>1 DEF AirInv, CountInv, Reached
    <3>2. CASE s_counter' = m.counter \/ s_counter' = m.counter + 1
      <4>1. s_counter' <= m.counter + 1
        BY <1>5, <3>2
      <4> QED
        BY <1>1, <1>5, <4>1 DEF Reached
    <3> QED
      BY <1>2, <3>1, <3>2
  <2>2. ASSUME NEW n \in Msgs(downlink)', n.subevent = selected_slot.subevent
        PROVE  s_counter' <= n.counter
    <3>1. n \in Msgs(downlink) /\ s_counter <= n.counter
      BY <1>4, <2>2 DEF AirInv, CountInv
    <3>2. n.counter \in Nat
      BY <3>1, DownMsgType DEF AirInv, DownMsg
    <3>3. m.counter < n.counter
      <4>1. PICK i \in DOMAIN downlink' : n = downlink'[i]
        BY DEF Msgs
      <4>2. i + 1 \in DOMAIN downlink /\ n = downlink[i + 1] /\ 1 < i + 1
        <5>1. i \in Nat \ {0}
          BY <1>3
        <5> QED
          BY <1>3, <4>1, <5>1
      <4> QED
        BY <1>1, <1>3, <2>2, <4>2 DEF AirInv, OrderInv
    <3> QED
      BY <1>2, <1>5, <3>1, <3>2, <3>3
  <2> QED
    BY <2>1, <2>2
<1> QED
  BY <1>8, <1>9, <1>10, <1>11 DEF AirInv
-----------------------------------------------------------------------------
(* Responses of other devices.                                             *)

\* A response of another device joins the queue with a counter published in its
\* subevent.
LEMMA OtherIsUnderWay ==
    ASSUME SysTypeOK, UnderWayInv, OtherResponse
    PROVE  \E o \in UpMsg : /\ uplink' = Append(uplink, o) /\ uplink' \in Seq(UpMsg)
                            /\ Msgs(uplink)' = Msgs(uplink) \cup {o}
                            /\ o.dev # ID /\ o.counter \in published[o.slot.subevent]
<1>1. PICK d \in Devices \ {ID}, r \in RspSlots :
         \/ /\ downlink # <<>>
            /\ LET m == Head(downlink)
               IN  uplink' = Append(uplink, Response(d, Slot(m.subevent, r), m))
         \/ /\ uplink # <<>>
            /\ LET last == uplink[Len(uplink)]
               IN  uplink' = Append(uplink, Response(d, Slot(last.slot.subevent, r), last))
  BY DEF OtherResponse
<1>2. uplink \in Seq(UpMsg) /\ downlink \in Seq(DownMsg)
  BY DEF SysTypeOK
<1>3. ASSUME NEW s \in Subevents, NEW x, x.counter \in published[s],
             x.counter \in Nat, x.slack \in Int,
             uplink' = Append(uplink, Response(d, Slot(s, r), x))
      PROVE  \E o \in UpMsg : /\ uplink' = Append(uplink, o) /\ uplink' \in Seq(UpMsg)
                              /\ Msgs(uplink)' = Msgs(uplink) \cup {o}
                              /\ o.dev # ID /\ o.counter \in published[o.slot.subevent]
  <2> DEFINE o == Response(d, Slot(s, r), x)
  <2>1. Slot(s, r) \in AirSlots /\ Slot(s, r).subevent = s
    BY SystemAssumption DEF AirSlots, Slot
  <2>2. /\ o \in UpMsg /\ o.dev # ID /\ o.slot = Slot(s, r) /\ o.counter = x.counter
    BY <1>3, <2>1 DEF Response, UpMsg
  <2> HIDE DEF o
  <2>3. uplink' = Append(uplink, o)
    BY <1>3 DEF o
  <2>4. Msgs(uplink)' = Msgs(Append(uplink, o))
    BY <2>3 DEF Msgs
  <2>5. uplink' \in Seq(UpMsg) /\ Msgs(uplink)' = Msgs(uplink) \cup {o}
    BY <1>2, <2>2, <2>3, <2>4, MsgsAppend
  <2> QED
    BY <1>3, <2>1, <2>2, <2>3, <2>5
<1>4. CASE /\ downlink # <<>>
           /\ LET m == Head(downlink)
              IN  uplink' = Append(uplink, Response(d, Slot(m.subevent, r), m))
  <2>1. Head(downlink) \in DownMsg /\ Head(downlink) \in Msgs(downlink)
    BY <1>2, <1>4, MsgsTail
  <2>2. /\ Head(downlink).subevent \in Subevents /\ Head(downlink).counter \in Nat
        /\ Head(downlink).slack \in Int
        /\ Head(downlink).counter \in published[Head(downlink).subevent]
    BY <2>1 DEF DownMsg, UnderWayInv
  <2> QED
    BY <1>3, <1>4, <2>2
<1>5. CASE /\ uplink # <<>>
           /\ LET last == uplink[Len(uplink)]
              IN  uplink' = Append(uplink, Response(d, Slot(last.slot.subevent, r), last))
  <2>1. Len(uplink) \in DOMAIN uplink
    BY <1>2, <1>5
  <2>2. uplink[Len(uplink)] \in UpMsg /\ uplink[Len(uplink)] \in Msgs(uplink)
    BY <1>2, <2>1 DEF Msgs
  <2>3. /\ uplink[Len(uplink)].slot.subevent \in Subevents
        /\ uplink[Len(uplink)].counter \in Nat /\ uplink[Len(uplink)].slack \in Int
        /\ uplink[Len(uplink)].counter \in published[uplink[Len(uplink)].slot.subevent]
    BY <2>2 DEF UpMsg, AirSlots, UnderWayInv
  <2> QED
    BY <1>3, <1>5, <2>3
<1> QED
  BY <1>1, <1>4, <1>5
-----------------------------------------------------------------------------
(* The scanner's id at the advertiser.                                     *)

Unknown ==
    /\ \A s \in Subevents, r \in RspSlots : rsp_slots[s][r].dev_id # ID
    /\ \A r \in RspSlots : ack_data[r] # ID

LEMMA ResponseUnknown ==
    ASSUME TypeOK, Unknown, NEW d \in Devices \ {ID}, NEW s, NEW rc, ResponseCb(d, s, rc)
    PROVE  Unknown'
<1>1. Responds(s, rc)
  BY DEF ResponseCb, ResponseVerified, ResponseRejected, ResponseRegisters, ResponseInOwnedSlot
<1>2. /\ s.subevent \in Subevents /\ s.rsp_slot \in RspSlots
      /\ rsp_slots[s.subevent][s.rsp_slot] \in SlotData
  BY <1>1, ResponseTypes DEF Responds
<1>3. ASSUME NEW sd, sd.dev_id # ID,
             rsp_slots' = [rsp_slots EXCEPT ![s.subevent][s.rsp_slot] = sd],
             ack_data' = ack_data
      PROVE  Unknown'
  BY <1>2, <1>3 DEF Unknown, TypeOK
<1> DEFINE old == rsp_slots[s.subevent][s.rsp_slot]
<1>4. old.dev_id # ID
  BY <1>2 DEF Unknown
<1>5. ASSUME ResponseRejected(s, rc) PROVE Unknown'
  <2>1. /\ rsp_slots' = [rsp_slots EXCEPT ![s.subevent][s.rsp_slot] = [old EXCEPT !.dev_id = NoDev]]
        /\ ack_data' = ack_data
    BY <1>5 DEF ResponseRejected, loop
  <2>2. [old EXCEPT !.dev_id = NoDev].dev_id # ID
    BY <1>2, IdIsADevice DEF SlotData
  <2> QED
    BY <1>3, <2>1, <2>2
<1>6. ASSUME NEW ok1, NEW ok2, ResponseRegisters(d, s, rc, ok1, ok2) PROVE Unknown'
  <2>1. /\ rsp_slots' = [rsp_slots EXCEPT ![s.subevent][s.rsp_slot] =
                              [dev_id |-> d, inactive_for |-> 0]]
        /\ ack_data' = ack_data
    BY <1>6 DEF ResponseRegisters, loop
  <2>2. [dev_id |-> d, inactive_for |-> 0].dev_id # ID
    OBVIOUS
  <2> QED
    BY <1>3, <2>1, <2>2
<1>7. ASSUME NEW ok, ResponseInOwnedSlot(d, s, rc, ok) PROVE Unknown'
  <2>1. /\ rsp_slots' = [rsp_slots EXCEPT ![s.subevent][s.rsp_slot] = Refreshed(old, d)]
        /\ ack_data' = ack_data
    BY <1>7 DEF ResponseInOwnedSlot, loop
  <2>2. Refreshed(old, d).dev_id # ID
    BY <1>2, <1>4 DEF Refreshed, SlotData
  <2> QED
    BY <1>3, <2>1, <2>2
<1> QED
  BY <1>5, <1>6, <1>7 DEF ResponseCb, ResponseVerified

LEMMA AgedOwner ==
    ASSUME NEW sd \in SlotData
    PROVE  /\ AgedSlot(sd).dev_id = IF TimesOut(sd) THEN NoDev ELSE sd.dev_id
           /\ AckFor(AgedSlot(sd)) \in {sd.dev_id, NoDev}
<1>1. [sd EXCEPT !.inactive_for = Older(sd)].dev_id = sd.dev_id
  BY DEF SlotData
<1> QED
  BY <1>1 DEF AgedSlot, AckFor

LEMMA RequestUnknown ==
    ASSUME TypeOK, Unknown, request_cb PROVE Unknown'
<1>1. ASSUME \/ \E start, n : RequestCb(start, n)
             \/ \E ok \in BOOLEAN : RequestSubevent(ok)
      PROVE  Unknown'
  BY <1>1 DEF RequestCb, RequestSubevent, table, Unknown
<1>2. CASE RequestSlot
  <2> DEFINE sd == rsp_slots[subevent][j]
  <2>1. /\ subevent \in Subevents /\ j \in RspSlots /\ sd \in SlotData
        /\ rsp_slots' = [rsp_slots EXCEPT ![subevent][j] = AgedSlot(sd)]
        /\ ack_data' = [ack_data EXCEPT ![j] = AckFor(AgedSlot(sd))]
    BY <1>2, AdvertiserAssumption DEF RequestSlot, TypeOK, RspSlots
  <2>2. AgedSlot(sd).dev_id # ID /\ AckFor(AgedSlot(sd)) # ID
    <3>1. sd.dev_id # ID
      BY <2>1 DEF Unknown
    <3> QED
      BY <2>1, <3>1, AgedOwner, IdIsADevice
  <2> HIDE DEF sd
  <2> QED
    BY <2>1, <2>2 DEF Unknown, TypeOK
<1>3. ASSUME NEW ok, RequestPublish(ok) PROVE Unknown'
  BY <1>3, IdIsADevice DEF RequestPublish, table, NoAcks, Unknown
<1> QED
  BY <1>1, <1>2, <1>3 DEF request_cb

LEMMA SentNext ==
    ASSUME AdvInv, AirInv, SentInv, [SysNext]_sysvars
    PROVE  SentInv'
<1> SUFFICES ASSUME s_response' # "sent" PROVE SentInv'
  BY DEF SentInv
<1>1. CASE s_response = "sent"
  <2>1. s_response' = s_response
    BY <1>1, ScannerQuiet, ScannerReboots, ScannerReceives
    DEF SysNext, AdvMain, AdvReset, AdvRequest, AdvFill, AdvPublish, AdvResponse,
        OtherResponse, LoseDownlink, LoseUplink, scanner, sysvars,
        ScannerScanRecv, ScannerSync, S!scan_recv_cb, S!sync_cb, AirInv
  <2> QED
    BY <1>1, <2>1
<1>2. CASE s_response # "sent"
  <2>0. /\ \A r \in Msgs(uplink) : r.dev # ID
        /\ Unknown
        /\ \A m \in Msgs(downlink), r \in RspSlots : m.acks[r] # ID
        /\ TypeOK
    BY <1>2 DEF SentInv, Unknown, AdvInv
  <2>1. ASSUME UpFrom, Unknown', DownFrom PROVE SentInv'
    <3>1. ASSUME NEW m \in Msgs(downlink)', NEW r \in RspSlots PROVE m.acks[r] # ID
      BY <2>0, <2>1, DownFromMsgs
    <3>2. ASSUME NEW r \in Msgs(uplink)' PROVE r.dev # ID
      BY <2>0, <2>1, UpFromMsgs
    <3> QED
      BY <2>1, <3>1, <3>2 DEF SentInv, Unknown
  <2>2. ASSUME UNCHANGED vars PROVE Unknown'
    BY <2>0, <2>2 DEF vars, table, loop, Unknown
  <2>3. SysTypeOK
    BY DEF AirInv
  <2>4. CASE AdvMain
    <3>1. UNCHANGED <<rsp_slots, ack_data, downlink, uplink>>
      BY <2>4, CalmMain
      DEF AdvMain, AdvInv, InitCounter, InitPeriodicAdv, InitExtendedAdv, table, loop, sky, queues
    <3> QED
      BY <2>0, <2>1, <2>3, <3>1, DownKept, UpKept DEF Unknown
  <2>5. CASE AdvReset
    <3>1. /\ downlink' = <<>> /\ uplink' = <<>>
          /\ rsp_slots' = BootRspSlots /\ ack_data' = NoAcks
      BY <2>5 DEF AdvReset, HardReset, Reboot
    <3>2. Msgs(downlink)' = {} /\ Msgs(uplink)' = {}
      BY <3>1 DEF Msgs
    <3> QED
      BY <3>1, <3>2, IdIsADevice DEF SentInv, BootRspSlots, NoAcks
  <2>6. CASE AdvRequest
    <3>1. /\ request_cb
          /\ downlink' = Later(downlink, rollover) /\ uplink' = Later(uplink, rollover)
      BY <2>6 DEF AdvRequest, request_cb
    <3>2. rollover \in Int
      BY <2>0 DEF TypeOK
    <3> QED
      BY <2>0, <2>1, <2>3, <3>1, <3>2, RequestUnknown, AllLater
  <2>7. CASE AdvFill
    <3>1. request_cb /\ UNCHANGED <<downlink, uplink>>
      BY <2>7 DEF AdvFill, request_cb, sky, queues
    <3> QED
      BY <2>0, <2>1, <2>3, <3>1, RequestUnknown, DownKept, UpKept
  <2>8. ASSUME NEW ok \in BOOLEAN, AdvPublish(ok) PROVE SentInv'
    <3>1. request_cb /\ RequestPublish(ok) /\ uplink' = uplink
      BY <2>8 DEF AdvPublish, request_cb
    <3>2. Unknown'
      BY <2>0, <3>1, RequestUnknown
    <3>3. CASE ~ok
      <4>1. downlink' = downlink
        BY <2>8, <3>3 DEF AdvPublish
      <4> QED
        BY <2>0, <2>1, <2>3, <3>1, <3>2, <4>1, DownKept, UpKept
    <3>4. CASE ok
      <4>1. downlink' = Append(downlink, Published) /\ RequestPublish(TRUE)
        BY <2>8, <3>4 DEF AdvPublish, Published
      <4>2. Published \in DownMsg /\ Published.acks = ack_data
        BY <4>1, PublishedIsNewest DEF Published
      <4>3. Msgs(downlink)' = Msgs(downlink) \cup {Published}
        <5>1. downlink \in Seq(DownMsg) /\ Msgs(downlink)' = Msgs(Append(downlink, Published))
          BY <4>1 DEF AirInv, SysTypeOK, Msgs
        <5> QED
          BY <4>2, <5>1, MsgsAppend
      <4>4. Msgs(uplink)' = Msgs(uplink)
        BY <3>1 DEF Msgs
      <4> QED
        BY <2>0, <3>1, <3>2, <4>2, <4>3, <4>4 DEF SentInv, Unknown
    <3> QED
      BY <3>3, <3>4
  <2>9. CASE AdvResponse
    <3>1. /\ uplink # <<>> /\ uplink' = Tail(uplink) /\ downlink' = downlink
          /\ ResponseCb(Head(uplink).dev, Head(uplink).slot, Head(uplink).counter)
      BY <2>9 DEF AdvResponse
    <3>2. Head(uplink) \in UpMsg /\ Head(uplink) \in Msgs(uplink)
      BY <2>3, <3>1, MsgsTail DEF SysTypeOK
    <3>3. Head(uplink).dev \in Devices \ {ID}
      BY <2>0, <3>2 DEF UpMsg
    <3> QED
      BY <2>0, <2>1, <2>3, <3>1, <3>3, ResponseUnknown, DownKept, UpTaken
  <2>10. CASE OtherResponse
    <3>1. /\ downlink' = downlink /\ UNCHANGED vars
          /\ \A r \in Msgs(uplink)' : r.dev # ID
      BY <2>0, <2>3, <2>10, OtherIsUnderWay DEF OtherResponse, AirInv
    <3>2. Msgs(downlink)' = Msgs(downlink)
      BY <3>1 DEF Msgs
    <3> QED
      BY <2>0, <2>2, <3>1, <3>2 DEF SentInv, Unknown
  <2>18. CASE LoseUplink
    BY <2>0, <2>1, <2>2, <2>3, <2>18, DownKept, UpTaken DEF LoseUplink
  <2>11. CASE LoseDownlink
    BY <2>0, <2>1, <2>2, <2>3, <2>11, DownTaken, UpKept DEF LoseDownlink
  <2>12. CASE ScannerMain \/ ScannerEvent
    BY <2>0, <2>1, <2>2, <2>3, <2>12, ScannerQuiet, DownKept, UpKept DEF sky, queues
  <2>13. CASE ScannerReboot
    BY <2>0, <2>1, <2>2, <2>3, <2>13, ScannerReboots, DownKept, UpKept DEF queues
  <2>14. CASE ScannerScanRecv
    <3>1. downlink' = <<>> /\ uplink' = uplink /\ UNCHANGED vars
      BY <2>14 DEF ScannerScanRecv
    <3>2. Msgs(downlink)' = {} /\ Msgs(uplink)' = Msgs(uplink)
      BY <3>1 DEF Msgs
    <3> QED
      BY <2>0, <2>2, <3>1, <3>2 DEF SentInv, Unknown
  <2>15. CASE ScannerSync
    BY <2>0, <2>1, <2>2, <2>3, <2>15, DownKept, UpKept DEF ScannerSync, sky, queues
  <2>16. CASE ScannerRecv
    <3>1. /\ downlink # <<>> /\ downlink' = Tail(downlink) /\ UNCHANGED vars
          /\ uplink' = uplink
      BY <2>3, <2>16, ScannerReceives
    <3> QED
      BY <2>0, <2>1, <2>2, <2>3, <3>1, DownTaken, UpKept
  <2>17. CASE UNCHANGED sysvars
    BY <2>0, <2>1, <2>2, <2>3, <2>17, DownKept, UpKept DEF sysvars, sky, queues
  <2> QED
    BY <2>4, <2>5, <2>6, <2>7, <2>8, <2>9, <2>10, <2>11, <2>12, <2>13, <2>14, <2>15,
       <2>16, <2>17, <2>18 DEF SysNext
<1> QED
  BY <1>1, <1>2
-----------------------------------------------------------------------------
(* The invariant of the system.                                            *)

LEMMA InitSysInv == SysInit => SysInv
<1> SUFFICES ASSUME SysInit PROVE SysInv
  OBVIOUS
<1>1. TypeOK /\ BootInv /\ FreshInv
  BY InitTypeOK, InitBootInv, InitFreshInv DEF SysInit
<1>2. CalmInv /\ NotAheadInv
  BY DEF SysInit, Init, CalmInv, NotAheadInv
<1>3. Msgs(downlink) = {} /\ Msgs(uplink) = {} /\ DOMAIN downlink = {}
  BY DEF SysInit, Msgs
<1>4. SysTypeOK
  BY ZeroSlot DEF SysInit, Init, SysTypeOK
<1>5. UnderWayInv /\ OrderInv
  BY <1>3 DEF UnderWayInv, OrderInv
<1>6. SentInv
  BY <1>3, IdIsADevice DEF SysInit, Init, BootRspSlots, NoAcks, SentInv
<1>7. SubeventCounter = 0 /\ s_counter = 0
  BY DEF SysInit, Init, SubeventCounter
<1>8. CountInv
  BY <1>3, <1>7 DEF CountInv, Reached
<1> QED
  BY <1>1, <1>2, <1>4, <1>5, <1>6, <1>8 DEF SysInv, AdvInv

LEMMA AirNext ==
    ASSUME AdvInv, AdvInv', AirInv, Grows \/ HardReset, [SysNext]_sysvars
    PROVE  AirInv'
<1>0. /\ SysTypeOK /\ UnderWayInv /\ downlink \in Seq(DownMsg) /\ uplink \in Seq(UpMsg)
      /\ others \in Nat
  BY DEF AirInv, SysTypeOK
<1>1. boots \in Nat /\ (HardReset => boots' # boots)
  BY DEF AdvInv, TypeOK, HardReset, Reboot
<1>2. ASSUME UNCHANGED boots, DownFrom, UpFrom, downlink' \in Seq(DownMsg),
             uplink' \in Seq(UpMsg),
             UNCHANGED <<s_counter, selected_slot, train, epoch, others>>
      PROVE  AirInv'
  <2>1. Grows
    BY <1>1, <1>2
  <2> QED
    BY <1>0, <1>2, <2>1, UpFromPublished, AirFrame
<1>3. CASE AdvMain \/ AdvFill
  <2>1. UNCHANGED <<downlink, uplink, s_counter, selected_slot, train, epoch, others>>
    BY <1>3 DEF AdvMain, AdvFill, sky, queues, known
  <2>2. boots' = boots
    <3>1. CASE AdvMain
      BY <3>1, CalmMain
      DEF AdvMain, AdvInv, InitCounter, InitPeriodicAdv, InitExtendedAdv, flash
    <3>2. CASE AdvFill
      BY <3>2 DEF AdvFill, RequestSubevent, RequestSlot, flash
    <3> QED
      BY <1>3, <3>1, <3>2
  <2> QED
    BY <1>0, <1>2, <2>1, <2>2, DownKept, UpKept
<1>4. CASE AdvReset
  BY <1>4, ResetAir
<1>5. CASE AdvRequest
  <2>1. /\ downlink' = Later(downlink, rollover) /\ uplink' = Later(uplink, rollover)
        /\ UNCHANGED <<s_counter, selected_slot, train, epoch, others>>
    BY <1>5 DEF AdvRequest, known
  <2>2. boots' = boots
    BY <1>5 DEF AdvRequest, RequestCb, flash
  <2>3. rollover \in Int
    BY DEF AdvInv, TypeOK
  <2> QED
    BY <1>0, <1>2, <2>1, <2>2, <2>3, AllLater
<1>6. ASSUME NEW ok \in BOOLEAN, AdvPublish(ok) PROVE AirInv'
  <2>1. boots' = boots
    BY <1>6 DEF AdvPublish, RequestPublish, flash
  <2>2. CASE ok
    <3>1. Grows
      BY <1>1, <2>1
    <3> QED
      BY <1>6, <2>2, <3>1, PublishAir
  <2>3. CASE ~ok
    <3>1. UNCHANGED <<downlink, uplink, s_counter, selected_slot, train, epoch, others>>
      BY <1>6, <2>3 DEF AdvPublish, known
    <3> QED
      BY <1>0, <1>2, <2>1, <3>1, DownKept, UpKept
  <2> QED
    BY <2>2, <2>3
<1>7. CASE AdvResponse
  <2>1. /\ uplink # <<>> /\ uplink' = Tail(uplink)
        /\ UNCHANGED <<downlink, s_counter, selected_slot, train, epoch, others>>
    BY <1>7 DEF AdvResponse, known
  <2>2. boots' = boots
    BY <1>7, ResponseCounts DEF AdvResponse, AdvInv
  <2> QED
    BY <1>0, <1>2, <2>1, <2>2, DownKept, UpTaken
<1>8. CASE OtherResponse
  <2>1. /\ others' = others + 1 /\ UNCHANGED vars
        /\ UNCHANGED <<downlink, s_counter, selected_slot, train, epoch>>
    BY <1>8 DEF OtherResponse, known
  <2>2. /\ uplink' \in Seq(UpMsg)
        /\ \A r \in Msgs(uplink)' : r.counter \in published[r.slot.subevent]
    BY <1>0, <1>8, OtherIsUnderWay DEF UnderWayInv
  <2>3. Grows
    BY <1>1, <2>1 DEF vars, flash
  <2>4. others' \in Nat
    BY <1>0, <2>1
  <2> QED
    BY <1>0, <2>1, <2>2, <2>3, <2>4, DownKept, AirFrame
<1>9. CASE LoseDownlink \/ LoseUplink
  <2>1. UNCHANGED <<vars, s_counter, selected_slot, train, epoch, others>>
    BY <1>9 DEF LoseDownlink, LoseUplink, known
  <2>2. \/ downlink # <<>> /\ downlink' = Tail(downlink) /\ uplink' = uplink
        \/ uplink # <<>> /\ uplink' = Tail(uplink) /\ downlink' = downlink
    BY <1>9 DEF LoseDownlink, LoseUplink
  <2>3. boots' = boots
    BY <2>1 DEF vars, flash
  <2> QED
    BY <1>0, <1>2, <2>1, <2>2, <2>3, DownTaken, UpTaken, DownKept, UpKept
<1>10. CASE ScannerMain \/ ScannerEvent \/ ScannerSync \/ UNCHANGED sysvars
  <2>1. UNCHANGED <<vars, known, sky>>
    BY <1>10, ScannerQuiet DEF ScannerSync, sysvars
  <2>2. UNCHANGED <<boots, downlink, uplink, s_counter, selected_slot, train, epoch, others>>
    BY <2>1 DEF sky, queues, known, vars, flash
  <2> QED
    BY <1>0, <1>2, <2>2, DownKept, UpKept
<1>11. CASE ScannerReboot \/ ScannerScanRecv \/ ScannerRecv
  BY <1>11, RebootAir, ScanAir, ReceiveAir
<1> QED
  BY <1>3, <1>4, <1>5, <1>6, <1>7, <1>8, <1>9, <1>10, <1>11 DEF SysNext

LEMMA NextSysInv == SysInv /\ [SysNext]_sysvars => SysInv'
<1> SUFFICES ASSUME SysInv, [SysNext]_sysvars PROVE SysInv'
  OBVIOUS
<1>1. AdvInv /\ AirInv /\ SentInv
  BY DEF SysInv, AirInv
<1>2. AdvInv' /\ (Grows \/ HardReset)
  BY <1>1, AdvInvNext DEF AirInv
<1>3. AirInv'
  BY <1>1, <1>2, AirNext
<1>4. SentInv'
  BY <1>1, SentNext
<1> QED
  BY <1>2, <1>3, <1>4 DEF SysInv, AirInv

LEMMA SysInvariance == SysSpec => []SysInv
  BY InitSysInv, NextSysInv, PTL DEF SysSpec

\* Scanner and radio ask nothing of the advertiser that its own model does not
\* allow: everything that is proved of Advertiser holds in the system.
THEOREM SystemRunsAdvertiser == SysSpec => Spec
<1>1. SysInit => Init
  BY DEF SysInit
<1>2. SysInv /\ [SysNext]_sysvars => [Next]_vars
  BY AdvertiserNext DEF SysInv, AdvInv
<1> QED
  BY <1>1, <1>2, SysInvariance, PTL DEF SysSpec, Spec

\* What response_cb takes for granted of the scanner, and the scanner's callbacks of
\* the advertiser, holds whatever is lost, late or reset: a response names a slot of
\* the train and a counter that was published there, and nobody is acked who
\* has not responded.
THEOREM ComponentsFit == SysSpec => []AssumptionsMet
<1>1. SysInv => AssumptionsMet
  <2> SUFFICES ASSUME SysInv PROVE AssumptionsMet
    OBVIOUS
  <2>1. ASSUME NEW m \in Msgs(downlink), NEW r \in RspSlots, m.acks[r] = ID
        PROVE  s_response = "sent"
    BY <2>1 DEF SysInv, SentInv
  <2>2. \A r \in Msgs(uplink) : r.slot \in AirSlots
    BY UpMsgType DEF SysInv, UpMsg
  <2> QED
    BY <2>1, <2>2 DEF SysInv, UnderWayInv, AssumptionsMet
<1> QED
  BY <1>1, SysInvariance, PTL

\* verify_message never rejects the subevent's data at a scanner that booted after the
\* advertiser, although set_rsp_data counts on by itself.
THEOREM ScannersAccept == SysSpec => []IndicationsAccepted
<1>1. SysInv => IndicationsAccepted
  <2> SUFFICES ASSUME SysInv, epoch = boots, NEW m \in Msgs(downlink),
                      m.subevent = selected_slot.subevent
               PROVE  Accepts(m)
    BY DEF IndicationsAccepted
  <2>1. SysTypeOK /\ s_counter <= m.counter
    BY DEF SysInv, CountInv
  <2> QED
    BY <2>1, AcceptsMeans, DownMsgType
<1> QED
  BY <1>1, SysInvariance, PTL
=============================================================================
