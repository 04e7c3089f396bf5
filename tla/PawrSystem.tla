----------------------------- MODULE PawrSystem -----------------------------
(***************************************************************************)
(* The advertiser and one scanner, CONFIG_SCANNER_ID, over the air.        *)
(*                                                                         *)
(* Advertiser lets a scanner answer anything it may have heard, Scanner    *)
(* lets the host deliver anything: here the messages of one are the inputs *)
(* of the other.  The scanner's message counter and the slot it picked,    *)
(* which Scanner leaves out, are added.                                    *)
(*                                                                         *)
(* Messages of one direction arrive in order or are lost; the responses of *)
(* all devices are one direction.  The slack of a message is the number of *)
(* wraps that request_cb may add to the counter before a response to it is *)
(* out of date; below 0 it is late, and MaxLate bounds how late.  Both     *)
(* sides may be reset; Advertiser's button is left out, and so are syncs   *)
(* that Scanner loses track of.                                            *)
(***************************************************************************)
EXTENDS Advertiser, Integers

CONSTANTS
    CONFIG_SCANNER_ID,       \* the device of this scanner
    MAX_UNCONFIRMED_TICKS,
    ScannerEnv,              \* what may go wrong at the scanner
    Loss,                    \* which queues may lose a message
    MaxLate,                 \* bound: how late a message may be
    MaxOthers                \* bound: responses of other devices

ASSUME SystemAssumption ==
    /\ CONFIG_SCANNER_ID \in Devices
    /\ Loss \subseteq {"downlink", "uplink"}
    /\ MaxLate \in Nat /\ MaxOthers \in Nat
    /\ Env \cap {"button", "init_error"} = {}
    /\ {"stray", "late"} \subseteq Env /\ AnsweredIn = RspSlots
    /\ ScannerEnv \cap {"scan_stop_error", "delete_error", "late_cancel"} = {}

VARIABLES
    \* The variables of Scanner.
    s_state, s_pc, s_reason, s_fault, s_evt_sem, s_sem, s_recv, s_sync_ptr,
    s_ticks, s_timer, s_scan, s_sync, s_subevent, s_delivery, s_response,
    \* The rest of the scanner's RAM.
    s_counter,       \* counter.value
    selected_slot,
    \* The air.
    downlink,        \* subevent data under way: [subevent, counter, acks, slack]
    uplink,          \* responses under way: [dev, slot, counter, slack]
    train,           \* the boot of the advertiser this scanner is synced to
    \* History.
    epoch,           \* the advertiser's boot when the scanner booted
    others           \* how often other devices responded

S == INSTANCE Scanner
       WITH Env <- ScannerEnv,
            curr_state <- s_state, pc <- s_pc, reason <- s_reason,
            fault_reason <- s_fault, synced_evt_sem <- s_evt_sem,
            synced_sem <- s_sem, recv <- s_recv, default_sync <- s_sync_ptr,
            unconfirmed_ticks <- s_ticks, timer <- s_timer, scan <- s_scan,
            sync <- s_sync, subevent <- s_subevent, delivery <- s_delivery,
            response <- s_response

ASSUME ScannerConstants ==
    MAX_UNCONFIRMED_TICKS \in 1 .. U8 - 1 /\ ScannerEnv \subseteq S!Disturbances

scanner == <<s_state, s_pc, s_reason, s_fault, s_evt_sem, s_sem, s_recv, s_sync_ptr,
             s_ticks, s_timer, s_scan, s_sync, s_subevent, s_delivery, s_response>>
known   == <<s_counter, selected_slot>>
queues  == <<downlink, uplink>>
sky     == <<queues, train, epoch, others>>
sysvars == <<vars, scanner, known, sky>>

ID == CONFIG_SCANNER_ID

SysInit ==
    /\ Init /\ S!Init
    /\ s_counter = 0                  \* crypto_flasher committed 0
    /\ selected_slot = Slot(0, 0)
    /\ downlink = <<>> /\ uplink = <<>> /\ train = 0 /\ epoch = 0
    /\ others = 0

\* The scanner's host passes m on to the callback that is set.
Hears(m) ==
    /\ S!Indication("confirm_recv_cb") \/ S!Indication("ack_recv_cb")
    /\ train = boots /\ m.subevent = selected_slot.subevent
-----------------------------------------------------------------------------
(* The advertiser and the air.                                             *)

Msgs(queue) == {queue[i] : i \in DOMAIN queue}

\* request_cb adds n wraps to the counter.
Later(queue, n) == [i \in DOMAIN queue |-> [queue[i] EXCEPT !.slack = @ - n]]

AdvMain == MainThread /\ UNCHANGED <<scanner, known, sky>>

\* The reset button: the train ends, with everything under way in it.
AdvReset ==
    /\ HardReset
    /\ downlink' = <<>> /\ uplink' = <<>>
    /\ UNCHANGED <<scanner, known, train, epoch, others>>

AdvRequest ==
    /\ \E start \in Subevents, n \in 1 .. MAX_NUM_SUBEVENTS : RequestCb(start, n)
    /\ \A x \in Msgs(downlink) \cup Msgs(uplink) : x.slack - rollover >= -MaxLate
    /\ downlink' = Later(downlink, rollover) /\ uplink' = Later(uplink, rollover)
    /\ UNCHANGED <<scanner, known, train, epoch, others>>

AdvFill ==
    /\ (\E ok \in BOOLEAN : RequestSubevent(ok)) \/ RequestSlot
    /\ UNCHANGED <<scanner, known, sky>>

AdvPublish(ok) ==
    /\ RequestPublish(ok)
    /\ downlink' = IF ok THEN Append(downlink, [subevent |-> subevent, slack |-> rollover,
                                  counter |-> SubeventCounter, acks |-> ack_data])
                         ELSE downlink
    /\ UNCHANGED <<scanner, known, uplink, train, epoch, others>>

AdvResponse ==
    /\ uplink # <<>>
    /\ ResponseCb(Head(uplink).dev, Head(uplink).slot, Head(uplink).counter)
    /\ uplink' = Tail(uplink)
    /\ UNCHANGED <<scanner, known, downlink, train, epoch, others>>

\* The response of d in slot s to data x, or beside another response x to it.
Response(d, s, x) == [dev |-> d, slot |-> s, counter |-> x.counter, slack |-> x.slack]

\* Another device answers, in any slot, the data that is on the air or the data
\* that was answered last.
OtherResponse ==
    /\ others < MaxOthers /\ others' = others + 1
    /\ \E d \in Devices \ {ID}, r \in RspSlots :
          \/ /\ downlink # <<>>
             /\ LET m == Head(downlink)
                IN  uplink' = Append(uplink, Response(d, Slot(m.subevent, r), m))
          \/ /\ uplink # <<>>
             /\ LET last == uplink[Len(uplink)]
                IN  uplink' = Append(uplink, Response(d, Slot(last.slot.subevent, r), last))
    /\ UNCHANGED <<vars, scanner, known, downlink, train, epoch>>

\* Subevent data is lost, or sent while the scanner does not listen.
LoseDownlink ==
    /\ downlink # <<>>
    /\ "downlink" \in Loss \/ ~Hears(Head(downlink))
    /\ downlink' = Tail(downlink)
    /\ UNCHANGED <<vars, scanner, known, uplink, train, epoch, others>>

LoseUplink ==
    /\ "uplink" \in Loss
    /\ uplink # <<>> /\ uplink' = Tail(uplink)
    /\ UNCHANGED <<vars, scanner, known, downlink, train, epoch, others>>
-----------------------------------------------------------------------------
(* The scanner.                                                            *)

\* Everything of the main thread but a reboot.
ScannerMain ==
    /\ \/ S!init \/ S!syncing \/ S!confirming \/ S!sleeping \/ S!enabled
       \/ S!take_event
    /\ UNCHANGED <<vars, known, sky>>

\* The counter is read again from storage, where nothing was committed.
ScannerReboot ==
    /\ S!handle_fault \/ S!null_fault \/ ("reset" \in Env /\ S!Reboot)
    /\ s_counter' = 0 /\ selected_slot' = Slot(0, 0)
    /\ train' = boots /\ epoch' = boots
    /\ UNCHANGED <<vars, queues, others>>

\* parse_adv_data takes one of the advertised slots at random; an advertisement
\* that does not verify is ignored.  Data under way is over before the sync that
\* is created now is established.
ScannerScanRecv ==
    /\ curr_state \in {"ADVERTISING", "SOFT_REBOOT"}
    /\ verify_message(TRUE, adv.counter, s_counter) = "TRANSFER_NO_ERROR"
    /\ S!scan_recv_cb
    /\ s_counter' = verified_counter(adv.counter, s_counter)
    /\ selected_slot' \in Entries(adv.reg)
    /\ downlink' = <<>> /\ train' = boots
    /\ UNCHANGED <<vars, uplink, epoch, others>>

\* A sync is established with the first subevent of an event; the controller
\* refuses a subevent the train does not have.
ScannerSync ==
    /\ train = boots /\ downlink # <<>> /\ Head(downlink).subevent = 0
    /\ S!sync_cb
    /\ s_subevent' = IF selected_slot.subevent \in Subevents THEN "set" ELSE "unset"
    /\ UNCHANGED <<vars, known, sky>>

ScannerEvent == (S!term_cb \/ S!data_generated_cb) /\ UNCHANGED <<vars, known, sky>>

\* Mutant: the counter is incremented before the message is signed.
increment_then_sign(m) ==
    /\ s_counter' = verified_counter(m.counter, s_counter) + 1
    /\ uplink' = Append(uplink, [dev |-> ID, slack |-> m.slack, counter |-> s_counter',
                                 slot |-> Slot(m.subevent, selected_slot.rsp_slot)])

\* set_rsp_data: signs and sends the response, then counts it.
set_rsp_data(m) ==
    /\ s_counter' = verified_counter(m.counter, s_counter) + 1
    /\ uplink' = Append(uplink, [dev |-> ID, slack |-> m.slack,
                                 counter |-> verified_counter(m.counter, s_counter),
                                 slot |-> Slot(m.subevent, selected_slot.rsp_slot)])

Accepts(m) == verify_message(TRUE, m.counter, s_counter) = "TRANSFER_NO_ERROR"
Acks(m)    == m.acks[selected_slot.rsp_slot] = ID

\* An indication for whichever callback is set.
ScannerRecv ==
    /\ downlink # <<>>
    /\ LET m == Head(downlink)
       IN  /\ Hears(m)
           /\ \/ /\ ~Accepts(m) /\ S!recv_invalid
                 /\ UNCHANGED <<s_counter, uplink>>
              \/ /\ Accepts(m) /\ Acks(m)
                 /\ S!confirm_recv_acked \/ S!ack_recv_acked
                 /\ s_counter' = verified_counter(m.counter, s_counter)
                 /\ UNCHANGED uplink
              \/ /\ Accepts(m) /\ ~Acks(m)
                 /\ S!confirm_recv_unacked
                 /\ set_rsp_data(m)
              \/ /\ Accepts(m) /\ ~Acks(m)
                 /\ S!ack_recv_unacked
                 /\ IF S!LimitReached
                    THEN /\ s_counter' = verified_counter(m.counter, s_counter)
                         /\ UNCHANGED uplink
                    ELSE set_rsp_data(m)
    /\ downlink' = Tail(downlink)
    /\ UNCHANGED <<vars, selected_slot, train, epoch, others>>
-----------------------------------------------------------------------------
SysNext ==
    \/ AdvMain \/ AdvReset \/ AdvRequest \/ AdvFill \/ (\E ok \in BOOLEAN : AdvPublish(ok))
    \/ AdvResponse \/ OtherResponse \/ LoseDownlink \/ LoseUplink
    \/ ScannerMain \/ ScannerReboot \/ ScannerScanRecv \/ ScannerSync
    \/ ScannerEvent \/ ScannerRecv

SysSpec == SysInit /\ [][SysNext]_sysvars
-----------------------------------------------------------------------------
(* Properties.                                                             *)

\* What each component's model assumes of the other is what the other does: a
\* response comes in a slot of the train and carries a counter published in its
\* subevent, and an ack reaches a scanner that has responded (confirm_recv_cb,
\* ack_recv_cb).
AssumptionsMet ==
    /\ \A r \in Msgs(uplink) :
          r.slot \in AirSlots /\ r.counter \in published[r.slot.subevent]
    /\ \A m \in Msgs(downlink) :
          (\E r \in RspSlots : m.acks[r] = ID) => s_response = "sent"

\* README.md, "Other notes": after the advertiser's reset button "you will need to
\* reset all the scanners as well".  A scanner that booted after the advertiser
\* never takes genuine data of its subevent for a forgery: its counter, which
\* set_rsp_data increments on its own, does not run ahead of the data under way.
IndicationsAccepted ==
    epoch = boots =>
       \A m \in Msgs(downlink) : m.subevent = selected_slot.subevent => Accepts(m)

\* As long as no other device answers, response_cb verifies every response that
\* is in time, and so does not take the scanner's slot.
ResponsesAccepted ==
    others = 0 => \A r \in Msgs(uplink) : r.slack >= 0 => Verified(r.counter)

\* As long as no other device answers, the advertiser still holds a slot for the
\* scanner when the ack of that slot reaches it.
AckMeansOwned ==
    others = 0 =>
       \A m \in Msgs(downlink), r \in RspSlots :
          m.acks[r] = ID => Owner(Slot(m.subevent, r)) = ID
=============================================================================
