------------------------- MODULE PawrResponseProofs -------------------------
(* The service of the advertiser in the system, and what becomes of the    *)
(* scanner's responses as long as no other device answers.                 *)
EXTENDS PawrSystemProofs, CounterProofs, SlotProofs

\* What a scanner may rely on, however many others there are and whatever is lost or
\* reset: slots change hands and counters grow as SlotService says.
THEOREM SystemServes == SysSpec => ServiceSpec
  BY SystemRunsAdvertiser, ImplementsService, PTL
-----------------------------------------------------------------------------
(* Responses in time.                                                      *)

\* Data is under way in the order of its counter and, within an event, of its
\* subevent.
Before(s1, c1, s2, c2) == c1 < c2 \/ (c1 = c2 /\ s1 < s2)

DownOrderInv ==
    \A i, k \in DOMAIN downlink : i < k =>
       Before(downlink[i].subevent, downlink[i].counter,
              downlink[k].subevent, downlink[k].counter)

\* The scanner answers data in that order, and once in an event.
UpOrderInv == others = 0 =>
    /\ \A r \in Msgs(uplink) : r.dev = ID
    /\ \A i, k \in DOMAIN uplink : i < k => uplink[i].counter < uplink[k].counter
    /\ \A r \in Msgs(uplink), m \in Msgs(downlink) :
          Before(r.slot.subevent, r.counter, m.subevent, m.counter)

\* The data that a synchronised scanner will hear.
Synced == s_sync = "synced" /\ train = boots
Heard  == {m \in Msgs(downlink) : Synced /\ m.subevent = selected_slot.subevent}

\* What it hears, and what is to be filled in its subevent, is of a later event than
\* the responses under way, those to another subevent before its last sync included.
EventInv == others = 0 /\ Synced =>
    /\ \A r \in Msgs(uplink), m \in Heard : r.counter < m.counter
    /\ \A r \in Msgs(uplink) :
          r.slot.subevent = selected_slot.subevent \/ r.counter < SubeventCounter

\* The counter passes a message only after the wraps of its slack, at most one.  Of
\* the data this holds from the first subevent 0 on, where the next sync begins.
InWindow(x) == counter <= x.counter - x.slack /\ x.slack <= 1

WindowInv == others = 0 =>
    /\ \A x \in Msgs(uplink) \cup Heard : InWindow(x)
    /\ \A i, k \in DOMAIN downlink :
          downlink[i].subevent = 0 /\ i <= k => InWindow(downlink[k])

LineInv == DownOrderInv /\ UpOrderInv /\ EventInv /\ WindowInv
RespInv == SysInv /\ RollInv /\ LineInv
-----------------------------------------------------------------------------
(* Steps that only take from what is under way.                            *)

DownDrops ==
    \E k \in {0, 1} : \A i \in DOMAIN downlink' :
       i \in Nat /\ i + k \in DOMAIN downlink /\ downlink'[i] = downlink[i + k]

UpDrops ==
    \E k \in {0, 1} : \A i \in DOMAIN uplink' :
       i \in Nat /\ i + k \in DOMAIN uplink /\ uplink'[i] = uplink[i + k]

LEMMA Dropping ==
    ASSUME SysTypeOK
    PROVE  /\ downlink' = downlink => DownDrops
           /\ downlink' = <<>> => DownDrops
           /\ downlink # <<>> /\ downlink' = Tail(downlink) => DownDrops
           /\ uplink' = uplink => UpDrops
           /\ uplink # <<>> /\ uplink' = Tail(uplink) => UpDrops
<1>0. downlink \in Seq(DownMsg) /\ uplink \in Seq(UpMsg)
  BY DEF SysTypeOK
<1>1. /\ \A i \in DOMAIN downlink : i \in Nat /\ i + 0 = i
      /\ \A i \in DOMAIN uplink : i \in Nat /\ i + 0 = i
  BY <1>0
<1>2. downlink' = downlink => DownDrops
  BY <1>1 DEF DownDrops
<1>3. uplink' = uplink => UpDrops
  BY <1>1 DEF UpDrops
<1>4. downlink' = <<>> => DownDrops
  BY DEF DownDrops
<1>5. downlink # <<>> /\ downlink' = Tail(downlink) => DownDrops
  BY <1>0, MsgsTail DEF DownDrops
<1>6. uplink # <<>> /\ uplink' = Tail(uplink) => UpDrops
  BY <1>0, MsgsTail DEF UpDrops
<1> QED
  BY <1>2, <1>3, <1>4, <1>5, <1>6

LEMMA DropMsgs ==
    /\ DownDrops => Msgs(downlink)' \subseteq Msgs(downlink)
    /\ UpDrops => Msgs(uplink)' \subseteq Msgs(uplink)
<1>1. ASSUME DownDrops, NEW m \in Msgs(downlink)' PROVE m \in Msgs(downlink)
  <2>1. PICK i \in DOMAIN downlink' : m = downlink'[i]
    BY <1>1 DEF Msgs
  <2> QED
    BY <1>1, <2>1 DEF DownDrops, Msgs
<1>2. ASSUME UpDrops, NEW m \in Msgs(uplink)' PROVE m \in Msgs(uplink)
  <2>1. PICK i \in DOMAIN uplink' : m = uplink'[i]
    BY <1>2 DEF Msgs
  <2> QED
    BY <1>2, <2>1 DEF UpDrops, Msgs
<1> QED
  BY <1>1, <1>2

LEMMA Shifts == \A i, k \in Nat, a \in {0, 1} : (i < k => i + a < k + a) /\ (i <= k => i + a <= k + a)
  OBVIOUS

LEMMA DownOrderFrame == ASSUME DownOrderInv, DownFrom PROVE DownOrderInv'
<1>1. PICK a \in {0, 1} : \A i \in DOMAIN downlink' :
         /\ i \in Nat /\ i + a \in DOMAIN downlink
         /\ downlink'[i].subevent = downlink[i + a].subevent
         /\ downlink'[i].counter = downlink[i + a].counter
  BY DEF DownFrom
<1> QED
  BY <1>1, Shifts DEF DownOrderInv

\* The order of the responses and the events they are of.
LEMMA OrderDrops ==
    ASSUME LineInv, DownDrops, UpDrops
    PROVE  /\ DownOrderInv'
           /\ others = 0 =>
                 /\ \A r \in Msgs(uplink)' : r.dev = ID
                 /\ \A i, k \in DOMAIN uplink' : i < k => uplink'[i].counter < uplink'[k].counter
                 /\ \A r \in Msgs(uplink)', m \in Msgs(downlink)' :
                       Before(r.slot.subevent, r.counter, m.subevent, m.counter)
<1>1. DownOrderInv'
  <2>1. DownFrom
    BY DEF DownDrops, DownFrom
  <2> QED
    BY <2>1, DownOrderFrame DEF LineInv
<1> SUFFICES ASSUME others = 0
             PROVE  /\ \A r \in Msgs(uplink)' : r.dev = ID
                    /\ \A i, k \in DOMAIN uplink' : i < k => uplink'[i].counter < uplink'[k].counter
                    /\ \A r \in Msgs(uplink)', m \in Msgs(downlink)' :
                          Before(r.slot.subevent, r.counter, m.subevent, m.counter)
  BY <1>1
<1>2. PICK a \in {0, 1} : \A i \in DOMAIN uplink' :
         i \in Nat /\ i + a \in DOMAIN uplink /\ uplink'[i] = uplink[i + a]
  BY DEF UpDrops
<1>3. \A i, k \in DOMAIN uplink' : i < k => uplink'[i].counter < uplink'[k].counter
  BY <1>2, Shifts DEF LineInv, UpOrderInv
<1> QED
  BY <1>3, DropMsgs DEF LineInv, UpOrderInv

LEMMA LineFrame ==
    ASSUME SysInv, SysInv', LineInv, DownDrops, UpDrops, UNCHANGED <<others, counter>>,
           Synced' => Synced /\ selected_slot' = selected_slot,
           SubeventCounter <= SubeventCounter'
    PROVE  LineInv'
<1>1. /\ Msgs(downlink)' \subseteq Msgs(downlink) /\ Msgs(uplink)' \subseteq Msgs(uplink)
      /\ Heard' \subseteq Heard
  BY DropMsgs DEF Heard
<1>2. DownOrderInv' /\ UpOrderInv'
  BY OrderDrops DEF UpOrderInv
<1>3. EventInv'
  <2> SUFFICES ASSUME others = 0, Synced'
               PROVE  /\ \A r \in Msgs(uplink)', m \in Heard' : r.counter < m.counter
                      /\ \A r \in Msgs(uplink)' :
                            \/ r.slot.subevent = selected_slot.subevent
                            \/ r.counter < SubeventCounter'
    BY DEF EventInv
  <2>1. \A r \in Msgs(uplink) : r.counter \in Nat
    BY UpMsgType DEF SysInv, UpMsg
  <2>2. SubeventCounter \in Nat /\ SubeventCounter' \in Nat
    BY SubeventCounterType, SubeventCounterTypeNext DEF SysInv, AdvInv
  <2>3. \A c \in Nat : c < SubeventCounter => c < SubeventCounter'
    BY <2>2
  <2> QED
    BY <1>1, <2>1, <2>3 DEF LineInv, EventInv
<1>4. WindowInv'
  <2> SUFFICES ASSUME others = 0
               PROVE  /\ \A x \in Msgs(uplink)' \cup Heard' :
                            counter' <= x.counter - x.slack /\ x.slack <= 1
                      /\ \A i, k \in DOMAIN downlink' :
                            downlink'[i].subevent = 0 /\ i <= k =>
                               /\ counter' <= downlink'[k].counter - downlink'[k].slack
                               /\ downlink'[k].slack <= 1
    BY DEF WindowInv, InWindow
  <2>0. ASSUME NEW x, InWindow(x) PROVE counter' <= x.counter - x.slack /\ x.slack <= 1
    BY <2>0 DEF InWindow
  <2>1. ASSUME NEW x \in Msgs(uplink)' \cup Heard'
        PROVE  counter' <= x.counter - x.slack /\ x.slack <= 1
    BY <1>1, <2>0 DEF LineInv, WindowInv
  <2>2. ASSUME NEW i \in DOMAIN downlink', NEW k \in DOMAIN downlink',
               downlink'[i].subevent = 0, i <= k
        PROVE  counter' <= downlink'[k].counter - downlink'[k].slack /\ downlink'[k].slack <= 1
    <3>1. PICK a \in {0, 1} : \A n \in DOMAIN downlink' :
             n \in Nat /\ n + a \in DOMAIN downlink /\ downlink'[n] = downlink[n + a]
      BY DEF DownDrops
    <3>2. InWindow(downlink[k + a])
      BY <2>2, <3>1, Shifts DEF LineInv, WindowInv
    <3> QED
      BY <2>0, <3>1, <3>2
  <2> QED
    BY <2>1, <2>2
<1> QED
  BY <1>2, <1>3, <1>4 DEF LineInv

LEMMA NothingLine ==
    ASSUME Msgs(downlink)' = {}, Msgs(uplink)' = {} PROVE LineInv'
<1>1. DOMAIN downlink' = {} /\ DOMAIN uplink' = {} /\ Heard' = {}
  BY DEF Msgs, Heard
<1> QED
  BY <1>1 DEF LineInv, DownOrderInv, UpOrderInv, EventInv, WindowInv
-----------------------------------------------------------------------------
(* Steps that bring something.                                             *)

LEMMA UnderWayType ==
    ASSUME SysTypeOK
    PROVE  /\ \A m \in Msgs(downlink) : /\ m.counter \in Nat /\ m.slack \in Int
                                        /\ m.subevent \in Subevents /\ m.subevent \in Nat
           /\ \A r \in Msgs(uplink) : /\ r.counter \in Nat /\ r.slack \in Int
                                      /\ r.slot.subevent \in Subevents /\ r.slot.subevent \in Nat
                                      /\ r.slot.rsp_slot \in RspSlots
<1>1. Subevents \subseteq Nat /\ AnsweredIn = RspSlots
  BY AdvertiserAssumption, SystemAssumption DEF Subevents
<1> QED
  BY <1>1, DownMsgType, UpMsgType DEF DownMsg, UpMsg, AirSlots

\* request_cb moves the counter and takes the same from the slack.
LEMMA RequestLine ==
    ASSUME SysInv, LineInv, AdvRequest PROVE LineInv'
<1>0. SysTypeOK /\ TypeOK /\ rollover \in Int /\ counter \in Nat /\ rollover \in Nat
  BY DEF SysInv, AdvInv, TypeOK
<1>1. /\ downlink' = Later(downlink, rollover) /\ uplink' = Later(uplink, rollover)
      /\ counter' = counter + rollover /\ rollover' = 0
      /\ UNCHANGED <<others, s_sync, train, boots, selected_slot>>
  BY DEF AdvRequest, RequestCb, add_rollover, scanner, known, flash
<1>2. SubeventCounter' = SubeventCounter /\ (Synced' <=> Synced)
  BY <1>0, <1>1 DEF SubeventCounter, Synced
<1>3. /\ DOMAIN downlink' = DOMAIN downlink
      /\ \A i \in DOMAIN downlink :
            /\ downlink'[i].subevent = downlink[i].subevent
            /\ downlink'[i].counter = downlink[i].counter
            /\ downlink'[i].slack = downlink[i].slack - rollover
      /\ DOMAIN uplink' = DOMAIN uplink
      /\ \A i \in DOMAIN uplink :
            /\ uplink'[i].dev = uplink[i].dev
            /\ uplink'[i].slot = uplink[i].slot
            /\ uplink'[i].counter = uplink[i].counter
            /\ uplink'[i].slack = uplink[i].slack - rollover
  BY <1>0, <1>1, LaterMsgs
<1>4. ASSUME NEW m \in Msgs(downlink)'
      PROVE  \E o \in Msgs(downlink) : /\ m.subevent = o.subevent /\ m.counter = o.counter
                                       /\ m.slack = o.slack - rollover
  BY <1>3 DEF Msgs
<1>5. ASSUME NEW r \in Msgs(uplink)'
      PROVE  \E o \in Msgs(uplink) : /\ r.dev = o.dev /\ r.slot = o.slot
                                     /\ r.counter = o.counter /\ r.slack = o.slack - rollover
  BY <1>3 DEF Msgs
<1>6. ASSUME NEW c \in Nat, NEW sl \in Int, counter <= c - sl, sl <= 1
      PROVE  counter + rollover <= c - (sl - rollover) /\ sl - rollover <= 1
  BY <1>0, <1>6
<1>7. DownOrderInv'
  BY <1>3 DEF LineInv, DownOrderInv
<1>8. UpOrderInv'
  BY <1>1, <1>3, <1>4, <1>5 DEF LineInv, UpOrderInv
<1>9. ASSUME NEW m \in Heard'
      PROVE  \E o \in Heard : /\ m.counter = o.counter /\ m.slack = o.slack - rollover
                              /\ o \in Msgs(downlink)
  BY <1>1, <1>2, <1>4 DEF Heard
<1>10. EventInv'
  BY <1>1, <1>2, <1>5, <1>9 DEF LineInv, EventInv
<1>11. WindowInv'
  <2> SUFFICES ASSUME others = 0
               PROVE  /\ \A x \in Msgs(uplink)' \cup Heard' :
                            counter' <= x.counter - x.slack /\ x.slack <= 1
                      /\ \A i, k \in DOMAIN downlink' :
                            downlink'[i].subevent = 0 /\ i <= k =>
                               /\ counter' <= downlink'[k].counter - downlink'[k].slack
                               /\ downlink'[k].slack <= 1
    BY <1>1 DEF WindowInv, InWindow
  <2>1. ASSUME NEW x \in Msgs(uplink)' PROVE counter' <= x.counter - x.slack /\ x.slack <= 1
    <3>1. PICK o \in Msgs(uplink) : x.counter = o.counter /\ x.slack = o.slack - rollover
      BY <1>5
    <3>2. InWindow(o) /\ o.counter \in Nat /\ o.slack \in Int
      BY <1>0, UnderWayType DEF LineInv, WindowInv
    <3> QED
      BY <1>1, <1>6, <3>1, <3>2 DEF InWindow
  <2>2. ASSUME NEW x \in Heard' PROVE counter' <= x.counter - x.slack /\ x.slack <= 1
    <3>1. PICK o \in Heard : /\ x.counter = o.counter /\ x.slack = o.slack - rollover
                             /\ o \in Msgs(downlink)
      BY <1>9
    <3>2. InWindow(o) /\ o.counter \in Nat /\ o.slack \in Int
      BY <1>0, <3>1, UnderWayType DEF LineInv, WindowInv
    <3> QED
      BY <1>1, <1>6, <3>1, <3>2 DEF InWindow
  <2>3. ASSUME NEW i \in DOMAIN downlink', NEW k \in DOMAIN downlink',
               downlink'[i].subevent = 0, i <= k
        PROVE  counter' <= downlink'[k].counter - downlink'[k].slack /\ downlink'[k].slack <= 1
    <3>1. i \in DOMAIN downlink /\ k \in DOMAIN downlink /\ downlink[k] \in Msgs(downlink)
      BY <1>3 DEF Msgs
    <3>2. InWindow(downlink[k]) /\ downlink[k].counter \in Nat /\ downlink[k].slack \in Int
      BY <1>0, <1>3, <2>3, <3>1, UnderWayType DEF LineInv, WindowInv
    <3> QED
      BY <1>1, <1>3, <1>6, <3>1, <3>2 DEF InWindow
  <2> QED
    BY <2>1, <2>2, <2>3
<1> QED
  BY <1>7, <1>8, <1>10, <1>11 DEF LineInv

\* Everything published before is before the data of the subevent that was filled.
LEMMA PublishedIsLast ==
    ASSUME AdvInv, RequestPublish(TRUE), NEW s \in Subevents, NEW c \in published[s]
    PROVE  /\ c \in Nat /\ Before(s, c, subevent, SubeventCounter)
           /\ s >= subevent => c < SubeventCounter
<1>1. /\ rx = "slots" /\ subevent \in Nat /\ s \in Nat
      /\ published \in [Subevents -> SUBSET Nat]
  BY AdvertiserAssumption DEF RequestPublish, AdvInv, TypeOK, Subevents
<1>2. c \in Nat /\ SubeventCounter \in Nat
  BY <1>1, SubeventCounterType DEF AdvInv
<1>3. c <= SubeventCounter /\ (s >= subevent => c + 1 <= SubeventCounter)
  BY <1>1 DEF AdvInv, FreshInv, NotFilled
<1> QED
  BY <1>1, <1>2, <1>3 DEF Before

LEMMA PublishLine ==
    ASSUME SysInv, RollInv, LineInv, AdvPublish(TRUE) PROVE LineInv'
<1>0. /\ SysTypeOK /\ TypeOK /\ AdvInv /\ downlink \in Seq(DownMsg)
      /\ counter \in Nat /\ rollover \in {0, 1}
  BY DEF SysInv, AdvInv, TypeOK, SysTypeOK, RollInv
<1>1. /\ RequestPublish(TRUE) /\ downlink' = Append(downlink, Published)
      /\ UNCHANGED <<uplink, counter, rollover, others, s_sync, train, boots, selected_slot>>
  BY DEF AdvPublish, Published, RequestPublish, count, flash, scanner, known
<1>2. /\ Published \in DownMsg /\ subevent \in Subevents
      /\ Published.subevent = subevent /\ Published.counter = SubeventCounter
      /\ Published.slack = rollover
  BY <1>0, <1>1, PublishedIsNewest DEF Published
<1>3. /\ Msgs(downlink)' = Msgs(downlink) \cup {Published}
      /\ DOMAIN downlink = 1 .. Len(downlink) /\ Len(downlink) \in Nat
      /\ DOMAIN downlink' = 1 .. Len(downlink) + 1
      /\ \A i \in DOMAIN downlink : downlink'[i] = downlink[i]
      /\ downlink'[Len(downlink) + 1] = Published
  <2>1. Msgs(downlink)' = Msgs(Append(downlink, Published))
    BY <1>1 DEF Msgs
  <2> QED
    BY <1>0, <1>1, <1>2, <2>1, MsgsAppend
<1> HIDE DEF Published
<1>4. /\ Msgs(uplink)' = Msgs(uplink) /\ SubeventCounter' = SubeventCounter
      /\ (Synced' <=> Synced)
  BY <1>1 DEF Msgs, SubeventCounter, Synced
<1>5. \A m \in Msgs(downlink) :
         Before(m.subevent, m.counter, Published.subevent, Published.counter)
  BY <1>0, <1>1, <1>2, UnderWayType, PublishedIsLast DEF SysInv, UnderWayInv
<1>6. \A r \in Msgs(uplink) :
         /\ Before(r.slot.subevent, r.counter, Published.subevent, Published.counter)
         /\ r.slot.subevent = subevent => r.counter < SubeventCounter
  <2> SUFFICES ASSUME NEW r \in Msgs(uplink)
               PROVE  /\ Before(r.slot.subevent, r.counter, subevent, SubeventCounter)
                      /\ r.slot.subevent = subevent => r.counter < SubeventCounter
    BY <1>2
  <2>1. /\ r.slot.subevent \in Subevents /\ r.slot.subevent \in Nat
        /\ r.counter \in published[r.slot.subevent]
    BY <1>0, UnderWayType DEF SysInv, UnderWayInv
  <2> QED
    BY <1>0, <1>1, <2>1, PublishedIsLast
<1>7. DownOrderInv'
  <2> SUFFICES ASSUME NEW i \in DOMAIN downlink', NEW k \in DOMAIN downlink', i < k
               PROVE  Before(downlink'[i].subevent, downlink'[i].counter,
                             downlink'[k].subevent, downlink'[k].counter)
    BY DEF DownOrderInv
  <2>1. i \in DOMAIN downlink /\ downlink[i] \in Msgs(downlink)
    BY <1>3 DEF Msgs
  <2>2. CASE k \in DOMAIN downlink
    BY <1>3, <2>1, <2>2 DEF LineInv, DownOrderInv
  <2>3. CASE k = Len(downlink) + 1
    BY <1>3, <1>5, <2>1, <2>3
  <2> QED
    BY <1>3, <2>2, <2>3
<1>8. UpOrderInv'
  BY <1>1, <1>3, <1>4, <1>6 DEF LineInv, UpOrderInv
<1>9. Heard' \subseteq Heard \cup {Published}
  BY <1>1, <1>3, <1>4 DEF Heard
<1>10. EventInv'
  <2> SUFFICES ASSUME others = 0, Synced, NEW r \in Msgs(uplink)
               PROVE  /\ \A m \in Heard' : r.counter < m.counter
                      /\ r.slot.subevent = selected_slot.subevent \/ r.counter < SubeventCounter
    BY <1>1, <1>4 DEF EventInv
  <2>1. /\ \A m \in Heard : r.counter < m.counter
        /\ r.slot.subevent = selected_slot.subevent \/ r.counter < SubeventCounter
    BY DEF LineInv, EventInv
  <2>2. Published \in Heard' => subevent = selected_slot.subevent
    BY <1>1, <1>2 DEF Heard
  <2>3. Published \in Heard' => r.counter < Published.counter
    BY <1>2, <1>6, <2>1, <2>2
  <2> QED
    BY <1>9, <2>1, <2>3
<1>11. WindowInv'
  <2>1. counter' <= Published.counter - Published.slack /\ Published.slack <= 1
    BY <1>0, <1>1, <1>2 DEF SubeventCounter
  <2> SUFFICES ASSUME others = 0
               PROVE  /\ \A x \in Msgs(uplink)' \cup Heard' :
                            counter' <= x.counter - x.slack /\ x.slack <= 1
                      /\ \A i, k \in DOMAIN downlink' :
                            downlink'[i].subevent = 0 /\ i <= k =>
                               /\ counter' <= downlink'[k].counter - downlink'[k].slack
                               /\ downlink'[k].slack <= 1
    BY <1>1 DEF WindowInv, InWindow
  <2>2. \A x \in Msgs(uplink)' \cup Heard' : counter' <= x.counter - x.slack /\ x.slack <= 1
    BY <1>1, <1>4, <1>9, <2>1 DEF LineInv, WindowInv, InWindow
  <2>3. ASSUME NEW i \in DOMAIN downlink', NEW k \in DOMAIN downlink',
               downlink'[i].subevent = 0, i <= k
        PROVE  counter' <= downlink'[k].counter - downlink'[k].slack /\ downlink'[k].slack <= 1
    <3>1. CASE k \in DOMAIN downlink
      <4>1. i \in DOMAIN downlink
        BY <1>3, <2>3, <3>1
      <4>2. InWindow(downlink[k])
        BY <1>3, <2>3, <3>1, <4>1 DEF LineInv, WindowInv
      <4> QED
        BY <1>1, <1>3, <3>1, <4>2 DEF InWindow
    <3>2. CASE k = Len(downlink) + 1
      BY <1>3, <2>1, <3>2
    <3> QED
      BY <1>3, <3>1, <3>2
  <2> QED
    BY <2>2, <2>3
<1> QED
  BY <1>7, <1>8, <1>10, <1>11 DEF LineInv

\* All data from a subevent 0 on is of a later event than the responses.
LEMMA FromSubeventZero ==
    ASSUME SysTypeOK, LineInv, others = 0, NEW r \in Msgs(uplink),
           NEW i \in DOMAIN downlink, NEW k \in DOMAIN downlink,
           downlink[i].subevent = 0, i <= k
    PROVE  r.counter < downlink[i].counter /\ downlink[i].counter <= downlink[k].counter
<1>1. downlink[i] \in Msgs(downlink) /\ downlink[k] \in Msgs(downlink)
  BY DEF Msgs
<1>2. /\ r.counter \in Nat /\ r.slot.subevent \in Nat /\ i \in Nat /\ k \in Nat
      /\ downlink[i].counter \in Nat /\ downlink[k].counter \in Nat
  BY <1>1, UnderWayType DEF SysTypeOK
<1>3. Before(r.slot.subevent, r.counter, downlink[i].subevent, downlink[i].counter)
  BY <1>1 DEF LineInv, UpOrderInv
<1>4. r.counter < downlink[i].counter
  BY <1>2, <1>3 DEF Before
<1>5. CASE i = k
  BY <1>2, <1>4, <1>5
<1>6. CASE i < k
  <2>1. Before(downlink[i].subevent, downlink[i].counter,
               downlink[k].subevent, downlink[k].counter)
    BY <1>6 DEF LineInv, DownOrderInv
  <2> QED
    BY <1>2, <1>4, <2>1 DEF Before
<1> QED
  BY <1>2, <1>5, <1>6

\* response_cb takes the counter of the first response; what is heard or answered
\* later is of a later event.
LEMMA ResponseLine ==
    ASSUME SysInv, SysInv', LineInv, AdvResponse, SubeventCounter <= SubeventCounter'
    PROVE  LineInv'
<1>0. SysTypeOK /\ TypeOK /\ uplink \in Seq(UpMsg)
  BY DEF SysInv, AdvInv, SysTypeOK
<1>1. /\ uplink # <<>> /\ uplink' = Tail(uplink)
      /\ UNCHANGED <<downlink, others, s_sync, train, selected_slot>>
  BY DEF AdvResponse, scanner, known
<1>2. PICK h : h = Head(uplink)
  OBVIOUS
<1>3. /\ h \in Msgs(uplink) /\ h = uplink[1] /\ 1 \in DOMAIN uplink
      /\ \A i \in DOMAIN uplink' : i + 1 \in DOMAIN uplink /\ uplink'[i] = uplink[i + 1]
  BY <1>0, <1>1, <1>2, MsgsTail
<1>4. ResponseCb(h.dev, h.slot, h.counter)
  BY <1>2 DEF AdvResponse
<1>5. /\ counter' = counter \/ counter' = h.counter
      /\ boots' = boots
  BY <1>0, <1>4, ResponseCounts
<1>6. (Synced' <=> Synced) /\ DownDrops /\ UpDrops
  BY <1>0, <1>1, <1>5, Dropping DEF Synced
<1>7. counter' = counter => LineInv'
  BY <1>1, <1>6, LineFrame
<1> SUFFICES ASSUME counter' = h.counter PROVE LineInv'
  BY <1>5, <1>7
<1>8. /\ Msgs(uplink)' \subseteq Msgs(uplink) /\ Msgs(downlink)' = Msgs(downlink)
      /\ Heard' = Heard
  BY <1>1, <1>6, DropMsgs DEF Heard, Msgs
<1>9. DownOrderInv' /\ UpOrderInv'
  BY <1>1, <1>6, OrderDrops DEF UpOrderInv
<1>10. EventInv'
  <2>1. \A r \in Msgs(uplink) : r.counter \in Nat
    BY <1>0, UnderWayType
  <2>2. SubeventCounter \in Nat /\ SubeventCounter' \in Nat
    BY SubeventCounterType, SubeventCounterTypeNext DEF SysInv, AdvInv
  <2>3. \A c \in Nat : c < SubeventCounter => c < SubeventCounter'
    BY <2>2
  <2> QED
    BY <1>1, <1>6, <1>8, <2>1, <2>3 DEF LineInv, EventInv
<1>11. WindowInv'
  <2> SUFFICES ASSUME others = 0
               PROVE  /\ \A x \in Msgs(uplink)' \cup Heard' :
                            h.counter <= x.counter - x.slack /\ x.slack <= 1
                      /\ \A i, k \in DOMAIN downlink :
                            downlink[i].subevent = 0 /\ i <= k =>
                               /\ h.counter <= downlink[k].counter - downlink[k].slack
                               /\ downlink[k].slack <= 1
    BY <1>1 DEF WindowInv, InWindow
  <2>0. ASSUME NEW c \in Nat, NEW sl \in Int, h.counter < c, sl <= 1
        PROVE  h.counter <= c - sl /\ sl <= 1
    <3>1. h.counter \in Nat
      BY <1>0, <1>3, UnderWayType
    <3> QED
      BY <2>0, <3>1
  <2>1. ASSUME NEW x \in Msgs(uplink)' PROVE h.counter <= x.counter - x.slack /\ x.slack <= 1
    <3>1. PICK i \in DOMAIN uplink' : x = uplink'[i]
      BY DEF Msgs
    <3>2. i \in Nat \ {0}
      BY <1>0, <1>1
    <3>3. i + 1 \in DOMAIN uplink /\ x = uplink[i + 1] /\ 1 < i + 1
      BY <1>3, <3>1, <3>2
    <3>4. h.counter < x.counter
      BY <1>3, <3>3 DEF LineInv, UpOrderInv
    <3>5. x \in Msgs(uplink) /\ x.slack <= 1 /\ x.counter \in Nat /\ x.slack \in Int
      BY <1>0, <1>8, UnderWayType DEF LineInv, WindowInv, InWindow
    <3> QED
      BY <2>0, <3>4, <3>5
  <2>2. ASSUME NEW x \in Heard' PROVE h.counter <= x.counter - x.slack /\ x.slack <= 1
    <3>1. x \in Heard /\ x \in Msgs(downlink) /\ Synced
      BY <1>8 DEF Heard
    <3>2. h.counter < x.counter
      BY <1>3, <3>1 DEF LineInv, EventInv
    <3>3. x.slack <= 1 /\ x.counter \in Nat /\ x.slack \in Int
      BY <1>0, <3>1, UnderWayType DEF LineInv, WindowInv, InWindow
    <3> QED
      BY <2>0, <3>2, <3>3
  <2>3. ASSUME NEW i \in DOMAIN downlink, NEW k \in DOMAIN downlink,
               downlink[i].subevent = 0, i <= k
        PROVE  h.counter <= downlink[k].counter - downlink[k].slack /\ downlink[k].slack <= 1
    <3>1. h.counter < downlink[i].counter /\ downlink[i].counter <= downlink[k].counter
      BY <1>0, <1>3, <2>3, FromSubeventZero
    <3>2. /\ downlink[i] \in Msgs(downlink) /\ downlink[k] \in Msgs(downlink)
          /\ downlink[k].slack <= 1
      BY <2>3 DEF Msgs, LineInv, WindowInv, InWindow
    <3>3. /\ downlink[i].counter \in Nat /\ downlink[k].counter \in Nat
          /\ downlink[k].slack \in Int /\ h.counter \in Nat
      BY <1>0, <1>3, <3>2, UnderWayType
    <3>4. h.counter < downlink[k].counter
      BY <3>1, <3>3
    <3> QED
      BY <2>0, <3>2, <3>3, <3>4
  <2> QED
    BY <2>1, <2>2, <2>3
<1> QED
  BY <1>9, <1>10, <1>11 DEF LineInv

\* A sync begins at subevent 0.
LEMMA SyncLine ==
    ASSUME SysInv, LineInv, ScannerSync PROVE LineInv'
<1>0. SysTypeOK /\ downlink \in Seq(DownMsg)
  BY DEF SysInv, SysTypeOK
<1>1. /\ downlink # <<>> /\ Head(downlink).subevent = 0
      /\ UNCHANGED <<downlink, uplink, others, selected_slot, counter, rollover>>
  BY DEF ScannerSync, vars, count, known, sky, queues
<1>2. /\ 1 \in DOMAIN downlink /\ downlink[1].subevent = 0
      /\ \A k \in DOMAIN downlink : k \in Nat /\ 1 <= k
  BY <1>0, <1>1, MsgsTail
<1>3. /\ Msgs(downlink)' = Msgs(downlink) /\ Msgs(uplink)' = Msgs(uplink)
      /\ SubeventCounter' = SubeventCounter
  BY <1>1 DEF Msgs, SubeventCounter
<1>4. DownOrderInv' /\ UpOrderInv'
  BY <1>1, <1>3 DEF LineInv, DownOrderInv, UpOrderInv
<1>5. ASSUME others = 0, NEW r \in Msgs(uplink)
      PROVE  /\ \A m \in Msgs(downlink) : r.counter < m.counter
             /\ r.counter < SubeventCounter
  <2>1. ASSUME NEW m \in Msgs(downlink) PROVE r.counter < m.counter
    <3>1. PICK k \in DOMAIN downlink : m = downlink[k]
      BY DEF Msgs
    <3>2. r.counter < downlink[1].counter /\ downlink[1].counter <= m.counter
      BY <1>0, <1>2, <1>5, <3>1, FromSubeventZero
    <3>3. r.counter \in Nat /\ m.counter \in Nat /\ downlink[1].counter \in Nat
      BY <1>0, <1>2, UnderWayType DEF Msgs
    <3> QED
      BY <3>2, <3>3
  <2>2. downlink[1] \in Msgs(downlink)
    BY <1>2 DEF Msgs
  <2>3. downlink[1].counter <= SubeventCounter
    BY <1>0, <2>2, UnderWayType DEF SysInv, AdvInv, UnderWayInv, FreshInv
  <2>4. r.counter \in Nat /\ downlink[1].counter \in Nat /\ SubeventCounter \in Nat
    BY <1>0, <2>2, UnderWayType, SubeventCounterType DEF SysInv, AdvInv
  <2>5. r.counter < SubeventCounter
    BY <2>1, <2>2, <2>3, <2>4
  <2> QED
    BY <2>1, <2>5
<1>6. EventInv'
  BY <1>1, <1>3, <1>5 DEF EventInv, Heard
<1>7. WindowInv'
  <2>1. others = 0 => \A m \in Msgs(downlink) : InWindow(m)
    BY <1>2 DEF LineInv, WindowInv, Msgs
  <2>2. others = 0 => \A x \in Msgs(uplink)' \cup Heard' : InWindow(x)
    BY <1>3, <2>1 DEF LineInv, WindowInv, Heard
  <2> QED
    BY <1>1, <2>2 DEF LineInv, WindowInv, InWindow
<1> QED
  BY <1>4, <1>6, <1>7 DEF LineInv

\* The answer to the first data that is heard follows all earlier answers and
\* precedes the data behind.
LEMMA AnswerLine ==
    ASSUME SysInv, LineInv, ScannerRecv, uplink' # uplink PROVE LineInv'
<1>0. SysTypeOK /\ downlink \in Seq(DownMsg) /\ uplink \in Seq(UpMsg)
  BY DEF SysInv, SysTypeOK
<1>1. PICK m : m = Head(downlink)
  OBVIOUS
<1>2. /\ downlink # <<>> /\ downlink' = Tail(downlink) /\ Synced
      /\ m.subevent = selected_slot.subevent
      /\ UNCHANGED <<others, s_sync, train, boots, selected_slot, counter, rollover>>
      /\ uplink' = Append(uplink, Answer(m))
  BY <1>0, <1>1, ScannerReceives DEF Synced, vars, flash, count
<1>3. /\ m \in Msgs(downlink) /\ m \in DownMsg /\ m = downlink[1] /\ 1 \in DOMAIN downlink
      /\ \A i \in DOMAIN downlink' : /\ i \in Nat /\ i + 1 \in DOMAIN downlink
                                     /\ downlink'[i] = downlink[i + 1]
  BY <1>0, <1>1, <1>2, MsgsTail
<1>4. DownDrops /\ Msgs(downlink)' \subseteq Msgs(downlink)
  BY <1>0, <1>2, Dropping, DropMsgs
<1>5. /\ m \in Heard /\ m.counter \in Nat /\ m.subevent \in Nat /\ m.slack \in Int
      /\ m.subevent \in Subevents
  BY <1>0, <1>2, <1>3, UnderWayType DEF Heard
<1>6. PICK a : a = Answer(m)
  OBVIOUS
<1>7. /\ a \in UpMsg /\ a.counter = m.counter /\ a.slack = m.slack /\ a.dev = ID
      /\ a.slot.subevent = m.subevent
  <2>1. selected_slot \in AirSlots
    BY <1>0, <1>2, <1>5, SystemAssumption DEF SysTypeOK, Slots, AirSlots
  <2> QED
    BY <1>2, <1>5, <1>6, <2>1, IdIsADevice DEF Answer, UpMsg
<1>8. /\ Msgs(uplink)' = Msgs(uplink) \cup {a}
      /\ DOMAIN uplink = 1 .. Len(uplink) /\ Len(uplink) \in Nat
      /\ DOMAIN uplink' = 1 .. Len(uplink) + 1
      /\ \A i \in DOMAIN uplink : uplink'[i] = uplink[i]
      /\ uplink'[Len(uplink) + 1] = a
  <2>1. uplink' = Append(uplink, a) /\ Msgs(uplink)' = Msgs(Append(uplink, a))
    BY <1>2, <1>6 DEF Msgs
  <2> QED
    BY <1>0, <1>7, <2>1, MsgsAppend
<1>9. ASSUME NEW n \in Msgs(downlink)'
      PROVE  /\ n \in Msgs(downlink) /\ n.counter \in Nat
             /\ Before(m.subevent, m.counter, n.subevent, n.counter)
  <2>1. PICK i \in DOMAIN downlink' : n = downlink'[i]
    BY DEF Msgs
  <2>2. i \in Nat \ {0}
    BY <1>0, <1>2
  <2>3. i + 1 \in DOMAIN downlink /\ n = downlink[i + 1] /\ 1 < i + 1
    BY <1>3, <2>1, <2>2
  <2>4. n \in Msgs(downlink)
    BY <1>4
  <2> QED
    BY <1>0, <1>3, <2>3, <2>4, UnderWayType DEF LineInv, DownOrderInv
<1>10. DownOrderInv'
  <2>1. DownFrom
    BY <1>4 DEF DownDrops, DownFrom
  <2> QED
    BY <2>1, DownOrderFrame DEF LineInv
<1>11. others = 0 => \A r \in Msgs(uplink) : r.counter < m.counter
  BY <1>2, <1>5 DEF LineInv, EventInv
<1>12. UpOrderInv'
  <2> SUFFICES ASSUME others = 0
               PROVE  /\ \A r \in Msgs(uplink)' : r.dev = ID
                      /\ \A i, k \in DOMAIN uplink' :
                            i < k => uplink'[i].counter < uplink'[k].counter
                      /\ \A r \in Msgs(uplink)', n \in Msgs(downlink)' :
                            Before(r.slot.subevent, r.counter, n.subevent, n.counter)
    BY <1>2 DEF UpOrderInv
  <2>1. \A r \in Msgs(uplink)' : r.dev = ID
    BY <1>7, <1>8 DEF LineInv, UpOrderInv
  <2>2. ASSUME NEW i \in DOMAIN uplink', NEW k \in DOMAIN uplink', i < k
        PROVE  uplink'[i].counter < uplink'[k].counter
    <3>1. i \in DOMAIN uplink /\ uplink[i] \in Msgs(uplink)
      BY <1>8, <2>2 DEF Msgs
    <3>2. CASE k \in DOMAIN uplink
      BY <1>8, <2>2, <3>1, <3>2 DEF LineInv, UpOrderInv
    <3>3. CASE k = Len(uplink) + 1
      BY <1>7, <1>8, <1>11, <3>1, <3>3
    <3> QED
      BY <1>8, <3>2, <3>3
  <2>3. \A r \in Msgs(uplink)', n \in Msgs(downlink)' :
           Before(r.slot.subevent, r.counter, n.subevent, n.counter)
    BY <1>7, <1>8, <1>9 DEF LineInv, UpOrderInv
  <2> QED
    BY <2>1, <2>2, <2>3
<1>13. /\ Heard' \subseteq Heard /\ SubeventCounter' = SubeventCounter
       /\ \A n \in Heard' : m.counter < n.counter
  <2>1. Heard' \subseteq Heard /\ SubeventCounter' = SubeventCounter
    BY <1>2, <1>4 DEF Heard, Synced, SubeventCounter
  <2>2. ASSUME NEW n \in Heard' PROVE m.counter < n.counter
    <3>1. n \in Msgs(downlink)' /\ n.subevent = m.subevent
      BY <1>2 DEF Heard
    <3> QED
      BY <1>5, <1>9, <3>1 DEF Before
  <2> QED
    BY <2>1, <2>2
<1>14. EventInv'
  BY <1>2, <1>7, <1>8, <1>13 DEF LineInv, EventInv
<1>15. WindowInv'
  <2> SUFFICES ASSUME others = 0
               PROVE  /\ \A x \in Msgs(uplink)' \cup Heard' :
                            counter <= x.counter - x.slack /\ x.slack <= 1
                      /\ \A i, k \in DOMAIN downlink' :
                            downlink'[i].subevent = 0 /\ i <= k =>
                               /\ counter <= downlink'[k].counter - downlink'[k].slack
                               /\ downlink'[k].slack <= 1
    BY <1>2 DEF WindowInv, InWindow
  <2>1. InWindow(m)
    BY <1>5 DEF LineInv, WindowInv
  <2>2. \A x \in Msgs(uplink)' \cup Heard' : counter <= x.counter - x.slack /\ x.slack <= 1
    BY <1>7, <1>8, <1>13, <2>1 DEF LineInv, WindowInv, InWindow
  <2>3. ASSUME NEW i \in DOMAIN downlink', NEW k \in DOMAIN downlink',
               downlink'[i].subevent = 0, i <= k
        PROVE  counter <= downlink'[k].counter - downlink'[k].slack /\ downlink'[k].slack <= 1
    <3>1. InWindow(downlink[k + 1])
      BY <1>3, <2>3, Shifts DEF LineInv, WindowInv
    <3> QED
      BY <1>3, <3>1 DEF InWindow
  <2> QED
    BY <2>2, <2>3
<1> QED
  BY <1>10, <1>12, <1>14, <1>15 DEF LineInv
-----------------------------------------------------------------------------
(* Across every step.                                                      *)

\* Nothing is under way before the first request_cb.
LEMMA NothingUnderWay ==
    ASSUME SysInv, curr_state = "INITIALIZE" /\ step \in {"entry", "loaded"}
    PROVE  Msgs(downlink) = {} /\ Msgs(uplink) = {}
<1>1. \A s \in Subevents : published[s] = {}
  BY DEF SysInv, AdvInv, BootInv
<1>2. SysTypeOK
  BY DEF SysInv
<1> QED
  BY <1>1, <1>2, UnderWayType DEF SysInv, UnderWayInv

\* Steps of the scanner and the radio that send nothing.
Silent ==
    \/ LoseDownlink \/ LoseUplink \/ ScannerMain \/ ScannerReboot \/ ScannerScanRecv
    \/ ScannerEvent \/ (ScannerRecv /\ uplink' = uplink) \/ UNCHANGED sysvars

LEMMA SilentKeeps ==
    ASSUME SysTypeOK, Silent
    PROVE  /\ UNCHANGED <<vars, others>> /\ DownDrops /\ UpDrops
           /\ Synced' => Synced /\ selected_slot' = selected_slot
<1>1. CASE LoseDownlink \/ LoseUplink
  <2>1. UNCHANGED <<vars, others, s_sync, train, boots, selected_slot>>
    BY <1>1 DEF LoseDownlink, LoseUplink, scanner, known, vars, flash
  <2>2. DownDrops /\ UpDrops
    BY <1>1, Dropping DEF LoseDownlink, LoseUplink
  <2> QED
    BY <2>1, <2>2 DEF Synced
<1>2. CASE ScannerMain \/ ScannerEvent
  <2>1. /\ UNCHANGED <<vars, others, train, boots, selected_slot, downlink, uplink>>
        /\ s_sync' = s_sync \/ s_sync' = "none"
    BY <1>2, ScannerQuiet DEF sky, queues, known, vars, flash
  <2> QED
    BY <2>1, Dropping DEF Synced
<1>3. CASE ScannerReboot
  BY <1>3, ScannerReboots, Dropping DEF queues, Synced
<1>4. CASE ScannerScanRecv
  <2>1. UNCHANGED <<vars, others, uplink>> /\ downlink' = <<>> /\ s_sync' = "pending"
    BY <1>4 DEF ScannerScanRecv, S!scan_recv_cb
  <2> QED
    BY <2>1, Dropping DEF Synced
<1>5. CASE ScannerRecv /\ uplink' = uplink
  <2>1. /\ downlink # <<>> /\ downlink' = Tail(downlink) /\ Synced
        /\ UNCHANGED <<vars, others, selected_slot>>
    BY <1>5, ScannerReceives DEF Synced
  <2> QED
    BY <1>5, <2>1, Dropping
<1>6. CASE UNCHANGED sysvars
  <2>1. UNCHANGED <<vars, others, s_sync, train, boots, selected_slot, downlink, uplink>>
    BY <1>6 DEF sysvars, sky, queues, known, scanner, vars, flash
  <2> QED
    BY <2>1, Dropping DEF Synced
<1> QED
  BY <1>1, <1>2, <1>3, <1>4, <1>5, <1>6 DEF Silent

LEMMA NextLine ==
    ASSUME RespInv, SysInv', [SysNext]_sysvars PROVE LineInv'
<1>0. /\ SysInv /\ RollInv /\ LineInv /\ SysTypeOK /\ AdvInv /\ TypeOK
      /\ SubeventCounter \in Nat /\ others \in Nat
  BY SubeventCounterType DEF RespInv, SysInv, SysTypeOK, AdvInv
<1>1. Grows \/ HardReset
  BY <1>0, AdvInvNext
<1>2. boots \in Nat /\ (HardReset => boots' # boots)
  BY <1>0 DEF TypeOK, HardReset, Reboot
<1>3. CASE AdvMain
  <2>1. UNCHANGED <<downlink, uplink, others, s_sync, train, selected_slot>>
    BY <1>3 DEF AdvMain, sky, queues, scanner, known
  <2>2. ASSUME NEW value, InitCounter(value) PROVE LineInv'
    <3>1. Msgs(downlink)' = {} /\ Msgs(uplink)' = {}
      BY <1>0, <2>1, <2>2, NothingUnderWay DEF InitCounter, Msgs
    <3> QED
      BY <3>1, NothingLine
  <2>3. CASE InitPeriodicAdv \/ InitExtendedAdv
    <3>1. UNCHANGED <<counter, rollover, boots>>
      BY <2>3 DEF InitPeriodicAdv, InitExtendedAdv, count, flash
    <3>2. SubeventCounter <= SubeventCounter' /\ (Synced' <=> Synced)
      BY <1>0, <2>1, <3>1 DEF SubeventCounter, Synced
    <3> QED
      BY <1>0, <2>1, <3>1, <3>2, Dropping, LineFrame
  <2> QED
    BY <1>0, <1>3, <2>2, <2>3, CalmMain DEF AdvMain, AdvInv
<1>4. CASE AdvReset
  <2>1. Msgs(downlink)' = {} /\ Msgs(uplink)' = {}
    BY <1>4 DEF AdvReset, Msgs
  <2> QED
    BY <2>1, NothingLine
<1>5. CASE AdvFill \/ AdvPublish(FALSE)
  <2>1. UNCHANGED <<downlink, uplink, others, s_sync, train, selected_slot, counter, boots>>
    BY <1>5 DEF AdvFill, AdvPublish, RequestSubevent, RequestSlot, RequestPublish,
                sky, queues, scanner, known, count, flash
  <2>2. SubeventCounter <= SubeventCounter'
    BY <1>1, <1>2, <2>1 DEF Grows
  <2>3. Synced' <=> Synced
    BY <2>1 DEF Synced
  <2> QED
    BY <1>0, <2>1, <2>2, <2>3, Dropping, LineFrame
<1>6. CASE AdvRequest \/ AdvPublish(TRUE) \/ ScannerSync
  BY <1>0, <1>6, RequestLine, PublishLine, SyncLine
<1>7. CASE AdvResponse
  <2>1. boots' = boots
    BY <1>0, <1>7, ResponseCounts DEF AdvResponse
  <2> QED
    BY <1>0, <1>1, <1>2, <1>7, <2>1, ResponseLine DEF Grows
<1>8. CASE OtherResponse
  <2>1. others' = others + 1 /\ downlink' = downlink
    BY <1>8 DEF OtherResponse
  <2>2. others' # 0
    BY <1>0, <2>1
  <2>3. DownOrderInv'
    BY <1>0, <2>1 DEF LineInv, DownOrderInv
  <2> QED
    BY <2>2, <2>3 DEF LineInv, UpOrderInv, EventInv, WindowInv
<1>9. CASE ScannerRecv /\ uplink' # uplink
  BY <1>0, <1>9, AnswerLine
<1>10. CASE Silent
  <2>1. /\ UNCHANGED <<vars, others>> /\ DownDrops /\ UpDrops
        /\ Synced' => Synced /\ selected_slot' = selected_slot
    BY <1>0, <1>10, SilentKeeps
  <2>2. UNCHANGED <<counter, rollover>>
    BY <2>1 DEF vars, count
  <2>3. SubeventCounter <= SubeventCounter'
    BY <1>0, <2>2 DEF SubeventCounter
  <2> QED
    BY <1>0, <2>1, <2>2, <2>3, LineFrame
<1> QED
  BY <1>3, <1>4, <1>5, <1>6, <1>7, <1>8, <1>9, <1>10 DEF SysNext, Silent

LEMMA InitRespInv == SysInit => RespInv
<1> SUFFICES ASSUME SysInit PROVE RespInv
  OBVIOUS
<1>1. RollInv
  BY DEF SysInit, Init, RollInv
<1>2. DOMAIN downlink = {} /\ DOMAIN uplink = {} /\ Msgs(downlink) = {} /\ Msgs(uplink) = {}
  BY DEF SysInit, Msgs
<1>3. LineInv
  BY <1>2 DEF LineInv, DownOrderInv, UpOrderInv, EventInv, WindowInv, Heard
<1> QED
  BY <1>1, <1>3, InitSysInv DEF RespInv

LEMMA NextRespInv == RespInv /\ [SysNext]_sysvars => RespInv'
<1> SUFFICES ASSUME RespInv, [SysNext]_sysvars PROVE RespInv'
  OBVIOUS
<1>1. RollInv'
  BY AdvertiserNext, NextRollInv DEF RespInv, SysInv, AdvInv
<1>2. SysInv'
  BY NextSysInv DEF RespInv
<1> QED
  BY <1>1, <1>2, NextLine DEF RespInv

LEMMA WindowAccepts == RespInv => ResponsesAccepted
<1> SUFFICES ASSUME RespInv, others = 0, NEW r \in Msgs(uplink), r.slack >= 0
             PROVE  Verified(r.counter)
  BY DEF ResponsesAccepted
<1>1. r.counter \in Nat /\ r.slack \in Int /\ counter \in Nat
  BY UnderWayType DEF RespInv, SysInv, AdvInv, TypeOK
<1>2. InWindow(r)
  BY DEF RespInv, LineInv, WindowInv
<1>3. counter <= r.counter
  BY <1>1, <1>2 DEF InWindow
<1> QED
  BY <1>1, <1>3 DEF Verified, verify_message

\* As long as no other device answers, response_cb never takes a response that is in
\* time for a replay, however data and responses are lost, whoever is reset, and
\* however many requests pass between the data and the response to it.
THEOREM ResponsesVerified == SysSpec => []ResponsesAccepted
  BY InitRespInv, NextRespInv, WindowAccepts, PTL DEF SysSpec
-----------------------------------------------------------------------------
(* The slots that are acked.                                               *)

LateInv ==
    others = 0 => \A x \in Msgs(downlink) \cup Msgs(uplink) : x.slack >= -MaxLate

\* request_cb has still to age slot r of subevent s in this event.
Unaged(s, r) ==
    IF rx = "slots" THEN s > subevent \/ (s = subevent /\ r >= j)
                    ELSE subevent # 0 /\ s >= subevent
Pending(s, r) == IF Unaged(s, r) THEN 1 ELSE 0

\* A slot that was acked in m belongs to the scanner, and was silent in no more
\* events than began since m was filled.
HeldSlot(m, r) ==
    /\ rsp_slots[m.subevent][r].dev_id = ID
    /\ rsp_slots[m.subevent][r].inactive_for + Pending(m.subevent, r)
          <= 1 + rollover - m.slack

AckDataInv ==
    rx = "slots" => \A r \in RspSlots : r < j /\ ack_data[r] = ID =>
       /\ rsp_slots[subevent][r].dev_id = ID
       /\ rsp_slots[subevent][r].inactive_for = 1

HeldInv ==
    others = 0 =>
       /\ AckDataInv
       /\ \A m \in Msgs(downlink), r \in RspSlots : m.acks[r] = ID => HeldSlot(m, r)

LEMMA NextLate ==
    ASSUME RespInv, LateInv, [SysNext]_sysvars PROVE LateInv'
<1>0. /\ SysTypeOK /\ downlink \in Seq(DownMsg) /\ uplink \in Seq(UpMsg)
      /\ MaxLate \in Nat /\ rollover \in {0, 1} /\ others \in Nat
  BY SystemAssumption DEF RespInv, SysInv, SysTypeOK, RollInv
<1>1. ASSUME Msgs(downlink)' \subseteq Msgs(downlink), Msgs(uplink)' \subseteq Msgs(uplink)
      PROVE  others' = others => LateInv'
  BY <1>1 DEF LateInv
<1>2. CASE AdvMain \/ AdvFill \/ AdvPublish(FALSE) \/ ScannerSync
  <2>1. UNCHANGED <<downlink, uplink, others>>
    BY <1>2 DEF AdvMain, AdvFill, AdvPublish, ScannerSync, sky, queues
  <2> QED
    BY <1>1, <2>1 DEF Msgs
<1>3. CASE AdvReset
  <2>1. Msgs(downlink)' = {} /\ Msgs(uplink)' = {}
    BY <1>3 DEF AdvReset, Msgs
  <2> QED
    BY <2>1 DEF LateInv
<1>4. CASE AdvRequest
  <2>1. /\ downlink' = Later(downlink, rollover) /\ uplink' = Later(uplink, rollover)
        /\ \A x \in Msgs(downlink) \cup Msgs(uplink) : x.slack - rollover >= -MaxLate
        /\ others' = others
    BY <1>4 DEF AdvRequest
  <2>2. /\ \A x \in Msgs(downlink)' : \E o \in Msgs(downlink) : x.slack = o.slack - rollover
        /\ \A x \in Msgs(uplink)' : \E o \in Msgs(uplink) : x.slack = o.slack - rollover
    <3>1. /\ DOMAIN downlink' = DOMAIN downlink /\ DOMAIN uplink' = DOMAIN uplink
          /\ \A i \in DOMAIN downlink : downlink'[i].slack = downlink[i].slack - rollover
          /\ \A i \in DOMAIN uplink : uplink'[i].slack = uplink[i].slack - rollover
      BY <1>0, <2>1, LaterMsgs
    <3> QED
      BY <3>1 DEF Msgs
  <2> QED
    BY <2>1, <2>2 DEF LateInv
<1>5. CASE AdvPublish(TRUE)
  <2>1. /\ RequestPublish(TRUE) /\ downlink' = Append(downlink, Published)
        /\ UNCHANGED <<uplink, others>>
    BY <1>5 DEF AdvPublish, Published
  <2>2. Published \in DownMsg /\ Published.slack = rollover
    BY <2>1, PublishedIsNewest DEF RespInv, SysInv, Published
  <2>3. Msgs(downlink)' = Msgs(Append(downlink, Published)) /\ Msgs(uplink)' = Msgs(uplink)
    BY <2>1 DEF Msgs
  <2>4. Msgs(downlink)' = Msgs(downlink) \cup {Published}
    BY <1>0, <2>2, <2>3, MsgsAppend
  <2>5. Published.slack >= -MaxLate
    BY <1>0, <2>2
  <2> QED
    BY <2>1, <2>3, <2>4, <2>5 DEF LateInv
<1>6. CASE AdvResponse
  <2>1. UNCHANGED <<downlink, others>> /\ uplink # <<>> /\ uplink' = Tail(uplink)
    BY <1>6 DEF AdvResponse
  <2> QED
    BY <1>0, <1>1, <2>1, Dropping, DropMsgs
<1>7. CASE OtherResponse
  <2>1. others' # 0
    BY <1>0, <1>7 DEF OtherResponse
  <2> QED
    BY <2>1 DEF LateInv
<1>8. CASE ScannerRecv /\ uplink' # uplink
  <2>1. PICK m : m = Head(downlink)
    OBVIOUS
  <2>2. /\ downlink # <<>> /\ downlink' = Tail(downlink) /\ others' = others
        /\ uplink' = Append(uplink, Answer(m)) /\ m.subevent = selected_slot.subevent
    BY <1>0, <1>8, <2>1, ScannerReceives
  <2>3. m \in Msgs(downlink) /\ (others = 0 => m.slack >= -MaxLate)
    BY <1>0, <2>1, <2>2, MsgsTail DEF LateInv
  <2>4. Answer(m) \in UpMsg /\ Answer(m).slack = m.slack
    <3>1. m.subevent \in Subevents /\ m.counter \in Nat /\ m.slack \in Int
      BY <1>0, <2>3, UnderWayType
    <3>2. selected_slot \in AirSlots
      BY <1>0, <2>2, <3>1, SystemAssumption DEF SysTypeOK, Slots, AirSlots
    <3> QED
      BY <3>1, <3>2, IdIsADevice DEF Answer, UpMsg
  <2>5. Msgs(uplink)' = Msgs(uplink) \cup {Answer(m)}
    <3>1. Msgs(uplink)' = Msgs(Append(uplink, Answer(m)))
      BY <2>2 DEF Msgs
    <3> QED
      BY <1>0, <2>4, <3>1, MsgsAppend
  <2>6. Msgs(downlink)' \subseteq Msgs(downlink)
    BY <1>0, <2>2, Dropping, DropMsgs
  <2> QED
    BY <2>2, <2>3, <2>4, <2>5, <2>6 DEF LateInv
<1>9. CASE Silent
  BY <1>0, <1>1, <1>9, SilentKeeps, DropMsgs
<1> QED
  BY <1>2, <1>3, <1>4, <1>5, <1>6, <1>7, <1>8, <1>9 DEF SysNext, Silent

\* A step that moves no message and ages no slot.
LEMMA HeldFrame ==
    ASSUME TypeOK, SysTypeOK, HeldInv, UNCHANGED <<rsp_slots, rollover, others>>,
           Msgs(downlink)' \subseteq Msgs(downlink), others = 0 => AckDataInv',
           \A s \in Subevents, r \in RspSlots : Unaged(s, r)' => Unaged(s, r)
    PROVE  HeldInv'
<1> SUFFICES ASSUME others = 0, NEW m \in Msgs(downlink), NEW r \in RspSlots,
                    m.acks[r] = ID
             PROVE  HeldSlot(m, r)'
  BY DEF HeldInv
<1>1. HeldSlot(m, r)
  BY DEF HeldInv
<1>2. m.subevent \in Subevents /\ m.slack \in Int /\ rollover \in Nat
  BY UnderWayType DEF TypeOK
<1>3. rsp_slots[m.subevent][r].inactive_for \in Nat
  BY <1>2 DEF TypeOK, SlotData
<1>4. Unaged(m.subevent, r)' => Unaged(m.subevent, r)
  BY <1>2
<1>5. Pending(m.subevent, r)' \in {0, 1} /\ Pending(m.subevent, r)' <= Pending(m.subevent, r)
  BY <1>4 DEF Pending
<1>6. PICK n, p, q : /\ n = rsp_slots[m.subevent][r].inactive_for
                     /\ p = Pending(m.subevent, r) /\ q = Pending(m.subevent, r)'
  OBVIOUS
<1>7. n + q <= 1 + rollover - m.slack
  <2>1. p \in {0, 1}
    BY <1>6 DEF Pending
  <2>2. n + p <= 1 + rollover - m.slack
    BY <1>1, <1>6 DEF HeldSlot
  <2> QED
    BY <1>2, <1>3, <1>5, <1>6, <2>1, <2>2
<1> QED
  BY <1>1, <1>6, <1>7 DEF HeldSlot

LEMMA HeldRequest ==
    ASSUME TypeOK, SysTypeOK, HeldInv, AdvRequest PROVE HeldInv'
<1>0. rollover \in Int /\ rollover \in Nat
  BY DEF TypeOK
<1>1. /\ downlink' = Later(downlink, rollover) /\ UNCHANGED <<rsp_slots, others>>
      /\ rx = "idle" /\ rx' = "subevent" /\ subevent' = subevent /\ rollover' = 0
  BY DEF AdvRequest, RequestCb, InSequence, add_rollover, table
<1>2. AckDataInv'
  BY <1>1 DEF AckDataInv
<1> SUFFICES ASSUME others = 0, NEW m \in Msgs(downlink)', NEW r \in RspSlots,
                    m.acks[r] = ID
             PROVE  HeldSlot(m, r)'
  BY <1>1, <1>2 DEF HeldInv
<1>3. PICK o \in Msgs(downlink) :
         o.subevent = m.subevent /\ o.acks = m.acks /\ m.slack = o.slack - rollover
  <2>1. PICK i \in DOMAIN downlink' : m = downlink'[i]
    BY DEF Msgs
  <2>2. /\ i \in DOMAIN downlink /\ downlink'[i].subevent = downlink[i].subevent
        /\ downlink'[i].acks = downlink[i].acks
        /\ downlink'[i].slack = downlink[i].slack - rollover
    BY <1>0, <1>1, <2>1, LaterMsgs
  <2> QED
    BY <2>1, <2>2 DEF Msgs
<1>4. o.subevent \in Subevents /\ o.slack \in Int
  BY UnderWayType
<1>5. HeldSlot(o, r)
  BY <1>3 DEF HeldInv
<1>6. Pending(m.subevent, r)' = Pending(o.subevent, r)
  BY <1>1, <1>3 DEF Pending, Unaged
<1>7. 1 + rollover - o.slack = 1 + 0 - m.slack
  BY <1>0, <1>3, <1>4
<1> QED
  BY <1>1, <1>3, <1>5, <1>6, <1>7 DEF HeldSlot

\* Subevent 0 begins an event, in which every slot is to be aged.
LEMMA HeldSubevent ==
    ASSUME TypeOK, SysTypeOK, HeldInv, NEW ok, RequestSubevent(ok), UNCHANGED <<downlink, others>>
    PROVE  HeldInv'
<1>0. rollover \in Nat /\ subevent \in Nat /\ \A s \in Subevents : s \in Nat
  BY AdvertiserAssumption DEF TypeOK, Subevents
<1>1. /\ rx = "subevent" /\ rx' = "slots" /\ j' = 0
      /\ UNCHANGED <<subevent, rsp_slots>>
      /\ rollover' = IF subevent = 0 THEN rollover + 1 ELSE rollover
  BY DEF RequestSubevent, table
<1>2. \A r \in RspSlots : r \in Nat /\ ~(r < 0) /\ r >= 0
  BY AdvertiserAssumption DEF RspSlots
<1>3. AckDataInv'
  BY <1>1, <1>2 DEF AckDataInv
<1> SUFFICES ASSUME others = 0, NEW m \in Msgs(downlink), NEW r \in RspSlots,
                    m.acks[r] = ID
             PROVE  HeldSlot(m, r)'
  BY <1>3 DEF HeldInv, Msgs
<1>4. HeldSlot(m, r)
  BY DEF HeldInv
<1>5. m.subevent \in Subevents /\ m.subevent \in Nat /\ m.slack \in Int
  BY UnderWayType
<1>6. PICK n : n = rsp_slots[m.subevent][r].inactive_for
  OBVIOUS
<1>7. n \in Nat
  BY <1>5, <1>6 DEF TypeOK, SlotData
<1>8. CASE subevent = 0
  <2>1. Pending(m.subevent, r) = 0 /\ rollover' = rollover + 1
    BY <1>1, <1>8 DEF Pending, Unaged
  <2>2. Pending(m.subevent, r)' \in {0, 1}
    BY DEF Pending
  <2>3. n + 0 <= 1 + rollover - m.slack
    BY <1>4, <1>6, <2>1 DEF HeldSlot
  <2>4. n + Pending(m.subevent, r)' <= 1 + (rollover + 1) - m.slack
    BY <1>0, <1>5, <1>7, <2>2, <2>3
  <2> QED
    BY <1>1, <1>4, <1>6, <2>1, <2>4 DEF HeldSlot
<1>9. CASE subevent # 0
  <2>1. Unaged(m.subevent, r)' <=> Unaged(m.subevent, r)
    <3>1. Unaged(m.subevent, r)' <=> m.subevent >= subevent
      <4>1. Unaged(m.subevent, r)' <=>
               m.subevent > subevent \/ (m.subevent = subevent /\ r >= 0)
        BY <1>1 DEF Unaged
      <4> QED
        BY <1>0, <1>2, <1>5, <4>1
    <3>2. Unaged(m.subevent, r) <=> m.subevent >= subevent
      BY <1>1, <1>9 DEF Unaged
    <3> QED
      BY <3>1, <3>2
  <2>2. Pending(m.subevent, r)' = Pending(m.subevent, r)
    BY <2>1 DEF Pending
  <2> QED
    BY <1>1, <1>4, <1>9, <2>2 DEF HeldSlot
<1> QED
  BY <1>8, <1>9

\* A slot that was heard in the last event does not time out.
LEMMA HeldAges ==
    ASSUME NEW sd \in SlotData, sd.inactive_for <= 1
    PROVE  /\ AgedSlot(sd).dev_id = sd.dev_id
           /\ AgedSlot(sd).inactive_for = sd.inactive_for + 1
<1>1. /\ sd.inactive_for \in Nat /\ EVENTS_PER_BLOCK \in Nat \ {0}
      /\ U8 \in Nat /\ 3 * EVENTS_PER_BLOCK + 1 < U8
  BY AdvertiserAssumption DEF SlotData
<1>2. sd.inactive_for + 1 < U8 /\ sd.inactive_for + 1 <= 3 * EVENTS_PER_BLOCK
  BY <1>1
<1>3. Older(sd) = sd.inactive_for + 1
  BY <1>1, <1>2 DEF Older
<1>4. ~TimesOut(sd)
  BY <1>1, <1>2, <1>3 DEF TimesOut
<1> QED
  BY <1>3, <1>4 DEF AgedSlot, SlotData

LEMMA HeldRequestSlot ==
    ASSUME TypeOK, SysTypeOK, RollInv, LateInv, HeldInv, MaxLate = 0,
           RequestSlot, UNCHANGED <<downlink, others>>
    PROVE  HeldInv'
<1> SUFFICES ASSUME others = 0
             PROVE  /\ AckDataInv'
                    /\ \A m \in Msgs(downlink)', r \in RspSlots : m.acks[r] = ID => HeldSlot(m, r)'
  BY DEF HeldInv
<1>1. PICK sd : sd = rsp_slots[subevent][j]
  OBVIOUS
<1>2. /\ rx = "slots" /\ rx' = "slots" /\ j < NUM_RSP_SLOTS /\ j' = j + 1
      /\ UNCHANGED <<subevent, rollover>>
      /\ rsp_slots' = [rsp_slots EXCEPT ![subevent][j] = AgedSlot(sd)]
      /\ ack_data' = [ack_data EXCEPT ![j] = AckFor(AgedSlot(sd))]
  BY <1>1 DEF RequestSlot, count
<1>3. /\ subevent \in Subevents /\ subevent \in Nat /\ j \in Nat /\ j \in RspSlots
      /\ sd \in SlotData /\ rollover \in {0, 1}
      /\ rsp_slots \in [Subevents -> [RspSlots -> SlotData]]
      /\ ack_data \in [RspSlots -> DevIds]
  BY <1>1, <1>2, AdvertiserAssumption DEF TypeOK, RspSlots, Subevents, RollInv
<1>4. /\ rsp_slots'[subevent][j] = AgedSlot(sd) /\ ack_data'[j] = AckFor(AgedSlot(sd))
      /\ \A s \in Subevents, r \in RspSlots :
            s # subevent \/ r # j => rsp_slots'[s][r] = rsp_slots[s][r]
      /\ \A r \in RspSlots : r # j => ack_data'[r] = ack_data[r]
  BY <1>2, <1>3
<1>5. AckDataInv'
  <2> SUFFICES ASSUME NEW r \in RspSlots, r < j + 1, ack_data'[r] = ID
               PROVE  /\ rsp_slots'[subevent][r].dev_id = ID
                      /\ rsp_slots'[subevent][r].inactive_for = 1
    BY <1>2 DEF AckDataInv
  <2>1. CASE r = j
    <3>1. AckFor(AgedSlot(sd)) = ID
      BY <1>4, <2>1
    <3>2. AgedSlot(sd).inactive_for = 1 /\ AgedSlot(sd).dev_id = ID
      BY <3>1, IdIsADevice DEF AckFor
    <3> QED
      BY <1>4, <2>1, <3>2
  <2>2. CASE r # j
    <3>1. r < j
      BY <1>3, <2>2 DEF RspSlots
    <3>2. ack_data[r] = ID
      BY <1>4, <2>2
    <3> QED
      BY <1>2, <1>3, <1>4, <2>2, <3>1, <3>2 DEF HeldInv, AckDataInv
  <2> QED
    BY <2>1, <2>2
<1>6. ASSUME NEW m \in Msgs(downlink), NEW r \in RspSlots, m.acks[r] = ID
      PROVE  HeldSlot(m, r)'
  <2>1. HeldSlot(m, r)
    BY <1>6 DEF HeldInv
  <2>2. /\ m.subevent \in Subevents /\ m.subevent \in Nat /\ m.slack \in Int /\ m.slack >= 0
        /\ r \in Nat
    BY UnderWayType, AdvertiserAssumption DEF LateInv, RspSlots
  <2>3. PICK n : n = rsp_slots[m.subevent][r].inactive_for
    OBVIOUS
  <2>4. n \in Nat
    <3>1. rsp_slots[m.subevent][r] \in SlotData
      BY <1>3, <2>2
    <3> QED
      BY <2>3, <3>1 DEF SlotData
  <2>5. CASE m.subevent = subevent /\ r = j
    <3>1. Pending(m.subevent, r) = 1
      <4>1. Unaged(m.subevent, r)
        BY <1>2, <1>3, <2>5 DEF Unaged
      <4> QED
        BY <4>1 DEF Pending
    <3>2. Pending(m.subevent, r)' = 0
      <4>1. Unaged(m.subevent, r)' <=> subevent > subevent \/ j >= j + 1
        BY <1>2, <2>5 DEF Unaged
      <4>2. ~Unaged(m.subevent, r)'
        BY <1>3, <4>1
      <4> QED
        BY <4>2 DEF Pending
    <3>3. n + 1 <= 1 + rollover - m.slack /\ sd.inactive_for = n /\ sd.dev_id = ID
      BY <1>1, <2>1, <2>3, <2>5, <3>1 DEF HeldSlot
    <3>4. n <= 1
      BY <1>3, <2>2, <2>4, <3>3
    <3>5. AgedSlot(sd).dev_id = ID /\ AgedSlot(sd).inactive_for = n + 1
      BY <1>3, <3>3, <3>4, HeldAges
    <3>6. n + 1 + 0 <= 1 + rollover - m.slack
      BY <2>4, <3>3
    <3> QED
      BY <1>2, <1>4, <2>5, <3>2, <3>5, <3>6 DEF HeldSlot
  <2>6. CASE ~(m.subevent = subevent /\ r = j)
    <3>1. rsp_slots'[m.subevent][r] = rsp_slots[m.subevent][r]
      BY <1>4, <2>2, <2>6
    <3>2. Unaged(m.subevent, r)' <=> Unaged(m.subevent, r)
      <4>1. m.subevent = subevent => (r >= j + 1 <=> r >= j)
        BY <1>3, <2>2, <2>6
      <4> QED
        BY <1>2, <4>1 DEF Unaged
    <3>3. Pending(m.subevent, r)' = Pending(m.subevent, r)
      BY <3>2 DEF Pending
    <3> QED
      BY <1>2, <2>1, <3>1, <3>3 DEF HeldSlot
  <2> QED
    BY <2>5, <2>6
<1>7. Msgs(downlink)' = Msgs(downlink)
  BY DEF Msgs
<1> QED
  BY <1>5, <1>6, <1>7

LEMMA HeldPublish ==
    ASSUME RespInv, HeldInv, NEW ok \in BOOLEAN, AdvPublish(ok)
    PROVE  HeldInv'
<1>0. /\ TypeOK /\ SysTypeOK /\ downlink \in Seq(DownMsg) /\ subevent \in Nat
      /\ subevent < MAX_NUM_SUBEVENTS /\ MAX_NUM_SUBEVENTS \in Nat \ {0}
      /\ rollover \in {0, 1}
  BY AdvertiserAssumption DEF RespInv, SysInv, AdvInv, SysTypeOK, TypeOK, Subevents, RollInv
<1>1. /\ RequestPublish(ok) /\ UNCHANGED <<rsp_slots, rollover, others>>
      /\ rx = "slots" /\ rx' # "slots"
      /\ subevent' = (subevent + 1) % MAX_NUM_SUBEVENTS
      /\ j = NUM_RSP_SLOTS
  BY DEF AdvPublish, RequestPublish, table, count
<1>2. AckDataInv'
  BY <1>1 DEF AckDataInv
<1>3. ASSUME NEW s \in Subevents, NEW r \in RspSlots, Unaged(s, r)'
      PROVE  Unaged(s, r) /\ s # subevent
  <2>1. subevent' # 0 /\ s >= subevent'
    BY <1>1, <1>3 DEF Unaged
  <2>2. s \in Nat
    BY AdvertiserAssumption DEF Subevents
  <2>3. subevent' = 0 \/ subevent' = subevent + 1
    <3>1. subevent + 1 < MAX_NUM_SUBEVENTS \/ subevent + 1 = MAX_NUM_SUBEVENTS
      BY <1>0
    <3> QED
      BY <1>0, <1>1, <3>1
  <2>4. s >= subevent + 1
    BY <2>1, <2>3, Zenon
  <2>5. s > subevent
    BY <1>0, <2>2, <2>4
  <2> QED
    BY <1>0, <1>1, <2>2, <2>5 DEF Unaged
<1>4. CASE ~ok
  <2>1. Msgs(downlink)' \subseteq Msgs(downlink)
    BY <1>4 DEF AdvPublish, Msgs
  <2> QED
    BY <1>0, <1>1, <1>2, <1>3, <2>1, HeldFrame
<1>5. CASE ok
  <2>1. RequestPublish(TRUE) /\ downlink' = Append(downlink, Published)
    BY <1>1, <1>5 DEF AdvPublish, Published
  <2>2. /\ Published \in DownMsg /\ Published.acks = ack_data /\ Published.slack = rollover
        /\ Published.subevent = subevent /\ subevent \in Subevents
    BY <2>1, PublishedIsNewest DEF Published, RespInv, SysInv
  <2>3. Msgs(downlink)' = Msgs(downlink) \cup {Published}
    <3>1. Msgs(downlink)' = Msgs(Append(downlink, Published))
      BY <2>1 DEF Msgs
    <3> QED
      BY <1>0, <2>2, <3>1, MsgsAppend
  <2> SUFFICES ASSUME others = 0, NEW m \in Msgs(downlink)', NEW r \in RspSlots,
                      m.acks[r] = ID
               PROVE  HeldSlot(m, r)'
    BY <1>1, <1>2 DEF HeldInv
  <2>4. CASE m \in Msgs(downlink)
    <3>1. HeldSlot(m, r)
      BY <2>4 DEF HeldInv
    <3>2. m.subevent \in Subevents /\ m.slack \in Int
      BY <1>0, <2>4, UnderWayType
    <3>3. PICK n, p, q : /\ n = rsp_slots[m.subevent][r].inactive_for
                         /\ p = Pending(m.subevent, r) /\ q = Pending(m.subevent, r)'
      OBVIOUS
    <3>4. n \in Nat
      <4>1. rsp_slots \in [Subevents -> [RspSlots -> SlotData]]
        BY <1>0 DEF TypeOK
      <4>2. rsp_slots[m.subevent][r] \in SlotData
        BY <3>2, <4>1
      <4> QED
        BY <3>3, <4>2, AdvertiserAssumption DEF SlotData
    <3>5. p \in {0, 1} /\ q \in {0, 1} /\ q <= p
      <4>1. Unaged(m.subevent, r)' => Unaged(m.subevent, r)
        BY <1>3, <3>2
      <4> QED
        BY <3>3, <4>1 DEF Pending
    <3>6. n + p <= 1 + rollover - m.slack
      BY <3>1, <3>3 DEF HeldSlot
    <3>7. n + q <= 1 + rollover - m.slack
      BY <1>0, <3>2, <3>4, <3>5, <3>6
    <3> QED
      BY <1>1, <3>1, <3>3, <3>7 DEF HeldSlot
  <2>5. CASE m = Published
    <3>1. m.subevent = subevent /\ m.slack = rollover /\ ack_data[r] = ID
      BY <2>2, <2>5
    <3>2. r < j
      BY <1>1, AdvertiserAssumption DEF RspSlots
    <3>3. rsp_slots[subevent][r].dev_id = ID /\ rsp_slots[subevent][r].inactive_for = 1
      BY <1>1, <3>1, <3>2 DEF HeldInv, AckDataInv
    <3>4. Pending(m.subevent, r)' = 0
      BY <1>3, <2>2, <3>1 DEF Pending
    <3>5. 1 + 0 <= 1 + rollover - rollover
      BY <1>0
    <3> QED
      BY <1>1, <3>1, <3>3, <3>4, <3>5 DEF HeldSlot
  <2> QED
    BY <2>3, <2>4, <2>5
<1> QED
  BY <1>4, <1>5

\* A response in time is verified: it takes the slot or keeps it alive.
LEMMA HeldResponse ==
    ASSUME RespInv, LateInv, HeldInv, MaxLate = 0, "bad_mac" \notin Env, AdvResponse
    PROVE  HeldInv'
<1>0. TypeOK /\ SysTypeOK /\ uplink \in Seq(UpMsg)
  BY DEF RespInv, SysInv, AdvInv, SysTypeOK
<1>1. uplink # <<>> /\ UNCHANGED <<downlink, others>>
  BY DEF AdvResponse
<1>2. PICK h : h = Head(uplink)
  OBVIOUS
<1>3. /\ h \in Msgs(uplink)
      /\ h.slot.subevent \in Subevents /\ h.slot.rsp_slot \in RspSlots
      /\ h.slack \in Int /\ h.counter \in Nat
  <2>1. h \in Msgs(uplink)
    BY <1>0, <1>1, <1>2, MsgsTail
  <2> QED
    BY <1>0, <2>1, UnderWayType
<1> SUFFICES ASSUME others = 0 PROVE HeldInv'
  BY <1>1 DEF HeldInv
<1>4. h.dev = ID /\ ResponseCb(ID, h.slot, h.counter)
  <2>1. h.dev = ID
    BY <1>3 DEF RespInv, LineInv, UpOrderInv
  <2> QED
    BY <1>2, <2>1 DEF AdvResponse
<1>5. Verified(h.counter)
  <2>1. h.slack >= 0
    BY <1>3 DEF LateInv
  <2> QED
    BY <1>3, <2>1, WindowAccepts DEF ResponsesAccepted
<1>6. UNCHANGED <<rx, j, subevent, ack_data, rollover>> /\ rx = "idle"
  BY <1>4 DEF ResponseCb, ResponseVerified, ResponseRejected, ResponseRegisters, ResponseInOwnedSlot,
              Responds, loop, count
<1>7. PICK sd : sd = rsp_slots[h.slot.subevent][h.slot.rsp_slot]
  OBVIOUS
<1>8. sd \in SlotData /\ rsp_slots \in [Subevents -> [RspSlots -> SlotData]]
  BY <1>0, <1>3, <1>7 DEF TypeOK
<1>9. \E new \in SlotData :
         /\ rsp_slots' = [rsp_slots EXCEPT ![h.slot.subevent][h.slot.rsp_slot] = new]
         /\ sd.dev_id = ID => new.dev_id = ID /\ new.inactive_for = 0
  <2>1. ASSUME ResponseRejected(h.slot, h.counter) PROVE FALSE
    BY <1>5, <2>1 DEF ResponseRejected
  <2>2. ASSUME NEW ok1, NEW ok2, ResponseRegisters(ID, h.slot, h.counter, ok1, ok2)
        PROVE  \E new \in SlotData :
                  /\ rsp_slots' = [rsp_slots EXCEPT ![h.slot.subevent][h.slot.rsp_slot] = new]
                  /\ sd.dev_id = ID => new.dev_id = ID /\ new.inactive_for = 0
    <3>1. rsp_slots' = [rsp_slots EXCEPT ![h.slot.subevent][h.slot.rsp_slot] =
                          [dev_id |-> ID, inactive_for |-> 0]]
      BY <2>2 DEF ResponseRegisters
    <3>2. [dev_id |-> ID, inactive_for |-> 0] \in SlotData
      BY IdIsADevice, AdvertiserAssumption DEF SlotData, DevIds
    <3> QED
      BY <3>1, <3>2
  <2>3. ASSUME NEW ok, ResponseInOwnedSlot(ID, h.slot, h.counter, ok)
        PROVE  \E new \in SlotData :
                  /\ rsp_slots' = [rsp_slots EXCEPT ![h.slot.subevent][h.slot.rsp_slot] = new]
                  /\ sd.dev_id = ID => new.dev_id = ID /\ new.inactive_for = 0
    <3>1. rsp_slots' = [rsp_slots EXCEPT ![h.slot.subevent][h.slot.rsp_slot] = Refreshed(sd, ID)]
      BY <1>7, <2>3 DEF ResponseInOwnedSlot
    <3>2. /\ Refreshed(sd, ID) \in SlotData
          /\ sd.dev_id = ID => /\ Refreshed(sd, ID).dev_id = ID
                               /\ Refreshed(sd, ID).inactive_for = 0
      BY <1>8, AdvertiserAssumption DEF Refreshed, SlotData
    <3> QED
      BY <3>1, <3>2
  <2> QED
    BY <1>4, <2>1, <2>2, <2>3 DEF ResponseCb, ResponseVerified
<1>10. PICK new \in SlotData :
         /\ rsp_slots' = [rsp_slots EXCEPT ![h.slot.subevent][h.slot.rsp_slot] = new]
         /\ sd.dev_id = ID => new.dev_id = ID /\ new.inactive_for = 0
  BY <1>9
<1>11. ASSUME NEW m \in Msgs(downlink), NEW r \in RspSlots, m.acks[r] = ID
       PROVE  HeldSlot(m, r)'
  <2>1. HeldSlot(m, r)
    BY <1>11 DEF HeldInv
  <2>2. m.subevent \in Subevents
    BY <1>0, UnderWayType
  <2>3. Pending(m.subevent, r)' = Pending(m.subevent, r)
    BY <1>6 DEF Pending, Unaged
  <2>4. CASE m.subevent = h.slot.subevent /\ r = h.slot.rsp_slot
    <3>1. sd.dev_id = ID
      BY <1>7, <2>1, <2>4 DEF HeldSlot
    <3>2. rsp_slots'[m.subevent][r] = new /\ new.dev_id = ID /\ new.inactive_for = 0
      BY <1>3, <1>8, <1>10, <2>4, <3>1
    <3>3. PICK n, p : n = sd.inactive_for /\ p = Pending(m.subevent, r)
      OBVIOUS
    <3>4. n \in Nat /\ p \in {0, 1} /\ rollover \in Nat /\ m.slack \in Int
      <4>1. n \in Nat
        BY <1>8, <3>3, AdvertiserAssumption DEF SlotData
      <4>2. p \in {0, 1}
        BY <3>3 DEF Pending
      <4> QED
        BY <1>0, <4>1, <4>2, UnderWayType DEF TypeOK
    <3>5. n + p <= 1 + rollover - m.slack
      BY <1>7, <2>1, <2>4, <3>3 DEF HeldSlot
    <3>6. 0 + p <= 1 + rollover - m.slack
      BY <3>4, <3>5
    <3> QED
      BY <1>6, <2>3, <3>2, <3>3, <3>6 DEF HeldSlot
  <2>5. CASE ~(m.subevent = h.slot.subevent /\ r = h.slot.rsp_slot)
    <3>1. rsp_slots'[m.subevent][r] = rsp_slots[m.subevent][r]
      BY <1>3, <1>8, <1>10, <2>2, <2>5
    <3> QED
      BY <1>6, <2>1, <2>3, <3>1 DEF HeldSlot
  <2> QED
    BY <2>4, <2>5
<1>12. Msgs(downlink)' = Msgs(downlink) /\ AckDataInv'
  BY <1>1, <1>6 DEF Msgs, AckDataInv
<1> QED
  BY <1>11, <1>12 DEF HeldInv

LEMMA NextHeld ==
    ASSUME RespInv, LateInv, HeldInv, MaxLate = 0, "bad_mac" \notin Env, [SysNext]_sysvars
    PROVE  HeldInv'
<1>0. SysInv /\ TypeOK /\ SysTypeOK /\ RollInv /\ others \in Nat
  BY DEF RespInv, SysInv, AdvInv, SysTypeOK
<1>1. ASSUME UNCHANGED <<rsp_slots, loop, rollover, others>>,
             Msgs(downlink)' \subseteq Msgs(downlink)
      PROVE  HeldInv'
  <2>1. UNCHANGED <<rsp_slots, rx, subevent, j, ack_data>>
    BY <1>1 DEF loop
  <2>2. \A s \in Subevents, r \in RspSlots : Unaged(s, r)' => Unaged(s, r)
    BY <2>1 DEF Unaged
  <2>3. others = 0 => AckDataInv'
    BY <2>1 DEF HeldInv, AckDataInv
  <2> QED
    BY <1>0, <1>1, <2>2, <2>3, HeldFrame
<1>2. CASE AdvMain
  <2>1. UNCHANGED <<rsp_slots, loop, rollover, downlink, others>>
    BY <1>2, CalmMain
    DEF AdvMain, RespInv, SysInv, AdvInv, InitCounter, InitPeriodicAdv, InitExtendedAdv,
        table, count, sky, queues
  <2> QED
    BY <1>1, <2>1 DEF Msgs
<1>3. CASE AdvReset
  <2>1. downlink' = <<>> /\ rx' = "idle"
    BY <1>3 DEF AdvReset, HardReset, Reboot
  <2>2. Msgs(downlink)' = {} /\ AckDataInv'
    BY <2>1 DEF Msgs, AckDataInv
  <2> QED
    BY <2>2 DEF HeldInv
<1>4. CASE AdvRequest
  BY <1>0, <1>4, HeldRequest
<1>5. CASE AdvFill
  <2>1. UNCHANGED <<downlink, others>>
    BY <1>5 DEF AdvFill, sky, queues
  <2> QED
    BY <1>0, <1>5, <2>1, HeldSubevent, HeldRequestSlot DEF AdvFill
<1>6. CASE \E ok \in BOOLEAN : AdvPublish(ok)
  BY <1>6, HeldPublish
<1>7. CASE AdvResponse
  BY <1>7, HeldResponse
<1>8. CASE OtherResponse
  <2>1. others' # 0
    BY <1>0, <1>8 DEF OtherResponse
  <2> QED
    BY <2>1 DEF HeldInv
<1>9. CASE ScannerSync \/ (ScannerRecv /\ uplink' # uplink)
  <2>1. UNCHANGED <<vars, others>> /\ Msgs(downlink)' \subseteq Msgs(downlink)
    <3>1. CASE ScannerSync
      BY <3>1 DEF ScannerSync, sky, queues, Msgs
    <3>2. CASE ScannerRecv
      BY <1>0, <3>2, ScannerReceives, Dropping, DropMsgs
    <3> QED
      BY <1>9, <3>1, <3>2
  <2> QED
    BY <1>1, <2>1 DEF vars, table, count
<1>10. CASE Silent
  <2>1. UNCHANGED <<vars, others>> /\ Msgs(downlink)' \subseteq Msgs(downlink)
    BY <1>0, <1>10, SilentKeeps, DropMsgs
  <2> QED
    BY <1>1, <2>1 DEF vars, table, count
<1> QED
  BY <1>2, <1>3, <1>4, <1>5, <1>6, <1>7, <1>8, <1>9, <1>10 DEF SysNext, Silent

\* Where no MAC fails and every message is in time, however many requests overlap it,
\* the slot that an ack names is still the scanner's when the ack arrives: request_cb,
\* which ages every slot, and response_cb, which frees the slot of a response it
\* rejects, do not take it away.
THEOREM AcksAreOwned ==
    ASSUME MaxLate = 0, "bad_mac" \notin Env
    PROVE  SysSpec => []AckMeansOwned
<1>1. SysInit => LateInv /\ HeldInv
  <2> SUFFICES ASSUME SysInit PROVE LateInv /\ HeldInv
    OBVIOUS
  <2>1. Msgs(downlink) = {} /\ Msgs(uplink) = {} /\ rx = "idle"
    BY DEF SysInit, Init, Msgs
  <2> QED
    BY <2>1 DEF LateInv, HeldInv, AckDataInv
<1>2. RespInv /\ LateInv /\ HeldInv /\ [SysNext]_sysvars => LateInv' /\ HeldInv'
  BY NextLate, NextHeld
<1>3. HeldInv => AckMeansOwned
  BY DEF HeldInv, HeldSlot, AckMeansOwned, Owner, Slot
<1> QED
  BY <1>1, <1>2, <1>3, InitRespInv, NextRespInv, PTL DEF SysSpec
=============================================================================
