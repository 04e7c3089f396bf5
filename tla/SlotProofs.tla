----------------------------- MODULE SlotProofs -----------------------------
(* Where the response slots are: none is in two places, none is lost, the  *)
(* frontier of reserve_slot stops one past the last subevent; and what     *)
(* devices see of them is SlotService.                                     *)
EXTENDS AdvertiserProofs, FiniteSetTheorems

\* Slots come back from subevents that exist; the reserved prefix stays behind
\* the frontier.
InTrain      == \A s \in Entries(free_list) \cup leaked : s.subevent \in Subevents
PastReserved == ~Reserved(last_used)

SlotsInv == OneHome /\ NoSlotLost /\ FrontierBounded /\ InTrain /\ PastReserved
-----------------------------------------------------------------------------
(* The frontier.                                                           *)

\* The slot after t in the order of reserve_slot.
After(t) == IF t.rsp_slot + 1 = NUM_RSP_SLOTS THEN Slot(t.subevent + 1, 0)
                                              ELSE Slot(t.subevent, t.rsp_slot + 1)

\* Between a slot and the one after it there is no other.
LEMMA AfterIsNext ==
    ASSUME NEW s \in Slots, NEW t \in Slots
    PROVE  Below(s, After(t)) <=> Below(s, t) \/ s = t
<1>1. /\ s.subevent \in Nat /\ t.subevent \in Nat
      /\ s.rsp_slot \in 0 .. NUM_RSP_SLOTS - 1 /\ t.rsp_slot \in 0 .. NUM_RSP_SLOTS - 1
  BY AdvertiserAssumption DEF Slots, RspSlots
<1>2. s = t <=> s.subevent = t.subevent /\ s.rsp_slot = t.rsp_slot
  BY DEF Slots
<1> QED
  BY <1>1, <1>2, AdvertiserAssumption DEF After, Below, Slot

\* The pigeonhole principle, for intervals.
LEMMA Pigeons ==
    ASSUME NEW k \in Nat, NEW n \in Nat, NEW f \in [0 .. k - 1 -> 0 .. n - 1],
           \A a, b \in 0 .. k - 1 : f[a] = f[b] => a = b
    PROVE  k <= n
<1> DEFINE K == 0 .. k - 1
           N == 0 .. n - 1
<1>1. IsFiniteSet(K) /\ Cardinality(K) = k
  <2>1. 0 \in Int /\ k - 1 \in Int
    OBVIOUS
  <2>2. IsFiniteSet(K) /\ Cardinality(K) = IF 0 > k - 1 THEN 0 ELSE k - 1 - 0 + 1
    BY <2>1, FS_Interval
  <2> QED
    BY <2>2
<1>2. IsFiniteSet(N) /\ Cardinality(N) = n
  <2>1. 0 \in Int /\ n - 1 \in Int
    OBVIOUS
  <2>2. IsFiniteSet(N) /\ Cardinality(N) = IF 0 > n - 1 THEN 0 ELSE n - 1 - 0 + 1
    BY <2>1, FS_Interval
  <2> QED
    BY <2>2
<1> SUFFICES ASSUME n < k PROVE FALSE
  OBVIOUS
<1>3. Cardinality(N) < Cardinality(K)
  BY <1>1, <1>2
<1>4. f \in [K -> N] /\ \A a, b \in K : f[a] = f[b] => a = b
  OBVIOUS
<1> HIDE DEF K, N
<1>5. \E x, y \in K : x # y /\ f[x] = f[y]
  <2>1. IsFiniteSet(K) /\ IsFiniteSet(N)
    BY <1>1, <1>2
  <2>2. f \in [K -> N]
    BY <1>4
  <2> QED
    BY ONLY <2>1, <2>2, <1>3, FS_PigeonHole
<1> QED
  BY <1>4, <1>5

\* Slots past the last subevent that were handed out are still register slots,
\* because nobody can answer in them: so there are at most NUM_REGISTER_SLOTS.
LEMMA FrontierRoom ==
    ASSUME TypeOK, SlotsInv, last_used.subevent = MAX_NUM_SUBEVENTS
    PROVE  last_used.rsp_slot <= NUM_REGISTER_SLOTS
<1> DEFINE k == last_used.rsp_slot
           M == MAX_NUM_SUBEVENTS
<1>1. k \in 0 .. NUM_RSP_SLOTS - 1 /\ M \in Nat \ {0} /\ M \in 0 .. U8 - 1 /\ M \notin Subevents
  BY AdvertiserAssumption DEF TypeOK, Slots, RspSlots, Subevents
<1>2. ASSUME NEW m \in 0 .. k - 1
      PROVE  \E i \in Regs : register_subevent_data[i] = Slot(M, m)
  <2> DEFINE s == Slot(M, m)
  <2>1. s \in Slots /\ s.subevent = M /\ s.rsp_slot = m
    BY <1>1, AdvertiserAssumption DEF Slot, Slots, RspSlots
  <2>2. HandedOut(s)
    BY <1>1, <2>1 DEF HandedOut, Below, Reserved
  <2>3. ~Owned(s) /\ s \notin Entries(free_list) \cup leaked
    BY <1>1, <2>1 DEF Owned, SlotsInv, InTrain
  <2>4. s \in RegisterSlots
    BY <2>1, <2>2, <2>3 DEF SlotsInv, NoSlotLost
  <2> QED
    BY <2>4 DEF RegisterSlots, Entries, TypeOK
<1> DEFINE f == [m \in 0 .. k - 1 |-> CHOOSE i \in Regs : register_subevent_data[i] = Slot(M, m)]
<1>3. f \in [0 .. k - 1 -> Regs]
      /\ \A m \in 0 .. k - 1 : register_subevent_data[f[m]] = Slot(M, m)
  BY <1>2
<1>4. \A a, b \in 0 .. k - 1 : f[a] = f[b] => a = b
  <2> HIDE DEF f
  <2>1. \A a, b \in 0 .. k - 1 : f[a] = f[b] => Slot(M, a) = Slot(M, b)
    BY <1>3
  <2> QED
    BY <2>1 DEF Slot
<1>5. k \in Nat /\ NUM_REGISTER_SLOTS \in Nat /\ f \in [0 .. k - 1 -> 0 .. NUM_REGISTER_SLOTS - 1]
  <2> HIDE DEF f
  <2>1. k \in Nat /\ NUM_REGISTER_SLOTS \in Nat
    BY <1>1, AdvertiserAssumption
  <2>2. f \in [0 .. k - 1 -> 0 .. NUM_REGISTER_SLOTS - 1]
    BY <1>3, Zenon DEF Regs
  <2> QED
    BY <2>1, <2>2
<1> HIDE DEF f, k
<1>6. k <= NUM_REGISTER_SLOTS
  BY <1>4, <1>5, Pigeons
<1> QED
  BY <1>6 DEF k
-----------------------------------------------------------------------------
(* What the operations do to the sets of slots.                            *)

\* free_slot puts the slot on the list or among the leaked ones.
LEMMA FreedEntries ==
    ASSUME TypeOK, NEW s \in Slots, free_slot(s)
    PROVE  /\ Entries(free_list') \subseteq Entries(free_list) \cup {s}
           /\ leaked' \subseteq leaked \cup {s}
           /\ Entries(free_list) \cup leaked \cup {s} \subseteq Entries(free_list') \cup leaked'
           /\ free_list' = free_list \/ leaked' = leaked
<1>1. CASE free_list_full(free_list)
  BY <1>1 DEF free_slot, free_list_append
<1>2. CASE ~free_list_full(free_list)
  <2>1. free_list' = Append(free_list, s) /\ leaked' = leaked
    BY <1>2 DEF free_slot, free_list_append
  <2>2. free_list \in Seq(Slots)
    BY DEF TypeOK
  <2>3. /\ Len(free_list') = Len(free_list) + 1
        /\ \A i \in 1 .. Len(free_list) : free_list'[i] = free_list[i]
        /\ free_list'[Len(free_list) + 1] = s
    BY <2>1, <2>2, AppendProperties
  <2>4. DOMAIN free_list = 1 .. Len(free_list) /\ DOMAIN free_list' = 1 .. Len(free_list) + 1
    BY <2>1, <2>2, <2>3
  <2>5. Len(free_list) \in Nat
    BY <2>2
  <2> QED
    BY <2>1, <2>3, <2>4, <2>5 DEF Entries
<1> QED
  BY <1>1, <1>2

\* A list without repetitions has none after a slot is added that is not on it, or
\* its last one is taken.
Distinct(list) == \A a, b \in DOMAIN list : list[a] = list[b] => a = b

LEMMA FreedDistinct ==
    ASSUME TypeOK, NEW s \in Slots, free_slot(s), s \notin Entries(free_list),
           Distinct(free_list)
    PROVE  Distinct(free_list')
<1> DEFINE n == Len(free_list)
<1>1. CASE free_list_full(free_list)
  BY <1>1 DEF free_slot, free_list_append
<1>2. CASE ~free_list_full(free_list)
  <2>1. free_list' = Append(free_list, s)
    BY <1>2 DEF free_slot, free_list_append
  <2>2. free_list \in Seq(Slots)
    BY DEF TypeOK
  <2>3. /\ n \in Nat /\ DOMAIN free_list = 1 .. n /\ DOMAIN free_list' = 1 .. n + 1
        /\ \A i \in 1 .. n : free_list'[i] = free_list[i]
        /\ free_list'[n + 1] = s
    BY <2>1, <2>2, AppendProperties
  <2> HIDE DEF n
  <2>4. \A i \in 1 .. n : free_list[i] # s
    BY <2>3 DEF Entries
  <2>5. \A i \in 1 .. n + 1 : i \in 1 .. n \/ i = n + 1
    BY <2>3
  <2> QED
    BY <2>3, <2>4, <2>5 DEF Distinct
<1> QED
  BY <1>1, <1>2

LEMMA PoppedDistinct ==
    ASSUME TypeOK, ~free_list_empty(free_list), Distinct(free_list)
    PROVE  Distinct(reserve_slot_list) /\ reserve_slot \notin Entries(reserve_slot_list)
<1> DEFINE n == Len(free_list)
           p == SubSeq(free_list, 1, n - 1)
<1>1. free_list \in Seq(Slots) /\ n \in Nat /\ n # 0 /\ DOMAIN free_list = 1 .. n
  BY DEF TypeOK, free_list_empty
<1>2. reserve_slot = free_list[n] /\ reserve_slot_list = p
  BY DEF reserve_slot, reserve_slot_list, free_list_top, free_list_pop
<1>3. DOMAIN p = 1 .. n - 1 /\ \A i \in 1 .. n - 1 : p[i] = free_list[i]
  BY <1>1
<1> HIDE DEF n, p
<1>4. n \in 1 .. n /\ \A i \in 1 .. n - 1 : i \in 1 .. n /\ i # n
  BY <1>1
<1> QED
  BY <1>1, <1>2, <1>3, <1>4 DEF Distinct, Entries

\* A slot that reserve_slot takes from the list is the only one that leaves it.
LEMMA PoppedEntries ==
    ASSUME TypeOK, ~free_list_empty(free_list)
    PROVE  /\ reserve_slot \in Entries(free_list)
           /\ Entries(reserve_slot_list) \subseteq Entries(free_list)
           /\ Entries(free_list) \subseteq Entries(reserve_slot_list) \cup {reserve_slot}
<1> DEFINE n == Len(free_list)
<1>1. free_list \in Seq(Slots) /\ n \in Nat /\ n # 0 /\ DOMAIN free_list = 1 .. n
  BY DEF TypeOK, free_list_empty
<1>2. reserve_slot = free_list[n] /\ reserve_slot_list = SubSeq(free_list, 1, n - 1)
  BY DEF reserve_slot, reserve_slot_list, free_list_top, free_list_pop
<1>3. /\ DOMAIN SubSeq(free_list, 1, n - 1) = 1 .. n - 1
      /\ \A i \in 1 .. n - 1 : SubSeq(free_list, 1, n - 1)[i] = free_list[i]
  BY <1>1
<1> DEFINE p == SubSeq(free_list, 1, n - 1)
<1>4. DOMAIN p = 1 .. n - 1 /\ \A i \in 1 .. n - 1 : p[i] = free_list[i]
  BY <1>3
<1> HIDE DEF n, p
<1>5. free_list[n] \in Entries(free_list) /\ Entries(p) \subseteq Entries(free_list)
  BY <1>1, <1>4 DEF Entries
<1>6. Entries(free_list) \subseteq Entries(p) \cup {free_list[n]}
  <2>1. \A i \in 1 .. n : i \in 1 .. n - 1 \/ i = n
    BY <1>1
  <2> QED
    BY <1>1, <1>4, <2>1 DEF Entries
<1>7. reserve_slot_list = p
  BY <1>2 DEF p
<1> QED
  BY <1>2, <1>5, <1>6, <1>7

\* Giving a slot an owner, or taking it away, leaves every other slot alone.
LEMMA OwnedUpdate ==
    ASSUME TypeOK, NEW x \in Subevents, NEW r \in RspSlots, NEW sd,
           rsp_slots' = [rsp_slots EXCEPT ![x][r] = sd]
    PROVE  \A t \in Slots :
              Owned(t)' <=> IF t = Slot(x, r) THEN sd.dev_id # NoDev ELSE Owned(t)
<1> SUFFICES ASSUME NEW t \in Slots
             PROVE  Owned(t)' <=> IF t = Slot(x, r) THEN sd.dev_id # NoDev ELSE Owned(t)
  OBVIOUS
<1>1. t.rsp_slot \in RspSlots /\ (t = Slot(x, r) <=> t.subevent = x /\ t.rsp_slot = r)
  BY DEF Slots, Slot
<1>2. CASE t.subevent \in Subevents
  <2>1. rsp_slots'[t.subevent][t.rsp_slot] =
           IF t.subevent = x /\ t.rsp_slot = r THEN sd ELSE rsp_slots[t.subevent][t.rsp_slot]
    BY <1>1, <1>2 DEF TypeOK
  <2> QED
    BY <1>1, <1>2, <2>1 DEF Owned, Owner
<1>3. CASE t.subevent \notin Subevents
  BY <1>1, <1>3 DEF Owned
<1> QED
  BY <1>2, <1>3

\* reserve_slot moves the frontier by one slot, without a wrap of its uint8_t.
LEMMA FrontierStep ==
    ASSUME TypeOK, SlotsInv, free_list_empty(free_list)
    PROVE  /\ reserve_slot = last_used
           /\ reserve_slot_last = After(last_used)
           /\ After(last_used).subevent <= MAX_NUM_SUBEVENTS
           /\ ~Reserved(After(last_used))
<1>1. /\ last_used.subevent \in 0 .. MAX_NUM_SUBEVENTS
      /\ last_used.rsp_slot \in 0 .. NUM_RSP_SLOTS - 1
  BY AdvertiserAssumption DEF TypeOK, Slots, RspSlots, SlotsInv, FrontierBounded
<1>2. (last_used.subevent + 1) % U8 = last_used.subevent + 1
  BY <1>1, NextModulo, AdvertiserAssumption
<1>3. reserve_slot = last_used /\ reserve_slot_last = After(last_used)
  BY <1>2 DEF reserve_slot, reserve_slot_last, After
<1>4. last_used.subevent = MAX_NUM_SUBEVENTS => last_used.rsp_slot + 1 < NUM_RSP_SLOTS
  BY <1>1, FrontierRoom, AdvertiserAssumption
<1>5. After(last_used).subevent <= MAX_NUM_SUBEVENTS
  BY <1>1, <1>4, AdvertiserAssumption DEF After, Slot
<1>6. ~Reserved(After(last_used))
  BY <1>1, AdvertiserAssumption DEF After, Slot, Reserved, SlotsInv, PastReserved
<1> QED
  BY <1>3, <1>5, <1>6
-----------------------------------------------------------------------------
(* The invariant is kept.                                                  *)

BootTable ==
    /\ last_used = BootLastUsed /\ register_subevent_data = BootRegisterData
    /\ free_list = <<>> /\ rsp_slots = BootRspSlots /\ leaked = {}

LEMMA BootSlots == BootTable => SlotsInv
<1> SUFFICES ASSUME BootTable PROVE SlotsInv
  OBVIOUS
<1> USE DEF BootTable
<1>1. Entries(free_list) = {}
  BY DEF Entries
<1>2. \A s \in Slots : ~Owned(s)
  BY DEF Owned, Owner, BootRspSlots, Slots
<1>3. \A s \in Slots : s \in RegisterSlots <=> HandedOut(s)
  <2> SUFFICES ASSUME NEW s \in Slots PROVE s \in RegisterSlots <=> HandedOut(s)
    OBVIOUS
  <2>1. /\ s.subevent \in Nat /\ s.rsp_slot \in Nat
        /\ \A r \in Nat : s = Slot(0, r) <=> s.subevent = 0 /\ s.rsp_slot = r
    BY AdvertiserAssumption DEF Slots, RspSlots, Slot
  <2>2. HandedOut(s) <=> s.subevent = 0 /\ s.rsp_slot >= NUM_REGISTER_SLOTS
                                        /\ s.rsp_slot < 2 * NUM_REGISTER_SLOTS
    BY <2>1, AdvertiserAssumption DEF HandedOut, Below, Reserved, BootLastUsed, Slot
  <2>3. s \in RegisterSlots <=> \E i \in Regs : s = Slot(0, NUM_REGISTER_SLOTS + i)
    BY DEF RegisterSlots, Entries, BootRegisterData
  <2>4. (\E i \in Regs : s = Slot(0, NUM_REGISTER_SLOTS + i)) <=> HandedOut(s)
    <3>1. ASSUME NEW i \in Regs, s = Slot(0, NUM_REGISTER_SLOTS + i) PROVE HandedOut(s)
      BY <2>1, <2>2, <3>1, AdvertiserAssumption DEF Regs
    <3>2. ASSUME HandedOut(s) PROVE \E i \in Regs : s = Slot(0, NUM_REGISTER_SLOTS + i)
      <4>1. s.rsp_slot - NUM_REGISTER_SLOTS \in Regs
        BY <2>1, <2>2, <3>2, AdvertiserAssumption DEF Regs
      <4>2. s = Slot(0, NUM_REGISTER_SLOTS + (s.rsp_slot - NUM_REGISTER_SLOTS))
        BY <2>1, <2>2, <3>2, AdvertiserAssumption
      <4> QED
        BY <4>1, <4>2
    <3> QED
      BY <3>1, <3>2
  <2> QED
    BY <2>3, <2>4
<1>4. FrontierBounded /\ PastReserved
  BY AdvertiserAssumption DEF FrontierBounded, PastReserved, Reserved, BootLastUsed, Slot
<1>5. InTrain
  BY <1>1 DEF InTrain
<1>6. NoRepeats
  <2>1. \A a, b \in Regs : NUM_REGISTER_SLOTS + a = NUM_REGISTER_SLOTS + b => a = b
    BY AdvertiserAssumption DEF Regs
  <2>2. \A a, b \in Regs : BootRegisterData[a] = BootRegisterData[b] => a = b
    BY <2>1 DEF BootRegisterData, Slot
  <2> QED
    BY <2>2 DEF NoRepeats
<1>7. \A s \in Slots : InOnePlace(s)
  BY <1>1, <1>2, <1>3 DEF InOnePlace
<1> QED
  BY <1>1, <1>2, <1>3, <1>4, <1>5, <1>6, <1>7 DEF SlotsInv, OneHome, NoSlotLost

LEMMA RebootSlots == Reboot => SlotsInv'
<1>1. Reboot => BootTable'
  BY DEF Reboot, BootTable
<1> QED
  BY <1>1, BootSlots, PTL

\* Steps that leave the slots where they are.
LEMMA SlotsFrame ==
    ASSUME SlotsInv,
           UNCHANGED <<last_used, register_subevent_data, free_list, leaked, strayed>>,
           \A t \in Slots : Owned(t)' <=> Owned(t)
    PROVE  SlotsInv'
<1>1. /\ RegisterSlots' = RegisterSlots /\ Entries(free_list)' = Entries(free_list)
      /\ \A t : HandedOut(t)' <=> HandedOut(t)
  BY DEF RegisterSlots, Entries, HandedOut, Below
<1>2. \A t \in Slots : InOnePlace(t)' <=> InOnePlace(t)
  BY <1>1 DEF InOnePlace
<1>3. OneHome'
  BY <1>2 DEF SlotsInv, OneHome, NoRepeats
<1> QED
  BY <1>1, <1>3 DEF SlotsInv, NoSlotLost, FrontierBounded, InTrain, PastReserved, Reserved

\* A slot is given back: by its owner's silence, or by a response that strays.
LEMMA FreedSlots ==
    ASSUME TypeOK, SlotsInv, UNCHANGED <<last_used, register_subevent_data>>,
           NEW s \in Slots, s.subevent \in Subevents, free_slot(s),
           \A t \in Slots : t # s => (Owned(t)' <=> Owned(t)),
           ~Owned(s)',
           strayed' \/ ((strayed' <=> strayed) /\ Owned(s))
    PROVE  SlotsInv'
<1>1. /\ RegisterSlots' = RegisterSlots
      /\ \A t : HandedOut(t)' <=> HandedOut(t)
  BY DEF RegisterSlots, Entries, HandedOut, Below
<1>2. /\ Entries(free_list)' \subseteq Entries(free_list) \cup {s}
      /\ leaked' \subseteq leaked \cup {s}
      /\ Entries(free_list) \cup leaked \cup {s} \subseteq Entries(free_list)' \cup leaked'
      /\ Entries(free_list)' = Entries(free_list) \/ leaked' = leaked
  BY FreedEntries DEF Entries
<1>3. ASSUME ~strayed' PROVE NoRepeats' /\ \A t \in Slots : InOnePlace(t)'
  <2>1. Owned(s) /\ NoRepeats /\ \A t \in Slots : InOnePlace(t)
    BY <1>3 DEF SlotsInv, OneHome
  <2>2. HandedOut(s) /\ s \notin RegisterSlots \cup Entries(free_list) \cup leaked
    BY <2>1 DEF InOnePlace
  <2>3. Distinct(free_list')
    BY <2>1, <2>2, FreedDistinct DEF NoRepeats, Distinct
  <2>4. NoRepeats'
    BY <2>1, <2>3 DEF NoRepeats, Distinct
  <2>5. ASSUME NEW t \in Slots PROVE InOnePlace(t)'
    <3>1. InOnePlace(t)
      BY <2>1
    <3>2. CASE t = s
      BY <1>1, <1>2, <2>2, <3>2 DEF InOnePlace
    <3>3. CASE t # s
      BY <1>1, <1>2, <3>1, <3>3 DEF InOnePlace
    <3> QED
      BY <3>2, <3>3
  <2> QED
    BY <2>4, <2>5
<1>4. OneHome'
  BY <1>3 DEF OneHome
<1>5. NoSlotLost'
  BY <1>1, <1>2 DEF SlotsInv, NoSlotLost
<1>6. InTrain'
  BY <1>2 DEF SlotsInv, InTrain
<1> QED
  BY <1>4, <1>5, <1>6 DEF SlotsInv, FrontierBounded, PastReserved, Reserved

\* The first matching register slot exists.
LEMMA LeastMatching ==
    ASSUME NEW S \in SUBSET Nat, S # {}
    PROVE  \E i \in S : \A m \in S : i <= m
<1> DEFINE R == OpToRel(<, Nat)
<1>1. \A a, b \in Nat : <<a, b>> \in R <=> a < b
  BY DEF OpToRel
<1>2. IsWellFoundedOn(R, Nat)
  BY NatLessThanWellFounded, Zenon
<1> HIDE DEF R
<1>3. PICK x \in S : \A y \in S : ~(<<y, x>> \in R)
  BY <1>2, WFMin
<1>4. x \in Nat /\ \A y \in S : y \in Nat /\ ~(y < x)
  BY <1>1, <1>3
<1> QED
  BY <1>3, <1>4

\* Slot s gets an owner; new takes its place among the register slots.
LEMMA RegisteredEntries ==
    ASSUME TypeOK, NEW s \in Slots, NEW new \in Slots, Matching(s) # {},
           register_subevent_data' = [register_subevent_data EXCEPT ![FirstMatching(s)] = new]
    PROVE  /\ RegisterSlots' \subseteq RegisterSlots \cup {new}
           /\ RegisterSlots \cup {new} \subseteq RegisterSlots' \cup {s}
           /\ s \in RegisterSlots
           /\ NoRepeats /\ new \notin RegisterSlots =>
                 /\ s \notin RegisterSlots'
                 /\ \A a, b \in Regs :
                       register_subevent_data'[a] = register_subevent_data'[b] => a = b
<1> DEFINE k == FirstMatching(s)
<1>1. k \in Regs /\ register_subevent_data[k] = s
  <2>1. Matching(s) \in SUBSET Nat /\ Matching(s) # {}
    BY AdvertiserAssumption DEF Matching, Regs
  <2>2. \E i \in Matching(s) : \A m \in Matching(s) : i <= m
    BY <2>1, LeastMatching
  <2>3. k \in Matching(s)
    BY <2>2 DEF FirstMatching
  <2> QED
    BY <2>3 DEF Matching
<1> HIDE DEF k
<1>2. register_subevent_data \in [Regs -> Slots]
  BY DEF TypeOK
<1>3. register_subevent_data' = [register_subevent_data EXCEPT ![k] = new]
  BY DEF k
<1>4. /\ DOMAIN register_subevent_data = Regs /\ DOMAIN register_subevent_data' = Regs
      /\ register_subevent_data'[k] = new
      /\ \A i \in Regs : i # k => register_subevent_data'[i] = register_subevent_data[i]
  BY <1>1, <1>2, <1>3
<1>5. /\ RegisterSlots' \subseteq RegisterSlots \cup {new}
      /\ RegisterSlots \cup {new} \subseteq RegisterSlots' \cup {s}
      /\ s \in RegisterSlots
  BY <1>1, <1>4 DEF RegisterSlots, Entries
<1>6. ASSUME NoRepeats, new \notin RegisterSlots
      PROVE  /\ s \notin RegisterSlots'
             /\ \A a, b \in Regs :
                   register_subevent_data'[a] = register_subevent_data'[b] => a = b
  <2>1. /\ \A i \in Regs : register_subevent_data[i] # new
        /\ \A i \in Regs : i # k => register_subevent_data[i] # s
    BY <1>1, <1>4, <1>6 DEF NoRepeats, RegisterSlots, Entries
  <2>2. s # new
    BY <1>1, <2>1
  <2>3. \A i \in Regs : register_subevent_data'[i] # s
    BY <1>4, <2>1, <2>2
  <2>4. s \notin RegisterSlots'
    BY <1>4, <2>3 DEF RegisterSlots, Entries
  <2>5. \A a, b \in Regs : register_subevent_data'[a] = register_subevent_data'[b] => a = b
    BY <1>4, <1>6, <2>1 DEF NoRepeats
  <2> QED
    BY <2>4, <2>5
<1> QED
  BY <1>5, <1>6

\* The state after a registration, when slot s was a register slot: wherever the
\* slot that replaces it comes from, it was handed out and nothing else moved.
LEMMA ReplacedSlots ==
    ASSUME TypeOK, SlotsInv, NEW s \in Slots, Matching(s) # {},
           register_subevent_data' =
              [register_subevent_data EXCEPT ![FirstMatching(s)] = reserve_slot],
           free_list' = reserve_slot_list, last_used' = reserve_slot_last,
           UNCHANGED leaked, strayed' <=> strayed,
           \A t \in Slots : Owned(t)' <=> t = s \/ Owned(t)
    PROVE  SlotsInv'
<1>1. reserve_slot \in Slots /\ last_used \in Slots
  BY ReserveTypes DEF TypeOK
<1>2. /\ RegisterSlots' \subseteq RegisterSlots \cup {reserve_slot}
      /\ RegisterSlots \cup {reserve_slot} \subseteq RegisterSlots' \cup {s}
      /\ s \in RegisterSlots
      /\ NoRepeats /\ reserve_slot \notin RegisterSlots =>
            /\ s \notin RegisterSlots'
            /\ \A a, b \in Regs :
                  register_subevent_data'[a] = register_subevent_data'[b] => a = b
  BY <1>1, RegisteredEntries
<1>3. CASE ~free_list_empty(free_list)
  <2>1. /\ reserve_slot \in Entries(free_list)
        /\ Entries(free_list)' \subseteq Entries(free_list)
        /\ Entries(free_list) \subseteq Entries(free_list)' \cup {reserve_slot}
    BY <1>3, PoppedEntries DEF Entries
  <2>2. last_used' = last_used
    BY <1>3 DEF reserve_slot_last
  <2>3. \A t : HandedOut(t)' <=> HandedOut(t)
    BY <2>2 DEF HandedOut, Below
  <2>4. ASSUME ~strayed' PROVE NoRepeats' /\ \A t \in Slots : InOnePlace(t)'
    <3>1. NoRepeats /\ \A t \in Slots : InOnePlace(t)
      BY <2>4 DEF SlotsInv, OneHome
    <3>2. HandedOut(reserve_slot) /\ reserve_slot \notin RegisterSlots \cup leaked
          /\ ~Owned(reserve_slot) /\ HandedOut(s) /\ s \notin Entries(free_list) \cup leaked
      BY <1>1, <1>2, <2>1, <3>1 DEF InOnePlace
    <3>3. Distinct(free_list') /\ reserve_slot \notin Entries(free_list)'
      BY <1>3, <3>1, PoppedDistinct DEF NoRepeats, Distinct, Entries
    <3>4. NoRepeats'
      BY <1>2, <3>1, <3>2, <3>3 DEF NoRepeats, Distinct
    <3>5. s \notin RegisterSlots'
      BY <1>2, <3>1, <3>2
    <3>6. ASSUME NEW t \in Slots PROVE InOnePlace(t)'
      <4>1. InOnePlace(t)
        BY <3>1
      <4>2. CASE t = s
        BY <2>1, <2>3, <3>2, <3>5, <4>2 DEF InOnePlace
      <4>3. CASE t = reserve_slot
        BY <1>2, <2>3, <3>2, <3>3, <4>3 DEF InOnePlace
      <4>4. CASE t # s /\ t # reserve_slot
        BY <1>2, <2>1, <2>3, <4>1, <4>4 DEF InOnePlace
      <4> QED
        BY <4>2, <4>3, <4>4
    <3> QED
      BY <3>4, <3>6
  <2>5. NoSlotLost'
    BY <1>2, <2>1, <2>3 DEF SlotsInv, NoSlotLost
  <2>6. InTrain'
    BY <2>1 DEF SlotsInv, InTrain
  <2> QED
    BY <2>2, <2>4, <2>5, <2>6 DEF SlotsInv, OneHome, FrontierBounded, PastReserved, Reserved
<1>4. CASE free_list_empty(free_list)
  <2>1. /\ reserve_slot = last_used /\ last_used' = After(last_used)
        /\ After(last_used).subevent <= MAX_NUM_SUBEVENTS
        /\ ~Reserved(After(last_used))
    BY <1>4, FrontierStep
  <2>2. Entries(free_list)' = Entries(free_list)
    BY <1>4 DEF reserve_slot_list, Entries
  <2>3. \A t \in Slots : HandedOut(t)' <=> HandedOut(t) \/ t = last_used
    BY <1>1, <2>1, AfterIsNext DEF HandedOut, SlotsInv, PastReserved
  <2>4. ASSUME ~strayed' PROVE NoRepeats' /\ \A t \in Slots : InOnePlace(t)'
    <3>1. NoRepeats /\ \A t \in Slots : InOnePlace(t)
      BY <2>4 DEF SlotsInv, OneHome
    <3>2. ~HandedOut(last_used)
      BY <1>1, AdvertiserAssumption DEF HandedOut, Below, Slots, RspSlots
    <3>3. last_used \notin RegisterSlots \cup Entries(free_list) \cup leaked /\ ~Owned(last_used)
          /\ HandedOut(s) /\ s \notin Entries(free_list) \cup leaked
      BY <1>1, <1>2, <3>1, <3>2 DEF InOnePlace
    <3>4. NoRepeats'
      <4>1. free_list' = free_list
        BY <1>4 DEF reserve_slot_list
      <4> QED
        BY <1>2, <2>1, <3>1, <3>3, <4>1 DEF NoRepeats
    <3>5. s \notin RegisterSlots'
      BY <1>2, <2>1, <3>1, <3>3
    <3>6. ASSUME NEW t \in Slots PROVE InOnePlace(t)'
      <4>1. InOnePlace(t)
        BY <3>1
      <4>2. CASE t = s
        BY <2>2, <2>3, <3>3, <3>5, <4>2 DEF InOnePlace
      <4>3. CASE t = last_used
        BY <1>2, <2>2, <2>3, <3>3, <4>3 DEF InOnePlace
      <4>4. CASE t # s /\ t # last_used
        BY <1>2, <2>1, <2>2, <2>3, <4>1, <4>4 DEF InOnePlace
      <4> QED
        BY <4>2, <4>3, <4>4
    <3> QED
      BY <3>4, <3>6
  <2>5. NoSlotLost'
    BY <1>2, <2>1, <2>2, <2>3 DEF SlotsInv, NoSlotLost
  <2>6. InTrain'
    BY <2>2 DEF SlotsInv, InTrain
  <2> QED
    BY <2>1, <2>4, <2>5, <2>6 DEF SlotsInv, OneHome, FrontierBounded, PastReserved, Reserved
<1> QED
  BY <1>3, <1>4

\* A response arrives in a slot of the table.
LEMMA ResponseSlot ==
    ASSUME TypeOK, NEW s \in AirSlots, NEW rc, Responds(s, rc)
    PROVE  /\ s \in Slots /\ s.subevent \in Subevents /\ s.rsp_slot \in RspSlots
           /\ s = Slot(s.subevent, s.rsp_slot)
<1>1. s \in Slots /\ s.subevent \in Subevents /\ s.rsp_slot \in RspSlots
  BY ResponseTypes
<1>2. s = Slot(s.subevent, s.rsp_slot)
  BY <1>1 DEF Slots, Slot
<1> QED
  BY <1>1, <1>2

LEMMA ResponseSlots == ASSUME TypeOK, SlotsInv, response_cb PROVE SlotsInv'
<1>1. ASSUME NEW s \in AirSlots, NEW rc, ResponseRejected(s, rc)
      PROVE  SlotsInv'
  <2>1. /\ s \in Slots /\ s.subevent \in Subevents /\ s.rsp_slot \in RspSlots
        /\ s = Slot(s.subevent, s.rsp_slot)
    BY <1>1, ResponseSlot DEF ResponseRejected
  <2> DEFINE sd == [rsp_slots[s.subevent][s.rsp_slot] EXCEPT !.dev_id = NoDev]
  <2>2. rsp_slots' = [rsp_slots EXCEPT ![s.subevent][s.rsp_slot] = sd]
    BY <1>1 DEF ResponseRejected
  <2>3. sd.dev_id = NoDev
    BY <2>1, SlotDataUpdate DEF TypeOK
  <2> HIDE DEF sd
  <2>4. \A t \in Slots : Owned(t)' <=> IF t = s THEN sd.dev_id # NoDev ELSE Owned(t)
    BY <2>1, <2>2, OwnedUpdate
  <2>5. UNCHANGED <<last_used, register_subevent_data>> /\ free_slot(s) /\ strayed'
    BY <1>1 DEF ResponseRejected
  <2> QED
    BY <2>1, <2>3, <2>4, <2>5, FreedSlots
<1>2. ASSUME NEW s \in AirSlots, NEW rc, NEW d \in Devices, NEW ok1, NEW ok2,
             ResponseRegisters(d, s, rc, ok1, ok2)
      PROVE  SlotsInv'
  <2>1. /\ s \in Slots /\ s.subevent \in Subevents /\ s.rsp_slot \in RspSlots
        /\ s = Slot(s.subevent, s.rsp_slot)
    BY <1>2, ResponseSlot DEF ResponseRegisters
  <2> DEFINE sd == [dev_id |-> d, inactive_for |-> 0]
  <2>2. rsp_slots' = [rsp_slots EXCEPT ![s.subevent][s.rsp_slot] = sd]
    BY <1>2 DEF ResponseRegisters
  <2>3. sd.dev_id # NoDev
    BY AdvertiserAssumption
  <2> HIDE DEF sd
  <2>4. \A t \in Slots : Owned(t)' <=> IF t = s THEN sd.dev_id # NoDev ELSE Owned(t)
    BY <2>1, <2>2, OwnedUpdate
  <2>5. \A t \in Slots : Owned(t)' <=> t = s \/ Owned(t)
    BY <2>3, <2>4
  <2>6. UNCHANGED leaked /\ (strayed' <=> strayed \/ Matching(s) = {})
    BY <1>2 DEF ResponseRegisters
  <2>7. CASE Matching(s) # {}
    <3>1. /\ register_subevent_data' =
               [register_subevent_data EXCEPT ![FirstMatching(s)] = reserve_slot]
          /\ free_list' = reserve_slot_list /\ last_used' = reserve_slot_last
      BY <1>2, <2>7 DEF ResponseRegisters
    <3> QED
      BY <2>1, <2>5, <2>6, <2>7, <3>1, ReplacedSlots
  <2>8. CASE Matching(s) = {}
    <3>1. UNCHANGED <<last_used, register_subevent_data, free_list, leaked>>
      BY <1>2, <2>8 DEF ResponseRegisters
    <3>2. /\ RegisterSlots' = RegisterSlots /\ Entries(free_list)' = Entries(free_list)
          /\ \A t : HandedOut(t)' <=> HandedOut(t)
      BY <3>1 DEF RegisterSlots, Entries, HandedOut, Below
    <3>3. OneHome' /\ NoSlotLost'
      BY <2>1, <2>5, <2>6, <2>8, <3>1, <3>2 DEF SlotsInv, OneHome, NoSlotLost
    <3> QED
      BY <3>1, <3>2, <3>3 DEF SlotsInv, InTrain, FrontierBounded, PastReserved, Reserved
  <2> QED
    BY <2>7, <2>8
<1>3. ASSUME NEW s \in AirSlots, NEW rc, NEW d \in Devices, NEW ok,
             ResponseInOwnedSlot(d, s, rc, ok)
      PROVE  SlotsInv'
  <2> DEFINE sd == rsp_slots[s.subevent][s.rsp_slot]
             new == Refreshed(sd, d)
  <2>1. /\ s \in Slots /\ s.subevent \in Subevents /\ s.rsp_slot \in RspSlots
        /\ s = Slot(s.subevent, s.rsp_slot)
    BY <1>3, ResponseSlot DEF ResponseInOwnedSlot
  <2>2. rsp_slots' = [rsp_slots EXCEPT ![s.subevent][s.rsp_slot] = new]
    BY <1>3 DEF ResponseInOwnedSlot
  <2>3. new.dev_id = sd.dev_id
    <3>1. 0 \in 0 .. U8 - 1 /\ sd \in SlotData
      BY <2>1, AdvertiserAssumption DEF TypeOK
    <3> QED
      BY <3>1, SlotDataUpdate DEF Refreshed
  <2>4. new.dev_id # NoDev <=> Owned(s)
    BY <2>1, <2>3 DEF Owned, Owner
  <2> HIDE DEF new
  <2>5. \A t \in Slots : Owned(t)' <=> IF t = s THEN new.dev_id # NoDev ELSE Owned(t)
    BY <2>1, <2>2, OwnedUpdate
  <2>6. \A t \in Slots : Owned(t)' <=> Owned(t)
    BY <2>4, <2>5
  <2>7. UNCHANGED <<last_used, register_subevent_data, free_list, leaked, strayed>>
    BY <1>3 DEF ResponseInOwnedSlot
  <2> QED
    BY <2>6, <2>7, SlotsFrame
<1> QED
  BY <1>1, <1>2, <1>3 DEF response_cb, ResponseVerified

\* A slot whose device times out is given back; it was owned, so it was nowhere else.
LEMMA RequestSlotSlots == ASSUME TypeOK, SlotsInv, RequestSlot PROVE SlotsInv'
<1> DEFINE sd == rsp_slots[subevent][j]
           new == AgedSlot(sd)
<1>1. subevent \in Subevents /\ j \in RspSlots /\ sd \in SlotData
  BY AdvertiserAssumption DEF RequestSlot, RspSlots, TypeOK
<1>0. PICK s \in Slots : s = Slot(subevent, j)
  BY <1>1, SubeventIsU8, SlotType
<1>2. s \in Slots /\ s.subevent = subevent /\ s.rsp_slot = j
  BY <1>0 DEF Slot
<1>3. Older(sd) \in 0 .. U8 - 1
  BY <1>1, NextModulo, AdvertiserAssumption DEF Older, SlotData
<1>4. rsp_slots' = [rsp_slots EXCEPT ![subevent][j] = new]
      /\ UNCHANGED <<last_used, register_subevent_data, strayed>>
  BY DEF RequestSlot
<1>5. sd.dev_id # NoDev <=> Owned(s)
  BY <1>1, <1>2 DEF Owned, Owner
<1>6. new.dev_id = IF TimesOut(sd) THEN NoDev ELSE sd.dev_id
  BY <1>1, <1>3, SlotDataUpdate DEF AgedSlot
<1>7. TimesOut(sd) => sd.dev_id # NoDev /\ free_slot(s)
  BY <1>0 DEF TimesOut, RequestSlot
<1>8. ~TimesOut(sd) => UNCHANGED <<free_list, leaked>>
  BY DEF RequestSlot
<1> HIDE DEF new, sd
<1>9. \A t \in Slots : Owned(t)' <=> IF t = s THEN new.dev_id # NoDev ELSE Owned(t)
  BY <1>0, <1>1, <1>4, OwnedUpdate
<1>10. CASE TimesOut(sd)
  <2>1. strayed' <=> strayed
    BY <1>4
  <2>2. Owned(s) /\ ~Owned(s)'
    BY <1>2, <1>5, <1>6, <1>7, <1>9, <1>10
  <2> QED
    BY <1>1, <1>2, <1>4, <1>7, <1>9, <1>10, <2>1, <2>2, FreedSlots
<1>11. CASE ~TimesOut(sd)
  BY <1>4, <1>5, <1>6, <1>8, <1>9, <1>11, SlotsFrame
<1> QED
  BY <1>10, <1>11

LEMMA NextSlots == TypeOK /\ SlotsInv /\ [Next]_vars => SlotsInv'
<1> SUFFICES ASSUME TypeOK, SlotsInv, [Next]_vars PROVE SlotsInv'
  OBVIOUS
<1>1. ASSUME UNCHANGED <<last_used, register_subevent_data, free_list, rsp_slots, leaked, strayed>>
      PROVE  SlotsInv'
  BY <1>1, SlotsFrame DEF Owned, Owner
<1>2. CASE MainThread
  <2>1. CASE SysReboot
    BY <2>1, RebootSlots DEF SysReboot
  <2>2. CASE InitPeriodicAdv
    BY <1>1, <2>2 DEF InitPeriodicAdv, table, seen
  <2>3. CASE ~SysReboot /\ ~InitPeriodicAdv
    BY <1>1, <1>2, <2>3 DEF MainThread, InitCryptoFails, InitCounter, InitCounterFails,
       InitExtendedAdv, InitBluetoothFails, advertising, CommitDestroy, CommitImport,
       table, air, seen
  <2> QED
    BY <2>1, <2>2, <2>3
<1>3. CASE button_cb \/ HardReset
  BY <1>1, <1>3, RebootSlots DEF button_cb, HardReset, table, air, seen
<1>4. CASE request_cb
  <2>1. ASSUME NEW start, NEW n, RequestCb(start, n) PROVE SlotsInv'
    BY <1>1, <2>1 DEF RequestCb, InSequence, table, air, seen
  <2>2. ASSUME NEW ok, RequestSubevent(ok) PROVE SlotsInv'
    BY <1>1, <2>2 DEF RequestSubevent, table, seen
  <2>3. ASSUME NEW ok, RequestPublish(ok) PROVE SlotsInv'
    BY <1>1, <2>3 DEF RequestPublish, table, air
  <2> QED
    BY <1>4, <2>1, <2>2, <2>3, RequestSlotSlots DEF request_cb
<1>5. CASE UNCHANGED vars
  BY <1>1, <1>5 DEF vars, table, air, seen
<1> QED
  BY <1>2, <1>3, <1>4, <1>5, ResponseSlots DEF Next

LEMMA SlotsInvariance == Spec => []SlotsInv
<1>1. Init => SlotsInv
  BY BootSlots DEF Init, BootTable
<1> QED
  BY <1>1, InitTypeOK, NextTypeOK, NextSlots, PTL DEF Spec

\* Registrations, timeouts, overflows of the free list and reboots, however they
\* interleave, never put a slot in two places; only a rejected response, or a
\* registration outside the register slots, can.
THEOREM SlotsHaveOneHome == Spec => []OneHome
<1>1. SlotsInv => OneHome
  BY DEF SlotsInv
<1> QED
  BY <1>1, SlotsInvariance, PTL

\* A slot that was handed out stays open for registration, owned or free, unless
\* free_list_append dropped it from a full list.
THEOREM SlotsAreKept == Spec => []NoSlotLost
<1>1. SlotsInv => NoSlotLost
  BY DEF SlotsInv
<1> QED
  BY <1>1, SlotsInvariance, PTL

\* reserve_slot, which increments last_used.subevent without a check, cannot run
\* past the subevent after the last: by then every register slot lies there.
THEOREM FrontierStops == Spec => []FrontierBounded
<1>1. SlotsInv => FrontierBounded
  BY DEF SlotsInv
<1> QED
  BY <1>1, SlotsInvariance, PTL
-----------------------------------------------------------------------------
(* The advertiser implements SlotService: every step of its threads is, on *)
(* the owners, the devices heard and the counters published, one step of   *)
(* the service or none.                                                    *)

\* A slot's record changes: so does that slot's owner, and no other.
LEMMA OwnersUpdate ==
    ASSUME TypeOK, NEW s \in Subevents, NEW r \in RspSlots, NEW sd \in SlotData,
           rsp_slots' = [rsp_slots EXCEPT ![s][r] = sd]
    PROVE  owners' = [owners EXCEPT ![s][r] = sd.dev_id]
  BY DEF TypeOK, owners

LEMMA OwnersAt ==
    ASSUME NEW s \in Subevents, NEW r \in RspSlots
    PROVE  owners[s][r] = rsp_slots[s][r].dev_id
  BY DEF owners

LEMMA SameOwner ==
    ASSUME NEW s \in Subevents, NEW r \in RspSlots,
           owners' = [owners EXCEPT ![s][r] = rsp_slots[s][r].dev_id]
    PROVE  UNCHANGED owners
<1> DEFINE o == owners
<1>1. /\ o = [t \in Subevents |-> o[t]]
      /\ o[s] = [q \in RspSlots |-> o[s][q]]
  BY DEF owners
<1>2. o[s][r] = rsp_slots[s][r].dev_id
  BY OwnersAt
<1>3. owners' = [o EXCEPT ![s][r] = o[s][r]]
  BY <1>2
<1> HIDE DEF o
<1>4. [o EXCEPT ![s][r] = o[s][r]] = o
  BY <1>1
<1> QED
  BY <1>3, <1>4 DEF o

LEMMA InitService == Init => Service!Init
  BY DEF Init, Service!Init, Service!NoOwners, Service!NoneHeard, Service!NoCounter,
     owners, BootRspSlots

LEMMA RebootService == Reboot => Service!Restart
<1> SUFFICES ASSUME Reboot PROVE Service!Restart
  OBVIOUS
<1>1. owners' = Service!NoOwners
  BY DEF Reboot, owners, BootRspSlots, Service!NoOwners
<1> QED
  BY <1>1 DEF Reboot, Service!Restart, Service!NoneHeard, Service!NoCounter

\* Steps that leave the slots and the air alone.
LEMMA StutterService ==
    UNCHANGED <<rsp_slots, heard, published>> => UNCHANGED Service!vars
  BY DEF Service!vars, owners

\* What RequestSlot does to an owner that was heard: nothing.
LEMMA OwnerOfAged ==
    ASSUME NEW sd \in SlotData, NEW devices \in SUBSET Devices, SlotInv(sd, devices)
    PROVE  /\ AgedSlot(sd) \in SlotData
           /\ AgedSlot(sd).dev_id # sd.dev_id =>
                 AgedSlot(sd).dev_id = NoDev /\ sd.dev_id \notin devices
<1>1. Older(sd) \in 0 .. U8 - 1
  BY NextModulo, AdvertiserAssumption DEF Older, SlotData
<1>2. CASE TimesOut(sd)
  <2>1. sd.inactive_for # 0
    <3>1. sd.dev_id # NoDev /\ Older(sd) > 3 * EVENTS_PER_BLOCK
      BY <1>2 DEF TimesOut
    <3>2. sd.inactive_for = 0 => Older(sd) = 1
      BY NextModulo, AdvertiserAssumption DEF Older
    <3> QED
      BY <3>1, <3>2, AdvertiserAssumption
  <2>2. sd.dev_id # NoDev /\ sd.dev_id \notin devices
    BY <1>2, <2>1 DEF SlotInv, TimesOut
  <2>3. AgedSlot(sd) \in SlotData /\ AgedSlot(sd).dev_id = NoDev
    BY <1>2, SlotDataNew, AdvertiserAssumption DEF AgedSlot, DevIds
  <2> QED
    BY <2>2, <2>3
<1>3. CASE ~TimesOut(sd)
  BY <1>1, <1>3, SlotDataUpdate DEF AgedSlot
<1> QED
  BY <1>2, <1>3

LEMMA RequestSlotService ==
    ASSUME TypeOK, SilenceInv, RequestSlot
    PROVE  Service!PassEvent(subevent, j) /\ subevent \in Subevents /\ j \in RspSlots
<1> DEFINE sd == rsp_slots[subevent][j]
<1>1. subevent \in Subevents /\ j \in RspSlots
  BY AdvertiserAssumption DEF RequestSlot, RspSlots, TypeOK
<1>2. /\ sd \in SlotData /\ heard[subevent][j] \in SUBSET Devices
      /\ SlotInv(sd, heard[subevent][j])
  BY <1>1 DEF SilenceInv, TypeOK
<1>3. /\ AgedSlot(sd) \in SlotData
      /\ AgedSlot(sd).dev_id # sd.dev_id =>
            AgedSlot(sd).dev_id = NoDev /\ sd.dev_id \notin heard[subevent][j]
  BY <1>2, OwnerOfAged
<1>4. /\ rsp_slots' = [rsp_slots EXCEPT ![subevent][j] = AgedSlot(sd)]
      /\ heard' = [heard EXCEPT ![subevent][j] = {}]
      /\ UNCHANGED published
  BY DEF RequestSlot
<1>5. owners' = [owners EXCEPT ![subevent][j] = AgedSlot(sd).dev_id]
  BY <1>1, <1>3, <1>4, OwnersUpdate
<1>6. owners[subevent][j] = sd.dev_id
  BY <1>1, OwnersAt
<1>7. AgedSlot(sd).dev_id = sd.dev_id => UNCHANGED owners
  BY <1>1, <1>5, SameOwner
<1> QED
  BY <1>1, <1>3, <1>4, <1>5, <1>6, <1>7 DEF Service!PassEvent

\* The counter that is published exceeds every earlier one of the subevent.
LEMMA RequestPublishService ==
    ASSUME TypeOK, FreshInv, NEW ok, RequestPublish(ok)
    PROVE  [Service!Next]_(Service!vars)
<1>1. UNCHANGED <<rsp_slots, heard>> /\ UNCHANGED owners
  BY DEF RequestPublish, table, owners
<1>2. CASE ok
  <2>1. subevent \in Subevents /\ SubeventCounter \in Nat
    BY SubeventCounterType DEF TypeOK
  <2>2. published' = [published EXCEPT ![subevent] = @ \cup {SubeventCounter}]
    BY <1>2 DEF RequestPublish
  <2>3. \A c \in published[subevent] : c < SubeventCounter
    <3>1. NotFilled(subevent)
      BY AdvertiserAssumption DEF RequestPublish, NotFilled, TypeOK, Subevents
    <3>2. published[subevent] \subseteq Nat
      BY <2>1 DEF TypeOK
    <3> QED
      BY <2>1, <3>1, <3>2 DEF FreshInv
  <2>4. Service!Publish(subevent, SubeventCounter)
    BY <1>1, <2>2, <2>3 DEF Service!Publish
  <2>5. SubeventCounter \in published'[subevent]
    BY <2>1, <2>2 DEF TypeOK
  <2> QED
    BY <2>1, <2>4, <2>5 DEF Service!Next
<1>3. CASE ~ok
  <2>1. UNCHANGED published
    BY <1>3 DEF RequestPublish
  <2> QED
    BY <1>1, <2>1, StutterService
<1> QED
  BY <1>2, <1>3

\* A response registers its sender, is heard, or costs the slot.
LEMMA ResponseService ==
    ASSUME TypeOK, response_cb
    PROVE  \E s \in Subevents, r \in RspSlots :
              \/ Service!Withdraw(s, r)
              \/ \E d \in Devices : Service!Register(d, s, r) \/ Service!Hear(d, s, r)
<1>1. ASSUME NEW s \in AirSlots, NEW rc, ResponseRejected(s, rc)
      PROVE  /\ Service!Withdraw(s.subevent, s.rsp_slot)
             /\ s.subevent \in Subevents /\ s.rsp_slot \in RspSlots
  <2> DEFINE sd == [rsp_slots[s.subevent][s.rsp_slot] EXCEPT !.dev_id = NoDev]
  <2>1. /\ s.subevent \in Subevents /\ s.rsp_slot \in RspSlots
        /\ rsp_slots[s.subevent][s.rsp_slot] \in SlotData
    BY <1>1, ResponseTypes DEF ResponseRejected
  <2>2. sd \in SlotData /\ sd.dev_id = NoDev
    BY <2>1, SlotDataUpdate
  <2>3. rsp_slots' = [rsp_slots EXCEPT ![s.subevent][s.rsp_slot] = sd]
    BY <1>1 DEF ResponseRejected
  <2>4. owners' = [owners EXCEPT ![s.subevent][s.rsp_slot] = NoDev]
    <3> HIDE DEF sd
    <3>1. owners' = [owners EXCEPT ![s.subevent][s.rsp_slot] = sd.dev_id]
      BY ONLY TypeOK, <2>1, <2>2, <2>3, OwnersUpdate, ZenonT(60)
    <3> QED
      BY <2>2, <3>1, Zenon
  <2> QED
    BY <1>1, <2>1, <2>4 DEF ResponseRejected, Service!Withdraw
<1>2. ASSUME NEW s \in AirSlots, NEW rc, NEW d \in Devices, NEW ok1, NEW ok2,
             ResponseRegisters(d, s, rc, ok1, ok2)
      PROVE  /\ Service!Register(d, s.subevent, s.rsp_slot)
             /\ s.subevent \in Subevents /\ s.rsp_slot \in RspSlots
  <2> DEFINE sd == [dev_id |-> d, inactive_for |-> 0]
  <2>1. s.subevent \in Subevents /\ s.rsp_slot \in RspSlots
    BY <1>2, ResponseTypes DEF ResponseRegisters
  <2>2. sd \in SlotData /\ sd.dev_id = d
    BY SlotDataNew, AdvertiserAssumption DEF DevIds
  <2>3. /\ rsp_slots' = [rsp_slots EXCEPT ![s.subevent][s.rsp_slot] = sd]
        /\ rsp_slots[s.subevent][s.rsp_slot].dev_id = NoDev
    BY <1>2 DEF ResponseRegisters, Owner
  <2>4. owners' = [owners EXCEPT ![s.subevent][s.rsp_slot] = d]
    <3> HIDE DEF sd
    <3> QED
      BY <2>1, <2>2, <2>3, OwnersUpdate
  <2>5. owners[s.subevent][s.rsp_slot] = NoDev
    BY <2>1, <2>3, OwnersAt
  <2> QED
    BY <1>2, <2>1, <2>4, <2>5 DEF ResponseRegisters, Hear, Service!Register
<1>3. ASSUME NEW s \in AirSlots, NEW rc, NEW d \in Devices, NEW ok,
             ResponseInOwnedSlot(d, s, rc, ok)
      PROVE  /\ Service!Hear(d, s.subevent, s.rsp_slot)
             /\ s.subevent \in Subevents /\ s.rsp_slot \in RspSlots
  <2> DEFINE sd == rsp_slots[s.subevent][s.rsp_slot]
  <2>1. /\ s.subevent \in Subevents /\ s.rsp_slot \in RspSlots /\ sd \in SlotData
    BY <1>3, ResponseTypes DEF ResponseInOwnedSlot
  <2>2. Refreshed(sd, d) \in SlotData /\ Refreshed(sd, d).dev_id = sd.dev_id
    <3>1. 0 \in 0 .. U8 - 1
      BY AdvertiserAssumption
    <3> QED
      BY <2>1, <3>1, SlotDataUpdate DEF Refreshed
  <2>3. /\ rsp_slots' = [rsp_slots EXCEPT ![s.subevent][s.rsp_slot] = Refreshed(sd, d)]
        /\ sd.dev_id # NoDev
    BY <1>3 DEF ResponseInOwnedSlot, Owner
  <2>4. owners' = [owners EXCEPT ![s.subevent][s.rsp_slot] = Refreshed(sd, d).dev_id]
    <3> DEFINE new == Refreshed(sd, d)
    <3>1. new \in SlotData /\ rsp_slots' = [rsp_slots EXCEPT ![s.subevent][s.rsp_slot] = new]
      BY <2>2, <2>3
    <3> HIDE DEF new
    <3>2. owners' = [owners EXCEPT ![s.subevent][s.rsp_slot] = new.dev_id]
      BY ONLY TypeOK, <2>1, <3>1, OwnersUpdate, ZenonT(60)
    <3> QED
      BY <3>2 DEF new
  <2>5. owners[s.subevent][s.rsp_slot] = sd.dev_id
    BY <2>1, OwnersAt
  <2>6. UNCHANGED owners
    BY <2>1, <2>2, <2>4, SameOwner
  <2> QED
    BY <1>3, <2>1, <2>3, <2>5, <2>6 DEF ResponseInOwnedSlot, Hear, Service!Hear
<1> QED
  BY <1>1, <1>2, <1>3 DEF response_cb, ResponseVerified

LEMMA NextService ==
    TypeOK /\ SilenceInv /\ FreshInv /\ [Next]_vars => [Service!Next]_(Service!vars)
<1> SUFFICES ASSUME TypeOK, SilenceInv, FreshInv, [Next]_vars
             PROVE  [Service!Next]_(Service!vars)
  OBVIOUS
<1>1. ASSUME Reboot PROVE [Service!Next]_(Service!vars)
  BY <1>1, RebootService DEF Service!Next
<1>2. ASSUME UNCHANGED <<rsp_slots, heard, published>> PROVE [Service!Next]_(Service!vars)
  BY <1>2, StutterService
<1>3. CASE MainThread
  BY <1>1, <1>2, <1>3 DEF MainThread, InitCryptoFails, InitCounter, InitCounterFails,
     InitPeriodicAdv, InitExtendedAdv, InitBluetoothFails, advertising,
     CommitDestroy, CommitImport, SysReboot, table, seen
<1>4. CASE button_cb \/ HardReset
  BY <1>1, <1>2, <1>4 DEF button_cb, HardReset, table, seen
<1>5. CASE request_cb
  <2>1. CASE RequestSlot
    BY <2>1, RequestSlotService DEF Service!Next
  <2>2. ASSUME NEW ok, RequestPublish(ok) PROVE [Service!Next]_(Service!vars)
    BY <2>2, RequestPublishService
  <2>3. ASSUME NEW start, NEW n, RequestCb(start, n) PROVE [Service!Next]_(Service!vars)
    BY <1>2, <2>3 DEF RequestCb, InSequence, table, seen
  <2>4. ASSUME NEW ok, RequestSubevent(ok) PROVE [Service!Next]_(Service!vars)
    BY <1>2, <2>4 DEF RequestSubevent, table, seen
  <2> QED
    BY <1>5, <2>1, <2>2, <2>3, <2>4 DEF request_cb
<1>6. CASE response_cb
  BY <1>6, ResponseService DEF Service!Next
<1>7. CASE UNCHANGED vars
  BY <1>2, <1>7 DEF vars, table, seen
<1> QED
  BY <1>3, <1>4, <1>5, <1>6, <1>7 DEF Next

\* The advertiser implements the service: whatever threads, errors and reboots
\* interleave, no slot passes from one device to another directly, no device that
\* was heard loses its slot to the timeout, and the counters of a subevent grow.
THEOREM ImplementsService == Spec => ServiceSpec
  BY InitTypeOK, NextTypeOK, InitSilenceInv, NextSilenceInv, InitBootInv, NextBootInv,
     InitFreshInv, NextFreshInv, InitService, NextService, PTL
  DEF Spec, ServiceSpec, Service!Spec
=============================================================================
