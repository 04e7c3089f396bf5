---------------------------- MODULE SlotService ----------------------------
(***************************************************************************)
(* What a scanner may rely on, without how the advertiser keeps it: who    *)
(* owns a response slot, who was heard there since the subevent's last     *)
(* event, and which counters the subevent has carried since the boot.      *)
(***************************************************************************)
EXTENDS Naturals

CONSTANTS Subs, Rsp, Devices, NoDev

VARIABLES owner, heard, published

vars == <<owner, heard, published>>

NoOwners  == [s \in Subs |-> [r \in Rsp |-> NoDev]]
NoneHeard == [s \in Subs |-> [r \in Rsp |-> {}]]
NoCounter == [s \in Subs |-> {}]

Init == owner = NoOwners /\ heard = NoneHeard /\ published = NoCounter

\* An empty slot goes to the device that answered in it.
Register(d, s, r) ==
    /\ owner[s][r] = NoDev
    /\ owner' = [owner EXCEPT ![s][r] = d]
    /\ heard' = [heard EXCEPT ![s][r] = @ \cup {d}]
    /\ UNCHANGED published

\* A device answers in a slot that has an owner: the owner stays.
Hear(d, s, r) ==
    /\ owner[s][r] # NoDev
    /\ heard' = [heard EXCEPT ![s][r] = @ \cup {d}]
    /\ UNCHANGED <<owner, published>>

\* A response that is not accepted costs the slot.
Withdraw(s, r) ==
    /\ owner' = [owner EXCEPT ![s][r] = NoDev]
    /\ UNCHANGED <<heard, published>>

\* An event passes; only an owner that was not heard may lose the slot.
PassEvent(s, r) ==
    /\ heard' = [heard EXCEPT ![s][r] = {}]
    /\ \/ UNCHANGED owner
       \/ /\ owner[s][r] \notin heard[s][r]
          /\ owner' = [owner EXCEPT ![s][r] = NoDev]
    /\ UNCHANGED published

\* The data of a subevent carries a counter above all before it.
Publish(s, c) ==
    /\ \A b \in published[s] : b < c
    /\ published' = [published EXCEPT ![s] = @ \cup {c}]
    /\ UNCHANGED <<owner, heard>>

Restart == owner' = NoOwners /\ heard' = NoneHeard /\ published' = NoCounter

Next ==
    \/ Restart
    \/ \E s \in Subs :
          \/ \E c \in UNION {published'[t] : t \in Subs} : Publish(s, c)
          \/ \E r \in Rsp :
                \/ Withdraw(s, r) \/ PassEvent(s, r)
                \/ \E d \in Devices : Register(d, s, r) \/ Hear(d, s, r)

Spec == Init /\ [][Next]_vars
=============================================================================
