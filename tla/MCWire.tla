------------------------------- MODULE MCWire -------------------------------
(* Model-checking instance of Wire: real lengths, bytes of 16 values.      *)
EXTENDS Wire

CONSTANTS NUM_RSP_SLOTS, NUM_REGISTER_SLOTS, UNUSED_DATA_LEN

SentCounters == {0, 1, U8 + 2, U8^6 + 5}

Advertisements ==
    {[kind    |-> "advertisement",
      fields  |-> [reg_data |-> [i \in 1 .. n |-> [subevent |-> i - 1, rsp_slot |-> U8 - i]]],
      counter |-> c] : n \in 1 .. NUM_REGISTER_SLOTS, c \in SentCounters}

\* The last slot is acked, or every other one.
Subevents ==
    {[kind    |-> "subevent",
      fields  |-> [ack_data |-> [i \in 1 .. NUM_RSP_SLOTS |-> IF i % step = 0 THEN i ELSE 0]],
      counter |-> c] : step \in {2, NUM_RSP_SLOTS}, c \in {1, U8^6 + 5}}

\* confirm_recv_cb sends no data, ack_recv_cb UNUSED_DATA_LEN bytes; the counter
\* in the metadata counts the generated data.
Responses ==
    {[kind    |-> "response",
      fields  |-> [sender_id |-> id, counter |-> g, data |-> [i \in 1 .. n |-> i % U8]],
      counter |-> c] : id \in {1, U8 + 1}, g \in {0, U8 + 3},
                       n \in {0, UNUSED_DATA_LEN}, c \in SentCounters}

\* What set_adv_data sends: the whole list.
FullLists     == {m \in Advertisements : Len(m.fields.reg_data) = NUM_REGISTER_SLOTS}
AllMessages   == Advertisements \cup Subevents \cup Responses
SomeCounters  == {0, 1, U8}
=============================================================================
