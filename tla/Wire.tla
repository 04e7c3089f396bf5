-------------------------------- MODULE Wire --------------------------------
(***************************************************************************)
(* One message of lib/transfer from a structure at the sender to the       *)
(* structure at the receiver: serializer, sign_message, the air, and the   *)
(* receiver's calls, which take fields from the end of the buffer again.   *)
(*                                                                         *)
(* A buffer is its bytes and len, the part still in use: removing bytes    *)
(* only lowers len, so that net_buf_simple_restore can bring it back.  The *)
(* MAC is ideal: it matches the signed bytes under the signer's key and    *)
(* nothing else, and its bytes are numbers no other byte is.  An over-the- *)
(* air message may be cut short, or one byte of it may change.             *)
(***************************************************************************)
EXTENDS Transfer, Integers, Sequences

CONSTANTS
    U8,                \* number of values of a byte
    HASH_LEN,          \* bytes of a MAC
    POINTER,           \* bytes of a pointer: 4, or 8 in a 64-bit build
    TO_SEND_BUF_SIZE,  \* of the advertiser's bufs and the scanner's message_rsp_buf
    Messages,          \* the messages that may be sent
    Counters           \* the values the receiver's counter may have

\* What two and four bytes hold.
U16 == U8 * U8
U32 == U16 * U16

\* advertisement_data_t, subevent_data_t and response_data_t, and the ranges of their
\* fields; lengths that are sent are a uint8_t.
IsMessage(m) ==
    /\ m = [kind |-> m.kind, fields |-> m.fields, counter |-> m.counter]
    /\ m.counter \in Nat /\ m.counter \div U32 < U32
    /\ \/ /\ m.kind = "advertisement"
          /\ m.fields = [reg_data |-> m.fields.reg_data]
          /\ m.fields.reg_data \in Seq([subevent: 0 .. U8 - 1, rsp_slot: 0 .. U8 - 1])
          /\ Len(m.fields.reg_data) < U8
       \/ /\ m.kind = "subevent"
          /\ m.fields = [ack_data |-> m.fields.ack_data]
          /\ m.fields.ack_data \in Seq(0 .. U16 - 1)
       \/ /\ m.kind = "response"
          /\ m.fields = [sender_id |-> m.fields.sender_id, counter |-> m.fields.counter,
                         data |-> m.fields.data]
          /\ m.fields.sender_id \in 0 .. U16 - 1 /\ m.fields.counter \in 0 .. U32 - 1
          /\ m.fields.data \in Seq(0 .. U8 - 1) /\ Len(m.fields.data) < U8

ASSUME WireAssumption ==
    /\ U8 \in Nat \ {0, 1} /\ HASH_LEN \in Nat \ {0} /\ POINTER \in {4, 8}
    /\ TO_SEND_BUF_SIZE \in Nat
    /\ \A m \in Messages : IsMessage(m)
    /\ Counters \subseteq Nat

VARIABLES
    sent,     \* the message: [kind, fields, counter]
    wire,     \* what left the sender
    buf,      \* the receiver's buffer
    counter,  \* the receiver's counter.value
    phase,    \* what happens next, or how it ended
    got       \* the fields the receiver goes on with

vars == <<sent, wire, buf, counter, phase, got>>

Nothing == [none |-> 0]

Init ==
    /\ sent \in Messages /\ counter \in Counters
    /\ wire = <<>> /\ buf = [bytes |-> <<>>, len |-> 0]
    /\ phase = "serialize" /\ got = Nothing
-----------------------------------------------------------------------------
(* Serializing.                                                            *)

\* The bytes net_buf_simple_add_le16, _le32 and _le64 add, and the number they are
\* when they are removed again.
add_le16(n) == <<n % U8, (n \div U8) % U8>>
add_le32(n) == add_le16(n % U16) \o add_le16(n \div U16)
add_le64(n) == add_le32(n % U32) \o add_le32(n \div U32)

word(bytes, at)      == bytes[at] + U8 * bytes[at + 1]
remove_le16(bytes)   == word(bytes, 1)
remove_le32(bytes)   == word(bytes, 1) + U16 * word(bytes, 3)
remove_le64(bytes)   == remove_le32(bytes) + U32 * (word(bytes, 5) + U16 * word(bytes, 7))

\* Items of the same width one after the other.
Laid(width, items) ==
    [k \in 1 .. width * Len(items) |->
       items[1 + ((k - 1) \div width)][1 + ((k - 1) % width)]]

register_data_serialize(r) == <<r.subevent, r.rsp_slot>>

advertisement_data_serialize(f) ==
    Laid(2, [i \in DOMAIN f.reg_data |-> register_data_serialize(f.reg_data[i])])
    \o <<Len(f.reg_data)>>

\* Mutant: ack ids take four bytes.
subevent_data_wide(f) == Laid(4, [i \in DOMAIN f.ack_data |-> add_le32(f.ack_data[i])])

\* Only called without register data.
subevent_data_with_reg_serialize(f) ==
    Laid(2, [i \in DOMAIN f.ack_data |-> add_le16(f.ack_data[i])])

response_data_serialize(f) ==
    add_le16(f.sender_id) \o add_le32(f.counter) \o f.data \o <<Len(f.data)>>

Serialized(m) ==
    (CASE m.kind = "advertisement" -> advertisement_data_serialize(m.fields)
       [] m.kind = "subevent"      -> subevent_data_with_reg_serialize(m.fields)
       [] m.kind = "response"      -> response_data_serialize(m.fields))
    \o add_le64(m.counter)

\* The key of the advertiser, 0, or of the scanner with that id.
Signer(m) == IF m.kind = "response" THEN m.fields.sender_id ELSE 0

MAC == [i \in 1 .. HASH_LEN |-> U8 + i]

\* crypto_compute_mac(key, body) gives mac.
MacMatches(key, body, mac) ==
    mac = MAC /\ key = Signer(sent) /\ body = Serialized(sent)

\* The serializers' callers: set_adv_data, request_cb, set_rsp_data.
Send ==
    /\ phase = "serialize"
    /\ wire' = Serialized(sent) \o MAC
    /\ phase' = "air"
    /\ UNCHANGED <<sent, buf, counter, got>>
-----------------------------------------------------------------------------
(* The air.                                                                *)

Arrives(bytes) ==
    /\ phase = "air"
    /\ buf' = [bytes |-> bytes, len |-> Len(bytes)]
    /\ phase' = IF sent.kind = "response" THEN "peek" ELSE "verify"
    /\ UNCHANGED <<sent, wire, counter, got>>

Deliver == Arrives(wire)
Cut     == \E k \in 0 .. Len(wire) - 1 : Arrives(SubSeq(wire, 1, k))
Corrupt == \E i \in DOMAIN wire, b \in {0, U8 - 1} :
              wire[i] # b /\ Arrives([wire EXCEPT ![i] = b])
-----------------------------------------------------------------------------
(* Receiving.                                                              *)

\* The n bytes before the last `after` ones in use; before the buffer lies
\* something else, read here as 0.
Taken(b, n, after) ==
    [i \in 1 .. n |-> LET at == b.len - after - n + i
                      IN  IF at \in DOMAIN b.bytes THEN b.bytes[at] ELSE 0]

Removed(b, n) == [b EXCEPT !.len = @ - n]

Short(b) == [err |-> "TRANSFER_MESSAGE_TO_SHORT", buf |-> b, fields |-> Nothing]

\* The entries are not copied: reg_data points at them, in the buffer.
advertisement_data_deserialize(b) ==
    LET num  == Taken(b, 1, 0)[1]
        rest == Removed(b, 1)
    IN  IF b.len < 1 THEN Short(b)
        ELSE IF rest.len < 2 * num THEN Short(rest)
        ELSE [err    |-> "TRANSFER_NO_ERROR",
              buf    |-> Removed(rest, 2 * num),
              fields |-> [reg_data |-> [i \in 1 .. num |->
                            [subevent |-> b.bytes[2 * i - 1], rsp_slot |-> b.bytes[2 * i]]]]]

\* _ack_data_count is NUM_RSP_SLOTS at both sides.
subevent_data_with_reg_deserialize(b) ==
    LET count == Len(sent.fields.ack_data)
    IN  IF b.len < 2 * count THEN Short(b)
        ELSE [err    |-> "TRANSFER_NO_ERROR",
              buf    |-> Removed(b, 2 * count),
              fields |-> [ack_data |-> [i \in 1 .. count |->
                            remove_le16(Taken(b, 2, 2 * (count - i)))]]]

\* Mutant: the guard forgets the metadata.
response_needs_data(len) == len

\* What has to be there besides the length: the data, the id and the counter.
response_needs(len) == len + 2 + 4

\* Mutant: the sender's id is removed before the counter.
response_fields_swapped(b, len) ==
    [data      |-> Taken(b, len, 0),
     counter   |-> remove_le32(Taken(b, 4, len + 2)),
     sender_id |-> remove_le16(Taken(b, 2, len))]

\* Data, counter and id, removed in this order.
response_fields(b, len) ==
    [data      |-> Taken(b, len, 0),
     counter   |-> remove_le32(Taken(b, 4, len)),
     sender_id |-> remove_le16(Taken(b, 2, len + 4))]

response_data_deserialize(b) ==
    LET len  == Taken(b, 1, 0)[1]
        rest == Removed(b, 1)
    IN  IF b.len < 1 THEN Short(b)
        ELSE IF rest.len < response_needs(len) THEN Short(rest)
        ELSE [err    |-> "TRANSFER_NO_ERROR",
              buf    |-> Removed(rest, len + 4 + 2),
              fields |-> response_fields(rest, len)]

\* response_cb looks behind the counter and the MAC, before either is verified,
\* for the id that tells it the key.
Peek ==
    /\ phase = "peek"
    /\ LET r == response_data_deserialize(Removed(buf, HASH_LEN + 8))
       IN  IF buf.len < HASH_LEN + 8
           THEN phase' = "dropped" /\ UNCHANGED <<buf, got>>
           ELSE /\ buf' = r.buf
                /\ IF r.err = "TRANSFER_NO_ERROR"
                   THEN phase' = "restore" /\ got' = r.fields
                   ELSE phase' = "dropped" /\ UNCHANGED got
    /\ UNCHANGED <<sent, wire, counter>>

Restore ==
    /\ phase = "restore"
    /\ buf' = [buf EXCEPT !.len = Len(buf.bytes)]
    /\ phase' = "verify"
    /\ UNCHANGED <<sent, wire, counter, got>>

\* verify_message with its checks of the length: the MAC and then the counter are
\* removed from the end.  An empty indication is ignored by the callers.
Verify ==
    /\ phase = "verify"
    /\ LET key    == IF sent.kind = "response" THEN got.sender_id ELSE 0
           body   == Taken(buf, buf.len - HASH_LEN, HASH_LEN)
           mac    == MacMatches(key, body, Taken(buf, HASH_LEN, 0))
           remote == remove_le64(Taken(buf, 8, HASH_LEN))
       IN  IF \/ buf.len < HASH_LEN
              \/ mac /\ buf.len < HASH_LEN + 8
              \/ verify_message(mac, remote, counter) # "TRANSFER_NO_ERROR"
           THEN /\ phase' = "dropped" /\ got' = Nothing
                /\ UNCHANGED <<buf, counter>>
           ELSE /\ buf' = Removed(buf, HASH_LEN + 8)
                /\ counter' = verified_counter(remote, counter)
                /\ phase' = IF sent.kind = "response" THEN "done" ELSE "parse"
                /\ UNCHANGED got
    /\ UNCHANGED <<sent, wire>>

\* parse_adv_data, confirm_recv_cb and ack_recv_cb; the first ignores an error.
Parse ==
    /\ phase = "parse"
    /\ LET r == IF sent.kind = "advertisement" THEN advertisement_data_deserialize(buf)
                                               ELSE subevent_data_with_reg_deserialize(buf)
       IN  /\ buf' = r.buf /\ got' = r.fields
           /\ phase' = IF r.err = "TRANSFER_NO_ERROR" \/ sent.kind = "advertisement"
                       THEN "done" ELSE "dropped"
    /\ UNCHANGED <<sent, wire, counter>>
-----------------------------------------------------------------------------
Next == Send \/ Deliver \/ Cut \/ Corrupt \/ Peek \/ Restore \/ Verify \/ Parse

Spec == Init /\ [][Next]_vars
-----------------------------------------------------------------------------
(* Properties.                                                             *)

\* What the receiver goes on with is what the sender put in, and its counter
\* is then at least the sender's; a message that arrives as it left is dropped
\* for its counter only.  Serializers, the three orders of removal and
\* verify_message have to agree on every width and on the order of the fields.
RoundTrip ==
    /\ phase = "done" => got = sent.fields /\ sent.counter <= counter
    /\ phase = "dropped" /\ buf.bytes = wire => sent.counter < counter

\* No field is removed from a buffer that does not hold it, in particular from
\* the bytes response_cb parses before they are verified.
NoUnderflow == buf.len >= 0

\* The buffer a message is serialized and signed in.
BufferSize(kind) ==
    IF kind = "advertisement"
    THEN 2 * POINTER + 8 + HASH_LEN      \* the pointer counts, not the entries
    ELSE TO_SEND_BUF_SIZE

\* The messages of the periodic train fit in their buffers: what request_cb and
\* set_rsp_data serialize and sign is no longer than TO_SEND_BUF_SIZE.
TrainBuffersHold ==
    phase # "serialize" /\ sent.kind # "advertisement" => Len(wire) <= BufferSize(sent.kind)
-----------------------------------------------------------------------------
(* A statement of the source that the code does not keep.                  *)

\* advertiser_fsm.c:78 reserves "sizeof(advertisement_data_t) + HASH_LEN" bytes for
\* the advertisement, and advertiser/Kconfig:18-20 puts CONFIG_NUM_REGISTER_SLOTS
\* entries in it.  Every message fits in its buffer, the advertisement too.
BuffersHold == phase # "serialize" => Len(wire) <= BufferSize(sent.kind)
=============================================================================
