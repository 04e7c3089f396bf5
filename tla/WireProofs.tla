----------------------------- MODULE WireProofs -----------------------------
(* The messages of lib/transfer, for every message, every size of a byte,  *)
(* of a MAC and of a buffer.                                               *)
EXTENDS Wire, SequenceTheorems, TLAPS

-----------------------------------------------------------------------------
(* Numbers as bytes.                                                       *)

LEMMA Split ==
    ASSUME NEW a \in Nat \ {0}, NEW n \in Nat
    PROVE  /\ n % a \in 0 .. a - 1
           /\ n \div a \in Nat
           /\ n = a * (n \div a) + (n % a)
  OBVIOUS

LEMMA Product ==
    ASSUME NEW a \in Nat \ {0}, NEW b \in Nat \ {0}
    PROVE  a * b \in Nat \ {0}
  OBVIOUS

LEMMA Monotone ==
    ASSUME NEW a \in Nat, NEW b \in Nat, NEW c \in Nat, b <= c
    PROVE  a * b <= a * c
  OBVIOUS

LEMMA SplitSmall ==
    ASSUME NEW a \in Nat \ {0}, NEW b \in Nat \ {0}, NEW n \in Nat, n < a * b
    PROVE  /\ n \div a \in 0 .. b - 1 /\ n % a \in 0 .. a - 1
           /\ (n \div a) % b = n \div a
           /\ (n % a) + a * (n \div a) = n
<1>1. n % a \in 0 .. a - 1 /\ n \div a \in Nat /\ n = a * (n \div a) + (n % a)
  BY Split
<1>2. PICK q \in Nat, r \in 0 .. a - 1 : q = n \div a /\ r = n % a
  BY <1>1
<1>3. n = a * q + r /\ a * q \in Nat
  BY <1>1, <1>2
<1>4. q < b
  <2> SUFFICES ASSUME b <= q PROVE FALSE
    BY <1>2
  <2>1. a * b <= a * q
    BY <1>2, Monotone
  <2>2. a * b \in Nat
    OBVIOUS
  <2> QED
    BY <1>2, <1>3, <2>1, <2>2
<1>5. q % b = q
  BY <1>2, <1>4
<1> QED
  BY <1>2, <1>3, <1>4, <1>5

LEMMA Sizes == U8 \in Nat \ {0} /\ U16 \in Nat \ {0} /\ U32 \in Nat \ {0}
<1>1. U8 \in Nat \ {0}
  BY WireAssumption
<1>2. U16 \in Nat \ {0}
  BY <1>1, Product DEF U16
<1> QED
  BY <1>1, <1>2, Product DEF U32

\* The bytes of a number, and the number again.
LEMMA Le16 ==
    ASSUME NEW n \in 0 .. U16 - 1
    PROVE  /\ add_le16(n) \in Seq(Nat) /\ Len(add_le16(n)) = 2
           /\ add_le16(n)[1] + U8 * add_le16(n)[2] = n
<1>1. U8 \in Nat \ {0} /\ n \in Nat /\ n < U8 * U8
  BY Sizes DEF U16
<1>2. /\ n \div U8 \in 0 .. U8 - 1 /\ n % U8 \in 0 .. U8 - 1
      /\ (n \div U8) % U8 = n \div U8 /\ (n % U8) + U8 * (n \div U8) = n
  BY <1>1, SplitSmall
<1>3. n \div U8 \in Nat /\ n % U8 \in Nat
  BY <1>1, <1>2
<1>4. add_le16(n) = <<n % U8, n \div U8>>
  BY <1>2 DEF add_le16
<1> QED
  BY <1>2, <1>3, <1>4

\* The concatenation of two byte sequences, by a name of its own.
LEMMA ConcatIs ==
    ASSUME NEW s \in Seq(Nat), NEW t \in Seq(Nat), NEW u, u = s \o t,
           NEW a, a = Len(s), NEW b, b = Len(t)
    PROVE  /\ u \in Seq(Nat) /\ Len(u) = a + b /\ a \in Nat /\ b \in Nat
           /\ \A i \in 1 .. a : u[i] = s[i]
           /\ \A i \in 1 .. b : u[a + i] = t[i]
<1>1. /\ s \o t \in Seq(Nat) /\ Len(s \o t) = Len(s) + Len(t)
      /\ \A i \in 1 .. Len(s) + Len(t) : (s \o t)[i] =
            IF i <= Len(s) THEN s[i] ELSE t[i - Len(s)]
  BY ConcatProperties, Zenon
<1>2. a \in Nat /\ b \in Nat
  BY ONLY s \in Seq(Nat), t \in Seq(Nat), a = Len(s), b = Len(t)
<1>3. /\ u \in Seq(Nat) /\ Len(u) = a + b
      /\ \A i \in 1 .. a + b : u[i] = IF i <= a THEN s[i] ELSE t[i - a]
  BY <1>1, Zenon
<1>4. /\ \A i \in 1 .. a : u[i] = s[i]
      /\ \A i \in 1 .. b : u[a + i] = t[i]
  BY ONLY <1>2, <1>3
<1> QED
  BY <1>2, <1>3, <1>4, Zenon

LEMMA Le32 ==
    ASSUME NEW n \in 0 .. U32 - 1
    PROVE  /\ add_le32(n) \in Seq(Nat) /\ Len(add_le32(n)) = 4
           /\ remove_le32(add_le32(n)) = n
<1>1. U16 \in Nat \ {0} /\ n \in Nat /\ n < U16 * U16
  BY Sizes DEF U32
<1>2. PICK lo, hi : lo = n % U16 /\ hi = n \div U16
  OBVIOUS
<1>3. hi \in 0 .. U16 - 1 /\ lo \in 0 .. U16 - 1 /\ lo + U16 * hi = n
  BY <1>1, <1>2, SplitSmall
<1>4. PICK s, t : s = add_le16(lo) /\ t = add_le16(hi)
  OBVIOUS
<1>5. /\ s \in Seq(Nat) /\ Len(s) = 2 /\ s[1] + U8 * s[2] = lo
      /\ t \in Seq(Nat) /\ Len(t) = 2 /\ t[1] + U8 * t[2] = hi
  BY <1>3, <1>4, Le16
<1>6. PICK u : u = s \o t
  BY Zenon
<1>7. /\ u \in Seq(Nat) /\ Len(u) = 2 + 2
      /\ \A i \in 1 .. 2 : u[i] = s[i]
      /\ \A i \in 1 .. 2 : u[2 + i] = t[i]
  <2>1. PICK a, b : a = Len(s) /\ b = Len(t)
    BY Zenon
  <2>2. /\ u \in Seq(Nat) /\ Len(u) = a + b
        /\ \A i \in 1 .. a : u[i] = s[i]
        /\ \A i \in 1 .. b : u[a + i] = t[i]
    <3>1. s \in Seq(Nat) /\ t \in Seq(Nat)
      BY <1>5, Zenon
    <3> QED
      BY <1>6, <2>1, <3>1, ConcatIs
  <2>3. a = 2 /\ b = 2
    BY <1>5, <2>1
  <2> QED
    BY ONLY <2>2, <2>3, Zenon
<1>8. u[1] = s[1] /\ u[2] = s[2] /\ u[3] = t[1] /\ u[4] = t[2] /\ Len(u) = 4
  BY ONLY <1>7
<1>9. word(u, 1) = lo /\ word(u, 3) = hi
  BY ONLY <1>5, <1>8 DEF word
<1>10. add_le32(n) = u
  BY <1>2, <1>4, <1>6, Zenon DEF add_le32
<1> QED
  BY <1>3, <1>7, <1>8, <1>9, <1>10 DEF remove_le32

LEMMA Le64 ==
    ASSUME NEW n \in Nat, n \div U32 < U32
    PROVE  /\ add_le64(n) \in Seq(Nat) /\ Len(add_le64(n)) = 8
           /\ remove_le64(add_le64(n)) = n
<1>1. U32 \in Nat \ {0}
  BY Sizes
<1>2. PICK lo, hi : lo = n % U32 /\ hi = n \div U32
  OBVIOUS
<1>3. hi \in 0 .. U32 - 1 /\ lo \in 0 .. U32 - 1 /\ lo + U32 * hi = n
  <2>1. lo \in 0 .. U32 - 1 /\ hi \in Nat /\ n = U32 * hi + lo /\ hi < U32
    BY <1>1, <1>2, Split
  <2>2. U32 * hi \in Nat
    BY <1>1, <2>1
  <2> QED
    BY <1>1, <2>1, <2>2
<1>4. PICK s, t : s = add_le32(lo) /\ t = add_le32(hi)
  OBVIOUS
<1>5. /\ s \in Seq(Nat) /\ Len(s) = 4 /\ remove_le32(s) = lo
      /\ t \in Seq(Nat) /\ Len(t) = 4 /\ remove_le32(t) = hi
  BY <1>3, <1>4, Le32
<1>6. PICK u : u = s \o t
  BY Zenon
<1>7. /\ u \in Seq(Nat) /\ Len(u) = 4 + 4
      /\ \A i \in 1 .. 4 : u[i] = s[i]
      /\ \A i \in 1 .. 4 : u[4 + i] = t[i]
  <2>1. PICK a, b : a = Len(s) /\ b = Len(t)
    BY Zenon
  <2>2. /\ u \in Seq(Nat) /\ Len(u) = a + b
        /\ \A i \in 1 .. a : u[i] = s[i]
        /\ \A i \in 1 .. b : u[a + i] = t[i]
    <3>1. s \in Seq(Nat) /\ t \in Seq(Nat)
      BY <1>5, Zenon
    <3> QED
      BY <1>6, <2>1, <3>1, ConcatIs
  <2>3. a = 4 /\ b = 4
    BY <1>5, <2>1
  <2> QED
    BY ONLY <2>2, <2>3, Zenon
<1>8. /\ u[1] = s[1] /\ u[2] = s[2] /\ u[3] = s[3] /\ u[4] = s[4]
      /\ u[5] = t[1] /\ u[6] = t[2] /\ u[7] = t[3] /\ u[8] = t[4]
      /\ Len(u) = 8
  BY ONLY <1>7
<1>9. /\ word(u, 1) = word(s, 1) /\ word(u, 3) = word(s, 3)
      /\ word(u, 5) = word(t, 1) /\ word(u, 7) = word(t, 3)
  BY ONLY <1>8 DEF word
<1>10. remove_le64(u) = remove_le32(s) + U32 * remove_le32(t)
  BY <1>9, Zenon DEF remove_le64, remove_le32
<1>11. add_le64(n) = u
  BY <1>2, <1>4, <1>6, Zenon DEF add_le64
<1> QED
  BY <1>3, <1>5, <1>7, <1>8, <1>10, <1>11
-----------------------------------------------------------------------------
(* Where the fields lie.                                                   *)

\* x lies in bytes behind the first k.
Part(bytes, k, x) ==
    \A i \in 1 .. Len(x) : k + i \in 1 .. Len(bytes) /\ bytes[k + i] = x[i]

LEMMA PartLeft ==
    ASSUME NEW s \in Seq(Nat), NEW t \in Seq(Nat), NEW u, u = s \o t,
           NEW k \in Nat, NEW x \in Seq(Nat), Part(s, k, x)
    PROVE  Part(u, k, x)
<1>1. PICK a, b : a = Len(s) /\ b = Len(t)
  BY Zenon
<1>2. Len(u) = a + b /\ a \in Nat /\ b \in Nat /\ \A i \in 1 .. a : u[i] = s[i]
  BY <1>1, ConcatIs
<1>3. \A i \in 1 .. Len(x) : k + i \in 1 .. a /\ s[k + i] = x[i]
  BY <1>1, Zenon DEF Part
<1>4. \A m \in 1 .. a : m \in 1 .. a + b
  BY ONLY <1>2
<1> QED
  BY <1>2, <1>3, <1>4, Zenon DEF Part

LEMMA PartRight ==
    ASSUME NEW s \in Seq(Nat), NEW t \in Seq(Nat), NEW u, u = s \o t
    PROVE  Part(u, Len(s), t) /\ Part(u, 0, s)
<1>1. PICK a, b : a = Len(s) /\ b = Len(t)
  BY Zenon
<1>2. /\ Len(u) = a + b /\ a \in Nat /\ b \in Nat
      /\ \A i \in 1 .. a : u[i] = s[i]
      /\ \A i \in 1 .. b : u[a + i] = t[i]
  BY <1>1, ConcatIs
<1>3. /\ \A i \in 1 .. b : a + i \in 1 .. a + b /\ u[a + i] = t[i]
      /\ \A i \in 1 .. a : 0 + i \in 1 .. a + b /\ u[0 + i] = s[i]
  BY ONLY <1>2
<1> QED
  BY <1>1, <1>2, <1>3, Zenon DEF Part

LEMMA PartOfPart ==
    ASSUME NEW u, NEW s, NEW x, NEW k \in Nat, Len(x) \in Nat, Len(s) \in Nat,
           Part(u, 0, s), Part(s, k, x)
    PROVE  Part(u, k, x)
<1> SUFFICES ASSUME NEW i \in 1 .. Len(x)
             PROVE  k + i \in 1 .. Len(u) /\ u[k + i] = x[i]
  BY Zenon DEF Part
<1>1. PICK j : j = k + i
  BY Zenon
<1>2. j \in 1 .. Len(s) /\ s[j] = x[i]
  BY <1>1, Zenon DEF Part
<1>3. 0 + j = j
  BY <1>1
<1>4. j \in 1 .. Len(u) /\ u[j] = s[j]
  BY <1>2, <1>3, Zenon DEF Part
<1> QED
  BY <1>1, <1>2, <1>4, Zenon

LEMMA Joined ==
    ASSUME NEW s \in Seq(Nat), NEW t \in Seq(Nat), NEW u, u = s \o t
    PROVE  u \in Seq(Nat) /\ Len(u) = Len(s) + Len(t)
  BY ConcatProperties, Zenon

\* The n bytes before the last `after` ones in use are x, behind the first k.
EndsWith(b, n, after, k, x) ==
    /\ b.bytes \in Seq(Nat) /\ b.len \in Nat /\ after \in Nat /\ k \in Nat
    /\ x \in Seq(Nat) /\ n = Len(x) /\ b.len - after = k + n
    /\ Part(b.bytes, k, x)

\* What the receiver takes is what lies there.
LEMMA TakenPart ==
    ASSUME NEW b, NEW n, NEW after, NEW k, NEW x, EndsWith(b, n, after, k, x)
    PROVE  Taken(b, n, after) = x
<1>1. PICK bytes, len : bytes = b.bytes /\ len = b.len
  BY Zenon
<1>2. /\ bytes \in Seq(Nat) /\ len \in Nat /\ after \in Nat /\ k \in Nat
      /\ x \in Seq(Nat) /\ n = Len(x) /\ len - after = k + n
      /\ Part(bytes, k, x)
  BY <1>1, Zenon DEF EndsWith
<1>3. n \in Nat /\ DOMAIN bytes = 1 .. Len(bytes)
  BY <1>2
<1>4. ASSUME NEW i \in 1 .. n
      PROVE  /\ len - after - n + i = k + i
             /\ k + i \in DOMAIN bytes /\ bytes[k + i] = x[i]
  <2>1. len - after - n + i = k + i
    BY <1>2, <1>3
  <2> QED
    BY <1>2, <1>3, <2>1 DEF Part
<1>5. Taken(b, n, after) = [i \in 1 .. n |-> x[i]]
  BY <1>1, <1>4 DEF Taken
<1>6. x = [i \in 1 .. n |-> x[i]]
  BY <1>2
<1> QED
  BY <1>5, <1>6
-----------------------------------------------------------------------------
(* The messages.                                                           *)

LEMMA LaidPairs ==
    ASSUME NEW n \in Nat, NEW items, DOMAIN items = 1 .. n, Len(items) = n,
           \A i \in 1 .. n : items[i][1] \in Nat /\ items[i][2] \in Nat
    PROVE  /\ Laid(2, items) \in Seq(Nat) /\ Len(Laid(2, items)) = 2 * n
           /\ \A i \in 1 .. n : /\ Laid(2, items)[2 * i - 1] = items[i][1]
                                /\ Laid(2, items)[2 * i] = items[i][2]
<1>1. PICK u : u = [k \in 1 .. 2 * n |-> items[1 + ((k - 1) \div 2)][1 + ((k - 1) % 2)]]
  BY Zenon
<1>2. Laid(2, items) = u
  BY <1>1, Zenon DEF Laid
<1>3. ASSUME NEW k \in 1 .. 2 * n
      PROVE  u[k] \in Nat
  <2>1. PICK q, r : q = 1 + ((k - 1) \div 2) /\ r = 1 + ((k - 1) % 2)
    BY Zenon
  <2>2. q \in 1 .. n /\ r \in {1, 2}
    BY <2>1
  <2>3. u[k] = items[q][r]
    BY <1>1, <2>1, Zenon
  <2> QED
    BY <2>2, <2>3, Zenon
<1>4. u \in [1 .. 2 * n -> Nat]
  BY <1>1, <1>3, Zenon
<1>5. u \in Seq(Nat) /\ Len(u) = 2 * n
  <2>1. PICK m : m = 2 * n
    BY Zenon
  <2>2. m \in Nat
    BY <2>1
  <2> QED
    BY ONLY <1>4, <2>1, <2>2
<1>6. ASSUME NEW i \in 1 .. n
      PROVE  u[2 * i - 1] = items[i][1] /\ u[2 * i] = items[i][2]
  <2>1. PICK j, k : j = 2 * i - 1 /\ k = 2 * i
    BY Zenon
  <2>2. /\ j \in 1 .. 2 * n /\ 1 + ((j - 1) \div 2) = i /\ 1 + ((j - 1) % 2) = 1
        /\ k \in 1 .. 2 * n /\ 1 + ((k - 1) \div 2) = i /\ 1 + ((k - 1) % 2) = 2
    BY <2>1
  <2>3. u[j] = items[i][1] /\ u[k] = items[i][2]
    BY <1>1, <2>2, Zenon
  <2> QED
    BY <2>1, <2>3, Zenon
<1> QED
  BY <1>2, <1>5, <1>6, Zenon

\* How the fields of a message lie before its counter.
Layout(m, body) ==
    CASE m.kind = "advertisement" ->
           LET n == Len(m.fields.reg_data)
           IN  /\ Len(body) = 2 * n + 1 /\ body[2 * n + 1] = n
               /\ \A i \in 1 .. n : /\ body[2 * i - 1] = m.fields.reg_data[i].subevent
                                    /\ body[2 * i] = m.fields.reg_data[i].rsp_slot
      [] m.kind = "subevent" ->
           LET n == Len(m.fields.ack_data)
           IN  /\ Len(body) = 2 * n
               /\ \A i \in 1 .. n : body[2 * i - 1] + U8 * body[2 * i] = m.fields.ack_data[i]
      [] m.kind = "response" ->
           LET n == Len(m.fields.data)
           IN  /\ Len(body) = n + 7 /\ body[n + 7] = n
               /\ Part(body, 0, add_le16(m.fields.sender_id))
               /\ Part(body, 2, add_le32(m.fields.counter))
               /\ Part(body, 6, m.fields.data)

LEMMA AdvertisementBody ==
    ASSUME NEW m, IsMessage(m), m.kind = "advertisement",
           NEW body, body = advertisement_data_serialize(m.fields)
    PROVE  body \in Seq(Nat) /\ Layout(m, body)
<1>1. PICK regs : regs = m.fields.reg_data
  BY Zenon
<1>2. regs \in Seq([subevent: 0 .. U8 - 1, rsp_slot: 0 .. U8 - 1])
  BY <1>1 DEF IsMessage
<1>3. PICK n \in Nat : n = Len(regs) /\ DOMAIN regs = 1 .. n
  BY <1>2
<1>4. \A i \in 1 .. n : regs[i].subevent \in Nat /\ regs[i].rsp_slot \in Nat
  <2> TAKE i \in 1 .. n
  <2>1. regs[i] \in [subevent: 0 .. U8 - 1, rsp_slot: 0 .. U8 - 1]
    BY <1>2, <1>3, ElementOfSeq, Zenon
  <2> QED
    BY <2>1, Sizes
<1>5. PICK items : items = [i \in DOMAIN regs |-> register_data_serialize(regs[i])]
  BY Zenon
<1>6. /\ DOMAIN items = 1 .. n /\ Len(items) = n
      /\ \A i \in 1 .. n : items[i][1] = regs[i].subevent /\ items[i][2] = regs[i].rsp_slot
  BY <1>3, <1>5 DEF register_data_serialize
<1>7. PICK s : s = Laid(2, items)
  BY Zenon
<1>8. /\ s \in Seq(Nat) /\ Len(s) = 2 * n
      /\ \A i \in 1 .. n : s[2 * i - 1] = items[i][1] /\ s[2 * i] = items[i][2]
  <2>1. \A i \in 1 .. n : items[i][1] \in Nat /\ items[i][2] \in Nat
    BY <1>4, <1>6, Zenon
  <2> QED
    BY <1>6, <1>7, <2>1, LaidPairs, Zenon
<1>9. body = s \o <<n>>
  BY <1>1, <1>3, <1>5, <1>7, Zenon DEF advertisement_data_serialize
<1>10. /\ body \in Seq(Nat) /\ Len(body) = 2 * n + 1
       /\ \A i \in 1 .. 2 * n : body[i] = s[i]
       /\ body[2 * n + 1] = n
  <2>1. PICK t, a, b : t = <<n>> /\ a = Len(s) /\ b = Len(t)
    BY Zenon
  <2>2. t \in Seq(Nat) /\ b = 1 /\ t[1] = n /\ a = 2 * n
    BY <1>8, <2>1
  <2>3. s \in Seq(Nat) /\ t \in Seq(Nat) /\ body = s \o t
    BY <1>8, <1>9, <2>1, <2>2, Zenon
  <2>4. /\ body \in Seq(Nat) /\ Len(body) = a + b
        /\ \A i \in 1 .. a : body[i] = s[i]
        /\ \A i \in 1 .. b : body[a + i] = t[i]
    BY <2>1, <2>3, ConcatIs
  <2> QED
    BY ONLY <2>2, <2>4
<1>11. \A i \in 1 .. n : body[2 * i - 1] = regs[i].subevent /\ body[2 * i] = regs[i].rsp_slot
  <2> TAKE i \in 1 .. n
  <2>1. 2 * i - 1 \in 1 .. 2 * n /\ 2 * i \in 1 .. 2 * n
    OBVIOUS
  <2> QED
    BY <1>6, <1>8, <1>10, <2>1, Zenon
<1> QED
  BY <1>1, <1>3, <1>10, <1>11, Zenon DEF Layout

LEMMA SubeventBody ==
    ASSUME NEW m, IsMessage(m), m.kind = "subevent",
           NEW body, body = subevent_data_with_reg_serialize(m.fields)
    PROVE  body \in Seq(Nat) /\ Layout(m, body)
<1>1. PICK acks : acks = m.fields.ack_data
  BY Zenon
<1>2. acks \in Seq(0 .. U16 - 1)
  BY <1>1 DEF IsMessage
<1>3. PICK n \in Nat : n = Len(acks) /\ DOMAIN acks = 1 .. n
  BY <1>2
<1>4. PICK items : items = [i \in DOMAIN acks |-> add_le16(acks[i])]
  BY Zenon
<1>5. DOMAIN items = 1 .. n /\ Len(items) = n
  BY <1>3, <1>4
<1>6. \A i \in 1 .. n : /\ items[i][1] \in Nat /\ items[i][2] \in Nat
                        /\ items[i][1] + U8 * items[i][2] = acks[i]
  <2> TAKE i \in 1 .. n
  <2>1. acks[i] \in 0 .. U16 - 1
    BY <1>2, <1>3, ElementOfSeq, Zenon
  <2>2. PICK x : x = add_le16(acks[i])
    BY Zenon
  <2>3. x \in Seq(Nat) /\ Len(x) = 2 /\ x[1] + U8 * x[2] = acks[i]
    BY <2>1, <2>2, Le16, Zenon
  <2>4. items[i] = x
    BY <1>3, <1>4, <2>2, Zenon
  <2>5. x[1] \in Nat /\ x[2] \in Nat
    <3>1. x \in Seq(Nat) /\ Len(x) = 2
      BY <2>3, Zenon
    <3>2. 1 \in 1 .. Len(x) /\ 2 \in 1 .. Len(x)
      BY <3>1
    <3> QED
      BY <3>1, <3>2, ElementOfSeq, Zenon
  <2> QED
    BY <2>3, <2>4, <2>5, Zenon
<1>7. body = Laid(2, items)
  BY <1>1, <1>4, Zenon DEF subevent_data_with_reg_serialize
<1>8. /\ body \in Seq(Nat) /\ Len(body) = 2 * n
      /\ \A i \in 1 .. n : body[2 * i - 1] = items[i][1] /\ body[2 * i] = items[i][2]
  <2>1. \A i \in 1 .. n : items[i][1] \in Nat /\ items[i][2] \in Nat
    BY <1>6, Zenon
  <2>2. /\ Laid(2, items) \in Seq(Nat) /\ Len(Laid(2, items)) = 2 * n
        /\ \A i \in 1 .. n : /\ Laid(2, items)[2 * i - 1] = items[i][1]
                             /\ Laid(2, items)[2 * i] = items[i][2]
    BY <1>5, <2>1, LaidPairs
  <2> QED
    BY <1>7, <2>2, Zenon
<1>9. \A i \in 1 .. n : body[2 * i - 1] + U8 * body[2 * i] = acks[i]
  BY <1>6, <1>8, Zenon
<1>10. m.kind # "advertisement"
  OBVIOUS
<1> QED
  BY <1>1, <1>3, <1>8, <1>9, <1>10, Zenon DEF Layout

LEMMA ResponseBody ==
    ASSUME NEW m, IsMessage(m), m.kind = "response",
           NEW body, body = response_data_serialize(m.fields)
    PROVE  body \in Seq(Nat) /\ Layout(m, body)
<1>1. PICK id, ctr, data : id = m.fields.sender_id /\ ctr = m.fields.counter
                           /\ data = m.fields.data
  BY Zenon
<1>2. id \in 0 .. U16 - 1 /\ ctr \in 0 .. U32 - 1 /\ data \in Seq(0 .. U8 - 1)
  BY <1>1 DEF IsMessage
<1>3. data \in Seq(Nat)
  <2>1. PICK n \in Nat : n = Len(data) /\ data \in [1 .. n -> 0 .. U8 - 1]
    BY <1>2, LenProperties, Zenon
  <2>2. data \in [1 .. n -> Nat]
    BY <2>1, Sizes
  <2> QED
    BY <2>2
<1>4. PICK n \in Nat : n = Len(data)
  BY <1>3
<1>5. PICK s, t, e : s = add_le16(id) /\ t = add_le32(ctr) /\ e = <<n>>
  BY Zenon
<1>6. s \in Seq(Nat) /\ Len(s) = 2
  BY <1>2, <1>5, Le16, Zenon
<1>7. t \in Seq(Nat) /\ Len(t) = 4
  BY <1>2, <1>5, Le32, Zenon
<1>8. e \in Seq(Nat) /\ Len(e) = 1 /\ e[1] = n
  BY <1>4, <1>5
<1>9. PICK u, v : u = s \o t /\ v = u \o data
  BY Zenon
<1>10. body = v \o e
  BY <1>1, <1>4, <1>5, <1>9, Zenon DEF response_data_serialize
<1>11. u \in Seq(Nat) /\ Len(u) = 6
  <2>1. u \in Seq(Nat) /\ Len(u) = Len(s) + Len(t)
    BY <1>6, <1>7, <1>9, Joined, Zenon
  <2> QED
    BY <2>1, <1>6, <1>7
<1>12. v \in Seq(Nat) /\ Len(v) = n + 6
  <2>1. v \in Seq(Nat) /\ Len(v) = Len(u) + Len(data)
    BY <1>3, <1>9, <1>11, Joined, Zenon
  <2> QED
    BY <2>1, <1>4, <1>11
<1>13. body \in Seq(Nat) /\ Len(body) = n + 7
  <2>1. body \in Seq(Nat) /\ Len(body) = Len(v) + Len(e)
    BY <1>8, <1>10, <1>12, Joined, Zenon
  <2> QED
    BY <2>1, <1>4, <1>8, <1>12
<1>14. Part(u, 0, s) /\ Part(u, 2, t)
  BY <1>6, <1>7, <1>9, PartRight
<1>15. Part(v, 0, s) /\ Part(v, 2, t)
  BY <1>3, <1>6, <1>7, <1>9, <1>11, <1>14, PartLeft
<1>16. Part(v, 6, data)
  BY <1>3, <1>9, <1>11, PartRight
<1>17. Part(body, 0, s) /\ Part(body, 2, t) /\ Part(body, 6, data)
  BY <1>3, <1>6, <1>7, <1>8, <1>10, <1>12, <1>15, <1>16, PartLeft
<1>18. body[n + 7] = n
  <2>1. Part(body, Len(v), e)
    BY <1>8, <1>10, <1>12, PartRight
  <2>2. body[Len(v) + 1] = e[1]
    BY <1>8, <2>1 DEF Part
  <2>3. Len(v) + 1 = n + 7
    BY <1>4, <1>12
  <2> QED
    BY <1>8, <2>2, <2>3, Zenon
<1>19. m.kind # "advertisement" /\ m.kind # "subevent"
  OBVIOUS
<1> QED
  BY <1>1, <1>4, <1>5, <1>13, <1>17, <1>18, <1>19, Zenon DEF Layout

\* What leaves the sender: the fields, eight bytes of counter and the MAC.
Framed(m, w, body, ctr, n) ==
    /\ body \in Seq(Nat) /\ n = Len(body) /\ n \in Nat /\ Layout(m, body)
    /\ ctr \in Seq(Nat) /\ Len(ctr) = 8 /\ remove_le64(ctr) = m.counter
    /\ Serialized(m) \in Seq(Nat) /\ Len(Serialized(m)) = n + 8
    /\ MAC \in Seq(Nat) /\ Len(MAC) = HASH_LEN
    /\ w \in Seq(Nat) /\ Len(w) = n + 8 + HASH_LEN
    /\ Part(w, 0, body) /\ Part(w, n, ctr) /\ Part(w, n + 8, MAC)
    /\ Part(w, 0, Serialized(m))

LEMMA Frames ==
    ASSUME NEW m \in Messages, NEW w, w = Serialized(m) \o MAC
    PROVE  \E body, ctr, n : Framed(m, w, body, ctr, n)
<1>1. IsMessage(m)
  BY WireAssumption, Zenon
<1>2. PICK ctr : ctr = add_le64(m.counter)
  BY Zenon
<1>3. ctr \in Seq(Nat) /\ Len(ctr) = 8 /\ remove_le64(ctr) = m.counter
  <2>1. m.counter \in Nat /\ m.counter \div U32 < U32
    BY <1>1, Zenon DEF IsMessage
  <2> QED
    BY <1>2, <2>1, Le64, Zenon
<1>4. PICK body : body \in Seq(Nat) /\ Layout(m, body) /\ Serialized(m) = body \o ctr
  <2>1. CASE m.kind = "advertisement"
    <3>1. Serialized(m) = advertisement_data_serialize(m.fields) \o ctr
      BY <1>2, <2>1, Zenon DEF Serialized
    <3> QED
      BY <1>1, <2>1, <3>1, AdvertisementBody, Zenon
  <2>2. CASE m.kind = "subevent"
    <3>1. Serialized(m) = subevent_data_with_reg_serialize(m.fields) \o ctr
      <4>1. m.kind # "advertisement"
        BY <2>2
      <4> QED
        BY <1>2, <2>2, <4>1, Zenon DEF Serialized
    <3> QED
      BY <1>1, <2>2, <3>1, SubeventBody, Zenon
  <2>3. CASE m.kind = "response"
    <3>1. Serialized(m) = response_data_serialize(m.fields) \o ctr
      <4>1. m.kind # "advertisement" /\ m.kind # "subevent"
        BY <2>3
      <4> QED
        BY <1>2, <2>3, <4>1, Zenon DEF Serialized
    <3> QED
      BY <1>1, <2>3, <3>1, ResponseBody, Zenon
  <2> QED
    BY <1>1, <2>1, <2>2, <2>3, Zenon DEF IsMessage
<1>5. PICK s, n : s = Serialized(m) /\ n = Len(body)
  BY Zenon
<1>6. n \in Nat
  BY <1>4, <1>5, LenProperties, Zenon
<1>7. s \in Seq(Nat) /\ Len(s) = n + 8
  <2>1. s \in Seq(Nat) /\ Len(s) = Len(body) + Len(ctr)
    BY <1>3, <1>4, <1>5, Joined, Zenon
  <2> QED
    BY <1>3, <1>5, <2>1, Zenon
<1>8. MAC \in Seq(Nat) /\ Len(MAC) = HASH_LEN
  <2>1. HASH_LEN \in Nat /\ U8 \in Nat
    BY WireAssumption
  <2>2. MAC \in [1 .. HASH_LEN -> Nat]
    BY <2>1 DEF MAC
  <2> QED
    BY <2>1, <2>2
<1>9. w = s \o MAC
  BY <1>5, Zenon
<1>10. w \in Seq(Nat) /\ Len(w) = n + 8 + HASH_LEN
  <2>1. w \in Seq(Nat) /\ Len(w) = Len(s) + Len(MAC)
    BY <1>7, <1>8, <1>9, Joined, Zenon
  <2> QED
    BY <1>7, <1>8, <2>1, Zenon
<1>11. Part(s, 0, body) /\ Part(s, n, ctr)
  BY <1>3, <1>4, <1>5, PartRight, Zenon
<1>12. Part(w, 0, s) /\ Part(w, n + 8, MAC)
  BY <1>7, <1>8, <1>9, PartRight, Zenon
<1>13. Part(w, 0, body) /\ Part(w, n, ctr)
  <2>1. 0 \in Nat
    OBVIOUS
  <2> QED
    BY <1>3, <1>4, <1>6, <1>7, <1>8, <1>9, <1>11, <2>1, PartLeft, Zenon
<1>14. Framed(m, w, body, ctr, n)
  BY <1>3, <1>4, <1>5, <1>6, <1>7, <1>8, <1>10, <1>12, <1>13, Zenon DEF Framed
<1> QED
  BY <1>14, Zenon
-----------------------------------------------------------------------------
(* The receiver's calls.                                                   *)

LEMMA TakenByte ==
    ASSUME NEW bytes \in Seq(Nat), NEW len \in 0 .. Len(bytes),
           NEW b, b = [bytes |-> bytes, len |-> len]
    PROVE  Taken(b, 1, 0)[1] \in Nat /\ (len >= 1 => Taken(b, 1, 0)[1] = bytes[len])
<1>1. DOMAIN bytes = 1 .. Len(bytes) /\ \A i \in 1 .. Len(bytes) : bytes[i] \in Nat
  OBVIOUS
<1>2. Taken(b, 1, 0)[1] = IF len - 0 - 1 + 1 \in DOMAIN bytes THEN bytes[len - 0 - 1 + 1] ELSE 0
  BY DEF Taken
<1>3. len - 0 - 1 + 1 = len
  OBVIOUS
<1> QED
  BY <1>1, <1>2, <1>3

LEMMA RemovedIs ==
    ASSUME NEW bytes, NEW len, NEW k, NEW b, b = [bytes |-> bytes, len |-> len]
    PROVE  Removed(b, k) = [bytes |-> bytes, len |-> len - k]
  BY DEF Removed

\* No deserializer takes more than there is.
LEMMA AdvertisementHolds ==
    ASSUME NEW bytes \in Seq(Nat), NEW len \in 0 .. Len(bytes),
           NEW b, b = [bytes |-> bytes, len |-> len]
    PROVE  \E l \in 0 .. len :
              advertisement_data_deserialize(b).buf = [bytes |-> bytes, len |-> l]
<1>1. PICK num \in Nat : num = Taken(b, 1, 0)[1]
  BY TakenByte, Zenon
<1>2. Removed(b, 1) = [bytes |-> bytes, len |-> len - 1]
  BY RemovedIs
<1>3. Removed(Removed(b, 1), 2 * num) = [bytes |-> bytes, len |-> len - 1 - 2 * num]
  BY <1>2, RemovedIs
<1>4. CASE len < 1
  BY <1>4 DEF advertisement_data_deserialize, Short
<1>5. CASE ~(len < 1) /\ len - 1 < 2 * num
  <2>1. len - 1 \in 0 .. len
    BY <1>5
  <2>2. advertisement_data_deserialize(b).buf = [bytes |-> bytes, len |-> len - 1]
    BY <1>1, <1>2, <1>5 DEF advertisement_data_deserialize, Short
  <2> QED
    BY <2>1, <2>2, Zenon
<1>6. CASE ~(len < 1) /\ ~(len - 1 < 2 * num)
  <2>1. len - 1 - 2 * num \in 0 .. len
    BY <1>1, <1>6
  <2>2. advertisement_data_deserialize(b).buf = [bytes |-> bytes, len |-> len - 1 - 2 * num]
    BY <1>1, <1>2, <1>3, <1>6 DEF advertisement_data_deserialize
  <2> QED
    BY <2>1, <2>2, Zenon
<1> QED
  BY <1>4, <1>5, <1>6, Zenon

LEMMA SubeventHolds ==
    ASSUME NEW bytes \in Seq(Nat), NEW len \in 0 .. Len(bytes), Len(sent.fields.ack_data) \in Nat,
           NEW b, b = [bytes |-> bytes, len |-> len]
    PROVE  \E l \in 0 .. len :
              subevent_data_with_reg_deserialize(b).buf = [bytes |-> bytes, len |-> l]
<1>1. PICK count \in Nat : count = Len(sent.fields.ack_data)
  BY Zenon
<1>2. Removed(b, 2 * count) = [bytes |-> bytes, len |-> len - 2 * count]
  BY DEF Removed
<1>3. CASE len < 2 * count
  BY <1>1, <1>3 DEF subevent_data_with_reg_deserialize, Short
<1>4. CASE ~(len < 2 * count)
  <2>1. len - 2 * count \in 0 .. len
    BY <1>1, <1>4
  <2>2. subevent_data_with_reg_deserialize(b).buf = [bytes |-> bytes, len |-> len - 2 * count]
    BY <1>1, <1>2, <1>4 DEF subevent_data_with_reg_deserialize
  <2> QED
    BY <2>1, <2>2, Zenon
<1> QED
  BY <1>3, <1>4, Zenon

LEMMA ResponseHolds ==
    ASSUME NEW bytes \in Seq(Nat), NEW len \in 0 .. Len(bytes),
           NEW b, b = [bytes |-> bytes, len |-> len]
    PROVE  \E l \in 0 .. len :
              response_data_deserialize(b).buf = [bytes |-> bytes, len |-> l]
<1>1. PICK num \in Nat : num = Taken(b, 1, 0)[1]
  BY TakenByte, Zenon
<1>2. Removed(b, 1) = [bytes |-> bytes, len |-> len - 1]
  BY RemovedIs
<1>3. Removed(Removed(b, 1), num + 4 + 2) = [bytes |-> bytes, len |-> len - 1 - (num + 4 + 2)]
  BY <1>2, RemovedIs
<1>4. CASE len < 1
  BY <1>4 DEF response_data_deserialize, Short
<1>5. CASE ~(len < 1) /\ len - 1 < num + 2 + 4
  <2>1. len - 1 \in 0 .. len
    BY <1>5
  <2>2. response_data_deserialize(b).buf = [bytes |-> bytes, len |-> len - 1]
    BY <1>1, <1>2, <1>5 DEF response_data_deserialize, Short, response_needs
  <2> QED
    BY <2>1, <2>2, Zenon
<1>6. CASE ~(len < 1) /\ ~(len - 1 < num + 2 + 4)
  <2>1. len - 1 - (num + 4 + 2) \in 0 .. len
    BY ONLY len \in 0 .. Len(bytes), Len(bytes) \in Nat, num \in Nat, <1>6
  <2>2. response_data_deserialize(b).buf = [bytes |-> bytes, len |-> len - 1 - (num + 4 + 2)]
    BY <1>1, <1>2, <1>3, <1>6 DEF response_data_deserialize, response_needs
  <2> QED
    BY <2>1, <2>2, Zenon
<1> QED
  BY <1>4, <1>5, <1>6, Zenon

\* A message that arrives as it left is read as what it was.
LEMMA InPart ==
    ASSUME NEW bytes, NEW x, Part(bytes, 0, x), NEW i \in 1 .. Len(x), i \in Nat
    PROVE  bytes[i] = x[i]
<1>1. 0 + i = i
  OBVIOUS
<1> QED
  BY <1>1, Zenon DEF Part

LEMMA AdvertisementParsed ==
    ASSUME IsMessage(sent), sent.kind = "advertisement",
           NEW w, NEW body, NEW ctr, NEW n, Framed(sent, w, body, ctr, n),
           NEW b, b = [bytes |-> w, len |-> n]
    PROVE  /\ advertisement_data_deserialize(b).err = "TRANSFER_NO_ERROR"
           /\ advertisement_data_deserialize(b).fields = sent.fields
<1>1. PICK regs : regs = sent.fields.reg_data
  BY Zenon
<1>2. /\ regs \in Seq([subevent: 0 .. U8 - 1, rsp_slot: 0 .. U8 - 1])
      /\ sent.fields = [reg_data |-> regs]
  BY <1>1 DEF IsMessage
<1>3. PICK num \in Nat : num = Len(regs) /\ regs \in [1 .. num -> [subevent: 0 .. U8 - 1, rsp_slot: 0 .. U8 - 1]]
  BY <1>2, LenProperties, Zenon
<1>4. /\ Len(body) = 2 * num + 1 /\ body[2 * num + 1] = num
      /\ \A i \in 1 .. num : body[2 * i - 1] = regs[i].subevent /\ body[2 * i] = regs[i].rsp_slot
  BY <1>1, <1>3, Zenon DEF Framed, Layout
<1>5. /\ w \in Seq(Nat) /\ Len(w) = n + 8 + HASH_LEN /\ n = Len(body)
      /\ Part(w, 0, body) /\ HASH_LEN \in Nat
  BY WireAssumption DEF Framed
<1>6. n = 2 * num + 1 /\ n \in 0 .. Len(w)
  BY <1>3, <1>4, <1>5
<1>7. w[n] = num
  <2>1. n \in 1 .. Len(body) /\ n \in Nat
    BY <1>3, <1>5, <1>6
  <2>2. w[n] = body[n]
    BY <1>5, <2>1, InPart, Zenon
  <2> QED
    BY <1>4, <1>6, <2>2, Zenon
<1>8. \A i \in 1 .. num : w[2 * i - 1] = regs[i].subevent /\ w[2 * i] = regs[i].rsp_slot
  <2> TAKE i \in 1 .. num
  <2>1. PICK j, k : j = 2 * i - 1 /\ k = 2 * i
    BY Zenon
  <2>2. j \in 1 .. Len(body) /\ j \in Nat /\ k \in 1 .. Len(body) /\ k \in Nat
    BY <1>5, <1>6, <2>1
  <2>3. w[j] = body[j] /\ w[k] = body[k]
    BY <1>5, <2>2, InPart, Zenon
  <2> QED
    BY <1>4, <2>1, <2>3, Zenon
<1>9. Taken(b, 1, 0)[1] = num
  <2>1. n >= 1
    BY <1>6
  <2> QED
    BY <1>5, <1>6, <1>7, <2>1, TakenByte, Zenon
<1>10. [i \in 1 .. num |-> [subevent |-> w[2 * i - 1], rsp_slot |-> w[2 * i]]] = regs
  <2>1. \A i \in 1 .. num : [subevent |-> w[2 * i - 1], rsp_slot |-> w[2 * i]] = regs[i]
    <3> TAKE i \in 1 .. num
    <3>1. regs[i] \in [subevent: 0 .. U8 - 1, rsp_slot: 0 .. U8 - 1]
      BY <1>3, Zenon
    <3>2. regs[i] = [subevent |-> regs[i].subevent, rsp_slot |-> regs[i].rsp_slot]
      BY <3>1
    <3> QED
      BY <1>8, <3>2, Zenon
  <2> QED
    BY <1>3, <2>1, Zenon
<1>11. Removed(b, 1) = [bytes |-> w, len |-> n - 1]
  BY RemovedIs, Zenon
<1>12. ~(b.len < 1) /\ ~(Removed(b, 1).len < 2 * num) /\ b.bytes = w
  BY <1>3, <1>6, <1>11
<1>13. advertisement_data_deserialize(b) =
         [err |-> "TRANSFER_NO_ERROR", buf |-> Removed(Removed(b, 1), 2 * num),
          fields |-> [reg_data |-> regs]]
  BY <1>9, <1>10, <1>12, Zenon DEF advertisement_data_deserialize
<1> QED
  BY <1>2, <1>13

LEMMA SubeventParsed ==
    ASSUME IsMessage(sent), sent.kind = "subevent",
           NEW w, NEW body, NEW ctr, NEW n, Framed(sent, w, body, ctr, n),
           NEW b, b = [bytes |-> w, len |-> n]
    PROVE  /\ subevent_data_with_reg_deserialize(b).err = "TRANSFER_NO_ERROR"
           /\ subevent_data_with_reg_deserialize(b).fields = sent.fields
<1>1. PICK acks : acks = sent.fields.ack_data
  BY Zenon
<1>2. acks \in Seq(0 .. U16 - 1) /\ sent.fields = [ack_data |-> acks]
  BY <1>1 DEF IsMessage
<1>3. PICK count \in Nat : count = Len(acks) /\ acks \in [1 .. count -> 0 .. U16 - 1]
  BY <1>2, LenProperties, Zenon
<1>4. /\ Len(body) = 2 * count
      /\ \A i \in 1 .. count : body[2 * i - 1] + U8 * body[2 * i] = acks[i]
  <2>1. sent.kind # "advertisement"
    OBVIOUS
  <2> QED
    BY <1>1, <1>3, <2>1, Zenon DEF Framed, Layout
<1>5. /\ w \in Seq(Nat) /\ Len(w) = n + 8 + HASH_LEN /\ n = Len(body)
      /\ Part(w, 0, body) /\ HASH_LEN \in Nat
  BY WireAssumption DEF Framed
<1>6. n = 2 * count /\ n \in 0 .. Len(w)
  BY <1>3, <1>4, <1>5
<1>7. ASSUME NEW i \in 1 .. count
      PROVE  remove_le16(Taken(b, 2, 2 * (count - i))) = acks[i]
  <2>1. PICK j, k : j = 2 * i - 1 /\ k = 2 * i
    BY Zenon
  <2>2. j \in 1 .. Len(body) /\ j \in Nat /\ k \in 1 .. Len(body) /\ k \in Nat
    BY <1>5, <1>6, <2>1
  <2>3. w[j] = body[j] /\ w[k] = body[k]
    BY <1>5, <2>2, InPart, Zenon
  <2>4. /\ n - 2 * (count - i) - 2 + 1 = j /\ n - 2 * (count - i) - 2 + 2 = k
        /\ j \in DOMAIN w /\ k \in DOMAIN w
    BY <1>3, <1>5, <1>6, <2>1, <2>2
  <2>5. PICK t : t = Taken(b, 2, 2 * (count - i))
    BY Zenon
  <2>6. t[1] = w[j] /\ t[2] = w[k]
    <3>1. b.len = n /\ b.bytes = w
      OBVIOUS
    <3>2. t = [x \in 1 .. 2 |->
                 IF n - 2 * (count - i) - 2 + x \in DOMAIN w
                 THEN w[n - 2 * (count - i) - 2 + x] ELSE 0]
      BY <2>5, <3>1, Zenon DEF Taken
    <3>3. 1 \in 1 .. 2 /\ 2 \in 1 .. 2
      OBVIOUS
    <3> QED
      BY <2>4, <3>2, <3>3, Zenon
  <2>7. remove_le16(t) = t[1] + U8 * t[2]
    <3>1. 1 + 1 = 2
      OBVIOUS
    <3> QED
      BY <3>1, Zenon DEF remove_le16, word
  <2> QED
    BY <1>4, <2>1, <2>3, <2>5, <2>6, <2>7, Zenon
<1>8. [i \in 1 .. count |-> remove_le16(Taken(b, 2, 2 * (count - i)))] = acks
  BY <1>3, <1>7, Zenon
<1>9. ~(b.len < 2 * count)
  BY <1>3, <1>6
<1>10. subevent_data_with_reg_deserialize(b) =
         [err |-> "TRANSFER_NO_ERROR", buf |-> Removed(b, 2 * count),
          fields |-> [ack_data |-> acks]]
  BY <1>1, <1>3, <1>8, <1>9, Zenon DEF subevent_data_with_reg_deserialize
<1> QED
  BY <1>2, <1>10

LEMMA ResponseParsed ==
    ASSUME IsMessage(sent), sent.kind = "response",
           NEW w, NEW body, NEW ctr, NEW n, Framed(sent, w, body, ctr, n),
           NEW b, b = [bytes |-> w, len |-> n]
    PROVE  /\ response_data_deserialize(b).err = "TRANSFER_NO_ERROR"
           /\ response_data_deserialize(b).fields = sent.fields
<1>1. PICK id, num, data : id = sent.fields.sender_id /\ num = sent.fields.counter
                           /\ data = sent.fields.data
  BY Zenon
<1>2. /\ id \in 0 .. U16 - 1 /\ num \in 0 .. U32 - 1 /\ data \in Seq(0 .. U8 - 1)
      /\ sent.fields = [sender_id |-> id, counter |-> num, data |-> data]
  BY <1>1 DEF IsMessage
<1>3. data \in Seq(Nat)
  <2>1. PICK k \in Nat : k = Len(data) /\ data \in [1 .. k -> 0 .. U8 - 1]
    BY <1>2, LenProperties, Zenon
  <2>2. data \in [1 .. k -> Nat]
    BY <2>1, Sizes
  <2> QED
    BY <2>2
<1>4. PICK len \in Nat : len = Len(data)
  BY <1>3
<1>5. PICK s, t : s = add_le16(id) /\ t = add_le32(num)
  BY Zenon
<1>6. s \in Seq(Nat) /\ Len(s) = 2 /\ s[1] + U8 * s[2] = id
  BY <1>2, <1>5, Le16, Zenon
<1>7. t \in Seq(Nat) /\ Len(t) = 4 /\ remove_le32(t) = num
  BY <1>2, <1>5, Le32, Zenon
<1>8. /\ Len(body) = len + 7 /\ body[len + 7] = len
      /\ Part(body, 0, s) /\ Part(body, 2, t) /\ Part(body, 6, data)
  <2>1. sent.kind # "advertisement" /\ sent.kind # "subevent"
    OBVIOUS
  <2> QED
    BY <1>1, <1>4, <1>5, <2>1, Zenon DEF Framed, Layout
<1>9. /\ w \in Seq(Nat) /\ Len(w) = n + 8 + HASH_LEN /\ n = Len(body)
      /\ Part(w, 0, body) /\ HASH_LEN \in Nat
  BY WireAssumption DEF Framed
<1>10. n = len + 7 /\ n \in 0 .. Len(w)
  BY <1>4, <1>8, <1>9
<1>11. w[n] = len
  <2>1. n \in 1 .. Len(body) /\ n \in Nat
    BY <1>4, <1>9, <1>10
  <2>2. w[n] = body[n]
    BY <1>9, <2>1, InPart, Zenon
  <2> QED
    BY <1>8, <1>10, <2>2, Zenon
<1>12. Part(w, 0, s) /\ Part(w, 2, t) /\ Part(w, 6, data)
  <2>1. 0 \in Nat /\ 2 \in Nat /\ 6 \in Nat
    OBVIOUS
  <2>2. /\ Len(s) \in Nat /\ Len(t) \in Nat /\ Len(data) \in Nat /\ Len(body) \in Nat
    BY <1>3, <1>6, <1>7, <1>9, <1>10
  <2> QED
    BY <1>8, <1>9, <2>1, <2>2, PartOfPart, Zenon
<1>13. Taken(b, 1, 0)[1] = len
  <2>1. n >= 1
    BY <1>4, <1>10
  <2> QED
    BY <1>9, <1>10, <1>11, <2>1, TakenByte, Zenon
<1>14. PICK c : c = Removed(b, 1)
  BY Zenon
<1>15. c = [bytes |-> w, len |-> len + 6]
  <2>1. c = [bytes |-> w, len |-> n - 1]
    BY <1>14, RemovedIs, Zenon
  <2>2. n - 1 = len + 6
    BY <1>4, <1>10
  <2> QED
    BY <2>1, <2>2, Zenon
<1>16. c.bytes = w /\ c.len = len + 6 /\ len + 6 \in Nat
  BY <1>4, <1>15
<1>17. Taken(c, len, 0) = data
  <2>1. 0 \in Nat /\ 6 \in Nat /\ (len + 6) - 0 = 6 + len
    BY <1>4
  <2>2. EndsWith(c, len, 0, 6, data)
    BY <1>3, <1>4, <1>9, <1>12, <1>16, <2>1, Zenon DEF EndsWith
  <2> QED
    BY <2>2, TakenPart, Zenon
<1>18. Taken(c, 4, len) = t
  <2>1. 2 \in Nat /\ (len + 6) - len = 2 + 4 /\ 4 = Len(t)
    BY <1>4, <1>7
  <2>2. EndsWith(c, 4, len, 2, t)
    BY <1>4, <1>7, <1>9, <1>12, <1>16, <2>1, Zenon DEF EndsWith
  <2> QED
    BY <2>2, TakenPart, Zenon
<1>19. Taken(c, 2, len + 4) = s
  <2>1. 0 \in Nat /\ (len + 6) - (len + 4) = 0 + 2 /\ 2 = Len(s) /\ len + 4 \in Nat
    BY <1>4, <1>6
  <2>2. EndsWith(c, 2, len + 4, 0, s)
    BY <1>6, <1>9, <1>12, <1>16, <2>1, Zenon DEF EndsWith
  <2> QED
    BY <2>2, TakenPart, Zenon
<1>20. remove_le16(s) = id
  <2>1. 1 + 1 = 2
    OBVIOUS
  <2> QED
    BY <1>6, <2>1, Zenon DEF remove_le16, word
<1>21. response_fields(c, len) = sent.fields
  BY <1>2, <1>7, <1>17, <1>18, <1>19, <1>20 DEF response_fields
<1>22. ~(b.len < 1) /\ ~(c.len < response_needs(len))
  BY <1>4, <1>10, <1>16 DEF response_needs
<1>23. response_data_deserialize(b) =
         [err |-> "TRANSFER_NO_ERROR", buf |-> Removed(c, len + 4 + 2),
          fields |-> sent.fields]
  BY <1>13, <1>14, <1>21, <1>22, Zenon DEF response_data_deserialize
<1> QED
  BY <1>23

\* What is signed, the MAC and the counter are found where they were put.
LEMMA WireVerifies ==
    ASSUME NEW m, NEW w, NEW body, NEW ctr, NEW n, Framed(m, w, body, ctr, n),
           NEW b, b = [bytes |-> w, len |-> Len(w)]
    PROVE  /\ Len(w) \in Nat /\ Len(w) >= HASH_LEN + 8
           /\ Taken(b, Len(w) - HASH_LEN, HASH_LEN) = Serialized(m)
           /\ Taken(b, HASH_LEN, 0) = MAC
           /\ remove_le64(Taken(b, 8, HASH_LEN)) = m.counter
<1>1. PICK s : s = Serialized(m)
  BY Zenon
<1>2. /\ n \in Nat /\ w \in Seq(Nat) /\ Len(w) = n + 8 + HASH_LEN
      /\ s \in Seq(Nat) /\ Len(s) = n + 8 /\ Part(w, 0, s)
      /\ MAC \in Seq(Nat) /\ Len(MAC) = HASH_LEN /\ Part(w, n + 8, MAC)
      /\ ctr \in Seq(Nat) /\ Len(ctr) = 8 /\ Part(w, n, ctr)
      /\ remove_le64(ctr) = m.counter
  BY <1>1, Zenon DEF Framed
<1>3. HASH_LEN \in Nat
  BY WireAssumption
<1>4. PICK L : L = n + 8 + HASH_LEN /\ L = Len(w)
  BY <1>2, Zenon
<1>5. b.bytes = w /\ b.len = L
  BY <1>4
<1>6. /\ L \in Nat /\ 0 \in Nat /\ n + 8 \in Nat /\ L >= HASH_LEN + 8
      /\ L - HASH_LEN = n + 8 /\ L - HASH_LEN = 0 + (L - HASH_LEN)
      /\ L - 0 = (n + 8) + HASH_LEN
  BY <1>2, <1>3, <1>4
<1>7. EndsWith(b, L - HASH_LEN, HASH_LEN, 0, s)
  BY <1>2, <1>3, <1>5, <1>6, Zenon DEF EndsWith
<1>8. EndsWith(b, HASH_LEN, 0, n + 8, MAC)
  BY <1>2, <1>3, <1>5, <1>6, Zenon DEF EndsWith
<1>9. EndsWith(b, 8, HASH_LEN, n, ctr)
  BY <1>2, <1>3, <1>5, <1>6, Zenon DEF EndsWith
<1> QED
  BY <1>1, <1>2, <1>4, <1>6, <1>7, <1>8, <1>9, TakenPart, Zenon

\* Only what left the sender has its MAC.
LEMMA MacMeansWire ==
    ASSUME NEW m, NEW w, NEW body, NEW ctr, NEW n, Framed(m, w, body, ctr, n),
           NEW bytes \in Seq(Nat), NEW b, b = [bytes |-> bytes, len |-> Len(bytes)],
           Len(bytes) >= HASH_LEN,
           Taken(b, Len(bytes) - HASH_LEN, HASH_LEN) = Serialized(m),
           Taken(b, HASH_LEN, 0) = MAC
    PROVE  bytes = w
<1>1. PICK s, mac, h, L : s = Serialized(m) /\ mac = MAC /\ h = HASH_LEN /\ L = Len(bytes)
  BY Zenon
<1>2. /\ n \in Nat /\ w \in Seq(Nat) /\ Len(w) = n + 8 + h
      /\ s \in Seq(Nat) /\ Len(s) = n + 8 /\ Part(w, 0, s)
      /\ mac \in Seq(Nat) /\ Len(mac) = h /\ Part(w, n + 8, mac)
  BY <1>1, Zenon DEF Framed
<1>3. h \in Nat /\ L \in Nat /\ L >= h /\ DOMAIN bytes = 1 .. L
  BY <1>1, WireAssumption
<1>4. b.bytes = bytes /\ b.len = L
  BY <1>1
<1>5. s = [i \in 1 .. L - h |-> IF L - h - (L - h) + i \in DOMAIN bytes
                                THEN bytes[L - h - (L - h) + i] ELSE 0]
  BY <1>1, <1>4, Zenon DEF Taken
<1>6. mac = [i \in 1 .. h |-> IF L - 0 - h + i \in DOMAIN bytes
                              THEN bytes[L - 0 - h + i] ELSE 0]
  BY <1>1, <1>4, Zenon DEF Taken
<1>7. L - h = n + 8
  <2>1. L - h \in Nat
    BY <1>3
  <2>2. DOMAIN s = 1 .. L - h
    BY <1>5, Zenon
  <2>3. DOMAIN s = 1 .. n + 8
    BY <1>2, LenProperties, Zenon
  <2> QED
    BY <1>2, <2>1, <2>2, <2>3
<1>8. ASSUME NEW i \in 1 .. n + 8
      PROVE  bytes[i] = w[i]
  <2>1. i \in 1 .. L - h /\ L - h - (L - h) + i = i /\ i \in DOMAIN bytes
    BY <1>2, <1>3, <1>7
  <2>2. s[i] = bytes[i]
    BY <1>5, <2>1, Zenon
  <2>3. i \in 1 .. Len(s) /\ i \in Nat
    BY <1>2
  <2> QED
    BY <1>2, <2>2, <2>3, InPart, Zenon
<1>9. ASSUME NEW j \in 1 .. h
      PROVE  bytes[n + 8 + j] = w[n + 8 + j]
  <2>1. L - 0 - h + j = n + 8 + j /\ n + 8 + j \in DOMAIN bytes
    BY <1>2, <1>3, <1>7
  <2>2. mac[j] = bytes[n + 8 + j]
    BY <1>6, <2>1, Zenon
  <2> QED
    BY <1>2, <2>2, Zenon DEF Part
<1>10. ASSUME NEW i \in 1 .. L
       PROVE  bytes[i] = w[i]
  <2>1. CASE i \in 1 .. n + 8
    BY <1>8, <2>1, Zenon
  <2>2. CASE i \notin 1 .. n + 8
    <3>1. PICK j \in 1 .. h : i = n + 8 + j
      <4>1. i - (n + 8) \in 1 .. h /\ i = n + 8 + (i - (n + 8))
        BY <1>2, <1>3, <1>7, <2>2
      <4> QED
        BY <4>1, Zenon
    <3> QED
      BY <1>9, <3>1, Zenon
  <2> QED
    BY <2>1, <2>2, Zenon
<1>11. Len(w) = L
  BY <1>2, <1>3, <1>7
<1>12. w \in [1 .. L -> Nat] /\ bytes \in [1 .. L -> Nat]
  BY <1>1, <1>2, <1>11, LenProperties, Zenon
<1>13. bytes = [i \in 1 .. L |-> bytes[i]] /\ w = [i \in 1 .. L |-> w[i]]
  BY ONLY <1>12
<1>14. [i \in 1 .. L |-> bytes[i]] = [i \in 1 .. L |-> w[i]]
  BY <1>10, Zenon
<1> QED
  BY <1>13, <1>14, Zenon
-----------------------------------------------------------------------------
(* The inductive invariant.                                                *)

BufferInv ==
    /\ sent \in Messages /\ counter \in Nat
    /\ phase # "serialize" => wire = Serialized(sent) \o MAC
    /\ buf = [bytes |-> buf.bytes, len |-> buf.len]
    /\ buf.bytes \in Seq(Nat) /\ buf.len \in 0 .. Len(buf.bytes)
    /\ phase \in {"peek", "verify"} => buf.len = Len(buf.bytes)

\* What the parts read so far say about a message that arrived as it left.
ParsedInv ==
    /\ phase \in {"peek", "restore"} => sent.kind = "response"
    /\ (phase \in {"restore", "verify"} /\ sent.kind = "response" /\ buf.bytes = wire)
          => got = sent.fields
    /\ phase = "parse" => /\ sent.kind # "response" /\ buf.bytes = wire
                          /\ buf.len = Len(wire) - (HASH_LEN + 8)
                          /\ sent.counter <= counter

WireInv == BufferInv /\ ParsedInv /\ RoundTrip

LEMMA InitWire == Init => WireInv
<1> SUFFICES ASSUME Init PROVE WireInv
  OBVIOUS
<1>1. sent \in Messages /\ counter \in Nat /\ phase = "serialize"
  BY WireAssumption DEF Init
<1>2. buf = [bytes |-> <<>>, len |-> 0]
  BY DEF Init
<1>3. buf.bytes = <<>> /\ buf.len = 0 /\ <<>> \in Seq(Nat) /\ 0 \in 0 .. Len(<<>>)
  BY <1>2
<1> QED
  BY <1>1, <1>2, <1>3 DEF WireInv, BufferInv, ParsedInv, RoundTrip

LEMMA SendWire == WireInv /\ Send => WireInv'
  BY DEF WireInv, BufferInv, ParsedInv, RoundTrip, Send

\* A message as it arrives: nothing is known of its bytes but that they are bytes.
LEMMA ArrivesWire ==
    ASSUME WireInv, NEW bytes \in Seq(Nat), Arrives(bytes)
    PROVE  WireInv'
<1>1. /\ buf' = [bytes |-> bytes, len |-> Len(bytes)]
      /\ phase' = IF sent.kind = "response" THEN "peek" ELSE "verify"
      /\ sent' = sent /\ wire' = wire /\ counter' = counter /\ got' = got
      /\ phase = "air"
  BY DEF Arrives
<1>2. buf'.bytes = bytes /\ buf'.len = Len(bytes) /\ Len(bytes) \in 0 .. Len(bytes)
  BY <1>1
<1>3. sent.kind # "response" => phase' = "verify"
  BY <1>1
<1>4. sent.kind = "response" => phase' = "peek"
  BY <1>1
<1>5. BufferInv'
  BY <1>1, <1>2 DEF WireInv, BufferInv
<1>6. ParsedInv'
  BY <1>1, <1>3, <1>4 DEF ParsedInv
<1>7. RoundTrip'
  BY <1>1, <1>3, <1>4 DEF RoundTrip
<1> QED
  BY <1>5, <1>6, <1>7 DEF WireInv

LEMMA AirWire == WireInv /\ (Deliver \/ Cut \/ Corrupt) => WireInv'
<1> SUFFICES ASSUME WireInv, Deliver \/ Cut \/ Corrupt PROVE WireInv'
  OBVIOUS
<1>1. sent \in Messages
  BY DEF WireInv, BufferInv
<1>2. phase = "air"
  BY DEF Deliver, Cut, Corrupt, Arrives
<1>3. wire = Serialized(sent) \o MAC
  BY <1>2 DEF WireInv, BufferInv
<1>4. wire \in Seq(Nat)
  BY <1>1, <1>3, Frames, Zenon DEF Framed
<1>5. CASE Deliver
  BY <1>4, <1>5, ArrivesWire, Zenon DEF Deliver
<1>6. CASE Cut
  <2>1. PICK k \in 0 .. Len(wire) - 1 : Arrives(SubSeq(wire, 1, k))
    BY <1>6, Zenon DEF Cut
  <2>2. SubSeq(wire, 1, k) \in Seq(Nat)
    BY <1>4, <2>1
  <2> QED
    BY <2>1, <2>2, ArrivesWire, Zenon
<1>7. CASE Corrupt
  <2>1. PICK i \in DOMAIN wire, b \in {0, U8 - 1} : Arrives([wire EXCEPT ![i] = b])
    BY <1>7, Zenon DEF Corrupt
  <2>2. b \in Nat
    BY WireAssumption
  <2>3. [wire EXCEPT ![i] = b] \in Seq(Nat)
    BY <1>4, <2>2
  <2> QED
    BY <2>1, <2>3, ArrivesWire, Zenon
<1> QED
  BY <1>5, <1>6, <1>7, Zenon

LEMMA RestoreWire == WireInv /\ Restore => WireInv'
<1> SUFFICES ASSUME WireInv, Restore PROVE WireInv'
  OBVIOUS
<1>1. PICK bytes, len : buf = [bytes |-> bytes, len |-> len] /\ bytes \in Seq(Nat)
  BY Zenon DEF WireInv, BufferInv
<1>2. /\ buf' = [bytes |-> bytes, len |-> Len(bytes)] /\ phase = "restore" /\ phase' = "verify"
      /\ sent' = sent /\ wire' = wire /\ counter' = counter /\ got' = got
  BY <1>1 DEF Restore
<1>3. /\ buf.bytes = bytes /\ buf'.bytes = bytes /\ buf'.len = Len(bytes)
      /\ Len(bytes) \in 0 .. Len(bytes)
  BY <1>1, <1>2
<1>4. BufferInv'
  BY <1>1, <1>2, <1>3 DEF WireInv, BufferInv
<1>5. ParsedInv'
  BY <1>2, <1>3 DEF WireInv, ParsedInv
<1>6. RoundTrip'
  BY <1>2 DEF RoundTrip
<1> QED
  BY <1>4, <1>5, <1>6 DEF WireInv

LEMMA PeekWire == WireInv /\ Peek => WireInv'
<1> SUFFICES ASSUME WireInv, Peek PROVE WireInv'
  OBVIOUS
<1>1. /\ phase = "peek" /\ sent.kind = "response" /\ sent \in Messages /\ counter \in Nat
      /\ wire = Serialized(sent) \o MAC
  BY DEF Peek, WireInv, BufferInv, ParsedInv
<1>2. PICK bytes, len : bytes = buf.bytes /\ len = buf.len
  BY Zenon
<1>3. buf = [bytes |-> bytes, len |-> len] /\ bytes \in Seq(Nat) /\ len = Len(bytes)
  BY <1>1, <1>2, Zenon DEF WireInv, BufferInv
<1>4. sent' = sent /\ wire' = wire /\ counter' = counter
  BY DEF Peek
<1>5. HASH_LEN \in Nat /\ len \in Nat
  BY <1>3, WireAssumption
<1>6. PICK body, ctr, n : Framed(sent, wire, body, ctr, n)
  BY <1>1, Frames, Zenon
<1>7. n \in Nat /\ Len(wire) = n + 8 + HASH_LEN
  BY <1>6, Zenon DEF Framed
<1>8. CASE buf.len < HASH_LEN + 8
  <2>1. phase' = "dropped" /\ buf' = buf /\ got' = got
    BY <1>8 DEF Peek
  <2>2. bytes # wire
    BY <1>2, <1>3, <1>5, <1>7, <1>8
  <2>3. BufferInv'
    BY <1>1, <1>4, <2>1 DEF WireInv, BufferInv
  <2>4. ParsedInv' /\ RoundTrip'
    BY <1>2, <1>4, <2>1, <2>2 DEF ParsedInv, RoundTrip
  <2> QED
    BY <2>3, <2>4 DEF WireInv
<1>9. CASE ~(buf.len < HASH_LEN + 8)
  <2>1. PICK b, l : b = Removed(buf, HASH_LEN + 8) /\ l = len - (HASH_LEN + 8)
    BY Zenon
  <2>2. b = [bytes |-> bytes, len |-> l]
    BY <1>3, <2>1, RemovedIs, Zenon
  <2>3. l \in 0 .. Len(bytes)
    BY <1>2, <1>3, <1>5, <1>9, <2>1
  <2>4. PICK r : r = response_data_deserialize(b)
    BY Zenon
  <2>5. PICK k \in 0 .. l : r.buf = [bytes |-> bytes, len |-> k]
    BY <1>3, <2>2, <2>3, <2>4, ResponseHolds, Zenon
  <2>6. /\ buf' = r.buf
        /\ IF r.err = "TRANSFER_NO_ERROR"
           THEN phase' = "restore" /\ got' = r.fields
           ELSE phase' = "dropped" /\ got' = got
    BY <1>9, <2>1, <2>4 DEF Peek
  <2>7. /\ buf'.bytes = bytes /\ buf'.len = k /\ k \in 0 .. Len(bytes)
        /\ buf' = [bytes |-> bytes, len |-> k]
    BY <1>3, <2>3, <2>5, <2>6
  <2>8. bytes = wire => r.err = "TRANSFER_NO_ERROR" /\ r.fields = sent.fields
    <3> SUFFICES ASSUME bytes = wire
                 PROVE  r.err = "TRANSFER_NO_ERROR" /\ r.fields = sent.fields
      BY Zenon
    <3>1. l = n
      BY <1>3, <1>5, <1>7, <2>1
    <3>2. b = [bytes |-> wire, len |-> n]
      BY <2>2, <3>1, Zenon
    <3>3. IsMessage(sent)
      BY <1>1, WireAssumption, Zenon
    <3> QED
      BY <1>1, <1>6, <2>4, <3>2, <3>3, ResponseParsed, Zenon
  <2>9. phase' \in {"restore", "dropped"}
    BY <2>6
  <2>10. BufferInv'
    BY <1>1, <1>3, <1>4, <2>7, <2>9 DEF BufferInv
  <2>11. ParsedInv'
    BY <1>1, <1>4, <2>6, <2>7, <2>8, <2>9 DEF ParsedInv
  <2>12. RoundTrip'
    BY <1>4, <2>6, <2>7, <2>8, <2>9 DEF RoundTrip
  <2> QED
    BY <2>10, <2>11, <2>12 DEF WireInv
<1> QED
  BY <1>8, <1>9, Zenon

LEMMA ParseWire == WireInv /\ Parse => WireInv'
<1> SUFFICES ASSUME WireInv, Parse PROVE WireInv'
  OBVIOUS
<1>1. /\ phase = "parse" /\ sent.kind # "response" /\ sent \in Messages /\ counter \in Nat
      /\ wire = Serialized(sent) \o MAC /\ buf.bytes = wire
      /\ buf.len = Len(wire) - (HASH_LEN + 8) /\ sent.counter <= counter
  BY DEF Parse, WireInv, BufferInv, ParsedInv
<1>2. buf = [bytes |-> wire, len |-> buf.len]
  BY <1>1, Zenon DEF WireInv, BufferInv
<1>3. sent' = sent /\ wire' = wire /\ counter' = counter
  BY DEF Parse
<1>4. PICK body, ctr, n : Framed(sent, wire, body, ctr, n)
  BY <1>1, Frames, Zenon
<1>5. wire \in Seq(Nat) /\ n \in Nat /\ Len(wire) = n + 8 + HASH_LEN
  BY <1>4, Zenon DEF Framed
<1>6. HASH_LEN \in Nat
  BY WireAssumption
<1>7. buf.len = n /\ n \in 0 .. Len(wire)
  BY <1>1, <1>5, <1>6
<1>8. buf = [bytes |-> wire, len |-> n]
  BY <1>2, <1>7, Zenon
<1>9. IsMessage(sent)
  BY <1>1, WireAssumption, Zenon
<1>10. PICK r : r = IF sent.kind = "advertisement" THEN advertisement_data_deserialize(buf)
                                                  ELSE subevent_data_with_reg_deserialize(buf)
  BY Zenon
<1>11. /\ buf' = r.buf /\ got' = r.fields
       /\ phase' = IF r.err = "TRANSFER_NO_ERROR" \/ sent.kind = "advertisement"
                   THEN "done" ELSE "dropped"
  BY <1>10 DEF Parse
<1>12. /\ r.err = "TRANSFER_NO_ERROR" /\ r.fields = sent.fields
       /\ \E k \in 0 .. n : r.buf = [bytes |-> wire, len |-> k]
  <2>1. CASE sent.kind = "advertisement"
    <3>1. r = advertisement_data_deserialize(buf)
      BY <1>10, <2>1, Zenon
    <3>2. r.err = "TRANSFER_NO_ERROR" /\ r.fields = sent.fields
      BY <1>4, <1>8, <1>9, <2>1, <3>1, AdvertisementParsed, Zenon
    <3>3. \E k \in 0 .. n : r.buf = [bytes |-> wire, len |-> k]
      BY <1>5, <1>7, <1>8, <3>1, AdvertisementHolds, Zenon
    <3> QED
      BY <3>2, <3>3, Zenon
  <2>2. CASE sent.kind = "subevent"
    <3>1. r = subevent_data_with_reg_deserialize(buf)
      <4>1. sent.kind # "advertisement"
        BY <2>2
      <4> QED
        BY <1>10, <4>1, Zenon
    <3>2. r.err = "TRANSFER_NO_ERROR" /\ r.fields = sent.fields
      BY <1>4, <1>8, <1>9, <2>2, <3>1, SubeventParsed, Zenon
    <3>3. Len(sent.fields.ack_data) \in Nat
      BY <1>9, <2>2 DEF IsMessage
    <3>4. \E k \in 0 .. n : r.buf = [bytes |-> wire, len |-> k]
      BY <1>5, <1>7, <1>8, <3>1, <3>3, SubeventHolds, Zenon
    <3> QED
      BY <3>2, <3>4, Zenon
  <2> QED
    BY <1>1, <1>9, <2>1, <2>2, Zenon DEF IsMessage
<1>13. phase' = "done" /\ got' = sent.fields
  BY <1>11, <1>12, Zenon
<1>14. PICK k \in 0 .. n : buf' = [bytes |-> wire, len |-> k]
  BY <1>11, <1>12, Zenon
<1>15. buf'.bytes = wire /\ buf'.len = k /\ k \in 0 .. Len(wire)
  BY <1>7, <1>14
<1>16. BufferInv'
  BY <1>1, <1>3, <1>5, <1>13, <1>14, <1>15 DEF BufferInv
<1>17. ParsedInv' /\ RoundTrip'
  BY <1>1, <1>3, <1>13 DEF ParsedInv, RoundTrip
<1> QED
  BY <1>16, <1>17 DEF WireInv

LEMMA VerifyMessageIs ==
    ASSUME NEW mac \in BOOLEAN, NEW remote \in Nat, NEW own \in Nat
    PROVE  verify_message(mac, remote, own) = "TRANSFER_NO_ERROR" <=> mac /\ remote >= own
<1>1. CASE ~mac
  BY <1>1 DEF verify_message
<1>2. CASE mac /\ remote < own
  <2>1. verify_message(mac, remote, own) = "TRANSFER_COUNTER_DIDNT_MATCH"
    BY <1>2 DEF verify_message
  <2>2. ~(remote >= own)
    BY <1>2
  <2>3. verify_message(mac, remote, own) # "TRANSFER_NO_ERROR"
    BY <2>1
  <2> QED
    BY <2>2, <2>3, Zenon
<1>3. CASE mac /\ remote >= own
  <2>1. ~(remote < own)
    BY <1>3
  <2> QED
    BY <1>3, <2>1 DEF verify_message
<1> QED
  BY <1>1, <1>2, <1>3

\* The outcome of verify_message decides alone whether the message is used, and an
\* accepted one is the one that was sent.
LEMMA VerifyWire == WireInv /\ Verify => WireInv'
<1> SUFFICES ASSUME WireInv, Verify PROVE WireInv'
  OBVIOUS
<1>1. /\ phase = "verify" /\ sent \in Messages /\ counter \in Nat
      /\ wire = Serialized(sent) \o MAC
  BY DEF Verify, WireInv, BufferInv
<1>2. PICK bytes, len : bytes = buf.bytes /\ len = buf.len
  BY Zenon
<1>3. buf = [bytes |-> bytes, len |-> len] /\ bytes \in Seq(Nat) /\ len = Len(bytes)
  BY <1>1, <1>2, Zenon DEF WireInv, BufferInv
<1>4. sent' = sent /\ wire' = wire
  BY DEF Verify
<1>5. HASH_LEN \in Nat /\ len \in Nat
  BY <1>3, WireAssumption
<1>6. PICK body, ctr, n : Framed(sent, wire, body, ctr, n)
  BY <1>1, Frames, Zenon
<1>7. n \in Nat /\ Len(wire) = n + 8 + HASH_LEN
  BY <1>6, Zenon DEF Framed
<1>8. sent.counter \in Nat
  BY <1>1, WireAssumption, Zenon DEF IsMessage
<1>9. PICK key, part, mac, remote :
         /\ key = IF sent.kind = "response" THEN got.sender_id ELSE 0
         /\ part = Taken(buf, buf.len - HASH_LEN, HASH_LEN)
         /\ mac = MacMatches(key, part, Taken(buf, HASH_LEN, 0))
         /\ remote = remove_le64(Taken(buf, 8, HASH_LEN))
  BY Zenon
<1>10. mac \in BOOLEAN
  BY <1>9 DEF MacMatches
<1>11. CASE bytes = wire
  <2>1. buf = [bytes |-> wire, len |-> Len(wire)] /\ buf.len = Len(wire)
    BY <1>2, <1>3, <1>11, Zenon
  <2>2. /\ Taken(buf, buf.len - HASH_LEN, HASH_LEN) = Serialized(sent)
        /\ Taken(buf, HASH_LEN, 0) = MAC /\ remote = sent.counter
        /\ Len(wire) >= HASH_LEN + 8
    BY <1>6, <1>9, <2>1, WireVerifies, Zenon
  <2>3. key = Signer(sent)
    BY <1>1, <1>2, <1>9, <1>11 DEF WireInv, ParsedInv, Signer
  <2>4. mac
    BY <1>9, <2>2, <2>3, Zenon DEF MacMatches
  <2>5. verify_message(mac, remote, counter) = "TRANSFER_NO_ERROR" <=> sent.counter >= counter
    BY <1>1, <1>8, <1>10, <2>2, <2>4, VerifyMessageIs
  <2>6. ~(buf.len < HASH_LEN) /\ ~(buf.len < HASH_LEN + 8)
    BY <1>5, <1>7, <2>1
  <2>7. CASE ~(sent.counter >= counter)
    <3>1. verify_message(mac, remote, counter) # "TRANSFER_NO_ERROR"
      BY <2>5, <2>7
    <3>2. phase' = "dropped" /\ got' = Nothing /\ buf' = buf /\ counter' = counter
      BY <1>9, <3>1 DEF Verify
    <3>3. sent.counter < counter
      BY <1>1, <1>8, <2>7
    <3>4. BufferInv'
      BY <1>1, <1>4, <3>2 DEF WireInv, BufferInv
    <3>5. ParsedInv' /\ RoundTrip'
      BY <1>4, <3>2, <3>3 DEF ParsedInv, RoundTrip
    <3> QED
      BY <3>4, <3>5 DEF WireInv
  <2>8. CASE sent.counter >= counter
    <3>1. verify_message(mac, remote, counter) = "TRANSFER_NO_ERROR"
      BY <2>5, <2>8
    <3>2. /\ buf' = Removed(buf, HASH_LEN + 8)
          /\ counter' = verified_counter(remote, counter)
          /\ phase' = IF sent.kind = "response" THEN "done" ELSE "parse"
          /\ got' = got
      BY <1>9, <2>6, <3>1 DEF Verify
    <3>3. counter' \in Nat /\ sent.counter <= counter'
      BY <1>1, <1>8, <2>2, <3>2 DEF verified_counter
    <3>4. PICK l : l = Len(wire) - (HASH_LEN + 8)
      BY Zenon
    <3>5. buf' = [bytes |-> wire, len |-> l]
      BY <2>1, <3>2, <3>4, RemovedIs, Zenon
    <3>6. buf'.bytes = wire /\ buf'.len = l /\ l \in 0 .. Len(wire)
      BY <1>5, <1>7, <3>4, <3>5
    <3>7. wire \in Seq(Nat)
      BY <1>3, <1>11, Zenon
    <3>8. sent.kind = "response" => phase' = "done" /\ got' = sent.fields
      BY <1>1, <1>2, <1>11, <3>2 DEF WireInv, ParsedInv
    <3>9. sent.kind # "response" => phase' = "parse"
      BY <3>2
    <3>10. BufferInv'
      BY <1>1, <1>4, <3>3, <3>5, <3>6, <3>7, <3>8, <3>9 DEF BufferInv
    <3>11. ParsedInv'
      BY <1>4, <3>3, <3>4, <3>6, <3>8, <3>9 DEF ParsedInv
    <3>12. RoundTrip'
      BY <1>4, <3>3, <3>8, <3>9 DEF RoundTrip
    <3> QED
      BY <3>10, <3>11, <3>12 DEF WireInv
  <2> QED
    BY <2>7, <2>8, Zenon
<1>12. CASE bytes # wire
  <2>1. ~(~(buf.len < HASH_LEN) /\ mac)
    <3> SUFFICES ASSUME ~(buf.len < HASH_LEN), mac PROVE FALSE
      BY Zenon
    <3>1. buf = [bytes |-> bytes, len |-> Len(bytes)] /\ buf.len = Len(bytes)
      BY <1>2, <1>3, Zenon
    <3>2. Len(bytes) >= HASH_LEN
      BY <1>3, <1>5, <3>1
    <3>3. /\ Taken(buf, Len(bytes) - HASH_LEN, HASH_LEN) = Serialized(sent)
          /\ Taken(buf, HASH_LEN, 0) = MAC
      BY <1>9, <3>1, Zenon DEF MacMatches
    <3>4. bytes = wire
      BY <1>3, <1>6, <3>1, <3>2, <3>3, MacMeansWire, Zenon
    <3> QED
      BY <1>12, <3>4, Zenon
  <2>2. buf.len < HASH_LEN \/ verify_message(mac, remote, counter) # "TRANSFER_NO_ERROR"
    <3>1. CASE buf.len < HASH_LEN
      BY <3>1, Zenon
    <3>2. CASE ~mac
      BY <3>2 DEF verify_message
    <3> QED
      BY <2>1, <3>1, <3>2, Zenon
  <2>3. phase' = "dropped" /\ got' = Nothing /\ buf' = buf /\ counter' = counter
    BY <1>9, <2>2 DEF Verify
  <2>4. BufferInv'
    BY <1>1, <1>4, <2>3 DEF WireInv, BufferInv
  <2>5. ParsedInv' /\ RoundTrip'
    BY <1>2, <1>4, <1>12, <2>3 DEF ParsedInv, RoundTrip
  <2> QED
    BY <2>4, <2>5 DEF WireInv
<1> QED
  BY <1>11, <1>12, Zenon

LEMMA WireInductive == Spec => []WireInv
<1>1. WireInv /\ [Next]_vars => WireInv'
  <2> SUFFICES ASSUME WireInv, [Next]_vars PROVE WireInv'
    OBVIOUS
  <2>1. CASE UNCHANGED vars
    BY <2>1 DEF vars, WireInv, BufferInv, ParsedInv, RoundTrip
  <2> QED
    BY <2>1, SendWire, AirWire, PeekWire, RestoreWire, VerifyWire, ParseWire, Zenon DEF Next
<1> QED
  BY <1>1, InitWire, PTL DEF Spec

\* Whatever message is sent, and whatever the air does to it, the fields the receiver
\* of transfer.c goes on with are the ones serialized, its counter is then at least the
\* sender's, and an undamaged message is dropped for its counter only.
THEOREM MessagesRoundTrip == Spec => []RoundTrip
  BY WireInductive, PTL DEF WireInv

\* No call of net_buf_simple_remove_* removes a byte that is not there, whatever was
\* received: the guards of the deserializers and of verify_message are enough.
THEOREM ReceiversStayInside == Spec => []NoUnderflow
<1>1. WireInv => NoUnderflow
  <2> SUFFICES ASSUME WireInv PROVE buf.len >= 0
    BY DEF NoUnderflow
  <2>1. buf.bytes \in Seq(Nat) /\ buf.len \in 0 .. Len(buf.bytes)
    BY DEF WireInv, BufferInv
  <2> QED
    BY <2>1
<1> QED
  BY <1>1, WireInductive, PTL

\* The lengths that fit: 103 acknowledgements of two bytes and UNUSED_DATA_LEN bytes
\* of data behind the metadata do, against 251 bytes of buffer.
LengthsFit ==
    \A m \in Messages :
       /\ m.kind = "subevent" =>
             2 * Len(m.fields.ack_data) + 8 + HASH_LEN <= TO_SEND_BUF_SIZE
       /\ m.kind = "response" =>
             Len(m.fields.data) + 7 + 8 + HASH_LEN <= TO_SEND_BUF_SIZE

\* The length of a serialized and signed message.
LEMMA WireLength ==
    ASSUME WireInv, phase # "serialize"
    PROVE  /\ sent \in Messages /\ IsMessage(sent)
           /\ sent.kind = "advertisement" =>
                 Len(wire) = 2 * Len(sent.fields.reg_data) + 1 + 8 + HASH_LEN
           /\ sent.kind = "subevent" => Len(wire) = 2 * Len(sent.fields.ack_data) + 8 + HASH_LEN
           /\ sent.kind = "response" => Len(wire) = Len(sent.fields.data) + 7 + 8 + HASH_LEN
<1>1. sent \in Messages /\ wire = Serialized(sent) \o MAC
  BY DEF WireInv, BufferInv
<1>2. IsMessage(sent)
  BY <1>1, WireAssumption, Zenon
<1>3. PICK body, ctr, n : Framed(sent, wire, body, ctr, n)
  BY <1>1, Frames, Zenon
<1>4. n \in Nat /\ n = Len(body) /\ Len(wire) = n + 8 + HASH_LEN /\ Layout(sent, body)
  BY <1>3, Zenon DEF Framed
<1>5. sent.kind = "advertisement" => n = 2 * Len(sent.fields.reg_data) + 1
  BY <1>4, Zenon DEF Layout
<1>6. sent.kind = "subevent" => n = 2 * Len(sent.fields.ack_data)
  <2> SUFFICES ASSUME sent.kind = "subevent" PROVE n = 2 * Len(sent.fields.ack_data)
    OBVIOUS
  <2>1. sent.kind # "advertisement"
    OBVIOUS
  <2> QED
    BY <1>4, <2>1, Zenon DEF Layout
<1>7. sent.kind = "response" => n = Len(sent.fields.data) + 7
  <2> SUFFICES ASSUME sent.kind = "response" PROVE n = Len(sent.fields.data) + 7
    OBVIOUS
  <2>1. sent.kind # "advertisement" /\ sent.kind # "subevent"
    OBVIOUS
  <2> QED
    BY <1>4, <2>1, Zenon DEF Layout
<1> QED
  BY <1>1, <1>2, <1>4, <1>5, <1>6, <1>7, Zenon

\* The buffers of the periodic train never overflow: 103 acknowledgements and the data
\* of a scanner fit behind any counter, whatever is sent.
THEOREM TrainMessagesFit ==
    ASSUME LengthsFit
    PROVE  Spec => []TrainBuffersHold
<1>1. WireInv => TrainBuffersHold
  <2> SUFFICES ASSUME WireInv, phase # "serialize", sent.kind # "advertisement"
               PROVE  Len(wire) <= TO_SEND_BUF_SIZE
    BY Zenon DEF TrainBuffersHold, BufferSize
  <2>1. CASE sent.kind = "subevent"
    BY <2>1, WireLength, Zenon DEF LengthsFit
  <2>2. CASE sent.kind = "response"
    BY <2>2, WireLength, Zenon DEF LengthsFit
  <2> QED
    BY <2>1, <2>2, WireLength, Zenon DEF IsMessage
<1> QED
  BY <1>1, WireInductive, PTL

\* How few register slots would save adv_data: fewer than a pointer has bytes.
THEOREM SmallListsFit ==
    ASSUME LengthsFit,
           \A m \in Messages : m.kind = "advertisement" => Len(m.fields.reg_data) < POINTER
    PROVE  Spec => []BuffersHold
<1>1. WireInv => BuffersHold
  <2> SUFFICES ASSUME WireInv, phase # "serialize"
               PROVE  Len(wire) <= BufferSize(sent.kind)
    BY Zenon DEF BuffersHold
  <2>1. CASE sent.kind = "advertisement"
    <3>1. PICK k : k = Len(sent.fields.reg_data)
      BY Zenon
    <3>2. k \in Nat
      BY <2>1, <3>1, WireLength DEF IsMessage
    <3>3. k < POINTER /\ Len(wire) = 2 * k + 1 + 8 + HASH_LEN
      BY <2>1, <3>1, WireLength, Zenon
    <3>4. BufferSize(sent.kind) = 2 * POINTER + 8 + HASH_LEN
      BY <2>1, Zenon DEF BufferSize
    <3>5. HASH_LEN \in Nat /\ POINTER \in Nat
      BY WireAssumption
    <3> QED
      BY ONLY <3>2, <3>3, <3>4, <3>5
  <2>2. CASE sent.kind = "subevent" \/ sent.kind = "response"
    <3>1. sent.kind # "advertisement"
      BY <2>2
    <3>2. Len(wire) <= TO_SEND_BUF_SIZE
      BY <2>2, WireLength, Zenon DEF LengthsFit
    <3> QED
      BY <3>1, <3>2, Zenon DEF BufferSize
  <2> QED
    BY <2>1, <2>2, WireLength, Zenon DEF IsMessage
<1> QED
  BY <1>1, WireInductive, PTL
=============================================================================
