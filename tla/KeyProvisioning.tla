--------------------------- MODULE KeyProvisioning ---------------------------
(***************************************************************************)
(* How devices come by their keys: scripts/key_mgr.py keeps keys.json and  *)
(* dumps it as the table keys[] of crypto_flasher, which runs once on each *)
(* device and imports from that table.                                     *)
(*                                                                         *)
(* A device is its id: 0 is the advertiser, n the scanner n.  A key is the *)
(* number of the secrets.token_hex call that made it.  One device at a     *)
(* time is on the bench; devices do not interact while they are flashed.   *)
(* Manufacturer ids and the printed output are left out; of the strings    *)
(* --dev-id takes, ids are modelled, and its absence.                      *)
(***************************************************************************)
EXTENDS Naturals, Sequences, SequencesExt

CONSTANTS
    LastId,     \* ids are 0 .. LastId
    None,       \* no --dev-id
    Base,       \* ids are written in this base (ten)
    COUNTER_ID, \* the PSA id of the counter
    NoKey,      \* no key in a PSA slot
    Drawn,      \* a counter drawn at random
    Garbage,    \* what lies behind the table
    Faults,     \* what may go wrong, of FlashFaults
    MaxKeys     \* bound: keys generated

FlashFaults == {"power_loss", "psa_error", "regenerate"}

ASSUME ProvisioningAssumption ==
    /\ LastId \in Nat /\ MaxKeys \in Nat
    /\ Base \in Nat \ {0, 1}
    /\ None \notin 0 .. LastId
    /\ COUNTER_ID \notin 0 .. LastId + 1     \* STORAGE_MASK sets it apart
    /\ Faults \subseteq FlashFaults

VARIABLES
    keys_obj,   \* keys.json: id to key
    generated,  \* number of keys generated
    bench,      \* the device that runs crypto_flasher
    psa,        \* PSA storage of every device
    done        \* history: the table each device was last flashed from in full

vars == <<keys_obj, generated, bench, psa, done>>

Ids   == 0 .. LastId
Names == Ids \cup {None}

\* PSA ids: the counter, ADVERTISER_KEY_ID (0) and MIN_SCANNER_KEY_ID + i - 1 (i),
\* for as many keys as there are names.
PsaIds  == {COUNTER_ID} \cup 0 .. LastId + 1
Nothing == [device |-> 0, keys |-> <<>>, at |-> 0, phase |-> "off"]

Init ==
    /\ keys_obj = <<>> /\ generated = 0
    /\ bench = Nothing
    /\ psa = [d \in Ids |-> [i \in PsaIds |-> NoKey]]
    /\ done = [d \in Ids |-> <<>>]
-----------------------------------------------------------------------------
(* key_mgr.py                                                              *)

\* An id as the string it is in keys.json, most significant digit first.
Digits[n \in Nat] ==
    IF n < Base THEN <<n>> ELSE Append(Digits[n \div Base], n % Base)

\* The order of sorted() on strings.
StringLess(s, t) ==
    \/ IsStrictPrefix(s, t)
    \/ \E i \in DOMAIN s \cap DOMAIN t :
          /\ s[i] < t[i]
          /\ \A k \in 1 .. i - 1 : s[k] = t[k]

\* json.dumps writes None as "null", a letter first, which sorts after every digit.
String(id)     == IF id = None THEN <<Base>> ELSE Digits[id]
SortedIds(ids) == SetToSortSeq(ids, LAMBDA a, b : StringLess(String(a), String(b)))

\* --generate: a new key for id, in place of an old one.  A missing --dev-id or
\* --manufacturer-id is reported, but the key is generated and saved all the same.
GenerateKey(id) ==
    /\ generated < MaxKeys
    /\ id \in DOMAIN keys_obj => "regenerate" \in Faults
    /\ generated' = generated + 1
    /\ keys_obj' = [i \in DOMAIN keys_obj \cup {id} |->
                      IF i = id THEN generated + 1 ELSE keys_obj[i]]
    /\ UNCHANGED <<bench, psa, done>>

\* --cmake-dump: the keys in the order of their ids.
cmake_dump == LET ids == SortedIds(DOMAIN keys_obj)
              IN  [i \in 1 .. Cardinality(DOMAIN keys_obj) |-> keys_obj[ids[i]]]
-----------------------------------------------------------------------------
(* crypto_flasher                                                          *)

\* keys[i]; an index past the table reads whatever follows it.
KeyAt(keys, i) == IF i < Len(keys) THEN keys[i + 1] ELSE Garbage

\* Mutant: scanners are numbered from 0.
ImportsFromZero(device, keys) ==
    << <<COUNTER_ID, Drawn>>, <<COUNTER_ID, 0>>, <<0, KeyAt(keys, 0)>> >> \o
    (IF device = 0
     THEN [i \in 1 .. Len(keys) - 1 |-> <<i, KeyAt(keys, i)>>]
     ELSE << <<1, KeyAt(keys, device - 1)>> >>)

\* What main imports, in order: a random counter, counter 0, the advertiser's key,
\* and then the keys of all scanners or this scanner's own in the first scanner's
\* place.
Imports(device, keys) ==
    << <<COUNTER_ID, Drawn>>, <<COUNTER_ID, 0>>, <<0, KeyAt(keys, 0)>> >> \o
    (IF device = 0
     THEN [i \in 1 .. Len(keys) - 1 |-> <<i, KeyAt(keys, i)>>]
     ELSE << <<1, KeyAt(keys, device)>> >>)

\* main begins; crypto_secure_counter_init draws only if no counter is stored.
Main(device, keys) ==
    [device |-> device, keys |-> keys, phase |-> "destroy",
     at |-> IF psa[device][COUNTER_ID] = NoKey THEN 1 ELSE 2]

\* west build with CONFIG_FLASHED_DEVICE, which dumps the keys, and west flash.
Flash(device) ==
    /\ bench.phase = "off"
    /\ keys_obj # <<>>
    /\ bench' = Main(device, cmake_dump)
    /\ done' = [done EXCEPT ![device] = <<>>]
    /\ UNCHANGED <<keys_obj, generated, psa>>

Current == Imports(bench.device, bench.keys)[bench.at]

\* recreate_key and crypto_secure_counter_commit, first half.
DestroyKey ==
    /\ bench.phase = "destroy"
    /\ psa' = [psa EXCEPT ![bench.device][Current[1]] = NoKey]
    /\ bench' = [bench EXCEPT !.phase = "import"]
    /\ UNCHANGED <<keys_obj, generated, done>>

\* Second half; after the last key main sleeps for ever.
ImportKey ==
    /\ bench.phase = "import"
    /\ psa' = [psa EXCEPT ![bench.device][Current[1]] = Current[2]]
    /\ IF bench.at = Len(Imports(bench.device, bench.keys))
       THEN /\ bench' = [bench EXCEPT !.phase = "finished"]
            /\ done' = [done EXCEPT ![bench.device] = bench.keys]
       ELSE /\ bench' = [bench EXCEPT !.at = @ + 1, !.phase = "destroy"]
            /\ UNCHANGED done
    /\ UNCHANGED <<keys_obj, generated>>

\* An error of either half: main sleeps for ever.
PsaFails ==
    /\ "psa_error" \in Faults
    /\ bench.phase \in {"destroy", "import"}
    /\ bench' = [bench EXCEPT !.phase = "failed"]
    /\ UNCHANGED <<keys_obj, generated, psa, done>>

\* A device that is powered again runs main again.
PowerCycle ==
    /\ "power_loss" \in Faults
    /\ bench.phase # "off"
    /\ bench' = Main(bench.device, bench.keys)
    /\ done' = [done EXCEPT ![bench.device] = <<>>]
    /\ UNCHANGED <<keys_obj, generated, psa>>

\* The device leaves the bench; the next image replaces crypto_flasher.
Unplug ==
    /\ bench.phase # "off" /\ bench' = Nothing
    /\ UNCHANGED <<keys_obj, generated, psa, done>>

Flasher == DestroyKey \/ ImportKey \/ PsaFails \/ PowerCycle \/ Unplug

Next ==
    \/ Flasher
    \/ \E id \in Names : GenerateKey(id)
    \/ \E d \in Ids : Flash(d)

Spec == Init /\ [][Next]_vars
-----------------------------------------------------------------------------
(* Properties.                                                             *)

\* The keys with which scanner d signs (MIN_SCANNER_KEY_ID) and the advertiser
\* verifies (MIN_SCANNER_KEY_ID + sender_id - 1), and the other way round.
Authenticate(d) == psa[d][1] = psa[0][d] /\ psa[d][0] = psa[0][0]

\* Devices that were flashed in full from the same keys.json authenticate each
\* other, whatever the order of the table, interruptions and reflashes (a scanner
\* whose id lies past the table does not count), and start from counter 0.
SameTableAgrees ==
    /\ \A d \in Ids \ {0} :
          done[d] = done[0] /\ d < Len(done[d]) => Authenticate(d)
    /\ \A d \in Ids : done[d] # <<>> => psa[d][COUNTER_ID] = 0
-----------------------------------------------------------------------------
(* A statement of the documentation that the code does not keep.           *)

\* README.md, "Key management": "before flashing a particular scanner it's key is
\* already generated.  Before flashing an advertiser all the keys need to be
\* generated".  Devices are flashed accordingly.
Documented ==
    \/ Flasher
    \/ \E d \in Ids : GenerateKey(d) /\ \A i \in 0 .. d - 1 : i \in DOMAIN keys_obj
    \/ \E d \in DOMAIN keys_obj : Flash(d) /\ (d = 0 => DOMAIN keys_obj = Ids)

DocumentedSpec == Init /\ [][Documented]_vars

\* Then every flashed scanner can be verified by the flashed advertiser.
ProcedureSuffices ==
    \A d \in Ids \ {0} : done[d] # <<>> /\ done[0] # <<>> => Authenticate(d)
==============================================================================
