--------------------------- MODULE SecureCounter ---------------------------
(***************************************************************************)
(* lib/crypto/crypto.c: the message counter kept as a persistent PSA key.  *)
(* The RAM counter has 64 bits; a commit imports sizeof(storage_uid) = 4   *)
(* bytes of it, so the key holds its value modulo 2^32.                    *)
(***************************************************************************)
EXTENDS Naturals

CONSTANTS
    U32,             \* 2^32: what the imported bytes of the counter can hold
    NoKey,           \* the counter key is not in storage
    RandomCounters   \* what psa_generate_random leaves in the 64-bit value

ASSUME CounterAssumption ==
    /\ U32 \in Nat \ {0}
    /\ RandomCounters \subseteq Nat
    /\ RandomCounters # {}
    /\ NoKey \notin Nat

\* The contents of persistent storage.
StoredKey == Nat \cup {NoKey}

\* Mutant: fewer bytes than the counter has grown to need.
import_too_narrow(value) == value % 2

\* psa_destroy_key, then psa_import_key: what each leaves in storage when it
\* succeeds.  A missing key is not an error for the first.
psa_destroy_key(key)        == NoKey
psa_import_key(value)       == value % U32

\* The RAM counters crypto_secure_counter_init may start from: the stored
\* value, or a random one when there is no key.
crypto_secure_counter_value(key) ==
    IF key = NoKey THEN RandomCounters ELSE {key}
=============================================================================
