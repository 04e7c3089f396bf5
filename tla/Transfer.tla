------------------------------ MODULE Transfer ------------------------------
(***************************************************************************)
(* verify_message of lib/transfer/transfer.c: a message is accepted when   *)
(* its MAC is right and its counter has not fallen behind the receiver's,  *)
(* and an accepted message moves the receiver's counter forward.           *)
(***************************************************************************)
EXTENDS Naturals

\* The transfer_error_t that verify_message returns; mac says whether the MAC
\* computed with the receiver's key is the one the message carries.
verify_message(mac, remote_counter, counter) ==
    CASE ~mac                             -> "TRANSFER_INVALID_HASH"
      [] mac /\ remote_counter < counter  -> "TRANSFER_COUNTER_DIDNT_MATCH"
      [] mac /\ remote_counter >= counter -> "TRANSFER_NO_ERROR"

\* What an accepted message leaves in the receiver's counter.
verified_counter(remote_counter, counter) ==
    IF remote_counter > counter THEN remote_counter ELSE counter
=============================================================================
