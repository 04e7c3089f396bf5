---------------------------- MODULE MCAdvertiser ----------------------------
(* Model-checking instances of Advertiser, one per MCAdvertiser*.cfg.      *)
EXTENDS Advertiser, TLC

CONSTANTS d1, d2

OneDevice  == {d1}
TwoDevices == {d1, d2}
Symmetry   == Permutations(TwoDevices)

SlotEnv  == {"bad_mac", "stray", "late"}
BootEnv  == {"button", "reset", "init_error", "adv_error", "subevent_error",
             "stray", "late"}
NoEnv    == {}

\* Response slots that responses come in: the one that is offered first, and the
\* next, which responses may also name before it is offered.
FirstSlot == {1}
TwoSlots  == {1, 2}

\* Draws that fit in the four stored bytes.
NarrowDraws == {1}
=============================================================================
