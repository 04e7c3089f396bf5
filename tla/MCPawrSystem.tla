---------------------------- MODULE MCPawrSystem ----------------------------
(* Model-checking instance of PawrSystem.                                  *)
EXTENDS PawrSystem

CONSTANTS d1, d2

TwoDevices == {d1, d2}
Resets     == {"reset", "stray", "late"}
AllSlots   == 0 .. NUM_RSP_SLOTS - 1
AllLost    == {"downlink", "uplink"}

NarrowDraws == {1}
PoorRadio   == {"sync_lost", "subevent_error"}
=============================================================================
