------------------------------ MODULE FreeList ------------------------------
(***************************************************************************)
(* advertiser/src/free_list.c: the bounded stack of response slots that    *)
(* were taken away from a device and may be handed out again.  The array   *)
(* and its size are one sequence; the mutex makes each call atomic.        *)
(***************************************************************************)
EXTENDS Naturals, Sequences

CONSTANT MAX_FREE_SLOTS     \* CONFIG_MAX_FREE_SLOTS

ASSUME MaxFreeSlotsAssumption == MAX_FREE_SLOTS \in Nat \ {0}

\* The error return of free_list_append (-1) and of free_list_pop (-1).
free_list_full(list)  == Len(list) = MAX_FREE_SLOTS
free_list_empty(list) == Len(list) = 0

\* Mutant: the capacity check is missing.
append_unchecked(list, d) == Append(list, d)

\* What free_list_append leaves behind: a full list drops the slot.
free_list_append(list, d) ==
    IF free_list_full(list) THEN list ELSE Append(list, d)

\* The slot free_list_pop hands out, and the list it leaves behind.
free_list_top(list) == list[Len(list)]
free_list_pop(list) == SubSeq(list, 1, Len(list) - 1)
=============================================================================
