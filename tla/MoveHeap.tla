------------------------------- MODULE MoveHeap -------------------------------
(***************************************************************************)
(* The binary heap of struct steppersync in chelper/stepcompress.c: for    *)
(* every slot of the mcu's move queue, the clock at which it is free.  The *)
(* root is the slot that is free first.                                    *)
(***************************************************************************)
EXTENDS Integers, TLC

CONSTANT NUM_MOVES          \* num_move_clocks, the size of the mcu's move queue, > 0

Slots == 0 .. NUM_MOVES - 1

\* heap_replace: the clock at the root is replaced by req_clock, which sinks below the
\* lower of its children, the second one of equals, until none is lower.
HeapReplace(mc, req_clock) ==
    LET Sift[pos \in Slots] ==
            LET below == {c \in {2 * pos + 1, 2 * pos + 2} \cap Slots : mc[c] < req_clock} IN
            IF below = {}
            THEN pos :> req_clock
            ELSE LET child == CHOOSE c \in below : \A d \in below :
                                  mc[c] < mc[d] \/ (mc[c] = mc[d] /\ c >= d)
                 IN (pos :> mc[child]) @@ Sift[child]
    IN Sift[0] @@ mc
=============================================================================
