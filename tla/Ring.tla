-------------------------------- MODULE Ring --------------------------------
(***************************************************************************)
(* What CircularList promises its callers: the items in the order they     *)
(* were added, and a cursor that goes round them.                          *)
(***************************************************************************)
EXTENDS Naturals, Sequences

CONSTANT Data

VARIABLES
    items,     \* what the list holds, oldest first
    pos        \* the cursor: the index of an item, 0 when there is none

vars == <<items, pos>>

RingInit == items = <<>> /\ pos = 0

\* A new item goes last; the first one gets the cursor.
Add(d) ==
    /\ items' = Append(items, d)
    /\ pos' = IF items = <<>> THEN 1 ELSE pos

\* The cursor moves on, from the last item to the first.
Advance ==
    /\ items # <<>>
    /\ pos' = IF pos = Len(items) THEN 1 ELSE pos + 1
    /\ UNCHANGED items

Clear == items' = <<>> /\ pos' = 0

RingNext == (\E d \in Data : Add(d)) \/ Advance \/ Clear

Spec == RingInit /\ [][RingNext]_vars

=============================================================================
