------------------------------ MODULE MCGfxSlots ------------------------------
(* GfxSlots on a small pool: a fixed graphic of two slots, swapped ones of    *)
(* one and two, and a frame of one.                                          *)
EXTENDS GfxSlots, TLC

CONSTANTS e1, e2, e3

MCSlotsOf == [p \in {1, 2} |-> IF p = 1 THEN 2 ELSE 1]

Alike == Permutations(Entities)

\* Nothing is asked of a room once its pool is lost.  A subtask is explored
\* while it has used at most SubtaskSlots general slots of its own table, and
\* if the room before it has leaked nothing.
SubtaskSlots == 1
Used == {k \in General : m.slots[k].status # "FREE"}
InOrder == /\ sound
           /\ stash # <<>> => ~leaked /\ Cardinality(Used) <= SubtaskSlots
=============================================================================
