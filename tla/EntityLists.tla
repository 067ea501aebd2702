----------------------------- MODULE EntityLists -----------------------------
(***************************************************************************)
(* The entity and manager pools of source/src/entity.c and the circular    *)
(* lists that thread them.  Memory is one record m; every operation is the *)
(* function from memory to memory that the C function computes.            *)
(*                                                                         *)
(* A pointer is a number: a slot of a pool, the head of a list (numbered   *)
(* after the slots), Null, or Gone, the -1 that DeleteEntity leaves in     *)
(* prev until ClearAllDeletedEntities frees the slot at the end of the     *)
(* pass.  A head is a node too: its next is LinkedList.first and its prev  *)
(* is .last.                                                               *)
(***************************************************************************)
EXTENDS Integers, FiniteSets, Sequences

CONSTANTS
    NAux,        \* slots of gAuxPlayerEntities (gPlayerEntity is one of them here)
    NEnts,       \* slots of gEntities, MAX_ENTITIES
    NManagers,   \* slots of gUnk_02033290
    Lists        \* the indices of gEntityLists in use, among 0..8

Aux == 1 .. NAux
Ents == NAux + 1 .. NAux + NEnts
Managers == NAux + NEnts + 1 .. NAux + NEnts + NManagers
EntitySlots == Aux \cup Ents
Slots == EntitySlots \cup Managers

Null == 0
Gone == -1
ListHead(l) == NAux + NEnts + NManagers + 1 + l
Heads == {ListHead(l) : l \in Lists}
Nodes == Slots \cup Heads

ASSUME EntityAssumption ==
    /\ NAux \in Nat /\ NEnts \in Nat /\ NManagers \in Nat
    /\ Lists \subseteq 0 .. 8

Kinds == {"none", "entity", "enemy", "manager"}
Flags == {"DELETED", "PERSIST"}

Memories == [next : [Nodes -> Nodes \cup {Null}],
             prev : [Nodes -> Nodes \cup {Null, Gone}],
             kind : [Slots -> Kinds],
             flags : [Slots -> SUBSET Flags],
             gEntCount : 0 .. NAux + NEnts,
             gManagerCount : 0 .. NManagers,
             current : Nodes \cup {Null}]

\* sub_0805E98C on cleared pools.
EmptyMemory ==
    [next |-> [x \in Nodes |-> IF x \in Heads THEN x ELSE Null],
     prev |-> [x \in Nodes |-> IF x \in Heads THEN x ELSE Null],
     kind |-> [x \in Slots |-> "none"],
     flags |-> [x \in Slots |-> {}],
     gEntCount |-> 0,
     gManagerCount |-> 0,
     current |-> Null]

Linked(m) == {x \in Slots : m.next[x] # Null}
Deleted(m) == {x \in Slots : m.prev[x] = Gone}
Free(m) == {x \in Slots : m.prev[x] = Null}

\* The members of a list from first to last, as a walk from its head meets
\* them, and all of them.
Order(m, l) ==
    LET met[n \in 0 .. Cardinality(Slots)] ==
          IF n = 0 THEN <<>>
          ELSE LET s == met[n - 1]
                   x == m.next[IF s = <<>> THEN ListHead(l) ELSE s[Len(s)]]
               IN IF x \in Slots THEN Append(s, x) ELSE s
    IN met[Cardinality(Slots)]
Members(m, l) == LET s == Order(m, l) IN {s[i] : i \in DOMAIN s}
AllMembers(m) == UNION {Members(m, l) : l \in Lists}

-----------------------------------------------------------------------------
(* Linking and unlinking.                                                  *)

\* The mutants the runs must notice stand before what they replace: the
\* successor is kept instead, the node itself is, or prev is not repaired.
UnlinkToNext(m, e) ==
    LET p == m.prev[e]
        n == m.next[e]
    IN [m EXCEPT !.current = IF @ = e THEN n ELSE @,
                 !.next = [@ EXCEPT ![p] = n], !.prev = [@ EXCEPT ![n] = p]]

UnlinkForgetsCurrent(m, e) ==
    [m EXCEPT !.next = [@ EXCEPT ![m.prev[e]] = m.next[e]],
              !.prev = [@ EXCEPT ![m.next[e]] = m.prev[e]]]

\* The node under update is replaced by its predecessor, so that a walk can
\* go on from it.
UnlinkEntity(m, e) ==
    LET p == m.prev[e]
        n == m.next[e]
        moved == [m EXCEPT !.current = IF @ = e THEN p ELSE @]
    IN IF p \in Nodes /\ n \in Nodes
         THEN [moved EXCEPT !.next = [@ EXCEPT ![p] = n], !.prev = [@ EXCEPT ![n] = p]]
         ELSE moved

AppendEntityToList(m, e, l) ==
    LET last == m.prev[ListHead(l)] IN
    [m EXCEPT !.next = [@ EXCEPT ![e] = ListHead(l), ![last] = e],
              !.prev = [@ EXCEPT ![e] = last, ![ListHead(l)] = e],
              !.gEntCount = IF m.kind[e] # "manager" THEN @ + 1 ELSE @,
              !.gManagerCount = IF m.kind[e] = "manager" THEN @ + 1 ELSE @]

PrependEntityToList(m, e, l) ==
    LET u == UnlinkEntity(m, e)
        first == u.next[ListHead(l)] IN
    [u EXCEPT !.next = [@ EXCEPT ![e] = first, ![ListHead(l)] = e],
              !.prev = [@ EXCEPT ![e] = ListHead(l), ![first] = e]]

DeleteEntityCounts(m, e) ==
    IF m.next[e] = Null THEN m
    ELSE [UnlinkEntity(m, e) EXCEPT !.next[e] = Null, !.prev[e] = Gone, !.gEntCount = @ - 1]

\* An entity keeps its slot until the end of the pass, a manager does not.
DeleteEntity(m, e) ==
    IF m.next[e] = Null THEN m
    ELSE [UnlinkEntity(m, e) EXCEPT !.next[e] = Null, !.prev[e] = Gone]

DeleteManager(m, e) ==
    IF m.next[e] = Null THEN m
    ELSE [UnlinkEntity(m, e) EXCEPT !.next[e] = Null, !.prev[e] = Null, !.kind[e] = "none",
                                    !.flags[e] = {}, !.gManagerCount = @ - 1]

DeleteEntityAny(m, e) ==
    IF m.kind[e] = "manager" THEN DeleteManager(m, e) ELSE DeleteEntity(m, e)

ClearDeletedEntities(m, D) ==
    [m EXCEPT !.next = [x \in Nodes |-> IF x \in D THEN Null ELSE @[x]],
              !.prev = [x \in Nodes |-> IF x \in D THEN Null ELSE @[x]],
              !.kind = [x \in Slots |-> IF x \in D THEN "none" ELSE @[x]],
              !.flags = [x \in Slots |-> IF x \in D THEN {} ELSE @[x]],
              !.gEntCount = @ - Cardinality(D)]

ClearAllDeletedEntities(m) == ClearDeletedEntities(m, Deleted(m) \cap EntitySlots)

-----------------------------------------------------------------------------
(* Walks over every list: each node's successor is read before the node is *)
(* deleted.                                                                *)

\* Deletes the members of the lists that satisfy the test, in list order.
\* They are unlinked one by one and nothing else happens in between, so only
\* which of them are deleted matters.
DeleteWhere(m, D) ==
    LET del[S \in SUBSET D] ==
          IF S = {} THEN m
          ELSE LET e == CHOOSE x \in S : TRUE IN DeleteEntityAny(del[S \ {e}], e)
    IN del[D]

DeleteAllEntities(m) == ClearAllDeletedEntities(DeleteWhere(m, AllMembers(m)))

DeleteAllEnemies(m) ==
    ClearAllDeletedEntities(DeleteWhere(m, {e \in AllMembers(m) : m.kind[e] = "enemy"}))

DeleteSleepingEntities(m) ==
    DeleteWhere(m, {e \in AllMembers(m) : "DELETED" \in m.flags[e]})

\* At a change of rooms whatever does not persist goes to sleep.
RecycleEntities(m) ==
    [m EXCEPT !.flags = [x \in Slots |->
        IF x \in AllMembers(m) /\ "PERSIST" \notin @[x] THEN @[x] \cup {"DELETED"} ELSE @[x]]]

EraseKeepsCounts(m) ==
    [EmptyMemory EXCEPT !.current = m.current, !.gEntCount = m.gEntCount]

\* DeleteAllEntities, then the pools and heads are cleared outright.
EraseAllEntities(m) == [EmptyMemory EXCEPT !.current = m.current]

-----------------------------------------------------------------------------
(* Allocation.                                                             *)

Smallest(S) == CHOOSE x \in S : \A y \in S : x <= y

\* The sleeping entities a full pool may sacrifice, and the one it takes:
\* the first in list order.
Victims(m) == {e \in AllMembers(m) :
    m.kind[e] # "manager" /\ "DELETED" \in m.flags[e] /\ m.current # e}
Victim(m) ==
    LET l == Smallest({k \in Lists : Members(m, k) \cap Victims(m) # {}})
        s == Order(m, l)
    IN s[Smallest({i \in DOMAIN s : s[i] \in Victims(m)})]

\* The memory after the call and the slot it returns.  The search for
\* entities marked ENT_UNUSED1 or ENT_UNUSED2 is left out: nothing sets
\* these flags.
GetEmptyEntity(m) ==
    LET free == Free(m) \cap Ents IN
    CASE m.gEntCount < NEnts - 1 /\ free # {} -> [mem |-> m, slot |-> Smallest(free)]
      [] ~(m.gEntCount < NEnts - 1 /\ free # {}) /\ Victims(m) # {} ->
           [mem |-> ClearDeletedEntities(DeleteEntity(m, Victim(m)), {Victim(m)}),
            slot |-> Victim(m)]
      [] OTHER -> [mem |-> m, slot |-> Null]

CreateAuxPlayerEntity(m) ==
    LET free == Free(m) \cap Aux IN
    [mem |-> m, slot |-> IF free = {} THEN Null ELSE Smallest(free)]

GetEmptyManager(m) ==
    LET free == Free(m) \cap Managers IN
    [mem |-> m, slot |-> IF free = {} THEN Null ELSE Smallest(free)]

\* What a caller does with the slot: kind and flags, then the list.
Enter(got, kind, flags, l) ==
    IF got.slot = Null THEN got.mem
    ELSE AppendEntityToList([got.mem EXCEPT !.kind[got.slot] = kind, !.flags[got.slot] = flags],
                            got.slot, l)
=============================================================================
