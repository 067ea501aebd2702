---------------------------- MODULE EntityUpdate ----------------------------
(***************************************************************************)
(* A frame's walk over the entity lists: UpdateEntities and UpdateManagers *)
(* of entity.c around ram_UpdateEntities, which exists twice in the        *)
(* repository: in ARM assembly for the GBA (asm/src/intr.s) and in C for   *)
(* the port (port/port_draw.c).                                            *)
(*                                                                         *)
(* The update of one entity is arbitrary code that creates and deletes     *)
(* others, moves itself to the front of a list, or leaves through          *)
(* DeleteThisEntity (a longjmp): each is an action here.                   *)
(***************************************************************************)
EXTENDS EntityLists

CONSTANTS
    Builds,      \* the walkers to check: "gba", "port"
    EntityHomes, \* lists a new entity may enter
    ManagerHomes,\* lists a new manager may enter
    ObjectList,  \* the list of objects, 6
    Newcomers,   \* kind and flags of the entities an update creates
    Subtasks,    \* whether subtasks run
    MaxStashed,  \* bound: entities and managers a subtask puts away
    MaxCalls     \* bound: creations, deletions and moves in one pass

ASSUME WalkAssumption ==
    /\ Builds \subseteq {"gba", "port"}
    /\ 8 \in Lists /\ \E l \in Lists : l < 8
    /\ EntityHomes \subseteq Lists /\ ManagerHomes \subseteq Lists /\ ObjectList \in Lists
    /\ Newcomers \subseteq {"entity", "enemy"} \X SUBSET Flags
    /\ MaxCalls \in Nat

VARIABLES
    m,          \* the pools and the lists
    build,      \* which walker runs
    task,       \* "main", "subtask", "portal": a subtask that cleared the pools,
                \* or "init": GAMETASK_INIT is next
    stash,      \* gEntityListsBackup, while a subtask has the lists
    pc,         \* "idle", "walk", "update", or "wild": the C walk follows a
                \* pointer that is not a node of its list
    mode,       \* 0: entities, 1: managers
    list,       \* the list being walked
    entity,     \* the node the walk is at
    next,       \* the C walk's local: what follows it, read before its update
    due,        \* history: members of the list since its walk began, to update
    calls       \* calls made in this pass

walk == <<pc, mode, list, entity, next, due>>
vars == <<m, build, task, stash, walk, calls>>

ListsOf(md) == {l \in Lists : (md = 0) = (l < 8)}
Later(l) == {k \in ListsOf(mode) : k > l}

Init ==
    /\ m = EmptyMemory
    /\ build \in Builds
    /\ task = "main"
    /\ stash = <<>>
    /\ pc = "idle"
    /\ mode = 1
    /\ list = 8
    /\ entity = Null
    /\ next = Null
    /\ due = {}
    /\ calls = 0

-----------------------------------------------------------------------------
(* The walk.                                                               *)

EnterList(l, mem) ==
    /\ list' = l
    /\ entity' = mem.next[ListHead(l)]
    /\ due' = Members(mem, l)

StartUpdate ==
    /\ pc = "idle"
    /\ task # "init"
    /\ pc' = "walk"
    /\ mode' = 1 - mode
    /\ EnterList(Smallest(ListsOf(1 - mode)), m)
    /\ UNCHANGED <<m, build, task, stash, next, calls>>

AtEnd == entity = ListHead(list) \/ (build = "port" /\ entity = Null)

NextList ==
    /\ pc = "walk"
    /\ AtEnd
    /\ Later(list) # {}
    /\ EnterList(Smallest(Later(list)), m)
    /\ UNCHANGED <<m, build, task, stash, pc, mode, next, calls>>

\* After the last list the deleted entities are freed.
FinishUpdate ==
    /\ pc = "walk"
    /\ AtEnd
    /\ Later(list) = {}
    /\ m' = ClearAllDeletedEntities([m EXCEPT !.current = Null])
    /\ pc' = "idle"
    /\ entity' = Null
    /\ due' = {}
    /\ calls' = 0
    /\ UNCHANGED <<build, task, stash, mode, list, next>>

\* The head of another list is no entity: what its bytes make the C walk do
\* is not defined.
LeaveList ==
    /\ pc = "walk"
    /\ ~AtEnd
    /\ entity \in Heads
    /\ pc' = "wild"
    /\ UNCHANGED <<m, build, task, stash, mode, list, entity, next, due, calls>>

BeginUpdate ==
    /\ pc = "walk"
    /\ entity \in Slots
    /\ m.kind[entity] # "none"
    /\ m' = [m EXCEPT !.current = entity]
    /\ next' = IF build = "port" THEN m.next[entity] ELSE Null
    /\ due' = due \ {entity}
    /\ pc' = "update"
    /\ UNCHANGED <<build, task, stash, mode, list, entity, calls>>

\* The update function of a cleared slot, kind 0, is DeleteThisEntity, which
\* finds nothing to unlink.
MeetClearedSlot ==
    /\ pc = "walk"
    /\ entity \in Slots
    /\ m.kind[entity] = "none"
    /\ m' = [m EXCEPT !.current = entity]
    /\ entity' = m.next[entity]
    /\ UNCHANGED <<build, task, stash, pc, mode, list, next, due, calls>>

\* The assembly goes on from gUpdateContext.current_entity, which UnlinkEntity
\* keeps on the list; the C walk from the successor it read before.
Continue(mem) ==
    /\ pc' = "walk"
    /\ entity' = IF build = "port" THEN next ELSE mem.next[mem.current]
    /\ next' = Null
    /\ m' = mem
    /\ UNCHANGED <<build, task, stash, mode, list>>

EndUpdate == pc = "update" /\ Continue(m) /\ UNCHANGED <<due, calls>>

\* An update that moved or deleted itself does not call it: it would delete
\* the predecessor that current_entity then is.
DeleteThisEntity ==
    /\ pc = "update"
    /\ m.current = entity
    /\ Continue(DeleteEntityAny(m, entity))
    /\ UNCHANGED <<due, calls>>

-----------------------------------------------------------------------------
(* What an update may do to the lists on its way.                          *)

Calling == pc = "update" /\ calls < MaxCalls

Call(mem) ==
    /\ calls' = calls + 1
    /\ m' = mem
    /\ due' = due \cap Members(mem, list)
    /\ UNCHANGED <<build, task, stash, pc, mode, list, entity, next>>

CreateEntity ==
    /\ Calling
    /\ \E l \in EntityHomes, n \in Newcomers : Call(Enter(GetEmptyEntity(m), n[1], n[2], l))

CreateLinkAnimation ==
    /\ Calling
    /\ LET got == CreateAuxPlayerEntity(m) IN
       Call(IF got.slot = Null THEN m
            ELSE PrependEntityToList(Enter(got, "entity", {}, ObjectList), got.slot, ObjectList))

CreateManager ==
    /\ Calling
    /\ \E l \in ManagerHomes : Call(Enter(GetEmptyManager(m), "manager", {}, l))

\* Itself, too: DeleteEntity(this) and a return.
Delete ==
    /\ Calling
    /\ \E e \in AllMembers(m) : Call(DeleteEntityAny(m, e))

\* An NPC's first update may move it to the front of its list.
MoveToFront ==
    /\ Calling
    /\ m.current = entity
    /\ m.kind[entity] = "entity"
    /\ entity \in Members(m, list)
    /\ Call(PrependEntityToList(m, entity, list))

KillEnemies == Calling /\ Call(DeleteAllEnemies(m))

-----------------------------------------------------------------------------
(* Between two passes: rooms and subtasks.                                 *)

Outside(mem) ==
    /\ pc = "idle"
    /\ m' = mem
    /\ UNCHANGED <<build, walk, calls>>

InGame == task # "init" /\ UNCHANGED <<task, stash>>

LoadRoom == InGame /\ \E l \in EntityHomes : Outside(Enter(GetEmptyEntity(m), "enemy", {}, l))
ChangeRoom == InGame /\ Outside(RecycleEntities(m))
ScrollDone == InGame /\ Outside(DeleteSleepingEntities(m))

\* GameTask_Init, and the title and file select before it.
Erase ==
    /\ task \in {"main", "init"}
    /\ task' = "main"
    /\ Outside(EraseAllEntities(m))
    /\ UNCHANGED stash

\* Subtask_FadeIn: sub_0805E958 copies the heads away and makes them empty.
\* Subtask_Init, some frames and no pass later, has nothing left to delete.
SubtaskFadeIn ==
    /\ Subtasks
    /\ task = "main"
    /\ m.gEntCount + m.gManagerCount <= MaxStashed
    /\ task' = "subtask"
    /\ stash' = [next |-> [x \in Heads |-> m.next[x]], prev |-> [x \in Heads |-> m.prev[x]]]
    /\ Outside(DeleteAllEntities(
           [m EXCEPT !.next = [x \in Nodes |-> IF x \in Heads THEN x ELSE @[x]],
                     !.prev = [x \in Nodes |-> IF x \in Heads THEN x ELSE @[x]]]))

\* A cutscene moves on to another room.
CutsceneRoom ==
    /\ task = "subtask"
    /\ Outside(DeleteAllEntities(m))
    /\ UNCHANGED <<task, stash>>

\* The portal cutscene clears the pools under the heads that wait.
PortalCutscene ==
    /\ task = "subtask"
    /\ task' = "portal"
    /\ Outside(EraseAllEntities(m))
    /\ UNCHANGED stash

\* sub_0805E974.
Restored(mem) ==
    [mem EXCEPT !.next = [x \in Nodes |-> IF x \in Heads THEN stash.next[x] ELSE @[x]],
                !.prev = [x \in Nodes |-> IF x \in Heads THEN stash.prev[x] ELSE @[x]]]

SubtaskFadeOut ==
    /\ task = "subtask"
    /\ task' = "main"
    /\ stash' = <<>>
    /\ Outside(Restored(DeleteAllEntities(m)))

LeaveToMain ==
    /\ task \in {"subtask", "portal"}
    /\ task' = "main"
    /\ stash' = <<>>
    /\ Outside(DeleteAllEntities(Restored(DeleteAllEntities(m))))

\* sub_080A71F4, after a fast travel or the portal cutscene.  After the latter
\* the heads that come back point into cleared pools, so both go on to
\* GAMETASK_INIT.
SubtaskLeave ==
    /\ task \in {"subtask", "portal"}
    /\ task' = "init"
    /\ stash' = <<>>
    /\ Outside(DeleteAllEntities(Restored(DeleteAllEntities(m))))

-----------------------------------------------------------------------------
Walk ==
    \/ NextList
    \/ FinishUpdate
    \/ LeaveList
    \/ BeginUpdate
    \/ MeetClearedSlot
    \/ EndUpdate
    \/ DeleteThisEntity

Next ==
    \/ StartUpdate
    \/ Walk
    \/ CreateEntity
    \/ CreateLinkAnimation
    \/ CreateManager
    \/ Delete
    \/ MoveToFront
    \/ KillEnemies
    \/ LoadRoom
    \/ ChangeRoom
    \/ ScrollDone
    \/ Erase
    \/ SubtaskFadeIn
    \/ CutsceneRoom
    \/ PortalCutscene
    \/ SubtaskFadeOut
    \/ SubtaskLeave

Spec == Init /\ [][Next]_vars /\ WF_vars(Walk)

-----------------------------------------------------------------------------
(* Properties.                                                             *)

TypeOK ==
    /\ m \in Memories
    /\ build \in Builds
    /\ task \in {"main", "subtask", "portal", "init"}
    /\ (stash = <<>>) <=> (task \in {"main", "init"})
    /\ pc \in {"idle", "walk", "update", "wild"}
    /\ mode \in {0, 1}
    /\ list \in Lists
    /\ entity \in Nodes \cup {Null}
    /\ next \in Nodes \cup {Null}
    /\ due \subseteq Slots
    /\ calls \in 0 .. MaxCalls

\* gEntCount counts the slots that are linked or wait to be freed, here or
\* in the lists a subtask put away, and gManagerCount the managers; so the
\* u8 counters never wrap and the limit in GetEmptyEntity means slots.
CountsExact ==
    /\ m.gEntCount = Cardinality(EntitySlots \ Free(m))
    /\ m.gManagerCount = Cardinality(Managers \ Free(m))

\* Whatever an update creates, deletes or moves, each list is a ring: next
\* and prev undo each other, and every linked slot is on one ring.  While a
\* subtask has the lists, that holds of those it put away as well; what the
\* portal cutscene leaves broken no pass meets.
Ring(mem, l) == \A x \in Members(mem, l) \cup {ListHead(l)} :
    /\ mem.next[x] \in Nodes /\ mem.prev[mem.next[x]] = x
    /\ mem.prev[x] \in Nodes /\ mem.next[mem.prev[x]] = x

Rings(mem) ==
    /\ \A l \in Lists : Ring(mem, l)
    /\ \A k, l \in Lists : k # l => Members(mem, k) \cap Members(mem, l) = {}

ListsAreRings ==
    /\ task # "init" => Rings(m)
    /\ task = "subtask" => Rings(Restored(m))
    /\ task # "init" =>
         Linked(m) = AllMembers(m) \cup (IF task = "subtask" THEN AllMembers(Restored(m)) ELSE {})

\* The walk of a list updates every entity that was on it when the walk
\* began and stayed on it, whoever was created, deleted or moved meanwhile.
EveryoneIsUpdated == pc = "walk" /\ AtEnd => due = {}

\* The assembly walk keeps that promise whatever an update does.
AsmUpdatesEveryone == build = "gba" => EveryoneIsUpdated

\* A pass ends, or has left its list for memory that is no entity.
PassEnds == pc = "walk" ~> pc \in {"idle", "wild"}
=============================================================================
