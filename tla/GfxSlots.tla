------------------------------ MODULE GfxSlots ------------------------------
(***************************************************************************)
(* The sprite graphics slots of vram.c: a pool of equal pieces of video    *)
(* memory, some kept for the player and the items (status PALETTE), the    *)
(* rest given to entities in runs of consecutive slots.  Entities of one   *)
(* graphic share a run by a reference count.  When no run is free the used *)
(* ones are moved together, and every entity that points at a moved one is *)
(* told; video memory follows at the next frame.                           *)
(*                                                                         *)
(* vram.c is called from one thread, so each operation is one step.  What  *)
(* a step sees of the others is what they left behind: references, stale   *)
(* graphics in released slots, uploads still to be made, and, in a         *)
(* subtask, entities that point into a pool that was put away.             *)
(***************************************************************************)
EXTENDS Integers, FiniteSets, FiniteSetsExt

CONSTANTS
    Entities,
    NSlots,    \* MAX_GFX_SLOTS, 44
    Reserved,  \* the slots ResetPalettes keeps, 4
    Fixed,     \* indexes into gFixedTypeGfxData
    Frames,    \* animation frames of swapped graphics
    SlotsOf,   \* slots that a fixed graphic or a frame fills
    RunSizes,  \* sizes that LoadSwapGFX is asked for
    RefLimit,  \* references are counted up to here, 0x80
    None

Slots == 0 .. NSlots - 1
General == Reserved .. NSlots - 1
Pictures == Fixed \cup Frames

ASSUME PoolAssumption ==
    /\ NSlots \in Nat /\ Reserved \in 1 .. NSlots - 1
    /\ 0 \notin Pictures /\ None \notin Pictures /\ None \notin Entities
    /\ SlotsOf \in [Pictures -> 1 .. NSlots]
    /\ RunSizes \subseteq 1 .. NSlots
    /\ IsFiniteSet(Entities)
    /\ RefLimit \in Nat /\ Cardinality(Entities) < RefLimit

VARIABLES
    m,      \* gGFXSlots, and the fields of the entities that vram.c changes
    drawn,  \* slots whose piece of video memory shows what their run's source
            \* says; any other shows something else, no matter what
    live,   \* entities that are linked into a list (next # NULL)
    away,   \* those that a subtask put away with the lists
    stash,  \* gUI.gfxSlotList, while a subtask runs
    pic,    \* history: the picture an entity asked for last
    lender, \* history: whose spriteVramOffset a child took over
    leaked, \* history: a graphic was loaded over one that was still held
    sound   \* history: no move has hit the reserved slots or the entities
            \* that are away

vars == <<m, drawn, live, away, stash, pic, lender, leaked, sound>>

InUse == {"RESERVED", "GFX"}
Idle == {"FREE", "UNLOADED"}

\* vramStatus 0, 1 and 3; src stands for palettePointer and paletteIndex.
NoSlot == [status |-> "FREE", count |-> 0, refs |-> 0, gfx |-> 0, src |-> None, vramStatus |-> 0]

-----------------------------------------------------------------------------
(* Slots.  A memory is [slots, unk_3, index, offset]: the table, the flag  *)
(* that asks for all uploads, spriteAnimation[0] and spriteVramOffset (in  *)
(* slots) of every entity.                                                 *)

Run(s, i) == i .. i + s[i].count - 1

SetGFXSlotStatus(s, i, status) ==
    [k \in Slots |->
        IF k = i THEN [s[k] EXCEPT !.status = status]
        ELSE IF k \in Run(s, i)
             THEN [s[k] EXCEPT !.status = IF status = "PALETTE" THEN status ELSE "FOLLOWER"]
             ELSE s[k]]

ReserveGFXSlots(s, i, gfx, n) ==
    SetGFXSlotStatus(
        [k \in Slots |-> IF k = i THEN [NoSlot EXCEPT !.count = n, !.gfx = gfx]
                         ELSE IF k \in i .. i + n - 1 THEN NoSlot ELSE s[k]],
        i, "RESERVED")

\* Mutant: one slot fewer than asked for is looked at.
FindOneTooFew(s, n) ==
    LET fits == {i \in General : /\ i + n - 1 \in Slots
                                 /\ \A k \in i .. i + Max({n - 2, 0}) : s[k].status \in Idle}
    IN IF fits = {} THEN 0 ELSE Min(fits)

\* The first n consecutive slots that are FREE, or else FREE or UNLOADED.
FindFreeGFXSlots(s, n) ==
    LET Fits(st) == {i \in General : /\ i + n - 1 \in Slots
                                     /\ \A k \in i .. i + n - 1 : s[k].status \in st}
    IN IF Fits({"FREE"}) # {} THEN Min(Fits({"FREE"}))
       ELSE IF Fits(Idle) # {} THEN Min(Fits(Idle)) ELSE 0

\* Mutant: only runs of fixed graphics are found.
FindNextFixed(s, i) ==
    LET found == {k \in i .. NSlots - 2 : s[k].status = "RESERVED"}
    IN IF found = {} THEN 0 ELSE Min(found)

\* 0 when there is none.  The last slot is never looked at.
FindNextOccupiedGFXSlot(s, i) ==
    LET found == {k \in i .. NSlots - 2 : s[k].status \in InUse}
    IN IF found = {} THEN 0 ELSE Min(found)

\* Mutant: released slots are not taken for free.
FindNeverUsedSlot(s) ==
    LET found == {k \in General : s[k].status = "FREE"}
    IN IF found = {} THEN 0 ELSE Min(found)

FindFirstFreeGFXSlot(s) ==
    LET found == {k \in General : s[k].status \in Idle}
    IN IF found = {} THEN 0 ELSE Min(found)

\* MoveGFXSlots copies slot by slot and clears behind itself; the runs may
\* overlap.
MoveGFXSlots(s, from, to) ==
    [k \in Slots |-> IF k \in to .. to + s[from].count - 1 THEN s[k - to + from]
                     ELSE IF k \in Run(s, from) THEN NoSlot ELSE s[k]]

\* Mutant: only the holders of the run are told, not those who borrow it.
MoveHoldersOnly(mem, linked, from, to) ==
    [mem EXCEPT
        !.index = [e \in Entities |-> IF e \in linked /\ @[e] = from THEN to ELSE @[e]],
        !.offset = [e \in Entities |->
            IF e \in linked /\ mem.index[e] = from THEN to ELSE @[e]],
        !.slots = MoveGFXSlots(@, from, to),
        !.unk_3 = 1]

\* sub_080AE218 and MoveGFXSlots: every linked entity that points at the run
\* follows it.
MoveRun(mem, linked, from, to) ==
    [mem EXCEPT
        !.index = [e \in Entities |-> IF e \in linked /\ @[e] = from THEN to ELSE @[e]],
        !.offset = [e \in Entities |->
            IF e \in linked /\ @[e] \in Run(mem.slots, from) THEN @[e] - from + to ELSE @[e]],
        !.slots = MoveGFXSlots(@, from, to),
        !.unk_3 = 1]

\* One turn of the loop of CleanUpGFXSlots, which has come to slot t.at.
CleanUpTurn(linked, t) ==
    LET occupied == FindNextOccupiedGFXSlot(t.mem.slots, t.at)
        free == FindFirstFreeGFXSlot(t.mem.slots)
    IN IF occupied = 0 THEN t
       ELSE IF free <= occupied
         THEN [mem |-> MoveRun(t.mem, linked, occupied, free), at |-> free + 1]
         ELSE [mem |-> t.mem, at |-> occupied + 1]

\* Each turn handles one run, so NSlots turns are more than enough.
CleanUpGFXSlots(mem, linked) ==
    LET turn[n \in 0 .. NSlots] ==
          IF n = 0 THEN [mem |-> mem, at |-> Reserved]
          ELSE CleanUpTurn(linked, turn[n - 1])
    IN turn[NSlots].mem

-----------------------------------------------------------------------------
(* Loading and unloading.                                                  *)

\* Mutant: the reserved slots are counted too.
CountPastLimit(mem, e, i, status) ==
    [mem EXCEPT !.index[e] = i, !.offset[e] = i,
                !.slots = SetGFXSlotStatus([@ EXCEPT ![i].refs = @ + 1], i, status)]

\* The reserved slots start at RefLimit and stay there.
AddReference(s, i) == [s EXCEPT ![i].refs = IF @ < RefLimit THEN @ + 1 ELSE @]

\* sub_080AE0C8.
UseSlot(mem, e, i, status) ==
    [mem EXCEPT !.index[e] = i, !.offset[e] = i,
                !.slots = SetGFXSlotStatus(AddReference(@, i), i, status)]

\* FindFreeGFXSlots, and once more after a cleanup.  A failure leaves the
\* slots cleaned up.
Allocate(mem, linked, n) ==
    IF FindFreeGFXSlots(mem.slots, n) # 0
      THEN [mem |-> mem, at |-> FindFreeGFXSlots(mem.slots, n)]
      ELSE LET clean == CleanUpGFXSlots(mem, linked)
           IN [mem |-> clean, at |-> FindFreeGFXSlots(clean.slots, n)]

\* sub_080ADDD8: what to upload, at the next frame.
SetSource(s, i, p) == [s EXCEPT ![i].src = p, ![i].vramStatus = 3]

\* A graphic that is still in some run, released or not, is used from there.
LoadFixedGFX(mem, linked, e, g) ==
    LET loaded == {i \in General : mem.slots[i].gfx = g}
        a == Allocate(mem, linked, SlotsOf[g])
    IN IF loaded # {}
         THEN [mem |-> UseSlot(mem, e, Min(loaded), "RESERVED"), ok |-> TRUE]
         ELSE IF a.at = 0
           THEN [mem |-> a.mem, ok |-> FALSE]
           ELSE [mem |-> UseSlot([a.mem EXCEPT
                             !.slots = SetSource(ReserveGFXSlots(@, a.at, g, SlotsOf[g]), a.at, g)],
                             e, a.at, "RESERVED"),
                 ok |-> TRUE]

\* i = 0: anywhere.
LoadSwapGFX(mem, linked, e, n, i) ==
    LET a == IF i = 0 THEN Allocate(mem, linked, n) ELSE [mem |-> mem, at |-> i]
    IN IF a.at = 0 THEN [mem |-> a.mem, ok |-> FALSE]
       ELSE IF a.mem.slots[a.at].status = "PALETTE"
         THEN [mem |-> UseSlot(a.mem, e, a.at, "PALETTE"), ok |-> TRUE]
         ELSE [mem |-> UseSlot([a.mem EXCEPT !.slots = ReserveGFXSlots(@, a.at, 0, n)],
                               e, a.at, "GFX"),
               ok |-> TRUE]

\* Mutant: the run is released when one reference is left.
UnloadOneEarly(mem, e) ==
    LET i == mem.index[e]
        s == mem.slots
    IN IF i = 0 \/ s[i].status \notin InUse \/ s[i].refs = 0
         THEN [mem EXCEPT !.index[e] = 0]
         ELSE [mem EXCEPT !.index[e] = 0,
                          !.slots = [k \in Slots |->
                              IF s[i].refs <= 2 /\ k \in Run(s, i)
                                THEN [s[k] EXCEPT !.status = "UNLOADED", !.refs = 0]
                              ELSE IF k = i THEN [s[k] EXCEPT !.refs = @ - 1]
                              ELSE s[k]]]

\* The last one to leave releases the run; what it shows stays until somebody
\* else needs the slots.
DropReference(s, i) ==
    [k \in Slots |->
        IF k = i THEN [s[k] EXCEPT !.refs = @ - 1,
                                   !.status = IF s[i].refs = 1 THEN "UNLOADED" ELSE @]
        ELSE IF s[i].refs = 1 /\ k \in Run(s, i) THEN [s[k] EXCEPT !.status = "UNLOADED"]
        ELSE s[k]]

UnloadGFXSlots(mem, e) ==
    LET i == mem.index[e]
        s == mem.slots
    IN IF i = 0 \/ s[i].status \notin InUse \/ s[i].refs = 0
         THEN [mem EXCEPT !.index[e] = 0]
         ELSE [mem EXCEPT !.index[e] = 0, !.slots = DropReference(s, i)]

\* The table after ResetPalettes.
EmptyTable == [k \in Slots |->
    IF k < Reserved THEN [NoSlot EXCEPT !.status = "PALETTE", !.count = 1, !.refs = RefLimit]
                    ELSE NoSlot]

-----------------------------------------------------------------------------
(* Uploading, once a frame.                                                *)

Uploads(s, all) == {i \in Slots : /\ s[i].status \in InUse \cup {"PALETTE"}
                                  /\ s[i].vramStatus = 3 \/ (all /\ s[i].vramStatus = 1)
                                  /\ s[i].src # None}

\* sub_080ADE74 for each slot in up.
Drawn(s, up) == UNION {i .. i + SlotsOf[s[i].src] - 1 : i \in up}

Settled(s, up) == [k \in Slots |-> IF k \in up THEN [s[k] EXCEPT !.vramStatus = 1] ELSE s[k]]

\* sub_080ADE24 uploads everything and clears what nobody uses.
UploadEverything(mem) ==
    [mem EXCEPT !.slots = [k \in Slots |-> IF @[k].status \in Idle THEN NoSlot
                                           ELSE Settled(@, Uploads(@, TRUE))[k]],
                !.unk_3 = 0]

\* sub_080ADD70.
UploadSlots(mem) ==
    IF mem.unk_3 = 1 THEN UploadEverything(mem)
    ELSE [mem EXCEPT !.slots = Settled(@, Uploads(@, FALSE))]

\* Every upload is made: so it is after each frame.
UpToDate(mem) == mem.unk_3 = 0 /\ Uploads(mem.slots, FALSE) = {}

-----------------------------------------------------------------------------
Init ==
    /\ m = [slots |-> EmptyTable, unk_3 |-> 0,
            index |-> [e \in Entities |-> 0], offset |-> [e \in Entities |-> 0]]
    /\ drawn = {}
    /\ live = {}
    /\ away = {}
    /\ stash = <<>>
    /\ pic = [e \in Entities |-> None]
    /\ lender = [e \in Entities |-> None]
    /\ leaked = FALSE
    /\ sound = TRUE

\* Who cannot follow a move any more: entities whose slots were put away.
Undisturbed(mem) ==
    /\ \A k \in 0 .. Reserved - 1 : mem.slots[k].status = "PALETTE"
    /\ \A e \in away : mem.index[e] = m.index[e] /\ mem.offset[e] = m.offset[e]

\* The part of a picture that slot k is to show.
Source(s, k) ==
    LET runs == {i \in Slots : s[i].src # None /\ k \in Run(s, i)}
    IN IF runs = {} THEN None ELSE <<s[Max(runs)].src, k - Max(runs)>>

\* Video memory stays as it is until the next frame.
NotUploaded == drawn' = {k \in drawn : Source(m'.slots, k) = Source(m.slots, k)}

\* What e borrowed, and what others borrowed of it, is not looked at any more.
\* (The code leaves the offsets of the borrowers as they are.)
Borrowers(e) == {x \in Entities : lender[x] = e}
Part(e) == lender' = [x \in Entities |-> IF x = e \/ lender[x] = e THEN None ELSE lender[x]]
Parted(mem, gone) == [mem EXCEPT !.offset = [x \in Entities |-> IF x \in gone THEN 0 ELSE @[x]]]

Create(e) ==
    /\ e \notin live
    /\ live' = live \cup {e}
    /\ UNCHANGED <<m, drawn, away, stash, pic, lender, leaked, sound>>

Present == live \ away

\* Load(e, p, r): e asked for picture p, and r came of it.
Load(e, p, r) ==
    /\ m' = IF r.ok THEN Parted(r.mem, Borrowers(e)) ELSE r.mem
    /\ NotUploaded
    /\ sound' = (sound /\ Undisturbed(r.mem))
    /\ IF r.ok
         THEN /\ pic' = [pic EXCEPT ![e] = p]
              /\ leaked' = (leaked \/ m.index[e] \in General)
              /\ Part(e)
         ELSE UNCHANGED <<pic, leaked, lender>>
    /\ UNCHANGED <<live, away, stash>>

LoadFixed(e, g) == e \in Present /\ Load(e, g, LoadFixedGFX(m, live, e, g))

LoadSwap(e, n, i) == e \in Present /\ Load(e, None, LoadSwapGFX(m, live, e, n, i))

\* UpdateSpriteGfxSlot of the port: the next frame of an animation.  Fixed
\* graphics hold all frames and are left alone; the reserved slots, which no
\* two entities share, are left out.
Animate(e, f) ==
    /\ e \in Present
    /\ LET i == m.index[e] IN
       /\ m.slots[i].status = "GFX"
       /\ SlotsOf[f] <= m.slots[i].count
       /\ m.slots[i].src # f
       /\ m' = [m EXCEPT !.slots = SetSource(@, i, f)]
       /\ pic' = [pic EXCEPT ![e] = f]
    /\ NotUploaded
    /\ UNCHANGED <<live, away, stash, lender, leaked, sound>>

\* A child that shows its parent's graphics takes over spriteVramOffset.
Borrow(e, p) ==
    /\ e \in Present /\ p \in Present
    /\ m.index[e] = 0 /\ m.index[p] \in General
    /\ m' = [m EXCEPT !.offset[e] = m.offset[p]]
    /\ lender' = [lender EXCEPT ![e] = p]
    /\ UNCHANGED <<drawn, live, away, stash, pic, leaked, sound>>

Unload(e) ==
    /\ e \in Present
    /\ m.index[e] # 0
    /\ m' = Parted(UnloadGFXSlots(m, e), {e} \cup Borrowers(e))
    /\ pic' = [pic EXCEPT ![e] = None]
    /\ Part(e)
    /\ UNCHANGED <<drawn, live, away, stash, leaked, sound>>

\* DeleteEntity unloads; the entity is cleared.
DeleteEntity(e) ==
    /\ e \in Present
    /\ m' = Parted(UnloadGFXSlots(m, e), {e} \cup Borrowers(e))
    /\ live' = live \ {e}
    /\ pic' = [pic EXCEPT ![e] = None]
    /\ Part(e)
    /\ UNCHANGED <<drawn, away, stash, leaked, sound>>

\* WaitForNextFrame.
Frame ==
    /\ m' = UploadSlots(m)
    /\ drawn' = Drawn(m.slots, Uploads(m.slots, m.unk_3 = 1))
                 \cup {k \in drawn : Source(m'.slots, k) = Source(m.slots, k)}
    /\ UNCHANGED <<live, away, stash, pic, lender, leaked, sound>>

\* GameTask_Init: EraseAllEntities, ResetPalettes.
NewRoom ==
    /\ away = {} /\ stash = <<>>
    /\ m' = [slots |-> EmptyTable, unk_3 |-> 0,
             index |-> [e \in Entities |-> 0], offset |-> [e \in Entities |-> 0]]
    /\ live' = {}
    /\ pic' = [e \in Entities |-> None]
    /\ lender' = [e \in Entities |-> None]
    /\ leaked' = FALSE
    /\ sound' = TRUE
    /\ drawn' = {}
    /\ UNCHANGED <<away, stash>>

-----------------------------------------------------------------------------
(* Subtasks: menus and cutscenes get an empty table.                       *)

\* Subtask_FadeIn and Subtask_Init.  GameMain_Subtask is all that runs in its
\* frame: the uploads of the frame before are made.
SubtaskEnter ==
    /\ stash = <<>>
    /\ UpToDate(m)
    /\ stash' = m.slots
    /\ away' = live
    /\ m' = [m EXCEPT !.slots = EmptyTable, !.unk_3 = 0]
    /\ drawn' = {}
    /\ UNCHANGED <<live, pic, lender, leaked, sound>>

\* DeleteAllEntities.
AllDeleted(mem, gone) ==
    [mem EXCEPT !.index = [e \in Entities |-> IF e \in gone THEN 0 ELSE @[e]],
                !.offset = [e \in Entities |-> IF e \in gone THEN 0 ELSE @[e]]]

\* Subtask_Init once more: a subtask that hands over to another.
SubtaskNext ==
    /\ stash # <<>>
    /\ m' = [AllDeleted(m, Present) EXCEPT !.slots = EmptyTable, !.unk_3 = 0]
    /\ drawn' = {}
    /\ live' = away
    /\ pic' = [e \in Entities |-> IF e \in Present THEN None ELSE pic[e]]
    /\ lender' = [e \in Entities |-> IF e \in Present THEN None ELSE lender[e]]
    /\ UNCHANGED <<away, stash, leaked, sound>>

\* Subtask_FadeOut and RestoreGameTask: the table of before is cleaned up and
\* uploaded.  The slots its own entities held go with its table.
SubtaskLeave ==
    /\ stash # <<>>
    /\ LET back == CleanUpGFXSlots([AllDeleted(m, Present) EXCEPT !.slots = stash], away) IN
       /\ m' = UploadEverything(back)
       /\ drawn' = Drawn(back.slots, Uploads(back.slots, TRUE))
       /\ sound' = (sound /\ \A k \in 0 .. Reserved - 1 : back.slots[k].status = "PALETTE")
    /\ live' = away
    /\ away' = {}
    /\ stash' = <<>>
    /\ pic' = [e \in Entities |-> IF e \in Present THEN None ELSE pic[e]]
    /\ lender' = [e \in Entities |-> IF e \in Present THEN None ELSE lender[e]]
    /\ UNCHANGED leaked

Next ==
    \/ \E e \in Entities : \/ Create(e)
                           \/ \E g \in Fixed : LoadFixed(e, g)
                           \/ \E n \in RunSizes : LoadSwap(e, n, 0)
                           \/ \E i \in 1 .. Reserved - 1 : LoadSwap(e, 1, i)
                           \/ \E f \in Frames : Animate(e, f)
                           \/ \E p \in Entities : Borrow(e, p)
                           \/ Unload(e)
                           \/ DeleteEntity(e)
    \/ Frame
    \/ NewRoom
    \/ SubtaskEnter
    \/ SubtaskNext
    \/ SubtaskLeave

Spec == Init /\ [][Next]_vars

-----------------------------------------------------------------------------
(* Properties.                                                             *)

Records == [status : InUse \cup Idle \cup {"FOLLOWER", "PALETTE"},
            count : 0 .. NSlots, refs : 0 .. RefLimit, gfx : Fixed \cup {0},
            src : Pictures \cup {None}, vramStatus : {0, 1, 3}]

Memories == [slots : [Slots -> Records], unk_3 : {0, 1},
             index : [Entities -> Slots], offset : [Entities -> Slots]]

\* Every variable keeps the range its code can give it.
TypeOK ==
    /\ m \in Memories
    /\ drawn \subseteq Slots
    /\ away \subseteq live /\ live \subseteq Entities
    /\ stash # <<>> => stash \in [Slots -> Records]
    /\ pic \in [Entities -> Pictures \cup {None}]
    /\ lender \in [Entities -> Entities \cup {None}]
    /\ leaked \in BOOLEAN /\ sound \in BOOLEAN

Heads(s) == {i \in General : s[i].status \in InUse}
Holders(es, i) == {e \in es : m.index[e] = i}

\* The pool is cut into runs that do not overlap, whatever was loaded,
\* released and moved: each follower belongs to one run in use, and the
\* reserved slots are never part of one.
Intact(s) ==
    /\ \A k \in 0 .. Reserved - 1 : s[k].status = "PALETTE"
    /\ \A i \in Heads(s) : /\ Run(s, i) \subseteq General
                           /\ \A k \in Run(s, i) \ {i} : s[k].status = "FOLLOWER"
    /\ \A k \in General : s[k].status = "FOLLOWER" =>
         \E i \in Heads(s) : k \in Run(s, i)

RunsIntact == sound => Intact(m.slots) /\ (stash # <<>> => Intact(stash))

\* "How many entities use this gfx slot" (structures.h): a run is in use as
\* long as an entity points at it, and, unless a graphic was loaded over one
\* that was never unloaded, not a moment longer.  While a subtask runs the
\* same holds of the table and the entities it put away.
Counted(s, es) ==
    /\ \A e \in es : m.index[e] \in General => m.index[e] \in Heads(s)
    /\ \A i \in Heads(s) : /\ Cardinality(Holders(es, i)) <= s[i].refs
                           /\ ~leaked => Cardinality(Holders(es, i)) = s[i].refs

ReferencesCounted ==
    sound => Counted(m.slots, Present) /\ (stash # <<>> => Counted(stash, away))

\* After a frame every entity, and every child that borrows its graphics,
\* shows the picture it asked for last, although its run was moved, its
\* graphic was found in a released run, or a subtask used the whole memory.
Owner(e) == IF lender[e] = None THEN e ELSE lender[e]
Shown == \A e \in Present :
    LET p == pic[Owner(e)] IN
    p # None => /\ m.slots[m.offset[e]].src = p
                /\ m.offset[e] .. m.offset[e] + SlotsOf[p] - 1 \subseteq drawn

FramesShowPictures == sound /\ UpToDate(m) => Shown

\* Moving the runs together leaves no gap: a graphic is refused only when
\* fewer slots are idle than it needs.
IdleSlots(s) == {k \in General : s[k].status \in Idle}

RefusedOnlyWhenFull ==
    sound => \A e \in Present, g \in Fixed :
        Cardinality(IdleSlots(m.slots)) >= SlotsOf[g] => LoadFixedGFX(m, live, e, g).ok

\* The reserved slots, and the entities a subtask put away, are hit by a move
\* in two cases only: the pool to clean up has no idle slot, which
\* FindFirstFreeGFXSlot reports as slot 0; or it is cleaned up in a subtask.
OnlyFullPoolsAreLost ==
    [][sound /\ ~sound' => \/ IdleSlots(m.slots) = {}
                           \/ stash # <<>> /\ (IdleSlots(stash) = {} \/ away # {})]_vars
=============================================================================
