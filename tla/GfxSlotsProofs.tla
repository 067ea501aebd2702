--------------------------- MODULE GfxSlotsProofs ---------------------------
(***************************************************************************)
(* The sprite graphics slots stay cut into whole runs whose references are *)
(* exact, through loading, releasing, moving together and subtasks, and    *)
(* what a frame shows is what was asked for; for pools of every size and   *)
(* any number of entities and graphics.                                    *)
(***************************************************************************)
EXTENDS GfxSlots, FiniteSetTheorems, TLAPS

-----------------------------------------------------------------------------
(* Induction and recursion up to a number.                                 *)

\* The subsets of a finite set are well-founded under strict inclusion.
LEMMA MinimalSubset ==
    ASSUME NEW D, IsFiniteSet(D), NEW T \in SUBSET SUBSET D, T # {}
    PROVE  \E S \in T : \A U \in T : U \subseteq S => U = S
<1>1. IsWellFoundedOn(StrictSubsetOrdering(D), SUBSET D)
    BY FS_StrictSubsetOrderingWellFounded, FS_FiniteSubsetsOfFinite
<1>2. PICK S \in T : \A U \in T : ~ (<<U, S>> \in StrictSubsetOrdering(D))
    BY <1>1, WFMin
<1>3. \A U \in T : U \subseteq S /\ U # S => <<U, S>> \in StrictSubsetOrdering(D)
    BY DEF StrictSubsetOrdering
<1>4. \A U \in T : U \subseteq S => U = S
    BY <1>2, <1>3
<1>. QED  BY <1>4

\* A nonempty set of naturals has a least element.
LEMMA LeastElement ==
    ASSUME NEW T \in SUBSET Nat, T # {}
    PROVE  \E n \in T : \A k \in T : n <= k
<1>1. PICK t \in T : TRUE
    OBVIOUS
<1>. DEFINE U == {0 .. k : k \in {k \in T : k <= t}}
<1>2. IsFiniteSet(0 .. t)
    BY FS_Interval
<1>3. U \in SUBSET SUBSET (0 .. t)
    BY SMT
<1>4. U # {}
    OBVIOUS
<1>. DEFINE D == 0 .. t
<1>. HIDE DEF U, D
<1>5. IsFiniteSet(D) /\ U \in SUBSET SUBSET D
    BY <1>2, <1>3 DEF D
<1>6. PICK S \in U : \A V \in U : V \subseteq S => V = S
    BY <1>4, <1>5, MinimalSubset
<1>7. PICK n \in T : n <= t /\ S = 0 .. n
    BY <1>6 DEF U
<1>8. ASSUME NEW k \in T, ~ (n <= k) PROVE FALSE
  <2>1. 0 .. k \in U /\ 0 .. k \subseteq S /\ n \in S /\ n \notin 0 .. k
      BY <1>7, <1>8 DEF U
  <2>. QED  BY <2>1, <1>6
<1>. QED  BY <1>8

\* Induction up to N, over a set.
LEMMA UpTo ==
    ASSUME NEW N \in Nat, NEW F, 0 \in F,
           \A n \in 1 .. N : n - 1 \in F => n \in F
    PROVE  \A n \in 0 .. N : n \in F
<1>. DEFINE T == {n \in 0 .. N : n \notin F}
<1>1. SUFFICES ASSUME T # {} PROVE FALSE
    OBVIOUS
<1>2. T \in SUBSET Nat
    OBVIOUS
<1>. HIDE DEF T
<1>3. PICK n \in T : \A k \in T : n <= k
    BY <1>1, <1>2, LeastElement
<1>4. n \in 1 .. N /\ n - 1 \in 0 .. N /\ n - 1 \notin T
    BY <1>3 DEF T
<1>. QED  BY <1>3, <1>4 DEF T

\* A function defined by recursion over 0 .. N exists.
LEMMA RecursionUpTo ==
    ASSUME NEW N \in Nat, NEW A, NEW a \in A, NEW step \in [A -> A]
    PROVE  \E f \in [0 .. N -> A] :
               f = [n \in 0 .. N |-> IF n = 0 THEN a ELSE step[f[n - 1]]]
<1>. DEFINE F == {k \in Nat : \E f \in [0 .. k -> A] :
                      f = [n \in 0 .. k |-> IF n = 0 THEN a ELSE step[f[n - 1]]]}
<1>1. 0 \in F
  <2>. DEFINE f == [n \in 0 .. 0 |-> a]
  <2>1. f \in [0 .. 0 -> A]  OBVIOUS
  <2>2. f = [n \in 0 .. 0 |-> IF n = 0 THEN a ELSE step[f[n - 1]]]  OBVIOUS
  <2>. QED  BY <2>1, <2>2
<1>2. ASSUME NEW k \in 1 .. N, k - 1 \in F PROVE k \in F
  <2>1. PICK g \in [0 .. k - 1 -> A] :
            g = [n \in 0 .. k - 1 |-> IF n = 0 THEN a ELSE step[g[n - 1]]]
    BY <1>2
  <2>. DEFINE f == [n \in 0 .. k |-> IF n = k THEN step[g[k - 1]] ELSE g[n]]
  <2>2. f \in [0 .. k -> A]  OBVIOUS
  <2>3. \A n \in 0 .. k : f[n] = IF n = 0 THEN a ELSE step[f[n - 1]]
    <3>. TAKE n \in 0 .. k
    <3>1. CASE n = k
      BY <3>1
    <3>2. CASE n # k
      <4>1. n \in 0 .. k - 1  BY <3>2
      <4>2. g[n] = IF n = 0 THEN a ELSE step[g[n - 1]]  BY <2>1, <4>1
      <4>. QED  BY <4>1, <4>2
    <3>. QED  BY <3>1, <3>2
  <2>4. f = [n \in 0 .. k |-> IF n = 0 THEN a ELSE step[f[n - 1]]]
    BY <2>2, <2>3, Zenon
  <2>. HIDE DEF f
  <2>. QED  BY <2>2, <2>4
<1>. HIDE DEF F
<1>3. N \in F  BY <1>1, <1>2, UpTo
<1>. QED  BY <1>3 DEF F

-----------------------------------------------------------------------------
(* The inductive invariant.                                                *)

\* What holds of every table, lost ones too: runs and what they show end
\* inside the pool.
Table(s) ==
    /\ s \in [Slots -> Records]
    /\ \A k \in Slots : /\ k + s[k].count <= NSlots
                        /\ s[k].src # None => k + SlotsOf[s[k].src] <= NSlots

Memory(mem) == mem \in Memories /\ Table(mem.slots)

\* A slot that heads no run, neither one in use nor a released one.
Bare(status) == [NoSlot EXCEPT !.status = status]

Rest(s, i) == Run(s, i) \ {i}

\* A run in use, or a released one.
Piece(s, i) ==
    \/ s[i].status \in InUse /\ \A k \in Rest(s, i) : s[k] = Bare("FOLLOWER")
    \/ s[i].status = "UNLOADED" /\ \A k \in Rest(s, i) : s[k] = Bare("UNLOADED")

Plain(r) == r.status \in {"FREE", "UNLOADED", "FOLLOWER"} /\ r = Bare(r.status)

\* How the general slots are cut into runs.
Cut(s) ==
    /\ \A k \in 0 .. Reserved - 1 : /\ s[k].status = "PALETTE" /\ s[k].count = 1
                                    /\ s[k].gfx = 0 /\ s[k].src = None
    /\ \A i \in General : s[i].count = 0 => Plain(s[i])
    /\ \A i \in General : s[i].count # 0 => Piece(s, i)
    /\ \A k \in General : s[k].status = "FOLLOWER" =>
         \E i \in General : s[i].status \in InUse /\ k \in Rest(s, i)

\* What the head of a run says of it.
Head(r) ==
    /\ r.status \in InUse <=> r.refs # 0
    /\ r.status = "GFX" => r.gfx = 0 /\ r.refs = 1
    /\ r.gfx # 0 => r.src = r.gfx
    /\ r.src # None => SlotsOf[r.src] <= r.count /\ r.vramStatus # 0

Whole(s) == Cut(s) /\ \A i \in General : s[i].count # 0 => Head(s[i])

\* The references a table counts are the entities that hold its runs.
HeldBy(index, es, i) == {e \in es : index[e] = i}

Referred(s, index, es, leak) == \A i \in General :
    /\ Cardinality(HeldBy(index, es, i)) <= s[i].refs
    /\ ~leak => Cardinality(HeldBy(index, es, i)) = s[i].refs

\* What an entity asked for, itself or through its lender, is what its tiles
\* are of.
Pointing(s, index, offset, es, pc, ln) == \A e \in es :
    /\ index[e] \in General => offset[e] = index[e] /\ ln[e] = None
    /\ ln[e] = None /\ pc[e] # None => index[e] \in General /\ s[index[e]].src = pc[e]
    /\ ln[e] # None => /\ pc[e] = None /\ ln[e] \in es
                       /\ index[ln[e]] \in General /\ offset[e] = index[ln[e]]

\* What needs no upload any more is in video memory.
InMemory(s, d) == \A i \in General : s[i].src # None /\ s[i].vramStatus = 1 =>
    i .. i + SlotsOf[s[i].src] - 1 \subseteq d

TypeInv == TypeOK /\ Table(m.slots) /\ (stash # <<>> => Table(stash))

RoomInv ==
    /\ Whole(m.slots)
    /\ Referred(m.slots, m.index, Present, leaked)
    /\ Pointing(m.slots, m.index, m.offset, Present, pic, lender)
    /\ m.unk_3 = 0 => InMemory(m.slots, drawn)

AwayInv ==
    /\ stash = <<>> => away = {}
    /\ stash # <<>> => /\ Whole(stash)
                       /\ Referred(stash, m.index, away, leaked)
                       /\ Pointing(stash, m.index, m.offset, away, pic, lender)

GoneInv == \A e \in Entities \ live : m.index[e] = 0 /\ pic[e] = None /\ lender[e] = None

SoundInv == RoomInv /\ AwayInv /\ GoneInv

IInv == TypeInv /\ (sound => SoundInv)

-----------------------------------------------------------------------------
(* Numbers and records.                                                    *)

Statuses == InUse \cup Idle \cup {"FOLLOWER", "PALETTE"}

Tables == [Slots -> Records]

LEMMA Sizes ==
    /\ NSlots \in Nat /\ Reserved \in Nat /\ 1 <= Reserved /\ Reserved < NSlots
    /\ Slots = 0 .. NSlots - 1 /\ General = Reserved .. NSlots - 1
    /\ General \subseteq Slots /\ 0 \in Slots /\ 0 \notin General
    /\ RefLimit \in Nat /\ IsFiniteSet(Entities)
    /\ Cardinality(Entities) \in Nat /\ Cardinality(Entities) < RefLimit
<1>1. IsFiniteSet(Entities)
    BY PoolAssumption
<1>2. Cardinality(Entities) \in Nat
    BY <1>1, FS_CardinalityType
<1>. QED  BY <1>1, <1>2, PoolAssumption DEF Slots, General

\* What a picture fills is a number of slots.
LEMMA Filled == \A p \in Pictures : SlotsOf[p] \in 1 .. NSlots /\ p # 0 /\ p # None
BY PoolAssumption

LEMMA RecordType ==
    ASSUME NEW r \in Records
    PROVE  /\ r.status \in Statuses /\ r.count \in 0 .. NSlots /\ r.refs \in 0 .. RefLimit
           /\ r.gfx \in Fixed \cup {0} /\ r.src \in Pictures \cup {None}
           /\ r.vramStatus \in {0, 1, 3}
BY DEF Records, Statuses

\* What the operations change in one slot.
WithStatus(r, status) == [r EXCEPT !.status = status]
WithRefs(r, n) == [r EXCEPT !.refs = n]
WithSource(r, p) == [r EXCEPT !.src = p, !.vramStatus = 3]
WithUpload(r) == [r EXCEPT !.vramStatus = 1]
WithSize(r, n, g) == [r EXCEPT !.count = n, !.gfx = g]

LEMMA StatusRecord ==
    ASSUME NEW r \in Records, NEW st \in Statuses
    PROVE  LET q == WithStatus(r, st)
           IN  /\ q \in Records /\ q.status = st
               /\ q.count = r.count /\ q.refs = r.refs /\ q.gfx = r.gfx
               /\ q.src = r.src /\ q.vramStatus = r.vramStatus
BY DEF Records, Statuses, WithStatus

LEMMA RefsRecord ==
    ASSUME NEW r \in Records, NEW n \in 0 .. RefLimit
    PROVE  LET q == WithRefs(r, n)
           IN  /\ q \in Records /\ q.refs = n
               /\ q.count = r.count /\ q.status = r.status /\ q.gfx = r.gfx
               /\ q.src = r.src /\ q.vramStatus = r.vramStatus
BY DEF Records, WithRefs

LEMMA SourceRecord ==
    ASSUME NEW r \in Records, NEW p \in Pictures \cup {None}
    PROVE  LET q == WithSource(r, p)
           IN  /\ q \in Records /\ q.src = p /\ q.vramStatus = 3
               /\ q.count = r.count /\ q.status = r.status /\ q.gfx = r.gfx
               /\ q.refs = r.refs
BY DEF Records, WithSource

LEMMA UploadRecord ==
    ASSUME NEW r \in Records
    PROVE  LET q == WithUpload(r)
           IN  /\ q \in Records /\ q.src = r.src /\ q.vramStatus = 1
               /\ q.count = r.count /\ q.status = r.status /\ q.gfx = r.gfx
               /\ q.refs = r.refs
BY DEF Records, WithUpload

LEMMA SizeRecord ==
    ASSUME NEW r \in Records, NEW n \in 0 .. NSlots, NEW g \in Fixed \cup {0}
    PROVE  LET q == WithSize(r, n, g)
           IN  /\ q \in Records /\ q.count = n /\ q.gfx = g
               /\ q.status = r.status /\ q.refs = r.refs
               /\ q.src = r.src /\ q.vramStatus = r.vramStatus
BY DEF Records, WithSize

LEMMA BareRecord ==
    ASSUME NEW st \in Statuses
    PROVE  /\ Bare(st) \in Records /\ Bare(st).status = st /\ Bare(st).count = 0
           /\ Bare(st).refs = 0 /\ Bare(st).gfx = 0 /\ Bare(st).src = None
           /\ Bare(st).vramStatus = 0
BY Sizes DEF Bare, NoSlot, Records, Statuses

LEMMA BareFree ==
    /\ NoSlot = Bare("FREE") /\ NoSlot \in Records /\ NoSlot.status = "FREE"
    /\ NoSlot.count = 0 /\ NoSlot.refs = 0 /\ NoSlot.gfx = 0 /\ NoSlot.src = None
    /\ NoSlot.vramStatus = 0
<1>1. NoSlot = Bare("FREE")
    BY DEF Bare, NoSlot
<1>2. "FREE" \in Statuses
    BY DEF Statuses, Idle
<1>. QED  BY <1>1, <1>2, BareRecord

LEMMA BareAgain ==
    ASSUME NEW st \in Statuses, NEW t \in Statuses
    PROVE  WithStatus(Bare(st), t) = Bare(t)
BY DEF Bare, NoSlot, WithStatus

-----------------------------------------------------------------------------
(* Searching.                                                              *)

LEMMA MinOf ==
    ASSUME NEW S \in SUBSET Nat, S # {}
    PROVE  Min(S) \in S /\ \A k \in S : Min(S) <= k
<1>1. \E n \in S : \A k \in S : n <= k
    BY LeastElement
<1>. QED  BY <1>1, Zenon DEF Min

LEMMA MaxOfOne == \A i \in Int : Max({i}) = i
BY DEF Max

IdleRun(s, i, n) ==
    i \in General /\ i + n - 1 \in Slots /\ \A k \in i .. i + n - 1 : s[k].status \in Idle

\* The slots that are found are idle, and nothing lower is as long; that
\* nothing is found means that no n idle slots are in a row.
LEMMA FreeFound ==
    ASSUME NEW s, NEW n \in 1 .. NSlots
    PROVE  LET a == FindFreeGFXSlots(s, n) IN
           /\ a \in General \cup {0}
           /\ a # 0 => /\ IdleRun(s, a, n)
                       /\ \/ \A k \in a .. a + n - 1 : s[k].status = "FREE"
                          \/ \A i \in General : i < a => ~IdleRun(s, i, n)
           /\ a = 0 => \A i \in General : ~IdleRun(s, i, n)
<1>. DEFINE Fit(st) == {i \in General : /\ i + n - 1 \in Slots
                                        /\ \A k \in i .. i + n - 1 : s[k].status \in st}
            F == Fit({"FREE"})
            I == Fit(Idle)
            a == FindFreeGFXSlots(s, n)
<1>1. a = IF F # {} THEN Min(F) ELSE IF I # {} THEN Min(I) ELSE 0
    BY DEF FindFreeGFXSlots
<1>2. F \in SUBSET Nat /\ I \in SUBSET Nat /\ F \subseteq General /\ I \subseteq General
    BY Sizes
<1>3. \A i : i \in I <=> IdleRun(s, i, n)
    BY DEF IdleRun
<1>4. \A i \in F : i + n - 1 \in Slots /\ \A k \in i .. i + n - 1 : s[k].status = "FREE"
    OBVIOUS
<1>5. F \subseteq I
    BY DEF Idle
<1>. HIDE DEF F, I, a
<1>6. CASE F # {}
  <2>1. a \in F
      BY <1>1, <1>2, <1>6, MinOf
  <2>2. a \in General /\ a # 0
      BY <1>2, <2>1, Sizes
  <2>. QED  BY <2>1, <2>2, <1>3, <1>4, <1>5 DEF a
<1>7. CASE F = {} /\ I # {}
  <2>1. a \in I /\ \A k \in I : a <= k
      BY <1>1, <1>2, <1>7, MinOf
  <2>2. a \in General /\ a # 0
      BY <1>2, <2>1, Sizes
  <2>3. \A i \in General : i < a => ~IdleRun(s, i, n)
      BY <1>3, <2>1, <2>2, Sizes
  <2>. QED  BY <2>1, <2>2, <2>3, <1>3 DEF a
<1>8. CASE F = {} /\ I = {}
    BY <1>1, <1>3, <1>8 DEF a
<1>. QED  BY <1>6, <1>7, <1>8

LEMMA OccupiedFound ==
    ASSUME NEW s, NEW at \in Nat, at # 0
    PROVE  LET a == FindNextOccupiedGFXSlot(s, at) IN
           /\ a # 0 => /\ a \in at .. NSlots - 2 /\ s[a].status \in InUse
                       /\ \A k \in at .. a - 1 : s[k].status \notin InUse
           /\ a = 0 => \A k \in at .. NSlots - 2 : s[k].status \notin InUse
<1>. DEFINE found == {k \in at .. NSlots - 2 : s[k].status \in InUse}
            a == FindNextOccupiedGFXSlot(s, at)
<1>1. found \in SUBSET Nat /\ 0 \notin found
    BY Sizes
<1>2. a = IF found = {} THEN 0 ELSE Min(found)
    BY DEF FindNextOccupiedGFXSlot
<1>3. \A k : k \in found <=> k \in at .. NSlots - 2 /\ s[k].status \in InUse
    OBVIOUS
<1>. HIDE DEF found, a
<1>4. CASE found # {}
  <2>1. a \in found /\ \A k \in found : a <= k
      BY <1>1, <1>2, <1>4, MinOf
  <2>2. \A k \in at .. a - 1 : s[k].status \notin InUse
      BY <1>1, <1>3, <2>1, Sizes
  <2>. QED  BY <2>1, <2>2, <1>1, <1>3 DEF a
<1>5. CASE found = {}
    BY <1>2, <1>3, <1>5 DEF a
<1>. QED  BY <1>4, <1>5

LEMMA FreeSlotFound ==
    ASSUME NEW s
    PROVE  LET a == FindFirstFreeGFXSlot(s) IN
           \/ a = 0 /\ IdleSlots(s) = {}
           \/ a # 0 /\ a \in IdleSlots(s) /\ \A k \in IdleSlots(s) : a <= k
<1>1. FindFirstFreeGFXSlot(s) = IF IdleSlots(s) = {} THEN 0 ELSE Min(IdleSlots(s))
    BY DEF FindFirstFreeGFXSlot, IdleSlots
<1>2. IdleSlots(s) \in SUBSET Nat /\ 0 \notin IdleSlots(s)
    BY Sizes DEF IdleSlots
<1>. QED  BY <1>1, <1>2, MinOf

-----------------------------------------------------------------------------
(* Tables stay tables.                                                     *)

\* A table none of whose slots is longer, or shows more, than before.
LEMMA SameShape ==
    ASSUME NEW s, Table(s), NEW t \in Tables,
           \A k \in Slots : t[k].count = s[k].count /\ t[k].src = s[k].src
    PROVE  Table(t)
BY DEF Table, Tables

LEMMA StatusSet ==
    ASSUME NEW s \in Tables, NEW i \in Slots, NEW st \in Statuses
    PROVE  LET t == SetGFXSlotStatus(s, i, st) IN
           /\ t \in Tables
           /\ t[i] = WithStatus(s[i], st)
           /\ st # "PALETTE" => \A k \in Slots : k # i /\ k \in Run(s, i) =>
                t[k] = WithStatus(s[k], "FOLLOWER")
           /\ st = "PALETTE" => \A k \in Slots : k # i /\ k \in Run(s, i) =>
                t[k] = WithStatus(s[k], "PALETTE")
           /\ \A k \in Slots : k # i /\ k \notin Run(s, i) => t[k] = s[k]
           /\ \A k \in Slots : /\ t[k].count = s[k].count /\ t[k].src = s[k].src
                               /\ t[k].gfx = s[k].gfx /\ t[k].refs = s[k].refs
                               /\ t[k].vramStatus = s[k].vramStatus
<1>. DEFINE rest == IF st = "PALETTE" THEN st ELSE "FOLLOWER"
            t == SetGFXSlotStatus(s, i, st)
<1>1. t = [k \in Slots |-> IF k = i THEN WithStatus(s[k], st)
                           ELSE IF k \in Run(s, i) THEN WithStatus(s[k], rest) ELSE s[k]]
    BY Zenon DEF SetGFXSlotStatus, WithStatus
<1>2. rest \in Statuses
    BY DEF Statuses
<1>. HIDE DEF t, rest
<1>3. \A k \in Slots : t[k] = IF k = i THEN WithStatus(s[k], st)
                              ELSE IF k \in Run(s, i) THEN WithStatus(s[k], rest) ELSE s[k]
    BY <1>1
<1>4. \A k \in Slots : s[k] \in Records
    BY DEF Tables
<1>5. ASSUME NEW k \in Slots
      PROVE  /\ t[k] \in Records /\ t[k].count = s[k].count /\ t[k].src = s[k].src
             /\ t[k].gfx = s[k].gfx /\ t[k].refs = s[k].refs
             /\ t[k].vramStatus = s[k].vramStatus
  <2>1. s[k] \in Records
      BY <1>4
  <2>2. CASE k = i
      BY <2>1, <2>2, <1>3, StatusRecord
  <2>3. CASE k # i /\ k \in Run(s, i)
      BY <2>1, <2>3, <1>2, <1>3, StatusRecord
  <2>4. CASE k # i /\ k \notin Run(s, i)
      BY <2>1, <2>4, <1>3
  <2>. QED  BY <2>2, <2>3, <2>4
<1>6. t \in Tables
    BY <1>1, <1>5 DEF Tables
<1>. QED  BY <1>3, <1>5, <1>6 DEF t, rest

\* Reserved slots are a run of their own, without references.
LEMMA ReserveSet ==
    ASSUME NEW s \in Tables, NEW a \in Slots, NEW n \in 1 .. NSlots, a + n - 1 \in Slots,
           NEW g \in Fixed \cup {0}
    PROVE  LET t == ReserveGFXSlots(s, a, g, n) IN
           /\ t \in Tables
           /\ t[a].status = "RESERVED" /\ t[a].count = n /\ t[a].gfx = g
           /\ t[a].refs = 0 /\ t[a].src = None /\ t[a].vramStatus = 0
           /\ \A k \in a + 1 .. a + n - 1 : t[k] = Bare("FOLLOWER")
           /\ \A k \in Slots \ (a .. a + n - 1) : t[k] = s[k]
           /\ Table(s) => Table(t)
<1>. DEFINE u == [k \in Slots |-> IF k = a THEN WithSize(NoSlot, n, g)
                                  ELSE IF k \in a .. a + n - 1 THEN NoSlot ELSE s[k]]
            t == ReserveGFXSlots(s, a, g, n)
<1>1. t = SetGFXSlotStatus(u, a, "RESERVED")
    BY Zenon DEF ReserveGFXSlots, WithSize
<1>2. n \in 0 .. NSlots /\ "RESERVED" \in Statuses /\ "FOLLOWER" \in Statuses
    BY Sizes DEF Statuses, InUse
<1>3. /\ WithSize(NoSlot, n, g) \in Records /\ WithSize(NoSlot, n, g).count = n
      /\ WithSize(NoSlot, n, g).gfx = g /\ WithSize(NoSlot, n, g).refs = 0
      /\ WithSize(NoSlot, n, g).src = None /\ WithSize(NoSlot, n, g).vramStatus = 0
    BY <1>2, BareFree, SizeRecord
<1>4. \A k \in Slots : u[k] = IF k = a THEN WithSize(NoSlot, n, g)
                              ELSE IF k \in a .. a + n - 1 THEN NoSlot ELSE s[k]
    OBVIOUS
<1>5. u \in Tables
    BY <1>3, BareFree DEF Tables
<1>6. u[a] = WithSize(NoSlot, n, g) /\ Run(u, a) = a .. a + n - 1
    BY <1>3, <1>4 DEF Run
<1>. HIDE DEF t, u
<1>7. /\ t \in Tables
      /\ t[a] = WithStatus(u[a], "RESERVED")
      /\ \A k \in Slots : k # a /\ k \in Run(u, a) => t[k] = WithStatus(u[k], "FOLLOWER")
      /\ \A k \in Slots : k # a /\ k \notin Run(u, a) => t[k] = u[k]
      /\ \A k \in Slots : /\ t[k].count = u[k].count /\ t[k].src = u[k].src
                          /\ t[k].gfx = u[k].gfx /\ t[k].refs = u[k].refs
                          /\ t[k].vramStatus = u[k].vramStatus
  <2>. DEFINE st == "RESERVED"
  <2>1. st \in Statuses /\ st # "PALETTE" /\ t = SetGFXSlotStatus(u, a, st)
      BY <1>1, <1>2
  <2>. HIDE DEF st
  <2>2. /\ t \in Tables
        /\ t[a] = WithStatus(u[a], st)
        /\ \A k \in Slots : k # a /\ k \in Run(u, a) => t[k] = WithStatus(u[k], "FOLLOWER")
        /\ \A k \in Slots : k # a /\ k \notin Run(u, a) => t[k] = u[k]
        /\ \A k \in Slots : /\ t[k].count = u[k].count /\ t[k].src = u[k].src
                            /\ t[k].gfx = u[k].gfx /\ t[k].refs = u[k].refs
                            /\ t[k].vramStatus = u[k].vramStatus
      BY <2>1, <1>5, StatusSet
  <2>. QED  BY <2>2 DEF st
<1>8. t[a].status = "RESERVED"
    BY <1>2, <1>3, <1>6, <1>7, StatusRecord
<1>9. ASSUME NEW k \in a + 1 .. a + n - 1 PROVE t[k] = Bare("FOLLOWER")
  <2>1. k \in Slots /\ k # a /\ k \in Run(u, a) /\ k \in a .. a + n - 1
      BY <1>6, <1>9, Sizes
  <2>2. u[k] = NoSlot
      BY <2>1, <1>4
  <2>3. "FREE" \in Statuses
      BY DEF Statuses, Idle
  <2>. QED  BY <2>1, <2>2, <2>3, <1>2, <1>7, BareFree, BareAgain
<1>10. \A k \in Slots \ (a .. a + n - 1) : t[k] = s[k]
    BY <1>4, <1>6, <1>7, Sizes
<1>11. ASSUME Table(s) PROVE Table(u)
  <2>1. ASSUME NEW k \in Slots
        PROVE  k + u[k].count <= NSlots /\ (u[k].src # None => k + SlotsOf[u[k].src] <= NSlots)
      BY <1>3, <1>4, <1>11, BareFree, Sizes DEF Table
  <2>. QED  BY <2>1, <1>5 DEF Table, Tables
<1>12. Table(s) => Table(t)
    BY <1>7, <1>11, SameShape
<1>. QED  BY <1>3, <1>6, <1>7, <1>8, <1>9, <1>10, <1>12 DEF t

LEMMA SourceSet ==
    ASSUME NEW s, Table(s), NEW i \in Slots, NEW p \in Pictures, i + SlotsOf[p] <= NSlots
    PROVE  LET t == SetSource(s, i, p) IN
           /\ Table(t)
           /\ t[i] = WithSource(s[i], p)
           /\ \A k \in Slots \ {i} : t[k] = s[k]
<1>. DEFINE t == SetSource(s, i, p)
<1>1. t = [s EXCEPT ![i] = WithSource(s[i], p)]
    BY DEF SetSource, WithSource
<1>2. s \in Tables /\ s[i] \in Records /\ p \in Pictures \cup {None}
    BY DEF Table, Tables
<1>3. WithSource(s[i], p) \in Records /\ WithSource(s[i], p).count = s[i].count
      /\ WithSource(s[i], p).src = p
    BY <1>2, SourceRecord
<1>. HIDE DEF t
<1>4. t \in Tables /\ t[i] = WithSource(s[i], p) /\ \A k \in Slots \ {i} : t[k] = s[k]
    BY <1>1, <1>2, <1>3 DEF Tables
<1>5. Table(t)
    BY <1>3, <1>4, Sizes DEF Table, Tables
<1>. QED  BY <1>4, <1>5 DEF t

\* What a run leaves behind, and its copy.
LEMMA MoveSet ==
    ASSUME NEW s, Table(s), NEW from \in Slots, NEW to \in Slots, to <= from
    PROVE  LET t == MoveGFXSlots(s, from, to)
               n == s[from].count
           IN  /\ Table(t)
               /\ n # 0 => t[to] = s[from]
               /\ \A j \in 0 .. n - 1 : t[to + j] = s[from + j]
               /\ \A k \in Slots : k \in Run(s, from) /\ k \notin to .. to + n - 1 => t[k] = NoSlot
               /\ \A k \in Slots : k \notin Run(s, from) /\ k \notin to .. to + n - 1 => t[k] = s[k]
<1>. DEFINE t == MoveGFXSlots(s, from, to)
            n == s[from].count
<1>1. t = [k \in Slots |-> IF k \in to .. to + n - 1 THEN s[k - to + from]
                           ELSE IF k \in Run(s, from) THEN NoSlot ELSE s[k]]
    BY Zenon DEF MoveGFXSlots
<1>2. n \in 0 .. NSlots /\ from + n <= NSlots /\ s \in Tables
    BY RecordType, Sizes DEF Table, Tables
<1>3. Run(s, from) = from .. from + n - 1
    BY DEF Run
<1>. HIDE DEF t, n
<1>4. \A k \in to .. to + n - 1 : k \in Slots /\ k - to + from \in Slots /\ t[k] = s[k - to + from]
    BY <1>1, <1>2, Sizes
<1>5. \A k \in Slots : k \notin to .. to + n - 1 =>
         t[k] = IF k \in Run(s, from) THEN NoSlot ELSE s[k]
    BY <1>1
<1>6. ASSUME NEW j \in 0 .. n - 1 PROVE t[to + j] = s[from + j]
  <2>1. to + j \in to .. to + n - 1 /\ (to + j) - to + from = from + j
      BY <1>2, <1>6, Sizes
  <2>. QED  BY <2>1, <1>4
<1>7. ASSUME n # 0 PROVE t[to] = s[from]
  <2>1. 0 \in 0 .. n - 1 /\ to + 0 = to /\ from + 0 = from
      BY <1>2, <1>7, Sizes
  <2>. QED  BY <2>1, <1>6
<1>8. ASSUME NEW k \in Slots
      PROVE  /\ t[k] \in Records /\ k + t[k].count <= NSlots
             /\ t[k].src # None => k + SlotsOf[t[k].src] <= NSlots
  <2>1. CASE k \in to .. to + n - 1
    <3>1. k - to + from \in Slots /\ t[k] = s[k - to + from]
        BY <2>1, <1>4
    <3>2. k \in Int /\ k <= k - to + from
        BY <1>2, Sizes
    <3>. DEFINE c == s[k - to + from].count
                z == s[k - to + from].src
    <3>3. /\ s[k - to + from] \in Records /\ (k - to + from) + c <= NSlots
          /\ z # None => (k - to + from) + SlotsOf[z] <= NSlots
        BY <3>1 DEF Table
    <3>4. c \in Nat /\ (z # None => SlotsOf[z] \in Nat)
        BY <3>3, RecordType, Filled, Sizes
    <3>5. k - to + from \in Int
        BY <3>1, Sizes
    <3>. HIDE DEF c, z
    <3>6. k + c <= NSlots /\ (z # None => k + SlotsOf[z] <= NSlots)
        BY <3>2, <3>3, <3>4, <3>5, Sizes
    <3>. QED  BY <3>1, <3>3, <3>6 DEF c, z
  <2>2. CASE k \notin to .. to + n - 1 /\ k \in Run(s, from)
    <3>1. t[k] = NoSlot
        BY <2>2, <1>5
    <3>. QED  BY <3>1, BareFree, Sizes
  <2>3. CASE k \notin to .. to + n - 1 /\ k \notin Run(s, from)
    <3>1. t[k] = s[k]
        BY <2>3, <1>5
    <3>. QED  BY <3>1 DEF Table
  <2>. QED  BY <2>1, <2>2, <2>3
<1>9. Table(t)
  <2>1. t \in Tables
      BY <1>1, <1>8 DEF Tables
  <2>. QED  BY <2>1, <1>8 DEF Table, Tables
<1>. QED  BY <1>5, <1>6, <1>7, <1>9 DEF t, n

\* One more reference, as far as they are counted.
More(n) == IF n < RefLimit THEN n + 1 ELSE n

UsedTable(s, i, status) == SetGFXSlotStatus(AddReference(s, i), i, status)

LEMMA UsedSet ==
    ASSUME NEW s, Table(s), NEW i \in Slots, NEW st \in Statuses
    PROVE  LET t == UsedTable(s, i, st) IN
           /\ Table(t)
           /\ t[i].status = st /\ t[i].refs = More(s[i].refs) /\ t[i].refs \in 0 .. RefLimit
           /\ \A k \in Slots : /\ t[k].count = s[k].count /\ t[k].src = s[k].src
                               /\ t[k].gfx = s[k].gfx /\ t[k].vramStatus = s[k].vramStatus
           /\ st # "PALETTE" => \A k \in Slots : k # i /\ k \in Run(s, i) =>
                t[k] = WithStatus(s[k], "FOLLOWER")
           /\ st = "PALETTE" => \A k \in Slots : k # i /\ k \in Run(s, i) =>
                t[k] = WithStatus(s[k], "PALETTE")
           /\ \A k \in Slots : k # i /\ k \notin Run(s, i) => t[k] = s[k]
<1>. DEFINE r == More(s[i].refs)
            u == [s EXCEPT ![i] = WithRefs(s[i], r)]
            t == UsedTable(s, i, st)
<1>1. t = SetGFXSlotStatus(u, i, st)
    BY DEF UsedTable, AddReference, WithRefs, More
<1>2. s \in Tables /\ s[i] \in Records /\ \A k \in Slots : s[k] \in Records
    BY DEF Table, Tables
<1>3. r \in 0 .. RefLimit
    BY <1>2, RecordType, Sizes DEF More
<1>4. /\ WithRefs(s[i], r) \in Records /\ WithRefs(s[i], r).refs = r
      /\ WithRefs(s[i], r).count = s[i].count /\ WithRefs(s[i], r).src = s[i].src
      /\ WithRefs(s[i], r).gfx = s[i].gfx /\ WithRefs(s[i], r).vramStatus = s[i].vramStatus
    BY <1>2, <1>3, RefsRecord
<1>5. /\ u \in Tables /\ u[i] = WithRefs(s[i], r)
      /\ \A k \in Slots : k # i => u[k] = s[k]
    BY <1>2, <1>4 DEF Tables
<1>6. \A k \in Slots : /\ u[k].count = s[k].count /\ u[k].src = s[k].src
                       /\ u[k].gfx = s[k].gfx /\ u[k].vramStatus = s[k].vramStatus
    BY <1>4, <1>5
<1>7. Run(u, i) = Run(s, i)
    BY <1>6 DEF Run
<1>. HIDE DEF r, u, t
<1>8. /\ t \in Tables /\ t[i] = WithStatus(u[i], st)
      /\ st # "PALETTE" => \A k \in Slots : k # i /\ k \in Run(u, i) => t[k] = WithStatus(u[k], "FOLLOWER")
      /\ st = "PALETTE" => \A k \in Slots : k # i /\ k \in Run(u, i) => t[k] = WithStatus(u[k], "PALETTE")
      /\ \A k \in Slots : k # i /\ k \notin Run(u, i) => t[k] = u[k]
      /\ \A k \in Slots : /\ t[k].count = u[k].count /\ t[k].src = u[k].src
                          /\ t[k].gfx = u[k].gfx /\ t[k].refs = u[k].refs
                          /\ t[k].vramStatus = u[k].vramStatus
    BY <1>1, <1>5, StatusSet
<1>9. t[i].status = st /\ t[i].refs = r
  <2>1. u[i] \in Records /\ u[i].refs = r
      BY <1>4, <1>5
  <2>. QED  BY <2>1, <1>8, StatusRecord
<1>10. Table(t)
    BY <1>6, <1>8, SameShape
<1>. QED  BY <1>3, <1>5, <1>6, <1>7, <1>8, <1>9, <1>10 DEF t, r

\* The last one to leave releases the run.
LEMMA ReleasedSet ==
    ASSUME NEW s, Table(s), NEW i \in Slots, s[i].refs # 0
    PROVE  LET t == DropReference(s, i) IN
           /\ Table(t)
           /\ t[i].status = (IF s[i].refs = 1 THEN "UNLOADED" ELSE s[i].status)
           /\ t[i].refs = s[i].refs - 1
           /\ \A k \in Slots : /\ t[k].count = s[k].count /\ t[k].src = s[k].src
                               /\ t[k].gfx = s[k].gfx /\ t[k].vramStatus = s[k].vramStatus
           /\ \A k \in Slots : k # i => t[k] = IF s[i].refs = 1 /\ k \in Run(s, i)
                                              THEN WithStatus(s[k], "UNLOADED") ELSE s[k]
<1>. DEFINE st == IF s[i].refs = 1 THEN "UNLOADED" ELSE s[i].status
            z == WithStatus(WithRefs(s[i], s[i].refs - 1), st)
            t == DropReference(s, i)
<1>1. \A k \in Slots : s[k] \in Records
    BY DEF Table
<1>2. s[i].refs - 1 \in 0 .. RefLimit /\ st \in Statuses /\ "UNLOADED" \in Statuses
    BY <1>1, RecordType, Sizes DEF Statuses, Idle
<1>3. z = [s[i] EXCEPT !.refs = @ - 1, !.status = IF s[i].refs = 1 THEN "UNLOADED" ELSE @]
    BY <1>1 DEF WithStatus, WithRefs
<1>4. t = [k \in Slots |-> IF k = i THEN z
                           ELSE IF s[i].refs = 1 /\ k \in Run(s, i)
                             THEN WithStatus(s[k], "UNLOADED") ELSE s[k]]
    BY <1>3, Zenon DEF DropReference, WithStatus
<1>5. /\ z \in Records /\ z.status = st /\ z.refs = s[i].refs - 1 /\ z.count = s[i].count
      /\ z.src = s[i].src /\ z.gfx = s[i].gfx /\ z.vramStatus = s[i].vramStatus
  <2>. DEFINE y == WithRefs(s[i], s[i].refs - 1)
  <2>1. /\ y \in Records /\ y.refs = s[i].refs - 1 /\ y.count = s[i].count
        /\ y.src = s[i].src /\ y.gfx = s[i].gfx /\ y.vramStatus = s[i].vramStatus
      BY <1>1, <1>2, RefsRecord
  <2>. HIDE DEF y, st
  <2>2. LET q == WithStatus(y, st)
        IN  /\ q \in Records /\ q.status = st
            /\ q.count = y.count /\ q.refs = y.refs /\ q.gfx = y.gfx
            /\ q.src = y.src /\ q.vramStatus = y.vramStatus
      BY <2>1, <1>2, StatusRecord
  <2>. QED  BY <2>1, <2>2 DEF y
<1>. HIDE DEF z, t
<1>6. ASSUME NEW k \in Slots
      PROVE  /\ t[k] \in Records /\ t[k].count = s[k].count /\ t[k].src = s[k].src
             /\ t[k].gfx = s[k].gfx /\ t[k].vramStatus = s[k].vramStatus
  <2>1. CASE k = i
      BY <2>1, <1>4, <1>5
  <2>2. CASE k # i /\ s[i].refs = 1 /\ k \in Run(s, i)
    <3>1. t[k] = WithStatus(s[k], "UNLOADED")
        BY <2>2, <1>4
    <3>. DEFINE u == "UNLOADED"
    <3>2. u \in Statuses /\ s[k] \in Records
        BY <1>1, <1>2
    <3>. HIDE DEF u
    <3>3. LET q == WithStatus(s[k], u)
          IN  /\ q \in Records /\ q.count = s[k].count /\ q.gfx = s[k].gfx
              /\ q.src = s[k].src /\ q.vramStatus = s[k].vramStatus
        BY <3>2, StatusRecord
    <3>. QED  BY <3>1, <3>3 DEF u
  <2>3. CASE k # i /\ ~ (s[i].refs = 1 /\ k \in Run(s, i))
      BY <2>3, <1>1, <1>4
  <2>. QED  BY <2>1, <2>2, <2>3
<1>7. t \in Tables
    BY <1>4, <1>6 DEF Tables
<1>8. Table(t)
    BY <1>6, <1>7, SameShape
<1>9. t[i] = z /\ \A k \in Slots : k # i => t[k] = IF s[i].refs = 1 /\ k \in Run(s, i)
                                              THEN WithStatus(s[k], "UNLOADED") ELSE s[k]
    BY <1>4
<1>. QED  BY <1>5, <1>6, <1>8, <1>9 DEF t

-----------------------------------------------------------------------------
(* Memories.                                                               *)

Memo(mem, slots, unk_3, index, offset) ==
    /\ mem \in Memories
    /\ mem.slots = slots /\ mem.unk_3 = unk_3 /\ mem.index = index /\ mem.offset = offset

LEMMA MemoryType ==
    ASSUME NEW mem \in Memories
    PROVE  /\ mem.slots \in Tables /\ mem.unk_3 \in {0, 1}
           /\ mem.index \in [Entities -> Slots] /\ mem.offset \in [Entities -> Slots]
BY DEF Memories, Tables

LEMMA MemoExcept ==
    ASSUME NEW mem \in Memories, NEW sl \in Tables, NEW u \in {0, 1},
           NEW ix \in [Entities -> Slots], NEW of \in [Entities -> Slots], NEW q
    PROVE  /\ q = [mem EXCEPT !.slots = sl] =>
                Memo(q, sl, mem.unk_3, mem.index, mem.offset)
           /\ q = [mem EXCEPT !.slots = sl, !.unk_3 = u] =>
                Memo(q, sl, u, mem.index, mem.offset)
           /\ q = [mem EXCEPT !.index = ix] =>
                Memo(q, mem.slots, mem.unk_3, ix, mem.offset)
           /\ q = [mem EXCEPT !.offset = of] =>
                Memo(q, mem.slots, mem.unk_3, mem.index, of)
           /\ q = [mem EXCEPT !.index = ix, !.offset = of] =>
                Memo(q, mem.slots, mem.unk_3, ix, of)
           /\ q = [mem EXCEPT !.index = ix, !.slots = sl] =>
                Memo(q, sl, mem.unk_3, ix, mem.offset)
           /\ q = [mem EXCEPT !.index = ix, !.offset = of, !.slots = sl] =>
                Memo(q, sl, mem.unk_3, ix, of)
           /\ q = [mem EXCEPT !.index = ix, !.offset = of, !.slots = sl, !.unk_3 = u] =>
                Memo(q, sl, u, ix, of)
<1>1. q = [mem EXCEPT !.slots = sl] =>
        Memo(q, sl, mem.unk_3, mem.index, mem.offset)
    BY DEF Memories, Memo, Tables
<1>2. q = [mem EXCEPT !.slots = sl, !.unk_3 = u] =>
        Memo(q, sl, u, mem.index, mem.offset)
    BY DEF Memories, Memo, Tables
<1>3. q = [mem EXCEPT !.index = ix] =>
        Memo(q, mem.slots, mem.unk_3, ix, mem.offset)
    BY DEF Memories, Memo, Tables
<1>4. q = [mem EXCEPT !.offset = of] =>
        Memo(q, mem.slots, mem.unk_3, mem.index, of)
    BY DEF Memories, Memo, Tables
<1>5. q = [mem EXCEPT !.index = ix, !.offset = of] =>
        Memo(q, mem.slots, mem.unk_3, ix, of)
    BY DEF Memories, Memo, Tables
<1>6. q = [mem EXCEPT !.index = ix, !.slots = sl] =>
        Memo(q, sl, mem.unk_3, ix, mem.offset)
    BY DEF Memories, Memo, Tables
<1>7. q = [mem EXCEPT !.index = ix, !.offset = of, !.slots = sl] =>
        Memo(q, sl, mem.unk_3, ix, of)
    BY DEF Memories, Memo, Tables
<1>8. q = [mem EXCEPT !.index = ix, !.offset = of, !.slots = sl, !.unk_3 = u] =>
        Memo(q, sl, u, ix, of)
    BY DEF Memories, Memo, Tables
<1>. QED  BY <1>1, <1>2, <1>3, <1>4, <1>5, <1>6, <1>7, <1>8

LEMMA UseSlotIs ==
    ASSUME NEW mem, Memory(mem), NEW e \in Entities, NEW i \in Slots, NEW st \in Statuses
    PROVE  /\ Memo(UseSlot(mem, e, i, st), UsedTable(mem.slots, i, st), mem.unk_3,
                   [mem.index EXCEPT ![e] = i], [mem.offset EXCEPT ![e] = i])
           /\ Memory(UseSlot(mem, e, i, st))
<1>. DEFINE q == UseSlot(mem, e, i, st)
            ix == [mem.index EXCEPT ![e] = i]
            of == [mem.offset EXCEPT ![e] = i]
            sl == UsedTable(mem.slots, i, st)
<1>1. mem \in Memories /\ Table(mem.slots)
    BY DEF Memory
<1>2. ix \in [Entities -> Slots] /\ of \in [Entities -> Slots] /\ mem.unk_3 \in {0, 1}
    BY <1>1, MemoryType
<1>3. sl \in Tables /\ Table(sl)
    BY <1>1, UsedSet DEF Table, Tables
<1>4. q = [mem EXCEPT !.index = ix, !.offset = of, !.slots = sl]
    BY Zenon DEF UseSlot, UsedTable
<1>. HIDE DEF q, ix, of, sl
<1>5. Memo(q, sl, mem.unk_3, ix, of)
    BY <1>1, <1>2, <1>3, <1>4, MemoExcept
<1>. QED  BY <1>3, <1>5 DEF q, ix, of, sl, Memo, Memory

\* Who points at a run follows it.
Moved(index, linked, from, to) ==
    [e \in Entities |-> IF e \in linked /\ index[e] = from THEN to ELSE index[e]]

MovedOffset(offset, linked, run, from, to) ==
    [e \in Entities |-> IF e \in linked /\ offset[e] \in run THEN offset[e] - from + to ELSE offset[e]]

LEMMA MoveRunIs ==
    ASSUME NEW mem, Memory(mem), NEW linked,
           NEW from \in Slots, NEW to \in Slots, to <= from
    PROVE  /\ Memo(MoveRun(mem, linked, from, to), MoveGFXSlots(mem.slots, from, to), 1,
                   Moved(mem.index, linked, from, to),
                   MovedOffset(mem.offset, linked, Run(mem.slots, from), from, to))
           /\ Memory(MoveRun(mem, linked, from, to))
<1>. DEFINE q == MoveRun(mem, linked, from, to)
            ix == Moved(mem.index, linked, from, to)
            of == MovedOffset(mem.offset, linked, Run(mem.slots, from), from, to)
            sl == MoveGFXSlots(mem.slots, from, to)
<1>1. mem \in Memories /\ Table(mem.slots)
    BY DEF Memory
<1>2. ix \in [Entities -> Slots]
    BY <1>1, MemoryType DEF Moved
<1>3. of \in [Entities -> Slots]
  <2>1. from + mem.slots[from].count <= NSlots /\ mem.slots[from].count \in 0 .. NSlots
      BY <1>1, RecordType DEF Table
  <2>. DEFINE c == mem.slots[from].count
  <2>. HIDE DEF c
  <2>2. c \in 0 .. NSlots /\ from + c <= NSlots /\ Run(mem.slots, from) = from .. from + c - 1
      BY <2>1 DEF c, Run
  <2>3. \A x \in Run(mem.slots, from) : x - from + to \in Slots
      BY <2>2, Sizes
  <2>. QED  BY <2>3, <1>1, MemoryType DEF MovedOffset
<1>4. sl \in Tables /\ Table(sl)
    BY <1>1, MoveSet DEF Table, Tables
<1>5. q = [mem EXCEPT !.index = ix, !.offset = of, !.slots = sl, !.unk_3 = 1]
    BY Zenon DEF MoveRun, Moved, MovedOffset
<1>. HIDE DEF q, ix, of, sl
<1>. DEFINE u == 1
<1>6. u \in {0, 1} /\ q = [mem EXCEPT !.index = ix, !.offset = of, !.slots = sl, !.unk_3 = u]
    BY <1>5
<1>. HIDE DEF u
<1>7. Memo(q, sl, u, ix, of)
    BY <1>1, <1>2, <1>3, <1>4, <1>6, MemoExcept
<1>. QED  BY <1>4, <1>7 DEF q, ix, of, sl, u, Memo, Memory

LEMMA UnloadIs ==
    ASSUME NEW mem, Memory(mem), NEW e \in Entities
    PROVE  LET i == mem.index[e]
               kept == i = 0 \/ mem.slots[i].status \notin InUse \/ mem.slots[i].refs = 0
           IN  /\ Memo(UnloadGFXSlots(mem, e),
                       IF kept THEN mem.slots ELSE DropReference(mem.slots, i),
                       mem.unk_3, [mem.index EXCEPT ![e] = 0], mem.offset)
               /\ Memory(UnloadGFXSlots(mem, e))
<1>. DEFINE i == mem.index[e]
            kept == i = 0 \/ mem.slots[i].status \notin InUse \/ mem.slots[i].refs = 0
            q == UnloadGFXSlots(mem, e)
            ix == [mem.index EXCEPT ![e] = 0]
            sl == DropReference(mem.slots, i)
<1>1. mem \in Memories /\ Table(mem.slots) /\ mem.offset \in [Entities -> Slots]
    BY MemoryType DEF Memory
<1>2. ix \in [Entities -> Slots] /\ i \in Slots /\ mem.unk_3 \in {0, 1}
    BY <1>1, MemoryType, Sizes
<1>3. CASE kept
  <2>1. q = [mem EXCEPT !.index = ix]
      BY <1>3, Zenon DEF UnloadGFXSlots
  <2>2. mem.slots \in Tables
      BY <1>1, MemoryType
  <2>. HIDE DEF q, ix, kept
  <2>3. Memo(q, mem.slots, mem.unk_3, ix, mem.offset)
      BY <1>1, <1>2, <2>1, <2>2, MemoExcept
  <2>. QED  BY <1>1, <1>3, <2>3 DEF q, ix, kept, Memo, Memory
<1>4. CASE ~kept
  <2>1. q = [mem EXCEPT !.index = ix, !.slots = sl]
      BY <1>4, Zenon DEF UnloadGFXSlots
  <2>2. sl \in Tables /\ Table(sl)
      BY <1>1, <1>2, <1>4, ReleasedSet DEF Table, Tables
  <2>. HIDE DEF q, ix, kept, sl
  <2>3. Memo(q, sl, mem.unk_3, ix, mem.offset)
      BY <1>1, <1>2, <2>1, <2>2, MemoExcept
  <2>. QED  BY <1>4, <2>2, <2>3 DEF q, ix, kept, sl, Memo, Memory
<1>. QED  BY <1>3, <1>4

LEMMA PartedIs ==
    ASSUME NEW mem, Memory(mem), NEW gone
    PROVE  /\ Memo(Parted(mem, gone), mem.slots, mem.unk_3, mem.index,
                   [x \in Entities |-> IF x \in gone THEN 0 ELSE mem.offset[x]])
           /\ Memory(Parted(mem, gone))
<1>. DEFINE q == Parted(mem, gone)
            of == [x \in Entities |-> IF x \in gone THEN 0 ELSE mem.offset[x]]
<1>1. mem \in Memories /\ Table(mem.slots) /\ mem.slots \in Tables /\ mem.unk_3 \in {0, 1}
      /\ mem.index \in [Entities -> Slots]
    BY MemoryType DEF Memory
<1>2. of \in [Entities -> Slots]
    BY <1>1, MemoryType, Sizes
<1>3. q = [mem EXCEPT !.offset = of]
    BY Zenon DEF Parted
<1>. HIDE DEF q, of
<1>4. Memo(q, mem.slots, mem.unk_3, mem.index, of)
    BY <1>1, <1>2, <1>3, MemoExcept
<1>. QED  BY <1>1, <1>4 DEF q, of, Memo, Memory

LEMMA AllDeletedIs ==
    ASSUME NEW mem, Memory(mem), NEW gone
    PROVE  /\ Memo(AllDeleted(mem, gone), mem.slots, mem.unk_3,
                   [x \in Entities |-> IF x \in gone THEN 0 ELSE mem.index[x]],
                   [x \in Entities |-> IF x \in gone THEN 0 ELSE mem.offset[x]])
           /\ Memory(AllDeleted(mem, gone))
<1>. DEFINE q == AllDeleted(mem, gone)
            ix == [x \in Entities |-> IF x \in gone THEN 0 ELSE mem.index[x]]
            of == [x \in Entities |-> IF x \in gone THEN 0 ELSE mem.offset[x]]
<1>1. mem \in Memories /\ Table(mem.slots) /\ mem.slots \in Tables /\ mem.unk_3 \in {0, 1}
    BY MemoryType DEF Memory
<1>2. of \in [Entities -> Slots] /\ ix \in [Entities -> Slots]
    BY <1>1, MemoryType, Sizes
<1>3. q = [mem EXCEPT !.index = ix, !.offset = of]
    BY Zenon DEF AllDeleted
<1>. HIDE DEF q, of, ix
<1>4. Memo(q, mem.slots, mem.unk_3, ix, of)
    BY <1>1, <1>2, <1>3, MemoExcept
<1>. QED  BY <1>1, <1>4 DEF q, of, ix, Memo, Memory

\* Other slots for a memory.
LEMMA SlotsIs ==
    ASSUME NEW mem, Memory(mem), NEW t, Table(t), NEW q, q = [mem EXCEPT !.slots = t]
    PROVE  Memo(q, t, mem.unk_3, mem.index, mem.offset) /\ Memory(q)
<1>1. mem \in Memories /\ t \in Tables
    BY DEF Memory, Table, Tables
<1>2. /\ mem.unk_3 \in {0, 1} /\ mem.index \in [Entities -> Slots]
      /\ mem.offset \in [Entities -> Slots]
    BY <1>1, MemoryType
<1>3. Memo(q, t, mem.unk_3, mem.index, mem.offset)
    BY <1>1, <1>2, MemoExcept
<1>. QED  BY <1>3 DEF Memo, Memory

LEMMA FreshSlotsIs ==
    ASSUME NEW mem, Memory(mem), NEW t, Table(t), NEW q, q = [mem EXCEPT !.slots = t, !.unk_3 = 0]
    PROVE  Memo(q, t, 0, mem.index, mem.offset) /\ Memory(q)
<1>1. mem \in Memories /\ t \in Tables
    BY DEF Memory, Table, Tables
<1>2. /\ mem.index \in [Entities -> Slots]
      /\ mem.offset \in [Entities -> Slots]
    BY <1>1, MemoryType
<1>. DEFINE u == 0
<1>3. u \in {0, 1} /\ q = [mem EXCEPT !.slots = t, !.unk_3 = u]
    OBVIOUS
<1>. HIDE DEF u
<1>4. Memo(q, t, u, mem.index, mem.offset)
    BY <1>1, <1>2, <1>3, MemoExcept
<1>. QED  BY <1>4 DEF Memo, Memory, u

-----------------------------------------------------------------------------
(* Uploads.                                                                *)

LEMMA SettledSet ==
    ASSUME NEW s, Table(s), NEW up
    PROVE  /\ Table(Settled(s, up))
           /\ \A k \in Slots : Settled(s, up)[k] = IF k \in up THEN WithUpload(s[k]) ELSE s[k]
<1>. DEFINE t == Settled(s, up)
<1>1. t = [k \in Slots |-> IF k \in up THEN WithUpload(s[k]) ELSE s[k]]
    BY Zenon DEF Settled, WithUpload
<1>. HIDE DEF t
<1>2. \A k \in Slots : t[k] = IF k \in up THEN WithUpload(s[k]) ELSE s[k]
    BY <1>1
<1>3. ASSUME NEW k \in Slots
      PROVE  t[k] \in Records /\ t[k].count = s[k].count /\ t[k].src = s[k].src
  <2>1. s[k] \in Records
      BY DEF Table
  <2>. QED  BY <2>1, <1>2, UploadRecord
<1>4. t \in Tables
    BY <1>1, <1>3 DEF Tables
<1>5. Table(t)
    BY <1>3, <1>4, SameShape
<1>. QED  BY <1>2, <1>5 DEF t

Everything(s) ==
    [k \in Slots |-> IF s[k].status \in Idle THEN NoSlot ELSE Settled(s, Uploads(s, TRUE))[k]]

LEMMA EverythingSet ==
    ASSUME NEW s, Table(s)
    PROVE  LET t == Everything(s) IN
           /\ Table(t)
           /\ \A k \in Slots : t[k] = IF s[k].status \in Idle THEN NoSlot
                                      ELSE IF k \in Uploads(s, TRUE) THEN WithUpload(s[k]) ELSE s[k]
<1>. DEFINE t == Everything(s)
            u == Settled(s, Uploads(s, TRUE))
<1>1. t = [k \in Slots |-> IF s[k].status \in Idle THEN NoSlot ELSE u[k]]
    BY DEF Everything
<1>2. /\ Table(u)
      /\ \A k \in Slots : u[k] = IF k \in Uploads(s, TRUE) THEN WithUpload(s[k]) ELSE s[k]
    BY SettledSet
<1>. HIDE DEF t, u
<1>3. \A k \in Slots : t[k] = IF s[k].status \in Idle THEN NoSlot ELSE u[k]
    BY <1>1
<1>4. t \in Tables
    BY <1>1, <1>2, BareFree DEF Tables, Table
<1>5. ASSUME NEW k \in Slots
      PROVE  k + t[k].count <= NSlots /\ (t[k].src # None => k + SlotsOf[t[k].src] <= NSlots)
  <2>1. CASE s[k].status \in Idle
      BY <2>1, <1>3, BareFree, Sizes
  <2>2. CASE s[k].status \notin Idle
      BY <2>2, <1>2, <1>3 DEF Table
  <2>. QED  BY <2>1, <2>2
<1>6. Table(t)
    BY <1>4, <1>5 DEF Table, Tables
<1>. QED  BY <1>2, <1>3, <1>6 DEF t

LEMMA UploadEverythingIs ==
    ASSUME NEW mem, Memory(mem)
    PROVE  /\ Memo(UploadEverything(mem), Everything(mem.slots), 0, mem.index, mem.offset)
           /\ Memory(UploadEverything(mem))
<1>. DEFINE q == UploadEverything(mem)
            t == Everything(mem.slots)
<1>1. q = [mem EXCEPT !.slots = t, !.unk_3 = 0]
    BY Zenon DEF UploadEverything, Everything
<1>2. Table(t)
    BY EverythingSet DEF Memory
<1>. HIDE DEF q, t
<1>3. Memo(q, t, 0, mem.index, mem.offset) /\ Memory(q)
    BY <1>1, <1>2, FreshSlotsIs
<1>. QED  BY <1>3 DEF q, t

LEMMA UploadSlotsIs ==
    ASSUME NEW mem, Memory(mem)
    PROVE  /\ mem.unk_3 = 1 =>
                Memo(UploadSlots(mem), Everything(mem.slots), 0, mem.index, mem.offset)
           /\ mem.unk_3 = 0 =>
                Memo(UploadSlots(mem), Settled(mem.slots, Uploads(mem.slots, FALSE)), 0,
                     mem.index, mem.offset)
           /\ Memory(UploadSlots(mem))
<1>1. CASE mem.unk_3 = 1
    BY <1>1, UploadEverythingIs DEF UploadSlots
<1>2. CASE mem.unk_3 # 1
  <2>. DEFINE q == UploadSlots(mem)
              t == Settled(mem.slots, Uploads(mem.slots, FALSE))
  <2>1. q = [mem EXCEPT !.slots = t]
      BY <1>2, Zenon DEF UploadSlots
  <2>2. Table(t)
      BY SettledSet DEF Memory
  <2>. HIDE DEF q, t
  <2>3. Memo(q, t, mem.unk_3, mem.index, mem.offset) /\ Memory(q)
      BY <2>1, <2>2, SlotsIs
  <2>4. mem.unk_3 = 0
      BY <1>2, MemoryType DEF Memory
  <2>5. Memo(q, t, 0, mem.index, mem.offset)
      BY <2>3, <2>4
  <2>. QED  BY <1>2, <2>3, <2>5 DEF q, t
<1>. QED  BY <1>1, <1>2

LEMMA DrawnInside ==
    ASSUME NEW s, Table(s), NEW up, \A i \in up : i \in Slots /\ s[i].src # None
    PROVE  Drawn(s, up) \subseteq Slots
<1>1. ASSUME NEW i \in up PROVE i .. i + SlotsOf[s[i].src] - 1 \subseteq Slots
  <2>1. s[i].src \in Pictures /\ i + SlotsOf[s[i].src] <= NSlots
      BY <1>1, RecordType DEF Table
  <2>. QED  BY <1>1, <2>1, Filled, Sizes
<1>. QED  BY <1>1 DEF Drawn

LEMMA UploadsInside ==
    ASSUME NEW s, NEW all
    PROVE  \A i \in Uploads(s, all) : i \in Slots /\ s[i].src # None
BY DEF Uploads

-----------------------------------------------------------------------------
(* The loop of CleanUpGFXSlots.                                            *)

Turns == [mem : {x \in Memories : Table(x.slots)}, at : 1 .. NSlots]

\* A turn that is not the last comes to a run in use.  It moves the run to
\* the first idle slot, or passes it.
LEMMA TurnCases ==
    ASSUME NEW linked, NEW t \in Turns
    PROVE  LET occ == FindNextOccupiedGFXSlot(t.mem.slots, t.at)
               free == FindFirstFreeGFXSlot(t.mem.slots)
               r == CleanUpTurn(linked, t)
           IN  /\ r \in Turns
               /\ \/ occ = 0 /\ r = t
                  \/ /\ occ # 0 /\ free <= occ /\ free \in Slots /\ occ \in t.at .. NSlots - 2
                     /\ r.mem = MoveRun(t.mem, linked, occ, free) /\ r.at = free + 1
                  \/ /\ occ # 0 /\ ~ (free <= occ) /\ occ \in t.at .. NSlots - 2
                     /\ r.mem = t.mem /\ r.at = occ + 1
<1>. DEFINE occ == FindNextOccupiedGFXSlot(t.mem.slots, t.at)
            free == FindFirstFreeGFXSlot(t.mem.slots)
            r == CleanUpTurn(linked, t)
<1>1. t.at \in Nat /\ t.at # 0 /\ Memory(t.mem) /\ t.at \in 1 .. NSlots
    BY Sizes DEF Turns, Memory
<1>2. occ # 0 => occ \in t.at .. NSlots - 2
    BY <1>1, OccupiedFound
<1>3. free \in Slots
    BY FreeSlotFound, Sizes DEF IdleSlots
<1>4. r = IF occ = 0 THEN t
          ELSE IF free <= occ THEN [mem |-> MoveRun(t.mem, linked, occ, free), at |-> free + 1]
          ELSE [mem |-> t.mem, at |-> occ + 1]
    BY DEF CleanUpTurn
<1>. HIDE DEF occ, free, r
<1>5. CASE occ = 0
    BY <1>4, <1>5 DEF occ, free, r
<1>6. CASE occ # 0 /\ free <= occ
  <2>1. occ \in Slots /\ free + 1 \in 1 .. NSlots
      BY <1>1, <1>2, <1>3, <1>6, Sizes
  <2>. DEFINE q == MoveRun(t.mem, linked, occ, free)
  <2>2. Memory(q)
      BY <1>1, <1>3, <1>6, <2>1, MoveRunIs
  <2>. HIDE DEF q
  <2>3. r = [mem |-> q, at |-> free + 1]
      BY <1>4, <1>6 DEF q
  <2>4. r \in Turns /\ r.mem = q /\ r.at = free + 1
      BY <2>1, <2>2, <2>3 DEF Turns, Memory
  <2>. QED  BY <2>4, <1>2, <1>3, <1>6 DEF q, occ, free, r
<1>7. CASE occ # 0 /\ ~ (free <= occ)
  <2>1. occ + 1 \in 1 .. NSlots
      BY <1>1, <1>2, <1>7, Sizes
  <2>2. r = [mem |-> t.mem, at |-> occ + 1]
      BY <1>4, <1>7
  <2>3. r \in Turns /\ r.mem = t.mem /\ r.at = occ + 1
      BY <1>1, <2>1, <2>2 DEF Turns, Memory
  <2>. QED  BY <2>3, <1>2, <1>7 DEF occ, free, r
<1>. QED  BY <1>5, <1>6, <1>7

\* The recursion that defines CleanUpGFXSlots is well-defined.
LEMMA CleanUpRecursion ==
    ASSUME NEW mem, Memory(mem), NEW linked
    PROVE  \E turn \in [0 .. NSlots -> Turns] :
               /\ CleanUpGFXSlots(mem, linked) = turn[NSlots].mem
               /\ turn[0] = [mem |-> mem, at |-> Reserved]
               /\ \A n \in 1 .. NSlots : turn[n] = CleanUpTurn(linked, turn[n - 1])
<1>0. NSlots \in Nat
    BY Sizes
<1>. DEFINE start == [mem |-> mem, at |-> Reserved]
            step == [t \in Turns |-> CleanUpTurn(linked, t)]
            Is(f) == f = [n \in 0 .. NSlots |-> IF n = 0 THEN start ELSE CleanUpTurn(linked, f[n - 1])]
<1>1. start \in Turns
    BY Sizes DEF Turns, Memory
<1>2. step \in [Turns -> Turns]
    BY TurnCases
<1>. HIDE DEF step, start
<1>3. PICK f \in [0 .. NSlots -> Turns] :
          f = [n \in 0 .. NSlots |-> IF n = 0 THEN start ELSE step[f[n - 1]]]
  <2>1. \E f \in [0 .. NSlots -> Turns] :
            f = [n \in 0 .. NSlots |-> IF n = 0 THEN start ELSE step[f[n - 1]]]
      BY <1>0, <1>1, <1>2, RecursionUpTo, SMTT(30)
  <2>. QED  BY <2>1
<1>4. ASSUME NEW n \in 0 .. NSlots, n # 0 PROVE f[n - 1] \in Turns
  <2>1. n - 1 \in 0 .. NSlots
      BY <1>0, <1>4
  <2>2. f \in [0 .. NSlots -> Turns]
      BY <1>3
  <2>. QED  BY <2>1, <2>2
<1>5. Is(f)
    BY <1>3, <1>4, Zenon DEF step
<1>. DEFINE turn == CHOOSE g : Is(g)
<1>6. Is(turn)
    BY <1>5, Zenon
<1>7. CleanUpGFXSlots(mem, linked) = turn[NSlots].mem
    BY Zenon DEF CleanUpGFXSlots, start
<1>. HIDE DEF turn
<1>8. turn[0] = start /\ \A n \in 1 .. NSlots : turn[n] = CleanUpTurn(linked, turn[n - 1])
    BY <1>6, Sizes
<1>9. \A n \in 0 .. NSlots : turn[n] \in Turns
  <2>. DEFINE F == {n \in 0 .. NSlots : turn[n] \in Turns}
  <2>1. 0 \in F
      BY <1>1, <1>8, Sizes
  <2>2. \A n \in 1 .. NSlots : n - 1 \in F => n \in F
      BY <1>8, TurnCases
  <2>. HIDE DEF F
  <2>3. \A n \in 0 .. NSlots : n \in F
      BY <1>0, <2>1, <2>2, UpTo
  <2>. QED  BY <2>3 DEF F
<1>10. turn \in [0 .. NSlots -> Turns]
    BY <1>6, <1>9
<1>. QED  BY <1>7, <1>8, <1>10 DEF start

\* What every turn keeps holds at the end.
LEMMA CleanUpKeeps ==
    ASSUME NEW mem, Memory(mem), NEW linked, NEW J,
           [mem |-> mem, at |-> Reserved] \in J,
           \A t \in Turns : t \in J => CleanUpTurn(linked, t) \in J
    PROVE  \E t \in Turns : t \in J /\ CleanUpGFXSlots(mem, linked) = t.mem
<1>0. NSlots \in Nat
    BY Sizes
<1>1. PICK turn \in [0 .. NSlots -> Turns] :
               /\ CleanUpGFXSlots(mem, linked) = turn[NSlots].mem
               /\ turn[0] = [mem |-> mem, at |-> Reserved]
               /\ \A n \in 1 .. NSlots : turn[n] = CleanUpTurn(linked, turn[n - 1])
    BY CleanUpRecursion
<1>. DEFINE F == {n \in 0 .. NSlots : turn[n] \in J}
<1>2. 0 \in F
    BY <1>1, Sizes
<1>3. ASSUME NEW n \in 1 .. NSlots, n - 1 \in F PROVE n \in F
  <2>1. turn[n - 1] \in Turns /\ turn[n - 1] \in J
      BY <1>1, <1>3, Sizes
  <2>. QED  BY <2>1, <1>1, <1>3
<1>. HIDE DEF F
<1>4. NSlots \in F
  <2>1. \A n \in 0 .. NSlots : n \in F
      BY <1>0, <1>2, <1>3, UpTo
  <2>. QED  BY <2>1, <1>0
<1>. QED  BY <1>1, <1>4, Sizes DEF F

\* When every turn but an idle one gets further, the loop comes to its end.
LEMMA CleanUpEnds ==
    ASSUME NEW mem, Memory(mem), NEW linked, NEW J,
           [mem |-> mem, at |-> Reserved] \in J,
           \A t \in Turns : t \in J => CleanUpTurn(linked, t) \in J,
           \A t \in Turns : t \in J /\ FindNextOccupiedGFXSlot(t.mem.slots, t.at) # 0 =>
               t.at < CleanUpTurn(linked, t).at
    PROVE  \E t \in Turns : /\ t \in J /\ CleanUpGFXSlots(mem, linked) = t.mem
                            /\ FindNextOccupiedGFXSlot(t.mem.slots, t.at) = 0
<1>0. NSlots \in Nat
    BY Sizes
<1>1. PICK turn \in [0 .. NSlots -> Turns] :
               /\ CleanUpGFXSlots(mem, linked) = turn[NSlots].mem
               /\ turn[0] = [mem |-> mem, at |-> Reserved]
               /\ \A n \in 1 .. NSlots : turn[n] = CleanUpTurn(linked, turn[n - 1])
    BY CleanUpRecursion
<1>. DEFINE Over(t) == FindNextOccupiedGFXSlot(t.mem.slots, t.at) = 0
            F == {n \in 0 .. NSlots : turn[n] \in J /\ (Over(turn[n]) \/ Reserved + n <= turn[n].at)}
<1>2. 0 \in F
    BY <1>1, Sizes
<1>3. ASSUME NEW n \in 1 .. NSlots, n - 1 \in F PROVE n \in F
  <2>1. n - 1 \in 0 .. NSlots /\ turn[n - 1] \in Turns /\ turn[n - 1] \in J /\ turn[n] \in Turns
      BY <1>1, <1>3, Sizes
  <2>2. turn[n] = CleanUpTurn(linked, turn[n - 1]) /\ turn[n] \in J
      BY <2>1, <1>1, <1>3
  <2>3. CASE Over(turn[n - 1])
    <3>1. turn[n] = turn[n - 1]
        BY <2>1, <2>2, <2>3, TurnCases
    <3>. QED  BY <2>2, <2>3, <3>1
  <2>4. CASE ~Over(turn[n - 1])
    <3>1. turn[n - 1].at < turn[n].at
        BY <2>1, <2>2, <2>4
    <3>2. Reserved + (n - 1) <= turn[n - 1].at
        BY <1>3, <2>4
    <3>3. turn[n - 1].at \in 1 .. NSlots /\ turn[n].at \in 1 .. NSlots
        BY <2>1 DEF Turns
    <3>4. Reserved + n <= turn[n].at
        BY <3>1, <3>2, <3>3, Sizes
    <3>. QED  BY <2>2, <3>4
  <2>. QED  BY <2>3, <2>4
<1>. HIDE DEF F
<1>4. NSlots \in F
  <2>1. \A n \in 0 .. NSlots : n \in F
      BY <1>0, <1>2, <1>3, UpTo
  <2>. QED  BY <2>1, <1>0
<1>5. turn[NSlots] \in Turns /\ turn[NSlots].at <= NSlots /\ turn[NSlots].at \in Int
    BY <1>1, Sizes DEF Turns
<1>6. turn[NSlots] \in J /\ Over(turn[NSlots])
    BY <1>4, <1>5, Sizes DEF F
<1>. QED  BY <1>1, <1>5, <1>6

LEMMA CleanUpType ==
    ASSUME NEW mem, Memory(mem), NEW linked
    PROVE  Memory(CleanUpGFXSlots(mem, linked))
<1>1. PICK turn \in [0 .. NSlots -> Turns] : CleanUpGFXSlots(mem, linked) = turn[NSlots].mem
    BY CleanUpRecursion
<1>2. turn[NSlots] \in Turns
    BY <1>1, Sizes
<1>. QED  BY <1>1, <1>2 DEF Turns, Memory

-----------------------------------------------------------------------------
(* Loading.                                                                *)

LEMMA AllocateCases ==
    ASSUME NEW mem, Memory(mem), NEW linked, NEW n \in 1 .. NSlots
    PROVE  LET a == Allocate(mem, linked, n)
               clean == CleanUpGFXSlots(mem, linked)
           IN  /\ Memory(a.mem) /\ a.at \in General \cup {0}
               /\ a.at # 0 => a.at + n - 1 \in Slots
               /\ a.at = FindFreeGFXSlots(a.mem.slots, n)
               /\ \/ a.mem = mem /\ a.at # 0
                  \/ a.mem = clean /\ FindFreeGFXSlots(mem.slots, n) = 0
<1>. DEFINE clean == CleanUpGFXSlots(mem, linked)
            x == FindFreeGFXSlots(mem.slots, n)
            y == FindFreeGFXSlots(clean.slots, n)
            a == Allocate(mem, linked, n)
<1>1. Memory(clean)
    BY CleanUpType
<1>2. \A s : LET f == FindFreeGFXSlots(s, n) IN f \in General \cup {0} /\ (f # 0 => f + n - 1 \in Slots)
    BY FreeFound DEF IdleRun
<1>3. a = IF x # 0 THEN [mem |-> mem, at |-> x] ELSE [mem |-> clean, at |-> y]
    BY DEF Allocate
<1>4. CASE x # 0
  <2>1. a.mem = mem /\ a.at = x
      BY <1>3, <1>4
  <2>. QED  BY <2>1, <1>2, <1>4
<1>5. CASE x = 0
  <2>1. a.mem = clean /\ a.at = y
      BY <1>3, <1>5
  <2>. QED  BY <2>1, <1>1, <1>2, <1>5
<1>. QED  BY <1>4, <1>5

\* The run a fixed graphic gets, before it is referred to.
FixedTable(s, a, g) == SetSource(ReserveGFXSlots(s, a, g, SlotsOf[g]), a, g)

LEMMA FixedSet ==
    ASSUME NEW s, Table(s), NEW g \in Fixed, NEW a \in Slots, a + SlotsOf[g] - 1 \in Slots
    PROVE  LET t == FixedTable(s, a, g)
               n == SlotsOf[g]
           IN  /\ Table(t)
               /\ t[a].count = n /\ t[a].gfx = g /\ t[a].refs = 0 /\ t[a].src = g
               /\ t[a].vramStatus = 3
               /\ \A k \in a + 1 .. a + n - 1 : t[k] = Bare("FOLLOWER")
               /\ \A k \in Slots \ (a .. a + n - 1) : t[k] = s[k]
<1>. DEFINE n == SlotsOf[g]
            u == ReserveGFXSlots(s, a, g, n)
            t == FixedTable(s, a, g)
<1>1. n \in 1 .. NSlots /\ g \in Pictures /\ g \in Fixed \cup {0} /\ s \in Tables
    BY Filled DEF Pictures, Table, Tables
<1>. HIDE DEF n
<1>2. a + n - 1 \in Slots
    BY DEF n
<1>3. /\ Table(u) /\ u[a].count = n /\ u[a].gfx = g /\ u[a].refs = 0
      /\ \A k \in a + 1 .. a + n - 1 : u[k] = Bare("FOLLOWER")
      /\ \A k \in Slots \ (a .. a + n - 1) : u[k] = s[k]
    BY <1>1, <1>2, ReserveSet
<1>4. t = SetSource(u, a, g) /\ a + SlotsOf[g] <= NSlots
    BY <1>1, <1>2, Sizes DEF FixedTable, n
<1>. HIDE DEF u, t
<1>5. Table(t) /\ t[a] = WithSource(u[a], g) /\ \A k \in Slots \ {a} : t[k] = u[k]
    BY <1>1, <1>3, <1>4, SourceSet
<1>6. u[a] \in Records /\ g \in Pictures \cup {None}
    BY <1>1, <1>3 DEF Table
<1>7. LET q == WithSource(u[a], g)
      IN  /\ q.src = g /\ q.vramStatus = 3
          /\ q.count = u[a].count /\ q.gfx = u[a].gfx /\ q.refs = u[a].refs
    BY <1>6, SourceRecord
<1>8. \A k \in a + 1 .. a + n - 1 : k \in Slots \ {a}
    BY <1>1, <1>2, Sizes
<1>9. \A k \in Slots \ (a .. a + n - 1) : k \in Slots \ {a}
    BY <1>1, Sizes
<1>. QED  BY <1>3, <1>5, <1>7, <1>8, <1>9 DEF t, n

\* What LoadFixedGFX comes to.
LEMMA LoadFixedCases ==
    ASSUME NEW mem, Memory(mem), NEW linked, NEW e \in Entities, NEW g \in Fixed
    PROVE  LET r == LoadFixedGFX(mem, linked, e, g)
               a == Allocate(mem, linked, SlotsOf[g])
               q == [a.mem EXCEPT !.slots = FixedTable(@, a.at, g)]
           IN  /\ Memory(r.mem) /\ r.ok \in BOOLEAN
               /\ \/ r.ok /\ \E i \in General : /\ mem.slots[i].gfx = g
                                               /\ r.mem = UseSlot(mem, e, i, "RESERVED")
                  \/ /\ \A i \in General : mem.slots[i].gfx # g
                     /\ ~r.ok /\ a.at = 0 /\ r.mem = a.mem
                  \/ /\ \A i \in General : mem.slots[i].gfx # g
                     /\ r.ok /\ a.at # 0 /\ r.mem = UseSlot(q, e, a.at, "RESERVED")
                     /\ Memo(q, FixedTable(a.mem.slots, a.at, g), a.mem.unk_3, a.mem.index, a.mem.offset)
                     /\ Memory(q)
<1>. DEFINE loaded == {i \in General : mem.slots[i].gfx = g}
            a == Allocate(mem, linked, SlotsOf[g])
            q == [a.mem EXCEPT !.slots = FixedTable(@, a.at, g)]
            r == LoadFixedGFX(mem, linked, e, g)
            st == "RESERVED"
<1>0. st \in Statuses
    BY DEF Statuses, InUse
<1>. HIDE DEF st
<1>1. r = IF loaded # {} THEN [mem |-> UseSlot(mem, e, Min(loaded), st), ok |-> TRUE]
          ELSE IF a.at = 0 THEN [mem |-> a.mem, ok |-> FALSE]
          ELSE [mem |-> UseSlot(q, e, a.at, st), ok |-> TRUE]
    BY Zenon DEF LoadFixedGFX, FixedTable, st
<1>2. /\ Memory(a.mem) /\ a.at \in General \cup {0}
      /\ a.at # 0 => a.at + SlotsOf[g] - 1 \in Slots
  <2>. DEFINE n == SlotsOf[g]
  <2>1. n \in 1 .. NSlots
      BY Filled DEF Pictures
  <2>. HIDE DEF n
  <2>2. LET b == Allocate(mem, linked, n) IN
        /\ Memory(b.mem) /\ b.at \in General \cup {0} /\ (b.at # 0 => b.at + n - 1 \in Slots)
      BY <2>1, AllocateCases
  <2>. QED  BY <2>2 DEF n
<1>. HIDE DEF r, a
<1>3. CASE loaded # {}
  <2>. DEFINE i == Min(loaded)
  <2>1. loaded \in SUBSET Nat
      BY Sizes
  <2>2. i \in loaded
      BY <1>3, <2>1, MinOf
  <2>. HIDE DEF i
  <2>3. i \in General /\ i \in Slots /\ mem.slots[i].gfx = g
      BY <2>2, Sizes
  <2>4. Memory(UseSlot(mem, e, i, st))
      BY <1>0, <2>3, UseSlotIs
  <2>5. r.mem = UseSlot(mem, e, i, st) /\ r.ok = TRUE
      BY <1>1, <1>3 DEF i
  <2>. QED  BY <2>3, <2>4, <2>5 DEF r, st
<1>4. CASE loaded = {} /\ a.at = 0
  <2>1. r.mem = a.mem /\ r.ok = FALSE
      BY <1>1, <1>4
  <2>. QED  BY <1>2, <1>4, <2>1 DEF r, a
<1>5. CASE loaded = {} /\ a.at # 0
  <2>1. r.mem = UseSlot(q, e, a.at, st) /\ r.ok = TRUE
      BY <1>1, <1>5
  <2>. DEFINE t == FixedTable(a.mem.slots, a.at, g)
  <2>2. a.at \in Slots /\ a.at + SlotsOf[g] - 1 \in Slots /\ Table(a.mem.slots)
      BY <1>2, <1>5, Sizes DEF Memory
  <2>3. Table(t)
      BY <2>2, FixedSet
  <2>4. q = [a.mem EXCEPT !.slots = t]
      BY Zenon
  <2>. HIDE DEF t, q
  <2>5. Memo(q, t, a.mem.unk_3, a.mem.index, a.mem.offset) /\ Memory(q)
      BY <1>2, <2>3, <2>4, SlotsIs
  <2>6. Memory(UseSlot(q, e, a.at, st))
      BY <1>0, <2>2, <2>5, UseSlotIs
  <2>. QED  BY <1>5, <2>1, <2>5, <2>6 DEF r, a, q, t, st
<1>. QED  BY <1>3, <1>4, <1>5

\* What LoadSwapGFX comes to.
LEMMA LoadSwapCases ==
    ASSUME NEW mem, Memory(mem), NEW linked, NEW e \in Entities, NEW n \in 1 .. NSlots,
           NEW i \in Slots, i # 0 => i + n - 1 \in Slots
    PROVE  LET r == LoadSwapGFX(mem, linked, e, n, i)
               a == IF i = 0 THEN Allocate(mem, linked, n) ELSE [mem |-> mem, at |-> i]
               q == [a.mem EXCEPT !.slots = ReserveGFXSlots(@, a.at, 0, n)]
           IN  /\ Memory(r.mem) /\ r.ok \in BOOLEAN
               /\ Memory(a.mem) /\ a.at \in Slots
               /\ \/ ~r.ok /\ a.at = 0 /\ r.mem = a.mem
                  \/ /\ r.ok /\ a.at # 0 /\ a.mem.slots[a.at].status = "PALETTE"
                     /\ r.mem = UseSlot(a.mem, e, a.at, "PALETTE")
                  \/ /\ r.ok /\ a.at # 0 /\ a.mem.slots[a.at].status # "PALETTE"
                     /\ r.mem = UseSlot(q, e, a.at, "GFX")
                     /\ Memo(q, ReserveGFXSlots(a.mem.slots, a.at, 0, n),
                             a.mem.unk_3, a.mem.index, a.mem.offset)
                     /\ Memory(q)
<1>. DEFINE a == IF i = 0 THEN Allocate(mem, linked, n) ELSE [mem |-> mem, at |-> i]
            q == [a.mem EXCEPT !.slots = ReserveGFXSlots(@, a.at, 0, n)]
            r == LoadSwapGFX(mem, linked, e, n, i)
            pal == "PALETTE"
            gfx == "GFX"
<1>0. pal \in Statuses /\ gfx \in Statuses
    BY DEF Statuses, InUse
<1>. HIDE DEF pal, gfx
<1>1. r = IF a.at = 0 THEN [mem |-> a.mem, ok |-> FALSE]
          ELSE IF a.mem.slots[a.at].status = "PALETTE"
            THEN [mem |-> UseSlot(a.mem, e, a.at, pal), ok |-> TRUE]
          ELSE [mem |-> UseSlot(q, e, a.at, gfx), ok |-> TRUE]
    BY Zenon DEF LoadSwapGFX, pal, gfx
<1>2. Memory(a.mem) /\ a.at \in Slots /\ (a.at # 0 => a.at + n - 1 \in Slots)
  <2>1. CASE i = 0
    <3>1. a = Allocate(mem, linked, n)
        BY <2>1
    <3>2. LET b == Allocate(mem, linked, n) IN
          /\ Memory(b.mem) /\ b.at \in General \cup {0} /\ (b.at # 0 => b.at + n - 1 \in Slots)
        BY AllocateCases
    <3>. QED  BY <3>1, <3>2, Sizes
  <2>2. CASE i # 0
    <3>1. a.mem = mem /\ a.at = i
        BY <2>2
    <3>. QED  BY <2>2, <3>1
  <2>. QED  BY <2>1, <2>2
<1>. HIDE DEF r, a
<1>3. CASE a.at = 0
  <2>1. r.mem = a.mem /\ r.ok = FALSE
      BY <1>1, <1>3
  <2>. QED  BY <1>2, <1>3, <2>1 DEF r, a
<1>4. CASE a.at # 0 /\ a.mem.slots[a.at].status = "PALETTE"
  <2>1. r.mem = UseSlot(a.mem, e, a.at, pal) /\ r.ok = TRUE
      BY <1>1, <1>4
  <2>2. Memory(UseSlot(a.mem, e, a.at, pal))
      BY <1>0, <1>2, UseSlotIs
  <2>. QED  BY <1>2, <1>4, <2>1, <2>2 DEF r, a, pal
<1>5. CASE a.at # 0 /\ a.mem.slots[a.at].status # "PALETTE"
  <2>1. r.mem = UseSlot(q, e, a.at, gfx) /\ r.ok = TRUE
      BY <1>1, <1>5
  <2>. DEFINE t == ReserveGFXSlots(a.mem.slots, a.at, 0, n)
  <2>2. a.at \in Slots /\ a.at + n - 1 \in Slots /\ Table(a.mem.slots) /\ a.mem.slots \in Tables
      BY <1>2, <1>5 DEF Memory, Table, Tables
  <2>. DEFINE g == 0
  <2>3. g \in Fixed \cup {0} /\ t = ReserveGFXSlots(a.mem.slots, a.at, g, n)
      OBVIOUS
  <2>. HIDE DEF g, t
  <2>4. Table(t)
      BY <2>2, <2>3, ReserveSet
  <2>5. q = [a.mem EXCEPT !.slots = t]
      BY Zenon DEF t
  <2>. HIDE DEF q
  <2>6. Memo(q, t, a.mem.unk_3, a.mem.index, a.mem.offset) /\ Memory(q)
      BY <1>2, <2>4, <2>5, SlotsIs
  <2>7. Memory(UseSlot(q, e, a.at, gfx))
      BY <1>0, <2>2, <2>6, UseSlotIs
  <2>. QED  BY <1>2, <1>5, <2>1, <2>6, <2>7 DEF r, a, q, t, gfx
<1>. QED  BY <1>3, <1>4, <1>5

-----------------------------------------------------------------------------
(* Types.                                                                  *)

\* The table after ResetPalettes.
LEMMA EmptySet ==
    /\ Table(EmptyTable)
    /\ \A k \in Slots : k >= Reserved => EmptyTable[k] = NoSlot
    /\ \A k \in 0 .. Reserved - 1 :
         /\ EmptyTable[k].status = "PALETTE" /\ EmptyTable[k].count = 1
         /\ EmptyTable[k].gfx = 0 /\ EmptyTable[k].src = None /\ EmptyTable[k].vramStatus = 0
<1>. DEFINE p == [NoSlot EXCEPT !.status = "PALETTE", !.count = 1, !.refs = RefLimit]
<1>1. /\ p \in Records /\ p.status = "PALETTE" /\ p.count = 1 /\ p.gfx = 0 /\ p.src = None
      /\ p.vramStatus = 0
  <2>. DEFINE r == NoSlot
              l == RefLimit
  <2>1. r \in Records /\ r.gfx = 0 /\ r.src = None /\ r.vramStatus = 0
      BY BareFree
  <2>2. 1 \in 0 .. NSlots /\ l \in 0 .. RefLimit
      BY Sizes
  <2>3. p = [r EXCEPT !.status = "PALETTE", !.count = 1, !.refs = l]
      OBVIOUS
  <2>. HIDE DEF p, r, l
  <2>. QED  BY <2>1, <2>2, <2>3 DEF Records
<1>2. EmptyTable = [k \in Slots |-> IF k < Reserved THEN p ELSE NoSlot]
    BY DEF EmptyTable
<1>. HIDE DEF p
<1>3. \A k \in Slots : EmptyTable[k] = IF k < Reserved THEN p ELSE NoSlot
    BY <1>2
<1>4. EmptyTable \in [Slots -> Records]
    BY <1>1, <1>2, BareFree
<1>5. ASSUME NEW k \in Slots
      PROVE  k + EmptyTable[k].count <= NSlots /\ EmptyTable[k].src = None
    BY <1>1, <1>3, BareFree, Sizes
<1>6. Table(EmptyTable)
    BY <1>4, <1>5 DEF Table
<1>7. \A k \in 0 .. Reserved - 1 : k \in Slots /\ k < Reserved
    BY Sizes
<1>8. \A k \in Slots : k >= Reserved => ~ (k < Reserved)
    BY Sizes
<1>. QED  BY <1>1, <1>3, <1>6, <1>7, <1>8

\* The memory of a new room.
Fresh == [slots |-> EmptyTable, unk_3 |-> 0,
          index |-> [e \in Entities |-> 0], offset |-> [e \in Entities |-> 0]]

LEMMA FreshIs ==
    /\ Memory(Fresh) /\ Fresh.slots = EmptyTable /\ Fresh.unk_3 = 0
    /\ Fresh.index = [e \in Entities |-> 0] /\ Fresh.offset = [e \in Entities |-> 0]
<1>1. EmptyTable \in [Slots -> Records] /\ Table(EmptyTable)
    BY EmptySet DEF Table
<1>2. /\ [e \in Entities |-> 0] \in [Entities -> Slots]
    BY Sizes
<1>3. Fresh \in Memories
    BY <1>1, <1>2 DEF Fresh, Memories
<1>. QED  BY <1>1, <1>3 DEF Fresh, Memory

\* What TypeInv says of the memory, and of all else.
Others ==
    /\ drawn \subseteq Slots
    /\ away \subseteq live /\ live \subseteq Entities
    /\ stash # <<>> => stash \in Tables /\ Table(stash)
    /\ pic \in [Entities -> Pictures \cup {None}]
    /\ lender \in [Entities -> Entities \cup {None}]
    /\ leaked \in BOOLEAN /\ sound \in BOOLEAN

LEMMA TypeParts == TypeInv <=> Memory(m) /\ Others
BY DEF TypeInv, TypeOK, Memory, Others, Table, Tables

LEMMA TypePartsNext == TypeInv' <=> Memory(m') /\ Others'
BY DEF TypeInv, TypeOK, Memory, Others, Table, Tables

LEMMA TypeLoad ==
    ASSUME TypeInv, NEW e \in Entities, e \in Present, NEW p \in Pictures \cup {None},
           NEW r, Memory(r.mem), r.ok \in BOOLEAN, Load(e, p, r)
    PROVE  TypeInv'
<1>1. Memory(m) /\ Others
    BY TypeParts
<1>2. Memory(m')
  <2>1. Memory(Parted(r.mem, Borrowers(e)))
      BY PartedIs
  <2>2. m' = IF r.ok THEN Parted(r.mem, Borrowers(e)) ELSE r.mem
      BY DEF Load
  <2>. QED  BY <2>1, <2>2
<1>3. drawn' \subseteq Slots
    BY <1>1 DEF Load, NotUploaded, Others
<1>4. UNCHANGED <<live, away, stash>>
    BY DEF Load
<1>5. pic' \in [Entities -> Pictures \cup {None}] /\ lender' \in [Entities -> Entities \cup {None}]
  <2>1. CASE r.ok
      BY <1>1, <2>1 DEF Load, Part, Others
  <2>2. CASE ~r.ok
      BY <1>1, <2>2 DEF Load, Others
  <2>. QED  BY <2>1, <2>2
<1>6. leaked' \in BOOLEAN /\ sound' \in BOOLEAN
  <2>1. CASE r.ok
      BY <1>1, <2>1, Zenon DEF Load, Others
  <2>2. CASE ~r.ok
      BY <1>1, <2>2, Zenon DEF Load, Others
  <2>. QED  BY <2>1, <2>2
<1>7. Others'
    BY <1>1, <1>3, <1>4, <1>5, <1>6 DEF Others
<1>. QED  BY <1>2, <1>7, TypePartsNext

LEMMA TypeInit == Init => TypeInv
<1>. SUFFICES ASSUME Init PROVE TypeInv
    OBVIOUS
<1>1. m = Fresh
    BY DEF Init, Fresh
<1>2. Others
    BY DEF Init, Others
<1>. QED  BY <1>1, <1>2, FreshIs, TypeParts

LEMMA TypeStep == TypeInv /\ [Next]_vars => TypeInv'
<1>. SUFFICES ASSUME TypeInv, [Next]_vars PROVE TypeInv'
    OBVIOUS
<1>1. Memory(m) /\ Others
    BY TypeParts
<1>2. SUFFICES Memory(m') /\ Others'
    BY TypePartsNext
<1>3. CASE UNCHANGED vars
    BY <1>1, <1>3 DEF vars, Others
<1>4. ASSUME NEW e \in Entities, Create(e) PROVE Memory(m') /\ Others'
  <2>. USE <1>4
  <2>. QED  BY <1>1 DEF Create, Others
<1>5. ASSUME NEW e \in Entities, NEW g \in Fixed, LoadFixed(e, g) PROVE Memory(m') /\ Others'
  <2>. DEFINE r == LoadFixedGFX(m, live, e, g)
  <2>1. Memory(r.mem) /\ r.ok \in BOOLEAN
      BY <1>1, LoadFixedCases
  <2>. HIDE DEF r
  <2>2. e \in Present /\ Load(e, g, r) /\ g \in Pictures \cup {None}
      BY <1>5 DEF LoadFixed, r, Pictures
  <2>3. TypeInv'
      BY <2>1, <2>2, TypeLoad
  <2>. QED  BY <2>3, TypePartsNext
<1>6. ASSUME NEW e \in Entities, NEW n \in 1 .. NSlots, NEW i \in Slots, i # 0 => i + n - 1 \in Slots,
             LoadSwap(e, n, i)
      PROVE  Memory(m') /\ Others'
  <2>. DEFINE r == LoadSwapGFX(m, live, e, n, i)
  <2>1. Memory(r.mem) /\ r.ok \in BOOLEAN
      BY <1>1, <1>6, LoadSwapCases
  <2>. HIDE DEF r
  <2>2. e \in Present /\ Load(e, None, r)
      BY <1>6 DEF LoadSwap, r
  <2>3. TypeInv'
      BY <2>1, <2>2, TypeLoad
  <2>. QED  BY <2>3, TypePartsNext
<1>7. ASSUME NEW e \in Entities, NEW f \in Frames, Animate(e, f) PROVE Memory(m') /\ Others'
  <2>. DEFINE i == m.index[e]
              t == SetSource(m.slots, i, f)
  <2>1. /\ m' = [m EXCEPT !.slots = t] /\ SlotsOf[f] <= m.slots[i].count
        /\ pic' = [pic EXCEPT ![e] = f] /\ drawn' \subseteq drawn
        /\ UNCHANGED <<live, away, stash, lender, leaked, sound>>
      BY <1>7 DEF Animate, NotUploaded
  <2>2. i \in Slots /\ f \in Pictures
      BY <1>1, MemoryType DEF Memory, Pictures
  <2>3. i + SlotsOf[f] <= NSlots
    <3>1. i + m.slots[i].count <= NSlots /\ m.slots[i].count \in Nat /\ SlotsOf[f] \in Nat
        BY <1>1, <2>2, RecordType, Filled, Sizes DEF Memory, Table
    <3>. QED  BY <2>1, <2>2, <3>1, Sizes
  <2>4. Table(t)
      BY <1>1, <2>2, <2>3, SourceSet DEF Memory
  <2>. HIDE DEF t
  <2>5. Memory(m')
      BY <1>1, <2>1, <2>4, SlotsIs
  <2>6. Others'
      BY <1>1, <2>1, <2>2 DEF Others
  <2>. QED  BY <2>5, <2>6
<1>8. ASSUME NEW e \in Entities, NEW p \in Entities, Borrow(e, p) PROVE Memory(m') /\ Others'
  <2>. DEFINE of == [m.offset EXCEPT ![e] = m.offset[p]]
  <2>1. m \in Memories /\ m.slots \in Tables /\ m.unk_3 \in {0, 1} /\ m.index \in [Entities -> Slots]
        /\ of \in [Entities -> Slots] /\ Table(m.slots)
      BY <1>1, MemoryType DEF Memory
  <2>2. m' = [m EXCEPT !.offset = of]
      BY <1>8 DEF Borrow
  <2>. HIDE DEF of
  <2>3. Memo(m', m.slots, m.unk_3, m.index, of)
      BY <2>1, <2>2, MemoExcept
  <2>4. Memory(m')
      BY <2>1, <2>3 DEF Memo, Memory
  <2>5. Others'
      BY <1>1, <1>8 DEF Borrow, Others
  <2>. QED  BY <2>4, <2>5
<1>9. ASSUME NEW e \in Entities, Unload(e) PROVE Memory(m') /\ Others'
  <2>1. Memory(UnloadGFXSlots(m, e))
      BY <1>1, UnloadIs
  <2>2. Memory(m')
      BY <1>9, <2>1, PartedIs DEF Unload
  <2>3. Others'
      BY <1>1, <1>9 DEF Unload, Others, Part
  <2>. QED  BY <2>2, <2>3
<1>10. ASSUME NEW e \in Entities, DeleteEntity(e) PROVE Memory(m') /\ Others'
  <2>1. Memory(UnloadGFXSlots(m, e))
      BY <1>1, UnloadIs
  <2>2. Memory(m')
      BY <1>10, <2>1, PartedIs DEF DeleteEntity
  <2>3. Others'
      BY <1>1, <1>10 DEF DeleteEntity, Others, Part, Present
  <2>. QED  BY <2>2, <2>3
<1>11. CASE Frame
  <2>1. Memory(m')
      BY <1>1, <1>11, UploadSlotsIs DEF Frame
  <2>. DEFINE up == Uploads(m.slots, m.unk_3 = 1)
  <2>2. Drawn(m.slots, up) \subseteq Slots
    <3>1. \A i \in up : i \in Slots /\ m.slots[i].src # None
        BY UploadsInside
    <3>2. Table(m.slots)
        BY <1>1 DEF Memory
    <3>. HIDE DEF up
    <3>. QED  BY <3>1, <3>2, DrawnInside
  <2>3. drawn' \subseteq Slots
      BY <1>1, <1>11, <2>2 DEF Frame, Others
  <2>4. Others'
      BY <1>1, <1>11, <2>3 DEF Frame, Others
  <2>. QED  BY <2>1, <2>4
<1>12. CASE NewRoom
  <2>1. m' = Fresh
      BY <1>12 DEF NewRoom, Fresh
  <2>2. Others'
      BY <1>12 DEF NewRoom, Others
  <2>. QED  BY <2>1, <2>2, FreshIs
<1>13. CASE SubtaskEnter
  <2>. DEFINE t == EmptyTable
  <2>1. m' = [m EXCEPT !.slots = t, !.unk_3 = 0]
      BY <1>13 DEF SubtaskEnter
  <2>2. Table(t)
      BY EmptySet
  <2>. HIDE DEF t
  <2>3. Memory(m')
      BY <1>1, <2>1, <2>2, FreshSlotsIs
  <2>4. Others'
      BY <1>1, <1>13 DEF SubtaskEnter, Others, Memory, Table, Tables
  <2>. QED  BY <2>3, <2>4
<1>14. CASE SubtaskNext
  <2>. DEFINE t == EmptyTable
              q == AllDeleted(m, Present)
  <2>1. m' = [q EXCEPT !.slots = t, !.unk_3 = 0]
      BY <1>14 DEF SubtaskNext
  <2>2. Table(t)
      BY EmptySet
  <2>3. Memory(q)
      BY <1>1, AllDeletedIs
  <2>. HIDE DEF t, q
  <2>4. Memory(m')
      BY <2>1, <2>2, <2>3, FreshSlotsIs
  <2>5. Others'
      BY <1>1, <1>14 DEF SubtaskNext, Others
  <2>. QED  BY <2>4, <2>5
<1>15. CASE SubtaskLeave
  <2>. DEFINE old == AllDeleted(m, Present)
              put == [old EXCEPT !.slots = stash]
              back == CleanUpGFXSlots(put, away)
  <2>1. Memory(old) /\ Table(stash)
      BY <1>1, <1>15, AllDeletedIs DEF SubtaskLeave, Others
  <2>2. put = [old EXCEPT !.slots = stash]
      OBVIOUS
  <2>. HIDE DEF old, put
  <2>3. Memory(put)
      BY <2>1, <2>2, SlotsIs
  <2>4. Memory(back)
      BY <2>3, CleanUpType
  <2>5. /\ m' = UploadEverything(back) /\ drawn' = Drawn(back.slots, Uploads(back.slots, TRUE))
        /\ sound' = (sound /\ \A k \in 0 .. Reserved - 1 : back.slots[k].status = "PALETTE")
      BY <1>15 DEF SubtaskLeave, old, put
  <2>. HIDE DEF back
  <2>6. Memory(m')
      BY <2>4, <2>5, UploadEverythingIs
  <2>7. drawn' \subseteq Slots
      BY <2>4, <2>5, UploadsInside, DrawnInside DEF Memory
  <2>8. sound' \in BOOLEAN
      BY <2>5, <1>1, Zenon DEF Others
  <2>9. Others'
      BY <1>1, <1>15, <2>7, <2>8 DEF SubtaskLeave, Others
  <2>. QED  BY <2>6, <2>9
<1>16. \A n \in RunSizes : n \in 1 .. NSlots /\ 0 \in Slots
    BY Sizes, PoolAssumption
<1>17. \A i \in 1 .. Reserved - 1 : i \in Slots /\ 1 \in 1 .. NSlots /\ (i # 0 => i + 1 - 1 \in Slots)
    BY Sizes
<1>. QED  BY <1>3, <1>4, <1>5, <1>6, <1>7, <1>8, <1>9, <1>10, <1>11, <1>12, <1>13, <1>14, <1>15,
            <1>16, <1>17 DEF Next

\* Every variable keeps the range its code can give it: no run, and no picture
\* in one, ends outside the pool, lost pools included.
THEOREM TypeCorrect == Spec => []TypeOK
<1>1. TypeInv => TypeOK
    BY DEF TypeInv
<1>. QED  BY <1>1, TypeInit, TypeStep, PTL DEF Spec

-----------------------------------------------------------------------------
(* The table stays cut into runs.                                          *)

LEMMA Names ==
    /\ InUse = {"RESERVED", "GFX"} /\ Idle = {"FREE", "UNLOADED"}
    /\ InUse \subseteq Statuses /\ Idle \subseteq Statuses
    /\ "FOLLOWER" \in Statuses /\ "PALETTE" \in Statuses
BY DEF InUse, Idle, Statuses

\* What the cut says of one general slot.
LEMMA SlotFacts ==
    ASSUME NEW s, Table(s), Whole(s), NEW k \in General
    PROVE  /\ s[k] \in Records /\ s[k].count \in 0 .. NSlots /\ s[k].refs \in 0 .. RefLimit
           /\ s[k].status \in InUse \cup Idle \cup {"FOLLOWER"}
           /\ s[k].status = "FOLLOWER" => s[k] = Bare("FOLLOWER")
           /\ s[k].count = 0 => /\ s[k].status \notin InUse /\ s[k].refs = 0 /\ s[k].gfx = 0
                                /\ s[k].src = None /\ s[k].vramStatus = 0
           /\ s[k].count # 0 => Head(s[k]) /\ Piece(s, k)
           /\ s[k].status \in InUse <=> s[k].refs # 0
           /\ k + s[k].count <= NSlots
           /\ \A j \in Run(s, k) : j \in General /\ k <= j
           /\ \A j \in Rest(s, k) : j \in General /\ k < j
<1>1. s[k] \in Records /\ k \in Slots /\ k \in Nat
    BY Sizes DEF Table
<1>2. s[k].count \in 0 .. NSlots /\ s[k].refs \in 0 .. RefLimit
    BY <1>1, RecordType
<1>3. k + s[k].count <= NSlots
    BY <1>1 DEF Table
<1>4. \A j \in Run(s, k) : j \in General /\ k <= j
    BY <1>1, <1>2, <1>3, Sizes DEF Run
<1>5. \A j \in Rest(s, k) : j \in General /\ k < j
    BY <1>1, <1>4, Sizes DEF Rest
<1>6. CASE s[k].count = 0
  <2>1. Plain(s[k])
      BY <1>6 DEF Whole, Cut
  <2>. DEFINE st == s[k].status
  <2>2. st \in {"FREE", "UNLOADED", "FOLLOWER"} /\ st \in Statuses /\ s[k] = Bare(st)
      BY <2>1, Names DEF Plain
  <2>3. s[k].refs = 0 /\ s[k].gfx = 0 /\ s[k].src = None /\ s[k].vramStatus = 0
    <3>. HIDE DEF st
    <3>. QED  BY <2>2, BareRecord
  <2>. QED  BY <1>1, <1>2, <1>3, <1>4, <1>5, <1>6, <2>2, <2>3, Names
<1>7. CASE s[k].count # 0
  <2>1. Head(s[k]) /\ Piece(s, k)
      BY <1>7 DEF Whole, Cut
  <2>2. s[k].status \in InUse \cup {"UNLOADED"}
      BY <2>1 DEF Piece
  <2>3. s[k].status \in InUse <=> s[k].refs # 0
      BY <2>1 DEF Head
  <2>. QED  BY <1>1, <1>2, <1>3, <1>4, <1>5, <1>7, <2>1, <2>2, <2>3, Names
<1>. QED  BY <1>6, <1>7

\* A slot after the head of a run heads none.
LEMMA RestFacts ==
    ASSUME NEW s, Table(s), Whole(s), NEW i \in General, NEW k \in Rest(s, i)
    PROVE  /\ k \in General /\ s[k].count = 0 /\ s[k].refs = 0
           /\ s[k].src = None
           /\ s[i].status \in InUse => s[k] = Bare("FOLLOWER") /\ s[k].status = "FOLLOWER"
           /\ s[i].status \notin InUse => s[k] = Bare("UNLOADED") /\ s[k].status = "UNLOADED"
<1>1. s[i].count # 0
    BY SlotFacts, Sizes DEF Rest, Run
<1>2. Piece(s, i) /\ k \in General
    BY <1>1, SlotFacts
<1>. DEFINE f == "FOLLOWER"
            u == "UNLOADED"
<1>3. f \in Statuses /\ u \in Statuses /\ u \notin InUse
    BY Names
<1>4. \/ s[i].status \in InUse /\ s[k] = Bare(f)
      \/ s[i].status = u /\ s[k] = Bare(u)
    BY <1>2 DEF Piece
<1>. HIDE DEF f, u
<1>5. \/ s[i].status \in InUse /\ s[k] = Bare(f) /\ s[k].status = f
      \/ s[i].status = u /\ s[k] = Bare(u) /\ s[k].status = u
    BY <1>3, <1>4, BareRecord
<1>6. s[k].count = 0
    BY <1>3, <1>4, BareRecord
<1>7. s[k].refs = 0 /\ s[k].src = None
    BY <1>2, <1>6, SlotFacts
<1>. QED  BY <1>2, <1>3, <1>5, <1>6, <1>7 DEF f, u

\* Runs do not overlap.
LEMMA Apart ==
    ASSUME NEW s, Table(s), Whole(s), NEW i \in General, NEW j \in General,
           s[i].count # 0, s[j].count # 0, NEW k \in Run(s, i), k \in Run(s, j)
    PROVE  i = j
<1>1. i <= k /\ j <= k /\ i \in Nat /\ j \in Nat /\ k \in Nat
    BY SlotFacts, Sizes
<1>2. \A a, b \in General : k \in Run(s, a) /\ a < b /\ b <= k => b \in Rest(s, a)
  <2>. SUFFICES ASSUME NEW a \in General, NEW b \in General, k \in Run(s, a), a < b, b <= k
                PROVE  b \in Rest(s, a)
      OBVIOUS
  <2>1. a \in Nat /\ b \in Nat /\ s[a].count \in Nat
      BY SlotFacts, Sizes
  <2>. QED  BY <1>1, <2>1 DEF Run, Rest
<1>3. ASSUME i < j PROVE FALSE
    BY <1>1, <1>2, <1>3, RestFacts
<1>4. ASSUME j < i PROVE FALSE
    BY <1>1, <1>2, <1>4, RestFacts
<1>. QED  BY <1>1, <1>3, <1>4

\* New contents for a part A of the pool that is itself cut into runs.
LEMMA Replaced ==
    ASSUME NEW s, Table(s), Whole(s), NEW t, Table(t), NEW A \in SUBSET General,
           \A k \in Slots \ A : t[k] = s[k],
           \A i \in General \ A : s[i].count # 0 => Run(s, i) \cap A = {},
           \A i \in A : s[i].status \in InUse => Run(s, i) \subseteq A,
           \A i \in A : t[i].count = 0 => Plain(t[i]),
           \A i \in A : t[i].count # 0 => Piece(t, i) /\ Head(t[i]),
           \A k \in A : t[k].status = "FOLLOWER" =>
               \E i \in A : t[i].status \in InUse /\ k \in Rest(t, i)
    PROVE  Whole(t)
<1>1. \A k \in 0 .. Reserved - 1 : t[k] = s[k]
    BY Sizes
<1>2. \A k \in General \ A : t[k] = s[k] /\ Run(t, k) = Run(s, k) /\ Rest(t, k) = Rest(s, k)
    BY Sizes DEF Run, Rest
<1>3. ASSUME NEW i \in General, t[i].count # 0 PROVE Piece(t, i) /\ Head(t[i])
  <2>1. CASE i \in A
      BY <1>3, <2>1
  <2>2. CASE i \notin A
    <3>1. s[i].count # 0 /\ t[i] = s[i] /\ Rest(t, i) = Rest(s, i)
        BY <1>2, <1>3, <2>2
    <3>2. Piece(s, i) /\ Head(s[i])
        BY <3>1, SlotFacts
    <3>3. \A k \in Rest(s, i) : t[k] = s[k]
        BY <1>2, <2>2, <3>1, SlotFacts DEF Rest
    <3>. QED  BY <3>1, <3>2, <3>3 DEF Piece
  <2>. QED  BY <2>1, <2>2
<1>4. ASSUME NEW i \in General, t[i].count = 0 PROVE Plain(t[i])
  <2>1. CASE i \in A
      BY <1>4, <2>1
  <2>2. CASE i \notin A
      BY <1>2, <1>4, <2>2 DEF Whole, Cut
  <2>. QED  BY <2>1, <2>2
<1>5. ASSUME NEW k \in General, t[k].status = "FOLLOWER"
      PROVE  \E i \in General : t[i].status \in InUse /\ k \in Rest(t, i)
  <2>1. CASE k \in A
      BY <1>5, <2>1
  <2>2. CASE k \notin A
    <3>1. PICK i \in General : s[i].status \in InUse /\ k \in Rest(s, i)
        BY <1>2, <1>5, <2>2 DEF Whole, Cut
    <3>2. i \notin A
        BY <2>2, <3>1 DEF Rest
    <3>. QED  BY <1>2, <3>1, <3>2
  <2>. QED  BY <2>1, <2>2
<1>6. \A k \in 0 .. Reserved - 1 : /\ t[k].status = "PALETTE" /\ t[k].count = 1
                                   /\ t[k].gfx = 0 /\ t[k].src = None
    BY <1>1 DEF Whole, Cut
<1>. QED  BY <1>3, <1>4, <1>5, <1>6 DEF Whole, Cut

LEMMA EmptyWhole == Whole(EmptyTable)
<1>. DEFINE s == EmptyTable
<1>1. \A k \in General : s[k] = NoSlot
    BY EmptySet, Sizes
<1>2. \A k \in 0 .. Reserved - 1 : /\ s[k].status = "PALETTE" /\ s[k].count = 1
                                   /\ s[k].gfx = 0 /\ s[k].src = None
    BY EmptySet
<1>. HIDE DEF s
<1>3. \A i \in General : s[i].count = 0 /\ s[i].status = "FREE" /\ Plain(s[i])
    BY <1>1, BareFree DEF Plain
<1>. QED  BY <1>2, <1>3 DEF Whole, Cut, s

\* No run reaches into slots that were found to be idle.
LEMMA FoundApart ==
    ASSUME NEW s, Table(s), Whole(s), NEW n \in 1 .. NSlots, NEW a \in General,
           a = FindFreeGFXSlots(s, n)
    PROVE  /\ IdleRun(s, a, n) /\ a .. a + n - 1 \subseteq General
           /\ \A i \in General \ (a .. a + n - 1) :
                s[i].count # 0 => Run(s, i) \cap (a .. a + n - 1) = {}
<1>. DEFINE A == a .. a + n - 1
<1>1. /\ IdleRun(s, a, n)
      /\ \/ \A k \in A : s[k].status = "FREE"
         \/ \A i \in General : i < a => ~IdleRun(s, i, n)
    BY FreeFound, Sizes
<1>2. A \subseteq General /\ a \in A /\ \A k \in A : s[k].status \in Idle
    BY <1>1, Sizes DEF IdleRun
<1>3. ASSUME NEW i \in General \ A, s[i].count # 0, NEW k \in Run(s, i), k \in A PROVE FALSE
  <2>1. i \in Nat /\ k \in Nat /\ a \in Nat /\ n \in Nat /\ i <= k
      BY <1>2, <1>3, SlotFacts, Sizes
  <2>2. i < a /\ a <= k
      BY <1>3, <2>1
  <2>3. \A j \in i + 1 .. k : j \in Rest(s, i)
    <3>. DEFINE c == s[i].count
    <3>1. c \in Nat /\ k \in i .. i + c - 1
        BY <1>3, SlotFacts, Sizes DEF Run
    <3>. HIDE DEF c
    <3>2. \A j \in i + 1 .. k : j \in i .. i + c - 1 /\ j # i
        BY <2>1, <3>1
    <3>. QED  BY <3>2 DEF Rest, Run, c
  <2>4. k \in Rest(s, i) /\ a \in Rest(s, i)
      BY <2>1, <2>2, <2>3
  <2>5. s[a].status \in Idle
      BY <1>2
  <2>6. s[i].status \notin InUse
      BY <2>4, <2>5, RestFacts, Names
  <2>7. \A j \in i + 1 .. k : s[j].status = "UNLOADED"
      BY <2>3, <2>6, RestFacts
  <2>8. s[a].status = "UNLOADED"
      BY <2>1, <2>2, <2>7
  <2>9. s[i].status \in Idle
      BY <1>3, <2>6, SlotFacts, Names DEF Piece
  <2>10. \A j \in i .. a + n - 1 : s[j].status \in Idle
      BY <1>2, <2>1, <2>2, <2>7, <2>9, Names
  <2>11. IdleRun(s, i, n)
      BY <1>1, <2>1, <2>2, <2>10, Sizes DEF IdleRun
  <2>. QED  BY <1>1, <1>2, <2>2, <2>8, <2>11
<1>. QED  BY <1>1, <1>2, <1>3

\* A new run where idle slots were found.
LEMMA TakenWhole ==
    ASSUME NEW s, Table(s), Whole(s), NEW n \in 1 .. NSlots, NEW a \in General,
           a = FindFreeGFXSlots(s, n),
           NEW t, Table(t), t[a].status \in InUse, t[a].count = n, Head(t[a]),
           \A k \in a + 1 .. a + n - 1 : t[k] = Bare("FOLLOWER"),
           \A k \in Slots \ (a .. a + n - 1) : t[k] = s[k]
    PROVE  Whole(t)
<1>. DEFINE A == a .. a + n - 1
            f == "FOLLOWER"
<1>1. /\ A \subseteq General /\ \A k \in A : s[k].status \in Idle
      /\ \A i \in General \ A : s[i].count # 0 => Run(s, i) \cap A = {}
    BY FoundApart DEF IdleRun
<1>2. f \in Statuses
    BY Names
<1>3. Rest(t, a) = a + 1 .. a + n - 1 /\ n \in Nat /\ a \in Nat
    BY Sizes DEF Rest, Run
<1>4. ASSUME NEW k \in A, k # a
      PROVE  k \in Rest(t, a) /\ t[k] = Bare(f) /\ t[k].status = f /\ t[k].count = 0
  <2>1. k \in Rest(t, a) /\ t[k] = Bare(f)
      BY <1>3, <1>4
  <2>. HIDE DEF f
  <2>. QED  BY <1>2, <2>1, BareRecord
<1>5. Piece(t, a)
    BY <1>3 DEF Piece
<1>6. \A i \in A : s[i].status \notin InUse
    BY <1>1, Names
<1>7. \A i \in A : t[i].count = 0 => Plain(t[i])
    BY <1>4 DEF Plain
<1>8. \A i \in A : t[i].count # 0 => Piece(t, i) /\ Head(t[i])
    BY <1>4, <1>5
<1>9. \A k \in A : t[k].status = "FOLLOWER" =>
               \E i \in A : t[i].status \in InUse /\ k \in Rest(t, i)
  <2>1. a \in A /\ t[a].status # "FOLLOWER"
      BY <1>3, Names
  <2>. QED  BY <2>1, <1>4
<1>. HIDE DEF A
<1>10. \A k \in Slots \ A : t[k] = s[k]
    BY DEF A
<1>11. A \in SUBSET General /\ \A i \in A : s[i].status \in InUse => Run(s, i) \subseteq A
    BY <1>1, <1>6
<1>. QED  BY <1>1, <1>7, <1>8, <1>9, <1>10, <1>11, Replaced

\* A run of which only the status and what its head says change.
LEMMA ChangedWhole ==
    ASSUME NEW s, Table(s), Whole(s), NEW i \in General, s[i].count # 0,
           NEW t, Table(t), t[i].count = s[i].count, Piece(t, i), Head(t[i]),
           \A k \in Slots \ Run(s, i) : t[k] = s[k]
    PROVE  Whole(t)
<1>. DEFINE A == Run(s, i)
            f == "FOLLOWER"
            u == "UNLOADED"
<1>1. A \in SUBSET General /\ Rest(t, i) = A \ {i} /\ i \in A
    BY SlotFacts, Sizes DEF Run, Rest
<1>2. \A j \in General \ A : s[j].count # 0 => Run(s, j) \cap A = {}
    BY <1>1, Apart
<1>3. \A j \in A : s[j].status \in InUse => Run(s, j) \subseteq A
  <2>1. \A j \in A : j # i => s[j].count = 0 /\ s[j].status \notin InUse
      BY <1>1, RestFacts, SlotFacts DEF Rest
  <2>. QED  BY <2>1
<1>4. f \in Statuses /\ u \in Statuses /\ u \notin InUse /\ f \notin InUse /\ u # f
    BY Names
<1>5. ASSUME NEW k \in A, k # i
      PROVE  /\ k \in Rest(t, i) /\ t[k].count = 0 /\ Plain(t[k])
             /\ t[k].status = f => t[i].status \in InUse
  <2>1. k \in Rest(t, i)
      BY <1>1, <1>5
  <2>2. \/ t[i].status \in InUse /\ t[k] = Bare(f)
        \/ t[i].status = u /\ t[k] = Bare(u)
      BY <2>1 DEF Piece
  <2>3. {f, u} \subseteq {"FREE", "UNLOADED", "FOLLOWER"}
      OBVIOUS
  <2>. HIDE DEF f, u
  <2>4. \/ t[i].status \in InUse /\ t[k] = Bare(f) /\ t[k].status = f
        \/ t[k] = Bare(u) /\ t[k].status = u
      BY <1>4, <2>2, BareRecord
  <2>5. t[k].count = 0
      BY <1>4, <2>2, BareRecord
  <2>. QED  BY <1>4, <2>1, <2>3, <2>4, <2>5 DEF Plain
<1>6. \A j \in A : t[j].count = 0 => Plain(t[j])
    BY <1>5
<1>7. \A j \in A : t[j].count # 0 => Piece(t, j) /\ Head(t[j])
    BY <1>5
<1>8. ASSUME NEW k \in A, t[k].status = "FOLLOWER"
      PROVE  \E j \in A : t[j].status \in InUse /\ k \in Rest(t, j)
  <2>1. t[i].status # f
      BY <1>4 DEF Piece
  <2>2. k # i
      BY <1>8, <2>1
  <2>. QED  BY <1>1, <1>5, <1>8, <2>2
<1>9. \A k \in Slots \ A : t[k] = s[k]
    OBVIOUS
<1>. HIDE DEF A
<1>. QED  BY <1>1, <1>2, <1>3, <1>6, <1>7, <1>8, <1>9, Replaced

\* Of two tables: the same but for status, references and pending uploads.
SameContents(s, t) == \A k \in Slots :
    t[k].count = s[k].count /\ t[k].src = s[k].src /\ t[k].gfx = s[k].gfx

\* One more reference to a general run.
LEMMA UsedRun ==
    ASSUME NEW s, Table(s), NEW i \in Slots, NEW st \in InUse
    PROVE  LET t == UsedTable(s, i, st) IN
           /\ Table(t) /\ t[i].status = st /\ t[i].refs = More(s[i].refs)
           /\ \A k \in Slots : /\ t[k].count = s[k].count /\ t[k].src = s[k].src
                               /\ t[k].gfx = s[k].gfx /\ t[k].vramStatus = s[k].vramStatus
           /\ \A k \in Slots : k # i /\ k \in Run(s, i) => t[k] = WithStatus(s[k], "FOLLOWER")
           /\ \A k \in Slots : k # i /\ k \notin Run(s, i) => t[k] = s[k]
<1>1. st \in Statuses /\ st # "PALETTE"
    BY Names
<1>. QED  BY <1>1, UsedSet

\* One more reference to a run that holds a graphic.
LEMMA SharedWhole ==
    ASSUME NEW s, Table(s), Whole(s), NEW i \in General, s[i].count # 0
    PROVE  LET t == UsedTable(s, i, "RESERVED") IN
           /\ Table(t) /\ Whole(t) /\ SameContents(s, t)
           /\ \A k \in Slots : t[k].vramStatus = s[k].vramStatus
           /\ t[i].refs = More(s[i].refs)
           /\ \A k \in General : k # i => t[k].refs = s[k].refs
           /\ \A k \in General \ Run(s, i) : t[k] = s[k]
<1>. DEFINE st == "RESERVED"
            f == "FOLLOWER"
            t == UsedTable(s, i, st)
<1>1. st \in Statuses /\ st \in InUse /\ st # "PALETTE" /\ f \in Statuses /\ st # "GFX"
    BY Names
<1>2. i \in Slots /\ i \in Run(s, i) /\ Head(s[i]) /\ s[i].refs \in 0 .. RefLimit
  <2>1. Head(s[i]) /\ s[i].refs \in 0 .. RefLimit /\ s[i].count \in Nat
      BY SlotFacts, Sizes
  <2>2. i \in Slots /\ i \in Nat
      BY Sizes
  <2>. QED  BY <2>1, <2>2 DEF Run
<1>. HIDE DEF t, st
<1>3. /\ Table(t)
      /\ t[i].status = st /\ t[i].refs = More(s[i].refs) /\ t[i].refs \in 0 .. RefLimit
      /\ \A k \in Slots : /\ t[k].count = s[k].count /\ t[k].src = s[k].src
                          /\ t[k].gfx = s[k].gfx /\ t[k].vramStatus = s[k].vramStatus
      /\ \A k \in Slots : k # i /\ k \in Run(s, i) => t[k] = WithStatus(s[k], f)
      /\ \A k \in Slots : k # i /\ k \notin Run(s, i) => t[k] = s[k]
    BY <1>1, <1>2, UsedSet DEF t
<1>. HIDE DEF f
<1>4. \A k \in Rest(s, i) : t[k] = Bare(f)
  <2>. TAKE k \in Rest(s, i)
  <2>1. k \in Slots /\ k # i /\ k \in Run(s, i)
      BY SlotFacts, Sizes DEF Rest
  <2>2. t[k] = WithStatus(s[k], f)
      BY <1>3, <2>1
  <2>3. s[k] = Bare("FOLLOWER") \/ s[k] = Bare("UNLOADED")
      BY RestFacts
  <2>4. "FOLLOWER" \in Statuses /\ "UNLOADED" \in Statuses
      BY Names
  <2>. QED  BY <1>1, <2>2, <2>3, <2>4, BareAgain
<1>5. Rest(t, i) = Rest(s, i)
    BY <1>2, <1>3 DEF Rest, Run
<1>6. Piece(t, i)
    BY <1>1, <1>3, <1>4, <1>5 DEF Piece, f
<1>7. t[i].refs # 0
    BY <1>2, <1>3, Sizes DEF More
<1>8. Head(t[i])
    BY <1>1, <1>2, <1>3, <1>7 DEF Head
<1>9. \A k \in Slots \ Run(s, i) : t[k] = s[k]
    BY <1>2, <1>3
<1>10. Whole(t)
    BY <1>2, <1>3, <1>6, <1>8, <1>9, ChangedWhole
<1>11. \A k \in General : k # i => t[k].refs = s[k].refs
  <2>. TAKE k \in General
  <2>1. k \in Rest(s, i) => t[k].refs = 0 /\ s[k].refs = 0
      BY <1>1, <1>4, RestFacts, BareRecord
  <2>. QED  BY <2>1, <1>9, Sizes DEF Rest
<1>. QED  BY <1>3, <1>9, <1>10, <1>11, Sizes DEF t, st, SameContents

\* A new run and its first reference.
LEMMA NewRunWhole ==
    ASSUME NEW s, Table(s), Whole(s), NEW n \in 1 .. NSlots, NEW a \in General,
           a = FindFreeGFXSlots(s, n), NEW st \in InUse,
           NEW u, Table(u), u[a].count = n, u[a].refs = 0,
           st = "GFX" => u[a].gfx = 0,
           u[a].gfx # 0 => u[a].src = u[a].gfx,
           u[a].src # None => SlotsOf[u[a].src] <= n /\ u[a].vramStatus # 0,
           \A k \in a + 1 .. a + n - 1 : u[k] = Bare("FOLLOWER"),
           \A k \in Slots \ (a .. a + n - 1) : u[k] = s[k]
    PROVE  LET t == UsedTable(u, a, st) IN
           /\ Table(t) /\ Whole(t)
           /\ t[a].refs = 1 /\ t[a].src = u[a].src /\ t[a].vramStatus = u[a].vramStatus
           /\ \A k \in a + 1 .. a + n - 1 : t[k] = Bare("FOLLOWER")
           /\ \A k \in Slots \ (a .. a + n - 1) : t[k] = s[k]
<1>. DEFINE f == "FOLLOWER"
            t == UsedTable(u, a, st)
<1>1. st \in Statuses /\ st # "PALETTE" /\ f \in Statuses
    BY Names
<1>2. a \in Slots /\ a \in Nat /\ n \in Nat /\ More(0) = 1 /\ Run(u, a) = a .. a + n - 1
    BY Sizes DEF More, Run
<1>. HIDE DEF t
<1>3. /\ Table(t)
      /\ t[a].status = st /\ t[a].refs = More(u[a].refs)
      /\ \A k \in Slots : /\ t[k].count = u[k].count /\ t[k].src = u[k].src
                          /\ t[k].gfx = u[k].gfx /\ t[k].vramStatus = u[k].vramStatus
      /\ \A k \in Slots : k # a /\ k \in Run(u, a) => t[k] = WithStatus(u[k], f)
      /\ \A k \in Slots : k # a /\ k \notin Run(u, a) => t[k] = u[k]
    BY <1>2, UsedRun DEF t, f
<1>. HIDE DEF f
<1>4. \A k \in a + 1 .. a + n - 1 : t[k] = Bare(f)
  <2>. TAKE k \in a + 1 .. a + n - 1
  <2>1. a .. a + n - 1 \subseteq General
      BY FoundApart
  <2>2. k \in Slots /\ k # a /\ k \in Run(u, a)
      BY <1>2, <2>1, Sizes
  <2>3. u[k] = Bare(f)
      BY DEF f
  <2>. QED  BY <1>1, <1>3, <2>2, <2>3, BareAgain
<1>5. \A k \in Slots \ (a .. a + n - 1) : t[k] = s[k]
    BY <1>2, <1>3
<1>6. t[a].count = n /\ t[a].refs = 1
    BY <1>2, <1>3
<1>7. Head(t[a])
    BY <1>2, <1>3, <1>6 DEF Head
<1>8. Whole(t)
    BY <1>3, <1>4, <1>5, <1>6, <1>7, TakenWhole DEF f
<1>. QED  BY <1>2, <1>3, <1>4, <1>5, <1>6, <1>8 DEF t, f

\* The reserved slots are runs of one slot.
LEMMA PaletteWhole ==
    ASSUME NEW s, Table(s), Whole(s), NEW i \in 0 .. Reserved - 1
    PROVE  LET t == UsedTable(s, i, "PALETTE") IN
           /\ Table(t) /\ Whole(t) /\ \A k \in General : t[k] = s[k]
<1>. DEFINE st == "PALETTE"
            t == UsedTable(s, i, st)
<1>1. st \in Statuses /\ i \in Slots
    BY Names, Sizes
<1>. HIDE DEF st, t
<1>2. /\ Table(t) /\ t[i].status = st
      /\ \A k \in Slots : /\ t[k].count = s[k].count /\ t[k].src = s[k].src
                          /\ t[k].gfx = s[k].gfx
      /\ \A k \in Slots : k # i /\ k \notin Run(s, i) => t[k] = s[k]
    BY <1>1, UsedSet DEF t
<1>3. s[i].count = 1 /\ Run(s, i) = {i}
    BY Sizes DEF Whole, Cut, Run
<1>4. \A k \in Slots : k # i => t[k] = s[k]
    BY <1>2, <1>3
<1>5. \A k \in General : t[k] = s[k] /\ Rest(t, k) = Rest(s, k)
    BY <1>4, Sizes DEF Rest, Run
<1>6. \A k \in 0 .. Reserved - 1 : /\ t[k].status = "PALETTE" /\ t[k].count = 1
                                   /\ t[k].gfx = 0 /\ t[k].src = None
    BY <1>2, <1>4, Sizes DEF Whole, Cut, st
<1>7. \A k \in General : s[k].count # 0 => Piece(t, k) /\ Head(t[k])
  <2>. SUFFICES ASSUME NEW k \in General, s[k].count # 0 PROVE Piece(t, k) /\ Head(t[k])
      OBVIOUS
  <2>1. Piece(s, k) /\ Head(s[k])
      BY SlotFacts
  <2>2. \A j \in Rest(s, k) : t[j] = s[j]
      BY <1>5, SlotFacts
  <2>. QED  BY <1>5, <2>1, <2>2 DEF Piece
<1>8. \A k \in General : s[k].count = 0 => Plain(t[k])
    BY <1>5 DEF Whole, Cut
<1>9. \A k \in General : t[k].status = "FOLLOWER" =>
         \E j \in General : t[j].status \in InUse /\ k \in Rest(t, j)
    BY <1>5 DEF Whole, Cut
<1>10. Whole(t)
    BY <1>5, <1>6, <1>7, <1>8, <1>9 DEF Whole, Cut
<1>. QED  BY <1>2, <1>5, <1>10 DEF t, st

\* One reference less; with the last one the run is released.
LEMMA DroppedWhole ==
    ASSUME NEW s, Table(s), Whole(s), NEW i \in Heads(s)
    PROVE  LET t == DropReference(s, i) IN
           /\ Table(t) /\ Whole(t) /\ SameContents(s, t)
           /\ \A k \in Slots : t[k].vramStatus = s[k].vramStatus
           /\ t[i].refs = s[i].refs - 1
           /\ \A k \in General : k # i => t[k].refs = s[k].refs
<1>. DEFINE u == "UNLOADED"
            t == DropReference(s, i)
<1>1. /\ i \in General /\ s[i].status \in InUse /\ i \in Slots /\ s[i].count # 0
      /\ s[i].refs # 0 /\ s[i].refs \in 0 .. RefLimit /\ Head(s[i]) /\ Piece(s, i)
      /\ i \in Run(s, i)
    BY SlotFacts, Sizes DEF Heads, Run
<1>2. u \in Statuses /\ u \notin InUse /\ u # "GFX"
    BY Names
<1>. HIDE DEF t
<1>3. /\ Table(t)
      /\ t[i].status = (IF s[i].refs = 1 THEN u ELSE s[i].status)
      /\ t[i].refs = s[i].refs - 1
      /\ \A k \in Slots : /\ t[k].count = s[k].count /\ t[k].src = s[k].src
                          /\ t[k].gfx = s[k].gfx /\ t[k].vramStatus = s[k].vramStatus
      /\ \A k \in Slots : k # i => t[k] = IF s[i].refs = 1 /\ k \in Run(s, i)
                                          THEN WithStatus(s[k], u) ELSE s[k]
    BY <1>1, ReleasedSet DEF t
<1>4. Rest(t, i) = Rest(s, i) /\ \A k \in Rest(s, i) : k \in Slots /\ k # i /\ k \in Run(s, i)
    BY <1>1, <1>3, SlotFacts, Sizes DEF Rest, Run
<1>5. \A k \in Rest(s, i) : s[k] = Bare("FOLLOWER")
    BY <1>1, RestFacts
<1>6. Piece(t, i) /\ Head(t[i]) /\ \A k \in Rest(s, i) : t[k].refs = 0
  <2>1. CASE s[i].refs = 1
    <3>. HIDE DEF u
    <3>1. \A k \in Rest(s, i) : t[k] = WithStatus(Bare("FOLLOWER"), u)
        BY <2>1, <1>3, <1>4, <1>5
    <3>2. \A k \in Rest(s, i) : t[k] = Bare(u) /\ t[k].refs = 0
        BY <1>2, <3>1, Names, BareAgain, BareRecord
    <3>3. t[i].status = u /\ t[i].refs = 0
        BY <1>3, <2>1
    <3>4. Piece(t, i)
        BY <1>4, <3>2, <3>3 DEF Piece, u
    <3>5. Head(t[i])
        BY <1>1, <1>2, <1>3, <3>3 DEF Head
    <3>. QED  BY <3>2, <3>4, <3>5
  <2>2. CASE s[i].refs # 1
    <3>1. \A k \in Rest(s, i) : t[k] = s[k] /\ t[k].refs = 0
        BY <2>2, <1>1, <1>3, <1>4, RestFacts
    <3>2. t[i].status = s[i].status /\ t[i].refs # 0
        BY <1>1, <1>3, <2>2, Sizes
    <3>3. Piece(t, i)
        BY <1>1, <1>4, <1>5, <3>1, <3>2 DEF Piece
    <3>4. Head(t[i])
        BY <1>1, <1>2, <1>3, <2>2, <3>2 DEF Head
    <3>. QED  BY <3>1, <3>3, <3>4
  <2>. QED  BY <2>1, <2>2
<1>7. \A k \in Slots \ Run(s, i) : t[k] = s[k]
    BY <1>1, <1>3
<1>8. Whole(t)
    BY <1>1, <1>3, <1>6, <1>7, ChangedWhole
<1>9. \A k \in General : k # i => t[k].refs = s[k].refs
    BY <1>1, <1>6, <1>7, RestFacts, Sizes DEF Rest
<1>. QED  BY <1>3, <1>8, <1>9 DEF t, SameContents

\* The next frame of an animation.
LEMMA SourcedWhole ==
    ASSUME NEW s, Table(s), Whole(s), NEW i \in General, s[i].status = "GFX",
           NEW p \in Pictures, SlotsOf[p] <= s[i].count
    PROVE  LET t == SetSource(s, i, p) IN
           /\ Table(t) /\ Whole(t)
           /\ t[i].src = p /\ t[i].vramStatus = 3 /\ t[i].refs = s[i].refs
           /\ \A k \in Slots \ {i} : t[k] = s[k]
<1>. DEFINE t == SetSource(s, i, p)
<1>1. s[i].status \in InUse
    BY Names
<1>2. /\ i \in Slots /\ s[i].count # 0 /\ s[i].count \in 0 .. NSlots /\ i + s[i].count <= NSlots
      /\ Head(s[i]) /\ Piece(s, i) /\ i \in Run(s, i) /\ s[i] \in Records
    BY <1>1, SlotFacts, Sizes DEF Run
<1>3. i + SlotsOf[p] <= NSlots
    BY <1>2, Filled, Sizes
<1>. HIDE DEF t
<1>4. Table(t) /\ t[i] = WithSource(s[i], p) /\ \A k \in Slots \ {i} : t[k] = s[k]
    BY <1>2, <1>3, SourceSet DEF t
<1>5. LET q == WithSource(s[i], p)
      IN  /\ q.src = p /\ q.vramStatus = 3 /\ q.count = s[i].count
          /\ q.status = s[i].status /\ q.gfx = s[i].gfx /\ q.refs = s[i].refs
    BY <1>2, SourceRecord
<1>6. Rest(t, i) = Rest(s, i)
    BY <1>4, <1>5 DEF Rest, Run
<1>7. \A k \in Rest(s, i) : t[k] = s[k]
    BY <1>4, SlotFacts, Sizes DEF Rest
<1>8. Piece(t, i)
    BY <1>2, <1>4, <1>5, <1>6, <1>7 DEF Piece
<1>9. Head(t[i])
    BY <1>2, <1>4, <1>5 DEF Head
<1>10. \A k \in Slots \ Run(s, i) : t[k] = s[k]
    BY <1>2, <1>4
<1>11. Whole(t)
    BY <1>2, <1>4, <1>5, <1>8, <1>9, <1>10, ChangedWhole
<1>. QED  BY <1>4, <1>5, <1>11 DEF t

\* Uploads change no run; uploading everything also clears the idle slots.
Uploaded(s, up, cleared, t) == \A k \in Slots :
    t[k] = IF s[k].status \in cleared THEN NoSlot
           ELSE IF k \in up THEN WithUpload(s[k]) ELSE s[k]

LEMMA UploadedWhole ==
    ASSUME NEW s, Table(s), Whole(s), NEW up, \A k \in up : k \in Slots /\ s[k].src # None,
           NEW cleared \in SUBSET Idle, NEW t, Table(t), Uploaded(s, up, cleared, t)
    PROVE  /\ Whole(t)
           /\ \A k \in General : t[k].refs = s[k].refs
           /\ \A k \in Heads(s) : t[k].src = s[k].src /\ t[k].status = s[k].status
<1>1. ASSUME NEW k \in General, s[k].status \in cleared
      PROVE  t[k] = NoSlot /\ t[k].refs = s[k].refs /\ t[k].status \notin InUse
  <2>1. t[k] = NoSlot
      BY <1>1, Sizes DEF Uploaded
  <2>2. s[k].refs = 0
      BY <1>1, SlotFacts, Names
  <2>. QED  BY <2>1, <2>2, BareFree, Names
<1>2. ASSUME NEW k \in General, s[k].status \notin cleared
      PROVE  /\ t[k].refs = s[k].refs /\ t[k].status = s[k].status /\ t[k].count = s[k].count
             /\ t[k].src = s[k].src /\ t[k].gfx = s[k].gfx
             /\ t[k].vramStatus = IF k \in up THEN 1 ELSE s[k].vramStatus
             /\ s[k].src = None => t[k] = s[k]
  <2>1. s[k] \in Records /\ k \in Slots
      BY Sizes DEF Table
  <2>2. t[k] = IF k \in up THEN WithUpload(s[k]) ELSE s[k]
      BY <1>2, <2>1 DEF Uploaded
  <2>. QED  BY <2>1, <2>2, UploadRecord
<1>3. \A k \in 0 .. Reserved - 1 : t[k] = s[k]
  <2>. TAKE k \in 0 .. Reserved - 1
  <2>1. k \in Slots /\ s[k].status = "PALETTE" /\ s[k].src = None
      BY Sizes DEF Whole, Cut
  <2>. QED  BY <2>1, Names DEF Uploaded
<1>4. ASSUME NEW i \in General, t[i].count # 0 PROVE Piece(t, i) /\ Head(t[i])
  <2>1. s[i].status \notin cleared
      BY <1>1, <1>4, BareFree
  <2>2. s[i].count # 0 /\ Rest(t, i) = Rest(s, i) /\ t[i].status = s[i].status
      BY <1>2, <1>4, <2>1 DEF Rest, Run
  <2>3. Piece(s, i) /\ Head(s[i])
      BY <2>2, SlotFacts
  <2>4. ASSUME NEW k \in Rest(s, i) PROVE t[k] = s[k]
    <3>1. k \in General /\ s[k].src = None
        BY RestFacts
    <3>2. s[i].status \in InUse => s[k].status \notin Idle
        BY RestFacts, Names
    <3>3. s[i].status \notin InUse => s[i].status = s[k].status
        BY <2>3, RestFacts DEF Piece
    <3>. QED  BY <1>2, <2>1, <3>1, <3>2, <3>3
  <2>5. Piece(t, i)
      BY <2>2, <2>3, <2>4 DEF Piece
  <2>6. Head(t[i])
      BY <1>2, <2>1, <2>3 DEF Head
  <2>. QED  BY <2>5, <2>6
<1>5. ASSUME NEW i \in General, t[i].count = 0 PROVE Plain(t[i])
  <2>1. CASE s[i].status \in cleared
      BY <1>1, <2>1, BareFree DEF Plain
  <2>2. CASE s[i].status \notin cleared
    <3>1. s[i].count = 0 /\ s[i].src = None
        BY <1>2, <1>5, <2>2, SlotFacts
    <3>. QED  BY <1>2, <2>2, <3>1 DEF Whole, Cut
  <2>. QED  BY <2>1, <2>2
<1>6. ASSUME NEW k \in General, t[k].status = "FOLLOWER"
      PROVE  \E i \in General : t[i].status \in InUse /\ k \in Rest(t, i)
  <2>1. s[k].status = "FOLLOWER"
      BY <1>1, <1>2, <1>6, BareFree
  <2>2. PICK i \in General : s[i].status \in InUse /\ k \in Rest(s, i)
      BY <2>1 DEF Whole, Cut
  <2>3. s[i].status \notin Idle
      BY <2>2, Names
  <2>4. t[i].status = s[i].status /\ Rest(t, i) = Rest(s, i)
      BY <1>2, <2>3 DEF Rest, Run
  <2>. QED  BY <2>2, <2>4
<1>7. \A k \in 0 .. Reserved - 1 : /\ t[k].status = "PALETTE" /\ t[k].count = 1
                                   /\ t[k].gfx = 0 /\ t[k].src = None
    BY <1>3 DEF Whole, Cut
<1>8. Whole(t)
    BY <1>4, <1>5, <1>6, <1>7 DEF Whole, Cut
<1>9. \A k \in General : t[k].refs = s[k].refs
    BY <1>1, <1>2
<1>10. \A k \in Heads(s) : t[k].src = s[k].src /\ t[k].status = s[k].status
    BY <1>2, Names DEF Heads
<1>. QED  BY <1>8, <1>9, <1>10

-----------------------------------------------------------------------------
(* Moving a run down.                                                      *)

\* Slots from .. to of the loop: idle up to the run in use that is moved to
\* the first of them.
Gap(s, to, from) ==
    /\ to \in IdleSlots(s) /\ \A k \in IdleSlots(s) : to <= k
    /\ from \in Heads(s) /\ to < from
    /\ \A k \in to .. from - 1 : s[k].status \in Idle

LEMMA GapFacts ==
    ASSUME NEW s, Table(s), Whole(s), NEW to, NEW from, Gap(s, to, from)
    PROVE  LET A == to .. from + s[from].count - 1 IN
           /\ to \in Nat /\ from \in Nat /\ s[from].count \in Nat /\ s[from].count # 0
           /\ to \in General /\ from \in General /\ to < from
           /\ A \in SUBSET General /\ Run(s, from) \subseteq A
           /\ \A k \in Rest(s, from) : s[k] = Bare("FOLLOWER")
           /\ \A k \in A : k # from => /\ s[k].refs = 0 /\ s[k].status \notin InUse
                                       /\ k \in Run(s, from) \/ (k \in to .. from - 1 /\ s[k].status \in Idle)
           /\ \A i \in General \ A : s[i].count # 0 => Run(s, i) \cap A = {}
           /\ \A i \in to .. from - 1 : Rest(s, i) \subseteq i + 1 .. from - 1
<1>. DEFINE A == to .. from + s[from].count - 1
<1>1. /\ to \in General /\ from \in General /\ to < from /\ to \in Nat /\ from \in Nat
      /\ s[from].status \in InUse /\ s[to].status \in Idle
    BY Sizes DEF Gap, IdleSlots, Heads
<1>2. s[from].count \in Nat /\ s[from].count # 0 /\ from + s[from].count <= NSlots
    BY <1>1, SlotFacts, Sizes
<1>3. A \in SUBSET General /\ Run(s, from) \subseteq A /\ \A k \in A : k \in Nat
  <2>. DEFINE c == s[from].count
  <2>1. c \in Nat /\ from + c <= NSlots
      BY <1>2
  <2>2. Run(s, from) = from .. from + c - 1
      BY DEF Run
  <2>. HIDE DEF c
  <2>3. to .. from + c - 1 \in SUBSET General /\ \A k \in to .. from + c - 1 : k \in Nat
      BY <1>1, <2>1, Sizes
  <2>4. from .. from + c - 1 \subseteq to .. from + c - 1
      BY <1>1, <2>1
  <2>. QED  BY <2>2, <2>3, <2>4 DEF c
<1>4. \A k \in Rest(s, from) : s[k] = Bare("FOLLOWER") /\ s[k].refs = 0 /\ s[k].status = "FOLLOWER"
    BY <1>1, RestFacts
<1>5. ASSUME NEW k \in A, k # from
      PROVE  /\ s[k].refs = 0 /\ s[k].status \notin InUse
             /\ k \in Run(s, from) \/ (k \in to .. from - 1 /\ s[k].status \in Idle)
  <2>1. CASE k < from
    <3>1. k \in to .. from - 1
        BY <1>1, <1>3, <2>1
    <3>2. s[k].status \in Idle
        BY <3>1 DEF Gap
    <3>3. s[k].status \notin InUse
        BY <3>2, Names
    <3>4. s[k].refs = 0
        BY <3>3, <1>3, SlotFacts
    <3>. QED  BY <3>1, <3>2, <3>3, <3>4
  <2>2. CASE ~ (k < from)
    <3>1. k \in Rest(s, from) /\ k \in Run(s, from)
        BY <1>1, <1>3, <1>5, <2>2 DEF Rest, Run
    <3>. QED  BY <3>1, <1>4, Names
  <2>. QED  BY <2>1, <2>2
<1>6. ASSUME NEW i \in General \ A, s[i].count # 0, NEW k \in Run(s, i), k \in A PROVE FALSE
  <2>1. i \in Nat /\ k \in Nat /\ i <= k
      BY <1>3, <1>6, SlotFacts, Sizes
  <2>2. i < to /\ to <= k
      BY <1>1, <1>2, <1>6, <2>1
  <2>. DEFINE c == s[i].count
  <2>3. c \in Nat /\ k \in i .. i + c - 1
      BY <1>6, SlotFacts, Sizes DEF Run
  <2>. HIDE DEF c
  <2>4. to \in i .. i + c - 1 /\ to # i
      BY <1>1, <2>1, <2>2, <2>3
  <2>5. to \in Rest(s, i)
      BY <2>4 DEF Rest, Run, c
  <2>6. s[i].status \notin InUse
      BY <1>1, <2>5, RestFacts, Names
  <2>7. s[i].status \in Idle
      BY <1>6, <2>6, SlotFacts, Names DEF Piece
  <2>8. i \in IdleSlots(s)
      BY <1>6, <2>7 DEF IdleSlots
  <2>. QED  BY <1>1, <2>1, <2>2, <2>8 DEF Gap
<1>7. ASSUME NEW i \in to .. from - 1, NEW k \in Rest(s, i) PROVE k \in i + 1 .. from - 1
  <2>1. i \in General /\ i < from /\ i \in Nat
      BY <1>1, Sizes
  <2>2. k \in General /\ i < k /\ k \in Nat
      BY <2>1, SlotFacts, Sizes
  <2>3. ASSUME from <= k PROVE FALSE
    <3>1. from \in Rest(s, i)
      <4>. DEFINE c == s[i].count
      <4>1. c \in Nat /\ k \in i .. i + c - 1
          BY <2>1, SlotFacts, Sizes DEF Run, Rest
      <4>. HIDE DEF c
      <4>2. from \in i .. i + c - 1 /\ from # i
          BY <1>1, <2>1, <2>2, <2>3, <4>1
      <4>. QED  BY <4>2 DEF Rest, Run, c
    <3>. QED  BY <1>2, <2>1, <3>1, RestFacts
  <2>. QED  BY <1>1, <2>1, <2>2, <2>3
<1>8. \A i \in to .. from - 1 : Rest(s, i) \subseteq i + 1 .. from - 1
    BY <1>7
<1>9. \A i \in General \ A : s[i].count # 0 => Run(s, i) \cap A = {}
    BY <1>6
<1>. HIDE DEF A
<1>. QED  BY <1>1, <1>2, <1>3, <1>4, <1>5, <1>8, <1>9 DEF A

LEMMA MovedWhole ==
    ASSUME NEW s, Table(s), Whole(s), NEW to, NEW from, Gap(s, to, from)
    PROVE  LET t == MoveGFXSlots(s, from, to)
               c == s[from].count
               A == to .. from + c - 1
           IN  /\ Table(t) /\ Whole(t)
               /\ t[to] = s[from]
               /\ \A k \in Slots \ A : t[k] = s[k]
               /\ \A k \in A : k # to => t[k].refs = 0
               /\ \A k \in to .. to + c - 1 : t[k].status \notin Idle
               /\ \A k \in to + c .. from + c - 1 : t[k].status \in Idle
<1>. DEFINE t == MoveGFXSlots(s, from, to)
            c == s[from].count
            A == to .. from + c - 1
            f == "FOLLOWER"
<1>1. /\ to \in Nat /\ from \in Nat /\ c \in Nat /\ c # 0
      /\ to \in General /\ from \in General /\ to < from /\ to \in Slots /\ from \in Slots
      /\ A \in SUBSET General /\ Run(s, from) = from .. from + c - 1
    BY GapFacts, Sizes DEF Run
<1>2. /\ \A k \in Rest(s, from) : s[k] = Bare(f)
      /\ \A k \in A : k # from => /\ s[k].refs = 0 /\ s[k].status \notin InUse
                                  /\ k \in Run(s, from) \/ (k \in to .. from - 1 /\ s[k].status \in Idle)
      /\ \A i \in General \ A : s[i].count # 0 => Run(s, i) \cap A = {}
      /\ \A i \in to .. from - 1 : Rest(s, i) \subseteq i + 1 .. from - 1
    BY GapFacts
<1>3. f \in Statuses /\ f \notin Idle
    BY Names
<1>. HIDE DEF t, f
<1>4. /\ Table(t) /\ t[to] = s[from]
      /\ \A j \in 0 .. c - 1 : t[to + j] = s[from + j]
      /\ \A k \in Slots : k \in Run(s, from) /\ k \notin to .. to + c - 1 => t[k] = NoSlot
      /\ \A k \in Slots : k \notin Run(s, from) /\ k \notin to .. to + c - 1 => t[k] = s[k]
  <2>1. to <= from /\ to \in Slots /\ from \in Slots
      BY <1>1
  <2>2. LET q == MoveGFXSlots(s, from, to)
            n == s[from].count
        IN  /\ Table(q)
            /\ n # 0 => q[to] = s[from]
            /\ \A j \in 0 .. n - 1 : q[to + j] = s[from + j]
            /\ \A k \in Slots : k \in Run(s, from) /\ k \notin to .. to + n - 1 => q[k] = NoSlot
            /\ \A k \in Slots : k \notin Run(s, from) /\ k \notin to .. to + n - 1 => q[k] = s[k]
      BY <2>1, MoveSet
  <2>3. c # 0
      BY <1>1
  <2>. QED  BY <2>2, <2>3, Zenon DEF t
<1>. HIDE DEF c
<1>5. ASSUME NEW k \in to + 1 .. to + c - 1
      PROVE  t[k] = Bare(f) /\ t[k].count = 0 /\ t[k].refs = 0 /\ t[k].status = f
  <2>1. (k - to) \in 0 .. c - 1 /\ to + (k - to) = k /\ from + (k - to) \in Rest(s, from)
      BY <1>1 DEF Rest
  <2>2. t[k] = s[from + (k - to)]
      BY <1>4, <2>1
  <2>. QED  BY <1>2, <1>3, <2>1, <2>2, BareRecord
<1>6. ASSUME NEW k \in to + c .. from + c - 1
      PROVE  /\ k \in A /\ t[k].status \in Idle /\ t[k].refs = 0
             /\ t[k] = NoSlot \/ (k \in to .. from - 1 /\ t[k] = s[k])
  <2>1. k \in A /\ k \in Slots /\ k \notin to .. to + c - 1 /\ k \in Nat
      BY <1>1, Sizes
  <2>2. CASE k \in Run(s, from)
      BY <1>4, <2>1, <2>2, BareFree, Names
  <2>3. CASE k \notin Run(s, from)
    <3>1. k # from
        BY <1>1, <2>3
    <3>2. k \in to .. from - 1 /\ s[k].status \in Idle /\ s[k].refs = 0
        BY <1>2, <2>1, <2>3, <3>1
    <3>. QED  BY <1>4, <2>1, <2>3, <3>2
  <2>. QED  BY <2>2, <2>3
<1>7. \A k \in A : k = to \/ k \in to + 1 .. to + c - 1 \/ k \in to + c .. from + c - 1
    BY <1>1
<1>8. /\ s[from].status \in InUse /\ s[from].count = c /\ Head(s[from])
  <2>1. s[from].status \in InUse
      BY DEF Gap, Heads
  <2>2. s[from].count = c
      BY DEF c
  <2>. QED  BY <1>1, <2>1, <2>2, SlotFacts
<1>9. Rest(t, to) = to + 1 .. to + c - 1
    BY <1>1, <1>4, <1>8 DEF Rest, Run
<1>10. Piece(t, to) /\ Head(t[to])
    BY <1>4, <1>5, <1>8, <1>9 DEF Piece, f
<1>11. ASSUME NEW i \in to + c .. from + c - 1, t[i].count # 0
       PROVE  Piece(t, i) /\ Head(t[i])
  <2>1. i \in to .. from - 1 /\ t[i] = s[i] /\ i \in General /\ i \in Nat
      BY <1>1, <1>6, <1>11, BareFree, Sizes
  <2>2. Rest(t, i) = Rest(s, i)
      BY <2>1 DEF Rest, Run
  <2>3. Piece(s, i) /\ Head(s[i])
      BY <1>11, <2>1, SlotFacts
  <2>4. ASSUME NEW k \in Rest(s, i) PROVE t[k] = s[k]
    <3>1. k \in i + 1 .. from - 1
        BY <1>2, <2>1
    <3>2. k \in Slots /\ k \notin Run(s, from) /\ k \notin to .. to + c - 1
        BY <1>1, <2>1, <3>1, Sizes
    <3>. QED  BY <1>4, <3>2
  <2>. QED  BY <2>1, <2>2, <2>3, <2>4 DEF Piece
<1>12. \A i \in A : t[i].count = 0 => Plain(t[i])
  <2>. SUFFICES ASSUME NEW i \in A, t[i].count = 0 PROVE Plain(t[i])
      OBVIOUS
  <2>1. CASE i = to
      BY <1>1, <1>4, <1>8, <2>1
  <2>2. CASE i \in to + 1 .. to + c - 1
      BY <1>5, <2>2 DEF Plain, f
  <2>3. CASE i \in to + c .. from + c - 1
    <3>1. CASE t[i] = NoSlot
        BY <3>1, BareFree DEF Plain
    <3>2. CASE i \in to .. from - 1 /\ t[i] = s[i]
        BY <1>1, <3>2 DEF Whole, Cut
    <3>. QED  BY <1>6, <2>3, <3>1, <3>2
  <2>. QED  BY <1>7, <2>1, <2>2, <2>3
<1>13. \A i \in A : t[i].count # 0 => Piece(t, i) /\ Head(t[i])
    BY <1>5, <1>7, <1>10, <1>11
<1>14. ASSUME NEW k \in A, t[k].status = "FOLLOWER"
       PROVE  \E i \in A : t[i].status \in InUse /\ k \in Rest(t, i)
  <2>1. k # to
      BY <1>4, <1>8, <1>14, Names
  <2>2. k \notin to + c .. from + c - 1
      BY <1>6, <1>14, Names
  <2>3. k \in Rest(t, to) /\ to \in A
      BY <1>1, <1>7, <1>9, <2>1, <2>2
  <2>. QED  BY <1>4, <1>8, <2>3
<1>15. \A k \in Slots \ A : t[k] = s[k]
    BY <1>1, <1>4
<1>16. \A i \in A : s[i].status \in InUse => Run(s, i) \subseteq A
    BY <1>1, <1>2
<1>. HIDE DEF A
<1>17. Whole(t)
    BY <1>1, <1>2, <1>4, <1>12, <1>13, <1>14, <1>15, <1>16, Replaced
<1>18. \A k \in A : k # to => t[k].refs = 0
    BY <1>5, <1>6, <1>7
<1>19. \A k \in to .. to + c - 1 : t[k].status \notin Idle
  <2>. TAKE k \in to .. to + c - 1
  <2>1. k = to \/ k \in to + 1 .. to + c - 1
      BY <1>1
  <2>. QED  BY <1>3, <1>4, <1>5, <1>8, <2>1, Names
<1>. QED  BY <1>4, <1>6, <1>15, <1>17, <1>18, <1>19 DEF A, c, t

\* As many slots are idle as before.
LEMMA MovedIdle ==
    ASSUME NEW s, Table(s), Whole(s), NEW to, NEW from, Gap(s, to, from)
    PROVE  Cardinality(IdleSlots(MoveGFXSlots(s, from, to))) = Cardinality(IdleSlots(s))
<1>. DEFINE t == MoveGFXSlots(s, from, to)
            c == s[from].count
            A == to .. from + c - 1
            X == IdleSlots(s) \ A
            B == to .. from - 1
            C == to + c .. from + c - 1
<1>1. /\ to \in Nat /\ from \in Nat /\ c \in Nat /\ c # 0
      /\ to \in General /\ from \in General /\ to < from /\ A \subseteq General
    BY GapFacts
<1>2. /\ \A k \in Slots \ A : t[k] = s[k]
      /\ \A k \in to .. to + c - 1 : t[k].status \notin Idle
      /\ \A k \in C : t[k].status \in Idle
    BY MovedWhole
<1>3. \A k \in B : s[k].status \in Idle
    BY DEF Gap
<1>4. \A k \in A : k \notin B => s[k].status \notin Idle
  <2>. SUFFICES ASSUME NEW k \in A, k \notin B PROVE s[k].status \notin Idle
      OBVIOUS
  <2>1. s[from].status \notin Idle
      BY Names DEF Gap, Heads
  <2>2. \A j \in Rest(s, from) : s[j].status = "FOLLOWER"
      BY <1>1, RestFacts DEF Gap, Heads
  <2>3. k = from \/ k \in Rest(s, from)
      BY <1>1 DEF Rest, Run
  <2>. QED  BY <2>1, <2>2, <2>3, Names
<1>. HIDE DEF c, t
<1>5. General \subseteq Slots /\ IsFiniteSet(General)
    BY Sizes, FS_Interval
<1>6. IdleSlots(s) = X \cup B /\ X \cap B = {}
    BY <1>1, <1>3, <1>4 DEF IdleSlots
<1>7. IdleSlots(t) = X \cup C /\ X \cap C = {}
  <2>1. \A k \in A : k \in C \/ k \in to .. to + c - 1
      BY <1>1
  <2>2. C \subseteq A
      BY <1>1
  <2>3. \A k \in General : k \in IdleSlots(t) <=> t[k].status \in Idle
      BY DEF IdleSlots
  <2>4. \A k \in General : k \in IdleSlots(s) <=> s[k].status \in Idle
      BY DEF IdleSlots
  <2>5. IdleSlots(t) \subseteq General /\ IdleSlots(s) \subseteq General
      BY DEF IdleSlots
  <2>6. \A k \in A : k \in IdleSlots(t) <=> k \in C
      BY <1>1, <1>2, <2>1, <2>2, <2>3
  <2>7. \A k \in General \ A : k \in IdleSlots(t) <=> k \in IdleSlots(s)
      BY <1>2, <1>5, <2>3, <2>4
  <2>. HIDE DEF A, C
  <2>. QED  BY <1>1, <2>2, <2>5, <2>6, <2>7
<1>8. /\ IsFiniteSet(B) /\ Cardinality(B) = from - to
      /\ IsFiniteSet(C) /\ Cardinality(C) = from - to
  <2>1. \A a, b \in Int : IsFiniteSet(a .. b) /\ Cardinality(a .. b) = IF a > b THEN 0 ELSE b - a + 1
      BY FS_Interval
  <2>2. to \in Int /\ from - 1 \in Int /\ to + c \in Int /\ from + c - 1 \in Int
      BY <1>1
  <2>3. IsFiniteSet(B) /\ Cardinality(B) = IF to > from - 1 THEN 0 ELSE from - 1 - to + 1
      BY <2>1, <2>2
  <2>4. /\ IsFiniteSet(C)
        /\ Cardinality(C) = IF to + c > from + c - 1 THEN 0 ELSE (from + c - 1) - (to + c) + 1
    <3>. DEFINE lo == to + c
                hi == from + c - 1
    <3>1. lo \in Int /\ hi \in Int
        BY <2>2
    <3>. HIDE DEF lo, hi
    <3>2. IsFiniteSet(lo .. hi) /\ Cardinality(lo .. hi) = IF lo > hi THEN 0 ELSE hi - lo + 1
        BY <2>1, <3>1
    <3>. QED  BY <3>2, Zenon DEF lo, hi
  <2>. HIDE DEF B, C
  <2>. QED  BY <1>1, <2>3, <2>4
<1>9. IsFiniteSet(X)
  <2>1. X \subseteq General
      BY DEF IdleSlots
  <2>. QED  BY <1>5, <2>1, FS_Subset
<1>. HIDE DEF X, B, C
<1>10. Cardinality(X \cup B) = Cardinality(X) + Cardinality(B) - Cardinality(X \cap B)
    BY <1>8, <1>9, FS_Union
<1>11. Cardinality(X \cup C) = Cardinality(X) + Cardinality(C) - Cardinality(X \cap C)
    BY <1>8, <1>9, FS_Union
<1>. QED  BY <1>6, <1>7, <1>8, <1>10, <1>11 DEF t

-----------------------------------------------------------------------------
(* Who holds a run, and who points at it.                                  *)

LEMMA HeldFinite ==
    ASSUME NEW es \in SUBSET Entities, NEW index, NEW i
    PROVE  /\ IsFiniteSet(HeldBy(index, es, i))
           /\ Cardinality(HeldBy(index, es, i)) \in Nat
           /\ Cardinality(HeldBy(index, es, i)) < RefLimit
           /\ Cardinality(HeldBy(index, es, i)) = 0 <=> HeldBy(index, es, i) = {}
<1>1. HeldBy(index, es, i) \in SUBSET Entities
    BY DEF HeldBy
<1>2. IsFiniteSet(HeldBy(index, es, i)) /\ Cardinality(HeldBy(index, es, i)) <= Cardinality(Entities)
    BY <1>1, Sizes, FS_Subset
<1>3. Cardinality(HeldBy(index, es, i)) \in Nat
    BY <1>2, FS_CardinalityType
<1>. QED  BY <1>2, <1>3, Sizes, FS_EmptySet

\* Whoever holds a general slot holds the head of a run in use.
LEMMA HolderFacts ==
    ASSUME NEW s, Table(s), Whole(s), NEW es \in SUBSET Entities, NEW index, NEW leak,
           Referred(s, index, es, leak), NEW e \in es, index[e] \in General
    PROVE  index[e] \in Heads(s) /\ s[index[e]].refs # 0
<1>. DEFINE i == index[e]
<1>1. e \in HeldBy(index, es, i)
    BY DEF HeldBy
<1>2. Cardinality(HeldBy(index, es, i)) # 0 /\ Cardinality(HeldBy(index, es, i)) \in Nat
    BY <1>1, HeldFinite
<1>3. Cardinality(HeldBy(index, es, i)) <= s[i].refs
    BY DEF Referred
<1>4. s[i].refs \in Nat
    BY SlotFacts, Sizes
<1>5. s[i].refs # 0
    BY <1>2, <1>3, <1>4
<1>. QED  BY <1>5, SlotFacts DEF Heads

\* A slot without references is held by nobody.
LEMMA NotHeld ==
    ASSUME NEW s, NEW es \in SUBSET Entities, NEW index, NEW leak,
           Referred(s, index, es, leak), NEW i \in General, s[i].refs = 0
    PROVE  HeldBy(index, es, i) = {}
<1>1. Cardinality(HeldBy(index, es, i)) <= 0
    BY DEF Referred
<1>. QED  BY <1>1, HeldFinite

\* References and what is pointed at follow a move.
LEMMA MovedReferred ==
    ASSUME NEW s, Table(s), Whole(s), NEW to, NEW from, Gap(s, to, from),
           NEW linked, NEW es \in SUBSET Entities, es \subseteq linked,
           NEW index, NEW leak, Referred(s, index, es, leak)
    PROVE  Referred(MoveGFXSlots(s, from, to), Moved(index, linked, from, to), es, leak)
<1>. DEFINE t == MoveGFXSlots(s, from, to)
            ix == Moved(index, linked, from, to)
            A == to .. from + s[from].count - 1
<1>1. /\ to \in Nat /\ from \in Nat /\ to < from /\ to \in General /\ from \in General
      /\ \A k \in A : k # from => s[k].refs = 0
      /\ from \in A /\ to \in A
  <2>1. /\ to \in Nat /\ from \in Nat /\ to < from /\ to \in General /\ from \in General
        /\ s[from].count \in Nat /\ s[from].count # 0
        /\ \A k \in A : k # from => s[k].refs = 0
      BY GapFacts
  <2>. QED  BY <2>1
<1>2. /\ t[to] = s[from]
      /\ \A k \in Slots \ A : t[k] = s[k]
      /\ \A k \in A : k # to => t[k].refs = 0
    BY MovedWhole
<1>3. \A e \in es : ix[e] = IF index[e] = from THEN to ELSE index[e]
    BY DEF Moved
<1>. HIDE DEF t, ix, A
<1>4. HeldBy(index, es, to) = {}
    BY <1>1, NotHeld
<1>5. HeldBy(ix, es, to) = HeldBy(index, es, from)
    BY <1>1, <1>3, <1>4 DEF HeldBy
<1>6. HeldBy(ix, es, from) = {}
    BY <1>1, <1>3 DEF HeldBy
<1>7. \A i \in General : i # to /\ i # from => HeldBy(ix, es, i) = HeldBy(index, es, i)
    BY <1>3 DEF HeldBy
<1>8. ASSUME NEW i \in General
      PROVE  /\ Cardinality(HeldBy(ix, es, i)) <= t[i].refs
             /\ ~leak => Cardinality(HeldBy(ix, es, i)) = t[i].refs
  <2>0. Cardinality({}) = 0
      BY FS_EmptySet
  <2>1. CASE i = to
      BY <1>1, <1>2, <1>5, <2>1 DEF Referred
  <2>2. CASE i = from
      BY <1>1, <1>2, <1>6, <2>0, <2>2
  <2>3. CASE i \in A /\ i # to /\ i # from
    <3>1. HeldBy(ix, es, i) = {} /\ t[i].refs = 0
        BY <1>1, <1>2, <1>7, <2>3, NotHeld
    <3>. QED  BY <2>0, <3>1
  <2>4. CASE i \notin A
    <3>1. t[i] = s[i] /\ HeldBy(ix, es, i) = HeldBy(index, es, i)
        BY <1>1, <1>2, <1>7, <2>4, Sizes
    <3>. QED  BY <3>1 DEF Referred
  <2>. QED  BY <2>1, <2>2, <2>3, <2>4
<1>. QED  BY <1>8 DEF Referred, t, ix

LEMMA MovedPointing ==
    ASSUME NEW s, Table(s), Whole(s), NEW to, NEW from, Gap(s, to, from),
           NEW linked, NEW es \in SUBSET Entities, es \subseteq linked,
           NEW index \in [Entities -> Slots], NEW offset \in [Entities -> Slots],
           NEW leak, Referred(s, index, es, leak),
           NEW pc, NEW ln, Pointing(s, index, offset, es, pc, ln)
    PROVE  Pointing(MoveGFXSlots(s, from, to), Moved(index, linked, from, to),
                    MovedOffset(offset, linked, Run(s, from), from, to), es, pc, ln)
<1>. DEFINE t == MoveGFXSlots(s, from, to)
            ix == Moved(index, linked, from, to)
            of == MovedOffset(offset, linked, Run(s, from), from, to)
            A == to .. from + s[from].count - 1
<1>1. /\ to \in Nat /\ from \in Nat /\ to < from /\ to \in General /\ from \in General
      /\ s[from].count \in Nat /\ s[from].count # 0
      /\ \A k \in A : k # from => s[k].refs = 0
      /\ Run(s, from) \subseteq A
    BY GapFacts
<1>2. t[to] = s[from] /\ \A k \in Slots \ A : t[k] = s[k]
    BY MovedWhole
<1>3. \A e \in es : /\ ix[e] = IF index[e] = from THEN to ELSE index[e]
                    /\ of[e] = IF offset[e] \in Run(s, from) THEN offset[e] - from + to ELSE offset[e]
    BY DEF Moved, MovedOffset
<1>4. from \in Run(s, from) /\ from - from + to = to
    BY <1>1 DEF Run
<1>5. ASSUME NEW e \in es, index[e] \in General, index[e] # from
      PROVE  index[e] \notin A /\ t[index[e]] = s[index[e]] /\ index[e] \notin Run(s, from)
  <2>1. s[index[e]].refs # 0
      BY <1>5, HolderFacts
  <2>. HIDE DEF A
  <2>. QED  BY <1>1, <1>2, <1>5, <2>1, Sizes
<1>. HIDE DEF t, ix, of, A
\* Who holds a run, himself or through his lender.
<1>6. ASSUME NEW e \in es, NEW x \in es, index[x] \in General, offset[e] = index[x]
      PROVE  ix[x] \in General /\ of[e] = ix[x] /\ t[ix[x]].src = s[index[x]].src
  <2>1. CASE index[x] = from
      BY <1>1, <1>2, <1>3, <1>4, <1>6, <2>1
  <2>2. CASE index[x] # from
      BY <1>3, <1>5, <1>6, <2>2
  <2>. QED  BY <2>1, <2>2
<1>7. \A e \in es : ix[e] \in General => index[e] \in General
    BY <1>1, <1>3
<1>8. ASSUME NEW e \in es
      PROVE  /\ ix[e] \in General => of[e] = ix[e] /\ ln[e] = None
             /\ ln[e] = None /\ pc[e] # None => ix[e] \in General /\ t[ix[e]].src = pc[e]
             /\ ln[e] # None => /\ pc[e] = None /\ ln[e] \in es
                                /\ ix[ln[e]] \in General /\ of[e] = ix[ln[e]]
    BY <1>6, <1>7 DEF Pointing
<1>. QED  BY <1>8 DEF Pointing, t, ix, of

-----------------------------------------------------------------------------
(* The loop again: a pool with an idle slot is never lost.                 *)

\* Each turn leaves the table whole, the holders of runs and the number of
\* idle slots as they are, and no idle slot behind itself.
Kept(mem, linked, es, leak, pc, ln, t) ==
    /\ Whole(t.mem.slots)
    /\ \A k \in Reserved .. t.at - 1 : t.mem.slots[k].status \notin Idle
    /\ Referred(t.mem.slots, t.mem.index, es, leak)
    /\ Pointing(t.mem.slots, t.mem.index, t.mem.offset, es, pc, ln)
    /\ Cardinality(IdleSlots(t.mem.slots)) = Cardinality(IdleSlots(mem.slots))
    /\ \A e \in Entities :
         /\ e \notin linked => t.mem.index[e] = mem.index[e] /\ t.mem.offset[e] = mem.offset[e]
         /\ mem.index[e] \notin General => t.mem.index[e] = mem.index[e]
    /\ t.mem = mem \/ t.mem.unk_3 = 1

LEMMA IdleFinite ==
    ASSUME NEW s
    PROVE  /\ IsFiniteSet(IdleSlots(s)) /\ Cardinality(IdleSlots(s)) \in Nat
           /\ Cardinality(IdleSlots(s)) = 0 <=> IdleSlots(s) = {}
<1>1. IsFiniteSet(General)
    BY Sizes, FS_Interval
<1>2. IdleSlots(s) \in SUBSET General
    BY DEF IdleSlots
<1>3. IsFiniteSet(IdleSlots(s))
    BY <1>1, <1>2, FS_Subset
<1>. QED  BY <1>3, FS_CardinalityType, FS_EmptySet

\* Between the first idle slot and the next run in use all slots are idle.
LEMMA GapFound ==
    ASSUME NEW s, Table(s), Whole(s), NEW to \in IdleSlots(s), \A k \in IdleSlots(s) : to <= k,
           NEW hi \in Slots, \A k \in to .. hi : s[k].status \notin InUse
    PROVE  \A k \in to .. hi : s[k].status \in Idle
<1>1. to \in General /\ to \in Nat /\ hi \in Nat /\ s[to].status \in Idle
    BY Sizes DEF IdleSlots
<1>2. SUFFICES ASSUME NEW k \in to .. hi, s[k].status \notin Idle PROVE FALSE
    OBVIOUS
<1>3. k \in General /\ k \in Nat /\ to < k
    BY <1>1, <1>2, Sizes
<1>4. s[k].status = "FOLLOWER"
    BY <1>2, <1>3, SlotFacts
<1>5. PICK i \in General : s[i].status \in InUse /\ k \in Rest(s, i)
    BY <1>3, <1>4 DEF Whole, Cut
<1>6. i < k /\ i \in Nat
    BY <1>5, SlotFacts, Sizes
<1>7. i < to
    BY <1>1, <1>3, <1>5, <1>6
<1>8. to \in Rest(s, i)
  <2>. DEFINE c == s[i].count
  <2>1. c \in Nat /\ k \in i .. i + c - 1
      BY <1>5, SlotFacts, Sizes DEF Rest, Run
  <2>. HIDE DEF c
  <2>2. to \in i .. i + c - 1 /\ to # i
      BY <1>1, <1>3, <1>6, <1>7, <2>1
  <2>. QED  BY <2>2 DEF Rest, Run, c
<1>. QED  BY <1>1, <1>5, <1>8, RestFacts, Names

LEMMA TurnKeeps ==
    ASSUME NEW mem, IdleSlots(mem.slots) # {},
           NEW linked, NEW es \in SUBSET Entities, es \subseteq linked, NEW leak, NEW pc, NEW ln,
           NEW t \in Turns, Kept(mem, linked, es, leak, pc, ln, t)
    PROVE  /\ Kept(mem, linked, es, leak, pc, ln, CleanUpTurn(linked, t))
           /\ FindNextOccupiedGFXSlot(t.mem.slots, t.at) # 0 => t.at < CleanUpTurn(linked, t).at
<1>. DEFINE r == CleanUpTurn(linked, t)
            s == t.mem.slots
            at == t.at
            occ == FindNextOccupiedGFXSlot(s, at)
            free == FindFirstFreeGFXSlot(s)
<1>1. /\ \/ occ = 0 /\ r = t
         \/ /\ occ # 0 /\ free <= occ /\ free \in Slots /\ occ \in at .. NSlots - 2
            /\ r.mem = MoveRun(t.mem, linked, occ, free) /\ r.at = free + 1
         \/ /\ occ # 0 /\ ~ (free <= occ) /\ occ \in at .. NSlots - 2
            /\ r.mem = t.mem /\ r.at = occ + 1
    BY TurnCases
<1>2. Memory(t.mem) /\ Table(s) /\ at \in Nat /\ at # 0
    BY Sizes DEF Turns, Memory
<1>3. Whole(s) /\ \A k \in Reserved .. at - 1 : s[k].status \notin Idle
    BY DEF Kept
<1>4. IdleSlots(s) # {}
  <2>1. Cardinality(IdleSlots(s)) = Cardinality(IdleSlots(mem.slots))
      BY DEF Kept
  <2>. QED  BY <2>1, IdleFinite
<1>5. free \in IdleSlots(s) /\ (\A k \in IdleSlots(s) : free <= k) /\ free \in Nat /\ at <= free
  <2>1. free \in IdleSlots(s) /\ \A k \in IdleSlots(s) : free <= k
      BY <1>4, FreeSlotFound
  <2>2. free \in General /\ s[free].status \in Idle
      BY <2>1 DEF IdleSlots
  <2>. HIDE DEF free, s, at
  <2>. QED  BY <1>2, <1>3, <2>1, <2>2, Sizes
<1>6. occ # 0 => /\ occ \in at .. NSlots - 2 /\ s[occ].status \in InUse
                 /\ \A k \in at .. occ - 1 : s[k].status \notin InUse
    BY <1>2, OccupiedFound
<1>. HIDE DEF r, s, at, occ, free
<1>7. CASE occ = 0
    BY <1>1, <1>7 DEF r, occ, s, at
<1>8. CASE occ # 0 /\ ~ (free <= occ)
  <2>1. r.mem = t.mem /\ r.at = occ + 1 /\ occ \in at .. NSlots - 2 /\ at < r.at
      BY <1>1, <1>2, <1>8, Sizes
  <2>2. ASSUME NEW k \in Reserved .. r.at - 1 PROVE s[k].status \notin Idle
    <3>1. k \in General /\ k <= occ /\ k \in Nat
        BY <1>2, <2>1, Sizes
    <3>2. k \notin IdleSlots(s)
        BY <1>2, <1>5, <1>8, <2>1, <3>1, Sizes
    <3>. QED  BY <3>1, <3>2 DEF IdleSlots
  <2>3. Kept(mem, linked, es, leak, pc, ln, r)
      BY <2>1, <2>2 DEF Kept, s
  <2>. QED  BY <2>1, <2>3 DEF r, occ, s, at
<1>9. CASE occ # 0 /\ free <= occ
  <2>1. /\ r.mem = MoveRun(t.mem, linked, occ, free) /\ r.at = free + 1
        /\ occ \in Nat /\ occ \in Slots /\ free \in Slots /\ at <= occ
      BY <1>1, <1>2, <1>9, Sizes
  <2>2. s[occ].status \in InUse /\ \A k \in at .. occ - 1 : s[k].status \notin InUse
      BY <1>6, <1>9
  <2>3. occ \in General
    <3>1. occ \notin 0 .. Reserved - 1
        BY <1>3, <2>2, Names DEF Whole, Cut
    <3>. QED  BY <2>1, <3>1, Sizes
  <2>4. free # occ /\ free < occ
    <3>1. s[free].status \in Idle
        BY <1>5 DEF IdleSlots
    <3>2. free # occ
        BY <2>2, <3>1, Names
    <3>. QED  BY <1>5, <1>9, <2>1, <3>2
  <2>5. \A k \in free .. occ - 1 : s[k].status \in Idle
    <3>. DEFINE hi == occ - 1
    <3>1. hi \in Slots /\ \A k \in free .. hi : s[k].status \notin InUse
        BY <1>2, <1>5, <2>1, <2>2, <2>4, Sizes
    <3>. HIDE DEF hi
    <3>2. \A k \in free .. hi : s[k].status \in Idle
        BY <1>2, <1>3, <1>5, <3>1, GapFound
    <3>. QED  BY <3>2 DEF hi
  <2>6. Gap(s, free, occ)
      BY <1>5, <2>2, <2>3, <2>4, <2>5 DEF Gap, Heads
  <2>. DEFINE q == MoveRun(t.mem, linked, occ, free)
              u == MoveGFXSlots(s, occ, free)
              ix == Moved(t.mem.index, linked, occ, free)
              of == MovedOffset(t.mem.offset, linked, Run(s, occ), occ, free)
              c == s[occ].count
  <2>7. q.slots = u /\ q.unk_3 = 1 /\ q.index = ix /\ q.offset = of
    <3>. DEFINE y == t.mem
    <3>1. free <= occ /\ free \in Slots /\ occ \in Slots /\ Memory(y) /\ s = y.slots
        BY <1>2, <1>9, <2>1 DEF s
    <3>. HIDE DEF y
    <3>2. Memo(MoveRun(y, linked, occ, free), MoveGFXSlots(y.slots, occ, free), 1,
               Moved(y.index, linked, occ, free),
               MovedOffset(y.offset, linked, Run(y.slots, occ), occ, free))
        BY <3>1, MoveRunIs
    <3>. QED  BY <3>1, <3>2 DEF Memo, y
  <2>8. /\ Whole(u) /\ \A k \in free .. free + c - 1 : u[k].status \notin Idle
        /\ \A k \in Slots \ (free .. occ + c - 1) : u[k] = s[k]
      BY <1>2, <1>3, <2>6, MovedWhole
  <2>9. c \in Nat /\ c # 0
      BY <1>2, <1>3, <2>6, GapFacts
  <2>10. Cardinality(IdleSlots(u)) = Cardinality(IdleSlots(mem.slots))
    <3>1. Cardinality(IdleSlots(u)) = Cardinality(IdleSlots(s))
        BY <1>2, <1>3, <2>6, MovedIdle
    <3>2. Cardinality(IdleSlots(s)) = Cardinality(IdleSlots(mem.slots))
        BY DEF Kept, s
    <3>. QED  BY <3>1, <3>2
  <2>11. Referred(u, ix, es, leak)
    <3>1. Referred(s, t.mem.index, es, leak)
        BY DEF Kept, s
    <3>. QED  BY <1>2, <1>3, <2>6, <3>1, MovedReferred
  <2>12. Pointing(u, ix, of, es, pc, ln)
    <3>. DEFINE index == t.mem.index
                offset == t.mem.offset
    <3>1. Referred(s, index, es, leak) /\ Pointing(s, index, offset, es, pc, ln)
        BY DEF Kept, s
    <3>2. index \in [Entities -> Slots] /\ offset \in [Entities -> Slots]
        BY <1>2, MemoryType DEF Memory
    <3>. HIDE DEF index, offset
    <3>3. Pointing(MoveGFXSlots(s, occ, free), Moved(index, linked, occ, free),
                   MovedOffset(offset, linked, Run(s, occ), occ, free), es, pc, ln)
        BY <1>2, <1>3, <2>6, <3>1, <3>2, MovedPointing
    <3>. QED  BY <3>3 DEF index, offset
  <2>13. \A e \in Entities :
          /\ e \notin linked => ix[e] = t.mem.index[e] /\ of[e] = t.mem.offset[e]
          /\ t.mem.index[e] \notin General => ix[e] = t.mem.index[e]
      BY <2>3 DEF Moved, MovedOffset
  <2>14. \A e \in Entities :
          /\ e \notin linked => ix[e] = mem.index[e] /\ of[e] = mem.offset[e]
          /\ mem.index[e] \notin General => ix[e] = mem.index[e]
      BY <2>13 DEF Kept
  <2>. HIDE DEF q, u, ix, of, c
  <2>15. ASSUME NEW k \in Reserved .. r.at - 1 PROVE u[k].status \notin Idle
    <3>1. CASE k = free
        BY <1>5, <2>8, <2>9, <3>1
    <3>2. CASE k # free
      <4>1. k \in General /\ k < free /\ k \in Nat
          BY <1>5, <2>1, <3>2, Sizes
      <4>2. k \notin IdleSlots(s)
          BY <1>5, <4>1
      <4>3. u[k] = s[k]
          BY <1>5, <2>8, <4>1, Sizes
      <4>. QED  BY <4>1, <4>2, <4>3 DEF IdleSlots
    <3>. QED  BY <3>1, <3>2
  <2>16. r.mem = q
      BY <2>1 DEF q
  <2>17. Kept(mem, linked, es, leak, pc, ln, r)
      BY <2>7, <2>8, <2>10, <2>11, <2>12, <2>14, <2>15, <2>16 DEF Kept
  <2>18. at < r.at
      BY <1>2, <1>5, <2>1
  <2>. QED  BY <2>17, <2>18 DEF r, occ, s, at
<1>. QED  BY <1>7, <1>8, <1>9

\* Cleaning up a pool with an idle slot: at the end nothing is in use behind
\* the slot that the loop has come to, but perhaps the last slot.
LEMMA CleanUpKept ==
    ASSUME NEW mem, Memory(mem), Whole(mem.slots), IdleSlots(mem.slots) # {},
           NEW linked, NEW es \in SUBSET Entities, es \subseteq linked, NEW leak, NEW pc, NEW ln,
           Referred(mem.slots, mem.index, es, leak),
           Pointing(mem.slots, mem.index, mem.offset, es, pc, ln)
    PROVE  \E t \in Turns : /\ CleanUpGFXSlots(mem, linked) = t.mem
                            /\ Kept(mem, linked, es, leak, pc, ln, t)
                            /\ FindNextOccupiedGFXSlot(t.mem.slots, t.at) = 0
<1>. DEFINE J == {t \in Turns : Kept(mem, linked, es, leak, pc, ln, t)}
            start == [mem |-> mem, at |-> Reserved]
<1>1. start \in J
  <2>1. start \in Turns /\ start.mem = mem /\ start.at = Reserved
      BY Sizes DEF Turns, Memory
  <2>2. Reserved .. Reserved - 1 = {}
      BY Sizes
  <2>. HIDE DEF start
  <2>. QED  BY <2>1, <2>2 DEF Kept
<1>2. \A t \in Turns : t \in J => CleanUpTurn(linked, t) \in J
  <2>. TAKE t \in Turns
  <2>. HAVE t \in J
  <2>1. CleanUpTurn(linked, t) \in Turns
      BY TurnCases
  <2>. QED  BY <2>1, TurnKeeps
<1>3. \A t \in Turns : t \in J /\ FindNextOccupiedGFXSlot(t.mem.slots, t.at) # 0 =>
               t.at < CleanUpTurn(linked, t).at
    BY TurnKeeps
<1>4. \A t : t \in J => Kept(mem, linked, es, leak, pc, ln, t)
    OBVIOUS
<1>. HIDE DEF J
<1>5. \E t \in Turns : /\ t \in J /\ CleanUpGFXSlots(mem, linked) = t.mem
                       /\ FindNextOccupiedGFXSlot(t.mem.slots, t.at) = 0
    BY <1>1, <1>2, <1>3, CleanUpEnds
<1>. QED  BY <1>4, <1>5

\* Cleaning up a pool without an idle slot: if anything is moved, then onto
\* the first reserved slot, where some run stays.
LEMMA CleanUpFull ==
    ASSUME NEW mem, Memory(mem), Whole(mem.slots), IdleSlots(mem.slots) = {}, NEW linked
    PROVE  \/ CleanUpGFXSlots(mem, linked) = mem
           \/ CleanUpGFXSlots(mem, linked).slots[0].status \in InUse
<1>. DEFINE J == {t \in Turns : t.mem = mem \/ t.mem.slots[0].status \in InUse}
<1>1. [mem |-> mem, at |-> Reserved] \in J
    BY Sizes DEF Turns, Memory
<1>2. ASSUME NEW t \in Turns, t \in J PROVE CleanUpTurn(linked, t) \in J
  <2>. DEFINE r == CleanUpTurn(linked, t)
              s == t.mem.slots
              occ == FindNextOccupiedGFXSlot(s, t.at)
              free == FindFirstFreeGFXSlot(s)
  <2>1. /\ r \in Turns
        /\ \/ occ = 0 /\ r = t
           \/ /\ occ # 0 /\ free <= occ /\ free \in Slots /\ occ \in t.at .. NSlots - 2
              /\ r.mem = MoveRun(t.mem, linked, occ, free) /\ r.at = free + 1
           \/ /\ occ # 0 /\ ~ (free <= occ) /\ occ \in t.at .. NSlots - 2
              /\ r.mem = t.mem /\ r.at = occ + 1
      BY TurnCases
  <2>2. Memory(t.mem) /\ Table(s) /\ t.at \in Nat /\ t.at # 0
      BY Sizes DEF Turns, Memory
  <2>3. occ # 0 => s[occ].status \in InUse
      BY <2>2, OccupiedFound
  <2>4. free = 0 \/ free \in General
      BY FreeSlotFound DEF IdleSlots
  <2>5. t.mem = mem => free = 0
      BY FreeSlotFound
  <2>. HIDE DEF r, s, occ, free
  <2>6. CASE r.mem = t.mem
      BY <1>2, <2>1, <2>6 DEF r
  <2>7. CASE occ # 0 /\ free <= occ /\ r.mem = MoveRun(t.mem, linked, occ, free)
    <3>. DEFINE y == t.mem
                u == MoveGFXSlots(s, occ, free)
    <3>1. /\ free <= occ /\ free \in Slots /\ occ \in Slots /\ Memory(y) /\ s = y.slots
          /\ occ \in Nat /\ free \in Nat
        BY <2>1, <2>2, <2>4, <2>7, Sizes DEF s
    <3>2. y = mem => s[occ].count # 0
      <4>. SUFFICES ASSUME y = mem PROVE s[occ].count # 0
          OBVIOUS
      <4>1. s = mem.slots /\ s[occ].status \in InUse
          BY <2>3, <2>7 DEF s
      <4>2. occ \in General
        <5>1. occ \notin 0 .. Reserved - 1
            BY <4>1, Names DEF Whole, Cut
        <5>. QED  BY <3>1, <5>1, Sizes
      <4>. QED  BY <2>2, <4>1, <4>2, SlotFacts
    <3>3. y = mem \/ s[0].status \in InUse
        BY <1>2 DEF s
    <3>. HIDE DEF y
    <3>4. Memo(MoveRun(y, linked, occ, free), MoveGFXSlots(y.slots, occ, free), 1,
               Moved(y.index, linked, occ, free),
               MovedOffset(y.offset, linked, Run(y.slots, occ), occ, free))
        BY <3>1, MoveRunIs
    <3>5. r.mem.slots = u
        BY <2>7, <3>1, <3>4 DEF Memo, y
    <3>6. LET n == s[occ].count
          IN  /\ n # 0 => u[free] = s[occ]
              /\ \A k \in Slots : k \notin Run(s, occ) /\ k \notin free .. free + n - 1 => u[k] = s[k]
        BY <2>2, <3>1, MoveSet
    <3>7. u[0].status \in InUse
      <4>1. CASE free = 0 /\ s[occ].count # 0
          BY <2>3, <2>7, <3>6, <4>1
      <4>2. CASE free # 0 \/ s[occ].count = 0
        <5>1. s[0].status \in InUse
            BY <2>5, <3>2, <3>3, <4>2 DEF y
        <5>. DEFINE n == s[occ].count
        <5>2. n \in Nat /\ (free # 0 \/ n = 0)
            BY <2>2, <3>1, <4>2, RecordType, Sizes DEF Table
        <5>. HIDE DEF n
        <5>3. 0 \notin occ .. occ + n - 1 /\ 0 \notin free .. free + n - 1
            BY <2>7, <3>1, <5>2, Sizes
        <5>4. 0 \notin Run(s, occ) /\ 0 \notin free .. free + s[occ].count - 1 /\ 0 \in Slots
            BY <5>3, Sizes DEF Run, n
        <5>5. u[0] = s[0]
            BY <3>6, <5>4
        <5>. QED  BY <5>1, <5>5
      <4>. QED  BY <4>1, <4>2
    <3>. QED  BY <2>1, <3>5, <3>7 DEF r
  <2>. QED  BY <2>1, <2>6, <2>7
<1>3. \A t \in Turns : t \in J => CleanUpTurn(linked, t) \in J
    BY <1>2
<1>4. \A t : t \in J => t.mem = mem \/ t.mem.slots[0].status \in InUse
    OBVIOUS
<1>. HIDE DEF J
<1>5. \E t \in Turns : t \in J /\ CleanUpGFXSlots(mem, linked) = t.mem
    BY <1>1, <1>3, CleanUpKeeps
<1>. QED  BY <1>4, <1>5

\* What a cleanup keeps, unless the reserved slots were hit.
Cleaned(mem, linked, es, leak, pc, ln, clean) ==
    /\ Whole(clean.slots)
    /\ Referred(clean.slots, clean.index, es, leak)
    /\ Pointing(clean.slots, clean.index, clean.offset, es, pc, ln)
    /\ Cardinality(IdleSlots(clean.slots)) = Cardinality(IdleSlots(mem.slots))
    /\ \A e \in Entities :
         /\ e \notin linked => clean.index[e] = mem.index[e] /\ clean.offset[e] = mem.offset[e]
         /\ mem.index[e] \notin General => clean.index[e] = mem.index[e]
    /\ clean = mem \/ clean.unk_3 = 1

LEMMA CleanUpSound ==
    ASSUME NEW mem, Memory(mem), Whole(mem.slots),
           NEW linked, NEW es \in SUBSET Entities, es \subseteq linked, NEW leak, NEW pc, NEW ln,
           Referred(mem.slots, mem.index, es, leak),
           Pointing(mem.slots, mem.index, mem.offset, es, pc, ln)
    PROVE  LET clean == CleanUpGFXSlots(mem, linked) IN
           /\ clean.slots[0].status = "PALETTE" => Cleaned(mem, linked, es, leak, pc, ln, clean)
           /\ IdleSlots(mem.slots) # {} => Cleaned(mem, linked, es, leak, pc, ln, clean)
<1>. DEFINE clean == CleanUpGFXSlots(mem, linked)
<1>1. CASE IdleSlots(mem.slots) # {}
  <2>1. PICK t \in Turns : clean = t.mem /\ Kept(mem, linked, es, leak, pc, ln, t)
      BY <1>1, CleanUpKept
  <2>. QED  BY <2>1 DEF Kept, Cleaned
<1>2. CASE IdleSlots(mem.slots) = {} /\ clean.slots[0].status = "PALETTE"
  <2>1. clean = mem
      BY <1>2, CleanUpFull, Names
  <2>. HIDE DEF clean
  <2>. QED  BY <2>1 DEF Cleaned, clean
<1>. QED  BY <1>1, <1>2

\* No gap is left, so as many slots as are idle are found.
LEMMA CleanUpPacks ==
    ASSUME NEW mem, Memory(mem), Whole(mem.slots),
           NEW linked, NEW es \in SUBSET Entities, es \subseteq linked, NEW leak, NEW pc, NEW ln,
           Referred(mem.slots, mem.index, es, leak),
           Pointing(mem.slots, mem.index, mem.offset, es, pc, ln),
           NEW n \in 1 .. NSlots, n <= Cardinality(IdleSlots(mem.slots))
    PROVE  FindFreeGFXSlots(CleanUpGFXSlots(mem, linked).slots, n) # 0
<1>. DEFINE clean == CleanUpGFXSlots(mem, linked)
            s == clean.slots
            X == IdleSlots(s)
<1>1. IdleSlots(mem.slots) # {}
  <2>1. Cardinality(IdleSlots(mem.slots)) # 0
      BY Sizes, IdleFinite
  <2>. QED  BY <2>1, IdleFinite
<1>2. PICK t \in Turns : /\ clean = t.mem /\ Kept(mem, linked, es, leak, pc, ln, t)
                         /\ FindNextOccupiedGFXSlot(t.mem.slots, t.at) = 0
    BY <1>1, CleanUpKept
<1>3. Table(s) /\ Whole(s) /\ t.at \in Nat /\ t.at # 0 /\ t.mem.slots = s
    BY <1>2, Sizes DEF Turns, Kept
<1>4. \A k \in t.at .. NSlots - 2 : s[k].status \notin InUse
    BY <1>2, <1>3, OccupiedFound
<1>5. Cardinality(X) = Cardinality(IdleSlots(mem.slots)) /\ n <= Cardinality(X)
    BY <1>2 DEF Kept
<1>6. X # {} /\ X \subseteq General /\ IsFiniteSet(X) /\ X \in SUBSET Nat
  <2>1. X \subseteq General
      BY DEF IdleSlots
  <2>2. General \subseteq Nat
      BY Sizes
  <2>3. IsFiniteSet(X) /\ (Cardinality(X) = 0 <=> X = {})
      BY IdleFinite
  <2>. HIDE DEF clean, s, X
  <2>4. Cardinality(X) # 0
      BY <1>5, Sizes
  <2>. QED  BY <2>1, <2>2, <2>3, <2>4
<1>. DEFINE lo == Min(X)
<1>7. lo \in X /\ \A k \in X : lo <= k
    BY <1>6, MinOf
<1>8. \A k \in Reserved .. t.at - 1 : s[k].status \notin Idle
    BY <1>2 DEF Kept
<1>9. \A k \in X : s[k].status \in Idle
    BY DEF IdleSlots
<1>. HIDE DEF clean, s, X, lo
<1>10. lo \in General /\ t.at <= lo /\ lo \in Nat
    BY <1>3, <1>6, <1>7, <1>8, <1>9, Sizes
<1>11. \A k \in lo .. NSlots - 2 : s[k].status \in Idle
  <2>. DEFINE hi == NSlots - 2
  <2>1. hi \in Slots /\ \A k \in lo .. hi : s[k].status \notin InUse
      BY <1>3, <1>4, <1>10, Sizes
  <2>. HIDE DEF hi
  <2>2. \A k \in lo .. hi : s[k].status \in Idle
      BY <1>3, <1>7, <2>1, GapFound DEF X
  <2>. QED  BY <2>2 DEF hi
\* The idle slots reach to top.
<1>. DEFINE top == IF NSlots - 1 \in X THEN NSlots - 1 ELSE NSlots - 2
<1>12. top \in Int /\ top < NSlots /\ X \subseteq lo .. top /\ \A k \in lo .. top : s[k].status \in Idle
    BY <1>6, <1>7, <1>9, <1>10, <1>11, Sizes
<1>. HIDE DEF top
<1>13. Cardinality(X) <= Cardinality(lo .. top) /\ IsFiniteSet(lo .. top)
  <2>. DEFINE D == lo .. top
  <2>1. IsFiniteSet(D)
      BY <1>10, <1>12, FS_Interval
  <2>2. X \in SUBSET D
      BY <1>12
  <2>. HIDE DEF D
  <2>3. Cardinality(X) <= Cardinality(D)
      BY <2>1, <2>2, FS_Subset
  <2>. QED  BY <2>1, <2>3 DEF D
<1>14. n <= top - lo + 1
  <2>1. Cardinality(lo .. top) = IF lo > top THEN 0 ELSE top - lo + 1
      BY <1>10, <1>12, FS_Interval
  <2>2. Cardinality(X) \in Nat /\ n \in Nat /\ n # 0
      BY <1>6, FS_CardinalityType, Sizes
  <2>. QED  BY <1>5, <1>10, <1>12, <1>13, <2>1, <2>2
<1>15. IdleRun(s, lo, n)
  <2>1. n \in Nat /\ n # 0
      BY Sizes
  <2>2. lo + n - 1 \in Slots
      BY <1>10, <1>12, <1>14, <2>1, Sizes
  <2>3. lo .. lo + n - 1 \subseteq lo .. top
      BY <1>10, <1>12, <1>14, <2>1
  <2>. QED  BY <1>10, <1>12, <2>2, <2>3 DEF IdleRun
<1>16. FindFreeGFXSlots(s, n) # 0
    BY <1>10, <1>15, FreeFound
<1>. QED  BY <1>16 DEF s, clean

-----------------------------------------------------------------------------
(* What video memory shows.                                                *)

\* A slot belongs to one run, so it has one source.
LEMMA SourceIs ==
    ASSUME NEW s, Table(s), Whole(s), NEW i \in General, s[i].src # None, NEW k \in Run(s, i)
    PROVE  Source(s, k) = <<s[i].src, k - i>>
<1>. DEFINE runs == {j \in Slots : s[j].src # None /\ k \in Run(s, j)}
<1>1. i \in runs
    BY Sizes
<1>2. ASSUME NEW j \in runs PROVE j = i
  <2>1. j \notin 0 .. Reserved - 1
      BY <1>2 DEF Whole, Cut
  <2>2. j \in General
      BY <1>2, <2>1, Sizes
  <2>3. s[j].count # 0 /\ s[i].count # 0
      BY <1>2, <2>2, SlotFacts
  <2>. QED  BY <1>2, <2>2, <2>3, Apart
<1>3. runs = {i}
    BY <1>1, <1>2
<1>4. Source(s, k) = IF runs = {} THEN None ELSE <<s[Max(runs)].src, k - Max(runs)>>
    BY DEF Source
<1>. HIDE DEF runs
<1>5. Max({i}) = i
    BY MaxOfOne, Sizes
<1>. QED  BY <1>3, <1>4, <1>5

\* What a picture fills lies in its run.
LEMMA PictureInRun ==
    ASSUME NEW s, Table(s), Whole(s), NEW i \in General, s[i].src # None
    PROVE  /\ s[i].src \in Pictures /\ s[i].vramStatus \in {1, 3} /\ s[i].count # 0
           /\ i .. i + SlotsOf[s[i].src] - 1 \subseteq Run(s, i)
<1>1. s[i] \in Records /\ s[i].count # 0
    BY SlotFacts
<1>2. s[i].src \in Pictures /\ s[i].count \in Nat /\ s[i].vramStatus \in {0, 1, 3}
    BY <1>1, RecordType, Sizes
<1>3. SlotsOf[s[i].src] <= s[i].count /\ s[i].vramStatus # 0
    BY <1>1, SlotFacts DEF Head
<1>. DEFINE c == s[i].count
            n == SlotsOf[s[i].src]
<1>4. n \in Nat /\ c \in Nat /\ n <= c /\ i \in Nat
    BY <1>2, <1>3, Filled, Sizes
<1>. HIDE DEF c, n
<1>5. i .. i + n - 1 \subseteq i .. i + c - 1
    BY <1>4
<1>. QED  BY <1>1, <1>2, <1>3, <1>5 DEF c, n, Run

\* Between two frames video memory stays right where the table stays.
LEMMA InMemoryStays ==
    ASSUME NEW s, Table(s), Whole(s), NEW t, Table(t), Whole(t), NEW d, InMemory(s, d),
           \A i \in General : t[i].src # None /\ t[i].vramStatus = 1 =>
               s[i].src = t[i].src /\ s[i].vramStatus = 1
    PROVE  InMemory(t, {k \in d : Source(t, k) = Source(s, k)})
<1>. SUFFICES ASSUME NEW i \in General, t[i].src # None, t[i].vramStatus = 1,
                     NEW k \in i .. i + SlotsOf[t[i].src] - 1
              PROVE  k \in d /\ Source(t, k) = Source(s, k)
    BY DEF InMemory
<1>1. s[i].src = t[i].src /\ s[i].vramStatus = 1
    OBVIOUS
<1>2. k \in d
    BY <1>1 DEF InMemory
<1>3. k \in Run(s, i) /\ k \in Run(t, i)
    BY <1>1, PictureInRun
<1>4. Source(s, k) = <<s[i].src, k - i>> /\ Source(t, k) = <<t[i].src, k - i>>
    BY <1>1, <1>3, SourceIs
<1>. QED  BY <1>1, <1>2, <1>4

\* After everything was uploaded.
LEMMA EverythingDrawn ==
    ASSUME NEW s, Table(s), Whole(s)
    PROVE  /\ Table(Everything(s)) /\ Whole(Everything(s))
           /\ \A k \in General : Everything(s)[k].refs = s[k].refs
           /\ \A k \in Heads(s) : Everything(s)[k].src = s[k].src
           /\ InMemory(Everything(s), Drawn(s, Uploads(s, TRUE)))
<1>. DEFINE t == Everything(s)
            up == Uploads(s, TRUE)
<1>1. /\ Table(t)
      /\ \A k \in Slots : t[k] = IF s[k].status \in Idle THEN NoSlot
                                 ELSE IF k \in up THEN WithUpload(s[k]) ELSE s[k]
    BY EverythingSet
<1>2. \A k \in up : k \in Slots /\ s[k].src # None
    BY UploadsInside
<1>3. \A i \in General : s[i].status \in InUse /\ s[i].src # None => i \in up
    BY PictureInRun, Sizes DEF Uploads
<1>. HIDE DEF t, up
<1>5. /\ Whole(t) /\ \A k \in General : t[k].refs = s[k].refs
      /\ \A k \in Heads(s) : t[k].src = s[k].src /\ t[k].status = s[k].status
  <2>1. Uploaded(s, up, Idle, t)
      BY <1>1 DEF Uploaded
  <2>. QED  BY <1>1, <1>2, <2>1, UploadedWhole
<1>6. ASSUME NEW i \in General, t[i].src # None
      PROVE  i \in up /\ t[i].src = s[i].src
  <2>1. i \in Slots /\ s[i].status \notin Idle
      BY <1>1, <1>6, BareFree, Sizes
  <2>2. s[i] \in Records
      BY <2>1 DEF Table
  <2>3. t[i].src = s[i].src
      BY <1>1, <2>1, <2>2, UploadRecord
  <2>4. s[i].count # 0
      BY <1>6, <2>3, SlotFacts
  <2>5. s[i].status \in InUse
      BY <2>1, <2>4, SlotFacts, Names DEF Piece
  <2>. QED  BY <1>3, <1>6, <2>3, <2>5
<1>7. InMemory(t, Drawn(s, up))
    BY <1>6 DEF InMemory, Drawn
<1>. QED  BY <1>1, <1>5, <1>7 DEF t, up

\* After the uploads that were asked for.
LEMMA SettledDrawn ==
    ASSUME NEW s, Table(s), Whole(s), NEW d, InMemory(s, d)
    PROVE  LET up == Uploads(s, FALSE)
               t == Settled(s, up)
           IN  /\ Table(t) /\ Whole(t)
               /\ \A k \in General : t[k].refs = s[k].refs
               /\ \A k \in Heads(s) : t[k].src = s[k].src
               /\ InMemory(t, Drawn(s, up) \cup {k \in d : Source(t, k) = Source(s, k)})
<1>. DEFINE up == Uploads(s, FALSE)
            t == Settled(s, up)
            none == {}
            kept == {k \in d : Source(t, k) = Source(s, k)}
<1>1. Table(t) /\ \A k \in Slots : t[k] = IF k \in up THEN WithUpload(s[k]) ELSE s[k]
    BY SettledSet
<1>2. \A k \in up : k \in Slots /\ s[k].src # None
    BY UploadsInside
<1>. HIDE DEF t, up
<1>3. none \in SUBSET Idle /\ Uploaded(s, up, none, t)
    BY <1>1 DEF Uploaded
<1>. HIDE DEF none
<1>4. /\ Whole(t) /\ \A k \in General : t[k].refs = s[k].refs
      /\ \A k \in Heads(s) : t[k].src = s[k].src /\ t[k].status = s[k].status
  <2>1. Table(t)
      BY <1>1
  <2>. QED  BY <1>2, <1>3, <2>1, UploadedWhole
<1>5. ASSUME NEW i \in General, t[i].src # None, t[i].vramStatus = 1
      PROVE  i .. i + SlotsOf[t[i].src] - 1 \subseteq Drawn(s, up) \cup kept
  <2>1. i \in Slots /\ s[i] \in Records
      BY Sizes DEF Table
  <2>2. t[i].src = s[i].src /\ (i \notin up => s[i].vramStatus = 1)
      BY <1>1, <1>5, <2>1, UploadRecord
  <2>3. CASE i \in up
      BY <2>2, <2>3 DEF Drawn
  <2>4. CASE i \notin up
    <3>. SUFFICES ASSUME NEW k \in i .. i + SlotsOf[t[i].src] - 1 PROVE k \in kept
        OBVIOUS
    <3>1. k \in d
        BY <1>5, <2>2, <2>4 DEF InMemory
    <3>2. k \in Run(s, i) /\ k \in Run(t, i)
        BY <1>1, <1>4, <1>5, <2>2, PictureInRun
    <3>3. Source(s, k) = <<s[i].src, k - i>>
        BY <1>5, <2>2, <3>2, SourceIs
    <3>4. Source(t, k) = <<t[i].src, k - i>>
        BY <1>1, <1>4, <1>5, <3>2, SourceIs
    <3>. QED  BY <2>2, <3>1, <3>3, <3>4
  <2>. QED  BY <2>3, <2>4
<1>6. InMemory(t, Drawn(s, up) \cup kept)
    BY <1>5 DEF InMemory
<1>. QED  BY <1>1, <1>4, <1>6 DEF t, up

-----------------------------------------------------------------------------
(* Taking a run, and leaving it.                                           *)

LEMMA MoreFacts ==
    ASSUME NEW n \in 0 .. RefLimit, NEW c \in Nat, c < RefLimit, c <= n
    PROVE  c <= More(n) /\ c + 1 <= More(n) /\ (c = n => c + 1 = More(n))
BY Sizes DEF More

\* Of the entities in es, e alone comes to hold another slot, i.
Takes(e, i, es, index, ix) == \A x \in es : ix[x] = IF x = e THEN i ELSE index[x]

\* Of the general slots, i alone gets another number of references, n.
Counts(s, t, i, n) == \A k \in General : t[k].refs = IF k = i THEN n ELSE s[k].refs

\* One entity takes a run, and is counted there; a run it held before keeps
\* its reference.
LEMMA JoinedReferred ==
    ASSUME NEW s, Table(s), Whole(s), NEW t, NEW es \in SUBSET Entities,
           NEW index, NEW leak, NEW lost, Referred(s, index, es, leak), ~lost => ~leak,
           NEW e \in es, ~lost => index[e] \notin General,
           NEW i \in Slots, Counts(s, t, i, More(s[i].refs)),
           NEW ix, Takes(e, i, es, index, ix)
    PROVE  Referred(t, ix, es, lost)
<1>1. \A x \in es : ix[x] = IF x = e THEN i ELSE index[x]
    BY DEF Takes
<1>3. /\ i \in General => t[i].refs = More(s[i].refs)
      /\ \A k \in General : k # i => t[k].refs = s[k].refs
    BY DEF Counts
<1>2. ASSUME NEW k \in General
      PROVE  /\ Cardinality(HeldBy(ix, es, k)) <= t[k].refs
             /\ ~lost => Cardinality(HeldBy(ix, es, k)) = t[k].refs
  <2>. DEFINE H == HeldBy(index, es, k)
  <2>1. /\ IsFiniteSet(H) /\ Cardinality(H) \in Nat /\ Cardinality(H) < RefLimit
        /\ Cardinality(H) <= s[k].refs /\ (~leak => Cardinality(H) = s[k].refs)
        /\ s[k].refs \in 0 .. RefLimit
      BY HeldFinite, SlotFacts DEF Referred
  <2>2. e \in H <=> index[e] = k
      BY DEF HeldBy
  <2>3. CASE k # i
    <3>1. HeldBy(ix, es, k) = H \ {e}
        BY <1>1, <2>3 DEF HeldBy
    <3>. HIDE DEF H
    <3>2. Cardinality(H \ {e}) = IF e \in H THEN Cardinality(H) - 1 ELSE Cardinality(H)
        BY <2>1, FS_RemoveElement
    <3>3. ~lost => e \notin H
        BY <2>2
    <3>. QED  BY <1>3, <2>1, <2>3, <3>1, <3>2, <3>3, Sizes
  <2>4. CASE k = i
    <3>1. HeldBy(ix, es, k) = H \cup {e}
        BY <1>1, <2>4 DEF HeldBy
    <3>. HIDE DEF H
    <3>2. Cardinality(H \cup {e}) = IF e \in H THEN Cardinality(H) ELSE Cardinality(H) + 1
        BY <2>1, FS_AddElement
    <3>3. ~lost => e \notin H
        BY <2>2
    <3>. DEFINE c == Cardinality(H)
                n == s[k].refs
    <3>4. c \in Nat /\ c < RefLimit /\ c <= n /\ n \in 0 .. RefLimit
        BY <2>1
    <3>. HIDE DEF c, n
    <3>5. c <= More(n) /\ c + 1 <= More(n) /\ (c = n => c + 1 = More(n))
        BY <3>4, MoreFacts
    <3>6. t[k].refs = More(n)
        BY <1>3, <2>4 DEF n
    <3>. QED  BY <2>1, <3>1, <3>2, <3>3, <3>5, <3>6 DEF c, n
  <2>. QED  BY <2>3, <2>4
<1>. QED  BY <1>2 DEF Referred

\* One entity leaves the run it holds.
LEMMA LeftReferred ==
    ASSUME NEW s, Table(s), Whole(s), NEW t, NEW es \in SUBSET Entities,
           NEW index, NEW leak, Referred(s, index, es, leak), NEW e \in es,
           Counts(s, t, index[e], s[index[e]].refs - 1),
           NEW ix, Takes(e, 0, es, index, ix)
    PROVE  Referred(t, ix, es, leak)
<1>1. \A x \in es : ix[x] = IF x = e THEN 0 ELSE index[x]
    BY DEF Takes
<1>2. ASSUME NEW k \in General
      PROVE  /\ Cardinality(HeldBy(ix, es, k)) <= t[k].refs
             /\ ~leak => Cardinality(HeldBy(ix, es, k)) = t[k].refs
  <2>. DEFINE H == HeldBy(index, es, k)
  <2>1. /\ IsFiniteSet(H) /\ Cardinality(H) \in Nat
        /\ Cardinality(H) <= s[k].refs /\ (~leak => Cardinality(H) = s[k].refs)
        /\ s[k].refs \in 0 .. RefLimit
      BY HeldFinite, SlotFacts DEF Referred
  <2>2. e \in H <=> index[e] = k
      BY DEF HeldBy
  <2>3. HeldBy(ix, es, k) = H \ {e}
      BY <1>1, Sizes DEF HeldBy
  <2>. HIDE DEF H
  <2>4. Cardinality(H \ {e}) = IF e \in H THEN Cardinality(H) - 1 ELSE Cardinality(H)
      BY <2>1, FS_RemoveElement
  <2>5. t[k].refs = IF e \in H THEN s[k].refs - 1 ELSE s[k].refs
      BY <2>2 DEF Counts
  <2>. QED  BY <2>1, <2>3, <2>4, <2>5, Sizes
<1>. QED  BY <1>2 DEF Referred

\* The same holders and references, whoever else comes and goes.
LEMMA SameReferred ==
    ASSUME NEW s, NEW t, NEW es, NEW fs, NEW index, NEW ix, NEW leak, NEW lost,
           Referred(s, index, es, leak), ~lost => ~leak,
           \A k \in General : t[k].refs = s[k].refs,
           \A k \in General, x \in es \cup fs :
               (x \in fs /\ ix[x] = k) <=> (x \in es /\ index[x] = k)
    PROVE  Referred(t, ix, fs, lost)
<1>1. \A k \in General : HeldBy(ix, fs, k) = HeldBy(index, es, k)
    BY DEF HeldBy
<1>. QED  BY <1>1 DEF Referred

\* One entity asks for picture p in slot i, or for none; whoever borrowed of it
\* is on its own.
LEMMA RepointedPointing ==
    ASSUME NEW s, NEW t, NEW es \in SUBSET Entities,
           NEW index, NEW offset, NEW pc, NEW ln, Pointing(s, index, offset, es, pc, ln),
           NEW ix, NEW of, NEW pn, NEW lm, NEW e \in es, NEW i \in Slots, NEW p,
           ix[e] = i, of[e] = i, pn[e] = p, lm[e] = None,
           p # None => i \in General /\ t[i].src = p,
           \A x \in es : x # e => /\ ix[x] = index[x] /\ pn[x] = pc[x]
                                  /\ ln[x] # e => of[x] = offset[x] /\ lm[x] = ln[x]
                                  /\ ln[x] = e => lm[x] = None,
           \A x \in es : x # e /\ index[x] \in General => t[index[x]].src = s[index[x]].src
    PROVE  Pointing(t, ix, of, es, pn, lm)
<1>1. None \notin Entities
    BY PoolAssumption
<1>2. ASSUME NEW x \in es
      PROVE  /\ ix[x] \in General => of[x] = ix[x] /\ lm[x] = None
             /\ lm[x] = None /\ pn[x] # None => ix[x] \in General /\ t[ix[x]].src = pn[x]
             /\ lm[x] # None => /\ pn[x] = None /\ lm[x] \in es
                                /\ ix[lm[x]] \in General /\ of[x] = ix[lm[x]]
  <2>1. CASE x = e
      BY <2>1
  <2>2. CASE x # e /\ ln[x] = e
      BY <1>1, <2>2 DEF Pointing
  <2>3. CASE x # e /\ ln[x] # e
      BY <1>1, <2>3 DEF Pointing
  <2>. QED  BY <2>1, <2>2, <2>3
<1>. QED  BY <1>2 DEF Pointing

\* The same pointers into tables that show the same there.
LEMMA SamePointing ==
    ASSUME NEW s, NEW t, NEW es \in SUBSET Entities, NEW fs \in SUBSET es,
           NEW index, NEW offset, NEW pc, NEW ln, Pointing(s, index, offset, es, pc, ln),
           NEW ix, NEW of, NEW pn, NEW lm,
           \A x \in fs : /\ ix[x] = index[x] /\ of[x] = offset[x] /\ pn[x] = pc[x] /\ lm[x] = ln[x]
                         /\ ln[x] # None => ln[x] \in fs
                         /\ index[x] \in General => t[index[x]].src = s[index[x]].src
    PROVE  Pointing(t, ix, of, fs, pn, lm)
BY DEF Pointing

\* A holder's picture is in the head of a run in use.
LEMMA HeldSource ==
    ASSUME NEW s, Table(s), Whole(s), NEW es \in SUBSET Entities, NEW index, NEW leak,
           Referred(s, index, es, leak), NEW t, \A k \in Heads(s) : t[k].src = s[k].src
    PROVE  \A x \in es : index[x] \in General => t[index[x]].src = s[index[x]].src
BY HolderFacts

-----------------------------------------------------------------------------
(* Loads.                                                                  *)

\* Nobody hands on what was put away.
LEMMA AwayStays ==
    ASSUME TypeInv, AwayInv, UNCHANGED <<away, stash>>, ~leaked' => ~leaked,
           \A x \in away : /\ m'.index[x] = m.index[x] /\ m'.offset[x] = m.offset[x]
                           /\ pic'[x] = pic[x] /\ lender'[x] = lender[x]
    PROVE  AwayInv'
<1>1. CASE stash = <<>>
    BY <1>1 DEF AwayInv
<1>2. CASE stash # <<>>
  <2>. DEFINE s == stash
              es == away
              ix == m'.index
              of == m'.offset
              pn == pic'
              lm == lender'
  <2>1. /\ Table(s) /\ es \in SUBSET Entities
        /\ Whole(s) /\ Referred(s, m.index, es, leaked)
        /\ Pointing(s, m.index, m.offset, es, pic, lender)
      BY <1>2 DEF AwayInv, TypeInv, TypeOK
  <2>2. \A x \in es : /\ ix[x] = m.index[x] /\ of[x] = m.offset[x]
                      /\ pn[x] = pic[x] /\ lm[x] = lender[x]
      OBVIOUS
  <2>. HIDE DEF s, es, ix, of, pn, lm
  <2>3. Referred(s, ix, es, leaked')
      BY <2>1, <2>2, SameReferred
  <2>4. \A x \in es : lender[x] # None => lender[x] \in es
      BY <2>1 DEF Pointing
  <2>5. Pointing(s, ix, of, es, pn, lm)
      BY <2>1, <2>2, <2>4, SamePointing
  <2>. QED  BY <1>2, <2>1, <2>3, <2>5 DEF AwayInv, s, es, ix, of, pn, lm
<1>. QED  BY <1>1, <1>2

\* Who borrows of e is where e is.
LEMMA BorrowersNear ==
    ASSUME TypeInv, SoundInv, NEW e \in Present, NEW x \in Entities, lender[x] = e
    PROVE  x \in Present /\ x \notin away
<1>1. e \in live /\ e \notin away /\ e # None
    BY PoolAssumption DEF Present, TypeInv, TypeOK
<1>2. x \in live
    BY <1>1 DEF SoundInv, GoneInv
<1>3. x \notin away
  <2>. SUFFICES ASSUME x \in away PROVE FALSE
      OBVIOUS
  <2>1. Pointing(stash, m.index, m.offset, away, pic, lender)
      BY DEF SoundInv, AwayInv
  <2>. QED  BY <1>1, <2>1 DEF Pointing
<1>. QED  BY <1>2, <1>3 DEF Present

\* What all loads have in common: e gets slot i of table t, made of a pool
\* that was perhaps cleaned up.
LEMMA LoadedRoom ==
    ASSUME TypeInv, SoundInv, NEW e \in Present, NEW p \in Pictures \cup {None},
           NEW r, Memory(r.mem), r.ok, Load(e, p, r), Undisturbed(r.mem),
           NEW c, Memory(c), Cleaned(m, live, Present, leaked, pic, lender, c),
           NEW i \in Slots, NEW t, Table(t), Whole(t),
           Memo(r.mem, t, c.unk_3, [c.index EXCEPT ![e] = i], [c.offset EXCEPT ![e] = i]),
           Counts(c.slots, t, i, More(c.slots[i].refs)),
           \A k \in Heads(c.slots) : t[k].src = c.slots[k].src,
           p # None => i \in General /\ t[i].src = p,
           \A k \in General : t[k].src # None /\ t[k].vramStatus = 1 =>
               c.slots[k].src = t[k].src /\ c.slots[k].vramStatus = 1
    PROVE  SoundInv'
<1>. DEFINE s == c.slots
            q == r.mem
            es == Present
            index == c.index
            offset == c.offset
            ix == m'.index
            of == m'.offset
            pn == pic'
            lm == lender'
<1>1. /\ es \in SUBSET Entities /\ e \in Entities /\ e \in live /\ e \notin away
      /\ e # None /\ Memory(m) /\ Others /\ away \in SUBSET Entities
    BY TypeParts, PoolAssumption DEF Present, Others
<1>2. /\ Table(s) /\ c.unk_3 \in {0, 1} /\ index \in [Entities -> Slots]
      /\ offset \in [Entities -> Slots]
    BY MemoryType DEF Memory
<1>3. /\ q.slots = t /\ q.unk_3 = c.unk_3
      /\ \A x \in Entities : q.index[x] = IF x = e THEN i ELSE index[x]
      /\ \A x \in Entities : q.offset[x] = IF x = e THEN i ELSE offset[x]
    BY <1>1, <1>2 DEF Memo
<1>5. /\ m' = Parted(q, Borrowers(e))
      /\ pn = [pic EXCEPT ![e] = p]
      /\ leaked' = (leaked \/ m.index[e] \in General)
      /\ lm = [x \in Entities |-> IF x = e \/ lender[x] = e THEN None ELSE lender[x]]
      /\ UNCHANGED <<live, away, stash>>
    BY DEF Load, Part
<1>6. /\ m'.slots = t /\ m'.unk_3 = c.unk_3 /\ ix = q.index
      /\ \A x \in Entities : of[x] = IF lender[x] = e THEN 0 ELSE q.offset[x]
  <2>. DEFINE gone == Borrowers(e)
              y == m'
  <2>1. Memory(q) /\ y = Parted(q, gone)
      BY <1>5
  <2>. HIDE DEF q, gone, y
  <2>2. Memo(y, q.slots, q.unk_3, q.index,
             [x \in Entities |-> IF x \in gone THEN 0 ELSE q.offset[x]])
      BY <2>1, PartedIs
  <2>3. /\ y.slots = t /\ y.unk_3 = c.unk_3 /\ y.index = q.index
        /\ \A x \in Entities : y.offset[x] = IF lender[x] = e THEN 0 ELSE q.offset[x]
      BY <1>3, <2>2 DEF Memo, gone, Borrowers
  <2>. QED  BY <2>3 DEF y
<1>7. \A x \in Entities : /\ pn[x] = IF x = e THEN p ELSE pic[x]
                          /\ lm[x] = IF x = e \/ lender[x] = e THEN None ELSE lender[x]
    BY <1>1, <1>5 DEF Others
<1>8. Present' = es
    BY <1>5 DEF Present
<1>9. /\ Whole(s) /\ Referred(s, index, es, leaked)
      /\ Pointing(s, index, offset, es, pic, lender)
      /\ \A x \in Entities :
           /\ x \notin live => index[x] = m.index[x] /\ offset[x] = m.offset[x]
           /\ m.index[x] \notin General => index[x] = m.index[x]
      /\ c = m \/ c.unk_3 = 1
    BY DEF Cleaned
<1>10. \A x \in away : q.index[x] = m.index[x] /\ q.offset[x] = m.offset[x]
    BY DEF Undisturbed
<1>11. /\ Counts(s, t, i, More(s[i].refs))
       /\ \A k \in Heads(s) : t[k].src = s[k].src
       /\ \A k \in General : t[k].src # None /\ t[k].vramStatus = 1 =>
               s[k].src = t[k].src /\ s[k].vramStatus = 1
    OBVIOUS
<1>12. ~leaked' => ~leaked /\ index[e] \notin General
    BY <1>1, <1>5, <1>9
<1>. HIDE DEF s, q, es, index, offset, ix, of, pn, lm
<1>13. Referred(t, ix, es, leaked')
  <2>1. ~leaked' => ~leaked
      BY <1>12
  <2>2. ~leaked' => index[e] \notin General
      BY <1>12
  <2>. DEFINE lost == leaked'
              leak == leaked
  <2>3. (~lost => ~leak) /\ (~lost => index[e] \notin General)
      BY <2>1, <2>2
  <2>4. /\ Table(s) /\ Whole(s) /\ es \in SUBSET Entities /\ index \in [Entities -> Slots]
        /\ Referred(s, index, es, leak)
      BY <1>1, <1>2, <1>9
  <2>7. e \in es /\ Counts(s, t, i, More(s[i].refs))
      BY <1>11 DEF es
  <2>. HIDE DEF lost, leak
  <2>5. Takes(e, i, es, index, ix)
      BY <1>3, <1>6, <2>4 DEF Takes
  <2>6. Referred(t, ix, es, lost)
      BY <2>3, <2>4, <2>7, <2>5, JoinedReferred
  <2>. QED  BY <2>6 DEF lost
<1>14. \A x \in es : index[x] \in General => t[index[x]].src = s[index[x]].src
  <2>. DEFINE leak == leaked
  <2>1. /\ Table(s) /\ Whole(s) /\ es \in SUBSET Entities /\ Referred(s, index, es, leak)
        /\ \A k \in Heads(s) : t[k].src = s[k].src
      BY <1>1, <1>2, <1>9, <1>11
  <2>. HIDE DEF leak
  <2>. QED  BY <2>1, HeldSource
<1>15. Pointing(t, ix, of, es, pn, lm)
  <2>1. /\ ix[e] = i /\ of[e] = i /\ pn[e] = p /\ lm[e] = None
    <3>1. lender[e] # e
        BY <1>1, <1>9 DEF Pointing, es
    <3>. QED  BY <1>1, <1>3, <1>6, <1>7, <3>1
  <2>2. \A x \in es : x # e => /\ ix[x] = index[x] /\ pn[x] = pic[x]
                               /\ lender[x] # e => of[x] = offset[x] /\ lm[x] = lender[x]
                               /\ lender[x] = e => lm[x] = None
      BY <1>1, <1>3, <1>6, <1>7
  <2>. QED  BY <1>1, <1>9, <1>14, <2>1, <2>2, RepointedPointing DEF es
<1>16. m'.unk_3 = 0 => InMemory(t, drawn')
  <2>. SUFFICES ASSUME m'.unk_3 = 0 PROVE InMemory(t, drawn')
      OBVIOUS
  <2>1. c = m /\ s = m.slots
      BY <1>6, <1>9 DEF s
  <2>2. drawn' = {k \in drawn : Source(t, k) = Source(s, k)}
      BY <1>6, <2>1 DEF Load, NotUploaded
  <2>3. InMemory(s, drawn)
      BY <1>6, <2>1 DEF SoundInv, RoomInv
  <2>. QED  BY <1>2, <1>9, <1>11, <2>2, <2>3, InMemoryStays
<1>17. RoomInv'
    BY <1>6, <1>8, <1>13, <1>15, <1>16 DEF RoomInv, ix, of, pn, lm
<1>18. AwayInv'
  <2>1. \A x \in away : lender[x] # e
      BY <1>1, BorrowersNear
  <2>2. \A x \in away : /\ ix[x] = m.index[x] /\ of[x] = m.offset[x]
                        /\ pn[x] = pic[x] /\ lm[x] = lender[x]
      BY <1>1, <1>6, <1>7, <1>10, <2>1
  <2>. QED  BY <1>5, <1>12, <2>2, AwayStays DEF SoundInv, ix, of, pn, lm
<1>19. GoneInv'
  <2>1. \A x \in Entities \ live : ix[x] = 0 /\ pn[x] = None /\ lm[x] = None
      BY <1>1, <1>3, <1>6, <1>7, <1>9 DEF SoundInv, GoneInv
  <2>. QED  BY <1>5, <2>1 DEF GoneInv, ix, pn, lm
<1>. QED  BY <1>17, <1>18, <1>19 DEF SoundInv

\* A load that is refused leaves the pool cleaned up.
LEMMA RefusedRoom ==
    ASSUME TypeInv, SoundInv, NEW e \in Present, NEW p,
           NEW r, Memory(r.mem), ~r.ok, Load(e, p, r), Undisturbed(r.mem),
           Cleaned(m, live, Present, leaked, pic, lender, r.mem)
    PROVE  SoundInv'
<1>1. m' = r.mem /\ UNCHANGED <<live, away, stash, pic, lender, leaked>>
    BY DEF Load
<1>2. Present' = Present
    BY <1>1 DEF Present
<1>3. m'.unk_3 = 0 => InMemory(m'.slots, drawn')
  <2>. SUFFICES ASSUME m'.unk_3 = 0 PROVE InMemory(m'.slots, drawn')
      OBVIOUS
  <2>1. m' = m
      BY <1>1 DEF Cleaned
  <2>2. drawn' = drawn
      BY <2>1, TypeParts DEF Load, NotUploaded
  <2>3. InMemory(m.slots, drawn)
      BY <2>1 DEF SoundInv, RoomInv
  <2>. QED  BY <2>1, <2>2, <2>3
<1>4. RoomInv'
    BY <1>1, <1>2, <1>3 DEF RoomInv, Cleaned
<1>5. AwayInv'
    BY <1>1, AwayStays DEF SoundInv, Undisturbed
<1>6. GoneInv'
    BY <1>1, TypeParts DEF SoundInv, GoneInv, Cleaned, Others
<1>. QED  BY <1>4, <1>5, <1>6 DEF SoundInv

\* A new run and its first reference, as the entities see it.
LEMMA NewRunCounts ==
    ASSUME NEW s, Table(s), Whole(s), NEW n \in 1 .. NSlots, NEW a \in General,
           a = FindFreeGFXSlots(s, n), NEW st \in InUse,
           NEW u, Table(u), u[a].count = n, u[a].refs = 0,
           st = "GFX" => u[a].gfx = 0,
           u[a].gfx # 0 => u[a].src = u[a].gfx,
           u[a].src # None => SlotsOf[u[a].src] <= n /\ u[a].vramStatus = 3,
           \A k \in a + 1 .. a + n - 1 : u[k] = Bare("FOLLOWER"),
           \A k \in Slots \ (a .. a + n - 1) : u[k] = s[k]
    PROVE  LET t == UsedTable(u, a, st) IN
           /\ Table(t) /\ Whole(t) /\ t[a].src = u[a].src
           /\ Counts(s, t, a, More(s[a].refs))
           /\ \A k \in Heads(s) : t[k].src = s[k].src
           /\ \A k \in General : t[k].src # None /\ t[k].vramStatus = 1 =>
                s[k].src = t[k].src /\ s[k].vramStatus = 1
<1>. DEFINE t == UsedTable(u, a, st)
            A == a .. a + n - 1
            f == "FOLLOWER"
<1>0. u[a].src # None => SlotsOf[u[a].src] <= n /\ u[a].vramStatus # 0
    OBVIOUS
<1>1. /\ Table(t) /\ Whole(t)
      /\ t[a].refs = 1 /\ t[a].src = u[a].src /\ t[a].vramStatus = u[a].vramStatus
      /\ \A k \in a + 1 .. a + n - 1 : t[k] = Bare(f)
      /\ \A k \in Slots \ A : t[k] = s[k]
    BY <1>0, NewRunWhole
<1>2. \A k \in A : k \in General /\ s[k].status \in Idle
  <2>1. IdleRun(s, a, n) /\ n \in Nat /\ a \in Nat
      BY FreeFound, Sizes
  <2>. QED  BY <2>1, Sizes DEF IdleRun
<1>3. a \in A /\ \A k \in A : k = a \/ k \in a + 1 .. a + n - 1
    BY Sizes
<1>. HIDE DEF t, A, f
<1>4. \A k \in A : s[k].refs = 0 /\ k \notin Heads(s)
    BY <1>2, SlotFacts, Names DEF Heads
<1>5. More(0) = 1 /\ f \in Statuses
    BY Sizes, Names DEF More, f
<1>6. \A k \in A : k # a => t[k].refs = 0 /\ t[k].src = None
    BY <1>1, <1>3, <1>5, BareRecord
<1>7. \A k \in General \ A : t[k] = s[k] /\ k # a
    BY <1>1, <1>3, Sizes
<1>8. Counts(s, t, a, More(s[a].refs))
  <2>1. More(s[a].refs) = 1
      BY <1>3, <1>4, <1>5
  <2>2. \A k \in General : t[k].refs = IF k = a THEN 1 ELSE s[k].refs
      BY <1>1, <1>4, <1>6, <1>7
  <2>. QED  BY <2>1, <2>2 DEF Counts
<1>9. \A k \in Heads(s) : t[k].src = s[k].src
    BY <1>4, <1>7 DEF Heads
<1>10. ASSUME NEW k \in General, t[k].src # None, t[k].vramStatus = 1
       PROVE  s[k].src = t[k].src /\ s[k].vramStatus = 1
    BY <1>1, <1>6, <1>7, <1>10
<1>. QED  BY <1>1, <1>8, <1>9, <1>10 DEF t

\* Cleaned up or not, the pool that slots are looked for in is whole.
LEMMA AllocateSound ==
    ASSUME TypeInv, SoundInv, NEW n \in 1 .. NSlots
    PROVE  LET a == Allocate(m, live, n) IN
           a.mem.slots[0].status = "PALETTE" \/ IdleSlots(m.slots) # {} =>
               Cleaned(m, live, Present, leaked, pic, lender, a.mem)
<1>. DEFINE a == Allocate(m, live, n)
            clean == CleanUpGFXSlots(m, live)
<1>. SUFFICES ASSUME a.mem.slots[0].status = "PALETTE" \/ IdleSlots(m.slots) # {}
              PROVE  Cleaned(m, live, Present, leaked, pic, lender, a.mem)
    OBVIOUS
<1>1. Memory(m) /\ Present \in SUBSET Entities /\ Present \subseteq live
    BY TypeParts DEF Others, Present
<1>2. /\ Whole(m.slots) /\ Referred(m.slots, m.index, Present, leaked)
      /\ Pointing(m.slots, m.index, m.offset, Present, pic, lender)
    BY DEF SoundInv, RoomInv
<1>3. a.mem = m \/ a.mem = clean
    BY <1>1, AllocateCases
<1>4. CASE a.mem = m
  <2>1. Cleaned(m, live, Present, leaked, pic, lender, m)
      BY <1>2 DEF Cleaned
  <2>. QED  BY <1>4, <2>1
<1>5. CASE a.mem = clean
  <2>. DEFINE leak == leaked
              es == Present
              mem == m
              pc == pic
              ln == lender
              linked == live
              c == CleanUpGFXSlots(mem, linked)
  <2>1. /\ Memory(mem) /\ Whole(mem.slots) /\ es \in SUBSET Entities /\ es \subseteq linked
        /\ Referred(mem.slots, mem.index, es, leak)
        /\ Pointing(mem.slots, mem.index, mem.offset, es, pc, ln)
      BY <1>1, <1>2
  <2>2. c.slots[0].status = "PALETTE" \/ IdleSlots(mem.slots) # {}
      BY <1>5
  <2>. HIDE DEF leak, es, mem, pc, ln, linked
  <2>3. Cleaned(mem, linked, es, leak, pc, ln, c)
      BY <2>1, <2>2, CleanUpSound
  <2>. QED  BY <1>5, <2>3 DEF leak, es, mem, pc, ln, linked
<1>. QED  BY <1>3, <1>4, <1>5

LEMMA SlotZero ==
    ASSUME NEW q, Undisturbed(q)
    PROVE  q.slots[0].status = "PALETTE"
<1>1. 0 \in 0 .. Reserved - 1
    BY Sizes
<1>. QED  BY <1>1 DEF Undisturbed

\* A run that is made for e.
LEMMA NewRunLoaded ==
    ASSUME TypeInv, SoundInv, NEW e \in Present, NEW p \in Pictures \cup {None},
           NEW r, Memory(r.mem), r.ok, Load(e, p, r), Undisturbed(r.mem),
           NEW n \in 1 .. NSlots, NEW c, c = Allocate(m, live, n).mem, Memory(c),
           NEW a \in General, a = FindFreeGFXSlots(c.slots, n), NEW st \in InUse,
           NEW q, Memory(q), NEW u, Table(u), Memo(q, u, c.unk_3, c.index, c.offset),
           r.mem = UseSlot(q, e, a, st),
           u[a].count = n, u[a].refs = 0, st = "GFX" => u[a].gfx = 0,
           u[a].gfx # 0 => u[a].src = u[a].gfx,
           u[a].src # None => SlotsOf[u[a].src] <= n /\ u[a].vramStatus = 3,
           p # None => u[a].src = p,
           \A k \in a + 1 .. a + n - 1 : u[k] = Bare("FOLLOWER"),
           \A k \in Slots \ (a .. a + n - 1) : u[k] = c.slots[k]
    PROVE  SoundInv'
<1>. DEFINE s == c.slots
            t == UsedTable(u, a, st)
<1>1. e \in Entities /\ a \in Slots /\ st \in Statuses /\ Table(s) /\ a \in Nat /\ n \in Nat
    BY TypeParts, Sizes, Names DEF Present, Others, Memory
<1>2. Memo(UseSlot(q, e, a, st), UsedTable(q.slots, a, st), q.unk_3,
           [q.index EXCEPT ![e] = a], [q.offset EXCEPT ![e] = a])
    BY <1>1, UseSlotIs
<1>3. q.slots = u /\ q.unk_3 = c.unk_3 /\ q.index = c.index /\ q.offset = c.offset
    BY DEF Memo
<1>4. Memo(r.mem, t, c.unk_3, [c.index EXCEPT ![e] = a], [c.offset EXCEPT ![e] = a])
    BY <1>2, <1>3
\* The first reserved slot was not touched.
<1>5. c.slots[0].status = "PALETTE"
  <2>1. 0 \in Slots /\ 0 \notin a .. a + n - 1 /\ Run(u, a) = a .. a + n - 1 /\ 0 # a
      BY <1>1, Sizes DEF Run
  <2>2. /\ Table(t) /\ t[a].status = st /\ t[a].refs = More(u[a].refs)
        /\ \A k \in Slots : /\ t[k].count = u[k].count /\ t[k].src = u[k].src
                            /\ t[k].gfx = u[k].gfx /\ t[k].vramStatus = u[k].vramStatus
        /\ \A k \in Slots : k # a /\ k \in Run(u, a) => t[k] = WithStatus(u[k], "FOLLOWER")
        /\ \A k \in Slots : k # a /\ k \notin Run(u, a) => t[k] = u[k]
      BY <1>1, UsedRun
  <2>3. t[0] = c.slots[0]
    <3>. HIDE DEF t
    <3>. QED  BY <2>1, <2>2
  <2>4. r.mem.slots = t
      BY <1>4 DEF Memo
  <2>. HIDE DEF t
  <2>. QED  BY <2>3, <2>4, SlotZero
<1>6. Cleaned(m, live, Present, leaked, pic, lender, c)
    BY <1>5, AllocateSound
<1>7. Whole(s)
    BY <1>6 DEF Cleaned
<1>8. /\ Table(t) /\ Whole(t) /\ t[a].src = u[a].src
      /\ Counts(s, t, a, More(s[a].refs))
      /\ \A k \in Heads(s) : t[k].src = s[k].src
      /\ \A k \in General : t[k].src # None /\ t[k].vramStatus = 1 =>
           s[k].src = t[k].src /\ s[k].vramStatus = 1
    BY <1>1, <1>7, NewRunCounts
<1>. HIDE DEF t
<1>. QED  BY <1>1, <1>4, <1>6, <1>8, LoadedRoom, SMTT(30)

LEMMA LoadFixedSound ==
    ASSUME TypeInv, SoundInv, NEW e \in Entities, NEW g \in Fixed, LoadFixed(e, g), sound'
    PROVE  SoundInv'
<1>. DEFINE r == LoadFixedGFX(m, live, e, g)
            n == SlotsOf[g]
            a == Allocate(m, live, n)
            q == [a.mem EXCEPT !.slots = FixedTable(@, a.at, g)]
            st == "RESERVED"
            s == m.slots
<1>1. e \in Present /\ Load(e, g, r) /\ Undisturbed(r.mem)
    BY DEF LoadFixed, Load
<1>2. /\ Memory(m) /\ Table(s) /\ Whole(s) /\ g \in Pictures \cup {None} /\ g # 0 /\ g # None
      /\ n \in 1 .. NSlots /\ st \in InUse /\ st # "GFX" /\ st \in Statuses /\ g \in Fixed \cup {0}
    BY TypeParts, Filled, Names DEF Memory, SoundInv, RoomInv, Pictures
<1>3. /\ Memory(r.mem)
      /\ \/ r.ok /\ \E i \in General : /\ s[i].gfx = g
                                       /\ r.mem = UseSlot(m, e, i, st)
         \/ ~r.ok /\ r.mem = a.mem
         \/ /\ r.ok /\ a.at # 0 /\ r.mem = UseSlot(q, e, a.at, st)
            /\ Memo(q, FixedTable(a.mem.slots, a.at, g), a.mem.unk_3, a.mem.index, a.mem.offset)
            /\ Memory(q)
    BY <1>2, LoadFixedCases
<1>4. /\ Memory(a.mem) /\ a.at \in General \cup {0}
      /\ a.at # 0 => a.at + n - 1 \in Slots
      /\ a.at = FindFreeGFXSlots(a.mem.slots, n)
    BY <1>2, AllocateCases
<1>. HIDE DEF r, q, st
<1>5. ASSUME r.ok, NEW i \in General, s[i].gfx = g, r.mem = UseSlot(m, e, i, st)
      PROVE  SoundInv'
  <2>. DEFINE t == UsedTable(s, i, st)
  <2>1. s[i].count # 0 /\ s[i].src = g /\ i \in Slots
      BY <1>2, <1>5, SlotFacts, Sizes DEF Head
  <2>2. /\ Table(t) /\ Whole(t) /\ SameContents(s, t)
        /\ \A k \in Slots : t[k].vramStatus = s[k].vramStatus
        /\ t[i].refs = More(s[i].refs)
        /\ \A k \in General : k # i => t[k].refs = s[k].refs
      BY <1>2, <2>1, SharedWhole DEF st
  <2>3. Memo(r.mem, t, m.unk_3, [m.index EXCEPT ![e] = i], [m.offset EXCEPT ![e] = i])
      BY <1>2, <1>5, <2>1, UseSlotIs
  <2>4. Cleaned(m, live, Present, leaked, pic, lender, m)
      BY DEF SoundInv, RoomInv, Cleaned
  <2>. HIDE DEF t
  <2>5. Counts(s, t, i, More(s[i].refs))
      BY <2>2 DEF Counts
  <2>6. /\ \A k \in Heads(s) : t[k].src = s[k].src
        /\ t[i].src = g
        /\ \A k \in General : t[k].src # None /\ t[k].vramStatus = 1 =>
             s[k].src = t[k].src /\ s[k].vramStatus = 1
      BY <2>1, <2>2, Sizes DEF Heads, SameContents
  <2>. QED  BY <1>1, <1>2, <1>3, <1>5, <2>1, <2>2, <2>3, <2>4, <2>5, <2>6, LoadedRoom
<1>6. CASE ~r.ok /\ r.mem = a.mem
  <2>1. Cleaned(m, live, Present, leaked, pic, lender, r.mem)
      BY <1>1, <1>2, <1>6, SlotZero, AllocateSound
  <2>. QED  BY <1>1, <1>3, <1>6, <2>1, RefusedRoom
<1>7. CASE /\ r.ok /\ a.at # 0 /\ r.mem = UseSlot(q, e, a.at, st)
           /\ Memo(q, FixedTable(a.mem.slots, a.at, g), a.mem.unk_3, a.mem.index, a.mem.offset)
           /\ Memory(q)
  <2>. DEFINE c == a.mem
              x == a.at
              u == FixedTable(c.slots, x, g)
  <2>1. /\ x \in General /\ x \in Slots /\ x + n - 1 \in Slots /\ Table(c.slots)
        /\ Memory(c) /\ c = Allocate(m, live, n).mem /\ x = FindFreeGFXSlots(c.slots, n)
      BY <1>4, <1>7, Sizes DEF Memory
  <2>2. Memo(q, u, c.unk_3, c.index, c.offset) /\ Memory(q) /\ r.mem = UseSlot(q, e, x, st)
      BY <1>7
  <2>. HIDE DEF c, x
  <2>3. /\ Table(u) /\ u[x].count = n /\ u[x].gfx = g /\ u[x].refs = 0 /\ u[x].src = g
        /\ u[x].vramStatus = 3
        /\ \A k \in x + 1 .. x + n - 1 : u[k] = Bare("FOLLOWER")
        /\ \A k \in Slots \ (x .. x + n - 1) : u[k] = c.slots[k]
      BY <2>1, FixedSet, SMTT(30)
  <2>4. /\ u[x].gfx # 0 => u[x].src = u[x].gfx
        /\ u[x].src # None => SlotsOf[u[x].src] <= n /\ u[x].vramStatus = 3
        /\ g # None => u[x].src = g
      BY <1>2, <2>3
  <2>5. st = "GFX" => u[x].gfx = 0
      BY <1>2
  <2>. HIDE DEF u, n
  <2>. QED  BY <1>1, <1>2, <1>3, <1>7, <2>1, <2>2, <2>3, <2>4, <2>5, NewRunLoaded
<1>. QED  BY <1>3, <1>5, <1>6, <1>7

LEMMA LoadSwapSound ==
    ASSUME TypeInv, SoundInv, NEW e \in Entities, NEW n \in 1 .. NSlots, NEW i \in 0 .. Reserved - 1,
           i # 0 => n = 1, LoadSwap(e, n, i), sound'
    PROVE  SoundInv'
<1>. DEFINE r == LoadSwapGFX(m, live, e, n, i)
            a == IF i = 0 THEN Allocate(m, live, n) ELSE [mem |-> m, at |-> i]
            q == [a.mem EXCEPT !.slots = ReserveGFXSlots(@, a.at, 0, n)]
            st == "GFX"
            pal == "PALETTE"
            s == m.slots
<1>1. e \in Present /\ Load(e, None, r) /\ Undisturbed(r.mem)
    BY DEF LoadSwap, Load
<1>2. /\ Memory(m) /\ Table(s) /\ Whole(s) /\ None \in Pictures \cup {None}
      /\ st \in InUse /\ st \in Statuses /\ pal \in Statuses
      /\ i \in Slots /\ (i # 0 => i + n - 1 \in Slots) /\ s[i].status = pal
    BY TypeParts, Sizes, Names DEF Memory, SoundInv, RoomInv, Whole, Cut
<1>3. /\ Memory(r.mem)
      /\ \/ ~r.ok /\ a.at = 0 /\ r.mem = a.mem
         \/ /\ r.ok /\ a.at # 0 /\ a.mem.slots[a.at].status = pal
            /\ r.mem = UseSlot(a.mem, e, a.at, pal)
         \/ /\ r.ok /\ a.at # 0 /\ a.mem.slots[a.at].status # pal
            /\ r.mem = UseSlot(q, e, a.at, st)
            /\ Memo(q, ReserveGFXSlots(a.mem.slots, a.at, 0, n),
                    a.mem.unk_3, a.mem.index, a.mem.offset)
            /\ Memory(q)
    BY <1>2, LoadSwapCases
<1>. DEFINE b == Allocate(m, live, n)
<1>4. /\ Memory(b.mem) /\ b.at \in General \cup {0}
      /\ b.at # 0 => b.at + n - 1 \in Slots
      /\ b.at = FindFreeGFXSlots(b.mem.slots, n)
    BY <1>2, AllocateCases
<1>5. (i = 0 => a = b) /\ (i # 0 => a.mem = m /\ a.at = i)
    OBVIOUS
<1>6. b.at # 0 => b.mem.slots[b.at].status # pal
  <2>. SUFFICES ASSUME b.at # 0 PROVE b.mem.slots[b.at].status # pal
      OBVIOUS
  <2>. DEFINE x == b.at
              y == b.mem.slots
  <2>1. x \in General /\ x = FindFreeGFXSlots(y, n) /\ x # 0
      BY <1>4
  <2>. HIDE DEF x, y
  <2>2. IdleRun(y, x, n)
      BY <2>1, FreeFound
  <2>3. x \in x .. x + n - 1
      BY <2>1, Sizes
  <2>4. y[x].status \in Idle
      BY <2>2, <2>3 DEF IdleRun
  <2>. QED  BY <2>4, Names DEF x, y
<1>. HIDE DEF r, a, q, st, b
<1>7. CASE ~r.ok /\ a.at = 0 /\ r.mem = a.mem
  <2>1. r.mem = b.mem
      BY <1>5, <1>7
  <2>2. Cleaned(m, live, Present, leaked, pic, lender, r.mem)
      BY <1>1, <2>1, SlotZero, AllocateSound DEF b
  <2>. QED  BY <1>1, <1>3, <1>7, <2>2, RefusedRoom
<1>8. CASE r.ok /\ a.at # 0 /\ a.mem.slots[a.at].status = pal /\ r.mem = UseSlot(a.mem, e, a.at, pal)
  <2>. DEFINE t == UsedTable(s, i, pal)
  <2>1. i # 0 /\ a.mem = m /\ a.at = i
      BY <1>5, <1>6, <1>8
  <2>2. Table(t) /\ Whole(t) /\ \A k \in General : t[k] = s[k]
      BY <1>2, PaletteWhole
  <2>. HIDE DEF pal
  <2>3. Memo(r.mem, t, m.unk_3, [m.index EXCEPT ![e] = i], [m.offset EXCEPT ![e] = i])
      BY <1>2, <1>8, <2>1, UseSlotIs
  <2>4. Cleaned(m, live, Present, leaked, pic, lender, m)
      BY DEF SoundInv, RoomInv, Cleaned
  <2>. HIDE DEF t
  <2>5. Counts(s, t, i, More(s[i].refs))
      BY <2>2, Sizes DEF Counts
  <2>6. /\ \A k \in Heads(s) : t[k].src = s[k].src
        /\ None # None => i \in General /\ t[i].src = None
        /\ \A k \in General : t[k].src # None /\ t[k].vramStatus = 1 =>
             s[k].src = t[k].src /\ s[k].vramStatus = 1
      BY <2>2 DEF Heads
  <2>. QED  BY <1>1, <1>2, <1>3, <1>8, <2>2, <2>3, <2>4, <2>5, <2>6, LoadedRoom
<1>9. CASE /\ r.ok /\ a.at # 0 /\ a.mem.slots[a.at].status # pal
           /\ r.mem = UseSlot(q, e, a.at, st)
           /\ Memo(q, ReserveGFXSlots(a.mem.slots, a.at, 0, n),
                   a.mem.unk_3, a.mem.index, a.mem.offset)
           /\ Memory(q)
  <2>. DEFINE c == b.mem
              x == b.at
              g == 0
              u == ReserveGFXSlots(c.slots, x, g, n)
  <2>1. a = b
      BY <1>2, <1>5, <1>9
  <2>2. /\ x \in General /\ x \in Slots /\ x + n - 1 \in Slots /\ Table(c.slots) /\ c.slots \in Tables
        /\ Memory(c) /\ c = Allocate(m, live, n).mem /\ x = FindFreeGFXSlots(c.slots, n)
    <3>1. x \in General /\ x \in Slots /\ x + n - 1 \in Slots /\ Memory(c)
        BY <1>4, <1>9, <2>1, Sizes
    <3>2. Table(c.slots) /\ c.slots \in Tables
        BY <3>1 DEF Memory, Table, Tables
    <3>3. c = Allocate(m, live, n).mem /\ x = FindFreeGFXSlots(c.slots, n)
        BY <1>4 DEF b
    <3>. QED  BY <3>1, <3>2, <3>3
  <2>3. Memo(q, u, c.unk_3, c.index, c.offset) /\ Memory(q) /\ r.mem = UseSlot(q, e, x, st)
      BY <1>9, <2>1
  <2>4. g \in Fixed \cup {0} /\ g = 0
      OBVIOUS
  <2>. HIDE DEF c, x, g
  <2>5. /\ Table(u) /\ u[x].count = n /\ u[x].gfx = g /\ u[x].refs = 0 /\ u[x].src = None
        /\ \A k \in x + 1 .. x + n - 1 : u[k] = Bare("FOLLOWER")
        /\ \A k \in Slots \ (x .. x + n - 1) : u[k] = c.slots[k]
      BY <2>2, <2>4, ReserveSet
  <2>6. /\ u[x].gfx # 0 => u[x].src = u[x].gfx
        /\ u[x].src # None => SlotsOf[u[x].src] <= n /\ u[x].vramStatus = 3
        /\ None # None => u[x].src = None
        /\ st = "GFX" => u[x].gfx = 0
      BY <2>4, <2>5
  <2>. HIDE DEF u
  <2>. QED  BY <1>1, <1>2, <1>3, <1>9, <2>2, <2>3, <2>5, <2>6, NewRunLoaded
<1>. QED  BY <1>3, <1>7, <1>8, <1>9

-----------------------------------------------------------------------------
(* The other operations.                                                   *)

LEMMA CreateSound ==
    ASSUME TypeInv, SoundInv, NEW e \in Entities, Create(e)
    PROVE  SoundInv'
<1>1. /\ Present \in SUBSET Entities /\ e \notin live /\ e \notin away /\ Others
      /\ live' = live \cup {e} /\ UNCHANGED <<m, drawn, away, stash, pic, lender, leaked, sound>>
    BY TypeParts DEF Others, Present, Create
<1>2. Present' = Present \cup {e} /\ e \notin Present
    BY <1>1 DEF Present
<1>3. m.index[e] = 0 /\ pic[e] = None /\ lender[e] = None /\ 0 \notin General
    BY <1>1, Sizes DEF SoundInv, GoneInv
<1>. DEFINE s == m.slots
            es == Present
            fs == Present \cup {e}
            ix == m.index
            of == m.offset
            leak == leaked
            pc == pic
            ln == lender
<1>4. /\ Whole(s) /\ Referred(s, ix, es, leak) /\ Pointing(s, ix, of, es, pc, ln)
      /\ m.unk_3 = 0 => InMemory(s, drawn)
    BY DEF SoundInv, RoomInv
<1>7. fs = es \cup {e} /\ ix[e] = 0 /\ pc[e] = None /\ ln[e] = None
    BY <1>3
<1>. HIDE DEF s, es, fs, ix, of, leak, pc, ln
<1>5. \A k \in General, x \in es \cup fs : (x \in fs /\ ix[x] = k) <=> (x \in es /\ ix[x] = k)
    BY <1>3, <1>7
<1>6. \A x \in fs : x = e \/ x \in es
    BY <1>7
<1>8. Referred(s, ix, fs, leak)
    BY <1>4, <1>5, SameReferred
<1>9. Pointing(s, ix, of, fs, pc, ln)
    BY <1>3, <1>4, <1>6, <1>7 DEF Pointing
<1>10. RoomInv'
    BY <1>1, <1>2, <1>4, <1>8, <1>9 DEF RoomInv, s, fs, ix, of, leak, pc, ln
<1>11. AwayInv'
    BY <1>1 DEF SoundInv, AwayInv
<1>12. GoneInv'
    BY <1>1 DEF SoundInv, GoneInv
<1>. QED  BY <1>10, <1>11, <1>12 DEF SoundInv

\* A run with one reference has one holder.
LEMMA OneHolder ==
    ASSUME NEW s, NEW es \in SUBSET Entities, NEW index, NEW leak, Referred(s, index, es, leak),
           NEW e \in es, index[e] \in General, s[index[e]].refs = 1,
           NEW x \in es, index[x] = index[e]
    PROVE  x = e
<1>. DEFINE H == HeldBy(index, es, index[e])
<1>1. IsFiniteSet(H) /\ e \in H /\ x \in H /\ Cardinality(H) <= 1
  <2>1. IsFiniteSet(H)
      BY HeldFinite
  <2>2. e \in H /\ x \in H
      BY DEF HeldBy
  <2>3. Cardinality(H) <= 1
      BY DEF Referred
  <2>. QED  BY <2>1, <2>2, <2>3
<1>. HIDE DEF H
<1>2. IsFiniteSet(H \ {e}) /\ Cardinality(H \ {e}) = Cardinality(H) - 1 /\ Cardinality(H) \in Nat
    BY <1>1, FS_RemoveElement, FS_CardinalityType
<1>3. Cardinality(H \ {e}) \in Nat
    BY <1>2, FS_CardinalityType
<1>4. Cardinality(H \ {e}) = 0
    BY <1>1, <1>2, <1>3
<1>5. H \ {e} = {}
    BY <1>2, <1>4, FS_EmptySet
<1>. QED  BY <1>1, <1>5

LEMMA AnimateSound ==
    ASSUME TypeInv, SoundInv, NEW e \in Entities, NEW f \in Frames, Animate(e, f)
    PROVE  SoundInv'
<1>. DEFINE s == m.slots
            i == m.index[e]
            t == SetSource(s, i, f)
<1>1. /\ e \in Present /\ s[i].status = "GFX" /\ SlotsOf[f] <= s[i].count
      /\ m' = [m EXCEPT !.slots = t] /\ pic' = [pic EXCEPT ![e] = f]
      /\ NotUploaded /\ UNCHANGED <<live, away, stash, lender, leaked, sound>>
    BY DEF Animate
<1>2. /\ Memory(m) /\ Others /\ Table(s) /\ Whole(s) /\ f \in Pictures
      /\ Present \in SUBSET Entities /\ e \in live /\ e \notin away
    BY <1>1, TypeParts DEF Memory, SoundInv, RoomInv, Pictures, Others, Present
<1>3. i \in General /\ s[i].refs = 1
  <2>1. i \in Slots
      BY <1>2, MemoryType DEF Memory
  <2>2. i \notin 0 .. Reserved - 1
      BY <1>1, <1>2 DEF Whole, Cut
  <2>3. i \in General
      BY <2>1, <2>2, Sizes
  <2>4. s[i].count # 0
      BY <1>1, <1>2, <2>3, SlotFacts, Names
  <2>. QED  BY <1>1, <1>2, <2>3, <2>4, SlotFacts DEF Head
<1>4. /\ Table(t) /\ Whole(t)
      /\ t[i].src = f /\ t[i].vramStatus = 3 /\ t[i].refs = s[i].refs
      /\ \A k \in Slots \ {i} : t[k] = s[k]
    BY <1>1, <1>2, <1>3, SourcedWhole
<1>. DEFINE y == m'
<1>. HIDE DEF t
<1>5. y = [m EXCEPT !.slots = t]
    BY <1>1
<1>. HIDE DEF y
<1>6. Memo(y, t, m.unk_3, m.index, m.offset)
    BY <1>2, <1>4, <1>5, SlotsIs
<1>7. y.slots = t /\ y.unk_3 = m.unk_3 /\ y.index = m.index /\ y.offset = m.offset
    BY <1>6 DEF Memo
<1>8. Present' = Present
    BY <1>1 DEF Present
<1>9. \A x \in Entities : pic'[x] = IF x = e THEN f ELSE pic[x]
    BY <1>1, <1>2 DEF Others
<1>. DEFINE es == Present
            ix == m.index
            of == m.offset
            leak == leaked
            pc == pic
            ln == lender
            pn == pic'
<1>10. /\ Referred(s, ix, es, leak) /\ Pointing(s, ix, of, es, pc, ln)
       /\ es \in SUBSET Entities /\ e \in es /\ ix[e] = i /\ s[ix[e]].refs = 1 /\ ix[e] \in General
       /\ \A x \in es : pn[x] = IF x = e THEN f ELSE pc[x]
    BY <1>1, <1>2, <1>3, <1>9 DEF SoundInv, RoomInv
<1>11. /\ \A k \in General : t[k].refs = s[k].refs
       /\ \A k \in General : k # i => t[k].src = s[k].src
    BY <1>4, Sizes
<1>. HIDE DEF s, i, es, ix, of, leak, pc, ln, pn
<1>12. Referred(t, ix, es, leak)
    BY <1>10, <1>11, SameReferred
<1>13. Pointing(t, ix, of, es, pn, ln)
  <2>1. \A x \in es : ix[x] = i => x = e
      BY <1>10, OneHolder
  <2>2. f # None /\ None \notin Entities
      BY <1>2, Filled, PoolAssumption
  <2>3. ln[e] = None
      BY <1>10 DEF Pointing
  <2>. QED  BY <1>4, <1>10, <1>11, <2>1, <2>2, <2>3 DEF Pointing
<1>14. y.unk_3 = 0 => InMemory(t, drawn')
  <2>. SUFFICES ASSUME y.unk_3 = 0 PROVE InMemory(t, drawn')
      OBVIOUS
  <2>1. InMemory(s, drawn)
      BY <1>7 DEF SoundInv, RoomInv, s
  <2>2. drawn' = {k \in drawn : Source(t, k) = Source(s, k)}
      BY <1>1, <1>7 DEF NotUploaded, s, y
  <2>3. \A k \in General : t[k].src # None /\ t[k].vramStatus = 1 =>
               s[k].src = t[k].src /\ s[k].vramStatus = 1
      BY <1>4, Sizes
  <2>. QED  BY <1>2, <1>4, <2>1, <2>2, <2>3, InMemoryStays
<1>15. RoomInv'
    BY <1>1, <1>4, <1>7, <1>8, <1>12, <1>13, <1>14 DEF RoomInv, y, es, ix, of, leak, ln, pn
<1>16. AwayInv'
  <2>1. \A x \in away : x \in Entities /\ x # e
      BY <1>2 DEF Others
  <2>2. \A x \in away : /\ m'.index[x] = m.index[x] /\ m'.offset[x] = m.offset[x]
                        /\ pic'[x] = pic[x] /\ lender'[x] = lender[x]
      BY <1>1, <1>7, <1>9, <2>1 DEF y
  <2>. QED  BY <1>1, <2>2, AwayStays DEF SoundInv
<1>17. GoneInv'
    BY <1>1, <1>2, <1>7, <1>9 DEF SoundInv, GoneInv, y
<1>. QED  BY <1>15, <1>16, <1>17 DEF SoundInv

LEMMA BorrowSound ==
    ASSUME TypeInv, SoundInv, NEW e \in Entities, NEW p \in Entities, Borrow(e, p)
    PROVE  SoundInv'
<1>. DEFINE y == m'
            o == [m.offset EXCEPT ![e] = m.offset[p]]
<1>1. /\ e \in Present /\ p \in Present /\ m.index[e] = 0 /\ m.index[p] \in General
      /\ y = [m EXCEPT !.offset = o] /\ lender' = [lender EXCEPT ![e] = p]
      /\ UNCHANGED <<drawn, live, away, stash, pic, leaked, sound>>
  <2>1. y = [m EXCEPT !.offset = o]
      BY Zenon DEF Borrow
  <2>. QED  BY <2>1 DEF Borrow
<1>2. /\ Memory(m) /\ Others /\ m \in Memories /\ m.offset \in [Entities -> Slots]
      /\ m.index \in [Entities -> Slots] /\ m.slots \in Tables /\ m.unk_3 \in {0, 1}
      /\ Present \in SUBSET Entities /\ e \in live /\ e \notin away
    BY <1>1, TypeParts, MemoryType DEF Memory, Others, Present
<1>3. o \in [Entities -> Slots] /\ \A x \in Entities : o[x] = IF x = e THEN m.offset[p] ELSE m.offset[x]
    BY <1>2
<1>. HIDE DEF y, o
<1>4. Memo(y, m.slots, m.unk_3, m.index, o)
    BY <1>1, <1>2, <1>3, MemoExcept
<1>5. y.slots = m.slots /\ y.unk_3 = m.unk_3 /\ y.index = m.index /\ y.offset = o
    BY <1>4 DEF Memo
<1>6. \A x \in Entities : lender'[x] = IF x = e THEN p ELSE lender[x]
    BY <1>1, <1>2 DEF Others
<1>7. Present' = Present
    BY <1>1 DEF Present
<1>. DEFINE s == m.slots
            es == Present
            ix == m.index
            of == m.offset
            pc == pic
            ln == lender
            lm == lender'
<1>8. /\ Pointing(s, ix, of, es, pc, ln) /\ es \in SUBSET Entities /\ e \in es /\ p \in es
      /\ ix[e] = 0 /\ ix[p] \in General
      /\ \A x \in es : o[x] = IF x = e THEN of[p] ELSE of[x]
      /\ \A x \in es : lm[x] = IF x = e THEN p ELSE ln[x]
    BY <1>1, <1>2, <1>3, <1>6 DEF SoundInv, RoomInv
<1>. HIDE DEF s, es, ix, of, pc, ln, lm
<1>9. Pointing(s, ix, o, es, pc, lm)
  <2>1. 0 \notin General /\ None \notin Entities
      BY Sizes, PoolAssumption
  <2>2. pc[e] = None /\ of[p] = ix[p] /\ p # e /\ p # None
      BY <1>8, <2>1 DEF Pointing
  <2>. QED  BY <1>8, <2>1, <2>2 DEF Pointing
<1>10. RoomInv'
    BY <1>1, <1>5, <1>7, <1>9 DEF SoundInv, RoomInv, s, es, ix, pc, lm, y
<1>11. AwayInv'
  <2>1. \A x \in away : x \in Entities /\ x # e
      BY <1>2 DEF Others
  <2>2. \A x \in away : /\ m'.index[x] = m.index[x] /\ m'.offset[x] = m.offset[x]
                        /\ pic'[x] = pic[x] /\ lender'[x] = lender[x]
      BY <1>1, <1>3, <1>5, <1>6, <2>1 DEF y
  <2>. QED  BY <1>1, <2>2, AwayStays DEF SoundInv
<1>12. GoneInv'
    BY <1>1, <1>2, <1>5, <1>6 DEF SoundInv, GoneInv, y
<1>. QED  BY <1>10, <1>11, <1>12 DEF SoundInv

\* e leaves its run: so for Unload, and for DeleteEntity.
Left(e) ==
    /\ m' = Parted(UnloadGFXSlots(m, e), {e} \cup Borrowers(e))
    /\ pic' = [pic EXCEPT ![e] = None]
    /\ Part(e)
    /\ UNCHANGED <<drawn, away, stash, leaked, sound>>

LEMMA LeftRoom ==
    ASSUME TypeInv, SoundInv, NEW e \in Present, Left(e)
    PROVE  /\ Whole(m'.slots)
           /\ Referred(m'.slots, m'.index, Present, leaked')
           /\ Pointing(m'.slots, m'.index, m'.offset, Present, pic', lender')
           /\ m'.unk_3 = 0 => InMemory(m'.slots, drawn')
           /\ m'.index[e] = 0 /\ pic'[e] = None /\ lender'[e] = None
           /\ AwayInv'
           /\ \A x \in Entities \ live : m'.index[x] = 0 /\ pic'[x] = None /\ lender'[x] = None
<1>. DEFINE s == m.slots
            i == m.index[e]
            kept == i = 0 \/ s[i].status \notin InUse \/ s[i].refs = 0
            q == UnloadGFXSlots(m, e)
            t == IF kept THEN s ELSE DropReference(s, i)
            y == m'
            gone == {e} \cup Borrowers(e)
            es == Present
            ix == m.index
            of == m.offset
            leak == leaked
            pc == pic
            ln == lender
            pn == pic'
            lm == lender'
<1>1. /\ Memory(m) /\ Others /\ Table(s) /\ es \in SUBSET Entities /\ e \in Entities
      /\ e \in live /\ e \notin away /\ e # None /\ away \in SUBSET Entities
    BY TypeParts, PoolAssumption DEF Memory, Others, Present
<1>2. /\ Whole(s) /\ Referred(s, ix, es, leak) /\ Pointing(s, ix, of, es, pc, ln)
      /\ m.unk_3 = 0 => InMemory(s, drawn)
    BY DEF SoundInv, RoomInv
<1>3. i \in Slots /\ ix \in [Entities -> Slots] /\ of \in [Entities -> Slots]
    BY <1>1, MemoryType DEF Memory
<1>4. /\ y = Parted(q, gone) /\ UNCHANGED <<drawn, away, stash, leaked, sound>>
      /\ \A x \in Entities : pn[x] = IF x = e THEN None ELSE pc[x]
      /\ \A x \in Entities : lm[x] = IF x = e \/ ln[x] = e THEN None ELSE ln[x]
    BY <1>1 DEF Left, Part, Others
<1>5. Memo(q, t, m.unk_3, [ix EXCEPT ![e] = 0], of) /\ Memory(q)
    BY <1>1, UnloadIs
<1>6. \A x \in Entities : x \in gone <=> x = e \/ ln[x] = e
    BY <1>1 DEF Borrowers
<1>7. i \in General => i \in Heads(s) /\ s[i].refs # 0
  <2>. SUFFICES ASSUME i \in General PROVE i \in Heads(s) /\ s[i].refs # 0
      OBVIOUS
  <2>1. /\ ix[e] \in General /\ ix[e] = i /\ e \in es
      OBVIOUS
  <2>. HIDE DEF s, ix, es, leak, i
  <2>. QED  BY <1>1, <1>2, <2>1, HolderFacts
\* What becomes of the table.
<1>8. /\ Whole(t) /\ Table(t) /\ Counts(s, t, i, s[i].refs - 1)
      /\ \A k \in Slots : t[k].src = s[k].src /\ t[k].vramStatus = s[k].vramStatus
  <2>1. CASE i \in General
    <3>1. i \in Heads(s) /\ ~kept
        BY <1>7, <2>1, Sizes DEF Heads
    <3>. DEFINE u == DropReference(s, i)
    <3>2. t = u
        BY <3>1
    <3>3. /\ Table(u) /\ Whole(u) /\ SameContents(s, u)
          /\ \A k \in Slots : u[k].vramStatus = s[k].vramStatus
          /\ u[i].refs = s[i].refs - 1
          /\ \A k \in General : k # i => u[k].refs = s[k].refs
        BY <1>1, <1>2, <3>1, DroppedWhole
    <3>. HIDE DEF t, u, s, i
    <3>. QED  BY <3>2, <3>3 DEF SameContents, Counts
  <2>2. CASE i \notin General
    <3>1. i \in 0 .. Reserved - 1
        BY <1>3, <2>2, Sizes
    <3>2. s[i].status \notin InUse
        BY <1>2, <3>1, Names DEF Whole, Cut
    <3>3. t = s
        BY <3>2
    <3>. HIDE DEF t, s, i
    <3>. QED  BY <1>1, <1>2, <2>2, <3>3 DEF Counts
  <2>. QED  BY <2>1, <2>2
<1>. HIDE DEF q, t, y, gone
<1>9. /\ y.slots = t /\ y.unk_3 = m.unk_3
      /\ \A x \in Entities : /\ y.index[x] = IF x = e THEN 0 ELSE ix[x]
                             /\ y.offset[x] = IF x = e \/ ln[x] = e THEN 0 ELSE of[x]
  <2>1. Memo(y, q.slots, q.unk_3, q.index, [x \in Entities |-> IF x \in gone THEN 0 ELSE q.offset[x]])
      BY <1>4, <1>5, PartedIs
  <2>2. q.slots = t /\ q.unk_3 = m.unk_3 /\ q.index = [ix EXCEPT ![e] = 0] /\ q.offset = of
      BY <1>5 DEF Memo
  <2>. HIDE DEF s, i, kept, es, ix, of, leak, pc, ln, pn, lm
  <2>. QED  BY <1>3, <1>6, <2>1, <2>2 DEF Memo
<1>10. i = ix[e] /\ e \in es
    OBVIOUS
<1>. DEFINE iy == y.index
            oy == y.offset
<1>. HIDE DEF s, i, kept, es, ix, of, leak, pc, ln, pn, lm
<1>11. Referred(t, iy, es, leak)
  <2>1. Takes(e, 0, es, ix, iy)
      BY <1>1, <1>9 DEF Takes
  <2>2. Counts(s, t, ix[e], s[ix[e]].refs - 1)
      BY <1>8, <1>10
  <2>. HIDE DEF iy
  <2>. QED  BY <1>1, <1>2, <1>10, <2>1, <2>2, LeftReferred
<1>12. Pointing(t, iy, oy, es, pn, lm)
  <2>. DEFINE z == 0
              none == None
  <2>1. /\ iy[e] = z /\ oy[e] = z /\ pn[e] = none /\ lm[e] = None /\ z \in Slots
        /\ none # None => z \in General /\ t[z].src = none
      BY <1>1, <1>4, <1>9, Sizes
  <2>2. \A x \in es : x # e => /\ iy[x] = ix[x] /\ pn[x] = pc[x]
                               /\ ln[x] # e => oy[x] = of[x] /\ lm[x] = ln[x]
                               /\ ln[x] = e => lm[x] = None
      BY <1>1, <1>4, <1>9
  <2>3. \A x \in es : x # e /\ ix[x] \in General => t[ix[x]].src = s[ix[x]].src
      BY <1>8, Sizes
  <2>. HIDE DEF iy, oy, z, none
  <2>. QED  BY <1>1, <1>2, <1>10, <2>1, <2>2, <2>3, RepointedPointing
<1>13. y.unk_3 = 0 => InMemory(t, drawn')
  <2>. SUFFICES ASSUME y.unk_3 = 0 PROVE InMemory(t, drawn')
      OBVIOUS
  <2>1. InMemory(s, drawn)
      BY <1>2, <1>9
  <2>2. \A k \in General : t[k].src = s[k].src /\ t[k].vramStatus = s[k].vramStatus
      BY <1>8, Sizes
  <2>. QED  BY <1>4, <2>1, <2>2 DEF InMemory
<1>14. AwayInv'
  <2>1. \A x \in away : x \in Entities /\ x # e /\ ln[x] # e
      BY <1>1, BorrowersNear DEF ln, es
  <2>2. \A x \in away : /\ y.index[x] = ix[x] /\ y.offset[x] = of[x]
                        /\ pn[x] = pc[x] /\ lm[x] = ln[x]
      BY <1>4, <1>9, <2>1
  <2>. QED  BY <1>4, <2>2, AwayStays DEF SoundInv, y, ix, of, pn, pc, lm, ln
<1>15. \A x \in Entities \ live : y.index[x] = 0 /\ pn[x] = None /\ lm[x] = None
  <2>1. \A x \in Entities \ live : ix[x] = 0 /\ pc[x] = None /\ ln[x] = None /\ x # e
      BY <1>1 DEF SoundInv, GoneInv, ix, pc, ln
  <2>. QED  BY <1>1, <1>4, <1>9, <2>1
<1>16. y.index[e] = 0 /\ pn[e] = None /\ lm[e] = None
    BY <1>1, <1>4, <1>9
<1>. QED  BY <1>4, <1>8, <1>9, <1>11, <1>12, <1>13, <1>14, <1>15, <1>16
          DEF y, iy, oy, es, leak, pn, lm

LEMMA UnloadSound ==
    ASSUME TypeInv, SoundInv, NEW e \in Entities, Unload(e)
    PROVE  SoundInv'
<1>1. e \in Present /\ Left(e) /\ UNCHANGED <<live, away>>
    BY DEF Unload, Left
<1>2. Present' = Present
    BY <1>1 DEF Present
<1>. QED  BY <1>1, <1>2, LeftRoom DEF SoundInv, RoomInv, GoneInv

LEMMA DeleteSound ==
    ASSUME TypeInv, SoundInv, NEW e \in Entities, DeleteEntity(e)
    PROVE  SoundInv'
<1>1. e \in Present /\ Left(e) /\ live' = live \ {e} /\ UNCHANGED away
    BY DEF DeleteEntity, Left
<1>2. Present' = Present \ {e} /\ Present \in SUBSET Entities
    BY <1>1, TypeParts DEF Present, Others
<1>. DEFINE s == m'.slots
            ix == m'.index
            of == m'.offset
            es == Present
            fs == Present \ {e}
            leak == leaked'
            pc == pic'
            ln == lender'
<1>3. /\ Whole(s) /\ Referred(s, ix, es, leak) /\ Pointing(s, ix, of, es, pc, ln)
      /\ m'.unk_3 = 0 => InMemory(s, drawn')
      /\ ix[e] = 0 /\ pc[e] = None /\ ln[e] = None /\ AwayInv'
      /\ \A x \in Entities \ live : ix[x] = 0 /\ pc[x] = None /\ ln[x] = None
    BY <1>1, LeftRoom
<1>4. es \in SUBSET Entities /\ fs \in SUBSET es /\ fs = es \ {e} /\ 0 \notin General
    BY <1>2, Sizes
<1>. HIDE DEF s, ix, of, es, fs, leak, pc, ln
<1>5. \A k \in General, x \in es \cup fs : (x \in fs /\ ix[x] = k) <=> (x \in es /\ ix[x] = k)
    BY <1>3, <1>4
<1>6. Referred(s, ix, fs, leak)
    BY <1>3, <1>5, SameReferred
<1>7. \A x \in fs : ln[x] # None => ln[x] \in fs
    BY <1>3, <1>4 DEF Pointing
<1>8. Pointing(s, ix, of, fs, pc, ln)
    BY <1>3, <1>4, <1>7, SamePointing
<1>9. RoomInv'
    BY <1>2, <1>3, <1>6, <1>8 DEF RoomInv, s, ix, of, fs, leak, pc, ln
<1>10. GoneInv'
    BY <1>1, <1>3 DEF GoneInv, ix, pc, ln
<1>. QED  BY <1>3, <1>9, <1>10 DEF SoundInv

\* Uploads take nothing from anybody.
LEMMA UploadedRoom ==
    ASSUME NEW s, Table(s), Whole(s), NEW t, NEW es \in SUBSET Entities,
           NEW index, NEW offset, NEW pc, NEW ln, NEW leak, Referred(s, index, es, leak),
           Pointing(s, index, offset, es, pc, ln),
           \A k \in General : t[k].refs = s[k].refs, \A k \in Heads(s) : t[k].src = s[k].src
    PROVE  Referred(t, index, es, leak) /\ Pointing(t, index, offset, es, pc, ln)
<1>1. Referred(t, index, es, leak)
    BY DEF Referred
<1>2. \A x \in es : index[x] \in General => t[index[x]].src = s[index[x]].src
    BY HeldSource
<1>3. Pointing(t, index, offset, es, pc, ln)
    BY <1>2 DEF Pointing
<1>. QED  BY <1>1, <1>3

LEMMA FrameSound ==
    ASSUME TypeInv, SoundInv, Frame
    PROVE  SoundInv'
<1>. DEFINE s == m.slots
            y == m'
            t == m'.slots
            es == Present
            ix == m.index
            of == m.offset
            leak == leaked
            pc == pic
            ln == lender
            d == drawn
            e == drawn'
            up == Uploads(s, m.unk_3 = 1)
<1>1. /\ Memory(m) /\ Table(s) /\ es \in SUBSET Entities /\ m.unk_3 \in {0, 1}
    BY TypeParts, MemoryType DEF Memory, Others, Present
<1>2. /\ Whole(s) /\ Referred(s, ix, es, leak) /\ Pointing(s, ix, of, es, pc, ln)
      /\ m.unk_3 = 0 => InMemory(s, d)
    BY DEF SoundInv, RoomInv
<1>3. /\ y = UploadSlots(m) /\ e = Drawn(s, up) \cup {k \in d : Source(t, k) = Source(s, k)}
      /\ UNCHANGED <<live, away, stash, pic, lender, leaked, sound>>
    BY DEF Frame
<1>4. Present' = Present
    BY <1>3 DEF Present
<1>5. /\ y.index = ix /\ y.offset = of /\ y.unk_3 = 0
      /\ m.unk_3 = 1 => t = Everything(s)
      /\ m.unk_3 = 0 => t = Settled(s, Uploads(s, FALSE))
  <2>. HIDE DEF y
  <2>1. /\ m.unk_3 = 1 => Memo(y, Everything(s), 0, ix, of)
        /\ m.unk_3 = 0 => Memo(y, Settled(s, Uploads(s, FALSE)), 0, ix, of)
      BY <1>1, <1>3, UploadSlotsIs
  <2>. QED  BY <1>1, <2>1 DEF Memo, y
<1>. HIDE DEF y, d, e
<1>6. /\ Whole(t) /\ InMemory(t, e)
      /\ \A k \in General : t[k].refs = s[k].refs
      /\ \A k \in Heads(s) : t[k].src = s[k].src
  <2>1. CASE m.unk_3 = 1
    <3>1. t = Everything(s)
        BY <1>5, <2>1
    <3>2. Drawn(s, Uploads(s, TRUE)) \subseteq e
      <4>1. (m.unk_3 = 1) = TRUE
          BY <2>1
      <4>2. up = Uploads(s, TRUE)
          BY <4>1
      <4>. HIDE DEF up
      <4>. QED  BY <1>3, <4>2
    <3>. HIDE DEF s, t, up
    <3>3. /\ Whole(Everything(s))
          /\ \A k \in General : Everything(s)[k].refs = s[k].refs
          /\ \A k \in Heads(s) : Everything(s)[k].src = s[k].src
          /\ InMemory(Everything(s), Drawn(s, Uploads(s, TRUE)))
        BY <1>1, <1>2, EverythingDrawn
    <3>4. InMemory(t, e)
        BY <3>1, <3>2, <3>3 DEF InMemory
    <3>. QED  BY <3>1, <3>3, <3>4
  <2>2. CASE m.unk_3 = 0
    <3>1. t = Settled(s, Uploads(s, FALSE)) /\ InMemory(s, d)
        BY <1>2, <1>5, <2>2
    <3>2. e = Drawn(s, Uploads(s, FALSE)) \cup {k \in d : Source(t, k) = Source(s, k)}
      <4>1. (m.unk_3 = 1) = FALSE
          BY <2>2
      <4>2. up = Uploads(s, FALSE)
          BY <4>1
      <4>. HIDE DEF up
      <4>. QED  BY <1>3, <4>2
    <3>. DEFINE x == Uploads(s, FALSE)
                z == Settled(s, x)
    <3>. HIDE DEF s, t, up
    <3>3. /\ Table(z) /\ Whole(z)
          /\ \A k \in General : z[k].refs = s[k].refs
          /\ \A k \in Heads(s) : z[k].src = s[k].src
          /\ InMemory(z, Drawn(s, x) \cup {k \in d : Source(z, k) = Source(s, k)})
        BY <1>1, <1>2, <3>1, SettledDrawn
    <3>4. t = z /\ e = Drawn(s, x) \cup {k \in d : Source(t, k) = Source(s, k)}
        BY <3>1, <3>2
    <3>. HIDE DEF z, x
    <3>5. InMemory(t, e)
        BY <3>3, <3>4
    <3>. QED  BY <3>3, <3>4, <3>5
  <2>. QED  BY <1>1, <2>1, <2>2
<1>. HIDE DEF s, t, es, ix, of, leak, pc, ln, up
<1>7. Referred(t, ix, es, leak) /\ Pointing(t, ix, of, es, pc, ln)
    BY <1>1, <1>2, <1>6, UploadedRoom
<1>8. RoomInv'
    BY <1>3, <1>4, <1>5, <1>6, <1>7 DEF RoomInv, y, t, es, ix, of, leak, pc, ln, e
<1>9. AwayInv'
    BY <1>3, <1>5, AwayStays DEF SoundInv, ix, of, y
<1>10. GoneInv'
    BY <1>3, <1>5 DEF SoundInv, GoneInv, ix, y
<1>. QED  BY <1>8, <1>9, <1>10 DEF SoundInv

\* An empty table is right for nobody.
LEMMA EmptyRoom ==
    ASSUME NEW index, NEW offset, NEW pc, NEW ln, NEW leak, NEW d
    PROVE  /\ Table(EmptyTable) /\ Whole(EmptyTable)
           /\ Referred(EmptyTable, index, {}, leak)
           /\ Pointing(EmptyTable, index, offset, {}, pc, ln)
           /\ InMemory(EmptyTable, d)
<1>1. \A k \in General : EmptyTable[k].refs = 0 /\ EmptyTable[k].src = None
    BY EmptySet, BareFree, Sizes
<1>2. \A k : HeldBy(index, {}, k) = {}
    BY DEF HeldBy
<1>3. Referred(EmptyTable, index, {}, leak)
    BY <1>1, <1>2, FS_EmptySet DEF Referred
<1>4. InMemory(EmptyTable, d)
    BY <1>1 DEF InMemory
<1>5. Pointing(EmptyTable, index, offset, {}, pc, ln)
    BY DEF Pointing
<1>. QED  BY <1>3, <1>4, <1>5, EmptyWhole, EmptySet

LEMMA NewRoomSound ==
    ASSUME NewRoom
    PROVE  SoundInv'
<1>1. /\ m' = Fresh /\ live' = {} /\ away' = {} /\ stash' = <<>>
      /\ pic' = [e \in Entities |-> None] /\ lender' = [e \in Entities |-> None]
    BY DEF NewRoom, Fresh
<1>2. Present' = {}
    BY <1>1 DEF Present
<1>3. m'.slots = EmptyTable /\ m'.index = [e \in Entities |-> 0]
    BY <1>1, FreshIs
<1>4. RoomInv'
  <2>. DEFINE ix == m'.index
              of == m'.offset
              leak == leaked'
              pc == pic'
              ln == lender'
              d == drawn'
              s == m'.slots
  <2>1. s = EmptyTable
      BY <1>3
  <2>. HIDE DEF ix, of, leak, pc, ln, d, s
  <2>2. /\ Whole(s) /\ Referred(s, ix, {}, leak) /\ Pointing(s, ix, of, {}, pc, ln) /\ InMemory(s, d)
      BY <2>1, EmptyRoom
  <2>. QED  BY <1>2, <2>2 DEF RoomInv, ix, of, leak, pc, ln, d, s
<1>5. AwayInv'
    BY <1>1 DEF AwayInv
<1>6. GoneInv'
    BY <1>1, <1>3 DEF GoneInv
<1>. QED  BY <1>4, <1>5, <1>6 DEF SoundInv

-----------------------------------------------------------------------------
(* Subtasks.                                                               *)

\* The room of a subtask is empty at first.
LEMMA SubtaskRoom ==
    ASSUME m'.slots = EmptyTable, Present' = {}
    PROVE  RoomInv'
<1>. DEFINE ix == m'.index
            of == m'.offset
            leak == leaked'
            pc == pic'
            ln == lender'
            d == drawn'
            s == m'.slots
<1>1. s = EmptyTable
    OBVIOUS
<1>. HIDE DEF ix, of, leak, pc, ln, d, s
<1>2. /\ Whole(s) /\ Referred(s, ix, {}, leak) /\ Pointing(s, ix, of, {}, pc, ln) /\ InMemory(s, d)
    BY <1>1, EmptyRoom
<1>. QED  BY <1>2 DEF RoomInv, ix, of, leak, pc, ln, d, s

LEMMA SubtaskEnterSound ==
    ASSUME TypeInv, SoundInv, SubtaskEnter
    PROVE  SoundInv'
<1>. DEFINE y == m'
            t == EmptyTable
<1>1. /\ stash = <<>> /\ stash' = m.slots /\ away' = live /\ drawn' = {}
      /\ y = [m EXCEPT !.slots = t, !.unk_3 = 0]
      /\ UNCHANGED <<live, pic, lender, leaked, sound>>
    BY DEF SubtaskEnter
<1>2. Memory(m) /\ Others /\ Table(t)
    BY TypeParts, EmptySet
<1>. HIDE DEF y, t
<1>3. Memo(y, t, 0, m.index, m.offset)
    BY <1>1, <1>2, FreshSlotsIs
<1>4. y.slots = t /\ y.index = m.index /\ y.offset = m.offset
    BY <1>3 DEF Memo
<1>5. away = {} /\ Present = live /\ Present' = {}
    BY <1>1 DEF SoundInv, AwayInv, Present
<1>6. RoomInv'
    BY <1>4, <1>5, SubtaskRoom DEF y, t
<1>7. m.slots # <<>>
  <2>1. DOMAIN m.slots = Slots /\ 0 \in Slots
      BY <1>2, Sizes DEF Memory, Table
  <2>2. 0 \notin DOMAIN <<>>
      OBVIOUS
  <2>. QED  BY <2>1, <2>2
<1>8. AwayInv'
    BY <1>1, <1>4, <1>5, <1>7 DEF AwayInv, SoundInv, RoomInv, y
<1>9. GoneInv'
    BY <1>1, <1>4 DEF SoundInv, GoneInv, y
<1>. QED  BY <1>6, <1>8, <1>9 DEF SoundInv

\* Who is away lends and borrows there.
LEMMA AwayFacts ==
    ASSUME TypeInv
    PROVE  /\ away \in SUBSET Entities /\ away \subseteq live /\ away \cap Present = {}
           /\ \A x \in Entities : x \in away \/ x \in Present \/ x \in Entities \ live
BY TypeParts DEF Others, Present

LEMMA SubtaskNextSound ==
    ASSUME TypeInv, SoundInv, SubtaskNext
    PROVE  SoundInv'
<1>. DEFINE y == m'
            t == EmptyTable
            gone == Present
            q == AllDeleted(m, gone)
<1>1. /\ y = [q EXCEPT !.slots = t, !.unk_3 = 0]
      /\ live' = away
      /\ pic' = [e \in Entities |-> IF e \in gone THEN None ELSE pic[e]]
      /\ lender' = [e \in Entities |-> IF e \in gone THEN None ELSE lender[e]]
      /\ UNCHANGED <<away, stash, leaked, sound>>
    BY DEF SubtaskNext
<1>2. Memory(m) /\ Others /\ Table(t)
    BY TypeParts, EmptySet
<1>. HIDE DEF y, t, q, gone
<1>3. /\ Memory(q)
      /\ Memo(q, m.slots, m.unk_3,
              [x \in Entities |-> IF x \in gone THEN 0 ELSE m.index[x]],
              [x \in Entities |-> IF x \in gone THEN 0 ELSE m.offset[x]])
    BY <1>2, AllDeletedIs DEF q
<1>4. Memo(y, t, 0, q.index, q.offset)
    BY <1>1, <1>2, <1>3, FreshSlotsIs
<1>5. /\ y.slots = t
      /\ \A x \in Entities : /\ y.index[x] = IF x \in gone THEN 0 ELSE m.index[x]
                             /\ y.offset[x] = IF x \in gone THEN 0 ELSE m.offset[x]
                             /\ pic'[x] = IF x \in gone THEN None ELSE pic[x]
                             /\ lender'[x] = IF x \in gone THEN None ELSE lender[x]
    BY <1>1, <1>3, <1>4 DEF Memo
<1>6. Present' = {}
    BY <1>1 DEF Present
<1>7. RoomInv'
    BY <1>5, <1>6, SubtaskRoom DEF y, t
<1>8. AwayInv'
  <2>1. \A x \in away : x \in Entities /\ x \notin gone
      BY AwayFacts DEF gone
  <2>2. \A x \in away : /\ y.index[x] = m.index[x] /\ y.offset[x] = m.offset[x]
                        /\ pic'[x] = pic[x] /\ lender'[x] = lender[x]
      BY <1>5, <2>1
  <2>. QED  BY <1>1, <2>2, AwayStays DEF SoundInv, y
<1>9. GoneInv'
  <2>1. \A x \in Entities \ away : x \in gone \/ x \in Entities \ live
      BY AwayFacts DEF gone
  <2>2. \A x \in Entities \ away : y.index[x] = 0 /\ pic'[x] = None /\ lender'[x] = None
      BY <1>5, <2>1 DEF SoundInv, GoneInv
  <2>. QED  BY <1>1, <2>2 DEF GoneInv, y
<1>. QED  BY <1>7, <1>8, <1>9 DEF SoundInv

\* What SubtaskLeave puts back, and what is left of it when it is cleaned up.
Before == [AllDeleted(m, Present) EXCEPT !.slots = stash]
Back == CleanUpGFXSlots(Before, away)

LEMMA BackIs ==
    ASSUME TypeInv, SoundInv, SubtaskLeave
    PROVE  /\ Memory(Back) /\ m' = UploadEverything(Back)
           /\ \A x \in Entities \ away : /\ Before.index[x] = 0
                                        /\ pic'[x] = None /\ lender'[x] = None
           /\ Back.slots[0].status = "PALETTE" \/ IdleSlots(stash) # {} =>
                Cleaned(Before, away, away, leaked, pic', lender', Back)
<1>. DEFINE y == m'
            gone == Present
            q == AllDeleted(m, gone)
            b == Before
            es == away
            back == Back
            pc == pic
            ln == lender
            leak == leaked
            pn == pic'
            lm == lender'
<1>1. /\ stash # <<>> /\ y = UploadEverything(back)
      /\ pn = [x \in Entities |-> IF x \in gone THEN None ELSE pc[x]]
      /\ lm = [x \in Entities |-> IF x \in gone THEN None ELSE ln[x]]
    BY DEF SubtaskLeave, Back, Before
<1>2. /\ Memory(m) /\ Others /\ Table(stash) /\ es \in SUBSET Entities /\ es \subseteq live
      /\ \A x \in Entities : x \in es => x \notin gone
      /\ \A x \in Entities : x \notin es => x \in gone \/ x \in Entities \ live
    BY <1>1, TypeParts, AwayFacts DEF Others
<1>3. /\ Memory(q)
      /\ Memo(q, m.slots, m.unk_3,
              [x \in Entities |-> IF x \in gone THEN 0 ELSE m.index[x]],
              [x \in Entities |-> IF x \in gone THEN 0 ELSE m.offset[x]])
  <2>. HIDE DEF gone
  <2>. QED  BY <1>2, AllDeletedIs
<1>. HIDE DEF q
<1>4. Memory(b) /\ Memo(b, stash, q.unk_3, q.index, q.offset)
  <2>1. b = [q EXCEPT !.slots = stash]
      BY DEF Before, q
  <2>. HIDE DEF b
  <2>. QED  BY <1>2, <1>3, <2>1, SlotsIs
<1>. HIDE DEF b
<1>5. /\ b.slots = stash
      /\ \A x \in Entities : /\ b.index[x] = IF x \in gone THEN 0 ELSE m.index[x]
                             /\ b.offset[x] = IF x \in gone THEN 0 ELSE m.offset[x]
                             /\ pn[x] = IF x \in gone THEN None ELSE pc[x]
                             /\ lm[x] = IF x \in gone THEN None ELSE ln[x]
  <2>. HIDE DEF gone, y, es, back, pn, lm
  <2>. QED  BY <1>1, <1>3, <1>4 DEF Memo
<1>6. \A x \in es : /\ b.index[x] = m.index[x] /\ b.offset[x] = m.offset[x]
                    /\ pn[x] = pc[x] /\ lm[x] = ln[x]
  <2>. HIDE DEF gone, y, es, back, pn, lm
  <2>. QED  BY <1>2, <1>5
\* The table that was put away is whole, and its entities still point into it.
<1>. DEFINE s == stash
            ib == b.index
            ob == b.offset
<1>7. /\ Whole(s) /\ Referred(s, m.index, es, leak)
      /\ Pointing(s, m.index, m.offset, es, pc, ln)
    BY <1>1 DEF SoundInv, AwayInv
<1>8. Table(s)
    BY <1>2
<1>. HIDE DEF s, ib, ob, es, pc, ln, leak, pn, lm, y, gone
<1>9. Referred(s, ib, es, leak)
    BY <1>6, <1>7, SameReferred DEF ib
<1>10. \A x \in es : ln[x] # None => ln[x] \in es
    BY <1>7 DEF Pointing
<1>11. Pointing(s, ib, ob, es, pn, lm)
    BY <1>2, <1>6, <1>7, <1>10, SamePointing DEF ib, ob
<1>12. /\ b.slots = s /\ Memory(b) /\ Whole(b.slots) /\ es \in SUBSET Entities /\ es \subseteq es
       /\ Referred(b.slots, b.index, es, leak)
       /\ Pointing(b.slots, b.index, b.offset, es, pn, lm)
    BY <1>2, <1>4, <1>5, <1>7, <1>9, <1>11 DEF s, ib, ob
<1>13. back = CleanUpGFXSlots(b, es)
    BY DEF Back, back, b, es
<1>. HIDE DEF back, b
<1>14. back.slots[0].status = "PALETTE" \/ IdleSlots(s) # {} =>
           Cleaned(b, es, es, leak, pn, lm, back)
  <2>. DEFINE c == CleanUpGFXSlots(b, es)
  <2>1. /\ c.slots[0].status = "PALETTE" => Cleaned(b, es, es, leak, pn, lm, c)
        /\ IdleSlots(b.slots) # {} => Cleaned(b, es, es, leak, pn, lm, c)
      BY <1>12, CleanUpSound
  <2>. HIDE DEF c
  <2>2. back = c /\ b.slots = s
      BY <1>12, <1>13 DEF c
  <2>. QED  BY <2>1, <2>2
<1>15. Memory(back)
    BY <1>12, <1>13, CleanUpType
<1>16. \A x \in Entities \ es : b.index[x] = 0 /\ pn[x] = None /\ lm[x] = None
  <2>1. \A x \in Entities \ live : m.index[x] = 0 /\ pc[x] = None /\ ln[x] = None
      BY DEF SoundInv, GoneInv, pc, ln
  <2>. QED  BY <1>2, <1>5, <2>1
<1>. QED  BY <1>1, <1>14, <1>15, <1>16 DEF back, b, es, leak, pn, lm, s, y

LEMMA SubtaskLeaveSound ==
    ASSUME TypeInv, SoundInv, SubtaskLeave, sound'
    PROVE  SoundInv'
<1>. DEFINE y == m'
            es == away
            b == Before
            back == Back
            leak == leaked
            pn == pic'
            lm == lender'
            e == drawn'
<1>1. /\ e = Drawn(back.slots, Uploads(back.slots, TRUE))
      /\ \A k \in 0 .. Reserved - 1 : back.slots[k].status = "PALETTE"
      /\ live' = es /\ away' = {} /\ stash' = <<>> /\ leaked' = leaked
    BY DEF SubtaskLeave, Back, Before
<1>2. es \in SUBSET Entities
    BY AwayFacts
<1>12. /\ Cleaned(b, es, es, leak, pn, lm, back)
       /\ y = UploadEverything(back)
       /\ \A x \in Entities \ es : b.index[x] = 0 /\ pn[x] = None /\ lm[x] = None
  <2>1. back.slots[0].status = "PALETTE"
      BY <1>1, Sizes
  <2>. QED  BY <2>1, BackIs
<1>13. Memory(back)
    BY BackIs
<1>. HIDE DEF y, es, b, back, leak, pn, lm, e
\* And so after everything was uploaded.
<1>. DEFINE r == back.slots
            t == Everything(r)
            ir == back.index
            or == back.offset
<1>14. /\ Table(r) /\ Whole(r) /\ Referred(r, ir, es, leak) /\ Pointing(r, ir, or, es, pn, lm)
    BY <1>12, <1>13 DEF Cleaned, Memory
<1>15. Memo(y, t, 0, ir, or)
    BY <1>12, <1>13, UploadEverythingIs
<1>. HIDE DEF r, ir, or
<1>16. /\ Table(t) /\ Whole(t)
       /\ \A k \in General : t[k].refs = r[k].refs
       /\ \A k \in Heads(r) : t[k].src = r[k].src
       /\ InMemory(t, Drawn(r, Uploads(r, TRUE)))
    BY <1>14, EverythingDrawn
<1>17. y.slots = t /\ y.index = ir /\ y.offset = or /\ y.unk_3 = 0
    BY <1>15 DEF Memo
<1>. HIDE DEF t
<1>18. InMemory(t, e)
    BY <1>1, <1>16 DEF r
<1>19. Referred(t, ir, es, leak) /\ Pointing(t, ir, or, es, pn, lm)
    BY <1>2, <1>14, <1>16, UploadedRoom
<1>20. Present' = es
    BY <1>1 DEF Present, es
<1>21. leaked' = leak
    BY <1>1 DEF leak
<1>22. RoomInv'
    BY <1>16, <1>17, <1>18, <1>19, <1>20, <1>21 DEF RoomInv, y, e, pn, lm
<1>23. AwayInv'
    BY <1>1 DEF AwayInv
<1>24. GoneInv'
  <2>1. \A x \in Entities \ es : ir[x] = 0
      BY <1>12 DEF Cleaned, ir
  <2>. QED  BY <1>1, <1>12, <1>17, <2>1 DEF GoneInv, y, pn, lm
<1>. QED  BY <1>22, <1>23, <1>24 DEF SoundInv

-----------------------------------------------------------------------------
(* The invariant and what follows from it.                                 *)

LEMMA InvInit == Init => IInv
<1>. SUFFICES ASSUME Init PROVE IInv
    OBVIOUS
<1>1. TypeInv
    BY TypeInit
<1>2. m = Fresh /\ live = {} /\ away = {} /\ stash = <<>>
    BY DEF Init, Fresh
<1>3. m.slots = EmptyTable /\ m.index = [e \in Entities |-> 0] /\ Present = {}
    BY <1>2, FreshIs DEF Present
<1>4. RoomInv
  <2>. DEFINE ix == m.index
              of == m.offset
              leak == leaked
              pc == pic
              ln == lender
              d == drawn
              s == m.slots
  <2>1. s = EmptyTable
      BY <1>3
  <2>. HIDE DEF ix, of, leak, pc, ln, d, s
  <2>2. /\ Whole(s) /\ Referred(s, ix, {}, leak) /\ Pointing(s, ix, of, {}, pc, ln) /\ InMemory(s, d)
      BY <2>1, EmptyRoom
  <2>. QED  BY <1>3, <2>2 DEF RoomInv, ix, of, leak, pc, ln, d, s
<1>5. AwayInv /\ GoneInv
    BY <1>2, <1>3 DEF AwayInv, GoneInv, Init
<1>. QED  BY <1>1, <1>4, <1>5 DEF IInv, SoundInv

LEMMA InvStep == IInv /\ [Next]_vars => IInv'
<1>. SUFFICES ASSUME IInv, [Next]_vars PROVE IInv'
    OBVIOUS
<1>1. TypeInv /\ TypeInv'
    BY TypeStep DEF IInv
<1>2. SUFFICES ASSUME sound' PROVE SoundInv'
    BY <1>1 DEF IInv
<1>3. ASSUME sound PROVE SoundInv
    BY <1>3 DEF IInv
<1>4. CASE UNCHANGED vars
  <2>1. SoundInv
      BY <1>2, <1>3, <1>4 DEF vars
  <2>. QED  BY <1>4, <2>1 DEF vars, SoundInv, RoomInv, AwayInv, GoneInv, Present
<1>5. ASSUME NEW e \in Entities, Create(e) PROVE SoundInv'
    BY <1>1, <1>2, <1>3, <1>5, CreateSound DEF Create
<1>6. ASSUME NEW e \in Entities, NEW g \in Fixed, LoadFixed(e, g) PROVE SoundInv'
    BY <1>1, <1>2, <1>3, <1>6, LoadFixedSound DEF LoadFixed, Load
<1>7. ASSUME NEW e \in Entities, NEW n \in RunSizes, LoadSwap(e, n, 0) PROVE SoundInv'
  <2>. DEFINE i == 0
  <2>1. n \in 1 .. NSlots /\ i \in 0 .. Reserved - 1 /\ (i # 0 => n = 1) /\ LoadSwap(e, n, i)
      BY <1>7, Sizes, PoolAssumption
  <2>2. SoundInv
      BY <1>2, <1>3, <1>7 DEF LoadSwap, Load
  <2>. HIDE DEF i
  <2>. QED  BY <1>1, <1>2, <2>1, <2>2, LoadSwapSound
<1>8. ASSUME NEW e \in Entities, NEW i \in 1 .. Reserved - 1, LoadSwap(e, 1, i) PROVE SoundInv'
  <2>. DEFINE n == 1
  <2>1. n \in 1 .. NSlots /\ i \in 0 .. Reserved - 1 /\ (i # 0 => n = 1) /\ LoadSwap(e, n, i)
      BY <1>8, Sizes
  <2>2. SoundInv
      BY <1>2, <1>3, <1>8 DEF LoadSwap, Load
  <2>. HIDE DEF n
  <2>. QED  BY <1>1, <1>2, <2>1, <2>2, LoadSwapSound
<1>9. ASSUME NEW e \in Entities, NEW f \in Frames, Animate(e, f) PROVE SoundInv'
    BY <1>1, <1>2, <1>3, <1>9, AnimateSound DEF Animate
<1>10. ASSUME NEW e \in Entities, NEW p \in Entities, Borrow(e, p) PROVE SoundInv'
    BY <1>1, <1>2, <1>3, <1>10, BorrowSound DEF Borrow
<1>11. ASSUME NEW e \in Entities, Unload(e) PROVE SoundInv'
    BY <1>1, <1>2, <1>3, <1>11, UnloadSound DEF Unload
<1>12. ASSUME NEW e \in Entities, DeleteEntity(e) PROVE SoundInv'
    BY <1>1, <1>2, <1>3, <1>12, DeleteSound DEF DeleteEntity
<1>13. CASE Frame
    BY <1>1, <1>2, <1>3, <1>13, FrameSound DEF Frame
<1>14. CASE NewRoom
    BY <1>14, NewRoomSound
<1>15. CASE SubtaskEnter
    BY <1>1, <1>2, <1>3, <1>15, SubtaskEnterSound DEF SubtaskEnter
<1>16. CASE SubtaskNext
    BY <1>1, <1>2, <1>3, <1>16, SubtaskNextSound DEF SubtaskNext
<1>17. CASE SubtaskLeave
    BY <1>1, <1>2, <1>3, <1>17, SubtaskLeaveSound DEF SubtaskLeave
<1>. QED
  BY <1>4, <1>5, <1>6, <1>7, <1>8, <1>9, <1>10, <1>11, <1>12, <1>13, <1>14, <1>15, <1>16, <1>17
     DEF Next

\* Until a move hits the reserved slots or entities that are away: the pool and
\* the one a subtask put away are cut into whole runs, references are the
\* entities that hold them, what entities point at is what they asked for, and
\* video memory shows all but what is still to be uploaded.
THEOREM InvariantHolds == Spec => []IInv
<1>1. Init => IInv
    BY InvInit
<1>2. IInv /\ [Next]_vars => IInv'
    BY InvStep
<1>. QED  BY <1>1, <1>2, PTL DEF Spec

LEMMA WholeIntact ==
    ASSUME NEW s, Table(s), Whole(s)
    PROVE  Intact(s)
<1>1. \A k \in 0 .. Reserved - 1 : s[k].status = "PALETTE"
    BY DEF Whole, Cut
<1>2. ASSUME NEW i \in Heads(s)
      PROVE  /\ Run(s, i) \subseteq General
             /\ \A k \in Run(s, i) \ {i} : s[k].status = "FOLLOWER"
  <2>1. i \in General /\ s[i].status \in InUse
      BY DEF Heads
  <2>2. \A k \in Rest(s, i) : s[k].status = "FOLLOWER"
      BY <2>1, RestFacts
  <2>. QED  BY <2>1, <2>2, SlotFacts DEF Rest
<1>3. ASSUME NEW k \in General, s[k].status = "FOLLOWER"
      PROVE  \E i \in Heads(s) : k \in Run(s, i)
    BY <1>3 DEF Whole, Cut, Heads, Rest
<1>. QED  BY <1>1, <1>2, <1>3 DEF Intact

\* The pool stays cut into runs that do not overlap, in the room and in what a
\* subtask put away: SetGFXSlotStatus, ReserveGFXSlots, MoveGFXSlots and
\* UnloadGFXSlots never leave part of a run behind.
THEOREM PoolStaysCut == Spec => []RunsIntact
<1>1. IInv => RunsIntact
    BY WholeIntact DEF IInv, SoundInv, RoomInv, AwayInv, TypeInv, RunsIntact
<1>. QED  BY <1>1, InvariantHolds, PTL

LEMMA ReferredCounted ==
    ASSUME NEW s, Table(s), Whole(s), NEW es \in SUBSET Entities,
           Referred(s, m.index, es, leaked)
    PROVE  Counted(s, es)
<1>. DEFINE ix == m.index
            leak == leaked
<1>1. Referred(s, ix, es, leak)
    OBVIOUS
<1>2. \A i : Holders(es, i) = HeldBy(ix, es, i)
    BY DEF Holders, HeldBy
<1>3. \A i \in General : /\ Cardinality(Holders(es, i)) <= s[i].refs
                         /\ ~leaked => Cardinality(Holders(es, i)) = s[i].refs
    BY <1>2 DEF Referred
<1>4. \A e \in es : m.index[e] \in General => m.index[e] \in Heads(s)
  <2>. HIDE DEF ix, leak
  <2>1. \A e \in es : ix[e] \in General => ix[e] \in Heads(s)
      BY <1>1, HolderFacts
  <2>. QED  BY <2>1 DEF ix
<1>. QED  BY <1>3, <1>4 DEF Counted, Heads

\* "How many entities use this gfx slot": the references of a run are its
\* holders, for the entities of the room and for those a subtask put away.
THEOREM ReferencesAreHolders == Spec => []ReferencesCounted
<1>1. TypeInv => Present \in SUBSET Entities /\ away \in SUBSET Entities
    BY DEF TypeInv, TypeOK, Present
<1>2. IInv => ReferencesCounted
    BY <1>1, ReferredCounted DEF IInv, SoundInv, RoomInv, AwayInv, TypeInv, ReferencesCounted
<1>. QED  BY <1>2, InvariantHolds, PTL

\* CleanUpGFXSlots leaves no gap: LoadFixedGFX refuses a graphic only when fewer
\* slots are idle than it fills.
THEOREM NoneRefusedWhileThereIsRoom == Spec => []RefusedOnlyWhenFull
<1>1. ASSUME IInv, sound, NEW e \in Present, NEW g \in Fixed,
             Cardinality(IdleSlots(m.slots)) >= SlotsOf[g]
      PROVE  LoadFixedGFX(m, live, e, g).ok
  <2>. DEFINE n == SlotsOf[g]
              r == LoadFixedGFX(m, live, e, g)
              a == Allocate(m, live, n)
              clean == CleanUpGFXSlots(m, live)
              q == [a.mem EXCEPT !.slots = FixedTable(@, a.at, g)]
  <2>1. TypeInv /\ SoundInv
      BY <1>1 DEF IInv
  <2>2. /\ Memory(m) /\ Table(m.slots) /\ Whole(m.slots) /\ e \in Entities
        /\ Present \in SUBSET Entities /\ Present \subseteq live
        /\ Referred(m.slots, m.index, Present, leaked)
        /\ Pointing(m.slots, m.index, m.offset, Present, pic, lender)
      BY <2>1, TypeParts DEF Memory, Others, Present, SoundInv, RoomInv
  <2>3. n \in 1 .. NSlots
      BY Filled DEF Pictures
  <2>4. n <= Cardinality(IdleSlots(m.slots))
      BY <1>1, <2>3, IdleFinite, Sizes
  <2>5. r.ok \in BOOLEAN /\ (r.ok \/ a.at = 0)
    <3>1. /\ Memory(r.mem) /\ r.ok \in BOOLEAN
          /\ \/ r.ok /\ \E i \in General : /\ m.slots[i].gfx = g
                                           /\ r.mem = UseSlot(m, e, i, "RESERVED")
             \/ /\ \A i \in General : m.slots[i].gfx # g
                /\ ~r.ok /\ a.at = 0 /\ r.mem = a.mem
             \/ /\ \A i \in General : m.slots[i].gfx # g
                /\ r.ok /\ a.at # 0 /\ r.mem = UseSlot(q, e, a.at, "RESERVED")
                /\ Memo(q, FixedTable(a.mem.slots, a.at, g), a.mem.unk_3, a.mem.index, a.mem.offset)
                /\ Memory(q)
        BY <2>2, LoadFixedCases
    <3>. HIDE DEF r, a
    <3>. QED  BY <3>1
  <2>6. /\ a.at = FindFreeGFXSlots(a.mem.slots, n)
        /\ \/ a.mem = m /\ a.at # 0
           \/ a.mem = clean
    <3>. HIDE DEF n
    <3>. QED  BY <2>2, <2>3, AllocateCases
  <2>7. FindFreeGFXSlots(clean.slots, n) # 0
    <3>. DEFINE mem == m
                linked == live
                es == Present
                leak == leaked
                pc == pic
                ln == lender
    <3>1. /\ Memory(mem) /\ Whole(mem.slots) /\ es \in SUBSET Entities /\ es \subseteq linked
          /\ Referred(mem.slots, mem.index, es, leak)
          /\ Pointing(mem.slots, mem.index, mem.offset, es, pc, ln)
          /\ n \in 1 .. NSlots /\ n <= Cardinality(IdleSlots(mem.slots))
        BY <2>2, <2>3, <2>4
    <3>. HIDE DEF mem, linked, es, leak, pc, ln, n
    <3>2. FindFreeGFXSlots(CleanUpGFXSlots(mem, linked).slots, n) # 0
        BY <3>1, CleanUpPacks
    <3>. QED  BY <3>2 DEF mem, linked
  <2>8. a.at # 0
    <3>. HIDE DEF a, clean
    <3>. QED  BY <2>6, <2>7
  <2>. HIDE DEF r, a
  <2>9. r.ok
      BY <2>5, <2>8
  <2>. QED  BY <2>9 DEF r
<1>2. IInv => RefusedOnlyWhenFull
    BY <1>1 DEF RefusedOnlyWhenFull
<1>. QED  BY <1>2, InvariantHolds, PTL

\* With every upload made, a head in use shows its picture.
LEMMA PictureShown ==
    ASSUME NEW s, Table(s), Whole(s), NEW d, InMemory(s, d), Uploads(s, FALSE) = {},
           NEW i \in Heads(s), s[i].src # None
    PROVE  i .. i + SlotsOf[s[i].src] - 1 \subseteq d
<1>1. i \in General /\ i \in Slots /\ s[i].status \in InUse
    BY Sizes DEF Heads
<1>2. s[i].vramStatus \in {1, 3}
    BY <1>1, PictureInRun
<1>3. s[i].vramStatus # 3
    BY <1>1 DEF Uploads
<1>. QED  BY <1>1, <1>2, <1>3 DEF InMemory

\* After a frame every entity shows the picture it asked for last, and so does
\* every child that borrows its graphics: UploadSlots brings video memory to
\* what the moved, shared and put away runs say.
THEOREM PicturesAreShown == Spec => []FramesShowPictures
<1>1. ASSUME IInv, sound, UpToDate(m), NEW e \in Present, pic[Owner(e)] # None
      PROVE  /\ m.slots[m.offset[e]].src = pic[Owner(e)]
             /\ m.offset[e] .. m.offset[e] + SlotsOf[pic[Owner(e)]] - 1 \subseteq drawn
  <2>. DEFINE s == m.slots
              ix == m.index
              of == m.offset
              es == Present
              leak == leaked
              d == drawn
              pc == pic
              ln == lender
              x == Owner(e)
  <2>1. /\ Table(s) /\ Whole(s) /\ es \in SUBSET Entities /\ e \in es
        /\ Referred(s, ix, es, leak) /\ Pointing(s, ix, of, es, pc, ln)
        /\ InMemory(s, d) /\ Uploads(s, FALSE) = {} /\ pc[x] # None
        /\ x = IF ln[e] = None THEN e ELSE ln[e]
      BY <1>1, TypeParts DEF IInv, SoundInv, RoomInv, UpToDate, Memory, Others, Present, Owner
  <2>. HIDE DEF s, ix, of, es, leak, d, pc, ln, x
  <2>2. /\ x \in es /\ ix[x] \in General /\ of[e] = ix[x] /\ s[ix[x]].src = pc[x]
      BY <2>1, PoolAssumption DEF Pointing
  <2>3. ix[x] \in Heads(s)
      BY <2>1, <2>2, HolderFacts
  <2>. DEFINE i == ix[x]
  <2>4. i \in Heads(s) /\ s[i].src = pc[x] /\ of[e] = i /\ s[i].src # None
      BY <2>1, <2>2, <2>3
  <2>. HIDE DEF i
  <2>5. i .. i + SlotsOf[s[i].src] - 1 \subseteq d
      BY <2>1, <2>4, PictureShown
  <2>. QED  BY <2>4, <2>5 DEF s, of, d, pc, x
<1>2. IInv => FramesShowPictures
    BY <1>1 DEF FramesShowPictures, Shown
<1>. QED  BY <1>2, InvariantHolds, PTL

-----------------------------------------------------------------------------
(* What is lost, and when.                                                 *)

LEMMA UsedSlots ==
    ASSUME NEW mem, Memory(mem), NEW e \in Entities, NEW i \in Slots, NEW st \in Statuses
    PROVE  UseSlot(mem, e, i, st).slots = UsedTable(mem.slots, i, st)
<1>1. Memo(UseSlot(mem, e, i, st), UsedTable(mem.slots, i, st), mem.unk_3,
           [mem.index EXCEPT ![e] = i], [mem.offset EXCEPT ![e] = i])
    BY UseSlotIs
<1>. DEFINE y == UseSlot(mem, e, i, st)
<1>. HIDE DEF y
<1>. QED  BY <1>1 DEF Memo, y

Palettes(s) == \A k \in 0 .. Reserved - 1 : s[k].status = "PALETTE"

\* A reference to a general run touches no reserved slot.
LEMMA UseKeepsPalettes ==
    ASSUME NEW s, Table(s), Palettes(s), NEW i \in General, NEW st \in InUse
    PROVE  Palettes(UsedTable(s, i, st))
<1>. DEFINE t == UsedTable(s, i, st)
<1>1. i \in Slots /\ i \in Nat
    BY Sizes
<1>2. /\ Table(t) /\ t[i].status = st /\ t[i].refs = More(s[i].refs)
      /\ \A k \in Slots : /\ t[k].count = s[k].count /\ t[k].src = s[k].src
                          /\ t[k].gfx = s[k].gfx /\ t[k].vramStatus = s[k].vramStatus
      /\ \A k \in Slots : k # i /\ k \in Run(s, i) => t[k] = WithStatus(s[k], "FOLLOWER")
      /\ \A k \in Slots : k # i /\ k \notin Run(s, i) => t[k] = s[k]
    BY <1>1, UsedRun
<1>. HIDE DEF t
<1>3. \A k \in 0 .. Reserved - 1 : k \in Slots /\ k # i /\ k \notin Run(s, i)
    BY <1>1, Sizes DEF Run
<1>. QED  BY <1>2, <1>3 DEF Palettes, t

\* Nor does a new run.
LEMMA NewRunKeepsPalettes ==
    ASSUME NEW s, Palettes(s), NEW a \in General, NEW n \in 1 .. NSlots, NEW u, Table(u),
           \A k \in Slots \ (a .. a + n - 1) : u[k] = s[k], NEW st \in InUse
    PROVE  Palettes(UsedTable(u, a, st))
<1>1. \A k \in 0 .. Reserved - 1 : k \in Slots \ (a .. a + n - 1)
    BY Sizes
<1>2. Palettes(u)
    BY <1>1 DEF Palettes
<1>. QED  BY <1>2, UseKeepsPalettes

LEMMA FixedKeepsPalettes ==
    ASSUME TypeInv, SoundInv, NEW e \in Entities, NEW g \in Fixed
    PROVE  Palettes(Allocate(m, live, SlotsOf[g]).mem.slots) =>
               Palettes(LoadFixedGFX(m, live, e, g).mem.slots)
<1>. DEFINE r == LoadFixedGFX(m, live, e, g)
            n == SlotsOf[g]
            a == Allocate(m, live, n)
            q == [a.mem EXCEPT !.slots = FixedTable(@, a.at, g)]
            st == "RESERVED"
            s == m.slots
<1>. SUFFICES ASSUME Palettes(a.mem.slots) PROVE Palettes(r.mem.slots)
    OBVIOUS
<1>1. /\ Memory(m) /\ Table(s) /\ Whole(s) /\ n \in 1 .. NSlots /\ st \in InUse /\ st \in Statuses
    BY TypeParts, Filled, Names DEF Memory, SoundInv, RoomInv, Pictures
<1>2. /\ Memory(r.mem)
      /\ \/ r.ok /\ \E i \in General : /\ s[i].gfx = g
                                       /\ r.mem = UseSlot(m, e, i, st)
         \/ ~r.ok /\ r.mem = a.mem
         \/ /\ r.ok /\ a.at # 0 /\ r.mem = UseSlot(q, e, a.at, st)
            /\ Memo(q, FixedTable(a.mem.slots, a.at, g), a.mem.unk_3, a.mem.index, a.mem.offset)
            /\ Memory(q)
    BY <1>1, LoadFixedCases
<1>3. /\ Memory(a.mem) /\ a.at \in General \cup {0}
      /\ a.at # 0 => a.at + n - 1 \in Slots
    BY <1>1, AllocateCases
<1>. HIDE DEF r, q, st, a
<1>4. ASSUME NEW i \in General, r.mem = UseSlot(m, e, i, st)
      PROVE  Palettes(r.mem.slots)
  <2>1. Palettes(s) /\ i \in Slots
      BY <1>1, Sizes DEF Whole, Cut, Palettes
  <2>2. r.mem.slots = UsedTable(s, i, st)
      BY <1>1, <1>4, <2>1, UsedSlots
  <2>. QED  BY <1>1, <2>1, <2>2, UseKeepsPalettes
<1>5. CASE /\ a.at # 0 /\ r.mem = UseSlot(q, e, a.at, st)
           /\ Memo(q, FixedTable(a.mem.slots, a.at, g), a.mem.unk_3, a.mem.index, a.mem.offset)
           /\ Memory(q)
  <2>. DEFINE c == a.mem
              x == a.at
              u == FixedTable(c.slots, x, g)
  <2>4. q.slots = u /\ Memory(q) /\ r.mem = UseSlot(q, e, x, st)
      BY <1>5 DEF Memo
  <2>5. x \in General /\ x \in Slots /\ x + n - 1 \in Slots /\ Table(c.slots)
      BY <1>3, <1>5, Sizes DEF Memory
  <2>1. /\ x \in General /\ x \in Slots /\ x + n - 1 \in Slots /\ Table(c.slots)
        /\ Palettes(c.slots) /\ q.slots = u /\ Memory(q) /\ r.mem = UseSlot(q, e, x, st)
      BY <2>4, <2>5
  <2>. HIDE DEF c, x
  <2>2. Table(u) /\ \A k \in Slots \ (x .. x + n - 1) : u[k] = c.slots[k]
      BY <2>1, FixedSet
  <2>. HIDE DEF u, n
  <2>3. r.mem.slots = UsedTable(u, x, st)
      BY <1>1, <2>1, UsedSlots
  <2>. QED  BY <1>1, <2>1, <2>2, <2>3, NewRunKeepsPalettes
<1>. QED  BY <1>2, <1>4, <1>5

LEMMA SwapKeepsPalettes ==
    ASSUME TypeInv, SoundInv, NEW e \in Entities, NEW n \in 1 .. NSlots, NEW i \in 0 .. Reserved - 1,
           i # 0 => n = 1
    PROVE  Palettes(Allocate(m, live, n).mem.slots) =>
               Palettes(LoadSwapGFX(m, live, e, n, i).mem.slots)
<1>. DEFINE r == LoadSwapGFX(m, live, e, n, i)
            a == IF i = 0 THEN Allocate(m, live, n) ELSE [mem |-> m, at |-> i]
            b == Allocate(m, live, n)
            q == [a.mem EXCEPT !.slots = ReserveGFXSlots(@, a.at, 0, n)]
            st == "GFX"
            pal == "PALETTE"
            s == m.slots
<1>. SUFFICES ASSUME Palettes(b.mem.slots) PROVE Palettes(r.mem.slots)
    OBVIOUS
<1>1. /\ Memory(m) /\ Table(s) /\ Whole(s) /\ Palettes(s) /\ s[i].status = pal
      /\ st \in InUse /\ st \in Statuses /\ pal \in Statuses
      /\ i \in Slots /\ (i # 0 => i + n - 1 \in Slots)
    BY TypeParts, Sizes, Names DEF Memory, SoundInv, RoomInv, Whole, Cut, Palettes
<1>2. /\ Memory(r.mem)
      /\ \/ ~r.ok /\ a.at = 0 /\ r.mem = a.mem
         \/ /\ r.ok /\ a.at # 0 /\ a.mem.slots[a.at].status = pal
            /\ r.mem = UseSlot(a.mem, e, a.at, pal)
         \/ /\ r.ok /\ a.at # 0 /\ a.mem.slots[a.at].status # pal
            /\ r.mem = UseSlot(q, e, a.at, st)
            /\ Memo(q, ReserveGFXSlots(a.mem.slots, a.at, 0, n),
                    a.mem.unk_3, a.mem.index, a.mem.offset)
            /\ Memory(q)
    BY <1>1, LoadSwapCases
<1>3. /\ Memory(b.mem) /\ b.at \in General \cup {0}
      /\ b.at # 0 => b.at + n - 1 \in Slots
      /\ b.at = FindFreeGFXSlots(b.mem.slots, n)
    BY <1>1, AllocateCases
<1>4. (i = 0 => a = b) /\ (i # 0 => a.mem = m /\ a.at = i)
    OBVIOUS
<1>5. b.at # 0 => b.mem.slots[b.at].status # pal
  <2>. SUFFICES ASSUME b.at # 0 PROVE b.mem.slots[b.at].status # pal
      OBVIOUS
  <2>. DEFINE x == b.at
              y == b.mem.slots
  <2>1. x \in General /\ x = FindFreeGFXSlots(y, n) /\ x # 0
      BY <1>3
  <2>. HIDE DEF x, y
  <2>2. IdleRun(y, x, n)
      BY <2>1, FreeFound
  <2>3. x \in x .. x + n - 1
      BY <2>1, Sizes
  <2>4. y[x].status \in Idle
      BY <2>2, <2>3 DEF IdleRun
  <2>. QED  BY <2>4, Names DEF x, y
<1>. HIDE DEF r, a, q, st, b
<1>6. CASE ~r.ok /\ a.at = 0 /\ r.mem = a.mem
    BY <1>1, <1>4, <1>6
<1>7. CASE a.at # 0 /\ a.mem.slots[a.at].status = pal /\ r.mem = UseSlot(a.mem, e, a.at, pal)
  <2>. DEFINE t == UsedTable(s, i, pal)
  <2>1. i # 0 /\ a.mem = m /\ a.at = i
      BY <1>4, <1>5, <1>7
  <2>2. Table(t) /\ Whole(t)
      BY <1>1, PaletteWhole
  <2>. HIDE DEF pal
  <2>3. r.mem.slots = t
      BY <1>1, <1>7, <2>1, UsedSlots
  <2>. HIDE DEF t
  <2>. QED  BY <2>2, <2>3 DEF Whole, Cut, Palettes
<1>8. CASE /\ a.at # 0 /\ a.mem.slots[a.at].status # pal
           /\ r.mem = UseSlot(q, e, a.at, st)
           /\ Memo(q, ReserveGFXSlots(a.mem.slots, a.at, 0, n),
                   a.mem.unk_3, a.mem.index, a.mem.offset)
           /\ Memory(q)
  <2>. DEFINE c == b.mem
              x == b.at
              g == 0
              u == ReserveGFXSlots(c.slots, x, g, n)
  <2>1. a = b
      BY <1>1, <1>4, <1>8
  <2>2. /\ x \in General /\ x \in Slots /\ x + n - 1 \in Slots /\ Table(c.slots) /\ c.slots \in Tables
        /\ Palettes(c.slots)
    <3>1. x \in General /\ x \in Slots /\ x + n - 1 \in Slots /\ Memory(c)
        BY <1>3, <1>8, <2>1, Sizes
    <3>2. Table(c.slots) /\ c.slots \in Tables
        BY <3>1 DEF Memory, Table, Tables
    <3>. QED  BY <3>1, <3>2
  <2>3. q.slots = u /\ Memory(q) /\ r.mem = UseSlot(q, e, x, st)
      BY <1>8, <2>1 DEF Memo
  <2>4. g \in Fixed \cup {0}
      OBVIOUS
  <2>. HIDE DEF c, x, g
  <2>5. Table(u) /\ \A k \in Slots \ (x .. x + n - 1) : u[k] = c.slots[k]
      BY <2>2, <2>4, ReserveSet
  <2>. HIDE DEF u
  <2>6. r.mem.slots = UsedTable(u, x, st)
      BY <1>1, <2>2, <2>3, UsedSlots
  <2>. QED  BY <1>1, <2>2, <2>5, <2>6, NewRunKeepsPalettes
<1>. QED  BY <1>2, <1>6, <1>7, <1>8

\* A load loses nothing when the reserved slots stay and nobody is away.
LEMMA NothingLost ==
    ASSUME NEW e, NEW p, NEW r, Load(e, p, r), sound, away = {}, Palettes(r.mem.slots)
    PROVE  sound'
BY DEF Load, Undisturbed, Palettes

LEMMA CleanedPalettes ==
    ASSUME TypeInv, SoundInv, NEW n \in 1 .. NSlots, IdleSlots(m.slots) # {}
    PROVE  Palettes(Allocate(m, live, n).mem.slots)
<1>. DEFINE a == Allocate(m, live, n)
<1>1. Cleaned(m, live, Present, leaked, pic, lender, a.mem)
    BY AllocateSound
<1>. HIDE DEF a
<1>2. Palettes(a.mem.slots)
    BY <1>1 DEF Cleaned, Whole, Cut, Palettes
<1>. QED  BY <1>2 DEF a

\* The reserved slots, and entities that are away, are hit by a move only when
\* the pool to clean up has no idle slot, or is cleaned up in a subtask:
\* FindFirstFreeGFXSlot says 0 for "none", and sub_080AE218 asks the slots that
\* entities left behind.
THEOREM MovesHitOnlyFullPools == Spec => OnlyFullPoolsAreLost
<1>. DEFINE Excuse == \/ IdleSlots(m.slots) = {}
                      \/ stash # <<>> /\ (IdleSlots(stash) = {} \/ away # {})
<1>1. ASSUME IInv, [Next]_vars, sound, ~sound', ~Excuse PROVE FALSE
  <2>1. TypeInv /\ SoundInv
      BY <1>1 DEF IInv
  <2>2. IdleSlots(m.slots) # {} /\ (stash # <<>> => IdleSlots(stash) # {} /\ away = {})
      BY <1>1
  <2>3. away = {}
      BY <2>1, <2>2 DEF SoundInv, AwayInv
  <2>4. ASSUME NEW e \in Entities, NEW g \in Fixed, LoadFixed(e, g) PROVE FALSE
    <3>. DEFINE r == LoadFixedGFX(m, live, e, g)
                n == SlotsOf[g]
    <3>1. n \in 1 .. NSlots
        BY Filled DEF Pictures
    <3>2. Palettes(Allocate(m, live, n).mem.slots)
      <4>. HIDE DEF n
      <4>. QED  BY <2>1, <2>2, <3>1, CleanedPalettes
    <3>3. Palettes(r.mem.slots)
        BY <2>1, <3>2, FixedKeepsPalettes
    <3>4. Load(e, g, r)
        BY <2>4 DEF LoadFixed
    <3>. HIDE DEF r
    <3>. QED  BY <1>1, <2>3, <3>3, <3>4, NothingLost
  <2>5. ASSUME NEW e \in Entities, NEW n \in 1 .. NSlots, NEW i \in 0 .. Reserved - 1,
               i # 0 => n = 1, LoadSwap(e, n, i)
        PROVE  FALSE
    <3>. DEFINE r == LoadSwapGFX(m, live, e, n, i)
    <3>1. Palettes(r.mem.slots)
        BY <2>1, <2>2, <2>5, CleanedPalettes, SwapKeepsPalettes
    <3>2. Load(e, None, r)
        BY <2>5 DEF LoadSwap
    <3>. HIDE DEF r
    <3>. QED  BY <1>1, <2>3, <3>1, <3>2, NothingLost
  <2>6. CASE SubtaskLeave
    <3>1. IdleSlots(stash) # {}
        BY <2>2, <2>6 DEF SubtaskLeave
    <3>. DEFINE back == Back
    <3>2. Cleaned(Before, away, away, leaked, pic', lender', Back)
        BY <2>1, <2>6, <3>1, BackIs
    <3>3. \A k \in 0 .. Reserved - 1 : Back.slots[k].status = "PALETTE"
        BY <3>2 DEF Cleaned, Whole, Cut
    <3>. QED  BY <1>1, <2>6, <3>3 DEF SubtaskLeave, Back, Before
  <2>7. ASSUME NEW e \in Entities, NEW n \in RunSizes, LoadSwap(e, n, 0) PROVE FALSE
    <3>. DEFINE i == 0
    <3>1. n \in 1 .. NSlots /\ i \in 0 .. Reserved - 1 /\ (i # 0 => n = 1) /\ LoadSwap(e, n, i)
        BY <2>7, Sizes, PoolAssumption
    <3>. HIDE DEF i
    <3>. QED  BY <2>5, <3>1
  <2>8. ASSUME NEW e \in Entities, NEW i \in 1 .. Reserved - 1, LoadSwap(e, 1, i) PROVE FALSE
    <3>. DEFINE n == 1
    <3>1. n \in 1 .. NSlots /\ i \in 0 .. Reserved - 1 /\ (i # 0 => n = 1) /\ LoadSwap(e, n, i)
        BY <2>8, Sizes
    <3>. HIDE DEF n
    <3>. QED  BY <2>5, <3>1
  \* All other steps leave sound as it is.
  <2>9. ASSUME NEW e \in Entities, Create(e) PROVE FALSE
      BY <1>1, <2>9 DEF Create
  <2>10. ASSUME NEW e \in Entities, NEW f \in Frames, Animate(e, f) PROVE FALSE
      BY <1>1, <2>10 DEF Animate
  <2>11. ASSUME NEW e \in Entities, NEW p \in Entities, Borrow(e, p) PROVE FALSE
      BY <1>1, <2>11 DEF Borrow
  <2>12. ASSUME NEW e \in Entities, Unload(e) PROVE FALSE
      BY <1>1, <2>12 DEF Unload
  <2>13. ASSUME NEW e \in Entities, DeleteEntity(e) PROVE FALSE
      BY <1>1, <2>13 DEF DeleteEntity
  <2>14. CASE Frame
      BY <1>1, <2>14 DEF Frame
  <2>15. CASE NewRoom
      BY <1>1, <2>15 DEF NewRoom
  <2>16. CASE SubtaskEnter
      BY <1>1, <2>16 DEF SubtaskEnter
  <2>17. CASE SubtaskNext
      BY <1>1, <2>17 DEF SubtaskNext
  <2>18. CASE UNCHANGED vars
      BY <1>1, <2>18 DEF vars
  <2>. QED
    BY <1>1, <2>4, <2>6, <2>7, <2>8, <2>9, <2>10, <2>11, <2>12, <2>13, <2>14, <2>15, <2>16,
       <2>17, <2>18 DEF Next
<1>2. IInv /\ [Next]_vars => [sound /\ ~sound' => Excuse]_vars
    BY <1>1
<1>. QED  BY <1>2, InvariantHolds, PTL DEF Spec, OnlyFullPoolsAreLost
=============================================================================
