---------------------------- MODULE EntityProofs ----------------------------
(***************************************************************************)
(* The lists of EntityLists stay rings, the counters stay exact, and the   *)
(* assembly's walk of EntityUpdate misses nobody, for pools and passes of  *)
(* every size.                                                             *)
(*                                                                         *)
(* Members is defined by a walk, which says nothing of a step's effect on  *)
(* it.  RingOf says without a walk that a set is what a list links, and    *)
(* WalkOfRing that the walk then meets that set; each operation is shown   *)
(* to turn rings into rings.  The lemmas with a name in ...Sound are about *)
(* the operations of EntityLists, those in ...Fits about the actions of    *)
(* EntityUpdate.                                                           *)
(***************************************************************************)
EXTENDS EntityUpdate, FiniteSetTheorems, TLAPS

-----------------------------------------------------------------------------
(* Induction and recursion over finite data.                               *)

\* The subsets of a finite set are well-founded under strict inclusion.
LEMMA MinimalSubset ==
    ASSUME NEW D, IsFiniteSet(D), NEW T \in SUBSET SUBSET D, T # {}
    PROVE  \E S \in T : \A U \in T : U \subseteq S => U = S
<1>1. IsWellFoundedOn(StrictSubsetOrdering(D), SUBSET D)
    BY FS_StrictSubsetOrderingWellFounded, FS_FiniteSubsetsOfFinite
<1>2. PICK S \in T : \A U \in T : ~ (<<U, S>> \in StrictSubsetOrdering(D))
    BY <1>1, WFMin
<1>3. \A U \in T : U \subseteq S /\ U # S => <<U, S>> \in StrictSubsetOrdering(D)
    BY DEF StrictSubsetOrdering
<1>4. \A U \in T : U \subseteq S => U = S
    BY <1>2, <1>3
<1>. QED  BY <1>4

\* A nonempty set of naturals has a least element.
LEMMA LeastElement ==
    ASSUME NEW T \in SUBSET Nat, T # {}
    PROVE  \E n \in T : \A k \in T : n <= k
<1>1. PICK t \in T : TRUE
    OBVIOUS
<1>. DEFINE U == {0 .. k : k \in {k \in T : k <= t}}
<1>2. IsFiniteSet(0 .. t)
    BY FS_Interval
<1>3. U \in SUBSET SUBSET (0 .. t)
    BY SMT
<1>4. U # {}
    OBVIOUS
<1>. DEFINE D == 0 .. t
<1>. HIDE DEF U, D
<1>5. IsFiniteSet(D) /\ U \in SUBSET SUBSET D
    BY <1>2, <1>3 DEF D
<1>6. PICK S \in U : \A V \in U : V \subseteq S => V = S
    BY <1>4, <1>5, MinimalSubset
<1>7. PICK n \in T : n <= t /\ S = 0 .. n
    BY <1>6 DEF U
<1>8. ASSUME NEW k \in T, ~ (n <= k) PROVE FALSE
  <2>1. 0 .. k \in U /\ 0 .. k \subseteq S /\ n \in S /\ n \notin 0 .. k
      BY <1>7, <1>8 DEF U
  <2>. QED  BY <2>1, <1>6
<1>. QED  BY <1>8

\* Induction up to N, over a set.
LEMMA UpTo ==
    ASSUME NEW N \in Nat, NEW F, 0 \in F,
           \A n \in 1 .. N : n - 1 \in F => n \in F
    PROVE  \A n \in 0 .. N : n \in F
<1>. DEFINE T == {n \in 0 .. N : n \notin F}
<1>1. SUFFICES ASSUME T # {} PROVE FALSE
    OBVIOUS
<1>2. T \in SUBSET Nat
    OBVIOUS
<1>. HIDE DEF T
<1>3. PICK n \in T : \A k \in T : n <= k
    BY <1>1, <1>2, LeastElement
<1>4. n \in 1 .. N /\ n - 1 \in 0 .. N /\ n - 1 \notin T
    BY <1>3 DEF T
<1>. QED  BY <1>3, <1>4 DEF T

\* Induction over the subsets of a finite set, one element less at a time.
LEMMA SubsetInduction ==
    ASSUME NEW D, IsFiniteSet(D), NEW F,
           \A S \in SUBSET D : (\A e \in S : S \ {e} \in F) => S \in F
    PROVE  \A S \in SUBSET D : S \in F
<1>. DEFINE T == {S \in SUBSET D : S \notin F}
<1>1. SUFFICES ASSUME T # {} PROVE FALSE
    OBVIOUS
<1>2. T \in SUBSET SUBSET D
    OBVIOUS
<1>. HIDE DEF T
<1>3. PICK S \in T : \A U \in T : U \subseteq S => U = S
    BY <1>1, <1>2, MinimalSubset
<1>4. \A e \in S : S \ {e} \in F
    BY <1>3 DEF T
<1>. QED  BY <1>3, <1>4 DEF T

\* A function defined by recursion over 0 .. N exists.
LEMMA RecursionUpTo ==
    ASSUME NEW N \in Nat, NEW A, NEW a \in A, NEW step \in [A -> A]
    PROVE  \E f \in [0 .. N -> A] :
               f = [n \in 0 .. N |-> IF n = 0 THEN a ELSE step[f[n - 1]]]
<1>. DEFINE F == {k \in Nat : \E f \in [0 .. k -> A] :
                      f = [n \in 0 .. k |-> IF n = 0 THEN a ELSE step[f[n - 1]]]}
<1>1. 0 \in F
  <2>. DEFINE f == [n \in 0 .. 0 |-> a]
  <2>1. f \in [0 .. 0 -> A]  OBVIOUS
  <2>2. f = [n \in 0 .. 0 |-> IF n = 0 THEN a ELSE step[f[n - 1]]]  OBVIOUS
  <2>. QED  BY <2>1, <2>2
<1>2. ASSUME NEW k \in 1 .. N, k - 1 \in F PROVE k \in F
  <2>1. PICK g \in [0 .. k - 1 -> A] :
            g = [n \in 0 .. k - 1 |-> IF n = 0 THEN a ELSE step[g[n - 1]]]
    BY <1>2
  <2>. DEFINE f == [n \in 0 .. k |-> IF n = k THEN step[g[k - 1]] ELSE g[n]]
  <2>2. f \in [0 .. k -> A]  OBVIOUS
  <2>3. \A n \in 0 .. k : f[n] = IF n = 0 THEN a ELSE step[f[n - 1]]
    <3>. TAKE n \in 0 .. k
    <3>1. CASE n = k
      BY <3>1
    <3>2. CASE n # k
      <4>1. n \in 0 .. k - 1  BY <3>2
      <4>2. g[n] = IF n = 0 THEN a ELSE step[g[n - 1]]  BY <2>1, <4>1
      <4>. QED  BY <4>1, <4>2
    <3>. QED  BY <3>1, <3>2
  <2>4. f = [n \in 0 .. k |-> IF n = 0 THEN a ELSE step[f[n - 1]]]
    BY <2>2, <2>3, Zenon
  <2>. HIDE DEF f
  <2>. QED  BY <2>2, <2>4
<1>. HIDE DEF F
<1>3. N \in F  BY <1>1, <1>2, UpTo
<1>. QED  BY <1>3 DEF F

-----------------------------------------------------------------------------
(* Pointers.                                                               *)

\* Slots, heads and the two null pointers are told apart by their values.
LEMMA Pointers ==
    /\ Slots \subseteq Nat \ {0}
    /\ IsFiniteSet(Slots) /\ Cardinality(Slots) \in Nat
    /\ \A l \in Lists : ListHead(l) \in Heads /\ ListHead(l) \in Nat \ {0}
    /\ \A k, l \in Lists : ListHead(k) = ListHead(l) => k = l
    /\ Heads \cap Slots = {}
    /\ Nodes = Slots \cup Heads
    /\ Null \notin Nodes /\ Gone \notin Nodes /\ Null # Gone
    /\ Slots = EntitySlots \cup Managers
    /\ EntitySlots \cap Managers = {} /\ EntitySlots = Aux \cup Ents
<1>. DEFINE last == NAux + NEnts + NManagers
<1>1. last \in Nat /\ Slots \subseteq 1 .. last
    BY EntityAssumption DEF Slots, EntitySlots, Aux, Ents, Managers
<1>2. IsFiniteSet(Slots) /\ Cardinality(Slots) \in Nat
  <2>. HIDE DEF last
  <2>1. IsFiniteSet(1 .. last)
    BY <1>1, FS_Interval
  <2>2. IsFiniteSet(Slots)
    BY <1>1, <2>1, FS_Subset
  <2>. QED  BY <2>2, FS_CardinalityType
<1>3. \A l \in Lists : ListHead(l) \in Heads /\ ListHead(l) \in Int /\ ListHead(l) > last
    BY EntityAssumption DEF ListHead, Heads
<1>4. \A k, l \in Lists : ListHead(k) = ListHead(l) => k = l
    BY EntityAssumption DEF ListHead
<1>5. \A h \in Heads : h \in Int /\ h > last
    BY <1>3 DEF Heads
<1>6. Heads \cap Slots = {} /\ Null \notin Nodes /\ Gone \notin Nodes /\ Null # Gone
    BY <1>1, <1>5 DEF Nodes, Null, Gone
<1>7. EntitySlots \cap Managers = {}
    BY EntityAssumption DEF EntitySlots, Aux, Ents, Managers
<1>. QED  BY <1>1, <1>2, <1>3, <1>4, <1>6, <1>7 DEF Nodes, Slots, EntitySlots

-----------------------------------------------------------------------------
(* The lists as rings.                                                     *)

\* What a walk of list l that has met the slots s comes to next.
Follow(nx, l, s) == nx[IF s = <<>> THEN ListHead(l) ELSE s[Len(s)]]

Met(nx, l, s) == IF Follow(nx, l, s) \in Slots THEN Append(s, Follow(nx, l, s)) ELSE s

\* The recursion that defines Order is well-defined.
LEMMA OrderRecursion ==
    ASSUME NEW mem, NEW l
    PROVE  \E met \in [0 .. Cardinality(Slots) -> Seq(Slots)] :
               /\ Order(mem, l) = met[Cardinality(Slots)]
               /\ met[0] = <<>>
               /\ \A n \in 1 .. Cardinality(Slots) : met[n] = Met(mem.next, l, met[n - 1])
<1>. DEFINE C == Cardinality(Slots)
            step == [s \in Seq(Slots) |-> Met(mem.next, l, s)]
            Met0(f) == f = [n \in 0 .. C |-> IF n = 0 THEN <<>> ELSE Met(mem.next, l, f[n - 1])]
<1>1. C \in Nat
    BY Pointers
<1>. HIDE DEF C
<1>2. step \in [Seq(Slots) -> Seq(Slots)]
    BY DEF Met
<1>. HIDE DEF step
<1>3. PICK f \in [0 .. C -> Seq(Slots)] :
          f = [n \in 0 .. C |-> IF n = 0 THEN <<>> ELSE step[f[n - 1]]]
  <2>. DEFINE A == Seq(Slots)
              a == <<>>
  <2>1. a \in A /\ step \in [A -> A]
    BY <1>2
  <2>. HIDE DEF A, a
  <2>2. \E f \in [0 .. C -> A] : f = [n \in 0 .. C |-> IF n = 0 THEN a ELSE step[f[n - 1]]]
    BY <1>1, <2>1, RecursionUpTo
  <2>. QED  BY <2>2 DEF A, a
<1>4. \A n \in 0 .. C : n # 0 => f[n - 1] \in Seq(Slots)
  <2>. SUFFICES ASSUME NEW n \in 0 .. C, n # 0 PROVE f[n - 1] \in Seq(Slots)
    OBVIOUS
  <2>1. n - 1 \in 0 .. C
    BY <1>1
  <2>2. f \in [0 .. C -> Seq(Slots)]
    BY <1>3
  <2>. QED  BY <2>1, <2>2
<1>5. Met0(f)
    BY <1>3, <1>4, Zenon DEF step
<1>. DEFINE met == CHOOSE g : Met0(g)
<1>6. Met0(met)
    BY <1>5, Zenon
<1>7. Order(mem, l) = met[C]
    BY Zenon DEF Order, Met, Follow, C
<1>. HIDE DEF met
<1>8. /\ met[0] = <<>>
      /\ \A n \in 1 .. C : met[n] = Met(mem.next, l, met[n - 1])
    BY <1>1, <1>6
<1>9. \A n \in 0 .. C : met[n] \in Seq(Slots)
  <2>. DEFINE F == {n \in 0 .. C : met[n] \in Seq(Slots)}
  <2>. DEFINE A == Seq(Slots)
  <2>1. <<>> \in A /\ \A s \in A : Met(mem.next, l, s) \in A
    BY DEF Met
  <2>. HIDE DEF A
  <2>2. 0 \in F
    <3>1. 0 \in 0 .. C
      BY <1>1
    <3>. QED  BY <1>8, <2>1, <3>1, Zenon DEF A
  <2>3. ASSUME NEW n \in 1 .. C, n - 1 \in F PROVE n \in F
    <3>1. n \in 0 .. C
      BY <1>1
    <3>2. met[n - 1] \in A
      BY <2>3 DEF A
    <3>. QED  BY <1>8, <2>1, <3>1, <3>2, Zenon DEF A
  <2>. HIDE DEF F
  <2>4. \A n \in 0 .. C : n \in F
    BY <1>1, <2>2, <2>3, UpTo
  <2>. QED  BY <2>4 DEF F
<1>10. met \in [0 .. C -> Seq(Slots)]
    BY <1>6, <1>9, Zenon
<1>. QED  BY <1>7, <1>8, <1>10 DEF C

\* S is what list l links: next and prev undo each other on S and the head,
\* and no part of S is a circle of its own.
RingOf(nx, pv, l, S) ==
    /\ S \subseteq Slots
    /\ \A x \in S \cup {ListHead(l)} :
          /\ nx[x] \in S \cup {ListHead(l)} /\ pv[nx[x]] = x
          /\ pv[x] \in S \cup {ListHead(l)} /\ nx[pv[x]] = x
    /\ \A T \in SUBSET S : (\A x \in T : nx[x] \in T) => T = {}

\* A walk along a ring meets its members once each, and all of them when it
\* comes back to the head or has met as many as there are slots.
LEMMA WalkOfRing ==
    ASSUME NEW mem, NEW l \in Lists, NEW S, RingOf(mem.next, mem.prev, l, S)
    PROVE  Members(mem, l) = S
<1>. DEFINE nx == mem.next
            pv == mem.prev
            C == Cardinality(Slots)
            h == ListHead(l)
            Chain(s) == \A i \in 1 .. Len(s) : pv[s[i]] = IF i = 1 THEN h ELSE s[i - 1]
<1>1. C \in Nat /\ IsFiniteSet(Slots) /\ h \notin Slots /\ S \subseteq Slots
    BY Pointers DEF RingOf
<1>2. PICK met \in [0 .. C -> Seq(Slots)] :
          /\ Order(mem, l) = met[C]
          /\ met[0] = <<>>
          /\ \A n \in 1 .. C : met[n] = Met(nx, l, met[n - 1])
    BY OrderRecursion, ZenonT(30)
<1>. HIDE DEF C
<1>. DEFINE Good(n) == /\ met[n] \in Seq(S)
                       /\ Chain(met[n])
                       /\ Len(met[n]) = n \/ Follow(nx, l, met[n]) = h
            F == {n \in 0 .. C : Good(n)}
<1>3. 0 \in F
    BY <1>1, <1>2
<1>4. ASSUME NEW n \in 1 .. C, n - 1 \in F PROVE n \in F
  <2>. DEFINE s == met[n - 1]
              x == Follow(nx, l, s)
              y == IF s = <<>> THEN h ELSE s[Len(s)]
  <2>1. s \in Seq(S) /\ Chain(s) /\ (Len(s) = n - 1 \/ x = h)
    BY <1>4
  <2>2. met[n] = IF x \in Slots THEN Append(s, x) ELSE s
    BY <1>2 DEF Met
  <2>3. y \in S \cup {h} /\ x = nx[y]
    BY <2>1 DEF Follow
  <2>4. x \in S \cup {h} /\ pv[x] = y
    BY <2>3 DEF RingOf
  <2>5. CASE x \in Slots
    <3>1. x \in S /\ Len(s) = n - 1 /\ met[n] = Append(s, x)
      BY <1>1, <2>1, <2>2, <2>4, <2>5
    <3>2. met[n] \in Seq(S) /\ Len(met[n]) = n
      BY <2>1, <3>1
    <3>3. Chain(met[n])
      BY <2>1, <2>4, <3>1
    <3>. QED  BY <3>2, <3>3
  <2>6. CASE x \notin Slots
    <3>1. x = h /\ met[n] = s
      BY <1>1, <2>2, <2>4, <2>6
    <3>. QED  BY <2>1, <3>1
  <2>. QED  BY <2>5, <2>6
<1>. HIDE DEF F
<1>5. C \in F
  <2>1. \A n \in 0 .. C : n \in F
    BY <1>1, <1>3, <1>4, UpTo
  <2>. QED  BY <1>1, <2>1
<1>. DEFINE s == met[C]
            R == {s[i] : i \in 1 .. Len(s)}
<1>6. s \in Seq(S) /\ Chain(s) /\ (Len(s) = C \/ Follow(nx, l, s) = h)
    BY <1>5 DEF F
<1>7. Members(mem, l) = {s[i] : i \in DOMAIN s}
    BY <1>2, Zenon DEF Members
<1>. HIDE DEF s
<1>8. Len(s) \in Nat /\ R \subseteq S /\ \A i \in 1 .. Len(s) : s[i] \in S
    BY <1>6
<1>9. \A i, j \in 1 .. Len(s) : s[i] = s[j] => i = j
  <2>. DEFINE B == {i \in 1 .. Len(s) : \E j \in 1 .. Len(s) : i < j /\ s[i] = s[j]}
  <2>1. SUFFICES ASSUME B # {} PROVE FALSE
    BY <1>8
  <2>2. B \in SUBSET Nat
    OBVIOUS
  <2>. HIDE DEF B
  <2>3. PICK i \in B : \A k \in B : i <= k
    BY <2>1, <2>2, LeastElement
  <2>4. i \in 1 .. Len(s)
    BY <2>3 DEF B
  <2>5. PICK j \in 1 .. Len(s) : i < j /\ s[i] = s[j]
    BY <2>3 DEF B
  <2>6. pv[s[j]] = s[j - 1] /\ j - 1 \in 1 .. Len(s)
    BY <1>6, <1>8, <2>4, <2>5
  <2>7. i # 1
    BY <1>1, <1>6, <1>8, <2>4, <2>5, <2>6
  <2>8. i - 1 \in 1 .. Len(s) /\ s[i - 1] = s[j - 1] /\ i - 1 < j - 1
    BY <1>6, <1>8, <2>4, <2>5, <2>6, <2>7
  <2>9. i - 1 \in B
    BY <2>6, <2>8 DEF B
  <2>. QED  BY <2>3, <2>4, <2>9
<1>10. CASE Follow(nx, l, s) = h
  <2>. DEFINE T == S \ R
  <2>1. ASSUME NEW x \in T PROVE nx[x] \in T
    <3>1. nx[x] \in S \cup {h} /\ pv[nx[x]] = x
      BY DEF RingOf
    <3>2. ASSUME nx[x] = h PROVE FALSE
      <4>1. pv[h] = x
        BY <3>1, <3>2
      <4>2. CASE s = <<>>
        <5>1. nx[h] = h
          BY <1>10, <4>2 DEF Follow
        <5>. QED  BY <1>1, <4>1, <5>1 DEF RingOf
      <4>3. CASE s # <<>>
        <5>1. s[Len(s)] \in R /\ nx[s[Len(s)]] = h
          BY <1>6, <1>8, <1>10, <4>3 DEF Follow
        <5>2. pv[h] = s[Len(s)]
          BY <1>8, <5>1 DEF RingOf
        <5>. QED  BY <4>1, <5>1, <5>2
      <4>. QED  BY <4>2, <4>3
    <3>3. ASSUME NEW i \in 1 .. Len(s), nx[x] = s[i] PROVE FALSE
      <4>1. x = IF i = 1 THEN h ELSE s[i - 1]
        BY <1>6, <3>1, <3>3
      <4>2. i # 1 => s[i - 1] \in R
        BY <1>8
      <4>. QED  BY <1>1, <4>1, <4>2
    <3>. QED  BY <3>1, <3>2, <3>3
  <2>2. T \in SUBSET S
    OBVIOUS
  <2>. HIDE DEF T
  <2>3. T = {}
    BY <2>1, <2>2 DEF RingOf
  <2>. QED  BY <1>6, <1>7, <1>8, <2>3 DEF T
<1>11. CASE Len(s) = C
  <2>1. s \in Injection(1 .. C, Slots)
    BY <1>1, <1>6, <1>8, <1>9, <1>11 DEF Injection, IsInjective
  <2>2. Cardinality(1 .. C) = C /\ IsFiniteSet(1 .. C)
    BY <1>1, FS_Interval
  <2>3. s \in Surjection(1 .. C, Slots)
    BY <1>1, <2>1, <2>2, FS_Injection DEF C
  <2>4. Slots \subseteq R
    BY <1>11, <2>3 DEF Surjection
  <2>5. R = S
    BY <1>1, <1>8, <2>4
  <2>6. DOMAIN s = 1 .. Len(s)
    BY <1>6
  <2>7. Members(mem, l) = R
    BY <1>7, <2>6, Zenon
  <2>. QED  BY <2>5, <2>7, Zenon
<1>. QED  BY <1>6, <1>10, <1>11

\* A ring is a matter of its own nodes.
LEMMA RingAgrees ==
    ASSUME NEW nx, NEW pv, NEW nx2, NEW pv2, NEW l, NEW S, RingOf(nx, pv, l, S),
           \A x \in S \cup {ListHead(l)} : nx2[x] = nx[x] /\ pv2[x] = pv[x]
    PROVE  RingOf(nx2, pv2, l, S)
<1>. DEFINE R == S \cup {ListHead(l)}
<1>1. \A x \in R : nx2[x] \in R /\ pv2[nx2[x]] = x /\ pv2[x] \in R /\ nx2[pv2[x]] = x
    BY DEF RingOf
<1>2. ASSUME NEW T \in SUBSET S, \A x \in T : nx2[x] \in T PROVE T = {}
  <2>1. \A x \in T : nx[x] \in T
    BY <1>2
  <2>. QED  BY <2>1 DEF RingOf
<1>3. S \subseteq Slots
    BY DEF RingOf
<1>. QED  BY <1>1, <1>2, <1>3 DEF RingOf

\* A member's neighbours are other nodes of its ring.
LEMMA RingNeighbours ==
    ASSUME NEW nx, NEW pv, NEW l \in Lists, NEW S, RingOf(nx, pv, l, S), NEW e \in S
    PROVE  /\ nx[e] \in Nodes /\ nx[e] # e /\ nx[e] \in S \cup {ListHead(l)}
           /\ pv[e] \in Nodes /\ pv[e] # e /\ pv[e] \in S \cup {ListHead(l)}
<1>1. nx[e] # e
  <2>1. SUFFICES ASSUME nx[e] = e PROVE FALSE
    OBVIOUS
  <2>2. {e} \in SUBSET S /\ \A x \in {e} : nx[x] \in {e}
    BY <2>1
  <2>. QED  BY <2>2 DEF RingOf
<1>2. pv[e] # e
    BY <1>1 DEF RingOf
<1>3. nx[e] \in S \cup {ListHead(l)} /\ pv[e] \in S \cup {ListHead(l)} /\ S \subseteq Slots
    BY DEF RingOf
<1>4. S \cup {ListHead(l)} \subseteq Nodes
    BY <1>3, Pointers, ZenonT(30) DEF Nodes
<1>. QED  BY <1>1, <1>2, <1>3, <1>4

\* Taking e out of its ring.
LEMMA RingWithout ==
    ASSUME NEW nx, NEW pv, NEW l \in Lists, NEW S, RingOf(nx, pv, l, S), NEW e \in S,
           NEW nx2, NEW pv2,
           \A x \in S \cup {ListHead(l)} : x # e =>
               /\ nx2[x] = IF x = pv[e] THEN nx[e] ELSE nx[x]
               /\ pv2[x] = IF x = nx[e] THEN pv[e] ELSE pv[x]
    PROVE  RingOf(nx2, pv2, l, S \ {e})
<1>. DEFINE h == ListHead(l)
            R == (S \ {e}) \cup {h}
<1>1. h \notin Slots /\ S \subseteq Slots
    BY Pointers DEF RingOf
<1>2. nx[e] \in R /\ pv[e] \in R
    BY RingNeighbours
<1>3. ASSUME NEW x \in R
      PROVE  nx2[x] \in R /\ pv2[nx2[x]] = x /\ pv2[x] \in R /\ nx2[pv2[x]] = x
  <2>1. x \in S \cup {h} /\ x # e
    BY <1>1
  <2>2. nx[x] \in S \cup {h} /\ pv[nx[x]] = x /\ pv[x] \in S \cup {h} /\ nx[pv[x]] = x
    BY <2>1 DEF RingOf
  <2>3. nx[pv[e]] = e /\ pv[nx[e]] = e
    BY DEF RingOf
  <2>4. nx2[x] = IF x = pv[e] THEN nx[e] ELSE nx[x]
    BY <2>1
  <2>5. pv2[x] = IF x = nx[e] THEN pv[e] ELSE pv[x]
    BY <2>1
  <2>6. nx2[x] \in R /\ pv2[nx2[x]] = x
    <3>1. nx2[x] \in R
      BY <1>2, <2>1, <2>2, <2>3, <2>4
    <3>2. nx2[x] \in S \cup {h} /\ nx2[x] # e
      BY <1>1, <3>1
    <3>3. pv2[nx2[x]] = IF nx2[x] = nx[e] THEN pv[e] ELSE pv[nx2[x]]
      BY <3>2
    <3>. QED  BY <2>1, <2>2, <2>3, <2>4, <3>1, <3>3
  <2>7. pv2[x] \in R /\ nx2[pv2[x]] = x
    <3>1. pv2[x] \in R
      BY <1>2, <2>1, <2>2, <2>3, <2>5
    <3>2. pv2[x] \in S \cup {h} /\ pv2[x] # e
      BY <1>1, <3>1
    <3>3. nx2[pv2[x]] = IF pv2[x] = pv[e] THEN nx[e] ELSE nx[pv2[x]]
      BY <3>2
    <3>. QED  BY <2>1, <2>2, <2>3, <2>5, <3>1, <3>3
  <2>. QED  BY <2>6, <2>7
<1>4. ASSUME NEW T \in SUBSET (S \ {e}), \A x \in T : nx2[x] \in T PROVE T = {}
  <2>1. CASE pv[e] \in T
    <3>. DEFINE U == T \cup {e}
    <3>1. nx[e] \in T
      BY <1>4, <2>1
    <3>2. \A x \in U : nx[x] \in U
      <4>1. ASSUME NEW x \in T PROVE nx[x] \in U
        <5>1. nx2[x] \in T /\ nx2[x] = IF x = pv[e] THEN nx[e] ELSE nx[x]
          BY <1>4
        <5>2. nx[pv[e]] = e
          BY DEF RingOf
        <5>. QED  BY <5>1, <5>2
      <4>. QED  BY <3>1, <4>1
    <3>3. U \in SUBSET S
      OBVIOUS
    <3>. QED  BY <3>2, <3>3 DEF RingOf
  <2>2. CASE pv[e] \notin T
    <3>1. \A x \in T : nx[x] \in T
      BY <1>4, <2>2
    <3>. QED  BY <3>1 DEF RingOf
  <2>. QED  BY <2>1, <2>2
<1>. QED  BY <1>1, <1>3, <1>4 DEF RingOf

\* e goes between a, a node of the ring or its head, and what follows a.
Inserted(nx, pv, nx2, pv2, l, S, e, a) ==
    /\ a \in S \cup {ListHead(l)}
    /\ \A x \in S \cup {ListHead(l)} :
           /\ nx2[x] = IF x = a THEN e ELSE nx[x]
           /\ pv2[x] = IF x = nx[a] THEN e ELSE pv[x]
    /\ nx2[e] = nx[a] /\ pv2[e] = a

\* Putting e into a ring makes a ring.
LEMMA RingWith ==
    ASSUME NEW nx, NEW pv, NEW l \in Lists, NEW S, RingOf(nx, pv, l, S),
           NEW e \in Slots \ S, NEW a, NEW nx2, NEW pv2,
           Inserted(nx, pv, nx2, pv2, l, S, e, a)
    PROVE  RingOf(nx2, pv2, l, S \cup {e})
<1>. USE DEF Inserted
<1>. DEFINE h == ListHead(l)
            R == S \cup {e} \cup {h}
<1>1. h \notin Slots /\ S \subseteq Slots
    BY Pointers DEF RingOf
<1>2. nx[a] \in S \cup {h} /\ pv[nx[a]] = a
    BY DEF RingOf
<1>3. ASSUME NEW x \in R
      PROVE  nx2[x] \in R /\ pv2[nx2[x]] = x /\ pv2[x] \in R /\ nx2[pv2[x]] = x
  <2>1. CASE x = e
    BY <1>2, <2>1
  <2>2. CASE x \in S \cup {h}
    <3>1. nx[x] \in S \cup {h} /\ pv[nx[x]] = x /\ pv[x] \in S \cup {h} /\ nx[pv[x]] = x
      BY <2>2 DEF RingOf
    <3>. QED  BY <1>1, <1>2, <2>2, <3>1
  <2>. QED  BY <2>1, <2>2
<1>4. ASSUME NEW T \in SUBSET (S \cup {e}), \A x \in T : nx2[x] \in T PROVE T = {}
  <2>. DEFINE U == T \ {e}
  <2>1. \A x \in U : nx[x] \in U
    <3>1. ASSUME NEW x \in U PROVE nx[x] \in U
      <4>1. nx2[x] \in T /\ x \in S
        BY <1>4
      <4>2. nx[x] # e
        BY <1>1, <4>1 DEF RingOf
      <4>3. CASE x # a
        BY <4>1, <4>2, <4>3
      <4>4. CASE x = a
        <5>1. e \in T
          BY <4>1, <4>4
        <5>2. nx2[e] \in T
          BY <1>4, <5>1
        <5>. QED  BY <4>2, <4>4, <5>2
      <4>. QED  BY <4>3, <4>4
    <3>. QED  BY <3>1
  <2>2. U \in SUBSET S
    OBVIOUS
  <2>3. U = {}
    BY <2>1, <2>2 DEF RingOf
  <2>4. e \notin T
    <3>1. SUFFICES ASSUME e \in T PROVE FALSE
      OBVIOUS
    <3>2. nx[a] \in T
      BY <1>4, <3>1
    <3>. QED  BY <1>1, <1>2, <2>3, <3>2
  <2>. QED  BY <2>3, <2>4
<1>. QED  BY <1>1, <1>3, <1>4 DEF RingOf

-----------------------------------------------------------------------------
(* How far a walk that goes on from c has come.                            *)

\* The walk is through with B, a front part of the ring whose last node, or
\* the head, is c; none of the nodes still to update is in B.
Passed(nx, pv, l, S, rest, c) ==
    \E B \in SUBSET S :
        /\ B \cap rest = {}
        /\ \A z \in B : pv[z] \in B \cup {ListHead(l)}
        /\ c \in B \cup {ListHead(l)}
        /\ nx[c] \notin B

\* How far a walk has come is a matter of the ring's own nodes.
LEMMA PassedAgrees ==
    ASSUME NEW nx, NEW pv, NEW nx2, NEW pv2, NEW l, NEW S, NEW rest, NEW c,
           Passed(nx, pv, l, S, rest, c),
           \A x \in S \cup {ListHead(l)} : nx2[x] = nx[x] /\ pv2[x] = pv[x]
    PROVE  Passed(nx2, pv2, l, S, rest, c)
<1>1. PICK B \in SUBSET S :
          /\ B \cap rest = {}
          /\ \A z \in B : pv[z] \in B \cup {ListHead(l)}
          /\ c \in B \cup {ListHead(l)}
          /\ nx[c] \notin B
    BY DEF Passed
<1>2. /\ \A z \in B : pv2[z] \in B \cup {ListHead(l)}
      /\ nx2[c] \notin B
    BY <1>1
<1>. QED  BY <1>1, <1>2 DEF Passed

\* Unlinking e keeps how far the walk has come, if it goes on from the
\* predecessor of e where it was at e.
LEMMA PassedWithout ==
    ASSUME NEW nx, NEW pv, NEW l \in Lists, NEW S, RingOf(nx, pv, l, S), NEW e \in S,
           NEW nx2, NEW pv2,
           \A x \in S \cup {ListHead(l)} : x # e =>
               /\ nx2[x] = IF x = pv[e] THEN nx[e] ELSE nx[x]
               /\ pv2[x] = IF x = nx[e] THEN pv[e] ELSE pv[x],
           NEW rest, NEW c, Passed(nx, pv, l, S, rest, c)
    PROVE  Passed(nx2, pv2, l, S \ {e}, rest, IF c = e THEN pv[e] ELSE c)
<1>. DEFINE h == ListHead(l)
            c2 == IF c = e THEN pv[e] ELSE c
<1>1. PICK B \in SUBSET S :
          /\ B \cap rest = {}
          /\ \A z \in B : pv[z] \in B \cup {h}
          /\ c \in B \cup {h}
          /\ nx[c] \notin B
    BY DEF Passed
<1>2. h \notin Slots /\ S \subseteq Slots
    BY Pointers DEF RingOf
<1>3. pv[e] # e /\ nx[e] # e /\ nx[e] \in S \cup {h} /\ pv[e] \in S \cup {h}
    BY RingNeighbours
<1>4. pv[nx[e]] = e /\ nx[pv[e]] = e
    BY DEF RingOf
<1>. DEFINE B2 == B \ {e}
<1>5. ASSUME NEW z \in B2 PROVE pv2[z] \in B2 \cup {h}
  <2>1. pv2[z] = IF z = nx[e] THEN pv[e] ELSE pv[z]
    BY <1>2
  <2>2. CASE z = nx[e]
    <3>1. e \in B
      BY <1>1, <1>2, <1>4, <2>2
    <3>. QED  BY <1>1, <1>3, <2>1, <2>2, <3>1
  <2>3. CASE z # nx[e]
    <3>1. pv[z] # e
      BY <2>3 DEF RingOf
    <3>. QED  BY <1>1, <2>1, <2>3, <3>1
  <2>. QED  BY <2>2, <2>3
<1>6. c2 \in B2 \cup {h}
    BY <1>1, <1>2, <1>3
<1>7. nx2[c2] \notin B2
  <2>1. c2 \in S \cup {h} /\ c2 # e
    BY <1>1, <1>2, <1>3
  <2>2. nx2[c2] = IF c2 = pv[e] THEN nx[e] ELSE nx[c2]
    BY <2>1
  <2>3. CASE c = e
    BY <1>1, <2>2, <2>3
  <2>4. CASE c # e /\ c = pv[e]
    <3>1. e \notin B
      BY <1>1, <1>4, <2>4
    <3>2. nx[e] \notin B
      BY <1>1, <1>2, <1>4, <3>1
    <3>. QED  BY <2>2, <2>4, <3>2
  <2>5. CASE c # e /\ c # pv[e]
    BY <1>1, <2>2, <2>5
  <2>. QED  BY <2>3, <2>4, <2>5
<1>8. B2 \in SUBSET (S \ {e}) /\ B2 \cap rest = {}
    BY <1>1
<1>. HIDE DEF B2, c2
<1>9. Passed(nx2, pv2, l, S \ {e}, rest, c2)
    BY <1>5, <1>6, <1>7, <1>8 DEF Passed
<1>. QED  BY <1>9 DEF c2

\* An append is behind the walk's back: it comes after all there is.
LEMMA PassedAppend ==
    ASSUME NEW nx, NEW pv, NEW l \in Lists, NEW S, RingOf(nx, pv, l, S),
           NEW e \in Slots \ S, NEW nx2, NEW pv2,
           \A x \in S \cup {ListHead(l)} :
               /\ nx2[x] = IF x = pv[ListHead(l)] THEN e ELSE nx[x]
               /\ pv2[x] = IF x = ListHead(l) THEN e ELSE pv[x],
           NEW rest, NEW c, Passed(nx, pv, l, S, rest, c)
    PROVE  Passed(nx2, pv2, l, S \cup {e}, rest, c)
<1>. DEFINE h == ListHead(l)
<1>1. PICK B \in SUBSET S :
          /\ B \cap rest = {}
          /\ \A z \in B : pv[z] \in B \cup {h}
          /\ c \in B \cup {h}
          /\ nx[c] \notin B
    BY DEF Passed
<1>2. h \notin Slots /\ S \subseteq Slots
    BY Pointers DEF RingOf
<1>3. \A z \in B : pv2[z] \in B \cup {h}
    BY <1>1, <1>2
<1>4. nx2[c] \notin B
  <2>1. nx2[c] = e \/ nx2[c] = nx[c]
    BY <1>1
  <2>. QED  BY <1>1, <2>1
<1>5. B \in SUBSET (S \cup {e})
    OBVIOUS
<1>. QED  BY <1>1, <1>3, <1>4, <1>5 DEF Passed

\* What is put in front is passed already, unless the walk is still at the
\* head: then it is met.
LEMMA PassedPrepend ==
    ASSUME NEW nx, NEW pv, NEW l \in Lists, NEW S, RingOf(nx, pv, l, S),
           NEW e \in Slots \ S, NEW nx2, NEW pv2,
           \A x \in S \cup {ListHead(l)} :
               /\ nx2[x] = IF x = ListHead(l) THEN e ELSE nx[x]
               /\ pv2[x] = IF x = nx[ListHead(l)] THEN e ELSE pv[x],
           nx2[e] = nx[ListHead(l)], pv2[e] = ListHead(l),
           NEW rest, e \notin rest, NEW c, Passed(nx, pv, l, S, rest, c)
    PROVE  Passed(nx2, pv2, l, S \cup {e}, rest, c)
<1>. DEFINE h == ListHead(l)
<1>1. PICK B \in SUBSET S :
          /\ B \cap rest = {}
          /\ \A z \in B : pv[z] \in B \cup {h}
          /\ c \in B \cup {h}
          /\ nx[c] \notin B
    BY DEF Passed
<1>2. h \notin Slots /\ S \subseteq Slots
    BY Pointers DEF RingOf
<1>3. CASE c = h
  <2>1. nx2[c] = e
    BY <1>3
  <2>2. {} \in SUBSET (S \cup {e}) /\ {} \cap rest = {}
    OBVIOUS
  <2>. QED  BY <1>3, <2>1, <2>2 DEF Passed
<1>4. CASE c # h
  <2>. DEFINE B2 == B \cup {e}
  <2>1. \A z \in B2 : pv2[z] \in B2 \cup {h}
    BY <1>1, <1>2
  <2>2. nx2[c] = nx[c] /\ nx[c] # e
    BY <1>1, <1>2, <1>4 DEF RingOf
  <2>3. nx2[c] \notin B2 /\ c \in B2 \cup {h}
    BY <1>1, <2>2
  <2>4. B2 \in SUBSET (S \cup {e}) /\ B2 \cap rest = {}
    BY <1>1
  <2>. HIDE DEF B2
  <2>. QED  BY <2>1, <2>3, <2>4 DEF Passed
<1>. QED  BY <1>3, <1>4

-----------------------------------------------------------------------------
(* What the operations do to the fields of the memory.                     *)

\* The types of the fields.
LEMMA MemoryFields ==
    ASSUME NEW mem \in Memories
    PROVE  /\ mem.next \in [Nodes -> Nodes \cup {Null}]
           /\ mem.prev \in [Nodes -> Nodes \cup {Null, Gone}]
           /\ mem.kind \in [Slots -> Kinds]
           /\ mem.flags \in [Slots -> SUBSET Flags]
           /\ mem.gEntCount \in 0 .. NAux + NEnts
           /\ mem.gManagerCount \in 0 .. NManagers
           /\ mem.current \in Nodes \cup {Null}
    BY DEF Memories

\* DeleteEntityAny on a linked slot, field by field.
LEMMA DeleteFields ==
    ASSUME NEW mem \in Memories, NEW e \in Slots,
           mem.next[e] \in Nodes, mem.prev[e] \in Nodes,
           mem.next[e] # e, mem.prev[e] # e,
           mem.kind[e] = "manager" => mem.gManagerCount > 0
    PROVE  LET r == DeleteEntityAny(mem, e) IN
           /\ r \in Memories
           /\ r.next = [x \in Nodes |-> IF x = e THEN Null
                                        ELSE IF x = mem.prev[e] THEN mem.next[e] ELSE mem.next[x]]
           /\ r.prev = [x \in Nodes |-> IF x = e THEN IF mem.kind[e] = "manager" THEN Null ELSE Gone
                                        ELSE IF x = mem.next[e] THEN mem.prev[e] ELSE mem.prev[x]]
           /\ r.kind = [x \in Slots |-> IF x = e /\ mem.kind[e] = "manager" THEN "none" ELSE mem.kind[x]]
           /\ r.gEntCount = mem.gEntCount
           /\ r.gManagerCount =
                  IF mem.kind[e] = "manager" THEN mem.gManagerCount - 1 ELSE mem.gManagerCount
           /\ r.current = IF mem.current = e THEN mem.prev[e] ELSE mem.current
<1>. DEFINE p == mem.prev[e]
            n == mem.next[e]
            u == UnlinkEntity(mem, e)
            cu == IF mem.current = e THEN p ELSE mem.current
            nx == [mem.next EXCEPT ![p] = n]
            pv == [mem.prev EXCEPT ![n] = p]
<1>1. n # Null /\ e \in Nodes
    BY Pointers DEF Nodes
<1>2. u = [mem EXCEPT !.current = cu, !.next = nx, !.prev = pv]
    BY DEF UnlinkEntity, Memories
<1>3. u \in Memories /\ u.next = nx /\ u.prev = pv /\ u.current = cu
      /\ u.kind = mem.kind /\ u.flags = mem.flags
      /\ u.gEntCount = mem.gEntCount /\ u.gManagerCount = mem.gManagerCount
  <2>1. nx \in [Nodes -> Nodes \cup {Null}] /\ pv \in [Nodes -> Nodes \cup {Null, Gone}]
        /\ cu \in Nodes \cup {Null}
    BY MemoryFields
  <2>. HIDE DEF nx, pv, cu
  <2>. QED  BY <1>2, <2>1 DEF Memories
<1>. DEFINE r == DeleteEntityAny(mem, e)
            nx2 == [nx EXCEPT ![e] = Null]
            pm == [pv EXCEPT ![e] = Null]
            pe == [pv EXCEPT ![e] = Gone]
<1>4. /\ nx2 \in [Nodes -> Nodes \cup {Null}]
      /\ pm \in [Nodes -> Nodes \cup {Null, Gone}]
      /\ pe \in [Nodes -> Nodes \cup {Null, Gone}]
      /\ nx2 = [x \in Nodes |-> IF x = e THEN Null ELSE IF x = p THEN n ELSE mem.next[x]]
      /\ pm = [x \in Nodes |-> IF x = e THEN Null ELSE IF x = n THEN p ELSE mem.prev[x]]
      /\ pe = [x \in Nodes |-> IF x = e THEN Gone ELSE IF x = n THEN p ELSE mem.prev[x]]
    BY <1>1, MemoryFields
<1>. HIDE DEF nx, pv, u, cu
<1>5. CASE mem.kind[e] = "manager"
  <2>. DEFINE kd == [mem.kind EXCEPT ![e] = "none"]
              fl == [mem.flags EXCEPT ![e] = {}]
  <2>1. r = [u EXCEPT !.next[e] = Null, !.prev[e] = Null, !.kind[e] = "none",
                      !.flags[e] = {}, !.gManagerCount = @ - 1]
    BY <1>1, <1>5 DEF DeleteEntityAny, DeleteManager, u
  <2>2. r = [u EXCEPT !.next = nx2, !.prev = pm, !.kind = kd, !.flags = fl,
                      !.gManagerCount = mem.gManagerCount - 1]
    BY <1>3, <2>1 DEF Memories
  <2>3. /\ kd \in [Slots -> Kinds] /\ fl \in [Slots -> SUBSET Flags]
        /\ kd = [x \in Slots |-> IF x = e /\ mem.kind[e] = "manager" THEN "none" ELSE mem.kind[x]]
        /\ mem.gManagerCount - 1 \in 0 .. NManagers
    BY <1>5, MemoryFields, EntityAssumption DEF Kinds
  <2>. HIDE DEF kd, fl, nx2, pm, r
  <2>4. /\ r \in Memories
        /\ r.next = nx2 /\ r.prev = pm /\ r.kind = kd /\ r.gEntCount = mem.gEntCount
        /\ r.gManagerCount = mem.gManagerCount - 1 /\ r.current = cu
    BY <1>3, <1>4, <2>2, <2>3 DEF Memories
  <2>. QED  BY <1>4, <1>5, <2>3, <2>4 DEF r, cu
<1>6. CASE mem.kind[e] # "manager"
  <2>1. r = [u EXCEPT !.next[e] = Null, !.prev[e] = Gone]
    BY <1>1, <1>6 DEF DeleteEntityAny, DeleteEntity, u
  <2>2. r = [u EXCEPT !.next = nx2, !.prev = pe]
    BY <1>3, <2>1 DEF Memories
  <2>3. mem.kind = [x \in Slots |-> IF x = e /\ mem.kind[e] = "manager" THEN "none" ELSE mem.kind[x]]
    BY <1>6, MemoryFields
  <2>. HIDE DEF nx2, pe, r
  <2>4. /\ r \in Memories
        /\ r.next = nx2 /\ r.prev = pe /\ r.kind = mem.kind /\ r.gEntCount = mem.gEntCount
        /\ r.gManagerCount = mem.gManagerCount /\ r.current = cu
    BY <1>3, <1>4, <2>2 DEF Memories
  <2>. QED  BY <1>4, <1>6, <2>3, <2>4 DEF r, cu
<1>. QED  BY <1>5, <1>6

-----------------------------------------------------------------------------
(* A memory whose lists are rings, and what the operations keep of it.     *)

KindFits(mem, x) ==
    IF x \in Managers THEN mem.kind[x] = "manager" ELSE mem.kind[x] \in {"entity", "enemy"}

\* x is linked, here (on) or on a list that was put away (A), or it is free,
\* or it is an entity that waits to be freed.
SlotFits(mem, on, A, x) ==
    \/ /\ x \in A \/ \E l \in Lists : x \in on[l]
       /\ KindFits(mem, x)
    \/ /\ x \notin A /\ \A l \in Lists : x \notin on[l]
       /\ mem.next[x] = Null /\ mem.prev[x] = Null /\ mem.kind[x] = "none"
    \/ /\ x \notin A /\ \A l \in Lists : x \notin on[l]
       /\ mem.next[x] = Null /\ mem.prev[x] = Gone /\ x \in EntitySlots
       /\ KindFits(mem, x)

CountsFit(mem) ==
    /\ mem.gEntCount = Cardinality(EntitySlots \ Free(mem))
    /\ mem.gManagerCount = Cardinality(Managers \ Free(mem))

\* on[l] is what list l links.
Sound(mem, on, A) ==
    /\ mem \in Memories
    /\ on \in [Lists -> SUBSET Slots]
    /\ A \in SUBSET Slots
    /\ \A l \in Lists : RingOf(mem.next, mem.prev, l, on[l]) /\ on[l] \cap A = {}
    /\ \A k, l \in Lists : k # l => on[k] \cap on[l] = {}
    /\ \A x \in A : mem.next[x] \in Nodes /\ mem.prev[x] \in Nodes
    /\ \A x \in Slots : SlotFits(mem, on, A, x)
    /\ CountsFit(mem)

\* What a change of the memory from mem to r leaves: the nodes put away, a
\* place for the walk to go on from, and how far the walk of each list has
\* come, as long as what rests to be updated is in D.
Keeps(mem, on, r, on2, A, D) ==
    /\ \A x \in A : r.next[x] = mem.next[x] /\ r.prev[x] = mem.prev[x]
    /\ mem.current \in Nodes => r.current \in Nodes
    /\ \A l \in Lists : \A rest \in SUBSET D :
           Passed(mem.next, mem.prev, l, on[l], rest, mem.current) =>
               Passed(r.next, r.prev, l, on2[l], rest, r.current)

\* Two changes in a row.
LEMMA KeepsTransitive ==
    ASSUME NEW m1, NEW m2, NEW m3, NEW on1, NEW on2, NEW on3, NEW A, NEW D, NEW E \in SUBSET D,
           Keeps(m1, on1, m2, on2, A, D), Keeps(m2, on2, m3, on3, A, E)
    PROVE  Keeps(m1, on1, m3, on3, A, E)
    BY DEF Keeps

\* The members of the lists are what the rings link.
LEMMA SoundMembers ==
    ASSUME NEW mem, NEW on, NEW A, Sound(mem, on, A)
    PROVE  /\ \A l \in Lists : Members(mem, l) = on[l]
           /\ on = [l \in Lists |-> Members(mem, l)]
           /\ \A x : x \in AllMembers(mem) <=> \E l \in Lists : x \in on[l]
           /\ AllMembers(mem) \in SUBSET Slots
<1>1. \A l \in Lists : Members(mem, l) = on[l]
    BY WalkOfRing DEF Sound
<1>2. on \in [Lists -> SUBSET Slots]
    BY DEF Sound
<1>3. on = [l \in Lists |-> Members(mem, l)]
    BY <1>1, <1>2
<1>4. \A x : x \in AllMembers(mem) <=> \E l \in Lists : x \in on[l]
    BY <1>1 DEF AllMembers
<1>5. AllMembers(mem) \in SUBSET Slots
    BY <1>2, <1>4
<1>. QED  BY <1>1, <1>3, <1>4, <1>5

\* A slot's links and its kind tell where it is.
LEMMA SoundSlots ==
    ASSUME NEW mem, NEW on, NEW A, Sound(mem, on, A), NEW x \in Slots
    PROVE  /\ x \in A \/ (\E l \in Lists : x \in on[l]) <=> mem.next[x] # Null
           /\ mem.next[x] # Null => mem.next[x] \in Nodes /\ mem.prev[x] \in Nodes /\ KindFits(mem, x)
           /\ mem.kind[x] = "manager" <=> x \in Managers /\ x \notin Free(mem)
           /\ mem.kind[x] = "none" <=> x \in Free(mem)
           /\ mem.prev[x] = Gone => x \in EntitySlots /\ mem.next[x] = Null
           /\ mem.prev[x] = Null => mem.next[x] = Null
           /\ mem.next[x] = Null => mem.prev[x] \in {Null, Gone}
<1>1. ASSUME x \in A \/ \E l \in Lists : x \in on[l]
      PROVE  mem.next[x] \in Nodes /\ mem.prev[x] \in Nodes
  <2>1. CASE x \in A
    BY <2>1 DEF Sound
  <2>2. ASSUME NEW l \in Lists, x \in on[l] PROVE mem.next[x] \in Nodes /\ mem.prev[x] \in Nodes
    <3>1. RingOf(mem.next, mem.prev, l, on[l])
      BY DEF Sound
    <3>. QED  BY <2>2, <3>1, RingNeighbours
  <2>. QED  BY <1>1, <2>1, <2>2
<1>2. Null \notin Nodes /\ Gone \notin Nodes /\ Null # Gone /\ (x \in Managers <=> x \notin EntitySlots)
    BY Pointers
<1>3. SlotFits(mem, on, A, x)
    BY DEF Sound
<1>. QED  BY <1>1, <1>2, <1>3 DEF SlotFits, KindFits, Free

\* Counting: a pool's slots that are not free, when one of them is freed or
\* one is taken.
LEMMA CountOneLess ==
    ASSUME NEW P \in SUBSET Slots, NEW F, NEW e \in P \ F
    PROVE  /\ Cardinality(P \ (F \cup {e})) = Cardinality(P \ F) - 1
           /\ Cardinality(P \ F) \in Nat /\ Cardinality(P \ F) > 0
<1>1. IsFiniteSet(P \ F)
    BY Pointers, FS_Subset
<1>2. P \ (F \cup {e}) = (P \ F) \ {e}
    OBVIOUS
<1>3. Cardinality((P \ F) \ {e}) = Cardinality(P \ F) - 1
    BY <1>1, FS_RemoveElement
<1>4. Cardinality(P \ F) \in Nat /\ Cardinality(P \ F) # 0
    BY <1>1, FS_CardinalityType, FS_EmptySet
<1>. QED  BY <1>2, <1>3, <1>4

\* One slot of the pool is taken.
LEMMA CountOneMore ==
    ASSUME NEW P \in SUBSET Slots, NEW F, NEW e \in P \cap F
    PROVE  Cardinality(P \ (F \ {e})) = Cardinality(P \ F) + 1
<1>1. IsFiniteSet(P \ F)
    BY Pointers, FS_Subset
<1>2. P \ (F \ {e}) = (P \ F) \cup {e}
    OBVIOUS
<1>3. Cardinality((P \ F) \cup {e}) = Cardinality(P \ F) + 1
    BY <1>1, FS_AddElement
<1>. QED  BY <1>2, <1>3

\* DeleteEntityAny takes a slot off its list, whichever that is, and leaves
\* everything else: an entity then waits to be freed, a manager is free.
LEMMA DeleteSound ==
    ASSUME NEW mem, NEW on, NEW A, Sound(mem, on, A), NEW e \in Slots \ A
    PROVE  LET on2 == [l \in Lists |-> on[l] \ {e}]
               r == DeleteEntityAny(mem, e)
           IN  Sound(r, on2, A) /\ Keeps(mem, on, r, on2, A, Slots)
<1>. DEFINE on2 == [l \in Lists |-> on[l] \ {e}]
            r == DeleteEntityAny(mem, e)
<1>1. mem \in Memories /\ on \in [Lists -> SUBSET Slots]
    BY DEF Sound
<1>2. CASE mem.next[e] = Null
  <2>1. r = mem
    BY <1>2 DEF DeleteEntityAny, DeleteManager, DeleteEntity
  <2>2. \A l \in Lists : e \notin on[l]
    BY <1>2, SoundSlots
  <2>3. on2 = on
    BY <1>1, <2>2
  <2>. QED  BY <2>1, <2>3 DEF Keeps
<1>3. CASE mem.next[e] # Null
  <2>1. PICK k \in Lists : e \in on[k]
    BY <1>3, SoundSlots
  <2>2. RingOf(mem.next, mem.prev, k, on[k])
    BY DEF Sound
  <2>3. /\ mem.next[e] \in Nodes /\ mem.next[e] # e /\ mem.next[e] \in on[k] \cup {ListHead(k)}
        /\ mem.prev[e] \in Nodes /\ mem.prev[e] # e /\ mem.prev[e] \in on[k] \cup {ListHead(k)}
    BY <2>1, <2>2, RingNeighbours
  <2>4. /\ mem.kind[e] = "manager" <=> e \in Managers
        /\ e \notin Free(mem) /\ mem.kind[e] # "none" /\ KindFits(mem, e)
    <3>1. e \notin Free(mem)
      BY <2>3, Pointers DEF Free
    <3>. QED  BY <1>3, <3>1, SoundSlots
  <2>5. mem.kind[e] = "manager" => mem.gManagerCount > 0
    <3>1. Managers \in SUBSET Slots
      BY Pointers
    <3>2. e \in Managers => Cardinality(Managers \ Free(mem)) > 0
      BY <2>4, <3>1, CountOneLess
    <3>. QED  BY <2>4, <3>2 DEF Sound, CountsFit
  <2>6. /\ r \in Memories
        /\ r.next = [x \in Nodes |-> IF x = e THEN Null
                                     ELSE IF x = mem.prev[e] THEN mem.next[e] ELSE mem.next[x]]
        /\ r.prev = [x \in Nodes |-> IF x = e THEN IF mem.kind[e] = "manager" THEN Null ELSE Gone
                                     ELSE IF x = mem.next[e] THEN mem.prev[e] ELSE mem.prev[x]]
        /\ r.kind = [x \in Slots |-> IF x = e /\ mem.kind[e] = "manager" THEN "none" ELSE mem.kind[x]]
        /\ r.gEntCount = mem.gEntCount
        /\ r.gManagerCount =
               IF mem.kind[e] = "manager" THEN mem.gManagerCount - 1 ELSE mem.gManagerCount
        /\ r.current = IF mem.current = e THEN mem.prev[e] ELSE mem.current
    BY <1>1, <2>3, <2>5, DeleteFields
  <2>. HIDE DEF r
  <2>7. \A l \in Lists : on[l] \cup {ListHead(l)} \subseteq Nodes
    BY <1>1, Pointers DEF Nodes
  <2>8. ASSUME NEW x \in Slots \cup Heads, x # e, x \notin on[k] \cup {ListHead(k)}
        PROVE  r.next[x] = mem.next[x] /\ r.prev[x] = mem.prev[x]
    BY <2>3, <2>6, <2>8 DEF Nodes
  <2>9. \A x \in on[k] \cup {ListHead(k)} : x # e =>
            /\ r.next[x] = IF x = mem.prev[e] THEN mem.next[e] ELSE mem.next[x]
            /\ r.prev[x] = IF x = mem.next[e] THEN mem.prev[e] ELSE mem.prev[x]
    BY <2>6, <2>7
  <2>10. ASSUME NEW l \in Lists, l # k
         PROVE  /\ e \notin on[l] /\ on2[l] = on[l] /\ ListHead(l) \notin Slots
                /\ \A x \in on[l] \cup {ListHead(l)} :
                       r.next[x] = mem.next[x] /\ r.prev[x] = mem.prev[x]
    <3>1. on[l] \cap on[k] = {} /\ on[l] \subseteq Slots /\ on[k] \subseteq Slots
      BY <2>10, <1>1 DEF Sound
    <3>2. ListHead(l) \in Heads /\ ListHead(l) \notin Slots /\ ListHead(k) \notin Slots
          /\ ListHead(l) # ListHead(k)
      BY <2>10, Pointers
    <3>3. \A x \in on[l] \cup {ListHead(l)} :
              x \in Slots \cup Heads /\ x # e /\ x \notin on[k] \cup {ListHead(k)}
      BY <2>1, <3>1, <3>2
    <3>. QED  BY <2>1, <2>8, <3>1, <3>2, <3>3
  <2>11. on2[k] = on[k] \ {e}
    OBVIOUS
  <2>12. \A l \in Lists : RingOf(r.next, r.prev, l, on2[l])
    <3>1. RingOf(r.next, r.prev, k, on[k] \ {e})
      BY <2>1, <2>2, <2>9, RingWithout
    <3>2. ASSUME NEW l \in Lists, l # k PROVE RingOf(r.next, r.prev, l, on[l])
      <4>1. RingOf(mem.next, mem.prev, l, on[l])
        BY DEF Sound
      <4>. QED  BY <2>10, <3>2, <4>1, RingAgrees
    <3>. QED  BY <2>10, <2>11, <3>1, <3>2
  <2>13. \A x \in A : r.next[x] = mem.next[x] /\ r.prev[x] = mem.prev[x]
    <3>1. ASSUME NEW x \in A PROVE x \in Slots /\ x # e /\ x \notin on[k] \cup {ListHead(k)}
      BY Pointers DEF Sound
    <3>. QED  BY <2>8, <3>1
  <2>14. ASSUME NEW x \in Slots PROVE SlotFits(r, on2, A, x)
    <3>1. SlotFits(mem, on, A, x)
      BY DEF Sound
    <3>2. CASE x = e
      BY <2>4, <2>6, <3>2, Pointers DEF SlotFits, KindFits, Nodes
    <3>3. CASE x # e
      <4>1. r.kind[x] = mem.kind[x] /\ \A l \in Lists : x \in on2[l] <=> x \in on[l]
        BY <2>6, <3>3
      <4>2. ListHead(k) \notin Slots
        BY Pointers
      <4>3. x \notin on[k] => r.next[x] = mem.next[x] /\ r.prev[x] = mem.prev[x]
        BY <2>8, <3>3, <4>2
      <4>. QED  BY <3>1, <4>1, <4>3 DEF SlotFits, KindFits
    <3>. QED  BY <3>2, <3>3
  <2>15. CountsFit(r)
    <3>1. EntitySlots \cap Managers = {} /\ Managers \in SUBSET Slots
          /\ Null \notin Nodes /\ Gone # Null
      BY Pointers
    <3>2. CountsFit(mem) /\ mem.prev[mem.next[e]] = e /\ e # Null
      BY <2>1, <2>2, <3>1 DEF Sound, RingOf, Nodes
    <3>3. \A x \in Slots :
              r.prev[x] = IF x = e THEN IF mem.kind[e] = "manager" THEN Null ELSE Gone
                          ELSE IF x = mem.next[e] THEN mem.prev[e] ELSE mem.prev[x]
      BY <2>6 DEF Nodes
    <3>4. CASE e \in Managers
      <4>1. Free(r) = Free(mem) \cup {e}
        BY <2>3, <2>4, <3>1, <3>4, <3>2, <3>3 DEF Free
      <4>2. EntitySlots \ Free(r) = EntitySlots \ Free(mem)
        BY <3>1, <3>4, <4>1
      <4>3. Cardinality(Managers \ Free(r)) = Cardinality(Managers \ Free(mem)) - 1
        BY <2>4, <3>1, <3>4, <4>1, CountOneLess
      <4>. QED  BY <2>4, <2>6, <3>4, <3>2, <4>2, <4>3 DEF CountsFit
    <3>5. CASE e \notin Managers
      <4>1. Free(r) = Free(mem)
        BY <2>3, <2>4, <3>1, <3>5, <3>2, <3>3 DEF Free
      <4>. QED  BY <2>4, <2>6, <3>5, <3>2, <4>1 DEF CountsFit
    <3>. QED  BY <3>4, <3>5
  <2>16. Keeps(mem, on, r, on2, A, Slots)
    <3>1. mem.current \in Nodes => r.current \in Nodes
      BY <2>3, <2>6
    <3>2. ASSUME NEW l \in Lists, NEW rest \in SUBSET Slots,
                 Passed(mem.next, mem.prev, l, on[l], rest, mem.current)
          PROVE  Passed(r.next, r.prev, l, on2[l], rest, r.current)
      <4>1. CASE l = k
        <5>. DEFINE c == mem.current
        <5>1. Passed(r.next, r.prev, k, on[k] \ {e}, rest, IF c = e THEN mem.prev[e] ELSE c)
          BY <2>1, <2>2, <2>9, <3>2, <4>1, PassedWithout
        <5>. QED  BY <2>6, <4>1, <5>1
      <4>2. CASE l # k
        <5>1. mem.current \in on[l] \cup {ListHead(l)}
          BY <3>2 DEF Passed
        <5>2. r.current = mem.current
          BY <2>6, <2>10, <4>2, <5>1
        <5>3. Passed(r.next, r.prev, l, on[l], rest, mem.current)
          BY <2>10, <3>2, <4>2, PassedAgrees
        <5>. QED  BY <2>10, <4>2, <5>2, <5>3
      <4>. QED  BY <4>1, <4>2
    <3>. QED  BY <2>13, <3>1, <3>2 DEF Keeps
  <2>17. /\ on2 \in [Lists -> SUBSET Slots] /\ A \in SUBSET Slots
         /\ \A l \in Lists : on2[l] \cap A = {}
         /\ \A i, l \in Lists : i # l => on2[i] \cap on2[l] = {}
         /\ \A x \in A : r.next[x] \in Nodes /\ r.prev[x] \in Nodes
    BY <1>1, <2>13 DEF Sound
  <2>. HIDE DEF on2
  <2>18. Sound(r, on2, A)
    BY <2>6, <2>12, <2>14, <2>15, <2>17 DEF Sound
  <2>. QED  BY <2>16, <2>18 DEF r, on2
<1>. QED  BY <1>2, <1>3

\* del[S] is the memory when the members of S are deleted, one by one.
Deletes(del, mem, D) ==
    /\ del[{}] = mem
    /\ \A S \in SUBSET D : S # {} =>
           \E e \in S : del[S] = DeleteEntityAny(del[S \ {e}], e)

\* The recursion that defines DeleteWhere is well-defined.
LEMMA DeleteWhereRecursion ==
    ASSUME NEW mem, NEW D \in SUBSET Slots
    PROVE  \E del : DeleteWhere(mem, D) = del[D] /\ Deletes(del, mem, D)
<1>. DEFINE pick(S) == CHOOSE x \in S : TRUE
            K(k) == {S \in SUBSET D : Cardinality(S) <= k}
            Def(g, U) == g = [S \in U |-> IF S = {} THEN mem
                                          ELSE DeleteEntityAny(g[S \ {pick(S)}], pick(S))]
            N == Cardinality(D)
            F == {k \in 0 .. N : \E g : Def(g, K(k))}
<1>1. IsFiniteSet(D) /\ N \in Nat
    BY Pointers, FS_Subset, FS_CardinalityType
<1>2. ASSUME NEW S \in SUBSET D
      PROVE  /\ IsFiniteSet(S) /\ Cardinality(S) \in 0 .. N
             /\ Cardinality(S) = 0 <=> S = {}
             /\ S # {} => pick(S) \in S /\ Cardinality(S \ {pick(S)}) = Cardinality(S) - 1
  <2>1. IsFiniteSet(S) /\ Cardinality(S) \in Nat /\ Cardinality(S) <= N
    BY <1>1, FS_Subset, FS_CardinalityType
  <2>2. Cardinality(S) = 0 <=> S = {}
    BY <2>1, FS_EmptySet
  <2>3. S # {} => pick(S) \in S
    OBVIOUS
  <2>4. S # {} => Cardinality(S \ {pick(S)}) = Cardinality(S) - 1
    BY <2>1, <2>3, FS_RemoveElement
  <2>. QED  BY <1>1, <2>1, <2>2, <2>3, <2>4
<1>. HIDE DEF pick, N
<1>3. 0 \in F
  <2>. DEFINE g == [S \in K(0) |-> mem]
  <2>1. ASSUME NEW S \in K(0) PROVE S = {}
    <3>1. S \in SUBSET D /\ Cardinality(S) <= 0
      OBVIOUS
    <3>2. Cardinality(S) \in 0 .. N /\ (Cardinality(S) = 0 <=> S = {})
      BY <1>2, <3>1
    <3>. QED  BY <1>1, <3>1, <3>2
  <2>2. Def(g, K(0))
    BY <2>1
  <2>3. \E x : Def(x, K(0))
    BY <2>2, Zenon
  <2>. HIDE DEF Def, K
  <2>. QED  BY <1>1, <2>3
<1>4. ASSUME NEW k \in 1 .. N, k - 1 \in F PROVE k \in F
  <2>1. PICK g : Def(g, K(k - 1))
    BY <1>4
  <2>. DEFINE f == [S \in K(k) |-> IF S = {} THEN mem
                                   ELSE DeleteEntityAny(g[S \ {pick(S)}], pick(S))]
  <2>2. ASSUME NEW S \in K(k), S # {} PROVE g[S \ {pick(S)}] = f[S \ {pick(S)}]
    <3>. DEFINE U == S \ {pick(S)}
    <3>1. U \in K(k - 1) /\ U \in K(k)
      BY <1>2, <2>2
    <3>2. g[U] = IF U = {} THEN mem ELSE DeleteEntityAny(g[U \ {pick(U)}], pick(U))
      BY <2>1, <3>1
    <3>3. f[U] = IF U = {} THEN mem ELSE DeleteEntityAny(g[U \ {pick(U)}], pick(U))
      BY <3>1
    <3>. QED  BY <3>2, <3>3
  <2>3. Def(f, K(k))
    BY <2>2, Zenon
  <2>4. \E x : Def(x, K(k))
    BY <2>3, Zenon
  <2>. HIDE DEF Def, K
  <2>. QED  BY <2>4
<1>5. N \in F
  <2>. HIDE DEF F
  <2>1. \A k \in 0 .. N : k \in F
    BY <1>1, <1>3, <1>4, UpTo
  <2>. QED  BY <1>1, <2>1
<1>6. \E g : Def(g, SUBSET D)
  <2>1. ASSUME NEW S \in SUBSET D PROVE Cardinality(S) <= N
    <3>1. Cardinality(S) \in 0 .. N
      BY <1>2
    <3>. QED  BY <1>1, <3>1
  <2>2. K(N) = SUBSET D
    BY <2>1
  <2>. QED  BY <1>5, <2>2
<1>. DEFINE del == CHOOSE g : Def(g, SUBSET D)
<1>7. Def(del, SUBSET D)
    BY <1>6, Zenon
<1>8. DeleteWhere(mem, D) = del[D]
    BY Zenon DEF DeleteWhere, pick
<1>. HIDE DEF del
<1>9. del[{}] = mem
    BY <1>7
<1>10. ASSUME NEW S \in SUBSET D, S # {}
       PROVE  \E e \in S : del[S] = DeleteEntityAny(del[S \ {e}], e)
  <2>1. del[S] = DeleteEntityAny(del[S \ {pick(S)}], pick(S))
    BY <1>7, <1>10
  <2>. QED  BY <1>2, <1>10, <2>1
<1>11. Deletes(del, mem, D)
    BY <1>9, <1>10 DEF Deletes
<1>. QED  BY <1>8, <1>11

\* Deleting a set of linked slots, one by one, takes them off their lists.
LEMMA DeleteWhereSound ==
    ASSUME NEW mem, NEW on, NEW A, Sound(mem, on, A), NEW D \in SUBSET (Slots \ A)
    PROVE  LET on2 == [l \in Lists |-> on[l] \ D]
               r == DeleteWhere(mem, D)
           IN  Sound(r, on2, A) /\ Keeps(mem, on, r, on2, A, Slots)
<1>1. PICK del : DeleteWhere(mem, D) = del[D] /\ Deletes(del, mem, D)
    BY D \in SUBSET Slots, DeleteWhereRecursion
<1>. DEFINE Left(S) == [l \in Lists |-> on[l] \ S]
            F == {S \in SUBSET D : Sound(del[S], Left(S), A)
                                   /\ Keeps(mem, on, del[S], Left(S), A, Slots)}
<1>2. IsFiniteSet(D)
    BY Pointers, FS_Subset
<1>3. {} \in F
  <2>1. on \in [Lists -> SUBSET Slots]
    BY DEF Sound
  <2>2. Left({}) = on
    BY <2>1
  <2>. QED  BY <1>1, <2>2 DEF Keeps, Deletes
<1>4. ASSUME NEW S \in SUBSET D, \A e \in S : S \ {e} \in F PROVE S \in F
  <2>1. CASE S = {}
    BY <1>3, <2>1
  <2>2. CASE S # {}
    <3>1. PICK e \in S : del[S] = DeleteEntityAny(del[S \ {e}], e)
      BY <1>1, <2>2 DEF Deletes
    <3>. DEFINE U == S \ {e}
    <3>2. Sound(del[U], Left(U), A) /\ Keeps(mem, on, del[U], Left(U), A, Slots)
      BY <1>4
    <3>3. e \in Slots \ A /\ [l \in Lists |-> Left(U)[l] \ {e}] = Left(S)
      OBVIOUS
    <3>. HIDE DEF Left, U
    <3>4. Sound(del[S], Left(S), A) /\ Keeps(del[U], Left(U), del[S], Left(S), A, Slots)
      BY <3>1, <3>2, <3>3, DeleteSound DEF U
    <3>5. Keeps(mem, on, del[S], Left(S), A, Slots)
      BY <3>2, <3>4, KeepsTransitive
    <3>. QED  BY <3>4, <3>5
  <2>. QED  BY <2>1, <2>2
<1>. HIDE DEF F
<1>5. \A S \in SUBSET D : S \in F
    BY <1>2, <1>4, SubsetInduction
<1>6. D \in F
    BY <1>5
<1>. QED  BY <1>1, <1>6 DEF F

\* Deleting what is not linked changes nothing.
LEMMA DeleteWhereNothing ==
    ASSUME NEW mem, NEW D \in SUBSET Slots, \A e \in D : mem.next[e] = Null
    PROVE  DeleteWhere(mem, D) = mem
<1>1. PICK del : DeleteWhere(mem, D) = del[D] /\ Deletes(del, mem, D)
    BY D \in SUBSET Slots, DeleteWhereRecursion
<1>. DEFINE F == {S \in SUBSET D : del[S] = mem}
<1>2. IsFiniteSet(D)
    BY Pointers, FS_Subset
<1>3. \A e \in D : DeleteEntityAny(mem, e) = mem
    BY DEF DeleteEntityAny, DeleteManager, DeleteEntity
<1>4. ASSUME NEW S \in SUBSET D, \A e \in S : S \ {e} \in F PROVE S \in F
    BY <1>1, <1>3, <1>4 DEF Deletes
<1>. HIDE DEF F
<1>5. \A S \in SUBSET D : S \in F
    BY <1>2, <1>4, SubsetInduction
<1>6. D \in F
    BY <1>5
<1>. QED  BY <1>1, <1>6 DEF F

\* ClearDeletedEntities, field by field.
LEMMA ClearFields ==
    ASSUME NEW mem \in Memories, NEW D \in SUBSET Slots,
           mem.gEntCount - Cardinality(D) \in 0 .. NAux + NEnts
    PROVE  LET r == ClearDeletedEntities(mem, D) IN
           /\ r \in Memories
           /\ r.next = [x \in Nodes |-> IF x \in D THEN Null ELSE mem.next[x]]
           /\ r.prev = [x \in Nodes |-> IF x \in D THEN Null ELSE mem.prev[x]]
           /\ r.kind = [x \in Slots |-> IF x \in D THEN "none" ELSE mem.kind[x]]
           /\ r.gEntCount = mem.gEntCount - Cardinality(D)
           /\ r.gManagerCount = mem.gManagerCount
           /\ r.current = mem.current
<1>. DEFINE r == ClearDeletedEntities(mem, D)
            nx == [x \in Nodes |-> IF x \in D THEN Null ELSE mem.next[x]]
            pv == [x \in Nodes |-> IF x \in D THEN Null ELSE mem.prev[x]]
            kd == [x \in Slots |-> IF x \in D THEN "none" ELSE mem.kind[x]]
            fl == [x \in Slots |-> IF x \in D THEN {} ELSE mem.flags[x]]
            ec == mem.gEntCount - Cardinality(D)
<1>1. r = [mem EXCEPT !.next = nx, !.prev = pv, !.kind = kd, !.flags = fl, !.gEntCount = ec]
    BY DEF ClearDeletedEntities, Memories
<1>2. /\ nx \in [Nodes -> Nodes \cup {Null}] /\ pv \in [Nodes -> Nodes \cup {Null, Gone}]
      /\ kd \in [Slots -> Kinds] /\ fl \in [Slots -> SUBSET Flags]
    BY MemoryFields DEF Kinds
<1>. HIDE DEF r, nx, pv, kd, fl, ec
<1>3. /\ r \in Memories
      /\ r.next = nx /\ r.prev = pv /\ r.kind = kd /\ r.gEntCount = ec
      /\ r.gManagerCount = mem.gManagerCount /\ r.current = mem.current
    BY <1>1, <1>2 DEF Memories, ec
<1>. QED  BY <1>3 DEF r, nx, pv, kd, ec

\* Freeing slots that wait for it touches no list.
LEMMA ClearSound ==
    ASSUME NEW mem, NEW on, NEW A, Sound(mem, on, A),
           NEW D \in SUBSET (Deleted(mem) \cap EntitySlots)
    PROVE  LET r == ClearDeletedEntities(mem, D)
           IN  /\ Sound(r, on, A) /\ Keeps(mem, on, r, on, A, Slots)
               /\ r.current = mem.current
               /\ Free(r) = Free(mem) \cup D /\ Deleted(r) = Deleted(mem) \ D
<1>. DEFINE r == ClearDeletedEntities(mem, D)
            P == EntitySlots \ Free(mem)
<1>1. mem \in Memories /\ on \in [Lists -> SUBSET Slots] /\ A \in SUBSET Slots /\ CountsFit(mem)
    BY DEF Sound
<1>2. D \in SUBSET Slots /\ D \subseteq EntitySlots /\ \A x \in D : mem.prev[x] = Gone
    BY DEF Deleted
<1>3. \A x \in D : mem.next[x] = Null /\ x \in EntitySlots
    BY <1>2, SoundSlots
<1>4. \A x \in D : x \notin A /\ \A l \in Lists : x \notin on[l]
    BY <1>2, <1>3, SoundSlots
<1>5. D \subseteq P
    BY <1>2, Pointers DEF Free
<1>6. /\ Cardinality(P \ D) = Cardinality(P) - Cardinality(D)
      /\ Cardinality(D) \in Nat /\ Cardinality(P \ D) \in Nat
  <2>1. IsFiniteSet(P) /\ IsFiniteSet(D)
    BY <1>2, Pointers, FS_Subset
  <2>2. P \cap D = D
    BY <1>5
  <2>. QED  BY <2>1, <2>2, FS_Difference, FS_CardinalityType, ZenonT(30)
<1>7. mem.gEntCount - Cardinality(D) \in 0 .. NAux + NEnts
    BY <1>1, <1>6, MemoryFields, EntityAssumption DEF CountsFit
<1>8. /\ r \in Memories
      /\ r.next = [x \in Nodes |-> IF x \in D THEN Null ELSE mem.next[x]]
      /\ r.prev = [x \in Nodes |-> IF x \in D THEN Null ELSE mem.prev[x]]
      /\ r.kind = [x \in Slots |-> IF x \in D THEN "none" ELSE mem.kind[x]]
      /\ r.gEntCount = mem.gEntCount - Cardinality(D)
      /\ r.gManagerCount = mem.gManagerCount
      /\ r.current = mem.current
    BY <1>1, <1>2, <1>7, ClearFields
<1>. HIDE DEF r
<1>9. \A x \in Nodes \ D : r.next[x] = mem.next[x] /\ r.prev[x] = mem.prev[x]
    BY <1>8
<1>10. \A x \in D : r.next[x] = Null /\ r.prev[x] = Null /\ r.kind[x] = "none"
    BY <1>2, <1>8 DEF Nodes
<1>11. ASSUME NEW l \in Lists
       PROVE  \A x \in on[l] \cup {ListHead(l)} : r.next[x] = mem.next[x] /\ r.prev[x] = mem.prev[x]
  <2>1. on[l] \cup {ListHead(l)} \subseteq Nodes \ D
    BY <1>1, <1>2, <1>4, Pointers DEF Nodes
  <2>. QED  BY <1>9, <2>1
<1>12. \A l \in Lists : RingOf(r.next, r.prev, l, on[l])
    BY <1>11, RingAgrees DEF Sound
<1>13. \A x \in A : r.next[x] = mem.next[x] /\ r.prev[x] = mem.prev[x]
    BY <1>1, <1>4, <1>9 DEF Nodes
<1>14. ASSUME NEW x \in Slots PROVE SlotFits(r, on, A, x)
  <2>1. CASE x \in D
    BY <1>4, <1>10, <2>1 DEF SlotFits
  <2>2. CASE x \notin D
    <3>1. r.next[x] = mem.next[x] /\ r.prev[x] = mem.prev[x] /\ r.kind[x] = mem.kind[x]
      BY <1>8, <1>9, <2>2 DEF Nodes
    <3>2. SlotFits(mem, on, A, x)
      BY DEF Sound
    <3>. QED  BY <3>1, <3>2 DEF SlotFits, KindFits
  <2>. QED  BY <2>1, <2>2
<1>15. Free(r) = Free(mem) \cup D
    BY <1>2, <1>9, <1>10 DEF Free, Nodes
<1>16. Deleted(r) = Deleted(mem) \ D
    BY <1>2, <1>9, <1>10, Pointers DEF Deleted, Nodes
<1>17. CountsFit(r)
  <2>1. EntitySlots \ Free(r) = P \ D /\ Managers \ Free(r) = Managers \ Free(mem)
    BY <1>2, <1>15, Pointers
  <2>. QED  BY <1>1, <1>6, <1>8, <2>1 DEF CountsFit
<1>18. Sound(r, on, A)
    BY <1>1, <1>8, <1>12, <1>13, <1>14, <1>17 DEF Sound
<1>19. Keeps(mem, on, r, on, A, Slots)
    BY <1>8, <1>11, <1>13, PassedAgrees DEF Keeps
<1>. QED  BY <1>8, <1>15, <1>16, <1>18, <1>19 DEF r

\* At the end of a pass whatever waits to be freed is free.
LEMMA ClearAllSound ==
    ASSUME NEW mem, NEW on, NEW A, Sound(mem, on, A)
    PROVE  LET r == ClearAllDeletedEntities(mem)
           IN  /\ Sound(r, on, A) /\ Keeps(mem, on, r, on, A, Slots)
               /\ r.current = mem.current
               /\ Deleted(r) = {}
<1>1. Deleted(mem) \subseteq EntitySlots
    BY SoundSlots DEF Deleted
<1>. QED  BY <1>1, ClearSound DEF ClearAllDeletedEntities

Empty == [l \in Lists |-> {}]

\* The members of the lists in use are not on those put away.
LEMMA MembersNotAway ==
    ASSUME NEW mem, NEW on, NEW A, Sound(mem, on, A)
    PROVE  AllMembers(mem) \in SUBSET (Slots \ A)
<1>1. \A x : x \in AllMembers(mem) <=> \E l \in Lists : x \in on[l]
    BY SoundMembers
<1>2. \A l \in Lists : on[l] \in SUBSET Slots /\ on[l] \cap A = {}
    BY DEF Sound
<1>. QED  BY <1>1, <1>2

\* DeleteAllEntities empties the lists in use and frees their slots.
LEMMA DeleteAllSound ==
    ASSUME NEW mem, NEW on, NEW A, Sound(mem, on, A)
    PROVE  LET r == DeleteAllEntities(mem)
           IN  /\ Sound(r, Empty, A) /\ Keeps(mem, on, r, Empty, A, Slots)
               /\ Deleted(r) = {}
<1>. DEFINE D == AllMembers(mem)
            d == DeleteWhere(mem, D)
            r == ClearAllDeletedEntities(d)
<1>1. D \in SUBSET (Slots \ A)
    BY MembersNotAway
<1>2. [l \in Lists |-> on[l] \ D] = Empty
    BY SoundMembers DEF Empty
<1>. HIDE DEF D
<1>3. Sound(d, Empty, A) /\ Keeps(mem, on, d, Empty, A, Slots)
    BY <1>1, <1>2, DeleteWhereSound
<1>. HIDE DEF d
<1>4. Sound(r, Empty, A) /\ Keeps(d, Empty, r, Empty, A, Slots) /\ Deleted(r) = {}
    BY <1>3, ClearAllSound
<1>. HIDE DEF r
<1>5. Keeps(mem, on, r, Empty, A, Slots)
    BY <1>3, <1>4, KeepsTransitive
<1>. QED  BY <1>4, <1>5 DEF r, d, D, DeleteAllEntities

\* DeleteAllEnemies keeps the lists rings.
LEMMA DeleteAllEnemiesSound ==
    ASSUME NEW mem, NEW on, NEW A, Sound(mem, on, A)
    PROVE  LET r == DeleteAllEnemies(mem)
           IN  \E on2 : Sound(r, on2, A) /\ Keeps(mem, on, r, on2, A, Slots)
<1>. DEFINE D == {e \in AllMembers(mem) : mem.kind[e] = "enemy"}
            on2 == [l \in Lists |-> on[l] \ D]
            d == DeleteWhere(mem, D)
            r == ClearAllDeletedEntities(d)
<1>1. D \in SUBSET (Slots \ A)
    BY MembersNotAway
<1>. HIDE DEF D
<1>2. Sound(d, on2, A) /\ Keeps(mem, on, d, on2, A, Slots)
    BY <1>1, DeleteWhereSound
<1>. HIDE DEF d, on2
<1>3. Sound(r, on2, A) /\ Keeps(d, on2, r, on2, A, Slots)
    BY <1>2, ClearAllSound
<1>. HIDE DEF r
<1>4. Keeps(mem, on, r, on2, A, Slots)
    BY <1>2, <1>3, KeepsTransitive
<1>. QED  BY <1>3, <1>4 DEF r, d, D, DeleteAllEnemies

\* DeleteSleepingEntities keeps the lists rings.
LEMMA DeleteSleepingSound ==
    ASSUME NEW mem, NEW on, NEW A, Sound(mem, on, A)
    PROVE  LET r == DeleteSleepingEntities(mem)
           IN  \E on2 : Sound(r, on2, A) /\ Keeps(mem, on, r, on2, A, Slots)
<1>. DEFINE D == {e \in AllMembers(mem) : "DELETED" \in mem.flags[e]}
<1>1. D \in SUBSET (Slots \ A)
    BY MembersNotAway
<1>. HIDE DEF D
<1>2. \E on2 : Sound(DeleteWhere(mem, D), on2, A) /\ Keeps(mem, on, DeleteWhere(mem, D), on2, A, Slots)
    BY <1>1, DeleteWhereSound
<1>. QED  BY <1>2 DEF D, DeleteSleepingEntities

\* RecycleEntities changes flags only.
LEMMA RecycleSound ==
    ASSUME NEW mem, NEW on, NEW A, Sound(mem, on, A)
    PROVE  LET r == RecycleEntities(mem)
           IN  Sound(r, on, A) /\ r.next = mem.next /\ r.prev = mem.prev
<1>. DEFINE r == RecycleEntities(mem)
            fl == [x \in Slots |->
                IF x \in AllMembers(mem) /\ "PERSIST" \notin mem.flags[x]
                  THEN mem.flags[x] \cup {"DELETED"} ELSE mem.flags[x]]
<1>1. mem \in Memories
    BY DEF Sound
<1>2. r = [mem EXCEPT !.flags = fl]
    BY <1>1 DEF RecycleEntities, Memories
<1>3. fl \in [Slots -> SUBSET Flags]
    BY <1>1, MemoryFields DEF Flags
<1>. HIDE DEF r, fl
<1>4. /\ r \in Memories
      /\ r.next = mem.next /\ r.prev = mem.prev /\ r.kind = mem.kind
      /\ r.gEntCount = mem.gEntCount /\ r.gManagerCount = mem.gManagerCount
    BY <1>1, <1>2, <1>3 DEF Memories
<1>5. Free(r) = Free(mem)
    BY <1>4 DEF Free
<1>6. Sound(r, on, A)
    BY <1>4, <1>5 DEF Sound, SlotFits, KindFits, CountsFit
<1>. QED  BY <1>4, <1>6 DEF r

AllFree(mem) ==
    /\ \A x \in Slots : mem.next[x] = Null /\ mem.prev[x] = Null
    /\ mem.gEntCount = 0 /\ mem.gManagerCount = 0

\* Cleared pools: every list is empty and every slot is free.
LEMMA EmptySound ==
    ASSUME NEW c \in Nodes \cup {Null}
    PROVE  Sound([EmptyMemory EXCEPT !.current = c], Empty, {})
<1>. DEFINE r == [EmptyMemory EXCEPT !.current = c]
            nx == [x \in Nodes |-> IF x \in Heads THEN x ELSE Null]
            kd == [x \in Slots |-> "none"]
            fl == [x \in Slots |-> {}]
<1>1. EmptyMemory = [next |-> nx, prev |-> nx, kind |-> kd, flags |-> fl,
                     gEntCount |-> 0, gManagerCount |-> 0, current |-> Null]
    BY DEF EmptyMemory
<1>2. /\ nx \in [Nodes -> Nodes \cup {Null}] /\ nx \in [Nodes -> Nodes \cup {Null, Gone}]
      /\ kd \in [Slots -> Kinds] /\ fl \in [Slots -> SUBSET Flags]
    BY Pointers DEF Kinds
<1>3. \A x \in Slots : nx[x] = Null /\ kd[x] = "none"
    BY Pointers DEF Nodes
<1>4. \A x \in Heads : nx[x] = x
    BY Pointers DEF Nodes
<1>. HIDE DEF r, nx, kd, fl
<1>5. /\ r \in Memories
      /\ r.next = nx /\ r.prev = nx /\ r.kind = kd /\ r.gEntCount = 0 /\ r.gManagerCount = 0
  <2>. DEFINE z == EmptyMemory
  <2>1. /\ z \in Memories
        /\ z.next = nx /\ z.prev = nx /\ z.kind = kd /\ z.gEntCount = 0 /\ z.gManagerCount = 0
    BY <1>1, <1>2, EntityAssumption DEF Memories
  <2>2. r = [z EXCEPT !.current = c]
    BY DEF r
  <2>. HIDE DEF z
  <2>. QED  BY <2>1, <2>2 DEF Memories
<1>6. Free(r) = Slots
    BY <1>3, <1>5 DEF Free
<1>7. EntitySlots \ Free(r) = {} /\ Managers \ Free(r) = {}
    BY <1>6, Pointers
<1>8. CountsFit(r)
    BY <1>5, <1>7, FS_EmptySet DEF CountsFit
<1>9. \A l \in Lists : RingOf(r.next, r.prev, l, {})
    BY <1>4, <1>5, Pointers DEF RingOf
<1>10. \A x \in Slots : SlotFits(r, Empty, {}, x)
    BY <1>3, <1>5 DEF SlotFits, Empty
<1>11. Sound(r, Empty, {})
    BY <1>5, <1>8, <1>9, <1>10 DEF Sound, Empty
<1>. QED  BY <1>11 DEF r

\* EraseAllEntities leaves cleared pools, whatever the memory was.
LEMMA EraseSound ==
    ASSUME NEW mem \in Memories
    PROVE  LET r == EraseAllEntities(mem)
           IN  Sound(r, Empty, {})
<1>. QED  BY MemoryFields, EmptySound DEF EraseAllEntities

\* Where no list has a member, nothing is away and nothing waits to be freed,
\* every slot is free.
LEMMA EmptyAllFree ==
    ASSUME NEW mem, Sound(mem, Empty, {}), Deleted(mem) = {}
    PROVE  AllFree(mem)
<1>1. ASSUME NEW x \in Slots PROVE mem.next[x] = Null /\ mem.prev[x] = Null
  <2>1. mem.next[x] = Null
    BY SoundSlots DEF Empty
  <2>2. mem.prev[x] # Gone
    BY DEF Deleted
  <2>. QED  BY <2>1, <2>2, SoundSlots
<1>2. EntitySlots \ Free(mem) = {} /\ Managers \ Free(mem) = {}
    BY <1>1, Pointers DEF Free
<1>3. CountsFit(mem)
    BY DEF Sound
<1>. QED  BY <1>1, <1>2, <1>3, FS_EmptySet DEF CountsFit, AllFree


-----------------------------------------------------------------------------
(* Entering a list.                                                        *)

\* The counts stay within their pools: a count cannot wrap.
LEMMA CountsBounded ==
    ASSUME NEW F
    PROVE  /\ Cardinality(EntitySlots \ F) \in 0 .. NAux + NEnts
           /\ Cardinality(Managers \ F) \in 0 .. NManagers
<1>. DEFINE a == NAux + NEnts
            b == NAux + NEnts + NManagers
<1>1. a \in Nat /\ b \in Nat /\ a + 1 \in Int /\ 1 \in Int /\ a \in Int /\ b \in Int
    BY EntityAssumption
<1>2. EntitySlots = 1 .. a
    BY EntityAssumption DEF EntitySlots, Aux, Ents
<1>3. Managers = a + 1 .. b
    BY DEF Managers
<1>. HIDE DEF a, b
<1>4. /\ IsFiniteSet(EntitySlots)
      /\ Cardinality(EntitySlots) = IF 1 > a THEN 0 ELSE a - 1 + 1
    BY <1>1, <1>2, FS_Interval, Zenon
<1>5. /\ IsFiniteSet(Managers)
      /\ Cardinality(Managers) = IF a + 1 > b THEN 0 ELSE b - (a + 1) + 1
    BY <1>1, <1>3, FS_Interval, Zenon
<1>6. /\ Cardinality(EntitySlots \ F) <= Cardinality(EntitySlots)
      /\ Cardinality(EntitySlots \ F) \in Nat
    BY <1>4, FS_Subset, FS_CardinalityType
<1>7. /\ Cardinality(Managers \ F) <= Cardinality(Managers)
      /\ Cardinality(Managers \ F) \in Nat
    BY <1>5, FS_Subset, FS_CardinalityType
<1>8. Cardinality(EntitySlots) = NAux + NEnts
    BY <1>4, <1>1 DEF a
<1>9. Cardinality(Managers) = NManagers
    BY <1>5, <1>1, EntityAssumption DEF a, b
<1>. QED  BY <1>6, <1>7, <1>8, <1>9, EntityAssumption

\* Entering list l at its end, field by field.
LEMMA EnterFields ==
    ASSUME NEW mem \in Memories, NEW e \in Slots, NEW l \in Lists,
           NEW kind \in Kinds, NEW flags \in SUBSET Flags,
           mem.prev[ListHead(l)] \in Nodes, mem.prev[ListHead(l)] # e,
           kind # "manager" => mem.gEntCount < NAux + NEnts,
           kind = "manager" => mem.gManagerCount < NManagers
    PROVE  LET r == Enter([mem |-> mem, slot |-> e], kind, flags, l)
               last == mem.prev[ListHead(l)] IN
           /\ r \in Memories
           /\ r.next = [x \in Nodes |-> IF x = last THEN e
                                        ELSE IF x = e THEN ListHead(l) ELSE mem.next[x]]
           /\ r.prev = [x \in Nodes |-> IF x = ListHead(l) THEN e
                                        ELSE IF x = e THEN last ELSE mem.prev[x]]
           /\ r.kind = [x \in Slots |-> IF x = e THEN kind ELSE mem.kind[x]]
           /\ r.gEntCount = IF kind # "manager" THEN mem.gEntCount + 1 ELSE mem.gEntCount
           /\ r.gManagerCount =
                  IF kind = "manager" THEN mem.gManagerCount + 1 ELSE mem.gManagerCount
           /\ r.current = mem.current
<1>. DEFINE r == Enter([mem |-> mem, slot |-> e], kind, flags, l)
            last == mem.prev[ListHead(l)]
            kd == [mem.kind EXCEPT ![e] = kind]
            fl == [mem.flags EXCEPT ![e] = flags]
            k == [mem EXCEPT !.kind = kd, !.flags = fl]
            nx == [mem.next EXCEPT ![e] = ListHead(l), ![last] = e]
            pv == [mem.prev EXCEPT ![e] = last, ![ListHead(l)] = e]
            ec == IF kind # "manager" THEN mem.gEntCount + 1 ELSE mem.gEntCount
            mc == IF kind = "manager" THEN mem.gManagerCount + 1 ELSE mem.gManagerCount
<1>1. e # Null /\ e \in Nodes /\ ListHead(l) \in Nodes /\ e # ListHead(l)
    BY Pointers DEF Nodes
<1>2. /\ nx \in [Nodes -> Nodes \cup {Null}] /\ pv \in [Nodes -> Nodes \cup {Null, Gone}]
      /\ kd \in [Slots -> Kinds] /\ fl \in [Slots -> SUBSET Flags]
    BY <1>1, MemoryFields
<1>3. ec \in 0 .. NAux + NEnts /\ mc \in 0 .. NManagers
    BY MemoryFields, EntityAssumption
<1>4. kd[e] = kind
    BY MemoryFields
<1>5. nx = [x \in Nodes |-> IF x = last THEN e ELSE IF x = e THEN ListHead(l) ELSE mem.next[x]]
    BY <1>1, MemoryFields
<1>6. pv = [x \in Nodes |-> IF x = ListHead(l) THEN e ELSE IF x = e THEN last ELSE mem.prev[x]]
    BY <1>1, MemoryFields
<1>7. kd = [x \in Slots |-> IF x = e THEN kind ELSE mem.kind[x]]
    BY MemoryFields
<1>8. r = AppendEntityToList(k, e, l)
    BY <1>1 DEF Enter
<1>9. /\ k \in Memories /\ k.kind = kd /\ k.next = mem.next /\ k.prev = mem.prev
      /\ k.gEntCount = mem.gEntCount /\ k.gManagerCount = mem.gManagerCount
      /\ k.current = mem.current
  <2>. HIDE DEF kd, fl
  <2>. QED  BY <1>2 DEF Memories
<1>. HIDE DEF k
<1>10. r = [k EXCEPT !.next = nx, !.prev = pv, !.gEntCount = ec, !.gManagerCount = mc]
  <2>. HIDE DEF r
  <2>. QED  BY <1>4, <1>8, <1>9 DEF AppendEntityToList
<1>. HIDE DEF r, nx, pv, kd, fl, ec, mc
<1>11. /\ r \in Memories /\ r.next = nx /\ r.prev = pv /\ r.kind = kd
       /\ r.gEntCount = ec /\ r.gManagerCount = mc /\ r.current = mem.current
    BY <1>2, <1>3, <1>9, <1>10 DEF Memories
<1>. QED  BY <1>5, <1>6, <1>7, <1>11 DEF r, ec, mc

\* A free slot that enters list l is behind all the list has.
LEMMA EnterSound ==
    ASSUME NEW mem, NEW on, NEW A, Sound(mem, on, A), NEW e \in Free(mem),
           NEW kind \in Kinds \ {"none"}, kind = "manager" <=> e \in Managers,
           NEW flags \in SUBSET Flags, NEW l \in Lists
    PROVE  LET r == Enter([mem |-> mem, slot |-> e], kind, flags, l)
               on2 == [k \in Lists |-> IF k = l THEN on[k] \cup {e} ELSE on[k]]
           IN  /\ Sound(r, on2, A) /\ Keeps(mem, on, r, on2, A, Slots)
               /\ e \in on2[l]
<1>. DEFINE r == Enter([mem |-> mem, slot |-> e], kind, flags, l)
            on2 == [k \in Lists |-> IF k = l THEN on[k] \cup {e} ELSE on[k]]
            h == ListHead(l)
            last == mem.prev[h]
<1>1. /\ mem \in Memories /\ on \in [Lists -> SUBSET Slots] /\ A \in SUBSET Slots
      /\ CountsFit(mem) /\ RingOf(mem.next, mem.prev, l, on[l])
    BY DEF Sound
<1>2. e \in Slots /\ e \in Nodes /\ e \notin Heads /\ h \in Nodes /\ h \in Heads /\ h \notin Slots
    BY Pointers DEF Free, Nodes
<1>3. mem.next[e] = Null /\ e \notin A /\ (\A k \in Lists : e \notin on[k])
    BY <1>2, SoundSlots DEF Free
<1>4. last \in on[l] \cup {h} /\ mem.next[last] = h
    BY <1>1 DEF RingOf
<1>5. last \in Nodes /\ last # e
    BY <1>1, <1>2, <1>3, <1>4 DEF Nodes
<1>6. /\ kind # "manager" => e \in EntitySlots /\ Cardinality(EntitySlots \ (Free(mem) \ {e})) = mem.gEntCount + 1
      /\ kind # "manager" => Managers \ (Free(mem) \ {e}) = Managers \ Free(mem)
      /\ kind = "manager" => Cardinality(Managers \ (Free(mem) \ {e})) = mem.gManagerCount + 1
      /\ kind = "manager" => EntitySlots \ (Free(mem) \ {e}) = EntitySlots \ Free(mem)
  <2>1. CASE kind # "manager"
    <3>1. e \in EntitySlots /\ e \notin Managers
      BY <1>2, <2>1, Pointers
    <3>2. EntitySlots \in SUBSET Slots /\ e \in EntitySlots \cap Free(mem)
      BY <3>1, Pointers
    <3>3. Cardinality(EntitySlots \ (Free(mem) \ {e})) = Cardinality(EntitySlots \ Free(mem)) + 1
      BY <3>2, CountOneMore
    <3>. QED  BY <1>1, <2>1, <3>1, <3>3 DEF CountsFit
  <2>2. CASE kind = "manager"
    <3>1. e \notin EntitySlots /\ e \in Managers
      BY <2>2, Pointers
    <3>2. Managers \in SUBSET Slots /\ e \in Managers \cap Free(mem)
      BY <3>1, Pointers
    <3>3. Cardinality(Managers \ (Free(mem) \ {e})) = Cardinality(Managers \ Free(mem)) + 1
      BY <3>2, CountOneMore
    <3>. QED  BY <1>1, <2>2, <3>1, <3>3 DEF CountsFit
  <2>. QED  BY <2>1, <2>2
<1>7. /\ kind # "manager" => mem.gEntCount < NAux + NEnts
      /\ kind = "manager" => mem.gManagerCount < NManagers
  <2>. DEFINE F == Free(mem) \ {e}
  <2>1. /\ Cardinality(EntitySlots \ F) \in 0 .. NAux + NEnts
        /\ Cardinality(Managers \ F) \in 0 .. NManagers
    BY CountsBounded
  <2>. QED  BY <1>1, <1>6, <2>1, MemoryFields, EntityAssumption
<1>8. /\ r \in Memories
      /\ r.next = [x \in Nodes |-> IF x = last THEN e
                                   ELSE IF x = e THEN h ELSE mem.next[x]]
      /\ r.prev = [x \in Nodes |-> IF x = h THEN e
                                   ELSE IF x = e THEN last ELSE mem.prev[x]]
      /\ r.kind = [x \in Slots |-> IF x = e THEN kind ELSE mem.kind[x]]
      /\ r.gEntCount = IF kind # "manager" THEN mem.gEntCount + 1 ELSE mem.gEntCount
      /\ r.gManagerCount = IF kind = "manager" THEN mem.gManagerCount + 1 ELSE mem.gManagerCount
      /\ r.current = mem.current
  <2>1. kind \in Kinds
    OBVIOUS
  <2>. QED  BY <1>1, <1>2, <1>5, <1>7, <2>1, EnterFields
<1>. HIDE DEF r
<1>9. /\ on2 \in [Lists -> SUBSET Slots] /\ on2[l] = on[l] \cup {e}
      /\ \A k \in Lists : k # l => on2[k] = on[k]
    BY <1>1, <1>2
<1>. HIDE DEF on2
<1>10. \A x \in on[l] \cup {h} : /\ r.next[x] = IF x = last THEN e ELSE mem.next[x]
                                 /\ r.prev[x] = IF x = h THEN e ELSE mem.prev[x]
  <2>1. \A x \in on[l] \cup {h} : x \in Nodes /\ x # e
    BY <1>1, <1>2, <1>3 DEF Nodes
  <2>. QED  BY <1>8, <2>1
<1>11. r.next[e] = h /\ r.prev[e] = last
    BY <1>2, <1>5, <1>8
<1>12. RingOf(r.next, r.prev, l, on2[l])
  <2>. DEFINE S == on[l]
  <2>1. e \in Slots \ S /\ last \in S \cup {ListHead(l)} /\ RingOf(mem.next, mem.prev, l, S)
    BY <1>1, <1>2, <1>3, <1>4
  <2>2. \A x \in S \cup {ListHead(l)} :
            /\ r.next[x] = IF x = last THEN e ELSE mem.next[x]
            /\ r.prev[x] = IF x = mem.next[last] THEN e ELSE mem.prev[x]
    BY <1>4, <1>10
  <2>3. r.next[e] = mem.next[last] /\ r.prev[e] = last
    BY <1>4, <1>11
  <2>4. on2[l] = S \cup {e}
    BY <1>9
  <2>. HIDE DEF S, last, h
  <2>5. Inserted(mem.next, mem.prev, r.next, r.prev, l, S, e, last)
    BY <2>1, <2>2, <2>3 DEF Inserted
  <2>6. RingOf(r.next, r.prev, l, S \cup {e})
    BY <2>1, <2>5, RingWith
  <2>. QED  BY <2>4, <2>6
<1>13. ASSUME NEW k \in Lists, k # l
       PROVE  \A x \in on[k] \cup {ListHead(k)} : r.next[x] = mem.next[x] /\ r.prev[x] = mem.prev[x]
  <2>1. on[k] \cap on[l] = {} /\ ListHead(k) # h /\ ListHead(k) \notin Slots /\ ListHead(k) \in Nodes
    BY <1>13, Pointers DEF Sound, Nodes
  <2>2. \A x \in on[k] \cup {ListHead(k)} : x \in Nodes /\ x # e /\ x # last /\ x # h
    BY <1>1, <1>2, <1>3, <1>4, <2>1 DEF Nodes
  <2>. QED  BY <1>8, <2>2
<1>14. \A k \in Lists : RingOf(r.next, r.prev, k, on2[k])
  <2>1. ASSUME NEW k \in Lists, k # l PROVE RingOf(r.next, r.prev, k, on2[k])
    BY <1>9, <1>13, <2>1, RingAgrees DEF Sound
  <2>. QED  BY <1>12, <2>1
<1>15. \A x \in A : r.next[x] = mem.next[x] /\ r.prev[x] = mem.prev[x]
  <2>1. \A x \in A : x \in Nodes /\ x # e /\ x # h /\ x # last
    BY <1>1, <1>2, <1>3, <1>4 DEF Nodes, Sound
  <2>. QED  BY <1>8, <2>1
<1>16. \A k, j \in Lists : k # j => on2[k] \cap on2[j] = {}
    BY <1>3, <1>9 DEF Sound
<1>17. \A k \in Lists : on2[k] \cap A = {}
    BY <1>3, <1>9 DEF Sound
<1>18. ASSUME NEW x \in Slots PROVE SlotFits(r, on2, A, x)
  <2>1. CASE x = e
    <3>1. x \in on2[l] /\ r.kind[x] = kind
      BY <1>2, <1>8, <1>9, <2>1
    <3>. QED  BY <2>1, <3>1 DEF SlotFits, KindFits, Kinds
  <2>2. CASE x # e
    <3>1. r.kind[x] = mem.kind[x] /\ (KindFits(r, x) <=> KindFits(mem, x))
      BY <1>8, <2>2 DEF KindFits
    <3>2. \A k \in Lists : x \in on2[k] <=> x \in on[k]
      BY <1>9, <2>2
    <3>3. (\A k \in Lists : x \notin on[k]) => r.next[x] = mem.next[x] /\ r.prev[x] = mem.prev[x]
      BY <1>2, <1>4, <1>8, <2>2 DEF Nodes
    <3>4. SlotFits(mem, on, A, x)
      BY DEF Sound
    <3>. QED  BY <3>1, <3>2, <3>3, <3>4 DEF SlotFits
  <2>. QED  BY <2>1, <2>2
<1>19. Free(r) = Free(mem) \ {e}
  <2>1. \A x \in Slots : x # e => r.prev[x] = mem.prev[x]
    BY <1>2, <1>8 DEF Nodes
  <2>2. r.prev[e] # Null
    BY <1>5, <1>11, Pointers
  <2>. QED  BY <2>1, <2>2 DEF Free
<1>20. CountsFit(r)
    BY <1>1, <1>6, <1>8, <1>19 DEF CountsFit
<1>21. Sound(r, on2, A)
  <2>1. \A x \in A : r.next[x] \in Nodes /\ r.prev[x] \in Nodes
    BY <1>15 DEF Sound
  <2>. QED  BY <1>1, <1>8, <1>9, <1>14, <1>16, <1>17, <1>18, <1>20, <2>1 DEF Sound
<1>22. Keeps(mem, on, r, on2, A, Slots)
  <2>1. ASSUME NEW k \in Lists, NEW rest \in SUBSET Slots,
               Passed(mem.next, mem.prev, k, on[k], rest, mem.current)
        PROVE  Passed(r.next, r.prev, k, on2[k], rest, r.current)
    <3>1. CASE k = l
      BY <1>1, <1>2, <1>3, <1>8, <1>9, <1>10, <2>1, <3>1, PassedAppend
    <3>2. CASE k # l
      BY <1>8, <1>9, <1>13, <2>1, <3>2, PassedAgrees
    <3>. QED  BY <3>1, <3>2
  <2>. QED  BY <1>8, <1>15, <2>1 DEF Keeps
<1>. QED  BY <1>9, <1>21, <1>22 DEF r, on2

-----------------------------------------------------------------------------
(* Moving to the front of a list.                                          *)

\* PrependEntityToList, field by field; u is the memory between its two parts.
LEMMA PrependFields ==
    ASSUME NEW mem \in Memories, NEW e \in Slots, NEW l \in Lists,
           mem.next[e] \in Nodes, mem.prev[e] \in Nodes,
           mem.next[e] # e, mem.prev[e] # e,
           mem.next[ListHead(l)] \in Nodes,
           mem.next[ListHead(l)] = e => mem.prev[e] = ListHead(l)
    PROVE  LET u == UnlinkEntity(mem, e)
               r == PrependEntityToList(mem, e, l)
               first == u.next[ListHead(l)] IN
           /\ u.next = [x \in Nodes |-> IF x = mem.prev[e] THEN mem.next[e] ELSE mem.next[x]]
           /\ u.prev = [x \in Nodes |-> IF x = mem.next[e] THEN mem.prev[e] ELSE mem.prev[x]]
           /\ u.current = IF mem.current = e THEN mem.prev[e] ELSE mem.current
           /\ r \in Memories
           /\ r.next = [x \in Nodes |-> IF x = ListHead(l) THEN e
                                        ELSE IF x = e THEN first ELSE u.next[x]]
           /\ r.prev = [x \in Nodes |-> IF x = first THEN e
                                        ELSE IF x = e THEN ListHead(l) ELSE u.prev[x]]
           /\ r.kind = mem.kind
           /\ r.gEntCount = mem.gEntCount /\ r.gManagerCount = mem.gManagerCount
           /\ r.current = u.current
<1>. DEFINE u == UnlinkEntity(mem, e)
            r == PrependEntityToList(mem, e, l)
            h == ListHead(l)
            p == mem.prev[e]
            n == mem.next[e]
            un == [mem.next EXCEPT ![p] = n]
            up == [mem.prev EXCEPT ![n] = p]
            uc == IF mem.current = e THEN p ELSE mem.current
            first == un[h]
            rn == [un EXCEPT ![e] = first, ![h] = e]
            rp == [up EXCEPT ![e] = h, ![first] = e]
<1>1. h \in Nodes /\ e \in Nodes /\ h # e
    BY Pointers DEF Nodes
<1>2. /\ un \in [Nodes -> Nodes \cup {Null}] /\ up \in [Nodes -> Nodes \cup {Null, Gone}]
      /\ uc \in Nodes \cup {Null}
    BY <1>1, MemoryFields
<1>3. un = [x \in Nodes |-> IF x = p THEN n ELSE mem.next[x]]
    BY MemoryFields
<1>4. up = [x \in Nodes |-> IF x = n THEN p ELSE mem.prev[x]]
    BY MemoryFields
<1>5. first \in Nodes /\ first # e
    BY <1>1, <1>3
<1>6. u = [mem EXCEPT !.current = uc, !.next = un, !.prev = up]
    BY DEF UnlinkEntity, Memories
<1>. HIDE DEF u, un, up, uc
<1>7. /\ u \in Memories /\ u.next = un /\ u.prev = up /\ u.current = uc
      /\ u.kind = mem.kind /\ u.gEntCount = mem.gEntCount /\ u.gManagerCount = mem.gManagerCount
    BY <1>2, <1>6 DEF Memories
<1>8. rn \in [Nodes -> Nodes \cup {Null}] /\ rp \in [Nodes -> Nodes \cup {Null, Gone}]
    BY <1>1, <1>2, <1>5
<1>9. rn = [x \in Nodes |-> IF x = h THEN e ELSE IF x = e THEN first ELSE un[x]]
    BY <1>1, <1>2
<1>10. rp = [x \in Nodes |-> IF x = first THEN e ELSE IF x = e THEN h ELSE up[x]]
    BY <1>1, <1>2, <1>5
<1>11. r = [u EXCEPT !.next = rn, !.prev = rp]
  <2>1. r = [u EXCEPT !.next = [@ EXCEPT ![e] = u.next[h], ![h] = e],
                      !.prev = [@ EXCEPT ![e] = h, ![u.next[h]] = e]]
    BY DEF r, u, PrependEntityToList
  <2>. QED  BY <1>7, <2>1 DEF Memories
<1>. HIDE DEF r, rn, rp
<1>12. /\ r \in Memories /\ r.next = rn /\ r.prev = rp /\ r.kind = u.kind
       /\ r.gEntCount = u.gEntCount /\ r.gManagerCount = u.gManagerCount
       /\ r.current = u.current
    BY <1>7, <1>8, <1>11 DEF Memories
<1>. HIDE DEF p, n, first
<1>. QED  BY <1>3, <1>4, <1>7, <1>9, <1>10, <1>12 DEF r, u, uc, p, n, first

\* A member of list l that moves to its front stays a member, and is passed
\* unless the walk of l has met no node yet.
LEMMA PrependSound ==
    ASSUME NEW mem, NEW on, NEW A, Sound(mem, on, A), NEW l \in Lists, NEW e \in on[l]
    PROVE  LET r == PrependEntityToList(mem, e, l)
           IN  Sound(r, on, A) /\ Keeps(mem, on, r, on, A, Slots \ {e})
<1>. DEFINE u == UnlinkEntity(mem, e)
            r == PrependEntityToList(mem, e, l)
            h == ListHead(l)
            p == mem.prev[e]
            n == mem.next[e]
            first == u.next[h]
            S == on[l] \ {e}
<1>1. /\ mem \in Memories /\ on \in [Lists -> SUBSET Slots] /\ A \in SUBSET Slots
      /\ CountsFit(mem) /\ RingOf(mem.next, mem.prev, l, on[l])
    BY DEF Sound
<1>2. e \in Slots /\ e \in Nodes /\ e \notin Heads /\ h \in Nodes /\ h \in Heads /\ h \notin Slots /\ e # h
    BY <1>1, Pointers DEF Nodes
<1>3. /\ n \in Nodes /\ n # e /\ n \in on[l] \cup {h}
      /\ p \in Nodes /\ p # e /\ p \in on[l] \cup {h}
    BY <1>1, RingNeighbours
<1>4. mem.next[h] \in Nodes /\ (mem.next[h] = e => p = h)
  <2>1. mem.next[h] \in on[l] \cup {h} /\ mem.prev[mem.next[h]] = h
    BY <1>1 DEF RingOf
  <2>. QED  BY <1>1, <1>2, <2>1 DEF Nodes
<1>5. /\ u.next = [x \in Nodes |-> IF x = p THEN n ELSE mem.next[x]]
      /\ u.prev = [x \in Nodes |-> IF x = n THEN p ELSE mem.prev[x]]
      /\ u.current = IF mem.current = e THEN p ELSE mem.current
      /\ r \in Memories
      /\ r.next = [x \in Nodes |-> IF x = h THEN e ELSE IF x = e THEN first ELSE u.next[x]]
      /\ r.prev = [x \in Nodes |-> IF x = first THEN e ELSE IF x = e THEN h ELSE u.prev[x]]
      /\ r.kind = mem.kind
      /\ r.gEntCount = mem.gEntCount /\ r.gManagerCount = mem.gManagerCount
      /\ r.current = u.current
    BY <1>1, <1>2, <1>3, <1>4, PrependFields, SMTT(30)
<1>. HIDE DEF u, r
<1>6. \A x \in on[l] \cup {h} : x # e =>
          /\ u.next[x] = IF x = p THEN n ELSE mem.next[x]
          /\ u.prev[x] = IF x = n THEN p ELSE mem.prev[x]
  <2>1. \A x \in on[l] \cup {h} : x \in Nodes
    BY <1>1, <1>2 DEF Nodes
  <2>. QED  BY <1>5, <2>1
<1>7. RingOf(u.next, u.prev, l, S)
    BY <1>1, <1>6, RingWithout
<1>8. first \in S \cup {h} /\ first # e /\ first \in Nodes
  <2>1. first \in S \cup {h}
    BY <1>7 DEF RingOf
  <2>. QED  BY <1>1, <1>2, <2>1 DEF Nodes
<1>9. e \in Slots \ S /\ S \cup {e} = on[l]
    BY <1>2
<1>10. \A x \in S \cup {h} : /\ r.next[x] = IF x = h THEN e ELSE u.next[x]
                             /\ r.prev[x] = IF x = first THEN e ELSE u.prev[x]
  <2>1. \A x \in S \cup {h} : x \in Nodes /\ x # e
    BY <1>1, <1>2 DEF Nodes
  <2>. QED  BY <1>5, <2>1
<1>11. r.next[e] = first /\ r.prev[e] = h
    BY <1>2, <1>5, <1>8
<1>. HIDE DEF S, h
<1>12. Inserted(u.next, u.prev, r.next, r.prev, l, S, e, h)
    BY <1>10, <1>11 DEF Inserted, h
<1>13. RingOf(r.next, r.prev, l, on[l])
    BY <1>7, <1>9, <1>12, RingWith
<1>14. \A x \in Nodes : x \notin on[l] /\ x # h => r.next[x] = mem.next[x] /\ r.prev[x] = mem.prev[x]
    BY <1>3, <1>5, <1>8 DEF S
<1>15. ASSUME NEW k \in Lists, k # l
       PROVE  \A x \in on[k] \cup {ListHead(k)} : r.next[x] = mem.next[x] /\ r.prev[x] = mem.prev[x]
  <2>1. on[k] \cap on[l] = {} /\ ListHead(k) # h /\ ListHead(k) \notin Slots /\ ListHead(k) \in Nodes
    BY <1>15, Pointers DEF Sound, Nodes, h
  <2>2. \A x \in on[k] \cup {ListHead(k)} : x \in Nodes /\ x \notin on[l] /\ x # h
    BY <1>1, <1>2, <2>1 DEF Nodes
  <2>. QED  BY <1>14, <2>2
<1>16. \A k \in Lists : RingOf(r.next, r.prev, k, on[k])
  <2>1. ASSUME NEW k \in Lists, k # l PROVE RingOf(r.next, r.prev, k, on[k])
    BY <1>15, <2>1, RingAgrees DEF Sound
  <2>. QED  BY <1>13, <2>1
<1>17. \A x \in A : r.next[x] = mem.next[x] /\ r.prev[x] = mem.prev[x]
  <2>1. \A x \in A : x \in Nodes /\ x \notin on[l] /\ x # h
    BY <1>1, <1>2 DEF Nodes, Sound
  <2>. QED  BY <1>14, <2>1
<1>18. ASSUME NEW x \in Slots PROVE SlotFits(r, on, A, x)
  <2>1. x \notin on[l] => r.next[x] = mem.next[x] /\ r.prev[x] = mem.prev[x]
    BY <1>2, <1>14 DEF Nodes
  <2>2. SlotFits(mem, on, A, x)
    BY DEF Sound
  <2>. QED  BY <1>5, <2>1, <2>2 DEF SlotFits, KindFits
<1>19. Free(r) = Free(mem)
  <2>1. ASSUME NEW x \in Slots PROVE r.prev[x] = Null <=> mem.prev[x] = Null
    <3>1. CASE x \in on[l]
      <4>1. r.prev[x] \in on[l] \cup {ListHead(l)} /\ mem.prev[x] \in on[l] \cup {ListHead(l)}
        BY <1>1, <1>13, <3>1 DEF RingOf
      <4>2. on[l] \cup {ListHead(l)} \subseteq Nodes
        BY <1>1, <1>2 DEF Nodes, h
      <4>. QED  BY <4>1, <4>2, Pointers
    <3>2. CASE x \notin on[l]
      BY <1>2, <1>14, <3>2 DEF Nodes
    <3>. QED  BY <3>1, <3>2
  <2>. QED  BY <2>1 DEF Free
<1>20. CountsFit(r)
    BY <1>1, <1>5, <1>19 DEF CountsFit
<1>21. Sound(r, on, A)
  <2>1. \A x \in A : r.next[x] \in Nodes /\ r.prev[x] \in Nodes
    BY <1>17 DEF Sound
  <2>. QED  BY <1>1, <1>5, <1>16, <1>18, <1>20, <2>1 DEF Sound
<1>22. ASSUME NEW k \in Lists, NEW rest \in SUBSET (Slots \ {e}),
              Passed(mem.next, mem.prev, k, on[k], rest, mem.current)
       PROVE  Passed(r.next, r.prev, k, on[k], rest, r.current)
  <2>1. CASE k = l
    <3>1. Passed(u.next, u.prev, l, S, rest, u.current)
      <4>1. \A x \in on[l] \cup {ListHead(l)} : x # e =>
                /\ u.next[x] = IF x = mem.prev[e] THEN mem.next[e] ELSE mem.next[x]
                /\ u.prev[x] = IF x = mem.next[e] THEN mem.prev[e] ELSE mem.prev[x]
        BY <1>6 DEF h
      <4>2. Passed(mem.next, mem.prev, l, on[l], rest, mem.current)
        BY <1>22, <2>1
      <4>3. Passed(u.next, u.prev, l, on[l] \ {e}, rest,
                   IF mem.current = e THEN mem.prev[e] ELSE mem.current)
        BY <1>1, <4>1, <4>2, PassedWithout
      <4>. QED  BY <1>5, <4>3 DEF S
    <3>2. e \notin rest
      OBVIOUS
    <3>3. Passed(r.next, r.prev, l, S \cup {e}, rest, u.current)
      BY <1>7, <1>9, <1>10, <1>11, <3>1, <3>2, PassedPrepend DEF h
    <3>. QED  BY <1>5, <1>9, <2>1, <3>3
  <2>2. CASE k # l
    <3>1. RingOf(mem.next, mem.prev, k, on[k]) /\ on[k] \cap on[l] = {} /\ ListHead(k) \notin Slots
      BY <2>2, Pointers DEF Sound
    <3>2. mem.current # e
      BY <1>2, <1>22, <3>1 DEF Passed
    <3>3. \A x \in on[k] \cup {ListHead(k)} : r.next[x] = mem.next[x] /\ r.prev[x] = mem.prev[x]
      BY <1>15, <2>2
    <3>4. Passed(r.next, r.prev, k, on[k], rest, mem.current)
      BY <1>22, <3>3, PassedAgrees
    <3>. QED  BY <1>5, <3>2, <3>4
  <2>. QED  BY <2>1, <2>2
<1>23. mem.current \in Nodes => r.current \in Nodes
    BY <1>3, <1>5
<1>24. Keeps(mem, on, r, on, A, Slots \ {e})
    BY <1>17, <1>22, <1>23 DEF Keeps
<1>. QED  BY <1>21, <1>24 DEF r

-----------------------------------------------------------------------------
(* Allocation.                                                             *)

\* Smallest is a member.
LEMMA SmallestIn ==
    ASSUME NEW T \in SUBSET Nat, T # {}
    PROVE  Smallest(T) \in T
<1>1. \E x \in T : \A y \in T : x <= y
    BY LeastElement
<1>. QED  BY <1>1 DEF Smallest

\* The victim is one of the sleeping entities that may be sacrificed.
LEMMA VictimIn ==
    ASSUME NEW mem, Victims(mem) # {}
    PROVE  Victim(mem) \in Victims(mem)
<1>. DEFINE V == Victims(mem)
            K == {k \in Lists : Members(mem, k) \cap V # {}}
            l == Smallest(K)
            s == Order(mem, l)
            I == {i \in DOMAIN s : s[i] \in V}
<1>1. K \in SUBSET Nat
  <2>1. Lists \subseteq Nat
    BY EntityAssumption
  <2>2. K \subseteq Lists
    OBVIOUS
  <2>. HIDE DEF K
  <2>. QED  BY <2>1, <2>2
<1>2. K # {}
  <2>1. PICK e : e \in V
    OBVIOUS
  <2>2. PICK k \in Lists : e \in Members(mem, k)
    BY <2>1 DEF Victims, AllMembers
  <2>. HIDE DEF V
  <2>3. Members(mem, k) \cap V # {}
    BY <2>1, <2>2
  <2>. QED  BY <2>3
<1>3. l \in K
  <2>. HIDE DEF K
  <2>. QED  BY <1>1, <1>2, SmallestIn
<1>4. \E i \in DOMAIN s : s[i] \in V
  <2>. HIDE DEF V
  <2>. QED  BY <1>3 DEF Members
<1>5. s \in Seq(Slots)
  <2>. HIDE DEF l
  <2>1. PICK met \in [0 .. Cardinality(Slots) -> Seq(Slots)] :
            /\ Order(mem, l) = met[Cardinality(Slots)]
            /\ met[0] = <<>>
            /\ \A n \in 1 .. Cardinality(Slots) : met[n] = Met(mem.next, l, met[n - 1])
    BY OrderRecursion
  <2>2. Cardinality(Slots) \in Nat
    BY Pointers
  <2>3. met[Cardinality(Slots)] \in Seq(Slots)
    BY <2>1, <2>2
  <2>. QED  BY <2>1, <2>3
<1>. HIDE DEF s, V
<1>6. DOMAIN s \in SUBSET Nat
    BY <1>5
<1>7. I \in SUBSET Nat /\ I # {}
    BY <1>4, <1>6
<1>8. Smallest(I) \in I
  <2>. HIDE DEF I
  <2>. QED  BY <1>7, SmallestIn
<1>9. s[Smallest(I)] \in V
    BY <1>8
<1>. QED  BY <1>9 DEF Victim, s, V

\* What holds for more nodes to be updated holds for fewer.
LEMMA KeepsLess ==
    ASSUME NEW m1, NEW m2, NEW on1, NEW on2, NEW A, NEW D, NEW E \in SUBSET D,
           Keeps(m1, on1, m2, on2, A, D)
    PROVE  Keeps(m1, on1, m2, on2, A, E)
<1>. QED  BY DEF Keeps

\* No change keeps everything.
LEMMA KeepsItself ==
    ASSUME NEW mem, NEW on, NEW A, NEW D
    PROVE  Keeps(mem, on, mem, on, A, D)
<1>. QED  BY DEF Keeps

\* Sacrificing the victim: it is off its list and its slot is free.
LEMMA VictimSound ==
    ASSUME NEW mem, NEW on, NEW A, Sound(mem, on, A), NEW v \in Victims(mem)
    PROVE  LET r == ClearDeletedEntities(DeleteEntity(mem, v), {v})
           IN  /\ \E on2 : Sound(r, on2, A) /\ Keeps(mem, on, r, on2, A, Slots)
               /\ v \in Free(r) \cap EntitySlots
<1>. DEFINE d == DeleteEntityAny(mem, v)
            on2 == [l \in Lists |-> on[l] \ {v}]
            r == ClearDeletedEntities(d, {v})
<1>1. mem.kind[v] # "manager" /\ v \in AllMembers(mem)
    BY DEF Victims
<1>2. d = DeleteEntity(mem, v)
    BY <1>1 DEF DeleteEntityAny
<1>3. v \in Slots \ A
    BY <1>1, MembersNotAway
<1>4. PICK l \in Lists : v \in on[l]
    BY <1>1, SoundMembers
<1>5. mem \in Memories /\ RingOf(mem.next, mem.prev, l, on[l])
    BY DEF Sound
<1>6. /\ mem.next[v] \in Nodes /\ mem.next[v] # v /\ mem.next[v] \in on[l] \cup {ListHead(l)}
      /\ mem.prev[v] \in Nodes /\ mem.prev[v] # v /\ mem.prev[v] \in on[l] \cup {ListHead(l)}
    BY <1>4, <1>5, RingNeighbours
<1>7. d.prev = [x \in Nodes |-> IF x = v THEN IF mem.kind[v] = "manager" THEN Null ELSE Gone
                                ELSE IF x = mem.next[v] THEN mem.prev[v] ELSE mem.prev[x]]
    BY <1>1, <1>3, <1>5, <1>6, DeleteFields, ZenonT(30)
<1>8. Sound(d, on2, A) /\ Keeps(mem, on, d, on2, A, Slots)
    BY <1>3, DeleteSound
<1>. HIDE DEF d, on2
<1>9. d.prev[v] = Gone
    BY <1>1, <1>3, <1>7 DEF Nodes
<1>10. {v} \in SUBSET (Deleted(d) \cap EntitySlots)
    BY <1>3, <1>8, <1>9, SoundSlots DEF Deleted
<1>11. /\ Sound(r, on2, A) /\ Keeps(d, on2, r, on2, A, Slots)
       /\ Free(r) = Free(d) \cup {v}
    BY <1>8, <1>10, ClearSound
<1>. HIDE DEF r
<1>12. Keeps(mem, on, r, on2, A, Slots)
    BY <1>8, <1>11, KeepsTransitive
<1>. QED  BY <1>2, <1>10, <1>11, <1>12 DEF r

\* A slot that GetEmptyEntity returns is a free slot of the pool, after the
\* call.
LEMMA GetEmptyEntitySound ==
    ASSUME NEW mem, NEW on, NEW A, Sound(mem, on, A)
    PROVE  LET got == GetEmptyEntity(mem)
           IN  /\ \E on2 : Sound(got.mem, on2, A) /\ Keeps(mem, on, got.mem, on2, A, Slots)
               /\ got.slot # Null => got.slot \in Free(got.mem) \cap EntitySlots
               /\ got = [mem |-> got.mem, slot |-> got.slot]
<1>. DEFINE free == Free(mem) \cap Ents
            v == Victim(mem)
            after == ClearDeletedEntities(DeleteEntity(mem, v), {v})
            got == GetEmptyEntity(mem)
<1>1. Keeps(mem, on, mem, on, A, Slots)
    BY KeepsItself
<1>2. CASE mem.gEntCount < NEnts - 1 /\ free # {}
  <2>1. got = [mem |-> mem, slot |-> Smallest(free)]
    BY <1>2 DEF GetEmptyEntity
  <2>2. free \in SUBSET Nat /\ free \subseteq EntitySlots
    BY Pointers DEF Free
  <2>3. Smallest(free) \in free
    <3>. HIDE DEF free
    <3>. QED  BY <1>2, <2>2, SmallestIn
  <2>. HIDE DEF got
  <2>4. Smallest(free) \in Free(mem) \cap EntitySlots
    BY <2>2, <2>3
  <2>. HIDE DEF free
  <2>. QED  BY <1>1, <2>1, <2>4 DEF got
<1>3. CASE ~(mem.gEntCount < NEnts - 1 /\ free # {}) /\ Victims(mem) # {}
  <2>1. got = [mem |-> after, slot |-> v]
    BY <1>3 DEF GetEmptyEntity
  <2>2. v \in Victims(mem)
    BY <1>3, VictimIn
  <2>. HIDE DEF v
  <2>3. /\ \E on2 : Sound(after, on2, A) /\ Keeps(mem, on, after, on2, A, Slots)
        /\ v \in Free(after) \cap EntitySlots
    BY <2>2, VictimSound
  <2>. HIDE DEF got, after
  <2>. QED  BY <2>1, <2>3 DEF got
<1>4. CASE ~(mem.gEntCount < NEnts - 1 /\ free # {}) /\ Victims(mem) = {}
  <2>1. got = [mem |-> mem, slot |-> Null]
    BY <1>4 DEF GetEmptyEntity
  <2>. HIDE DEF got
  <2>. QED  BY <1>1, <2>1 DEF got
<1>. QED  BY <1>2, <1>3, <1>4

\* What the callers of the allocators do keeps the lists rings, whether a
\* slot is found or not.
LEMMA EntityEnters ==
    ASSUME NEW mem, NEW on, NEW A, Sound(mem, on, A),
           NEW kind \in {"entity", "enemy"}, NEW flags \in SUBSET Flags, NEW l \in Lists
    PROVE  LET r == Enter(GetEmptyEntity(mem), kind, flags, l)
           IN  \E on2 : Sound(r, on2, A) /\ Keeps(mem, on, r, on2, A, Slots)
<1>. DEFINE got == GetEmptyEntity(mem)
            z == got.mem
            e == got.slot
            r == Enter([mem |-> z, slot |-> e], kind, flags, l)
<1>1. /\ \E on2 : Sound(z, on2, A) /\ Keeps(mem, on, z, on2, A, Slots)
      /\ e # Null => e \in Free(z) \cap EntitySlots
      /\ got = [mem |-> z, slot |-> e]
    BY GetEmptyEntitySound
<1>2. r = Enter(got, kind, flags, l)
    BY <1>1
<1>. HIDE DEF got, z, e
<1>3. PICK on2 : Sound(z, on2, A) /\ Keeps(mem, on, z, on2, A, Slots)
    BY <1>1
<1>4. CASE e = Null
  <2>1. r = z
    BY <1>4 DEF Enter
  <2>. QED  BY <1>2, <1>3, <2>1 DEF got
<1>5. CASE e # Null
  <2>. DEFINE on3 == [k \in Lists |-> IF k = l THEN on2[k] \cup {e} ELSE on2[k]]
  <2>1. e \in Free(z) /\ e \in EntitySlots /\ e \notin Managers
    BY <1>1, <1>5, Pointers
  <2>2. kind \in Kinds \ {"none"} /\ (kind = "manager" <=> e \in Managers)
    BY <2>1 DEF Kinds
  <2>3. Sound(r, on3, A) /\ Keeps(z, on2, r, on3, A, Slots)
    BY <1>3, <2>1, <2>2, EnterSound
  <2>. HIDE DEF r, on3
  <2>4. Keeps(mem, on, r, on3, A, Slots)
    BY <1>3, <2>3, KeepsTransitive
  <2>. QED  BY <1>2, <2>3, <2>4 DEF got
<1>. QED  BY <1>4, <1>5

\* The same for a manager.
LEMMA ManagerEnters ==
    ASSUME NEW mem, NEW on, NEW A, Sound(mem, on, A), NEW l \in Lists
    PROVE  LET r == Enter(GetEmptyManager(mem), "manager", {}, l)
           IN  \E on2 : Sound(r, on2, A) /\ Keeps(mem, on, r, on2, A, Slots)
<1>. DEFINE free == Free(mem) \cap Managers
            e == Smallest(free)
            r == Enter(GetEmptyManager(mem), "manager", {}, l)
            on2 == [k \in Lists |-> IF k = l THEN on[k] \cup {e} ELSE on[k]]
<1>1. CASE free = {}
  <2>1. r = mem
    BY <1>1 DEF GetEmptyManager, Enter
  <2>. QED  BY <2>1, KeepsItself
<1>2. CASE free # {}
  <2>1. free \in SUBSET Nat
    BY Pointers DEF Free
  <2>2. e \in free
    <3>. HIDE DEF free
    <3>. QED  BY <1>2, <2>1, SmallestIn
  <2>3. GetEmptyManager(mem) = [mem |-> mem, slot |-> e]
    BY <1>2 DEF GetEmptyManager
  <2>4. e \in Free(mem) /\ e \in Managers
    BY <2>2
  <2>. HIDE DEF e, free
  <2>5. "manager" \in Kinds \ {"none"} /\ ("manager" = "manager" <=> e \in Managers) /\ {} \in SUBSET Flags
    BY <2>4 DEF Kinds
  <2>6. LET s == Enter([mem |-> mem, slot |-> e], "manager", {}, l)
        IN  Sound(s, on2, A) /\ Keeps(mem, on, s, on2, A, Slots)
    BY <2>4, <2>5, EnterSound
  <2>7. Sound(r, on2, A) /\ Keeps(mem, on, r, on2, A, Slots)
    BY <2>3, <2>6
  <2>. QED  BY <2>7
<1>. QED  BY <1>1, <1>2

\* The animation's entity enters the list of objects and then moves to its
\* front: it was on no list, so it was not among those to be updated.
LEMMA LinkAnimationSound ==
    ASSUME NEW mem, NEW on, NEW A, Sound(mem, on, A)
    PROVE  LET got == CreateAuxPlayerEntity(mem)
               r == IF got.slot = Null THEN mem
                    ELSE PrependEntityToList(Enter(got, "entity", {}, ObjectList), got.slot, ObjectList)
           IN  \E on2 : Sound(r, on2, A) /\ Keeps(mem, on, r, on2, A, Slots \ Free(mem))
<1>. DEFINE free == Free(mem) \cap Aux
            e == Smallest(free)
            l == ObjectList
            got == CreateAuxPlayerEntity(mem)
            s == Enter([mem |-> mem, slot |-> e], "entity", {}, l)
            r == PrependEntityToList(s, e, l)
            on2 == [k \in Lists |-> IF k = l THEN on[k] \cup {e} ELSE on[k]]
<1>1. CASE free = {}
  <2>1. got.slot = Null
    BY <1>1 DEF CreateAuxPlayerEntity
  <2>. QED  BY <2>1, KeepsItself
<1>2. CASE free # {}
  <2>1. free \in SUBSET Nat
    BY Pointers DEF Free
  <2>2. e \in free
    <3>. HIDE DEF free
    <3>. QED  BY <1>2, <2>1, SmallestIn
  <2>3. got = [mem |-> mem, slot |-> e]
    BY <1>2 DEF CreateAuxPlayerEntity
  <2>4. e \in Free(mem) /\ e \notin Managers /\ e # Null
    BY <2>2, Pointers DEF Free
  <2>. HIDE DEF e, free, got
  <2>5. "entity" \in Kinds \ {"none"} /\ ("entity" = "manager" <=> e \in Managers) /\ {} \in SUBSET Flags /\ l \in Lists
    BY <2>4, WalkAssumption DEF Kinds
  <2>. HIDE DEF l
  <2>6. Sound(s, on2, A) /\ Keeps(mem, on, s, on2, A, Slots) /\ e \in on2[l]
    BY <2>4, <2>5, EnterSound
  <2>. HIDE DEF s, on2
  <2>7. Sound(r, on2, A) /\ Keeps(s, on2, r, on2, A, Slots \ {e})
    BY <2>5, <2>6, PrependSound
  <2>. HIDE DEF r
  <2>8. Keeps(mem, on, r, on2, A, Slots \ {e})
    BY <2>6, <2>7, KeepsTransitive
  <2>9. Keeps(mem, on, r, on2, A, Slots \ Free(mem))
    BY <2>4, <2>8, KeepsLess
  <2>. QED  BY <2>3, <2>4, <2>7, <2>9 DEF got, r, s, l
<1>. QED  BY <1>1, <1>2

-----------------------------------------------------------------------------
(* From one node of a walk to the next.                                    *)

\* The walk comes to c next: it is through with B, and c follows B.
Reached(nx, pv, l, S, rest, c) ==
    \E B \in SUBSET S :
        /\ B \cap rest = {}
        /\ \A z \in B : pv[z] \in B \cup {ListHead(l)}
        /\ c \in (S \ B) \cup {ListHead(l)}
        /\ pv[c] \in B \cup {ListHead(l)}

\* A walk begins with everyone to update.
LEMMA ReachedStart ==
    ASSUME NEW nx, NEW pv, NEW l, NEW S, RingOf(nx, pv, l, S)
    PROVE  Reached(nx, pv, l, S, S, nx[ListHead(l)])
<1>. DEFINE c == nx[ListHead(l)]
            B == {}
<1>1. c \in S \cup {ListHead(l)} /\ pv[c] = ListHead(l)
    BY DEF RingOf
<1>. HIDE DEF c
<1>2. B \in SUBSET S /\ B \cap S = {} /\ c \in (S \ B) \cup {ListHead(l)} /\ pv[c] \in B \cup {ListHead(l)}
    BY <1>1
<1>3. Reached(nx, pv, l, S, S, c)
    BY <1>2 DEF Reached
<1>. QED  BY <1>3 DEF c

\* A walk that is back at the head has updated everyone.
LEMMA ReachedEnd ==
    ASSUME NEW nx, NEW pv, NEW l \in Lists, NEW S, RingOf(nx, pv, l, S),
           NEW rest \in SUBSET S, Reached(nx, pv, l, S, rest, ListHead(l))
    PROVE  rest = {}
<1>. DEFINE h == ListHead(l)
<1>1. PICK B \in SUBSET S : /\ B \cap rest = {}
                            /\ \A z \in B : pv[z] \in B \cup {h}
                            /\ pv[h] \in B \cup {h}
    BY DEF Reached
<1>. DEFINE T == S \ B
<1>2. h \notin S
    BY Pointers DEF RingOf
<1>3. ASSUME NEW x \in T PROVE nx[x] \in T
  <2>1. nx[x] \in S \cup {h} /\ pv[nx[x]] = x
    BY DEF RingOf
  <2>2. x \notin B \cup {h}
    BY <1>2
  <2>. QED  BY <1>1, <2>1, <2>2
<1>4. T \in SUBSET S
    OBVIOUS
<1>. HIDE DEF T
<1>5. T = {}
    BY <1>3, <1>4 DEF RingOf
<1>. QED  BY <1>1, <1>5 DEF T

\* The update of the node c that the walk has come to takes it past c.
LEMMA ReachedPassed ==
    ASSUME NEW nx, NEW pv, NEW l \in Lists, NEW S, RingOf(nx, pv, l, S),
           NEW rest, NEW c \in S, Reached(nx, pv, l, S, rest, c)
    PROVE  Passed(nx, pv, l, S, rest \ {c}, c)
<1>. DEFINE h == ListHead(l)
<1>1. PICK B \in SUBSET S : /\ B \cap rest = {}
                            /\ \A z \in B : pv[z] \in B \cup {h}
                            /\ c \in (S \ B) \cup {h}
                            /\ pv[c] \in B \cup {h}
    BY DEF Reached
<1>. DEFINE E == B \cup {c}
<1>2. c # h /\ c \notin B
    BY <1>1, Pointers DEF RingOf
<1>3. nx[c] # c /\ pv[nx[c]] = c
  <2>1. /\ nx[c] \in Nodes /\ nx[c] # c /\ nx[c] \in S \cup {ListHead(l)}
        /\ pv[c] \in Nodes /\ pv[c] # c /\ pv[c] \in S \cup {ListHead(l)}
    BY RingNeighbours
  <2>. QED  BY <2>1 DEF RingOf
<1>4. nx[c] \notin E
    BY <1>1, <1>2, <1>3
<1>5. E \in SUBSET S /\ E \cap (rest \ {c}) = {} /\ c \in E \cup {h}
    BY <1>1
<1>6. \A z \in E : pv[z] \in E \cup {h}
    BY <1>1
<1>. HIDE DEF E
<1>. QED  BY <1>4, <1>5, <1>6 DEF Passed

\* A walk that goes on from c comes to what follows it.
LEMMA PassedReached ==
    ASSUME NEW nx, NEW pv, NEW l \in Lists, NEW S, RingOf(nx, pv, l, S),
           NEW rest, NEW c, Passed(nx, pv, l, S, rest, c)
    PROVE  Reached(nx, pv, l, S, rest, nx[c])
<1>. DEFINE h == ListHead(l)
<1>1. PICK B \in SUBSET S : /\ B \cap rest = {}
                            /\ \A z \in B : pv[z] \in B \cup {h}
                            /\ c \in B \cup {h}
                            /\ nx[c] \notin B
    BY DEF Passed
<1>2. nx[c] \in S \cup {h} /\ pv[nx[c]] = c
    BY <1>1 DEF RingOf
<1>. DEFINE d == nx[c]
<1>3. d \in (S \ B) \cup {h} /\ pv[d] \in B \cup {h}
    BY <1>1, <1>2
<1>. HIDE DEF d
<1>4. Reached(nx, pv, l, S, rest, d)
    BY <1>1, <1>3 DEF Reached
<1>. QED  BY <1>4 DEF d

\* Fewer nodes to update: the walk is no less far.
LEMMA PassedFewer ==
    ASSUME NEW nx, NEW pv, NEW l, NEW S, NEW rest, NEW c, Passed(nx, pv, l, S, rest, c),
           NEW fewer \in SUBSET rest
    PROVE  Passed(nx, pv, l, S, fewer, c)
<1>1. PICK B \in SUBSET S : /\ B \cap rest = {}
                            /\ \A z \in B : pv[z] \in B \cup {ListHead(l)}
                            /\ c \in B \cup {ListHead(l)}
                            /\ nx[c] \notin B
    BY DEF Passed
<1>2. B \cap fewer = {}
    BY <1>1
<1>. QED  BY <1>1, <1>2 DEF Passed

\* No link leads from the lists to what was put away.
LEMMA NextNotAway ==
    ASSUME NEW mem, NEW on, NEW A, Sound(mem, on, A), NEW x \in Slots \ A
    PROVE  mem.next[x] \notin A /\ mem.next[x] \in Nodes \cup {Null}
<1>1. A \in SUBSET Slots /\ mem \in Memories
    BY DEF Sound
<1>2. CASE mem.next[x] = Null
    BY <1>1, <1>2, Pointers
<1>3. CASE mem.next[x] # Null
  <2>1. PICK l \in Lists : x \in on[l]
    BY <1>3, SoundSlots
  <2>2. RingOf(mem.next, mem.prev, l, on[l]) /\ on[l] \cap A = {}
    BY DEF Sound
  <2>3. mem.next[x] \in on[l] \cup {ListHead(l)}
    BY <2>1, <2>2 DEF RingOf
  <2>4. mem.next[x] \in Nodes
    BY <1>3, SoundSlots
  <2>5. ListHead(l) \notin Slots
    BY Pointers
  <2>. QED  BY <1>1, <2>2, <2>3, <2>4, <2>5
<1>. QED  BY <1>2, <1>3

-----------------------------------------------------------------------------
(* Lists that were put away.                                               *)

\* The memory with the heads st back: Restored of another stash.
Back(mem, st) ==
    [mem EXCEPT !.next = [x \in Nodes |-> IF x \in Heads THEN st.next[x] ELSE @[x]],
                !.prev = [x \in Nodes |-> IF x \in Heads THEN st.prev[x] ELSE @[x]]]

Stashes == [next : [Heads -> Nodes], prev : [Heads -> Nodes]]

\* What was put away is on rings, once its heads are back.
PutAway(mem, st) ==
    LET r == Back(mem, st) IN
    /\ \A l \in Lists : RingOf(r.next, r.prev, l, Members(r, l))
    /\ \A k, l \in Lists : k # l => Members(r, k) \cap Members(r, l) = {}

\* Back, field by field.
LEMMA BackFields ==
    ASSUME NEW mem \in Memories, NEW st \in Stashes
    PROVE  LET r == Back(mem, st) IN
           /\ r \in Memories
           /\ r.next = [x \in Nodes |-> IF x \in Heads THEN st.next[x] ELSE mem.next[x]]
           /\ r.prev = [x \in Nodes |-> IF x \in Heads THEN st.prev[x] ELSE mem.prev[x]]
           /\ r.kind = mem.kind
           /\ r.gEntCount = mem.gEntCount /\ r.gManagerCount = mem.gManagerCount
           /\ r.current = mem.current
<1>. DEFINE r == Back(mem, st)
            nx == [x \in Nodes |-> IF x \in Heads THEN st.next[x] ELSE mem.next[x]]
            pv == [x \in Nodes |-> IF x \in Heads THEN st.prev[x] ELSE mem.prev[x]]
<1>1. nx \in [Nodes -> Nodes \cup {Null}] /\ pv \in [Nodes -> Nodes \cup {Null, Gone}]
    BY MemoryFields DEF Stashes
<1>2. r = [mem EXCEPT !.next = nx, !.prev = pv]
    BY DEF Back, Memories
<1>. HIDE DEF r, nx, pv
<1>3. /\ r \in Memories /\ r.next = nx /\ r.prev = pv /\ r.kind = mem.kind
      /\ r.gEntCount = mem.gEntCount /\ r.gManagerCount = mem.gManagerCount
      /\ r.current = mem.current
    BY <1>1, <1>2 DEF Memories
<1>. QED  BY <1>3 DEF r, nx, pv

\* The rings that wait are a matter of their own slots and the heads put away.
LEMMA BackAgrees ==
    ASSUME NEW mem \in Memories, NEW mem2 \in Memories, NEW st \in Stashes, PutAway(mem, st),
           \A x \in AllMembers(Back(mem, st)) :
               mem2.next[x] = mem.next[x] /\ mem2.prev[x] = mem.prev[x]
    PROVE  /\ \A l \in Lists : Members(Back(mem2, st), l) = Members(Back(mem, st), l)
           /\ AllMembers(Back(mem2, st)) = AllMembers(Back(mem, st))
           /\ PutAway(mem2, st)
<1>. DEFINE r == Back(mem, st)
            s == Back(mem2, st)
<1>1. /\ r.next = [x \in Nodes |-> IF x \in Heads THEN st.next[x] ELSE mem.next[x]]
      /\ r.prev = [x \in Nodes |-> IF x \in Heads THEN st.prev[x] ELSE mem.prev[x]]
    BY BackFields
<1>2. /\ s.next = [x \in Nodes |-> IF x \in Heads THEN st.next[x] ELSE mem2.next[x]]
      /\ s.prev = [x \in Nodes |-> IF x \in Heads THEN st.prev[x] ELSE mem2.prev[x]]
    BY BackFields
<1>. HIDE DEF r, s
<1>3. ASSUME NEW l \in Lists
      PROVE  RingOf(s.next, s.prev, l, Members(r, l)) /\ Members(s, l) = Members(r, l)
  <2>. DEFINE S == Members(r, l)
  <2>1. RingOf(r.next, r.prev, l, S)
    BY DEF PutAway, r
  <2>2. S \subseteq AllMembers(r)
    BY DEF AllMembers
  <2>3. S \subseteq Slots
    BY <2>1 DEF RingOf
  <2>. HIDE DEF S
  <2>4. \A x \in S \cup {ListHead(l)} : x \in Nodes /\ (x \notin Heads => x \in AllMembers(r))
    BY <2>2, <2>3, Pointers DEF Nodes
  <2>5. \A x \in S \cup {ListHead(l)} : s.next[x] = r.next[x] /\ s.prev[x] = r.prev[x]
    BY <1>1, <1>2, <2>4 DEF r
  <2>6. RingOf(s.next, s.prev, l, S)
    BY <2>1, <2>5, RingAgrees
  <2>7. Members(s, l) = S
    BY <2>6, WalkOfRing
  <2>. QED  BY <2>6, <2>7 DEF S
<1>4. AllMembers(s) = AllMembers(r)
    BY <1>3 DEF AllMembers
<1>5. PutAway(mem2, st)
  <2>1. \A l \in Lists : RingOf(s.next, s.prev, l, Members(s, l))
    BY <1>3
  <2>2. \A k, l \in Lists : k # l => Members(s, k) \cap Members(s, l) = {}
    BY <1>3 DEF PutAway, r
  <2>. QED  BY <2>1, <2>2 DEF PutAway, s
<1>. QED  BY <1>3, <1>4, <1>5 DEF r, s


\* The walk's place matters to no list.
LEMMA SoundCurrent ==
    ASSUME NEW mem, NEW on, NEW A, Sound(mem, on, A), NEW c \in Nodes \cup {Null}
    PROVE  LET r == [mem EXCEPT !.current = c] IN
           /\ Sound(r, on, A)
           /\ r.next = mem.next /\ r.prev = mem.prev /\ r.kind = mem.kind /\ r.current = c
<1>. DEFINE r == [mem EXCEPT !.current = c]
<1>1. mem \in Memories
    BY DEF Sound
<1>2. /\ r \in Memories
      /\ r.next = mem.next /\ r.prev = mem.prev /\ r.kind = mem.kind
      /\ r.gEntCount = mem.gEntCount /\ r.gManagerCount = mem.gManagerCount
      /\ r.current = c
    BY <1>1 DEF Memories
<1>. HIDE DEF r
<1>3. Free(r) = Free(mem)
    BY <1>2 DEF Free
<1>4. Sound(r, on, A)
    BY <1>2, <1>3 DEF Sound, SlotFits, KindFits, CountsFit
<1>. QED  BY <1>2, <1>4 DEF r

\* A stash is told from the absence of one.
LEMMA StashNotEmpty ==
    ASSUME NEW st \in Stashes
    PROVE  st # <<>>
<1>1. DOMAIN st = {"next", "prev"}
    BY DEF Stashes
<1>2. DOMAIN <<>> = {}
    OBVIOUS
<1>. QED  BY <1>1, <1>2

-----------------------------------------------------------------------------
(* The inductive invariant.                                                *)

On == [l \in Lists |-> Members(m, l)]
Away == IF task = "subtask" THEN AllMembers(Back(m, stash)) ELSE {}

\* The lists are rings whoever holds them, until the portal cutscene's
\* subtask leaves nothing but free slots for GAMETASK_INIT.
PoolsFit ==
    /\ task \in {"subtask", "portal"} => stash \in Stashes
    /\ task = "init" => pc = "idle" /\ AllFree(m)
    /\ task # "init" => Sound(m, On, Away)
    /\ task = "subtask" => PutAway(m, stash)

\* A pass works on the lists, and the assembly's walk is never past a node
\* that it has not updated.
WalkFits ==
    /\ pc \in {"walk", "update"} => task # "init" /\ entity \notin Away
    /\ pc = "update" => next \notin Away
    /\ pc # "update" => next = Null
    /\ pc = "update" => entity \in Slots \ due /\ m.current \in Nodes
    /\ build = "gba" /\ pc \in {"walk", "update"} => due \subseteq Members(m, list)
    /\ build = "gba" /\ pc = "walk" =>
         Reached(m.next, m.prev, list, Members(m, list), due, entity)
    /\ build = "gba" /\ pc = "update" =>
         Passed(m.next, m.prev, list, Members(m, list), due, m.current)

IInv == TypeOK /\ PoolsFit /\ WalkFits

\* sub_0805E974 brings back the stash.
LEMMA RestoredBack == Restored(m) = Back(m, stash)
<1>. QED  BY DEF Restored, Back

\* An operation that keeps the rings and what is away keeps PoolsFit.
LEMMA PoolsKept ==
    ASSUME PoolsFit, task # "init", task' = task, stash' = stash,
           NEW on2, Sound(m', on2, Away),
           \A x \in Away : m'.next[x] = m.next[x] /\ m'.prev[x] = m.prev[x]
    PROVE  PoolsFit' /\ Away' = Away /\ On' = on2
<1>1. On' = on2
    BY SoundMembers DEF On
<1>2. m \in Memories /\ m' \in Memories
    BY DEF PoolsFit, Sound
<1>3. CASE task = "subtask"
  <2>1. stash \in Stashes /\ PutAway(m, stash) /\ Away = AllMembers(Back(m, stash))
    BY <1>3 DEF PoolsFit, Away
  <2>2. AllMembers(Back(m', stash)) = AllMembers(Back(m, stash)) /\ PutAway(m', stash)
    BY <1>2, <2>1, BackAgrees
  <2>3. Away' = Away
    BY <1>3, <2>1, <2>2 DEF Away
  <2>. QED  BY <1>1, <1>3, <2>1, <2>2, <2>3 DEF PoolsFit
<1>4. CASE task # "subtask"
  <2>1. Away' = Away
    BY <1>4 DEF Away
  <2>. QED  BY <1>1, <1>4, <2>1 DEF PoolsFit
<1>. QED  BY <1>3, <1>4

\* The invariant holds initially.
LEMMA InitFits ==
    ASSUME Init
    PROVE  IInv
<1>1. /\ m = EmptyMemory /\ build \in Builds /\ task = "main" /\ stash = <<>> /\ pc = "idle"
      /\ mode = 1 /\ list = 8 /\ entity = Null /\ next = Null /\ due = {} /\ calls = 0
    BY DEF Init
<1>2. EmptyMemory = [EmptyMemory EXCEPT !.current = Null]
    BY DEF EmptyMemory
<1>3. Sound(m, Empty, {})
  <2>1. Sound([EmptyMemory EXCEPT !.current = Null], Empty, {})
    BY EmptySound
  <2>. QED  BY <1>1, <1>2, <2>1
<1>4. On = Empty
    BY <1>3, SoundMembers DEF On
<1>5. Away = {}
    BY <1>1 DEF Away
<1>6. PoolsFit
    BY <1>1, <1>3, <1>4, <1>5 DEF PoolsFit
<1>7. WalkFits
    BY <1>1 DEF WalkFits
<1>8. TypeOK
    BY <1>1, <1>3, WalkAssumption DEF TypeOK, Sound
<1>. QED  BY <1>6, <1>7, <1>8 DEF IInv

-----------------------------------------------------------------------------
(* The steps of the walk keep the invariant.                               *)

\* What the invariant says of a memory in game.
LEMMA InGameFacts ==
    ASSUME IInv, task # "init"
    PROVE  /\ m \in Memories /\ Sound(m, On, Away)
           /\ \A l \in Lists : /\ On[l] = Members(m, l) /\ On[l] \in SUBSET (Slots \ Away)
                               /\ RingOf(m.next, m.prev, l, Members(m, l))
                               /\ ListHead(l) \notin Away /\ ListHead(l) \in Nodes
           /\ Null \notin Away
<1>1. Sound(m, On, Away)
    BY DEF IInv, PoolsFit
<1>2. \A l \in Lists : On[l] = Members(m, l)
    BY DEF On
<1>3. Away \in SUBSET Slots /\ m \in Memories
    BY <1>1 DEF Sound
<1>4. \A l \in Lists : On[l] \in SUBSET (Slots \ Away) /\ RingOf(m.next, m.prev, l, Members(m, l))
    BY <1>1, <1>2 DEF Sound
<1>5. \A l \in Lists : ListHead(l) \notin Away /\ ListHead(l) \in Nodes
    BY <1>3, Pointers DEF Nodes
<1>. QED  BY <1>1, <1>2, <1>3, <1>4, <1>5, Pointers

\* Steps that leave the memory's lists as they are.
LEMMA SamePools ==
    ASSUME IInv, task # "init", task' = task, stash' = stash,
           m' \in Memories, Sound(m', On, Away), m'.next = m.next, m'.prev = m.prev
    PROVE  /\ PoolsFit' /\ Away' = Away /\ On' = On
           /\ \A l \in Lists : Members(m', l) = Members(m, l)
<1>1. PoolsFit' /\ Away' = Away /\ On' = On
    BY PoolsKept DEF IInv
<1>2. \A l \in Lists : Members(m', l) = On[l]
    BY SoundMembers
<1>. QED  BY <1>1, <1>2 DEF On

\* A walk's first step on a list.
LEMMA EnterListFits ==
    ASSUME IInv, task # "init", NEW l \in Lists, EnterList(l, m),
           UNCHANGED <<m, build, task, stash, next, calls>>,
           pc \in {"idle", "walk"}, pc' = "walk", mode' \in {0, 1}
    PROVE  IInv'
<1>. DEFINE S == Members(m, l)
            h == ListHead(l)
<1>1. list' = l /\ entity' = m.next[h] /\ due' = S
    BY DEF EnterList
<1>2. Sound(m, On, Away) /\ S \in SUBSET (Slots \ Away) /\ RingOf(m.next, m.prev, l, S)
      /\ h \notin Away /\ h \in Nodes
    BY InGameFacts
<1>3. PoolsFit' /\ Away' = Away
    BY <1>2, SamePools DEF IInv, TypeOK
<1>. HIDE DEF S
<1>4. m.next[h] \in S \cup {h}
    BY <1>2 DEF RingOf
<1>5. m.next[h] \in Nodes /\ m.next[h] \notin Away
    BY <1>2, <1>4 DEF Nodes
<1>6. Reached(m.next, m.prev, l, S, S, m.next[h])
    BY <1>2, ReachedStart
<1>7. next = Null
    BY DEF IInv, WalkFits
<1>8. WalkFits'
    BY <1>1, <1>3, <1>5, <1>6, <1>7 DEF WalkFits, S
<1>9. TypeOK'
    BY <1>1, <1>2, <1>5 DEF IInv, TypeOK
<1>. QED  BY <1>3, <1>8, <1>9 DEF IInv

\* The least of some lists is one of them.
LEMMA SmallestOf ==
    ASSUME NEW T \in SUBSET Lists, T # {}
    PROVE  Smallest(T) \in T
<1>. QED  BY SmallestIn, EntityAssumption

\* UpdateEntities or UpdateManagers begins.
LEMMA StartUpdateFits ==
    ASSUME IInv, StartUpdate
    PROVE  IInv'
<1>. DEFINE T == ListsOf(1 - mode)
<1>1. mode \in {0, 1}
    BY DEF IInv, TypeOK
<1>2. T \in SUBSET Lists /\ T # {}
  <2>1. CASE mode = 0
    <3>1. 8 \in T
      BY <2>1, WalkAssumption DEF ListsOf
    <3>. QED  BY <3>1 DEF ListsOf
  <2>2. CASE mode = 1
    <3>1. PICK l \in Lists : l < 8
      BY WalkAssumption
    <3>2. l \in T
      BY <2>2, <3>1 DEF ListsOf
    <3>. QED  BY <3>2 DEF ListsOf
  <2>. QED  BY <1>1, <2>1, <2>2
<1>. HIDE DEF T
<1>3. Smallest(T) \in Lists
    BY <1>2, SmallestOf
<1>. DEFINE l == Smallest(T)
<1>4. /\ EnterList(l, m) /\ UNCHANGED <<m, build, task, stash, next, calls>>
      /\ pc = "idle" /\ task # "init" /\ pc' = "walk" /\ mode' = 1 - mode
    BY DEF StartUpdate, T
<1>. HIDE DEF l
<1>5. mode' \in {0, 1} /\ l \in Lists
    BY <1>1, <1>3, <1>4 DEF l
<1>. QED  BY <1>4, <1>5, EnterListFits

\* The walk goes on to the next list.
LEMMA NextListFits ==
    ASSUME IInv, NextList
    PROVE  IInv'
<1>1. Later(list) \in SUBSET Lists /\ Later(list) # {}
    BY DEF Later, ListsOf, NextList
<1>. DEFINE l == Smallest(Later(list))
<1>2. l \in Lists
    BY <1>1, SmallestOf
<1>3. /\ EnterList(l, m) /\ UNCHANGED <<m, build, task, stash, next, calls>>
      /\ pc = "walk" /\ pc' = "walk" /\ mode' = mode
    BY DEF NextList
<1>. HIDE DEF l
<1>4. task # "init" /\ mode \in {0, 1}
    BY <1>3 DEF IInv, WalkFits, TypeOK
<1>. QED  BY <1>2, <1>3, <1>4, EnterListFits

\* The pass ends and the deleted entities are freed.
LEMMA FinishUpdateFits ==
    ASSUME IInv, FinishUpdate
    PROVE  IInv'
<1>. DEFINE z == [m EXCEPT !.current = Null]
<1>1. /\ pc = "walk" /\ m' = ClearAllDeletedEntities(z)
      /\ pc' = "idle" /\ entity' = Null /\ due' = {} /\ calls' = 0
      /\ UNCHANGED <<build, task, stash, mode, list, next>>
    BY DEF FinishUpdate
<1>2. task # "init" /\ next = Null
    BY <1>1 DEF IInv, WalkFits
<1>3. Sound(z, On, Away) /\ z.next = m.next /\ z.prev = m.prev
    BY <1>2, InGameFacts, SoundCurrent
<1>. HIDE DEF z
<1>4. Sound(m', On, Away) /\ Keeps(z, On, m', On, Away, Slots)
    BY <1>1, <1>3, ClearAllSound
<1>5. \A x \in Away : m'.next[x] = m.next[x] /\ m'.prev[x] = m.prev[x]
    BY <1>3, <1>4 DEF Keeps
<1>6. PoolsFit'
    BY <1>1, <1>2, <1>4, <1>5, PoolsKept DEF IInv
<1>7. WalkFits'
    BY <1>1, <1>2 DEF WalkFits
<1>8. TypeOK'
    BY <1>1, <1>4, WalkAssumption DEF IInv, TypeOK, Sound
<1>. QED  BY <1>6, <1>7, <1>8 DEF IInv

\* The C walk leaves its list: nothing is claimed of what follows.
LEMMA LeaveListFits ==
    ASSUME IInv, LeaveList
    PROVE  IInv'
<1>1. pc = "walk" /\ pc' = "wild" /\ UNCHANGED <<m, build, task, stash, mode, list, entity, next, due, calls>>
    BY DEF LeaveList
<1>2. task # "init" /\ next = Null
    BY <1>1 DEF IInv, WalkFits
<1>3. PoolsFit'
    BY <1>1, <1>2, InGameFacts, SamePools
<1>4. WalkFits'
    BY <1>1, <1>2 DEF WalkFits
<1>5. TypeOK'
    BY <1>1 DEF IInv, TypeOK
<1>. QED  BY <1>3, <1>4, <1>5 DEF IInv

\* Each build's walk is one of the two.
LEMMA OneBuild ==
    ASSUME IInv
    PROVE  build = "gba" \/ build = "port"
<1>. QED  BY WalkAssumption DEF IInv, TypeOK

\* The walk comes to a node and updates it.
LEMMA BeginUpdateFits ==
    ASSUME IInv, BeginUpdate
    PROVE  IInv'
<1>. DEFINE z == [m EXCEPT !.current = entity]
            S == Members(m, list)
<1>1. /\ pc = "walk" /\ entity \in Slots /\ m' = z
      /\ next' = IF build = "port" THEN m.next[entity] ELSE Null
      /\ due' = due \ {entity} /\ pc' = "update"
      /\ UNCHANGED <<build, task, stash, mode, list, entity, calls>>
    BY DEF BeginUpdate
<1>2. task # "init" /\ entity \notin Away /\ list \in Lists /\ entity \in Nodes
    BY <1>1 DEF IInv, WalkFits, TypeOK, Nodes
<1>3. /\ m \in Memories /\ Sound(m, On, Away) /\ Null \notin Away
      /\ S \in SUBSET (Slots \ Away) /\ RingOf(m.next, m.prev, list, S)
    BY <1>2, InGameFacts
<1>4. Sound(m', On, Away) /\ m'.next = m.next /\ m'.prev = m.prev /\ m'.current = entity
    BY <1>1, <1>2, <1>3, SoundCurrent
<1>. HIDE DEF z
<1>5. PoolsFit' /\ Away' = Away /\ Members(m', list) = S
  <2>1. m' \in Memories
    BY <1>4 DEF Sound
  <2>. QED  BY <1>1, <1>2, <1>4, <2>1, SamePools
<1>6. m.next[entity] \notin Away /\ m.next[entity] \in Nodes \cup {Null}
    BY <1>1, <1>2, <1>3, NextNotAway
<1>. HIDE DEF S
<1>7. ASSUME build = "gba"
      PROVE  due' \subseteq S /\ Passed(m.next, m.prev, list, S, due', entity)
  <2>1. due \subseteq S /\ Reached(m.next, m.prev, list, S, due, entity)
    BY <1>1, <1>7 DEF IInv, WalkFits, S
  <2>2. entity \in S
    BY <1>1, <1>2, <2>1, Pointers DEF Reached
  <2>3. Passed(m.next, m.prev, list, S, due \ {entity}, entity)
    BY <1>2, <1>3, <2>1, <2>2, ReachedPassed
  <2>. QED  BY <1>1, <2>1, <2>3
<1>8. WalkFits'
    BY <1>1, <1>2, <1>3, <1>4, <1>5, <1>6, <1>7 DEF WalkFits
<1>9. TypeOK'
    BY <1>1, <1>4, <1>6 DEF IInv, TypeOK, Sound
<1>. QED  BY <1>5, <1>8, <1>9 DEF IInv

\* Only the C walk meets a cleared slot.
LEMMA MeetClearedSlotFits ==
    ASSUME IInv, MeetClearedSlot
    PROVE  IInv'
<1>1. /\ pc = "walk" /\ entity \in Slots /\ m.kind[entity] = "none"
      /\ m' = [m EXCEPT !.current = entity] /\ entity' = m.next[entity]
      /\ UNCHANGED <<build, task, stash, pc, mode, list, next, due, calls>>
    BY DEF MeetClearedSlot
<1>2. task # "init" /\ entity \notin Away /\ next = Null /\ list \in Lists /\ entity \in Nodes
    BY <1>1 DEF IInv, WalkFits, TypeOK, Nodes
<1>3. Sound(m, On, Away)
    BY <1>2, InGameFacts
<1>4. Sound(m', On, Away) /\ m'.next = m.next /\ m'.prev = m.prev
    BY <1>1, <1>2, <1>3, SoundCurrent
<1>5. PoolsFit' /\ Away' = Away
  <2>1. m' \in Memories
    BY <1>4 DEF Sound
  <2>. QED  BY <1>1, <1>2, <1>4, <2>1, SamePools
<1>6. m.next[entity] \notin Away /\ m.next[entity] \in Nodes \cup {Null}
    BY <1>1, <1>2, <1>3, NextNotAway
<1>7. build # "gba"
  <2>1. SUFFICES ASSUME build = "gba" PROVE FALSE
    OBVIOUS
  <2>2. entity \in On[list]
    BY <1>1, <1>2, <2>1, Pointers DEF IInv, WalkFits, Reached, On
  <2>3. m.next[entity] # Null
    BY <1>1, <1>2, <1>3, <2>2, SoundSlots
  <2>4. m.kind[entity] # "none"
    BY <1>1, <1>3, <2>3, SoundSlots DEF KindFits
  <2>. QED  BY <1>1, <2>4
<1>8. WalkFits'
    BY <1>1, <1>2, <1>5, <1>6, <1>7 DEF WalkFits
<1>9. TypeOK'
    BY <1>1, <1>4, <1>6 DEF IInv, TypeOK, Sound
<1>. QED  BY <1>5, <1>8, <1>9 DEF IInv

\* Going on after an update, whether the memory mem is what the update left
\* or what the deletion of the entity itself makes of that.
LEMMA ContinueFits ==
    ASSUME IInv, pc = "update", NEW mem, NEW on2, Continue(mem),
           UNCHANGED <<due, calls>>,
           Sound(mem, on2, Away), Keeps(m, On, mem, on2, Away, Slots),
           build = "gba" => due \subseteq on2[list]
    PROVE  IInv'
<1>1. /\ pc' = "walk" /\ m' = mem /\ next' = Null
      /\ entity' = IF build = "port" THEN next ELSE mem.next[mem.current]
      /\ UNCHANGED <<build, task, stash, mode, list, due, calls>>
    BY DEF Continue
<1>2. task # "init" /\ next \notin Away /\ list \in Lists /\ next \in Nodes \cup {Null} /\ due \in SUBSET Slots
    BY DEF IInv, WalkFits, TypeOK
<1>3. PoolsFit' /\ Away' = Away /\ On' = on2
    BY <1>1, <1>2, PoolsKept DEF IInv, Keeps
<1>4. Members(m', list) = on2[list]
    BY <1>1, <1>2, SoundMembers
<1>5. ASSUME build = "gba"
      PROVE  /\ Reached(mem.next, mem.prev, list, on2[list], due, mem.next[mem.current])
             /\ mem.next[mem.current] \in Nodes /\ mem.next[mem.current] \notin Away
  <2>1. Passed(m.next, m.prev, list, On[list], due, m.current)
    BY <1>2, <1>5 DEF IInv, WalkFits, On
  <2>2. Passed(mem.next, mem.prev, list, on2[list], due, mem.current)
    BY <1>2, <2>1 DEF Keeps
  <2>3. /\ RingOf(mem.next, mem.prev, list, on2[list])
        /\ on2[list] \in SUBSET Slots /\ on2[list] \cap Away = {} /\ Away \in SUBSET Slots
    BY <1>2 DEF Sound
  <2>4. Reached(mem.next, mem.prev, list, on2[list], due, mem.next[mem.current])
    BY <1>2, <2>2, <2>3, PassedReached
  <2>5. mem.next[mem.current] \in on2[list] \cup {ListHead(list)}
    BY <2>4 DEF Reached
  <2>6. ListHead(list) \notin Slots /\ ListHead(list) \in Nodes
    BY <1>2, Pointers DEF Nodes
  <2>. QED  BY <2>3, <2>4, <2>5, <2>6 DEF Nodes
<1>6. entity' \in Nodes \cup {Null} /\ entity' \notin Away
    BY <1>1, <1>2, <1>5, OneBuild
<1>7. build = "gba" => entity' = mem.next[mem.current]
    BY <1>1
<1>8. WalkFits'
    BY <1>1, <1>2, <1>3, <1>4, <1>5, <1>6, <1>7 DEF WalkFits
<1>9. TypeOK'
    BY <1>1, <1>6 DEF IInv, TypeOK, Sound
<1>. QED  BY <1>3, <1>8, <1>9 DEF IInv

\* An update returns.
LEMMA EndUpdateFits ==
    ASSUME IInv, EndUpdate
    PROVE  IInv'
<1>1. pc = "update" /\ Continue(m) /\ UNCHANGED <<due, calls>>
    BY DEF EndUpdate
<1>2. task # "init" /\ list \in Lists
    BY <1>1 DEF IInv, WalkFits, TypeOK
<1>3. Sound(m, On, Away) /\ Keeps(m, On, m, On, Away, Slots)
    BY <1>2, InGameFacts, KeepsItself
<1>4. build = "gba" => due \subseteq On[list]
    BY <1>1, <1>2 DEF IInv, WalkFits, On
<1>. QED  BY <1>1, <1>3, <1>4, ContinueFits

\* An update leaves by DeleteThisEntity.
LEMMA DeleteThisEntityFits ==
    ASSUME IInv, DeleteThisEntity
    PROVE  IInv'
<1>. DEFINE mem == DeleteEntityAny(m, entity)
            on2 == [l \in Lists |-> On[l] \ {entity}]
<1>1. pc = "update" /\ Continue(mem) /\ UNCHANGED <<due, calls>>
    BY DEF DeleteThisEntity
<1>2. task # "init" /\ list \in Lists /\ entity \in Slots \ Away /\ entity \notin due
    BY <1>1 DEF IInv, WalkFits, TypeOK
<1>3. Sound(m, On, Away)
    BY <1>2, InGameFacts
<1>4. Sound(mem, on2, Away) /\ Keeps(m, On, mem, on2, Away, Slots)
    BY <1>2, <1>3, DeleteSound
<1>5. build = "gba" => due \subseteq on2[list]
    BY <1>1, <1>2 DEF IInv, WalkFits, On
<1>. HIDE DEF mem, on2
<1>. QED  BY <1>1, <1>4, <1>5, ContinueFits

-----------------------------------------------------------------------------
(* What an update does on its way keeps the invariant.                     *)

\* A call that keeps how far the walk has come, as long as what is due is in D.
LEMMA CallFits ==
    ASSUME IInv, Calling, NEW mem, NEW on2, NEW D, Call(mem),
           Sound(mem, on2, Away), Keeps(m, On, mem, on2, Away, D),
           build = "gba" => due \in SUBSET D
    PROVE  IInv'
<1>1. /\ pc = "update" /\ calls < MaxCalls
      /\ calls' = calls + 1 /\ m' = mem /\ due' = due \cap Members(mem, list)
      /\ UNCHANGED <<build, task, stash, pc, mode, list, entity, next>>
    BY DEF Calling, Call
<1>2. /\ task # "init" /\ list \in Lists /\ due \in SUBSET Slots
      /\ entity \in Slots \ due /\ entity \notin Away /\ next \notin Away /\ m.current \in Nodes
    BY <1>1 DEF IInv, WalkFits, TypeOK
<1>3. PoolsFit' /\ Away' = Away /\ On' = on2
    BY <1>1, <1>2, PoolsKept DEF IInv, Keeps
<1>4. Members(mem, list) = on2[list]
    BY <1>2, SoundMembers
<1>5. ASSUME build = "gba"
      PROVE  Passed(mem.next, mem.prev, list, on2[list], due', mem.current)
  <2>1. Passed(m.next, m.prev, list, On[list], due, m.current)
    BY <1>1, <1>2, <1>5 DEF IInv, WalkFits, On
  <2>2. Passed(mem.next, mem.prev, list, on2[list], due, mem.current)
    BY <1>2, <1>5, <2>1 DEF Keeps
  <2>3. due' \in SUBSET due
    BY <1>1
  <2>. QED  BY <2>2, <2>3, PassedFewer
<1>6. mem.current \in Nodes
    BY <1>2 DEF Keeps
<1>7. WalkFits'
    BY <1>1, <1>2, <1>3, <1>4, <1>5, <1>6 DEF WalkFits
<1>8. TypeOK'
  <2>1. calls' \in 0 .. MaxCalls
    BY <1>1, WalkAssumption DEF IInv, TypeOK
  <2>. QED  BY <1>1, <2>1 DEF IInv, TypeOK, Sound
<1>. QED  BY <1>3, <1>7, <1>8 DEF IInv

\* What a call may rely on.
LEMMA CallingFacts ==
    ASSUME IInv, Calling
    PROVE  /\ task # "init" /\ Sound(m, On, Away) /\ list \in Lists
           /\ due \in SUBSET Slots /\ entity \in Slots \ due
           /\ build = "gba" => due \subseteq On[list]
<1>1. pc = "update"
    BY DEF Calling
<1>2. task # "init" /\ list \in Lists /\ due \in SUBSET Slots /\ entity \in Slots \ due
    BY <1>1 DEF IInv, WalkFits, TypeOK
<1>3. build = "gba" => due \subseteq On[list]
    BY <1>1, <1>2 DEF IInv, WalkFits, On
<1>. QED  BY <1>2, <1>3, InGameFacts

\* An update creates an entity.
LEMMA CreateEntityFits ==
    ASSUME IInv, CreateEntity
    PROVE  IInv'
<1>1. PICK l \in EntityHomes, n \in Newcomers : Call(Enter(GetEmptyEntity(m), n[1], n[2], l))
    BY DEF CreateEntity
<1>2. Calling
    BY DEF CreateEntity
<1>3. Sound(m, On, Away) /\ due \in SUBSET Slots
    BY <1>2, CallingFacts
<1>4. l \in Lists /\ n[1] \in {"entity", "enemy"} /\ n[2] \in SUBSET Flags
    BY WalkAssumption
<1>. DEFINE mem == Enter(GetEmptyEntity(m), n[1], n[2], l)
<1>5. \E on2 : Sound(mem, on2, Away) /\ Keeps(m, On, mem, on2, Away, Slots)
    BY <1>3, <1>4, EntityEnters
<1>6. Call(mem)
    BY <1>1
<1>. HIDE DEF mem
<1>. QED  BY <1>2, <1>3, <1>5, <1>6, CallFits

\* An update creates the animation, which moves to the front.
LEMMA CreateLinkAnimationFits ==
    ASSUME IInv, CreateLinkAnimation
    PROVE  IInv'
<1>. DEFINE got == CreateAuxPlayerEntity(m)
            mem == IF got.slot = Null THEN m
                   ELSE PrependEntityToList(Enter(got, "entity", {}, ObjectList), got.slot, ObjectList)
            D == Slots \ Free(m)
<1>1. Calling /\ Call(mem)
    BY DEF CreateLinkAnimation
<1>2. Sound(m, On, Away) /\ due \in SUBSET Slots /\ (build = "gba" => due \subseteq On[list]) /\ list \in Lists
    BY <1>1, CallingFacts
<1>3. \E on2 : Sound(mem, on2, Away) /\ Keeps(m, On, mem, on2, Away, D)
    BY <1>2, LinkAnimationSound
<1>4. On[list] \subseteq D
  <2>1. ASSUME NEW x \in On[list] PROVE x \in D
    <3>1. x \in Slots
      BY <1>2 DEF Sound
    <3>2. m.next[x] # Null
      BY <1>2, <3>1, SoundSlots
    <3>. QED  BY <1>2, <3>1, <3>2, SoundSlots DEF Free
  <2>. QED  BY <2>1
<1>. HIDE DEF mem, D
<1>5. build = "gba" => due \in SUBSET D
    BY <1>2, <1>4
<1>. QED  BY <1>1, <1>3, <1>5, CallFits

\* An update creates a manager.
LEMMA CreateManagerFits ==
    ASSUME IInv, CreateManager
    PROVE  IInv'
<1>1. PICK l \in ManagerHomes : Call(Enter(GetEmptyManager(m), "manager", {}, l))
    BY DEF CreateManager
<1>2. Calling
    BY DEF CreateManager
<1>3. Sound(m, On, Away) /\ due \in SUBSET Slots
    BY <1>2, CallingFacts
<1>4. l \in Lists
    BY WalkAssumption
<1>. DEFINE mem == Enter(GetEmptyManager(m), "manager", {}, l)
<1>5. \E on2 : Sound(mem, on2, Away) /\ Keeps(m, On, mem, on2, Away, Slots)
    BY <1>3, <1>4, ManagerEnters
<1>6. Call(mem)
    BY <1>1
<1>. HIDE DEF mem
<1>. QED  BY <1>2, <1>3, <1>5, <1>6, CallFits

\* An update deletes anyone, itself too.
LEMMA DeleteFits ==
    ASSUME IInv, Delete
    PROVE  IInv'
<1>1. PICK e \in AllMembers(m) : Call(DeleteEntityAny(m, e))
    BY DEF Delete
<1>2. Calling
    BY DEF Delete
<1>3. Sound(m, On, Away) /\ due \in SUBSET Slots
    BY <1>2, CallingFacts
<1>4. e \in Slots \ Away
    BY <1>3, MembersNotAway
<1>. DEFINE mem == DeleteEntityAny(m, e)
<1>5. \E on2 : Sound(mem, on2, Away) /\ Keeps(m, On, mem, on2, Away, Slots)
    BY <1>3, <1>4, DeleteSound
<1>6. Call(mem)
    BY <1>1
<1>. HIDE DEF mem
<1>. QED  BY <1>2, <1>3, <1>5, <1>6, CallFits

\* An update moves itself to the front: it is no longer due.
LEMMA MoveToFrontFits ==
    ASSUME IInv, MoveToFront
    PROVE  IInv'
<1>. DEFINE mem == PrependEntityToList(m, entity, list)
            D == Slots \ {entity}
<1>1. Calling /\ Call(mem) /\ entity \in Members(m, list)
    BY DEF MoveToFront
<1>2. Sound(m, On, Away) /\ due \in SUBSET Slots /\ list \in Lists /\ entity \notin due
    BY <1>1, CallingFacts
<1>3. entity \in On[list]
    BY <1>1, <1>2 DEF On
<1>4. Sound(mem, On, Away) /\ Keeps(m, On, mem, On, Away, D)
    BY <1>2, <1>3, PrependSound
<1>5. due \in SUBSET D
    BY <1>2
<1>. HIDE DEF mem, D
<1>. QED  BY <1>1, <1>4, <1>5, CallFits

\* An update deletes all enemies.
LEMMA KillEnemiesFits ==
    ASSUME IInv, KillEnemies
    PROVE  IInv'
<1>. DEFINE mem == DeleteAllEnemies(m)
<1>1. Calling /\ Call(mem)
    BY DEF KillEnemies
<1>2. Sound(m, On, Away) /\ due \in SUBSET Slots
    BY <1>1, CallingFacts
<1>3. \E on2 : Sound(mem, on2, Away) /\ Keeps(m, On, mem, on2, Away, Slots)
    BY <1>2, DeleteAllEnemiesSound
<1>. HIDE DEF mem
<1>. QED  BY <1>1, <1>2, <1>3, CallFits

-----------------------------------------------------------------------------
(* Putting the lists away and bringing them back.                          *)

\* sub_0805E958 puts the heads away: the lists are empty, and what was on
\* them is on rings again as soon as the heads come back.
LEMMA FadeInSound ==
    ASSUME NEW mem, NEW on, Sound(mem, on, {})
    PROVE  LET st == [next |-> [x \in Heads |-> mem.next[x]], prev |-> [x \in Heads |-> mem.prev[x]]]
               r == DeleteAllEntities(
                        [mem EXCEPT !.next = [x \in Nodes |-> IF x \in Heads THEN x ELSE @[x]],
                                    !.prev = [x \in Nodes |-> IF x \in Heads THEN x ELSE @[x]]])
           IN  /\ st \in Stashes /\ PutAway(r, st)
               /\ Sound(r, Empty, AllMembers(Back(r, st)))
<1>. DEFINE st == [next |-> [x \in Heads |-> mem.next[x]], prev |-> [x \in Heads |-> mem.prev[x]]]
            nx == [x \in Nodes |-> IF x \in Heads THEN x ELSE mem.next[x]]
            pv == [x \in Nodes |-> IF x \in Heads THEN x ELSE mem.prev[x]]
            z == [mem EXCEPT !.next = nx, !.prev = pv]
            r == DeleteAllEntities(z)
            b == Back(r, st)
            A == AllMembers(mem)
<1>1. /\ mem \in Memories /\ on \in [Lists -> SUBSET Slots] /\ CountsFit(mem)
      /\ \A l \in Lists : RingOf(mem.next, mem.prev, l, on[l])
      /\ \A k, l \in Lists : k # l => on[k] \cap on[l] = {}
    BY DEF Sound
<1>2. A \in SUBSET Slots /\ (\A x : x \in A <=> \E l \in Lists : x \in on[l])
    BY SoundMembers
<1>3. Heads \subseteq Nodes /\ Slots \subseteq Nodes /\ Heads \cap Slots = {}
    BY Pointers DEF Nodes
<1>4. nx \in [Nodes -> Nodes \cup {Null}] /\ pv \in [Nodes -> Nodes \cup {Null, Gone}]
    BY <1>1, <1>3, MemoryFields
<1>5. \A x \in Heads : nx[x] = x /\ pv[x] = x
    BY <1>3
<1>6. \A x \in Slots : nx[x] = mem.next[x] /\ pv[x] = mem.prev[x]
    BY <1>3
<1>. HIDE DEF nx, pv
<1>7. /\ z \in Memories /\ z.next = nx /\ z.prev = pv /\ z.kind = mem.kind
      /\ z.gEntCount = mem.gEntCount /\ z.gManagerCount = mem.gManagerCount
    BY <1>1, <1>4 DEF Memories
<1>. HIDE DEF z, A
<1>8. \A l \in Lists : RingOf(z.next, z.prev, l, {})
    BY <1>5, <1>7, Pointers DEF RingOf
<1>9. \A x \in A : z.next[x] \in Nodes /\ z.prev[x] \in Nodes
  <2>1. ASSUME NEW x \in A PROVE z.next[x] \in Nodes /\ z.prev[x] \in Nodes
    <3>1. x \in Slots /\ \E l \in Lists : x \in on[l]
      BY <1>2
    <3>2. mem.next[x] \in Nodes /\ mem.prev[x] \in Nodes
      BY <3>1, SoundSlots
    <3>. QED  BY <1>6, <1>7, <3>1, <3>2
  <2>. QED  BY <2>1
<1>10. ASSUME NEW x \in Slots PROVE SlotFits(z, Empty, A, x)
  <2>1. SlotFits(mem, on, {}, x)
    BY DEF Sound
  <2>2. z.next[x] = mem.next[x] /\ z.prev[x] = mem.prev[x] /\ z.kind[x] = mem.kind[x]
    BY <1>6, <1>7
  <2>. QED  BY <1>2, <2>1, <2>2 DEF SlotFits, KindFits, Empty
<1>11. CountsFit(z)
  <2>1. Free(z) = Free(mem)
    BY <1>6, <1>7 DEF Free
  <2>. QED  BY <1>1, <1>7, <2>1 DEF CountsFit
<1>12. Sound(z, Empty, A)
    BY <1>2, <1>7, <1>8, <1>9, <1>10, <1>11 DEF Sound, Empty
<1>13. Sound(r, Empty, A) /\ Keeps(z, Empty, r, Empty, A, Slots)
    BY <1>12, DeleteAllSound
<1>. HIDE DEF r
<1>14. r \in Memories
    BY <1>13 DEF Sound
<1>15. \A x \in Heads : mem.next[x] \in Nodes /\ mem.prev[x] \in Nodes
  <2>1. ASSUME NEW l \in Lists PROVE mem.next[ListHead(l)] \in Nodes /\ mem.prev[ListHead(l)] \in Nodes
    <3>1. on[l] \cup {ListHead(l)} \subseteq Nodes
      BY <1>1, <1>3, Pointers
    <3>. QED  BY <1>1, <3>1 DEF RingOf
  <2>. QED  BY <2>1 DEF Heads
<1>16. /\ st \in Stashes
       /\ \A x \in Heads : st.next[x] = mem.next[x] /\ st.prev[x] = mem.prev[x]
    BY <1>15 DEF Stashes
<1>. HIDE DEF st
<1>17. /\ b.next = [x \in Nodes |-> IF x \in Heads THEN st.next[x] ELSE r.next[x]]
       /\ b.prev = [x \in Nodes |-> IF x \in Heads THEN st.prev[x] ELSE r.prev[x]]
    BY <1>14, <1>16, BackFields
<1>. HIDE DEF b
<1>18. ASSUME NEW l \in Lists
       PROVE  RingOf(b.next, b.prev, l, on[l]) /\ Members(b, l) = on[l]
  <2>1. ASSUME NEW x \in on[l] PROVE b.next[x] = mem.next[x] /\ b.prev[x] = mem.prev[x]
    <3>1. x \in Slots /\ x \in Nodes /\ x \notin Heads /\ x \in A
      BY <1>1, <1>2, <1>3
    <3>2. b.next[x] = r.next[x] /\ b.prev[x] = r.prev[x]
      BY <1>17, <3>1
    <3>3. r.next[x] = z.next[x] /\ r.prev[x] = z.prev[x]
      BY <1>13, <3>1 DEF Keeps
    <3>. QED  BY <1>6, <1>7, <3>1, <3>2, <3>3
  <2>2. ListHead(l) \in Heads /\ ListHead(l) \in Nodes
    BY <1>3, Pointers
  <2>3. \A x \in on[l] \cup {ListHead(l)} : b.next[x] = mem.next[x] /\ b.prev[x] = mem.prev[x]
    BY <1>16, <1>17, <2>1, <2>2
  <2>4. RingOf(b.next, b.prev, l, on[l])
    BY <1>1, <2>3, RingAgrees
  <2>. QED  BY <2>4, WalkOfRing
<1>19. AllMembers(b) = A
  <2>1. \A x : x \in AllMembers(b) <=> \E l \in Lists : x \in on[l]
    BY <1>18 DEF AllMembers
  <2>. QED  BY <1>2, <2>1
<1>20. PutAway(r, st)
  <2>1. /\ \A l \in Lists : RingOf(b.next, b.prev, l, Members(b, l))
        /\ \A k, l \in Lists : k # l => Members(b, k) \cap Members(b, l) = {}
    BY <1>1, <1>18
  <2>. QED  BY <2>1 DEF PutAway, b
<1>. QED  BY <1>13, <1>16, <1>19, <1>20 DEF r, z, nx, pv, st, b

\* sub_0805E974 brings the heads back when the subtask's own lists are empty.
LEMMA FadeOutSound ==
    ASSUME NEW mem, NEW st \in Stashes, PutAway(mem, st),
           Sound(mem, Empty, AllMembers(Back(mem, st)))
    PROVE  LET r == Back(mem, st)
           IN  Sound(r, [l \in Lists |-> Members(r, l)], {})
<1>. DEFINE r == Back(mem, st)
            on == [l \in Lists |-> Members(r, l)]
            A == AllMembers(r)
<1>1. mem \in Memories /\ A \in SUBSET Slots /\ CountsFit(mem)
    BY DEF Sound
<1>2. /\ r \in Memories
      /\ r.next = [x \in Nodes |-> IF x \in Heads THEN st.next[x] ELSE mem.next[x]]
      /\ r.prev = [x \in Nodes |-> IF x \in Heads THEN st.prev[x] ELSE mem.prev[x]]
      /\ r.kind = mem.kind
      /\ r.gEntCount = mem.gEntCount /\ r.gManagerCount = mem.gManagerCount
    BY <1>1, BackFields
<1>3. /\ \A l \in Lists : RingOf(r.next, r.prev, l, Members(r, l))
      /\ \A k, l \in Lists : k # l => Members(r, k) \cap Members(r, l) = {}
    BY DEF PutAway
<1>4. \A x : x \in A <=> \E l \in Lists : x \in Members(r, l)
    BY DEF AllMembers
<1>5. \A x \in Slots : SlotFits(mem, Empty, A, x)
    BY DEF Sound
<1>. HIDE DEF r, A
<1>6. on \in [Lists -> SUBSET Slots] /\ (\A l \in Lists : on[l] = Members(r, l))
    BY <1>3 DEF RingOf
<1>. HIDE DEF on
<1>7. \A x \in Slots : r.next[x] = mem.next[x] /\ r.prev[x] = mem.prev[x] /\ r.kind[x] = mem.kind[x]
    BY <1>2, Pointers DEF Nodes
<1>8. ASSUME NEW x \in Slots PROVE SlotFits(r, on, {}, x)
  <2>1. x \in A <=> \E l \in Lists : x \in on[l]
    BY <1>4, <1>6
  <2>2. SlotFits(mem, Empty, A, x)
    BY <1>5
  <2>. QED  BY <1>7, <2>1, <2>2 DEF SlotFits, KindFits, Empty
<1>9. CountsFit(r)
  <2>1. Free(r) = Free(mem)
    BY <1>7 DEF Free
  <2>. QED  BY <1>1, <1>2, <2>1 DEF CountsFit
<1>10. Sound(r, on, {})
    BY <1>2, <1>3, <1>6, <1>8, <1>9 DEF Sound
<1>. QED  BY <1>10 DEF r, on

\* A walk of any memory, broken or not, meets slots only.
LEMMA MembersAreSlots ==
    ASSUME NEW mem
    PROVE  AllMembers(mem) \in SUBSET Slots
<1>1. ASSUME NEW l \in Lists PROVE Members(mem, l) \subseteq Slots
  <2>1. PICK met \in [0 .. Cardinality(Slots) -> Seq(Slots)] :
            /\ Order(mem, l) = met[Cardinality(Slots)]
            /\ met[0] = <<>>
            /\ \A n \in 1 .. Cardinality(Slots) : met[n] = Met(mem.next, l, met[n - 1])
    BY OrderRecursion
  <2>2. Cardinality(Slots) \in Nat
    BY Pointers
  <2>3. Order(mem, l) \in Seq(Slots)
    BY <2>1, <2>2
  <2>. QED  BY <2>3 DEF Members
<1>. QED  BY <1>1 DEF AllMembers

\* After the portal cutscene the heads that come back lead into cleared
\* pools: what is deleted there was free already.
LEMMA PortalLeft ==
    ASSUME NEW mem \in Memories, AllFree(mem), NEW st \in Stashes
    PROVE  LET r == DeleteAllEntities(Back(mem, st))
           IN  r \in Memories /\ AllFree(r)
<1>. DEFINE b == Back(mem, st)
            D == AllMembers(b)
            r == ClearAllDeletedEntities(b)
<1>1. /\ b \in Memories
      /\ b.next = [x \in Nodes |-> IF x \in Heads THEN st.next[x] ELSE mem.next[x]]
      /\ b.prev = [x \in Nodes |-> IF x \in Heads THEN st.prev[x] ELSE mem.prev[x]]
      /\ b.gEntCount = mem.gEntCount /\ b.gManagerCount = mem.gManagerCount
    BY BackFields
<1>. HIDE DEF b
<1>2. AllFree(b)
  <2>1. \A x \in Slots : x \in Nodes /\ x \notin Heads
    BY Pointers DEF Nodes
  <2>. QED  BY <1>1, <2>1 DEF AllFree
<1>3. D \in SUBSET Slots
    BY MembersAreSlots
<1>. HIDE DEF D
<1>4. DeleteWhere(b, D) = b
    BY <1>2, <1>3, DeleteWhereNothing DEF AllFree
<1>5. Deleted(b) = {}
    BY <1>2, Pointers DEF AllFree, Deleted
<1>6. r = ClearDeletedEntities(b, {})
    BY <1>5 DEF ClearAllDeletedEntities
<1>7. b.gEntCount - Cardinality({}) \in 0 .. NAux + NEnts /\ b.gEntCount - Cardinality({}) = 0
    BY <1>2, FS_EmptySet, EntityAssumption DEF AllFree
<1>8. {} \in SUBSET Slots
    OBVIOUS
<1>. HIDE DEF r
<1>9. /\ r \in Memories
      /\ r.next = [x \in Nodes |-> IF x \in {} THEN Null ELSE b.next[x]]
      /\ r.prev = [x \in Nodes |-> IF x \in {} THEN Null ELSE b.prev[x]]
      /\ r.gEntCount = b.gEntCount - Cardinality({})
      /\ r.gManagerCount = b.gManagerCount
    BY <1>1, <1>6, <1>7, <1>8, ClearFields
<1>10. AllFree(r)
  <2>1. \A x \in Slots : x \in Nodes
    BY DEF Nodes
  <2>. QED  BY <1>2, <1>7, <1>9, <2>1 DEF AllFree
<1>. QED  BY <1>4, <1>9, <1>10 DEF DeleteAllEntities, b, D, r

-----------------------------------------------------------------------------
(* Between two passes: rooms and subtasks keep the invariant.              *)

\* Between two passes only the pools and the stash can go wrong.
LEMMA OutsideFits ==
    ASSUME IInv, pc = "idle", UNCHANGED <<build, walk, calls>>,
           task' \in {"main", "subtask", "portal", "init"},
           (stash' = <<>>) <=> (task' \in {"main", "init"}),
           m' \in Memories, PoolsFit'
    PROVE  IInv'
<1>1. UNCHANGED <<pc, mode, list, entity, next, due>>
    BY DEF walk
<1>2. WalkFits'
    BY <1>1 DEF IInv, WalkFits
<1>3. TypeOK'
    BY <1>1 DEF IInv, TypeOK
<1>. QED  BY <1>2, <1>3 DEF IInv

\* An operation on the lists in game.
LEMMA InGameFits ==
    ASSUME IInv, InGame, NEW mem, Outside(mem),
           NEW on2, Sound(mem, on2, Away),
           \A x \in Away : mem.next[x] = m.next[x] /\ mem.prev[x] = m.prev[x]
    PROVE  IInv'
<1>1. /\ pc = "idle" /\ m' = mem /\ UNCHANGED <<build, walk, calls>>
      /\ task # "init" /\ task' = task /\ stash' = stash
    BY DEF InGame, Outside
<1>2. PoolsFit'
    BY <1>1, PoolsKept DEF IInv
<1>3. m' \in Memories
    BY <1>1 DEF Sound
<1>4. task' \in {"main", "subtask", "portal", "init"} /\ ((stash' = <<>>) <=> (task' \in {"main", "init"}))
    BY <1>1 DEF IInv, TypeOK
<1>. QED  BY <1>1, <1>2, <1>3, <1>4, OutsideFits

\* A room loads an enemy.
LEMMA LoadRoomFits ==
    ASSUME IInv, LoadRoom
    PROVE  IInv'
<1>1. PICK l \in EntityHomes : Outside(Enter(GetEmptyEntity(m), "enemy", {}, l))
    BY DEF LoadRoom
<1>. DEFINE mem == Enter(GetEmptyEntity(m), "enemy", {}, l)
<1>2. InGame /\ task # "init" /\ l \in Lists /\ "enemy" \in {"entity", "enemy"} /\ {} \in SUBSET Flags
    BY WalkAssumption DEF LoadRoom, InGame
<1>3. Sound(m, On, Away)
    BY <1>2, InGameFacts
<1>4. \E on2 : Sound(mem, on2, Away) /\ Keeps(m, On, mem, on2, Away, Slots)
    BY <1>2, <1>3, EntityEnters
<1>5. Outside(mem)
    BY <1>1
<1>. HIDE DEF mem
<1>. QED  BY <1>2, <1>4, <1>5, InGameFits DEF Keeps

\* A change of rooms sends to sleep what does not persist.
LEMMA ChangeRoomFits ==
    ASSUME IInv, ChangeRoom
    PROVE  IInv'
<1>. DEFINE mem == RecycleEntities(m)
<1>1. InGame /\ Outside(mem) /\ task # "init"
    BY DEF ChangeRoom, InGame
<1>2. Sound(m, On, Away)
    BY <1>1, InGameFacts
<1>3. Sound(mem, On, Away) /\ mem.next = m.next /\ mem.prev = m.prev
    BY <1>2, RecycleSound
<1>. HIDE DEF mem
<1>. QED  BY <1>1, <1>3, InGameFits

\* The sleepers are deleted when the scroll is over.
LEMMA ScrollDoneFits ==
    ASSUME IInv, ScrollDone
    PROVE  IInv'
<1>. DEFINE mem == DeleteSleepingEntities(m)
<1>1. InGame /\ Outside(mem) /\ task # "init"
    BY DEF ScrollDone, InGame
<1>2. Sound(m, On, Away)
    BY <1>1, InGameFacts
<1>3. \E on2 : Sound(mem, on2, Away) /\ Keeps(m, On, mem, on2, Away, Slots)
    BY <1>2, DeleteSleepingSound
<1>. HIDE DEF mem
<1>. QED  BY <1>1, <1>3, InGameFits DEF Keeps

\* GameTask_Init clears everything.
LEMMA EraseFits ==
    ASSUME IInv, Erase
    PROVE  IInv'
<1>1. /\ pc = "idle" /\ m' = EraseAllEntities(m) /\ UNCHANGED <<build, walk, calls>>
      /\ task \in {"main", "init"} /\ task' = "main" /\ stash' = stash
    BY DEF Erase, Outside
<1>2. m \in Memories /\ stash = <<>>
    BY <1>1 DEF IInv, TypeOK
<1>3. Sound(m', Empty, {})
    BY <1>1, <1>2, EraseSound
<1>4. On' = Empty /\ Away' = {} /\ m' \in Memories
    BY <1>1, <1>3, SoundMembers DEF On, Away, Sound
<1>5. PoolsFit'
    BY <1>1, <1>3, <1>4 DEF PoolsFit
<1>. QED  BY <1>1, <1>2, <1>4, <1>5, OutsideFits

\* A subtask puts the lists away.
LEMMA SubtaskFadeInFits ==
    ASSUME IInv, SubtaskFadeIn
    PROVE  IInv'
<1>1. /\ pc = "idle" /\ UNCHANGED <<build, walk, calls>>
      /\ task = "main" /\ task' = "subtask"
      /\ stash' = [next |-> [x \in Heads |-> m.next[x]], prev |-> [x \in Heads |-> m.prev[x]]]
      /\ m' = DeleteAllEntities(
                  [m EXCEPT !.next = [x \in Nodes |-> IF x \in Heads THEN x ELSE @[x]],
                            !.prev = [x \in Nodes |-> IF x \in Heads THEN x ELSE @[x]]])
    BY DEF SubtaskFadeIn, Outside
<1>2. Sound(m, On, {})
  <2>1. Away = {}
    BY <1>1 DEF Away
  <2>. QED  BY <1>1, <2>1, InGameFacts
<1>3. /\ stash' \in Stashes /\ PutAway(m', stash')
      /\ Sound(m', Empty, AllMembers(Back(m', stash')))
    BY <1>1, <1>2, FadeInSound
<1>4. On' = Empty /\ m' \in Memories
    BY <1>3, SoundMembers DEF On, Sound
<1>5. Away' = AllMembers(Back(m', stash'))
    BY <1>1 DEF Away
<1>6. stash' # <<>>
    BY <1>3, StashNotEmpty
<1>7. PoolsFit'
    BY <1>1, <1>3, <1>4, <1>5 DEF PoolsFit
<1>. QED  BY <1>1, <1>4, <1>6, <1>7, OutsideFits

\* The memory when the lists in use have been deleted.
LEMMA AllDeleted ==
    ASSUME IInv, task # "init"
    PROVE  LET d == DeleteAllEntities(m) IN
           /\ Sound(d, Empty, Away) /\ Deleted(d) = {} /\ d \in Memories
           /\ \A x \in Away : d.next[x] = m.next[x] /\ d.prev[x] = m.prev[x]
<1>. DEFINE d == DeleteAllEntities(m)
<1>1. Sound(m, On, Away)
    BY InGameFacts
<1>2. Sound(d, Empty, Away) /\ Keeps(m, On, d, Empty, Away, Slots) /\ Deleted(d) = {}
    BY <1>1, DeleteAllSound
<1>. HIDE DEF d
<1>3. d \in Memories
    BY <1>2 DEF Sound
<1>. QED  BY <1>2, <1>3 DEF Keeps, d

\* A subtask's lists deleted and those of the game back.
LEMMA AllBack ==
    ASSUME IInv, task = "subtask"
    PROVE  LET r == Back(DeleteAllEntities(m), stash)
           IN  Sound(r, [l \in Lists |-> Members(r, l)], {})
<1>. DEFINE d == DeleteAllEntities(m)
<1>1. /\ Sound(d, Empty, Away) /\ d \in Memories
      /\ \A x \in Away : d.next[x] = m.next[x] /\ d.prev[x] = m.prev[x]
    BY AllDeleted
<1>. HIDE DEF d
<1>2. /\ m \in Memories /\ stash \in Stashes /\ PutAway(m, stash)
      /\ Away = AllMembers(Back(m, stash))
    BY DEF IInv, PoolsFit, TypeOK, Away
<1>3. AllMembers(Back(d, stash)) = Away /\ PutAway(d, stash)
    BY <1>1, <1>2, BackAgrees
<1>4. Sound(d, Empty, AllMembers(Back(d, stash)))
    BY <1>1, <1>3
<1>. QED  BY <1>2, <1>3, <1>4, FadeOutSound DEF d

\* A subtask's room is left.
LEMMA CutsceneRoomFits ==
    ASSUME IInv, CutsceneRoom
    PROVE  IInv'
<1>. DEFINE mem == DeleteAllEntities(m)
<1>1. InGame /\ Outside(mem) /\ task # "init"
    BY DEF CutsceneRoom, InGame
<1>2. Sound(mem, Empty, Away) /\ \A x \in Away : mem.next[x] = m.next[x] /\ mem.prev[x] = m.prev[x]
    BY <1>1, AllDeleted
<1>. HIDE DEF mem
<1>. QED  BY <1>1, <1>2, InGameFits

\* The portal cutscene clears the pools under the stash.
LEMMA PortalCutsceneFits ==
    ASSUME IInv, PortalCutscene
    PROVE  IInv'
<1>1. /\ pc = "idle" /\ m' = EraseAllEntities(m) /\ UNCHANGED <<build, walk, calls>>
      /\ task = "subtask" /\ task' = "portal" /\ stash' = stash
    BY DEF PortalCutscene, Outside
<1>2. m \in Memories /\ stash # <<>> /\ stash \in Stashes
    BY <1>1 DEF IInv, TypeOK, PoolsFit
<1>3. Sound(m', Empty, {})
    BY <1>1, <1>2, EraseSound
<1>4. On' = Empty /\ Away' = {} /\ m' \in Memories
    BY <1>1, <1>3, SoundMembers DEF On, Away, Sound
<1>5. PoolsFit'
    BY <1>1, <1>2, <1>3, <1>4 DEF PoolsFit
<1>. QED  BY <1>1, <1>2, <1>4, <1>5, OutsideFits

\* A subtask ends and the lists come back.
LEMMA SubtaskFadeOutFits ==
    ASSUME IInv, SubtaskFadeOut
    PROVE  IInv'
<1>1. /\ pc = "idle" /\ m' = Back(DeleteAllEntities(m), stash) /\ UNCHANGED <<build, walk, calls>>
      /\ task = "subtask" /\ task' = "main" /\ stash' = <<>>
    BY DEF SubtaskFadeOut, Outside, Restored, Back
<1>2. Sound(m', [l \in Lists |-> Members(m', l)], {})
    BY <1>1, AllBack
<1>3. Away' = {} /\ m' \in Memories
    BY <1>1, <1>2 DEF Away, Sound
<1>4. PoolsFit'
    BY <1>1, <1>2, <1>3 DEF PoolsFit, On
<1>. QED  BY <1>1, <1>3, <1>4, OutsideFits

\* A subtask leaves the game: the lists come back and are deleted.
LEMMA SubtaskLeaveFits ==
    ASSUME IInv, SubtaskLeave
    PROVE  IInv'
<1>. DEFINE d == DeleteAllEntities(m)
            b == Back(d, stash)
<1>1. /\ pc = "idle" /\ m' = DeleteAllEntities(b) /\ UNCHANGED <<build, walk, calls>>
      /\ task \in {"subtask", "portal"} /\ task' = "init" /\ stash' = <<>>
    BY DEF SubtaskLeave, Outside, Restored, Back
<1>2. m' \in Memories /\ AllFree(m')
  <2>1. CASE task = "subtask"
    <3>1. Sound(b, [l \in Lists |-> Members(b, l)], {})
      BY <2>1, AllBack
    <3>. HIDE DEF b
    <3>2. Sound(m', Empty, {}) /\ Deleted(m') = {}
      BY <1>1, <3>1, DeleteAllSound
    <3>. QED  BY <3>2, EmptyAllFree DEF Sound
  <2>2. CASE task = "portal"
    <3>1. Away = {} /\ stash \in Stashes
      BY <2>2 DEF Away, IInv, PoolsFit
    <3>2. Sound(d, Empty, {}) /\ Deleted(d) = {} /\ d \in Memories
      BY <2>2, <3>1, AllDeleted
    <3>. HIDE DEF d
    <3>3. AllFree(d)
      BY <3>2, EmptyAllFree
    <3>. QED  BY <1>1, <3>1, <3>2, <3>3, PortalLeft
  <2>. QED  BY <1>1, <2>1, <2>2
<1>3. PoolsFit'
    BY <1>1, <1>2 DEF PoolsFit, walk
<1>. QED  BY <1>1, <1>2, <1>3, OutsideFits

-----------------------------------------------------------------------------
(* The theorems.                                                           *)

\* Stuttering keeps the invariant.
LEMMA StutterFits ==
    ASSUME IInv, UNCHANGED vars
    PROVE  IInv'
<1>1. UNCHANGED <<m, build, task, stash, pc, mode, list, entity, next, due, calls>>
    BY DEF vars, walk
<1>2. On' = On /\ Away' = Away
    BY <1>1 DEF On, Away
<1>3. PoolsFit'
    BY <1>1, <1>2 DEF IInv, PoolsFit
<1>4. WalkFits'
    BY <1>1, <1>2 DEF IInv, WalkFits
<1>5. TypeOK'
    BY <1>1 DEF IInv, TypeOK
<1>. QED  BY <1>3, <1>4, <1>5 DEF IInv

\* The memory is sound in every state that a game can reach, whichever walk
\* runs it, and so is the place of the walk in it.
THEOREM InvariantHolds == Spec => []IInv
<1>1. Init => IInv
    BY InitFits
<1>2. IInv /\ [Next]_vars => IInv'
  <2>. SUFFICES ASSUME IInv, [Next]_vars PROVE IInv'
    OBVIOUS
  <2>1. CASE StartUpdate
    BY <2>1, StartUpdateFits
  <2>2. CASE Walk
    BY <2>2, NextListFits, FinishUpdateFits, LeaveListFits, BeginUpdateFits, MeetClearedSlotFits,
       EndUpdateFits, DeleteThisEntityFits DEF Walk
  <2>3. CASE CreateEntity \/ CreateLinkAnimation \/ CreateManager
    BY <2>3, CreateEntityFits, CreateLinkAnimationFits, CreateManagerFits
  <2>4. CASE Delete \/ MoveToFront \/ KillEnemies
    BY <2>4, DeleteFits, MoveToFrontFits, KillEnemiesFits
  <2>5. CASE LoadRoom \/ ChangeRoom \/ ScrollDone \/ Erase
    BY <2>5, LoadRoomFits, ChangeRoomFits, ScrollDoneFits, EraseFits
  <2>6. CASE SubtaskFadeIn \/ CutsceneRoom \/ PortalCutscene
    BY <2>6, SubtaskFadeInFits, CutsceneRoomFits, PortalCutsceneFits
  <2>7. CASE SubtaskFadeOut \/ SubtaskLeave
    BY <2>7, SubtaskFadeOutFits, SubtaskLeaveFits
  <2>8. CASE UNCHANGED vars
    BY <2>8, StutterFits
  <2>. QED  BY <2>1, <2>2, <2>3, <2>4, <2>5, <2>6, <2>7, <2>8 DEF Next
<1>. QED  BY <1>1, <1>2, PTL DEF Spec

\* The variables keep their types: above all no counter leaves its pool's
\* range and no pointer leads outside the pools and heads.
THEOREM TypeCorrect == Spec => []TypeOK
<1>1. IInv => TypeOK
    BY DEF IInv
<1>. QED  BY <1>1, InvariantHolds, PTL

\* gEntCount and gManagerCount count the slots that are not free, whatever is
\* created, deleted, put away or erased, for every size of the pools.
THEOREM CountsAreExact == Spec => []CountsExact
<1>1. ASSUME IInv PROVE CountsExact
  <2>1. CASE task = "init"
    <3>1. AllFree(m)
      BY <1>1, <2>1 DEF IInv, PoolsFit
    <3>2. EntitySlots \ Free(m) = {} /\ Managers \ Free(m) = {}
      BY <3>1, Pointers DEF AllFree, Free
    <3>. QED  BY <3>1, <3>2, FS_EmptySet DEF CountsExact, AllFree
  <2>2. CASE task # "init"
    BY <1>1, <2>2, InGameFacts DEF Sound, CountsFit, CountsExact
  <2>. QED  BY <2>1, <2>2
<1>2. IInv => CountsExact
    BY <1>1
<1>. QED  BY <1>2, InvariantHolds, PTL

\* Whatever is created, deleted, moved or put away, every list is a ring, no
\* slot is on two of them, and the slots with a successor are those on the
\* lists, in use or put away.
THEOREM RingsStay == Spec => []ListsAreRings
<1>1. ASSUME NEW mem \in Memories,
             \A l \in Lists : RingOf(mem.next, mem.prev, l, Members(mem, l)),
             \A k, l \in Lists : k # l => Members(mem, k) \cap Members(mem, l) = {}
      PROVE  Rings(mem)
  <2>1. ASSUME NEW l \in Lists PROVE Ring(mem, l)
    <3>. DEFINE S == Members(mem, l)
    <3>1. RingOf(mem.next, mem.prev, l, S)
      BY <1>1
    <3>. HIDE DEF S
    <3>2. S \cup {ListHead(l)} \subseteq Nodes
      <4>1. S \subseteq Slots
        BY <3>1 DEF RingOf
      <4>2. ListHead(l) \in Heads
        BY Pointers
      <4>. QED  BY <4>1, <4>2 DEF Nodes
    <3>3. \A x \in S \cup {ListHead(l)} :
              /\ mem.next[x] \in Nodes /\ mem.prev[mem.next[x]] = x
              /\ mem.prev[x] \in Nodes /\ mem.next[mem.prev[x]] = x
      BY <3>1, <3>2 DEF RingOf
    <3>. QED  BY <3>3 DEF Ring, S
  <2>. QED  BY <1>1, <2>1 DEF Rings
<1>2. ASSUME IInv, task # "init" PROVE Rings(m)
  <2>1. Sound(m, On, Away) /\ m \in Memories
    BY <1>2, InGameFacts
  <2>2. \A l \in Lists : On[l] = Members(m, l)
    BY DEF On
  <2>3. /\ \A l \in Lists : RingOf(m.next, m.prev, l, Members(m, l))
        /\ \A k, l \in Lists : k # l => Members(m, k) \cap Members(m, l) = {}
    BY <2>1, <2>2 DEF Sound
  <2>. QED  BY <1>1, <2>1, <2>3
<1>3. ASSUME IInv, task = "subtask" PROVE Rings(Restored(m))
  <2>. DEFINE b == Back(m, stash)
  <2>1. m \in Memories /\ stash \in Stashes /\ PutAway(m, stash)
    BY <1>3 DEF IInv, TypeOK, PoolsFit
  <2>2. b \in Memories
    BY <2>1, BackFields
  <2>3. /\ \A l \in Lists : RingOf(b.next, b.prev, l, Members(b, l))
        /\ \A k, l \in Lists : k # l => Members(b, k) \cap Members(b, l) = {}
    BY <2>1 DEF PutAway
  <2>. HIDE DEF b
  <2>4. Rings(b)
    BY <1>1, <2>2, <2>3
  <2>. QED  BY <2>4, RestoredBack DEF b
<1>4. ASSUME IInv, task # "init" PROVE Linked(m) = AllMembers(m) \cup Away
  <2>1. Sound(m, On, Away)
    BY <1>4, InGameFacts
  <2>2. Away \in SUBSET Slots
    BY <2>1 DEF Sound
  <2>3. /\ \A x : x \in AllMembers(m) <=> \E l \in Lists : x \in On[l]
        /\ AllMembers(m) \in SUBSET Slots
    BY <2>1, SoundMembers
  <2>4. \A x \in Slots : x \in Away \/ (\E l \in Lists : x \in On[l]) <=> m.next[x] # Null
    BY <2>1, SoundSlots
  <2>. QED  BY <2>2, <2>3, <2>4 DEF Linked
<1>5. Away = IF task = "subtask" THEN AllMembers(Restored(m)) ELSE {}
    BY RestoredBack DEF Away
<1>6. IInv => ListsAreRings
    BY <1>2, <1>3, <1>4, <1>5 DEF ListsAreRings
<1>. QED  BY <1>6, InvariantHolds, PTL

\* The assembly's walk, when it is back at a head, has updated everyone who
\* was on the list when it began and stayed on it, whatever the updates did.
THEOREM AsmWalkUpdatesEveryone == Spec => []AsmUpdatesEveryone
<1>1. ASSUME IInv PROVE AsmUpdatesEveryone
  <2>1. SUFFICES ASSUME build = "gba", pc = "walk", AtEnd PROVE due = {}
    BY DEF AsmUpdatesEveryone, EveryoneIsUpdated
  <2>2. entity = ListHead(list) /\ list \in Lists /\ task # "init"
    BY <1>1, <2>1 DEF AtEnd, IInv, TypeOK, WalkFits
  <2>. DEFINE S == Members(m, list)
  <2>3. due \subseteq S /\ Reached(m.next, m.prev, list, S, due, ListHead(list))
    BY <1>1, <2>1, <2>2 DEF IInv, WalkFits
  <2>4. RingOf(m.next, m.prev, list, S)
    BY <1>1, <2>2, InGameFacts
  <2>. HIDE DEF S
  <2>. QED  BY <2>2, <2>3, <2>4, ReachedEnd
<1>2. IInv => AsmUpdatesEveryone
    BY <1>1
<1>. QED  BY <1>2, InvariantHolds, PTL
=============================================================================
