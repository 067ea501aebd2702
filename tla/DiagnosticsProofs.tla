------------------------- MODULE DiagnosticsProofs -------------------------
(***************************************************************************)
(* Proofs about Diagnostics: whatever the two readers and the writer of    *)
(* the ring do in between, an event is reported whole, and none is missing *)
(* that its successors have not overwritten.                               *)
(***************************************************************************)
EXTENDS Diagnostics, TLAPS

USE SizesAssumption

-----------------------------------------------------------------------------
(* The inductive invariant, beyond TypeOK.                                 *)

\* The writer is within its bound.
Bounded == store # 0 => sSequence < MaxSequence

\* An entry that bears a number holds that event, and only.
Whole ==
    \A k \in 0 .. TraceCount - 1 :
        sTrace[k].sequence # 0 =>
            /\ sTrace[k].sequence <= sSequence + 1
            /\ sTrace[k].sequence = sSequence + 1 => store = NFields + 2
            /\ \A f \in Fields : sTrace[k].data[f] = sTrace[k].sequence

\* The entry being written bears none, until the last store.
Marked ==
    LET t == sTrace[Slot(sSequence + 1)] IN
    /\ store \in 1 .. NFields + 1 =>
         t.sequence = 0 /\ \A f \in Fields : f < store => t.data[f] = sSequence + 1
    /\ store = NFields + 2 => t.sequence = sSequence + 1

\* The last events are all there, but for the one whose entry was taken.
Kept ==
    \A q \in 1 .. sSequence : q + TraceCount > Started => sTrace[Slot(q)].sequence = q

\* A reader looks for events that were complete when it began; as long as the
\* entry bears the event's number, what was read of it is of that event.
Reading(r) ==
    /\ reader[r].end <= sSequence
    /\ reader[r].pc \in {"check", "fields"} => reader[r].seq >= 1
    /\ reader[r].pc = "fields" =>
         /\ reader[r].seq <= reader[r].end
         /\ sTrace[Slot(reader[r].seq)].sequence = reader[r].seq =>
              \A f \in Fields : f < reader[r].field => reader[r].got[f] = reader[r].seq

\* What it passed is in the report or overwritten.
Passed(r) ==
    /\ reader[r].pc = "write" => reader[r].seq > reader[r].end
    /\ reader[r].pc \in {"check", "fields", "write"} =>
         \A q \in 1 .. reader[r].end :
             q < reader[r].seq /\ q + TraceCount > Started => \E e \in report[r] : e.seq = q

\* The report is written when it is put together.
DogWaits == dog.pc \in {"sampled", "write"} => reader["watchdog"].pc = "write"

IInv ==
    /\ Bounded /\ Whole /\ Marked /\ Kept
    /\ \A r \in Readers : Reading(r) /\ Passed(r)
    /\ NoTornEvent

\* TypeOK in three parts.
RingType ==
    /\ sTrace \in [0 .. TraceCount - 1 -> [sequence : Seqs, data : [Fields -> Seqs]]]
    /\ sSequence \in Seqs /\ store \in 0 .. NFields + 2

SnapType ==
    /\ reader \in [Readers -> [pc : {"off", "end", "check", "fields", "write", "done"},
                               end : Seqs, seq : 0 .. MaxSequence + 1,
                               field : 1 .. NFields + 1, got : [Fields -> Seqs]]]
    /\ report \in [Readers -> SUBSET [seq : Seqs, data : [Fields -> Seqs]]]

RestType ==
    /\ sFrame \in 0 .. MaxFrame /\ sPaused \in BOOLEAN /\ sStopping \in BOOLEAN
    /\ sInCrash \in Threads \cup {"clear"}
    /\ dog \in [pc : {"loop", "frame", "paused", "report", "sampled", "write", "gone"},
                frame : 0 .. MaxFrame, last : 0 .. MaxFrame,
                missed : 0 .. Samples, reported : BOOLEAN]
    /\ game \in {"status", "run", "applet", "resumed", "exit", "closed"}
    /\ held \in BOOLEAN /\ up \in BOOLEAN
    /\ calm \in [now : 0 .. Samples + 1, then : 0 .. Samples + 1]

LEMMA TypeParts == TypeOK <=> RingType /\ SnapType /\ RestType
BY DEF TypeOK, RingType, SnapType, RestType

LEMMA SlotType == \A q \in Nat : Slot(q) \in 0 .. TraceCount - 1
BY DEF Slot

LEMMA Division ==
    ASSUME NEW n \in Int, n > 0, NEW p \in Int,
           NEW a \in Int, a = p \div n, NEW x \in Int, x = p % n
    PROVE  p = n * a + x
BY Z3

LEMMA SlotApart ==
    ASSUME NEW p \in Nat, NEW q \in Nat, p < q, q < p + TraceCount
    PROVE  Slot(p) # Slot(q)
<1> DEFINE a == p \div TraceCount
           b == q \div TraceCount
           d == b - a
<1>1. a \in Int /\ b \in Int /\ Slot(p) \in Int /\ Slot(q) \in Int
  BY SlotType
<1>2. p = TraceCount * a + Slot(p) /\ q = TraceCount * b + Slot(q)
  BY <1>1, Division DEF Slot
<1> SUFFICES ASSUME Slot(p) = Slot(q) PROVE FALSE
  OBVIOUS
<1> HIDE DEF a, b
<1>3. d \in Int /\ q - p = TraceCount * d
  BY <1>1, <1>2
<1> HIDE DEF d
<1>4. CASE d <= 0
  <2>1. TraceCount * d <= 0
    BY <1>3, <1>4
  <2> QED BY <1>3, <2>1
<1>5. CASE d >= 1
  <2>1. TraceCount * d >= TraceCount
    BY <1>3, <1>5
  <2> QED BY <1>3, <2>1
<1> QED BY <1>3, <1>4, <1>5

-----------------------------------------------------------------------------
(* Init, and the steps that leave ring and readers alone.                  *)

Types == RingType /\ SnapType
Good == Types /\ IInv

LEMMA Zeros == NoData \in [Fields -> Seqs] /\ \A f \in Fields : NoData[f] = 0
BY DEF NoData, Seqs

Fresh ==
    /\ sTrace = Empty /\ sSequence = 0 /\ store = 0
    /\ reader = NoReader /\ report = NoReport

LEMMA StartGood == Fresh => Good
<1> SUFFICES ASSUME Fresh PROVE Good
  OBVIOUS
<1> USE DEF Fresh
<1>1. \A k \in 0 .. TraceCount - 1 : sTrace[k] = [sequence |-> 0, data |-> NoData]
  BY DEF Empty
<1>2. \A r \in Readers : /\ reader[r] = [pc |-> "off", end |-> 0, seq |-> 0, field |-> 1, got |-> NoData]
                         /\ report[r] = {}
  BY DEF Reader, NoReader, NoReport
<1>3. RingType
  BY <1>1, Zeros DEF RingType, Seqs, Empty
<1>4. SnapType
  <2>1. reader \in [Readers -> [pc : {"off", "end", "check", "fields", "write", "done"},
                               end : Seqs, seq : 0 .. MaxSequence + 1,
                               field : 1 .. NFields + 1, got : [Fields -> Seqs]]]
    BY Zeros DEF Reader, NoReader, Seqs
  <2> QED BY <2>1 DEF SnapType, NoReport
<1>5. Bounded /\ Whole /\ Marked /\ Kept
  BY <1>1 DEF Bounded, Whole, Marked, Kept
<1>6. ASSUME NEW r \in Readers PROVE Reading(r) /\ Passed(r)
  BY <1>2 DEF Reading, Passed
<1>7. NoTornEvent
  BY <1>2 DEF NoTornEvent
<1> QED BY <1>3, <1>4, <1>5, <1>6, <1>7 DEF Good, Types, IInv

LEMMA RestGood ==
    ASSUME Good, UNCHANGED <<ring, snap>>
    PROVE  Good'
<1>1. /\ sTrace' = sTrace /\ sSequence' = sSequence /\ store' = store
      /\ reader' = reader /\ report' = report
  BY DEF ring, snap
<1>2. Types'
  BY <1>1 DEF Good, Types, RingType, SnapType
<1>3. (Bounded /\ Whole /\ Marked /\ Kept)'
  BY <1>1 DEF Good, IInv, Bounded, Whole, Marked, Kept, Started
<1>4. ASSUME NEW r \in Readers PROVE Reading(r)' /\ Passed(r)'
  BY <1>1 DEF Good, IInv, Reading, Passed, Started
<1>5. NoTornEvent'
  BY <1>1 DEF Good, IInv, NoTornEvent
<1> QED BY <1>2, <1>3, <1>4, <1>5 DEF Good, IInv

\* A reader begins.
LEMMA PcGood ==
    ASSUME Good, UNCHANGED <<ring, report>>, NEW x \in Readers,
           reader' = [reader EXCEPT ![x].pc = "end"]
    PROVE  Good'
<1>1. sTrace' = sTrace /\ sSequence' = sSequence /\ store' = store /\ report' = report
  BY DEF ring
<1>2. \A r \in Readers : /\ reader'[r].end = reader[r].end /\ reader'[r].seq = reader[r].seq
                         /\ reader'[r].field = reader[r].field /\ reader'[r].got = reader[r].got
                         /\ reader'[r].pc = (IF r = x THEN "end" ELSE reader[r].pc)
  BY DEF Good, Types, SnapType
<1>3. Types'
  <2>1. SnapType'
    BY <1>1 DEF Good, Types, SnapType
  <2> QED BY <1>1, <2>1 DEF Good, Types, RingType
<1>4. (Bounded /\ Whole /\ Marked /\ Kept)'
  BY <1>1 DEF Good, IInv, Bounded, Whole, Marked, Kept, Started
<1>5. ASSUME NEW r \in Readers PROVE Reading(r)' /\ Passed(r)'
  <2>1. Reading(r) /\ Passed(r)
    BY DEF Good, IInv
  <2>2. CASE r = x
    BY <1>1, <1>2, <2>1, <2>2 DEF Reading, Passed, Started
  <2>3. CASE r # x
    BY <1>1, <1>2, <2>1, <2>3 DEF Reading, Passed, Started
  <2> QED BY <2>2, <2>3
<1>6. NoTornEvent'
  BY <1>1 DEF Good, IInv, NoTornEvent
<1> QED BY <1>3, <1>4, <1>5, <1>6 DEF Good, IInv

-----------------------------------------------------------------------------
(* The writer.                                                             *)

LEMMA StartedNat ==
    /\ sSequence \in Nat => Started \in Nat
    /\ sSequence' \in Nat => Started' \in Nat
BY DEF Started

\* What the steps of an event have in common: only its own entry changes.
LEMMA WriterGood ==
    ASSUME Good, UNCHANGED snap, RingType', (Bounded /\ Whole /\ Marked)',
           sSequence' \in {sSequence, sSequence + 1}, Started' >= Started,
           \A k \in 0 .. TraceCount - 1 :
               sTrace'[k].sequence \in {sTrace[k].sequence, 0, sSequence + 1},
           \A q \in 1 .. sSequence' : q + TraceCount > Started' =>
               sTrace'[Slot(q)].sequence = q
    PROVE  Good'
<1>1. reader' = reader /\ report' = report
  BY DEF snap
<1>2. Types'
  BY <1>1 DEF Good, Types, SnapType
<1>3. Kept'
  BY DEF Kept, Slot
<1>4. ASSUME NEW r \in Readers PROVE Reading(r)'
  <2>1. /\ Reading(r) /\ reader[r].seq \in Nat /\ reader[r].end \in Nat /\ sSequence \in Nat
    BY DEF Good, IInv, Types, SnapType, RingType, Seqs
  <2>2. ASSUME reader[r].pc = "fields",
               sTrace'[Slot(reader[r].seq)].sequence = reader[r].seq
        PROVE  sTrace[Slot(reader[r].seq)].sequence = reader[r].seq
    BY <2>1, <2>2, SlotType DEF Reading
  <2> QED BY <1>1, <2>1, <2>2 DEF Reading, Slot
<1>5. ASSUME NEW r \in Readers PROVE Passed(r)'
  <2>1. Passed(r) /\ Started \in Nat /\ Started' \in Nat
    <3>1. sSequence \in Nat /\ sSequence' \in Nat
      BY DEF Good, Types, RingType, Seqs
    <3>2. Passed(r)
      BY DEF Good, IInv
    <3> QED BY <3>1, <3>2, StartedNat
  <2>2. reader[r].end \in Nat
    BY DEF Good, Types, SnapType, Seqs
  <2> QED BY <1>1, <2>1, <2>2 DEF Passed
<1>6. NoTornEvent'
  BY <1>1 DEF Good, IInv, NoTornEvent
<1> QED BY <1>2, <1>3, <1>4, <1>5, <1>6 DEF Good, IInv

LEMMA EventStartGood == ASSUME Good, EventStart PROVE Good'
<1> DEFINE q == sSequence + 1
<1>1. /\ store = 0 /\ store' = 1 /\ sSequence' = sSequence /\ UNCHANGED snap
      /\ sSequence < MaxSequence
      /\ sTrace' = [sTrace EXCEPT ![Slot(q)].sequence = 0]
  BY DEF EventStart
<1>2. /\ sSequence \in Nat /\ q \in Nat /\ Slot(q) \in 0 .. TraceCount - 1
      /\ Started = sSequence /\ Started' = q /\ Slot(q)' = Slot(q)
  BY <1>1, SlotType DEF Good, Types, RingType, Seqs, Started, Slot
<1>3. \A k \in 0 .. TraceCount - 1 :
        /\ sTrace'[k].sequence = IF k = Slot(q) THEN 0 ELSE sTrace[k].sequence
        /\ sTrace'[k].data = sTrace[k].data
  BY <1>1, <1>2 DEF Good, Types, RingType
<1>4. RingType'
  <2>1. 0 \in Seqs /\ 1 \in 0 .. NFields + 2
    BY DEF Seqs
  <2> QED BY <1>1, <1>2, <2>1 DEF Good, Types, RingType
<1>5. (Bounded /\ Whole /\ Marked)'
  <2>1. Bounded'
    BY <1>1 DEF Bounded
  <2>2. Whole'
    BY <1>1, <1>2, <1>3 DEF Good, IInv, Whole
  <2>3. Marked'
    BY <1>1, <1>2, <1>3 DEF Marked, Fields
  <2> QED BY <2>1, <2>2, <2>3
<1>6. ASSUME NEW p \in 1 .. sSequence, p + TraceCount > q
      PROVE  sTrace'[Slot(p)].sequence = p
  <2>1. Slot(p) # Slot(q) /\ Slot(p) \in 0 .. TraceCount - 1
    BY <1>2, <1>6, SlotApart, SlotType
  <2>2. sTrace[Slot(p)].sequence = p
    BY <1>2, <1>6 DEF Good, IInv, Kept
  <2> QED BY <1>3, <2>1, <2>2
<1> QED BY <1>1, <1>2, <1>3, <1>4, <1>5, <1>6, WriterGood

LEMMA StoreFieldGood == ASSUME Good, StoreField PROVE Good'
<1> DEFINE q == sSequence + 1
<1>1. /\ store \in Fields /\ store' = store + 1 /\ sSequence' = sSequence /\ UNCHANGED snap
      /\ sTrace' = [sTrace EXCEPT ![Slot(q)].data[store] = q]
  BY DEF StoreField
<1>2. /\ sSequence \in Nat /\ q \in Seqs /\ Slot(q) \in 0 .. TraceCount - 1
      /\ Started = q /\ Started' = q /\ Slot(q)' = Slot(q)
      /\ store \in 1 .. NFields
  <2>1. store \in 1 .. NFields /\ sSequence \in 0 .. MaxSequence /\ sSequence < MaxSequence
    BY <1>1 DEF Good, Types, RingType, Seqs, Fields, IInv, Bounded
  <2>2. Slot(q) \in 0 .. TraceCount - 1 /\ Slot(q)' = Slot(q)
    BY <1>1, <2>1, SlotType DEF Slot
  <2> QED BY <1>1, <2>1, <2>2 DEF Started, Seqs
<1>3. \A k \in 0 .. TraceCount - 1 :
        /\ sTrace'[k].sequence = sTrace[k].sequence
        /\ \A f \in Fields : sTrace'[k].data[f] =
             IF k = Slot(q) /\ f = store THEN q ELSE sTrace[k].data[f]
  BY <1>1, <1>2 DEF Good, Types, RingType
<1>4. RingType'
  <2>1. [sTrace[Slot(q)].data EXCEPT ![store] = q] \in [Fields -> Seqs]
    BY <1>1, <1>2 DEF Good, Types, RingType
  <2>2. sTrace' \in [0 .. TraceCount - 1 -> [sequence : Seqs, data : [Fields -> Seqs]]]
    BY <1>1, <1>2, <2>1 DEF Good, Types, RingType
  <2>3. store' \in 0 .. NFields + 2
    BY <1>1, <1>2
  <2>4. sSequence' \in Seqs
    BY <1>1 DEF Good, Types, RingType
  <2> QED BY <2>2, <2>3, <2>4, Zenon DEF RingType
<1>5. (Bounded /\ Whole /\ Marked)'
  <2>1. /\ sTrace[Slot(q)].sequence = 0 /\ \A f \in Fields : f < store => sTrace[Slot(q)].data[f] = q
    BY <1>2 DEF Good, IInv, Marked
  <2>2. Bounded'
    BY <1>1, <1>2 DEF Good, IInv, Bounded
  <2>3. Whole'
    BY <1>1, <1>2, <1>3, <2>1 DEF Good, IInv, Whole
  <2>4. Marked'
    BY <1>1, <1>2, <1>3, <2>1 DEF Marked, Fields
  <2> QED BY <2>2, <2>3, <2>4
<1>6. ASSUME NEW p \in 1 .. sSequence, p + TraceCount > q
      PROVE  sTrace'[Slot(p)].sequence = p
  BY <1>2, <1>3, <1>6, SlotType DEF Good, IInv, Kept
<1> QED BY <1>1, <1>2, <1>3, <1>4, <1>5, <1>6, WriterGood

LEMMA PublishGood == ASSUME Good, Publish PROVE Good'
<1> DEFINE q == sSequence + 1
<1>1. /\ store = NFields + 1 /\ store' = NFields + 2 /\ sSequence' = sSequence /\ UNCHANGED snap
      /\ sTrace' = [sTrace EXCEPT ![Slot(q)].sequence = q]
  BY DEF Publish
<1>2. /\ sSequence \in Nat /\ q \in Seqs /\ Slot(q) \in 0 .. TraceCount - 1
      /\ Started = q /\ Started' = q /\ Slot(q)' = Slot(q)
  BY <1>1, SlotType DEF Good, Types, RingType, Seqs, Started, Slot, IInv, Bounded
<1>3. \A k \in 0 .. TraceCount - 1 :
        /\ sTrace'[k].sequence = IF k = Slot(q) THEN q ELSE sTrace[k].sequence
        /\ sTrace'[k].data = sTrace[k].data
  BY <1>1, <1>2 DEF Good, Types, RingType
<1>4. RingType'
  BY <1>1, <1>2 DEF Good, Types, RingType
<1>5. (Bounded /\ Whole /\ Marked)'
  <2>1. \A f \in Fields : sTrace[Slot(q)].data[f] = q
    BY <1>1 DEF Good, IInv, Marked, Fields
  <2>2. Bounded'
    BY <1>1 DEF Good, IInv, Bounded
  <2>3. Whole'
    BY <1>1, <1>2, <1>3, <2>1 DEF Good, IInv, Whole
  <2>4. Marked'
    BY <1>1, <1>2, <1>3 DEF Marked
  <2> QED BY <2>2, <2>3, <2>4
<1>6. ASSUME NEW p \in 1 .. sSequence, p + TraceCount > q
      PROVE  sTrace'[Slot(p)].sequence = p
  <2>1. Slot(p) # Slot(q) /\ Slot(p) \in 0 .. TraceCount - 1
    BY <1>2, <1>6, SlotApart, SlotType DEF Seqs
  <2>2. sTrace[Slot(p)].sequence = p
    BY <1>2, <1>6 DEF Good, IInv, Kept
  <2> QED BY <1>3, <2>1, <2>2
<1> QED BY <1>1, <1>2, <1>3, <1>4, <1>5, <1>6, WriterGood

LEMMA AdvanceGood == ASSUME Good, Advance PROVE Good'
<1> DEFINE q == sSequence + 1
<1>1. /\ store = NFields + 2 /\ store' = 0 /\ sSequence' = q /\ UNCHANGED snap
      /\ sTrace' = sTrace
  BY DEF Advance
<1>2. /\ sSequence \in Nat /\ q \in Seqs /\ Started = q /\ Started' = q
  BY <1>1 DEF Good, Types, RingType, Seqs, Started, IInv, Bounded
<1>3. RingType'
  BY <1>1, <1>2 DEF Good, Types, RingType
<1>4. (Bounded /\ Whole /\ Marked)'
  <2>1. Bounded' /\ Marked'
    BY <1>1 DEF Bounded, Marked
  <2>2. \A k \in 0 .. TraceCount - 1 : sTrace[k].sequence \in Nat
    BY DEF Good, Types, RingType, Seqs
  <2>3. Whole'
    BY <1>1, <1>2, <2>2 DEF Good, IInv, Whole
  <2> QED BY <2>1, <2>3
<1>5. ASSUME NEW p \in 1 .. q, p + TraceCount > q
      PROVE  sTrace'[Slot(p)].sequence = p
  <2>1. CASE p = q
    BY <1>1, <2>1 DEF Good, IInv, Marked
  <2>2. CASE p # q
    BY <1>1, <1>2, <1>5, <2>2 DEF Good, IInv, Kept
  <2> QED BY <2>1, <2>2
<1> QED BY <1>1, <1>2, <1>3, <1>4, <1>5, WriterGood

-----------------------------------------------------------------------------
(* The readers.                                                            *)

\* A step of x's snapshot: only x's place in it and its report change.
LEMMA ReaderGood ==
    ASSUME Good, UNCHANGED ring, SnapType', NEW x \in Readers, (Reading(x) /\ Passed(x))',
           \A r \in Readers \ {x} : reader'[r] = reader[r] /\ report'[r] = report[r],
           \A e \in report'[x] : \A f \in Fields : e.data[f] = e.seq
    PROVE  Good'
<1>1. sTrace' = sTrace /\ sSequence' = sSequence /\ store' = store /\ Started' = Started
  BY DEF ring, Started
<1>2. Types'
  BY <1>1 DEF Good, Types, RingType
<1>3. (Bounded /\ Whole /\ Marked /\ Kept)'
  BY <1>1 DEF Good, IInv, Bounded, Whole, Marked, Kept
<1>4. ASSUME NEW r \in Readers, r # x PROVE Reading(r)' /\ Passed(r)'
  <2>1. Reading(r) /\ Passed(r) /\ reader'[r] = reader[r] /\ report'[r] = report[r]
    BY <1>4 DEF Good, IInv
  <2> QED BY <1>1, <2>1 DEF Reading, Passed
<1>5. NoTornEvent'
  BY DEF Good, IInv, NoTornEvent
<1> QED BY <1>2, <1>3, <1>4, <1>5 DEF Good, IInv

\* x's record, spelled out.
LEMMA ReaderType ==
    ASSUME Good, NEW x \in Readers
    PROVE  /\ reader[x] \in [pc : {"off", "end", "check", "fields", "write", "done"},
                              end : Seqs, seq : 0 .. MaxSequence + 1,
                              field : 1 .. NFields + 1, got : [Fields -> Seqs]]
           /\ reader[x].end \in Nat /\ reader[x].seq \in Nat /\ reader[x].field \in Nat
           /\ sSequence \in Nat /\ sSequence <= MaxSequence /\ sSequence \in Seqs
           /\ Started \in Nat /\ Reading(x) /\ Passed(x)
<1>1. sSequence \in Nat /\ sSequence <= MaxSequence
  BY DEF Good, Types, RingType, Seqs
<1>2. Started \in Nat
  BY <1>1, SMT DEF Started
<1>3. Reading(x) /\ Passed(x)
  BY DEF Good, IInv
<1>4. /\ reader[x].end \in Nat /\ reader[x].seq \in Nat /\ reader[x].field \in Nat
      /\ sSequence \in Seqs
  BY DEF Good, Types, SnapType, RingType, Seqs
<1> QED BY <1>1, <1>2, <1>3, <1>4 DEF Good, Types, SnapType

LEMMA ReadEndGood == ASSUME Good, NEW x \in Readers, ReadEnd(x) PROVE Good'
<1> DEFINE first == IF sSequence >= TraceCount THEN sSequence - TraceCount + 1 ELSE 1
           n == [reader[x] EXCEPT !.pc = "check", !.end = sSequence, !.seq = first]
<1>1. UNCHANGED ring /\ report' = report /\ reader' = [reader EXCEPT ![x] = n]
  BY DEF ReadEnd
<1>2. first \in Nat /\ first >= 1 /\ first \in 0 .. MaxSequence + 1
  BY ReaderType
<1> HIDE DEF first
<1>3. n \in [pc : {"off", "end", "check", "fields", "write", "done"},
              end : Seqs, seq : 0 .. MaxSequence + 1,
              field : 1 .. NFields + 1, got : [Fields -> Seqs]]
  BY <1>2, ReaderType
<1>4. /\ reader'[x] = n /\ n.pc = "check" /\ n.end = sSequence /\ n.seq = first
      /\ \A r \in Readers \ {x} : reader'[r] = reader[r]
  BY <1>1, ReaderType DEF Good, Types, SnapType
<1>5. SnapType'
  BY <1>1, <1>3 DEF Good, Types, SnapType
<1>6. sTrace' = sTrace /\ sSequence' = sSequence /\ store' = store /\ Started' = Started
  BY <1>1 DEF ring, Started
<1>7. Reading(x)'
  BY <1>2, <1>4, <1>6, ReaderType DEF Reading
<1>8. Passed(x)'
  <2>1. ASSUME NEW q \in 1 .. sSequence, q < first PROVE q + TraceCount <= sSequence
    BY <2>1, ReaderType DEF first
  <2>2. sSequence <= Started
    BY ReaderType DEF Started
  <2>3. ASSUME NEW q \in 1 .. sSequence, q < first PROVE ~(q + TraceCount > Started)
    BY <2>1, <2>2, <2>3, ReaderType
  <2> QED BY <1>4, <1>6, <2>3 DEF Passed
<1> QED BY <1>1, <1>4, <1>5, <1>7, <1>8, ReaderGood DEF Good, IInv, NoTornEvent

LEMMA CheckGood == ASSUME Good, NEW x \in Readers, Check(x) PROVE Good'
<1> DEFINE e == reader[x].seq
           n == IF sTrace[Slot(e)].sequence = e
                  THEN [reader[x] EXCEPT !.pc = "fields", !.field = 1, !.got = NoData]
                  ELSE [reader[x] EXCEPT !.pc = "check", !.seq = @ + 1, !.field = 1, !.got = NoData]
<1>1. /\ reader[x].pc = "check" /\ e <= reader[x].end
      /\ UNCHANGED ring /\ report' = report /\ reader' = [reader EXCEPT ![x] = n]
  BY DEF Check, NextEntry
<1>2. e \in Nat /\ e >= 1 /\ e <= sSequence /\ reader[x].end <= sSequence
  BY <1>1, ReaderType DEF Reading
<1>3. n \in [pc : {"off", "end", "check", "fields", "write", "done"},
              end : Seqs, seq : 0 .. MaxSequence + 1,
              field : 1 .. NFields + 1, got : [Fields -> Seqs]]
  <2>1. CASE sTrace[Slot(e)].sequence = e
    <3>1. 1 \in 1 .. NFields + 1
      OBVIOUS
    <3> QED BY <2>1, <3>1, ReaderType, Zeros
  <2>2. CASE sTrace[Slot(e)].sequence # e
    <3>1. e + 1 \in 0 .. MaxSequence + 1 /\ 1 \in 1 .. NFields + 1
      BY <1>2, ReaderType
    <3> QED BY <2>2, <3>1, ReaderType, Zeros
  <2> QED BY <2>1, <2>2
<1>4. /\ reader'[x] = n /\ n.end = reader[x].end /\ n.pc \in {"check", "fields"}
      /\ n.pc = "fields" => n.seq = e /\ n.field = 1
      /\ n.pc = "check" => n.seq = e + 1 /\ sTrace[Slot(e)].sequence # e
      /\ \A r \in Readers \ {x} : reader'[r] = reader[r]
  BY <1>1, ReaderType DEF Good, Types, SnapType
<1>5. SnapType'
  BY <1>1, <1>3 DEF Good, Types, SnapType
<1>6. sTrace' = sTrace /\ sSequence' = sSequence /\ store' = store /\ Started' = Started
  BY <1>1 DEF ring, Started
<1> HIDE DEF n
<1>7. Reading(x)'
  BY <1>1, <1>2, <1>4, <1>6 DEF Reading, Fields
<1>8. Passed(x)'
  <2>1. sTrace[Slot(e)].sequence # e => ~(e + TraceCount > Started)
    BY <1>2, ReaderType DEF Good, IInv, Kept
  <2>2. ASSUME NEW q \in 1 .. reader[x].end, q < e, q + TraceCount > Started
        PROVE  \E y \in report[x] : y.seq = q
    BY <1>1, <2>2, ReaderType DEF Passed
  <2>3. ASSUME NEW q \in 1 .. reader[x].end, q < n.seq, q + TraceCount > Started
        PROVE  \E y \in report[x] : y.seq = q
    BY <1>2, <1>4, <2>1, <2>2, <2>3
  <2> QED BY <1>1, <1>4, <1>6, <2>3 DEF Passed
<1> QED BY <1>1, <1>4, <1>5, <1>7, <1>8, ReaderGood DEF Good, IInv, NoTornEvent

LEMMA ReadFieldGood == ASSUME Good, NEW x \in Readers, ReadField(x) PROVE Good'
<1> DEFINE e == reader[x].seq
           f == reader[x].field
           v == sTrace[Slot(e)].data[f]
           n == [reader[x] EXCEPT !.got[f] = v, !.field = f + 1]
<1>1. /\ reader[x].pc = "fields" /\ f \in Fields
      /\ UNCHANGED ring /\ report' = report /\ reader' = [reader EXCEPT ![x] = n]
  BY DEF ReadField
<1>2. e \in Nat /\ e >= 1 /\ e <= sSequence /\ f \in 1 .. NFields
  BY <1>1, ReaderType DEF Reading, Fields
<1>3. Slot(e) \in 0 .. TraceCount - 1 /\ v \in Seqs
  BY <1>1, <1>2, SlotType DEF Good, Types, RingType
<1>4. /\ n.pc = "fields" /\ n.seq = e /\ n.end = reader[x].end /\ n.field = f + 1
      /\ \A g \in Fields : n.got[g] = IF g = f THEN v ELSE reader[x].got[g]
      /\ n \in [pc : {"off", "end", "check", "fields", "write", "done"},
                end : Seqs, seq : 0 .. MaxSequence + 1,
                field : 1 .. NFields + 1, got : [Fields -> Seqs]]
  <2>1. [reader[x].got EXCEPT ![f] = v] \in [Fields -> Seqs]
    BY <1>1, <1>3, ReaderType
  <2>2. f + 1 \in 1 .. NFields + 1
    BY <1>2
  <2> QED BY <1>1, <2>1, <2>2, ReaderType
<1>5. /\ reader'[x] = n
      /\ \A r \in Readers \ {x} : reader'[r] = reader[r]
  BY <1>1 DEF Good, Types, SnapType
<1>6. SnapType'
  BY <1>1, <1>4 DEF Good, Types, SnapType
<1>7. sTrace' = sTrace /\ sSequence' = sSequence /\ store' = store /\ Started' = Started
  BY <1>1 DEF ring, Started
<1>8. sTrace[Slot(e)].sequence = e => v = e
  BY <1>1, <1>2, <1>3 DEF Good, IInv, Whole
<1> HIDE DEF n, v
<1>9. Reading(x)'
  <2>1. /\ reader[x].end <= sSequence /\ e <= reader[x].end
        /\ sTrace[Slot(e)].sequence = e => \A g \in Fields : g < f => reader[x].got[g] = e
    BY <1>1, ReaderType DEF Reading
  <2>2. sTrace[Slot(e)].sequence = e => \A g \in Fields : g < f + 1 => n.got[g] = e
    BY <1>2, <1>4, <1>8, <2>1 DEF Fields
  <2> QED BY <1>2, <1>4, <1>5, <1>7, <2>1, <2>2 DEF Reading
<1>10. Passed(x)'
  BY <1>1, <1>4, <1>5, <1>7, ReaderType DEF Passed
<1> QED BY <1>1, <1>5, <1>6, <1>9, <1>10, ReaderGood DEF Good, IInv, NoTornEvent

LEMMA RecheckGood == ASSUME Good, NEW x \in Readers, Recheck(x) PROVE Good'
<1> DEFINE e == reader[x].seq
           n == [reader[x] EXCEPT !.pc = "check", !.seq = @ + 1, !.field = 1, !.got = NoData]
           y == [seq |-> e, data |-> reader[x].got]
           same == sTrace[Slot(e)].sequence = e
<1>1. /\ reader[x].pc = "fields" /\ reader[x].field = NFields + 1
      /\ UNCHANGED ring /\ reader' = [reader EXCEPT ![x] = n]
      /\ report' = IF same THEN [report EXCEPT ![x] = @ \cup {y}] ELSE report
  BY DEF Recheck, NextEntry
<1>2. /\ e \in Nat /\ e >= 1 /\ e <= sSequence /\ e <= reader[x].end
      /\ e \in Seqs /\ reader[x].end <= sSequence /\ report[x] \in SUBSET [seq : Seqs, data : [Fields -> Seqs]]
  BY <1>1, ReaderType DEF Reading, Seqs, Good, Types, SnapType
<1>3. /\ n \in [pc : {"off", "end", "check", "fields", "write", "done"},
                end : Seqs, seq : 0 .. MaxSequence + 1,
                field : 1 .. NFields + 1, got : [Fields -> Seqs]]
      /\ n.pc = "check" /\ n.seq = e + 1 /\ n.end = reader[x].end
      /\ y \in [seq : Seqs, data : [Fields -> Seqs]]
  <2>1. e + 1 \in 0 .. MaxSequence + 1 /\ 1 \in 1 .. NFields + 1
    BY <1>2, ReaderType
  <2> QED BY <1>2, <2>1, ReaderType, Zeros
<1>4. /\ reader'[x] = n
      /\ \A r \in Readers \ {x} : reader'[r] = reader[r] /\ report'[r] = report[r]
      /\ report'[x] = IF same THEN report[x] \cup {y} ELSE report[x]
  BY <1>1 DEF Good, Types, SnapType
<1>5. same => \A f \in Fields : y.data[f] = y.seq
  <2>1. \A f \in Fields : f < reader[x].field
    BY <1>1 DEF Fields
  <2> QED BY <1>1, <2>1, ReaderType DEF Reading
<1>6. SnapType'
  <2>1. report'[x] \in SUBSET [seq : Seqs, data : [Fields -> Seqs]]
    BY <1>2, <1>3, <1>4
  <2>2. report' \in [Readers -> SUBSET [seq : Seqs, data : [Fields -> Seqs]]]
    BY <1>1, <1>2, <1>3 DEF Good, Types, SnapType
  <2>3. reader' \in [Readers -> [pc : {"off", "end", "check", "fields", "write", "done"},
                               end : Seqs, seq : 0 .. MaxSequence + 1,
                               field : 1 .. NFields + 1, got : [Fields -> Seqs]]]
    BY <1>1, <1>3 DEF Good, Types, SnapType
  <2> QED BY <2>2, <2>3 DEF SnapType
<1>7. sTrace' = sTrace /\ sSequence' = sSequence /\ store' = store /\ Started' = Started
  BY <1>1 DEF ring, Started
<1>8. same \/ ~(e + TraceCount > Started)
  BY <1>2, ReaderType DEF Good, IInv, Kept
<1>9. y.seq = e
  OBVIOUS
<1> HIDE DEF n, y, same
<1>10. Reading(x)'
  BY <1>2, <1>3, <1>4, <1>7 DEF Reading
<1>11. Passed(x)'
  <2>1. ASSUME NEW q \in 1 .. reader[x].end, q < e + 1, q + TraceCount > Started
        PROVE  \E z \in report'[x] : z.seq = q
    <3>1. CASE q = e
      BY <1>4, <1>8, <1>9, <2>1, <3>1
    <3>2. CASE q # e
      <4>1. q < e
        BY <1>2, <2>1, <3>2
      <4>2. \E z \in report[x] : z.seq = q
        BY <1>1, <2>1, <4>1, ReaderType DEF Passed
      <4> QED BY <1>4, <4>2
    <3> QED BY <3>1, <3>2
  <2> QED BY <1>3, <1>4, <1>7, <2>1 DEF Passed
<1>12. \A z \in report'[x] : \A f \in Fields : z.data[f] = z.seq
  BY <1>4, <1>5 DEF Good, IInv, NoTornEvent
<1> QED BY <1>1, <1>4, <1>6, <1>10, <1>11, <1>12, ReaderGood

\* The report is written: nothing of it is kept.
LEMMA WrittenGood ==
    ASSUME Good, UNCHANGED ring,
           reader' = [reader EXCEPT !["watchdog"] = Reader("done")],
           report' = [report EXCEPT !["watchdog"] = {}]
    PROVE  Good'
<1> DEFINE x == "watchdog"
           n == Reader("done")
<1>1. x \in Readers
  BY DEF Readers
<1>2. /\ n \in [pc : {"off", "end", "check", "fields", "write", "done"},
                end : Seqs, seq : 0 .. MaxSequence + 1,
                field : 1 .. NFields + 1, got : [Fields -> Seqs]]
      /\ n.pc = "done" /\ n.end = 0
  BY Zeros, ReaderType, <1>1 DEF Reader, Seqs
<1>3. /\ reader'[x] = n /\ report'[x] = {}
      /\ \A r \in Readers \ {x} : reader'[r] = reader[r] /\ report'[r] = report[r]
  BY <1>1 DEF Good, Types, SnapType
<1>4. SnapType'
  BY <1>2 DEF Good, Types, SnapType
<1>5. Reading(x)' /\ Passed(x)'
  BY <1>1, <1>2, <1>3, ReaderType DEF ring, Reading, Passed
<1> QED BY <1>1, <1>3, <1>4, <1>5, ReaderGood

LEMMA LastEntryGood == ASSUME Good, NEW x \in Readers, LastEntry(x) PROVE Good'
<1>1. /\ reader[x].pc = "check" /\ reader[x].seq > reader[x].end
      /\ UNCHANGED ring /\ report' = report /\ reader' = [reader EXCEPT ![x].pc = "write"]
  BY DEF LastEntry
<1>2. /\ reader'[x].pc = "write" /\ reader'[x].seq = reader[x].seq /\ reader'[x].end = reader[x].end
      /\ \A r \in Readers \ {x} : reader'[r] = reader[r]
  BY <1>1 DEF Good, Types, SnapType
<1>3. SnapType'
  BY <1>1 DEF Good, Types, SnapType
<1>4. sTrace' = sTrace /\ sSequence' = sSequence /\ store' = store /\ Started' = Started
  BY <1>1 DEF ring, Started
<1>5. Reading(x)' /\ Passed(x)'
  BY <1>1, <1>2, <1>4, ReaderType DEF Reading, Passed
<1> QED BY <1>1, <1>2, <1>3, <1>5, ReaderGood DEF Good, IInv, NoTornEvent

-----------------------------------------------------------------------------
(* All steps.                                                              *)

LEMMA FreshAgain == Fresh' => Good'
BY StartGood, PTL

LEMMA OverGood == ASSUME Over PROVE Good' /\ DogWaits'
<1>1. Fresh' /\ dog' = DogAt("gone")
  BY DEF Over, Fresh, Empty, NoReader, NoReport, NoData
<1> QED BY <1>1, FreshAgain DEF DogAt, DogWaits

LEMMA SnapshotGood == ASSUME Good, DogWaits, NEW x \in Readers, Snapshot(x) PROVE Good' /\ DogWaits'
<1>1. Good'
  BY ReadEndGood, CheckGood, ReadFieldGood, RecheckGood, LastEntryGood DEF Snapshot
<1>2. dog' = dog /\ reader[x].pc \notin {"off", "write"} /\ \A r \in Readers \ {x} : reader'[r] = reader[r]
  BY DEF Snapshot, ReadEnd, Check, ReadField, Recheck, LastEntry, Good, Types, SnapType
<1>3. DogWaits'
  BY <1>2 DEF DogWaits, Readers
<1> QED BY <1>1, <1>3

LEMMA WatchdogGood == ASSUME Good, DogWaits, RestType, Watchdog PROVE Good' /\ DogWaits'
<1>1. CASE Sleep \/ ReadFrame \/ HoldGame \/ ReleaseGame
  <2>1. Good'
    BY <1>1, RestGood DEF Sleep, ReadFrame, HoldGame, ReleaseGame
  <2>2. DogWaits'
    BY <1>1 DEF Sleep, ReadFrame, HoldGame, ReleaseGame, DogWaits, snap, RestType
  <2> QED BY <2>1, <2>2
<1>2. CASE ReadPaused
  <2>1. CASE reader' = reader
    <3>1. Good'
      BY <1>2, <2>1, RestGood DEF ReadPaused, snap
    <3> QED BY <1>2, <3>1 DEF ReadPaused, DogWaits, RestType
  <2>2. CASE reader' = [reader EXCEPT !["watchdog"].pc = "end"]
    <3>1. Good'
      BY <1>2, <2>2, PcGood DEF ReadPaused, Readers
    <3> QED BY <1>2, <3>1 DEF ReadPaused, DogWaits, RestType
  <2> QED BY <1>2, <2>1, <2>2 DEF ReadPaused
<1>3. CASE WriteStall
  <2>1. reader["watchdog"].pc = "write"
    BY <1>3 DEF WriteStall, DogWaits
  <2>2. Good'
    BY <1>3, WrittenGood DEF WriteStall
  <2> QED BY <1>3, <2>2 DEF WriteStall, DogWaits, RestType
<1> QED BY <1>1, <1>2, <1>3 DEF Watchdog

LEMMA CrashGood == ASSUME Good, DogWaits, NEW t \in Threads, Crash(t) PROVE Good' /\ DogWaits'
<1>1. CASE Over
  BY <1>1, OverGood
<1>2. CASE ~Over
  <2>1. UNCHANGED ring /\ report' = report /\ dog' = dog /\ reader' = [reader EXCEPT !["handler"].pc = "end"]
    BY <1>2 DEF Crash
  <2>2. Good'
    BY <2>1, PcGood DEF Readers
  <2>3. reader'["watchdog"] = reader["watchdog"]
    BY <2>1 DEF Good, Types, SnapType, Readers
  <2> QED BY <2>1, <2>2, <2>3 DEF DogWaits
<1> QED BY <1>1, <1>2

LEMMA NextGood == ASSUME Good, DogWaits, RestType, [Next]_vars PROVE Good' /\ DogWaits'
<1>1. CASE \/ StatusWritten \/ Frame \/ AppletEnter \/ AppletLeave \/ Exit \/ ExitWaits
           \/ UNCHANGED vars
  <2>1. UNCHANGED <<ring, snap>> /\ dog' = dog
    BY <1>1 DEF StatusWritten, Frame, AppletEnter, AppletLeave, Exit, ExitWaits, vars
  <2> QED BY <2>1, RestGood DEF DogWaits, snap
<1>2. CASE Event
  <2>1. Good'
    BY <1>2, EventStartGood, StoreFieldGood, PublishGood, AdvanceGood DEF Event
  <2>2. reader' = reader /\ dog' = dog
    BY <1>2 DEF Event, EventStart, StoreField, Publish, Advance, snap
  <2> QED BY <2>1, <2>2 DEF DogWaits
<1>3. CASE ProcessEnds \/ WriteCrash
  BY <1>3, OverGood DEF ProcessEnds, WriteCrash
<1>4. CASE \E r \in Readers : Snapshot(r)
  BY <1>4, SnapshotGood
<1>5. CASE Watchdog
  BY <1>5, WatchdogGood
<1>6. CASE \E t \in Threads : Crash(t)
  BY <1>6, CrashGood
<1> QED BY <1>1, <1>2, <1>3, <1>4, <1>5, <1>6 DEF Next

LEMMA StartTyped ==
    /\ 0 \in 0 .. MaxFrame /\ Calm \in [now : 0 .. Samples + 1, then : 0 .. Samples + 1]
    /\ \A pc \in {"loop", "gone"} :
         DogAt(pc) \in [pc : {"loop", "frame", "paused", "report", "sampled", "write", "gone"},
                       frame : 0 .. MaxFrame, last : 0 .. MaxFrame,
                       missed : 0 .. Samples, reported : BOOLEAN]
<1>1. 0 \in 0 .. MaxFrame /\ 0 \in 0 .. Samples /\ 0 \in 0 .. Samples + 1
  OBVIOUS
<1> QED BY <1>1 DEF Calm, DogAt

LEMMA RestTyped == ASSUME RestType, [Next]_vars PROVE RestType'
<1>1. CASE UNCHANGED <<clock, dog, game, life>>
  <2>1. /\ sFrame' = sFrame /\ sPaused' = sPaused /\ sStopping' = sStopping
        /\ sInCrash' = sInCrash /\ dog' = dog /\ game' = game /\ held' = held
        /\ up' = up /\ calm' = calm
    BY <1>1 DEF clock, life
  <2> QED BY <2>1 DEF RestType
<1>2. CASE Event \/ (\E r \in Readers : Snapshot(r)) \/ UNCHANGED vars
  <2>1. CASE Event
    BY <1>1, <2>1 DEF Event, EventStart, StoreField, Publish, Advance
  <2>2. ASSUME NEW r \in Readers, Snapshot(r) PROVE RestType'
    BY <1>1, <2>2 DEF Snapshot, ReadEnd, Check, ReadField, Recheck, LastEntry
  <2>3. CASE UNCHANGED vars
    BY <1>1, <2>3 DEF vars
  <2> QED BY <1>2, <2>1, <2>2, <2>3
<1>3. CASE Over
  BY <1>3, StartTyped DEF RestType, Over
<1>4. CASE StatusWritten \/ AppletEnter \/ AppletLeave \/ Exit \/ ExitWaits
  BY <1>4 DEF RestType, StatusWritten, AppletEnter, AppletLeave, Exit, ExitWaits, clock, life
<1>5. CASE Frame
  BY <1>5 DEF RestType, Frame, life
<1>6. CASE Sleep
  BY <1>6 DEF RestType, Sleep, clock, life
<1>7. CASE ReadFrame
  <2>1. calm.now \in 0 .. Samples + 1
    BY DEF RestType
  <2>2. calm' \in [now : 0 .. Samples + 1, then : 0 .. Samples + 1]
    BY <1>7, <2>1 DEF ReadFrame
  <2> QED BY <1>7, <2>2 DEF RestType, ReadFrame, life
<1>8. CASE ReadPaused
  <2>1. Missed \in 0 .. Samples
    BY DEF Missed, RestType
  <2> QED BY <1>8, <2>1 DEF RestType, ReadPaused, clock, life
<1>9. CASE HoldGame \/ ReleaseGame \/ WriteStall
  BY <1>9 DEF RestType, HoldGame, ReleaseGame, WriteStall, clock, life
<1>10. CASE \E t \in Threads : Crash(t)
  <2> SUFFICES ASSUME NEW t \in Threads, Crash(t), ~Over PROVE RestType'
    BY <1>3, <1>10
  <2>1. sInCrash' = t /\ UNCHANGED <<clock, dog, game, sStopping, held, up>>
    BY DEF Crash
  <2> QED BY <2>1 DEF RestType, clock
<1>11. CASE Watchdog \/ ProcessEnds \/ WriteCrash
  BY <1>3, <1>6, <1>7, <1>8, <1>9, <1>11 DEF Watchdog, ProcessEnds, WriteCrash
<1> QED BY <1>2, <1>4, <1>5, <1>10, <1>11 DEF Next

LEMMA InitAll == Init => Good /\ DogWaits /\ RestType
<1> SUFFICES ASSUME Init PROVE Good /\ DogWaits /\ RestType
  OBVIOUS
<1>1. Good
  BY StartGood DEF Init, Fresh
<1>2. DogWaits
  BY DEF Init, DogWaits, DogAt
<1>3. RestType
  BY StartTyped DEF Init, RestType
<1> QED BY <1>1, <1>2, <1>3

-----------------------------------------------------------------------------
(* The theorems.                                                           *)

\* The inductive invariant holds for every size of the ring, the entries and
\* the watchdog's patience.
THEOREM Inductive == Spec => [](Good /\ DogWaits /\ RestType)
<1>1. Good /\ DogWaits /\ RestType /\ [Next]_vars => (Good /\ DogWaits /\ RestType)'
  BY NextGood, RestTyped
<1> QED BY <1>1, InitAll, PTL DEF Spec

\* Every variable keeps the range its code can give it.
THEOREM TypeCorrect == Spec => []TypeOK
<1>1. Good /\ RestType => TypeOK
  BY TypeParts DEF Good, Types
<1> QED BY <1>1, Inductive, PTL

\* Snapshot reads the entries of Event without a lock, and reports none in
\* which two events are mixed.
THEOREM NeverTorn == Spec => []NoTornEvent
<1>1. Good => NoTornEvent
  BY DEF Good, IInv
<1> QED BY <1>1, Inductive, PTL

\* A finished report lacks only events that newer ones have overwritten.
THEOREM NoneMissing == Spec => []OnlyOverwrittenMissing
<1>1. Good => OnlyOverwrittenMissing
  <2> SUFFICES ASSUME Good, NEW r \in Readers, reader[r].pc = "write",
                      NEW q \in 1 .. reader[r].end, q + TraceCount > Started
               PROVE  \E e \in report[r] : e.seq = q
    BY DEF OnlyOverwrittenMissing
  <2>1. Passed(r) /\ reader[r].end \in Nat /\ reader[r].seq \in Nat
    BY ReaderType
  <2>2. q < reader[r].seq
    BY <2>1 DEF Passed
  <2> QED BY <2>1, <2>2 DEF Passed
<1> QED BY <1>1, Inductive, PTL

-----------------------------------------------------------------------------
(* When a stall is found, and when its report is put together.             *)

\* Each sample that missed a frame was a read of the frame since it, outside a
\* suspension: the count of misses stays below the count of reads.  Once within
\* a suspension it is 0, until the pause flag is read when the game has gone on:
\* that miss is lost at the next read, which finds the frame counted before.
Paced ==
    /\ dog.last <= sFrame /\ dog.frame <= sFrame
    /\ game = "applet" => sPaused
    /\ dog.pc # "paused" /\ dog.last = sFrame /\ sFrame # 0 =>
         \/ calm.now > dog.missed
         \/ dog.missed = 0 /\ game = "applet"
    /\ dog.pc = "paused" =>
         /\ calm.then >= 1 /\ dog.last <= dog.frame
         /\ dog.frame = sFrame => calm.now = calm.then \/ game = "applet"
         /\ dog.frame = dog.last /\ dog.frame # 0 =>
              \/ calm.then > (IF dog.missed < Samples THEN dog.missed + 1 ELSE dog.missed)
              \/ dog.missed = 0 /\ (dog.frame # sFrame \/ game = "applet")

\* No frame is counted before diagnostics.log is written; the watchdog ends
\* with no report under way, and the files are closed after its end.
Apart ==
    /\ game = "status" => sFrame = 0 /\ reader["watchdog"].pc = "off"
    /\ dog.pc \in {"loop", "frame", "paused", "gone"} => reader["watchdog"].pc \in {"off", "done"}
    /\ game = "closed" => dog.pc = "gone"

LEMMA PacedSame ==
    ASSUME Paced, sFrame' = sFrame, calm' = calm, dog' = dog,
           (game = "applet") = (game' = "applet"), game' = "applet" => sPaused'
    PROVE  Paced'
BY DEF Paced

LEMMA PacedStep == ASSUME RestType, Paced, [Next]_vars PROVE Paced'
<1> USE DEF RestType, Paced
<1>1. CASE UNCHANGED <<clock, dog, game>>
  BY <1>1, PacedSame DEF clock
<1>2. CASE Over
  BY <1>2 DEF Over, DogAt, Calm
<1>3. CASE Frame
  <2>1. /\ sFrame' = sFrame + 1 /\ dog' = dog /\ game' # "applet" /\ calm'.then = calm.then
    BY <1>3 DEF Frame
  <2>2. sFrame \in Nat /\ dog.last \in Nat /\ dog.frame \in Nat
    OBVIOUS
  <2> HIDE DEF RestType
  <2> QED BY <2>1, <2>2
<1>4. CASE AppletEnter
  <2>1. /\ sFrame' = sFrame /\ calm' = calm /\ dog' = dog
        /\ game = "run" /\ game' = "applet" /\ sPaused'
    BY <1>4 DEF AppletEnter
  <2> HIDE DEF RestType
  <2> QED BY <2>1
<1>5. CASE Sleep \/ HoldGame \/ ReleaseGame \/ WriteStall
  <2>1. /\ sFrame' = sFrame /\ calm' = calm /\ dog.pc # "paused" /\ dog'.pc # "paused"
        /\ dog'.last = dog.last /\ dog'.frame = dog.frame /\ dog'.missed = dog.missed
        /\ game' = game /\ sPaused' = sPaused
    BY <1>5 DEF Sleep, HoldGame, ReleaseGame, WriteStall, clock
  <2> HIDE DEF RestType
  <2> QED BY <2>1
<1>6. CASE ReadFrame
  <2> DEFINE reads == IF calm.now > Samples THEN calm.now ELSE calm.now + 1
  <2>1. /\ sFrame' = sFrame /\ game' = game /\ sPaused' = sPaused
        /\ calm' = [now |-> IF game = "applet" THEN 0 ELSE reads, then |-> reads]
        /\ dog.pc = "frame" /\ dog' = [dog EXCEPT !.pc = "paused", !.frame = sFrame]
    BY <1>6 DEF ReadFrame
  <2>2. /\ dog'.pc = "paused" /\ dog'.frame = sFrame /\ dog'.last = dog.last
        /\ dog'.missed = dog.missed /\ calm'.then = reads
        /\ game # "applet" => calm'.now = reads
    BY <2>1
  <2>3. /\ sFrame \in Nat /\ dog.last \in Nat /\ dog.missed \in 0 .. Samples
        /\ calm.now \in 0 .. Samples + 1
    OBVIOUS
  <2> HIDE DEF RestType
  <2> QED BY <2>1, <2>2, <2>3
<1>7. CASE ReadPaused
  <2>1. /\ sFrame' = sFrame /\ calm' = calm /\ dog.pc = "paused" /\ dog'.pc # "paused"
        /\ dog'.last = dog.frame /\ dog'.frame = dog.frame /\ dog'.missed = Missed
        /\ game' = game /\ sPaused' = sPaused
    BY <1>7 DEF ReadPaused, clock
  <2>2. /\ sFrame \in Nat /\ dog.last \in Nat /\ dog.frame \in Nat /\ dog.missed \in 0 .. Samples
        /\ calm.now \in Nat /\ calm.then \in Nat
    OBVIOUS
  <2> HIDE DEF RestType
  <2>3. CASE game = "applet"
    BY <2>1, <2>2, <2>3 DEF Missed
  <2>4. CASE game # "applet"
    BY <2>1, <2>2, <2>4 DEF Missed
  <2> QED BY <2>3, <2>4
<1>8. CASE \E t \in Threads : Crash(t)
  <2> SUFFICES ASSUME NEW t \in Threads, Crash(t), ~Over PROVE Paced'
    BY <1>2, <1>8
  <2> QED BY <1>1 DEF Crash
<1>9. CASE Event \/ (\E r \in Readers : Snapshot(r)) \/ UNCHANGED vars
  <2>1. CASE Event
    BY <1>1, <2>1 DEF Event, EventStart, StoreField, Publish, Advance
  <2>2. ASSUME NEW r \in Readers, Snapshot(r) PROVE Paced'
    BY <1>1, <2>2 DEF Snapshot, ReadEnd, Check, ReadField, Recheck, LastEntry
  <2>3. CASE UNCHANGED vars
    BY <1>1, <2>3 DEF vars
  <2> QED BY <1>9, <2>1, <2>2, <2>3
<1>10. CASE StatusWritten \/ AppletLeave \/ Exit \/ ExitWaits
  <2>1. /\ sFrame' = sFrame /\ calm' = calm /\ dog' = dog
        /\ game # "applet" /\ game' # "applet"
    BY <1>10 DEF StatusWritten, AppletLeave, Exit, ExitWaits, clock
  <2> QED BY <2>1, PacedSame
<1>11. CASE Watchdog \/ ProcessEnds \/ WriteCrash
  BY <1>2, <1>5, <1>6, <1>7, <1>11 DEF Watchdog, ProcessEnds, WriteCrash
<1> QED BY <1>3, <1>4, <1>8, <1>9, <1>10, <1>11 DEF Next

LEMMA ApartSame ==
    ASSUME Apart, sFrame' = sFrame, dog' = dog, game' = game,
           reader'["watchdog"] = reader["watchdog"]
    PROVE  Apart'
BY DEF Apart

\* A snapshot of the watchdog goes on only while it reports.
LEMMA ApartSnapshot ==
    ASSUME Good, RestType, Apart, NEW r \in Readers, Snapshot(r)
    PROVE  Apart'
<1>1. /\ reader[r].pc \in {"end", "check", "fields"} /\ dog' = dog /\ game' = game /\ sFrame' = sFrame
      /\ \A x \in Readers \ {r} : reader'[x] = reader[x]
  BY DEF Snapshot, ReadEnd, Check, ReadField, Recheck, LastEntry, clock, Good, Types, SnapType
<1>2. CASE r = "watchdog"
  <2>1. dog.pc \notin {"loop", "frame", "paused", "gone"} /\ game # "status"
    BY <1>1, <1>2 DEF Apart
  <2> QED BY <1>1, <2>1 DEF Apart
<1>3. CASE r # "watchdog"
  BY <1>1, <1>3, ApartSame DEF Readers
<1> QED BY <1>2, <1>3

LEMMA ApartStep == ASSUME Good, DogWaits, RestType, Paced, Apart, [Next]_vars PROVE Apart'
<1>1. CASE Event \/ AppletEnter \/ AppletLeave \/ Exit \/ UNCHANGED vars
  <2>1. reader' = reader /\ sFrame' = sFrame /\ dog' = dog
    BY <1>1 DEF Event, EventStart, StoreField, Publish, Advance, AppletEnter, AppletLeave, Exit,
                vars, snap, clock
  <2>2. game' # "status" \/ game' = game
    BY <1>1 DEF Event, EventStart, StoreField, Publish, Advance, AppletEnter, AppletLeave, Exit, vars
  <2>3. game' # "closed" \/ game' = game
    BY <1>1 DEF Event, EventStart, StoreField, Publish, Advance, AppletEnter, AppletLeave, Exit, vars
  <2> QED BY <2>1, <2>2, <2>3 DEF Apart
<1>2. CASE StatusWritten \/ Frame \/ ExitWaits
  BY <1>2 DEF StatusWritten, Frame, ExitWaits, snap, clock, Apart
<1>3. CASE Over
  BY <1>3 DEF Over, NoReader, Reader, Readers, DogAt, Apart
<1>4. CASE Sleep \/ ReadFrame
  <2>1. /\ reader' = reader /\ game' = game /\ sFrame' = sFrame
        /\ dog.pc \in {"loop", "frame"}
    BY <1>4 DEF Sleep, ReadFrame, snap, clock
  <2> QED BY <2>1 DEF Apart
<1>5. CASE ReadPaused
  <2>1. dog.pc = "paused" /\ game' = game /\ sFrame' = sFrame
    BY <1>5 DEF ReadPaused, clock
  <2>2. reader["watchdog"].pc \in {"off", "done"} /\ game # "closed"
    BY <2>1 DEF Apart
  <2>3. CASE Missed = Samples /\ ~dog.reported /\ ready["stall"]
    <3>1. dog'.pc = "report"
      BY <1>5, <2>3 DEF ReadPaused, RestType
    <3>2. dog.frame # 0 /\ dog.frame <= sFrame
      BY <2>3 DEF Missed, Paced
    <3>3. game # "status"
      BY <3>2 DEF Apart, RestType
    <3> QED BY <2>1, <2>2, <3>1, <3>3 DEF Apart
  <2>4. CASE ~(Missed = Samples /\ ~dog.reported /\ ready["stall"])
    <3>1. reader' = reader
      BY <1>5, <2>4 DEF ReadPaused
    <3> QED BY <2>1, <2>2, <3>1 DEF Apart
  <2> QED BY <2>3, <2>4
<1>6. CASE HoldGame \/ ReleaseGame
  <2>1. /\ reader' = reader /\ game' = game /\ sFrame' = sFrame
        /\ dog.pc \in {"report", "sampled"} /\ dog'.pc \in {"sampled", "write"}
    BY <1>6 DEF HoldGame, ReleaseGame, snap, clock, RestType
  <2> QED BY <2>1 DEF Apart
<1>7. CASE WriteStall
  <2>1. /\ reader["watchdog"].pc = "write" /\ reader'["watchdog"].pc = "done"
        /\ dog.pc = "write" /\ game' = game /\ sFrame' = sFrame
    BY <1>7 DEF WriteStall, Reader, DogWaits, clock, Good, Types, SnapType, Readers
  <2> QED BY <2>1 DEF Apart
<1>8. CASE \E t \in Threads : Crash(t)
  <2> SUFFICES ASSUME NEW t \in Threads, Crash(t), ~Over PROVE Apart'
    BY <1>3, <1>8
  <2>1. reader'["watchdog"] = reader["watchdog"]
    BY DEF Crash, Good, Types, SnapType, Readers
  <2> QED BY <2>1, ApartSame DEF Crash, clock
<1>9. CASE \E r \in Readers : Snapshot(r)
  BY <1>9, ApartSnapshot
<1> QED
  BY <1>1, <1>2, <1>3, <1>4, <1>5, <1>6, <1>7, <1>8, <1>9 DEF Next, Watchdog, ProcessEnds, WriteCrash

LEMMA Timing == Spec => [](Paced /\ Apart)
<1>1. Init => Paced /\ Apart
  <2> SUFFICES ASSUME Init PROVE Paced /\ Apart
    OBVIOUS
  <2>1. /\ dog.last = 0 /\ dog.frame = 0 /\ sFrame = 0 /\ dog.pc \in {"loop", "gone"}
        /\ game = "status" /\ reader["watchdog"].pc = "off"
    BY DEF Init, DogAt, NoReader, Reader, Readers
  <2> QED BY <2>1 DEF Paced, Apart
<1>2. (Good /\ DogWaits /\ RestType) /\ (Paced /\ Apart) /\ [Next]_vars => (Paced /\ Apart)'
  BY PacedStep, ApartStep
<1> QED BY <1>1, <1>2, Inductive, PTL DEF Spec

\* A stall is found only when the watchdog has seen no frame in Samples
\* intervals, none of them spent in a suspension, wherever the game goes to the
\* menu and comes back between its two reads.  A patience of one sample would
\* not do: a suspension that ends between the two reads counts as one miss.
THEOREM StallsAreReal == Samples > 1 => (Spec => StallIsReal)
<1> SUFFICES ASSUME Samples > 1 PROVE Spec => StallIsReal
  OBVIOUS
<1>1. RestType /\ Paced /\ [Next]_vars =>
        [~dog.reported /\ dog.reported' => calm.then > Samples]_vars
  <2> SUFFICES ASSUME RestType, Paced, Next, ~dog.reported, dog.reported'
               PROVE  calm.then > Samples
    OBVIOUS
  <2>1. ReadPaused
    <3>1. dog' = dog => FALSE
      OBVIOUS
    <3>2. Over => FALSE
      BY DEF Over, DogAt
    <3>3. Sleep \/ ReadFrame \/ HoldGame \/ ReleaseGame \/ WriteStall => FALSE
      BY DEF Sleep, ReadFrame, HoldGame, ReleaseGame, WriteStall, RestType
    <3> QED
      BY <3>1, <3>2, <3>3
      DEF Next, StatusWritten, Event, EventStart, StoreField, Publish, Advance, Frame,
          AppletEnter, AppletLeave, Exit, ExitWaits, ProcessEnds, Snapshot, ReadEnd, Check,
          ReadField, Recheck, LastEntry, Watchdog, Crash, WriteCrash
  <2>2. Missed = Samples /\ dog.pc = "paused"
    BY <2>1 DEF ReadPaused, RestType
  <2>3. dog.missed \in 0 .. Samples /\ calm.then \in Nat
    BY DEF RestType
  <2>4. dog.missed # 0 /\ dog.frame # 0 /\ dog.frame = dog.last
    BY <2>2, <2>3 DEF Missed
  <2> QED BY <2>2, <2>3, <2>4 DEF Missed, Paced
<1> QED BY <1>1, Inductive, Timing, PTL DEF Spec, StallIsReal

\* The stall report keeps out of the file written at the start and out of the
\* one closed at the end.
THEOREM ReportIsApart == Spec => []ReportKeepsOut
<1>1. Apart => ReportKeepsOut
  BY DEF Apart, ReportKeepsOut
<1> QED BY <1>1, Timing, PTL
=============================================================================
