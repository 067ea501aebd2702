------------------------------ MODULE SaveStore ------------------------------
(***************************************************************************)
(* The double-copy save store of source/src/save.c, with the boot sequence *)
(* of AgbMain (InitSaveData, InitSaveHeader), the scan of the file-select  *)
(* screen and the three-phase HandleSave.                                  *)
(*                                                                         *)
(* One action per 8-byte EEPROM block programmed: power may be lost        *)
(* between any two.  A block is programmed atomically; module EepromFile   *)
(* says how far port_save.c provides that.                                 *)
(*                                                                         *)
(* DATA is abstract: block b of a copy holds "block b of payload p" or     *)
(* Garbage, and a checksum is a 16-bit number given per content.           *)
(***************************************************************************)
EXTENDS Integers, FiniteSets

CONSTANTS
    Slots,       \* the player's files in use, among 0..2
    Payloads,    \* contents a caller may save
    Default,     \* sDefaultSettings, what InitSaveHeader writes
    Garbage,     \* a block nobody wrote (0xFF, "DAMEDAME", worn out)
    NBlocks,     \* 8-byte blocks of one copy
    SigBlocks,   \* 8-byte blocks of the signature
    Checksum,    \* content -> 16-bit sum over status word and data
    Worn,        \* <<file, copy, part>> of the blocks that fail to program
    MaxOps,      \* bound: HandleSave requests
    MaxCrashes   \* bound: power losses

Header == 3
Extra == 5
Files == Slots \cup {Header, Extra}
Copies == {1, 2}

\* The parts of a copy: its data blocks, its status block, and the block
\* after it, used when the status block cannot be programmed.
StatusPart == NBlocks + 1
AltPart == NBlocks + 2
Parts == 1 .. AltPart

Contents == [1 .. NBlocks -> Payloads \cup {Garbage}]
Whole(p) == [b \in 1 .. NBlocks |-> p]
WordMax == 65535   \* the largest u16
Word == 0 .. WordMax

ASSUME SaveAssumption ==
    /\ Slots \subseteq 0 .. 2
    /\ NBlocks \in Nat \ {0}
    /\ SigBlocks \in Nat \ {0}
    /\ Default \in Payloads
    /\ Garbage \notin Payloads
    /\ Checksum \in [Contents -> Word]
    /\ Worn \subseteq Files \X Copies \X Parts
    /\ MaxOps \in Nat
    /\ MaxCrashes \in Nat

\* A 16-bit sum cannot tell every mixture of two saves from a save.  This
\* is the bet save.c takes: a copy that is a mixture never carries the sum
\* of a whole payload.
ASSUME TornDetected ==
    \A c \in Contents, p \in Payloads :
        Checksum[c] = Checksum[Whole(p)] => \E q \in Payloads : c = Whole(q)

VARIABLES
    data,        \* data[f][c]: the data blocks of copy c of file f
    stat,        \* stat[f][c]: its status block and the block after it
    sig,         \* sig[c]: blocks of sSignatureLong present in copy c
    stage,       \* how far AgbMain has come
    todo,        \* files the current stage has still to visit
    job,         \* the DataDoubleWriteWithStatus or SetFileStatus* running
    panel,       \* gMenu.storyPanelIndex
    field_0xa,   \* gMenu.field_0xa: the countdown, then the result
    request,     \* what HandleSave was asked for
    before,      \* history: what job.file read as when job started
    ops,         \* HandleSave requests so far
    crashes      \* power losses so far

device == <<data, stat, sig>>
menu == <<panel, field_0xa, request, ops>>
vars == <<device, stage, todo, job, menu, before, crashes>>

-----------------------------------------------------------------------------
(* Status blocks: the SaveFileStatus records save.c writes.                *)

Kinds == {"MCZ3", "TINI", "FleD", "junk"}
Statuses == [kind : Kinds, checksum1 : Word, checksum2 : Word]

Junk == [kind |-> "junk", checksum1 |-> WordMax, checksum2 |-> WordMax]
MarkStatus(k) == [kind |-> k, checksum1 |-> WordMax, checksum2 |-> WordMax]
Negated(w) == IF w = 0 THEN 0 ELSE WordMax + 1 - w   \* -w in 16 bits
FileStatus(p) == [kind |-> "MCZ3",
                  checksum1 |-> Checksum[Whole(p)],
                  checksum2 |-> Negated(Checksum[Whole(p)])]

\* 2: a file with data; 1: a valid empty file; 0: a bad file.
ParseSaveFileStatus(s) ==
    CASE s.kind = "MCZ3" /\ s.checksum1 + s.checksum2 = WordMax + 1 -> 2
      [] s.kind \in {"TINI", "FleD"} /\ s.checksum1 = WordMax /\ s.checksum2 = WordMax -> 1
      [] OTHER -> 0

\* Mutant: the block after the status block is never consulted.
ReadMainStatusOnly(f, c) == stat[f][c].main

\* The block ReadSaveFileStatus leaves in its result: the status block, or
\* the block after it when the first does not parse.
ReadSaveFileStatus(f, c) ==
    IF ParseSaveFileStatus(stat[f][c].main) # 0 THEN stat[f][c].main
                                               ELSE stat[f][c].alt

\* Mutant: the sum is not compared with the data.
VerifyKindOnly(s, d) == s.kind = "MCZ3"

VerifyChecksum(s, d) ==
    /\ s.checksum1 = Checksum[d]
    /\ s.checksum2 = Negated(s.checksum1)
    /\ s.kind = "MCZ3"

CopyStatus(f, c) == ParseSaveFileStatus(ReadSaveFileStatus(f, c))
CopyValid(f, c) == /\ CopyStatus(f, c) = 2
                   /\ VerifyChecksum(ReadSaveFileStatus(f, c), data[f][c])

-----------------------------------------------------------------------------
(* Reading a file.  A read that finds no valid copy clears the buffer.     *)

Cleared == [b \in 1 .. NBlocks |-> Garbage]
Loaded(d) == [ret |-> 1, data |-> d]
Empty == [ret |-> 0, data |-> Cleared]
Corrupt == [ret |-> -1, data |-> Cleared]
Results == {Loaded(d) : d \in Contents} \cup {Empty, Corrupt}

DataDoubleReadWithStatus(f) ==
    CASE CopyValid(f, 1) -> Loaded(data[f][1])
      [] ~CopyValid(f, 1) /\ CopyValid(f, 2) -> Loaded(data[f][2])
      [] OTHER -> IF \E c \in Copies : CopyStatus(f, c) = 1 THEN Empty ELSE Corrupt

-----------------------------------------------------------------------------
(* A job is one call that programs blocks: a double write (kind "MCZ3")    *)
(* goes to copy 1 and then copy 2, data before status; a mark ("TINI",     *)
(* "FleD") writes the status of copy 2 and then that of copy 1.            *)

NoJob == [kind |-> "none"]
FirstCopy(k) == IF k = "MCZ3" THEN 1 ELSE 2
FirstPart(k) == IF k = "MCZ3" THEN 1 ELSE StatusPart

Jobs == [kind : {"MCZ3", "TINI", "FleD"}, file : Files, payload : Payloads,
         copy : Copies, part : Parts, ok : BOOLEAN]

JobFor(k, f, p) == [kind |-> k, file |-> f, payload |-> p,
                    copy |-> FirstCopy(k), part |-> FirstPart(k), ok |-> FALSE]

Outcome(j) == IF j.kind = "MCZ3" THEN Loaded(Whole(j.payload)) ELSE Empty
JobStatus(j) == IF j.kind = "MCZ3" THEN FileStatus(j.payload) ELSE MarkStatus(j.kind)

\* What the call returns: a double write succeeds when either copy did; the
\* caller of a mark does not look.
JobResult(j, ok) == IF j.kind # "MCZ3" \/ ok THEN 1 ELSE 0

Start(k, f, p) ==
    /\ job = NoJob
    /\ job' = JobFor(k, f, p)
    /\ before' = DataDoubleReadWithStatus(f)

\* The call returns; HandleSaveInProgress keeps its result where the
\* countdown was.
Return(ok) ==
    /\ job' = NoJob
    /\ IF stage = "idle"
         THEN /\ panel' = "SAVE_DONE"
              /\ field_0xa' = JobResult(job, ok)
         ELSE UNCHANGED <<panel, field_0xa>>
    /\ UNCHANGED <<request, ops>>

\* Mutant: a double write is content with its first good copy.
StopAtFirstGoodCopy(ok) ==
    IF job.copy = FirstCopy(job.kind) /\ ~(job.kind = "MCZ3" /\ ok)
      THEN /\ job' = [job EXCEPT !.copy = 3 - @, !.part = FirstPart(job.kind), !.ok = ok]
           /\ UNCHANGED menu
      ELSE Return(ok)

\* This copy is finished, with or without success: on to the other one.
NextCopy(ok) ==
    IF job.copy = FirstCopy(job.kind)
      THEN /\ job' = [job EXCEPT !.copy = 3 - @, !.part = FirstPart(job.kind), !.ok = ok]
           /\ UNCHANGED menu
      ELSE Return(ok)

Programs == <<job.file, job.copy, job.part>> \notin Worn

\* DataWrite, one block: a failure ends this copy without its status.
WriteData ==
    /\ job.part <= NBlocks
    /\ IF Programs
         THEN /\ data' = [data EXCEPT ![job.file][job.copy][job.part] = job.payload]
              /\ job' = [job EXCEPT !.part = @ + 1]
              /\ UNCHANGED menu
         ELSE NextCopy(job.ok) /\ UNCHANGED data
    /\ UNCHANGED stat

\* WriteSaveFileStatus at the status block, and after a failure at the next.
WriteStatus ==
    /\ job.part = StatusPart
    /\ IF Programs
         THEN /\ stat' = [stat EXCEPT ![job.file][job.copy].main = JobStatus(job)]
              /\ NextCopy(TRUE)
         ELSE /\ job' = [job EXCEPT !.part = AltPart]
              /\ UNCHANGED <<stat, menu>>
    /\ UNCHANGED data

WriteStatusAlt ==
    /\ job.part = AltPart
    /\ IF Programs
         THEN /\ stat' = [stat EXCEPT ![job.file][job.copy].alt = JobStatus(job)]
              /\ NextCopy(TRUE)
         ELSE NextCopy(job.ok) /\ UNCHANGED stat
    /\ UNCHANGED data

Program ==
    /\ job # NoJob
    /\ WriteData \/ WriteStatus \/ WriteStatusAlt
    /\ UNCHANGED <<sig, stage, todo, before, crashes>>

-----------------------------------------------------------------------------
(* Booting: AgbMain calls InitSaveData, InitSaveHeader, and the player     *)
(* reaches the file-select screen.                                         *)

\* The signature comparisons at the head of InitSaveData.
BadSignatures == {c \in Copies : sig[c] # SigBlocks}

InitSaveData ==
    /\ stage = "off"
    /\ IF BadSignatures = Copies THEN stage' = "init" /\ todo' = Files
       ELSE /\ stage' = IF BadSignatures # {} THEN "sign2" ELSE "header"
            /\ UNCHANGED todo
    /\ UNCHANGED <<device, job, menu, before, crashes>>

\* Mutant: the same file over and over.
InitSameFile ==
    /\ stage = "init"
    /\ Start("TINI", Extra, Default)
    /\ UNCHANGED <<device, stage, todo, menu, crashes>>

\* SetFileStatusInit(5), (3), (2), (1), (0).
InitFile ==
    /\ stage = "init"
    /\ \E f \in todo :
          /\ \A g \in todo : g <= f
          /\ Start("TINI", f, Default)
          /\ todo' = todo \ {f}
    /\ UNCHANGED <<device, stage, menu, crashes>>

InitFilesDone ==
    /\ stage = "init"
    /\ todo = {}
    /\ job = NoJob
    /\ stage' = "sign2"
    /\ UNCHANGED <<device, todo, job, menu, before, crashes>>

\* DataWrite of sSignatureLong to address2 and then address1.  A block
\* already right is rewritten with itself.
WriteSignature ==
    /\ stage \in {"sign2", "sign1"}
    /\ LET c == IF stage = "sign2" THEN 2 ELSE 1 IN
       IF sig[c] < SigBlocks
         THEN /\ sig' = [sig EXCEPT ![c] = @ + 1]
              /\ UNCHANGED stage
         ELSE /\ stage' = IF c = 2 THEN "sign1" ELSE "header"
              /\ UNCHANGED sig
    /\ UNCHANGED <<data, stat, todo, job, menu, before, crashes>>

InitSaveHeader ==
    /\ stage = "header"
    /\ IF DataDoubleReadWithStatus(Header).ret = 1
         THEN UNCHANGED <<job, before>>
         ELSE Start("MCZ3", Header, Default)
    /\ stage' = "files"
    /\ todo' = Slots
    /\ UNCHANGED <<device, menu, crashes>>

\* Mutant: the screen looks at the first copy only.
ResetUnlessFirstCopyGood ==
    /\ stage = "files"
    /\ job = NoJob
    /\ \E f \in todo :
          /\ \A g \in todo : f <= g
          /\ IF ~CopyValid(f, 1) /\ CopyStatus(f, 1) # 1
               THEN Start("FleD", f, Default)
               ELSE UNCHANGED <<job, before>>
          /\ todo' = todo \ {f}
    /\ UNCHANGED <<device, stage, menu, crashes>>

\* The file-select screen reads the three files in order; one that is
\* corrupt is marked deleted on the spot.
ResetEmptyOrDeletedSaveFile ==
    /\ stage = "files"
    /\ job = NoJob
    /\ \E f \in todo :
          /\ \A g \in todo : f <= g
          /\ IF DataDoubleReadWithStatus(f).ret = -1
               THEN Start("FleD", f, Default)
               ELSE UNCHANGED <<job, before>>
          /\ todo' = todo \ {f}
    /\ UNCHANGED <<device, stage, menu, crashes>>

FileScreenReady ==
    /\ stage = "files"
    /\ todo = {}
    /\ job = NoJob
    /\ stage' = "idle"
    /\ UNCHANGED <<device, todo, job, menu, before, crashes>>

-----------------------------------------------------------------------------
(* HandleSave: fade out, count down, write, fade in, answer.               *)

Requests == [kind : {"MCZ3"}, file : Slots \cup {Header}, payload : Payloads]
            \cup [kind : {"FleD"}, file : Slots, payload : {Default}]

\* The caller keeps calling HandleSave; the volume has reached zero.
HandleSaveInit ==
    /\ stage = "idle"
    /\ panel = "SAVE_INIT"
    /\ ops < MaxOps
    /\ \E r \in Requests : request' = r
    /\ panel' = "SAVE_IN_PROGRESS"
    /\ field_0xa' = 8
    /\ ops' = ops + 1
    /\ UNCHANGED <<device, stage, todo, job, before, crashes>>

\* Mutant: the countdown is decremented before and after it reached zero.
CountBelowZero ==
    /\ panel = "SAVE_IN_PROGRESS"
    /\ job = NoJob
    /\ IF field_0xa = 0
         THEN Start(request.kind, request.file, request.payload)
         ELSE UNCHANGED <<job, before>>
    /\ field_0xa' = field_0xa - 1
    /\ UNCHANGED <<device, stage, todo, panel, request, ops, crashes>>

\* Mutant: the countdown is never decremented.
NeverCount ==
    /\ panel = "SAVE_IN_PROGRESS"
    /\ job = NoJob
    /\ field_0xa = 0
    /\ Start(request.kind, request.file, request.payload)
    /\ UNCHANGED <<device, stage, todo, menu, crashes>>

HandleSaveInProgress ==
    /\ panel = "SAVE_IN_PROGRESS"
    /\ job = NoJob
    /\ IF field_0xa = 0
         THEN Start(request.kind, request.file, request.payload) /\ UNCHANGED field_0xa
         ELSE field_0xa' = field_0xa - 1 /\ UNCHANGED <<job, before>>
    /\ UNCHANGED <<device, stage, todo, panel, request, ops, crashes>>

\* The volume is back: SAVE_OK when field_0xa is 1, SAVE_ERROR otherwise.
HandleSaveDone ==
    /\ panel = "SAVE_DONE"
    /\ panel' = "SAVE_INIT"
    /\ UNCHANGED <<device, stage, todo, job, field_0xa, request, ops, before, crashes>>

\* Back to the title screen and the file-select screen.
FileSelect ==
    /\ stage = "idle"
    /\ panel = "SAVE_INIT"
    /\ stage' = "files"
    /\ todo' = Slots
    /\ UNCHANGED <<device, job, menu, before, crashes>>

-----------------------------------------------------------------------------
(* Power loss.  It may come between any two block writes, with one         *)
(* exception, the environment assumption of this module: not while the     *)
(* only copy that holds the file's current value is being overwritten.     *)
(* save.c never repairs a copy it finds torn on a read, so a second power  *)
(* loss in the first half of the save after one that was cut in its        *)
(* second half does meet that state.                                       *)

OnlyCopyAtRisk ==
    /\ job # NoJob
    /\ job.kind = "MCZ3"
    /\ job.part # 1
    /\ LET other == 3 - job.copy IN
       /\ before.ret = 1
       /\ ~(CopyValid(job.file, other) /\ data[job.file][other] = before.data)
       /\ ~(CopyValid(job.file, other) /\ data[job.file][other] = Whole(job.payload))

PowerLoss ==
    /\ stage # "off"
    /\ crashes < MaxCrashes
    /\ ~OnlyCopyAtRisk
    /\ crashes' = crashes + 1
    /\ stage' = "off"
    /\ todo' = {}
    /\ job' = NoJob
    /\ panel' = "SAVE_INIT"
    /\ field_0xa' = 0
    /\ UNCHANGED <<device, request, ops, before>>

-----------------------------------------------------------------------------
Init ==
    /\ data = [f \in Files |-> [c \in Copies |-> Cleared]]
    /\ stat = [f \in Files |-> [c \in Copies |-> [main |-> Junk, alt |-> Junk]]]
    /\ sig = [c \in Copies |-> 0]
    /\ stage = "off"
    /\ todo = {}
    /\ job = NoJob
    /\ panel = "SAVE_INIT"
    /\ field_0xa = 0
    /\ request = [kind |-> "MCZ3", file |-> Header, payload |-> Default]
    /\ before = Corrupt
    /\ ops = 0
    /\ crashes = 0

\* What the program does by itself, frame after frame.
Step ==
    \/ Program
    \/ InitSaveData
    \/ InitFile
    \/ InitFilesDone
    \/ WriteSignature
    \/ InitSaveHeader
    \/ ResetEmptyOrDeletedSaveFile
    \/ FileScreenReady
    \/ HandleSaveInProgress
    \/ HandleSaveDone

Next ==
    \/ Step
    \/ HandleSaveInit
    \/ FileSelect
    \/ PowerLoss

Spec == Init /\ [][Next]_vars

\* The frame loop of AgbMain runs as long as there is power.
FairSpec == Spec /\ WF_vars(Step)

-----------------------------------------------------------------------------
(* Properties.                                                             *)

Stages == {"off", "init", "sign2", "sign1", "header", "files", "idle"}

\* Every variable keeps the range its code can give it; the countdown of
\* HandleSaveInProgress never wraps below zero.
TypeOK ==
    /\ data \in [Files -> [Copies -> Contents]]
    /\ stat \in [Files -> [Copies -> [main : Statuses, alt : Statuses]]]
    /\ sig \in [Copies -> 0 .. SigBlocks]
    /\ stage \in Stages
    /\ todo \subseteq Files
    /\ job \in Jobs \cup {NoJob}
    /\ panel \in {"SAVE_INIT", "SAVE_IN_PROGRESS", "SAVE_DONE"}
    /\ field_0xa \in 0 .. 8
    /\ request \in Requests
    /\ before \in Results
    /\ ops \in 0 .. MaxOps
    /\ crashes \in 0 .. MaxCrashes

\* The store implements the atomic register: a reader of a file sees the
\* old value or the new one after a power loss inside a write, the new one
\* after the write returned, and no other file ever changes.
Busy(f) == job # NoJob /\ job.file = f
Value(f) == IF Busy(f) THEN before ELSE DataDoubleReadWithStatus(f)

Register == INSTANCE SaveRegister
    WITH Values <- Results, NoReq <- NoJob,
         store <- [f \in Files |-> Value(f)],
         req <- IF job = NoJob THEN NoJob
                ELSE [file |-> job.file, val |-> Outcome(job)],
         power <- IF stage = "off" THEN "off" ELSE "on"

SaveIsAtomic == Register!RegSpec

\* InitSaveData, InitSaveHeader and the file-select scan write to the store
\* on every start, and may be cut short at any block; a file that reads
\* back is the same after each of their steps.
BootKeepsSaves ==
    [][stage # "idle" =>
         \A f \in Files : DataDoubleReadWithStatus(f).ret = 1 =>
             DataDoubleReadWithStatus(f)' = DataDoubleReadWithStatus(f)]_vars

\* When HandleSave is about to answer SAVE_OK to a save, every copy whose
\* blocks can be programmed holds it: the redundancy is back, whatever
\* earlier power losses left of it.
Sound(f, c) == /\ \A b \in 1 .. NBlocks : <<f, c, b>> \notin Worn
               /\ <<f, c, StatusPart>> \notin Worn \/ <<f, c, AltPart>> \notin Worn

OkRestoresRedundancy ==
    panel = "SAVE_DONE" /\ field_0xa = 1 /\ request.kind = "MCZ3" =>
        \A c \in Copies : Sound(request.file, c) =>
            /\ CopyValid(request.file, c)
            /\ data[request.file][c] = Whole(request.payload)

\* The exception PowerLoss makes starts to matter with the second power
\* loss: a store that has never lost power and whose blocks can all be
\* programmed has no copy at risk, at any block of any save, deletion or boot.
WornFiles == {w[1] : w \in Worn}

FirstLossIsSafe == crashes = 0 /\ OnlyCopyAtRisk => job.file \in WornFiles

\* ParseSaveFileStatus says "2 for valid existing file": the status of a
\* save that HandleSave reports as done parses as 2.
OkParsesAsValid ==
    panel = "SAVE_DONE" /\ field_0xa = 1 /\ request.kind = "MCZ3" =>
        CopyStatus(request.file, 1) = 2

\* With power, a started save is answered and a boot reaches the game.
SaveAnswers == (panel = "SAVE_IN_PROGRESS") ~> (panel # "SAVE_IN_PROGRESS")
BootCompletes == (stage \notin {"off", "idle"}) ~> (stage \in {"off", "idle"})

-----------------------------------------------------------------------------
(* The inductive invariant behind SaveIsAtomic (module SaveStoreProofs).   *)

\* Without worn blocks a status block is one of those save.c writes, and
\* the block after it is never used.
Marks == {MarkStatus("TINI"), MarkStatus("FleD")}
Written == {Junk} \cup Marks \cup {FileStatus(p) : p \in Payloads}

StatusInv == \A f \in Files, c \in Copies :
    stat[f][c].main \in Written /\ stat[f][c].alt = Junk

\* How far the running job has come, and what that leaves readable.
DoubleWriteInv(f, p) ==
    /\ job.part \in 1 .. StatusPart
    /\ \A b \in 1 .. NBlocks : b < job.part => data[f][job.copy][b] = p
    /\ job.copy = 1 =>
         /\ job.part = 1 => DataDoubleReadWithStatus(f) = before
         /\ before.ret # 1 => ~CopyValid(f, 2)
         /\ before.ret = 0 => \E c \in Copies : CopyStatus(f, c) = 1
         /\ before.ret = -1 => \A c \in Copies : CopyStatus(f, c) # 1
    /\ job.copy = 2 =>
         /\ stat[f][1].main = FileStatus(p)
         /\ data[f][1] = Whole(p)

MarkInv(f, k) ==
    /\ job.part = StatusPart
    /\ job.copy = 2 => DataDoubleReadWithStatus(f) = before
    /\ job.copy = 1 =>
         /\ stat[f][2].main = MarkStatus(k)
         /\ DataDoubleReadWithStatus(f) \in {before, Empty}

JobInv == job # NoJob =>
    IF job.kind = "MCZ3" THEN DoubleWriteInv(job.file, job.payload)
                         ELSE MarkInv(job.file, job.kind)

IInv == StatusInv /\ JobInv
=============================================================================
