--------------------------- MODULE SaveStoreProofs ---------------------------
(***************************************************************************)
(* SaveStore implements SaveRegister, for every number of files, blocks,   *)
(* payloads, operations and power losses; and beyond atomicity, a save     *)
(* that is answered with SAVE_OK is in both copies, the first power loss   *)
(* costs no file, and a boot keeps every save.                             *)
(***************************************************************************)
EXTENDS SaveStore, TLAPS

\* The port's device: port_save.c never fails to program a block in range.
NoWear == Worn = {}

\* No save has the 16-bit sum 0 (see OkParsesAsValid).
NonZeroSums == \A p \in Payloads : Checksum[Whole(p)] # 0

-----------------------------------------------------------------------------
(* Type correctness.                                                       *)

LEMMA WholeType == ASSUME NEW p \in Payloads PROVE Whole(p) \in Contents
BY DEF Whole, Contents

LEMMA StatusType ==
    /\ Junk \in Statuses
    /\ \A k \in {"TINI", "FleD"} : MarkStatus(k) \in Statuses
    /\ \A p \in Payloads : FileStatus(p) \in Statuses
<1>0. WordMax \in Nat /\ WordMax \in Word
  BY DEF WordMax, Word
<1>1. Junk \in Statuses /\ \A k \in {"TINI", "FleD"} : MarkStatus(k) \in Statuses
  BY <1>0 DEF Junk, MarkStatus, Statuses, Kinds
<1>2. ASSUME NEW p \in Payloads PROVE FileStatus(p) \in Statuses
  <2>1. Checksum[Whole(p)] \in Word
    BY WholeType, SaveAssumption
  <2>2. \A w \in Word : Negated(w) \in Word
    BY <1>0 DEF Negated, Word
  <2>3. Negated(Checksum[Whole(p)]) \in Word
    BY <2>1, <2>2
  <2> QED BY <2>1, <2>3 DEF FileStatus, Statuses, Kinds
<1> QED BY <1>1, <1>2

LEMMA JobStatusType == \A j \in Jobs : JobStatus(j) \in Statuses
BY StatusType DEF Jobs, JobStatus

LEMMA ReadType ==
    ASSUME TypeOK, NEW f \in Files
    PROVE  DataDoubleReadWithStatus(f) \in Results
<1>1. data[f][1] \in Contents /\ data[f][2] \in Contents
  BY DEF TypeOK, Copies
<1> QED
  BY <1>1 DEF DataDoubleReadWithStatus, Results

LEMMA StartType ==
    ASSUME TypeOK, NEW k \in {"MCZ3", "TINI", "FleD"}, NEW f \in Files,
           NEW p \in Payloads, Start(k, f, p)
    PROVE  job' \in Jobs /\ before' \in Results
BY SaveAssumption, ReadType
   DEF Start, Jobs, JobFor, FirstCopy, FirstPart, Copies, Parts, StatusPart, AltPart

LEMMA StatusUpdateType ==
    ASSUME NEW d \in [Files -> [Copies -> [main : Statuses, alt : Statuses]]],
           NEW f \in Files, NEW c \in Copies, NEW s \in Statuses
    PROVE  /\ [d EXCEPT ![f][c].main = s]
                 \in [Files -> [Copies -> [main : Statuses, alt : Statuses]]]
           /\ [d EXCEPT ![f][c].alt = s]
                 \in [Files -> [Copies -> [main : Statuses, alt : Statuses]]]
OBVIOUS

LEMMA NextCopyType ==
    ASSUME TypeOK, job # NoJob, NEW ok \in BOOLEAN, NextCopy(ok)
    PROVE  /\ job' \in Jobs \cup {NoJob}
           /\ panel' \in {"SAVE_INIT", "SAVE_IN_PROGRESS", "SAVE_DONE"}
           /\ field_0xa' \in 0 .. 8
           /\ request' = request
           /\ ops' = ops
<1>1. job \in Jobs /\ NBlocks \in Nat \ {0}
  BY SaveAssumption DEF TypeOK
<1>2. CASE job.copy = FirstCopy(job.kind)
  <2>1. job' = [job EXCEPT !.copy = 3 - @, !.part = FirstPart(job.kind), !.ok = ok]
        /\ UNCHANGED menu
    BY <1>2 DEF NextCopy
  <2>2. 3 - job.copy \in Copies /\ FirstPart(job.kind) \in Parts
    BY <1>1 DEF Jobs, Copies, FirstPart, Parts, StatusPart, AltPart
  <2>3. job' \in Jobs
    BY <1>1, <2>1, <2>2 DEF Jobs
  <2> QED BY <2>1, <2>3 DEF TypeOK, menu
<1>3. CASE job.copy # FirstCopy(job.kind)
  <2>1. Return(ok)
    BY <1>3 DEF NextCopy
  <2> QED BY <2>1 DEF TypeOK, Return, JobResult
<1> QED BY <1>2, <1>3

LEMMA TypingStep == ASSUME TypeOK, [Next]_vars PROVE TypeOK'
<1>1. CASE Program
  <2>0. /\ job \in Jobs
        /\ job.ok \in BOOLEAN
        /\ job.file \in Files
        /\ job.copy \in Copies
        /\ job.payload \in Payloads
        /\ job.part \in 1 .. AltPart
        /\ JobStatus(job) \in Statuses
    BY <1>1, JobStatusType DEF Program, TypeOK, Jobs, Parts
  <2>1. CASE WriteData
    <3>1. data' \in [Files -> [Copies -> Contents]]
      <4>1. job.part \in 1 .. NBlocks
        BY <2>0, <2>1, SaveAssumption DEF WriteData, AltPart
      <4>2. CASE Programs
        <5>1. data' = [data EXCEPT ![job.file][job.copy][job.part] = job.payload]
          BY <2>1, <4>2 DEF WriteData
        <5>2. data \in [Files -> [Copies -> Contents]]
          BY DEF TypeOK
        <5> QED BY <2>0, <4>1, <5>1, <5>2 DEF Contents
      <4>3. CASE ~Programs
        BY <2>1, <4>3 DEF WriteData, TypeOK
      <4> QED BY <4>2, <4>3
    <3>2. CASE Programs
      <4>1. job' \in Jobs
        <5>1. job.part + 1 \in Parts
          BY <2>0, <2>1, SaveAssumption DEF WriteData, Jobs, Parts, AltPart
        <5>2. job' = [job EXCEPT !.part = job.part + 1]
          BY <2>1, <3>2 DEF WriteData
        <5> QED BY <2>0, <5>1, <5>2 DEF Jobs
      <4> QED BY <1>1, <2>1, <3>1, <3>2, <4>1 DEF Program, WriteData, TypeOK, menu
    <3>3. CASE ~Programs
      BY <1>1, <2>0, <2>1, <3>1, <3>3, NextCopyType DEF Program, WriteData, TypeOK
    <3> QED BY <3>2, <3>3
  <2>2. CASE WriteStatus
    <3>1. stat' \in [Files -> [Copies -> [main : Statuses, alt : Statuses]]]
      <4>1. CASE Programs
        <5>1. stat' = [stat EXCEPT ![job.file][job.copy].main = JobStatus(job)]
          BY <2>2, <4>1 DEF WriteStatus
        <5>2. stat \in [Files -> [Copies -> [main : Statuses, alt : Statuses]]]
          BY DEF TypeOK
        <5> QED BY <2>0, <5>1, <5>2, StatusUpdateType
      <4>2. CASE ~Programs
        BY <2>2, <4>2 DEF WriteStatus, TypeOK
      <4> QED BY <4>1, <4>2
    <3>2. CASE Programs
      BY <1>1, <2>2, <3>1, <3>2, NextCopyType DEF Program, WriteStatus, TypeOK
    <3>3. CASE ~Programs
      <4>1. job' \in Jobs
        <5>1. AltPart \in Parts
          BY SaveAssumption DEF Parts, AltPart
        <5>2. job' = [job EXCEPT !.part = AltPart]
          BY <2>2, <3>3 DEF WriteStatus
        <5> QED BY <2>0, <5>1, <5>2 DEF Jobs
      <4> QED BY <1>1, <2>2, <3>1, <3>3, <4>1 DEF Program, WriteStatus, TypeOK, menu
    <3> QED BY <3>2, <3>3
  <2>3. CASE WriteStatusAlt
    <3>1. stat' \in [Files -> [Copies -> [main : Statuses, alt : Statuses]]]
      <4>1. CASE Programs
        <5>1. stat' = [stat EXCEPT ![job.file][job.copy].alt = JobStatus(job)]
          BY <2>3, <4>1 DEF WriteStatusAlt
        <5>2. stat \in [Files -> [Copies -> [main : Statuses, alt : Statuses]]]
          BY DEF TypeOK
        <5> QED BY <2>0, <5>1, <5>2, StatusUpdateType
      <4>2. CASE ~Programs
        BY <2>3, <4>2 DEF WriteStatusAlt, TypeOK
      <4> QED BY <4>1, <4>2
    <3> QED
      BY <1>1, <2>0, <2>3, <3>1, NextCopyType
      DEF Program, WriteStatusAlt, TypeOK
  <2> QED BY <1>1, <2>1, <2>2, <2>3 DEF Program
<1>2. CASE InitSaveData
  BY <1>2 DEF InitSaveData, TypeOK, device, menu, Stages
<1>3. CASE InitFile
  BY <1>3, StartType, SaveAssumption DEF InitFile, TypeOK, device, menu
<1>4. CASE InitFilesDone
  BY <1>4 DEF InitFilesDone, TypeOK, device, menu, Stages
<1>5. CASE WriteSignature
  BY <1>5, SaveAssumption DEF WriteSignature, TypeOK, menu, Stages, Copies
<1>6. CASE InitSaveHeader
  BY <1>6, StartType, SaveAssumption
  DEF InitSaveHeader, TypeOK, device, menu, Stages, Files, Header
<1>7. CASE ResetEmptyOrDeletedSaveFile
  BY <1>7, StartType, SaveAssumption DEF ResetEmptyOrDeletedSaveFile, TypeOK, device, menu
<1>8. CASE FileScreenReady
  BY <1>8 DEF FileScreenReady, TypeOK, device, menu, Stages
<1>9. CASE HandleSaveInProgress
  <2>1. request.kind \in {"MCZ3", "TINI", "FleD"} /\ request.file \in Files
        /\ request.payload \in Payloads
    BY SaveAssumption DEF TypeOK, Requests, Files
  <2> QED
    BY <1>9, <2>1, StartType, SaveAssumption DEF HandleSaveInProgress, TypeOK, device
<1>10. CASE HandleSaveDone
  BY <1>10 DEF HandleSaveDone, TypeOK, device
<1>11. CASE HandleSaveInit
  BY <1>11, SaveAssumption DEF HandleSaveInit, TypeOK, device
<1>12. CASE FileSelect
  BY <1>12 DEF FileSelect, TypeOK, device, menu, Stages, Files
<1>13. CASE PowerLoss
  BY <1>13, SaveAssumption DEF PowerLoss, TypeOK, device, Stages
<1>14. CASE UNCHANGED vars
  BY <1>14 DEF vars, device, menu, TypeOK
<1> QED
  BY <1>1, <1>2, <1>3, <1>4, <1>5, <1>6, <1>7, <1>8, <1>9, <1>10, <1>11, <1>12,
     <1>13, <1>14 DEF Next, Step

\* TypeOK holds in every state, whatever the payloads, worn blocks and
\* power losses: the countdown never wraps, no job leaves its copy.
THEOREM Typing == Spec => []TypeOK
<1>1. Init => TypeOK
  BY SaveAssumption, StatusType
     DEF Init, TypeOK, Cleared, Contents, Results, Requests, Stages, Copies, Files, Header
<1>2. TypeOK /\ [Next]_vars => TypeOK'
  BY TypingStep
<1> QED
  BY <1>1, <1>2, PTL DEF Spec

-----------------------------------------------------------------------------
(* What a read returns, in terms of the two copies.                        *)

LEMMA ReadCases ==
    ASSUME NEW f \in Files
    PROVE  /\ CopyValid(f, 1) => DataDoubleReadWithStatus(f) = Loaded(data[f][1])
           /\ ~CopyValid(f, 1) /\ CopyValid(f, 2) =>
                DataDoubleReadWithStatus(f) = Loaded(data[f][2])
           /\ ~CopyValid(f, 1) /\ ~CopyValid(f, 2) =>
                DataDoubleReadWithStatus(f) =
                    IF \E c \in Copies : CopyStatus(f, c) = 1 THEN Empty ELSE Corrupt
BY DEF DataDoubleReadWithStatus

\* A read of a file depends on the blocks of that file only.
LEMMA ReadFrame ==
    ASSUME NEW f \in Files, data'[f] = data[f], stat'[f] = stat[f]
    PROVE  DataDoubleReadWithStatus(f)' = DataDoubleReadWithStatus(f)
BY DEF DataDoubleReadWithStatus, CopyValid, CopyStatus, ReadSaveFileStatus

LEMMA ParseWritten ==
    ASSUME NonZeroSums
    PROVE  /\ ParseSaveFileStatus(Junk) = 0
           /\ \A s \in Marks : ParseSaveFileStatus(s) = 1
           /\ \A p \in Payloads : ParseSaveFileStatus(FileStatus(p)) = 2
<1>1. ParseSaveFileStatus(Junk) = 0 /\ \A s \in Marks : ParseSaveFileStatus(s) = 1
  BY DEF ParseSaveFileStatus, Junk, Marks, MarkStatus
<1>2. ASSUME NEW p \in Payloads PROVE ParseSaveFileStatus(FileStatus(p)) = 2
  <2>1. Checksum[Whole(p)] \in Word /\ Checksum[Whole(p)] # 0
    BY WholeType, SaveAssumption DEF NonZeroSums
  <2>2. \A w \in Word : w # 0 => w + Negated(w) = WordMax + 1
    BY DEF Negated, Word, WordMax
  <2>3. /\ FileStatus(p).kind = "MCZ3"
        /\ FileStatus(p).checksum1 + FileStatus(p).checksum2 = WordMax + 1
    BY <2>1, <2>2 DEF FileStatus
  <2> QED BY <2>3 DEF ParseSaveFileStatus
<1> QED BY <1>1, <1>2

\* A copy is valid exactly when its status was written for its data, and
\* then the data is one whole payload.
LEMMA CopyFacts ==
    ASSUME NonZeroSums, TypeOK, StatusInv, NEW f \in Files, NEW c \in Copies
    PROVE  /\ CopyStatus(f, c) = 1 <=> stat[f][c].main \in Marks
           /\ CopyValid(f, c) <=>
                \E p \in Payloads : /\ stat[f][c].main = FileStatus(p)
                                    /\ Checksum[data[f][c]] = Checksum[Whole(p)]
           /\ CopyValid(f, c) => \E q \in Payloads : data[f][c] = Whole(q)
<1> DEFINE s == stat[f][c].main
<1>0. s \in Written /\ stat[f][c].alt = Junk /\ data[f][c] \in Contents
  BY DEF StatusInv, TypeOK
<1>1. CASE s = Junk
  <2>1. CopyStatus(f, c) = 0
    BY <1>0, <1>1, ParseWritten DEF CopyStatus, ReadSaveFileStatus
  <2>2. s \notin Marks /\ \A p \in Payloads : s # FileStatus(p)
    BY <1>1 DEF Junk, Marks, MarkStatus, FileStatus
  <2> QED BY <2>1, <2>2 DEF CopyValid
<1>2. CASE s \in Marks
  <2>1. CopyStatus(f, c) = 1
    BY <1>2, ParseWritten DEF CopyStatus, ReadSaveFileStatus
  <2>2. \A p \in Payloads : s # FileStatus(p)
    BY <1>2 DEF Marks, MarkStatus, FileStatus
  <2> QED BY <1>2, <2>1, <2>2 DEF CopyValid
<1>3. ASSUME NEW p \in Payloads, s = FileStatus(p)
      PROVE  /\ CopyStatus(f, c) = 2
             /\ s \notin Marks
             /\ CopyValid(f, c) <=> Checksum[data[f][c]] = Checksum[Whole(p)]
  <2>1. ReadSaveFileStatus(f, c) = s /\ CopyStatus(f, c) = 2
    BY <1>3, ParseWritten DEF CopyStatus, ReadSaveFileStatus
  <2>2. VerifyChecksum(s, data[f][c]) <=> Checksum[data[f][c]] = Checksum[Whole(p)]
    BY <1>3 DEF VerifyChecksum, FileStatus
  <2>3. s \notin Marks
    BY <1>3 DEF Marks, MarkStatus, FileStatus
  <2> QED BY <2>1, <2>2, <2>3 DEF CopyValid
<1>4. ASSUME NEW p \in Payloads, s = FileStatus(p), NEW q \in Payloads, s = FileStatus(q)
      PROVE  Checksum[Whole(p)] = Checksum[Whole(q)]
  BY <1>4 DEF FileStatus
<1>5. CASE \E p \in Payloads : s = FileStatus(p)
  <2>1. PICK p \in Payloads : s = FileStatus(p)
    BY <1>5
  <2>2. CopyValid(f, c) <=> Checksum[data[f][c]] = Checksum[Whole(p)]
    BY <1>3, <2>1
  <2> QED BY <1>0, <1>3, <1>4, <2>1, <2>2, TornDetected
<1> QED BY <1>0, <1>1, <1>2, <1>5 DEF Written

-----------------------------------------------------------------------------
(* The steps of a job, without worn blocks.                                *)

LEMMA JobType ==
    ASSUME TypeOK, job # NoJob
    PROVE  /\ job \in Jobs
           /\ job.kind \in {"MCZ3", "TINI", "FleD"}
           /\ job.file \in Files
           /\ job.payload \in Payloads
           /\ job.copy \in {1, 2}
           /\ job.part \in 1 .. AltPart
BY DEF TypeOK, Jobs, Copies, Parts

DataStep ==
    /\ job.kind = "MCZ3"
    /\ job.part \in 1 .. NBlocks
    /\ data' = [data EXCEPT ![job.file][job.copy][job.part] = job.payload]
    /\ stat' = stat
    /\ job' = [job EXCEPT !.part = job.part + 1]
    /\ before' = before

StatusStep ==
    /\ job.part = StatusPart
    /\ data' = data
    /\ stat' = [stat EXCEPT ![job.file][job.copy].main = JobStatus(job)]
    /\ IF job.copy = FirstCopy(job.kind)
         THEN job' = [job EXCEPT !.copy = 3 - job.copy, !.part = FirstPart(job.kind),
                                 !.ok = TRUE]
         ELSE job' = NoJob
    /\ before' = before

LEMMA ProgramStep ==
    ASSUME NoWear, TypeOK, IInv, Program
    PROVE  DataStep \/ StatusStep
<1>1. job # NoJob /\ Programs /\ before' = before
  BY DEF NoWear, Programs, Program
<1>2. job.part \in 1 .. StatusPart /\ (job.kind # "MCZ3" => job.part = StatusPart)
  BY <1>1, SaveAssumption DEF IInv, JobInv, DoubleWriteInv, MarkInv, StatusPart
<1>3. CASE WriteData
  <2>1. job.part \in 1 .. NBlocks
    BY <1>2, <1>3, SaveAssumption DEF WriteData, StatusPart
  <2>2. job.kind = "MCZ3"
    BY <1>2, <2>1, SaveAssumption DEF StatusPart
  <2> QED BY <1>1, <1>3, <2>1, <2>2 DEF WriteData, DataStep
<1>4. CASE WriteStatus
  BY <1>1, <1>4 DEF WriteStatus, NextCopy, Return, StatusStep
<1>5. ~WriteStatusAlt
  <2>1. AltPart \notin 1 .. StatusPart
    BY SaveAssumption DEF AltPart, StatusPart
  <2> QED BY <1>2, <2>1 DEF WriteStatusAlt
<1> QED BY <1>3, <1>4, <1>5 DEF Program

-----------------------------------------------------------------------------
(* IInv is inductive.                                                      *)

LEMMA InitIInv == Init => IInv
BY DEF Init, IInv, StatusInv, JobInv, Written

\* A read of f in terms of its copies, as JobInv needs it when a job starts.
LEMMA ReadRets ==
    ASSUME NEW f \in Files
    PROVE  LET r == DataDoubleReadWithStatus(f) IN
           /\ r.ret # 1 => ~CopyValid(f, 1) /\ ~CopyValid(f, 2)
           /\ r.ret = 0 => \E c \in Copies : CopyStatus(f, c) = 1
           /\ r.ret = -1 => \A c \in Copies : CopyStatus(f, c) # 1
BY ReadCases DEF Loaded, Empty, Corrupt

LEMMA StartIInv ==
    ASSUME TypeOK, IInv, NEW k \in {"MCZ3", "TINI", "FleD"}, NEW f \in Files,
           NEW p \in Payloads, Start(k, f, p), UNCHANGED <<data, stat>>
    PROVE  IInv'
<1>1. StatusInv'
  BY DEF IInv, StatusInv
<1>2. /\ job'.kind = k /\ job'.file = f /\ job'.payload = p
      /\ job'.copy = FirstCopy(k) /\ job'.part = FirstPart(k)
      /\ before' = DataDoubleReadWithStatus(f)
  BY DEF Start, JobFor
<1>3. DataDoubleReadWithStatus(f)' = DataDoubleReadWithStatus(f)
  <2>1. data'[f] = data[f] /\ stat'[f] = stat[f]
    OBVIOUS
  <2> QED BY <2>1, ReadFrame
<1>4. \A c \in Copies : /\ CopyValid(f, c)' = CopyValid(f, c)
                        /\ CopyStatus(f, c)' = CopyStatus(f, c)
  BY DEF CopyValid, CopyStatus, ReadSaveFileStatus
<1>5. CASE k = "MCZ3"
  <2>1. job'.part = 1 /\ job'.copy = 1
    BY <1>2, <1>5 DEF FirstPart, FirstCopy
  <2>2. DoubleWriteInv(f, p)'
    BY <1>2, <1>3, <1>4, <2>1, ReadRets, SaveAssumption
    DEF DoubleWriteInv, StatusPart, Copies
  <2> QED BY <1>1, <1>2, <1>5, <2>2 DEF IInv, JobInv
<1>6. CASE k # "MCZ3"
  <2>1. job'.part = StatusPart /\ job'.copy = 2
    BY <1>2, <1>6 DEF FirstPart, FirstCopy
  <2>2. MarkInv(f, k)'
    BY <1>2, <1>3, <2>1 DEF MarkInv
  <2> QED BY <1>1, <1>2, <1>6, <2>2 DEF IInv, JobInv
<1> QED BY <1>5, <1>6

LEMMA DataStepIInv ==
    ASSUME NonZeroSums, TypeOK, IInv, job # NoJob, DataStep
    PROVE  IInv'
<1> DEFINE f == job.file  c == job.copy  p == job.payload
<1>1. /\ f \in Files /\ c \in {1, 2} /\ p \in Payloads /\ job \in Jobs
      /\ data[f][c] \in Contents
      /\ data \in [Files -> [Copies -> Contents]]
  BY JobType DEF TypeOK, Copies
<1>2. DoubleWriteInv(f, p) /\ StatusInv
  BY DEF IInv, JobInv, DataStep
<1>3. /\ job'.kind = "MCZ3" /\ job'.file = f /\ job'.payload = p
      /\ job'.copy = c /\ job'.part = job.part + 1
  BY <1>1 DEF DataStep, Jobs
<1>4. \A g \in Files, d \in Copies : (g # f \/ d # c) => data'[g][d] = data[g][d]
  BY <1>1 DEF DataStep, Copies
<1>5. data'[f][c] = [data[f][c] EXCEPT ![job.part] = p]
  BY <1>1 DEF DataStep, Copies
<1>6. \A b \in 1 .. NBlocks : b < job.part + 1 => data'[f][c][b] = p
  <2> SUFFICES ASSUME NEW b \in 1 .. NBlocks, b < job.part + 1
               PROVE  data'[f][c][b] = p
    OBVIOUS
  <2>1. job.part \in 1 .. NBlocks
    BY DEF DataStep
  <2>2. CASE b = job.part
    BY <1>1, <1>5, <2>2 DEF Contents
  <2>3. CASE b # job.part
    <3>1. b < job.part /\ data'[f][c][b] = data[f][c][b]
      BY <1>1, <1>5, <2>1, <2>3, SaveAssumption DEF Contents
    <3> QED BY <1>2, <3>1 DEF DoubleWriteInv
  <2> QED BY <2>2, <2>3
<1>7. job.part + 1 \in 1 .. StatusPart /\ job.part + 1 # 1
  BY SaveAssumption DEF DataStep, StatusPart
<1>8. CASE c = 1
  <2>1. data'[f][2] = data[f][2]
    BY <1>1, <1>4, <1>8 DEF Copies
  <2>2. CopyValid(f, 2)' = CopyValid(f, 2)
    BY <2>1 DEF DataStep, CopyValid, CopyStatus, ReadSaveFileStatus
  <2>3. \A d \in Copies : CopyStatus(f, d)' = CopyStatus(f, d)
    BY DEF DataStep, CopyStatus, ReadSaveFileStatus
  <2>4. DoubleWriteInv(f, p)'
    BY <1>2, <1>3, <1>6, <1>7, <1>8, <2>2, <2>3 DEF DoubleWriteInv, DataStep
  <2> QED BY <1>2, <1>3, <2>4 DEF IInv, JobInv, StatusInv, DataStep
<1>9. CASE c = 2
  <2>1. data'[f][1] = data[f][1]
    BY <1>1, <1>4, <1>9 DEF Copies
  <2>2. DoubleWriteInv(f, p)'
    BY <1>2, <1>3, <1>6, <1>7, <1>9, <2>1 DEF DoubleWriteInv, DataStep
  <2> QED BY <1>2, <1>3, <2>2 DEF IInv, JobInv, StatusInv, DataStep
<1> QED BY <1>1, <1>8, <1>9

\* The status a job writes, and what else a status step leaves alone.
LEMMA StatusStepFacts ==
    ASSUME TypeOK, IInv, job # NoJob, StatusStep
    PROVE  /\ JobStatus(job) \in Written
           /\ stat'[job.file][job.copy].main = JobStatus(job)
           /\ stat'[job.file][job.copy].alt = stat[job.file][job.copy].alt
           /\ \A g \in Files, d \in Copies :
                  (g # job.file \/ d # job.copy) => stat'[g][d] = stat[g][d]
           /\ StatusInv'
<1>1. /\ job \in Jobs /\ job.file \in Files /\ job.copy \in Copies /\ job.payload \in Payloads
      /\ job.kind \in {"MCZ3", "TINI", "FleD"}
      /\ stat \in [Files -> [Copies -> [main : Statuses, alt : Statuses]]]
  BY JobType DEF TypeOK, Copies
<1>2. JobStatus(job) \in Written
  BY <1>1 DEF JobStatus, Written, Marks
<1>3. stat' = [stat EXCEPT ![job.file][job.copy].main = JobStatus(job)]
  BY DEF StatusStep
<1>4. /\ stat'[job.file][job.copy].main = JobStatus(job)
      /\ stat'[job.file][job.copy].alt = stat[job.file][job.copy].alt
      /\ \A g \in Files, d \in Copies :
             (g # job.file \/ d # job.copy) => stat'[g][d] = stat[g][d]
  BY <1>1, <1>3
<1>5. StatusInv'
  BY <1>1, <1>2, <1>4 DEF IInv, StatusInv
<1> QED BY <1>2, <1>4, <1>5

\* ReadCases and CopyFacts of the state a step leads to.
CopyFact(f, c) ==
    /\ CopyStatus(f, c) = 1 <=> stat[f][c].main \in Marks
    /\ CopyValid(f, c) <=>
         \E p \in Payloads : /\ stat[f][c].main = FileStatus(p)
                             /\ Checksum[data[f][c]] = Checksum[Whole(p)]
    /\ CopyValid(f, c) => \E q \in Payloads : data[f][c] = Whole(q)

ReadFact(f) ==
    /\ CopyValid(f, 1) => DataDoubleReadWithStatus(f) = Loaded(data[f][1])
    /\ ~CopyValid(f, 1) /\ CopyValid(f, 2) =>
         DataDoubleReadWithStatus(f) = Loaded(data[f][2])
    /\ ~CopyValid(f, 1) /\ ~CopyValid(f, 2) =>
         DataDoubleReadWithStatus(f) =
             IF \E c \in Copies : CopyStatus(f, c) = 1 THEN Empty ELSE Corrupt

StoreFacts == TypeOK /\ StatusInv =>
    \A f \in Files : ReadFact(f) /\ \A c \in Copies : CopyFact(f, c)

LEMMA StoreFactsHold == NonZeroSums => StoreFacts
BY CopyFacts, ReadCases DEF StoreFacts, CopyFact, ReadFact

LEMMA StoreFactsNext == ASSUME NonZeroSums PROVE StoreFacts /\ StoreFacts'
<1>1. StoreFacts
  BY StoreFactsHold
<1>2. StoreFacts'
  BY <1>1, PTL
<1> QED BY <1>1, <1>2

\* The two ways a job can end, as reads of its file.
LEMMA StatusStepReads ==
    ASSUME NonZeroSums, TypeOK, TypeOK', IInv, job # NoJob, StatusStep,
           NEW f, f = job.file
    PROVE  /\ job.copy # FirstCopy(job.kind) =>
                DataDoubleReadWithStatus(f)' = Outcome(job)
           /\ job.kind # "MCZ3" /\ job.copy = 2 =>
                DataDoubleReadWithStatus(f)' \in {before, Empty}
<1> DEFINE c == job.copy  p == job.payload  k == job.kind
<1>1. /\ f \in Files /\ c \in Copies /\ p \in Payloads /\ c \in {1, 2}
      /\ 1 \in Copies /\ 2 \in Copies
      /\ k \in {"MCZ3", "TINI", "FleD"}
  BY JobType DEF Copies
<1>2. /\ stat'[f][c].main = JobStatus(job)
      /\ \A g \in Files, d \in Copies : (g # f \/ d # c) => stat'[g][d] = stat[g][d]
      /\ StatusInv' /\ StatusInv
  BY StatusStepFacts DEF IInv
<1>3. ReadFact(f)' /\ CopyFact(f, 1)' /\ CopyFact(f, 2)' /\ ReadFact(f) /\ CopyFact(f, 1)
  BY <1>1, <1>2, StoreFactsNext DEF StoreFacts
<1>4. data' = data
  BY DEF StatusStep
<1>5. CASE k = "MCZ3" /\ c = 2
  <2>1. stat[f][1].main = FileStatus(p) /\ data[f][1] = Whole(p)
    BY <1>5 DEF IInv, JobInv, DoubleWriteInv
  <2>2. stat'[f][1] = stat[f][1]
    BY <1>1, <1>2, <1>5
  <2>3. CopyValid(f, 1)'
    BY <1>1, <1>3, <1>4, <2>1, <2>2 DEF CopyFact
  <2> QED BY <1>3, <1>4, <1>5, <2>1, <2>3 DEF ReadFact, Outcome
<1>6. CASE k # "MCZ3" /\ c = 1
  <2>1. stat[f][2].main = MarkStatus(k) /\ stat'[f][2] = stat[f][2]
    BY <1>1, <1>2, <1>6 DEF IInv, JobInv, MarkInv
  <2>2. stat'[f][1].main \in Marks /\ stat'[f][2].main \in Marks
    BY <1>1, <1>2, <1>6, <2>1 DEF JobStatus, Marks
  <2>3. CopyStatus(f, 1)' = 1 /\ CopyStatus(f, 2)' = 1
    BY <1>3, <2>2 DEF CopyFact
  <2>4. ~CopyValid(f, 1)' /\ ~CopyValid(f, 2)'
    BY <2>3 DEF CopyValid
  <2>5. DataDoubleReadWithStatus(f)' = Empty
    BY <1>1, <1>3, <2>3, <2>4 DEF ReadFact
  <2> QED BY <1>6, <2>5 DEF Outcome
<1>7. CASE k # "MCZ3" /\ c = 2
  <2>1. DataDoubleReadWithStatus(f) = before
    BY <1>7 DEF IInv, JobInv, MarkInv
  <2>2. stat'[f][2].main \in Marks
    BY <1>1, <1>2, <1>7 DEF JobStatus, Marks
  <2>3. CopyStatus(f, 2)' = 1
    BY <1>3, <2>2 DEF CopyFact
  <2>4. ~CopyValid(f, 2)'
    BY <2>3 DEF CopyValid
  <2>5. stat'[f][1] = stat[f][1]
    BY <1>1, <1>2, <1>7
  <2>6. CopyValid(f, 1)' <=> CopyValid(f, 1)
    BY <1>4, <2>5 DEF CopyValid, CopyStatus, ReadSaveFileStatus
  <2>7. ASSUME CopyValid(f, 1) PROVE DataDoubleReadWithStatus(f)' = before
    <3>1. DataDoubleReadWithStatus(f) = Loaded(data[f][1])
      BY <1>3, <2>7 DEF ReadFact
    <3>2. DataDoubleReadWithStatus(f)' = Loaded(data'[f][1])
      BY <1>3, <2>6, <2>7 DEF ReadFact
    <3> QED BY <1>4, <2>1, <3>1, <3>2
  <2>8. ASSUME ~CopyValid(f, 1) PROVE DataDoubleReadWithStatus(f)' = Empty
    BY <1>1, <1>3, <2>3, <2>4, <2>6, <2>8 DEF ReadFact
  <2> QED BY <1>7, <2>7, <2>8 DEF FirstCopy
<1> QED BY <1>1, <1>5, <1>6, <1>7 DEF FirstCopy

LEMMA StatusStepIInv ==
    ASSUME NonZeroSums, TypeOK, TypeOK', IInv, job # NoJob, StatusStep,
           NEW f, f = job.file, NEW p, p = job.payload, NEW k, k = job.kind
    PROVE  IInv'
<1> DEFINE c == job.copy
<1>1. /\ f \in Files /\ c \in {1, 2} /\ p \in Payloads /\ job \in Jobs
      /\ 1 \in Copies /\ 2 \in Copies
      /\ k \in {"MCZ3", "TINI", "FleD"}
  BY JobType DEF Copies
<1>2. StatusInv' /\ stat'[f][c].main = JobStatus(job)
  BY StatusStepFacts
<1>3. CASE c # FirstCopy(k)
  <2>1. job' = NoJob
    BY <1>3 DEF StatusStep
  <2> QED BY <1>2, <2>1 DEF IInv, JobInv
<1>4. CASE c = FirstCopy(k)
  <2>1. job' = [job EXCEPT !.copy = 3 - c, !.part = FirstPart(k), !.ok = TRUE]
    BY <1>4 DEF StatusStep
  <2>2. /\ job'.kind = k /\ job'.file = f /\ job'.payload = p
        /\ job'.copy = 3 - c /\ job'.part = FirstPart(k)
    BY <1>1, <2>1 DEF Jobs
  <2>3. CASE k = "MCZ3"
    <3>1. c = 1 /\ job'.copy = 2 /\ job'.part = 1
      BY <1>4, <2>2, <2>3 DEF FirstCopy, FirstPart
    <3>2. stat'[f][1].main = FileStatus(p)
      BY <1>2, <2>3, <3>1 DEF JobStatus
    <3>3. data'[f][1] = Whole(p)
      <4>1. \A b \in 1 .. NBlocks : data[f][1][b] = p
        BY <2>3, <3>1, SaveAssumption
        DEF IInv, JobInv, DoubleWriteInv, StatusStep, StatusPart
      <4>2. data[f][1] \in Contents
        BY <1>1 DEF TypeOK
      <4> QED BY <4>1, <4>2 DEF StatusStep, Contents, Whole
    <3>4. DoubleWriteInv(f, p)'
      BY <2>2, <3>1, <3>2, <3>3, SaveAssumption DEF DoubleWriteInv, StatusPart
    <3> QED BY <1>2, <2>2, <2>3, <3>4 DEF IInv, JobInv
  <2>4. CASE k # "MCZ3"
    <3>1. c = 2 /\ job'.copy = 1 /\ job'.part = StatusPart
      BY <1>4, <2>2, <2>4 DEF FirstCopy, FirstPart
    <3>2. stat'[f][2].main = MarkStatus(k)
      BY <1>2, <2>4, <3>1 DEF JobStatus
    <3>3. DataDoubleReadWithStatus(f)' \in {before, Empty} /\ before' = before
      BY <2>4, <3>1, StatusStepReads DEF StatusStep
    <3>4. MarkInv(f, k)'
      BY <3>1, <3>2, <3>3 DEF MarkInv
    <3> QED BY <1>2, <2>2, <2>4, <3>4 DEF IInv, JobInv
  <2> QED BY <2>3, <2>4
<1> QED BY <1>3, <1>4

LEMMA IInvFrame ==
    ASSUME IInv, UNCHANGED <<data, stat, job, before>>
    PROVE  IInv'
BY DEF IInv, StatusInv, JobInv, DoubleWriteInv, MarkInv, DataDoubleReadWithStatus,
       CopyValid, CopyStatus, ReadSaveFileStatus

LEMMA PowerLossIInv == ASSUME IInv, PowerLoss PROVE IInv'
BY DEF IInv, StatusInv, JobInv, PowerLoss, device

-----------------------------------------------------------------------------
(* Every step is one of four kinds, as far as files and jobs are concerned.*)

\* The third variable of the register, by name.
regPower == IF stage = "off" THEN "off" ELSE "on"

StartStep == \E k \in {"MCZ3", "TINI", "FleD"}, f \in Files, p \in Payloads :
    Start(k, f, p) /\ UNCHANGED <<data, stat, regPower>>

LEMMA StepKinds ==
    ASSUME TypeOK, [Next]_vars
    PROVE  \/ Program /\ UNCHANGED regPower
           \/ StartStep
           \/ PowerLoss
           \/ /\ UNCHANGED <<data, stat, job, before>>
              /\ UNCHANGED regPower \/ (regPower = "off" /\ regPower' = "on")
<1>0. CASE Program
  BY <1>0 DEF Program, regPower
<1>1. CASE InitSaveData
  BY <1>1 DEF InitSaveData, device, regPower
<1>2. CASE InitFile
  BY <1>2, SaveAssumption DEF InitFile, device, StartStep, regPower, TypeOK
<1>3. CASE InitFilesDone
  BY <1>3 DEF InitFilesDone, device, regPower
<1>4. CASE WriteSignature
  BY <1>4 DEF WriteSignature, regPower
<1>5. CASE InitSaveHeader
  BY <1>5, SaveAssumption DEF InitSaveHeader, device, StartStep, regPower, Files
<1>6. CASE ResetEmptyOrDeletedSaveFile
  BY <1>6, SaveAssumption DEF ResetEmptyOrDeletedSaveFile, device, StartStep, regPower, TypeOK
<1>7. CASE FileScreenReady
  BY <1>7 DEF FileScreenReady, device, regPower
<1>8. CASE HandleSaveInProgress
  <2>1. request.kind \in {"MCZ3", "TINI", "FleD"} /\ request.file \in Files
        /\ request.payload \in Payloads
    BY SaveAssumption DEF TypeOK, Requests, Files
  <2> QED BY <1>8, <2>1 DEF HandleSaveInProgress, device, StartStep, regPower
<1>9. CASE HandleSaveDone
  BY <1>9 DEF HandleSaveDone, device, regPower
<1>10. CASE HandleSaveInit
  BY <1>10 DEF HandleSaveInit, device, regPower
<1>11. CASE FileSelect
  BY <1>11 DEF FileSelect, device, regPower
<1>12. CASE UNCHANGED vars
  BY <1>12 DEF vars, device, regPower
<1> QED
  BY <1>0, <1>1, <1>2, <1>3, <1>4, <1>5, <1>6, <1>7, <1>8, <1>9, <1>10, <1>11, <1>12
  DEF Next, Step

LEMMA IInvStep ==
    ASSUME NonZeroSums, NoWear, TypeOK, TypeOK', IInv, [Next]_vars
    PROVE  IInv'
<1>1. CASE Program
  BY <1>1, ProgramStep, DataStepIInv, StatusStepIInv DEF Program
<1>2. CASE StartStep
  BY <1>2, StartIInv DEF StartStep
<1>3. CASE PowerLoss
  BY <1>3, PowerLossIInv
<1>4. CASE UNCHANGED <<data, stat, job, before>>
  BY <1>4, IInvFrame
<1> QED BY <1>1, <1>2, <1>3, <1>4, StepKinds

-----------------------------------------------------------------------------
(* Every step maps to a step of the register or to a stutter.              *)

RegStep == [Register!RegNext]_(Register!regVars)

\* The other two variables of the register.
regStore == [f \in Files |-> Value(f)]
regReq == IF job = NoJob THEN NoJob ELSE [file |-> job.file, val |-> Outcome(job)]

LEMMA RegStepIs ==
    ASSUME UNCHANGED regPower,
           \/ regStore' = regStore /\ regReq' = regReq
           \/ /\ regReq = NoJob
              /\ regReq' \in [file : Files, val : Results]
              /\ regStore' = regStore
           \/ /\ regReq # NoJob
              /\ regReq' = NoJob
              /\ regStore' = [regStore EXCEPT ![regReq.file] = regReq.val]
    PROVE  RegStep
BY DEF RegStep, regStore, regReq, regPower, Register!RegNext, Register!regVars,
       Register!Begin, Register!End, Register!TakeEffect, Register!Requests

LEMMA PowerOnIs ==
    ASSUME regPower = "off", regPower' = "on", UNCHANGED <<regStore, regReq>>
    PROVE  RegStep
BY DEF RegStep, regStore, regReq, regPower, Register!RegNext, Register!PowerOn

LEMMA PowerOffIs ==
    ASSUME regPower = "on", regPower' = "off", regReq' = NoJob,
           \/ regStore' = regStore
           \/ /\ regReq # NoJob
              /\ regStore' = [regStore EXCEPT ![regReq.file] = regReq.val]
    PROVE  RegStep
BY DEF RegStep, regStore, regReq, regPower, Register!RegNext, Register!PowerLoss,
       Register!TakeEffect

LEMMA JobIsReq ==
    /\ job # NoJob => /\ regReq = [file |-> job.file, val |-> Outcome(job)]
                      /\ regReq # NoJob
    /\ job = NoJob => regReq = NoJob
BY DEF regReq, NoJob

LEMMA OutcomeType == \A j \in Jobs : Outcome(j) \in Results
BY WholeType DEF Jobs, Outcome, Results

LEMMA StartRefines ==
    ASSUME TypeOK, TypeOK', StartStep
    PROVE  RegStep
<1>1. PICK k \in {"MCZ3", "TINI", "FleD"}, f \in Files, p \in Payloads : Start(k, f, p)
  BY DEF StartStep
<1>2. /\ job = NoJob /\ job' = JobFor(k, f, p) /\ job' # NoJob
      /\ job'.file = f /\ before' = DataDoubleReadWithStatus(f)
  BY <1>1 DEF Start, JobFor, NoJob
<1>3. \A g \in Files : Value(g)' = Value(g)
  <2> SUFFICES ASSUME NEW g \in Files PROVE Value(g)' = Value(g)
    OBVIOUS
  <2>1. DataDoubleReadWithStatus(g)' = DataDoubleReadWithStatus(g)
    <3>1. data'[g] = data[g] /\ stat'[g] = stat[g]
      BY DEF StartStep
    <3> QED BY <3>1, ReadFrame
  <2> QED BY <1>2, <2>1 DEF Value, Busy
<1>4. regStore' = regStore
  BY <1>3 DEF regStore
<1>5. regReq = NoJob /\ regReq' \in [file : Files, val : Results]
  <2>1. job' \in Jobs
    BY <1>1, StartType
  <2>2. regReq' = [file |-> job'.file, val |-> Outcome(job')]
    BY <1>2 DEF regReq, Outcome
  <2>3. Outcome(job') \in Results
    BY <2>1, OutcomeType
  <2> QED BY <1>2, <2>2, <2>3 DEF regReq
<1> QED BY <1>4, <1>5, RegStepIs DEF StartStep

LEMMA DataStepRefines ==
    ASSUME TypeOK, job # NoJob, DataStep, UNCHANGED regPower
    PROVE  RegStep
<1>1. /\ job' # NoJob /\ job'.file = job.file /\ job'.kind = job.kind
      /\ job'.payload = job.payload /\ job.file \in Files /\ job.copy \in Copies
  BY JobType DEF DataStep, Jobs, NoJob, Copies
<1>2. \A g \in Files : Value(g)' = Value(g)
  <2> SUFFICES ASSUME NEW g \in Files PROVE Value(g)' = Value(g)
    OBVIOUS
  <2>1. CASE g = job.file
    BY <1>1, <2>1 DEF Value, Busy, DataStep
  <2>2. CASE g # job.file
    <3>1. data'[g] = data[g] /\ stat'[g] = stat[g]
      BY <1>1, <2>2 DEF DataStep, TypeOK
    <3>2. DataDoubleReadWithStatus(g)' = DataDoubleReadWithStatus(g)
      BY <3>1, ReadFrame
    <3> QED BY <1>1, <2>2, <3>2 DEF Value, Busy
  <2> QED BY <2>1, <2>2
<1>3. regStore' = regStore
  BY <1>2 DEF regStore
<1>4. regReq' = regReq
  BY <1>1 DEF regReq, Outcome
<1> QED BY <1>3, <1>4, RegStepIs

LEMMA StatusStepRefines ==
    ASSUME NonZeroSums, TypeOK, TypeOK', IInv, job # NoJob, StatusStep,
           UNCHANGED regPower, NEW f, f = job.file
    PROVE  RegStep
<1>1. /\ f \in Files /\ job.copy \in Copies /\ job \in Jobs
      /\ data' = data /\ before' = before
  BY JobType DEF StatusStep, Copies
<1>2. \A g \in Files : g # f =>
        DataDoubleReadWithStatus(g)' = DataDoubleReadWithStatus(g)
  <2> SUFFICES ASSUME NEW g \in Files, g # f
               PROVE  DataDoubleReadWithStatus(g)' = DataDoubleReadWithStatus(g)
    OBVIOUS
  <2>1. data'[g] = data[g] /\ stat'[g] = stat[g]
    BY DEF StatusStep, TypeOK
  <2> QED BY <2>1, ReadFrame
<1>3. CASE job.copy = FirstCopy(job.kind)
  <2>1. /\ job' # NoJob /\ job'.file = f /\ job'.kind = job.kind
        /\ job'.payload = job.payload
    BY <1>1, <1>3, JobType DEF StatusStep, Jobs, NoJob
  <2>2. \A g \in Files : Value(g)' = Value(g)
    BY <1>1, <1>2, <2>1 DEF Value, Busy
  <2>3. regStore' = regStore
    BY <2>2 DEF regStore
  <2>4. regReq' = regReq
    BY <2>1 DEF regReq, Outcome
  <2> QED BY <2>3, <2>4, RegStepIs
<1>4. CASE job.copy # FirstCopy(job.kind)
  <2>1. job' = NoJob /\ DataDoubleReadWithStatus(f)' = Outcome(job)
    BY <1>4, StatusStepReads DEF StatusStep
  <2>2. /\ \A g \in Files : g # f => Value(g)' = Value(g)
        /\ Value(f)' = Outcome(job)
    BY <1>1, <1>2, <2>1 DEF Value, Busy
  <2>3. regStore' = [regStore EXCEPT ![f] = Outcome(job)]
    BY <1>1, <2>2 DEF regStore
  <2>4. regReq.file = f /\ regReq.val = Outcome(job) /\ regReq # NoJob /\ regReq' = NoJob
    BY <2>1, JobIsReq DEF regReq
  <2> QED BY <2>3, <2>4, RegStepIs
<1> QED BY <1>3, <1>4

\* After a power loss a reader sees the value before the job or the job's.
LEMMA PowerLossReads ==
    ASSUME NonZeroSums, TypeOK, IInv, job # NoJob, ~OnlyCopyAtRisk,
           NEW f, f = job.file, NEW p, p = job.payload
    PROVE  DataDoubleReadWithStatus(f) \in {before, Outcome(job)}
<1>1. /\ f \in Files /\ p \in Payloads /\ job.copy \in {1, 2} /\ 1 \in Copies /\ 2 \in Copies
      /\ job.kind \in {"MCZ3", "TINI", "FleD"} /\ before \in Results
      /\ data[f][1] \in Contents /\ data[f][2] \in Contents
  BY JobType DEF Copies, TypeOK
<1>2. ReadFact(f) /\ CopyFact(f, 1) /\ CopyFact(f, 2)
  BY <1>1, StoreFactsNext DEF StoreFacts, IInv
<1>3. CASE job.kind # "MCZ3"
  BY <1>1, <1>3 DEF IInv, JobInv, MarkInv, Outcome
<1>4. CASE job.kind = "MCZ3" /\ job.copy = 2
  <2>1. stat[f][1].main = FileStatus(p) /\ data[f][1] = Whole(p)
    BY <1>4 DEF IInv, JobInv, DoubleWriteInv
  <2>2. CopyValid(f, 1)
    BY <1>1, <1>2, <2>1 DEF CopyFact
  <2> QED BY <1>2, <1>4, <2>1, <2>2 DEF ReadFact, Outcome
<1>5. CASE job.kind = "MCZ3" /\ job.copy = 1
  <2>0. DoubleWriteInv(f, p) /\ Outcome(job) = Loaded(Whole(p))
    BY <1>5 DEF IInv, JobInv, Outcome
  <2>1. CASE job.part = 1
    BY <1>5, <2>0, <2>1 DEF DoubleWriteInv
  <2>2. CASE job.part # 1 /\ CopyValid(f, 1)
    <3>1. data[f][1][1] = p
      BY <1>5, <2>0, <2>2, SaveAssumption DEF DoubleWriteInv, StatusPart
    <3>2. PICK q \in Payloads : data[f][1] = Whole(q)
      BY <1>2, <2>2 DEF CopyFact
    <3>3. q = p
      BY <3>1, <3>2, SaveAssumption DEF Whole
    <3> QED BY <1>2, <2>0, <2>2, <3>2, <3>3 DEF ReadFact
  <2>3. CASE job.part # 1 /\ ~CopyValid(f, 1) /\ before.ret # 1
    <3>1. ~CopyValid(f, 2)
      BY <1>5, <2>0, <2>3 DEF DoubleWriteInv
    <3>2. before \in {Empty, Corrupt}
      BY <1>1, <2>3 DEF Results, Loaded
    <3>3. before = IF \E c \in Copies : CopyStatus(f, c) = 1 THEN Empty ELSE Corrupt
      BY <1>5, <2>0, <3>2 DEF DoubleWriteInv, Empty, Corrupt
    <3> QED BY <1>2, <2>3, <3>1, <3>3 DEF ReadFact
  <2>4. CASE job.part # 1 /\ ~CopyValid(f, 1) /\ before.ret = 1
    <3>1. CopyValid(f, 2) /\ data[f][2] \in {before.data, Whole(p)}
      BY <1>5, <2>4 DEF OnlyCopyAtRisk
    <3>2. before = Loaded(before.data)
      BY <1>1, <2>4 DEF Results, Loaded, Empty, Corrupt
    <3> QED BY <1>2, <2>0, <2>4, <3>1, <3>2 DEF ReadFact
  <2> QED BY <2>1, <2>2, <2>3, <2>4
<1> QED BY <1>1, <1>3, <1>4, <1>5

LEMMA PowerLossRefines ==
    ASSUME NonZeroSums, TypeOK, IInv, PowerLoss
    PROVE  RegStep
<1>1. job' = NoJob /\ data' = data /\ stat' = stat /\ ~OnlyCopyAtRisk
  BY DEF PowerLoss, device
<1>2. \A g \in Files : DataDoubleReadWithStatus(g)' = DataDoubleReadWithStatus(g)
  <2> SUFFICES ASSUME NEW g \in Files
               PROVE  DataDoubleReadWithStatus(g)' = DataDoubleReadWithStatus(g)
    OBVIOUS
  <2>1. data'[g] = data[g] /\ stat'[g] = stat[g]
    BY <1>1
  <2> QED BY <2>1, ReadFrame
<1>3. \A g \in Files : Value(g)' = DataDoubleReadWithStatus(g)
  BY <1>1, <1>2 DEF Value, Busy
<1>4. regReq' = NoJob
  BY <1>1 DEF regReq
<1>5. regPower = "on" /\ regPower' = "off"
  BY DEF PowerLoss, regPower
<1>6. CASE job = NoJob
  <2>1. regStore' = regStore
    BY <1>3, <1>6 DEF regStore, Value, Busy
  <2> QED BY <1>4, <1>6, <2>1, JobIsReq, <1>5, PowerOffIs
<1>7. CASE job # NoJob
  <2>1. PICK f \in Files : f = job.file
    BY <1>7, JobType
  <2>2. \A g \in Files : g # f => Value(g)' = Value(g)
    BY <1>3, <2>1 DEF Value, Busy
  <2>3. Value(f) = before /\ Value(f)' \in {before, Outcome(job)}
    <3>1. PICK p : p = job.payload
      OBVIOUS
    <3> QED BY <1>1, <1>3, <1>7, <2>1, <3>1, PowerLossReads DEF Value, Busy
  <2>4. regStore' \in {regStore, [regStore EXCEPT ![f] = Outcome(job)]}
    BY <2>1, <2>2, <2>3 DEF regStore
  <2>5. regReq.file = f /\ regReq.val = Outcome(job) /\ regReq # NoJob
    BY <1>7, <2>1, JobIsReq
  <2> QED BY <1>4, <2>4, <2>5, <1>5, PowerOffIs
<1> QED BY <1>6, <1>7

LEMMA FrameRefines ==
    ASSUME UNCHANGED <<data, stat, job, before>>,
           UNCHANGED regPower \/ (regPower = "off" /\ regPower' = "on")
    PROVE  RegStep
<1>1. \A g \in Files : Value(g)' = Value(g)
  BY DEF Value, Busy, DataDoubleReadWithStatus, CopyValid, CopyStatus, ReadSaveFileStatus
<1>2. regStore' = regStore /\ regReq' = regReq
  BY <1>1 DEF regStore, regReq, Outcome
<1> QED BY <1>2, RegStepIs, PowerOnIs

LEMMA StepRefines ==
    ASSUME NonZeroSums, NoWear, TypeOK, TypeOK', IInv, [Next]_vars
    PROVE  RegStep
<1>1. CASE Program /\ UNCHANGED regPower
  <2>1. job # NoJob
    BY <1>1 DEF Program
  <2>2. PICK f : f = job.file
    OBVIOUS
  <2> QED BY <1>1, <2>1, <2>2, ProgramStep, DataStepRefines, StatusStepRefines
<1>2. CASE StartStep
  BY <1>2, StartRefines
<1>3. CASE PowerLoss
  BY <1>3, PowerLossRefines
<1>4. CASE /\ UNCHANGED <<data, stat, job, before>>
           /\ UNCHANGED regPower \/ (regPower = "off" /\ regPower' = "on")
  BY <1>4, FrameRefines
<1> QED BY <1>1, <1>2, <1>3, <1>4, StepKinds

LEMMA InitRefines == ASSUME Init, TypeOK PROVE Register!RegInit
<1>1. \A f \in Files : Value(f) \in Results
  BY ReadType DEF Init, Value, Busy
<1> QED BY <1>1 DEF Init, Register!RegInit

\* The inductive invariant: a status block is always one save.c wrote, and
\* the blocks a running double write or mark has passed are its own.
THEOREM Inductive == ASSUME NonZeroSums, NoWear PROVE Spec => []IInv
<1>1. Init => IInv
  BY InitIInv
<1>2. TypeOK /\ TypeOK' /\ IInv /\ [Next]_vars => IInv'
  BY IInvStep
<1> QED BY <1>1, <1>2, Typing, PTL DEF Spec

\* The double-copy store of save.c is an atomic register per file, whatever
\* the number of files, the size of a file, the payloads and the power
\* losses: no read of a file ever mixes two saves, goes back past the last
\* one reported, or sees another file's operation.
THEOREM Atomicity == ASSUME NonZeroSums, NoWear PROVE Spec => SaveIsAtomic
<1>1. Init => Register!RegInit
  <2>1. Init => TypeOK
    BY SaveAssumption, StatusType
       DEF Init, TypeOK, Cleared, Contents, Results, Requests, Stages, Copies, Files, Header
  <2> QED BY <2>1, InitRefines
<1>2. TypeOK /\ TypeOK' /\ IInv /\ [Next]_vars
        => [Register!RegNext]_(Register!regVars)
  BY StepRefines DEF RegStep
<1> QED BY <1>1, <1>2, Typing, Inductive, PTL DEF Spec, SaveIsAtomic, Register!RegSpec

-----------------------------------------------------------------------------
(* Beyond atomicity: an invariant in three parts.                               *)

\* HandleSave and its job: what SAVE_DONE says of the device.
BothHold(f, p) == \A c \in Copies : stat[f][c].main = FileStatus(p) /\ data[f][c] = Whole(p)

AnswerInv ==
    /\ panel # "SAVE_INIT" => stage = "idle"
    /\ job # NoJob /\ stage = "idle" =>
         /\ panel = "SAVE_IN_PROGRESS"
         /\ job.kind = request.kind /\ job.file = request.file /\ job.payload = request.payload
    /\ panel = "SAVE_DONE" /\ request.kind = "MCZ3" =>
         BothHold(request.file, request.payload)

\* Until power is lost for the first time the copies of a file are equal,
\* but for what a running job has changed of one.
Same(f) == data[f][1] = data[f][2] /\ stat[f][1].main = stat[f][2].main

Mirrored(f) ==
    /\ ~Busy(f) => Same(f)
    /\ Busy(f) /\ job.kind # "MCZ3" => data[f][1] = data[f][2]
    /\ Busy(f) /\ job.kind = "MCZ3" /\ job.copy = 1 /\ before.ret = 1 =>
         CopyValid(f, 2) /\ data[f][2] = before.data

MirrorInv == crashes = 0 => \A f \in Files : Mirrored(f)

\* The second signature is complete before anything is saved, and no boot
\* marks a file that reads back.
Unsaved == \A f \in Files, c \in Copies : stat[f][c].main \in {Junk} \cup Marks

BootInv ==
    /\ sig[2] # SigBlocks => Unsaved
    /\ stage \in {"sign1", "header", "files", "idle"} => sig[2] = SigBlocks
    /\ stage = "init" => sig[2] # SigBlocks
    /\ job # NoJob => /\ stage \in {"init", "files", "idle"}
                      /\ stage = "init" => job.kind # "MCZ3"
                      /\ stage # "idle" => before.ret # 1

SInv == AnswerInv /\ MirrorInv /\ BootInv

-----------------------------------------------------------------------------
(* What a step of a job leaves alone.                                      *)

LEMMA ProgramMenu ==
    ASSUME NoWear, TypeOK, IInv, Program
    PROVE  /\ sig' = sig /\ stage' = stage /\ crashes' = crashes /\ request' = request
           /\ panel' = IF job' = NoJob /\ stage = "idle" THEN "SAVE_DONE" ELSE panel
<1>1. job # NoJob /\ Programs /\ UNCHANGED <<sig, stage, crashes>>
  BY DEF NoWear, Programs, Program
<1>2. job \in Jobs /\ NoJob \notin Jobs
  BY <1>1, JobType DEF Jobs, NoJob
<1>3. job.part \in 1 .. StatusPart /\ job.file \in Files /\ job.copy \in {1, 2}
  BY <1>1, JobType, SaveAssumption DEF IInv, JobInv, DoubleWriteInv, MarkInv, StatusPart
<1>4. CASE WriteData
  <2>1. job' = [job EXCEPT !.part = job.part + 1] /\ UNCHANGED menu
    BY <1>1, <1>4 DEF WriteData
  <2>2. job'.kind = job.kind
    BY <1>2, <2>1 DEF Jobs
  <2>3. job' # NoJob
    BY <1>2, <2>2 DEF Jobs, NoJob
  <2> QED BY <1>1, <2>1, <2>3 DEF menu
<1>5. CASE WriteStatus
  <2>1. NextCopy(TRUE)
    BY <1>1, <1>5 DEF WriteStatus
  <2>2. CASE job.copy = FirstCopy(job.kind)
    <3>1. /\ job' = [job EXCEPT !.copy = 3 - job.copy, !.part = FirstPart(job.kind), !.ok = TRUE]
          /\ UNCHANGED menu
      BY <2>1, <2>2 DEF NextCopy
    <3>2. job'.kind = job.kind
      BY <1>2, <3>1 DEF Jobs
    <3>3. job' # NoJob
      BY <1>2, <3>2 DEF Jobs, NoJob
    <3> QED BY <1>1, <3>1, <3>3 DEF menu
  <2>3. CASE job.copy # FirstCopy(job.kind)
    BY <1>1, <2>1, <2>3 DEF NextCopy, Return
  <2> QED BY <2>2, <2>3
<1>6. ~WriteStatusAlt
  <2>1. AltPart \notin 1 .. StatusPart
    BY SaveAssumption DEF AltPart, StatusPart
  <2> QED BY <1>3, <2>1 DEF WriteStatusAlt
<1> QED BY <1>4, <1>5, <1>6 DEF Program

\* A step of a job keeps its identity or ends it.
LEMMA JobGoesOn ==
    ASSUME TypeOK, job # NoJob, DataStep \/ StatusStep, job' # NoJob
    PROVE  /\ job'.kind = job.kind /\ job'.file = job.file /\ job'.payload = job.payload
           /\ before' = before
           /\ DataStep => job'.copy = job.copy
           /\ ~DataStep => job.copy = FirstCopy(job.kind) /\ job'.copy = 3 - job.copy
BY JobType DEF DataStep, StatusStep, Jobs

LEMMA OtherFiles ==
    ASSUME TypeOK, job # NoJob, DataStep \/ StatusStep, NEW g \in Files, g # job.file
    PROVE  data'[g] = data[g] /\ stat'[g] = stat[g]
BY JobType DEF DataStep, StatusStep, TypeOK

-----------------------------------------------------------------------------
(* SAVE_OK stands for two copies.                                          *)

\* The last step of a save finds its first copy as it left it.
LEMMA LastStepHolds ==
    ASSUME TypeOK, TypeOK', IInv, job # NoJob, StatusStep, job.kind = "MCZ3", job.copy = 2,
           NEW f, f = job.file, NEW p, p = job.payload
    PROVE  BothHold(f, p)'
<1>1. /\ f \in Files /\ p \in Payloads /\ 1 \in Copies /\ 2 \in Copies
      /\ data[f][2] \in Contents
  BY JobType DEF Copies, TypeOK
<1>2. DoubleWriteInv(f, p) /\ data' = data
  BY DEF IInv, JobInv, StatusStep
<1>3. stat[f][1].main = FileStatus(p) /\ data[f][1] = Whole(p)
  BY <1>2 DEF DoubleWriteInv
<1>4. data[f][2] = Whole(p)
  <2>1. \A b \in 1 .. NBlocks : data[f][2][b] = p
    BY <1>2, SaveAssumption DEF DoubleWriteInv, StatusStep, StatusPart
  <2> QED BY <1>1, <2>1 DEF Contents, Whole
<1>5. stat'[f][1] = stat[f][1] /\ stat'[f][2].main = FileStatus(p)
  BY <1>1, StatusStepFacts DEF JobStatus
<1> QED BY <1>2, <1>3, <1>4, <1>5 DEF BothHold, Copies, Whole, FileStatus, Negated

LEMMA AnswerFrame ==
    ASSUME AnswerInv, UNCHANGED <<data, stat, job, request>>, stage' = stage, panel' = panel
    PROVE  AnswerInv'
BY DEF AnswerInv, BothHold

LEMMA AnswerStep ==
    ASSUME NonZeroSums, NoWear, TypeOK, TypeOK', IInv, AnswerInv, BootInv, [Next]_vars
    PROVE  AnswerInv'
<1>1. CASE Program
  <2>0. job # NoJob /\ (DataStep \/ StatusStep)
    BY <1>1, ProgramStep DEF Program
  <2>1. /\ stage' = stage /\ request' = request
        /\ panel' = IF job' = NoJob /\ stage = "idle" THEN "SAVE_DONE" ELSE panel
    BY <1>1, ProgramMenu
  <2>2. CASE job' # NoJob
    <3>1. job'.kind = job.kind /\ job'.file = job.file /\ job'.payload = job.payload
      BY <2>0, <2>2, JobGoesOn
    <3>2. panel # "SAVE_DONE"
      BY <2>0 DEF AnswerInv
    <3> QED BY <2>0, <2>1, <2>2, <3>1, <3>2 DEF AnswerInv
  <2>3. CASE job' = NoJob /\ stage # "idle"
    BY <2>1, <2>3 DEF AnswerInv
  <2>4. CASE job' = NoJob /\ stage = "idle"
    <3>1. job.kind = request.kind /\ job.file = request.file /\ job.payload = request.payload
      BY <2>0, <2>4 DEF AnswerInv
    <3>2. ASSUME request.kind = "MCZ3" PROVE BothHold(request.file, request.payload)'
      <4>1. job'.kind = job.kind \/ StatusStep
        BY <2>0, JobType DEF DataStep, Jobs
      <4>2. StatusStep /\ job.copy # 1
        <5>1. job \in Jobs /\ NoJob \notin Jobs
          BY <2>0, JobType DEF Jobs, NoJob
        <5>2. ~(job'.kind = job.kind)
          BY <2>4, <5>1 DEF Jobs, NoJob
        <5>3. StatusStep
          BY <4>1, <5>2
        <5>4. ASSUME job.copy = 1 PROVE FALSE
          <6>1. job' = [job EXCEPT !.copy = 3 - job.copy, !.part = FirstPart(job.kind), !.ok = TRUE]
            BY <3>1, <3>2, <5>3, <5>4 DEF StatusStep, FirstCopy
          <6> QED BY <5>1, <5>2, <6>1 DEF Jobs
        <5> QED BY <5>3, <5>4
      <4>3. job.copy = 2 /\ job.kind = "MCZ3"
        BY <2>0, <3>1, <3>2, <4>2, JobType
      <4>4. \A f, p : f = job.file /\ p = job.payload => BothHold(f, p)'
        BY <2>0, <4>2, <4>3, LastStepHolds
      <4>5. PICK f, p : f = job.file /\ p = job.payload
        OBVIOUS
      <4>6. BothHold(f, p)'
        BY <4>4, <4>5
      <4>7. f = request'.file /\ p = request'.payload
        BY <2>1, <3>1, <4>5
      <4> QED BY <4>6, <4>7 DEF BothHold
    <3> QED BY <2>1, <2>4, <3>2 DEF AnswerInv
  <2> QED BY <2>2, <2>3, <2>4
<1>2. CASE InitSaveData
  BY <1>2 DEF InitSaveData, AnswerInv, BootInv, BothHold, device, menu
<1>3. CASE InitFile
  BY <1>3 DEF InitFile, Start, AnswerInv, BothHold, device, menu
<1>4. CASE InitFilesDone
  BY <1>4 DEF InitFilesDone, AnswerInv, BothHold, device, menu
<1>5. CASE WriteSignature
  BY <1>5 DEF WriteSignature, AnswerInv, BothHold, menu
<1>6. CASE InitSaveHeader
  BY <1>6 DEF InitSaveHeader, AnswerInv, BothHold, device, menu
<1>7. CASE ResetEmptyOrDeletedSaveFile
  BY <1>7 DEF ResetEmptyOrDeletedSaveFile, AnswerInv, BothHold, device, menu
<1>8. CASE FileScreenReady
  BY <1>8 DEF FileScreenReady, AnswerInv, BothHold, device, menu
<1>9. CASE HandleSaveInProgress
  BY <1>9 DEF HandleSaveInProgress, Start, JobFor, AnswerInv, BothHold, device
<1>10. CASE HandleSaveDone
  BY <1>10 DEF HandleSaveDone, AnswerInv, BothHold, device
<1>11. CASE HandleSaveInit
  BY <1>11 DEF HandleSaveInit, AnswerInv, BothHold, device
<1>12. CASE FileSelect
  BY <1>12 DEF FileSelect, AnswerInv, BothHold, device, menu
<1>13. CASE PowerLoss
  BY <1>13 DEF PowerLoss, AnswerInv, device
<1>14. CASE UNCHANGED vars
  BY <1>14, AnswerFrame DEF vars, device, menu
<1> QED
  BY <1>1, <1>2, <1>3, <1>4, <1>5, <1>6, <1>7, <1>8, <1>9, <1>10, <1>11, <1>12,
     <1>13, <1>14 DEF Next, Step

-----------------------------------------------------------------------------
(* A boot marks no file that reads back.                                   *)

LEMMA InitFileReads ==
    ASSUME NonZeroSums, TypeOK, IInv, Unsaved, NEW f \in Files
    PROVE  DataDoubleReadWithStatus(f).ret # 1
<1>1. ReadFact(f) /\ CopyFact(f, 1) /\ CopyFact(f, 2)
  BY StoreFactsNext DEF StoreFacts, IInv, Copies
<1>2. \A c \in Copies, p \in Payloads : stat[f][c].main # FileStatus(p)
  BY DEF Unsaved, Junk, Marks, MarkStatus, FileStatus
<1>3. ~CopyValid(f, 1) /\ ~CopyValid(f, 2)
  BY <1>1, <1>2 DEF CopyFact, Copies
<1> QED BY <1>1, <1>3 DEF ReadFact, Empty, Corrupt

\* Only marks are written before the second signature is complete.
LEMMA ProgramUnsaved ==
    ASSUME TypeOK, IInv, BootInv, job # NoJob, DataStep \/ StatusStep, sig[2] # SigBlocks
    PROVE  Unsaved'
<1>1. job.kind \in {"TINI", "FleD"} /\ Unsaved
  BY JobType DEF BootInv
<1>2. StatusStep
  BY <1>1 DEF DataStep
<1>3. JobStatus(job) \in Marks
  BY <1>1 DEF JobStatus, Marks
<1>4. \A g \in Files, d \in Copies : stat'[g][d].main \in {stat[g][d].main, JobStatus(job)}
  <2> SUFFICES ASSUME NEW g \in Files, NEW d \in Copies
               PROVE  stat'[g][d].main \in {stat[g][d].main, JobStatus(job)}
    OBVIOUS
  <2> QED BY <1>2, StatusStepFacts
<1> QED BY <1>1, <1>3, <1>4 DEF Unsaved

LEMMA BootStep ==
    ASSUME NonZeroSums, NoWear, TypeOK, TypeOK', IInv, AnswerInv, BootInv, [Next]_vars
    PROVE  BootInv'
<1>1. CASE Program
  <2>1. job # NoJob /\ (DataStep \/ StatusStep)
    BY <1>1, ProgramStep DEF Program
  <2>2. sig' = sig /\ stage' = stage
    BY <1>1 DEF Program
  <2>3. sig[2] # SigBlocks => Unsaved'
    BY <2>1, ProgramUnsaved
  <2>4. job' # NoJob => job'.kind = job.kind /\ before' = before
    BY <2>1, JobGoesOn
  <2> QED BY <2>1, <2>2, <2>3, <2>4 DEF BootInv
<1>2. CASE InitSaveData
  BY <1>2 DEF InitSaveData, BootInv, Unsaved, BadSignatures, Copies, device, menu
<1>3. CASE InitFile
  <2>1. PICK f \in todo : Start("TINI", f, Default)
    BY <1>3 DEF InitFile
  <2>2. f \in Files /\ UNCHANGED <<data, stat, sig, stage>> /\ stage = "init"
    BY <1>3 DEF InitFile, TypeOK, device
  <2>3. DataDoubleReadWithStatus(f).ret # 1
    BY <2>2, InitFileReads DEF BootInv
  <2>4. job'.kind = "TINI" /\ before'.ret # 1
    BY <2>1, <2>3 DEF Start, JobFor
  <2> QED BY <2>2, <2>4 DEF BootInv, Unsaved
<1>4. CASE InitFilesDone
  BY <1>4 DEF InitFilesDone, BootInv, Unsaved, device, menu
<1>5. CASE WriteSignature
  BY <1>5, SaveAssumption DEF WriteSignature, BootInv, Unsaved, TypeOK, Copies
<1>6. CASE InitSaveHeader
  BY <1>6 DEF InitSaveHeader, Start, BootInv, Unsaved, device
<1>7. CASE ResetEmptyOrDeletedSaveFile
  BY <1>7 DEF ResetEmptyOrDeletedSaveFile, Start, BootInv, Unsaved, device
<1>8. CASE FileScreenReady
  BY <1>8 DEF FileScreenReady, BootInv, Unsaved, device
<1>9. CASE HandleSaveInProgress
  BY <1>9 DEF HandleSaveInProgress, AnswerInv, BootInv, Unsaved, device
<1>10. CASE HandleSaveDone
  BY <1>10 DEF HandleSaveDone, BootInv, Unsaved, device
<1>11. CASE HandleSaveInit
  BY <1>11 DEF HandleSaveInit, BootInv, Unsaved, device
<1>12. CASE FileSelect
  BY <1>12 DEF FileSelect, AnswerInv, BootInv, Unsaved, device
<1>13. CASE PowerLoss
  BY <1>13 DEF PowerLoss, BootInv, Unsaved, device
<1>14. CASE UNCHANGED vars
  BY <1>14 DEF vars, device, BootInv, Unsaved
<1> QED
  BY <1>1, <1>2, <1>3, <1>4, <1>5, <1>6, <1>7, <1>8, <1>9, <1>10, <1>11, <1>12,
     <1>13, <1>14 DEF Next, Step

-----------------------------------------------------------------------------
(* Until power is lost for the first time the copies mirror each other.    *)

LEMMA CrashStep == ASSUME [Next]_vars PROVE crashes' = crashes \/ PowerLoss
BY DEF Next, Step, vars, Program, InitSaveData, InitFile, InitFilesDone, WriteSignature,
       InitSaveHeader, ResetEmptyOrDeletedSaveFile, FileScreenReady, HandleSaveInProgress,
       HandleSaveDone, HandleSaveInit, FileSelect

\* What a read finds in equal copies, it finds in both.
LEMMA SameReads ==
    ASSUME NonZeroSums, TypeOK, IInv, NEW f \in Files, Same(f),
           DataDoubleReadWithStatus(f).ret = 1
    PROVE  CopyValid(f, 2) /\ data[f][2] = DataDoubleReadWithStatus(f).data
<1>1. ReadFact(f) /\ CopyFact(f, 1) /\ CopyFact(f, 2)
  BY StoreFactsNext DEF StoreFacts, IInv, Copies
<1>2. CopyValid(f, 1) <=> CopyValid(f, 2)
  BY <1>1 DEF CopyFact, Same
<1>3. CopyValid(f, 1)
  BY <1>1, <1>2 DEF ReadFact, Empty, Corrupt
<1> QED BY <1>1, <1>2, <1>3 DEF ReadFact, Loaded, Same

LEMMA StartMirrors ==
    ASSUME NonZeroSums, TypeOK, IInv, \A f \in Files : Mirrored(f), StartStep, NEW g \in Files
    PROVE  Mirrored(g)'
<1>1. PICK k \in {"MCZ3", "TINI", "FleD"}, f \in Files, p \in Payloads : Start(k, f, p)
  BY DEF StartStep
<1>2. /\ job = NoJob /\ job' # NoJob /\ job'.file = f /\ job'.kind = k
      /\ before' = DataDoubleReadWithStatus(f) /\ data' = data /\ stat' = stat
  BY <1>1 DEF Start, JobFor, NoJob, StartStep
<1>3. Same(g) /\ Same(g)'
  BY <1>2 DEF Mirrored, Busy, Same
<1>4. CASE g # f
  BY <1>2, <1>3, <1>4 DEF Mirrored, Busy
<1>5. CASE g = f
  <2>1. ASSUME DataDoubleReadWithStatus(g).ret = 1
        PROVE  CopyValid(g, 2)' /\ data'[g][2] = DataDoubleReadWithStatus(g).data
    <3>1. CopyValid(g, 2) /\ data[g][2] = DataDoubleReadWithStatus(g).data
      BY <1>3, <2>1, SameReads
    <3> QED BY <1>2, <3>1 DEF CopyValid, CopyStatus, ReadSaveFileStatus
  <2> QED BY <1>2, <1>3, <1>5, <2>1 DEF Mirrored, Busy, Same
<1> QED BY <1>4, <1>5

LEMMA DataStepMirrors ==
    ASSUME TypeOK, IInv, job # NoJob, DataStep, NEW g \in Files, Mirrored(g)
    PROVE  Mirrored(g)'
<1>1. /\ job' # NoJob /\ job'.file = job.file /\ job'.kind = "MCZ3" /\ job'.copy = job.copy
      /\ before' = before /\ stat' = stat /\ job.file \in Files
  BY JobType DEF DataStep, Jobs, NoJob
<1>2. CASE g # job.file
  BY <1>1, <1>2, OtherFiles DEF Mirrored, Busy, Same
<1>3. CASE g = job.file /\ job.copy # 1
  BY <1>1, <1>3 DEF Mirrored, Busy
<1>4. CASE g = job.file /\ job.copy = 1
  <2>1. data'[g][2] = data[g][2]
    BY <1>4 DEF DataStep, TypeOK, Copies
  <2>2. CopyValid(g, 2)' = CopyValid(g, 2)
    BY <1>1, <2>1 DEF CopyValid, CopyStatus, ReadSaveFileStatus
  <2> QED BY <1>1, <1>4, <2>1, <2>2 DEF Mirrored, Busy, DataStep
<1> QED BY <1>2, <1>3, <1>4

LEMMA StatusStepMirrors ==
    ASSUME TypeOK, TypeOK', IInv, job # NoJob, StatusStep, NEW g \in Files, Mirrored(g)
    PROVE  Mirrored(g)'
<1>1. /\ job \in Jobs /\ job.copy \in {1, 2} /\ job.kind \in {"MCZ3", "TINI", "FleD"}
      /\ data' = data /\ before' = before /\ job.file \in Files
  BY JobType DEF StatusStep
<1>2. CASE g # job.file
  <2>1. data'[g] = data[g] /\ stat'[g] = stat[g]
    BY <1>2, OtherFiles
  <2>2. ~Busy(g)
    BY <1>2 DEF Busy
  <2>3. ~Busy(g)'
    BY <1>1, <1>2, JobGoesOn DEF Busy
  <2> QED BY <2>1, <2>2, <2>3 DEF Mirrored, Same
<1>3. CASE g = job.file /\ job.copy = FirstCopy(job.kind)
  <2>1. job' = [job EXCEPT !.copy = 3 - job.copy, !.part = FirstPart(job.kind), !.ok = TRUE]
    BY <1>3 DEF StatusStep
  <2>2. /\ job'.file = g /\ job'.kind = job.kind /\ job'.copy = 3 - job.copy
    BY <1>1, <1>3, <2>1 DEF Jobs
  <2>3. job' # NoJob
    BY <1>1, <2>1 DEF Jobs, NoJob
  <2> QED BY <1>1, <1>3, <2>2, <2>3 DEF Mirrored, Busy, FirstCopy
<1>4. CASE g = job.file /\ job.copy # FirstCopy(job.kind)
  <2>1. job' = NoJob
    BY <1>4 DEF StatusStep
  <2>2. CASE job.kind = "MCZ3"
    <3>1. job.copy = 2
      BY <1>1, <1>4, <2>2 DEF FirstCopy
    <3>2. PICK f, p : f = job.file /\ p = job.payload
      OBVIOUS
    <3>3. BothHold(f, p)'
      BY <2>2, <3>1, <3>2, LastStepHolds
    <3>4. Same(f)'
      BY <3>3 DEF BothHold, Same, Copies
    <3> QED BY <1>4, <2>1, <3>2, <3>4 DEF Mirrored, Busy
  <2>3. CASE job.kind # "MCZ3"
    <3>1. job.copy = 1 /\ stat[g][2].main = MarkStatus(job.kind)
      BY <1>1, <1>4, <2>3 DEF FirstCopy, IInv, JobInv, MarkInv
    <3>2. stat'[g][1].main = MarkStatus(job.kind) /\ stat'[g][2] = stat[g][2]
      BY <1>1, <1>4, <2>3, <3>1, StatusStepFacts DEF JobStatus, Copies
    <3>3. data[g][1] = data[g][2]
      BY <1>4, <2>3 DEF Mirrored, Busy
    <3>4. Same(g)'
      BY <1>1, <3>1, <3>2, <3>3 DEF Same
    <3> QED BY <2>1, <3>4 DEF Mirrored, Busy
  <2> QED BY <2>2, <2>3
<1> QED BY <1>2, <1>3, <1>4

LEMMA MirrorStep ==
    ASSUME NonZeroSums, NoWear, TypeOK, TypeOK', IInv, MirrorInv, [Next]_vars
    PROVE  MirrorInv'
<1> SUFFICES ASSUME crashes' = 0, NEW g \in Files PROVE Mirrored(g)'
  BY DEF MirrorInv
<1>1. ~PowerLoss
  BY SaveAssumption DEF PowerLoss, TypeOK
<1>2. \A f \in Files : Mirrored(f)
  BY <1>1, CrashStep DEF MirrorInv
<1>3. CASE Program
  <2>1. job # NoJob /\ (DataStep \/ StatusStep)
    BY <1>3, ProgramStep DEF Program
  <2> QED BY <1>2, <2>1, DataStepMirrors, StatusStepMirrors
<1>4. CASE StartStep
  BY <1>2, <1>4, StartMirrors
<1>5. CASE UNCHANGED <<data, stat, job, before>>
  BY <1>2, <1>5 DEF Mirrored, Busy, Same, CopyValid, CopyStatus, ReadSaveFileStatus
<1> QED BY <1>1, <1>3, <1>4, <1>5, StepKinds

-----------------------------------------------------------------------------
(* The theorems.                                                           *)

LEMMA InitSInv == ASSUME TypeOK, Init PROVE SInv
<1>1. AnswerInv
  BY DEF Init, AnswerInv
<1>2. MirrorInv
  BY DEF Init, MirrorInv, Mirrored, Busy, Same, Copies
<1>3. BootInv
  BY SaveAssumption DEF Init, BootInv, Unsaved
<1> QED BY <1>1, <1>2, <1>3 DEF SInv

\* The inductive invariant: what a SAVE_DONE panel says of both copies, how
\* the copies mirror each other before the first power loss, and what a boot
\* may still write.
THEOREM SafetyInductive == ASSUME NonZeroSums, NoWear PROVE Spec => []SInv
<1>1. TypeOK /\ Init => SInv
  BY InitSInv
<1>2. TypeOK /\ TypeOK' /\ IInv /\ SInv /\ [Next]_vars => SInv'
  BY AnswerStep, MirrorStep, BootStep DEF SInv
<1> QED BY <1>1, <1>2, Typing, Inductive, PTL DEF Spec

\* SAVE_OK stands for two valid copies of the payload that was asked for,
\* whatever earlier power losses had left of them (HandleSaveInProgress,
\* DataDoubleWriteWithStatus).
THEOREM AnswerMeansBoth ==
    ASSUME NonZeroSums, NoWear PROVE Spec => []OkRestoresRedundancy
<1>1. ASSUME TypeOK, IInv, SInv PROVE OkRestoresRedundancy
  <2> SUFFICES ASSUME panel = "SAVE_DONE", request.kind = "MCZ3", NEW c \in Copies
               PROVE  /\ CopyValid(request.file, c)
                      /\ data[request.file][c] = Whole(request.payload)
    BY DEF OkRestoresRedundancy
  <2>1. request.file \in Files /\ request.payload \in Payloads
    BY SaveAssumption, <1>1 DEF TypeOK, Requests, Files
  <2>2. /\ stat[request.file][c].main = FileStatus(request.payload)
        /\ data[request.file][c] = Whole(request.payload)
    BY <1>1 DEF SInv, AnswerInv, BothHold
  <2>3. CopyFact(request.file, c)
    BY <1>1, <2>1, StoreFactsNext DEF StoreFacts, IInv
  <2> QED BY <2>1, <2>2, <2>3 DEF CopyFact
<1> QED BY <1>1, Typing, Inductive, SafetyInductive, PTL

\* The first power loss costs no file: until then a valid copy of the old
\* value or of the new one stands beside every block being programmed.
THEOREM FirstLoss == ASSUME NonZeroSums, NoWear PROVE Spec => []FirstLossIsSafe
<1>1. ASSUME TypeOK, IInv, SInv PROVE FirstLossIsSafe
  <2> SUFFICES ASSUME crashes = 0, OnlyCopyAtRisk PROVE FALSE
    BY DEF FirstLossIsSafe
  <2>1. /\ job # NoJob /\ job.kind = "MCZ3" /\ before.ret = 1
        /\ ~(CopyValid(job.file, 3 - job.copy)
             /\ data[job.file][3 - job.copy] \in {before.data, Whole(job.payload)})
    BY DEF OnlyCopyAtRisk
  <2>2. /\ job.copy \in {1, 2} /\ job.file \in Files /\ job.payload \in Payloads
    BY <1>1, <2>1, JobType
  <2>3. CASE job.copy = 1
    <3>1. Mirrored(job.file)
      BY <1>1, <2>2 DEF SInv, MirrorInv
    <3>2. CopyValid(job.file, 2) /\ data[job.file][2] = before.data
      BY <2>1, <2>3, <3>1 DEF Mirrored, Busy
    <3> QED BY <2>1, <2>3, <3>2
  <2>4. CASE job.copy = 2
    <3>1. /\ stat[job.file][1].main = FileStatus(job.payload)
          /\ data[job.file][1] = Whole(job.payload)
      BY <1>1, <2>1, <2>4 DEF IInv, JobInv, DoubleWriteInv
    <3>2. CopyFact(job.file, 1)
      BY <1>1, <2>2, StoreFactsNext DEF StoreFacts, IInv, Copies
    <3>3. CopyValid(job.file, 1)
      BY <2>2, <3>1, <3>2 DEF CopyFact
    <3> QED BY <2>1, <2>4, <3>1, <3>3
  <2> QED BY <2>2, <2>3, <2>4
<1> QED BY <1>1, Typing, Inductive, SafetyInductive, PTL

\* A job that runs before the game keeps a file that reads back: its first
\* copy is valid again, and with the data being written.
LEMMA KeptCopy ==
    ASSUME NonZeroSums, TypeOK, IInv, job # NoJob, before.ret # 1,
           NEW f, f = job.file, NEW p, p = job.payload, DataDoubleReadWithStatus(f).ret = 1
    PROVE  /\ job.kind = "MCZ3" /\ data[f][1] = Whole(p) /\ CopyValid(f, 1)
           /\ DataDoubleReadWithStatus(f) = Loaded(Whole(p))
<1>1. /\ f \in Files /\ p \in Payloads /\ job.copy \in {1, 2}
      /\ 1 \in Copies /\ 2 \in Copies
  BY JobType DEF Copies
<1>2. ReadFact(f) /\ CopyFact(f, 1) /\ CopyFact(f, 2)
  BY <1>1, StoreFactsNext DEF StoreFacts, IInv
<1>3. job.kind = "MCZ3"
  BY <1>1 DEF IInv, JobInv, MarkInv, Empty
<1>4. DoubleWriteInv(f, p)
  BY <1>3 DEF IInv, JobInv
<1>5. data[f][1] = Whole(p) /\ CopyValid(f, 1)
  <2>1. CASE job.copy = 1
    <3>1. job.part # 1 /\ ~CopyValid(f, 2)
      BY <1>4, <2>1 DEF DoubleWriteInv
    <3>2. CopyValid(f, 1)
      BY <1>2, <3>1 DEF ReadFact, Empty, Corrupt
    <3>3. PICK q \in Payloads : data[f][1] = Whole(q)
      BY <1>2, <3>2 DEF CopyFact
    <3>4. data[f][1][1] = p
      BY <1>4, <2>1, <3>1, SaveAssumption DEF DoubleWriteInv, StatusPart
    <3>5. q = p
      BY <3>3, <3>4, SaveAssumption DEF Whole
    <3> QED BY <3>2, <3>3, <3>5
  <2>2. CASE job.copy = 2
    BY <1>1, <1>2, <1>4, <2>2 DEF DoubleWriteInv, CopyFact
  <2> QED BY <1>1, <2>1, <2>2
<1> QED BY <1>2, <1>3, <1>5 DEF ReadFact

LEMMA JobKeeps ==
    ASSUME NonZeroSums, TypeOK, TypeOK', IInv, IInv', job # NoJob, DataStep \/ StatusStep,
           before.ret # 1, NEW f, f = job.file, NEW p, p = job.payload,
           DataDoubleReadWithStatus(f).ret = 1
    PROVE  DataDoubleReadWithStatus(f)' = DataDoubleReadWithStatus(f)
<1>1. /\ job.kind = "MCZ3" /\ data[f][1] = Whole(p) /\ CopyValid(f, 1)
      /\ DataDoubleReadWithStatus(f) = Loaded(Whole(p))
  BY KeptCopy
<1>2. /\ f \in Files /\ p \in Payloads /\ job.copy \in {1, 2}
      /\ 1 \in Copies /\ 2 \in Copies
  BY JobType DEF Copies
<1>3. ReadFact(f)' /\ CopyFact(f, 1)'
  BY <1>2, StoreFactsNext DEF StoreFacts, IInv
<1>4. CASE DataStep
  <2>1. data'[f][1] = Whole(p)
    <3>1. CASE job.copy = 2
      BY <1>1, <1>2, <1>4, <3>1 DEF DataStep, TypeOK
    <3>2. CASE job.copy = 1
      <4>1. data'[f][1] = [Whole(p) EXCEPT ![job.part] = p]
        BY <1>1, <1>2, <1>4, <3>2 DEF DataStep, TypeOK
      <4> QED BY <4>1 DEF Whole
    <3> QED BY <1>2, <3>1, <3>2
  <2>2. CopyValid(f, 1)'
    BY <1>1, <1>4, <2>1 DEF DataStep, CopyValid, CopyStatus, ReadSaveFileStatus
  <2> QED BY <1>1, <1>3, <2>1, <2>2 DEF ReadFact
<1>5. CASE StatusStep
  <2>1. data'[f][1] = Whole(p)
    BY <1>1, <1>5 DEF StatusStep
  <2>2. CopyValid(f, 1)'
    <3>1. CASE job.copy = 1
      <4>1. stat'[f][1].main = FileStatus(p)
        BY <1>1, <1>5, <3>1, StatusStepFacts DEF JobStatus
      <4> QED BY <1>2, <1>3, <2>1, <4>1 DEF CopyFact
    <3>2. CASE job.copy = 2
      <4>1. stat'[f][1] = stat[f][1]
        BY <1>2, <1>5, <3>2, StatusStepFacts
      <4> QED BY <1>1, <2>1, <4>1 DEF CopyValid, CopyStatus, ReadSaveFileStatus
    <3> QED BY <1>2, <3>1, <3>2
  <2> QED BY <1>1, <1>3, <2>1, <2>2 DEF ReadFact
<1> QED BY <1>4, <1>5

\* InitSaveData, InitSaveHeader and the file-select scan may program any
\* number of blocks on any number of starts, each cut short at any block: a
\* file that reads back reads the same after each of their steps.
THEOREM BootKeeps == ASSUME NonZeroSums, NoWear PROVE Spec => BootKeepsSaves
<1>1. ASSUME TypeOK, TypeOK', IInv, IInv', BootInv, [Next]_vars, stage # "idle",
             NEW g \in Files, DataDoubleReadWithStatus(g).ret = 1
      PROVE  DataDoubleReadWithStatus(g)' = DataDoubleReadWithStatus(g)
  <2>1. CASE Program
    <3>1. job # NoJob /\ (DataStep \/ StatusStep) /\ before.ret # 1
      BY <1>1, <2>1, ProgramStep DEF Program, BootInv
    <3>2. CASE g # job.file
      BY <1>1, <3>1, <3>2, OtherFiles, ReadFrame
    <3>3. CASE g = job.file
      <4>1. PICK p : p = job.payload
        OBVIOUS
      <4> QED BY <1>1, <3>1, <3>3, <4>1, JobKeeps
    <3> QED BY <3>2, <3>3
  <2>2. CASE UNCHANGED <<data, stat>>
    <3>1. data'[g] = data[g] /\ stat'[g] = stat[g]
      BY <2>2
    <3> QED BY <1>1, <3>1, ReadFrame
  <2>3. StartStep \/ PowerLoss => UNCHANGED <<data, stat>>
    BY DEF StartStep, PowerLoss, device
  <2> QED BY <1>1, <2>1, <2>2, <2>3, StepKinds
<1>2. TypeOK /\ TypeOK' /\ IInv /\ IInv' /\ SInv /\ [Next]_vars =>
        [stage # "idle" =>
           \A f \in Files : DataDoubleReadWithStatus(f).ret = 1 =>
               DataDoubleReadWithStatus(f)' = DataDoubleReadWithStatus(f)]_vars
  BY <1>1 DEF SInv
<1> QED BY <1>2, Typing, Inductive, SafetyInductive, PTL DEF Spec, BootKeepsSaves
=============================================================================
