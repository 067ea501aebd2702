-------------------------- MODULE EepromFileProofs --------------------------
(***************************************************************************)
(* What a boot finds in tmc.sav, for every size of the EEPROM, every       *)
(* number of writes, failed system calls and ends of the process.          *)
(***************************************************************************)
EXTENDS EepromFile, TLAPS

LEMMA FillTypes == Fill(Zero) \in Images /\ Fill(Blank) \in Images
BY DEF Fill, Images, Cells

LEMMA PaddedTypes == \A f \in Seq(Cells) : Padded(f) \in Images
<1> SUFFICES ASSUME NEW f \in Seq(Cells) PROVE Padded(f) \in Images
  OBVIOUS
<1>1. \A b \in Blocks : b <= Len(f) => f[b] \in Cells
  BY DEF Blocks
<1> QED BY <1>1 DEF Padded, Images, Cells

LEMMA OnDiskTypes == TypeOK => OnDisk \in Images
BY FillTypes, PaddedTypes DEF OnDisk, TypeOK

LEMMA CopyTypes ==
    ASSUME NEW f \in Seq(Cells) PROVE Copies(f) \subseteq Seq(Cells)
BY DEF Copies

\* No name with a date passes the comparison: the menu restores nothing.
LEMMA NothingFound == BackupsFound = {}
BY DEF BackupsFound, HasPrefix, PrefixLength, DateLength

LEMMA RestoreFrame == RestoreLatestBackup => UNCHANGED <<exists, file, backup, dated>>
BY NothingFound DEF RestoreLatestBackup

LEMMA TypingInit == Init => TypeOK
<1> SUFFICES ASSUME Init PROVE TypeOK
  OBVIOUS
<1>1. sEeprom \in Images /\ flushed \in Images /\ last \in Images /\ wanted \in Images
  BY FillTypes DEF Init
<1>2. file \in Seq(Cells) /\ Len(file) <= NBlocks
  BY EepromAssumption DEF Init
<1>3. /\ exists = FALSE /\ inited = FALSE /\ dirty = FALSE /\ torn = FALSE /\ unread = FALSE
      /\ pc = "idle" /\ writes = 0 /\ crashes = 0
      /\ backup = <<>> /\ dated = FALSE /\ toast = "none"
  BY DEF Init
<1>4. writes \in 0 .. MaxWrites /\ crashes \in 0 .. MaxCrashes
  BY <1>3, EepromAssumption
<1>5. exists \in BOOLEAN /\ inited \in BOOLEAN /\ dirty \in BOOLEAN /\ torn \in BOOLEAN
      /\ unread \in BOOLEAN /\ pc \in {"idle", "open", "write"} /\ dated \in BOOLEAN
      /\ toast \in {"none", "created", "noSave", "restored", "notFound"}
  BY <1>3
<1>6. backup \in Seq(Cells)
  BY <1>3
<1> QED BY <1>1, <1>2, <1>4, <1>5, <1>6 DEF TypeOK

LEMMA TypingStep == ASSUME TypeOK, [Next]_vars PROVE TypeOK'
<1> USE DEF copies, past
<1>1. CASE LoadEepromFile
  BY <1>1, OnDiskTypes DEF LoadEepromFile, TypeOK
<1>2. CASE EEPROMWrite0_8k_Check
  <2>1. PICK b \in Blocks, v \in Values :
          sEeprom' = [sEeprom EXCEPT ![b] = v] /\ wanted' = [wanted EXCEPT ![b] = v]
    BY <1>2 DEF EEPROMWrite0_8k_Check, WriteBlock
  <2>2. sEeprom' \in Images /\ wanted' \in Images
    BY <2>1 DEF TypeOK, Images, Cells
  <2>3. writes' \in 0 .. MaxWrites
    BY <1>2, EepromAssumption DEF EEPROMWrite0_8k_Check, WriteBlock, TypeOK
  <2> QED BY <1>2, <2>2, <2>3 DEF EEPROMWrite0_8k_Check, WriteBlock, TypeOK
<1>3. CASE FlushOpen
  BY <1>3, EepromAssumption DEF FlushOpen, TypeOK
<1>4. CASE FlushOpenFails
  BY <1>4 DEF FlushOpenFails, TypeOK, history
<1>5. CASE FlushWrite
  <2>1. Len(file) + 1 \in Blocks
    BY <1>5, EepromAssumption DEF FlushWrite, TypeOK, Blocks
  <2>2. file' = Append(file, sEeprom[Len(file) + 1]) /\ sEeprom[Len(file) + 1] \in Cells
    BY <1>5, <2>1 DEF FlushWrite, TypeOK, Images
  <2>3. file' \in Seq(Cells) /\ Len(file') <= NBlocks
    BY <1>5, <2>2, EepromAssumption DEF FlushWrite, TypeOK
  <2> QED BY <1>5, <2>3 DEF FlushWrite, TypeOK, history
<1>6. CASE FlushClose
  BY <1>6 DEF FlushClose, TypeOK
<1>7. CASE FlushShort
  BY <1>7 DEF FlushShort, TypeOK, history
<1>8. CASE Crash
  <2>1. sEeprom' \in Images /\ wanted' \in Images
    BY <1>8, FillTypes DEF Crash, TypeOK
  <2>2. unread' = FALSE
    BY <1>8 DEF Crash
  <2>3. crashes' \in 0 .. MaxCrashes
    BY <1>8, EepromAssumption DEF Crash, TypeOK
  <2>4. /\ UNCHANGED <<exists, file, flushed, torn, last, writes>>
        /\ inited' = FALSE /\ dirty' = FALSE /\ pc' = "idle"
        /\ toast' = "none" /\ UNCHANGED <<backup, dated>>
    BY <1>8 DEF Crash
  <2> QED BY <2>1, <2>2, <2>3, <2>4 DEF TypeOK
<1>9. CASE UNCHANGED vars
  BY <1>9 DEF vars, history, TypeOK
<1>10. CASE CreateBackup
  BY <1>10, CopyTypes DEF CreateBackup, TypeOK, history
<1>11. CASE RestoreLatestBackup
  <2>1. toast' = "notFound"
    BY <1>11, NothingFound DEF RestoreLatestBackup
  <2> QED BY <1>11, <2>1, RestoreFrame DEF RestoreLatestBackup, TypeOK, history
<1>12. CASE LoadEepromFails
  <2>1. sEeprom' \in Images
    <3>1. ASSUME NEW n \in 0 .. Len(file) - 1 PROVE Padded(SubSeq(file, 1, n)) \in Images
      <4>1. file \in Seq(Cells) /\ n \in 0 .. Len(file)
        BY DEF TypeOK
      <4>2. SubSeq(file, 1, n) \in Seq(Cells)
        BY <4>1
      <4> QED BY <4>2, PaddedTypes, Zenon
    <3> QED BY <1>12, <3>1, FillTypes DEF LoadEepromFails
  <2> QED BY <1>12, <2>1 DEF LoadEepromFails, TypeOK
<1> QED
  BY <1>1, <1>2, <1>3, <1>4, <1>5, <1>6, <1>7, <1>8, <1>9, <1>10, <1>11, <1>12 DEF Next

\* TypeOK holds whatever fails: the file never outgrows the EEPROM.
THEOREM Typing == Spec => []TypeOK
<1>1. TypeOK /\ [Next]_vars => TypeOK'
  BY TypingStep
<1> QED BY <1>1, TypingInit, PTL DEF Spec

-----------------------------------------------------------------------------
(* The inductive invariant: a file that is not torn holds the last flushed *)
(* image; while a flush fills it, it holds a prefix of the image in memory,*)
(* which no write changes before fclose; and that image is what the        *)
(* process found on disk with the blocks it wrote since, if it could read. *)

WholeInv == ~torn => OnDisk = flushed

FlushInv ==
    pc = "write" => /\ exists /\ torn
                    /\ \A b \in 1 .. Len(file) : file[b] = sEeprom[b]

WantedInv ==
    /\ pc # "idle" => inited
    /\ inited /\ ~unread => sEeprom = wanted

IInv == WholeInv /\ FlushInv /\ WantedInv

\* A complete flush leaves the image on disk.
LEMMA FlushCloseDisk ==
    ASSUME TypeOK, FlushInv, FlushClose
    PROVE  OnDisk' = sEeprom
BY EepromAssumption DEF FlushInv, FlushClose, TypeOK, Images, Blocks, OnDisk, Padded

LEMMA IInvStep == ASSUME TypeOK, IInv, [Next]_vars PROVE IInv'
<1> USE DEF IInv, FlushInv, WantedInv, copies, past
<1>1. CASE LoadEepromFile
  <2>1. OnDisk' = OnDisk
    BY <1>1 DEF LoadEepromFile, OnDisk, Padded
  <2> QED BY <1>1, <2>1 DEF LoadEepromFile, WholeInv
<1>2. CASE EEPROMWrite0_8k_Check
  <2>1. WholeInv' /\ FlushInv'
    BY <1>2 DEF EEPROMWrite0_8k_Check, WriteBlock, WholeInv, OnDisk, Padded
  <2>2. WantedInv'
    BY <1>2 DEF EEPROMWrite0_8k_Check, WriteBlock
  <2> QED BY <2>1, <2>2
<1>3. CASE FlushOpen
  BY <1>3 DEF FlushOpen, WholeInv
<1>4. CASE FlushOpenFails
  BY <1>4 DEF FlushOpenFails, WholeInv, OnDisk, Padded, history
<1>5. CASE FlushWrite
  <2>1. \A b \in 1 .. Len(file') : file'[b] = sEeprom[b]
    BY <1>5 DEF FlushWrite, TypeOK
  <2> QED BY <1>5, <2>1 DEF FlushWrite, WholeInv, history
<1>6. CASE FlushClose
  BY <1>6, FlushCloseDisk DEF FlushClose, WholeInv
<1>7. CASE FlushShort
  BY <1>7 DEF FlushShort, WholeInv, history
<1>8. CASE Crash
  BY <1>8 DEF Crash, WholeInv, OnDisk, Padded
<1>9. CASE UNCHANGED vars
  BY <1>9 DEF vars, history, WholeInv, OnDisk, Padded
<1>10. CASE CreateBackup
  BY <1>10 DEF CreateBackup, WholeInv, OnDisk, Padded, history
<1>11. CASE RestoreLatestBackup
  BY <1>11, RestoreFrame DEF RestoreLatestBackup, WholeInv, OnDisk, Padded, history
<1>12. CASE LoadEepromFails
  BY <1>12 DEF LoadEepromFails, WholeInv, OnDisk, Padded
<1> QED
  BY <1>1, <1>2, <1>3, <1>4, <1>5, <1>6, <1>7, <1>8, <1>9, <1>10, <1>11, <1>12 DEF Next

LEMMA Inductive == Spec => []IInv
<1>1. Init => IInv
  BY DEF Init, IInv, WholeInv, FlushInv, WantedInv, OnDisk
<1>2. TypeOK /\ IInv /\ [Next]_vars => IInv'
  BY IInvStep
<1> QED BY <1>1, <1>2, Typing, PTL DEF Spec

\* Once a flush is complete every write answered with success before it is on
\* disk, and the other blocks are as the boot found them, however many opens
\* failed and flushes were cut short before.
THEOREM FlushIsComplete == Spec => FlushSavesAll
<1>1. TypeOK /\ IInv /\ [Next]_vars =>
        [pc = "write" /\ pc' = "idle" /\ ~torn' /\ ~unread => OnDisk' = wanted]_vars
  <2> SUFFICES ASSUME TypeOK, IInv, Next, pc = "write", pc' = "idle", ~torn', ~unread
               PROVE  OnDisk' = wanted
    OBVIOUS
  <2>1. torn /\ inited
    BY DEF IInv, FlushInv, WantedInv
  <2>2. CASE FlushClose
    BY <2>1, <2>2, FlushCloseDisk DEF IInv, WantedInv
  <2>3. CASE ~FlushClose
    <3>1. torn' = torn
      BY <2>1, <2>3
      DEF Next, CreateBackup, RestoreLatestBackup, LoadEepromFile, LoadEepromFails,
          EEPROMWrite0_8k_Check, WriteBlock, FlushOpen, FlushOpenFails, FlushWrite, FlushShort,
          Crash, history, past
    <3> QED BY <2>1, <3>1
  <2> QED BY <2>2, <2>3
<1> QED BY <1>1, Typing, Inductive, PTL DEF Spec, FlushSavesAll

\* A process that ends outside a flush loses the writes since the last
\* complete flush and nothing else, for the next boot that can read the file.
THEOREM BootIsLastFlush == Spec => BootLoadsLastFlush
<1>1. IInv /\ [Next]_vars => [~inited /\ inited' /\ ~unread' /\ ~torn => sEeprom' = flushed]_vars
  <2> SUFFICES ASSUME IInv, Next, ~inited, inited', ~unread', ~torn
               PROVE  sEeprom' = flushed
    OBVIOUS
  <2>1. LoadEepromFile
    BY RestoreFrame
    DEF Next, LoadEepromFails, EEPROMWrite0_8k_Check, WriteBlock, FlushOpen, FlushOpenFails,
        FlushWrite, FlushClose, FlushShort, Crash, CreateBackup, RestoreLatestBackup
  <2> QED BY <2>1 DEF LoadEepromFile, IInv, WholeInv
<1> QED BY <1>1, Inductive, PTL DEF Spec, BootLoadsLastFlush
=============================================================================
