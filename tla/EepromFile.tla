----------------------------- MODULE EepromFile -----------------------------
(***************************************************************************)
(* The file behind the EEPROM of port/port_save.c: an image in memory,     *)
(* loaded from tmc.sav on the first call, and written back as a whole      *)
(* after every block, by truncating the file and filling it again.         *)
(*                                                                         *)
(* The process may end between any two system calls (a crash, a closed     *)
(* console); fopen may fail for reading and for writing, fread may stop    *)
(* early and fwrite may run out of space.                                  *)
(***************************************************************************)
EXTENDS Integers, Sequences

CONSTANTS
    NBlocks,     \* EEPROM_BLOCKS
    Values,      \* what a caller writes into a block
    Zero,        \* a block of the static array sEeprom nobody wrote
    Blank,       \* a block of an erased EEPROM, all 0xFF
    MaxWrites,   \* bound: calls of EEPROMWrite0_8k_Check
    MaxCrashes   \* bound: ends of the process

Blocks == 1 .. NBlocks
Cells == Values \cup {Zero, Blank}
Images == [Blocks -> Cells]
Fill(v) == [b \in Blocks |-> v]

ASSUME EepromAssumption ==
    /\ NBlocks \in Nat \ {0}
    /\ MaxWrites \in Nat
    /\ MaxCrashes \in Nat

VARIABLES
    exists,     \* tmc.sav exists
    file,       \* its blocks, as many as were written
    sEeprom,    \* the image in memory
    inited,     \* sEepromInited
    dirty,      \* sEepromDirty
    pc,         \* where the running EEPROMWrite0_8k_Check is
    backup,     \* the newest dated copy, a tmc.sav.bak-AAAAmmdd-HHMMSS
    dated,      \* there is one
    toast,      \* what the menu said last
    unread,     \* history: this process could not read the whole file
    wanted,     \* history: flushed, with the blocks this process wrote since
    flushed,    \* history: the last image wholly written, or loaded
    torn,       \* history: the file was truncated since and not refilled
    last,       \* history: the image the latest flush was to write
    writes, crashes

copies == <<backup, dated, toast>>
past == <<unread, flushed, torn, last>>
history == <<past, wanted, writes, crashes>>
vars == <<exists, file, sEeprom, inited, dirty, pc, copies, history>>

\* What fread leaves in the array when it gets the blocks f.
Padded(f) == [b \in Blocks |-> IF b <= Len(f) THEN f[b] ELSE Zero]

\* What a load finds when no call fails.
OnDisk == IF exists THEN Padded(file) ELSE Fill(Blank)

Init ==
    /\ exists = FALSE
    /\ file = <<>>
    /\ sEeprom = Fill(Zero)
    /\ inited = FALSE
    /\ dirty = FALSE
    /\ pc = "idle"
    /\ backup = <<>> /\ dated = FALSE /\ toast = "none"
    /\ unread = FALSE
    /\ wanted = Fill(Blank)
    /\ flushed = Fill(Blank)
    /\ torn = FALSE
    /\ last = Fill(Blank)
    /\ writes = 0
    /\ crashes = 0

\* The head of every EEPROM call.
LoadEepromFile ==
    /\ ~inited
    /\ inited' = TRUE
    /\ sEeprom' = OnDisk
    /\ wanted' = OnDisk
    /\ flushed' = OnDisk
    /\ last' = OnDisk
    /\ torn' = FALSE
    /\ UNCHANGED <<exists, file, dirty, pc, copies, unread, writes, crashes>>

\* There is a file, but fopen fails and the game starts fresh, or fread stops
\* before the end and nobody looks at its result.
LoadEepromFails ==
    /\ ~inited
    /\ exists
    /\ inited' = TRUE
    /\ \/ sEeprom' = Fill(Blank)
       \/ \E n \in 0 .. Len(file) - 1 : sEeprom' = Padded(SubSeq(file, 1, n))
    /\ unread' = TRUE
    /\ UNCHANGED <<exists, file, dirty, pc, copies, wanted, flushed, torn, last, writes, crashes>>

WriteBlock ==
    /\ pc = "idle"
    /\ writes < MaxWrites
    /\ \E b \in Blocks, v \in Values :
           /\ sEeprom' = [sEeprom EXCEPT ![b] = v]
           /\ wanted' = [wanted EXCEPT ![b] = v]
    /\ dirty' = TRUE
    /\ pc' = "open"
    /\ writes' = writes + 1
    /\ UNCHANGED <<exists, file, inited, copies, past, crashes>>

\* Mutant: a block is written before the file is loaded.
WriteUnloaded == WriteBlock

\* Up to the call of FlushEepromFile.
EEPROMWrite0_8k_Check == inited /\ WriteBlock

\* fopen(SAVE_FILENAME, "wb") truncates the file.
FlushOpen ==
    /\ pc = "open"
    /\ pc' = "write"
    /\ exists' = TRUE
    /\ file' = <<>>
    /\ torn' = TRUE
    /\ last' = sEeprom
    /\ UNCHANGED <<sEeprom, inited, dirty, copies, unread, wanted, flushed, writes, crashes>>

\* The image stays dirty, the caller is told the write succeeded.
FlushOpenFails ==
    /\ pc = "open"
    /\ pc' = "idle"
    /\ UNCHANGED <<exists, file, sEeprom, inited, dirty, copies, history>>

\* Mutant: the last block is written twice.
WriteOneTooMany ==
    /\ pc = "write"
    /\ Len(file) <= NBlocks
    /\ file' = Append(file, sEeprom[IF Len(file) < NBlocks THEN Len(file) + 1 ELSE NBlocks])
    /\ UNCHANGED <<exists, sEeprom, inited, dirty, pc, copies, history>>

FlushWrite ==
    /\ pc = "write"
    /\ Len(file) < NBlocks
    /\ file' = Append(file, sEeprom[Len(file) + 1])
    /\ UNCHANGED <<exists, sEeprom, inited, dirty, pc, copies, history>>

FlushClose ==
    /\ pc = "write"
    /\ Len(file) = NBlocks
    /\ pc' = "idle"
    /\ dirty' = FALSE
    /\ flushed' = sEeprom
    /\ wanted' = sEeprom
    /\ torn' = FALSE
    /\ unread' = FALSE
    /\ UNCHANGED <<exists, file, sEeprom, inited, copies, last, writes, crashes>>

\* fwrite stops early; its result is not looked at.
FlushShort ==
    /\ pc = "write"
    /\ Len(file) < NBlocks
    /\ pc' = "idle"
    /\ dirty' = FALSE
    /\ UNCHANGED <<exists, file, sEeprom, inited, copies, history>>

Crash ==
    /\ inited
    /\ crashes < MaxCrashes
    /\ crashes' = crashes + 1
    /\ sEeprom' = Fill(Zero)
    /\ inited' = FALSE
    /\ dirty' = FALSE
    /\ pc' = "idle"
    /\ toast' = "none"
    /\ unread' = FALSE
    /\ wanted' = flushed
    /\ UNCHANGED <<exists, file, backup, dated, flushed, torn, last, writes>>

-----------------------------------------------------------------------------
(* The backups of the menu, made and looked for in the game thread between *)
(* two writes.                                                             *)

\* What a copy of f leaves: all of it, or less when the disk is full or the
\* process ends in it.
Copies(f) == {SubSeq(f, 1, n) : n \in 0 .. Len(f)}

\* A copy that fails is not told from one that works.
CreateBackup ==
    /\ pc = "idle"
    /\ \/ exists /\ backup' \in Copies(file) /\ dated' = TRUE /\ toast' = "created"
       \/ toast' = "noSave" /\ UNCHANGED <<backup, dated>>
    /\ UNCHANGED <<exists, file, sEeprom, inited, dirty, pc, history>>

\* strncmp of the first n characters of a file name with "tmc.sav.bak-": the
\* literal has 12, and ends with a zero that a longer name does not have.
PrefixLength == 12
DateLength == 15
HasPrefix(n, nameLength) == nameLength >= PrefixLength /\ (n > PrefixLength => nameLength = PrefixLength)

\* Mutant: the 12 characters of the prefix are compared.
BackupsByPrefix == {f \in {backup} : dated /\ HasPrefix(12, PrefixLength + DateLength)}

\* The copies RestoreLatestBackup takes for backups.
BackupsFound == {f \in {backup} : dated /\ HasPrefix(13, PrefixLength + DateLength)}

\* The file is written over, the image in memory is not.
RestoreLatestBackup ==
    /\ pc = "idle"
    /\ IF BackupsFound = {}
       THEN toast' = "notFound" /\ UNCHANGED <<exists, file>>
       ELSE \E f \in BackupsFound :
                /\ exists' = TRUE /\ file' \in Copies(f)
                /\ toast' = IF file' = f THEN "restored" ELSE "notFound"
    /\ UNCHANGED <<sEeprom, inited, dirty, pc, backup, dated, history>>

Next ==
    \/ CreateBackup
    \/ RestoreLatestBackup
    \/ LoadEepromFile
    \/ LoadEepromFails
    \/ EEPROMWrite0_8k_Check
    \/ FlushOpen
    \/ FlushOpenFails
    \/ FlushWrite
    \/ FlushClose
    \/ FlushShort
    \/ Crash

Spec == Init /\ [][Next]_vars

-----------------------------------------------------------------------------
(* Properties.                                                             *)

TypeOK ==
    /\ exists \in BOOLEAN
    /\ file \in Seq(Cells) /\ Len(file) <= NBlocks
    /\ sEeprom \in Images
    /\ inited \in BOOLEAN
    /\ dirty \in BOOLEAN
    /\ pc \in {"idle", "open", "write"}
    /\ backup \in Seq(Cells) /\ dated \in BOOLEAN
    /\ toast \in {"none", "created", "noSave", "restored", "notFound"}
    /\ unread \in BOOLEAN
    /\ wanted \in Images
    /\ flushed \in Images
    /\ torn \in BOOLEAN
    /\ last \in Images
    /\ writes \in 0 .. MaxWrites
    /\ crashes \in 0 .. MaxCrashes

\* One complete flush makes up for whatever went wrong before it in the same
\* process: every block whose write was answered with success is on disk, those
\* of flushes that could not open the file or were cut short too, and every
\* other block is as the boot found it.  Not so in a process that could not
\* read the file: there the flush puts the fresh image over it.
FlushSavesAll ==
    [][pc = "write" /\ pc' = "idle" /\ ~torn' /\ ~unread => OnDisk' = wanted]_vars

\* A process that ends anywhere but between fopen and fclose costs exactly
\* the writes since the last complete flush: the next boot that can read the
\* file loads that flush's image, not a mixture of it with a later one.  A boot
\* that cannot read it costs nothing as long as nothing is flushed after it.
BootLoadsLastFlush ==
    [][~inited /\ inited' /\ ~unread' /\ ~torn => sEeprom' = flushed]_vars

\* "Flush to disk immediately to avoid data loss on crash": a boot that reads
\* the file finds in every block what the last complete flush or the latest
\* attempt to flush put there.
FlushAvoidsLoss ==
    [][~inited /\ inited' /\ ~unread' =>
         \A b \in Blocks : sEeprom'[b] \in {flushed[b], last[b]}]_vars
=============================================================================
