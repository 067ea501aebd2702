# Verification of The Minish Cap, Switch Community Edition

TLA+ modules, TLC runs and TLAPS proofs about the native port in
`src/source/`. Each definition is translated from the source; `PROJECT.json`
maps it to the lines it stands for.

    tlc -workers 2 -config save_crash.cfg MCSaveStore     # model-check a run
    tlapm SaveStoreProofs.tla                             # check the proofs

## The system

A decompiled GBA game (`src/source/src`, C; `asm/src/intr.s`, the assembly
that runs on the GBA) and the port around it (`port/`, `platforms/switch/`)
that replaces the hardware. One thread runs the game: `AgbMain` initialises
saves and header, then loops over a task (title, file select, game, game over,
staff roll), once a frame, until `VBlankIntrWait`. Other threads are the
watchdog of the diagnostics, the workers of the asset extraction, and the audio
callback. Components in bold are modelled.

| Component | State | Operations | Promise |
| --- | --- | --- | --- |
| **Save store** `src/save.c`, callers in `main.c`, `fileselect.c` | per file two copies of data and status in EEPROM; `gMenu.storyPanelIndex`, `field_0xa` | `InitSaveData`, `InitSaveHeader`, `DataDoubleWriteWithStatus`, `DataDoubleReadWithStatus`, `SetFileStatus*`, `HandleSave` | a file is one atomic value, whenever power is lost |
| **EEPROM file** `port/port_save.c` | `sEeprom`, `sEepromInited`, `sEepromDirty`, `tmc.sav`, dated backups | `EEPROM*`, `LoadEepromFile`, `FlushEepromFile`, `CreateBackup`, `RestoreLatestBackup` | what was flushed is what the next boot that can read the file loads |
| **Entity lists** `src/entity.c` | pools of entities and managers, nine circular lists, `gEntCount`, `gManagerCount`, `gEntityListsBackup` | allocate, append, prepend, unlink, delete, recycle, erase | rings, exact counters |
| **Update walk** `asm/src/intr.s`, `port/port_draw.c` | `gUpdateContext.current_entity`, the position in the list | `UpdateEntities`, `UpdateManagers`, `DeleteThisEntity` | every entity that stays is updated in every pass |
| **Parallel loops** `port_asset_log.hpp`, `switch_parallel.c` | shared next index, first error | `ParallelFor`, `switch_parallel_for`, background task | every index once, all done on return |
| **Asset extraction** `assets_extractor_api.cpp`, `port_asset_log.cpp`, `port_asset_bootstrap.cpp` | queue, `in_flight_`, archives, JSON files, build state with fingerprint | `ExtractAssets`, `Submit`, `Wait` | a fingerprint only over complete assets |
| **Sprite graphics slots** `src/vram.c` | 44 slots with status, count and references, what is to be uploaded | load, unload, compact, upload, subtask tables | a slot in use is never given away, references exact, entities show what they asked for |
| **Self-update** `switch_update.c`, `port_update_check.c` | `tmc.nro`, `.update`, `.previous` | check, download, swap at boot | a runnable program is always there, what is downloaded is applied |
| **Diagnostics** `switch_diagnostics.c` | trace ring, frame counter, paused flag, who crashed | `Event`, `Snapshot`, `Watchdog`, the exception handler, exit | no torn entry, the first stall of a launch reported and only when real, the process ends |
| Quicksave `port_quicksave.c` | snapshots of memory regions, pending slot | save, request, deferred load | a restored frame is one that was saved |
| Soft slots `port_softslots.c` | assignments, active slot | update, assign, save | newest press wins |

How they interact: the game asks the save store, which programs 8-byte blocks
through the EEPROM file. The task decides which handler runs the entity walk;
entity updates call back into the lists (create, delete, move) while the walk
is in the middle of them; deleting an entity unloads its graphics slots.
Subtasks (menus, cutscenes, portals) put the list heads away, run on empty
lists, and bring the heads back. Quicksave copies lists, pools and counters
behind everybody's back at a frame boundary. The extraction, which runs before
the game or on another thread, fans each phase out with `ParallelFor` and hands
its JSON files to `BackgroundWriter`. The watchdog and the exception handler
read what the game thread writes. The next start of the program swaps in what
this one downloaded.

What is hard here: power lost between any two EEPROM blocks or any two system
calls; blocks and system calls that fail; a list changed under the walk that
follows it; slots that are off their list but not free; heads that return over
cleared pools; a pool of slots that is moved together under those who point into
it; threads that share a counter and an error, or that do not start; a ring read
while it is written; a thread held by another, or crashing, while a third waits;
a state file that outlives what it vouches for; files swapped by two renames.
`PROJECT.json` lists each such place under `hazards`, at its line, with the
properties that cover it or the reason why none does.

## Modules

| Module | Models |
| --- | --- |
| `SaveRegister` | the abstract promise of the save store: each file an atomic register, an operation cut short by power loss happened or did not, any other takes effect |
| `SaveStore` | `save.c`, one action per EEPROM block programmed; `InitSaveData`, `InitSaveHeader`, the file-select scan; `HandleSave` |
| `SaveChecksum` | `CalculateChecksum`, used by the runs to give payloads their real sums |
| `MCSaveStore` | instances of `SaveStore` |
| `SaveStoreProofs` | `SaveStore` implements `SaveRegister`; what it promises beyond that: both copies, first loss, boots |
| `EepromFile` | `port_save.c`, one action per system call or block of `FlushEepromFile`, and the backups |
| `MCEepromFile`, `EepromFileProofs` | its instance, its proofs |
| `EntityLists` | `entity.c` as functions from memory to memory |
| `EntityUpdate` | the walk over the lists, what updates, rooms and subtasks do to them |
| `MCEntityUpdate`, `EntityProofs` | instances of `EntityUpdate`; the proofs about lists and walk |
| `ParallelFor` | the parallel loop in both builds, one action per atomic operation, critical section or thread call |
| `ParallelForProofs` | its proofs, for any number of threads and indices |
| `AssetBuild` | `ExtractAssets` over several launches, with `BackgroundWriter`, one action per critical section or system call |
| `MCAssetBuild`, `AssetBuildProofs` | its instances, its proofs for any number of files, ROMs and launches |
| `GfxSlots` | `vram.c`, one action per call of an entity, per frame and per change of task |
| `MCGfxSlots`, `GfxSlotsProofs` | its instance, its proofs |
| `Diagnostics`, `DiagnosticsProofs` | `switch_diagnostics.c`, one action per atomic access; its proofs |
| `UpdateSwap`, `UpdateSwapProofs` | download and swap, one action per call on the card; its proofs |

### SaveStore

`data[f][c]` and `stat[f][c]` are copy `c` of file `f` in EEPROM: its data
blocks, its status block and the spare block after it. A block holds "block b
of payload p" or `Garbage`; a checksum is a number per content, so torn copies
have whatever sum the instance gives them. `job` is the
`DataDoubleWriteWithStatus` or `SetFileStatus*` under way, with the copy and
the block it has reached; `Program` writes one block, in the code's order
(copy 1 then 2 for a save, data before status; copy 2 then 1 for a mark). A
block in `Worn` never programs: data gives the copy up, a status is retried in
the spare block. `Worn` does not change, so an old status that shadows a newer
one because a block wears out in between is not covered; on the port no block
fails. `stage` and `todo` follow the boot: signatures, files 5, 3, 2,
1, 0, header, file-select scan. `panel`, `field_0xa` and `request` are the
state of `HandleSave`. `PowerLoss` may come between any two steps.

`before` remembers what the file read as when the job started. The refinement
mapping gives the register that value while a job runs, and what
`DataDoubleReadWithStatus` returns otherwise. The register also sees the power,
so that an operation may only fail to take effect when power went off: each job
has to end as the new value, and each power loss has to leave the old value or
the new one.

Two things the code relies on are assumptions of the module:

* `TornDetected`: a torn copy never has the sum of a whole payload. It is a bet
  on 16 bits; the runs compute their sums with `CalculateChecksum` and TLC
  evaluates the assumption on them.
* `PowerLoss` leaves out the instants where the only copy that holds a file's
  value is being overwritten (`OnlyCopyAtRisk`). Such an instant exists: a save
  cut in its second half leaves copy 2 torn, a read does not repair it, and the
  next save starts by overwriting copy 1. `FirstLossIsSafe` shows that a store
  that has not lost power before never meets it.

The soft reset, which keeps the header in memory, is not modelled, nor is
`CheckHeaderValid` on a header that was read: headers in the model are valid.

### EepromFile

`sEeprom` is the image in memory, `file` the blocks of `tmc.sav`. Every block
write flushes the whole image: `FlushOpen` (truncates), `FlushWrite` per block,
`FlushClose`; `FlushOpenFails` and `FlushShort` are the errors the code ignores.
`LoadEepromFails` is a boot that cannot read the save: `LoadEepromFile` takes any
`fopen` that fails for a missing file and starts with 0xFF, and does not look at
what `fread` answers, so that the rest of the image stays 0. `unread` remembers
such a process. Its next block write flushes that image over the good file, and
that is a loss which nothing in the code prevents: the boot itself writes, since
`InitSaveData` finds no signature. So `BootLoadsLastFlush` speaks of boots that
can read (one that cannot costs nothing as long as nothing is flushed after it),
and `FlushSavesAll` of processes that could: there one complete flush
makes up for every flush before it that failed or was cut short. `wanted` is
what it has to put on disk: what the boot found, with every block since answered with
success. The answer itself promises less: `EEPROMWrite0_8k_Check` returns success
for a flush that failed, and what no later flush repairs is gone with the process.
`Crash` ends the process at any point. The 8 KB of the code are a few blocks
here; `fwrite` of a buffer reaches the file piece by piece.

`SaveStore` assumes that a block is programmed atomically. `EepromFile` says
what the port makes of that: true when the process ends outside a flush, or a
flush fails to open; false when it ends inside one (run `eeprom_torn`), when a
flush is cut short, and when a boot that cannot read the file writes.

`CreateBackup` and `RestoreLatestBackup` are the two menu entries, one step
each: they run on the game thread. Copying may fail half way. The restore
compares 13 characters of a name with a prefix of 12, the terminating zero
included, so it finds no backup and says that there is none (`HasPrefix`,
`BackupsFound`). With 12 it would write `tmc.sav` over and leave `sEeprom` as it
was: the next boot would not load what was flushed last, unless a block written
before it flushes the old image over the restored one. That is the mutant which
`BootLoadsLastFlush` notices. The newest of several
backups, and names by date, are not told apart.

### EntityLists and EntityUpdate

A pointer is a number: a slot, a list head (a node, as in the code), `Null` or
`Gone`, the -1 in `prev` of an entity deleted in this pass. Deletion is what
touches the lists and counters; what `DeleteEntity` releases elsewhere
(palettes, hitboxes, scripts) is not modelled. The NULL guards that the port
added around list heads are left out: no head is ever NULL in the model, which
is what `ListsAreRings` shows.

`EntityUpdate` walks list after list. While an entity is under update (`pc =
"update"`) its code may, up to `MaxCalls` times, create entities and managers,
delete any (itself too), kill all enemies, move itself to the front; then it
returns or leaves through `DeleteThisEntity`. `build` chooses the walker: the
assembly goes on from `current_entity`, which `UnlinkEntity` keeps valid; the
C walk from the successor it read before the update. Between passes rooms are
loaded, recycled and cleaned, and subtasks put the heads away (`stash`), clear
the pools (`portal`), and give the heads back. `task = "init"` is the time
between `sub_080A71F4` and `GameTask_Init`, in which no pass runs.

### ParallelFor

Thread 0 is the caller, `pc` says where each thread is, `next` is the atomic
counter and `err` is `first_error`. `path` chooses the half of `#ifdef
__SWITCH__`. They differ in two ways the properties have to respect. After an
error the std::thread workers set `next` to `total` and leave (`Store`), so
indices are skipped; on Switch the callback keeps the error and the loop goes
on, so all bodies run; `AllDone` says both. A std::thread that cannot start throws
out of the loop that starts them, which is fatal when another is running
already (`terminated`); libnx goes on with the threads it has. `Serial` is the
plain loop for one worker, where an exception leaves at once.

The comment on `BackgroundWriter` (`port_asset_log.hpp:105`) calls "first error
wins, all tasks complete" the semantics of `ParallelFor`. That is true of the
Switch build only.

`runs`, `done` and `failed` are history: what was called, returned and threw.
The relaxed memory order of the counter costs nothing here: only its
modification order matters, and joining orders the rest.

### AssetBuild

`json` and `pak` are what the aggregate JSON files and archives in `assets/`
hold: nothing, a torn beginning, or what one ROM gives. `state` is
`.asset_build_state.json`: missing, unreadable, without a fingerprint, or with
one. `Launch` starts a process with some ROM, mode and `--force` (the port
never forces, `asset_extractor` may); `Exit` ends it anywhere. In between the
actions follow `ExtractAssets`: `Check`, `Wipe`, the phases, each with a
`Submit`, `Wait`, the archives, the state file, the fingerprint. `wpc`, `queue`,
`in_flight` and `first_error` are `BackgroundWriter`; `threaded` is false on
Switch, where `Submit` writes the file itself. `asleep` stands for waiting on a
condition variable; it ends with the notify in the code and never by itself, so
a lost wake-up would show in `BuildEnds` (a real one may also wake spuriously,
which only helps).

Files either succeed or fail to open or write where the code looks. Left out:
the loose binary files, whose write errors the code ignores, so nothing can be
claimed of them; `Shutdown`, which runs when the queue is empty; the mtime 0
("no opinion") of a ROM that is not beside the program, which makes two ROMs of
one size equal to `UpToDate`. A loop that throws ends the process, as `Exit`.

### GfxSlots

`m` is the table `gGFXSlots` with what `vram.c` changes in an entity: the slot it
holds (`spriteAnimation[0]`) and where its tiles start (`spriteVramOffset`). The
operations are functions from memory to memory, written after the code:
`FindFreeGFXSlots` tries FREE runs before UNLOADED ones, `CleanUpGFXSlots` moves
runs down, one each turn (`CleanUpTurn`), `MoveRun` tells every linked entity, `UploadSlots` makes
the uploads of a frame. `drawn` stands for video memory: the slots that show what
their run's source says. `pic` and `lender` are history: what an entity asked
for, and whose tiles it shows. `live` is being linked into a list, which is what
`sub_080AE218` walks; `away` are those a subtask put away with the lists, and
`stash` is their table.

Three places where the code gives no guarantee show in the properties:

* In a full pool `FindFirstFreeGFXSlot` answers 0, which is a slot, and the
  compaction moves a run onto the reserved slots. `sound` becomes FALSE and
  nothing is asked of that room any more; `OnlyFullPoolsAreLost` says that
  there is no other way, but for a compaction inside a subtask, which rewrites
  the entities that were put away as if they pointed into the new table.
* An entity that loads a graphic without unloading the one it holds leaks a
  reference (`frozenOctorok.c:323` does). `leaked` is set, and from then on
  counts are only upper bounds.
* `FindNextOccupiedGFXSlot` never looks at the last slot.

Left out: the OAM and affine entries that a move rewrites as well (they are
rebuilt every frame), LZ77 sources, palettes, the animation of the reserved
slots, and the per-slot `unk_3` uploads.

### Diagnostics

One action per atomic access of the ring, so that readers and writer meet at
every point: `EventStart`, `StoreField` for each field, `Publish`, `Advance` by the game
thread; `ReadEnd`, `Check`, `ReadField`, `Recheck` by either reader, the
watchdog in a stall and the exception handler in a crash. The data of an event
is its number, so a mixture shows. `dog` is the watchdog's loop with its locals,
`held` the time between pausing and resuming the game thread in
`SampleMainThread`, `ready` which of the thread and the two report files could be created.
`Crash` may meet any thread at any point; a second exception ends the process.
`game` and `sPaused` follow `Port_Switch_AppletTick` and `userAppExit`.

The properties say what the report is worth: no torn event, nothing missing but
what newer events took over, a stall reported only after as many intervals without a
frame as the code counts, none of them spent in a suspension (and the first stall of
a launch always, if it lasts: there is one report per launch), the report's buffer and
file used by one owner at a time, and no wait for a thread that is held or gone.
A second thread that crashes while the first is being reported ends the process and
cuts that report short; the code says so. `calm` counts the intervals: a read of the
frame begins a new count when the one before it was in the same suspension
(`game = "applet"`, the call of `appletMainLoop`). The pause flag is read after the
frame, so a suspension that ends between the two reads counts as one miss; the next
read finds its frame and starts from 0, and one miss of eight is no stall. With
`Samples = 1` it would be. `ReleaseGame` assumes that the kernel resumes the thread it
paused; the code only reports that result, and a game thread that stays
paused would not end. Left out: the breadcrumbs (stage,
actor, script), each a single word; the wrap of the 32-bit sequence; relaxed
order of `sFrame` and `sPaused`, which are independent of the ring.

### UpdateSwap

The three files are a release and whether all of it is there. `Access` to
`PutBack` are the calls of `Port_Switch_ApplyPendingUpdate`, `Check` to `Discard`
those of the download. Any call may fail, power may go before any call, and
`fclose`, whose result is ignored, may lose the last part of a file that is then
reported as downloaded. `Copy` is the manual installation of
`docs/UPDATING.md`.

What the runs and proofs do not promise, because the code does not: a power cut
between the two renames leaves no `tmc.nro`, and a cut or a full card during the
download leaves a part that the next start swaps in unseen; in both cases
`tmc.nro.previous` is whole (`Recoverable`). A program that was swapped in runs
from the start after next. After a second download in one session `.previous`
may be the same release. A copy by hand beside a waiting update is replaced by
that, older or not. (`docs/UPDATING.md` says that there is no self-updater;
`README.md:104` and `CHANGELOG.md:98` describe the one that is there.)

## Runs

| Run | Bounds | Result |
| --- | --- | --- |
| `save_crash` | two player files (one with a worn block in each copy), header (one worn block), file 5; 2 payloads; 2 data blocks; 3 requests; 2 power losses | `SaveIsAtomic`, `BootKeepsSaves`, `OkRestoresRedundancy`, `FirstLossIsSafe`, `SaveAnswers`, `BootCompletes`, `TypeOK` hold (112 389 states) |
| `save_zero` | a payload whose sum is 0 | `OkParsesAsValid` is violated |
| `eeprom_file` | 3 blocks, 3 writes, 2 crashes, backups, any `fopen`, `fread` or `fwrite` failing | `BootLoadsLastFlush`, `FlushSavesAll`, `TypeOK` hold (2 920 246) |
| `eeprom_torn` | 3 blocks, 3 writes, 2 crashes | `FlushAvoidsLoss` is violated |
| `entities` | both walks; pools of 1, 2 and 1; lists 6, 7, 8; 2 calls a pass; subtasks | `CountsExact`, `ListsAreRings`, `AsmUpdatesEveryone`, `PassEnds`, `TypeOK` hold (286 827) |
| `entities_walk` | C walk; pools of 1, 3 and 1; lists 6 and 8 | `EveryoneIsUpdated` is violated |
| `parallel_for` | both builds; 0 to 4 indices; up to 3 threads, the caller among them | `NoIndexTwice`, `NobodyOutlivesTheCall`, `AllDone`, `Ends`, `TypeOK` hold (12 461) |
| `asset_build` | 2 ROMs, 2 JSON files, 2 archives, 2 launches, both modes, with and without a thread | `BuiltIsComplete`, `StampIsComplete`, `BuildEnds`, `TypeOK` hold (76 522) |
| `asset_stale` | 1 ROM, 1 JSON file, 1 archive, 3 launches | `CurrentIsComplete` is violated |
| `gfx_slots` | 2 entities, 2 reserved and 4 general slots; a fixed graphic of two slots, swapped runs of one and two, a frame of one | `RunsIntact`, `ReferencesCounted`, `RefusedOnlyWhenFull`, `FramesShowPictures`, `OnlyFullPoolsAreLost`, `TypeOK` hold (207 142) |
| `diagnostics` | a ring of 2 entries with 2 fields, 3 events, 2 frames, a stall of 2 samples, a crash of any thread | `NoTornEvent`, `OnlyOverwrittenMissing`, `ReportKeepsOut`, `StallIsReal`, `StallReported`, `Ends`, `TypeOK` hold (358 442) |
| `update_swap` | 3 releases, 2 failing calls, 2 power cuts, 1 lost tail | `Recoverable`, `StartsAgain`, `ReportedIsApplied` hold (20 058) |

Why these bounds are enough to be interesting. Saves: two payloads are what
tells old from new; two blocks make a torn copy; a second request after a power
loss overwrites what the loss left, a second loss cuts the boot or that
request; the two player files show interference between files, and a file with
worn blocks beside one without. EEPROM: a crash, a boot that cannot read, a write, a crash
and another boot; three blocks are one that is written, one that a cut leaves and one
it takes. Entities: two on a list beside its head give an updated one a
neighbour that is created or deleted, and `entities_walk` has three; a full pool
is reached, so allocation sacrifices
sleepers; three lists let the C walk leave one for another. Parallel loops: two helpers
beside the caller can fail, hold the mutex and fetch at the same time, and
there are more indices than threads. Extraction: two launches let a build fall
over what another left; two JSON files are needed for a queue behind a file
under way; the third launch of `asset_stale` finds what the second broke.
Graphics: four general slots hold a gap between two runs, overlapping moves, a
request that only a compaction can serve, and a full pool; two entities share,
borrow from each other, or compete. Diagnostics: the third event takes the place
of the first while it is read. Updates: the third release finds what the first
two swaps left behind.

The counters in the
cfgs (`MaxOps`, `MaxCrashes`, `MaxWrites`, `MaxCalls`, `MaxStashed`,
`MaxLaunches`, `MaxSequence`, `MaxFrame`, `MaxRelease`, `MaxFailures`,
`MaxCuts`, `MaxTails`) only bound
the environment. `MaxCalls` also bounds what the updates of one pass create, so
`PassEnds` does not speak of updates that go on creating without end. `gfx_slots` is explored under the constraint `InOrder`: not
beyond the loss of a pool, and in a subtask only while that uses one general slot
of its own table. Its entities are interchangeable (`Alike`); none of its
properties is temporal with fairness.

`CHECK_DEADLOCK FALSE` stands where the system may rest: the EEPROM when its
writes are made, the C walk once it follows memory that is no entity, a
parallel loop when it has ended, the extraction after the last launch, a process
that has ended in `diagnostics`, and `gfx_slots`, where the constraint cuts
behaviours off. There
`Ends` and `BuildEnds` say that nothing stops earlier.

Fairness. `FairSpec` of `SaveStore` asks weak fairness of the frame loop's own
steps, `EntityUpdate` of the walk: `AgbMain` loops as long as there is power,
and these steps wait for nothing. Requests, power losses and an update's calls
are free to happen or not. `SaveAnswers` and `BootCompletes` allow a power loss
to end the wait. `ParallelFor` and `AssetBuild` ask that the scheduler runs
every thread that is not waiting, and that every body and system call ends;
both sleep only on joins and condition variables, which are in the guards.
`Diagnostics` asks the same of the watchdog and of the exception handler; of the
game thread only that leaving the program, once begun, goes on (`ExitWaits`,
`ProcessEnds`): a game that hangs is what the watchdog is for. `UpdateSwap` asks
that the program goes on from call to call, and that the player goes on
starting it and, although the menu may keep the program busy again and again,
leaving it (strong fairness of `Quit`): a swap happens at a start, so without starts nothing is
applied.

## What the violated runs say

* A save whose 16-bit sum is 0 is written, answered with `SAVE_OK`, and then
  parses as bad, because `checksum1 + checksum2` is 0 and not 0x10000.
* A process that ends inside `FlushEepromFile` leaves a short `tmc.sav`; the
  missing blocks load as zeros, also those nobody wrote in this session.
* `ram_UpdateEntities` is not the walk of `arm_UpdateEntities`: when an update
  deletes its successor, the rest of the list is skipped in that pass.
* `WipeStaleRuntime` keeps the state file, and nothing invalidates the old
  fingerprint before the state file is rewritten at the end. A build that is
  cut short (loose over archives, say) leaves a fingerprint that makes the next
  launch in the old mode skip the extraction over files that are gone.
  `StampIsComplete`, which holds, says that this is the only way: a fingerprint
  with no unfinished build after it is over complete files.

## Proofs

TLAPS proves, for every value of the constants:

* `SaveStoreProofs!Typing`: `Spec => []TypeOK`, worn blocks included.
* `SaveStoreProofs!Atomicity`: `Spec => SaveIsAtomic`, from two assumptions.
  `NoWear`: no block fails to program, as on the port. `NonZeroSums`: no
  payload has the sum 0, which the run `save_zero` shows to be needed.
* `SaveStoreProofs!AnswerMeansBoth` (`OkRestoresRedundancy`), `!FirstLoss`
  (`FirstLossIsSafe`), `!BootKeeps` (`BootKeepsSaves`), from the same two.
* `EepromFileProofs!Typing`, `!FlushIsComplete` (`FlushSavesAll`),
  `!BootIsLastFlush` (`BootLoadsLastFlush`), failing loads and backups included.
* `ParallelForProofs!OnceEach` (`NoIndexTwice`), `!Complete` (`AllDone`),
  `!NobodyLeft` (`NobodyOutlivesTheCall`), `!TypeCorrect`, for any number of
  threads and indices, both builds, any body throwing and any start failing.
* `AssetBuildProofs!BuiltComplete`, `!StampComplete`, `!TypeCorrect`, for any
  number of ROMs, files and launches.
* `DiagnosticsProofs!NeverTorn`, `!NoneMissing`, `!StallsAreReal`,
  `!ReportIsApart`, `!TypeCorrect`, for any ring, fields and samples
  (`!StallsAreReal`: more than one sample).
* `EntityProofs!CountsAreExact` (`CountsExact`), `!RingsStay` (`ListsAreRings`),
  `!AsmWalkUpdatesEveryone` (`AsmUpdatesEveryone`), `!TypeCorrect`, for pools,
  lists, stashes and updates of any number.
* `GfxSlotsProofs!PoolStaysCut` (`RunsIntact`), `!ReferencesAreHolders`
  (`ReferencesCounted`), `!NoneRefusedWhileThereIsRoom` (`RefusedOnlyWhenFull`),
  `!PicturesAreShown` (`FramesShowPictures`), `!MovesHitOnlyFullPools`
  (`OnlyFullPoolsAreLost`), `!TypeCorrect`, for pools, runs and entities of any
  number.
* `UpdateSwapProofs!NeverLost` (`Recoverable`), `!OneFailureIsMended`
  (`StartsAgain`), for any number of releases, failures and cuts.

The argument for atomicity. `SaveIsAtomic` alone is not inductive: in the
middle of a save nothing in the register says what the blocks hold. `IInv`
adds it. `StatusInv`: every status block is one the code writes and the spare
block is unused. `DoubleWriteInv`: the blocks a save has passed hold its
payload; while it is on copy 1, what copy 2 says is what the reader said before
(and before its first block the file still reads as before); on copy 2, copy 1
holds the new payload under its status. `MarkInv`: the same for the two status
blocks of a mark. `StatusInv` and the type invariant give what each copy reads
as (`CopyFacts`); a step that programs data or status keeps `IInv`
(`DataStepIInv`, `StatusStepIInv`); power loss keeps it because `job` is gone
(`PowerLossIInv`) and maps to a step of the register because what is on the
device reads as the old value or the new one (`PowerLossReads`). `StepRefines`
puts the actions together.

What it promises beyond that needs three more parts (`SInv`). `AnswerInv`: the job under way is
the one that was asked for, and `SAVE_DONE` finds both copies written.
`MirrorInv`: until power is lost for the first time the two copies of a file are
equal, but for what the running job has changed of one; so there is always one
to read. `BootInv`: nothing is saved before the second signature is complete,
and a boot never starts a job on a file that reads back.

For the EEPROM file the invariant is that a file that is not torn loads as the
last flushed image (`WholeInv`), that while a flush runs the file is a prefix of the
image in memory (`FlushInv`), and that this image is what is wanted on disk in a
process that could read the file (`WantedInv`). The last one fails after
`LoadEepromFails`, which is why `FlushIsComplete` leaves such a process out.

For the parallel loop (`Inductive`): that no index runs twice needs that
everything the counter has not reached, and everything past the end, is
untouched (`Claims`); the second half is what survives `next.store(total)`,
which may lower the counter. That all is done on return needs who holds what
(`Held`, `Accounts`): an index that was called is done, failed, or in some
thread's hands; that nothing below the counter was skipped unless the
std::thread build met an error (`NoGap`); that a thread leaves only past the end
(`Exits`); where caller and helpers can be (`Crew`, `CallerAt`), so that nobody
is left after the join; and that an exception is in `first_error` or on its way
there (`Caught`, `Kept`), so that an error is never mistaken for a return.

For the extraction: outside its phases the writer has nothing left and keeps no
error (`Writer`); a JSON file whose phase is over is written, on its way, or its
error is kept (`JsonDone`), and the same of archives (`PakDone`); files change
only in a build that has begun (`Begun`). Hence no path to the state file goes
past a file that failed.

For the ring: an entry that bears a number holds that event and only that
(`Whole`); the entry being written bears none until the last store (`Marked`); the last
events are all there (`Kept`). A reader that still finds the number has read
fields of that event (`Reading`), and what it has passed is in its report or
overwritten (`Passed`). For the stall: the count of misses stays below the
count of reads since the last frame and outside a suspension, but for the one miss of
a suspension that ends between the two reads (`Paced`). For the buffer: where the
watchdog can be while the game writes its log or closes the file (`Apart`).

For the swap: what is kept was started once, so it is whole, and while
`tmc.nro` is away it is there (`Kept`); with one failure at most the update
that waits is whole, and the call that mends a failure is not the first to fail
(`Mended`).

For the entities, from `EntityAssumption` and `WalkAssumption` (the numbers of
slots and heads, and which lists there are). `Members` follows a list from its
head, so it says nothing of what a step does to a list. The invariant speaks of
sets: `RingOf` says that `next` and `prev`, each undoing the other, link exactly
a set `S` and a head, and that no part of `S` is a circle of its own;
`WalkOfRing` shows that the walk then meets `S`, each once. Every operation of
`EntityLists` turns such memory (`Sound`) into such memory; a loop
(`DeleteWhere`) does so by induction over the set of slots it deletes,
which is written as the minimal element of a set of sets (`MinimalSubset`), since
the library's induction theorems cannot be instantiated. `Sound` also says who is off the lists and how
that is counted (`CountsFit`). While a subtask runs, the heads are in the stash:
what they link is not on any list but keeps its links and is not free
(`PutAway`), so the rings are there again when the heads return. In the walk of
the assembly, what the walk is through with is a front part of the ring that ends
at `current_entity` and holds nobody who is still to be updated (`Passed`,
`Reached`): a new entity is in front or behind everyone, and `UnlinkEntity` moves
`current_entity` back when it takes that entity away.

For the graphics slots, from `PoolAssumption`: at least one reserved and one
general slot, pictures that fit the pool, and fewer entities than a reference
count can hold. `TypeInv` holds of lost pools too. While the
pool is `sound`, the table is cut into runs, in use or released, whose other
slots say nothing (`Cut`); heads have references exactly when in use (`Head`);
holders are counted (`Referred`); an entity's tiles start where it, or its
lender, holds a run of the asked-for graphic (`Pointing`); what needs no upload is
in video memory (`InMemory`). The same holds of the table a subtask put away and
of its entities (`AwayInv`), so it holds again when they come back. `RunsIntact`
and the others follow from that at once. The work is in the operations: `Replaced`
says when a part of a table may get new contents and stay cut, and each
operation is such a replacement; a move is one of the gap together with the run
behind it (`MovedWhole`). The loop of `CleanUpGFXSlots` keeps all of that turn
by turn (`Kept`), as long as an idle slot is left to move to; without one
it hits the reserved slots (`CleanUpFull`), and that is the only way to lose a
pool. When the loop ends no idle slot is before the last run
(`CleanUpPacks`), so a load that is refused found too few idle slots in all, the
last slot included, which the loop never looks at.

Every invariant and action property that a passing run checks is thus also a
theorem. Only model-checked: `SaveStore` with worn blocks where the theorems ask
for `NoWear`, and all liveness (`SaveAnswers`, `BootCompletes`, `PassEnds`, `Ends`,
`BuildEnds`, `StallReported`, `ReportedIsApplied`): TLAPS does not prove liveness
from fairness.

## Plan

Done, in this order: `SaveStore`, `EepromFile`, `EntityLists` and
`EntityUpdate`; `ParallelFor` and `AssetBuild`; `GfxSlots`, `UpdateSwap`,
`Diagnostics`, the backups; the theorems above.

Left, in this order:

1. The theorems of `SaveStoreProofs` without `NoWear`: a copy whose data block is
   worn is given up, and its status says so.
2. `SaveRegister` restated over what `EepromFile` proves of a block, so that the
   register is implemented by `tmc.sav` outside a flush.
3. The background runner `switch_bg_*` around `ParallelFor`, the two-step build
   of the extraction.

## Not modelled

Quicksave. On Switch nothing reaches it: its menu page is commented out
(`port_debug_menu.cpp:675`, `:913`), and F5 and F6 belong to the PC build. What a
restore does was read, and two things are listed as hazards. It puts the list
heads back and zeroes the manager pool, while `gEntCount` and `gManagerCount`
stay as they are; when the last manager of list 8 held the first slot of the
pool, the next manager gets that slot and `AppendEntityToList` links it to
itself, so the walk never ends. And it does not ask for the stable state that
saving asks for. A model of what follows would depend on bytes of cleared slots
that `EntityLists` does not have.

The background runner `switch_bg_*`: a thread, a flag and a join, without a
decision of its own. Soft slots: a few bytes of state changed by one thread; its
file is written like `tmc.sav`.

The event priority handler, scripts, messages, flags, kinstones and the several
hundred state machines of enemies, NPCs and objects: sequential game content
driven by ROM data; what they may do to shared state is covered by the free
choices in `EntityUpdate` and `GfxSlots`. Picture, sound, settings, menus, network and
achievements: device I/O and user interface. The render pool is built without
workers. `libs/` is third-party; the rest of `tools/` builds ROM tables and
graphics offline.

That is why the map covers a small share of the repository's lines: most of them
are tables generated from the ROM (`data_const_stubs.c`, `port_rom_tables.c`,
`port_asset_index.c`, sounds), vendored libraries, and the game content above.
What is mapped is the part in which steps of several actors, failures and power
losses meet.
