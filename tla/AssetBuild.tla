------------------------------ MODULE AssetBuild ------------------------------
(***************************************************************************)
(* ExtractAssets over several launches: the check of                       *)
(* .asset_build_state.json, the wipe, the phases with their aggregate JSON *)
(* files handed to BackgroundWriter, the archives, the state file and its  *)
(* ROM fingerprint.  The process may end between any two steps.            *)
(*                                                                         *)
(* A file holds what one ROM gives, nothing, or the torn beginning of it.  *)
(* The loops inside a phase are those of module ParallelFor; an exception  *)
(* of theirs ends the process.  Loose binary files are left out: their     *)
(* writes report no errors.                                                *)
(***************************************************************************)
EXTENDS Integers, Sequences

CONSTANTS
    Roms,         \* ROMs beside the program, each with its own fingerprint
    NJson,        \* aggregate JSON files, one per phase
    Paks,         \* the archives of pak_category_names
    MaxLaunches   \* bound: launches

ASSUME BuildAssumption == NJson \in Nat \ {0} /\ MaxLaunches \in Nat

None == "none"
Torn == "torn"
Contents == Roms \cup {None, Torn}
Modes == {"loose", "v1"}
Jsons == 1 .. NJson

Stamps == [rom : Roms, mode : Modes]
Bare == [rom |-> None, mode |-> None]      \* a state file with no fingerprint
Broken == [rom |-> Torn, mode |-> None]    \* one that does not parse
Missing == [rom |-> None, mode |-> Torn]
States == Stamps \cup {Bare, Broken, Missing}

VARIABLES
    json,        \* the aggregate JSON files in runtime_root
    pak,         \* the archives there
    state,       \* .asset_build_state.json
    threaded,    \* BackgroundWriter has its thread: not __SWITCH__
    launch,      \* this process: ROM, mode and opt.force
    pc,          \* where ExtractAssets is
    phase,       \* next phase of extract_assets
    todo,        \* archives still to be visited by the current loop
    busy,        \* archives opened by a worker
    pak_errors,  \* some pak_errors[i] is set
    queue,       \* BackgroundWriter: queue_
    in_flight,   \* in_flight_
    first_error, \* first_error_ is set
    wpc,         \* where WorkerMain is
    task,        \* the file it writes
    building,    \* history: a build has begun and not been stamped since
    launches     \* launches so far

files == <<json, pak, state>>
run == <<threaded, launch, launches>>
loop == <<todo, busy, pak_errors>>
writer == <<queue, in_flight, first_error, wpc, task>>
vars == <<files, run, pc, phase, loop, writer, building>>

Init ==
    /\ json = [n \in Jsons |-> None]
    /\ pak = [p \in Paks |-> None]
    /\ state = Missing
    /\ threaded \in BOOLEAN
    /\ launch \in [rom : Roms, mode : {"v1"}, force : {FALSE}]
    /\ pc = "off"
    /\ phase = 1
    /\ todo = {}
    /\ busy = {}
    /\ pak_errors = FALSE
    /\ queue = <<>>
    /\ in_flight = 0
    /\ first_error = FALSE
    /\ wpc = "idle"
    /\ task = 1
    /\ building = FALSE
    /\ launches = 0

-----------------------------------------------------------------------------
(* A launch, until the build begins.                                       *)

Launch ==
    /\ pc = "off"
    /\ launches < MaxLaunches
    /\ launch' \in [rom : Roms, mode : Modes, force : BOOLEAN]
    /\ pc' = "check"
    /\ launches' = launches + 1
    /\ UNCHANGED <<files, threaded, phase, loop, writer, building>>

\* RuntimeAssetsUpToDateImpl: what the state file says, not what is there.
UpToDate == state = [rom |-> launch.rom, mode |-> launch.mode]

Check ==
    /\ pc = "check"
    /\ IF UpToDate /\ ~launch.force
         THEN pc' = "current" /\ UNCHANGED <<todo, building>>
         ELSE pc' = "wipe" /\ todo' = Paks /\ building' = TRUE
    /\ UNCHANGED <<files, run, phase, busy, pak_errors, writer>>

\* WipeStaleRuntime removes the archives in both modes, keeps the state
\* file and the JSON files, and ignores what it could not remove.
Wipe ==
    /\ pc = "wipe"
    /\ \E p \in todo :
          /\ pak' = [pak EXCEPT ![p] = None] \/ UNCHANGED pak
          /\ todo' = todo \ {p}
    /\ UNCHANGED <<json, state, run, pc, phase, busy, pak_errors, writer, building>>

Wiped ==
    /\ pc = "wipe"
    /\ todo = {}
    /\ pc' = "extract"
    /\ UNCHANGED <<files, run, phase, loop, writer, building>>

-----------------------------------------------------------------------------
(* extract_assets and BackgroundWriter.                                    *)

\* Mutant: the worker is not woken.
SubmitQuietly ==
    /\ pc = "extract"
    /\ phase <= NJson
    /\ phase' = phase + 1
    /\ IF threaded
         THEN /\ queue' = Append(queue, phase)
              /\ in_flight' = in_flight + 1
              /\ UNCHANGED <<wpc, task>>
         ELSE /\ wpc = "idle"
              /\ wpc' = "open"
              /\ task' = phase
              /\ UNCHANGED <<queue, in_flight>>
    /\ UNCHANGED <<files, run, pc, loop, first_error, building>>

\* A phase ends with the Submit of its JSON.  With a thread the file is
\* queued and the worker notified; on Switch the caller writes it itself.
Submit ==
    /\ pc = "extract"
    /\ phase <= NJson
    /\ phase' = phase + 1
    /\ IF threaded
         THEN /\ queue' = Append(queue, phase)
              /\ in_flight' = in_flight + 1
              /\ wpc' = IF wpc = "asleep" THEN "idle" ELSE wpc
              /\ UNCHANGED task
         ELSE /\ wpc = "idle"
              /\ wpc' = "open"
              /\ task' = phase
              /\ UNCHANGED <<queue, in_flight>>
    /\ UNCHANGED <<files, run, pc, loop, first_error, building>>

Extracted ==
    /\ pc = "extract"
    /\ phase > NJson
    /\ threaded \/ wpc = "idle"
    /\ pc' = "wait"
    /\ UNCHANGED <<files, run, phase, loop, writer, building>>

\* The worker sleeps on cv_ while there is nothing to do.
TakeTask ==
    /\ threaded
    /\ pc # "off"
    /\ wpc = "idle"
    /\ IF queue = <<>>
         THEN wpc' = "asleep" /\ UNCHANGED <<queue, task>>
         ELSE /\ task' = Head(queue)
              /\ queue' = Tail(queue)
              /\ wpc' = "open"
    /\ UNCHANGED <<files, run, pc, phase, loop, in_flight, first_error, building>>

\* WriteTask: opening the file truncates it; an error is kept for Wait.
OpenJson ==
    /\ wpc = "open"
    /\ \/ /\ json' = [json EXCEPT ![task] = Torn]
          /\ wpc' = "write"
          /\ UNCHANGED first_error
       \/ /\ wpc' = "count"
          /\ first_error' = TRUE
          /\ UNCHANGED json
    /\ UNCHANGED <<pak, state, run, pc, phase, loop, queue, in_flight, task, building>>

WriteJson ==
    /\ wpc = "write"
    /\ wpc' = "count"
    /\ \/ /\ json' = [json EXCEPT ![task] = launch.rom]
          /\ UNCHANGED first_error
       \/ /\ first_error' = TRUE
          /\ UNCHANGED json
    /\ UNCHANGED <<pak, state, run, pc, phase, loop, queue, in_flight, task, building>>

\* Mutant: a task that failed is not counted.
CountIfWritten ==
    /\ wpc = "count"
    /\ wpc' = "idle"
    /\ IF threaded /\ ~first_error
         THEN /\ in_flight' = in_flight - 1
              /\ pc' = IF in_flight = 1 /\ pc = "asleep" THEN "wait" ELSE pc
         ELSE UNCHANGED <<in_flight, pc>>
    /\ UNCHANGED <<files, run, phase, loop, queue, first_error, task, building>>

\* The worker counts the task as done, and wakes Wait when it was the last.
Count ==
    /\ wpc = "count"
    /\ wpc' = "idle"
    /\ IF threaded
         THEN /\ in_flight' = in_flight - 1
              /\ pc' = IF in_flight = 1 /\ pc = "asleep" THEN "wait" ELSE pc
         ELSE UNCHANGED <<in_flight, pc>>
    /\ UNCHANGED <<files, run, phase, loop, queue, first_error, task, building>>

\* Mutant: Wait looks at the queue, not at what the worker still holds.
WaitForQueue ==
    /\ pc = "wait"
    /\ IF queue # <<>>
         THEN pc' = "asleep" /\ UNCHANGED <<first_error, todo>>
         ELSE /\ first_error' = FALSE
              /\ pc' = IF first_error THEN "failed"
                       ELSE IF launch.mode = "v1" THEN "paks" ELSE "state"
              /\ todo' = IF first_error \/ launch.mode # "v1" THEN {} ELSE Paks
    /\ UNCHANGED <<files, run, phase, busy, pak_errors, queue, in_flight, wpc, task, building>>

\* Wait sleeps on drain_cv_ until in_flight_ is 0, then reports the first
\* error, which ExtractAssets turns into its own.
Wait ==
    /\ pc = "wait"
    /\ IF in_flight # 0
         THEN pc' = "asleep" /\ UNCHANGED <<first_error, todo>>
         ELSE /\ first_error' = FALSE
              /\ pc' = IF first_error THEN "failed"
                       ELSE IF launch.mode = "v1" THEN "paks" ELSE "state"
              /\ todo' = IF first_error \/ launch.mode # "v1" THEN {} ELSE Paks
    /\ UNCHANGED <<files, run, phase, busy, pak_errors, queue, in_flight, wpc, task, building>>

-----------------------------------------------------------------------------
(* The archives, written by a ParallelFor, and the state file.             *)

OpenPak ==
    /\ pc = "paks"
    /\ \E p \in todo :
          /\ todo' = todo \ {p}
          /\ \/ /\ pak' = [pak EXCEPT ![p] = Torn]
                /\ busy' = busy \cup {p}
                /\ UNCHANGED pak_errors
             \/ /\ pak_errors' = TRUE
                /\ UNCHANGED <<pak, busy>>
    /\ UNCHANGED <<json, state, run, pc, phase, writer, building>>

WritePak ==
    /\ pc = "paks"
    /\ \E p \in busy :
          /\ busy' = busy \ {p}
          /\ \/ /\ pak' = [pak EXCEPT ![p] = launch.rom]
                /\ UNCHANGED pak_errors
             \/ /\ pak_errors' = TRUE
                /\ UNCHANGED pak
    /\ UNCHANGED <<json, state, run, pc, phase, todo, writer, building>>

\* Mutant: the errors of the archives are not looked at.
PaksDoneAnyhow ==
    /\ pc = "paks"
    /\ todo = {} /\ busy = {}
    /\ pc' = "state"
    /\ UNCHANGED <<files, run, phase, loop, writer, building>>

PaksDone ==
    /\ pc = "paks"
    /\ todo = {} /\ busy = {}
    /\ pc' = IF pak_errors THEN "failed" ELSE "state"
    /\ UNCHANGED <<files, run, phase, loop, writer, building>>

\* WriteBuildStateFile fails only if the file cannot be opened.
OpenState ==
    /\ pc = "state"
    /\ \/ state' = Broken /\ pc' = "state_write"
       \/ UNCHANGED state /\ pc' = "failed"
    /\ UNCHANGED <<json, pak, run, phase, loop, writer, building>>

WriteState ==
    /\ pc = "state_write"
    /\ state' = Bare \/ UNCHANGED state
    /\ pc' = "stamp"
    /\ UNCHANGED <<json, pak, run, phase, loop, writer, building>>

\* StampRomFingerprint rewrites the file and ignores every error.
OpenStamp ==
    /\ pc = "stamp"
    /\ \/ state' = Broken /\ pc' = "stamp_write"
       \/ UNCHANGED state /\ pc' = "built"
    /\ UNCHANGED <<json, pak, run, phase, loop, writer, building>>

WriteStamp ==
    /\ pc = "stamp_write"
    /\ pc' = "built"
    /\ \/ /\ state' = [rom |-> launch.rom, mode |-> launch.mode]
          /\ building' = FALSE
       \/ UNCHANGED <<state, building>>
    /\ UNCHANGED <<json, pak, run, phase, loop, writer>>

-----------------------------------------------------------------------------
\* The process ends: the player quits, or it is killed, at any point.
Exit ==
    /\ pc # "off"
    /\ pc' = "off"
    /\ phase' = 1
    /\ todo' = {} /\ busy' = {} /\ pak_errors' = FALSE
    /\ queue' = <<>> /\ in_flight' = 0 /\ first_error' = FALSE
    /\ wpc' = "idle" /\ task' = 1
    /\ UNCHANGED <<files, run, building>>

Main == \/ Check \/ Wipe \/ Wiped
        \/ Submit \/ Extracted \/ Wait
        \/ OpenPak \/ WritePak \/ PaksDone
        \/ OpenState \/ WriteState \/ OpenStamp \/ WriteStamp

Worker == TakeTask \/ OpenJson \/ WriteJson \/ Count

Next == Main \/ Worker \/ Launch \/ Exit

Spec == Init /\ [][Next]_vars

\* Both threads are scheduled.
FairSpec == Spec /\ WF_vars(Main) /\ WF_vars(Worker)

-----------------------------------------------------------------------------
(* Properties.                                                             *)

PCs == {"off", "check", "current", "wipe", "extract", "wait", "asleep", "paks", "state",
        "state_write", "stamp", "stamp_write", "built", "failed"}

\* in_flight_ is what is queued and what the worker holds: it never wraps.
TypeOK ==
    /\ json \in [Jsons -> Contents]
    /\ pak \in [Paks -> Contents]
    /\ state \in States
    /\ threaded \in BOOLEAN
    /\ launch \in [rom : Roms, mode : Modes, force : BOOLEAN]
    /\ pc \in PCs
    /\ phase \in 1 .. NJson + 1
    /\ todo \subseteq Paks /\ busy \subseteq Paks
    /\ pak_errors \in BOOLEAN /\ first_error \in BOOLEAN /\ building \in BOOLEAN
    /\ queue \in Seq(Jsons)
    /\ in_flight \in Nat
    /\ in_flight = IF threaded THEN Len(queue) + (IF wpc \in {"open", "write", "count"} THEN 1 ELSE 0)
                               ELSE 0
    /\ wpc \in {"idle", "asleep", "open", "write", "count"}
    /\ task \in Jsons
    /\ launches \in 0 .. MaxLaunches

Complete(r, m) ==
    /\ \A n \in Jsons : json[n] = r
    /\ m = "v1" => \A p \in Paks : pak[p] = r

\* A build reported as successful has written every aggregate file and, in
\* v1 mode, every archive: no error of the writer's thread or of a parallel
\* loop is lost, and nothing is still under way.
BuiltIsComplete ==
    pc \in {"state", "stamp", "built"} => Complete(launch.rom, launch.mode)

\* Wherever a process ends, a fingerprint that is on disk vouches for files
\* that are all there, unless a later build has begun since.
StampIsComplete ==
    state \in Stamps /\ ~building => Complete(state.rom, state.mode)

\* "Same ROM fingerprint + pack mode as the recorded build -> assets/ is
\* current": what a launch may skip the extraction on.
CurrentIsComplete ==
    pc = "current" => Complete(launch.rom, launch.mode)

\* Extraction comes to an end: the writer and Wait never sleep on each other.
BuildEnds == (pc = "wipe") ~> (pc \in {"built", "failed", "off"})
=============================================================================
