----------------------------- MODULE UpdateSwap -----------------------------
(***************************************************************************)
(* The self-update of the Switch build: port_update_check.c downloads a    *)
(* release next to the program, switch_update.c swaps the files when the   *)
(* program is next started.  Each call on the SD card is a step: it may    *)
(* fail, and the power may be lost before it.                              *)
(*                                                                         *)
(* A program file is a release and whether all of it is there.             *)
(***************************************************************************)
EXTENDS Integers

CONSTANTS
    MaxRelease,   \* bound on the releases published
    MaxFailures,  \* bound on the failing calls on files
    MaxCuts,      \* bound on the losses of power
    MaxTails      \* bound on the files whose last part fclose cannot write

ASSUME BoundsAssumption ==
    /\ MaxRelease \in Nat \ {0} /\ MaxFailures \in Nat
    /\ MaxCuts \in Nat /\ MaxTails \in Nat

Releases == 1 .. MaxRelease
NoFile == [release |-> 0, whole |-> FALSE]
Program(v) == [release |-> v, whole |-> TRUE]
Part(v) == [release |-> v, whole |-> FALSE]

VARIABLES
    nro, previous, update,  \* tmc.nro, tmc.nro.previous, tmc.nro.update
    pc,          \* the next call of the program; "off" when it does not run,
                 \* "game" when no update is at work
    running,     \* TMC_COMMUNITY_VERSION of the program that runs
    sLatest, sAvailable,
    status,      \* sStatus: what the last download came to
    release,     \* the newest release on GitHub
    failures, cuts, tails  \* what went wrong so far

files == <<nro, previous, update>>
menu == <<sLatest, sAvailable, status>>
troubles == <<failures, cuts, tails>>
vars == <<files, pc, running, menu, release, troubles>>

Init ==
    /\ nro = Program(1) /\ previous = NoFile /\ update = NoFile
    /\ pc = "off" /\ running = 1
    /\ sLatest = 0 /\ sAvailable = FALSE /\ status = "none"
    /\ release = 1
    /\ failures = 0 /\ cuts = 0 /\ tails = 0

\* A call fails, and the program goes on at next.
Fails(next) ==
    /\ failures < MaxFailures /\ failures' = failures + 1
    /\ pc' = next

\* rename on the SD card: it never replaces a file.
Moves(from, to) == from # NoFile /\ to = NoFile

-----------------------------------------------------------------------------
(* Port_Switch_ApplyPendingUpdate, first thing in main.                    *)

\* The player starts tmc.nro: hbmenu loads all of it before it runs.
Start ==
    /\ pc = "off" /\ nro.whole
    /\ pc' = "access" /\ running' = nro.release
    /\ sLatest' = 0 /\ sAvailable' = FALSE /\ status' = "none"
    /\ UNCHANGED <<files, release, troubles>>

Access ==
    /\ pc = "access"
    /\ pc' = IF update = NoFile THEN "game" ELSE "remove"
    /\ UNCHANGED <<files, running, menu, release, troubles>>

\* Mutant: the swap relies on rename to replace the file kept last time.
RemoveNothing ==
    /\ pc = "remove" /\ pc' = "renameNro"
    /\ UNCHANGED <<files, running, menu, release, troubles>>

\* The result of remove is not looked at.
RemovePrevious ==
    /\ pc = "remove"
    /\ \/ /\ previous' = NoFile /\ pc' = "renameNro"
          /\ UNCHANGED troubles
       \/ /\ previous # NoFile /\ Fails("renameNro")
          /\ UNCHANGED <<previous, cuts, tails>>
    /\ UNCHANGED <<nro, update, running, menu, release>>

\* Mutant: the running program is removed, not kept.
RemoveNro ==
    /\ pc = "renameNro"
    /\ nro' = NoFile /\ pc' = "renameUpdate"
    /\ UNCHANGED <<previous, update, running, menu, release, troubles>>

RenameNro ==
    /\ pc = "renameNro"
    /\ \/ /\ Moves(nro, previous)
          /\ previous' = nro /\ nro' = NoFile /\ pc' = "renameUpdate"
          /\ UNCHANGED troubles
       \/ /\ ~Moves(nro, previous) /\ pc' = "game"
          /\ UNCHANGED <<nro, previous, troubles>>
       \/ /\ Moves(nro, previous) /\ Fails("game")
          /\ UNCHANGED <<nro, previous, cuts, tails>>
    /\ UNCHANGED <<update, running, menu, release>>

\* The new program runs from the next start on; this run goes on in the old.
RenameUpdate ==
    /\ pc = "renameUpdate"
    /\ \/ /\ nro' = update /\ update' = NoFile /\ pc' = "game"
          /\ UNCHANGED troubles
       \/ /\ Fails("putBack")
          /\ UNCHANGED <<nro, update, cuts, tails>>
    /\ UNCHANGED <<previous, running, menu, release>>

\* Mutant: a failed rename is not undone.
LeaveAside ==
    /\ pc = "putBack" /\ pc' = "game"
    /\ UNCHANGED <<files, running, menu, release, troubles>>

PutBack ==
    /\ pc = "putBack"
    /\ \/ /\ nro' = previous /\ previous' = NoFile /\ pc' = "game"
          /\ UNCHANGED troubles
       \/ /\ Fails("game")
          /\ UNCHANGED <<nro, previous, cuts, tails>>
    /\ UNCHANGED <<update, running, menu, release>>

-----------------------------------------------------------------------------
(* Port_Update_Check and Port_Update_Download, from the menu.  They run in *)
(* the game thread, which waits for the network.                           *)

IsNewer(tag) == tag > running

Check ==
    /\ pc = "game"
    /\ \/ /\ sLatest' = release /\ sAvailable' = IsNewer(release)
          /\ status' = "checked"
       \/ /\ sLatest' = 0 /\ sAvailable' = FALSE /\ status' = "noAnswer"
    /\ UNCHANGED <<files, pc, running, release, troubles>>

\* The request fails, or what comes is no program.
DownloadFails ==
    /\ pc = "game" /\ sAvailable
    /\ status' = "failed"
    /\ UNCHANGED <<files, pc, running, sLatest, sAvailable, release, troubles>>

\* The answer is in memory, checked by curl; fopen cuts an update that waits.
Open ==
    /\ pc = "game" /\ sAvailable
    /\ \/ /\ update' = Part(sLatest) /\ pc' = "write"
          /\ UNCHANGED troubles
       \/ /\ Fails("discard")
          /\ UNCHANGED <<update, cuts, tails>>
    /\ UNCHANGED <<nro, previous, running, menu, release>>

Write ==
    /\ pc = "write"
    /\ \/ /\ pc' = "close"
          /\ UNCHANGED troubles
       \/ /\ Fails("discard")
          /\ UNCHANGED <<cuts, tails>>
    /\ UNCHANGED <<files, running, menu, release>>

\* fclose writes what fwrite left in the buffer; its result is not looked at.
Close ==
    /\ pc = "close"
    /\ \/ update' = Program(sLatest) /\ UNCHANGED tails
       \/ tails < MaxTails /\ tails' = tails + 1 /\ UNCHANGED update
    /\ pc' = "game" /\ status' = "downloaded"
    /\ UNCHANGED <<nro, previous, running, sLatest, sAvailable, release, failures, cuts>>

Discard ==
    /\ pc = "discard"
    /\ \/ /\ update' = NoFile /\ pc' = "game"
          /\ UNCHANGED troubles
       \/ /\ update # NoFile /\ Fails("game")
          /\ UNCHANGED <<update, cuts, tails>>
    /\ status' = "failed"
    /\ UNCHANGED <<nro, previous, running, sLatest, sAvailable, release>>

-----------------------------------------------------------------------------
(* The world around.                                                       *)

Quit ==
    /\ pc = "game" /\ pc' = "off"
    /\ UNCHANGED <<files, running, menu, release, troubles>>

PowerCut ==
    /\ pc \notin {"off", "game"}
    /\ cuts < MaxCuts /\ cuts' = cuts + 1
    /\ pc' = "off"
    /\ UNCHANGED <<files, running, menu, release, failures, tails>>

Publish ==
    /\ release < MaxRelease /\ release' = release + 1
    /\ UNCHANGED <<files, pc, running, menu, troubles>>

\* docs/UPDATING.md: with the game closed, the player copies the tmc.nro of a
\* release over the one on the card; an update that waits is left there.
Copy ==
    /\ pc = "off" /\ nro' = Program(release)
    /\ UNCHANGED <<previous, update, pc, running, menu, release, troubles>>

Swap == Access \/ RemovePrevious \/ RenameNro \/ RenameUpdate \/ PutBack
Fetch == DownloadFails \/ Open \/ Write \/ Close \/ Discard
Next == Start \/ Swap \/ Check \/ Fetch \/ Quit \/ PowerCut \/ Publish \/ Copy

Spec == Init /\ [][Next]_vars

\* The program does not stop between two calls, and the player goes on
\* starting it and leaving it.
FairSpec ==
    /\ Spec
    /\ WF_vars(Start) /\ WF_vars(Swap) /\ SF_vars(Quit)
    /\ WF_vars(Write \/ Close \/ Discard)

-----------------------------------------------------------------------------
(* Properties.                                                             *)

Files == {NoFile} \cup [release : Releases, whole : BOOLEAN]

\* Every variable keeps the range its code can give it.
TypeOK ==
    /\ nro \in Files /\ previous \in Files /\ update \in Files
    /\ pc \in {"off", "access", "remove", "renameNro", "renameUpdate", "putBack",
               "game", "write", "close", "discard"}
    /\ running \in Releases /\ release \in Releases
    /\ sLatest \in 0 .. MaxRelease /\ sAvailable \in BOOLEAN
    /\ status \in {"none", "checked", "noAnswer", "failed", "downloaded"}
    /\ failures \in 0 .. MaxFailures /\ cuts \in 0 .. MaxCuts /\ tails \in 0 .. MaxTails

\* The swap keeps the program it replaces: whatever fails, and wherever the
\* power is lost, a whole program is on the card, as tmc.nro or as the
\* tmc.nro.previous the player can put back.
Recoverable == nro.whole \/ previous.whole

\* tmc.nro itself starts again without the player's help, as long as no power
\* was lost, no fclose lost a tail and no second call failed: a failed write is
\* discarded, a failed rename undone.
StartsAgain ==
    pc \in {"off", "game"} /\ cuts = 0 /\ tails = 0 /\ failures <= 1 => nro.whole

\* "Baixado; reinicie o jogo para aplicar": what the menu reports as downloaded
\* becomes tmc.nro, the second and the third time too and also after calls that
\* failed, unless another download fails or brings a newer one, or no program
\* is left that could be started.
Reported(v) == pc = "game" /\ status = "downloaded" /\ sLatest = v /\ tails = 0
ReportedIsApplied ==
    \A v \in Releases :
        Reported(v) ~> \/ nro = Program(v)
                       \/ status = "failed" \/ update.release > v
                       \/ pc = "off" /\ ~nro.whole
=============================================================================
