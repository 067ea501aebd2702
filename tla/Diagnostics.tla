---------------------------- MODULE Diagnostics ----------------------------
(***************************************************************************)
(* switch_diagnostics.c: the game thread keeps a ring of the last events   *)
(* in memory, a watchdog thread reports when no frame is counted for some  *)
(* samples, and the handler of CPU exceptions reports a crash.  Both       *)
(* report from the ring while the game may go on writing to it, without a  *)
(* lock.                                                                   *)
(*                                                                         *)
(* All accesses to the ring are sequentially consistent atomics: each is a *)
(* step.  An event's data is its number, so that data of two events in one *)
(* entry shows.                                                            *)
(***************************************************************************)
EXTENDS Integers, FiniteSets

CONSTANTS
    TraceCount,   \* TRACE_COUNT, 64
    NFields,      \* kind, area, room, actor, value, target
    Samples,      \* samples without a frame that make a stall, 8
    MaxSequence,  \* bound on the events of a run
    MaxFrame      \* bound on the frames of a run

Fields == 1 .. NFields
Readers == {"watchdog", "handler"}
Threads == {"game", "watchdog", "worker"}

ASSUME SizesAssumption ==
    /\ TraceCount \in Nat \ {0} /\ NFields \in Nat \ {0}
    /\ Samples \in Nat \ {0} /\ MaxSequence \in Nat /\ MaxFrame \in Nat

VARIABLES
    sTrace,     \* the ring: [sequence, data]
    sSequence,  \* the last event that is complete
    store,      \* the next store of Event: a field, NFields + 1 for the entry's
                \* sequence, NFields + 2 for sSequence; 0 outside Event
    reader,     \* Snapshot of either reader: [pc, end, seq, field, got]
    report,     \* the entries of its report
    sFrame, sPaused, sStopping,
    sInCrash,   \* the thread that met an exception, or "clear"
    dog,        \* the watchdog: [pc, frame, last, missed, reported]
    game,       \* where the game thread is outside Event
    held,       \* the sampler holds the game thread
    up,         \* the process runs
    ready,      \* sThreadReady, sCrashReady, sStallReady
    calm        \* history: [now |-> frame reads of the watchdog since the last
                \* frame or since one within a suspension, then |-> their number
                \* at the last of them, that one included]

ring == <<sTrace, sSequence, store>>
snap == <<reader, report>>
clock == <<sFrame, sPaused, calm>>
life == <<sStopping, sInCrash, held, up, ready>>
vars == <<ring, snap, clock, dog, game, life>>

Slot(seq) == seq % TraceCount
NoData == [f \in Fields |-> 0]

Empty == [k \in 0 .. TraceCount - 1 |-> [sequence |-> 0, data |-> NoData]]
Reader(pc) == [pc |-> pc, end |-> 0, seq |-> 0, field |-> 1, got |-> NoData]
NoReader == [r \in Readers |-> Reader("off")]
NoReport == [r \in Readers |-> {}]
DogAt(pc) == [pc |-> pc, frame |-> 0, last |-> 0, missed |-> 0, reported |-> FALSE]
Calm == [now |-> 0, then |-> 0]

Init ==
    /\ sTrace = Empty /\ sSequence = 0 /\ store = 0
    /\ reader = NoReader /\ report = NoReport
    /\ sFrame = 0 /\ sPaused = FALSE /\ sStopping = FALSE
    /\ ready \in [{"thread", "crash", "stall"} -> BOOLEAN]
    /\ dog = DogAt(IF ready["thread"] THEN "loop" ELSE "gone")
    /\ game = "status"
    /\ sInCrash = "clear" /\ held = FALSE /\ up = TRUE
    /\ calm = Calm

\* The process ends, and its memory with it.
Over ==
    /\ up' = FALSE
    /\ sTrace' = Empty /\ sSequence' = 0 /\ store' = 0
    /\ reader' = NoReader /\ report' = NoReport
    /\ sFrame' = 0 /\ sPaused' = FALSE /\ sStopping' = FALSE
    /\ dog' = DogAt("gone") /\ game' = "closed"
    /\ sInCrash' = "clear" /\ held' = FALSE
    /\ calm' = Calm /\ UNCHANGED ready

-----------------------------------------------------------------------------
(* The game thread.                                                        *)

GameRuns == up /\ ~held /\ sInCrash # "game"

\* The rest of Init: diagnostics.log is put together in sStallBuffer, after
\* the watchdog was started.
StatusWritten ==
    /\ GameRuns /\ game = "status"
    /\ game' = "run"
    /\ UNCHANGED <<ring, snap, clock, dog, life>>

\* Mutant: the entry is not marked while it is written.
EventUnmarked ==
    /\ GameRuns /\ game = "run" /\ store = 0 /\ sSequence < MaxSequence
    /\ store' = 1
    /\ UNCHANGED <<sTrace, sSequence, snap, clock, dog, game, life>>

\* Event: the entry is marked as being written,
EventStart ==
    /\ GameRuns /\ game = "run" /\ store = 0 /\ sSequence < MaxSequence
    /\ sTrace' = [sTrace EXCEPT ![Slot(sSequence + 1)].sequence = 0]
    /\ store' = 1
    /\ UNCHANGED <<sSequence, snap, clock, dog, game, life>>

\* its fields are stored one by one,
StoreField ==
    /\ GameRuns /\ store \in Fields
    /\ sTrace' = [sTrace EXCEPT ![Slot(sSequence + 1)].data[store] = sSequence + 1]
    /\ store' = store + 1
    /\ UNCHANGED <<sSequence, snap, clock, dog, game, life>>

\* the entry gets its number,
Publish ==
    /\ GameRuns /\ store = NFields + 1
    /\ sTrace' = [sTrace EXCEPT ![Slot(sSequence + 1)].sequence = sSequence + 1]
    /\ store' = store + 1
    /\ UNCHANGED <<sSequence, snap, clock, dog, game, life>>

\* and then it is the last one.
Advance ==
    /\ GameRuns /\ store = NFields + 2
    /\ sSequence' = sSequence + 1
    /\ store' = 0
    /\ UNCHANGED <<sTrace, snap, clock, dog, game, life>>

Frame ==
    /\ GameRuns /\ game \in {"run", "applet"} /\ store = 0 /\ sFrame < MaxFrame
    /\ sFrame' = sFrame + 1
    /\ calm' = [calm EXCEPT !.now = 0]
    /\ game' = IF game = "applet" THEN "resumed" ELSE game
    /\ UNCHANGED <<ring, snap, sPaused, dog, life>>

\* Port_Switch_AppletTick: paused around appletMainLoop, which returns when
\* the console does; a frame is counted before the pause ends.
AppletEnter ==
    /\ GameRuns /\ game = "run" /\ store = 0 /\ sFrame < MaxFrame
    /\ sPaused' = TRUE
    /\ game' = "applet"
    /\ UNCHANGED <<ring, snap, sFrame, calm, dog, life>>

AppletLeave ==
    /\ GameRuns /\ game = "resumed"
    /\ sPaused' = FALSE
    /\ game' = "run"
    /\ UNCHANGED <<ring, snap, sFrame, calm, dog, life>>

\* userAppExit
Exit ==
    /\ GameRuns /\ game = "run" /\ store = 0
    /\ sStopping' = TRUE
    /\ game' = "exit"
    /\ UNCHANGED <<ring, snap, clock, dog, sInCrash, held, up, ready>>

\* It waits for the watchdog and closes the files.
ExitWaits ==
    /\ GameRuns /\ game = "exit"
    /\ dog.pc = "gone"
    /\ game' = "closed"
    /\ UNCHANGED <<ring, snap, clock, dog, life>>

ProcessEnds ==
    /\ GameRuns /\ game = "closed"
    /\ Over

-----------------------------------------------------------------------------
(* Snapshot, by either reader.                                             *)

\* The handler runs on the thread that crashed, and is held with it.
ReaderRuns(r) ==
    /\ up
    /\ r = "watchdog" => sInCrash # "watchdog"
    /\ r = "handler" => ~(held /\ sInCrash = "game")

NextEntry(r) == [reader[r] EXCEPT !.pc = "check", !.seq = @ + 1, !.field = 1, !.got = NoData]

\* Mutant: the oldest event is left out.
ReadEndShort(r) ==
    /\ ReaderRuns(r) /\ reader[r].pc = "end"
    /\ reader' = [reader EXCEPT ![r] =
           [@ EXCEPT !.pc = "check", !.end = sSequence,
                     !.seq = IF sSequence >= TraceCount THEN sSequence - TraceCount + 2 ELSE 1]]
    /\ UNCHANGED <<ring, report, clock, dog, game, life>>

ReadEnd(r) ==
    /\ ReaderRuns(r) /\ reader[r].pc = "end"
    /\ reader' = [reader EXCEPT ![r] =
           [@ EXCEPT !.pc = "check", !.end = sSequence,
                     !.seq = IF sSequence >= TraceCount THEN sSequence - TraceCount + 1 ELSE 1]]
    /\ UNCHANGED <<ring, report, clock, dog, game, life>>

\* Is the entry still that event's?
Check(r) ==
    /\ ReaderRuns(r) /\ reader[r].pc = "check" /\ reader[r].seq <= reader[r].end
    /\ reader' = [reader EXCEPT ![r] =
           IF sTrace[Slot(@.seq)].sequence = @.seq
             THEN [@ EXCEPT !.pc = "fields", !.field = 1, !.got = NoData]
             ELSE NextEntry(r)]
    /\ UNCHANGED <<ring, report, clock, dog, game, life>>

ReadField(r) ==
    /\ ReaderRuns(r) /\ reader[r].pc = "fields" /\ reader[r].field \in Fields
    /\ LET value == sTrace[Slot(reader[r].seq)].data[reader[r].field] IN
       reader' = [reader EXCEPT ![r] =
           [@ EXCEPT !.got[reader[r].field] = value, !.field = reader[r].field + 1]]
    /\ UNCHANGED <<ring, report, clock, dog, game, life>>

\* And was it all the time?
Recheck(r) ==
    /\ ReaderRuns(r) /\ reader[r].pc = "fields" /\ reader[r].field = NFields + 1
    /\ report' = IF sTrace[Slot(reader[r].seq)].sequence = reader[r].seq
                   THEN [report EXCEPT ![r] = @ \cup {[seq |-> reader[r].seq, data |-> reader[r].got]}]
                   ELSE report
    /\ reader' = [reader EXCEPT ![r] = NextEntry(r)]
    /\ UNCHANGED <<ring, clock, dog, game, life>>

\* The entries are all read; the report can be written.
LastEntry(r) ==
    /\ ReaderRuns(r) /\ reader[r].pc = "check" /\ reader[r].seq > reader[r].end
    /\ reader' = [reader EXCEPT ![r].pc = "write"]
    /\ UNCHANGED <<ring, report, clock, dog, game, life>>

-----------------------------------------------------------------------------
(* The watchdog thread.                                                    *)

DogRuns == up /\ sInCrash # "watchdog"

\* Mutant: nobody tells it to stop.
SleepOn ==
    /\ DogRuns /\ dog.pc = "loop"
    /\ dog' = [dog EXCEPT !.pc = "frame"]
    /\ UNCHANGED <<ring, snap, clock, game, life>>

Sleep ==
    /\ DogRuns /\ dog.pc = "loop"
    /\ dog' = [dog EXCEPT !.pc = IF sStopping THEN "gone" ELSE "frame"]
    /\ UNCHANGED <<ring, snap, clock, game, life>>

ReadFrame ==
    /\ DogRuns /\ dog.pc = "frame"
    /\ dog' = [dog EXCEPT !.pc = "paused", !.frame = sFrame]
    /\ LET reads == IF calm.now > Samples THEN calm.now ELSE calm.now + 1
       IN calm' = [now |-> IF game = "applet" THEN 0 ELSE reads, then |-> reads]
    /\ UNCHANGED <<ring, snap, sFrame, sPaused, game, life>>

\* Mutant: the time before the first frame counts.
MissedFromStart ==
    IF dog.frame # dog.last \/ sPaused THEN 0
    ELSE IF dog.missed < Samples THEN dog.missed + 1 ELSE dog.missed

\* Mutant: the time of a suspension counts.
MissedWhilePaused ==
    IF dog.frame = 0 \/ dog.frame # dog.last THEN 0
    ELSE IF dog.missed < Samples THEN dog.missed + 1 ELSE dog.missed

\* Mutant: the count goes on past the report.
MissedPastLimit ==
    IF dog.frame = 0 \/ dog.frame # dog.last \/ sPaused THEN 0 ELSE dog.missed + 1

Missed ==
    IF dog.frame = 0 \/ dog.frame # dog.last \/ sPaused THEN 0
    ELSE IF dog.missed < Samples THEN dog.missed + 1 ELSE dog.missed

\* Mutant: the frame seen before is kept from the first on.
ReadPausedLastKept ==
    /\ DogRuns /\ dog.pc = "paused"
    /\ LET stalled == Missed = Samples /\ ~dog.reported IN
       /\ dog' = [dog EXCEPT !.missed = Missed, !.last = IF @ = 0 THEN dog.frame ELSE @,
                             !.reported = @ \/ stalled,
                             !.pc = IF stalled /\ ready["stall"] THEN "report" ELSE "loop"]
       /\ reader' = IF stalled /\ ready["stall"]
                      THEN [reader EXCEPT !["watchdog"].pc = "end"] ELSE reader
    /\ UNCHANGED <<ring, report, clock, game, life>>

\* One report per launch.
ReadPaused ==
    /\ DogRuns /\ dog.pc = "paused"
    /\ LET stalled == Missed = Samples /\ ~dog.reported IN
       /\ dog' = [dog EXCEPT !.missed = Missed, !.last = dog.frame,
                             !.reported = @ \/ stalled,
                             !.pc = IF stalled /\ ready["stall"] THEN "report" ELSE "loop"]
       /\ reader' = IF stalled /\ ready["stall"]
                      THEN [reader EXCEPT !["watchdog"].pc = "end"] ELSE reader
    /\ UNCHANGED <<ring, report, clock, game, life>>

\* SampleMainThread: the game thread is stopped, unless that is not allowed
\* or fails,
HoldGame ==
    /\ DogRuns /\ dog.pc = "report" /\ reader["watchdog"].pc = "write"
    /\ dog' = [dog EXCEPT !.pc = "sampled"]
    /\ held' \in BOOLEAN
    /\ UNCHANGED <<ring, snap, clock, game, sStopping, sInCrash, up, ready>>

\* and goes on whether its context could be read or not (that the kernel
\* resumes what it has paused is assumed: the code only reports the result),
ReleaseGame ==
    /\ DogRuns /\ dog.pc = "sampled"
    /\ held' = FALSE
    /\ dog' = [dog EXCEPT !.pc = "write"]
    /\ UNCHANGED <<ring, snap, clock, game, sStopping, sInCrash, up, ready>>

\* before the report is written; Snapshot's locals and buffer are done with.
WriteStall ==
    /\ DogRuns /\ dog.pc = "write"
    /\ dog' = [dog EXCEPT !.pc = "loop"]
    /\ reader' = [reader EXCEPT !["watchdog"] = Reader("done")]
    /\ report' = [report EXCEPT !["watchdog"] = {}]
    /\ UNCHANGED <<ring, clock, game, life>>

-----------------------------------------------------------------------------
(* __libnx_exception_handler, on the thread that met the exception.        *)

Runs(t) == up /\ sInCrash # t /\ (t = "game" => ~held) /\ (t = "watchdog" => dog.pc # "gone")

\* The first one reports; any other ends the process, the report of the first
\* with it.
Crash(t) ==
    /\ Runs(t)
    /\ IF sInCrash = "clear" /\ ready["crash"]
         THEN /\ sInCrash' = t
              /\ reader' = [reader EXCEPT !["handler"].pc = "end"]
              /\ UNCHANGED <<ring, report, clock, dog, game, sStopping, held, up, ready>>
         ELSE Over

WriteCrash ==
    /\ ReaderRuns("handler") /\ reader["handler"].pc = "write"
    /\ Over

Event == EventStart \/ StoreField \/ Publish \/ Advance
Snapshot(r) == ReadEnd(r) \/ Check(r) \/ ReadField(r) \/ Recheck(r) \/ LastEntry(r)
Watchdog == Sleep \/ ReadFrame \/ ReadPaused \/ HoldGame \/ ReleaseGame \/ WriteStall

Next ==
    \/ StatusWritten \/ Event \/ Frame \/ AppletEnter \/ AppletLeave
    \/ Exit \/ ExitWaits \/ ProcessEnds
    \/ \E r \in Readers : Snapshot(r)
    \/ Watchdog
    \/ \E t \in Threads : Crash(t)
    \/ WriteCrash

\* The scheduler of the console runs every thread that can run; sleeps and
\* writes end.  Of the game only leaving is taken for granted.
Fairness ==
    /\ WF_vars(Watchdog) /\ WF_vars(WriteCrash)
    /\ \A r \in Readers : WF_vars(Snapshot(r))
    /\ WF_vars(ExitWaits) /\ WF_vars(ProcessEnds)

Spec == Init /\ [][Next]_vars /\ Fairness

-----------------------------------------------------------------------------
(* Properties.                                                             *)

Seqs == 0 .. MaxSequence

\* Every variable keeps the range its code can give it.
TypeOK ==
    /\ sTrace \in [0 .. TraceCount - 1 -> [sequence : Seqs, data : [Fields -> Seqs]]]
    /\ sSequence \in Seqs /\ store \in 0 .. NFields + 2
    /\ reader \in [Readers -> [pc : {"off", "end", "check", "fields", "write", "done"},
                               end : Seqs, seq : 0 .. MaxSequence + 1,
                               field : 1 .. NFields + 1, got : [Fields -> Seqs]]]
    /\ report \in [Readers -> SUBSET [seq : Seqs, data : [Fields -> Seqs]]]
    /\ sFrame \in 0 .. MaxFrame /\ sPaused \in BOOLEAN /\ sStopping \in BOOLEAN
    /\ sInCrash \in Threads \cup {"clear"}
    /\ dog \in [pc : {"loop", "frame", "paused", "report", "sampled", "write", "gone"},
                frame : 0 .. MaxFrame, last : 0 .. MaxFrame,
                missed : 0 .. Samples, reported : BOOLEAN]
    /\ game \in {"status", "run", "applet", "resumed", "exit", "closed"}
    /\ held \in BOOLEAN /\ up \in BOOLEAN
    /\ calm \in [now : 0 .. Samples + 1, then : 0 .. Samples + 1]

\* An event that is reported is reported as it was: no field is of another
\* event that took over its entry while it was read.
NoTornEvent ==
    \A r \in Readers : \A e \in report[r] : \A f \in Fields : e.data[f] = e.seq

\* Of the last TraceCount events a finished report lacks only those whose
\* entries newer events have taken; in a stall or a crash of the game thread,
\* where nothing newer comes, at most the one being written is lost.
Started == sSequence + (IF store = 0 THEN 0 ELSE 1)
OnlyOverwrittenMissing ==
    \A r \in Readers : reader[r].pc = "write" =>
        \A q \in 1 .. reader[r].end : q + TraceCount > Started =>
            \E e \in report[r] : e.seq = q

\* "HOME/sleep may suspend this call. Do not diagnose that as a game stall":
\* when a stall is reported the watchdog has seen no frame in Samples intervals
\* between its reads, and the game was not suspended all through any of them.
\* The frame and the pause flag are read one after the other, and the game may
\* go to the menu, come back and count a frame in between.
StallIsReal == [][~dog.reported /\ dog.reported' => calm.then > Samples]_vars

\* The buffer of the stall report serves diagnostics.log first, while the
\* watchdog runs already, and its file is closed at the end: the report keeps
\* out of both.
ReportKeepsOut ==
    /\ game = "status" => reader["watchdog"].pc = "off"
    /\ game = "closed" => reader["watchdog"].pc \in {"off", "done"}

\* A stall is reported unless it ends before that, if the watchdog and its file
\* are there and it is the first of the launch ("one report per launch").
Stalled(f) ==
    /\ up /\ sInCrash = "clear" /\ ~sStopping /\ ready["thread"] /\ ready["stall"]
    /\ sFrame = f /\ ~sPaused
StallReported ==
    \A f \in 1 .. MaxFrame :
        Stalled(f) /\ ~dog.reported ~> reader["watchdog"].pc = "done" \/ ~Stalled(f)

\* A crash ends the process, and so does leaving: the handler, the watchdog,
\* the thread that waits for it and is held by it never wait for each other.
Ends == sInCrash # "clear" \/ sStopping ~> ~up
=============================================================================
