----------------------------- MODULE ParallelFor -----------------------------
(***************************************************************************)
(* PortAssetLog::ParallelFor, which fans the asset extraction out over      *)
(* threads: a serial loop for one worker, std::thread with an atomic       *)
(* counter elsewhere, and switch_parallel_for (libnx threads) on Switch.   *)
(* One action per atomic operation, critical section or thread call.       *)
(*                                                                         *)
(* Thread 0 is the caller, which takes part as a worker.  What a body does *)
(* is left out but for whether it throws.                                  *)
(***************************************************************************)
EXTENDS Integers

CONSTANTS
    MaxTotal,     \* the largest loop considered
    WorkerCount,  \* WorkerCount(): 1 .. 64
    NoError,      \* first_error is null
    ThreadError   \* the exception of a std::thread that could not start

ASSUME ParallelAssumption ==
    /\ MaxTotal \in Nat
    /\ WorkerCount \in Nat \ {0}
    /\ NoError \notin Nat /\ ThreadError \notin Nat
    /\ NoError # ThreadError

Paths == {"std", "libnx"}

VARIABLES
    path,     \* which half of #ifdef __SWITCH__ was built
    total,    \* end - begin
    next,     \* the shared counter
    pc,       \* where each thread is
    at,       \* the index each thread has fetched
    started,  \* threads started besides the caller
    err,      \* first_error
    outcome,  \* what the caller of ParallelFor has seen
    runs,     \* history: how often the body of an index was called
    done,     \* history: indices whose body returned
    failed    \* history: indices whose body threw

call == <<path, total>>
history == <<runs, done, failed>>
vars == <<call, next, pc, at, started, err, outcome, history>>

Indices == 0 .. MaxTotal - 1
Threads == 0 .. WorkerCount   \* libnx starts one even if WorkerCount is 1
Helpers == Threads \ {0}

Least(m, n) == IF m <= n THEN m ELSE n
Workers == Least(IF path = "libnx" THEN 2 ELSE WorkerCount, total)
Serial == Workers <= 1

Init ==
    /\ path \in Paths
    /\ total \in 0 .. MaxTotal
    /\ next = 0
    /\ pc = [t \in Threads |-> IF t = 0 THEN "call" ELSE "none"]
    /\ at = [t \in Threads |-> 0]
    /\ started = 0
    /\ err = NoError
    /\ outcome = "running"
    /\ runs = [i \in Indices |-> 0]
    /\ done = {}
    /\ failed = {}

Goto(t, label) == pc' = [pc EXCEPT ![t] = label]

-----------------------------------------------------------------------------
(* The caller: start the helpers, work, join them, rethrow.                *)

Enter ==
    /\ pc[0] = "call"
    /\ outcome = "running"
    /\ IF total = 0 THEN outcome' = "returned" /\ UNCHANGED pc
       ELSE Goto(0, IF Serial THEN "fetch" ELSE "start") /\ UNCHANGED outcome
    /\ UNCHANGED <<call, next, at, started, err, history>>

StartThread ==
    /\ pc[0] = "start"
    /\ started < Workers - 1
    /\ started' = started + 1
    /\ pc' = [pc EXCEPT ![started + 1] = "fetch"]
    /\ UNCHANGED <<call, next, at, err, outcome, history>>

\* libnx goes on with the threads it has.  The constructor of std::thread
\* throws, which destroys the vector of those already running: terminate().
StartFails ==
    /\ pc[0] = "start"
    /\ outcome = "running"
    /\ started < Workers - 1
    /\ IF path = "libnx"
         THEN Goto(0, "fetch") /\ UNCHANGED <<err, outcome>>
         ELSE /\ outcome' = IF started = 0 THEN "thrown" ELSE "terminated"
              /\ err' = ThreadError
              /\ Goto(0, "gone")
    /\ UNCHANGED <<call, next, at, started, history>>

AllStarted ==
    /\ pc[0] = "start"
    /\ started = Workers - 1
    /\ Goto(0, "fetch")
    /\ UNCHANGED <<call, next, at, started, err, outcome, history>>

\* Mutant: the caller leaves without joining the last helper.
JoinAllButLast ==
    /\ pc[0] = "exit"
    /\ outcome = "running"
    /\ \A t \in 1 .. started - 1 : pc[t] = "exit"
    /\ outcome' = IF err = NoError THEN "returned" ELSE "thrown"
    /\ UNCHANGED <<call, next, pc, at, started, err, history>>

\* Mutant: the caller also joins the helpers that did not start.
JoinAllWanted ==
    /\ pc[0] = "exit"
    /\ outcome = "running"
    /\ \A t \in 1 .. Workers - 1 : pc[t] = "exit"
    /\ outcome' = IF err = NoError THEN "returned" ELSE "thrown"
    /\ UNCHANGED <<call, next, pc, at, started, err, history>>

\* Joining the helpers in order ends when all of them have ended.
Join ==
    /\ pc[0] = "exit"
    /\ outcome = "running"
    /\ \A t \in 1 .. started : pc[t] = "exit"
    /\ outcome' = IF err = NoError THEN "returned" ELSE "thrown"
    /\ UNCHANGED <<call, next, pc, at, started, err, history>>

-----------------------------------------------------------------------------
(* A worker.                                                               *)

Alive == outcome # "terminated"

\* Mutant: the test against total is off by one.
FetchPastEnd(t) ==
    /\ Alive
    /\ pc[t] = "fetch"
    /\ next' = next + 1
    /\ IF next <= total
         THEN /\ at' = [at EXCEPT ![t] = next]
              /\ runs' = [runs EXCEPT ![next] = @ + 1]
              /\ Goto(t, "body")
         ELSE Goto(t, "exit") /\ UNCHANGED <<at, runs>>
    /\ UNCHANGED <<call, started, err, outcome, done, failed>>

\* i = next.fetch_add(1), and the body is entered unless i >= total.
Fetch(t) ==
    /\ Alive
    /\ pc[t] = "fetch"
    /\ next' = next + 1
    /\ IF next < total
         THEN /\ at' = [at EXCEPT ![t] = next]
              /\ runs' = [runs EXCEPT ![next] = @ + 1]
              /\ Goto(t, "body")
         ELSE Goto(t, "exit") /\ UNCHANGED <<at, runs>>
    /\ UNCHANGED <<call, started, err, outcome, done, failed>>

BodyReturns(t) ==
    /\ Alive
    /\ pc[t] = "body"
    /\ done' = done \cup {at[t]}
    /\ Goto(t, "fetch")
    /\ UNCHANGED <<call, next, at, started, err, outcome, runs, failed>>

\* In the serial loop the exception leaves ParallelFor at once.
BodyThrows(t) ==
    /\ Alive
    /\ pc[t] = "body"
    /\ failed' = failed \cup {at[t]}
    /\ IF Serial
         THEN Goto(t, "gone") /\ err' = at[t] /\ outcome' = "thrown"
         ELSE Goto(t, "catch") /\ UNCHANGED <<err, outcome>>
    /\ UNCHANGED <<call, next, at, started, runs, done>>

\* Mutant: the std::thread worker does not keep its exception.
CatchDrops(t) ==
    /\ Alive
    /\ pc[t] = "catch"
    /\ \A u \in Threads : pc[u] # "store"
    /\ err' = IF err = NoError /\ path = "libnx" THEN at[t] ELSE err
    /\ Goto(t, IF path = "libnx" THEN "fetch" ELSE "store")
    /\ UNCHANGED <<call, next, at, started, outcome, history>>

\* The handler, under error_mu.  The callback of libnx then returns to the
\* loop; the std::thread worker, the mutex still held, stops everyone.
Catch(t) ==
    /\ Alive
    /\ pc[t] = "catch"
    /\ \A u \in Threads : pc[u] # "store"
    /\ err' = IF err = NoError THEN at[t] ELSE err
    /\ Goto(t, IF path = "libnx" THEN "fetch" ELSE "store")
    /\ UNCHANGED <<call, next, at, started, outcome, history>>

\* Mutant: the others are sent to the last index instead of past it.
StoreLast(t) ==
    /\ Alive
    /\ pc[t] = "store"
    /\ next' = total - 1
    /\ Goto(t, "exit")
    /\ UNCHANGED <<call, at, started, err, outcome, history>>

\* next.store(total): may also lower the counter, never below total.
Store(t) ==
    /\ Alive
    /\ pc[t] = "store"
    /\ next' = total
    /\ Goto(t, "exit")
    /\ UNCHANGED <<call, at, started, err, outcome, history>>

-----------------------------------------------------------------------------
Worker(t) ==
    \/ Fetch(t)
    \/ BodyReturns(t)
    \/ BodyThrows(t)
    \/ Catch(t)
    \/ Store(t)

Caller ==
    \/ Enter
    \/ StartThread
    \/ StartFails
    \/ AllStarted
    \/ Join

Next == Caller \/ \E t \in Threads : Worker(t)

Spec == Init /\ [][Next]_vars

\* The scheduler runs every thread, and every body ends.
FairSpec == Spec /\ WF_vars(Caller) /\ \A t \in Threads : WF_vars(Worker(t))

-----------------------------------------------------------------------------
(* Properties.                                                             *)

TypeOK ==
    /\ path \in Paths
    /\ total \in 0 .. MaxTotal
    /\ next \in Nat
    /\ pc \in [Threads -> {"none", "call", "start", "fetch", "body", "catch",
                           "store", "exit", "gone"}]
    /\ at \in [Threads -> Nat]
    /\ started \in 0 .. WorkerCount
    /\ err \in Nat \cup {NoError, ThreadError}
    /\ outcome \in {"running", "returned", "thrown", "terminated"}
    /\ runs \in [Indices -> Nat]
    /\ done \subseteq Indices
    /\ failed \subseteq Indices

\* The bodies fill slot i of shared vectors without a lock: no index is ever
\* given to two threads, nor twice to one, also while an error stops the loop.
NoIndexTwice == \A i \in Indices : runs[i] <= 1

\* The counter, the mutex and the error live in the caller's frame: no helper
\* is still at work, or about to touch them, when ParallelFor has ended.
NobodyOutlivesTheCall ==
    outcome \in {"returned", "thrown"} => \A t \in Helpers : pc[t] \in {"none", "exit"}

\* ParallelFor returns only when each body has returned, however many threads
\* could be started; libnx runs the other bodies also when one throws.
All == {i \in Indices : i < total}
ReturnsAll == outcome = "returned" => done = All /\ failed = {}
RethrowsAll ==
    path = "libnx" /\ outcome = "thrown" /\ ~Serial =>
        done \cup failed = All /\ err \in failed
AllDone == ReturnsAll /\ RethrowsAll

\* Whoever calls ParallelFor gets it back, whatever throws or fails to start.
Ends == <>(outcome # "running")

-----------------------------------------------------------------------------
(* The inductive invariant behind them (module ParallelForProofs).         *)

\* What the counter has not reached is untouched, and so is all past the end.
Claims == \A i \in Indices :
    runs[i] <= 1 /\ (next <= i \/ total <= i => runs[i] = 0)

\* A body that was called has returned or thrown, or some thread is in it.
Held == \A t \in Threads :
    pc[t] = "body" => at[t] \in All /\ runs[at[t]] = 1
Ended == done \cup failed \subseteq All
Accounts == \A i \in Indices :
    runs[i] = 1 => \/ i \in done \cup failed
                   \/ \E t \in Threads : pc[t] = "body" /\ at[t] = i

\* Only an error on the std::thread path makes the counter skip an index.
NoGap == (path = "libnx" \/ failed = {}) =>
    \A i \in All : i < next => runs[i] = 1
Exits == \A t \in Threads : pc[t] = "exit" => total <= next

\* Who is where.
Crew == \A t \in Helpers :
    /\ pc[t] \in {"none", "fetch", "body", "catch", "store", "exit"}
    /\ started < t => pc[t] = "none"
CallerAt ==
    /\ pc[0] # "none"
    /\ pc[0] = "call" => started = 0
    /\ pc[0] = "start" \/ started > 0 => ~Serial /\ started <= Workers - 1
    /\ Serial => pc[0] # "catch"
    /\ outcome \in {"returned", "thrown"} => pc[0] \in {"call", "exit", "gone"}
    /\ pc[0] = "gone" => outcome # "running"

\* An exception is on its way to first_error or there already.
Caught == \A t \in Threads :
    /\ pc[t] \in {"catch", "store"} => at[t] \in failed
    /\ path = "libnx" => pc[t] # "store"
Kept ==
    /\ failed # {} => err # NoError \/ \E t \in Threads : pc[t] = "catch"
    /\ path = "libnx" => err \in failed \cup {NoError}

IInv ==
    /\ Claims /\ Held /\ Ended /\ Accounts /\ NoGap /\ Exits
    /\ Crew /\ CallerAt /\ Caught /\ Kept
    /\ NobodyOutlivesTheCall /\ ReturnsAll /\ RethrowsAll
=============================================================================
