-------------------------- MODULE ParallelForProofs --------------------------
(***************************************************************************)
(* Proofs about ParallelFor, for any number of threads and indices.        *)
(***************************************************************************)
EXTENDS ParallelFor, TLAPS

USE ParallelAssumption

\* The predicates that read the counter and the history of calls only.
LEMMA CallFrame ==
    ASSUME UNCHANGED call
    PROVE  /\ path' = path /\ total' = total
           /\ All' = All /\ Workers' = Workers /\ (Serial' <=> Serial)
BY DEF call, All, Workers, Serial

LEMMA WorkersBound ==
    ASSUME TypeOK
    PROVE  /\ Workers \in Nat /\ Workers - 1 <= WorkerCount
           /\ total = 0 => Serial
           /\ All \subseteq Indices
BY DEF TypeOK, Workers, Serial, Least, Paths, All

\* A thread at work means that the call has not ended.
LEMMA AtWork ==
    ASSUME TypeOK, IInv, NEW t \in Threads,
           pc[t] \in {"start", "fetch", "body", "catch", "store"}
    PROVE  outcome \notin {"returned", "thrown"}
BY DEF IInv, NobodyOutlivesTheCall, CallerAt, Threads, Helpers, TypeOK

-----------------------------------------------------------------------------
(* The caller's actions.                                                   *)

LEMMA EnterStep == ASSUME TypeOK, IInv, Enter PROVE IInv'
<1>1. /\ pc[0] = "call" /\ outcome = "running" /\ started = 0
      /\ UNCHANGED <<next, at, started, err, runs, done, failed>> /\ UNCHANGED call
  BY DEF Enter, history, IInv, CallerAt
<1>2. \/ total = 0 /\ outcome' = "returned" /\ pc' = pc
      \/ ~Serial /\ outcome' = outcome /\ pc' = [pc EXCEPT ![0] = "start"]
      \/ total # 0 /\ Serial /\ outcome' = outcome /\ pc' = [pc EXCEPT ![0] = "fetch"]
  BY WorkersBound DEF Enter, Goto
<1>3. /\ 0 \in Threads /\ pc'[0] \in {"call", "start", "fetch"}
      /\ \A t \in Helpers : t \in Threads /\ t # 0 /\ pc'[t] = pc[t] /\ pc[t] = "none"
      /\ \A t \in Threads : t = 0 \/ t \in Helpers
  BY <1>1, <1>2 DEF IInv, Crew, TypeOK, Threads, Helpers
<1>4. Claims' /\ Ended' /\ NoGap'
  BY <1>1, CallFrame DEF IInv, Claims, Ended, NoGap
<1>5. Held' /\ Exits' /\ Caught'
  BY <1>1, <1>3, CallFrame DEF IInv, Held, Exits, Caught
<1>6. Accounts'
  BY <1>1, <1>3 DEF IInv, Accounts
<1>7. Crew'
  BY <1>1, <1>3 DEF IInv, Crew
<1>8. CallerAt'
  <2>1. started' = 0 /\ (~Serial => 0 <= Workers - 1) /\ (total = 0 => Serial)
    BY <1>1, WorkersBound DEF Serial
  <2>2. /\ pc'[0] \in {"call", "start", "fetch"} /\ (pc'[0] = "start" => ~Serial)
        /\ outcome' \in {"returned", "thrown"} => pc'[0] = "call"
    BY <1>1, <1>2, <1>3 DEF TypeOK
  <2> QED BY <2>1, <2>2, CallFrame, <1>1 DEF CallerAt
<1>9. Kept'
  BY <1>1, <1>3, CallFrame DEF IInv, Kept
<1>10. NobodyOutlivesTheCall'
  BY <1>3 DEF NobodyOutlivesTheCall
<1>11. ReturnsAll'
  <2> SUFFICES ASSUME outcome' = "returned" PROVE done' = All' /\ failed' = {}
    BY DEF ReturnsAll
  <2>1. total = 0
    BY <1>1, <1>2
  <2>2. All = {}
    BY <2>1 DEF All, Indices
  <2> QED BY <1>1, <2>2, CallFrame DEF IInv, Ended
<1>12. RethrowsAll'
  BY <1>1, <1>2 DEF RethrowsAll
<1> QED
  BY <1>4, <1>5, <1>6, <1>7, <1>8, <1>9, <1>10, <1>11, <1>12 DEF IInv

LEMMA StartThreadStep == ASSUME TypeOK, IInv, StartThread PROVE IInv'
<1> DEFINE h == started + 1
<1>1. /\ pc[0] = "start" /\ started < Workers - 1 /\ started' = h
      /\ UNCHANGED <<next, at, err, outcome, runs, done, failed>> /\ UNCHANGED call
      /\ pc' = [pc EXCEPT ![h] = "fetch"]
  BY DEF StartThread, history
<1>2. h \in Helpers /\ h \in Threads /\ pc[h] = "none" /\ h <= Workers - 1
  BY <1>1, WorkersBound DEF IInv, Crew, TypeOK, Threads, Helpers
<1>3. /\ pc'[h] = "fetch" /\ 0 \in Threads /\ h # 0 /\ pc'[0] = "start"
      /\ \A t \in Threads : t # h => pc'[t] = pc[t]
  BY <1>1, <1>2 DEF TypeOK, Threads, Helpers
<1>4. outcome \notin {"returned", "thrown"}
  BY <1>1, <1>3, AtWork
<1>5. Claims' /\ Ended' /\ NoGap'
  BY <1>1, CallFrame DEF IInv, Claims, Ended, NoGap
<1>6. Held' /\ Exits' /\ Caught'
  BY <1>1, <1>2, <1>3, CallFrame DEF IInv, Held, Exits, Caught
<1>7. Accounts'
  BY <1>1, <1>2, <1>3 DEF IInv, Accounts
<1>8. Crew'
  <2> SUFFICES ASSUME NEW t \in Helpers
               PROVE  /\ pc'[t] \in {"none", "fetch", "body", "catch", "store", "exit"}
                      /\ started' < t => pc'[t] = "none"
    BY DEF Crew
  <2>1. t \in Threads /\ t \in Int /\ started \in Int
    BY DEF Helpers, Threads, TypeOK
  <2> QED BY <1>1, <1>3, <2>1 DEF IInv, Crew
<1>9. CallerAt'
  BY <1>1, <1>2, <1>3, <1>4, CallFrame DEF IInv, CallerAt
<1>10. Kept'
  BY <1>1, <1>2, <1>3, CallFrame DEF IInv, Kept
<1>11. NobodyOutlivesTheCall' /\ ReturnsAll' /\ RethrowsAll'
  BY <1>1, <1>4 DEF NobodyOutlivesTheCall, ReturnsAll, RethrowsAll
<1> QED
  BY <1>5, <1>6, <1>7, <1>8, <1>9, <1>10, <1>11 DEF IInv

\* The caller moves on from "start", all else as it was: to its own work
\* (StartFails on libnx, AllStarted).
LEMMA CallerToWork ==
    ASSUME TypeOK, IInv, pc[0] = "start", pc' = [pc EXCEPT ![0] = "fetch"],
           UNCHANGED <<call, next, at, started, err, outcome, runs, done, failed>>
    PROVE  IInv'
<1>1. 0 \in Threads /\ pc'[0] = "fetch" /\ \A t \in Threads : t # 0 => pc'[t] = pc[t]
  BY DEF TypeOK, Threads
<1>2. outcome \notin {"returned", "thrown"}
  BY <1>1, AtWork
<1>3. \A t \in Helpers : t \in Threads /\ t # 0
  BY DEF Helpers, Threads
<1>4. Claims' /\ Ended' /\ NoGap'
  BY CallFrame DEF IInv, Claims, Ended, NoGap
<1>5. Held' /\ Exits' /\ Caught'
  BY <1>1, CallFrame DEF IInv, Held, Exits, Caught
<1>6. Accounts'
  BY <1>1 DEF IInv, Accounts
<1>7. Crew' /\ CallerAt'
  BY <1>1, <1>2, <1>3, CallFrame DEF IInv, Crew, CallerAt
<1>8. Kept'
  BY <1>1, CallFrame DEF IInv, Kept
<1>9. NobodyOutlivesTheCall' /\ ReturnsAll' /\ RethrowsAll'
  BY <1>2 DEF NobodyOutlivesTheCall, ReturnsAll, RethrowsAll
<1> QED
  BY <1>4, <1>5, <1>6, <1>7, <1>8, <1>9 DEF IInv

LEMMA AllStartedStep == ASSUME TypeOK, IInv, AllStarted PROVE IInv'
BY CallerToWork DEF AllStarted, Goto, history

\* A std::thread that cannot start ends the call, or the process.
LEMMA StartFailsStep == ASSUME TypeOK, IInv, StartFails PROVE IInv'
<1>1. CASE path = "libnx"
  BY <1>1, CallerToWork DEF StartFails, Goto, history
<1>2. CASE path # "libnx"
  <2>1. /\ pc[0] = "start" /\ pc' = [pc EXCEPT ![0] = "gone"] /\ err' = ThreadError
        /\ outcome' = IF started = 0 THEN "thrown" ELSE "terminated"
        /\ UNCHANGED <<next, at, started, runs, done, failed>> /\ UNCHANGED call
    BY <1>2 DEF StartFails, Goto, history
  <2>2. /\ 0 \in Threads /\ pc'[0] = "gone" /\ \A t \in Threads : t # 0 => pc'[t] = pc[t]
        /\ \A t \in Helpers : t \in Threads /\ t # 0
    BY <2>1 DEF TypeOK, Threads, Helpers
  <2>3. Claims' /\ Ended' /\ NoGap'
    BY <2>1, CallFrame DEF IInv, Claims, Ended, NoGap
  <2>4. Held' /\ Exits' /\ Caught'
    BY <2>1, <2>2, CallFrame DEF IInv, Held, Exits, Caught
  <2>5. Accounts'
    BY <2>1, <2>2 DEF IInv, Accounts
  <2>6. Crew' /\ CallerAt'
    BY <2>1, <2>2, CallFrame DEF IInv, Crew, CallerAt
  <2>7. Kept'
    BY <1>2, <2>1, CallFrame DEF Kept
  <2>8. NobodyOutlivesTheCall'
    <3> SUFFICES ASSUME outcome' \in {"returned", "thrown"}, NEW t \in Helpers
                 PROVE  pc'[t] = "none"
      BY DEF NobodyOutlivesTheCall
    <3>1. started = 0 /\ started < t
      BY <2>1 DEF Helpers, Threads
    <3> QED BY <2>2, <3>1 DEF IInv, Crew
  <2>9. ReturnsAll' /\ RethrowsAll'
    BY <1>2, <2>1, CallFrame DEF ReturnsAll, RethrowsAll
  <2> QED
    BY <2>3, <2>4, <2>5, <2>6, <2>7, <2>8, <2>9 DEF IInv
<1> QED BY <1>1, <1>2

\* When everyone has ended, the counter is past the end and nobody is in a
\* body: what was called has returned or thrown.
LEMMA JoinStep == ASSUME TypeOK, IInv, Join PROVE IInv'
<1>1. /\ pc[0] = "exit" /\ \A t \in 1 .. started : pc[t] = "exit"
      /\ outcome' = IF err = NoError THEN "returned" ELSE "thrown"
      /\ UNCHANGED <<next, pc, at, started, err, runs, done, failed>> /\ UNCHANGED call
  BY DEF Join, history
<1>2. \A t \in Helpers : pc[t] \in {"none", "exit"}
  <2> SUFFICES ASSUME NEW t \in Helpers PROVE pc[t] \in {"none", "exit"}
    OBVIOUS
  <2>1. started < t \/ t \in 1 .. started
    BY DEF Helpers, Threads, TypeOK
  <2> QED BY <1>1, <2>1 DEF IInv, Crew
<1>3. /\ \A t \in Threads : pc[t] \in {"none", "exit"}
      /\ total <= next
  BY <1>1, <1>2 DEF IInv, Exits, Helpers, Threads
<1>4. (path = "libnx" \/ failed = {}) => done \cup failed = All
  <2> SUFFICES ASSUME path = "libnx" \/ failed = {}, NEW i \in All
               PROVE  i \in done \cup failed
    BY DEF IInv, Ended
  <2>1. i \in Indices /\ i < next
    BY <1>3 DEF All, Indices, TypeOK
  <2>2. runs[i] = 1
    BY <2>1 DEF IInv, NoGap
  <2> QED BY <1>3, <2>1, <2>2 DEF IInv, Accounts
<1>5. failed # {} => err # NoError
  BY <1>3 DEF IInv, Kept
<1>6. ReturnsAll' /\ RethrowsAll'
  <2>1. path = "libnx" => err \in failed \cup {NoError}
    BY DEF IInv, Kept
  <2> QED BY <1>1, <1>4, <1>5, <2>1, CallFrame DEF ReturnsAll, RethrowsAll
<1>7. NobodyOutlivesTheCall'
  BY <1>1, <1>2 DEF NobodyOutlivesTheCall
<1>8. CallerAt'
  BY <1>1, CallFrame DEF IInv, CallerAt
<1>9. /\ Claims' /\ Held' /\ Ended' /\ Accounts' /\ NoGap' /\ Exits'
      /\ Crew' /\ Caught' /\ Kept'
  BY <1>1, CallFrame
  DEF IInv, Claims, Held, Ended, Accounts, NoGap, Exits, Crew, Caught, Kept
<1> QED BY <1>6, <1>7, <1>8, <1>9 DEF IInv

-----------------------------------------------------------------------------
(* The workers' actions.                                                   *)

\* What a worker's step on t leaves of the crew when t stays in the loop.
LEMMA WorkerFrame ==
    ASSUME TypeOK, IInv, NEW t \in Threads,
           pc[t] \in {"fetch", "body", "catch", "store"},
           NEW l \in {"fetch", "body", "catch", "store", "exit"},
           pc' = [pc EXCEPT ![t] = l],
           Serial => l # "catch",
           UNCHANGED <<call, started, outcome>>
    PROVE  /\ pc'[t] = l
           /\ \A u \in Threads : u # t => pc'[u] = pc[u]
           /\ Crew' /\ CallerAt'
           /\ outcome \notin {"returned", "thrown"}
           /\ NobodyOutlivesTheCall' /\ ReturnsAll' /\ RethrowsAll'
<1>1. pc'[t] = l /\ \A u \in Threads : u # t => pc'[u] = pc[u]
  BY DEF TypeOK
<1>2. outcome \notin {"returned", "thrown"}
  BY AtWork
<1>3. /\ \A u \in Helpers : u \in Threads /\ u # 0
      /\ 0 \in Threads
      /\ \A u \in Threads : u # 0 => u \in Helpers
  BY DEF Helpers, Threads
<1>4. Crew'
  <2> SUFFICES ASSUME NEW u \in Helpers
               PROVE  /\ pc'[u] \in {"none", "fetch", "body", "catch", "store", "exit"}
                      /\ started' < u => pc'[u] = "none"
    BY DEF Crew
  <2>1. CASE u # t
    BY <1>1, <1>3, <2>1 DEF IInv, Crew
  <2>2. CASE u = t
    BY <1>1, <2>2 DEF IInv, Crew
  <2> QED BY <2>1, <2>2
<1>5. CallerAt'
  <2>1. CASE t = 0
    BY <1>1, <1>2, <2>1, CallFrame DEF IInv, CallerAt
  <2>2. CASE t # 0
    BY <1>1, <1>2, <1>3, <2>2, CallFrame DEF IInv, CallerAt
  <2> QED BY <2>1, <2>2
<1>6. NobodyOutlivesTheCall' /\ ReturnsAll' /\ RethrowsAll'
  BY <1>2 DEF NobodyOutlivesTheCall, ReturnsAll, RethrowsAll
<1> QED BY <1>1, <1>2, <1>4, <1>5, <1>6

\* The index fetched was untouched, and the counter has moved past it.
LEMMA FetchBody ==
    ASSUME TypeOK, IInv, NEW t \in Threads, Fetch(t), next < total
    PROVE  IInv'
<1>1. /\ pc[t] = "fetch" /\ next' = next + 1
      /\ pc' = [pc EXCEPT ![t] = "body"]
      /\ at' = [at EXCEPT ![t] = next]
      /\ runs' = [runs EXCEPT ![next] = runs[next] + 1]
      /\ UNCHANGED <<started, err, outcome, done, failed>> /\ UNCHANGED call
  BY DEF Fetch, Goto
<1>2. /\ next \in Indices /\ next \in All /\ next \in Nat /\ total \in Nat
      /\ \A i \in Indices : i \in Nat /\ runs[i] \in Nat
  BY DEF Indices, All, TypeOK
<1>3. /\ pc'[t] = "body" /\ \A u \in Threads : u # t => pc'[u] = pc[u]
      /\ Crew' /\ CallerAt'
      /\ NobodyOutlivesTheCall' /\ ReturnsAll' /\ RethrowsAll'
  BY <1>1, WorkerFrame
<1>4. /\ runs[next] = 0 /\ runs'[next] = 1
      /\ \A i \in Indices : i # next => runs'[i] = runs[i]
      /\ at'[t] = next /\ \A u \in Threads : u # t => at'[u] = at[u]
  BY <1>1, <1>2 DEF IInv, Claims, TypeOK
<1>5. Claims'
  <2> SUFFICES ASSUME NEW i \in Indices
               PROVE  runs'[i] <= 1 /\ (next' <= i \/ total' <= i => runs'[i] = 0)
    BY DEF Claims
  <2> QED BY <1>1, <1>2, <1>4, CallFrame DEF IInv, Claims
<1>6. Held'
  <2> SUFFICES ASSUME NEW u \in Threads, pc'[u] = "body"
               PROVE  at'[u] \in All /\ runs'[at'[u]] = 1
    BY <1>1, CallFrame DEF Held
  <2>1. CASE u = t
    BY <1>2, <1>4, <2>1
  <2>2. CASE u # t
    <3>1. at[u] \in All /\ runs[at[u]] = 1
      BY <1>3, <2>2 DEF IInv, Held
    <3> QED BY <1>4, <2>2, <3>1, WorkersBound
  <2> QED BY <2>1, <2>2
<1>7. Ended'
  BY <1>1, CallFrame DEF IInv, Ended
<1>8. Accounts'
  <2> SUFFICES ASSUME NEW i \in Indices, runs'[i] = 1
               PROVE  \/ i \in done \cup failed
                      \/ \E u \in Threads : pc'[u] = "body" /\ at'[u] = i
    BY <1>1 DEF Accounts
  <2>1. CASE i = next
    BY <1>3, <1>4, <2>1
  <2>2. CASE i # next
    <3>1. \/ i \in done \cup failed
          \/ \E u \in Threads : pc[u] = "body" /\ at[u] = i
      BY <1>4, <2>2 DEF IInv, Accounts
    <3>2. ASSUME NEW u \in Threads, pc[u] = "body", at[u] = i
          PROVE  pc'[u] = "body" /\ at'[u] = i
      BY <1>1, <1>3, <1>4, <3>2
    <3> QED BY <3>1, <3>2
  <2> QED BY <2>1, <2>2
<1>9. NoGap'
  <2> SUFFICES ASSUME path = "libnx" \/ failed = {}, NEW i \in All, i < next'
               PROVE  runs'[i] = 1
    BY <1>1, CallFrame DEF NoGap
  <2>1. i \in Indices /\ (i < next \/ i = next)
    BY <1>1, <1>2 DEF All
  <2> QED BY <1>4, <2>1 DEF IInv, NoGap
<1>10. Exits'
  BY <1>1, <1>2, <1>3, CallFrame DEF IInv, Exits
<1>11. Caught'
  BY <1>3, <1>4, <1>1, CallFrame DEF IInv, Caught
<1>12. Kept'
  BY <1>1, <1>3, CallFrame DEF IInv, Kept
<1> QED
  BY <1>3, <1>5, <1>6, <1>7, <1>8, <1>9, <1>10, <1>11, <1>12 DEF IInv

\* Nothing left to fetch: the worker ends.
LEMMA FetchEnd ==
    ASSUME TypeOK, IInv, NEW t \in Threads, Fetch(t), ~(next < total)
    PROVE  IInv'
<1>1. /\ pc[t] = "fetch" /\ next' = next + 1 /\ pc' = [pc EXCEPT ![t] = "exit"]
      /\ UNCHANGED <<at, started, err, outcome, runs, done, failed>> /\ UNCHANGED call
  BY DEF Fetch, Goto
<1>2. /\ next \in Nat /\ total \in Nat /\ total <= next
      /\ \A i \in Indices : i \in Nat
  BY DEF Indices, TypeOK
<1>3. /\ pc'[t] = "exit" /\ \A u \in Threads : u # t => pc'[u] = pc[u]
      /\ Crew' /\ CallerAt'
      /\ NobodyOutlivesTheCall' /\ ReturnsAll' /\ RethrowsAll'
  BY <1>1, WorkerFrame
<1>4. Claims'
  BY <1>1, <1>2, CallFrame DEF IInv, Claims
<1>5. Held' /\ Ended'
  BY <1>1, <1>3, CallFrame DEF IInv, Held, Ended
<1>6. Accounts'
  BY <1>1, <1>3 DEF IInv, Accounts
<1>7. NoGap'
  BY <1>1, <1>2, CallFrame DEF IInv, NoGap, All
<1>8. Exits' /\ Caught'
  BY <1>1, <1>2, <1>3, CallFrame DEF IInv, Exits, Caught
<1>9. Kept'
  BY <1>1, <1>3, CallFrame DEF IInv, Kept
<1> QED
  BY <1>3, <1>4, <1>5, <1>6, <1>7, <1>8, <1>9 DEF IInv

LEMMA FetchStep ==
    ASSUME TypeOK, IInv, NEW t \in Threads, Fetch(t) PROVE IInv'
BY FetchBody, FetchEnd

\* Accounts, when the body that t was in has ended.
LEMMA BodyEnds ==
    ASSUME TypeOK, IInv, NEW t \in Threads, pc[t] = "body",
           \A u \in Threads : u # t => pc'[u] = pc[u],
           at[t] \in done' \cup failed', done \subseteq done', failed \subseteq failed',
           UNCHANGED <<at, runs>>
    PROVE  Accounts'
<1> SUFFICES ASSUME NEW i \in Indices, runs[i] = 1
             PROVE  \/ i \in done' \cup failed'
                    \/ \E u \in Threads : pc'[u] = "body" /\ at[u] = i
  BY DEF Accounts
<1>1. \/ i \in done \cup failed
      \/ \E u \in Threads : pc[u] = "body" /\ at[u] = i
  BY DEF IInv, Accounts
<1>2. ASSUME NEW u \in Threads, pc[u] = "body", at[u] = i
      PROVE  \/ i \in done' \cup failed'
             \/ pc'[u] = "body" /\ at[u] = i
  BY <1>2
<1> QED BY <1>1, <1>2

LEMMA BodyReturnsStep ==
    ASSUME TypeOK, IInv, NEW t \in Threads, BodyReturns(t) PROVE IInv'
<1>1. /\ pc[t] = "body" /\ pc' = [pc EXCEPT ![t] = "fetch"]
      /\ done' = done \cup {at[t]}
      /\ UNCHANGED <<next, at, started, err, outcome, runs, failed>> /\ UNCHANGED call
  BY DEF BodyReturns, Goto
<1>2. at[t] \in All
  BY <1>1 DEF IInv, Held
<1>3. /\ pc'[t] = "fetch" /\ \A u \in Threads : u # t => pc'[u] = pc[u]
      /\ Crew' /\ CallerAt'
      /\ NobodyOutlivesTheCall' /\ ReturnsAll' /\ RethrowsAll'
  BY <1>1, WorkerFrame
<1>4. Claims' /\ NoGap'
  BY <1>1, CallFrame DEF IInv, Claims, NoGap
<1>5. Held' /\ Exits' /\ Caught'
  BY <1>1, <1>3, CallFrame DEF IInv, Held, Exits, Caught
<1>6. Ended'
  BY <1>1, <1>2, CallFrame DEF IInv, Ended
<1>7. Accounts'
  BY <1>1, <1>3, BodyEnds
<1>8. Kept'
  BY <1>1, <1>3, CallFrame DEF IInv, Kept
<1> QED
  BY <1>3, <1>4, <1>5, <1>6, <1>7, <1>8 DEF IInv

\* In the serial loop the caller leaves; otherwise the handler comes next.
LEMMA BodyThrowsStep ==
    ASSUME TypeOK, IInv, NEW t \in Threads, BodyThrows(t) PROVE IInv'
<1>1. /\ pc[t] = "body" /\ failed' = failed \cup {at[t]}
      /\ UNCHANGED <<next, at, started, runs, done>> /\ UNCHANGED call
  BY DEF BodyThrows
<1>2. at[t] \in All
  BY <1>1 DEF IInv, Held
<1>3. Claims' /\ Ended'
  BY <1>1, <1>2, CallFrame DEF IInv, Claims, Ended
<1>4. NoGap'
  BY <1>1, CallFrame DEF IInv, NoGap
<1>5. CASE ~Serial
  <2>1. pc' = [pc EXCEPT ![t] = "catch"] /\ UNCHANGED <<err, outcome>>
    BY <1>5 DEF BodyThrows, Goto
  <2>2. /\ pc'[t] = "catch" /\ \A u \in Threads : u # t => pc'[u] = pc[u]
        /\ Crew' /\ CallerAt'
        /\ NobodyOutlivesTheCall' /\ ReturnsAll' /\ RethrowsAll'
    BY <1>1, <1>5, <2>1, WorkerFrame
  <2>3. Held' /\ Exits' /\ Caught'
    BY <1>1, <2>2, CallFrame DEF IInv, Held, Exits, Caught
  <2>4. Accounts'
    BY <1>1, <2>2, BodyEnds
  <2>5. Kept'
    BY <1>1, <2>1, <2>2, CallFrame DEF IInv, Kept
  <2> QED
    BY <1>3, <1>4, <2>2, <2>3, <2>4, <2>5 DEF IInv
<1>6. CASE Serial
  <2>1. started = 0 /\ \A u \in Helpers : pc[u] = "none"
    BY <1>6 DEF IInv, CallerAt, Crew, TypeOK, Helpers, Threads
  <2>2. t = 0
    BY <1>1, <2>1 DEF Helpers
  <2>3. pc' = [pc EXCEPT ![0] = "gone"] /\ err' = at[t] /\ outcome' = "thrown"
    BY <1>6, <2>2 DEF BodyThrows, Goto
  <2>4. /\ 0 \in Threads /\ pc'[0] = "gone" /\ \A u \in Threads : u # 0 => pc'[u] = pc[u]
        /\ \A u \in Helpers : u \in Threads /\ u # 0 /\ pc'[u] = "none"
    BY <2>1, <2>3 DEF TypeOK, Threads, Helpers
  <2>5. Held' /\ Exits' /\ Caught'
    BY <1>1, <2>4, CallFrame DEF IInv, Held, Exits, Caught
  <2>6. Accounts'
    BY <1>1, <2>2, <2>4, BodyEnds
  <2>7. Crew' /\ NobodyOutlivesTheCall'
    BY <2>4 DEF Crew, NobodyOutlivesTheCall
  <2>8. CallerAt'
    BY <1>1, <1>6, <2>1, <2>3, <2>4, CallFrame DEF CallerAt
  <2>9. Kept'
    <3>1. at[t] # NoError
      BY DEF TypeOK
    <3> QED BY <1>1, <2>3, <3>1 DEF Kept
  <2>10. ReturnsAll' /\ RethrowsAll'
    BY <1>1, <1>6, <2>3, CallFrame DEF ReturnsAll, RethrowsAll
  <2> QED
    BY <1>3, <1>4, <2>5, <2>6, <2>7, <2>8, <2>9, <2>10 DEF IInv
<1> QED BY <1>5, <1>6

LEMMA CatchStep ==
    ASSUME TypeOK, IInv, NEW t \in Threads, Catch(t) PROVE IInv'
<1> DEFINE l == IF path = "libnx" THEN "fetch" ELSE "store"
<1>1. /\ pc[t] = "catch" /\ pc' = [pc EXCEPT ![t] = l]
      /\ err' = IF err = NoError THEN at[t] ELSE err
      /\ UNCHANGED <<next, at, started, outcome, runs, done, failed>> /\ UNCHANGED call
  BY DEF Catch, Goto, history
<1>2. l \in {"fetch", "store"} /\ (path = "libnx" => l = "fetch")
  OBVIOUS
<1> HIDE DEF l
<1>3. /\ pc'[t] = l /\ \A u \in Threads : u # t => pc'[u] = pc[u]
      /\ Crew' /\ CallerAt'
      /\ NobodyOutlivesTheCall' /\ ReturnsAll' /\ RethrowsAll'
  BY <1>1, <1>2, WorkerFrame
<1>4. Claims' /\ NoGap' /\ Ended'
  BY <1>1, CallFrame DEF IInv, Claims, NoGap, Ended
<1>5. Held' /\ Exits'
  BY <1>1, <1>2, <1>3, CallFrame DEF IInv, Held, Exits
<1>6. Caught'
  BY <1>1, <1>2, <1>3, CallFrame DEF IInv, Caught
<1>7. Accounts'
  BY <1>1, <1>3 DEF IInv, Accounts
<1>8. Kept'
  <2>1. at[t] \in failed /\ at[t] # NoError
    BY <1>1 DEF IInv, Caught, TypeOK
  <2> QED BY <1>1, <2>1, CallFrame DEF IInv, Kept
<1> QED
  BY <1>3, <1>4, <1>5, <1>6, <1>7, <1>8 DEF IInv

\* The counter may go down, but not below total; from here on there is an
\* error and NoGap asks for nothing.
LEMMA StoreStep ==
    ASSUME TypeOK, IInv, NEW t \in Threads, Store(t) PROVE IInv'
<1>1. /\ pc[t] = "store" /\ next' = total /\ pc' = [pc EXCEPT ![t] = "exit"]
      /\ UNCHANGED <<at, started, err, outcome, runs, done, failed>> /\ UNCHANGED call
  BY DEF Store, Goto, history
<1>2. failed # {} /\ path # "libnx" /\ total \in Nat
  BY <1>1 DEF IInv, Caught, TypeOK
<1>3. /\ pc'[t] = "exit" /\ \A u \in Threads : u # t => pc'[u] = pc[u]
      /\ Crew' /\ CallerAt'
      /\ NobodyOutlivesTheCall' /\ ReturnsAll' /\ RethrowsAll'
  BY <1>1, WorkerFrame
<1>4. Claims' /\ Ended'
  BY <1>1, CallFrame DEF IInv, Claims, Ended
<1>5. NoGap'
  BY <1>1, <1>2, CallFrame DEF NoGap
<1>6. Held' /\ Caught'
  BY <1>1, <1>3, CallFrame DEF IInv, Held, Caught
<1>7. Exits'
  BY <1>1, <1>2, CallFrame DEF Exits
<1>8. Accounts'
  BY <1>1, <1>3 DEF IInv, Accounts
<1>9. Kept'
  BY <1>1, <1>3, CallFrame DEF IInv, Kept
<1> QED
  BY <1>3, <1>4, <1>5, <1>6, <1>7, <1>8, <1>9 DEF IInv

-----------------------------------------------------------------------------
(* The theorems.                                                           *)

LEMMA InitIInv == ASSUME Init PROVE TypeOK /\ IInv
<1>1. TypeOK
  BY DEF Init, TypeOK, Threads, Indices
<1>2. Claims /\ Held /\ Ended /\ Accounts /\ NoGap /\ Exits
  BY DEF Init, Claims, Held, Ended, Accounts, NoGap, Exits, All, Indices, Threads
<1>3. Crew /\ CallerAt /\ Caught /\ Kept
  BY DEF Init, Crew, CallerAt, Caught, Kept, Threads, Helpers
<1>4. NobodyOutlivesTheCall /\ ReturnsAll /\ RethrowsAll
  BY DEF Init, NobodyOutlivesTheCall, ReturnsAll, RethrowsAll
<1> QED BY <1>1, <1>2, <1>3, <1>4 DEF IInv

LEMMA TypeStep == ASSUME TypeOK, IInv, [Next]_vars PROVE TypeOK'
<1>1. CASE Caller
  BY <1>1, WorkersBound
  DEF Caller, Enter, StartThread, StartFails, AllStarted, Join, Goto, TypeOK, call, history
<1>2. ASSUME NEW t \in Threads, Worker(t) PROVE TypeOK'
  <2>1. pc[t] = "body" => at[t] \in Indices
    BY WorkersBound DEF IInv, Held
  <2>2. at[t] \in Nat
    BY DEF TypeOK
  <2> USE DEF TypeOK, Goto, call, history
  <2>3. CASE Fetch(t)
    BY <2>3 DEF Fetch
  <2>4. CASE BodyReturns(t)
    BY <2>1, <2>4 DEF BodyReturns
  <2>5. CASE BodyThrows(t)
    BY <2>1, <2>2, <2>5 DEF BodyThrows
  <2>6. CASE Catch(t)
    BY <2>2, <2>6 DEF Catch
  <2>7. CASE Store(t)
    BY <2>7 DEF Store
  <2> QED BY <1>2, <2>3, <2>4, <2>5, <2>6, <2>7 DEF Worker
<1>3. CASE UNCHANGED vars
  BY <1>3 DEF vars, call, history, TypeOK
<1> QED BY <1>1, <1>2, <1>3 DEF Next

LEMMA StepIInv == ASSUME TypeOK, IInv, [Next]_vars PROVE IInv'
<1>1. CASE Caller
  BY <1>1, EnterStep, StartThreadStep, StartFailsStep, AllStartedStep, JoinStep DEF Caller
<1>2. ASSUME NEW t \in Threads, Worker(t) PROVE IInv'
  BY <1>2, FetchStep, BodyReturnsStep, BodyThrowsStep, CatchStep, StoreStep DEF Worker
<1>3. CASE UNCHANGED vars
  <2>1. /\ UNCHANGED <<next, pc, at, started, err, outcome, runs, done, failed>>
        /\ UNCHANGED call
    BY <1>3 DEF vars, history
  <2>2. /\ Claims' /\ Held' /\ Ended' /\ Accounts' /\ NoGap' /\ Exits'
        /\ Crew' /\ CallerAt' /\ Caught' /\ Kept'
    BY <2>1, CallFrame
    DEF IInv, Claims, Held, Ended, Accounts, NoGap, Exits, Crew, CallerAt, Caught, Kept
  <2>3. NobodyOutlivesTheCall' /\ ReturnsAll' /\ RethrowsAll'
    BY <2>1, CallFrame DEF IInv, NobodyOutlivesTheCall, ReturnsAll, RethrowsAll
  <2> QED BY <2>2, <2>3 DEF IInv
<1> QED BY <1>1, <1>2, <1>3 DEF Next

\* The inductive invariant, with the ranges of the variables.
THEOREM Inductive == Spec => [](TypeOK /\ IInv)
<1>1. Init => TypeOK /\ IInv
  BY InitIInv
<1>2. TypeOK /\ IInv /\ [Next]_vars => (TypeOK /\ IInv)'
  BY TypeStep, StepIInv
<1> QED BY <1>1, <1>2, PTL DEF Spec

\* No body is ever called twice for an index, for any number of threads,
\* wherever an exception stops the loop.
THEOREM OnceEach == Spec => []NoIndexTwice
<1>1. IInv => NoIndexTwice
  BY DEF IInv, Claims, NoIndexTwice
<1> QED BY <1>1, Inductive, PTL

\* Every variable keeps its range; the shared counter has no other bound than
\* that it is a number.
THEOREM TypeCorrect == Spec => []TypeOK
BY Inductive, PTL

\* When ParallelFor returns every body has returned; when it rethrows on
\* Switch every body has run.
THEOREM Complete == Spec => []AllDone
<1>1. IInv => AllDone
  BY DEF IInv, AllDone
<1> QED BY <1>1, Inductive, PTL

\* When ParallelFor ends, either way, no helper still uses its frame.
THEOREM NobodyLeft == Spec => []NobodyOutlivesTheCall
<1>1. IInv => NobodyOutlivesTheCall
  BY DEF IInv
<1> QED BY <1>1, Inductive, PTL
=============================================================================
