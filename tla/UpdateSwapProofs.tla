-------------------------- MODULE UpdateSwapProofs --------------------------
(***************************************************************************)
(* Proofs about UpdateSwap: for any number of releases, failing calls and  *)
(* losses of power a whole program is on the card; and while at most one   *)
(* call has failed, and no power or tail was lost, tmc.nro itself is.      *)
(***************************************************************************)
EXTENDS UpdateSwap, TLAPS

USE BoundsAssumption

\* Only a program that was started is ever kept, and what is started is whole;
\* while tmc.nro is away the kept one is there.
Kept ==
    /\ previous # NoFile => previous.whole
    /\ pc \in {"access", "remove", "renameNro"} => nro.whole
    /\ pc \in {"renameUpdate", "putBack"} => nro = NoFile /\ previous.whole
    /\ Recoverable

\* With one failed call at most, the update that waits is whole; the call that
\* mends a failure (a remove, a rename back) is not the first to fail.
Calm == cuts = 0 /\ tails = 0 /\ failures <= 1
Mended ==
    /\ pc \in {"remove", "renameNro", "renameUpdate"} => update # NoFile
    /\ pc \in {"putBack", "discard"} => failures >= 1
    /\ Calm /\ pc \notin {"write", "close", "discard"} => update = NoFile \/ update.whole
    /\ Calm /\ pc \notin {"renameUpdate", "putBack"} => nro.whole

\* A download is of a release that was found.
Offered == sAvailable \/ pc \in {"write", "close"} => sLatest \in Releases

IInv == TypeOK /\ Offered /\ Kept /\ Mended

LEMMA FileFields ==
    /\ NoFile \in Files /\ NoFile.whole = FALSE
    /\ \A v \in Releases : /\ Program(v) \in Files /\ Program(v).whole = TRUE
                           /\ Program(v) # NoFile
                           /\ Part(v) \in Files /\ Part(v) # NoFile
    /\ \A f \in Files : f.whole => f.release \in Releases
BY DEF NoFile, Program, Part, Files, Releases

LEMMA InitIInv == ASSUME Init PROVE IInv
<1>1. 1 \in Releases
  BY DEF Releases
<1>2. TypeOK
  <2>1. sAvailable \in BOOLEAN
    BY DEF Init
  <2> QED BY <1>1, <2>1, FileFields DEF Init, TypeOK
<1>3. Offered /\ Kept /\ Mended
  BY <1>1, FileFields DEF Init, Offered, Kept, Mended, Recoverable, Calm
<1> QED BY <1>2, <1>3 DEF IInv

\* What a step leaves alone, and what a failing call does.
USE DEF files, menu, troubles, Fails, Moves

LEMMA TypeStep == ASSUME IInv, Next PROVE TypeOK'
<1> USE FileFields DEF IInv, TypeOK, Offered
<1>1. CASE Start
  <2>1. sAvailable' \in BOOLEAN
    BY <1>1 DEF Start
  <2> QED BY <1>1, <2>1 DEF Start
<1>2. CASE Access
  BY <1>2 DEF Access
<1>3. CASE RemovePrevious
  BY <1>3 DEF RemovePrevious
<1>4. CASE RenameNro
  BY <1>4 DEF RenameNro
<1>5. CASE RenameUpdate
  BY <1>5 DEF RenameUpdate
<1>6. CASE PutBack
  BY <1>6 DEF PutBack
<1>7. CASE Check
  <2>0. IsNewer(release) \in BOOLEAN
    BY DEF IsNewer, Releases
  <2>1. sAvailable' \in BOOLEAN
    BY <1>7, <2>0, Zenon DEF Check
  <2> QED BY <1>7, <2>1 DEF Check, Releases
<1>8. CASE DownloadFails
  BY <1>8 DEF DownloadFails
<1>9. CASE Open
  BY <1>9 DEF Open
<1>10. CASE Write
  BY <1>10 DEF Write
<1>11. CASE Close
  BY <1>11 DEF Close
<1>12. CASE Discard
  BY <1>12 DEF Discard
<1>13. CASE Quit
  BY <1>13 DEF Quit
<1>14. CASE PowerCut
  BY <1>14 DEF PowerCut
<1>15. CASE Publish
  BY <1>15 DEF Publish, Releases
<1>16. CASE Copy
  BY <1>16 DEF Copy
<1> QED
  BY <1>1, <1>2, <1>3, <1>4, <1>5, <1>6, <1>7, <1>8, <1>9, <1>10, <1>11, <1>12, <1>13, <1>14, <1>15, <1>16
  DEF Next, Swap, Fetch

LEMMA OfferedStep == ASSUME IInv, Next PROVE Offered'
<1> USE FileFields DEF IInv, TypeOK, Offered
<1>1. CASE Start
  BY <1>1 DEF Start
<1>2. CASE Access
  BY <1>2 DEF Access
<1>3. CASE RemovePrevious
  BY <1>3 DEF RemovePrevious
<1>4. CASE RenameNro
  BY <1>4 DEF RenameNro
<1>5. CASE RenameUpdate
  BY <1>5 DEF RenameUpdate
<1>6. CASE PutBack
  BY <1>6 DEF PutBack
<1>7. CASE Check
  BY <1>7 DEF Check
<1>8. CASE DownloadFails
  BY <1>8 DEF DownloadFails
<1>9. CASE Open
  BY <1>9 DEF Open
<1>10. CASE Write
  BY <1>10 DEF Write
<1>11. CASE Close
  BY <1>11 DEF Close
<1>12. CASE Discard
  BY <1>12 DEF Discard
<1>13. CASE Quit
  BY <1>13 DEF Quit
<1>14. CASE PowerCut
  BY <1>14 DEF PowerCut
<1>15. CASE Publish
  BY <1>15 DEF Publish
<1>16. CASE Copy
  BY <1>16 DEF Copy
<1> QED
  BY <1>1, <1>2, <1>3, <1>4, <1>5, <1>6, <1>7, <1>8, <1>9, <1>10, <1>11, <1>12, <1>13, <1>14, <1>15, <1>16
  DEF Next, Swap, Fetch

LEMMA KeptStep == ASSUME IInv, Next PROVE Kept'
<1> USE FileFields DEF IInv, TypeOK, Offered, Kept, Recoverable
<1>1. CASE Start
  BY <1>1 DEF Start
<1>2. CASE Access
  BY <1>2 DEF Access
<1>3. CASE RemovePrevious
  BY <1>3 DEF RemovePrevious
<1>4. CASE RenameNro
  BY <1>4 DEF RenameNro
<1>5. CASE RenameUpdate
  BY <1>5 DEF RenameUpdate
<1>6. CASE PutBack
  BY <1>6 DEF PutBack
<1>7. CASE Check
  BY <1>7 DEF Check
<1>8. CASE DownloadFails
  BY <1>8 DEF DownloadFails
<1>9. CASE Open
  BY <1>9 DEF Open
<1>10. CASE Write
  BY <1>10 DEF Write
<1>11. CASE Close
  BY <1>11 DEF Close
<1>12. CASE Discard
  BY <1>12 DEF Discard
<1>13. CASE Quit
  BY <1>13 DEF Quit
<1>14. CASE PowerCut
  BY <1>14 DEF PowerCut
<1>15. CASE Publish
  BY <1>15 DEF Publish
<1>16. CASE Copy
  BY <1>16 DEF Copy
<1> QED
  BY <1>1, <1>2, <1>3, <1>4, <1>5, <1>6, <1>7, <1>8, <1>9, <1>10, <1>11, <1>12, <1>13, <1>14, <1>15, <1>16
  DEF Next, Swap, Fetch

LEMMA MendedStep == ASSUME IInv, Next PROVE Mended'
<1> USE FileFields DEF IInv, TypeOK, Offered, Kept, Mended, Calm
<1>1. CASE Start
  BY <1>1 DEF Start
<1>2. CASE Access
  BY <1>2 DEF Access
<1>3. CASE RemovePrevious
  BY <1>3 DEF RemovePrevious
<1>4. CASE RenameNro
  BY <1>4 DEF RenameNro
<1>5. CASE RenameUpdate
  BY <1>5 DEF RenameUpdate
<1>6. CASE PutBack
  BY <1>6 DEF PutBack
<1>7. CASE Check
  BY <1>7 DEF Check
<1>8. CASE DownloadFails
  BY <1>8 DEF DownloadFails
<1>9. CASE Open
  BY <1>9 DEF Open
<1>10. CASE Write
  BY <1>10 DEF Write
<1>11. CASE Close
  BY <1>11 DEF Close
<1>12. CASE Discard
  BY <1>12 DEF Discard
<1>13. CASE Quit
  BY <1>13 DEF Quit
<1>14. CASE PowerCut
  BY <1>14 DEF PowerCut
<1>15. CASE Publish
  BY <1>15 DEF Publish
<1>16. CASE Copy
  BY <1>16 DEF Copy
<1> QED
  BY <1>1, <1>2, <1>3, <1>4, <1>5, <1>6, <1>7, <1>8, <1>9, <1>10, <1>11, <1>12, <1>13, <1>14, <1>15, <1>16
  DEF Next, Swap, Fetch

THEOREM Inductive == Spec => []IInv
<1>1. ASSUME IInv, [Next]_vars PROVE IInv'
  <2>1. CASE Next
    BY <1>1, <2>1, TypeStep, OfferedStep, KeptStep, MendedStep DEF IInv
  <2>2. CASE UNCHANGED vars
    BY <1>1, <2>2
    DEF vars, IInv, TypeOK, Offered, Kept, Recoverable, Mended, Calm
  <2> QED BY <1>1, <2>1, <2>2
<1> QED BY <1>1, InitIInv, PTL DEF Spec

\* Whatever fails and wherever the power is lost, tmc.nro or
\* tmc.nro.previous is a whole program.
THEOREM NeverLost == Spec => []Recoverable
<1>1. IInv => Recoverable
  BY DEF IInv, Kept
<1> QED BY <1>1, Inductive, PTL

\* One failing call alone never takes tmc.nro away, nor puts half of it there.
THEOREM OneFailureIsMended == Spec => []StartsAgain
<1>1. IInv => StartsAgain
  BY DEF IInv, TypeOK, Mended, Calm, StartsAgain
<1> QED BY <1>1, Inductive, PTL
=============================================================================
