-------------------------- MODULE AssetBuildProofs --------------------------
(***************************************************************************)
(* Proofs about AssetBuild: whatever fails to open or to be written, and   *)
(* wherever a process ends, a build that is reported, and a fingerprint    *)
(* that is on disk, stand for files that are all there.                    *)
(***************************************************************************)
EXTENDS AssetBuild, TLAPS

Writing == wpc \in {"open", "write", "count"}
Extracting == pc \in {"extract", "wait", "asleep"}
Finishing == pc \in {"state", "state_write", "stamp", "stamp_write"}

\* Outside the phases the writer has nothing left, and no error is kept; a
\* build without the thread writes within Submit.
Writer ==
    /\ ~Extracting => queue = <<>> /\ ~Writing /\ ~first_error
    /\ ~threaded => queue = <<>> /\ (pc # "extract" => ~Writing)
    /\ pc = "off" => wpc = "idle"
    /\ pc \in {"off", "check", "current", "wipe"} => phase = 1
    /\ pc \in {"wait", "asleep"} => phase = NJson + 1

\* A file whose phase is over is written, or on its way, or its error is kept.
Pending(n) == (\E i \in 1 .. Len(queue) : queue[i] = n)
              \/ (task = n /\ wpc \in {"open", "write"})
JsonDone ==
    /\ Extracting =>
         \A n \in Jsons : n < phase => json[n] = launch.rom \/ first_error \/ Pending(n)
    /\ pc = "paks" \/ Finishing \/ pc = "built" => \A n \in Jsons : json[n] = launch.rom

\* The same for the archives: still to be visited, at work, written, or an error.
PakDone ==
    /\ pc = "paks" =>
         \A p \in Paks : p \in todo \/ p \in busy \/ pak[p] = launch.rom \/ pak_errors
    /\ (Finishing \/ pc = "built") /\ launch.mode = "v1" => \A p \in Paks : pak[p] = launch.rom

\* Files change only in a build that has begun.
Begun == pc \in {"wipe", "paks"} \/ Extracting \/ Finishing => building

IInv == Writer /\ JsonDone /\ PakDone /\ Begun /\ StampIsComplete

USE BuildAssumption DEF files, run, loop, writer, Writing, Extracting, Finishing

LEMMA TypeStep == ASSUME TypeOK, IInv, Next PROVE TypeOK'
<1> USE DEF TypeOK, IInv, Writer, PCs, Contents, States, Stamps, Jsons
<1>1. CASE Launch
  BY <1>1 DEF Launch
<1>2. CASE Check
  BY <1>2 DEF Check
<1>3. CASE Wipe
  BY <1>3 DEF Wipe
<1>4. CASE Wiped
  BY <1>4 DEF Wiped
<1>5. CASE Submit
  <2>1. phase \in Jsons /\ phase' \in 1 .. NJson + 1
    BY <1>5 DEF Submit
  <2>2. CASE threaded
    <3>1. queue' = Append(queue, phase) /\ in_flight' = in_flight + 1
      BY <1>5, <2>2 DEF Submit
    <3>2. queue' \in Seq(Jsons) /\ Len(queue') = Len(queue) + 1
      BY <2>1, <3>1
    <3> QED BY <1>5, <2>1, <2>2, <3>1, <3>2 DEF Submit
  <2>3. CASE ~threaded
    BY <1>5, <2>1, <2>3 DEF Submit
  <2> QED BY <2>2, <2>3
<1>6. CASE Extracted
  BY <1>6 DEF Extracted
<1>7. CASE TakeTask
  <2>1. CASE queue = <<>>
    BY <1>7, <2>1 DEF TakeTask
  <2>2. CASE queue # <<>>
    <3>1. /\ Head(queue) \in Jsons /\ Tail(queue) \in Seq(Jsons)
          /\ Len(Tail(queue)) = Len(queue) - 1
      BY <2>2
    <3>2. /\ queue' = Tail(queue) /\ task' = Head(queue)
          /\ threaded /\ wpc = "idle" /\ wpc' = "open"
          /\ UNCHANGED <<files, run, pc, phase, loop, in_flight, first_error, building>>
      BY <1>7, <2>2 DEF TakeTask
    <3>3. in_flight' = Len(queue') + 1
      BY <3>1, <3>2
    <3>4. queue' \in Seq(Jsons) /\ task' \in Jsons
      BY <3>1, <3>2
    <3> HIDE <3>1
    <3> QED BY <3>2, <3>3, <3>4
  <2> QED BY <2>1, <2>2
<1>8. CASE OpenJson
  BY <1>8 DEF OpenJson
<1>9. CASE WriteJson
  BY <1>9 DEF WriteJson
<1>10. CASE Count
  BY <1>10 DEF Count
<1>11. CASE Wait
  BY <1>11 DEF Wait
<1>12. CASE OpenPak
  BY <1>12 DEF OpenPak
<1>13. CASE WritePak
  BY <1>13 DEF WritePak
<1>14. CASE PaksDone
  BY <1>14 DEF PaksDone
<1>15. CASE OpenState
  BY <1>15 DEF OpenState
<1>16. CASE WriteState
  BY <1>16 DEF WriteState
<1>17. CASE OpenStamp
  BY <1>17 DEF OpenStamp
<1>18. CASE WriteStamp
  <2>1. building' \in BOOLEAN
    BY <1>18 DEF WriteStamp
  <2>2. state' \in States
    BY <1>18 DEF WriteStamp
  <2> QED BY <1>18, <2>1, <2>2 DEF WriteStamp
<1>19. CASE Exit
  <2>1. pak_errors' \in BOOLEAN /\ first_error' \in BOOLEAN
    BY <1>19 DEF Exit
  <2>2. queue' \in Seq(Jsons) /\ Len(queue') = 0
    BY <1>19 DEF Exit
  <2> QED BY <1>19, <2>1, <2>2 DEF Exit
<1> QED
  BY <1>1, <1>2, <1>3, <1>4, <1>5, <1>6, <1>7, <1>8, <1>9, <1>10, <1>11, <1>12, <1>13, <1>14, <1>15, <1>16, <1>17, <1>18, <1>19
  DEF Next, Main, Worker

LEMMA WriterStep == ASSUME TypeOK, Writer, Next PROVE Writer'
<1> USE DEF TypeOK, Writer, Jsons, Modes
<1>1. CASE Launch
  BY <1>1 DEF Launch
<1>2. CASE Check
  BY <1>2 DEF Check
<1>3. CASE Wipe
  BY <1>3 DEF Wipe
<1>4. CASE Wiped
  BY <1>4 DEF Wiped
<1>5. CASE Submit
  BY <1>5 DEF Submit
<1>6. CASE Extracted
  BY <1>6 DEF Extracted
<1>7. CASE TakeTask
  BY <1>7 DEF TakeTask
<1>8. CASE OpenJson
  BY <1>8 DEF OpenJson
<1>9. CASE WriteJson
  BY <1>9 DEF WriteJson
<1>10. CASE Count
  BY <1>10 DEF Count
<1>11. CASE Wait
  BY <1>11 DEF Wait
<1>12. CASE OpenPak
  BY <1>12 DEF OpenPak
<1>13. CASE WritePak
  BY <1>13 DEF WritePak
<1>14. CASE PaksDone
  BY <1>14 DEF PaksDone
<1>15. CASE OpenState
  BY <1>15 DEF OpenState
<1>16. CASE WriteState
  BY <1>16 DEF WriteState
<1>17. CASE OpenStamp
  BY <1>17 DEF OpenStamp
<1>18. CASE WriteStamp
  BY <1>18 DEF WriteStamp
<1>19. CASE Exit
  BY <1>19 DEF Exit
<1> QED
  BY <1>1, <1>2, <1>3, <1>4, <1>5, <1>6, <1>7, <1>8, <1>9, <1>10, <1>11, <1>12, <1>13, <1>14, <1>15, <1>16, <1>17, <1>18, <1>19
  DEF Next, Main, Worker

LEMMA JsonStep == ASSUME TypeOK, Writer, JsonDone, Next PROVE JsonDone'
<1> USE DEF TypeOK, Writer, JsonDone, Pending, Jsons
<1>1. CASE Launch
  BY <1>1 DEF Launch
<1>2. CASE Check
  BY <1>2 DEF Check
<1>3. CASE Wipe
  BY <1>3 DEF Wipe
<1>4. CASE Wiped
  BY <1>4 DEF Wiped
<1>5. CASE Submit
  <2>1. SUFFICES ASSUME NEW n \in Jsons, n < phase'
                 PROVE  json'[n] = launch'.rom \/ first_error' \/ Pending(n)'
    BY <1>5 DEF Submit
  <2>2. CASE threaded
    <3>1. queue' = Append(queue, phase)
      BY <1>5, <2>2 DEF Submit
    <3>2. /\ Len(queue') = Len(queue) + 1 /\ queue'[Len(queue) + 1] = phase
          /\ \A i \in 1 .. Len(queue) : queue'[i] = queue[i]
      BY <1>5, <3>1 DEF Submit
    <3>3. CASE n = phase
      <4>1. Len(queue) + 1 \in 1 .. Len(queue')
        BY <3>2
      <4> QED BY <3>2, <3>3, <4>1
    <3>4. CASE n # phase
      <4>1. n < phase
        BY <1>5, <2>1, <3>4 DEF Submit
      <4>2. Pending(n) => Pending(n)'
        BY <1>5, <2>2, <3>2 DEF Submit
      <4> QED BY <1>5, <4>1, <4>2 DEF Submit
    <3> QED BY <3>3, <3>4
  <2>3. CASE ~threaded
    BY <1>5, <2>1, <2>3 DEF Submit
  <2> QED BY <2>2, <2>3
<1>6. CASE Extracted
  BY <1>6 DEF Extracted
<1>7. CASE TakeTask
  <2>1. CASE queue = <<>>
    BY <1>7, <2>1 DEF TakeTask
  <2>2. CASE queue # <<>>
    <3>1. /\ queue[1] = Head(queue) /\ Len(queue) >= 1 /\ Len(Tail(queue)) = Len(queue) - 1
          /\ \A i \in 2 .. Len(queue) : Tail(queue)[i - 1] = queue[i]
      BY <2>2
    <3>2. queue' = Tail(queue) /\ task' = Head(queue) /\ wpc' = "open"
      BY <1>7, <2>2 DEF TakeTask
    <3>3. \A n : (\E i \in 1 .. Len(queue) : queue[i] = n) => Pending(n)'
      <4> SUFFICES ASSUME NEW n, NEW i \in 1 .. Len(queue), queue[i] = n PROVE Pending(n)'
        OBVIOUS
      <4>1. CASE i = 1
        BY <3>1, <3>2, <4>1
      <4>2. CASE i # 1
        <5>1. i \in 2 .. Len(queue) /\ i - 1 \in 1 .. Len(queue')
          BY <3>1, <3>2, <4>2
        <5> QED BY <3>1, <3>2, <5>1
      <4> QED BY <4>1, <4>2
    <3> QED BY <1>7, <2>2, <3>2, <3>3 DEF TakeTask
  <2> QED BY <2>1, <2>2
<1>8. CASE OpenJson
  BY <1>8 DEF OpenJson
<1>9. CASE WriteJson
  BY <1>9 DEF WriteJson
<1>10. CASE Count
  BY <1>10 DEF Count
<1>11. CASE Wait
  BY <1>11 DEF Wait
<1>12. CASE OpenPak
  BY <1>12 DEF OpenPak
<1>13. CASE WritePak
  BY <1>13 DEF WritePak
<1>14. CASE PaksDone
  BY <1>14 DEF PaksDone
<1>15. CASE OpenState
  BY <1>15 DEF OpenState
<1>16. CASE WriteState
  BY <1>16 DEF WriteState
<1>17. CASE OpenStamp
  BY <1>17 DEF OpenStamp
<1>18. CASE WriteStamp
  BY <1>18 DEF WriteStamp
<1>19. CASE Exit
  BY <1>19 DEF Exit
<1> QED
  BY <1>1, <1>2, <1>3, <1>4, <1>5, <1>6, <1>7, <1>8, <1>9, <1>10, <1>11, <1>12, <1>13, <1>14, <1>15, <1>16, <1>17, <1>18, <1>19
  DEF Next, Main, Worker

LEMMA PakStep == ASSUME TypeOK, PakDone, Next PROVE PakDone'
<1> USE DEF TypeOK, PakDone
<1>1. CASE Launch
  BY <1>1 DEF Launch
<1>2. CASE Check
  BY <1>2 DEF Check
<1>3. CASE Wipe
  BY <1>3 DEF Wipe
<1>4. CASE Wiped
  BY <1>4 DEF Wiped
<1>5. CASE Submit
  BY <1>5 DEF Submit
<1>6. CASE Extracted
  BY <1>6 DEF Extracted
<1>7. CASE TakeTask
  BY <1>7 DEF TakeTask
<1>8. CASE OpenJson
  BY <1>8 DEF OpenJson
<1>9. CASE WriteJson
  BY <1>9 DEF WriteJson
<1>10. CASE Count
  BY <1>10 DEF Count
<1>11. CASE Wait
  BY <1>11 DEF Wait
<1>12. CASE OpenPak
  BY <1>12 DEF OpenPak
<1>13. CASE WritePak
  BY <1>13 DEF WritePak
<1>14. CASE PaksDone
  BY <1>14 DEF PaksDone
<1>15. CASE OpenState
  BY <1>15 DEF OpenState
<1>16. CASE WriteState
  BY <1>16 DEF WriteState
<1>17. CASE OpenStamp
  BY <1>17 DEF OpenStamp
<1>18. CASE WriteStamp
  BY <1>18 DEF WriteStamp
<1>19. CASE Exit
  BY <1>19 DEF Exit
<1> QED
  BY <1>1, <1>2, <1>3, <1>4, <1>5, <1>6, <1>7, <1>8, <1>9, <1>10, <1>11, <1>12, <1>13, <1>14, <1>15, <1>16, <1>17, <1>18, <1>19
  DEF Next, Main, Worker

LEMMA BegunStep == ASSUME TypeOK, Begun, Next PROVE Begun'
<1> USE DEF TypeOK, Begun
<1>1. CASE Launch
  BY <1>1 DEF Launch
<1>2. CASE Check
  BY <1>2 DEF Check
<1>3. CASE Wipe
  BY <1>3 DEF Wipe
<1>4. CASE Wiped
  BY <1>4 DEF Wiped
<1>5. CASE Submit
  BY <1>5 DEF Submit
<1>6. CASE Extracted
  BY <1>6 DEF Extracted
<1>7. CASE TakeTask
  BY <1>7 DEF TakeTask
<1>8. CASE OpenJson
  BY <1>8 DEF OpenJson
<1>9. CASE WriteJson
  BY <1>9 DEF WriteJson
<1>10. CASE Count
  BY <1>10 DEF Count
<1>11. CASE Wait
  BY <1>11 DEF Wait
<1>12. CASE OpenPak
  BY <1>12 DEF OpenPak
<1>13. CASE WritePak
  BY <1>13 DEF WritePak
<1>14. CASE PaksDone
  BY <1>14 DEF PaksDone
<1>15. CASE OpenState
  BY <1>15 DEF OpenState
<1>16. CASE WriteState
  BY <1>16 DEF WriteState
<1>17. CASE OpenStamp
  BY <1>17 DEF OpenStamp
<1>18. CASE WriteStamp
  BY <1>18 DEF WriteStamp
<1>19. CASE Exit
  BY <1>19 DEF Exit
<1> QED
  BY <1>1, <1>2, <1>3, <1>4, <1>5, <1>6, <1>7, <1>8, <1>9, <1>10, <1>11, <1>12, <1>13, <1>14, <1>15, <1>16, <1>17, <1>18, <1>19
  DEF Next, Main, Worker

LEMMA StampStep == ASSUME TypeOK, IInv, Next PROVE StampIsComplete'
<1> USE DEF TypeOK, IInv, Writer, JsonDone, PakDone, Begun, StampIsComplete, Complete, Stamps
<1>1. CASE Launch
  BY <1>1 DEF Launch
<1>2. CASE Check
  BY <1>2 DEF Check
<1>3. CASE Wipe
  BY <1>3 DEF Wipe
<1>4. CASE Wiped
  BY <1>4 DEF Wiped
<1>5. CASE Submit
  BY <1>5 DEF Submit
<1>6. CASE Extracted
  BY <1>6 DEF Extracted
<1>7. CASE TakeTask
  BY <1>7 DEF TakeTask
<1>8. CASE OpenJson
  BY <1>8 DEF OpenJson
<1>9. CASE WriteJson
  BY <1>9 DEF WriteJson
<1>10. CASE Count
  BY <1>10 DEF Count
<1>11. CASE Wait
  BY <1>11 DEF Wait
<1>12. CASE OpenPak
  BY <1>12 DEF OpenPak
<1>13. CASE WritePak
  BY <1>13 DEF WritePak
<1>14. CASE PaksDone
  BY <1>14 DEF PaksDone
<1>15. CASE OpenState
  BY <1>15 DEF OpenState
<1>16. CASE WriteState
  BY <1>16 DEF WriteState
<1>17. CASE OpenStamp
  BY <1>17 DEF OpenStamp
<1>18. CASE WriteStamp
  <2>1. Complete(launch.rom, launch.mode)
    BY <1>18 DEF WriteStamp
  <2>2. UNCHANGED <<json, pak>>
    BY <1>18 DEF WriteStamp
  <2>3. CASE state' = [rom |-> launch.rom, mode |-> launch.mode]
    BY <2>1, <2>2, <2>3
  <2>4. CASE UNCHANGED <<state, building>>
    BY <1>18, <2>4 DEF WriteStamp
  <2> QED BY <1>18, <2>3, <2>4 DEF WriteStamp
<1>19. CASE Exit
  BY <1>19 DEF Exit
<1> QED
  BY <1>1, <1>2, <1>3, <1>4, <1>5, <1>6, <1>7, <1>8, <1>9, <1>10, <1>11, <1>12, <1>13, <1>14, <1>15, <1>16, <1>17, <1>18, <1>19
  DEF Next, Main, Worker

LEMMA InitIInv == ASSUME Init PROVE TypeOK /\ IInv
<1>1. /\ json \in [Jsons -> Contents] /\ pak \in [Paks -> Contents] /\ state \in States
      /\ launch \in [rom : Roms, mode : Modes, force : BOOLEAN] /\ threaded \in BOOLEAN
  BY DEF Init, Contents, States, Modes
<1>2. /\ pc \in PCs /\ wpc = "idle" /\ phase \in 1 .. NJson + 1 /\ task \in Jsons
      /\ todo \subseteq Paks /\ busy \subseteq Paks /\ launches \in 0 .. MaxLaunches
      /\ in_flight = 0
  BY DEF Init, PCs, Jsons
<1>3. pak_errors \in BOOLEAN /\ first_error \in BOOLEAN /\ building \in BOOLEAN
  BY DEF Init
<1>4. queue \in Seq(Jsons) /\ Len(queue) = 0
  BY DEF Init
<1>5. TypeOK
  BY <1>1, <1>2, <1>3, <1>4 DEF TypeOK
<1>6. /\ queue = <<>> /\ ~first_error /\ wpc = "idle" /\ pc = "off" /\ phase = 1
  BY DEF Init
<1>7. Writer /\ JsonDone /\ PakDone /\ Begun
  <2>1. Writer
    BY <1>6, Zenon DEF Writer
  <2>2. JsonDone /\ PakDone /\ Begun
    BY <1>6 DEF JsonDone, PakDone, Begun
  <2> QED BY <2>1, <2>2
<1>8. StampIsComplete
  <2>1. Missing \notin Stamps
    BY DEF Missing, Stamps, Modes, Torn, None
  <2> QED BY <2>1 DEF Init, StampIsComplete
<1> QED BY <1>5, <1>7, <1>8 DEF IInv

\* The inductive invariant, with the ranges of the variables.
THEOREM Inductive == Spec => [](TypeOK /\ IInv)
<1>1. ASSUME TypeOK, IInv, [Next]_vars PROVE TypeOK' /\ IInv'
  <2>1. CASE Next
    BY <1>1, <2>1, TypeStep, WriterStep, JsonStep, PakStep, BegunStep, StampStep DEF IInv
  <2>2. CASE UNCHANGED vars
    <3> USE <1>1, <2>2 DEF vars, IInv
    <3>1. TypeOK'
      BY DEF TypeOK
    <3>2. Writer' /\ PakDone' /\ Begun'
      BY DEF Writer, PakDone, Begun
    <3>3. JsonDone'
      BY DEF JsonDone, Pending
    <3>4. StampIsComplete'
      BY DEF StampIsComplete, Complete
    <3> QED BY <3>1, <3>2, <3>3, <3>4
  <2> QED BY <1>1, <2>1, <2>2
<1> QED BY <1>1, InitIInv, PTL DEF Spec

\* in_flight_ is what is queued and what the worker holds.
THEOREM TypeCorrect == Spec => []TypeOK
BY Inductive, PTL

\* No error of the writer's thread or of the archives' loop is lost, and
\* nothing is under way, when ExtractAssets reports a build.
THEOREM BuiltComplete == Spec => []BuiltIsComplete
<1>1. IInv => BuiltIsComplete
  BY DEF IInv, JsonDone, PakDone, BuiltIsComplete, Complete
<1> QED BY <1>1, Inductive, PTL

\* For any number of launches that end anywhere, a fingerprint on disk vouches
\* for files that are all there until another build begins.
THEOREM StampComplete == Spec => []StampIsComplete
<1>1. IInv => StampIsComplete
  BY DEF IInv
<1> QED BY <1>1, Inductive, PTL
=============================================================================
