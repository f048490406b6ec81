-------------------------- MODULE LibraryVersionProofs --------------------------
(***************************************************************************)
(* Proofs about LibraryVersion, for any sets of workers, sweeps, items and *)
(* versions and any number of faults.                                      *)
(***************************************************************************)
EXTENDS LibraryVersion, TLAPS

USE DEF Procs, Places, Returns, RaceKinds, SourceStates

LEMMA NoVersionIsOne == NoVersion \in Versions
BY ConstantsOK DEF NoVersion

-----------------------------------------------------------------------------
(* Type correctness, whatever the timing *)

\* A step of a process sends it to one of its places.
LEMMA GotoType ==
    ASSUME TypeOK, NEW p \in Procs, NEW place \in Places, Goto(p, place)
    PROVE  /\ pc' \in [Procs -> Places]
           /\ ver' \in [Procs -> Versions]
           /\ then' \in [Procs -> Returns]
BY DEF TypeOK, Goto

LEMMA StopType ==
    ASSUME TypeOK, NEW p \in Procs, Stop(p)
    PROVE  /\ pc' \in [Procs -> Places]
           /\ ver' \in [Procs -> Versions]
           /\ then' \in [Procs -> Returns]
BY NoVersionIsOne DEF TypeOK, Stop

LEMMA RestoreType ==
    ASSUME TypeOK, NEW p \in Procs, NEW to \in Returns, Restore(p, to)
    PROVE  /\ pc' \in [Procs -> Places]
           /\ ver' \in [Procs -> Versions]
           /\ then' \in [Procs -> Returns]
BY DEF TypeOK, Restore

LEMMA ReturnedType ==
    ASSUME TypeOK, NEW p \in Procs
    PROVE  Returned(p) \in Places
BY DEF TypeOK, Returned

\* The variables always hold what LibraryVersion says they hold.
THEOREM TypeCorrect == Spec => []TypeOK
<1>1. Init => TypeOK
  BY NoVersionIsOne, ConstantsOK DEF Init, TypeOK
<1>2. TypeOK /\ [Next]_vars => TypeOK'
  <2> SUFFICES ASSUME TypeOK, [Next]_vars PROVE TypeOK'
    OBVIOUS
  <2> USE DEF Sound, Faulty, At, Discard
  <2> DEFINE FilesOK ==
        /\ arrival \in [Items -> {"original", "other", "empty"}]
        /\ source \in [Items -> SourceStates]
        /\ placed \subseteq Versions /\ keeps \subseteq placed
        /\ opened \subseteq Versions /\ aged \subseteq opened
        /\ built \subseteq opened /\ drafted \subseteq opened
        /\ noted \subseteq opened /\ staged \subseteq opened
      ControlOK ==
        /\ pc \in [Procs -> Places]
        /\ ver \in [Procs -> Versions]
        /\ then \in [Procs -> Returns]
      RestOK ==
        /\ taken \subseteq Versions /\ done \subseteq Versions
        /\ faults \in 0..MaxFaults
  <2>0. TypeOK' <=> FilesOK' /\ ControlOK' /\ RestOK'
    BY DEF TypeOK
  <2>1. ASSUME NEW p \in Procs, LookForNote(p) PROVE TypeOK'
    <3>1. ControlOK'
      BY <2>1, GotoType, StopType, ReturnedType DEF LookForNote
    <3>2. QED BY <2>1, <3>1 DEF LookForNote, TypeOK, record, staging, catalog
  <2>2. ASSUME NEW p \in Procs, GiveBack(p) PROVE TypeOK'
    <3>1. ControlOK'
      BY <2>2, GotoType, StopType DEF GiveBack
    <3>2. QED BY <2>2, <3>1, ConstantsOK DEF GiveBack, TypeOK, record, catalog
  <2>3. ASSUME NEW p \in Procs, DropNote(p) PROVE TypeOK'
    <3>1. ControlOK'
      BY <2>3, GotoType, ReturnedType DEF DropNote
    <3>2. QED BY <2>3, <3>1, ConstantsOK DEF DropNote, TypeOK, record, catalog
  <2>4. ASSUME NEW p \in Procs, LookForStrays(p) PROVE TypeOK'
    <3>1. ControlOK'
      BY <2>4, GotoType, StopType DEF LookForStrays
    <3>2. QED BY <2>4, <3>1 DEF LookForStrays, TypeOK, record, staging, catalog
  <2>5. ASSUME NEW p \in Procs, Clear(p) PROVE TypeOK'
    <3>1. ControlOK'
      BY <2>5, GotoType, StopType DEF Clear
    <3>2. QED BY <2>5, <3>1, ConstantsOK DEF Clear, TypeOK, record, staging, catalog
  <2>6. ASSUME NEW p \in Procs, Enter(p) PROVE TypeOK'
    <3>1. ControlOK'
      BY <2>6, RestoreType, StopType DEF Enter
    <3>2. QED BY <2>6, <3>1 DEF Enter, TypeOK, record, staging, catalog
  <2>7. ASSUME NEW p \in Procs, LookAtRecord(p) PROVE TypeOK'
    <3>1. ControlOK'
      BY <2>7, GotoType, RestoreType, StopType DEF LookAtRecord
    <3>2. QED BY <2>7, <3>1 DEF LookAtRecord, TypeOK, record, staging, catalog
  <2>8. ASSUME NEW p \in Procs, OpenStaging(p) PROVE TypeOK'
    <3>1. ControlOK'
      BY <2>8, GotoType, StopType DEF OpenStaging
    <3>2. QED BY <2>8, <3>1 DEF OpenStaging, TypeOK, record, catalog
  <2>9. ASSUME NEW p \in Procs, Build(p) PROVE TypeOK'
    <3>1. ControlOK'
      BY <2>9, GotoType, RestoreType DEF Build
    <3>2. QED BY <2>9, <3>1 DEF Build, TypeOK, record, catalog
  <2>10. ASSUME NEW p \in Procs, PlaceSource(p) PROVE TypeOK'
    <3>1. ControlOK'
      BY <2>10, GotoType, RestoreType DEF PlaceSource, SourceIn
    <3>2. QED BY <2>10, <3>1, ConstantsOK DEF PlaceSource, TypeOK, record, staging, catalog
  <2>23. ASSUME NEW p \in Procs, RenameSource(p) PROVE TypeOK'
    <3>1. ControlOK'
      BY <2>23, GotoType, RestoreType DEF RenameSource, SourceIn
    <3>2. QED BY <2>23, <3>1, ConstantsOK DEF RenameSource, TypeOK, catalog
  <2>11. ASSUME NEW p \in Procs, WriteNote(p) PROVE TypeOK'
    <3>1. ControlOK'
      BY <2>11, GotoType, RestoreType DEF WriteNote
    <3>2. QED BY <2>11, <3>1, ConstantsOK DEF WriteNote, TypeOK, record, catalog
  <2>12. ASSUME NEW p \in Procs, MoveIn(p) PROVE TypeOK'
    <3>1. ControlOK'
      BY <2>12, GotoType, RestoreType DEF MoveIn
    <3>2. QED BY <2>12, <3>1, ConstantsOK DEF MoveIn, TypeOK, record, catalog
  <2>13. ASSUME NEW p \in Procs, PlaceVersion(p) PROVE TypeOK'
    <3>1. ControlOK'
      BY <2>13, GotoType, RestoreType DEF PlaceVersion
    <3>2. QED BY <2>13, <3>1, ConstantsOK DEF PlaceVersion, TypeOK, catalog
  <2>14. ASSUME NEW p \in Procs, Report(p) PROVE TypeOK'
    <3>1. ControlOK'
      BY <2>14, GotoType, StopType, RestoreType DEF Report
    <3>2. QED BY <2>14, <3>1 DEF Report, TypeOK, record, staging, catalog
  <2>15. ASSUME NEW p \in Procs, HandOver(p) PROVE TypeOK'
    <3>1. ControlOK'
      BY <2>15, GotoType, StopType DEF HandOver
    <3>2. QED BY <2>15, <3>1 DEF HandOver, TypeOK, record, staging
  <2>16. ASSUME NEW p \in Procs, Finish(p) PROVE TypeOK'
    <3>1. ControlOK'
      BY <2>16, RestoreType DEF Finish
    <3>2. QED BY <2>16, <3>1, ConstantsOK DEF Finish, TypeOK, record, staging
  <2>17. ASSUME NEW p \in Procs, Crash(p) PROVE TypeOK'
    <3>1. ControlOK'
      BY <2>17, StopType DEF Crash
    <3>2. QED BY <2>17, <3>1, ConstantsOK DEF Crash, TypeOK, record, staging, catalog
  <2>18. ASSUME NEW w \in Workers, NEW v \in Versions, StartRun(w, v) PROVE TypeOK'
    BY <2>18 DEF StartRun, TypeOK, record, staging, catalog
  <2>19. ASSUME NEW s \in Sweepers, NEW v \in Versions, Sweep(s, v) PROVE TypeOK'
    BY <2>19 DEF Sweep, TypeOK, record, staging, catalog
  <2>20. ASSUME NEW v \in Versions, Age(v) PROVE TypeOK'
    BY <2>20 DEF Age, TypeOK, record, catalog
  <2>21. ASSUME NEW i \in Items, Refill(i) \/ OtherWriter(i) PROVE TypeOK'
    BY <2>21 DEF Refill, OtherWriter, TypeOK, record, staging, catalog
  <2>22. CASE UNCHANGED vars
    BY <2>22 DEF vars, TypeOK, record, staging, catalog
  <2> QED
    BY <2>1, <2>2, <2>3, <2>4, <2>5, <2>6, <2>7, <2>8, <2>9, <2>10, <2>11,
       <2>12, <2>13, <2>14, <2>15, <2>16, <2>17, <2>18, <2>19, <2>20, <2>21,
       <2>22, <2>23 DEF Next, Step
<1>3. QED BY <1>1, <1>2, PTL DEF Spec

-----------------------------------------------------------------------------
(***************************************************************************)
(* Safety, when the timing assumptions hold (Races = {}).  The invariants  *)
(* the runs check are inductive only with what each process knows at its   *)
(* place, and with the exclusion that keeps that true while others move.   *)
(***************************************************************************)

\* A process that stays at its item, or leaves it, keeps the exclusion.
LEMMA ExclusionKept ==
    ASSUME TypeOK, Exclusive, NEW p \in Procs, pc[p] # "idle",
           \/ \E place \in Places : Goto(p, place)
           \/ Stop(p)
           \/ \E to \in Returns : Restore(p, to)
    PROVE  Exclusive'
BY DEF TypeOK, Exclusive, Goto, Stop, Restore, ItemAt

\* Every step of a process is one of the three, so it keeps the exclusion.
LEMMA StepExclusion ==
    ASSUME TypeOK, Exclusive, NEW p \in Procs, Step(p) \/ Crash(p)
    PROVE  Exclusive'
<1> USE DEF At, Discard
<1>1. pc[p] # "idle"
  BY DEF Step, Crash, LookForNote, GiveBack, DropNote, LookForStrays, Clear, Enter,
         LookAtRecord, OpenStaging, Build, PlaceSource, RenameSource, WriteNote, MoveIn,
         PlaceVersion, Report, HandOver, Finish
<1>2. \/ \E place \in Places : Goto(p, place)
      \/ Stop(p)
      \/ \E to \in Returns : Restore(p, to)
  <2>1. CASE LookForNote(p) BY <2>1, ReturnedType DEF LookForNote
  <2>2. CASE GiveBack(p) BY <2>2 DEF GiveBack
  <2>3. CASE DropNote(p) BY <2>3, ReturnedType DEF DropNote
  <2>4. CASE LookForStrays(p) BY <2>4 DEF LookForStrays
  <2>5. CASE Clear(p) BY <2>5 DEF Clear
  <2>6. CASE Enter(p) BY <2>6 DEF Enter
  <2>7. CASE LookAtRecord(p) BY <2>7 DEF LookAtRecord
  <2>8. CASE OpenStaging(p) BY <2>8 DEF OpenStaging
  <2>9. CASE Build(p) BY <2>9 DEF Build
  <2>10. CASE PlaceSource(p) BY <2>10 DEF PlaceSource, SourceIn
  <2>18. CASE RenameSource(p) BY <2>18 DEF RenameSource, SourceIn
  <2>11. CASE WriteNote(p) BY <2>11 DEF WriteNote
  <2>12. CASE MoveIn(p) BY <2>12 DEF MoveIn
  <2>13. CASE PlaceVersion(p) BY <2>13 DEF PlaceVersion
  <2>14. CASE Report(p) BY <2>14 DEF Report
  <2>15. CASE HandOver(p) BY <2>15 DEF HandOver
  <2>16. CASE Finish(p) BY <2>16 DEF Finish
  <2>17. CASE Crash(p) BY <2>17 DEF Crash
  <2> QED
    BY <2>1, <2>2, <2>3, <2>4, <2>5, <2>6, <2>7, <2>8, <2>9, <2>10, <2>11,
       <2>12, <2>13, <2>14, <2>15, <2>16, <2>17, <2>18 DEF Step
<1> QED BY <1>1, <1>2, ExclusionKept

\* What a step of p leaves true of the folders, and of p at its next place.
FoldersOK == OriginalKept /\ StagedIsNoted /\ StagedTakes /\ RecordIsWhole

LEMMA StepFolders ==
    ASSUME IInv, NEW p \in Procs, Step(p) \/ Crash(p)
    PROVE  FoldersOK'
<1> USE DEF Sound, Faulty, At, Discard
<1> USE DEF IInv, FoldersOK, TypeOK, OriginalKept, Holders, StagedIsNoted, StagedTakes,
            RecordIsWhole, Whole, Recorded, TakesOriginal, Knows, ItemAt
<1>1. CASE LookForNote(p)
  BY <1>1, ConstantsOK DEF LookForNote, record, staging, catalog
<1>2. CASE GiveBack(p)
  BY <1>2, ConstantsOK DEF GiveBack, record, catalog
<1>3. CASE DropNote(p)
  BY <1>3, ConstantsOK DEF DropNote, record, catalog
<1>4. CASE LookForStrays(p)
  BY <1>4, ConstantsOK DEF LookForStrays, record, staging, catalog
<1>5. CASE Clear(p)
  BY <1>5, ConstantsOK DEF Clear, record, catalog, staging
<1>6. CASE Enter(p)
  BY <1>6, ConstantsOK DEF Enter, record, staging, catalog
<1>7. CASE LookAtRecord(p)
  BY <1>7, ConstantsOK DEF LookAtRecord, record, staging, catalog
<1>8. CASE OpenStaging(p)
  BY <1>8, ConstantsOK DEF OpenStaging, record, catalog
<1>9. CASE Build(p)
  BY <1>9, ConstantsOK DEF Build, record, catalog
<1>10. CASE PlaceSource(p)
  BY <1>10, ConstantsOK DEF PlaceSource, record, staging, catalog
<1>18. CASE RenameSource(p)
  BY <1>18, ConstantsOK DEF RenameSource, catalog
<1>11. CASE WriteNote(p)
  BY <1>11, ConstantsOK DEF WriteNote, record, catalog
<1>12. CASE MoveIn(p)
  BY <1>12, ConstantsOK DEF MoveIn, record, catalog
<1>13. CASE PlaceVersion(p)
  BY <1>13, ConstantsOK DEF PlaceVersion, catalog
<1>14. CASE Report(p)
  BY <1>14, ConstantsOK DEF Report, record, staging, catalog
<1>15. CASE HandOver(p)
  BY <1>15, ConstantsOK DEF HandOver, record, staging
<1>16. CASE Finish(p)
  BY <1>16, ConstantsOK DEF Finish, record, staging
<1>17. CASE Crash(p)
  BY <1>17, ConstantsOK DEF Crash, record, staging, catalog
<1> QED
  BY <1>1, <1>2, <1>3, <1>4, <1>5, <1>6, <1>7, <1>8, <1>9, <1>10, <1>11, <1>12,
     <1>13, <1>14, <1>15, <1>16, <1>17, <1>18 DEF Step

LEMMA StepKnows ==
    ASSUME IInv, NEW p \in Procs, Step(p) \/ Crash(p)
    PROVE  Knows(p)'
<1> USE DEF Sound, Faulty, At, Discard, SweepPlaces
<1> USE DEF IInv, TypeOK, OriginalKept, Holders, Knows, ItemAt, Recorded, Whole,
            TakesOriginal
<1>1. CASE LookForNote(p)
  BY <1>1, ConstantsOK DEF LookForNote, Goto, Stop, Returned, record, staging, catalog
<1>2. CASE GiveBack(p)
  BY <1>2, ConstantsOK DEF GiveBack, Goto, Stop, record, catalog
<1>3. CASE DropNote(p)
  BY <1>3, ConstantsOK DEF DropNote, Goto, Returned, record, catalog
<1>4. CASE LookForStrays(p)
  BY <1>4, ConstantsOK DEF LookForStrays, Goto, Stop, record, staging, catalog
<1>5. CASE Clear(p)
  BY <1>5, ConstantsOK DEF Clear, Goto, Stop, record, catalog, staging
<1>6. CASE Enter(p)
  BY <1>6, ConstantsOK DEF Enter, Restore, Stop, record, staging, catalog
<1>7. CASE LookAtRecord(p)
  BY <1>7, ConstantsOK DEF LookAtRecord, Goto, Restore, Stop, record, staging, catalog
<1>8. CASE OpenStaging(p)
  BY <1>8, ConstantsOK DEF OpenStaging, Goto, Stop, record, catalog
<1>9. CASE Build(p)
  BY <1>9, ConstantsOK DEF Build, Goto, Restore, record, catalog
<1>10. CASE PlaceSource(p)
  BY <1>10, ConstantsOK DEF PlaceSource, SourceIn, Goto, Restore, record, staging, catalog
<1>18. CASE RenameSource(p)
  BY <1>18, ConstantsOK DEF RenameSource, SourceIn, Goto, Restore, catalog
<1>11. CASE WriteNote(p)
  BY <1>11, ConstantsOK DEF WriteNote, Goto, Restore, record, catalog
<1>12. CASE MoveIn(p)
  BY <1>12, ConstantsOK DEF MoveIn, Goto, Restore, record, catalog
<1>13. CASE PlaceVersion(p)
  BY <1>13, ConstantsOK DEF PlaceVersion, Goto, Restore, catalog
<1>14. CASE Report(p)
  BY <1>14, ConstantsOK DEF Report, Goto, Restore, Stop, record, staging, catalog
<1>15. CASE HandOver(p)
  BY <1>15, ConstantsOK DEF HandOver, Goto, Stop, record, staging
<1>16. CASE Finish(p)
  BY <1>16, ConstantsOK DEF Finish, Restore, record, staging
<1>17. CASE Crash(p)
  BY <1>17, ConstantsOK DEF Crash, Stop, record, staging, catalog
<1> QED
  BY <1>1, <1>2, <1>3, <1>4, <1>5, <1>6, <1>7, <1>8, <1>9, <1>10, <1>11, <1>12,
     <1>13, <1>14, <1>15, <1>16, <1>17, <1>18 DEF Step

\* A step of p leaves what another process knows true: either the two are at
\* different items, or both are sweeps, which only put originals back.
LEMMA OthersKnow ==
    ASSUME IInv, NEW p \in Procs, Step(p) \/ Crash(p), NEW q \in Procs, q # p
    PROVE  Knows(q)'
<1> USE DEF Sound, Faulty, At, Discard, SweepPlaces
<1> USE DEF IInv, TypeOK, Exclusive, OriginalKept, Holders, Knows, ItemAt, Recorded,
            Whole, TakesOriginal
<1>1. CASE LookForNote(p)
  BY <1>1, ConstantsOK DEF LookForNote, Goto, Stop, record, staging, catalog
<1>2. CASE GiveBack(p)
  BY <1>2, ConstantsOK DEF GiveBack, Goto, Stop, record, catalog
<1>3. CASE DropNote(p)
  BY <1>3, ConstantsOK DEF DropNote, Goto, record, catalog
<1>4. CASE LookForStrays(p)
  BY <1>4, ConstantsOK DEF LookForStrays, Goto, Stop, record, staging, catalog
<1>5. CASE Clear(p)
  BY <1>5, ConstantsOK DEF Clear, Goto, Stop, record, catalog, staging
<1>6. CASE Enter(p)
  BY <1>6, ConstantsOK DEF Enter, Restore, Stop, record, staging, catalog
<1>7. CASE LookAtRecord(p)
  BY <1>7, ConstantsOK DEF LookAtRecord, Goto, Restore, Stop, record, staging, catalog
<1>8. CASE OpenStaging(p)
  BY <1>8, ConstantsOK DEF OpenStaging, Goto, Stop, record, catalog
<1>9. CASE Build(p)
  BY <1>9, ConstantsOK DEF Build, Goto, Restore, record, catalog
<1>10. CASE PlaceSource(p)
  BY <1>10, ConstantsOK DEF PlaceSource, SourceIn, Goto, Restore, record, staging, catalog
<1>18. CASE RenameSource(p)
  BY <1>18, ConstantsOK DEF RenameSource, SourceIn, Goto, Restore, catalog
<1>11. CASE WriteNote(p)
  BY <1>11, ConstantsOK DEF WriteNote, Goto, Restore, record, catalog
<1>12. CASE MoveIn(p)
  BY <1>12, ConstantsOK DEF MoveIn, Goto, Restore, record, catalog
<1>13. CASE PlaceVersion(p)
  BY <1>13, ConstantsOK DEF PlaceVersion, Goto, Restore, catalog
<1>14. CASE Report(p)
  BY <1>14, ConstantsOK DEF Report, Goto, Restore, Stop, record, staging, catalog
<1>15. CASE HandOver(p)
  BY <1>15, ConstantsOK DEF HandOver, Goto, Stop, record, staging
<1>16. CASE Finish(p)
  BY <1>16, ConstantsOK DEF Finish, Restore, record, staging
<1>17. CASE Crash(p)
  BY <1>17, ConstantsOK DEF Crash, Stop, record, staging, catalog
<1> QED
  BY <1>1, <1>2, <1>3, <1>4, <1>5, <1>6, <1>7, <1>8, <1>9, <1>10, <1>11, <1>12,
     <1>13, <1>14, <1>15, <1>16, <1>17, <1>18 DEF Step

-----------------------------------------------------------------------------
(* The environment's steps *)

LEMMA StartsInvariant ==
    ASSUME Races = {}, IInv,
           \/ \E w \in Workers, v \in Versions : StartRun(w, v)
           \/ \E s \in Sweepers, v \in Versions : Sweep(s, v)
    PROVE  Exclusive' /\ FoldersOK' /\ \A p \in Procs : Knows(p)'
<1> USE DEF IInv, TypeOK, At, ItemAt
<1>1. Exclusive'
  BY ConstantsOK DEF StartRun, Sweep, Exclusive, BusyOn
<1>2. UNCHANGED <<arrival, record, staging, catalog>>
  BY DEF StartRun, Sweep
<1>3. FoldersOK'
  BY <1>2 DEF FoldersOK, OriginalKept, Holders, StagedIsNoted, StagedTakes,
              RecordIsWhole, Whole, Recorded, record, staging, catalog
<1>4. ASSUME NEW p \in Procs PROVE Knows(p)'
  BY <1>2, ConstantsOK
     DEF StartRun, Sweep, Knows, Recorded, Whole, SweepPlaces, record, staging, catalog
<1> QED BY <1>1, <1>3, <1>4

LEMMA WorldInvariant ==
    ASSUME Races = {}, IInv,
           \/ \E v \in Versions : Age(v)
           \/ \E i \in Items : Refill(i) \/ OtherWriter(i)
           \/ UNCHANGED vars
    PROVE  Exclusive' /\ FoldersOK' /\ \A p \in Procs : Knows(p)'
<1> USE DEF IInv, TypeOK
<1>1. UNCHANGED <<pc, ver, then, placed, keeps, staged, noted, taken>>
  BY DEF Age, Refill, OtherWriter, vars, record, staging, catalog
<1>2. /\ arrival' \in [Items -> {"original", "other", "empty"}]
      /\ \A i \in Items : arrival'[i] = "original" <=> arrival[i] = "original"
      /\ \A i \in Items : Recorded(i) => Recorded(i)'
      /\ \A p \in Procs : pc[p] = "giveBack" =>
            arrival'[ItemAt(p)] = arrival[ItemAt(p)]
  BY ConstantsOK
     DEF Age, Refill, OtherWriter, Recorded, ItemAt, vars, record, staging, catalog
<1>3. Exclusive'
  BY <1>1 DEF Exclusive, ItemAt
<1>4. FoldersOK'
  BY <1>1, <1>2, ConstantsOK DEF FoldersOK, OriginalKept, Holders, StagedIsNoted,
                                StagedTakes, RecordIsWhole, Whole
<1>5. ASSUME NEW p \in Procs PROVE Knows(p)'
  BY <1>1, <1>2, ConstantsOK DEF Knows, Whole, ItemAt, SweepPlaces
<1> QED BY <1>3, <1>4, <1>5

\* The inductive invariant holds: the first states have it and every step of a
\* run, a sweep, or the world around them keeps it.
THEOREM Safety ==
    ASSUME Races = {}
    PROVE  Spec => []IInv
<1>1. Init /\ TypeOK => IInv
  BY ConstantsOK DEF Init, IInv, Exclusive, OriginalKept, Holders, StagedIsNoted,
                     StagedTakes, RecordIsWhole, Knows, SweepPlaces
<1>2. IInv /\ TypeOK' /\ [Next]_vars => IInv'
  <2> SUFFICES ASSUME IInv, TypeOK', [Next]_vars PROVE IInv'
    OBVIOUS
  <2>1. ASSUME NEW p \in Procs, Step(p) \/ Crash(p) PROVE IInv'
    <3>1. Exclusive' BY <2>1, StepExclusion DEF IInv
    <3>2. FoldersOK' BY <2>1, StepFolders
    <3>3. \A q \in Procs : Knows(q)' BY <2>1, StepKnows, OthersKnow
    <3> QED BY <3>1, <3>2, <3>3 DEF IInv, FoldersOK
  <2>2. CASE \/ \E w \in Workers, v \in Versions : StartRun(w, v)
             \/ \E s \in Sweepers, v \in Versions : Sweep(s, v)
    BY <2>2, StartsInvariant DEF IInv, FoldersOK
  <2>3. CASE \/ \E v \in Versions : Age(v)
             \/ \E i \in Items : Refill(i) \/ OtherWriter(i)
             \/ UNCHANGED vars
    BY <2>3, WorldInvariant DEF IInv, FoldersOK
  <2> QED BY <2>1, <2>2, <2>3 DEF Next
<1>3. QED BY <1>1, <1>2, TypeCorrect, PTL DEF Spec

\* No run, failure, crash or sweep loses an item's original or leaves it in two
\* places (move_original_in, restore_original, releasable).
THEOREM OriginalsAreKept ==
    ASSUME Races = {}
    PROVE  Spec => []OriginalKept
<1>1. IInv => OriginalKept BY DEF IInv
<1>2. QED BY <1>1, Safety, PTL

\* An original in a staging folder has the note of where it came from beside it,
\* whatever died and whenever: whoever comes next can put it back
\* (move_original_in writes it first, restore_original unlinks it last).
THEOREM StagedAlwaysNoted ==
    ASSUME Races = {}
    PROVE  Spec => []StagedIsNoted
<1>1. IInv => StagedIsNoted BY DEF IInv
<1>2. QED BY <1>1, Safety, PTL

\* What the record holds, and what the catalog was told of, is whole: the source
\* record is there and so is the original the version keeps (place last).
THEOREM RecordAlwaysWhole ==
    ASSUME Races = {}
    PROVE  Spec => []RecordIsWhole
<1>1. IInv => RecordIsWhole BY DEF IInv
<1>2. QED BY <1>1, Safety, PTL

-----------------------------------------------------------------------------
(* What no timing breaks *)

\* Nothing in the record is written over, even by runs and sweeps that race:
\* place's look refuses a target that is there and its rename one with anything
\* in it, so that a run replaces at most a folder another writer has just made
\* and left empty (place, _into_the_record).
THEOREM NothingWrittenOver == Spec => WrittenOnce
<1> DEFINE Kept ==
      /\ \A i \in Items :
            /\ Recorded(i) => source'[i] = source[i]
            /\ source[i] = "unfinished" => source'[i] \in {"unfinished", "theirs"}
            /\ source[i] = "empty" => source'[i] \in {"empty", "unfinished", "shared"}
      /\ \A v \in placed : v \in placed' /\ (v \in keeps' <=> v \in keeps)
<1>1. TypeOK /\ [Next]_vars => Kept
  <2> SUFFICES ASSUME TypeOK, [Next]_vars PROVE Kept
    OBVIOUS
  <2>1. ASSUME NEW p \in Procs, RenameSource(p) PROVE Kept
    BY <2>1 DEF RenameSource, Recorded, TypeOK
  <2>2. ASSUME NEW p \in Procs, PlaceVersion(p) PROVE Kept
    BY <2>2 DEF PlaceVersion, TypeOK
  <2>3. ASSUME NEW i \in Items, OtherWriter(i) PROVE Kept
    BY <2>3 DEF OtherWriter, Recorded, TypeOK
  <2>4. CASE UNCHANGED record
    BY <2>4 DEF record
  <2>5. UNCHANGED record \/ (\E p \in Procs : RenameSource(p) \/ PlaceVersion(p))
                         \/ (\E i \in Items : OtherWriter(i))
    BY DEF Next, Step, vars, StartRun, Sweep, Age, Refill, LookForNote, GiveBack,
           DropNote, LookForStrays, Clear, Enter, LookAtRecord, OpenStaging, Build,
           PlaceSource, RenameSource, WriteNote, MoveIn, Report, HandOver, Finish, Crash
  <2> QED BY <2>1, <2>2, <2>3, <2>4, <2>5
<1>2. Kept => [Kept]_vars
  OBVIOUS
<1>3. QED BY <1>1, TypeCorrect, PTL DEF Spec, WrittenOnce

\* Where a process is about to rename an original back no other file has come.
NothingAhead == \A p \in Procs : pc[p] = "giveBack" => arrival[ItemAt(p)] # "other"

LEMMA AheadStep ==
    ASSUME "refill" \notin Races, TypeOK, NothingAhead, [Next]_vars
    PROVE  NothingAhead'
<1> USE DEF TypeOK, NothingAhead, ItemAt, At, Goto, Stop, Restore, Discard
<1>1. ASSUME NEW p \in Procs, Step(p) \/ Crash(p) PROVE NothingAhead'
  <2>1. \A i \in Items : arrival'[i] = "other" => arrival[i] = "other"
    BY <1>1, ConstantsOK
       DEF Step, LookForNote, GiveBack, DropNote, LookForStrays, Clear, Enter,
           LookAtRecord, OpenStaging, Build, PlaceSource, RenameSource, WriteNote,
           MoveIn, PlaceVersion, Report, HandOver, Finish, Crash
  <2>2. \A q \in Procs \ {p} : pc'[q] = pc[q] /\ ver'[q] = ver[q]
    BY <1>1
       DEF Step, LookForNote, GiveBack, DropNote, LookForStrays, Clear, Enter,
           LookAtRecord, OpenStaging, Build, PlaceSource, RenameSource, WriteNote,
           MoveIn, PlaceVersion, Report, HandOver, Finish, Crash
  <2>3. pc'[p] = "giveBack" => ver'[p] = ver[p] /\ arrival'[ItemAt(p)] = "empty"
    BY <1>1
       DEF Step, LookForNote, GiveBack, DropNote, LookForStrays, Clear, Enter,
           LookAtRecord, OpenStaging, Build, PlaceSource, RenameSource, WriteNote,
           MoveIn, PlaceVersion, Report, HandOver, Finish, Crash, Returned, SourceIn
  <2> QED BY <2>1, <2>2, <2>3, ConstantsOK
<1>2. CASE \/ \E w \in Workers, v \in Versions : StartRun(w, v)
           \/ \E s \in Sweepers, v \in Versions : Sweep(s, v)
  BY <1>2 DEF StartRun, Sweep
<1>3. CASE \/ \E v \in Versions : Age(v)
           \/ \E i \in Items : OtherWriter(i)
           \/ UNCHANGED vars
  BY <1>3 DEF Age, OtherWriter, vars
<1>4. CASE \E i \in Items : Refill(i)
  BY <1>4 DEF Refill
<1> QED BY <1>1, <1>2, <1>3, <1>4 DEF Next

\* An original put back never replaces another file, as long as none comes in
\* the instant between the look and the rename (restore_original).
THEOREM OthersStay ==
    ASSUME "refill" \notin Races
    PROVE  Spec => OtherFilesStay
<1>1. Init => NothingAhead
  BY DEF Init, NothingAhead
<1>2. TypeOK /\ NothingAhead /\ [Next]_vars => NothingAhead'
  BY AheadStep
<1>3. TypeOK /\ NothingAhead /\ [Next]_vars =>
        \A i \in Items : arrival[i] = "other" => arrival'[i] = "other"
  <2> SUFFICES ASSUME TypeOK, NothingAhead, [Next]_vars, NEW i \in Items,
                      arrival[i] = "other"
               PROVE  arrival'[i] = "other"
    OBVIOUS
  <2>1. ASSUME NEW p \in Procs, GiveBack(p) PROVE arrival'[i] = "other"
    BY <2>1 DEF GiveBack, NothingAhead, TypeOK, At
  <2>2. ASSUME NEW p \in Procs, MoveIn(p) PROVE arrival'[i] = "other"
    BY <2>2 DEF MoveIn, TypeOK
  <2>3. \/ UNCHANGED arrival
        \/ \E p \in Procs : GiveBack(p) \/ MoveIn(p)
        \/ \E j \in Items : Refill(j)
    BY DEF Next, Step, vars, StartRun, Sweep, Age, OtherWriter, LookForNote,
           DropNote, LookForStrays, Clear, Enter, LookAtRecord, OpenStaging, Build,
           PlaceSource, RenameSource, WriteNote, PlaceVersion, Report, HandOver, Finish,
           Crash
  <2>4. ASSUME NEW j \in Items, Refill(j) PROVE arrival'[i] = "other"
    BY <2>4 DEF Refill, TypeOK
  <2> QED BY <2>1, <2>2, <2>3, <2>4
<1>4. QED BY <1>1, <1>2, <1>3, TypeCorrect, PTL DEF Spec, OtherFilesStay

\* A staging folder that holds an original is never removed while the sweep and
\* the runs keep out of each other's way (releasable before every removal).
THEOREM StagedNotRemoved ==
    ASSUME Races = {}
    PROVE  Spec => StagedNeverRemoved
<1>1. IInv /\ [Next]_vars => \A v \in staged : v \in opened'
  <2> SUFFICES ASSUME IInv, [Next]_vars PROVE staged \subseteq opened'
    OBVIOUS
  <2>1. ASSUME NEW p \in Procs, Clear(p) PROVE staged \subseteq opened'
    BY <2>1 DEF Clear, At, IInv, Knows, TypeOK, staging
  <2>2. opened \subseteq opened' \/ \E p \in Procs : Clear(p)
    BY DEF Next, Step, vars, staging, StartRun, Sweep, Age, Refill, OtherWriter,
           LookForNote, GiveBack, DropNote, LookForStrays, Enter, LookAtRecord,
           OpenStaging, Build, PlaceSource, RenameSource, PlaceVersion, WriteNote,
           MoveIn, Report, HandOver, Finish, Crash
  <2> QED BY <2>1, <2>2 DEF IInv, TypeOK
<1>2. QED BY <1>1, Safety, PTL DEF Spec, StagedNeverRemoved

-----------------------------------------------------------------------------
(* Refinement *)

\* The runs and sweeps implement the abstract record: each step of theirs is one
\* of its steps, or changes nothing it shows.
THEOREM Refinement ==
    ASSUME Races = {}
    PROVE  Spec => ImplementsRecord
<1> USE DEF TakesOriginal
<1>1. Init => Record!Init
  BY DEF Init, Record!Init, Recorded
<1>2. IInv /\ [Next]_vars => [Record!Next]_Record!vars
  <2> SUFFICES ASSUME IInv, [Next]_vars PROVE Record!Next \/ UNCHANGED Record!vars
    BY DEF Record!vars
  <2> USE DEF IInv, TypeOK
  <2>1. ASSUME NEW p \in Procs, GiveBack(p)
        PROVE  Record!PutBack(ver[p]) \/ UNCHANGED Record!vars
    BY <2>1 DEF GiveBack, record, catalog, Recorded, Record!PutBack, Record!vars
  <2>2. ASSUME NEW p \in Procs, Clear(p) PROVE UNCHANGED Record!vars
    BY <2>2 DEF Clear, At, Knows, record, staging, catalog, Recorded, Record!vars
  <2>3. ASSUME NEW p \in Procs, RenameSource(p)
        PROVE  Record!Describe(ItemAt(p)) \/ UNCHANGED Record!vars
    BY <2>3, ConstantsOK
       DEF RenameSource, ItemAt, catalog, Recorded, Record!Describe, Record!vars
  <2>4. ASSUME NEW p \in Procs, MoveIn(p)
        PROVE  Record!Lift(ver[p]) \/ UNCHANGED Record!vars
    <3>1. CASE staged' = staged \cup {ver[p]} /\ arrival[ItemAt(p)] = "original"
      <4>1. Holders(ItemAt(p)) = {}
        BY <2>4, <3>1, ConstantsOK DEF OriginalKept, ItemAt
      <4>2. Record!AtArrival(ItemAt(p))
        BY <4>1 DEF Record!AtArrival, Holders
      <4>3. ver[p] \notin placed
        BY <4>1, ConstantsOK, <2>4
           DEF RecordIsWhole, Whole, Holders, ItemAt, Knows, MoveIn, At
      <4> QED
        BY <2>4, <3>1, <4>2, <4>3
           DEF MoveIn, At, Knows, record, catalog, Recorded, ItemAt, Record!Lift
    <3>2. CASE UNCHANGED staged
      BY <2>4, <3>2 DEF MoveIn, record, catalog, Recorded, Record!vars
    <3> QED BY <2>4, <3>1, <3>2 DEF MoveIn
  <2>5. ASSUME NEW p \in Procs, PlaceVersion(p)
        PROVE  Record!Publish(ver[p]) \/ UNCHANGED Record!vars
    BY <2>5, ConstantsOK
       DEF PlaceVersion, At, Knows, StagedTakes, ItemAt, catalog, Recorded,
           Record!Publish, Record!vars
  <2>6. ASSUME NEW i \in Items, OtherWriter(i)
        PROVE  Record!Describe(i) \/ UNCHANGED Record!vars
    BY <2>6 DEF OtherWriter, staging, catalog, Recorded, Record!Describe, Record!vars
  <2>7. \/ UNCHANGED <<record, staged>>
        \/ \E p \in Procs : GiveBack(p) \/ Clear(p) \/ RenameSource(p) \/ MoveIn(p)
                            \/ PlaceVersion(p)
        \/ \E i \in Items : OtherWriter(i)
    BY DEF Next, Step, vars, staging, StartRun, Sweep, Age, Refill, LookForNote,
           DropNote, LookForStrays, Enter, LookAtRecord, OpenStaging, Build,
           PlaceSource, WriteNote, Report, HandOver, Finish, Crash
  <2>8. CASE UNCHANGED <<record, staged>>
    BY <2>8 DEF record, Recorded, Record!vars
  <2> QED
    BY <2>1, <2>2, <2>3, <2>4, <2>5, <2>6, <2>7, <2>8, ConstantsOK
       DEF Record!Next, ItemAt
<1>3. QED BY <1>1, <1>2, Safety, PTL DEF Spec, ImplementsRecord, Record!Spec
=============================================================================
