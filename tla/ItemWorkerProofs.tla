---------------------------- MODULE ItemWorkerProofs ----------------------------
(***************************************************************************)
(* Proofs about ItemWorker, for either layout, any failures and races, and *)
(* any number of builds, events and faults.                                *)
(***************************************************************************)
EXTENDS ItemWorker, SequenceTheorems, TLAPS

-----------------------------------------------------------------------------
(* The inductive invariant *)

\* From the guards to the handoff's removal, and all of a run past Resolve.
Working == {"inputs", "begin", "make", "handover", "refused", "done", "cleanup"}
Resolved == Working \cup {"guard"}

Transcoded == transcode \in {"done", "not_applicable"}

\* Both guards of the run were asked; in the store, nothing replaced it either.
Trusted == IF Layout = "library" THEN fresh /\ "blind" \notin slips ELSE Guarded

\* A status write can't be lost where the folder may be replaced.
Steadfast == Layout = "library" \/ "write" \notin Failures

\* What the transcoder found in the source is what its handoff is of.
HandoffFits ==
    /\ transcode = "done" => kind = "encode"
    /\ transcode = "not_applicable" => kind = "asIs"
    /\ kind = "asIs" => inbox = "none"
    /\ mode = "package" /\ transcode = "done" => inbox # "older"

\* A run's record is the item's, until a build replaces it.
RunKnows ==
    /\ pc \in Working => job = named
    /\ pc \in Resolved /\ fresh => named = mode
    /\ pc \in Resolved /\ Guarded => fresh
    /\ pc \in Working /\ fresh /\ "blind" \notin slips /\ mode = "package" => Transcoded

\* Its inputs are of its job, and those of the build of now if it may be trusted.
InputsFit ==
    pc \in {"begin", "make"} =>
        /\ using # "none"
        /\ job = "takein" <=> using = "takenIn"
        /\ job = "package" /\ kind = "asIs" => using = "original"
        /\ Steadfast /\ Trusted => using = Wanted

\* The library's folder of the version the record names holds what that
\* version's job makes, and the right input unless a guard went blind; what is
\* served of this build is what is in it.
VersionFits ==
    Layout = "library" =>
        /\ folder = "none" \/ (mode = "takein" <=> folder = "takenIn")
        /\ kind = "asIs" /\ mode = "package" => folder \in {"none", "original"}
        /\ "blind" \notin slips => folder \in {"none", Wanted}
        /\ pc = "handover" /\ fresh => folder # "none"
        /\ played = "encode" => folder = "encode"

\* A run goes on while its step is not done, and leaves no handoff behind a
\* step that is not.
StepFits ==
    /\ pc \in Working \ {"cleanup"} /\ Guarded => step[job] # "done"
    /\ pc = "cleanup" /\ fresh /\ ("lost" \notin slips \/ "write" \notin Failures)
           => step[job] = "done"
    /\ Steadfast /\ Layout = "store" /\ Guarded /\ mode = "package"
           /\ transcode = "done" /\ inbox = "none" => step["package"] = "done"

\* What is served when a run says done, and after it said so.
ServedFits ==
    Steadfast /\ Guarded =>
        /\ pc \in {"done", "cleanup"} => played = Wanted
        /\ pc = "handover" /\ Layout = "store" => played = Wanted
        /\ step[mode] = "done" => played = Wanted /\ (mode = "package" => transcode # "pending")

\* What becomes of the event at the head is said, or was lost.
Ended ==
    \/ step[job] \in {"done", "failed"}
    \/ /\ job = "package"
       /\ ~Transcoded \/ unsent \/ \E k \in 2..Len(events) : events[k] = job

OutcomeSaid ==
    /\ pc # "poll" => events # << >>
    /\ pc = "fail" /\ job = "takein" => "lost" \in slips
    /\ pc = "commit" /\ fresh /\ known /\ job = mode /\ "lost" \notin slips => Ended

IInv ==
    /\ TypeOK
    /\ HandoffFits /\ RunKnows /\ InputsFit /\ VersionFits
    /\ StepFits /\ ServedFits /\ OutcomeSaid

-----------------------------------------------------------------------------
(* Types *)

\* What a step may do to the counters.
LEMMA Counts ==
    ASSUME [Next]_vars
    PROVE  /\ faults' = faults \/ (faults < MaxFaults /\ faults' = faults + 1)
           /\ builds' = builds \/ (builds < MaxBuilds /\ builds' = builds + 1)
<1> USE DEF item, disk, run, Sound, Lost, Write, NewBuild
<1>1. CASE Worker \/ Crash
  BY <1>1 DEF Worker, Poll, Resolve, ReportFailure, Guard, PickInputs, MarkInProgress,
              Make, HandOver, Refuse, MarkDone, Cleanup, Commit, Crash
<1>2. CASE World
  BY <1>2 DEF World, Reencode, TakeInInstead, Transcode, Send, Retry, Remove
<1>3. CASE UNCHANGED vars
  BY <1>3 DEF vars
<1> QED BY <1>1, <1>2, <1>3 DEF Next

\* A step keeps the types; Head and Tail need the event that is being worked on.
LEMMA TypeKept == ASSUME TypeOK, OutcomeSaid, [Next]_vars PROVE TypeOK'
<1> DEFINE
      QueueOK == events \in Seq(Jobs) /\ job \in Jobs /\ named \in Jobs /\ mode \in Jobs
      ItemOK  == /\ known \in BOOLEAN /\ kind \in Kinds /\ unsent \in BOOLEAN
                 /\ step \in [Jobs -> Statuses]
                 /\ transcode \in {"pending", "done", "not_applicable", "failed"}
                 /\ inbox \in {"none", "encode", "older"}
      DiskOK  == folder \in Contents /\ played \in Contents /\ using \in Contents
      RunOK   == pc \in Places /\ fresh \in BOOLEAN /\ slips \subseteq Slips
<1>1. builds' \in 1..MaxBuilds /\ faults' \in 0..MaxFaults
  BY Counts, SettingOK DEF TypeOK
<1>2. CASE Worker \/ Crash
  <2> USE <1>2 DEF Worker, Poll, Resolve, ReportFailure, Guard, PickInputs, MarkInProgress,
          Make, HandOver, Refuse, MarkDone, Cleanup, Commit, Crash, Write,
          item, disk, run, Sound, Lost
  <2>1. QueueOK'
    BY HeadTailProperties DEF TypeOK, OutcomeSaid
  <2>2. ItemOK'
    <3>1. step' \in [Jobs -> Statuses]
      BY DEF TypeOK, Statuses
    <3> QED BY <3>1 DEF TypeOK
  <2>3. DiskOK'
    BY DEF TypeOK, Contents
  <2>4. RunOK'
    BY DEF TypeOK, Places, Slips
  <2> QED BY <1>1, <2>1, <2>2, <2>3, <2>4 DEF TypeOK
<1>3. CASE World
  <2> USE <1>3 DEF World, Reencode, TakeInInstead, Transcode, Send, Retry, Remove,
          NewBuild, Aged, item, disk, run
  <2>1. QueueOK'
    BY AppendProperties DEF TypeOK, Jobs
  <2>2. ItemOK'
    <3>1. step' \in [Jobs -> Statuses]
      BY DEF TypeOK, Statuses
    <3> QED BY <3>1 DEF TypeOK
  <2>3. DiskOK'
    BY DEF TypeOK, Contents
  <2>4. RunOK'
    BY DEF TypeOK, Places, Slips
  <2> QED BY <1>1, <2>1, <2>2, <2>3, <2>4 DEF TypeOK
<1>4. CASE UNCHANGED vars
  BY <1>4 DEF TypeOK, vars, item, disk, run
<1> QED BY <1>2, <1>3, <1>4 DEF Next

-----------------------------------------------------------------------------
(* The parts of the invariant, each with those it rests on *)

\* Only the transcoder leaves a handoff, and only a new build makes it old.
LEMMA HandoffFitsKept ==
    ASSUME TypeOK, HandoffFits, [Next]_vars
    PROVE  HandoffFits'
<1> USE SettingOK DEF item, disk, run, Jobs, Places, Working, Resolved, Transcoded
<1> USE DEF TypeOK, HandoffFits
<1>1. CASE Poll \/ Resolve \/ ReportFailure \/ Guard
  BY <1>1 DEF Poll, Resolve, ReportFailure, Guard, Sound, Lost
<1>2. CASE PickInputs \/ MarkInProgress \/ Make \/ HandOver
  BY <1>2 DEF PickInputs, MarkInProgress, Make, HandOver, Write, Sound, Lost
<1>3. CASE Refuse \/ MarkDone \/ Cleanup \/ Commit \/ Crash
  BY <1>3 DEF Refuse, MarkDone, Cleanup, Commit, Crash, Write, Sound, Lost
<1>4. CASE Reencode \/ TakeInInstead
  BY <1>4 DEF Reencode, TakeInInstead, NewBuild, Aged
<1>5. CASE Transcode \/ Send \/ Retry \/ Remove
  BY <1>5 DEF Transcode, Send, Retry, Remove
<1>6. CASE UNCHANGED vars
  BY <1>6 DEF vars
<1> QED BY <1>1, <1>2, <1>3, <1>4, <1>5, <1>6 DEF Next, Worker, World

\* Resolve makes a run fresh, a new build ends that; a transcode that is finished
\* stays so while it does.
LEMMA RunKnowsKept ==
    ASSUME TypeOK, HandoffFits, RunKnows, [Next]_vars
    PROVE  RunKnows'
<1> USE SettingOK DEF item, disk, run, Jobs, Places, Working, Resolved, Transcoded
<1> USE DEF TypeOK, HandoffFits, RunKnows, Guarded, OnlyAcked, Finished
<1>1. CASE Poll \/ Resolve \/ ReportFailure \/ Guard
  BY <1>1 DEF Poll, Resolve, ReportFailure, Guard, Sound, Lost
<1>2. CASE PickInputs \/ MarkInProgress \/ Make \/ HandOver
  BY <1>2 DEF PickInputs, MarkInProgress, Make, HandOver, Write, Sound, Lost
<1>3. CASE Refuse \/ MarkDone \/ Cleanup \/ Commit \/ Crash
  BY <1>3 DEF Refuse, MarkDone, Cleanup, Commit, Crash, Write, Sound, Lost
<1>4. CASE Reencode \/ TakeInInstead
  BY <1>4 DEF Reencode, TakeInInstead, NewBuild, Aged
<1>5. CASE Transcode \/ Send \/ Retry \/ Remove
  BY <1>5 DEF Transcode, Send, Retry, Remove
<1>6. CASE UNCHANGED vars
  BY <1>6 DEF vars
<1> QED BY <1>1, <1>2, <1>3, <1>4, <1>5, <1>6 DEF Next, Worker, World

\* A handoff that is gone fails the run in the library; in the store a step that
\* is not done still has its own.
LEMMA InputsFitKept ==
    ASSUME TypeOK, HandoffFits, RunKnows, StepFits, InputsFit, [Next]_vars
    PROVE  InputsFit'
<1> USE SettingOK DEF item, disk, run, Jobs, Places, Working, Resolved, Transcoded
<1> USE DEF TypeOK, HandoffFits, RunKnows, StepFits, InputsFit, Guarded, Trusted,
            Wanted, Steadfast, Contents
<1>1. CASE Poll \/ Resolve \/ ReportFailure \/ Guard
  BY <1>1 DEF Poll, Resolve, ReportFailure, Guard, Sound, Lost
<1>2. CASE PickInputs \/ MarkInProgress \/ Make \/ HandOver
  BY <1>2 DEF PickInputs, MarkInProgress, Make, HandOver, Write, Sound, Lost
<1>3. CASE Refuse \/ MarkDone \/ Cleanup \/ Commit \/ Crash
  BY <1>3 DEF Refuse, MarkDone, Cleanup, Commit, Crash, Write, Sound, Lost
<1>4. CASE Reencode \/ TakeInInstead
  BY <1>4 DEF Reencode, TakeInInstead, NewBuild, Aged
<1>5. CASE Transcode \/ Send \/ Retry \/ Remove
  BY <1>5 DEF Transcode, Send, Retry, Remove
<1>6. CASE UNCHANGED vars
  BY <1>6 DEF vars
<1> QED BY <1>1, <1>2, <1>3, <1>4, <1>5, <1>6 DEF Next, Worker, World

\* A version is made once, from the inputs of a run that is fresh.
LEMMA VersionFitsKept ==
    ASSUME TypeOK, HandoffFits, RunKnows, InputsFit, VersionFits, [Next]_vars
    PROVE  VersionFits'
<1> USE SettingOK DEF item, disk, run, Jobs, Places, Working, Resolved, Transcoded
<1> USE DEF TypeOK, HandoffFits, RunKnows, InputsFit, VersionFits, Guarded, Trusted,
            Wanted, Steadfast, Contents
<1>1. CASE Poll \/ Resolve \/ ReportFailure \/ Guard
  BY <1>1 DEF Poll, Resolve, ReportFailure, Guard, Sound, Lost
<1>2. CASE PickInputs \/ MarkInProgress \/ Make \/ HandOver
  BY <1>2 DEF PickInputs, MarkInProgress, Make, HandOver, Write, Sound, Lost
<1>3. CASE Refuse \/ MarkDone \/ Cleanup \/ Commit \/ Crash
  BY <1>3 DEF Refuse, MarkDone, Cleanup, Commit, Crash, Write, Sound, Lost
<1>4. CASE Reencode \/ TakeInInstead
  BY <1>4 DEF Reencode, TakeInInstead, NewBuild, Aged
<1>5. CASE Transcode \/ Send \/ Retry \/ Remove
  BY <1>5 DEF Transcode, Send, Retry, Remove
<1>6. CASE UNCHANGED vars
  BY <1>6 DEF vars
<1> QED BY <1>1, <1>2, <1>3, <1>4, <1>5, <1>6 DEF Next, Worker, World

\* A run's guards kept it from a finished step, and only such a run writes it.
LEMMA StepFitsKept ==
    ASSUME TypeOK, HandoffFits, RunKnows, StepFits, [Next]_vars
    PROVE  StepFits'
<1> USE SettingOK DEF item, disk, run, Jobs, Places, Working, Resolved, Transcoded
<1> USE DEF TypeOK, HandoffFits, RunKnows, StepFits, Guarded, OnlyAcked, Finished, Steadfast
<1>1. CASE Poll \/ Resolve \/ ReportFailure \/ Guard
  BY <1>1 DEF Poll, Resolve, ReportFailure, Guard, Sound, Lost
<1>2. CASE PickInputs \/ MarkInProgress \/ Make \/ HandOver
  BY <1>2 DEF PickInputs, MarkInProgress, Make, HandOver, Write, Sound, Lost
<1>3. CASE Refuse \/ MarkDone \/ Cleanup \/ Commit \/ Crash
  BY <1>3 DEF Refuse, MarkDone, Cleanup, Commit, Crash, Write, Sound, Lost
<1>4. CASE Reencode \/ TakeInInstead
  BY <1>4 DEF Reencode, TakeInInstead, NewBuild, Aged
<1>5. CASE Transcode \/ Send \/ Retry \/ Remove
  BY <1>5 DEF Transcode, Send, Retry, Remove
<1>6. CASE UNCHANGED vars
  BY <1>6 DEF vars
<1> QED BY <1>1, <1>2, <1>3, <1>4, <1>5, <1>6 DEF Next, Worker, World

\* What is served changes before done is said, not after.
LEMMA ServedFitsKept ==
    ASSUME TypeOK, HandoffFits, RunKnows, InputsFit, VersionFits, StepFits, ServedFits, [Next]_vars
    PROVE  ServedFits'
<1> USE SettingOK DEF item, disk, run, Jobs, Places, Working, Resolved, Transcoded
<1> USE DEF TypeOK, HandoffFits, RunKnows, InputsFit, VersionFits, StepFits, ServedFits,
            Guarded, Trusted, Wanted, Steadfast
<1>1. CASE Poll \/ Resolve \/ ReportFailure \/ Guard
  BY <1>1 DEF Poll, Resolve, ReportFailure, Guard, Sound, Lost
<1>2. CASE PickInputs \/ MarkInProgress \/ Make \/ HandOver
  BY <1>2 DEF PickInputs, MarkInProgress, Make, HandOver, Write, Sound, Lost
<1>3. CASE Refuse \/ MarkDone \/ Cleanup \/ Commit \/ Crash
  BY <1>3 DEF Refuse, MarkDone, Cleanup, Commit, Crash, Write, Sound, Lost
<1>4. CASE Reencode \/ TakeInInstead
  BY <1>4 DEF Reencode, TakeInInstead, NewBuild, Aged
<1>5. CASE Transcode \/ Send \/ Retry \/ Remove
  BY <1>5 DEF Transcode, Send, Retry, Remove
<1>6. CASE UNCHANGED vars
  BY <1>6 DEF vars
<1> QED BY <1>1, <1>2, <1>3, <1>4, <1>5, <1>6 DEF Next, Worker, World

\* Each way to the commit says what became of the event; a transcode that ends
\* meanwhile owes an event of its own.
LEMMA OutcomeSaidKept ==
    ASSUME TypeOK, HandoffFits, RunKnows, StepFits, OutcomeSaid, [Next]_vars
    PROVE  OutcomeSaid'
<1> USE SettingOK DEF item, disk, run, Jobs, Places, Working, Resolved, Transcoded
<1> USE DEF TypeOK, HandoffFits, RunKnows, StepFits, OutcomeSaid, OnlyAcked, Finished,
            Ended, Statuses
<1>1. CASE Poll \/ Resolve \/ ReportFailure \/ Guard
  BY <1>1 DEF Poll, Resolve, ReportFailure, Guard, Sound, Lost
<1>2. CASE PickInputs \/ MarkInProgress \/ Make \/ HandOver
  BY <1>2 DEF PickInputs, MarkInProgress, Make, HandOver, Write, Sound, Lost
<1>3. CASE Refuse \/ MarkDone \/ Cleanup \/ Commit \/ Crash
  BY <1>3 DEF Refuse, MarkDone, Cleanup, Commit, Crash, Write, Sound, Lost
<1>4. CASE Reencode \/ TakeInInstead
  BY <1>4 DEF Reencode, TakeInInstead, NewBuild, Aged
<1>5. CASE Transcode \/ Send \/ Retry \/ Remove
  BY <1>5 DEF Transcode, Send, Retry, Remove
<1>6. CASE UNCHANGED vars
  BY <1>6 DEF vars
<1> QED BY <1>1, <1>2, <1>3, <1>4, <1>5, <1>6 DEF Next, Worker, World

-----------------------------------------------------------------------------
(* The theorems *)

\* Whatever fails, dies or is reset, the parts of IInv hold together: what a run
\* knows at its place of its record, its inputs and the version it makes.
THEOREM Invariance == Spec => []IInv
<1>1. Init => IInv
  <2> SUFFICES ASSUME Init PROVE IInv
    OBVIOUS
  <2> USE SettingOK DEF Init
  <2>1. TypeOK
    <3>1. step \in [Jobs -> Statuses] /\ events \in Seq(Jobs)
      BY EmptySeq DEF Jobs, Statuses
    <3>2. /\ known \in BOOLEAN /\ unsent \in BOOLEAN /\ fresh \in BOOLEAN
          /\ mode \in Jobs /\ job \in Jobs /\ named \in Jobs /\ pc \in Places
      BY DEF Jobs, Places
    <3>3. builds \in 1..MaxBuilds /\ faults \in 0..MaxFaults
      OBVIOUS
    <3> QED BY <3>1, <3>2, <3>3 DEF TypeOK, Contents, Slips
  <2>2. HandoffFits /\ RunKnows /\ InputsFit /\ VersionFits /\ StepFits /\ ServedFits /\ OutcomeSaid
    BY DEF HandoffFits, RunKnows, InputsFit, VersionFits, StepFits, ServedFits, OutcomeSaid,
           Jobs, Working, Resolved
  <2> QED BY <2>1, <2>2 DEF IInv
<1>2. IInv /\ [Next]_vars => IInv'
  BY TypeKept, HandoffFitsKept, RunKnowsKept, InputsFitKept, VersionFitsKept, StepFitsKept,
     ServedFitsKept, OutcomeSaidKept DEF IInv
<1> QED BY <1>1, <1>2, PTL DEF Spec

\* A step that says done is of this build, for every run whose guards were
\* answered: in the library whatever is lost, in the store unless a status
\* write is.
THEOREM GuardedIsDone == ASSUME Steadfast PROVE Spec => []GuardedDone
<1>1. IInv => GuardedDone
  BY Steadfast DEF IInv, ServedFits, GuardedDone, DoneIsCurrent
<1> QED BY <1>1, Invariance, PTL

\* Where no read fails and no build replaces a running one, every run is guarded.
LEMMA AlwaysGuarded ==
    ASSUME "read" \notin Failures, Races = {} PROVE Spec => []Guarded
<1>1. Init => Guarded
  BY DEF Init, Guarded
<1>2. Guarded /\ [Next]_vars => Guarded'
  <2> SUFFICES ASSUME Guarded, [Next]_vars PROVE Guarded'
    OBVIOUS
  <2> USE DEF Guarded
  <2>1. CASE Worker \/ Crash
    BY <2>1 DEF Worker, Poll, Resolve, ReportFailure, Guard, PickInputs, MarkInProgress,
                Make, HandOver, Refuse, MarkDone, Cleanup, Commit, Crash, Write, Sound, Lost
  <2>2. CASE World
    BY <2>2 DEF World, Reencode, TakeInInstead, Transcode, Send, Retry, Remove, NewBuild, Quiet
  <2>3. CASE UNCHANGED vars
    BY <2>3 DEF vars
  <2> QED BY <2>1, <2>2, <2>3 DEF Next
<1> QED BY <1>1, <1>2, PTL DEF Spec

\* Under crashes alone (and lost status writes, in the library) what is said to be
\* done is this build's own, however stale the handovers that were consumed.
THEOREM DoneAlwaysCurrent ==
    ASSUME Steadfast, "read" \notin Failures, Races = {}
    PROVE  Spec => []DoneIsCurrent
<1>1. Guarded /\ GuardedDone => DoneIsCurrent
  BY DEF GuardedDone
<1> QED BY <1>1, GuardedIsDone, AlwaysGuarded, PTL

\* ... and a handoff is dropped when what is served was made of it.
THEOREM HandoffsUsed ==
    ASSUME Steadfast, "read" \notin Failures, Races = {}
    PROVE  Spec => HandoffUsed
<1>1. IInv /\ Guarded /\ [Next]_vars => [inbox' = "none" /\ inbox # "none" => played = inbox]_vars
  <2> SUFFICES ASSUME IInv, Guarded, Next, inbox' = "none", inbox # "none"
               PROVE  played = inbox
    OBVIOUS
  <2>1. CASE Cleanup
    BY <2>1 DEF Cleanup, IInv, TypeOK, HandoffFits, RunKnows, ServedFits, Working, Resolved,
                Transcoded, Wanted, Guarded, Jobs, Sound, Lost
  <2>2. CASE World
    BY <2>2 DEF World, Reencode, TakeInInstead, Transcode, Send, Retry, Remove, NewBuild, Aged, item
  <2>3. CASE (Worker \/ Crash) /\ ~Cleanup
    BY <2>3 DEF Worker, Poll, Resolve, ReportFailure, Guard, PickInputs, MarkInProgress, Make,
                HandOver, Refuse, MarkDone, Commit, Crash, item
  <2> QED BY <2>1, <2>2, <2>3 DEF Next
<1> QED BY <1>1, Invariance, AlwaysGuarded, PTL DEF Spec, HandoffUsed

\* In the library what is served changes in the handover of a fresh run alone.
LEMMA ServedSteps ==
    ASSUME Layout = "library", Next, played' # played, builds' = builds, TypeOK
    PROVE  pc = "handover" /\ fresh /\ played' = folder /\ UNCHANGED <<mode, kind>>
<1>1. CASE World
  BY <1>1 DEF World, Reencode, TakeInInstead, Transcode, Send, Retry, Remove, NewBuild, disk, TypeOK
<1>2. CASE HandOver
  BY <1>2 DEF HandOver, item
<1>3. CASE (Worker \/ Crash) /\ ~HandOver
  BY <1>3 DEF Worker, Poll, Resolve, ReportFailure, Guard, PickInputs, MarkInProgress, Make,
              Refuse, MarkDone, Cleanup, Commit, Crash, disk
<1> QED BY <1>1, <1>2, <1>3 DEF Next

\* In the library this build's package, once served, is not replaced by another,
\* though its event comes again and the guards go blind.
THEOREM ServedNotReplaced == ASSUME Layout = "library" PROVE Spec => ServedStays
<1>1. IInv /\ [Next]_vars => [played = Wanted /\ builds' = builds => played' = played]_vars
  <2> SUFFICES ASSUME IInv, Next, played = Wanted, builds' = builds, played' # played
               PROVE  FALSE
    OBVIOUS
  <2>1. pc = "handover" /\ fresh /\ played' = folder
    BY ServedSteps DEF IInv
  <2> QED BY <2>1, SettingOK DEF IInv, TypeOK, VersionFits, Wanted, Jobs
<1> QED BY <1>1, Invariance, PTL DEF Spec, ServedStays

\* In the library what the catalog takes is what the version's build asked for,
\* whichever builds replaced which while runs were going.
THEOREM ServedOnlyWanted == ASSUME Layout = "library" PROVE Spec => ServedIsWanted
<1>1. IInv /\ [Next]_vars =>
        [played' # played /\ builds' = builds /\ "blind" \notin slips => played' = Wanted]_vars
  <2> SUFFICES ASSUME IInv, Next, played' # played, builds' = builds, "blind" \notin slips
               PROVE  played' = Wanted
    OBVIOUS
  <2>1. pc = "handover" /\ fresh /\ played' = folder
    BY ServedSteps DEF IInv
  <2> QED BY <2>1 DEF IInv, VersionFits
<1> QED BY <1>1, Invariance, PTL DEF Spec, ServedIsWanted

\* No event is committed without a word of what became of it, but for the word
\* that was lost: in either layout, under every failure and race.
THEOREM WrittenSettles == Spec => WrittenIsSettled
<1>1. IInv => [Commits /\ "lost" \notin slips => Said]_vars
  BY DEF IInv, OutcomeSaid, Commits, Said, Ended, Transcoded
<1> QED BY <1>1, Invariance, PTL DEF WrittenIsSettled
=============================================================================
