--------------------------- MODULE ExtraWorkerProofs ---------------------------
(***************************************************************************)
(* Proofs about ExtraWorker, for any set of replicas and any number of     *)
(* builds, events, shutdowns and faults.                                   *)
(***************************************************************************)
EXTENDS ExtraWorker, TLAPS

\* The places of a run: an event is at hand.
Running == Places \ {"top", "poll"}

\* The extra is said to be over; nothing but another file changes that.
Settled == {"ready", "failed", "missing", "gone"}

\* The handoff is the one of the build's transcode, or none for a file that is
\* packaged as it is.
OwnHandoff == inbox = IF kind = "encode" THEN "encode" ELSE "none"

\* What a run knows at its place: what it picked, made and handed over.  One
\* whose extra was queued again knows nothing of the extra's state.
Knows ==
    /\ pc \in Running => events > 0
    /\ pc \in {"inputs", "begin", "make", "handover"} => state # "ready"
    /\ pc \in {"begin", "make"} => using # "none"
    /\ pc = "handover" => folder # "none"
    /\ pc = "done" => taken # "none" /\ folder = taken
    /\ pc \in {"done", "cleanup"} /\ "replaced" \notin slips => state \in Skipped
    /\ pc = "commit" /\ slips \cap OfRun = {} => state \in Settled

\* Once the build's own package is in the folder a run can only make it again:
\* its handoff is there until its extra is over, unless its record could not be
\* read.
HandoffKept ==
    "doubted" \notin slips =>
        /\ pc \in {"begin", "make"} /\ using = Wanted => OwnHandoff
        /\ folder = Wanted =>
              /\ state \notin Skipped => OwnHandoff
              /\ pc \in {"inputs", "begin", "make", "handover", "refused"} => OwnHandoff
              /\ pc \in {"begin", "make"} => using = Wanted
              /\ pc \in {"done", "cleanup"} => state \in Skipped

IInv == TypeOK /\ ReadyIsTaken /\ Knows /\ HandoffKept

-----------------------------------------------------------------------------
(* The inductive invariant *)

USE DEF Places, Running, Settled, Skipped, States, Contents, Loops, OwnHandoff, Wanted, OfRun

LEMMA InitInv == Init => IInv
<1> SUFFICES ASSUME Init PROVE IInv
  OBVIOUS
<1>1. TypeOK
  <2>1. /\ pod \in [Pods -> {"up", "stopping", "closed", "down"}]
        /\ loop \in [Pods -> SUBSET Loops]
    BY DEF Init
  <2>2. /\ events \in 0..MaxEvents /\ builds \in 1..MaxBuilds
        /\ stops \in 0..Stops /\ faults \in 0..MaxFaults
    BY ExtraAssumption DEF NoFault, Fault, Init
  <2> QED BY <2>1, <2>2 DEF Init, TypeOK
<1>2. ReadyIsTaken /\ Knows /\ HandoffKept
  BY DEF Init, ReadyIsTaken, Knows, HandoffKept
<1> QED BY <1>1, <1>2 DEF IInv

\* A step with a fault, or without one, keeps to the bounds.
LEMMA FaultType ==
    ASSUME TypeOK, NEW what, Fault(what) \/ NoFault
    PROVE  builds' \in 1..MaxBuilds /\ stops' \in 0..Stops /\ faults' \in 0..MaxFaults
BY ExtraAssumption DEF TypeOK, Fault, NoFault

\* The loop's steps.
LEMMA LoopInv == ASSUME IInv, Loop PROVE IInv'
<1> USE DEF At, Goto, Unmoved, Sound, Fails, Cut, record, disk, process
<1>1. CASE TopOfLoop
  <2>1. TypeOK'
    BY <1>1, ExtraAssumption DEF IInv, TypeOK, NoFault, TopOfLoop
  <2>2. ReadyIsTaken'
    BY <1>1 DEF NoFault, Fault, IInv, ReadyIsTaken, Knows, TopOfLoop
  <2>3. Knows'
    BY <1>1 DEF NoFault, Fault, IInv, TypeOK, Knows, HandoffKept, TopOfLoop
  <2>4. HandoffKept'
    BY <1>1 DEF NoFault, Fault, IInv, TypeOK, Knows, HandoffKept, TopOfLoop
  <2> QED BY <2>1, <2>2, <2>3, <2>4 DEF IInv
<1>2. CASE Poll
  <2>1. TypeOK'
    BY <1>2, ExtraAssumption DEF IInv, TypeOK, NoFault, Poll
  <2>2. ReadyIsTaken'
    BY <1>2 DEF NoFault, Fault, IInv, ReadyIsTaken, Knows, Poll
  <2>3. Knows'
    BY <1>2 DEF NoFault, Fault, IInv, TypeOK, Knows, HandoffKept, Poll
  <2>4. HandoffKept'
    BY <1>2 DEF NoFault, Fault, IInv, TypeOK, Knows, HandoffKept, Poll
  <2> QED BY <2>1, <2>2, <2>3, <2>4 DEF IInv
<1>3. CASE Resolve
  <2>1. TypeOK'
    <3>1. Fault("read") \/ NoFault
      BY <1>3 DEF Resolve
    <3>2. builds' \in 1..MaxBuilds /\ stops' \in 0..Stops /\ faults' \in 0..MaxFaults
      BY <3>1, FaultType DEF IInv
    <3>3. pc' \in Places /\ UNCHANGED <<record, disk, events, process, using, slips>>
      BY <1>3 DEF Resolve
    <3> QED
      BY <3>2, <3>3 DEF IInv, TypeOK
  <2>2. ReadyIsTaken'
    BY <1>3 DEF NoFault, Fault, IInv, ReadyIsTaken, Knows, Resolve
  <2>3. Knows'
    BY <1>3 DEF NoFault, Fault, IInv, TypeOK, Knows, HandoffKept, Resolve
  <2>4. HandoffKept'
    BY <1>3 DEF NoFault, Fault, IInv, TypeOK, Knows, HandoffKept, Resolve
  <2> QED BY <2>1, <2>2, <2>3, <2>4 DEF IInv
<1>4. CASE Report
  <2>1. TypeOK'
    <3>1. Fault("write") \/ NoFault
      BY <1>4 DEF Report
    <3>2. builds' \in 1..MaxBuilds /\ stops' \in 0..Stops /\ faults' \in 0..MaxFaults
      BY <3>1, FaultType DEF IInv
    <3>3. pc' \in Places /\ state' \in States /\ slips' \subseteq {"lost", "replaced", "doubted"}
      BY <1>4 DEF Report, IInv, TypeOK
    <3> QED
      BY <1>4, <3>2, <3>3 DEF IInv, TypeOK, Report
  <2>2. ReadyIsTaken'
    BY <1>4 DEF NoFault, Fault, IInv, ReadyIsTaken, Knows, Report
  <2>3. Knows'
    BY <1>4 DEF NoFault, Fault, IInv, TypeOK, Knows, HandoffKept, Report
  <2>4. HandoffKept'
    BY <1>4 DEF NoFault, Fault, IInv, TypeOK, Knows, HandoffKept, Report
  <2> QED BY <2>1, <2>2, <2>3, <2>4 DEF IInv
<1>5. CASE PickInputs
  <2>1. TypeOK'
    BY <1>5, ExtraAssumption DEF IInv, TypeOK, NoFault, PickInputs
  <2>2. ReadyIsTaken'
    BY <1>5 DEF NoFault, Fault, IInv, ReadyIsTaken, Knows, PickInputs
  <2>3. Knows'
    BY <1>5 DEF NoFault, Fault, IInv, TypeOK, Knows, HandoffKept, PickInputs
  <2>4. HandoffKept'
    BY <1>5 DEF NoFault, Fault, IInv, TypeOK, Knows, HandoffKept, PickInputs
  <2> QED BY <2>1, <2>2, <2>3, <2>4 DEF IInv
<1>6. CASE MarkInProgress
  <2>1. TypeOK'
    <3>1. Fault("write") \/ NoFault
      BY <1>6 DEF MarkInProgress, Write
    <3>2. builds' \in 1..MaxBuilds /\ stops' \in 0..Stops /\ faults' \in 0..MaxFaults
      BY <3>1, FaultType DEF IInv
    <3>3. state' \in States /\ slips' \subseteq {"lost", "replaced", "doubted"}
      BY <1>6 DEF IInv, TypeOK, MarkInProgress, Write, NoFault, Fault
    <3>4. pc' \in Places /\ UNCHANGED <<layout, kind, transcoded, inbox, disk, events,
                                      process, using>>
      BY <1>6 DEF MarkInProgress
    <3> QED BY <3>2, <3>3, <3>4 DEF IInv, TypeOK
  <2>2. ReadyIsTaken'
    BY <1>6 DEF NoFault, Fault, IInv, ReadyIsTaken, Knows, MarkInProgress, Write
  <2>3. Knows'
    BY <1>6 DEF NoFault, Fault, IInv, TypeOK, Knows, HandoffKept, MarkInProgress, Write
  <2>4. HandoffKept'
    BY <1>6 DEF NoFault, Fault, IInv, TypeOK, Knows, HandoffKept, MarkInProgress, Write
  <2> QED BY <2>1, <2>2, <2>3, <2>4 DEF IInv
<1>7. CASE Make
  <2>1. TypeOK'
    BY <1>7, ExtraAssumption DEF IInv, TypeOK, NoFault, Make
  <2>2. ReadyIsTaken'
    BY <1>7 DEF NoFault, Fault, IInv, ReadyIsTaken, Knows, Make
  <2>3. Knows'
    BY <1>7 DEF NoFault, Fault, IInv, TypeOK, Knows, HandoffKept, Make
  <2>4. HandoffKept'
    BY <1>7 DEF NoFault, Fault, IInv, TypeOK, Knows, HandoffKept, Make
  <2> QED BY <2>1, <2>2, <2>3, <2>4 DEF IInv
<1>8. CASE HandOver
  <2>1. TypeOK'
    <3>1. Fault("write") \/ NoFault
      BY <1>8 DEF HandOver
    <3>2. builds' \in 1..MaxBuilds /\ stops' \in 0..Stops /\ faults' \in 0..MaxFaults
      BY <3>1, FaultType DEF IInv
    <3>3. pc' \in Places /\ state' \in States /\ taken' \in Contents
      BY <1>8 DEF HandOver, IInv, TypeOK
    <3> QED
      BY <1>8, <3>2, <3>3 DEF IInv, TypeOK, HandOver
  <2>2. ReadyIsTaken'
    BY <1>8 DEF NoFault, Fault, IInv, ReadyIsTaken, Knows, HandOver
  <2>3. Knows'
    BY <1>8 DEF NoFault, Fault, IInv, TypeOK, Knows, HandoffKept, HandOver
  <2>4. HandoffKept'
    BY <1>8 DEF NoFault, Fault, IInv, TypeOK, Knows, HandoffKept, HandOver
  <2> QED BY <2>1, <2>2, <2>3, <2>4 DEF IInv
<1>9. CASE Refuse
  <2>1. TypeOK'
    <3>1. Fault("write") \/ NoFault
      BY <1>9 DEF Refuse, Write
    <3>2. builds' \in 1..MaxBuilds /\ stops' \in 0..Stops /\ faults' \in 0..MaxFaults
      BY <3>1, FaultType DEF IInv
    <3>3. state' \in States /\ slips' \subseteq {"lost", "replaced", "doubted"}
      BY <1>9 DEF IInv, TypeOK, Refuse, Write, NoFault, Fault
    <3>4. pc' \in Places /\ UNCHANGED <<layout, kind, transcoded, inbox, disk, events,
                                      process, using>>
      BY <1>9 DEF Refuse
    <3> QED BY <3>2, <3>3, <3>4 DEF IInv, TypeOK
  <2>2. ReadyIsTaken'
    BY <1>9 DEF NoFault, Fault, IInv, ReadyIsTaken, Knows, Refuse, Write
  <2>3. Knows'
    BY <1>9 DEF NoFault, Fault, IInv, TypeOK, Knows, HandoffKept, Refuse, Write
  <2>4. HandoffKept'
    BY <1>9 DEF NoFault, Fault, IInv, TypeOK, Knows, HandoffKept, Refuse, Write
  <2> QED BY <2>1, <2>2, <2>3, <2>4 DEF IInv
<1>10. CASE MarkDone
  <2>1. TypeOK'
    <3>1. Fault("write") \/ NoFault
      BY <1>10 DEF MarkDone, Write
    <3>2. builds' \in 1..MaxBuilds /\ stops' \in 0..Stops /\ faults' \in 0..MaxFaults
      BY <3>1, FaultType DEF IInv
    <3>3. state' \in States /\ slips' \subseteq {"lost", "replaced", "doubted"}
      BY <1>10 DEF IInv, TypeOK, MarkDone, Write, NoFault, Fault
    <3>4. pc' \in Places /\ UNCHANGED <<layout, kind, transcoded, inbox, disk, events,
                                      process, using>>
      BY <1>10 DEF MarkDone
    <3> QED BY <3>2, <3>3, <3>4 DEF IInv, TypeOK
  <2>2. ReadyIsTaken'
    BY <1>10 DEF NoFault, Fault, IInv, ReadyIsTaken, Knows, MarkDone, Write
  <2>3. Knows'
    BY <1>10 DEF NoFault, Fault, IInv, TypeOK, Knows, HandoffKept, MarkDone, Write
  <2>4. HandoffKept'
    BY <1>10 DEF NoFault, Fault, IInv, TypeOK, Knows, HandoffKept, MarkDone, Write
  <2> QED BY <2>1, <2>2, <2>3, <2>4 DEF IInv
<1>11. CASE Cleanup
  <2>1. TypeOK'
    BY <1>11, ExtraAssumption DEF IInv, TypeOK, NoFault, Cleanup
  <2>2. ReadyIsTaken'
    BY <1>11 DEF NoFault, Fault, IInv, ReadyIsTaken, Knows, Cleanup
  <2>3. Knows'
    BY <1>11 DEF NoFault, Fault, IInv, TypeOK, Knows, HandoffKept, Cleanup
  <2>4. HandoffKept'
    BY <1>11 DEF NoFault, Fault, IInv, TypeOK, Knows, HandoffKept, Cleanup
  <2> QED BY <2>1, <2>2, <2>3, <2>4 DEF IInv
<1>12. CASE Commit
  <2>1. TypeOK'
    <3>1. Fault("commit") \/ NoFault
      BY <1>12 DEF Commit
    <3>2. builds' \in 1..MaxBuilds /\ stops' \in 0..Stops /\ faults' \in 0..MaxFaults
      BY <3>1, FaultType DEF IInv
    <3>3. events' \in 0..MaxEvents
      BY <1>12, ExtraAssumption DEF Commit, IInv, TypeOK, Knows
    <3> QED
      BY <1>12, <3>2, <3>3 DEF IInv, TypeOK, Commit
  <2>2. ReadyIsTaken'
    BY <1>12 DEF NoFault, Fault, IInv, ReadyIsTaken, Knows, Commit
  <2>3. Knows'
    BY <1>12 DEF NoFault, Fault, IInv, TypeOK, Knows, HandoffKept, Commit
  <2>4. HandoffKept'
    BY <1>12 DEF NoFault, Fault, IInv, TypeOK, Knows, HandoffKept, Commit
  <2> QED BY <2>1, <2>2, <2>3, <2>4 DEF IInv
<1> QED
  BY <1>1, <1>2, <1>3, <1>4, <1>5, <1>6, <1>7, <1>8, <1>9, <1>10, <1>11, <1>12
     DEF Loop

\* The process's steps: the record and the folder stay; a run that is cut off
\* knows nothing any more.
LEMMA ProcessInv == ASSUME IInv, NEW p \in Pods, Process(p) PROVE IInv'
<1> USE DEF Unmoved, record, disk, history
<1>1. UNCHANGED <<record, disk, events>>
  BY DEF Process, Assign, Stop, CloseClients, Exit, Crash, Dies, Restart, ItemLoopEnds
<1>2. /\ pod' \in [Pods -> {"up", "stopping", "closed", "down"}]
      /\ loop' \in [Pods -> SUBSET Loops] /\ owner' \in Pods \cup {NoPod}
  BY DEF Process, Assign, Stop, CloseClients, Exit, Crash, Dies, Restart, ItemLoopEnds,
         IInv, TypeOK
<1>3. builds' \in 1..MaxBuilds /\ stops' \in 0..Stops /\ faults' \in 0..MaxFaults
  <2>1. CASE Stop(p)
    BY <2>1, ExtraAssumption DEF Stop, IInv, TypeOK
  <2>2. CASE Assign(p) \/ CloseClients(p) \/ Restart(p)
    BY <2>2 DEF Assign, CloseClients, Restart, IInv, TypeOK
  <2>3. CASE Exit(p) \/ Crash(p) \/ ItemLoopEnds(p)
    BY <2>3, FaultType DEF Exit, Crash, ItemLoopEnds, IInv
  <2> QED BY <2>1, <2>2, <2>3 DEF Process
<1>4. \/ UNCHANGED <<pc, using, slips>>
      \/ pc' = "top" /\ using' \in {using, "none"} /\ slips' \in {slips, slips \ OfRun}
  BY DEF Process, Assign, Stop, CloseClients, Exit, Crash, Dies, Restart, ItemLoopEnds
<1>5. TypeOK'
  <2>1. pc' \in Places /\ using' \in Contents /\ slips' \subseteq {"lost", "replaced", "doubted"}
    BY <1>4 DEF IInv, TypeOK
  <2> QED BY <1>1, <1>2, <1>3, <2>1 DEF IInv, TypeOK
<1>6. ReadyIsTaken'
  BY <1>1 DEF IInv, ReadyIsTaken
<1>7. Knows'
  BY <1>1, <1>4 DEF IInv, Knows
<1>8. HandoffKept'
  BY <1>1, <1>4 DEF IInv, HandoffKept
<1> QED BY <1>5, <1>6, <1>7, <1>8 DEF IInv

\* The world's: another file makes all there is, and what a run is at, the one
\* before's.
LEMMA WorldInv == ASSUME IInv, World PROVE IInv'
<1> USE DEF Still, record, disk, process
<1>1. CASE Transcode
  <2>1. TypeOK'
    BY <1>1, ExtraAssumption DEF IInv, TypeOK, Transcode
  <2>2. ReadyIsTaken' /\ Knows' /\ HandoffKept'
    BY <1>1, ExtraAssumption DEF IInv, TypeOK, ReadyIsTaken, Knows, HandoffKept, Transcode
  <2> QED BY <2>1, <2>2 DEF IInv
<1>2. CASE Resend
  <2>1. TypeOK'
    BY <1>2, ExtraAssumption DEF IInv, TypeOK, Resend
  <2>2. ReadyIsTaken' /\ Knows' /\ HandoffKept'
    BY <1>2, ExtraAssumption DEF IInv, TypeOK, ReadyIsTaken, Knows, HandoffKept, Resend
  <2> QED BY <2>1, <2>2 DEF IInv
<1>3. CASE Requeue
  <2>1. TypeOK'
    <3>1. builds' \in 1..MaxBuilds
      BY <1>3, ExtraAssumption DEF IInv, TypeOK, Requeue
    <3>2. /\ state' \in States /\ transcoded' \in BOOLEAN
          /\ inbox' \in {"none", "encode", "older"} /\ folder' \in Contents
          /\ taken' \in Contents /\ using' \in Contents
          /\ slips' \subseteq {"lost", "replaced", "doubted"}
      BY <1>3 DEF IInv, TypeOK, Requeue
    <3> QED BY <1>3, <3>1, <3>2 DEF IInv, TypeOK, Requeue
  <2>2. ReadyIsTaken' /\ HandoffKept'
    BY <1>3 DEF IInv, TypeOK, ReadyIsTaken, HandoffKept, Requeue
  <2>3. Knows'
    <3>1. CASE pc \in {"top", "poll"}
      BY <1>3, <3>1 DEF IInv, TypeOK, Knows, Requeue
    <3>2. CASE pc \notin {"top", "poll"}
      BY <1>3, <3>2 DEF IInv, TypeOK, Knows, Requeue
    <3> QED BY <3>1, <3>2
  <2> QED BY <2>1, <2>2, <2>3 DEF IInv
<1>4. CASE Vanish
  <2>1. TypeOK'
    BY <1>4, ExtraAssumption DEF IInv, TypeOK, Vanish
  <2>2. ReadyIsTaken' /\ Knows' /\ HandoffKept'
    BY <1>4 DEF IInv, TypeOK, ReadyIsTaken, Knows, HandoffKept, Vanish
  <2> QED BY <2>1, <2>2 DEF IInv
<1> QED BY <1>1, <1>2, <1>3, <1>4 DEF World

LEMMA StutterInv == ASSUME IInv, UNCHANGED vars PROVE IInv'
<1> USE DEF vars, record, disk, process, history
<1>1. TypeOK'
  BY DEF IInv, TypeOK
<1>2. ReadyIsTaken' /\ Knows' /\ HandoffKept'
  BY DEF IInv, ReadyIsTaken, Knows, HandoffKept
<1> QED BY <1>1, <1>2 DEF IInv

\* What every step of the loops, the processes and the world keeps: what a run
\* knows at its place, and that a handoff nobody packaged yet is kept.
THEOREM Invariance == Spec => []IInv
<1>1. IInv /\ [Next]_vars => IInv'
  BY LoopInv, ProcessInv, WorldInv, StutterInv DEF Next
<1> QED BY <1>1, InitInv, PTL DEF Spec

-----------------------------------------------------------------------------
(* The properties *)

\* An extra is ready only with the package in its folder that the catalog took
\* (HandOver), whatever call, answer or process is lost.
THEOREM ReadyOnlyTaken == Spec => []ReadyIsTaken
<1>1. IInv => ReadyIsTaken BY DEF IInv
<1> QED BY <1>1, Invariance, PTL

\* The build's own package is not replaced by one of the bare file, however
\* often its event is sent (Resolve's guards, Cleanup after the handover).
THEOREM ReadyNotReplaced == Spec => ReadyStays
<1>1. IInv /\ [Next]_vars =>
        [taken = Wanted /\ folder = Wanted /\ builds' = builds /\ "doubted" \notin slips
             => folder' = Wanted]_vars
  <2> SUFFICES ASSUME IInv, [Next]_vars, taken = Wanted, folder = Wanted, builds' = builds,
                      "doubted" \notin slips
               PROVE  folder' = Wanted
    BY DEF Wanted
  <2>1. CASE Make
    <3>1. using = Wanted
      BY <2>1 DEF Make, At, IInv, HandoffKept
    <3> QED BY <2>1, <3>1 DEF Make
  <2>2. CASE Requeue
    BY <2>2 DEF Requeue, IInv, TypeOK
  <2>3. CASE UNCHANGED <<folder, kind>>
    BY <2>3
  <2>4. Make \/ Requeue \/ UNCHANGED <<folder, kind>>
    BY DEF Next, Loop, TopOfLoop, Poll, Resolve, Report, PickInputs, MarkInProgress, HandOver,
           Refuse, MarkDone, Cleanup, Commit, Process, Assign, Stop, CloseClients, Exit, Crash,
           Dies, Restart, ItemLoopEnds, World, Transcode, Resend, Vanish, Unmoved, record, disk,
           vars
  <2> QED BY <2>1, <2>2, <2>3, <2>4
<1> QED BY <1>1, Invariance, PTL DEF Spec, ReadyStays

\* An event is committed with its extra's outcome said, but for a write that was
\* lost and an extra queued again meanwhile (every way through _handle_extra ends
\* in one).
THEOREM CommittedWhenSaid == Spec => CommittedIsSaid
<1>1. IInv /\ [Next]_vars =>
        [events' < events /\ slips \cap OfRun = {}
             => state \in {"ready", "failed", "missing", "gone"}]_vars
  <2> SUFFICES ASSUME IInv, [Next]_vars, events' < events, slips \cap OfRun = {}
               PROVE  state \in {"ready", "failed", "missing", "gone"}
    OBVIOUS
  <2>1. CASE Commit
    BY <2>1 DEF Commit, At, IInv, Knows
  <2>2. CASE events' = events
    BY <2>2 DEF IInv, TypeOK
  <2>3. CASE events' = events + 1
    BY <2>3 DEF IInv, TypeOK
  <2>4. Commit \/ events' = events \/ events' = events + 1
    BY DEF Next, Loop, TopOfLoop, Poll, Resolve, Report, PickInputs, MarkInProgress, Make,
           HandOver, Refuse, MarkDone, Cleanup, Process, Assign, Stop, CloseClients, Exit, Crash,
           Dies, Restart, ItemLoopEnds, World, Transcode, Resend, Requeue, Vanish, Unmoved, vars
  <2> QED BY <2>1, <2>2, <2>3, <2>4
<1> QED BY <1>1, Invariance, PTL DEF Spec, CommittedIsSaid
=============================================================================
