----------------------------- MODULE ExtraWorker -----------------------------
(***************************************************************************)
(* One extra (a trailer, a featurette) and the replicas that may package   *)
(* it: the consume loop of extras.py in the process of main.py, which      *)
(* starts it beside the item loop, answers the probes, and at a shutdown   *)
(* closes the HTTP clients before it waits for the loops.  An extra's      *)
(* events share one partition, so one replica's loop holds it at a time.   *)
(*                                                                         *)
(* Contents are named as in ItemWorker: "encode" is what the transcoder    *)
(* left for the build of now, "older" of one since replaced.               *)
(***************************************************************************)
EXTENDS Naturals

CONSTANTS
    Pods,        \* the replicas
    Layouts,     \* "store": package store v1; "library": library v2
    Kinds,       \* "encode": the transcoder encodes the file; "asIs": not
    Failures,    \* "crash", "read" (a GET), "write" (a PUT or POST), "commit"
    Stops,       \* how many shutdowns
    MaxBuilds, MaxEvents, MaxFaults   \* bounds

ASSUME ExtraAssumption ==
    /\ Pods # {} /\ Layouts # {} /\ Layouts \subseteq {"store", "library"}
    /\ Kinds # {} /\ Kinds \subseteq {"encode", "asIs"}
    /\ Failures \subseteq {"crash", "read", "write", "commit"}
    /\ Stops \in Nat /\ MaxFaults \in Nat
    /\ MaxBuilds \in Nat \ {0} /\ MaxEvents \in Nat \ {0}

NoPod == "nobody"

ASSUME NoPodAssumption == NoPod \notin Pods

VARIABLES
    layout,      \* whether the extra's record has a library block
    kind,        \* whether the transcoder finds something to encode
    state,       \* the extra's state in its record; "gone": removed
    transcoded,  \* the transcoder is past it
    inbox,       \* the transcoder's handoff
    folder,      \* the extra's package folder
    taken,       \* what the catalog took for its package
    events,      \* its transcoded events not committed yet
    pod,         \* replica -> "up", "stopping", "closed" or "down"
    loop,        \* replica -> "items", "extras": the consumer threads alive
    owner,       \* the replica that holds the partition
    pc, using,   \* ... where its loop is, the inputs it picked
    slips,       \* history: "lost", a write of this run; "replaced", its build
                 \* since it began; "doubted", see Report
    builds, stops, faults

record  == <<layout, kind, state, transcoded, inbox>>
disk    == <<folder, taken>>
process == <<pod, loop, owner>>
history == <<slips, builds, stops, faults>>
vars    == <<record, disk, events, process, pc, using, history>>

Contents == {"none", "original", "encode", "older"}
States   == {"queued", "packaging", "failed", "ready", "missing", "gone"}
Loops    == {"items", "extras"}
Places   == {"top", "poll", "resolve", "unexpected", "inputs", "begin", "make",
             "handover", "refused", "done", "cleanup", "commit"}

TypeOK ==
    /\ layout \in Layouts /\ kind \in Kinds /\ state \in States /\ transcoded \in BOOLEAN
    /\ inbox \in {"none", "encode", "older"}
    /\ folder \in Contents /\ taken \in Contents
    /\ events \in 0..MaxEvents
    /\ pod \in [Pods -> {"up", "stopping", "closed", "down"}]
    /\ loop \in [Pods -> SUBSET Loops]
    /\ owner \in Pods \cup {NoPod}
    /\ pc \in Places /\ using \in Contents
    /\ slips \subseteq {"lost", "replaced", "doubted"}
    /\ builds \in 1..MaxBuilds /\ stops \in 0..Stops /\ faults \in 0..MaxFaults

Init ==
    /\ layout \in Layouts /\ kind \in Kinds /\ state = "queued" /\ transcoded = FALSE
    /\ inbox = "none" /\ folder = "none" /\ taken = "none" /\ events = 0
    /\ pod = [p \in Pods |-> "up"] /\ loop = [p \in Pods |-> Loops]
    /\ owner = NoPod /\ pc = "top" /\ using = "none"
    /\ slips = {} /\ builds = 1 /\ stops = 0 /\ faults = 0

-----------------------------------------------------------------------------
(* Failures *)

\* A closed client raises at every call.
Cut == pod[owner] = "closed"

Fault(what) ==
    /\ what \in Failures /\ faults < MaxFaults
    /\ faults' = faults + 1 /\ UNCHANGED <<builds, stops>>
NoFault == UNCHANGED <<builds, stops, faults>>
Sound   == UNCHANGED slips /\ NoFault

\* A call fails: its client is closed, or by itself.
Fails(what) == (Cut /\ NoFault) \/ Fault(what)

\* What is only about the run in hand.
OfRun == {"lost", "replaced"}

\* upsert_extra_step: the catalog moves the extra's state with the step; best
\* effort, a failure is swallowed.
Write(to) ==
    \/ ~Cut /\ Sound /\ state' = (IF state = "gone" THEN "gone" ELSE to)
    \/ Fails("write") /\ slips' = slips \cup {"lost"} /\ UNCHANGED state

-----------------------------------------------------------------------------
(* run_extras_worker, _handle_extra *)

At(place) == owner # NoPod /\ pc = place
Goto(place) == pc' = place /\ UNCHANGED process
Unmoved == UNCHANGED <<record, disk, events>>

\* The stop event is looked at between two polls: the loop ends, its consumer
\* is closed and the partition is free.
TopOfLoop ==
    /\ At("top") /\ Unmoved /\ UNCHANGED using
    /\ slips' = slips \ OfRun /\ NoFault
    /\ \/ pod[owner] = "up" /\ Goto("poll")
       \/ /\ pod[owner] # "up"
          /\ loop' = [loop EXCEPT ![owner] = @ \ {"extras"}]
          /\ owner' = NoPod /\ UNCHANGED <<pod, pc>>

\* A message that comes while the process stops is taken all the same.
Poll ==
    /\ At("poll") /\ Unmoved /\ Sound /\ UNCHANGED using
    /\ \/ events > 0 /\ Goto("resolve")
       \/ events = 0 /\ pod[owner] # "up" /\ Goto("top")

Skipped == {"gone", "missing", "ready"}

\* Mutant of Resolve: an extra is packaged whatever its state.
ResolveUnguarded ==
    /\ At("resolve") /\ Unmoved /\ UNCHANGED using
    /\ \/ ~Cut /\ Sound /\ Goto(IF state \in {"gone", "missing"} THEN "commit" ELSE "inputs")
       \/ Fails("read") /\ UNCHANGED slips /\ Goto("unexpected")

\* get_extra and the guards: 404 (or removed), missing, finished.
Resolve ==
    /\ At("resolve") /\ Unmoved /\ UNCHANGED using
    /\ \/ ~Cut /\ Sound /\ Goto(IF state \in Skipped THEN "commit" ELSE "inputs")
       \/ Fails("read") /\ UNCHANGED slips /\ Goto("unexpected")

\* What _handle_extra raised fails the step -- that of an extra that is ready
\* or missing too, when it was the record of such a one that was not read.
Report ==
    /\ At("unexpected") /\ Goto("commit") /\ UNCHANGED <<using, disk, events>>
    /\ UNCHANGED <<layout, kind, transcoded, inbox>>
    /\ \/ ~Cut /\ state' = (IF state = "gone" THEN "gone" ELSE "failed")
          /\ slips' = (IF state \in Skipped THEN slips \cup {"doubted"} ELSE slips)
          /\ NoFault
       \/ Fails("write") /\ slips' = slips \cup {"lost"} /\ UNCHANGED state

-----------------------------------------------------------------------------
(* _process_extra, _process_extra_library *)

\* A library block that can't be worked from, no parent, no path, a handoff
\* that can't be read, a file that is gone: refused; else the handoff's
\* renditions, or the file as it is.
PickInputs ==
    /\ At("inputs") /\ Unmoved /\ Sound
    /\ \/ Goto("refused") /\ UNCHANGED using
       \/ Goto("begin") /\ using' = IF inbox = "none" THEN "original" ELSE inbox

MarkInProgress ==
    /\ At("begin") /\ Goto("make") /\ Write("packaging")
    /\ UNCHANGED <<layout, kind, transcoded, inbox, disk, events, using>>

\* package_item swaps the package in; package_extra places one where there is
\* none, and reports the one that is there; either may raise.
Make ==
    /\ At("make") /\ Sound /\ UNCHANGED <<record, taken, events, using>>
    /\ \/ Goto("refused") /\ UNCHANGED folder
       \/ Goto("handover")
          /\ folder' = IF layout = "store" \/ folder = "none" THEN using ELSE folder

\* Mutant of HandOver: done whatever the catalog answers, as an item's is.
HandOverAnyway ==
    /\ At("handover") /\ UNCHANGED <<layout, kind, transcoded, inbox, folder, events, using>>
    /\ \/ ~Cut /\ Sound /\ Goto("done") /\ taken' = folder
          /\ state' = (IF state = "gone" THEN "gone" ELSE "ready")
       \/ Fails("write") /\ UNCHANGED <<slips, taken, state>> /\ Goto("done")

\* extra_packaging_complete: taken, the extra is ready; otherwise the run is
\* failed, though the catalog may have taken it and its answer be lost.
HandOver ==
    /\ At("handover") /\ UNCHANGED <<layout, kind, transcoded, inbox, folder, events, using>>
    /\ \/ ~Cut /\ Sound /\ Goto("done") /\ taken' = folder
          /\ state' = (IF state = "gone" THEN "gone" ELSE "ready")
       \/ Fails("write") /\ UNCHANGED slips /\ Goto("refused")
          /\ \/ UNCHANGED <<taken, state>>
             \/ ~Cut /\ taken' = folder
                /\ state' = (IF state = "gone" THEN "gone" ELSE "ready")

\* Mutant of Refuse: an early return that says nothing.
RefuseQuietly ==
    /\ At("refused") /\ Goto("commit") /\ Sound
    /\ UNCHANGED <<record, disk, events, using>>

Refuse ==
    /\ At("refused") /\ Goto("commit") /\ Write("failed")
    /\ UNCHANGED <<layout, kind, transcoded, inbox, disk, events, using>>

MarkDone ==
    /\ At("done") /\ Goto("cleanup") /\ Write("ready")
    /\ UNCHANGED <<layout, kind, transcoded, inbox, disk, events, using>>

\* _cleanup_inbox, library.finish: best effort.
Cleanup ==
    /\ At("cleanup") /\ Goto("commit") /\ Sound
    /\ inbox' \in {inbox, "none"}
    /\ UNCHANGED <<layout, kind, state, transcoded, disk, events, using>>

\* commit raises out of the loop: the thread ends, its consumer is closed.
Commit ==
    /\ At("commit") /\ UNCHANGED <<record, disk>> /\ using' = "none"
    /\ \/ Sound /\ events' = events - 1 /\ Goto("top")
       \/ Fault("commit") /\ UNCHANGED <<slips, events, pod>>
          /\ loop' = [loop EXCEPT ![owner] = @ \ {"extras"}]
          /\ owner' = NoPod /\ pc' = "top"

Loop ==
    \/ TopOfLoop \/ Poll \/ Resolve \/ Report \/ PickInputs \/ MarkInProgress
    \/ Make \/ HandOver \/ Refuse \/ MarkDone \/ Cleanup \/ Commit

-----------------------------------------------------------------------------
(* main *)

\* Kafka gives the partition to a replica whose loop is alive.
Assign(p) ==
    /\ owner = NoPod /\ "extras" \in loop[p]
    /\ owner' = p /\ pc' = "top"
    /\ Unmoved /\ UNCHANGED <<pod, loop, using, history>>

\* SIGTERM: uvicorn returns and the stop event is set ...
Stop(p) ==
    /\ pod[p] = "up" /\ stops < Stops /\ stops' = stops + 1
    /\ pod' = [pod EXCEPT ![p] = "stopping"]
    /\ Unmoved /\ UNCHANGED <<loop, owner, pc, using, slips, builds, faults>>

\* ... the clients are closed ...
CloseClients(p) ==
    /\ pod[p] = "stopping" /\ pod' = [pod EXCEPT ![p] = "closed"]
    /\ Unmoved /\ UNCHANGED <<loop, owner, pc, using, history>>

\* The threads are daemons: they end with the process, wherever they are.
Dies(p) ==
    /\ pod' = [pod EXCEPT ![p] = "down"] /\ loop' = [loop EXCEPT ![p] = {}]
    /\ IF owner = p
       THEN owner' = NoPod /\ pc' = "top" /\ using' = "none"
       ELSE UNCHANGED <<owner, pc, using>>
    /\ slips' = (IF owner = p THEN slips \ OfRun ELSE slips)
    /\ Unmoved

\* ... and the loops waited for, ten seconds each.
Exit(p) == pod[p] = "closed" /\ Dies(p) /\ NoFault

Crash(p) == pod[p] # "down" /\ Dies(p) /\ Fault("crash")

Restart(p) ==
    /\ pod[p] = "down"
    /\ pod' = [pod EXCEPT ![p] = "up"] /\ loop' = [loop EXCEPT ![p] = Loops]
    /\ Unmoved /\ UNCHANGED <<owner, pc, using, history>>

\* The item loop ends: its stop, or its own commit raised (run_worker).
ItemLoopEnds(p) ==
    /\ "items" \in loop[p]
    /\ loop' = [loop EXCEPT ![p] = @ \ {"items"}]
    /\ \/ pod[p] # "up" /\ NoFault
       \/ pod[p] = "up" /\ Fault("commit")
    /\ Unmoved /\ UNCHANGED <<pod, owner, pc, using, slips>>

\* Mutant of Ready: the readiness of before the extras' thread.
ReadyItems(p) == pod[p] \in {"up", "stopping"} /\ "items" \in loop[p]

\* What readyz says: "ok" in its body when both threads are alive.  Its status
\* is 200 either way, and healthz says ok as long as the process does: a probe
\* that reads no more than the status sees no dead thread.
Ready(p) == pod[p] \in {"up", "stopping"} /\ loop[p] = Loops

Process(p) ==
    \/ Assign(p) \/ Stop(p) \/ CloseClients(p) \/ Exit(p) \/ Crash(p)
    \/ Restart(p) \/ ItemLoopEnds(p)

-----------------------------------------------------------------------------
(* The transcoder and the catalog *)

Still == UNCHANGED <<process, pc, using, stops, faults>>

\* The transcoder clears the inbox, leaves its handoff, moves the extra on and
\* sends its event, whatever a run made of the extra since it was queued.
Transcode ==
    /\ state \notin {"gone", "missing"} /\ ~transcoded /\ events < MaxEvents
    /\ transcoded' = TRUE /\ events' = events + 1
    /\ inbox' = IF kind = "encode" THEN "encode" ELSE "none"
    /\ UNCHANGED <<layout, kind, state, disk, slips, builds>> /\ Still

\* A trigger that reaches the transcoder again: the event is sent again, for
\* a state the catalog retries, or twice for any other.
Resend ==
    /\ transcoded /\ state # "gone" /\ events < MaxEvents /\ events' = events + 1
    /\ UNCHANGED <<record, disk, slips, builds>> /\ Still

\* The extra is queued again with another file, whatever events of the one before
\* are left and wherever a run of it is: extras.py has no guard for that.
\* In the library its folder is never written over: no second build there.
Requeue ==
    LET before(content) == IF content = "none" THEN "none" ELSE "older" IN
    /\ layout = "store" /\ builds < MaxBuilds /\ state # "gone"
    /\ builds' = builds + 1 /\ state' = "queued" /\ transcoded' = FALSE
    /\ inbox' = before(inbox) /\ folder' = before(folder)
    /\ taken' = before(taken) /\ using' = before(using)
    /\ slips' = IF pc \in {"top", "poll"} THEN {} ELSE (slips \cap OfRun) \cup {"replaced"}
    /\ UNCHANGED <<layout, kind, events, process, pc, stops, faults>>

\* The scanner finds the file gone; the extra is removed.
Vanish ==
    /\ state \notin {"gone", "missing"} /\ state' \in {"missing", "gone"}
    /\ UNCHANGED <<layout, kind, transcoded, inbox, disk, events, slips, builds>> /\ Still

World == Transcode \/ Resend \/ Requeue \/ Vanish

Next == Loop \/ (\E p \in Pods : Process(p)) \/ World

Spec == Init /\ [][Next]_vars

\* The loop that holds the partition takes its next step, and Kafka assigns it.
FairSpec == Spec /\ WF_vars(Loop) /\ WF_vars(\E p \in Pods : Assign(p))

-----------------------------------------------------------------------------
(* Properties *)

Wanted == IF kind = "encode" THEN "encode" ELSE "original"

\* Only the catalog's word makes an extra playable (extras.py:46-49): one that
\* is ready has in its folder the very package the catalog took, whatever call,
\* answer or process was lost on the way and whoever sent its event again.
ReadyIsTaken == state = "ready" => taken # "none" /\ folder = taken

\* ... and that package stays the one of the build's own handoff: no event sent
\* again replaces it by a package of the bare file once the handoff is dropped
\* -- unless the record of a finished extra could not be read, which fails it.
ReadyStays ==
    [][taken = Wanted /\ folder = Wanted /\ builds' = builds /\ "doubted" \notin slips
           => folder' = Wanted]_vars

\* An offset is committed with the extra's outcome said (extras.py:350-353),
\* but for a write that was lost, to a failure or to the closed client, and for
\* an extra queued again during the run, which has its own event coming.
CommittedIsSaid ==
    [][events' < events /\ slips \cap OfRun = {} =>
           state \in {"ready", "failed", "missing", "gone"}]_vars

\* While the body of some replica's readyz says ok, the extra's events get worked
\* through: no loop is dead of which it does not tell (its status, the only thing
\* readinessProbe reads, tells of none).
ReadyWorks ==
    []<>((\E p \in Pods : Ready(p))
            => events = 0 \/ state \notin {"queued", "packaging"})
=============================================================================
