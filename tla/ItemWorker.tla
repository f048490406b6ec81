------------------------------ MODULE ItemWorker ------------------------------
(***************************************************************************)
(* One item on its way through the worker's loop (worker.py, with the      *)
(* catalog calls of katalog.py): an event is polled, the item resolved and *)
(* guarded, its inputs picked, packaged or taken in, handed over, its step *)
(* written, its handoff dropped, the offset committed.  Around it the      *)
(* transcoder, the catalog's resets and retries, Kafka's redelivery, and   *)
(* the calls the worker's own code lets fail without a word.               *)
(*                                                                         *)
(* What a handoff, a folder or a version holds is named by what it means   *)
(* to the item's build of now: "encode" is that build's own, "older" one   *)
(* of a build since replaced.                                              *)
(***************************************************************************)
EXTENDS Naturals, Sequences

CONSTANTS
    Layout,      \* "store": package store v1; "library": library v2
    Kinds,       \* "encode": the transcoder encodes the source; "asIs": not
    Failures,    \* what may fail: "crash", "read" (a GET), "write"
    Races,       \* {"rebuild"}: the catalog resets the item during a run
    MaxBuilds, MaxEvents, MaxFaults   \* bounds

Jobs == {"package", "takein"}
Finished == {"done", "not_applicable", "skipped"}

ASSUME SettingOK ==
    /\ Layout \in {"store", "library"}
    /\ Kinds # {} /\ Kinds \subseteq {"encode", "asIs"}
    /\ Failures \subseteq {"crash", "read", "write"}
    /\ Races \subseteq {"rebuild"}
    /\ MaxBuilds \in Nat \ {0} /\ MaxEvents \in Nat \ {0} /\ MaxFaults \in Nat

VARIABLES
    known,       \* the catalog still has the item
    kind,        \* whether the transcoder finds something to encode
    mode,        \* the job the worker record names
    transcode,   \* the transcoder's step
    step,        \* job -> its step's status
    inbox,       \* the handoff in the item's inbox
    folder,      \* v1: the package; v2: the version folder the record names
    played,      \* what the catalog serves: v1 reads the folder as it is
    unsent,      \* the transcoder's step ended, its event is still to be sent
    events,      \* the item's events, in partition order, not committed
    pc,
    job,         \* the polled event's job
    named,       \* the mode in the record the worker resolved
    fresh,       \* ... which is still the record of now
    using,       \* the inputs picked
    slips,       \* history: what this build's runs went past (see Slips)
    builds, faults

item    == <<known, kind, mode, transcode, step, inbox, unsent>>
disk    == <<folder, played>>
run     == <<job, named, fresh, using>>
vars    == <<item, disk, events, pc, run, slips, builds, faults>>

Contents == {"none", "original", "encode", "older", "takenIn"}
Statuses == {"none", "pending", "in_progress", "done", "failed"}

\* blind: a guard was passed without the statuses; reset: the build was asked
\* for during a run; lost: the write that says what became of the event was.
Slips    == {"blind", "reset", "lost"}
Places   == {"poll", "resolve", "fail", "guard", "inputs", "begin", "make",
             "handover", "refused", "done", "cleanup", "commit"}

TypeOK ==
    /\ known \in BOOLEAN /\ kind \in Kinds /\ mode \in Jobs
    /\ transcode \in {"pending", "done", "not_applicable", "failed"}
    /\ step \in [Jobs -> Statuses]
    /\ inbox \in {"none", "encode", "older"}
    /\ folder \in Contents /\ played \in Contents
    /\ unsent \in BOOLEAN
    /\ events \in Seq(Jobs)
    /\ pc \in Places /\ job \in Jobs /\ named \in Jobs /\ fresh \in BOOLEAN
    /\ using \in Contents /\ slips \subseteq Slips
    /\ builds \in 1..MaxBuilds /\ faults \in 0..MaxFaults

\* A title asked for: its transcode waits.
Init ==
    /\ known = TRUE /\ kind \in Kinds /\ mode = "package"
    /\ transcode = "pending"
    /\ step = [j \in Jobs |-> IF j = "package" THEN "pending" ELSE "none"]
    /\ inbox = "none" /\ folder = "none" /\ played = "none"
    /\ unsent = FALSE /\ events = << >>
    /\ pc = "poll" /\ job = "package" /\ named = "package"
    /\ fresh = TRUE /\ using = "none" /\ slips = {}
    /\ builds = 1 /\ faults = 0

-----------------------------------------------------------------------------
(* Failures *)

Sound == UNCHANGED <<slips, faults>>
Lost(what, slip) ==
    /\ what \in Failures /\ faults < MaxFaults
    /\ faults' = faults + 1 /\ slips' = slips \cup slip

\* upsert_step: best effort, a failure is swallowed.
Write(j, status) ==
    \/ Sound /\ step' = [step EXCEPT ![j] = status]
    \/ Lost("write", {"lost"}) /\ UNCHANGED step

-----------------------------------------------------------------------------
(* _handle_message: resolve and guards *)

Poll ==
    /\ pc = "poll" /\ events # << >>
    /\ slips' = slips \ {"lost"} /\ UNCHANGED faults
    /\ pc' = "resolve" /\ job' = Head(events)
    /\ UNCHANGED <<item, disk, events, named, fresh, using, builds>>

\* get_item: 404 is acked; no answer raises, out of _handle_message.
Resolve ==
    /\ pc = "resolve"
    /\ \/ ~known /\ Sound /\ pc' = "commit" /\ UNCHANGED <<named, fresh>>
       \/ known /\ Sound /\ pc' = "guard" /\ named' = mode /\ fresh' = TRUE
       \/ Lost("read", IF job = "takein" THEN {"lost"} ELSE {}) /\ pc' = "fail" /\ UNCHANGED <<named, fresh>>
    /\ UNCHANGED <<item, disk, events, job, using, builds>>

\* client.fail: the catalog's handler fails the transcode step, for a takein's
\* event too; best effort.
ReportFailure ==
    /\ pc = "fail" /\ pc' = "commit"
    /\ \/ Sound /\ transcode' = "failed"
       \/ Lost("write", {"lost"}) /\ UNCHANGED transcode
    /\ UNCHANGED <<known, kind, mode, step, inbox, unsent, disk, events, run, builds>>

\* Mutant of OnlyAcked: a handover is packaged whatever its transcode says.
OnlyAckedFinished == step[job] \in Finished \/ job # named

\* Only acked: the job's step is finished, or (a package job's) the handover
\* of a transcode that is not, or a record that names the other job.
OnlyAcked ==
    \/ step[job] \in Finished
    \/ job = "package" /\ transcode \notin Finished
    \/ job # named

\* get_steps: no answer is no status, and no guard but the record's.
Guard ==
    /\ pc = "guard"
    /\ \/ Sound /\ pc' = (IF OnlyAcked THEN "commit" ELSE "inputs")
       \/ Lost("read", {"blind"}) /\ pc' = (IF job # named THEN "commit" ELSE "inputs")
    /\ UNCHANGED <<item, disk, events, run, builds>>

-----------------------------------------------------------------------------
(* _process_one, _process_library, _process_takein *)

\* Mutant of PickInputs: the inputs are looked for before the run's own except.
PickInputsRaises ==
    /\ pc = "inputs" /\ Sound
    /\ \/ using' = (IF job = "takein" THEN "takenIn"
                   ELSE IF inbox = "none" THEN "original" ELSE inbox)
          /\ pc' = "begin"
       \/ pc' = "fail" /\ UNCHANGED using
    /\ UNCHANGED <<item, disk, events, job, named, fresh, builds>>

\* resolve_inputs / handoff.  In the library a handoff that is gone while the
\* transcode is done fails the run, when get_steps answers.
PickInputs ==
    /\ pc = "inputs" /\ UNCHANGED <<item, disk, events, job, named, fresh, builds>>
    /\ \/ /\ job = "takein" /\ Sound /\ using' = "takenIn" /\ pc' = "begin"
       \/ /\ job = "package" /\ inbox # "none" /\ Sound
          /\ using' = inbox /\ pc' = "begin"
       \/ /\ job = "package" /\ inbox = "none" /\ using' = "original"
          /\ \/ Layout = "store" /\ Sound /\ pc' = "begin"
             \/ Layout = "library" /\ Sound
                /\ pc' = (IF transcode = "done" THEN "refused" ELSE "begin")
             \/ Layout = "library" /\ Lost("read", {"blind"}) /\ pc' = "begin"
       \* a record or handoff that can't be read, a file that is missing
       \/ Sound /\ pc' = "refused" /\ UNCHANGED using

MarkInProgress ==
    /\ pc = "begin" /\ pc' = "make" /\ Write(job, "in_progress")
    /\ UNCHANGED <<known, kind, mode, transcode, inbox, unsent, disk, events, run, builds>>

\* Mutant of Make: a version in place is made again.
MakeAgain ==
    /\ pc = "make" /\ Sound /\ pc' = "handover"
    /\ folder' = IF Layout = "store" \/ fresh THEN using ELSE folder
    /\ played' = IF Layout = "store" THEN using ELSE played
    /\ UNCHANGED <<item, events, run, builds>>

\* package_item replaces the package; package_version and take_in place a
\* version once, and find one in place to report it again.
Make ==
    /\ pc = "make" /\ Sound
    /\ \/ /\ pc' = "handover"
          /\ folder' = IF Layout = "store" THEN using
                       ELSE IF fresh /\ folder = "none" THEN using ELSE folder
          /\ played' = IF Layout = "store" THEN using ELSE played
       \/ pc' = "refused" /\ UNCHANGED disk      \* it raised
    /\ UNCHANGED <<item, events, run, builds>>

\* Mutant of HandOver: the v2 call is best effort too.
HandOverBestEffort ==
    /\ pc = "handover" /\ UNCHANGED <<item, folder, events, run, builds>>
    /\ pc' = "done"
    /\ \/ Sound /\ played' = (IF Layout = "library" /\ fresh THEN folder ELSE played)
       \/ Lost("write", {}) /\ UNCHANGED played

\* packaging_complete is best effort.  packaging_complete_v2 has to be taken;
\* the catalog refuses a version its record no longer names (409).
HandOver ==
    /\ pc = "handover" /\ UNCHANGED <<item, folder, events, run, builds>>
    /\ \/ Layout = "store" /\ Sound /\ pc' = "done" /\ UNCHANGED played
       \/ Layout = "library" /\ fresh /\ Sound /\ pc' = "done" /\ played' = folder
       \/ Layout = "library" /\ ~fresh /\ Sound /\ pc' = "refused" /\ UNCHANGED played
       \/ Layout = "library" /\ Lost("write", {}) /\ pc' = "refused"
          /\ played' \in {played, IF fresh THEN folder ELSE played}

\* Mutant of Refuse: the handoff goes however the run ends.
RefuseCleans ==
    /\ pc = "refused" /\ pc' = "cleanup" /\ Write(job, "failed")
    /\ UNCHANGED <<known, kind, mode, transcode, inbox, unsent, disk, events, run, builds>>

Refuse ==
    /\ pc = "refused" /\ pc' = "commit" /\ Write(job, "failed")
    /\ UNCHANGED <<known, kind, mode, transcode, inbox, unsent, disk, events, run, builds>>

MarkDone ==
    /\ pc = "done" /\ pc' = "cleanup" /\ Write(job, "done")
    /\ UNCHANGED <<known, kind, mode, transcode, inbox, unsent, disk, events, run, builds>>

\* _cleanup_inbox, library.finish: best effort; a takein has no handoff.
Cleanup ==
    /\ pc = "cleanup" /\ pc' = "commit"
    /\ \/ Sound /\ inbox' = (IF job = "takein" THEN inbox ELSE "none")
       \/ Lost("write", {}) /\ UNCHANGED inbox
    /\ UNCHANGED <<known, kind, mode, transcode, step, unsent, disk, events, run, builds>>

Commit ==
    /\ pc = "commit" /\ Sound
    /\ pc' = "poll" /\ events' = Tail(events) /\ using' = "none"
    /\ UNCHANGED <<item, disk, job, named, fresh, builds>>

\* Mutant of Crash: the consumer commits what it polls (enable.auto.commit).
CrashCommitted ==
    /\ pc # "poll" /\ Lost("crash", {})
    /\ pc' = "poll" /\ using' = "none" /\ events' = Tail(events)
    /\ UNCHANGED <<item, disk, job, named, fresh, builds>>

\* The process dies; the event, not committed, is delivered again.
Crash ==
    /\ pc # "poll" /\ Lost("crash", {})
    /\ pc' = "poll" /\ using' = "none"
    /\ UNCHANGED <<item, disk, events, job, named, fresh, builds>>

Worker ==
    \/ Poll \/ Resolve \/ ReportFailure \/ Guard \/ PickInputs \/ MarkInProgress
    \/ Make \/ HandOver \/ Refuse \/ MarkDone \/ Cleanup \/ Commit

-----------------------------------------------------------------------------
(* The transcoder and the catalog *)

Quiet == pc = "poll" \/ "rebuild" \in Races
Room  == Len(events) < MaxEvents

\* What was of the item's build is of an older one.
Aged(content) == IF content = "encode" THEN "older" ELSE content

\* A new build of the item: its record names another version.
NewBuild ==
    /\ known /\ builds < MaxBuilds /\ builds' = builds + 1
    /\ fresh' = FALSE
    /\ slips' = (IF pc = "poll" THEN {} ELSE slips \cup {"reset"})
    /\ inbox' = Aged(inbox) /\ using' = Aged(using)
    /\ folder' = (IF Layout = "store" THEN Aged(folder) ELSE "none")
    /\ played' = Aged(played)
    /\ UNCHANGED <<known, kind, pc, job, named, faults>>

\* A re-encode: both steps are reset.
Reencode ==
    /\ Quiet /\ NewBuild
    /\ mode' = "package" /\ transcode' = "pending"
    /\ step' = [step EXCEPT !["package"] = "pending"]
    /\ UNCHANGED <<unsent, events>>

\* The title is taken in instead: its transcode or package is out of attempts.
TakeInInstead ==
    /\ Layout = "library" /\ mode = "package" /\ Quiet /\ Room /\ NewBuild
    /\ transcode = "failed" \/ step["package"] = "failed"
    /\ mode' = "takein" /\ step' = [step EXCEPT !["takein"] = "pending"]
    /\ events' = Append(events, "takein")
    /\ UNCHANGED <<transcode, unsent>>

\* The transcoder leaves its handoff and writes its step's end ...
Transcode ==
    /\ known /\ mode = "package" /\ transcode = "pending"
    /\ transcode' = (IF kind = "encode" THEN "done" ELSE "not_applicable")
    /\ inbox' = (IF kind = "encode" THEN "encode" ELSE inbox)
    /\ unsent' = TRUE
    /\ UNCHANGED <<known, kind, mode, step, disk, events, pc, run, slips, builds, faults>>

\* ... before it sends its event.
Send ==
    /\ unsent /\ Room /\ unsent' = FALSE /\ events' = Append(events, "package")
    /\ UNCHANGED <<known, kind, mode, transcode, step, inbox, disk, pc, run, slips, builds, faults>>

\* The catalog sends the trigger of a failed or silent step again; a silent one
\* may be a long run the reaper took for dead.
Retry ==
    /\ known /\ Room /\ step[mode] \in {"failed", "in_progress"}
    /\ mode = "package" => transcode \in Finished
    /\ events' = Append(events, mode)
    /\ UNCHANGED <<item, disk, pc, run, slips, builds, faults>>

Remove ==
    /\ known /\ known' = FALSE
    /\ UNCHANGED <<kind, mode, transcode, step, inbox, unsent, disk, events, pc,
                   run, slips, builds, faults>>

World == Reencode \/ TakeInInstead \/ Transcode \/ Send \/ Retry \/ Remove

Next == Worker \/ Crash \/ World

Spec == Init /\ [][Next]_vars

\* The poll loop takes its next step, the transcoder sends what it owes.
FairSpec == Spec /\ WF_vars(Worker) /\ WF_vars(Send)

-----------------------------------------------------------------------------
(* Properties *)

\* What a build of the item is to be made of.
Wanted == IF mode = "takein" THEN "takenIn"
          ELSE IF kind = "encode" THEN "encode" ELSE "original"

\* A step that says done is the word of the build it is for: what is served
\* is made of this build's encode (or of the original, when there was nothing
\* to encode), never of an older one (_handle_message's stale handovers).
DoneIsCurrent ==
    step[mode] = "done" /\ known =>
        /\ played = Wanted
        /\ mode = "package" => transcode # "pending"

\* The only copy of an encode before it is packaged is never dropped: a handoff
\* goes when what is served was made of it.
HandoffUsed == [][inbox' = "none" /\ inbox # "none" => played = inbox]_vars

\* Once the build's own package is served, nothing but another build replaces
\* it, however often its event is delivered and whatever calls fail ("packaging
\* is idempotent on disk", katalog.get_steps).
ServedStays == [][played = Wanted /\ builds' = builds => played' = played]_vars

\* No run of this build has gone on without the statuses its guards ask for,
\* nor was the build asked for while a run of another was going.
Guarded == slips \cap {"blind", "reset"} = {}

\* In the library it holds through crashes, status writes and handovers that are
\* lost, and unanswered reads, as long as the guards were asked: the guards and
\* the 409 are all that keeps an old event out.
GuardedDone == Guarded => DoneIsCurrent

\* What the catalog takes for a version is what that version's build asked for,
\* though the build may be replaced at any point of the run (the 409 of
\* packaging_complete_v2).
ServedIsWanted ==
    [][played' # played /\ builds' = builds /\ "blind" \notin slips
           => played' = Wanted]_vars

\* An event of the build of now is committed.
Commits == pc = "commit" /\ pc' = "poll" /\ fresh /\ known /\ job = mode

\* What became of it is said: its step is done or failed, its transcode is not
\* done (so another event follows it), or one is already on its way.
Said ==
    \/ step[job] \in {"done", "failed"}
    \/ job = "package" /\ transcode \notin {"done", "not_applicable"}
    \/ unsent \/ \E k \in 2..Len(events) : events[k] = job

\* "The offset is committed ONLY after the item is fully processed (or
\* definitively failed)" (worker.py): whatever fails, but for the write that was
\* to say it, no outcome of the guards, the run or its handover is committed
\* unsaid.
WrittenIsSettled == [][Commits /\ "lost" \notin slips => Said]_vars

\* A transcode that ended is packaged, or its failure said: the event is not
\* lost to a crash at any point between poll and commit.
Settles ==
    transcode \in Finished /\ mode = "package" ~>
        \/ step["package"] \in {"done", "failed"}
        \/ transcode \notin Finished \/ mode # "package" \/ ~known
=============================================================================
