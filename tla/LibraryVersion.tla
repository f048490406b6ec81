---------------------------- MODULE LibraryVersion ----------------------------
(***************************************************************************)
(* How the packager puts a version into the library v2 tree (library.py):  *)
(* a run builds in the version's staging folder, renames the source record *)
(* and then the version folder into the title's record, and, for the modes *)
(* that take it (establish, takein), renames the original into the staged  *)
(* folder just before, under a note that says where it came from.  Runs    *)
(* fail and die; the next run of the version and the startup sweep put     *)
(* back what they left.  Every file system call whose place in the order   *)
(* matters is a step of its own.  Mode add is AddPackage's.                *)
(*                                                                         *)
(* A folder's contents are sets of versions: v \in opened says that v's    *)
(* staging folder is there, v \in noted that its `.original` is, and so on.*)
(***************************************************************************)
EXTENDS Naturals, FiniteSets

CONSTANTS
    Workers,     \* the replicas' item workers
    Sweepers,    \* the replicas' startup sweeps
    Items,       \* items: each has one original and one source record
    Versions,    \* versions the catalog asks for
    ItemOf,      \* the item a version is of
    Mode,        \* the version's build mode in the worker record
    Races,       \* the timing assumptions the environment may break
    MaxFaults    \* bound on crashes and failed file system calls

Procs == Workers \cup Sweepers

BuildModes == {"establish", "takein", "repackage"}

(***************************************************************************)
(* The code rests on three assumptions on timing.  Each may be lifted:     *)
(*  "rerun"  - two workers may run versions of one item at once (a Kafka   *)
(*             rebalance takes a partition from a worker that still runs)  *)
(*  "sweep"  - a sweep may still be at an entry when a run of its version  *)
(*             starts, and a run may last longer than the sweep's day      *)
(*  "refill" - another file may come to an arrival between the look and    *)
(*             the rename that puts an original back there                 *)
(***************************************************************************)
RaceKinds == {"rerun", "sweep", "refill"}

ASSUME ConstantsOK ==
    /\ Workers \cap Sweepers = {}
    /\ Versions # {}
    /\ ItemOf \in [Versions -> Items]
    /\ Mode \in [Versions -> BuildModes]
    /\ Races \subseteq RaceKinds
    /\ MaxFaults \in Nat

\* katalog.MOVES_ORIGINAL: the modes whose run renames the original.
TakesOriginal(v) == Mode[v] \in {"establish", "takein"}

VARIABLES
    arrival,   \* item -> what is at the path the original arrived under
    source,    \* item -> sources/<sourceId>/ in the record, by its writer
    placed,    \* versions whose folder is in the record
    keeps,     \* ... of them, those whose folder holds the original
    opened,    \* versions whose staging folder is there
    aged,      \* ... whose sentinel is more than a day old
    built,     \* ... whose staged version/ is whole
    drafted,   \* ... whose staged source/ is whole
    noted,     \* ... that hold the note of where the original came from
    staged,    \* ... whose staged version/ holds the original
    pc, ver, then,  \* each process: its place, its version, its return
    taken,     \* versions whose handover the catalog took
    done,      \* versions whose step is done
    faults

record  == <<source, placed, keeps>>
staging == <<opened, aged, built, drafted, noted, staged>>
catalog == <<taken, done>>
vars    == <<arrival, record, staging, pc, ver, then, catalog, faults>>

\* An idle process is at no version in particular.
NoVersion == CHOOSE v \in Versions : TRUE

(***************************************************************************)
(* source[i]: nothing, a folder another writer made and has yet to fill,   *)
(* one it has begun to fill, one it finished with its checksums, one a run *)
(* renamed in, or one a run renamed over another writer's empty folder,    *)
(* where that writer may go on writing: what it writes there is not in the *)
(* model, and "shared" says nothing of it.                                 *)
(***************************************************************************)
SourceStates == {"none", "empty", "unfinished", "theirs", "ours", "shared"}

\* A source folder with its checksums: kept as it is, never written again.
Recorded(i) == source[i] \in {"ours", "theirs", "shared"}

\* A source folder without: it fails a run that finds it there.
Unfinished(i) == source[i] \in {"empty", "unfinished"}

Places == {"idle", "note", "giveBack", "dropNote", "enter", "look", "strays",
           "clear", "mkdir", "build", "placeSource", "renameSource", "writeNote",
           "moveIn", "placeVersion", "report", "handover", "finish"}

\* Where restore_original returns to; "open" and "discard" are the two
\* callers that go on to remove the folder (releasable).
Returns == {"enter", "look", "open", "discard", "report"}

TypeOK ==
    /\ arrival \in [Items -> {"original", "other", "empty"}]
    /\ source \in [Items -> SourceStates]
    /\ placed \subseteq Versions /\ keeps \subseteq placed
    /\ opened \subseteq Versions /\ aged \subseteq opened
    /\ built \subseteq opened /\ drafted \subseteq opened
    /\ noted \subseteq opened /\ staged \subseteq opened
    /\ pc \in [Procs -> Places]
    /\ ver \in [Procs -> Versions]
    /\ then \in [Procs -> Returns]
    /\ taken \subseteq Versions /\ done \subseteq Versions
    /\ faults \in 0..MaxFaults

Init ==
    /\ arrival = [i \in Items |-> "original"]
    /\ source = [i \in Items |-> "none"]
    /\ placed = {} /\ keeps = {}
    /\ opened = {} /\ aged = {} /\ built = {}
    /\ drafted = {} /\ noted = {} /\ staged = {}
    /\ pc = [p \in Procs |-> "idle"]
    /\ ver = [p \in Procs |-> NoVersion]
    /\ then = [p \in Procs |-> "discard"]
    /\ taken = {} /\ done = {}
    /\ faults = 0

-----------------------------------------------------------------------------
(* Control *)

ItemAt(p) == ItemOf[ver[p]]
At(p, place) == pc[p] = place
Goto(p, place) == pc' = [pc EXCEPT ![p] = place] /\ UNCHANGED <<ver, then>>

\* restore_original, to return to `to`.
Restore(p, to) ==
    /\ pc' = [pc EXCEPT ![p] = "note"]
    /\ then' = [then EXCEPT ![p] = to]
    /\ UNCHANGED ver

\* Mutant of Discard: rmtree with no look for the original.
DiscardUnlooked(p) ==
    /\ pc' = [pc EXCEPT ![p] = "clear"]
    /\ then' = [then EXCEPT ![p] = "discard"]
    /\ UNCHANGED ver

\* The run failed with its staging folder open: remove_staging, then raise.
Discard(p) == Restore(p, "discard")

\* The run failed before it opened its staging folder, or is over.
Stop(p) ==
    /\ pc' = [pc EXCEPT ![p] = "idle"]
    /\ ver' = [ver EXCEPT ![p] = NoVersion]
    /\ then' = [then EXCEPT ![p] = "discard"]

\* After releasable's restore: on to its look for strays.
Returned(p) == IF then[p] \in {"open", "discard"} THEN "strays" ELSE then[p]

BusyOn(S, i) == \E p \in S : pc[p] # "idle" /\ ItemAt(p) = i

Faulty == faults < MaxFaults /\ faults' = faults + 1
Sound  == UNCHANGED faults

-----------------------------------------------------------------------------
(* restore_original: the note, the rename back, the note gone *)

\* Mutant of LookForNote: the rename back is not guarded by the arrival's look.
LookForNoteOver(p) ==
    LET v == ver[p] IN
    /\ At(p, "note") /\ Sound
    /\ \/ v \notin noted /\ Goto(p, Returned(p))
       \/ v \in noted /\ v \notin staged /\ Goto(p, "dropNote")
       \/ v \in noted /\ v \in staged /\ Goto(p, "giveBack")
    /\ UNCHANGED <<arrival, record, staging, catalog>>

\* Mutant of LookForNote: the note is unlinked before the rename back.
LookForNoteDrops(p) ==
    LET v == ver[p] IN
    /\ At(p, "note") /\ Sound
    /\ \/ v \notin noted /\ Goto(p, Returned(p))
       \/ v \in noted /\ Goto(p, IF v \in staged THEN "giveBack" ELSE "dropNote")
    /\ noted' = noted \ {v}
    /\ UNCHANGED <<arrival, record, opened, aged, built, drafted, staged, catalog>>

LookForNote(p) ==
    LET v == ver[p] IN
    /\ At(p, "note") /\ Sound
    /\ \/ v \notin noted /\ Goto(p, Returned(p))
       \/ v \in noted /\ v \notin staged /\ Goto(p, "dropNote")
       \/ v \in noted /\ v \in staged
          /\ IF arrival[ItemAt(p)] = "empty" THEN Goto(p, "giveBack")
             ELSE Stop(p)          \* never over another file: it is kept
    /\ UNCHANGED <<arrival, record, staging, catalog>>

GiveBack(p) ==
    LET v == ver[p] IN
    /\ At(p, "giveBack")
    /\ \/ /\ v \in staged /\ Sound
          /\ arrival' = [arrival EXCEPT ![ItemAt(p)] = "original"]
          /\ staged' = staged \ {v}
          /\ Goto(p, "dropNote")
       \/ /\ v \notin staged /\ Sound /\ Stop(p)
          /\ UNCHANGED <<arrival, staged>>
       \/ Faulty /\ Stop(p) /\ UNCHANGED <<arrival, staged>>
    /\ UNCHANGED <<record, opened, aged, built, drafted, noted, catalog>>

\* A note that can't be unlinked is only logged.
DropNote(p) ==
    /\ At(p, "dropNote") /\ Goto(p, Returned(p))
    /\ \/ Sound /\ noted' = noted \ {ver[p]}
       \/ Faulty /\ UNCHANGED noted
    /\ UNCHANGED <<arrival, record, opened, aged, built, drafted, staged, catalog>>

-----------------------------------------------------------------------------
(* releasable's second half, and the removal *)

LookForStrays(p) ==
    /\ At(p, "strays") /\ Sound
    /\ IF ver[p] \in staged THEN Stop(p) ELSE Goto(p, "clear")
    /\ UNCHANGED <<arrival, record, staging, catalog>>

\* rmtree.  In open_staging it raises when it fails, or finds no folder;
\* remove_staging and the sweep log it.
Clear(p) ==
    LET v == ver[p] IN
    /\ At(p, "clear")
    /\ \/ /\ Sound
          /\ opened' = opened \ {v} /\ aged' = aged \ {v} /\ built' = built \ {v}
          /\ drafted' = drafted \ {v} /\ noted' = noted \ {v}
          /\ staged' = staged \ {v}
          /\ IF then[p] = "open" /\ v \in opened THEN Goto(p, "mkdir") ELSE Stop(p)
       \/ Faulty /\ Stop(p) /\ UNCHANGED staging
    /\ UNCHANGED <<arrival, record, catalog>>

-----------------------------------------------------------------------------
(* A run: _process_library / _process_takein around package_version / take_in *)

\* Mutant of StartRun: the run looks for its original before it restores.
StartRunUnrestored(w, v) ==
    /\ At(w, "idle") /\ v \notin done
    /\ ~BusyOn(Procs, ItemOf[v])
    /\ pc' = [pc EXCEPT ![w] = "enter"]
    /\ ver' = [ver EXCEPT ![w] = v]
    /\ then' = [then EXCEPT ![w] = "enter"]
    /\ UNCHANGED <<arrival, record, staging, catalog, faults>>

\* The item's event is delivered (first, again after a crash, or as a retry).
StartRun(w, v) ==
    /\ At(w, "idle") /\ v \notin done
    /\ "rerun" \in Races \/ ~BusyOn(Workers, ItemOf[v])
    /\ "sweep" \in Races \/ ~BusyOn(Sweepers, ItemOf[v])
    /\ pc' = [pc EXCEPT ![w] = "note"]
    /\ ver' = [ver EXCEPT ![w] = v]
    /\ then' = [then EXCEPT ![w] = "enter"]
    /\ UNCHANGED <<arrival, record, staging, catalog, faults>>

\* Whether a file is where the run looks for the original (original_at).
Found(v) ==
    \/ v \in keeps
    \/ arrival[ItemOf[v]] # "empty"
    \/ ~TakesOriginal(v) /\ \E u \in keeps \cap taken : ItemOf[u] = ItemOf[v]

\* With no original the run fails here, unless it has a handoff to package.
Enter(p) ==
    /\ At(p, "enter") /\ Sound
    /\ \/ Restore(p, "look") /\ (Found(ver[p]) \/ Mode[ver[p]] # "takein")
       \/ ~Found(ver[p]) /\ Stop(p)
    /\ UNCHANGED <<arrival, record, staging, catalog>>

\* The file the catalog recorded is there to be described and, for a mode
\* that takes it, at its arrival (_at_its_arrival, _check_original).
OriginalChecks(v) ==
    \/ arrival[ItemOf[v]] = "original"
    \/ ~TakesOriginal(v) /\ \E u \in keeps \cap taken : ItemOf[u] = ItemOf[v]

LookAtRecord(p) ==
    LET v == ver[p] IN
    /\ At(p, "look") /\ Sound
    /\ \/ v \in placed /\ Goto(p, "report")
       \/ /\ v \notin placed
          /\ Unfinished(ItemAt(p)) \/ ~OriginalChecks(v)
          /\ Stop(p)
       \/ /\ v \notin placed
          /\ ~Unfinished(ItemAt(p)) /\ OriginalChecks(v)
          /\ IF v \in opened THEN Restore(p, "open") ELSE Goto(p, "mkdir")
    /\ UNCHANGED <<arrival, record, staging, catalog>>

OpenStaging(p) ==
    /\ At(p, "mkdir") /\ Sound
    /\ IF ver[p] \in opened THEN Stop(p) /\ UNCHANGED opened
       ELSE Goto(p, "build") /\ opened' = opened \cup {ver[p]}
    /\ UNCHANGED <<arrival, record, aged, built, drafted, noted, staged, catalog>>

\* Mutant of Build: the version is placed before the source it names.
BuildUnordered(p) ==
    LET v == ver[p] IN
    /\ At(p, "build") /\ Sound /\ v \in opened
    /\ built' = built \cup {v}
    /\ Goto(p, IF TakesOriginal(v) THEN "writeNote" ELSE "placeVersion")
    /\ UNCHANGED <<arrival, record, opened, aged, drafted, noted, staged, catalog>>

\* Everything written under staging: the package, version.json, the chain,
\* and the source record unless it is recorded.  It fails or it is whole.
Build(p) ==
    LET v == ver[p]
        describes == ~Recorded(ItemAt(p)) IN
    /\ At(p, "build") /\ Sound
    /\ \/ /\ v \in opened
          /\ built' = built \cup {v}
          /\ drafted' = IF describes THEN drafted \cup {v} ELSE drafted
          /\ Goto(p, IF describes THEN "placeSource"
                     ELSE IF TakesOriginal(v) THEN "writeNote" ELSE "placeVersion")
       \/ Discard(p) /\ UNCHANGED <<built, drafted>>
    /\ UNCHANGED <<arrival, record, opened, aged, noted, staged, catalog>>

\* Where a run goes on once its source is in the record.
SourceIn(v) == IF TakesOriginal(v) THEN "writeNote" ELSE "placeVersion"

\* Mutant of PlaceSource: any folder there is kept, with checksums or without.
PlaceSourceAnyway(p) ==
    /\ At(p, "placeSource") /\ Sound
    /\ Goto(p, IF source[ItemAt(p)] = "none" THEN "renameSource" ELSE SourceIn(ver[p]))
    /\ UNCHANGED <<arrival, record, staging, catalog>>

\* place(source), its look: one there with its checksums is kept as it is.
PlaceSource(p) ==
    /\ At(p, "placeSource")
    /\ \/ Sound /\ source[ItemAt(p)] = "none" /\ Goto(p, "renameSource")
       \/ Sound /\ Recorded(ItemAt(p)) /\ Goto(p, SourceIn(ver[p]))
       \/ /\ (Sound /\ Unfinished(ItemAt(p))) \/ Faulty
          /\ Discard(p)
    /\ UNCHANGED <<arrival, record, staging, catalog>>

\* Mutant of RenameSource: what has come to the target since is removed first.
RenameSourceOver(p) ==
    LET v == ver[p] IN
    /\ At(p, "renameSource") /\ Sound /\ v \in drafted
    /\ source' = [source EXCEPT ![ItemAt(p)] = "ours"]
    /\ drafted' = drafted \ {v}
    /\ Goto(p, SourceIn(v))
    /\ UNCHANGED <<arrival, placed, keeps, opened, aged, built, noted, staged, catalog>>

\* ... and its rename, which looks no more: onto a folder with anything in it
\* the system refuses, an empty one it replaces.
RenameSource(p) ==
    LET v == ver[p]
        i == ItemAt(p)
        fits == v \in drafted /\ source[i] \in {"none", "empty"} IN
    /\ At(p, "renameSource")
    /\ \/ /\ Sound /\ fits
          /\ source' = [source EXCEPT ![i] = IF @ = "none" THEN "ours" ELSE "shared"]
          /\ drafted' = drafted \ {v}
          /\ Goto(p, SourceIn(v))
       \/ /\ (Sound /\ ~fits) \/ Faulty
          /\ Discard(p) /\ UNCHANGED <<source, drafted>>
    /\ UNCHANGED <<arrival, placed, keeps, opened, aged, built, noted, staged, catalog>>

\* Mutant of WriteNote: a note that can't be written is passed over.
WriteNoteLost(p) ==
    /\ At(p, "writeNote")
    /\ \/ Sound /\ noted' = noted \cup {ver[p]}
       \/ Faulty /\ UNCHANGED noted
    /\ Goto(p, "moveIn")
    /\ UNCHANGED <<arrival, record, opened, aged, built, drafted, staged, catalog>>

\* move_original_in, first half: the note, on disk before the rename.
WriteNote(p) ==
    LET v == ver[p] IN
    /\ At(p, "writeNote")
    /\ \/ /\ Sound /\ v \in opened \ staged
          /\ noted' = noted \cup {v} /\ Goto(p, "moveIn")
       \/ /\ (Sound /\ v \notin opened \ staged) \/ Faulty
          /\ Discard(p) /\ UNCHANGED noted
    /\ UNCHANGED <<arrival, record, opened, aged, built, drafted, staged, catalog>>

\* ... second half: the rename; the note goes when nothing moved.
MoveIn(p) ==
    LET v == ver[p]
        i == ItemAt(p) IN
    /\ At(p, "moveIn")
    /\ \/ /\ Sound /\ v \in built /\ arrival[i] = "original"
          /\ arrival' = [arrival EXCEPT ![i] = "empty"]
          /\ staged' = staged \cup {v}
          /\ Goto(p, "placeVersion")
          /\ UNCHANGED noted
       \/ /\ (Sound /\ ~(v \in built /\ arrival[i] = "original")) \/ Faulty
          /\ noted' = noted \ {v}
          /\ Discard(p) /\ UNCHANGED <<arrival, staged>>
    /\ UNCHANGED <<record, opened, aged, built, drafted, catalog>>

\* place(version), with whatever the staged folder holds.  The look and the
\* rename are one step: what comes between them is another run's whole folder,
\* onto which the rename fails (placed, and discarded all the same).
PlaceVersion(p) ==
    LET v == ver[p] IN
    /\ At(p, "placeVersion")
    /\ \/ /\ Sound /\ v \in built \ placed
          /\ placed' = placed \cup {v}
          /\ keeps' = keeps \cup (staged \cap {v})
          /\ built' = built \ {v} /\ staged' = staged \ {v}
          /\ Goto(p, "handover")
       \/ /\ Sound /\ v \in placed /\ Restore(p, "report")
          /\ UNCHANGED <<placed, keeps, built, staged>>
       \/ /\ (Sound /\ (v \in placed \/ v \notin built)) \/ Faulty
          /\ Discard(p)
          /\ UNCHANGED <<placed, keeps, built, staged>>
    /\ UNCHANGED <<arrival, source, opened, aged, drafted, noted, catalog>>

\* A version folder in the record is whole: its source recorded, and its
\* original in it when its record names one.
Whole(v) ==
    /\ v \in placed
    /\ Recorded(ItemOf[v])
    /\ TakesOriginal(v) => v \in keeps

\* _version_there / _taken_in_there: a version in place is reported again.
Report(p) ==
    /\ At(p, "report") /\ Sound
    /\ \/ Whole(ver[p]) /\ Goto(p, "handover")
       \/ ~Whole(ver[p]) /\ (IF then[p] = "report" THEN Discard(p) ELSE Stop(p))
    /\ UNCHANGED <<arrival, record, staging, catalog>>

\* packaging-complete: taken, refused, or taken with the answer lost.
HandOver(p) ==
    /\ At(p, "handover") /\ Sound
    /\ \/ taken' = taken \cup {ver[p]} /\ (Goto(p, "finish") \/ Stop(p))
       \/ UNCHANGED taken /\ Stop(p)
    /\ UNCHANGED <<arrival, record, staging, done>>

\* The step is done (that write may be lost), then library.finish.
Finish(p) ==
    /\ At(p, "finish") /\ Restore(p, "discard")
    /\ \/ Sound /\ done' = done \cup {ver[p]}
       \/ Faulty /\ UNCHANGED done
    /\ UNCHANGED <<arrival, record, staging, taken>>

-----------------------------------------------------------------------------
(* sweep_staging, and the rest of the world *)

\* Mutant of Sweep: an entry is removed for its age alone.
SweepByAge(s, v) ==
    /\ At(s, "idle") /\ v \in aged
    /\ ~BusyOn(Workers, ItemOf[v])
    /\ pc' = [pc EXCEPT ![s] = "clear"]
    /\ ver' = [ver EXCEPT ![s] = v]
    /\ then' = [then EXCEPT ![s] = "discard"]
    /\ UNCHANGED <<arrival, record, staging, catalog, faults>>

\* An entry older than a day; releasable and the removal follow.
Sweep(s, v) ==
    /\ At(s, "idle") /\ v \in aged
    /\ "sweep" \in Races \/ ~BusyOn(Workers, ItemOf[v])
    /\ pc' = [pc EXCEPT ![s] = "note"]
    /\ ver' = [ver EXCEPT ![s] = v]
    /\ then' = [then EXCEPT ![s] = "discard"]
    /\ UNCHANGED <<arrival, record, staging, catalog, faults>>

\* A day passes over a staging folder.
Age(v) ==
    /\ v \in opened \ aged
    /\ "sweep" \in Races \/ ~BusyOn(Workers, ItemOf[v])
    /\ aged' = aged \cup {v}
    /\ UNCHANGED <<arrival, record, opened, built, drafted, noted, staged,
                   pc, ver, then, catalog, faults>>

\* Another file comes to a path an original was taken from; not while a run
\* that has checked the original there is still to rename it.
Refill(i) ==
    /\ arrival[i] = "empty"
    /\ \A p \in Procs : ItemAt(p) = i =>   \* an idle one is at neither
          /\ pc[p] \notin {"mkdir", "build", "placeSource", "renameSource",
                          "writeNote", "moveIn"}
          /\ pc[p] = "giveBack" => "refill" \in Races
    /\ arrival' = [arrival EXCEPT ![i] = "other"]
    /\ UNCHANGED <<record, staging, pc, ver, then, catalog, faults>>

\* Another writer of source records: its folder, what it holds, its checksums.
OtherWriter(i) ==
    /\ \/ source[i] = "none" /\ source' = [source EXCEPT ![i] = "empty"]
       \/ source[i] = "empty" /\ source' = [source EXCEPT ![i] = "unfinished"]
       \/ source[i] = "unfinished" /\ source' = [source EXCEPT ![i] = "theirs"]
    /\ UNCHANGED <<arrival, placed, keeps, staging, pc, ver, then, catalog, faults>>

Crash(p) ==
    /\ pc[p] # "idle" /\ Faulty /\ Stop(p)
    /\ UNCHANGED <<arrival, record, staging, catalog>>

Step(p) ==
    \/ LookForNote(p) \/ GiveBack(p) \/ DropNote(p)
    \/ LookForStrays(p) \/ Clear(p)
    \/ Enter(p) \/ LookAtRecord(p) \/ OpenStaging(p) \/ Build(p)
    \/ PlaceSource(p) \/ RenameSource(p) \/ WriteNote(p) \/ MoveIn(p) \/ PlaceVersion(p)
    \/ Report(p) \/ HandOver(p) \/ Finish(p)

Next ==
    \/ \E p \in Procs : Step(p) \/ Crash(p)
    \/ \E w \in Workers, v \in Versions : StartRun(w, v)
    \/ \E s \in Sweepers, v \in Versions : Sweep(s, v)
    \/ \E v \in Versions : Age(v)
    \/ \E i \in Items : Refill(i) \/ OtherWriter(i)

Spec == Init /\ [][Next]_vars

(***************************************************************************)
(* A thread that has a step to take takes it (no deadline cuts a run), and *)
(* an item whose step is not done is delivered again: its offset is not    *)
(* committed, or the catalog retries it.  Crashes, sweeps and the outside  *)
(* world are under no fairness.                                            *)
(***************************************************************************)
FairSpec ==
    /\ Spec
    /\ \A p \in Procs : WF_vars(Step(p))
    /\ \A v \in Versions : SF_vars(\E w \in Workers : StartRun(w, v))

-----------------------------------------------------------------------------
(* Properties *)

\* The versions whose staging or version folder holds the item's original.
Holders(i) == {v \in staged \cup keeps : ItemOf[v] = i}

\* An item's original is never lost and never in two places: it is at its
\* arrival or in exactly one staging or version folder (library.py: "A staging
\* folder that holds an original is never removed").
OriginalKept ==
    /\ staged \cap keeps = {}
    /\ \A i \in Items :
        /\ Holders(i) = {} <=> arrival[i] = "original"
        /\ \A u, v \in Holders(i) : u = v

\* An original in a staging folder can be put back by whoever comes next: the
\* note of where it came from is beside it (move_original_in writes it first,
\* restore_original unlinks it last).
StagedIsNoted == staged \subseteq noted

\* A reader, and the catalog, see a version with its source record and its
\* original, or no version at all: nothing half-made is ever in the record.
RecordIsWhole == \A v \in placed \cup taken : Whole(v)

\* What is in the record is never written over or taken back: a source folder
\* with its checksums stays its first writer's, a version folder keeps what it was
\* placed with, and a source another writer has begun to fill is never completed
\* or replaced by a run.  One it has only made may be: place (library.py:328-331)
\* looks before it renames, and a folder made between the two is replaced.  So a
\* run's record is its alone only where nothing was.
WrittenOnce ==
    [][/\ \A i \in Items :
            /\ Recorded(i) => source'[i] = source[i]
            /\ source[i] = "unfinished" => source'[i] \in {"unfinished", "theirs"}
            /\ source[i] = "empty" => source'[i] \in {"empty", "unfinished", "shared"}
       /\ \A v \in placed : v \in placed' /\ (v \in keeps' <=> v \in keeps)]_vars

\* Putting an original back never replaces another file that came to its
\* arrival since (restore_original: "never over another file").
OtherFilesStay ==
    [][\A i \in Items : arrival[i] = "other" => arrival'[i] = "other"]_vars

\* A staging folder that holds an original is never removed (library.py:55).
StagedNeverRemoved == [][\A v \in staged : v \in opened']_vars

\* An original a run left in its staging folder leaves it again, into the
\* record or back to its arrival, unless another file took its place there.
StagedComesHome ==
    \A v \in Versions :
        v \in staged ~> (v \notin staged \/ arrival[ItemOf[v]] = "other")

\* Step by step, the runs, their failures and the sweeps do to the record and
\* the originals only what the abstract record does: a version appears with its
\* source record and its original in one step, an original is in one place.
Record == INSTANCE VersionRecord
    WITH Takes     <- {v \in Versions : TakesOriginal(v)},
         described <- {i \in Items : Recorded(i)},
         published <- placed,
         lifted    <- staged,
         homed     <- keeps

ImplementsRecord == Record!Spec

-----------------------------------------------------------------------------
(* The inductive invariant: what makes the properties hold when Races = {} *)

\* While a worker is at an item nothing else is: one partition per item, and
\* no sweep looks at an entry with a run in it.
Exclusive ==
    \A w \in Workers, q \in Procs :
        q # w /\ pc[w] # "idle" /\ pc[q] # "idle" => ItemAt(q) # ItemAt(w)

SweepPlaces == {"idle", "note", "giveBack", "dropNote", "strays", "clear"}

\* What a process knows at its place.
Knows(p) ==
    LET v == ver[p] IN
    /\ p \in Sweepers => pc[p] \in SweepPlaces /\ then[p] = "discard"
    /\ pc[p] = "giveBack" /\ v \in staged => arrival[ItemAt(p)] = "empty"
    /\ pc[p] \in {"dropNote", "clear", "moveIn"} => v \notin staged
    /\ pc[p] = "moveIn" => v \in noted
    /\ pc[p] \in {"writeNote", "moveIn"} => TakesOriginal(v)
    /\ pc[p] \in {"writeNote", "moveIn", "placeVersion"} => Recorded(ItemAt(p))
    /\ pc[p] = "placeVersion" /\ TakesOriginal(v) => v \in staged
    /\ pc[p] \in {"handover", "finish"} => Whole(v)

StagedTakes == \A v \in staged : TakesOriginal(v)

IInv ==
    /\ TypeOK /\ Exclusive
    /\ OriginalKept /\ StagedIsNoted /\ StagedTakes /\ RecordIsWhole
    /\ \A p \in Procs : Knows(p)
=============================================================================
