# A verification of the packager

The packager is the last stage of a catalog's pipeline. It consumes an event
per title from Kafka, asks the catalog (over HTTP) what the title is and how far
it has come, turns the transcoder's handoff or the original file into an HLS
package, puts that package where players find it, and tells the catalog. It
keeps its state on a shared file system, in two layouts: the *package store*
(v1: one folder per item, replaced in place) and the *library* (v2: a title's
record, to which versions are only ever added, together with the original).
Two replicas run, each with a thread for items, one for extras, a reporter of the
rules and a sweep at startup.

Two things are hard here. A file somebody cares about is in one of several
places, moved by renames that can fail or be the last thing the process does,
while events come again, late and out of order and calls to the catalog are lost
in either direction. And a package is described in several lists made by
different code (the source's streams, the encode's, the manifest's entries,
shaka's playlists, the record's renditions), which have to go on meaning the same
tracks after some of them lost a member.

All paths below are relative to `src/src/packager/` unless they say otherwise.

## The parts of the system

| Part | State | Operations | Works with |
| --- | --- | --- | --- |
| item worker (`worker.py`, `events.py`) | the offset; the run in hand | poll, resolve, guard, pick inputs, package or take in, hand over, write the step, drop the handoff, commit | catalog client, both layouts, Kafka |
| extras worker (`extras.py`) | its own offset and group | the same loop for trailers, with its own guards | as above |
| catalog client (`katalog.py`) | an OAuth token | get item / extra / steps / settings, upsert step, packaging-complete (v1 best effort, v2 has to be taken), fail | the catalog |
| handoff (`renditions.py`) | the transcoder's inbox folders | read renditions.json, choose the inputs | the transcoder |
| package store (`packager.py`) | the item folder: entries, manifest, `.complete`, `.failed`, `.next/`, `<name>.old-<stamp>` | package_item: open staging, build, verify, swap in, undo, retire; grace timers; sweep | players read it at any time |
| library versions (`library.py`) | staging folders with sentinel and note, source folders, version folders, the original's place | package_version, take_in, package_extra, add; restore, release, sweep, finish | the catalog, other writers of source records |
| package build (`packager.py`, `hls.py`, `hdr10.py`, `fonts.py`) | none between runs | probe, remux, lift, segment, extract, write playlists | ffmpeg, mkvextract, shaka-packager |
| names (`regions.py` and the tables of `packager.py`) | none | the NAME of a track from its tag and title | build |
| record logic (`records.py`, `libv2_records.py`) | none | what source.json, version.json, extra.json, package.json say; the chain of checksums; the deletion gate | library, catalog |
| rules report (`rules.py`), process (`main.py`, `config.py`) | a reporter thread; the stop event | report every ten minutes; probes; start, stop | catalog, Kubernetes |

What makes each correct:

- *Item and extras workers*: a step that says done is about the build the catalog
  has in mind now; an event is not lost; a handoff is not thrown away before it is
  used; doing it again does no harm; a process that says it is ready works.
- *Package store*: a player gets one whole package, old or new; what it started
  on stays for a while; a failed run changes nothing.
- *Library*: an original is never lost, doubled or written over; the record has
  whole versions only and nothing in it changes; what a dead run left is put
  right by whoever comes next.
- *Build*: what a placed package names is there and is that track's; a tool that
  fails costs what it was run for and nothing else.
- *Records and reports*: two descriptions of one thing agree, and the deletion
  gate lets an original go only when nothing of it is lost.

## The modules

| Module | What it is |
| --- | --- |
| `LibraryVersion` | the library's staging, notes and renames for the modes establish, takein and repackage, with crashes, failed calls, sweeps and other writers |
| `VersionRecord` | what that promises, with no folder, note or process in it |
| `LibraryVersionProofs` | theorems about it |
| `ItemWorker`, `ItemWorkerProofs` | one item through the worker's loop, in either layout, with the transcoder and the catalog around it; theorems |
| `ExtraWorker` | one extra through its loop, in two replicas that start, answer probes, shut down and die |
| `ExtraWorkerProofs` | theorems about it |
| `PackageStore`, `PackageStoreProofs` | an item's folder in the package store: swap, undo, grace, sweep; theorems |
| `AddPackage`, `AddPackageProofs` | a version folder of the library in build mode add: the renames into it, their undo, the completion of an add that died, the subtitles the catalog attaches; theorems |
| `BuildPackage`, `BuildPackageProofs` | a package built in its staging folder: every tool in its order, what each leaves when it fails, and the check before the swap; theorems |
| `WorkerRecord` | what an event, its worker record and its handoff come to before the run starts |
| `TrackPlan` | what a package does with the tracks of its source: languages, visibility, defaults, 5.1 companions, AUTOSELECT, order |
| `TrackNames` | the name of a rendition, from its tag and its title |
| `AudioRenditions` | mixes, the lift of a quiet one, the streams of the MP4 and what is packaged from which |
| `Lists` | what is kept of a list, in its order |
| `Sidecars` | the subtitle files beside an original, from the catalog's list to the list it gets back |
| `CodecConfig`, `Hdr10` | the parameter sets of a copied HEVC stream; HDR10 metadata and its boxes |
| `HlsMaster`, `MasterPlaylist` | what a variant advertises; the master made of shaka's own |
| `Records`, `SourceRecord` | purposes, essences, losses and the deletion gate; the source's, the version's and the extra's record |
| `CatalogReport` | what a run that is over says: the manifest, its record, the payload of the handover |
| `Chain` | the chain of checksums, closed, filled, read |
| `Session` | settings, the token, a call and its retry, the reports of the rules |
| `Readings`, `Writings`, `Plans` | the state machines that take those operators through their inputs, with the properties |
| `PlansProofs` | theorems about the chain, the audio, the deletion gate, the levels, the picture, the calls and reports |
| `ReadingsProofs` | theorems about where a run works, what is told of it and what its renditions play |
| `MCLibraryVersion`, `MCItemWorker`, `MCExtraWorker`, `MCPackageStore`, `MCAddPackage`, `MCBuildPackage`, `MCPlans` | the instances TLC checks |

`PROJECT.json` maps every definition to the lines it stands for, and lists
the runs, the mutants each property has to catch, the findings and the hazards.
Operators marked as mutants in a module are such mutants: an edit a programmer
could make by mistake. No specification uses them.

How they fit together: `ExtraWorker` and `ItemWorker` take a run (packaging, an add,
a takein) as one step with an outcome; `PackageStore`, `LibraryVersion` and
`AddPackage` are the inside of that step on disk, `BuildPackage` the inside of
their own build step, and the pure modules the decisions inside that. What crosses the
border is stated on both sides: a run ends with a package placed or with nothing
changed but what the next run puts right (`WholeAtRest`, `RecordIsWhole`,
`Completes`), and the workers go on from either.

### LibraryVersion

The state is the file system as far as it matters: for each version, whether
its staging folder is there (`opened`), how old (`aged`), and what it holds
(`built`, `drafted`, `noted`, `staged`: the package, the source record, the note
of where the original came from, the original); for each item what is at the
original's arrival path and in the source's folder of the record; for the record
which versions are `placed` and which of those have their original (`keeps`).
The catalog's side is `taken` and `done`.

Workers and sweeps are processes with a program counter. One action is one file
system call whose place in the order matters, or several whose intermediate states
nobody else can tell apart: `WriteNote` and `MoveIn` are the two halves of
move_original_in; `LookForNote`, `GiveBack`, `DropNote` restore_original;
`LookForStrays` and `Clear` releasable's second half and the rmtree;
`PlaceSource` and `RenameSource` are place's look and its rename, of the source;
`PlaceVersion` both for the version, as only another run of it could come between, with
a whole folder the rename fails on. `source` tells how far another writer of source
records is with its folder (made, begun, finished), as a rename replaces an empty one. restore_original
is called from seven places and then goes on differently; `then` is the return
address. Every step may be the last before a crash, and each call that can fail
has a failing disjunct; both draw on `MaxFaults`.

Three assumptions on timing carry the code, and `Races` says which are lifted:

- `rerun`: two workers may run versions of one item at once. The code assumes not,
  as an item's events share a partition (library.py:144-145).
- `sweep`: a sweep may be at an entry while a run of its version starts, and a
  run may outlast the sweep's day.
- `refill`: another file may come to an arrival between restore_original's look
  and its rename.

### ItemWorker

One item, one worker, its queue of uncommitted events. Contents are named by what
they are to the item's present build: `encode` is that build's, `older` another's;
a new build (`NewBuild`) relabels everything, which keeps the state small without
bounding what a queue may mix. `fresh` says the record the run resolved is still
the catalog's. `Failures` says what the environment does: `crash` (between any two
steps), `read` (a GET is not answered), `write` (a step write, handover or removal is
lost; a handover may be taken and its answer lost). `slips` is a history variable:
what the present build's runs went past. `Races = {"rebuild"}` lets the
catalog reset the item during a run, as the answer 409 implies it does
(katalog.py:684).

The transcoder and the catalog are external. They are modelled from what the code
says of them: the transcoder writes its step's end before it sends its event
(worker.py:526); the catalog resets both steps for a re-encode, refuses a version
its record no longer names, sends the trigger of a failed or silent step again,
and may turn to taking the title in. That a record, a handoff or a file can't be
used is one nondeterministic outcome here, the step failed; which records and
handoffs those are is `WorkerRecord`'s.

### ExtraWorker

One extra and the replicas that may package it. A replica is `up`, `stopping`
(SIGTERM set the stop event), `closed` (its HTTP clients are, main.py:173) or
`down`; `loop` says which of its consumer threads are alive, as a commit or an
unexpected error ends one for good (worker.py:618); `owner` holds the extra's
partition. The loop is `Poll`, `Resolve` (the guards: the extra's state in its
record), `PickInputs`, `MarkInProgress`, `Make`, `HandOver`, `Refuse` or `MarkDone`,
`Cleanup`, `Commit`. A shutdown closes the clients before it waits for the loops,
so any call after that fails (`Cut`), while the loop runs to its commit. `Ready` is
what readyz says in its body: both threads alive. Its HTTP status is 200 whatever it says
(main.py:166-169), and the deployment's readinessProbe reads no more than that.

`layout` and `kind` are chosen at the start: the record has a library block or not,
the transcoder encodes the file or finds nothing to encode. `slips` tells the three
things no step can help: a write that was `lost`, an extra that was queued again during
its run (`replaced`), and a finished extra whose record could not be read (`doubted`),
which the code fails. The catalog may queue the extra again with another file (`Requeue`)
at any point of a run and with any events left, as extras.py has no guard against an event
of the file before.

### PackageStore

`live` says whose entry has each live name, `old` which entries lie beside under
their stamp, `staged` what `.next/` holds. A swap is a step per rename. `moved` is
the code's own list, which `Undo` walks back from its end. `Failures` lets calls
fail, undo renames fail, and the process die with its timers; the sentinels and
what package_status makes of them are `complete`, `failed` and `Status`. `was` and
`torn` are history variables. Timers, the next run and a starting replica's sweep
all remove replaced entries; a swap and its undo are taken to be shorter than the
grace period (`GraceEnds`).

### AddPackage

The one place where the library is not written in a single rename. `here` says
which package each entry of the version folder is from, `staged` the same for the
staging folder; `subs/` is modelled file by file, as the code moves it in one
rename into a version that has none and file by file into one that has
(`MoveSubs`, `MoveSubtitle`). `Look` is the code's case split over what a folder
holds (`_add_package`, `_holding_its_original`): a complete package is reported
again, part of one completed (`Completable` is `_complete_add`'s condition), else
the run starts clean. `moved` and `Undo` are as in `PackageStore`, but `.complete` is
the last of the chain and so the first to go back. `torn` is a history variable: a
rename back failed.

`current` says that version.json is still the record the chain lists; who else
writes it (`Rewrite`), and the catalog's attaching of subtitles (`Attach`), are
external. `Races = {"attach"}` lets a subtitle come during a run; without it, only
between runs. The sweep is at the folder only between runs, and sees its
age alone, as an add stages no original.

The version folder starts as `LibraryVersion`'s takein leaves it: placed, with its
original, and no package.

### BuildPackage

The staging folder is a set of named files, each whole, cut short, empty or a
variant of another. `Init` chooses the source: its rungs, subtitle tracks by codec,
files beside it, fonts, and whether its sound is quiet. The steps are build_package's
own order: remux, lift, extract the text tracks together and, if that fails, one by
one, the VobSubs with mkvextract, the files beside, the fonts, the rungs with
shaka, the HDR10 boxes, each subtitle's own shaka run, the sprite, then
`Verify`. A tool that fails may leave its output cut short; one disjunct lets a
tool claim a file it didn't write (`lied`). The manifest (`entries`, `fonts`: sets, as each
entry and each name carries its number) is what the code lists at
that point, and `Verify` is _verify_staged: each file the manifest names, there and
not empty.

### The decisions: Readings, Writings, Plans

Much of the program is functions of what a run was given. Each is an operator in
a module of its own; `Plans` (which extends `Writings`, which extends `Readings`) has
one action per kind of decision that picks an input, applies the operators the
code calls in a row, and keeps the input and what came of it in `job`. A property
is then about a whole row of calls, with the parts in different modules:

| Kind of job | Modules | The row of calls |
| --- | --- | --- |
| an event or an extra's event | `WorkerRecord` | envelope, worker record, library block, guards, handoff, inputs |
| a track's name | `TrackNames` | regions and scripts in the title, what is left of it, the name, what its purpose adds |
| a mix; a lift | `AudioRenditions` | matrix by layout; measure, probes, pass, second pass, timing |
| the streams of a source | `TrackPlan`, `Lists`, `AudioRenditions` | languages by ordinal, visibility, companions, MP4, entries, packaged from, the count of the done step |
| subtitle files | `Lists`, `Sidecars` | found, copied, converted, matched with the copies, handed over |
| the audio plan, a group, subtitles | `TrackPlan`, `HlsMaster` | defaults, AUTOSELECT, order |
| a record of a package | `Records` | purposes of both sides, essences, losses, gate |
| a source, an arrival, an extra, a naming | `SourceRecord` | probe, attachments, fonts, streams, evidence, labels, chapters, segments |
| a master; a playlist | `HlsMaster`, `MasterPlaylist`, `CatalogReport` | bit rates and bandwidth; shaka's lines, entries, groups, variants; what the record keeps of it |
| HDR10 metadata; an init segment; a copied video | `Hdr10`, `CodecConfig` | side data to units; boxes grown; extradata to muxer |
| a chain, with edits | `Chain` | closed, left pending, filled, read, while the folder changes |
| a session; a process | `Session` | token, call, refusal, retry; environment, options, the report's retries |
| facts, an extra's language, a manifest, a handover | `CatalogReport` | handoff completed by a probe; override of the first track; keys; payload |

The inputs are abstract on purpose. A language, a codec, a folder, a content is a
name; a title is words and brackets; a number is one of the few values on either
side of each comparison the code makes. The table of `TrackNames` has the rows its
titles fall under; its operators were compared with the outputs of the program's own
functions on every pair of tag and title of the run (32,056), and agree.

`Hdr10` takes the units of a mastering display (50,000 and 10,000 to the unit in the
code) and the widths of its fields as constants. The run sets them to a few
units, so that every rounding and every overflow occurs within TLC's integers.

## The runs

All use one item or folder: an item's events, folders and record are its own and
nothing is shared between items but the processes, so what two items could do
to each other is nothing. `CHECK_DEADLOCK FALSE` throughout: when an item's
work is done, or the decision taken, and the bounds are used up, the system rests.

| Run | Asks | Bounds |
| --- | --- | --- |
| `LV_record` | the library's safety properties and the refinement of `VersionRecord` | a worker, a sweep, three versions of one item (one per mode), two faults, no assumption lifted |
| `LV_live` | an original in staging gets out again, though files come to its arrival; nothing in the record is written over but a folder another writer left empty between place's look and its rename | a worker, a sweep, two versions that take it, two faults, `refill` lifted |
| `IW_store` | a done step is the present build's; a handoff goes only when used; an ended transcode is packaged or its failure written | three builds, three events, two crashes |
| `IW_library` | the first as long as the guards had their answers; a served build is its own and stays; every event's outcome is written | three builds, three events, three failures of any kind, resets at any point of a run |
| `EX_process` | an extra is ready only with what the catalog took; its own package is not replaced; an event is committed with its outcome said; while readyz says ok, events are worked through | two replicas, a shutdown, two builds, the second at any point of a run of the first, two events, two failures of any kind, both layouts |
| `PS_swap` | whole at rest and its status says so, one gap during a swap, replaced entries stay their grace | three runs, three entries, two failures of any kind |
| `AP_add` | a reader that finds `.complete` finds the whole of one package; parts of two packages never mix; what the catalog took stays; what is needed to complete a dead add stays for a day; an add that died is completed | two builds, two failures of any kind, subtitles attached during runs, version.json rewritten |
| `BP_build` | what a placed package names is there, whole and its own; an optional step that fails costs itself alone | two rungs, three subtitle tracks, files beside or fonts of every kind, two failures of any tool |
| `PU_plan` | the decisions above, twelve properties | two languages, up to three tracks of a kind, and what the configuration lists |

Why these are enough. Two faults are what it takes to fail while recovering from
a failure (die with the original staged, fail to put it back). Three versions are one of
each mode, and two of them compete for the original. Three builds are a queue
holding an event of each of two past builds beside the present one's. Three runs of
a folder are a package, the one that replaces it, and one that finds what the second left.
Two builds of an add are one that dies and the one that might mix with it; its
entries are two folders, two subtitle files and the chain, and the package may lack
its optional parts. Two replicas are what is deployed (`src/k8s/deployment.yaml`), and one
shutdown meets every step of a run in the other. Three tracks are a default, one that
takes its place and one that is shifted by what happens to either; two rungs are one in PQ
and one that isn't. In `PU_plan` each set of inputs has the values on both sides of
the code's comparisons: a lift's levels are above, at, within and under the target's
margin, an attachment's bytes those of a font and not, a list too short, exact and too long.

What the properties of `PU_plan` say, in a word each: `AudioIsOffered` (the default is
one that is shown, a film with surround keeps one), `StreamsLineUp` (each rendition
plays the track its entry says), `NamesTellTracks`, `LevelsHold` (a mix is loud as meant),
`MasterHolds` (the playlist agrees with the manifest, the record and shaka's files, names
each rendition apart but beside a title that reads as a number, and advertises enough), `PicturePlays` (parameter sets, HDR10 metadata, boxes that add up),
`GateIsExact` (an original is let go exactly when nothing is lost), `ChainTells` (a
chain that reads as whole is), `JobLands` (a run works in its own folders from the right
file, and an event is dropped only with nothing left to do), `RunIsTold` (the catalog gets
the files, facts and places as they are), `RecordTellsOriginal`, `CallsAreOnce`.

### What disagrees with its documentation

Each of these runs checks one sentence of the repository's own, and TLC finds a
behaviour of the code against it. `PROJECT.json` quotes them.

| Run | What happens |
| --- | --- |
| `LV_sweep` | the sweep looks into an old staging folder, a run starts and moves its original in, the sweep removes the folder |
| `IW_overwritten` | the done write is lost, the handoff is dropped all the same, and the retry packages the original over the encode's package |
| `AP_attached` | a subtitle is attached while an add that has moved its `subs/` in goes on; a later rename fails, and the undo takes the subtitle to staging, where it is removed |

`LV_sweep` needs a timing assumption lifted that the code implies; it says what it
costs when that assumption breaks. The others need one failure, or none, and no
odd timing.

Weak spots the models have and the properties except by name:

- an unanswered GET of the steps turns both guards off (katalog.py:598), and a
  stale handover is then packaged and finished. `GuardedDone` and
  `ServedIsWanted` say what holds for every other run; `slips` tells them apart.
- a re-encode during a run drops the new handoff with the old (worker.py:329,
  against `src/README.md:62`).
- a takein whose item could not be read is committed with its own step pending: the
  failure goes to the transcode step (worker.py:609).
- a write of `.complete` that fails leaves the failed run's package live
  (packager.py:1036, against 600-601), whole all the same.
- an extra that is done and whose record can't be read is failed, and its retry
  packages the bare file (`doubted`).
- with two runs of a version at once (`rerun`) `RecordIsWhole` fails: the second run
  puts back the original the first moved in. `WrittenOnce` holds, by theorem.
- a file that comes to an arrival between restore_original's look and its rename
  is written over (`refill`).
- a source folder another writer makes between place's look and its rename
  (library.py:328-331) is replaced while it is empty, against place's docstring (324,
  "never over anything"); that writer then goes on in a folder that has its checksums
  already, which the model leaves out (`shared`). Once something is in it, the rename
  fails and the run with it.
- an event of the file before that is worked after an extra was queued again ends the
  extra as ready, with the package of whatever the inbox held, and the event of the new file
  is then dropped at the guard (extras.py:321). `ReadyIsTaken` holds all the same: the
  catalog took that package. `CommittedIsSaid` excepts the run in hand.
- a process that dies half way through a swap, or whose undo fails, leaves a
  mixture under `.complete` until the next run that succeeds (`torn`).
- a crash between the last two writes of fill_checksums leaves a chain that reads as
  broken and isn't filled again.
- mkvextract's exit code isn't looked at: a VobSub pair may be cut short.
- a tool that fails late leaves partial files nothing names; the library's
  checksums list them.

Smaller ones, found by reading or by a property before its exception was stated:

- packaged tracks are matched to the source's by codec and order: exact when an
  encode leaves out all of a codec or none of it.
- hls.unique_names can make a name that another track has already: "English", "English"
  and "English (2)" are listed as "English", "English (2)" and "English (2)", against
  `src/README.md:168`. `WriteGroup` takes such names, and `MasterInOrder` excepts them.
- the record clears the default of a forced subtitle, against `_finish_subtitles`'
  docstring (packager.py:4118-4126), which lets one be default.
- `lossless` in a package's record and the deletion gate differ: the first looks at
  losses per stream, the second at the essence.
- in a title, an unknown key is kept as words, and a piece that is the language's own
  code is dropped although it names a region too (`Portugues (PT)` on pt-BR).
- of two files with the same bytes on a recorded source, if the first fails the
  second's rendition answers for the first's asset.
- a trackLanguages override makes the deletion gate name the language the source was
  mis-tagged with.
- a token refused twice within a call is kept until it runs out.
- an extra registered in a two-letter language the packager's table lacks (`cy`)
  keeps its file's tag in the package, while extra.json says `cy`.
- the extras' topic is under KAFKA_TOPIC_PREFIX, the items' is not.
- package_status may answer "unknown", which its docstring doesn't list; the program
  never uses hdr10.held_boxes.

### Fairness

`StagedComesHome` (`LV_live`) assumes a thread that can take a step takes it
(nothing in the code cuts a run short: a slow run holds its partition for 24 h) and
that a version whose step is not done is started again infinitely often if it can
be: an uncommitted event is delivered again, and the catalog retries failed and
silent steps. It is strong fairness, as another version's run of the item disables
it in between. `Settles` (`IW_store`) assumes only that the loop takes its next step
and that the transcoder sends what it owes; redelivery is in the model (a crash
leaves the event in the queue). `Completes` (`AP_add`) assumes the same of a run's steps,
and that a run is started again infinitely often (strong fairness of `StartRun`, as
for `StagedComesHome`); it promises nothing once the day is over and the sweep
took the rest, once version.json changed, or once a rename back failed.
`ReadyWorks` (`EX_process`) assumes that a loop takes its next step and that Kafka gives
the partition to a live consumer; nothing makes a dead thread come back, as livenessProbe asks
only healthz and readinessProbe only readyz's status. Crashes, sweeps, failures and the outside world are under no fairness.

## What is proved

`LibraryVersionProofs` proves, for any number of workers, sweeps, items, versions
and faults:

| Theorem | Says | Assumes |
| --- | --- | --- |
| `TypeCorrect` | `[]TypeOK` | nothing: any `Races` |
| `Safety` | `[]IInv` | `Races = {}` |
| `OriginalsAreKept`, `StagedAlwaysNoted`, `RecordAlwaysWhole` | `[]OriginalKept`, `[]StagedIsNoted`, `[]RecordIsWhole` | `Races = {}` |
| `NothingWrittenOver` | `WrittenOnce`, which excepts another writer's folder that is still empty | nothing |
| `OthersStay` | `OtherFilesStay` | no `refill` |
| `StagedNotRemoved` | `StagedNeverRemoved` | `Races = {}` |
| `Refinement` | `ImplementsRecord` | `Races = {}` |

and `ConstantsOK`, the shape of the constants.

None of the safety properties is inductive. `OriginalKept` breaks at `Clear` unless
a process there knows the original is not in the folder; it knows that because it
looked, and because nobody put one in since. So `IInv` adds what each process
knows at its place (`Knows`: at `clear` the version is not staged, at `moveIn` the
note is written, at `placeVersion` the source is recorded and the original, if the
mode takes it, staged, at `handover` the version whole) and `Exclusive`, which says
that while a worker is at an item nobody else is. The proof has a lemma for what a
step does to the folders, one for what it does to each process's knowledge, and one
that nobody's step disturbs what another knows, which is where `Exclusive`, and so
the timing assumptions, are used; `LV_sweep` shows that they are needed.

`ExtraWorkerProofs` proves, for any replicas, layouts, failures, shutdowns, builds and
events:

| Theorem | Says |
| --- | --- |
| `Invariance` | `[]IInv` |
| `ReadyOnlyTaken` | `[]ReadyIsTaken` |
| `ReadyNotReplaced` | `ReadyStays` |
| `CommittedWhenSaid` | `CommittedIsSaid` |

from the assumptions on the constants alone: no timing is assumed, as one replica at a
time owns the partition and the loop of one that lost it is over. `ReadyIsTaken` alone
is not inductive: `MarkDone` needs that the run at it was answered by the catalog, which
`Knows` says for each place (at `done` what was taken is what is in the folder, at
`make` the inputs are the handoff's where there is one, up to the handover the state is
not ready). `ReadyStays` needs that the handoff of a build is still there until the
catalog took its package (`HandoffKept`), or the next run would take the bare file.

`ItemWorkerProofs`, for any queue of events, builds, failures and kinds of source:

| Theorem | Says | Assumes |
| --- | --- | --- |
| `Invariance` | `[]IInv` | nothing |
| `GuardedIsDone` | `[]GuardedDone` | `Steadfast`: the library, or no lost write |
| `DoneAlwaysCurrent`, `HandoffsUsed` | `[]DoneIsCurrent`, `HandoffUsed` | `Steadfast`, no unanswered read, no build during a run |
| `ServedNotReplaced`, `ServedOnlyWanted` | `ServedStays`, `ServedIsWanted` | the library |
| `WrittenSettles` | `WrittenIsSettled` | nothing |

What each needs is what its run sets (`IW_store`, `IW_library`), and `IW_overwritten` shows
`ServedStays` failing in the store. `GuardedDone` is not inductive: `MarkDone` must know
that what is served was made by this run of this build's handoff. `InputsFit` says which
inputs a run may hold, `VersionFits` what the folder of the version the record names
holds (a version's folder is made once, so a late run of an older build finds another's),
`StepFits` that a handoff is gone only behind a done step, and `RunKnows` what of the record
a run read still holds; the guards re-establish it for each event.

`PackageStoreProofs`, for any entries in any order, any number of runs, replicas' timers and
failures, with no assumption but those on the constants (`FolderOK`: the code's order of the
swap is one):

| Theorem | Says |
| --- | --- |
| `Invariance` | `[]IInv` |
| `RestIsWhole` | `[]WholeAtRest` |
| `ReaderMissesOne` | `[]OneGap` |
| `GraceIsHonoured` | `GraceHonoured` |

The swap's list `moved` is the whole argument: `MovedFits` says that an entry moved out is
followed at once by the new one moved in, `LiveFits` reads off that list what has each live
name, `StagedFits` what is left in `.next/`. Then one step more or, walking back, one
step less keeps all three; when the list is used up in either direction the folder is the new
package or the old one (`WholeFits`), and in between at most the entry at the list's end is
missing, under its `.old` name. A rename back that fails ends this (`torn`), which the
properties except.

`AddPackageProofs`, for any subtitle files, attachments, builds and failures, attaching
during runs or between them, from the assumptions on the constants:

| Theorem | Says |
| --- | --- |
| `Invariance` | `[]IInv` |
| `CompleteAlwaysWhole` | `[]CompleteIsWhole` |
| `OnlyOnePackage` | `[]OnePackage` |
| `TakenNotMoved` | `TakenStays` |
| `RestStays` | `RestKept` |

`One` says that of the package built last each entry is in one of the two folders and of
the others nothing is; `Kept` that while anything of it is in place all of it is in one or
the other; so an add that died can be completed from staging, and a clean start has nothing
in either folder (`RunKnows`). `CompleteLast` says `.complete` is at the end of the list
`moved`, which is why its undo takes it first. `subs/` makes the proof long: it goes whole
or file by file, and `ListFits` keeps the two apart.

`BuildPackageProofs`, for any number of rungs, tracks, files, fonts and failures:

| Theorem | Says |
| --- | --- |
| `Invariance` | `[]IInv` |
| `PlacedAlwaysWhole` | `[]PlacedIsWhole` |
| `OptionalAlone` | `[]OptionalCostsItself` |

_verify_staged looks at names and sizes, never at a file's content, so that a placed package is
whole has to come from the steps before it: `TracksFit`, `EntriesFit`, `FontsFit`, `MediaFits`,
`TextFits` and `SheetsFit` say for each list the build makes, from the step that makes it
on, that every file on it is there (unless a tool lied) and holds its own track. Each step
keeps them because it writes other names than those (a sidecar beside the source is numbered
after every track, a kept script is named apart from its track's file, two fonts kept have
two numbers), which is what its lemma shows.

`PlansProofs` and, for the last three, `ReadingsProofs`, for any files and edits of a folder, any
number of tracks, any languages, from the assumptions on the constants (the ones used: the
languages of tags are none of those that name no language, the names of files are finitely many
and `version.json` isn't among them):

| Theorem | Says |
| --- | --- |
| `ChainInvariance` | `[]ChainInv` |
| `ChainAlwaysTells` | `[]ChainTells` |
| `AudioAlwaysOffered` | `[]AudioIsOffered` |
| `GateAlwaysExact` | `[]GateIsExact` |
| `CallsAlwaysOnce` | `[]CallsAreOnce` |
| `LevelsAlwaysHold` | `[]LevelsHold` |
| `PictureAlwaysPlays` | `[]PicturePlays` |
| `JobAlwaysLands` | `[]JobLands` |
| `RunAlwaysTold` | `[]RunIsTold` |
| `StreamsAlwaysLineUp` | `[]StreamsLineUp` |
| `MasterAlwaysHolds` | `[]MasterHolds` |

`ChainTells` compares what the chain reads as with what the folder was when it was closed, so
it needs to know that the two objects and the list of sums are still those of that moment.
`ChainInv` says they are, or fewer of them (`NoMore`), except where a fill was cut off between
its writes (`HalfFilled`): then the chain has a problem and nothing but an end follows. A folder
that was never closed has no `.complete`. From there, the proof is that a listing with a
file's name once determines it: `ListedCount` counts it by the bijection from its names. A
content is one of the model's three, two of one size.

`AudioIsOffered` picks by rank. `AudioRanks` and `SurroundRanks` bound the number a rank is
read as, so that one flag weighs more than all after it, whatever the number of tracks; a
least rank exists because the natural numbers are well founded (`LeastRank`); `Companions`
follows the plan of the 5.1 group. `GateIsExact` sets the source's reading of a track against
the entry's: `EntryReads` says that the entry, with the marks a manifest has room for and the
one put on it, is for what the source's track is for, so that each count and each language of
a package that keeps everything is the source's (`SubtitlesGate`, `MediaGate`). What a
subtitle may be marked and titled is `SubtitleSorts`, the seven kinds the run takes; that a
title says signs and songs or lyrics is not among them. `MediaGate` holds for any
number of audio tracks and any fonts, the specification takes two of each at most.

`CallsAreOnce` is about a session's last call, and needs what its client holds then, for any
number of calls, any lives of tokens and any time between calls: `TokenInv`, a client's token
is one it was given and is used until 30 s before its end, no less than a request may take
(`TokenEnsured`). `Attempted` says what one attempt sends, `Requested` that the second comes
only after a refusal, for which the token was thrown away, so that its own token is a newer
one. A process reports on at most two answers and prefers at most two languages in the
specification, and the folds over them are unrolled as far as that (`Rounds`,
`PreferredNamed`); for more of them nothing is proved.

`LevelsHold` bounds the sum of each row of a mix by the loudest row's (`LoudestRow`), the sums
being made part by part (`PartialSums`); a 5.1 fold is even left and right because each speaker
goes where the one across goes, mirrored (`GainMirrored`). `LiftHolds` goes through a lift's
passes, with any loudness and any makeup.

`PicturePlays` counts boxes and payloads in lists of any length: what a payload list reads as
is its parts' readings joined (`Of`, `SizeOf` of `s \o t`), so that what is put in at a place is
found there and the rest is as it was (`InsertedOf`), each box's declared size is its contents'
(`SizesHold`) at every level up to the file's (`BoxesHold`), and a chain of copies carries
the first frame's picture on (`ListSays`). A rational is written as the
number of units it is nearest to, and exactly half a unit as the next one up: the property had
left that one open to either, which the proof showed. Its inductions are over numbers: of the least
number where two recursive functions differ (`LeastNumber`), the step before it decides.

`JobLands` follows a path from where it is spelled to where it lands: `ItemFolders`,
`ExtraFolders` say what the catalog's block may hold, with any one of its values another
(`OneOffPaths`, `BlocksHavePaths`), `Resolved` what a run takes for its input of the handoff's,
and `EventTold`, `ExtraTold` what is left to do where an event is dropped.

`RunIsTold` has one argument for the subtitle files and one for each thing the catalog
keeps. A file takes its match of the copies that are left, in order, so that what one takes
depends on all before it (`MatchedIs`); but of those whose copy can be told, by path or by
bytes no other has, each gets its own whatever the others take (`Sure`, `SureTaken`). That is
so from the renditions to the copies (`PairsAre`) and from there to the files (`AnswersAre`), and
both together are the handover (`TracedIs`). An extra's first track is found by scanning the
source for what the encode carried: it has the place it was carried from, as the scan passes no
track of its codec over (`ScanFinds`, `OrdinalsAre`), and the tag's code comes back from the
table as the language it went in (`CodesAre`). `SourceBlockIs`, `ManifestJob` and `HandedJob`
are case distinctions.

`StreamsLineUp` is about any number of tracks, in the languages the catalog knows some of them
by. What is packaged as the n-th rendition is the (n+1)-th stream of the MP4 because both lists
are the tracks and then the companions (`EntriesOf`, `StreamsOf`, `JoinedAt`), and a lifted
rendition takes its place all the same; the language is the source's track's as in `RunIsTold` (`TracksAre`). A
group's lines are its renditions because the order that puts a language's main ones first gives each
of its places to one of them: the number of those that go before one tells it from the
others (`PlacesInOrder`, `MainFirstIs`). One line is the default because one entry is, which is picked by
rank as in `AudioIsOffered` (`AudioDefault`, `CompanionDefault`, `OneShown`); the done step's three numbers
are those of disjoint sets that make up the tracks shown (`ThreeKinds`). What the catalog
says is a fixed language for each place.

`MasterHolds` has three parts, each of jobs of its own; `PlayerReads` is their invariant.
`MasterInOrder` follows from what `MainFirstIs` says of the order: `RenditionsInOrder`, and of
a language's main renditions the first one offered is picked (`AudioPicked`, `SubtitlesPicked`);
two of one name that were given another are one and its number (`NamesApart`, `NumberOff`).
`BandwidthCovers`: a media playlist's peak is the most of finitely many rates, those of each
stretch of a length the peak is taken over among them (`StatsCover`, `MostOf`), and a
variant adds the most of its group's and of the subtitles' (`PeakOf`, `OneVariant`).
`MasterAgrees` goes from the lists to the lines: joined lists keep each line of each list once
(`ConcatenatedIs`), so that the master has four parts in known places (`MasterParts`,
`MasterPlaces`), the lines of the audio one for each rendition (`AudioLines`), those of the variants
one for each rung and group (`VariantLines`). A rendition's codec is what shaka tells of its
group, and where the group's line is lost what the code takes for it is the same: every stream line
of a group tells that group's codec (`StreamTells`, `ShakaTells`), and so do those that are left,
whichever they are (`LeftTell`, `AudioCodecIs`). Then what the parts say (`AudioLinesSay`,
`VariantLinesSay`, `RecordSays`) is what the manifest and the record do (`ManifestAgrees`,
`PlaylistAgrees`). The packages a playlist is written of are those of `WritePlaylist`: one or two
rungs, two stereo renditions and a companion at most, one subtitle; the lemmas hold for any number of
each (`IsPackage`).

For these proofs the helpers that select, count and join (`Kept`, `Concatenated`, `Matched`, `Of`, `SizeOf`) are
recursive functions and the records that have two sources are written out: the provers do not
see through a lambda, a fold or `@@`. `PlansProofs` begins with what is used of sequences in general: two
with the same elements are the same, what appending and joining leave where it was, that a
set of numbers has a least one.

Each inductive invariant of several parts was checked by TLC, part by part, on a small instance
before it was proved.

Only model-checked:

- liveness (`StagedComesHome`, `Settles`, `Completes`, `ReadyWorks`): fairness and ENABLED are
  out of the prover's reach.
- `NamesTellTracks`: what is left of a title is told by tables of words for each language, which the
  proof would have to go through word by word.
- `RecordTellsOriginal`: the records are made by all of those at once, from a file's name on.

## The plan

1. Done: every module above.
2. Done: theorems about every module with a state of its own over several steps.
   Done: of the decisions, a folder's chain, the audio, the deletion gate, the calls, the levels,
   the picture, where a run works, what the catalog is told, what the renditions play, the
   master.
   Next: `NamesTellTracks`, word table by word table.
3. `PackageStore` with the sweep's look and removal split, so that its race with
   a run (packager.py:1105) is in the model, and a reader process holding a file of a
   replaced entry.
4. An abstract specification of the two layouts' promise to a reader (one whole
   package or none), which `PackageStore` implements but for `OneGap` and
   `AddPackage` implements but for a failed rename back.

## What is not modelled, and why

- The tables of `regions.py` (14,802 lines of CLDR data): a few rows stand for them.
- Bytes: the layout of the records' JSON, of playlists, of SEI messages and of the
  fonts' name tables, timestamps, the parsing of single values. They hold no state, and the
  parts whose reading decides something are in the model as what they decide.
- Command lines. What a tool gives, or fails to, is nondeterministic.
- The resume of a probe, the libraries' own timeouts, logging, the HTTP server.
- The sweep of a store's `.next/` beside a run of its item (packager.py:1105): the same
  race as `LV_sweep`'s, and in the plan.
- Operator scripts (`src/scripts`) and the deployment, but for the two replicas and the
  probes.

`PROJECT.json` has a line for each part.
