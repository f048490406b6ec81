------------------------------ MODULE WorkerRecord ------------------------------
(***************************************************************************)
(* What one event of a worker's topic comes to before its run starts: the  *)
(* envelope (events.py), the worker record with its library block          *)
(* (katalog.py's parse_item_library and parse_extra_library), the guards   *)
(* (worker._handle_message, extras._handle_extra) and the inputs of the    *)
(* run (renditions.resolve_inputs, library.handoff).                       *)
(*                                                                         *)
(* A path is the sequence of its names; an id is "none" where the field is *)
(* missing, and UUIDS are those spelt as the catalog spells one.  A parse  *)
(* gives a set: the one thing it reads, or {} where it refuses.            *)
(***************************************************************************)
EXTENDS Naturals, FiniteSets, SequencesExt

CONSTANT UUIDS

(***************************************************************************)
(* The envelope: whether it is a JSON object, and what it says.            *)
(***************************************************************************)

ParseItemId(event) == IF event.object THEN {event.itemId} \ {"none"} ELSE {}
ParseExtraId(event) == IF event.object THEN {event.itemId} \cap UUIDS ELSE {}
IsTakein(event) == event.object /\ event.step = "takein"

(***************************************************************************)
(* The library block.                                                      *)
(***************************************************************************)

LIBRARY_CONTRACT == 1
BUILD_MODES == {"establish", "takein", "add", "repackage"}
MOVES_ORIGINAL == {"establish", "takein"}

\* Absolute and normalised.
AbsPath(path) == path # <<>> /\ Range(path) \cap {"..", ""} = {}

\* The folder is the one the record's own rule gives.
In(path, folder, name) == path = Append(folder, name)

\* Mutant of InStaging: any folder is cleared and built in.
InStagingAny(path, name) == TRUE

InStaging(path, name) == In(path, Front(path), name)

\* The episodes a file of several holds, each once, its holder first.
Covers(covers, itemId, type) ==
  /\ Range(covers) \subseteq UUIDS /\ Cardinality(Range(covers)) = Len(covers)
  /\ covers # <<>> => covers[1] = itemId /\ type \in {"none", "episode"}

\* shaped: the sizes, hashes and marks are what they have to be.
ParseItemLibrary(lib, itemId, type) ==
  /\ lib.contract = LIBRARY_CONTRACT /\ ~ lib.blocked /\ lib.shaped
  /\ \A path \in {lib.root, lib.itemDir, lib.recordDir, lib.versionDir, lib.stagingDir, lib.inboxDir} :
       AbsPath(path)
  /\ IsStrictPrefix(lib.root, lib.itemDir)
  /\ lib.sourceId \in UUIDS /\ lib.versionId \in UUIDS
  /\ Covers(lib.covers, itemId, type)
  /\ In(lib.recordDir, Append(lib.itemDir, "sources"), lib.sourceId)
  /\ lib.mode \in BUILD_MODES \cup {"none"}
  /\ lib.mode \in MOVES_ORIGINAL => lib.originalName = "original"
  /\ In(lib.versionDir, Append(lib.itemDir, "versions"), lib.versionId)
  /\ InStaging(lib.stagingDir, lib.versionId)

ParseExtraLibrary(lib, extraId) ==
  /\ lib.contract = LIBRARY_CONTRACT /\ lib.shaped
  /\ \A path \in {lib.itemDir, lib.stagingDir, lib.versionDir, lib.inboxDir} : AbsPath(path)
  /\ In(lib.versionDir, Append(lib.itemDir, "extras"), extraId)
  /\ InStaging(lib.stagingDir, "extra-" \o extraId)

\* What a record says: nothing of a library, one that can be worked from, or
\* one that is refused.
ItemLibrary(record) ==
  IF record.library = {} THEN "none"
  ELSE IF \A lib \in record.library : ParseItemLibrary(lib, record.id, record.type) THEN "read" ELSE "refused"

ExtraLibrary(record) ==
  IF record.library = {} THEN "none"
  ELSE IF \A lib \in record.library : ParseExtraLibrary(lib, record.id) THEN "read" ELSE "refused"

(***************************************************************************)
(* The transcoder's handoff.  An inbox: what its renditions.json says ({}  *)
(* for none: its version and its rungs) and the files that are in it.      *)
(***************************************************************************)

SUPPORTED_VERSIONS == {1}

\* A file of an inbox, or the original (in no inbox).
File(inbox, name) == [inbox |-> inbox, name |-> name]
Original == File("none", "original")
FileOf(inbox, rung) == IF rung.file = "none" THEN Original ELSE File(inbox.name, rung.file)

Files(inbox) == {File(inbox.name, name) : name \in inbox.files}

\* What made a rung's stream, "none" where nothing says.
EncoderOf(rung) ==
  IF rung.encoder # "none" THEN rung.encoder
  ELSE IF rung.file = "none" \/ rung.mode = "copy" THEN "copy" ELSE "none"

Input(file, encoder) == [file |-> file, encoder |-> encoder]

\* Mutant of Usable: what is there is packaged, the top rung or not.
UsableWithout(inbox, rungs, there) == \E i \in DOMAIN rungs : FileOf(inbox, rungs[i]) \in there

\* A lower rung that is missing is left out; without the top one the step fails.
Usable(inbox, rungs, there) == rungs # <<>> /\ FileOf(inbox, rungs[1]) \in there

\* The inputs of the rungs that are there, in their order.
InputsOf(inbox, rungs, there) ==
  LET inputs[n \in 0 .. Len(rungs)] ==
        IF n = 0 THEN <<>>
        ELSE IF FileOf(inbox, rungs[n]) \in there
        THEN Append(inputs[n - 1], Input(FileOf(inbox, rungs[n]), EncoderOf(rungs[n])))
        ELSE inputs[n - 1]
  IN inputs[Len(rungs)]

FromContract(inbox, contract, there) ==
  IF contract.version \notin SUPPORTED_VERSIONS \/ ~ Usable(inbox, contract.video, there) THEN {}
  ELSE {InputsOf(inbox, contract.video, there)}

ResolveInputs(inbox, there) ==
  IF inbox.contract # {} THEN UNION {FromContract(inbox, c, there) : c \in inbox.contract}
  ELSE IF "prepared" \in inbox.files THEN {<<Input(File(inbox.name, "prepared"), "transcoder")>>}
  ELSE {<<Input(Original, "copy")>>}

HasHandoff(inbox) == inbox.contract # {} \/ "prepared" \in inbox.files

\* The record's inbox, or the package store's where only that has a handoff.
Handoff(inbox, legacy) == IF HasHandoff(inbox) \/ ~ HasHandoff(legacy) THEN inbox ELSE legacy

(***************************************************************************)
(* What an event comes to: it is acked, its step fails, or a run starts in *)
(* a mode, with its inputs, in folders of its own (the package store's are *)
(* not the record's).                                                      *)
(***************************************************************************)

Acked == [does |-> "acked", step |-> "none", inputs |-> <<>>, into |-> {}]
Failed(step) == [does |-> "failed", step |-> step, inputs |-> <<>>, into |-> {}]

\* A run whose handoff was read starts with the file that carries its tracks.
Started(mode, step, inputs, into, there) ==
  LET run == CHOOSE i \in inputs : TRUE
  IN IF inputs = {} THEN Failed(step)
     ELSE IF run[1].file \notin there THEN Failed(step)
     ELSE [does |-> mode, step |-> step, inputs |-> run, into |-> into]

FINISHED == {"done", "not_applicable", "skipped"}

FoldersOf(lib) == {lib.versionDir, lib.stagingDir}

\* The record's folders, for an item in the library; anything but a takein
\* job's record is packaged.
ProcessLibrary(lib, steps, inbox, legacy, there) ==
  LET handoff == Handoff(inbox, legacy)
      inputs == ResolveInputs(handoff, there)
  IN IF lib.mode = "takein" THEN Acked
     ELSE IF ~ HasHandoff(handoff) /\ steps.transcode = "done" THEN Failed("package")
     ELSE Started(IF lib.mode = "none" THEN "repackage" ELSE lib.mode, "package", inputs, FoldersOf(lib), there)

ProcessOne(record, steps, inbox, legacy, there) ==
  LET library == ItemLibrary(record)
  IN IF library = "refused" THEN Failed("package")
     ELSE IF library = "none" THEN Started("store", "package", ResolveInputs(legacy, there), {}, there)
     ELSE ProcessLibrary(CHOOSE l \in record.library : TRUE, steps, inbox, legacy, there)

ProcessTakein(record, there) ==
  LET library == ItemLibrary(record)
      lib == CHOOSE l \in record.library : TRUE
  IN IF library = "refused" THEN Failed("takein")
     ELSE IF library = "none" THEN Acked
     ELSE IF lib.mode # "takein" THEN Acked
     ELSE Started("takein", "takein", {<<Input(Original, "copy")>>}, FoldersOf(lib), there)

\* records: {} for an item the catalog doesn't know.
HandleMessage(event, records, steps, inbox, legacy, there) ==
  LET record == CHOOSE r \in records : TRUE
  IN IF ParseItemId(event) = {} \/ records = {} THEN Acked
     ELSE IF IsTakein(event)
     THEN IF steps.takein \in FINISHED THEN Acked ELSE ProcessTakein(record, there)
     ELSE IF steps.package \in FINISHED \/ steps.transcode \notin FINISHED \cup {"none"} THEN Acked
     ELSE ProcessOne(record, steps, inbox, legacy, there)

ProcessExtraLibrary(record, lib, inbox, legacy, there) ==
  IF record.path = "none" THEN Failed("package")
  ELSE Started("extra", "package", ResolveInputs(Handoff(inbox, legacy), there), FoldersOf(lib), there)

\* Without a library an extra is played under its title only: it needs one.
ProcessExtra(record, event, inbox, legacy, there) ==
  LET library == ExtraLibrary(record)
      titled == record.parentId # "none" \/ event.parentId # "none"
  IN IF library = "refused" THEN Failed("package")
     ELSE IF library = "read"
     THEN ProcessExtraLibrary(record, CHOOSE l \in record.library : TRUE, inbox, legacy, there)
     ELSE IF ~ titled \/ record.path = "none" THEN Failed("package")
     ELSE Started("store", "package", ResolveInputs(legacy, there), {}, there)

HandleExtra(event, records, inbox, legacy, there) ==
  LET record == CHOOSE r \in records : TRUE
  IN IF ParseExtraId(event) = {} \/ records = {} THEN Acked
     ELSE IF record.removed \/ record.state \in {"missing", "ready"} THEN Acked
     ELSE ProcessExtra(record, event, inbox, legacy, there)
=============================================================================
