-------------------------------- MODULE Readings --------------------------------
(***************************************************************************)
(* What a worker reads before it acts and what it works out of what it     *)
(* reads: where an event and its record send a run (WorkerRecord), the     *)
(* renditions a source's audio becomes (AudioRenditions) and their names   *)
(* (TrackNames), and the subtitle files beside it (Sidecars).  One job of  *)
(* each kind is taken, and what came of it is checked.                     *)
(***************************************************************************)
EXTENDS TrackNames, WorkerRecord, AudioRenditions, Sidecars

CONSTANTS
  NameTags,    \* the tags of the named tracks
  SourceSize,  \* the most audio tracks of a source that is encoded
  Levels       \* what a mix is measured at, in tenths of a decibel under full scale

ASSUME ReadingsAssumption ==
  SourceSize \in Nat /\ Levels \subseteq Nat /\ {"i", "s", "v", "e"} \subseteq UUIDS

VARIABLE job  \* the decision that was taken, with what it was taken on

UpTo(n, S) == UNION {[1 .. k -> S] : k \in 0 .. n}

(***************************************************************************)
(* Names.                                                                  *)
(***************************************************************************)

\* The tokens of the titles a language's tracks have.
Vocabulary(key) ==
  {"comentario", "sdh", "5.1", "ac3", "#2"} \cup
  CASE key = "pt" -> {"portuguese", "portugues", "brasil", "brazilian", "europeu", "BR", "PT",
                      "por", "pt-BR", "pt-PT", "por-comentario"}
    [] key = "zh" -> {"chinese", "zhongwen", "traditional", "chs", "TW", "taiwan",
                      "zho", "zh-Hant", "zh-Hans-TW"}
    [] OTHER -> {"english", "uk", "eng", "en-GB-x-own", "und"}

Part(main, brackets) == [main |-> main, brackets |-> brackets]

\* One part with a bracket or none, brackets alone, or two parts.
Titles(key) ==
  LET words == Vocabulary(key)
      brackets == UpTo(1, [{1} -> words])
  IN ({<<Part(m, b)>> : m \in UpTo(2, words), b \in brackets} \ {<<Part(<<>>, <<>>)>>})
     \cup {<<Part(<<>>, b)>> : b \in [1 .. 2 -> [{1} -> words]]}
     \cup {<<Part(<<a>>, b), Part(<<c>>, <<>>)>> : a \in words, c \in words, b \in brackets}

NameTrack ==
  /\ job.kind = "none"
  /\ \E tag \in NameTags : \E title \in Titles(tag.key) :
       job' = [kind |-> "name", tag |-> tag, title |-> title, name |-> TrackName(tag, title)]

(***************************************************************************)
(* Events.                                                                 *)
(***************************************************************************)

\* A library block as the catalog writes one for item i, or for its extra e.
Block(mode) ==
  [contract |-> 1, blocked |-> FALSE, shaped |-> TRUE, root |-> <<"lib">>, itemDir |-> <<"lib", "item">>,
   recordDir |-> <<"lib", "item", "sources", "s">>, versionDir |-> <<"lib", "item", "versions", "v">>,
   stagingDir |-> <<"lib", "staging", "v">>, inboxDir |-> <<"lib", "inbox", "i">>,
   sourceId |-> "s", versionId |-> "v", covers |-> <<>>, mode |-> mode, originalName |-> "original"]

ExtraBlock == [Block("none") EXCEPT !.versionDir = <<"lib", "item", "extras", "e">>,
                                    !.stagingDir = <<"lib", "staging", "extra-e">>]

\* What one of its fields may say instead.
OneOff(lib) ==
  LET other(path) == {Append(Front(path), "other"), <<"other">> \o Tail(path), <<>>,
                      <<"..">> \o Tail(path), path}
  IN {[lib EXCEPT !.contract = 2], [lib EXCEPT !.blocked = TRUE], [lib EXCEPT !.shaped = FALSE],
      [lib EXCEPT !.root = <<"lib", "item">>], [lib EXCEPT !.sourceId = "no"], [lib EXCEPT !.versionId = "w"],
      [lib EXCEPT !.originalName = "none"], [lib EXCEPT !.mode = "other"]}
     \cup {[lib EXCEPT !.itemDir = p] : p \in other(lib.itemDir)}
     \cup {[lib EXCEPT !.recordDir = p] : p \in other(lib.recordDir)}
     \cup {[lib EXCEPT !.versionDir = p] : p \in other(lib.versionDir)}
     \cup {[lib EXCEPT !.stagingDir = p] : p \in other(lib.stagingDir)}
     \cup {[lib EXCEPT !.inboxDir = p] : p \in other(lib.inboxDir)}
     \cup {[lib EXCEPT !.covers = c] : c \in {<<"i", "s">>, <<"s", "i">>, <<"i", "i">>, <<"i", "no">>}}

WorkRecord(library, type, id, state) ==
  [id |-> id, type |-> type, library |-> library, removed |-> state = "removed", state |-> state,
   parentId |-> IF state = "placed" THEN "i" ELSE "none", path |-> IF state = "pathless" THEN "none" ELSE "path"]

WorkEvent(step, id) == [object |-> TRUE, itemId |-> id, step |-> step, parentId |-> "none"]

WorkInbox(name, contract, files) == [name |-> name, contract |-> contract, files |-> files]
NoInbox(name) == WorkInbox(name, {}, {})

Rungs == {[file |-> "none", mode |-> "copy", encoder |-> "none"],
          [file |-> "r1", mode |-> "encode", encoder |-> "none"],
          [file |-> "r2", mode |-> "encode", encoder |-> "gpu"]}

Contracts == {[version |-> v, video |-> rungs] : v \in {1, 2}, rungs \in UpTo(2, Rungs)}

\* What the transcoder may have left: nothing, an old handoff, a contract.
Inboxes ==
  {WorkInbox("own", c, files) : files \in {{}, {"prepared"}, {"r1"}, {"r1", "r2"}},
                                c \in {{}} \cup {{contract} : contract \in Contracts}}

Legacies == {NoInbox("legacy"), WorkInbox("legacy", {}, {"prepared"})}

\* The files that are there: an inbox's, the original or not.
There(inbox, legacy) == {Files(inbox) \cup Files(legacy) \cup o : o \in {{}, {Original}}}

StepsOf == [transcode : {"none", "pending", "done", "not_applicable"}, package : {"pending", "done"},
            takein : {"pending", "skipped"}]

Read(event, records, steps, inbox, legacy, there) ==
  [kind |-> "event", event |-> event, records |-> records, steps |-> steps, inbox |-> inbox,
   legacy |-> legacy, there |-> there,
   out |-> HandleMessage(event, records, steps, inbox, legacy, there)]

\* Events of no item, of no object, and of an item that has no record.
OddEvents(step) == {WorkEvent(step, "none"), [WorkEvent(step, "i") EXCEPT !.object = FALSE], WorkEvent(step, "i")}

\* An item's event: every handoff with the records as they should be, every
\* record with a handoff as it should be.
ReadEvent ==
  /\ job.kind = "none"
  /\ \E step \in {"package", "takein"}, steps \in StepsOf :
       \/ \E mode \in BUILD_MODES \cup {"none"}, inbox \in Inboxes, legacy \in Legacies :
          \E there \in There(inbox, legacy), library \in {{}, {Block(mode)}} :
            job' = Read(WorkEvent(step, "i"), {WorkRecord(library, "none", "i", "new")}, steps, inbox, legacy, there)
       \/ \E mode \in {"establish", "takein", "repackage"}, type \in {"episode", "movie"} :
          \E lib \in OneOff(Block(mode)) :
            job' = Read(WorkEvent(step, "i"), {WorkRecord({lib}, type, "i", "new")}, steps,
                        NoInbox("own"), NoInbox("legacy"), {Original})
       \/ \E event \in OddEvents(step) :
            job' = Read(event, {}, steps, NoInbox("own"), NoInbox("legacy"), {Original})

\* An extra's.
ReadExtra ==
  /\ job.kind = "none"
  /\ \E id \in {"e", "no", "none"}, state \in {"new", "placed", "pathless", "removed", "missing", "ready"},
        library \in {{}} \cup {{lib} : lib \in {ExtraBlock} \cup OneOff(ExtraBlock)},
        inbox \in {NoInbox("own"), WorkInbox("own", {}, {"prepared"})}, known \in BOOLEAN :
       LET event == WorkEvent("package", id)
           records == IF known THEN {WorkRecord(library, "none", id, state)} ELSE {}
           there == Files(inbox) \cup {Original}
       IN job' = [kind |-> "extra", event |-> event, records |-> records, inbox |-> inbox, there |-> there,
                  out |-> HandleExtra(event, records, inbox, NoInbox("legacy"), there)]

(***************************************************************************)
(* Audio.                                                                  *)
(***************************************************************************)

MixAudio ==
  /\ job.kind = "none"
  /\ \E channels \in 1 .. 8, layout \in DOWNMIX_LAYOUTS \cup SURROUND_FOLD_LAYOUTS \cup {<<>>} :
       job' = [kind |-> "mix", channels |-> channels, layout |-> layout,
               stereo |-> StereoMix(channels, layout), surround |-> SurroundMix(channels, layout)]

\* What a pass may come to: nothing, or a level about the one asked and a peak.
Passes(level) ==
  {{}} \cup {{[integrated |-> level + off, peak |-> peak]} : off \in {-6, -5, 0, 6}, peak \in {-21, -20, -5}}

\* What ffprobe reads of the lifted rendition and of the one it replaces.
Timings ==
  LET timing(start, duration) == [base |-> 1000, start |-> start, frames |-> 8, duration |-> duration]
  IN {<<lifted, {timing(0, 170)}>> : lifted \in {{}, {timing(0, 168)}, {timing(0, 173)}, {timing(1, 170)}}}

\* What the settings may ask for, and what may be measured of a track.
Targets ==
  {WithSettings({-240}, setting) : setting \in {<<>>, <<"off">>, <<"at", -200>>, <<"at", 0>>}}

Loudnesses == {{}} \cup {{[integrated |-> - l, seconds |-> s]} : l \in Levels, s \in {2, 3}}

\* Each of two passes may have made anything of it.
LiftIt(target, loudness, makeup, timing, flat) ==
  LET lifts == StereoLift(loudness, makeup, target)
      level == (CHOOSE l \in loudness : TRUE).integrated + makeup + (CHOOSE l \in lifts : TRUE)
      passes == IF lifts = {} THEN {{}} ELSE Passes(level)
      probes == IF lifts = {} THEN {} ELSE {<<level - 10, level + (IF flat THEN -8 ELSE 20)>>}
      run(first, second) ==
        [loudness |-> loudness, probes |-> probes, made |-> <<first, second>>, timing |-> timing]
  IN \E first \in passes, second \in passes :
       job' = [kind |-> "lift", target |-> target, run |-> run(first, second), makeup |-> makeup,
               out |-> LiftOne(run(first, second), makeup, target)]

LiftMix ==
  /\ job.kind = "none"
  /\ \E target \in Targets, loudness \in Loudnesses, makeup \in {0, 60}, timing \in Timings, flat \in BOOLEAN :
       LiftIt(target, loudness, makeup, timing, flat)

\* A track of a source, which says no language.
SourceTracks ==
  {[lang |-> "und", codec |-> c, ch |-> t[1], marks |-> {}, says |-> t[2]] :
     c \in {"aac", "truehd"}, t \in {<<2, {}>>, <<6, {}>>, <<6, {"commentary"}>>}}

\* The languages the catalog gives a source's tracks.
CatalogLanguage(k) == <<"en", "de", "fr", "en", "de">>[k]

\* The transcoder's encode carries the source's tracks in order, but those of
\* a codec it can't carry.
Carried(source, dropped) == InOrder({i \in DOMAIN source : source[i].codec \notin dropped}, Len(source))

\* The catalog knows some tracks' languages; some
\* quiet mixes are lifted.
AudioPackage(source, kept, known, tracks, whitelist, room, lift) ==
  LET visible == VisibleIndices(tracks, whitelist, FALSE)
      default == PickDefaultAudio(tracks, visible, <<>>)
      plan == SurroundPlan(tracks, visible, default, "eac3")
      companions == InOrder(plan, Len(tracks))
      shown == ShownTracks(tracks, visible, default)
      signals == StereoSignals(shown, {-240}, room)
      marks == Marks(shown, [i \in signals |-> IF i \in lift THEN "lifted" ELSE "kept"], {-240})
      entries == AudioEntries(tracks, companions, marks, visible, default,
                              PickDefaultSurround(plan, tracks, visible, default, <<>>))
  IN [kind |-> "streams", source |-> source, kept |-> kept, known |-> known, tracks |-> tracks,
      lifted |-> lift \cap signals, plan |-> plan, primary |-> PrimaryStreams(tracks, companions),
      entries |-> entries, details |-> Details(entries, StereoLoudnessOf(marks, {-240}))]

PackageAudio ==
  /\ job.kind = "none"
  /\ \E source \in UpTo(SourceSize, SourceTracks), dropped \in {{}, {"truehd"}},
        known \in SUBSET (1 .. SourceSize) :
     \E kept \in {Carried(source, dropped)} :
     \E tracks \in {WithTrackLanguages("audio", [p \in DOMAIN kept |-> source[kept[p]]], source,
                      TrackOverrides([k \in 1 .. SourceSize |->
                        [kind |-> "audio", ordinal |-> k, lang |-> CatalogLanguage(k), valid |-> k \in known]]))} :
     \E whitelist \in {{}, {"en"}}, room \in {1, SourceSize}, lift \in SUBSET DOMAIN kept :
       job' = AudioPackage(source, kept, known, tracks, whitelist, room, lift)

(***************************************************************************)
(* Subtitle files.                                                         *)
(***************************************************************************)

SidecarJob(files, copies, recorded) ==
  LET pairs == CopiesOf(Converted(files), files, copies)
  IN [kind |-> "sidecars", files |-> files, copies |-> copies, recorded |-> recorded, pairs |-> pairs,
      handover |-> Handover(pairs, files, copies)]

SidecarFile(k, path, bytes, taken, copied, converts) ==
  [asset |-> <<"a", "b", "none">>[k], path |-> path, bytes |-> bytes, taken |-> taken, copied |-> copied,
   converts |-> converts]

\* The run that records the source copies what it is told of.
CopySidecars ==
  /\ job.kind = "none"
  /\ \E told \in UpTo(3, {"x", "y"} \X BOOLEAN \X BOOLEAN \X BOOLEAN) :
     \E files \in {SubtitleFiles([k \in DOMAIN told |->
                     SidecarFile(k, <<"beside", k>>, told[k][1], told[k][2], told[k][3], told[k][4])])} :
       job' = SidecarJob(files, StageCopies(files), FALSE)

\* A later run finds the copies recorded; the catalog names one of them, or a
\* file that is where it was, or a new one.
FindSidecars ==
  /\ job.kind = "none"
  /\ \E copies \in UpTo(3, {"x", "y"}), told \in UpTo(3, {"x", "y"} \X (0 .. 3) \X BOOLEAN) :
       /\ \A k \in DOMAIN told : told[k][2] # 0 => told[k][2] \in DOMAIN copies /\ copies[told[k][2]] = told[k][1]
       /\ \A j, k \in DOMAIN told : told[j][2] = told[k][2] => j = k \/ told[j][2] = 0
       /\ \E files \in {[k \in DOMAIN told |->
            SidecarFile(k, IF told[k][2] = 0 THEN <<"beside", k>> ELSE <<"record", told[k][2]>>,
                        told[k][1], TRUE, TRUE, told[k][3])]} :
            job' = SidecarJob(files, RecordedCopies(copies), TRUE)

Reading ==
  \/ NameTrack \/ ReadEvent \/ ReadExtra \/ MixAudio \/ LiftMix \/ PackageAudio \/ CopySidecars \/ FindSidecars

(***************************************************************************)
(* Properties.                                                             *)
(***************************************************************************)

\* A name says what its track is for, and once.
Once(said, purpose) ==
  /\ said.purpose \notin Purposes(said.words)
  /\ {purpose} \ {"main", "dialogue"} \subseteq Purposes(said.words) \cup {said.purpose}

\* A rendition's name tells its track from the others of its language: the
\* script and the region of its tag stay in it whatever its title says, one
\* it shows beside them is one a piece of the title names, and no piece of
\* the title is gone that the name doesn't say otherwise; what its record
\* says it is for is in it once (_track_display_name, _read_title).
NamesTellTracks ==
  job.kind = "name" /\ job.tag.key \in DOMAIN LANGUAGE_NAMES =>
    LET key == job.tag.key
        own == LanguageParts(job.tag)
        shown == job.name.language.says
        pieces == Range(PiecesOf(job.title))
        says(p) == PieceSays(p.words, key, p.bracketed)
        told(p) == \E s \in says(p) : /\ s.script \in {"", shown.script}
                                      /\ s.region = "" \/ SameRegion(s.region, shown.region)
        left(p) == Range(p.words) \ (LayoutWords \cup Numbers \cup NamesOf(key))
        \* one code, the language's own or none's
        coded(p) == \E w \in DOMAIN CodeOf :
                      left(p) = {w} /\ CodeOf[w].key \in NoLanguageCodes \cup {key}
    IN /\ job.name.language.key = key
       /\ own.script # "" => shown.script = own.script
       /\ own.region # "" => shown.region = own.region
       /\ shown.script # own.script => \E p \in pieces : \E s \in says(p) : s.script = shown.script
       /\ shown.region # own.region => \E p \in pieces : \E s \in says(p) : s.region = shown.region
       /\ TokensOf(job.title) \cap FormatWords = {} =>
            \A p \in pieces : told(p) \/ coded(p) \/ left(p) \subseteq TokensOf(job.name.words)
       /\ \A purpose \in {"commentary", "description", "main"} :
            Once(AudioDisplayName(job.name, purpose), purpose)
       /\ \A purpose \in {"commentary", "sdh", "dialogue"}, forced \in BOOLEAN :
            Once(SubtitleDisplayName(job.name, purpose, forced), IF forced THEN "forced" ELSE purpose)

\* A run has its inputs, the first of them there, and leaves the package
\* store alone where the record has a library.
RunsFromWhatIsThere(runs, library, out, there) ==
  runs => /\ Range(out.inputs) # {} /\ (out.does = "store") = (library = {})
          /\ out.inputs[1].file \in there

\* It works in folders of its own version, in the place its layout has.
WorksInItsFolders(lib, id, into) ==
  /\ lib.contract = LIBRARY_CONTRACT /\ id \in UUIDS
  /\ \A folder \in into : Last(folder) \in {id, "extra-" \o id} /\ Last(Front(folder)) # "sources"
  /\ lib.versionDir \in into /\ IsStrictPrefix(lib.itemDir, lib.versionDir)

AnItemsOwn(lib) ==
  /\ ~ lib.blocked /\ IsStrictPrefix(lib.root, lib.versionDir)
  /\ lib.covers # <<>> => lib.covers[1] = "i"

\* Only what the handoff calls a copy, and the original, is taken for one.
CopiesAreCopies(inputs, inbox) ==
  \A input \in inputs : input.encoder = "copy" /\ input.file # Original =>
    \E c \in inbox.contract : \E rung \in Range(c.video) :
      rung.file = input.file.name /\ "copy" \in {rung.mode, rung.encoder}

\* The handoff's rungs are the inputs, its top rung the first.
IsTheContracts(inputs, inbox) ==
  \E c \in inbox.contract :
    /\ inputs[1].file = FileOf(inbox, c.video[1]) /\ c.version \in SUPPORTED_VERSIONS
    /\ Range(inputs) \subseteq {Input(FileOf(inbox, r), EncoderOf(r)) : r \in Range(c.video)}

\* Nothing is left to do for an item's event that is dropped.
RightlyDropped(event, records, steps, library, lib) ==
  \/ records = {}
  \/ steps[event.step] \in FINISHED
  \/ event.step = "package" /\ steps.transcode = "pending"
  \/ library = {} /\ event.step = "takein"
  \/ library # {} /\ (lib.mode = "takein") # (event.step = "takein")

\* What came of a job of either kind, of the item or the extra of this id.
Lands(j, runs, library, lib, id) ==
  /\ RunsFromWhatIsThere(runs, library, j.out, j.there)
  /\ runs /\ library # {} => WorksInItsFolders(lib, id, j.out.into)
  /\ CopiesAreCopies(Range(j.out.inputs), j.inbox)

EventLands(j, runs, library, lib) ==
  /\ runs /\ library # {} => AnItemsOwn(lib)
  /\ runs /\ library # {} /\ j.inbox.contract # {} /\ j.out.step = "package" => IsTheContracts(j.out.inputs, j.inbox)
  /\ j.out.does = "takein" => j.out.step = "takein" /\ lib.mode = "takein"
  /\ runs /\ library # {} /\ j.steps.transcode = "done" /\ j.out.step = "package" =>
       HasHandoff(j.inbox) \/ HasHandoff(j.legacy)
  /\ runs => j.steps[j.out.step] \notin FINISHED
  /\ j.out.does = "acked" => RightlyDropped(j.event, j.records, j.steps, library, lib)

ExtraLands(j, record) ==
  j.out.does = "acked" =>
    j.records = {} \/ j.event.itemId \notin UUIDS \/ record.state \in {"removed", "missing", "ready"}

\* Wherever an event, its record and its handoff come from, a run works in
\* folders of its own version only, in the place its layout has, from a top
\* rung that is there; nothing is taken for a copy of the original but what
\* is one; an encode that was made and is gone is not replaced by the
\* original; and an event is dropped only where nothing is left to do for it
\* (parse_item_library, resolve_inputs, _handle_message, _handle_extra).
JobLands ==
  job.kind \in {"event", "extra"} =>
    LET runs == job.out.does \notin {"acked", "failed"}
        record == CHOOSE r \in job.records : TRUE
        lib == CHOOSE l \in record.library : TRUE
    IN /\ job.kind = "event" =>
            /\ Lands(job, runs, record.library, lib, lib.versionId)
            /\ EventLands(job, runs, record.library, lib)
       /\ job.kind = "extra" =>
            /\ Lands(job, runs, record.library, lib, job.event.itemId)
            /\ ExtraLands(job, record)

\* No channel's name but the effects' is left out of a mix, and each side
\* gets of a channel what the other gets of its mirror.
Mirror ==
  [FL |-> "FR", FR |-> "FL", BL |-> "BR", BR |-> "BL", SL |-> "SR", SR |-> "SL", FLC |-> "FRC", FRC |-> "FLC",
   FC |-> "FC", BC |-> "BC", LFE |-> "LFE"]

Fair(mix, layout, otherRow) ==
  LET gain(out, name) == IF name \in DOMAIN mix.rows[out] THEN mix.rows[out][name] ELSE 0
  IN \A out \in DOMAIN mix.rows :
       /\ \A name \in Range(layout) : gain(out, name) = gain(otherRow[out], Mirror[name])
       /\ SumOf(mix.rows[out]) <= mix.total
       /\ \A name \in Range(layout) \ {"LFE"} : \E any \in DOMAIN mix.rows : gain(any, name) > 0

\* What came of a mix's lift, of the run it was measured and made in.
RightlyLifted(out, run, makeup, target) ==
  LET loudness == CHOOSE l \in run.loudness : TRUE
      before == loudness.integrated + makeup
      last == CHOOSE m \in run.made[Len(out.passes)] : TRUE
      first == CHOOSE m \in run.made[1] : TRUE
      quiet == /\ loudness.seconds >= LIFT_MIN_SECONDS /\ loudness.integrated > SILENT
               /\ \E t \in target : before < t - LIFT_WITHIN
      lower == out.passes[2].ceiling - out.passes[1].ceiling
      more == out.passes[2].makeup - out.passes[1].makeup
  IN /\ out.mark = "lifted" =>
          /\ run.loudness # {} /\ quiet
          /\ \E a, b \in UNION Range(run.timing) :
               run.timing = <<{a}, {b}>> /\ b.start = a.start /\ b.frames = a.frames
               /\ 1000 * (b.duration - a.duration) \in -2 * a.base .. 2 * a.base
          /\ \E t \in target : out.level = t \/ (out.level < t /\ out.level = before + LIFT_MAX)
          /\ run.made[Len(out.passes)] # {} /\ last.peak < LIFT_TRUE_PEAK
          /\ Len(out.passes) = 1 => last.integrated - out.level \in -LIFT_TOLERANCE .. LIFT_TOLERANCE
          /\ Len(out.passes) = 2 =>
               /\ lower < 0 \/ more # 0
               /\ first.peak + lower < LIFT_TRUE_PEAK
               /\ first.integrated + more - out.level \in -LIFT_TOLERANCE .. LIFT_TOLERANCE
     /\ out.mark = "kept" => run.loudness # {} /\ ~ quiet
     /\ out.mark = "skipped" => run.loudness = {} \/ quiet

\* A rendition is as loud as its track was meant.  A mix is of the channels
\* there are, none lost and no side preferred; one is lifted only to a level
\* the settings ask for, never past it nor by more than the most, and only
\* where what was encoded has been measured under the true peak and has its
\* rendition's timing; made twice, the second pass undoes what the first got
\* wrong; it is left as it is where it is loud enough, short or silent
\* (_stereo_chain, _surround_filter, _lift_one, _stereo_lift).
LevelsHold ==
  /\ job.kind = "mix" =>
       /\ \A mix \in {job.stereo, job.surround} : mix.by = "matrix" => Len(job.layout) = job.channels
       /\ Fair(job.stereo, job.layout, <<2, 1>>)
       /\ Fair(job.surround, job.layout, [out \in SURROUND_CHANNELS |-> Mirror[out]])
  /\ job.kind = "lift" => RightlyLifted(job.out, job.run, job.makeup, job.target)

\* Every rendition plays what its entry says: the track of the encode it was
\* made of, in its group's mix or lifted where it is marked so, in the
\* language the catalog knows that track by in the source, whatever codecs
\* the encode left out and whichever mixes were lifted; no track is heard
\* twice in a group or is missing, the done step counts each shown track once,
\* and each group shows one default (_with_track_languages, _prepare_source,
\* _run_shaka_packager, build_master, _stereo_loudness_of).
StreamsLineUp ==
  job.kind = "streams" =>
    LET e == job.entries
        from(n) == PackagedFrom(job.primary, e, n)
        source(n) == job.kept[e[n].idx]
        idx(group) == {e[n].idx : n \in {k \in DOMAIN e : e[k].group = group}}
    IN /\ \A n \in DOMAIN e :
            /\ from(n).track = e[n].idx
            /\ from(n).mix = (IF e[n].group # "audio" THEN "surround"
                              ELSE IF e[n].idx \in job.lifted THEN "lifted" ELSE "stereo")
            /\ e[n].lang = (IF source(n) \in job.known THEN CatalogLanguage(source(n)) ELSE "und")
            /\ e[n].purpose = AudioPurpose(job.source[source(n)])
            /\ e[n].group = "audio-surround" => job.source[source(n)].ch > 2
       /\ idx("audio") = DOMAIN job.tracks /\ idx("audio-surround") = job.plan
       /\ Len(e) = Len(job.tracks) + Cardinality(job.plan)
       /\ job.details.st.lifted = Cardinality({n \in DOMAIN e : e[n].own})
       /\ job.details.st.lifted + job.details.st.kept + job.details.st.skipped =
            Cardinality({n \in DOMAIN e : e[n].group = "audio" /\ (e[n].visible \/ e[n].default)})
       /\ \A group \in GroupsOf(e) :
            LET lines == MediaLines(e, group)
                shows == {p \in DOMAIN lines : lines[p].default}
            IN /\ {lines[p].n : p \in DOMAIN lines} = {n \in DOMAIN e : e[n].group = group}
               /\ Cardinality(shows) = 1 /\ \A p \in shows : lines[p].autoselect
               /\ \A p \in shows : ~ e[lines[p].n].visible =>
                    \A n \in {lines[q].n : q \in DOMAIN lines} : ~ e[n].visible

\* The files of the same bytes, and the copies of this file by its path.
Alike(f, k) == {j \in DOMAIN f : f[j].bytes = f[k].bytes}
CopyAt(f, copies, k) == {i \in DOMAIN copies : copies[i].path = f[k].path}

\* It can be told from those of its bytes.
Certain(f, copies, k) == Alike(f, k) = {k} \/ \A j \in Alike(f, k) : CopyAt(f, copies, j) # {}

Traced(f, copies, pairs, handover) ==
  /\ \A h \in handover : \E k \in DOMAIN f :
       /\ f[k].asset = h[1] /\ f[h[2]].bytes = f[k].bytes /\ f[h[2]].converts
       /\ Certain(f, copies, k) => h[2] = k
  /\ \A g, h \in handover : g # h => g[1] # h[1] /\ g[2] # h[2]
  /\ \A p, q \in Range(pairs) : p # q => p[1] # q[1] /\ p[2] # q[2]
  /\ \A k \in DOMAIN f :
       f[k].converts /\ f[k].asset # "none" /\ Certain(f, copies, k)
         /\ (\E i \in DOMAIN copies : copies[i].bytes = f[k].bytes) => <<f[k].asset, k>> \in handover

\* A client that asks for a subtitle file of the catalog gets that file's
\* lines: an asset is answered by a rendition made of its bytes, by its own
\* rendition wherever the record was made of these files as they are named or
\* no other has its bytes, and by none that answers for another; and no copy
\* is said to have become two renditions (_copies_of, _handover).
HandoverTraced ==
  job.kind = "sidecars" => Traced(job.files, job.copies, job.pairs, job.handover)
=============================================================================
