--------------------------------- MODULE Plans ---------------------------------
(***************************************************************************)
(* The decisions of a package that touch nothing: those of its event, its  *)
(* audio and its subtitle files (Readings), what its tracks become         *)
(* (TrackPlan), what its record says it lost (Records), what its master    *)
(* advertises (HlsMaster), the HDR10 boxes of its init segments (Hdr10),   *)
(* the chain that closes over its files (Chain), and what is written down  *)
(* of it and sent (Writings).  Each is a function                          *)
(* of what the run was given; one job of each kind is taken and its        *)
(* decision checked, for every input of the bounds; a folder's chain is    *)
(* read again after each thing that may happen to the folder.              *)
(***************************************************************************)
EXTENDS Writings, Chain, CodecConfig

CONSTANTS
  Languages,    \* the languages a tag can name
  Shown,        \* those a whitelist may name; a setting may prefer the others
  MaxTracks,    \* of one kind in a source
  MaxSegments,  \* of a media playlist
  MaxSize,      \* what a 32-bit box size can say
  CHROMA_UNITS, LUMA_UNITS,      \* what a mastering display's fields count in
  MaxChroma, MaxLuma, MaxLight,  \* and the most the metadata's fields hold
  InitSizes,    \* the sizes of the parts of an init segment
  FileNames,    \* of a package's files, each in one of its folders
  MaxEdits      \* what may happen to a folder

ASSUME PlansAssumption ==
  /\ MaxTracks \in Nat /\ MaxSegments \in Nat /\ MaxSize \in Nat
  /\ CHROMA_UNITS \in Nat /\ LUMA_UNITS \in Nat /\ MaxChroma \in Nat /\ MaxLuma \in Nat /\ MaxLight \in Nat
  /\ InitSizes \subseteq Nat /\ MaxEdits \in Nat /\ NoLanguage \cap Languages = {}
  /\ IsFiniteSet(FileNames) /\ "version.json" \notin FileNames

INSTANCE Hdr10

Tags == Languages \cup {"und"}

(***************************************************************************)
(* Jobs.                                                                   *)
(***************************************************************************)

\* What a track can be, by its mark or its title.
Sorts == {[marks |-> {}, says |-> {}], [marks |-> {"default"}, says |-> {}],
          [marks |-> {"default"}, says |-> {"commentary"}], [marks |-> {"visual_impaired"}, says |-> {}]}

Track(lang, codec, ch, sort) ==
  [lang |-> lang, codec |-> codec, ch |-> ch, marks |-> sort.marks, says |-> sort.says]

AudioSources == {Track(l, c, ch, s) : l \in Tags, c \in {"aac", "truehd"}, ch \in {2, 6}, s \in Sorts}
AudioTracks == {Track(l, "aac", ch, s) : l \in Tags, ch \in {2, 6}, s \in Sorts}

\* The settings: one language shown, one preferred, or none.
Whitelists == {{l} : l \in Shown}
Preferences == {<<>>} \cup {<<l>> : l \in Languages \ Shown}

\* What a run decides for the audio of a source, given its settings.
AudioPlan(streams, whitelist, single, preferred) ==
  LET visible == VisibleIndices(streams, whitelist, single)
      default == PickDefaultAudio(streams, visible, preferred)
      plan == SurroundPlan(streams, visible, default, "eac3")
  IN [kind |-> "audio", streams |-> streams, preferred |-> preferred,
      visible |-> visible, default |-> default, plan |-> plan,
      surround |-> PickDefaultSurround(plan, streams, visible, default, preferred)]

PlanAudio ==
  /\ job.kind = "none"
  /\ \E streams \in UpTo(MaxTracks, AudioTracks), whitelist \in {{}} \cup Whitelists,
        single \in BOOLEAN, preferred \in Preferences :
       job' = AudioPlan(streams, whitelist, single, preferred)

\* The renditions of a group as the master lists them.
Rendition(lang, purpose, visible, forced) ==
  [lang |-> lang, purpose |-> purpose, visible |-> visible, forced |-> forced]

AudioGroup == {Rendition(l, p, v, FALSE) : l \in Languages, p \in {"main", "commentary", "description"}, v \in BOOLEAN}

\* The subtitles of the master are all visible.
SubtitleGroup == {Rendition(l, p, TRUE, p = "forced") : l \in Tags,
                    p \in {"dialogue", "sdh", "commentary", "forced", "signs-songs"}}

MasterOrder(metas, main) ==
  MainFirst([i \in DOMAIN metas |-> metas[i].lang], [i \in DOMAIN metas |-> metas[i].purpose = main])

\* The names _track_display_name gave them: here a name reads only the
\* language, and what one's title says besides may already read as a number,
\* as in "English (2)".
GivenNames(metas, numbered) ==
  [i \in DOMAIN metas |-> IF i = numbered THEN <<metas[i].lang, 2>> ELSE <<metas[i].lang>>]

\* At most one name is given with a number; 0 is none.
WriteGroup ==
  /\ job.kind = "none"
  /\ \E metas \in UpTo(MaxTracks + 1, AudioGroup) : \E numbered \in {0} \cup DOMAIN metas :
       job' = [kind |-> "group", metas |-> metas, autoselect |-> AudioAutoselect(metas),
               order |-> MasterOrder(metas, "main"), given |-> GivenNames(metas, numbered),
               names |-> UniqueNames(GivenNames(metas, numbered))]

\* The manifest's default is one of them.
WriteSubtitles ==
  /\ job.kind = "none"
  /\ \E metas \in UpTo(MaxTracks, SubtitleGroup), audio \in Tags :
       job' = [kind |-> "subtitles", metas |-> metas, audio |-> audio,
               autoselect |-> SubtitleAutoselect(metas), order |-> MasterOrder(metas, "dialogue"),
               default |-> PickDefaultSubtitle(metas, audio)]

\* What a subtitle can be, by its mark, its title and its lines.
SubtitleSorts ==
  {[marks |-> {}, says |-> {}, events |-> "few", styled |-> FALSE],
   [marks |-> {}, says |-> {}, events |-> "full", styled |-> TRUE],
   [marks |-> {"forced"}, says |-> {}, events |-> "few", styled |-> FALSE],
   [marks |-> {}, says |-> {"forced"}, events |-> "none", styled |-> FALSE],
   [marks |-> {"hearing_impaired"}, says |-> {"forced"}, events |-> "full", styled |-> FALSE],
   [marks |-> {}, says |-> {"sdh"}, events |-> "full", styled |-> FALSE],
   [marks |-> {"comment"}, says |-> {"sdh"}, events |-> "full", styled |-> TRUE]}

Subtitle(lang, sort) ==
  [lang |-> lang, codec |-> "subtitle", ch |-> 0, marks |-> sort.marks, says |-> sort.says,
   events |-> sort.events, styled |-> sort.styled, form |-> "text"]

SubtitleTracks == {Subtitle(l, s) : l \in Languages, s \in SubtitleSorts}

Beside(lang) == [lang |-> lang, codec |-> "file", ch |-> 0, marks |-> {}, says |-> {}]

\* The subtitles of a source, of which some are left out of its package.
RecordSubtitles ==
  /\ job.kind = "none"
  /\ \E subs \in UpTo(MaxTracks, SubtitleTracks), outside \in {<<>>} \cup {<<Beside(l)>> : l \in Shown} :
     \E taken \in SUBSET DOMAIN subs : \E styled \in SUBSET {i \in taken : subs[i].styled} :
       job' = [kind |-> "record",
               src |-> [audio |-> <<>>, subs |-> subs, fonts |-> {}, hdr10 |-> FALSE],
               pkg |-> [audio |-> {}, companions |-> {}, subs |-> taken, styled |-> styled, fonts |-> {},
                        outside |-> outside, top |-> "encoded", codec |-> "eac3"]]

\* The audio of a source as it is planned, its fonts and its HDR10 metadata.
RecordMedia ==
  /\ job.kind = "none"
  /\ \E streams \in UpTo(2, AudioSources), fonts \in SUBSET {1, 2},
        top \in {"copied", "boxes", "encoded"}, hdr10 \in BOOLEAN :
     \E taken \in SUBSET fonts :
       job' = [kind |-> "record",
               src |-> [audio |-> streams, subs |-> <<>>, fonts |-> fonts, hdr10 |-> hdr10],
               pkg |-> [audio |-> DOMAIN streams,
                        companions |-> AudioPlan(streams, {}, FALSE, <<>>).plan,
                        subs |-> {}, styled |-> {}, fonts |-> taken, outside |-> <<>>,
                        top |-> top, codec |-> "eac3"]]

Segments == [d : 0 .. 4, b : {0, 3}]

WriteMaster ==
  /\ job.kind = "none"
  /\ \E segs \in UpTo(MaxSegments, Segments), group \in UpTo(2, {0, 5}), subtitles \in UpTo(1, {2}) :
       job' = [kind |-> "master", segs |-> segs, group |-> group, subtitles |-> subtitles,
               variants |-> Variants(<<Stats(segs)>>, <<group>>, subtitles)]

\* An init segment as shaka writes one, with what its boxes may hold.
InitSegments ==
  {[levels |-> ls, children |-> cs, media |-> media, one |-> TRUE] :
     ls \in [1 .. 2 -> {l \in [header : {8, 16}, declared : {0, 1}, before : InitSizes, after : InitSizes] :
                          l.header = 16 => l.declared # 0}],
     cs \in UpTo(2, [kind : {"hvcC", "colr", "mdcv"}, size : {32}]), media \in BOOLEAN}

Declared(init) ==
  [init EXCEPT !.levels = [k \in DOMAIN @ |->
     IF @[k].declared = 0 THEN @[k] ELSE [@[k] EXCEPT !.declared = RealSize(init, k)]]]

\* What a side data entry may say.
SideData(kind, chroma, luma, light) == [kind |-> kind, chroma |-> chroma, luma |-> luma, light |-> light]

\* None, no number, one below none, one between two units, one that rounds
\* up, the most that fits, one too large; of a luminance, half a unit over it.
Rationals == {<<>>, <<1, 0>>, <<-1, 2>>, <<1, 3>>, <<3, 4>>, <<5, 2>>, <<3, 1>>}

SideDataEntries ==
  {SideData("mdcv", c, l, <<>>) : c \in Rationals, l \in {<<1, 0>>, <<1, 2>>, <<19, 6>>}}
  \cup {SideData("clli", <<>>, <<>>, v) : v \in {<<0, 1>>, <<1, -1>>, <<MaxLight + 1, 1>>}}

Readable == <<SideData("mdcv", <<0, 1>>, <<0, 1>>, <<>>), SideData("clli", <<>>, <<>>, <<0, 0>>)>>
Unreadable == <<SideData("mdcv", <<1, 0>>, <<0, 1>>, <<>>), SideData("clli", <<>>, <<>>, <<-1, 0>>)>>

ReadHdr10 ==
  /\ job.kind = "none"
  /\ \E stream \in UpTo(2, SideDataEntries), frames \in UpTo(1, UpTo(1, SideDataEntries)) :
       job' = [kind |-> "metadata", stream |-> stream, frames |-> FlattenSeq(frames), found |-> OfOriginal(stream, frames)]

\* The parameter sets a stream has in its extradata and its first frame.
Units == {<<>>, <<[layer |-> 0, size |-> 2]>>, <<[layer |-> 1, size |-> 2]>>,
          <<[layer |-> 0, size |-> 1], [layer |-> 1, size |-> 2]>>}

CopyVideo ==
  /\ job.kind = "none"
  /\ \E vps, sps, pps \in Units, form \in {"none", "annexb", "hvcC"}, cut \in BOOLEAN,
        dump \in {"whole", "short", "failed"}, frame \in {ParameterSets, {}, {"sps", "pps"}} :
       LET arrays == <<[type |-> "vps", units |-> vps], [type |-> "sps", units |-> sps], [type |-> "pps", units |-> pps]>>
           extradata == [form |-> form, arrays |-> IF form = "none" THEN <<>> ELSE arrays, cut |-> cut]
           copy == HevcCopy(extradata, dump)
       IN job' = [kind |-> "copy", extradata |-> extradata, dump |-> dump, frame |-> frame, copy |-> copy,
                  written |-> Written(copy, extradata, frame)]

WriteHdr10 ==
  /\ job.kind = "none"
  /\ \E init \in {i \in {Declared(s) : s \in InitSegments} : AddsUp(i)},
        stream \in SUBSET Kinds, frames \in SUBSET Kinds :
       LET said(kinds) == [i \in 1 .. 2 |-> IF <<"mdcv", "clli">>[i] \in kinds THEN Readable[i] ELSE Unreadable[i]]
           boxes == BoxesOf(OfOriginal(said(stream), <<said(frames)>>))
       IN job' = [kind |-> "hdr10", found |-> stream \cup frames,
                  before |-> init, after |-> WriteInto(init, boxes), boxes |-> boxes]

\* Two of one size, one of another.
Contents == {<<1, 1>>, <<1, 2>>, <<2, 1>>}
Packages == UNION {[S -> Contents] : S \in SUBSET FileNames}

\* `shut`: the folder as its chain was closed over it, if it was.
Folder(folder, shut, edits) == [kind |-> "chain", folder |-> folder, shut |-> shut, edits |-> edits]

\* The chain of a new folder is closed, or left pending; a crash leaves the
\* first of its writes.
CloseChain ==
  /\ job.kind = "none"
  /\ \E record \in Contents, pkg \in Packages, pending \in BOOLEAN, made \in 0 .. 3 :
       LET new == NewFolder(record, pkg)
           writes == <<new>> \o Closing(new, pending)
       IN job' = Folder(writes[made + 1], IF made = 3 THEN {writes[4]} ELSE {}, 0)

\* What may happen to a folder: another record, a file that changes, goes or
\* comes, a subtitle attached (its bytes right or wrong), a lost part of the
\* chain.
Edited(f) ==
  {[f EXCEPT !.record = c] : c \in Contents} \cup {[f EXCEPT !.pkg = p] : p \in
     {p \in Packages : Cardinality({n \in FileNames : (n \in DOMAIN p) # (n \in DOMAIN f.pkg)
        \/ (n \in DOMAIN p \cap DOMAIN f.pkg /\ p[n] # f.pkg[n])}) = 1}}
  \cup {[f EXCEPT !.attached = @ \cup {a}] : a \in {"right", "wrong"}}
  \cup {[f EXCEPT !.sums = {}], [f EXCEPT !.package = {}], [f EXCEPT !.complete = {}]}

ChangeFolder ==
  /\ job.kind = "chain" /\ job.edits < MaxEdits
  /\ \E f \in Edited(job.folder) : job' = Folder(f, job.shut, job.edits + 1)

\* A pending chain is filled while the folder may change under it.
CloseLater ==
  /\ job.kind = "chain"
  /\ \E hashed \in {job.folder} \cup (IF job.edits < MaxEdits THEN Edited(job.folder) ELSE {}) :
       LET writes == FillChecksums(job.folder, hashed)
       IN \E made \in DOMAIN writes :
            job' = Folder(writes[made], IF made = 3 THEN {writes[made]} ELSE job.shut, MaxEdits)

Init == job = [kind |-> "none"]

Next ==
  \/ PlanAudio \/ WriteGroup \/ WriteSubtitles \/ RecordSubtitles \/ RecordMedia
  \/ WriteMaster \/ ReadHdr10 \/ CopyVideo \/ WriteHdr10 \/ CloseChain \/ ChangeFolder \/ CloseLater \/ Reading \/ Writing

Spec == Init /\ [][Next]_job

(***************************************************************************)
(* Properties.                                                             *)
(***************************************************************************)

\* A viewer hears the film: the default track is one the client offers and
\* no commentary wherever one of the tracks it is picked from is; and the
\* 5.1 group's default speaks its language wherever an offered companion
\* does, so that a client that changes the group changes no language
\* (_pick_default_audio, _pick_default_surround).
DefaultIsOffered ==
  job.kind = "audio" /\ job.streams # <<>> =>
    LET s == job.streams
        wanted == {i \in DOMAIN s : job.preferred # <<>> /\ s[i].lang = job.preferred[1]}
        pickedFrom == IF wanted # {} THEN wanted ELSE DOMAIN s
        heard == {i \in pickedFrom \cap job.visible : IsMainAudio(s[i])}
        offered == job.plan \cap job.visible
    IN /\ job.default \in pickedFrom
       /\ pickedFrom \cap job.visible # {} => job.default \in job.visible
       /\ heard # {} => job.default \in heard
       /\ job.plan # {} => job.surround \in job.plan
       /\ offered # {} => job.surround \in offered
       /\ (\E i \in offered : s[i].lang = s[job.default].lang) => s[job.surround].lang = s[job.default].lang

\* A source with a surround track of the film keeps one in its package,
\* whatever the whitelist hides, so that the deletion gate doesn't hold it
\* for that; a language has one companion, and one that is hidden is the
\* default's or the only one (_surround_plan).
SurroundKept ==
  job.kind = "audio" =>
    LET s == job.streams
        film == {i \in DOMAIN s : IsFilmSurround(s[i])}
        offered == job.visible \cup {job.default}
    IN /\ job.plan \subseteq film
       /\ film # {} => job.plan # {}
       /\ \A i \in film \cap offered : \E j \in job.plan : s[j].lang = s[i].lang
       /\ \A i, j \in job.plan : s[i].lang = s[j].lang => i = j
       /\ \A i \in job.plan \ offered : job.plan = {i}

\* What a viewer hears, in the group that plays by itself and in the 5.1
\* group beside it (the audio plan of build_package).
AudioIsOffered == DefaultIsOffered /\ SurroundKept

\* A name that reads as another's with a number.
NumberedAs(name, other) == Len(name) > 1 /\ Front(name) = other

\* The master lists every rendition of a group once, in the language its
\* place had, the main ones of a language first; of a language's main
\* renditions a player may pick the first offered one by itself and no other,
\* of its full subtitles one at most; and the subtitle shown by itself is a
\* forced one in no other language than the film's (_main_first,
\* _finish_group, _finish_subtitles, _pick_default_subtitle). Each of a group
\* has a name of its own, except beside one whose title already reads as a
\* number: of "English", "English" and "English (2)" the second is called as
\* the third is (unique_names, where README.md:168 has them unique).
MasterInOrder ==
  job.kind \in {"group", "subtitles"} =>
    LET m == job.metas  o == job.order
        main(i) == m[i].purpose = (IF job.kind = "group" THEN "main" ELSE "dialogue")
        leads(p) == /\ main(o[p]) /\ m[o[p]].visible
                    /\ ~ \E q \in 1 .. p - 1 : /\ main(o[q]) /\ m[o[q]].visible
                                               /\ m[o[q]].lang = m[o[p]].lang
        picked(l) == {i \in DOMAIN m : /\ m[i].lang = l /\ job.autoselect[i] /\ ~ m[i].forced
                                       /\ m[i].purpose \notin {"sdh", "description"}}
    IN /\ {o[p] : p \in DOMAIN m} = DOMAIN m
       /\ \A p \in DOMAIN m : m[o[p]].lang = m[p].lang
       /\ \A p, q \in DOMAIN m : p < q /\ m[p].lang = m[q].lang =>
            /\ main(o[q]) => main(o[p])
            /\ main(o[p]) = main(o[q]) => o[p] < o[q]
       /\ \A p \in DOMAIN m : Cardinality(picked(m[p].lang)) <= 1
       /\ job.kind = "group" =>
            /\ \A p \in DOMAIN m : main(o[p]) => job.autoselect[o[p]] = leads(p)
            /\ \A i, j \in DOMAIN m : job.names[i] = job.names[j] =>
                 \/ i = j
                 \/ NumberedAs(job.given[i], job.given[j])
                 \/ NumberedAs(job.given[j], job.given[i])
       /\ job.kind = "subtitles" /\ job.default # 0 =>
            /\ m[job.default].forced /\ job.autoselect[job.default]
            /\ job.audio \notin NoLanguage => m[job.default].lang \in NoLanguage \cup {job.audio}

\* Deleting an original costs what the gate names, no less and no more: a
\* package that keeps every track, style, font and the HDR10 metadata costs
\* nothing but what re-encoding loses; a forced or SDH language, a style, a
\* font that is in no file of the package is named; and so is every loss the
\* package's own record names (source_essence, package_essence, for_record,
\* losses_against, deletion_gate).
GateIsExact ==
  job.kind = "record" =>
    LET src == job.src  pkg == job.pkg
        gate == DeletionGate(SourceEssence(src), PackageEssence(src, pkg))
        styled == {i \in DOMAIN src.subs : src.subs[i].styled}
        surround == {i \in DOMAIN src.audio : src.audio[i].ch > 2}
        keepsAll == /\ pkg.subs = DOMAIN src.subs /\ pkg.styled = styled /\ pkg.fonts = src.fonts
                    /\ src.hdr10 => pkg.top # "encoded"
                    /\ surround # {} => \E i \in surround : IsMainAudio(src.audio[i])
        purpose(i) == SourcePurpose(src.subs, i)
        named == [l \in {"audio-downmix", "dynamic-range", "subtitle-dropped", "subtitle-styling",
                         "attachments-dropped"} |->
                    CASE l = "audio-downmix" -> "maxAudioChannels" [] l = "dynamic-range" -> "hdr10Metadata"
                      [] l = "subtitle-dropped" -> "subtitleTracks" [] l = "subtitle-styling" -> "styledSubtitles"
                      [] OTHER -> "fonts"]
    IN /\ keepsAll => gate \subseteq {<<"losslessAudio", "">>}
       /\ pkg.outside = <<>> => \A i \in DOMAIN src.subs \ pkg.subs :
            LET p == purpose(i)  l == src.subs[i].lang
            IN p \in {"forced", "sdh"} /\ (\A j \in pkg.subs : src.subs[j].lang = l => purpose(j) # p)
                 => <<IF p = "sdh" THEN "sdhSubtitleLanguages" ELSE "forcedSubtitleLanguages", l>> \in gate
       /\ styled \ pkg.styled # {} => <<"styledSubtitles", "">> \in gate
       /\ src.fonts \ pkg.fonts # {} => <<"fonts", "">> \in gate
       /\ \A l \in LossesAgainst(src, pkg) \cap DOMAIN named : <<named[l], "">> \in gate

\* A variant advertises enough for whatever a player plays of it: any
\* stretch of the video near its target duration, with any rendition of the
\* group and any subtitle (_peak_bps, build_master).
BandwidthCovers ==
  job.kind = "master" =>
    /\ job.variants # {}
    /\ \A v \in job.variants, i \in DOMAIN job.segs, k \in DOMAIN job.segs :
         i <= k /\ Duration(job.segs, i, k) \in 1 .. 3 =>
           \A a \in {0} \cup Range(job.group), s \in {0} \cup Range(job.subtitles) :
             v.bandwidth >= Rate(Bytes(job.segs, i, k), Duration(job.segs, i, k)) + a + s

\* What a player reads of a package: the lines of its master are in order,
\* agree with the manifest and advertise enough (_run_shaka_packager,
\* build_master).
MasterHolds == MasterInOrder /\ BandwidthCovers /\ MasterAgrees

\* An init segment that takes the metadata's boxes holds each of them once,
\* beside what it held, in boxes whose sizes still add up, and takes nothing
\* more the next time; one that can't is left as it was (insert_boxes,
\* write_into).
BoxesAddUp ==
  job.kind = "hdr10" =>
    LET times(init, kind) == Len(Of(init.children, {kind}))
        other(init) == Of(init.children, Held(init) \ Kinds)
    IN /\ AddsUp(job.after)
       /\ other(job.after) = other(job.before)
       /\ IF Takes(job.before, job.boxes)
          THEN /\ \A kind \in job.found :
                    times(job.after, kind) = Max({1, times(job.before, kind)})
               /\ WriteInto(job.after, job.boxes) = job.after
          ELSE job.after = job.before

\* A copied HEVC stream reaches the packager's track with all its parameter
\* sets wherever they can be read of the file, in its configuration or in its
\* first frame, and is rewritten only where its configuration lacks one
\* (_hevc_copy_args, _hvcc_lacks_parameter_sets).
CopyReads ==
  job.kind = "copy" =>
    LET x == job.extradata
        base(type) == \E i \in DOMAIN x.arrays : /\ x.arrays[i].type = type
                                                 /\ [layer |-> 0, size |-> 2] \in Range(x.arrays[i].units)
        whole == ~ x.cut /\ \A type \in ParameterSets : base(type)
    IN /\ job.dump = "whole" /\ job.frame = ParameterSets /\ (x.form # "annexb" \/ whole) =>
            job.written = ParameterSets
       /\ x.form = "hvcC" /\ whole => job.copy = "straight" /\ job.written = ParameterSets
       /\ job.copy = "annexb" => x.form = "hvcC" /\ ~ whole

\* What the fields of a kind hold, and the values that an entry writes there:
\* its own, to half a unit, half up.
Fields(kind) ==
  IF kind = "mdcv" THEN (0 .. MaxChroma) \X (0 .. MaxLuma) ELSE (0 .. MaxLight) \X (0 .. MaxLight)

Near(n, q, units) ==
  /\ q # <<>> /\ q[2] > 0 /\ q[1] >= 0
  /\ 2 * q[1] * units \in (2 * n - 1) * q[2] .. (2 * n + 1) * q[2] - 1

Writes(e, v) ==
  IF e.kind = "mdcv" THEN Near(v[1], e.chroma, CHROMA_UNITS) /\ Near(v[2], e.luma, LUMA_UNITS)
  ELSE v = e.light

\* The entries of a list that say a kind.
Saying(list, kind) ==
  {i \in DOMAIN list : list[i].kind = kind /\ \E v \in Fields(kind) : Writes(list[i], v)}

\* The metadata written is what the source says, to half a unit of its
\* fields: what can be read of its stream before what its frames say, each
\* kind by itself, every field of a kind or none; and what no field can hold
\* is never written (_mastering, _light_level, of_original).
MetadataAsSaid ==
  job.kind = "metadata" =>
    \A kind \in Kinds :
      /\ job.found[kind] = {} <=> Saying(job.stream, kind) = {} /\ Saying(job.frames, kind) = {}
      /\ \A v \in job.found[kind] :
           /\ v \in Fields(kind)
           /\ IF Saying(job.stream, kind) # {} THEN Writes(job.stream[Min(Saying(job.stream, kind))], v)
              ELSE Writes(job.frames[Min(Saying(job.frames, kind))], v)

\* A player gets the picture as the source has it: its parameter sets, and
\* the metadata its colours are meant by (_hevc_copy_args, of_original,
\* insert_boxes).
PicturePlays == BoxesAddUp /\ CopyReads /\ MetadataAsSaid

\* A chain that holds says what the folder is: never one whose closing was
\* cut off; a closed one, the record and the names and total size of what it
\* was closed over, and read in full, all of its bytes; a pending one, as many
\* files and bytes.  A subtitle attached later leaves it whole (chain_problems,
\* close_chain, fill_checksums).
ChainTells ==
  job.kind = "chain" =>
    LET f == job.folder
        quiet(full) == ChainProblems(f, full) = {}
    IN /\ quiet(FALSE) => job.shut # {}
       /\ \A s \in job.shut :
            /\ quiet(FALSE) => /\ Cardinality(Listed(f)) = Cardinality(Listed(s))
                               /\ Total(Listed(f)) = Total(Listed(s))
            /\ quiet(FALSE) /\ ~ ChecksumsPending(f) =>
                 f.record = s.record /\ DOMAIN f.pkg = DOMAIN s.pkg
            /\ quiet(TRUE) /\ ~ ChecksumsPending(f) => Listed(f) = Listed(s)
            /\ f = [s EXCEPT !.attached = f.attached] =>
                 quiet(FALSE) /\ quiet(TRUE) = ("wrong" \notin f.attached)
=============================================================================
