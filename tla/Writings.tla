-------------------------------- MODULE Writings --------------------------------
(***************************************************************************)
(* What a process writes down and sends: the records of an original        *)
(* (SourceRecord), the master playlist of a package (MasterPlaylist), and  *)
(* its calls and reports to the catalog (Session).  As in Readings, one    *)
(* job of each kind is taken; a session goes on from call to call.         *)
(***************************************************************************)
EXTENDS Readings, CatalogReport, MasterPlaylist, Session

CONSTANTS
  MaxCalls,  \* of a session
  Ttls       \* how long a token may last

ASSUME WritingsAssumption == MaxCalls \in Nat /\ Ttls \subseteq Nat

(***************************************************************************)
(* Originals.                                                              *)
(***************************************************************************)

RawStream(type, codec, tag) ==
  [type |-> type, codec |-> codec, tag |-> tag, lang |-> tag.base, ch |-> 2, marks |-> {}, says |-> {}, side |-> {},
   transfer |-> "bt709", encoder |-> FALSE, claim |-> [codec |-> "", ch |-> 0],
   mime |-> "none", name |-> "none", head |-> "none", bytes |-> 1]

Attachment(mime, name, head, bytes) ==
  [RawStream("attachment", "none", NoTag) EXCEPT !.mime = mime, !.name = name, !.head = head, !.bytes = bytes]

LangTags == {NoTag, LangTag("de", 0), LangTag("pt", 1), LangTag("de", 2), LangTag("ger", 0), LangTag("gsw", 0),
             LangTag("por", 1), LangTag("nb", 0), LangTag("deutsch", 0)}

RawStreams ==
  LET video == RawStream("video", "hevc", NoTag)  audio == RawStream("audio", "aac", NoTag)
  IN {video, [video EXCEPT !.transfer = "pq", !.side = {"mastering"}, !.encoder = TRUE],
      [video EXCEPT !.transfer = "hlg", !.side = {"dovi", "stereo3d"}],
      [video EXCEPT !.marks = {"attached_pic"}, !.encoder = TRUE, !.transfer = "pq"],
      [audio EXCEPT !.claim = [codec |-> "truehd", ch |-> 0]], [audio EXCEPT !.claim = [codec |-> "aac", ch |-> 6]]}
     \cup {RawStream(type, "aac", tag) : type \in {"audio"}, tag \in LangTags}
     \cup {[RawStream("subtitle", "ass", LangTag("ger", 0)) EXCEPT !.marks = m] : m \in {{}, {"forced"}}}
     \cup {Attachment("font", "none", "none", 1), Attachment("none", "font", "font", 0),
           Attachment("image", "none", "font", 1), Attachment("none", "none", "font", 1),
           Attachment("none", "none", "other", 1)}

\* An original under the names it may arrive by.
Arrivals ==
  {[ext |-> e, marks |-> <<>>, nxn |-> n, before |-> 0, quality |-> q, edition |-> d,
    folder |-> [shaped |-> TRUE, edition |-> "extended"]] :
     e \in {"mkv", "none"}, n \in {<<>>, <<5>>}, q \in {<<>>, <<"web", "1080p">>}, d \in {"none", "imax"}}
Arrival == CHOOSE a \in Arrivals : a.ext = "mkv" /\ a.nxn = <<>>

\* The rows the catalog has of a version: its marks, or none.
VersionBuilds ==
  {[chapters |-> c, chaptersFrom |-> f, segments |-> <<>>, originalFiles |-> <<>>] :
     c \in {<<>>, <<[start |-> 5, end |-> 0, ordinal |-> 2], [start |-> 0, end |-> 5, ordinal |-> 1]>>,
            <<[start |-> -1, end |-> 0, ordinal |-> 1]>>}, f \in {"human", "guess"}}

ExtraRows ==
  {[kind |-> k, title |-> t, language |-> l, season |-> -1, origin |-> "none"] :
     k \in {"trailer", "unheard"}, t \in {"", "title"}, l \in {NoTag, LangTag("deutsch", 0), LangTag("de", 0)}}

\* An original is recorded, and its package takes its fonts in another run of
\* the tools: what either can't read or waits too long for may differ.
Recorded(arrival, probe, first, then, sidecars, covers, build, row) ==
  LET heads == ProbeOriginal(probe.streams, first.unread, TRUE, first.slow)
  IN [kind |-> "source", arrival |-> arrival, streams |-> probe.streams, tags |-> probe.tags, first |-> first,
      then |-> then, sidecars |-> sidecars, covers |-> covers, row |-> row,
      records |-> {[source |-> RecordOfSource(arrival, probe, h, sidecars, covers),
                    version |-> RecordOfVersion(RecordOfSource(arrival, probe, h, sidecars, covers),
                                                VersionMarks(build, <<[start |-> 1, end |-> 2]>>)),
                    extra |-> RecordOfExtra(CatalogSays(row), arrival, probe, h)] : h \in heads},
      fonts |-> ExtractedFonts(probe.streams, then.unread, then.slow, then.whole)]

RawProbe(streams, tags) == [filename |-> "arrival", tags |-> tags, durationMs |-> 0, streams |-> streams]

RecordStreams ==
  /\ job.kind = "none"
  /\ \E streams \in UpTo(2, RawStreams), tags \in {{}, {"title", "lavf"}, {"TITLE"}} :
     \E unread \in SUBSET Asked(streams), again \in SUBSET Asked(streams), slow, slower \in BOOLEAN,
        whole \in {{}, {1}, {2}, {1, 2}} :
       job' = Recorded(Arrival, RawProbe(streams, tags), [unread |-> unread, slow |-> slow],
                       [unread |-> again, slow |-> slower, whole |-> whole], <<>>, <<>>,
                       CHOOSE b \in VersionBuilds : TRUE, CHOOSE r \in ExtraRows : TRUE)

SidecarRows ==
  {[tag |-> t, forced |-> f, named |-> n, ext |-> e] :
     t \in {NoTag, LangTag("ger", 0), LangTag("deutsch", 0), LangTag("pt", 1)}, f \in BOOLEAN,
     n \in {{}, {"forced"}, {"sdh"}}, e \in {"srt", "none"}}

Told == [unread |-> {}, slow |-> FALSE, whole |-> {}]

RecordArrival ==
  /\ job.kind = "none"
  /\ \E arrival \in Arrivals, sidecars \in UpTo(1, SidecarRows), covers \in {<<>>, <<"i", "s">>} :
       job' = Recorded(arrival, RawProbe(<<>>, {"title"}), Told, Told, sidecars, covers,
                       CHOOSE b \in VersionBuilds : TRUE, CHOOSE r \in ExtraRows : TRUE)

RecordRows ==
  /\ job.kind = "none"
  /\ \E build \in VersionBuilds, row \in ExtraRows, tag \in LangTags :
       job' = Recorded(Arrival, RawProbe(<<RawStream("audio", "aac", tag)>>, {}), Told, Told, <<>>, <<>>, build, row)

\* Episodes from 1 or 2, with up to two numbers after them.
EpisodeMarks ==
  {[first |-> f, more |-> m, then |-> t] : f \in {1, 2}, m \in UpTo(2, [by : Joined, n : {1, 2, 3, 10, 11}]),
     t \in {"digit", "p", "word", "apart"}}

ReadNaming ==
  /\ job.kind = "none"
  /\ \E mark \in EpisodeMarks, nxn \in {<<>>, <<5>>}, before \in 0 .. 1,
        last \in {<<>>, <<[first |-> 7, more |-> <<>>, then |-> "apart"]>>} :
       LET name == [marks |-> <<mark>> \o last, nxn |-> nxn, before |-> before]
       IN job' = [kind |-> "naming", name |-> name, range |-> Naming(name)]

FlagRenditions ==
  /\ job.kind = "none"
  /\ \E audio \in UpTo(2, BOOLEAN), surround \in UpTo(2, BOOLEAN),
        subs \in UpTo(2, [default : BOOLEAN, forced : BOOLEAN, purpose : {"dialogue", "signs-songs"}]) :
       job' = [kind |-> "flags", audio |-> AudioDefaults(audio), surround |-> SurroundDefaults(surround),
               subs |-> subs, shown |-> SubtitleDefaults(subs)]

(***************************************************************************)
(* Masters.                                                                *)
(***************************************************************************)

VideoRung(id, range) ==
  [id |-> id, codec |-> "hvc1", hevc |-> TRUE, range |-> range, fps |-> IF id = 1 THEN 24 ELSE 0, encoder |-> "copy"]

AudioRow(group, lang, purpose, default) ==
  [group |-> group, codec |-> IF group = "audio" THEN "mp4a" ELSE "ec-3", lang |-> lang, purpose |-> purpose,
   ch |-> IF group = "audio" THEN 2 ELSE 6, default |-> default, visible |-> TRUE, forced |-> FALSE,
   autoselect |-> FALSE]

\* A stereo rendition of each track, the first one the default, then the
\* companions.
AudioOf(ps, companions) ==
  [i \in DOMAIN ps |-> AudioRow("audio", "en", ps[i], i = 1)]
  \o [i \in 1 .. companions |-> AudioRow("surround", "en", "main", TRUE)]

AudioRows ==
  {<<>>} \cup {AudioOf(has.tracks, has.companions) :
     has \in [tracks : UpTo(2, {"main", "description"}) \ {<<>>}, companions : 0 .. 1]}

TextRows == [id : {1}, forced : BOOLEAN, autoselect : {FALSE}, purpose : {"dialogue", "sdh"}]

\* shaka's master of what it packaged.
ShakaMaster(rungs, entries) ==
  LET groups == GroupsInOrder(entries)
      codec(g) == IF g = "none" THEN <<>> ELSE <<entries[Members(entries, g)[1]].codec>>
  IN [n \in DOMAIN entries |-> MediaInf(AudioDir(n), entries[n].ch)]
     \o Concatenated([g \in DOMAIN groups |-> [v \in DOMAIN rungs |->
           StreamInf(Video(rungs[v]), <<rungs[v].codec>> \o codec(groups[g]), groups[g], 25)]])
     \o [v \in DOMAIN rungs |-> IFrameInf(Video(rungs[v]))]

WithAutoselect(entries) ==
  LET auto(g) == AudioAutoselect([k \in DOMAIN Members(entries, g) |-> entries[Members(entries, g)[k]]])
      place(n) == Cardinality({m \in 1 .. n : entries[m].group = entries[n].group})
  IN [n \in DOMAIN entries |-> [entries[n] EXCEPT !.autoselect = auto(entries[n].group)[place(n)]]]

LinesOf(entries, group) ==
  LET ns == Members(entries, group)
      order == MainFirst([k \in DOMAIN ns |-> entries[ns[k]].lang], [k \in DOMAIN ns |-> entries[ns[k]].purpose = "main"])
  IN [p \in DOMAIN ns |-> ns[order[p]]]

\* asked: the process is asked for subtitles in the playlist; the manifest has
\* one more, of images.
Playlist(rungs, entries, subs, lines, written, asked) ==
  LET rows == WithAutoselect(entries)
      peaks == [video |-> [v \in DOMAIN rungs |-> v], audio |-> [n \in DOMAIN entries |-> n],
                text |-> [k \in DOMAIN subs |-> 1]]
      order == [g \in {entries[n].group : n \in DOMAIN entries} |-> LinesOf(entries, g)]
      master == AssembleMaster(lines, rungs, rows, order, subs, peaks, asked)
      listed == [k \in DOMAIN subs |-> [hls |-> TRUE]] \o <<[hls |-> FALSE]>>
  IN [kind |-> "playlist", rungs |-> rungs, entries |-> rows, listed |-> IF asked THEN Len(subs) ELSE 0, written |-> written,
      video |-> [v \in DOMAIN rungs |-> VideoEntry(lines, rungs[v], peaks.video[v], v \in written)],
      audio |-> [n \in DOMAIN entries |-> AudioMeta(lines, n, rows[n], peaks.audio[n])],
      master |-> master, record |-> RecordOfPackage(HlsBlock(rows, listed, asked), master, "derived")]

\* Of shaka's lines any two may be missing.
WritePlaylist ==
  /\ job.kind = "none"
  /\ \E ranges \in {<<"SDR">>, <<"PQ">>, <<"PQ", "SDR">>, <<"PQ", "PQ">>}, entries \in AudioRows,
        subs \in UpTo(1, TextRows), metadata, asked \in BOOLEAN :
       LET rungs == [v \in DOMAIN ranges |-> VideoRung(v, ranges[v])]
           told == ShakaMaster(rungs, entries)
           left(lost) == Kept(told, DOMAIN told \ lost)
       IN \E takes \in IF metadata THEN SUBSET DOMAIN rungs ELSE {{}} :
          \E written \in WithHdr10(rungs, metadata, takes), m, n \in DOMAIN told \cup {0} :
            /\ m <= n
            /\ job' = Playlist(rungs, entries, subs, left({m, n}), written, asked)

(***************************************************************************)
(* Sessions.                                                               *)
(***************************************************************************)

\* A client's calls, a while after each other.
SessionJob(client, now, calls, before, settings) ==
  [kind |-> "session", client |-> client, now |-> now, calls |-> calls, before |-> before, settings |-> settings]

CallCatalog(client, now, calls) ==
  \E ttls \in [1 .. 2 -> Ttls \cup {-1}], answers \in [1 .. 2 -> {"ok", "401", "error", "lost"}] :
    LET c == Request(client, now, ttls, answers)
    IN job' = SessionJob(c, now, calls + 1, client.given,
                         ParseSettings(SettingsOf(c, [whitelist |-> <<"en">>, single |-> "no"])))

OpenSession == job.kind = "none" /\ CallCatalog(NewClient, 0, 0)

CallAgain ==
  /\ job.kind = "session" /\ job.calls < MaxCalls
  /\ \E later \in Ttls : CallCatalog(job.client, job.now + later, job.calls)

\* A process that starts, or doesn't, and what it reports.
StartProcess ==
  /\ job.kind = "none"
  /\ \E surround \in {"eac3", "off", "dts"}, given \in {Required, Required \ {"OIDC_TOKEN_URL"}},
        preferred \in UpTo(2, {"", "de"}), prefix \in {<<>>, <<"tenant">>, <<"tenant", ".">>},
        tools \in SUBSET {"mkvmerge", "mkvextract"}, answers \in UpTo(2, {"ok", "unsupported", "error", "lost"}) :
       LET config == FromEnv([surround |-> surround, given |-> given, preferred |-> preferred])
       IN job' = [kind |-> "process", configs |-> config, topic |-> TopicPrefix(prefix), answers |-> answers,
                  payloads |-> {RulesPayload(PackageOptions(c), tools) : c \in config}, reporter |-> RunReporter(answers)]

(***************************************************************************)
(* Handovers.                                                              *)
(***************************************************************************)

Facts == [k \in SOURCE_KEYS |-> 7]

\* What the transcoder may say of a source, and what a probe finds of it.
TellSource ==
  /\ job.kind = "none"
  /\ \E keys \in SUBSET {"codec", "width", "height", "hdr"}, more \in {{}, {"durationMs", "bitRate"}} :
     \E some \in [keys -> {-1, 0, 9}],
        probes \in {{}} \cup {{[k \in SOURCE_KEYS |-> IF k \in lost THEN 0 ELSE 7]} :
                                lost \in SUBSET {"codec", "width", "height"}} :
       LET handoff == [k \in keys \cup more |-> IF k \in keys THEN some[k] ELSE 9]
       IN job' = [kind |-> "facts", handoff |-> handoff, probes |-> probes, source |-> SourceBlock(handoff, probes)]

ExtraTracks == [lang : {"und", "pt"}, codec : {"aac", "truehd"}, ch : {2}, marks : {{}}, says : {{}}]

\* An extra's audio, encoded without what the encode can't carry.
NameExtra ==
  /\ job.kind = "none"
  /\ \E source \in UpTo(2, ExtraTracks), dropped \in {{}, {"truehd"}}, readable \in BOOLEAN,
        tag \in LangTags \cup {LangTag(b, 0) : b \in {"cy", "deu", "nob", "und", "zxx"}} :
       LET kept == Carried(source, dropped)
           packaged == [p \in DOMAIN kept |-> source[kept[p]]]
           counted == ProbeOfSource(packaged, source, TRUE, readable)
       IN job' = [kind |-> "spoken", tag |-> tag, packaged |-> packaged,
                  first |-> [p \in DOMAIN kept |-> IF readable THEN kept[p] = 1 ELSE p = 1],
                  tracks |-> WithTrackLanguages("audio", packaged, counted, TrackOverrides(TrackLanguages(tag)))]

Items == [type : {"episode", "movie", "extra"}, season : {-1, 0}, episode : {-1, 1}]

WriteManifest ==
  /\ job.kind = "none"
  /\ \E item \in Items, fonts, trickplay \in BOOLEAN, extra \in {{}, {"parentId", "extraKind"}, {"trickplay"}} :
       job' = [kind |-> "manifest", item |-> item, trickplay |-> trickplay, extra |-> extra,
               keys |-> KeysOf(item, fonts, trickplay, extra)]

\* A version is placed; the same run, or one of a later record where its
\* handover was lost, hands it to the catalog.  A version placed before the
\* modes keeps no original.
HandOver ==
  /\ job.kind = "none"
  /\ \E mode \in BUILD_MODES \cup {"none"}, again, before \in BOOLEAN :
       LET lib == Block(mode)
           keeps == IF before THEN {} ELSE {OriginalName(lib)} \ {"none"}
           package == [role |-> IF before THEN "canonical" ELSE RoleOf(lib)]
       IN /\ before => again
          /\ job' = [kind |-> "handed", lib |-> lib, again |-> again, before |-> before,
                     payload |-> LET original == OriginalIn(lib, again, keeps)
                                 IN IF mode = "takein" THEN TakeinPayload(lib, original, {Facts})
                                    ELSE VersionPayload(lib, {package}, original, Facts),
                     extra |-> ExtraPayload("e", ExtraBlock, package, Facts)]

Writing ==
  \/ TellSource \/ NameExtra \/ WriteManifest \/ HandOver
  \/ RecordStreams \/ RecordArrival \/ RecordRows \/ ReadNaming \/ FlagRenditions \/ WritePlaylist
  \/ OpenSession \/ CallAgain \/ StartProcess

(***************************************************************************)
(* Properties.                                                             *)
(***************************************************************************)

\* A name numbers the episodes the catalog's scanner links its file by: of the
\* first token that stands apart, from its first number to the last that goes
\* on from those before it, ten at most; no resolution is taken for one.
NumbersAsScanned ==
  job.kind = "naming" /\ job.range # <<>> =>
    \/ \E i \in DOMAIN job.name.marks :
         LET m == job.name.marks[i]
             rises(k) == \A j \in 1 .. k : NumberAt(m, j) > NumberAt(m, j - 1) /\ NumberAt(m, j) < m.first + 10
             resolution(k) == \E j \in 1 .. k : m.more[j].by = "-" /\ Follows(m, j) = "p"
             ends(k) == Follows(m, k) \in {"-", "-E", " E", "apart"}
             claims == {k \in 0 .. Len(m.more) : rises(k) /\ ends(k) /\ ~ resolution(k)}
         IN /\ claims # {} /\ job.range = <<m.first, NumberAt(m, Max(claims))>>
            /\ \A h \in 1 .. i - 1 : job.name.marks[h].then # "apart" \/ job.name.marks[h].more # <<>>
    \/ job.name.nxn # <<>> /\ job.range = <<job.name.nxn[1], job.name.nxn[1]>>

\* The records of an original say what it is, and not where it came from: no
\* title or arrival name is in them; no record is made of a file whose
\* attachments could not be told, and a font it counts is one its package
\* takes wherever both could read it, and one it doesn't count none takes; a
\* rendition that keeps its file's own code speaks, to the gate, the language
\* of the stream it is made of; the version's picture is the one the package
\* is made of; and a package's record shows a client one audio track and one
\* subtitle at most by itself (source_record, probe_original,
\* _font_attachments, rendition_language, version_record, package_record).
RecordTellsOriginal ==
  /\ NumbersAsScanned
  /\ job.kind = "source" =>
       LET s == job.streams
           told == Asked(s) \cap (job.first.unread \cup job.then.unread) = {} /\ ~ job.then.slow
       IN /\ job.first.slow /\ Asked(s) # {} => job.records = {}
          /\ \A r \in job.records :
               LET src == r.source
                   fonts == {i \in DOMAIN s : s[i].type = "attachment" /\ src.streams[i].role = "font"}
               IN /\ src.probe.filename = src.name /\ src.name # "arrival"
                  /\ src.probe.tags = job.tags \ TitleKeys /\ src.container.tags = src.probe.tags
                  /\ r.extra.container.tags \cap TitleKeys = {}
                  /\ told => job.fonts = {i \in fonts \cap job.then.whole : s[i].bytes > 0}
                  /\ src.fonts = (fonts # {}) /\ r.extra.fonts = src.fonts
                  /\ \A i \in DOMAIN s : s[i].type \in {"audio", "subtitle"} =>
                       Coded(Lang(RenditionLanguage(s[i].tag))) = Coded(src.streams[i].language)
                  /\ (r.version.dynamicRange # "unknown") = (SourceVideo(s) # 0)
                  /\ SourceVideo(s) # 0 =>
                       /\ PackagedVideo(s) = SourceVideo(s)
                       /\ r.version.dynamicRange = HdrInfo(s[PackagedVideo(s)]).format
                  /\ r.version.chapters = <<>> <=> r.version.chaptersFrom = "none"
                  /\ \A j, k \in DOMAIN r.version.chapters :
                       j < k => r.version.chapters[j].start <= r.version.chapters[k].start
                  /\ \A n \in DOMAIN src.sidecars : src.sidecars[n].forced = (src.sidecars[n].purpose = "forced")
  /\ job.kind = "flags" =>
       /\ job.audio # <<>> => Cardinality({i \in DOMAIN job.audio : job.audio[i]}) = 1
       /\ Cardinality({i \in DOMAIN job.surround : job.surround[i]}) <= 1
       /\ Cardinality({i \in DOMAIN job.subs : job.shown[i]}) <= 1
       /\ \A i \in DOMAIN job.subs : job.shown[i] => job.subs[i].default /\ ~ ShownAlone(job.subs[i])

\* What the catalog keeps of a run's work is so: of each fact of the source
\* that the handoff or a probe of the original knows, one is told, the
\* handoff's first, and nothing for one that neither knows; an extra speaks the
\* language the catalog registered it by, in its first track, whichever codes
\* name that language, and in no other; no extra's key replaces a manifest's;
\* and the catalog is told where a version's original is whenever its folder
\* holds it, by the run that moved it or by one that reports it again, and of
\* no package where there is none (_source_block, extras._track_languages,
\* build_package, version_payload, _original_in).
CatalogIsTold ==
  /\ job.kind = "facts" =>
       LET told == job.source
           by(k) == IF k \in DOMAIN job.handoff /\ job.handoff[k] > 0 THEN {job.handoff[k]}
                    ELSE {p[k] : p \in {q \in job.probes : /\ q[k] > 0
                                                           /\ k \in {"width", "height"} => q.width > 0 /\ q.height > 0}}
       IN /\ \A k \in SOURCE_KEYS : {told[j] : j \in {k} \cap DOMAIN told} = by(k)
          /\ \A k \in DOMAIN told \ SOURCE_KEYS : told[k] = job.handoff[k] /\ told[k] # -1
  /\ job.kind = "spoken" =>
       LET known == job.tag.base \in ({"de", "pt", "nb"} \cup ThreeLetters) \ {"und"}
       IN \A p \in DOMAIN job.tracks :
            job.tracks[p].lang = IF known /\ job.first[p] THEN LangKey(job.tag) ELSE job.packaged[p].lang
  /\ job.kind = "manifest" =>
       /\ (job.keys = {}) = (job.trickplay /\ "trickplay" \in job.extra)
       /\ "episodeCode" \in job.keys =>
            "seasonNumber" \in job.keys /\ job.item.season # -1 /\ job.item.episode # -1
  /\ job.kind = "handed" =>
       LET moved == job.lib.mode \in {"establish", "takein"} /\ ~ job.before
           beside == moved \/ job.lib.mode = "add"
       IN /\ job.payload.original = IF moved THEN {<<"lib", "item", "versions", "v", "original">>} ELSE {}
          /\ job.payload.takenIn = (job.lib.mode = "takein") /\ SOURCE_KEYS \subseteq DOMAIN job.payload.source
          /\ \A p \in job.payload.package : ~ job.before => (p.role = "derived") = beside
          /\ Last(job.payload.versionDir) = job.payload.versionId /\ Last(job.extra.extraDir) = job.extra.extraId

\* A run leaves nothing of the catalog's to guess: the files it handed over
\* and the facts (HandoverTraced, CatalogIsTold).
RunIsTold == HandoverTraced /\ CatalogIsTold

\* The master and the manifest say the same of what was packaged, whatever
\* shaka's own master leaves out: every rung in every group and every
\* rendition has one line, which leads to its folder; a variant names groups
\* that have a line and the codecs of what they play; a group shows one
\* default, and what is shown is picked; the package's record names the groups
\* there are and a bandwidth that is enough for each variant; and the rungs in
\* PQ carry the HDR10 metadata all or none (hls_block, peak_bandwidth,
\* _run_shaka_packager, build_master, _write_hdr10).
MasterAgrees ==
  job.kind = "playlist" =>
    LET m == job.master
        at(tag) == {i \in DOMAIN m : m[i].tag = tag}
        texts == at("subtitles")  audio == at("audio")  variants == at("variant")
        pq == {v \in DOMAIN job.rungs : job.rungs[v].range = "PQ"}
    IN /\ \A n \in DOMAIN job.entries :
            /\ \E i \in audio : m[i].uri = job.audio[n].dir /\ m[i].group = job.audio[n].group
            /\ job.audio[n].codec = job.entries[n].codec
       /\ Cardinality(audio) = Len(job.entries) /\ Cardinality(texts) = job.listed
       /\ \A i \in variants :
            /\ \E v \in DOMAIN job.video : m[i].uri = job.video[v].dir /\ m[i].codecs[1] = job.video[v].codec
            /\ m[i].group # "none" => \E j \in audio : m[j].group = m[i].group
            /\ m[i].subtitles = (texts # {})
            /\ \A n \in DOMAIN job.audio : job.audio[n].group = m[i].group =>
                 job.audio[n].codec \in Range(m[i].codecs)
       /\ \A v \in DOMAIN job.video, g \in {job.entries[n].group : n \in DOMAIN job.entries} :
            Cardinality({i \in variants : m[i].uri = job.video[v].dir /\ m[i].group = g}) = 1
       /\ \A g \in {m[i].group : i \in audio} : Cardinality({i \in audio : m[i].group = g /\ m[i].default}) = 1
       /\ \A i \in audio \cup texts : m[i].default => m[i].autoselect
       /\ \A i \in texts : m[i].forced => m[i].autoselect
       /\ job.written \in {{}, pq}
       /\ \A block \in job.record.hls : /\ block.subtitleGroup = (texts # {})
                                       /\ Range(block.audioGroups) = {m[i].group : i \in audio}
       /\ job.record.hls # {} /\ job.record.peakBandwidthBps \in {m[i].bandwidth : i \in variants}
       /\ \A i \in variants : m[i].bandwidth <= job.record.peakBandwidthBps

\* A call reaches the catalog with a token that outlasts it or is its own, is
\* sent again only when the catalog refused the token of it, with another
\* one, and at most once: what the catalog took is never asked of it twice.
\* A run goes on without the settings it can't get, and hides no track; and
\* the rules are reported round after round, whatever the catalog answers
\* (_ensure_token, _request, settings, RulesReporter).
CallsAreOnce ==
  /\ job.kind = "session" =>
       LET sent == job.client.sent
       IN /\ Len(sent) <= 2
          /\ \A k \in DOMAIN sent :
               /\ sent[k].token # NoToken
               /\ sent[k].token.number > job.before \/ sent[k].at + TIMEOUT_SECONDS <= sent[k].token.ends
          /\ Len(sent) = 2 => sent[1].answer = "401" /\ sent[1].token # sent[2].token
          /\ job.client.out = "401" => Len(sent) = 2
          /\ Len(sent) = 1 /\ sent[1].answer = "401" => job.client.out = "raised"
          /\ job.client.out # "ok" => job.settings = [whitelist |-> {}, single |-> TRUE]
  /\ job.kind = "process" =>
       LET r == job.reporter  a == job.answers
       IN /\ r.rounds = Len(a) /\ r.said <= 1
          /\ (r.said = 1) = ("unsupported" \in Range(a))
          /\ r.taken = (a # <<>> /\ Last(a) = "ok")
          /\ Last(job.topic) = "." /\ Len(job.topic) = 2
          /\ \A p \in job.payloads : p.surroundAudio \in {"eac3", "ac3", "off"} /\ "" \notin Range(p.preferredLanguages)
=============================================================================
