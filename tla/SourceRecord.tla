------------------------------ MODULE SourceRecord ------------------------------
(***************************************************************************)
(* What the library keeps of an original: its source record, the version   *)
(* and extra records made of it, and the fonts its package takes from it   *)
(* (libv2_records.py, records.py, packager.py's _ffprobe and fonts).       *)
(*                                                                         *)
(* A stream as ffprobe reports it is a record: type, codec, tag (its       *)
(* language), ch, marks and says as in TrackPlan, side (the side data of a *)
(* picture), transfer, encoder (it names one), claim (the codec and the    *)
(* channels its title claims, "" and 0 for none), and of an attachment     *)
(* mime, name, head (what its first bytes are) and bytes.  A language tag  *)
(* is its first subtag and how many follow; NoTag is none.                 *)
(***************************************************************************)
EXTENDS Records, SequencesExt

(***************************************************************************)
(* Languages.                                                              *)
(***************************************************************************)

LangTag(base, subs) == [base |-> base, subs |-> subs]
NoTag == LangTag("", 0)
Und == LangTag("und", 0)

TwoLetters == {"de", "pt", "nb", "cy"}
ThreeLetters == {"ger", "deu", "por", "nob", "gsw", "und", "zxx"}
ISO639 == [ger |-> "de", deu |-> "de", por |-> "pt", nob |-> "nb", und |-> "und", zxx |-> "zxx"]

\* The code a record has for a tag: nothing it can't hold.
Lang(tag) ==
  IF tag.base = "" \/ (tag.base \in TwoLetters /\ tag.subs <= 1) THEN tag
  ELSE IF tag.subs = 0 /\ tag.base \in DOMAIN ISO639 THEN LangTag(ISO639[tag.base], 0)
  ELSE IF tag.subs = 0 /\ tag.base \in ThreeLetters THEN tag
  ELSE Und

Coded(code) == IF code = NoTag THEN Und ELSE code

\* A rendition keeps the code of its file wherever the format can hold it.
RenditionLanguage(tag) ==
  IF tag.base \in TwoLetters \cup ThreeLetters THEN tag ELSE Coded(Lang(tag))

\* A subtitle file's, as the catalog has it.
SidecarLanguage(tag) ==
  IF tag = NoTag \/ tag.base \in TwoLetters \cup ThreeLetters THEN tag ELSE Lang(tag)

(***************************************************************************)
(* What a name claims.  A name's marks are its season-and-episode heads in *)
(* their order, each with the number, what follows at once ("more" where   *)
(* another number does) and the numbers after it, each with how it is      *)
(* joined and what follows it.                                             *)
(***************************************************************************)

MAX_COVERED == 10

\* How a number is joined to the one before, by what stands just after that.
Joined == {"E", "_E", "-", "-E", " E"}
InWord == {"E", "_E", "digit", "p", "word"}

Follows(mark, k) ==
  IF k < Len(mark.more) THEN mark.more[k + 1].by ELSE mark.then

NumberAt(mark, k) == IF k = 0 THEN mark.first ELSE mark.more[k].n

\* Number k goes on from the one before.
GoesOn(mark, k) ==
  /\ Follows(mark, k) # "digit" /\ ~ (mark.more[k].by = "-" /\ Follows(mark, k) = "p")
  /\ NumberAt(mark, k) > NumberAt(mark, k - 1)
  /\ NumberAt(mark, k) - mark.first + 1 <= MAX_COVERED

\* The last number the token may end with: the longest that stands apart; -1
\* where none does.
LastOf(mark) ==
  LET reached == {k \in 0 .. Len(mark.more) : \A j \in 1 .. k : GoesOn(mark, j)}
      apart == {k \in reached : Follows(mark, k) \notin InWord}
  IN IF Follows(mark, 0) = "digit" \/ apart = {} THEN -1 ELSE Max(apart)

\* <<first, last>> of the first mark that numbers episodes, <<>> for none.
EpisodeRange(marks) ==
  LET found == {i \in DOMAIN marks : LastOf(marks[i]) >= 0}
      i == Min(found)
  IN IF found = {} THEN <<>> ELSE <<marks[i].first, NumberAt(marks[i], LastOf(marks[i]))>>

\* nxn: the number of a "1x05", <<>> for none, and the marks before it.
Naming(name) ==
  LET range == EpisodeRange(name.marks)
      at == Min({i \in DOMAIN name.marks : LastOf(name.marks[i]) >= 0})
  IN IF range # <<>> /\ (name.nxn = <<>> \/ at <= name.before) THEN range
     ELSE IF name.nxn # <<>> THEN <<name.nxn[1], name.nxn[1]>> ELSE <<>>

\* An edition of a name or of a folder, "none" for none.
Labels(name, folder) ==
  [quality |-> IF name.quality = <<>> THEN "none" ELSE Last(name.quality),
   edition |-> name.edition,
   folderEdition |-> IF folder.shaped THEN folder.edition ELSE "none"]

(***************************************************************************)
(* The names the library gives.                                            *)
(***************************************************************************)

Extension(ext) == IF ext \in {"mkv", "srt"} THEN ext ELSE "bin"

LibraryOriginalName(ext) == <<"original", Extension(ext)>>

SubtitleCopyName(n, tag, forced, hearing, ext) ==
  <<"subtitle", n, Coded(Lang(LangTag(tag.base, 0))).base>>
    \o (IF forced THEN <<"forced">> ELSE <<>>) \o (IF hearing THEN <<"sdh">> ELSE <<>>) \o <<Extension(ext)>>

SidecarEntry(n, file) ==
  LET forced == file.forced \/ "forced" \in file.named
      hearing == "sdh" \in file.named
  IN [file |-> SubtitleCopyName(n, file.tag, forced, hearing, file.ext),
      language |-> SidecarLanguage(file.tag), forced |-> forced, hearingImpaired |-> hearing,
      purpose |-> IF forced THEN "forced" ELSE IF hearing THEN "sdh" ELSE "dialogue"]

(***************************************************************************)
(* Attachments.                                                            *)
(***************************************************************************)

\* What an attachment is by what it says, then by its first bytes.
AttachmentRole(s, head) ==
  IF s.mime = "font" \/ s.name = "font" THEN "font"
  ELSE IF s.mime = "image" THEN "cover"
  ELSE IF head = "font" THEN "font" ELSE "other"

\* The attachments whose first bytes are read.
Asked(streams) ==
  {i \in DOMAIN streams : /\ streams[i].type = "attachment" /\ streams[i].bytes > 0
                          /\ AttachmentRole(streams[i], "none") = "other"}

\* No bytes for those ffmpeg can't read.
AttachmentHeads(streams, unread) == [i \in Asked(streams) \ unread |-> streams[i].head]

HeadOf(heads, i) == IF i \in DOMAIN heads THEN heads[i] ELSE "none"

\* The mutant of FontAttachments that doesn't look at an attachment's bytes.
FontAttachmentsBySaying(streams, unread) ==
  {i \in DOMAIN streams : streams[i].type = "attachment" /\ AttachmentRole(streams[i], "none") = "font"}

\* The fonts a package looks for.
FontAttachments(streams, unread) ==
  {i \in DOMAIN streams : /\ streams[i].type = "attachment"
                          /\ AttachmentRole(streams[i], HeadOf(AttachmentHeads(streams, unread), i)) = "font"}

\* Those it has: written whole, and of some bytes.  slow: ffmpeg didn't answer
\* in time, so what an attachment is can't be told.
ExtractedFonts(streams, unread, slow, whole) ==
  IF slow /\ Asked(streams) # {} THEN {}
  ELSE {i \in FontAttachments(streams, unread) : streams[i].bytes > 0 /\ i \in whole}

(***************************************************************************)
(* The streams as a record keeps them.                                     *)
(***************************************************************************)

Picture(streams) ==
  {i \in DOMAIN streams : streams[i].type = "video" /\ "attached_pic" \notin streams[i].marks}

\* The picture a package is made of: the first that is no cover, else the first.
PackagedVideo(streams) ==
  LET videos == {i \in DOMAIN streams : streams[i].type = "video"}
  IN IF Picture(streams) # {} THEN Min(Picture(streams)) ELSE IF videos # {} THEN Min(videos) ELSE 0

\* ... and its stream of the original, as a rendition's record names it.
SourceVideo(streams) == IF Picture(streams) = {} THEN 0 ELSE Min(Picture(streams))

HdrInfo(s) ==
  [format |-> IF "dovi" \in s.side THEN "dolby-vision" ELSE IF s.transfer = "pq" THEN "hdr10"
              ELSE IF s.transfer = "hlg" THEN "hlg" ELSE "sdr",
   static |-> s.side \cap {"mastering", "light"} # {}]

Stereo3d(s) == IF "stereo3d" \in s.side THEN "side-by-side" ELSE "none"

Families == [truehd |-> {"truehd", "mlp"}, dts |-> {"dts"}, aac |-> {"aac"}]

ClaimContradicts(s) ==
  \/ s.claim.codec # "" /\ s.codec \notin Families[s.claim.codec]
  \/ s.claim.ch \notin {0, s.ch}

NormStream(i, s, head) ==
  [index |-> i, type |-> s.type, codec |-> s.codec, language |-> Lang(s.tag), marks |-> s.marks] @@
  CASE s.type = "video" -> [hdr |-> HdrInfo(s), stereo3d |-> Stereo3d(s), encoder |-> s.encoder]
    [] s.type = "audio" -> [channels |-> s.ch, lossless |-> s.codec \in LosslessAudio,
                            contradicts |-> ClaimContradicts(s), purpose |-> AudioPurpose(s)]
    [] s.type = "subtitle" -> [styled |-> s.codec = "ass", purpose |-> SubtitlePurpose(s)]
    [] s.type = "attachment" ->
         [role |-> AttachmentRole(s, head),
          bySignature |-> AttachmentRole(s, head) = "font" /\ AttachmentRole(s, "none") # "font"]

\* The keys of a container's tags that are its title.
TitleKeys == {"title", "TITLE"}

\* The probe as a source folder keeps it.
ScrubProbe(probe, name) == [probe EXCEPT !.filename = name, !.tags = @ \ TitleKeys]

\* What says a file was made of another.
Evidence(streams, tags) ==
  LET videos == {i \in DOMAIN streams : streams[i].type = "video" /\ "attached_pic" \notin streams[i].marks}
  IN (IF videos # {} /\ streams[Min(videos)].encoder THEN {"encoder-tag"} ELSE {})
     \cup (IF "lavf" \in tags THEN {"container-title"} ELSE {})
     \cup {"codec-vs-title" : i \in {j \in DOMAIN streams : streams[j].type = "audio" /\ streams[j].contradicts}}

Fidelity(streams, tags) ==
  [class |-> IF Evidence(streams, tags) = {} THEN "unknown" ELSE "derivative",
   evidence |-> Evidence(streams, tags)]

Probed(probe, heads) ==
  LET tags == probe.tags \ TitleKeys
      streams == [i \in DOMAIN probe.streams |-> NormStream(i, probe.streams[i], HeadOf(heads, i))]
  IN [container |-> [tags |-> tags, durationMs |-> probe.durationMs], streams |-> streams,
      fidelity |-> Fidelity(streams, tags),
      fonts |-> \E i \in DOMAIN streams : streams[i].type = "attachment" /\ streams[i].role = "font"]

(***************************************************************************)
(* The records.                                                            *)
(***************************************************************************)

\* A source that is probed: no record of one ffprobe can't read, or whose
\* attachments can't be told.
ProbeOriginal(streams, unread, readable, slow) ==
  IF ~ readable \/ (slow /\ Asked(streams) # {}) THEN {} ELSE {AttachmentHeads(streams, unread)}

\* arrival: the name a file came under and its folder; probe as ffprobe gave
\* it; covers and sidecars as the worker record and the copies have them.
RecordOfSource(arrival, probe, heads, sidecars, covers) ==
  LET facts == Probed(probe, heads)
      name == LibraryOriginalName(arrival.ext)
  IN [name |-> name, naming |-> Naming(arrival), labels |-> Labels(arrival, arrival.folder),
      container |-> facts.container, streams |-> facts.streams, fidelity |-> facts.fidelity,
      fonts |-> facts.fonts, covers |-> covers,
      sidecars |-> [n \in DOMAIN sidecars |-> SidecarEntry(n, sidecars[n])],
      probe |-> ScrubProbe(probe, name)]

\* A row without a start is no mark; a row without an end ends as it starts.
ChapterMarks(rows) ==
  LET marks == SelectSeq(rows, LAMBDA r : r.start # -1)
      sorted == SortSeq(marks, LAMBDA r, s : r.ordinal < s.ordinal)
  IN [i \in DOMAIN sorted |-> [start |-> sorted[i].start,
                               end |-> IF sorted[i].end > 0 THEN sorted[i].end ELSE sorted[i].start]]

KnownKinds == {"intro", "credits", "other"}

\* A kind the format doesn't know is other, labelled with what it was.
SegmentsOf(rows) ==
  LET kept == SelectSeq(rows, LAMBDA r : r.start # -1)
  IN [i \in DOMAIN kept |-> [kind |-> IF kept[i].kind \in KnownKinds THEN kept[i].kind ELSE "other",
                             label |-> IF kept[i].kind \in KnownKinds THEN kept[i].label ELSE kept[i].kind]]

\* The catalog's marks of a version, the original's own where it has none.
VersionMarks(build, own) ==
  LET catalog == ChapterMarks(build.chapters)
      said == IF build.chaptersFrom \in {"original-file", "legacy-catalog", "human"}
              THEN build.chaptersFrom ELSE "original-file"
  IN [chapters |-> IF catalog # <<>> THEN catalog ELSE own,
      chaptersFrom |-> IF catalog # <<>> THEN said ELSE IF own # <<>> THEN "original-file" ELSE "none",
      segments |-> SegmentsOf(build.segments), originalFiles |-> build.originalFiles]

RecordOfVersion(source, marks) ==
  LET picture == SelectSeq(source.streams, LAMBDA s : s.type = "video" /\ "attached_pic" \notin s.marks)
      kind == IF source.labels.edition # "none" THEN source.labels.edition ELSE source.labels.folderEdition
  IN [edition |-> IF kind = "none" THEN "unknown" ELSE kind,
      dynamicRange |-> IF picture = <<>> THEN "unknown" ELSE picture[1].hdr.format,
      stereo3d |-> IF picture = <<>> THEN "unknown" ELSE picture[1].stereo3d,
      runtimeMs |-> source.container.durationMs] @@ marks

ExtraKinds == {"trailer", "behind-the-scenes", "other"}

\* What the catalog took an extra in as, where the record can hold it.
CatalogSays(row) ==
  LET kind == IF row.kind \in ExtraKinds THEN row.kind ELSE "other"
  IN [kind |-> kind, title |-> IF row.title = "" THEN kind ELSE row.title,
      language |-> IF row.language.base \in TwoLetters \cup ThreeLetters THEN row.language ELSE NoTag,
      season |-> IF row.season >= 0 THEN row.season ELSE -1, linked |-> row.origin = "link"]

\* ... and what the probe found; the language it speaks where none is said.
RecordOfExtra(says, arrival, probe, heads) ==
  LET facts == Probed(probe, heads)
      spoken == SelectSeq(facts.streams, LAMBDA s : s.type = "audio" /\ s.language # NoTag)
  IN [language |-> IF says.language = NoTag /\ spoken # <<>> THEN spoken[1].language ELSE says.language,
      packagedFrom |-> LibraryOriginalName(arrival.ext), container |-> facts.container,
      streams |-> facts.streams, fonts |-> facts.fonts] @@ says

(***************************************************************************)
(* The flags of a package's record.                                        *)
(***************************************************************************)

\* One default of the audio, the first; the first rendition where there is none.
AudioDefaults(flags) ==
  LET set == {i \in DOMAIN flags : flags[i]}
  IN [i \in DOMAIN flags |-> IF set = {} THEN i = 1 ELSE i = Min(set)]

\* The companions have one at most.
SurroundDefaults(flags) ==
  [i \in DOMAIN flags |-> flags[i] /\ \A j \in 1 .. i - 1 : ~ flags[j]]

ShownAlone(s) == s.forced \/ s.purpose \in {"forced", "signs-songs"}

\* A subtitle a client shows by itself is never the default.
SubtitleDefaults(subs) ==
  LET may == {i \in DOMAIN subs : subs[i].default /\ ~ ShownAlone(subs[i])}
  IN [i \in DOMAIN subs |-> i \in may /\ i = Min(may)]
=============================================================================
