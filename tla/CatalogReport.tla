----------------------------- MODULE CatalogReport -----------------------------
(***************************************************************************)
(* What a run that is over says of its work: the rest of the manifest (the *)
(* end of build_package), the rest of the record made of it                *)
(* (package_record) and what it hands to the catalog (version_payload,     *)
(* extra_payload); and what it took for that: the language the catalog     *)
(* gives an extra and the facts of the source.  A number is -1 for one     *)
(* that isn't known (null), 0 for one a probe didn't get.                  *)
(***************************************************************************)
EXTENDS SourceRecord, WorkerRecord, Lists

(***************************************************************************)
(* The source.                                                             *)
(***************************************************************************)

SOURCE_KEYS == {"codec", "width", "height", "durationMs", "bitRate"}

\* probes: {} of a file ffprobe can't read.  A size is told whole.
ProbeSource(probes) ==
  LET p == CHOOSE q \in probes : TRUE
      told == {k \in SOURCE_KEYS : p[k] > 0}
      size == {"width", "height"}
  IN IF probes = {} THEN << >>
     ELSE [k \in IF size \subseteq told THEN told ELSE told \ size |-> p[k]]

\* Mutant of SourceBlock: what the handoff has no number for counts.
SourceBlockAsTold(handoff, probes) ==
  LET block == [k \in {j \in DOMAIN handoff : handoff[j] # -1} |-> handoff[k]]
  IN IF SOURCE_KEYS \subseteq DOMAIN block THEN block ELSE block @@ ProbeSource(probes)

\* handoff: what the transcoder's says of the source, << >> without one; what
\* it doesn't know a probe of the original completes.
SourceBlock(handoff, probes) ==
  LET known == {k \in DOMAIN handoff : handoff[k] # -1 /\ (handoff[k] # 0 \/ k \notin SOURCE_KEYS)}
      found == IF SOURCE_KEYS \subseteq known THEN << >> ELSE ProbeSource(probes)
  IN [k \in known \cup DOMAIN found |-> IF k \in known THEN handoff[k] ELSE found[k]]

(***************************************************************************)
(* The language of an extra.                                               *)
(***************************************************************************)

\* ISO 639-2 and ISO 639-1, as the packager's table lists them.
ISO639_1 == <<<<"deu", "de">>, <<"ger", "de">>, <<"por", "pt">>, <<"nob", "nb">>>>

LangKey(tag) ==
  LET rows == {i \in DOMAIN ISO639_1 : ISO639_1[i][1] = tag.base}
  IN IF tag.base = "" THEN "und" ELSE IF rows = {} THEN tag.base ELSE ISO639_1[Min(rows)][2]

LanguageCode(base) == base \in ThreeLetters

\* {} for a tag that has none.
ISO639_2(tag) ==
  LET rows == {i \in DOMAIN ISO639_1 : ISO639_1[i][2] = tag.base}
  IN IF rows # {} THEN {ISO639_1[Min(rows)][1]}
     ELSE IF LanguageCode(tag.base) /\ tag.base # "und" THEN {tag.base} ELSE {}

\* The extra's first audio track speaks what the catalog says the extra does.
TrackLanguages(tag) ==
  LET codes == ISO639_2(tag)  code == CHOOSE c \in codes : TRUE
  IN IF codes = {} THEN <<>>
     ELSE <<[kind |-> "audio", ordinal |-> 1, lang |-> LangKey(LangTag(code, 0)), valid |-> LanguageCode(code)]>>

\* The tracks an encode's are counted by: the original's, where it can be read.
ProbeOfSource(packaged, source, encoded, readable) ==
  IF encoded /\ readable THEN source ELSE packaged

(***************************************************************************)
(* The manifest and the record of it.                                      *)
(***************************************************************************)

ManifestKeys ==
  {"version", "itemId", "type", "title", "year", "tmdbId", "durationMs", "packagedAt", "packager",
   "renditions", "subtitles", "hls"}

EpisodeCode(item) == IF item.season = -1 \/ item.episode = -1 THEN {} ELSE {<<item.season, item.episode>>}

\* The keys of an item's manifest; {} where an extra's would replace one.
KeysOf(item, fonts, trickplay, extra) ==
  LET keys == ManifestKeys \cup (IF fonts THEN {"fonts"} ELSE {})
        \cup (IF item.type = "episode"
              THEN {"seriesTitle", "seasonNumber", "episodeNumber"}
                     \cup {"episodeCode" : c \in EpisodeCode(item)} ELSE {})
        \cup (IF trickplay THEN {"trickplay"} ELSE {})
  IN IF extra \cap keys # {} THEN {} ELSE keys \cup extra

\* What it says of the playlist: subs as the manifest has them, hls where a
\* rendition was made; asked: HLS_SUBTITLES.
HlsBlock(entries, subs, asked) ==
  LET groups == {entries[n].group : n \in DOMAIN entries}
      known == <<"audio", "surround">>
  IN [audioGroups |-> Kept(known, {k \in DOMAIN known : known[k] \in groups}),
      subtitleGroup |-> asked /\ \E k \in DOMAIN subs : subs[k].hls]

\* As the record keeps it: none of a manifest without a master.
HlsOfRecord(block, master, segmentSeconds) == IF ~ master \/ segmentSeconds < 1 THEN {} ELSE {block}

\* The highest the master advertises.
PeakBandwidth(master) ==
  Max({0} \cup {master[i].bandwidth : i \in {j \in DOMAIN master : master[j].tag = "variant"}})

\* The manifest, as its record keeps it.
RecordOfPackage(block, master, role) ==
  [state |-> "complete", role |-> role, hls |-> HlsOfRecord(block, master # <<>>, 6),
   peakBandwidthBps |-> PeakBandwidth(master)]

(***************************************************************************)
(* The handover.                                                           *)
(***************************************************************************)

\* The name a run renames the original to, where it does.
OriginalName(lib) == IF lib.mode \in MOVES_ORIGINAL THEN lib.originalName ELSE "none"

\* Beside the original its version keeps, or the only copy.
RoleOf(lib) == IF lib.mode = "add" \/ OriginalName(lib) # "none" THEN "derived" ELSE "canonical"

\* Mutant of OriginalIn: only the run that renames it says where it is.
OriginalInOnce(lib, again, keeps) ==
  IF OriginalName(lib) = "none" \/ again THEN {} ELSE {Append(lib.versionDir, OriginalName(lib))}

\* again: the version was in place, its record keeping the names `keeps`.
OriginalIn(lib, again, keeps) ==
  IF OriginalName(lib) = "none" \/ (again /\ OriginalName(lib) \notin keeps) THEN {}
  ELSE {Append(lib.versionDir, OriginalName(lib))}

\* packages: none of a version taken in.
VersionPayload(lib, packages, original, source) ==
  [versionId |-> lib.versionId, versionDir |-> lib.versionDir, sourceId |-> lib.sourceId,
   takenIn |-> packages = {}, package |-> packages, original |-> original, source |-> source]

\* A takein has no handoff to tell it of the source.
TakeinPayload(lib, original, probes) == VersionPayload(lib, {}, original, SourceBlock(<< >>, probes))

ExtraPayload(extraId, lib, package, source) ==
  [extraId |-> extraId, extraDir |-> lib.versionDir, package |-> {package}, source |-> source]
=============================================================================
