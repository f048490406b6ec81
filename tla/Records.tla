-------------------------------- MODULE Records --------------------------------
(***************************************************************************)
(* What a package's record says the package lost, and what the deletion    *)
(* gate says deleting its original costs: libv2_records.py (source_essence,*)
(* package_essence, losses_against, deletion_gate) on the manifest that    *)
(* records.py completes for it (for_record).                               *)
(*                                                                         *)
(* A source is a record of its streams: audio and subs, sequences of       *)
(* TrackPlan's streams, fonts (attachments that are fonts) and hdr10.  A   *)
(* subtitle stream also has form ("text" | "image"), styled and events     *)
(* ("none", "few", "full").  The key "und" stands for no language tag: the *)
(* source's essence leaves it out, the package's names it.                 *)
(*                                                                         *)
(* A package names its streams by their index in the source: audio and     *)
(* companions, subs (those it has a file of), styled (the subs that keep   *)
(* their styled original), fonts; outside are the subtitles made from      *)
(* files beside the source; top is how its first video rendition came to   *)
(* be: "copied", "boxes" (encoded, its init segment says the metadata) or  *)
(* "encoded"; codec is what the companions are.                            *)
(***************************************************************************)
EXTENDS TrackPlan, FiniteSetsExt

LosslessAudio == {"truehd", "flac"}

(***************************************************************************)
(* What a stream is for, as each record reads it.                          *)
(***************************************************************************)

\* A subtitle nothing is said of, with few lines beside its language's full
\* track, is forced.
ForcedBySize(subs, i) ==
  /\ SubtitlePurpose(subs[i]) = "dialogue" /\ subs[i].events = "few"
  /\ \E j \in DOMAIN subs \ {i} : subs[j].events = "full" /\ subs[j].lang = subs[i].lang

SourcePurpose(subs, i) == IF ForcedBySize(subs, i) THEN "forced" ELSE SubtitlePurpose(subs[i])

\* The marks a manifest entry has room for.
EntryMarks == {"forced", "hearing_impaired", "comment", "visual_impaired"}

AsEntry(s) == [s EXCEPT !.marks = s.marks \cap EntryMarks]

\* The mutant of AsRecorded that leaves an entry as the build made it.
AsBuilt(subs, i) == AsEntry(subs[i])

\* The entry marked so that its record reads it as the source's does.
AsRecorded(subs, i) ==
  LET entry == AsEntry(subs[i])
      mark == CASE SourcePurpose(subs, i) = "forced" -> {"forced"}
                [] SourcePurpose(subs, i) = "sdh" /\ SubtitlePurpose(entry) # "sdh" -> {"hearing_impaired"}
                [] OTHER -> {}
  IN [entry EXCEPT !.marks = @ \cup mark]

\* What each packaged subtitle is for: those of the source and those beside.
PackagePurposes(src, pkg) ==
  [i \in pkg.subs |-> SubtitlePurpose(AsRecorded(src.subs, i))]

(***************************************************************************)
(* The essences.                                                           *)
(***************************************************************************)

Named(langs) == langs \ {"und"}

SourceEssence(src) ==
  LET a == src.audio  s == src.subs
      for(p) == {i \in DOMAIN s : SourcePurpose(s, i) \in p}
  IN [maxAudioChannels |-> Max({0} \cup {a[i].ch : i \in DOMAIN a}),
      surround |-> \E i \in DOMAIN a : a[i].ch > 2,
      losslessAudio |-> \E i \in DOMAIN a : a[i].codec \in LosslessAudio,
      hdr10Metadata |-> src.hdr10,
      imageSubtitles |-> \E i \in DOMAIN s : s[i].form = "image",
      styledSubtitles |-> \E i \in DOMAIN s : s[i].styled,
      fonts |-> src.fonts # {},
      subtitleTracks |-> Len(s),
      commentaryTracks |-> Cardinality({i \in DOMAIN a : AudioPurpose(a[i]) = "commentary"}),
      audioDescriptionTracks |-> Cardinality({i \in DOMAIN a : AudioPurpose(a[i]) = "description"}),
      commentarySubtitles |-> Cardinality(for({"commentary"})),
      audioLanguages |-> Named({a[i].lang : i \in DOMAIN a}),
      subtitleLanguages |-> Named({s[i].lang : i \in DOMAIN s}),
      sdhSubtitleLanguages |-> Named({s[i].lang : i \in for({"sdh"})}),
      forcedSubtitleLanguages |-> Named({s[i].lang : i \in for({"forced", "signs-songs"})})]

\* Every stream of the source that has it is one the package took it from.
CarriesAll(taken, has) == taken # {} /\ has \subseteq taken

PackageEssence(src, pkg) ==
  LET a == src.audio  s == src.subs  out == pkg.outside
      purpose == PackagePurposes(src, pkg)
      for(p) == {i \in pkg.subs : purpose[i] \in p}
      beside(p) == {k \in DOMAIN out : SubtitlePurpose(out[k]) \in p}
      langs(p) == {s[i].lang : i \in for(p)} \cup {out[k].lang : k \in beside(p)}
      entry(i) == AudioPurpose(AsEntry(a[i]))
  IN [maxAudioChannels |-> IF pkg.companions # {} THEN 6 ELSE IF pkg.audio # {} THEN 2 ELSE 0,
      surround |-> pkg.companions # {},
      losslessAudio |-> FALSE,
      hdr10Metadata |-> src.hdr10 /\ pkg.top \in {"copied", "boxes"},
      imageSubtitles |-> \E i \in pkg.subs : s[i].form = "image",
      styledSubtitles |-> CarriesAll(pkg.styled, {i \in DOMAIN s : s[i].styled}),
      fonts |-> CarriesAll(pkg.fonts, src.fonts),
      subtitleTracks |-> Cardinality(pkg.subs) + Len(out),
      commentaryTracks |-> Cardinality({i \in pkg.audio : entry(i) = "commentary"}),
      audioDescriptionTracks |-> Cardinality({i \in pkg.audio : entry(i) = "description"}),
      commentarySubtitles |-> Cardinality(for({"commentary"})) + Cardinality(beside({"commentary"})),
      audioLanguages |-> {a[i].lang : i \in pkg.audio \cup pkg.companions},
      subtitleLanguages |-> {s[i].lang : i \in pkg.subs} \cup {out[k].lang : k \in DOMAIN out},
      sdhSubtitleLanguages |-> langs({"sdh"}),
      forcedSubtitleLanguages |-> langs({"forced", "signs-songs"})]

(***************************************************************************)
(* What is lost: by the package's record, and by the gate.                 *)
(***************************************************************************)

LossFlags == {"surround", "losslessAudio", "hdr10Metadata", "imageSubtitles", "styledSubtitles", "fonts"}
LossCounts == {"maxAudioChannels", "subtitleTracks", "commentaryTracks", "commentarySubtitles",
               "audioDescriptionTracks"}
LossLanguages == {"audioLanguages", "subtitleLanguages", "sdhSubtitleLanguages", "forcedSubtitleLanguages"}

\* Pairs of a key and the language lost, "" for a key that is no language's.
DeletionGate(had, kept) ==
  {<<k, "">> : k \in {f \in LossFlags : had[f] /\ ~ kept[f]}}
    \cup {<<k, "">> : k \in {c \in LossCounts : kept[c] < had[c]}}
    \cup UNION {{<<k, l>> : l \in had[k] \ kept[k]} : k \in LossLanguages}

LossesAgainst(src, pkg) ==
  LET had == SourceEssence(src)  kept == PackageEssence(src, pkg)
      codecs == {src.audio[i].codec : i \in DOMAIN src.audio}
      packaged == (IF pkg.audio # {} THEN {"aac"} ELSE {})
                    \cup (IF pkg.companions # {} THEN {pkg.codec} ELSE {})
      kinds == [ k \in {"audio-downmix", "audio-codec", "audio-dropped", "dynamic-range",
                        "subtitle-dropped", "subtitle-styling", "attachments-dropped"} |->
        CASE k = "audio-downmix" -> had.maxAudioChannels > kept.maxAudioChannels
          [] k = "audio-codec" -> codecs # {} /\ ~ packaged \subseteq codecs
          [] k = "audio-dropped" -> Len(src.audio) > Cardinality(pkg.audio)
          [] k = "dynamic-range" -> had.hdr10Metadata /\ ~ kept.hdr10Metadata
          [] k = "subtitle-dropped" -> had.subtitleTracks > kept.subtitleTracks
          [] k = "subtitle-styling" -> had.styledSubtitles /\ ~ kept.styledSubtitles
          [] OTHER -> had.fonts /\ ~ kept.fonts ]
  IN {k \in DOMAIN kinds : kinds[k]}
=============================================================================
