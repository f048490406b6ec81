----------------------------- MODULE MasterPlaylist -----------------------------
(***************************************************************************)
(* The master playlist and the manifest's entries, from what shaka wrote   *)
(* of the streams it was given (read_shaka_master, _run_shaka_packager,    *)
(* build_master).                                                          *)
(*                                                                         *)
(* A rung: id, codec (its stream's, by its probe), range ("SDR" | "PQ" |   *)
(* "HLG"), fps (0 unknown), encoder ("none": nothing names it).  An audio  *)
(* rendition: group, codec, lang, default, autoselect, purpose; rendition  *)
(* n is a{n}.  A subtitle: id, forced, autoselect, purpose.  Stats are a   *)
(* rendition's peak.  A line of shaka's master is one of its tag, with the *)
(* URI it leads to ("none" where it says none).                            *)
(***************************************************************************)
EXTENDS HlsMaster, Lists

\* The folder of a rendition; its media playlist is the one there.
Video(rung) == <<"v", rung.id>>
AudioDir(n) == <<"a", n>>
TextDir(sub) == <<"t", sub.id>>

StreamInf(uri, codecs, group, fps) == [tag |-> "stream", uri |-> uri, codecs |-> codecs, group |-> group, fps |-> fps]
MediaInf(uri, channels) == [tag |-> "media", uri |-> uri, channels |-> channels]
IFrameInf(uri) == [tag |-> "iframe", uri |-> uri]

Earliest(lines, places) == IF places = {} THEN {} ELSE {lines[Min(places)]}

\* What is kept of shaka's master: a video's first line, a rendition's last,
\* and of a group the codecs of the first line that tells it.
VideoLine(lines, uri) == Earliest(lines, {i \in DOMAIN lines : lines[i].tag = "stream" /\ lines[i].uri = uri})
MediaLine(lines, uri) == LET named == {i \in DOMAIN lines : lines[i].tag = "media" /\ lines[i].uri = uri}
                         IN IF named = {} THEN {} ELSE {lines[Max(named)]}
\* Mutant of GroupCodecs: the first line that tells any group's.
GroupCodecsOfAny(lines, group) ==
  LET line == Earliest(lines, {i \in DOMAIN lines : lines[i].tag = "stream" /\ Len(lines[i].codecs) > 1})
  IN IF line = {} THEN <<>> ELSE Tail((CHOOSE l \in line : TRUE).codecs)

GroupCodecs(lines, group) ==
  LET line == Earliest(lines, {i \in DOMAIN lines : /\ lines[i].tag = "stream" /\ lines[i].group = group
                                                  /\ Len(lines[i].codecs) > 1})
  IN IF line = {} THEN <<>> ELSE Tail((CHOOSE l \in line : TRUE).codecs)
IFrames(lines) == Kept(lines, {i \in DOMAIN lines : lines[i].tag = "iframe"})

\* A rung's codec and frame rate: shaka's word for the one, the probe's for
\* the other, each where there is one.
VideoCodec(lines, rung) ==
  LET line == VideoLine(lines, Video(rung))
      told == {l \in line : l.codecs # <<>>}
  IN IF told = {} THEN rung.codec ELSE (CHOOSE l \in told : TRUE).codecs[1]

FrameRate(lines, rung) ==
  LET line == VideoLine(lines, Video(rung))
  IN IF rung.fps # 0 \/ line = {} THEN rung.fps ELSE (CHOOSE l \in line : TRUE).fps

\* An audio rendition's codec is its group's; AAC or its companion's where
\* shaka tells none.
AudioCodec(lines, entry) ==
  LET codecs == GroupCodecs(lines, entry.group)
  IN IF codecs # <<>> THEN codecs[1] ELSE IF entry.group = "audio" THEN "mp4a" ELSE entry.codec

Channels(lines, n, entry) ==
  LET line == MediaLine(lines, AudioDir(n))
  IN IF line = {} THEN entry.ch ELSE (CHOOSE l \in line : TRUE).channels

CarriesHdr10(rung) == rung.hevc /\ rung.range = "PQ"

\* The rungs the metadata is written into, all of those in PQ; the run fails
\* ({}) where one can't take it.
WithHdr10(rungs, metadata, takes) ==
  LET pq == {i \in DOMAIN rungs : CarriesHdr10(rungs[i])}
  IN IF ~ metadata THEN {{}} ELSE IF pq \subseteq takes THEN {pq} ELSE {}

Characteristics(purpose) ==
  CASE purpose = "description" -> "describes-video" [] purpose = "sdh" -> "transcribes" [] OTHER -> ""

(***************************************************************************)
(* The manifest's entries.                                                 *)
(***************************************************************************)

VideoEntry(lines, rung, peak, written) ==
  [dir |-> Video(rung), codec |-> VideoCodec(lines, rung), peak |-> peak, hdr |-> rung.range # "SDR",
   videoRange |-> rung.range, hdr10Metadata |-> written, encoder |-> rung.encoder]

AudioMeta(lines, n, entry, peak) ==
  [dir |-> AudioDir(n), codec |-> AudioCodec(lines, entry), bitrate |-> peak, group |-> entry.group,
   default |-> entry.default]

(***************************************************************************)
(* The master.                                                             *)
(***************************************************************************)

AudioLine(lines, n, entry) ==
  [tag |-> "audio", uri |-> AudioDir(n), group |-> entry.group, default |-> entry.default,
   autoselect |-> entry.autoselect \/ entry.default, channels |-> Channels(lines, n, entry),
   characteristics |-> IF entry.purpose = "description" THEN Characteristics(entry.purpose) ELSE ""]

TextLine(sub) ==
  [tag |-> "subtitles", uri |-> TextDir(sub), group |-> "subs", default |-> FALSE, forced |-> sub.forced,
   autoselect |-> sub.autoselect \/ sub.forced,
   characteristics |-> IF sub.purpose = "sdh" THEN Characteristics("sdh") ELSE ""]

\* The groups, the first rendition's first; a package without audio has one
\* that is none.
GroupsInOrder(entries) ==
  LET groups == [n \in DOMAIN entries |-> entries[n].group]
  IN IF entries = <<>> THEN <<"none">> ELSE Kept(groups, Firsts(groups))

Members(entries, group) == InOrder({n \in DOMAIN entries : entries[n].group = group}, Len(entries))

\* Each codec of a group once.
CodecsOf(lines, entries, group) ==
  LET ns == Members(entries, group)
      codecs == [k \in DOMAIN ns |-> AudioCodec(lines, entries[ns[k]])]
  IN Kept(codecs, Firsts(codecs))

VariantLine(lines, rung, v, group, entries, subs, peaks) ==
  [tag |-> "variant", uri |-> Video(rung), group |-> group, subtitles |-> subs # <<>>,
   codecs |-> <<VideoCodec(lines, rung)>> \o CodecsOf(lines, entries, group),
   fps |-> FrameRate(lines, rung), range |-> rung.range,
   bandwidth |-> Bandwidth(peaks.video[v], [k \in DOMAIN Members(entries, group) |->
                             peaks.audio[Members(entries, group)[k]]], peaks.text)]

\* order: of each group, how its lines follow one another.
BuildMaster(lines, rungs, entries, order, subs, peaks) ==
  LET groups == GroupsInOrder(entries)
  IN Concatenated([g \in DOMAIN groups |-> IF groups[g] = "none" THEN <<>> ELSE
                   [p \in DOMAIN order[groups[g]] |->
                      AudioLine(lines, order[groups[g]][p], entries[order[groups[g]][p]])]])
     \o [k \in DOMAIN subs |-> TextLine(subs[k])]
     \o Concatenated([g \in DOMAIN groups |-> [v \in DOMAIN rungs |->
                      VariantLine(lines, rungs[v], v, groups[g], entries, subs, peaks)]])
     \o IFrames(lines)

\* Of the subtitles that were segmented, the master lists all or none: asked
\* is HLS_SUBTITLES.
AssembleMaster(lines, rungs, entries, order, segmented, peaks, asked) ==
  BuildMaster(lines, rungs, entries, order, IF asked THEN segmented ELSE <<>>, peaks)
=============================================================================
