------------------------------- MODULE TrackPlan -------------------------------
(***************************************************************************)
(* What a package does with the tracks of its source: the language each    *)
(* track takes, which tracks a client offers, which one is the default,    *)
(* which get a 5.1 companion, what the master says of each and in which    *)
(* order.  Pure operators of packager.py (_with_track_languages to         *)
(* _pick_default_surround, _finish_group, _finish_subtitles, _main_first)  *)
(* and of the record logic they ask (audio_purpose, subtitle_purpose).     *)
(*                                                                         *)
(* A stream is a record: lang (a language key, what _lang_key makes of its *)
(* tag), codec, ch (channels), marks (the dispositions set), says (what    *)
(* its title says it is).  Indices are from 1.                             *)
(***************************************************************************)
EXTENDS Integers, Sequences, FiniteSets

Indices(streams) == DOMAIN streams

(***************************************************************************)
(* Languages.                                                              *)
(***************************************************************************)

\* The keys that name no language: undetermined, no linguistic content.
NoLanguage == {"und", "zxx"}

\* The entries of trackLanguages that count, as a function of the track; a
\* track named twice takes its last entry.
TrackOverrides(entries) ==
  LET good(i) == entries[i].kind \in {"audio", "subtitle"} /\ entries[i].ordinal >= 1
                 /\ entries[i].valid
      named == {<<entries[i].kind, entries[i].ordinal>> : i \in {j \in DOMAIN entries : good(j)}}
      last(k) == CHOOSE i \in DOMAIN entries :
                   /\ good(i) /\ <<entries[i].kind, entries[i].ordinal>> = k
                   /\ \A j \in DOMAIN entries : j > i /\ good(j) => <<entries[j].kind, entries[j].ordinal>> # k
  IN [k \in named |-> entries[last(k)].lang]

\* The mutant of NextOrdinals that forgets where the last track was found.
NextOrdinalsAnew(packaged, source) ==
  [i \in 0 .. Len(packaged) |->
     IF i = 0 THEN 0
     ELSE LET left == {j \in DOMAIN source : source[j].codec = packaged[i].codec}
          IN IF left = {} THEN Len(source) + 1 ELSE CHOOSE j \in left : \A k \in left : j <= k]

\* The source track a scan of the source stops at for packaged track i: the
\* first of its codec after the one track i - 1 took; Len(source) + 1 when
\* there is none.
NextOrdinals(packaged, source) ==
  LET at[i \in 0 .. Len(packaged)] ==
        IF i = 0 THEN 0
        ELSE LET left == {j \in DOMAIN source : j > at[i - 1] /\ source[j].codec = packaged[i].codec}
             IN IF left = {} THEN Len(source) + 1
                ELSE CHOOSE j \in left : \A k \in left : j <= k
  IN at

\* Each packaged track's place among the source's tracks of its kind.
SourceOrdinals(packaged, source) ==
  LET at == NextOrdinals(packaged, source)
      lines == \A i \in DOMAIN packaged : at[i] <= Len(source)
  IN [i \in DOMAIN packaged |-> IF lines THEN at[i] ELSE i]

\* The streams of one kind with their overrides in place of their tags.
WithTrackLanguages(kind, streams, source, overrides) ==
  LET ordinal == SourceOrdinals(streams, source)
  IN [i \in DOMAIN streams |->
        IF <<kind, ordinal[i]>> \in DOMAIN overrides
        THEN [streams[i] EXCEPT !.lang = overrides[<<kind, ordinal[i]>>]]
        ELSE streams[i]]

(***************************************************************************)
(* What a track is for (libv2_records' audio_purpose, subtitle_purpose).   *)
(***************************************************************************)

AudioPurpose(s) ==
  IF "comment" \in s.marks THEN "commentary"
  ELSE IF "visual_impaired" \in s.marks THEN "description"
  ELSE IF "commentary" \in s.says THEN "commentary"
  ELSE IF "description" \in s.says THEN "description"
  ELSE "main"

SubtitlePurpose(s) ==
  IF "forced" \in s.marks THEN "forced"
  ELSE IF "hearing_impaired" \in s.marks THEN "sdh"
  ELSE IF "comment" \in s.marks THEN "commentary"
  ELSE IF "lyrics" \in s.marks THEN "lyrics"
  ELSE IF "forced" \in s.says THEN "forced"
  ELSE IF "signs" \in s.says THEN "signs-songs"
  ELSE IF "sdh" \in s.says THEN "sdh"
  ELSE IF "commentary" \in s.says THEN "commentary"
  ELSE IF "lyrics" \in s.says THEN "lyrics"
  ELSE "dialogue"

\* _is_main_audio asks the two questions apart: a description's title that
\* says commentary too is no main audio by either.
IsMainAudio(s) ==
  /\ ~ ("comment" \in s.marks \/ "commentary" \in s.says)
  /\ AudioPurpose(s) # "description"

(***************************************************************************)
(* Visibility.                                                             *)
(***************************************************************************)

VisibleIndices(streams, whitelist, keepOriginalIfSingle) ==
  LET named == {i \in Indices(streams) : streams[i].lang \in NoLanguage \cup whitelist}
      known == {streams[i].lang : i \in Indices(streams)} \ NoLanguage
  IN IF whitelist = {} THEN Indices(streams)
     ELSE IF named # {} THEN named
     ELSE IF keepOriginalIfSingle /\ Cardinality(known) = 1 THEN Indices(streams)
     ELSE {}

(***************************************************************************)
(* Defaults.  A rank is a tuple of the code's, read as one number: a flag  *)
(* that holds costs more than everything after it.                         *)
(***************************************************************************)

Flag(b) == IF b THEN 1 ELSE 0

\* The mutant of AudioRank that puts the source's flag before the purpose.
AudioRankFlagged(streams, visible, i) ==
  LET n == Len(streams) + 1
  IN (4 * Flag(i \notin visible) + 2 * Flag("default" \notin streams[i].marks)
       + Flag(~ IsMainAudio(streams[i]))) * n + i

AudioRank(streams, visible, i) ==
  LET n == Len(streams) + 1
  IN (4 * Flag(i \notin visible) + 2 * Flag(~ IsMainAudio(streams[i]))
       + Flag("default" \notin streams[i].marks)) * n + i

\* The tracks the default is picked among: those of the first preferred
\* language that has any, else all.
DefaultCandidates(streams, preferred) ==
  LET has(k) == {i \in Indices(streams) : streams[i].lang = preferred[k]}
      first == {k \in DOMAIN preferred : has(k) # {} /\ \A l \in 1 .. k - 1 : has(l) = {}}
  IN IF first = {} THEN Indices(streams) ELSE UNION {has(k) : k \in first}

\* 0 for a source without audio.
PickDefaultAudio(streams, visible, preferred) ==
  IF Indices(streams) = {} THEN 0
  ELSE LET candidates == DefaultCandidates(streams, preferred)
       IN CHOOSE i \in candidates : \A j \in candidates :
            AudioRank(streams, visible, i) <= AudioRank(streams, visible, j)

\* entries: the packaged subtitles, each with lang, forced and visible.
\* 0 where none is to be shown by itself.
PickDefaultSubtitle(entries, audioLanguage) ==
  LET forced == {i \in DOMAIN entries : entries[i].forced /\ entries[i].visible}
      same == {i \in forced : entries[i].lang = audioLanguage}
      unknown == {i \in forced : entries[i].lang \in NoLanguage}
      first(S) == IF S = {} THEN 0 ELSE CHOOSE i \in S : \A j \in S : i <= j
  IN IF audioLanguage \in NoLanguage THEN first(forced)
     ELSE IF same # {} THEN first(same) ELSE first(unknown)

(***************************************************************************)
(* The 5.1 companions.                                                     *)
(***************************************************************************)

IsFilmSurround(s) == s.ch > 2 /\ IsMainAudio(s)

\* The mutant of SurroundOffered that leaves out what the whitelist hides.
SurroundShownOnly(streams, visible, default) ==
  {i \in Indices(streams) : IsFilmSurround(streams[i]) /\ i \in visible}

\* The surround tracks the companions are made of: those a client offers,
\* or, where none of those is surround, the first one.
SurroundOffered(streams, visible, default) ==
  LET film == {i \in Indices(streams) : IsFilmSurround(streams[i])}
      offered == {i \in film : i \in visible \/ i = default}
  IN IF offered # {} THEN offered ELSE {i \in film : \A j \in film : i <= j}

\* The source tracks with a companion: the first of each language.
SurroundPlan(streams, visible, default, codec) ==
  IF codec = "off" THEN {}
  ELSE LET S == SurroundOffered(streams, visible, default)
       IN {i \in S : \A j \in S : j < i => streams[j].lang # streams[i].lang}

SurroundRank(streams, visible, default, preferred, i) ==
  LET n == Len(preferred) + 1
      at == {k \in DOMAIN preferred : preferred[k] = streams[i].lang}
      place == IF at = {} THEN n - 1 ELSE (CHOOSE k \in at : \A l \in at : k <= l) - 1
  IN ((4 * Flag(i \notin visible) + 2 * Flag(i # default)
        + Flag(default = 0 \/ streams[i].lang # streams[default].lang)) * n + place)
     * (Len(streams) + 1) + i

\* 0 without a companion.
PickDefaultSurround(plan, streams, visible, default, preferred) ==
  IF plan = {} THEN 0
  ELSE CHOOSE i \in plan : \A j \in plan : SurroundRank(streams, visible, default, preferred, i)
                                             <= SurroundRank(streams, visible, default, preferred, j)

(***************************************************************************)
(* The master: AUTOSELECT of the renditions of a group, each with lang,    *)
(* visible and purpose; then their order.                                  *)
(***************************************************************************)

\* The mutant of AudioAutoselect that lets a description take the place of
\* its language's main audio.
AudioAutoselectFirst(metas) ==
  [i \in DOMAIN metas |->
     /\ metas[i].visible /\ metas[i].purpose # "commentary"
     /\ ~ \E j \in 1 .. i - 1 : metas[j].visible /\ metas[j].lang = metas[i].lang]

\* The first visible main rendition of its language, or a visible
\* description; never a commentary.
AudioAutoselect(metas) ==
  [i \in DOMAIN metas |->
     /\ metas[i].visible
     /\ \/ metas[i].purpose = "description"
        \/ /\ metas[i].purpose = "main"
           /\ ~ \E j \in 1 .. i - 1 : /\ metas[j].visible /\ metas[j].purpose = "main"
                                      /\ metas[j].lang = metas[i].lang]

\* Subtitle renditions: lang, forced, purpose; all of them visible.
SubtitleAutoselect(subs) ==
  LET counts(j) == subs[j].purpose \notin {"sdh", "commentary"}
  IN [i \in DOMAIN subs |->
        \/ subs[i].purpose = "sdh"
        \/ /\ counts(i)
           /\ \/ subs[i].forced
              \/ ~ \E j \in 1 .. i - 1 : /\ counts(j) /\ subs[j].lang = subs[i].lang
                                         /\ subs[j].forced = subs[i].forced]

\* Where item i goes: its language keeps its places, its main ones first.
MainFirst(langs, mains) ==
  LET places(l) == {i \in DOMAIN langs : langs[i] = l}
      before(j, i) == \/ mains[j] /\ ~ mains[i]
                      \/ mains[j] = mains[i] /\ j < i
      \* the item a place takes: as many of its language go before it
      taken(p) == CHOOSE i \in places(langs[p]) :
                    Cardinality({j \in places(langs[p]) : before(j, i)})
                      = Cardinality({q \in places(langs[p]) : q < p})
  IN [p \in DOMAIN langs |-> taken(p)]
=============================================================================
