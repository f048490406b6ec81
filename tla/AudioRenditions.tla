---------------------------- MODULE AudioRenditions ----------------------------
(***************************************************************************)
(* The audio of a package, from the matrices that mix a track down, over   *)
(* the lift of a quiet mix, to the streams of the MP4 that shaka packages  *)
(* and the renditions its master lists (_stereo_chain, _surround_filter,   *)
(* _lift_one, _prepare_source, _run_shaka_packager).                       *)
(*                                                                         *)
(* Gains are in thousandths, levels in tenths of a decibel.  What ffmpeg   *)
(* measures is given.  A result that may be none is a set.                 *)
(***************************************************************************)
EXTENDS TrackPlan, Lists, SequencesExt

(***************************************************************************)
(* Mixes.  A layout is the sequence of its channels.                       *)
(***************************************************************************)

Unity == 1000
M3DB == 707

\* What a channel gives the left and the right.
DOWNMIX_GAINS ==
  [FL |-> <<Unity, 0>>, FR |-> <<0, Unity>>, FC |-> <<M3DB, M3DB>>, LFE |-> <<0, 0>>,
   BL |-> <<M3DB, 0>>, BR |-> <<0, M3DB>>, SL |-> <<M3DB, 0>>, SR |-> <<0, M3DB>>, BC |-> <<500, 500>>]

DOWNMIX_LAYOUTS ==
  {<<"FL", "FR", "LFE">>, <<"FL", "FR", "FC">>, <<"FL", "FR", "BC">>, <<"FL", "FR", "FC", "LFE">>,
   <<"FL", "FR", "FC", "BC">>, <<"FL", "FR", "BL", "BR">>, <<"FL", "FR", "SL", "SR">>,
   <<"FL", "FR", "FC", "LFE", "BC">>, <<"FL", "FR", "FC", "BL", "BR">>, <<"FL", "FR", "FC", "SL", "SR">>,
   <<"FL", "FR", "FC", "LFE", "BL", "BR">>, <<"FL", "FR", "FC", "LFE", "SL", "SR">>,
   <<"FL", "FR", "FC", "BC", "SL", "SR">>, <<"FL", "FR", "FC", "BL", "BR", "BC">>,
   <<"FL", "FR", "FC", "LFE", "BC", "SL", "SR">>, <<"FL", "FR", "FC", "LFE", "BL", "BR", "BC">>,
   <<"FL", "FR", "FC", "BL", "BR", "SL", "SR">>, <<"FL", "FR", "FC", "LFE", "BL", "BR", "SL", "SR">>,
   <<"FL", "FR", "FC", "BL", "BR", "BC", "SL", "SR">>}

SURROUND_CHANNELS == {"FL", "FR", "FC", "LFE", "SL", "SR"}

SURROUND_FOLDS ==
  [BL |-> {"SL"}, BR |-> {"SR"}, BC |-> {"SL", "SR"}, FLC |-> {"FL", "FC"}, FRC |-> {"FR", "FC"}]

SURROUND_FOLD_LAYOUTS ==
  {<<"FL", "FR", "FC", "LFE", "BC", "SL", "SR">>, <<"FL", "FR", "FC", "LFE", "BL", "BR", "BC">>,
   <<"FL", "FR", "LFE", "FLC", "FRC", "SL", "SR">>, <<"FL", "FR", "FC", "BL", "BR", "SL", "SR">>,
   <<"FL", "FR", "FC", "FLC", "FRC", "SL", "SR">>, <<"FL", "FR", "FC", "LFE", "BL", "BR", "SL", "SR">>,
   <<"FL", "FR", "FC", "LFE", "BL", "BR", "FLC", "FRC">>,
   <<"FL", "FR", "FC", "LFE", "FLC", "FRC", "SL", "SR">>,
   <<"FL", "FR", "FC", "BL", "BR", "BC", "SL", "SR">>}

SumOf(gains) == FoldFunction(+, 0, gains)

\* What a mix is made by: no matrix ("format"), ffmpeg's own, normalised
\* ("own"), or the matrix of its rows, each normalised by the loudest row's
\* total; and whether a limiter follows.
Mix(by, rows, total, limited) == [by |-> by, rows |-> rows, total |-> total, limited |-> limited]
NoRows == << >>

Matrix(rows) ==
  LET totals == {SumOf(rows[out]) : out \in DOMAIN rows}
      total == CHOOSE t \in totals : \A s \in totals : s <= t
  IN Mix("matrix", rows, total, total * M3DB > Unity * Unity)

\* channels: what the stream says; a layout of another number is not believed.
StereoMix(channels, layout) ==
  IF channels <= 2 THEN Mix("format", NoRows, 0, FALSE)
  ELSE IF layout \notin DOWNMIX_LAYOUTS \/ Len(layout) # channels THEN Mix("own", NoRows, 0, TRUE)
  ELSE Matrix([side \in {1, 2} |-> [name \in Range(layout) |-> DOWNMIX_GAINS[name][side]]])

FoldsInto(name) == IF name \in SURROUND_CHANNELS THEN {name} ELSE SURROUND_FOLDS[name]

\* A channel that has a place of its own, or takes one its layout leaves
\* free, stays as it is; any other is folded at -3 dB.
FoldGain(name, layout) ==
  IF \E into \in FoldsInto(name) : FoldsInto(name) = {into} /\ (into = name \/ into \notin Range(layout))
  THEN Unity ELSE M3DB

SurroundMix(channels, layout) ==
  IF channels <= 6 THEN Mix("format", NoRows, 0, FALSE)
  ELSE IF layout \notin SURROUND_FOLD_LAYOUTS \/ Len(layout) # channels THEN Mix("own", NoRows, 0, TRUE)
  ELSE Matrix([out \in SURROUND_CHANNELS |->
         [name \in {n \in Range(layout) : out \in FoldsInto(n)} |-> FoldGain(name, layout)]])

(***************************************************************************)
(* The lift.                                                               *)
(***************************************************************************)

LIFT_WITHIN == 10
LIFT_MAX == 140
LIFT_MIN_SECONDS == 3
SILENT == -700
LIFT_CEILING == -40
LIFT_TRUE_PEAK == -20
LIFT_TOLERANCE == 5
LIFT_PROBES == <<0, 40>>
STEREO_LOUDNESS_RANGE == -350 .. -100

Least(a, b) == IF a <= b THEN a ELSE b
Most(a, b) == IF a <= b THEN b ELSE a

\* The level quiet mixes are lifted to, {} for none: the setting's, a number
\* or "off", else the options' own.
WithSettings(own, setting) ==
  IF setting = <<"off">> THEN {}
  ELSE IF Len(setting) = 2 /\ setting[2] \in STEREO_LOUDNESS_RANGE THEN {setting[2]} ELSE own

\* The tracks measured, and those whose signals the temp folder has room for:
\* all or none of them.
ShownTracks(tracks, visible, default) == visible \cup ({default} \cap DOMAIN tracks)

StereoSignals(shown, target, room) == IF target # {} /\ Cardinality(shown) <= room THEN shown ELSE {}

\* By how much a mix is lifted over the level it has without.
StereoLift(loudness, makeup, target) ==
  {Least(p[1] - (p[2].integrated + makeup), LIFT_MAX) :
     p \in {q \in target \X loudness :
        /\ q[2].seconds >= LIFT_MIN_SECONDS /\ q[2].integrated > SILENT
        /\ q[2].integrated + makeup < q[1] - LIFT_WITHIN}}

\* The make-up on the line between two probes that is at the level, {} where
\* the line is flat.
LiftMakeup(probes, level) ==
  LET line(p) == LIFT_PROBES[1] + ((level - p[1]) * (LIFT_PROBES[2] - LIFT_PROBES[1])) \div (p[2] - p[1])
  IN {Least(Most(line(p), 0), 2 * LIFT_PROBES[2]) :
        p \in {q \in probes : 10 * (q[2] - q[1]) >= LIFT_PROBES[2] - LIFT_PROBES[1]}}

\* Mutant of Over: a true peak at the limit passes.
OverAbove(made) == made.peak > LIFT_TRUE_PEAK

Over(made) == made.peak >= LIFT_TRUE_PEAK
Off(made, level) == made.integrated - level \notin -LIFT_TOLERANCE .. LIFT_TOLERANCE

\* The settings of the second pass, from what the first one made.
Again(pass, made, level) ==
  [ceiling |-> IF Over(made) THEN pass.ceiling - (made.peak - LIFT_TRUE_PEAK + 5) ELSE pass.ceiling,
   makeup |-> IF Off(made, level) THEN pass.makeup + level - made.integrated ELSE pass.makeup]

Lifted(mark, level, passes) == [mark |-> mark, level |-> level, passes |-> passes]
SkippedLift == Lifted("skipped", 0, <<>>)

LIFT_TIMING_SLACK == 2

\* The same but for the length, in units of 1/base seconds, which may differ
\* by the slack.
SameTiming(lifted, rendition) ==
  \E a \in lifted, b \in rendition :
     /\ [a EXCEPT !.duration = b.duration] = b
     /\ 1000 * (a.duration - b.duration) \in -LIFT_TIMING_SLACK * a.base .. LIFT_TIMING_SLACK * a.base

\* One track: its loudness, the probes, what each pass made ({} where it
\* failed or could not be measured), and the timing of what is lifted and of
\* what it replaces ({} unread).
LiftOne(run, makeup, target) ==
  LET lifts == StereoLift(run.loudness, makeup, target)
      lift == CHOOSE l \in lifts : TRUE
      level == (CHOOSE l \in run.loudness : TRUE).integrated + makeup + lift
      makeups == LiftMakeup(run.probes, level)
      first == [ceiling |-> LIFT_CEILING, makeup |-> CHOOSE m \in makeups : TRUE]
      made == CHOOSE m \in run.made[1] : TRUE
      second == Again(first, made, level)
      settled(passes) == IF SameTiming(run.timing[1], run.timing[2]) THEN Lifted("lifted", level, passes) ELSE SkippedLift
  IN IF run.loudness = {} THEN SkippedLift
     ELSE IF lifts = {} THEN Lifted("kept", 0, <<>>)
     ELSE IF makeups = {} \/ run.made[1] = {} THEN SkippedLift
     ELSE IF ~ Over(made) /\ ~ Off(made, level) THEN settled(<<first>>)
     ELSE IF run.made[2] = {} \/ \E m \in run.made[2] : Over(m) THEN SkippedLift
     ELSE settled(<<first, second>>)

(***************************************************************************)
(* The streams.                                                            *)
(***************************************************************************)

\* What becomes of the shown tracks' renditions; one without a signal is
\* skipped.  lifts: of those with a signal.
Marks(shown, lifts, target) ==
  IF target = {} THEN << >>
  ELSE [i \in shown |-> IF i \in DOMAIN lifts THEN lifts[i] ELSE "skipped"]

Stream(track, mix) == [track |-> track, mix |-> mix]

\* The MP4: the video, every track in stereo, then the companions.
PrimaryStreams(tracks, companions) ==
  <<Stream(0, "video")>> \o [i \in DOMAIN tracks |-> Stream(i, "stereo")]
  \o [k \in DOMAIN companions |-> Stream(companions[k], "surround")]

\* The renditions in the order they are packaged in, a{n} the n-th: own
\* where the rendition is in an MP4 of its own.
AudioEntry(group, i, own, default, visible, track) ==
  [group |-> group, idx |-> i, own |-> own, default |-> default, visible |-> visible,
   lang |-> track.lang, purpose |-> AudioPurpose(track)]

AudioEntries(tracks, companions, marks, visible, default, surroundDefault) ==
  [i \in DOMAIN tracks |-> AudioEntry("audio", i, i \in DOMAIN marks /\ marks[i] = "lifted",
                                       i = default, i \in visible, tracks[i])]
  \o [k \in DOMAIN companions |->
        LET i == companions[k]
        IN AudioEntry("audio-surround", i, FALSE, i = surroundDefault, i \in visible, tracks[i])]

\* Mutant of StreamNumber: a lifted rendition takes no place in the MP4.
StreamNumberOfOthers(entries, n) == Cardinality({m \in 1 .. n : ~ entries[m].own})

StreamNumber(entries, n) == n

\* What rendition n is packaged from.
PackagedFrom(primary, entries, n) ==
  IF entries[n].own THEN Stream(entries[n].idx, "lifted") ELSE primary[StreamNumber(entries, n) + 1]

\* What the done step tells: marks, what became of the shown tracks' stereo.
StereoLoudnessOf(marks, target) ==
  LET of(m) == Cardinality({i \in DOMAIN marks : marks[i] = m})
  IN [off |-> target = {}, lifted |-> of("lifted"), kept |-> of("kept"), skipped |-> of("skipped")]

Details(entries, stereo) ==
  LET of(g) == Cardinality({n \in DOMAIN entries : entries[n].group = g})
  IN [a |-> of("audio"), a51 |-> of("audio-surround"), st |-> stereo]

GroupsOf(entries) == {entries[n].group : n \in DOMAIN entries}
InGroup(entries, group) == InOrder({n \in DOMAIN entries : entries[n].group = group}, Len(entries))

\* A group as the master lists it: rendition, DEFAULT and AUTOSELECT.
MediaLines(entries, group) ==
  LET ns == InGroup(entries, group)
      metas == [k \in DOMAIN ns |-> entries[ns[k]]]
      order == MainFirst([k \in DOMAIN ns |-> metas[k].lang], [k \in DOMAIN ns |-> metas[k].purpose = "main"])
  IN [p \in DOMAIN ns |-> [n |-> ns[order[p]], default |-> metas[order[p]].default,
                           autoselect |-> AudioAutoselect(metas)[order[p]] \/ metas[order[p]].default]]
=============================================================================
