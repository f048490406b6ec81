----------------------------- MODULE BuildPackage -----------------------------
(***************************************************************************)
(* A package built in its staging folder: build_package and the tools it   *)
(* runs one after the other (ffmpeg, mkvextract, shaka-packager), then     *)
(* _verify_staged, as package_item and the library's runs call them.       *)
(*                                                                         *)
(* The folder is a set of files, each named by a kind, a number and a part *)
(* (the vtt of subtitle 2 is <<"sub", 2, "vtt">>); a rendition's playlist, *)
(* init section and segments are one file here.  What a file holds is      *)
(* <<"whole", n>> (all of track, rung or font n), <<"part", n>> (cut       *)
(* short, not empty), <<"empty", n>>, or a variant named below.  A tool    *)
(* that fails may leave its output cut short; one that claims a file it    *)
(* did not write lies.  Which tracks are shown is TrackPlan's.             *)
(***************************************************************************)
EXTENDS Naturals, Sequences, FiniteSets

CONSTANTS
    Codecs,     \* of the source's subtitle tracks
    Scripts,    \* what a subtitle file beside the source is: "srt", "ass"
    Ranges,     \* of a rung's video: "pq", "sdr"
    MaxRungs, MaxTracks,  \* bounds: rungs; subtitle tracks, files and fonts
    MaxFaults             \* ... and failures of a tool

ASSUME BuildAssumption ==
    /\ Codecs \subseteq {"text", "ass", "pgs", "vobsub", "dvb"}
    /\ Scripts \subseteq {"srt", "ass"} /\ Ranges \subseteq {"pq", "sdr"}
    /\ MaxRungs \in Nat \ {0} /\ MaxTracks \in Nat /\ MaxFaults \in Nat

VARIABLES
    src,        \* the source: its subtitles, the files beside it, fonts, rungs
    pc,         \* the next step, or how it ended
    files,      \* name -> what it holds, of the files there are
    written,    \* the subtitle tracks extracted
    styled,     \* ... and those whose script is kept beside them
    audio,      \* the stereo rendition: "whole", "lifted" or "over" (its peak)
    staged,     \* the rungs to package
    entries,    \* the manifest's subtitles: number, format, styled, hls
    fonts,      \* ... fonts, those of the original it kept
    boxed,      \* ... rungs said to carry the HDR10 metadata
    sheets,     \* ... trickplay's sprites, 0 without one
    why,        \* what failed the run
    lied, faults

tracks == <<written, styled>>
media  == <<audio, staged>>
manifest == <<entries, fonts, boxed, sheets>>
vars == <<src, pc, files, tracks, media, manifest, why, lied, faults>>

UpTo(n, S) == UNION {[1..m -> S] : m \in 0..n}

Sources ==
    {s \in [subs : UpTo(MaxTracks, Codecs), beside : UpTo(MaxTracks, Scripts),
            fonts : 0..MaxTracks, rungs : UpTo(MaxRungs, Ranges) \ {<< >>}] :
        Len(s.subs) + Len(s.beside) + s.fonts <= MaxTracks}

Steps == {"transmux", "lift", "rungs", "together", "alone", "styled", "vobsubs",
          "setup", "entries", "convert", "fonts", "media", "hdr10", "text",
          "trickplay", "verify", "placed", "failed"}

Init ==
    /\ src \in Sources /\ pc = "transmux" /\ files = << >>
    /\ written = {} /\ styled = {} /\ audio = "whole" /\ staged = {1}
    /\ entries = {} /\ fonts = {} /\ boxed = {} /\ sheets = 0
    /\ why = "" /\ lied = FALSE /\ faults = 0

-----------------------------------------------------------------------------
(* Files and failures *)

\* `new` written over what is there.
With(new) == [f \in DOMAIN files \cup DOMAIN new |->
                 IF f \in DOMAIN new THEN new[f] ELSE files[f]]
All(names, as)  == [f \in names |-> <<as, f[2]>>]
Without(names)  == [f \in DOMAIN files \ names |-> files[f]]

\* n tools fail; the run goes on, or ends with what it wrote left.
Faults(n) == faults + n <= MaxFaults /\ faults' = faults + n
Goto(step) == pc' = step /\ UNCHANGED why
Fail(reason) == pc' = "failed" /\ why' = reason

\* What each of some outputs came to, with those that failed counted.
Outcome(S, good, bad) ==
    {o \in [S -> good \cup bad] : faults + Cardinality({x \in S : o[x] \in bad}) <= MaxFaults}
Counted(o, bad) == faults' = faults + Cardinality({x \in DOMAIN o : o[x] \in bad})
Who(o, how) == {x \in DOMAIN o : o[x] \in how}

-----------------------------------------------------------------------------
(* The media's inputs *)

\* _prepare_source: the top rung and the audio in one MP4.
Transmux ==
    /\ pc = "transmux" /\ UNCHANGED <<src, files, tracks, media, manifest, lied>>
    /\ \/ Faults(0) /\ Goto("lift")
       \/ Faults(1) /\ Fail("transmux")

\* A lift is measured and made again once where it is over the peak or off
\* its level; "off" it is taken then, "over" never.
Lifts == {<<"fits">>} \cup {"over", "off"} \X {"fits", "over", "off"}

OverPeak(lift) == lift[Len(lift)] = "over"

\* Mutant of LiftTaken: the second pass is taken as it is.
LiftTakenAnyhow(lift) == Len(lift) > 0

LiftTaken(lift) == ~OverPeak(lift)

\* _lift_stereo: the shown track's stereo lifted, if it is quiet, is measured
\* and keeps its timing; nothing that fails here costs more than the lift.
LiftStereo ==
    /\ pc = "lift" /\ Goto("rungs") /\ Faults(0)
    /\ audio' \in {"whole"} \cup {IF OverPeak(l) THEN "over" ELSE "lifted" :
                                      l \in {l \in Lifts : LiftTaken(l)}}
    /\ UNCHANGED <<src, files, tracks, staged, manifest, lied>>

\* _remux_video: a lower rung that can't be packaged is left out.
RemuxRungs ==
    /\ pc = "rungs" /\ Goto("together")
    /\ \E lost \in SUBSET (2..Len(src.rungs)) :
          Faults(Cardinality(lost)) /\ staged' = (1..Len(src.rungs)) \ lost
    /\ UNCHANGED <<src, files, tracks, audio, manifest, lied>>

-----------------------------------------------------------------------------
(* The subtitles: of the source (_extract_subtitles) ... *)

Tracks == 1..Len(src.subs)
Of(codecs) == {i \in Tracks : src.subs[i] \in codecs}
OnePass == Of({"text", "ass", "pgs"})
Format == [text |-> "vtt", ass |-> "vtt", pgs |-> "sup", vobsub |-> "idx", dvb |-> "dvb"]

Sidecar(i) == <<"sub", i, Format[src.subs[i]]>>
Script(i)  == <<"sub", i, "ass">>
Pair(i)    == {<<"sub", i, "idx">>, <<"sub", i, "sub">>}
Sidecars(S) == {Sidecar(i) : i \in S}
ScriptsOf(S) == {Script(i) : i \in S}

\* What one run of ffmpeg is to write: each track's file, and the scripts kept.
Outputs == Sidecars(OnePass) \cup ScriptsOf(OnePass \cap Of({"ass"}))

\* One ffmpeg run for all; where it fails all of it is removed, and each is
\* extracted alone.  Out of time, it fails the title.
ExtractTogether ==
    /\ pc = "together" /\ UNCHANGED <<src, media, manifest, lied>>
    /\ LET scripts == OnePass \cap Of({"ass"})
       IN \/ /\ Cardinality(Outputs) <= 1 /\ Goto("alone") /\ Faults(0)
             /\ UNCHANGED <<files, tracks>>
          \/ /\ Cardinality(Outputs) > 1 /\ Goto("vobsubs")
             /\ written' = OnePass /\ styled' = scripts
             /\ \E empty \in SUBSET scripts :
                   /\ Faults(Cardinality(empty))
                   /\ files' = [f \in Outputs |->
                                   <<IF f \in ScriptsOf(empty) THEN "empty" ELSE "whole", f[2]>>]
          \/ /\ Cardinality(Outputs) > 1 /\ Goto("alone") /\ Faults(1)
             /\ UNCHANGED <<files, tracks>>
          \/ /\ Cardinality(Outputs) > 1 /\ Fail("timeout") /\ Faults(1)
             /\ UNCHANGED <<files, tracks>>

\* _extract_alone believes ffmpeg's exit code: the file it fails on is left
\* cut short and not named, unless it was killed; one it says it wrote is.
ExtractAlone ==
    /\ pc = "alone" /\ Goto("styled") /\ UNCHANGED <<src, styled, media, manifest>>
    /\ \E o \in Outcome(OnePass, {"done"}, {"fail", "kill", "lie"}) :
          /\ Counted(o, {"fail", "kill", "lie"})
          /\ written' = Who(o, {"done", "lie"})
          /\ lied' = (Who(o, {"lie"}) # {})
          /\ files' = [f \in Sidecars(Who(o, {"done", "fail"})) |->
                          <<IF o[f[2]] = "done" THEN "whole" ELSE "part", f[2]>>]

\* Mutant of ScriptsKept: the script a failed run left is kept.
ScriptsKeptAnyhow(o) == Who(o, {"done", "empty", "fail"})

ScriptsKept(o) == Who(o, {"done", "empty"})

\* _extract_styled: a script that can't be copied is unlinked.
ExtractStyled ==
    /\ pc = "styled" /\ Goto("vobsubs") /\ UNCHANGED <<src, written, media, manifest, lied>>
    /\ \E o \in Outcome(written \cap Of({"ass"}), {"done"}, {"fail", "empty"}) :
          /\ Counted(o, {"fail", "empty"})
          /\ styled' = ScriptsKept(o)
          /\ files' = With([f \in ScriptsOf(ScriptsKept(o)) |->
                 <<CASE o[f[2]] = "done" -> "whole" [] o[f[2]] = "empty" -> "empty"
                     [] OTHER -> "part", f[2]>>])

\* _extract_vobsubs: a track mkvmerge and ffprobe don't agree on is not asked
\* for; a pair of which both files hold something is taken, whatever
\* mkvextract's exit code: one it was stopped in ("short") as well.
ExtractVobsubs ==
    /\ pc = "vobsubs" /\ Goto("setup") /\ UNCHANGED <<src, styled, media, manifest, lied>>
    /\ \E o \in Outcome(Of({"vobsub"}), {"done", "unlisted"}, {"fail", "short"}) :
          /\ Counted(o, {"fail", "short"})
          /\ written' = written \cup Who(o, {"done", "short"})
          /\ files' = With([f \in UNION {Pair(i) : i \in Who(o, {"done", "short"})} |->
                 <<IF o[f[2]] = "done" THEN "whole" ELSE "part", f[2]>>])

\* The formats ffmpeg can't write fail, each alone.  Then a script that is
\* not there, or empty, is dropped.
SetupFails ==
    /\ pc = "setup" /\ Goto("entries") /\ Faults(0)
    /\ UNCHANGED <<src, written, media, manifest, lied>>
    /\ LET dropped == {i \in styled : i \notin written \/ Script(i) \notin DOMAIN files
                                          \/ files[Script(i)][1] = "empty"}
       IN /\ styled' = styled \ dropped
          /\ \E left \in SUBSET Of({"dvb"}) :
                files' = [f \in (DOMAIN files \ ScriptsOf(dropped)) \cup Sidecars(left) |->
                             IF f \in DOMAIN files THEN files[f] ELSE <<"part", f[2]>>]

Entry(n, format, script) == [n |-> n, format |-> format, styled |-> script, hls |-> FALSE]

\* The manifest's entries; a PGS that was claimed but isn't there is missed
\* as its size is asked.
NameSubtitles ==
    /\ pc = "entries" /\ Faults(0) /\ UNCHANGED <<src, files, tracks, media, fonts, boxed, sheets, lied>>
    /\ IF \E i \in written \cap Of({"pgs"}) : Sidecar(i) \notin DOMAIN files
       THEN Fail("missing") /\ UNCHANGED entries
       ELSE /\ Goto("convert")
            /\ entries' = {Entry(i, Format[src.subs[i]], i \in styled) : i \in written}

(* ... and beside it (_convert_subtitle_files) *)

\* Mutant of Number: numbered by the files converted so far.
NumberOfDone(k, done) == Len(src.subs) + 1 + Cardinality({j \in done : j < k})

\* A file that fails keeps its number: the handover finds each by it.
Number(k, done) == Len(src.subs) + k

ConvertFiles ==
    /\ pc = "convert" /\ Goto("fonts") /\ UNCHANGED <<src, tracks, media, fonts, boxed, sheets, lied>>
    /\ \E o \in Outcome(1..Len(src.beside), {"done"}, {"fail"}) :
          LET done == Who(o, {"done"})
              names(k) == {<<"sub", Number(k, done), "vtt">>} \cup
                  (IF src.beside[k] = "ass" THEN {<<"sub", Number(k, done), "ass">>} ELSE {})
          IN /\ Counted(o, {"fail"})
             /\ files' = With([f \in UNION {names(k) : k \in done} |->
                    <<"whole", Len(src.subs) + CHOOSE k \in done : f \in names(k)>>])
             /\ entries' = entries \cup
                    {Entry(Number(k, done), "vtt", src.beside[k] = "ass") : k \in done}

\* A font is numbered by the fonts kept before it.
Font(i, kept) == <<"font", Cardinality({j \in kept : j <= i}), "ttf">>

\* _extract_fonts: each that came out whole.
ExtractFonts ==
    /\ pc = "fonts" /\ Goto("media") /\ UNCHANGED <<src, tracks, media, entries, boxed, sheets, lied>>
    /\ \E o \in Outcome(1..src.fonts, {"done"}, {"fail"}) :
          /\ Counted(o, {"fail"})
          /\ fonts' = Who(o, {"done"})
          /\ files' = With([f \in {Font(i, fonts') : i \in fonts'} |->
                               <<"whole", CHOOSE i \in fonts' : Font(i, fonts') = f>>])

-----------------------------------------------------------------------------
(* The media (_run_shaka_packager) *)

Rung(r) == <<"rung", r, "playlist">>
Stereo  == <<"audio", 1, "playlist">>
Master  == <<"master", 1, "playlist">>
Text(n) == <<"text", n, "playlist">>

\* Every rung and rendition in one run, which is whole or fails.
PackageMedia ==
    /\ pc = "media" /\ UNCHANGED <<src, tracks, media, manifest, lied>>
    /\ \/ /\ Faults(0) /\ Goto("hdr10")
          /\ files' = With([f \in {Rung(r) : r \in staged} \cup {Stereo} |->
                               <<IF f = Stereo THEN audio ELSE "whole", f[2]>>])
       \/ Faults(1) /\ Fail("media") /\ UNCHANGED files

\* Mutant of AllBoxed: what could be written is enough.
AllBoxedSome(bad, pq) == bad # pq \/ pq = {}

AllBoxed(bad, pq) == bad = {}

\* _write_hdr10: every PQ rung, where the original has the metadata.
WriteHdr10 ==
    /\ pc = "hdr10" /\ UNCHANGED <<src, tracks, media, entries, fonts, sheets, lied>>
    /\ \E found \in BOOLEAN :
          LET pq == IF found THEN {r \in staged : src.rungs[r] = "pq"} ELSE {}
          IN \E bad \in SUBSET pq :
                /\ Faults(Cardinality(bad))
                /\ files' = With(All({Rung(r) : r \in pq \ bad}, "boxed"))
                /\ IF AllBoxed(bad, pq)
                   THEN Goto("text") /\ boxed' = pq
                   ELSE Fail("hdr10") /\ UNCHANGED boxed

\* Mutant of Segmented: a failed rendition keeps its mark.
SegmentedAnyhow(o) == DOMAIN o

Segmented(o) == Who(o, {"done"})

\* _package_text_tracks: each shown WebVTT in a run of its own; one that fails
\* (as one whose file isn't there does) or holds no cue has its folder removed.
\* The master names the others.
PackageTextTracks ==
    /\ pc = "text" /\ Goto("trickplay")
    /\ UNCHANGED <<src, tracks, media, fonts, boxed, sheets, lied>>
    /\ \E shown \in SUBSET {e \in entries : e.format = "vtt"
                                    /\ <<"sub", e.n, "vtt">> \in DOMAIN files} :
       \E o \in Outcome(shown, {"done", "no cue"}, {"fail"}) :
          /\ Counted(o, {"fail"})
          /\ entries' = {[e EXCEPT !.hls = e \in Segmented(o)] : e \in entries}
          /\ files' = With(All({Text(e.n) : e \in Who(o, {"done"})} \cup {Master}, "whole"))

-----------------------------------------------------------------------------
(* Trickplay and the check *)

Cells == 2      \* of a sheet
Thumbs == 1..3  \* how many the source's length asks for
Sprite(x) == <<"sprite", x, "jpg">>
Vtt == <<"sprite", 0, "vtt">>

LeastOf(m, n) == IF m < n THEN m ELSE n

\* Mutant of Cues: one for each thumbnail expected.
CuesExpected(expected, came) == expected

Cues(expected, came) == LeastOf(expected, came * Cells)

\* _generate_trickplay: not for a short source, nor when ffmpeg fails (what it
\* wrote is left, and not named); cues for the sheets that came.
Trickplay ==
    /\ pc = "trickplay" /\ Goto("verify")
    /\ UNCHANGED <<src, tracks, media, entries, fonts, boxed, lied>>
    /\ \/ Faults(0) /\ UNCHANGED <<files, sheets>>
       \/ Faults(1) /\ files' = With(All({Sprite(1)}, "part")) /\ UNCHANGED sheets
       \/ \E expected \in Thumbs, came \in 1..2 :
             /\ Faults(0)
             /\ sheets' = (Cues(expected, came) + Cells - 1) \div Cells
             /\ files' = With(All({Sprite(x) : x \in 1..came} \cup {Vtt}, "whole"))

\* What the manifest and the master name: what may be empty, and what not.
Sides(e) == {<<"sub", e.n, e.format>>} \cup
            (IF e.format = "idx" THEN {<<"sub", e.n, "sub">>} ELSE {})
NamedSides == UNION {Sides(e) : e \in entries}
Named ==
    {Master, Stereo} \cup {Rung(r) : r \in staged}
    \cup {Script(e.n) : e \in {e \in entries : e.styled}}
    \cup {Text(e.n) : e \in {e \in entries : e.hls}}
    \cup {Font(i, fonts) : i \in fonts}
    \cup (IF sheets > 0 THEN {Sprite(x) : x \in 1..sheets} \cup {Vtt} ELSE {})

\* _verify_staged
Verify ==
    /\ pc = "verify" /\ Faults(0) /\ UNCHANGED <<src, files, tracks, media, manifest, lied>>
    /\ IF /\ NamedSides \cup Named \subseteq DOMAIN files
          /\ \A f \in Named : files[f][1] # "empty"
       THEN Goto("placed")
       ELSE Fail("missing")

Next ==
    \/ Transmux \/ LiftStereo \/ RemuxRungs \/ ExtractTogether \/ ExtractAlone
    \/ ExtractStyled \/ ExtractVobsubs \/ SetupFails \/ NameSubtitles \/ ConvertFiles
    \/ ExtractFonts \/ PackageMedia \/ WriteHdr10 \/ PackageTextTracks \/ Trickplay
    \/ Verify

Spec == Init /\ [][Next]_vars

-----------------------------------------------------------------------------
(* Properties *)

\* Each file a placed package names holds all of the very track, font or rung
\* it is named for, whichever tools failed before it -- but for a VobSub pair
\* mkvextract was stopped in; every PQ rung is said to carry the HDR10
\* metadata and does, or none is; and no lifted stereo is over its peak.
PlacedIsWhole ==
    pc = "placed" =>
        /\ \A e \in entries : \A f \in Sides(e) :
              files[f] \in {<<"whole", e.n>>}
                  \cup (IF e.format = "idx" THEN {<<"part", e.n>>} ELSE {})
        /\ \A e \in entries : e.styled => files[Script(e.n)] = <<"whole", e.n>>
        /\ \A i \in fonts : files[Font(i, fonts)] = <<"whole", i>>
        /\ \A r \in staged : files[Rung(r)] = <<IF r \in boxed THEN "boxed" ELSE "whole", r>>
        /\ boxed \in {{}, {r \in staged : src.rungs[r] = "pq"}}
        /\ files[Stereo][1] # "over"

\* What a tool does for one track, rung, script, font or preview costs that
\* alone: the check before the swap refuses no package for a step that failed
\* and went on, only for a tool that claimed a file it did not write.
OptionalCostsItself == why = "missing" => lied
=============================================================================
